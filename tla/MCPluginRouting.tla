--------------------------- MODULE MCPluginRouting ---------------------------
(***************************************************************************)
(* Instances of PluginRouting for TLC: two versions of one plugin, which   *)
(* share an adapter type, beside one built-in adapter.                     *)
(***************************************************************************)
EXTENDS PluginRouting

CONSTANTS v1, v2, m1, c1

SameName == [p \in Plugins |-> "warehouse"]
OneBuiltin == {"postgres"}

\* Failures after which the manager still gets its messages through.
NothingLost == {"list", "save", "dial", "cm"}
OnlyLost    == {"lose"}
=============================================================================
