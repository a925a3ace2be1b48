---------------------------- MODULE MCAgentSession ----------------------------
(***************************************************************************)
(* Instance of Listings and AgentSession: integers of five bits, results   *)
(* of up to three pages of the default size, page sizes on both sides of   *)
(* every bound; five connections, one of them somebody else's, two made at *)
(* the same instant, one sealed under another key, and a workspace.        *)
(***************************************************************************)
EXTENDS Listings

MCRowCounts  == 0 .. 7
\* 34 is the size 2 and 16 the page -16 in five bits.
MCSizes      == (-1 .. 4) \cup {34}
MCFirstPages == -1 .. 16

Row(id, kind, user, at, readable) ==
  [id |-> id, kind |-> kind, user |-> user, at |-> at, readable |-> readable]

MCPool ==
  {Row(1, "connections", "alice", 1, TRUE),  Row(2, "connections", "alice", 2, TRUE),
   Row(3, "connections", "alice", 3, TRUE),  Row(4, "connections", "alice", 3, FALSE),
   Row(5, "connections", "carol", 2, TRUE),  Row(6, "workspaces", "alice", 0, TRUE)}

\* 33 is the limit 1 once it is narrowed to five bits.
MCLimits       == {0, 1, 33}
MCFirstOffsets == {-1, 0}
=============================================================================
