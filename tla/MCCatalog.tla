------------------------------ MODULE MCCatalog ------------------------------
(***************************************************************************)
(* Instances of AdapterPools for TLC.                                      *)
(***************************************************************************)
EXTENDS AdapterPools, TLC

CONSTANTS u1, u2, c1, p1, r1, r2

CatalogSymmetry == Permutations(Users) \cup Permutations(Requests)

OnlyDatabase == {"db"}
=============================================================================
