---------------------------- MODULE AdapterPools ----------------------------
(***************************************************************************)
(* Queries over the connections of the catalogue: the worker reads the     *)
(* connection from meta-service and calls ExecuteQuery of the connection   *)
(* manager, whose adapters keep one database pool for each connection      *)
(* identifier in a plain Go map.  Deleting a connection in meta-service    *)
(* does not reach that map, and nothing calls Release.                     *)
(*                                                                         *)
(* The calls of gRPC run concurrently and the map has no lock.  An access  *)
(* that meets a write may stop the process (the runtime's check) or leave  *)
(* the map in any state; `damaged` says that this has happened, and from   *)
(* then on a lookup finds what it likes.  A map in use by one call at a    *)
(* time is an ordinary map.                                                *)
(***************************************************************************)
EXTENDS Catalog

VARIABLES
  pool,    \* connections whose pool is in the map
  opened,  \* opened[c]: pools dialled for c since the process started
  damaged  \* two calls met in the map since the process started

poolVars == <<pool, opened, damaged>>
vars == <<catalogVars, poolVars>>

PoolsInit ==
  /\ pool = {} /\ opened = [c \in Conns |-> 0] /\ damaged = FALSE

Init == CatalogInit /\ PoolsInit

InManager == {"prepare", "dial", "write", "writing", "execute"}

(***************************************************************************)
(* The worker asks meta-service for the connection.                        *)
(***************************************************************************)
QueryStarts(r, u) ==
  /\ HasToken(u)
  /\ \E c \in Given : Starts(r, "get connection", u, c)
  /\ UNCHANGED poolVars

GetConnection(r) ==
  /\ At(r, "get connection")
  /\ \/ Visible(req[r].target, req[r].user) /\ GoesOn(r, "prepare") /\ UNCHANGED store
     \/ ~Visible(req[r].target, req[r].user) /\ Fails(r)
     \/ StatementFails(r)
  /\ UNCHANGED poolVars

(***************************************************************************)
(* Prepare: look up, dial, write.                                          *)
(***************************************************************************)
LookupFinds(c) == IF damaged THEN BOOLEAN ELSE {c \in pool}

\* Slip: Prepare dials without looking.
LookUpNothing(r) ==
  /\ At(r, "prepare")
  /\ GoesOn(r, "dial")
  /\ UNCHANGED <<store, poolVars>>

LookUp(r) ==
  /\ At(r, "prepare")
  /\ \E found \in LookupFinds(req[r].target) : GoesOn(r, IF found THEN "execute" ELSE "dial")
  /\ UNCHANGED <<store, poolVars>>

Dial(r) ==
  /\ At(r, "dial")
  /\ \/ /\ opened' = IF damaged THEN opened ELSE [opened EXCEPT ![req[r].target] = @ + 1]
        /\ GoesOn(r, "write")
        /\ UNCHANGED <<store, pool, damaged>>
     \/ "cm" \in CatalogFaults /\ Fails(r) /\ UNCHANGED poolVars

WriteBegins(r) ==
  /\ At(r, "write")
  /\ GoesOn(r, "writing")
  /\ UNCHANGED <<store, poolVars>>

\* The pool of a call that came second replaces the first one, which stays open.
WriteEnds(r) ==
  /\ At(r, "writing")
  /\ GoesOn(r, "execute")
  /\ pool' = IF damaged THEN pool ELSE pool \cup {req[r].target}
  /\ UNCHANGED <<store, opened, damaged>>

\* Slip: the pool of a query that fails is released.
ExecuteAndRelease(r) ==
  /\ At(r, "execute")
  /\ Fails(r)
  /\ pool' \in {pool, pool \ {req[r].target}}
  /\ UNCHANGED <<opened, damaged>>

\* The query runs on the pool, or fails.
Execute(r) ==
  /\ At(r, "execute")
  /\ Fails(r)
  /\ UNCHANGED poolVars

(***************************************************************************)
(* What becomes of the process.                                            *)
(***************************************************************************)
ManagerRestarts ==
  /\ pool' = {} /\ opened' = [c \in Conns |-> 0] /\ damaged' = FALSE
  /\ req' = [r \in Requests |-> IF req[r].step \in InManager THEN Idle ELSE req[r]]
  /\ UNCHANGED <<store, told>>

Crash == "crash" \in CatalogFaults /\ ManagerRestarts

\* r reaches for the map while another call is writing it.
CallsMeet ==
  \E r, s \in Requests :
    r # s /\ At(s, "writing") /\ req[r].step \in {"prepare", "write", "writing", "execute"}

Race ==
  /\ CallsMeet
  /\ \/ ManagerRestarts
     \/ /\ damaged' = TRUE /\ pool' = {} /\ opened' = [c \in Conns |-> 0]
        /\ UNCHANGED <<store, req, told>>

QueryStep(r) ==
  \/ GetConnection(r) \/ LookUp(r) \/ Dial(r)
  \/ WriteBegins(r) \/ WriteEnds(r) \/ Execute(r)

Next ==
  \/ CatalogNext /\ UNCHANGED poolVars
  \/ /\ \/ \E r \in Requests : QueryStep(r) \/ \E u \in Users : QueryStarts(r, u)
        \/ Crash \/ Race
     /\ UNCHANGED schema

Spec == Init /\ [][Next]_vars

(***************************************************************************)
(* Properties.                                                             *)
(***************************************************************************)
Steps == CatalogSteps \cup InManager \cup {"get connection"}

TypeOK ==
  /\ RowsTypeOK
  /\ req \in [Requests -> [step: Steps, user: Users \cup {Nothing},
                           target: Conns \cup Plugins \cup {Nothing}, version: 0 .. MaxVersion]]
  /\ pool \subseteq Conns /\ opened \in [Conns -> Nat] /\ damaged \in BOOLEAN

\* "Prepare ensures a connection pool exists for the given connection ID": a
\* call that prepared finds its pool, whatever the calls beside it do, if none
\* of them met in the map (adapter/postgres.go:44-55, 69-73).
PreparedFindsPool ==
  \A r \in Requests : At(r, "execute") /\ ~damaged => req[r].target \in pool

\* The pools dialled for a connection, the ones that were replaced and leak
\* included, are no more than the calls that run at the same time: a pool is
\* shared by every later query (adapter/postgres.go:45-55).
PoolsAreShared == \A c \in Conns : opened[c] <= Cardinality(Requests)
=============================================================================
