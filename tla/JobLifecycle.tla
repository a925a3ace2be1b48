----------------------------- MODULE JobLifecycle -----------------------------
(***************************************************************************)
(* What the query engine promises a client about each job, without store,  *)
(* queue or workers: a job is recorded, runs at most while it is running,  *)
(* ends once, and its message is done with only after that, unless the     *)
(* engine gives up on it.                                                  *)
(***************************************************************************)
EXTENDS Naturals

CONSTANT Jobs

VARIABLES
  status,  \* what GetJobStatus answers ("none": not found)
  runs,    \* how often the query was sent to the database
  closed   \* "open", "done" (acknowledged) or "given_up"

vars == <<status, runs, closed>>

Over(j) == status[j] \in {"success", "failed"}

Init ==
  /\ status = [j \in Jobs |-> "none"]
  /\ runs   = [j \in Jobs |-> 0]
  /\ closed = [j \in Jobs |-> "open"]

Moves(j, from, to) ==
  /\ status[j] \in from
  /\ status' = [status EXCEPT ![j] = to]
  /\ UNCHANGED <<runs, closed>>

Accept(j)  == Moves(j, {"none"}, "pending")
Begin(j)   == Moves(j, {"pending"}, "running")
Fail(j)    == Moves(j, {"pending", "running"}, "failed")
Succeed(j) == runs[j] > 0 /\ Moves(j, {"running"}, "success")

Run(j) ==
  /\ status[j] = "running"
  /\ runs' = [runs EXCEPT ![j] = @ + 1]
  /\ UNCHANGED <<status, closed>>

Close(j) ==
  /\ closed[j] = "open"
  /\ \/ Over(j) /\ closed' = [closed EXCEPT ![j] = "done"]
     \/ closed' = [closed EXCEPT ![j] = "given_up"]
  /\ UNCHANGED <<status, runs>>

Next == \E j \in Jobs : \/ Accept(j) \/ Begin(j) \/ Fail(j) \/ Succeed(j)
                        \/ Run(j) \/ Close(j)

Spec == Init /\ [][Next]_vars
=============================================================================
