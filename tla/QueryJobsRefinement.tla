------------------------- MODULE QueryJobsRefinement -------------------------
(***************************************************************************)
(* The query engine seen through what a client can observe of a job.       *)
(***************************************************************************)
EXTENDS QueryJobs

ClosedAs(j) == CASE msg[j].state = "acked"     -> "done"
                 [] msg[j].state = "exhausted" -> "given_up"
                 [] OTHER                      -> "open"

Promise == INSTANCE JobLifecycle WITH
  status <- [j \in Jobs |-> store[j].status],
  runs   <- [j \in Jobs |-> Cardinality(executed[j])],
  closed <- [j \in Jobs |-> ClosedAs(j)]

\* Every step of the engine is a step of the promise or invisible: a job ends
\* once, runs only while it is running, and its message is acknowledged only
\* after its end (processor.go:50-167, worker.go:85-100, store.go:194-241).
KeepsPromise == Promise!Spec
=============================================================================
