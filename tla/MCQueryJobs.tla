---------------------------- MODULE MCQueryJobs ----------------------------
(***************************************************************************)
(* Instances of QueryJobs for TLC: which failures each run allows.         *)
(***************************************************************************)
EXTENDS QueryJobsRefinement, TLC

CONSTANTS j1, p1, w1, w2

\* The workers are interchangeable.
WorkerSymmetry == Permutations(Workers)

\* Everything but a running-out AckWait: no two deliveries overlap.
NoOverlap == FaultKinds \ {"ackwait"}

\* ... and what a Redis reply says is true.
HonestStore == FaultKinds \ {"ackwait", "load", "reply"}

\* The failures of the violation run.
LoadAndAudit == {"load", "audit"}
=============================================================================
