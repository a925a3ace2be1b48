---------------------------- MODULE MCAuditTrail ----------------------------
(***************************************************************************)
(* Instances of AuditTrail for TLC.                                        *)
(***************************************************************************)
EXTENDS AuditTrail

CONSTANTS j1, w1, w2

\* Failures after which the store still answers and no process of the query
\* engine dies: all events of a job agree, and every queued job ends.
StoreAnswers == {"publish", "object", "audit", "ack", "shutdown"}

\* A write that fails once.
OnlySave     == {"save"}
NoSinkFaults == {}
=============================================================================
