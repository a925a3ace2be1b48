----------------------------- MODULE AuditTrail -----------------------------
(***************************************************************************)
(* The audit pipeline: the events that the query workers publish, and the *)
(* sink of services/meta-service that moves them into the audit_events     *)
(* table.  QueryJobs appends the events to the stream (audit); this module *)
(* adds the durable consumer "postgres-audit-sink", the goroutine that     *)
(* fetches from it, and the table.  Event i of job j is the pair <<j, i>>; *)
(* every event of a job carries the same ID, so the table has one row per  *)
(* job.  audit.Publish is the only writer of the stream, so the branch of  *)
(* the sink for payloads that are not valid events has nothing to do.      *)
(***************************************************************************)
EXTENDS QueryJobs

CONSTANTS
  SinkDeliver,  \* MaxDeliver of the sink's consumer
  SinkFaults    \* the kinds of failure on the sink's side

(***************************************************************************)
(*  insert    the INSERT fails without taking effect                       *)
(*  reply     the INSERT takes effect but is reported as failed            *)
(*  ack       an Ack or Nak never reaches the server                       *)
(*  ackwait   AckWait runs out while the sink still has the event          *)
(*  crash     meta-service dies and restarts                               *)
(***************************************************************************)
SinkFaultKinds == {"insert", "reply", "ack", "ackwait", "crash"}

ASSUME SinkAssumption == SinkDeliver \in Nat \ {0} /\ SinkFaults \subseteq SinkFaultKinds

VARIABLES
  event,  \* event[<<j, i>>]: delivery state of an event at the sink's consumer
  batch,  \* batch[<<j, i>>]: what the sink still has to do with an event
  row     \* row[j]: the success column of the job's row, "none" without a row

sinkVars == <<event, batch, row>>
allVars  == <<vars, sinkVars>>

Events == Jobs \X (1 .. MaxDeliver)

Published(e) == e[2] <= Len(audit[e[1]])

SinkInit ==
  /\ event = [e \in Events |-> [state |-> "ready", n |-> 0]]
  /\ batch = [e \in Events |-> "none"]
  /\ row   = [j \in Jobs |-> "none"]

\* Fetch(32): an event of the stream joins the batch, also while the goroutine
\* works on an earlier event of it.
SinkFetch(e) ==
  /\ Published(e) /\ event[e].state = "ready" /\ batch[e] = "none"
  /\ event' = [event EXCEPT ![e] = [state |-> "inflight", n |-> @.n + 1]]
  /\ batch' = [batch EXCEPT ![e] = "save"]
  /\ UNCHANGED row

Column(e) == IF audit[e[1]][e[2]] THEN "success" ELSE "failure"

\* INSERT ... ON CONFLICT (id) DO NOTHING: the first event of a job stays.
Inserted(e) == row' = [row EXCEPT ![e[1]] = IF @ = "none" THEN Column(e) ELSE @]

\* Slip: a failed INSERT is logged and acknowledged.
SinkSaveBestEffort(e) ==
  /\ batch[e] = "save" /\ \A d \in Events : batch[d] \notin {"ack", "nak"}
  /\ Inserted(e) \/ ("insert" \in SinkFaults /\ UNCHANGED row)
  /\ batch' = [batch EXCEPT ![e] = "ack"]
  /\ UNCHANGED event

\* The goroutine settles one event before it saves the next.
SinkSave(e) ==
  /\ batch[e] = "save" /\ \A d \in Events : batch[d] \notin {"ack", "nak"}
  /\ \/ Inserted(e) /\ batch' = [batch EXCEPT ![e] = "ack"]
     \/ /\ \/ "insert" \in SinkFaults /\ UNCHANGED row
           \/ "reply"  \in SinkFaults /\ Inserted(e)
        /\ batch' = [batch EXCEPT ![e] = "nak"]
  /\ UNCHANGED event

EventPending(e) == event[e].state \in {"ready", "inflight"}

EventRequeued(e) ==
  event' = [event EXCEPT ![e].state =
              IF ~EventPending(e) THEN @
              ELSE IF event[e].n = SinkDeliver THEN "exhausted" ELSE "ready"]

EventAcked(e) ==
  event' = [event EXCEPT ![e].state = IF EventPending(e) THEN "acked" ELSE @]

SinkSettle(e) ==
  /\ batch[e] \in {"ack", "nak"}
  /\ \/ IF batch[e] = "ack" THEN EventAcked(e) ELSE EventRequeued(e)
     \/ "ack" \in SinkFaults /\ UNCHANGED event
  /\ batch' = [batch EXCEPT ![e] = "none"]
  /\ UNCHANGED row

SinkAckWait(e) ==
  /\ event[e].state = "inflight"
  /\ "ackwait" \in SinkFaults \/ batch[e] = "none"
  /\ EventRequeued(e)
  /\ UNCHANGED <<batch, row>>

\* meta-service dies: whatever the sink had fetched waits for AckWait.
SinkCrash ==
  /\ "crash" \in SinkFaults
  /\ \E e \in Events : batch[e] # "none"
  /\ batch' = [e \in Events |-> "none"]
  /\ UNCHANGED <<event, row>>

SinkStep(e) == SinkFetch(e) \/ SinkSave(e) \/ SinkSettle(e) \/ SinkAckWait(e)

TrailInit == Init /\ SinkInit

TrailNext ==
  \/ Next /\ UNCHANGED sinkVars
  \/ UNCHANGED vars /\ (SinkCrash \/ \E e \in Events : SinkStep(e))

TrailSpec == TrailInit /\ [][TrailNext]_allVars

TrailFairSpec ==
  /\ TrailSpec
  /\ \A j \in Jobs : WF_allVars((Submit(j) \/ Answer(j)) /\ UNCHANGED sinkVars)
  /\ \A w \in Workers :
       /\ WF_allVars(Proceed(w) /\ UNCHANGED sinkVars)
       /\ WF_allVars(Interrupted(w) /\ UNCHANGED sinkVars)
  /\ \A m \in Messages :
       /\ WF_allVars((\E w \in Workers : Fetch(w, m)) /\ UNCHANGED sinkVars)
       /\ WF_allVars(AckWait(m) /\ UNCHANGED sinkVars)
  /\ \A e \in Events : WF_allVars(SinkStep(e) /\ UNCHANGED vars)

\* The row of a job tells how the job ended: "Re-publish the same deterministic
\* audit event; the PostgreSQL sink treats the event ID idempotently"
\* (processor.go:74-76).  The sink keeps whichever event comes first, in any
\* order of redelivery (postgres.go:24-39, sink.go:47-62).
RowMatchesRecord ==
  \A j \in Jobs : row[j] # "none" =>
    store[j].status = (IF row[j] = "success" THEN "success" ELSE "failed")

\* The same for jobs that are over: once the message of a job is acknowledged,
\* its row, if it has one, tells the outcome of the record.
AckedRowMatchesRecord ==
  \A j \in Jobs : msg[j].state = "acked" /\ row[j] # "none" =>
    store[j].status = (IF row[j] = "success" THEN "success" ELSE "failed")

\* The sink acknowledges an event only once the table has the row
\* ("acknowledges the message only after the transaction succeeds",
\* README.md:326).
AckedIsInTable ==
  \A e \in Events : event[e].state = "acked" => row[e[1]] # "none"

\* "Every terminal query execution publishes [...] an event" and the sink
\* stores it (README.md:326): a job whose message is acknowledged gets a row,
\* unless the consumer gave up on one of its events (main.go:75-78).
AckedGetsRow ==
  \A j \in Jobs :
    msg[j].state = "acked" ~> \/ row[j] # "none"
                              \/ \E i \in 1 .. MaxDeliver : event[<<j, i>>].state = "exhausted"
=============================================================================
