-------------------------- MODULE AuditTrailProofs --------------------------
(***************************************************************************)
(* Proofs about AuditTrail, for every set of jobs and workers and both     *)
(* delivery limits.  That the sink acknowledges what is in the table needs *)
(* no assumption about failures.  That the row of a job tells its outcome  *)
(* needs that all of its events do, and this needs, on the side of the     *)
(* query engine, what HonestStore says and that no write fails: an event   *)
(* that a Process call publishes after a failed write says "failure", and  *)
(* a redelivery may still succeed.                                         *)
(***************************************************************************)
EXTENDS AuditTrail, JobLifecycleProofs

(***************************************************************************)
(* The sink alone.                                                         *)
(***************************************************************************)

EventStates == {"ready", "inflight", "acked", "exhausted"}

SinkTypeOK ==
  /\ event \in [Events -> [state: EventStates, n: 0 .. SinkDeliver]]
  /\ batch \in [Events -> {"none", "save", "ack", "nak"}]
  /\ row   \in [Jobs -> {"none", "success", "failure"}]

\* An event that can still be delivered has a delivery left.
SinkBounded == \A e \in Events : event[e].state = "ready" => event[e].n < SinkDeliver

\* The sink takes only events of the stream out of the stream.
SinkPublished == \A e \in Events : batch[e] # "none" => Published(e)

\* What the sink acknowledges, or is about to, is in the table (sink.go:47-62).
SinkStored ==
  \A e \in Events : batch[e] = "ack" \/ event[e].state = "acked" => row[e[1]] # "none"

SinkInv == SinkTypeOK /\ SinkBounded /\ SinkPublished /\ SinkStored

\* A Nak or a timeout of an event.
LEMMA EventRequeuedEffect ==
  ASSUME SinkInv, NEW e \in Events, EventRequeued(e)
  PROVE  /\ event' \in [Events -> [state: EventStates, n: 0 .. SinkDeliver]]
         /\ SinkBounded'
         /\ \A d \in Events : event'[d].state = "acked" => event[d].state = "acked"
<1> USE DEF SinkInv, SinkTypeOK, EventRequeued, EventStates, EventPending
<1>1. event' \in [Events -> [state: EventStates, n: 0 .. SinkDeliver]]
  OBVIOUS
<1>2. \A d \in Events : event'[d].n = event[d].n
  OBVIOUS
<1>3. event[e].n = SinkDeliver \/ event[e].n < SinkDeliver
  BY SinkAssumption
<1>4. SinkBounded'
  BY <1>2, <1>3 DEF SinkBounded
<1>5. \A d \in Events : event'[d].state = "acked" => event[d].state = "acked"
  OBVIOUS
<1> QED
  BY <1>1, <1>4, <1>5

\* The stream only grows (processor.go:55-72), so what was published stays.
LEMMA StreamGrows ==
  ASSUME TypeInv, [Next]_vars, NEW j \in Jobs
  PROVE  \/ audit'[j] = audit[j]
         \/ \E b \in BOOLEAN : audit'[j] = Append(audit[j], b)
<1> USE DEF TypeInv
<1>1. CASE \E w \in Workers : PublishAudit(w)
  <2>1. PICK w \in Workers : PublishAudit(w)
    BY <1>1
  <2>2. task[w].msg \in Jobs /\ task[w].ok \in BOOLEAN
    <3>1. pc[w] = "audit"
      BY <2>1 DEF PublishAudit, Goto
    <3>2. task[w] \in Tasks
      BY DEF TypeOK
    <3> QED
      BY <3>1, <3>2 DEF Held, Tasks
  <2>3. audit' = audit \/ audit' = [audit EXCEPT ![task[w].msg] = Append(@, task[w].ok)]
    BY <2>1 DEF PublishAudit
  <2> QED
    BY <2>2, <2>3 DEF TypeOK
<1>2. CASE ~\E w \in Workers : PublishAudit(w)
  BY <1>2 DEF Next, vars, Submit, Create, Publish, MarkPublishFailed, Answer, CrashSubmit, AckWait, Fetch,
     Process, Check, MarkRunningGet, MarkFailedGet, Load, MarkRunningSet, Prepare, Execute,
     MarkSucceededGet, PutObject, MarkSucceededSet, MarkFailedSet, Terminate, Settle, Settles,
     Crash, Shutdown
<1> QED
  BY <1>1, <1>2

\* What is published stays published and says the same.
LEMMA StreamKeeps ==
  ASSUME TypeInv, [Next]_vars, NEW e \in Events, Published(e)
  PROVE  Published(e)' /\ audit'[e[1]][e[2]] = audit[e[1]][e[2]]
<1>1. e[1] \in Jobs /\ e[2] \in Nat \ {0} /\ audit[e[1]] \in Seq(BOOLEAN)
  BY DEF Events, TypeInv, TypeOK
<1>2. CASE audit'[e[1]] = audit[e[1]]
  BY <1>2 DEF Published
<1>3. CASE \E b \in BOOLEAN : audit'[e[1]] = Append(audit[e[1]], b)
  BY <1>1, <1>3 DEF Published
<1> QED
  BY <1>1, <1>2, <1>3, StreamGrows

\* Every step keeps SinkInv.
LEMMA SinkKeeps ==
  ASSUME TypeInv, SinkInv, [TrailNext]_allVars
  PROVE  SinkInv'
<1> USE DEF SinkInv, SinkTypeOK
<1>0. \A e \in Events : e[1] \in Jobs
  BY DEF Events
<1>1. CASE Next /\ UNCHANGED sinkVars
  BY <1>1, StreamKeeps DEF sinkVars, SinkBounded, SinkPublished, SinkStored
<1>2. CASE UNCHANGED vars /\ SinkCrash
  <2>1. /\ UNCHANGED <<event, row, audit>> /\ batch' = [e \in Events |-> "none"]
    BY <1>2 DEF SinkCrash, vars
  <2> QED
    BY <2>1 DEF SinkBounded, SinkPublished, SinkStored
<1>3. CASE UNCHANGED vars /\ \E e \in Events : SinkFetch(e)
  <2>1. PICK e \in Events : SinkFetch(e)
    BY <1>3
  <2>2. /\ event[e].state = "ready" /\ Published(e) /\ UNCHANGED <<row, audit>>
        /\ event' = [event EXCEPT ![e] = [state |-> "inflight", n |-> event[e].n + 1]]
        /\ batch' = [batch EXCEPT ![e] = "save"]
    BY <1>3, <2>1 DEF SinkFetch, vars
  <2>3. event[e].n + 1 \in 0 .. SinkDeliver
    BY <2>2, SinkAssumption DEF SinkBounded
  <2>4. SinkTypeOK'
    BY <2>2, <2>3 DEF EventStates
  <2> QED
    BY <2>2, <2>4 DEF SinkBounded, SinkPublished, Published, SinkStored
<1>4. CASE UNCHANGED vars /\ \E e \in Events : SinkSave(e)
  <2>1. PICK e \in Events : SinkSave(e)
    BY <1>4
  <2>2. /\ batch[e] = "save" /\ UNCHANGED <<event, audit>>
        /\ \/ batch' = [batch EXCEPT ![e] = "ack"] /\ Inserted(e)
           \/ batch' = [batch EXCEPT ![e] = "nak"] /\ (UNCHANGED row \/ Inserted(e))
    BY <1>4, <2>1 DEF SinkSave, vars
  <2>3. /\ row' \in [Jobs -> {"none", "success", "failure"}]
        /\ \A j \in Jobs : row[j] # "none" => row'[j] # "none"
        /\ Inserted(e) => row'[e[1]] # "none"
    BY <1>0, <2>2 DEF Inserted, Column
  <2> QED
    BY <1>0, <2>2, <2>3 DEF SinkBounded, SinkPublished, Published, SinkStored
<1>5. CASE UNCHANGED vars /\ \E e \in Events : SinkSettle(e)
  <2>1. PICK e \in Events : SinkSettle(e)
    BY <1>5
  <2>2. /\ batch' = [batch EXCEPT ![e] = "none"] /\ UNCHANGED <<row, audit>>
        /\ \/ batch[e] = "ack" /\ EventAcked(e)
           \/ EventRequeued(e)
           \/ UNCHANGED event
    BY <1>5, <2>1 DEF SinkSettle, vars
  <2>3. /\ event' \in [Events -> [state: EventStates, n: 0 .. SinkDeliver]]
        /\ SinkBounded'
        /\ \A d \in Events : event'[d].state = "acked" =>
             event[d].state = "acked" \/ (d = e /\ batch[e] = "ack")
    <3>1. CASE batch[e] = "ack" /\ EventAcked(e)
      BY <3>1 DEF EventAcked, EventPending, EventStates, SinkBounded
    <3>2. CASE EventRequeued(e)
      BY <3>2, EventRequeuedEffect
    <3>3. CASE UNCHANGED event
      BY <3>3 DEF SinkBounded
    <3> QED
      BY <2>2, <3>1, <3>2, <3>3
  <2> QED
    BY <2>2, <2>3 DEF SinkPublished, Published, SinkStored
<1>6. CASE UNCHANGED vars /\ \E e \in Events : SinkAckWait(e)
  <2>1. PICK e \in Events : SinkAckWait(e)
    BY <1>6
  <2>2. EventRequeued(e) /\ UNCHANGED <<batch, row, audit>>
    BY <1>6, <2>1 DEF SinkAckWait, vars
  <2> QED
    BY <2>2, EventRequeuedEffect DEF SinkPublished, Published, SinkStored
<1>7. CASE UNCHANGED allVars
  BY <1>7 DEF allVars, vars, sinkVars, SinkBounded, SinkPublished, Published, SinkStored
<1> QED
  BY <1>1, <1>2, <1>3, <1>4, <1>5, <1>6, <1>7 DEF TrailNext, SinkStep

\* The query engine behind the trail is the query engine.
LEMMA TrailIsEngine == TrailSpec => Spec
<1>1. [TrailNext]_allVars => [Next]_vars
  BY DEF TrailNext, allVars, vars
<1> QED
  BY <1>1, PTL DEF TrailSpec, TrailInit, Spec

LEMMA SinkInvariance == TrailSpec => []SinkInv
<1>1. TrailInit => SinkInv
  BY SinkAssumption DEF TrailInit, SinkInit, SinkInv, SinkTypeOK, SinkBounded, SinkPublished,
     SinkStored, EventStates, Events
<1>2. TypeInv /\ SinkInv /\ [TrailNext]_allVars => SinkInv'
  BY SinkKeeps
<1> QED
  BY <1>1, <1>2, TrailIsEngine, TypeInvariance, PTL DEF TrailSpec

\* The sink "acknowledges the message only after the transaction succeeds"
\* (README.md:326): an acknowledged event has its row, whatever fails on either
\* side (sink.go:47-62).
THEOREM AcknowledgedIsInTable == TrailSpec => []AckedIsInTable
<1>1. SinkInv => AckedIsInTable
  BY DEF SinkInv, SinkStored, AckedIsInTable
<1> QED
  BY <1>1, SinkInvariance, PTL

(***************************************************************************)
(* What the events say, when no write to the job store fails.              *)
(***************************************************************************)

SavingStore == HonestStore /\ "save" \notin Faults

\* A Process call that has returned, with or without an error, has left a
\* terminal record and knows its outcome (processor.go:55-87).
Concluded ==
  \A w \in Workers : pc[w] \in {"audit", "settle"} =>
    /\ store[task[w].msg].status \in Terminal
    /\ task[w].ok <=> store[task[w].msg].status = "success"

\* All events of a job tell the outcome of its record.
Consistent ==
  \A j \in Jobs : \A i \in 1 .. Len(audit[j]) :
    /\ store[j].status \in Terminal
    /\ audit[j][i] <=> store[j].status = "success"

\* What is known of the engine, whatever the sink does.
Engine == Known /\ OpenInv

\* A step of Process that returns, or publishes the event of one that has,
\* knows the outcome of a terminal record.
LEMMA ConcludedProcess ==
  ASSUME SavingStore, Engine, Concluded, NEW w \in Workers, Process(w),
         pc'[w] \in {"audit", "settle"}
  PROVE  /\ store'[task[w].msg].status \in Terminal
         /\ task'[w].ok <=> store'[task[w].msg].status = "success"
<1> USE DEF Engine, Known, TypeInv, SavingStore, HonestStore
<1> DEFINE j == task[w].msg
<1>1. j \in Jobs /\ task[w] \in Tasks /\ store \in [Jobs -> Records] /\ pc \in [Workers -> Steps]
  BY ProcessWorks, WorkersJob DEF Works, TypeOK
<1>2. ASSUME NEW r, SaveFails(j, r) PROVE FALSE
  BY <1>2 DEF SaveFails
<1>3. CASE Check(w)
  <2>1. store[j].status \in Terminal /\ Return(w, store[j].status = "success", FALSE)
    BY <1>1, <1>3 DEF Check, Goto
  <2> QED
    BY <1>3, <2>1, ReturnEffect DEF Check
<1>4. CASE MarkSucceededSet(w)
  <2>1. \E r : r.status = "success" /\ Saved(j, r) /\ Return(w, TRUE, FALSE)
    <3>1. \E r : /\ r.status = "success"
                 /\ (Saved(j, r) /\ Return(w, TRUE, FALSE)) \/ SaveFails(j, r)
      BY <1>4 DEF MarkSucceededSet
    <3> QED
      BY <1>2, <3>1
  <2> QED
    BY <1>1, <2>1, ReturnEffect DEF Saved, Terminal
<1>5. CASE MarkFailedSet(w)
  <2>1. \E err : Return(w, FALSE, err)
    BY <1>5 DEF MarkFailedSet
  <2>2. Saved(j, [task[w].rec EXCEPT !.status = "failed", !.rows = 0, !.ref = FALSE])
    BY <1>2, <1>5 DEF MarkFailedSet
  <2>3. store'[j].status = "failed"
    BY <1>1, <2>2 DEF Saved, Tasks, Records
  <2> QED
    BY <2>1, <2>3, ReturnEffect DEF Terminal
<1>6. CASE PublishAudit(w)
  <2>1. pc[w] = "audit" /\ UNCHANGED store /\ task'[w].ok = task[w].ok
    BY <1>1, <1>6 DEF PublishAudit, Goto, Tasks, TypeOK
  <2> QED
    BY <2>1 DEF Concluded
<1>7. CASE \/ MarkRunningGet(w) \/ MarkRunningSet(w) \/ Prepare(w) \/ Execute(w)
           \/ MarkSucceededGet(w) \/ PutObject(w) \/ MarkFailedGet(w)
  <2>1. pc'[w] \notin {"audit", "settle"}
    BY <1>1, <1>2, <1>7, PersistFailsEffect DEF MarkRunningGet, MarkRunningSet, Prepare, Execute, MarkSucceededGet,
       PutObject, MarkFailedGet, Load, Goto
  <2> QED
    BY <2>1
<1> QED
  BY <1>3, <1>4, <1>5, <1>6, <1>7 DEF Process

\* Every step of the engine keeps both.
LEMMA ConcludedStep ==
  ASSUME SavingStore, Engine, Concluded, [Next]_vars
  PROVE  Concluded'
<1> SUFFICES ASSUME NEW w \in Workers, pc'[w] \in {"audit", "settle"}
             PROVE  /\ store'[task'[w].msg].status \in Terminal
                    /\ task'[w].ok <=> store'[task'[w].msg].status = "success"
  BY DEF Concluded
<1> USE DEF Engine, Known, TypeInv, SavingStore
<1>1. CASE Process(w)
  BY <1>1, ConcludedProcess, ProcessWorks DEF Works
<1>2. CASE ~Process(w)
  <2>1. pc[w] = pc'[w] /\ task'[w].ok = task[w].ok /\ task'[w].msg = task[w].msg
    <3>1. CASE \E v \in Workers : Process(v)
      BY <1>2, <3>1, ProcessWorks DEF Works
    <3>2. CASE \E v \in Workers : Terminate(v) \/ Settle(v) \/ Crash(v) \/ Shutdown(v)
      <4>1. PICK v \in Workers : Terminate(v) \/ Settle(v) \/ Crash(v) \/ Shutdown(v)
        BY <3>2
      <4>2. CASE v = w
        BY <4>1, <4>2 DEF Terminate, Settle, Settles, Crash, Shutdown, Goto, TypeOK, Tasks
      <4>3. CASE v # w
        BY <4>1, <4>3 DEF Terminate, Settle, Settles, Crash, Shutdown, Goto, TypeOK
      <4> QED
        BY <4>2, <4>3
    <3>3. CASE \E m \in Messages, v \in Workers : Fetch(v, m)
      <4>1. PICK m \in Messages, v \in Workers : Fetch(v, m)
        BY <3>3
      <4>2. v # w
        BY <4>1 DEF Fetch, Goto, TypeOK
      <4> QED
        BY <4>1, <4>2 DEF Fetch, Goto, TypeOK
    <3>4. CASE (\E j \in Jobs : Submit(j) \/ Answer(j) \/ CrashSubmit(j)) \/ (\E m \in Messages : AckWait(m)) \/ UNCHANGED vars
      BY <3>4 DEF Submit, Create, Publish, MarkPublishFailed, Answer, CrashSubmit, AckWait, vars
    <3> QED
      BY <3>1, <3>2, <3>3, <3>4 DEF Next
  <2>2. task[w].msg \in Jobs /\ store[task[w].msg].status \in Terminal
    BY <2>1 DEF Concluded, Held
  <2> QED
    BY <2>1, <2>2, FinalStep DEF Concluded
<1> QED
  BY <1>1, <1>2

LEMMA ConsistentStep ==
  ASSUME SavingStore, Engine, Concluded, Consistent, [Next]_vars
  PROVE  Consistent'
<1> SUFFICES ASSUME NEW j \in Jobs, NEW i \in 1 .. Len(audit'[j])
             PROVE  /\ store'[j].status \in Terminal
                    /\ audit'[j][i] <=> store'[j].status = "success"
  BY DEF Consistent
<1> USE DEF Engine, Known, TypeInv, SavingStore
<1>1. audit[j] \in Seq(BOOLEAN)
  BY DEF TypeOK
<1>2. CASE i \in 1 .. Len(audit[j]) /\ audit'[j][i] = audit[j][i]
  BY <1>2, FinalStep DEF Consistent
<1>3. CASE \E w \in Workers : /\ pc[w] = "audit" /\ task[w].msg = j /\ UNCHANGED store
                              /\ audit'[j] = Append(audit[j], task[w].ok)
  <2>1. PICK w \in Workers : /\ pc[w] = "audit" /\ task[w].msg = j /\ UNCHANGED store
                             /\ audit'[j] = Append(audit[j], task[w].ok)
    BY <1>3
  <2>2. CASE i = Len(audit[j]) + 1
    <3>1. audit'[j][i] = task[w].ok
      BY <1>1, <2>1, <2>2
    <3> QED
      BY <2>1, <3>1 DEF Concluded
  <2>3. CASE i # Len(audit[j]) + 1
    <3>1. i \in 1 .. Len(audit[j]) /\ audit'[j][i] = audit[j][i]
      BY <1>1, <2>1, <2>3
    <3> QED
      BY <1>2, <3>1
  <2> QED
    BY <2>2, <2>3
<1>4. \/ audit'[j] = audit[j]
      \/ \E w \in Workers : /\ pc[w] = "audit" /\ task[w].msg = j /\ UNCHANGED store
                            /\ audit'[j] = Append(audit[j], task[w].ok)
  <2>1. CASE \E w \in Workers : PublishAudit(w)
    <3>1. PICK w \in Workers : PublishAudit(w)
      BY <2>1
    <3>2. /\ pc[w] = "audit" /\ UNCHANGED store
          /\ audit' = audit \/ audit' = [audit EXCEPT ![task[w].msg] = Append(@, task[w].ok)]
      BY <3>1 DEF PublishAudit, Goto
    <3> QED
      BY <3>2 DEF TypeOK
  <2>2. CASE ~\E w \in Workers : PublishAudit(w)
    BY <2>2 DEF Next, vars, Submit, Create, Publish, MarkPublishFailed, Answer, CrashSubmit, AckWait, Fetch,
       Process, Check, MarkRunningGet, MarkFailedGet, Load, MarkRunningSet, Prepare, Execute,
       MarkSucceededGet, PutObject, MarkSucceededSet, MarkFailedSet, Terminate, Settle, Settles,
       Crash, Shutdown
  <2> QED
    BY <2>1, <2>2
<1> QED
  BY <1>2, <1>3, <1>4

\* The row of a job is one of its events.
RowFromEvent ==
  \A j \in Jobs : row[j] # "none" =>
    \E i \in 1 .. Len(audit[j]) : audit[j][i] = (row[j] = "success")

LEMMA RowStep ==
  ASSUME TypeInv, SinkInv, RowFromEvent, [TrailNext]_allVars
  PROVE  RowFromEvent'
<1> SUFFICES ASSUME NEW j \in Jobs, row'[j] # "none"
             PROVE  \E i \in 1 .. Len(audit'[j]) : audit'[j][i] = (row'[j] = "success")
  BY DEF RowFromEvent
<1>1. audit[j] \in Seq(BOOLEAN)
  BY DEF TypeInv, TypeOK
<1>2. CASE row'[j] = row[j]
  <2>1. PICK i \in 1 .. Len(audit[j]) : audit[j][i] = (row[j] = "success")
    BY <1>2 DEF RowFromEvent
  <2>2. [Next]_vars
    BY DEF TrailNext, allVars, vars
  <2>3. i \in 1 .. Len(audit'[j]) /\ audit'[j][i] = audit[j][i]
    BY <1>1, <2>1, <2>2, StreamGrows
  <2> QED
    BY <1>2, <2>1, <2>3
<1>3. CASE row'[j] # row[j]
  <2>1. UNCHANGED audit /\ \E e \in Events : SinkSave(e)
    BY <1>3 DEF TrailNext, allVars, sinkVars, vars, SinkCrash, SinkStep, SinkFetch, SinkSettle,
       SinkAckWait
  <2>2. PICK e \in Events : SinkSave(e)
    BY <2>1
  <2>3. batch[e] = "save" /\ Inserted(e)
    BY <1>3, <2>2 DEF SinkSave
  <2>4. e[1] = j /\ row'[j] = Column(e)
    BY <1>3, <2>3 DEF Inserted, SinkInv, SinkTypeOK
  <2>5. e[2] \in 1 .. Len(audit[j])
    BY <1>1, <2>3, <2>4 DEF SinkInv, SinkPublished, Published, Events
  <2>6. audit[j][e[2]] = (row'[j] = "success")
    BY <1>1, <2>4, <2>5 DEF Column
  <2> QED
    BY <2>1, <2>5, <2>6
<1> QED
  BY <1>2, <1>3

LEMMA EngineInvariance ==
  ASSUME SavingStore
  PROVE  TrailSpec => [](Engine /\ Concluded /\ Consistent)
<1>1. HonestStore
  BY DEF SavingStore
<1>2. Init => Concluded /\ Consistent
  BY DEF Init, Concluded, Consistent
<1>3. Engine /\ Concluded /\ Consistent /\ [Next]_vars => Concluded' /\ Consistent'
  BY ConcludedStep, ConsistentStep
<1>4. Spec => []Engine
  BY <1>1, KnownInvariance, OpenInvariance, PTL DEF Engine
<1> QED
  BY <1>2, <1>3, <1>4, TrailIsEngine, PTL DEF Spec

LEMMA RowInvariance == TrailSpec => []RowFromEvent
<1>1. TrailInit => RowFromEvent
  BY DEF TrailInit, SinkInit, RowFromEvent
<1>2. TypeInv /\ SinkInv /\ RowFromEvent /\ [TrailNext]_allVars => RowFromEvent'
  BY RowStep
<1> QED
  BY <1>1, <1>2, TrailIsEngine, TypeInvariance, SinkInvariance, PTL DEF TrailSpec

\* The row of a job tells how the job ended (processor.go:74-76,
\* postgres.go:24-39), when AckWait covers the work and no access to the job
\* store fails; publishes, the object store, acknowledgements, processes and the
\* sink may fail.
THEOREM RowTellsOutcome ==
  ASSUME SavingStore
  PROVE  TrailSpec => []RowMatchesRecord
<1>1. Consistent /\ RowFromEvent => RowMatchesRecord
  <2> SUFFICES ASSUME Consistent, RowFromEvent, NEW j \in Jobs, row[j] # "none"
               PROVE  store[j].status = IF row[j] = "success" THEN "success" ELSE "failed"
    BY DEF RowMatchesRecord
  <2>1. PICK i \in 1 .. Len(audit[j]) : audit[j][i] = (row[j] = "success")
    BY DEF RowFromEvent
  <2>2. store[j].status \in Terminal /\ (audit[j][i] <=> store[j].status = "success")
    BY DEF Consistent
  <2> QED
    BY <2>1, <2>2 DEF Terminal
<1> QED
  BY <1>1, EngineInvariance, RowInvariance, PTL

(***************************************************************************)
(* How many events a job can have.                                         *)
(***************************************************************************)

\* A job has an event for at most each delivery so far, and a delivery that has
\* not published yet has none.
Numbered ==
  /\ \A j \in Jobs : Len(audit[j]) <= msg[j].n
  /\ \A w \in Workers : pc[w] \notin {"idle", "term", "settle"} =>
       Len(audit[task[w].msg]) < task[w].n

LEMMA NumberedStep ==
  ASSUME TypeInv, TypeInv', AloneInv, Numbered, [Next]_vars
  PROVE  Numbered'
<1> USE DEF TypeInv, TypeOK
<1>1. \A j \in Jobs : audit[j] \in Seq(BOOLEAN) /\ Len(audit[j]) \in Nat /\ msg[j].n \in Nat
  BY DEF Messages, Deliveries, Origins
<1>2. CASE \E w \in Workers : Process(w)
  <2>1. PICK w \in Workers : Process(w)
    BY <1>2
  <2>2. Works(w) /\ task[w].msg \in Jobs /\ task[w].n = msg[task[w].msg].n
    BY <2>1, ProcessWorks DEF Works, Held, AloneInv, Alone
  <2>3. \A j \in Jobs \ {task[w].msg} : audit'[j] = audit[j]
    BY <2>1, ProcessFrame
  <2>4. \A v \in Workers \ {w} : pc[v] \notin {"idle", "term"} =>
          task[v].msg \in Jobs \ {task[w].msg}
    BY <2>2 DEF Works, Held, AloneInv, Alone
  <2>5. CASE PublishAudit(w)
    <3>1. pc[w] = "audit" /\ pc'[w] = "settle" /\ task[w].ok \in BOOLEAN
      BY <2>2, <2>5 DEF PublishAudit, Goto, Tasks
    <3>2. audit' = audit \/ audit' = [audit EXCEPT ![task[w].msg] = Append(@, task[w].ok)]
      BY <2>5 DEF PublishAudit
    <3>3. Len(audit'[task[w].msg]) <= msg[task[w].msg].n
      <4>1. Len(audit[task[w].msg]) < msg[task[w].msg].n
        BY <2>2, <3>1 DEF Numbered
      <4>2. \/ audit'[task[w].msg] = audit[task[w].msg]
            \/ audit'[task[w].msg] = Append(audit[task[w].msg], task[w].ok)
        BY <2>2, <3>2
      <4> QED
        BY <1>1, <2>2, <3>1, <4>1, <4>2
    <3>4. \A j \in Jobs : Len(audit'[j]) <= msg'[j].n
      <4>1. msg' = msg
        BY <2>5 DEF PublishAudit
      <4> QED
        BY <2>2, <2>3, <3>3, <4>1 DEF Numbered
    <3>5. \A v \in Workers \ {w} : pc'[v] = pc[v] /\ task'[v] = task[v]
      BY <2>5 DEF PublishAudit, Goto
    <3>6. ASSUME NEW v \in Workers, pc'[v] \notin {"idle", "term", "settle"}
          PROVE  Len(audit'[task'[v].msg]) < task'[v].n
      <4>1. v # w
        BY <3>1, <3>6
      <4>2. task[v].msg \in Jobs \ {task[w].msg} /\ task'[v] = task[v]
            /\ pc[v] \notin {"idle", "term", "settle"}
        BY <2>4, <3>5, <3>6, <4>1
      <4> QED
        BY <2>3, <4>2 DEF Numbered
    <3> QED
      BY <3>4, <3>6 DEF Numbered
  <2>6. CASE ~PublishAudit(w)
    <3>1. UNCHANGED audit /\ pc[w] # "settle"
      BY <2>1, <2>6 DEF Process, Check, MarkRunningGet, MarkFailedGet, Load, MarkRunningSet,
         Prepare, Execute, MarkSucceededGet, PutObject, MarkSucceededSet, MarkFailedSet, Goto
    <3> QED
      BY <2>2, <2>3, <2>4, <3>1 DEF Numbered, Works
  <2> QED
    BY <2>5, <2>6
<1>3. CASE \E w \in Workers, m \in Messages : Fetch(w, m)
  <2>1. PICK w \in Workers, m \in Messages : Fetch(w, m)
    BY <1>3
  <2>2. /\ UNCHANGED audit /\ pc'[w] \in {"term", "check"}
        /\ msg[m].n \in Nat /\ msg'[m].n = msg[m].n + 1
        /\ task'[w].msg = m /\ task'[w].n = msg[m].n + 1
        /\ \A i \in Messages \ {m} : msg'[i] = msg[i]
        /\ \A v \in Workers \ {w} : pc'[v] = pc[v] /\ task'[v] = task[v]
    BY <2>1 DEF Fetch, Goto, NoTask, Deliveries, Origins
  <2>3. pc'[w] # "term" => m \in Jobs
    BY <2>2 DEF Held
  <2> QED
    <3>1. ASSUME NEW j \in Jobs PROVE Len(audit'[j]) <= msg'[j].n
      <4>1. audit'[j] = audit[j] /\ Len(audit[j]) <= msg[j].n /\ Len(audit[j]) \in Nat
        BY <1>1, <2>2 DEF Numbered
      <4>2. CASE j = m
        BY <2>2, <4>1, <4>2
      <4>3. CASE j # m
        BY <2>2, <4>1, <4>3 DEF Messages
      <4> QED
        BY <4>2, <4>3
    <3>2. ASSUME NEW v \in Workers, pc'[v] \notin {"idle", "term", "settle"}
          PROVE  Len(audit'[task'[v].msg]) < task'[v].n
      <4>1. CASE v = w
        <5>1. Len(audit[m]) <= msg[m].n /\ Len(audit[m]) \in Nat
          BY <1>1, <2>3, <3>2, <4>1 DEF Numbered
        <5> QED
          BY <2>2, <4>1, <5>1
      <4>2. CASE v # w
        BY <2>2, <3>2, <4>2 DEF Numbered
      <4> QED
        BY <4>1, <4>2
    <3> QED
      BY <3>1, <3>2 DEF Numbered
<1>4. CASE \E j \in Jobs : Submit(j) \/ Answer(j) \/ CrashSubmit(j)
  <2>1. /\ UNCHANGED <<pc, task, audit>>
        /\ UNCHANGED msg \/ \E j \in Jobs : msg' = [msg EXCEPT ![j].state = "ready"]
    BY <1>4 DEF Submit, Create, Publish, MarkPublishFailed, Answer, CrashSubmit
  <2>2. \A m \in Messages : msg'[m].n = msg[m].n
    <3>1. ASSUME NEW j \in Jobs, msg' = [msg EXCEPT ![j].state = "ready"], NEW m \in Messages
          PROVE  msg'[m].n = msg[m].n
      <4>1. j \in Messages /\ msg \in [Messages -> Deliveries]
        BY DEF Messages
      <4> QED
        BY <3>1, <4>1 DEF Deliveries
    <3> QED
      BY <2>1, <3>1
  <2> QED
    BY <2>1, <2>2 DEF Numbered, Messages
<1>5. CASE \E m \in Messages : AckWait(m)
  <2>1. UNCHANGED <<pc, task, audit>> /\ \A j \in Jobs : msg'[j].n = msg[j].n
    BY <1>5 DEF AckWait, Requeued, Messages, Deliveries
  <2> QED
    BY <2>1 DEF Numbered
<1>6. CASE \E w \in Workers : Terminate(w) \/ Settle(w) \/ Crash(w) \/ Shutdown(w)
  <2>1. PICK w \in Workers : Terminate(w) \/ Settle(w) \/ Crash(w) \/ Shutdown(w)
    BY <1>6
  <2>2. UNCHANGED audit /\ \A v \in Workers \ {w} : pc'[v] = pc[v] /\ task'[v] = task[v]
    BY <2>1 DEF Terminate, Settle, Settles, Crash, Shutdown, Goto
  <2>3. \/ pc'[w] = "idle"
        \/ pc'[w] = pc[w] /\ task'[w].msg = task[w].msg /\ task'[w].n = task[w].n
    BY <2>1 DEF Terminate, Settle, Crash, Shutdown, Goto, Tasks
  <2>4. \A m \in Messages : msg'[m].n = msg[m].n
    <3>1. CASE UNCHANGED msg
      BY <3>1
    <3>2. ASSUME NEW m, Requeued(m) PROVE \A i \in Messages : msg'[i].n = msg[i].n
      BY <3>2 DEF Requeued, Deliveries
    <3>3. ASSUME NEW m, NEW how, Closed(m, how) PROVE \A i \in Messages : msg'[i].n = msg[i].n
      BY <3>3 DEF Closed, Deliveries
    <3> QED
      BY <2>1, <3>1, <3>2, <3>3 DEF Terminate, Settle, Settles, Crash, Shutdown
  <2> QED
    BY <2>2, <2>3, <2>4 DEF Numbered, Messages
<1>7. CASE UNCHANGED vars
  BY <1>7 DEF vars, Numbered
<1> QED
  BY <1>2, <1>3, <1>4, <1>5, <1>6, <1>7 DEF Next

\* A job publishes at most one event per delivery (processor.go:55-72), so the
\* pairs that Events numbers are all the events there can be, as long as
\* AckWait covers the work.
THEOREM EventsAreNumbered ==
  ASSUME "ackwait" \notin Faults
  PROVE  TrailSpec => [](\A j \in Jobs : Len(audit[j]) <= MaxDeliver)
<1>1. Init => Numbered
  BY DEF Init, Numbered, Messages
<1>2. TypeInv /\ TypeInv' /\ AloneInv /\ Numbered /\ [Next]_vars => Numbered'
  BY NumberedStep
<1>3. TypeInv /\ Numbered => \A j \in Jobs : Len(audit[j]) <= MaxDeliver
  BY DeliverAssumption DEF TypeInv, TypeOK, Numbered, Messages, Deliveries, Origins
<1> QED
  BY <1>1, <1>2, <1>3, TrailIsEngine, TypeInvariance, AloneInvariance, PTL DEF Spec

=============================================================================
