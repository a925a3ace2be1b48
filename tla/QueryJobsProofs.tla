-------------------------- MODULE QueryJobsProofs --------------------------
(***************************************************************************)
(* Proofs about QueryJobs.  Three inductive invariants, each resting on    *)
(* the one before:                                                         *)
(*   TypeInv    types, and what a worker may hold at each step;            *)
(*   AloneInv   one worker per message, and the verdict of a Process call, *)
(*              for a pool whose AckWait covers the work;                  *)
(*   HonestInv  what ran was published and what succeeded ran, with every  *)
(*              fault allowed.                                             *)
(***************************************************************************)
EXTENDS QueryJobs, TLAPS

\* What a worker may hold at each step: a poison message before Term, a job
\* afterwards (worker.go:77-91).
Held ==
  \A w \in Workers :
    /\ pc[w] = "term" => task[w].msg \in Poison
    /\ pc[w] \notin {"idle", "term"} => task[w].msg \in Jobs

\* A message that can still be delivered has a delivery left (MaxDeliver).
Bounded ==
  \A m \in Messages : msg[m].state \in {"absent", "ready"} => msg[m].n < MaxDeliver

\* No message without a SubmitQuery call that got past Publish, whether or not
\* its client got the answer (grpc.go:81-86).
Unsent ==
  \A j \in Jobs : sub[j] \notin {"reply", "accepted", "dead"} => msg[j].state = "absent"

\* The shape every step of Process has: it moves worker w alone, keeps its
\* message and touches neither the submitters nor the consumer.
Works(w) ==
  /\ pc[w] \notin {"idle", "term"} /\ pc'[w] \notin {"idle", "term"}
  /\ \A v \in Workers : task'[v].msg = task[v].msg /\ task'[v].n = task[v].n
  /\ \A v \in Workers \ {w} : pc'[v] = pc[v] /\ task'[v] = task[v]
  /\ UNCHANGED <<sub, msg>>

\* The inductive invariant behind TypeOK.
TypeInv == TypeOK /\ Held /\ Bounded /\ Unsent

\* Delivery numbers start at 0 and count up to MaxDeliver.
LEMMA OriginFacts == 0 \in Origins /\ \A n \in Origins : n < MaxDeliver => n + 1 \in Origins
  BY DeliverAssumption DEF Origins

\* Every record the store writes (store.go:126-241) is a record.
LEMMA RecordFacts ==
  /\ NoRecord \in Records
  /\ \A r \in Records, s \in {"pending", "running"} \cup Terminal :
       [r EXCEPT !.status = s] \in Records
  /\ \A r \in Records :
       [r EXCEPT !.status = "failed", !.rows = 0, !.ref = FALSE] \in Records
  BY OriginFacts DEF NoRecord, Records, Terminal

\* The locals of an idle worker, and of one that has just fetched, have their
\* type.
LEMMA TaskFacts ==
  /\ NoTask \in Tasks
  /\ \A m \in Messages, n \in Origins : [NoTask EXCEPT !.msg = m, !.n = n] \in Tasks
  BY OriginFacts, RecordFacts DEF NoTask, Tasks

\* Moving to a step keeps the type of pc.
LEMMA GotoType ==
  ASSUME TypeOK, NEW w \in Workers, NEW from, NEW to \in Steps, Goto(w, from, to)
  PROVE  pc' \in [Workers -> Steps]
  BY DEF TypeOK, Goto

\* Returning from Process (processor.go:55-72) keeps the types of pc and task.
LEMMA ReturnType ==
  ASSUME TypeOK, NEW w \in Workers, NEW ok \in BOOLEAN, NEW err \in BOOLEAN,
         Return(w, ok, err)
  PROVE  pc' \in [Workers -> Steps] /\ task' \in [Workers -> Tasks]
<1>1. pc' \in [Workers -> Steps]
  BY DEF TypeOK, Return, Steps
<1>2. task' \in [Workers -> Tasks]
  <2>1. task \in [Workers -> Tasks]
    BY DEF TypeOK
  <2>2. \A t \in Tasks : [t EXCEPT !.ok = ok, !.err = err] \in Tasks
    BY DEF Tasks
  <2>3. [task[w] EXCEPT !.ok = ok, !.err = err] \in Tasks
    BY <2>1, <2>2
  <2> QED
    BY <2>1, <2>3 DEF Return
<1> QED
  BY <1>1, <1>2

\* store.save of a record, whether or not it takes effect, keeps the type of
\* the store.
LEMMA SaveType ==
  ASSUME TypeOK, NEW j, NEW r \in Records, Saved(j, r) \/ SaveFails(j, r)
  PROVE  store' \in [Jobs -> Records]
  BY DEF TypeOK, Saved, SaveFails

\* A Nak or a timeout keeps the type of the deliveries.
LEMMA RequeuedType ==
  ASSUME TypeOK, NEW m \in Messages, Requeued(m)
  PROVE  msg' \in [Messages -> Deliveries]
  BY DEF TypeOK, Requeued, Deliveries, Settled

\* An Ack or a Term keeps the type of the deliveries.
LEMMA ClosedType ==
  ASSUME TypeOK, NEW m \in Messages, NEW how \in Settled, Closed(m, how)
  PROVE  msg' \in [Messages -> Deliveries]
  BY DEF TypeOK, Closed, Deliveries, Settled

\* The branch taken when MarkSucceeded fails (processor.go:152-155) keeps the
\* types of pc and task.
LEMMA PersistFailsType ==
  ASSUME TypeOK, NEW w \in Workers, PersistFails(w)
  PROVE  pc' \in [Workers -> Steps] /\ task' \in [Workers -> Tasks]
<1>1. pc' \in [Workers -> Steps]
  BY DEF TypeOK, PersistFails, Steps
<1>2. task' \in [Workers -> Tasks]
  BY DEF TypeOK, PersistFails, Tasks
<1> QED
  BY <1>1, <1>2

\* The Get of store.update keeps the types of pc and task.
LEMMA LoadType ==
  ASSUME TypeOK, NEW w \in Workers, task[w].msg \in Jobs, NEW from, NEW to \in Steps,
         Load(w, from, to)
  PROVE  pc' \in [Workers -> Steps] /\ task' \in [Workers -> Tasks]
<1>1. CASE Return(w, FALSE, TRUE)
  BY <1>1, ReturnType
<1>2. CASE Goto(w, from, to) /\ task' = [task EXCEPT ![w].rec = store[task[w].msg]]
  <2>1. store[task[w].msg] \in Records
    BY DEF TypeOK
  <2>2. task' \in [Workers -> Tasks]
    BY <1>2, <2>1 DEF TypeOK, Tasks
  <2> QED
    BY <1>2, <2>2, GotoType
<1> QED
  BY <1>1, <1>2 DEF Load

\* No settlement and no timeout makes a message appear.
LEMMA SettleUnsent ==
  ASSUME TypeOK, Unsent, NEW m \in Messages, NEW how \in Settled, UNCHANGED sub,
         Requeued(m) \/ Closed(m, how) \/ UNCHANGED msg
  PROVE  Unsent'
<1> SUFFICES ASSUME NEW j \in Jobs, msg[j].state = "absent" PROVE msg'[j].state = "absent"
  BY DEF Unsent
<1>1. CASE Requeued(m)
  BY <1>1 DEF Requeued, Pending, TypeOK, Messages, Deliveries
<1>2. CASE Closed(m, how)
  BY <1>2 DEF Closed, Pending, TypeOK, Messages, Deliveries
<1> QED
  BY <1>1, <1>2

\* A return from Process has the shape of a step of Process.
LEMMA ReturnWorks ==
  ASSUME TypeOK, NEW w \in Workers, NEW ok, NEW err, Return(w, ok, err),
         pc[w] \notin {"idle", "term"}, UNCHANGED <<sub, msg>>
  PROVE  Works(w)
  BY DEF TypeOK, Return, Works, Tasks

\* The branch after a failed MarkSucceeded has the shape of a step of Process.
LEMMA PersistFailsWorks ==
  ASSUME TypeOK, NEW w \in Workers, PersistFails(w),
         pc[w] \notin {"idle", "term"}, UNCHANGED <<sub, msg>>
  PROVE  Works(w)
  BY DEF TypeOK, PersistFails, Works, Tasks

\* A move between two steps of Process that changes at most one local has the
\* shape of a step of Process.
LEMMA GotoWorks ==
  ASSUME TypeOK, NEW w \in Workers, NEW from, NEW to, Goto(w, from, to),
         from \notin {"idle", "term"}, to \notin {"idle", "term"},
         \/ UNCHANGED task
         \/ \E r : task' = [task EXCEPT ![w].rec = r]
         \/ \E b : task' = [task EXCEPT ![w].large = b]
         \/ \E b : task' = [task EXCEPT ![w].err = b],
         UNCHANGED <<sub, msg>>
  PROVE  Works(w)
<1>1. /\ pc[w] \notin {"idle", "term"} /\ pc'[w] \notin {"idle", "term"}
      /\ \A v \in Workers \ {w} : pc'[v] = pc[v]
  BY DEF TypeOK, Goto
<1>2. CASE UNCHANGED task
  BY <1>1, <1>2 DEF Works
<1>3. CASE \E r : task' = [task EXCEPT ![w].rec = r]
  BY <1>1, <1>3 DEF Works, TypeOK, Tasks
<1>4. CASE \E b : task' = [task EXCEPT ![w].large = b]
  BY <1>1, <1>4 DEF Works, TypeOK, Tasks
<1>5. CASE \E b : task' = [task EXCEPT ![w].err = b]
  BY <1>1, <1>5 DEF Works, TypeOK, Tasks
<1> QED
  BY <1>2, <1>3, <1>4, <1>5

\* The Get of store.update has the shape of a step of Process.
LEMMA LoadWorks ==
  ASSUME TypeOK, NEW w \in Workers, NEW from, NEW to, Load(w, from, to),
         from \notin {"idle", "term"}, to \notin {"idle", "term"}
  PROVE  Works(w)
  BY ReturnWorks, GotoWorks DEF Load

\* Every step of Process has that shape (processor.go:47-196).
LEMMA ProcessWorks ==
  ASSUME TypeOK, NEW w \in Workers, Process(w)
  PROVE  Works(w)
<1>1. CASE Check(w)
  BY <1>1, ReturnWorks, GotoWorks DEF Check
<1>2. CASE MarkRunningGet(w)
  BY <1>2, LoadWorks DEF MarkRunningGet
<1>3. CASE MarkRunningSet(w)
  BY <1>3, ReturnWorks, GotoWorks DEF MarkRunningSet
<1>4. CASE Prepare(w)
  BY <1>4, GotoWorks DEF Prepare
<1>5. CASE Execute(w)
  BY <1>5, GotoWorks DEF Execute
<1>6. CASE MarkSucceededGet(w)
  BY <1>6, PersistFailsWorks, GotoWorks DEF MarkSucceededGet
<1>7. CASE PutObject(w)
  BY <1>7, PersistFailsWorks, GotoWorks DEF PutObject
<1>8. CASE MarkSucceededSet(w)
  BY <1>8, PersistFailsWorks, ReturnWorks DEF MarkSucceededSet
<1>9. CASE MarkFailedGet(w)
  BY <1>9, LoadWorks DEF MarkFailedGet
<1>10. CASE MarkFailedSet(w)
  BY <1>10, ReturnWorks DEF MarkFailedSet
<1>11. CASE PublishAudit(w)
  BY <1>11, GotoWorks DEF PublishAudit
<1> QED
  BY <1>1, <1>2, <1>3, <1>4, <1>5, <1>6, <1>7, <1>8, <1>9, <1>10, <1>11 DEF Process

\* A step of that shape keeps what is known of messages and deliveries.
LEMMA WorksHeld ==
  ASSUME Held, Bounded, Unsent, NEW w \in Workers, Works(w)
  PROVE  Held' /\ Bounded' /\ Unsent'
  BY DEF Held, Bounded, Unsent, Works

\* A settlement leaves no deliverable message without a delivery.
LEMMA SettleBounded ==
  ASSUME TypeOK, Bounded, NEW m \in Messages, NEW how \in Settled,
         Requeued(m) \/ Closed(m, how) \/ UNCHANGED msg
  PROVE  Bounded'
<1>1. CASE Requeued(m)
  BY <1>1, DeliverAssumption DEF Requeued, Bounded, TypeOK, Deliveries, Origins
<1>2. CASE Closed(m, how)
  BY <1>2 DEF Closed, Bounded, TypeOK, Deliveries, Settled
<1> QED
  BY <1>1, <1>2 DEF Bounded

\* Every step of Process keeps the types.
LEMMA ProcessType ==
  ASSUME TypeOK, Held, NEW w \in Workers, Process(w)
  PROVE  TypeOK'
<1>0. task[w].msg \in Jobs /\ task[w].n \in Origins /\ task[w].err \in BOOLEAN
  BY ProcessWorks DEF Works, Held, TypeOK, Tasks
<1>1. CASE Check(w)
  BY <1>1, GotoType, ReturnType DEF Check, Steps, TypeOK
<1>2. CASE MarkRunningGet(w)
  <2>1. pc' \in [Workers -> Steps] /\ task' \in [Workers -> Tasks]
    BY <1>0, <1>2, LoadType DEF MarkRunningGet, Steps
  <2> QED
    BY <1>2, <2>1 DEF MarkRunningGet, Load, TypeOK
<1>3. CASE MarkRunningSet(w)
  <2>1. [task[w].rec EXCEPT !.status = "running"] \in Records
    BY RecordFacts DEF TypeOK, Tasks
  <2>2. store' \in [Jobs -> Records]
    BY <1>3, <2>1, SaveType DEF MarkRunningSet
  <2>3. pc' \in [Workers -> Steps] /\ task' \in [Workers -> Tasks]
    BY <1>3, GotoType, ReturnType DEF MarkRunningSet, Steps, TypeOK
  <2> QED
    BY <1>3, <2>2, <2>3 DEF MarkRunningSet, TypeOK
<1>4. CASE Prepare(w)
  <2>1. pc' \in [Workers -> Steps]
    BY <1>4, GotoType DEF Prepare, Steps
  <2> QED
    BY <1>4, <2>1 DEF Prepare, TypeOK
<1>5. CASE Execute(w)
  <2>1. pc' \in [Workers -> Steps]
    BY <1>5, GotoType DEF Execute, Steps
  <2>2. executed' \in [Jobs -> SUBSET Origins]
    BY <1>0, <1>5 DEF Execute, TypeOK
  <2>3. \A b \in BOOLEAN : [task EXCEPT ![w].large = b] \in [Workers -> Tasks]
    BY DEF TypeOK, Tasks
  <2>4. task' \in [Workers -> Tasks]
    BY <1>5, <2>3 DEF Execute, TypeOK
  <2> QED
    BY <1>5, <2>1, <2>2, <2>4 DEF Execute, TypeOK
<1>6. CASE MarkSucceededGet(w)
  <2>1. store[task[w].msg] \in Records
    BY <1>0 DEF TypeOK
  <2>2. [task EXCEPT ![w].rec = store[task[w].msg]] \in [Workers -> Tasks]
    BY <2>1 DEF TypeOK, Tasks
  <2>3. pc' \in [Workers -> Steps] /\ task' \in [Workers -> Tasks]
    BY <1>6, <2>2, GotoType, PersistFailsType DEF MarkSucceededGet, Steps
  <2> QED
    BY <1>6, <2>3 DEF MarkSucceededGet, TypeOK
<1>7. CASE PutObject(w)
  <2>1. pc' \in [Workers -> Steps] /\ task' \in [Workers -> Tasks]
    BY <1>7, GotoType, PersistFailsType DEF PutObject, Steps, TypeOK
  <2>2. object' \in [Jobs -> Origins]
    BY <1>0, <1>7 DEF PutObject, TypeOK
  <2> QED
    BY <1>7, <2>1, <2>2 DEF PutObject, TypeOK
<1>8. CASE MarkSucceededSet(w)
  <2> DEFINE r == [status    |-> "success",
                   rows      |-> IF task[w].large THEN 0 ELSE task[w].n,
                   ref       |-> task[w].large \/ task[w].rec.ref,
                   truncated |-> task[w].n]
  <2>1. r \in Records
    <3>1. task[w].large \in BOOLEAN /\ task[w].rec \in Records
      BY DEF TypeOK, Tasks
    <3> QED
      BY <1>0, <3>1, OriginFacts DEF Records, Terminal
  <2>2. Saved(task[w].msg, r) \/ SaveFails(task[w].msg, r)
    BY <1>8 DEF MarkSucceededSet
  <2>3. store' \in [Jobs -> Records]
    BY <2>1, <2>2, SaveType
  <2>4. pc' \in [Workers -> Steps] /\ task' \in [Workers -> Tasks]
    BY <1>8, PersistFailsType, ReturnType DEF MarkSucceededSet
  <2> QED
    BY <1>8, <2>3, <2>4 DEF MarkSucceededSet, TypeOK
<1>9. CASE MarkFailedGet(w)
  <2>1. pc' \in [Workers -> Steps] /\ task' \in [Workers -> Tasks]
    BY <1>0, <1>9, LoadType DEF MarkFailedGet, Steps
  <2> QED
    BY <1>9, <2>1 DEF MarkFailedGet, Load, TypeOK
<1>10. CASE MarkFailedSet(w)
  <2>1. [task[w].rec EXCEPT !.status = "failed", !.rows = 0, !.ref = FALSE] \in Records
    BY RecordFacts DEF TypeOK, Tasks
  <2>2. store' \in [Jobs -> Records]
    BY <1>10, <2>1, SaveType DEF MarkFailedSet
  <2>3. pc' \in [Workers -> Steps] /\ task' \in [Workers -> Tasks]
    BY <1>0, <1>10, ReturnType DEF MarkFailedSet
  <2> QED
    BY <1>10, <2>2, <2>3 DEF MarkFailedSet, TypeOK
<1>11. CASE PublishAudit(w)
  <2>1. pc' \in [Workers -> Steps]
    BY <1>11, GotoType DEF PublishAudit, Steps
  <2>2. task[w].ok \in BOOLEAN
    BY DEF TypeOK, Tasks
  <2>3. [audit EXCEPT ![task[w].msg] = Append(@, task[w].ok)] \in [Jobs -> Seq(BOOLEAN)]
    BY <1>0, <2>2 DEF TypeOK
  <2>4. [task EXCEPT ![w].err = TRUE] \in [Workers -> Tasks]
    BY DEF TypeOK, Tasks
  <2>5. audit' \in [Jobs -> Seq(BOOLEAN)] /\ task' \in [Workers -> Tasks]
    BY <1>11, <2>3, <2>4 DEF PublishAudit, TypeOK
  <2> QED
    BY <1>11, <2>1, <2>5 DEF PublishAudit, TypeOK
<1> QED
  BY <1>1, <1>2, <1>3, <1>4, <1>5, <1>6, <1>7, <1>8, <1>9, <1>10, <1>11 DEF Process

\* The strengthened type invariant holds in every behaviour, for every set of
\* jobs, workers and faults and every MaxDeliver.
THEOREM TypeInvariance == Spec => []TypeInv
<1>1. Init => TypeInv
  <2> SUFFICES ASSUME Init PROVE TypeInv
    OBVIOUS
  <2>1. msg \in [Messages -> Deliveries]
    BY OriginFacts DEF Init, Deliveries
  <2>2. audit \in [Jobs -> Seq(BOOLEAN)]
    BY DEF Init
  <2>3. TypeOK
    BY <2>1, <2>2, OriginFacts, RecordFacts, TaskFacts DEF Init, TypeOK, Calls, Steps
  <2>4. Held
    BY DEF Init, Held
  <2>5. Bounded /\ Unsent
    BY DeliverAssumption, MessageAssumption DEF Init, Bounded, Unsent, Messages
  <2> QED
    BY <2>3, <2>4, <2>5 DEF TypeInv
<1>2. TypeInv /\ [Next]_vars => TypeInv'
  <2> SUFFICES ASSUME TypeOK, Held, Bounded, Unsent, [Next]_vars PROVE TypeInv'
    BY DEF TypeInv
  <2>1. ASSUME NEW j \in Jobs, Create(j) PROVE TypeInv'
    <3>1. [NoRecord EXCEPT !.status = "pending"] \in Records
      BY RecordFacts
    <3>2. store' \in [Jobs -> Records]
      BY <2>1, <3>1, SaveType DEF Create
    <3>3. sub' \in [Jobs -> Calls]
      BY <2>1 DEF Create, CallMoves, Calls, TypeOK
    <3> QED
      BY <2>1, <3>2, <3>3 DEF Create, CallMoves, TypeInv, TypeOK, Held, Bounded, Unsent, Calls
  <2>2. ASSUME NEW j \in Jobs, Publish(j) PROVE TypeInv'
    <3>1. msg' \in [Messages -> Deliveries]
      BY <2>2 DEF Publish, Deliveries, TypeOK
    <3>2. sub' \in [Jobs -> Calls]
      BY <2>2 DEF Publish, CallMoves, Calls, TypeOK
    <3>3. msg[j].state = "absent"
      BY <2>2 DEF Publish, CallMoves, Unsent
    <3>4. Bounded' /\ Unsent'
      BY <2>2, <3>3 DEF Publish, CallMoves, TypeOK, Bounded, Unsent, Messages, Deliveries
    <3> QED
      BY <2>2, <3>1, <3>2, <3>4 DEF Publish, TypeInv, TypeOK, Held
  <2>3. ASSUME NEW j \in Jobs, MarkPublishFailed(j) PROVE TypeInv'
    <3>1. [store[j] EXCEPT !.status = "failed", !.rows = 0, !.ref = FALSE] \in Records
      BY <2>3, RecordFacts DEF TypeOK
    <3>2. store' \in [Jobs -> Records]
      BY <2>3, <3>1, SaveType DEF MarkPublishFailed, TypeOK
    <3>3. sub' \in [Jobs -> Calls]
      BY <2>3 DEF MarkPublishFailed, CallMoves, Calls, TypeOK
    <3> QED
      BY <2>3, <3>2, <3>3 DEF MarkPublishFailed, CallMoves, TypeInv, TypeOK, Held, Bounded, Unsent, Calls
  <2>4. ASSUME NEW j \in Jobs, CrashSubmit(j) PROVE TypeInv'
    <3>1. sub' \in [Jobs -> Calls]
      BY <2>4 DEF CrashSubmit, CallMoves, Calls, TypeOK
    <3> QED
      BY <2>4, <3>1 DEF CrashSubmit, CallMoves, TypeInv, TypeOK, Held, Bounded, Unsent, Calls
  <2>5. ASSUME NEW m \in Messages, AckWait(m) PROVE TypeInv'
    <3>1. TypeOK'
      BY <2>5, RequeuedType DEF AckWait, TypeOK
    <3>2. Bounded'
      BY <2>5, DeliverAssumption DEF AckWait, Requeued, TypeOK, Bounded, Deliveries, Origins
    <3> QED
      BY <2>5, <3>1, <3>2, SettleUnsent DEF AckWait, Held, TypeInv, Settled
  <2>6. ASSUME NEW m \in Messages, NEW w \in Workers, Fetch(w, m) PROVE TypeInv'
    <3>1. msg[m].n \in Origins /\ msg[m].n < MaxDeliver /\ msg[m].n + 1 \in Origins
      BY <2>6, OriginFacts DEF Fetch, TypeOK, Bounded, Deliveries
    <3>2. msg' \in [Messages -> Deliveries]
      BY <2>6, <3>1 DEF Fetch, TypeOK, Deliveries
    <3>3. task' \in [Workers -> Tasks]
      BY <2>6, <3>1, TaskFacts DEF Fetch, TypeOK
    <3>4. pc' \in [Workers -> Steps]
      BY <2>6, GotoType DEF Fetch, Steps
    <3>5. Held'
      BY <2>6 DEF Fetch, Goto, Held, TypeOK, Messages, NoTask
    <3>6. Bounded'
      BY <2>6 DEF Fetch, Bounded, TypeOK
    <3>7. Unsent'
      BY <2>6 DEF Fetch, Unsent, TypeOK, Messages
    <3> QED
      BY <2>6, <3>2, <3>3, <3>4, <3>5, <3>6, <3>7 DEF Fetch, TypeOK, TypeInv
  <2>7. ASSUME NEW w \in Workers, Terminate(w) PROVE TypeInv'
    <3>1. task[w].msg \in Messages
      BY <2>7 DEF Terminate, Goto, Held, Messages
    <3>2. msg' \in [Messages -> Deliveries] /\ Bounded' /\ Unsent'
      BY <2>7, <3>1, ClosedType, SettleBounded, SettleUnsent DEF Terminate, Settles, Settled, TypeOK
    <3>3. task' \in [Workers -> Tasks] /\ pc' \in [Workers -> Steps]
      BY <2>7, TaskFacts, GotoType DEF Terminate, Settles, Steps, TypeOK
    <3>4. Held'
      BY <2>7 DEF Terminate, Settles, Goto, Held, TypeOK
    <3> QED
      BY <2>7, <3>2, <3>3, <3>4 DEF Terminate, Settles, TypeOK, TypeInv
  <2>8. ASSUME NEW w \in Workers, Settle(w) PROVE TypeInv'
    <3>1. task[w].msg \in Messages
      BY <2>8 DEF Settle, Goto, Held, Messages
    <3>2. msg' \in [Messages -> Deliveries] /\ Bounded' /\ Unsent'
      BY <2>8, <3>1, RequeuedType, ClosedType, SettleBounded, SettleUnsent
      DEF Settle, Settles, Settled, TypeOK
    <3>3. task' \in [Workers -> Tasks] /\ pc' \in [Workers -> Steps]
      BY <2>8, TaskFacts, GotoType DEF Settle, Settles, Steps, TypeOK
    <3>4. Held'
      BY <2>8 DEF Settle, Settles, Goto, Held, TypeOK
    <3> QED
      BY <2>8, <3>2, <3>3, <3>4 DEF Settle, Settles, TypeOK, TypeInv
  <2>9. ASSUME NEW w \in Workers, Process(w) PROVE TypeInv'
    <3>1. Held' /\ Bounded' /\ Unsent'
      BY <2>9, ProcessWorks, WorksHeld
    <3>2. TypeOK'
      BY <2>9, ProcessType
    <3> QED
      BY <3>1, <3>2 DEF TypeInv
  <2>10. ASSUME NEW w \in Workers, Crash(w) PROVE TypeInv'
    <3>1. task' \in [Workers -> Tasks] /\ pc' \in [Workers -> Steps]
      BY <2>10, TaskFacts DEF Crash, Steps, TypeOK
    <3>2. Held'
      BY <2>10 DEF Crash, Held, TypeOK
    <3> QED
      BY <2>10, <3>1, <3>2 DEF Crash, TypeOK, TypeInv, Bounded, Unsent
  <2>11. ASSUME NEW w \in Workers, Shutdown(w) PROVE TypeInv'
    <3>1. task' \in [Workers -> Tasks]
      BY <2>11 DEF Shutdown, Tasks, TypeOK
    <3>2. Held'
      BY <2>11 DEF Shutdown, Held, TypeOK, Tasks
    <3> QED
      BY <2>11, <3>1, <3>2 DEF Shutdown, TypeOK, TypeInv, Bounded, Unsent
  <2>12. CASE UNCHANGED vars
    BY <2>12 DEF vars, TypeInv, TypeOK, Held, Bounded, Unsent
  <2>13. ASSUME NEW j \in Jobs, Answer(j) PROVE TypeInv'
    <3>1. sub' \in [Jobs -> Calls]
      BY <2>13 DEF Answer, CallMoves, Calls, TypeOK
    <3> QED
      BY <2>13, <3>1 DEF Answer, CallMoves, TypeInv, TypeOK, Held, Bounded, Unsent, Calls
  <2> QED
    BY <2>1, <2>2, <2>3, <2>4, <2>5, <2>6, <2>7, <2>8, <2>9, <2>10, <2>11, <2>12, <2>13
    DEF Next, Submit
<1> QED
  BY <1>1, <1>2, PTL DEF Spec

\* Type correctness: in particular no job is delivered more often than
\* MaxDeliver says (main.go:84-91).
THEOREM TypeCorrect == Spec => []TypeOK
<1>1. TypeInv => TypeOK
  BY DEF TypeInv
<1> QED
  BY <1>1, TypeInvariance, PTL

(***************************************************************************)
(* Without overlapping deliveries.                                         *)
(***************************************************************************)

\* A busy worker is the only one that holds its message, and the consumer
\* regards that delivery as the one in flight (worker.go:64-99).
Alone ==
  /\ \A w \in Workers : pc[w] = "idle" => task[w] = NoTask
  /\ \A w \in Workers : pc[w] # "idle" =>
       msg[task[w].msg].state = "inflight" /\ task[w].n = msg[task[w].msg].n
  /\ \A v, w \in Workers :
       pc[v] # "idle" /\ pc[w] # "idle" /\ task[v].msg = task[w].msg => v = w

\* The last event of the job's audit trail tells the outcome ok.
Audited(j, ok) == audit[j] # <<>> /\ (audit[j][Len(audit[j])] <=> ok)

\* A Process call that is about to return without an error has left a terminal
\* record, and knows its outcome (processor.go:55-87).
Verdict(w) ==
  pc[w] \in {"audit", "settle"} /\ ~task[w].err =>
    /\ store[task[w].msg].status \in Terminal
    /\ task[w].ok <=> store[task[w].msg].status = "success"
    /\ pc[w] = "settle" => Audited(task[w].msg, task[w].ok)

\* AckedIsTerminal and AckedIsAudited in one.
Acked ==
  \A j \in Jobs : msg[j].state = "acked" =>
    store[j].status \in Terminal /\ Audited(j, store[j].status = "success")

\* The inductive invariant of a pool whose AckWait never runs out during work.
AloneInv == Alone /\ (\A w \in Workers : Verdict(w)) /\ Acked

\* A step of Process keeps its worker alone.
LEMMA WorksAlone ==
  ASSUME TypeOK, Alone, NEW w \in Workers, Works(w)
  PROVE  Alone'
<1>1. \A v \in Workers : pc'[v] = "idle" => task'[v] = NoTask
  BY DEF Alone, Works
<1>2. \A v \in Workers : pc'[v] # "idle" =>
        msg'[task'[v].msg].state = "inflight" /\ task'[v].n = msg'[task'[v].msg].n
  BY DEF Alone, Works
<1>3. \A u, v \in Workers :
        pc'[u] # "idle" /\ pc'[v] # "idle" /\ task'[u].msg = task'[v].msg => u = v
  BY DEF Alone, Works
<1> QED
  BY <1>1, <1>2, <1>3 DEF Alone

\* A step of Process leaves the records, the objects and the trails of other
\* jobs alone: keys are "n0:job:<id>" and "results/<id>.json" (store.go:106-124).
LEMMA ProcessFrame ==
  ASSUME TypeOK, Held, NEW w \in Workers, Process(w)
  PROVE  \A j \in Jobs \ {task[w].msg} :
           store'[j] = store[j] /\ object'[j] = object[j] /\ executed'[j] = executed[j] /\ audit'[j] = audit[j]
<1> SUFFICES ASSUME NEW j \in Jobs, j # task[w].msg
             PROVE  store'[j] = store[j] /\ object'[j] = object[j] /\ executed'[j] = executed[j] /\ audit'[j] = audit[j]
  OBVIOUS
<1> USE DEF TypeOK, Saved, SaveFails
<1>0. task[w].msg \in Jobs
  BY ProcessWorks DEF Works, Held
<1>1. CASE Check(w) \/ Prepare(w) \/ MarkSucceededGet(w)
  BY <1>1 DEF Check, Prepare, MarkSucceededGet
<1>2. CASE MarkRunningGet(w) \/ MarkFailedGet(w)
  BY <1>2 DEF MarkRunningGet, MarkFailedGet, Load
<1>3. CASE MarkRunningSet(w)
  BY <1>0, <1>3 DEF MarkRunningSet
<1>4. CASE MarkSucceededSet(w)
  BY <1>0, <1>4 DEF MarkSucceededSet
<1>5. CASE MarkFailedSet(w)
  BY <1>0, <1>5 DEF MarkFailedSet
<1>6. CASE Execute(w)
  BY <1>0, <1>6 DEF Execute
<1>7. CASE PutObject(w)
  BY <1>0, <1>7 DEF PutObject
<1>8. CASE PublishAudit(w)
  BY <1>0, <1>8 DEF PublishAudit
<1> QED
  BY <1>1, <1>2, <1>3, <1>4, <1>5, <1>6, <1>7, <1>8 DEF Process

\* What a return from Process leaves in the worker.
LEMMA ReturnEffect ==
  ASSUME TypeOK, NEW w \in Workers, NEW ok, NEW err, Return(w, ok, err)
  PROVE  /\ pc'[w] = "audit"
         /\ task'[w].msg = task[w].msg /\ task'[w].ok = ok /\ task'[w].err = err
  BY DEF Return, TypeOK, Tasks

\* A failed MarkSucceeded goes on with failJob.
LEMMA PersistFailsEffect ==
  ASSUME TypeOK, NEW w \in Workers, PersistFails(w)
  PROVE  pc'[w] = "fail_get"
  BY DEF PersistFails, TypeOK

\* Process only ever returns without an error over a terminal record whose
\* outcome it audits.
LEMMA ProcessVerdict ==
  ASSUME TypeOK, Held, NEW w \in Workers, Verdict(w), Process(w)
  PROVE  Verdict(w)'
<1>0. task[w].msg \in Jobs /\ task[w].err \in BOOLEAN /\ task[w].ok \in BOOLEAN
  BY ProcessWorks DEF Works, Held, TypeOK, Tasks
<1>1. CASE Check(w)
  <2>1. CASE Goto(w, "check", "running_get")
    BY <2>1 DEF Goto, Verdict, TypeOK
  <2>2. CASE /\ store[task[w].msg].status \in Terminal
             /\ Return(w, store[task[w].msg].status = "success", FALSE)
    <3>1. store'[task[w].msg] = store[task[w].msg]
      BY <1>1 DEF Check
    <3> QED
      BY <2>2, <3>1, ReturnEffect DEF Verdict
  <2> QED
    BY <1>1, <2>1, <2>2 DEF Check
<1>2. CASE MarkRunningGet(w) \/ MarkFailedGet(w)
  BY <1>2 DEF MarkRunningGet, MarkFailedGet, Load, Goto, Return, Verdict, TypeOK, Tasks
<1>3. CASE MarkRunningSet(w)
  BY <1>3 DEF MarkRunningSet, Goto, Return, Verdict, TypeOK, Tasks
<1>4. CASE Prepare(w) \/ Execute(w)
  BY <1>4 DEF Prepare, Execute, Goto, Verdict, TypeOK, Tasks
<1>5. CASE MarkSucceededGet(w) \/ PutObject(w)
  BY <1>5 DEF MarkSucceededGet, PutObject, PersistFails, Goto, Verdict, TypeOK, Tasks
<1>6. CASE MarkSucceededSet(w)
  <2>1. CASE PersistFails(w)
    BY <2>1, PersistFailsEffect DEF Verdict
  <2>2. CASE Return(w, TRUE, FALSE) /\ store'[task[w].msg].status = "success"
    BY <2>2, ReturnEffect DEF Verdict, Terminal
  <2>3. CASE PersistFails(w) \/ Return(w, TRUE, FALSE)
    <3>1. Return(w, TRUE, FALSE) => store'[task[w].msg].status = "success"
      BY <1>0, <1>6 DEF MarkSucceededSet, Saved, TypeOK, Return, PersistFails, Steps
    <3> QED
      BY <2>1, <2>2, <2>3, <3>1
  <2> QED
    BY <1>6, <2>3 DEF MarkSucceededSet
<1>7. CASE MarkFailedSet(w)
  <2>1. CASE Return(w, FALSE, TRUE)
    BY <2>1 DEF Return, Verdict, TypeOK, Tasks
  <2>2. CASE Return(w, FALSE, task[w].err) /\ store'[task[w].msg].status = "failed"
    BY <2>2, ReturnEffect DEF Verdict, Terminal
  <2>3. [task[w].rec EXCEPT !.status = "failed", !.rows = 0, !.ref = FALSE].status = "failed"
    BY DEF TypeOK, Tasks, Records
  <2> QED
    BY <1>0, <1>7, <2>1, <2>2, <2>3 DEF MarkFailedSet, Saved, TypeOK
<1>8. CASE PublishAudit(w)
  BY <1>0, <1>8 DEF PublishAudit, Goto, Verdict, Audited, TypeOK, Tasks
<1> QED
  BY <1>1, <1>2, <1>3, <1>4, <1>5, <1>6, <1>7, <1>8 DEF Process

\* Whatever a worker does to its own job leaves the verdicts of the others and
\* the acknowledged jobs alone.
LEMMA ProcessAlone ==
  ASSUME TypeOK, Held, AloneInv, NEW w \in Workers, Process(w)
  PROVE  AloneInv'
<1>1. Works(w)
  BY ProcessWorks
<1>2. Alone'
  BY <1>1, WorksAlone DEF AloneInv
<1>3. \A j \in Jobs \ {task[w].msg} : store'[j] = store[j] /\ audit'[j] = audit[j]
  BY ProcessFrame
<1>4. ASSUME NEW v \in Workers PROVE Verdict(v)'
  <2>1. CASE v = w
    BY <2>1, ProcessVerdict DEF AloneInv
  <2>2. CASE v # w
    <3>1. pc'[v] = pc[v] /\ task'[v] = task[v]
      BY <1>1, <2>2 DEF Works
    <3>2. CASE pc[v] \in {"audit", "settle"}
      <4>1. task[v].msg \in Jobs \ {task[w].msg}
        BY <1>1, <2>2, <3>2 DEF Works, AloneInv, Alone, Held
      <4> QED
        BY <1>3, <3>1, <4>1 DEF AloneInv, Verdict, Audited
    <3> QED
      BY <3>1, <3>2 DEF Verdict
  <2> QED
    BY <2>1, <2>2
<1>5. Acked'
  <2> SUFFICES ASSUME NEW j \in Jobs, msg'[j].state = "acked"
               PROVE  store'[j].status \in Terminal /\ Audited(j, store[j].status = "success")'
    BY DEF Acked
  <2>1. msg[j].state = "acked" /\ j # task[w].msg
    BY <1>1 DEF Works, AloneInv, Alone
  <2>2. store'[j] = store[j] /\ audit'[j] = audit[j]
    BY <1>3, <2>1
  <2> QED
    BY <2>1, <2>2 DEF AloneInv, Acked, Audited
<1> QED
  BY <1>2, <1>4, <1>5 DEF AloneInv

\* A step of a submitter concerns a job whose message is not there yet.
LEMMA SubmitAlone ==
  ASSUME TypeOK, Unsent, Held, AloneInv, NEW j \in Jobs, Submit(j) \/ CrashSubmit(j)
  PROVE  AloneInv'
<1>1. msg[j].state = "absent" /\ UNCHANGED <<pc, task, audit>>
  BY DEF Submit, Create, Publish, MarkPublishFailed, CrashSubmit, CallMoves, Unsent
<1>2. \A k \in Jobs \ {j} : store'[k] = store[k]
  BY DEF Submit, Create, Publish, MarkPublishFailed, CrashSubmit, Saved, SaveFails, TypeOK
<1>3. /\ \A m \in Messages \ {j} : msg'[m] = msg[m]
      /\ msg'[j].state \in {"absent", "ready"}
  BY <1>1 DEF Submit, Create, Publish, MarkPublishFailed, CrashSubmit, TypeOK, Deliveries, Messages
<1>4. \A w \in Workers : pc[w] # "idle" => task[w].msg \in Messages \ {j}
  BY <1>1 DEF AloneInv, Alone, Held, Messages
<1>5. Alone'
  BY <1>1, <1>3, <1>4 DEF AloneInv, Alone
<1>6. \A w \in Workers : Verdict(w)'
  <2> SUFFICES ASSUME NEW w \in Workers, pc[w] \in {"audit", "settle"} PROVE Verdict(w)'
    BY <1>1 DEF Verdict
  <2>1. task[w].msg \in Jobs \ {j}
    BY <1>4 DEF Held
  <2> QED
    BY <1>1, <1>2, <2>1 DEF AloneInv, Verdict, Audited
<1>7. Acked'
  BY <1>1, <1>2, <1>3 DEF AloneInv, Acked, Audited, Messages
<1> QED
  BY <1>5, <1>6, <1>7 DEF AloneInv

\* Acknowledged jobs stay as they are when store and audit stay and no other
\* job becomes acknowledged.
LEMMA QueueAcked ==
  ASSUME TypeOK, Acked, NEW m \in Messages, NEW how \in Settled, UNCHANGED <<store, audit>>,
         Requeued(m) \/ Closed(m, how) \/ UNCHANGED msg,
         Closed(m, "acked") /\ m \in Jobs =>
            store[m].status \in Terminal /\ Audited(m, store[m].status = "success")
  PROVE  Acked'
<1> SUFFICES ASSUME NEW j \in Jobs, msg'[j].state = "acked"
             PROVE  store[j].status \in Terminal /\ Audited(j, store[j].status = "success")
  BY DEF Acked, Audited
<1>1. CASE msg[j].state = "acked"
  BY <1>1 DEF Acked
<1>2. CASE msg[j].state # "acked"
  <2>1. j = m /\ Closed(m, "acked")
    BY <1>2 DEF Requeued, Closed, TypeOK, Messages, Deliveries, Settled
  <2> QED
    BY <2>1
<1> QED
  BY <1>1, <1>2

\* A worker that goes idle leaves a message that nobody else holds.
LEMMA LeaveAlone ==
  ASSUME TypeOK, Alone, NEW w \in Workers, pc[w] # "idle",
         pc' = [pc EXCEPT ![w] = "idle"], task' = [task EXCEPT ![w] = NoTask],
         \A m \in Messages \ {task[w].msg} : msg'[m] = msg[m], Held
  PROVE  Alone'
<1>1. \A v \in Workers \ {w} : pc'[v] = pc[v] /\ task'[v] = task[v]
  BY DEF TypeOK
<1>2. pc'[w] = "idle" /\ task'[w] = NoTask
  BY DEF TypeOK
<1>3. \A v \in Workers \ {w} : pc[v] # "idle" => task[v].msg \in Messages \ {task[w].msg}
  BY DEF Alone, Held, Messages
<1> QED
  BY <1>1, <1>2, <1>3 DEF Alone

\* Every step keeps AloneInv when AckWait never runs out during work.
LEMMA AloneStep ==
  ASSUME "ackwait" \notin Faults, TypeInv, TypeInv', AloneInv, [Next]_vars
  PROVE  AloneInv'
<1> USE DEF TypeInv
<1>1. ASSUME NEW j \in Jobs, Submit(j) \/ CrashSubmit(j) PROVE AloneInv'
  BY <1>1, SubmitAlone
<1>2. ASSUME NEW m \in Messages, AckWait(m) PROVE AloneInv'
  <2>1. \A w \in Workers : task[w].msg # m
    BY <1>2 DEF AckWait, Holds
  <2>2. \A k \in Messages \ {m} : msg'[k] = msg[k]
    BY <1>2 DEF AckWait, Requeued, TypeOK
  <2>3. Alone'
    BY <1>2, <2>1, <2>2 DEF AckWait, AloneInv, Alone, Held, Messages
  <2>4. msg'[m].state # "acked"
    BY <1>2 DEF AckWait, Requeued, TypeOK, Deliveries
  <2>5. Acked'
    BY <1>2, <2>2, <2>4 DEF AckWait, AloneInv, Acked, Audited, Messages
  <2> QED
    BY <1>2, <2>3, <2>5 DEF AckWait, AloneInv, Verdict, Audited
<1>3. ASSUME NEW m \in Messages, NEW w \in Workers, Fetch(w, m) PROVE AloneInv'
  <2>1. /\ pc[w] = "idle" /\ pc'[w] \in {"term", "check"}
        /\ \A v \in Workers \ {w} : pc'[v] = pc[v] /\ task'[v] = task[v]
    BY <1>3 DEF Fetch, Goto, TypeOK
  <2>2. task'[w].msg = m /\ task'[w].n = msg[m].n + 1
    BY <1>3 DEF Fetch, TypeOK, NoTask
  <2>3. /\ msg[m].state = "ready" /\ msg'[m] = [state |-> "inflight", n |-> msg[m].n + 1]
        /\ \A k \in Messages \ {m} : msg'[k] = msg[k]
    BY <1>3 DEF Fetch, TypeOK
  <2>4. \A v \in Workers \ {w} : pc[v] # "idle" => task[v].msg \in Messages \ {m}
    BY <2>3 DEF AloneInv, Alone, Held, Messages
  <2>5. Alone'
    BY <2>1, <2>2, <2>3, <2>4 DEF AloneInv, Alone
  <2>6. ASSUME NEW v \in Workers PROVE Verdict(v)'
    BY <1>3, <2>1 DEF Fetch, AloneInv, Verdict, Audited
  <2>7. Acked'
    BY <1>3, <2>3 DEF Fetch, AloneInv, Acked, Audited, Messages
  <2> QED
    BY <2>5, <2>6, <2>7 DEF AloneInv
<1>4. ASSUME NEW w \in Workers, Process(w) PROVE AloneInv'
  BY <1>4, ProcessAlone
<1>5. ASSUME NEW w \in Workers, Terminate(w) PROVE AloneInv'
  <2>1. /\ task[w].msg \in Poison /\ pc[w] # "idle"
        /\ pc' = [pc EXCEPT ![w] = "idle"] /\ task' = [task EXCEPT ![w] = NoTask]
        /\ Closed(task[w].msg, "termed") \/ UNCHANGED msg
        /\ UNCHANGED <<store, audit>>
    BY <1>5 DEF Terminate, Goto, Settles, Held
  <2>2. \A k \in Messages \ {task[w].msg} : msg'[k] = msg[k]
    BY <2>1 DEF Closed, TypeOK
  <2>3. Alone'
    BY <2>1, <2>2, LeaveAlone DEF AloneInv
  <2>4. Acked'
    BY <2>1, QueueAcked, MessageAssumption DEF AloneInv, Messages, Settled
  <2>5. ASSUME NEW v \in Workers PROVE Verdict(v)'
    BY <2>1 DEF AloneInv, Verdict, Audited, TypeOK
  <2> QED
    BY <2>3, <2>4, <2>5 DEF AloneInv
<1>6. ASSUME NEW w \in Workers, Settle(w) PROVE AloneInv'
  <2>1. /\ task[w].msg \in Jobs /\ pc[w] = "settle"
        /\ pc' = [pc EXCEPT ![w] = "idle"] /\ task' = [task EXCEPT ![w] = NoTask]
        /\ Requeued(task[w].msg) \/ (~task[w].err /\ Closed(task[w].msg, "acked")) \/ UNCHANGED msg
        /\ UNCHANGED <<store, audit>>
    BY <1>6 DEF Settle, Goto, Settles, Held
  <2>2. \A k \in Messages \ {task[w].msg} : msg'[k] = msg[k]
    BY <2>1 DEF Requeued, Closed, TypeOK
  <2>3. Alone'
    BY <2>1, <2>2, LeaveAlone DEF AloneInv
  <2>4. Acked'
    <3> DEFINE j == task[w].msg
    <3>1. CASE task[w].err
      <4>1. Requeued(j) \/ UNCHANGED msg
        BY <2>1, <3>1
      <4>2. \A k \in Jobs : msg'[k].state = "acked" => msg[k].state = "acked"
        <5> SUFFICES ASSUME NEW k \in Jobs, msg'[k].state = "acked", msg[k].state # "acked"
                     PROVE  FALSE
          OBVIOUS
        <5>1. Requeued(j) /\ k = j
          BY <4>1, <2>2 DEF Messages
        <5>2. msg[j] \in Deliveries /\ j \in Messages
          BY <2>1 DEF TypeOK, Messages
        <5>3. msg'[j].state \in {msg[j].state, "exhausted", "ready"}
          BY <5>1, <5>2 DEF Requeued, TypeOK, Deliveries
        <5> QED
          BY <5>1, <5>3
      <4> QED
        BY <2>1, <4>2 DEF AloneInv, Acked, Audited
    <3>2. CASE ~task[w].err
      <4>1. store[j].status \in Terminal /\ Audited(j, store[j].status = "success")
        BY <2>1, <3>2 DEF AloneInv, Verdict, Audited
      <4> QED
        BY <2>1, <4>1, QueueAcked DEF AloneInv, Messages, Settled
    <3> QED
      BY <3>1, <3>2
  <2>5. ASSUME NEW v \in Workers PROVE Verdict(v)'
    BY <2>1 DEF AloneInv, Verdict, Audited, TypeOK
  <2> QED
    BY <2>3, <2>4, <2>5 DEF AloneInv
<1>7. ASSUME NEW w \in Workers, Crash(w) PROVE AloneInv'
  <2>1. Alone'
    BY <1>7, LeaveAlone DEF Crash, AloneInv
  <2>2. Acked'
    BY <1>7 DEF Crash, AloneInv, Acked, Audited
  <2>3. ASSUME NEW v \in Workers PROVE Verdict(v)'
    BY <1>7 DEF Crash, AloneInv, Verdict, Audited, TypeOK
  <2> QED
    BY <2>1, <2>2, <2>3 DEF AloneInv
<1>8. ASSUME NEW w \in Workers, Shutdown(w) PROVE AloneInv'
  <2>1. \A v \in Workers : /\ task'[v].msg = task[v].msg /\ task'[v].n = task[v].n
                           /\ task'[v].ok = task[v].ok /\ task'[v].err = task[v].err
                           /\ pc[v] = "idle" => task'[v] = task[v]
    BY <1>8 DEF Shutdown, TypeOK, Tasks
  <2>2. Alone'
    BY <1>8, <2>1 DEF Shutdown, AloneInv, Alone
  <2>3. Acked'
    BY <1>8 DEF Shutdown, AloneInv, Acked, Audited
  <2>4. ASSUME NEW v \in Workers PROVE Verdict(v)'
    BY <1>8, <2>1 DEF Shutdown, AloneInv, Verdict, Audited
  <2> QED
    BY <2>2, <2>3, <2>4 DEF AloneInv
<1>9. CASE UNCHANGED vars
  BY <1>9 DEF vars, AloneInv, Alone, Verdict, Acked, Audited
<1>10. ASSUME NEW j \in Jobs, Answer(j) PROVE AloneInv'
  BY <1>10 DEF Answer, AloneInv, Alone, Verdict, Acked, Audited
<1> QED
  BY <1>1, <1>2, <1>3, <1>4, <1>5, <1>6, <1>7, <1>8, <1>9, <1>10 DEF Next

\* AloneInv holds in every behaviour in which AckWait never runs out during
\* work.
LEMMA AloneInvariance ==
  ASSUME "ackwait" \notin Faults
  PROVE  Spec => []AloneInv
<1>1. Init => AloneInv
  BY DEF Init, AloneInv, Alone, Verdict, Acked, Messages
<1>2. TypeInv /\ TypeInv' /\ AloneInv /\ [Next]_vars => AloneInv'
  BY AloneStep
<1> QED
  BY <1>1, <1>2, TypeInvariance, PTL DEF Spec

\* "A worker acknowledges the message only after processing it"
\* (README.md:280): as long as AckWait covers the work, whatever else fails, an
\* acknowledged job has its final status (worker.go:92-99).
THEOREM AcknowledgedIsTerminal ==
  ASSUME "ackwait" \notin Faults
  PROVE  Spec => []AckedIsTerminal
<1>1. AloneInv => AckedIsTerminal
  BY DEF AloneInv, Acked, AckedIsTerminal
<1> QED
  BY <1>1, AloneInvariance, PTL

\* An acknowledged job was audited, and the last event of its trail tells the
\* status of its record (processor.go:55-87), as long as AckWait covers the work.
THEOREM AcknowledgedIsAudited ==
  ASSUME "ackwait" \notin Faults
  PROVE  Spec => []AckedIsAudited
<1>1. TypeInv /\ AloneInv => AckedIsAudited
  <2> SUFFICES ASSUME TypeInv, AloneInv, NEW j \in Jobs, msg[j].state = "acked"
               PROVE  /\ audit[j] # <<>>
                      /\ audit[j][Len(audit[j])] = (store[j].status = "success")
    BY DEF AckedIsAudited
  <2>1. Audited(j, store[j].status = "success")
    BY DEF AloneInv, Acked
  <2>2. audit[j] \in Seq(BOOLEAN) /\ audit[j] # <<>>
    BY <2>1 DEF TypeInv, TypeOK, Audited
  <2>3. Len(audit[j]) \in 1 .. Len(audit[j])
    BY <2>2
  <2>4. audit[j][Len(audit[j])] \in BOOLEAN
    BY <2>2, <2>3
  <2> QED
    BY <2>1, <2>2, <2>4 DEF Audited
<1> QED
  BY <1>1, AloneInvariance, TypeInvariance, PTL

\* Only one worker at a time processes a job, and the consumer still waits for
\* its answer, as long as AckWait covers the work (worker.go:64-99, main.go:88).
THEOREM WorkersAreAlone ==
  ASSUME "ackwait" \notin Faults
  PROVE  Spec => []OneWorkerPerMessage
<1>1. TypeInv /\ AloneInv => OneWorkerPerMessage
  <2> SUFFICES ASSUME TypeInv, AloneInv PROVE OneWorkerPerMessage
    OBVIOUS
  <2>1. ASSUME NEW v \in Workers, NEW w \in Workers, Holds(v, task[w].msg), pc[w] # "idle"
        PROVE  v = w
    <3>1. task[w].msg \in Messages
      BY <2>1 DEF TypeInv, Held, Messages
    <3>2. pc[v] # "idle"
      BY <2>1, <3>1, MessageAssumption DEF AloneInv, Alone, Holds, NoTask, Messages
    <3> QED
      BY <2>1, <3>2 DEF AloneInv, Alone, Holds
  <2> QED
    BY <2>1 DEF OneWorkerPerMessage, AloneInv, Alone
<1> QED
  BY <1>1, AloneInvariance, TypeInvariance, PTL

(***************************************************************************)
(* Whatever fails: what ran was published, what succeeded ran.             *)
(***************************************************************************)

\* A worker holds only messages the stream has.
Fetched == \A w \in Workers : pc[w] # "idle" => msg[task[w].msg].state # "absent"

\* A job whose message was never stored has not run and has no audit trail.
Untouched == \A j \in Jobs : msg[j].state = "absent" => executed[j] = {} /\ audit[j] = <<>>

\* A worker that stores a result got it from an execution of this delivery.
Produced ==
  \A w \in Workers :
    pc[w] \in {"success_get", "put", "success_set"} => task[w].n \in executed[task[w].msg]

\* The inductive invariant that holds whatever fails.
HonestInv == Fetched /\ Untouched /\ Produced /\ SuccessWasExecuted

\* An execution that reached the database stays on record.
LEMMA ProcessExecutes ==
  ASSUME TypeOK, Held, NEW w \in Workers, Process(w)
  PROVE  \A j \in Jobs : executed[j] \subseteq executed'[j]
  BY DEF TypeOK, Process, Check, MarkRunningGet, MarkFailedGet, Load, MarkRunningSet, Prepare,
         Execute, MarkSucceededGet, PutObject, MarkSucceededSet, MarkFailedSet, PublishAudit

\* A worker reaches MarkSucceeded only by executing (processor.go:134-152).
LEMMA ProcessProduces ==
  ASSUME TypeOK, Held, Produced, NEW w \in Workers, Process(w),
         pc'[w] \in {"success_get", "put", "success_set"}
  PROVE  task[w].n \in executed'[task[w].msg]
<1>0. task[w].msg \in Jobs
  BY ProcessWorks DEF Works, Held
<1>1. CASE Execute(w)
  BY <1>0, <1>1 DEF Execute, Goto, TypeOK
<1>2. CASE MarkSucceededGet(w) \/ PutObject(w)
  <2>1. pc[w] \in {"success_get", "put"} /\ UNCHANGED executed
    BY <1>2 DEF MarkSucceededGet, PutObject
  <2> QED
    BY <2>1 DEF Produced
<1>3. CASE Check(w) \/ Prepare(w) \/ MarkRunningSet(w) \/ PublishAudit(w)
  BY <1>3 DEF Check, Prepare, MarkRunningSet, PublishAudit, Goto, Return, TypeOK
<1>4. CASE MarkRunningGet(w) \/ MarkFailedGet(w)
  BY <1>4 DEF MarkRunningGet, MarkFailedGet, Load, Goto, Return, TypeOK
<1>5. CASE MarkSucceededSet(w) \/ MarkFailedSet(w)
  BY <1>5 DEF MarkSucceededSet, MarkFailedSet, PersistFails, Return, TypeOK
<1> QED
  BY <1>1, <1>2, <1>3, <1>4, <1>5 DEF Process

\* Only MarkSucceeded makes a record successful, with its own execution.
LEMMA ProcessSucceeds ==
  ASSUME TypeOK, Held, Produced, SuccessWasExecuted, NEW w \in Workers, Process(w)
  PROVE  SuccessWasExecuted'
<1> SUFFICES ASSUME NEW j \in Jobs, store'[j].status = "success"
             PROVE  store'[j].truncated \in executed'[j]
  BY DEF SuccessWasExecuted
<1>0. task[w].msg \in Jobs /\ executed[j] \subseteq executed'[j]
  BY ProcessWorks, ProcessExecutes DEF Works, Held
<1>1. CASE store'[j] = store[j]
  BY <1>0, <1>1 DEF SuccessWasExecuted
<1>2. CASE store'[j] # store[j]
  <2>1. j = task[w].msg
    BY <1>2, ProcessFrame
  <2>2. CASE MarkRunningSet(w)
    <3>1. [task[w].rec EXCEPT !.status = "running"].status = "running"
      BY DEF TypeOK, Tasks, Records
    <3> QED
      BY <1>2, <2>1, <2>2, <3>1 DEF MarkRunningSet, Saved, SaveFails, TypeOK
  <2>3. CASE MarkFailedSet(w)
    <3>1. [task[w].rec EXCEPT !.status = "failed", !.rows = 0, !.ref = FALSE].status = "failed"
      BY DEF TypeOK, Tasks, Records
    <3> QED
      BY <1>2, <2>1, <2>3, <3>1 DEF MarkFailedSet, Saved, SaveFails, TypeOK
  <2>4. CASE MarkSucceededSet(w)
    <3>1. store'[j].truncated = task[w].n
      <4> DEFINE r == [status    |-> "success",
                       rows      |-> IF task[w].large THEN 0 ELSE task[w].n,
                       ref       |-> task[w].large \/ task[w].rec.ref,
                       truncated |-> task[w].n]
      <4>1. Saved(j, r) \/ SaveFails(j, r)
        BY <2>1, <2>4 DEF MarkSucceededSet
      <4>2. r.truncated = task[w].n
        OBVIOUS
      <4> HIDE DEF r
      <4>3. store'[j] = r
        BY <1>2, <4>1 DEF Saved, SaveFails, TypeOK
      <4> QED
        BY <4>2, <4>3
    <3>2. task[w].n \in executed[j]
      BY <2>1, <2>4 DEF MarkSucceededSet, Produced
    <3> QED
      BY <1>0, <3>1, <3>2
  <2>5. MarkRunningSet(w) \/ MarkFailedSet(w) \/ MarkSucceededSet(w)
    BY <1>2 DEF Process, Check, MarkRunningGet, MarkFailedGet, Load, Prepare, Execute,
                MarkSucceededGet, PutObject, PublishAudit
  <2> QED
    BY <2>2, <2>3, <2>4, <2>5
<1> QED
  BY <1>1, <1>2

\* Every step keeps HonestInv, whatever fails.
LEMMA HonestStep ==
  ASSUME TypeInv, TypeInv', HonestInv, [Next]_vars
  PROVE  HonestInv'
<1> USE DEF TypeInv
<1>1. ASSUME NEW j \in Jobs, Submit(j) \/ CrashSubmit(j) PROVE HonestInv'
  <2>1. msg[j].state = "absent" /\ UNCHANGED <<pc, task, executed, audit>>
    BY <1>1 DEF Submit, Create, Publish, MarkPublishFailed, CrashSubmit, CallMoves, Unsent
  <2>2. \A m \in Messages : msg'[m] = msg[m] \/ m = j
    BY <1>1 DEF Submit, Create, Publish, MarkPublishFailed, CrashSubmit, TypeOK
  <2>3. Fetched'
    BY <2>1, <2>2 DEF HonestInv, Fetched, Held, Messages
  <2>4. Untouched' /\ Produced'
    BY <2>1, <2>2 DEF HonestInv, Untouched, Produced, Messages
  <2>5. store'[j] = store[j] \/ store'[j].status # "success"
    <3>1. /\ [NoRecord EXCEPT !.status = "pending"].status = "pending"
          /\ [store[j] EXCEPT !.status = "failed", !.rows = 0, !.ref = FALSE].status = "failed"
      BY DEF NoRecord, TypeOK, Records
    <3> QED
      BY <1>1, <3>1 DEF Submit, Create, Publish, MarkPublishFailed, CrashSubmit, Saved, SaveFails, TypeOK
  <2>6. \A k \in Jobs \ {j} : store'[k] = store[k]
    BY <1>1 DEF Submit, Create, Publish, MarkPublishFailed, CrashSubmit, Saved, SaveFails, TypeOK
  <2>7. SuccessWasExecuted'
    BY <2>1, <2>5, <2>6 DEF HonestInv, SuccessWasExecuted
  <2> QED
    BY <2>3, <2>4, <2>7 DEF HonestInv
<1>2. ASSUME UNCHANGED <<store, executed, audit>>,
             \A m \in Messages : msg[m].state = "absent" <=> msg'[m].state = "absent",
             \A v \in Workers : pc'[v] # "idle" =>
               \/ task'[v].msg = task[v].msg /\ task'[v].n = task[v].n /\ pc'[v] = pc[v]
               \/ msg'[task'[v].msg].state # "absent" /\ pc'[v] \in {"term", "check"}
      PROVE  HonestInv'
  <2>1. Untouched' /\ SuccessWasExecuted'
    BY <1>2 DEF HonestInv, Untouched, SuccessWasExecuted, Messages
  <2>2. Fetched'
    BY <1>2 DEF HonestInv, Fetched, Held, Messages
  <2>3. Produced'
    BY <1>2 DEF HonestInv, Produced
  <2> QED
    BY <2>1, <2>2, <2>3 DEF HonestInv
<1>3. ASSUME NEW m \in Messages, AckWait(m) PROVE HonestInv'
  <2>1. \A k \in Messages : msg[k].state = "absent" <=> msg'[k].state = "absent"
    BY <1>3 DEF AckWait, Requeued, TypeOK, Deliveries
  <2> QED
    BY <1>2, <1>3, <2>1 DEF AckWait
<1>4. ASSUME NEW m \in Messages, NEW w \in Workers, Fetch(w, m) PROVE HonestInv'
  <2>1. msg[m].state = "ready" /\ msg' = [msg EXCEPT ![m] = [state |-> "inflight", n |-> msg[m].n + 1]]
    BY <1>4 DEF Fetch
  <2>2. \A k \in Messages : msg[k].state = "absent" <=> msg'[k].state = "absent"
    BY <2>1 DEF TypeOK
  <2>3. /\ pc'[w] \in {"term", "check"} /\ task'[w].msg = m
        /\ \A v \in Workers \ {w} : pc'[v] = pc[v] /\ task'[v] = task[v]
    BY <1>4 DEF Fetch, Goto, TypeOK, NoTask
  <2>4. msg'[m].state # "absent"
    BY <2>1 DEF TypeOK
  <2> QED
    BY <1>2, <1>4, <2>2, <2>3, <2>4 DEF Fetch
<1>5. ASSUME NEW w \in Workers, Process(w) PROVE HonestInv'
  <2>1. Works(w)
    BY <1>5, ProcessWorks
  <2>2. task[w].msg \in Jobs /\ msg[task[w].msg].state # "absent"
    BY <2>1 DEF Works, Held, HonestInv, Fetched
  <2>3. Fetched'
    BY <2>1 DEF Works, HonestInv, Fetched
  <2>4. Untouched'
    BY <1>5, <2>1, <2>2, ProcessFrame DEF Works, HonestInv, Untouched
  <2>5. Produced'
    <3> SUFFICES ASSUME NEW v \in Workers, pc'[v] \in {"success_get", "put", "success_set"}
                 PROVE  task'[v].n \in executed'[task'[v].msg]
      BY DEF Produced
    <3>1. CASE v = w
      BY <1>5, <2>1, <3>1, ProcessProduces DEF Works, HonestInv
    <3>2. CASE v # w
      <4>1. pc'[v] = pc[v] /\ task'[v] = task[v]
        BY <2>1, <3>2 DEF Works
      <4>2. task[v].msg \in Jobs /\ task[v].n \in executed[task[v].msg]
        BY <4>1 DEF HonestInv, Produced, Held
      <4> QED
        BY <1>5, <4>1, <4>2, ProcessExecutes
    <3> QED
      BY <3>1, <3>2
  <2>6. SuccessWasExecuted'
    BY <1>5, ProcessSucceeds DEF HonestInv
  <2> QED
    BY <2>3, <2>4, <2>5, <2>6 DEF HonestInv
<1>6. ASSUME NEW w \in Workers, Terminate(w) \/ Settle(w) PROVE HonestInv'
  <2>1. /\ task[w].msg \in Messages
        /\ pc' = [pc EXCEPT ![w] = "idle"] /\ task' = [task EXCEPT ![w] = NoTask]
        /\ \/ Requeued(task[w].msg) \/ Closed(task[w].msg, "acked")
           \/ Closed(task[w].msg, "termed") \/ UNCHANGED msg
        /\ UNCHANGED <<store, executed, audit>>
    BY <1>6 DEF Terminate, Settle, Goto, Settles, Held, Messages
  <2>2. \A k \in Messages : msg[k].state = "absent" <=> msg'[k].state = "absent"
    BY <2>1 DEF Requeued, Closed, Pending, TypeOK, Deliveries
  <2>3. \A v \in Workers : pc'[v] # "idle" => pc'[v] = pc[v] /\ task'[v] = task[v]
    BY <2>1 DEF TypeOK
  <2> QED
    BY <1>2, <2>1, <2>2, <2>3
<1>7. ASSUME NEW w \in Workers, Crash(w) PROVE HonestInv'
  <2>1. \A v \in Workers : pc'[v] # "idle" => pc'[v] = pc[v] /\ task'[v] = task[v]
    BY <1>7 DEF Crash, TypeOK
  <2> QED
    BY <1>2, <1>7, <2>1 DEF Crash
<1>8. ASSUME NEW w \in Workers, Shutdown(w) PROVE HonestInv'
  <2>1. \A v \in Workers : task'[v].msg = task[v].msg /\ task'[v].n = task[v].n
    BY <1>8 DEF Shutdown, TypeOK, Tasks
  <2> QED
    BY <1>2, <1>8, <2>1 DEF Shutdown
<1>9. CASE UNCHANGED vars
  BY <1>9 DEF vars, HonestInv, Fetched, Untouched, Produced, SuccessWasExecuted
<1>10. ASSUME NEW j \in Jobs, Answer(j) PROVE HonestInv'
  BY <1>10 DEF Answer, HonestInv, Fetched, Untouched, Produced, SuccessWasExecuted
<1> QED
  BY <1>1, <1>3, <1>4, <1>5, <1>6, <1>7, <1>8, <1>9, <1>10 DEF Next

\* HonestInv holds in every behaviour.
LEMMA HonestInvariance == Spec => []HonestInv
<1>1. Init => HonestInv
  BY DEF Init, HonestInv, Fetched, Untouched, Produced, SuccessWasExecuted, NoRecord
<1>2. TypeInv /\ TypeInv' /\ HonestInv /\ [Next]_vars => HonestInv'
  BY HonestStep
<1> QED
  BY <1>1, <1>2, TypeInvariance, PTL DEF Spec

\* A successful record stands on an execution that took place, even when
\* workers overlap, writes are lost or processes die (processor.go:134-160).
THEOREM SuccessfulWasExecuted == Spec => []SuccessWasExecuted
<1>1. HonestInv => SuccessWasExecuted
  BY DEF HonestInv
<1> QED
  BY <1>1, HonestInvariance, PTL

\* A query whose submitter was told of an error has not run and has no audit
\* trail, so that the client may submit it again (grpc.go:60-84).
THEOREM RefusedDoesNotRun == Spec => []RefusedNeverRuns
<1>1. TypeInv /\ HonestInv => RefusedNeverRuns
  BY DEF TypeInv, Unsent, HonestInv, Untouched, RefusedNeverRuns
<1> QED
  BY <1>1, HonestInvariance, TypeInvariance, PTL

=============================================================================
