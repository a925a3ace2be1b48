-------------------------- MODULE JobLifecycleProofs --------------------------
(***************************************************************************)
(* QueryJobs keeps the promise of JobLifecycle, for every set of jobs and  *)
(* workers and every MaxDeliver, as long as AckWait covers the work and    *)
(* what Redis replies is true: writes may fail, but no read fails and no   *)
(* write takes effect that is reported as failed.  Everything else may go  *)
(* wrong: publishes, the object store, the audit stream, acknowledgements, *)
(* crashes and SIGTERM.                                                    *)
(*                                                                         *)
(* The inductive invariant, OpenInv, says what is true of the record of a  *)
(* job while a worker is at it; it rests on the invariants of              *)
(* QueryJobsProofs.                                                        *)
(***************************************************************************)
EXTENDS QueryJobsRefinement, QueryJobsProofs, FiniteSetTheorems

\* Deliveries do not overlap, and the store answers truthfully.
HonestStore == "ackwait" \notin Faults /\ "load" \notin Faults /\ "reply" \notin Faults

\* The steps of Process from its first to its last look at the record, those
\* after which the record says "running", and those before the query has run.
Working == {"running_get", "running_set", "prepare", "execute", "success_get",
            "put", "success_set", "fail_get", "fail_set"}
Started == Working \ {"running_get", "running_set"}
Before  == {"check", "running_get", "running_set", "prepare", "execute"}

\* A SubmitQuery call that got past Publish, or has ended without an answer.
Sent == {"reply", "accepted", "dead"}

\* The record of a job while its SubmitQuery call is under way (grpc.go:55-87).
Recorded(j) ==
  /\ sub[j] = "new" => store[j] = NoRecord
  /\ sub[j] \in {"publish", "failmark"} => store[j].status = "pending"
  /\ sub[j] \in Sent => store[j].status # "none"

\* Only a successful record has a ResultRef (store.go:194-241).
RefOfSuccess(j) == store[j].ref => store[j].status = "success"

\* What ran was delivered.
Delivered(j) == executed[j] \subseteq 0 .. msg[j].n

\* ServesLastResult, of one job.
ServesOwn(j) == store[j].status = "success" => Served(j) = store[j].truncated

JobInv(j) == Recorded(j) /\ RefOfSuccess(j) /\ Delivered(j) /\ ServesOwn(j)

\* A worker is at work on an open record only, holds it as it is in the store
\* between a Get and the Set, and has put its object when it stores a reference
\* (processor.go:74-166, store.go:208-241).
Open(w) ==
  LET r == store[task[w].msg]
  IN  /\ pc[w] \in Working => r.status \in {"pending", "running"}
      /\ pc[w] \in Started => r.status = "running"
      /\ pc[w] \in {"running_set", "put", "success_set", "fail_set"} => task[w].rec = r
      /\ pc[w] = "put" => task[w].large
      /\ pc[w] = "success_set" /\ task[w].large => object[task[w].msg] = task[w].n

\* A delivery runs the query at most once, in its turn.
Fresh(w) == pc[w] \in Before => task[w].n \notin executed[task[w].msg]

\* The inductive invariant of the engine over an honest store.
OpenInv == (\A j \in Jobs : JobInv(j)) /\ (\A w \in Workers : Open(w) /\ Fresh(w))

\* The invariants of QueryJobsProofs.
Known == TypeInv /\ AloneInv /\ HonestInv

\* A write that fails has no effect.
LEMMA FailedSave ==
  ASSUME HonestStore, NEW j, NEW r, SaveFails(j, r)
  PROVE  UNCHANGED store
  BY DEF HonestStore, SaveFails

\* A worker in Process has a job in its hands whose message was published.
LEMMA WorkersJob ==
  ASSUME Known, NEW w \in Workers, pc[w] \notin {"idle", "term"}
  PROVE  /\ task[w].msg \in Jobs /\ sub[task[w].msg] \in Sent
         /\ msg[task[w].msg].state = "inflight" /\ task[w].n = msg[task[w].msg].n
         /\ task[w] \in Tasks /\ task[w].n \in Origins /\ store[task[w].msg] \in Records
<1>1. task[w].msg \in Jobs /\ task[w] \in Tasks
  BY DEF Known, TypeInv, Held, TypeOK
<1>2. msg[task[w].msg].state = "inflight" /\ task[w].n = msg[task[w].msg].n
  BY DEF Known, AloneInv, Alone
<1>3. sub[task[w].msg] \in Sent
  BY <1>1, <1>2 DEF Known, TypeInv, Unsent, Sent
<1> QED
  BY <1>1, <1>2, <1>3 DEF Known, TypeInv, TypeOK, Tasks

\* A step that leaves the record, the object and the executions of a job alone,
\* and its message pending, keeps what is known of the job.
LEMMA JobKept ==
  ASSUME NEW j \in Jobs, JobInv(j), store'[j] = store[j], object'[j] = object[j],
         executed'[j] = executed[j], sub'[j] = sub[j], msg'[j].n = msg[j].n
  PROVE  JobInv(j)'
  BY DEF JobInv, Recorded, Sent, RefOfSuccess, Delivered, ServesOwn, Served

\* A write to the record of a published job that leaves it terminal only with
\* something to serve.
LEMMA JobWritten ==
  ASSUME NEW j \in Jobs, JobInv(j), sub'[j] = sub[j], sub[j] \in Sent,
         executed'[j] \subseteq 0 .. msg'[j].n, store'[j].status # "none",
         store'[j].ref => store'[j].status = "success",
         store'[j].status = "success" => Served(j)' = store'[j].truncated
  PROVE  JobInv(j)'
  BY DEF JobInv, Recorded, Sent, RefOfSuccess, Delivered, ServesOwn

\* What a step of Process does not touch, it does not change: the jobs of the
\* other workers, and their locals.
LEMMA OthersKept ==
  ASSUME Known, OpenInv, NEW w \in Workers, Process(w)
  PROVE  /\ \A j \in Jobs \ {task[w].msg} : JobInv(j)'
         /\ \A v \in Workers \ {w} : Open(v)' /\ Fresh(v)'
<1>1. Works(w)
  BY ProcessWorks DEF Known, TypeInv
<1>2. \A j \in Jobs \ {task[w].msg} :
        store'[j] = store[j] /\ object'[j] = object[j] /\ executed'[j] = executed[j]
  BY ProcessFrame DEF Known, TypeInv
<1>3. \A j \in Jobs \ {task[w].msg} : JobInv(j)'
  BY <1>1, <1>2, JobKept DEF OpenInv, Works
<1>4. ASSUME NEW v \in Workers \ {w} PROVE Open(v)' /\ Fresh(v)'
  <2>1. pc'[v] = pc[v] /\ task'[v] = task[v] /\ Open(v) /\ Fresh(v)
    BY <1>1 DEF Works, OpenInv
  <2>2. CASE pc[v] \in {"idle", "term"}
    BY <2>1, <2>2 DEF Open, Fresh, Working, Started, Before
  <2>3. CASE pc[v] \notin {"idle", "term"}
    <3>1. task[v].msg \in Jobs \ {task[w].msg}
      BY <1>1, <2>3, WorkersJob DEF Works, Known, AloneInv, Alone
    <3> QED
      BY <1>2, <2>1, <3>1 DEF Open, Fresh
  <2> QED
    BY <2>2, <2>3
<1> QED
  BY <1>3, <1>4

\* What a step of Process does keeps OpenInv for the job and the worker that it
\* concerns.
OwnInv(w) == JobInv(task[w].msg) /\ Open(w) /\ Fresh(w)

\* Returning from Process is always fine for the worker.
LEMMA ReturnOpen ==
  ASSUME Known, NEW w \in Workers, NEW ok, NEW err, Return(w, ok, err)
  PROVE  Open(w)' /\ Fresh(w)'
<1>1. pc'[w] = "audit"
  BY DEF Return, Known, TypeInv, TypeOK
<1> QED
  BY <1>1 DEF Open, Fresh, Working, Started, Before

\* Steps that read: Check, the Gets and Prepare.
LEMMA ReadingSteps ==
  ASSUME HonestStore, Known, OpenInv, NEW w \in Workers,
         Check(w) \/ MarkRunningGet(w) \/ MarkFailedGet(w) \/ MarkSucceededGet(w) \/ Prepare(w)
  PROVE  OwnInv(w)'
<1> USE DEF Known, TypeInv, TypeOK
<1>1. Works(w) /\ task'[w].msg = task[w].msg /\ task'[w].n = task[w].n
  BY ProcessWorks DEF Process, Works
<1>2. /\ task[w].msg \in Jobs /\ sub[task[w].msg] \in Sent /\ task[w] \in Tasks
      /\ store[task[w].msg] \in Records /\ JobInv(task[w].msg) /\ Open(w) /\ Fresh(w)
  BY <1>1, WorkersJob DEF Works, OpenInv
<1>3. UNCHANGED <<store, object, executed>>
  BY DEF Check, MarkRunningGet, MarkFailedGet, Load, MarkSucceededGet, Prepare
<1>4. JobInv(task[w].msg)'
  BY <1>1, <1>2, <1>3, JobKept DEF Works
<1>5. Open(w)' /\ Fresh(w)'
  <2>1. CASE Check(w)
    <3>1. CASE \E ok : Return(w, ok, FALSE)
      BY <3>1, ReturnOpen
    <3>2. CASE /\ store[task[w].msg].status \notin Terminal
               /\ Goto(w, "check", "running_get") /\ UNCHANGED task
      <4>1. pc[w] = "check" /\ pc'[w] = "running_get"
        BY <3>2 DEF Goto
      <4>2. store[task[w].msg].status \in {"pending", "running"}
        BY <1>2, <3>2 DEF JobInv, Recorded, Records, Terminal
      <4> QED
        BY <1>2, <1>3, <3>2, <4>1, <4>2 DEF Open, Fresh, Working, Started, Before
    <3> QED
      BY <2>1, <3>1, <3>2 DEF Check, HonestStore
  <2>2. CASE MarkRunningGet(w) \/ MarkFailedGet(w)
    <3>1. CASE Return(w, FALSE, TRUE)
      BY <3>1, ReturnOpen
    <3>2. CASE /\ task' = [task EXCEPT ![w].rec = store[task[w].msg]]
               /\ \/ Goto(w, "running_get", "running_set")
                  \/ Goto(w, "fail_get", "fail_set")
      <4>1. task'[w].rec = store[task[w].msg] /\ task'[w].large = task[w].large
        BY <1>2, <3>2 DEF Tasks
      <4>2. \/ pc[w] = "running_get" /\ pc'[w] = "running_set"
            \/ pc[w] = "fail_get" /\ pc'[w] = "fail_set"
        BY <3>2 DEF Goto
      <4> QED
        BY <1>1, <1>2, <1>3, <4>1, <4>2 DEF Open, Fresh, Working, Started, Before
    <3> QED
      BY <2>2, <3>1, <3>2 DEF MarkRunningGet, MarkFailedGet, Load
  <2>3. CASE MarkSucceededGet(w)
    <3>1. /\ pc[w] = "success_get"
          /\ pc'[w] = IF task[w].large THEN "put" ELSE "success_set"
          /\ task' = [task EXCEPT ![w].rec = store[task[w].msg]]
      BY <2>3 DEF MarkSucceededGet, Goto, HonestStore
    <3>2. task'[w].rec = store[task[w].msg] /\ task'[w].large = task[w].large
      BY <1>2, <3>1 DEF Tasks
    <3> QED
      BY <1>1, <1>2, <1>3, <3>1, <3>2 DEF Open, Fresh, Working, Started, Before
  <2>4. CASE Prepare(w)
    <3>1. pc[w] = "prepare" /\ pc'[w] \in {"fail_get", "execute"} /\ UNCHANGED task
      BY <2>4 DEF Prepare, Goto
    <3> QED
      BY <1>2, <1>3, <3>1 DEF Open, Fresh, Working, Started, Before
  <2> QED
    BY <2>1, <2>2, <2>3, <2>4
<1> QED
  BY <1>1, <1>4, <1>5 DEF OwnInv

\* Execute, PutObject and the audit publish leave the record alone.
LEMMA OutsideSteps ==
  ASSUME HonestStore, Known, OpenInv, NEW w \in Workers,
         Execute(w) \/ PutObject(w) \/ PublishAudit(w)
  PROVE  OwnInv(w)'
<1> USE DEF Known, TypeInv, TypeOK
<1> DEFINE j == task[w].msg
<1>1. Works(w) /\ task'[w].msg = task[w].msg /\ task'[w].n = task[w].n
  BY ProcessWorks DEF Process, Works
<1>2. /\ j \in Jobs /\ sub[j] \in Sent /\ task[w] \in Tasks
      /\ task[w].n = msg[j].n /\ msg'[j] = msg[j] /\ task[w].n \in Origins
      /\ store[j] \in Records /\ JobInv(j) /\ Open(w) /\ Fresh(w)
  BY <1>1, WorkersJob DEF Works, OpenInv
<1>3. UNCHANGED <<store, sub>>
  BY DEF Execute, PutObject, PublishAudit
<1>4. CASE Execute(w)
  <2>1. /\ pc[w] = "execute" /\ pc'[w] \in {"success_get", "fail_get"} /\ UNCHANGED object
        /\ executed'[j] \in {executed[j], executed[j] \cup {task[w].n}}
    BY <1>2, <1>4 DEF Execute, Goto
  <2>2. executed'[j] \subseteq 0 .. msg'[j].n /\ store'[j] = store[j]
    BY <1>2, <1>3, <2>1 DEF JobInv, Delivered, Origins
  <2>3. JobInv(j)'
    BY <1>1, <1>2, <1>3, <2>1, <2>2, JobWritten DEF JobInv, Recorded, Sent, RefOfSuccess, ServesOwn, Served
  <2> QED
    BY <1>1, <1>2, <1>3, <2>1, <2>3 DEF OwnInv, Open, Fresh, Working, Started, Before
<1>5. CASE PutObject(w)
  <2>1. pc[w] = "put" /\ UNCHANGED executed
    BY <1>5 DEF PutObject
  <2>2. store'[j] = store[j] /\ store[j].status = "running" /\ ~store[j].ref
    BY <1>2, <1>3, <2>1 DEF Open, Started, Working, JobInv, RefOfSuccess
  <2>3. JobInv(j)'
    BY <1>1, <1>2, <1>3, <2>1, <2>2, JobWritten DEF JobInv, Delivered
  <2>4. CASE object' = [object EXCEPT ![j] = task[w].n] /\ Goto(w, "put", "success_set") /\ UNCHANGED task
    BY <1>1, <1>2, <1>3, <2>1, <2>3, <2>4 DEF OwnInv, Open, Fresh, Goto, Working, Started, Before
  <2>5. CASE PersistFails(w)
    <3>1. pc'[w] = "fail_get"
      BY <2>5, PersistFailsEffect
    <3> QED
      BY <1>1, <1>2, <1>3, <2>1, <2>3, <3>1 DEF OwnInv, Open, Fresh, Working, Started, Before
  <2> QED
    BY <1>5, <2>4, <2>5 DEF PutObject
<1>6. CASE PublishAudit(w)
  <2>1. pc'[w] = "settle" /\ UNCHANGED <<object, executed>>
    BY <1>6 DEF PublishAudit, Goto
  <2> QED
    BY <1>1, <1>2, <1>3, <2>1, JobKept DEF OwnInv, Open, Fresh, Working, Started, Before
<1> QED
  BY <1>4, <1>5, <1>6

\* The Sets write the record that was read, so none of them loses a ResultRef or
\* invents one.
LEMMA WritingSteps ==
  ASSUME HonestStore, Known, OpenInv, NEW w \in Workers,
         MarkRunningSet(w) \/ MarkFailedSet(w) \/ MarkSucceededSet(w)
  PROVE  OwnInv(w)'
<1> USE DEF Known, TypeInv, TypeOK
<1> DEFINE j == task[w].msg
<1>1. Works(w) /\ task'[w].msg = task[w].msg /\ task'[w].n = task[w].n
  BY ProcessWorks DEF Process, Works
<1>2. /\ j \in Jobs /\ sub[j] \in Sent /\ task[w] \in Tasks
      /\ task[w].n = msg[j].n /\ msg'[j] = msg[j] /\ task[w].n \in Origins
      /\ store[j] \in Records /\ JobInv(j) /\ Open(w) /\ Fresh(w)
  BY <1>1, WorkersJob DEF Works, OpenInv
<1>3. UNCHANGED <<sub, object, executed>>
  BY DEF MarkRunningSet, MarkFailedSet, MarkSucceededSet
<1>4. executed'[j] \subseteq 0 .. msg'[j].n
  BY <1>2, <1>3 DEF JobInv, Delivered
<1>5. ASSUME UNCHANGED store PROVE JobInv(j)'
  BY <1>1, <1>2, <1>3, <1>5, JobKept
<1>6. store[j].status \in {"pending", "running"} /\ ~store[j].ref
  <2>1. pc[w] \in Working
    BY DEF MarkRunningSet, MarkFailedSet, MarkSucceededSet, Working
  <2> QED
    BY <1>2, <2>1 DEF Open, JobInv, RefOfSuccess
<1>7. pc[w] \in {"running_set", "fail_set", "success_set"} /\ task[w].rec = store[j]
  BY <1>2 DEF MarkRunningSet, MarkFailedSet, MarkSucceededSet, Open
<1>8. CASE MarkRunningSet(w)
  <2>1. CASE Saved(j, [task[w].rec EXCEPT !.status = "running"]) /\ Goto(w, "running_set", "prepare") /\ UNCHANGED task
    <3>1. store'[j] = [store[j] EXCEPT !.status = "running"]
      BY <1>2, <1>7, <2>1 DEF Saved
    <3>2. store'[j].status = "running" /\ ~store'[j].ref
      BY <1>2, <1>6, <3>1 DEF Records
    <3>3. JobInv(j)'
      BY <1>1, <1>2, <1>3, <1>4, <3>2, JobWritten
    <3>4. pc[w] = "running_set" /\ pc'[w] = "prepare"
      BY <2>1 DEF Goto
    <3> QED
      BY <1>1, <1>2, <1>3, <2>1, <3>2, <3>3, <3>4 DEF OwnInv, Open, Fresh, Working, Started, Before
  <2>2. CASE SaveFails(j, [task[w].rec EXCEPT !.status = "running"]) /\ Return(w, FALSE, TRUE)
    BY <1>1, <1>5, <2>2, FailedSave, ReturnOpen DEF OwnInv
  <2> QED
    BY <1>8, <2>1, <2>2 DEF MarkRunningSet
<1>9. CASE MarkFailedSet(w)
  <2> DEFINE r == [task[w].rec EXCEPT !.status = "failed", !.rows = 0, !.ref = FALSE]
  <2>1. ASSUME Saved(j, r) PROVE JobInv(j)'
    <3>1. store'[j].status = "failed" /\ ~store'[j].ref
      BY <1>2, <2>1 DEF Saved, Tasks, Records
    <3> QED
      BY <1>1, <1>2, <1>3, <1>4, <3>1, JobWritten
  <2>2. ASSUME SaveFails(j, r) PROVE JobInv(j)'
    BY <1>5, <2>2, FailedSave
  <2>3. JobInv(j)'
    BY <1>9, <2>1, <2>2 DEF MarkFailedSet
  <2> QED
    BY <1>1, <1>9, <2>3, ReturnOpen DEF OwnInv, MarkFailedSet
<1>10. CASE MarkSucceededSet(w)
  <2> DEFINE r == [status    |-> "success",
                   rows      |-> IF task[w].large THEN 0 ELSE task[w].n,
                   ref       |-> task[w].large \/ task[w].rec.ref,
                   truncated |-> task[w].n]
  <2>1. CASE Saved(j, r) /\ Return(w, TRUE, FALSE)
    <3>1. store'[j] = r
      BY <1>2, <2>1 DEF Saved
    <3>2. r.status = "success" /\ r.truncated = task[w].n
          /\ r.rows = IF task[w].large THEN 0 ELSE task[w].n
      OBVIOUS
    <3>3. r.ref <=> task[w].large
      BY <1>2, <1>6, <1>7 DEF Tasks
    <3>4. task[w].large => object'[j] = task[w].n
      BY <1>2, <1>3, <1>10 DEF Open, MarkSucceededSet
    <3> HIDE DEF r
    <3>5. Served(j)' = store'[j].truncated
      BY <1>1, <3>1, <3>2, <3>3, <3>4 DEF Served
    <3>6. store'[j].status = "success"
      BY <3>1, <3>2
    <3>7. JobInv(j)'
      BY <1>1, <1>2, <1>3, <3>5, <3>6, <1>4, JobWritten
    <3> QED
      BY <1>1, <2>1, <3>7, ReturnOpen DEF OwnInv
  <2>2. CASE SaveFails(j, r) /\ PersistFails(w)
    <3>1. UNCHANGED store /\ pc'[w] = "fail_get" /\ pc[w] = "success_set"
      BY <1>10, <2>2, FailedSave, PersistFailsEffect DEF MarkSucceededSet
    <3> QED
      BY <1>1, <1>2, <1>3, <1>5, <3>1 DEF OwnInv, Open, Fresh, Working, Started, Before
  <2> QED
    BY <1>10, <2>1, <2>2 DEF MarkSucceededSet
<1> QED
  BY <1>8, <1>9, <1>10

\* Every step of Process keeps OpenInv.
LEMMA ProcessOpen ==
  ASSUME HonestStore, Known, OpenInv, NEW w \in Workers, Process(w)
  PROVE  OpenInv'
<1>1. task[w].msg \in Jobs /\ task'[w].msg = task[w].msg
  BY ProcessWorks, WorkersJob DEF Works, Known, TypeInv
<1>2. OwnInv(w)'
  BY ReadingSteps, OutsideSteps, WritingSteps DEF Process
<1> QED
  BY <1>1, <1>2, OthersKept DEF OwnInv, OpenInv

\* A SubmitQuery call writes the record of a job that no worker has.
LEMMA SubmitOpen ==
  ASSUME HonestStore, Known, OpenInv, NEW j \in Jobs, Submit(j) \/ CrashSubmit(j)
  PROVE  OpenInv'
<1> USE DEF Known, TypeInv, TypeOK
<1>1. /\ UNCHANGED <<object, pc, task, executed>>
      /\ \A i \in Jobs \ {j} : sub'[i] = sub[i] /\ store'[i] = store[i]
      /\ \A m \in Messages : msg'[m].n = msg[m].n
  <2>1. UNCHANGED <<object, pc, task, executed>>
    BY DEF Submit, Create, Publish, MarkPublishFailed, CrashSubmit
  <2>2. \A i \in Jobs \ {j} : sub'[i] = sub[i]
    BY DEF Submit, Create, Publish, MarkPublishFailed, CrashSubmit, CallMoves
  <2>3. \A i \in Jobs \ {j} : store'[i] = store[i]
    <3>1. UNCHANGED store \/ \E r : Saved(j, r)
      BY FailedSave DEF Submit, Create, Publish, MarkPublishFailed, CrashSubmit
    <3> QED
      BY <3>1 DEF Saved
  <2>4. UNCHANGED msg \/ msg' = [msg EXCEPT ![j].state = "ready"]
    BY DEF Submit, Create, Publish, MarkPublishFailed, CrashSubmit
  <2>5. \A m \in Messages : msg'[m].n = msg[m].n
    BY <2>4 DEF Deliveries
  <2> QED
    BY <2>1, <2>2, <2>3, <2>5
<1>2. sub[j] \notin Sent /\ executed[j] = {}
  <2>1. sub[j] \notin Sent
    BY DEF Submit, Create, Publish, MarkPublishFailed, CrashSubmit, CallMoves, Sent
  <2> QED
    BY <2>1 DEF Unsent, Sent, HonestInv, Untouched
<1>3. ASSUME NEW i \in Jobs \ {j} PROVE JobInv(i)'
  BY <1>1, JobKept DEF OpenInv, Messages
<1>4. JobInv(j)'
  <2>1. Recorded(j) /\ RefOfSuccess(j) /\ ServesOwn(j)
    BY DEF OpenInv, JobInv
  <2>2. Delivered(j)'
    BY <1>1, <1>2 DEF Delivered
  <2>3. CASE Create(j)
    <3>1. CASE sub'[j] = "publish" /\ Saved(j, [NoRecord EXCEPT !.status = "pending"])
      BY <2>2, <3>1 DEF JobInv, Recorded, Sent, RefOfSuccess, ServesOwn, Saved, NoRecord
    <3>2. CASE sub'[j] = "rejected" /\ UNCHANGED store
      BY <1>1, <2>1, <2>2, <3>2 DEF JobInv, Recorded, Sent, RefOfSuccess, ServesOwn, Served
    <3> QED
      BY <2>3, <3>1, <3>2, FailedSave DEF Create, CallMoves
  <2>4. CASE Publish(j) \/ CrashSubmit(j)
    <3>1. /\ sub[j] \in {"publish", "failmark"} /\ sub'[j] \in {"reply", "failmark", "dead"}
          /\ UNCHANGED store
      BY <2>4 DEF Publish, CrashSubmit, CallMoves
    <3> QED
      BY <1>1, <2>1, <2>2, <3>1 DEF JobInv, Recorded, Sent, RefOfSuccess, ServesOwn, Served
  <2>5. CASE MarkPublishFailed(j)
    <3>1. sub[j] = "failmark" /\ sub'[j] = "rejected"
      BY <2>5 DEF MarkPublishFailed, CallMoves
    <3>2. CASE Saved(j, [store[j] EXCEPT !.status = "failed", !.rows = 0, !.ref = FALSE])
      <4>1. store'[j].status = "failed" /\ ~store'[j].ref
        BY <3>2 DEF Saved, Records
      <4> QED
        BY <2>2, <3>1, <4>1 DEF JobInv, Recorded, Sent, RefOfSuccess, ServesOwn
    <3>3. CASE UNCHANGED store
      BY <1>1, <2>1, <2>2, <3>1, <3>3 DEF JobInv, Recorded, Sent, RefOfSuccess, ServesOwn, Served
    <3> QED
      BY <2>5, <3>2, <3>3, FailedSave DEF MarkPublishFailed
  <2> QED
    BY <2>3, <2>4, <2>5 DEF Submit
<1>5. ASSUME NEW w \in Workers PROVE Open(w)' /\ Fresh(w)'
  <2>1. CASE pc[w] \in {"idle", "term"}
    BY <1>1, <2>1 DEF Open, Fresh, Working, Started, Before
  <2>2. CASE pc[w] \notin {"idle", "term"}
    <3>1. task[w].msg \in Jobs \ {j}
      BY <1>2, <2>2, WorkersJob
    <3> QED
      BY <1>1, <3>1 DEF OpenInv, Open, Fresh
  <2> QED
    BY <2>1, <2>2
<1> QED
  BY <1>3, <1>4, <1>5 DEF OpenInv

\* Fetch starts a delivery whose number nobody has executed under.
LEMMA FetchOpen ==
  ASSUME Known, OpenInv, NEW w \in Workers, NEW m \in Messages, Fetch(w, m)
  PROVE  OpenInv'
<1> USE DEF Known, TypeInv, TypeOK
<1>1. /\ UNCHANGED <<sub, store, object, executed>>
      /\ pc[w] = "idle" /\ pc'[w] \in {"term", "check"}
      /\ m \in Jobs => task'[w].msg = m /\ task'[w].n = msg[m].n + 1
      /\ m \in Poison => pc'[w] = "term"
      /\ \A v \in Workers \ {w} : pc'[v] = pc[v] /\ task'[v] = task[v]
      /\ msg[m].n \in Nat /\ msg'[m].n = msg[m].n + 1
      /\ \A i \in Messages \ {m} : msg'[i] = msg[i]
  BY DeliverAssumption DEF Fetch, Goto, NoTask, Deliveries, Origins
<1>2. ASSUME NEW j \in Jobs PROVE JobInv(j)'
  <2>1. JobInv(j)
    BY DEF OpenInv
  <2>2. executed'[j] \subseteq 0 .. msg'[j].n
    <3>1. executed'[j] \subseteq 0 .. msg[j].n
      BY <1>1, <2>1 DEF JobInv, Delivered
    <3>2. CASE j = m
      BY <1>1, <3>1, <3>2
    <3>3. CASE j # m
      BY <1>1, <3>1, <3>3 DEF Messages
    <3> QED
      BY <3>2, <3>3
  <2> QED
    BY <1>1, <2>1, <2>2 DEF JobInv, Recorded, Sent, RefOfSuccess, Delivered, ServesOwn, Served
<1>3. ASSUME NEW v \in Workers PROVE Open(v)' /\ Fresh(v)'
  <2>1. CASE v = w
    <3>1. Open(w)'
      BY <1>1 DEF Open, Working, Started
    <3>2. CASE m \in Jobs
      <4>1. msg[m].n + 1 \notin executed[m]
        BY <1>1, <3>2 DEF OpenInv, JobInv, Delivered
      <4> QED
        BY <1>1, <2>1, <3>1, <3>2, <4>1 DEF Fresh
    <3>3. CASE m \in Poison
      BY <1>1, <2>1, <3>1, <3>3 DEF Fresh, Before
    <3> QED
      BY <3>2, <3>3 DEF Messages
  <2>2. CASE v # w
    BY <1>1, <2>2 DEF OpenInv, Open, Fresh
  <2> QED
    BY <2>1, <2>2
<1> QED
  BY <1>2, <1>3 DEF OpenInv

\* Settling a message, losing a worker and cancelling a context leave the jobs
\* alone.
LEMMA QuietOpen ==
  ASSUME Known, OpenInv, UNCHANGED <<sub, store, object, executed>>,
         \A m \in Messages : msg'[m].n = msg[m].n,
         \A w \in Workers : \/ pc'[w] = "idle"
                            \/ /\ pc'[w] = pc[w] /\ task'[w].msg = task[w].msg
                               /\ task'[w].n = task[w].n /\ task'[w].rec = task[w].rec
                               /\ task'[w].large = task[w].large
  PROVE  OpenInv'
<1>1. ASSUME NEW j \in Jobs PROVE JobInv(j)'
  BY JobKept DEF OpenInv, Messages
<1>2. ASSUME NEW w \in Workers PROVE Open(w)' /\ Fresh(w)'
  BY DEF OpenInv, Open, Fresh, Working, Started, Before
<1> QED
  BY <1>1, <1>2 DEF OpenInv

\* Every step keeps OpenInv.
LEMMA OpenStep ==
  ASSUME HonestStore, Known, OpenInv, [Next]_vars
  PROVE  OpenInv'
<1> USE DEF Known, TypeInv, TypeOK
<1>1. CASE \E j \in Jobs : Submit(j) \/ CrashSubmit(j)
  BY <1>1, SubmitOpen
<1>2. CASE \E m \in Messages, w \in Workers : Fetch(w, m)
  BY <1>2, FetchOpen
<1>3. CASE \E w \in Workers : Process(w)
  BY <1>3, ProcessOpen
<1>4. CASE \E m \in Messages : AckWait(m)
  BY <1>4, QuietOpen DEF AckWait, Requeued, Deliveries
<1>5. CASE \E w \in Workers : Terminate(w) \/ Settle(w)
  <2>1. PICK w \in Workers : Terminate(w) \/ Settle(w)
    BY <1>5
  <2>2. /\ UNCHANGED <<sub, store, object, executed>>
        /\ pc' = [pc EXCEPT ![w] = "idle"] /\ task' = [task EXCEPT ![w] = NoTask]
        /\ \E m : (\E how : Closed(m, how)) \/ Requeued(m) \/ UNCHANGED msg
    BY <2>1 DEF Terminate, Settle, Settles, Goto
  <2>3. \A m \in Messages : msg'[m].n = msg[m].n
    BY <2>2 DEF Closed, Requeued, Deliveries
  <2> QED
    BY <2>2, <2>3, QuietOpen
<1>6. CASE \E w \in Workers : Crash(w) \/ Shutdown(w)
  <2>1. PICK w \in Workers : Crash(w) \/ Shutdown(w)
    BY <1>6
  <2>2. UNCHANGED <<sub, store, object, msg, executed>>
    BY <2>1 DEF Crash, Shutdown
  <2>3. \/ pc' = [pc EXCEPT ![w] = "idle"] /\ task' = [task EXCEPT ![w] = NoTask]
        \/ UNCHANGED pc /\ task' = [task EXCEPT ![w].cancelled = TRUE]
    BY <2>1 DEF Crash, Shutdown
  <2>4. \A v \in Workers \ {w} : pc'[v] = pc[v] /\ task'[v] = task[v]
    BY <2>3
  <2>5. \/ pc'[w] = "idle"
        \/ /\ pc'[w] = pc[w] /\ task'[w].msg = task[w].msg /\ task'[w].n = task[w].n
           /\ task'[w].rec = task[w].rec /\ task'[w].large = task[w].large
    BY <2>3 DEF Tasks
  <2> QED
    BY <2>2, <2>4, <2>5, QuietOpen
<1>7. CASE UNCHANGED vars
  BY <1>7, QuietOpen DEF vars
<1>8. CASE \E j \in Jobs : Answer(j)
  <2>1. PICK j \in Jobs : Answer(j)
    BY <1>8
  <2>2. /\ UNCHANGED <<store, object, msg, pc, task, executed>>
        /\ sub[j] \in Sent /\ sub' = [sub EXCEPT ![j] = sub'[j]] /\ sub'[j] \in Sent
    BY <2>1 DEF Answer, CallMoves, Sent
  <2>3. ASSUME NEW i \in Jobs PROVE JobInv(i)'
    BY <2>2, JobKept DEF OpenInv, JobInv, Recorded, RefOfSuccess, Delivered, ServesOwn, Served, Sent
  <2>4. ASSUME NEW w \in Workers PROVE Open(w)' /\ Fresh(w)'
    BY <2>2 DEF OpenInv, Open, Fresh
  <2> QED
    BY <2>3, <2>4 DEF OpenInv
<1> QED
  BY <1>1, <1>2, <1>3, <1>4, <1>5, <1>6, <1>7, <1>8 DEF Next

LEMMA KnownInvariance ==
  ASSUME HonestStore
  PROVE  Spec => []Known
  BY TypeInvariance, AloneInvariance, HonestInvariance, PTL DEF Known, HonestStore

LEMMA OpenInvariance ==
  ASSUME HonestStore
  PROVE  Spec => []OpenInv
<1>1. Init => OpenInv
  BY DEF Init, OpenInv, JobInv, Recorded, Sent, RefOfSuccess, Delivered, ServesOwn, Open, Fresh,
         NoRecord, Working, Started, Before, Messages
<1>2. Known /\ OpenInv /\ [Next]_vars => OpenInv'
  BY OpenStep
<1> QED
  BY <1>1, <1>2, KnownInvariance, PTL DEF Spec

\* What a successful job serves is what its last MarkSucceeded stored, rows and
\* truncation flag of one execution, over a store that answers truthfully
\* (store.go:208-241, 249-265).
THEOREM LastResultIsServed ==
  ASSUME HonestStore
  PROVE  Spec => []ServesLastResult
<1>1. OpenInv => ServesLastResult
  BY DEF OpenInv, JobInv, ServesOwn, ServesLastResult
<1> QED
  BY <1>1, OpenInvariance, PTL

(***************************************************************************)
(* A terminal record.                                                      *)
(***************************************************************************)

\* A job with a terminal record is left alone by every step: its submitter is
\* done with it, and a worker that still has its message only audits and
\* settles it.
LEMMA FinalStep ==
  ASSUME HonestStore, Known, OpenInv, [Next]_vars, NEW j \in Jobs, store[j].status \in Terminal
  PROVE  store'[j] = store[j] /\ executed'[j] = executed[j]
<1> USE DEF Known, TypeInv, TypeOK
<1>1. CASE \E i \in Jobs : Submit(i) \/ CrashSubmit(i)
  <2>1. PICK i \in Jobs : Submit(i) \/ CrashSubmit(i)
    BY <1>1
  <2>2. UNCHANGED executed
    BY <2>1 DEF Submit, Create, Publish, MarkPublishFailed, CrashSubmit
  <2>3. CASE Create(i) \/ MarkPublishFailed(i)
    <3>1. store[i].status \in {"none", "pending"}
      BY <2>3 DEF Create, MarkPublishFailed, CallMoves, OpenInv, JobInv, Recorded, NoRecord
    <3>2. i # j
      BY <3>1 DEF Terminal
    <3>3. UNCHANGED store \/ \E r : Saved(i, r)
      BY <2>3, FailedSave DEF Create, MarkPublishFailed
    <3> QED
      BY <2>2, <3>2, <3>3 DEF Saved
  <2>4. CASE Publish(i) \/ CrashSubmit(i)
    BY <2>2, <2>4 DEF Publish, CrashSubmit
  <2> QED
    BY <2>1, <2>3, <2>4 DEF Submit
<1>2. CASE \E w \in Workers : Process(w)
  <2>1. PICK w \in Workers : Process(w)
    BY <1>2
  <2>2. CASE task[w].msg # j
    BY <2>1, <2>2, ProcessFrame
  <2>3. CASE task[w].msg = j
    <3>1. pc[w] \notin Working
      BY <2>3 DEF OpenInv, Open, Terminal
    <3>2. Check(w) \/ PublishAudit(w)
      BY <2>1, <3>1 DEF Process, MarkRunningGet, MarkRunningSet, Prepare, Execute,
         MarkSucceededGet, PutObject, MarkSucceededSet, MarkFailedGet, MarkFailedSet, Load,
         Goto, Working
    <3> QED
      BY <3>2 DEF Check, PublishAudit
  <2> QED
    BY <2>2, <2>3
<1>3. CASE \/ \E m \in Messages : AckWait(m) \/ \E w \in Workers : Fetch(w, m)
           \/ \E w \in Workers : Terminate(w) \/ Settle(w) \/ Crash(w) \/ Shutdown(w)
           \/ (\E i \in Jobs : Answer(i)) \/ UNCHANGED vars
  BY <1>3 DEF AckWait, Fetch, Terminate, Settle, Settles, Crash, Shutdown, Answer, vars
<1> QED
  BY <1>1, <1>2, <1>3 DEF Next

\* A terminal record never changes again ("MarkFailed stores a terminal
\* failure", store.go:198), over a store that answers truthfully.
THEOREM TerminalRecordIsFinal ==
  ASSUME HonestStore
  PROVE  Spec => TerminalIsFinal
<1>1. Known /\ OpenInv /\ [Next]_vars =>
        [\A j \in Jobs : store[j].status \in Terminal => store'[j] = store[j]]_vars
  BY FinalStep
<1> QED
  BY <1>1, KnownInvariance, OpenInvariance, PTL DEF Spec, TerminalIsFinal

\* A redelivery does not execute a job whose record is terminal
\* (processor.go:74-76): the number of executions stays what it was.
THEOREM TerminalDoesNotExecute ==
  ASSUME HonestStore
  PROVE  Spec => TerminalIsNotExecuted
<1> SUFFICES ASSUME NEW j \in Jobs, NEW k \in Origins
             PROVE  Spec => [](store[j].status \in Terminal /\ Cardinality(executed[j]) = k
                                => [](Cardinality(executed[j]) = k))
  BY DEF TerminalIsNotExecuted
<1> DEFINE Done == store[j].status \in Terminal /\ Cardinality(executed[j]) = k
           Same == Cardinality(executed[j]) = k
<1>1. Known /\ OpenInv /\ [Next]_vars /\ Done => Done'
  BY FinalStep
<1>2. Done => Same
  OBVIOUS
<1> HIDE DEF Done, Same
<1>3. Spec => [](Done => []Same)
  BY <1>1, <1>2, KnownInvariance, OpenInvariance, PTL DEF Spec
<1> QED
  BY <1>3 DEF Done, Same

(***************************************************************************)
(* The promise of JobLifecycle.  A step of the engine changes, of what the *)
(* promise sees, at most one of: the status of a job, its executions, and  *)
(* whether its message is done with.                                       *)
(***************************************************************************)

\* The executions of a job are finitely many.
LEMMA ExecutedFinite ==
  ASSUME TypeOK, NEW j \in Jobs
  PROVE  IsFiniteSet(executed[j]) /\ Cardinality(executed[j]) \in Nat
<1>1. IsFiniteSet(Origins)
  BY FS_Interval, DeliverAssumption DEF Origins
<1>2. IsFiniteSet(executed[j])
  BY <1>1, FS_Subset DEF TypeOK
<1> QED
  BY <1>2, FS_CardinalityType

\* A step that the promise does not see.
LEMMA Unseen ==
  ASSUME UNCHANGED executed, \A j \in Jobs : store'[j].status = store[j].status,
         \A j \in Jobs : ClosedAs(j)' = ClosedAs(j)
  PROVE  UNCHANGED Promise!vars
  BY DEF Promise!vars

\* A change of status that the promise allows.
Advances(j) ==
  LET s == store[j].status  t == store'[j].status
  IN  \/ s = "none" /\ t = "pending"
      \/ s = "pending" /\ t = "running"
      \/ s \in {"pending", "running"} /\ t = "failed"
      \/ s = "running" /\ t = "success" /\ executed[j] # {}

LEMMA StatusMoves ==
  ASSUME TypeOK, NEW j \in Jobs, Advances(j), UNCHANGED executed,
         \A i \in Jobs \ {j} : store'[i] = store[i],
         \A i \in Jobs : ClosedAs(i)' = ClosedAs(i)
  PROVE  Promise!Next
<1> DEFINE status  == [i \in Jobs |-> store[i].status]
           status1 == [i \in Jobs |-> store'[i].status]
<1>1. status1 = [status EXCEPT ![j] = store'[j].status]
  OBVIOUS
<1>2. /\ [i \in Jobs |-> Cardinality(executed'[i])] = [i \in Jobs |-> Cardinality(executed[i])]
      /\ [i \in Jobs |-> ClosedAs(i)'] = [i \in Jobs |-> ClosedAs(i)]
  OBVIOUS
<1>3. ASSUME NEW from, NEW to, store[j].status \in from, store'[j].status = to
      PROVE  Promise!Moves(j, from, to)
  BY <1>1, <1>2, <1>3 DEF Promise!Moves
<1>4. executed[j] # {} => Cardinality(executed[j]) > 0
  BY ExecutedFinite, FS_EmptySet
<1>5. CASE store[j].status = "none" /\ store'[j].status = "pending"
  BY <1>3, <1>5 DEF Promise!Next, Promise!Accept
<1>6. CASE store[j].status = "pending" /\ store'[j].status = "running"
  BY <1>3, <1>6 DEF Promise!Next, Promise!Begin
<1>7. CASE store[j].status \in {"pending", "running"} /\ store'[j].status = "failed"
  BY <1>3, <1>7 DEF Promise!Next, Promise!Fail
<1>8. CASE store[j].status = "running" /\ store'[j].status = "success" /\ executed[j] # {}
  BY <1>3, <1>4, <1>8 DEF Promise!Next, Promise!Succeed
<1> QED
  BY <1>5, <1>6, <1>7, <1>8 DEF Advances

\* An execution of a running job is a Run.
LEMMA RunMoves ==
  ASSUME TypeOK, NEW j \in Jobs, NEW n, store[j].status = "running", n \notin executed[j],
         executed' = [executed EXCEPT ![j] = @ \cup {n}], UNCHANGED <<store, msg>>
  PROVE  Promise!Next
<1> DEFINE runs  == [i \in Jobs |-> Cardinality(executed[i])]
           runs1 == [i \in Jobs |-> Cardinality(executed'[i])]
<1>1. Cardinality(executed[j] \cup {n}) = Cardinality(executed[j]) + 1
  BY ExecutedFinite, FS_AddElement
<1>2. \A i \in Jobs : executed'[i] = IF i = j THEN executed[j] \cup {n} ELSE executed[i]
  BY DEF TypeOK
<1>3. runs1 = [runs EXCEPT ![j] = Cardinality(executed[j]) + 1]
  <2>1. \A i \in Jobs : Cardinality(executed'[i]) =
          IF i = j THEN Cardinality(executed[j]) + 1 ELSE Cardinality(executed[i])
    BY <1>1, <1>2
  <2> QED
    BY <2>1
<1>4. /\ [i \in Jobs |-> store'[i].status] = [i \in Jobs |-> store[i].status]
      /\ [i \in Jobs |-> ClosedAs(i)'] = [i \in Jobs |-> ClosedAs(i)]
  BY DEF ClosedAs
<1> QED
  BY <1>3, <1>4 DEF Promise!Next, Promise!Run

\* The end of a message is a Close.
LEMMA CloseMoves ==
  ASSUME NEW j \in Jobs, UNCHANGED <<store, executed>>, \A i \in Jobs \ {j} : msg'[i] = msg[i],
         ClosedAs(j) = "open",
         \/ ClosedAs(j)' = "given_up"
         \/ ClosedAs(j)' = "done" /\ store[j].status \in Terminal
  PROVE  Promise!Next
<1> DEFINE closed  == [i \in Jobs |-> ClosedAs(i)]
           closed1 == [i \in Jobs |-> ClosedAs(i)']
<1>1. \A i \in Jobs \ {j} : ClosedAs(i)' = ClosedAs(i)
  BY DEF ClosedAs
<1>2. closed1 = [closed EXCEPT ![j] = ClosedAs(j)']
  BY <1>1
<1>3. /\ [i \in Jobs |-> store'[i].status] = [i \in Jobs |-> store[i].status]
      /\ [i \in Jobs |-> Cardinality(executed'[i])] = [i \in Jobs |-> Cardinality(executed[i])]
  OBVIOUS
<1>4. store[j].status \in Terminal => Promise!Over(j)
  BY DEF Promise!Over, Terminal
<1> QED
  BY <1>2, <1>3, <1>4 DEF Promise!Next, Promise!Close

\* The status that a message has for the promise.
LEMMA ClosedFacts ==
  ASSUME NEW j \in Jobs
  PROVE  /\ msg[j].state = "acked" => ClosedAs(j) = "done"
         /\ msg[j].state = "exhausted" => ClosedAs(j) = "given_up"
         /\ msg[j].state \notin {"acked", "exhausted"} => ClosedAs(j) = "open"
         /\ msg'[j].state = "acked" => ClosedAs(j)' = "done"
         /\ msg'[j].state = "exhausted" => ClosedAs(j)' = "given_up"
         /\ msg'[j].state \notin {"acked", "exhausted"} => ClosedAs(j)' = "open"
  BY DEF ClosedAs

\* SubmitQuery accepts a job or fails it (grpc.go:55-87).
LEMMA SubmitKeeps ==
  ASSUME HonestStore, Known, OpenInv, NEW j \in Jobs, Submit(j) \/ CrashSubmit(j)
  PROVE  Promise!Next \/ UNCHANGED Promise!vars
<1> USE DEF Known, TypeInv, TypeOK
<1>1. UNCHANGED executed
  BY DEF Submit, Create, Publish, MarkPublishFailed, CrashSubmit
<1>2. \A i \in Jobs : ClosedAs(i)' = ClosedAs(i)
  <2>1. msg[j].state = "absent"
    BY DEF Unsent, Submit, Create, Publish, MarkPublishFailed, CrashSubmit, CallMoves
  <2>2. UNCHANGED msg \/ msg' = [msg EXCEPT ![j].state = "ready"]
    BY DEF Submit, Create, Publish, MarkPublishFailed, CrashSubmit
  <2>3. (\A i \in Jobs \ {j} : msg'[i] = msg[i]) /\ msg'[j].state \in {"absent", "ready"}
    BY <2>1, <2>2 DEF Messages, Deliveries
  <2> QED
    BY <2>1, <2>3, ClosedFacts
<1>3. CASE UNCHANGED store
  BY <1>1, <1>2, <1>3, Unseen
<1>4. CASE Create(j) /\ Saved(j, [NoRecord EXCEPT !.status = "pending"])
  <2>1. store[j].status = "none"
    BY <1>4 DEF Create, CallMoves, OpenInv, JobInv, Recorded, NoRecord
  <2>2. store'[j].status = "pending" /\ \A i \in Jobs \ {j} : store'[i] = store[i]
    BY <1>4 DEF Saved, NoRecord
  <2> QED
    BY <1>1, <1>2, <2>1, <2>2, StatusMoves DEF Advances
<1>5. CASE /\ MarkPublishFailed(j)
           /\ Saved(j, [store[j] EXCEPT !.status = "failed", !.rows = 0, !.ref = FALSE])
  <2>1. store[j].status = "pending"
    BY <1>5 DEF MarkPublishFailed, CallMoves, OpenInv, JobInv, Recorded
  <2>2. store'[j].status = "failed" /\ \A i \in Jobs \ {j} : store'[i] = store[i]
    BY <1>5 DEF Saved, Records
  <2> QED
    BY <1>1, <1>2, <2>1, <2>2, StatusMoves DEF Advances
<1> QED
  BY <1>3, <1>4, <1>5, FailedSave DEF Submit, Create, Publish, MarkPublishFailed, CrashSubmit

\* Process begins a pending job, runs a running one, and ends an open one
\* (processor.go:74-166).
LEMMA ProcessKeeps ==
  ASSUME HonestStore, Known, OpenInv, NEW w \in Workers, Process(w)
  PROVE  Promise!Next \/ UNCHANGED Promise!vars
<1> USE DEF Known, TypeInv, TypeOK
<1> DEFINE j == task[w].msg
<1>1. /\ j \in Jobs /\ task[w] \in Tasks /\ store[j] \in Records /\ UNCHANGED msg /\ Open(w) /\ Fresh(w)
  BY ProcessWorks, WorkersJob DEF Works, OpenInv
<1>2. \A i \in Jobs : ClosedAs(i)' = ClosedAs(i)
  BY <1>1, ClosedFacts
<1>3. \A i \in Jobs \ {j} : store'[i] = store[i]
  BY ProcessFrame
<1>4. CASE UNCHANGED <<store, executed>>
  BY <1>2, <1>4, Unseen
<1>5. CASE MarkRunningSet(w) /\ Saved(j, [task[w].rec EXCEPT !.status = "running"])
  <2>1. store[j].status \in {"pending", "running"} /\ UNCHANGED executed
    BY <1>1, <1>5 DEF MarkRunningSet, Open, Working
  <2>2. store'[j].status = "running"
    BY <1>1, <1>5 DEF Saved, Tasks, Records
  <2>3. CASE store[j].status = "pending"
    BY <1>1, <1>2, <1>3, <2>1, <2>2, <2>3, StatusMoves DEF Advances
  <2>4. CASE store[j].status = "running"
    BY <1>2, <1>3, <2>1, <2>2, <2>4, Unseen
  <2> QED
    BY <2>1, <2>3, <2>4
<1>6. CASE Execute(w) /\ executed' = [executed EXCEPT ![j] = @ \cup {task[w].n}]
  <2>1. store[j].status = "running" /\ task[w].n \notin executed[j] /\ UNCHANGED <<store, msg>>
    BY <1>1, <1>6 DEF Execute, Goto, Open, Fresh, Working, Started, Before
  <2> QED
    BY <1>1, <1>6, <2>1, RunMoves
<1>7. CASE MarkFailedSet(w) /\ Saved(j, [task[w].rec EXCEPT !.status = "failed", !.rows = 0, !.ref = FALSE])
  <2>1. store[j].status \in {"pending", "running"} /\ UNCHANGED executed
    BY <1>1, <1>7 DEF MarkFailedSet, Open, Working
  <2>2. store'[j].status = "failed"
    BY <1>1, <1>7 DEF Saved, Tasks, Records
  <2> QED
    BY <1>1, <1>2, <1>3, <2>1, <2>2, StatusMoves DEF Advances
<1>8. CASE MarkSucceededSet(w) /\ ~UNCHANGED store
  <2>1. store[j].status = "running" /\ UNCHANGED executed
    BY <1>1, <1>8 DEF MarkSucceededSet, Open, Started, Working
  <2>2. store'[j].status = "success"
    <3>1. \E r : r.status = "success" /\ (Saved(j, r) \/ SaveFails(j, r))
      BY <1>8 DEF MarkSucceededSet
    <3> QED
      BY <1>1, <1>8, <3>1, FailedSave DEF Saved
  <2>3. executed[j] # {}
    BY <1>8 DEF HonestInv, Produced, MarkSucceededSet
  <2> QED
    BY <1>1, <1>2, <1>3, <2>1, <2>2, <2>3, StatusMoves DEF Advances
<1>9. CASE ~UNCHANGED store
  BY <1>5, <1>7, <1>8, <1>9, FailedSave DEF Process, Check, MarkRunningGet, MarkRunningSet,
     Prepare, Execute, MarkSucceededGet, PutObject, MarkFailedGet, MarkFailedSet, PublishAudit, Load
<1>10. CASE UNCHANGED store /\ ~UNCHANGED executed
  BY <1>6, <1>10 DEF Process, Check, MarkRunningGet, MarkRunningSet, Prepare, Execute,
     MarkSucceededGet, PutObject, MarkSucceededSet, MarkFailedGet, MarkFailedSet, PublishAudit, Load
<1> QED
  BY <1>4, <1>9, <1>10

\* The consumer closes the message of a job when its limit is reached, or when
\* it is acknowledged after the end of the job (worker.go:85-100).
LEMMA QueueKeeps ==
  ASSUME TypeOK, NEW m \in Messages, NEW how \in {"acked", "termed"}, UNCHANGED <<store, executed>>,
         \/ Requeued(m) \/ UNCHANGED msg
         \/ Closed(m, how) /\ (m \in Jobs => how = "acked" /\ store[m].status \in Terminal)
  PROVE  Promise!Next \/ UNCHANGED Promise!vars
<1> USE DEF TypeOK
<1>1. \A i \in Messages \ {m} : msg'[i] = msg[i]
  BY DEF Requeued, Closed
<1>2. CASE \A j \in Jobs : ClosedAs(j)' = ClosedAs(j)
  BY <1>2, Unseen
<1>3. CASE \E j \in Jobs : ClosedAs(j)' # ClosedAs(j)
  <2>1. m \in Jobs /\ ClosedAs(m)' # ClosedAs(m)
    BY <1>1, <1>3 DEF ClosedAs, Messages
  <2>2. Pending(m) /\ msg'[m].state \in {"ready", "exhausted", how}
    BY <2>1, ClosedFacts DEF Requeued, Closed, Deliveries
  <2>3. ClosedAs(m) = "open"
    BY <2>1, <2>2, ClosedFacts DEF Pending
  <2>4. CASE Requeued(m)
    <3>1. msg'[m].state \in {"ready", "exhausted"}
      BY <2>2, <2>4 DEF Requeued, Deliveries
    <3> QED
      BY <1>1, <2>1, <2>3, <3>1, ClosedFacts, CloseMoves DEF Messages
  <2>5. CASE Closed(m, how) /\ how = "acked" /\ store[m].status \in Terminal
    <3>1. msg'[m].state = "acked" /\ store[m].status \in Terminal
      BY <2>1, <2>2, <2>5 DEF Closed, Deliveries
    <3> QED
      BY <1>1, <2>1, <2>3, <3>1, ClosedFacts, CloseMoves DEF Messages
  <2>6. CASE UNCHANGED msg
    BY <2>1, <2>6, ClosedFacts
  <2> QED
    BY <2>1, <2>4, <2>5, <2>6
<1> QED
  BY <1>2, <1>3

\* Every step of the engine is a step of the promise or invisible.
LEMMA PromiseStep ==
  ASSUME HonestStore, Known, OpenInv, [Next]_vars
  PROVE  [Promise!Next]_(Promise!vars)
<1> USE DEF Known, TypeInv
<1>1. CASE \E j \in Jobs : Submit(j) \/ CrashSubmit(j)
  BY <1>1, SubmitKeeps
<1>2. CASE \E w \in Workers : Process(w)
  BY <1>2, ProcessKeeps
<1>3. CASE \E m \in Messages : AckWait(m)
  <2>1. PICK m \in Messages : AckWait(m)
    BY <1>3
  <2>2. UNCHANGED <<store, executed>> /\ Requeued(m)
    BY <2>1 DEF AckWait
  <2> QED
    BY <2>2, QueueKeeps
<1>4. CASE \E m \in Messages, w \in Workers : Fetch(w, m)
  <2>1. PICK m \in Messages, w \in Workers : Fetch(w, m)
    BY <1>4
  <2>2. \A i \in Messages :
          msg'[i].state \in {msg[i].state, "inflight"}
    BY <2>1 DEF Fetch, TypeOK, Deliveries
  <2> QED
    BY <2>1, <2>2, Unseen, ClosedFacts DEF Fetch, Messages
<1>5. CASE \E w \in Workers : Terminate(w)
  <2>1. PICK w \in Workers : Terminate(w)
    BY <1>5
  <2>2. task[w].msg \in Poison
    BY <2>1 DEF Terminate, Goto, Held
  <2>3. /\ UNCHANGED <<store, executed>> /\ (Closed(task[w].msg, "termed") \/ UNCHANGED msg)
        /\ task[w].msg \in Messages /\ task[w].msg \notin Jobs
    BY <2>1, <2>2, MessageAssumption DEF Terminate, Settles, Messages
  <2> QED
    BY <2>3, QueueKeeps
<1>6. CASE \E w \in Workers : Settle(w)
  <2>1. PICK w \in Workers : Settle(w)
    BY <1>6
  <2>2. task[w].msg \in Messages /\ (~task[w].err => store[task[w].msg].status \in Terminal)
    BY <2>1 DEF Settle, Goto, Held, AloneInv, Verdict, Messages
  <2>3. /\ UNCHANGED <<store, executed>>
        /\ \/ Requeued(task[w].msg) \/ UNCHANGED msg
           \/ ~task[w].err /\ Closed(task[w].msg, "acked")
    BY <2>1 DEF Settle, Settles
  <2> QED
    BY <2>2, <2>3, QueueKeeps
<1>7. CASE (\E w \in Workers : Crash(w) \/ Shutdown(w)) \/ UNCHANGED vars
  BY <1>7, Unseen, ClosedFacts DEF Crash, Shutdown, vars
<1>8. CASE \E j \in Jobs : Answer(j)
  BY <1>8, Unseen, ClosedFacts DEF Answer
<1> QED
  BY <1>1, <1>2, <1>3, <1>4, <1>5, <1>6, <1>7, <1>8 DEF Next

\* The query engine keeps the promise of JobLifecycle: a job ends once, runs only
\* while it is running, succeeds only after it ran, and its message is
\* acknowledged only after its end (processor.go:50-167, worker.go:85-100).
THEOREM EngineKeepsPromise ==
  ASSUME HonestStore
  PROVE  Spec => KeepsPromise
<1>1. Init => Promise!Init
  <2>1. ASSUME Init PROVE \A j \in Jobs : /\ store[j].status = "none"
                                          /\ Cardinality(executed[j]) = 0
                                          /\ ClosedAs(j) = "open"
    BY <2>1, FS_EmptySet, ClosedFacts DEF Init, NoRecord, Messages
  <2> QED
    BY <2>1 DEF Promise!Init
<1>2. Known /\ OpenInv /\ [Next]_vars => [Promise!Next]_(Promise!vars)
  BY PromiseStep
<1> QED
  BY <1>1, <1>2, KnownInvariance, OpenInvariance, PTL DEF Spec, KeepsPromise, Promise!Spec

=============================================================================
