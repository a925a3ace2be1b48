------------------------------ MODULE QueryJobs ------------------------------
(***************************************************************************)
(* The life of a query job in services/query-engine: SubmitQuery creates a *)
(* record in the job store and publishes a message; the goroutines of the  *)
(* worker pool fetch messages from a JetStream consumer, run the processor *)
(* and acknowledge.  The store is written by a read (Get) followed by a    *)
(* separate write (Set), so the two are separate steps here.               *)
(*                                                                         *)
(* Data is abstracted to its origin: the rows, the truncation flag and the *)
(* stored object are the number of the delivery that produced them (0 for  *)
(* none).  Which failures may happen is a constant, so that one machine    *)
(* serves both the runs in which the code keeps its promises and the runs  *)
(* in which a particular failure breaks them.                              *)
(***************************************************************************)
EXTENDS Integers, FiniteSets, Sequences

CONSTANTS
  Jobs,        \* queries that clients may submit
  Poison,      \* messages on QUERIES.* whose payload is not valid JSON
  Workers,     \* goroutines of the worker pools of all replicas
  MaxDeliver,  \* ConsumerConfig.MaxDeliver
  Faults,      \* the kinds of failure that may happen
  NoMsg        \* what an idle worker holds

(***************************************************************************)
(*  publish   a core NATS publish fails, or is accepted and never stored   *)
(*  load      a Redis GET fails                                            *)
(*  save      a Redis SET fails without taking effect                      *)
(*  reply     a Redis SET takes effect but is reported as failed           *)
(*  object    PutObject fails, or no object store is configured            *)
(*  audit     the acknowledged audit publish fails or times out            *)
(*  ack       an Ack, Nak or Term never reaches the server                 *)
(*  ackwait   AckWait runs out while a worker still holds the message      *)
(*  crash     a process dies                                               *)
(*  shutdown  SIGTERM cancels the context of the pool                      *)
(***************************************************************************)
FaultKinds == {"publish", "load", "save", "reply", "object",
               "audit", "ack", "ackwait", "crash", "shutdown"}

ASSUME DeliverAssumption == MaxDeliver \in Nat \ {0}
ASSUME FaultAssumption   == Faults \subseteq FaultKinds
ASSUME MessageAssumption == Jobs \cap Poison = {} /\ NoMsg \notin Jobs \cup Poison

Messages == Jobs \cup Poison

VARIABLES
  sub,       \* sub[j]: where the SubmitQuery call of job j stands
  store,     \* store[j]: the record under "n0:job:<j>"
  object,    \* object[j]: origin of the payload under "results/<j>.json"
  msg,       \* msg[m]: delivery state of message m at the durable consumer
  pc,        \* pc[w]: the step of Pool.run or Process worker w takes next
  task,      \* task[w]: the local variables of that call
  executed,  \* executed[j]: deliveries of j whose SQL reached the database
  audit      \* audit[j]: Success flags of the events of j, in stream order

vars == <<sub, store, object, msg, pc, task, executed, audit>>

(***************************************************************************)
(* The job record (job.Record), the delivery state and the local state of  *)
(* one Process call.                                                       *)
(***************************************************************************)
Terminal == {"success", "failed"}
Origins  == 0 .. MaxDeliver

NoRecord == [status |-> "none", rows |-> 0, ref |-> FALSE, truncated |-> 0]
Records  == [status: {"none", "pending", "running"} \cup Terminal,
             rows: Origins, ref: BOOLEAN, truncated: Origins]

NoTask == [msg |-> NoMsg, n |-> 0, rec |-> NoRecord, large |-> FALSE,
           cancelled |-> FALSE, ok |-> FALSE, err |-> FALSE]
Tasks  == [msg: Messages \cup {NoMsg}, n: Origins, rec: Records,
           large: BOOLEAN, cancelled: BOOLEAN, ok: BOOLEAN, err: BOOLEAN]

Settled    == {"acked", "termed", "exhausted"}
Deliveries == [state: {"absent", "ready", "inflight"} \cup Settled, n: Origins]

Steps == {"idle", "term", "check", "running_get", "running_set", "prepare",
          "execute", "success_get", "put", "success_set", "fail_get",
          "fail_set", "audit", "settle"}

\* "reply": the message is out and the client has no answer yet; "rejected": it
\* was told of an error; "dead": it never gets an answer.
Calls == {"new", "publish", "failmark", "reply", "accepted", "rejected", "dead"}

Init ==
  /\ sub      = [j \in Jobs |-> "new"]
  /\ store    = [j \in Jobs |-> NoRecord]
  /\ object   = [j \in Jobs |-> 0]
  /\ msg      = [m \in Messages |->
                   [state |-> IF m \in Poison THEN "ready" ELSE "absent", n |-> 0]]
  /\ pc       = [w \in Workers |-> "idle"]
  /\ task     = [w \in Workers |-> NoTask]
  /\ executed = [j \in Jobs |-> {}]
  /\ audit    = [j \in Jobs |-> <<>>]

(***************************************************************************)
(* store.save: done, not done, or done and reported as failed.             *)
(***************************************************************************)
Saved(j, r) == store' = [store EXCEPT ![j] = r]

SaveFails(j, r) ==
  \/ "save"  \in Faults /\ UNCHANGED store
  \/ "reply" \in Faults /\ Saved(j, r)

(***************************************************************************)
(* SubmitQuery.                                                            *)
(***************************************************************************)
CallMoves(j, from, to) == sub[j] = from /\ sub' = [sub EXCEPT ![j] = to]

\* CreateContext, and the early return when it fails.
Create(j) ==
  LET new == [NoRecord EXCEPT !.status = "pending"]
  IN  /\ \/ CallMoves(j, "new", "publish")  /\ Saved(j, new)
         \/ CallMoves(j, "new", "rejected") /\ SaveFails(j, new)
      /\ UNCHANGED <<object, msg, pc, task, executed, audit>>

\* Slip: a timed-out publish is reported as failed although it was stored.
PublishTimesOut(j) ==
  /\ CallMoves(j, "publish", "reply") \/ CallMoves(j, "publish", "failmark")
  /\ msg' = [msg EXCEPT ![j].state = "ready"]
  /\ UNCHANGED <<store, object, pc, task, executed, audit>>

\* publisher.Publish on the core connection.  It returns nil as soon as the
\* message is buffered; only JetStream's own acknowledgement, which nobody asks
\* for, would say that the message is stored.
Publish(j) ==
  /\ \/ /\ CallMoves(j, "publish", "reply")
        /\ \/ msg' = [msg EXCEPT ![j].state = "ready"]
           \/ "publish" \in Faults /\ UNCHANGED msg
     \/ /\ "publish" \in Faults
        /\ CallMoves(j, "publish", "failmark")
        /\ UNCHANGED msg
  /\ UNCHANGED <<store, object, pc, task, executed, audit>>

\* The publish failed: MarkFailed, whose error is dropped, and Unavailable.  No
\* worker can hold the job, so its Get and Set are one step.
MarkPublishFailed(j) ==
  LET r == [store[j] EXCEPT !.status = "failed", !.rows = 0, !.ref = FALSE]
  IN  /\ CallMoves(j, "failmark", "rejected")
      /\ Saved(j, r) \/ SaveFails(j, r) \/ ("load" \in Faults /\ UNCHANGED store)
      /\ UNCHANGED <<object, msg, pc, task, executed, audit>>

\* The client gets its answer, or none: the process dies or the reply is lost.
Answer(j) ==
  /\ \/ CallMoves(j, "reply", "accepted")
     \/ "crash" \in Faults /\ CallMoves(j, "reply", "dead")
  /\ UNCHANGED <<store, object, msg, pc, task, executed, audit>>

\* The process dies earlier than that.
CrashSubmit(j) ==
  /\ "crash" \in Faults
  /\ \E from \in {"publish", "failmark"} : CallMoves(j, from, "dead")
  /\ UNCHANGED <<store, object, msg, pc, task, executed, audit>>

(***************************************************************************)
(* The durable consumer "query-workers".  A settlement of an earlier       *)
(* delivery still counts; one that comes after the last word does not.     *)
(***************************************************************************)
Pending(m) == msg[m].state \in {"ready", "inflight"}

Requeued(m) ==
  msg' = [msg EXCEPT ![m].state =
            IF ~Pending(m) THEN @
            ELSE IF msg[m].n = MaxDeliver THEN "exhausted" ELSE "ready"]

Closed(m, how) == msg' = [msg EXCEPT ![m].state = IF Pending(m) THEN how ELSE @]

Holds(w, m) == task[w].msg = m

\* Slip: AckWait is shorter than the work it has to cover.
AckWaitTooShort(m) ==
  /\ msg[m].state = "inflight"
  /\ Requeued(m)
  /\ UNCHANGED <<sub, store, object, pc, task, executed, audit>>

\* Slip: the last delivery is never timed out.
AckWaitNotLast(m) ==
  /\ msg[m].state = "inflight" /\ msg[m].n < MaxDeliver
  /\ "ackwait" \in Faults \/ \A w \in Workers : ~Holds(w, m)
  /\ Requeued(m)
  /\ UNCHANGED <<sub, store, object, pc, task, executed, audit>>

\* AckWait runs out.  Without the "ackwait" fault only a message nobody works
\* on any more times out: its worker died or its settlement was lost.
AckWait(m) ==
  /\ msg[m].state = "inflight"
  /\ "ackwait" \in Faults \/ \A w \in Workers : ~Holds(w, m)
  /\ Requeued(m)
  /\ UNCHANGED <<sub, store, object, pc, task, executed, audit>>

(***************************************************************************)
(* Pool.run: fetch one message, process it, settle it.                     *)
(***************************************************************************)
Goto(w, from, to) == pc[w] = from /\ pc' = [pc EXCEPT ![w] = to]

Fetch(w, m) ==
  /\ msg[m].state = "ready"
  /\ Goto(w, "idle", IF m \in Poison THEN "term" ELSE "check")
  /\ msg'  = [msg EXCEPT ![m] = [state |-> "inflight", n |-> @.n + 1]]
  /\ task' = [task EXCEPT ![w] = [NoTask EXCEPT !.msg = m, !.n = msg[m].n + 1]]
  /\ UNCHANGED <<sub, store, object, executed, audit>>

\* The worker goes back to Fetch; whatever it sent may be lost on the way.
Settles(w, sent) ==
  /\ sent \/ ("ack" \in Faults /\ UNCHANGED msg)
  /\ task' = [task EXCEPT ![w] = NoTask]
  /\ UNCHANGED <<sub, store, object, executed, audit>>

Terminate(w) ==
  /\ Goto(w, "term", "idle")
  /\ Settles(w, Closed(task[w].msg, "termed"))

Settle(w) ==
  /\ Goto(w, "settle", "idle")
  /\ Settles(w, IF task[w].err THEN Requeued(task[w].msg)
                ELSE Closed(task[w].msg, "acked"))

(***************************************************************************)
(* QueryProcessor.Process.  ok is auditSuccess, err says whether Process   *)
(* returns an error; every return runs the deferred audit publish first.   *)
(***************************************************************************)
Return(w, ok, err) ==
  /\ pc'   = [pc EXCEPT ![w] = "audit"]
  /\ task' = [task EXCEPT ![w].ok = ok, ![w].err = err]

\* Slip: the switch forgets one of the two terminal states.
CheckSkipsFailed(w) ==
  LET status == store[task[w].msg].status
  IN  /\ pc[w] = "check"
      /\ \/ status = "success" /\ Return(w, TRUE, FALSE)
         \/ status # "success" /\ Goto(w, "check", "running_get") /\ UNCHANGED task
      /\ UNCHANGED <<sub, store, object, msg, executed, audit>>

\* Slip: no look at the stored status.
CheckNothing(w) ==
  /\ Goto(w, "check", "running_get")
  /\ UNCHANGED <<sub, store, object, msg, task, executed, audit>>

\* Slip: the switch returns without setting auditSuccess.
CheckForgetsSuccess(w) ==
  LET status == store[task[w].msg].status
  IN  /\ pc[w] = "check"
      /\ \/ status \in Terminal /\ Return(w, FALSE, FALSE)
         \/ /\ status \notin Terminal \/ "load" \in Faults
            /\ Goto(w, "check", "running_get")
            /\ UNCHANGED task
      /\ UNCHANGED <<sub, store, object, msg, executed, audit>>

\* The switch on the stored status.  An error of Get is treated as "go on".
Check(w) ==
  LET status == store[task[w].msg].status
  IN  /\ pc[w] = "check"
      /\ \/ status \in Terminal /\ Return(w, status = "success", FALSE)
         \/ /\ status \notin Terminal \/ "load" \in Faults
            /\ Goto(w, "check", "running_get")
            /\ UNCHANGED task
      /\ UNCHANGED <<sub, store, object, msg, executed, audit>>

\* The Get half of store.update: an error ends Process with that error.
Load(w, from, to) ==
  /\ pc[w] = from
  /\ \/ /\ Goto(w, from, to)
        /\ task' = [task EXCEPT ![w].rec = store[task[w].msg]]
     \/ "load" \in Faults /\ Return(w, FALSE, TRUE)
  /\ UNCHANGED <<sub, store, object, msg, executed, audit>>

MarkRunningGet(w) == Load(w, "running_get", "running_set")

MarkRunningSet(w) ==
  LET j == task[w].msg
      r == [task[w].rec EXCEPT !.status = "running"]
  IN  /\ pc[w] = "running_set"
      /\ \/ Saved(j, r) /\ Goto(w, "running_set", "prepare") /\ UNCHANGED task
         \/ SaveFails(j, r) /\ Return(w, FALSE, TRUE)
      /\ UNCHANGED <<sub, object, msg, executed, audit>>

\* GetConnection, policyFromConnection and sandbox.ValidatePolicy: any of them
\* may refuse the job; a cancelled context refuses it always.
Prepare(w) ==
  /\ \/ Goto(w, "prepare", "fail_get")
     \/ ~task[w].cancelled /\ Goto(w, "prepare", "execute")
  /\ UNCHANGED <<sub, store, object, msg, task, executed, audit>>

\* Slip: a failed ExecuteQuery is stored as an empty success.
ExecuteIgnoresError(w) ==
  /\ Goto(w, "execute", "success_get")
  /\ executed' \in {executed, [executed EXCEPT ![task[w].msg] = @ \cup {task[w].n}]}
  /\ UNCHANGED <<sub, store, object, msg, task, audit>>

\* ExecuteQuery: rows of either size, or an error, which does not say whether
\* the database ran the query.  Nothing bounds the call: nobody reads its
\* TimeoutSeconds, and its context has no deadline (processor.go:127-134).
Execute(w) ==
  LET ran == [executed EXCEPT ![task[w].msg] = @ \cup {task[w].n}]
  IN  /\ \/ /\ ~task[w].cancelled
            /\ Goto(w, "execute", "success_get")
            /\ executed' = ran
            /\ \E big \in BOOLEAN : task' = [task EXCEPT ![w].large = big]
         \/ /\ Goto(w, "execute", "fail_get")
            /\ executed' \in {executed, ran}
            /\ UNCHANGED task
      /\ UNCHANGED <<sub, store, object, msg, audit>>

\* Slip: the error is returned without marking the job.
PersistFailsOnly(w) == Return(w, FALSE, TRUE)

\* MarkSucceeded failed: Process will return that error, after MarkFailed.
PersistFails(w) ==
  /\ pc'   = [pc EXCEPT ![w] = "fail_get"]
  /\ task' = [task EXCEPT ![w].err = TRUE]

MarkSucceededGet(w) ==
  /\ pc[w] = "success_get"
  /\ \/ /\ Goto(w, "success_get", IF task[w].large THEN "put" ELSE "success_set")
        /\ task' = [task EXCEPT ![w].rec = store[task[w].msg]]
     \/ "load" \in Faults /\ PersistFails(w)
  /\ UNCHANGED <<sub, store, object, msg, executed, audit>>

\* Slip: the error of PutObject is dropped.
PutObjectIgnoresError(w) ==
  LET put == [object EXCEPT ![task[w].msg] = task[w].n]
  IN  /\ Goto(w, "put", "success_set")
      /\ object' = put \/ ("object" \in Faults /\ UNCHANGED object)
      /\ UNCHANGED <<sub, store, msg, task, executed, audit>>

PutObject(w) ==
  LET put == [object EXCEPT ![task[w].msg] = task[w].n]
  IN  /\ pc[w] = "put"
      /\ \/ object' = put /\ Goto(w, "put", "success_set") /\ UNCHANGED task
         \/ "object" \in Faults /\ object' \in {object, put} /\ PersistFails(w)
      /\ UNCHANGED <<sub, store, msg, executed, audit>>

\* The record read by MarkSucceededGet, with the result of this delivery.  A
\* small result leaves the ResultRef of that record as it was.
MarkSucceededSet(w) ==
  LET j     == task[w].msg
      large == task[w].large
      r     == [status    |-> "success",
                rows      |-> IF large THEN 0 ELSE task[w].n,
                ref       |-> large \/ task[w].rec.ref,
                truncated |-> task[w].n]
  IN  /\ pc[w] = "success_set"
      /\ \/ Saved(j, r) /\ Return(w, TRUE, FALSE)
         \/ SaveFails(j, r) /\ PersistFails(w)
      /\ UNCHANGED <<sub, object, msg, executed, audit>>

MarkFailedGet(w) == Load(w, "fail_get", "fail_set")

\* Slip: failJob drops the error of MarkFailed.
MarkFailedIgnoresError(w) ==
  LET j == task[w].msg
      r == [task[w].rec EXCEPT !.status = "failed", !.rows = 0, !.ref = FALSE]
  IN  /\ pc[w] = "fail_set"
      /\ Saved(j, r) \/ SaveFails(j, r)
      /\ Return(w, FALSE, task[w].err)
      /\ UNCHANGED <<sub, object, msg, executed, audit>>

MarkFailedSet(w) ==
  LET j == task[w].msg
      r == [task[w].rec EXCEPT !.status = "failed", !.rows = 0, !.ref = FALSE]
  IN  /\ pc[w] = "fail_set"
      /\ \/ Saved(j, r) /\ Return(w, FALSE, task[w].err)
         \/ SaveFails(j, r) /\ Return(w, FALSE, TRUE)
      /\ UNCHANGED <<sub, object, msg, executed, audit>>

\* Slip: the error of the audit publish is only logged.
PublishAuditBestEffort(w) ==
  /\ Goto(w, "audit", "settle")
  /\ \/ audit' = [audit EXCEPT ![task[w].msg] = Append(@, task[w].ok)]
     \/ "audit" \in Faults /\ UNCHANGED audit
  /\ UNCHANGED <<sub, store, object, msg, task, executed>>

\* The deferred publish of the audit event; its error becomes the error of
\* Process.  A publish that timed out may still have reached the stream.
PublishAudit(w) ==
  LET sent == [audit EXCEPT ![task[w].msg] = Append(@, task[w].ok)]
  IN  /\ Goto(w, "audit", "settle")
      /\ \/ audit' = sent /\ UNCHANGED task
         \/ /\ "audit" \in Faults
            /\ audit' \in {audit, sent}
            /\ task' = [task EXCEPT ![w].err = TRUE]
      /\ UNCHANGED <<sub, store, object, msg, executed>>

(***************************************************************************)
(* A process dies with everything its worker knows; SIGTERM cancels the    *)
(* context of a Process call that is under way.                            *)
(***************************************************************************)
Crash(w) ==
  /\ "crash" \in Faults
  /\ pc[w] # "idle"
  /\ pc'   = [pc EXCEPT ![w] = "idle"]
  /\ task' = [task EXCEPT ![w] = NoTask]
  /\ UNCHANGED <<sub, store, object, msg, executed, audit>>

Shutdown(w) ==
  /\ "shutdown" \in Faults
  /\ pc[w] \notin {"idle", "term"}
  /\ ~task[w].cancelled
  /\ task' = [task EXCEPT ![w].cancelled = TRUE]
  /\ UNCHANGED <<sub, store, object, msg, pc, executed, audit>>

(***************************************************************************)
(* The next-state relation.                                                *)
(***************************************************************************)
Submit(j) == Create(j) \/ Publish(j) \/ MarkPublishFailed(j)

Process(w) ==
  \/ Check(w) \/ MarkRunningGet(w) \/ MarkRunningSet(w) \/ Prepare(w)
  \/ Execute(w) \/ MarkSucceededGet(w) \/ PutObject(w) \/ MarkSucceededSet(w)
  \/ MarkFailedGet(w) \/ MarkFailedSet(w) \/ PublishAudit(w)

Next ==
  \/ \E j \in Jobs : Submit(j) \/ Answer(j) \/ CrashSubmit(j)
  \/ \E m \in Messages : AckWait(m) \/ \E w \in Workers : Fetch(w, m)
  \/ \E w \in Workers : Process(w) \/ Terminate(w) \/ Settle(w)
                        \/ Crash(w) \/ Shutdown(w)

Spec == Init /\ [][Next]_vars

(***************************************************************************)
(* Fairness.  A goroutine that can take a step takes it; the workers keep  *)
(* fetching; the server's AckWait timer fires.  A call to another service  *)
(* is owed no end, for none has a deadline: a query runs for as long as    *)
(* the customer's database likes, unless SIGTERM cancels the context of    *)
(* the worker.  Nothing is owed about failures: they may happen or not.    *)
(***************************************************************************)
Waits(w) == pc[w] \in {"prepare", "execute"}

Proceed(w)     == ~Waits(w) /\ (Process(w) \/ Terminate(w) \/ Settle(w))
Interrupted(w) == task[w].cancelled /\ (Prepare(w) \/ Execute(w))

Fairness ==
  /\ \A j \in Jobs : WF_vars(Submit(j) \/ Answer(j))
  /\ \A w \in Workers : WF_vars(Proceed(w)) /\ WF_vars(Interrupted(w))
  /\ \A m \in Messages : WF_vars(\E w \in Workers : Fetch(w, m))
  /\ \A m \in Messages : WF_vars(AckWait(m))

FairSpec == Spec /\ Fairness

(***************************************************************************)
(* Properties.                                                             *)
(***************************************************************************)

\* Every variable has its type; no delivery number exceeds MaxDeliver.
TypeOK ==
  /\ sub      \in [Jobs -> Calls]
  /\ store    \in [Jobs -> Records]
  /\ object   \in [Jobs -> Origins]
  /\ msg      \in [Messages -> Deliveries]
  /\ pc       \in [Workers -> Steps]
  /\ task     \in [Workers -> Tasks]
  /\ executed \in [Jobs -> SUBSET Origins]
  /\ audit    \in [Jobs -> Seq(BOOLEAN)]

\* "A worker acknowledges the message only after processing it"
\* (README.md:280): the message of a job is acknowledged only when the record
\* has its final status, whatever failed on the way (worker.go:92-99).
AckedIsTerminal ==
  \A j \in Jobs : msg[j].state = "acked" => store[j].status \in Terminal

\* An acknowledged job was audited, and the last event of the stream tells the
\* outcome that the record tells (processor.go:55-87).
AckedIsAudited ==
  \A j \in Jobs : msg[j].state = "acked" =>
    /\ audit[j] # <<>>
    /\ audit[j][Len(audit[j])] = (store[j].status = "success")

\* No two workers process the same delivery, and none works on a message that
\* the consumer has settled.
OneWorkerPerMessage ==
  /\ \A v, w \in Workers : Holds(v, task[w].msg) /\ pc[w] # "idle" => v = w
  /\ \A w \in Workers : pc[w] # "idle" => msg[task[w].msg].state = "inflight"

\* A terminal record never changes again ("MarkFailed stores a terminal
\* failure", store.go:198).
TerminalIsFinal ==
  [][\A j \in Jobs : store[j].status \in Terminal => store'[j] = store[j]]_vars

\* A redelivery "must not execute a terminal query twice" (processor.go:74-76).
TerminalIsNotExecuted ==
  \A j \in Jobs, k \in Origins :
    [](store[j].status \in Terminal /\ Cardinality(executed[j]) = k
         => [](Cardinality(executed[j]) = k))

\* GetResultPage serves the stored object when the record has a ResultRef and
\* the inline rows otherwise (store.go:249-265).
Served(j) == IF store[j].ref THEN object[j] ELSE store[j].rows

\* What a successful job serves is what its last MarkSucceeded stored: rows and
\* truncation flag of one and the same execution (store.go:208-241, 249-265).
ServesLastResult ==
  \A j \in Jobs : store[j].status = "success" => Served(j) = store[j].truncated

\* A successful record stands on an execution that took place, even when
\* workers overlap, writes are lost or processes die.
SuccessWasExecuted ==
  \A j \in Jobs : store[j].status = "success" => store[j].truncated \in executed[j]

\* A query whose submitter was told of an error never runs and leaves no audit
\* trail (grpc.go:60-84): a client may submit it again.  That is not so for one
\* that got no answer: between grpc.go:81 and 86 its query is already out.
RefusedNeverRuns ==
  \A j \in Jobs : sub[j] = "rejected" => executed[j] = {} /\ audit[j] = <<>>

\* GetConnection and ExecuteQuery come back: no worker waits for good.
CallsReturn == \A w \in Workers : []<>~Waits(w)

\* Deliveries are bounded, so as long as calls return every message that the
\* consumer has reaches an end: acknowledged, terminated or given up ("transient
\* failures have a bounded number of redelivery attempts", README.md:280).
DeliveryEnds ==
  CallsReturn =>
    \A m \in Messages : msg[m].state = "ready" ~> msg[m].state \in Settled

\* When the store answers and calls return, every job whose message was stored
\* ends with a terminal record that stays (processor.go:91-167).
StoredJobEnds ==
  CallsReturn =>
    \A j \in Jobs : msg[j].state = "ready" ~> [](store[j].status \in Terminal)

=============================================================================
