------------------------------- MODULE Services -------------------------------
(***************************************************************************)
(* The life of the four processes of n0: the order in which main brings up *)
(* what a service needs, how it asks NATS for the address of another       *)
(* service, what begins to use those resources, and how the deferred calls *)
(* take them down again after SIGTERM.  One replica of each service.       *)
(*                                                                         *)
(* A question on NATS has no deadline: the context of main is only         *)
(* cancelled by a signal.  The activity in flight is one of all that run   *)
(* at a time; activities meet only in the resources, so one shows what     *)
(* happens to each.                                                        *)
(***************************************************************************)
EXTENDS Naturals, Sequences

CONSTANTS
  Faults,     \* subset of {"fail", "crash"}: which failures occur
  Fallbacks,  \* services whose address is configured at the ones that ask
  Production, \* environment=production: no job store in memory
  Running,    \* services that are deployed; the others never come up
  MaxStarts   \* processes launched, all services together

Services == {"meta", "cm", "qe", "gw"}

ASSUME ServicesAssumption ==
  /\ Running \subseteq Services
  /\ Faults \subseteq {"fail", "crash"} /\ Production \in BOOLEAN
  /\ Fallbacks \subseteq {"meta", "cm", "qe"} /\ MaxStarts \in Nat

VARIABLES
  proc,   \* per service: mode, steps of Boot done, SIGTERM received
  use,    \* the activity in flight, with the service it runs at
  starts  \* processes launched so far

serviceVars == <<proc, use, starts>>

\* What main of each service sets up, in order.  A step named after a service
\* asks for its address and makes a client of it.
BootMeta == <<"nats", "streams", "repo", "sink", "plugins", "cm", "key",
              "listen", "advertise", "http">>

BootCM == <<"nats", "routes", "listen", "advertise", "http">>

\* Slip: the address is advertised before anybody listens there.
BootQEAdvertisesFirst == <<"nats", "streams", "consumer", "meta", "cm", "store", "workers",
                           "advertise", "listen", "http">>

BootQE == <<"nats", "streams", "consumer", "meta", "cm", "store", "workers",
            "listen", "advertise", "http">>

BootGW == <<"nats", "meta", "qe", "cm", "key", "http">>

Boot == [s \in Services |->
          CASE s = "meta" -> BootMeta [] s = "cm" -> BootCM
            [] s = "qe" -> BootQE [] s = "gw" -> BootGW]

\* Steps that may end in log.Fatal, and steps that use the context of main.
Fallible     == {"nats", "streams", "repo", "sink", "consumer", "store", "key",
                 "routes", "listen", "advertise"}
NeedsContext == {"streams", "sink", "consumer", "store"}

\* What the handlers, the workers and the sink of a service work with.
RpcNeeds == [meta |-> {"repo", "cm", "key"}, cm |-> {"routes"}, qe |-> {"nats", "store"}, gw |-> {}]
WorkerNeeds == {"nats", "consumer", "meta", "cm", "store"}
SinkNeeds == {"nats", "streams", "repo"}

Needs(u) == CASE u.kind = "worker" -> WorkerNeeds
              [] u.kind = "sink"   -> SinkNeeds
              [] u.kind = "rpc"    -> RpcNeeds[u.at]
              [] OTHER             -> {}

Idle == [at |-> "nobody", kind |-> "none"]

Held(s) == {Boot[s][i] : i \in 1 .. proc[s].n}
Coming(s) == Boot[s][proc[s].n + 1]
Latest(s) == Boot[s][proc[s].n]
Asks(s) == proc[s].n < Len(Boot[s]) /\ Coming(s) \in Services

Down == [mode |-> "down", n |-> 0, term |-> FALSE]

ServicesInit ==
  /\ proc = [s \in Services |-> Down]
  /\ use = Idle
  /\ starts = 0

\* Processes whose question to s will not be answered any more.
LeftWaiting(s) == {p \in Services : proc[p].mode = "asking" /\ Coming(p) = s}

\* proc when s changes to next, which no longer answers questions.
Leaves(s, next) ==
  [p \in Services |-> IF p = s THEN next
                      ELSE IF p \in LeftWaiting(s) THEN [proc[p] EXCEPT !.mode = "unanswered"]
                      ELSE proc[p]]

\* The process is gone, without deferred calls: log.Fatal or a crash.
Exit(s) ==
  /\ proc' = Leaves(s, Down)
  /\ use'  = IF use.at = s THEN Idle ELSE use
  /\ UNCHANGED starts

Launch(s) ==
  /\ s \in Running /\ proc[s].mode = "down" /\ starts < MaxStarts
  /\ proc'   = [proc EXCEPT ![s].mode = "starting"]
  /\ starts' = starts + 1
  /\ UNCHANGED use

\* The context was cancelled before a call that needs it.
CutOff(s) == proc[s].term /\ Coming(s) \in NeedsContext

\* Without the durable store, development goes on with one in memory.
Survives(s) == Coming(s) = "store" /\ ~Production

Starting(s) == proc[s].mode = "starting" /\ proc[s].n < Len(Boot[s])

Proceed(s) == proc' = [proc EXCEPT ![s].mode = "starting", ![s].n = @ + 1]

Step(s) ==
  /\ Starting(s) /\ ~Asks(s) /\ (CutOff(s) => Survives(s))
  /\ Proceed(s) /\ UNCHANGED <<use, starts>>

Fatal(s) ==
  /\ Starting(s) /\ Coming(s) \in Fallible
  /\ "fail" \in Faults \/ CutOff(s)
  /\ ~Survives(s)
  /\ Exit(s)

Advertises(s) == "advertise" \in Held(s)

\* ResolveGRPCAddr: the question reaches the responder of the service.
\* Slip: asks whether anybody is subscribed or not.
AskAnybody(s) ==
  /\ Starting(s) /\ Asks(s) /\ ~proc[s].term
  /\ proc' = [proc EXCEPT ![s].mode = "asking"]
  /\ UNCHANGED <<use, starts>>

Ask(s) ==
  /\ Starting(s) /\ Asks(s) /\ ~proc[s].term /\ Advertises(Coming(s))
  /\ proc' = [proc EXCEPT ![s].mode = "asking"]
  /\ UNCHANGED <<use, starts>>

\* The responder answers.
Answer(s) ==
  /\ proc[s].mode = "asking" /\ Advertises(Coming(s))
  /\ Proceed(s) /\ UNCHANGED <<use, starts>>

\* Slip: the question is asked under a context of its own that nothing cancels.
UnresolvedDeaf(s) ==
  /\ Asks(s) /\ Starting(s) /\ (~Advertises(Coming(s)) \/ "fail" \in Faults)
  /\ IF Coming(s) \in Fallbacks THEN Proceed(s) /\ UNCHANGED <<use, starts>> ELSE Exit(s)

\* No responder, an error, or a cancelled context: the configured address.
Unresolved(s) ==
  /\ Asks(s)
  /\ \/ Starting(s) /\ (proc[s].term \/ ~Advertises(Coming(s)) \/ "fail" \in Faults)
     \/ proc[s].mode \in {"asking", "unanswered"} /\ proc[s].term
  /\ IF Coming(s) \in Fallbacks THEN Proceed(s) /\ UNCHANGED <<use, starts>> ELSE Exit(s)

\* Everything is up: main waits for the context.
Serves(s) ==
  /\ proc[s].mode = "starting" /\ proc[s].n = Len(Boot[s])
  /\ proc' = [proc EXCEPT ![s].mode = "serving"]
  /\ UNCHANGED <<use, starts>>

Sigterm(s) ==
  /\ proc[s].mode # "down" /\ ~proc[s].term
  /\ proc' = [proc EXCEPT ![s].term = TRUE]
  /\ UNCHANGED <<use, starts>>

\* Slip: meta-service does not wait for its sink.
StopsAtOnce(s) ==
  /\ proc[s].mode = "serving" /\ proc[s].term
  /\ proc' = [proc EXCEPT ![s].mode = "stopping"]
  /\ UNCHANGED <<use, starts>>

\* ctx.Done; meta-service then waits for its sink.
Stops(s) ==
  /\ proc[s].mode = "serving" /\ proc[s].term
  /\ use # [at |-> s, kind |-> "sink"]
  /\ proc' = [proc EXCEPT ![s].mode = "stopping"]
  /\ UNCHANGED <<use, starts>>

\* GracefulStop closes the listener, then waits for the calls in flight.
Accepts(s) ==
  "listen" \in Held(s) /\ ~(proc[s].mode = "stopping" /\ Latest(s) = "listen")

\* GracefulStop and Pool.Stop wait for who still works.
Busy(s) ==
  \/ Latest(s) = "listen"  /\ use = [at |-> s, kind |-> "rpc"]
  \/ Latest(s) = "workers" /\ use = [at |-> s, kind |-> "worker"]

\* The deferred call registered last.
Release(s) ==
  /\ proc[s].mode = "stopping" /\ proc[s].n > 0 /\ ~Busy(s)
  /\ LET next == [proc[s] EXCEPT !.n = @ - 1]
     IN  proc' = IF Latest(s) = "advertise" THEN Leaves(s, next) ELSE [proc EXCEPT ![s] = next]
  /\ UNCHANGED <<use, starts>>

\* main returns: what still runs goes with the process.
Returns(s) ==
  /\ proc[s].mode = "stopping" /\ proc[s].n = 0
  /\ Exit(s)

Crash(s) ==
  /\ "crash" \in Faults /\ proc[s].mode # "down"
  /\ Exit(s)

\* A worker and the sink look at the context before they fetch.
WorkerBegins(s) == s = "qe" /\ "workers" \in Held(s) /\ ~proc[s].term /\ use' = [at |-> s, kind |-> "worker"]
SinkBegins(s)   == s = "meta" /\ "sink" \in Held(s) /\ ~proc[s].term /\ use' = [at |-> s, kind |-> "sink"]
RpcBegins(s)    == Accepts(s) /\ use' = [at |-> s, kind |-> "rpc"]

\* Shutdown of the HTTP server runs in a goroutine that main does not wait for.
HttpBegins(s) == proc[s].mode \in {"serving", "stopping"} /\ use' = [at |-> s, kind |-> "http"]

Begins(s) ==
  /\ use = Idle
  /\ WorkerBegins(s) \/ SinkBegins(s) \/ RpcBegins(s) \/ HttpBegins(s)
  /\ UNCHANGED <<proc, starts>>

Ends ==
  /\ use # Idle
  /\ use' = Idle
  /\ UNCHANGED <<proc, starts>>

\* The context of main reaches what a worker and the sink wait for.
Cancelled == use.kind \in {"worker", "sink"} /\ proc[use.at].term

BootStep(s) == Step(s) \/ Fatal(s) \/ Ask(s) \/ Answer(s) \/ Unresolved(s) \/ Serves(s)
StopStep(s) == Stops(s) \/ Release(s) \/ Returns(s)

ServicesNext ==
  \/ \E s \in Services : Launch(s) \/ BootStep(s) \/ StopStep(s) \/ Sigterm(s) \/ Crash(s) \/ Begins(s)
  \/ Ends

ServicesSpec == ServicesInit /\ [][ServicesNext]_serviceVars

\* A process that can go on does so, a responder answers, and work whose context
\* is cancelled ends.  Nothing bounds a call: ExecuteQuery and GetSchema have no
\* deadline and take as long as the customer's database does.
ServicesFairSpec ==
  /\ ServicesSpec
  /\ \A s \in Services : WF_serviceVars(BootStep(s)) /\ WF_serviceVars(StopStep(s))
  /\ WF_serviceVars(Cancelled /\ Ends)

(***************************************************************************)
(* Properties.                                                             *)
(***************************************************************************)

Modes == {"down", "starting", "asking", "unanswered", "serving", "stopping"}
Activities == {Idle} \cup [at: Services, kind: {"rpc", "http", "worker", "sink"}]

\* The shape of the state; a process has done no more steps than its main has.
ServicesTypeOK ==
  /\ proc \in [Services -> [mode: Modes, n: Nat, term: BOOLEAN]]
  /\ \A s \in Services : proc[s].n \in 0 .. Len(Boot[s])
  /\ use \in Activities
  /\ starts \in 0 .. MaxStarts

\* Whatever is awaited at shutdown, a call, a worker or the sink, has what it
\* works with from its first to its last step: main starts users after their
\* resources, and its deferred calls stop them before (query-engine
\* main.go:120-141, meta-service main.go:86-134).
ResourcesOutliveUsers == use # Idle => Needs(use) \subseteq Held(use.at)

\* An address that discovery hands out is one where calls are accepted: the
\* responder is registered after the listener and leaves before it
\* (query-engine main.go:136-146).
AdvertisedAccepts == \A s \in Services : Advertises(s) => Accepts(s)

\* A process that starts comes to serve or is gone, unless the service it
\* asked left with its question (discovery.go:26).
StartEnds ==
  \A s \in Running : proc[s].mode = "starting" ~> proc[s].mode \in {"serving", "down", "unanswered"}

\* After SIGTERM every process comes to its end, whatever it was doing, and
\* whomever it asked or its workers and sink waited for, as long as the calls that
\* it serves come back: GracefulStop waits for them (connection-manager main.go:76).
CallsReturn(s) == []<>(use # [at |-> s, kind |-> "rpc"])

StopEnds ==
  \A s \in Running : CallsReturn(s) => (proc[s].term ~> proc[s].mode = "down")

\* README.md:98 speaks of graceful shutdown: a process that returns from main
\* has no HTTP request in flight (gateway.go:315-322).
RequestsAreDrained ==
  [][\A s \in Services :
       proc[s].mode = "stopping" /\ proc'[s].mode = "down" => use # [at |-> s, kind |-> "http"]]_serviceVars
=============================================================================
