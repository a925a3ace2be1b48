---------------------------- MODULE ServicesProofs ----------------------------
(***************************************************************************)
(* Proofs about Services, for every set of faults, fallbacks and deployed  *)
(* services and every number of starts.                                    *)
(*                                                                         *)
(* What an activity works with is held because its service has got as far  *)
(* as the step that lets the activity begin, its gate: main brings up what *)
(* it needs before, and the deferred calls stop at the gate while it runs. *)
(***************************************************************************)
EXTENDS Services, TLAPS

(***************************************************************************)
(* The steps of main, by number.                                           *)
(***************************************************************************)

\* The order of the steps in the four mains.
LEMMA BootOrder ==
  /\ Len(Boot["meta"]) = 10 /\ Boot["meta"][1] = "nats" /\ Boot["meta"][2] = "streams"
  /\ Boot["meta"][3] = "repo" /\ Boot["meta"][4] = "sink" /\ Boot["meta"][5] = "plugins"
  /\ Boot["meta"][6] = "cm" /\ Boot["meta"][7] = "key" /\ Boot["meta"][8] = "listen"
  /\ Boot["meta"][9] = "advertise" /\ Boot["meta"][10] = "http"
  /\ Len(Boot["cm"]) = 5 /\ Boot["cm"][1] = "nats" /\ Boot["cm"][2] = "routes"
  /\ Boot["cm"][3] = "listen" /\ Boot["cm"][4] = "advertise" /\ Boot["cm"][5] = "http"
  /\ Len(Boot["qe"]) = 10 /\ Boot["qe"][1] = "nats" /\ Boot["qe"][2] = "streams"
  /\ Boot["qe"][3] = "consumer" /\ Boot["qe"][4] = "meta" /\ Boot["qe"][5] = "cm"
  /\ Boot["qe"][6] = "store" /\ Boot["qe"][7] = "workers" /\ Boot["qe"][8] = "listen"
  /\ Boot["qe"][9] = "advertise" /\ Boot["qe"][10] = "http"
  /\ Len(Boot["gw"]) = 6 /\ Boot["gw"][1] = "nats" /\ Boot["gw"][2] = "meta"
  /\ Boot["gw"][3] = "qe" /\ Boot["gw"][4] = "cm" /\ Boot["gw"][5] = "key"
  /\ Boot["gw"][6] = "http"
  BY DEF Boot, Services, BootMeta, BootCM, BootQE, BootGW

\* A main has finitely many steps.
LEMMA BootLength == ASSUME NEW s \in Services PROVE Len(Boot[s]) \in Nat
  BY BootOrder DEF Services

\* Where a service begins to accept calls, and where it advertises.
LEMMA ListenStep ==
  /\ \A i \in 1 .. 10 : Boot["meta"][i] = "listen" <=> i = 8
  /\ \A i \in 1 .. 5 : Boot["cm"][i] = "listen" <=> i = 3
  /\ \A i \in 1 .. 10 : Boot["qe"][i] = "listen" <=> i = 8
  /\ \A i \in 1 .. 6 : Boot["gw"][i] # "listen"
<1>1. \A i \in 1 .. 10 : Boot["meta"][i] = "listen" <=> i = 8
  <2> SUFFICES ASSUME NEW i \in 1 .. 10 PROVE Boot["meta"][i] = "listen" <=> i = 8
    OBVIOUS
  <2>1. i \in {1, 2, 3, 4, 5, 6, 7, 8, 9, 10}
    OBVIOUS
  <2> QED BY <2>1, BootOrder
<1>2. \A i \in 1 .. 5 : Boot["cm"][i] = "listen" <=> i = 3
  <2> SUFFICES ASSUME NEW i \in 1 .. 5 PROVE Boot["cm"][i] = "listen" <=> i = 3
    OBVIOUS
  <2>1. i \in {1, 2, 3, 4, 5}
    OBVIOUS
  <2> QED BY <2>1, BootOrder
<1>3. \A i \in 1 .. 10 : Boot["qe"][i] = "listen" <=> i = 8
  <2> SUFFICES ASSUME NEW i \in 1 .. 10 PROVE Boot["qe"][i] = "listen" <=> i = 8
    OBVIOUS
  <2>1. i \in {1, 2, 3, 4, 5, 6, 7, 8, 9, 10}
    OBVIOUS
  <2> QED BY <2>1, BootOrder
<1>4. \A i \in 1 .. 6 : Boot["gw"][i] # "listen"
  <2> SUFFICES ASSUME NEW i \in 1 .. 6 PROVE Boot["gw"][i] # "listen"
    OBVIOUS
  <2>1. i \in {1, 2, 3, 4, 5, 6}
    OBVIOUS
  <2> QED BY <2>1, BootOrder
<1> QED BY <1>1, <1>2, <1>3, <1>4

\* The step that advertises the address comes right after the one that listens.
LEMMA AdvertiseStep ==
  /\ \A i \in 1 .. 10 : Boot["meta"][i] = "advertise" => i = 9
  /\ \A i \in 1 .. 5 : Boot["cm"][i] = "advertise" => i = 4
  /\ \A i \in 1 .. 10 : Boot["qe"][i] = "advertise" => i = 9
  /\ \A i \in 1 .. 6 : Boot["gw"][i] # "advertise"
<1>1. \A i \in 1 .. 10 : Boot["meta"][i] = "advertise" => i = 9
  <2> SUFFICES ASSUME NEW i \in 1 .. 10 PROVE Boot["meta"][i] = "advertise" => i = 9
    OBVIOUS
  <2>1. i \in {1, 2, 3, 4, 5, 6, 7, 8, 9, 10}
    OBVIOUS
  <2> QED BY <2>1, BootOrder
<1>2. \A i \in 1 .. 5 : Boot["cm"][i] = "advertise" => i = 4
  <2> SUFFICES ASSUME NEW i \in 1 .. 5 PROVE Boot["cm"][i] = "advertise" => i = 4
    OBVIOUS
  <2>1. i \in {1, 2, 3, 4, 5}
    OBVIOUS
  <2> QED BY <2>1, BootOrder
<1>3. \A i \in 1 .. 10 : Boot["qe"][i] = "advertise" => i = 9
  <2> SUFFICES ASSUME NEW i \in 1 .. 10 PROVE Boot["qe"][i] = "advertise" => i = 9
    OBVIOUS
  <2>1. i \in {1, 2, 3, 4, 5, 6, 7, 8, 9, 10}
    OBVIOUS
  <2> QED BY <2>1, BootOrder
<1>4. \A i \in 1 .. 6 : Boot["gw"][i] # "advertise"
  <2> SUFFICES ASSUME NEW i \in 1 .. 6 PROVE Boot["gw"][i] # "advertise"
    OBVIOUS
  <2>1. i \in {1, 2, 3, 4, 5, 6}
    OBVIOUS
  <2> QED BY <2>1, BootOrder
<1> QED BY <1>1, <1>2, <1>3, <1>4

(***************************************************************************)
(* The inductive invariant.                                                *)
(***************************************************************************)

ProcTypeOK ==
  /\ proc \in [Services -> [mode: Modes, n: Nat, term: BOOLEAN]]
  /\ \A s \in Services : proc[s].n \in 0 .. Len(Boot[s])

\* The number of the step that lets an activity begin.
Gate(u) ==
  CASE u.kind = "rpc"    -> IF u.at = "cm" THEN 3 ELSE 8
    [] u.kind = "worker" -> 7
    [] u.kind = "sink"   -> 4
    [] OTHER             -> 0

\* Where an activity may be: calls come to listeners, workers are in the query
\* engine, the sink is in meta-service.
GoodUse(u) ==
  /\ u \in Activities
  /\ u.kind = "rpc" => u.at \in {"meta", "cm", "qe"}
  /\ u.kind = "worker" => u.at = "qe"
  /\ u.kind = "sink" => u.at = "meta"

\* The activity is past its gate, and the sink has not been left behind.
PastGate ==
  use # Idle =>
    /\ proc[use.at].n >= Gate(use)
    /\ use.kind = "sink" => proc["meta"].mode # "stopping"

\* Only a process that was told to stop does.
StoppingWasTold == \A s \in Services : proc[s].mode = "stopping" => proc[s].term

\* A process that asks has a step to come.
AskersHaveMore ==
  \A s \in Services : proc[s].mode \in {"asking", "unanswered"} => proc[s].n < Len(Boot[s])

\* The part of the invariant that speaks of proc alone.
ProcInv == ProcTypeOK /\ StoppingWasTold /\ AskersHaveMore

LifeInv == ProcInv /\ GoodUse(use) /\ PastGate /\ starts \in 0 .. MaxStarts

\* Past its gate, an activity has what it needs.
LEMMA GateIsAfterNeeds ==
  ASSUME ProcTypeOK, GoodUse(use), PastGate
  PROVE  ResourcesOutliveUsers
<1> SUFFICES ASSUME use # Idle PROVE Needs(use) \subseteq Held(use.at)
  BY DEF ResourcesOutliveUsers
<1>0. use.at \in Services /\ use.kind \in {"rpc", "http", "worker", "sink"}
  BY DEF GoodUse, Activities
<1>1. proc[use.at].n \in Nat /\ proc[use.at].n >= Gate(use)
  BY <1>0 DEF ProcTypeOK, PastGate
<1> DEFINE Done(i) == Boot[use.at][i] \in Held(use.at)
<1>2. \A i \in 1 .. Gate(use) : Done(i)
  <2>1. Gate(use) \in Nat
    BY DEF Gate
  <2> QED BY <1>1, <2>1 DEF Held
<1>3. CASE use.kind = "rpc"
  <2>1. use.at = "meta" => Needs(use) \subseteq Held(use.at)
    <3> SUFFICES ASSUME use.at = "meta" PROVE Needs(use) \subseteq Held(use.at)
      OBVIOUS
    <3>1. Gate(use) = 8
      BY <1>3 DEF Gate
    <3>2. Done(3) /\ Done(6) /\ Done(7)
      BY <1>2, <3>1
    <3>3. Needs(use) = {"repo", "cm", "key"}
      BY <1>3 DEF Needs, RpcNeeds
    <3> QED BY <3>2, <3>3, BootOrder
  <2>2. use.at = "cm" => Needs(use) \subseteq Held(use.at)
    <3> SUFFICES ASSUME use.at = "cm" PROVE Needs(use) \subseteq Held(use.at)
      OBVIOUS
    <3>1. Gate(use) = 3
      BY <1>3 DEF Gate
    <3>2. Done(2)
      BY <1>2, <3>1
    <3>3. Needs(use) = {"routes"}
      BY <1>3 DEF Needs, RpcNeeds
    <3> QED BY <3>2, <3>3, BootOrder
  <2>3. use.at = "qe" => Needs(use) \subseteq Held(use.at)
    <3> SUFFICES ASSUME use.at = "qe" PROVE Needs(use) \subseteq Held(use.at)
      OBVIOUS
    <3>1. Gate(use) = 8
      BY <1>3 DEF Gate
    <3>2. Done(1) /\ Done(6)
      BY <1>2, <3>1
    <3>3. Needs(use) = {"nats", "store"}
      BY <1>3 DEF Needs, RpcNeeds
    <3> QED BY <3>2, <3>3, BootOrder
  <2> QED BY <1>3, <2>1, <2>2, <2>3 DEF GoodUse
<1>4. CASE use.kind = "worker"
  <2>1. use.at = "qe" /\ Gate(use) = 7
    BY <1>4 DEF GoodUse, Gate
  <2>2. Done(1) /\ Done(3) /\ Done(4) /\ Done(5) /\ Done(6)
    BY <1>2, <2>1
  <2>3. Needs(use) = {"nats", "consumer", "meta", "cm", "store"}
    BY <1>4 DEF Needs, WorkerNeeds
  <2> QED BY <2>1, <2>2, <2>3, BootOrder
<1>5. CASE use.kind = "sink"
  <2>1. use.at = "meta" /\ Gate(use) = 4
    BY <1>5 DEF GoodUse, Gate
  <2>2. Done(1) /\ Done(2) /\ Done(3)
    BY <1>2, <2>1
  <2>3. Needs(use) = {"nats", "streams", "repo"}
    BY <1>5 DEF Needs, SinkNeeds
  <2> QED BY <2>1, <2>2, <2>3, BootOrder
<1>6. CASE use.kind = "http"
  BY <1>6 DEF Needs
<1> QED BY <1>0, <1>3, <1>4, <1>5, <1>6

\* An advertised address is one where calls are accepted: the steps are in this
\* order in every main.
LEMMA AdvertisedIsAccepted ==
  ASSUME ProcTypeOK
  PROVE  AdvertisedAccepts
<1> SUFFICES ASSUME NEW s \in Services, Advertises(s) PROVE Accepts(s)
  BY DEF AdvertisedAccepts
<1>1. proc[s].n \in Nat /\ proc[s].n <= Len(Boot[s])
  BY BootLength DEF ProcTypeOK
<1>2. PICK i \in 1 .. proc[s].n : Boot[s][i] = "advertise"
  BY DEF Advertises, Held
<1>3. i \in 1 .. Len(Boot[s])
  BY <1>1, BootLength
<1> DEFINE Listens(k) == Boot[s][k] = "listen" /\ k < proc[s].n /\ Boot[s][proc[s].n] # "listen"
<1>4. s = "meta" => Listens(8)
  <2> SUFFICES ASSUME s = "meta" PROVE Listens(8)
    OBVIOUS
  <2>1. i = 9
    BY <1>2, <1>3, AdvertiseStep, BootOrder
  <2>2. proc[s].n \in 9 .. 10
    BY <1>1, <2>1, BootOrder
  <2> QED BY <2>2, ListenStep, BootOrder
<1>5. s = "cm" => Listens(3)
  <2> SUFFICES ASSUME s = "cm" PROVE Listens(3)
    OBVIOUS
  <2>1. i = 4
    BY <1>2, <1>3, AdvertiseStep, BootOrder
  <2>2. proc[s].n \in 4 .. 5
    BY <1>1, <2>1, BootOrder
  <2> QED BY <2>2, ListenStep, BootOrder
<1>6. s = "qe" => Listens(8)
  <2> SUFFICES ASSUME s = "qe" PROVE Listens(8)
    OBVIOUS
  <2>1. i = 9
    BY <1>2, <1>3, AdvertiseStep, BootOrder
  <2>2. proc[s].n \in 9 .. 10
    BY <1>1, <2>1, BootOrder
  <2> QED BY <2>2, ListenStep, BootOrder
<1>7. s # "gw"
  BY <1>2, <1>3, AdvertiseStep, BootOrder
<1>8. \E k \in {3, 8} : Listens(k)
  BY <1>4, <1>5, <1>6, <1>7 DEF Services
<1>9. PICK k \in {3, 8} : Listens(k)
  BY <1>8
<1>10. "listen" \in Held(s)
  BY <1>1, <1>9 DEF Held
<1>11. Latest(s) # "listen"
  BY <1>9 DEF Latest
<1> QED BY <1>10, <1>11 DEF Accepts

\* Where the workers and the sink are started.
LEMMA StartSteps ==
  /\ \A i \in 1 .. 10 : Boot["qe"][i] = "workers" <=> i = 7
  /\ \A i \in 1 .. 10 : Boot["meta"][i] = "sink" <=> i = 4
<1>1. \A i \in 1 .. 10 : Boot["qe"][i] = "workers" <=> i = 7
  <2> SUFFICES ASSUME NEW i \in 1 .. 10 PROVE Boot["qe"][i] = "workers" <=> i = 7
    OBVIOUS
  <2>1. i \in {1, 2, 3, 4, 5, 6, 7, 8, 9, 10}
    OBVIOUS
  <2> QED BY <2>1, BootOrder
<1>2. \A i \in 1 .. 10 : Boot["meta"][i] = "sink" <=> i = 4
  <2> SUFFICES ASSUME NEW i \in 1 .. 10 PROVE Boot["meta"][i] = "sink" <=> i = 4
    OBVIOUS
  <2>1. i \in {1, 2, 3, 4, 5, 6, 7, 8, 9, 10}
    OBVIOUS
  <2> QED BY <2>1, BootOrder
<1> QED BY <1>1, <1>2

(***************************************************************************)
(* What the changes of one process leave alone.                            *)
(***************************************************************************)

\* A process a service may change to.
GoodProc(s, q) ==
  /\ q \in [mode: Modes, n: Nat, term: BOOLEAN]
  /\ q.n \in 0 .. Len(Boot[s])
  /\ q.mode = "stopping" => q.term
  /\ q.mode \in {"asking", "unanswered"} => q.n < Len(Boot[s])

LEMMA ProcInvIsGood ==
  ProcInv <=> /\ proc = [s \in Services |-> proc[s]]
              /\ \A s \in Services : GoodProc(s, proc[s])
  BY DEF ProcInv, ProcTypeOK, StoppingWasTold, AskersHaveMore, GoodProc

\* One process changes and the others stay, or wait in vain.
OneChanges(s, q) ==
  /\ proc' = [p \in Services |-> proc'[p]]
  /\ proc'[s] = q
  /\ \A p \in Services \ {s} :
       \/ proc'[p] = proc[p]
       \/ proc[p].mode = "asking" /\ proc'[p] = [proc[p] EXCEPT !.mode = "unanswered"]

LEMMA LeavesChangesOne ==
  ASSUME NEW s \in Services, NEW q, proc' = Leaves(s, q)
  PROVE  OneChanges(s, q)
  BY DEF Leaves, LeftWaiting, OneChanges

LEMMA ExceptChangesOne ==
  ASSUME ProcInv, NEW s \in Services, NEW q, proc' = [proc EXCEPT ![s] = q]
  PROVE  OneChanges(s, q)
  BY DEF ProcInv, ProcTypeOK, OneChanges

\* Such a change keeps the shape of proc and, of the others, their steps done.
LEMMA ChangeKeepsProc ==
  ASSUME ProcInv, NEW s \in Services, NEW q, GoodProc(s, q), OneChanges(s, q)
  PROVE  /\ ProcInv'
         /\ \A p \in Services \ {s} : proc'[p].n = proc[p].n
         /\ \A p \in Services \ {s} : proc'[p].mode = "stopping" => proc[p].mode = "stopping"
<1>1. \A p \in Services \ {s} : GoodProc(p, proc'[p]) /\ proc'[p].n = proc[p].n
                                /\ (proc'[p].mode = "stopping" => proc[p].mode = "stopping")
  <2> SUFFICES ASSUME NEW p \in Services \ {s}
               PROVE  GoodProc(p, proc'[p]) /\ proc'[p].n = proc[p].n
                      /\ (proc'[p].mode = "stopping" => proc[p].mode = "stopping")
    OBVIOUS
  <2>1. GoodProc(p, proc[p])
    BY ProcInvIsGood
  <2>2. CASE proc'[p] = proc[p]
    BY <2>1, <2>2
  <2>3. CASE proc[p].mode = "asking" /\ proc'[p] = [proc[p] EXCEPT !.mode = "unanswered"]
    <3>1. /\ proc'[p] \in [mode: Modes, n: Nat, term: BOOLEAN]
          /\ proc'[p].n = proc[p].n /\ proc'[p].mode = "unanswered"
      BY <2>1, <2>3 DEF GoodProc, Modes
    <3>2. proc[p].n < Len(Boot[p]) /\ proc[p].n \in 0 .. Len(Boot[p])
      BY <2>1, <2>3 DEF GoodProc
    <3>3. GoodProc(p, proc'[p])
      BY <3>1, <3>2 DEF GoodProc
    <3> QED BY <3>1, <3>3
  <2> QED BY <2>2, <2>3 DEF OneChanges
<1>2. GoodProc(s, proc'[s])
  BY DEF OneChanges
<1>3. \A p \in Services : GoodProc(p, proc'[p])
  BY <1>1, <1>2
<1>4. ProcInv'
  BY <1>3 DEF OneChanges, GoodProc, ProcInv, ProcTypeOK, StoppingWasTold, AskersHaveMore
<1> QED BY <1>1, <1>4

\* An activity that goes on is past its gate afterwards when it was before and
\* its service keeps the gate; one at another service is not touched.
LEMMA ChangeKeepsLife ==
  ASSUME LifeInv, NEW s \in Services, NEW q, GoodProc(s, q), OneChanges(s, q),
         starts' \in 0 .. MaxStarts,
         \/ use' = Idle
         \/ /\ use' = use
            /\ use # Idle /\ use.at = s =>
                 q.n >= Gate(use) /\ (use.kind = "sink" => q.mode # "stopping")
  PROVE  LifeInv'
<1>1. ProcInv
  BY DEF LifeInv
<1>2. /\ ProcInv'
      /\ \A p \in Services \ {s} : proc'[p].n = proc[p].n
      /\ \A p \in Services \ {s} : proc'[p].mode = "stopping" => proc[p].mode = "stopping"
  BY <1>1, ChangeKeepsProc
<1>3. CASE use' = Idle
  <2>1. GoodUse(use') /\ PastGate'
    BY <1>3 DEF GoodUse, Activities, Idle, PastGate
  <2> QED BY <1>2, <2>1 DEF LifeInv
<1>4. CASE use' = use /\ use = Idle
  <2>1. GoodUse(use') /\ PastGate'
    BY <1>4 DEF GoodUse, Activities, Idle, PastGate
  <2> QED BY <1>2, <2>1 DEF LifeInv
<1>5. ASSUME use' = use, use # Idle,
             use.at = s => q.n >= Gate(use) /\ (use.kind = "sink" => q.mode # "stopping")
      PROVE  LifeInv'
  <2>1. GoodUse(use') /\ use.at \in Services /\ (use.kind = "sink" => use.at = "meta")
    BY <1>5 DEF LifeInv, GoodUse, Activities
  <2>2. proc[use.at].n >= Gate(use) /\ (use.kind = "sink" => proc[use.at].mode # "stopping")
    BY <1>5, <2>1 DEF LifeInv, PastGate
  <2>3. proc'[use.at].n >= Gate(use) /\ (use.kind = "sink" => proc'[use.at].mode # "stopping")
    <3>1. CASE use.at = s
      BY <3>1, <1>5 DEF OneChanges
    <3>2. CASE use.at # s
      BY <3>2, <1>2, <2>1, <2>2
    <3> QED BY <3>1, <3>2
  <2>4. PastGate'
    <3>1. Gate(use') = Gate(use)
      BY <1>5
    <3> QED BY <1>5, <2>1, <2>3, <3>1 DEF PastGate
  <2> QED BY <1>2, <2>1, <2>4 DEF LifeInv
<1> QED BY <1>3, <1>4, <1>5

\* What ends the activities of the process that goes.
LEMMA ExitKeeps == ASSUME LifeInv, NEW s \in Services, Exit(s) PROVE LifeInv'
<1>1. GoodProc(s, Down)
  BY BootLength DEF GoodProc, Down, Modes
<1>2. OneChanges(s, Down)
  BY LeavesChangesOne DEF Exit
<1>3. starts' \in 0 .. MaxStarts
  BY DEF Exit, LifeInv
<1>4. use' = Idle \/ (use' = use /\ use.at # s)
  BY DEF Exit
<1> QED BY <1>1, <1>2, <1>3, <1>4, ChangeKeepsLife

\* One step further in main.
LEMMA ProceedKeeps ==
  ASSUME LifeInv, NEW s \in Services, proc[s].n < Len(Boot[s]), Proceed(s), UNCHANGED <<use, starts>>
  PROVE  LifeInv'
<1> DEFINE q == [proc[s] EXCEPT !.mode = "starting", !.n = @ + 1]
<1>1. proc[s] \in [mode: Modes, n: Nat, term: BOOLEAN]
  BY DEF LifeInv, ProcInv, ProcTypeOK
<1>2. q.n = proc[s].n + 1 /\ q.mode = "starting" /\ q \in [mode: Modes, n: Nat, term: BOOLEAN]
  <2>1. q.n = proc[s].n + 1 /\ q.mode = "starting"
    BY <1>1
  <2>2. proc[s].n + 1 \in Nat /\ "starting" \in Modes
    BY <1>1 DEF Modes
  <2> QED BY <1>1, <2>1, <2>2
<1>3. GoodProc(s, q)
  BY <1>1, <1>2, BootLength DEF GoodProc
<1>4. proc' = [proc EXCEPT ![s] = q]
  BY DEF Proceed, LifeInv, ProcInv, ProcTypeOK
<1>5. OneChanges(s, q)
  BY <1>4, ExceptChangesOne DEF LifeInv
<1>6. use # Idle /\ use.at = s => q.n >= Gate(use) /\ q.mode # "stopping"
  <2>1. Gate(use) \in Nat
    BY DEF Gate
  <2>2. use # Idle /\ use.at = s => proc[s].n >= Gate(use)
    BY DEF LifeInv, PastGate
  <2> QED BY <1>1, <1>2, <2>1, <2>2
<1>7. starts' \in 0 .. MaxStarts
  BY DEF LifeInv
<1> HIDE DEF q
<1> QED BY <1>3, <1>5, <1>6, <1>7, ChangeKeepsLife

\* A change of the mode alone.
LEMMA ModeKeeps ==
  ASSUME LifeInv, NEW s \in Services, NEW m \in Modes, NEW t \in BOOLEAN,
         proc' = [proc EXCEPT ![s].mode = m, ![s].term = t],
         m \in {"asking", "unanswered"} => proc[s].n < Len(Boot[s]),
         m = "stopping" => t /\ (proc[s].mode = "stopping" \/ use # [at |-> s, kind |-> "sink"]),
         UNCHANGED use, starts' \in 0 .. MaxStarts
  PROVE  LifeInv'
<1> DEFINE q == [proc[s] EXCEPT !.mode = m, !.term = t]
<1>1. proc[s] \in [mode: Modes, n: Nat, term: BOOLEAN] /\ proc[s].n \in 0 .. Len(Boot[s])
  BY DEF LifeInv, ProcInv, ProcTypeOK
<1>2. q.n = proc[s].n /\ q.mode = m /\ q.term = t /\ q \in [mode: Modes, n: Nat, term: BOOLEAN]
  BY <1>1
<1>3. GoodProc(s, q)
  BY <1>1, <1>2 DEF GoodProc
<1>4. proc' = [proc EXCEPT ![s] = q]
  BY DEF LifeInv, ProcInv, ProcTypeOK
<1>5. OneChanges(s, q)
  BY <1>4, ExceptChangesOne DEF LifeInv
<1>6. use # Idle /\ use.at = s => q.n >= Gate(use) /\ (use.kind = "sink" => q.mode # "stopping")
  <2> SUFFICES ASSUME use # Idle, use.at = s
               PROVE  q.n >= Gate(use) /\ (use.kind = "sink" => q.mode # "stopping")
    OBVIOUS
  <2>1. proc[s].n >= Gate(use) /\ (use.kind = "sink" => proc["meta"].mode # "stopping" /\ s = "meta")
    BY DEF LifeInv, PastGate, GoodUse
  <2>2. use.kind = "sink" => use = [at |-> s, kind |-> "sink"]
    BY DEF LifeInv, GoodUse, Activities
  <2> QED BY <1>2, <2>1, <2>2
<1> HIDE DEF q
<1> QED BY <1>3, <1>5, <1>6, ChangeKeepsLife

(***************************************************************************)
(* One lemma per action.                                                   *)
(***************************************************************************)

\* A service that is about to fall behind the gate of an activity waits for it.
LEMMA GateHolds ==
  ASSUME LifeInv, NEW s \in Services, use # Idle, use.at = s, use.kind \in {"rpc", "worker"},
         proc[s].n = Gate(use)
  PROVE  Busy(s)
<1>1. /\ use \in Activities
      /\ use.kind = "rpc" => s \in {"meta", "cm", "qe"}
      /\ use.kind = "worker" => s = "qe"
  BY DEF LifeInv, GoodUse
<1>2. CASE use.kind = "rpc"
  <2>1. Latest(s) = "listen"
    <3>1. s = "cm" => proc[s].n = 3
      BY <1>2 DEF Gate
    <3>2. s # "cm" => proc[s].n = 8
      BY <1>2 DEF Gate
    <3> QED BY <1>1, <1>2, <3>1, <3>2, BootOrder DEF Latest
  <2>2. use = [at |-> s, kind |-> "rpc"]
    BY <1>1, <1>2 DEF Activities
  <2> QED BY <2>1, <2>2 DEF Busy
<1>3. CASE use.kind = "worker"
  <2>1. Latest(s) = "workers"
    BY <1>1, <1>3, BootOrder DEF Latest, Gate
  <2>2. use = [at |-> s, kind |-> "worker"]
    BY <1>1, <1>3 DEF Activities
  <2> QED BY <2>1, <2>2 DEF Busy
<1> QED BY <1>2, <1>3

LEMMA ReleaseKeeps == ASSUME LifeInv, NEW s \in Services, Release(s) PROVE LifeInv'
<1> DEFINE q == [proc[s] EXCEPT !.n = @ - 1]
<1>1. /\ proc[s] \in [mode: Modes, n: Nat, term: BOOLEAN] /\ proc[s].n \in 0 .. Len(Boot[s])
      /\ proc[s].mode = "stopping" /\ proc[s].term /\ proc[s].n > 0 /\ ~Busy(s)
  BY DEF LifeInv, ProcInv, ProcTypeOK, StoppingWasTold, Release
<1>2. q.n = proc[s].n - 1 /\ q.mode = "stopping" /\ q.term = proc[s].term
  BY <1>1
<1>3. q \in [mode: Modes, n: Nat, term: BOOLEAN]
  <2>1. proc[s].n - 1 \in Nat
    BY <1>1
  <2> QED BY <1>1, <2>1
<1>4. GoodProc(s, q)
  <2>1. q.n \in 0 .. Len(Boot[s])
    BY <1>1, <1>2, BootLength
  <2> QED BY <1>1, <1>2, <1>3, <2>1 DEF GoodProc
<1>5. OneChanges(s, q)
  <2>1. proc' = Leaves(s, q) \/ proc' = [proc EXCEPT ![s] = q]
    BY DEF Release
  <2> HIDE DEF q
  <2> QED BY <2>1, LeavesChangesOne, ExceptChangesOne DEF LifeInv
<1>6. use # Idle /\ use.at = s => q.n >= Gate(use) /\ use.kind # "sink"
  <2> SUFFICES ASSUME use # Idle, use.at = s PROVE q.n >= Gate(use) /\ use.kind # "sink"
    OBVIOUS
  <2>1. proc[s].n >= Gate(use) /\ use.kind # "sink"
    BY <1>1 DEF LifeInv, PastGate, GoodUse
  <2>2. use.kind \in {"rpc", "worker", "http"}
    BY <2>1 DEF LifeInv, GoodUse, Activities
  <2>3. use.kind = "http" => Gate(use) = 0
    BY DEF Gate
  <2>4. proc[s].n # Gate(use)
    BY <1>1, <2>2, <2>3, GateHolds
  <2>5. Gate(use) \in Nat
    BY DEF Gate
  <2> QED BY <1>1, <1>2, <2>1, <2>4, <2>5
<1>7. use' = use /\ starts' \in 0 .. MaxStarts
  BY DEF Release, LifeInv
<1> HIDE DEF q
<1> QED BY <1>4, <1>5, <1>6, <1>7, ChangeKeepsLife

LEMMA LaunchKeeps == ASSUME LifeInv, NEW s \in Services, Launch(s) PROVE LifeInv'
<1>1. starts' \in 0 .. MaxStarts /\ use' = use
  BY ServicesAssumption DEF Launch, LifeInv
<1>2. proc' = [proc EXCEPT ![s].mode = "starting", ![s].term = proc[s].term]
  BY DEF Launch, LifeInv, ProcInv, ProcTypeOK
<1>3. proc[s].term \in BOOLEAN /\ "starting" \in Modes
  BY DEF LifeInv, ProcInv, ProcTypeOK, Modes
<1> QED BY <1>1, <1>2, <1>3, ModeKeeps

LEMMA BootStepKeeps == ASSUME LifeInv, NEW s \in Services, BootStep(s) PROVE LifeInv'
<1>0. /\ proc[s].term \in BOOLEAN /\ proc[s].n \in Nat
      /\ proc[s].mode \in {"asking", "unanswered"} => proc[s].n < Len(Boot[s])
      /\ starts \in 0 .. MaxStarts
  BY DEF LifeInv, ProcInv, ProcTypeOK, AskersHaveMore
<1>1. CASE Step(s)
  BY <1>1, ProceedKeeps DEF Step, Starting
<1>2. CASE Fatal(s)
  BY <1>2, ExitKeeps DEF Fatal
<1>3. CASE Ask(s)
  <2>1. proc' = [proc EXCEPT ![s].mode = "asking", ![s].term = proc[s].term]
    BY <1>3 DEF Ask, LifeInv, ProcInv, ProcTypeOK
  <2>2. "asking" \in Modes /\ use' = use /\ starts' = starts /\ proc[s].n < Len(Boot[s])
    BY <1>3 DEF Ask, Starting, Modes
  <2> QED BY <1>0, <2>1, <2>2, ModeKeeps
<1>4. CASE Answer(s)
  BY <1>0, <1>4, ProceedKeeps DEF Answer
<1>5. CASE Unresolved(s)
  <2>1. proc[s].n < Len(Boot[s])
    BY <1>5 DEF Unresolved, Asks
  <2>2. (Proceed(s) /\ UNCHANGED <<use, starts>>) \/ Exit(s)
    BY <1>5 DEF Unresolved
  <2> QED BY <2>1, <2>2, ProceedKeeps, ExitKeeps
<1>6. CASE Serves(s)
  <2>1. proc' = [proc EXCEPT ![s].mode = "serving", ![s].term = proc[s].term]
    BY <1>6 DEF Serves, LifeInv, ProcInv, ProcTypeOK
  <2>2. "serving" \in Modes /\ use' = use /\ starts' = starts
    BY <1>6 DEF Serves, Modes
  <2> QED BY <1>0, <2>1, <2>2, ModeKeeps
<1> QED BY <1>1, <1>2, <1>3, <1>4, <1>5, <1>6 DEF BootStep

LEMMA StopStepKeeps == ASSUME LifeInv, NEW s \in Services, StopStep(s) PROVE LifeInv'
<1>1. CASE Stops(s)
  <2>1. proc' = [proc EXCEPT ![s].mode = "stopping", ![s].term = TRUE]
    BY <1>1 DEF Stops, LifeInv, ProcInv, ProcTypeOK
  <2>2. /\ "stopping" \in Modes /\ use' = use /\ starts' \in 0 .. MaxStarts
        /\ use # [at |-> s, kind |-> "sink"]
    BY <1>1 DEF Stops, Modes, LifeInv
  <2> QED BY <2>1, <2>2, ModeKeeps
<1>2. CASE Release(s)
  BY <1>2, ReleaseKeeps
<1>3. CASE Returns(s)
  BY <1>3, ExitKeeps DEF Returns
<1> QED BY <1>1, <1>2, <1>3 DEF StopStep

LEMMA SigtermKeeps == ASSUME LifeInv, NEW s \in Services, Sigterm(s) PROVE LifeInv'
<1>1. /\ proc[s].mode \in Modes
      /\ proc[s].mode \in {"asking", "unanswered"} => proc[s].n < Len(Boot[s])
  BY DEF LifeInv, ProcInv, ProcTypeOK, AskersHaveMore
<1>2. /\ proc' = [proc EXCEPT ![s].mode = proc[s].mode, ![s].term = TRUE]
      /\ use' = use /\ starts' \in 0 .. MaxStarts
  BY DEF Sigterm, LifeInv, ProcInv, ProcTypeOK
<1> QED BY <1>1, <1>2, ModeKeeps

\* An activity begins past its gate: the step that starts it has been done.
LEMMA BeginsKeeps == ASSUME LifeInv, NEW s \in Services, Begins(s) PROVE LifeInv'
<1>0. /\ proc[s].n \in Nat /\ proc[s].n <= Len(Boot[s])
      /\ use = Idle /\ UNCHANGED <<proc, starts>>
  BY BootLength DEF LifeInv, ProcInv, ProcTypeOK, Begins
<1>1. ProcInv' /\ starts' \in 0 .. MaxStarts
  BY <1>0 DEF LifeInv, ProcInv, ProcTypeOK, StoppingWasTold, AskersHaveMore
<1>2. ASSUME NEW k \in {"rpc", "http", "worker", "sink"}, use' = [at |-> s, kind |-> k],
             GoodUse(use'), proc[s].n >= Gate(use'), k = "sink" => proc["meta"].mode # "stopping"
      PROVE  LifeInv'
  <2>1. PastGate'
    BY <1>0, <1>2 DEF PastGate, Gate
  <2> QED BY <1>1, <1>2, <2>1 DEF LifeInv
<1>3. CASE WorkerBegins(s)
  <2>1. s = "qe" /\ "workers" \in Held(s) /\ use' = [at |-> s, kind |-> "worker"]
    BY <1>3 DEF WorkerBegins
  <2>2. PICK i \in 1 .. proc[s].n : Boot[s][i] = "workers"
    BY <2>1 DEF Held
  <2>3. i \in 1 .. 10
    BY <1>0, <2>1, <2>2, BootOrder
  <2>4. i = 7
    BY <2>1, <2>2, <2>3, StartSteps
  <2>5. proc[s].n >= 7
    BY <1>0, <2>2, <2>4
  <2>6. Gate(use') = 7 /\ GoodUse(use')
    BY <2>1 DEF Gate, GoodUse, Activities
  <2> QED BY <1>2, <2>1, <2>5, <2>6
<1>4. CASE SinkBegins(s)
  <2>1. s = "meta" /\ "sink" \in Held(s) /\ use' = [at |-> s, kind |-> "sink"] /\ ~proc[s].term
    BY <1>4 DEF SinkBegins
  <2>2. PICK i \in 1 .. proc[s].n : Boot[s][i] = "sink"
    BY <2>1 DEF Held
  <2>3. i \in 1 .. 10
    BY <1>0, <2>1, <2>2, BootOrder
  <2>4. i = 4
    BY <2>1, <2>2, <2>3, StartSteps
  <2>5. proc[s].n >= 4
    BY <1>0, <2>2, <2>4
  <2>6. Gate(use') = 4 /\ GoodUse(use')
    BY <2>1 DEF Gate, GoodUse, Activities
  <2>7. proc["meta"].mode # "stopping"
    BY <2>1 DEF LifeInv, ProcInv, StoppingWasTold
  <2> QED BY <1>2, <2>1, <2>5, <2>6, <2>7
<1>5. CASE RpcBegins(s)
  <2>1. "listen" \in Held(s) /\ use' = [at |-> s, kind |-> "rpc"]
    BY <1>5 DEF RpcBegins, Accepts
  <2>2. PICK i \in 1 .. proc[s].n : Boot[s][i] = "listen"
    BY <2>1 DEF Held
  <2>3. i \in 1 .. Len(Boot[s])
    BY <1>0, <2>2, BootLength
  <2>4. s # "gw"
    BY <2>2, <2>3, ListenStep, BootOrder
  <2>5. s \in {"meta", "qe"} => i = 8
    <3>1. s = "meta" => i = 8
      <4> SUFFICES ASSUME s = "meta" PROVE i = 8
        OBVIOUS
      <4>1. i \in 1 .. 10 /\ Boot["meta"][i] = "listen"
        BY <2>2, <2>3, BootOrder
      <4> QED BY <4>1, ListenStep
    <3>2. s = "qe" => i = 8
      <4> SUFFICES ASSUME s = "qe" PROVE i = 8
        OBVIOUS
      <4>1. i \in 1 .. 10 /\ Boot["qe"][i] = "listen"
        BY <2>2, <2>3, BootOrder
      <4> QED BY <4>1, ListenStep
    <3> QED BY <3>1, <3>2
  <2>6. s = "cm" => i = 3
    BY <2>2, <2>3, ListenStep, BootOrder
  <2>7. s \in {"meta", "cm", "qe"}
    BY <2>4 DEF Services
  <2>8. i = Gate(use')
    BY <2>1, <2>5, <2>6, <2>7 DEF Gate
  <2>9. proc[s].n >= Gate(use')
    BY <1>0, <2>2, <2>8
  <2>10. GoodUse(use')
    BY <2>1, <2>7 DEF GoodUse, Activities
  <2> QED BY <1>2, <2>1, <2>9, <2>10
<1>6. CASE HttpBegins(s)
  <2>1. use' = [at |-> s, kind |-> "http"]
    BY <1>6 DEF HttpBegins
  <2>2. Gate(use') = 0 /\ GoodUse(use')
    BY <2>1 DEF Gate, GoodUse, Activities
  <2> QED BY <1>0, <1>2, <2>1, <2>2
<1> QED BY <1>3, <1>4, <1>5, <1>6 DEF Begins

(***************************************************************************)
(* The theorems.                                                           *)
(***************************************************************************)

LEMMA InitLife == ServicesInit => LifeInv
<1> SUFFICES ASSUME ServicesInit PROVE LifeInv
  OBVIOUS
<1>1. \A s \in Services : GoodProc(s, Down)
  BY BootLength DEF GoodProc, Down, Modes
<1>2. ProcInv
  BY <1>1 DEF ServicesInit, GoodProc, Down, ProcInv, ProcTypeOK, StoppingWasTold, AskersHaveMore
<1>3. GoodUse(use) /\ PastGate /\ starts \in 0 .. MaxStarts
  BY ServicesAssumption DEF ServicesInit, GoodUse, Activities, Idle, PastGate
<1> QED BY <1>2, <1>3 DEF LifeInv

LEMMA NextLife == LifeInv /\ [ServicesNext]_serviceVars => LifeInv'
<1> SUFFICES ASSUME LifeInv, [ServicesNext]_serviceVars PROVE LifeInv'
  OBVIOUS
<1>1. CASE Ends
  <2>1. ProcInv' /\ starts' \in 0 .. MaxStarts
    BY <1>1 DEF Ends, LifeInv, ProcInv, ProcTypeOK, StoppingWasTold, AskersHaveMore
  <2>2. GoodUse(use') /\ PastGate'
    BY <1>1 DEF Ends, GoodUse, Activities, Idle, PastGate
  <2> QED BY <2>1, <2>2 DEF LifeInv
<1>2. CASE UNCHANGED serviceVars
  BY <1>2 DEF serviceVars, LifeInv, ProcInv, ProcTypeOK, StoppingWasTold, AskersHaveMore,
              PastGate
<1>3. ASSUME NEW s \in Services,
             Launch(s) \/ BootStep(s) \/ StopStep(s) \/ Sigterm(s) \/ Crash(s) \/ Begins(s)
      PROVE  LifeInv'
  <2>1. CASE Crash(s)
    BY <2>1, ExitKeeps DEF Crash
  <2> QED BY <1>3, <2>1, LaunchKeeps, BootStepKeeps, StopStepKeeps, SigtermKeeps, BeginsKeeps
<1> QED BY <1>1, <1>2, <1>3 DEF ServicesNext

\* The inductive invariant holds in every reachable state.
LEMMA LifeIsInvariant == ServicesSpec => []LifeInv
<1> QED BY InitLife, NextLife, PTL DEF ServicesSpec

\* main starts users after their resources and its deferred calls stop them
\* before: a call, a worker or the sink has what it works with for as long as
\* it runs, whatever fails, crashes or is told to stop in between.
THEOREM UsersHaveResources == ServicesSpec => []ResourcesOutliveUsers
<1>1. LifeInv => ResourcesOutliveUsers
  BY GateIsAfterNeeds DEF LifeInv, ProcInv
<1> QED BY <1>1, LifeIsInvariant, PTL

\* An address that a responder hands out is one where calls are accepted, in
\* every state of start-up and shutdown.
THEOREM AdvertisedIsServed == ServicesSpec => []AdvertisedAccepts
<1>1. LifeInv => AdvertisedAccepts
  BY AdvertisedIsAccepted DEF LifeInv, ProcInv
<1> QED BY <1>1, LifeIsInvariant, PTL
=============================================================================
