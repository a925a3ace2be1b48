------------------------- MODULE PluginRoutingProofs -------------------------
(***************************************************************************)
(* Proofs about PluginRouting, for all sets of plugins, managers, built-in *)
(* adapters and calls, any number of failures of every kind and any number *)
(* of messages in flight.                                                  *)
(***************************************************************************)
EXTENDS PluginRouting, SequenceTheorems, TLAPS

Statuses == {"none", "validated", "active", "degraded"}
Rows     == [status: Statuses, failures: 0 .. FailureLimit, heartbeat: BOOLEAN]
Sweeps   == [step: {"list", "next", "record", "publish"}, todo: SUBSET Plugins,
             on: Plugins \cup {NoPlugin}, ok: BOOLEAN, out: Statuses]
Messages == [plugin: Plugins, status: Statuses]
CallRecs == [step: {"idle", "config", "execute"}, type: Types \cup {"none"},
             via: Plugins \cup {NoPlugin, Builtin}, config: {"none", "params", "dsn"},
             conn: {"present", "old", "closed"}]

(***************************************************************************)
(* The invariant, in three layers: the rows and their failures; who may be *)
(* routed; what the calls hold.                                            *)
(***************************************************************************)

RowsInv ==
  /\ serving \in [Plugins -> BOOLEAN]
  /\ plugin \in [Plugins -> Rows]
  /\ sweep \in [Managers -> Sweeps]
  /\ \A m \in Managers : sweep[m].step \in {"record", "publish"} => sweep[m].on \in Plugins
  /\ ThreeFailuresDegrade

\* An active plugin has passed a probe, and so has one whose route is announced.
ActiveWasHealthy == \A p \in Plugins : plugin[p].status = "active" => plugin[p].heartbeat

AnnouncedWasHealthy ==
  \A m \in Managers :
    sweep[m].step = "publish" /\ sweep[m].out = "active" => plugin[sweep[m].on].heartbeat

SentWasHealthy ==
  \A m \in Managers : \A i \in 1 .. Len(net[m]) :
    net[m][i].status = "active" => plugin[net[m][i].plugin].heartbeat

RouteInv ==
  /\ net \in [Managers -> Seq(Messages)]
  /\ route \in [Types -> Plugins \cup {NoPlugin}]
  /\ ActiveWasHealthy /\ AnnouncedWasHealthy /\ SentWasHealthy
  /\ RoutedWasHealthy

\* A call that has its adapter has the built-in one exactly for built-in types.
BuiltinsGoFirst ==
  \A c \in Calls : call[c].step # "idle" =>
    call[c].type \in Types /\ (call[c].via = Builtin <=> call[c].type \in Builtins)

CallInv ==
  /\ call \in [Calls -> CallRecs]
  /\ BuiltinsGoFirst /\ NoCallOutlivesRoute /\ EachItsOwnContract

RoutingInv == RowsInv /\ RouteInv /\ CallInv

(***************************************************************************)
(* Rows and sweeps.                                                        *)
(***************************************************************************)

\* One probe keeps a row in shape; a plugin is degraded after three failures
\* and only then, and active only after a good probe.
LEMMA JudgedRow ==
  ASSUME NEW row \in Rows, NEW healthy \in BOOLEAN,
         row.status = "degraded" <=> row.failures = FailureLimit,
         row.status = "active" => row.heartbeat
  PROVE  /\ Judged(row, healthy) \in Rows
         /\ Judged(row, healthy).status = "degraded" <=> Judged(row, healthy).failures = FailureLimit
         /\ Judged(row, healthy).status = "active" => Judged(row, healthy).heartbeat
         /\ row.heartbeat => Judged(row, healthy).heartbeat
<1> DEFINE n == IF healthy THEN 0 ELSE AtMost(row.failures + 1, FailureLimit)
           new == Judged(row, healthy)
<1>1. row.failures \in 0 .. 3 /\ row.status \in Statuses /\ row.heartbeat \in BOOLEAN
  BY DEF Rows, FailureLimit
<1>2. n \in 0 .. 3 /\ (healthy => n = 0) /\ (~healthy /\ n < 3 => row.failures # 3)
  BY <1>1 DEF AtMost, FailureLimit
<1>3. /\ new.failures = n
      /\ new.status = IF healthy THEN "active" ELSE IF n < 3 THEN row.status ELSE "degraded"
      /\ new.heartbeat = (row.heartbeat \/ healthy)
  BY DEF Judged, FailureLimit
<1>4. new \in Rows
  <2>1. new = [status |-> new.status, failures |-> new.failures, heartbeat |-> new.heartbeat]
    BY DEF Judged
  <2>2. new.status \in Statuses /\ new.failures \in 0 .. FailureLimit /\ new.heartbeat \in BOOLEAN
    BY <1>1, <1>2, <1>3 DEF Statuses, FailureLimit
  <2> HIDE DEF new
  <2> QED BY <2>1, <2>2 DEF Rows
<1> HIDE DEF new, n
<1>5. new.status = "degraded" <=> new.failures = 3
  BY <1>1, <1>2, <1>3 DEF FailureLimit
<1>6. (new.status = "active" => new.heartbeat) /\ (row.heartbeat => new.heartbeat)
  BY <1>1, <1>2, <1>3
<1> QED BY <1>4, <1>5, <1>6 DEF new, FailureLimit

\* What the messages, routes and calls need of a change to rows and sweeps.
LEMMA RestKept ==
  ASSUME RoutingInv, UNCHANGED <<net, route, closing, call>>, RowsInv',
         \A p \in Plugins : plugin[p].heartbeat => plugin'[p].heartbeat,
         ActiveWasHealthy', AnnouncedWasHealthy'
  PROVE  RoutingInv'
<1>1. CallInv'
  BY DEF RoutingInv, CallInv, BuiltinsGoFirst, NoCallOutlivesRoute, EachItsOwnContract
<1>2. SentWasHealthy'
  <2> SUFFICES ASSUME NEW m \in Managers, NEW i \in 1 .. Len(net[m]), net[m][i].status = "active"
               PROVE  plugin'[net[m][i].plugin].heartbeat
    BY DEF SentWasHealthy
  <2>1. net[m][i] \in Messages
    BY DEF RoutingInv, RouteInv
  <2>2. net[m][i].plugin \in Plugins
    BY <2>1 DEF Messages
  <2> QED BY <2>2 DEF RoutingInv, RouteInv, SentWasHealthy
<1>3. RoutedWasHealthy'
  <2> SUFFICES ASSUME NEW t \in Types, route[t] # NoPlugin
               PROVE  TypeOf[route[t]] = t /\ plugin'[route[t]].heartbeat
    BY DEF RoutedWasHealthy
  <2>1. route[t] \in Plugins
    BY DEF RoutingInv, RouteInv
  <2> QED BY <2>1 DEF RoutingInv, RouteInv, RoutedWasHealthy
<1> QED BY <1>1, <1>2, <1>3 DEF RoutingInv, RouteInv

\* A manager moves on without a change of the rows, and with nothing to announce.
LEMMA SweepKept ==
  ASSUME RoutingInv, NEW m \in Managers, NEW s \in Sweeps,
         s.step \in {"record", "publish"} => s.on \in Plugins,
         s.step # "publish",
         sweep' = [sweep EXCEPT ![m] = s], UNCHANGED <<serving, plugin, net, route, closing, call>>
  PROVE  RoutingInv'
<1>1. RowsInv'
  BY DEF RoutingInv, RowsInv, ThreeFailuresDegrade
<1>2. AnnouncedWasHealthy'
  BY DEF RoutingInv, RowsInv, RouteInv, AnnouncedWasHealthy
<1>3. ActiveWasHealthy' /\ \A p \in Plugins : plugin[p].heartbeat => plugin'[p].heartbeat
  BY DEF RoutingInv, RouteInv, ActiveWasHealthy
<1> QED BY <1>1, <1>2, <1>3, RestKept

LEMMA HealthChangesKeeps ==
  ASSUME RoutingInv, NEW p \in Plugins, HealthChanges(p) PROVE RoutingInv'
<1>1. UNCHANGED <<plugin, sweep, net, route, closing, call>>
  BY DEF HealthChanges
<1>2. serving' \in [Plugins -> BOOLEAN]
  BY DEF HealthChanges, RoutingInv, RowsInv
<1>3. RowsInv'
  BY <1>1, <1>2 DEF RoutingInv, RowsInv, ThreeFailuresDegrade
<1>4. ActiveWasHealthy' /\ AnnouncedWasHealthy'
  BY <1>1 DEF RoutingInv, RouteInv, ActiveWasHealthy, AnnouncedWasHealthy
<1> QED BY <1>1, <1>3, <1>4, RestKept

LEMMA RegisterKeeps ==
  ASSUME RoutingInv, NEW p \in Plugins, RegisterPlugin(p) PROVE RoutingInv'
<1>1. /\ plugin[p].status = "none" /\ plugin' = [plugin EXCEPT ![p].status = "validated"]
      /\ UNCHANGED <<serving, sweep, net, route, closing, call>>
  BY DEF RegisterPlugin
<1>2. \A q \in Plugins : /\ plugin[q] \in Rows
                         /\ plugin[q].status = "degraded" <=> plugin[q].failures = FailureLimit
  BY DEF RoutingInv, RowsInv, ThreeFailuresDegrade
<1>3. /\ plugin'[p].status = "validated" /\ plugin'[p].failures = plugin[p].failures
      /\ plugin'[p].heartbeat = plugin[p].heartbeat /\ plugin'[p] \in Rows
  BY <1>1, <1>2 DEF RoutingInv, RowsInv, Rows, Statuses
<1>4. \A q \in Plugins \ {p} : plugin'[q] = plugin[q]
  BY <1>1 DEF RoutingInv, RowsInv
<1>5. plugin' \in [Plugins -> Rows]
  BY <1>1, <1>3, <1>4 DEF RoutingInv, RowsInv
<1>6. ThreeFailuresDegrade'
  BY <1>1, <1>2, <1>3, <1>4 DEF ThreeFailuresDegrade
<1>7. \A q \in Plugins : plugin[q].heartbeat => plugin'[q].heartbeat
  BY <1>3, <1>4
<1>8. ActiveWasHealthy'
  BY <1>3, <1>4 DEF RoutingInv, RouteInv, ActiveWasHealthy
<1>9. AnnouncedWasHealthy'
  BY <1>1, <1>7 DEF RoutingInv, RowsInv, RouteInv, AnnouncedWasHealthy
<1>10. RowsInv'
  BY <1>1, <1>5, <1>6 DEF RoutingInv, RowsInv
<1> QED BY <1>1, <1>7, <1>8, <1>9, <1>10, RestKept

\* Steps of a manager that write nothing.
LEMMA LookingKeeps ==
  ASSUME RoutingInv, NEW m \in Managers,
         ListPlugins(m) \/ CycleEnds(m) \/ (\E p \in Plugins : Probe(m, p))
  PROVE  RoutingInv'
<1>1. sweep \in [Managers -> Sweeps] /\ sweep[m] \in Sweeps
  BY DEF RoutingInv, RowsInv
<1>2. CASE ListPlugins(m)
  <2>1. CASE UNCHANGED sweep
    <3>1. UNCHANGED <<serving, plugin, sweep, net, route, closing, call>>
      BY <1>2, <2>1 DEF ListPlugins
    <3>2. RowsInv' /\ ActiveWasHealthy' /\ AnnouncedWasHealthy'
      BY <3>1 DEF RoutingInv, RowsInv, RouteInv, ThreeFailuresDegrade, ActiveWasHealthy, AnnouncedWasHealthy
    <3> QED BY <3>1, <3>2, RestKept
  <2>2. CASE ~UNCHANGED sweep
    <3> DEFINE known == {p \in Plugins : plugin[p].status # "none"}
               s == [sweep[m] EXCEPT !.step = "next", !.todo = known]
    <3>1. sweep' = [sweep EXCEPT ![m] = s] /\ UNCHANGED <<serving, plugin, net, route, closing, call>>
      BY <1>1, <1>2, <2>2 DEF ListPlugins
    <3>2. s.step = "next" /\ s \in Sweeps
      <4> known \in SUBSET Plugins
        OBVIOUS
      <4> HIDE DEF known
      <4> QED BY <1>1 DEF Sweeps
    <3> HIDE DEF s
    <3> QED BY <3>1, <3>2, SweepKept
  <2> QED BY <2>1, <2>2
<1>3. CASE CycleEnds(m)
  <2>1. NoSweep \in Sweeps /\ NoSweep.step = "list"
    BY DEF NoSweep, Sweeps, Statuses
  <2> QED BY <1>3, <2>1, SweepKept DEF CycleEnds
<1>4. ASSUME NEW p \in Plugins, Probe(m, p)
      PROVE  RoutingInv'
  <2> DEFINE s == [sweep[m] EXCEPT !.step = "record", !.todo = @ \ {p}, !.on = p, !.ok = serving[p]]
  <2>1. sweep' = [sweep EXCEPT ![m] = s] /\ UNCHANGED <<serving, plugin, net, route, closing, call>>
    BY <1>1, <1>4 DEF Probe
  <2>2. s.step = "record" /\ s.on = p
    BY <1>1 DEF Sweeps
  <2>3. s \in Sweeps
    <3>1. serving[p] \in BOOLEAN
      BY DEF RoutingInv, RowsInv
    <3> QED BY <1>1, <3>1 DEF Sweeps
  <2> HIDE DEF s
  <2> QED BY <2>1, <2>2, <2>3, SweepKept
<1> QED BY <1>2, <1>3, <1>4

LEMMA RecordKeeps ==
  ASSUME RoutingInv, NEW m \in Managers, RecordPluginHealth(m) PROVE RoutingInv'
<1> DEFINE p == sweep[m].on
           new == Judged(plugin[p], sweep[m].ok)
<1>1. /\ sweep \in [Managers -> Sweeps] /\ sweep[m] \in Sweeps /\ plugin \in [Plugins -> Rows]
      /\ p \in Plugins /\ plugin[p] \in Rows /\ sweep[m].ok \in BOOLEAN
  BY DEF RoutingInv, RowsInv, RecordPluginHealth, Sweeps
<1>2. /\ new \in Rows
      /\ new.status = "degraded" <=> new.failures = FailureLimit
      /\ new.status = "active" => new.heartbeat
      /\ plugin[p].heartbeat => new.heartbeat
  <2>1. plugin[p].status = "degraded" <=> plugin[p].failures = FailureLimit
    BY <1>1 DEF RoutingInv, RowsInv, ThreeFailuresDegrade
  <2>2. plugin[p].status = "active" => plugin[p].heartbeat
    BY <1>1 DEF RoutingInv, RouteInv, ActiveWasHealthy
  <2> HIDE DEF p
  <2> QED BY <1>1, <2>1, <2>2, JudgedRow
<1>3. /\ UNCHANGED <<serving, net, route, closing, call>>
      /\ \/ /\ plugin' = [plugin EXCEPT ![p] = new]
            /\ \E st \in {"publish", "next"} :
                 sweep' = [sweep EXCEPT ![m].step = st, ![m].out = new.status]
         \/ /\ plugin' = plugin \/ plugin' = [plugin EXCEPT ![p] = new]
            /\ sweep' = [sweep EXCEPT ![m].step = "next"]
  BY DEF RecordPluginHealth
<1> HIDE DEF new
<1>4. \A q \in Plugins :
        /\ plugin'[q] \in Rows
        /\ plugin'[q].status = "degraded" <=> plugin'[q].failures = FailureLimit
        /\ plugin'[q].status = "active" => plugin'[q].heartbeat
        /\ plugin[q].heartbeat => plugin'[q].heartbeat
  <2> SUFFICES ASSUME NEW q \in Plugins
               PROVE  /\ plugin'[q] \in Rows
                      /\ plugin'[q].status = "degraded" <=> plugin'[q].failures = FailureLimit
                      /\ plugin'[q].status = "active" => plugin'[q].heartbeat
                      /\ plugin[q].heartbeat => plugin'[q].heartbeat
    OBVIOUS
  <2>1. plugin'[q] = plugin[q] \/ (q = p /\ plugin'[q] = new)
    <3> HIDE DEF p
    <3> QED BY <1>1, <1>3
  <2>2. /\ plugin[q] \in Rows
        /\ plugin[q].status = "degraded" <=> plugin[q].failures = FailureLimit
        /\ plugin[q].status = "active" => plugin[q].heartbeat
    BY DEF RoutingInv, RowsInv, RouteInv, ThreeFailuresDegrade, ActiveWasHealthy
  <2> HIDE DEF p
  <2> QED BY <1>2, <2>1, <2>2
<1>5. plugin' \in [Plugins -> Rows]
  <2>1. plugin' = [q \in Plugins |-> plugin'[q]]
    <3> HIDE DEF p
    <3> QED BY <1>1, <1>3
  <2> QED BY <1>4, <2>1
<1>6. \E s \in Sweeps : /\ sweep' = [sweep EXCEPT ![m] = s] /\ s.on = p
                        /\ s.step = "publish" => s.out = new.status /\ plugin'[p] = new
  <2>1. CASE \E st \in {"publish", "next"} : /\ plugin' = [plugin EXCEPT ![p] = new]
                                             /\ sweep' = [sweep EXCEPT ![m].step = st, ![m].out = new.status]
    <3>1. PICK st \in {"publish", "next"} : /\ plugin' = [plugin EXCEPT ![p] = new]
                                            /\ sweep' = [sweep EXCEPT ![m].step = st, ![m].out = new.status]
      BY <2>1
    <3> DEFINE s == [sweep[m] EXCEPT !.step = st, !.out = new.status]
    <3>2. s \in Sweeps /\ s.on = p /\ s.out = new.status
      <4>1. new.status \in Statuses
        BY <1>2 DEF Rows
      <4> QED BY <1>1, <4>1 DEF Sweeps
    <3>3. sweep' = [sweep EXCEPT ![m] = s]
      BY <1>1, <3>1
    <3>4. plugin'[p] = new
      <4> HIDE DEF p
      <4> QED BY <1>1, <3>1
    <3> HIDE DEF s, p
    <3> QED BY <3>2, <3>3, <3>4
  <2>2. CASE sweep' = [sweep EXCEPT ![m].step = "next"]
    <3> DEFINE s == [sweep[m] EXCEPT !.step = "next"]
    <3>1. s \in Sweeps /\ s.on = p /\ s.step = "next"
      BY <1>1 DEF Sweeps
    <3>2. sweep' = [sweep EXCEPT ![m] = s]
      BY <1>1, <2>2
    <3> HIDE DEF s, p
    <3> QED BY <3>1, <3>2
  <2> QED BY <1>3, <2>1, <2>2
<1>7. PICK s \in Sweeps : /\ sweep' = [sweep EXCEPT ![m] = s] /\ s.on = p
                          /\ s.step = "publish" => s.out = new.status /\ plugin'[p] = new
  BY <1>6
<1> HIDE DEF p
<1>8. RowsInv'
  <2>1. sweep' \in [Managers -> Sweeps]
    BY <1>1, <1>7
  <2>2. \A k \in Managers : sweep'[k].step \in {"record", "publish"} => sweep'[k].on \in Plugins
    BY <1>1, <1>7 DEF RoutingInv, RowsInv
  <2> QED BY <1>3, <1>4, <1>5, <2>1, <2>2 DEF RoutingInv, RowsInv, ThreeFailuresDegrade
<1>9. ActiveWasHealthy'
  BY <1>4 DEF ActiveWasHealthy
<1>10. AnnouncedWasHealthy'
  <2> SUFFICES ASSUME NEW k \in Managers, sweep'[k].step = "publish", sweep'[k].out = "active"
               PROVE  plugin'[sweep'[k].on].heartbeat
    BY DEF AnnouncedWasHealthy
  <2>1. CASE k = m
    <3>1. sweep'[k] = s
      BY <1>1, <1>7, <2>1
    <3> QED BY <1>2, <1>7, <3>1
  <2>2. CASE k # m
    <3>1. sweep'[k] = sweep[k]
      BY <1>1, <1>7, <2>2
    <3>2. sweep[k].on \in Plugins /\ plugin[sweep[k].on].heartbeat
      BY <3>1 DEF RoutingInv, RowsInv, RouteInv, AnnouncedWasHealthy
    <3> QED BY <1>4, <3>1, <3>2
  <2> QED BY <2>1, <2>2
<1> QED BY <1>3, <1>4, <1>8, <1>9, <1>10, RestKept

(***************************************************************************)
(* Messages and routes.                                                    *)
(***************************************************************************)

\* A message on its way: of a known plugin, which has passed a probe if it is
\* announced as active.
Sound(msg) == msg \in Messages /\ (msg.status = "active" => plugin[msg.plugin].heartbeat)

SoundNet == \A m \in Managers : net[m] \in Seq(Messages) /\ \A i \in 1 .. Len(net[m]) : Sound(net[m][i])

LEMMA NetIsSound ==
  /\ RouteInv => SoundNet
  /\ SoundNet => SentWasHealthy
<1>1. RouteInv => SoundNet
  <2> SUFFICES ASSUME RouteInv, NEW m \in Managers
               PROVE  net[m] \in Seq(Messages) /\ \A i \in 1 .. Len(net[m]) : Sound(net[m][i])
    BY DEF SoundNet
  <2>1. net[m] \in Seq(Messages)
    BY DEF RouteInv
  <2>2. \A i \in 1 .. Len(net[m]) : net[m][i] \in Messages
    BY <2>1
  <2> QED BY <2>1, <2>2 DEF RouteInv, SentWasHealthy, Sound
<1>2. SoundNet => SentWasHealthy
  BY DEF SoundNet, SentWasHealthy, Sound
<1> QED BY <1>1, <1>2

\* Messages that are gone or in other queues do no harm.
LEMMA TailIsSound ==
  ASSUME RouteInv, NEW m \in Managers, net[m] # <<>>, UNCHANGED plugin,
         net' = [net EXCEPT ![m] = Tail(@)]
  PROVE  net' \in [Managers -> Seq(Messages)] /\ SentWasHealthy'
<1>1. net[m] \in Seq(Messages) /\ \A i \in 1 .. Len(net[m]) : Sound(net[m][i])
  BY NetIsSound DEF SoundNet
<1>2. Tail(net[m]) \in Seq(Messages) /\ Len(Tail(net[m])) = Len(net[m]) - 1 /\ Len(net[m]) \in Nat
  BY <1>1
<1>3. \A i \in 1 .. Len(Tail(net[m])) : Sound(Tail(net[m])[i])
  <2> SUFFICES ASSUME NEW i \in 1 .. Len(Tail(net[m])) PROVE Sound(Tail(net[m])[i])
    OBVIOUS
  <2>1. Tail(net[m])[i] = net[m][i + 1] /\ i + 1 \in 1 .. Len(net[m])
    BY <1>1, <1>2
  <2> QED BY <1>1, <2>1
<1>4. net' \in [Managers -> Seq(Messages)]
  BY <1>2 DEF RouteInv
<1>5. \A k \in Managers : net'[k] = IF k = m THEN Tail(net[m]) ELSE net[k]
  BY DEF RouteInv
<1>6. SentWasHealthy'
  <2> SUFFICES ASSUME NEW k \in Managers, NEW i \in 1 .. Len(net'[k]), net'[k][i].status = "active"
               PROVE  plugin[net'[k][i].plugin].heartbeat
    BY DEF SentWasHealthy
  <2>1. CASE k = m
    BY <1>3, <1>5, <2>1 DEF Sound
  <2>2. CASE k # m
    BY <1>5, <2>2 DEF RouteInv, SentWasHealthy
  <2> QED BY <2>1, <2>2
<1> QED BY <1>4, <1>6

\* A route is announced with the status of a row that was written before.
LEMMA PublishKeeps ==
  ASSUME RoutingInv, NEW m \in Managers, PublishRoute(m) PROVE RoutingInv'
<1> DEFINE msg == [plugin |-> sweep[m].on, status |-> sweep[m].out]
           s == [sweep[m] EXCEPT !.step = "next"]
<1>1. /\ sweep \in [Managers -> Sweeps] /\ sweep[m] \in Sweeps /\ sweep[m].step = "publish"
      /\ UNCHANGED <<serving, plugin, route, closing, call>>
      /\ sweep' = [sweep EXCEPT ![m].step = "next"]
      /\ net' = net \/ net' = [net EXCEPT ![m] = Append(@, msg)]
  BY DEF RoutingInv, RowsInv, PublishRoute
<1>2. s \in Sweeps /\ s.step = "next" /\ sweep' = [sweep EXCEPT ![m] = s]
  BY <1>1 DEF Sweeps
<1>3. Sound(msg)
  <2>1. sweep[m].on \in Plugins /\ sweep[m].out \in Statuses
    BY <1>1 DEF RoutingInv, RowsInv, Sweeps
  <2>2. msg.status = "active" => plugin[msg.plugin].heartbeat
    BY <1>1 DEF RoutingInv, RouteInv, AnnouncedWasHealthy
  <2> QED BY <2>1, <2>2 DEF Sound, Messages
<1> HIDE DEF msg, s
<1>4. RowsInv'
  BY <1>1, <1>2 DEF RoutingInv, RowsInv, ThreeFailuresDegrade
<1>5. ActiveWasHealthy' /\ AnnouncedWasHealthy' /\ RoutedWasHealthy'
  BY <1>1, <1>2 DEF RoutingInv, RowsInv, RouteInv, ActiveWasHealthy, AnnouncedWasHealthy, RoutedWasHealthy
<1>6. CallInv'
  BY <1>1 DEF RoutingInv, CallInv, BuiltinsGoFirst, NoCallOutlivesRoute, EachItsOwnContract
<1>7. net' \in [Managers -> Seq(Messages)] /\ SentWasHealthy'
  <2>1. CASE net' = net
    BY <1>1, <2>1 DEF RoutingInv, RouteInv, SentWasHealthy
  <2>2. CASE net' = [net EXCEPT ![m] = Append(@, msg)]
    <3>1. net[m] \in Seq(Messages) /\ msg \in Messages
      BY <1>3 DEF RoutingInv, RouteInv, Sound
    <3>2. Append(net[m], msg) \in Seq(Messages)
      BY <3>1
    <3>3. net' \in [Managers -> Seq(Messages)]
      BY <2>2, <3>2 DEF RoutingInv, RouteInv
    <3>4. \A k \in Managers : net'[k] = IF k = m THEN Append(net[m], msg) ELSE net[k]
      BY <2>2 DEF RoutingInv, RouteInv
    <3>5. \A i \in 1 .. Len(Append(net[m], msg)) : Sound(Append(net[m], msg)[i])
      <4> SUFFICES ASSUME NEW i \in 1 .. Len(Append(net[m], msg)) PROVE Sound(Append(net[m], msg)[i])
        OBVIOUS
      <4>1. \A j \in 1 .. Len(net[m]) : Sound(net[m][j])
        BY NetIsSound DEF RoutingInv, SoundNet
      <4>2. /\ i \in 1 .. Len(net[m]) => Append(net[m], msg)[i] = net[m][i]
            /\ i \notin 1 .. Len(net[m]) => Append(net[m], msg)[i] = msg
        BY <3>1
      <4> QED BY <1>3, <4>1, <4>2
    <3>6. SentWasHealthy'
      <4> SUFFICES ASSUME NEW k \in Managers, NEW i \in 1 .. Len(net'[k]), net'[k][i].status = "active"
                   PROVE  plugin[net'[k][i].plugin].heartbeat
        BY <1>1 DEF SentWasHealthy
      <4>1. CASE k = m
        BY <3>4, <3>5, <4>1 DEF Sound
      <4>2. CASE k # m
        BY <3>4, <4>2 DEF RoutingInv, RouteInv, SentWasHealthy
      <4> QED BY <4>1, <4>2
    <3> QED BY <3>3, <3>6
  <2> QED BY <1>1, <2>1, <2>2
<1>8. route' \in [Types -> Plugins \cup {NoPlugin}]
  BY <1>1 DEF RoutingInv, RouteInv
<1> QED BY <1>4, <1>5, <1>6, <1>7, <1>8 DEF RoutingInv, RouteInv

LEMMA ManagerRestartsKeeps ==
  ASSUME RoutingInv, NEW m \in Managers, ManagerRestarts(m) PROVE RoutingInv'
<1>1. /\ UNCHANGED <<serving, plugin, route, closing, call>>
      /\ sweep' = [sweep EXCEPT ![m] = NoSweep]
      /\ net' = net \/ net' = [net EXCEPT ![m] = <<>>]
  BY DEF ManagerRestarts
<1>2. NoSweep \in Sweeps /\ NoSweep.step = "list"
  BY DEF NoSweep, Sweeps, Statuses
<1>3. RowsInv'
  BY <1>1, <1>2 DEF RoutingInv, RowsInv, ThreeFailuresDegrade
<1>4. ActiveWasHealthy' /\ AnnouncedWasHealthy' /\ RoutedWasHealthy'
  BY <1>1, <1>2 DEF RoutingInv, RowsInv, RouteInv, ActiveWasHealthy, AnnouncedWasHealthy, RoutedWasHealthy
<1>5. CallInv'
  BY <1>1 DEF RoutingInv, CallInv, BuiltinsGoFirst, NoCallOutlivesRoute, EachItsOwnContract
<1>6. net' \in [Managers -> Seq(Messages)]
  <2>1. <<>> \in Seq(Messages)
    OBVIOUS
  <2> QED BY <1>1, <2>1 DEF RoutingInv, RouteInv
<1>7. SentWasHealthy'
  <2> SUFFICES ASSUME NEW k \in Managers, NEW i \in 1 .. Len(net'[k]), net'[k][i].status = "active"
               PROVE  plugin[net'[k][i].plugin].heartbeat
    BY <1>1 DEF SentWasHealthy
  <2>1. net'[k] = net[k]
    <3>1. net'[k] = net[k] \/ net'[k] = <<>>
      BY <1>1 DEF RoutingInv, RouteInv
    <3> QED BY <3>1
  <2> QED BY <2>1 DEF RoutingInv, RouteInv, SentWasHealthy
<1>8. route' \in [Types -> Plugins \cup {NoPlugin}]
  BY <1>1 DEF RoutingInv, RouteInv
<1> QED BY <1>3, <1>4, <1>5, <1>6, <1>7, <1>8 DEF RoutingInv, RouteInv

\* A route changes, and the calls that used it are on the connection that will be
\* closed next.
LEMMA RouteExternalKeeps ==
  ASSUME RoutingInv, closing = {}, NEW p \in Plugins, NEW st \in Statuses, RouteExternal(p, st),
         st = "active" => plugin[p].heartbeat, UNCHANGED plugin
  PROVE  /\ route' \in [Types -> Plugins \cup {NoPlugin}]
         /\ RoutedWasHealthy' /\ CallInv'
<1> DEFINE t == TypeOf[p]
<1>0. t \in Types /\ route \in [Types -> Plugins \cup {NoPlugin}] /\ call \in [Calls -> CallRecs]
  BY DEF Types, RoutingInv, RouteInv, CallInv
<1>1. CASE UNCHANGED <<route, closing, call>>
  BY <1>0, <1>1 DEF RoutingInv, RouteInv, CallInv, BuiltinsGoFirst, NoCallOutlivesRoute,
                    EachItsOwnContract, RoutedWasHealthy
<1>2. ASSUME NEW q \in Plugins \cup {NoPlugin}, Replaced(t, q), WillClose(t),
             q # NoPlugin => TypeOf[q] = t /\ plugin[q].heartbeat
      PROVE  /\ route' \in [Types -> Plugins \cup {NoPlugin}]
             /\ RoutedWasHealthy' /\ CallInv'
  <2> HIDE DEF t
  <2>1. route' \in [Types -> Plugins \cup {NoPlugin}]
    BY <1>0, <1>2 DEF Replaced
  <2>2. RoutedWasHealthy'
    BY <1>0, <1>2 DEF Replaced, RoutingInv, RouteInv, RoutedWasHealthy
  <2>3. call' = [c \in Calls |-> call'[c]]
    BY <1>2 DEF Replaced
  <2>4. \A c \in Calls :
          /\ call'[c] \in CallRecs
          /\ call'[c].step = call[c].step /\ call'[c].type = call[c].type
          /\ call'[c].via = call[c].via /\ call'[c].config = call[c].config
          /\ call'[c].conn = IF call[c].type = t /\ call[c].via \in Plugins /\ call[c].conn = "present"
                            THEN "old" ELSE call[c].conn
    BY <1>0, <1>2 DEF Replaced, CallRecs
  <2>5. NoCallOutlivesRoute'
    <3> SUFFICES ASSUME NEW c \in Calls, call[c].via \in Plugins
                 PROVE  /\ call'[c].conn = "present" => route'[call[c].type] = call[c].via
                        /\ call'[c].conn = "old" => call[c].type \in closing'
      BY <2>4 DEF NoCallOutlivesRoute
    <3>1. /\ call[c].conn # "old"
          /\ call[c].conn = "present" => route[call[c].type] = call[c].via
      BY DEF RoutingInv, CallInv, NoCallOutlivesRoute
    <3>2. CASE call[c].type = t
      <4>1. call[c].conn = "present" => closing' = {t}
        BY <1>2, <3>1, <3>2, RouteAssumption DEF WillClose
      <4> QED BY <2>4, <3>1, <3>2, <4>1
    <3>3. CASE call[c].type # t
      <4> QED BY <1>0, <1>2, <2>4, <3>1, <3>3 DEF Replaced
    <3> QED BY <3>2, <3>3
  <2>6. BuiltinsGoFirst' /\ EachItsOwnContract'
    BY <2>4 DEF RoutingInv, CallInv, BuiltinsGoFirst, EachItsOwnContract
  <2>7. call' \in [Calls -> CallRecs]
    BY <2>3, <2>4
  <2> QED BY <2>1, <2>2, <2>5, <2>6, <2>7 DEF CallInv
<1>3. \/ UNCHANGED <<route, closing, call>>
      \/ Replaced(t, NoPlugin) /\ WillClose(t)
      \/ Replaced(t, p) /\ WillClose(t) /\ plugin[p].heartbeat
  BY DEF RouteExternal
<1> QED BY <1>1, <1>2, <1>3

\* Closing the old connection cuts off the calls that are on it.
LEMMA CloseOldKeeps == ASSUME RoutingInv, CloseOld PROVE RoutingInv'
<1>1. /\ UNCHANGED <<serving, plugin, sweep, net, route>>
      /\ call' = [c \in Calls |-> IF call[c].conn = "old"
                                 THEN [call[c] EXCEPT !.conn = "closed"] ELSE call[c]]
  BY DEF CloseOld
<1>2. RowsInv' /\ RouteInv'
  BY <1>1 DEF RoutingInv, RowsInv, RouteInv, ThreeFailuresDegrade, ActiveWasHealthy,
              AnnouncedWasHealthy, SentWasHealthy, RoutedWasHealthy
<1>3. \A c \in Calls :
        /\ call'[c] \in CallRecs
        /\ call'[c].step = call[c].step /\ call'[c].type = call[c].type
        /\ call'[c].via = call[c].via /\ call'[c].config = call[c].config
        /\ call'[c].conn = IF call[c].conn = "old" THEN "closed" ELSE call[c].conn
  BY <1>1 DEF RoutingInv, CallInv, CallRecs
<1>4. call' \in [Calls -> CallRecs]
  BY <1>1, <1>3
<1>5. NoCallOutlivesRoute'
  BY <1>1, <1>3 DEF RoutingInv, CallInv, NoCallOutlivesRoute
<1>6. BuiltinsGoFirst' /\ EachItsOwnContract'
  BY <1>3 DEF RoutingInv, CallInv, BuiltinsGoFirst, EachItsOwnContract
<1> QED BY <1>2, <1>4, <1>5, <1>6 DEF RoutingInv, CallInv

LEMMA DeliverKeeps ==
  ASSUME RoutingInv, NEW m \in Managers, Deliver(m) \/ Lose(m) PROVE RoutingInv'
<1>1. /\ net[m] # <<>> /\ net' = [net EXCEPT ![m] = Tail(@)]
      /\ UNCHANGED <<serving, plugin, sweep>>
  BY DEF Deliver, Lose
<1>2. net' \in [Managers -> Seq(Messages)] /\ SentWasHealthy'
  BY <1>1, TailIsSound DEF RoutingInv
<1>3. RowsInv' /\ ActiveWasHealthy' /\ AnnouncedWasHealthy'
  BY <1>1 DEF RoutingInv, RowsInv, RouteInv, ThreeFailuresDegrade, ActiveWasHealthy, AnnouncedWasHealthy
<1>4. /\ route' \in [Types -> Plugins \cup {NoPlugin}]
      /\ RoutedWasHealthy' /\ CallInv'
  <2>1. CASE Deliver(m)
    <3>1. net[m] \in Seq(Messages) /\ \A i \in 1 .. Len(net[m]) : Sound(net[m][i])
      BY NetIsSound DEF RoutingInv, SoundNet
    <3>2. 1 \in 1 .. Len(net[m]) /\ Head(net[m]) = net[m][1]
      BY <1>1, <3>1
    <3>3. Sound(Head(net[m]))
      BY <3>1, <3>2
    <3>4. closing = {} /\ RouteExternal(Head(net[m]).plugin, Head(net[m]).status)
      BY <2>1 DEF Deliver
    <3> QED BY <1>1, <3>3, <3>4, RouteExternalKeeps DEF Sound, Messages
  <2>2. CASE Lose(m)
    <3>1. UNCHANGED <<route, closing, call, plugin>>
      BY <2>2 DEF Lose
    <3> QED BY <3>1 DEF RoutingInv, RouteInv, CallInv, BuiltinsGoFirst, NoCallOutlivesRoute,
                        EachItsOwnContract, RoutedWasHealthy
  <2> QED BY <2>1, <2>2
<1> QED BY <1>2, <1>3, <1>4 DEF RoutingInv, RouteInv

LEMMA CMRestartsKeeps == ASSUME RoutingInv, CMRestarts PROVE RoutingInv'
<1>1. /\ UNCHANGED <<serving, plugin, sweep>>
      /\ route' = [t \in Types |-> NoPlugin]
      /\ call' = [c \in Calls |-> NoCall]
      /\ net' = [m \in Managers |-> <<>>]
  BY DEF CMRestarts
<1>2. RowsInv' /\ ActiveWasHealthy' /\ AnnouncedWasHealthy'
  BY <1>1 DEF RoutingInv, RowsInv, RouteInv, ThreeFailuresDegrade, ActiveWasHealthy, AnnouncedWasHealthy
<1>3. net' \in [Managers -> Seq(Messages)]
  <2>1. <<>> \in Seq(Messages)
    OBVIOUS
  <2> QED BY <1>1, <2>1
<1>4. SentWasHealthy'
  BY <1>1 DEF SentWasHealthy
<1>5. route' \in [Types -> Plugins \cup {NoPlugin}] /\ RoutedWasHealthy'
  BY <1>1 DEF RoutedWasHealthy
<1>6. NoCall \in CallRecs /\ NoCall.step = "idle" /\ NoCall.via = NoPlugin
  BY DEF NoCall, CallRecs
<1>7. CallInv'
  <2>1. call' \in [Calls -> CallRecs] /\ \A c \in Calls : call'[c] = NoCall
    BY <1>1, <1>6
  <2> QED BY <1>6, <2>1, RouteAssumption
          DEF CallInv, BuiltinsGoFirst, NoCallOutlivesRoute, EachItsOwnContract
<1> QED BY <1>2, <1>3, <1>4, <1>5, <1>7 DEF RoutingInv, RouteInv

(***************************************************************************)
(* Calls.                                                                  *)
(***************************************************************************)

\* A call as its contract allows it.
GoodCall(x) ==
  /\ x \in CallRecs
  /\ x.step # "idle" => x.type \in Types /\ (x.via = Builtin <=> x.type \in Builtins)
  /\ x.via \in Plugins /\ x.conn = "present" => route[x.type] = x.via
  /\ x.via \in Plugins /\ x.conn = "old" => x.type \in closing
  /\ x.step = "execute" /\ x.type \notin Shadowed => (x.config = "dsn" <=> x.via = Builtin)

LEMMA GoodCalls ==
  CallInv <=> call \in [Calls -> CallRecs] /\ \A c \in Calls : GoodCall(call[c])
  BY DEF CallInv, GoodCall, BuiltinsGoFirst, NoCallOutlivesRoute, EachItsOwnContract

\* A call changes and nothing else does.
LEMMA CallChanges ==
  ASSUME RoutingInv, NEW c \in Calls, NEW x, GoodCall(x), call' = [call EXCEPT ![c] = x], CallStays
  PROVE  RoutingInv'
<1>1. UNCHANGED <<serving, plugin, sweep, net, route, closing>>
  BY DEF CallStays
<1>2. RowsInv' /\ RouteInv'
  BY <1>1 DEF RoutingInv, RowsInv, RouteInv, ThreeFailuresDegrade, ActiveWasHealthy,
              AnnouncedWasHealthy, SentWasHealthy, RoutedWasHealthy
<1>3. call' \in [Calls -> CallRecs]
  BY DEF RoutingInv, CallInv, GoodCall
<1>4. \A k \in Calls : GoodCall(call'[k])
  BY GoodCalls DEF RoutingInv
<1>5. CallInv'
  BY <1>1, <1>3, <1>4 DEF GoodCall, CallInv, BuiltinsGoFirst, NoCallOutlivesRoute, EachItsOwnContract
<1> QED BY <1>2, <1>5 DEF RoutingInv

LEMMA NoCallIsGood == GoodCall(NoCall)
  BY RouteAssumption DEF GoodCall, NoCall, CallRecs

LEMMA GetKeeps ==
  ASSUME RoutingInv, NEW c \in Calls, NEW t \in Types, Get(c, t) PROVE RoutingInv'
<1> DEFINE via == IF t \in Builtins THEN Builtin ELSE route[t]
           x == [NoCall EXCEPT !.step = "config", !.type = t, !.via = via]
<1>1. call' = [call EXCEPT ![c] = x] /\ CallStays /\ (t \in Builtins \/ route[t] # NoPlugin)
  BY DEF Get
<1>2. route[t] \in Plugins \cup {NoPlugin}
  BY DEF RoutingInv, RouteInv
<1>3. via \in Plugins \cup {Builtin} /\ (via = Builtin <=> t \in Builtins)
      /\ (via \in Plugins => route[t] = via)
  BY <1>1, <1>2, RouteAssumption
<1>4. x.step = "config" /\ x.type = t /\ x.via = via /\ x.conn = "present"
  BY DEF NoCall
<1>5. x \in CallRecs
  BY <1>3 DEF NoCall, CallRecs
<1> HIDE DEF via, x
<1>6. GoodCall(x)
  BY <1>3, <1>4, <1>5 DEF GoodCall
<1> QED BY <1>1, <1>6, CallChanges

\* Whether the registry has the type as external may have changed since Get; for
\* a type that is not shadowed this does not change the contract.
LEMMA ConfigKeeps ==
  ASSUME RoutingInv, NEW c \in Calls, ConnectionConfig(c) PROVE RoutingInv'
<1> DEFINE t == call[c].type
<1>1. GoodCall(call[c]) /\ call \in [Calls -> CallRecs] /\ call[c].step = "config"
  BY GoodCalls DEF RoutingInv, ConnectionConfig
<1>2. t \in Types /\ (call[c].via = Builtin <=> t \in Builtins) /\ call[c] \in CallRecs
  BY <1>1 DEF GoodCall
<1>3. IsExternal(t) /\ t \in Builtins => t \in Shadowed
  <2>1. IsExternal(t) => route[t] \in Plugins /\ TypeOf[route[t]] = t
    BY <1>2 DEF IsExternal, RoutingInv, RouteInv, RoutedWasHealthy
  <2> QED BY <2>1 DEF Shadowed
<1>4. ASSUME NEW k \in {"params", "dsn"},
             call' = [call EXCEPT ![c].step = "execute", ![c].config = k], CallStays,
             t \notin Shadowed => (k = "dsn" <=> call[c].via = Builtin)
      PROVE  RoutingInv'
  <2> DEFINE x == [call[c] EXCEPT !.step = "execute", !.config = k]
  <2>1. call' = [call EXCEPT ![c] = x]
    BY <1>1, <1>4
  <2>2. x \in CallRecs /\ x.step = "execute" /\ x.config = k /\ x.type = t
        /\ x.via = call[c].via /\ x.conn = call[c].conn
    BY <1>2 DEF CallRecs
  <2> HIDE DEF x
  <2>3. GoodCall(x)
    BY <1>1, <1>2, <1>4, <2>2 DEF GoodCall
  <2> QED BY <1>4, <2>1, <2>3, CallChanges
<1>5. \/ IsExternal(t) /\ call' = [call EXCEPT ![c].step = "execute", ![c].config = "params"] /\ CallStays
      \/ t \in Builtins /\ call' = [call EXCEPT ![c].step = "execute", ![c].config = "dsn"] /\ CallStays
      \/ call' = [call EXCEPT ![c] = NoCall] /\ CallStays
  BY DEF ConnectionConfig, BuildsDSN
<1> HIDE DEF t
<1> QED BY <1>2, <1>3, <1>4, <1>5, NoCallIsGood, CallChanges

LEMMA ExecuteKeeps == ASSUME RoutingInv, NEW c \in Calls, ExecuteQuery(c) PROVE RoutingInv'
  BY NoCallIsGood, CallChanges DEF ExecuteQuery

(***************************************************************************)
(* The theorems.                                                           *)
(***************************************************************************)

LEMMA RoutingInitial == RoutingInit => RoutingInv
<1> SUFFICES ASSUME RoutingInit PROVE RoutingInv
  OBVIOUS
<1>1. NoRow \in Rows /\ NoRow.status = "none" /\ NoRow.failures = 0
  BY DEF NoRow, Rows, Statuses, FailureLimit
<1>2. NoSweep \in Sweeps /\ NoSweep.step = "list"
  BY DEF NoSweep, Sweeps, Statuses
<1>3. RowsInv
  BY <1>1, <1>2 DEF RoutingInit, RowsInv, ThreeFailuresDegrade, FailureLimit
<1>4. RouteInv
  <2>1. <<>> \in Seq(Messages)
    OBVIOUS
  <2>2. net \in [Managers -> Seq(Messages)] /\ SentWasHealthy
    BY <2>1 DEF RoutingInit, SentWasHealthy
  <2>3. ActiveWasHealthy /\ AnnouncedWasHealthy
    BY <1>1, <1>2 DEF RoutingInit, ActiveWasHealthy, AnnouncedWasHealthy
  <2>4. route \in [Types -> Plugins \cup {NoPlugin}] /\ RoutedWasHealthy
    BY DEF RoutingInit, RoutedWasHealthy
  <2> QED BY <2>2, <2>3, <2>4 DEF RouteInv
<1>5. CallInv
  <2>1. call \in [Calls -> CallRecs] /\ \A c \in Calls : GoodCall(call[c])
    BY NoCallIsGood DEF RoutingInit, GoodCall
  <2> QED BY <2>1, GoodCalls
<1> QED BY <1>3, <1>4, <1>5 DEF RoutingInv

LEMMA RoutingStep == RoutingInv /\ [RoutingNext]_routeVars => RoutingInv'
<1> SUFFICES ASSUME RoutingInv, [RoutingNext]_routeVars PROVE RoutingInv'
  OBVIOUS
<1>1. CASE UNCHANGED routeVars
  BY <1>1 DEF routeVars, RoutingInv, RowsInv, RouteInv, CallInv, ThreeFailuresDegrade, ActiveWasHealthy,
              AnnouncedWasHealthy, SentWasHealthy, RoutedWasHealthy, BuiltinsGoFirst,
              NoCallOutlivesRoute, EachItsOwnContract
<1>2. ASSUME NEW p \in Plugins, HealthChanges(p) \/ RegisterPlugin(p) PROVE RoutingInv'
  BY <1>2, HealthChangesKeeps, RegisterKeeps
<1>3. ASSUME NEW m \in Managers, ManagerStep(m) \/ ManagerRestarts(m) \/ Deliver(m) \/ Lose(m)
      PROVE  RoutingInv'
  BY <1>3, LookingKeeps, RecordKeeps, PublishKeeps, ManagerRestartsKeeps, DeliverKeeps DEF ManagerStep
<1>4. ASSUME NEW c \in Calls, CallStep(c) PROVE RoutingInv'
  BY <1>4, GetKeeps, ConfigKeeps, ExecuteKeeps DEF CallStep
<1> QED BY <1>1, <1>2, <1>3, <1>4, CloseOldKeeps, CMRestartsKeeps DEF RoutingNext

LEMMA RoutingIsInvariant == RoutingSpec => []RoutingInv
  BY RoutingInitial, RoutingStep, PTL DEF RoutingSpec

\* A plugin is degraded exactly after three failed probes in a row, whoever
\* probed it and whatever was lost or restarted in between (postgres.go:296-307).
THEOREM DegradedAfterThree == RoutingSpec => []ThreeFailuresDegrade
<1>1. RoutingInv => ThreeFailuresDegrade
  BY DEF RoutingInv, RowsInv
<1> QED BY <1>1, RoutingIsInvariant, PTL

\* Only a plugin that has passed a probe has a route, and only under its own
\* name, however late the message that announces it arrives (manager.go:66-77).
THEOREM RoutesAreProbed == RoutingSpec => []RoutedWasHealthy
<1>1. RoutingInv => RoutedWasHealthy
  BY DEF RoutingInv, RouteInv
<1> QED BY <1>1, RoutingIsInvariant, PTL

\* No call goes on over a connection whose route was replaced or removed, but for
\* the moment between the change and the Close (registry.go:40-71).
THEOREM CallsEndWithRoute == RoutingSpec => []NoCallOutlivesRoute
<1>1. RoutingInv => NoCallOutlivesRoute
  BY DEF RoutingInv, CallInv
<1> QED BY <1>1, RoutingIsInvariant, PTL

\* A call gets the configuration of its adapter, although the registry is asked
\* twice and may change in between (grpc.go:55-68, 131-140).
THEOREM ContractsAreKept == RoutingSpec => []EachItsOwnContract
<1>1. RoutingInv => EachItsOwnContract
  BY DEF RoutingInv, CallInv
<1> QED BY <1>1, RoutingIsInvariant, PTL
=============================================================================
