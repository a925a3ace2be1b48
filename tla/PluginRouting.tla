---------------------------- MODULE PluginRouting ----------------------------
(***************************************************************************)
(* External database adapters.  services/meta-service registers plugins,   *)
(* probes each of them in a recurring health cycle and publishes routes on *)
(* core NATS; services/connection-manager keeps the routes in its registry *)
(* and serves calls of built-in and external adapters through it.          *)
(*                                                                         *)
(* Plugins are those of type DB_ADAPTER: others are probed in the same way *)
(* and never published.  Core NATS keeps the order of one connection and   *)
(* delivers at most once.  Failures are counted against MaxFaults, so that *)
(* "after the failures stop" is what every behaviour comes to.             *)
(***************************************************************************)
EXTENDS Naturals, Sequences

CONSTANTS
  Plugins,      \* plugin_definitions that may be registered
  Managers,     \* replicas of meta-service, each with a lifecycle manager
  TypeOf,       \* TypeOf[p]: the name of p, which is its adapter type
  Builtins,     \* adapter types with a built-in adapter
  Calls,        \* concurrent ExecuteQuery calls of the connection manager
  RouteFaults,  \* the kinds of failure that may happen
  MaxFaults,    \* how many failures happen at most
  MaxInFlight,  \* route messages on their way from one manager
  NoPlugin, Builtin

(***************************************************************************)
(*  list     ListPluginsForHealth fails                                    *)
(*  save     the transaction of RecordPluginHealth fails                   *)
(*  reply    it commits but is reported as failed                          *)
(*  lose     a route message is lost, or its publish fails                 *)
(*  dial     grpc.NewClient fails in RouteExternal                         *)
(*  manager  meta-service dies and restarts                                *)
(*  cm       the connection manager dies and restarts                      *)
(***************************************************************************)
RouteFaultKinds == {"list", "save", "reply", "lose", "dial", "manager", "cm"}

ASSUME RouteAssumption ==
  /\ RouteFaults \subseteq RouteFaultKinds
  /\ MaxFaults \in Nat /\ MaxInFlight \in Nat \ {0}
  /\ NoPlugin \notin Plugins /\ Builtin \notin Plugins \cup {NoPlugin}

FailureLimit == 3
Types == Builtins \cup {TypeOf[p] : p \in Plugins}

VARIABLES
  serving,  \* serving[p]: the plugin's health service would answer SERVING
  plugin,   \* plugin[p]: the row in plugin_definitions
  sweep,    \* sweep[m]: where manager m stands in check
  net,      \* net[m]: route messages published by m, in order
  route,    \* route[t]: the plugin behind the client of adapter type t
  closing,  \* the type whose replaced connection is still to be closed, if any
  call,     \* call[c]: an ExecuteQuery call of the connection manager
  faults    \* how many failures happened

routeVars == <<serving, plugin, sweep, net, route, closing, call, faults>>

NoRow   == [status |-> "none", failures |-> 0, heartbeat |-> FALSE]
NoSweep == [step |-> "list", todo |-> {}, on |-> NoPlugin, ok |-> FALSE, out |-> "none"]
NoCall  == [step |-> "idle", type |-> "none", via |-> NoPlugin, config |-> "none",
            conn |-> "present"]

RoutingInit ==
  /\ serving = [p \in Plugins |-> FALSE]
  /\ plugin  = [p \in Plugins |-> NoRow]
  /\ sweep   = [m \in Managers |-> NoSweep]
  /\ net     = [m \in Managers |-> <<>>]
  /\ route   = [t \in Types |-> NoPlugin]
  /\ closing = {}
  /\ call    = [c \in Calls |-> NoCall]
  /\ faults  = 0

Fault(kind) ==
  /\ kind \in RouteFaults /\ faults < MaxFaults
  /\ faults' = faults + 1

(***************************************************************************)
(* The plugins and their registration.                                     *)
(***************************************************************************)
HealthChanges(p) ==
  /\ serving' = [serving EXCEPT ![p] = ~@]
  /\ UNCHANGED <<plugin, sweep, net, route, closing, call, faults>>

RegisterPlugin(p) ==
  /\ plugin[p].status = "none"
  /\ plugin' = [plugin EXCEPT ![p].status = "validated"]
  /\ UNCHANGED <<serving, sweep, net, route, closing, call, faults>>

(***************************************************************************)
(* Manager.check: list, then probe, record and publish one plugin at a     *)
(* time.  The order of the list is left open.                              *)
(***************************************************************************)
ListPlugins(m) ==
  /\ sweep[m].step = "list"
  /\ \/ /\ sweep' = [sweep EXCEPT ![m].step = "next",
                       ![m].todo = {p \in Plugins : plugin[p].status # "none"}]
        /\ UNCHANGED faults
     \/ Fault("list") /\ UNCHANGED sweep
  /\ UNCHANGED <<serving, plugin, net, route, closing, call>>

\* The end of a cycle: the manager waits for its ticker.
CycleEnds(m) ==
  /\ sweep[m].step = "next" /\ sweep[m].todo = {}
  /\ sweep' = [sweep EXCEPT ![m] = NoSweep]
  /\ UNCHANGED <<serving, plugin, net, route, closing, call, faults>>

Probe(m, p) ==
  /\ sweep[m].step = "next" /\ p \in sweep[m].todo
  /\ sweep' = [sweep EXCEPT ![m].step = "record", ![m].todo = @ \ {p},
                            ![m].on = p, ![m].ok = serving[p]]
  /\ UNCHANGED <<serving, plugin, net, route, closing, call, faults>>

AtMost(n, limit) == IF n > limit THEN limit ELSE n

\* Slip: a good probe does not forget the failures before it.
JudgedWithoutReset(row, healthy) ==
  LET n == IF healthy THEN row.failures ELSE AtMost(row.failures + 1, FailureLimit)
  IN  [status    |-> IF healthy THEN "active"
                     ELSE IF n < FailureLimit THEN row.status ELSE "degraded",
       failures  |-> n,
       heartbeat |-> row.heartbeat \/ healthy]

\* Slip: newStatus starts as "active" and is not set back to oldStatus.
JudgedActiveByDefault(row, healthy) ==
  LET n == IF healthy THEN 0 ELSE AtMost(row.failures + 1, FailureLimit)
  IN  [status    |-> IF n < FailureLimit THEN "active" ELSE "degraded",
       failures  |-> n,
       heartbeat |-> row.heartbeat \/ healthy]

\* The row after one probe.  Only the first FailureLimit failures in a row make
\* a difference; heartbeat says whether last_heartbeat_at is set.
Judged(row, healthy) ==
  LET n == IF healthy THEN 0 ELSE AtMost(row.failures + 1, FailureLimit)
  IN  [status    |-> IF healthy THEN "active"
                     ELSE IF n < FailureLimit THEN row.status ELSE "degraded",
       failures  |-> n,
       heartbeat |-> row.heartbeat \/ healthy]

\* Slip: only changes of the status are published.
PublishesChangesOnly(old, new) == new # old

\* changed || status == "active"
Publishes(old, new) == new # old \/ new = "active"

RecordPluginHealth(m) ==
  LET p   == sweep[m].on
      new == Judged(plugin[p], sweep[m].ok)
  IN  /\ sweep[m].step = "record"
      /\ \/ /\ plugin' = [plugin EXCEPT ![p] = new]
            /\ sweep'  = [sweep EXCEPT
                            ![m].step = IF Publishes(plugin[p].status, new.status)
                                        THEN "publish" ELSE "next",
                            ![m].out  = new.status]
            /\ UNCHANGED faults
         \/ /\ \/ Fault("save")  /\ UNCHANGED plugin
               \/ Fault("reply") /\ plugin' = [plugin EXCEPT ![p] = new]
            /\ sweep' = [sweep EXCEPT ![m].step = "next"]
      /\ UNCHANGED <<serving, net, route, closing, call>>

\* publishRoute.  An error of Publish is logged.
PublishRoute(m) ==
  /\ sweep[m].step = "publish"
  /\ \/ /\ Len(net[m]) < MaxInFlight
        /\ net' = [net EXCEPT ![m] = Append(@, [plugin |-> sweep[m].on, status |-> sweep[m].out])]
        /\ UNCHANGED faults
     \/ Fault("lose") /\ UNCHANGED net
  /\ sweep' = [sweep EXCEPT ![m].step = "next"]
  /\ UNCHANGED <<serving, plugin, route, closing, call>>

\* meta-service dies: the client's buffer may die with it.  Run starts over.
ManagerRestarts(m) ==
  /\ Fault("manager")
  /\ sweep' = [sweep EXCEPT ![m] = NoSweep]
  /\ net' \in {net, [net EXCEPT ![m] = <<>>]}
  /\ UNCHANGED <<serving, plugin, route, closing, call>>

(***************************************************************************)
(* The connection manager's subscription to events.plugin.route: one       *)
(* message at a time.  A route changes under the lock of the registry; the *)
(* connection that it replaces is closed once the lock is released, and    *)
(* the calls that use it go on until then.                                 *)
(***************************************************************************)
Replaced(t, p) ==
  /\ route' = [route EXCEPT ![t] = p]
  /\ call'  = [c \in Calls |->
                IF call[c].type = t /\ call[c].via \in Plugins /\ call[c].conn = "present"
                THEN [call[c] EXCEPT !.conn = "old"] ELSE call[c]]

WillClose(t) == closing' = {u \in {t} : route[u] # NoPlugin}

\* Slip: the old connection is overwritten and never closed.
RouteExternalLeaks(p, status) ==
  LET t == TypeOf[p]
  IN  \/ status # "active" /\ Replaced(t, NoPlugin) /\ WillClose(t) /\ UNCHANGED faults
      \/ status = "active" /\ Replaced(t, p) /\ UNCHANGED <<closing, faults>>
      \/ status = "active" /\ Fault("dial") /\ UNCHANGED <<route, call, closing>>

RouteExternal(p, status) ==
  LET t == TypeOf[p]
  IN  \/ status # "active" /\ Replaced(t, NoPlugin) /\ WillClose(t) /\ UNCHANGED faults
      \/ status = "active" /\ Replaced(t, p) /\ WillClose(t) /\ UNCHANGED faults
      \/ status = "active" /\ Fault("dial") /\ UNCHANGED <<route, call, closing>>

Deliver(m) ==
  /\ net[m] # <<>> /\ closing = {}
  /\ net' = [net EXCEPT ![m] = Tail(@)]
  /\ RouteExternal(Head(net[m]).plugin, Head(net[m]).status)
  /\ UNCHANGED <<serving, plugin, sweep>>

\* old.Close(): the calls that use the connection fail.
CloseOld ==
  /\ closing # {}
  /\ closing' = {}
  /\ call' = [c \in Calls |->
               IF call[c].conn = "old" THEN [call[c] EXCEPT !.conn = "closed"] ELSE call[c]]
  /\ UNCHANGED <<serving, plugin, sweep, net, route, faults>>

\* A message that was published does not arrive.
Lose(m) ==
  /\ net[m] # <<>>
  /\ Fault("lose")
  /\ net' = [net EXCEPT ![m] = Tail(@)]
  /\ UNCHANGED <<serving, plugin, sweep, route, closing, call>>

\* The registry, the calls and the messages of the old subscription are gone.
CMRestarts ==
  /\ Fault("cm")
  /\ route' = [t \in Types |-> NoPlugin] /\ closing' = {}
  /\ call'  = [c \in Calls |-> NoCall]
  /\ net'   = [m \in Managers |-> <<>>]
  /\ UNCHANGED <<serving, plugin, sweep>>

(***************************************************************************)
(* GRPCServer.ExecuteQuery: Get, connectionConfig, then Prepare and the    *)
(* call of the adapter.  Get and IsExternal lock the registry separately.  *)
(***************************************************************************)
CallStays == UNCHANGED <<serving, plugin, sweep, net, route, closing, faults>>

Get(c, t) ==
  /\ call[c].step = "idle"
  /\ t \in Builtins \/ route[t] # NoPlugin
  /\ call' = [call EXCEPT ![c] = [NoCall EXCEPT !.step = "config", !.type = t,
                !.via = IF t \in Builtins THEN Builtin ELSE route[t]]]
  /\ CallStays

IsExternal(t) == route[t] # NoPlugin

\* Slip: BuildDSN treats an unknown adapter type like postgres.
BuildsAnyDSN(t) == TRUE

\* BuildDSN knows the built-in types and refuses the others.
BuildsDSN(t) == t \in Builtins

ConnectionConfig(c) ==
  LET t == call[c].type
  IN  /\ call[c].step = "config"
      /\ \/ /\ IsExternal(t)
            /\ call' = [call EXCEPT ![c].step = "execute", ![c].config = "params"]
         \/ /\ ~IsExternal(t) /\ BuildsDSN(t)
            /\ call' = [call EXCEPT ![c].step = "execute", ![c].config = "dsn"]
         \/ /\ ~IsExternal(t) /\ ~BuildsDSN(t)
            /\ call' = [call EXCEPT ![c] = NoCall]
      /\ CallStays

\* The adapter answers, or the call fails: either way it is over.
ExecuteQuery(c) ==
  /\ call[c].step = "execute"
  /\ call' = [call EXCEPT ![c] = NoCall]
  /\ CallStays

(***************************************************************************)
(* The next-state relation.  The ticker of a manager keeps firing, NATS    *)
(* hands a message on; nothing is owed about plugins or failures.          *)
(***************************************************************************)
ManagerStep(m) ==
  \/ ListPlugins(m) \/ CycleEnds(m) \/ RecordPluginHealth(m) \/ PublishRoute(m)
  \/ \E p \in Plugins : Probe(m, p)

CallStep(c) == ConnectionConfig(c) \/ ExecuteQuery(c) \/ \E t \in Types : Get(c, t)

RoutingNext ==
  \/ \E p \in Plugins : HealthChanges(p) \/ RegisterPlugin(p)
  \/ \E m \in Managers : ManagerStep(m) \/ ManagerRestarts(m) \/ Deliver(m) \/ Lose(m)
  \/ CloseOld \/ CMRestarts
  \/ \E c \in Calls : CallStep(c)

RoutingSpec == RoutingInit /\ [][RoutingNext]_routeVars

RoutingFairSpec ==
  /\ RoutingSpec
  /\ WF_routeVars(CloseOld)
  /\ \A m \in Managers : WF_routeVars(ManagerStep(m)) /\ WF_routeVars(Deliver(m))

(***************************************************************************)
(* Properties.                                                             *)
(***************************************************************************)
\* A plugin is degraded exactly after three failed probes in a row
\* (README.md:318, postgres.go:296-307), whatever failed in between.
ThreeFailuresDegrade ==
  \A p \in Plugins : plugin[p].status = "degraded" <=> plugin[p].failures = FailureLimit

\* No plugin gets a route before it has passed a probe (ADR-001-n0.md:397-402:
\* validated, then active), and only under its own name.
RoutedWasHealthy ==
  \A t \in Types : route[t] # NoPlugin =>
    TypeOf[route[t]] = t /\ plugin[route[t]].heartbeat

\* Once a route is removed or replaced, no call keeps using the old connection
\* for longer than it takes to close it: the connection of a call to a plugin is
\* that of the present route, or the one that the subscription is about to close,
\* or closed (registry.go:40-71).  Every cycle replaces the connection, also when
\* the plugin stays the same.
NoCallOutlivesRoute ==
  \A c \in Calls : call[c].via \in Plugins =>
    /\ call[c].conn = "present" => route[call[c].type] = call[c].via
    /\ call[c].conn = "old"     => call[c].type \in closing

\* An external adapter never gets a DSN and a built-in one never gets plugin
\* parameters, although Get and IsExternal look at the registry at different
\* moments (grpc.go:55-68, 131-140); unless a plugin took the name of a built-in
\* adapter, which nothing in the code prevents.
Shadowed == Builtins \cap {TypeOf[p] : p \in Plugins}

EachItsOwnContract ==
  \A c \in Calls : call[c].step = "execute" /\ call[c].type \notin Shadowed =>
    (call[c].config = "dsn" <=> call[c].via = Builtin)

\* "degraded or disabled routes are removed immediately" (README.md:318).
DegradedIsWithdrawn ==
  \A p \in Plugins :
    (plugin[p].status = "degraded" /\ route[TypeOf[p]] = p) ~>
      (plugin[p].status # "degraded" \/ route[TypeOf[p]] # p)

\* "A restarted Connection Manager is repopulated by the recurring health
\* cycle" (README.md:318): once the failures are over, a plugin that stays
\* healthy keeps its route, provided its rivals for the name stay down.
HealthyIsRouted ==
  \A p \in Plugins :
    <>[](/\ serving[p] /\ plugin[p].status # "none"
         /\ \A q \in Plugins \ {p} : TypeOf[q] = TypeOf[p] => ~serving[q])
      => <>[](route[TypeOf[p]] = p)
=============================================================================
