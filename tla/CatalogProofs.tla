---------------------------- MODULE CatalogProofs ----------------------------
(***************************************************************************)
(* Theorems about Catalog and AdapterPools, for all sets of users,         *)
(* connections, plugins, requests and failures.                            *)
(***************************************************************************)
EXTENDS AdapterPools, SequenceTheorems, FiniteSetTheorems, TLAPS

(***************************************************************************)
(* What a request carries at each step.                                    *)
(***************************************************************************)
ConnSteps ==
  {"select snapshot", "select connection", "fetch schema", "save snapshot",
   "delete connection", "get connection"} \cup InManager

PluginSteps == {"insert plugin", "enable plugin"}

ReqType == [step: Steps, user: Users \cup {Nothing},
            target: Conns \cup Plugins \cup {Nothing}, version: 0 .. MaxVersion]

GoodReq(q) ==
  /\ q \in ReqType
  /\ q.step # "idle" => q.user \in Users
  /\ q.step \in ConnSteps => q.target \in Conns
  /\ q.step \in PluginSteps => q.target \in Plugins
  /\ q.step = "save snapshot" => q.version \in Versions

ReqInv == req \in [Requests -> ReqType] /\ \A r \in Requests : GoodReq(req[r])

PoolTypeOK == pool \subseteq Conns /\ opened \in [Conns -> Nat] /\ damaged \in BOOLEAN

TypeInv == RowsTypeOK /\ ReqInv /\ PoolTypeOK

LEMMA MaxVersionType == MaxVersion \in Nat \ {0}
  BY CatalogAssumption DEF CatalogAssumption

LEMMA ZeroInRange == 0 \in 0 .. MaxVersion
  BY MaxVersionType

LEMMA VersionsRange == Versions \subseteq 0 .. MaxVersion
  BY MaxVersionType DEF Versions

\* A request that ends, starts or moves on keeps the shape of the others.
LEMMA ReqChanges ==
  ASSUME ReqInv, NEW r \in Requests, NEW q, GoodReq(q), req' = [req EXCEPT ![r] = q]
  PROVE  ReqInv'
  BY DEF ReqInv, GoodReq

LEMMA IdleIsGood == GoodReq(Idle)
  BY CatalogAssumption DEF CatalogAssumption, GoodReq, ReqType, Idle, Steps, CatalogSteps, ConnSteps,
     PluginSteps, InManager

\* A step to a place that needs no more than the place before.
LEMMA GoesOnIsGood ==
  ASSUME ReqInv, NEW r \in Requests, NEW s \in Steps \ {"save snapshot"}, req[r].step # "idle",
         s \in ConnSteps => req[r].step \in ConnSteps,
         s \in PluginSteps => req[r].step \in PluginSteps,
         GoesOn(r, s)
  PROVE  ReqInv'
<1> DEFINE q == [req[r] EXCEPT !.step = s]
<1>1. req' = [req EXCEPT ![r] = q]
  BY DEF GoesOn, ReqInv, ReqType
<1>2. GoodReq(q)
  BY DEF ReqInv, GoodReq, ReqType
<1> QED
  BY <1>1, <1>2, ReqChanges

LEMMA EndIsGood ==
  ASSUME ReqInv, NEW r \in Requests, req' = [req EXCEPT ![r] = Idle]
  PROVE  ReqInv'
  BY IdleIsGood, ReqChanges

LEMMA StartIsGood ==
  ASSUME ReqInv, NEW r \in Requests, NEW u \in Users, NEW s \in Steps \ {"save snapshot"},
         NEW x \in Conns \cup Plugins \cup {Nothing}, Starts(r, s, u, x),
         s \in ConnSteps => x \in Conns, s \in PluginSteps => x \in Plugins
  PROVE  ReqInv'
<1> DEFINE q == [step |-> s, user |-> u, target |-> x, version |-> 0]
<1>1. req' = [req EXCEPT ![r] = q]
  BY DEF Starts
<1>2. 0 \in 0 .. MaxVersion
  BY ZeroInRange
<1>3. q \in ReqType
  BY <1>2 DEF ReqType
<1>4. GoodReq(q)
  BY <1>3 DEF GoodReq
<1> QED
  BY <1>1, <1>4, ReqChanges

(***************************************************************************)
(* Type correctness.                                                       *)
(***************************************************************************)
CatInv == RowsTypeOK /\ ReqInv

LEMMA CatStutter == CatInv /\ UNCHANGED catalogVars => CatInv'
  BY DEF CatInv, RowsTypeOK, ReqInv, catalogVars, store, accounts, connections, registered

LEMMA FailsIsTyped ==
  ASSUME CatInv, NEW r \in Requests, Fails(r), UNCHANGED schema
  PROVE  CatInv'
<1>1. ReqInv'
  BY EndIsGood DEF CatInv, Fails, Answers
<1>2. RowsTypeOK'
  BY DEF CatInv, RowsTypeOK, Fails, Answers, store, accounts, connections, registered
<1> QED
  BY <1>1, <1>2 DEF CatInv

LEMMA StartsIsTyped ==
  ASSUME CatInv, NEW r \in Requests, NEW u \in Users, NEW s \in Steps \ {"save snapshot"},
         NEW x \in Conns \cup Plugins \cup {Nothing}, Starts(r, s, u, x), UNCHANGED schema,
         s \in ConnSteps => x \in Conns, s \in PluginSteps => x \in Plugins
  PROVE  CatInv'
<1>1. ReqInv'
  BY StartIsGood DEF CatInv
<1>2. RowsTypeOK'
  BY DEF CatInv, RowsTypeOK, Starts, store, accounts, connections, registered
<1> QED
  BY <1>1, <1>2 DEF CatInv

\* A step of a request that changes no table.
LEMMA QuietIsTyped ==
  ASSUME CatInv, NEW r \in Requests, NEW s \in Steps \ {"save snapshot"}, req[r].step # "idle",
         s \in ConnSteps => req[r].step \in ConnSteps,
         s \in PluginSteps => req[r].step \in PluginSteps,
         GoesOn(r, s), UNCHANGED <<store, schema>>
  PROVE  CatInv'
<1>1. ReqInv'
  BY GoesOnIsGood DEF CatInv
<1>2. RowsTypeOK'
  BY DEF CatInv, RowsTypeOK, GoesOn, store, accounts, connections, registered
<1> QED
  BY <1>1, <1>2 DEF CatInv

LEMMA StepNames ==
  /\ CatalogSteps \subseteq Steps
  /\ InManager \subseteq Steps
  /\ InManager \subseteq ConnSteps
  /\ "idle" \notin InManager /\ "save snapshot" \notin InManager
  /\ ConnSteps \cap PluginSteps = {}
  /\ "idle" \in Steps \ (ConnSteps \cup PluginSteps)
  BY DEF Steps, CatalogSteps, InManager, ConnSteps, PluginSteps

\* An answer adds one fact of its kind.
LEMMA ToldIsTyped ==
  ASSUME told \in Facts
  PROVE  /\ \A u \in Users : /\ [told EXCEPT !.registered = @ \cup {u}] \in Facts
                             /\ [told EXCEPT !.tokens = @ \cup {u}] \in Facts
         /\ \A c \in Conns : [told EXCEPT !.deleted = @ \cup {c}] \in Facts
         /\ \A p \in Plugins : [told EXCEPT !.plugins = @ \cup {p}] \in Facts
         /\ \A t \in Users \X Conns \X Versions : [told EXCEPT !.schemas = @ \cup {t}] \in Facts
  BY DEF Facts

LEMMA AccountsAreTyped ==
  ASSUME CatInv, NEW r \in Requests, UNCHANGED schema,
         InsertUser(r) \/ InsertWorkspace(r) \/ SelectUser(r)
  PROVE  CatInv'
<1> USE DEF CatInv
<1>1. req[r].step # "idle" => req[r].user \in Users
  BY DEF ReqInv, GoodReq
<1>2. CASE Fails(r)
  BY <1>2, FailsIsTyped
<1>3. CASE InsertUser(r) /\ ~Fails(r)
  <2> USE <1>3 DEF InsertUser, At, StatementFails
  <2>1. RowsTypeOK'
    BY <1>1 DEF RowsTypeOK, GoesOn, ReplyLost, Answers, connections, registered
  <2>2. "insert workspace" \in Steps \ (ConnSteps \cup PluginSteps \cup {"save snapshot"})
    BY DEF Steps, CatalogSteps, ConnSteps, PluginSteps, InManager
  <2>3. ReqInv'
    BY <2>2, GoesOnIsGood, EndIsGood DEF ReplyLost, Answers
  <2> QED
    BY <2>1, <2>3
<1>4. CASE InsertWorkspace(r) /\ ~Fails(r)
  <2> USE <1>4 DEF InsertWorkspace, At, StatementFails
  <2>1. told' \in Facts
    BY <1>1, ToldIsTyped DEF ReplyLost, Answers, RowsTypeOK
  <2>2. RowsTypeOK'
    BY <1>1, <2>1 DEF RowsTypeOK, connections, registered
  <2>3. ReqInv'
    BY EndIsGood DEF ReplyLost, Answers
  <2> QED
    BY <2>2, <2>3
<1>5. CASE SelectUser(r) /\ ~Fails(r)
  <2> USE <1>5 DEF SelectUser, At, StatementFails
  <2>1. told' \in Facts
    BY <1>1, ToldIsTyped DEF Answers, RowsTypeOK
  <2>2. RowsTypeOK'
    BY <2>1 DEF RowsTypeOK, store, accounts, connections, registered
  <2>3. ReqInv'
    BY EndIsGood DEF Answers
  <2> QED
    BY <2>2, <2>3
<1> QED
  BY <1>2, <1>3, <1>4, <1>5
LEMMA ConnectionsAreTyped ==
  ASSUME CatInv, NEW r \in Requests, UNCHANGED schema,
         InsertConnection(r) \/ ReadBack(r) \/ DeleteConnection(r)
  PROVE  CatInv'
<1> USE DEF CatInv
<1>1. CASE Fails(r)
  BY <1>1, FailsIsTyped
<1>2. CASE ReadBack(r)
  BY <1>2, FailsIsTyped DEF ReadBack
<1>3. CASE InsertConnection(r) /\ ~Fails(r)
  <2> USE <1>3 DEF InsertConnection, At, StatementFails
  <2>1. req[r].user \in Users
    BY DEF ReqInv, GoodReq
  <2>2. PICK c \in Conns :
          /\ live' = live \cup {c}
          /\ owner' = [owner EXCEPT ![c] = req[r].user]
          /\ \/ /\ req' = [req EXCEPT ![r].step = "read back", ![r].target = c]
                /\ UNCHANGED told
             \/ ReplyLost(r)
          /\ UNCHANGED <<snaps, accounts, registered>>
    OBVIOUS
  <2>3. RowsTypeOK'
    BY <2>1, <2>2 DEF RowsTypeOK, ReplyLost, Answers, accounts, registered
  <2>4. CASE ReplyLost(r)
    BY <2>3, <2>4, EndIsGood DEF ReplyLost, Answers
  <2>5. CASE ~ReplyLost(r)
    <3> DEFINE q == [req[r] EXCEPT !.step = "read back", !.target = c]
    <3>1. "read back" \in Steps \ (ConnSteps \cup PluginSteps \cup {"save snapshot"})
      BY DEF Steps, CatalogSteps, ConnSteps, PluginSteps, InManager
    <3>2. req' = [req EXCEPT ![r] = q]
      BY <2>2, <2>5 DEF ReqInv, ReqType
    <3>3. GoodReq(q)
      BY <2>1, <3>1 DEF ReqInv, GoodReq, ReqType
    <3> QED
      BY <2>3, <3>2, <3>3, ReqChanges
  <2> QED
    BY <2>4, <2>5
<1>4. CASE DeleteConnection(r) /\ ~Fails(r)
  <2> DEFINE c == req[r].target
  <2>1. c \in Conns
    BY <1>4 DEF ReqInv, GoodReq, ConnSteps, DeleteConnection, At
  <2>2. /\ live' = live \ {c} /\ snaps' = [snaps EXCEPT ![c] = <<>>]
        /\ Answers(r, [told EXCEPT !.deleted = @ \cup {c}]) \/ ReplyLost(r)
        /\ UNCHANGED <<owner, accounts, registered>>
    BY <1>4 DEF DeleteConnection, StatementFails
  <2> HIDE DEF c
  <2>3. told' \in Facts
    BY <2>1, <2>2, ToldIsTyped DEF ReplyLost, Answers, RowsTypeOK
  <2>4. RowsTypeOK'
    <3>1. <<>> \in Seq(Versions)
      OBVIOUS
    <3>2. snaps' \in [Conns -> Seq(Versions)]
      BY <2>2, <3>1 DEF RowsTypeOK
    <3> QED
      BY <2>2, <2>3, <3>2 DEF RowsTypeOK, accounts, registered
  <2>5. ReqInv'
    BY <2>2, EndIsGood DEF ReplyLost, Answers
  <2> QED
    BY <2>4, <2>5
<1> QED
  BY <1>1, <1>2, <1>3, <1>4

LEMMA PluginsAreTyped ==
  ASSUME CatInv, NEW r \in Requests, UNCHANGED schema, InsertPlugin(r) \/ EnablePlugin(r)
  PROVE  CatInv'
<1> USE DEF CatInv
<1>1. CASE Fails(r)
  BY <1>1, FailsIsTyped
<1>2. CASE InsertPlugin(r) /\ ~Fails(r)
  <2> USE <1>2 DEF InsertPlugin, At, StatementFails
  <2>1. req[r].target \in Plugins
    BY DEF ReqInv, GoodReq, PluginSteps
  <2>2. RowsTypeOK'
    BY <2>1 DEF RowsTypeOK, GoesOn, ReplyLost, Answers, accounts, connections
  <2>3. "enable plugin" \in Steps \ (ConnSteps \cup {"save snapshot"}) /\ "insert plugin" \in PluginSteps
    BY DEF Steps, CatalogSteps, ConnSteps, PluginSteps, InManager
  <2>4. ReqInv'
    BY <2>3, GoesOnIsGood, EndIsGood DEF ReplyLost, Answers
  <2> QED
    BY <2>2, <2>4
<1>3. CASE EnablePlugin(r) /\ ~Fails(r)
  <2> USE <1>3 DEF EnablePlugin, At, StatementFails
  <2>1. req[r].target \in Plugins
    BY DEF ReqInv, GoodReq, PluginSteps
  <2>2. told' \in Facts
    BY <2>1, ToldIsTyped DEF ReplyLost, Answers, RowsTypeOK
  <2>3. RowsTypeOK'
    BY <2>1, <2>2 DEF RowsTypeOK, accounts, connections
  <2>4. ReqInv'
    BY EndIsGood DEF ReplyLost, Answers
  <2> QED
    BY <2>3, <2>4
<1> QED
  BY <1>1, <1>2, <1>3

LEMMA LatestIsVersion ==
  ASSUME RowsTypeOK, NEW c \in Conns, snaps[c] # <<>>
  PROVE  LatestOf(c) \in Versions
<1>1. snaps[c] \in Seq(Versions)
  BY DEF RowsTypeOK
<1>2. Len(snaps[c]) \in 1 .. Len(snaps[c])
  BY <1>1, EmptySeq, LenProperties
<1> QED
  BY <1>1, <1>2, ElementOfSeq DEF LatestOf

LEMMA SchemasAreTyped ==
  ASSUME CatInv, NEW r \in Requests, UNCHANGED schema,
         SelectSnapshot(r) \/ SelectConnection(r) \/ FetchSchema(r) \/ SaveSnapshot(r)
  PROVE  CatInv'
<1> USE DEF CatInv
<1>1. CASE Fails(r)
  BY <1>1, FailsIsTyped
<1>2. {"select connection", "fetch schema"} \subseteq Steps \ {"save snapshot"}
      /\ {"select snapshot", "select connection", "fetch schema", "save snapshot"} \subseteq ConnSteps
      /\ {"select connection", "fetch schema", "save snapshot"} \cap PluginSteps = {}
      /\ "save snapshot" \in Steps
  BY DEF Steps, CatalogSteps, ConnSteps, PluginSteps, InManager
<1>3. req[r].step \in {"select snapshot", "fetch schema", "save snapshot"}
      => req[r].user \in Users /\ req[r].target \in Conns
  BY <1>2 DEF ReqInv, GoodReq
<1>4. CASE SelectSnapshot(r) /\ ~Fails(r)
  <2> USE <1>4 DEF SelectSnapshot, At, StatementFails
  <2>1. CASE GoesOn(r, "select connection") /\ UNCHANGED store
    BY <1>2, <2>1, QuietIsTyped
  <2>2. CASE Answers(r, Showing(r, LatestOf(req[r].target))) /\ UNCHANGED store
                /\ snaps[req[r].target] # <<>>
    <3>1. LatestOf(req[r].target) \in Versions
      BY <1>3, <2>2, LatestIsVersion DEF RowsTypeOK
    <3>2. told' \in Facts
      BY <1>3, <2>2, <3>1, ToldIsTyped DEF Answers, Showing, RowsTypeOK
    <3>3. RowsTypeOK'
      BY <2>2, <3>2 DEF RowsTypeOK, store, accounts, connections, registered
    <3> QED
      BY <2>2, <3>3, EndIsGood DEF Answers
  <2> QED
    BY <2>1, <2>2
<1>5. CASE SelectConnection(r) /\ ~Fails(r)
  BY <1>2, <1>5, QuietIsTyped DEF SelectConnection, At, StatementFails
<1>6. CASE FetchSchema(r) /\ ~Fails(r)
  <2> USE <1>6 DEF FetchSchema, At
  <2> DEFINE q == [req[r] EXCEPT !.step = "save snapshot", !.version = schema[req[r].target]]
  <2>1. req' = [req EXCEPT ![r] = q]
    BY DEF ReqInv, ReqType
  <2>2. schema[req[r].target] \in Versions /\ Versions \subseteq 0 .. MaxVersion
    BY <1>3, VersionsRange DEF RowsTypeOK
  <2>3. GoodReq(q)
    BY <1>2, <1>3, <2>2 DEF ReqInv, GoodReq, ReqType
  <2>4. RowsTypeOK'
    BY DEF RowsTypeOK, store, accounts, connections, registered
  <2> QED
    BY <2>1, <2>3, <2>4, ReqChanges
<1>7. CASE SaveSnapshot(r) /\ ~Fails(r)
  <2> USE <1>7 DEF SaveSnapshot, At, StatementFails
  <2>1. req[r].version \in Versions
    BY DEF ReqInv, GoodReq
  <2>2. snaps' \in [Conns -> Seq(Versions)]
    <3>1. snaps[req[r].target] \in Seq(Versions)
      BY <1>3 DEF RowsTypeOK
    <3>2. Append(snaps[req[r].target], req[r].version) \in Seq(Versions)
      BY <2>1, <3>1, AppendProperties
    <3>3. snaps' = snaps \/ snaps' = [snaps EXCEPT ![req[r].target] = Append(@, req[r].version)]
      OBVIOUS
    <3> QED
      BY <3>2, <3>3 DEF RowsTypeOK
  <2>3. told' \in Facts
    BY <1>3, <2>1, ToldIsTyped DEF ReplyLost, Answers, Showing, RowsTypeOK
  <2>4. RowsTypeOK'
    BY <2>2, <2>3 DEF RowsTypeOK, accounts, registered
  <2>5. ReqInv'
    BY EndIsGood DEF ReplyLost, Answers
  <2> QED
    BY <2>4, <2>5
<1> QED
  BY <1>1, <1>4, <1>5, <1>6, <1>7

LEMMA CatalogIsTyped ==
  ASSUME CatInv, CatalogNext
  PROVE  CatInv'
<1>1. ASSUME NEW r \in Requests, Statement(r), UNCHANGED schema
      PROVE  CatInv'
  BY <1>1, AccountsAreTyped, ConnectionsAreTyped, SchemasAreTyped, PluginsAreTyped DEF Statement
<1>2. ASSUME NEW r \in Requests, NEW u \in Users, UNCHANGED schema,
             Register(r, u) \/ LogIn(r, u) \/ WithToken(r, u)
      PROVE  CatInv'
  <2>1. /\ {"insert user", "select user", "insert connection"} \subseteq Steps \ (ConnSteps \cup PluginSteps)
        /\ {"select snapshot", "delete connection"} \subseteq ConnSteps \cap Steps
        /\ "insert plugin" \in PluginSteps \cap Steps
        /\ ConnSteps \cap PluginSteps = {}
    BY DEF Steps, CatalogSteps, ConnSteps, PluginSteps, InManager
  <2>2. CASE Register(r, u)
    BY <1>2, <2>1, <2>2, StartsIsTyped DEF Register
  <2>3. CASE LogIn(r, u)
    BY <1>2, <2>1, <2>3, StartsIsTyped DEF LogIn
  <2>4. CASE Connect(r, u)
    BY <1>2, <2>1, <2>4, StartsIsTyped DEF Connect
  <2>5. CASE GetSchema(r, u)
    BY <1>2, <2>1, <2>5, StartsIsTyped DEF GetSchema, Given
  <2>6. CASE Delete(r, u)
    BY <1>2, <2>1, <2>6, StartsIsTyped DEF Delete, Given
  <2>7. CASE RegisterPlugin(r, u)
    BY <1>2, <2>1, <2>7, StartsIsTyped DEF RegisterPlugin
  <2> QED
    BY <1>2, <2>2, <2>3, <2>4, <2>5, <2>6, <2>7 DEF WithToken
<1>3. ASSUME NEW c \in Conns, SchemaChanges(c)
      PROVE  CatInv'
  <2> USE <1>3 DEF SchemaChanges
  <2>1. schema[c] \in Versions
    BY DEF CatInv, RowsTypeOK
  <2>2. schema[c] + 1 \in Versions
    BY <2>1, MaxVersionType DEF Versions
  <2>3. schema' \in [Conns -> Versions]
    BY <2>2 DEF CatInv, RowsTypeOK
  <2> QED
    BY <2>3 DEF CatInv, RowsTypeOK, ReqInv, store, accounts, connections, registered
<1> QED
  BY <1>1, <1>2, <1>3 DEF CatalogNext

LEMMA RestartIsTyped ==
  ASSUME TypeInv, ManagerRestarts, UNCHANGED schema
  PROVE  TypeInv'
<1> USE DEF TypeInv, ManagerRestarts
<1>1. PoolTypeOK'
  BY DEF PoolTypeOK
<1>2. RowsTypeOK'
  BY DEF RowsTypeOK, store, accounts, connections, registered
<1>3. ReqInv'
  BY IdleIsGood DEF ReqInv, GoodReq
<1> QED
  BY <1>1, <1>2, <1>3

LEMMA PoolsAreTyped ==
  ASSUME TypeInv, NEW r \in Requests, UNCHANGED schema,
         QueryStep(r) \/ \E u \in Users : QueryStarts(r, u)
  PROVE  TypeInv'
<1>1. /\ {"prepare", "dial", "write", "writing", "execute", "get connection"} \subseteq ConnSteps \cap Steps
      /\ {"prepare", "dial", "write", "writing", "execute", "get connection"}
           \cap (PluginSteps \cup {"idle", "save snapshot"}) = {}
  BY DEF Steps, CatalogSteps, ConnSteps, PluginSteps, InManager
<1>2. req[r].step \in ConnSteps => req[r].target \in Conns
  BY DEF TypeInv, ReqInv, GoodReq
<1>3. CatInv
  BY DEF TypeInv, CatInv
<1>4. CatInv'
  <2>1. CASE Fails(r)
    BY <1>3, <2>1, FailsIsTyped
  <2>2. CASE GetConnection(r)
    BY <1>1, <1>3, <2>1, <2>2, QuietIsTyped DEF GetConnection, At, StatementFails
  <2>3. CASE LookUp(r)
    <3>1. PICK s \in {"execute", "dial"} : GoesOn(r, s) /\ UNCHANGED store
      BY <2>3 DEF LookUp
    <3> QED
      BY <1>1, <1>3, <2>3, <3>1, QuietIsTyped DEF LookUp, At
  <2>4. CASE Dial(r)
    BY <1>1, <1>3, <2>1, <2>4, QuietIsTyped DEF Dial, At
  <2>5. CASE WriteBegins(r)
    BY <1>1, <1>3, <2>5, QuietIsTyped DEF WriteBegins, At
  <2>6. CASE WriteEnds(r)
    BY <1>1, <1>3, <2>6, QuietIsTyped DEF WriteEnds, At
  <2>7. CASE Execute(r)
    BY <2>1, <2>7 DEF Execute
  <2>8. CASE \E u \in Users : QueryStarts(r, u)
    BY <1>1, <1>3, <2>8, StartsIsTyped DEF QueryStarts, Given
  <2> QED
    BY <2>2, <2>3, <2>4, <2>5, <2>6, <2>7, <2>8 DEF QueryStep
<1>5. PoolTypeOK'
  <2>1. CASE UNCHANGED poolVars
    BY <2>1 DEF TypeInv, PoolTypeOK, poolVars
  <2>2. CASE Dial(r) /\ ~UNCHANGED poolVars
    <3>1. damaged' \in BOOLEAN /\ pool' \subseteq Conns
      BY <2>2 DEF Dial, TypeInv, PoolTypeOK
    <3>2. opened' = opened \/ opened' = [opened EXCEPT ![req[r].target] = @ + 1]
      BY <2>2 DEF Dial, poolVars
    <3>3. opened' \in [Conns -> Nat]
      <4>1. req[r].target \in Conns
        BY <1>1, <1>2, <2>2 DEF Dial, At, poolVars
      <4>2. opened \in [Conns -> Nat]
        BY DEF TypeInv, PoolTypeOK
      <4> QED
        BY <3>2, <4>1, <4>2
    <3> QED
      BY <3>1, <3>3 DEF PoolTypeOK
  <2>3. CASE WriteEnds(r)
    <3>1. damaged' \in BOOLEAN /\ opened' \in [Conns -> Nat]
      BY <2>3 DEF WriteEnds, TypeInv, PoolTypeOK
    <3>2. pool' \subseteq Conns
      BY <1>1, <1>2, <2>3 DEF WriteEnds, At, TypeInv, PoolTypeOK
    <3> QED
      BY <3>1, <3>2 DEF PoolTypeOK
  <2> QED
    BY <2>1, <2>2, <2>3 DEF QueryStep, QueryStarts, GetConnection, LookUp, WriteBegins, Execute
<1> QED
  BY <1>4, <1>5 DEF TypeInv, CatInv

LEMMA TypeStep ==
  ASSUME TypeInv, [Next]_vars
  PROVE  TypeInv'
<1>1. CASE UNCHANGED vars
  BY <1>1, CatStutter DEF vars, poolVars, TypeInv, CatInv, PoolTypeOK
<1>2. CASE CatalogNext /\ UNCHANGED poolVars
  BY <1>2, CatalogIsTyped DEF poolVars, TypeInv, CatInv, PoolTypeOK
<1>3. CASE Crash /\ UNCHANGED schema
  BY <1>3, RestartIsTyped DEF Crash
<1>4. CASE Race /\ UNCHANGED schema
  <2>1. CASE ManagerRestarts
    BY <1>4, <2>1, RestartIsTyped
  <2>2. CASE ~ManagerRestarts
    <3>1. CatInv'
      BY <1>4, <2>2, CatStutter DEF Race, TypeInv, CatInv, catalogVars
    <3>2. PoolTypeOK'
      <4>1. damaged' = TRUE /\ pool' = {} /\ opened' = [c \in Conns |-> 0]
        BY <1>4, <2>2 DEF Race
      <4> QED
        BY <4>1 DEF PoolTypeOK
    <3> QED
      BY <3>1, <3>2 DEF TypeInv, CatInv
  <2> QED
    BY <2>1, <2>2
<1> QED
  BY <1>1, <1>2, <1>3, <1>4, PoolsAreTyped DEF Next

LEMMA TypeInit ==
  ASSUME Init
  PROVE  TypeInv
<1> USE DEF Init, CatalogInit, PoolsInit
<1>1. ReqInv
  BY IdleIsGood DEF ReqInv, GoodReq
<1>2. 1 \in Versions
  BY MaxVersionType DEF Versions
<1>3. <<>> \in Seq(Versions)
  OBVIOUS
<1>4. told \in Facts
  BY DEF Facts
<1>5. RowsTypeOK
  BY <1>2, <1>3, <1>4 DEF RowsTypeOK
<1> QED
  BY <1>1, <1>5 DEF TypeInv, PoolTypeOK

LEMMA TypeInvariant == Spec => []TypeInv
<1>1. Init => TypeInv
  BY TypeInit
<1>2. TypeInv /\ [Next]_vars => TypeInv'
  BY TypeStep
<1> QED
  BY <1>1, <1>2, PTL DEF Spec

\* The rows of every table, the state of every request and the pools keep their
\* shape, through every order of statements, failures and restarts.
THEOREM CatalogTypes == Spec => []TypeOK
<1>1. TypeInv => TypeOK
  BY DEF TypeInv, TypeOK, ReqInv, ReqType, PoolTypeOK
<1> QED
  BY <1>1, TypeInvariant, PTL

(***************************************************************************)
(* What was told is true.  Each part of the invariant speaks of some       *)
(* tables, some answers and the requests in the middle of writing there.   *)
(***************************************************************************)
AccountsInv ==
  /\ told.registered \subseteq users \cap workspaces
  /\ \A r \in Requests : At(r, "insert workspace") => req[r].user \in users

PluginsInv ==
  /\ told.plugins \subseteq defined \cap enabled
  /\ \A r \in Requests : At(r, "enable plugin") => req[r].target \in defined

\* Identifiers are never used twice, so what is deleted stays deleted.
RowsInv ==
  /\ \A c \in live : owner[c] # Nothing
  /\ \A c \in told.deleted : c \notin live /\ owner[c] # Nothing
  /\ SnapshotsHaveConnection

SnapsInv == \A c \in Conns : \A i \in 1 .. Len(snaps[c]) : snaps[c][i] <= schema[c]

SavedRow(c, v) == \E i \in 1 .. Len(snaps[c]) : snaps[c][i] = v

ShownInv ==
  \A u \in Users, c \in Conns, v \in Versions :
    <<u, c, v>> \in told.schemas =>
      owner[c] = u /\ v <= schema[c] /\ (c \in live => SavedRow(c, v))

FetchInv ==
  \A r \in Requests :
    /\ req[r].step \in {"fetch schema", "save snapshot"} => owner[req[r].target] = req[r].user
    /\ At(r, "save snapshot") => req[r].version <= schema[req[r].target]

ConnsInv == RowsInv /\ SnapsInv /\ ShownInv /\ FetchInv

TruthInv == TypeInv /\ AccountsInv /\ PluginsInv /\ ConnsInv

AccountsKept ==
  /\ UNCHANGED accounts /\ told'.registered = told.registered
  /\ \A q \in Requests : req'[q] = req[q] \/ req'[q].step # "insert workspace"

PluginsKept ==
  /\ UNCHANGED registered /\ told'.plugins = told.plugins
  /\ \A q \in Requests : req'[q] = req[q] \/ req'[q].step # "enable plugin"

ConnsKept ==
  /\ UNCHANGED <<connections, schema>>
  /\ told'.deleted = told.deleted /\ told'.schemas = told.schemas
  /\ \A q \in Requests : req'[q] = req[q] \/ req'[q].step \notin {"fetch schema", "save snapshot"}

AllKept == AccountsKept /\ PluginsKept /\ ConnsKept

LEMMA KeptAccounts == AccountsInv /\ AccountsKept => AccountsInv'
  BY DEF AccountsInv, AccountsKept, accounts, At

LEMMA KeptPlugins == PluginsInv /\ PluginsKept => PluginsInv'
  BY DEF PluginsInv, PluginsKept, registered, At

LEMMA UnchangedShown == ShownInv /\ UNCHANGED <<live, owner, snaps, schema, told>> => ShownInv'
<1> SUFFICES ASSUME ShownInv, UNCHANGED <<live, owner, snaps, schema, told>>,
                    NEW u \in Users, NEW c \in Conns, NEW v \in Versions, <<u, c, v>> \in told.schemas
             PROVE  (owner[c] = u /\ v <= schema[c] /\ (c \in live => SavedRow(c, v)))'
  BY DEF ShownInv
<1>1. owner[c] = u /\ v <= schema[c] /\ (c \in live => SavedRow(c, v))
  BY DEF ShownInv
<1>2. SavedRow(c, v) => SavedRow(c, v)'
  BY DEF SavedRow
<1> QED
  BY <1>1, <1>2

LEMMA KeptConns == ConnsInv /\ ConnsKept => ConnsInv'
<1> SUFFICES ASSUME ConnsInv, ConnsKept PROVE ConnsInv'
  OBVIOUS
<1> USE DEF ConnsInv, ConnsKept, connections
<1>1. RowsInv'
  BY DEF RowsInv, SnapshotsHaveConnection
<1>2. SnapsInv'
  BY DEF SnapsInv
<1>3. ShownInv'
  <2> SUFFICES ASSUME NEW u \in Users, NEW c \in Conns, NEW v \in Versions,
                      <<u, c, v>> \in told'.schemas
               PROVE  (owner[c] = u /\ v <= schema[c] /\ (c \in live => SavedRow(c, v)))'
    BY DEF ShownInv
  <2>1. owner[c] = u /\ v <= schema[c] /\ (c \in live => SavedRow(c, v))
    BY DEF ShownInv
  <2>2. SavedRow(c, v) => SavedRow(c, v)'
    BY DEF SavedRow
  <2> QED
    BY <2>1, <2>2
<1>4. FetchInv'
  BY DEF FetchInv, At
<1> QED
  BY <1>1, <1>2, <1>3, <1>4

\* A request changes its own state only.
LEMMA OwnState ==
  ASSUME ReqInv, NEW r \in Requests, NEW x, req' = [req EXCEPT ![r] = x]
  PROVE  \A q \in Requests : req'[q] = req[q] \/ req'[q] = x
  BY DEF ReqInv

LEMMA GoesOnState ==
  ASSUME ReqInv, NEW r \in Requests, NEW s, GoesOn(r, s)
  PROVE  \A q \in Requests :
           \/ req'[q] = req[q]
           \/ /\ req'[q].step = s /\ req'[q].user = req[r].user
              /\ req'[q].target = req[r].target /\ req'[q].version = req[r].version
  BY DEF GoesOn, ReqInv, ReqType

LEMMA EndState ==
  ASSUME ReqInv, NEW r \in Requests, req' = [req EXCEPT ![r] = Idle]
  PROVE  \A q \in Requests : req'[q] = req[q] \/ req'[q].step = "idle"
  BY DEF ReqInv, Idle

Guarded == {"insert workspace", "enable plugin", "fetch schema", "save snapshot"}

LEMMA MovesKeep ==
  ASSUME ReqInv, UNCHANGED <<store, schema, told>>,
         \A q \in Requests : req'[q] = req[q] \/ req'[q].step \notin Guarded
  PROVE  AllKept
  BY DEF AllKept, AccountsKept, PluginsKept, ConnsKept, Guarded, store

LEMMA FailsKeeps ==
  ASSUME ReqInv, NEW r \in Requests, Fails(r), UNCHANGED schema
  PROVE  AllKept
<1>1. \A q \in Requests : req'[q] = req[q] \/ req'[q] = Idle
  BY OwnState DEF Fails, Answers
<1>2. Idle.step \notin Guarded
  BY DEF Idle, Guarded
<1> QED
  BY <1>1, <1>2, MovesKeep DEF Fails, Answers

LEMMA StartsKeeps ==
  ASSUME ReqInv, NEW r \in Requests, NEW s, s \notin Guarded, NEW u, NEW x, Starts(r, s, u, x),
         UNCHANGED schema
  PROVE  AllKept
<1> DEFINE y == [step |-> s, user |-> u, target |-> x, version |-> 0]
<1>1. \A q \in Requests : req'[q] = req[q] \/ req'[q] = y
  BY OwnState DEF Starts
<1>2. y.step \notin Guarded
  OBVIOUS
<1> QED
  BY <1>1, <1>2, MovesKeep DEF Starts

LEMMA GoesOnKeeps ==
  ASSUME ReqInv, NEW r \in Requests, NEW s, s \notin Guarded, GoesOn(r, s),
         UNCHANGED <<store, schema>>
  PROVE  AllKept
<1> DEFINE y == [req[r] EXCEPT !.step = s]
<1>1. req' = [req EXCEPT ![r] = y]
  BY DEF GoesOn, ReqInv, ReqType
<1>2. \A q \in Requests : req'[q] = req[q] \/ req'[q] = y
  BY <1>1, OwnState
<1>3. y.step = s
  BY DEF ReqInv, ReqType
<1> QED
  BY <1>2, <1>3, MovesKeep DEF GoesOn

(***************************************************************************)
(* The steps that write, each with the tables it leaves alone.             *)
(***************************************************************************)
LEMMA InsertUserStep ==
  ASSUME TruthInv, NEW r \in Requests, UNCHANGED schema, InsertUser(r), ~Fails(r)
  PROVE  AccountsInv' /\ PluginsKept /\ ConnsKept
<1>1. ReqInv /\ AccountsInv
  BY DEF TruthInv, TypeInv
<1>2. /\ users' = users \cup {req[r].user} /\ UNCHANGED <<workspaces, connections, registered, told>>
      /\ GoesOn(r, "insert workspace") \/ req' = [req EXCEPT ![r] = Idle]
  BY DEF InsertUser, StatementFails, GoesOn, ReplyLost, Answers
<1>3. \A q \in Requests : \/ req'[q] = req[q]
                          \/ req'[q].step = "insert workspace" /\ req'[q].user = req[r].user
                          \/ req'[q].step = "idle"
  BY <1>1, <1>2, GoesOnState, EndState
<1>4. AccountsInv'
  BY <1>1, <1>2, <1>3 DEF AccountsInv, At
<1>5. PluginsKept /\ ConnsKept
  BY <1>2, <1>3 DEF PluginsKept, ConnsKept
<1> QED
  BY <1>4, <1>5

LEMMA InsertWorkspaceStep ==
  ASSUME TruthInv, NEW r \in Requests, UNCHANGED schema, InsertWorkspace(r), ~Fails(r)
  PROVE  AccountsInv' /\ PluginsKept /\ ConnsKept
<1>1. ReqInv /\ AccountsInv /\ told \in Facts
  BY DEF TruthInv, TypeInv, RowsTypeOK
<1>2. /\ req[r].user \in users
      /\ workspaces' = workspaces \cup {req[r].user} /\ UNCHANGED <<users, connections, registered>>
      /\ told' \in {told, [told EXCEPT !.registered = @ \cup {req[r].user}]}
      /\ req' = [req EXCEPT ![r] = Idle]
  BY <1>1 DEF InsertWorkspace, StatementFails, ReplyLost, Answers, AccountsInv
<1>3. /\ told'.registered \subseteq told.registered \cup {req[r].user}
      /\ told'.plugins = told.plugins /\ told'.deleted = told.deleted /\ told'.schemas = told.schemas
  BY <1>1, <1>2 DEF Facts
<1>4. \A q \in Requests : req'[q] = req[q] \/ req'[q].step = "idle"
  BY <1>1, <1>2, EndState
<1>5. AccountsInv'
  <2>1. told'.registered \subseteq (users \cap workspaces)'
    BY <1>1, <1>2, <1>3 DEF AccountsInv
  <2>2. \A q \in Requests : At(q, "insert workspace") => req[q].user \in users
    BY <1>1 DEF AccountsInv
  <2>3. users' = users
    BY <1>2
  <2>4. \A q \in Requests : At(q, "insert workspace")' => req'[q].user \in users'
    BY <1>4, <2>2, <2>3 DEF At
  <2> QED
    BY <2>1, <2>4 DEF AccountsInv
<1>6. PluginsKept /\ ConnsKept
  BY <1>2, <1>3, <1>4 DEF PluginsKept, ConnsKept
<1> QED
  BY <1>5, <1>6

LEMMA SelectUserStep ==
  ASSUME TruthInv, NEW r \in Requests, UNCHANGED schema, SelectUser(r), ~Fails(r)
  PROVE  AllKept
<1>1. ReqInv /\ told \in Facts
  BY DEF TruthInv, TypeInv, RowsTypeOK
<1>2. /\ UNCHANGED store /\ req' = [req EXCEPT ![r] = Idle]
      /\ told' = [told EXCEPT !.tokens = @ \cup {req[r].user}]
  BY DEF SelectUser, StatementFails, Answers
<1>3. /\ told'.registered = told.registered /\ told'.plugins = told.plugins
      /\ told'.deleted = told.deleted /\ told'.schemas = told.schemas
  BY <1>1, <1>2 DEF Facts
<1>4. \A q \in Requests : req'[q] = req[q] \/ req'[q].step = "idle"
  BY <1>1, <1>2, EndState
<1> QED
  BY <1>2, <1>3, <1>4 DEF AllKept, AccountsKept, PluginsKept, ConnsKept, store

LEMMA InsertPluginStep ==
  ASSUME TruthInv, NEW r \in Requests, UNCHANGED schema, InsertPlugin(r), ~Fails(r)
  PROVE  AccountsKept /\ PluginsInv' /\ ConnsKept
<1>1. ReqInv /\ PluginsInv
  BY DEF TruthInv, TypeInv
<1>2. /\ defined' = defined \cup {req[r].target} /\ UNCHANGED <<enabled, accounts, connections, told>>
      /\ GoesOn(r, "enable plugin") \/ req' = [req EXCEPT ![r] = Idle]
  BY DEF InsertPlugin, StatementFails, GoesOn, ReplyLost, Answers
<1>3. \A q \in Requests : \/ req'[q] = req[q]
                          \/ req'[q].step = "enable plugin" /\ req'[q].target = req[r].target
                          \/ req'[q].step = "idle"
  BY <1>1, <1>2, GoesOnState, EndState
<1>4. PluginsInv'
  BY <1>1, <1>2, <1>3 DEF PluginsInv, At
<1>5. AccountsKept /\ ConnsKept
  BY <1>2, <1>3 DEF AccountsKept, ConnsKept
<1> QED
  BY <1>4, <1>5

LEMMA EnablePluginStep ==
  ASSUME TruthInv, NEW r \in Requests, UNCHANGED schema, EnablePlugin(r), ~Fails(r)
  PROVE  AccountsKept /\ PluginsInv' /\ ConnsKept
<1>1. ReqInv /\ PluginsInv /\ told \in Facts
  BY DEF TruthInv, TypeInv, RowsTypeOK
<1>2. /\ req[r].target \in defined
      /\ enabled' = enabled \cup {req[r].target} /\ UNCHANGED <<defined, accounts, connections>>
      /\ told' \in {told, [told EXCEPT !.plugins = @ \cup {req[r].target}]}
      /\ req' = [req EXCEPT ![r] = Idle]
  BY <1>1 DEF EnablePlugin, StatementFails, ReplyLost, Answers, PluginsInv
<1>3. /\ told'.plugins \subseteq told.plugins \cup {req[r].target}
      /\ told'.registered = told.registered /\ told'.deleted = told.deleted
      /\ told'.schemas = told.schemas
  BY <1>1, <1>2 DEF Facts
<1>4. \A q \in Requests : req'[q] = req[q] \/ req'[q].step = "idle"
  BY <1>1, <1>2, EndState
<1>5. PluginsInv'
  <2>1. told'.plugins \subseteq (defined \cap enabled)'
    BY <1>1, <1>2, <1>3 DEF PluginsInv
  <2>2. \A q \in Requests : At(q, "enable plugin") => req[q].target \in defined
    BY <1>1 DEF PluginsInv
  <2>3. defined' = defined
    BY <1>2
  <2>4. \A q \in Requests : At(q, "enable plugin")' => req'[q].target \in defined'
    BY <1>4, <2>2, <2>3 DEF At
  <2> QED
    BY <2>1, <2>4 DEF PluginsInv
<1>6. AccountsKept /\ ConnsKept
  BY <1>2, <1>3, <1>4 DEF AccountsKept, ConnsKept
<1> QED
  BY <1>5, <1>6

LEMMA InsertConnectionStep ==
  ASSUME TruthInv, NEW r \in Requests, UNCHANGED schema, InsertConnection(r), ~Fails(r)
  PROVE  AccountsKept /\ PluginsKept /\ ConnsInv'
<1>1. ReqInv /\ ConnsInv /\ req[r].user \in Users
  BY DEF TruthInv, TypeInv, ReqInv, GoodReq, InsertConnection, At
<1>2. PICK c \in Conns :
        /\ owner[c] = Nothing /\ live' = live \cup {c}
        /\ owner' = [owner EXCEPT ![c] = req[r].user]
        /\ \/ req' = [req EXCEPT ![r].step = "read back", ![r].target = c]
           \/ req' = [req EXCEPT ![r] = Idle]
        /\ UNCHANGED <<snaps, accounts, registered, told>>
  BY DEF InsertConnection, StatementFails, ReplyLost, Answers
<1>3. \A q \in Requests : req'[q] = req[q] \/ req'[q].step \in {"read back", "idle"}
  <2>1. CASE req' = [req EXCEPT ![r].step = "read back", ![r].target = c]
    BY <1>1, <2>1 DEF ReqInv, ReqType
  <2>2. CASE req' = [req EXCEPT ![r] = Idle]
    BY <1>1, <2>2, EndState
  <2> QED
    BY <1>2, <2>1, <2>2
<1>4. /\ owner \in [Conns -> Users \cup {Nothing}] /\ Nothing \notin Users /\ live \subseteq Conns
      /\ told \in Facts
  BY CatalogAssumption DEF CatalogAssumption, TruthInv, TypeInv, RowsTypeOK
<1>5. c \notin live /\ snaps[c] = <<>> /\ \A d \in Conns : owner[d] # Nothing => d # c /\ owner'[d] = owner[d]
  BY <1>1, <1>2, <1>4 DEF ConnsInv, RowsInv, SnapshotsHaveConnection
<1>6. owner'[c] # Nothing /\ \A d \in Conns : d # c => owner'[d] = owner[d]
  BY <1>1, <1>2, <1>4
<1>7. RowsInv'
  BY <1>1, <1>2, <1>4, <1>5, <1>6 DEF ConnsInv, RowsInv, SnapshotsHaveConnection, Facts
<1>8. SnapsInv'
  BY <1>1, <1>2 DEF ConnsInv, SnapsInv
<1>9. ShownInv'
  <2> SUFFICES ASSUME NEW u \in Users, NEW d \in Conns, NEW v \in Versions,
                      <<u, d, v>> \in told.schemas
               PROVE  (owner[d] = u /\ v <= schema[d] /\ (d \in live => SavedRow(d, v)))'
    BY <1>2 DEF ShownInv
  <2>1. owner[d] = u /\ v <= schema[d] /\ (d \in live => SavedRow(d, v))
    BY <1>1 DEF ConnsInv, ShownInv
  <2>2. d # c /\ owner'[d] = owner[d]
    BY <1>4, <1>5, <2>1
  <2>3. SavedRow(d, v) => SavedRow(d, v)'
    BY <1>2 DEF SavedRow
  <2> QED
    BY <1>2, <2>1, <2>2, <2>3
<1>10. FetchInv'
  <2> SUFFICES ASSUME NEW q \in Requests, req'[q].step \in {"fetch schema", "save snapshot"}
               PROVE  (owner[req[q].target] = req[q].user
                       /\ (At(q, "save snapshot") => req[q].version <= schema[req[q].target]))'
    BY DEF FetchInv, At
  <2>1. req'[q] = req[q]
    BY <1>3
  <2>2. /\ owner[req[q].target] = req[q].user /\ req[q].user # Nothing /\ req[q].target \in Conns
        /\ (At(q, "save snapshot") => req[q].version <= schema[req[q].target])
    <3>1. req[q].user \in Users /\ req[q].target \in Conns
      BY <1>1, <2>1 DEF ReqInv, GoodReq, ConnSteps
    <3> QED
      BY <1>1, <1>4, <2>1, <3>1 DEF ConnsInv, FetchInv
  <2> QED
    BY <1>5, <2>1, <2>2 DEF At
<1>11. AccountsKept /\ PluginsKept
  BY <1>2, <1>3 DEF AccountsKept, PluginsKept
<1> QED
  BY <1>7, <1>8, <1>9, <1>10, <1>11 DEF ConnsInv

LEMMA DeleteConnectionStep ==
  ASSUME TruthInv, NEW r \in Requests, UNCHANGED schema, DeleteConnection(r), ~Fails(r)
  PROVE  AccountsKept /\ PluginsKept /\ ConnsInv'
<1> DEFINE c == req[r].target
<1>1. ReqInv /\ ConnsInv /\ told \in Facts /\ c \in Conns /\ snaps \in [Conns -> Seq(Versions)]
  BY DEF TruthInv, TypeInv, RowsTypeOK, ReqInv, GoodReq, ConnSteps, DeleteConnection, At
<1>2. /\ c \in live /\ live' = live \ {c} /\ snaps' = [snaps EXCEPT ![c] = <<>>]
      /\ req' = [req EXCEPT ![r] = Idle]
      /\ told' \in {told, [told EXCEPT !.deleted = @ \cup {c}]}
      /\ UNCHANGED <<owner, accounts, registered>>
  BY DEF DeleteConnection, StatementFails, ReplyLost, Answers, Visible
<1> HIDE DEF c
<1>3. /\ told'.deleted \subseteq told.deleted \cup {c} /\ told'.schemas = told.schemas
      /\ told'.registered = told.registered /\ told'.plugins = told.plugins
  BY <1>1, <1>2 DEF Facts
<1>4. \A q \in Requests : req'[q] = req[q] \/ req'[q].step = "idle"
  BY <1>1, <1>2, EndState
<1>5. snaps'[c] = <<>> /\ \A d \in Conns : d # c => snaps'[d] = snaps[d]
  BY <1>1, <1>2
<1>6. RowsInv'
  <2>1. \A d \in live' : owner'[d] # Nothing
    BY <1>1, <1>2 DEF ConnsInv, RowsInv
  <2>2. \A d \in told'.deleted : d \notin live' /\ owner'[d] # Nothing
    BY <1>1, <1>2, <1>3 DEF ConnsInv, RowsInv
  <2>3. \A d \in Conns : snaps'[d] # <<>> => d \in live'
    BY <1>1, <1>2, <1>5 DEF ConnsInv, RowsInv, SnapshotsHaveConnection
  <2> QED
    BY <2>1, <2>2, <2>3 DEF RowsInv, SnapshotsHaveConnection
<1>7. SnapsInv'
  <2> SUFFICES ASSUME NEW d \in Conns, NEW i \in 1 .. Len(snaps'[d])
               PROVE  snaps'[d][i] <= schema[d]
    BY DEF SnapsInv
  <2>1. d # c
    BY <1>5
  <2> QED
    BY <1>1, <1>5, <2>1 DEF ConnsInv, SnapsInv
<1>8. ShownInv'
  <2> SUFFICES ASSUME NEW u \in Users, NEW d \in Conns, NEW v \in Versions,
                      <<u, d, v>> \in told.schemas
               PROVE  (owner[d] = u /\ v <= schema[d] /\ (d \in live => SavedRow(d, v)))'
    BY <1>3 DEF ShownInv
  <2>1. owner[d] = u /\ v <= schema[d] /\ (d \in live => SavedRow(d, v))
    BY <1>1 DEF ConnsInv, ShownInv
  <2>2. d # c /\ SavedRow(d, v) => SavedRow(d, v)'
    BY <1>5 DEF SavedRow
  <2> QED
    BY <1>2, <2>1, <2>2
<1>9. FetchInv'
  BY <1>1, <1>2, <1>4 DEF ConnsInv, FetchInv, At
<1>10. AccountsKept /\ PluginsKept
  BY <1>2, <1>3, <1>4 DEF AccountsKept, PluginsKept
<1> QED
  BY <1>6, <1>7, <1>8, <1>9, <1>10 DEF ConnsInv

LEMMA SelectConnectionStep ==
  ASSUME TruthInv, NEW r \in Requests, UNCHANGED schema, SelectConnection(r), ~Fails(r)
  PROVE  AccountsKept /\ PluginsKept /\ ConnsInv'
<1>1. ReqInv /\ ConnsInv
  BY DEF TruthInv, TypeInv
<1>2. /\ owner[req[r].target] = req[r].user /\ UNCHANGED <<store, told>>
      /\ GoesOn(r, "fetch schema")
  BY DEF SelectConnection, StatementFails, Visible, GoesOn
<1>3. \A q \in Requests :
        \/ req'[q] = req[q]
        \/ req'[q].step = "fetch schema" /\ req'[q].user = req[r].user /\ req'[q].target = req[r].target
  BY <1>1, <1>2, GoesOnState
<1>4. RowsInv' /\ SnapsInv'
  BY <1>1, <1>2 DEF ConnsInv, RowsInv, SnapsInv, SnapshotsHaveConnection, store, connections
<1>5. ShownInv'
  <2>1. UNCHANGED <<live, owner, snaps, schema, told>>
    BY <1>2 DEF store, connections
  <2> QED
    BY <1>1, <2>1, UnchangedShown DEF ConnsInv
<1>6. FetchInv'
  <2>1. owner' = owner
    BY <1>2 DEF store, connections
  <2> QED
    BY <1>1, <1>2, <1>3, <2>1 DEF ConnsInv, FetchInv, At
<1>7. AccountsKept /\ PluginsKept
  BY <1>2, <1>3 DEF AccountsKept, PluginsKept, store
<1> QED
  BY <1>4, <1>5, <1>6, <1>7 DEF ConnsInv

LEMMA FetchSchemaStep ==
  ASSUME TruthInv, NEW r \in Requests, UNCHANGED schema, FetchSchema(r), ~Fails(r)
  PROVE  AccountsKept /\ PluginsKept /\ ConnsInv'
<1>1. ReqInv /\ ConnsInv /\ schema \in [Conns -> Versions] /\ req[r].target \in Conns
  BY DEF TruthInv, TypeInv, RowsTypeOK, ReqInv, GoodReq, ConnSteps, FetchSchema, At
<1>2. /\ owner[req[r].target] = req[r].user /\ UNCHANGED <<store, told>>
      /\ req' = [req EXCEPT ![r].step = "save snapshot", ![r].version = schema[req[r].target]]
  BY <1>1 DEF FetchSchema, ConnsInv, FetchInv, At
<1>3. \A q \in Requests :
        \/ req'[q] = req[q]
        \/ /\ req'[q].step = "save snapshot" /\ req'[q].user = req[r].user
           /\ req'[q].target = req[r].target /\ req'[q].version = schema[req[r].target]
  BY <1>1, <1>2 DEF ReqInv, ReqType
<1>4. RowsInv' /\ SnapsInv'
  BY <1>1, <1>2 DEF ConnsInv, RowsInv, SnapsInv, SnapshotsHaveConnection, store, connections
<1>5. ShownInv'
  <2>1. UNCHANGED <<live, owner, snaps, schema, told>>
    BY <1>2 DEF store, connections
  <2> QED
    BY <1>1, <2>1, UnchangedShown DEF ConnsInv
<1>6. FetchInv'
  <2>1. owner' = owner
    BY <1>2 DEF store, connections
  <2>2. schema[req[r].target] <= schema[req[r].target]
    BY <1>1 DEF Versions
  <2> QED
    BY <1>1, <1>2, <1>3, <2>1, <2>2 DEF ConnsInv, FetchInv, At
<1>7. AccountsKept /\ PluginsKept
  BY <1>2, <1>3 DEF AccountsKept, PluginsKept, store
<1> QED
  BY <1>4, <1>5, <1>6, <1>7 DEF ConnsInv

LEMMA SelectSnapshotStep ==
  ASSUME TruthInv, NEW r \in Requests, UNCHANGED schema, SelectSnapshot(r), ~Fails(r)
  PROVE  AccountsKept /\ PluginsKept /\ ConnsInv'
<1> DEFINE c == req[r].target
           u == req[r].user
           v == LatestOf(c)
<1>1. ReqInv /\ RowsTypeOK /\ ConnsInv /\ told \in Facts /\ c \in Conns
  BY DEF TruthInv, TypeInv, RowsTypeOK, ReqInv, GoodReq, ConnSteps, SelectSnapshot, At
<1>2. CASE AllKept
  BY <1>1, <1>2, KeptConns DEF AllKept
<1>3. CASE GoesOn(r, "select connection")
  BY <1>1, <1>2, <1>3, GoesOnKeeps DEF SelectSnapshot, StatementFails, Guarded
<1>4. CASE ~GoesOn(r, "select connection")
  <2>1. /\ owner[c] = u /\ snaps[c] # <<>> /\ UNCHANGED store
        /\ req' = [req EXCEPT ![r] = Idle] /\ told' = Showing(r, v)
    BY <1>4 DEF SelectSnapshot, StatementFails, Visible, Answers
  <2>2. v \in Versions
    BY <1>1, <2>1, LatestIsVersion
  <2>3. SavedRow(c, v) /\ v <= schema[c]
    <3>1. snaps[c] \in Seq(Versions)
      BY <1>1 DEF RowsTypeOK
    <3>2. Len(snaps[c]) \in 1 .. Len(snaps[c])
      BY <2>1, <3>1, EmptySeq, LenProperties
    <3>3. v = snaps[c][Len(snaps[c])]
      BY <2>1 DEF LatestOf
    <3> QED
      BY <1>1, <3>2, <3>3 DEF SavedRow, ConnsInv, SnapsInv
  <2>4. /\ told'.schemas = told.schemas \cup {<<u, c, v>>} /\ told'.deleted = told.deleted
        /\ told'.registered = told.registered /\ told'.plugins = told.plugins
    BY <1>1, <2>1 DEF Showing, Facts
  <2> HIDE DEF c, u, v
  <2>5. \A q \in Requests : req'[q] = req[q] \/ req'[q].step = "idle"
    BY <1>1, <2>1, EndState
  <2>6. UNCHANGED <<live, owner, snaps, schema>>
    BY <2>1 DEF store, connections
  <2>7. RowsInv' /\ SnapsInv'
    BY <1>1, <2>4, <2>6 DEF ConnsInv, RowsInv, SnapsInv, SnapshotsHaveConnection
  <2>8. ShownInv'
    <3> SUFFICES ASSUME NEW a \in Users, NEW d \in Conns, NEW w \in Versions,
                        <<a, d, w>> \in told'.schemas
                 PROVE  (owner[d] = a /\ w <= schema[d] /\ (d \in live => SavedRow(d, w)))'
      BY DEF ShownInv
    <3>1. owner[d] = a /\ w <= schema[d] /\ (d \in live => SavedRow(d, w))
      <4>1. CASE <<a, d, w>> \in told.schemas
        BY <1>1, <4>1 DEF ConnsInv, ShownInv
      <4>2. CASE a = u /\ d = c /\ w = v
        BY <2>1, <2>3, <4>2
      <4> QED
        BY <2>4, <4>1, <4>2
    <3>2. SavedRow(d, w) => SavedRow(d, w)'
      BY <2>6 DEF SavedRow
    <3> QED
      BY <2>6, <3>1, <3>2
  <2>9. FetchInv'
    BY <1>1, <2>5, <2>6 DEF ConnsInv, FetchInv, At
  <2>10. AccountsKept /\ PluginsKept
    BY <2>1, <2>4, <2>5 DEF AccountsKept, PluginsKept, store
  <2> QED
    BY <2>7, <2>8, <2>9, <2>10 DEF ConnsInv
<1> QED
  BY <1>3, <1>4

LEMMA SaveSnapshotStep ==
  ASSUME TruthInv, NEW r \in Requests, UNCHANGED schema, SaveSnapshot(r), ~Fails(r)
  PROVE  AccountsKept /\ PluginsKept /\ ConnsInv'
<1> DEFINE c == req[r].target
           u == req[r].user
           v == req[r].version
<1>1. ReqInv /\ ConnsInv /\ told \in Facts /\ c \in Conns /\ u \in Users /\ v \in Versions
      /\ snaps \in [Conns -> Seq(Versions)]
  BY DEF TruthInv, TypeInv, RowsTypeOK, ReqInv, GoodReq, ConnSteps, SaveSnapshot, At
<1>2. /\ c \in live /\ snaps' = [snaps EXCEPT ![c] = Append(@, v)]
      /\ req' = [req EXCEPT ![r] = Idle]
      /\ told' \in {told, Showing(r, v)}
      /\ UNCHANGED <<live, owner, accounts, registered>>
  BY DEF SaveSnapshot, StatementFails, ReplyLost, Answers
<1>3. owner[c] = u /\ v <= schema[c]
  BY <1>1 DEF ConnsInv, FetchInv, SaveSnapshot, At
<1>4. /\ told'.schemas \subseteq told.schemas \cup {<<u, c, v>>} /\ told'.deleted = told.deleted
      /\ told'.registered = told.registered /\ told'.plugins = told.plugins
  BY <1>1, <1>2 DEF Showing, Facts
<1> HIDE DEF c, u, v
<1>5. \A q \in Requests : req'[q] = req[q] \/ req'[q].step = "idle"
  BY <1>1, <1>2, EndState
<1>6. /\ snaps'[c] = Append(snaps[c], v) /\ snaps[c] \in Seq(Versions)
      /\ \A d \in Conns : d # c => snaps'[d] = snaps[d]
  BY <1>1, <1>2
<1>7. /\ Len(snaps'[c]) = Len(snaps[c]) + 1 /\ Len(snaps[c]) \in Nat
      /\ \A i \in 1 .. Len(snaps[c]) : snaps'[c][i] = snaps[c][i]
      /\ snaps'[c][Len(snaps[c]) + 1] = v
  BY <1>1, <1>6, AppendProperties, LenProperties
<1>8. RowsInv'
  BY <1>1, <1>2, <1>4, <1>6 DEF ConnsInv, RowsInv, SnapshotsHaveConnection
<1>9. SnapsInv'
  <2> SUFFICES ASSUME NEW d \in Conns, NEW i \in 1 .. Len(snaps'[d])
               PROVE  snaps'[d][i] <= schema[d]
    BY DEF SnapsInv
  <2>1. CASE d # c
    BY <1>1, <1>6, <2>1 DEF ConnsInv, SnapsInv
  <2>2. CASE d = c
    <3>1. i \in 1 .. Len(snaps[c]) \/ i = Len(snaps[c]) + 1
      BY <1>7, <2>2
    <3> QED
      BY <1>1, <1>3, <1>7, <2>2, <3>1 DEF ConnsInv, SnapsInv
  <2> QED
    BY <2>1, <2>2
<1>10. ShownInv'
  <2>1. \A d \in Conns, w \in Versions : SavedRow(d, w) => SavedRow(d, w)'
    <3> SUFFICES ASSUME NEW d \in Conns, NEW w \in Versions, NEW i \in 1 .. Len(snaps[d]),
                        snaps[d][i] = w
                 PROVE  SavedRow(d, w)'
      BY DEF SavedRow
    <3>1. i \in 1 .. Len(snaps'[d]) /\ snaps'[d][i] = w
      <4>1. CASE d = c
        BY <1>7, <4>1
      <4>2. CASE d # c
        BY <1>6, <4>2
      <4> QED
        BY <4>1, <4>2
    <3> QED
      BY <3>1 DEF SavedRow
  <2>2. \E i \in 1 .. Len(snaps'[c]) : snaps'[c][i] = v
    <3>1. Len(snaps[c]) + 1 \in 1 .. Len(snaps'[c])
      BY <1>7
    <3> QED
      BY <1>7, <3>1
  <2> SUFFICES ASSUME NEW a \in Users, NEW d \in Conns, NEW w \in Versions,
                      <<a, d, w>> \in told'.schemas
               PROVE  (owner[d] = a /\ w <= schema[d] /\ (d \in live => SavedRow(d, w)))'
    BY DEF ShownInv
  <2>3. CASE <<a, d, w>> \in told.schemas
    <3>1. owner[d] = a /\ w <= schema[d] /\ (d \in live => SavedRow(d, w))
      BY <1>1, <2>3 DEF ConnsInv, ShownInv
    <3> QED
      BY <1>2, <2>1, <3>1
  <2>4. CASE a = u /\ d = c /\ w = v
    <3>1. SavedRow(d, w)'
      BY <2>2, <2>4 DEF SavedRow
    <3> QED
      BY <1>2, <1>3, <2>4, <3>1
  <2> QED
    BY <1>4, <2>3, <2>4
<1>11. FetchInv'
  BY <1>1, <1>2, <1>5 DEF ConnsInv, FetchInv, At
<1>12. AccountsKept /\ PluginsKept
  BY <1>2, <1>4, <1>5 DEF AccountsKept, PluginsKept
<1> QED
  BY <1>8, <1>9, <1>10, <1>11, <1>12 DEF ConnsInv

LEMMA SchemaChangesStep ==
  ASSUME TruthInv, NEW c \in Conns, SchemaChanges(c)
  PROVE  AccountsKept /\ PluginsKept /\ ConnsInv'
<1>1. TypeInv /\ ReqInv /\ ConnsInv /\ schema \in [Conns -> Versions] /\ snaps \in [Conns -> Seq(Versions)]
  BY DEF TruthInv, TypeInv, RowsTypeOK
<1>2. UNCHANGED <<live, owner, snaps, accounts, registered, req, told>>
  BY DEF SchemaChanges, store, connections
<1>3. \A d \in Conns, w \in 0 .. MaxVersion : w <= schema[d] => w <= schema'[d]
  BY <1>1, MaxVersionType DEF SchemaChanges, Versions
<1>4. \A d \in Conns, w \in Versions : w <= schema[d] => w <= schema'[d]
  BY <1>3, VersionsRange
<1>5. RowsInv'
  BY <1>1, <1>2 DEF ConnsInv, RowsInv, SnapshotsHaveConnection
<1>6. SnapsInv'
  <2> SUFFICES ASSUME NEW d \in Conns, NEW i \in 1 .. Len(snaps[d])
               PROVE  snaps[d][i] <= schema'[d]
    BY <1>2 DEF SnapsInv
  <2>1. snaps[d][i] \in Versions
    BY <1>1, ElementOfSeq
  <2> QED
    BY <1>1, <1>4, <2>1 DEF ConnsInv, SnapsInv
<1>7. ShownInv'
  <2> SUFFICES ASSUME NEW a \in Users, NEW d \in Conns, NEW w \in Versions,
                      <<a, d, w>> \in told.schemas
               PROVE  (owner[d] = a /\ w <= schema[d] /\ (d \in live => SavedRow(d, w)))'
    BY <1>2 DEF ShownInv
  <2>1. owner[d] = a /\ w <= schema[d] /\ (d \in live => SavedRow(d, w))
    BY <1>1 DEF ConnsInv, ShownInv
  <2>2. SavedRow(d, w) => SavedRow(d, w)'
    BY <1>2 DEF SavedRow
  <2> QED
    BY <1>2, <1>4, <2>1, <2>2
<1>8. FetchInv'
  <2> SUFFICES ASSUME NEW q \in Requests, req[q].step \in {"fetch schema", "save snapshot"}
               PROVE  (owner[req[q].target] = req[q].user
                       /\ (At(q, "save snapshot") => req[q].version <= schema[req[q].target]))'
    BY <1>2 DEF FetchInv, At
  <2>1. req[q].target \in Conns /\ req[q].version \in 0 .. MaxVersion
    BY <1>1 DEF ReqInv, GoodReq, ReqType, ConnSteps
  <2>2. owner[req[q].target] = req[q].user
        /\ (At(q, "save snapshot") => req[q].version <= schema[req[q].target])
    BY <1>1 DEF ConnsInv, FetchInv
  <2> QED
    BY <1>2, <1>3, <2>1, <2>2 DEF At
<1>9. AccountsKept /\ PluginsKept
  BY <1>2 DEF AccountsKept, PluginsKept
<1> QED
  BY <1>5, <1>6, <1>7, <1>8, <1>9 DEF ConnsInv

LEMMA CatalogTruthStep ==
  ASSUME TruthInv, CatalogNext
  PROVE  AccountsInv' /\ PluginsInv' /\ ConnsInv'
<1>1. ReqInv /\ AccountsInv /\ PluginsInv /\ ConnsInv
  BY DEF TruthInv, TypeInv
<1>2. CASE AllKept
  BY <1>1, <1>2, KeptAccounts, KeptPlugins, KeptConns DEF AllKept
<1>3. ASSUME NEW r \in Requests, Statement(r), UNCHANGED schema
      PROVE  AccountsInv' /\ PluginsInv' /\ ConnsInv'
  <2>1. CASE Fails(r)
    BY <1>1, <1>2, <1>3, <2>1, FailsKeeps
  <2>2. CASE ~Fails(r) /\ (InsertUser(r) \/ InsertWorkspace(r))
    BY <1>1, <1>3, <2>2, InsertUserStep, InsertWorkspaceStep, KeptPlugins, KeptConns
  <2>3. CASE ~Fails(r) /\ SelectUser(r)
    BY <1>2, <1>3, <2>3, SelectUserStep
  <2>4. CASE ~Fails(r) /\ (InsertPlugin(r) \/ EnablePlugin(r))
    BY <1>1, <1>3, <2>4, InsertPluginStep, EnablePluginStep, KeptAccounts, KeptConns
  <2>5. CASE ~Fails(r) /\ (InsertConnection(r) \/ DeleteConnection(r))
    BY <1>1, <1>3, <2>5, InsertConnectionStep, DeleteConnectionStep, KeptAccounts, KeptPlugins
  <2>6. CASE ~Fails(r) /\ (SelectSnapshot(r) \/ SelectConnection(r) \/ FetchSchema(r) \/ SaveSnapshot(r))
    BY <1>1, <1>3, <2>6, SelectSnapshotStep, SelectConnectionStep, FetchSchemaStep, SaveSnapshotStep,
       KeptAccounts, KeptPlugins
  <2>7. CASE ReadBack(r)
    BY <2>1, <2>7 DEF ReadBack
  <2> QED
    BY <1>3, <2>1, <2>2, <2>3, <2>4, <2>5, <2>6, <2>7 DEF Statement
<1>4. ASSUME NEW r \in Requests, NEW u \in Users, UNCHANGED schema,
             Register(r, u) \/ LogIn(r, u) \/ WithToken(r, u)
      PROVE  AllKept
  <2>1. PICK s, x : s \notin Guarded /\ Starts(r, s, u, x)
    <3>1. Guarded \cap {"insert user", "select user", "insert connection", "select snapshot",
                        "delete connection", "insert plugin"} = {}
      BY DEF Guarded
    <3> QED
      BY <1>4, <3>1 DEF Register, LogIn, WithToken, Connect, GetSchema, Delete, RegisterPlugin
  <2> QED
    BY <1>1, <1>4, <2>1, StartsKeeps
<1>5. ASSUME NEW c \in Conns, SchemaChanges(c)
      PROVE  AccountsInv' /\ PluginsInv' /\ ConnsInv'
  BY <1>1, <1>5, SchemaChangesStep, KeptAccounts, KeptPlugins
<1> QED
  BY <1>2, <1>3, <1>4, <1>5 DEF CatalogNext

LEMMA PoolsTruthStep ==
  ASSUME TruthInv, Next, ~CatalogNext
  PROVE  AllKept
<1>1. ReqInv
  BY DEF TruthInv, TypeInv
<1>2. ASSUME NEW r \in Requests, QueryStep(r), UNCHANGED schema
      PROVE  AllKept
  <2>1. CASE Fails(r)
    BY <1>1, <1>2, <2>1, FailsKeeps
  <2>2. CASE ~Fails(r)
    <3>1. PICK s : s \notin Guarded /\ GoesOn(r, s) /\ UNCHANGED store
      <4>1. Guarded \cap {"prepare", "dial", "write", "writing", "execute"} = {}
        BY DEF Guarded
      <4>2. CASE LookUp(r)
        BY <4>1, <4>2 DEF LookUp
      <4>3. CASE ~LookUp(r)
        BY <1>2, <2>2, <4>1, <4>3 DEF QueryStep, GetConnection, Dial, WriteBegins, WriteEnds, Execute,
           StatementFails
      <4> QED
        BY <4>2, <4>3
    <3> QED
      BY <1>1, <1>2, <3>1, GoesOnKeeps
  <2> QED
    BY <2>1, <2>2
<1>3. ASSUME NEW r \in Requests, NEW u \in Users, QueryStarts(r, u), UNCHANGED schema
      PROVE  AllKept
  <2>1. "get connection" \notin Guarded
    BY DEF Guarded
  <2> QED
    BY <1>1, <1>3, <2>1, StartsKeeps DEF QueryStarts
<1>4. CASE (Crash \/ Race) /\ UNCHANGED schema
  <2>1. \A q \in Requests : req'[q] = req[q] \/ req'[q] = Idle
    <3>1. CASE ManagerRestarts
      BY <3>1 DEF ManagerRestarts
    <3>2. CASE ~ManagerRestarts
      BY <1>4, <3>2 DEF Crash, Race
    <3> QED
      BY <3>1, <3>2
  <2>2. Idle.step \notin Guarded
    BY DEF Idle, Guarded
  <2>3. UNCHANGED <<store, told>>
    BY <1>4 DEF Crash, Race, ManagerRestarts
  <2> QED
    BY <1>1, <1>4, <2>1, <2>2, <2>3, MovesKeep
<1> QED
  BY <1>2, <1>3, <1>4 DEF Next

LEMMA TruthStep ==
  ASSUME TruthInv, [Next]_vars
  PROVE  TruthInv'
<1>1. TypeInv'
  BY TypeStep DEF TruthInv
<1>2. CASE AllKept
  BY <1>1, <1>2, KeptAccounts, KeptPlugins, KeptConns DEF AllKept, TruthInv
<1>3. CASE CatalogNext
  BY <1>1, <1>3, CatalogTruthStep DEF TruthInv
<1>4. CASE UNCHANGED vars
  <2>1. AllKept
    BY <1>4 DEF vars, catalogVars, store, AllKept, AccountsKept, PluginsKept, ConnsKept
  <2> QED
    BY <1>2, <2>1
<1> QED
  BY <1>2, <1>3, <1>4, PoolsTruthStep

LEMMA TruthInit ==
  ASSUME Init
  PROVE  TruthInv
<1>1. TypeInv
  BY TypeInit
<1> USE DEF Init, CatalogInit
<1>2. \A r \in Requests : req[r].step = "idle"
  BY DEF Idle
<1>3. AccountsInv /\ PluginsInv
  BY <1>2 DEF AccountsInv, PluginsInv, At
<1>4. \A c \in Conns : snaps[c] = <<>> /\ Len(snaps[c]) = 0
  OBVIOUS
<1>5. RowsInv /\ SnapsInv
  BY <1>4 DEF RowsInv, SnapsInv, SnapshotsHaveConnection
<1>6. ShownInv
  BY DEF ShownInv
<1>7. FetchInv
  BY <1>2 DEF FetchInv, At
<1> QED
  BY <1>1, <1>3, <1>5, <1>6, <1>7 DEF TruthInv, ConnsInv

LEMMA TruthInvariant == Spec => []TruthInv
<1>1. Init => TruthInv
  BY TruthInit
<1>2. TruthInv /\ [Next]_vars => TruthInv'
  BY TruthStep
<1> QED
  BY <1>1, <1>2, PTL DEF Spec

\* No answer lies: a registration, a deletion, a schema and a plugin that were
\* reported are in the tables, whatever failed or ran in between.
THEOREM AnswersAreTrue == Spec => []ToldMeansDone
<1>1. TruthInv => ToldMeansDone
  <2> SUFFICES ASSUME TruthInv PROVE ToldMeansDone
    OBVIOUS
  <2> USE DEF TruthInv, ConnsInv
  <2>1. /\ told.registered \subseteq users \cap workspaces
        /\ told.plugins \subseteq defined \cap enabled
        /\ told.deleted \cap live = {}
    BY DEF AccountsInv, PluginsInv, RowsInv
  <2>2. ASSUME NEW u \in Users, NEW c \in live, NEW v \in Versions, <<u, c, v>> \in told.schemas
        PROVE  \E i \in 1 .. Len(snaps[c]) : snaps[c][i] = v
    BY <2>2 DEF ShownInv, SavedRow, TypeInv, RowsTypeOK
  <2> QED
    BY <2>1, <2>2 DEF ToldMeansDone
<1> QED
  BY <1>1, TruthInvariant, PTL

\* The cache of schemas holds nothing of a connection that is gone.
THEOREM NoOrphanSnapshots == Spec => []SnapshotsHaveConnection
<1>1. TruthInv => SnapshotsHaveConnection
  BY DEF TruthInv, ConnsInv, RowsInv
<1> QED
  BY <1>1, TruthInvariant, PTL

\* A schema goes to the owner of its connection and was the schema once.
THEOREM NoForeignSchemas == Spec => []SchemasAreOwn
<1>1. TruthInv => SchemasAreOwn
  BY DEF TruthInv, ConnsInv, ShownInv, SchemasAreOwn
<1> QED
  BY <1>1, TruthInvariant, PTL

(***************************************************************************)
(* The pools.  Nothing leaves the map but by a restart, which ends every   *)
(* call in the manager, or when two calls have met.                        *)
(***************************************************************************)
LEMMA CatalogKeepsExecute ==
  ASSUME ReqInv, CatalogNext, NEW q \in Requests, At(q, "execute")'
  PROVE  req'[q] = req[q]
<1>1. CASE \E c \in Conns : SchemaChanges(c)
  BY <1>1 DEF SchemaChanges
<1>2. ASSUME NEW r \in Requests, Statement(r)
      PROVE  req'[q] = req[q]
  <2>1. CASE req' = [req EXCEPT ![r] = Idle]
    BY <2>1, EndState DEF At
  <2>2. ASSUME NEW s, s # "execute", GoesOn(r, s)
        PROVE  req'[q] = req[q]
    BY <2>2, GoesOnState DEF At
  <2>3. CASE \E s : s # "execute" /\ GoesOn(r, s)
    BY <2>2, <2>3
  <2>4. CASE InsertConnection(r) \/ FetchSchema(r)
    <3>1. ASSUME NEW c, req' = [req EXCEPT ![r].step = "read back", ![r].target = c]
          PROVE  req'[q] = req[q]
      BY <3>1 DEF At, ReqInv, ReqType
    <3>2. ASSUME NEW v, req' = [req EXCEPT ![r].step = "save snapshot", ![r].version = v]
          PROVE  req'[q] = req[q]
      BY <3>2 DEF At, ReqInv, ReqType
    <3>3. CASE InsertConnection(r)
      BY <2>1, <3>1, <3>3 DEF InsertConnection, StatementFails, Fails, ReplyLost, Answers
    <3>4. CASE FetchSchema(r)
      BY <2>1, <3>2, <3>4 DEF FetchSchema, Fails, Answers
    <3> QED
      BY <2>4, <3>3, <3>4
  <2>5. CASE ~(InsertConnection(r) \/ FetchSchema(r))
    BY <1>2, <2>1, <2>2, <2>5 DEF Statement, InsertUser, InsertWorkspace, SelectUser, ReadBack,
       DeleteConnection, SelectSnapshot, SelectConnection, SaveSnapshot, InsertPlugin, EnablePlugin,
       StatementFails, Fails, ReplyLost, Answers
  <2> QED
    BY <2>4, <2>5
<1>3. ASSUME NEW r \in Requests, NEW u \in Users, Register(r, u) \/ LogIn(r, u) \/ WithToken(r, u)
      PROVE  req'[q] = req[q]
  <2>1. PICK s, x : s # "execute" /\ Starts(r, s, u, x)
    BY <1>3 DEF Register, LogIn, WithToken, Connect, GetSchema, Delete, RegisterPlugin
  <2> QED
    BY <2>1 DEF Starts, At, ReqInv
<1> QED
  BY <1>1, <1>2, <1>3 DEF CatalogNext

LEMMA PreparedStep ==
  ASSUME TypeInv, PreparedFindsPool, [Next]_vars
  PROVE  PreparedFindsPool'
<1> SUFFICES ASSUME NEW q \in Requests, At(q, "execute")', damaged' # TRUE
             PROVE  req'[q].target \in pool'
  BY DEF PreparedFindsPool, TypeInv, PoolTypeOK
<1>1. ReqInv /\ damaged \in BOOLEAN
  BY DEF TypeInv, PoolTypeOK
<1>2. CASE req'[q] = req[q] /\ pool \subseteq pool' /\ damaged' = damaged
  BY <1>1, <1>2 DEF PreparedFindsPool, At
<1>3. CASE UNCHANGED vars
  BY <1>2, <1>3 DEF vars, catalogVars, poolVars
<1>4. CASE CatalogNext /\ UNCHANGED poolVars
  BY <1>1, <1>2, <1>4, CatalogKeepsExecute DEF poolVars
<1>5. ASSUME NEW r \in Requests, NEW u \in Users, QueryStarts(r, u)
      PROVE  req'[q].target \in pool'
  <2>1. PICK x : Starts(r, "get connection", u, x)
    BY <1>5 DEF QueryStarts
  <2>2. req'[q] = req[q]
    BY <1>1, <2>1 DEF Starts, At, ReqInv
  <2> QED
    BY <1>2, <1>5, <2>2 DEF QueryStarts, poolVars
<1>6. CASE (Crash \/ Race) /\ UNCHANGED schema
  <2>1. ManagerRestarts
    BY <1>6 DEF Crash, Race
  <2> QED
    BY <2>1 DEF ManagerRestarts, InManager, Idle, At
<1>7. ASSUME NEW r \in Requests, QueryStep(r)
      PROVE  req'[q].target \in pool'
  <2>1. CASE Fails(r) /\ UNCHANGED poolVars
    BY <1>1, <1>2, <2>1, EndState DEF Fails, Answers, At, poolVars
  <2>2. ASSUME NEW s, s # "execute", GoesOn(r, s), UNCHANGED <<pool, damaged>>
        PROVE  req'[q].target \in pool'
    BY <1>1, <1>2, <2>2, GoesOnState DEF At
  <2>3. CASE LookUp(r)
    <3>1. PICK found \in LookupFinds(req[r].target) : GoesOn(r, IF found THEN "execute" ELSE "dial")
      BY <2>3 DEF LookUp
    <3>2. UNCHANGED <<pool, damaged>>
      BY <2>3 DEF LookUp, poolVars
    <3>3. damaged = FALSE
      BY <1>1, <3>2
    <3>4. found = (req[r].target \in pool)
      BY <3>1, <3>3 DEF LookupFinds
    <3>5. CASE found
      BY <1>1, <1>2, <3>1, <3>2, <3>4, <3>5, GoesOnState DEF At
    <3>6. CASE ~found
      BY <2>2, <3>1, <3>2, <3>6
    <3> QED
      BY <3>5, <3>6
  <2>4. CASE WriteEnds(r)
    <3>1. damaged' = damaged /\ GoesOn(r, "execute")
          /\ pool' = IF damaged THEN pool ELSE pool \cup {req[r].target}
      BY <2>4 DEF WriteEnds
    <3>2. pool' = pool \cup {req[r].target}
      BY <1>1, <3>1
    <3> QED
      BY <1>1, <1>2, <3>1, <3>2, GoesOnState
  <2>5. CASE GetConnection(r) \/ Dial(r) \/ WriteBegins(r) \/ Execute(r)
    BY <2>1, <2>2, <2>5 DEF GetConnection, StatementFails, Dial, WriteBegins, Execute, poolVars
  <2> QED
    BY <1>7, <2>3, <2>4, <2>5 DEF QueryStep
<1> QED
  BY <1>3, <1>4, <1>5, <1>6, <1>7 DEF Next

\* A call that prepared its connection finds the pool, however many calls
\* prepare and fail beside it, as long as no two of them met in the map.
THEOREM PreparedIsFound == Spec => []PreparedFindsPool
<1>1. Init => PreparedFindsPool
  BY DEF Init, CatalogInit, PreparedFindsPool, At, Idle
<1>2. TypeInv /\ PreparedFindsPool /\ [Next]_vars => PreparedFindsPool'
  BY PreparedStep
<1> QED
  BY <1>1, <1>2, TypeInvariant, PTL DEF Spec

(***************************************************************************)
(* Counting.  A cache that looks first and writes later is written by      *)
(* everybody who looked before it was written, and by nobody else, so that *)
(* what it holds and the requests that may still write are never more than *)
(* the requests.  Here the requests are finitely many.                     *)
(***************************************************************************)

\* The steps of a request that has looked and will write.
Looked == {"select connection", "fetch schema", "save snapshot", "dial", "write", "writing"}

\* The steps that lead from one of them to the next.
Writes(q) ==
  \/ SelectSnapshot(q) \/ SelectConnection(q) \/ FetchSchema(q)
  \/ LookUp(q) \/ Dial(q) \/ WriteBegins(q)

LEMMA OtherRequests ==
  ASSUME ReqInv, NEW r \in Requests, NEW q \in Requests \ {r},
         QueryStep(r) \/ Statement(r) \/ \E s, u, x : Starts(r, s, u, x)
  PROVE  req'[q] = req[q]
<1>1. ASSUME NEW s, GoesOn(r, s) PROVE req'[q] = req[q]
  BY <1>1 DEF GoesOn
<1>2. ASSUME NEW f, Answers(r, f) PROVE req'[q] = req[q]
  BY <1>2 DEF Answers
<1>3. Fails(r) \/ StatementFails(r) \/ ReplyLost(r) => req'[q] = req[q]
  BY <1>2 DEF Fails, StatementFails, ReplyLost
<1>4. CASE QueryStep(r)
  BY <1>1, <1>3, <1>4 DEF QueryStep, GetConnection, LookUp, Dial, WriteBegins, WriteEnds, Execute
<1>5. CASE Statement(r)
  <2>1. CASE InsertConnection(r)
    <3>1. CASE \E c \in Conns : req' = [req EXCEPT ![r].step = "read back", ![r].target = c]
      BY <3>1 DEF ReqInv, ReqType
    <3> QED
      BY <1>3, <2>1, <3>1 DEF InsertConnection
  <2>2. CASE FetchSchema(r)
    <3>1. CASE \E v : req' = [req EXCEPT ![r].step = "save snapshot", ![r].version = v]
      BY <3>1 DEF ReqInv, ReqType
    <3> QED
      BY <1>3, <2>2, <3>1 DEF FetchSchema
  <2>3. CASE ~InsertConnection(r) /\ ~FetchSchema(r)
    BY <1>1, <1>2, <1>3, <1>5, <2>3 DEF Statement, InsertUser, InsertWorkspace, SelectUser, ReadBack,
       DeleteConnection, SelectSnapshot, SelectConnection, SaveSnapshot, InsertPlugin, EnablePlugin
  <2> QED
    BY <2>1, <2>2, <2>3
<1>6. CASE \E s, u, x : Starts(r, s, u, x)
  BY <1>6 DEF Starts
<1> QED
  BY <1>4, <1>5, <1>6

\* A request comes to such a step only by such a step.
LEMMA OwnRequest ==
  ASSUME ReqInv, NEW q \in Requests, QueryStep(q) \/ Statement(q)
  PROVE  req'[q] = req[q] \/ req'[q].step \notin Looked \/ Writes(q)
<1>1. ASSUME NEW s, s \notin Looked, GoesOn(q, s) PROVE req'[q].step \notin Looked
  BY <1>1 DEF GoesOn, ReqInv, ReqType
<1>2. ASSUME NEW f, Answers(q, f) PROVE req'[q].step \notin Looked
  BY <1>2 DEF Answers, ReqInv, Idle, Looked
<1>3. Fails(q) \/ StatementFails(q) \/ ReplyLost(q) => req'[q].step \notin Looked
  BY <1>2 DEF Fails, StatementFails, ReplyLost
<1>4. {"prepare", "execute", "insert workspace", "enable plugin", "read back"} \cap Looked = {}
  BY DEF Looked
<1>5. CASE QueryStep(q) /\ ~Writes(q)
  BY <1>1, <1>3, <1>4, <1>5 DEF QueryStep, Writes, GetConnection, WriteEnds, Execute
<1>6. CASE Statement(q) /\ ~Writes(q)
  <2>1. CASE InsertConnection(q)
    <3>1. CASE \E c \in Conns : req' = [req EXCEPT ![q].step = "read back", ![q].target = c]
      BY <1>4, <3>1 DEF ReqInv, ReqType
    <3> QED
      BY <1>3, <2>1, <3>1 DEF InsertConnection
  <2>2. CASE ~InsertConnection(q)
    BY <1>1, <1>2, <1>3, <1>4, <1>6, <2>2 DEF Statement, Writes, InsertUser, InsertWorkspace, SelectUser,
       ReadBack, DeleteConnection, SaveSnapshot, InsertPlugin, EnablePlugin
  <2> QED
    BY <2>1, <2>2
<1> QED
  BY <1>5, <1>6

LEMMA RequestMoves ==
  ASSUME ReqInv, [Next]_vars, NEW q \in Requests
  PROVE  req'[q] = req[q] \/ req'[q].step \notin Looked \/ Writes(q)
<1>1. ASSUME NEW r \in Requests, QueryStep(r) \/ Statement(r)
      PROVE  req'[q] = req[q] \/ req'[q].step \notin Looked \/ Writes(q)
  BY <1>1, OtherRequests, OwnRequest
<1>2. ASSUME NEW r \in Requests, NEW s, s \notin Looked, NEW u, NEW x, Starts(r, s, u, x)
      PROVE  req'[q] = req[q] \/ req'[q].step \notin Looked
  BY <1>2 DEF Starts, ReqInv
<1>3. ASSUME NEW r \in Requests, NEW u \in Users,
             Register(r, u) \/ LogIn(r, u) \/ WithToken(r, u) \/ QueryStarts(r, u)
      PROVE  req'[q] = req[q] \/ req'[q].step \notin Looked
  <2>1. PICK s, x : s \notin Looked /\ Starts(r, s, u, x)
    <3>1. {"insert user", "select user", "insert connection", "select snapshot",
           "delete connection", "insert plugin", "get connection"} \cap Looked = {}
      BY DEF Looked
    <3> QED
      BY <1>3, <3>1 DEF Register, LogIn, WithToken, Connect, GetSchema, Delete, RegisterPlugin,
         QueryStarts
  <2> QED
    BY <1>2, <2>1
<1>4. CASE ManagerRestarts
  <2>1. req'[q] = req[q] \/ req'[q] = Idle
    BY <1>4 DEF ManagerRestarts
  <2>2. Idle.step \notin Looked
    BY DEF Idle, Looked
  <2> QED
    BY <2>1, <2>2
<1>5. CASE UNCHANGED vars \/ Crash \/ Race \/ \E c \in Conns : SchemaChanges(c)
  BY <1>4, <1>5 DEF vars, catalogVars, Crash, Race, SchemaChanges
<1> QED
  BY <1>1, <1>3, <1>5 DEF Next, CatalogNext

\* A set of requests is finite and no larger than all of them.
LEMMA RequestsCount ==
  ASSUME IsFiniteSet(Requests), NEW S \in SUBSET Requests
  PROVE  /\ IsFiniteSet(S) /\ Cardinality(S) \in Nat
         /\ Cardinality(Requests) \in Nat /\ Cardinality(S) <= Cardinality(Requests)
  BY FS_Subset, FS_CardinalityType

LEMMA FewerCount ==
  ASSUME IsFiniteSet(Requests), NEW S \in SUBSET Requests, NEW T \in SUBSET S
  PROVE  Cardinality(T) <= Cardinality(S) /\ Cardinality(T) \in Nat /\ Cardinality(S) \in Nat
  BY RequestsCount, FS_Subset

\* A request that leaves the set makes it smaller by one.
LEMMA OneFewerCount ==
  ASSUME IsFiniteSet(Requests), NEW S \in SUBSET Requests, NEW r \in S, NEW T \in SUBSET (S \ {r})
  PROVE  Cardinality(T) + 1 <= Cardinality(S) /\ Cardinality(T) \in Nat /\ Cardinality(S) \in Nat
<1>1. S \ {r} \in SUBSET Requests /\ T \in SUBSET Requests /\ IsFiniteSet(S)
  BY RequestsCount
<1>2. Cardinality(S \ {r}) = Cardinality(S) - 1
  BY <1>1, FS_RemoveElement
<1>3. Cardinality(T) <= Cardinality(S \ {r}) /\ Cardinality(T) \in Nat /\ Cardinality(S) \in Nat
  BY <1>1, FewerCount, RequestsCount
<1> QED
  BY <1>2, <1>3

(***************************************************************************)
(* Snapshots.                                                              *)
(***************************************************************************)

\* Request q found no snapshot of connection c and may still save one.
LateAt(q, c) ==
  /\ req[q].target = c
  /\ \/ req[q].step \in {"fetch schema", "save snapshot"}
     \/ req[q].step = "select connection" /\ req[q].user = owner[c]

Late(c) == {q \in Requests : LateAt(q, c)}

\* The snapshots and the requests that may still save one.
SnapBound == \A c \in Conns : Len(snaps[c]) + Cardinality(Late(c)) <= Cardinality(Requests)

\* What a step does to the snapshots and the owner of a connection.
LEMMA SnapshotMoves ==
  ASSUME TruthInv, [Next]_vars, NEW c \in Conns
  PROVE  /\ owner[c] # Nothing => owner'[c] = owner[c]
         /\ \/ snaps'[c] = snaps[c]
            \/ snaps'[c] = <<>>
            \/ \E r \in Requests : /\ At(r, "save snapshot") /\ req[r].target = c
                                   /\ req' = [req EXCEPT ![r] = Idle]
                                   /\ \E v \in Versions : snaps'[c] = Append(snaps[c], v)
<1> USE DEF TruthInv, TypeInv, RowsTypeOK
<1>1. CASE UNCHANGED connections
  BY <1>1 DEF connections
<1>2. ASSUME NEW r \in Requests, Statement(r), ~UNCHANGED connections
      PROVE  InsertConnection(r) \/ DeleteConnection(r) \/ SaveSnapshot(r)
  BY <1>2 DEF Statement, InsertUser, InsertWorkspace, SelectUser, ReadBack, SelectSnapshot,
     SelectConnection, FetchSchema, InsertPlugin, EnablePlugin, StatementFails, Fails, store
<1>3. ASSUME NEW r \in Requests, InsertConnection(r), ~UNCHANGED connections
      PROVE  /\ owner[c] # Nothing => owner'[c] = owner[c]
             /\ snaps'[c] = snaps[c]
  BY <1>3 DEF InsertConnection, StatementFails, Fails, store, connections
<1>4. ASSUME NEW r \in Requests, DeleteConnection(r), ~UNCHANGED connections
      PROVE  owner' = owner /\ (snaps'[c] = snaps[c] \/ snaps'[c] = <<>>)
  BY <1>4 DEF DeleteConnection, StatementFails, Fails, store, connections
<1>5. ASSUME NEW r \in Requests, SaveSnapshot(r), ~UNCHANGED connections
      PROVE  /\ owner' = owner
             /\ \/ snaps'[c] = snaps[c]
                \/ /\ At(r, "save snapshot") /\ req[r].target = c
                   /\ req' = [req EXCEPT ![r] = Idle]
                   /\ \E v \in Versions : snaps'[c] = Append(snaps[c], v)
  <2>1. /\ At(r, "save snapshot") /\ owner' = owner /\ req' = [req EXCEPT ![r] = Idle]
        /\ snaps' = [snaps EXCEPT ![req[r].target] = Append(@, req[r].version)]
    BY <1>5 DEF SaveSnapshot, StatementFails, Fails, store, connections, ReplyLost, Answers
  <2>2. req[r].version \in Versions
    BY <2>1 DEF At, ReqInv, GoodReq
  <2> QED
    BY <2>1, <2>2
<1>6. CASE ~UNCHANGED connections
  <2>1. PICK r \in Requests : Statement(r)
    BY <1>6 DEF Next, vars, catalogVars, CatalogNext, Register, LogIn, WithToken, Connect, GetSchema,
       Delete, RegisterPlugin, Starts, QueryStarts, QueryStep, GetConnection, LookUp, Dial, WriteBegins,
       WriteEnds, Execute, Crash, Race, ManagerRestarts, SchemaChanges, StatementFails, Fails, store
  <2> QED
    BY <1>2, <1>3, <1>4, <1>5, <1>6, <2>1
<1> QED
  BY <1>1, <1>6

\* Nobody joins the requests that may save a snapshot once there is one.
LEMMA NobodyLooksAgain ==
  ASSUME TruthInv, [Next]_vars, NEW c \in Conns, NEW q \in Requests, snaps[c] # <<>>, LateAt(q, c)'
  PROVE  LateAt(q, c)
<1> USE DEF TruthInv, TypeInv
<1>1. owner[c] # Nothing /\ c \in live /\ owner'[c] = owner[c]
  BY SnapshotMoves DEF ConnsInv, RowsInv, SnapshotsHaveConnection
<1>2. req'[q].step \in {"select connection", "fetch schema", "save snapshot"}
  BY DEF LateAt
<1>3. CASE req'[q] = req[q]
  BY <1>1, <1>3 DEF LateAt
<1>4. CASE Writes(q) /\ req'[q] # req[q]
  <2>1. ASSUME NEW s, GoesOn(q, s)
        PROVE  /\ req'[q].step = s /\ req'[q].target = req[q].target /\ req'[q].user = req[q].user
    BY <2>1 DEF GoesOn, ReqInv, ReqType
  <2>2. ~Fails(q) /\ ~StatementFails(q) /\ \A f : ~Answers(q, f)
    <3>1. ASSUME NEW f, Answers(q, f) PROVE FALSE
      <4>1. req'[q].step = "idle"
        BY <3>1 DEF Answers, ReqInv, Idle
      <4> QED
        BY <1>2, <4>1
    <3> QED
      BY <3>1 DEF StatementFails, Fails
  <2>3. CASE SelectSnapshot(q)
    <3>1. /\ GoesOn(q, "select connection")
          /\ ~(Visible(req[q].target, req[q].user) /\ snaps[req[q].target] # <<>>)
      BY <2>2, <2>3 DEF SelectSnapshot
    <3>2. req[q].target = c => req[q].user # owner[c]
      BY <1>1, <3>1 DEF Visible
    <3>3. req'[q].step = "select connection" /\ req'[q].target = req[q].target
          /\ req'[q].user = req[q].user
      BY <2>1, <3>1
    <3>4. req[q].target = c /\ req[q].user = owner[c]
      BY <1>1, <3>3 DEF LateAt
    <3> QED
      BY <3>2, <3>4
  <2>4. CASE SelectConnection(q)
    <3>1. At(q, "select connection") /\ Visible(req[q].target, req[q].user) /\ GoesOn(q, "fetch schema")
      BY <2>2, <2>4 DEF SelectConnection
    <3> QED
      BY <2>1, <3>1 DEF LateAt, Visible, At
  <2>5. CASE FetchSchema(q)
    <3>1. /\ At(q, "fetch schema")
          /\ \E v : req' = [req EXCEPT ![q].step = "save snapshot", ![q].version = v]
      BY <2>2, <2>5 DEF FetchSchema
    <3>2. req'[q].target = req[q].target
      BY <3>1 DEF ReqInv, ReqType
    <3> QED
      BY <3>1, <3>2 DEF LateAt, At
  <2>6. CASE LookUp(q) \/ Dial(q) \/ WriteBegins(q)
    <3>1. PICK s : s \in {"execute", "dial", "write", "writing"} /\ GoesOn(q, s)
      BY <2>2, <2>6 DEF LookUp, Dial, WriteBegins
    <3> QED
      BY <1>2, <2>1, <3>1
  <2> QED
    BY <1>4, <2>3, <2>4, <2>5, <2>6 DEF Writes
<1> QED
  BY <1>2, <1>3, <1>4, RequestMoves DEF Looked

LEMMA SnapBoundStep ==
  ASSUME IsFiniteSet(Requests), TruthInv, SnapBound, [Next]_vars
  PROVE  SnapBound'
<1> SUFFICES ASSUME NEW c \in Conns
             PROVE  Len(snaps'[c]) + Cardinality(Late(c)') <= Cardinality(Requests)
  BY DEF SnapBound
<1>1. /\ Late(c) \in SUBSET Requests /\ Late(c)' \in SUBSET Requests
      /\ snaps[c] \in Seq(Versions) /\ Len(snaps[c]) \in Nat
  BY DEF Late, TruthInv, TypeInv, RowsTypeOK
<1>2. Len(snaps[c]) + Cardinality(Late(c)) <= Cardinality(Requests)
  BY DEF SnapBound
<1>3. CASE snaps'[c] = <<>>
  BY <1>1, <1>3, RequestsCount
<1>4. CASE snaps'[c] = snaps[c] /\ snaps[c] # <<>>
  <2>1. Late(c)' \in SUBSET Late(c)
    BY <1>4, NobodyLooksAgain DEF Late
  <2> QED
    BY <1>1, <1>2, <1>4, <2>1, FewerCount, RequestsCount
<1>5. ASSUME NEW r \in Requests, At(r, "save snapshot"), req[r].target = c,
             req' = [req EXCEPT ![r] = Idle], NEW v \in Versions, snaps'[c] = Append(snaps[c], v)
      PROVE  Len(snaps'[c]) + Cardinality(Late(c)') <= Cardinality(Requests)
  <2>1. r \in Late(c)
    BY <1>5 DEF Late, LateAt, At
  <2>2. ~LateAt(r, c)'
    BY <1>5 DEF LateAt, TruthInv, TypeInv, ReqInv, Idle
  <2>3. Len(snaps'[c]) = Len(snaps[c]) + 1
    <3> DEFINE s == snaps[c]
    <3>1. s \in Seq(Versions)
      BY <1>1
    <3> HIDE DEF s
    <3>2. Len(Append(s, v)) = Len(s) + 1
      BY <1>5, <3>1, AppendProperties
    <3> QED
      BY <1>5, <3>2 DEF s
  <2>4. CASE snaps[c] # <<>>
    <3>1. Late(c)' \in SUBSET (Late(c) \ {r})
      BY <2>2, <2>4, NobodyLooksAgain DEF Late
    <3> QED
      BY <1>1, <1>2, <2>1, <2>3, <3>1, OneFewerCount, RequestsCount
  <2>5. CASE snaps[c] = <<>>
    <3>1. Late(c)' \in SUBSET (Requests \ {r})
      BY <2>2 DEF Late
    <3>2. Cardinality(Late(c)') + 1 <= Cardinality(Requests) /\ Cardinality(Late(c)') \in Nat
      BY <1>5, <3>1, OneFewerCount
    <3>3. Len(snaps'[c]) = 1
      BY <2>3, <2>5
    <3> QED
      BY <3>2, <3>3, RequestsCount
  <2> QED
    BY <2>4, <2>5
<1> QED
  BY <1>3, <1>4, <1>5, SnapshotMoves

\* The cache of schemas holds at most one snapshot for each handler: snapshots
\* are added only by requests that looked before there was any
\* (app.go:142-149).
THEOREM SnapshotsStayFew ==
  ASSUME IsFiniteSet(Requests)
  PROVE  Spec => []SnapshotsAreBounded
<1>1. Init => SnapBound
  <2> SUFFICES ASSUME Init, NEW c \in Conns
               PROVE  Len(snaps[c]) + Cardinality(Late(c)) <= Cardinality(Requests)
    BY DEF SnapBound
  <2>1. snaps[c] = <<>> /\ Late(c) \in SUBSET Requests
    BY DEF Init, CatalogInit, Late
  <2> QED
    BY <2>1, RequestsCount
<1>2. TruthInv /\ SnapBound /\ [Next]_vars => SnapBound'
  BY SnapBoundStep
<1>3. TruthInv /\ SnapBound => SnapshotsAreBounded
  <2> SUFFICES ASSUME TruthInv, SnapBound, NEW c \in Conns
               PROVE  Len(snaps[c]) <= Cardinality(Requests)
    BY DEF SnapshotsAreBounded
  <2>1. Late(c) \in SUBSET Requests /\ Len(snaps[c]) \in Nat
    BY DEF Late, TruthInv, TypeInv, RowsTypeOK
  <2> QED
    BY <2>1, RequestsCount DEF SnapBound
<1> QED
  BY <1>1, <1>2, <1>3, TruthInvariant, PTL DEF Spec

(***************************************************************************)
(* Pools.                                                                  *)
(***************************************************************************)

\* Calls that have not found a pool for c and will dial one, and calls that have
\* dialled one which is not in the map yet.
Dialling(c)   == {q \in Requests : req[q].target = c /\ req[q].step = "dial"}
Delivering(c) == {q \in Requests : req[q].target = c /\ req[q].step \in {"write", "writing"}}

\* Before the first pool of c is in the map every dialled one is in the hands of
\* its call; afterwards only the calls that looked before will dial.
PoolBound ==
  \A c \in Conns :
    /\ damaged => opened[c] = 0
    /\ ~damaged /\ c \notin pool => opened[c] <= Cardinality(Delivering(c))
    /\ ~damaged /\ c \in pool => opened[c] + Cardinality(Dialling(c)) <= Cardinality(Requests)

LEMMA PoolSets ==
  ASSUME NEW c
  PROVE  /\ Dialling(c) \in SUBSET Requests /\ Dialling(c)' \in SUBSET Requests
         /\ Delivering(c) \in SUBSET Requests /\ Delivering(c)' \in SUBSET Requests
         /\ Dialling(c) \cap Delivering(c) = {}
  BY DEF Dialling, Delivering

\* Calls that dial and calls that deliver are different calls.
LEMMA DisjointCount ==
  ASSUME IsFiniteSet(Requests), NEW S \in SUBSET Requests, NEW T \in SUBSET Requests, S \cap T = {}
  PROVE  Cardinality(S) + Cardinality(T) <= Cardinality(Requests)
<1>1. IsFiniteSet(S) /\ IsFiniteSet(T) /\ S \cup T \in SUBSET Requests
  BY RequestsCount
<1>2. Cardinality(S \cup T) = Cardinality(S) + Cardinality(T)
  <2>1. Cardinality(S \cup T) = Cardinality(S) + Cardinality(T) - Cardinality(S \cap T)
    BY <1>1, FS_Union
  <2>2. Cardinality(S \cap T) = 0
    BY FS_EmptySet
  <2>3. Cardinality(S) \in Nat /\ Cardinality(T) \in Nat
    BY <1>1, FS_CardinalityType
  <2> QED
    BY <2>1, <2>2, <2>3
<1> QED
  BY <1>1, <1>2, RequestsCount

\* A call with a new pool keeps it until it has written it to the map.
LEMMA DeliveringStays ==
  ASSUME ReqInv, [Next]_vars, ~ManagerRestarts, NEW q \in Requests, ~WriteEnds(q),
         req[q].step \in {"write", "writing"}
  PROVE  req'[q].step \in {"write", "writing"} /\ req'[q].target = req[q].target
<1>1. ASSUME NEW r \in Requests \ {q}, QueryStep(r) \/ Statement(r) \/ \E s, u, x : Starts(r, s, u, x)
      PROVE  req'[q] = req[q]
  BY <1>1, OtherRequests
<1>2. ASSUME NEW s, NEW u, NEW x PROVE ~Starts(q, s, u, x)
  BY DEF Starts, At
<1>3. ~Statement(q)
  BY DEF Statement, InsertUser, InsertWorkspace, SelectUser, InsertConnection, ReadBack,
     DeleteConnection, SelectSnapshot, SelectConnection, FetchSchema, SaveSnapshot, InsertPlugin,
     EnablePlugin, At
<1>4. CASE QueryStep(q)
  <2>1. GoesOn(q, "writing")
    BY <1>4 DEF QueryStep, GetConnection, LookUp, Dial, WriteBegins, Execute, At
  <2> QED
    BY <2>1 DEF GoesOn, ReqInv, ReqType
<1>5. CASE req'[q] = req[q]
  BY <1>5
<1>6. CASE \E r \in Requests : \/ QueryStep(r) \/ Statement(r)
                               \/ \E s, u, x : Starts(r, s, u, x)
  BY <1>1, <1>2, <1>3, <1>4, <1>5, <1>6
<1>7. ASSUME NEW r \in Requests, NEW u \in Users,
             Register(r, u) \/ LogIn(r, u) \/ WithToken(r, u) \/ QueryStarts(r, u)
      PROVE  \E s, x : Starts(r, s, u, x)
  BY <1>7 DEF Register, LogIn, WithToken, Connect, GetSchema, Delete, RegisterPlugin, QueryStarts
<1>8. CASE UNCHANGED req
  BY <1>5, <1>8
<1> QED
  BY <1>6, <1>7, <1>8 DEF Next, vars, catalogVars, CatalogNext, SchemaChanges, Crash, Race

\* Nobody looks in vain for a pool that is there.
LEMMA NobodyDialsAgain ==
  ASSUME TypeInv, [Next]_vars, NEW c \in Conns, c \in pool, ~damaged, NEW q \in Requests,
         req'[q].step = "dial", req'[q].target = c
  PROVE  req[q].step = "dial" /\ req[q].target = c
<1> USE DEF TypeInv
<1>1. ASSUME NEW s, GoesOn(q, s)
      PROVE  req'[q].step = s /\ req'[q].target = req[q].target
  BY <1>1 DEF GoesOn, ReqInv, ReqType
<1>2. ~Fails(q) /\ ~StatementFails(q) /\ \A f : ~Answers(q, f)
  <2>1. ASSUME NEW f, Answers(q, f) PROVE FALSE
    <3>1. req'[q].step = "idle"
      BY <2>1 DEF Answers, ReqInv, Idle
    <3> QED
      BY <3>1
  <2> QED
    BY <2>1 DEF StatementFails, Fails
<1>3. CASE LookUp(q)
  <2>1. PICK found \in LookupFinds(req[q].target) : GoesOn(q, IF found THEN "execute" ELSE "dial")
    BY <1>3 DEF LookUp
  <2>2. req[q].target = c /\ ~found
    BY <1>1, <2>1
  <2> QED
    BY <2>1, <2>2 DEF LookupFinds
<1>4. CASE SelectSnapshot(q) \/ SelectConnection(q) \/ Dial(q) \/ WriteBegins(q)
  <2>1. PICK s : s \in {"select connection", "fetch schema", "write", "writing"} /\ GoesOn(q, s)
    BY <1>2, <1>4 DEF SelectSnapshot, SelectConnection, Dial, WriteBegins
  <2> QED
    BY <1>1, <2>1
<1>5. CASE FetchSchema(q)
  <2>1. \E v : req' = [req EXCEPT ![q].step = "save snapshot", ![q].version = v]
    BY <1>2, <1>5 DEF FetchSchema
  <2> QED
    BY <2>1 DEF ReqInv, ReqType
<1> QED
  BY <1>3, <1>4, <1>5, RequestMoves DEF Writes, Looked

\* The steps that change what PoolBound counts.
LEMMA PoolMoves ==
  ASSUME TypeInv, [Next]_vars
  PROVE  \/ ManagerRestarts \/ Race
         \/ \E r \in Requests : Dial(r) \/ WriteEnds(r)
         \/ UNCHANGED poolVars
  BY DEF Next, vars, QueryStep, QueryStarts, GetConnection, LookUp, WriteBegins, Execute, Crash, poolVars

LEMMA PoolBoundStep ==
  ASSUME IsFiniteSet(Requests), TypeInv, PoolBound, [Next]_vars
  PROVE  PoolBound'
<1> SUFFICES ASSUME NEW c \in Conns
             PROVE  /\ damaged' => opened'[c] = 0
                    /\ ~damaged' /\ c \notin pool' => opened'[c] <= Cardinality(Delivering(c)')
                    /\ ~damaged' /\ c \in pool' =>
                         opened'[c] + Cardinality(Dialling(c)') <= Cardinality(Requests)
  BY DEF PoolBound
<1> USE DEF TypeInv, PoolTypeOK
<1>1. /\ damaged => opened[c] = 0
      /\ ~damaged /\ c \notin pool => opened[c] <= Cardinality(Delivering(c))
      /\ ~damaged /\ c \in pool => opened[c] + Cardinality(Dialling(c)) <= Cardinality(Requests)
      /\ opened[c] \in Nat
  BY DEF PoolBound
<1>2. /\ Dialling(c) \in SUBSET Requests /\ Dialling(c)' \in SUBSET Requests
      /\ Delivering(c) \in SUBSET Requests /\ Delivering(c)' \in SUBSET Requests
      /\ Dialling(c) \cap Delivering(c) = {}
  BY PoolSets
<1>3. CASE ManagerRestarts \/ Race
  <2>1. opened'[c] = 0 /\ pool' = {}
    BY <1>3 DEF ManagerRestarts, Race
  <2> QED
    BY <1>2, <2>1, RequestsCount
<1>4. CASE \E r \in Requests : WriteEnds(r)
  <2>1. PICK r \in Requests : WriteEnds(r)
    BY <1>4
  <2>2. /\ opened' = opened /\ damaged' = damaged /\ req[r].step = "writing"
        /\ pool' = IF damaged THEN pool ELSE pool \cup {req[r].target}
    BY <2>1 DEF WriteEnds, At
  <2>3. ASSUME NEW q \in Requests
        PROVE  /\ req'[q].target = req[q].target
               /\ q # r => req'[q].step = req[q].step
               /\ q = r => req'[q].step = "execute"
    BY <2>1 DEF WriteEnds, GoesOn, ReqInv, ReqType
  <2>4. Dialling(c)' \in SUBSET Dialling(c)
    BY <2>2, <2>3 DEF Dialling
  <2>5. c # req[r].target => Delivering(c) \in SUBSET (Delivering(c)')
    BY <2>3 DEF Delivering
  <2>6. Cardinality(Delivering(c)) + Cardinality(Dialling(c)) <= Cardinality(Requests)
    BY <1>2, DisjointCount
  <2>7. /\ Cardinality(Dialling(c)') <= Cardinality(Dialling(c))
        /\ Cardinality(Dialling(c)) \in Nat /\ Cardinality(Dialling(c)') \in Nat
    BY <1>2, <2>4, FewerCount
  <2>8. /\ Cardinality(Requests) \in Nat
        /\ Cardinality(Delivering(c)) \in Nat /\ Cardinality(Delivering(c)') \in Nat
    BY <1>2, RequestsCount
  <2>9. c # req[r].target => Cardinality(Delivering(c)) <= Cardinality(Delivering(c)')
    BY <1>2, <2>5, FewerCount
  <2>10. CASE damaged \/ c \in pool
    BY <1>1, <2>2, <2>7, <2>8, <2>10
  <2>11. CASE ~damaged /\ c \notin pool /\ c = req[r].target
    BY <1>1, <2>2, <2>6, <2>7, <2>8, <2>11
  <2>12. CASE ~damaged /\ c \notin pool /\ c # req[r].target
    BY <1>1, <2>2, <2>8, <2>9, <2>12
  <2> QED
    BY <2>10, <2>11, <2>12
\* What holds of every other step: calls that deliver stay, calls that dial are
\* no more than before once the pool is in the map.
<1>5. ASSUME ~ManagerRestarts, \A r \in Requests : ~WriteEnds(r)
      PROVE  /\ Delivering(c) \in SUBSET (Delivering(c)')
             /\ ~damaged /\ c \in pool => Dialling(c)' \in SUBSET Dialling(c)
  <2>1. Delivering(c) \in SUBSET (Delivering(c)')
    BY <1>5, DeliveringStays DEF Delivering
  <2>2. ~damaged /\ c \in pool => Dialling(c)' \in SUBSET Dialling(c)
    BY NobodyDialsAgain DEF Dialling
  <2> QED
    BY <2>1, <2>2
<1>6. CASE /\ opened'[c] = opened[c] /\ UNCHANGED <<pool, damaged>>
           /\ ~ManagerRestarts /\ \A r \in Requests : ~WriteEnds(r)
  <2>1. /\ Cardinality(Delivering(c)) <= Cardinality(Delivering(c)')
        /\ Cardinality(Delivering(c)) \in Nat /\ Cardinality(Delivering(c)') \in Nat
    BY <1>2, <1>5, <1>6, FewerCount
  <2>2. ~damaged /\ c \in pool =>
          /\ Cardinality(Dialling(c)') <= Cardinality(Dialling(c))
          /\ Cardinality(Dialling(c)') \in Nat
    BY <1>2, <1>5, <1>6, FewerCount
  <2>3. Cardinality(Dialling(c)) \in Nat /\ Cardinality(Requests) \in Nat
    BY <1>2, RequestsCount
  <2> QED
    BY <1>1, <1>6, <2>1, <2>2, <2>3
<1>7. ASSUME NEW r \in Requests, Dial(r), opened'[c] # opened[c],
             ~ManagerRestarts, \A q \in Requests : ~WriteEnds(q)
      PROVE  /\ damaged' => opened'[c] = 0
             /\ ~damaged' /\ c \notin pool' => opened'[c] <= Cardinality(Delivering(c)')
             /\ ~damaged' /\ c \in pool' =>
                  opened'[c] + Cardinality(Dialling(c)') <= Cardinality(Requests)
  <2>1. /\ ~damaged /\ req[r].target = c /\ opened'[c] = opened[c] + 1
        /\ req[r].step = "dial" /\ GoesOn(r, "write") /\ pool' = pool /\ damaged' = damaged
    BY <1>7 DEF Dial, poolVars, At
  <2>2. req'[r].step = "write" /\ req'[r].target = c
    BY <2>1 DEF GoesOn, ReqInv, ReqType
  <2>3. r \in Delivering(c)' /\ Delivering(c) \in SUBSET (Delivering(c)' \ {r})
    BY <1>5, <1>7, <2>1, <2>2 DEF Delivering
  <2>4. c \in pool => r \in Dialling(c) /\ Dialling(c)' \in SUBSET (Dialling(c) \ {r})
    BY <1>5, <1>7, <2>1, <2>2 DEF Dialling
  <2>5. /\ Cardinality(Delivering(c)) + 1 <= Cardinality(Delivering(c)')
        /\ Cardinality(Delivering(c)) \in Nat /\ Cardinality(Delivering(c)') \in Nat
    BY <1>2, <2>3, OneFewerCount
  <2>6. c \in pool =>
          /\ Cardinality(Dialling(c)') + 1 <= Cardinality(Dialling(c))
          /\ Cardinality(Dialling(c)') \in Nat /\ Cardinality(Dialling(c)) \in Nat
    BY <1>2, <2>4, OneFewerCount
  <2>7. Cardinality(Requests) \in Nat
    BY <1>2, RequestsCount
  <2> QED
    BY <1>1, <2>1, <2>5, <2>6, <2>7
<1>8. CASE UNCHANGED poolVars
  BY <1>3, <1>4, <1>6, <1>8 DEF poolVars
<1>9. CASE \E r \in Requests : Dial(r)
  <2>1. PICK r \in Requests : Dial(r)
    BY <1>9
  <2>2. UNCHANGED <<pool, damaged>>
    BY <2>1 DEF Dial, poolVars
  <2> QED
    BY <1>3, <1>4, <1>6, <1>7, <2>1, <2>2
<1> QED
  BY <1>3, <1>4, <1>8, <1>9, PoolMoves

\* The pools dialled for a connection since the process started are at most one
\* for each call that runs: the calls that looked before the first pool was in
\* the map (adapter/postgres.go:45-55).
THEOREM PoolsStayFew ==
  ASSUME IsFiniteSet(Requests)
  PROVE  Spec => []PoolsAreShared
<1>1. Init => PoolBound
  <2> SUFFICES ASSUME Init PROVE PoolBound
    OBVIOUS
  <2>1. pool = {} /\ opened = [c \in Conns |-> 0]
    BY DEF Init, PoolsInit
  <2>2. \A c \in Conns : Cardinality(Delivering(c)) \in Nat
    BY PoolSets, RequestsCount
  <2> QED
    BY <2>1, <2>2 DEF PoolBound
<1>2. TypeInv /\ PoolBound /\ [Next]_vars => PoolBound'
  BY PoolBoundStep
<1>3. TypeInv /\ PoolBound => PoolsAreShared
  <2> SUFFICES ASSUME TypeInv, PoolBound, NEW c \in Conns
               PROVE  opened[c] <= Cardinality(Requests)
    BY DEF PoolsAreShared
  <2>1. Delivering(c) \in SUBSET Requests /\ Dialling(c) \in SUBSET Requests /\ opened[c] \in Nat
    BY PoolSets DEF TypeInv, PoolTypeOK
  <2>2. /\ Cardinality(Delivering(c)) \in Nat /\ Cardinality(Dialling(c)) \in Nat
        /\ Cardinality(Requests) \in Nat /\ Cardinality(Delivering(c)) <= Cardinality(Requests)
    BY <2>1, RequestsCount
  <2> QED
    BY <2>1, <2>2 DEF PoolBound
<1> QED
  BY <1>1, <1>2, <1>3, TypeInvariant, PTL DEF Spec

=============================================================================
