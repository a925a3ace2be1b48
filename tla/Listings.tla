------------------------------- MODULE Listings -------------------------------
(***************************************************************************)
(* A client of the gateway that lists connections or workspaces, page by   *)
(* page with LIMIT and OFFSET, while connections come and go.  It shares   *)
(* its tokens with AgentSession: a client either lists or follows a job,   *)
(* and its token may expire between two pages.                             *)
(*                                                                         *)
(* The filter by workspace narrows the rows as the one by user does and is *)
(* left out.                                                               *)
(***************************************************************************)
EXTENDS AgentSession, FiniteSets

CONSTANTS
  Pool,         \* rows of connections and workspaces there may be
  Limits,       \* limits a client may ask for
  FirstOffsets, \* offsets it may start with
  DefaultLimit, \* the limit when the request has none
  MaxChanges    \* rows that come or go during a walk

ASSUME ListingAssumption ==
  /\ \A r \in Pool : r.kind \in {"connections", "workspaces"} /\ r.at \in Nat /\ r.readable \in BOOLEAN
  /\ Limits \cup FirstOffsets \subseteq Int
  /\ DefaultLimit \in 1 .. Half - 1 /\ MaxChanges \in Nat

VARIABLES
  table, \* the rows of connections and workspaces
  walk   \* the client's walk: how it asks, the rows it saw, and what came and
         \* went meanwhile

listVars  == <<table, walk>>
visitVars == <<sessionVars, listVars>>

NoWalk == [step |-> "none"]

VisitInit == SessionInit /\ table = {} /\ walk = NoWalk

(* One page. *)

\* The gateway replaces what is not positive, and narrows the rest to int32.
GatewayLimit(asked) == Int32(IF asked <= 0 THEN DefaultLimit ELSE asked)

\* meta-service replaces what is not positive by then.
MetaLimit(l) == IF l <= 0 THEN DefaultLimit ELSE l

\* The MCP tool clamps an offset, the REST route passes it on.
GatewayOffset(via, o) == Int32(IF via = "mcp" /\ o < 0 THEN 0 ELSE o)

Matching(of, user) == {r \in table : r.kind = of /\ r.user = user}

\* Slip: the statement has no ORDER BY.
AnyOrder(S) ==
  {s \in [1 .. Cardinality(S) -> S] : \A i, j \in DOMAIN s : i < j => s[i] # s[j]}

\* The latest first; rows of the same instant come in any order.
ByCreation(S) ==
  {s \in [1 .. Cardinality(S) -> S] :
     \A i, j \in DOMAIN s : i < j => s[i] # s[j] /\ s[i].at >= s[j].at}

Page(s, limit, offset) ==
  SubSeq(s, offset + 1, IF offset + limit > Len(s) THEN Len(s) ELSE offset + limit)

\* Connections are decrypted before they are listed, and one that cannot be
\* fails its whole page.
Decrypts(of, some) ==
  of = "connections" => \A i \in DOMAIN some : some[i].readable

(* The walk. *)

\* The client settles what it lists and how.  A client stops at a page with no
\* rows, or at one with fewer rows than it asked for.
StartListing ==
  /\ step = "start" /\ walk = NoWalk
  /\ table' \in SUBSET Pool
  /\ walk' \in [step: {"walking"}, of: {"connections", "workspaces"}, via: {"rest", "mcp"},
                stops: {"empty", "short"}, limit: Limits, first: FirstOffsets,
                offset: {0}, seen: {<<>>}, was: {table'}, new: {{}}, gone: {{}}]
  /\ UNCHANGED sessionVars

Walking == walk.step = "walking"

Asked == IF walk.limit <= 0 THEN DefaultLimit ELSE walk.limit

Stops(some) ==
  IF walk.stops = "empty" THEN some = <<>> ELSE Len(some) < Asked

\* A request without a user, with a negative offset or for a row that cannot be
\* decrypted fails; and so may any statement.
ListFails ==
  /\ Walking /\ Authorized
  /\ walk' = [walk EXCEPT !.step = "failed"]
  /\ UNCHANGED <<table, sessionVars>>

ListPage ==
  /\ Walking /\ Authorized /\ Tenant # ""
  /\ LET limit  == MetaLimit(GatewayLimit(walk.limit))
         offset == GatewayOffset(walk.via, walk.first + walk.offset)
     IN  /\ offset >= 0
         /\ \E s \in ByCreation(Matching(walk.of, Tenant)) :
              LET some == Page(s, limit, offset)
              IN  /\ Decrypts(walk.of, some)
                  /\ walk' = [walk EXCEPT !.seen = @ \o some, !.offset = @ + Len(some),
                                          !.step = IF Stops(some) THEN "done" ELSE @]
  /\ UNCHANGED <<table, sessionVars>>

(* Connections come and go.  created_at is when a transaction begins, so a    *)
(* new row need not be the latest.                                            *)

Changes == Cardinality(walk.new) + Cardinality(walk.gone)

ConnectionComes ==
  /\ Walking /\ Changes < MaxChanges
  /\ \E r \in Pool \ (table \cup walk.gone) :
       /\ r.kind = "connections"
       /\ table' = table \cup {r}
       /\ walk'  = [walk EXCEPT !.new = @ \cup {r}]
  /\ UNCHANGED sessionVars

ConnectionGoes ==
  /\ Walking /\ Changes < MaxChanges
  /\ \E r \in table :
       /\ r.kind = "connections"
       /\ table' = table \ {r}
       /\ walk'  = [walk EXCEPT !.gone = @ \cup {r}]
  /\ UNCHANGED sessionVars

(* The client. *)

JobSteps == SubmitQuery \/ ForeignQuery \/ GetJobStatus \/ GetJobResult \/
            EngineStep \/ EngineSettles \/ RecordExpires \/ RedisTurns

VisitNext ==
  \/ (LogIn \/ GenerateAgentToken \/ TokenExpires) /\ UNCHANGED listVars
  \/ walk = NoWalk /\ JobSteps /\ UNCHANGED listVars
  \/ StartListing \/ ListPage \/ ListFails \/ ConnectionComes \/ ConnectionGoes

VisitSpec == VisitInit /\ [][VisitNext]_visitVars

\* The client goes on, with a new token when it needs one, and keys expire.
\* Nothing is owed about the engine, nor about how a client begins to list.
VisitFairSpec ==
  /\ VisitSpec
  /\ WF_visitVars(LogIn /\ UNCHANGED listVars)
  /\ WF_visitVars(walk = NoWalk /\ SubmitQuery /\ UNCHANGED listVars)
  /\ WF_visitVars(walk = NoWalk /\ GetJobStatus /\ UNCHANGED listVars)
  /\ WF_visitVars(walk = NoWalk /\ GetJobResult /\ UNCHANGED listVars)
  /\ WF_visitVars(walk = NoWalk /\ RecordExpires /\ UNCHANGED listVars)
  /\ WF_visitVars(ListPage \/ ListFails)

(***************************************************************************)
(* Properties.                                                             *)
(***************************************************************************)

Own(S)   == {r \in S : r.kind = walk.of /\ r.user = "alice"}
Listed   == {walk.seen[i] : i \in DOMAIN walk.seen}
Untied(S) == \A r, q \in S : r.at = q.at => r = q

\* A walk that ends lists what was there all the time, unless one of its rows
\* was deleted before it; it lists nothing twice, unless one was added; and
\* never a row of another user.  Rows of one instant have no order, and a limit
\* that does not fit an int32 is another one by the time it counts
\* (gateway.go:454-476, app.go:245-262, postgres.go:186-193).
ListsWhatIsThere ==
  LET own == Own(walk.was \cup walk.new)
  IN  walk.step = "done" =>
        /\ Listed \subseteq own
        /\ walk.first = 0 /\ Asked < Half /\ Untied(own) =>
             /\ Own(walk.gone) = {} => Own(walk.was) \subseteq Listed
             /\ Own(walk.new) = {} => Len(walk.seen) = Cardinality(Listed)

\* The client comes to an end: pages end, and a job that nobody works on is
\* not found any more once its record has expired (store.go:316).
AgentFinishes == <>(step \in Ended \/ walk.step \in {"done", "failed"})
=============================================================================
