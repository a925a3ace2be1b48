------------------------------- MODULE Catalog -------------------------------
(***************************************************************************)
(* The catalogue of services/meta-service: users, workspaces, connections, *)
(* schema snapshots and plugin definitions in PostgreSQL, behind the       *)
(* routes of the agent gateway.                                            *)
(*                                                                         *)
(* A request is a handler in meta-service.  It runs one SQL statement per  *)
(* step and opens no transaction, so requests interleave between           *)
(* statements and one can end halfway; the death of meta-service ends      *)
(* every request it serves in the same way.  Requests with malformed       *)
(* fields are refused before the first statement and are left out, and so  *)
(* are the listings, which change nothing.                                 *)
(***************************************************************************)
EXTENDS Naturals, Sequences, FiniteSets

CONSTANTS
  Users,          \* people, each with one e-mail address and password
  Conns,          \* identifiers the database can give a connection
  Plugins,        \* (name, version) pairs
  Requests,       \* handlers that run at the same time
  CatalogFaults,  \* the kinds of failure that may happen
  MaxVersion,     \* how often a customer database changes its schema
  Nothing

(***************************************************************************)
(*  db     a statement fails and changes nothing                           *)
(*  reply  a statement takes effect, and the handler is told it failed     *)
(*  cm     the connection manager, or the database behind it, fails        *)
(*  crash  the connection manager dies and restarts                        *)
(***************************************************************************)
CatalogFaultKinds == {"db", "reply", "cm", "crash"}

ASSUME CatalogAssumption ==
  /\ CatalogFaults \subseteq CatalogFaultKinds
  /\ MaxVersion \in Nat \ {0}
  /\ Nothing \notin Users \cup Conns \cup Plugins

VARIABLES
  users, workspaces,  \* rows of users; users with their Default Workspace
  live, owner,        \* rows of connections; the user each identifier was given to
  snaps,              \* snaps[c]: rows of schema_snapshots, the latest last
  defined, enabled,   \* rows of plugin_definitions and tenant_plugins
  schema,             \* schema[c]: the version of the customer's own schema
  req,                \* req[r]: where handler r stands
  told                \* what the answers without an error said, by kind

accounts    == <<users, workspaces>>
connections == <<live, owner, snaps>>
registered  == <<defined, enabled>>
store       == <<accounts, connections, registered>>
catalogVars == <<store, schema, req, told>>

Versions == 1 .. MaxVersion
Idle == [step |-> "idle", user |-> Nothing, target |-> Nothing, version |-> 0]

CatalogInit ==
  /\ users = {} /\ workspaces = {}
  /\ live = {} /\ owner = [c \in Conns |-> Nothing]
  /\ snaps = [c \in Conns |-> <<>>]
  /\ defined = {} /\ enabled = {}
  /\ schema = [c \in Conns |-> 1]
  /\ req = [r \in Requests |-> Idle]
  /\ told = [registered |-> {}, tokens |-> {}, deleted |-> {}, plugins |-> {}, schemas |-> {}]

(***************************************************************************)
(* The course of a request.                                                *)
(***************************************************************************)
At(r, step) == req[r].step = step

Starts(r, step, u, x) ==
  /\ At(r, "idle")
  /\ req' = [req EXCEPT ![r] = [step |-> step, user |-> u, target |-> x, version |-> 0]]
  /\ UNCHANGED <<store, told>>

GoesOn(r, step) ==
  /\ req' = [req EXCEPT ![r].step = step]
  /\ UNCHANGED told

Answers(r, facts) ==
  /\ req'  = [req EXCEPT ![r] = Idle]
  /\ told' = facts

ReplyLost(r) == "reply" \in CatalogFaults /\ Answers(r, told)

Fails(r) == Answers(r, told) /\ UNCHANGED store

StatementFails(r) == "db" \in CatalogFaults /\ Fails(r)

(***************************************************************************)
(* Register and log in.                                                    *)
(***************************************************************************)
InsertUser(r) ==
  /\ At(r, "insert user")
  /\ \/ /\ req[r].user \notin users
        /\ users' = users \cup {req[r].user}
        /\ GoesOn(r, "insert workspace") \/ ReplyLost(r)
        /\ UNCHANGED <<workspaces, connections, registered>>
     \/ req[r].user \in users /\ Fails(r)
     \/ StatementFails(r)

\* Slip: the error of CreateWorkspace is not looked at.
InsertWorkspaceUnchecked(r) ==
  /\ At(r, "insert workspace")
  /\ workspaces' \in {workspaces, workspaces \cup {req[r].user}}
  /\ Answers(r, [told EXCEPT !.registered = @ \cup {req[r].user}])
  /\ UNCHANGED <<users, connections, registered>>

InsertWorkspace(r) ==
  /\ At(r, "insert workspace")
  /\ \/ /\ workspaces' = workspaces \cup {req[r].user}
        /\ Answers(r, [told EXCEPT !.registered = @ \cup {req[r].user}]) \/ ReplyLost(r)
        /\ UNCHANGED <<users, connections, registered>>
     \/ StatementFails(r)

\* LoginUser and the token of the gateway, which the client keeps.
SelectUser(r) ==
  /\ At(r, "select user")
  /\ \/ /\ req[r].user \in users
        /\ Answers(r, [told EXCEPT !.tokens = @ \cup {req[r].user}])
        /\ UNCHANGED store
     \/ req[r].user \notin users /\ Fails(r)
     \/ StatementFails(r)

HasToken(u) == u \in told.tokens

(***************************************************************************)
(* Connections.  A client uses its own workspace.                          *)
(***************************************************************************)
\* Slip: WHERE id = $1 alone.
VisibleToAll(c, u) == c \in live

\* WHERE id = $1 AND tenant_id = $2
Visible(c, u) == c \in live /\ owner[c] = u

\* The identifier is new, and the foreign key needs the workspace.
InsertConnection(r) ==
  /\ At(r, "insert connection")
  /\ \/ \E c \in Conns :
          /\ owner[c] = Nothing /\ req[r].user \in workspaces
          /\ live'  = live \cup {c}
          /\ owner' = [owner EXCEPT ![c] = req[r].user]
          /\ \/ /\ req' = [req EXCEPT ![r].step = "read back", ![r].target = c]
                /\ UNCHANGED told
             \/ ReplyLost(r)
          /\ UNCHANGED <<snaps, accounts, registered>>
     \/ req[r].user \notin workspaces /\ Fails(r)
     \/ StatementFails(r)

\* The connection is read for the answer: it may be gone by now, and the read
\* may fail.
ReadBack(r) == At(r, "read back") /\ Fails(r)

\* The foreign key of schema_snapshots cascades.
DeleteConnection(r) ==
  /\ At(r, "delete connection")
  /\ \/ /\ Visible(req[r].target, req[r].user)
        /\ live'  = live \ {req[r].target}
        /\ snaps' = [snaps EXCEPT ![req[r].target] = <<>>]
        /\ Answers(r, [told EXCEPT !.deleted = @ \cup {req[r].target}]) \/ ReplyLost(r)
        /\ UNCHANGED <<owner, accounts, registered>>
     \/ ~Visible(req[r].target, req[r].user) /\ Fails(r)
     \/ StatementFails(r)

(***************************************************************************)
(* GetSchema: the latest snapshot, or a fresh one that is saved first.     *)
(***************************************************************************)
Showing(r, v) == [told EXCEPT !.schemas = @ \cup {<<req[r].user, req[r].target, v>>}]

LatestOf(c) == IF snaps[c] = <<>> THEN 0 ELSE snaps[c][Len(snaps[c])]

\* Slip: the cache is never hit.
SelectNoSnapshot(r) ==
  /\ At(r, "select snapshot")
  /\ \/ GoesOn(r, "select connection") /\ UNCHANGED store
     \/ StatementFails(r)

SelectSnapshot(r) ==
  LET c   == req[r].target
      u   == req[r].user
      hit == Visible(c, u) /\ snaps[c] # <<>>
  IN  /\ At(r, "select snapshot")
      /\ \/ hit  /\ Answers(r, Showing(r, LatestOf(c))) /\ UNCHANGED store
         \/ ~hit /\ GoesOn(r, "select connection") /\ UNCHANGED store
         \/ StatementFails(r)

SelectConnection(r) ==
  /\ At(r, "select connection")
  /\ \/ Visible(req[r].target, req[r].user) /\ GoesOn(r, "fetch schema") /\ UNCHANGED store
     \/ ~Visible(req[r].target, req[r].user) /\ Fails(r)
     \/ StatementFails(r)

\* The connection manager reads the customer's information_schema.
FetchSchema(r) ==
  /\ At(r, "fetch schema")
  /\ \/ /\ req' = [req EXCEPT ![r].step = "save snapshot", ![r].version = schema[req[r].target]]
        /\ UNCHANGED <<store, told>>
     \/ "cm" \in CatalogFaults /\ Fails(r)

\* Slip: schema_snapshots has no foreign key.
SaveSnapshotUnchecked(r) ==
  LET c == req[r].target  v == req[r].version
  IN  /\ At(r, "save snapshot")
      /\ \/ /\ snaps' = [snaps EXCEPT ![c] = Append(@, v)]
            /\ Answers(r, Showing(r, v)) \/ ReplyLost(r)
            /\ UNCHANGED <<live, owner, accounts, registered>>
         \/ StatementFails(r)

\* Slip: the answer does not wait for the error of the insert.
SaveSnapshotLater(r) ==
  LET c == req[r].target  v == req[r].version
  IN  /\ At(r, "save snapshot")
      /\ snaps' \in {snaps} \cup {[snaps EXCEPT ![d] = Append(@, v)] : d \in live \cap {c}}
      /\ Answers(r, Showing(r, v))
      /\ UNCHANGED <<live, owner, accounts, registered>>

\* A connection deleted in the meantime violates the foreign key.
SaveSnapshot(r) ==
  LET c == req[r].target  v == req[r].version
  IN  /\ At(r, "save snapshot")
      /\ \/ /\ c \in live
            /\ snaps' = [snaps EXCEPT ![c] = Append(@, v)]
            /\ Answers(r, Showing(r, v)) \/ ReplyLost(r)
            /\ UNCHANGED <<live, owner, accounts, registered>>
         \/ c \notin live /\ Fails(r)
         \/ StatementFails(r)

(***************************************************************************)
(* RegisterPlugin, for the tenant of the client.                           *)
(***************************************************************************)
InsertPlugin(r) ==
  LET p == req[r].target
  IN  /\ At(r, "insert plugin")
      /\ \/ /\ p \notin defined
            /\ defined' = defined \cup {p}
            /\ GoesOn(r, "enable plugin") \/ ReplyLost(r)
            /\ UNCHANGED <<enabled, accounts, connections>>
         \/ p \in defined /\ Fails(r)
         \/ StatementFails(r)

EnablePlugin(r) ==
  LET p == req[r].target
  IN  /\ At(r, "enable plugin")
      /\ \/ /\ enabled' = enabled \cup {p}
            /\ Answers(r, [told EXCEPT !.plugins = @ \cup {p}]) \/ ReplyLost(r)
            /\ UNCHANGED <<defined, accounts, connections>>
         \/ StatementFails(r)

(***************************************************************************)
(* The next-state relation.  A client knows the identifiers of the         *)
(* connections that were ever made, and all routes but the first two ask   *)
(* for its token.                                                          *)
(***************************************************************************)
Given == {c \in Conns : owner[c] # Nothing}

Register(r, u)  == Starts(r, "insert user", u, Nothing)
LogIn(r, u)     == Starts(r, "select user", u, Nothing)
Connect(r, u)   == Starts(r, "insert connection", u, Nothing)
GetSchema(r, u) == \E c \in Given : Starts(r, "select snapshot", u, c)
Delete(r, u)    == \E c \in Given : Starts(r, "delete connection", u, c)
RegisterPlugin(r, u) == \E p \in Plugins : Starts(r, "insert plugin", u, p)

WithToken(r, u) ==
  HasToken(u) /\ (Connect(r, u) \/ GetSchema(r, u) \/ Delete(r, u) \/ RegisterPlugin(r, u))

Statement(r) ==
  \/ InsertUser(r) \/ InsertWorkspace(r) \/ SelectUser(r)
  \/ InsertConnection(r) \/ ReadBack(r) \/ DeleteConnection(r)
  \/ SelectSnapshot(r) \/ SelectConnection(r) \/ FetchSchema(r) \/ SaveSnapshot(r)
  \/ InsertPlugin(r) \/ EnablePlugin(r)

\* A customer alters a table.
SchemaChanges(c) ==
  /\ schema[c] < MaxVersion
  /\ schema' = [schema EXCEPT ![c] = @ + 1]
  /\ UNCHANGED <<store, req, told>>

CatalogNext ==
  \/ \E r \in Requests :
       /\ Statement(r) \/ \E u \in Users : Register(r, u) \/ LogIn(r, u) \/ WithToken(r, u)
       /\ UNCHANGED schema
  \/ \E c \in Conns : SchemaChanges(c)

CatalogSpec == CatalogInit /\ [][CatalogNext]_catalogVars

(***************************************************************************)
(* Properties.                                                             *)
(***************************************************************************)
CatalogSteps ==
  {"idle", "insert user", "insert workspace", "select user", "insert connection", "read back",
   "delete connection", "select snapshot", "select connection", "fetch schema",
   "save snapshot", "insert plugin", "enable plugin"}

Facts == [registered: SUBSET Users, tokens: SUBSET Users, deleted: SUBSET Conns,
          plugins: SUBSET Plugins, schemas: SUBSET (Users \X Conns \X Versions)]

RowsTypeOK ==
  /\ users \subseteq Users /\ workspaces \subseteq Users
  /\ live \subseteq Conns /\ owner \in [Conns -> Users \cup {Nothing}]
  /\ snaps \in [Conns -> Seq(Versions)]
  /\ defined \subseteq Plugins /\ enabled \subseteq Plugins
  /\ schema \in [Conns -> Versions]
  /\ told \in Facts

\* An answer without an error is no promise: what it says was written
\* (app.go:140-202, 318-325; postgres.go:243-262), across the statements that
\* failed, succeeded in silence or ran for another request in between.
ToldMeansDone ==
  /\ told.registered \subseteq users \cap workspaces
  /\ told.plugins \subseteq defined \cap enabled
  /\ told.deleted \cap live = {}
  /\ \A u \in Users, c \in live, v \in Versions :
       <<u, c, v>> \in told.schemas => \E i \in 1 .. Len(snaps[c]) : snaps[c][i] = v

\* No snapshot is kept for a connection that was deleted, however late a request
\* that began before comes to save one (000001_init.up.sql:29).
SnapshotsHaveConnection == \A c \in Conns : snaps[c] # <<>> => c \in live

\* A schema is shown to the owner of the connection only, and is one the
\* customer's database has had (postgres.go:100-121, app.go:152-158).
SchemasAreOwn ==
  \A u \in Users, c \in Conns, v \in Versions :
    <<u, c, v>> \in told.schemas => owner[c] = u /\ v <= schema[c]

\* Snapshots are added only by requests that looked before there was any: the
\* cache holds at most one for each handler, however long it is used
\* (app.go:142-149).
SnapshotsAreBounded == \A c \in Conns : Len(snaps[c]) <= Cardinality(Requests)
=============================================================================
