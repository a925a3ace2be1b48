--------------------------- MODULE ConnectionParams ---------------------------
(***************************************************************************)
(* The parameters of one connection: given by a user, encrypted and stored *)
(* by meta-service, read again under the key that meta-service runs with   *)
(* by then, and made into what an adapter of the connection manager dials. *)
(*                                                                         *)
(* Parameters are fields and the query_policy, which is one of them but    *)
(* never says where to dial.  A field is a pair: the type of the JSON      *)
(* value and the value.                                                    *)
(***************************************************************************)
EXTENDS Naturals

CONSTANTS
  Keys,       \* values of ENCRYPTION_KEY
  NoKey,      \* meta-service runs without one
  Secret,     \* environment=production: it never does
  Columns,    \* columns in the user's database: schema, table, position, name
              \* and whether it takes NULL
  MaxRestarts \* restarts of meta-service with another key

ASSUME ParamsAssumption ==
  /\ NoKey \notin Keys /\ Keys # {}
  /\ Secret \in BOOLEAN /\ MaxRestarts \in Nat

VARIABLES
  given,     \* the adapter and the parameters of the user
  key, restarts,
  stored,    \* params in the row of connections, in a set that is empty before
  snapshots  \* the schema snapshot: where it was read, whether without a key,
             \* the tables

paramsVars == <<given, key, restarts, stored, snapshots>>

(* Encryption at rest. *)

NoPolicy == [allowed |-> {}, column |-> ""]

EncryptJSON(params, k) ==
  IF k = NoKey THEN params
  ELSE [fields |-> [_enc |-> <<"sealed", k, params>>], policy |-> NoPolicy]

IsSealed(params) == "_enc" \in DOMAIN params.fields

\* Slip: what cannot be decrypted passes for parameters of an old version.
DecryptLeniently(params, k) ==
  IF IsSealed(params) /\ params.fields._enc[2] = k THEN {params.fields._enc[3]} ELSE {params}

\* The parameters, or none when the key is another one.  Without a key, and
\* without encryption, they are taken as they are.
DecryptJSON(params, k) ==
  IF k = NoKey \/ ~IsSealed(params) THEN {params}
  ELSE IF params.fields._enc[2] = k THEN {params.fields._enc[3]} ELSE {}

(* What an adapter dials. *)

GetString(fields, f) ==
  IF f \in DOMAIN fields /\ fields[f][1] = "text" THEN fields[f][2] ELSE ""

Server(port) == [host |-> "localhost", port |-> port, user |-> "", password |-> "", database |-> ""]

\* The fields of each built-in adapter with their defaults.
Defaults ==
  [postgres   |-> [host |-> "localhost", port |-> "5432", user |-> "", password |-> "",
                   database |-> "", sslmode |-> "disable"],
   clickhouse |-> Server("9000"),
   mysql      |-> Server("3306"),
   mssql      |-> Server("1433"),
   sqlite     |-> [path |-> ":memory:"],
   bigquery   |-> [project_id |-> "", location |-> "US"]]

\* A URL has no password without a user.
BuildDSN(adapter, fields) ==
  [f \in DOMAIN Defaults[adapter] |->
     CASE f = "password" /\ adapter \in {"postgres", "clickhouse"} /\ GetString(fields, "user") = "" -> ""
       [] GetString(fields, f) = "" -> Defaults[adapter][f]
       [] OTHER -> GetString(fields, f)]

BuildFails(adapter, fields) == adapter = "bigquery" /\ GetString(fields, "project_id") = ""

\* A plugin gets the parameters as JSON; a pool of its own it keeps elsewhere.
PluginParams(fields) == fields

ConnectionConfig(adapter, fields) ==
  IF adapter \in DOMAIN Defaults THEN BuildDSN(adapter, fields) ELSE PluginParams(fields)

\* What TestConnection dials, which a user tries with the same parameters.
Tested == ConnectionConfig(given.adapter, given.params.fields)

(* Introspection. *)

\* Slip: the tables of all schemas.
InAnyScope(adapter, c) == TRUE

\* PostgreSQL shows the schema public, MySQL and ClickHouse their current
\* database, SQLite has no other; SQL Server shows every schema.
InScope(adapter, c) == adapter = "mssql" \/ c.schema = "public"

\* ClickHouse has no default_kind NOT_NULL.
Nullable(adapter, c) == adapter = "clickhouse" \/ c.nullable

Described(adapter, c) ==
  [position |-> c.position, name |-> c.name, nullable |-> Nullable(adapter, c)]

\* The rows are collected in a map by the bare name of the table.
Introspect(adapter) ==
  LET rows == {c \in Columns : InScope(adapter, c)}
  IN  [t \in {c.table : c \in rows} |->
         {Described(adapter, c) : c \in {d \in rows : d.table = t}}]

(* meta-service. *)

KeyChoices == IF Secret THEN Keys ELSE Keys \cup {NoKey}

ParamsInit(connections) ==
  /\ given \in connections
  /\ key \in KeyChoices /\ restarts = 0
  /\ stored = {} /\ snapshots = {}

Restart ==
  /\ restarts < MaxRestarts
  /\ key' \in KeyChoices \ {key}
  /\ restarts' = restarts + 1
  /\ UNCHANGED <<given, stored, snapshots>>

CreateConnection ==
  /\ stored = {}
  /\ stored' = {EncryptJSON(given.params, key)}
  /\ UNCHANGED <<given, key, restarts, snapshots>>

\* The parameters that a reader of the connection gets.
Loaded == UNION {DecryptJSON(params, key) : params \in stored}

\* meta-service has lost the key of the connection, and reads what is sealed.
Bare == key = NoKey /\ \E params \in stored : IsSealed(params)

\* GetSchema asks the adapter unless there is a snapshot, and saves the answer;
\* of BigQuery there is none.  Another database has other tables.
GetSchema ==
  /\ stored # {} /\ snapshots = {}
  /\ \E params \in Loaded :
       LET place == ConnectionConfig(given.adapter, params.fields)
       IN  /\ ~BuildFails(given.adapter, params.fields) /\ given.adapter # "bigquery"
           /\ snapshots' = {[place |-> place, bare |-> Bare,
                             tables |-> IF place = Tested THEN Introspect(given.adapter) ELSE <<>>]}
  /\ UNCHANGED <<given, key, restarts, stored>>

ParamsNext == Restart \/ CreateConnection \/ GetSchema
(***************************************************************************)
(* Properties.                                                             *)
(***************************************************************************)

\* A schema was read from the database that the user tested, unless
\* meta-service had no key for what it stored under one (app.go:152-158).
SchemaFromTested == \A s \in snapshots : s.bare \/ s.place = Tested

SameTable(c, d) == c.schema = d.schema /\ c.table = d.table

\* A schema lists a table with its own columns only, and all of them, although
\* rows are collected by the bare name of the table (adapter/postgres.go:127-146
\* and its copies); in SQL Server, as long as no two tables share that name.
SchemaIsWhole ==
  \A s \in snapshots, c \in Columns :
    /\ s.place = Tested /\ c.schema = "public"
    /\ given.adapter = "mssql" => \A d \in Columns : d.table = c.table => SameTable(c, d)
    => {x.name : x \in s.tables[c.table]} = {d.name : d \in {d \in Columns : SameTable(c, d)}}
=============================================================================
