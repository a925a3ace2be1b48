----------------------------- MODULE QueryAnswers -----------------------------
(***************************************************************************)
(* One query on its way through QueryProcessor.Process, from its text and  *)
(* the parameters of its connection to the rows that are stored: the read  *)
(* of the connection, the sandbox, the call to the connection manager, an  *)
(* adapter in front of a small database, and the conversions of the answer.*)
(*                                                                         *)
(* What the query means is defined twice: by Reference, from the parts it  *)
(* was put together from, and by Evaluate, which reads the tokens the      *)
(* database gets.                                                          *)
(***************************************************************************)
EXTENDS Sandbox, ConnectionParams, Integers, TLC

CONSTANT
  Jobs \* a query as a record of its parts, its connection, the tenant

\* The column that Text sorts by, and that of the tenant.
ASSUME ColumnAssumption == "id" \in Names /\ "tenant" \in Names

VARIABLES
  query, tenant,
  stage,    \* "new", "queued", "unreadable", "loaded", "checked", "refused",
            \* "failed", "answered"
  loaded,   \* the parameters that the processor read
  sent,     \* the statement the adapter gets
  answer    \* the rows that MarkSucceeded stores

queryVars  == <<query, tenant, stage, loaded, sent, answer>>
answerVars == <<paramsVars, queryVars>>

dialect == given.adapter
policy  == [allowed |-> loaded.policy.allowed, column |-> loaded.policy.column, tenant |-> tenant]

\* The elements of s with a mark between each two.
Between(s, mark) ==
  [k \in 1 .. 2 * Len(s) - 1 |-> IF k % 2 = 1 THEN s[(k + 1) \div 2] ELSE mark]

Opt(word, s) == IF s = <<>> THEN <<>> ELSE word \o s

\* The text of a query.  Its last part is anything the sandbox should refuse.
Text(q) ==
  <<"select">> \o Between(q.cols, ",") \o <<"from">> \o Between(q.from, ".") \o q.alias
    \o Opt(<<"join">>, q.join) \o Opt(<<"where">>, q.where)
    \o (IF q.sorted THEN <<"order", "by", "id">> ELSE <<>>)
    \o Opt(<<"limit">>, q.limit) \o q.rest

\* Names may be typed in quotes; that keywords may is left out.
Typed == Seq(Unquoted \cup {Quote[n] : n \in Names})

NoDot(s) == s = <<>> \/ s[1] # "."

\* The parts of a query are what they are called: no name goes on in another
\* part, and the last one names its tables without a schema.
Regular(q) ==
  /\ {q.cols, q.from, q.alias, q.join, q.where, q.limit, q.rest} \subseteq Typed
  /\ q.from # <<>> /\ LastOf(q.from) # ";" /\ NoDot(q.alias) /\ NoDot(q.rest)
  /\ q.join # <<>> => q.join[1] # ";" /\ (Len(q.join) > 1 => q.join[2] # ".")
  /\ \A i \in 1 .. Len(q.rest) - 1 : q.rest[i] \in {"from", "join"} =>
       q.rest[i + 1] # ";" /\ (i + 1 < Len(q.rest) => q.rest[i + 2] # ".")

(* The database. *)

NULL == "null"
Row(i, t, x, y, s) == [id |-> i, tenant |-> t, p |-> x, r |-> y, note |-> s]

Data == <<Row(2, "acme", TRUE, FALSE, "b"), Row(1, "acme", FALSE, TRUE, NULL),
          Row(3, "other", TRUE, TRUE, "c"), Row(4, "acme", FALSE, FALSE, "d"),
          Row(6, "acme", TRUE, TRUE, "e"), Row(5, "acme", TRUE, FALSE, NULL)>>

Ascending == SortSeq(Data, LAMBDA a, b : a.id < b.id)

Prefix(s, n) == SubSeq(s, 1, IF n < Len(s) THEN n ELSE Len(s))

\* The rows, in their order, that are members of a set.
Chosen(rows, set) == SelectSeq(rows, LAMBDA row : row \in set)

Table == {Data[i] : i \in DOMAIN Data}

\* Conditions: OR binds weaker than AND.  What the parts mean is given.
Meaning(holds, c, row) ==
  LET or   == FirstAtTop(c, {"or"})
      and  == FirstAtTop(c, {"and"})
      L(i) == holds[SubSeq(c, 1, i - 1)]
      R(i) == holds[SubSeq(c, i + 1, Len(c))]
  IN  IF or <= Len(c) THEN L(or) \/ R(or)
      ELSE IF and <= Len(c) THEN L(and) /\ R(and)
      ELSE IF Tok(c, 1) = "(" THEN holds[SubSeq(c, 2, Len(c) - 1)]
      ELSE IF c \in {<<"p">>, <<"r">>} THEN row[c[1]]
      ELSE row[Unquote(c[3])] = c[5]

Holds(cond, row) ==
  LET holds[c \in Seq(Words)] == Meaning(holds, c, row)
  IN  holds[cond]

\* The name by which the columns of the table are qualified.
Visible(q) == IF q.alias = <<>> THEN LastOf(q.from) ELSE LastOf(q.alias)

\* What a name denotes.  PostgreSQL takes one without quotes for lower case,
\* ClickHouse takes every name as it is, SQLite makes no difference.
Denoted(tok) ==
  CASE dialect = "clickhouse" -> Unquote(tok)
    [] dialect = "postgres" /\ IsQuoted(tok) -> Unquote(tok)
    [] OTHER -> Lowered(Unquote(tok))

\* Can the database read it: at most one condition, one limit after it, names
\* it knows, its dialect.
Understands(q, ts) ==
  LET dots == {i \in FirstAtTop(ts, {"where"}) .. Len(ts) : Tok(ts, i) = "."}
  IN  /\ dialect # "bigquery"
      /\ Cardinality({i \in 1 .. Len(ts) : ts[i] = "limit"}) <= 1
      /\ \A i, k \in AtTop(ts, {"where"}) : i = k
      /\ AtTop(ts, {"where"}) # {} => FirstAtTop(ts, {"where"}) < FirstAtTop(ts, Closing)
      /\ \A i \in dots : Denoted(ts[i - 1]) = Denoted(Visible(q))
      /\ dialect = "mysql" => \A i \in 1 .. Len(ts) : ~IsQuoted(ts[i])
      /\ dialect = "mssql" => \A i \in 1 .. Len(ts) : ts[i] # "limit"

\* The condition of a statement, without the joined table.
Condition(ts) == SubSeq(ts, FirstAtTop(ts, {"where"}) + 1, FirstAtTop(ts, Closing) - 1)

Evaluate(ts) ==
  LET rows == IF FirstAtTop(ts, {"order"}) <= Len(ts) THEN Ascending ELSE Data
      kept == {row \in Table : Condition(ts) = <<>> \/ Holds(Condition(ts), row)}
      at   == FirstAtTop(ts, {"limit"})
  IN  Prefix(Chosen(rows, kept), IF at > Len(ts) THEN Len(rows) ELSE Atoi(ts[at + 1]))

(* The path of a query. *)

AnswersInit ==
  /\ \E j \in Jobs : ParamsInit({j.connection}) /\ query = j.query /\ tenant = j.tenant
  /\ stage = "new" /\ loaded = [fields |-> <<>>, policy |-> NoPolicy]
  /\ sent = <<>> /\ answer = <<>>

Create ==
  /\ stage = "new" /\ CreateConnection
  /\ stage' = "queued"
  /\ UNCHANGED <<query, tenant, loaded, sent, answer>>

GetConnection ==
  /\ stage = "queued"
  /\ \/ \E params \in Loaded : loaded' = params /\ stage' = "loaded"
     \/ Loaded = {} /\ stage' = "unreadable" /\ UNCHANGED loaded
  /\ UNCHANGED <<query, tenant, sent, answer, paramsVars>>

\* policyFromConnection and ValidatePolicy.
Check ==
  /\ stage = "loaded"
  /\ IF policy.allowed # {} /\ Allowed(Text(query), policy)
     THEN stage' = "checked" /\ sent' = Sanitized(Text(query), policy)
     ELSE stage' = "refused" /\ UNCHANGED sent
  /\ UNCHANGED <<query, tenant, loaded, answer, paramsVars>>

\* What the adapters make of the limit in the request; a plugin is free to.
LimitAtEnd(ts, n) == ts \o <<"limit", Numeral(n)>>

LimitOnTop(ts, n) == <<"select", "top", Numeral(n), "*", "from", "(">> \o ts \o <<")", "as", "t">>

WithLimit(ts, n) ==
  IF n <= 0 \/ dialect \notin DOMAIN Defaults THEN ts
  ELSE IF dialect = "mssql" THEN LimitOnTop(ts, n) ELSE LimitAtEnd(ts, n)

Requested == 0

\* The driver of MySQL gives text as bytes, which are formatted as numbers.
AsBytes(text) == "bytes of " \o text

\* A cell is formatted by %v.
Cell(row, c) ==
  IF c = "id" THEN ToString(row.id)
  ELSE IF row.note = NULL THEN "<nil>"
  ELSE IF dialect = "mysql" THEN AsBytes(row.note) ELSE row.note

\* The columns of a row are those of its map.
Mapped(row, cols) == [c \in {cols[i] : i \in 1 .. Len(cols)} |-> Cell(row, c)]

Execute ==
  /\ stage = "checked"
  /\ LET ts == WithLimit(sent, Requested)
     IN  IF BuildFails(dialect, loaded.fields) \/ ~Understands(query, ts)
         THEN stage' = "failed" /\ UNCHANGED answer
         ELSE /\ stage' = "answered"
              /\ answer' = [i \in 1 .. Len(Evaluate(ts)) |-> Mapped(Evaluate(ts)[i], query.cols)]
  /\ UNCHANGED <<query, tenant, loaded, sent, paramsVars>>

AnswersNext ==
  \/ Create \/ GetConnection \/ Check \/ Execute
  \/ (Restart \/ GetSchema) /\ UNCHANGED queryVars

AnswersSpec == AnswersInit /\ [][AnswersNext]_answerVars

(***************************************************************************)
(* Properties.                                                             *)
(***************************************************************************)

\* The tokens end in a table behind FROM or JOIN: its name and an alias at most.
EndInTable(s) ==
  \E p \in TableWords(s), n \in 1 .. Len(s) :
    /\ p < n /\ (n - p) % 2 = 1
    /\ \A k \in p + 1 .. n : s[k] = "." <=> (k - p) % 2 = 0
    /\ \/ n = Len(s)
       \/ n = Len(s) - 1 /\ s[n + 1] \in Names
       \/ n = Len(s) - 2 /\ s[n + 1] = "as"

\* The last part of a query names a table behind the token at i.
Introduces(q, i) ==
  \/ q.rest[i] \in {"from", "join"}
  \/ q.rest[i] = "," /\ EndInTable(SubSeq(Text(q), 1, Len(Text(q)) - Len(q.rest) + i - 1))

\* The tables that a query reads, but for those behind a comma that is not right
\* behind another table: in FROM t JOIN u ON p, v the last one is none of them.
Reads(q) ==
  {Folded(q.from)} \cup {Folded(<<q.join[i]>>) : i \in {i \in 1 .. Len(q.join) : i = 1}}
    \cup {Folded(<<q.rest[i + 1]>>) : i \in {i \in 1 .. Len(q.rest) - 1 : Introduces(q, i)}}

\* The list knows no case, and its names have no quotes.
Permitted(t) ==
  \E name \in policy.allowed : InLowerCase(name) = t \/ InLowerCase(name) = <<LastOf(t)>>

\* A single table, and no list of several anywhere.
OneTable(q) == q.join = <<>> /\ \A i \in 1 .. Len(q.rest) : q.rest[i] \notin {",", "join"}

\* The first rows of the tenant that satisfy the condition of the query.
Reference(q) ==
  LET rows == IF q.sorted THEN Ascending ELSE Data
      kept == {row \in Table : /\ q.where # <<>> => Holds(q.where, row)
                               /\ policy.column # "" => row.tenant = policy.tenant}
      most == IF q.limit = <<>> THEN DefaultRowLimit ELSE Atoi(q.limit[1])
  IN  Prefix(Chosen(rows, kept), most)

\* What the user should see of a row.
Told(row, cols) ==
  [c \in {cols[i] : i \in 1 .. Len(cols)} |->
     IF c = "id" THEN ToString(row.id) ELSE IF row.note = NULL THEN "<nil>" ELSE row.note]

\* What is stored for a query is what it asked for, of the rows of its tenant,
\* in its order and within both limits: neither rewrite changes its meaning
\* (sandbox.go:106-138, processor.go:127-151).  MySQL's text is left out, which
\* is not stored as text (adapter/mysql.go:100, grpc.go:84).
AnswerIsRight ==
  stage = "answered" /\ OneTable(query) /\ dialect # "mysql" =>
    answer = [i \in 1 .. Len(Reference(query)) |-> Told(Reference(query)[i], query.cols)]

\* The token scan finds every table behind FROM or JOIN, and one behind a comma
\* that follows the name or the alias of another (sandbox.go:203-262).  It looks
\* for commas there only: a list that goes on behind a join's condition, or
\* behind an alias in quotes without AS, is not seen.
ReadsOnlyAllowed == stage \in {"checked", "answered", "failed"} => \A t \in Reads(query) : Permitted(t)

\* The name of the table keeps its meaning when it is put in quotes: a table's
\* is put in lower case, an alias is not, and one in quotes must stand behind AS.
KeepsItsName(q) ==
  LET name == Visible(q)
  IN  IF q.alias = <<>> THEN Lowered(Unquote(name)) = Unquote(name)
      ELSE Lowered(name) = name /\ (Len(q.alias) = 1 => name \in Names)

\* A query of the accepted subset, with a policy it meets.
Plain(q) ==
  /\ q.rest \in {<<>>, <<";">>}
  /\ q.limit # <<>> => q.limit[1] \in Numerals /\ Atoi(q.limit[1]) <= DefaultRowLimit
  /\ \A t \in Reads(q) : Permitted(t)
  /\ policy.column # "" =>
       policy.column = "tenant" /\ policy.tenant # "" /\ q.join = <<>> /\ KeepsItsName(q)

\* Such a query is answered, by the databases whose SQL has LIMIT and takes
\* double quotes for names: the rewrites never turn it into one that the
\* database does not understand (sandbox.go:124-137, 219-231, processor.go:130).
\* Of a name that KeepsItsName leaves out this cannot be said: with a tenant
\* column, FROM orders O becomes "O"."tenant", which PostgreSQL does not know.
PlainIsAnswered ==
  Plain(query) /\ dialect \in {"postgres", "sqlite", "clickhouse"} =>
    stage \notin {"refused", "failed"}

\* Whatever key meta-service was restarted with since the connection was
\* created, a query runs on the database that the user tested or not at all,
\* and so is the schema read, unless meta-service runs with no key over what
\* it stored under one (app.go:152-158, processor.go:109, 169-173).
OneDatabase ==
  /\ stage = "answered" => ConnectionConfig(dialect, loaded.fields) = Tested
  /\ SchemaFromTested
=============================================================================
