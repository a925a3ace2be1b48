---------------------------- MODULE MCQueryAnswers ----------------------------
(***************************************************************************)
(* Instance of QueryAnswers: every combination of alias, condition, order  *)
(* and limit over one table, names in both cases and in quotes, joins,     *)
(* lists of tables, and one statement of each kind that the sandbox        *)
(* refuses.                                                                *)
(***************************************************************************)
EXTENDS QueryAnswers

MCNames == {"id", "note", "tenant", "p", "r", "s", "t", "T", "u", "x", "X", "y",
            "b", "e", "acme", "other"}

MCLower == [n \in MCNames |-> CASE n = "T" -> "t" [] n = "X" -> "x" [] OTHER -> n]

Quoted(w) == "'" \o w \o "'"
MCQuote   == [w \in Unquoted |-> Quoted(w)]

Simple == [cols |-> <<"id", "note">>, from |-> <<"t">>, alias |-> <<>>, join |-> <<>>,
           where |-> <<>>, sorted |-> FALSE, limit |-> <<>>, rest |-> <<>>]

MCConditions == {<<>>, <<"p">>, <<"p", "or", "r">>, <<"p", "and", "r">>,
                 <<"(", "p", "or", "r", ")", "and", "p">>}

MCPlain ==
  {[Simple EXCEPT !.from = f, !.alias = a, !.where = w, !.sorted = o, !.limit = l] :
     f \in {<<"t">>, <<"s", "t">>}, a \in {<<>>, <<"x">>, <<"as", "x">>},
     w \in MCConditions, o \in BOOLEAN, l \in {<<>>, <<"0">>, <<"2">>, <<"3">>, <<"9">>, <<"all">>}}

MCJoins ==
  {[Simple EXCEPT !.join = j, !.where = w, !.alias = a] :
     j \in {<<"u", "on", "p">>, <<"u", "on", "(", "p", ")">>, <<"u", "as", "y", "on", "p">>},
     w \in {<<>>, <<"p">>}, a \in {<<>>, <<"x">>}}

\* Names and aliases in both cases, with and without quotes.
MCNamed ==
  {[Simple EXCEPT !.from = f, !.alias = a, !.where = w] :
     f \in {<<"t">>, <<"T">>, <<Quoted("t")>>, <<Quoted("T")>>, <<"s", "T">>},
     a \in {<<>>} \cup UNION {{<<n>>, <<"as", n>>} : n \in {"x", "X", Quoted("x"), Quoted("X")}},
     w \in {<<>>, <<"p", "or", "r">>}}

\* Lists of tables that the scan does not see: behind the condition of a join,
\* and behind an alias in quotes.
MCLists ==
  {[Simple EXCEPT !.join = <<"t", "on", "p">>, !.rest = <<",", "u">>],
   [Simple EXCEPT !.alias = <<Quoted("x")>>, !.rest = <<",", "u">>]}

\* Endings that make a statement no plain query, and one that does not.
MCEndings ==
  {[Simple EXCEPT !.rest = e] :
     e \in {<<";">>, <<",", "u">>, <<"union", "select", "id", "from", "u">>,
            <<";", "select", "id", "from", "u">>, <<"for", "update">>, <<")">>, <<"(">>,
            <<"where", "id", "in", "(", "select", "id", "from", "u", ")">>,
            <<"join", "(", "select", "id", "from", "u", ")">>, <<"(", "u", ")">>,
            <<"join", "t", "y", ",", "u">>, <<"join", "u", "as", Quoted("y")>>, <<"join", "T">>,
            <<"join">>, <<"as">>}}

\* A second condition, and one behind the limit.
MCTwice ==
  {[Simple EXCEPT !.where = <<"p">>, !.rest = <<"where", "p", "or", "r">>],
   [Simple EXCEPT !.limit = <<"2">>, !.rest = <<"where", "p", "or", "r">>]}

\* Conditions that name their table.
MCQualified ==
  {[Simple EXCEPT !.where = <<"t", ".", "note", "=", "b">>],
   [Simple EXCEPT !.alias = <<"as", "x">>, !.where = <<"p", "and", "x", ".", "note", "=", "e">>]}

MCQueries == MCPlain \cup MCNamed \cup MCJoins \cup MCLists \cup MCEndings \cup MCTwice \cup MCQualified
               \cup {[Simple EXCEPT !.cols = <<"id", "id">>], [Simple EXCEPT !.cols = <<"note">>]}

MCPolicies ==
  [allowed: {{<<"T">>}, {<<"s", "t">>}, {<<"t">>, <<"u">>}}, column: {"", "tenant", "not a name"}]
    \cup {NoPolicy}

Fields(adapter) ==
  CASE adapter = "sqlite"   -> [path |-> <<"text", "/data/a">>]
    [] adapter = "bigquery" -> [project_id |-> <<"text", "p">>]
    [] OTHER                -> [host |-> <<"text", "db">>, user |-> <<"text", "n0">>, password |-> <<"text", "x">>]

On(adapter, f, p) == [adapter |-> adapter, params |-> [fields |-> f, policy |-> p]]

Adapters == {"postgres", "mysql", "clickhouse", "sqlite", "mssql", "bigquery", "plugin"}

\* Fields that are missing, empty, of another type, or of no use to the adapter.
MCFields ==
  {[host |-> <<"text", "db">>, port |-> <<"text", "7000">>], [host |-> <<"text", "">>],
   [port |-> <<"number", 7000>>, password |-> <<"text", "x">>],
   [project_id |-> <<"text", "p">>, location |-> <<"text", "EU">>, path |-> <<"text", "/data/b">>]}

Column(s, t, i, n) == [schema |-> s, table |-> t, position |-> i, name |-> n, nullable |-> i > 1]

\* Two tables of one name in two schemas.
MCColumns == {Column("public", "t", 1, "id"), Column("public", "t", 2, "note"),
              Column("public", "u", 1, "id"), Column("old", "t", 1, "id"), Column("old", "t", 2, "text")}

MCOwn == [allowed |-> {<<"t">>}, column |-> "tenant"]

MCJobs ==
  [query: MCQueries, connection: {On("postgres", Fields("postgres"), p) : p \in MCPolicies}, tenant: {"acme"}]
  \cup [query: MCEndings \cup MCNamed \cup MCLists \cup MCJoins \cup {[Simple EXCEPT !.limit = l, !.sorted = o] : l \in {<<>>, <<"2">>}, o \in BOOLEAN},
        connection: {On(a, Fields(a), p) : a \in Adapters, p \in MCPolicies}, tenant: {"acme"}]
  \cup [query: {Simple}, connection: {On(a, f, p) : a \in Adapters, f \in MCFields, p \in {MCOwn, NoPolicy}},
        tenant: {"acme", ""}]

ASSUME InstanceAssumption == \A j \in MCJobs : Regular(j.query)
=============================================================================
