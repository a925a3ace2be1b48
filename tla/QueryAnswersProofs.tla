-------------------------- MODULE QueryAnswersProofs --------------------------
(***************************************************************************)
(* Theorems about Sandbox, ConnectionParams and QueryAnswers, for all      *)
(* statements, policies, keys and columns, and any number of restarts.     *)
(***************************************************************************)
EXTENDS QueryAnswers, SequenceTheorems, FiniteSetTheorems, WellFoundedInduction, TLAPS

\* No connection is given with the one field that the encryption keeps for
\* itself (aes.go:61).
PlainParams == \A j \in Jobs : "_enc" \notin DOMAIN j.connection.params.fields

GivenInv == "_enc" \notin DOMAIN given.params.fields

Sealed(k) == [fields |-> [_enc |-> <<"sealed", k, given.params>>], policy |-> NoPolicy]

\* The row holds what was given, as it is or sealed under some key.
StoredInv == \A p \in stored : p = given.params \/ \E k \in Keys : p = Sealed(k)

\* A schema is that of the database it was read from, and this is the one that
\* was tested if the parameters could be read.
SnapshotsInv ==
  \A s \in snapshots :
    /\ s.bare \/ s.place = Tested
    /\ s.place = Tested => s.tables = Introspect(given.adapter)

\* The processor works with what was given, or with a sealed value that has no
\* policy and that it refuses for this.
LoadedInv ==
  /\ stage \in {"loaded", "checked", "failed", "answered"} =>
       loaded = given.params \/ loaded.policy = NoPolicy
  /\ stage \in {"checked", "failed", "answered"} => loaded.policy.allowed # {}

PathInv == GivenInv /\ key \in Keys \cup {NoKey} /\ StoredInv /\ SnapshotsInv /\ LoadedInv

\* What a sealed value holds.
LEMMA SealedShape ==
  ASSUME NEW k
  PROVE  IsSealed(Sealed(k)) /\ Sealed(k).fields._enc[2] = k /\ Sealed(k).fields._enc[3] = given.params
  BY DEF Sealed, IsSealed

\* What a reader of the connection gets.
LEMMA ReadsBack ==
  ASSUME GivenInv, StoredInv, NEW p \in Loaded
  PROVE  p = given.params \/ (Bare /\ p.policy = NoPolicy)
<1>1. PICK q \in stored : p \in DecryptJSON(q, key)
  BY DEF Loaded
<1>2. CASE q = given.params
  <2>1. ~IsSealed(q)
    BY <1>2 DEF GivenInv, IsSealed
  <2>2. DecryptJSON(q, key) = {q}
    BY <2>1 DEF DecryptJSON
  <2> QED
    BY <1>1, <1>2, <2>2
<1>3. ASSUME NEW k \in Keys, q = Sealed(k)
      PROVE  p = given.params \/ (Bare /\ p.policy = NoPolicy)
  <2>1. IsSealed(q) /\ q.fields._enc[2] = k /\ q.fields._enc[3] = given.params
    BY <1>3, SealedShape
  <2>2. q.policy = NoPolicy
    BY <1>3 DEF Sealed
  <2>3. CASE key = NoKey
    <3>1. p = q /\ Bare
      BY <1>1, <2>1, <2>3 DEF DecryptJSON, Bare
    <3> QED
      BY <2>2, <3>1
  <2>4. CASE key # NoKey
    <3>1. DecryptJSON(q, key) = {given.params} \/ DecryptJSON(q, key) = {}
      BY <2>1, <2>4 DEF DecryptJSON
    <3> QED
      BY <1>1, <3>1
  <2> QED
    BY <2>3, <2>4
<1> QED
  BY <1>2, <1>3 DEF StoredInv

\* The path starts in PathInv.
LEMMA PathInitial ==
  ASSUME PlainParams, AnswersInit
  PROVE  PathInv
<1>1. PICK j \in Jobs : given = j.connection
  BY DEF AnswersInit, ParamsInit
<1>2. GivenInv
  BY <1>1 DEF PlainParams, GivenInv
<1>3. key \in Keys \cup {NoKey} /\ stored = {} /\ snapshots = {} /\ stage = "new"
  BY DEF AnswersInit, ParamsInit, KeyChoices
<1> QED
  BY <1>2, <1>3 DEF PathInv, StoredInv, SnapshotsInv, LoadedInv

\* No step of a query, of a restart or of a schema read leaves PathInv.
LEMMA PathStep ==
  ASSUME PathInv, [AnswersNext]_answerVars
  PROVE  PathInv'
<1> USE DEF PathInv
<1>1. given' = given
  BY DEF AnswersNext, answerVars, paramsVars, Create, CreateConnection, GetConnection, Check, Execute,
     Restart, GetSchema
<1>2. GivenInv'
  BY <1>1 DEF GivenInv
<1>3. key' \in Keys \cup {NoKey}
  BY DEF AnswersNext, answerVars, paramsVars, Create, CreateConnection, GetConnection, Check, Execute,
     Restart, GetSchema, KeyChoices
<1>4. StoredInv'
  <2>1. CASE stored' = stored
    BY <1>1, <2>1 DEF StoredInv, Sealed
  <2>2. CASE CreateConnection
    <3>1. stored' = {EncryptJSON(given.params, key)}
      BY <2>2 DEF CreateConnection
    <3>2. CASE key = NoKey
      BY <1>1, <3>1, <3>2 DEF StoredInv, EncryptJSON
    <3>3. CASE key # NoKey
      <4>1. key \in Keys /\ EncryptJSON(given.params, key) = Sealed(key)
        BY <3>3 DEF EncryptJSON, Sealed
      <4>2. \A k : Sealed(k)' = Sealed(k)
        BY <1>1 DEF Sealed
      <4> QED
        BY <3>1, <4>1, <4>2 DEF StoredInv
    <3> QED
      BY <3>2, <3>3
  <2> QED
    BY <2>1, <2>2 DEF AnswersNext, answerVars, paramsVars, Create, GetConnection, Check, Execute,
       Restart, GetSchema
<1>5. SnapshotsInv'
  <2>1. Tested' = Tested /\ Introspect(given.adapter)' = Introspect(given.adapter)
    BY <1>1 DEF Tested
  <2>2. CASE snapshots' = snapshots
    BY <2>1, <2>2 DEF SnapshotsInv
  <2>3. CASE GetSchema
    <3>1. PICK p \in Loaded :
            snapshots' = {[place |-> ConnectionConfig(given.adapter, p.fields), bare |-> Bare,
                           tables |-> IF ConnectionConfig(given.adapter, p.fields) = Tested
                                      THEN Introspect(given.adapter) ELSE <<>>]}
      BY <2>3 DEF GetSchema
    <3>2. Bare \/ ConnectionConfig(given.adapter, p.fields) = Tested
      BY ReadsBack DEF Tested
    <3> QED
      BY <2>1, <3>1, <3>2 DEF SnapshotsInv
  <2> QED
    BY <2>2, <2>3 DEF AnswersNext, answerVars, paramsVars, Create, CreateConnection, GetConnection,
       Check, Execute, Restart
<1>6. LoadedInv'
  <2>1. CASE UNCHANGED <<stage, loaded>>
    BY <1>1, <2>1 DEF LoadedInv
  <2>2. CASE Create
    BY <2>2 DEF Create, LoadedInv
  <2>3. CASE GetConnection
    <3>1. CASE stage' = "unreadable"
      BY <3>1 DEF LoadedInv
    <3>2. ASSUME NEW p \in Loaded, loaded' = p, stage' = "loaded"
          PROVE  LoadedInv'
      BY <1>1, <3>2, ReadsBack DEF LoadedInv
    <3> QED
      BY <2>3, <3>1, <3>2 DEF GetConnection
  <2>4. CASE Check
    <3>1. stage = "loaded" /\ loaded' = loaded
      BY <2>4 DEF Check
    <3>2. (stage' = "checked" /\ loaded.policy.allowed # {}) \/ stage' = "refused"
      BY <2>4 DEF Check, policy
    <3> QED
      BY <1>1, <3>1, <3>2 DEF LoadedInv
  <2>5. CASE Execute
    <3>1. stage = "checked" /\ stage' \in {"failed", "answered"} /\ loaded' = loaded
      BY <2>5 DEF Execute
    <3> QED
      BY <1>1, <3>1 DEF LoadedInv
  <2> QED
    BY <2>1, <2>2, <2>3, <2>4, <2>5 DEF AnswersNext, answerVars, queryVars
<1> QED
  BY <1>2, <1>3, <1>4, <1>5, <1>6

\* PathInv is an invariant of the path of a query.
LEMMA PathIsInvariant ==
  ASSUME PlainParams
  PROVE  AnswersSpec => []PathInv
<1>1. AnswersInit => PathInv
  BY PathInitial
<1>2. PathInv /\ [AnswersNext]_answerVars => PathInv'
  BY PathStep
<1> QED
  BY <1>1, <1>2, PTL DEF AnswersSpec

\* However often meta-service restarts with another key or none, a query runs on
\* the database that was tested or not at all: what cannot be read has no
\* policy, and a query without a policy is refused (processor.go:109-125,
\* 169-173, app.go:152-158).
THEOREM QueryReachesItsDatabase ==
  ASSUME PlainParams
  PROVE  AnswersSpec => []OneDatabase
<1>1. PathInv => OneDatabase
  <2> SUFFICES ASSUME PathInv PROVE OneDatabase
    OBVIOUS
  <2>1. ASSUME stage = "answered" PROVE ConnectionConfig(dialect, loaded.fields) = Tested
    <3>1. loaded.policy.allowed # {} /\ NoPolicy.allowed = {}
      BY <2>1 DEF PathInv, LoadedInv, NoPolicy
    <3>2. loaded = given.params
      BY <2>1, <3>1 DEF PathInv, LoadedInv
    <3> QED
      BY <3>2 DEF Tested, dialect
  <2>2. SchemaFromTested
    BY DEF PathInv, SnapshotsInv, SchemaFromTested
  <2> QED
    BY <2>1, <2>2 DEF OneDatabase
<1> QED
  BY <1>1, PathIsInvariant, PTL

\* The tables of a schema are those of the database, each with its own columns:
\* collecting the rows by the bare name of a table mixes no two tables up unless
\* the adapter shows several schemas (adapter/postgres.go:127-146).
THEOREM SchemaTellsTables ==
  ASSUME PlainParams
  PROVE  AnswersSpec => []SchemaIsWhole
<1>1. PathInv => SchemaIsWhole
  <2> SUFFICES ASSUME PathInv, NEW s \in snapshots, NEW c \in Columns,
                      s.place = Tested, c.schema = "public",
                      given.adapter = "mssql" => \A d \in Columns : d.table = c.table => SameTable(c, d)
               PROVE  {x.name : x \in s.tables[c.table]} =
                      {d.name : d \in {d \in Columns : SameTable(c, d)}}
    BY DEF SchemaIsWhole
  <2> DEFINE shown == {d \in Columns : InScope(given.adapter, d)}
             own   == {d \in shown : d.table = c.table}
  <2>1. s.tables = Introspect(given.adapter)
    BY DEF PathInv, SnapshotsInv
  <2>2. c \in shown
    BY DEF InScope
  <2>3. s.tables[c.table] = {Described(given.adapter, d) : d \in own}
    BY <2>1, <2>2 DEF Introspect
  <2>4. own = {d \in Columns : SameTable(c, d)}
    BY DEF InScope, SameTable
  <2>5. \A d : Described(given.adapter, d).name = d.name
    BY DEF Described
  <2> HIDE DEF own
  <2> QED
    BY <2>3, <2>4, <2>5
<1> QED
  BY <1>1, PathIsInvariant, PTL

(***************************************************************************)
(* The tables that the sandbox finds.                                      *)
(***************************************************************************)
Tokens == Seq(Words)

\* The literals of the code are words.
LEMMA Literals ==
  /\ "select" \in Words /\ "," \in Words /\ "from" \in Words /\ "." \in Words /\ "join" \in Words
  /\ "where" \in Words /\ "order" \in Words /\ "by" \in Words /\ "id" \in Words /\ "limit" \in Words
  /\ "(" \in Words /\ ")" \in Words /\ "and" \in Words /\ "=" \in Words
  /\ {"0", "1", "2", "3", "9"} \subseteq Words
<1>1. SqlWords \cup Symbols \cup Numerals \cup Names \subseteq Words
  BY DEF Words, Unquoted
<1>2. /\ {"select", "from", "by", "and"} \subseteq SqlWords
      /\ {"join", "where", "order", "limit"} \subseteq Reserved /\ Reserved \subseteq SqlWords
      /\ {",", ".", "(", ")", "="} \subseteq Symbols
  BY Zenon DEF SqlWords, Reserved, Symbols
<1>3. Numerals = {"0", "1", "2", "3", "9"} /\ "id" \in Names
  BY ColumnAssumption DEF Numerals
<1> QED
  BY <1>1, <1>2, <1>3, Zenon

\* What is typed consists of words.
LEMMA TypedAreTokens ==
  ASSUME NEW s \in Typed
  PROVE  s \in Tokens
<1>1. Names \subseteq Unquoted
  BY DEF Unquoted
<1>2. Unquoted \cup {Quote[n] : n \in Names} \subseteq Words
  BY <1>1 DEF Words, QuotedWords
<1> QED
  BY <1>2 DEF Typed, Tokens

\* A word alone is a statement.
LEMMA OneToken ==
  ASSUME NEW w \in Words
  PROVE  <<w>> \in Tokens /\ Len(<<w>>) = 1 /\ <<w>>[1] = w
  BY DEF Tokens

\* So are two, three and five.
LEMMA FewTokens ==
  ASSUME NEW u \in Words, NEW v \in Words, NEW w \in Words, NEW x \in Words, NEW y \in Words
  PROVE  /\ <<u, v, w>> \in Tokens /\ Len(<<u, v, w>>) = 3
         /\ <<u, v, w, x, y>> \in Tokens /\ Len(<<u, v, w, x, y>>) = 5
         /\ <<u, v>> \in Tokens /\ Len(<<u, v>>) = 2
  BY DEF Tokens

Semicolon == ";"

\* Regular with its literals folded.
LEMMA RegularIs ==
  ASSUME NEW q, Regular(q)
  PROVE  /\ q.cols \in Tokens /\ q.from \in Tokens /\ q.alias \in Tokens /\ q.join \in Tokens
         /\ q.where \in Tokens /\ q.limit \in Tokens /\ q.rest \in Tokens
         /\ q.from # <<>> /\ LastOf(q.from) # Semicolon /\ NoDot(q.alias) /\ NoDot(q.rest)
         /\ q.join # <<>> => q.join[1] # Semicolon /\ (Len(q.join) > 1 => q.join[2] # ".")
         /\ \A i \in 1 .. Len(q.rest) - 1 : q.rest[i] \in {"from", "join"} =>
              q.rest[i + 1] # Semicolon /\ (i + 1 < Len(q.rest) => q.rest[i + 2] # ".")
<1>1. \A s \in {q.cols, q.from, q.alias, q.join, q.where, q.limit, q.rest} : s \in Tokens
  BY TypedAreTokens DEF Regular
<1>2. /\ q.from # <<>> /\ LastOf(q.from) # Semicolon /\ NoDot(q.alias) /\ NoDot(q.rest)
      /\ q.join # <<>> => q.join[1] # Semicolon /\ (Len(q.join) > 1 => q.join[2] # ".")
      /\ \A i \in 1 .. Len(q.rest) - 1 : q.rest[i] \in {"from", "join"} =>
           q.rest[i + 1] # Semicolon /\ (i + 1 < Len(q.rest) => q.rest[i + 2] # ".")
  BY Zenon DEF Regular, Semicolon
<1> QED
  BY <1>1, <1>2

\* In ts, a table is named behind the word at p.
NameAt(ts, p, name) ==
  /\ ts \in Tokens /\ p \in 1 .. Len(ts) /\ ts[p] \in {"from", "join"}
  /\ name \in Tokens /\ name # <<>> /\ name[Len(name)] # Semicolon
  /\ \A k \in 1 .. 2 * Len(name) - 1 : p + k \in 1 .. Len(ts) /\ ts[p + k] = Between(name, ".")[k]
  /\ Tok(ts, p + 2 * Len(name)) # "."

\* The scan for names finds it, all of it and nothing more (sandbox.go:214-219).
LEMMA NameIsRead ==
  ASSUME NEW ts, NEW p, NEW name, NameAt(ts, p, name)
  PROVE  /\ p \in TableWords(ts) /\ NameEnd(ts, p) = p + 2 * Len(name) - 1
         /\ PartsAt(ts, p) = name /\ TableAt(ts, p) = Folded(name)
<1> DEFINE n == Len(name)
           last == p + 2 * n - 1
           ends == {m \in p + 1 .. Len(ts) : (m - p) % 2 = 1 /\ \A k \in p + 1 .. m : (k - p) % 2 = 0 => ts[k] = "."}
<1>1. /\ ts \in Tokens /\ p \in 1 .. Len(ts) /\ Len(ts) \in Nat /\ p \in Nat
      /\ name \in Tokens /\ n \in Nat \ {0} /\ DOMAIN name = 1 .. n
  BY DEF NameAt, Tokens
<1>2. \A k \in 1 .. 2 * n - 1 : p + k \in 1 .. Len(ts) /\ ts[p + k] = Between(name, ".")[k]
  BY DEF NameAt
<1>3. \A k \in 1 .. 2 * n - 1 : Between(name, ".")[k] = IF k % 2 = 1 THEN name[(k + 1) \div 2] ELSE "."
  BY DEF Between
<1> HIDE DEF n
<1>4. last \in ends
  <2>1. last \in p + 1 .. Len(ts)
    <3>1. 2 * n - 1 \in 1 .. 2 * n - 1 /\ p + (2 * n - 1) = last
      BY <1>1
    <3>2. p + (2 * n - 1) \in 1 .. Len(ts)
      BY <1>2, <3>1
    <3> QED
      BY <1>1, <3>1, <3>2
  <2>2. (last - p) % 2 = 1
    BY <1>1
  <2>3. ASSUME NEW k \in p + 1 .. last, (k - p) % 2 = 0 PROVE ts[k] = "."
    <3>1. k - p \in 1 .. 2 * n - 1 /\ p + (k - p) = k
      BY <1>1
    <3> QED
      BY <1>2, <1>3, <2>3, <3>1
  <2> QED
    BY <2>1, <2>2, <2>3
<1>5. ASSUME NEW m \in ends PROVE m <= last
  <2>1. m \in Int
    BY <1>1
  <2> SUFFICES ASSUME m > last PROVE FALSE
    BY <1>1, <2>1
  <2>2. last + 1 \in p + 1 .. m /\ last + 1 \in 1 .. Len(ts) /\ last + 1 = p + 2 * n
        /\ ((last + 1) - p) % 2 = 0
    BY <1>1, <2>1
  <2>3. ts[p + 2 * n] = "."
    BY <2>2
  <2> QED
    BY <2>2, <2>3 DEF NameAt, Tok, n
<1>6. NameEnd(ts, p) = last
  <2>1. \A m \in ends : (\A k \in ends : k <= m) => m = last
    <3> SUFFICES ASSUME NEW m \in ends, \A k \in ends : k <= m PROVE m = last
      OBVIOUS
    <3>1. last <= m /\ m <= last
      BY <1>4, <1>5
    <3>2. m \in Int /\ last \in Int
      BY <1>1
    <3> QED
      BY <3>1, <3>2
  <2>2. (CHOOSE m \in ends : \A k \in ends : k <= m) = last
    BY <1>4, <1>5, <2>1
  <2> QED
    BY <2>2 DEF NameEnd
<1>7. PartsAt(ts, p) = name
  <2>1. (NameEnd(ts, p) - p + 1) \div 2 = n
    BY <1>1, <1>6
  <2>2. ASSUME NEW k \in 1 .. n PROVE ts[p + 2 * k - 1] = name[k]
    <3>1. 2 * k - 1 \in 1 .. 2 * n - 1 /\ p + (2 * k - 1) = p + 2 * k - 1
          /\ (2 * k - 1) % 2 = 1 /\ ((2 * k - 1) + 1) \div 2 = k
      BY <1>1
    <3> QED
      BY <1>2, <1>3, <3>1
  <2>3. name = [k \in 1 .. n |-> name[k]]
    BY <1>1 DEF Tokens, n
  <2> QED
    BY <2>1, <2>2, <2>3 DEF PartsAt
<1> QED
  BY <1>1, <1>6, <1>7 DEF NameAt, TableWords, TableAt, n

\* It stays where it is when the statement goes on.
LEMMA NameStays ==
  ASSUME NEW ts, NEW p, NEW name, NameAt(ts, p, name), NEW more \in Tokens, NoDot(more)
  PROVE  NameAt(ts \o more, p, name)
<1> DEFINE both == ts \o more
           n == Len(name)
<1>1. /\ ts \in Tokens /\ p \in 1 .. Len(ts) /\ Len(ts) \in Nat
      /\ name \in Tokens /\ n \in Nat \ {0} /\ Len(more) \in Nat
  BY DEF NameAt, Tokens
<1>2. /\ both \in Tokens /\ Len(both) = Len(ts) + Len(more)
      /\ \A i \in 1 .. Len(ts) + Len(more) :
           both[i] = IF i <= Len(ts) THEN ts[i] ELSE more[i - Len(ts)]
  BY <1>1, ConcatProperties DEF Tokens
<1> HIDE DEF both, n
<1>3. \A i \in 1 .. Len(ts) : i \in 1 .. Len(both) /\ both[i] = ts[i]
  BY <1>1, <1>2
<1>4. \A k \in 1 .. 2 * n - 1 : p + k \in 1 .. Len(both) /\ both[p + k] = Between(name, ".")[k]
  BY <1>3 DEF NameAt, n
<1>5. Tok(both, p + 2 * n) # "."
  <2>1. p + 2 * n - 1 \in 1 .. Len(ts)
    <3>1. 2 * n - 1 \in 1 .. 2 * n - 1 /\ p + (2 * n - 1) = p + 2 * n - 1
      BY <1>1
    <3> QED
      BY <3>1 DEF NameAt, n
  <2>2. CASE p + 2 * n \in 1 .. Len(ts)
    BY <1>3, <2>2 DEF NameAt, Tok, n
  <2>3. CASE p + 2 * n \notin 1 .. Len(ts)
    <3>1. p + 2 * n = Len(ts) + 1
      BY <1>1, <2>1, <2>3
    <3>2. CASE Len(more) = 0
      BY <1>1, <1>2, <3>1, <3>2 DEF Tok
    <3>3. CASE Len(more) # 0
      <4>1. both[p + 2 * n] = more[1] /\ more[1] # "."
        BY <1>1, <1>2, <3>1, <3>3 DEF NoDot
      <4> QED
        BY <4>1 DEF Tok
    <3> QED
      BY <3>2, <3>3
  <2> QED
    BY <2>2, <2>3
<1> QED
  BY <1>1, <1>2, <1>3, <1>4, <1>5 DEF NameAt, both, n

\* And when the last semicolon is taken off.
LEMMA NameIsTrimmed ==
  ASSUME NEW ts, NEW p, NEW name, NameAt(ts, p, name)
  PROVE  NameAt(Trimmed(ts), p, name)
<1> DEFINE n == Len(name)
           short == SubSeq(ts, 1, Len(ts) - 1)
<1>1. /\ ts \in Tokens /\ p \in 1 .. Len(ts) /\ Len(ts) \in Nat
      /\ name \in Tokens /\ n \in Nat \ {0}
  BY DEF NameAt, Tokens
<1>2. short \in Tokens /\ Len(short) = Len(ts) - 1 /\ \A i \in 1 .. Len(ts) - 1 : short[i] = ts[i]
  <2>1. \A i \in 1 .. Len(ts) - 1 : ts[i] \in Words
    BY <1>1 DEF Tokens
  <2> DEFINE e == Len(ts) - 1
  <2>2. /\ SubSeq(ts, 1, e) \in Seq(Words) /\ Len(SubSeq(ts, 1, e)) = IF 1 <= e THEN e - 1 + 1 ELSE 0
        /\ \A i \in 1 .. e - 1 + 1 : SubSeq(ts, 1, e)[i] = ts[1 + i - 1]
    <3>1. e \in Int /\ \A i \in 1 .. e : ts[i] \in Words
      BY <1>1, <2>1
    <3> HIDE DEF e
    <3> QED
      BY <3>1, SubSeqProperties
  <2>3. e - 1 + 1 = Len(ts) - 1 /\ e \in Nat /\ \A i \in Int : 1 + i - 1 = i
    BY <1>1
  <2> QED
    BY <2>2, <2>3 DEF Tokens
<1>3. \A k \in 1 .. 2 * n - 1 : p + k \in 1 .. Len(ts) /\ ts[p + k] = Between(name, ".")[k]
  BY DEF NameAt
<1>4. \A k \in 1 .. 2 * n - 1 : Between(name, ".")[k] = IF k % 2 = 1 THEN name[(k + 1) \div 2] ELSE "."
  BY DEF Between
<1>5. name[n] # Semicolon /\ Tok(ts, p + 2 * n) # "."
  BY DEF NameAt
<1>6. Trimmed(ts) = IF Tok(ts, Len(ts)) = Semicolon THEN short ELSE ts
  BY Zenon DEF Trimmed, Semicolon
<1>7. ASSUME short \in Tokens, p \in 1 .. Len(short), short[p] = ts[p], Tok(short, p + 2 * n) # ".",
             \A k \in 1 .. 2 * n - 1 : p + k \in 1 .. Len(short) /\ short[p + k] = Between(name, ".")[k]
      PROVE  NameAt(short, p, name)
  BY <1>7 DEF NameAt
<1> HIDE DEF n, short
<1>8. CASE Tok(ts, Len(ts)) = Semicolon
  <2>1. ts[Len(ts)] = Semicolon
    BY <1>1, <1>8 DEF Tok
  <2>2. 2 * n - 1 \in 1 .. 2 * n - 1 /\ (2 * n - 1) % 2 = 1 /\ ((2 * n - 1) + 1) \div 2 = n
    BY <1>1
  <2>3. p + (2 * n - 1) \in 1 .. Len(ts) /\ ts[p + (2 * n - 1)] # Semicolon
    BY <1>3, <1>4, <1>5, <2>2
  <2>4. p + (2 * n - 1) <= Len(ts) - 1
    BY <1>1, <2>1, <2>3
  <2>5. \A i \in 1 .. p + (2 * n - 1) : i \in 1 .. Len(short) /\ short[i] = ts[i]
    BY <1>1, <1>2, <2>4
  <2>6. p \in 1 .. p + (2 * n - 1) /\ \A k \in 1 .. 2 * n - 1 : p + k \in 1 .. p + (2 * n - 1)
    BY <1>1
  <2>7. Tok(short, p + 2 * n) # "."
    <3>1. CASE p + 2 * n \in 1 .. Len(short)
      <4>1. p + 2 * n \in 1 .. Len(ts) /\ short[p + 2 * n] = ts[p + 2 * n]
        BY <1>1, <1>2, <3>1
      <4> QED
        BY <1>5, <3>1, <4>1 DEF Tok
    <3> QED
      BY <3>1 DEF Tok
  <2>8. NameAt(short, p, name)
    BY <1>2, <1>3, <1>7, <2>5, <2>6, <2>7
  <2> QED
    BY <1>6, <1>8, <2>8
<1> QED
  BY <1>6, <1>8

\* Where the tokens of two parts are behind each other.
LEMMA Joined ==
  ASSUME NEW a \in Tokens, NEW b \in Tokens
  PROVE  /\ a \o b \in Tokens /\ Len(a \o b) = Len(a) + Len(b) /\ Len(a) \in Nat /\ Len(b) \in Nat
         /\ \A i \in 1 .. Len(a) : i \in 1 .. Len(a \o b) /\ (a \o b)[i] = a[i]
         /\ \A k \in 1 .. Len(b) : Len(a) + k \in 1 .. Len(a \o b) /\ (a \o b)[Len(a) + k] = b[k]
<1> DEFINE both == a \o b
<1>1. /\ both \in Tokens /\ Len(both) = Len(a) + Len(b) /\ Len(a) \in Nat /\ Len(b) \in Nat
      /\ \A i \in 1 .. Len(a) + Len(b) : both[i] = IF i <= Len(a) THEN a[i] ELSE b[i - Len(a)]
  BY ConcatProperties DEF Tokens
<1> HIDE DEF both
<1>2. \A i \in 1 .. Len(a) : i \in 1 .. Len(both) /\ both[i] = a[i]
  BY <1>1
<1>3. ASSUME NEW k \in 1 .. Len(b) PROVE Len(a) + k \in 1 .. Len(both) /\ both[Len(a) + k] = b[k]
  <2>1. Len(a) + k \in 1 .. Len(a) + Len(b) /\ ~(Len(a) + k <= Len(a)) /\ Len(a) + k - Len(a) = k
    BY <1>1
  <2> QED
    BY <1>1, <2>1
<1> QED
  BY <1>1, <1>2, <1>3 DEF both

\* A name with its dots, or a list with its commas, in tokens.
LEMMA MarkedTokens ==
  ASSUME NEW s \in Tokens, NEW mark \in Words
  PROVE  Between(s, mark) \in Tokens /\ (s # <<>> => Len(Between(s, mark)) = 2 * Len(s) - 1)
<1> DEFINE n == Len(s)
<1>1. n \in Nat /\ DOMAIN s = 1 .. n /\ (s # <<>> => n > 0) /\ (s = <<>> => n = 0)
      /\ \A i \in 1 .. n : s[i] \in Words
  BY DEF Tokens
<1>2. Between(s, mark) = [k \in 1 .. 2 * n - 1 |-> IF k % 2 = 1 THEN s[(k + 1) \div 2] ELSE mark]
  BY DEF Between
<1> HIDE DEF n
<1>3. ASSUME NEW k \in 1 .. 2 * n - 1, k % 2 = 1 PROVE (k + 1) \div 2 \in 1 .. n
  BY <1>1, <1>3
<1>4. Between(s, mark) \in [1 .. 2 * n - 1 -> Words]
  BY <1>1, <1>2, <1>3
<1>5. ASSUME NEW m \in Nat, NEW f \in [1 .. m -> Words] PROVE f \in Tokens /\ Len(f) = m
  BY DEF Tokens
<1>6. CASE n = 0
  <2>1. 1 .. 2 * n - 1 = 1 .. 0 /\ s = <<>>
    BY <1>1, <1>6
  <2>2. Between(s, mark) \in [1 .. 0 -> Words]
    BY <1>4, <2>1
  <2> QED
    BY <1>5, <2>1, <2>2
<1>7. CASE n # 0
  <2>1. 2 * n - 1 \in Nat
    BY <1>1, <1>7
  <2>2. Between(s, mark) \in Tokens /\ Len(Between(s, mark)) = 2 * n - 1
    BY <1>4, <1>5, <2>1
  <2> QED
    BY <2>2 DEF n
<1> QED
  BY <1>6, <1>7

\* The table behind FROM.
LEMMA NameBehind ==
  ASSUME NEW a \in Tokens, a # <<>>, a[Len(a)] \in {"from", "join"},
         NEW name \in Tokens, name # <<>>, name[Len(name)] # Semicolon
  PROVE  NameAt(a \o Between(name, "."), Len(a), name)
<1> DEFINE b == Between(name, ".")
           both == a \o b
<1>1. b \in Tokens /\ Len(b) = 2 * Len(name) - 1
  <2>1. "." \in Words
    BY Literals
  <2> QED
    BY <2>1, MarkedTokens
<1>2. Len(a) \in Nat \ {0} /\ Len(name) \in Nat \ {0}
  BY DEF Tokens
<1> HIDE DEF b
<1>3. /\ both \in Tokens /\ Len(both) = Len(a) + Len(b)
      /\ \A i \in 1 .. Len(a) : i \in 1 .. Len(both) /\ both[i] = a[i]
      /\ \A k \in 1 .. Len(b) : Len(a) + k \in 1 .. Len(both) /\ both[Len(a) + k] = b[k]
  BY <1>1, Joined
<1> HIDE DEF both
<1>4. Len(a) \in 1 .. Len(a)
  BY <1>2
<1>5. Tok(both, Len(a) + 2 * Len(name)) # "."
  <2>1. Len(a) + 2 * Len(name) \notin 1 .. Len(both)
    BY <1>1, <1>2, <1>3
  <2> QED
    BY <2>1 DEF Tok
<1>6. NameAt(both, Len(a), name)
  BY <1>1, <1>3, <1>4, <1>5 DEF NameAt, b
<1> QED
  BY <1>6 DEF both, b

\* A table of one name inside a part of the statement.
LEMMA NameInside ==
  ASSUME NEW a \in Tokens, NEW b \in Tokens, NEW i \in 1 .. Len(b) - 1, b[i] \in {"from", "join"},
         b[i + 1] # Semicolon, i + 2 <= Len(b) => b[i + 2] # "."
  PROVE  NameAt(a \o b, Len(a) + i, <<b[i + 1]>>)
<1> DEFINE both == a \o b
           p    == Len(a) + i
           name == <<b[i + 1]>>
<1>1. /\ both \in Tokens /\ Len(both) = Len(a) + Len(b) /\ Len(a) \in Nat /\ Len(b) \in Nat
      /\ \A k \in 1 .. Len(b) : Len(a) + k \in 1 .. Len(both) /\ both[Len(a) + k] = b[k]
  BY Joined
<1> HIDE DEF both
<1>2. i \in 1 .. Len(b) /\ i + 1 \in 1 .. Len(b) /\ i \in Nat /\ Len(a) + (i + 1) = p + 1
  BY <1>1
<1>3. p \in 1 .. Len(both) /\ both[p] \in {"from", "join"} /\ p + 1 \in 1 .. Len(both) /\ both[p + 1] = b[i + 1]
  BY <1>1, <1>2
<1>4. Tok(both, p + 2) # "."
  <2>1. CASE i + 2 <= Len(b)
    <3>1. i + 2 \in 1 .. Len(b) /\ Len(a) + (i + 2) = p + 2
      BY <1>1, <1>2, <2>1
    <3>2. both[p + 2] = b[i + 2]
      BY <1>1, <3>1
    <3> QED
      BY <2>1, <3>2 DEF Tok
  <2>2. CASE ~(i + 2 <= Len(b))
    <3>1. p + 2 \notin 1 .. Len(both)
      BY <1>1, <1>2, <2>2
    <3> QED
      BY <3>1 DEF Tok
  <2> QED
    BY <2>1, <2>2
<1>5. b[i + 1] \in Words
  BY <1>2 DEF Tokens
<1>6. name \in Tokens /\ name # <<>> /\ Len(name) = 1 /\ name[1] = b[i + 1]
  BY <1>5 DEF Tokens
<1>7. Between(name, ".")[1] = b[i + 1]
  <2>1. Between(name, ".") = [k \in 1 .. 2 * 1 - 1 |-> IF k % 2 = 1 THEN name[(k + 1) \div 2] ELSE "."]
    BY <1>6 DEF Between
  <2>2. 1 \in 1 .. 2 * 1 - 1 /\ 1 % 2 = 1 /\ (1 + 1) \div 2 = 1
    OBVIOUS
  <2> HIDE DEF name
  <2> QED
    BY <1>6, <2>1, <2>2
<1> HIDE DEF name, p
<1>8. \A k \in 1 .. 2 * Len(name) - 1 : k = 1
  BY <1>6
<1>9. p + 2 * Len(name) = p + 2 /\ name[Len(name)] # Semicolon
  BY <1>6
<1>10. NameAt(both, p, name)
  BY <1>1, <1>3, <1>4, <1>6, <1>7, <1>8, <1>9 DEF NameAt
<1> QED
  BY <1>10 DEF both, name, p

\* The parts of a text, from its beginning up to FROM and each of the others.
UpToFrom(q)   == <<"select">> \o Between(q.cols, ",") \o <<"from">>
UpToTable(q)  == UpToFrom(q) \o Between(q.from, ".")
JoinPart(q)   == Opt(<<"join">>, q.join)
WherePart(q)  == Opt(<<"where">>, q.where)
SortedPart(q) == IF q.sorted THEN <<"order", "by", "id">> ELSE <<>>
LimitPart(q)  == Opt(<<"limit">>, q.limit)

\* The parts of a query as Text puts them behind each other.
LEMMA PartsAreTokens ==
  ASSUME NEW q, Regular(q)
  PROVE  /\ UpToFrom(q) \in Tokens /\ UpToFrom(q) # <<>> /\ UpToFrom(q)[Len(UpToFrom(q))] = "from"
         /\ q.from \in Tokens /\ q.from # <<>> /\ q.from[Len(q.from)] # Semicolon
         /\ q.alias \in Tokens /\ NoDot(q.alias) /\ JoinPart(q) \in Tokens /\ NoDot(JoinPart(q))
         /\ WherePart(q) \in Tokens /\ NoDot(WherePart(q)) /\ SortedPart(q) \in Tokens /\ NoDot(SortedPart(q))
         /\ LimitPart(q) \in Tokens /\ NoDot(LimitPart(q)) /\ q.rest \in Tokens /\ NoDot(q.rest)
<1>1. /\ q.cols \in Tokens /\ q.from \in Tokens /\ q.alias \in Tokens /\ q.join \in Tokens
      /\ q.where \in Tokens /\ q.limit \in Tokens /\ q.rest \in Tokens
      /\ q.from # <<>> /\ LastOf(q.from) # Semicolon /\ NoDot(q.alias) /\ NoDot(q.rest)
  BY RegularIs
<1>2. ASSUME NEW w \in Words PROVE <<w>> \in Tokens /\ Len(<<w>>) = 1 /\ <<w>>[1] = w
  BY OneToken
<1>3. UpToFrom(q) \in Tokens /\ UpToFrom(q) # <<>> /\ UpToFrom(q)[Len(UpToFrom(q))] = "from"
  <2> DEFINE a == <<"select">> \o Between(q.cols, ",")
  <2>1. "select" \in Words /\ "," \in Words /\ "from" \in Words
    BY Literals
  <2>2. a \in Tokens
    BY <1>1, <1>2, <2>1, MarkedTokens, Joined
  <2>3. UpToFrom(q) = a \o <<"from">>
    BY DEF UpToFrom
  <2> HIDE DEF a
  <2>4. /\ <<"from">> \in Tokens /\ Len(<<"from">>) = 1 /\ <<"from">>[1] = "from"
    BY <1>2, <2>1
  <2>5. /\ a \o <<"from">> \in Tokens /\ Len(a \o <<"from">>) = Len(a) + 1 /\ Len(a) \in Nat
        /\ \A k \in 1 .. 1 : (a \o <<"from">>)[Len(a) + k] = <<"from">>[k]
    BY <2>2, <2>4, Joined
  <2>6. (a \o <<"from">>)[Len(a) + 1] = "from"
    BY <2>4, <2>5
  <2>7. Len(a) + 1 # 0
    BY <2>5
  <2>8. a \o <<"from">> # <<>>
    BY <2>5, <2>7
  <2> QED
    BY <2>3, <2>5, <2>6, <2>8
<1>4. ASSUME NEW w \in Words, w # ".", NEW s \in Tokens
      PROVE  Opt(<<w>>, s) \in Tokens /\ NoDot(Opt(<<w>>, s))
  <2>1. CASE s = <<>>
    BY <1>4, <2>1 DEF Opt, NoDot
  <2>2. CASE s # <<>>
    <3>1. Opt(<<w>>, s) = <<w>> \o s
      BY <2>2 DEF Opt
    <3>2. 1 \in 1 .. 1 /\ <<w>> \in Tokens /\ Len(<<w>>) = 1 /\ <<w>>[1] = w
      BY <1>2, <1>4
    <3>3. <<w>> \o s \in Tokens /\ (<<w>> \o s)[1] = w
      BY <1>4, <3>2, Joined
    <3> QED
      BY <1>4, <3>1, <3>3 DEF NoDot
  <2> QED
    BY <2>1, <2>2
<1>5. /\ JoinPart(q) \in Tokens /\ NoDot(JoinPart(q)) /\ WherePart(q) \in Tokens /\ NoDot(WherePart(q))
      /\ LimitPart(q) \in Tokens /\ NoDot(LimitPart(q))
  <2>1. "join" \in Words /\ "where" \in Words /\ "limit" \in Words
    BY Literals
  <2>2. "join" # "." /\ "where" # "." /\ "limit" # "."
    OBVIOUS
  <2> QED
    BY <1>1, <1>4, <2>1, <2>2 DEF JoinPart, WherePart, LimitPart
<1>6. SortedPart(q) \in Tokens /\ NoDot(SortedPart(q))
  <2> DEFINE s == <<"order", "by", "id">>
  <2>1. <<>> \in Tokens
    BY DEF Tokens
  <2>2. s \in Tokens
    BY Literals, FewTokens
  <2>3. s[1] = "order" /\ "order" # "."
    OBVIOUS
  <2> HIDE DEF s
  <2>4. NoDot(s) /\ NoDot(<<>>)
    BY <2>3 DEF NoDot
  <2>5. SortedPart(q) = s \/ SortedPart(q) = <<>>
    BY DEF SortedPart, s
  <2> QED
    BY <2>1, <2>2, <2>4, <2>5
<1>7. q.from[Len(q.from)] # Semicolon
  BY <1>1 DEF LastOf
<1> QED
  BY <1>1, <1>3, <1>5, <1>6, <1>7

\* The comma at i of the last part is right behind a table.
Listing(q, i) ==
  q.rest[i] = "," /\ EndInTable(SubSeq(Text(q), 1, Len(Text(q)) - Len(q.rest) + i - 1))

\* Every table that a query reads is named in its text, or listed behind another.
LEMMA TablesAreNamed ==
  ASSUME NEW q, Regular(q), NEW t \in Reads(q)
  PROVE  \/ \E p, name : NameAt(Text(q), p, name) /\ t = Folded(name)
         \/ \E i \in 1 .. Len(q.rest) - 1 : Listing(q, i)
<1> DEFINE t1 == UpToTable(q)
           t2 == t1 \o q.alias
           t3 == t2 \o JoinPart(q)
           t4 == t3 \o WherePart(q)
           t5 == t4 \o SortedPart(q)
           t6 == t5 \o LimitPart(q)
<1>1. Text(q) = t6 \o q.rest
  BY Zenon DEF Text, UpToTable, UpToFrom, JoinPart, WherePart, SortedPart, LimitPart
<1>2. /\ UpToFrom(q) \in Tokens /\ UpToFrom(q) # <<>> /\ UpToFrom(q)[Len(UpToFrom(q))] = "from"
      /\ q.from \in Tokens /\ q.from # <<>> /\ q.from[Len(q.from)] # Semicolon
      /\ q.alias \in Tokens /\ NoDot(q.alias) /\ JoinPart(q) \in Tokens /\ NoDot(JoinPart(q))
      /\ WherePart(q) \in Tokens /\ NoDot(WherePart(q)) /\ SortedPart(q) \in Tokens /\ NoDot(SortedPart(q))
      /\ LimitPart(q) \in Tokens /\ NoDot(LimitPart(q)) /\ q.rest \in Tokens /\ NoDot(q.rest)
  BY PartsAreTokens
<1>3. NameAt(t1, Len(UpToFrom(q)), q.from)
  BY <1>2, NameBehind DEF UpToTable
<1>4. t1 \in Tokens
  BY <1>3 DEF NameAt
<1> HIDE DEF t1
<1>5. t2 \in Tokens
  BY <1>2, <1>4, Joined
<1>6. ASSUME NEW p, NEW name, NameAt(t3, p, name) PROVE NameAt(Text(q), p, name)
  <2> HIDE DEF t3
  <2>1. NameAt(t4, p, name)
    BY <1>2, <1>6, NameStays
  <2> HIDE DEF t4
  <2>2. NameAt(t5, p, name)
    BY <1>2, <2>1, NameStays
  <2> HIDE DEF t5
  <2>3. NameAt(t6, p, name)
    BY <1>2, <2>2, NameStays
  <2> HIDE DEF t6
  <2>4. NameAt(t6 \o q.rest, p, name)
    BY <1>2, <2>3, NameStays
  <2> QED
    BY <1>1, <2>4
<1>7. NameAt(Text(q), Len(UpToFrom(q)), q.from)
  <2>1. NameAt(t2, Len(UpToFrom(q)), q.from)
    BY <1>2, <1>3, NameStays
  <2> HIDE DEF t2
  <2>2. NameAt(t3, Len(UpToFrom(q)), q.from)
    BY <1>2, <2>1, NameStays
  <2> HIDE DEF t3
  <2> QED
    BY <1>6, <2>2
<1>8. ASSUME q.join # <<>> PROVE \E p : NameAt(Text(q), p, <<q.join[1]>>)
  <2> DEFINE b == <<"join">> \o q.join
  <2>1. /\ q.join \in Tokens /\ q.join # <<>> /\ q.join[1] # Semicolon
        /\ Len(q.join) > 1 => q.join[2] # "."
    BY <1>8, RegularIs
  <2>2. Len(q.join) \in Nat \ {0}
    BY <2>1 DEF Tokens
  <2>3. <<"join">> \in Tokens /\ Len(<<"join">>) = 1 /\ <<"join">>[1] = "join"
    BY Literals, OneToken
  <2>4. JoinPart(q) = b
    BY <2>1 DEF JoinPart, Opt
  <2>5. /\ b \in Tokens /\ Len(b) = 1 + Len(q.join) /\ b[1] = "join"
        /\ \A k \in 1 .. Len(q.join) : b[1 + k] = q.join[k]
    <3>1. 1 \in 1 .. 1
      OBVIOUS
    <3> QED
      BY <2>1, <2>3, <3>1, Joined
  <2> HIDE DEF b
  <2>6. b[1 + 1] = q.join[1] /\ (1 + 2 <= Len(b) => b[1 + 2] # ".")
    <3>1. 1 \in 1 .. Len(q.join) /\ (1 + 2 <= Len(b) => Len(q.join) > 1 /\ 2 \in 1 .. Len(q.join))
      BY <2>2, <2>5
    <3> QED
      BY <2>1, <2>5, <3>1
  <2>7. 1 \in 1 .. Len(b) - 1
    BY <2>2, <2>5
  <2> HIDE DEF t2
  <2>8. NameAt(t2 \o b, Len(t2) + 1, <<b[1 + 1]>>)
    BY <1>5, <2>1, <2>5, <2>6, <2>7, NameInside
  <2>9. NameAt(t3, Len(t2) + 1, <<q.join[1]>>)
    BY <2>4, <2>6, <2>8
  <2> HIDE DEF t3
  <2> QED
    BY <1>6, <2>9
<1>9. ASSUME NEW i \in 1 .. Len(q.rest) - 1, q.rest[i] \in {"from", "join"}
      PROVE  \E p : NameAt(Text(q), p, <<q.rest[i + 1]>>)
  <2>1. t3 \in Tokens
    BY <1>2, <1>5, Joined
  <2> HIDE DEF t3
  <2>2. t4 \in Tokens
    BY <1>2, <2>1, Joined
  <2> HIDE DEF t4
  <2>3. t5 \in Tokens
    BY <1>2, <2>2, Joined
  <2> HIDE DEF t5
  <2>4. t6 \in Tokens
    BY <1>2, <2>3, Joined
  <2> HIDE DEF t6
  <2>5. Len(q.rest) \in Nat
    BY <1>2 DEF Tokens
  <2>6. q.rest[i + 1] # Semicolon /\ (i + 2 <= Len(q.rest) => q.rest[i + 2] # ".")
    BY <1>9, <2>5, RegularIs
  <2>7. NameAt(t6 \o q.rest, Len(t6) + i, <<q.rest[i + 1]>>)
    BY <1>2, <1>9, <2>4, <2>6, NameInside
  <2> QED
    BY <1>1, <2>7
<1>10. \/ t = Folded(q.from)
       \/ \E i \in 1 .. Len(q.join) : i = 1 /\ t = Folded(<<q.join[i]>>)
       \/ \E i \in 1 .. Len(q.rest) - 1 : Introduces(q, i) /\ t = Folded(<<q.rest[i + 1]>>)
  BY DEF Reads
<1>11. (\E i \in 1 .. Len(q.join) : i = 1) => q.join # <<>>
  BY EmptySeq
<1>12. \A i : Introduces(q, i) => q.rest[i] \in {"from", "join"} \/ Listing(q, i)
  BY DEF Introduces, Listing
<1> QED
  BY <1>7, <1>8, <1>9, <1>10, <1>11, <1>12

\* Once it was checked, the statement is one that the sandbox lets through.
CheckedInv == stage \in {"checked", "answered", "failed"} => Allowed(Text(query), policy)

\* The processor goes on with what ValidatePolicy has let through.
LEMMA CheckedStep ==
  ASSUME CheckedInv, [AnswersNext]_answerVars
  PROVE  CheckedInv'
<1>1. CASE UNCHANGED queryVars
  BY <1>1 DEF CheckedInv, queryVars, policy
<1>2. CASE Create \/ GetConnection
  BY <1>2 DEF Create, GetConnection, CheckedInv
<1>3. CASE Check
  <2>1. query' = query /\ policy' = policy
    BY <1>3 DEF Check, policy
  <2>2. stage' = "refused" \/ Allowed(Text(query), policy)
    BY <1>3 DEF Check
  <2> QED
    BY <2>1, <2>2 DEF CheckedInv
<1>4. CASE Execute
  <2>1. query' = query /\ policy' = policy /\ stage = "checked"
    BY <1>4 DEF Execute, policy
  <2> QED
    BY <2>1 DEF CheckedInv
<1> QED
  BY <1>1, <1>2, <1>3, <1>4 DEF AnswersNext, answerVars

Comma  == ","
AsWord == "as"
NoName == ""

\* The text of a query ends in its last part.
LEMMA RestIsLast ==
  ASSUME NEW q, Regular(q), NEW text, text = Text(q)
  PROVE  /\ text \in Tokens /\ Len(text) \in Nat /\ Len(q.rest) \in Nat /\ Len(q.rest) <= Len(text)
         /\ \A k \in 1 .. Len(q.rest) : text[Len(text) - Len(q.rest) + k] = q.rest[k]
<1> DEFINE t1 == UpToTable(q)
           t2 == t1 \o q.alias
           t3 == t2 \o JoinPart(q)
           t4 == t3 \o WherePart(q)
           t5 == t4 \o SortedPart(q)
           t6 == t5 \o LimitPart(q)
<1>1. text = t6 \o q.rest
  <2>1. Text(q) = t6 \o q.rest
    BY Zenon DEF Text, UpToTable, UpToFrom, JoinPart, WherePart, SortedPart, LimitPart
  <2> HIDE DEF t6
  <2> QED
    BY <2>1
<1>2. /\ UpToFrom(q) \in Tokens /\ q.from \in Tokens /\ q.alias \in Tokens /\ JoinPart(q) \in Tokens
      /\ WherePart(q) \in Tokens /\ SortedPart(q) \in Tokens /\ LimitPart(q) \in Tokens /\ q.rest \in Tokens
  BY PartsAreTokens
<1>3. t1 \in Tokens
  BY <1>2, Literals, MarkedTokens, Joined DEF UpToTable
<1> HIDE DEF t1
<1>4. t2 \in Tokens
  BY <1>2, <1>3, Joined
<1> HIDE DEF t2
<1>5. t3 \in Tokens
  BY <1>2, <1>4, Joined
<1> HIDE DEF t3
<1>6. t4 \in Tokens
  BY <1>2, <1>5, Joined
<1> HIDE DEF t4
<1>7. t5 \in Tokens
  BY <1>2, <1>6, Joined
<1> HIDE DEF t5
<1>8. t6 \in Tokens
  BY <1>2, <1>7, Joined
<1> HIDE DEF t6
<1>9. /\ text \in Tokens /\ Len(text) = Len(t6) + Len(q.rest) /\ Len(t6) \in Nat /\ Len(q.rest) \in Nat
      /\ \A k \in 1 .. Len(q.rest) : text[Len(t6) + k] = q.rest[k]
  <2>1. q.rest \in Tokens
    BY <1>2
  <2>2. /\ t6 \o q.rest \in Tokens /\ Len(t6 \o q.rest) = Len(t6) + Len(q.rest)
        /\ Len(t6) \in Nat /\ Len(q.rest) \in Nat
        /\ \A k \in 1 .. Len(q.rest) : (t6 \o q.rest)[Len(t6) + k] = q.rest[k]
    BY <1>8, <2>1, Joined
  <2> QED
    BY <1>1, <2>2
<1>10. Len(text) - Len(q.rest) = Len(t6) /\ Len(text) \in Nat /\ Len(q.rest) <= Len(text)
  BY <1>9
<1> QED
  BY <1>9, <1>10

\* Statements that begin alike have the same beginning.
LEMMA SameFront ==
  ASSUME NEW a \in Tokens, NEW b \in Tokens, NEW m \in Nat, m <= Len(a), m <= Len(b),
         \A k \in 1 .. Len(a) : a[k] = b[k]
  PROVE  SubSeq(a, 1, m) = SubSeq(b, 1, m)
<1>1. ASSUME NEW c \in Tokens, m <= Len(c)
      PROVE  SubSeq(c, 1, m) \in Tokens /\ Len(SubSeq(c, 1, m)) = m /\ \A k \in 1 .. m : SubSeq(c, 1, m)[k] = c[k]
  <2>1. \A k \in 1 .. m : c[k] \in Words
    BY <1>1 DEF Tokens
  <2> QED
    BY <2>1, SubSeqProperties DEF Tokens
<1> DEFINE x == SubSeq(a, 1, m)
           y == SubSeq(b, 1, m)
<1>2. /\ x \in Seq(Words) /\ y \in Seq(Words) /\ Len(x) = m /\ Len(y) = m
      /\ \A k \in 1 .. m : x[k] = a[k] /\ y[k] = b[k]
  BY <1>1 DEF Tokens
<1>3. \A k \in 1 .. m : x[k] = y[k]
  <2>1. Len(a) \in Nat
    BY DEF Tokens
  <2> HIDE DEF x, y
  <2> QED
    BY <1>2, <2>1
<1> HIDE DEF x, y
<1>4. x = y
  BY <1>2, <1>3, SeqEqual
<1> QED
  BY <1>4 DEF x, y

\* What is left when a semicolon is taken off.
LEMMA TrimmedIs ==
  ASSUME NEW text \in Tokens, NEW ts, ts = Trimmed(text)
  PROVE  ts \in Tokens /\ Len(ts) \in {Len(text), Len(text) - 1} /\ \A k \in 1 .. Len(ts) : ts[k] = text[k]
<1> DEFINE e == Len(text) - 1
<1>1. ts = IF Tok(text, Len(text)) = Semicolon THEN SubSeq(text, 1, e) ELSE text
  BY Zenon DEF Trimmed, Semicolon
<1>2. Len(text) \in Nat
  BY DEF Tokens
<1>3. CASE Len(text) \in 1 .. Len(text)
  <2>1. e \in Nat /\ \A i \in 1 .. e : text[i] \in Words
    BY <1>2, <1>3 DEF Tokens
  <2> HIDE DEF e
  <2>2. /\ SubSeq(text, 1, e) \in Tokens /\ Len(SubSeq(text, 1, e)) = e
        /\ \A i \in 1 .. e : SubSeq(text, 1, e)[i] = text[i]
    BY <2>1, SubSeqProperties DEF Tokens
  <2> QED
    BY <1>1, <2>2 DEF e
<1>4. CASE Len(text) \notin 1 .. Len(text)
  <2>1. "<end>" # Semicolon
    BY Zenon DEF Semicolon
  <2> QED
    BY <1>1, <1>4, <2>1 DEF Tok
<1> QED
  BY <1>3, <1>4

\* A comma right behind a table is not let through.
LEMMA ListIsRefused ==
  ASSUME NEW ts \in Tokens, ScanAccepts(ts), ExtractAccepts(ts), NEW s, NEW m \in 0 .. Len(ts) - 1,
         s = SubSeq(ts, 1, m), EndInTable(s)
  PROVE  Tok(ts, m + 1) # ","
<1>1. /\ Len(ts) \in Nat /\ m \in Nat /\ s \in Tokens /\ Len(s) = m
      /\ \A i \in 1 .. m : i \in 1 .. Len(ts) /\ s[i] = ts[i]
  <2>1. \A i \in 1 .. m : ts[i] \in Words
    BY DEF Tokens
  <2>2. Len(ts) \in Nat /\ m \in Nat
    BY DEF Tokens
  <2> QED
    BY <2>1, <2>2, SubSeqProperties DEF Tokens
<1>2. PICK p \in TableWords(s), n \in 1 .. m :
        /\ p < n /\ (n - p) % 2 = 1
        /\ \A k \in p + 1 .. n : s[k] = "." <=> (k - p) % 2 = 0
        /\ \/ n = m
           \/ n = m - 1 /\ s[n + 1] \in Names
           \/ n = m - 2 /\ s[n + 1] = "as"
  BY <1>1, Zenon DEF EndInTable
<1>3. p \in TableWords(ts) /\ p \in 1 .. m /\ p \in 1 .. Len(ts) /\ ts[p] \in {"from", "join"}
  BY <1>1, <1>2 DEF TableWords
<1> SUFFICES ASSUME Tok(ts, m + 1) = Comma PROVE FALSE
  BY Zenon DEF Comma
<1>4. /\ Comma \notin Names /\ Comma \notin SqlWords /\ AsWord \notin Names
      /\ Comma # "." /\ AsWord # "." /\ Comma # AsWord /\ "." \notin Names /\ NoName \notin Names
      /\ Names \cap Reserved = {}
  <2>1. /\ {Comma, "."} \subseteq Symbols /\ AsWord \in SqlWords /\ Reserved \subseteq SqlWords
        /\ Comma # "." /\ AsWord # "." /\ Comma # AsWord
    BY Zenon DEF Symbols, SqlWords, Comma, AsWord
  <2>2. Comma \notin SqlWords
    BY Zenon DEF SqlWords, Forbidden, Reserved, Comma
  <2> QED
    BY <2>1, <2>2, WordsAssumption DEF NoName
<1> DEFINE h    == (n - p + 1) \div 2
           name == [j \in 1 .. h |-> ts[p + 2 * j - 1]]
<1>5. /\ p \in Nat /\ n \in Nat /\ h \in Nat \ {0} /\ 2 * h - 1 = n - p /\ p + 2 * h - 1 = n
      /\ n \in 1 .. Len(ts) /\ p < Len(ts)
  BY <1>1, <1>2, <1>3
<1> HIDE DEF h
<1>6. /\ name \in Tokens /\ Len(name) = h /\ name # <<>>
      /\ \A j \in 1 .. h : name[j] = ts[p + 2 * j - 1] /\ p + 2 * j - 1 \in 1 .. Len(ts)
  <2>1. \A j \in 1 .. h : p + 2 * j - 1 \in 1 .. Len(ts)
    BY <1>1, <1>5
  <2>2. name \in [1 .. h -> Words]
    BY <2>1 DEF Tokens
  <2> QED
    BY <1>5, <2>1, <2>2 DEF Tokens
<1> HIDE DEF name
<1>7. \A k \in 1 .. 2 * h - 1 : p + k \in 1 .. Len(ts) /\ ts[p + k] = Between(name, ".")[k]
  <2> SUFFICES ASSUME NEW k \in 1 .. 2 * h - 1
               PROVE  p + k \in 1 .. Len(ts) /\ ts[p + k] = Between(name, ".")[k]
    OBVIOUS
  <2>1. p + k \in 1 .. m /\ p + k \in 1 .. Len(ts) /\ p + k \in p + 1 .. n /\ (p + k) - p = k
    BY <1>1, <1>2, <1>5
  <2>2. Between(name, ".")[k] = IF k % 2 = 1 THEN name[(k + 1) \div 2] ELSE "."
    BY <1>6 DEF Between
  <2>3. CASE k % 2 = 1
    <3>1. (k + 1) \div 2 \in 1 .. h /\ p + 2 * ((k + 1) \div 2) - 1 = p + k
      BY <1>5, <2>3
    <3> QED
      BY <1>6, <2>1, <2>2, <2>3, <3>1
  <2>4. CASE k % 2 # 1
    <3>1. k % 2 = 0
      BY <2>4
    <3>2. s[p + k] = "."
      BY <1>2, <2>1, <3>1
    <3> QED
      BY <1>1, <2>1, <2>2, <2>4, <3>2
  <2> QED
    BY <2>3, <2>4
<1>8. /\ n = m => Tok(ts, n + 1) = Comma
      /\ n = m - 1 => Tok(ts, n + 1) \in Names /\ Tok(ts, (n + 1) + 1) = Comma
      /\ n = m - 2 => Tok(ts, n + 1) = AsWord /\ Tok(ts, (n + 2) + 1) = Comma
      /\ n = m \/ n = m - 1 \/ n = m - 2
  <2>1. n + 1 \in 1 .. m => Tok(ts, n + 1) = s[n + 1]
    BY <1>1 DEF Tok
  <2>2. CASE n = m
    BY <1>5, <2>2
  <2>3. CASE n = m - 1
    <3>1. n + 1 = m /\ n + 1 \in 1 .. m /\ n # m /\ n # m - 2
      BY <1>1, <1>5, <2>3
    <3> QED
      BY <1>2, <2>1, <2>3, <3>1
  <2>4. CASE n = m - 2
    <3>1. (n + 2) + 1 = m + 1 /\ n + 1 \in 1 .. m /\ n # m /\ n # m - 1
      BY <1>1, <1>5, <2>4
    <3> QED
      BY <1>2, <2>1, <2>4, <3>1, Zenon DEF AsWord
  <2> QED
    BY <1>2, <2>2, <2>3, <2>4
<1>9. NameAt(ts, p, name)
  <2>1. name[Len(name)] # Semicolon
    <3>1. ts[n] # Semicolon
      BY <1>5, Zenon DEF ScanAccepts, Semicolon
    <3>2. name[h] = ts[n]
      <4>1. h \in 1 .. h /\ p + 2 * h - 1 = n
        BY <1>5
      <4>2. name[h] = ts[p + 2 * h - 1]
        BY <1>6, <4>1
      <4> QED
        BY <4>1, <4>2
    <3> QED
      BY <1>6, <3>1, <3>2
  <2>2. Tok(ts, p + 2 * Len(name)) # "."
    <3>1. p + 2 * Len(name) = n + 1
      BY <1>5, <1>6
    <3>2. Tok(ts, n + 1) # "."
      BY <1>4, <1>8
    <3> QED
      BY <3>1, <3>2
  <2> QED
    BY <1>3, <1>6, <1>7, <2>1, <2>2 DEF NameAt
<1>10. NameEnd(ts, p) = n
  BY <1>5, <1>6, <1>9, NameIsRead
<1>11. Tok(ts, TableEnd(ts, p) + 1) # Comma
  BY <1>3, Zenon DEF ExtractAccepts, IsBaseTable, Comma
<1>12. /\ TableEnd(ts, p) = n + (IF HasAs(ts, p) THEN 2 ELSE IF AliasAt(ts, p) = NoName THEN 0 ELSE 1)
       /\ HasAs(ts, p) <=> Tok(ts, n + 1) = AsWord
       /\ ~HasAs(ts, p) => AliasAt(ts, p) = IF IsIdentifier(Tok(ts, n + 1)) /\ Tok(ts, n + 1) \notin Reserved
                                            THEN Tok(ts, n + 1) ELSE NoName
  BY <1>10, Zenon DEF TableEnd, HasAs, AliasAt, NoName, AsWord
<1>13. CASE n = m
  <2>1. ~HasAs(ts, p) /\ ~IsIdentifier(Tok(ts, n + 1))
    BY <1>4, <1>8, <1>12, <1>13 DEF IsIdentifier
  <2>2. TableEnd(ts, p) = n + 0
    BY <1>12, <2>1
  <2> QED
    BY <1>5, <1>8, <1>11, <1>13, <2>2
<1>14. CASE n = m - 1
  <2>1. ~HasAs(ts, p) /\ IsIdentifier(Tok(ts, n + 1)) /\ Tok(ts, n + 1) \notin Reserved /\ Tok(ts, n + 1) # NoName
    BY <1>4, <1>8, <1>12, <1>14 DEF IsIdentifier
  <2>2. TableEnd(ts, p) = n + 1
    BY <1>12, <2>1
  <2> QED
    BY <1>8, <1>11, <1>14, <2>2
<1>15. CASE n = m - 2
  <2>1. TableEnd(ts, p) = n + 2
    BY <1>8, <1>12, <1>15
  <2> QED
    BY <1>8, <1>11, <1>15, <2>1
<1> QED
  BY <1>8, <1>13, <1>14, <1>15

\* Whatever follows them, the tables behind FROM and JOIN are found by their
\* whole names and are on the list, and one behind a comma that follows another
\* is never let through (sandbox.go:203-262).
THEOREM TablesAreOnTheList ==
  AnswersSpec => [](Regular(query) => ReadsOnlyAllowed)
<1>1. AnswersInit => CheckedInv
  BY DEF AnswersInit, CheckedInv
<1>2. CheckedInv /\ [AnswersNext]_answerVars => CheckedInv'
  BY CheckedStep
<1>3. CheckedInv => (Regular(query) => ReadsOnlyAllowed)
  <2> SUFFICES ASSUME CheckedInv, Regular(query), stage \in {"checked", "answered", "failed"},
                      NEW t \in Reads(query)
               PROVE  Permitted(t)
    BY DEF ReadsOnlyAllowed
  <2>1. /\ EnforceAllowlist(Trimmed(Text(query)), policy.allowed)
        /\ ScanAccepts(Trimmed(Text(query))) /\ ExtractAccepts(Trimmed(Text(query)))
    BY DEF CheckedInv, Allowed
  <2>2. CASE \E p, name : NameAt(Text(query), p, name) /\ t = Folded(name)
    <3>1. PICK p, name : NameAt(Trimmed(Text(query)), p, name) /\ t = Folded(name)
      BY <2>2, NameIsTrimmed
    <3>2. p \in TableWords(Trimmed(Text(query))) /\ TableAt(Trimmed(Text(query)), p) = t
      BY <3>1, NameIsRead
    <3> QED
      BY <2>1, <3>2 DEF EnforceAllowlist, Permitted
  <2>3. ASSUME NEW i \in 1 .. Len(query.rest) - 1, Listing(query, i) PROVE FALSE
    <3> DEFINE ts   == Trimmed(Text(query))
               text == Text(query)
               m    == Len(text) - Len(query.rest) + i - 1
    <3>1. /\ text \in Tokens /\ Len(text) \in Nat /\ Len(query.rest) \in Nat
          /\ Len(query.rest) <= Len(text)
          /\ \A k \in 1 .. Len(query.rest) : text[Len(text) - Len(query.rest) + k] = query.rest[k]
      BY RestIsLast
    <3>2. /\ ts \in Tokens /\ Len(ts) \in {Len(text), Len(text) - 1} /\ Len(ts) \in Nat
          /\ \A k \in 1 .. Len(ts) : ts[k] = text[k]
      BY <3>1, TrimmedIs DEF Tokens
    <3> HIDE DEF ts, text
    <3>3. m \in 0 .. Len(ts) - 1 /\ m + 1 = Len(text) - Len(query.rest) + i /\ i \in 1 .. Len(query.rest)
      BY <3>1, <3>2
    <3>4. SubSeq(text, 1, m) = SubSeq(ts, 1, m)
      <4>1. Len(ts) <= Len(text)
        BY <3>1, <3>2
      <4>2. \A n \in 0 .. Len(ts) - 1 : n \in Nat /\ n <= Len(ts) /\ n <= Len(text)
        BY <3>1, <3>2, <4>1
      <4>3. m \in 0 .. Len(ts) - 1
        BY <3>3
      <4> HIDE DEF m
      <4>4. m \in Nat /\ m <= Len(ts) /\ m <= Len(text)
        BY <4>2, <4>3
      <4> QED
        BY <3>1, <3>2, <4>4, SameFront
    <3>5. EndInTable(SubSeq(ts, 1, m)) /\ query.rest[i] = Comma
      BY <2>3, <3>4 DEF Listing, text, Comma
    <3>6. ts[m + 1] = Comma /\ m + 1 \in 1 .. Len(ts)
      <4>1. m + 1 \in 1 .. Len(ts)
        BY <3>1, <3>2, <3>3
      <4>2. text[m + 1] = query.rest[i]
        BY <3>1, <3>3
      <4> HIDE DEF m
      <4> QED
        BY <3>2, <3>5, <4>1, <4>2
    <3> QED
      BY <2>1, <3>2, <3>3, <3>5, <3>6, ListIsRefused DEF ts, Tok, Comma
  <2> QED
    BY <2>2, <2>3, TablesAreNamed
<1> QED
  BY <1>1, <1>2, <1>3, PTL DEF AnswersSpec

(***************************************************************************)
(* Positions in a statement, and how deep in brackets they are.            *)
(***************************************************************************)
\* A claim about all numbers is proved by the least that it fails for.
LEMMA LeastExists ==
  ASSUME NEW S \in SUBSET Nat, S # {}
  PROVE  \E m \in S : \A k \in S : m <= k
<1> DEFINE R == OpToRel(<, Nat)
<1>1. IsWellFoundedOn(R, Nat)
  BY NatLessThanWellFounded
<1> HIDE DEF R
<1>2. PICK m \in S : \A k \in S : ~(<<k, m>> \in R)
  BY <1>1, WFMin, Zenon
<1>3. \A k, n \in Nat : <<k, n>> \in R <=> k < n
  BY DEF R, OpToRel
<1>4. \A k \in S : ~(k < m)
  BY <1>2, <1>3
<1> QED
  BY <1>4

\* What SubSeq leaves of a statement.
LEMMA Cut ==
  ASSUME NEW ts \in Tokens, NEW i \in 1 .. Len(ts) + 1, NEW j \in i - 1 .. Len(ts)
  PROVE  /\ SubSeq(ts, i, j) \in Tokens /\ Len(SubSeq(ts, i, j)) = j - i + 1
         /\ \A k \in 1 .. j - i + 1 : i + k - 1 \in 1 .. Len(ts) /\ SubSeq(ts, i, j)[k] = ts[i + k - 1]
<1>1. Len(ts) \in Nat /\ i \in Int /\ j \in Int /\ \A k \in i .. j : ts[k] \in Words
  BY DEF Tokens
<1>2. /\ SubSeq(ts, i, j) \in Seq(Words) /\ Len(SubSeq(ts, i, j)) = IF i <= j THEN j - i + 1 ELSE 0
      /\ \A k \in 1 .. j - i + 1 : SubSeq(ts, i, j)[k] = ts[i + k - 1]
  BY <1>1, SubSeqProperties
<1> QED
  BY <1>1, <1>2 DEF Tokens

\* A statement cut in two is the two behind each other.
LEMMA CutAndJoined ==
  ASSUME NEW ts \in Tokens, NEW i \in 0 .. Len(ts)
  PROVE  ts = SubSeq(ts, 1, i) \o SubSeq(ts, i + 1, Len(ts))
<1> DEFINE a == SubSeq(ts, 1, i)
           b == SubSeq(ts, i + 1, Len(ts))
<1>1. Len(ts) \in Nat
  BY DEF Tokens
<1>2. a \in Tokens /\ Len(a) = i /\ \A k \in 1 .. i : a[k] = ts[k]
  <2>1. 1 \in 1 .. Len(ts) + 1 /\ i \in 1 - 1 .. Len(ts) /\ i - 1 + 1 = i /\ \A k \in 1 .. i : 1 + k - 1 = k
    BY <1>1
  <2> QED
    BY <2>1, Cut
<1>3. b \in Tokens /\ Len(b) = Len(ts) - i /\ \A k \in 1 .. Len(ts) - i : b[k] = ts[i + k]
  <2> DEFINE m == i + 1
             n == Len(ts)
  <2>1. m \in 1 .. Len(ts) + 1 /\ n \in m - 1 .. Len(ts) /\ n - m + 1 = Len(ts) - i
        /\ \A k \in 1 .. Len(ts) - i : m + k - 1 = i + k
    BY <1>1
  <2> HIDE DEF m, n
  <2>2. /\ SubSeq(ts, m, n) \in Tokens /\ Len(SubSeq(ts, m, n)) = n - m + 1
        /\ \A k \in 1 .. n - m + 1 : SubSeq(ts, m, n)[k] = ts[m + k - 1]
    BY <2>1, Cut
  <2> QED
    BY <2>1, <2>2 DEF m, n
<1> HIDE DEF a, b
<1>4. a \o b \in Tokens /\ Len(a \o b) = Len(ts)
  <2>1. a \o b \in Tokens /\ Len(a \o b) = Len(a) + Len(b)
    BY <1>2, <1>3, Joined
  <2> QED
    BY <1>1, <1>2, <1>3, <2>1
<1>5. ASSUME NEW k \in 1 .. Len(ts) PROVE ts[k] = (a \o b)[k]
  <2>1. CASE k <= i
    <3>1. k \in 1 .. Len(a)
      BY <1>1, <1>2, <2>1
    <3> QED
      BY <1>2, <1>3, <3>1, Joined
  <2>2. CASE k > i
    <3>1. k - i \in 1 .. Len(b) /\ i + (k - i) = k /\ Len(a) + (k - i) = k /\ k - i \in 1 .. Len(ts) - i
      BY <1>1, <1>2, <1>3, <2>2
    <3>2. (a \o b)[Len(a) + (k - i)] = b[k - i]
      BY <1>2, <1>3, <3>1, Joined
    <3> QED
      BY <1>3, <3>1, <3>2
  <2>3. k <= i \/ k > i
    BY <1>1
  <2> QED
    BY <2>1, <2>2, <2>3
<1>6. ts = a \o b
  BY <1>4, <1>5, SeqEqual DEF Tokens
<1> QED
  BY <1>6 DEF a, b

Count(ts, i, word) == Cardinality({k \in 1 .. i : ts[k] = word})

\* One more token, counted.
LEMMA CountStep ==
  ASSUME NEW ts, NEW i \in Nat, NEW word
  PROVE  /\ Count(ts, i, word) \in Nat /\ (i = 0 => Count(ts, i, word) = 0)
         /\ Count(ts, i + 1, word) = Count(ts, i, word) + IF ts[i + 1] = word THEN 1 ELSE 0
<1> DEFINE S(n) == {k \in 1 .. n : ts[k] = word}
<1>1. IsFiniteSet(S(i))
  <2>1. IsFiniteSet(1 .. i) /\ S(i) \subseteq 1 .. i
    BY FS_Interval
  <2> QED
    BY <2>1, FS_Subset
<1>2. Cardinality(S(i)) \in Nat
  BY <1>1, FS_CardinalityType
<1>3. i = 0 => S(i) = {}
  OBVIOUS
<1>4. CASE ts[i + 1] = word
  <2>1. S(i + 1) = S(i) \cup {i + 1} /\ i + 1 \notin S(i)
    BY <1>4
  <2>2. Cardinality(S(i + 1)) = Cardinality(S(i)) + 1
    BY <1>1, <2>1, FS_AddElement
  <2> QED
    BY <1>2, <1>3, <1>4, <2>2, FS_EmptySet DEF Count
<1>5. CASE ts[i + 1] # word
  <2>1. S(i + 1) = S(i)
    BY <1>5
  <2> QED
    BY <1>2, <1>3, <1>5, <2>1, FS_EmptySet DEF Count
<1> QED
  BY <1>4, <1>5

\* By how much a token changes the depth.
Turn(tok) == IF tok = "(" THEN 1 ELSE IF tok = ")" THEN 0 - 1 ELSE 0

\* A bracket changes the depth by one (sandbox.go:285-303).
LEMMA DepthStep ==
  ASSUME NEW ts, NEW i \in Nat
  PROVE  /\ Depth(ts, i) \in Int /\ Depth(ts, 0) = 0
         /\ Depth(ts, i + 1) = Depth(ts, i) + Turn(ts[i + 1])
<1>1. \A n \in Nat : Depth(ts, n) = Count(ts, n, "(") - Count(ts, n, ")")
  BY DEF Depth, Count
<1>2. "(" # ")"
  OBVIOUS
<1>3. /\ Count(ts, i, "(") \in Nat /\ Count(ts, 0, "(") = 0
      /\ Count(ts, i + 1, "(") = Count(ts, i, "(") + IF ts[i + 1] = "(" THEN 1 ELSE 0
  BY CountStep
<1>4. /\ Count(ts, i, ")") \in Nat /\ Count(ts, 0, ")") = 0
      /\ Count(ts, i + 1, ")") = Count(ts, i, ")") + IF ts[i + 1] = ")" THEN 1 ELSE 0
  BY CountStep
<1> QED
  BY <1>1, <1>2, <1>3, <1>4 DEF Turn

\* The depth in what is put together is the sum.
LEMMA JoinedDepth ==
  ASSUME NEW a \in Tokens, NEW b \in Tokens
  PROVE  /\ \A i \in 0 .. Len(a) : Depth(a \o b, i) = Depth(a, i)
         /\ \A k \in 0 .. Len(b) : Depth(a \o b, Len(a) + k) = Depth(a, Len(a)) + Depth(b, k)
<1> DEFINE both == a \o b
<1>1. /\ both \in Tokens /\ Len(both) = Len(a) + Len(b) /\ Len(a) \in Nat /\ Len(b) \in Nat
      /\ \A i \in 1 .. Len(a) : i \in 1 .. Len(both) /\ both[i] = a[i]
      /\ \A k \in 1 .. Len(b) : Len(a) + k \in 1 .. Len(both) /\ both[Len(a) + k] = b[k]
  BY Joined
<1> HIDE DEF both
<1>2. \A i \in 0 .. Len(a) : Depth(both, i) = Depth(a, i)
  <2> SUFFICES ASSUME NEW i \in 0 .. Len(a) PROVE Depth(both, i) = Depth(a, i)
    OBVIOUS
  <2>1. \A w : {k \in 1 .. i : both[k] = w} = {k \in 1 .. i : a[k] = w}
    BY <1>1
  <2> QED
    BY <2>1 DEF Depth
<1>3. \A k \in 0 .. Len(b) : Depth(both, Len(a) + k) = Depth(a, Len(a)) + Depth(b, k)
  <2> DEFINE S == {k \in 0 .. Len(b) : Depth(both, Len(a) + k) # Depth(a, Len(a)) + Depth(b, k)}
  <2> SUFFICES ASSUME S # {} PROVE FALSE
    OBVIOUS
  <2>1. S \in SUBSET Nat
    BY <1>1
  <2>2. PICK m \in S : \A k \in S : m <= k
    BY <2>1, LeastExists
  <2>3. m \in Nat /\ m <= Len(b) /\ Depth(both, Len(a) + m) # Depth(a, Len(a)) + Depth(b, m)
    BY <1>1, <2>2
  <2>4. CASE m = 0
    <3>1. Depth(both, Len(a)) = Depth(a, Len(a)) /\ Depth(b, 0) = 0 /\ Depth(a, Len(a)) \in Int
      BY <1>1, <1>2, DepthStep
    <3> QED
      BY <1>1, <2>3, <2>4, <3>1
  <2>5. CASE m # 0
    <3> DEFINE n == m - 1
               c == Len(a) + n
    <3>1. n \in Nat /\ n \in 0 .. Len(b) /\ ~(m <= n) /\ c \in Nat /\ n + 1 = m /\ c + 1 = Len(a) + m
          /\ m \in 1 .. Len(b)
      BY <1>1, <2>3, <2>5
    <3>2. n \notin S
      BY <2>2, <3>1
    <3>3. Depth(both, c) = Depth(a, Len(a)) + Depth(b, n)
      BY <3>1, <3>2
    <3>4. both[c + 1] = b[m]
      BY <1>1, <3>1
    <3> HIDE DEF n, c
    <3>5. Depth(both, c + 1) = Depth(both, c) + Turn(b[m]) /\ Depth(b, m) = Depth(b, n) + Turn(b[m])
      <4>1. Depth(both, c + 1) = Depth(both, c) + Turn(both[c + 1])
        BY <3>1, DepthStep
      <4>2. Depth(b, n + 1) = Depth(b, n) + Turn(b[n + 1])
        BY <3>1, DepthStep
      <4> QED
        BY <3>1, <3>4, <4>1, <4>2
    <3>6. Depth(a, Len(a)) \in Int /\ Depth(b, n) \in Int /\ Turn(b[m]) \in Int
      BY <1>1, <3>1, DepthStep DEF Turn
    <3> QED
      BY <2>3, <3>1, <3>3, <3>5, <3>6
  <2> QED
    BY <2>4, <2>5
<1> QED
  BY <1>2, <1>3 DEF both

Level(ts) == Depth(ts, Len(ts)) = 0

Flat(ts) == \A i \in 1 .. Len(ts) : ts[i] \notin {"(", ")"}

\* Without brackets every token stands at depth 0.
LEMMA FlatIsLevel ==
  ASSUME NEW ts \in Tokens, Flat(ts)
  PROVE  Level(ts) /\ \A i \in 0 .. Len(ts) : Depth(ts, i) = 0
<1>1. Len(ts) \in Nat
  BY DEF Tokens
<1>2. ASSUME NEW i \in 0 .. Len(ts) PROVE Depth(ts, i) = 0
  <2>1. {k \in 1 .. i : ts[k] = "("} = {} /\ {k \in 1 .. i : ts[k] = ")"} = {}
    BY <1>1 DEF Flat
  <2>2. Cardinality({k \in 1 .. i : ts[k] = "("}) = 0 /\ Cardinality({k \in 1 .. i : ts[k] = ")"}) = 0
    BY <2>1, FS_EmptySet, Zenon
  <2> QED
    BY <2>2 DEF Depth
<1> QED
  BY <1>1, <1>2 DEF Level

\* FirstAtTop is the least position at which a word stands outside brackets.
LEMMA FirstOutside ==
  ASSUME NEW ts \in Tokens, NEW words
  PROVE  /\ AtTop(ts, words) = {} => FirstAtTop(ts, words) = Len(ts) + 1
         /\ AtTop(ts, words) # {} => /\ FirstAtTop(ts, words) \in AtTop(ts, words)
                                     /\ \A k \in AtTop(ts, words) : FirstAtTop(ts, words) <= k
         /\ FirstAtTop(ts, words) \in 1 .. Len(ts) + 1
         /\ FirstAtTop(ts, words) <= Len(ts) <=> AtTop(ts, words) # {}
<1>1. Len(ts) \in Nat
  BY DEF Tokens
<1>2. AtTop(ts, words) \in SUBSET Nat /\ AtTop(ts, words) \subseteq 1 .. Len(ts)
  BY <1>1 DEF AtTop
<1>3. CASE AtTop(ts, words) = {}
  BY <1>1, <1>3 DEF FirstAtTop
<1>4. CASE AtTop(ts, words) # {}
  <2>1. \E m \in AtTop(ts, words) : \A k \in AtTop(ts, words) : m <= k
    BY <1>2, <1>4, LeastExists
  <2>2. FirstAtTop(ts, words) = CHOOSE i \in AtTop(ts, words) : \A k \in AtTop(ts, words) : i <= k
    BY <1>4 DEF FirstAtTop
  <2>3. FirstAtTop(ts, words) \in AtTop(ts, words) /\ \A k \in AtTop(ts, words) : FirstAtTop(ts, words) <= k
    BY <2>1, <2>2, Zenon
  <2> QED
    BY <1>1, <1>2, <1>4, <2>3
<1> QED
  BY <1>3, <1>4

\* It is the only such position.
LEMMA FirstIs ==
  ASSUME NEW ts \in Tokens, NEW words, NEW i \in AtTop(ts, words), \A k \in AtTop(ts, words) : i <= k
  PROVE  FirstAtTop(ts, words) = i
<1>1. FirstAtTop(ts, words) \in AtTop(ts, words) /\ \A k \in AtTop(ts, words) : FirstAtTop(ts, words) <= k
  BY FirstOutside
<1>2. i <= FirstAtTop(ts, words) /\ FirstAtTop(ts, words) <= i /\ i \in Int /\ FirstAtTop(ts, words) \in Int
  BY <1>1 DEF AtTop
<1> QED
  BY <1>2

\* The words outside brackets in two parts, of which the first closes its brackets.
LEMMA JoinedTop ==
  ASSUME NEW a \in Tokens, NEW b \in Tokens, NEW words
  PROVE  /\ \A i \in 1 .. Len(a) : i \in AtTop(a \o b, words) <=> i \in AtTop(a, words)
         /\ Level(a) => \A k \in 1 .. Len(b) : Len(a) + k \in AtTop(a \o b, words) <=> k \in AtTop(b, words)
<1>1. /\ a \o b \in Tokens /\ Len(a \o b) = Len(a) + Len(b) /\ Len(a) \in Nat /\ Len(b) \in Nat
      /\ \A i \in 1 .. Len(a) : i \in 1 .. Len(a \o b) /\ (a \o b)[i] = a[i]
      /\ \A k \in 1 .. Len(b) : Len(a) + k \in 1 .. Len(a \o b) /\ (a \o b)[Len(a) + k] = b[k]
  BY Joined
<1>2. /\ \A i \in 0 .. Len(a) : Depth(a \o b, i) = Depth(a, i)
      /\ \A k \in 0 .. Len(b) : Depth(a \o b, Len(a) + k) = Depth(a, Len(a)) + Depth(b, k)
  BY JoinedDepth
<1>3. \A k \in 0 .. Len(b) : Depth(b, k) \in Int
  BY <1>1, DepthStep
<1>4. ASSUME NEW i \in 1 .. Len(a) PROVE i \in AtTop(a \o b, words) <=> i \in AtTop(a, words)
  BY <1>1, <1>2 DEF AtTop
<1>5. ASSUME Level(a), NEW k \in 1 .. Len(b)
      PROVE  Len(a) + k \in AtTop(a \o b, words) <=> k \in AtTop(b, words)
  <2>1. Depth(a \o b, Len(a) + k) = Depth(b, k)
    <3>1. k \in 0 .. Len(b)
      BY <1>1
    <3> QED
      BY <1>2, <1>3, <1>5, <3>1 DEF Level
  <2> QED
    BY <1>1, <2>1 DEF AtTop
<1> QED
  BY <1>4, <1>5

\* Parts that close their brackets do so together.
LEMMA JoinedLevel ==
  ASSUME NEW a \in Tokens, NEW b \in Tokens, Level(a), Level(b)
  PROVE  Level(a \o b)
<1>1. Len(a \o b) = Len(a) + Len(b) /\ Len(a) \in Nat /\ Len(b) \in Nat
  BY Joined
<1>2. Depth(a \o b, Len(a) + Len(b)) = Depth(a, Len(a)) + Depth(b, Len(b))
  <2>1. Len(b) \in 0 .. Len(b)
    BY <1>1
  <2> QED
    BY <2>1, JoinedDepth
<1> QED
  BY <1>1, <1>2 DEF Level

\* The first is looked for behind a part that has none.
LEMMA FirstIsSkipped ==
  ASSUME NEW a \in Tokens, NEW b \in Tokens, NEW words, Level(a), AtTop(a, words) = {}
  PROVE  /\ FirstAtTop(a \o b, words) = Len(a) + FirstAtTop(b, words)
         /\ AtTop(a \o b, words) = {} <=> AtTop(b, words) = {}
<1> DEFINE ab == a \o b
<1>1. ab \in Tokens /\ Len(ab) = Len(a) + Len(b) /\ Len(a) \in Nat /\ Len(b) \in Nat
  BY Joined
<1>2. /\ \A i \in 1 .. Len(a) : i \notin AtTop(ab, words)
      /\ \A k \in 1 .. Len(b) : Len(a) + k \in AtTop(ab, words) <=> k \in AtTop(b, words)
  BY JoinedTop
<1> HIDE DEF ab
<1>3. ASSUME NEW i \in AtTop(ab, words) PROVE i - Len(a) \in AtTop(b, words) /\ i \in Int
  <2>1. i \in 1 .. Len(a) + Len(b) /\ i \notin 1 .. Len(a)
    BY <1>1, <1>2 DEF AtTop
  <2>2. i - Len(a) \in 1 .. Len(b) /\ Len(a) + (i - Len(a)) = i /\ i \in Int
    BY <1>1, <2>1
  <2> QED
    BY <1>2, <2>2
<1>4. ASSUME NEW k \in AtTop(b, words) PROVE Len(a) + k \in AtTop(ab, words) /\ k \in Int
  <2>1. k \in 1 .. Len(b)
    BY DEF AtTop
  <2> QED
    BY <1>2, <2>1
<1>5. CASE AtTop(b, words) = {}
  <2>1. AtTop(ab, words) = {}
    BY <1>3, <1>5
  <2>2. FirstAtTop(ab, words) = Len(ab) + 1
    BY <1>1, <2>1, FirstOutside
  <2>3. FirstAtTop(b, words) = Len(b) + 1
    BY <1>5, FirstOutside
  <2>4. FirstAtTop(ab, words) = Len(a) + FirstAtTop(b, words)
    BY <1>1, <2>2, <2>3
  <2> QED
    BY <1>5, <2>1, <2>4 DEF ab
<1>6. CASE AtTop(b, words) # {}
  <2> DEFINE f == FirstAtTop(b, words)
  <2>1. f \in AtTop(b, words) /\ \A k \in AtTop(b, words) : f <= k
    BY <1>6, FirstOutside
  <2> HIDE DEF f
  <2>2. Len(a) + f \in AtTop(ab, words) /\ f \in Int
    BY <1>4, <2>1
  <2>3. ASSUME NEW i \in AtTop(ab, words) PROVE Len(a) + f <= i
    <3>1. f <= i - Len(a) /\ i \in Int
      BY <1>3, <2>1
    <3> QED
      BY <1>1, <2>2, <3>1
  <2>4. FirstAtTop(ab, words) = Len(a) + f
    BY <1>1, <2>2, <2>3, FirstIs
  <2> QED
    BY <1>6, <2>2, <2>4 DEF f, ab
<1> QED
  BY <1>5, <1>6

\* More tokens behind a part that has one leave the first where it is.
LEMMA FirstStays ==
  ASSUME NEW a \in Tokens, NEW b \in Tokens, NEW words, AtTop(a, words) # {}
  PROVE  FirstAtTop(a \o b, words) = FirstAtTop(a, words) /\ AtTop(a \o b, words) # {}
<1> DEFINE ab == a \o b
           f  == FirstAtTop(a, words)
<1>1. ab \in Tokens /\ Len(a) \in Nat /\ Len(b) \in Nat /\ Len(ab) = Len(a) + Len(b)
  BY Joined
<1>2. \A i \in 1 .. Len(a) : i \in AtTop(ab, words) <=> i \in AtTop(a, words)
  BY JoinedTop
<1>3. f \in AtTop(a, words) /\ \A k \in AtTop(a, words) : f <= k
  BY FirstOutside
<1> HIDE DEF ab, f
<1>4. f \in 1 .. Len(a)
  BY <1>3 DEF AtTop
<1>5. f \in AtTop(ab, words)
  BY <1>2, <1>3, <1>4
<1>6. ASSUME NEW i \in AtTop(ab, words) PROVE f <= i
  <2>1. i \in 1 .. Len(ab)
    BY DEF AtTop
  <2>2. CASE i \in 1 .. Len(a)
    BY <1>2, <1>3, <2>2
  <2>3. CASE i \notin 1 .. Len(a)
    BY <1>1, <1>4, <2>1, <2>3
  <2> QED
    BY <2>2, <2>3
<1>7. FirstAtTop(ab, words) = f
  BY <1>1, <1>5, <1>6, FirstIs
<1> QED
  BY <1>5, <1>7 DEF ab, f

\* The word in front is the first.
LEMMA FirstIsHead ==
  ASSUME NEW b \in Tokens, b # <<>>, NEW words, b[1] \in words, b[1] \notin {"(", ")"}
  PROVE  FirstAtTop(b, words) = 1 /\ AtTop(b, words) # {}
<1>1. Len(b) \in Nat \ {0}
  BY DEF Tokens
<1>2. Depth(b, 0 + 1) = Depth(b, 0) + Turn(b[0 + 1]) /\ Depth(b, 0) = 0
  BY DepthStep
<1>3. 1 \in AtTop(b, words)
  BY <1>1, <1>2 DEF AtTop, Turn
<1>4. \A k \in AtTop(b, words) : 1 <= k
  BY <1>1 DEF AtTop
<1> QED
  BY <1>3, <1>4, FirstIs

\* A word that does not occur is not outside brackets.
LEMMA NoneOutside ==
  ASSUME NEW ts \in Tokens, NEW words, \A i \in 1 .. Len(ts) : ts[i] \notin words
  PROVE  AtTop(ts, words) = {}
  BY DEF AtTop

\* Nothing in brackets is outside.
LEMMA Bracketed ==
  ASSUME NEW c \in Tokens, Balanced(c), NEW words, "(" \notin words, ")" \notin words
  PROVE  LET x == <<"(">> \o c \o <<")">>
         IN  x \in Tokens /\ Len(x) = Len(c) + 2 /\ Level(x) /\ AtTop(x, words) = {}
             /\ x[1] = "(" /\ SubSeq(x, 2, Len(x) - 1) = c /\ Balanced(x)
<1> DEFINE o == <<"(">>
           z == <<")">>
           y == o \o c
           x == y \o z
<1>1. o \in Tokens /\ Len(o) = 1 /\ o[1] = "(" /\ z \in Tokens /\ Len(z) = 1 /\ z[1] = ")"
  BY Literals, OneToken
<1> HIDE DEF o, z
<1>2. /\ y \in Tokens /\ Len(y) = 1 + Len(c) /\ Len(c) \in Nat
      /\ \A i \in 1 .. 1 : i \in 1 .. Len(y) /\ y[i] = o[i]
      /\ \A k \in 1 .. Len(c) : 1 + k \in 1 .. Len(y) /\ y[1 + k] = c[k]
  <2>1. /\ y \in Tokens /\ Len(y) = Len(o) + Len(c) /\ Len(c) \in Nat
        /\ \A i \in 1 .. Len(o) : i \in 1 .. Len(y) /\ y[i] = o[i]
        /\ \A k \in 1 .. Len(c) : Len(o) + k \in 1 .. Len(y) /\ y[Len(o) + k] = c[k]
    BY <1>1, Joined
  <2> HIDE DEF y
  <2> QED
    BY <1>1, <2>1
<1>3. Depth(o, 0) = 0 /\ Depth(o, 1) = 1 /\ Depth(z, 0) = 0 /\ Depth(z, 1) = 0 - 1
  <2>1. /\ Depth(o, 0) = 0 /\ Depth(o, 0 + 1) = Depth(o, 0) + Turn(o[0 + 1])
        /\ Depth(z, 0) = 0 /\ Depth(z, 0 + 1) = Depth(z, 0) + Turn(z[0 + 1])
    BY DepthStep
  <2> QED
    BY <1>1, <2>1 DEF Turn
<1>4. /\ \A i \in 0 .. 1 : Depth(y, i) = Depth(o, i)
      /\ \A k \in 0 .. Len(c) : Depth(y, 1 + k) = 1 + Depth(c, k)
  <2>1. /\ \A i \in 0 .. Len(o) : Depth(y, i) = Depth(o, i)
        /\ \A k \in 0 .. Len(c) : Depth(y, Len(o) + k) = Depth(o, Len(o)) + Depth(c, k)
    BY <1>1, JoinedDepth
  <2> HIDE DEF y
  <2> QED
    BY <1>1, <1>3, <2>1
<1> HIDE DEF y
<1>5. /\ x \in Tokens /\ Len(x) = Len(c) + 2
      /\ \A i \in 1 .. Len(y) : i \in 1 .. Len(x) /\ x[i] = y[i]
      /\ \A k \in 1 .. 1 : x[Len(y) + k] = z[k]
  <2>1. /\ x \in Tokens /\ Len(x) = Len(y) + Len(z)
        /\ \A i \in 1 .. Len(y) : i \in 1 .. Len(x) /\ x[i] = y[i]
        /\ \A k \in 1 .. Len(z) : Len(y) + k \in 1 .. Len(x) /\ x[Len(y) + k] = z[k]
    BY <1>1, <1>2, Joined
  <2> HIDE DEF x
  <2> QED
    BY <1>1, <1>2, <2>1
<1>6. /\ \A i \in 0 .. Len(y) : Depth(x, i) = Depth(y, i)
      /\ \A k \in 0 .. 1 : Depth(x, Len(y) + k) = Depth(y, Len(y)) + Depth(z, k)
  <2>1. /\ \A i \in 0 .. Len(y) : Depth(x, i) = Depth(y, i)
        /\ \A k \in 0 .. Len(z) : Depth(x, Len(y) + k) = Depth(y, Len(y)) + Depth(z, k)
    BY <1>1, <1>2, JoinedDepth
  <2> HIDE DEF x
  <2> QED
    BY <1>1, <2>1
<1> HIDE DEF x
<1>7. Depth(c, 0) = 0 /\ Depth(c, Len(c)) = 0 /\ \A k \in 0 .. Len(c) : Depth(c, k) \in Int /\ Depth(c, k) >= 0
  <2>1. Depth(c, 0) = 0 /\ \A k \in 0 .. Len(c) : Depth(c, k) \in Int
    BY <1>2, DepthStep
  <2>2. \A k \in 1 .. Len(c) : Depth(c, k) >= 0
    BY DEF Balanced
  <2>3. \A k \in 0 .. Len(c) : k = 0 \/ k \in 1 .. Len(c)
    BY <1>2
  <2> QED
    BY <2>1, <2>2, <2>3 DEF Balanced
<1>8. \A i \in 1 .. 1 + Len(c) : Depth(x, i) >= 1 /\ Depth(x, i) \in Int
  <2> SUFFICES ASSUME NEW i \in 1 .. 1 + Len(c) PROVE Depth(x, i) >= 1 /\ Depth(x, i) \in Int
    OBVIOUS
  <2>1. i - 1 \in 0 .. Len(c) /\ 1 + (i - 1) = i /\ i \in 0 .. Len(y)
    BY <1>2
  <2>2. Depth(x, i) = 1 + Depth(c, i - 1)
    BY <1>4, <1>6, <2>1
  <2> QED
    BY <1>7, <2>1, <2>2
<1>9. Depth(x, Len(x)) = 0 /\ x[Len(x)] = ")"
  <2>1. Len(x) = Len(y) + 1 /\ 1 \in 0 .. 1 /\ 1 \in 1 .. 1 /\ Len(c) \in 0 .. Len(c) /\ 1 + Len(c) = Len(y)
    BY <1>2, <1>5
  <2>2. Depth(x, Len(y) + 1) = Depth(y, Len(y)) + Depth(z, 1) /\ Depth(y, Len(y)) = 1 + Depth(c, Len(c))
    BY <1>4, <1>6, <2>1
  <2> QED
    BY <1>1, <1>3, <1>5, <1>7, <2>1, <2>2
<1>10. AtTop(x, words) = {}
  <2> SUFFICES ASSUME NEW i \in 1 .. Len(x), x[i] \in words, Depth(x, i) = 0 PROVE FALSE
    BY DEF AtTop
  <2>1. i \in 1 .. 1 + Len(c) \/ i = Len(x)
    BY <1>2, <1>5
  <2> QED
    BY <1>8, <1>9, <2>1
<1>11. SubSeq(x, 2, Len(x) - 1) = c
  <2> DEFINE e == Len(x) - 1
  <2>1. 2 \in 1 .. Len(x) + 1 /\ e \in 2 - 1 .. Len(x) /\ e - 2 + 1 = Len(c)
    BY <1>2, <1>5
  <2> HIDE DEF e
  <2>2. /\ SubSeq(x, 2, e) \in Tokens /\ Len(SubSeq(x, 2, e)) = Len(c)
        /\ \A k \in 1 .. Len(c) : SubSeq(x, 2, e)[k] = x[2 + k - 1]
    BY <1>5, <2>1, Cut
  <2>3. ASSUME NEW k \in 1 .. Len(c) PROVE x[2 + k - 1] = c[k]
    <3>1. 2 + k - 1 = 1 + k /\ 1 + k \in 1 .. Len(y)
      BY <1>2
    <3> QED
      BY <1>2, <1>5, <3>1
  <2>4. SubSeq(x, 2, e) = c
    BY <2>2, <2>3, SeqEqual DEF Tokens
  <2> QED
    BY <2>4 DEF e
<1>12. x[1] = "("
  <2>1. 1 \in 1 .. 1 /\ 1 \in 1 .. Len(y)
    BY <1>2
  <2> QED
    BY <1>1, <1>2, <1>5, <2>1
<1>13. Balanced(x)
  <2>1. \A i \in 1 .. Len(x) : i \in 1 .. 1 + Len(c) \/ i = Len(x)
    BY <1>2, <1>5
  <2>2. \A i \in 1 .. Len(x) : Depth(x, i) >= 0
    BY <1>8, <1>9, <2>1
  <2> QED
    BY <1>9, <2>2 DEF Balanced
<1>14. x = <<"(">> \o c \o <<")">>
  BY DEF x, y, o, z
<1> QED
  BY <1>5, <1>9, <1>10, <1>11, <1>12, <1>13, <1>14 DEF Level

(***************************************************************************)
(* What a condition means.                                                 *)
(***************************************************************************)
\* The conditions that the meaning of another one is made of.
LeftOf(c, i)  == SubSeq(c, 1, i - 1)
RightOf(c, i) == SubSeq(c, i + 1, Len(c))
Inner(c)      == SubSeq(c, 2, Len(c) - 1)

\* The parts on which the meaning of a condition rests are shorter.
LEMMA PartsAreShorter ==
  ASSUME NEW c \in Tokens
  PROVE  /\ \A i \in 1 .. Len(c) : /\ LeftOf(c, i) \in Tokens /\ Len(LeftOf(c, i)) < Len(c)
                                   /\ RightOf(c, i) \in Tokens /\ Len(RightOf(c, i)) < Len(c)
         /\ Tok(c, 1) = "(" => Inner(c) \in Tokens /\ Len(Inner(c)) < Len(c)
<1>1. Len(c) \in Nat
  BY DEF Tokens
<1>2. ASSUME NEW m \in 1 .. Len(c) + 1, NEW n \in m - 1 .. Len(c), n - m + 1 < Len(c)
      PROVE  SubSeq(c, m, n) \in Tokens /\ Len(SubSeq(c, m, n)) < Len(c)
  BY <1>2, Cut
<1>3. ASSUME NEW i \in 1 .. Len(c)
      PROVE  /\ LeftOf(c, i) \in Tokens /\ Len(LeftOf(c, i)) < Len(c)
             /\ RightOf(c, i) \in Tokens /\ Len(RightOf(c, i)) < Len(c)
  <2>1. 1 \in 1 .. Len(c) + 1 /\ i - 1 \in 1 - 1 .. Len(c) /\ (i - 1) - 1 + 1 < Len(c)
    BY <1>1
  <2>2. i + 1 \in 1 .. Len(c) + 1 /\ Len(c) \in (i + 1) - 1 .. Len(c) /\ Len(c) - (i + 1) + 1 < Len(c)
    BY <1>1
  <2>3. LeftOf(c, i) \in Tokens /\ Len(LeftOf(c, i)) < Len(c)
    BY <1>2, <2>1 DEF LeftOf
  <2>4. RightOf(c, i) \in Tokens /\ Len(RightOf(c, i)) < Len(c)
    BY <1>2, <2>2 DEF RightOf
  <2> QED
    BY <2>3, <2>4
<1>4. ASSUME Tok(c, 1) = "(" PROVE Inner(c) \in Tokens /\ Len(Inner(c)) < Len(c)
  <2>1. Len(c) > 0
    <3>1. "<end>" # "("
      OBVIOUS
    <3> QED
      BY <1>1, <1>4, <3>1 DEF Tok
  <2>2. CASE Len(c) = 1
    <3>1. Inner(c) = <<>>
      <4>1. Len(c) - 1 \in Int /\ Len(c) - 1 < 2
        BY <2>2
      <4> QED
        BY <4>1, SubSeqEmpty DEF Inner
    <3>2. <<>> \in Tokens /\ Len(<<>>) = 0
      BY DEF Tokens
    <3> QED
      BY <2>1, <3>1, <3>2
  <2>3. CASE Len(c) # 1
    <3>1. 2 \in 1 .. Len(c) + 1 /\ Len(c) - 1 \in 2 - 1 .. Len(c) /\ (Len(c) - 1) - 2 + 1 < Len(c)
      <4>1. \A n \in Nat : n > 0 /\ n # 1 => 2 \in 1 .. n + 1 /\ n - 1 \in 2 - 1 .. n /\ (n - 1) - 2 + 1 < n
        OBVIOUS
      <4> QED
        BY <1>1, <2>1, <2>3, <4>1
    <3> QED
      BY <1>2, <3>1 DEF Inner
  <2> QED
    BY <2>2, <2>3
<1> QED
  BY <1>3, <1>4

\* It depends on that of shorter conditions only.
LEMMA MeaningIsLocal ==
  ASSUME NEW c \in Tokens, NEW f, NEW g, NEW row, \A d \in Tokens : Len(d) < Len(c) => f[d] = g[d]
  PROVE  Meaning(f, c, row) = Meaning(g, c, row)
<1> DEFINE or  == FirstAtTop(c, {"or"})
           and == FirstAtTop(c, {"and"})
<1>1. or \in 1 .. Len(c) + 1 /\ and \in 1 .. Len(c) + 1 /\ Len(c) \in Nat
  BY FirstOutside DEF Tokens
<1>2. \A h : Meaning(h, c, row) =
        IF or <= Len(c) THEN h[LeftOf(c, or)] \/ h[RightOf(c, or)]
        ELSE IF and <= Len(c) THEN h[LeftOf(c, and)] /\ h[RightOf(c, and)]
        ELSE IF Tok(c, 1) = "(" THEN h[Inner(c)]
        ELSE IF c \in {<<"p">>, <<"r">>} THEN row[c[1]] ELSE row[Unquote(c[3])] = c[5]
  BY Zenon DEF Meaning, LeftOf, RightOf, Inner
<1> HIDE DEF or, and
<1>0. \A i \in 1 .. Len(c) + 1 : i <= Len(c) =>
           f[LeftOf(c, i)] = g[LeftOf(c, i)] /\ f[RightOf(c, i)] = g[RightOf(c, i)]
  <2> SUFFICES ASSUME NEW i \in 1 .. Len(c)
               PROVE f[LeftOf(c, i)] = g[LeftOf(c, i)] /\ f[RightOf(c, i)] = g[RightOf(c, i)]
    BY <1>1
  <2>1. /\ LeftOf(c, i) \in Tokens /\ Len(LeftOf(c, i)) < Len(c)
        /\ RightOf(c, i) \in Tokens /\ Len(RightOf(c, i)) < Len(c)
    BY PartsAreShorter
  <2> QED
    BY <2>1
<1>3. or <= Len(c) => f[LeftOf(c, or)] = g[LeftOf(c, or)] /\ f[RightOf(c, or)] = g[RightOf(c, or)]
  BY <1>0, <1>1
<1>4. and <= Len(c) => f[LeftOf(c, and)] = g[LeftOf(c, and)] /\ f[RightOf(c, and)] = g[RightOf(c, and)]
  BY <1>0, <1>1
<1>5. Tok(c, 1) = "(" => f[Inner(c)] = g[Inner(c)]
  BY PartsAreShorter
<1> QED
  BY <1>2, <1>3, <1>4, <1>5

\* A meaning of the conditions of at most n tokens.
UpTo(n) == {c \in Tokens : Len(c) <= n}

IsMeaning(f, n, row) == f = [c \in UpTo(n) |-> Meaning(f, c, row)]

\* Two meanings of the conditions up to some lengths agree on those that both have.
LEMMA MeaningsAgree ==
  ASSUME NEW f, NEW g, NEW m, NEW n, NEW row, IsMeaning(f, m, row), IsMeaning(g, n, row),
         NEW c \in UpTo(m) \cap UpTo(n), m \in Nat, n \in Nat
  PROVE  f[c] = g[c]
<1> DEFINE bad == {d \in UpTo(m) \cap UpTo(n) : f[d] # g[d]}
           S   == {Len(d) : d \in bad}
<1> SUFFICES ASSUME bad # {} PROVE FALSE
  OBVIOUS
<1>1. \A d \in Tokens : Len(d) \in Nat
  BY DEF Tokens
<1>2. S \in SUBSET Nat /\ S # {}
  BY <1>1 DEF UpTo
<1>3. PICK k \in S : \A j \in S : k <= j
  BY <1>2, LeastExists
<1>4. PICK d \in bad : Len(d) = k
  BY <1>3
<1>5. d \in Tokens /\ Len(d) <= m /\ Len(d) <= n /\ f[d] # g[d]
  BY <1>4 DEF UpTo
<1>6. ASSUME NEW e \in Tokens, Len(e) < Len(d) PROVE f[e] = g[e]
  <2>1. e \in UpTo(m) \cap UpTo(n)
    BY <1>1, <1>5, <1>6 DEF UpTo
  <2>2. ~(k <= Len(e))
    BY <1>1, <1>4, <1>5, <1>6
  <2>3. Len(e) \notin S
    BY <1>3, <2>2
  <2> QED
    BY <2>1, <2>3
<1>7. Meaning(f, d, row) = Meaning(g, d, row)
  BY <1>5, <1>6, MeaningIsLocal
<1>8. f[d] = Meaning(f, d, row) /\ g[d] = Meaning(g, d, row)
  BY <1>5 DEF IsMeaning, UpTo
<1> QED
  BY <1>5, <1>7, <1>8

\* There is one for every length.
LEMMA MeaningExists ==
  ASSUME NEW row, NEW n \in Nat
  PROVE  \E f : IsMeaning(f, n, row)
<1> DEFINE S == {k \in Nat : ~\E f : IsMeaning(f, k, row)}
<1> SUFFICES ASSUME S # {} PROVE FALSE
  OBVIOUS
<1>1. PICK m \in S : \A k \in S : m <= k
  BY LeastExists
<1>2. \A d \in Tokens : Len(d) \in Nat
  BY DEF Tokens
<1>3. \E f : \A d \in Tokens : Len(d) < m => f[d] = Meaning(f, d, row)
  <2>1. CASE m = 0
    BY <1>2, <2>1
  <2>2. CASE m # 0
    <3>1. m - 1 \in Nat /\ ~(m <= m - 1)
      BY <2>2
    <3>2. m - 1 \notin S
      BY <1>1, <3>1
    <3>3. PICK f : IsMeaning(f, m - 1, row)
      BY <3>1, <3>2
    <3>4. \A d \in Tokens : Len(d) < m => d \in UpTo(m - 1)
      BY <1>2 DEF UpTo
    <3> QED
      BY <3>3, <3>4 DEF IsMeaning
  <2> QED
    BY <2>1, <2>2
<1>4. PICK f : \A d \in Tokens : Len(d) < m => f[d] = Meaning(f, d, row)
  BY <1>3
<1> DEFINE g == [c \in UpTo(m) |-> Meaning(f, c, row)]
<1>5. ASSUME NEW d \in Tokens, Len(d) < m PROVE g[d] = f[d]
  <2>1. d \in UpTo(m)
    BY <1>2, <1>5 DEF UpTo
  <2> QED
    BY <1>4, <1>5, <2>1
<1>6. ASSUME NEW c \in UpTo(m) PROVE Meaning(f, c, row) = Meaning(g, c, row)
  <2>1. c \in Tokens /\ Len(c) <= m
    BY DEF UpTo
  <2> HIDE DEF g
  <2>2. \A d \in Tokens : Len(d) < Len(c) => f[d] = g[d]
    BY <1>2, <1>5, <2>1
  <2> QED
    BY <2>1, <2>2, MeaningIsLocal
<1>7. IsMeaning(g, m, row)
  <2>1. g = [c \in UpTo(m) |-> Meaning(g, c, row)]
    BY <1>6, Zenon
  <2> QED
    BY <2>1 DEF IsMeaning
<1> QED
  BY <1>1, <1>7

\* The recursion in Holds defines a function.
LEMMA HoldsMeans ==
  ASSUME NEW row
  PROVE  \E f : \A c \in Tokens : Holds(c, row) = f[c] /\ f[c] = Meaning(f, c, row)
<1> DEFINE Sol(n) == CHOOSE f : IsMeaning(f, n, row)
           whole  == [c \in Tokens |-> Sol(Len(c))[c]]
           f      == CHOOSE h : h = [c \in Tokens |-> Meaning(h, c, row)]
<1>1. \A d \in Tokens : Len(d) \in Nat
  BY DEF Tokens
<1>2. \A n \in Nat : IsMeaning(Sol(n), n, row)
  BY MeaningExists
<1> HIDE DEF Sol
<1>3. \A c \in Tokens : Sol(Len(c))[c] = Meaning(Sol(Len(c)), c, row)
  <2> SUFFICES ASSUME NEW c \in Tokens PROVE Sol(Len(c))[c] = Meaning(Sol(Len(c)), c, row)
    OBVIOUS
  <2>1. c \in UpTo(Len(c)) /\ IsMeaning(Sol(Len(c)), Len(c), row)
    BY <1>1, <1>2 DEF UpTo
  <2> QED
    BY <2>1 DEF IsMeaning
<1>4. ASSUME NEW c \in Tokens, NEW d \in Tokens, Len(d) < Len(c)
      PROVE  Sol(Len(d))[d] = Sol(Len(c))[d]
  <2>1. d \in UpTo(Len(d)) \cap UpTo(Len(c)) /\ Len(c) \in Nat /\ Len(d) \in Nat
    BY <1>1, <1>4 DEF UpTo
  <2>2. IsMeaning(Sol(Len(d)), Len(d), row) /\ IsMeaning(Sol(Len(c)), Len(c), row)
    BY <1>2, <2>1
  <2> QED
    BY <2>1, <2>2, MeaningsAgree
<1>5. ASSUME NEW c \in Tokens PROVE whole[c] = Meaning(whole, c, row)
  <2>1. \A d \in Tokens : Len(d) < Len(c) => whole[d] = Sol(Len(c))[d]
    BY <1>4
  <2>2. whole[c] = Sol(Len(c))[c]
    OBVIOUS
  <2> HIDE DEF whole
  <2>3. Meaning(whole, c, row) = Meaning(Sol(Len(c)), c, row)
    BY <2>1, MeaningIsLocal
  <2> QED
    BY <1>3, <2>2, <2>3
<1>6. whole = [c \in Tokens |-> Meaning(whole, c, row)]
  BY <1>5, Zenon
<1> HIDE DEF whole
<1>7. f = [c \in Tokens |-> Meaning(f, c, row)]
  BY <1>6, Zenon
<1>8. \A c \in Tokens : Holds(c, row) = f[c]
  BY Zenon DEF Holds, Tokens, Words
<1> HIDE DEF f
<1>9. \A c \in Tokens : f[c] = Meaning(f, c, row)
  BY <1>7, Zenon
<1> QED
  BY <1>8, <1>9

\* What stands outside brackets takes a condition apart.
LEMMA HoldsOr ==
  ASSUME NEW row, NEW c \in Tokens, AtTop(c, {"or"}) = {}
  PROVE  /\ AtTop(c, {"and"}) # {} =>
              LET i == FirstAtTop(c, {"and"})
              IN  Holds(c, row) = (Holds(LeftOf(c, i), row) /\ Holds(RightOf(c, i), row))
         /\ AtTop(c, {"and"}) = {} =>
              Holds(c, row) = IF Tok(c, 1) = "(" THEN Holds(Inner(c), row)
                              ELSE IF c \in {<<"p">>, <<"r">>} THEN row[c[1]] ELSE row[Unquote(c[3])] = c[5]
<1> DEFINE i == FirstAtTop(c, {"and"})
<1>1. PICK f : \A d \in Tokens : Holds(d, row) = f[d] /\ f[d] = Meaning(f, d, row)
  BY HoldsMeans
<1>2. ~(FirstAtTop(c, {"or"}) <= Len(c)) /\ (i <= Len(c) <=> AtTop(c, {"and"}) # {})
      /\ i \in 1 .. Len(c) + 1 /\ Len(c) \in Nat
  BY FirstOutside DEF Tokens
<1>3. Meaning(f, c, row) =
        IF FirstAtTop(c, {"or"}) <= Len(c)
        THEN f[LeftOf(c, FirstAtTop(c, {"or"}))] \/ f[RightOf(c, FirstAtTop(c, {"or"}))]
        ELSE IF i <= Len(c) THEN f[LeftOf(c, i)] /\ f[RightOf(c, i)]
        ELSE IF Tok(c, 1) = "(" THEN f[Inner(c)]
        ELSE IF c \in {<<"p">>, <<"r">>} THEN row[c[1]] ELSE row[Unquote(c[3])] = c[5]
  BY Zenon DEF Meaning, LeftOf, RightOf, Inner
<1> HIDE DEF i
<1>4. CASE AtTop(c, {"and"}) # {}
  <2>1. Meaning(f, c, row) = (f[LeftOf(c, i)] /\ f[RightOf(c, i)])
    <3>1. ~(FirstAtTop(c, {"or"}) <= Len(c)) /\ i <= Len(c)
      BY <1>2, <1>4
    <3> QED
      BY <1>3, <3>1, Zenon
  <2>2. i \in 1 .. Len(c)
    BY <1>2, <1>4
  <2>3. Holds(LeftOf(c, i), row) = f[LeftOf(c, i)] /\ Holds(RightOf(c, i), row) = f[RightOf(c, i)]
    BY <1>1, <2>2, PartsAreShorter
  <2> QED
    BY <1>1, <1>4, <2>1, <2>3 DEF i
<1>5. CASE AtTop(c, {"and"}) = {}
  <2>1. Meaning(f, c, row) = IF Tok(c, 1) = "(" THEN f[Inner(c)]
                             ELSE IF c \in {<<"p">>, <<"r">>} THEN row[c[1]] ELSE row[Unquote(c[3])] = c[5]
    <3>1. ~(FirstAtTop(c, {"or"}) <= Len(c)) /\ ~(i <= Len(c))
      BY <1>2, <1>5
    <3> QED
      BY <1>3, <3>1, Zenon
  <2>2. Tok(c, 1) = "(" => Holds(Inner(c), row) = f[Inner(c)]
    BY <1>1, PartsAreShorter
  <2> QED
    BY <1>1, <1>5, <2>1, <2>2
<1> QED
  BY <1>4, <1>5

(***************************************************************************)
(* Where the predicate of the tenant is written.                           *)
(***************************************************************************)
LEMMA Regrouped ==
  ASSUME NEW a \in Tokens, NEW b \in Tokens, NEW c \in Tokens
  PROVE  (a \o b) \o c = a \o (b \o c)
  BY ConcatAssociative DEF Tokens

Tie(a, b) == a \o b

\* Six parts, grouped otherwise.
GroupAlike(a, b, c, d, e, f) ==
  Tie(Tie(Tie(Tie(a, b), c), Tie(d, e)), f) = Tie(a, Tie(Tie(Tie(b, c), d), Tie(e, f)))

\* However six parts are grouped, they give the same text.
LEMMA RegroupedAll ==
  ASSUME NEW a \in Tokens, NEW b \in Tokens, NEW c \in Tokens, NEW d \in Tokens, NEW e \in Tokens,
         NEW f \in Tokens
  PROVE  GroupAlike(a, b, c, d, e, f)
<1>1. \A s, t \in Tokens : Tie(s, t) \in Tokens
  BY Joined DEF Tie
<1>2. \A s, t, x \in Tokens : Tie(Tie(s, t), x) = Tie(s, Tie(t, x))
  BY Regrouped DEF Tie
<1>3. Tie(Tie(Tie(Tie(a, b), c), Tie(d, e)), f) = Tie(Tie(Tie(a, b), c), Tie(d, Tie(e, f)))
  <2>1. Tie(Tie(Tie(a, b), c), Tie(d, e)) \in Tokens /\ Tie(Tie(a, b), c) \in Tokens /\ Tie(d, e) \in Tokens
    BY <1>1
  <2>2. Tie(Tie(Tie(Tie(a, b), c), Tie(d, e)), f) = Tie(Tie(Tie(a, b), c), Tie(Tie(d, e), f))
    BY <1>2, <2>1
  <2>3. Tie(Tie(d, e), f) = Tie(d, Tie(e, f))
    BY <1>2
  <2> QED
    BY <2>2, <2>3
<1>4. Tie(Tie(Tie(a, b), c), Tie(d, Tie(e, f))) = Tie(Tie(a, Tie(Tie(b, c), d)), Tie(e, f))
  BY <1>1, <1>2
<1>5. Tie(Tie(a, Tie(Tie(b, c), d)), Tie(e, f)) = Tie(a, Tie(Tie(Tie(b, c), d), Tie(e, f)))
  BY <1>1, <1>2
<1> QED
  BY <1>3, <1>4, <1>5 DEF GroupAlike

\* The part between two others, cut out.
LEMMA Middle ==
  ASSUME NEW a \in Tokens, NEW b \in Tokens, NEW c \in Tokens
  PROVE  SubSeq(a \o b \o c, Len(a) + 1, Len(a) + Len(b)) = b
<1> DEFINE ab == a \o b
           ts == ab \o c
           m  == Len(a) + 1
           n  == Len(a) + Len(b)
<1>1. /\ ab \in Tokens /\ Len(ab) = Len(a) + Len(b) /\ Len(a) \in Nat /\ Len(b) \in Nat
      /\ \A k \in 1 .. Len(b) : Len(a) + k \in 1 .. Len(ab) /\ ab[Len(a) + k] = b[k]
  BY Joined
<1> HIDE DEF ab
<1>2. /\ ts \in Tokens /\ Len(ts) = Len(ab) + Len(c) /\ Len(c) \in Nat
      /\ \A i \in 1 .. Len(ab) : i \in 1 .. Len(ts) /\ ts[i] = ab[i]
  BY <1>1, Joined
<1> HIDE DEF ts
<1>3. m \in 1 .. Len(ts) + 1 /\ n \in m - 1 .. Len(ts) /\ n - m + 1 = Len(b)
      /\ \A k \in 1 .. Len(b) : m + k - 1 = Len(a) + k
  BY <1>1, <1>2
<1> HIDE DEF m, n
<1>4. /\ SubSeq(ts, m, n) \in Tokens /\ Len(SubSeq(ts, m, n)) = n - m + 1
      /\ \A k \in 1 .. n - m + 1 : SubSeq(ts, m, n)[k] = ts[m + k - 1]
  BY <1>2, <1>3, Cut
<1>5. \A k \in 1 .. Len(b) : SubSeq(ts, m, n)[k] = b[k]
  BY <1>1, <1>2, <1>3, <1>4
<1>6. SubSeq(ts, m, n) = b
  BY <1>3, <1>4, <1>5, SeqEqual DEF Tokens
<1> QED
  BY <1>6 DEF ts, ab, m, n

\* Two parts, cut where they meet.
LEMMA Uncut ==
  ASSUME NEW a \in Tokens, NEW b \in Tokens
  PROVE  SubSeq(a \o b, 1, Len(a)) = a /\ SubSeq(a \o b, Len(a) + 1, Len(a \o b)) = b
<1>1. <<>> \in Tokens /\ Len(<<>>) = 0 /\ Len(a) \in Nat /\ Len(b) \in Nat /\ Len(a \o b) = Len(a) + Len(b)
      /\ a \o b \in Tokens
  BY Joined DEF Tokens
<1>2. <<>> \o a = a /\ (a \o b) \o <<>> = a \o b
  BY <1>1, ConcatEmptySeq DEF Tokens
<1>3. SubSeq(a \o b, 1, Len(a)) = a
  <2>1. SubSeq(<<>> \o a \o b, Len(<<>>) + 1, Len(<<>>) + Len(a)) = a
    BY <1>1, Middle
  <2>2. Len(<<>>) + 1 = 1 /\ Len(<<>>) + Len(a) = Len(a)
    BY <1>1
  <2> QED
    BY <1>2, <2>1, <2>2
<1>4. SubSeq(a \o b, Len(a) + 1, Len(a \o b)) = b
  <2>1. SubSeq(a \o b \o <<>>, Len(a) + 1, Len(a) + Len(b)) = b
    BY <1>1, Middle
  <2> QED
    BY <1>1, <1>2, <2>1
<1> QED
  BY <1>3, <1>4

Where == <<"where">>

\* A statement whose condition is c.
Frame(u, c, v) == u \o Where \o c \o v

Both(d, pred) == <<"(">> \o d \o <<")">> \o (<<"and">> \o pred)

Ends(v) == v = <<>> \/ v[1] \in Closing

\* The token WHERE stands outside brackets.
LEMMA WhereShape ==
  /\ Where \in Tokens /\ Len(Where) = 1 /\ Where[1] = "where" /\ Level(Where)
  /\ AtTop(Where, {"where"}) = {1} /\ AtTop(Where, Closing) = {}
<1>1. Where \in Tokens /\ Len(Where) = 1 /\ Where[1] = "where"
  BY Literals, OneToken DEF Where
<1> USE DEF Level
<1> HIDE DEF Where
<1>2. Flat(Where)
  BY <1>1 DEF Flat
<1>3. Depth(Where, 1) = 0 /\ Level(Where)
  BY <1>1, <1>2, FlatIsLevel
<1>4. AtTop(Where, {"where"}) = {1} /\ AtTop(Where, Closing) = {}
  BY <1>1, <1>3 DEF AtTop, Closing
<1> QED
  BY <1>1, <1>3, <1>4

\* What a statement ends with starts with a closing word.
LEMMA EndsFirst ==
  ASSUME NEW v \in Tokens, Ends(v)
  PROVE  FirstAtTop(v, Closing) = 1
<1>1. "(" \notin Closing /\ ")" \notin Closing
  BY DEF Closing
<1>2. CASE v = <<>>
  <2>1. AtTop(v, Closing) = {} /\ Len(v) = 0
    BY <1>2 DEF AtTop
  <2> QED
    BY <2>1, FirstOutside
<1>3. CASE v # <<>>
  BY <1>1, <1>3, FirstIsHead DEF Ends
<1> QED
  BY <1>2, <1>3

\* A statement without a condition gets one.
LEMMA PredicateAlone ==
  ASSUME NEW u \in Tokens, NEW v \in Tokens, NEW pred \in Tokens,
         Level(u), AtTop(u, Closing) = {}, AtTop(u, {"where"}) = {}, Ends(v)
  PROVE  InjectPredicate(u \o v, pred) = Frame(u, pred, v)
<1> DEFINE ts == u \o v
           at == FirstAtTop(ts, Closing)
<1>1. ts \in Tokens /\ Len(u) \in Nat /\ Len(ts) \in Nat
  BY Joined DEF Tokens
<1>2. at = Len(u) + 1
  <2>1. FirstAtTop(ts, Closing) = Len(u) + FirstAtTop(v, Closing)
    BY FirstIsSkipped
  <2> QED
    BY <2>1, EndsFirst
<1>3. SubSeq(ts, 1, at - 1) = u /\ SubSeq(ts, at, Len(ts)) = v
  <2>1. at - 1 = Len(u)
    BY <1>1, <1>2
  <2> QED
    BY <1>2, <2>1, Uncut
<1>4. WhereAt(ts, at) = {}
  <2> SUFFICES ASSUME NEW i \in AtTop(ts, {"where"}), i < at PROVE FALSE
    BY DEF WhereAt
  <2>1. i \in 1 .. Len(u)
    <3>1. i \in 1 .. Len(ts)
      BY DEF AtTop
    <3> QED
      BY <1>1, <1>2, <3>1
  <2>2. i \in AtTop(u, {"where"})
    BY <2>1, JoinedTop
  <2> QED
    BY <2>2
<1> HIDE DEF ts, at
<1>5. InjectPredicate(ts, pred) = SubSeq(ts, 1, at - 1) \o <<"where">> \o pred \o SubSeq(ts, at, Len(ts))
  BY <1>4, Zenon DEF InjectPredicate, at
<1> QED
  BY <1>3, <1>5 DEF ts, Where, Frame

\* Another condition is put in brackets first.
LEMMA PredicateBeside ==
  ASSUME NEW u \in Tokens, NEW d \in Tokens, NEW v \in Tokens, NEW pred \in Tokens,
         Level(u), AtTop(u, Closing) = {}, Level(d), AtTop(d, Closing) = {}, AtTop(d, {"where"}) = {}, Ends(v)
  PROVE  InjectPredicate(Frame(u, d, v), pred) = Frame(u, Both(d, pred), v)
<1> DEFINE uw == u \o Where
           h  == uw \o d
           ts == h \o v
           at == FirstAtTop(ts, Closing)
           w  == Len(u) + 1
<1>1. uw \in Tokens /\ Len(uw) = w /\ Len(u) \in Nat /\ w \in Nat
  <2>1. uw \in Tokens /\ Len(uw) = Len(u) + Len(Where) /\ Len(u) \in Nat
    BY WhereShape, Joined
  <2> HIDE DEF uw
  <2> QED
    BY <2>1, WhereShape
<1>2. Level(uw) /\ AtTop(uw, Closing) = {}
  BY WhereShape, JoinedLevel, FirstIsSkipped
<1>3. w \in AtTop(uw, {"where"})
  <2>1. Where \in Tokens /\ 1 \in 1 .. Len(Where) /\ 1 \in AtTop(Where, {"where"})
    BY WhereShape
  <2>2. Len(u) + 1 \in AtTop(uw, {"where"})
    BY <2>1, JoinedTop
  <2> QED
    BY <2>2
<1> HIDE DEF uw
<1>4. h \in Tokens /\ Len(h) = w + Len(d) /\ Len(d) \in Nat
  <2>1. h \in Tokens /\ Len(h) = Len(uw) + Len(d) /\ Len(d) \in Nat
    BY <1>1, Joined
  <2> HIDE DEF h
  <2> QED
    BY <1>1, <2>1
<1>5. Level(h) /\ AtTop(h, Closing) = {}
  BY <1>1, <1>2, JoinedLevel, FirstIsSkipped
<1>6. \A i \in AtTop(h, {"where"}) : i <= w
  <2> SUFFICES ASSUME NEW i \in AtTop(h, {"where"}), ~(i <= w) PROVE FALSE
    OBVIOUS
  <2>1. i \in 1 .. Len(h)
    BY DEF AtTop
  <2>2. i - w \in 1 .. Len(d) /\ Len(uw) + (i - w) = i
    BY <1>1, <1>4, <2>1
  <2>3. i - w \in AtTop(d, {"where"})
    <3>1. \A k \in 1 .. Len(d) : Len(uw) + k \in AtTop(h, {"where"}) <=> k \in AtTop(d, {"where"})
      BY <1>1, <1>2, JoinedTop
    <3> HIDE DEF h
    <3> QED
      BY <2>2, <3>1
  <2> QED
    BY <2>3
<1>7. w \in AtTop(h, {"where"})
  <2>1. w \in 1 .. Len(uw)
    BY <1>1
  <2> QED
    BY <1>1, <1>3, <2>1, JoinedTop
<1>8. ts = uw \o (d \o v) /\ d \o v \in Tokens
  <2>1. d \o v \in Tokens
    BY Joined
  <2>2. uw \o d \o v = uw \o (d \o v)
    BY <1>1, Regrouped, Zenon
  <2> QED
    BY <2>1, <2>2
<1> HIDE DEF h
<1>9. ts \in Tokens /\ Len(ts) = Len(h) + Len(v) /\ Len(v) \in Nat
  BY <1>4, Joined
<1>10. at = Len(h) + 1
  <2>1. FirstAtTop(ts, Closing) = Len(h) + FirstAtTop(v, Closing)
    BY <1>4, <1>5, FirstIsSkipped
  <2> QED
    BY <2>1, EndsFirst
<1>11. SubSeq(ts, at, Len(ts)) = v
  BY <1>4, <1>10, Uncut
<1>12. SubSeq(ts, 1, w) = uw
  BY <1>1, <1>8, Uncut
<1>13. SubSeq(ts, w + 1, at - 1) = d
  <2>1. at - 1 = w + Len(d)
    BY <1>1, <1>4, <1>10
  <2>2. SubSeq(uw \o d \o v, Len(uw) + 1, Len(uw) + Len(d)) = d
    BY <1>1, Middle
  <2> QED
    BY <1>1, <2>1, <2>2 DEF h
<1>14. WhereAt(ts, at) = {w}
  <2> DEFINE top == {i \in AtTop(ts, {"where"}) : i < at}
  <2>1. WhereAt(ts, at) = {i \in top : \A k \in top : k <= i}
    BY DEF WhereAt
  <2>2. ASSUME NEW i \in top PROVE i \in AtTop(h, {"where"}) /\ i \in Int
    <3>1. i \in 1 .. Len(h)
      <4>1. i \in 1 .. Len(ts) /\ i < at
        BY DEF AtTop
      <4> QED
        BY <1>1, <1>4, <1>9, <1>10, <4>1
    <3> QED
      BY <1>4, <3>1, JoinedTop
  <2>3. w \in top
    <3>1. w \in 1 .. Len(h) /\ w < at
      BY <1>1, <1>4, <1>10
    <3>2. w \in AtTop(ts, {"where"})
      BY <1>4, <1>7, <3>1, JoinedTop
    <3> QED
      BY <3>1, <3>2
  <2> HIDE DEF top
  <2>4. \A i \in top : i <= w /\ (w <= i => i = w)
    BY <1>1, <1>6, <2>2
  <2> QED
    BY <2>1, <2>3, <2>4
<1> HIDE DEF ts, at
<1>15. InjectPredicate(ts, pred) =
         SubSeq(ts, 1, w) \o <<"(">> \o SubSeq(ts, w + 1, at - 1) \o <<")", "and">> \o pred \o SubSeq(ts, at, Len(ts))
  <2>1. (CHOOSE i \in WhereAt(ts, at) : TRUE) = w /\ WhereAt(ts, at) # {}
    BY <1>14
  <2> HIDE DEF w
  <2> QED
    BY <2>1, Zenon DEF InjectPredicate, at
<1>16. InjectPredicate(ts, pred) = uw \o <<"(">> \o d \o <<")", "and">> \o pred \o v
  BY <1>11, <1>12, <1>13, <1>15
<1>17. uw \o <<"(">> \o d \o <<")", "and">> \o pred = uw \o Both(d, pred)
  <2> DEFINE o == <<"(">>
             z == <<")">>
             n == <<"and">>
  <2>1. o \in Tokens /\ z \in Tokens /\ n \in Tokens
    BY Literals, OneToken
  <2>2. <<")", "and">> = z \o n
    OBVIOUS
  <2>3. Both(d, pred) = o \o d \o z \o (n \o pred)
    BY DEF Both
  <2> HIDE DEF o, z, n
  <2>4. uw \o o \o d \o (z \o n) \o pred = uw \o (o \o d \o z \o (n \o pred))
    <3>1. Tie(Tie(Tie(Tie(uw, o), d), Tie(z, n)), pred) = Tie(uw, Tie(Tie(Tie(o, d), z), Tie(n, pred)))
      <4>1. uw \in Tokens
        BY <1>1
      <4>2. GroupAlike(uw, o, d, z, n, pred)
        BY <2>1, <4>1, RegroupedAll
      <4> QED
        BY <4>2 DEF GroupAlike
    <3> QED
      BY <3>1, Zenon DEF Tie
  <2> QED
    BY <2>2, <2>3, <2>4 DEF o
<1>18. InjectPredicate(ts, pred) = uw \o Both(d, pred) \o v
  BY <1>16, <1>17
<1> QED
  BY <1>18 DEF ts, h, uw, Frame

\* The condition that the database reads.
LEMMA Framed ==
  ASSUME NEW u \in Tokens, NEW c \in Tokens, NEW v \in Tokens,
         Level(u), AtTop(u, Closing) = {}, AtTop(u, {"where"}) = {}, Level(c), AtTop(c, Closing) = {}, Ends(v)
  PROVE  Condition(Frame(u, c, v)) = c /\ FirstAtTop(Frame(u, c, v), {"where"}) = Len(u) + 1
<1> DEFINE uw == u \o Where
           h  == uw \o c
           ts == h \o v
           w  == Len(u) + 1
<1>1. uw \in Tokens /\ Len(uw) = w /\ Len(u) \in Nat
  <2>1. uw \in Tokens /\ Len(uw) = Len(u) + Len(Where) /\ Len(u) \in Nat
    BY WhereShape, Joined
  <2> HIDE DEF uw
  <2> QED
    BY <2>1, WhereShape
<1>2. Level(uw) /\ AtTop(uw, Closing) = {}
  BY WhereShape, JoinedLevel, FirstIsSkipped
<1>3. FirstAtTop(uw, {"where"}) = w /\ AtTop(uw, {"where"}) # {}
  <2>1. 1 \in AtTop(Where, {"where"}) /\ \A k \in AtTop(Where, {"where"}) : 1 <= k
    BY WhereShape
  <2>2. FirstAtTop(Where, {"where"}) = 1 /\ AtTop(Where, {"where"}) # {}
    BY <2>1, WhereShape, FirstIs
  <2> QED
    BY <2>2, WhereShape, FirstIsSkipped
<1> HIDE DEF uw
<1>4. h \in Tokens /\ Len(h) = Len(uw) + Len(c) /\ Len(c) \in Nat
  BY <1>1, Joined
<1>5. FirstAtTop(h, {"where"}) = w /\ AtTop(h, {"where"}) # {}
  BY <1>1, <1>3, FirstStays
<1>6. Level(h) /\ AtTop(h, Closing) = {}
  BY <1>1, <1>2, JoinedLevel, FirstIsSkipped
<1>7. SubSeq(ts, Len(uw) + 1, Len(uw) + Len(c)) = c
  BY <1>1, Middle
<1> HIDE DEF h
<1>8. FirstAtTop(ts, {"where"}) = w
  BY <1>4, <1>5, FirstStays
<1>9. FirstAtTop(ts, Closing) = Len(h) + 1
  <2>1. FirstAtTop(ts, Closing) = Len(h) + FirstAtTop(v, Closing)
    BY <1>4, <1>6, FirstIsSkipped
  <2> QED
    BY <2>1, EndsFirst
<1>10. Condition(ts) = c
  <2> HIDE DEF ts
  <2>1. w = Len(uw) /\ (Len(h) + 1) - 1 = Len(uw) + Len(c)
    BY <1>1, <1>4
  <2> QED
    BY <1>7, <1>8, <1>9, <2>1 DEF Condition
<1> QED
  BY <1>8, <1>10 DEF ts, h, uw, Frame

\* Without a WHERE there is no condition.
LEMMA Unframed ==
  ASSUME NEW ts \in Tokens, AtTop(ts, {"where"}) = {}
  PROVE  Condition(ts) = <<>>
<1> DEFINE n == FirstAtTop(ts, Closing) - 1
           m == Len(ts) + 2
<1>1. FirstAtTop(ts, {"where"}) + 1 = m /\ n < m /\ m \in Int /\ n \in Int
  <2>1. FirstAtTop(ts, {"where"}) = Len(ts) + 1 /\ FirstAtTop(ts, Closing) \in 1 .. Len(ts) + 1 /\ Len(ts) \in Nat
    BY FirstOutside DEF Tokens
  <2> QED
    BY <2>1
<1> HIDE DEF n, m
<1>2. SubSeq(ts, m, n) = <<>>
  BY <1>1, SubSeqEmpty
<1> QED
  BY <1>1, <1>2 DEF Condition, n

\* The token behind a part.
LEMMA OneBehind ==
  ASSUME NEW a \in Tokens, NEW x \in Tokens, Len(x) = 1
  PROVE  (a \o x)[Len(a) + 1] = x[1]
<1>1. \A n \in 1 .. Len(x) : (a \o x)[Len(a) + n] = x[n]
  BY Joined
<1>2. 1 \in 1 .. Len(x)
  OBVIOUS
<1> QED
  BY <1>1, <1>2

\* A statement that is cut in front of a word outside brackets, and behind it.
LEMMA CutOutside ==
  ASSUME NEW ts \in Tokens, Balanced(ts), NEW i \in 1 .. Len(ts), Depth(ts, i) = 0, ts[i] \notin {"(", ")"}
  PROVE  LET a == SubSeq(ts, 1, i - 1)
             b == SubSeq(ts, i, Len(ts))
             d == SubSeq(ts, i + 1, Len(ts))
         IN  /\ a \in Tokens /\ b \in Tokens /\ d \in Tokens
             /\ Len(a) = i - 1 /\ b[1] = ts[i] /\ b # <<>>
             /\ ts = a \o b /\ b = <<ts[i]>> \o d
             /\ Balanced(a) /\ Balanced(d)
<1> DEFINE j == i - 1
           a == SubSeq(ts, 1, j)
           b == SubSeq(ts, j + 1, Len(ts))
           d == SubSeq(ts, i + 1, Len(ts))
           e == SubSeq(ts, 1, i)
<1>1. Len(ts) \in Nat /\ ts[i] \in Words /\ j \in Nat /\ j \in 0 .. Len(ts) /\ j + 1 = i /\ i \in 0 .. Len(ts)
  BY DEF Tokens
<1>2. a \in Tokens /\ Len(a) = j /\ \A k \in 1 .. j : a[k] = ts[k]
  <2>1. 1 \in 1 .. Len(ts) + 1 /\ j \in 1 - 1 .. Len(ts) /\ j - 1 + 1 = j /\ \A k \in 1 .. j : 1 + k - 1 = k
    BY <1>1
  <2> HIDE DEF j
  <2> QED
    BY <2>1, Cut
<1>3. b \in Tokens /\ Len(b) = Len(ts) - j /\ b[1] = ts[i]
  <2> DEFINE n == Len(ts)
  <2>1. i \in 1 .. Len(ts) + 1 /\ n \in i - 1 .. Len(ts) /\ n - i + 1 = Len(ts) - j
        /\ 1 \in 1 .. n - i + 1 /\ i + 1 - 1 = i
    BY <1>1
  <2> HIDE DEF n
  <2>2. SubSeq(ts, i, n) \in Tokens /\ Len(SubSeq(ts, i, n)) = n - i + 1 /\ SubSeq(ts, i, n)[1] = ts[i + 1 - 1]
    BY <2>1, Cut
  <2>3. b = SubSeq(ts, i, n)
    <3>1. j + 1 = i
      BY <1>1
    <3> HIDE DEF j
    <3> QED
      BY <3>1, Zenon DEF n
  <2> HIDE DEF b, j
  <2> QED
    BY <2>1, <2>2, <2>3
<1>4. d \in Tokens /\ e \in Tokens /\ Len(e) = i /\ Len(d) = Len(ts) - i /\ \A k \in 1 .. i : e[k] = ts[k]
  <2> DEFINE n == Len(ts)
             m == i + 1
  <2>1. m \in 1 .. Len(ts) + 1 /\ n \in m - 1 .. Len(ts) /\ n - m + 1 = Len(ts) - i
    BY <1>1
  <2>2. 1 \in 1 .. Len(ts) + 1 /\ i \in 1 - 1 .. Len(ts) /\ i - 1 + 1 = i /\ \A k \in 1 .. i : 1 + k - 1 = k
    BY <1>1
  <2>3. e \in Tokens /\ Len(e) = i /\ \A k \in 1 .. i : e[k] = ts[k]
    BY <2>2, Cut
  <2> HIDE DEF n, m
  <2>4. SubSeq(ts, m, n) \in Tokens /\ Len(SubSeq(ts, m, n)) = n - m + 1
    BY <2>1, Cut
  <2> QED
    BY <2>1, <2>3, <2>4 DEF n, m
<1>11. Len(a) + 1 = i
  <2>1. Len(a) = j
    BY <1>2
  <2> HIDE DEF a
  <2> QED
    BY <1>1, <2>1
<1>5. ts = a \o b /\ ts = e \o d
  BY <1>1, CutAndJoined
<1>6. Depth(ts, j) = 0
  <2>1. Depth(ts, j + 1) = Depth(ts, j) + Turn(ts[j + 1]) /\ Depth(ts, j) \in Int
    BY <1>1, DepthStep
  <2> HIDE DEF j
  <2> QED
    BY <1>1, <2>1 DEF Turn
<1> HIDE DEF a, b, d, e, j
<1>7. Balanced(a)
  <2>1. \A k \in 0 .. Len(a) : Depth(ts, k) = Depth(a, k)
    <3>1. \A k \in 0 .. Len(a) : Depth(a \o b, k) = Depth(a, k)
      BY <1>2, <1>3, JoinedDepth
    <3> QED
      BY <1>5, <3>1
  <2>2. \A k \in 1 .. Len(a) : k \in 1 .. Len(ts) /\ k \in 0 .. Len(a)
    BY <1>1, <1>2
  <2>3. Len(a) \in 0 .. Len(a)
    BY <1>1, <1>2
  <2> QED
    BY <1>2, <1>6, <2>1, <2>2, <2>3 DEF Balanced
<1>8. Balanced(d)
  <2>1. /\ \A k \in 0 .. Len(e) : Depth(ts, k) = Depth(e, k)
        /\ \A k \in 0 .. Len(d) : Depth(ts, Len(e) + k) = Depth(e, Len(e)) + Depth(d, k)
    <3>1. /\ \A k \in 0 .. Len(e) : Depth(e \o d, k) = Depth(e, k)
          /\ \A k \in 0 .. Len(d) : Depth(e \o d, Len(e) + k) = Depth(e, Len(e)) + Depth(d, k)
      BY <1>4, JoinedDepth
    <3> QED
      BY <1>5, <3>1
  <2>2. Depth(e, Len(e)) = 0
    BY <1>1, <1>4, <2>1
  <2>3. ASSUME NEW k \in 0 .. Len(d) PROVE Depth(ts, i + k) = Depth(d, k)
    <3>1. Depth(d, k) \in Int
      <4>1. k \in Nat
        BY <1>1, <1>4
      <4> QED
        BY <4>1, DepthStep
    <3> QED
      BY <1>4, <2>1, <2>2, <3>1
  <2>4. \A k \in 1 .. Len(d) : k \in 0 .. Len(d) /\ i + k \in 1 .. Len(ts)
    BY <1>1, <1>4
  <2>5. Len(d) \in 0 .. Len(d) /\ i + Len(d) = Len(ts)
    BY <1>1, <1>4
  <2>6. \A k \in 1 .. Len(d) : Depth(d, k) >= 0
    BY <2>3, <2>4 DEF Balanced
  <2>7. Depth(d, Len(d)) = 0
    BY <2>3, <2>5 DEF Balanced
  <2> QED
    BY <2>6, <2>7 DEF Balanced
<1>9. b = <<ts[i]>> \o d
  <2> DEFINE x == <<ts[i]>>
             y == x \o d
  <2>1. x \in Tokens /\ Len(x) = 1 /\ x[1] = ts[i]
    BY <1>1, OneToken
  <2> HIDE DEF x
  <2>2. ts = a \o x \o d
    <3>1. e = a \o x
      <4>1. a \o x \in Tokens /\ Len(a \o x) = i
        <5>1. a \o x \in Tokens /\ Len(a \o x) = Len(a) + Len(x)
          BY <1>2, <2>1, Joined
        <5> QED
          BY <1>1, <1>2, <2>1, <5>1
      <4>2. ASSUME NEW k \in 1 .. i PROVE e[k] = (a \o x)[k]
        <5>1. CASE k \in 1 .. j
          <6>1. (a \o x)[k] = a[k]
            BY <1>2, <2>1, <5>1, Joined
          <6> QED
            BY <1>2, <1>4, <5>1, <6>1
        <5>2. CASE k \notin 1 .. j
          <6>0. k = i
            BY <1>1, <5>2
          <6>1. 1 \in 1 .. Len(x)
            BY <2>1
          <6>2. (a \o x)[Len(a) + 1] = x[1]
            BY <1>2, <2>1, OneBehind
          <6> QED
            BY <1>4, <1>11, <2>1, <6>0, <6>2
        <5> QED
          BY <5>1, <5>2
      <4> QED
        BY <1>4, <4>1, <4>2, SeqEqual DEF Tokens
    <3> QED
      BY <1>5, <3>1
  <2>3. ts = a \o y
    BY <1>2, <1>4, <2>1, <2>2, Regrouped
  <2>4. y \in Tokens
    BY <1>4, <2>1, Joined
  <2> HIDE DEF y
  <2>5. SubSeq(a \o b, Len(a) + 1, Len(a \o b)) = b /\ SubSeq(a \o y, Len(a) + 1, Len(a \o y)) = y
    BY <1>2, <1>3, <2>4, Uncut
  <2>6. b = y
    BY <1>5, <2>3, <2>5
  <2> QED
    BY <2>6 DEF y, x
<1>10. b # <<>>
  <2>1. Len(b) # 0
    BY <1>1, <1>3
  <2> QED
    BY <2>1
<1> QED
  BY <1>1, <1>2, <1>3, <1>4, <1>5, <1>7, <1>8, <1>9, <1>10 DEF a, b, d, j

\* If two parts have no such word outside brackets, neither has one.
LEMMA Apart ==
  ASSUME NEW a \in Tokens, NEW b \in Tokens, NEW words, Level(a), AtTop(a \o b, words) = {}
  PROVE  AtTop(a, words) = {} /\ AtTop(b, words) = {}
<1>1. /\ \A i \in 1 .. Len(a) : i \in AtTop(a \o b, words) <=> i \in AtTop(a, words)
      /\ \A k \in 1 .. Len(b) : Len(a) + k \in AtTop(a \o b, words) <=> k \in AtTop(b, words)
  BY JoinedTop
<1>2. AtTop(a, words) \subseteq 1 .. Len(a) /\ AtTop(b, words) \subseteq 1 .. Len(b)
  BY DEF AtTop
<1> QED
  BY <1>1, <1>2, Zenon

\* Every statement is a head, and an end that starts with a closing word.
LEMMA Parted ==
  ASSUME NEW ts \in Tokens, Balanced(ts)
  PROVE  \E h, v \in Tokens : ts = h \o v /\ Balanced(h) /\ AtTop(h, Closing) = {} /\ Ends(v)
<1> DEFINE i == FirstAtTop(ts, Closing)
<1>1. CASE AtTop(ts, Closing) = {}
  <2>1. <<>> \in Tokens /\ ts = ts \o <<>>
    BY ConcatEmptySeq DEF Tokens
  <2> QED
    BY <1>1, <2>1 DEF Ends
<1>2. CASE AtTop(ts, Closing) # {}
  <2>1. i \in AtTop(ts, Closing) /\ \A k \in AtTop(ts, Closing) : i <= k
    BY <1>2, FirstOutside
  <2> HIDE DEF i
  <2>2. i \in 1 .. Len(ts) /\ ts[i] \in Closing /\ Depth(ts, i) = 0 /\ Len(ts) \in Nat
    BY <2>1 DEF AtTop, Tokens
  <2>3. ts[i] \notin {"(", ")"}
    BY <2>2 DEF Closing
  <2> DEFINE a == SubSeq(ts, 1, i - 1)
             b == SubSeq(ts, i, Len(ts))
  <2>4. a \in Tokens /\ b \in Tokens /\ Len(a) = i - 1 /\ b[1] = ts[i] /\ ts = a \o b /\ Balanced(a)
    BY <2>2, <2>3, CutOutside, Zenon
  <2> HIDE DEF a, b
  <2>5. AtTop(a, Closing) = {}
    <3> SUFFICES ASSUME NEW k \in AtTop(a, Closing) PROVE FALSE
      OBVIOUS
    <3>1. k \in 1 .. Len(a)
      BY DEF AtTop
    <3>2. k \in AtTop(a \o b, Closing)
      BY <2>4, <3>1, JoinedTop
    <3>3. k \in 1 .. i - 1 /\ i <= k
      BY <2>1, <2>4, <3>1, <3>2
    <3> QED
      BY <2>2, <3>3
  <2>6. Ends(b)
    BY <2>2, <2>4 DEF Ends
  <2> QED
    BY <2>4, <2>5, <2>6
<1> QED
  BY <1>1, <1>2

\* The last of several words.
LEMMA GreatestExists ==
  ASSUME NEW n \in Nat, NEW S \in SUBSET (1 .. n), S # {}
  PROVE  \E m \in S : \A k \in S : k <= m
<1> DEFINE T == {n - k : k \in S}
<1>1. T \in SUBSET Nat /\ T # {}
  <2>1. \A k \in 1 .. n : n - k \in Nat
    OBVIOUS
  <2> QED
    BY <2>1
<1>2. PICK t \in T : \A j \in T : t <= j
  BY <1>1, LeastExists
<1>3. PICK m \in S : t = n - m
  BY <1>2
<1>4. ASSUME NEW k \in S PROVE k <= m
  <2>1. n - k \in T
    OBVIOUS
  <2> HIDE DEF T
  <2>2. n - m <= n - k
    BY <1>2, <1>3, <2>1
  <2> QED
    BY <2>2
<1> QED
  BY <1>4

\* A statement with a WHERE outside brackets, cut at the last one.
LEMMA LastWhere ==
  ASSUME NEW h \in Tokens, Balanced(h), AtTop(h, {"where"}) # {}
  PROVE  \E u, d \in Tokens : h = u \o Where \o d /\ Balanced(u) /\ Balanced(d) /\ AtTop(d, {"where"}) = {}
<1>1. Len(h) \in Nat /\ AtTop(h, {"where"}) \subseteq 1 .. Len(h)
  BY DEF AtTop, Tokens
<1>2. PICK i \in AtTop(h, {"where"}) : \A k \in AtTop(h, {"where"}) : k <= i
  BY <1>1, GreatestExists
<1>3. i \in 1 .. Len(h) /\ h[i] = "where" /\ Depth(h, i) = 0
  BY DEF AtTop
<1>4. h[i] \notin {"(", ")"}
  BY <1>3
<1> DEFINE u == SubSeq(h, 1, i - 1)
           b == SubSeq(h, i, Len(h))
           d == SubSeq(h, i + 1, Len(h))
<1>5. /\ u \in Tokens /\ b \in Tokens /\ d \in Tokens /\ Len(u) = i - 1
      /\ h = u \o b /\ b = <<h[i]>> \o d /\ Balanced(u) /\ Balanced(d)
  BY <1>3, <1>4, CutOutside, Zenon
<1> HIDE DEF u, b, d
<1>6. b = Where \o d /\ Where \in Tokens /\ Len(Where) = 1 /\ Level(Where)
  <2>1. <<h[i]>> = Where
    BY <1>3, Zenon DEF Where
  <2>2. b = <<h[i]>> \o d
    BY <1>5
  <2>3. b = Where \o d
    BY <2>1, <2>2, Zenon
  <2>4. Where \in Tokens /\ Len(Where) = 1 /\ Level(Where)
    BY WhereShape, Zenon
  <2> QED
    BY <2>3, <2>4, Zenon
<1>7. h = u \o Where \o d
  <2>1. u \o Where \o d = u \o (Where \o d)
    <3>1. u \in Tokens /\ Where \in Tokens /\ d \in Tokens
      BY <1>5, <1>6
    <3> QED
      BY <3>1, Regrouped
  <2>2. h = u \o b /\ b = Where \o d
    BY <1>5, <1>6
  <2> QED
    BY <2>1, <2>2, Zenon
<1>8. AtTop(d, {"where"}) = {}
  <2> SUFFICES ASSUME NEW k \in AtTop(d, {"where"}) PROVE FALSE
    OBVIOUS
  <2> DEFINE uw == u \o Where
  <2>1. uw \in Tokens /\ Len(uw) = i /\ Level(uw)
    <3>1. uw \in Tokens /\ Len(uw) = Len(u) + Len(Where)
      BY <1>5, <1>6, Joined
    <3>2. Level(uw)
      BY <1>5, <1>6, JoinedLevel DEF Balanced, Level
    <3> HIDE DEF uw
    <3> QED
      BY <1>3, <1>5, <1>6, <3>1, <3>2
  <2> HIDE DEF uw
  <2>2. k \in 1 .. Len(d) /\ Len(d) \in Nat
    BY <1>5 DEF AtTop, Tokens
  <2>3. Len(uw) + k \in AtTop(uw \o d, {"where"})
    BY <1>5, <2>1, <2>2, JoinedTop
  <2>4. i + k \in AtTop(h, {"where"})
    BY <1>7, <2>1, <2>3 DEF uw
  <2>5. i + k <= i
    BY <1>2, <2>4
  <2> QED
    BY <1>3, <2>2, <2>5
<1> QED
  BY <1>5, <1>7, <1>8

\* The limit of the sandbox starts with a closing word.
LEMMA LimitAdded ==
  ASSUME NEW ts \in Tokens, NEW v \in Tokens, Ends(v)
  PROVE  AddedLimit(ts) \in Tokens /\ v \o AddedLimit(ts) \in Tokens /\ Ends(v \o AddedLimit(ts))
<1> DEFINE add == AddedLimit(ts)
<1>1. add \in Tokens /\ (add = <<>> \/ add[1] = "limit")
  <2>1. "limit" \in Words /\ Numeral(DefaultRowLimit) \in Words
    BY Literals, LimitAssumption DEF Numeral
  <2> DEFINE n == Numeral(DefaultRowLimit)
  <2> HIDE DEF n
  <2>2. <<"limit", n>> \in Tokens /\ <<"limit", n>>[1] = "limit"
    BY <2>1, FewTokens DEF n
  <2>3. <<>> \in Tokens
    BY DEF Tokens
  <2> QED
    BY <2>2, <2>3 DEF AddedLimit, n
<1> HIDE DEF add
<1>2. v \o add \in Tokens
  BY <1>1, Joined
<1>3. CASE v = <<>>
  <2>1. v \o add = add
    BY <1>1, <1>3, ConcatEmptySeq DEF Tokens
  <2> QED
    BY <1>1, <1>2, <2>1 DEF Ends, add, Closing
<1>4. CASE v # <<>>
  <2>1. Len(v) \in Nat \ {0}
    BY <1>4 DEF Tokens
  <2>2. (v \o add)[1] = v[1]
    <3>1. 1 \in 1 .. Len(v)
      BY <2>1
    <3> QED
      BY <1>1, <3>1, Joined
  <2> QED
    BY <1>1, <1>2, <1>4, <2>2 DEF Ends, add
<1> QED
  BY <1>3, <1>4

\* What has a meaning of its own in a condition or ends it.
Keywords == {"(", ")", "and", "or", "where"} \cup Closing

Unmarked(ts) == \A i \in 1 .. Len(ts) : ts[i] \notin Keywords

\* Names, dots and signs have no brackets, no AND, no OR and no closing word.
LEMMA UnmarkedIsPlain ==
  ASSUME NEW ts \in Tokens, Unmarked(ts)
  PROVE  /\ Level(ts) /\ Balanced(ts)
         /\ AtTop(ts, {"where"}) = {} /\ AtTop(ts, {"and"}) = {} /\ AtTop(ts, {"or"}) = {}
         /\ AtTop(ts, Closing) = {}
<1>1. Flat(ts)
  BY DEF Unmarked, Keywords, Flat
<1>2. Level(ts) /\ Balanced(ts)
  <2>1. \A i \in 1 .. Len(ts) : i \in 0 .. Len(ts)
    OBVIOUS
  <2> QED
    BY <1>1, <2>1, FlatIsLevel DEF Balanced, Level
<1>3. \A i \in 1 .. Len(ts) : /\ ts[i] \notin {"where"} /\ ts[i] \notin {"and"} /\ ts[i] \notin {"or"}
                              /\ ts[i] \notin Closing
  BY DEF Unmarked, Keywords
<1> QED
  BY <1>2, <1>3, NoneOutside

\* What is assumed of words, part by part.
LEMMA WordFacts ==
  /\ \A n \in Names : /\ n \notin SqlWords /\ n \notin Symbols /\ n \notin Numerals
                       /\ Lower[n] \in Names /\ Lower[Lower[n]] = Lower[n]
  /\ \A v \in Unquoted : Quote[v] \notin Unquoted
  /\ \A v, w \in Unquoted : Quote[v] = Quote[w] => v = w
<1>1. /\ Names \cap (SqlWords \cup Symbols \cup Numerals \cup {NoName, "<end>"}) = {}
      /\ Lower \in [Names -> Names] /\ \A n \in Names : Lower[Lower[n]] = Lower[n]
      /\ \A v, w \in Unquoted : Quote[v] \notin Unquoted \cup {NoName, "<end>"} /\ (Quote[v] = Quote[w] => v = w)
  BY WordsAssumption, Zenon DEF NoName
<1> QED
  BY <1>1

\* A word in quotes is another one, it is no keyword, and it can be told what it
\* was.
LEMMA QuotedIs ==
  ASSUME NEW w \in Unquoted
  PROVE  /\ Quote[w] \in Words \ Keywords /\ Quote[w] \notin Unquoted
         /\ IsQuoted(Quote[w]) /\ Unquote(Quote[w]) = w
         /\ ~IsQuoted(w) /\ Unquote(w) = w /\ w \in Words
<1>1. Keywords \subseteq Unquoted
  BY Zenon DEF Keywords, Closing, Unquoted, SqlWords, Reserved, Symbols
<1>2. /\ Quote[w] \in QuotedWords /\ Quote[w] \notin Unquoted
      /\ \A v \in Unquoted : Quote[v] = Quote[w] => v = w
  BY WordFacts DEF QuotedWords
<1>3. (CHOOSE v \in Unquoted : Quote[v] = Quote[w]) = w
  BY <1>2
<1>4. w \notin QuotedWords
  BY WordFacts DEF QuotedWords
<1> QED
  BY <1>1, <1>2, <1>3, <1>4 DEF Words, IsQuoted, Unquote

\* A word without its quotes, in lower case or not, is one that has none.
LEMMA UnquotedIs ==
  ASSUME NEW w \in Words
  PROVE  Unquote(w) \in Unquoted /\ Lowered(Unquote(w)) \in Unquoted
<1>1. Unquote(w) \in Unquoted
  <2>1. CASE w \in QuotedWords
    <3>1. \E v \in Unquoted : Quote[v] = w
      BY <2>1 DEF QuotedWords
    <3> QED
      BY <2>1, <3>1 DEF Unquote, IsQuoted
  <2>2. CASE w \notin QuotedWords
    BY <2>2 DEF Unquote, IsQuoted, Words
  <2> QED
    BY <2>1, <2>2
<1>2. \A v \in Unquoted : Lowered(v) \in Unquoted
  BY WordFacts DEF Lowered, Unquoted
<1> QED
  BY <1>1, <1>2

\* What the predicate of the tenant demands of a row.
LEMMA PredicateHolds ==
  ASSUME NEW name \in Unquoted, NEW column \in Unquoted, NEW value \in Words \ Keywords
  PROVE  LET pred == <<Quote[name], ".", Quote[column], "=", value>>
         IN  /\ pred \in Tokens /\ Unmarked(pred) /\ Len(pred) = 5
             /\ \A row : Holds(pred, row) = (row[column] = value)
<1> DEFINE n    == Quote[name]
           c    == Quote[column]
           pred == <<n, ".", c, "=", value>>
<1>0. n \in Words \ Keywords /\ c \in Words \ Keywords /\ Unquote(c) = column
  BY QuotedIs
<1> HIDE DEF n, c
<1>1. pred \in Tokens /\ Len(pred) = 5
  BY <1>0, Literals, FewTokens
<1>2. pred[1] = n /\ pred[2] = "." /\ pred[3] = c /\ pred[4] = "=" /\ pred[5] = value
  OBVIOUS
<1> HIDE DEF pred
<1>3. Unmarked(pred)
  <2>1. \A i \in 1 .. 5 : i = 1 \/ i = 2 \/ i = 3 \/ i = 4 \/ i = 5
    OBVIOUS
  <2>2. "." \notin Keywords /\ "=" \notin Keywords
    BY DEF Keywords, Closing
  <2> QED
    BY <1>0, <1>1, <1>2, <2>1, <2>2 DEF Unmarked
<1>4. ASSUME NEW row PROVE Holds(pred, row) = (row[column] = value)
  <2>1. AtTop(pred, {"or"}) = {} /\ AtTop(pred, {"and"}) = {}
    BY <1>1, <1>3, UnmarkedIsPlain
  <2>2. Tok(pred, 1) # "("
    <3>1. Tok(pred, 1) = n
      BY <1>1, <1>2 DEF Tok
    <3> QED
      BY <1>0, <3>1 DEF Keywords
  <2>3. pred \notin {<<"p">>, <<"r">>}
    <3>1. Len(<<"p">>) = 1 /\ Len(<<"r">>) = 1
      OBVIOUS
    <3> QED
      BY <1>1, <3>1
  <2>4. Holds(pred, row) = IF Tok(pred, 1) = "(" THEN Holds(Inner(pred), row)
                           ELSE IF pred \in {<<"p">>, <<"r">>} THEN row[pred[1]] ELSE row[Unquote(pred[3])] = pred[5]
    BY <1>1, <2>1, HoldsOr
  <2> QED
    BY <1>0, <1>2, <2>2, <2>3, <2>4, Zenon
<1> QED
  BY <1>1, <1>3, <1>4 DEF pred, n, c

\* What is put in brackets is one of two conditions that must both hold.
LEMMA BothHold ==
  ASSUME NEW d \in Tokens, Balanced(d), NEW pred \in Tokens, Unmarked(pred)
  PROVE  /\ Both(d, pred) \in Tokens /\ Both(d, pred) # <<>>
         /\ Level(Both(d, pred))
         /\ AtTop(Both(d, pred), {"where"}) = {} /\ AtTop(Both(d, pred), Closing) = {}
         /\ \A row : Holds(Both(d, pred), row) = (Holds(d, row) /\ Holds(pred, row))
<1> DEFINE x == <<"(">> \o d \o <<")">>
           n == <<"and">>
           y == n \o pred
           c == x \o y
<1>1. /\ x \in Tokens /\ Len(x) = Len(d) + 2 /\ Level(x) /\ x[1] = "("
      /\ SubSeq(x, 2, Len(x) - 1) = d
      /\ AtTop(x, {"where"}) = {} /\ AtTop(x, {"and"}) = {} /\ AtTop(x, {"or"}) = {} /\ AtTop(x, Closing) = {}
  <2>1. "(" \notin Closing /\ ")" \notin Closing
    BY DEF Closing
  <2>2. \A words : "(" \notin words /\ ")" \notin words => 
           x \in Tokens /\ Len(x) = Len(d) + 2 /\ Level(x) /\ AtTop(x, words) = {}
             /\ x[1] = "(" /\ SubSeq(x, 2, Len(x) - 1) = d
    BY Bracketed, Zenon
  <2> HIDE DEF x
  <2> QED
    BY <2>1, <2>2
<1>2. n \in Tokens /\ Len(n) = 1 /\ n[1] = "and"
  BY Literals, OneToken
<1> HIDE DEF x, n
<1>3. Level(n) /\ AtTop(n, {"where"}) = {} /\ AtTop(n, {"or"}) = {} /\ AtTop(n, Closing) = {} /\ AtTop(n, {"and"}) = {1}
  <2>1. \A i \in 1 .. Len(n) : n[i] = "and"
    BY <1>2
  <2>2. Flat(n)
    BY <2>1 DEF Flat
  <2>3. Level(n) /\ Depth(n, 1) = 0
    <3>1. 1 \in 0 .. Len(n)
      BY <1>2
    <3> QED
      BY <1>2, <2>2, <3>1, FlatIsLevel
  <2>4. AtTop(n, {"where"}) = {} /\ AtTop(n, {"or"}) = {} /\ AtTop(n, Closing) = {}
    BY <2>1 DEF AtTop, Closing
  <2>5. AtTop(n, {"and"}) = {1}
    <3>1. 1 .. Len(n) = {1}
      BY <1>2
    <3> QED
      BY <1>2, <2>3, <3>1 DEF AtTop
  <2> QED
    BY <2>3, <2>4, <2>5
<1>4. /\ Level(pred) /\ AtTop(pred, {"where"}) = {} /\ AtTop(pred, {"or"}) = {} /\ AtTop(pred, Closing) = {}
  BY UnmarkedIsPlain
<1>5. /\ y \in Tokens /\ Len(y) = 1 + Len(pred) /\ Len(pred) \in Nat /\ Level(y)
      /\ AtTop(y, {"where"}) = {} /\ AtTop(y, {"or"}) = {} /\ AtTop(y, Closing) = {}
      /\ FirstAtTop(y, {"and"}) = 1 /\ AtTop(y, {"and"}) # {}
  <2>1. y \in Tokens /\ Len(y) = Len(n) + Len(pred) /\ Len(pred) \in Nat
    BY <1>2, Joined
  <2>2. Level(y)
    BY <1>2, <1>3, <1>4, JoinedLevel
  <2>3. AtTop(y, {"where"}) = {} /\ AtTop(y, {"or"}) = {} /\ AtTop(y, Closing) = {}
    BY <1>2, <1>3, <1>4, FirstIsSkipped
  <2>4. FirstAtTop(y, {"and"}) = 1 /\ AtTop(y, {"and"}) # {}
    <3>1. FirstAtTop(n, {"and"}) = 1 /\ AtTop(n, {"and"}) # {}
      <4>1. 1 \in AtTop(n, {"and"}) /\ \A k \in AtTop(n, {"and"}) : 1 <= k
        BY <1>3
      <4> QED
        BY <1>2, <4>1, FirstIs
    <3> QED
      BY <1>2, <3>1, FirstStays
  <2> HIDE DEF y
  <2> QED
    BY <1>2, <2>1, <2>2, <2>3, <2>4
<1>6. SubSeq(y, 2, Len(y)) = pred
  <2>1. SubSeq(n \o pred, Len(n) + 1, Len(n \o pred)) = pred
    BY <1>2, Uncut
  <2>2. Len(n) + 1 = 2
    BY <1>2
  <2> QED
    BY <2>1, <2>2
<1> HIDE DEF y
<1>7. /\ c \in Tokens /\ Len(c) = Len(x) + Len(y) /\ Level(c)
      /\ AtTop(c, {"where"}) = {} /\ AtTop(c, {"or"}) = {} /\ AtTop(c, Closing) = {}
      /\ FirstAtTop(c, {"and"}) = Len(x) + 1 /\ AtTop(c, {"and"}) # {}
  <2>1. c \in Tokens /\ Len(c) = Len(x) + Len(y)
    BY <1>1, <1>5, Joined
  <2>2. Level(c)
    BY <1>1, <1>5, JoinedLevel
  <2>3. AtTop(c, {"where"}) = {} /\ AtTop(c, {"or"}) = {} /\ AtTop(c, Closing) = {}
    BY <1>1, <1>5, FirstIsSkipped
  <2>4. FirstAtTop(c, {"and"}) = Len(x) + FirstAtTop(y, {"and"}) /\ AtTop(c, {"and"}) # {}
    BY <1>1, <1>5, FirstIsSkipped
  <2> HIDE DEF c
  <2> QED
    BY <1>5, <2>1, <2>2, <2>3, <2>4
<1>8. LeftOf(c, Len(x) + 1) = x /\ RightOf(c, Len(x) + 1) = pred
  <2>0. Len(x) \in Nat /\ Len(x) + 1 - 1 = Len(x)
    BY <1>1 DEF Tokens
  <2>1. SubSeq(c, 1, Len(x)) = x
    BY <1>1, <1>5, Uncut
  <2>2. LeftOf(c, Len(x) + 1) = x
    BY <2>0, <2>1 DEF LeftOf
  <2> DEFINE xn == x \o n
  <2>3. xn \in Tokens /\ Len(xn) = Len(x) + Len(n)
    BY <1>1, <1>2, Joined
  <2>4. c = xn \o pred
    <3>1. x \o n \o pred = x \o (n \o pred)
      BY <1>1, <1>2, Regrouped
    <3> QED
      BY <3>1, Zenon DEF y
  <2> HIDE DEF xn
  <2>5. SubSeq(xn \o pred, Len(xn) + 1, Len(xn \o pred)) = pred
    BY <2>3, Uncut
  <2>6. Len(xn) + 1 = Len(x) + 1 + 1
    BY <1>2, <2>0, <2>3
  <2>7. SubSeq(c, Len(x) + 1 + 1, Len(c)) = pred
    BY <2>4, <2>5, <2>6
  <2> QED
    BY <2>2, <2>7 DEF RightOf
<1> HIDE DEF c
<1>9. ASSUME NEW row PROVE Holds(x, row) = Holds(d, row)
  <2>1. Tok(x, 1) = "("
    <3>1. 1 \in 1 .. Len(x)
      <4>1. Len(d) \in Nat
        BY DEF Tokens
      <4> QED
        BY <1>1, <4>1
    <3> QED
      BY <1>1, <3>1 DEF Tok
  <2>2. Inner(x) = d
    BY <1>1 DEF Inner
  <2>3. AtTop(x, {"and"}) = {} =>
              Holds(x, row) = IF Tok(x, 1) = "(" THEN Holds(Inner(x), row)
                              ELSE IF x \in {<<"p">>, <<"r">>} THEN row[x[1]] ELSE row[Unquote(x[3])] = x[5]
    BY <1>1, HoldsOr
  <2> QED
    BY <1>1, <2>1, <2>2, <2>3, Zenon
<1>10. ASSUME NEW row PROVE Holds(c, row) = (Holds(d, row) /\ Holds(pred, row))
  <2>1. AtTop(c, {"and"}) # {} => 
          Holds(c, row) =
             (Holds(LeftOf(c, FirstAtTop(c, {"and"})), row) /\ Holds(RightOf(c, FirstAtTop(c, {"and"})), row))
    BY <1>7, HoldsOr
  <2>2. Holds(c, row) = (Holds(x, row) /\ Holds(pred, row))
    BY <1>7, <1>8, <2>1
  <2> QED
    BY <1>9, <2>2
<1>11. c # <<>>
  <2>1. Len(c) # 0
    <3>1. Len(d) \in Nat
      BY DEF Tokens
    <3> QED
      BY <1>1, <1>5, <1>7, <3>1
  <2> QED
    BY <2>1
<1>12. Both(d, pred) = c
  BY DEF Both, c, x, y, n
<1> QED
  BY <1>7, <1>10, <1>11, <1>12

\* The name of a table that the sandbox takes ends in the statement.
LEMMA NameEnds ==
  ASSUME NEW ts \in Tokens, NEW p \in TableWords(ts), p < Len(ts)
  PROVE  NameEnd(ts, p) \in p + 1 .. Len(ts) /\ (NameEnd(ts, p) - p) % 2 = 1
<1> DEFINE ends == {n \in p + 1 .. Len(ts) : (n - p) % 2 = 1 /\ \A k \in p + 1 .. n : (k - p) % 2 = 0 => ts[k] = "."}
<1>1. Len(ts) \in Nat /\ p \in 1 .. Len(ts)
  BY DEF TableWords, Tokens
<1> DEFINE q == p + 1
<1>2. q \in ends
  <2>1. q \in p + 1 .. Len(ts) /\ q - p = 1 /\ \A k \in p + 1 .. q : k = q
    BY <1>1
  <2> HIDE DEF q
  <2>2. \A m \in Int : m = 1 => m % 2 = 1 /\ ~(m % 2 = 0)
    OBVIOUS
  <2>3. (q - p) % 2 = 1 /\ \A k \in p + 1 .. q : (k - p) % 2 = 0 => ts[k] = "."
    <3>1. (q - p) % 2 = 1 /\ ~((q - p) % 2 = 0)
      BY <2>1, <2>2
    <3> QED
      BY <2>1, <3>1, Zenon
  <2> QED
    BY <2>1, <2>3, Zenon
<1>3. ends \in SUBSET (1 .. Len(ts))
  BY <1>1
<1>4. NameEnd(ts, p) = CHOOSE n \in ends : \A m \in ends : m <= n
  BY DEF NameEnd
<1>5. \A n \in ends : n \in p + 1 .. Len(ts) /\ (n - p) % 2 = 1
  OBVIOUS
<1> HIDE DEF ends
<1>6. \E n \in ends : \A m \in ends : m <= n
  BY <1>1, <1>2, <1>3, GreatestExists
<1>7. NameEnd(ts, p) \in ends
  BY <1>4, <1>6, Zenon
<1> QED
  BY <1>5, <1>7

\* What qualifies the column is a token of the statement, without quotes.
LEMMA QualifierIsWord ==
  ASSUME NEW ts \in Tokens, ExtractAccepts(ts)
  PROVE  Qualifier(ts) \in Unquoted
<1>1. PICK p \in TableWords(ts) : p = CHOOSE i \in TableWords(ts) : TRUE
  BY DEF ExtractAccepts
<1>2. Qualifier(ts) = IF AliasAt(ts, p) # "" THEN AliasAt(ts, p) ELSE LastOf(TableAt(ts, p))
  BY <1>1, Zenon DEF Qualifier
<1>0. IsBaseTable(ts, p)
  BY DEF ExtractAccepts
<1> DEFINE e == NameEnd(ts, p)
           n == (e - p + 1) \div 2
<1>3. p < Len(ts) /\ p \in 1 .. Len(ts) /\ Len(ts) \in Nat /\ \A i \in 1 .. Len(ts) : ts[i] \in Words
  <2>1. p < Len(ts)
    BY <1>0, Zenon DEF IsBaseTable
  <2>2. p \in 1 .. Len(ts)
    BY DEF TableWords
  <2>3. Len(ts) \in Nat /\ \A i \in 1 .. Len(ts) : ts[i] \in Words
    BY DEF Tokens
  <2> QED
    BY <2>1, <2>2, <2>3
<1>4. e \in p + 1 .. Len(ts) /\ (e - p) % 2 = 1
  BY <1>1, <1>3, NameEnds
<1>5. TableAt(ts, p) = Folded(PartsAt(ts, p)) /\ PartsAt(ts, p) = [k \in 1 .. n |-> ts[p + 2 * k - 1]]
  BY DEF TableAt, PartsAt
<1>6. TableEnd(ts, p) <= Len(ts) /\ TableEnd(ts, p) = e + (IF HasAs(ts, p) THEN 2 ELSE IF AliasAt(ts, p) = "" THEN 0 ELSE 1)
  BY <1>0, <1>1 DEF IsBaseTable, TableEnd
<1>7. AliasAt(ts, p) = IF HasAs(ts, p) THEN Unquote(Tok(ts, e + 2))
                       ELSE IF IsIdentifier(Tok(ts, e + 1)) /\ Tok(ts, e + 1) \notin Reserved
                            THEN Tok(ts, e + 1) ELSE ""
  BY DEF AliasAt
<1> HIDE DEF e
<1>8. ASSUME AliasAt(ts, p) # "" PROVE AliasAt(ts, p) \in Unquoted
  <2>1. CASE HasAs(ts, p)
    <3>1. e + 2 \in 1 .. Len(ts)
      BY <1>3, <1>4, <1>6, <2>1
    <3>2. Tok(ts, e + 2) \in Words
      BY <1>3, <3>1 DEF Tok
    <3> QED
      BY <1>7, <2>1, <3>2, UnquotedIs
  <2>2. CASE ~HasAs(ts, p)
    <3>1. AliasAt(ts, p) = Tok(ts, e + 1) /\ IsIdentifier(Tok(ts, e + 1))
      BY <1>7, <1>8, <2>2
    <3> QED
      BY <3>1 DEF IsIdentifier, Unquoted
  <2> QED
    BY <2>1, <2>2
<1>10. e \in 1 .. Len(ts)
  BY <1>3, <1>4
<1>9. LastOf(TableAt(ts, p)) = Lowered(Unquote(ts[e]))
  <2>1. n \in Nat /\ n \in 1 .. n /\ p + 2 * n - 1 = e
    BY <1>3, <1>4
  <2> HIDE DEF n
  <2>2. Len(PartsAt(ts, p)) = n /\ PartsAt(ts, p)[n] = ts[p + 2 * n - 1]
    BY <1>5, <2>1
  <2>3. Len(TableAt(ts, p)) = n
    BY <1>5, <2>1, <2>2 DEF Folded
  <2>4. TableAt(ts, p)[n] = Lowered(Unquote(PartsAt(ts, p)[n]))
    BY <1>5, <2>1, <2>2 DEF Folded
  <2> QED
    BY <2>1, <2>2, <2>3, <2>4 DEF LastOf
<1> QED
  BY <1>2, <1>3, <1>8, <1>9, <1>10, UnquotedIs

\* Where the predicate stands in the statement that goes to the database.
LEMMA Injected ==
  ASSUME NEW ts \in Tokens, Balanced(ts), NEW pred \in Tokens
  PROVE  \E u, v \in Tokens :
           /\ Level(u) /\ AtTop(u, Closing) = {} /\ Ends(v)
           /\ \/ AtTop(u, {"where"}) = {} /\ InjectPredicate(ts, pred) = Frame(u, pred, v)
              \/ \E d \in Tokens : /\ Balanced(d) /\ AtTop(d, {"where"}) = {} /\ AtTop(d, Closing) = {}
                                   /\ InjectPredicate(ts, pred) = Frame(u, Both(d, pred), v)
<1>1. PICK h \in Tokens, v \in Tokens : ts = h \o v /\ Balanced(h) /\ AtTop(h, Closing) = {} /\ Ends(v)
  BY Parted
<1>2. ASSUME NEW t, Balanced(t) PROVE Level(t)
  BY <1>2 DEF Balanced, Level
<1>3. CASE AtTop(h, {"where"}) = {}
  <2>1. InjectPredicate(h \o v, pred) = Frame(h, pred, v)
    BY <1>1, <1>2, <1>3, PredicateAlone
  <2>2. InjectPredicate(ts, pred) = Frame(h, pred, v)
    BY <1>1, <2>1, Zenon
  <2> QED
    BY <1>1, <1>2, <1>3, <2>2
<1>4. CASE AtTop(h, {"where"}) # {}
  <2>1. PICK u \in Tokens, d \in Tokens :
          h = u \o Where \o d /\ Balanced(u) /\ Balanced(d) /\ AtTop(d, {"where"}) = {}
    BY <1>1, <1>4, LastWhere
  <2> DEFINE uw == u \o Where
  <2>2. uw \in Tokens /\ Level(uw)
    BY <1>2, <2>1, WhereShape, Joined, JoinedLevel
  <2>3. AtTop(uw, Closing) = {} /\ AtTop(d, Closing) = {}
    <3>1. h = uw \o d
      BY <2>1
    <3> HIDE DEF uw
    <3> QED
      BY <1>1, <2>2, <3>1, Apart
  <2>4. AtTop(u, Closing) = {}
    <3>1. Level(u) /\ Where \in Tokens /\ AtTop(u \o Where, Closing) = {}
      BY <1>2, <2>1, <2>3, WhereShape
    <3> QED
      BY <3>1, Apart
  <2>5. InjectPredicate(Frame(u, d, v), pred) = Frame(u, Both(d, pred), v)
    <3>1. /\ Level(u) /\ AtTop(u, Closing) = {} /\ Level(d) /\ AtTop(d, Closing) = {}
          /\ AtTop(d, {"where"}) = {} /\ Ends(v)
      BY <1>1, <1>2, <2>1, <2>3, <2>4
    <3> HIDE DEF uw
    <3> QED
      BY <3>1, PredicateBeside
  <2>6. InjectPredicate(ts, pred) = Frame(u, Both(d, pred), v)
    <3>1. ts = Frame(u, d, v)
      BY <1>1, <2>1, Zenon DEF Frame
    <3> QED
      BY <2>5, <3>1
  <2> QED
    BY <1>1, <1>2, <2>1, <2>3, <2>4, <2>6
<1> QED
  BY <1>3, <1>4

\* Its own WHERE stands outside brackets in a statement with a condition.
LEMMA FrameStarts ==
  ASSUME NEW u \in Tokens, NEW c \in Tokens, NEW v \in Tokens, Level(u)
  PROVE  /\ Frame(u, c, v) \in Tokens /\ Len(u) + 1 \in AtTop(Frame(u, c, v), {"where"})
         /\ \A i \in AtTop(u, {"where"}) : i \in AtTop(Frame(u, c, v), {"where"}) /\ i <= Len(u) /\ i \in Int
<1> DEFINE uw == u \o Where
           h  == uw \o c
           ts == h \o v
           w  == Len(u) + 1
<1>1. uw \in Tokens /\ Len(uw) = w /\ Len(u) \in Nat
  <2>1. uw \in Tokens /\ Len(uw) = Len(u) + Len(Where) /\ Len(u) \in Nat
    BY WhereShape, Joined
  <2> HIDE DEF uw
  <2> QED
    BY <2>1, WhereShape
<1>2. w \in AtTop(uw, {"where"})
  <2>1. 1 \in 1 .. Len(Where) /\ 1 \in AtTop(Where, {"where"}) /\ Where \in Tokens
    BY WhereShape
  <2> QED
    BY <2>1, JoinedTop
<1>3. \A i \in AtTop(u, {"where"}) : i \in 1 .. Len(u) /\ i \in AtTop(uw, {"where"})
  <2>1. \A i \in AtTop(u, {"where"}) : i \in 1 .. Len(u)
    BY DEF AtTop
  <2> QED
    BY <2>1, WhereShape, JoinedTop
<1> HIDE DEF uw
<1>4. h \in Tokens /\ Len(h) = Len(uw) + Len(c) /\ Len(c) \in Nat
  BY <1>1, Joined
<1>5. \A i \in 1 .. Len(uw) : i \in AtTop(uw, {"where"}) => i \in AtTop(h, {"where"})
  BY <1>1, JoinedTop
<1> HIDE DEF h
<1>6. ts \in Tokens
  BY <1>4, Joined
<1>7. \A i \in 1 .. Len(h) : i \in AtTop(h, {"where"}) => i \in AtTop(ts, {"where"})
  BY <1>4, JoinedTop
<1> HIDE DEF ts
<1>8. \A i \in 1 .. w : i \in AtTop(uw, {"where"}) => i \in AtTop(ts, {"where"})
  BY <1>1, <1>4, <1>5, <1>7
<1>9. w \in AtTop(ts, {"where"})
  BY <1>1, <1>2, <1>8
<1>10. \A i \in AtTop(u, {"where"}) : i \in AtTop(ts, {"where"}) /\ i <= Len(u) /\ i \in Int
  BY <1>1, <1>3, <1>8
<1> QED
  BY <1>6, <1>9, <1>10 DEF ts, h, uw, Frame

\* The database reads no second WHERE.
LEMMA WhereSeen ==
  ASSUME NEW q, NEW u \in Tokens, NEW c \in Tokens, NEW v \in Tokens, Level(u),
         Understands(q, Frame(u, c, v))
  PROVE  AtTop(u, {"where"}) = {}
<1> SUFFICES ASSUME NEW i \in AtTop(u, {"where"}) PROVE FALSE
  OBVIOUS
<1> DEFINE ts == Frame(u, c, v)
<1>1. /\ Len(u) + 1 \in AtTop(ts, {"where"})
      /\ i \in AtTop(ts, {"where"}) /\ i <= Len(u) /\ i \in Int
  BY FrameStarts
<1>2. \A j, k \in AtTop(ts, {"where"}) : j = k
  BY Zenon DEF Understands
<1> HIDE DEF ts
<1>3. i = Len(u) + 1 /\ i <= Len(u) /\ Len(u) \in Nat
  BY <1>1, <1>2 DEF Tokens
<1> QED
  BY <1>3

\* A limit behind the statement is behind its end.
LEMMA FrameGoesOn ==
  ASSUME NEW u \in Tokens, NEW c \in Tokens, NEW v \in Tokens, NEW more \in Tokens
  PROVE  Tie(Frame(u, c, v), more) = Frame(u, c, Tie(v, more))
<1> DEFINE h == u \o Where \o c
<1>1. h \in Tokens
  <2>1. u \o Where \in Tokens
    BY WhereShape, Joined
  <2> QED
    BY <2>1, Joined
<1>2. Frame(u, c, v) = h \o v /\ Frame(u, c, v \o more) = h \o (v \o more)
  BY DEF Frame
<1> HIDE DEF h
<1>3. h \o v \o more = h \o (v \o more)
  BY <1>1, Regrouped
<1> QED
  BY <1>2, <1>3 DEF Tie

\* The condition of the statement that goes to the database demands the tenant.
LEMMA TenantDemanded ==
  ASSUME NEW q, NEW ts \in Tokens, Balanced(ts), ExtractAccepts(ts),
         NEW pol, pol.column # NoName, TenantAccepts(ts, pol), pol.tenant \in Words \ Keywords,
         NEW s, s = Tie(InjectPredicate(ts, Predicate(ts, pol)), AddedLimit(ts)), Understands(q, s)
  PROVE  Condition(s) # <<>> /\ \A row : Holds(Condition(s), row) => row[pol.column] = pol.tenant
<1> DEFINE name   == Qualifier(ts)
           pred   == Predicate(ts, pol)
           column == pol.column
           value  == pol.tenant
<1>0. /\ pred = <<Quote[name], ".", Quote[column], "=", value>>
      /\ name \in Unquoted /\ column \in Unquoted /\ value \in Words \ Keywords
  <2>1. pred = <<Quote[name], ".", Quote[column], "=", value>>
    BY Zenon DEF Predicate
  <2>2. column \in Unquoted
    BY Zenon DEF TenantAccepts, IsIdentifier, Unquoted, NoName
  <2> QED
    BY <2>1, <2>2, QualifierIsWord
<1> HIDE DEF name, pred, column, value
<1>2. /\ pred \in Tokens /\ Unmarked(pred) /\ Len(pred) = 5
      /\ \A row : Holds(pred, row) = (row[column] = value)
  BY <1>0, PredicateHolds
<1>3. PICK u \in Tokens, v \in Tokens :
           /\ Level(u) /\ AtTop(u, Closing) = {} /\ Ends(v)
           /\ \/ AtTop(u, {"where"}) = {} /\ InjectPredicate(ts, pred) = Frame(u, pred, v)
              \/ \E d \in Tokens : /\ Balanced(d) /\ AtTop(d, {"where"}) = {} /\ AtTop(d, Closing) = {}
                                   /\ InjectPredicate(ts, pred) = Frame(u, Both(d, pred), v)
  BY <1>2, Injected
<1> DEFINE add == AddedLimit(ts)
           end == v \o add
<1>4. add \in Tokens /\ end \in Tokens /\ Ends(end)
  BY <1>3, LimitAdded
<1> HIDE DEF add, end
<1>5. ASSUME NEW c \in Tokens, InjectPredicate(ts, pred) = Frame(u, c, v)
      PROVE  s = Frame(u, c, end) /\ AtTop(u, {"where"}) = {}
  <2>1. s = Tie(Frame(u, c, v), add)
    BY <1>5 DEF add, pred
  <2>2. Tie(Frame(u, c, v), add) = Frame(u, c, Tie(v, add))
    BY <1>3, <1>4, <1>5, FrameGoesOn
  <2>3. s = Frame(u, c, end)
    BY <2>1, <2>2 DEF end, Tie
  <2>4. Understands(q, Frame(u, c, end))
    BY <2>3
  <2> QED
    BY <1>3, <1>4, <1>5, <2>3, <2>4, WhereSeen
<1>7. ASSUME InjectPredicate(ts, pred) = Frame(u, pred, v)
      PROVE  Condition(s) # <<>> /\ \A row : Holds(Condition(s), row) => row[column] = value
  <2>2. s = Frame(u, pred, end) /\ AtTop(u, {"where"}) = {}
    BY <1>2, <1>5, <1>7
  <2>4. Level(pred) /\ AtTop(pred, Closing) = {}
    BY <1>2, UnmarkedIsPlain, Zenon
  <2>5. Condition(s) = pred
    <3>1. /\ u \in Tokens /\ pred \in Tokens /\ end \in Tokens /\ Level(u) /\ AtTop(u, Closing) = {}
          /\ AtTop(u, {"where"}) = {} /\ Level(pred) /\ AtTop(pred, Closing) = {} /\ Ends(end)
      BY <1>2, <1>3, <1>4, <2>2, <2>4
    <3>2. Condition(Frame(u, pred, end)) = pred
      BY <3>1, Framed
    <3> QED
      BY <2>2, <3>2
  <2>6. pred # <<>>
    <3>1. Len(<<>>) # 5
      OBVIOUS
    <3>2. Len(pred) = 5
      BY <1>2
    <3> QED
      BY <3>1, <3>2, Zenon
  <2> QED
    BY <1>2, <2>5, <2>6
<1>8. ASSUME NEW d \in Tokens, Balanced(d), AtTop(d, {"where"}) = {}, AtTop(d, Closing) = {},
             InjectPredicate(ts, pred) = Frame(u, Both(d, pred), v)
      PROVE  Condition(s) # <<>> /\ \A row : Holds(Condition(s), row) => row[column] = value
  <2> DEFINE c == Both(d, pred)
  <2>1. /\ c \in Tokens /\ c # <<>> /\ Level(c) /\ AtTop(c, Closing) = {}
        /\ \A row : Holds(c, row) = (Holds(d, row) /\ Holds(pred, row))
    BY <1>2, <1>8, BothHold, Zenon
  <2> HIDE DEF c
  <2>2. s = Frame(u, c, end) /\ AtTop(u, {"where"}) = {}
    BY <1>5, <1>8, <2>1 DEF c
  <2>3. Condition(s) = c
    <3>1. /\ u \in Tokens /\ c \in Tokens /\ end \in Tokens /\ Level(u) /\ AtTop(u, Closing) = {}
          /\ AtTop(u, {"where"}) = {} /\ Level(c) /\ AtTop(c, Closing) = {} /\ Ends(end)
      BY <1>3, <1>4, <2>1, <2>2
    <3>2. Condition(Frame(u, c, end)) = c
      BY <3>1, Framed
    <3> QED
      BY <2>2, <3>2
  <2> QED
    BY <1>2, <2>1, <2>3
<1>9. Condition(s) # <<>> /\ \A row : Holds(Condition(s), row) => row[column] = value
  BY <1>3, <1>7, <1>8
<1> QED
  BY <1>9 DEF column, value

\* What the processor keeps of a statement, and what comes back of it.
SentInv ==
  /\ stage \in {"checked", "answered", "failed"} =>
       Allowed(Text(query), policy) /\ sent = Sanitized(Text(query), policy)
  /\ stage = "answered" =>
       /\ Understands(query, sent)
       /\ answer = [i \in 1 .. Len(Evaluate(sent)) |-> Mapped(Evaluate(sent)[i], query.cols)]

\* The processor asks the adapter for no limit (processor.go:127-134).
LEMMA AsSent ==
  ASSUME NEW ts
  PROVE  WithLimit(ts, Requested) = ts
  BY DEF WithLimit, Requested

\* Nothing is sent at first.
LEMMA SentInitial ==
  ASSUME AnswersInit
  PROVE  SentInv
  BY DEF AnswersInit, SentInv

\* No step leaves SentInv.
LEMMA SentStep ==
  ASSUME SentInv, [AnswersNext]_answerVars
  PROVE  SentInv'
<1>1. given' = given
  BY DEF AnswersNext, answerVars, paramsVars, Create, CreateConnection, GetConnection, Check, Execute,
     Restart, GetSchema
<1>2. /\ \A q, ts : Understands(q, ts)' <=> Understands(q, ts)
      /\ \A row, cols : Mapped(row, cols)' = Mapped(row, cols)
  BY <1>1 DEF Understands, Denoted, Mapped, Cell, dialect
<1>3. CASE UNCHANGED queryVars
  BY <1>2, <1>3 DEF SentInv, queryVars, policy
<1>4. CASE Create \/ GetConnection
  BY <1>4 DEF Create, GetConnection, SentInv
<1>5. CASE Check
  <2>1. query' = query /\ policy' = policy
    BY <1>5 DEF Check, policy
  <2>2. \/ stage' = "refused"
        \/ /\ stage' = "checked" /\ Allowed(Text(query), policy)
           /\ sent' = Sanitized(Text(query), policy)
    BY <1>5 DEF Check
  <2> QED
    BY <2>1, <2>2 DEF SentInv
<1>6. CASE Execute
  <2>1. query' = query /\ policy' = policy /\ sent' = sent /\ stage = "checked"
    BY <1>6 DEF Execute, policy
  <2>2. \/ stage' = "failed"
        \/ /\ stage' = "answered" /\ Understands(query, sent)
           /\ answer' = [i \in 1 .. Len(Evaluate(sent)) |-> Mapped(Evaluate(sent)[i], query.cols)]
    BY <1>6, AsSent DEF Execute
  <2> QED
    BY <1>2, <2>1, <2>2 DEF SentInv
<1> QED
  BY <1>3, <1>4, <1>5, <1>6 DEF AnswersNext, answerVars

\* What is sent is what ValidatePolicy made of the text, and the answer is that to it.
LEMMA SentIsInvariant == AnswersSpec => []SentInv
<1>1. AnswersInit => SentInv
  BY SentInitial
<1>2. SentInv /\ [AnswersNext]_answerVars => SentInv'
  BY SentStep
<1> QED
  BY <1>1, <1>2, PTL DEF AnswersSpec

\* A statement without its semicolon is a statement.
LEMMA TrimmedTokens ==
  ASSUME NEW ts \in Tokens
  PROVE  Trimmed(ts) \in Tokens
<1> DEFINE e == Len(ts) - 1
<1>1. Trimmed(ts) = IF Tok(ts, Len(ts)) = Semicolon THEN SubSeq(ts, 1, e) ELSE ts
  BY Zenon DEF Trimmed, Semicolon
<1>2. CASE Len(ts) \in 1 .. Len(ts)
  <2>1. 1 \in 1 .. Len(ts) + 1 /\ e \in 1 - 1 .. Len(ts)
    BY <1>2
  <2> HIDE DEF e
  <2>2. SubSeq(ts, 1, e) \in Tokens
    BY <2>1, Cut
  <2> QED
    BY <1>1, <2>2
<1>3. CASE Len(ts) \notin 1 .. Len(ts)
  <2>1. "<end>" # Semicolon
    BY Zenon DEF Semicolon
  <2> QED
    BY <1>1, <1>3, <2>1 DEF Tok
<1> QED
  BY <1>2, <1>3

\* The statement is one of tokens.
Named(q) == Text(q) \in Tokens

\* So is the value of the tenant, if there is a column for it: a literal.
NamesTenant == policy.column # "" => policy.tenant \in Words \ Keywords

TenantIsBound ==
  stage = "answered" /\ policy.column # "" =>
    /\ Condition(sent) # <<>>
    /\ \A row : Holds(Condition(sent), row) => row[policy.column] = policy.tenant

\* Whatever follows its table, joins, conditions, brackets, a limit or anything
\* else that the scan lets through, a statement that the database understands
\* gives no row of another tenant: the predicate is part of the condition that
\* the database reads, and no OR is beside it (sandbox.go:264-321).  This is said
\* of tokens, as the sandbox takes them, and of the rows of the statement's own
\* table: a second table has no predicate of its own.
THEOREM NoRowOfAnotherTenant ==
  AnswersSpec => [](Named(query) /\ NamesTenant => TenantIsBound)
<1>1. SentInv => (Named(query) /\ NamesTenant => TenantIsBound)
  <2> SUFFICES ASSUME SentInv, Named(query), NamesTenant, stage = "answered", policy.column # ""
               PROVE  /\ Condition(sent) # <<>>
                      /\ \A row : Holds(Condition(sent), row) => row[policy.column] = policy.tenant
    BY DEF TenantIsBound
  <2> DEFINE ts   == Trimmed(Text(query))
             pred == Predicate(ts, policy)
  <2>1. ts \in Tokens
    BY TrimmedTokens DEF Named
  <2>2. /\ Balanced(ts) /\ ExtractAccepts(ts)
        /\ sent = InjectPredicate(ts, pred) \o AddedLimit(ts) /\ Understands(query, sent)
    <3>1. Allowed(Text(query), policy) /\ sent = Sanitized(Text(query), policy) /\ Understands(query, sent)
      BY DEF SentInv
    <3>2. Balanced(ts) /\ ExtractAccepts(ts)
      BY <3>1, Zenon DEF Allowed, ScanAccepts
    <3>3. sent = InjectPredicate(ts, pred) \o AddedLimit(ts)
      BY <3>1, Zenon DEF Sanitized
    <3> QED
      BY <3>1, <3>2, <3>3
  <2>3. sent = Tie(InjectPredicate(ts, Predicate(ts, policy)), AddedLimit(ts))
    BY <2>2 DEF Tie
  <2>4. policy.tenant \in Words \ Keywords /\ TenantAccepts(ts, policy)
    <3>1. Allowed(Text(query), policy)
      BY DEF SentInv
    <3> QED
      BY <3>1, Zenon DEF NamesTenant, Allowed
  <2> HIDE DEF ts
  <2>5. policy.column # NoName
    BY Zenon DEF NoName
  <2> QED
    BY <2>1, <2>2, <2>3, <2>4, <2>5, TenantDemanded, Zenon
<1> QED
  BY <1>1, SentIsInvariant, PTL


(***************************************************************************)
(* The text of a query of the accepted subset.                             *)
(***************************************************************************)
Without(ts, words) == \A i \in 1 .. Len(ts) : ts[i] \notin words

\* Two parts without some words are together without them.
LEMMA WithoutJoined ==
  ASSUME NEW a \in Tokens, NEW b \in Tokens, NEW words, Without(a, words), Without(b, words)
  PROVE  Without(a \o b, words)
<1> DEFINE ab == a \o b
<1>1. /\ Len(ab) = Len(a) + Len(b) /\ Len(a) \in Nat /\ Len(b) \in Nat
      /\ \A i \in 1 .. Len(a) : ab[i] = a[i]
      /\ \A k \in 1 .. Len(b) : ab[Len(a) + k] = b[k]
  BY Joined
<1> HIDE DEF ab
<1>2. ASSUME NEW i \in 1 .. Len(ab) PROVE ab[i] \notin words
  <2>1. CASE i \in 1 .. Len(a)
    BY <1>1, <2>1 DEF Without
  <2>2. CASE i \notin 1 .. Len(a)
    <3>1. i - Len(a) \in 1 .. Len(b) /\ Len(a) + (i - Len(a)) = i
      BY <1>1, <2>2
    <3>2. ab[i] = b[i - Len(a)]
      BY <1>1, <3>1
    <3> QED
      BY <3>1, <3>2 DEF Without
  <2> QED
    BY <2>1, <2>2
<1> QED
  BY <1>2 DEF Without, ab

\* A word that is none of them.
LEMMA WithoutOne ==
  ASSUME NEW w \in Words, NEW words, w \notin words
  PROVE  <<w>> \in Tokens /\ Without(<<w>>, words)
<1> DEFINE s == <<w>>
<1>1. s \in Tokens /\ Len(s) = 1 /\ s[1] = w
  BY OneToken
<1> HIDE DEF s
<1>2. Without(s, words)
  <2>1. \A i \in 1 .. Len(s) : i = 1
    BY <1>1
  <2> QED
    BY <1>1, <2>1 DEF Without
<1> QED
  BY <1>1, <1>2 DEF s

\* A list with its commas has no word that neither the list nor the comma is.
LEMMA WithoutMarked ==
  ASSUME NEW s \in Tokens, NEW mark \in Words, NEW words, Without(s, words), mark \notin words
  PROVE  Between(s, mark) \in Tokens /\ Without(Between(s, mark), words)
<1> DEFINE n == Len(s)
           b == Between(s, mark)
<1>1. n \in Nat /\ b \in Tokens /\ (s # <<>> => Len(b) = 2 * n - 1) /\ (s = <<>> => n = 0)
  BY MarkedTokens DEF Tokens
<1>2. b = [k \in 1 .. 2 * n - 1 |-> IF k % 2 = 1 THEN s[(k + 1) \div 2] ELSE mark]
  BY DEF Between
<1>3. \A i \in 1 .. n : s[i] \notin words
  BY DEF Without
<1> HIDE DEF n, b
<1>4. \A k \in 1 .. 2 * n - 1 : k % 2 = 1 => (k + 1) \div 2 \in 1 .. n
  BY <1>1
<1>5. \A k \in 1 .. 2 * n - 1 : b[k] \notin words
  BY <1>2, <1>3, <1>4
<1>6. \A k \in 1 .. Len(b) : k \in 1 .. 2 * n - 1
  <2>1. DOMAIN b = 1 .. 2 * n - 1
    BY <1>2
  <2>2. DOMAIN b = 1 .. Len(b)
    BY <1>1 DEF Tokens
  <2> QED
    BY <2>1, <2>2
<1> QED
  BY <1>1, <1>5, <1>6 DEF Without, b

\* A name is not a word that the sandbox or the database takes for another thing.
Marks == Keywords \cup {Semicolon}

\* The joins and the condition end where they are said to, and the limit is one
\* word.
Proper(q) ==
  /\ {q.cols, q.from, q.alias, q.join, q.where, q.limit, q.rest} \subseteq Tokens
  /\ q.from # <<>>
  /\ Without(q.cols, Marks) /\ Without(q.from, Marks) /\ Without(q.alias, Marks)
  /\ Balanced(q.join) /\ Without(q.join, {"where", Semicolon} \cup Closing)
  /\ Balanced(q.where) /\ Without(q.where, {"where", Semicolon} \cup Closing)
  /\ q.limit # <<>> => Len(q.limit) = 1 /\ q.limit[1] \notin Marks
  /\ q.rest = <<>> \/ q.rest = <<Semicolon>>

Front(q) == UpToTable(q) \o q.alias

\* The words that Text writes up to the table are no marks.
LEMMA MarksAreNone ==
  /\ "select" \notin Marks /\ "," \notin Marks /\ "from" \notin Marks /\ "." \notin Marks
  /\ \A w \in {"where", "order", "by", "id", "limit"} : w # Semicolon
  BY Zenon DEF Marks, Keywords, Closing, Semicolon

\* Up to the alias a query has no bracket and no keyword.
LEMMA FrontIsPlain ==
  ASSUME NEW q, Proper(q)
  PROVE  /\ Front(q) \in Tokens /\ Without(Front(q), Marks) /\ Front(q) # <<>>
         /\ Level(Front(q)) /\ AtTop(Front(q), Closing) = {} /\ AtTop(Front(q), {"where"}) = {}
<1> DEFINE sel == <<"select">>
           cols == Between(q.cols, ",")
           a   == sel \o cols
           fr  == <<"from">>
           b   == a \o fr
           tab == Between(q.from, ".")
           c   == b \o tab
           al  == q.alias
           f   == c \o al
<1>1. /\ "select" \notin Marks /\ "," \notin Marks /\ "from" \notin Marks /\ "." \notin Marks
      /\ "select" \in Words /\ "," \in Words /\ "from" \in Words /\ "." \in Words
  BY MarksAreNone, Literals
<1>2. /\ q.cols \in Tokens /\ q.from \in Tokens /\ q.alias \in Tokens
      /\ Without(q.cols, Marks) /\ Without(q.from, Marks) /\ Without(q.alias, Marks)
  BY DEF Proper
<1>3. sel \in Tokens /\ Without(sel, Marks) /\ fr \in Tokens /\ Without(fr, Marks)
  BY <1>1, WithoutOne
<1>4. cols \in Tokens /\ Without(cols, Marks) /\ tab \in Tokens /\ Without(tab, Marks)
  BY <1>1, <1>2, WithoutMarked
<1>5. Front(q) = f
  BY Zenon DEF Front, UpToTable, UpToFrom
<1>14. al \in Tokens /\ Without(al, Marks)
  BY <1>2
<1>6. Len(sel) = 1
  OBVIOUS
<1> HIDE DEF sel, cols, fr, tab, al
<1>7. a \in Tokens /\ Without(a, Marks) /\ Len(a) = 1 + Len(cols) /\ Len(cols) \in Nat
  <2>1. a \in Tokens /\ Without(a, Marks) /\ Len(a) = Len(sel) + Len(cols) /\ Len(cols) \in Nat
    BY <1>3, <1>4, Joined, WithoutJoined
  <2> HIDE DEF a
  <2> QED
    BY <1>6, <2>1
<1> HIDE DEF a
<1>8. b \in Tokens /\ Without(b, Marks) /\ Len(b) = Len(a) + Len(fr) /\ Len(fr) \in Nat
  BY <1>3, <1>7, Joined, WithoutJoined
<1> HIDE DEF b
<1>9. c \in Tokens /\ Without(c, Marks) /\ Len(c) = Len(b) + Len(tab) /\ Len(tab) \in Nat
  BY <1>4, <1>8, Joined, WithoutJoined
<1> HIDE DEF c
<1>10. f \in Tokens /\ Without(f, Marks) /\ Len(f) = Len(c) + Len(al) /\ Len(al) \in Nat
  BY <1>14, <1>9, Joined, WithoutJoined
<1>11. f # <<>>
  <2>1. Len(f) # 0
    BY <1>7, <1>8, <1>9, <1>10
  <2>2. Len(<<>>) = 0
    OBVIOUS
  <2> QED
    BY <2>1, <2>2, Zenon
<1> HIDE DEF f
<1>12. Unmarked(f)
  BY <1>10 DEF Unmarked, Without, Marks
<1>13. Level(f) /\ AtTop(f, Closing) = {} /\ AtTop(f, {"where"}) = {}
  BY <1>10, <1>12, UnmarkedIsPlain
<1> QED
  BY <1>5, <1>10, <1>11, <1>13

\* Two parts behind each other: length, words, and grouping.
LEMMA Tied ==
  ASSUME NEW a \in Tokens, NEW b \in Tokens
  PROVE  /\ Tie(a, b) \in Tokens /\ Len(Tie(a, b)) = Len(a) + Len(b) /\ Tie(a, <<>>) = a
         /\ \A words : Without(a, words) /\ Without(b, words) => Without(Tie(a, b), words)
         /\ \A c \in Tokens : Tie(Tie(a, b), c) = Tie(a, Tie(b, c))
<1>1. Tie(a, b) \in Tokens /\ Len(Tie(a, b)) = Len(a) + Len(b)
  BY Joined DEF Tie
<1>2. Tie(a, <<>>) = a
  BY ConcatEmptySeq DEF Tokens, Tie
<1>3. \A words : Without(a, words) /\ Without(b, words) => Without(Tie(a, b), words)
  BY WithoutJoined DEF Tie
<1>4. \A c \in Tokens : Tie(Tie(a, b), c) = Tie(a, Tie(b, c))
  BY Regrouped DEF Tie
<1> QED
  BY <1>1, <1>2, <1>3, <1>4

\* Two parts with matching brackets have them together.
LEMMA BalancedJoined ==
  ASSUME NEW a \in Tokens, NEW b \in Tokens, Balanced(a), Balanced(b)
  PROVE  Balanced(Tie(a, b))
<1> DEFINE ab == Tie(a, b)
<1>1. /\ Len(ab) = Len(a) + Len(b) /\ Len(a) \in Nat /\ Len(b) \in Nat
      /\ \A i \in 0 .. Len(a) : Depth(ab, i) = Depth(a, i)
      /\ \A k \in 0 .. Len(b) : Depth(ab, Len(a) + k) = Depth(a, Len(a)) + Depth(b, k)
  BY Tied, JoinedDepth DEF Tie, Tokens
<1>2. /\ Depth(a, Len(a)) = 0 /\ \A i \in 1 .. Len(a) : Depth(a, i) >= 0
      /\ Depth(b, Len(b)) = 0 /\ \A i \in 1 .. Len(b) : Depth(b, i) >= 0
  BY DEF Balanced
<1>3. \A i \in 0 .. Len(b) : Depth(b, i) \in Int
  BY <1>1, DepthStep
<1> HIDE DEF ab
<1>4. ASSUME NEW i \in 1 .. Len(ab) PROVE Depth(ab, i) >= 0
  <2>1. CASE i \in 1 .. Len(a)
    <3>1. i \in 0 .. Len(a)
      BY <2>1
    <3> QED
      BY <1>1, <1>2, <2>1, <3>1
  <2>2. CASE i \notin 1 .. Len(a)
    <3> DEFINE k == i - Len(a)
    <3>1. k \in 1 .. Len(b) /\ k \in 0 .. Len(b) /\ Len(a) + k = i
      BY <1>1, <2>2
    <3> HIDE DEF k
    <3>2. Depth(ab, i) = 0 + Depth(b, k)
      BY <1>1, <1>2, <3>1
    <3> QED
      BY <1>2, <1>3, <3>1, <3>2
  <2> QED
    BY <2>1, <2>2
<1>5. Depth(ab, Len(ab)) = 0
  <2>1. Len(b) \in 0 .. Len(b)
    BY <1>1
  <2>2. Depth(ab, Len(a) + Len(b)) = 0 + 0
    BY <1>1, <1>2, <2>1
  <2> QED
    BY <1>1, <2>2
<1> QED
  BY <1>4, <1>5 DEF Balanced, ab

\* A part behind the word that it starts with.
LEMMA OptShape ==
  ASSUME NEW w \in Words, NEW s \in Tokens, w \notin {"(", ")"}, Balanced(s)
  PROVE  /\ Opt(<<w>>, s) \in Tokens /\ Balanced(Opt(<<w>>, s))
         /\ \A words : w \notin words /\ Without(s, words) => Without(Opt(<<w>>, s), words)
         /\ s # <<>> => Opt(<<w>>, s) = Tie(<<w>>, s)
<1> DEFINE o == <<w>>
<1>1. o \in Tokens /\ Len(o) = 1 /\ o[1] = w
  BY OneToken
<1> HIDE DEF o
<1>2. Flat(o)
  BY <1>1 DEF Flat
<1>3. Balanced(o)
  <2>1. Level(o) /\ \A i \in 0 .. Len(o) : Depth(o, i) = 0
    BY <1>1, <1>2, FlatIsLevel
  <2>2. \A i \in 1 .. Len(o) : i \in 0 .. Len(o)
    BY <1>1
  <2>3. \A i \in 1 .. Len(o) : Depth(o, i) >= 0
    BY <2>1, <2>2
  <2> QED
    BY <2>1, <2>3, Zenon DEF Balanced, Level
<1>4. \A words : w \notin words => Without(o, words)
  BY <1>1 DEF Without
<1>5. CASE s = <<>>
  BY <1>5 DEF Opt, Without
<1>6. CASE s # <<>>
  <2>1. Opt(o, s) = Tie(o, s)
    BY <1>6 DEF Opt, Tie
  <2>2. Tie(o, s) \in Tokens /\ Balanced(Tie(o, s))
    BY <1>1, <1>3, BalancedJoined, Tied
  <2>3. \A words : w \notin words /\ Without(s, words) => Without(Tie(o, s), words)
    BY <1>1, <1>4, Tied
  <2> QED
    BY <2>1, <2>2, <2>3 DEF o
<1> QED
  BY <1>5, <1>6

\* A statement up to its condition.
Start(q) == Tie(Front(q), JoinPart(q))

\* Up to its joins a query has no WHERE and no closing word.
LEMMA StartIsPlain ==
  ASSUME NEW q, Proper(q)
  PROVE  /\ Start(q) \in Tokens /\ Start(q) # <<>>
         /\ Without(Start(q), {"where", Semicolon} \cup Closing)
         /\ Balanced(Start(q)) /\ Level(Start(q))
         /\ AtTop(Start(q), Closing) = {} /\ AtTop(Start(q), {"where"}) = {}
<1> DEFINE f == Front(q)
           j == JoinPart(q)
           W == {"where", Semicolon} \cup Closing
<1>1. f \in Tokens /\ Without(f, Marks) /\ f # <<>>
  BY FrontIsPlain
<1>2. q.join \in Tokens /\ Balanced(q.join) /\ Without(q.join, W)
  BY DEF Proper
<1>3. "join" \in Words /\ "join" \notin W /\ "join" \notin {"(", ")"}
  <2>1. "join" \notin W /\ "join" \notin {"(", ")"}
    BY Zenon DEF Closing, Semicolon
  <2> QED
    BY <2>1, Literals
<1>4. W \subseteq Marks /\ "where" \in W /\ Closing \subseteq W
  BY DEF Marks, Keywords
<1>5. Unmarked(f)
  BY <1>1 DEF Unmarked, Without, Marks
<1>6. Balanced(f)
  BY <1>1, <1>5, UnmarkedIsPlain
<1> HIDE DEF W, f
<1>7. j \in Tokens /\ Balanced(j) /\ Without(j, W)
  BY <1>2, <1>3, OptShape DEF JoinPart
<1> HIDE DEF j
<1>8. Without(f, W)
  BY <1>1, <1>4 DEF Without
<1>9. /\ Tie(f, j) \in Tokens /\ Without(Tie(f, j), W) /\ Balanced(Tie(f, j))
      /\ Len(Tie(f, j)) = Len(f) + Len(j)
  BY <1>1, <1>6, <1>7, <1>8, Tied, BalancedJoined
<1>10. Tie(f, j) # <<>>
  <2>1. Len(f) # 0 /\ Len(f) \in Nat /\ Len(j) \in Nat
    BY <1>1, <1>7, EmptySeq DEF Tokens
  <2>2. Len(Tie(f, j)) # 0 /\ Len(<<>>) = 0
    BY <1>9, <2>1
  <2> QED
    BY <2>2, Zenon
<1> DEFINE t == Tie(f, j)
<1> HIDE DEF t
<1>11. \A i \in 1 .. Len(t) : t[i] \notin W
  BY <1>9 DEF Without, t
<1>12. AtTop(t, Closing) = {} /\ AtTop(t, {"where"}) = {}
  BY <1>4, <1>11 DEF AtTop
<1>13. Level(t)
  BY <1>9 DEF Balanced, Level, t
<1> QED
  BY <1>9, <1>10, <1>12, <1>13 DEF Start, f, j, t, W

TailPart(q) == Tie(SortedPart(q), LimitPart(q))

\* The statement that the sandbox works on.
Body(q) == IF q.where = <<>> THEN Tie(Start(q), TailPart(q)) ELSE Frame(Start(q), q.where, TailPart(q))

\* The parts behind the table.
LEMMA SortedShape ==
  ASSUME NEW q
  PROVE  /\ SortedPart(q) \in Tokens /\ Without(SortedPart(q), {"limit", Semicolon})
         /\ ~q.sorted => SortedPart(q) = <<>>
         /\ q.sorted => SortedPart(q) # <<>> /\ SortedPart(q)[1] = "order"
         /\ Flat(SortedPart(q))
<1> DEFINE s == <<"order", "by", "id">>
<1>1. s \in Tokens /\ Len(s) = 3
  BY Literals, FewTokens
<1>2. s[1] = "order" /\ s[2] = "by" /\ s[3] = "id"
  OBVIOUS
<1>3. \A w \in {"order", "by", "id"} : w # Semicolon /\ w # "limit" /\ w \notin {"(", ")"}
  BY Zenon DEF Semicolon
<1>4. SortedPart(q) = IF q.sorted THEN s ELSE <<>>
  BY DEF SortedPart
<1>5. <<>> \in Tokens /\ Len(<<>>) = 0
  BY DEF Tokens
<1> HIDE DEF s
<1>6. \A i \in 1 .. Len(s) : s[i] \in {"order", "by", "id"}
  <2>1. \A i \in 1 .. 3 : i = 1 \/ i = 2 \/ i = 3
    OBVIOUS
  <2> QED
    BY <1>1, <1>2, <2>1
<1>7. Without(s, {"limit", Semicolon}) /\ Flat(s) /\ Without(<<>>, {"limit", Semicolon}) /\ Flat(<<>>)
  BY <1>3, <1>5, <1>6 DEF Without, Flat
<1>8. s # <<>>
  <2>1. Len(s) # Len(<<>>)
    BY <1>1, <1>5
  <2> QED
    BY <2>1, Zenon
<1> QED
  BY <1>1, <1>2, <1>4, <1>5, <1>7, <1>8

\* Two words behind each other.
LEMMA TwoTokens ==
  ASSUME NEW a \in Words, NEW b \in Words
  PROVE  Tie(<<a>>, <<b>>) = <<a, b>>
<1> DEFINE x == <<a>>
           y == <<b>>
           z == <<a, b>>
<1>1. x \in Tokens /\ Len(x) = 1 /\ x[1] = a /\ y \in Tokens /\ Len(y) = 1 /\ y[1] = b
  BY OneToken
<1>2. z \in Tokens /\ Len(z) = 2 /\ z[1] = a /\ z[2] = b
  BY FewTokens
<1> HIDE DEF x, y, z
<1>3. /\ Tie(x, y) \in Tokens /\ Len(Tie(x, y)) = 2
      /\ \A i \in 1 .. 1 : Tie(x, y)[i] = x[i] /\ Tie(x, y)[1 + i] = y[i]
  <2>1. /\ Tie(x, y) \in Tokens /\ Len(Tie(x, y)) = Len(x) + Len(y)
        /\ \A i \in 1 .. Len(x) : Tie(x, y)[i] = x[i]
        /\ \A i \in 1 .. Len(y) : Tie(x, y)[Len(x) + i] = y[i]
    BY <1>1, Joined DEF Tie
  <2> QED
    BY <1>1, <2>1
<1>4. Tie(x, y)[1] = a /\ Tie(x, y)[2] = b
  BY <1>1, <1>3
<1>5. \A i \in 1 .. 2 : i = 1 \/ i = 2
  OBVIOUS
<1>6. Tie(x, y) = z
  BY <1>2, <1>3, <1>4, <1>5, SeqEqual DEF Tokens
<1> QED
  BY <1>6 DEF x, y, z

\* The limit of a query is the word and a number, or nothing.
LEMMA LimitShape ==
  ASSUME NEW q, Proper(q)
  PROVE  /\ LimitPart(q) \in Tokens /\ Without(LimitPart(q), {Semicolon})
         /\ q.limit = <<>> => LimitPart(q) = <<>> /\ Without(LimitPart(q), {"limit"})
         /\ q.limit # <<>> => /\ LimitPart(q) = <<"limit", q.limit[1]>>
                              /\ q.limit[1] \in Words \ Marks /\ Len(LimitPart(q)) = 2 /\ LimitPart(q)[1] = "limit"
<1>1. CASE q.limit = <<>>
  <2>1. LimitPart(q) = <<>>
    BY <1>1 DEF LimitPart, Opt
  <2>2. <<>> \in Tokens /\ \A words : Without(<<>>, words)
    BY DEF Tokens, Without
  <2> QED
    BY <1>1, <2>1, <2>2
<1>2. CASE q.limit # <<>>
  <2> DEFINE n == q.limit[1]
  <2>1. q.limit \in Tokens /\ Len(q.limit) = 1 /\ n \notin Marks
    BY <1>2 DEF Proper
  <2>2. n \in Words
    BY <2>1 DEF Tokens
  <2>3. q.limit = <<n>>
    BY <2>1 DEF Tokens
  <2> HIDE DEF n
  <2>4. LimitPart(q) = <<"limit", n>>
    <3>1. LimitPart(q) = Tie(<<"limit">>, <<n>>)
      BY <1>2, <2>3, Zenon DEF LimitPart, Opt, Tie
    <3>2. "limit" \in Words
      BY Literals
    <3> QED
      BY <2>2, <3>1, <3>2, TwoTokens
  <2>5. "limit" \in Words /\ "limit" # Semicolon /\ n # Semicolon
    <3>1. Semicolon \in Marks
      BY DEF Marks
    <3> QED
      BY <2>1, <3>1, Literals, MarksAreNone
  <2> DEFINE l == <<"limit", n>>
  <2>6. l \in Tokens /\ Len(l) = 2 /\ l[1] = "limit" /\ l[2] = n
    BY <2>2, <2>5, FewTokens
  <2> HIDE DEF l
  <2>7. Without(l, {Semicolon})
    <3>1. \A i \in 1 .. 2 : i = 1 \/ i = 2
      OBVIOUS
    <3> QED
      BY <2>5, <2>6, <3>1 DEF Without
  <2> QED
    BY <1>2, <2>1, <2>2, <2>4, <2>6, <2>7 DEF n, l
<1> QED
  BY <1>1, <1>2

\* The text of a query is that which the sandbox works on and a last semicolon.
LEMMA TextIs ==
  ASSUME NEW q, Proper(q)
  PROVE  /\ TailPart(q) \in Tokens /\ Body(q) \in Tokens /\ Text(q) = Tie(Body(q), q.rest)
         /\ Body(q) # <<>> /\ Without(Body(q), {Semicolon})
         /\ q.limit = <<>> => Without(Body(q), {"limit"})
<1> DEFINE f == Start(q)
           w == WherePart(q)
           s == SortedPart(q)
           l == LimitPart(q)
           c == q.where
<1>1. f \in Tokens /\ Without(f, {"where", Semicolon} \cup Closing) /\ f # <<>>
  BY StartIsPlain
<1>2. /\ s \in Tokens /\ Without(s, {Semicolon}) /\ Without(s, {"limit"})
      /\ l \in Tokens /\ Without(l, {Semicolon}) /\ (q.limit = <<>> => Without(l, {"limit"}))
  <2>1. \A x : Without(x, {"limit", Semicolon}) => Without(x, {Semicolon}) /\ Without(x, {"limit"})
    BY DEF Without
  <2> QED
    BY <2>1, SortedShape, LimitShape
<1>3. Text(q) = Tie(Tie(Tie(Tie(f, w), s), l), q.rest)
  BY Zenon DEF Text, Start, Front, UpToTable, UpToFrom, JoinPart, WherePart, SortedPart, LimitPart, Tie
<1>4. c \in Tokens /\ Without(c, {Semicolon}) /\ Without(c, {"limit"}) /\ q.rest \in Tokens
  BY DEF Proper, Without, Closing
<1>6. w = IF c = <<>> THEN <<>> ELSE Tie(Where, c)
  BY DEF WherePart, Opt, Where, Tie
<1>7. TailPart(q) = Tie(s, l)
  BY DEF TailPart
<1>8. Body(q) = IF c = <<>> THEN Tie(f, TailPart(q)) ELSE Tie(Tie(Tie(f, Where), c), TailPart(q))
  BY Zenon DEF Body, Frame, Tie
<1>9. Where \in Tokens /\ Without(Where, {Semicolon}) /\ Without(Where, {"limit"})
  <2>1. Where \in Tokens /\ \A i \in 1 .. Len(Where) : Where[i] = "where"
    BY WhereShape
  <2>2. "where" # Semicolon /\ "where" # "limit"
    BY MarksAreNone
  <2> QED
    BY <2>1, <2>2 DEF Without
<1>10. Without(f, {Semicolon}) /\ Without(f, {"limit"})
  <2>1. "limit" \in Closing
    BY DEF Closing
  <2> QED
    BY <1>1, <2>1 DEF Without
<1>11. Len(f) \in Nat \ {0}
  BY <1>1 DEF Tokens
<1> HIDE DEF f, w, s, l, c
<1>12. TailPart(q) \in Tokens /\ Len(TailPart(q)) \in Nat /\ Without(TailPart(q), {Semicolon})
         /\ (q.limit = <<>> => Without(TailPart(q), {"limit"}))
  <2>1. TailPart(q) \in Tokens /\ Without(TailPart(q), {Semicolon})
         /\ (q.limit = <<>> => Without(TailPart(q), {"limit"}))
    BY <1>2, <1>7, Tied
  <2> QED
    BY <2>1 DEF Tokens
<1>13. ASSUME NEW h \in Tokens, Without(h, {Semicolon}), Without(h, {"limit"}), Len(h) \in Nat \ {0},
              Body(q) = Tie(h, TailPart(q)), Text(q) = Tie(Tie(Tie(h, s), l), q.rest)
       PROVE  /\ Body(q) \in Tokens /\ Text(q) = Tie(Body(q), q.rest)
              /\ Body(q) # <<>> /\ Without(Body(q), {Semicolon})
              /\ q.limit = <<>> => Without(Body(q), {"limit"})
  <2>1. /\ Body(q) \in Tokens /\ Len(Body(q)) = Len(h) + Len(TailPart(q)) /\ Without(Body(q), {Semicolon})
        /\ q.limit = <<>> => Without(Body(q), {"limit"})
    BY <1>12, <1>13, Tied
  <2>2. Tie(Tie(h, s), l) = Tie(h, Tie(s, l))
    BY <1>2, <1>13, Tied
  <2>3. Body(q) # <<>>
    <3>1. Len(Body(q)) # 0 /\ Len(<<>>) = 0
      BY <1>12, <1>13, <2>1
    <3> QED
      BY <3>1, Zenon
  <2> QED
    BY <1>7, <1>13, <2>1, <2>2, <2>3
<1>14. Tie(f, <<>>) = f
  BY <1>1, Tied
<1>15. CASE c = <<>>
  <2>1. Text(q) = Tie(Tie(Tie(f, s), l), q.rest)
    BY <1>3, <1>6, <1>14, <1>15
  <2>2. Body(q) = Tie(f, TailPart(q))
    BY <1>8, <1>15
  <2> QED
    BY <1>1, <1>10, <1>11, <1>12, <1>13, <2>1, <2>2
<1>16. CASE c # <<>>
  <2> DEFINE h == Tie(Tie(f, Where), c)
  <2>1. h = Tie(f, Tie(Where, c))
    BY <1>1, <1>4, <1>9, Tied
  <2>2. Text(q) = Tie(Tie(Tie(h, s), l), q.rest)
    BY <1>3, <1>6, <1>14, <1>16, <2>1
  <2>3. Body(q) = Tie(h, TailPart(q))
    BY <1>8, <1>16
  <2>4. /\ h \in Tokens /\ Without(h, {Semicolon}) /\ Without(h, {"limit"}) /\ Len(h) \in Nat \ {0}
    <3> DEFINE g == Tie(f, Where)
    <3>1. g \in Tokens /\ Without(g, {Semicolon}) /\ Without(g, {"limit"}) /\ Len(g) = Len(f) + Len(Where)
      BY <1>1, <1>9, <1>10, Tied
    <3> HIDE DEF g
    <3>2. h = Tie(g, c)
      BY DEF g
    <3>3. Tie(g, c) \in Tokens /\ Without(Tie(g, c), {Semicolon}) /\ Without(Tie(g, c), {"limit"})
           /\ Len(Tie(g, c)) = Len(g) + Len(c)
      BY <1>4, <3>1, Tied
    <3>4. Len(Where) \in Nat /\ Len(c) \in Nat
      BY <1>4, <1>9 DEF Tokens
    <3>5. Len(g) + Len(c) \in Nat \ {0}
      BY <1>11, <3>1, <3>4
    <3> QED
      BY <3>2, <3>3, <3>5
  <2> HIDE DEF h
  <2> QED
    BY <1>12, <1>13, <2>2, <2>3, <2>4
<1> QED
  BY <1>15, <1>16

\* The sandbox takes the semicolon off.
LEMMA BodyIsLeft ==
  ASSUME NEW q, Proper(q)
  PROVE  Trimmed(Text(q)) = Body(q)
<1> DEFINE b == Body(q)
           r == q.rest
           t == Text(q)
<1>1. b \in Tokens /\ t = Tie(b, r) /\ b # <<>> /\ Without(b, {Semicolon})
  BY TextIs
<1>2. r \in Tokens /\ (r = <<>> \/ r = <<Semicolon>>)
  BY DEF Proper
<1>3. Len(b) \in Nat \ {0}
  BY <1>1 DEF Tokens
<1>4. Trimmed(t) = IF Tok(t, Len(t)) = Semicolon THEN SubSeq(t, 1, Len(t) - 1) ELSE t
  BY Zenon DEF Trimmed, Semicolon
<1> HIDE DEF b, r, t
<1>5. CASE r = <<>>
  <2>1. t = b
    BY <1>1, <1>5, Tied
  <2>2. Len(b) \in 1 .. Len(b)
    BY <1>3
  <2>3. Tok(b, Len(b)) # Semicolon
    BY <1>1, <2>2 DEF Without, Tok
  <2> QED
    BY <1>4, <2>1, <2>3 DEF b, t
<1>6. CASE r = <<Semicolon>>
  <2>1. Len(r) = 1 /\ r[1] = Semicolon
    BY <1>6
  <2>2. Len(t) = Len(b) + 1
    BY <1>1, <1>2, <2>1, Tied
  <2>3. t[Len(b) + 1] = Semicolon
    <3>1. (b \o r)[Len(b) + 1] = r[1]
      <4>1. b \in Tokens /\ r \in Tokens /\ Len(r) = 1
        BY <1>1, <1>2, <2>1
      <4> QED
        BY <4>1, OneBehind
    <3> QED
      BY <1>1, <2>1, <3>1, Zenon DEF Tie
  <2>4. Len(t) \in 1 .. Len(t) /\ Len(t) - 1 = Len(b)
    BY <1>3, <2>2
  <2>5. Tok(t, Len(t)) = Semicolon
    BY <2>2, <2>3, <2>4 DEF Tok
  <2>6. SubSeq(Tie(b, r), 1, Len(b)) = b
    BY <1>1, <1>2, Uncut DEF Tie
  <2>7. Trimmed(t) = b
    BY <1>1, <1>4, <2>4, <2>5, <2>6
  <2> QED
    BY <2>7 DEF b, t
<1> QED
  BY <1>2, <1>5, <1>6

\* How many rows are let through.
Bound(q) == IF q.limit = <<>> THEN Numeral(DefaultRowLimit) ELSE q.limit[1]

\* How the statement ends that is sent.
End(q) == Tie(SortedPart(q), <<"limit", Bound(q)>>)

\* A query ends with its own limit or with the default (sandbox.go:124-137).
LEMMA LimitIsMet ==
  ASSUME NEW q, Proper(q)
  PROVE  Tie(TailPart(q), AddedLimit(Body(q))) = End(q)
<1> DEFINE b == Body(q)
           s == SortedPart(q)
           l == LimitPart(q)
<1>1. /\ b \in Tokens /\ (q.limit = <<>> => Without(b, {"limit"}))
  BY TextIs
<1>2. s \in Tokens /\ l \in Tokens /\ TailPart(q) = Tie(s, l)
  BY SortedShape, LimitShape DEF TailPart
<1>3. CASE q.limit = <<>>
  <2>1. l = <<>> /\ Bound(q) = Numeral(DefaultRowLimit)
    BY <1>3, LimitShape DEF Bound
  <2>2. LimitAt(b) = {}
    <3> HIDE DEF b
    <3> QED
      BY <1>1, <1>3 DEF LimitAt, Without
  <2>3. AddedLimit(b) = <<"limit", Bound(q)>>
    BY <2>1, <2>2 DEF AddedLimit
  <2>4. TailPart(q) = s
    BY <1>2, <2>1, Tied
  <2> QED
    BY <2>3, <2>4 DEF End
<1>4. CASE q.limit # <<>>
  <2>1. l = <<"limit", q.limit[1]>> /\ Len(l) = 2 /\ l[1] = "limit" /\ Bound(q) = q.limit[1]
    BY <1>4, LimitShape DEF Bound
  <2>2. \E h \in Tokens : b = Tie(h, TailPart(q))
    <3>1. Start(q) \in Tokens /\ q.where \in Tokens /\ Where \in Tokens
      BY StartIsPlain, WhereShape DEF Proper
    <3>2. CASE q.where = <<>>
      BY <3>1, <3>2 DEF Body
    <3>3. CASE q.where # <<>>
      <4> DEFINE h == Tie(Tie(Start(q), Where), q.where)
      <4>1. h \in Tokens
        <5>1. Tie(Start(q), Where) \in Tokens
          BY <3>1, Tied
        <5> QED
          BY <3>1, <5>1, Tied
      <4>2. b = Tie(h, TailPart(q))
        BY <3>3, Zenon DEF Body, Frame, Tie
      <4> QED
        BY <4>1, <4>2
    <3> QED
      BY <3>2, <3>3
  <2>3. PICK h \in Tokens : b = Tie(h, TailPart(q))
    BY <2>2
  <2> DEFINE x == Tie(h, s)
             i == Len(x) + 1
             S == {k \in 1 .. Len(b) : b[k] = "limit"}
  <2>4. x \in Tokens /\ b = Tie(x, l)
    BY <1>2, <2>3, Tied
  <2> HIDE DEF b, s, l, x
  <2>5. /\ Len(Tie(x, l)) = Len(x) + Len(l) /\ Len(x) \in Nat
        /\ \A k \in 1 .. Len(l) : Tie(x, l)[Len(x) + k] = l[k]
    BY <1>2, <2>4, Joined DEF Tie
  <2>6. i \in 1 .. Len(b)
    BY <2>1, <2>4, <2>5
  <2>7. b[i] = "limit"
    <3>1. 1 \in 1 .. Len(l)
      BY <2>1
    <3> QED
      BY <2>1, <2>4, <2>5, <3>1
  <2>8. S # {} /\ S \in SUBSET Nat
    BY <2>6, <2>7
  <2>9. PICK m \in S : \A k \in S : m <= k
    BY <2>8, LeastExists
  <2>10. m \in LimitAt(b)
    <3>1. m \in 1 .. Len(b) /\ b[m] = "limit" /\ Len(b) \in Nat
      BY <1>1, <2>9 DEF Tokens
    <3>2. ASSUME NEW k \in 1 .. m - 1, b[k] = "limit" PROVE FALSE
      <4>1. k \in 1 .. Len(b)
        BY <3>1
      <4>2. m <= k
        BY <2>9, <3>2, <4>1
      <4> QED
        BY <3>1, <4>2
    <3> QED
      BY <3>1, <3>2 DEF LimitAt
  <2>11. AddedLimit(b) = <<>>
    BY <2>10 DEF AddedLimit
  <2>12. TailPart(q) \in Tokens
    BY TextIs
  <2>13. Tie(TailPart(q), AddedLimit(b)) = Tie(s, l)
    BY <1>2, <2>11, <2>12, Tied
  <2> QED
    BY <2>1, <2>13, Zenon DEF End, b, s
<1> QED
  BY <1>3, <1>4

\* The number of the limit is a word and no mark.
LEMMA BoundIsWord ==
  ASSUME NEW q, Proper(q)
  PROVE  Bound(q) \in Words \ Marks
<1>1. CASE q.limit = <<>>
  <2>1. Bound(q) \in {"0", "1", "2", "3"}
    BY <1>1, LimitAssumption DEF Bound, Numeral
  <2>2. {"0", "1", "2", "3"} \cap Marks = {}
    BY Zenon DEF Marks, Keywords, Closing, Semicolon
  <2>3. {"0", "1", "2", "3", "9"} \subseteq Words
    BY Literals
  <2> QED
    BY <2>1, <2>2, <2>3
<1>2. CASE q.limit # <<>>
  BY <1>2, LimitShape DEF Bound
<1> QED
  BY <1>1, <1>2

\* The order and the limit are found behind everything that has none of the
\* words that end a condition.
LEMMA EndIsRead ==
  ASSUME NEW q, Proper(q), NEW h \in Tokens, Level(h), AtTop(h, Closing) = {},
         NEW ts, ts = Tie(h, End(q))
  PROVE  /\ ts \in Tokens /\ (FirstAtTop(ts, {"order"}) <= Len(ts) <=> q.sorted)
         /\ FirstAtTop(ts, {"limit"}) <= Len(ts) /\ ts[FirstAtTop(ts, {"limit"}) + 1] = Bound(q)
         /\ AtTop(End(q), {"where"}) = {} /\ Ends(End(q)) /\ End(q) \in Tokens
<1> DEFINE s == SortedPart(q)
           n == Bound(q)
           m == <<"limit", n>>
           e == End(q)
<1>1. n \in Words \ Marks /\ "limit" \in Words
  BY BoundIsWord, Literals
<1>2. m \in Tokens /\ Len(m) = 2 /\ m[1] = "limit" /\ m[2] = n
  BY <1>1, FewTokens
<1>3. e = Tie(s, m)
  BY DEF End
<1>4. /\ s \in Tokens /\ Without(s, {"limit"}) /\ Flat(s)
      /\ ~q.sorted => s = <<>>
      /\ q.sorted => s # <<>> /\ s[1] = "order"
      /\ Without(s, {"where"})
  <2>1. Without(s, {"limit", Semicolon}) => Without(s, {"limit"})
    BY DEF Without
  <2>2. Without(s, {"where"})
    <3> DEFINE t == <<"order", "by", "id">>
    <3>1. t[1] # "where" /\ t[2] # "where" /\ t[3] # "where" /\ Len(t) = 3
      OBVIOUS
    <3>2. s = IF q.sorted THEN t ELSE <<>>
      BY DEF SortedPart
    <3>3. \A i \in 1 .. 3 : i = 1 \/ i = 2 \/ i = 3
      OBVIOUS
    <3> HIDE DEF t
    <3>4. Without(t, {"where"}) /\ Without(<<>>, {"where"})
      BY <3>1, <3>3 DEF Without
    <3> QED
      BY <3>2, <3>4
  <2> QED
    BY <2>1, <2>2, SortedShape
<1>5. /\ n \notin {"(", ")"} /\ n # "order" /\ n # "where" /\ n # "limit"
      /\ "limit" \notin {"(", ")"} /\ "limit" # "order" /\ "limit" # "where"
  BY <1>1, Zenon DEF Marks, Keywords, Closing
<1> HIDE DEF s, n, m, e
<1>6. /\ Flat(m) /\ Level(m) /\ m # <<>> /\ Without(m, {"order"}) /\ Without(m, {"where"})
  <2>1. \A i \in 1 .. 2 : i = 1 \/ i = 2
    OBVIOUS
  <2>2. Flat(m) /\ Without(m, {"order"}) /\ Without(m, {"where"})
    BY <1>2, <1>5, <2>1 DEF Flat, Without
  <2>3. Len(m) # Len(<<>>)
    BY <1>2
  <2>4. m # <<>>
    BY <2>3, Zenon
  <2> QED
    BY <1>2, <2>2, <2>4, FlatIsLevel
<1>7. Level(s) /\ AtTop(s, {"limit"}) = {} /\ AtTop(s, {"where"}) = {}
  BY <1>4, FlatIsLevel, NoneOutside DEF Without
<1>8. AtTop(m, {"order"}) = {} /\ AtTop(m, {"where"}) = {}
  BY <1>2, <1>6, NoneOutside DEF Without
<1>9. FirstAtTop(m, {"limit"}) = 1
  BY <1>2, <1>5, <1>6, FirstIsHead
<1>10. /\ e \in Tokens /\ Len(e) = Len(s) + 2 /\ Len(s) \in Nat /\ e[Len(s) + 2] = n
       /\ \A i \in 1 .. Len(s) : e[i] = s[i]
       /\ e # <<>>
  <2>1. /\ Tie(s, m) \in Tokens /\ Len(Tie(s, m)) = Len(s) + Len(m) /\ Len(s) \in Nat
        /\ \A i \in 1 .. Len(s) : Tie(s, m)[i] = s[i]
        /\ \A i \in 1 .. Len(m) : Tie(s, m)[Len(s) + i] = m[i]
    <3>1. s \in Tokens /\ m \in Tokens
      BY <1>2, <1>4
    <3> QED
      BY <3>1, Joined DEF Tie
  <2>2. 2 \in 1 .. Len(m)
    BY <1>2
  <2>3. Len(e) # 0 /\ Len(<<>>) = 0
    BY <1>2, <1>3, <2>1
  <2>4. e # <<>>
    BY <2>3, Zenon
  <2> QED
    BY <1>2, <1>3, <2>1, <2>2, <2>4
<1>11. FirstAtTop(e, {"limit"}) = Len(s) + 1 /\ AtTop(e, {"where"}) = {}
  BY <1>2, <1>3, <1>4, <1>7, <1>8, <1>9, FirstIsSkipped DEF Tie
<1>12. AtTop(e, {"order"}) # {} <=> q.sorted
  <2>1. CASE ~q.sorted
    <3>1. AtTop(s, {"order"}) = {}
      BY <1>4, <2>1 DEF AtTop
    <3>2. AtTop(s \o m, {"order"}) = {} <=> AtTop(m, {"order"}) = {}
      BY <1>2, <1>4, <1>7, <3>1, FirstIsSkipped
    <3> QED
      BY <1>3, <1>8, <2>1, <3>2 DEF Tie
  <2>2. CASE q.sorted
    <3>1. s # <<>> /\ s[1] \in {"order"} /\ s[1] \notin {"(", ")"}
      BY <1>4, <2>2
    <3>2. AtTop(s, {"order"}) # {}
      BY <1>4, <3>1, FirstIsHead
    <3>3. AtTop(s \o m, {"order"}) # {}
      BY <1>2, <1>4, <3>2, FirstStays
    <3> QED
      BY <1>3, <2>2, <3>3 DEF Tie
  <2> QED
    BY <2>1, <2>2
<1>13. Ends(e)
  <2>1. "order" \in Closing /\ "limit" \in Closing
    BY DEF Closing
  <2>2. CASE q.sorted
    <3>1. Len(s) # 0
      BY <1>4, <2>2, EmptySeq DEF Tokens
    <3>2. 1 \in 1 .. Len(s)
      BY <1>10, <3>1
    <3> QED
      BY <1>4, <1>10, <2>1, <2>2, <3>2 DEF Ends
  <2>3. CASE ~q.sorted
    <3>1. s = <<>>
      BY <1>4, <2>3
    <3>2. Tie(<<>>, m) = m
      BY <1>2, ConcatEmptySeq DEF Tie, Tokens
    <3>3. e = m
      BY <1>3, <3>1, <3>2
    <3> QED
      BY <1>2, <2>1, <3>3 DEF Ends
  <2> QED
    BY <2>2, <2>3
<1>14. AtTop(h, {"order"}) = {} /\ AtTop(h, {"limit"}) = {}
  BY DEF AtTop, Closing
<1>15. /\ FirstAtTop(h \o e, {"limit"}) = Len(h) + FirstAtTop(e, {"limit"})
       /\ (AtTop(h \o e, {"order"}) = {} <=> AtTop(e, {"order"}) = {})
  BY <1>10, <1>14, FirstIsSkipped
<1>16. /\ ts \in Tokens /\ Len(ts) = Len(h) + Len(e) /\ Len(h) \in Nat
       /\ \A k \in 1 .. Len(e) : ts[Len(h) + k] = e[k]
  <2>1. ts = Tie(h, e)
    BY DEF e
  <2>2. /\ Tie(h, e) \in Tokens /\ Len(Tie(h, e)) = Len(h) + Len(e) /\ Len(h) \in Nat
        /\ \A k \in 1 .. Len(e) : Tie(h, e)[Len(h) + k] = e[k]
    BY <1>10, Joined DEF Tie
  <2> QED
    BY <2>1, <2>2
<1>17. /\ FirstAtTop(ts, {"limit"}) = Len(h) + (Len(s) + 1)
       /\ (AtTop(ts, {"order"}) # {} <=> q.sorted)
  BY <1>11, <1>12, <1>15 DEF Tie, e
<1>18. FirstAtTop(ts, {"order"}) <= Len(ts) <=> AtTop(ts, {"order"}) # {}
  BY <1>16, FirstOutside
<1>19. FirstAtTop(ts, {"limit"}) <= Len(ts) /\ FirstAtTop(ts, {"limit"}) + 1 = Len(h) + (Len(s) + 2)
  BY <1>10, <1>16, <1>17
<1>20. Len(s) + 2 \in 1 .. Len(e)
  BY <1>10
<1>21. ts[FirstAtTop(ts, {"limit"}) + 1] = n
  BY <1>10, <1>16, <1>19, <1>20
<1> QED
  BY <1>10, <1>11, <1>13, <1>16, <1>17, <1>18, <1>19, <1>21 DEF e, n

\* A statement whose condition is framed, and its head.
LEMMA FramedHead ==
  ASSUME NEW q, Proper(q), NEW c \in Tokens, Level(c), AtTop(c, Closing) = {}, NEW v
  PROVE  \E h \in Tokens : Level(h) /\ AtTop(h, Closing) = {} /\ Frame(Start(q), c, v) = Tie(h, v)
<1> DEFINE f == Start(q)
           g == Tie(f, Where)
<1>1. f \in Tokens /\ Level(f) /\ AtTop(f, Closing) = {}
  BY StartIsPlain
<1>2. Where \in Tokens /\ Level(Where) /\ AtTop(Where, Closing) = {}
  BY WhereShape
<1>3. Frame(f, c, v) = Tie(Tie(Tie(f, Where), c), v)
  BY Zenon DEF Frame, Tie
<1> HIDE DEF f
<1>4. g \in Tokens /\ Level(g) /\ AtTop(g, Closing) = {}
  BY <1>1, <1>2, Joined, JoinedLevel, FirstIsSkipped DEF Tie
<1> HIDE DEF g
<1>5. Tie(g, c) \in Tokens /\ Level(Tie(g, c)) /\ AtTop(Tie(g, c), Closing) = {}
  BY <1>4, Joined, JoinedLevel, FirstIsSkipped DEF Tie
<1> QED
  BY <1>3, <1>5 DEF f, g

\* What is behind the condition starts with a closing word.
LEMMA TailEnds ==
  ASSUME NEW q, Proper(q)
  PROVE  TailPart(q) \in Tokens /\ Ends(TailPart(q))
<1> DEFINE s == SortedPart(q)
           l == LimitPart(q)
<1>1. "order" \in Closing /\ "limit" \in Closing
  BY DEF Closing
<1>2. TailPart(q) = Tie(s, l) /\ TailPart(q) \in Tokens
  BY TextIs DEF TailPart
<1>3. s \in Tokens /\ l \in Tokens /\ (l = <<>> \/ l[1] = "limit") /\ (s = <<>> \/ s[1] = "order")
  BY SortedShape, LimitShape
<1> HIDE DEF s, l
<1>4. CASE s = <<>>
  <2>1. Tie(<<>>, l) = l
    BY <1>3, ConcatEmptySeq DEF Tie, Tokens
  <2>2. TailPart(q) = l
    BY <1>2, <1>4, <2>1
  <2> QED
    BY <1>1, <1>2, <1>3, <2>2 DEF Ends
<1>5. CASE s # <<>>
  <2>1. 1 \in 1 .. Len(s)
    BY <1>3, <1>5, EmptySeq DEF Tokens
  <2>2. \A i \in 1 .. Len(s) : Tie(s, l)[i] = s[i]
    BY <1>3, Joined DEF Tie
  <2> QED
    BY <1>1, <1>2, <1>3, <1>5, <2>1, <2>2 DEF Ends
<1> QED
  BY <1>4, <1>5

\* The condition of a query may stand in a frame.
LEMMA OwnCondition ==
  ASSUME NEW q, Proper(q)
  PROVE  /\ q.where \in Tokens /\ Balanced(q.where) /\ Level(q.where)
         /\ AtTop(q.where, Closing) = {} /\ AtTop(q.where, {"where"}) = {}
  BY DEF Proper, Without, AtTop, Balanced, Level

Unbound(pol) == pol.column = ""

\* Without a policy column the query is sent as it is, with its limit.
LEMMA SentWithout ==
  ASSUME NEW q, Proper(q), NEW pol, Unbound(pol)
  PROVE  LET s == Sanitized(Text(q), pol)
         IN  \E h \in Tokens :
               /\ Level(h) /\ AtTop(h, Closing) = {} /\ s = Tie(h, End(q)) /\ Condition(s) = q.where
<1> DEFINE s == Sanitized(Text(q), pol)
           f == Start(q)
           e == End(q)
<1>1. s = Tie(Body(q), AddedLimit(Body(q)))
  <2>1. Trimmed(Text(q)) = Body(q)
    BY BodyIsLeft
  <2> QED
    BY <2>1, Zenon DEF Sanitized, Tie, Unbound
<1>2. Tie(TailPart(q), AddedLimit(Body(q))) = e
  BY LimitIsMet
<1>3. TailPart(q) \in Tokens /\ AddedLimit(Body(q)) \in Tokens /\ Body(q) \in Tokens
  BY TextIs, TailEnds, LimitAdded
<1>4. f \in Tokens /\ Level(f) /\ AtTop(f, Closing) = {} /\ AtTop(f, {"where"}) = {}
  BY StartIsPlain
<1>5. \A h \in Tokens : Level(h) /\ AtTop(h, Closing) = {} =>
         Tie(h, e) \in Tokens /\ AtTop(e, {"where"}) = {} /\ Ends(e) /\ e \in Tokens
  BY EndIsRead
<1>8. q.where = <<>> => Body(q) = Tie(f, TailPart(q))
  BY DEF Body
<1>9. q.where # <<>> => Body(q) = Frame(f, q.where, TailPart(q))
  BY DEF Body
<1>10. /\ q.where \in Tokens /\ Level(q.where) /\ AtTop(q.where, Closing) = {}
  BY OwnCondition
<1>11. \E h \in Tokens : Level(h) /\ AtTop(h, Closing) = {} /\ Frame(f, q.where, e) = Tie(h, e)
  BY <1>10, FramedHead
<1> SUFFICES \E h \in Tokens : Level(h) /\ AtTop(h, Closing) = {} /\ s = Tie(h, e) /\ Condition(s) = q.where
  OBVIOUS
<1> HIDE DEF s, f, e
<1>12. e \in Tokens /\ AtTop(e, {"where"}) = {} /\ Ends(e) /\ Tie(f, e) \in Tokens
  BY <1>4, <1>5
<1>6. CASE q.where = <<>>
  <2>1. Body(q) = Tie(f, TailPart(q))
    BY <1>6, <1>8
  <2>2. s = Tie(f, e)
    <3>1. Tie(Tie(f, TailPart(q)), AddedLimit(Body(q))) = Tie(f, Tie(TailPart(q), AddedLimit(Body(q))))
      BY <1>3, <1>4, Tied
    <3> QED
      BY <1>1, <1>2, <2>1, <3>1
  <2>3. AtTop(Tie(f, e), {"where"}) = {}
    BY <1>4, <1>12, FirstIsSkipped DEF Tie
  <2>4. Condition(s) = <<>>
    BY <1>12, <2>2, <2>3, Unframed
  <2> QED
    BY <1>4, <1>6, <2>2, <2>4
<1>7. CASE q.where # <<>>
  <2>1. PICK h \in Tokens : Level(h) /\ AtTop(h, Closing) = {} /\ Frame(f, q.where, e) = Tie(h, e)
    BY <1>11
  <2>2. Tie(Frame(f, q.where, TailPart(q)), AddedLimit(Body(q))) =
         Frame(f, q.where, Tie(TailPart(q), AddedLimit(Body(q))))
    BY <1>3, <1>4, <1>10, FrameGoesOn
  <2>3. s = Frame(f, q.where, e)
    BY <1>1, <1>2, <1>7, <1>9, <2>2
  <2>4. Condition(s) = q.where
    BY <1>4, <1>10, <1>12, <2>3, Framed, OwnCondition
  <2> QED
    BY <2>1, <2>3, <2>4
<1> QED
  BY <1>6, <1>7

\* The predicate of the tenant, and what it means (sandbox.go:264-283).
LEMMA PredicateShape ==
  ASSUME NEW ts \in Tokens, ExtractAccepts(ts),
         NEW pol, ~Unbound(pol), TenantAccepts(ts, pol), pol.tenant \in Words \ Keywords
  PROVE  LET pred == Predicate(ts, pol)
         IN  /\ pred \in Tokens /\ pred # <<>>
             /\ Unmarked(pred) /\ Level(pred) /\ AtTop(pred, Closing) = {}
             /\ \A row : Holds(pred, row) = (row[pol.column] = pol.tenant)
<1> DEFINE name   == Qualifier(ts)
           pred   == Predicate(ts, pol)
           column == pol.column
           value  == pol.tenant
<1>1. pred = <<Quote[name], ".", Quote[column], "=", value>>
  BY Zenon DEF Predicate
<1>2. name \in Unquoted /\ column \in Unquoted /\ value \in Words \ Keywords
  <2>1. column \in Unquoted
    BY Zenon DEF TenantAccepts, IsIdentifier, Unquoted, Unbound
  <2> QED
    BY <2>1, QualifierIsWord
<1> HIDE DEF name, pred, column, value
<1>3. /\ pred \in Tokens /\ Unmarked(pred) /\ Len(pred) = 5
      /\ \A row : Holds(pred, row) = (row[column] = value)
  BY <1>1, <1>2, PredicateHolds
<1>4. pred # <<>>
  <2>1. Len(<<>>) # 5
    OBVIOUS
  <2> QED
    BY <1>3, <2>1, Zenon
<1>5. Level(pred) /\ AtTop(pred, Closing) = {}
  BY <1>3, UnmarkedIsPlain, Zenon
<1> QED
  BY <1>3, <1>4, <1>5 DEF pred, column, value

\* With one, the condition sent is that of the query and the predicate.
LEMMA SentWith ==
  ASSUME NEW q, Proper(q), NEW pol, ~Unbound(pol), pol.tenant \in Words \ Keywords,
         ExtractAccepts(Trimmed(Text(q))), TenantAccepts(Trimmed(Text(q)), pol),
         NEW s, s = Sanitized(Text(q), pol)
  PROVE  \E h \in Tokens :
           /\ Level(h) /\ AtTop(h, Closing) = {} /\ s = Tie(h, End(q)) /\ Condition(s) # <<>>
           /\ \A row : Holds(Condition(s), row) <=>
                         /\ q.where # <<>> => Holds(q.where, row)
                         /\ row[pol.column] = pol.tenant
<1> DEFINE f    == Start(q)
           e    == End(q)
           b    == Body(q)
           w    == q.where
           t    == TailPart(q)
           pred == Predicate(b, pol)
           add  == AddedLimit(b)
           Wanted(row) == row[pol.column] = pol.tenant
<1>1. Trimmed(Text(q)) = b
  BY BodyIsLeft
<1>2. s = Tie(InjectPredicate(b, pred), add)
  BY <1>1, Zenon DEF Sanitized, Tie, Unbound
<1>3. ExtractAccepts(b) /\ TenantAccepts(b, pol) /\ b \in Tokens
  BY <1>1, TextIs
<1>4. /\ pred \in Tokens /\ pred # <<>>
      /\ Unmarked(pred) /\ Level(pred) /\ AtTop(pred, Closing) = {}
      /\ \A row : Holds(pred, row) = Wanted(row)
  BY <1>3, PredicateShape, Zenon
<1>5. f \in Tokens /\ Level(f) /\ AtTop(f, Closing) = {} /\ AtTop(f, {"where"}) = {}
  BY StartIsPlain
<1>6. e \in Tokens /\ Ends(e)
  BY <1>5, EndIsRead
<1>7. t \in Tokens /\ Ends(t) /\ add \in Tokens /\ Tie(t, add) = e
  BY <1>3, TailEnds, LimitAdded, LimitIsMet
<1>8. /\ w \in Tokens /\ Balanced(w) /\ Level(w) /\ AtTop(w, Closing) = {} /\ AtTop(w, {"where"}) = {}
  BY OwnCondition
<1>9. (w = <<>> => b = Tie(f, t)) /\ (w # <<>> => b = Frame(f, w, t))
  BY DEF Body
<1>11. \A c \in Tokens : Level(c) /\ AtTop(c, Closing) = {} =>
         \E h \in Tokens : Level(h) /\ AtTop(h, Closing) = {} /\ Frame(f, c, e) = Tie(h, e)
  BY FramedHead
<1> SUFFICES \E h \in Tokens :
               /\ Level(h) /\ AtTop(h, Closing) = {} /\ s = Tie(h, e) /\ Condition(s) # <<>>
               /\ \A row : Holds(Condition(s), row) <=> (w # <<>> => Holds(w, row)) /\ Wanted(row)
  OBVIOUS
<1> HIDE DEF f, e, b, w, t, pred, add, Wanted
<1>12. ASSUME NEW c \in Tokens, InjectPredicate(b, pred) = Frame(f, c, t)
       PROVE  s = Frame(f, c, e)
  <2>1. Tie(Frame(f, c, t), add) = Frame(f, c, Tie(t, add))
    BY <1>5, <1>7, FrameGoesOn
  <2> QED
    BY <1>2, <1>7, <1>12, <2>1
<1>13. ASSUME NEW c \in Tokens, c # <<>>, Level(c), AtTop(c, Closing) = {}, s = Frame(f, c, e),
              \A row : Holds(c, row) <=> (w # <<>> => Holds(w, row)) /\ Wanted(row)
       PROVE  \E h \in Tokens :
               /\ Level(h) /\ AtTop(h, Closing) = {} /\ s = Tie(h, e) /\ Condition(s) # <<>>
               /\ \A row : Holds(Condition(s), row) <=> (w # <<>> => Holds(w, row)) /\ Wanted(row)
  <2>1. Condition(s) = c
    BY <1>5, <1>6, <1>13, Framed
  <2>2. PICK h \in Tokens : Level(h) /\ AtTop(h, Closing) = {} /\ Frame(f, c, e) = Tie(h, e)
    BY <1>11, <1>13
  <2> QED
    BY <1>13, <2>1, <2>2
<1>14. CASE w = <<>>
  <2>1. InjectPredicate(b, pred) = Frame(f, pred, t)
    BY <1>4, <1>5, <1>7, <1>9, <1>14, PredicateAlone DEF Tie
  <2>2. s = Frame(f, pred, e)
    BY <1>4, <1>12, <2>1
  <2> QED
    BY <1>4, <1>13, <1>14, <2>2
<1>15. CASE w # <<>>
  <2> DEFINE c == Both(w, pred)
  <2>1. InjectPredicate(b, pred) = Frame(f, c, t)
    BY <1>4, <1>5, <1>7, <1>8, <1>9, <1>15, PredicateBeside
  <2>2. /\ c \in Tokens /\ c # <<>> /\ Level(c) /\ AtTop(c, Closing) = {}
        /\ \A row : Holds(c, row) = (Holds(w, row) /\ Holds(pred, row))
    BY <1>4, <1>8, BothHold, Zenon
  <2> HIDE DEF c
  <2>3. s = Frame(f, c, e)
    BY <1>12, <2>1, <2>2
  <2> QED
    BY <1>4, <1>13, <1>15, <2>2, <2>3
<1> QED
  BY <1>14, <1>15

\* The default limit is read as it was written.
LEMMA DefaultIsRead ==
  Atoi(Numeral(DefaultRowLimit)) = DefaultRowLimit
<1>1. \A n \in 0 .. 9, d \in 0 .. 3 : Numeral(n) = Numeral(d) => n = d
  <2> SUFFICES ASSUME NEW n \in 0 .. 9, NEW d \in 0 .. 3, Numeral(n) = Numeral(d) PROVE n = d
    OBVIOUS
  <2>1. d = 0 \/ d = 1 \/ d = 2 \/ d = 3
    OBVIOUS
  <2>2. n = 0 \/ n = 1 \/ n = 2 \/ n = 3 \/ n \notin 0 .. 3
    OBVIOUS
  <2>3. Numeral(0) = "0" /\ Numeral(1) = "1" /\ Numeral(2) = "2" /\ Numeral(3) = "3"
        /\ (n \notin 0 .. 3 => Numeral(n) = "9")
    BY DEF Numeral
  <2> QED
    BY <2>1, <2>2, <2>3
<1>2. DefaultRowLimit \in 0 .. 9 /\ DefaultRowLimit \in 0 .. 3
  BY LimitAssumption
<1>3. \A n \in 0 .. 9 : Numeral(n) = Numeral(DefaultRowLimit) => n = DefaultRowLimit
  BY <1>1, <1>2
<1> QED
  BY <1>2, <1>3 DEF Atoi

\* The rows of a query, by what its parts say.
Selected(q) ==
  {row \in Table : /\ q.where # <<>> => Holds(q.where, row)
                   /\ ~Unbound(policy) => row.tenant = policy.tenant}

\* Equal conditions, orders and limits give equal answers.
LEMMA EvaluatesAlike ==
  ASSUME NEW q, Proper(q), NEW h \in Tokens, Level(h), AtTop(h, Closing) = {},
         NEW s, s = Tie(h, End(q)),
         \A row : Condition(s) = <<>> \/ Holds(Condition(s), row) <=>
                    /\ q.where # <<>> => Holds(q.where, row)
                    /\ ~Unbound(policy) => row.tenant = policy.tenant
  PROVE  Evaluate(s) = Reference(q)
<1> DEFINE rows == IF q.sorted THEN Ascending ELSE Data
           at   == FirstAtTop(s, {"limit"})
           most == IF q.limit = <<>> THEN DefaultRowLimit ELSE Atoi(q.limit[1])
           kept == {row \in Table : Condition(s) = <<>> \/ Holds(Condition(s), row)}
<1>1. Reference(q) = Prefix(Chosen(rows, Selected(q)), most)
  BY Zenon DEF Reference, Selected, Unbound
<1>2. /\ s \in Tokens /\ (FirstAtTop(s, {"order"}) <= Len(s) <=> q.sorted)
      /\ at <= Len(s) /\ s[at + 1] = Bound(q)
  BY EndIsRead
<1>3. Atoi(Bound(q)) = most
  BY DefaultIsRead DEF Bound
<1>4. kept = Selected(q)
  BY DEF Selected
<1>5. Evaluate(s) = Prefix(Chosen(IF FirstAtTop(s, {"order"}) <= Len(s) THEN Ascending ELSE Data, kept),
                           IF at > Len(s) THEN Len(IF FirstAtTop(s, {"order"}) <= Len(s) THEN Ascending ELSE Data)
                           ELSE Atoi(s[at + 1]))
  BY Zenon DEF Evaluate
<1>6. (IF FirstAtTop(s, {"order"}) <= Len(s) THEN Ascending ELSE Data) = rows
  BY <1>2
<1>7. ~(at > Len(s))
  <2>1. at \in 1 .. Len(s) + 1 /\ Len(s) \in Nat
    BY <1>2, FirstOutside DEF Tokens
  <2> HIDE DEF at
  <2> QED
    BY <1>2, <2>1
<1> HIDE DEF rows, at, most, kept
<1>8. Evaluate(s) = Prefix(Chosen(rows, kept), Atoi(s[at + 1]))
  BY <1>5, <1>6, <1>7
<1> QED
  BY <1>1, <1>2, <1>3, <1>4, <1>8

\* Only MySQL's text is formatted otherwise.
LEMMA MappedIsTold ==
  ASSUME NEW row, NEW cols, dialect # "mysql"
  PROVE  Mapped(row, cols) = Told(row, cols)
  BY DEF Mapped, Told, Cell

\* The policy has no column, or one that is refused, or that of the table.
ColumnOfTable ==
  /\ Unbound(policy) \/ ~IsIdentifier(policy.column) \/ policy.column = "tenant"
  /\ NamesTenant

\* What is sent has the meaning of what was asked, whatever its columns, names
\* and limit, and however its condition is put together.
LEMMA SentMeansQuery ==
  ASSUME SentInv, stage = "answered", Proper(query), ColumnOfTable
  PROVE  Evaluate(sent) = Reference(query)
<1> DEFINE q == query
<1>1. Allowed(Text(q), policy) /\ sent = Sanitized(Text(q), policy) /\ Understands(q, sent)
  BY DEF SentInv
<1>2. CASE Unbound(policy)
  <2>1. PICK h \in Tokens : /\ Level(h) /\ AtTop(h, Closing) = {}
                            /\ sent = Tie(h, End(q)) /\ Condition(sent) = q.where
    BY <1>1, <1>2, SentWithout
  <2>2. \A row : Condition(sent) = <<>> \/ Holds(Condition(sent), row) <=>
                   /\ q.where # <<>> => Holds(q.where, row)
                   /\ ~Unbound(policy) => row.tenant = policy.tenant
    BY <1>2, <2>1
  <2> QED
    BY <2>1, <2>2, EvaluatesAlike
<1>3. CASE ~Unbound(policy)
  <2>1. ExtractAccepts(Trimmed(Text(q))) /\ TenantAccepts(Trimmed(Text(q)), policy)
    BY <1>1, <1>3, Zenon DEF Allowed
  <2>2. policy.column = "tenant" /\ policy.tenant \in Words \ Keywords
    BY <1>3, <2>1, Zenon DEF ColumnOfTable, NamesTenant, TenantAccepts, Unbound
  <2>3. PICK h \in Tokens :
          /\ Level(h) /\ AtTop(h, Closing) = {} /\ sent = Tie(h, End(q)) /\ Condition(sent) # <<>>
          /\ \A row : Holds(Condition(sent), row) <=>
                        /\ q.where # <<>> => Holds(q.where, row)
                        /\ row[policy.column] = policy.tenant
    BY <1>1, <1>3, <2>1, <2>2, SentWith
  <2>4. \A row : Condition(sent) = <<>> \/ Holds(Condition(sent), row) <=>
                   /\ q.where # <<>> => Holds(q.where, row)
                   /\ ~Unbound(policy) => row.tenant = policy.tenant
    <3>1. \A row : row[policy.column] = row.tenant
      BY <2>2
    <3> QED
      BY <1>3, <2>3, <3>1
  <2> QED
    BY <2>3, <2>4, EvaluatesAlike
<1> QED
  BY <1>2, <1>3

\* What is stored is what the query asked for, of the rows of its tenant, for
\* every choice of columns, names, condition and limit: neither the predicate
\* that is written into the statement nor the limit behind it changes what the
\* rest means (sandbox.go:106-138, 264-321, processor.go:127-151).
THEOREM AnswersAreRight ==
  AnswersSpec => [](Proper(query) /\ ColumnOfTable => AnswerIsRight)
<1>1. SentInv => (Proper(query) /\ ColumnOfTable => AnswerIsRight)
  <2> SUFFICES ASSUME SentInv, Proper(query), ColumnOfTable,
                      stage = "answered", dialect # "mysql"
               PROVE  answer = [i \in 1 .. Len(Reference(query)) |-> Told(Reference(query)[i], query.cols)]
    BY Zenon DEF AnswerIsRight
  <2>1. Evaluate(sent) = Reference(query)
    BY SentMeansQuery
  <2>2. answer = [i \in 1 .. Len(Evaluate(sent)) |-> Mapped(Evaluate(sent)[i], query.cols)]
    BY DEF SentInv
  <2>3. \A row : Mapped(row, query.cols) = Told(row, query.cols)
    BY MappedIsTold
  <2> QED
    BY <2>1, <2>2, <2>3
<1> QED
  BY <1>1, SentIsInvariant, PTL

(***************************************************************************)
(* Where a statement has the words that the sandbox looks for.             *)
(***************************************************************************)
Spots(ts, words) == {i \in 1 .. Len(ts) : ts[i] \in words}


\* Where two parts behind each other have some words.
LEMMA SpotsJoined ==
  ASSUME NEW a \in Tokens, NEW b \in Tokens, NEW words
  PROVE  Spots(Tie(a, b), words) = Spots(a, words) \cup {Len(a) + k : k \in Spots(b, words)}
<1> DEFINE ab == Tie(a, b)
<1>1. /\ Len(ab) = Len(a) + Len(b) /\ Len(a) \in Nat /\ Len(b) \in Nat
      /\ \A i \in 1 .. Len(a) : ab[i] = a[i]
      /\ \A k \in 1 .. Len(b) : ab[Len(a) + k] = b[k]
  BY Joined DEF Tie
<1> HIDE DEF ab
<1>2. ASSUME NEW i \in Spots(ab, words)
      PROVE  i \in Spots(a, words) \/ \E k \in Spots(b, words) : i = Len(a) + k
  <2>1. i \in 1 .. Len(ab) /\ ab[i] \in words
    BY DEF Spots
  <2>2. CASE i \in 1 .. Len(a)
    BY <1>1, <2>1, <2>2 DEF Spots
  <2>3. CASE i \notin 1 .. Len(a)
    <3> DEFINE k == i - Len(a)
    <3>1. k \in 1 .. Len(b) /\ Len(a) + k = i
      BY <1>1, <2>1, <2>3
    <3> HIDE DEF k
    <3>2. b[k] \in words
      BY <1>1, <2>1, <3>1
    <3> QED
      BY <3>1, <3>2 DEF Spots
  <2> QED
    BY <2>2, <2>3
<1>3. ASSUME NEW i \in Spots(a, words) PROVE i \in Spots(ab, words)
  BY <1>1 DEF Spots
<1>4. ASSUME NEW k \in Spots(b, words) PROVE Len(a) + k \in Spots(ab, words)
  <2>1. k \in 1 .. Len(b) /\ b[k] \in words
    BY DEF Spots
  <2>2. Len(a) + k \in 1 .. Len(ab) /\ ab[Len(a) + k] = b[k]
    BY <1>1, <2>1
  <2> QED
    BY <2>1, <2>2 DEF Spots
<1> QED
  BY <1>2, <1>3, <1>4 DEF ab

\* Nowhere, if they do not occur.
LEMMA NoSpots ==
  ASSUME NEW ts, NEW words
  PROVE  Without(ts, words) <=> Spots(ts, words) = {}
  BY DEF Without, Spots

\* At one place, if one word between the parts is one of them.
LEMMA OneSpot ==
  ASSUME NEW a \in Tokens, NEW x \in Tokens, NEW b \in Tokens, NEW words,
         Len(x) = 1, x[1] \in words, Without(a, words), Without(b, words)
  PROVE  Spots(Tie(Tie(a, x), b), words) = {Len(a) + 1}
<1>1. Spots(a, words) = {} /\ Spots(b, words) = {}
  BY NoSpots
<1>2. Spots(x, words) = {1}
  BY DEF Spots
<1>3. Tie(a, x) \in Tokens
  BY Tied
<1>4. Spots(Tie(a, x), words) = {Len(a) + 1}
  BY <1>1, <1>2, SpotsJoined
<1> QED
  BY <1>1, <1>3, <1>4, SpotsJoined

\* The same of the words that stand outside brackets.
LEMMA TopJoined ==
  ASSUME NEW a \in Tokens, NEW b \in Tokens, Level(a), NEW words
  PROVE  AtTop(Tie(a, b), words) = AtTop(a, words) \cup {Len(a) + k : k \in AtTop(b, words)}
<1> DEFINE ab == a \o b
<1>1. /\ \A i \in 1 .. Len(a) : i \in AtTop(ab, words) <=> i \in AtTop(a, words)
      /\ \A k \in 1 .. Len(b) : Len(a) + k \in AtTop(ab, words) <=> k \in AtTop(b, words)
  BY JoinedTop
<1>5. Tie(a, b) = ab
  BY DEF Tie
<1>2. Len(ab) = Len(a) + Len(b) /\ Len(a) \in Nat /\ Len(b) \in Nat
  BY Joined
<1> HIDE DEF ab
<1>3. \A t : AtTop(t, words) \subseteq 1 .. Len(t)
  BY DEF AtTop
<1>4. ASSUME NEW i \in AtTop(ab, words)
      PROVE  i \in AtTop(a, words) \/ \E k \in AtTop(b, words) : i = Len(a) + k
  <2>1. i \in 1 .. Len(ab)
    BY <1>3
  <2>2. CASE i \in 1 .. Len(a)
    BY <1>1, <2>2
  <2>3. CASE i \notin 1 .. Len(a)
    <3> DEFINE k == i - Len(a)
    <3>1. k \in 1 .. Len(b) /\ Len(a) + k = i
      BY <1>2, <2>1, <2>3
    <3> HIDE DEF k
    <3> QED
      BY <1>1, <3>1
  <2> QED
    BY <2>2, <2>3
<1> QED
  BY <1>1, <1>3, <1>4, <1>5

EndMark == "<end>"

\* Tok with its literal folded.
LEMMA TokIs ==
  ASSUME NEW ts, NEW i
  PROVE  Tok(ts, i) = IF i \in 1 .. Len(ts) THEN ts[i] ELSE EndMark
  BY Zenon DEF Tok, EndMark

\* A token behind a part, or the end.
LEMMA TokBehind ==
  ASSUME NEW a \in Tokens, NEW b \in Tokens, NEW k \in Nat \ {0}
  PROVE  Tok(Tie(a, b), Len(a) + k) = Tok(b, k)
<1> DEFINE ab == Tie(a, b)
<1>1. /\ Len(ab) = Len(a) + Len(b) /\ Len(a) \in Nat /\ Len(b) \in Nat
      /\ \A n \in 1 .. Len(b) : ab[Len(a) + n] = b[n]
  BY Joined DEF Tie
<1> HIDE DEF ab
<1>2. Len(a) + k \in 1 .. Len(ab) <=> k \in 1 .. Len(b)
  BY <1>1
<1> QED
  BY <1>1, <1>2, TokIs DEF ab

\* What a part that may be left out starts with.
Opens(v, words) == v = <<>> \/ v[1] \in words

\* Two parts start as one of them does.
LEMMA OpensJoined ==
  ASSUME NEW a \in Tokens, NEW b \in Tokens, NEW words, Opens(a, words), Opens(b, words)
  PROVE  Opens(Tie(a, b), words)
<1>1. CASE a = <<>>
  <2>1. Tie(<<>>, b) = b
    BY ConcatEmptySeq DEF Tie, Tokens
  <2> QED
    BY <1>1, <2>1
<1>2. CASE a # <<>>
  <2>1. 1 \in 1 .. Len(a)
    BY <1>2, EmptySeq DEF Tokens
  <2>2. \A i \in 1 .. Len(a) : Tie(a, b)[i] = a[i]
    BY Joined DEF Tie
  <2> QED
    BY <1>2, <2>1, <2>2 DEF Opens
<1> QED
  BY <1>1, <1>2

\* An optional part starts with its word.
LEMMA OptOpens ==
  ASSUME NEW w \in Words, NEW s \in Tokens
  PROVE  Opens(Opt(<<w>>, s), {w})
<1> DEFINE o == <<w>>
<1>1. o \in Tokens /\ Len(o) = 1 /\ o[1] = w
  BY OneToken
<1> HIDE DEF o
<1>2. Opens(o, {w}) /\ o # <<>>
  BY <1>1, EmptySeq DEF Opens
<1>3. CASE s = <<>>
  BY <1>3 DEF Opt, Opens
<1>4. CASE s # <<>>
  <2>1. Opt(o, s) = Tie(o, s)
    BY <1>4 DEF Opt, Tie
  <2>2. \A i \in 1 .. Len(o) : Tie(o, s)[i] = o[i]
    BY <1>1, Joined DEF Tie
  <2> QED
    BY <1>1, <2>1, <2>2 DEF Opens, o
<1> QED
  BY <1>3, <1>4

\* Words that the sandbox refuses or takes for the start of a table or query.
Prohibited == Forbidden \cup {"for", "select", "from", "join"}

\* A name, and one that may be in quotes.
IsAlias(x) == x \in Names \/ \E n \in Names : x = Quote[n]

\* What may follow the name of a table: one in quotes stands behind AS.
AsAlias(al) ==
  \/ al = <<>>
  \/ LastOf(al) \in Names /\ al = <<LastOf(al)>>
  \/ IsAlias(LastOf(al)) /\ al = <<"as", LastOf(al)>>

\* A query in the words of the accepted subset: its names are names, a join has
\* an ON, and a name in the condition is qualified by that of the table or not
\* at all.
Ordinary(q) ==
  /\ Proper(q)
  /\ {q.cols, q.from, q.alias, q.join, q.where, q.limit, q.rest} \subseteq Typed
  /\ \A part \in {q.cols, q.from, q.alias, q.join, q.where} : Without(part, Prohibited)
  /\ AsAlias(q.alias) /\ Without(q.from, {"."})
  /\ q.join # <<>> =>
       /\ Len(q.join) >= 3 /\ Without(q.join, {","})
       /\ q.join[1] # "(" /\ q.join[2] \notin {".", "("} /\ (q.join[2] = "as" => Len(q.join) >= 4)
  /\ \A i \in 1 .. Len(q.where) : q.where[i] = "." => i > 1 /\ q.where[i - 1] = Visible(q)

Word(w) == <<w>>

\* A word alone.
LEMMA WordIs ==
  ASSUME NEW w \in Words
  PROVE  Word(w) \in Tokens /\ Len(Word(w)) = 1 /\ Word(w)[1] = w
  BY OneToken DEF Word

SelectPart(q) == Tie(Word("select"), Between(q.cols, ","))
FromPart(q)   == Between(q.from, ".")
After(q)      == Tie(JoinPart(q), Tie(WherePart(q), TailPart(q)))

\* How the statement is put together that the sandbox works on.
LEMMA BodyIsTied ==
  ASSUME NEW q, Proper(q)
  PROVE  /\ Body(q) = Tie(Front(q), After(q)) /\ Body(q) = Tie(Start(q), Tie(WherePart(q), TailPart(q)))
         /\ Front(q) = Tie(UpToTable(q), q.alias)
         /\ UpToTable(q) = Tie(UpToFrom(q), FromPart(q))
         /\ UpToFrom(q) = Tie(SelectPart(q), Word("from"))
         /\ {Body(q), Front(q), Start(q), After(q), UpToTable(q), UpToFrom(q), SelectPart(q), FromPart(q), q.alias,
             JoinPart(q), WherePart(q), TailPart(q), SortedPart(q), LimitPart(q)} \subseteq Tokens
<1> DEFINE f == Front(q)
           j == JoinPart(q)
           w == WherePart(q)
           t == TailPart(q)
           st == Start(q)
           c  == q.where
<1>1. /\ f \in Tokens /\ st \in Tokens /\ t \in Tokens /\ Body(q) \in Tokens
      /\ SortedPart(q) \in Tokens /\ LimitPart(q) \in Tokens
  BY FrontIsPlain, StartIsPlain, TextIs, SortedShape, LimitShape
<1>2. "join" \in Words /\ "where" \in Words /\ "select" \in Words /\ "from" \in Words /\ "," \in Words /\ "." \in Words
      /\ "join" \notin {"(", ")"} /\ "where" \notin {"(", ")"}
  BY Literals
<1>3. /\ q.join \in Tokens /\ Balanced(q.join) /\ c \in Tokens /\ Balanced(c)
      /\ q.cols \in Tokens /\ q.from \in Tokens /\ q.alias \in Tokens
  BY DEF Proper
<1>4. j \in Tokens /\ w \in Tokens /\ (c # <<>> => w = Tie(Where, c)) /\ (c = <<>> => w = <<>>)
  BY <1>2, <1>3, OptShape DEF JoinPart, WherePart, Where, Opt
<1>5. /\ Front(q) = Tie(UpToTable(q), q.alias)
      /\ UpToTable(q) = Tie(UpToFrom(q), FromPart(q))
      /\ UpToFrom(q) = Tie(SelectPart(q), Word("from"))
  BY Zenon DEF Front, UpToTable, UpToFrom, SelectPart, FromPart, Tie, Word
<1>6. SelectPart(q) \in Tokens /\ FromPart(q) \in Tokens /\ UpToFrom(q) \in Tokens /\ UpToTable(q) \in Tokens
  <2>1. /\ Word("select") \in Tokens /\ Word("from") \in Tokens
        /\ Between(q.cols, ",") \in Tokens /\ Between(q.from, ".") \in Tokens
    BY <1>2, <1>3, WordIs, MarkedTokens
  <2>2. SelectPart(q) \in Tokens /\ FromPart(q) \in Tokens
    BY <2>1, Tied DEF SelectPart, FromPart
  <2>3. UpToFrom(q) \in Tokens
    <3>1. Tie(SelectPart(q), Word("from")) \in Tokens
      BY <2>1, <2>2, Tied
    <3> QED
      BY <1>5, <3>1
  <2> QED
    BY <1>5, <2>2, <2>3, Tied
<1>7. st = Tie(f, j)
  BY DEF Start
<1>8. Body(q) = IF c = <<>> THEN Tie(st, t) ELSE Tie(Tie(Tie(st, Where), c), t)
  BY Zenon DEF Body, Frame, Tie
<1>9. Where \in Tokens
  BY WhereShape
<1> HIDE DEF f, j, w, t, st, c
<1>10. Body(q) = Tie(st, Tie(w, t))
  <2>1. CASE c = <<>>
    <3>1. Tie(<<>>, t) = t
      BY <1>1, ConcatEmptySeq DEF Tie, Tokens
    <3> QED
      BY <1>4, <1>8, <2>1, <3>1
  <2>2. CASE c # <<>>
    <3>1. Tie(Tie(st, Where), c) = Tie(st, w)
      BY <1>1, <1>3, <1>4, <1>9, <2>2, Tied
    <3>2. Tie(Tie(st, w), t) = Tie(st, Tie(w, t))
      BY <1>1, <1>4, Tied
    <3> QED
      BY <1>8, <2>2, <3>1, <3>2
  <2> QED
    BY <2>1, <2>2
<1>11. After(q) = Tie(j, Tie(w, t))
  BY DEF After, j, w, t
<1>12. Tie(w, t) \in Tokens /\ After(q) \in Tokens
  <2>1. Tie(w, t) \in Tokens
    BY <1>1, <1>4, Tied
  <2> QED
    BY <1>4, <1>11, <2>1, Tied
<1>13. Body(q) = Tie(f, After(q))
  BY <1>1, <1>4, <1>7, <1>10, <1>11, <1>12, Tied
<1> QED
  BY <1>1, <1>3, <1>4, <1>5, <1>6, <1>10, <1>12, <1>13 DEF f, j, w, t, st

\* The parts have none of the words that start a table or a query.
LEMMA PartsWithout ==
  ASSUME NEW q, Ordinary(q), q.limit # <<>> => q.limit[1] \in Numerals
  PROVE  LET words == Prohibited \cup {Semicolon}
         IN  /\ Without(Between(q.cols, ","), words) /\ Without(FromPart(q), words) /\ Without(q.alias, words)
             /\ Without(q.join, words) /\ Without(WherePart(q), words) /\ Without(TailPart(q), words)
<1> DEFINE words == Prohibited \cup {Semicolon}
<1>1. Proper(q)
  BY DEF Ordinary
<1>2. \A w \in {",", ".", "where", "order", "by", "id", "limit"} \cup Numerals : w \notin words
  BY Zenon DEF Prohibited, Forbidden, Semicolon, Numerals
<1>3. Semicolon \in Marks
  BY DEF Marks
<1>4. /\ q.cols \in Tokens /\ q.from \in Tokens /\ q.alias \in Tokens /\ q.join \in Tokens /\ q.where \in Tokens
      /\ Balanced(q.where)
      /\ Without(q.cols, {Semicolon}) /\ Without(q.from, {Semicolon}) /\ Without(q.alias, {Semicolon})
      /\ Without(q.join, {Semicolon}) /\ Without(q.where, {Semicolon})
  BY <1>1, <1>3 DEF Proper, Without
<1>5. /\ Without(q.cols, Prohibited) /\ Without(q.from, Prohibited) /\ Without(q.alias, Prohibited)
      /\ Without(q.join, Prohibited) /\ Without(q.where, Prohibited)
  BY DEF Ordinary
<1>6. /\ Without(q.cols, words) /\ Without(q.from, words) /\ Without(q.alias, words)
      /\ Without(q.join, words) /\ Without(q.where, words)
  BY <1>4, <1>5 DEF Without
<1>7. "," \in Words /\ "." \in Words /\ "where" \in Words /\ "where" \notin {"(", ")"}
  BY Literals
<1>8. "," \notin words /\ "." \notin words /\ "where" \notin words /\ "limit" \notin words
  BY <1>2
<1>9. Without(SortedPart(q), words)
  <2> DEFINE s == <<"order", "by", "id">>
  <2>1. SortedPart(q) = IF q.sorted THEN s ELSE <<>>
    BY DEF SortedPart
  <2>2. Len(s) = 3 /\ s[1] \notin words /\ s[2] \notin words /\ s[3] \notin words
    BY <1>2
  <2>3. \A i \in 1 .. 3 : i = 1 \/ i = 2 \/ i = 3
    OBVIOUS
  <2> HIDE DEF s, words
  <2>4. Without(s, words) /\ Without(<<>>, words)
    BY <2>2, <2>3 DEF Without
  <2> QED
    BY <2>1, <2>4
<1>10. Without(LimitPart(q), words)
  <2>1. CASE q.limit = <<>>
    <3>1. LimitPart(q) = <<>>
      BY <1>1, <2>1, LimitShape
    <3> QED
      BY <3>1 DEF Without
  <2>2. CASE q.limit # <<>>
    <3> DEFINE n == q.limit[1]
               l == <<"limit", n>>
    <3>1. LimitPart(q) = l
      BY <1>1, <2>2, LimitShape
    <3>2. n \notin words
      BY <1>2, <2>2
    <3>3. Len(l) = 2 /\ l[1] = "limit" /\ l[2] = n
      OBVIOUS
    <3>4. \A i \in 1 .. 2 : i = 1 \/ i = 2
      OBVIOUS
    <3> HIDE DEF l, n, words
    <3> QED
      BY <1>8, <3>1, <3>2, <3>3, <3>4 DEF Without
  <2> QED
    BY <2>1, <2>2
<1> HIDE DEF words
<1>11. Without(Between(q.cols, ","), words) /\ Without(FromPart(q), words)
  BY <1>4, <1>6, <1>7, <1>8, WithoutMarked DEF FromPart
<1>12. Without(WherePart(q), words)
  BY <1>4, <1>6, <1>7, <1>8, OptShape DEF WherePart
<1>13. Without(TailPart(q), words)
  BY <1>1, <1>9, <1>10, SortedShape, LimitShape, Tied DEF TailPart
<1> QED
  BY <1>6, <1>11, <1>12, <1>13 DEF words

Heads == {"join", "where", "order", "limit"}

\* What is behind the alias starts with a reserved word.
LEMMA AfterOpens ==
  ASSUME NEW q, Proper(q)
  PROVE  /\ After(q) \in Tokens /\ Opens(After(q), Heads)
<1>1. /\ JoinPart(q) \in Tokens /\ WherePart(q) \in Tokens /\ SortedPart(q) \in Tokens /\ LimitPart(q) \in Tokens
      /\ TailPart(q) \in Tokens /\ After(q) \in Tokens
  BY BodyIsTied
<1>2. "join" \in Words /\ "where" \in Words /\ q.join \in Tokens /\ q.where \in Tokens
  BY Literals DEF Proper
<1>3. \A v : (Opens(v, {"join"}) \/ Opens(v, {"where"})) => Opens(v, Heads)
  BY DEF Opens, Heads
<1>4. Opens(JoinPart(q), Heads) /\ Opens(WherePart(q), Heads)
  BY <1>2, <1>3, OptOpens DEF JoinPart, WherePart
<1>5. Opens(SortedPart(q), Heads) /\ Opens(LimitPart(q), Heads)
  <2>1. "order" \in Heads /\ "limit" \in Heads
    BY DEF Heads
  <2> QED
    BY <2>1, SortedShape, LimitShape DEF Opens
<1>6. Opens(TailPart(q), Heads)
  BY <1>1, <1>5, OpensJoined DEF TailPart
<1>7. Tie(WherePart(q), TailPart(q)) \in Tokens /\ Opens(Tie(WherePart(q), TailPart(q)), Heads)
  BY <1>1, <1>4, <1>6, OpensJoined, Tied
<1> QED
  BY <1>1, <1>4, <1>7, OpensJoined DEF After

\* An alias is a word, no symbol and no word of SQL.
LEMMA AliasIsWord ==
  ASSUME NEW x, IsAlias(x)
  PROVE  x \in Words /\ x \notin SqlWords /\ x \notin Symbols /\ Unquote(x) \in Names
<1>1. CASE x \in Names
  <2>1. x \in Unquoted /\ x \notin SqlWords /\ x \notin Symbols
    BY <1>1, WordFacts DEF Unquoted
  <2> QED
    BY <1>1, <2>1, QuotedIs
<1>2. CASE \E n \in Names : x = Quote[n]
  <2>1. PICK n \in Names : x = Quote[n]
    BY <1>2
  <2>2. n \in Unquoted
    BY DEF Unquoted
  <2>3. x \in Words /\ x \notin Unquoted /\ Unquote(x) = n
    BY <2>1, <2>2, QuotedIs
  <2> QED
    BY <2>3 DEF Unquoted
<1> QED
  BY <1>1, <1>2 DEF IsAlias

\* A query in the words of the accepted subset is regular.
LEMMA OrdinaryIsRegular ==
  ASSUME NEW q, Ordinary(q)
  PROVE  Regular(q)
<1>1. /\ {q.cols, q.from, q.alias, q.join, q.where, q.limit, q.rest} \subseteq Tokens
      /\ q.from # <<>> /\ Without(q.from, Marks)
      /\ Without(q.join, {"where", Semicolon} \cup Closing)
      /\ q.rest = <<>> \/ q.rest = <<Semicolon>>
  BY DEF Ordinary, Proper
<1>2. Semicolon \in Marks
  BY DEF Marks
<1>3. LastOf(q.from) # Semicolon
  <2>1. Len(q.from) \in 1 .. Len(q.from)
    BY <1>1, EmptySeq DEF Tokens
  <2> QED
    BY <1>1, <1>2, <2>1 DEF LastOf, Without
<1>4. NoDot(q.alias)
  <2>1. q.alias = <<>> \/ \E x : IsAlias(x) /\ (q.alias = <<x>> \/ q.alias = <<"as", x>>)
    BY DEF Ordinary, AsAlias, IsAlias
  <2>2. ASSUME NEW x, IsAlias(x) PROVE x # "."
    BY <2>2, AliasIsWord DEF Symbols
  <2>3. \A x : <<x>>[1] = x /\ <<"as", x>>[1] = "as" /\ "as" # "."
    OBVIOUS
  <2> QED
    BY <2>1, <2>2, <2>3, Zenon DEF NoDot
<1>5. NoDot(q.rest) /\ Len(q.rest) \in {0, 1}
  <2>1. Semicolon # "."
    BY Zenon DEF Semicolon
  <2>2. CASE q.rest = <<>>
    BY <2>2 DEF NoDot
  <2>3. CASE q.rest = <<Semicolon>>
    <3>1. Len(q.rest) = 1 /\ q.rest[1] = Semicolon
      BY <2>3
    <3> QED
      BY <2>1, <3>1 DEF NoDot
  <2> QED
    BY <1>1, <2>2, <2>3
<1>6. q.join # <<>> => q.join[1] # Semicolon /\ q.join[2] # "."
  <2> SUFFICES ASSUME q.join # <<>> PROVE q.join[1] # Semicolon /\ q.join[2] # "."
    OBVIOUS
  <2>1. 1 \in 1 .. Len(q.join)
    BY <1>1, EmptySeq DEF Tokens
  <2>2. q.join[2] # "."
    BY DEF Ordinary
  <2> QED
    BY <1>1, <2>1, <2>2 DEF Without
<1>7. \A i : i \notin 1 .. Len(q.rest) - 1
  <2>1. \A n \in {0, 1} : 1 .. n - 1 = {}
    OBVIOUS
  <2> QED
    BY <1>5, <2>1
<1>8. {q.cols, q.from, q.alias, q.join, q.where, q.limit, q.rest} \subseteq Typed
  BY DEF Ordinary
<1> QED
  BY <1>1, <1>3, <1>4, <1>5, <1>6, <1>7, <1>8, Zenon DEF Regular, Semicolon

\* Where the scan finds the first table of a query.
LEMMA FirstTable ==
  ASSUME NEW q, Ordinary(q)
  PROVE  /\ NameAt(Body(q), Len(UpToFrom(q)), q.from)
         /\ NameEnd(Body(q), Len(UpToFrom(q))) = Len(UpToTable(q))
         /\ Len(UpToFrom(q)) \in Nat /\ Len(UpToTable(q)) \in Nat /\ Len(UpToFrom(q)) < Len(UpToTable(q))
<1> DEFINE p  == Len(UpToFrom(q))
           t1 == UpToTable(q)
           al == q.alias
           af == After(q)
<1>1. Proper(q) /\ Regular(q)
  BY OrdinaryIsRegular DEF Ordinary
<1>2. /\ UpToFrom(q) \in Tokens /\ UpToFrom(q) # <<>> /\ UpToFrom(q)[p] = "from"
      /\ q.from \in Tokens /\ q.from # <<>> /\ q.from[Len(q.from)] # Semicolon
      /\ al \in Tokens /\ NoDot(al)
  BY <1>1, PartsAreTokens
<1>3. NameAt(t1, p, q.from)
  BY <1>2, NameBehind DEF UpToTable
<1>4. /\ Body(q) = Tie(Tie(t1, al), af) /\ t1 \in Tokens /\ af \in Tokens
      /\ t1 = Tie(UpToFrom(q), FromPart(q)) /\ FromPart(q) \in Tokens
  BY <1>1, BodyIsTied
<1>5. NoDot(af)
  <2>1. "." \notin Heads
    BY DEF Heads
  <2> QED
    BY <1>1, <2>1, AfterOpens DEF Opens, NoDot
<1>6. Len(FromPart(q)) = 2 * Len(q.from) - 1
  <2>1. "." \in Words
    BY Literals
  <2> QED
    BY <1>2, <2>1, MarkedTokens DEF FromPart
<1>7. Len(t1) = p + (2 * Len(q.from) - 1) /\ p \in Nat
  <2> DEFINE u == UpToFrom(q)
             n == FromPart(q)
  <2>1. u \in Tokens /\ n \in Tokens /\ t1 = Tie(u, n)
    BY <1>2, <1>4
  <2> HIDE DEF u, n
  <2>2. Len(Tie(u, n)) = Len(u) + Len(n) /\ Len(u) \in Nat
    BY <2>1, Tied DEF Tokens
  <2>3. p = Len(u) /\ Len(n) = 2 * Len(q.from) - 1
    BY <1>6 DEF u, n
  <2> HIDE DEF t1, p
  <2> QED
    BY <2>1, <2>2, <2>3
<1> HIDE DEF p, t1, al, af
<1>8. NameAt(Tie(t1, al), p, q.from)
  BY <1>2, <1>3, NameStays DEF Tie
<1>9. NameAt(Tie(Tie(t1, al), af), p, q.from)
  <2> DEFINE u == Tie(t1, al)
  <2> HIDE DEF u
  <2>1. NameAt(u, p, q.from)
    BY <1>8 DEF u
  <2>2. NameAt(Tie(u, af), p, q.from)
    BY <1>4, <1>5, <2>1, NameStays DEF Tie
  <2> QED
    BY <2>2 DEF u
<1>10. NameAt(Body(q), p, q.from)
  BY <1>4, <1>9
<1>11. NameEnd(Body(q), p) = p + 2 * Len(q.from) - 1
  BY <1>10, NameIsRead
<1>12. Len(q.from) \in Nat \ {0}
  BY <1>2 DEF Tokens
<1> QED
  BY <1>7, <1>10, <1>11, <1>12 DEF p, t1


\* AliasAt with its literals folded.
LEMMA AliasIs ==
  ASSUME NEW ts, NEW p
  PROVE  AliasAt(ts, p) = IF HasAs(ts, p) THEN Unquote(Tok(ts, NameEnd(ts, p) + 2))
                          ELSE IF /\ IsIdentifier(Tok(ts, NameEnd(ts, p) + 1))
                                  /\ Tok(ts, NameEnd(ts, p) + 1) \notin Reserved
                               THEN Tok(ts, NameEnd(ts, p) + 1) ELSE NoName
  BY Zenon DEF AliasAt, NoName

\* No word of a statement is the mark of its end, and no name is empty.
LEMMA MarksAreNoNames ==
  EndMark \notin Names /\ EndMark \notin SqlWords /\ NoName \notin Names
<1>1. Names \cap (SqlWords \cup Symbols \cup Numerals \cup {NoName, EndMark}) = {}
  BY WordsAssumption, Zenon DEF NoName, EndMark
<1>2. EndMark \notin SqlWords
  BY Zenon DEF EndMark, SqlWords, Forbidden, Reserved
<1> QED
  BY <1>1, <1>2

\* TableEnd with its literal folded.
LEMMA TableEndIs ==
  ASSUME NEW ts, NEW p
  PROVE  TableEnd(ts, p) = NameEnd(ts, p) + (IF HasAs(ts, p) THEN 2 ELSE IF AliasAt(ts, p) = NoName THEN 0 ELSE 1)
  BY Zenon DEF TableEnd, NoName

NoComma(ts, p) == Tok(ts, TableEnd(ts, p) + 1) # ","

\* What the scan makes of an alias.
LEMMA AliasSeen ==
  ASSUME NEW a \in Tokens, NEW al \in Tokens, NEW z \in Tokens, NEW ts, ts = Tie(Tie(a, al), z),
         NEW p, NameEnd(ts, p) = Len(a), Opens(z, Heads),
         AsAlias(al)
  PROVE  /\ AliasAt(ts, p) = IF al = <<>> THEN NoName ELSE Unquote(LastOf(al))
         /\ al # <<>> => Unquote(LastOf(al)) # NoName
         /\ TableEnd(ts, p) = Len(a) + Len(al) /\ Tok(ts, Len(a) + 1) # "("
         /\ NoComma(ts, p)
<1> DEFINE e == Len(a)
           y == Tie(al, z)
<1>1. /\ ts = Tie(a, y) /\ y \in Tokens /\ e \in Nat
  BY Tied DEF Tokens
<1>2. ASSUME NEW k \in Nat \ {0} PROVE Tok(ts, e + k) = Tok(y, k) /\ Tok(y, Len(al) + k) = Tok(z, k)
  <2>1. Tok(y, Len(al) + k) = Tok(z, k)
    BY TokBehind
  <2> HIDE DEF y
  <2>2. Tok(Tie(a, y), Len(a) + k) = Tok(y, k)
    BY <1>1, TokBehind
  <2> QED
    BY <1>1, <2>1, <2>2
<1>3. Tok(z, 1) \in Heads \cup {EndMark}
  <2>1. CASE z = <<>>
    BY <2>1, TokIs
  <2>2. CASE z # <<>>
    <3>1. 1 \in 1 .. Len(z)
      BY <2>2, EmptySeq DEF Tokens
    <3> QED
      BY <2>2, <3>1, TokIs DEF Opens
  <2> QED
    BY <2>1, <2>2
<1>4. ASSUME NEW w \in Heads \cup {EndMark}
      PROVE  w \notin {"(", ",", "as"} /\ (~IsIdentifier(w) \/ w \in Reserved)
  <2>1. w \notin {"(", ",", "as"} /\ (w = EndMark \/ w \in Reserved)
    BY Zenon DEF Heads, EndMark, Reserved
  <2> QED
    BY <2>1, MarksAreNoNames DEF IsIdentifier
<1>5. ASSUME NEW x, IsAlias(x)
      PROVE  /\ x \notin {"(", ",", "as"} /\ x \notin Reserved /\ Unquote(x) # NoName
             /\ x \in Names => IsIdentifier(x) /\ Unquote(x) = x
  <2>1. x \in Words /\ x \notin SqlWords /\ x \notin Symbols /\ Unquote(x) \in Names
    BY <1>5, AliasIsWord
  <2>2. Reserved \subseteq SqlWords /\ "as" \in SqlWords /\ "(" \in Symbols /\ "," \in Symbols
    BY Zenon DEF SqlWords, Symbols
  <2>3. x \in Names => Unquote(x) = x
    BY QuotedIs DEF Unquoted
  <2> QED
    BY <2>1, <2>2, <2>3, MarksAreNoNames DEF IsIdentifier
<1>6. HasAs(ts, p) <=> Tok(ts, e + 1) = "as"
  BY DEF HasAs
<1> HIDE DEF e, y
<1>7. Tok(ts, e + 1) = Tok(y, 1) /\ Tok(ts, e + 2) = Tok(y, 2) /\ Tok(ts, e + 3) = Tok(y, 3)
  BY <1>2
<1>8. Tok(y, Len(al) + 1) = Tok(z, 1)
  BY <1>2
<1>9. \A k \in 1 .. Len(al) : Tok(y, k) = al[k]
  <2>1. /\ Len(y) = Len(al) + Len(z) /\ Len(al) \in Nat /\ Len(z) \in Nat
        /\ \A k \in 1 .. Len(al) : y[k] = al[k]
    <3>1. /\ Len(Tie(al, z)) = Len(al) + Len(z) /\ Len(al) \in Nat /\ Len(z) \in Nat
          /\ \A k \in 1 .. Len(al) : Tie(al, z)[k] = al[k]
      BY Joined DEF Tie
    <3> QED
      BY <3>1 DEF y
  <2> QED
    BY <2>1, TokIs
<1>10. NameEnd(ts, p) = e
  BY DEF e
<1>11. AliasAt(ts, p) = IF HasAs(ts, p) THEN Unquote(Tok(ts, e + 2))
                        ELSE IF IsIdentifier(Tok(ts, e + 1)) /\ Tok(ts, e + 1) \notin Reserved
                             THEN Tok(ts, e + 1) ELSE NoName
  BY <1>10, AliasIs
<1>12. TableEnd(ts, p) = e + (IF HasAs(ts, p) THEN 2 ELSE IF AliasAt(ts, p) = NoName THEN 0 ELSE 1)
  BY <1>10, TableEndIs
<1>13. CASE al = <<>>
  <2>1. Len(al) = 0 /\ Tok(y, 1) = Tok(z, 1)
    BY <1>8, <1>13
  <2>2. Tok(ts, e + 1) \in Heads \cup {EndMark}
    BY <1>3, <1>7, <2>1
  <2>3. ~HasAs(ts, p) /\ Tok(ts, e + 1) # "(" /\ Tok(ts, e + 1) # ","
    BY <1>4, <1>6, <2>2
  <2>4. AliasAt(ts, p) = NoName
    BY <1>4, <1>11, <2>2, <2>3
  <2>5. TableEnd(ts, p) = e + 0
    BY <1>12, <2>3, <2>4
  <2>6. e + 0 = e
    BY <1>1
  <2>7. TableEnd(ts, p) = e /\ e + Len(al) = e
    BY <2>1, <2>5, <2>6
  <2>8. NoComma(ts, p)
    BY <2>3, <2>7 DEF NoComma
  <2> QED
    BY <1>13, <2>3, <2>4, <2>7, <2>8 DEF e
<1>14. ASSUME NEW x, x \in Names, al = <<x>>
       PROVE  /\ AliasAt(ts, p) = Unquote(x) /\ Unquote(x) # NoName /\ TableEnd(ts, p) = e + 1 /\ LastOf(al) = x /\ Len(al) = 1
              /\ Tok(ts, e + 1) # "(" /\ Tok(ts, e + 2) # "," /\ al # <<>>
  <2>1. Len(al) = 1 /\ al[1] = x /\ LastOf(al) = x /\ al # <<>>
    BY <1>14 DEF LastOf
  <2>2. Tok(ts, e + 1) = x /\ Tok(ts, e + 2) \in Heads \cup {EndMark}
    BY <1>3, <1>7, <1>8, <1>9, <2>1
  <2>3. /\ x \notin {"(", ",", "as"} /\ Unquote(x) # NoName /\ Unquote(x) = x
        /\ IsIdentifier(x) /\ x \notin Reserved
    BY <1>5, <1>14 DEF IsAlias
  <2>4. ~HasAs(ts, p) /\ AliasAt(ts, p) = Unquote(x)
    BY <1>6, <1>11, <2>2, <2>3
  <2>5. TableEnd(ts, p) = e + 1
    BY <1>12, <2>3, <2>4
  <2> QED
    BY <1>4, <2>1, <2>2, <2>3, <2>4, <2>5
<1>15. ASSUME NEW x, IsAlias(x), al = <<"as", x>>
       PROVE  /\ AliasAt(ts, p) = Unquote(x) /\ Unquote(x) # NoName /\ TableEnd(ts, p) = e + 2 /\ LastOf(al) = x /\ Len(al) = 2
              /\ Tok(ts, e + 1) # "(" /\ Tok(ts, e + 3) # "," /\ al # <<>>
  <2>1. Len(al) = 2 /\ al[1] = "as" /\ al[2] = x /\ LastOf(al) = x /\ al # <<>>
    BY <1>15 DEF LastOf
  <2>2. Tok(ts, e + 1) = "as" /\ Tok(ts, e + 2) = x /\ Tok(ts, e + 3) \in Heads \cup {EndMark}
    BY <1>3, <1>7, <1>8, <1>9, <2>1
  <2>3. Unquote(x) # NoName
    BY <1>5, <1>15
  <2>4. HasAs(ts, p) /\ AliasAt(ts, p) = Unquote(x)
    BY <1>6, <1>11, <2>2
  <2>5. TableEnd(ts, p) = e + 2
    BY <1>12, <2>4
  <2> QED
    BY <1>4, <2>1, <2>2, <2>3, <2>4, <2>5
<1>16. CASE \E x : (x \in Names /\ al = <<x>>) \/ (IsAlias(x) /\ al = <<"as", x>>)
  <2>1. PICK x : (x \in Names /\ al = <<x>>) \/ (IsAlias(x) /\ al = <<"as", x>>)
    BY <1>16
  <2>2. CASE x \in Names /\ al = <<x>>
    <3>1. e + 1 + 1 = e + 2
      BY <1>1
    <3>2. NoComma(ts, p)
      BY <1>14, <2>1, <2>2, <3>1 DEF NoComma
    <3> QED
      BY <1>14, <2>1, <2>2, <3>2 DEF e
  <2>3. CASE IsAlias(x) /\ al = <<"as", x>>
    <3>1. e + 2 + 1 = e + 3
      BY <1>1
    <3>2. NoComma(ts, p)
      BY <1>15, <2>1, <2>3, <3>1 DEF NoComma
    <3> QED
      BY <1>15, <2>1, <2>3, <3>2 DEF e
  <2> QED
    BY <2>1, <2>2, <2>3
<1>17. AsAlias(al) => al = <<>> \/ \E x : (x \in Names /\ al = <<x>>) \/ (IsAlias(x) /\ al = <<"as", x>>)
  <2> DEFINE x == LastOf(al)
  <2>1. AsAlias(al) => al = <<>> \/ (x \in Names /\ al = <<x>>) \/ (IsAlias(x) /\ al = <<"as", x>>)
    BY Zenon DEF AsAlias
  <2> HIDE DEF x
  <2> QED
    BY <2>1
<1> QED
  BY <1>13, <1>16, <1>17

\* Where a word alone is one of some words.
LEMMA WordSpots ==
  ASSUME NEW w \in Words, NEW words
  PROVE  Spots(Word(w), words) = IF w \in words THEN {1} ELSE {}
<1>1. Len(Word(w)) = 1 /\ Word(w)[1] = w
  BY WordIs
<1>2. \A i \in 1 .. 1 : i = 1
  OBVIOUS
<1>3. 1 \in 1 .. 1
  OBVIOUS
<1> DEFINE x == Word(w)
<1> HIDE DEF x
<1>4. Len(x) = 1 /\ x[1] = w
  BY <1>1 DEF x
<1>5. CASE w \in words
  BY <1>2, <1>3, <1>4, <1>5 DEF Spots, x
<1>6. CASE w \notin words
  BY <1>2, <1>4, <1>6 DEF Spots, x
<1> QED
  BY <1>5, <1>6

\* A part without them adds no place.
LEMMA SpotsBefore ==
  ASSUME NEW a \in Tokens, NEW b \in Tokens, NEW words, Without(b, words)
  PROVE  Spots(Tie(a, b), words) = Spots(a, words)
<1>1. Spots(b, words) = {}
  BY NoSpots
<1>2. {Len(a) + k : k \in Spots(b, words)} = {}
  BY <1>1
<1>3. Spots(Tie(a, b), words) = Spots(a, words) \cup {Len(a) + k : k \in Spots(b, words)}
  BY SpotsJoined
<1> QED
  BY <1>2, <1>3

JoinSpots(q, words) == IF "join" \in words /\ q.join # <<>> THEN {1} ELSE {}

\* Behind the alias only JOIN starts a table.
LEMMA AfterSpots ==
  ASSUME NEW q, Ordinary(q), q.limit # <<>> => q.limit[1] \in Numerals,
         NEW words \in SUBSET (Prohibited \cup {Semicolon})
  PROVE  Spots(After(q), words) = JoinSpots(q, words)
<1> DEFINE j == JoinPart(q)
           w == WherePart(q)
           t == TailPart(q)
<1>1. Proper(q) /\ q.join \in Tokens
  BY DEF Ordinary, Proper
<1>2. j \in Tokens /\ w \in Tokens /\ t \in Tokens /\ After(q) = Tie(j, Tie(w, t))
  BY <1>1, BodyIsTied DEF After
<1>3. Without(q.join, words) /\ Without(w, words) /\ Without(t, words)
  BY PartsWithout DEF Without
<1>4. "join" \in Words
  BY Literals
<1>5. Spots(j, words) = JoinSpots(q, words)
  <2>1. CASE q.join = <<>>
    <3>1. j = <<>>
      BY <2>1 DEF JoinPart, Opt
    <3> QED
      BY <2>1, <3>1 DEF Spots, JoinSpots
  <2>2. CASE q.join # <<>>
    <3>1. j = Tie(Word("join"), q.join)
      BY <2>2, Zenon DEF JoinPart, Opt, Tie, Word
    <3>2. Spots(Tie(Word("join"), q.join), words) = Spots(Word("join"), words)
      BY <1>1, <1>3, <1>4, WordIs, SpotsBefore
    <3>3. Spots(Word("join"), words) = IF "join" \in words THEN {1} ELSE {}
      BY <1>4, WordSpots
    <3> QED
      BY <2>2, <3>1, <3>2, <3>3 DEF JoinSpots
  <2> QED
    BY <2>1, <2>2
<1> HIDE DEF j, w, t
<1>6. Tie(w, t) \in Tokens /\ Without(Tie(w, t), words)
  BY <1>2, <1>3, Tied
<1>7. Spots(Tie(j, Tie(w, t)), words) = Spots(j, words)
  BY <1>2, <1>6, SpotsBefore
<1> QED
  BY <1>2, <1>5, <1>7

\* Where a query has the words that start a table or a query.
LEMMA BodySpots ==
  ASSUME NEW q, Ordinary(q), q.limit # <<>> => q.limit[1] \in Numerals,
         NEW words \in SUBSET (Prohibited \cup {Semicolon})
  PROVE  Spots(Body(q), words) = (IF "select" \in words THEN {1} ELSE {})
                                   \cup (IF "from" \in words THEN {Len(UpToFrom(q))} ELSE {})
                                   \cup {Len(Front(q)) + k : k \in JoinSpots(q, words)}
<1> DEFINE A == IF "select" \in words THEN {1} ELSE {}
           B == IF "from" \in words THEN {Len(UpToFrom(q))} ELSE {}
<1>1. Proper(q)
  BY DEF Ordinary
<1>2. /\ Body(q) = Tie(Front(q), After(q)) /\ Front(q) = Tie(UpToTable(q), q.alias)
      /\ UpToTable(q) = Tie(UpToFrom(q), FromPart(q))
      /\ UpToFrom(q) = Tie(SelectPart(q), Word("from"))
      /\ {Front(q), After(q), UpToTable(q), UpToFrom(q), SelectPart(q), FromPart(q), q.alias} \subseteq Tokens
  BY <1>1, BodyIsTied
<1>3. Without(Between(q.cols, ","), words) /\ Without(FromPart(q), words) /\ Without(q.alias, words)
  BY PartsWithout DEF Without
<1>4. "select" \in Words /\ "from" \in Words /\ "," \in Words
  BY Literals
<1>5. Between(q.cols, ",") \in Tokens
  <2>1. q.cols \in Tokens
    BY <1>1 DEF Proper
  <2> QED
    BY <1>4, <2>1, MarkedTokens
<1>6. Spots(SelectPart(q), words) = A
  <2>1. Spots(SelectPart(q), words) = Spots(Word("select"), words)
    BY <1>3, <1>4, <1>5, WordIs, SpotsBefore DEF SelectPart
  <2>2. Spots(Word("select"), words) = IF "select" \in words THEN {1} ELSE {}
    BY <1>4, WordSpots
  <2>3. A = IF "select" \in words THEN {1} ELSE {}
    OBVIOUS
  <2> HIDE DEF A
  <2> QED
    BY <2>1, <2>2, <2>3
<1> HIDE DEF A
<1>7. Spots(UpToFrom(q), words) = A \cup B
  <2>1. Spots(Tie(SelectPart(q), Word("from")), words)
          = Spots(SelectPart(q), words) \cup {Len(SelectPart(q)) + k : k \in Spots(Word("from"), words)}
    <3> DEFINE a == SelectPart(q)
               b == Word("from")
    <3>1. a \in Tokens /\ b \in Tokens
      BY <1>2, <1>4, WordIs
    <3> HIDE DEF a, b
    <3>2. Spots(Tie(a, b), words) = Spots(a, words) \cup {Len(a) + k : k \in Spots(b, words)}
      BY <3>1, SpotsJoined
    <3> QED
      BY <3>2 DEF a, b
  <2>2. Spots(Word("from"), words) = IF "from" \in words THEN {1} ELSE {}
    BY <1>4, WordSpots
  <2>3. Len(Tie(SelectPart(q), Word("from"))) = Len(SelectPart(q)) + Len(Word("from")) /\ Len(Word("from")) = 1
    BY <1>2, <1>4, WordIs, Tied
  <2>4. Len(UpToFrom(q)) = Len(SelectPart(q)) + 1
    BY <1>2, <2>3
  <2> QED
    BY <1>2, <1>6, <2>1, <2>2, <2>4
<1> HIDE DEF B
<1>8. Spots(UpToTable(q), words) = A \cup B
  <2>1. Spots(Tie(UpToFrom(q), FromPart(q)), words) = Spots(UpToFrom(q), words)
    <3>1. UpToFrom(q) \in Tokens /\ FromPart(q) \in Tokens /\ Without(FromPart(q), words)
      BY <1>2, <1>3
    <3> QED
      BY <3>1, SpotsBefore
  <2> QED
    BY <1>2, <1>7, <2>1
<1>9. Spots(Front(q), words) = A \cup B
  <2>1. Spots(Tie(UpToTable(q), q.alias), words) = Spots(UpToTable(q), words)
    <3>1. UpToTable(q) \in Tokens /\ q.alias \in Tokens /\ Without(q.alias, words)
      BY <1>2, <1>3
    <3> QED
      BY <3>1, SpotsBefore
  <2> QED
    BY <1>2, <1>8, <2>1
<1>10. Spots(Body(q), words) = Spots(Front(q), words) \cup {Len(Front(q)) + k : k \in Spots(After(q), words)}
  <2>1. Spots(Tie(Front(q), After(q)), words)
          = Spots(Front(q), words) \cup {Len(Front(q)) + k : k \in Spots(After(q), words)}
    BY <1>2, SpotsJoined
  <2> QED
    BY <1>2, <2>1
<1>11. Spots(After(q), words) = JoinSpots(q, words)
  BY AfterSpots
<1> QED
  BY <1>9, <1>10, <1>11 DEF A, B

\* The words that the scan takes for the start of a table are those of the query.
LEMMA TablesOf ==
  ASSUME NEW q, Ordinary(q), q.limit # <<>> => q.limit[1] \in Numerals
  PROVE  TableWords(Body(q)) = {Len(UpToFrom(q))} \cup (IF q.join = <<>> THEN {} ELSE {Len(Front(q)) + 1})
<1> DEFINE words == {"from", "join"}
<1>1. words \in SUBSET (Prohibited \cup {Semicolon}) /\ "select" \notin words /\ "from" \in words /\ "join" \in words
  BY Zenon DEF Prohibited
<1>2. TableWords(Body(q)) = Spots(Body(q), words)
  BY DEF TableWords, Spots
<1> HIDE DEF words
<1>3. Spots(Body(q), words) = {} \cup {Len(UpToFrom(q))} \cup {Len(Front(q)) + k : k \in JoinSpots(q, words)}
  BY <1>1, BodySpots
<1>4. JoinSpots(q, words) = IF q.join = <<>> THEN {} ELSE {1}
  BY <1>1 DEF JoinSpots
<1>5. CASE q.join = <<>>
  <2>1. {Len(Front(q)) + k : k \in {}} = {}
    OBVIOUS
  <2> QED
    BY <1>2, <1>3, <1>4, <1>5, <2>1
<1>6. CASE q.join # <<>>
  <2>1. {Len(Front(q)) + k : k \in {1}} = {Len(Front(q)) + 1}
    OBVIOUS
  <2> QED
    BY <1>2, <1>3, <1>4, <1>6, <2>1
<1> QED
  BY <1>5, <1>6

\* The table of a query is read as a base table, with its alias (sandbox.go:203-262).
LEMMA FirstIsBase ==
  ASSUME NEW q, Ordinary(q)
  PROVE  /\ IsBaseTable(Body(q), Len(UpToFrom(q)))
         /\ TableAt(Body(q), Len(UpToFrom(q))) = Folded(q.from)
         /\ AliasAt(Body(q), Len(UpToFrom(q))) = IF q.alias = <<>> THEN NoName ELSE Unquote(LastOf(q.alias))
         /\ q.alias # <<>> => Unquote(LastOf(q.alias)) # NoName
<1> DEFINE ts == Body(q)
           p  == Len(UpToFrom(q))
           a  == UpToTable(q)
           al == q.alias
           z  == After(q)
<1>1. Proper(q) /\ AsAlias(al)
  BY DEF Ordinary
<1>2. /\ NameAt(ts, p, q.from) /\ NameEnd(ts, p) = Len(a) /\ p \in Nat /\ Len(a) \in Nat /\ p < Len(a)
  BY FirstTable
<1>3. /\ ts = Tie(Tie(a, al), z) /\ a \in Tokens /\ al \in Tokens /\ z \in Tokens
  BY <1>1, BodyIsTied
<1>4. Opens(z, Heads)
  BY <1>1, AfterOpens
<1>5. TableAt(ts, p) = Folded(q.from)
  BY <1>2, NameIsRead
<1>6. q.from \in Tokens /\ q.from # <<>> /\ q.from[1] # "("
  <2>1. q.from \in Tokens /\ q.from # <<>> /\ Without(q.from, Marks)
    BY <1>1 DEF Proper
  <2>2. 1 \in 1 .. Len(q.from)
    BY <2>1, EmptySeq DEF Tokens
  <2>3. "(" \in Marks
    BY Zenon DEF Marks, Keywords
  <2> QED
    BY <2>1, <2>2, <2>3 DEF Without
<1>7. ts[p + 1] # "("
  <2>1. Len(q.from) \in Nat /\ Len(q.from) >= 1
    BY <1>6, EmptySeq DEF Tokens
  <2>2. 1 \in 1 .. 2 * Len(q.from) - 1
    BY <2>1
  <2>3. ts[p + 1] = Between(q.from, ".")[1]
    BY <1>2, <2>2 DEF NameAt
  <2>4. Between(q.from, ".")[1] = q.from[1]
    BY <2>2 DEF Between
  <2> QED
    BY <1>6, <2>3, <2>4
<1> HIDE DEF ts, p, a, al, z
<1>8. /\ AliasAt(ts, p) = IF al = <<>> THEN NoName ELSE Unquote(LastOf(al))
      /\ al # <<>> => Unquote(LastOf(al)) # NoName
      /\ TableEnd(ts, p) = Len(a) + Len(al) /\ Tok(ts, Len(a) + 1) # "("
      /\ NoComma(ts, p)
  <2>1. NameEnd(ts, p) = Len(a) /\ AsAlias(al)
    BY <1>1, <1>2
  <2>2. ts = Tie(Tie(a, al), z) /\ a \in Tokens /\ al \in Tokens /\ z \in Tokens /\ Opens(z, Heads)
    BY <1>3, <1>4
  <2> QED
    BY <2>1, <2>2, AliasSeen
<1>9. Len(ts) = Len(a) + Len(al) + Len(z) /\ Len(a) \in Nat /\ Len(al) \in Nat /\ Len(z) \in Nat
  <2>1. Tie(a, al) \in Tokens /\ Len(Tie(a, al)) = Len(a) + Len(al)
    BY <1>3, Tied
  <2>2. Len(Tie(Tie(a, al), z)) = Len(Tie(a, al)) + Len(z)
    BY <1>3, <2>1, Tied
  <2> QED
    BY <1>3, <2>1, <2>2 DEF Tokens
<1>10. p < Len(ts) /\ TableEnd(ts, p) <= Len(ts) /\ Tok(ts, NameEnd(ts, p) + 1) # "("
  <2>1. p < Len(a) /\ p \in Nat /\ NameEnd(ts, p) = Len(a)
    BY <1>2
  <2>2. p < Len(ts) /\ Len(a) + Len(al) <= Len(ts)
    BY <1>9, <2>1
  <2> QED
    BY <1>8, <2>1, <2>2
<1>11. IsBaseTable(ts, p)
  <2>1. Tok(ts, TableEnd(ts, p) + 1) # ","
    BY <1>8 DEF NoComma
  <2> QED
    BY <1>7, <1>10, <2>1 DEF IsBaseTable
<1> QED
  BY <1>5, <1>8, <1>11 DEF ts, p, al


\* A part that a word is in front of.
WordThen(z, w, s, r) ==
  /\ z[1] = w /\ Len(z) = 1 + Len(s) + Len(r) /\ Len(s) \in Nat /\ Len(r) \in Nat
  /\ \A k \in 1 .. Len(s) : z[k + 1] = s[k]

\* What follows the word in front.
LEMMA BehindWord ==
  ASSUME NEW w \in Words, NEW s \in Tokens, NEW r \in Tokens
  PROVE  WordThen(Tie(Tie(Word(w), s), r), w, s, r)
<1> DEFINE z == Tie(Tie(Word(w), s), r)
           o == Word(w)
           a == Tie(o, s)
<1>1. o \in Tokens /\ Len(o) = 1 /\ o[1] = w
  BY WordIs
<1> HIDE DEF o
<1>2. /\ a \in Tokens /\ Len(a) = 1 + Len(s) /\ Len(s) \in Nat /\ a[1] = w
      /\ \A k \in 1 .. Len(s) : a[1 + k] = s[k]
  <2>1. /\ a \in Tokens /\ Len(a) = Len(o) + Len(s) /\ Len(s) \in Nat
        /\ \A i \in 1 .. Len(o) : a[i] = o[i]
        /\ \A k \in 1 .. Len(s) : a[Len(o) + k] = s[k]
    BY <1>1, Joined DEF Tie
  <2> HIDE DEF a
  <2> QED
    BY <1>1, <2>1
<1> HIDE DEF a
<1>3. /\ Tie(a, r) \in Tokens /\ Len(Tie(a, r)) = Len(a) + Len(r) /\ Len(r) \in Nat
      /\ \A i \in 1 .. Len(a) : Tie(a, r)[i] = a[i]
  BY <1>2, Joined DEF Tie
<1>4. z = Tie(a, r)
  BY DEF a, o
<1> HIDE DEF z
<1>5. /\ z \in Tokens /\ Len(z) = 1 + Len(s) + Len(r) /\ Len(r) \in Nat
      /\ \A i \in 1 .. Len(a) : z[i] = a[i]
  BY <1>2, <1>3, <1>4
<1>6. ASSUME NEW k \in 1 .. Len(s) PROVE z[k + 1] = s[k]
  <2>1. k + 1 = 1 + k /\ k + 1 \in 1 .. Len(a)
    BY <1>2
  <2> QED
    BY <1>2, <1>5, <2>1
<1>7. z[1] = w
  <2>1. 1 \in 1 .. Len(a)
    BY <1>2
  <2> QED
    BY <1>2, <1>5, <2>1
<1> QED
  BY <1>2, <1>5, <1>6, <1>7 DEF WordThen, z

\* So is the one that is joined.
LEMMA JoinedIsBase ==
  ASSUME NEW q, Ordinary(q), q.join # <<>>
  PROVE  /\ IsBaseTable(Body(q), Len(Front(q)) + 1)
         /\ TableAt(Body(q), Len(Front(q)) + 1) = Folded(<<q.join[1]>>)
<1> DEFINE ts == Body(q)
           f  == Front(q)
           z  == After(q)
           j  == q.join
           r  == Tie(WherePart(q), TailPart(q))
<1>1. Proper(q)
  BY DEF Ordinary
<1>2. /\ ts = Tie(f, z) /\ ts \in Tokens /\ f \in Tokens /\ z \in Tokens /\ r \in Tokens
      /\ z = Tie(JoinPart(q), r)
  <2>1. /\ ts = Tie(f, z) /\ ts \in Tokens /\ f \in Tokens /\ z \in Tokens
        /\ WherePart(q) \in Tokens /\ TailPart(q) \in Tokens
    BY <1>1, BodyIsTied
  <2> QED
    BY <2>1, Tied DEF After
<1>3. /\ j \in Tokens /\ Len(j) >= 3 /\ Without(j, {","}) /\ j[1] # Semicolon
      /\ j[1] # "(" /\ j[2] # "." /\ j[2] # "(" /\ (j[2] = "as" => Len(j) >= 4)
  <2>1. Regular(q)
    BY OrdinaryIsRegular
  <2>2. j[1] # Semicolon
    BY <2>1, Zenon DEF Regular, Semicolon
  <2> QED
    BY <1>1, <2>2 DEF Ordinary, Proper
<1>4. JoinPart(q) = Tie(Word("join"), j) /\ "join" \in Words
  <2>1. JoinPart(q) = Tie(Word("join"), j)
    BY Zenon DEF JoinPart, Opt, Tie, Word
  <2> QED
    BY <2>1, Literals
<1> HIDE DEF ts, f, z, j, r
<1>19. z = Tie(Tie(Word("join"), j), r) /\ j \in Tokens /\ r \in Tokens /\ "join" \in Words
  BY <1>2, <1>3, <1>4
<1>20. Len(j) >= 3
  BY <1>3
<1>5. /\ z[1] = "join" /\ Len(z) = 1 + Len(j) + Len(r) /\ Len(j) \in Nat /\ Len(r) \in Nat
      /\ \A k \in 1 .. Len(j) : z[k + 1] = j[k]
  <2>1. WordThen(Tie(Tie(Word("join"), j), r), "join", j, r)
    BY <1>19, BehindWord
  <2>2. WordThen(z, "join", j, r)
    BY <1>19, <2>1
  <2> QED
    BY <2>2 DEF WordThen
<1>6. Len(j) \in Nat /\ Len(z) \in Nat /\ Len(z) >= 4
  BY <1>5, <1>20
<1>7. z[2] = j[1] /\ z[3] = j[2] /\ z[4] = j[3] /\ (Len(j) >= 4 => z[5] = j[4])
  <2>1. 1 \in 1 .. Len(j) /\ 2 \in 1 .. Len(j) /\ 3 \in 1 .. Len(j) /\ (Len(j) >= 4 => 4 \in 1 .. Len(j))
    BY <1>6, <1>20
  <2>2. 1 + 1 = 2 /\ 2 + 1 = 3 /\ 3 + 1 = 4 /\ 4 + 1 = 5
    OBVIOUS
  <2> QED
    BY <1>5, <2>1, <2>2
<1> DEFINE p == Len(f) + 1
<1>8. NameAt(ts, p, <<j[1]>>)
  <2>1. 1 \in 1 .. Len(z) - 1 /\ z[1] \in {"from", "join"} /\ 1 + 1 = 2 /\ 1 + 2 = 3
    BY <1>5, <1>6
  <2>2. z[1 + 1] # Semicolon /\ (1 + 2 <= Len(z) => z[1 + 2] # ".")
    BY <1>3, <1>7, <2>1
  <2>3. NameAt(f \o z, Len(f) + 1, <<z[1 + 1]>>)
    BY <1>2, <2>1, <2>2, NameInside
  <2>4. ts = f \o z /\ z[1 + 1] = j[1]
    BY <1>2, <1>7, <2>1 DEF Tie
  <2> QED
    BY <2>3, <2>4
<1>9. TableAt(ts, p) = Folded(<<j[1]>>) /\ NameEnd(ts, p) = p + 1
  <2>1. TableAt(ts, p) = Folded(<<j[1]>>) /\ NameEnd(ts, p) = p + 2 * Len(<<j[1]>>) - 1
    BY <1>8, NameIsRead
  <2>2. Len(<<j[1]>>) = 1 /\ Len(f) \in Nat
    BY <1>2 DEF Tokens
  <2> QED
    BY <2>1, <2>2
<1>10. ASSUME NEW k \in 1 .. Len(z)
       PROVE  Tok(ts, Len(f) + k) = z[k] /\ ts[Len(f) + k] = z[k]
  <2>1. /\ Len(Tie(f, z)) = Len(f) + Len(z) /\ Len(f) \in Nat
        /\ Tie(f, z)[Len(f) + k] = z[k]
    <3>1. f \in Tokens /\ z \in Tokens
      BY <1>2
    <3> QED
      BY <3>1, Joined DEF Tie
  <2>2. Len(f) + k \in 1 .. Len(ts) /\ ts[Len(f) + k] = z[k]
    BY <1>2, <1>6, <2>1
  <2> QED
    BY <2>2, TokIs
<1>11. Len(f) \in Nat /\ Len(ts) = Len(f) + Len(z)
  <2>1. f \in Tokens /\ z \in Tokens /\ ts = Tie(f, z)
    BY <1>2
  <2> QED
    BY <2>1, Tied DEF Tokens
<1>12. ASSUME NEW m \in 2 .. 4, m <= Len(j), TableEnd(ts, p) = Len(f) + m
       PROVE  TableEnd(ts, p) <= Len(ts) /\ Tok(ts, TableEnd(ts, p) + 1) # ","
  <2>1. Len(f) + m + 1 = Len(f) + (m + 1) /\ m + 1 \in 1 .. Len(z) /\ m \in 1 .. Len(j)
    BY <1>5, <1>6, <1>11, <1>12
  <2>2. Tok(ts, Len(f) + m + 1) = j[m]
    BY <1>5, <1>10, <2>1
  <2>3. j[m] # ","
    BY <1>3, <2>1 DEF Without
  <2>4. TableEnd(ts, p) <= Len(ts)
    BY <1>11, <1>12, <2>1, <1>6
  <2> QED
    BY <1>12, <2>2, <2>3, <2>4
<1>13. Tok(ts, NameEnd(ts, p) + 1) = j[2] /\ ts[p + 1] = j[1]
  <2>1. Len(f) + 1 + 1 + 1 = Len(f) + 3 /\ Len(f) + 1 + 1 = Len(f) + 2 /\ 2 \in 1 .. Len(z) /\ 3 \in 1 .. Len(z)
    BY <1>6, <1>11
  <2>2. Tok(ts, Len(f) + 3) = z[3] /\ ts[Len(f) + 2] = z[2]
    BY <1>10, <2>1
  <2> QED
    BY <1>7, <1>9, <2>1, <2>2
<1>14. TableEnd(ts, p) = Len(f) + 2 + (IF HasAs(ts, p) THEN 2 ELSE IF AliasAt(ts, p) = NoName THEN 0 ELSE 1)
  <2>1. NameEnd(ts, p) = Len(f) + 2
    BY <1>9, <1>11
  <2> HIDE DEF p
  <2> QED
    BY <2>1, TableEndIs
<1>15. HasAs(ts, p) <=> j[2] = "as"
  BY <1>13 DEF HasAs
<1>16. TableEnd(ts, p) <= Len(ts) /\ Tok(ts, TableEnd(ts, p) + 1) # ","
  <2>1. CASE HasAs(ts, p)
    <3>1. TableEnd(ts, p) = Len(f) + 4
      <4> HIDE DEF p
      <4> QED
        BY <1>11, <1>14, <2>1
    <3>2. Len(j) >= 4
      BY <1>3, <1>15, <2>1
    <3>3. 4 \in 2 .. 4 /\ 4 <= Len(j)
      BY <1>6, <3>2
    <3> QED
      BY <1>12, <3>1, <3>3
  <2>2. CASE ~HasAs(ts, p) /\ AliasAt(ts, p) = NoName
    <3>1. TableEnd(ts, p) = Len(f) + 2
      <4> HIDE DEF p
      <4> QED
        BY <1>11, <1>14, <2>2
    <3>2. 2 \in 2 .. 4 /\ 2 <= Len(j)
      BY <1>6, <1>20
    <3> QED
      BY <1>12, <3>1, <3>2
  <2>3. CASE ~HasAs(ts, p) /\ AliasAt(ts, p) # NoName
    <3>1. TableEnd(ts, p) = Len(f) + 3
      <4> HIDE DEF p
      <4> QED
        BY <1>11, <1>14, <2>3
    <3>2. 3 \in 2 .. 4 /\ 3 <= Len(j)
      BY <1>6, <1>20
    <3> QED
      BY <1>12, <3>1, <3>2
  <2> QED
    BY <2>1, <2>2, <2>3
<1>17. p < Len(ts)
  BY <1>6, <1>11
<1>18. IsBaseTable(ts, p)
  <2> HIDE DEF p
  <2> QED
    BY <1>3, <1>13, <1>16, <1>17 DEF IsBaseTable
<1> QED
  BY <1>9, <1>18 DEF ts, f, j

\* No brackets match.
LEMMA FlatIsBalanced ==
  ASSUME NEW s \in Tokens, Flat(s)
  PROVE  Balanced(s)
<1>1. Level(s) /\ \A i \in 0 .. Len(s) : Depth(s, i) = 0
  BY FlatIsLevel
<1>2. Len(s) \in Nat
  BY DEF Tokens
<1> QED
  BY <1>1, <1>2 DEF Balanced, Level

\* The order and the limit have no brackets.
LEMMA TailIsFlat ==
  ASSUME NEW q, Proper(q)
  PROVE  Balanced(LimitPart(q)) /\ Balanced(TailPart(q))
<1>1. SortedPart(q) \in Tokens /\ LimitPart(q) \in Tokens /\ Balanced(SortedPart(q))
  BY SortedShape, LimitShape, FlatIsBalanced
<1>2. Flat(LimitPart(q))
  <2>1. CASE q.limit = <<>>
    <3>1. LimitPart(q) = <<>>
      BY <2>1, LimitShape
    <3> QED
      BY <3>1 DEF Flat
  <2>2. CASE q.limit # <<>>
    <3> DEFINE l == LimitPart(q)
               n == q.limit[1]
    <3>1. l = <<"limit", n>> /\ n \in Words \ Marks /\ Len(l) = 2 /\ l[1] = "limit"
      BY <2>2, LimitShape
    <3>2. l[2] = n
      BY <3>1
    <3>3. "(" \in Marks /\ ")" \in Marks
      BY Zenon DEF Marks, Keywords
    <3>4. \A i \in 1 .. 2 : i = 1 \/ i = 2
      OBVIOUS
    <3>5. "limit" \notin {"(", ")"} /\ n \notin {"(", ")"}
      BY <3>1, <3>3
    <3> HIDE DEF l, n
    <3>6. Flat(l)
      BY <3>1, <3>2, <3>4, <3>5 DEF Flat
    <3> QED
      BY <3>6 DEF l
  <2> QED
    BY <2>1, <2>2
<1>3. Balanced(LimitPart(q))
  BY <1>1, <1>2, FlatIsBalanced
<1> QED
  BY <1>1, <1>3, BalancedJoined DEF TailPart

\* The brackets of a query match if those of its parts do.
LEMMA BodyIsBalanced ==
  ASSUME NEW q, Proper(q)
  PROVE  Balanced(Body(q))
<1> DEFINE st == Start(q)
           w  == WherePart(q)
           t  == TailPart(q)
<1>1. Body(q) = Tie(st, Tie(w, t)) /\ st \in Tokens /\ w \in Tokens /\ t \in Tokens
  BY BodyIsTied
<1>2. Balanced(st) /\ Balanced(t)
  BY StartIsPlain, TailIsFlat
<1>3. Balanced(w)
  <2>1. "where" \in Words /\ "where" \notin {"(", ")"} /\ q.where \in Tokens /\ Balanced(q.where)
    BY Literals DEF Proper
  <2> QED
    BY <2>1, OptShape DEF WherePart
<1> HIDE DEF st, w, t
<1>4. Tie(w, t) \in Tokens /\ Balanced(Tie(w, t))
  BY <1>1, <1>2, <1>3, Tied, BalancedJoined
<1>5. Balanced(Tie(st, Tie(w, t)))
  BY <1>1, <1>2, <1>4, BalancedJoined
<1> QED
  BY <1>1, <1>5

\* ScanAccepts with its literals folded.
LEMMA ScanIs ==
  ASSUME NEW ts
  PROVE  ScanAccepts(ts) <=> /\ Tok(ts, 1) = "select" /\ Balanced(ts)
                             /\ \A i \in 1 .. Len(ts) : /\ ts[i] \notin Forbidden \cup {Semicolon, "for"}
                                                        /\ ts[i] = "select" => Depth(ts, i) = 0
  BY Zenon DEF ScanAccepts, Semicolon

\* The token scan takes the query (sandbox.go:140-201).
LEMMA ScanIsPassed ==
  ASSUME NEW q, Ordinary(q), q.limit # <<>> => q.limit[1] \in Numerals
  PROVE  ScanAccepts(Body(q))
<1> DEFINE ts == Body(q)
           bad == Forbidden \cup {Semicolon, "for"}
<1>1. Proper(q) /\ ts \in Tokens /\ Balanced(ts)
  BY TextIs, BodyIsBalanced DEF Ordinary
<1>2. Spots(ts, bad) = {}
  <2>1. bad \in SUBSET (Prohibited \cup {Semicolon})
    BY DEF Prohibited
  <2>2. "select" \notin bad /\ "from" \notin bad /\ "join" \notin bad
    BY Zenon DEF Forbidden, Semicolon
  <2> HIDE DEF bad
  <2>3. JoinSpots(q, bad) = {}
    BY <2>2 DEF JoinSpots
  <2>4. {Len(Front(q)) + k : k \in JoinSpots(q, bad)} = {}
    BY <2>3
  <2>5. Spots(ts, bad) = {} \cup {} \cup {Len(Front(q)) + k : k \in JoinSpots(q, bad)}
    BY <2>1, <2>2, BodySpots
  <2> QED
    BY <2>4, <2>5
<1>3. Spots(ts, {"select"}) = {1}
  <2> DEFINE words == {"select"}
  <2>1. words \in SUBSET (Prohibited \cup {Semicolon})
    BY DEF Prohibited
  <2>2. "select" \in words /\ "from" \notin words /\ "join" \notin words
    OBVIOUS
  <2> HIDE DEF words
  <2>3. JoinSpots(q, words) = {}
    BY <2>2 DEF JoinSpots
  <2>4. {Len(Front(q)) + k : k \in JoinSpots(q, words)} = {}
    BY <2>3
  <2>5. Spots(ts, words) = {1} \cup {} \cup {Len(Front(q)) + k : k \in JoinSpots(q, words)}
    BY <2>1, <2>2, BodySpots
  <2>6. Spots(ts, words) = {1}
    BY <2>4, <2>5
  <2> QED
    BY <2>6 DEF words
<1> HIDE DEF ts, bad
<1>4. 1 \in 1 .. Len(ts) /\ ts[1] = "select" /\ \A i \in 1 .. Len(ts) : ts[i] = "select" => i = 1
  <2>1. 1 \in Spots(ts, {"select"}) /\ \A i \in Spots(ts, {"select"}) : i = 1
    BY <1>3
  <2> HIDE <1>3
  <2> QED
    BY <2>1 DEF Spots
<1>5. Tok(ts, 1) = "select"
  BY <1>4, TokIs
<1>6. Depth(ts, 1) = 0
  <2>1. Depth(ts, 0) = 0 /\ Depth(ts, 0 + 1) = Depth(ts, 0) + Turn(ts[0 + 1])
    BY DepthStep
  <2>2. Turn(ts[1]) = 0
    BY <1>4 DEF Turn
  <2> QED
    BY <2>1, <2>2
<1>7. \A i \in 1 .. Len(ts) : ts[i] \notin bad
  BY <1>2 DEF Spots
<1>8. ScanAccepts(ts) <=> /\ Tok(ts, 1) = "select" /\ Balanced(ts)
                          /\ \A i \in 1 .. Len(ts) : ts[i] \notin bad /\ (ts[i] = "select" => Depth(ts, i) = 0)
  BY ScanIs DEF bad
<1>9. ScanAccepts(ts)
  BY <1>1, <1>4, <1>5, <1>6, <1>7, <1>8
<1> QED
  BY <1>9 DEF ts

\* A limit behind a part that has none is the only one.
LEMMA LimitOnce ==
  ASSUME NEW h \in Tokens, Without(h, {"limit"}), NEW n \in Words, n # "limit"
  PROVE  /\ Spots(Tie(h, <<"limit", n>>), {"limit"}) = {Len(h) + 1}
         /\ Tok(Tie(h, <<"limit", n>>), Len(h) + 2) = n
<1> DEFINE o == Word("limit")
           x == Word(n)
           l == <<"limit", n>>
<1>1. "limit" \in Words
  BY Literals
<1>2. o \in Tokens /\ Len(o) = 1 /\ o[1] = "limit" /\ x \in Tokens /\ Len(x) = 1 /\ x[1] = n
  BY <1>1, WordIs
<1>3. l = Tie(o, x) /\ l \in Tokens /\ Len(l) = 2 /\ l[2] = n
  <2>1. l = Tie(o, x)
    BY <1>1, TwoTokens DEF Word
  <2>2. l \in Tokens /\ Len(l) = 2 /\ l[2] = n
    BY <1>1, FewTokens
  <2> QED
    BY <2>1, <2>2
<1> HIDE DEF o, x, l
<1>4. Without(x, {"limit"})
  <2>1. \A i \in 1 .. 1 : i = 1
    OBVIOUS
  <2> QED
    BY <1>2, <2>1 DEF Without
<1>5. Spots(Tie(Tie(h, o), x), {"limit"}) = {Len(h) + 1}
  BY <1>2, <1>4, OneSpot
<1>6. Tie(h, l) = Tie(Tie(h, o), x)
  <2>1. Tie(Tie(h, o), x) = Tie(h, Tie(o, x))
    BY <1>2, Tied
  <2> QED
    BY <1>3, <2>1
<1>7. Tok(Tie(h, l), Len(h) + 2) = Tok(l, 2)
  BY <1>3, TokBehind
<1>8. Tok(l, 2) = n
  <2>1. 2 \in 1 .. Len(l)
    BY <1>3
  <2> QED
    BY <1>3, <2>1, TokIs
<1>9. Spots(Tie(h, l), {"limit"}) = {Len(h) + 1}
  BY <1>5, <1>6
<1> QED
  BY <1>7, <1>8, <1>9 DEF l

\* What a query has in front of its order and limit.
Leading(q) == Tie(Start(q), WherePart(q))

\* In front of its order a query has no limit.
LEMMA LeadingIs ==
  ASSUME NEW q, Proper(q)
  PROVE  /\ Leading(q) \in Tokens /\ Without(Leading(q), {"limit"}) /\ Body(q) = Tie(Leading(q), TailPart(q))
<1> DEFINE st == Start(q)
           w  == WherePart(q)
           t  == TailPart(q)
<1>1. Body(q) = Tie(st, Tie(w, t)) /\ st \in Tokens /\ w \in Tokens /\ t \in Tokens
  BY BodyIsTied
<1>2. Without(st, {"limit"})
  <2>1. Without(st, {"where", Semicolon} \cup Closing)
    BY StartIsPlain
  <2> QED
    BY <2>1 DEF Without, Closing
<1>3. Without(w, {"limit"})
  <2>1. "where" \in Words /\ "where" \notin {"(", ")"} /\ "where" \notin {"limit"}
    BY Literals
  <2>2. q.where \in Tokens /\ Balanced(q.where) /\ Without(q.where, {"where", Semicolon} \cup Closing)
    BY DEF Proper
  <2>3. Without(q.where, {"limit"})
    BY <2>2 DEF Without, Closing
  <2> QED
    BY <2>1, <2>2, <2>3, OptShape DEF WherePart
<1> HIDE DEF st, w, t
<1>4. Tie(st, w) \in Tokens /\ Without(Tie(st, w), {"limit"}) /\ Tie(Tie(st, w), t) = Tie(st, Tie(w, t))
  BY <1>1, <1>2, <1>3, Tied
<1>5. Leading(q) = Tie(st, w)
  BY DEF Leading, st, w
<1>6. Body(q) = Tie(Leading(q), t)
  BY <1>1, <1>4, <1>5
<1> QED
  BY <1>4, <1>5, <1>6 DEF t

\* A limit of its own that is small enough is let through (sandbox.go:124-137).
LEMMA LimitIsPassed ==
  ASSUME NEW q, Proper(q), q.limit # <<>> => q.limit[1] \in Numerals /\ Atoi(q.limit[1]) <= DefaultRowLimit
  PROVE  LimitAccepts(Body(q))
<1> DEFINE ts == Body(q)
<1>1. CASE q.limit = <<>>
  <2>1. Without(ts, {"limit"})
    BY <1>1, TextIs
  <2>2. LimitAt(ts) = {}
    BY <2>1 DEF LimitAt, Without
  <2> QED
    BY <2>2 DEF LimitAccepts
<1>2. CASE q.limit # <<>>
  <2> DEFINE n == q.limit[1]
             s == SortedPart(q)
             h == Tie(Leading(q), s)
  <2>1. LimitPart(q) = <<"limit", n>> /\ n \in Words \ Marks
    BY <1>2, LimitShape
  <2>2. n # "limit"
    <3>1. "limit" \in Marks
      BY Zenon DEF Marks, Keywords, Closing
    <3> QED
      BY <2>1, <3>1
  <2>3. s \in Tokens /\ Without(s, {"limit"})
    <3>1. s \in Tokens /\ Without(s, {"limit", Semicolon})
      BY SortedShape
    <3> QED
      BY <3>1 DEF Without
  <2>4. LimitPart(q) \in Tokens /\ TailPart(q) = Tie(s, LimitPart(q))
    BY LimitShape DEF TailPart
  <2>5. Leading(q) \in Tokens /\ Without(Leading(q), {"limit"}) /\ ts = Tie(Leading(q), TailPart(q))
    BY LeadingIs
  <2> HIDE DEF s, ts
  <2>6. h \in Tokens /\ Without(h, {"limit"}) /\ Tie(h, LimitPart(q)) = Tie(Leading(q), Tie(s, LimitPart(q)))
    BY <2>3, <2>4, <2>5, Tied
  <2> HIDE DEF h
  <2>7. ts = Tie(h, <<"limit", n>>)
    BY <2>1, <2>4, <2>5, <2>6
  <2>8. n \in Words /\ n \in Numerals /\ Atoi(n) <= DefaultRowLimit
    BY <1>2, <2>1
  <2> HIDE DEF n
  <2>9. /\ Spots(Tie(h, <<"limit", n>>), {"limit"}) = {Len(h) + 1}
        /\ Tok(Tie(h, <<"limit", n>>), Len(h) + 2) = n
    BY <2>2, <2>6, <2>8, LimitOnce
  <2>10. Spots(ts, {"limit"}) = {Len(h) + 1} /\ Tok(ts, Len(h) + 2) = n
    BY <2>7, <2>9
  <2>11. \A i \in LimitAt(ts) : i \in Spots(ts, {"limit"})
    BY DEF LimitAt, Spots
  <2>12. ASSUME NEW i \in LimitAt(ts) PROVE Tok(ts, i + 1) = n
    <3>1. i = Len(h) + 1 /\ Len(h) \in Nat
      BY <2>6, <2>10, <2>11 DEF Tokens
    <3>2. i + 1 = Len(h) + 2
      BY <3>1
    <3> QED
      BY <2>10, <3>2
  <2> QED
    BY <2>8, <2>12 DEF LimitAccepts, ts
<1> QED
  BY <1>1, <1>2

\* TenantAccepts with its literals folded.
LEMMA TenantIs ==
  ASSUME NEW ts, NEW pol
  PROVE  TenantAccepts(ts, pol) <=> \/ Unbound(pol)
                                    \/ /\ IsIdentifier(pol.column) /\ pol.tenant # NoName
                                       /\ Cardinality(TableWords(ts)) = 1
  BY Zenon DEF TenantAccepts, Unbound, NoName

\* What a plain query asks of its limit, its table and its policy.
LEMMA PlainIs ==
  ASSUME NEW q, Plain(q)
  PROVE  /\ q.limit # <<>> => q.limit[1] \in Numerals /\ Atoi(q.limit[1]) <= DefaultRowLimit
         /\ Permitted(Folded(q.from))
         /\ Unbound(policy) \/ (policy.column = "tenant" /\ policy.tenant # NoName /\ q.join = <<>> /\ KeepsItsName(q))
<1>1. q.limit # <<>> => q.limit[1] \in Numerals /\ Atoi(q.limit[1]) <= DefaultRowLimit
  BY Zenon DEF Plain
<1>2. \A t \in Reads(q) : Permitted(t)
  BY Zenon DEF Plain
<1>3. Folded(q.from) \in Reads(q)
  BY Zenon DEF Reads
<1>4. Unbound(policy) \/ (policy.column = "tenant" /\ policy.tenant # NoName /\ q.join = <<>> /\ KeepsItsName(q))
  BY Zenon DEF Plain, Unbound, NoName
<1> QED
  BY <1>1, <1>2, <1>3, <1>4

\* And of the table that it joins.
LEMMA PlainJoin ==
  ASSUME NEW q, Plain(q), q.join # <<>>, q.join \in Tokens
  PROVE  Permitted(Folded(<<q.join[1]>>))
<1>1. \A t \in Reads(q) : Permitted(t)
  BY Zenon DEF Plain
<1>2. 1 \in 1 .. Len(q.join)
  BY EmptySeq DEF Tokens
<1>3. Folded(<<q.join[1]>>) \in Reads(q)
  <2> DEFINE one == {Folded(<<q.join[i]>>) : i \in {i \in 1 .. Len(q.join) : i = 1}}
  <2>1. Folded(<<q.join[1]>>) \in one
    BY <1>2
  <2>2. one \subseteq Reads(q)
    <3>1. \A x, y, z : y \subseteq x \cup y \cup z
      OBVIOUS
    <3> QED
      BY <3>1, Zenon DEF Reads
  <2> HIDE DEF one
  <2> QED
    BY <2>1, <2>2
<1> QED
  BY <1>1, <1>3

\* The verdict of ValidatePolicy is that of its five checks.
LEMMA AllowedIs ==
  ASSUME NEW sql, NEW pol
  PROVE  Allowed(sql, pol) <=> /\ ScanAccepts(Trimmed(sql)) /\ ExtractAccepts(Trimmed(sql))
                               /\ EnforceAllowlist(Trimmed(sql), pol.allowed)
                               /\ TenantAccepts(Trimmed(sql), pol) /\ LimitAccepts(Trimmed(sql))
  BY Zenon DEF Allowed

\* The tables of the query pass (sandbox.go:203-228).
LEMMA TablesAreBase ==
  ASSUME NEW q, Ordinary(q), q.limit # <<>> => q.limit[1] \in Numerals
  PROVE  ExtractAccepts(Body(q))
<1>1. TableWords(Body(q)) = {Len(UpToFrom(q))} \cup (IF q.join = <<>> THEN {} ELSE {Len(Front(q)) + 1})
  BY TablesOf
<1>2. IsBaseTable(Body(q), Len(UpToFrom(q)))
  BY FirstIsBase
<1>3. q.join # <<>> => IsBaseTable(Body(q), Len(Front(q)) + 1)
  BY JoinedIsBase
<1> QED
  BY <1>1, <1>2, <1>3 DEF ExtractAccepts

\* ValidatePolicy lets the query through.
LEMMA PlainIsAllowed ==
  ASSUME NEW q, Ordinary(q), Plain(q)
  PROVE  policy.allowed # {} /\ Allowed(Text(q), policy) /\ TenantAccepts(Body(q), policy)
<1>1. /\ q.limit # <<>> => q.limit[1] \in Numerals /\ Atoi(q.limit[1]) <= DefaultRowLimit
      /\ Permitted(Folded(q.from))
      /\ Unbound(policy) \/ (policy.column = "tenant" /\ policy.tenant # NoName /\ q.join = <<>>)
  BY PlainIs
<1>2. Proper(q)
  BY DEF Ordinary
<1>3. Trimmed(Text(q)) = Body(q)
  BY <1>2, BodyIsLeft
<1>4. ScanAccepts(Body(q)) /\ ExtractAccepts(Body(q)) /\ LimitAccepts(Body(q))
  BY <1>1, <1>2, ScanIsPassed, TablesAreBase, LimitIsPassed
<1>5. TableWords(Body(q)) = {Len(UpToFrom(q))} \cup (IF q.join = <<>> THEN {} ELSE {Len(Front(q)) + 1})
  BY <1>1, TablesOf
<1>6. policy.allowed # {}
  BY <1>1 DEF Permitted
<1>7. EnforceAllowlist(Body(q), policy.allowed)
  <2> DEFINE ts == Body(q)
             al == {InLowerCase(name) : name \in policy.allowed}
             Listed(p) == TableAt(ts, p) \in al \/ <<LastOf(TableAt(ts, p))>> \in al
  <2>1. Listed(Len(UpToFrom(q)))
    <3>1. TableAt(ts, Len(UpToFrom(q))) = Folded(q.from)
      BY FirstIsBase
    <3> QED
      BY <1>1, <3>1 DEF Permitted
  <2>2. q.join # <<>> => Listed(Len(Front(q)) + 1)
    <3> SUFFICES ASSUME q.join # <<>> PROVE Listed(Len(Front(q)) + 1)
      OBVIOUS
    <3>1. TableAt(ts, Len(Front(q)) + 1) = Folded(<<q.join[1]>>)
      BY JoinedIsBase
    <3>2. Permitted(Folded(<<q.join[1]>>))
      BY <1>2, PlainJoin DEF Proper
    <3> QED
      BY <3>1, <3>2 DEF Permitted
  <2>3. \A p \in TableWords(ts) : Listed(p)
    BY <1>5, <2>1, <2>2
  <2> QED
    BY <1>6, <2>3 DEF EnforceAllowlist
<1>8. TenantAccepts(Body(q), policy)
  <2>1. CASE Unbound(policy)
    BY <2>1, TenantIs
  <2>2. CASE ~Unbound(policy)
    <3>1. TableWords(Body(q)) = {Len(UpToFrom(q))}
      BY <1>1, <1>5, <2>2
    <3>2. Cardinality(TableWords(Body(q))) = 1
      BY <3>1, FS_Singleton
    <3>3. IsIdentifier(policy.column) /\ policy.tenant # NoName
      BY <1>1, <2>2, ColumnAssumption DEF IsIdentifier
    <3> QED
      BY <3>2, <3>3, TenantIs
  <2> QED
    BY <2>1, <2>2
<1> QED
  BY <1>3, <1>4, <1>6, <1>7, <1>8, AllowedIs

\* The qualifier of the predicate is the alias of the only table or its name.
LEMMA QualifierAt ==
  ASSUME NEW ts, NEW p, TableWords(ts) = {p}
  PROVE  Qualifier(ts) = IF AliasAt(ts, p) # NoName THEN AliasAt(ts, p) ELSE LastOf(TableAt(ts, p))
<1>1. (CHOOSE k \in TableWords(ts) : TRUE) = p
  OBVIOUS
<1> QED
  BY <1>1, Zenon DEF Qualifier, NoName

Answering == {"postgres", "sqlite", "clickhouse"}

\* Under a name that keeps its meaning in quotes the table is found.
LEMMA NameIsKept ==
  ASSUME NEW x \in Words, dialect \in Answering,
         \/ Lowered(Unquote(x)) = Unquote(x)
         \/ Lowered(x) = x
  PROVE  Unquote(x) \in Unquoted /\ Denoted(Quote[Unquote(x)]) = Denoted(x)
<1> DEFINE w == Unquote(x)
           k == Quote[w]
<1>1. w \in Unquoted
  BY UnquotedIs
<1>2. IsQuoted(k) /\ Unquote(k) = w
  BY <1>1, QuotedIs
<1>3. IsQuoted(x) \/ w = x
  BY DEF Unquote
<1>4. IsQuoted(x) \/ Lowered(w) = w
  BY <1>3
<1> HIDE DEF w, k
<1>5. w = Unquote(x)
  BY DEF w
<1>6. Denoted(k) = Denoted(x)
  <2>1. ASSUME NEW y, dialect = "clickhouse"
        PROVE  Denoted(y) = Unquote(y)
    BY <2>1 DEF Denoted
  <2>2. ASSUME NEW y, dialect = "postgres", IsQuoted(y)
        PROVE  Denoted(y) = Unquote(y)
    BY <2>2 DEF Denoted
  <2>3. ASSUME NEW y, dialect # "clickhouse", dialect # "postgres" \/ ~IsQuoted(y)
        PROVE  Denoted(y) = Lowered(Unquote(y))
    BY <2>3 DEF Denoted
  <2>4. CASE dialect = "clickhouse"
    BY <1>2, <1>5, <2>1, <2>4
  <2>5. CASE dialect = "postgres" /\ IsQuoted(x)
    BY <1>2, <1>5, <2>2, <2>5
  <2>6. CASE dialect = "postgres" /\ ~IsQuoted(x)
    BY <1>2, <1>4, <1>5, <2>2, <2>3, <2>6
  <2>7. CASE dialect = "sqlite"
    BY <1>2, <1>5, <2>3, <2>7
  <2> QED
    BY <2>4, <2>5, <2>6, <2>7 DEF Answering
<1> QED
  BY <1>1, <1>6 DEF k, w

\* The last part of a name by its parts in lower case.
LEMMA FoldedLast ==
  ASSUME NEW s \in Tokens, s # <<>>
  PROVE  LastOf(Folded(s)) = Lowered(Unquote(LastOf(s))) /\ LastOf(s) \in Words
<1>1. Len(s) \in 1 .. Len(s)
  BY EmptySeq DEF Tokens
<1>2. Len(Folded(s)) = Len(s) /\ Folded(s)[Len(s)] = Lowered(Unquote(s[Len(s)]))
  BY <1>1 DEF Folded
<1> QED
  BY <1>1, <1>2 DEF LastOf, Tokens

\* The predicate is qualified by a name of the table that the database takes for
\* the one it has (sandbox.go:219-231, 270-283).
LEMMA QualifierIsVisible ==
  ASSUME NEW q, Ordinary(q), q.limit # <<>> => q.limit[1] \in Numerals, q.join = <<>>,
         KeepsItsName(q), dialect \in Answering
  PROVE  /\ Qualifier(Body(q)) \in Unquoted
         /\ Denoted(Quote[Qualifier(Body(q))]) = Denoted(Visible(q))
<1> DEFINE ts == Body(q)
           p  == Len(UpToFrom(q))
<1>1. TableWords(ts) = {p}
  BY TablesOf
<1>2. /\ TableAt(ts, p) = Folded(q.from)
      /\ AliasAt(ts, p) = IF q.alias = <<>> THEN NoName ELSE Unquote(LastOf(q.alias))
      /\ q.alias # <<>> => Unquote(LastOf(q.alias)) # NoName
  BY FirstIsBase
<1> HIDE DEF ts, p
<1>3. Qualifier(ts) = IF AliasAt(ts, p) # NoName THEN AliasAt(ts, p) ELSE LastOf(TableAt(ts, p))
  BY <1>1, QualifierAt
<1>4. q.from \in Tokens /\ q.from # <<>> /\ q.alias \in Tokens
  BY DEF Ordinary, Proper
<1>5. CASE q.alias = <<>>
  <2> DEFINE n == LastOf(q.from)
  <2>1. n \in Words /\ LastOf(Folded(q.from)) = Lowered(Unquote(n))
    BY <1>4, FoldedLast
  <2>2. Visible(q) = n
    BY <1>5 DEF Visible
  <2>3. Lowered(Unquote(n)) = Unquote(n)
    BY <1>5, <2>2 DEF KeepsItsName
  <2>4. Qualifier(ts) = Unquote(n)
    BY <1>2, <1>3, <1>5, <2>1, <2>3
  <2> HIDE DEF n
  <2> QED
    BY <2>1, <2>2, <2>3, <2>4, NameIsKept DEF ts
<1>6. CASE q.alias # <<>>
  <2> DEFINE n == LastOf(q.alias)
  <2>1. n \in Words
    BY <1>4, <1>6, FoldedLast
  <2>2. Visible(q) = n
    BY <1>6 DEF Visible
  <2>3. Lowered(n) = n
    BY <1>6, <2>2 DEF KeepsItsName
  <2>4. Qualifier(ts) = Unquote(n)
    BY <1>2, <1>3, <1>6
  <2> HIDE DEF n
  <2> QED
    BY <2>1, <2>2, <2>3, <2>4, NameIsKept DEF ts
<1> QED
  BY <1>5, <1>6

\* Every dot stands behind a name that denotes v.
Dotted(c, v) == \A i \in 1 .. Len(c) : c[i] = "." => i > 1 /\ Denoted(c[i - 1]) = v

\* Two parts with their dots behind a name have them so together.
LEMMA DottedJoined ==
  ASSUME NEW a \in Tokens, NEW b \in Tokens, NEW v, Dotted(a, v), Dotted(b, v)
  PROVE  Dotted(Tie(a, b), v)
<1> DEFINE ab == Tie(a, b)
<1>1. /\ Len(ab) = Len(a) + Len(b) /\ Len(a) \in Nat /\ Len(b) \in Nat
      /\ \A i \in 1 .. Len(a) : ab[i] = a[i]
      /\ \A k \in 1 .. Len(b) : ab[Len(a) + k] = b[k]
  BY Joined DEF Tie
<1> HIDE DEF ab
<1>2. ASSUME NEW i \in 1 .. Len(ab), ab[i] = "."
      PROVE  i > 1 /\ Denoted(ab[i - 1]) = v
  <2>1. CASE i \in 1 .. Len(a)
    <3>1. a[i] = "."
      BY <1>1, <1>2, <2>1
    <3>2. i > 1 /\ Denoted(a[i - 1]) = v
      BY <2>1, <3>1 DEF Dotted
    <3>3. i - 1 \in 1 .. Len(a)
      BY <1>1, <2>1, <3>2
    <3> QED
      BY <1>1, <3>2, <3>3
  <2>2. CASE i \notin 1 .. Len(a)
    <3> DEFINE k == i - Len(a)
    <3>1. k \in 1 .. Len(b) /\ Len(a) + k = i
      BY <1>1, <2>2
    <3> HIDE DEF k
    <3>2. b[k] = "."
      BY <1>1, <1>2, <3>1
    <3>3. k > 1 /\ Denoted(b[k - 1]) = v
      BY <3>1, <3>2 DEF Dotted
    <3>4. k - 1 \in 1 .. Len(b) /\ Len(a) + (k - 1) = i - 1 /\ i > 1
      BY <1>1, <3>1, <3>3
    <3>5. ab[Len(a) + (k - 1)] = b[k - 1]
      BY <1>1, <3>4
    <3> QED
      BY <3>3, <3>4, <3>5
  <2> QED
    BY <2>1, <2>2
<1> QED
  BY <1>2 DEF Dotted, ab

\* A part without dots has them so.
LEMMA NoDots ==
  ASSUME NEW s, Without(s, {"."}), NEW v
  PROVE  Dotted(s, v)
  BY DEF Without, Dotted

\* A condition with its WHERE, or none.
Clause(w, v) ==
  /\ w \in Tokens /\ Level(w) /\ AtTop(w, Closing) = {}
  /\ AtTop(w, {"where"}) \subseteq {1}
  /\ Without(w, {"limit"}) /\ Dotted(w, v)

\* The end of what is sent has no dot, no WHERE and one limit.
LEMMA EndIsClean ==
  ASSUME NEW q, Proper(q), q.limit # <<>> => q.limit[1] \in Numerals
  PROVE  /\ End(q) \in Tokens /\ Without(End(q), {"."}) /\ AtTop(End(q), {"where"}) = {}
         /\ \A h \in Tokens : Without(h, {"limit"}) => Cardinality(Spots(Tie(h, End(q)), {"limit"})) = 1
<1> DEFINE n == Bound(q)
           s == SortedPart(q)
           l == <<"limit", n>>
<1>1. n \in Words \ Marks
  BY BoundIsWord
<1>2. n # "limit"
  <2>1. "limit" \in Marks
    BY Zenon DEF Marks, Keywords, Closing
  <2> QED
    BY <1>1, <2>1
<1>3. s \in Tokens /\ Without(s, {"limit"})
  <2>1. s \in Tokens /\ Without(s, {"limit", Semicolon})
    BY SortedShape
  <2> QED
    BY <2>1 DEF Without
<1>4. "limit" \in Words
  BY Literals
<1>5. l \in Tokens /\ Len(l) = 2
  BY <1>1, <1>4, FewTokens
<1>6. End(q) = Tie(s, l)
  BY DEF End
<1>7. End(q) \in Tokens /\ AtTop(End(q), {"where"}) = {}
  <2>1. <<>> \in Tokens /\ Level(<<>>) /\ AtTop(<<>>, Closing) = {}
    <3>1. <<>> \in Tokens
      BY DEF Tokens
    <3>2. Flat(<<>>)
      BY DEF Flat
    <3>3. AtTop(<<>>, Closing) = {}
      BY DEF AtTop
    <3> QED
      BY <3>1, <3>2, <3>3, FlatIsLevel
  <2>2. \A ts : ts = Tie(<<>>, End(q)) => AtTop(End(q), {"where"}) = {} /\ End(q) \in Tokens
    BY <2>1, EndIsRead
  <2> QED
    BY <2>2
<1>8. ASSUME NEW h \in Tokens, Without(h, {"limit"})
      PROVE  Cardinality(Spots(Tie(h, End(q)), {"limit"})) = 1
  <2> HIDE DEF s, n
  <2>1. /\ Tie(h, s) \in Tokens /\ Without(Tie(h, s), {"limit"})
        /\ Tie(Tie(h, s), l) = Tie(h, Tie(s, l))
    BY <1>3, <1>5, <1>8, Tied
  <2>2. Spots(Tie(Tie(h, s), <<"limit", n>>), {"limit"}) = {Len(Tie(h, s)) + 1}
    BY <1>1, <1>2, <2>1, LimitOnce
  <2>3. Spots(Tie(h, End(q)), {"limit"}) = {Len(Tie(h, s)) + 1}
    BY <1>6, <2>1, <2>2
  <2> QED
    BY <2>3, FS_Singleton
<1>9. Without(End(q), {"."})
  <2>1. Without(s, {"."})
    <3> DEFINE o == <<"order", "by", "id">>
    <3>1. s = IF q.sorted THEN o ELSE <<>>
      BY DEF SortedPart
    <3>2. Len(o) = 3 /\ o[1] # "." /\ o[2] # "." /\ o[3] # "."
      OBVIOUS
    <3>3. \A i \in 1 .. 3 : i = 1 \/ i = 2 \/ i = 3
      OBVIOUS
    <3> HIDE DEF s, o
    <3>4. Without(o, {"."}) /\ Without(<<>>, {"."})
      BY <3>2, <3>3 DEF Without
    <3> QED
      BY <3>1, <3>4
  <2>2. n # "."
    <3>1. CASE q.limit = <<>>
      <4>1. n \in {"0", "1", "2", "3"}
        BY <3>1, LimitAssumption DEF Bound, Numeral
      <4> QED
        BY <4>1
    <3>2. CASE q.limit # <<>>
      BY <3>2, Zenon DEF Bound, Numerals
    <3> QED
      BY <3>1, <3>2
  <2>3. Without(l, {"."})
    <3>1. l[1] = "limit" /\ l[2] = n
      OBVIOUS
    <3>2. \A i \in 1 .. 2 : i = 1 \/ i = 2
      OBVIOUS
    <3> HIDE DEF l, n
    <3> QED
      BY <1>5, <2>2, <3>1, <3>2 DEF Without
  <2> HIDE DEF s, l
  <2> QED
    BY <1>3, <1>5, <1>6, <2>1, <2>3, Tied
<1> QED
  BY <1>7, <1>8, <1>9

\* What a database with LIMIT asks of a statement.
LEMMA UnderstandsIs ==
  ASSUME NEW q, NEW ts, dialect \in Answering,
         Cardinality(Spots(ts, {"limit"})) = 1,
         \A i, k \in AtTop(ts, {"where"}) : i = k,
         AtTop(ts, {"where"}) # {} => FirstAtTop(ts, {"where"}) < FirstAtTop(ts, Closing),
         \A i \in FirstAtTop(ts, {"where"}) .. Len(ts) : Tok(ts, i) = "." => Denoted(ts[i - 1]) = Denoted(Visible(q))
  PROVE  Understands(q, ts)
<1>1. dialect # "bigquery" /\ dialect # "mysql" /\ dialect # "mssql"
  BY DEF Answering
<1>2. Cardinality({i \in 1 .. Len(ts) : ts[i] = "limit"}) <= 1
  <2>1. {i \in 1 .. Len(ts) : ts[i] = "limit"} = Spots(ts, {"limit"})
    BY DEF Spots
  <2>2. Cardinality({i \in 1 .. Len(ts) : ts[i] = "limit"}) = 1
    BY <2>1
  <2>3. \A n : n = 1 => n <= 1
    OBVIOUS
  <2> QED
    BY <2>2, <2>3, Zenon
<1> QED
  BY <1>1, <1>2, Zenon DEF Understands

\* A database reads the statement of a query with a clause of this kind.
LEMMA ClauseIsRead ==
  ASSUME NEW q, Proper(q), q.limit # <<>> => q.limit[1] \in Numerals, dialect \in Answering,
         NEW w, Clause(w, Denoted(Visible(q))), NEW s, s = Tie(Tie(Start(q), w), End(q))
  PROVE  Understands(q, s)
<1> DEFINE st == Start(q)
           e  == End(q)
           h  == Tie(st, w)
           x  == Tie(w, e)
           v  == Denoted(Visible(q))
<1>1. /\ st \in Tokens /\ Level(st) /\ Without(st, {"limit"})
      /\ AtTop(st, Closing) = {} /\ AtTop(st, {"where"}) = {}
  <2>1. /\ st \in Tokens /\ Level(st) /\ Without(st, {"where", Semicolon} \cup Closing)
        /\ AtTop(st, Closing) = {} /\ AtTop(st, {"where"}) = {}
    BY StartIsPlain
  <2> QED
    BY <2>1 DEF Without, Closing
<1>2. /\ w \in Tokens /\ Level(w) /\ AtTop(w, Closing) = {} /\ AtTop(w, {"where"}) \subseteq {1}
      /\ Without(w, {"limit"}) /\ Dotted(w, v)
  BY DEF Clause
<1>3. /\ e \in Tokens /\ AtTop(e, {"where"}) = {} /\ Dotted(e, v)
      /\ \A g \in Tokens : Without(g, {"limit"}) => Cardinality(Spots(Tie(g, e), {"limit"})) = 1
  BY EndIsClean, NoDots
<1> HIDE DEF st, e, v
<1>4. /\ h \in Tokens /\ Without(h, {"limit"}) /\ x \in Tokens /\ Tie(st, x) = Tie(h, e) /\ Dotted(x, v)
      /\ Len(h) = Len(st) + Len(w) /\ Len(st) \in Nat /\ Len(w) \in Nat
  <2>1. /\ h \in Tokens /\ Without(h, {"limit"}) /\ x \in Tokens /\ Tie(st, x) = Tie(h, e)
        /\ Len(h) = Len(st) + Len(w)
    BY <1>1, <1>2, <1>3, Tied
  <2>2. Dotted(x, v)
    BY <1>2, <1>3, DottedJoined
  <2>3. Len(st) \in Nat /\ Len(w) \in Nat
    BY <1>1, <1>2 DEF Tokens
  <2> QED
    BY <2>1, <2>2, <2>3
<1>5. Level(h) /\ AtTop(h, Closing) = {}
  <2>1. Level(h)
    BY <1>1, <1>2, JoinedLevel DEF Tie
  <2>2. AtTop(h, Closing) = AtTop(st, Closing) \cup {Len(st) + k : k \in AtTop(w, Closing)}
    BY <1>1, <1>2, TopJoined
  <2>3. {Len(st) + k : k \in AtTop(w, Closing)} = {}
    BY <1>2
  <2> QED
    BY <1>1, <2>1, <2>2, <2>3
<1>6. AtTop(h, {"where"}) \subseteq {Len(st) + 1} /\ (AtTop(h, {"where"}) # {} => Len(h) >= Len(st) + 1)
  <2>1. AtTop(h, {"where"}) = AtTop(st, {"where"}) \cup {Len(st) + k : k \in AtTop(w, {"where"})}
    BY <1>1, <1>2, TopJoined
  <2>2. AtTop(h, {"where"}) = {Len(st) + k : k \in AtTop(w, {"where"})}
    BY <1>1, <2>1
  <2>3. AtTop(h, {"where"}) \subseteq {Len(st) + 1}
    BY <1>2, <2>2
  <2>4. ASSUME NEW k \in AtTop(w, {"where"}) PROVE Len(w) >= 1
    <3>1. k \in 1 .. Len(w)
      BY DEF AtTop
    <3> QED
      BY <1>4, <3>1
  <2>5. AtTop(h, {"where"}) # {} => Len(w) >= 1
    BY <2>2, <2>4
  <2> HIDE DEF h
  <2>6. AtTop(h, {"where"}) # {} => Len(h) >= Len(st) + 1
    BY <1>4, <2>5
  <2> QED
    BY <2>3, <2>6
<1> DEFINE he == Tie(h, e)
<1>7. AtTop(he, {"where"}) = AtTop(h, {"where"})
  <2> HIDE DEF h
  <2>1. AtTop(Tie(h, e), {"where"}) = AtTop(h, {"where"}) \cup {Len(h) + k : k \in AtTop(e, {"where"})}
    BY <1>3, <1>4, <1>5, TopJoined
  <2>2. {Len(h) + k : k \in AtTop(e, {"where"})} = {}
    BY <1>3
  <2> QED
    BY <2>1, <2>2
<1>8. he \in Tokens /\ FirstAtTop(he, Closing) >= Len(h) + 1 /\ he = Tie(st, x)
  <2> HIDE DEF h
  <2>1. FirstAtTop(h \o e, Closing) = Len(h) + FirstAtTop(e, Closing)
    BY <1>3, <1>4, <1>5, FirstIsSkipped
  <2>2. FirstAtTop(e, Closing) \in 1 .. Len(e) + 1 /\ Len(h) \in Nat /\ Len(e) \in Nat
    BY <1>3, <1>4, FirstOutside DEF Tokens
  <2>3. FirstAtTop(he, Closing) = Len(h) + FirstAtTop(e, Closing)
    BY <2>1 DEF Tie
  <2>4. he \in Tokens
    BY <1>3, <1>4, Tied
  <2> HIDE DEF he
  <2>5. FirstAtTop(he, Closing) >= Len(h) + 1
    BY <2>2, <2>3
  <2> QED
    BY <1>4, <2>4, <2>5 DEF he
<1>9. Cardinality(Spots(he, {"limit"})) = 1
  BY <1>3, <1>4
<1>10. s = he
  BY DEF st, e
<1> HIDE DEF h, x, he
<1>11. AtTop(he, {"where"}) # {} => FirstAtTop(he, {"where"}) = Len(st) + 1 /\ Len(h) >= Len(st) + 1
  <2>1. AtTop(he, {"where"}) # {} => FirstAtTop(he, {"where"}) \in AtTop(he, {"where"})
    BY <1>8, FirstOutside
  <2> QED
    BY <1>6, <1>7, <2>1
<1>12. AtTop(he, {"where"}) # {} => FirstAtTop(he, {"where"}) < FirstAtTop(he, Closing)
  <2>1. FirstAtTop(he, Closing) \in Nat
    BY <1>8, FirstOutside DEF Tokens
  <2> QED
    BY <1>4, <1>8, <1>11, <2>1
<1>13. \A i, k \in AtTop(he, {"where"}) : i = k
  BY <1>6, <1>7
<1>14. ASSUME NEW i \in FirstAtTop(he, {"where"}) .. Len(he), Tok(he, i) = "."
       PROVE  Denoted(he[i - 1]) = v
  <2>1. Len(he) \in Nat /\ (AtTop(he, {"where"}) = {} => FirstAtTop(he, {"where"}) = Len(he) + 1)
    BY <1>8, FirstOutside DEF Tokens
  <2>2. FirstAtTop(he, {"where"}) = Len(st) + 1
    BY <1>11, <2>1
  <2>3. /\ Len(he) = Len(st) + Len(x) /\ Len(x) \in Nat
        /\ \A k \in 1 .. Len(x) : he[Len(st) + k] = x[k]
    <3>1. /\ Len(Tie(st, x)) = Len(st) + Len(x) /\ Len(x) \in Nat
          /\ \A k \in 1 .. Len(x) : Tie(st, x)[Len(st) + k] = x[k]
      BY <1>1, <1>4, Joined DEF Tie
    <3> QED
      BY <1>8, <3>1
  <2> DEFINE k == i - Len(st)
  <2>4. k \in 1 .. Len(x) /\ Len(st) + k = i /\ i \in 1 .. Len(he)
    BY <1>4, <2>2, <2>3
  <2> HIDE DEF k
  <2>5. x[k] = "."
    <3>1. he[i] = "."
      BY <1>14, <2>4, TokIs
    <3> QED
      BY <2>3, <2>4, <3>1
  <2>6. k > 1 /\ Denoted(x[k - 1]) = v
    BY <1>4, <2>4, <2>5 DEF Dotted
  <2>7. k - 1 \in 1 .. Len(x) /\ Len(st) + (k - 1) = i - 1
    BY <1>4, <2>3, <2>4, <2>6
  <2>8. he[Len(st) + (k - 1)] = x[k - 1]
    BY <2>3, <2>7
  <2> QED
    BY <2>6, <2>7, <2>8
<1>15. Understands(q, he)
  BY <1>9, <1>12, <1>13, <1>14, UnderstandsIs DEF v
<1> QED
  BY <1>10, <1>15

\* A condition behind its WHERE.
LEMMA ClauseOf ==
  ASSUME NEW c \in Tokens, Level(c), AtTop(c, Closing) = {}, AtTop(c, {"where"}) = {}, Without(c, {"limit"}),
         NEW v, Dotted(c, v)
  PROVE  Clause(Tie(Where, c), v)
<1> DEFINE o == Where
<1>1. /\ o \in Tokens /\ Level(o) /\ AtTop(o, {"where"}) = {1} /\ AtTop(o, Closing) = {}
      /\ Len(o) = 1 /\ o[1] = "where"
  BY WhereShape
<1>2. Without(o, {"limit"}) /\ Without(o, {"."})
  <2>1. \A i \in 1 .. 1 : i = 1
    OBVIOUS
  <2> HIDE DEF o
  <2> QED
    BY <1>1, <2>1 DEF Without
<1> HIDE DEF o
<1>3. Dotted(o, v)
  BY <1>2, NoDots
<1>4. Tie(o, c) \in Tokens /\ Without(Tie(o, c), {"limit"})
  BY <1>1, <1>2, Tied
<1>5. Level(Tie(o, c))
  BY <1>1, JoinedLevel DEF Tie
<1>6. AtTop(Tie(o, c), Closing) = {}
  <2>1. AtTop(Tie(o, c), Closing) = AtTop(o, Closing) \cup {Len(o) + k : k \in AtTop(c, Closing)}
    BY <1>1, TopJoined
  <2>2. {Len(o) + k : k \in AtTop(c, Closing)} = {}
    OBVIOUS
  <2> QED
    BY <1>1, <2>1, <2>2
<1>7. AtTop(Tie(o, c), {"where"}) \subseteq {1}
  <2>1. AtTop(Tie(o, c), {"where"}) = AtTop(o, {"where"}) \cup {Len(o) + k : k \in AtTop(c, {"where"})}
    BY <1>1, TopJoined
  <2>2. {Len(o) + k : k \in AtTop(c, {"where"})} = {}
    OBVIOUS
  <2> QED
    BY <1>1, <2>1, <2>2
<1>8. Dotted(Tie(o, c), v)
  BY <1>1, <1>3, DottedJoined
<1>9. Clause(Tie(o, c), v)
  BY <1>4, <1>5, <1>6, <1>7, <1>8 DEF Clause
<1> QED
  BY <1>9 DEF o

\* No condition at all.
LEMMA NoClause ==
  ASSUME NEW v
  PROVE  Clause(<<>>, v)
<1>1. <<>> \in Tokens
  BY DEF Tokens
<1>2. Flat(<<>>) /\ \A words : AtTop(<<>>, words) = {} /\ Without(<<>>, words)
  BY DEF Flat, AtTop, Without
<1>3. Level(<<>>)
  BY <1>1, <1>2, FlatIsLevel
<1>4. Dotted(<<>>, v)
  BY DEF Dotted
<1> QED
  BY <1>1, <1>2, <1>3, <1>4 DEF Clause

\* The condition of the query.
LEMMA OwnClause ==
  ASSUME NEW q, Ordinary(q)
  PROVE  /\ Without(q.where, {"limit"}) /\ Dotted(q.where, Denoted(Visible(q))) /\ Clause(WherePart(q), Denoted(Visible(q)))
<1>1. Proper(q) /\ Dotted(q.where, Denoted(Visible(q)))
  BY DEF Ordinary, Dotted
<1>2. /\ q.where \in Tokens /\ Level(q.where)
      /\ AtTop(q.where, Closing) = {} /\ AtTop(q.where, {"where"}) = {}
  BY <1>1, OwnCondition
<1>3. Without(q.where, {"limit"})
  <2>1. Without(q.where, {"where", Semicolon} \cup Closing)
    BY <1>1 DEF Proper
  <2> QED
    BY <2>1 DEF Without, Closing
<1>4. Clause(WherePart(q), Denoted(Visible(q)))
  <2>1. CASE q.where = <<>>
    <3>1. WherePart(q) = <<>>
      BY <2>1 DEF WherePart, Opt
    <3> QED
      BY <3>1, NoClause
  <2>2. CASE q.where # <<>>
    <3>1. WherePart(q) = Tie(Where, q.where)
      BY <2>2 DEF WherePart, Opt, Tie, Where
    <3>2. Clause(Tie(Where, q.where), Denoted(Visible(q)))
      BY <1>1, <1>2, <1>3, ClauseOf
    <3> QED
      BY <3>1, <3>2
  <2> QED
    BY <2>1, <2>2
<1> QED
  BY <1>1, <1>3, <1>4

\* A statement into which no predicate is written is read.
LEMMA UnboundIsRead ==
  ASSUME NEW q, Ordinary(q), q.limit # <<>> => q.limit[1] \in Numerals, dialect \in Answering,
         NEW pol, Unbound(pol)
  PROVE  Understands(q, Sanitized(Text(q), pol))
<1> DEFINE b   == Body(q)
           add == AddedLimit(b)
           t   == TailPart(q)
<1>1. Proper(q)
  BY DEF Ordinary
<1>2. Sanitized(Text(q), pol) = Tie(b, add)
  <2>1. Trimmed(Text(q)) = Body(q)
    BY <1>1, BodyIsLeft
  <2> QED
    BY <2>1, Zenon DEF Sanitized, Tie, Unbound
<1>3. b = Tie(Leading(q), t) /\ Leading(q) \in Tokens /\ t \in Tokens /\ b \in Tokens
  BY <1>1, LeadingIs, TextIs
<1>4. add \in Tokens /\ Tie(t, add) = End(q)
  <2>1. Ends(t)
    BY <1>1, TailEnds
  <2> QED
    BY <1>1, <1>3, <2>1, LimitAdded, LimitIsMet
<1> HIDE DEF b, add, t
<1>5. Tie(Tie(Leading(q), t), add) = Tie(Leading(q), Tie(t, add))
  BY <1>3, <1>4, Tied
<1>6. Sanitized(Text(q), pol) = Tie(Leading(q), End(q))
  BY <1>2, <1>3, <1>4, <1>5
<1>7. Clause(WherePart(q), Denoted(Visible(q)))
  BY OwnClause
<1>8. Understands(q, Tie(Tie(Start(q), WherePart(q)), End(q)))
  BY <1>1, <1>7, ClauseIsRead
<1> QED
  BY <1>6, <1>8 DEF Leading

\* The predicate has no limit, and its dot is behind the qualifier.
LEMMA PredicateIsClean ==
  ASSUME NEW ts, NEW pol, pol.column \in Unquoted, pol.tenant \in Words \ Keywords, pol.tenant # ".",
         Qualifier(ts) \in Unquoted
  PROVE  Without(Predicate(ts, pol), {"limit"}) /\ Dotted(Predicate(ts, pol), Denoted(Quote[Qualifier(ts)]))
<1> DEFINE p == Predicate(ts, pol)
           n == Quote[Qualifier(ts)]
           c == Quote[pol.column]
           t == pol.tenant
<1>1. Len(p) = 5 /\ p[1] = n /\ p[2] = "." /\ p[3] = c /\ p[4] = "=" /\ p[5] = t
  BY DEF Predicate
<1>2. "limit" \in Keywords
  BY Zenon DEF Keywords, Closing
<1>3. "." \in Unquoted
  BY Zenon DEF Unquoted, Symbols
<1>4. \A i \in 1 .. 5 : i = 1 \/ i = 2 \/ i = 3 \/ i = 4 \/ i = 5
  OBVIOUS
<1>5. n # "." /\ c # "." /\ t # "." /\ n # "limit" /\ c # "limit"
  BY <1>2, <1>3, QuotedIs
<1>6. t # "limit" /\ "." # "limit" /\ "=" # "limit" /\ "=" # "."
  BY <1>2
<1>7. Denoted(n) = Denoted(Quote[Qualifier(ts)])
  OBVIOUS
<1> HIDE DEF p, n, c, t
<1>8. Without(p, {"limit"})
  BY <1>1, <1>4, <1>5, <1>6 DEF Without
<1>9. Dotted(p, Denoted(n))
  <2>1. \A i \in 1 .. 5 : p[i] = "." => i = 2
    BY <1>1, <1>4, <1>5, <1>6
  <2>2. 2 > 1 /\ 2 - 1 = 1
    OBVIOUS
  <2> QED
    BY <1>1, <2>1, <2>2 DEF Dotted
<1> QED
  BY <1>7, <1>8, <1>9 DEF p

\* So has the condition with the predicate beside it.
LEMMA BothIsClean ==
  ASSUME NEW d \in Tokens, NEW pred \in Tokens, NEW v,
         Without(d, {"limit"}), Dotted(d, v), Without(pred, {"limit"}), Dotted(pred, v)
  PROVE  Without(Both(d, pred), {"limit"}) /\ Dotted(Both(d, pred), v)
<1> DEFINE open  == Word("(")
           close == Word(")")
           and   == Word("and")
           Clean(s) == s \in Tokens /\ Without(s, {"limit"}) /\ Dotted(s, v)
<1>1. "(" \in Words /\ ")" \in Words /\ "and" \in Words
  BY Literals
<1>2. ASSUME NEW w \in {"(", ")", "and"} PROVE Clean(Word(w))
  <2>1. w \in Words /\ w # "limit" /\ w # "."
    BY <1>1
  <2>2. Word(w) \in Tokens /\ Len(Word(w)) = 1 /\ Word(w)[1] = w
    BY <2>1, WordIs
  <2>3. \A i \in 1 .. 1 : i = 1
    OBVIOUS
  <2> DEFINE o == Word(w)
  <2> HIDE DEF o
  <2>4. Len(o) = 1 /\ o[1] = w /\ o \in Tokens
    BY <2>2 DEF o
  <2>5. Without(o, {"limit"}) /\ Without(o, {"."})
    BY <2>1, <2>3, <2>4 DEF Without
  <2> QED
    BY <2>4, <2>5, NoDots DEF o
<1>3. \A a, b : Clean(a) /\ Clean(b) => Clean(Tie(a, b))
  BY Tied, DottedJoined
<1>4. Clean(open) /\ Clean(close) /\ Clean(and) /\ Clean(d) /\ Clean(pred)
  BY <1>2
<1>5. Both(d, pred) = Tie(Tie(Tie(open, d), close), Tie(and, pred))
  BY Zenon DEF Both, Tie, Word
<1> HIDE DEF open, close, and
<1>6. Clean(Tie(Tie(open, d), close)) /\ Clean(Tie(and, pred))
  <2> HIDE DEF Clean
  <2> QED
    BY <1>3, <1>4
<1>7. Clean(Tie(Tie(Tie(open, d), close), Tie(and, pred)))
  <2> HIDE DEF Clean
  <2> QED
    BY <1>3, <1>6
<1> QED
  BY <1>5, <1>7

\* So is one into which the predicate of the tenant is written.
LEMMA BoundIsRead ==
  ASSUME NEW q, Ordinary(q), q.limit # <<>> => q.limit[1] \in Numerals, dialect \in Answering, q.join = <<>>,
         KeepsItsName(q), NEW pol, ~Unbound(pol), TenantAccepts(Body(q), pol),
         pol.tenant \in Words \ Keywords, pol.tenant # "."
  PROVE  Understands(q, Sanitized(Text(q), pol))
<1> DEFINE f    == Start(q)
           e    == End(q)
           b    == Body(q)
           w    == q.where
           t    == TailPart(q)
           v    == Denoted(Visible(q))
           pred == Predicate(b, pol)
           add  == AddedLimit(b)
           s    == Sanitized(Text(q), pol)
           Fits(c) == /\ c \in Tokens /\ Level(c) /\ AtTop(c, Closing) = {} /\ AtTop(c, {"where"}) = {}
                      /\ Without(c, {"limit"}) /\ Dotted(c, v)
<1>1. Proper(q)
  BY DEF Ordinary
<1>2. s = Tie(InjectPredicate(b, pred), add)
  <2>1. Trimmed(Text(q)) = b
    BY <1>1, BodyIsLeft
  <2> QED
    BY <2>1, Zenon DEF Sanitized, Tie, Unbound
<1>3. ExtractAccepts(b) /\ b \in Tokens /\ Qualifier(b) \in Unquoted /\ Denoted(Quote[Qualifier(b)]) = v
  BY <1>1, TextIs, TablesAreBase, QualifierIsVisible
<1>4. pol.column \in Unquoted
  BY TenantIs DEF IsIdentifier, Unquoted
<1>5. pred \in Tokens /\ pred # <<>> /\ Unmarked(pred) /\ Level(pred) /\ AtTop(pred, Closing) = {}
  BY <1>3, PredicateShape, Zenon
<1>6. AtTop(pred, {"where"}) = {}
  BY <1>5, UnmarkedIsPlain
<1>7. Without(pred, {"limit"}) /\ Dotted(pred, v)
  <2>1. Without(pred, {"limit"}) /\ Dotted(pred, Denoted(Quote[Qualifier(b)]))
    BY <1>3, <1>4, PredicateIsClean
  <2> QED
    BY <1>3, <2>1
<1>8. f \in Tokens /\ Level(f) /\ AtTop(f, Closing) = {} /\ AtTop(f, {"where"}) = {}
  BY <1>1, StartIsPlain
<1>9. t \in Tokens /\ Ends(t) /\ add \in Tokens /\ Tie(t, add) = e /\ e \in Tokens
  BY <1>1, <1>3, TailEnds, LimitAdded, LimitIsMet, EndIsClean
<1>10. w \in Tokens /\ Balanced(w) /\ Level(w) /\ AtTop(w, Closing) = {} /\ AtTop(w, {"where"}) = {}
  BY <1>1, OwnCondition
<1>11. Without(w, {"limit"}) /\ Dotted(w, v)
  BY OwnClause
<1>12. (w = <<>> => b = Tie(f, t)) /\ (w # <<>> => b = Frame(f, w, t))
  BY DEF Body
<1>13. \A c : Clause(c, v) => Understands(q, Tie(Tie(f, c), e))
  BY <1>1, ClauseIsRead
<1> HIDE DEF f, e, b, w, t, v, pred, add, s
<1>14. ASSUME NEW c, Fits(c), InjectPredicate(b, pred) = Frame(f, c, t)
       PROVE  Understands(q, s)
  <2>7. /\ c \in Tokens /\ Level(c) /\ AtTop(c, Closing) = {} /\ AtTop(c, {"where"}) = {}
        /\ Without(c, {"limit"}) /\ Dotted(c, v)
    BY <1>14
  <2> HIDE DEF Fits
  <2>1. Tie(Frame(f, c, t), add) = Frame(f, c, Tie(t, add))
    BY <1>8, <1>9, <2>7, FrameGoesOn
  <2>2. s = Frame(f, c, e)
    BY <1>2, <1>9, <1>14, <2>1
  <2>3. Frame(f, c, e) = Tie(Tie(Tie(f, Where), c), e)
    BY Zenon DEF Frame, Tie
  <2>4. Tie(Tie(f, Where), c) = Tie(f, Tie(Where, c))
    BY <1>8, <2>7, WhereShape, Tied
  <2>5. Clause(Tie(Where, c), v)
    BY <2>7, ClauseOf
  <2>6. Understands(q, Tie(Tie(f, Tie(Where, c)), e))
    BY <1>13, <2>5
  <2> QED
    BY <2>2, <2>3, <2>4, <2>6
<1>15. CASE w = <<>>
  <2>1. InjectPredicate(b, pred) = Frame(f, pred, t)
    <3>1. InjectPredicate(Tie(f, t), pred) = Frame(f, pred, t)
      BY <1>5, <1>8, <1>9, PredicateAlone DEF Tie
    <3> QED
      BY <1>12, <1>15, <3>1
  <2>2. Fits(pred)
    BY <1>5, <1>6, <1>7
  <2> HIDE DEF Fits
  <2> QED
    BY <1>14, <2>1, <2>2 DEF s
<1>16. CASE w # <<>>
  <2> DEFINE c == Both(w, pred)
  <2>1. InjectPredicate(b, pred) = Frame(f, c, t)
    BY <1>5, <1>8, <1>9, <1>10, <1>12, <1>16, PredicateBeside
  <2>2. c \in Tokens /\ Level(c) /\ AtTop(c, {"where"}) = {} /\ AtTop(c, Closing) = {}
    BY <1>5, <1>10, BothHold
  <2>3. Without(c, {"limit"}) /\ Dotted(c, v)
    <3>1. w \in Tokens /\ pred \in Tokens /\ Without(pred, {"limit"}) /\ Dotted(pred, v)
      BY <1>5, <1>7, <1>10
    <3> QED
      BY <1>11, <3>1, BothIsClean
  <2> HIDE DEF c
  <2>4. Fits(c)
    BY <2>2, <2>3
  <2> HIDE DEF Fits
  <2> QED
    BY <1>14, <2>1, <2>4 DEF s
<1> QED
  BY <1>15, <1>16

\* What turns a query away, and what makes it fail.
TurnedInv ==
  /\ stage = "refused" => policy.allowed = {} \/ ~Allowed(Text(query), policy)
  /\ stage = "failed" => BuildFails(dialect, loaded.fields) \/ ~Understands(query, sent)

\* No step leaves TurnedInv.
LEMMA TurnedStep ==
  ASSUME TurnedInv, [AnswersNext]_answerVars
  PROVE  TurnedInv'
<1>1. given' = given
  BY DEF AnswersNext, answerVars, paramsVars, Create, CreateConnection, GetConnection, Check, Execute,
     Restart, GetSchema
<1>2. /\ \A q, ts : Understands(q, ts)' <=> Understands(q, ts)
      /\ dialect' = dialect
  BY <1>1 DEF Understands, Denoted, dialect
<1>3. CASE UNCHANGED queryVars
  <2>1. query' = query /\ policy' = policy /\ stage' = stage /\ sent' = sent /\ loaded' = loaded
    BY <1>3 DEF queryVars, policy
  <2> QED
    BY <1>2, <2>1 DEF TurnedInv
<1>4. CASE Create \/ GetConnection
  BY <1>4 DEF Create, GetConnection, TurnedInv
<1>5. CASE Check
  <2>1. query' = query /\ policy' = policy
    BY <1>5 DEF Check, policy
  <2>2. \/ stage' = "checked"
        \/ stage' = "refused" /\ (policy.allowed = {} \/ ~Allowed(Text(query), policy))
    BY <1>5 DEF Check
  <2> QED
    BY <2>1, <2>2 DEF TurnedInv
<1>6. CASE Execute
  <2>1. query' = query /\ sent' = sent /\ loaded' = loaded
    BY <1>6 DEF Execute
  <2>2. \/ stage' = "answered"
        \/ stage' = "failed" /\ (BuildFails(dialect, loaded.fields) \/ ~Understands(query, sent))
    BY <1>6, AsSent DEF Execute
  <2>3. Understands(query, sent)' <=> Understands(query, sent)
    BY <1>2, <2>1
  <2> QED
    BY <1>2, <2>1, <2>2, <2>3 DEF TurnedInv
<1> QED
  BY <1>3, <1>4, <1>5, <1>6 DEF AnswersNext, answerVars

\* A query is turned away for its policy and fails for its statement, and for no other reason.
LEMMA TurnedIsInvariant == AnswersSpec => []TurnedInv
<1>1. AnswersInit => TurnedInv
  BY DEF AnswersInit, TurnedInv
<1>2. TurnedInv /\ [AnswersNext]_answerVars => TurnedInv'
  BY TurnedStep
<1> QED
  BY <1>1, <1>2, PTL DEF AnswersSpec

\* The value of the tenant is a word, and no dot.
TenantIsWord == NamesTenant /\ policy.tenant # "."

\* What is sent of a plain query is read by the database.
LEMMA PlainIsRead ==
  ASSUME Ordinary(query), Plain(query), TenantIsWord, dialect \in Answering
  PROVE  Understands(query, Sanitized(Text(query), policy))
<1>1. /\ query.limit # <<>> => query.limit[1] \in Numerals
      /\ Unbound(policy) \/ (query.join = <<>> /\ KeepsItsName(query))
  BY PlainIs
<1>2. CASE Unbound(policy)
  BY <1>1, <1>2, UnboundIsRead
<1>3. CASE ~Unbound(policy)
  <2>1. policy.tenant \in Words \ Keywords /\ policy.tenant # "."
    BY <1>3, Zenon DEF TenantIsWord, NamesTenant, Unbound
  <2>2. TenantAccepts(Body(query), policy)
    BY PlainIsAllowed
  <2> QED
    BY <1>1, <1>3, <2>1, <2>2, BoundIsRead
<1> QED
  BY <1>2, <1>3

\* However long its columns, names, joins and condition are, a query of the
\* accepted subset that its policy allows is neither refused by the sandbox nor
\* failed by PostgreSQL, SQLite or ClickHouse: what ValidatePolicy lets through
\* it rewrites into a statement that still parses, and whose qualifier denotes
\* the table, if its name is one that lower case and quotes leave as it is
\* (KeepsItsName; sandbox.go:106-138, 219-231, 264-321).
THEOREM PlainQueriesAreAnswered ==
  AnswersSpec => [](Ordinary(query) /\ TenantIsWord => PlainIsAnswered)
<1>1. SentInv /\ TurnedInv => (Ordinary(query) /\ TenantIsWord => PlainIsAnswered)
  <2> SUFFICES ASSUME SentInv, TurnedInv, Ordinary(query), TenantIsWord, Plain(query), dialect \in Answering
               PROVE  stage \notin {"refused", "failed"}
    BY Zenon DEF PlainIsAnswered, Answering
  <2>1. policy.allowed # {} /\ Allowed(Text(query), policy)
    BY PlainIsAllowed
  <2>2. stage # "refused"
    BY <2>1 DEF TurnedInv
  <2>3. stage # "failed"
    <3>1. Understands(query, Sanitized(Text(query), policy))
      BY PlainIsRead
    <3>2. ~BuildFails(dialect, loaded.fields)
      BY DEF BuildFails, Answering
    <3>3. stage = "failed" => sent = Sanitized(Text(query), policy)
      BY DEF SentInv
    <3> QED
      BY <3>1, <3>2, <3>3 DEF TurnedInv
  <2> QED
    BY <2>2, <2>3
<1> QED
  BY <1>1, SentIsInvariant, TurnedIsInvariant, PTL
===============================================================================
