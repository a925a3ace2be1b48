-------------------------------- MODULE Sandbox --------------------------------
(***************************************************************************)
(* ValidatePolicy of services/query-engine/internal/sandbox: the scan of a *)
(* statement, the tables it names, the tenant predicate and the limit that *)
(* are written into it.                                                    *)
(*                                                                         *)
(* A statement is the sequence of its tokens: names in any case and in     *)
(* double quotes, keywords in lower case, symbols and numbers.  Lexing is  *)
(* left out, and with it string literals, comments, backquotes and names   *)
(* that are keywords; a table is the sequence of the parts of its name.    *)
(***************************************************************************)
EXTENDS Naturals, Sequences, FiniteSets

CONSTANTS
  DefaultRowLimit,
  Names,  \* what matches the regular expression for identifiers, but for keywords
  Lower,  \* what strings.ToLower makes of a name
  Quote   \* what quoteIdentifier makes of a word

\* It is a number that the model tells from the larger ones.
ASSUME LimitAssumption == DefaultRowLimit \in 0 .. 3

\* Tokens that are numbers, with what strconv.Atoi makes of them.
Numeral(n) == CASE n = 0 -> "0" [] n = 1 -> "1" [] n = 2 -> "2" [] n = 3 -> "3" [] OTHER -> "9"
Numerals == {"0", "1", "2", "3", "9"}
Atoi(tok) == CHOOSE n \in 0 .. 9 : Numeral(n) = tok

Symbols == {"(", ")", ",", ".", ";", "="}

Forbidden == {"insert", "update", "delete", "merge", "create", "alter", "drop", "truncate",
              "grant", "revoke", "copy", "call", "execute", "into", "union", "intersect",
              "except", "pg_sleep", "sleep", "benchmark", "load_file"}

Reserved == {"where", "join", "left", "right", "inner", "outer", "full", "cross", "on",
             "group", "order", "having", "limit", "offset"}

SqlWords == Forbidden \cup Reserved \cup {"select", "from", "as", "for", "and", "or", "by", "in", "all", "top"}

Unquoted == Names \cup SqlWords \cup Symbols \cup Numerals

QuotedWords == {Quote[w] : w \in Unquoted}

Words == Unquoted \cup QuotedWords

ASSUME WordsAssumption ==
  /\ Names \cap (SqlWords \cup Symbols \cup Numerals \cup {"", "<end>"}) = {}
  /\ Lower \in [Names -> Names] /\ \A n \in Names : Lower[Lower[n]] = Lower[n]
  /\ DOMAIN Quote = Unquoted
  /\ \A v, w \in Unquoted : Quote[v] \notin Unquoted \cup {"", "<end>"} /\ (Quote[v] = Quote[w] => v = w)

IsIdentifier(tok) == tok \in Names \cup SqlWords

IsQuoted(tok) == tok \in QuotedWords

\* A token without its quotes.
Unquote(tok) == IF IsQuoted(tok) THEN CHOOSE w \in Unquoted : Quote[w] = tok ELSE tok

Lowered(tok) == IF tok \in Names THEN Lower[tok] ELSE tok

\* A name by its parts in lower case, and one without quotes as well.
InLowerCase(name) == [k \in 1 .. Len(name) |-> Lowered(name[k])]

Folded(name) == [k \in 1 .. Len(name) |-> Lowered(Unquote(name[k]))]

LastOf(s) == s[Len(s)]

\* The token at i, or a word no statement has.
Tok(ts, i) == IF i \in 1 .. Len(ts) THEN ts[i] ELSE "<end>"

Depth(ts, i) == Cardinality({k \in 1 .. i : ts[k] = "("}) - Cardinality({k \in 1 .. i : ts[k] = ")"})

\* One trailing semicolon is taken off.
Trimmed(ts) == IF Tok(ts, Len(ts)) = ";" THEN SubSeq(ts, 1, Len(ts) - 1) ELSE ts

\* The loop over the tokens: brackets match, and nothing forbidden occurs.
Balanced(ts) ==
  /\ \A i \in 1 .. Len(ts) : Depth(ts, i) >= 0
  /\ Depth(ts, Len(ts)) = 0

ScanAccepts(ts) ==
  /\ Tok(ts, 1) = "select"
  /\ Balanced(ts)
  /\ \A i \in 1 .. Len(ts) :
       /\ ts[i] \notin Forbidden \cup {";", "for"}
       /\ ts[i] = "select" => Depth(ts, i) = 0

(* Tables. *)

\* Slip: only FROM is looked at.
FromOnly(ts) == {i \in 1 .. Len(ts) : ts[i] = "from"}

TableWords(ts) == {i \in 1 .. Len(ts) : ts[i] \in {"from", "join"}}

\* Where the name after the word at p ends: parts and dots alternate.
NameEnd(ts, p) ==
  LET ends == {n \in p + 1 .. Len(ts) : (n - p) % 2 = 1 /\ \A k \in p + 1 .. n : (k - p) % 2 = 0 => ts[k] = "."}
  IN  CHOOSE n \in ends : \A m \in ends : m <= n

PartsAt(ts, p) == [k \in 1 .. ((NameEnd(ts, p) - p + 1) \div 2) |-> ts[p + 2 * k - 1]]

TableAt(ts, p) == Folded(PartsAt(ts, p))

HasAs(ts, p) == Tok(ts, NameEnd(ts, p) + 1) = "as"

\* Behind AS an alias loses its quotes; without AS it must have none.
AliasAt(ts, p) ==
  LET next == Tok(ts, NameEnd(ts, p) + 1)
  IN  IF HasAs(ts, p) THEN Unquote(Tok(ts, NameEnd(ts, p) + 2))
      ELSE IF IsIdentifier(next) /\ next \notin Reserved THEN next ELSE ""

TableEnd(ts, p) == NameEnd(ts, p) + (IF HasAs(ts, p) THEN 2 ELSE IF AliasAt(ts, p) = "" THEN 0 ELSE 1)

\* No derived table, table function or comma right behind it.
IsBaseTable(ts, p) ==
  /\ p < Len(ts) /\ ts[p + 1] # "("
  /\ Tok(ts, NameEnd(ts, p) + 1) # "("
  /\ TableEnd(ts, p) <= Len(ts)
  /\ Tok(ts, TableEnd(ts, p) + 1) # ","

ExtractAccepts(ts) == TableWords(ts) # {} /\ \A p \in TableWords(ts) : IsBaseTable(ts, p)

EnforceAllowlist(ts, allowed) ==
  LET list == {InLowerCase(name) : name \in allowed}
  IN  /\ allowed # {}
      /\ \A p \in TableWords(ts) : TableAt(ts, p) \in list \/ <<LastOf(TableAt(ts, p))>> \in list

(* The tenant predicate. *)

TenantAccepts(ts, policy) ==
  policy.column # "" => /\ IsIdentifier(policy.column)
                        /\ policy.tenant # ""
                        /\ Cardinality(TableWords(ts)) = 1

Qualifier(ts) ==
  LET p == CHOOSE p \in TableWords(ts) : TRUE
  IN  IF AliasAt(ts, p) # "" THEN AliasAt(ts, p) ELSE LastOf(TableAt(ts, p))

\* Slip: the alias is forgotten.
PredicateOfTable(ts, policy) ==
  LET p == CHOOSE p \in TableWords(ts) : TRUE
  IN  <<Quote[LastOf(TableAt(ts, p))], ".", Quote[policy.column], "=", policy.tenant>>

Predicate(ts, policy) == <<Quote[Qualifier(ts)], ".", Quote[policy.column], "=", policy.tenant>>

\* Where one of the words stands outside brackets.
AtTop(ts, words) == {i \in 1 .. Len(ts) : ts[i] \in words /\ Depth(ts, i) = 0}

FirstAtTop(ts, words) ==
  IF AtTop(ts, words) = {} THEN Len(ts) + 1
  ELSE CHOOSE i \in AtTop(ts, words) : \A k \in AtTop(ts, words) : i <= k

Closing == {"group", "order", "having", "limit", "offset"}

\* The last WHERE outside brackets before position at, if there is one.
WhereAt(ts, at) ==
  LET top == {i \in AtTop(ts, {"where"}) : i < at}
  IN  {i \in top : \A k \in top : k <= i}

\* Slip: the condition is not put in brackets.
InjectLoose(ts, pred) ==
  LET at == FirstAtTop(ts, Closing)
      link == IF WhereAt(ts, at) = {} THEN <<"where">> ELSE <<"and">>
  IN  SubSeq(ts, 1, at - 1) \o link \o pred \o SubSeq(ts, at, Len(ts))

InjectPredicate(ts, pred) ==
  LET at   == FirstAtTop(ts, Closing)
      rest == SubSeq(ts, at, Len(ts))
  IN  IF WhereAt(ts, at) = {}
      THEN SubSeq(ts, 1, at - 1) \o <<"where">> \o pred \o rest
      ELSE LET w == CHOOSE w \in WhereAt(ts, at) : TRUE
           IN  SubSeq(ts, 1, w) \o <<"(">> \o SubSeq(ts, w + 1, at - 1) \o <<")", "and">> \o pred \o rest

(* The limit. *)

LimitAt(ts) == {i \in 1 .. Len(ts) : ts[i] = "limit" /\ \A k \in 1 .. i - 1 : ts[k] # "limit"}

LimitAccepts(ts) ==
  \A i \in LimitAt(ts) : Tok(ts, i + 1) \in Numerals /\ Atoi(Tok(ts, i + 1)) <= DefaultRowLimit

AddedLimit(ts) == IF LimitAt(ts) = {} THEN <<"limit", Numeral(DefaultRowLimit)>> ELSE <<>>

\* The verdict of ValidatePolicy and the statement it hands on.
Allowed(sql, policy) ==
  LET ts == Trimmed(sql)
  IN  /\ ScanAccepts(ts) /\ ExtractAccepts(ts)
      /\ EnforceAllowlist(ts, policy.allowed)
      /\ TenantAccepts(ts, policy) /\ LimitAccepts(ts)

Sanitized(sql, policy) ==
  LET ts == Trimmed(sql)
  IN  (IF policy.column = "" THEN ts ELSE InjectPredicate(ts, Predicate(ts, policy))) \o AddedLimit(ts)
=============================================================================
