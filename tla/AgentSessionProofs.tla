------------------------- MODULE AgentSessionProofs -------------------------
(***************************************************************************)
(* Proofs about AgentSession, for every width of the integers, all numbers *)
(* of rows, pages, listed rows and expiries, with and without a            *)
(* jwt_secret.  Those of sessions hold of the clients of Listings as well. *)
(***************************************************************************)
EXTENDS Listings, SequenceTheorems, FiniteSetTheorems, TLAPS

\* A token is the user's or its agent's, and both act for the user.
TokenInv ==
  /\ token \in [subject: {"", "alice", "bot"}, user: {"", "alice"}, valid: BOOLEAN]
  /\ token.valid => token.user = "alice"

\* A job that is asked for was submitted by somebody.
AskedWasAccepted == step \notin {"start", "refused"} => status["job"] # "none"

\* Without a secret a gateway submits for nobody.
OwnerHasToken == owner = "alice" => Secured

\* The domain of the jobs of the query engine.
StatusShape == status \in [{"job"} -> {"none", "pending", "running", "success", "failed"}]

SessionInv ==
  /\ TokenInv /\ AskedWasAccepted /\ OwnerHasToken /\ StatusShape
  /\ AnswersAreOwn

\* Whoever sees a job is its owner, and its owner sees it while it is there and
\* Redis answers.
LEMMA VisibleIsOwn ==
  ASSUME TokenInv, OwnerHasToken
  PROVE  /\ Visible => owner = "alice"
         /\ Authorized /\ ~Visible /\ owner = "alice" => ~Present \/ ~redisUp
  BY DEF TokenInv, OwnerHasToken, Visible, GetForTenant, Tenant, Authorized

LEMMA SessionInitial == SessionInit => SessionInv
<1> SUFFICES ASSUME SessionInit PROVE SessionInv
  OBVIOUS
<1>1. step = "start" /\ owner = "" /\ token = NoToken
  BY DEF SessionInit
<1>2. TokenInv
  BY <1>1 DEF TokenInv, NoToken
<1>3. StatusShape
  BY DEF SessionInit, Backend!Init, StatusShape
<1> QED
  BY <1>1, <1>2, <1>3 DEF SessionInv, AskedWasAccepted, OwnerHasToken, AnswersAreOwn

\* Changes of the token alone.
LEMMA TokenSteps ==
  ASSUME SessionInv, LogIn \/ GenerateAgentToken \/ TokenExpires
  PROVE  SessionInv'
<1>1. TokenInv'
  <2>1. CASE LogIn
    BY <2>1 DEF TokenInv, LogIn, UserToken
  <2>2. CASE GenerateAgentToken
    BY <2>2 DEF SessionInv, TokenInv, GenerateAgentToken, AgentToken
  <2>3. CASE TokenExpires
    BY <2>3 DEF SessionInv, TokenInv, TokenExpires
  <2> QED BY <2>1, <2>2, <2>3
<1>2. UNCHANGED <<step, owner, gone, status>>
  BY DEF LogIn, GenerateAgentToken, TokenExpires, pageVars, jobVars
<1> QED
  BY <1>1, <1>2 DEF SessionInv, AskedWasAccepted, OwnerHasToken, StatusShape, AnswersAreOwn

\* A job is submitted, by the client or by somebody else.
LEMMA SubmitSteps ==
  ASSUME SessionInv, SubmitQuery \/ ForeignQuery
  PROVE  SessionInv'
<1>1. step = "start" /\ step' \in {"polling", "refused"} /\ UNCHANGED token
  BY DEF SubmitQuery, ForeignQuery, Goes, tokenVars
<1>2. TokenInv'
  BY <1>1 DEF SessionInv, TokenInv
<1>3. \/ status' = [status EXCEPT !["job"] = "pending"]
      \/ status' = status /\ step' = "refused" /\ owner' = owner
  BY DEF SubmitQuery, ForeignQuery, Goes, Backend!Accept, Backend!Moves
<1>4. StatusShape' /\ AskedWasAccepted'
  BY <1>1, <1>3 DEF SessionInv, StatusShape, AskedWasAccepted
<1>5. OwnerHasToken'
  <2>1. owner' \in {owner, Tenant, "carol"}
    BY DEF SubmitQuery, ForeignQuery
  <2>2. Tenant = "alice" => Secured
    BY DEF Tenant
  <2> QED BY <2>1, <2>2 DEF SessionInv, OwnerHasToken
<1> QED BY <1>1, <1>2, <1>4, <1>5 DEF SessionInv, AnswersAreOwn

\* What the client asks for its job.
LEMMA AskSteps ==
  ASSUME SessionInv, GetJobStatus \/ GetJobResult
  PROVE  SessionInv'
<1>1. UNCHANGED <<token, owner, gone, status>> /\ step \in {"polling", "reading"}
  BY DEF GetJobStatus, GetJobResult, jobVars, tokenVars, Read, ReadPanics, Expire
<1>2. TokenInv' /\ OwnerHasToken' /\ StatusShape' /\ AskedWasAccepted'
  BY <1>1 DEF SessionInv, TokenInv, OwnerHasToken, StatusShape, AskedWasAccepted
<1>3. /\ Authorized
      /\ \/ Visible /\ step' \in {"failed", "reading", "done", "panic"}
         \/ ~Visible /\ step' \in {"notfound", "lost"}
  BY DEF GetJobStatus, GetJobResult, Goes, Open, Read, ReadPanics, Expire
<1>4. Visible => owner = "alice"
  BY <1>3, VisibleIsOwn DEF SessionInv
<1>5. AnswersAreOwn'
  BY <1>1, <1>3, <1>4 DEF AnswersAreOwn
<1> QED BY <1>2, <1>5 DEF SessionInv

\* The owner is told that there is no such job only by one of these requests.
LEMMA OwnStep ==
  ASSUME SessionInv, [SessionNext]_sessionVars, step' # step, step' \in {"notfound", "lost"},
         owner = "alice"
  PROVE  gone \/ ~redisUp
<1>1. CASE GetJobStatus \/ GetJobResult
  <2>1. step \in {"polling", "reading"} /\ Authorized
    BY <1>1 DEF GetJobStatus, GetJobResult, Read, ReadPanics, Expire
  <2>2. ~Visible
    BY <1>1 DEF GetJobStatus, GetJobResult, Goes, Open, Read, ReadPanics
  <2>3. ~Present \/ ~redisUp
    BY <2>1, <2>2, VisibleIsOwn DEF SessionInv
  <2>4. status["job"] # "none"
    BY <2>1 DEF SessionInv, AskedWasAccepted
  <2> QED BY <2>3, <2>4 DEF Present
<1>2. CASE SubmitQuery \/ ForeignQuery
  BY <1>2 DEF SubmitQuery, ForeignQuery, Goes
<1>3. CASE LogIn \/ GenerateAgentToken \/ TokenExpires
  BY <1>3 DEF LogIn, GenerateAgentToken, TokenExpires, pageVars
<1>4. CASE EngineStep \/ EngineSettles \/ RecordExpires \/ RedisTurns
  BY <1>4 DEF EngineStep, EngineSettles, RecordExpires, RedisTurns, pageVars
<1>5. CASE UNCHANGED sessionVars
  BY <1>5 DEF sessionVars, pageVars
<1> QED BY <1>1, <1>2, <1>3, <1>4, <1>5 DEF SessionNext

\* The query engine and the TTL.
LEMMA EngineSteps ==
  ASSUME SessionInv, EngineStep \/ EngineSettles \/ RecordExpires \/ RedisTurns
  PROVE  SessionInv'
<1>1. UNCHANGED <<token, owner, step>> /\ gone' \in {gone, TRUE}
  BY DEF EngineStep, EngineSettles, RecordExpires, RedisTurns, tokenVars, pageVars
<1>2. \/ status' = status
      \/ \E to \in {"running", "failed", "success"} :
           status["job"] # "none" /\ status' = [status EXCEPT !["job"] = to]
  BY DEF EngineStep, EngineSettles, RecordExpires, RedisTurns, Backend!Begin, Backend!Fail, Backend!Run,
         Backend!Succeed, Backend!Close, Backend!Moves
<1>3. StatusShape' /\ AskedWasAccepted'
  BY <1>1, <1>2 DEF SessionInv, StatusShape, AskedWasAccepted
<1> QED BY <1>1, <1>3 DEF SessionInv, TokenInv, OwnerHasToken, AnswersAreOwn

LEMMA SessionStep == SessionInv /\ [SessionNext]_sessionVars => SessionInv'
<1> SUFFICES ASSUME SessionInv, [SessionNext]_sessionVars PROVE SessionInv'
  OBVIOUS
<1>1. CASE UNCHANGED sessionVars
  BY <1>1 DEF sessionVars, pageVars, jobVars, tokenVars, SessionInv, TokenInv, AskedWasAccepted,
              OwnerHasToken, StatusShape, AnswersAreOwn
<1> QED BY <1>1, TokenSteps, SubmitSteps, AskSteps, EngineSteps DEF SessionNext

LEMMA SessionIsInvariant == SessionSpec => []SessionInv
  BY SessionInitial, SessionStep, PTL DEF SessionSpec

\* A client learns nothing of a job that is not its own (store.go:185-191): the
\* tenant of a request is the user its token acts for, or nobody.
THEOREM NobodyElsesJob == SessionSpec => []AnswersAreOwn
<1>1. SessionInv => AnswersAreOwn
  BY DEF SessionInv
<1> QED BY <1>1, SessionIsInvariant, PTL

\* A job is found under every token of its owner while its record is there and
\* Redis answers (jwt.go:37-71, store.go:185-191): the token of an agent acts for
\* the same user, and only a load that fails hides a record.
THEOREM OwnJobIsFound == SessionSpec => OwnIsFound
<1>1. SessionInv /\ [SessionNext]_sessionVars =>
        [step' # step /\ step' \in {"notfound", "lost"} /\ owner = "alice"
           => gone \/ ~redisUp]_sessionVars
  BY OwnStep
<1> QED BY <1>1, SessionIsInvariant, PTL DEF SessionSpec, OwnIsFound

\* A client that may list connections is one of AgentSession while it follows a
\* job, and leaves everything but its tokens alone while it lists.
THEOREM VisitsAreSessions == VisitSpec => SessionSpec
<1>1. VisitInit => SessionInit
  BY DEF VisitInit
<1>2. [VisitNext]_visitVars => [SessionNext]_sessionVars
  BY DEF VisitNext, JobSteps, SessionNext, StartListing, ListPage, ListFails, ConnectionComes,
         ConnectionGoes, visitVars
<1> QED BY <1>1, <1>2, PTL DEF VisitSpec, SessionSpec

(***************************************************************************)
(* The pages of a result.  No result has as many rows as an int32 counts:  *)
(* one comes in a single message and is kept as a single value             *)
(* (store.go:216-232).                                                     *)
(***************************************************************************)
RowsFit == \A n \in RowCounts : n < Half

InInt32(x) == x \in -Half .. Half - 1

LEMMA Narrowed ==
  ASSUME NEW x \in Int
  PROVE  InInt32(Int32(x)) /\ (InInt32(x) => Int32(x) = x)
<1>1. Half \in Nat \ {0}
  BY PageAssumption
<1>2. ASSUME NEW h \in Nat \ {0}
      PROVE  /\ ((x + h) % (2 * h)) - h \in -h .. h - 1
             /\ x \in -h .. h - 1 => ((x + h) % (2 * h)) - h = x
  OBVIOUS
<1> QED
  BY <1>1, <1>2 DEF InInt32, Int32

LEMMA SizeServed ==
  ASSUME NEW n \in Int
  PROVE  SizeOf(n) \in 1 .. MaxSize /\ MaxSize \in Nat /\ Half \in Nat /\ MaxSize < Half
  BY PageAssumption DEF SizeOf

LEMMA PageOffset ==
  ASSUME NEW p \in Int, NEW n \in Int
  PROVE  (PageOf(p) - 1) * SizeOf(n) \in Nat
<1>1. PageOf(p) - 1 \in Nat /\ SizeOf(n) \in Nat
  BY SizeServed DEF PageOf
<1> QED
  BY <1>1

\* Where a page begins, and the next one.
LEMMA OffsetIsNat ==
  ASSUME NEW p \in Int, reader.size \in Int
  PROVE  /\ Offset(p) \in Nat
         /\ Offset(PageOf(p) + 1) = Offset(p) + SizeOf(reader.size)
         /\ PageOf(p) <= Offset(p) + 1
<1>1. PageOf(p) \in Nat \ {0} /\ PageOf(PageOf(p) + 1) = PageOf(p) + 1
  BY DEF PageOf
<1>2. SizeOf(reader.size) \in Nat \ {0}
  BY SizeServed
<1>3. ASSUME NEW k \in Nat \ {0}, NEW z \in Nat \ {0}
      PROVE  /\ (k - 1) * z \in Nat
             /\ ((k + 1) - 1) * z = (k - 1) * z + z
             /\ k <= (k - 1) * z + 1
  OBVIOUS
<1> QED
  BY <1>1, <1>2, <1>3 DEF Offset

\* A page that fits is served from its offset, and with the size asked for.
LEMMA PageServed ==
  ASSUME NEW p, Fits(p)
  PROVE  /\ Start(p, Int32(reader.size)) = Offset(p)
         /\ SizeOf(Int32(reader.size)) = SizeOf(reader.size)
         /\ ~Panics(p, Int32(reader.size))
         /\ p \in Int /\ reader.size \in Int /\ Half \in Nat
<1>1. InInt32(p) /\ InInt32(reader.size) /\ Half \in Nat \ {0} /\ p \in Int /\ reader.size \in Int
  BY PageAssumption DEF Fits, InInt32
<1>2. Int32(reader.size) = reader.size
  BY <1>1, Narrowed
<1>3. PageOf(p) - 1 \in Int /\ InInt32(PageOf(p) - 1)
  BY <1>1 DEF PageOf, InInt32
<1>4. Int32(PageOf(p) - 1) = PageOf(p) - 1
  BY <1>3, Narrowed
<1>5. Offset(p) \in Nat /\ InInt32(Offset(p))
  BY <1>1, OffsetIsNat DEF Fits, InInt32
<1>6. Int32(Offset(p)) = Offset(p)
  BY <1>5, Narrowed
<1>7. Start(p, Int32(reader.size)) = Offset(p)
  BY <1>2, <1>4, <1>6 DEF Start, Offset
<1> QED
  BY <1>1, <1>2, <1>5, <1>7 DEF Panics

\* The reader reads, or has read.
Opened == {"reading", "done", "lost", "panic"}

Counts(r) == r.by = "count" => r.first > 0

\* The rows of a job that succeeded stay what they are.
RowsInv ==
  /\ rows \in Seq(Nat) /\ Len(rows) < Half /\ got \in Seq(Nat)
  /\ reader.by \in {"token", "count"} /\ reader.first \in Int /\ reader.size \in Int /\ page \in Int
  /\ step \notin Opened => got = <<>>
  /\ step \in Opened => status["job"] = "success"

\* A reader is where the rows it received end, or behind it if it counts from
\* zero; and it asks for no page that does not fit.
WalkInv ==
  Fits(reader.first) =>
    /\ step # "panic"
    /\ step = "reading" =>
         /\ Fits(page) /\ (reader.by = "count" /\ reader.first > 0 => page > 0)
         /\ Offset(page) <= Offset(reader.first) + Len(got)
         /\ Counts(reader) => Offset(page) = Offset(reader.first) + Len(got)
    /\ step = "done" => Offset(reader.first) + Len(got) >= Len(rows)
    /\ Counts(reader) => got = SubSeq(rows, Offset(reader.first) + 1, Offset(reader.first) + Len(got))

PageInv == RowsInv /\ WalkInv

\* The page after one that is announced fits as well, for a result has fewer
\* rows than an int32 counts.
LEMMA NextFits ==
  ASSUME NEW p, Fits(p), NEW n \in Nat, n < Half, Offset(p) + SizeOf(reader.size) < n,
         NEW q, q = NextToken(p) \/ q = Int32(p + 1)
  PROVE  /\ Fits(q) /\ (p > 0 => q > 0)
         /\ Offset(q) <= Offset(p) + SizeOf(reader.size)
         /\ q = NextToken(p) \/ p > 0 => Offset(q) = Offset(p) + SizeOf(reader.size)
<1>1. /\ InInt32(p) /\ InInt32(reader.size) /\ p \in Int /\ reader.size \in Int
      /\ Half \in Nat \ {0} /\ Offset(p) \in Nat
  BY PageServed, OffsetIsNat DEF Fits, InInt32
<1>2. /\ Offset(PageOf(p) + 1) = Offset(p) + SizeOf(reader.size)
      /\ PageOf(PageOf(p) + 1) <= Offset(PageOf(p) + 1) + 1
      /\ SizeOf(reader.size) \in Nat
  BY <1>1, OffsetIsNat, SizeServed DEF PageOf
<1>3. PageOf(p) + 1 < Half /\ PageOf(p) \in Nat \ {0}
  BY <1>1, <1>2 DEF PageOf
<1>4. NextToken(p) = PageOf(p) + 1
  BY <1>1, <1>3, Narrowed DEF NextToken, InInt32
<1>5. Int32(p + 1) = p + 1
  BY <1>1, <1>3, Narrowed DEF InInt32, PageOf
<1>6. CASE q = PageOf(p) + 1
  BY <1>1, <1>2, <1>3, <1>6 DEF Fits, InInt32
<1>7. CASE q = p + 1 /\ p <= 0
  <2>1. Offset(q) = 0
    BY <1>1, <1>7, SizeServed DEF Offset, PageOf
  <2>2. PageOf(p) + 1 # p + 1 /\ InInt32(q)
    BY <1>1, <1>3, <1>7 DEF PageOf, InInt32
  <2> QED
    BY <1>1, <1>2, <1>4, <1>7, <2>1, <2>2 DEF Fits, InInt32
<1> QED
  BY <1>1, <1>4, <1>5, <1>6, <1>7 DEF PageOf

\* The rows of a page, and whether there are more.
LEMMA PageRows ==
  ASSUME RowsInv, NEW p, Fits(p), NEW o, o = Offset(p), NEW z, z = SizeOf(reader.size)
  PROVE  LET answer == GetResultPage(p, Int32(reader.size))
         IN  \/ o >= Len(rows) /\ answer = [rows |-> <<>>, more |-> FALSE]
             \/ /\ o < Len(rows) /\ Len(rows) <= o + z
                /\ answer = [rows |-> SubSeq(rows, o + 1, Len(rows)), more |-> FALSE]
             \/ /\ o + z < Len(rows)
                /\ answer = [rows |-> SubSeq(rows, o + 1, o + z), more |-> TRUE]
<1> DEFINE answer == GetResultPage(p, Int32(reader.size))
           end == AtMostRows(o + z)
<1>1. /\ Start(p, Int32(reader.size)) = o /\ SizeOf(Int32(reader.size)) = z
      /\ p \in Int /\ reader.size \in Int
  BY PageServed
<1>2. o \in Nat /\ z \in Nat /\ Len(rows) \in Nat
  <2>1. Offset(p) \in Nat
    BY <1>1, OffsetIsNat
  <2>2. SizeOf(reader.size) \in Nat
    BY <1>1, SizeServed
  <2>3. Len(rows) \in Nat
    BY DEF RowsInv
  <2> QED
    BY <2>1, <2>2, <2>3
<1>3. CASE o >= Len(rows)
  <2>1. answer = [rows |-> <<>>, more |-> FALSE]
    BY <1>1, <1>3 DEF GetResultPage
  <2> HIDE DEF answer
  <2> QED
    BY <1>3, <2>1 DEF answer
<1>4. CASE o < Len(rows)
  <2>1. answer = [rows |-> SubSeq(rows, o + 1, end), more |-> HasNext(end)]
    BY <1>1, <1>2, <1>4 DEF GetResultPage
  <2>2. /\ o + z < Len(rows) => end = o + z /\ HasNext(end) = TRUE
        /\ Len(rows) <= o + z => end = Len(rows) /\ HasNext(end) = FALSE
    BY <1>2 DEF AtMostRows, HasNext
  <2> HIDE DEF end, answer
  <2>3. CASE o + z < Len(rows)
    <3>1. answer = [rows |-> SubSeq(rows, o + 1, o + z), more |-> TRUE]
      BY <2>1, <2>2, <2>3, Zenon
    <3> QED
      BY <2>3, <3>1 DEF answer
  <2>4. CASE Len(rows) <= o + z
    <3>1. answer = [rows |-> SubSeq(rows, o + 1, Len(rows)), more |-> FALSE]
      BY <2>1, <2>2, <2>4, Zenon
    <3> QED
      BY <1>4, <2>4, <3>1 DEF answer
  <2> QED
    BY <1>2, <2>3, <2>4
<1> QED
  BY <1>2, <1>3, <1>4

\* A piece of the rows, and the next one put to it.
LEMMA Pieces ==
  ASSUME NEW s \in Seq(Nat), NEW m \in Nat, NEW k \in Nat, NEW n \in Nat, m <= k, k <= n, n <= Len(s)
  PROVE  /\ SubSeq(s, m + 1, k) \o SubSeq(s, k + 1, n) = SubSeq(s, m + 1, n)
         /\ SubSeq(s, k + 1, n) \in Seq(Nat) /\ Len(SubSeq(s, k + 1, n)) = n - k
<1>1. Len(s) \in Nat /\ \A i \in k + 1 .. n : s[i] \in Nat
  OBVIOUS
<1>2. SubSeq(s, k + 1, n) \in Seq(Nat) /\ Len(SubSeq(s, k + 1, n)) = n - k
  BY <1>1, SubSeqProperties
<1>3. SubSeq(s, m + 1, k) \o SubSeq(s, k + 1, n) = SubSeq(s, m + 1, n)
  BY <1>1, ConcatAdjacentSubSeq
<1> QED
  BY <1>2, <1>3

\* Whatever page is asked for, its rows are rows.
LEMMA ReadKeepsRows ==
  ASSUME RowsInv, Read, status' = status
  PROVE  RowsInv'
<1> DEFINE n == Int32(reader.size)
           answer == GetResultPage(page, n)
<1>1. /\ step = "reading" /\ ~Panics(page, n) /\ UNCHANGED <<rows, reader>>
      /\ got' = got \o answer.rows /\ step' \in {"reading", "done"}
      /\ page' \in {page, NextToken(page), Int32(page + 1)}
  BY DEF Read
<1>2. page' \in Int
  <2>1. PageOf(page) + 1 \in Int /\ page + 1 \in Int
    BY DEF RowsInv, PageOf
  <2>2. NextToken(page) \in Int /\ Int32(page + 1) \in Int
    BY <2>1, Narrowed, PageAssumption DEF NextToken, InInt32
  <2> QED
    BY <1>1, <2>2 DEF RowsInv
<1>3. answer.rows \in Seq(Nat)
  <2>1. n \in Int /\ PageOf(page) - 1 \in Int
    BY Narrowed, PageAssumption DEF RowsInv, InInt32, PageOf
  <2>2. SizeOf(n) \in Nat
    BY <2>1, SizeServed
  <2>3. Int32(PageOf(page) - 1) \in Int
    BY <2>1, Narrowed, PageAssumption DEF InInt32
  <2>4. Int32(PageOf(page) - 1) * SizeOf(n) \in Int
    BY <2>2, <2>3
  <2>5. Start(page, n) \in Nat
    BY <1>1, <2>4, Narrowed, PageAssumption DEF Start, Panics, InInt32
  <2>6. CASE Start(page, n) >= Len(rows)
    BY <2>6 DEF GetResultPage
  <2>7. CASE Start(page, n) < Len(rows)
    <3> DEFINE s == Start(page, n)
               e == AtMostRows(s + SizeOf(n))
    <3>1. answer = [rows |-> SubSeq(rows, s + 1, e), more |-> HasNext(e)]
      BY <2>5, <2>7 DEF GetResultPage, RowsInv
    <3>2. s \in Nat /\ e \in Nat /\ e <= Len(rows)
      BY <2>2, <2>5 DEF AtMostRows, RowsInv
    <3> HIDE DEF s, e, answer
    <3>3. \A i \in s + 1 .. e : rows[i] \in Nat
      BY <3>2 DEF RowsInv
    <3>4. SubSeq(rows, s + 1, e) \in Seq(Nat)
      BY <3>2, <3>3, SubSeqProperties
    <3> QED
      BY <3>1, <3>4
  <2> QED
    BY <2>5, <2>6, <2>7 DEF RowsInv
<1>4. got' \in Seq(Nat)
  BY <1>1, <1>3, ConcatProperties DEF RowsInv
<1> QED
  BY <1>1, <1>2, <1>4 DEF RowsInv, Opened

\* A page that is read extends what was read.
LEMMA ReadKeepsWalk ==
  ASSUME RowsInv, WalkInv, Read
  PROVE  WalkInv'
<1> DEFINE answer == GetResultPage(page, Int32(reader.size))
           o == Offset(page)
           z == SizeOf(reader.size)
           b == Offset(reader.first)
<1>1. /\ step = "reading" /\ UNCHANGED <<rows, reader>>
      /\ got' = got \o answer.rows /\ step' = IF answer.more THEN "reading" ELSE "done"
      /\ page' = IF ~answer.more THEN page
                 ELSE IF reader.by = "token" THEN NextToken(page) ELSE Int32(page + 1)
  BY DEF Read
<1> SUFFICES ASSUME Fits(reader.first)
             PROVE  /\ step' # "panic"
                    /\ step' = "reading" =>
                         /\ Fits(page') /\ (reader.by = "count" /\ reader.first > 0 => page' > 0)
                         /\ Offset(page') <= b + Len(got')
                         /\ Counts(reader) => Offset(page') = b + Len(got')
                    /\ step' = "done" => b + Len(got') >= Len(rows)
                    /\ Counts(reader) => got' = SubSeq(rows, b + 1, b + Len(got'))
  BY <1>1 DEF WalkInv, Fits, Offset, Counts
<1>2. /\ Fits(page) /\ (reader.by = "count" /\ reader.first > 0 => page > 0)
      /\ o <= b + Len(got)
      /\ Counts(reader) => o = b + Len(got) /\ got = SubSeq(rows, b + 1, b + Len(got))
  BY <1>1 DEF WalkInv
<1>3. /\ o \in Nat /\ b \in Nat /\ Len(got) \in Nat /\ Len(rows) \in Nat /\ Len(rows) < Half
      /\ z \in Nat \ {0} /\ rows \in Seq(Nat) /\ got \in Seq(Nat)
  <2> reader.size \in Int /\ reader.first \in Int /\ page \in Int
    BY DEF RowsInv
  <2>1. o \in Nat /\ b \in Nat
    BY OffsetIsNat
  <2>2. z \in Nat \ {0}
    BY SizeServed
  <2>3. Len(got) \in Nat /\ Len(rows) \in Nat
    BY DEF RowsInv
  <2> QED
    BY <2>1, <2>2, <2>3 DEF RowsInv
<1>4. \/ o >= Len(rows) /\ answer = [rows |-> <<>>, more |-> FALSE]
      \/ /\ o < Len(rows) /\ Len(rows) <= o + z
         /\ answer = [rows |-> SubSeq(rows, o + 1, Len(rows)), more |-> FALSE]
      \/ /\ o + z < Len(rows)
         /\ answer = [rows |-> SubSeq(rows, o + 1, o + z), more |-> TRUE]
  BY <1>2, PageRows
<1> HIDE DEF answer, o, z, b
<1>5. CASE o >= Len(rows) /\ answer = [rows |-> <<>>, more |-> FALSE]
  <2>1. got' = got /\ step' = "done"
    BY <1>1, <1>5 DEF RowsInv
  <2> QED
    BY <1>2, <1>3, <1>5, <2>1
<1>6. CASE /\ o < Len(rows) /\ Len(rows) <= o + z
           /\ answer = [rows |-> SubSeq(rows, o + 1, Len(rows)), more |-> FALSE]
  <2>1. got' = got \o SubSeq(rows, o + 1, Len(rows)) /\ step' = "done"
    BY <1>1, <1>6
  <2>2. /\ SubSeq(rows, o + 1, Len(rows)) \in Seq(Nat)
        /\ Len(SubSeq(rows, o + 1, Len(rows))) = Len(rows) - o
    BY <1>3, <1>6, Pieces DEF RowsInv
  <2>3. Len(got') = Len(got) + (Len(rows) - o)
    BY <2>1, <2>2, ConcatProperties DEF RowsInv
  <2>4. Counts(reader) => got' = SubSeq(rows, b + 1, b + Len(got'))
    <3> SUFFICES ASSUME Counts(reader) PROVE got' = SubSeq(rows, b + 1, Len(rows))
      BY <1>2, <1>3, <2>3
    <3>1. o = b + Len(got) /\ got = SubSeq(rows, b + 1, o) /\ b <= o
      BY <1>2, <1>3
    <3>2. SubSeq(rows, b + 1, o) \o SubSeq(rows, o + 1, Len(rows)) = SubSeq(rows, b + 1, Len(rows))
      <4>1. o <= Len(rows) /\ Len(rows) <= Len(rows)
        BY <1>3, <1>6
      <4>2. rows \in Seq(Nat) /\ b \in Nat /\ o \in Nat /\ Len(rows) \in Nat /\ b <= o
        BY <1>3, <3>1
      <4> QED
        BY <4>1, <4>2, Pieces
    <3> QED
      BY <2>1, <3>1, <3>2
  <2>5. b + Len(got') >= Len(rows)
    BY <1>2, <1>3, <2>3
  <2> QED
    BY <2>1, <2>4, <2>5
<1>7. CASE /\ o + z < Len(rows)
           /\ answer = [rows |-> SubSeq(rows, o + 1, o + z), more |-> TRUE]
  <2>1. /\ got' = got \o SubSeq(rows, o + 1, o + z) /\ step' = "reading"
        /\ page' = IF reader.by = "token" THEN NextToken(page) ELSE Int32(page + 1)
    BY <1>1, <1>7
  <2>2. /\ SubSeq(rows, o + 1, o + z) \in Seq(Nat)
        /\ Len(SubSeq(rows, o + 1, o + z)) = z
    <3>1. o <= o + z /\ o + z <= Len(rows) /\ o + z \in Nat /\ (o + z) - o = z
      BY <1>3, <1>7
    <3> QED
      BY <1>3, <3>1, Pieces DEF RowsInv
  <2>3. Len(got') = Len(got) + z
    BY <2>1, <2>2, ConcatProperties DEF RowsInv
  <2>4. /\ Fits(page') /\ (page > 0 => page' > 0) /\ Offset(page') <= o + z
        /\ page' = NextToken(page) \/ page > 0 => Offset(page') = o + z
    <3>1. page' = NextToken(page) \/ page' = Int32(page + 1)
      BY <2>1
    <3>2. Len(rows) \in Nat /\ Offset(page) + SizeOf(reader.size) < Len(rows) /\ Len(rows) < Half
      BY <1>3, <1>7 DEF o, z
    <3>3. /\ Fits(page') /\ (page > 0 => page' > 0)
          /\ Offset(page') <= Offset(page) + SizeOf(reader.size)
          /\ page' = NextToken(page) \/ page > 0 =>
               Offset(page') = Offset(page) + SizeOf(reader.size)
      BY <1>2, <3>1, <3>2, NextFits
    <3> QED
      BY <3>3 DEF o, z
  <2>5. Counts(reader) => page' = NextToken(page) \/ page > 0
    BY <1>2, <2>1 DEF Counts, RowsInv
  <2>6. Counts(reader) => got' = SubSeq(rows, b + 1, b + Len(got'))
    <3> SUFFICES ASSUME Counts(reader) PROVE got' = SubSeq(rows, b + 1, o + z)
      BY <1>2, <1>3, <2>3
    <3>1. o = b + Len(got) /\ got = SubSeq(rows, b + 1, o) /\ b <= o
      BY <1>2, <1>3
    <3>2. SubSeq(rows, b + 1, o) \o SubSeq(rows, o + 1, o + z) = SubSeq(rows, b + 1, o + z)
      <4>1. o <= o + z /\ o + z <= Len(rows) /\ o + z \in Nat
        BY <1>3, <1>7
      <4>2. rows \in Seq(Nat) /\ b \in Nat /\ o \in Nat /\ Len(rows) \in Nat /\ b <= o
        BY <1>3, <3>1
      <4> QED
        BY <4>1, <4>2, Pieces
    <3> QED
      BY <2>1, <3>1, <3>2
  <2>7. Offset(page') \in Nat
    BY <2>4, OffsetIsNat, PageServed
  <2> QED
    BY <1>2, <1>3, <2>1, <2>3, <2>4, <2>5, <2>6, <2>7
<1> QED
  BY <1>4, <1>5, <1>6, <1>7

\* A reader that has received nothing has received the rows it should have.
LEMMA NothingRead ==
  ASSUME RowsInv, step \notin Opened
  PROVE  WalkInv
<1>1. Offset(reader.first) \in Int /\ got = <<>>
  <2>1. reader.first \in Int /\ reader.size \in Int
    BY DEF RowsInv
  <2>2. Offset(reader.first) \in Nat
    BY <2>1, OffsetIsNat
  <2> QED
    BY <2>2 DEF RowsInv
<1>2. got = SubSeq(rows, Offset(reader.first) + 1, Offset(reader.first) + Len(got))
  <2>1. Offset(reader.first) + Len(got) = Offset(reader.first)
    BY <1>1
  <2>2. Offset(reader.first) < Offset(reader.first) + 1
    BY <1>1
  <2> QED
    BY <1>1, <2>1, <2>2, SubSeqEmpty
<1> QED
  BY <1>2 DEF WalkInv, Opened

LEMMA PageInitial == SessionInit => PageInv
<1> SUFFICES ASSUME SessionInit PROVE PageInv
  OBVIOUS
<1>1. /\ rows = <<>> /\ got = <<>> /\ page = 1 /\ step = "start"
      /\ reader.by = "token" /\ reader.size = 0 /\ reader.first = 1
  BY DEF SessionInit, PageInit
<1>2. rows \in Seq(Nat) /\ got \in Seq(Nat) /\ Len(rows) = 0 /\ 0 < Half
  BY <1>1, PageAssumption
<1>3. RowsInv
  BY <1>1, <1>2 DEF RowsInv, Opened
<1> QED
  BY <1>1, <1>3, NothingRead DEF PageInv, Opened

\* A reader opens the result.
LEMMA OpenKeepsPages ==
  ASSUME PageInv, Open, step = "polling", status["job"] = "success", status' = status
  PROVE  PageInv'
<1>1. /\ reader'.by \in Readers /\ reader'.size \in Sizes /\ reader'.first \in FirstPages
      /\ page' = Int32(reader'.first) /\ step' = "reading" /\ UNCHANGED <<rows, got>>
      /\ got = <<>>
  BY DEF Open, PageInv, RowsInv, Opened
<1>2. /\ reader'.by \in {"token", "count"} /\ reader'.size \in Int /\ reader'.first \in Int
      /\ Half \in Nat
  BY <1>1, PageAssumption
<1>3. InInt32(page') /\ (InInt32(reader'.first) => page' = reader'.first)
  BY <1>1, <1>2, Narrowed
<1>4. RowsInv'
  BY <1>1, <1>2, <1>3 DEF PageInv, RowsInv, InInt32
<1>5. WalkInv'
  <2> SUFFICES ASSUME Fits(reader.first)' PROVE WalkInv'
    BY DEF WalkInv
  <2>1. page' = reader'.first
    BY <1>3 DEF Fits, InInt32
  <2>2. Fits(page)'
    BY <2>1 DEF Fits, Offset
  <2>3. Offset(page)' = Offset(reader.first)'
    BY <2>1 DEF Offset
  <2>4. Offset(reader.first)' \in Nat
    BY <1>2, PageOffset DEF Offset
  <2> QED
    BY <1>1, <2>1, <2>2, <2>3, <2>4 DEF WalkInv, Counts
<1> QED
  BY <1>4, <1>5 DEF PageInv

\* Steps that leave the reader, the rows and a result that is read alone.
LEMMA PagesStay ==
  ASSUME PageInv, UNCHANGED <<rows, reader, page, got>>,
         \/ step' = step
         \/ step \notin Opened /\ step' \notin Opened
         \/ step' = "lost" /\ step = "reading"
         \/ step' = "panic" /\ step = "reading" /\ ~Fits(reader.first),
         step' \in Opened => status'["job"] = "success"
  PROVE  PageInv'
<1>1. RowsInv'
  BY DEF PageInv, RowsInv, Opened
<1>2. /\ Fits(reader.first)' <=> Fits(reader.first)
      /\ Fits(page)' <=> Fits(page)
      /\ Offset(reader.first)' = Offset(reader.first) /\ Offset(page)' = Offset(page)
      /\ Counts(reader)' <=> Counts(reader)
  BY DEF Fits, Offset, Counts
<1>3. WalkInv'
  <2>1. CASE step' = step
    BY <1>2, <2>1 DEF PageInv, WalkInv
  <2>2. CASE step \notin Opened /\ step' \notin Opened
    BY <1>2, <2>2 DEF PageInv, WalkInv, Opened
  <2>3. CASE step' = "lost"
    BY <1>2, <2>3 DEF PageInv, WalkInv
  <2>4. CASE ~Fits(reader.first)
    BY <1>2, <2>4 DEF WalkInv
  <2> QED
    BY <2>1, <2>2, <2>3, <2>4
<1> QED
  BY <1>1, <1>3 DEF PageInv

\* The engine changes the rows of a result before anybody can read it.
LEMMA EngineKeepsPages ==
  ASSUME RowsFit, PageInv, StatusShape, EngineStep
  PROVE  PageInv'
<1>1. UNCHANGED <<reader, page, got, step>>
  BY DEF EngineStep
<1>2. CASE status["job"] = "success"
  <2>1. rows' = rows /\ status' = status
    BY <1>2 DEF EngineStep, Backend!Begin, Backend!Fail, Backend!Run, Backend!Succeed, Backend!Moves
  <2> QED
    BY <1>1, <1>2, <2>1, PagesStay
<1>3. CASE status["job"] # "success"
  <2>1. step \notin Opened
    BY <1>3 DEF PageInv, RowsInv
  <2>2. rows' = rows \/ \E n \in RowCounts : rows' = [i \in 1 .. n |-> i]
    BY DEF EngineStep
  <2>3. rows' \in Seq(Nat) /\ Len(rows') < Half
    <3>1. CASE rows' = rows
      BY <3>1 DEF PageInv, RowsInv
    <3>2. ASSUME NEW n \in RowCounts, rows' = [i \in 1 .. n |-> i]
          PROVE  rows' \in Seq(Nat) /\ Len(rows') < Half
      <4>1. n \in Nat /\ n < Half
        BY PageAssumption DEF RowsFit
      <4> QED
        BY <3>2, <4>1
    <3> QED
      BY <2>2, <3>1, <3>2
  <2>4. RowsInv'
    BY <1>1, <2>1, <2>3 DEF PageInv, RowsInv
  <2>5. WalkInv'
    <3>1. got' = <<>> /\ step' \notin Opened /\ reader'.first \in Int /\ reader'.size \in Int
      BY <1>1, <2>1 DEF PageInv, RowsInv
    <3>2. Offset(reader.first)' \in Nat
      BY <3>1, PageOffset DEF Offset
    <3>3. got' = SubSeq(rows', Offset(reader.first)' + 1, Offset(reader.first)' + Len(got'))
      <4>1. Offset(reader.first)' + Len(got') = Offset(reader.first)'
        BY <3>1, <3>2
      <4>2. Offset(reader.first)' < Offset(reader.first)' + 1
        BY <3>2
      <4> QED
        BY <3>1, <3>2, <4>1, <4>2, SubSeqEmpty
    <3> QED
      BY <3>1, <3>3 DEF WalkInv, Opened
  <2> QED
    BY <2>4, <2>5 DEF PageInv
<1> QED
  BY <1>2, <1>3

LEMMA PageStep ==
  ASSUME RowsFit, PageInv, SessionInv, [SessionNext]_sessionVars
  PROVE  PageInv'
<1>1. ASSUME UNCHANGED <<rows, reader, page, got, step, status>> PROVE PageInv'
  BY <1>1, PagesStay DEF PageInv, RowsInv
<1>2. CASE UNCHANGED sessionVars \/ LogIn \/ GenerateAgentToken \/ TokenExpires
  BY <1>1, <1>2 DEF sessionVars, pageVars, jobVars, LogIn, GenerateAgentToken, TokenExpires
<1>3. CASE SubmitQuery \/ ForeignQuery
  <2>1. step \notin Opened /\ step' \notin Opened /\ UNCHANGED <<rows, reader, page, got>>
    BY <1>3 DEF SubmitQuery, ForeignQuery, Goes, Opened
  <2> QED
    BY <2>1, PagesStay
<1>4. CASE GetJobStatus
  <2>1. status' = status /\ step = "polling"
    BY <1>4 DEF GetJobStatus, jobVars
  <2>2. CASE Open /\ status["job"] = "success"
    BY <2>1, <2>2, OpenKeepsPages
  <2>3. CASE Goes("notfound") \/ Goes("failed")
    <3>1. step \notin Opened /\ step' \notin Opened /\ UNCHANGED <<rows, reader, page, got>>
      BY <2>1, <2>3 DEF Goes, Opened
    <3> QED
      BY <3>1, PagesStay
  <2> QED
    BY <1>4, <2>2, <2>3 DEF GetJobStatus
<1>5. CASE GetJobResult
  <2>1. status' = status
    BY <1>5 DEF GetJobResult, jobVars
  <2>2. CASE Read
    BY <2>1, <2>2, ReadKeepsRows, ReadKeepsWalk DEF PageInv
  <2>3. CASE ReadPanics
    <3>1. /\ step = "reading" /\ step' = "panic" /\ Panics(page, Int32(reader.size))
          /\ UNCHANGED <<rows, reader, page, got>>
      BY <2>3 DEF ReadPanics
    <3>2. ~Fits(reader.first)
      BY <3>1, PageServed DEF PageInv, WalkInv
    <3>3. status'["job"] = "success"
      BY <2>1, <3>1 DEF PageInv, RowsInv, Opened
    <3> QED
      BY <3>1, <3>2, <3>3, PagesStay
  <2>4. CASE Expire
    <3>1. step = "reading" /\ step' = "lost" /\ UNCHANGED <<rows, reader, page, got>>
      BY <2>4 DEF Expire
    <3>2. status'["job"] = "success"
      BY <2>1, <3>1 DEF PageInv, RowsInv, Opened
    <3> QED
      BY <3>1, <3>2, PagesStay
  <2> QED
    BY <1>5, <2>2, <2>3, <2>4 DEF GetJobResult
<1>6. CASE EngineStep
  BY <1>6, EngineKeepsPages DEF SessionInv
<1>7. CASE EngineSettles \/ RecordExpires \/ RedisTurns
  BY <1>1, <1>7 DEF EngineSettles, RecordExpires, RedisTurns, Backend!Close, pageVars
<1> QED
  BY <1>2, <1>3, <1>4, <1>5, <1>6, <1>7 DEF SessionNext

LEMMA PagesAreInvariant ==
  ASSUME RowsFit
  PROVE  SessionSpec => []PageInv
<1>1. SessionInv /\ PageInv /\ [SessionNext]_sessionVars => PageInv'
  BY PageStep
<1> QED
  BY <1>1, PageInitial, SessionIsInvariant, PTL DEF SessionSpec

\* The pages a client reads follow each other without a gap and without a row
\* twice, for every page size, first page and width of the integers
\* (store.go:266-291).
THEOREM PagesFollow ==
  ASSUME RowsFit
  PROVE  SessionSpec => []PagesInOrder
<1>1. PageInv => PagesInOrder
  BY DEF PageInv, WalkInv, PagesInOrder, Counts
<1> QED
  BY <1>1, PagesAreInvariant, PTL

\* A walk that ends without a token has read every row after its first page, and
\* no walk that starts at a page that fits runs out of the integers
\* (store.go:276-291).
THEOREM WalkReadsAll ==
  ASSUME RowsFit
  PROVE  SessionSpec => []DoneReadsAll
<1>1. PageInv => DoneReadsAll
  BY DEF PageInv, WalkInv, DoneReadsAll
<1> QED
  BY <1>1, PagesAreInvariant, PTL

(***************************************************************************)
(* Listings.  There are fewer rows than an int32 counts.                   *)
(***************************************************************************)
TableFits == IsFiniteSet(Pool) /\ Cardinality(Pool) < Half

\* An order of a set names each of its elements once.
LEMMA OrderNamesAll ==
  ASSUME NEW S, IsFiniteSet(S), NEW s \in ByCreation(S)
  PROVE  /\ Cardinality(S) \in Nat /\ s \in Seq(S) /\ Len(s) = Cardinality(S)
         /\ \A i, j \in 1 .. Len(s) : s[i] = s[j] => i = j
         /\ \A r \in S : \E i \in 1 .. Len(s) : s[i] = r
<1> DEFINE n == Cardinality(S)
<1>1. n \in Nat
  BY FS_CardinalityType
<1>2. s \in [1 .. n -> S] /\ \A i, j \in 1 .. n : i < j => s[i] # s[j]
  BY DEF ByCreation
<1> HIDE DEF n
<1>3. s \in Seq(S) /\ Len(s) = n
  BY <1>1, <1>2
<1>4. \A i, j \in 1 .. n : s[i] = s[j] => i = j
  BY <1>1, <1>2
<1>5. s \in Injection(1 .. n, S)
  BY <1>2, <1>4 DEF Injection, IsInjective
<1>6. Cardinality(1 .. n) = n
  BY <1>1, FS_Interval
<1>7. s \in Surjection(1 .. n, S)
  BY <1>5, <1>6, FS_Injection DEF n
<1> QED
  BY <1>1, <1>3, <1>4, <1>7 DEF n, Surjection

\* How many come before a row: those that are later.
Before(r, S) == Cardinality({q \in S : q.at > r.at})

LEMMA PlaceInOrder ==
  ASSUME NEW S \in SUBSET Pool, IsFiniteSet(S), Untied(S), NEW s \in ByCreation(S),
         NEW i \in 1 .. Len(s)
  PROVE  Before(s[i], S) = i - 1
<1> DEFINE T == {q \in S : q.at > s[i].at}
           f == [j \in 1 .. i - 1 |-> s[j]]
<1>1. /\ Cardinality(S) \in Nat /\ s \in Seq(S) /\ Len(s) = Cardinality(S)
      /\ \A j, k \in 1 .. Len(s) : s[j] = s[k] => j = k
      /\ \A r \in S : \E j \in 1 .. Len(s) : s[j] = r
  BY OrderNamesAll
<1>2. \A j, k \in 1 .. Len(s) : j < k => s[j].at >= s[k].at
  BY <1>1 DEF ByCreation
<1>3. \A r \in S : r.at \in Nat
  BY ListingAssumption
<1>4. \A j \in 1 .. Len(s) : s[j] \in S
  BY <1>1
<1>5. ASSUME NEW j \in 1 .. i - 1
      PROVE  s[j] \in T
  <2>1. j \in 1 .. Len(s) /\ j < i
    BY <1>1, <1>5
  <2>2. s[j].at >= s[i].at /\ s[j] # s[i] /\ s[j] \in S /\ s[i] \in S
    BY <1>1, <1>2, <1>4, <2>1
  <2>3. s[j].at # s[i].at
    BY <2>2 DEF Untied
  <2> QED
    BY <1>3, <2>2, <2>3
<1>6. ASSUME NEW q \in T
      PROVE  \E j \in 1 .. i - 1 : s[j] = q
  <2>1. PICK j \in 1 .. Len(s) : s[j] = q
    BY <1>1
  <2>2. ~(i <= j)
    BY <1>2, <1>3, <1>4, <2>1
  <2> QED
    BY <1>1, <2>1, <2>2
<1>7. f \in [1 .. i - 1 -> T]
  BY <1>5
<1>8. \A j, k \in 1 .. i - 1 : f[j] = f[k] => j = k
  <2>1. \A j \in 1 .. i - 1 : j \in 1 .. Len(s)
    BY <1>1
  <2> QED
    BY <1>1, <2>1
<1>9. f \in Bijection(1 .. i - 1, T)
  BY <1>6, <1>7, <1>8 DEF Bijection, Injection, Surjection, IsInjective
<1>10. IsFiniteSet(1 .. i - 1) /\ Cardinality(1 .. i - 1) = i - 1
  <2>1. i \in Nat \ {0}
    BY <1>1
  <2> QED
    BY <2>1, FS_Interval
<1> QED
  BY <1>9, <1>10, FS_Bijection DEF Before, ExistsBijection

\* A page is a piece of the order, the last one if it is short.
LEMMA PageOfOrder ==
  ASSUME NEW S, NEW s \in Seq(S), NEW offset \in Nat, NEW limit \in Nat \ {0},
         NEW some, some = Page(s, limit, offset)
  PROVE  /\ some \in Seq(S) /\ Len(some) <= limit
         /\ \A k \in 1 .. Len(some) : offset + k \in 1 .. Len(s) /\ some[k] = s[offset + k]
         /\ Len(some) < limit => Len(s) <= offset + Len(some)
         /\ Len(some) > 0 => offset + Len(some) <= Len(s)
<1> DEFINE e == IF offset + limit > Len(s) THEN Len(s) ELSE offset + limit
<1>1. Len(s) \in Nat /\ e \in Nat /\ e <= Len(s) /\ (e = Len(s) \/ e = offset + limit)
      /\ e <= offset + limit
  OBVIOUS
<1>2. some = SubSeq(s, offset + 1, e)
  BY DEF Page
<1> HIDE DEF e
<1>3. \A i \in offset + 1 .. e : s[i] \in S
  BY <1>1
<1>4. /\ some \in Seq(S) /\ Len(some) = IF offset + 1 <= e THEN e - offset ELSE 0
      /\ \A k \in 1 .. e - offset : some[k] = s[offset + k]
  <2>1. /\ SubSeq(s, offset + 1, e) \in Seq(S)
        /\ Len(SubSeq(s, offset + 1, e)) = IF offset + 1 <= e THEN e - (offset + 1) + 1 ELSE 0
        /\ \A k \in 1 .. e - (offset + 1) + 1 : SubSeq(s, offset + 1, e)[k] = s[(offset + 1) + k - 1]
    BY <1>1, <1>3, SubSeqProperties
  <2>2. e - (offset + 1) + 1 = e - offset /\ \A k \in Int : (offset + 1) + k - 1 = offset + k
    BY <1>1
  <2> QED
    BY <1>2, <2>1, <2>2
<1> QED
  BY <1>1, <1>4

Begun == walk.step # "none"

WalkType ==
  [step: {"walking", "done", "failed"}, of: {"connections", "workspaces"}, via: {"rest", "mcp"},
   stops: {"empty", "short"}, limit: Limits, first: FirstOffsets, offset: Nat, seen: Seq(Pool),
   was: SUBSET Pool, new: SUBSET Pool, gone: SUBSET Pool]

\* The client's rows that were there at some time of the walk.
Ever == Own(walk.was \cup walk.new)

\* What the promise of a walk takes for granted.
Exact == walk.first = 0 /\ Asked < Half /\ Untied(Ever)

WalkTypeOK == Begun => walk \in WalkType /\ table = (walk.was \cup walk.new) \ walk.gone

\* Only own rows are listed, and the offset counts them.
SeenInv ==
  Begun => /\ Listed \subseteq Ever /\ walk.offset = Len(walk.seen)
           /\ walk.first = 0 => walk.offset <= Cardinality(Pool)

\* While nothing is deleted, a row that is not listed yet comes after the offset.
CompleteInv ==
  Begun /\ Exact /\ Own(walk.gone) = {} =>
    /\ \A r \in Own(walk.was) : r \in Listed \/ walk.offset <= Before(r, Own(table))
    /\ walk.step = "done" => Own(walk.was) \subseteq Listed

\* While nothing is added, a row that is listed comes before it.
OnceInv ==
  Begun /\ Exact /\ Own(walk.new) = {} =>
    /\ \A i, j \in DOMAIN walk.seen : walk.seen[i] = walk.seen[j] => i = j
    /\ \A r \in Listed \cap table : Before(r, Own(table)) < walk.offset

ListInv == WalkTypeOK /\ SeenInv /\ CompleteInv /\ OnceInv

\* A set of rows and what comes before a row of it are finite.
LEMMA BeforeCounts ==
  ASSUME TableFits, NEW S \in SUBSET Pool, NEW T \in SUBSET S, NEW r
  PROVE  /\ IsFiniteSet(S) /\ Cardinality(S) \in Nat /\ Cardinality(S) <= Cardinality(Pool)
         /\ Before(r, S) \in Nat /\ Before(r, T) \in Nat /\ Before(r, T) <= Before(r, S)
<1>1. IsFiniteSet(S) /\ Cardinality(S) \in Nat /\ Cardinality(S) <= Cardinality(Pool)
  BY FS_Subset, FS_CardinalityType DEF TableFits
<1> DEFINE B == {q \in S : q.at > r.at}
           C == {q \in T : q.at > r.at}
<1>2. B \in SUBSET S /\ C \in SUBSET B
  OBVIOUS
<1> HIDE DEF B, C
<1>3. IsFiniteSet(B) /\ Cardinality(B) \in Nat
  BY <1>1, <1>2, FS_Subset, FS_CardinalityType
<1>4. IsFiniteSet(C) /\ Cardinality(C) \in Nat /\ Cardinality(C) <= Cardinality(B)
  BY <1>2, <1>3, FS_Subset, FS_CardinalityType
<1> QED
  BY <1>1, <1>3, <1>4 DEF Before, B, C

\* What one page does to a walk.
LEMMA PageAdds ==
  ASSUME TableFits, TokenInv, ListInv, ListPage
  PROVE  \E s \in ByCreation(Own(table)), o \in Nat, limit \in Nat \ {0} :
           LET some == Page(s, limit, o)
           IN  /\ walk' = [walk EXCEPT !.seen = @ \o some, !.offset = @ + Len(some),
                                       !.step = IF Stops(some) THEN "done" ELSE @]
               /\ walk.first = 0 => o = walk.offset
               /\ Asked < Half => limit = Asked
<1>1. /\ walk.step = "walking" /\ Tenant = "alice"
  BY DEF ListPage, Walking, Tenant, TokenInv, Authorized
<1>2. walk \in WalkType /\ walk.offset \in Nat /\ walk.limit \in Int /\ walk.first \in Int
  BY <1>1, ListingAssumption DEF ListInv, WalkTypeOK, Begun, WalkType
<1>3. Matching(walk.of, Tenant) = Own(table)
  BY <1>1 DEF Matching, Own
<1> DEFINE limit == MetaLimit(GatewayLimit(walk.limit))
           o     == GatewayOffset(walk.via, walk.first + walk.offset)
<1>4. Half \in Nat \ {0} /\ DefaultLimit \in 1 .. Half - 1
  BY PageAssumption, ListingAssumption
<1>5. Asked \in Nat \ {0} /\ GatewayLimit(walk.limit) = Int32(Asked)
  BY <1>2, <1>4 DEF Asked, GatewayLimit
<1>6. Int32(Asked) \in Int /\ (Asked < Half => Int32(Asked) = Asked)
  BY <1>4, <1>5, Narrowed DEF InInt32
<1>7. limit \in Nat \ {0} /\ (Asked < Half => limit = Asked)
  BY <1>4, <1>5, <1>6 DEF MetaLimit
<1>8. o \in Int
  BY <1>2, <1>4, Narrowed DEF GatewayOffset, InInt32
<1>9. walk.first = 0 => o = walk.offset
  <2> SUFFICES ASSUME walk.first = 0 PROVE o = walk.offset
    OBVIOUS
  <2>1. walk.offset <= Cardinality(Pool) /\ Cardinality(Pool) < Half /\ Cardinality(Pool) \in Nat
    BY <1>1, FS_CardinalityType DEF ListInv, SeenInv, Begun, TableFits
  <2>2. Int32(walk.offset) = walk.offset
    BY <1>2, <1>4, <2>1, Narrowed DEF InInt32
  <2> QED
    BY <1>2, <2>2 DEF GatewayOffset
<1>10. /\ o >= 0
       /\ \E s \in ByCreation(Own(table)) :
            walk' = [walk EXCEPT !.seen = @ \o Page(s, limit, o), !.offset = @ + Len(Page(s, limit, o)),
                                 !.step = IF Stops(Page(s, limit, o)) THEN "done" ELSE @]
  BY <1>3 DEF ListPage
<1> HIDE DEF o, limit
<1>11. o \in Nat
  BY <1>8, <1>10
<1> QED
  BY <1>7, <1>9, <1>10, <1>11

\* The rows of a page follow those that were listed.
LEMMA ListedGrows ==
  ASSUME NEW seen \in Seq(Pool), NEW some \in Seq(Pool)
  PROVE  /\ seen \o some \in Seq(Pool) /\ Len(seen \o some) = Len(seen) + Len(some)
         /\ \A i \in 1 .. Len(seen) : (seen \o some)[i] = seen[i]
         /\ \A k \in 1 .. Len(some) : (seen \o some)[Len(seen) + k] = some[k]
         /\ \A i \in 1 .. Len(seen \o some) :
              i \in 1 .. Len(seen) \/ \E k \in 1 .. Len(some) : i = Len(seen) + k
<1> DEFINE both == seen \o some
<1>1. /\ Len(seen) \in Nat /\ Len(some) \in Nat
      /\ both \in Seq(Pool) /\ Len(both) = Len(seen) + Len(some)
      /\ \A i \in 1 .. Len(seen) + Len(some) :
           both[i] = IF i <= Len(seen) THEN seen[i] ELSE some[i - Len(seen)]
  BY ConcatProperties
<1>2. \A k \in 1 .. Len(some) : Len(seen) + k \in 1 .. Len(seen) + Len(some)
                                 /\ (Len(seen) + k) - Len(seen) = k /\ ~(Len(seen) + k <= Len(seen))
  BY <1>1
<1>3. ASSUME NEW i \in 1 .. Len(both), i \notin 1 .. Len(seen)
      PROVE  \E k \in 1 .. Len(some) : i = Len(seen) + k
  <2>1. i - Len(seen) \in 1 .. Len(some) /\ i = Len(seen) + (i - Len(seen))
    BY <1>1, <1>3
  <2> QED
    BY <2>1
<1> QED
  BY <1>1, <1>2, <1>3

LEMMA ListPageKeeps ==
  ASSUME TableFits, TokenInv, ListInv, ListPage
  PROVE  ListInv'
<1>1. Begun /\ walk \in WalkType /\ table = (walk.was \cup walk.new) \ walk.gone /\ table' = table
      /\ walk.step = "walking"
  BY DEF ListInv, WalkTypeOK, ListPage, Walking, Begun
<1>2. PICK s \in ByCreation(Own(table)), o \in Nat, limit \in Nat \ {0} :
        /\ walk' = [walk EXCEPT !.seen = @ \o Page(s, limit, o), !.offset = @ + Len(Page(s, limit, o)),
                                !.step = IF Stops(Page(s, limit, o)) THEN "done" ELSE @]
        /\ walk.first = 0 => o = walk.offset
        /\ Asked < Half => limit = Asked
  BY PageAdds
<1> DEFINE some == Page(s, limit, o)
           own  == Own(table)
<1>3. /\ walk'.seen = walk.seen \o some /\ walk'.offset = walk.offset + Len(some)
      /\ walk'.step = IF Stops(some) THEN "done" ELSE "walking"
      /\ walk'.was = walk.was /\ walk'.new = walk.new /\ walk'.gone = walk.gone /\ walk'.of = walk.of
      /\ walk'.first = walk.first /\ walk'.limit = walk.limit /\ walk'.stops = walk.stops
      /\ walk'.via = walk.via
  BY <1>1, <1>2 DEF WalkType
<1>4. own \in SUBSET Pool /\ own \subseteq Ever /\ IsFiniteSet(own) /\ Cardinality(own) <= Cardinality(Pool)
      /\ Cardinality(own) \in Nat
  <2>1. own \in SUBSET Pool /\ own \subseteq Ever
    BY <1>1 DEF Own, Ever, WalkType
  <2> QED
    BY <2>1, BeforeCounts
<1>5. /\ s \in Seq(own) /\ Len(s) = Cardinality(own)
      /\ \A i, j \in 1 .. Len(s) : s[i] = s[j] => i = j
      /\ \A r \in own : \E i \in 1 .. Len(s) : s[i] = r
  BY <1>4, OrderNamesAll
<1> HIDE DEF own, some
<1>6. /\ some \in Seq(own) /\ Len(some) <= limit /\ Len(some) \in Nat
      /\ \A k \in 1 .. Len(some) : o + k \in 1 .. Len(s) /\ some[k] = s[o + k]
      /\ Len(some) < limit => Len(s) <= o + Len(some)
      /\ Len(some) > 0 => o + Len(some) <= Len(s)
  <2>1. s \in Seq(own) /\ o \in Nat /\ limit \in Nat \ {0} /\ some = Page(s, limit, o)
    BY <1>2, <1>5 DEF some
  <2> QED
    BY <2>1, PageOfOrder
<1>7. /\ walk.seen \in Seq(Pool) /\ some \in Seq(Pool) /\ walk.offset \in Nat
      /\ \A k \in 1 .. Len(some) : some[k] \in own
  BY <1>1, <1>4, <1>6 DEF WalkType
<1>8. /\ walk'.seen \in Seq(Pool) /\ Len(walk'.seen) = Len(walk.seen) + Len(some)
      /\ \A i \in 1 .. Len(walk.seen) : walk'.seen[i] = walk.seen[i]
      /\ \A k \in 1 .. Len(some) : walk'.seen[Len(walk.seen) + k] = some[k]
      /\ \A i \in 1 .. Len(walk'.seen) :
           i \in 1 .. Len(walk.seen) \/ \E k \in 1 .. Len(some) : i = Len(walk.seen) + k
  <2>1. /\ walk.seen \o some \in Seq(Pool) /\ Len(walk.seen \o some) = Len(walk.seen) + Len(some)
        /\ \A i \in 1 .. Len(walk.seen) : (walk.seen \o some)[i] = walk.seen[i]
        /\ \A k \in 1 .. Len(some) : (walk.seen \o some)[Len(walk.seen) + k] = some[k]
        /\ \A i \in 1 .. Len(walk.seen \o some) :
             i \in 1 .. Len(walk.seen) \/ \E k \in 1 .. Len(some) : i = Len(walk.seen) + k
    BY <1>7, ListedGrows
  <2> QED
    BY <1>3, <2>1, Zenon
<1>9. /\ Listed \subseteq Listed' /\ \A k \in 1 .. Len(some) : some[k] \in Listed'
      /\ \A r \in Listed' : r \in Listed \/ \E k \in 1 .. Len(some) : r = some[k]
  <2>1. /\ DOMAIN walk.seen = 1 .. Len(walk.seen) /\ DOMAIN walk'.seen = 1 .. Len(walk'.seen)
        /\ Len(walk.seen) \in Nat
    BY <1>7, <1>8
  <2>2. /\ \A i \in 1 .. Len(walk.seen) : i \in 1 .. Len(walk'.seen)
        /\ \A k \in 1 .. Len(some) : Len(walk.seen) + k \in 1 .. Len(walk'.seen)
    BY <1>6, <1>8, <2>1
  <2>3. Listed = {walk.seen[i] : i \in 1 .. Len(walk.seen)}
    BY <2>1 DEF Listed
  <2>4. Listed' = {walk'.seen[i] : i \in 1 .. Len(walk'.seen)}
    BY <2>1 DEF Listed
  <2>5. Listed \subseteq Listed'
    BY <1>8, <2>2, <2>3, <2>4
  <2>6. \A k \in 1 .. Len(some) : some[k] \in Listed'
    BY <1>8, <2>2, <2>4
  <2>7. ASSUME NEW r \in Listed' PROVE r \in Listed \/ \E k \in 1 .. Len(some) : r = some[k]
    <3>1. PICK i \in 1 .. Len(walk'.seen) : r = walk'.seen[i]
      BY <2>4, <2>7
    <3> QED
      BY <1>8, <2>3, <3>1
  <2> QED
    BY <2>5, <2>6, <2>7
<1>10. WalkTypeOK'
  <2>1. walk' \in WalkType
    <3>1. walk' = [walk EXCEPT !.seen = walk'.seen, !.offset = walk'.offset, !.step = walk'.step]
      BY <1>1, <1>2, <1>3 DEF WalkType, some
    <3>2. walk'.seen \in Seq(Pool) /\ walk'.offset \in Nat /\ walk'.step \in {"walking", "done"}
      BY <1>3, <1>6, <1>7, <1>8
    <3> QED
      BY <1>1, <3>1, <3>2 DEF WalkType
  <2> QED
    BY <1>1, <1>3, <2>1 DEF WalkTypeOK
<1>11. SeenInv'
  <2>1. /\ Listed \subseteq Ever /\ walk.offset = Len(walk.seen)
        /\ walk.first = 0 => walk.offset <= Cardinality(Pool)
    BY <1>1 DEF ListInv, SeenInv
  <2>2. Ever' = Ever
    BY <1>3 DEF Ever, Own
  <2>3. Listed' \subseteq Ever'
    BY <1>4, <1>7, <1>9, <2>1, <2>2
  <2>4. Cardinality(Pool) \in Nat
    BY FS_CardinalityType DEF TableFits
  <2>5. walk.first = 0 => walk'.offset <= Cardinality(Pool)
    BY <1>2, <1>3, <1>4, <1>5, <1>6, <1>7, <2>1, <2>4
  <2> QED
    BY <1>3, <1>8, <2>1, <2>3, <2>5 DEF SeenInv
<1>12. ASSUME Exact'
       PROVE  /\ Exact /\ o = walk.offset /\ limit = Asked /\ Asked' = Asked
              /\ Untied(own) /\ Own(table)' = own
  BY <1>1, <1>2, <1>3, <1>4, <1>12 DEF Exact, Asked, Ever, Own, Untied, own
<1>13. ASSUME NEW i \in 1 .. Len(s), Untied(own)
       PROVE  Before(s[i], own) = i - 1
  <2>1. s \in ByCreation(own)
    BY DEF own
  <2> QED
    BY <1>4, <1>13, <2>1, PlaceInOrder
<1>14. CompleteInv'
  <2> SUFFICES ASSUME Exact', Own(walk.gone)' = {}
               PROVE  /\ \A r \in Own(walk.was)' : r \in Listed' \/ walk'.offset <= Before(r, own)
                      /\ walk'.step = "done" => Own(walk.was)' \subseteq Listed'
    BY <1>12 DEF CompleteInv
  <2>1. /\ Exact /\ o = walk.offset /\ limit = Asked /\ Asked \in Nat \ {0} /\ Untied(own)
    BY <1>12
  <2>2. Own(walk.was)' = Own(walk.was) /\ Own(walk.gone) = {}
    BY <1>3 DEF Own
  <2>3. \A r \in Own(walk.was) : r \in Listed \/ o <= Before(r, own)
    BY <1>1, <2>1, <2>2 DEF ListInv, CompleteInv, own
  <2>4. Own(walk.was) \subseteq own
    BY <1>1, <2>2 DEF Own, own
  <2>5. ASSUME NEW r \in Own(walk.was), r \notin Listed'
        PROVE  o + Len(some) <= Before(r, own) /\ Before(r, own) < Len(s)
    <3>1. PICK i \in 1 .. Len(s) : s[i] = r
      BY <1>5, <2>4
    <3>2. Before(r, own) = i - 1 /\ o <= i - 1
      BY <1>9, <1>13, <2>1, <2>3, <2>5, <3>1
    <3>3. i \in Nat /\ i <= Len(s) /\ Len(s) \in Nat
      BY <1>4, <1>5
    <3>4. ~(i <= o + Len(some))
      <4> SUFFICES ASSUME i <= o + Len(some) PROVE FALSE
        OBVIOUS
      <4>1. i - o \in 1 .. Len(some) /\ o + (i - o) = i
        BY <1>6, <3>2, <3>3
      <4>2. some[i - o] = r
        BY <1>6, <3>1, <4>1
      <4> QED
        BY <1>9, <2>5, <4>1, <4>2
    <3> QED
      BY <1>6, <3>2, <3>3, <3>4
  <2>6. \A r \in Own(walk.was) : r \in Listed' \/ walk'.offset <= Before(r, own)
    BY <1>3, <2>1, <2>5
  <2>7. ASSUME walk'.step = "done" PROVE Own(walk.was) \subseteq Listed'
    <3>1. Len(some) < limit
      <4>1. Stops(some)
        BY <1>3, <2>7
      <4> QED
        BY <1>6, <2>1, <4>1 DEF Stops
    <3>2. Len(s) <= o + Len(some) /\ Len(s) \in Nat
      BY <1>4, <1>5, <1>6, <3>1
    <3> SUFFICES ASSUME NEW r \in Own(walk.was), r \notin Listed' PROVE FALSE
      OBVIOUS
    <3>3. o + Len(some) <= Before(r, own) /\ Before(r, own) < Len(s) /\ Before(r, own) \in Nat
      BY <1>4, <2>5, BeforeCounts
    <3> QED
      BY <1>6, <3>2, <3>3
  <2> QED
    BY <2>2, <2>6, <2>7
<1>15. OnceInv'
  <2> SUFFICES ASSUME Exact', Own(walk.new)' = {}
               PROVE  /\ \A i, j \in DOMAIN walk'.seen : walk'.seen[i] = walk'.seen[j] => i = j
                      /\ \A r \in Listed' \cap table : Before(r, own) < walk'.offset
    BY <1>1, <1>12 DEF OnceInv
  <2>1. Exact /\ o = walk.offset /\ Untied(own) /\ Own(walk.new) = {}
    BY <1>3, <1>12 DEF Own
  <2>2. /\ \A i, j \in 1 .. Len(walk.seen) : walk.seen[i] = walk.seen[j] => i = j
        /\ \A r \in Listed \cap table : Before(r, own) < o
    <3>1. DOMAIN walk.seen = 1 .. Len(walk.seen)
      BY <1>7
    <3> QED
      BY <1>1, <2>1, <3>1 DEF ListInv, OnceInv, own
  <2>3. ASSUME NEW k \in 1 .. Len(some)
        PROVE  Before(some[k], own) = o + k - 1
    <3>1. o + k \in 1 .. Len(s) /\ some[k] = s[o + k]
      BY <1>6
    <3>2. Before(s[o + k], own) = o + k - 1
      BY <1>13, <2>1, <3>1
    <3> QED
      BY <3>1, <3>2
  <2>4. own \subseteq table
    BY DEF own, Own
  <2>5. \A r \in Listed' \cap table : Before(r, own) < o + Len(some)
    <3> SUFFICES ASSUME NEW r \in Listed' \cap table PROVE Before(r, own) < o + Len(some)
      OBVIOUS
    <3>1. CASE r \in Listed
      <4>1. Before(r, own) < o /\ Before(r, own) \in Nat
        BY <1>4, <2>2, <3>1, BeforeCounts
      <4> QED
        BY <1>6, <4>1
    <3>2. ASSUME NEW k \in 1 .. Len(some), r = some[k] PROVE Before(r, own) < o + Len(some)
      BY <1>6, <2>3, <3>2
    <3> QED
      BY <1>9, <3>1, <3>2
  <2>6. \A k \in 1 .. Len(some), i \in 1 .. Len(walk.seen) : some[k] # walk.seen[i]
    <3> SUFFICES ASSUME NEW k \in 1 .. Len(some), NEW i \in 1 .. Len(walk.seen), some[k] = walk.seen[i]
                 PROVE  FALSE
      OBVIOUS
    <3>1. walk.seen[i] \in Listed
      BY <1>7 DEF Listed
    <3>2. Before(some[k], own) < o
      BY <1>7, <2>2, <2>4, <3>1
    <3> QED
      BY <1>6, <2>3, <3>2
  <2>7. \A k, l \in 1 .. Len(some) : some[k] = some[l] => k = l
    <3> SUFFICES ASSUME NEW k \in 1 .. Len(some), NEW l \in 1 .. Len(some), some[k] = some[l]
                 PROVE  k = l
      OBVIOUS
    <3>1. o + k = o + l
      BY <1>5, <1>6
    <3> QED
      BY <3>1
  <2>8. ASSUME NEW i \in 1 .. Len(walk'.seen), NEW j \in 1 .. Len(walk'.seen),
               walk'.seen[i] = walk'.seen[j]
        PROVE  i = j
    <3>1. CASE i \in 1 .. Len(walk.seen) /\ j \in 1 .. Len(walk.seen)
      BY <1>8, <2>2, <2>8, <3>1
    <3>2. ASSUME NEW k \in 1 .. Len(some), i = Len(walk.seen) + k, j \in 1 .. Len(walk.seen)
          PROVE  FALSE
      BY <1>8, <2>6, <2>8, <3>2
    <3>3. ASSUME NEW k \in 1 .. Len(some), j = Len(walk.seen) + k, i \in 1 .. Len(walk.seen)
          PROVE  FALSE
      BY <1>8, <2>6, <2>8, <3>3
    <3>4. ASSUME NEW k \in 1 .. Len(some), NEW l \in 1 .. Len(some),
                 i = Len(walk.seen) + k, j = Len(walk.seen) + l
          PROVE  i = j
      BY <1>8, <2>7, <2>8, <3>4
    <3> QED
      BY <1>8, <3>1, <3>2, <3>3, <3>4
  <2>9. DOMAIN walk'.seen = 1 .. Len(walk'.seen)
    BY <1>8
  <2> QED
    BY <1>3, <2>1, <2>5, <2>8, <2>9
<1> QED
  BY <1>10, <1>11, <1>14, <1>15 DEF ListInv

LEMMA WalkStarts ==
  ASSUME TableFits, StartListing
  PROVE  ListInv'
<1>1. /\ table' \in SUBSET Pool
      /\ walk' \in [step: {"walking"}, of: {"connections", "workspaces"}, via: {"rest", "mcp"},
                    stops: {"empty", "short"}, limit: Limits, first: FirstOffsets,
                    offset: {0}, seen: {<<>>}, was: {table'}, new: {{}}, gone: {{}}]
  BY DEF StartListing
<1>2. /\ walk'.step = "walking" /\ walk'.offset = 0 /\ walk'.seen = <<>>
      /\ walk'.was = table' /\ walk'.new = {} /\ walk'.gone = {}
  BY <1>1
<1>3. <<>> \in Seq(Pool) /\ Len(<<>>) = 0 /\ DOMAIN walk'.seen = {}
  BY <1>2
<1>4. walk' \in WalkType
  <2>1. /\ {"walking"} \subseteq {"walking", "done", "failed"} /\ {0} \subseteq Nat
        /\ {<<>>} \subseteq Seq(Pool) /\ {table'} \subseteq SUBSET Pool /\ {{}} \subseteq SUBSET Pool
    BY <1>1, <1>3
  <2> QED
    BY <1>1, <2>1 DEF WalkType
<1>5. Listed' = {}
  BY <1>3 DEF Listed
<1>6. Cardinality(Pool) \in Nat
  BY FS_CardinalityType DEF TableFits
<1>7. WalkTypeOK' /\ SeenInv' /\ OnceInv'
  BY <1>2, <1>3, <1>4, <1>5, <1>6 DEF WalkTypeOK, SeenInv, OnceInv
<1>8. ASSUME NEW r PROVE 0 <= Before(r, Own(table)')
  <2>1. Own(table)' \in SUBSET Pool
    BY <1>1 DEF Own
  <2>2. Before(r, Own(table)') \in Nat
    BY <2>1, BeforeCounts
  <2> QED
    BY <2>2
<1>9. CompleteInv'
  BY <1>2, <1>8 DEF CompleteInv
<1> QED
  BY <1>7, <1>9 DEF ListInv

LEMMA WalkFails ==
  ASSUME ListInv, ListFails
  PROVE  ListInv'
<1>1. Begun /\ walk \in WalkType /\ walk.step = "walking"
  BY DEF ListInv, WalkTypeOK, ListFails, Walking, Begun
<1>2. walk' \in WalkType /\ walk' = [walk EXCEPT !.step = "failed"] /\ table' = table
  BY <1>1 DEF ListFails, WalkType
<1>3. /\ walk'.step = "failed" /\ walk'.offset = walk.offset /\ walk'.seen = walk.seen
      /\ walk'.was = walk.was /\ walk'.new = walk.new /\ walk'.gone = walk.gone /\ walk'.of = walk.of
      /\ walk'.first = walk.first /\ walk'.limit = walk.limit
  BY <1>1, <1>2 DEF WalkType
<1>4. /\ Listed' = Listed /\ Ever' = Ever /\ (Exact' <=> Exact) /\ \A S : Own(S)' = Own(S)
  BY <1>2, <1>3 DEF Listed, Ever, Exact, Own, Asked, Untied
<1>5. /\ Own(table)' = Own(table) /\ Own(walk.gone)' = Own(walk.gone)
      /\ Own(walk.new)' = Own(walk.new) /\ Own(walk.was)' = Own(walk.was)
  BY <1>2, <1>3 DEF Own
<1>6. WalkTypeOK' /\ SeenInv'
  BY <1>1, <1>2, <1>3, <1>4 DEF ListInv, WalkTypeOK, SeenInv
<1>7. CompleteInv'
  BY <1>1, <1>3, <1>4, <1>5 DEF ListInv, CompleteInv
<1>8. OnceInv'
  BY <1>1, <1>2, <1>3, <1>4, <1>5 DEF ListInv, OnceInv
<1> QED
  BY <1>6, <1>7, <1>8 DEF ListInv

\* A new row moves others back: none is skipped, but one may come again.
LEMMA RowComes ==
  ASSUME TableFits, ListInv, ConnectionComes
  PROVE  ListInv'
<1>1. /\ Begun /\ walk \in WalkType /\ walk.step = "walking"
      /\ table = (walk.was \cup walk.new) \ walk.gone
  BY DEF ListInv, WalkTypeOK, ConnectionComes, Walking, Begun
<1>2. PICK r \in Pool \ (table \cup walk.gone) :
        table' = table \cup {r} /\ walk' = [walk EXCEPT !.new = @ \cup {r}]
  BY DEF ConnectionComes
<1>3. /\ walk'.step = "walking" /\ walk'.offset = walk.offset /\ walk'.seen = walk.seen
      /\ walk'.was = walk.was /\ walk'.new = walk.new \cup {r} /\ walk'.gone = walk.gone
      /\ walk'.of = walk.of /\ walk'.first = walk.first /\ walk'.limit = walk.limit
  BY <1>1, <1>2 DEF WalkType
<1>4. walk' \in WalkType
  BY <1>1, <1>2 DEF WalkType
<1>5. Listed' = Listed /\ Ever \subseteq Ever' /\ (Exact' => Exact)
  BY <1>3 DEF Listed, Ever, Exact, Own, Asked, Untied
<1>6. /\ Own(table) \in SUBSET Pool /\ Own(table)' \in SUBSET Pool /\ Own(table) \subseteq Own(table)'
      /\ Own(walk.gone)' = Own(walk.gone) /\ Own(walk.was)' = Own(walk.was)
  BY <1>1, <1>2, <1>3 DEF Own, WalkType
<1>7. WalkTypeOK' /\ SeenInv'
  BY <1>1, <1>2, <1>3, <1>4, <1>5 DEF ListInv, WalkTypeOK, SeenInv
<1>8. CompleteInv'
  <2> SUFFICES ASSUME Exact', Own(walk.gone)' = {}, NEW q \in Own(walk.was)', q \notin Listed'
               PROVE  walk'.offset <= Before(q, Own(table)')
    BY <1>3 DEF CompleteInv
  <2>1. walk.offset <= Before(q, Own(table))
    BY <1>1, <1>5, <1>6 DEF ListInv, CompleteInv
  <2>2. /\ Before(q, Own(table)) \in Nat /\ Before(q, Own(table)') \in Nat
        /\ Before(q, Own(table)) <= Before(q, Own(table)')
    BY <1>6, BeforeCounts
  <2>3. walk.offset \in Nat
    BY <1>1 DEF WalkType
  <2> QED
    BY <1>3, <2>1, <2>2, <2>3
<1>9. OnceInv'
  <2> SUFFICES ASSUME Exact', Own(walk.new)' = {}
               PROVE  /\ \A i, j \in DOMAIN walk'.seen : walk'.seen[i] = walk'.seen[j] => i = j
                      /\ \A q \in Listed' \cap table' : Before(q, Own(table)') < walk'.offset
    BY DEF OnceInv
  <2>1. r \notin Ever' /\ Own(table)' = Own(table) /\ Own(walk.new) = {}
    <3>1. r \notin Own(walk.new)' /\ r \in walk'.new
      BY <1>3
    <3> QED
      BY <1>2, <1>3, <3>1 DEF Own, Ever
  <2>2. r \notin Listed
    BY <1>1, <1>5, <2>1 DEF ListInv, SeenInv
  <2> QED
    BY <1>1, <1>2, <1>3, <1>5, <2>1, <2>2 DEF ListInv, OnceInv
<1> QED
  BY <1>7, <1>8, <1>9 DEF ListInv

\* A deleted row moves others forward: none comes again, but one may be skipped.
LEMMA RowGoes ==
  ASSUME TableFits, ListInv, ConnectionGoes
  PROVE  ListInv'
<1>1. /\ Begun /\ walk \in WalkType /\ walk.step = "walking"
      /\ table = (walk.was \cup walk.new) \ walk.gone
  BY DEF ListInv, WalkTypeOK, ConnectionGoes, Walking, Begun
<1>2. PICK r \in table :
        table' = table \ {r} /\ walk' = [walk EXCEPT !.gone = @ \cup {r}]
  BY DEF ConnectionGoes
<1>3. /\ walk'.step = "walking" /\ walk'.offset = walk.offset /\ walk'.seen = walk.seen
      /\ walk'.was = walk.was /\ walk'.new = walk.new /\ walk'.gone = walk.gone \cup {r}
      /\ walk'.of = walk.of /\ walk'.first = walk.first /\ walk'.limit = walk.limit
  BY <1>1, <1>2 DEF WalkType
<1>4. walk' \in WalkType
  BY <1>1, <1>2 DEF WalkType
<1>5. Listed' = Listed /\ Ever' = Ever /\ (Exact' <=> Exact)
  BY <1>3 DEF Listed, Ever, Exact, Own, Asked, Untied
<1>6. /\ Own(table) \in SUBSET Pool /\ Own(table)' \in SUBSET Pool /\ Own(table)' \subseteq Own(table)
      /\ Own(walk.new)' = Own(walk.new) /\ Own(walk.was)' = Own(walk.was)
  BY <1>1, <1>2, <1>3 DEF Own, WalkType
<1>7. WalkTypeOK' /\ SeenInv'
  BY <1>1, <1>2, <1>3, <1>4, <1>5 DEF ListInv, WalkTypeOK, SeenInv
<1>8. CompleteInv'
  <2> SUFFICES ASSUME Exact', Own(walk.gone)' = {}, NEW q \in Own(walk.was)', q \notin Listed'
               PROVE  walk'.offset <= Before(q, Own(table)')
    BY <1>3 DEF CompleteInv
  <2>1. Own(table)' = Own(table) /\ Own(walk.gone) = {}
    <3>1. r \notin Own(walk.gone)' /\ r \in walk'.gone
      BY <1>3
    <3> QED
      BY <1>2, <1>3, <3>1 DEF Own
  <2> QED
    BY <1>1, <1>3, <1>5, <1>6, <2>1 DEF ListInv, CompleteInv
<1>9. OnceInv'
  <2> SUFFICES ASSUME Exact', Own(walk.new)' = {}
               PROVE  /\ \A i, j \in DOMAIN walk'.seen : walk'.seen[i] = walk'.seen[j] => i = j
                      /\ \A q \in Listed' \cap table' : Before(q, Own(table)') < walk'.offset
    BY DEF OnceInv
  <2>1. /\ \A i, j \in DOMAIN walk.seen : walk.seen[i] = walk.seen[j] => i = j
        /\ \A q \in Listed \cap table : Before(q, Own(table)) < walk.offset
    BY <1>1, <1>5, <1>6 DEF ListInv, OnceInv
  <2>2. ASSUME NEW q \in Listed' \cap table' PROVE Before(q, Own(table)') < walk'.offset
    <3>1. Before(q, Own(table)) < walk.offset /\ walk.offset \in Nat
      BY <1>1, <1>2, <1>5, <2>1, <2>2 DEF WalkType
    <3>2. /\ Before(q, Own(table)) \in Nat /\ Before(q, Own(table)') \in Nat
          /\ Before(q, Own(table)') <= Before(q, Own(table))
      BY <1>6, BeforeCounts
    <3> QED
      BY <1>3, <3>1, <3>2
  <2> QED
    BY <1>3, <2>1, <2>2
<1> QED
  BY <1>7, <1>8, <1>9 DEF ListInv

LEMMA WalkStays ==
  ASSUME ListInv, UNCHANGED listVars
  PROVE  ListInv'
<1>1. table' = table /\ walk' = walk
  BY DEF listVars
<1> QED
  BY <1>1 DEF ListInv, WalkTypeOK, SeenInv, CompleteInv, OnceInv, Begun, Exact, Ever, Listed, Own,
              Untied, Asked

LEMMA VisitStep ==
  ASSUME TableFits, SessionInv, ListInv, [VisitNext]_visitVars
  PROVE  ListInv'
<1>1. CASE UNCHANGED listVars
  BY <1>1, WalkStays
<1>2. CASE StartListing
  BY <1>2, WalkStarts
<1>3. CASE ListPage
  BY <1>3, ListPageKeeps DEF SessionInv
<1>4. CASE ListFails
  BY <1>4, WalkFails
<1>5. CASE ConnectionComes
  BY <1>5, RowComes
<1>6. CASE ConnectionGoes
  BY <1>6, RowGoes
<1> QED
  BY <1>1, <1>2, <1>3, <1>4, <1>5, <1>6 DEF VisitNext, visitVars

\* As many places as rows, when no row has two.
LEMMA ListedOnce ==
  ASSUME walk.seen \in Seq(Pool),
         \A i, j \in DOMAIN walk.seen : walk.seen[i] = walk.seen[j] => i = j
  PROVE  Len(walk.seen) = Cardinality(Listed)
<1> DEFINE n == Len(walk.seen)
<1>1. n \in Nat /\ DOMAIN walk.seen = 1 .. n
  OBVIOUS
<1>2. walk.seen \in [1 .. n -> Listed]
  BY <1>1 DEF Listed
<1>3. walk.seen \in Bijection(1 .. n, Listed)
  BY <1>1, <1>2 DEF Listed, Bijection, Injection, Surjection, IsInjective
<1>4. IsFiniteSet(1 .. n) /\ Cardinality(1 .. n) = n
  BY <1>1, FS_Interval
<1> QED
  BY <1>3, <1>4, FS_Bijection DEF ExistsBijection

\* A walk through a listing that ends names the rows that were there all the
\* time, once each, and none of another user (gateway.go:454-476).
THEOREM ListingIsWhole ==
  ASSUME TableFits
  PROVE  VisitSpec => []ListsWhatIsThere
<1>1. VisitInit => ListInv
  BY DEF VisitInit, NoWalk, ListInv, WalkTypeOK, SeenInv, CompleteInv, OnceInv, Begun
<1>2. SessionInv /\ ListInv /\ [VisitNext]_visitVars => ListInv'
  BY VisitStep
<1>3. ListInv => ListsWhatIsThere
  <2> SUFFICES ASSUME ListInv, walk.step = "done" PROVE ListsWhatIsThere
    BY DEF ListsWhatIsThere
  <2>1. Begun /\ walk.seen \in Seq(Pool)
    BY DEF ListInv, WalkTypeOK, WalkType, Begun
  <2>2. Listed \subseteq Ever
    BY <2>1 DEF ListInv, SeenInv
  <2>3. Exact /\ Own(walk.gone) = {} => Own(walk.was) \subseteq Listed
    BY <2>1 DEF ListInv, CompleteInv
  <2>4. Exact /\ Own(walk.new) = {} => Len(walk.seen) = Cardinality(Listed)
    BY <2>1, ListedOnce DEF ListInv, OnceInv
  <2> QED
    BY <2>2, <2>3, <2>4 DEF ListsWhatIsThere, Exact, Ever
<1> QED
  BY <1>1, <1>2, <1>3, VisitsAreSessions, SessionIsInvariant, PTL DEF VisitSpec
=============================================================================
