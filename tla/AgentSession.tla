----------------------------- MODULE AgentSession -----------------------------
(***************************************************************************)
(* A user and its agent at the gateway, from the first log-in to the last  *)
(* page of a result: tokens that expire, a query that is submitted under   *)
(* one token and read under another, the records of Redis that outlive     *)
(* nothing but their TTL.  The query engine behind the gateway is the      *)
(* abstract JobLifecycle; the pages are those of ResultPages.              *)
(*                                                                         *)
(* One job is followed.  The client has submitted it, or it has the ID of  *)
(* a job of somebody else by mistake.                                      *)
(***************************************************************************)
EXTENDS ResultPages

CONSTANTS
  Secured,     \* the gateway has a jwt_secret
  MaxExpiries, \* tokens that expire in a session
  MaxRuns      \* executions of the query

ASSUME SessionAssumption ==
  Secured \in BOOLEAN /\ MaxExpiries \in Nat /\ MaxRuns \in Nat

VARIABLES
  token,    \* the token the client holds, a record of the claims and its validity
  expiries, \* tokens expired so far
  owner,    \* Record.TenantID
  gone,     \* the record has expired
  redisUp,  \* Redis answers
  status, runs, closed

Backend == INSTANCE JobLifecycle WITH Jobs <- {"job"}

jobVars     == <<status, runs, closed, owner, gone, redisUp>>
tokenVars   == <<token, expiries>>
sessionVars == <<pageVars, jobVars, tokenVars>>

NoToken == [subject |-> "", user |-> "", valid |-> FALSE]

SessionInit ==
  /\ PageInit /\ step = "start"
  /\ Backend!Init /\ owner = "" /\ gone = FALSE /\ redisUp = TRUE
  /\ token = NoToken /\ expiries = 0

Ended == {"done", "failed", "refused", "notfound", "lost", "panic"}

\* jwtMiddleware: without a secret every request passes, with no user.
Authorized == Secured => token.valid

\* Slip: the subject of the token, which is the agent for an agent's token.
TenantFromSubject == IF Secured THEN token.subject ELSE ""

Tenant == IF Secured THEN token.user ELSE ""

(* Tokens. *)

UserToken == [subject |-> "alice", user |-> "alice", valid |-> TRUE]

\* The agent is the subject; the user stays whom the token acts for.
AgentToken(t) == [t EXCEPT !.subject = "bot"]

\* handleLogin issues a token for the user that meta-service found.
LogIn ==
  /\ Secured /\ ~token.valid /\ step \notin Ended
  /\ token' = UserToken
  /\ UNCHANGED <<expiries, pageVars, jobVars>>

\* The user hands a token of its own to its agent.
GenerateAgentToken ==
  /\ token.valid /\ token.subject # "bot" /\ step \notin Ended
  /\ token' = AgentToken(token)
  /\ UNCHANGED <<expiries, pageVars, jobVars>>

TokenExpires ==
  /\ token.valid /\ expiries < MaxExpiries
  /\ token' = [token EXCEPT !.valid = FALSE]
  /\ expiries' = expiries + 1
  /\ UNCHANGED <<pageVars, jobVars>>

(* Requests of the client. *)

Goes(to) == step' = to /\ UNCHANGED <<rows, reader, page, got>>

\* The query is accepted, or the client is told that it is not.
SubmitQuery ==
  /\ step = "start" /\ Authorized
  /\ \/ Backend!Accept("job") /\ owner' = Tenant /\ Goes("polling")
     \/ Goes("refused") /\ UNCHANGED <<status, runs, closed, owner>>
  /\ UNCHANGED <<gone, redisUp, tokenVars>>

\* Somebody else submits a job whose ID the client takes for its own.
ForeignQuery ==
  /\ step = "start"
  /\ Backend!Accept("job") /\ owner' = "carol" /\ Goes("polling")
  /\ UNCHANGED <<gone, redisUp, tokenVars>>

Present == status["job"] # "none" /\ ~gone

\* Slip: GetForTenant returns whatever has the ID.
GetForAnyone == Present /\ redisUp

\* A record that cannot be loaded is a job that is not found.
GetForTenant == Present /\ redisUp /\ owner = Tenant

\* The handlers refuse an empty tenant before they look.
Visible == Tenant # "" /\ GetForTenant

GetJobStatus ==
  /\ step = "polling" /\ Authorized
  /\ \/ ~Visible /\ Goes("notfound")
     \/ Visible /\ status["job"] = "failed" /\ Goes("failed")
     \/ Visible /\ status["job"] = "success" /\ Open
  /\ UNCHANGED <<jobVars, tokenVars>>

\* GetResultPage loads the record once more, and the object of a large result:
\* an error there is told as one, and the client asks again.
GetJobResult ==
  /\ Authorized
  /\ \/ Visible /\ (Read \/ ReadPanics)
     \/ ~Visible /\ Expire
  /\ UNCHANGED <<jobVars, tokenVars>>

(* The query engine. *)

\* A worker that loads an expired record gives up; only the execution of the
\* query does without Redis.
EngineStep ==
  /\ ~gone
  /\ \/ runs["job"] < MaxRuns /\ Backend!Run("job") /\ UNCHANGED rows
     \/ redisUp /\ (Backend!Begin("job") \/ Backend!Fail("job")) /\ UNCHANGED rows
     \/ redisUp /\ Backend!Succeed("job") /\ \E n \in RowCounts : rows' = [i \in 1 .. n |-> i]
  /\ UNCHANGED <<owner, gone, redisUp, tokenVars, reader, page, got, step>>

EngineSettles ==
  /\ Backend!Close("job")
  /\ UNCHANGED <<owner, gone, redisUp, tokenVars, pageVars>>

\* Slip: only results are stored with a TTL.
ResultExpires ==
  /\ Present /\ Backend!Over("job")
  /\ gone' = TRUE
  /\ UNCHANGED <<status, runs, closed, owner, redisUp, tokenVars, pageVars>>

\* Every SET gives the key its TTL.
RecordExpires ==
  /\ Present
  /\ gone' = TRUE
  /\ UNCHANGED <<status, runs, closed, owner, redisUp, tokenVars, pageVars>>

\* Calls to Redis begin to fail or to time out, or no longer do.  A query that
\* cannot be stored for it is among those refused.
RedisTurns ==
  /\ step \in {"polling", "reading"}
  /\ redisUp' = ~redisUp
  /\ UNCHANGED <<status, runs, closed, owner, gone, tokenVars, pageVars>>

SessionNext ==
  \/ LogIn \/ GenerateAgentToken \/ TokenExpires
  \/ SubmitQuery \/ ForeignQuery \/ GetJobStatus \/ GetJobResult
  \/ EngineStep \/ EngineSettles \/ RecordExpires \/ RedisTurns

SessionSpec == SessionInit /\ [][SessionNext]_sessionVars

(***************************************************************************)
(* Properties.                                                             *)
(***************************************************************************)

\* A client learns nothing of a job that is not its own, under whichever of
\* its tokens it asks (store.go:185-191, gateway.go:143-150).
AnswersAreOwn == step \in {"failed", "reading", "done", "panic"} => owner = "alice"

\* A job that was submitted under one token is found under the next one,
\* whether it is the user's or the agent's, as long as its record is there and
\* Redis answers (jwt.go:37-71, gateway.go:374-404).  While Redis does not, a
\* job of one's own is not found either (store.go:186-188).
OwnIsFound ==
  [][step' # step /\ step' \in {"notfound", "lost"} /\ owner = "alice"
       => gone \/ ~redisUp]_sessionVars
=============================================================================
