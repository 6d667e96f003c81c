----------------------------- MODULE Enrollment -----------------------------
(***************************************************************************)
(* The enrollment of one node name: the operator's create-agent,           *)
(* expire-token, revoke-agent and rotate-tunnel-secret commands            *)
(* (server/admin.py), POST /enroll (server/enrollment.py) with its rate    *)
(* limiter, the rows of agents and enrollment_tokens that both write, and  *)
(* the agent that runs `enroll` on the node (agent/main.py and             *)
(* agent/enrollment.py).                                                   *)
(*                                                                         *)
(* Every statement goes to the connection pool on its own, so each is its  *)
(* own transaction: an action here is one statement, with the code that    *)
(* runs up to the next one.  The agent a token was used for gets a fresh   *)
(* uuid and is named here by that token.  All attempts fall into one       *)
(* window of the rate limiter.                                             *)
(***************************************************************************)
EXTENDS Integers, FiniteSets

CONSTANTS
    Tokens,          \* tokens, one per create-agent command
    Requests,        \* POST /enroll requests that may run at the same time
    MaxFailures,     \* max_token_failures of the rate limiter
    MaxSource,       \* max_source_failures; all requests come from one address
    MaxAttempts,     \* bound: requests altogether
    None             \* SQL's NULL, a missing file, a missing row

ASSUME LimitAssumption == MaxFailures \in Nat \ {0} /\ MaxSource \in Nat \ {0}
ASSUME BoundAssumption == MaxAttempts \in Nat
ASSUME RequestsAssumption == IsFiniteSet(Requests)
ASSUME NoneAssumption == None \notin Tokens

VARIABLES
    issue,     \* the create-agent command of each token
    token,     \* enrollment_tokens: none, active, used, disabled
    linked,    \* enrollment_tokens.agent_id
    row,       \* the agents row of this node name, or None
    revoked,   \* agents.revoked
    secret,    \* whose tunnel_secret the row has the hash of: issued or rotated
    request,   \* the requests in progress
    attempts,  \* requests so far
    guesses,   \* failed attempts per token that got as far as the token table
    failures,  \* EnrollmentRateLimiter._token_failures
    source,    \* EnrollmentRateLimiter._source_failures
    forgotten, \* tokens used up before the server last started: it has no memory of them
    client,    \* the agent's enroll command
    conf,      \* the token in agent.conf, or None
    identity   \* identity.json, or None

tokenVars == <<issue, token, linked>>
agentVars == <<row, revoked, secret>>
limiterVars == <<guesses, failures, source>>
nodeVars == <<client, conf, identity>>
vars == <<tokenVars, agentVars, request, attempts, limiterVars, forgotten, nodeVars>>

-----------------------------------------------------------------------------
\* What a request brings: the node's own data, another node name, or another
\* sshd host key than the one pinned on the token.
Kinds == {"right", "othername", "otherkey"}
Callers == {"node", "stranger"}
Idle == [pc |-> "idle", token |-> None, kind |-> "right", from |-> "stranger"]
Points == {"idle", "consume", "consumed", "rejected", "link", "audit"}

Init ==
    /\ issue = [t \in Tokens |-> "idle"]
    /\ token = [t \in Tokens |-> "none"]
    /\ linked = [t \in Tokens |-> None]
    /\ row = None /\ revoked = FALSE /\ secret = "issued"
    /\ request = [r \in Requests |-> Idle] /\ attempts = 0
    /\ guesses = [t \in Tokens |-> 0]
    /\ failures = [t \in Tokens |-> 0]
    /\ source = 0 /\ forgotten = {}
    /\ client = "idle" /\ conf = None /\ identity = None

Active == {t \in Tokens : token[t] = "active"}

-----------------------------------------------------------------------------
(* The operator's commands.                                                *)

\* create_enrollment_token, first statement: disable the active tokens.
DisablePrior(t) ==
    /\ issue[t] = "idle"
    /\ issue' = [issue EXCEPT ![t] = "insert"]
    /\ token' = [u \in Tokens |-> IF u \in Active THEN "disabled" ELSE token[u]]
    /\ UNCHANGED <<linked, agentVars, request, attempts, forgotten, limiterVars, nodeVars>>

\* The unique index enrollment_tokens_one_active_per_node lets the INSERT through.
MayInsert == Active = {}

\* Second statement: INSERT.
InsertToken(t) ==
    /\ issue[t] = "insert"
    /\ IF MayInsert
       THEN /\ token' = [token EXCEPT ![t] = "active"]
            /\ issue' = [issue EXCEPT ![t] = "audit"]
       ELSE /\ issue' = [issue EXCEPT ![t] = "failed"]
            /\ UNCHANGED token
    /\ UNCHANGED <<linked, agentVars, request, attempts, forgotten, limiterVars, nodeVars>>

\* The audit event is written and the package printed.
PrintPackage(t) ==
    /\ issue[t] = "audit"
    /\ issue' = [issue EXCEPT ![t] = "done"]
    /\ UNCHANGED <<token, linked, agentVars, request, attempts, forgotten, limiterVars, nodeVars>>

\* The command is interrupted, or its database connection fails.
IssueFails(t) ==
    /\ issue[t] \in {"insert", "audit"}
    /\ issue' = [issue EXCEPT ![t] = "failed"]
    /\ UNCHANGED <<token, linked, agentVars, request, attempts, forgotten, limiterVars, nodeVars>>

\* expire-token; a token past expires_at is as good as disabled.
ExpireToken ==
    /\ Active # {}
    /\ token' = [u \in Tokens |-> IF u \in Active THEN "disabled" ELSE token[u]]
    /\ UNCHANGED <<issue, linked, agentVars, request, attempts, forgotten, limiterVars, nodeVars>>

\* revoke-agent
RevokeAgent ==
    /\ row # None /\ ~revoked
    /\ revoked' = TRUE
    /\ UNCHANGED <<tokenVars, row, secret, request, attempts, forgotten, limiterVars, nodeVars>>

\* rotate-tunnel-secret: the new secret is generated and only its hash kept.
RotateTunnelSecret ==
    /\ row # None /\ ~revoked
    /\ secret' = "rotated"
    /\ UNCHANGED <<tokenVars, row, revoked, request, attempts, forgotten, limiterVars, nodeVars>>

Operator ==
    \/ \E t \in Tokens : DisablePrior(t) \/ InsertToken(t) \/ PrintPackage(t) \/ IssueFails(t)
    \/ ExpireToken \/ RevokeAgent \/ RotateTunnelSecret

-----------------------------------------------------------------------------
(* POST /enroll.                                                           *)

\* The caller gets an error, if it is still there.
AnswerFails(r) ==
    /\ request' = [request EXCEPT ![r] = Idle]
    /\ client' = IF request[r].from = "node" THEN "failed" ELSE client

\* Mutant of record_failure: the token's own failures are not counted.
RecordFailure_SourceOnly(t) == source' = source + 1 /\ UNCHANGED failures

\* EnrollmentRateLimiter.record_failure
RecordFailure(t) ==
    /\ failures' = [failures EXCEPT ![t] = @ + 1]
    /\ source' = source + 1

\* EnrollmentRateLimiter.is_limited
IsLimited(t) == failures[t] >= MaxFailures \/ source >= MaxSource

\* The head of enroll: a request that is limited fails at once, and that
\* failure is recorded too.
Submit(r, t, kind, from) ==
    /\ request[r].pc = "idle" /\ attempts < MaxAttempts
    /\ attempts' = attempts + 1
    /\ IF IsLimited(t)
       THEN /\ RecordFailure(t)
            /\ client' = IF from = "node" THEN "failed" ELSE client
            /\ UNCHANGED request
       ELSE /\ request' = [request EXCEPT ![r] =
                             [pc |-> "consume", token |-> t, kind |-> kind, from |-> from]]
            /\ client' = IF from = "node" THEN "waiting" ELSE client
            /\ UNCHANGED <<failures, source>>
    /\ UNCHANGED <<tokenVars, agentVars, forgotten, guesses, conf, identity>>

\* Anybody may post; a token that was never issued matches no row.
StrangerPosts(r, t, kind) == Submit(r, t, kind, "stranger")

\* Mutant of consume_enrollment_token: used tokens match as well.
Consumable_Used(t, kind) == token[t] \in {"active", "used"} /\ kind # "othername"

\* The WHERE clause of consume_enrollment_token.
Consumable(t, kind) == token[t] = "active" /\ kind # "othername"

\* consume_enrollment_token, one UPDATE ... RETURNING.
ConsumeToken(r) ==
    LET q == request[r] IN
    /\ q.pc = "consume"
    /\ IF Consumable(q.token, q.kind)
       THEN /\ token' = [token EXCEPT ![q.token] = "used"]
            /\ request' = [request EXCEPT ![r].pc = "consumed"]
       ELSE /\ request' = [request EXCEPT ![r].pc = "rejected"]
            /\ UNCHANGED token
    /\ UNCHANGED <<issue, linked, agentVars, attempts, forgotten, limiterVars, nodeVars>>

\* It returned no row: the failure is recorded and audited.
RejectToken(r) ==
    /\ request[r].pc = "rejected"
    /\ RecordFailure(request[r].token)
    /\ guesses' = [guesses EXCEPT ![request[r].token] = @ + 1]
    /\ AnswerFails(r)
    /\ UNCHANGED <<tokenVars, agentVars, attempts, forgotten, conf, identity>>

\* The token is consumed but the host key is not the pinned one.
RejectHostKey(r) ==
    /\ request[r].pc = "consumed" /\ request[r].kind = "otherkey"
    /\ RecordFailure(request[r].token)
    /\ AnswerFails(r)
    /\ UNCHANGED <<tokenVars, agentVars, attempts, forgotten, guesses, conf, identity>>

\* Mutant of persist_agent: ON CONFLICT (node_name) DO UPDATE.
MayEnroll_Upsert == TRUE

\* agents.node_name is UNIQUE, and no command deletes a row.
MayEnroll == row = None

\* persist_agent, first statement: INSERT INTO agents, or the unique violation.
InsertAgent(r) ==
    /\ request[r].pc = "consumed" /\ request[r].kind # "otherkey"
    /\ IF MayEnroll
       THEN /\ row' = request[r].token /\ revoked' = FALSE /\ secret' = "issued"
            /\ request' = [request EXCEPT ![r].pc = "link"]
            /\ UNCHANGED <<failures, source, client>>
       ELSE /\ RecordFailure(request[r].token)
            /\ AnswerFails(r)
            /\ UNCHANGED agentVars
    /\ UNCHANGED <<tokenVars, attempts, forgotten, guesses, conf, identity>>

\* Mutant of persist_agent: the tokens that are not used are linked.
LinkTokens_Unused(r) ==
    linked' = [t \in Tokens |->
                 IF token[t] = "active" /\ linked[t] = None THEN request[r].token ELSE linked[t]]

\* Second statement: every used token of this node name without an agent.
LinkTokens(r) ==
    linked' = [t \in Tokens |->
                 IF token[t] = "used" /\ linked[t] = None THEN request[r].token ELSE linked[t]]

LinkToken(r) ==
    /\ request[r].pc = "link"
    /\ LinkTokens(r)
    /\ request' = [request EXCEPT ![r].pc = "audit"]
    /\ UNCHANGED <<issue, token, agentVars, attempts, forgotten, limiterVars, nodeVars>>

\* ENROLLMENT_SUCCEEDED is written and the response is on its way; it may
\* reach nobody.
Respond(r) ==
    /\ request[r].pc = "audit"
    /\ request' = [request EXCEPT ![r] = Idle]
    /\ \/ client' = IF request[r].from = "node" THEN "writing" ELSE client
       \/ client' = IF request[r].from = "node" THEN "failed" ELSE client
    /\ UNCHANGED <<tokenVars, agentVars, attempts, forgotten, limiterVars, conf, identity>>

\* Mutant of enroll's except clause: it is EnrollmentError that is caught.
DatabaseFails_Uncaught(r) ==
    /\ request[r].pc # "idle"
    /\ AnswerFails(r)
    /\ UNCHANGED <<tokenVars, agentVars, attempts, forgotten, limiterVars, conf, identity>>

\* A statement or the audit fails: enroll's except clause.
DatabaseFails(r) ==
    /\ request[r].pc # "idle"
    /\ RecordFailure(request[r].token)
    /\ AnswerFails(r)
    /\ UNCHANGED <<tokenVars, agentVars, attempts, forgotten, guesses, conf, identity>>

\* The server stops and starts again: requests and counters are gone.
ServerCrash ==
    /\ \E r \in Requests : request[r].pc # "idle"
    /\ request' = [r \in Requests |-> Idle]
    /\ guesses' = [t \in Tokens |-> 0]
    /\ failures' = [t \in Tokens |-> 0]
    /\ source' = 0
    /\ forgotten' = {t \in Tokens : token[t] = "used"}
    /\ client' = IF client = "waiting" THEN "failed" ELSE client
    /\ UNCHANGED <<tokenVars, agentVars, attempts, conf, identity>>

Server ==
    \/ \E r \in Requests, t \in Tokens, k \in Kinds : StrangerPosts(r, t, k)
    \/ \E r \in Requests :
        \/ ConsumeToken(r) \/ RejectToken(r) \/ RejectHostKey(r) \/ InsertAgent(r)
        \/ LinkToken(r) \/ Respond(r) \/ DatabaseFails(r)
    \/ ServerCrash

-----------------------------------------------------------------------------
(* The node.                                                               *)

\* The operator ships a package whose command succeeded.
InstallPackage(t) ==
    /\ issue[t] = "done" /\ client \in {"idle", "failed"}
    /\ conf' = t
    /\ UNCHANGED <<tokenVars, agentVars, request, attempts, forgotten, limiterVars, client, identity>>

\* `enroll`, for the first time or once more after a failure.
RunEnroll(r) ==
    /\ client \in {"idle", "failed"} /\ conf # None
    /\ Submit(r, conf, "right", "node")

\* The command is interrupted or its HTTP client times out; the server goes on.
GiveUp ==
    /\ client = "waiting"
    /\ client' = "failed"
    /\ request' = [r \in Requests |-> [request[r] EXCEPT !.from = "stranger"]]
    /\ UNCHANGED <<tokenVars, agentVars, attempts, forgotten, limiterVars, conf, identity>>

\* write_identity_json puts the file in place by rename: the agent_id of the
\* response, which is the agent of the token in agent.conf.
WriteIdentity ==
    /\ client = "writing"
    /\ identity' = conf
    /\ client' = "rewriting"
    /\ UNCHANGED <<tokenVars, agentVars, request, attempts, forgotten, limiterVars, conf>>

\* rewrite_agent_conf_without_token
RewriteConf ==
    /\ client = "rewriting"
    /\ conf' = None
    /\ client' = "done"
    /\ UNCHANGED <<tokenVars, agentVars, request, attempts, forgotten, limiterVars, identity>>

\* Writing either file fails: complete_enrollment unlinks identity.json.
WriteFails ==
    /\ client \in {"writing", "rewriting"}
    /\ identity' = None
    /\ client' = "failed"
    /\ UNCHANGED <<tokenVars, agentVars, request, attempts, forgotten, limiterVars, conf>>

\* The command is killed between the two files.
NodeCrash ==
    /\ client \in {"writing", "rewriting"}
    /\ client' = "failed"
    /\ UNCHANGED <<tokenVars, agentVars, request, attempts, forgotten, limiterVars, conf, identity>>

Node ==
    \/ \E t \in Tokens : InstallPackage(t)
    \/ \E r \in Requests : RunEnroll(r)
    \/ GiveUp \/ WriteIdentity \/ RewriteConf \/ WriteFails \/ NodeCrash

Next == Operator \/ Server \/ Node

Spec == Init /\ [][Next]_vars

-----------------------------------------------------------------------------
(* Properties.                                                             *)

\* The type invariant.
TypeOK ==
    /\ issue \in [Tokens -> {"idle", "insert", "audit", "done", "failed"}]
    /\ token \in [Tokens -> {"none", "active", "used", "disabled"}]
    /\ linked \in [Tokens -> Tokens \cup {None}]
    /\ row \in Tokens \cup {None}
    /\ revoked \in BOOLEAN /\ secret \in {"issued", "rotated"}
    /\ request \in [Requests -> [pc : Points, token : Tokens \cup {None}, kind : Kinds,
                                 from : Callers]]
    /\ attempts \in 0..MaxAttempts
    /\ guesses \in [Tokens -> Nat] /\ failures \in [Tokens -> Nat] /\ source \in Nat
    /\ forgotten \subseteq Tokens
    /\ client \in {"idle", "waiting", "writing", "rewriting", "done", "failed"}
    /\ conf \in Tokens \cup {None} /\ identity \in Tokens \cup {None}

\* The requests that have got a token out of the table.
Holding(r) == request[r].pc \in {"consumed", "link", "audit"}

\* Past consume_enrollment_token a request holds its token alone, and before
\* its INSERT nothing has been enrolled with it ("Single-use -- rejected on
\* second attempt"), however many requests race for it.
SingleUse ==
    \A r \in Requests : Holding(r) =>
        /\ request[r].pc = "consumed" => row # request[r].token
        /\ \A q \in Requests \ {r} : Holding(q) => request[q].token # request[r].token

\* "At most one active enrollment token may exist per node_name", also when
\* two operators reissue at the same time.
OneActiveToken == \A t, u \in Active : t = u

\* What is in identity.json is the agent that the server has for this node:
\* an enrollment that the node believes in is never replaced by a later one.
IdentityIsEnrolled == identity # None => identity = row

\* A node that was told that it is enrolled can be traced to its token, and
\* no token row names an agent that is not there.
TrailLeadsHome ==
    /\ client \in {"writing", "rewriting", "done"} => row # None /\ linked[row] = row
    /\ \A t \in Tokens : linked[t] # None => linked[t] = row /\ token[t] = "used"

\* A token that is used up although no request holds it and it did not lead to an
\* agent of its own: lost between the statements of enroll.
Burnt(t) ==
    /\ token[t] = "used" /\ linked[t] # t
    /\ \A r \in Requests : Holding(r) => request[r].token # t

\* No token burns unnoticed: whichever statement failed after it was used up, and
\* whoever's agent it was linked to later, enroll's except clause has counted a failed
\* attempt with it, unless the server has been restarted since.
BurntIsCounted ==
    \A t \in Tokens : Burnt(t) => failures[t] > 0 \/ t \in forgotten

\* "5 failed attempts per 10 minutes per token hash", up to the requests that
\* had passed is_limited before the last of those failures was recorded.
GuessesBounded ==
    \A t \in Tokens : guesses[t] < MaxFailures + Cardinality(Requests)

\* The inductive invariant, in named parts.

\* A token is not in the table before its command has executed the INSERT.
FreshToken ==
    \A t \in Tokens : issue[t] \in {"idle", "insert"} => token[t] = "none"

\* A token that a request holds, or that somebody was enrolled with, is used.
HeldIsUsed ==
    /\ \A r \in Requests : request[r].pc # "idle" => request[r].token \in Tokens
    /\ \A r \in Requests : Holding(r) => token[request[r].token] = "used"
    /\ row # None => token[row] = "used"

\* After its INSERT a request's own agent is the agent of the node name.
InsertedIsRow ==
    \A r \in Requests : request[r].pc \in {"link", "audit"} => row = request[r].token

\* The enroll command waits exactly while a request has it for its caller.
NodeWaits ==
    /\ client = "waiting" => \E r \in Requests : request[r].from = "node"
    /\ \A r \in Requests : request[r].from = "node" => client = "waiting"

\* The node waits for one request, which carries the token of agent.conf.
NodeIsConf ==
    \A r \in Requests : request[r].from = "node" =>
        /\ request[r].pc # "idle" /\ request[r].token = conf
        /\ \A q \in Requests : request[q].from = "node" => q = r

\* What the node was told: the token of agent.conf has become the agent.
AnswerIsRow ==
    /\ client \in {"writing", "rewriting"} => conf # None /\ row = conf
    /\ \A r \in Requests : request[r].pc = "audit" => linked[request[r].token] = request[r].token

\* Their conjunction: every statement of every command and request keeps it.
EnrollmentInv ==
    /\ TypeOK
    /\ NodeWaits
    /\ SingleUse
    /\ OneActiveToken
    /\ IdentityIsEnrolled
    /\ TrailLeadsHome
    /\ FreshToken
    /\ HeldIsUsed
    /\ InsertedIsRow
    /\ NodeIsConf
    /\ AnswerIsRow

\* The requests that have passed is_limited with a token and may still be a guess at it.
Undecided(t) == {r \in Requests : request[r].pc \in {"consume", "rejected"} /\ request[r].token = t}

\* Why the guesses stay bounded: each is among the failures that limit the token, and
\* those that are still undecided had passed before the limit was reached.
LimiterInv ==
    \A t \in Tokens :
        /\ guesses[t] <= failures[t]
        /\ guesses[t] + Cardinality(Undecided(t)) < MaxFailures + Cardinality(Requests)
=============================================================================
