-------------------------- MODULE EnrollmentProofs --------------------------
(***************************************************************************)
(* The enrollment of one node name is safe for every set of tokens, every  *)
(* number of concurrent requests and every setting of the rate limiter:    *)
(* the parts of EnrollmentInv support each other through every statement,  *)
(* failure and crash.  One lemma per action, one step per part of the      *)
(* invariant that the action can disturb.                                  *)
(***************************************************************************)
EXTENDS Enrollment, FiniteSetTheorems, TLAPS

\* The UPDATE of a reissue disables what is active.
LEMMA DisablePriorKeeps ==
    ASSUME EnrollmentInv, NEW t \in Tokens, DisablePrior(t)
    PROVE  EnrollmentInv'
<1>1. TypeOK'
  BY DEF DisablePrior, EnrollmentInv, TypeOK, agentVars, limiterVars, nodeVars
<1>2. OneActiveToken'
  BY DEF DisablePrior, Active, OneActiveToken
<1>3. TrailLeadsHome'
  BY DEF DisablePrior, Active, EnrollmentInv, TrailLeadsHome, agentVars, nodeVars
<1>4. FreshToken'
  BY DEF DisablePrior, Active, EnrollmentInv, FreshToken
<1>5. HeldIsUsed'
  BY DEF DisablePrior, Active, EnrollmentInv, TypeOK, HeldIsUsed, Holding, agentVars
<1>6. QED
  BY <1>1, <1>2, <1>3, <1>4, <1>5
  DEF DisablePrior, EnrollmentInv, NodeWaits, SingleUse, IdentityIsEnrolled, InsertedIsRow,
      NodeIsConf, AnswerIsRow, Holding, agentVars, nodeVars

\* The INSERT of a reissue is let through only when no token is active.
LEMMA InsertTokenKeeps ==
    ASSUME EnrollmentInv, NEW t \in Tokens, InsertToken(t)
    PROVE  EnrollmentInv'
<1>1. TypeOK'
  BY DEF InsertToken, EnrollmentInv, TypeOK, agentVars, limiterVars, nodeVars
<1>2. OneActiveToken'
  BY DEF InsertToken, MayInsert, Active, EnrollmentInv, TypeOK, OneActiveToken
<1>3. TrailLeadsHome'
  BY DEF InsertToken, EnrollmentInv, TypeOK, TrailLeadsHome, FreshToken, agentVars, nodeVars
<1>4. FreshToken'
  BY DEF InsertToken, EnrollmentInv, TypeOK, FreshToken
<1>5. HeldIsUsed'
  BY DEF InsertToken, EnrollmentInv, TypeOK, HeldIsUsed, FreshToken, Holding, agentVars
<1>6. QED
  BY <1>1, <1>2, <1>3, <1>4, <1>5
  DEF InsertToken, EnrollmentInv, NodeWaits, SingleUse, IdentityIsEnrolled, InsertedIsRow,
      NodeIsConf, AnswerIsRow, Holding, agentVars, nodeVars

\* The end of create-agent.
LEMMA PrintPackageKeeps ==
    ASSUME EnrollmentInv, NEW t \in Tokens, PrintPackage(t)
    PROVE  EnrollmentInv'
<1>1. TypeOK'
  BY DEF PrintPackage, EnrollmentInv, TypeOK, agentVars, limiterVars, nodeVars
<1>2. FreshToken'
  BY DEF PrintPackage, EnrollmentInv, FreshToken
<1>3. QED
  BY <1>1, <1>2
  DEF PrintPackage, EnrollmentInv, NodeWaits, SingleUse, OneActiveToken, IdentityIsEnrolled,
      TrailLeadsHome, HeldIsUsed, InsertedIsRow, NodeIsConf, AnswerIsRow, Holding, Active,
      agentVars, nodeVars

\* A create-agent command that fails leaves the rows as they are.
LEMMA IssueFailsKeeps ==
    ASSUME EnrollmentInv, NEW t \in Tokens, IssueFails(t)
    PROVE  EnrollmentInv'
<1>1. TypeOK'
  BY DEF IssueFails, EnrollmentInv, TypeOK, agentVars, limiterVars, nodeVars
<1>2. FreshToken'
  BY DEF IssueFails, EnrollmentInv, FreshToken
<1>3. QED
  BY <1>1, <1>2
  DEF IssueFails, EnrollmentInv, NodeWaits, SingleUse, OneActiveToken, IdentityIsEnrolled,
      TrailLeadsHome, HeldIsUsed, InsertedIsRow, NodeIsConf, AnswerIsRow, Holding, Active,
      agentVars, nodeVars

\* expire-token disables what is active.
LEMMA ExpireTokenKeeps ==
    ASSUME EnrollmentInv, ExpireToken
    PROVE  EnrollmentInv'
<1>1. TypeOK'
  BY DEF ExpireToken, EnrollmentInv, TypeOK, agentVars, limiterVars, nodeVars
<1>2. OneActiveToken'
  BY DEF ExpireToken, Active, OneActiveToken
<1>3. TrailLeadsHome'
  BY DEF ExpireToken, Active, EnrollmentInv, TrailLeadsHome, agentVars, nodeVars
<1>4. FreshToken'
  BY DEF ExpireToken, Active, EnrollmentInv, FreshToken
<1>5. HeldIsUsed'
  BY DEF ExpireToken, Active, EnrollmentInv, TypeOK, HeldIsUsed, Holding, agentVars
<1>6. QED
  BY <1>1, <1>2, <1>3, <1>4, <1>5
  DEF ExpireToken, EnrollmentInv, NodeWaits, SingleUse, IdentityIsEnrolled, InsertedIsRow,
      NodeIsConf, AnswerIsRow, Holding, agentVars, nodeVars

\* revoke-agent touches no identity.
LEMMA RevokeAgentKeeps ==
    ASSUME EnrollmentInv, RevokeAgent
    PROVE  EnrollmentInv'
<1>1. TypeOK'
  BY DEF RevokeAgent, EnrollmentInv, TypeOK, tokenVars, limiterVars, nodeVars
<1>2. QED
  BY <1>1
  DEF RevokeAgent, EnrollmentInv, NodeWaits, SingleUse, OneActiveToken, IdentityIsEnrolled,
      TrailLeadsHome, FreshToken, HeldIsUsed, InsertedIsRow, NodeIsConf, AnswerIsRow, Holding,
      Active, tokenVars, nodeVars

\* rotate-tunnel-secret touches no identity.
LEMMA RotateTunnelSecretKeeps ==
    ASSUME EnrollmentInv, RotateTunnelSecret
    PROVE  EnrollmentInv'
<1>1. TypeOK'
  BY DEF RotateTunnelSecret, EnrollmentInv, TypeOK, tokenVars, limiterVars, nodeVars
<1>2. QED
  BY <1>1
  DEF RotateTunnelSecret, EnrollmentInv, NodeWaits, SingleUse, OneActiveToken,
      IdentityIsEnrolled, TrailLeadsHome, FreshToken, HeldIsUsed, InsertedIsRow, NodeIsConf,
      AnswerIsRow, Holding, Active, tokenVars, nodeVars

\* A request is posted, by a stranger or by the node with the token of agent.conf.
LEMMA SubmitKeeps ==
    ASSUME EnrollmentInv, NEW r \in Requests, NEW t \in Tokens, NEW k \in Kinds, NEW m \in Callers,
           m = "node" => client \in {"idle", "failed"} /\ conf = t, Submit(r, t, k, m)
    PROVE  EnrollmentInv'
<1>1. TypeOK'
  BY BoundAssumption
  DEF Submit, RecordFailure, EnrollmentInv, TypeOK, Points, tokenVars, agentVars
<1>2. NodeWaits'
  BY DEF Submit, EnrollmentInv, TypeOK, NodeWaits, NodeIsConf
<1>3. SingleUse'
  BY DEF Submit, RecordFailure, EnrollmentInv, TypeOK, SingleUse, Holding, agentVars
<1>4. TrailLeadsHome'
  BY DEF Submit, EnrollmentInv, TrailLeadsHome, tokenVars, agentVars
<1>5. HeldIsUsed'
  BY DEF Submit, EnrollmentInv, TypeOK, HeldIsUsed, Holding, tokenVars, agentVars
<1>6. InsertedIsRow'
  BY DEF Submit, RecordFailure, EnrollmentInv, TypeOK, InsertedIsRow, agentVars
<1>7. NodeIsConf'
  BY DEF Submit, EnrollmentInv, TypeOK, NodeIsConf, NodeWaits
<1>8. AnswerIsRow'
  BY DEF Submit, EnrollmentInv, TypeOK, AnswerIsRow, HeldIsUsed, tokenVars, agentVars
<1>9. QED
  BY <1>1, <1>2, <1>3, <1>4, <1>5, <1>6, <1>7, <1>8
  DEF Submit, EnrollmentInv, OneActiveToken, IdentityIsEnrolled, FreshToken, Active, tokenVars,
      agentVars

\* consume_enrollment_token hands a token to one request.
LEMMA ConsumeTokenKeeps ==
    ASSUME EnrollmentInv, NEW r \in Requests, ConsumeToken(r)
    PROVE  EnrollmentInv'
<1>1. TypeOK'
  BY DEF ConsumeToken, EnrollmentInv, TypeOK, Points, agentVars, limiterVars, nodeVars
<1>2. NodeWaits'
  BY DEF ConsumeToken, EnrollmentInv, TypeOK, NodeWaits, nodeVars
<1>3. SingleUse'
  BY NoneAssumption
  DEF ConsumeToken, Consumable, EnrollmentInv, TypeOK, SingleUse, HeldIsUsed, Holding, agentVars
<1>4. OneActiveToken'
  BY DEF ConsumeToken, EnrollmentInv, TypeOK, OneActiveToken, Active
<1>5. TrailLeadsHome'
  BY DEF ConsumeToken, EnrollmentInv, TypeOK, TrailLeadsHome, agentVars, nodeVars
<1>6. FreshToken'
  BY DEF ConsumeToken, Consumable, EnrollmentInv, TypeOK, FreshToken
<1>7. HeldIsUsed'
  BY DEF ConsumeToken, EnrollmentInv, TypeOK, HeldIsUsed, Holding, agentVars
<1>8. InsertedIsRow'
  BY DEF ConsumeToken, EnrollmentInv, TypeOK, InsertedIsRow, agentVars
<1>9. NodeIsConf'
  BY DEF ConsumeToken, EnrollmentInv, TypeOK, NodeIsConf, nodeVars
<1>10. AnswerIsRow'
  BY DEF ConsumeToken, EnrollmentInv, TypeOK, AnswerIsRow, agentVars, nodeVars
<1>11. QED
  BY <1>1, <1>2, <1>3, <1>4, <1>5, <1>6, <1>7, <1>8, <1>9, <1>10
  DEF ConsumeToken, EnrollmentInv, IdentityIsEnrolled, agentVars, nodeVars

\* A request without a token ends.
LEMMA RejectTokenKeeps ==
    ASSUME EnrollmentInv, NEW r \in Requests, RejectToken(r)
    PROVE  EnrollmentInv'
<1>1. TypeOK'
  BY DEF RejectToken, RecordFailure, AnswerFails, Idle, EnrollmentInv, TypeOK, HeldIsUsed, Kinds,
         Points, Callers, tokenVars, agentVars
<1>2. NodeWaits'
  BY DEF RejectToken, AnswerFails, Idle, EnrollmentInv, TypeOK, NodeWaits, NodeIsConf
<1>3. SingleUse'
  BY DEF RejectToken, AnswerFails, Idle, EnrollmentInv, SingleUse, Holding, agentVars
<1>4. TrailLeadsHome'
  BY DEF RejectToken, AnswerFails, EnrollmentInv, TrailLeadsHome, tokenVars, agentVars
<1>5. HeldIsUsed'
  BY DEF RejectToken, AnswerFails, Idle, EnrollmentInv, HeldIsUsed, Holding, tokenVars, agentVars
<1>6. InsertedIsRow'
  BY DEF RejectToken, AnswerFails, Idle, EnrollmentInv, InsertedIsRow, agentVars
<1>7. NodeIsConf'
  BY DEF RejectToken, AnswerFails, Idle, EnrollmentInv, NodeIsConf
<1>8. AnswerIsRow'
  BY DEF RejectToken, AnswerFails, Idle, EnrollmentInv, AnswerIsRow, tokenVars, agentVars
<1>9. QED
  BY <1>1, <1>2, <1>3, <1>4, <1>5, <1>6, <1>7, <1>8
  DEF RejectToken, EnrollmentInv, OneActiveToken, IdentityIsEnrolled, FreshToken, Active,
      tokenVars, agentVars

\* A request with another host key ends; its token stays used.
LEMMA RejectHostKeyKeeps ==
    ASSUME EnrollmentInv, NEW r \in Requests, RejectHostKey(r)
    PROVE  EnrollmentInv'
<1>1. TypeOK'
  BY DEF RejectHostKey, RecordFailure, AnswerFails, Idle, EnrollmentInv, TypeOK, HeldIsUsed,
         Kinds, Points, Callers, tokenVars, agentVars
<1>2. NodeWaits'
  BY DEF RejectHostKey, AnswerFails, Idle, EnrollmentInv, TypeOK, NodeWaits, NodeIsConf
<1>3. SingleUse'
  BY DEF RejectHostKey, AnswerFails, Idle, EnrollmentInv, SingleUse, Holding, agentVars
<1>4. TrailLeadsHome'
  BY DEF RejectHostKey, AnswerFails, EnrollmentInv, TrailLeadsHome, tokenVars, agentVars
<1>5. HeldIsUsed'
  BY DEF RejectHostKey, AnswerFails, Idle, EnrollmentInv, HeldIsUsed, Holding, tokenVars,
         agentVars
<1>6. InsertedIsRow'
  BY DEF RejectHostKey, AnswerFails, Idle, EnrollmentInv, InsertedIsRow, agentVars
<1>7. NodeIsConf'
  BY DEF RejectHostKey, AnswerFails, Idle, EnrollmentInv, NodeIsConf
<1>8. AnswerIsRow'
  BY DEF RejectHostKey, AnswerFails, Idle, EnrollmentInv, AnswerIsRow, tokenVars, agentVars
<1>9. QED
  BY <1>1, <1>2, <1>3, <1>4, <1>5, <1>6, <1>7, <1>8
  DEF RejectHostKey, EnrollmentInv, OneActiveToken, IdentityIsEnrolled, FreshToken, Active,
      tokenVars, agentVars

\* The node name gets its row, once.
LEMMA InsertAgentKeeps ==
    ASSUME EnrollmentInv, NEW r \in Requests, InsertAgent(r)
    PROVE  EnrollmentInv'
<1>1. TypeOK'
  <2>1. CASE row = None
    <3>1. request[r].token \in Tokens /\ row' = request[r].token
      BY <2>1 DEF InsertAgent, MayEnroll, EnrollmentInv, HeldIsUsed
    <3>2. request' = [request EXCEPT ![r].pc = "link"]
      BY <2>1 DEF InsertAgent, MayEnroll
    <3>3. request' \in [Requests -> [pc : Points, token : Tokens \cup {None}, kind : Kinds,
                                     from : Callers]]
      BY <3>2 DEF EnrollmentInv, TypeOK, Points
    <3>4. /\ UNCHANGED <<issue, token, linked, attempts, forgotten, guesses, failures, source>>
          /\ UNCHANGED <<client, conf, identity>>
          /\ revoked' = FALSE /\ secret' = "issued"
      BY <2>1 DEF InsertAgent, MayEnroll, tokenVars
    <3>5. QED
      BY <3>1, <3>3, <3>4 DEF EnrollmentInv, TypeOK
  <2>2. CASE row # None
    BY <2>2
    DEF InsertAgent, MayEnroll, RecordFailure, AnswerFails, Idle, EnrollmentInv, TypeOK, Kinds,
        Points, Callers, tokenVars, agentVars
  <2>3. QED
    BY <2>1, <2>2
<1>2. NodeWaits'
  BY DEF InsertAgent, AnswerFails, Idle, EnrollmentInv, TypeOK, NodeWaits, NodeIsConf
<1>3. SingleUse'
  BY DEF InsertAgent, AnswerFails, Idle, EnrollmentInv, TypeOK, SingleUse, HeldIsUsed, Holding,
         agentVars
<1>4. IdentityIsEnrolled'
  BY DEF InsertAgent, MayEnroll, EnrollmentInv, IdentityIsEnrolled, agentVars
<1>5. TrailLeadsHome'
  BY DEF InsertAgent, MayEnroll, AnswerFails, EnrollmentInv, TrailLeadsHome, tokenVars, agentVars
<1>6. HeldIsUsed'
  BY DEF InsertAgent, AnswerFails, Idle, EnrollmentInv, TypeOK, HeldIsUsed, Holding, tokenVars,
         agentVars
<1>7. InsertedIsRow'
  BY NoneAssumption
  DEF InsertAgent, MayEnroll, AnswerFails, Idle, EnrollmentInv, TypeOK, InsertedIsRow, HeldIsUsed,
      agentVars
<1>8. NodeIsConf'
  BY DEF InsertAgent, AnswerFails, Idle, EnrollmentInv, TypeOK, NodeIsConf
<1>9. AnswerIsRow'
  BY DEF InsertAgent, MayEnroll, AnswerFails, Idle, EnrollmentInv, TypeOK, AnswerIsRow, tokenVars,
         agentVars
<1>10. QED
  BY <1>1, <1>2, <1>3, <1>4, <1>5, <1>6, <1>7, <1>8, <1>9
  DEF InsertAgent, EnrollmentInv, OneActiveToken, FreshToken, Active, tokenVars

\* Used tokens are linked to the agent.
LEMMA LinkTokenKeeps ==
    ASSUME EnrollmentInv, NEW r \in Requests, LinkToken(r)
    PROVE  EnrollmentInv'
<1>1. TypeOK'
  BY DEF LinkToken, LinkTokens, EnrollmentInv, TypeOK, Points, agentVars, limiterVars, nodeVars
<1>2. NodeWaits'
  BY DEF LinkToken, EnrollmentInv, NodeWaits, nodeVars
<1>3. SingleUse'
  BY DEF LinkToken, EnrollmentInv, SingleUse, Holding, agentVars
<1>4. TrailLeadsHome'
  BY NoneAssumption
  DEF LinkToken, LinkTokens, EnrollmentInv, TrailLeadsHome, HeldIsUsed, InsertedIsRow, agentVars
<1>5. HeldIsUsed'
  BY DEF LinkToken, EnrollmentInv, HeldIsUsed, Holding, agentVars
<1>6. InsertedIsRow'
  BY DEF LinkToken, EnrollmentInv, InsertedIsRow, agentVars
<1>7. NodeIsConf'
  BY DEF LinkToken, EnrollmentInv, NodeIsConf, nodeVars
<1>8. AnswerIsRow'
  BY DEF LinkToken, LinkTokens, EnrollmentInv, AnswerIsRow, InsertedIsRow, TrailLeadsHome,
         HeldIsUsed, agentVars, nodeVars
<1>9. QED
  BY <1>1, <1>2, <1>3, <1>4, <1>5, <1>6, <1>7, <1>8
  DEF LinkToken, EnrollmentInv, OneActiveToken, IdentityIsEnrolled, FreshToken, Active, agentVars,
      nodeVars

\* The response reaches the node or is lost.
LEMMA RespondKeeps ==
    ASSUME EnrollmentInv, NEW r \in Requests, Respond(r)
    PROVE  EnrollmentInv'
<1>1. TypeOK'
  BY DEF Respond, Idle, EnrollmentInv, TypeOK, Kinds, Points, Callers, tokenVars, agentVars,
         limiterVars
<1>2. NodeWaits'
  BY DEF Respond, Idle, EnrollmentInv, TypeOK, NodeWaits, NodeIsConf
<1>3. SingleUse'
  BY DEF Respond, Idle, EnrollmentInv, SingleUse, Holding, agentVars
<1>4. TrailLeadsHome'
  BY NoneAssumption
  DEF Respond, EnrollmentInv, TrailLeadsHome, HeldIsUsed, AnswerIsRow, tokenVars, agentVars
<1>5. HeldIsUsed'
  BY DEF Respond, Idle, EnrollmentInv, HeldIsUsed, Holding, tokenVars, agentVars
<1>6. InsertedIsRow'
  BY DEF Respond, Idle, EnrollmentInv, InsertedIsRow, agentVars
<1>7. NodeIsConf'
  BY DEF Respond, Idle, EnrollmentInv, NodeIsConf
<1>8. AnswerIsRow'
  BY NoneAssumption
  DEF Respond, Idle, EnrollmentInv, AnswerIsRow, TrailLeadsHome, HeldIsUsed, NodeIsConf,
      tokenVars, agentVars
<1>9. QED
  BY <1>1, <1>2, <1>3, <1>4, <1>5, <1>6, <1>7, <1>8
  DEF Respond, EnrollmentInv, OneActiveToken, IdentityIsEnrolled, FreshToken, Active, tokenVars,
      agentVars

\* A request whose statement fails ends.
LEMMA DatabaseFailsKeeps ==
    ASSUME EnrollmentInv, NEW r \in Requests, DatabaseFails(r)
    PROVE  EnrollmentInv'
<1>1. TypeOK'
  BY DEF DatabaseFails, RecordFailure, AnswerFails, Idle, EnrollmentInv, TypeOK, HeldIsUsed,
         Kinds, Points, Callers, tokenVars, agentVars
<1>2. NodeWaits'
  BY DEF DatabaseFails, AnswerFails, Idle, EnrollmentInv, TypeOK, NodeWaits, NodeIsConf
<1>3. SingleUse'
  BY DEF DatabaseFails, AnswerFails, Idle, EnrollmentInv, SingleUse, Holding, agentVars
<1>4. TrailLeadsHome'
  BY DEF DatabaseFails, AnswerFails, EnrollmentInv, TrailLeadsHome, tokenVars, agentVars
<1>5. HeldIsUsed'
  BY DEF DatabaseFails, AnswerFails, Idle, EnrollmentInv, HeldIsUsed, Holding, tokenVars,
         agentVars
<1>6. InsertedIsRow'
  BY DEF DatabaseFails, AnswerFails, Idle, EnrollmentInv, InsertedIsRow, agentVars
<1>7. NodeIsConf'
  BY DEF DatabaseFails, AnswerFails, Idle, EnrollmentInv, NodeIsConf
<1>8. AnswerIsRow'
  BY DEF DatabaseFails, AnswerFails, Idle, EnrollmentInv, AnswerIsRow, tokenVars, agentVars
<1>9. QED
  BY <1>1, <1>2, <1>3, <1>4, <1>5, <1>6, <1>7, <1>8
  DEF DatabaseFails, EnrollmentInv, OneActiveToken, IdentityIsEnrolled, FreshToken, Active,
      tokenVars, agentVars

\* A crash of the server ends every request.
LEMMA ServerCrashKeeps ==
    ASSUME EnrollmentInv, ServerCrash
    PROVE  EnrollmentInv'
<1>1. TypeOK'
  BY DEF ServerCrash, Idle, EnrollmentInv, TypeOK, Kinds, Points, Callers, tokenVars, agentVars
<1>2. NodeWaits'
  BY DEF ServerCrash, Idle, NodeWaits
<1>3. SingleUse'
  BY DEF ServerCrash, Idle, SingleUse, Holding
<1>4. TrailLeadsHome'
  BY DEF ServerCrash, EnrollmentInv, TrailLeadsHome, tokenVars, agentVars
<1>5. HeldIsUsed'
  BY DEF ServerCrash, Idle, EnrollmentInv, HeldIsUsed, Holding, tokenVars, agentVars
<1>6. InsertedIsRow'
  BY DEF ServerCrash, Idle, InsertedIsRow
<1>7. NodeIsConf'
  BY DEF ServerCrash, Idle, NodeIsConf
<1>8. AnswerIsRow'
  BY DEF ServerCrash, Idle, EnrollmentInv, AnswerIsRow, agentVars
<1>9. QED
  BY <1>1, <1>2, <1>3, <1>4, <1>5, <1>6, <1>7, <1>8
  DEF ServerCrash, EnrollmentInv, OneActiveToken, IdentityIsEnrolled, FreshToken, Active,
      tokenVars, agentVars

\* A package is installed while no request of the node is running.
LEMMA InstallPackageKeeps ==
    ASSUME EnrollmentInv, NEW t \in Tokens, InstallPackage(t)
    PROVE  EnrollmentInv'
<1>1. TypeOK'
  BY DEF InstallPackage, EnrollmentInv, TypeOK, tokenVars, agentVars, limiterVars
<1>2. NodeIsConf'
  BY DEF InstallPackage, EnrollmentInv, NodeIsConf, NodeWaits
<1>3. AnswerIsRow'
  BY DEF InstallPackage, EnrollmentInv, AnswerIsRow, tokenVars
<1>4. QED
  BY <1>1, <1>2, <1>3
  DEF InstallPackage, EnrollmentInv, NodeWaits, SingleUse, OneActiveToken,
      IdentityIsEnrolled, TrailLeadsHome, FreshToken, HeldIsUsed, InsertedIsRow, Holding, Active,
      tokenVars, agentVars

\* The node gives up waiting.
LEMMA GiveUpKeeps ==
    ASSUME EnrollmentInv, GiveUp
    PROVE  EnrollmentInv'
<1>a. \A q \in Requests : request'[q] = [request[q] EXCEPT !.from = "stranger"]
  BY DEF GiveUp
<1>b. request' \in [Requests -> [pc : Points, token : Tokens \cup {None}, kind : Kinds,
                               from : Callers]]
  BY DEF GiveUp, EnrollmentInv, TypeOK, Callers
<1>c. \A q \in Requests : /\ request'[q].pc = request[q].pc /\ request'[q].token = request[q].token
                           /\ request'[q].from = "stranger"
  BY <1>a DEF EnrollmentInv, TypeOK
<1>1. TypeOK'
  BY <1>b DEF GiveUp, EnrollmentInv, TypeOK, tokenVars, agentVars, limiterVars
<1>2. NodeWaits'
  BY <1>c DEF GiveUp, NodeWaits
<1>3. SingleUse'
  BY DEF GiveUp, EnrollmentInv, TypeOK, SingleUse, Holding, agentVars, limiterVars
<1>4. TrailLeadsHome'
  BY DEF GiveUp, EnrollmentInv, TrailLeadsHome, tokenVars, agentVars
<1>5. HeldIsUsed'
  BY DEF GiveUp, EnrollmentInv, TypeOK, HeldIsUsed, Holding, tokenVars, agentVars
<1>6. InsertedIsRow'
  BY <1>c DEF GiveUp, EnrollmentInv, InsertedIsRow, agentVars
<1>7. NodeIsConf'
  BY <1>c DEF NodeIsConf
<1>8. AnswerIsRow'
  BY <1>c DEF GiveUp, EnrollmentInv, AnswerIsRow, tokenVars
<1>9. QED
  BY <1>1, <1>2, <1>3, <1>4, <1>5, <1>6, <1>7, <1>8
  DEF GiveUp, EnrollmentInv, OneActiveToken, IdentityIsEnrolled, FreshToken, Active, tokenVars,
      agentVars

\* identity.json is written.
LEMMA WriteIdentityKeeps ==
    ASSUME EnrollmentInv, WriteIdentity
    PROVE  EnrollmentInv'
<1>1. TypeOK'
  BY DEF WriteIdentity, EnrollmentInv, TypeOK, tokenVars, agentVars, limiterVars
<1>2. NodeWaits'
  BY DEF WriteIdentity, EnrollmentInv, NodeWaits
<1>3. IdentityIsEnrolled'
  BY DEF WriteIdentity, EnrollmentInv, IdentityIsEnrolled, AnswerIsRow, agentVars
<1>4. TrailLeadsHome'
  BY DEF WriteIdentity, EnrollmentInv, TrailLeadsHome, tokenVars, agentVars
<1>5. AnswerIsRow'
  BY DEF WriteIdentity, EnrollmentInv, AnswerIsRow, tokenVars, agentVars
<1>6. QED
  BY <1>1, <1>2, <1>3, <1>4, <1>5
  DEF WriteIdentity, EnrollmentInv, SingleUse, OneActiveToken, FreshToken, HeldIsUsed,
      InsertedIsRow, NodeIsConf, Holding, Active, tokenVars, agentVars

\* agent.conf is rewritten.
LEMMA RewriteConfKeeps ==
    ASSUME EnrollmentInv, RewriteConf
    PROVE  EnrollmentInv'
<1>1. TypeOK'
  BY DEF RewriteConf, EnrollmentInv, TypeOK, tokenVars, agentVars, limiterVars
<1>2. NodeWaits'
  BY DEF RewriteConf, EnrollmentInv, NodeWaits
<1>3. TrailLeadsHome'
  BY DEF RewriteConf, EnrollmentInv, TrailLeadsHome, tokenVars, agentVars
<1>4. NodeIsConf'
  BY DEF RewriteConf, EnrollmentInv, NodeIsConf, NodeWaits
<1>5. AnswerIsRow'
  BY DEF RewriteConf, EnrollmentInv, AnswerIsRow, tokenVars
<1>6. QED
  BY <1>1, <1>2, <1>3, <1>4, <1>5
  DEF RewriteConf, EnrollmentInv, SingleUse, OneActiveToken, IdentityIsEnrolled, FreshToken,
      HeldIsUsed, InsertedIsRow, Holding, Active, tokenVars, agentVars

\* A failed write removes identity.json.
LEMMA WriteFailsKeeps ==
    ASSUME EnrollmentInv, WriteFails
    PROVE  EnrollmentInv'
<1>1. TypeOK'
  BY DEF WriteFails, EnrollmentInv, TypeOK, tokenVars, agentVars, limiterVars
<1>2. NodeWaits'
  BY DEF WriteFails, EnrollmentInv, NodeWaits
<1>3. IdentityIsEnrolled'
  BY DEF WriteFails, IdentityIsEnrolled
<1>4. TrailLeadsHome'
  BY DEF WriteFails, EnrollmentInv, TrailLeadsHome, tokenVars, agentVars
<1>5. AnswerIsRow'
  BY DEF WriteFails, EnrollmentInv, AnswerIsRow, tokenVars
<1>6. QED
  BY <1>1, <1>2, <1>3, <1>4, <1>5
  DEF WriteFails, EnrollmentInv, SingleUse, OneActiveToken, FreshToken, HeldIsUsed, InsertedIsRow,
      NodeIsConf, Holding, Active, tokenVars, agentVars

\* The enroll command is killed.
LEMMA NodeCrashKeeps ==
    ASSUME EnrollmentInv, NodeCrash
    PROVE  EnrollmentInv'
<1>1. TypeOK'
  BY DEF NodeCrash, EnrollmentInv, TypeOK, tokenVars, agentVars, limiterVars
<1>2. NodeWaits'
  BY DEF NodeCrash, EnrollmentInv, NodeWaits
<1>3. TrailLeadsHome'
  BY DEF NodeCrash, EnrollmentInv, TrailLeadsHome, tokenVars, agentVars
<1>4. AnswerIsRow'
  BY DEF NodeCrash, EnrollmentInv, AnswerIsRow, tokenVars
<1>5. QED
  BY <1>1, <1>2, <1>3, <1>4
  DEF NodeCrash, EnrollmentInv, SingleUse, OneActiveToken, IdentityIsEnrolled, FreshToken,
      HeldIsUsed, InsertedIsRow, NodeIsConf, Holding, Active, tokenVars, agentVars

\* Before the first command nothing is issued, requested or enrolled.
LEMMA InitKeeps == Init => EnrollmentInv
<1> SUFFICES ASSUME Init PROVE EnrollmentInv
  OBVIOUS
<1>1. TypeOK
  <2>1. Idle \in [pc : Points, token : Tokens \cup {None}, kind : Kinds, from : Callers]
    BY DEF Idle, Points, Kinds, Callers
  <2>2. request \in [Requests -> [pc : Points, token : Tokens \cup {None}, kind : Kinds,
                                  from : Callers]]
    BY <2>1 DEF Init
  <2>3. /\ issue \in [Tokens -> {"idle", "insert", "audit", "done", "failed"}]
        /\ token \in [Tokens -> {"none", "active", "used", "disabled"}]
    BY DEF Init
  <2>4. linked \in [Tokens -> Tokens \cup {None}]
    BY DEF Init
  <2>5. guesses \in [Tokens -> Nat] /\ failures \in [Tokens -> Nat] /\ source \in Nat
    BY DEF Init
  <2>6. attempts \in 0..MaxAttempts
    BY BoundAssumption DEF Init
  <2>7. QED
    BY <2>2, <2>6 DEF Init, TypeOK
<1>2. QED
  BY <1>1
  DEF Init, EnrollmentInv, SingleUse, OneActiveToken, IdentityIsEnrolled, TrailLeadsHome,
      FreshToken, HeldIsUsed, InsertedIsRow, NodeIsConf, AnswerIsRow, NodeWaits, Holding, Active,
      Idle

\* Every command of the operator, statement of the server and step of the
\* node keeps the invariant.
LEMMA NextKeeps == EnrollmentInv /\ [Next]_vars => EnrollmentInv'
<1> SUFFICES ASSUME EnrollmentInv, [Next]_vars PROVE EnrollmentInv'
  OBVIOUS
<1>1. CASE Operator
  BY <1>1, DisablePriorKeeps, InsertTokenKeeps, PrintPackageKeeps, IssueFailsKeeps,
     ExpireTokenKeeps, RevokeAgentKeeps, RotateTunnelSecretKeeps DEF Operator
<1>2. CASE Server
  <2>1. ASSUME NEW r \in Requests, NEW t \in Tokens, NEW k \in Kinds, StrangerPosts(r, t, k)
        PROVE  EnrollmentInv'
    <3>1. Submit(r, t, k, "stranger") /\ "stranger" \in Callers
      BY <2>1 DEF StrangerPosts, Callers
    <3>2. QED
      BY <3>1, SubmitKeeps
  <2>2. QED
    BY <1>2, <2>1, ConsumeTokenKeeps, RejectTokenKeeps, RejectHostKeyKeeps, InsertAgentKeeps,
       LinkTokenKeeps, RespondKeeps, DatabaseFailsKeeps, ServerCrashKeeps DEF Server
<1>3. CASE Node
  <2>1. ASSUME NEW r \in Requests, RunEnroll(r)
        PROVE  EnrollmentInv'
    <3>1. conf \in Tokens /\ "right" \in Kinds /\ "node" \in Callers
      BY <2>1 DEF RunEnroll, EnrollmentInv, TypeOK, Kinds, Callers
    <3>2. Submit(r, conf, "right", "node") /\ client \in {"idle", "failed"}
      BY <2>1 DEF RunEnroll
    <3>3. QED
      BY <3>1, <3>2, SubmitKeeps
  <2>2. QED
    BY <1>3, <2>1, InstallPackageKeeps, GiveUpKeeps, WriteIdentityKeeps, RewriteConfKeeps,
       WriteFailsKeeps, NodeCrashKeeps DEF Node
<1>4. CASE UNCHANGED vars
  BY <1>4
  DEF vars, tokenVars, agentVars, limiterVars, nodeVars, EnrollmentInv, TypeOK, SingleUse,
      OneActiveToken, IdentityIsEnrolled, TrailLeadsHome, FreshToken, HeldIsUsed, InsertedIsRow,
      NodeIsConf, AnswerIsRow, NodeWaits, Holding, Active
<1>5. QED
  BY <1>1, <1>2, <1>3, <1>4 DEF Next

\* The inductive invariant holds in every reachable state.
THEOREM EnrollmentInvariant == Spec => []EnrollmentInv
BY InitKeeps, NextKeeps, PTL DEF Spec

\* Tokens are single-use and at most one is active, however many requests and
\* reissues race (consume_enrollment_token and the unique index).
THEOREM TokensAreSingleUse == Spec => [](SingleUse /\ OneActiveToken)
<1>1. EnrollmentInv => SingleUse /\ OneActiveToken
  BY DEF EnrollmentInv
<1>2. QED
  BY <1>1, EnrollmentInvariant, PTL

\* identity.json always names the agent that the server has, through every lost response, crash
\* and retry (persist_agent and complete_enrollment).
THEOREM IdentityIsAlwaysEnrolled == Spec => []IdentityIsEnrolled
<1>1. EnrollmentInv => IdentityIsEnrolled
  BY DEF EnrollmentInv
<1>2. QED
  BY <1>1, EnrollmentInvariant, PTL

\* What the node was told can be traced to its token, wherever the server stopped between the
\* row, the link and the answer (persist_agent).
THEOREM TrailAlwaysLeadsHome == Spec => []TrailLeadsHome
<1>1. EnrollmentInv => TrailLeadsHome
  BY DEF EnrollmentInv
<1>2. QED
  BY <1>1, EnrollmentInvariant, PTL

-----------------------------------------------------------------------------
(* Tokens that burn.                                                       *)

\* A step that neither uses nor links a token, ends no request that holds one, and takes
\* back no count.
LEMMA BurntUnmoved ==
    ASSUME EnrollmentInv, BurntIsCounted, UNCHANGED <<linked, forgotten>>,
           \A t \in Tokens : token'[t] = "used" <=> token[t] = "used",
           \A r \in Requests : Holding(r) => Holding(r)' /\ request'[r].token = request[r].token,
           \A t \in Tokens : failures[t] > 0 => failures'[t] > 0
    PROVE  BurntIsCounted'
BY DEF BurntIsCounted, Burnt

\* The failure of a request that held its token is counted.
LEMMA BurntByFailure ==
    ASSUME EnrollmentInv, BurntIsCounted, UNCHANGED <<token, linked, forgotten>>,
           NEW r \in Requests, request[r].token \in Tokens,
           RecordFailure(request[r].token), request' = [request EXCEPT ![r] = Idle]
    PROVE  BurntIsCounted'
BY DEF EnrollmentInv, TypeOK, BurntIsCounted, Burnt, RecordFailure, Holding

\* Every step counts what it burns.
LEMMA BurntKeeps ==
    ASSUME EnrollmentInv, BurntIsCounted, [Next]_vars
    PROVE  BurntIsCounted'
<1>1. CASE Operator
  <2>1. UNCHANGED <<linked, forgotten, request, failures>>
    BY <1>1
    DEF Operator, DisablePrior, InsertToken, PrintPackage, IssueFails, ExpireToken, RevokeAgent,
        RotateTunnelSecret, tokenVars, limiterVars
  <2>2. \A t \in Tokens : token'[t] = "used" <=> token[t] = "used"
    BY <1>1
    DEF Operator, DisablePrior, InsertToken, PrintPackage, IssueFails, ExpireToken, RevokeAgent,
        RotateTunnelSecret, Active, EnrollmentInv, TypeOK, FreshToken, tokenVars
  <2>3. QED
    BY <2>1, <2>2, BurntUnmoved DEF Holding, EnrollmentInv, TypeOK
<1>2. ASSUME NEW r \in Requests, NEW t \in Tokens, NEW k, NEW f, Submit(r, t, k, f)
      PROVE  BurntIsCounted'
  <2>1. \A u \in Tokens : failures[u] > 0 => failures'[u] > 0
    BY <1>2 DEF Submit, RecordFailure, EnrollmentInv, TypeOK
  <2>2. \A q \in Requests : Holding(q) => Holding(q)' /\ request'[q].token = request[q].token
    BY <1>2 DEF Submit, Holding, EnrollmentInv, TypeOK
  <2>3. UNCHANGED <<token, linked, forgotten>>
    BY <1>2 DEF Submit, tokenVars
  <2>4. QED
    BY <2>1, <2>2, <2>3, BurntUnmoved
<1>3. ASSUME NEW r \in Requests, ConsumeToken(r)
      PROVE  BurntIsCounted'
  BY <1>3 DEF ConsumeToken, BurntIsCounted, Burnt, Holding, EnrollmentInv, TypeOK, HeldIsUsed,
      limiterVars
<1>4. ASSUME NEW r \in Requests, RejectToken(r) \/ RejectHostKey(r) \/ DatabaseFails(r)
      PROVE  BurntIsCounted'
  BY <1>4, BurntByFailure
  DEF RejectToken, RejectHostKey, DatabaseFails, AnswerFails, EnrollmentInv, HeldIsUsed, tokenVars
<1>5. ASSUME NEW r \in Requests, InsertAgent(r)
      PROVE  BurntIsCounted'
  <2>1. CASE MayEnroll
    BY <1>5, <2>1, BurntUnmoved DEF InsertAgent, Holding, EnrollmentInv, TypeOK, tokenVars
  <2>2. CASE ~MayEnroll
    BY <1>5, <2>2, BurntByFailure
    DEF InsertAgent, AnswerFails, EnrollmentInv, HeldIsUsed, tokenVars
  <2>3. QED
    BY <2>1, <2>2
<1>6. ASSUME NEW r \in Requests, LinkToken(r)
      PROVE  BurntIsCounted'
  <2>1. \A q \in Requests : Holding(q) => Holding(q)' /\ request'[q].token = request[q].token
    BY <1>6 DEF LinkToken, Holding, EnrollmentInv, TypeOK
  <2>2. \A t \in Tokens : linked[t] = t => linked'[t] = t
    BY <1>6, NoneAssumption DEF LinkToken, LinkTokens
  <2>3. UNCHANGED <<token, forgotten, failures>>
    BY <1>6 DEF LinkToken, limiterVars
  <2>4. QED
    BY <2>1, <2>2, <2>3 DEF BurntIsCounted, Burnt
<1>7. ASSUME NEW r \in Requests, Respond(r)
      PROVE  BurntIsCounted'
  BY <1>7 DEF Respond, Idle, BurntIsCounted, Burnt, Holding, EnrollmentInv, TypeOK, HeldIsUsed,
      AnswerIsRow, tokenVars, limiterVars
<1>8. CASE ServerCrash
  BY <1>8 DEF ServerCrash, BurntIsCounted, Burnt, tokenVars
<1>9. CASE GiveUp
  <2>1. \A q \in Requests : request'[q].pc = request[q].pc /\ request'[q].token = request[q].token
    BY <1>9 DEF GiveUp, EnrollmentInv, TypeOK
  <2>2. QED
    BY <1>9, <2>1, BurntUnmoved DEF GiveUp, Holding, EnrollmentInv, TypeOK, tokenVars, limiterVars
<1>10. CASE \/ \E t \in Tokens : InstallPackage(t)
            \/ WriteIdentity \/ RewriteConf \/ WriteFails \/ NodeCrash \/ UNCHANGED vars
  <2>1. UNCHANGED <<token, linked, forgotten, request, failures>>
    BY <1>10
    DEF InstallPackage, WriteIdentity, RewriteConf, WriteFails, NodeCrash, vars, tokenVars,
        limiterVars
  <2>2. QED
    BY <2>1, BurntUnmoved DEF Holding, EnrollmentInv, TypeOK
<1>11. ASSUME NEW r \in Requests, RunEnroll(r)
       PROVE  BurntIsCounted'
  BY <1>11, <1>2 DEF RunEnroll, EnrollmentInv, TypeOK
<1>12. QED
  BY <1>1, <1>2, <1>3, <1>4, <1>5, <1>6, <1>7, <1>8, <1>9, <1>10, <1>11
  DEF Next, Server, Node, StrangerPosts

\* A token that is used up without an agent of its own has a failure counted against it, or
\* a restart has taken the server's memory of it (consume_enrollment_token, persist_agent and
\* the except clause of enroll).
THEOREM BurntTokensAreCounted == Spec => []BurntIsCounted
<1>1. Init => BurntIsCounted
  BY DEF Init, BurntIsCounted, Burnt
<1>2. EnrollmentInv /\ BurntIsCounted /\ [Next]_vars => BurntIsCounted'
  BY BurntKeeps
<1>3. QED
  BY <1>1, <1>2, EnrollmentInvariant, PTL DEF Spec

-----------------------------------------------------------------------------
(* The rate limiter.                                                       *)

\* How many requests are undecided is a number, and no more than there are.
LEMMA UndecidedIsFinite ==
    ASSUME NEW t \in Tokens
    PROVE  /\ IsFiniteSet(Undecided(t)) /\ Cardinality(Undecided(t)) \in Nat
           /\ Cardinality(Undecided(t)) <= Cardinality(Requests)
           /\ Cardinality(Requests) \in Nat
<1>1. Undecided(t) \in SUBSET Requests
  BY DEF Undecided
<1>2. QED
  BY <1>1, RequestsAssumption, FS_Subset, FS_CardinalityType

\* The same in the next state.
LEMMA UndecidedStaysFinite ==
    ASSUME NEW t \in Tokens
    PROVE  /\ IsFiniteSet(Undecided(t)') /\ Cardinality(Undecided(t)') \in Nat
           /\ Cardinality(Undecided(t)') <= Cardinality(Requests)
<1>1. Undecided(t)' \in SUBSET Requests
  BY DEF Undecided
<1>2. QED
  BY <1>1, RequestsAssumption, FS_Subset, FS_CardinalityType

\* A step that makes no guess and lets no request past is_limited keeps LimiterInv.
LEMMA FewerUndecided ==
    ASSUME EnrollmentInv, EnrollmentInv', LimiterInv,
           \A t \in Tokens : /\ guesses'[t] <= guesses[t]
                             /\ guesses'[t] <= failures'[t]
                             /\ Undecided(t)' \subseteq Undecided(t)
    PROVE  LimiterInv'
<1> SUFFICES ASSUME NEW t \in Tokens
             PROVE  /\ guesses'[t] <= failures'[t]
                    /\ guesses'[t] + Cardinality(Undecided(t)') < MaxFailures + Cardinality(Requests)
  BY DEF LimiterInv
<1>1. Cardinality(Undecided(t)') <= Cardinality(Undecided(t))
  BY UndecidedIsFinite, FS_Subset
<1>2. guesses[t] + Cardinality(Undecided(t)) < MaxFailures + Cardinality(Requests)
  BY DEF LimiterInv
<1>3. guesses[t] \in Nat /\ guesses'[t] \in Nat
  BY DEF EnrollmentInv, TypeOK
<1>4. QED
  BY <1>1, <1>2, <1>3, UndecidedIsFinite, UndecidedStaysFinite, LimitAssumption

\* A request that passes is_limited finds fewer guesses than the limit.
LEMMA SubmitKeepsLimit ==
    ASSUME EnrollmentInv, EnrollmentInv', LimiterInv, NEW r \in Requests, NEW t \in Tokens,
           NEW kind \in Kinds, NEW from \in Callers, Submit(r, t, kind, from)
    PROVE  LimiterInv'
<1>1. CASE IsLimited(t)
  <2>1. \A u \in Tokens : guesses'[u] <= failures'[u]
    BY DEF Submit, RecordFailure, EnrollmentInv, TypeOK, LimiterInv
  <2>2. guesses' = guesses /\ request' = request
    BY <1>1 DEF Submit
  <2>3. \A u \in Tokens : guesses'[u] <= guesses[u] /\ Undecided(u)' \subseteq Undecided(u)
    BY <2>2 DEF Undecided, EnrollmentInv, TypeOK
  <2>4. QED
    BY <2>1, <2>3, FewerUndecided
<1>2. CASE ~IsLimited(t)
  <2>1. /\ guesses' = guesses /\ failures' = failures
        /\ request[r].pc = "idle"
        /\ request' = [request EXCEPT ![r] =
                         [pc |-> "consume", token |-> t, kind |-> kind, from |-> from]]
    BY <1>2 DEF Submit
  <2> SUFFICES ASSUME NEW u \in Tokens
               PROVE  guesses'[u] + Cardinality(Undecided(u)') < MaxFailures + Cardinality(Requests)
    BY <2>1 DEF LimiterInv
  <2>2. CASE u = t
    <3>1. guesses[t] < MaxFailures /\ guesses[t] \in Nat
      BY <1>2, LimitAssumption DEF IsLimited, LimiterInv, EnrollmentInv, TypeOK
    <3>2. QED
      BY <2>1, <2>2, <3>1, UndecidedIsFinite, UndecidedStaysFinite, LimitAssumption
  <2>3. CASE u # t
    <3>1. Undecided(u)' = Undecided(u)
      BY <2>1, <2>3 DEF Undecided
    <3>2. QED
      BY <2>1, <3>1 DEF LimiterInv
  <2>4. QED
    BY <2>2, <2>3
<1>3. QED
  BY <1>1, <1>2

\* A guess is one undecided request less.
LEMMA RejectTokenKeepsLimit ==
    ASSUME EnrollmentInv, EnrollmentInv', LimiterInv, NEW r \in Requests, RejectToken(r)
    PROVE  LimiterInv'
<1> DEFINE g == request[r].token
<1>1. g \in Tokens /\ r \in Undecided(g)
  BY DEF RejectToken, EnrollmentInv, HeldIsUsed, Undecided
<1>2. /\ guesses' = [guesses EXCEPT ![g] = @ + 1] /\ failures' = [failures EXCEPT ![g] = @ + 1]
      /\ request' = [request EXCEPT ![r] = Idle]
  BY DEF RejectToken, RecordFailure, AnswerFails
<1> SUFFICES ASSUME NEW u \in Tokens
             PROVE  /\ guesses'[u] <= failures'[u]
                    /\ guesses'[u] + Cardinality(Undecided(u)') < MaxFailures + Cardinality(Requests)
  BY DEF LimiterInv
<1>3. /\ guesses[u] \in Nat /\ failures[u] \in Nat /\ guesses[u] <= failures[u]
      /\ guesses[u] + Cardinality(Undecided(u)) < MaxFailures + Cardinality(Requests)
  BY DEF LimiterInv, EnrollmentInv, TypeOK
<1>4. Undecided(u)' = Undecided(u) \ {r}
  BY <1>2 DEF Undecided, Idle, EnrollmentInv, TypeOK
<1>5. CASE u = g
  <2>1. guesses'[u] = guesses[u] + 1 /\ failures'[u] = failures[u] + 1
    BY <1>2, <1>5 DEF EnrollmentInv, TypeOK
  <2>2. Cardinality(Undecided(u)') = Cardinality(Undecided(u)) - 1
    BY <1>1, <1>4, <1>5, UndecidedIsFinite, FS_RemoveElement
  <2>3. QED
    BY <2>1, <2>2, <1>3, UndecidedIsFinite
<1>6. CASE u # g
  <2>1. guesses'[u] = guesses[u] /\ failures'[u] = failures[u]
    BY <1>2, <1>6
  <2>2. Undecided(u)' = Undecided(u)
    BY <1>4, <1>6 DEF Undecided
  <2>3. QED
    BY <2>1, <2>2, <1>3
<1>7. QED
  BY <1>5, <1>6

\* The other steps of a request, and of the node, leave no more undecided than there were.
LEMMA RequestKeepsLimit ==
    ASSUME EnrollmentInv, EnrollmentInv', LimiterInv,
           \/ \E r \in Requests :
                \/ ConsumeToken(r) \/ RejectHostKey(r) \/ InsertAgent(r) \/ LinkToken(r)
                \/ Respond(r) \/ DatabaseFails(r)
           \/ GiveUp \/ ServerCrash
    PROVE  LimiterInv'
<1>1. \A t \in Tokens : guesses'[t] <= guesses[t]
  BY DEF ConsumeToken, RejectHostKey, InsertAgent, LinkToken, Respond, DatabaseFails, GiveUp,
      ServerCrash, limiterVars, EnrollmentInv, TypeOK
<1>2. \A t \in Tokens : guesses'[t] <= failures'[t]
  BY DEF ConsumeToken, RejectHostKey, InsertAgent, LinkToken, Respond, DatabaseFails, GiveUp,
      ServerCrash, RecordFailure, limiterVars, EnrollmentInv, TypeOK, LimiterInv
<1>3. \A t \in Tokens : Undecided(t)' \subseteq Undecided(t)
  BY DEF ConsumeToken, RejectHostKey, InsertAgent, LinkToken, Respond, DatabaseFails, GiveUp,
      ServerCrash, AnswerFails, Idle, Undecided, EnrollmentInv, TypeOK
<1>4. QED
  BY <1>1, <1>2, <1>3, FewerUndecided

\* Every step keeps LimiterInv.
LEMMA NextKeepsLimit == EnrollmentInv /\ EnrollmentInv' /\ LimiterInv /\ [Next]_vars => LimiterInv'
<1> SUFFICES ASSUME EnrollmentInv, EnrollmentInv', LimiterInv, [Next]_vars
             PROVE  LimiterInv'
  OBVIOUS
<1>1. CASE UNCHANGED <<request, guesses, failures>>
  BY <1>1 DEF LimiterInv, Undecided
<1>2. CASE Operator
  BY <1>1, <1>2
  DEF Operator, DisablePrior, InsertToken, PrintPackage, IssueFails, ExpireToken,
      RevokeAgent, RotateTunnelSecret, limiterVars
<1>3. CASE Server
  <2>1. ASSUME NEW r \in Requests, NEW t \in Tokens, NEW k \in Kinds, StrangerPosts(r, t, k)
        PROVE  LimiterInv'
    <3>1. Submit(r, t, k, "stranger") /\ "stranger" \in Callers
      BY <2>1 DEF StrangerPosts, Callers
    <3>2. QED
      BY <3>1, SubmitKeepsLimit
  <2>2. QED
    BY <1>3, <2>1, RejectTokenKeepsLimit, RequestKeepsLimit DEF Server
<1>4. CASE Node
  <2>1. ASSUME NEW r \in Requests, RunEnroll(r)
        PROVE  LimiterInv'
    <3>1. conf \in Tokens /\ "right" \in Kinds /\ "node" \in Callers
      BY <2>1 DEF RunEnroll, EnrollmentInv, TypeOK, Kinds, Callers
    <3>2. Submit(r, conf, "right", "node")
      BY <2>1 DEF RunEnroll
    <3>3. QED
      BY <3>1, <3>2, SubmitKeepsLimit
  <2>2. CASE \/ \E t \in Tokens : InstallPackage(t)
             \/ WriteIdentity \/ RewriteConf \/ WriteFails \/ NodeCrash
    BY <1>1, <2>2 DEF InstallPackage, WriteIdentity, RewriteConf, WriteFails, NodeCrash, limiterVars
  <2>3. QED
    BY <1>4, <2>1, <2>2, RequestKeepsLimit DEF Node
<1>5. QED
  BY <1>1, <1>2, <1>3, <1>4 DEF Next, vars, limiterVars

\* "5 failed attempts per 10 minutes per token hash", up to the requests that ran at the
\* same time: however many guess at a token, fewer than the limit and as many more as can
\* run at once reach the token table (EnrollmentRateLimiter, enroll).
THEOREM GuessesAreBounded == Spec => []GuessesBounded
<1>1. Init => LimiterInv
  <2> SUFFICES ASSUME Init, NEW t \in Tokens
               PROVE  /\ guesses[t] <= failures[t]
                      /\ guesses[t] + Cardinality(Undecided(t)) < MaxFailures + Cardinality(Requests)
    BY DEF LimiterInv
  <2>1. guesses[t] = 0 /\ failures[t] = 0
    BY DEF Init
  <2>2. QED
    BY <2>1, UndecidedIsFinite, LimitAssumption
<1>2. EnrollmentInv /\ LimiterInv => GuessesBounded
  <2> SUFFICES ASSUME EnrollmentInv, LimiterInv, NEW t \in Tokens
               PROVE  guesses[t] < MaxFailures + Cardinality(Requests)
    BY DEF GuessesBounded
  <2>1. /\ guesses[t] \in Nat
        /\ guesses[t] + Cardinality(Undecided(t)) < MaxFailures + Cardinality(Requests)
    BY DEF EnrollmentInv, TypeOK, LimiterInv
  <2>2. QED
    BY <2>1, UndecidedIsFinite, LimitAssumption
<1>3. QED
  BY <1>1, <1>2, NextKeepsLimit, EnrollmentInvariant, PTL DEF Spec
=============================================================================
