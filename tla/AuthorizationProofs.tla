------------------------- MODULE AuthorizationProofs -------------------------
(***************************************************************************)
(* Nobody jumps where the login does not allow, for every set of users,    *)
(* keys, nodes, labels and requests and any number of changes by the       *)
(* operator between a request's three reads.  One lemma per action, one    *)
(* step per part of AuthorizationInv that the action can disturb.          *)
(***************************************************************************)
EXTENDS Authorization, TLAPS

\* What TypeOK says of a request.
RequestRecords ==
    [pc : Points, command : Commands \cup {None}, visible : SUBSET Nodes,
     presented : Pins \cup {None}, target : Pins \cup {None}, pinThen : Pins \cup {None},
     revokedThen : BOOLEAN]

\* A key is offered; a signed one that resolves logs the user in.
LEMMA OfferKeyKeeps ==
    ASSUME AuthorizationInv, NEW u \in Users, NEW k \in Keys, NEW signed \in BOOLEAN, OfferKey(u, k, signed)
    PROVE  AuthorizationInv'
<1>1. TypeOK'
  BY DEF AuthorizationInv, Entries, Identities, Logins, TypeOK, OfferKey, Validate, Resolves,
         Holders, operatorVars
<1>2. LoginFixed'
  <2>1. login = None /\ \A r \in Requests : request[r].pc = "idle"
    BY DEF OfferKey, AuthorizationInv, LoginFixed
  <2>2. CASE signed /\ Resolves(u, k)
    <3>1. /\ conn' = "open" /\ k \in ClientKeys /\ Holders(k) = {u}
          /\ identity' = [user |-> u, key |-> k, groups |-> file[u].groups]
          /\ login' = [user |-> u, key |-> k, holders |-> Holders(k), groups |-> file[u].groups]
      BY <2>2 DEF OfferKey, Validate, Resolves
    <3>2. identity' # None /\ login' # None
      BY <1>1, <3>1, NoneAssumption DEF TypeOK, Identities, Logins
    <3>3. QED
      BY <3>1, <3>2 DEF LoginFixed
  <2>3. CASE ~(signed /\ Resolves(u, k))
    BY <2>1, <2>3 DEF OfferKey, LoginFixed
  <2>4. QED
    BY <2>2, <2>3
<1>3. RequestGranted'
  BY DEF AuthorizationInv, LoginFixed, RequestGranted, OfferKey
<1>4. OnlyGranted'
  BY DEF AuthorizationInv, TypeOK, LoginFixed, RowIsLast, OnlyGranted, OfferKey
<1>5. QED
  BY <1>1, <1>2, <1>3, <1>4
  DEF AuthorizationInv, ReadsAgree, RowIsLast, RevocationHeeded, OfferKey

\* A resolver that raises ends the connection.
LEMMA ResolverRaisesKeeps ==
    ASSUME AuthorizationInv, ResolverRaises
    PROVE  AuthorizationInv'
<1>1. TypeOK'
  BY DEF AuthorizationInv, TypeOK, ResolverRaises, operatorVars
<1>2. LoginFixed'
  BY DEF AuthorizationInv, LoginFixed, ResolverRaises
<1>3. QED
  BY <1>1, <1>2
  DEF AuthorizationInv, RequestGranted, ReadsAgree, RowIsLast, OnlyGranted, RevocationHeeded,
      ResolverRaises

\* The client goes away.
LEMMA DisconnectKeeps ==
    ASSUME AuthorizationInv, Disconnect
    PROVE  AuthorizationInv'
<1>1. TypeOK'
  BY NoneAssumption
  DEF AuthorizationInv, Points, Commands, Identities, Logins, TypeOK, Disconnect, operatorVars
<1>2. LoginFixed'
  BY DEF AuthorizationInv, LoginFixed, Disconnect
<1>3. RequestGranted'
  BY DEF RequestGranted, Disconnect
<1>4. ReadsAgree'
  BY DEF AuthorizationInv, ReadsAgree, Disconnect
<1>5. RowIsLast'
  BY DEF AuthorizationInv, TypeOK, RowIsLast, Disconnect
<1>6. RevocationHeeded'
  BY DEF AuthorizationInv, TypeOK, RevocationHeeded, Disconnect
<1>7. QED
  BY <1>1, <1>2, <1>3, <1>4, <1>5, <1>6 DEF AuthorizationInv, OnlyGranted, Disconnect

\* An exec request.
LEMMA StartExecKeeps ==
    ASSUME AuthorizationInv, NEW r \in Requests, NEW command \in Commands, StartExec(r, command)
    PROVE  AuthorizationInv'
<1>1. TypeOK'
  <2>1. PICK v \in {"visible", "denied"} :
          request' = [request EXCEPT ![r] = [@ EXCEPT !.command = command, !.pc = v]]
    BY DEF StartExec
  <2>2. request \in [Requests -> RequestRecords]
    BY DEF AuthorizationInv, TypeOK, RequestRecords
  <2>3. [request[r] EXCEPT !.command = command, !.pc = v] \in RequestRecords
    BY <2>2 DEF RequestRecords, Points
  <2>4. request' \in [Requests -> RequestRecords]
    BY <2>1, <2>2, <2>3
  <2>5. QED
    BY <2>4 DEF AuthorizationInv, TypeOK, RequestRecords, StartExec, operatorVars, loginVars
<1>2. LoginFixed'
  BY DEF AuthorizationInv, LoginFixed, StartExec, loginVars
<1>3. RequestGranted'
  BY DEF AuthorizationInv, RequestGranted, StartExec, loginVars
<1>4. ReadsAgree'
  BY DEF AuthorizationInv, ReadsAgree, StartExec
<1>5. RowIsLast'
  BY DEF AuthorizationInv, RowIsLast, StartExec
<1>6. RevocationHeeded'
  BY DEF AuthorizationInv, RevocationHeeded, StartExec
<1>7. QED
  BY <1>1, <1>2, <1>3, <1>4, <1>5, <1>6 DEF AuthorizationInv, OnlyGranted, StartExec, loginVars

\* The first read: only nodes of the identity's groups pass.
LEMMA ReadVisibleKeeps ==
    ASSUME AuthorizationInv, NEW r \in Requests, ReadVisible(r)
    PROVE  AuthorizationInv'
<1>1. TypeOK'
  <2>1. Visible \subseteq Nodes
    BY DEF Visible
  <2>2. PICK v \in {"hostkey", "denied"} :
          request' = [request EXCEPT ![r] = [@ EXCEPT !.visible = Visible, !.pc = v]]
    BY DEF ReadVisible
  <2>3. request \in [Requests -> RequestRecords]
    BY DEF AuthorizationInv, TypeOK, RequestRecords
  <2>4. [request[r] EXCEPT !.visible = Visible, !.pc = v] \in RequestRecords
    BY <2>1, <2>3 DEF RequestRecords, Points
  <2>5. request' \in [Requests -> RequestRecords]
    BY <2>2, <2>3, <2>4
  <2>6. QED
    BY <2>5 DEF AuthorizationInv, TypeOK, RequestRecords, ReadVisible, operatorVars, loginVars
<1>2. LoginFixed'
  BY DEF AuthorizationInv, LoginFixed, ReadVisible, loginVars
<1>3. RequestGranted'
  BY DEF AuthorizationInv, LoginFixed, RequestGranted, ReadVisible, Visible, loginVars
<1>4. ReadsAgree'
  BY DEF AuthorizationInv, ReadsAgree, ReadVisible
<1>5. RowIsLast'
  BY DEF AuthorizationInv, RowIsLast, ReadVisible
<1>6. RevocationHeeded'
  BY DEF AuthorizationInv, RevocationHeeded, ReadVisible
<1>7. QED
  BY <1>1, <1>2, <1>3, <1>4, <1>5, <1>6 DEF AuthorizationInv, OnlyGranted, ReadVisible, loginVars

\* The second read.
LEMMA ReadHostKeyKeeps ==
    ASSUME AuthorizationInv, NEW r \in Requests, ReadHostKey(r)
    PROVE  AuthorizationInv'
<1>1. TypeOK'
  <2>1. pin[request[r].command] \in Pins
    BY DEF AuthorizationInv, TypeOK, RequestGranted, ReadHostKey
  <2> DEFINE n == request[r].command
             shown == IF n \in revoked THEN None ELSE pin[n]
  <2>2. shown \in Pins \cup {None} /\ pin[n] \in Pins \cup {None}
    BY <2>1
  <2>3. request' = [request EXCEPT ![r] =
                      [@ EXCEPT !.pc = "target", !.pinThen = pin[n], !.presented = shown]]
    BY DEF ReadHostKey
  <2> HIDE DEF shown, n
  <2>4. request \in [Requests -> RequestRecords]
    BY DEF AuthorizationInv, TypeOK, RequestRecords
  <2>5. [request[r] EXCEPT !.pc = "target", !.pinThen = pin[n], !.presented = shown]
          \in RequestRecords
    BY <2>2, <2>4 DEF RequestRecords, Points
  <2>6. request' \in [Requests -> RequestRecords]
    BY <2>3, <2>4, <2>5
  <2>7. QED
    BY <2>6 DEF AuthorizationInv, TypeOK, RequestRecords, ReadHostKey, operatorVars, loginVars
<1>2. LoginFixed'
  BY DEF AuthorizationInv, LoginFixed, ReadHostKey, loginVars
<1>3. RequestGranted'
  BY DEF AuthorizationInv, RequestGranted, ReadHostKey, loginVars
<1>4. ReadsAgree'
  BY DEF AuthorizationInv, ReadsAgree, ReadHostKey
<1>5. RowIsLast'
  BY DEF AuthorizationInv, RowIsLast, ReadHostKey
<1>6. RevocationHeeded'
  BY DEF AuthorizationInv, RevocationHeeded, ReadHostKey
<1>7. QED
  BY <1>1, <1>2, <1>3, <1>4, <1>5, <1>6 DEF AuthorizationInv, OnlyGranted, ReadHostKey, loginVars

\* The third read: the pin must be the one presented, the node unrevoked.
LEMMA ReadTargetKeeps ==
    ASSUME AuthorizationInv, NEW r \in Requests, NEW fresh \in BOOLEAN, ReadTarget(r, fresh)
    PROVE  AuthorizationInv'
<1> DEFINE n == request[r].command
           t == JumpTarget(n)
           v == Verdict(t, request[r].presented, fresh)
<1>1. /\ request[r].pc = "target" /\ UNCHANGED <<operatorVars, loginVars, sessions>>
      /\ request' = [request EXCEPT ![r] =
                       [@ EXCEPT !.target = t, !.revokedThen = n \in revoked, !.pc = v]]
  BY DEF ReadTarget
<1>2. request \in [Requests -> RequestRecords]
  BY DEF AuthorizationInv, TypeOK, RequestRecords
<1>3. /\ t \in Pins \cup {None} /\ v \in {"auditing", "denied", "create"}
      /\ v = "create" => t # None /\ t = request[r].presented /\ n \notin revoked
  <2>1. n \in Nodes
    BY <1>1 DEF AuthorizationInv, RequestGranted
  <2>2. QED
    BY <2>1 DEF AuthorizationInv, TypeOK, JumpTarget, Verdict, PinMatches
<1> HIDE DEF n, t, v
<1>4. [request[r] EXCEPT !.target = t, !.revokedThen = n \in revoked, !.pc = v] \in RequestRecords
  <2>1. (n \in revoked) \in BOOLEAN
    OBVIOUS
  <2>2. ASSUME NEW b \in BOOLEAN
        PROVE  [request[r] EXCEPT !.target = t, !.revokedThen = b, !.pc = v] \in RequestRecords
    BY <1>2, <1>3 DEF RequestRecords, Points
  <2>3. QED
    BY <2>1, <2>2
<1>5. request' \in [Requests -> RequestRecords] /\ \A q \in Requests : q # r => request'[q] = request[q]
  BY <1>1, <1>2, <1>4
<1>6. /\ request'[r].pc = v /\ request'[r].command = request[r].command
      /\ request'[r].target = t /\ request'[r].pinThen = request[r].pinThen
      /\ request'[r].revokedThen = (n \in revoked)
  BY <1>1, <1>2
<1>7. TypeOK'
  BY <1>1, <1>5 DEF AuthorizationInv, TypeOK, RequestRecords, operatorVars, loginVars
<1>8. LoginFixed'
  BY <1>1 DEF AuthorizationInv, LoginFixed, loginVars
<1>9. RequestGranted'
  BY <1>1 DEF AuthorizationInv, RequestGranted, loginVars
<1>10. ReadsAgree'
  BY <1>1, <1>3, <1>5, <1>6 DEF AuthorizationInv, ReadsAgree
<1>11. RowIsLast' /\ RevocationHeeded'
  BY <1>1 DEF AuthorizationInv, RowIsLast, RevocationHeeded
<1>12. QED
  BY <1>1, <1>7, <1>8, <1>9, <1>10, <1>11 DEF AuthorizationInv, OnlyGranted, loginVars

\* A denial is audited.
LEMMA AuditDenialKeeps ==
    ASSUME AuthorizationInv, NEW r \in Requests, AuditDenial(r)
    PROVE  AuthorizationInv'
<1>1. TypeOK'
  BY NoneAssumption
  DEF AuthorizationInv, Points, Entries, Identities, Logins, LoginFixed, TypeOK, AuditDenial,
      Goto, operatorVars, loginVars
<1>2. LoginFixed'
  BY DEF AuthorizationInv, LoginFixed, AuditDenial, loginVars
<1>3. RequestGranted'
  BY DEF AuthorizationInv, RequestGranted, AuditDenial, Goto, loginVars
<1>4. ReadsAgree'
  BY DEF AuthorizationInv, ReadsAgree, AuditDenial, Goto
<1>5. RowIsLast'
  BY DEF AuthorizationInv, RowIsLast, AuditDenial, Goto
<1>6. RevocationHeeded'
  BY DEF AuthorizationInv, RevocationHeeded, AuditDenial, Goto
<1>7. QED
  BY <1>1, <1>2, <1>3, <1>4, <1>5, <1>6 DEF AuthorizationInv, OnlyGranted, AuditDenial, loginVars

\* The session row is written.
LEMMA CreateSessionKeeps ==
    ASSUME AuthorizationInv, NEW r \in Requests, CreateSession(r)
    PROVE  AuthorizationInv'
<1>1. TypeOK'
  <2>1. identity.user \in Users /\ request[r].command \in Nodes
    BY DEF AuthorizationInv, TypeOK, LoginFixed, RequestGranted, Identities, CreateSession
  <2>2. QED
    BY <2>1 DEF AuthorizationInv, TypeOK, Points, CreateSession, Goto, operatorVars, loginVars
<1>2. LoginFixed'
  BY DEF AuthorizationInv, LoginFixed, CreateSession, loginVars
<1>3. RequestGranted'
  BY DEF AuthorizationInv, RequestGranted, CreateSession, Goto, loginVars
<1>4. ReadsAgree'
  BY DEF AuthorizationInv, ReadsAgree, CreateSession, Goto
<1>5. RowIsLast'
  BY DEF AuthorizationInv, TypeOK, RowIsLast, CreateSession, Goto
<1>6. OnlyGranted'
  BY DEF AuthorizationInv, LoginFixed, RequestGranted, OnlyGranted, CreateSession, loginVars
<1>7. RevocationHeeded'
  BY DEF AuthorizationInv, ReadsAgree, RevocationHeeded, CreateSession, Goto
<1>8. QED
  BY <1>1, <1>2, <1>3, <1>4, <1>5, <1>6, <1>7 DEF AuthorizationInv

\* The node connection succeeds or fails.
LEMMA OpenNodeKeeps ==
    ASSUME AuthorizationInv, NEW r \in Requests, OpenNode(r)
    PROVE  AuthorizationInv'
<1>1. TypeOK'
  BY DEF AuthorizationInv, Points, Commands, Identities, TypeOK, OpenNode, Goto, operatorVars,
         loginVars
<1>2. LoginFixed'
  BY DEF AuthorizationInv, LoginFixed, OpenNode, loginVars
<1>3. RequestGranted'
  BY DEF AuthorizationInv, RequestGranted, OpenNode, Goto, loginVars
<1>4. ReadsAgree'
  BY DEF AuthorizationInv, ReadsAgree, OpenNode, Goto
<1>5. RowIsLast'
  BY DEF AuthorizationInv, RowIsLast, OpenNode, Goto
<1>6. RevocationHeeded'
  BY DEF AuthorizationInv, RevocationHeeded, OpenNode, Goto
<1>7. QED
  BY <1>1, <1>2, <1>3, <1>4, <1>5, <1>6 DEF AuthorizationInv, OnlyGranted, OpenNode, loginVars

\* A statement fails.
LEMMA DatabaseFailsKeeps ==
    ASSUME AuthorizationInv, NEW r \in Requests, DatabaseFails(r)
    PROVE  AuthorizationInv'
<1>1. TypeOK'
  BY DEF AuthorizationInv, Points, TypeOK, DatabaseFails, Goto, operatorVars, loginVars
<1>2. LoginFixed'
  BY DEF AuthorizationInv, LoginFixed, DatabaseFails, loginVars
<1>3. RequestGranted'
  BY DEF AuthorizationInv, RequestGranted, DatabaseFails, Goto, loginVars
<1>4. ReadsAgree'
  BY DEF AuthorizationInv, ReadsAgree, DatabaseFails, Goto
<1>5. RowIsLast'
  BY DEF AuthorizationInv, RowIsLast, DatabaseFails, Goto
<1>6. RevocationHeeded'
  BY DEF AuthorizationInv, RevocationHeeded, DatabaseFails, Goto
<1>7. QED
  BY <1>1, <1>2, <1>3, <1>4, <1>5, <1>6
  DEF AuthorizationInv, OnlyGranted, DatabaseFails, loginVars

\* The operator edits a user's entry.
LEMMA EditFileKeeps ==
    ASSUME AuthorizationInv, NEW u \in Users, EditFile(u)
    PROVE  AuthorizationInv'
<1>1. TypeOK'
  BY EditsAssumption DEF AuthorizationInv, TypeOK, EditFile, Edit, loginVars
<1>2. QED
  BY <1>1
  DEF AuthorizationInv, LoginFixed, RequestGranted, ReadsAgree, RowIsLast, OnlyGranted,
      RevocationHeeded, EditFile, loginVars

\* The file goes bad.
LEMMA BreakFileKeeps ==
    ASSUME AuthorizationInv, BreakFile
    PROVE  AuthorizationInv'
<1>1. TypeOK'
  BY EditsAssumption DEF AuthorizationInv, TypeOK, BreakFile, Edit, loginVars
<1>2. QED
  BY <1>1
  DEF AuthorizationInv, LoginFixed, RequestGranted, ReadsAgree, RowIsLast, OnlyGranted,
      RevocationHeeded, BreakFile, loginVars

\* An agent is revoked.
LEMMA RevokeAgentKeeps ==
    ASSUME AuthorizationInv, NEW n \in Nodes, RevokeAgent(n)
    PROVE  AuthorizationInv'
<1>1. TypeOK'
  BY EditsAssumption DEF AuthorizationInv, TypeOK, RevokeAgent, Edit, loginVars
<1>2. QED
  BY <1>1
  DEF AuthorizationInv, LoginFixed, RequestGranted, ReadsAgree, RowIsLast, OnlyGranted,
      RevocationHeeded, RevokeAgent, loginVars

\* A host key is pinned anew.
LEMMA UpdateNodeHostKeyKeeps ==
    ASSUME AuthorizationInv, NEW n \in Nodes, NEW k \in Pins, UpdateNodeHostKey(n, k)
    PROVE  AuthorizationInv'
<1>1. TypeOK'
  BY EditsAssumption DEF AuthorizationInv, TypeOK, UpdateNodeHostKey, Edit, loginVars
<1>2. QED
  BY <1>1
  DEF AuthorizationInv, LoginFixed, RequestGranted, ReadsAgree, RowIsLast, OnlyGranted,
      RevocationHeeded, UpdateNodeHostKey, loginVars

\* Every step of client, server and operator keeps the invariant.
LEMMA NextKeeps == AuthorizationInv /\ [Next]_vars => AuthorizationInv'
<1> SUFFICES ASSUME AuthorizationInv, [Next]_vars
             PROVE  AuthorizationInv'
  OBVIOUS
<1>1. ASSUME NEW u \in Users, NEW k \in Keys, NEW signed \in BOOLEAN, OfferKey(u, k, signed)
      PROVE  AuthorizationInv'
  BY <1>1, OfferKeyKeeps
<1>2. CASE ResolverRaises \/ Disconnect
  BY <1>2, ResolverRaisesKeeps, DisconnectKeeps
<1>3. ASSUME NEW r \in Requests,
             \/ \E command \in Commands : StartExec(r, command)
             \/ ReadVisible(r) \/ ReadHostKey(r)
             \/ \E fresh \in BOOLEAN : ReadTarget(r, fresh)
             \/ AuditDenial(r) \/ CreateSession(r) \/ OpenNode(r) \/ DatabaseFails(r)
      PROVE  AuthorizationInv'
  BY <1>3, StartExecKeeps, ReadVisibleKeeps, ReadHostKeyKeeps, ReadTargetKeeps,
     AuditDenialKeeps, CreateSessionKeeps, OpenNodeKeeps, DatabaseFailsKeeps
<1>4. CASE Operator
  BY <1>4, EditFileKeeps, BreakFileKeeps, RevokeAgentKeeps, UpdateNodeHostKeyKeeps DEF Operator
<1>5. CASE UNCHANGED vars
  BY <1>5 DEF vars, operatorVars, loginVars, AuthorizationInv, TypeOK, LoginFixed,
      RequestGranted, ReadsAgree, RowIsLast, OnlyGranted, RevocationHeeded
<1>6. QED
  BY <1>1, <1>2, <1>3, <1>4, <1>5 DEF Next

\* The inductive invariant of login and authorization (validate_public_key, start_exec,
\* start_jump), however the operator's changes fall between the reads.
THEOREM AuthorizationInvariant == Spec => []AuthorizationInv
<1>1. Init => TypeOK
  BY EditsAssumption DEF Init, TypeOK, Idle, Points
<1>2. Init => AuthorizationInv
  BY <1>1 DEF Init, Idle, AuthorizationInv, LoginFixed, RequestGranted, ReadsAgree,
      RowIsLast, OnlyGranted, RevocationHeeded
<1>3. QED
  BY <1>2, NextKeeps, PTL DEF Spec

\* An authenticated connection carries the identity of a key the client has signed with and
\* that was the login name's alone, never one of a key that was only queried
\* (validate_public_key).
THEOREM IdentityAlwaysSigned == Spec => []IdentityIsSigned
<1>1. AuthorizationInv => IdentityIsSigned
  BY DEF AuthorizationInv, LoginFixed, IdentityIsSigned
<1>2. QED
  BY <1>1, AuthorizationInvariant, PTL

\* Every session row is of the user who logged in and of a node granted at the login
\* (start_exec, visible_nodes, create_session).
THEOREM SessionsAreGranted == Spec => []OnlyGranted
BY AuthorizationInvariant, PTL DEF AuthorizationInv

\* No session row is written for a node revoked before the jump target was read
\* (get_jump_target).
THEOREM RevocationIsHeeded == Spec => []RevocationHeeded
BY AuthorizationInvariant, PTL DEF AuthorizationInv

\* A pin that moves between a request's reads denies the jump (validate_pinned_host_key).
THEOREM PinNeverMoves == Spec => []PinUnmoved
<1>1. AuthorizationInv => PinUnmoved
  BY DEF AuthorizationInv, ReadsAgree, PinUnmoved
<1>2. QED
  BY <1>1, AuthorizationInvariant, PTL
=============================================================================
