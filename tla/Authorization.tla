--------------------------- MODULE Authorization ---------------------------
(***************************************************************************)
(* Who may jump where: one user's SSH connection to the server, from the   *)
(* public keys it offers (VibeConnectSshServer.validate_public_key and the *)
(* authorized-keys file) to the exec requests on its channels              *)
(* (RestrictedShellJumpHandler.start_exec and start_jump up to the node    *)
(* connection), while an operator edits the file, revokes agents and       *)
(* re-pins node host keys.                                                 *)
(*                                                                         *)
(* A request reads the agents table three times, in three statements: the  *)
(* visible nodes, the host key, the jump target.  Anything may happen in   *)
(* between.  What the session does once it is open is JumpSession's;       *)
(* freshness is Broker's, and is an arbitrary answer here.                 *)
(***************************************************************************)
EXTENDS Integers, FiniteSets

CONSTANTS
    Users,        \* usernames
    Keys,         \* user public keys
    ClientKeys,   \* the keys this client holds the private half of
    Nodes,        \* names of enrolled nodes
    Labels,       \* node labels and user groups
    LabelsOf,     \* agents.labels, fixed at enrollment
    Reserved,     \* the commands scp and sftp
    Pins,         \* node sshd host keys
    Requests,     \* exec requests on the connection's channels
    MaxEdits,     \* bound: changes the operator makes
    None

\* Identity, and the same with the users who had the key when it was resolved.
Identities == [user : Users, key : Keys, groups : SUBSET Labels]
Logins == [user : Users, key : Keys, holders : SUBSET Users, groups : SUBSET Labels]

ASSUME KeysAssumption == ClientKeys \subseteq Keys
ASSUME LabelsAssumption == LabelsOf \in [Nodes -> SUBSET Labels]
ASSUME NoneAssumption == None \notin Pins \cup Identities \cup Logins
ASSUME EditsAssumption == MaxEdits \in Nat

VARIABLES
    file,      \* users in the authorized-keys file, each with keys and groups
    readable,  \* the file: ok, invalid (an AuthError) or missing (an OSError)
    revoked,   \* the nodes with agents.revoked
    pin,       \* agents.node_ssh_host_public_key
    edits,     \* changes the operator has made
    conn,      \* the SSH connection: auth, open, closed
    identity,  \* VibeConnectSshServer._identity
    login,     \* the exchange that authenticated: user, key and file entries then
    request,   \* each exec request: where it is and what it has read
    sessions   \* rows of sessions: request, user, node

operatorVars == <<file, readable, revoked, pin, edits>>
loginVars == <<conn, identity, login>>
vars == <<operatorVars, loginVars, request, sessions>>

-----------------------------------------------------------------------------
Entries == [keys : (SUBSET Keys) \ {{}}, groups : SUBSET Labels]
Commands == Nodes \cup Reserved

\* visible, presented and target are what the request has read; pinThen and
\* revokedThen record the table at its second and third read.
Idle == [pc |-> "idle", command |-> None, visible |-> {}, presented |-> None,
         target |-> None, pinThen |-> None, revokedThen |-> FALSE]

Init ==
    /\ file \in [Users -> Entries] /\ readable = "ok"
    /\ revoked = {} /\ pin \in [Nodes -> Pins] /\ edits = 0
    /\ conn = "auth" /\ identity = None /\ login = None
    /\ request = [r \in Requests |-> Idle]
    /\ sessions = {}

-----------------------------------------------------------------------------
(* Logging in.                                                             *)

Holders(k) == {u \in DOMAIN file : k \in file[u].keys}

\* Mutant: the login name need only be one of the key's users.
Resolves_Shared(u, k) == readable = "ok" /\ u \in Holders(k)

\* resolve_file_public_key_identity: the key maps to the login name alone.
Resolves(u, k) == readable = "ok" /\ Holders(k) = {u}

\* Mutant: an identity resolved earlier on the connection is kept.
Validate_First(u, k) ==
    IF Resolves(u, k)
    THEN IF identity = None
         THEN [user |-> u, key |-> k, groups |-> file[u].groups] ELSE identity
    ELSE None

\* The identity validate_public_key leaves on the connection.
Validate(u, k) ==
    IF Resolves(u, k) THEN [user |-> u, key |-> k, groups |-> file[u].groups] ELSE None

\* asyncssh asks validate_public_key about every key the client offers, then
\* verifies the signature if the request has one.  A query without a signature,
\* or with a bad one, does not authenticate, but sets the identity all the same.
OfferKey(u, k, signed) ==
    /\ conn = "auth" /\ readable # "missing"
    /\ signed => k \in ClientKeys
    /\ identity' = Validate(u, k)
    /\ IF signed /\ Resolves(u, k)
       THEN /\ conn' = "open"
            /\ login' = [user |-> u, key |-> k, holders |-> Holders(k), groups |-> file[u].groups]
       ELSE UNCHANGED <<conn, login>>
    /\ UNCHANGED <<operatorVars, request, sessions>>

\* Only AuthError is a refusal: a file that cannot be read, or a name that is no
\* username principal, is an error that ends the connection.
ResolverRaises ==
    /\ conn = "auth" /\ readable = "missing"
    /\ conn' = "closed"
    /\ UNCHANGED <<operatorVars, identity, login, request, sessions>>

\* The client goes away; requests not yet open are cancelled.
Disconnect ==
    /\ conn \in {"auth", "open"}
    /\ conn' = "closed"
    /\ request' = [r \in Requests |->
                      IF request[r].pc \in {"idle", "opened", "denied", "failed"}
                      THEN request[r] ELSE [request[r] EXCEPT !.pc = "failed"]]
    /\ UNCHANGED <<operatorVars, identity, login, sessions>>

-----------------------------------------------------------------------------
(* One exec request.                                                       *)

Goto(r, pc) == request' = [request EXCEPT ![r].pc = pc]

\* start_exec up to its first read: authenticated, and inside the policy.
StartExec(r, command) ==
    /\ conn = "open" /\ request[r].pc = "idle"
    /\ request' = [request EXCEPT ![r] = [@ EXCEPT !.command = command,
                       !.pc = IF identity # None /\ command \notin Reserved
                              THEN "visible" ELSE "denied"]]
    /\ UNCHANGED <<operatorVars, loginVars, sessions>>

\* Mutant: every enrolled node is visible to a user with any group.
Visible_All == IF identity.groups = {} THEN {} ELSE Nodes \ revoked

\* visible_nodes: unrevoked nodes with a label among the identity's groups.
Visible == {n \in Nodes \ revoked : LabelsOf[n] \cap identity.groups # {}}

\* The first read, and _single_requested_node: a command that is not a visible
\* node is denied before start_jump, which would have audited it.
ReadVisible(r) ==
    /\ request[r].pc = "visible"
    /\ request' = [request EXCEPT ![r] = [@ EXCEPT !.visible = Visible,
                       !.pc = IF request[r].command \in Visible THEN "hostkey" ELSE "denied"]]
    /\ UNCHANGED <<operatorVars, loginVars, sessions>>

\* The second read: the pin of an unrevoked node.
ReadHostKey(r) ==
    LET n == request[r].command IN
    /\ request[r].pc = "hostkey"
    /\ request' = [request EXCEPT ![r] = [@ EXCEPT !.pc = "target", !.pinThen = pin[n],
                       !.presented = IF n \in revoked THEN None ELSE pin[n]]]
    /\ UNCHANGED <<operatorVars, loginVars, sessions>>

\* Mutant: the agents row is found whether or not it is revoked.
JumpTarget_Any(n) == pin[n]

\* get_jump_target.
JumpTarget(n) == IF n \in revoked THEN None ELSE pin[n]

\* Mutant: a key is enough, it need not be the pinned one.
PinMatches_Any(expected, presented) == presented # None

\* validate_pinned_host_key.
PinMatches(expected, presented) == presented # None /\ presented = expected

\* start_jump's checks in their order: no row is an audited denial, a host key
\* that does not match is a silent one, a stale tunnel an audited one again.
Verdict(t, presented, fresh) ==
    IF t = None THEN "auditing"
    ELSE IF ~PinMatches(t, presented) THEN "denied"
    ELSE IF fresh THEN "create" ELSE "auditing"

\* The third read and the verdict.
ReadTarget(r, fresh) ==
    LET t == JumpTarget(request[r].command) IN
    /\ request[r].pc = "target" /\ request[r].command \in request[r].visible
    /\ request' = [request EXCEPT ![r] = [@ EXCEPT !.target = t,
                       !.revokedThen = request[r].command \in revoked,
                       !.pc = Verdict(t, request[r].presented, fresh)]]
    /\ UNCHANGED <<operatorVars, loginVars, sessions>>

\* _audit_denial, then JumpError.
AuditDenial(r) ==
    /\ request[r].pc = "auditing"
    /\ Goto(r, "denied")
    /\ UNCHANGED <<operatorVars, loginVars, sessions>>

\* create_session: the row names the agent and the identity's username.
CreateSession(r) ==
    /\ request[r].pc = "create"
    /\ sessions' = sessions \cup
           {[request |-> r, user |-> identity.user, node |-> request[r].command]}
    /\ Goto(r, "opening")
    /\ UNCHANGED <<operatorVars, loginVars>>

\* open_session connects with the target's pin as the only known host key; if
\* that fails the denial is audited.
OpenNode(r) ==
    /\ request[r].pc = "opening"
    /\ \E pc \in {"opened", "auditing"} : Goto(r, pc)
    /\ UNCHANGED <<operatorVars, loginVars, sessions>>

\* A statement fails: the exception is neither AuthError nor JumpError.
DatabaseFails(r) ==
    /\ request[r].pc \in {"visible", "hostkey", "target", "auditing", "create"}
    /\ Goto(r, "failed")
    /\ UNCHANGED <<operatorVars, loginVars, sessions>>

-----------------------------------------------------------------------------
(* The operator.                                                           *)

Edit == edits < MaxEdits /\ edits' = edits + 1

\* A user's entry changes, appears or is deleted.
EditFile(u) ==
    /\ Edit /\ readable' = "ok"
    /\ \/ \E e \in Entries : file' = [v \in DOMAIN file \cup {u} |-> IF v = u THEN e ELSE file[v]]
       \/ file' = [v \in DOMAIN file \ {u} |-> file[v]]
    /\ UNCHANGED <<revoked, pin, loginVars, request, sessions>>

BreakFile ==
    /\ Edit /\ readable' \in {"invalid", "missing"}
    /\ UNCHANGED <<file, revoked, pin, loginVars, request, sessions>>

RevokeAgent(n) ==
    /\ Edit /\ n \notin revoked
    /\ revoked' = revoked \cup {n}
    /\ UNCHANGED <<file, readable, pin, loginVars, request, sessions>>

UpdateNodeHostKey(n, k) ==
    /\ Edit /\ n \notin revoked
    /\ pin' = [pin EXCEPT ![n] = k]
    /\ UNCHANGED <<file, readable, revoked, loginVars, request, sessions>>

Operator ==
    \/ \E u \in Users : EditFile(u)
    \/ BreakFile
    \/ \E n \in Nodes : RevokeAgent(n) \/ \E k \in Pins : UpdateNodeHostKey(n, k)

Next ==
    \/ \E u \in Users, k \in Keys, signed \in BOOLEAN : OfferKey(u, k, signed)
    \/ ResolverRaises
    \/ Disconnect
    \/ \E r \in Requests :
          \/ \E command \in Commands : StartExec(r, command)
          \/ ReadVisible(r)
          \/ ReadHostKey(r)
          \/ \E fresh \in BOOLEAN : ReadTarget(r, fresh)
          \/ AuditDenial(r)
          \/ CreateSession(r)
          \/ OpenNode(r)
          \/ DatabaseFails(r)
    \/ Operator

Spec == Init /\ [][Next]_vars

-----------------------------------------------------------------------------
(* Properties.                                                             *)

\* An authenticated connection carries the identity of the key the client has
\* signed with, and that key belonged to the login name alone: never one left
\* behind by a key that was only queried (validate_public_key).
IdentityIsSigned ==
    conn = "open" =>
        /\ identity # None
        /\ identity.key \in ClientKeys
        /\ identity.user = login.user /\ identity.key = login.key
        /\ login.holders = {login.user}

\* Every session row belongs to the user who logged in and to a node one of the
\* groups of that user's file entry, as of the login, is a label of: whatever the
\* operator changed between the login and the three reads (start_exec).
OnlyGranted ==
    \A s \in sessions :
        /\ s.user = login.user
        /\ s.node \in Nodes /\ LabelsOf[s.node] \cap login.groups # {}

\* A revocation is heeded up to the last of a request's three reads: no session
\* row is written for a node revoked before the jump target was read
\* (get_jump_target).
RevocationHeeded == \A s \in sessions : ~request[s.request].revokedThen

\* The node connection is made with a host key that was the node's pin at the
\* host key lookup and still at the target lookup: a pin the operator moves in
\* between denies the jump (validate_pinned_host_key).
PinUnmoved ==
    \A r \in Requests : request[r].pc \in {"opening", "opened"} =>
        request[r].target = request[r].pinThen /\ request[r].target \in Pins

\* The inductive invariant, in named parts.

Points == {"idle", "visible", "hostkey", "target", "auditing", "create", "opening", "opened",
           "denied", "failed"}

\* The type invariant.
TypeOK ==
    /\ DOMAIN file \subseteq Users /\ file \in [DOMAIN file -> Entries]
    /\ readable \in {"ok", "invalid", "missing"}
    /\ revoked \subseteq Nodes /\ pin \in [Nodes -> Pins] /\ edits \in 0..MaxEdits
    /\ conn \in {"auth", "open", "closed"}
    /\ identity \in Identities \cup {None} /\ login \in Logins \cup {None}
    /\ request \in [Requests -> [pc : Points, command : Commands \cup {None},
                                 visible : SUBSET Nodes, presented : Pins \cup {None},
                                 target : Pins \cup {None}, pinThen : Pins \cup {None},
                                 revokedThen : BOOLEAN]]
    /\ sessions \subseteq [request : Requests, user : Users, node : Nodes]

\* Nothing is requested before the login, and from the login on the identity is the one
\* that logged in, with the groups of that moment.
LoginFixed ==
    /\ conn = "auth" => login = None
    /\ conn = "open" => login # None
    /\ login # None =>
         /\ identity # None
         /\ identity.user = login.user /\ identity.key = login.key
         /\ identity.groups = login.groups
         /\ login.key \in ClientKeys /\ login.holders = {login.user}
    /\ \A r \in Requests : request[r].pc # "idle" => login # None

\* A request past its first read is for a node that the login's groups grant.
RequestGranted ==
    \A r \in Requests : request[r].pc \in {"hostkey", "target", "create"} =>
        /\ request[r].command \in Nodes
        /\ LabelsOf[request[r].command] \cap login.groups # {}

\* A request past its second read presents the pin of then, or none; one past its third has
\* found the same pin again, on a node that was not revoked.
ReadsAgree ==
    \A r \in Requests :
        /\ request[r].pc = "target" => request[r].presented \in {request[r].pinThen, None}
        /\ request[r].pc \in {"create", "opening", "opened"} =>
             request[r].target = request[r].pinThen /\ request[r].target \in Pins
        /\ request[r].pc = "create" => ~request[r].revokedThen

\* A request that has its row does not read again.
RowIsLast ==
    \A s \in sessions :
        request[s.request].pc \in {"opening", "opened", "auditing", "denied", "failed"}

\* Their conjunction with the properties that every step keeps.
AuthorizationInv ==
    /\ TypeOK
    /\ LoginFixed
    /\ RequestGranted
    /\ ReadsAgree
    /\ RowIsLast
    /\ OnlyGranted
    /\ RevocationHeeded
=============================================================================
