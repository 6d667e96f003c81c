----------------------------- MODULE Reconnect -----------------------------
(***************************************************************************)
(* The life of one agent: the start of its process and what it refuses to  *)
(* start with (agent/main.py: _run_tunnel, config.py:                      *)
(* validate_agent_config), its reconnect loop (_run_tunnel,                *)
(* _run_tunnel_once, agent/tunnel.py: next_reconnect_delay), and the       *)
(* enroll command that gives it its identity; against what the server      *)
(* keeps of it: the one slot (server/tunnel.py: handle_stream and          *)
(* ActiveTunnelRegistry) and the row with its credentials, which an        *)
(* operator revokes or rotates and which run out.  The network loses       *)
(* connections on both sides or on the agent's side only; server, database *)
(* and node go down and come back.                                         *)
(*                                                                         *)
(* What travels over an established tunnel is Tunnel's and Broker's; the   *)
(* enrollment of a node against others is Enrollment's.                    *)
(* Delays are in half seconds, so that the jitter's extremes are integers. *)
(***************************************************************************)
EXTENDS Integers

CONSTANTS
    Limits,       \* the values of max_reconnect_attempts to consider
    MaxDelay,     \* reconnect_backoff_max_seconds
    OverflowAt,   \* the first attempt with 2**attempt beyond a float: 1024
    MaxFaults     \* bound: losses, crashes and outages

ASSUME LimitsAssumption == Limits \subseteq Nat
ASSUME DelayAssumption == MaxDelay \in 1..1800
ASSUME OverflowAssumption == OverflowAt \in Nat \ {0}
ASSUME FaultsAssumption == MaxFaults \in Nat

VARIABLES
    agent,     \* the run command: start, dial, connected, sleep, dead (exit 1), crashed
    attempt,   \* _run_tunnel's attempt
    delay,     \* the sleep in progress
    limit,     \* max_reconnect_attempts in agent.conf; 0 is no limit
    identity,  \* identity.json: ok, missing (or lacking a key), garbled
    token,     \* the enrollment token is in agent.conf
    enroll,    \* the enroll command: idle, answered, written, over
    link,      \* the agent's connection at the server
    orphan,    \* how far the handler of a connection is whose agent has gone; told: auth_ok is unacknowledged
    slot,      \* who holds the agent's slot: free, current, half (open)
    barred,    \* why the row's credentials are not those of the agent, if they are not
    fresh,     \* agents.last_seen is recent enough for a jump
    server,    \* up or down
    database,  \* up or down
    faults

runVars == <<agent, attempt, delay, limit>>
nodeVars == <<runVars, identity, token, enroll>>
hostVars == <<server, database>>
vars == <<nodeVars, link, orphan, slot, barred, fresh, hostVars, faults>>

-----------------------------------------------------------------------------
Stages == {"auth", "checked", "seen"}
Links == Stages \cup {"none", "up", "error", "eof"}
Least(a, b) == IF a < b THEN a ELSE b

\* A node that is enrolled, or is about to be; the operator may have spoilt the file.
Init ==
    /\ agent = "start" /\ attempt = 0 /\ delay = 0 /\ limit \in Limits
    /\ \/ identity \in {"ok", "garbled"} /\ token = FALSE /\ enroll = "over"
       \/ identity = "missing" /\ token = TRUE /\ enroll = "idle"
    /\ link = "none" /\ orphan = "none" /\ slot = "free" /\ barred = {} /\ fresh = FALSE
    /\ server = "up" /\ database = "up" /\ faults = 0

-----------------------------------------------------------------------------
(* The agent's run command.                                                *)

\* validate_agent_config: "enrollment token remains after successful enrollment".
TokenRemains == identity # "missing" /\ token

\* _run_tunnel loads and validates agent.conf once; a ConfigError ends the process.
Begin ==
    /\ agent = "start"
    /\ agent' = IF TokenRemains THEN "dead" ELSE "dial"
    /\ attempt' = 0
    /\ UNCHANGED <<orphan, delay, limit, identity, token, enroll, link, slot, barred, fresh, hostVars, faults>>

Exponential(a) == IF a < 12 THEN Least(MaxDelay, 2 ^ a) ELSE MaxDelay

\* next_reconnect_delay with jitter 0 or 1, in half seconds.
NextDelay(a, jitter) == Least(2 * MaxDelay, Exponential(a) * (1 + 2 * jitter))

\* max_reconnect_attempts is exhausted.
LimitReached == limit > 0 /\ attempt >= limit

\* The except clause of _run_tunnel: give up, or sleep and count the attempt.
\* 2**attempt that no float can hold is an OverflowError nobody catches.
Retry ==
    IF LimitReached \/ attempt >= OverflowAt
    THEN /\ agent' = IF LimitReached THEN "dead" ELSE "crashed"
         /\ UNCHANGED <<attempt, delay>>
    ELSE /\ agent' = "sleep"
         /\ attempt' = attempt + 1
         /\ \E jitter \in {0, 1} : delay' = NextDelay(attempt, jitter)

\* The tunnel ended without an exception: dial again at once.
Return ==
    /\ agent' = "dial" /\ attempt' = 0
    /\ UNCHANGED delay

\* _load_identity returns an object with every key.
Loaded == identity = "ok"

\* The TLS handshake, as the agent sees it, and the auth frame.  Under TLS 1.3 it is
\* complete before the server looks at the agent's certificate.
Connects == Loaded /\ server = "up"

\* What the agent will find on the connection.  The server's TLS layer refuses a
\* certificate that has run out, before there is a handler: the alert or the reset is an
\* OSError, or the closing is all that is seen, and reads as a clean end.
Welcome == IF "expired" \in barred THEN {"error", "eof"} ELSE {"auth"}

\* _run_tunnel_once up to the authentication frame.  A file that is no JSON is a
\* ValueError, which ends the process; no file and no server are retried.
Dial ==
    /\ agent = "dial"
    /\ \/ /\ Connects
          /\ agent' = "connected" /\ link' \in Welcome
          /\ UNCHANGED <<attempt, delay>>
       \/ /\ ~Connects /\ identity # "garbled"
          /\ Retry /\ UNCHANGED link
       \/ /\ identity = "garbled"
          /\ agent' = "dead" /\ UNCHANGED <<attempt, delay, link>>
    /\ UNCHANGED <<orphan, limit, identity, token, enroll, slot, barred, fresh, hostVars, faults>>

\* handle_agent_tunnel_stream does not know the error frame: AgentTunnelError; or the
\* connection is broken: OSError.
ReadError ==
    /\ agent = "connected" /\ link = "error"
    /\ link' = "none" /\ Retry
    /\ UNCHANGED <<orphan, limit, identity, token, enroll, slot, barred, fresh, hostVars, faults>>

\* The server closed the connection: _read_one_frame finds a clean end.
ReadEof ==
    /\ agent = "connected" /\ link = "eof"
    /\ link' = "none" /\ Return
    /\ UNCHANGED <<orphan, limit, identity, token, enroll, slot, barred, fresh, hostVars, faults>>

Wake ==
    /\ agent = "sleep"
    /\ agent' = "dial"
    /\ UNCHANGED <<orphan, attempt, delay, limit, identity, token, enroll, link, slot, barred, fresh,
                   hostVars, faults>>

\* systemd's Restart=always.
RestartAgent ==
    /\ agent \in {"dead", "crashed"}
    /\ agent' = "start"
    /\ UNCHANGED <<orphan, attempt, delay, limit, identity, token, enroll, link, slot, barred, fresh,
                   hostVars, faults>>

-----------------------------------------------------------------------------
(* The agent's enroll command, while the run command may be running too.   *)

\* POST /enroll: the server uses up the token and writes the node's one row.  The
\* answer comes, or is lost.
PostEnroll ==
    /\ enroll = "idle" /\ token /\ server = "up" /\ database = "up"
    /\ enroll' \in {"answered", "over"}
    /\ UNCHANGED <<orphan, runVars, identity, token, link, slot, barred, fresh, hostVars, faults>>

\* write_identity_json, which replaces the file at one stroke.
WriteIdentity ==
    /\ enroll = "answered" /\ enroll' = "written" /\ identity' = "ok"
    /\ UNCHANGED <<orphan, runVars, token, link, slot, barred, fresh, hostVars, faults>>

\* rewrite_agent_conf_without_token; a failure takes identity.json back.
RewriteConf ==
    /\ enroll = "written" /\ enroll' = "over"
    /\ \/ token' = FALSE /\ UNCHANGED identity
       \/ identity' = "missing" /\ UNCHANGED token
    /\ UNCHANGED <<orphan, runVars, link, slot, barred, fresh, hostVars, faults>>

-----------------------------------------------------------------------------
(* The server.                                                             *)

\* Mutant: the secret is not compared.
Holds_AnySecret == "revoked" \notin barred /\ "expired" \notin barred

\* TunnelAuthenticator.authenticate: not revoked, not expired, and the secret is the
\* one in the row.
Holds == barred = {}

\* The tunnel ends at the server: a database error is caught nowhere, so the stream
\* is closed without an error frame.
HandlerRaises == link' = "eof" /\ slot' = IF link = "up" THEN "free" ELSE slot

\* Mutant: an agent that is refused is told nothing.
Authenticate_Silent ==
    /\ link = "auth" /\ server = "up"
    /\ IF database = "up" /\ Holds THEN link' = "checked" /\ UNCHANGED slot ELSE HandlerRaises
    /\ UNCHANGED <<orphan, nodeVars, barred, fresh, hostVars, faults>>

\* handle_stream reads the row and compares.
Authenticate ==
    /\ link = "auth" /\ server = "up"
    /\ IF database = "up"
       THEN link' = (IF Holds THEN "checked" ELSE "error") /\ UNCHANGED slot
       ELSE HandlerRaises
    /\ UNCHANGED <<orphan, nodeVars, barred, fresh, hostVars, faults>>

\* Mutant: the statement does not ask for revoked = false.
Refreshed_Always == TRUE

\* update_last_seen: ... AND revoked = false.
Refreshed == fresh \/ "revoked" \notin barred

\* It comes before the registry: a connection that will be refused refreshes
\* last_seen all the same.
UpdateLastSeen ==
    /\ link = "checked" /\ server = "up"
    /\ IF database = "up"
       THEN link' = "seen" /\ fresh' = Refreshed /\ UNCHANGED slot
       ELSE HandlerRaises /\ UNCHANGED fresh
    /\ UNCHANGED <<orphan, nodeVars, barred, hostVars, faults>>

\* ActiveTunnelRegistry.connect, then auth_ok or an error frame and close.
Register ==
    /\ link = "seen" /\ server = "up"
    /\ IF slot = "free" THEN link' = "up" /\ slot' = "current"
       ELSE link' = "error" /\ UNCHANGED slot
    /\ UNCHANGED <<orphan, nodeVars, barred, fresh, hostVars, faults>>

\* A frame of the agent on its tunnel, for as long as a session has something to say.
FrameArrives ==
    /\ link = "up" /\ server = "up"
    /\ IF database = "up"
       THEN fresh' = Refreshed /\ UNCHANGED <<link, slot>>
       ELSE HandlerRaises /\ UNCHANGED fresh
    /\ UNCHANGED <<orphan, nodeVars, barred, hostVars, faults>>

\* Mutant: handle_stream's finally does not give the slot back.
Dropped_Never == slot

\* _drop_connection, for the agent's connection.
Dropped == IF slot = "current" THEN "free" ELSE slot

\* The handler of a connection whose agent has gone, and which does not know it: it takes
\* the slot if it can, and writes auth_ok or an error frame to nobody.
OrphanGoesOn ==
    /\ server = "up"
    /\ \/ /\ orphan = "auth"
          /\ orphan' = IF database = "up" /\ Holds THEN "checked" ELSE "none"
          /\ UNCHANGED <<slot, fresh>>
       \/ /\ orphan = "checked"
          /\ IF database = "up" THEN orphan' = "seen" /\ fresh' = Refreshed
             ELSE orphan' = "none" /\ UNCHANGED fresh
          /\ UNCHANGED slot
       \/ /\ orphan = "seen"
          /\ IF slot = "free" THEN slot' = "half" /\ orphan' = "told"
             ELSE orphan' = "none" /\ UNCHANGED slot
          /\ UNCHANGED fresh
    /\ UNCHANGED <<nodeVars, link, barred, hostVars, faults>>

\* External: TCP gives up the unacknowledged auth_ok, the read fails and the handler ends.
OrphanTimesOut ==
    /\ orphan = "told" /\ server = "up"
    /\ orphan' = "none" /\ slot' = "free"
    /\ UNCHANGED <<nodeVars, link, barred, fresh, hostVars, faults>>

\* A user's jump to the node, while last_seen is fresh, writes to the half-open
\* connection: the write goes unanswered and the handler ends.
JumpFindsHalfOpen ==
    /\ slot = "half" /\ fresh /\ "revoked" \notin barred /\ server = "up" /\ database = "up"
    /\ slot' = "free" /\ orphan' = IF orphan = "told" THEN "none" ELSE orphan
    /\ UNCHANGED <<nodeVars, link, barred, fresh, hostVars, faults>>

\* Two heartbeat periods pass.
Staleness ==
    /\ fresh /\ fresh' = FALSE
    /\ UNCHANGED <<orphan, nodeVars, link, slot, barred, hostVars, faults>>

\* revoke-agent, on the node's row, if there is one.
RevokeAgent ==
    /\ enroll # "idle" /\ database = "up" /\ "revoked" \notin barred
    /\ barred' = barred \cup {"revoked"}
    /\ UNCHANGED <<orphan, nodeVars, link, slot, fresh, hostVars, faults>>

\* rotate-tunnel-secret stores the hash of a new secret, and keeps the secret from
\* everyone, the agent included.
RotateTunnelSecret ==
    /\ enroll # "idle" /\ database = "up" /\ "revoked" \notin barred
    /\ barred' = barred \cup {"rotated"}
    /\ UNCHANGED <<orphan, nodeVars, link, slot, fresh, hostVars, faults>>

\* The certificate's lifetime is over; nothing renews it.
Expire ==
    /\ enroll # "idle"
    /\ barred' = barred \cup {"expired"}
    /\ UNCHANGED <<orphan, nodeVars, link, slot, fresh, hostVars, faults>>

-----------------------------------------------------------------------------
(* Faults.                                                                 *)

Fault == faults < MaxFaults /\ faults' = faults + 1

\* The connection is reset, and both ends see it.
Reset ==
    /\ Fault /\ agent = "connected" /\ link # "none"
    /\ link' = "none" /\ slot' = Dropped /\ Retry
    /\ UNCHANGED <<orphan, limit, identity, token, enroll, barred, fresh, hostVars>>

\* The agent is gone without a word to the server: its handler, wherever it is, goes on,
\* and a tunnel that is up is half open.  Bound: one handler at a time is left so.
Abandoned ==
    /\ link' = "none"
    /\ IF link \in Stages THEN orphan = "none" /\ orphan' = link ELSE UNCHANGED orphan
    /\ slot' = IF slot = "current" THEN "half" ELSE slot

\* The node loses its route: the agent reconnects, and the server has nothing to read.
SilentLoss ==
    /\ Fault /\ agent = "connected" /\ link \in Stages \cup {"up"}
    /\ Abandoned /\ Retry
    /\ UNCHANGED <<limit, identity, token, enroll, barred, fresh, hostVars>>

\* The node loses power, with both commands on it.
NodeCrash ==
    /\ Fault /\ agent # "crashed"
    /\ agent' = "crashed"
    /\ enroll' = IF enroll \in {"answered", "written"} THEN "over" ELSE enroll
    /\ Abandoned
    /\ UNCHANGED <<attempt, delay, limit, identity, token, barred, fresh, hostVars>>

\* The server goes down and its sockets are closed by the kernel.
ServerStops ==
    /\ Fault /\ server = "up"
    /\ server' = "down" /\ slot' = "free" /\ orphan' = "none"
    /\ link' = IF link = "none" THEN "none" ELSE "eof"
    /\ UNCHANGED <<nodeVars, barred, fresh, database>>

ServerStarts ==
    /\ server = "down" /\ database = "up" /\ server' = "up"
    /\ UNCHANGED <<orphan, nodeVars, link, slot, barred, fresh, database, faults>>

\* A handler that is waiting for a frame does not notice.
DatabaseStops ==
    /\ Fault /\ database = "up" /\ database' = "down"
    /\ UNCHANGED <<orphan, nodeVars, link, slot, barred, fresh, server>>

DatabaseStarts ==
    /\ database = "down" /\ database' = "up"
    /\ UNCHANGED <<orphan, nodeVars, link, slot, barred, fresh, server, faults>>

-----------------------------------------------------------------------------
Loop == Begin \/ Dial \/ ReadError \/ ReadEof \/ Wake \/ RestartAgent
EnrollCommand == PostEnroll \/ WriteIdentity \/ RewriteConf
Handler == Authenticate \/ UpdateLastSeen \/ Register
Orphan == OrphanGoesOn \/ OrphanTimesOut
Operator == RevokeAgent \/ RotateTunnelSecret
Recovery == ServerStarts \/ DatabaseStarts

Next ==
    \/ Loop \/ EnrollCommand \/ Handler \/ Orphan \/ Operator \/ Recovery
    \/ FrameArrives \/ JumpFindsHalfOpen \/ Staleness \/ Expire
    \/ Reset \/ SilentLoss \/ NodeCrash \/ ServerStops \/ DatabaseStops

Spec == Init /\ [][Next]_vars

\* Both event loops run what is ready, time passes, and what is down is brought back.
\* Users need not jump, nor an operator enroll.
FairSpec ==
    /\ Spec
    /\ WF_vars(Loop) /\ WF_vars(Handler) /\ WF_vars(Orphan) /\ WF_vars(Staleness)
    /\ WF_vars(ServerStarts) /\ WF_vars(DatabaseStarts)

-----------------------------------------------------------------------------
(* Properties.                                                             *)

\* The type invariant.
TypeOK ==
    /\ agent \in {"start", "dial", "connected", "sleep", "dead", "crashed"}
    /\ attempt \in 0..OverflowAt /\ (limit > 0 => attempt <= limit)
    /\ delay \in 0..(2 * MaxDelay) /\ limit \in Limits
    /\ identity \in {"ok", "missing", "garbled"} /\ token \in BOOLEAN
    /\ enroll \in {"idle", "answered", "written", "over"}
    /\ link \in Links /\ orphan \in Stages \cup {"none", "told"}
    /\ slot \in {"free", "current", "half"} /\ fresh \in BOOLEAN
    /\ barred \subseteq {"revoked", "rotated", "expired"}
    /\ server \in {"up", "down"} /\ database \in {"up", "down"}
    /\ faults \in 0..MaxFaults

\* SPEC.md: "exponential backoff reconnect".  Once faults cease, the agent dials again
\* without a sleep only with a certificate that has run out: whoever is refused by
\* handle_stream, for its credentials or for the slot, is told so by an error frame, and
\* does not take the closing for the end of a tunnel that worked, after which _run_tunnel
\* sets attempt to 0 and sleeps not at all (handle_stream, _best_effort_error,
\* _run_tunnel).  There is no error frame, and no pause, while the database is down and
\* when it is the server's TLS layer that refuses.
RefusedBacksOff == <>[][agent = "connected" /\ agent' = "dial" => "expired" \in barred]_vars

\* Once faults cease, an enrolled agent is connected for good, unless its credentials
\* are void, the node went down between the two files of its enrollment, or the server
\* still holds a half-open connection (_run_tunnel never stops trying, and systemd
\* restarts it when it does).
AgentReturns ==
    <>[](\/ identity # "ok" \/ TokenRemains \/ barred # {} \/ slot = "half"
         \/ link = "up")

\* "Revoked old ... key material [is] rejected after rotation completes" (SPEC.md): an
\* agent that was revoked, whose secret was rotated or whose certificate has run out,
\* and that is not past the check at that moment, has no tunnel ever again, whatever
\* restarts (authenticate).
DeadCredentialsStayDead == [](barred # {} /\ link \notin {"checked", "seen", "up"} => [](link # "up"))

\* A revoked agent whose tunnel is still up cannot keep itself eligible for jumps:
\* however much it sends, agents.last_seen goes stale and stays so (update_last_seen).
RevokedGoesStale == ("revoked" \in barred) ~> [](~fresh)
=============================================================================
