------------------------------- MODULE Broker -------------------------------
(***************************************************************************)
(* The server's tunnel broker (src/src/server/tunnel.py): the handler of   *)
(* every accepted tunnel connection, the registry of active tunnels, the   *)
(* per-connection channel registries, the brokered streams, and the calls  *)
(* that the jump code makes into the broker while handlers are suspended.  *)
(*                                                                         *)
(* The server is one asyncio thread: a coroutine runs undisturbed from one *)
(* await to the next, so an action here is the code between two awaits,    *)
(* and phase[c] names the await the handler of connection c is suspended   *)
(* in.                                                                     *)
(***************************************************************************)
EXTENDS Integers, FiniteSets

CONSTANTS
    Agents,            \* enrolled agents (agents.id)
    Conns,             \* accepted tunnel connections (connection_id)
    Channels,          \* channel ids: the session ids minted by start_jump
    MaxSessions,       \* tunnel.max_sessions_per_agent
    HeartbeatSeconds,  \* tunnel.heartbeat_seconds
    MaxTime,           \* bound: the clock stops here
    NoAgent, NoConn    \* Python's None

ASSUME SessionsAssumption == MaxSessions \in Nat \ {0}
ASSUME HeartbeatAssumption == HeartbeatSeconds \in Nat \ {0}
ASSUME TimeAssumption == MaxTime \in Nat
ASSUME NoneAssumption == NoAgent \notin Agents /\ NoConn \notin Conns

VARIABLES
    phase,         \* where the handler of each connection is suspended
    owner,         \* handle_stream's local `authenticated`: the agent proven, or NoAgent
    claim,         \* the agent_id the first frame claims
    pending,       \* the frame read and not yet dispatched
    lost,          \* the transport of the connection is gone
    active,        \* ActiveTunnelRegistry._active
    connections,   \* ServerTunnelBroker._connections
    channelAgents, \* ServerTunnelBroker._channel_agents
    open,          \* TunnelChannelRegistry._open_channels, per connection
    retired,       \* TunnelChannelRegistry._retired_channels, per connection
    adapters,      \* the keys of _BrokerTunnelConnection.adapters
    stream,        \* BrokerTunnelStream: none, live, or closed (_closed)
    attempt,       \* the opener's SSH handshake with the node, per channel
    closing,       \* close_session calls suspended in drain
    lastSeen,      \* HeartbeatState._last_seen, per connection
    dbSeen,        \* agents.last_seen
    revoked,       \* agents.revoked
    now            \* the clock

handlerVars == <<phase, owner, claim, pending, lost>>
registryVars == <<active, connections>>
channelVars == <<channelAgents, open, retired, adapters, stream, attempt, closing>>
dbVars == <<dbSeen, revoked>>
vars == <<handlerVars, registryVars, channelVars, lastSeen, dbVars, now>>

-----------------------------------------------------------------------------
\* The awaits of handle_stream, in order: the first frame, the authenticator's
\* query, the first update_last_seen, the drain of AUTH_OK, the next frame,
\* the update_last_seen before its dispatch, the drain of an ERROR frame.
Phases == {"idle", "hello", "auth", "touch", "ack", "read", "handle", "error", "done"}

\* The phases in which the connection has passed registry.connect.
Serving == {"ack", "read", "handle"}

\* A frame as far as the dispatch can tell frames apart.
FrameTypes == {"HEARTBEAT", "SESSION_DATA", "CLOSE_SESSION", "OTHER"}
Frames == [type : FrameTypes, channel : Channels]
NoFrame == [type |-> "NONE"]

\* Who called close_session: BrokerTunnelStream.close, or the opener whose
\* SSH handshake with the node failed.
Callers == {"stream", "opener"}
HandshakeStates == {"none", "connecting", "up", "failed"}
CloseCalls == [by : Callers, channel : Channels, conn : Conns]

Init ==
    /\ phase = [c \in Conns |-> "idle"]
    /\ owner = [c \in Conns |-> NoAgent]
    /\ claim = [c \in Conns |-> NoAgent]
    /\ pending = [c \in Conns |-> NoFrame]
    /\ lost = [c \in Conns |-> FALSE]
    /\ active = [a \in Agents |-> NoConn]
    /\ connections = [a \in Agents |-> NoConn]
    /\ channelAgents = [ch \in Channels |-> NoAgent]
    /\ open = [c \in Conns |-> {}]
    /\ retired = [c \in Conns |-> {}]
    /\ adapters = [c \in Conns |-> {}]
    /\ stream = [ch \in Channels |-> "none"]
    /\ attempt = [ch \in Channels |-> "none"]
    /\ closing = {}
    /\ lastSeen = [c \in Conns |-> 0]
    /\ dbSeen = [a \in Agents |-> 0]
    /\ revoked = [a \in Agents |-> FALSE]
    /\ now = 0

-----------------------------------------------------------------------------
(* The registries.                                                         *)

\* Mutant of ActiveTunnelRegistry.connect: the duplicate is not looked for.
MayConnect_Always(a, c) == TRUE

\* ActiveTunnelRegistry.connect accepts unless another connection holds the slot.
MayConnect(a, c) == active[a] \in {NoConn, c}

\* ActiveTunnelRegistry.disconnect: only the owner of the slot frees it.
RegistryDisconnect(a, c) ==
    active' = IF active[a] = c THEN [active EXCEPT ![a] = NoConn] ELSE active

\* Mutant of HeartbeatState.allows_new_jump: it asks the database's last_seen.
AllowsNewJump_Database(c) == dbSeen[owner[c]] + 2 * HeartbeatSeconds > now

\* HeartbeatState.allows_new_jump
AllowsNewJump(c) == lastSeen[c] + 2 * HeartbeatSeconds > now

\* The limit that open_channel enforces on the channels of one tunnel.
HasRoom(sessions) == Cardinality(sessions) < MaxSessions

\* Mutant of TunnelChannelRegistry.open_channel: one session too many.
MayOpen_OneMore(c, ch) ==
    /\ ch \notin open[c]
    /\ ch \notin retired[c]
    /\ Cardinality(open[c]) <= MaxSessions

\* TunnelChannelRegistry.open_channel
MayOpen(c, ch) ==
    /\ ch \notin open[c]
    /\ ch \notin retired[c]
    /\ HasRoom(open[c])

\* _retire_channel on a channel that is open: the registry retires the id,
\* the adapter and the routing entry go.
RetireChannel(c, ch) ==
    /\ open' = [open EXCEPT ![c] = @ \ {ch}]
    /\ retired' = [retired EXCEPT ![c] = @ \cup {ch}]
    /\ adapters' = [adapters EXCEPT ![c] = @ \ {ch}]
    /\ channelAgents' = [channelAgents EXCEPT ![ch] = NoAgent]

\* Mutant of _drop_connection's loops: the routing entries stay behind.
FeedEofToAll_KeepRoutes(c) ==
    /\ stream' = [ch \in Channels |-> IF ch \in adapters[c] THEN "closed" ELSE stream[ch]]
    /\ UNCHANGED channelAgents

\* Mutant of _drop_connection's loops: nobody calls feed_eof.
FeedEofToAll_NoEof(c) ==
    /\ UNCHANGED stream
    /\ channelAgents' = [ch \in Channels |->
                            IF ch \in adapters[c] THEN NoAgent ELSE channelAgents[ch]]

\* Every adapter of the connection gets feed_eof and loses its routing entry.
FeedEofToAll(c) ==
    /\ stream' = [ch \in Channels |-> IF ch \in adapters[c] THEN "closed" ELSE stream[ch]]
    /\ channelAgents' = [ch \in Channels |->
                            IF ch \in adapters[c] THEN NoAgent ELSE channelAgents[ch]]

\* Mutant of _drop_connection: the connection_id is not compared.
DropConnection_AnyHolder(a, c) ==
    /\ connections' = [connections EXCEPT ![a] = NoConn]
    /\ IF connections[a] # NoConn
       THEN FeedEofToAll(connections[a])
       ELSE UNCHANGED <<channelAgents, stream>>
    /\ active' = [active EXCEPT ![a] = NoConn]
    /\ UNCHANGED <<open, retired, adapters, attempt, closing>>

\* _drop_connection. The connection object keeps its own channel sets: only
\* the broker's dictionaries forget it.
DropConnection(a, c) ==
    /\ IF connections[a] \notin {NoConn, c}
       THEN UNCHANGED <<connections, channelAgents, stream>>
       ELSE /\ connections' = [connections EXCEPT ![a] = NoConn]
            /\ IF connections[a] = c
               THEN FeedEofToAll(c)
               ELSE UNCHANGED <<channelAgents, stream>>
    /\ RegistryDisconnect(a, c)
    /\ UNCHANGED <<open, retired, adapters, attempt, closing>>

\* The finally clause of handle_stream, after which the handler has returned.
Finish(c) ==
    /\ phase' = [phase EXCEPT ![c] = "done"]
    /\ pending' = [pending EXCEPT ![c] = NoFrame]
    /\ IF owner[c] = NoAgent
       THEN UNCHANGED <<registryVars, channelVars>>
       ELSE DropConnection(owner[c], c)

-----------------------------------------------------------------------------
(* handle_stream, one action per stretch between two awaits.               *)

\* The listener accepts a connection and starts its handler.
Accept(c) ==
    /\ phase[c] = "idle"
    /\ phase' = [phase EXCEPT ![c] = "hello"]
    /\ UNCHANGED <<owner, claim, pending, lost, registryVars, channelVars, lastSeen, dbVars, now>>

\* The first frame is an AUTH frame bound to the peer certificate.
ReadAuth(c, a) ==
    /\ phase[c] = "hello"
    /\ phase' = [phase EXCEPT ![c] = "auth"]
    /\ claim' = [claim EXCEPT ![c] = a]
    /\ UNCHANGED <<owner, pending, lost, registryVars, channelVars, lastSeen, dbVars, now>>

\* The first frame is something else, malformed, or bound to another certificate.
ReadBadAuth(c) ==
    /\ phase[c] = "hello"
    /\ phase' = [phase EXCEPT ![c] = "error"]
    /\ UNCHANGED <<owner, claim, pending, lost, registryVars, channelVars, lastSeen, dbVars, now>>

\* wait_for expires, or the peer hangs up before its first frame.
AuthTimeout(c) ==
    /\ phase[c] = "hello"
    /\ Finish(c)
    /\ UNCHANGED <<owner, claim, lost, lastSeen, dbVars, now>>

\* authenticate returns the record; the connection object is built and marked seen.
Authenticate(c) ==
    /\ phase[c] = "auth"
    /\ ~revoked[claim[c]]
    /\ owner' = [owner EXCEPT ![c] = claim[c]]
    /\ lastSeen' = [lastSeen EXCEPT ![c] = now]
    /\ phase' = [phase EXCEPT ![c] = "touch"]
    /\ UNCHANGED <<claim, pending, lost, registryVars, channelVars, dbVars, now>>

\* authenticate raises TunnelAuthError: revoked, expired, or a mismatch.
RejectAuth(c) ==
    /\ phase[c] = "auth"
    /\ phase' = [phase EXCEPT ![c] = "error"]
    /\ UNCHANGED <<owner, claim, pending, lost, registryVars, channelVars, lastSeen, dbVars, now>>

\* update_last_seen writes the time taken before the await, unless revoked.
UpdateLastSeen(c) ==
    dbSeen' = IF revoked[owner[c]] THEN dbSeen ELSE [dbSeen EXCEPT ![owner[c]] = lastSeen[c]]

\* The first update_last_seen returns: registry.connect, then _connections.
Register(c) ==
    /\ phase[c] = "touch"
    /\ UpdateLastSeen(c)
    /\ IF MayConnect(owner[c], c)
       THEN /\ active' = [active EXCEPT ![owner[c]] = c]
            /\ connections' = [connections EXCEPT ![owner[c]] = c]
            /\ phase' = [phase EXCEPT ![c] = "ack"]
       ELSE /\ phase' = [phase EXCEPT ![c] = "error"]
            /\ UNCHANGED registryVars
    /\ UNCHANGED <<owner, claim, pending, lost, channelVars, lastSeen, revoked, now>>

\* AUTH_OK is drained.
SendAuthOk(c) ==
    /\ phase[c] = "ack"
    /\ phase' = [phase EXCEPT ![c] = "read"]
    /\ UNCHANGED <<owner, claim, pending, lost, registryVars, channelVars, lastSeen, dbVars, now>>

\* A frame arrives: the heartbeat is marked before the await of the database.
ReceiveFrame(c, f) ==
    /\ phase[c] = "read"
    /\ pending' = [pending EXCEPT ![c] = f]
    /\ lastSeen' = [lastSeen EXCEPT ![c] = now]
    /\ phase' = [phase EXCEPT ![c] = "handle"]
    /\ UNCHANGED <<owner, claim, lost, registryVars, channelVars, dbVars, now>>

\* Bytes that are no frame: TunnelProtocolError.
ReceiveMalformed(c) ==
    /\ phase[c] = "read"
    /\ phase' = [phase EXCEPT ![c] = "error"]
    /\ UNCHANGED <<owner, claim, pending, lost, registryVars, channelVars, lastSeen, dbVars, now>>

\* _handle_agent_frame on a frame that it accepts.
AcceptFrame(c, f) ==
    \/ /\ f.type \in {"HEARTBEAT", "SESSION_DATA"}
       /\ f.type = "SESSION_DATA" => f.channel \in open[c]
       /\ UNCHANGED channelVars
    \/ /\ f.type = "CLOSE_SESSION"
       /\ f.channel \in open[c]
       /\ stream' = [stream EXCEPT ![f.channel] = "closed"]
       /\ RetireChannel(c, f.channel)
       /\ UNCHANGED <<attempt, closing>>

Acceptable(c, f) ==
    \/ f.type = "HEARTBEAT"
    \/ f.type \in {"SESSION_DATA", "CLOSE_SESSION"} /\ f.channel \in open[c]

\* The second await of the loop returns and the frame is dispatched; the
\* channel may have been retired since the frame was read.
HandleFrame(c) ==
    /\ phase[c] = "handle"
    /\ UpdateLastSeen(c)
    /\ pending' = [pending EXCEPT ![c] = NoFrame]
    /\ \/ /\ AcceptFrame(c, pending[c])
          /\ phase' = [phase EXCEPT ![c] = "read"]
       \/ /\ ~Acceptable(c, pending[c])
          /\ phase' = [phase EXCEPT ![c] = "error"]
          /\ UNCHANGED channelVars
    /\ UNCHANGED <<owner, claim, lost, registryVars, lastSeen, revoked, now>>

\* The best-effort ERROR frame is out, or failed: the handler returns.
ErrorSent(c) ==
    /\ phase[c] = "error"
    /\ Finish(c)
    /\ UNCHANGED <<owner, claim, lost, lastSeen, dbVars, now>>

\* The transport is gone: readexactly or drain raises and the handler returns.
ConnectionLost(c) ==
    /\ phase[c] \in {"read", "ack"}
    /\ lost[c]
    /\ Finish(c)
    /\ UNCHANGED <<owner, claim, lost, lastSeen, dbVars, now>>

\* A query of the authenticator's store raises: the handler unwinds.
DatabaseFails(c) ==
    /\ phase[c] \in {"auth", "touch", "handle"}
    /\ Finish(c)
    /\ UNCHANGED <<owner, claim, lost, lastSeen, dbVars, now>>

-----------------------------------------------------------------------------
(* The broker's calls, made by the jump code.                              *)

\* open_session up to the drain of OPEN_SESSION. The channel id is a new
\* uuid4 of start_jump.
OpenSession(a, ch) ==
    LET c == connections[a] IN
    /\ stream[ch] = "none"
    /\ c # NoConn
    /\ AllowsNewJump(c)
    /\ MayOpen(c, ch)
    /\ open' = [open EXCEPT ![c] = @ \cup {ch}]
    /\ adapters' = [adapters EXCEPT ![c] = @ \cup {ch}]
    /\ channelAgents' = [channelAgents EXCEPT ![ch] = a]
    /\ stream' = [stream EXCEPT ![ch] = "live"]
    /\ attempt' = [attempt EXCEPT ![ch] = "connecting"]
    /\ UNCHANGED <<retired, closing, handlerVars, registryVars, lastSeen, dbVars, now>>

\* The synchronous head of close_session: it holds on to the connection it
\* found, writes CLOSE_SESSION and suspends in drain, or raises TunnelStateError.
BeginClose(by, ch) ==
    LET c == connections[channelAgents[ch]] IN
    IF channelAgents[ch] # NoAgent /\ ch \in open[c]
    THEN closing' = closing \cup {[by |-> by, channel |-> ch, conn |-> c]}
    ELSE UNCHANGED closing

\* BrokerTunnelStream.close
StreamClose(ch) ==
    /\ stream[ch] = "live"
    /\ stream' = [stream EXCEPT ![ch] = "closed"]
    /\ BeginClose("stream", ch)
    /\ UNCHANGED <<channelAgents, open, retired, adapters, attempt,
                   handlerVars, registryVars, lastSeen, dbVars, now>>

\* AsyncSshNodeTunnelOpener: the SSH handshake with the node failed.
ConnectFails(ch) ==
    /\ attempt[ch] = "connecting"
    /\ attempt' = [attempt EXCEPT ![ch] = "failed"]
    /\ BeginClose("opener", ch)
    /\ UNCHANGED <<channelAgents, open, retired, adapters, stream,
                   handlerVars, registryVars, lastSeen, dbVars, now>>

\* The handshake succeeded; from here on only the stream closes the channel.
ConnectSucceeds(ch) ==
    /\ attempt[ch] = "connecting"
    /\ attempt' = [attempt EXCEPT ![ch] = "up"]
    /\ UNCHANGED <<channelAgents, open, retired, adapters, stream, closing,
                   handlerVars, registryVars, lastSeen, dbVars, now>>

\* drain returns: retire the channel on the connection found before the
\* await, or raise because somebody else has retired it.
EndClose(k) ==
    /\ closing' = closing \ {k}
    /\ IF k.channel \in open[k.conn]
       THEN RetireChannel(k.conn, k.channel)
       ELSE UNCHANGED <<open, retired, adapters, channelAgents>>
    /\ UNCHANGED <<stream, attempt, handlerVars, registryVars, lastSeen, dbVars, now>>

\* drain raises ConnectionResetError: the channel is not retired.
CloseFails(k) ==
    /\ lost[k.conn] \/ phase[k.conn] = "done"
    /\ closing' = closing \ {k}
    /\ UNCHANGED <<channelAgents, open, retired, adapters, stream, attempt,
                   handlerVars, registryVars, lastSeen, dbVars, now>>

-----------------------------------------------------------------------------
(* The environment.                                                        *)

\* The agent hangs up, or the network drops the connection.
LoseTransport(c) ==
    /\ phase[c] \notin {"idle", "done"}
    /\ ~lost[c]
    /\ lost' = [lost EXCEPT ![c] = TRUE]
    /\ UNCHANGED <<phase, owner, claim, pending, registryVars, channelVars, lastSeen, dbVars, now>>

\* The admin API revokes the agent's row (AdminService.revoke_agent).
Revoke(a) ==
    /\ ~revoked[a]
    /\ revoked' = [revoked EXCEPT ![a] = TRUE]
    /\ UNCHANGED <<handlerVars, registryVars, channelVars, lastSeen, dbSeen, now>>

Tick ==
    /\ now < MaxTime
    /\ now' = now + 1
    /\ UNCHANGED <<handlerVars, registryVars, channelVars, lastSeen, dbVars>>

-----------------------------------------------------------------------------
Handler(c) ==
    \/ Accept(c)
    \/ \E a \in Agents : ReadAuth(c, a)
    \/ ReadBadAuth(c)
    \/ AuthTimeout(c)
    \/ Authenticate(c)
    \/ RejectAuth(c)
    \/ Register(c)
    \/ SendAuthOk(c)
    \/ \E f \in Frames : ReceiveFrame(c, f)
    \/ ReceiveMalformed(c)
    \/ HandleFrame(c)
    \/ ErrorSent(c)
    \/ ConnectionLost(c)
    \/ DatabaseFails(c)

Calls ==
    \/ \E a \in Agents, ch \in Channels : OpenSession(a, ch)
    \/ \E ch \in Channels : StreamClose(ch) \/ ConnectFails(ch) \/ ConnectSucceeds(ch)
    \/ \E k \in closing : EndClose(k) \/ CloseFails(k)

Environment ==
    \/ \E c \in Conns : LoseTransport(c)
    \/ \E a \in Agents : Revoke(a)
    \/ Tick

Next == (\E c \in Conns : Handler(c)) \/ Calls \/ Environment

Spec == Init /\ [][Next]_vars

\* What the event loop, the database and the kernel make happen. A drain may
\* block for as long as the peer does not read, so a handler that reports an
\* error, and a close_session call, are only sure to go on once the transport
\* is lost. A dead transport holds finitely many bytes, so its reads cannot
\* succeed for ever (strong fairness). AsyncSSH aborts the transport of a
\* failed handshake, which schedules BrokerTunnelStream.close.
Fairness ==
    /\ \A c \in Conns :
        /\ WF_vars(AuthTimeout(c))
        /\ WF_vars(Authenticate(c) \/ RejectAuth(c))
        /\ WF_vars(Register(c))
        /\ WF_vars(SendAuthOk(c))
        /\ WF_vars(HandleFrame(c))
        /\ WF_vars(lost[c] /\ ErrorSent(c))
        /\ SF_vars(ConnectionLost(c))
    /\ \A ch \in Channels : WF_vars(attempt[ch] = "failed" /\ StreamClose(ch))

FairSpec == Spec /\ Fairness

-----------------------------------------------------------------------------
(* Properties.                                                             *)

\* The type invariant.
TypeOK ==
    /\ phase \in [Conns -> Phases]
    /\ owner \in [Conns -> Agents \cup {NoAgent}]
    /\ claim \in [Conns -> Agents \cup {NoAgent}]
    /\ pending \in [Conns -> Frames \cup {NoFrame}]
    /\ lost \in [Conns -> BOOLEAN]
    /\ active \in [Agents -> Conns \cup {NoConn}]
    /\ connections \in [Agents -> Conns \cup {NoConn}]
    /\ channelAgents \in [Channels -> Agents \cup {NoAgent}]
    /\ open \in [Conns -> SUBSET Channels]
    /\ retired \in [Conns -> SUBSET Channels]
    /\ adapters \in [Conns -> SUBSET Channels]
    /\ stream \in [Channels -> {"none", "live", "closed"}]
    /\ attempt \in [Channels -> HandshakeStates]
    /\ closing \subseteq CloseCalls
    /\ lastSeen \in [Conns -> 0..MaxTime]
    /\ dbSeen \in [Agents -> 0..MaxTime]
    /\ revoked \in [Agents -> BOOLEAN]
    /\ now \in 0..MaxTime

\* The registry's slot and the broker's connection table never disagree, and
\* what they name is a handler of that very agent that has not returned.
RegistryAgrees ==
    \A a \in Agents :
        /\ active[a] = connections[a]
        /\ connections[a] # NoConn =>
              /\ owner[connections[a]] = a
              /\ phase[connections[a]] \in Serving \cup {"error"}

\* A handler past registry.connect that still reads frames is the one that
\* the connection table names: no agent is served by two tunnels at once.
ServingIsRegistered ==
    \A c \in Conns : phase[c] \in Serving => connections[owner[c]] = c

\* Every routing entry leads to a connection that has the adapter and the
\* open channel: send_data, resize_pty and close_session cannot meet the
\* KeyError of self._connections[agent_id].
RoutesLead ==
    \A ch \in Channels : channelAgents[ch] # NoAgent =>
        LET c == connections[channelAgents[ch]] IN
        c # NoConn /\ ch \in adapters[c] /\ ch \in open[c]

\* No reader waits for ever: a stream that has not been closed is either
\* still routed to a connected tunnel, so that frames and feed_eof reach it,
\* or its own opener gave the channel up after a failed handshake.
NoOrphanStream ==
    \A ch \in Channels : stream[ch] = "live" =>
        channelAgents[ch] # NoAgent \/ attempt[ch] = "failed"

\* A handler that returns without holding the slot (a rejected duplicate, a
\* failed database write) leaves the tunnel that does hold it, its routes and
\* its streams alone.
IntruderHarmless ==
    [][\A c \in Conns :
          (/\ phase[c] # "done" /\ phase'[c] = "done"
           /\ \A a \in Agents : connections[a] # c)
          => UNCHANGED <<registryVars, channelAgents, stream>>]_vars

\* A session is only opened on a tunnel that has been heard from within the
\* last two heartbeat intervals ("missed heartbeats fail closed for new
\* jumps"), whatever agents.last_seen says.
StaleFailsClosed ==
    [][\A ch \in Channels :
          (stream[ch] = "none" /\ stream'[ch] # "none")
          => \E c \in Conns : /\ ch \in open'[c]
                              /\ phase[c] \in Serving \cup {"error"}
                              /\ now - lastSeen[c] < 2 * HeartbeatSeconds]_vars

\* Once the transport of a tunnel is lost its handler returns, and every
\* stream that was open on it is closed ("server tears down in-flight user
\* sessions for that agent").
LossTearsDown ==
    \A c \in Conns, ch \in Channels :
        (lost[c] /\ ch \in adapters[c]) ~> (phase[c] = "done" /\ stream[ch] = "closed")

\* SPEC.md: "any active tunnel for that agent is disconnected when revocation
\* is observed". Nothing in the server calls ActiveTunnelRegistry.revoke.
RevokedTunnelEnds ==
    \A a \in Agents : revoked[a] ~> (connections[a] = NoConn)

\* The inductive invariant: the named parts are what each safety property
\* needs in order to survive one more step of any handler or call.

\* A handler knows its agent from the moment the authenticator returned.
AgentKnown ==
    \A c \in Conns :
        /\ phase[c] = "auth" => claim[c] \in Agents
        /\ phase[c] \in Serving \cup {"touch"} => owner[c] \in Agents
        /\ phase[c] = "handle" => pending[c] \in Frames

\* Adapters and open channels are the same keys, apart from the retired ones,
\* and a connection that was never registered has none.
ChannelSets ==
    \A c \in Conns :
        /\ adapters[c] = open[c]
        /\ open[c] \cap retired[c] = {}
        /\ phase[c] \in {"idle", "hello", "auth", "touch"} => open[c] = {}

\* A channel id belongs to one connection only, and to an existing stream.
ChannelHome ==
    /\ \A c \in Conns : \A ch \in open[c] \cup retired[c] : stream[ch] # "none"
    /\ \A c, d \in Conns : c # d => open[c] \cap open[d] = {}

\* The routing table is exactly the open channels of the current tunnels.
RoutesExact ==
    \A a \in Agents, ch \in Channels :
        channelAgents[ch] = a <=> connections[a] # NoConn /\ ch \in open[connections[a]]

\* A handshake is only ever attempted over a stream that exists.
AttemptNone ==
    \A ch \in Channels : stream[ch] = "none" => attempt[ch] = "none"

\* A suspended close_session call is either the stream's own, and then the
\* stream is closed, or the opener's after a failed handshake.
CloseReason ==
    \A k \in closing :
        /\ k.by = "stream" => stream[k.channel] = "closed"
        /\ k.by = "opener" => attempt[k.channel] = "failed"

\* Their conjunction: every handler, call and close task of the broker keeps it.
BrokerInv ==
    /\ TypeOK
    /\ RegistryAgrees
    /\ ServingIsRegistered
    /\ AgentKnown
    /\ ChannelSets
    /\ ChannelHome
    /\ RoutesExact
    /\ AttemptNone
    /\ CloseReason
    /\ NoOrphanStream

\* The broker implements the directory of sessions: the slot of an agent is
\* its connection, its live sessions are the channels routed to it.
Directory == INSTANCE SessionDirectory WITH
    holder <- connections,
    live <- [a \in Agents |-> {ch \in Channels : channelAgents[ch] = a}],
    used <- {ch \in Channels : stream[ch] # "none"}

\* Every step of the broker is a step of the directory of sessions, or none.
RefinesDirectory == Directory!DirSpec
=============================================================================
