------------------------------- MODULE Tunnel -------------------------------
(***************************************************************************)
(* One authenticated tunnel from end to end, both peers running the code   *)
(* of this repository: the broker's side (BrokerTunnelStream and           *)
(* _BrokerTunnelTransport over ServerTunnelBroker, server/tunnel.py), the  *)
(* two directions of the TLS connection, the agent's dispatch loop and its *)
(* forwarders (agent/tunnel.py), and the node's sshd behind the agent.     *)
(*                                                                         *)
(* Broker.tla has the handlers of all agents against an arbitrary peer;    *)
(* here the peer is the agent, so the frames on the wire are those that    *)
(* the two programs really send, and their order matters.  A data frame    *)
(* carries the position of its bytes in the channel's byte stream.  A      *)
(* wire's drain() blocks while more than HighWater frames are unread.      *)
(***************************************************************************)
EXTENDS Integers, Sequences, FiniteSets

CONSTANTS
    Channels,   \* session ids
    Faults,     \* "local": the node's sshd refuses or resets connections
    HighWater,  \* frames a writer buffers before drain() blocks
    MaxDown,    \* bound: data frames to the agent, by channel
    MaxUp,      \* bound: data frames to the server, by channel
    MaxIdle     \* bound: heartbeat intervals that may pass unheard

ASSUME ChannelsAssumption == "none" \notin Channels
ASSUME FaultsAssumption == Faults \subseteq {"local"}
ASSUME BoundsAssumption ==
    /\ MaxDown \in [Channels -> Nat] /\ MaxUp \in [Channels -> Nat]
    /\ HighWater \in Nat /\ MaxIdle \in 0..2

VARIABLES
    handler,    \* the server's handle_stream: read, handle, error or done
    pending,    \* the frame it has read and not dispatched
    idle,       \* heartbeat intervals since the last frame was read, capped at 2
    open,       \* TunnelChannelRegistry._open_channels
    retired,    \* TunnelChannelRegistry._retired_channels
    stream,     \* BrokerTunnelStream: none, live, closed
    transport,  \* _BrokerTunnelTransport: none, open, closing (_closing)
    queued,     \* write tasks that have not run: positions of their bytes
    written,    \* positions handed to transport.write so far
    closeTask,  \* the task of stream.close: none, ready, drain, done
    got,        \* positions fed to the stream
    down, up,   \* the frames in flight to the agent and to the server
    lost,       \* the network has dropped the connection
    agent,      \* handle_agent_tunnel_stream: read, connect, unwind or done
    connecting, \* the channel whose connect_local is awaited
    awaits,     \* the channel whose sshd the loop waits for, in drain() or wait_closed()
    local,      \* the connection to sshd: none, open, reset, closing, closed
    channels,   \* the keys of the agent's dictionary
    forward,    \* _forward_local_to_tunnel: none, reading, drain, ended, raised
    produced,   \* positions read from sshd so far
    delivered   \* positions written to sshd

serverVars == <<handler, pending, idle, open, retired, stream, transport, queued, written,
                closeTask, got>>
agentVars == <<agent, connecting, awaits, local, channels, forward, produced, delivered>>
vars == <<serverVars, down, up, lost, agentVars>>

-----------------------------------------------------------------------------
Frame(type, ch, n) == [type |-> type, channel |-> ch, at |-> n]
NoChannel == "none"
NoFrame == Frame("NONE", NoChannel, 0)

\* The tunnel has just been registered: AUTH_OK is on its way to the agent.
Init ==
    /\ handler = "read" /\ pending = NoFrame /\ idle = 0
    /\ open = {} /\ retired = {}
    /\ stream = [ch \in Channels |-> "none"]
    /\ transport = [ch \in Channels |-> "none"]
    /\ queued = [ch \in Channels |-> <<>>]
    /\ written = [ch \in Channels |-> 0]
    /\ closeTask = [ch \in Channels |-> "none"]
    /\ got = [ch \in Channels |-> <<>>]
    /\ down = <<Frame("AUTH_OK", NoChannel, 0)>> /\ up = <<>> /\ lost = FALSE
    /\ agent = "read" /\ connecting = NoChannel /\ awaits = NoChannel
    /\ local = [ch \in Channels |-> "none"]
    /\ channels = {}
    /\ forward = [ch \in Channels |-> "none"]
    /\ produced = [ch \in Channels |-> 0]
    /\ delivered = [ch \in Channels |-> <<>>]

\* A channel that _require_channel_connection and require_open find.
Routed(ch) == handler # "done" /\ ch \in open

\* The connection is gone, or one end has returned and closed its writer.
Dead == lost \/ agent = "done" \/ handler = "done"

\* writer.write: what goes to a peer that nobody can reach is dropped.
SendDown(f) == down' = IF Dead THEN down ELSE Append(down, f)
SendUp(f) == up' = IF Dead THEN up ELSE Append(up, f)

\* drain() returns once this little is unread.
Drains(wire) == Len(wire) <= HighWater

-----------------------------------------------------------------------------
(* The server: the jump's stream.                                          *)

\* Mutant of open_session: the registry is not told of the channel.
OpenSession_NotRegistered(ch) ==
    /\ stream[ch] = "none" /\ handler # "done" /\ idle < 2
    /\ stream' = [stream EXCEPT ![ch] = "live"]
    /\ SendDown(Frame("OPEN_SESSION", ch, 0))
    /\ UNCHANGED <<handler, pending, idle, open, retired, transport, queued, written, closeTask,
                   got, up, lost, agentVars>>

\* open_session, on a tunnel that is connected and fresh.
OpenSession(ch) ==
    /\ stream[ch] = "none" /\ handler # "done" /\ idle < 2
    /\ open' = open \cup {ch}
    /\ stream' = [stream EXCEPT ![ch] = "live"]
    /\ SendDown(Frame("OPEN_SESSION", ch, 0))
    /\ UNCHANGED <<handler, pending, idle, retired, transport, queued, written, closeTask, got,
                   up, lost, agentVars>>

\* connector_for_agent and create_connection: AsyncSSH gets its transport.
CreateConnection(ch) ==
    /\ stream[ch] # "none" /\ transport[ch] = "none" /\ Routed(ch)
    /\ transport' = [transport EXCEPT ![ch] = "open"]
    /\ UNCHANGED <<handler, pending, idle, open, retired, stream, queued, written, closeTask, got,
                   down, up, lost, agentVars>>

\* transport.write: one task per call, none after close.
TransportWrite(ch) ==
    /\ transport[ch] = "open" /\ written[ch] < MaxDown[ch]
    /\ written' = [written EXCEPT ![ch] = @ + 1]
    /\ queued' = [queued EXCEPT ![ch] = Append(@, written[ch] + 1)]
    /\ UNCHANGED <<handler, pending, idle, open, retired, stream, transport, closeTask, got,
                   down, up, lost, agentVars>>

\* transport.close: the close task is created, queued write tasks are cancelled.
TransportClose(ch) ==
    /\ transport' = [transport EXCEPT ![ch] = "closing"]
    /\ closeTask' = [closeTask EXCEPT ![ch] = "ready"]
    /\ queued' = [queued EXCEPT ![ch] = <<>>]

\* Mutant of the task order: the youngest write task runs first.
NextWrite_Youngest(ch) == queued[ch][Len(queued[ch])]

\* The event loop starts tasks in the order of their creation.
NextWrite(ch) == Head(queued[ch])

\* A write task runs: send_data puts a frame on the wire before it awaits
\* drain, or raises because the channel is gone, which closes the transport.
WriteRuns(ch) ==
    /\ queued[ch] # <<>>
    /\ IF Routed(ch)
       THEN /\ SendDown(Frame("SESSION_DATA", ch, NextWrite(ch)))
            /\ queued' = [queued EXCEPT ![ch] = Tail(@)]
            /\ UNCHANGED <<transport, closeTask>>
       ELSE /\ IF transport[ch] = "open"
               THEN TransportClose(ch)
               ELSE queued' = [queued EXCEPT ![ch] = Tail(@)] /\ UNCHANGED <<transport, closeTask>>
            /\ UNCHANGED down
    /\ UNCHANGED <<handler, pending, idle, open, retired, stream, written, got, up, lost, agentVars>>

\* AsyncSSH closes or aborts its transport: the session is over, or the
\* handshake failed.
SshCloses(ch) ==
    /\ transport[ch] = "open"
    /\ TransportClose(ch)
    /\ UNCHANGED <<handler, pending, idle, open, retired, stream, written, got,
                   down, up, lost, agentVars>>

\* _read_loop meets the end of the stream.
ReadLoopEnds(ch) ==
    /\ transport[ch] = "open" /\ stream[ch] = "closed"
    /\ transport' = [transport EXCEPT ![ch] = "closing"]
    /\ UNCHANGED <<handler, pending, idle, open, retired, stream, queued, written, closeTask, got,
                   down, up, lost, agentVars>>

\* Mutant of close_session: the agent is not told.
CloseRuns_Silent(ch) ==
    /\ closeTask[ch] = "ready"
    /\ stream' = [stream EXCEPT ![ch] = "closed"]
    /\ closeTask' = [closeTask EXCEPT ![ch] = IF Routed(ch) THEN "drain" ELSE "done"]
    /\ UNCHANGED <<handler, pending, idle, open, retired, transport, queued, written, got,
                   down, up, lost, agentVars>>

\* BrokerTunnelStream.close and the head of close_session.
CloseRuns(ch) ==
    /\ closeTask[ch] = "ready"
    /\ stream' = [stream EXCEPT ![ch] = "closed"]
    /\ IF stream[ch] = "live" /\ Routed(ch)
       THEN /\ SendDown(Frame("CLOSE_SESSION", ch, 0))
            /\ closeTask' = [closeTask EXCEPT ![ch] = "drain"]
       ELSE closeTask' = [closeTask EXCEPT ![ch] = "done"] /\ UNCHANGED down
    /\ UNCHANGED <<handler, pending, idle, open, retired, transport, queued, written, got,
                   up, lost, agentVars>>

\* drain returns and the channel is retired; on a dead writer drain raises
\* and it is not.
CloseDrained(ch) ==
    /\ closeTask[ch] = "drain"
    /\ Drains(down)
    /\ closeTask' = [closeTask EXCEPT ![ch] = "done"]
    /\ \/ open' = open \ {ch} /\ retired' = retired \cup {ch}
       \/ Dead /\ UNCHANGED <<open, retired>>
    /\ UNCHANGED <<handler, pending, idle, stream, transport, queued, written, got,
                   down, up, lost, agentVars>>

-----------------------------------------------------------------------------
(* The server: the handler of the connection.                              *)

\* The handler's finally clause: every stream that is still routed ends, the
\* heartbeat state is forgotten, and nobody reads what the agent still sends.
DropConnection ==
    /\ handler' = "done" /\ up' = <<>> /\ idle' = 0
    /\ stream' = [ch \in Channels |-> IF ch \in open THEN "closed" ELSE stream[ch]]
    /\ pending' = NoFrame

\* A frame is read and marks the tunnel as seen; update_last_seen is awaited.
ServerReads ==
    /\ handler = "read" /\ up # <<>>
    /\ pending' = Head(up) /\ up' = Tail(up)
    /\ idle' = 0
    /\ handler' = "handle"
    /\ UNCHANGED <<open, retired, stream, transport, queued, written, closeTask, got,
                   down, lost, agentVars>>

\* _handle_agent_frame: the agent sends nothing but SESSION_DATA. On a channel
\* that is not open it raises, and an ERROR frame is written.
ServerHandles ==
    /\ handler = "handle"
    /\ IF pending.channel \in open
       THEN /\ got' = [got EXCEPT ![pending.channel] = Append(@, pending.at)]
            /\ handler' = "read" /\ pending' = NoFrame
            /\ UNCHANGED down
       ELSE /\ handler' = "error"
            /\ SendDown(Frame("ERROR", NoChannel, 0))
            /\ UNCHANGED <<got, pending>>
    /\ UNCHANGED <<idle, open, retired, stream, transport, queued, written, closeTask,
                   up, lost, agentVars>>

\* The ERROR frame is drained and the connection dropped.
ServerFails ==
    /\ handler = "error"
    /\ Drains(down)
    /\ DropConnection
    /\ UNCHANGED <<open, retired, transport, queued, written, closeTask, got, down, lost,
                   agentVars>>

\* readexactly meets the end of the connection.
ServerEof ==
    /\ handler = "read"
    /\ lost \/ (agent = "done" /\ up = <<>>)
    /\ DropConnection
    /\ UNCHANGED <<open, retired, transport, queued, written, closeTask, got, down, lost,
                   agentVars>>

-----------------------------------------------------------------------------
(* The agent.                                                              *)

\* An exception leaves the dispatch loop.
AgentRaises == agent' = "unwind" /\ UNCHANGED <<connecting, awaits, local, channels, forward, delivered>>

\* Mutant of the OPEN_SESSION branch: the next frame is read while sshd answers.
AgentOpens_Background(ch) ==
    /\ connecting' = ch
    /\ UNCHANGED <<agent, awaits, local, channels, forward, delivered>>

\* OPEN_SESSION: connect_local is awaited, and no other frame is read meanwhile.
AgentOpens(ch) ==
    IF ch \in channels
    THEN AgentRaises
    ELSE /\ agent' = "connect" /\ connecting' = ch
         /\ UNCHANGED <<awaits, local, channels, forward, delivered>>

\* SESSION_DATA: written to sshd, and drain is awaited if sshd is slow to read.  It
\* raises if sshd has reset the connection.
AgentDelivers(ch, n) ==
    IF ch \in channels /\ local[ch] = "open"
    THEN /\ delivered' = [delivered EXCEPT ![ch] = Append(@, n)]
         /\ awaits' \in {NoChannel, ch}
         /\ UNCHANGED <<agent, connecting, local, channels, forward>>
    ELSE AgentRaises

\* Mutant of the CLOSE_SESSION branch: the channel is popped and not closed.
AgentCloses_PopOnly(ch) ==
    /\ channels' = channels \ {ch}
    /\ UNCHANGED <<agent, connecting, awaits, local, forward, delivered>>

\* _close_channel cancels the forwarder and awaits it, then closes the
\* connection to sshd and waits until what it has buffered is read: a forwarder
\* that has failed makes it raise before the close, a connection that sshd has
\* reset after it.
CloseChannel(ch) ==
    /\ channels' = channels \ {ch}
    /\ IF forward[ch] = "raised"
       THEN UNCHANGED <<awaits, local, forward>>
       ELSE /\ forward' = [forward EXCEPT ![ch] = "ended"]
            /\ \/ local' = [local EXCEPT ![ch] = "closed"] /\ UNCHANGED awaits
               \/ /\ local[ch] = "open" /\ local' = [local EXCEPT ![ch] = "closing"]
                  /\ awaits' = ch

CloseRaises(ch) == forward[ch] = "raised" \/ local[ch] = "reset"

\* CLOSE_SESSION: pop and _close_channel. An unknown channel is ignored.
AgentCloses(ch) ==
    /\ IF ch \in channels
       THEN CloseChannel(ch) /\ agent' = IF CloseRaises(ch) THEN "unwind" ELSE agent
       ELSE UNCHANGED <<awaits, local, channels, forward, agent>>
    /\ UNCHANGED <<connecting, delivered>>

\* One turn of the dispatch loop.
AgentReads ==
    /\ agent = "read" /\ awaits = NoChannel /\ down # <<>>
    /\ down' = Tail(down)
    /\ LET f == Head(down) IN
       \/ f.type = "AUTH_OK" /\ UNCHANGED <<agent, connecting, awaits, local, channels, forward, delivered>>
       \/ f.type = "OPEN_SESSION" /\ AgentOpens(f.channel)
       \/ f.type = "SESSION_DATA" /\ AgentDelivers(f.channel, f.at)
       \/ f.type = "CLOSE_SESSION" /\ AgentCloses(f.channel)
       \/ f.type = "ERROR" /\ AgentRaises
    /\ UNCHANGED <<serverVars, up, lost, produced>>

\* connect_local returns; the forwarder starts.
AgentConnects ==
    /\ connecting # NoChannel
    /\ local' = [local EXCEPT ![connecting] = "open"]
    /\ forward' = [forward EXCEPT ![connecting] = "reading"]
    /\ channels' = channels \cup {connecting}
    /\ connecting' = NoChannel /\ agent' = "read"
    /\ UNCHANGED <<serverVars, down, up, lost, awaits, produced, delivered>>

\* connect_local raises OSError, which ends the whole tunnel.
AgentRefused ==
    /\ agent = "connect" /\ "local" \in Faults
    /\ agent' = "unwind" /\ connecting' = NoChannel
    /\ UNCHANGED <<serverVars, down, up, lost, awaits, local, channels, forward, produced, delivered>>

AgentEof ==
    /\ agent = "read" /\ awaits = NoChannel
    /\ lost \/ (handler = "done" /\ down = <<>>)
    /\ agent' = "unwind"
    /\ UNCHANGED <<serverVars, down, up, lost, connecting, awaits, local, channels, forward, produced,
                   delivered>>

\* The finally clause closes one channel after the other; the first that
\* raises leaves the rest as they are.
AgentUnwinds ==
    /\ agent = "unwind" /\ awaits = NoChannel
    /\ IF channels = {}
       THEN agent' = "done" /\ UNCHANGED <<awaits, local, channels, forward>>
       ELSE \E ch \in channels :
              CloseChannel(ch) /\ agent' = IF CloseRaises(ch) THEN "done" ELSE agent
    /\ down' = IF agent' = "done" THEN <<>> ELSE down
    /\ UNCHANGED <<serverVars, up, lost, connecting, produced, delivered>>

\* sshd has read enough for drain() or wait_closed() to return.
AwaitReturns ==
    /\ awaits # NoChannel /\ local[awaits] # "reset"
    /\ awaits' = NoChannel
    /\ local' = [local EXCEPT ![awaits] = IF @ = "closing" THEN "closed" ELSE @]
    /\ UNCHANGED <<serverVars, down, up, lost, agent, connecting, channels, forward, produced,
                   delivered>>

\* sshd has reset the connection, and drain() or wait_closed() raises: out of the
\* dispatch loop, or out of its finally clause.
AwaitRaises ==
    /\ awaits # NoChannel /\ local[awaits] = "reset"
    /\ awaits' = NoChannel
    /\ agent' = IF agent = "unwind" THEN "done" ELSE "unwind"
    /\ down' = IF agent' = "done" THEN <<>> ELSE down
    /\ UNCHANGED <<serverVars, up, lost, connecting, local, channels, forward, produced, delivered>>

\* Mutant of _forward_local_to_tunnel: the frame is written without drain.
Forwards_NoDrain(ch) ==
    /\ forward[ch] = "reading" /\ produced[ch] < MaxUp[ch]
    /\ produced' = [produced EXCEPT ![ch] = @ + 1]
    /\ SendUp(Frame("SESSION_DATA", ch, produced[ch] + 1))
    /\ UNCHANGED <<forward, serverVars, down, lost, agent, connecting, awaits, local, channels, delivered>>

\* _forward_local_to_tunnel: a chunk from sshd goes out, then drain. On a
\* dead connection the chunk is dropped, and a forwarder that was left behind
\* by its agent raises.
Forwards(ch) ==
    /\ forward[ch] = "reading" /\ produced[ch] < MaxUp[ch]
    /\ IF agent = "done"
       THEN /\ forward' = [forward EXCEPT ![ch] = "raised"]
            /\ UNCHANGED <<produced, up>>
       ELSE /\ produced' = [produced EXCEPT ![ch] = @ + 1]
            /\ SendUp(Frame("SESSION_DATA", ch, produced[ch] + 1))
            /\ forward' = [forward EXCEPT ![ch] = "drain"]
    /\ UNCHANGED <<serverVars, down, lost, agent, connecting, awaits, local, channels, delivered>>

\* drain returns, or raises on a connection that is known to be dead.
ForwardDrained(ch) ==
    /\ forward[ch] = "drain" /\ Drains(up)
    /\ \/ forward' = [forward EXCEPT ![ch] = "reading"]
       \/ Dead /\ forward' = [forward EXCEPT ![ch] = "raised"]
    /\ UNCHANGED <<serverVars, down, up, lost, agent, connecting, awaits, local, channels, produced,
                   delivered>>

\* sshd closes its side: the forwarder returns and tells nobody.
LocalEof(ch) ==
    /\ forward[ch] = "reading"
    /\ forward' = [forward EXCEPT ![ch] = "ended"]
    /\ UNCHANGED <<serverVars, down, up, lost, agent, connecting, awaits, local, channels, produced,
                   delivered>>

\* sshd resets the connection: the forwarder ends in an exception.
LocalReset(ch) ==
    /\ "local" \in Faults /\ local[ch] \in {"open", "closing"}
    /\ local' = [local EXCEPT ![ch] = "reset"]
    /\ forward' = [forward EXCEPT ![ch] = IF @ = "ended" THEN @ ELSE "raised"]
    /\ UNCHANGED <<serverVars, down, up, lost, agent, connecting, awaits, channels, produced, delivered>>

-----------------------------------------------------------------------------
\* The network drops the connection and what is in flight.
LoseTransport ==
    /\ ~lost
    /\ lost' = TRUE /\ down' = <<>> /\ up' = <<>>
    /\ UNCHANGED <<serverVars, agentVars>>

\* A heartbeat interval passes.
Interval ==
    /\ handler # "done" /\ idle < MaxIdle
    /\ idle' = idle + 1
    /\ UNCHANGED <<handler, pending, open, retired, stream, transport, queued, written, closeTask,
                   got, down, up, lost, agentVars>>

\* The two loops, each of which does one thing at a time.
HandleStream == ServerReads \/ ServerHandles \/ ServerFails \/ ServerEof
DispatchLoop ==
    AgentReads \/ AgentConnects \/ AgentRefused \/ AgentEof \/ AgentUnwinds \/ AwaitRaises

Server ==
    \/ \E ch \in Channels :
        \/ OpenSession(ch) \/ CreateConnection(ch) \/ TransportWrite(ch) \/ WriteRuns(ch)
        \/ SshCloses(ch) \/ ReadLoopEnds(ch) \/ CloseRuns(ch) \/ CloseDrained(ch)
    \/ HandleStream

Agent ==
    \/ DispatchLoop \/ AwaitReturns
    \/ \E ch \in Channels : Forwards(ch) \/ ForwardDrained(ch) \/ LocalEof(ch) \/ LocalReset(ch)

Next == Server \/ Agent \/ LoseTransport \/ Interval

Spec == Init /\ [][Next]_vars

\* Both event loops run what is ready, the database answers, a connect to sshd ends in one
\* way or the other, and a dead connection is noticed. AsyncSSH and sshd owe nobody
\* anything: sshd may never read, and the agent's loop then never gets beyond its await.
Fairness ==
    /\ \A ch \in Channels :
        WF_vars(WriteRuns(ch)) /\ WF_vars(CloseRuns(ch) \/ CloseDrained(ch)) /\ WF_vars(ForwardDrained(ch))
    /\ WF_vars(HandleStream) /\ WF_vars(DispatchLoop) /\ WF_vars(Interval)

FairSpec == Spec /\ Fairness

-----------------------------------------------------------------------------
(* Properties.                                                             *)

\* What the agent sends, and what the server sends.
DataFrames == [type : {"SESSION_DATA"}, channel : Channels, at : Nat]
ServerFrames ==
    [type : {"OPEN_SESSION", "SESSION_DATA", "CLOSE_SESSION"}, channel : Channels, at : Nat]
        \cup [type : {"AUTH_OK", "ERROR"}, channel : {NoChannel}, at : {0}]

\* The type invariant. The agent awaits one thing at most.
TypeOK ==
    /\ handler \in {"read", "handle", "error", "done"}
    /\ pending \in IF handler \in {"handle", "error"} THEN DataFrames ELSE {NoFrame}
    /\ idle \in 0..MaxIdle
    /\ open \subseteq Channels /\ retired \subseteq Channels
    /\ stream \in [Channels -> {"none", "live", "closed"}]
    /\ transport \in [Channels -> {"none", "open", "closing"}]
    /\ written \in [Channels -> Nat] /\ produced \in [Channels -> Nat]
    /\ \A ch \in Channels : written[ch] <= MaxDown[ch] /\ produced[ch] <= MaxUp[ch]
    /\ queued \in [Channels -> Seq(Nat)] /\ got \in [Channels -> Seq(Nat)]
    /\ delivered \in [Channels -> Seq(Nat)]
    /\ closeTask \in [Channels -> {"none", "ready", "drain", "done"}]
    /\ down \in Seq(ServerFrames) /\ up \in Seq(DataFrames) /\ lost \in BOOLEAN
    /\ agent \in {"read", "connect", "unwind", "done"}
    /\ connecting \in IF agent = "connect" THEN Channels ELSE {NoChannel}
    /\ awaits \in IF agent \in {"read", "unwind"} THEN Channels \cup {NoChannel} ELSE {NoChannel}
    /\ channels \subseteq Channels
    /\ local \in [Channels -> {"none", "open", "reset", "closing", "closed"}]
    /\ forward \in [Channels -> {"none", "reading", "drain", "ended", "raised"}]

InOrder(s) == s = [i \in 1..Len(s) |-> i]

\* The byte streams of a session arrive in order, without a gap and without a
\* repetition, at the node and at the server, however the sessions share the
\* tunnel and wherever it breaks ("the agent MUST NOT parse SSH messages").
BytesInOrder ==
    \A ch \in Channels :
        /\ InOrder(delivered[ch]) /\ Len(delivered[ch]) <= written[ch]
        /\ InOrder(got[ch]) /\ Len(got[ch]) <= produced[ch]

\* The server never makes its own agent raise: when the agent reads a data
\* frame it has the channel, and when it reads OPEN_SESSION it has not.
AgentNeverConfused ==
    (agent = "read" /\ down # <<>>) =>
        LET f == Head(down) IN
        /\ f.type = "SESSION_DATA" => f.channel \in channels
        /\ f.type = "OPEN_SESSION" => f.channel \notin channels

\* The only frame of the agent that the server rejects, at the cost of every
\* session of the tunnel, is data that crossed the server's own CLOSE_SESSION.
OnlyCrossingKills ==
    handler = "error" => pending.type = "SESSION_DATA" /\ pending.channel \in retired

InFlight(type, ch) == \E i \in 1..Len(down) : down[i].type = type /\ down[i].channel = ch

\* While the tunnel is up, a connection to sshd that the agent holds belongs
\* to a channel that the server still has, or that it has just closed.
NoStrayConnection ==
    \A ch \in Channels :
        (local[ch] = "open" /\ handler # "done" /\ ~lost) =>
            ch \in open \/ InFlight("CLOSE_SESSION", ch) \/ agent \in {"unwind", "done"}

\* How many frames of a channel are on a wire.
Waiting(wire, ch) == Cardinality({i \in 1..Len(wire) : wire[i].channel = ch})

\* "Backpressure is mandatory": a session reads from sshd only while no more of
\* its frames than the mark wait for the server, so that a blocked tunnel stops
\* every session's sshd after one more frame (_forward_local_to_tunnel).
AgentBackpressure ==
    \A ch \in Channels :
        Waiting(up, ch) <= HighWater + (IF forward[ch] = "reading" THEN 0 ELSE 1)

\* A session that ends on the server ends at the node, for good, as long as no sshd keeps
\* the agent's one loop waiting for ever (drain() and wait_closed() there hold up every
\* session): the agent has closed its connection to sshd, or never had one, unless the
\* session's forwarder has failed or the agent's unwinding was cut short before it came
\* to the session (_close_channel, and the finally clause of handle_agent_tunnel_stream).
CloseReachesNode ==
    []<>(awaits = NoChannel) =>
        <>[](\A ch \in Channels : stream[ch] = "closed" =>
                 \/ local[ch] \notin {"open", "closing"}
                 \/ forward[ch] = "raised"
                 \/ agent = "done" /\ ch \in channels)

\* SPEC.md: "Heartbeat every 30s". A tunnel that has gone stale hears from
\* its agent again, or ends.
HeartbeatRevives == (idle = 2) ~> (idle = 0 \/ handler = "done" \/ agent = "done")

-----------------------------------------------------------------------------
(* The inductive invariant, in named parts.                                *)

\* The life of a session at the server: a channel is in the registry from open_session on,
\* and the close task is what retires it, after the transport has dropped its writes.
SessionLife ==
    \A ch \in Channels :
        /\ stream[ch] # "none" <=> ch \in open \cup retired
        /\ stream[ch] = "none" => transport[ch] = "none"
        /\ transport[ch] = "none" => written[ch] = 0 /\ queued[ch] = <<>> /\ closeTask[ch] = "none"
        /\ closeTask[ch] # "none" => transport[ch] = "closing" /\ queued[ch] = <<>>
        /\ closeTask[ch] \in {"none", "ready"} => ch \notin retired
        /\ handler # "done" /\ stream[ch] = "closed" => closeTask[ch] \in {"drain", "done"}

\* The agent runs its dispatch loop.
Dispatching == agent \in {"read", "connect"}

\* The agent has the channel, or will have it.
Reached(ch) == ch \in channels \/ connecting = ch \/ InFlight("OPEN_SESSION", ch)

\* The frames of a session on their way to the agent: OPEN_SESSION first and CLOSE_SESSION
\* last, data only for a channel that the agent has or will have, and CLOSE_SESSION for each
\* that the server is done with.
FramesInTurn ==
    Dispatching => \A ch \in Channels :
        /\ stream[ch] = "none" => ~Reached(ch) /\ \A i \in 1..Len(down) : down[i].channel # ch
        /\ connecting = ch \/ InFlight("OPEN_SESSION", ch) => ch \notin channels /\ forward[ch] = "none"
        /\ connecting = ch => ~InFlight("OPEN_SESSION", ch)
        /\ InFlight("SESSION_DATA", ch) => Reached(ch)
        /\ InFlight("CLOSE_SESSION", ch) => closeTask[ch] \in {"drain", "done"}
        /\ \A i, j \in 1..Len(down) : down[i].channel = ch /\ down[j].channel = ch /\ i < j =>
               down[i].type # "CLOSE_SESSION" /\ down[j].type # "OPEN_SESSION"

\* As long as the tunnel is up, nothing of that is missing.
NothingMissing ==
    Dispatching /\ ~Dead => \A ch \in Channels :
        /\ stream[ch] # "none" /\ closeTask[ch] \in {"none", "ready"} => Reached(ch)
        /\ closeTask[ch] \in {"drain", "done"} /\ Reached(ch) => InFlight("CLOSE_SESSION", ch)

\* What the agent has of a session comes from the server's open_session.
KnownChannels ==
    /\ \A ch \in Channels :
        /\ forward[ch] # "none" => stream[ch] # "none"
        /\ ch \in channels \/ local[ch] # "none" => forward[ch] # "none"
        /\ Dispatching /\ local[ch] = "open" => ch \in channels
        /\ forward[ch] = "none" => \A i \in 1..Len(up) : up[i].channel # ch
    /\ \A i \in 1..Len(up) : stream[up[i].channel] # "none"
    /\ handler = "handle" => stream[pending.channel] # "none"

\* The data frames of a channel on a wire have the positions after first, up to last, in order.
Carries(wire, ch, first, last) ==
    LET Data(i) == wire[i].type = "SESSION_DATA" /\ wire[i].channel = ch IN
    /\ \A i \in 1..Len(wire) : Data(i) => wire[i].at \in (first + 1)..last
    /\ \A n \in (first + 1)..last : \E i \in 1..Len(wire) : Data(i) /\ wire[i].at = n
    /\ \A i, j \in 1..Len(wire) : i < j /\ Data(i) /\ Data(j) => wire[i].at < wire[j].at

\* The positions the server has read.
Taken(ch) == IF pending.channel = ch THEN Len(got[ch]) + 1 ELSE Len(got[ch])

\* The bytes to the server: read, on the wire, and no more read from sshd while it is up.
UpInOrder ==
    handler \in {"read", "handle"} => \A ch \in Channels :
        /\ pending.channel = ch => pending.at = Len(got[ch]) + 1
        /\ \E last \in Taken(ch)..produced[ch] :
              Carries(up, ch, Taken(ch), last) /\ (~Dead => last = produced[ch])

\* The bytes to the node: delivered, on the wire, and in the write tasks of the transport.
DownInOrder ==
    \A ch \in Channels :
        /\ Len(queued[ch]) <= written[ch]
        /\ \A i \in 1..Len(queued[ch]) : queued[ch][i] = (written[ch] - Len(queued[ch])) + i
        /\ Dispatching => \E last \in Len(delivered[ch])..written[ch] :
              /\ Carries(down, ch, Len(delivered[ch]), last)
              /\ ~Dead /\ Routed(ch) /\ (transport[ch] # "closing" \/ queued[ch] # <<>>) =>
                     last = written[ch] - Len(queued[ch])

\* Their conjunction.
TunnelInv ==
    /\ TypeOK
    /\ SessionLife
    /\ FramesInTurn
    /\ NothingMissing
    /\ KnownChannels
    /\ UpInOrder
    /\ DownInOrder
    /\ BytesInOrder
    /\ OnlyCrossingKills
    /\ AgentBackpressure
=============================================================================
