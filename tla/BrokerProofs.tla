---------------------------- MODULE BrokerProofs ----------------------------
(***************************************************************************)
(* What the broker guarantees for every number of agents, connections and  *)
(* channels and every limit: its types, the agreement of its tables, and   *)
(* that it implements the directory of sessions.                           *)
(***************************************************************************)
EXTENDS Broker, TLAPS

\* The bookkeeping of the constants that every step needs.
LEMMA ConstantFacts ==
    /\ NoAgent \notin Agents
    /\ NoConn \notin Conns
    /\ MaxTime \in Nat
    /\ 0 \in 0..MaxTime
BY NoneAssumption, TimeAssumption

\* Finish, the finally clause of handle_stream, keeps every table well typed.
LEMMA FinishType ==
    ASSUME TypeOK, NEW c \in Conns, Finish(c)
    PROVE  /\ phase' \in [Conns -> Phases]
           /\ pending' \in [Conns -> Frames \cup {NoFrame}]
           /\ active' \in [Agents -> Conns \cup {NoConn}]
           /\ connections' \in [Agents -> Conns \cup {NoConn}]
           /\ channelAgents' \in [Channels -> Agents \cup {NoAgent}]
           /\ stream' \in [Channels -> {"none", "live", "closed"}]
           /\ UNCHANGED <<open, retired, adapters, attempt, closing>>
<1>1. phase' \in [Conns -> Phases] /\ pending' \in [Conns -> Frames \cup {NoFrame}]
  BY DEF TypeOK, Finish, Phases
<1>2. CASE owner[c] = NoAgent
  BY <1>1, <1>2 DEF TypeOK, Finish, registryVars, channelVars
<1>3. CASE owner[c] # NoAgent
  <2>1. owner[c] \in Agents /\ DropConnection(owner[c], c)
    BY <1>3 DEF TypeOK, Finish
  <2>2. active' \in [Agents -> Conns \cup {NoConn}]
    BY <2>1 DEF TypeOK, DropConnection, RegistryDisconnect
  <2>3. connections' \in [Agents -> Conns \cup {NoConn}]
    BY <2>1 DEF TypeOK, DropConnection
  <2>4. UNCHANGED <<channelAgents, stream>> \/ FeedEofToAll(c)
    BY <2>1 DEF DropConnection
  <2>5. channelAgents' \in [Channels -> Agents \cup {NoAgent}]
    BY <2>4 DEF TypeOK, FeedEofToAll
  <2>6. stream' \in [Channels -> {"none", "live", "closed"}]
    BY <2>4 DEF TypeOK, FeedEofToAll
  <2>7. UNCHANGED <<open, retired, adapters, attempt, closing>>
    BY <2>1 DEF DropConnection
  <2>8. QED
    BY <1>1, <2>2, <2>3, <2>5, <2>6, <2>7
<1>4. QED
  BY <1>2, <1>3

\* _retire_channel keeps the channel tables well typed.
LEMMA RetireType ==
    ASSUME TypeOK, NEW c \in Conns, NEW ch \in Channels, RetireChannel(c, ch)
    PROVE  /\ open' \in [Conns -> SUBSET Channels]
           /\ retired' \in [Conns -> SUBSET Channels]
           /\ adapters' \in [Conns -> SUBSET Channels]
           /\ channelAgents' \in [Channels -> Agents \cup {NoAgent}]
BY DEF TypeOK, RetireChannel

\* The initial state is well typed.
LEMMA InitType == Init => TypeOK
BY ConstantFacts DEF Init, TypeOK, Phases, HandshakeStates

\* Every step of the broker keeps its types.
LEMMA NextType == TypeOK /\ AgentKnown /\ RoutesExact /\ [Next]_vars => TypeOK'
<1> SUFFICES ASSUME TypeOK, AgentKnown, RoutesExact, [Next]_vars PROVE TypeOK'
    OBVIOUS
<1> USE ConstantFacts
<1>1. ASSUME NEW c \in Conns, Handler(c) PROVE TypeOK'
  <2>1. CASE \/ Accept(c) \/ ReadBadAuth(c) \/ RejectAuth(c)
             \/ SendAuthOk(c) \/ ReceiveMalformed(c)
    BY <2>1 DEF TypeOK, Accept, ReadBadAuth, RejectAuth, SendAuthOk, ReceiveMalformed,
                Phases, registryVars, channelVars, dbVars
  <2>2. CASE \E a \in Agents : ReadAuth(c, a)
    BY <2>2 DEF TypeOK, ReadAuth, Phases, registryVars, channelVars, dbVars
  <2>3. CASE AuthTimeout(c) \/ ErrorSent(c) \/ ConnectionLost(c) \/ DatabaseFails(c)
    <3>1. Finish(c) /\ UNCHANGED <<owner, claim, lost, lastSeen, dbVars, now>>
      BY <2>3 DEF AuthTimeout, ErrorSent, ConnectionLost, DatabaseFails
    <3>2. QED
      BY <3>1, FinishType DEF TypeOK, dbVars
  <2>4. CASE Authenticate(c)
    BY <2>4 DEF TypeOK, Authenticate, Phases, registryVars, channelVars, dbVars
  <2>5. CASE Register(c)
    BY <2>5 DEF TypeOK, Register, UpdateLastSeen, AgentKnown, Serving, Phases,
                registryVars, channelVars
  <2>6. CASE \E f \in Frames : ReceiveFrame(c, f)
    BY <2>6 DEF TypeOK, ReceiveFrame, Phases, registryVars, channelVars, dbVars
  <2>7. CASE HandleFrame(c)
    <3>1. pending[c] \in Frames /\ owner[c] \in Agents
      BY <2>7 DEF AgentKnown, HandleFrame, Serving
    <3>2. pending[c].channel \in Channels
      BY <3>1 DEF Frames
    <3>3. dbSeen' \in [Agents -> 0..MaxTime]
      BY <2>7, <3>1 DEF TypeOK, HandleFrame, UpdateLastSeen
    <3>4. CASE UNCHANGED channelVars
      BY <2>7, <3>3, <3>4 DEF TypeOK, HandleFrame, Phases, registryVars, channelVars
    <3>5. CASE ~UNCHANGED channelVars
      <4>1. /\ RetireChannel(c, pending[c].channel)
            /\ stream' = [stream EXCEPT ![pending[c].channel] = "closed"]
            /\ UNCHANGED <<attempt, closing>>
        BY <2>7, <3>5 DEF HandleFrame, AcceptFrame
      <4>2. /\ phase' = [phase EXCEPT ![c] = "read"] \/ phase' = [phase EXCEPT ![c] = "error"]
            /\ pending' = [pending EXCEPT ![c] = NoFrame]
            /\ UNCHANGED <<owner, claim, lost, registryVars, lastSeen, revoked, now>>
        BY <2>7 DEF HandleFrame
      <4>3. QED
        BY <3>2, <3>3, <4>1, <4>2 DEF TypeOK, RetireChannel, Phases, registryVars
    <3>6. QED
      BY <3>4, <3>5
  <2>8. QED
    BY <1>1, <2>1, <2>2, <2>3, <2>4, <2>5, <2>6, <2>7 DEF Handler
<1>2. ASSUME Calls PROVE TypeOK'
  <2>1. ASSUME NEW a \in Agents, NEW ch \in Channels, OpenSession(a, ch) PROVE TypeOK'
    BY <2>1 DEF TypeOK, OpenSession, HandshakeStates, handlerVars, registryVars, dbVars
  <2>2. ASSUME NEW by \in Callers, NEW ch \in Channels, BeginClose(by, ch)
        PROVE  closing' \subseteq CloseCalls
    <3>1. CASE channelAgents[ch] # NoAgent /\ ch \in open[connections[channelAgents[ch]]]
      <4>1. channelAgents[ch] \in Agents
        BY <3>1 DEF TypeOK
      <4>2. connections[channelAgents[ch]] \in Conns
        BY <3>1, <4>1 DEF TypeOK, RoutesExact
      <4>3. QED
        BY <2>2, <3>1, <4>2 DEF TypeOK, BeginClose, CloseCalls
    <3>2. CASE ~(channelAgents[ch] # NoAgent /\ ch \in open[connections[channelAgents[ch]]])
      BY <2>2, <3>2 DEF TypeOK, BeginClose
    <3>3. QED
      BY <3>1, <3>2
  <2>3. ASSUME NEW ch \in Channels, StreamClose(ch) PROVE TypeOK'
    BY <2>2, <2>3 DEF TypeOK, StreamClose, Callers, handlerVars, registryVars, dbVars
  <2>4. ASSUME NEW ch \in Channels, ConnectFails(ch) PROVE TypeOK'
    BY <2>2, <2>4 DEF TypeOK, ConnectFails, Callers, HandshakeStates,
                      handlerVars, registryVars, dbVars
  <2>5. ASSUME NEW ch \in Channels, ConnectSucceeds(ch) PROVE TypeOK'
    BY <2>5 DEF TypeOK, ConnectSucceeds, HandshakeStates, handlerVars, registryVars, dbVars
  <2>6. ASSUME NEW k \in closing, EndClose(k) \/ CloseFails(k) PROVE TypeOK'
    <3>1. k.channel \in Channels /\ k.conn \in Conns
      BY DEF TypeOK, CloseCalls
    <3>2. CASE CloseFails(k)
      BY <3>1, <3>2 DEF TypeOK, CloseFails, handlerVars, registryVars, dbVars
    <3>3. CASE EndClose(k) /\ k.channel \in open[k.conn]
      <4>1. /\ open' \in [Conns -> SUBSET Channels]
            /\ retired' \in [Conns -> SUBSET Channels]
            /\ adapters' \in [Conns -> SUBSET Channels]
            /\ channelAgents' \in [Channels -> Agents \cup {NoAgent}]
        BY <3>1, <3>3, RetireType DEF EndClose
      <4>2. QED
        BY <3>3, <4>1 DEF TypeOK, EndClose, handlerVars, registryVars, dbVars
    <3>4. CASE EndClose(k) /\ k.channel \notin open[k.conn]
      BY <3>1, <3>4 DEF TypeOK, EndClose, handlerVars, registryVars, dbVars
    <3>5. QED
      BY <2>6, <3>2, <3>3, <3>4
  <2>7. QED
    BY <1>2, <2>1, <2>3, <2>4, <2>5, <2>6 DEF Calls
<1>3. ASSUME Environment PROVE TypeOK'
  <2>1. ASSUME NEW c \in Conns, LoseTransport(c) PROVE TypeOK'
    BY <2>1 DEF TypeOK, LoseTransport, registryVars, channelVars, dbVars
  <2>2. ASSUME NEW a \in Agents, Revoke(a) PROVE TypeOK'
    BY <2>2 DEF TypeOK, Revoke, handlerVars, registryVars, channelVars
  <2>3. CASE Tick
    BY <2>3 DEF TypeOK, Tick, handlerVars, registryVars, channelVars, dbVars
  <2>4. QED
    BY <1>3, <2>1, <2>2, <2>3 DEF Environment
<1>4. CASE UNCHANGED vars
  BY <1>4 DEF TypeOK, vars, handlerVars, registryVars, channelVars, dbVars
<1>5. QED
  BY <1>1, <1>2, <1>3, <1>4 DEF Next

-----------------------------------------------------------------------------
\* Retiring an open channel keeps the routing table exact: no other
\* connection has the channel, and no other agent has the connection.
LEMMA RetireKeeps ==
    ASSUME TypeOK, RegistryAgrees, ChannelSets, ChannelHome, RoutesExact,
           NEW c \in Conns, NEW ch \in open[c],
           RetireChannel(c, ch), UNCHANGED connections
    PROVE  /\ RoutesExact'
           /\ \A d \in Conns : /\ adapters'[d] = open'[d]
                               /\ open'[d] \cap retired'[d] = {}
                               /\ open'[d] \subseteq open[d]
                               /\ open'[d] \cup retired'[d] = open[d] \cup retired[d]
           /\ \A x \in Channels : x # ch => channelAgents'[x] = channelAgents[x]
<1>1. ch \in Channels
  BY DEF TypeOK
<1>2. \A d \in Conns : /\ open'[d] = IF d = c THEN open[d] \ {ch} ELSE open[d]
                       /\ retired'[d] = IF d = c THEN retired[d] \cup {ch} ELSE retired[d]
                       /\ adapters'[d] = IF d = c THEN adapters[d] \ {ch} ELSE adapters[d]
  BY DEF TypeOK, RetireChannel
<1>3. \A x \in Channels : channelAgents'[x] = IF x = ch THEN NoAgent ELSE channelAgents[x]
  BY <1>1 DEF TypeOK, RetireChannel
<1>4. \A d \in Conns : /\ adapters'[d] = open'[d]
                       /\ open'[d] \cap retired'[d] = {}
                       /\ open'[d] \subseteq open[d]
                       /\ open'[d] \cup retired'[d] = open[d] \cup retired[d]
  BY <1>2 DEF ChannelSets
<1>5. RoutesExact'
  <2> SUFFICES ASSUME NEW a \in Agents, NEW x \in Channels
               PROVE  channelAgents'[x] = a
                      <=> connections[a] # NoConn /\ x \in open'[connections[a]]
    BY DEF RoutesExact
  <2>1. connections[a] # NoConn => connections[a] \in Conns
    BY DEF TypeOK
  <2>2. CASE x = ch
    BY <1>2, <1>3, <2>1, <2>2, ConstantFacts DEF ChannelHome
  <2>3. CASE x # ch
    <3>1. channelAgents'[x] = channelAgents[x]
      BY <1>3, <2>3
    <3>2. \A d \in Conns : x \in open'[d] <=> x \in open[d]
      BY <1>2, <2>3
    <3>3. QED
      BY <2>1, <3>1, <3>2 DEF RoutesExact
  <2>4. QED
    BY <2>2, <2>3
<1>6. QED
  BY <1>3, <1>4, <1>5

\* What Finish does, in the two cases that matter: the connection holds its
\* agent's slot and takes its channels along, or nothing changes at all.
LEMMA FinishCases ==
    ASSUME BrokerInv, NEW c \in Conns, Finish(c)
    PROVE  \/ /\ owner[c] \in Agents
              /\ connections[owner[c]] = c
              /\ connections' = [connections EXCEPT ![owner[c]] = NoConn]
              /\ active' = [active EXCEPT ![owner[c]] = NoConn]
              /\ FeedEofToAll(c)
              /\ UNCHANGED <<open, retired, adapters, attempt, closing>>
           \/ /\ \A a \in Agents : connections[a] # c
              /\ UNCHANGED <<registryVars, channelVars>>
<1> USE ConstantFacts DEF registryVars, channelVars
<1>1. CASE owner[c] = NoAgent
  BY <1>1 DEF Finish, BrokerInv, TypeOK, RegistryAgrees
<1>2. CASE owner[c] # NoAgent /\ connections[owner[c]] = c
  BY <1>2 DEF Finish, DropConnection, RegistryDisconnect, BrokerInv, TypeOK, RegistryAgrees
<1>3. CASE owner[c] # NoAgent /\ connections[owner[c]] # c
  <2>1. owner[c] \in Agents /\ active[owner[c]] # c
    BY <1>3 DEF BrokerInv, TypeOK, RegistryAgrees
  <2>2. \A a \in Agents : connections[a] # c
    BY <1>3 DEF BrokerInv, RegistryAgrees
  <2>3. connections[owner[c]] = NoConn
        => [connections EXCEPT ![owner[c]] = NoConn] = connections
    BY <2>1 DEF BrokerInv, TypeOK
  <2>4. UNCHANGED <<registryVars, channelVars>>
    BY <1>3, <2>1, <2>3 DEF Finish, DropConnection, RegistryDisconnect
  <2>5. QED
    BY <2>2, <2>4
<1>4. QED
  BY <1>1, <1>2, <1>3

\* A handler that returns keeps the invariant.
LEMMA FinishKeeps ==
    ASSUME BrokerInv, TypeOK', NEW c \in Conns, Finish(c),
           UNCHANGED <<owner, claim>>
    PROVE  BrokerInv'
<1>1. /\ phase'[c] = "done"
      /\ pending'[c] = NoFrame
      /\ \A d \in Conns : d # c => phase'[d] = phase[d] /\ pending'[d] = pending[d]
  BY DEF Finish, BrokerInv, TypeOK
<1>2. AgentKnown'
  BY <1>1 DEF BrokerInv, AgentKnown, Serving
<1>3. CASE /\ \A a \in Agents : connections[a] # c
           /\ UNCHANGED <<registryVars, channelVars>>
  <2> USE <1>3 DEF registryVars, channelVars, BrokerInv
  <2>1. RegistryAgrees'
    BY <1>1 DEF RegistryAgrees, TypeOK
  <2>2. ServingIsRegistered'
    BY <1>1 DEF ServingIsRegistered, Serving
  <2>3. ChannelSets'
    BY <1>1 DEF ChannelSets
  <2>4. ChannelHome' /\ RoutesExact' /\ AttemptNone' /\ CloseReason' /\ NoOrphanStream'
    BY DEF ChannelHome, RoutesExact, AttemptNone, CloseReason, NoOrphanStream
  <2>5. QED
    BY <1>2, <2>1, <2>2, <2>3, <2>4
<1>4. CASE /\ owner[c] \in Agents
           /\ connections[owner[c]] = c
           /\ connections' = [connections EXCEPT ![owner[c]] = NoConn]
           /\ active' = [active EXCEPT ![owner[c]] = NoConn]
           /\ FeedEofToAll(c)
           /\ UNCHANGED <<open, retired, adapters, attempt, closing>>
  <2>0. /\ connections'[owner[c]] = NoConn /\ active'[owner[c]] = NoConn
        /\ \A a \in Agents : a # owner[c] => /\ connections'[a] = connections[a]
                                             /\ active'[a] = active[a]
                                             /\ connections[a] # c
    <3>1. \A a \in Agents : a # owner[c] => connections[a] # c
      BY ConstantFacts DEF BrokerInv, RegistryAgrees
    <3>2. QED
      BY <1>4, <3>1 DEF BrokerInv, TypeOK
  <2>1. RegistryAgrees'
    BY <1>1, <2>0, ConstantFacts DEF BrokerInv, RegistryAgrees, TypeOK
  <2>2. ServingIsRegistered'
    <3> SUFFICES ASSUME NEW d \in Conns, phase'[d] \in Serving
                 PROVE  connections'[owner[d]] = d
      BY DEF ServingIsRegistered
    <3>1. d # c /\ phase[d] \in Serving
      BY <1>1 DEF Serving
    <3>2. owner[d] \in Agents /\ connections[owner[d]] = d
      BY <3>1 DEF BrokerInv, ServingIsRegistered, AgentKnown
    <3>3. QED
      BY <1>4, <2>0, <3>1, <3>2
  <2>3. ChannelSets'
    BY <1>1, <1>4 DEF BrokerInv, ChannelSets
  <2>4. \A ch \in Channels :
           /\ stream'[ch] = IF ch \in open[c] THEN "closed" ELSE stream[ch]
           /\ channelAgents'[ch] = IF ch \in open[c] THEN NoAgent ELSE channelAgents[ch]
    BY <1>4 DEF FeedEofToAll, BrokerInv, ChannelSets
  <2>5. ChannelHome'
    BY <1>4, <2>4 DEF BrokerInv, ChannelHome, TypeOK
  <2>6. RoutesExact'
    BY <1>4, <2>0, <2>4, ConstantFacts DEF BrokerInv, RoutesExact, ChannelHome, TypeOK
  <2>7. CloseReason' /\ AttemptNone'
    BY <1>4, <2>4 DEF BrokerInv, CloseReason, AttemptNone, TypeOK, CloseCalls
  <2>8. NoOrphanStream'
    BY <1>4, <2>4 DEF BrokerInv, NoOrphanStream
  <2>9. QED
    BY <1>2, <2>1, <2>2, <2>3, <2>5, <2>6, <2>7, <2>8 DEF BrokerInv
<1>5. QED
  BY <1>3, <1>4, FinishCases

\* The broker starts in the invariant.
LEMMA InitInv == Init => BrokerInv
<1> SUFFICES ASSUME Init PROVE BrokerInv
    OBVIOUS
<1>1. TypeOK
  BY InitType
<1>2. /\ RegistryAgrees /\ ServingIsRegistered /\ AgentKnown /\ ChannelSets
      /\ ChannelHome /\ RoutesExact /\ AttemptNone /\ CloseReason /\ NoOrphanStream
  BY ConstantFacts DEF Init, RegistryAgrees, ServingIsRegistered, AgentKnown, ChannelSets,
     ChannelHome, RoutesExact, AttemptNone, CloseReason, NoOrphanStream, Serving
<1>3. QED
  BY <1>1, <1>2 DEF BrokerInv

\* The steps of a handler before it is registered and between two frames
\* touch no table of the broker: the invariant only sees the phase move.
LEMMA QuietHandlerKeeps ==
    ASSUME BrokerInv, TypeOK', NEW c \in Conns,
           UNCHANGED <<registryVars, channelVars>>,
           \/ Accept(c) \/ ReadBadAuth(c) \/ RejectAuth(c) \/ SendAuthOk(c)
           \/ ReceiveMalformed(c) \/ (\E a \in Agents : ReadAuth(c, a))
           \/ Authenticate(c) \/ (\E f \in Frames : ReceiveFrame(c, f))
    PROVE  BrokerInv'
<1> USE DEF registryVars, channelVars, Serving
<1>1. \A d \in Conns : d # c => /\ phase'[d] = phase[d]
                                /\ owner'[d] = owner[d]
                                /\ claim'[d] = claim[d]
                                /\ pending'[d] = pending[d]
  BY DEF BrokerInv, TypeOK, Accept, ReadBadAuth, RejectAuth, SendAuthOk, ReceiveMalformed,
         ReadAuth, Authenticate, ReceiveFrame
<1>2. \/ /\ phase[c] \in {"idle", "hello", "auth"}
         /\ phase'[c] \in {"hello", "auth", "touch", "error"}
      \/ /\ phase[c] \in Serving
         /\ phase'[c] \in Serving \cup {"error"}
         /\ owner'[c] = owner[c]
  BY DEF BrokerInv, TypeOK, Accept, ReadBadAuth, RejectAuth, SendAuthOk, ReceiveMalformed,
         ReadAuth, Authenticate, ReceiveFrame
<1>3. RegistryAgrees'
  BY <1>1, <1>2 DEF BrokerInv, RegistryAgrees, TypeOK
<1>4. ServingIsRegistered'
  BY <1>1, <1>2 DEF BrokerInv, ServingIsRegistered
<1>5. AgentKnown'
  <2>1. /\ phase'[c] = "auth" => claim'[c] \in Agents
        /\ phase'[c] \in Serving \cup {"touch"} => owner'[c] \in Agents
        /\ phase'[c] = "handle" => pending'[c] \in Frames
    BY DEF BrokerInv, TypeOK, AgentKnown, Accept, ReadBadAuth, RejectAuth, SendAuthOk,
           ReceiveMalformed, ReadAuth, Authenticate, ReceiveFrame
  <2>2. QED
    BY <1>1, <2>1 DEF BrokerInv, AgentKnown
<1>6. ChannelSets'
  BY <1>1, <1>2 DEF BrokerInv, ChannelSets
<1>7. ChannelHome' /\ RoutesExact' /\ AttemptNone' /\ CloseReason' /\ NoOrphanStream'
  BY DEF BrokerInv, ChannelHome, RoutesExact, AttemptNone, CloseReason, NoOrphanStream
<1>8. QED
  BY <1>3, <1>4, <1>5, <1>6, <1>7 DEF BrokerInv

\* registry.connect and the write of _connections, or the rejection.
LEMMA RegisterKeeps ==
    ASSUME BrokerInv, TypeOK', NEW c \in Conns, Register(c)
    PROVE  BrokerInv'
<1> USE ConstantFacts DEF registryVars, channelVars, Serving
<1>1. /\ phase[c] = "touch" /\ owner[c] \in Agents /\ open[c] = {}
      /\ \A a \in Agents : connections[a] # c
  BY DEF Register, BrokerInv, AgentKnown, ChannelSets, RegistryAgrees
<1>2. /\ UNCHANGED <<owner, claim, pending, channelVars>>
      /\ \A d \in Conns : d # c => phase'[d] = phase[d]
      /\ phase'[c] \in {"ack", "error"}
  BY DEF Register, BrokerInv, TypeOK
<1>3. AgentKnown' /\ ChannelSets'
  BY <1>1, <1>2 DEF BrokerInv, AgentKnown, ChannelSets
<1>4. ChannelHome' /\ AttemptNone' /\ CloseReason' /\ NoOrphanStream'
  BY <1>2 DEF BrokerInv, ChannelHome, AttemptNone, CloseReason, NoOrphanStream
<1>5. CASE MayConnect(owner[c], c)
  <2>1. /\ connections[owner[c]] = NoConn /\ connections'[owner[c]] = c
        /\ active'[owner[c]] = c /\ phase'[c] = "ack"
        /\ \A a \in Agents : a # owner[c] => /\ connections'[a] = connections[a]
                                             /\ active'[a] = active[a]
    BY <1>1, <1>5 DEF Register, MayConnect, BrokerInv, TypeOK, RegistryAgrees
  <2>2. RegistryAgrees'
    BY <1>1, <1>2, <2>1 DEF BrokerInv, RegistryAgrees, TypeOK
  <2>3. ServingIsRegistered'
    BY <1>1, <1>2, <2>1 DEF BrokerInv, ServingIsRegistered, AgentKnown
  <2>4. RoutesExact'
    BY <1>1, <1>2, <2>1 DEF BrokerInv, RoutesExact, TypeOK
  <2>5. QED
    BY <1>3, <1>4, <2>2, <2>3, <2>4 DEF BrokerInv
<1>6. CASE ~MayConnect(owner[c], c)
  <2>1. phase'[c] = "error" /\ UNCHANGED registryVars
    BY <1>6 DEF Register, BrokerInv, TypeOK
  <2>2. RegistryAgrees' /\ ServingIsRegistered' /\ RoutesExact'
    BY <1>1, <1>2, <2>1 DEF BrokerInv, RegistryAgrees, ServingIsRegistered, RoutesExact, TypeOK
  <2>3. QED
    BY <1>3, <1>4, <2>2 DEF BrokerInv
<1>7. QED
  BY <1>5, <1>6

\* The dispatch of a frame: nothing, a retired channel with its stream
\* closed, or a handler on its way out.
LEMMA HandleFrameKeeps ==
    ASSUME BrokerInv, TypeOK', NEW c \in Conns, HandleFrame(c)
    PROVE  BrokerInv'
<1> USE DEF registryVars, channelVars, Serving
<1>1. /\ UNCHANGED <<owner, claim, registryVars>>
      /\ \A d \in Conns : d # c => phase'[d] = phase[d] /\ pending'[d] = pending[d]
      /\ phase[c] = "handle" /\ phase'[c] \in {"read", "error"}
  BY DEF HandleFrame, BrokerInv, TypeOK
<1>2. RegistryAgrees' /\ ServingIsRegistered' /\ AgentKnown'
  <2>1. RegistryAgrees'
    BY <1>1 DEF BrokerInv, RegistryAgrees, TypeOK
  <2>2. ServingIsRegistered'
    BY <1>1 DEF BrokerInv, ServingIsRegistered
  <2>3. AgentKnown'
    BY <1>1 DEF BrokerInv, AgentKnown
  <2>4. QED
    BY <2>1, <2>2, <2>3
<1>3. CASE UNCHANGED channelVars
  BY <1>1, <1>2, <1>3 DEF BrokerInv, ChannelSets, ChannelHome, RoutesExact, AttemptNone, CloseReason,
                          NoOrphanStream
<1>4. CASE ~UNCHANGED channelVars
  <2> DEFINE ch == pending[c].channel
  <2>1. /\ ch \in open[c]
        /\ RetireChannel(c, ch)
        /\ stream' = [stream EXCEPT ![ch] = "closed"]
        /\ UNCHANGED <<attempt, closing>>
    BY <1>4 DEF HandleFrame, AcceptFrame
  <2>2. ch \in Channels
    BY <2>1 DEF BrokerInv, TypeOK
  <2> HIDE DEF ch
  <2>3. /\ RoutesExact'
        /\ \A d \in Conns : /\ adapters'[d] = open'[d]
                            /\ open'[d] \cap retired'[d] = {}
                            /\ open'[d] \subseteq open[d]
                            /\ open'[d] \cup retired'[d] = open[d] \cup retired[d]
        /\ \A x \in Channels : x # ch => channelAgents'[x] = channelAgents[x]
    BY <1>1, <2>1, RetireKeeps DEF BrokerInv
  <2>4. \A x \in Channels : stream'[x] = IF x = ch THEN "closed" ELSE stream[x]
    BY <2>1, <2>2 DEF BrokerInv, TypeOK
  <2>5. ChannelSets'
    BY <1>1, <2>3 DEF BrokerInv, ChannelSets
  <2>6. ChannelHome'
    BY <2>3, <2>4 DEF BrokerInv, ChannelHome, TypeOK
  <2>7. CloseReason' /\ AttemptNone' /\ NoOrphanStream'
    BY <2>1, <2>3, <2>4 DEF BrokerInv, CloseReason, AttemptNone, NoOrphanStream, TypeOK, CloseCalls
  <2>8. QED
    BY <1>2, <2>3, <2>5, <2>6, <2>7 DEF BrokerInv
<1>5. QED
  BY <1>3, <1>4

\* A new session lands on the connection of its agent and nowhere else.
LEMMA OpenSessionKeeps ==
    ASSUME BrokerInv, TypeOK', NEW a \in Agents, NEW ch \in Channels, OpenSession(a, ch)
    PROVE  BrokerInv'
<1> USE ConstantFacts DEF registryVars, handlerVars, Serving
<1>0. PICK c \in Conns : c = connections[a]
  BY DEF OpenSession, BrokerInv, TypeOK
<1>1. stream[ch] = "none" /\ ch \notin open[c] /\ owner[c] = a
      /\ phase[c] \in Serving \cup {"error"}
  BY <1>0 DEF OpenSession, MayOpen, BrokerInv, RegistryAgrees
<1>2. /\ \A d \in Conns, x \in Channels :
            /\ x \in open'[d] <=> x \in open[d] \/ (d = c /\ x = ch)
            /\ x \in adapters'[d] <=> x \in adapters[d] \/ (d = c /\ x = ch)
      /\ \A x \in Channels : x # ch => /\ channelAgents'[x] = channelAgents[x]
                                       /\ stream'[x] = stream[x]
                                       /\ attempt'[x] = attempt[x]
      /\ channelAgents'[ch] = a /\ stream'[ch] = "live"
      /\ UNCHANGED <<retired, closing, handlerVars, registryVars>>
  <2>1. /\ open' = [open EXCEPT ![c] = @ \cup {ch}]
        /\ adapters' = [adapters EXCEPT ![c] = @ \cup {ch}]
        /\ channelAgents' = [channelAgents EXCEPT ![ch] = a]
        /\ stream' = [stream EXCEPT ![ch] = "live"]
        /\ attempt' = [attempt EXCEPT ![ch] = "connecting"]
        /\ UNCHANGED <<retired, closing, handlerVars, registryVars>>
    BY <1>0 DEF OpenSession
  <2>2. QED
    BY <2>1 DEF BrokerInv, TypeOK
<1>3. \A d \in Conns : ch \notin open[d] /\ ch \notin retired[d]
  BY <1>1 DEF BrokerInv, ChannelHome
<1>4. RegistryAgrees' /\ ServingIsRegistered' /\ AgentKnown'
  BY <1>2 DEF BrokerInv, RegistryAgrees, ServingIsRegistered, AgentKnown
<1>5. ChannelSets'
  <2>1. /\ \A d \in Conns : open'[d] = IF d = c THEN open[d] \cup {ch} ELSE open[d]
        /\ \A d \in Conns : adapters'[d] = IF d = c THEN adapters[d] \cup {ch} ELSE adapters[d]
    <3>1. /\ open' = [open EXCEPT ![c] = @ \cup {ch}]
          /\ adapters' = [adapters EXCEPT ![c] = @ \cup {ch}]
      BY <1>0 DEF OpenSession
    <3>2. QED
      BY <3>1 DEF BrokerInv, TypeOK
  <2>2. UNCHANGED <<phase, retired>>
    BY <1>2
  <2>3. QED
    BY <1>1, <1>3, <2>1, <2>2 DEF BrokerInv, ChannelSets
<1>6. ChannelHome'
  BY <1>1, <1>2, <1>3 DEF BrokerInv, ChannelHome, TypeOK
<1>7. RoutesExact'
  <2> SUFFICES ASSUME NEW b \in Agents, NEW x \in Channels
               PROVE  channelAgents'[x] = b
                      <=> connections[b] # NoConn /\ x \in open'[connections[b]]
    BY <1>2 DEF RoutesExact
  <2>1. connections[b] # NoConn => connections[b] \in Conns
    BY DEF BrokerInv, TypeOK
  <2>2. b # a /\ connections[b] # NoConn => connections[b] # c
    BY <1>1 DEF BrokerInv, RegistryAgrees
  <2>3. CASE x = ch
    BY <1>0, <1>2, <1>3, <2>1, <2>2, <2>3
  <2>4. CASE x # ch
    BY <1>2, <2>1, <2>4 DEF BrokerInv, RoutesExact
  <2>5. QED
    BY <2>3, <2>4
<1>8. CloseReason'
  <2> SUFFICES ASSUME NEW k \in closing
               PROVE  /\ k.by = "stream" => stream'[k.channel] = "closed"
                      /\ k.by = "opener" => attempt'[k.channel] = "failed"
    BY <1>2 DEF CloseReason
  <2>1. k.channel \in Channels /\ k.by \in Callers
    BY DEF BrokerInv, TypeOK, CloseCalls
  <2>2. CASE k.by = "stream"
    BY <1>1, <1>2, <2>1, <2>2 DEF BrokerInv, CloseReason
  <2>3. CASE k.by = "opener"
    <3>1. attempt[k.channel] = "failed"
      BY <2>3 DEF BrokerInv, CloseReason
    <3>2. k.channel # ch
      BY <1>1, <3>1 DEF BrokerInv, AttemptNone
    <3>3. QED
      BY <1>2, <2>1, <2>3, <3>1, <3>2
  <2>4. QED
    BY <2>2, <2>3
<1>9. NoOrphanStream' /\ AttemptNone'
  BY <1>2 DEF BrokerInv, NoOrphanStream, AttemptNone
<1>10. QED
  BY <1>4, <1>5, <1>6, <1>7, <1>8, <1>9 DEF BrokerInv

\* The two heads of close_session only register the call, with its reason.
LEMMA BeginCloseKeeps ==
    ASSUME BrokerInv, TypeOK', NEW ch \in Channels, StreamClose(ch) \/ ConnectFails(ch)
    PROVE  BrokerInv'
<1> USE DEF registryVars, handlerVars, Serving
<1>1. UNCHANGED <<channelAgents, open, retired, adapters, handlerVars, registryVars>>
  BY DEF StreamClose, ConnectFails
<1>2. RegistryAgrees' /\ ServingIsRegistered' /\ AgentKnown' /\ ChannelSets' /\ RoutesExact'
  BY <1>1 DEF BrokerInv, RegistryAgrees, ServingIsRegistered, AgentKnown, ChannelSets, RoutesExact
<1>3. /\ \A x \in Channels : x # ch => stream'[x] = stream[x] /\ attempt'[x] = attempt[x]
      /\ \/ stream[ch] = "live" /\ stream'[ch] = "closed" /\ attempt'[ch] = attempt[ch]
         \/ attempt[ch] = "connecting" /\ attempt'[ch] = "failed" /\ stream'[ch] = stream[ch]
  BY DEF StreamClose, ConnectFails, BrokerInv, TypeOK
<1>4. ChannelHome'
  BY <1>1, <1>3 DEF BrokerInv, ChannelHome, TypeOK
<1>5. AttemptNone' /\ NoOrphanStream'
  BY <1>1, <1>3 DEF BrokerInv, AttemptNone, NoOrphanStream
<1>6. CloseReason'
  <2> SUFFICES ASSUME NEW k \in closing'
               PROVE  /\ k.by = "stream" => stream'[k.channel] = "closed"
                      /\ k.by = "opener" => attempt'[k.channel] = "failed"
    BY DEF CloseReason
  <2>1. k.channel \in Channels
    BY DEF TypeOK, CloseCalls
  <2>2. CASE k \in closing
    <3>1. /\ k.by = "stream" => stream[k.channel] = "closed"
          /\ k.by = "opener" => attempt[k.channel] = "failed"
      BY <2>2 DEF BrokerInv, CloseReason
    <3>2. QED
      BY <1>3, <2>1, <3>1
  <2>3. CASE k \notin closing
    <3>1. CASE StreamClose(ch)
      <4>1. k.by = "stream" /\ k.channel = ch
        BY <2>3, <3>1 DEF StreamClose, BeginClose
      <4>2. QED
        BY <3>1, <4>1 DEF StreamClose, BrokerInv, TypeOK
    <3>2. CASE ConnectFails(ch)
      <4>1. k.by = "opener" /\ k.channel = ch
        BY <2>3, <3>2 DEF ConnectFails, BeginClose
      <4>2. QED
        BY <3>2, <4>1 DEF ConnectFails, BrokerInv, TypeOK
    <3>3. QED
      BY <3>1, <3>2
  <2>4. QED
    BY <2>2, <2>3
<1>7. QED
  BY <1>2, <1>4, <1>5, <1>6 DEF BrokerInv

\* The end of close_session: it retires the channel on the connection that it
\* found before the await, which may have been dropped since.
LEMMA EndCloseKeeps ==
    ASSUME BrokerInv, TypeOK', NEW k \in closing, EndClose(k) \/ CloseFails(k)
    PROVE  BrokerInv'
<1> USE DEF registryVars, handlerVars, Serving
<1>1. /\ closing' \subseteq closing
      /\ UNCHANGED <<stream, attempt, handlerVars, registryVars>>
  BY DEF EndClose, CloseFails
<1>2. k.channel \in Channels /\ k.conn \in Conns /\ k.by \in Callers
  BY DEF BrokerInv, TypeOK, CloseCalls
<1>3. RegistryAgrees' /\ ServingIsRegistered' /\ AgentKnown' /\ AttemptNone' /\ CloseReason'
  BY <1>1 DEF BrokerInv, RegistryAgrees, ServingIsRegistered, AgentKnown, AttemptNone, CloseReason
<1>4. CASE UNCHANGED <<open, retired, adapters, channelAgents>>
  <2>1. ChannelSets' /\ ChannelHome' /\ RoutesExact' /\ NoOrphanStream'
    BY <1>1, <1>4 DEF BrokerInv, ChannelSets, ChannelHome, RoutesExact, NoOrphanStream
  <2>2. QED
    BY <1>3, <2>1 DEF BrokerInv
<1>5. CASE k.channel \in open[k.conn] /\ RetireChannel(k.conn, k.channel)
  <2>1. PICK c \in Conns : c = k.conn
    BY <1>2
  <2>2. PICK ch \in Channels : ch = k.channel
    BY <1>2
  <2>3. /\ RoutesExact'
        /\ \A d \in Conns : /\ adapters'[d] = open'[d]
                            /\ open'[d] \cap retired'[d] = {}
                            /\ open'[d] \subseteq open[d]
                            /\ open'[d] \cup retired'[d] = open[d] \cup retired[d]
        /\ \A x \in Channels : x # ch => channelAgents'[x] = channelAgents[x]
    BY <1>1, <1>5, <2>1, <2>2, RetireKeeps DEF BrokerInv
  <2>4. ChannelSets'
    BY <1>1, <2>3 DEF BrokerInv, ChannelSets
  <2>5. ChannelHome'
    BY <1>1, <2>3 DEF BrokerInv, ChannelHome, TypeOK
  <2>6. stream[ch] = "closed" \/ attempt[ch] = "failed"
    BY <1>2, <2>2 DEF BrokerInv, CloseReason, Callers
  <2>7. NoOrphanStream'
    BY <1>1, <2>3, <2>6 DEF BrokerInv, NoOrphanStream
  <2>8. QED
    BY <1>3, <2>3, <2>4, <2>5, <2>7 DEF BrokerInv
<1>6. QED
  BY <1>4, <1>5 DEF EndClose, CloseFails

\* The invariant survives every step.
LEMMA NextInv == BrokerInv /\ [Next]_vars => BrokerInv'
<1> SUFFICES ASSUME BrokerInv, [Next]_vars PROVE BrokerInv'
    OBVIOUS
<1>1. TypeOK'
  BY NextType DEF BrokerInv
<1>2. ASSUME NEW c \in Conns, Handler(c) PROVE BrokerInv'
  <2>1. CASE AuthTimeout(c) \/ ErrorSent(c) \/ ConnectionLost(c) \/ DatabaseFails(c)
    <3>1. Finish(c) /\ UNCHANGED <<owner, claim>>
      BY <2>1 DEF AuthTimeout, ErrorSent, ConnectionLost, DatabaseFails
    <3>2. QED
      BY <1>1, <3>1, FinishKeeps
  <2>2. CASE Register(c)
    BY <1>1, <2>2, RegisterKeeps
  <2>3. CASE HandleFrame(c)
    BY <1>1, <2>3, HandleFrameKeeps
  <2>4. CASE \/ Accept(c) \/ ReadBadAuth(c) \/ RejectAuth(c) \/ SendAuthOk(c)
             \/ ReceiveMalformed(c) \/ (\E a \in Agents : ReadAuth(c, a))
             \/ Authenticate(c) \/ (\E f \in Frames : ReceiveFrame(c, f))
    <3>1. UNCHANGED <<registryVars, channelVars>>
      BY <2>4 DEF Accept, ReadBadAuth, RejectAuth, SendAuthOk, ReceiveMalformed,
                  ReadAuth, Authenticate, ReceiveFrame
    <3>2. QED
      BY <1>1, <2>4, <3>1, QuietHandlerKeeps
  <2>5. QED
    BY <1>2, <2>1, <2>2, <2>3, <2>4 DEF Handler
<1>3. ASSUME Calls PROVE BrokerInv'
  <2>1. ASSUME NEW a \in Agents, NEW ch \in Channels, OpenSession(a, ch) PROVE BrokerInv'
    BY <1>1, <2>1, OpenSessionKeeps
  <2>2. ASSUME NEW ch \in Channels, StreamClose(ch) \/ ConnectFails(ch) PROVE BrokerInv'
    BY <1>1, <2>2, BeginCloseKeeps
  <2>3. ASSUME NEW ch \in Channels, ConnectSucceeds(ch) PROVE BrokerInv'
    <3>1. /\ UNCHANGED <<channelAgents, open, retired, adapters, stream, closing,
                         handlerVars, registryVars>>
          /\ attempt[ch] = "connecting"
          /\ \A x \in Channels : x # ch => attempt'[x] = attempt[x]
      BY <2>3 DEF ConnectSucceeds, BrokerInv, TypeOK
    <3>2. AttemptNone' /\ NoOrphanStream' /\ CloseReason'
      BY <3>1 DEF BrokerInv, AttemptNone, NoOrphanStream, CloseReason, TypeOK, CloseCalls
    <3>3. RegistryAgrees' /\ ServingIsRegistered' /\ AgentKnown' /\ ChannelSets'
          /\ ChannelHome' /\ RoutesExact'
      BY <3>1 DEF BrokerInv, RegistryAgrees, ServingIsRegistered, AgentKnown, ChannelSets,
                  ChannelHome, RoutesExact, handlerVars, registryVars
    <3>4. QED
      BY <1>1, <3>2, <3>3 DEF BrokerInv
  <2>4. ASSUME NEW k \in closing, EndClose(k) \/ CloseFails(k) PROVE BrokerInv'
    BY <1>1, <2>4, EndCloseKeeps
  <2>5. QED
    BY <1>3, <2>1, <2>2, <2>3, <2>4 DEF Calls
<1>4. CASE Environment \/ UNCHANGED vars
  <2>1. UNCHANGED <<phase, owner, claim, pending, registryVars, channelVars>>
    BY <1>4 DEF Environment, LoseTransport, Revoke, Tick, vars, handlerVars
  <2>2. RegistryAgrees' /\ ServingIsRegistered' /\ AgentKnown' /\ ChannelSets'
        /\ ChannelHome' /\ RoutesExact' /\ AttemptNone' /\ NoOrphanStream' /\ CloseReason'
    BY <2>1 DEF BrokerInv, RegistryAgrees, ServingIsRegistered, AgentKnown, ChannelSets,
       ChannelHome, RoutesExact, AttemptNone, NoOrphanStream, CloseReason,
       registryVars, channelVars
  <2>3. QED
    BY <1>1, <2>2 DEF BrokerInv
<1>5. QED
  BY <1>2, <1>3, <1>4 DEF Next

-----------------------------------------------------------------------------
\* BrokerInv holds throughout every run of handle_stream, open_session and
\* close_session, for any number of agents, connections and sessions.
THEOREM BrokerInvariant == Spec => []BrokerInv
<1>1. Init => BrokerInv
  BY InitInv
<1>2. BrokerInv /\ [Next]_vars => BrokerInv'
  BY NextInv
<1>3. QED
  BY <1>1, <1>2, PTL DEF Spec

\* Every table of the broker always has its type.
THEOREM TypeCorrect == Spec => []TypeOK
<1>1. BrokerInv => TypeOK
  BY DEF BrokerInv
<1>2. QED
  BY <1>1, BrokerInvariant, PTL

\* The registry and the connection table agree, and no agent is ever served
\* by two tunnels at once.
THEOREM OneTunnel == Spec => [](RegistryAgrees /\ ServingIsRegistered)
<1>1. BrokerInv => RegistryAgrees /\ ServingIsRegistered
  BY DEF BrokerInv
<1>2. QED
  BY <1>1, BrokerInvariant, PTL

\* send_data, resize_pty and close_session never raise KeyError: every routing
\* entry leads to a connected tunnel with that adapter.
THEOREM RoutesAlwaysLead == Spec => []RoutesLead
<1>1. BrokerInv => RoutesLead
  <2> SUFFICES ASSUME BrokerInv, NEW ch \in Channels, channelAgents[ch] # NoAgent
               PROVE  LET c == connections[channelAgents[ch]] IN
                      c # NoConn /\ ch \in adapters[c] /\ ch \in open[c]
    BY DEF RoutesLead
  <2>1. channelAgents[ch] \in Agents
    BY DEF BrokerInv, TypeOK
  <2>2. /\ connections[channelAgents[ch]] # NoConn
        /\ ch \in open[connections[channelAgents[ch]]]
    BY <2>1 DEF BrokerInv, RoutesExact
  <2>3. connections[channelAgents[ch]] \in Conns
    BY <2>1, <2>2 DEF BrokerInv, TypeOK
  <2>4. QED
    BY <2>2, <2>3 DEF BrokerInv, ChannelSets
<1>2. QED
  BY <1>1, BrokerInvariant, PTL

\* No brokered stream is left open and unreachable by a dropped tunnel.
THEOREM NoStreamOrphaned == Spec => []NoOrphanStream
<1>1. BrokerInv => NoOrphanStream
  BY DEF BrokerInv
<1>2. QED
  BY <1>1, BrokerInvariant, PTL

\* A handler that returns without the slot of its agent changes nothing for
\* the tunnel that has it.
THEOREM IntruderIsHarmless == Spec => IntruderHarmless
<1>1. ASSUME BrokerInv, [Next]_vars,
             NEW c \in Conns, phase[c] # "done", phase'[c] = "done",
             \A a \in Agents : connections[a] # c
      PROVE  UNCHANGED <<registryVars, channelAgents, stream>>
  <2>1. ASSUME NEW d \in Conns, Handler(d)
        PROVE  Finish(c)
    <3>1. CASE \/ Accept(d) \/ ReadBadAuth(d) \/ RejectAuth(d) \/ SendAuthOk(d)
               \/ ReceiveMalformed(d) \/ (\E a \in Agents : ReadAuth(d, a))
               \/ Authenticate(d) \/ (\E f \in Frames : ReceiveFrame(d, f))
               \/ Register(d) \/ HandleFrame(d)
      <4>1. \E p \in Phases \ {"done"} : phase' = [phase EXCEPT ![d] = p]
        BY <3>1 DEF Accept, ReadBadAuth, RejectAuth, SendAuthOk, ReceiveMalformed,
                    ReadAuth, Authenticate, ReceiveFrame, Register, HandleFrame, Phases
      <4>2. QED
        BY <1>1, <4>1 DEF BrokerInv, TypeOK
    <3>2. CASE AuthTimeout(d) \/ ErrorSent(d) \/ ConnectionLost(d) \/ DatabaseFails(d)
      <4>1. Finish(d)
        BY <3>2 DEF AuthTimeout, ErrorSent, ConnectionLost, DatabaseFails
      <4>2. d = c
        BY <1>1, <4>1 DEF Finish, BrokerInv, TypeOK
      <4>3. QED
        BY <4>1, <4>2
    <3>3. QED
      BY <2>1, <3>1, <3>2 DEF Handler
  <2>2. ~(\E d \in Conns : Handler(d)) => UNCHANGED phase
    BY <1>1 DEF Next, Calls, OpenSession, StreamClose, ConnectFails, ConnectSucceeds,
       EndClose, CloseFails, Environment, LoseTransport, Revoke, Tick, vars, handlerVars
  <2>3. Finish(c)
    BY <1>1, <2>1, <2>2
  <2>4. QED
    BY <1>1, <2>3, FinishCases, ConstantFacts DEF channelVars, BrokerInv, TypeOK
<1>2. BrokerInv /\ [Next]_vars =>
      [\A c \in Conns :
          (/\ phase[c] # "done" /\ phase'[c] = "done"
           /\ \A a \in Agents : connections[a] # c)
          => UNCHANGED <<registryVars, channelAgents, stream>>]_vars
  BY <1>1
<1>3. QED
  BY <1>2, BrokerInvariant, PTL DEF Spec, IntruderHarmless

\* A session is only opened on a tunnel that was heard from less than two heartbeat intervals
\* ago, for any interval and any number of agents: open_session is the one step that begins a
\* stream, and its allows_new_jump looks at the clock of the connection that gets the channel.
THEOREM StaleNeverServes == Spec => StaleFailsClosed
<1>1. ASSUME BrokerInv, [Next]_vars,
             NEW ch \in Channels, stream[ch] = "none", stream'[ch] # "none"
      PROVE  \E c \in Conns : /\ ch \in open'[c]
                              /\ phase[c] \in Serving \cup {"error"}
                              /\ now - lastSeen[c] < 2 * HeartbeatSeconds
  <2>1. \A c \in Conns : ch \notin open[c] /\ ch \notin adapters[c]
    BY <1>1 DEF BrokerInv, ChannelHome, ChannelSets
  <2>2. ASSUME NEW c \in Conns, Handler(c)
        PROVE  FALSE
    <3>1. CASE HandleFrame(c)
      <4>1. UNCHANGED stream \/ \E x \in open[c] : stream' = [stream EXCEPT ![x] = "closed"]
        BY <3>1 DEF HandleFrame, AcceptFrame, channelVars
      <4>2. QED
        BY <1>1, <2>1, <4>1 DEF BrokerInv, TypeOK
    <3>2. CASE AuthTimeout(c) \/ ErrorSent(c) \/ ConnectionLost(c) \/ DatabaseFails(c)
      <4>1. Finish(c)
        BY <3>2 DEF AuthTimeout, ErrorSent, ConnectionLost, DatabaseFails
      <4>2. FeedEofToAll(c) \/ UNCHANGED stream
        BY <1>1, <4>1, FinishCases DEF channelVars
      <4>3. QED
        BY <1>1, <2>1, <4>2 DEF FeedEofToAll
    <3>3. CASE \/ Accept(c) \/ ReadBadAuth(c) \/ RejectAuth(c) \/ SendAuthOk(c)
               \/ ReceiveMalformed(c) \/ (\E a \in Agents : ReadAuth(c, a))
               \/ Authenticate(c) \/ (\E f \in Frames : ReceiveFrame(c, f)) \/ Register(c)
      <4>1. UNCHANGED stream
        BY <3>3 DEF Accept, ReadBadAuth, RejectAuth, SendAuthOk, ReceiveMalformed, ReadAuth,
                    Authenticate, ReceiveFrame, Register, channelVars
      <4>2. QED
        BY <1>1, <4>1
    <3>4. QED
      BY <2>2, <3>1, <3>2, <3>3 DEF Handler
  <2>3. ASSUME NEW x \in Channels, StreamClose(x) PROVE FALSE
    BY <1>1, <2>3 DEF StreamClose, BrokerInv, TypeOK
  <2>4. ASSUME UNCHANGED stream PROVE FALSE
    BY <1>1, <2>4
  <2>5. PICK a \in Agents, x \in Channels : OpenSession(a, x)
    BY <1>1, <2>2, <2>3, <2>4
       DEF Next, Calls, ConnectFails, ConnectSucceeds, EndClose, CloseFails, Environment,
           LoseTransport, Revoke, Tick, vars, channelVars
  <2>6. x = ch
    BY <1>1, <2>5 DEF OpenSession, BrokerInv, TypeOK
  <2> DEFINE c == connections[a]
  <2>7. c \in Conns /\ phase[c] \in Serving \cup {"error"}
    BY <1>1, <2>5 DEF OpenSession, BrokerInv, TypeOK, RegistryAgrees
  <2>8. ch \in open'[c]
    BY <1>1, <2>5, <2>6, <2>7 DEF OpenSession, BrokerInv, TypeOK
  <2>9. now - lastSeen[c] < 2 * HeartbeatSeconds
    <3>1. lastSeen[c] + 2 * HeartbeatSeconds > now
      BY <2>5 DEF OpenSession, AllowsNewJump
    <3>2. lastSeen[c] \in Int /\ now \in Int /\ HeartbeatSeconds \in Int
      BY <1>1, <2>7, ConstantFacts, HeartbeatAssumption DEF BrokerInv, TypeOK
    <3>3. QED
      BY <3>1, <3>2
  <2>10. QED
    BY <2>7, <2>8, <2>9
<1>2. BrokerInv /\ [Next]_vars =>
      [\A ch \in Channels :
          (stream[ch] = "none" /\ stream'[ch] # "none")
          => \E c \in Conns : /\ ch \in open'[c]
                              /\ phase[c] \in Serving \cup {"error"}
                              /\ now - lastSeen[c] < 2 * HeartbeatSeconds]_vars
  BY <1>1
<1>3. QED
  BY <1>2, BrokerInvariant, PTL DEF Spec, StaleFailsClosed

-----------------------------------------------------------------------------
(* The refinement of SessionDirectory.                                     *)

\* The sessions that the refinement mapping gives to an agent.
LiveOf(a) == {ch \in Channels : channelAgents[ch] = a}

\* The capacity check of open_channel is the capacity check of the directory.
LEMMA LiveIsOpen ==
    ASSUME BrokerInv, NEW a \in Agents, connections[a] # NoConn
    PROVE  LiveOf(a) = open[connections[a]]
<1>1. connections[a] \in Conns
  BY DEF BrokerInv, TypeOK
<1>2. open[connections[a]] \subseteq Channels
  BY <1>1 DEF BrokerInv, TypeOK
<1>3. QED
  BY <1>2 DEF LiveOf, BrokerInv, RoutesExact

\* Retiring a channel of a connection is closing a session of the agent that
\* the connection serves, or nothing the directory can see.
LEMMA RetireRefines ==
    ASSUME BrokerInv, NEW c \in Conns, NEW ch \in open[c],
           RetireChannel(c, ch), UNCHANGED connections,
           {x \in Channels : stream'[x] # "none"} = {x \in Channels : stream[x] # "none"}
    PROVE  [Directory!DirNext]_(Directory!dirVars)
<1>1. ch \in Channels
  BY DEF BrokerInv, TypeOK
<1>2. \A x \in Channels : channelAgents'[x] = IF x = ch THEN NoAgent ELSE channelAgents[x]
  BY <1>1 DEF RetireChannel, BrokerInv, TypeOK
<1>3. CASE channelAgents[ch] = NoAgent
  <2>1. \A x \in Channels : channelAgents'[x] = channelAgents[x]
    BY <1>2, <1>3
  <2>2. QED
    BY <2>1 DEF Directory!dirVars
<1>4. CASE channelAgents[ch] # NoAgent
  <2>1. PICK a \in Agents : channelAgents[ch] = a
    BY <1>1, <1>4 DEF BrokerInv, TypeOK
  <2>2. \A b \in Agents :
           {x \in Channels : channelAgents'[x] = b}
           = IF b = a THEN LiveOf(a) \ {ch} ELSE LiveOf(b)
    BY <1>2, <2>1, ConstantFacts DEF LiveOf
  <2>3. Directory!CloseOn(a, ch)
    BY <1>1, <2>1, <2>2 DEF Directory!CloseOn, LiveOf
  <2>4. QED
    BY <1>1, <2>3 DEF Directory!DirNext
<1>5. QED
  BY <1>3, <1>4

\* A handler that returns releases its agent's slot with all its sessions.
LEMMA FinishRefines ==
    ASSUME BrokerInv, NEW c \in Conns, Finish(c)
    PROVE  [Directory!DirNext]_(Directory!dirVars)
<1>1. CASE UNCHANGED <<registryVars, channelVars>>
  BY <1>1 DEF registryVars, channelVars, Directory!dirVars
<1>2. CASE /\ owner[c] \in Agents
           /\ connections[owner[c]] = c
           /\ connections' = [connections EXCEPT ![owner[c]] = NoConn]
           /\ FeedEofToAll(c)
  <2>1. PICK a \in Agents : a = owner[c]
    BY <1>2
  <2>2. LiveOf(a) = open[c] /\ adapters[c] = open[c]
    BY <1>2, <2>1, LiveIsOpen, ConstantFacts DEF BrokerInv, ChannelSets
  <2>3. \A x \in Channels :
           channelAgents'[x] = IF x \in LiveOf(a) THEN NoAgent ELSE channelAgents[x]
    BY <1>2, <2>2 DEF FeedEofToAll
  <2>4. \A b \in Agents : {x \in Channels : channelAgents'[x] = b}
                          = IF b = a THEN {} ELSE LiveOf(b)
    BY <2>1, <2>3, ConstantFacts DEF LiveOf
  <2>5. \A x \in Channels : stream'[x] # "none" <=> stream[x] # "none"
    BY <1>2, <2>2 DEF FeedEofToAll, BrokerInv, ChannelHome
  <2>6. Directory!Release(a)
    BY <1>2, <2>1, <2>4, <2>5, ConstantFacts DEF Directory!Release, LiveOf
  <2>7. QED
    BY <2>6 DEF Directory!DirNext
<1>3. QED
  BY <1>1, <1>2, FinishCases

\* A new session of the broker is a new session of the directory.
LEMMA OpenRefines ==
    ASSUME BrokerInv, NEW a \in Agents, NEW ch \in Channels, OpenSession(a, ch)
    PROVE  [Directory!DirNext]_(Directory!dirVars)
<1>1. /\ connections[a] # NoConn /\ stream[ch] = "none"
      /\ HasRoom(open[connections[a]])
      /\ channelAgents' = [channelAgents EXCEPT ![ch] = a]
      /\ stream' = [stream EXCEPT ![ch] = "live"]
      /\ UNCHANGED connections
  BY DEF OpenSession, MayOpen, registryVars
<1>2. HasRoom(LiveOf(a))
  BY <1>1, LiveIsOpen
<1>3. channelAgents[ch] = NoAgent
  <2>1. \A d \in Conns : ch \notin open[d]
    BY <1>1 DEF BrokerInv, ChannelHome
  <2>2. QED
    BY <2>1 DEF BrokerInv, RoutesExact, TypeOK
<1>4. \A b \in Agents : {x \in Channels : channelAgents'[x] = b}
                        = IF b = a THEN LiveOf(a) \cup {ch} ELSE LiveOf(b)
  BY <1>1, <1>3, ConstantFacts DEF LiveOf, BrokerInv, TypeOK
<1>5. {x \in Channels : stream'[x] # "none"} = {x \in Channels : stream[x] # "none"} \cup {ch}
  BY <1>1 DEF BrokerInv, TypeOK
<1>6. Directory!OpenOn(a, ch)
  BY <1>1, <1>2, <1>4, <1>5 DEF Directory!OpenOn, LiveOf
<1>7. QED
  BY <1>6 DEF Directory!DirNext

\* Every step of the broker is a step of the directory or changes nothing in it.
LEMMA StepRefines == BrokerInv /\ [Next]_vars => [Directory!DirNext]_(Directory!dirVars)
<1> SUFFICES ASSUME BrokerInv, [Next]_vars PROVE [Directory!DirNext]_(Directory!dirVars)
    OBVIOUS
<1>1. ASSUME NEW c \in Conns, Handler(c) PROVE [Directory!DirNext]_(Directory!dirVars)
  <2>1. CASE AuthTimeout(c) \/ ErrorSent(c) \/ ConnectionLost(c) \/ DatabaseFails(c)
    <3>1. Finish(c)
      BY <2>1 DEF AuthTimeout, ErrorSent, ConnectionLost, DatabaseFails
    <3>2. QED
      BY <3>1, FinishRefines
  <2>2. CASE Register(c)
    <3>1. phase[c] = "touch" /\ owner[c] \in Agents
      BY <2>2 DEF Register, BrokerInv, AgentKnown
    <3>2. \A b \in Agents : connections[b] # c
      BY <3>1, ConstantFacts DEF BrokerInv, RegistryAgrees, Serving
    <3>3. CASE MayConnect(owner[c], c)
      <4>1. connections[owner[c]] = NoConn
        BY <3>1, <3>2, <3>3 DEF MayConnect, BrokerInv, RegistryAgrees
      <4>2. Directory!Acquire(owner[c], c)
        BY <2>2, <3>2, <3>3, <4>1 DEF Register, channelVars, Directory!Acquire
      <4>3. QED
        BY <3>1, <4>2 DEF Directory!DirNext
    <3>4. CASE ~MayConnect(owner[c], c)
      BY <2>2, <3>4 DEF Register, registryVars, channelVars, Directory!dirVars
    <3>5. QED
      BY <3>3, <3>4
  <2>3. CASE HandleFrame(c)
    <3>1. CASE UNCHANGED channelVars
      BY <2>3, <3>1 DEF HandleFrame, registryVars, channelVars, Directory!dirVars
    <3>2. CASE ~UNCHANGED channelVars
      <4>1. PICK ch \in open[c] : /\ RetireChannel(c, ch)
                                  /\ stream' = [stream EXCEPT ![ch] = "closed"]
        BY <2>3, <3>2 DEF HandleFrame, AcceptFrame
      <4>2. ch \in Channels /\ stream[ch] # "none"
        BY DEF BrokerInv, TypeOK, ChannelHome
      <4>3. {x \in Channels : stream'[x] # "none"} = {x \in Channels : stream[x] # "none"}
        BY <4>1, <4>2 DEF BrokerInv, TypeOK
      <4>4. QED
        BY <2>3, <4>1, <4>3, RetireRefines DEF HandleFrame, registryVars
    <3>3. QED
      BY <3>1, <3>2
  <2>4. CASE \/ Accept(c) \/ ReadBadAuth(c) \/ RejectAuth(c) \/ SendAuthOk(c)
             \/ ReceiveMalformed(c) \/ (\E a \in Agents : ReadAuth(c, a))
             \/ Authenticate(c) \/ (\E f \in Frames : ReceiveFrame(c, f))
    BY <2>4 DEF Accept, ReadBadAuth, RejectAuth, SendAuthOk, ReceiveMalformed,
                ReadAuth, Authenticate, ReceiveFrame, registryVars, channelVars, Directory!dirVars
  <2>5. QED
    BY <1>1, <2>1, <2>2, <2>3, <2>4 DEF Handler
<1>2. ASSUME Calls PROVE [Directory!DirNext]_(Directory!dirVars)
  <2>1. ASSUME NEW ch \in Channels, StreamClose(ch) \/ ConnectFails(ch) \/ ConnectSucceeds(ch)
        PROVE  [Directory!DirNext]_(Directory!dirVars)
    <3>1. UNCHANGED <<channelAgents, connections>>
      BY <2>1 DEF StreamClose, ConnectFails, ConnectSucceeds, registryVars
    <3>2. \A x \in Channels : stream'[x] # "none" <=> stream[x] # "none"
      BY <2>1 DEF StreamClose, ConnectFails, ConnectSucceeds, BrokerInv, TypeOK
    <3>3. QED
      BY <3>1, <3>2 DEF Directory!dirVars
  <2>2. ASSUME NEW k \in closing, EndClose(k) \/ CloseFails(k)
        PROVE  [Directory!DirNext]_(Directory!dirVars)
    <3>1. UNCHANGED <<stream, connections>> /\ k.conn \in Conns
      BY <2>2 DEF EndClose, CloseFails, registryVars, BrokerInv, TypeOK, CloseCalls
    <3>2. CASE k.channel \in open[k.conn] /\ RetireChannel(k.conn, k.channel)
      BY <3>1, <3>2, RetireRefines
    <3>3. CASE UNCHANGED channelAgents
      BY <3>1, <3>3 DEF Directory!dirVars
    <3>4. QED
      BY <2>2, <3>2, <3>3 DEF EndClose, CloseFails
  <2>3. QED
    BY <1>2, <2>1, <2>2, OpenRefines DEF Calls
<1>3. CASE Environment \/ UNCHANGED vars
  BY <1>3 DEF Environment, LoseTransport, Revoke, Tick, vars, registryVars, channelVars,
              Directory!dirVars
<1>4. QED
  BY <1>1, <1>2, <1>3 DEF Next

\* The broker implements the directory of sessions: one tunnel per agent,
\* bounded sessions, channel ids used once, and a tunnel that goes takes its
\* sessions with it in one step.
THEOREM BrokerRefines == Spec => RefinesDirectory
<1>1. Init => Directory!DirInit
  <2> SUFFICES ASSUME Init PROVE Directory!DirInit
    OBVIOUS
  <2>1. \A a \in Agents : {ch \in Channels : channelAgents[ch] = a} = {}
    BY ConstantFacts DEF Init
  <2>2. {ch \in Channels : stream[ch] # "none"} = {}
    BY DEF Init
  <2>3. QED
    BY <2>1, <2>2 DEF Init, Directory!DirInit
<1>2. BrokerInv /\ [Next]_vars => [Directory!DirNext]_(Directory!dirVars)
  BY StepRefines
<1>3. QED
  BY <1>1, <1>2, BrokerInvariant, PTL DEF Spec, RefinesDirectory, Directory!DirSpec
=============================================================================
