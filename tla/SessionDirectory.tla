-------------------------- MODULE SessionDirectory --------------------------
(***************************************************************************)
(* What the tunnel broker promises to the rest of the server, without its  *)
(* handlers, awaits or dictionaries: every agent has at most one tunnel,   *)
(* sessions live only on the tunnel that is there and only while there is  *)
(* room, a channel name is never given out twice, and a tunnel that goes   *)
(* takes every one of its sessions with it in the same step.               *)
(***************************************************************************)
CONSTANTS
    Agents, Conns, Channels, NoConn,
    HasRoom(_)  \* whether a set of sessions leaves room for another

VARIABLES
    holder,   \* the tunnel of each agent, or NoConn
    live,     \* the sessions that can be reached through that tunnel
    used      \* every channel ever opened

dirVars == <<holder, live, used>>

DirInit ==
    /\ holder = [a \in Agents |-> NoConn]
    /\ live = [a \in Agents |-> {}]
    /\ used = {}

\* A tunnel takes the free slot of an agent; it serves nobody else.
Acquire(a, c) ==
    /\ holder[a] = NoConn
    /\ \A b \in Agents : holder[b] # c
    /\ holder' = [holder EXCEPT ![a] = c]
    /\ UNCHANGED <<live, used>>

OpenOn(a, ch) ==
    /\ holder[a] # NoConn
    /\ ch \notin used
    /\ HasRoom(live[a])
    /\ live' = [live EXCEPT ![a] = @ \cup {ch}]
    /\ used' = used \cup {ch}
    /\ UNCHANGED holder

CloseOn(a, ch) ==
    /\ ch \in live[a]
    /\ live' = [live EXCEPT ![a] = @ \ {ch}]
    /\ UNCHANGED <<holder, used>>

\* The tunnel goes, and all its sessions with it.
Release(a) ==
    /\ holder[a] # NoConn
    /\ holder' = [holder EXCEPT ![a] = NoConn]
    /\ live' = [live EXCEPT ![a] = {}]
    /\ UNCHANGED used

DirNext ==
    \E a \in Agents :
        \/ \E c \in Conns : Acquire(a, c)
        \/ \E ch \in Channels : OpenOn(a, ch) \/ CloseOn(a, ch)
        \/ Release(a)

DirSpec == DirInit /\ [][DirNext]_dirVars
=============================================================================
