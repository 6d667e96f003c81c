------------------------------ MODULE MCTunnel ------------------------------
(***************************************************************************)
(* Small instances of one tunnel.  One channel is busy towards the node    *)
(* and the other towards the server, so that the frames of each fall       *)
(* between the frames of the other; the runs check liveness, so there is   *)
(* no symmetry.                                                            *)
(***************************************************************************)
EXTENDS Tunnel

CONSTANT s1

\* Two frames for the busy channel, none for the other.
BusyOnly == [ch \in Channels |-> IF ch = s1 THEN 2 ELSE 0]

\* None for the busy channel, two for the other.
OtherOnly == [ch \in Channels |-> IF ch = s1 THEN 0 ELSE 2]

\* One frame for every channel.
Single == [ch \in Channels |-> 1]
=============================================================================
