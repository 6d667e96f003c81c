----------------------------- MODULE FrameFifo -----------------------------
(***************************************************************************)
(* What the framed protocol promises its users, Broker and Tunnel: the     *)
(* frames the reader accepts are handed on whole, in the order in which    *)
(* they were written, without a gap and without a repetition, and the      *)
(* first one it does not accept ends the stream.                           *)
(***************************************************************************)
EXTENDS Naturals, Sequences

CONSTANT Frames  \* the frames that can be written

VARIABLES
    accepted,  \* the frames this reader accepts
    sent,      \* the frames written
    got,       \* the frames handed on
    over       \* the reader has ended

Init ==
    /\ accepted \subseteq Frames
    /\ sent = <<>> /\ got = <<>> /\ over = FALSE

\* The other end writes a frame.
Send ==
    /\ \E f \in Frames : sent' = Append(sent, f)
    /\ UNCHANGED <<accepted, got, over>>

\* The reader hands on the next frame.
Receive ==
    /\ ~over /\ Len(got) < Len(sent) /\ sent[Len(got) + 1] \in accepted
    /\ got' = Append(got, sent[Len(got) + 1])
    /\ UNCHANGED <<accepted, sent, over>>

\* The reader ends.
Finish ==
    /\ ~over /\ over' = TRUE
    /\ UNCHANGED <<accepted, sent, got>>

Spec == Init /\ [][Send \/ Receive \/ Finish]_<<accepted, sent, got, over>>
=============================================================================
