---------------------------- MODULE MCEnrollment ----------------------------
(***************************************************************************)
(* Small instances of the enrollment of one node name: tokens and requests *)
(* are interchangeable.                                                    *)
(***************************************************************************)
EXTENDS Enrollment, TLC

Symmetry == Permutations(Tokens) \cup Permutations(Requests)
=============================================================================
