-------------------------- MODULE MCAuthorization --------------------------
(***************************************************************************)
(* Small instances of logging in and jumping: the client holds one of two  *)
(* keys, two nodes have different labels.                                  *)
(***************************************************************************)
EXTENDS Authorization, TLC

CONSTANTS k1, k2, n1, n2, la, lb
MCClientKeys == {k1}
MCLabelsOf == (n1 :> {la}) @@ (n2 :> {lb})
Symmetry == Permutations(Users) \cup Permutations(Pins) \cup Permutations(Requests)
=============================================================================
