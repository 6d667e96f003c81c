---------------------------- MODULE MCJumpSession ----------------------------
(***************************************************************************)
(* Small instances of one jump session; the .cfg files choose the faults.  *)
(***************************************************************************)
EXTENDS JumpSession
=============================================================================
