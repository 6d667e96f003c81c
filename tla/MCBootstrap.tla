---------------------------- MODULE MCBootstrap ----------------------------
(***************************************************************************)
(* Small instances of starting servers on one host and one database: an    *)
(* old release with one migration, a new one with two.                     *)
(***************************************************************************)
EXTENDS Bootstrap, TLC

CONSTANTS new, old, command
MCRelease == [p \in Processes |-> IF p = old THEN 1 ELSE 2]
=============================================================================
