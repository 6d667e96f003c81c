------------------------------ MODULE MCBroker ------------------------------
(***************************************************************************)
(* Small instances of the broker: connections and channels are             *)
(* interchangeable, so safety runs may use Symmetry.                       *)
(***************************************************************************)
EXTENDS Broker, TLC

Symmetry == Permutations(Agents) \cup Permutations(Conns) \cup Permutations(Channels)
=============================================================================
