---------------------------- MODULE MCChallenges ----------------------------
(* Small instances of Challenges for TLC. *)
EXTENDS Challenges

MCTier == [n \in Nodes |-> 6]
=============================================================================
