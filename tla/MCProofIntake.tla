--------------------------- MODULE MCProofIntake ---------------------------
(* Small instances of ProofIntake for TLC. *)
EXTENDS ProofIntake, TLC

\* Two spellings of the chain's block at each height, and one of no block.
MCHashes == {"0xB", "b", "x"}
MCBlocks == {"B", "X"}
MCBlockOf == [s \in MCHashes |-> IF s = "x" THEN "X" ELSE "B"]
MCChain == [h \in Heights |-> "B"]

OneSpelling == {"b", "x"}
MCBlockOfOne == [s \in OneSpelling |-> IF s = "x" THEN "X" ELSE "B"]

MCTier == CHOOSE t \in [Nodes -> RewardTiers] : Cardinality(Nodes) > 1 => {t[n] : n \in Nodes} = RewardTiers
MCTelemetry == {[uptime |-> 360000, peers |-> 8]}
AllNodes == Nodes
NoNodes == {}

Requesters == Permutations(Handlers) \cup Permutations(Nonces)
=============================================================================
