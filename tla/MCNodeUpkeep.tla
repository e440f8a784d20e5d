---------------------------- MODULE MCNodeUpkeep ----------------------------
(* Small instances of NodeUpkeep for TLC. *)
EXTENDS NodeUpkeep

OneBlock == {"b"}
OnlyBlocks == {"B"}
MCBlockOf == [s \in OneBlock |-> "B"]
MCChain == [h \in Heights |-> "B"]
MCTier == [n \in Nodes |-> 10]
MCTelemetry == {[uptime |-> 360000, peers |-> 8]}
NoNodes == {}
AllNodes == Nodes
=============================================================================
