--------------------------- MODULE MCDistributor ---------------------------
(* Small instances of Distributor for TLC. *)
EXTENDS Distributor

\* What a stranger passes: the root of the totals where wallet 1 alone has a
\* point, which may be those of either cycle, and of a tree no server builds.
TwiceListed == <<HashLeaf(1, 1), HashLeaf(1, 2)>>
StrangeRoots == {SnapshotRoot([w \in Wallets |-> IF w = 1 THEN 1 ELSE 0]), Root(TwiceListed)}

\* The proofs of all trees of one or two leaves.
ShortProofs == {<<>>} \cup {<<HashLeaf(w, p)>> : w \in Wallets, p \in {1, 2}}
=============================================================================
