------------------------------- MODULE Merkle -------------------------------
(***************************************************************************)
(* The Merkle tree of a snapshot: server/src/merkle.rs, and the            *)
(* verification of server/src/merkle.rs and of the claim program           *)
(* (programs/zepin-claim), which are the same.                             *)
(*                                                                         *)
(* sha256 is taken to have no collisions: the hash of a leaf is the leaf,  *)
(* and the hash of a sorted pair is the set of the two.  Sorting is what   *)
(* makes it a set, and an odd node paired with itself a set of one.        *)
(***************************************************************************)
EXTENDS Naturals, Sequences

HashLeaf(w, pts) == [wallet |-> w, points |-> pts, pair |-> {}]
\* Mutant: the pair is hashed in the order of the arguments.
HashPairUnsorted(a, b) == [wallet |-> 0, points |-> 0, pair |-> {<<a, 1>>, <<b, 2>>}]
HashPairSorted(a, b) == [wallet |-> 0, points |-> 0, pair |-> {a, b}]

\* Pairs from the left; an odd last node is paired with itself.
NextLayer(layer) ==
    [i \in 1 .. (Len(layer) + 1) \div 2 |->
       HashPairSorted(layer[2 * i - 1],
                      IF 2 * i <= Len(layer) THEN layer[2 * i] ELSE layer[2 * i - 1])]

\* build_tree: layer 0 is the leaves, the last layer is the root alone.
Layers(hashes) ==
    LET layer[k \in 0 .. Len(hashes)] ==
          IF k = 0 THEN hashes
          ELSE IF Len(layer[k - 1]) = 1 THEN layer[k - 1] ELSE NextLayer(layer[k - 1])
    IN  layer

Root(hashes) == Layers(hashes)[Len(hashes)][1]

Depth(hashes) ==
    LET layers == Layers(hashes)
    IN  CHOOSE k \in 0 .. Len(hashes) :
           Len(layers[k]) = 1 /\ \A j \in 0 .. k - 1 : Len(layers[j]) > 1

\* Mutant: the sibling of the last node of an odd layer is the one before it.
SiblingBefore(layer, i) ==
    LET s == IF i % 2 = 1 THEN i + 1 ELSE i - 1
    IN  IF s <= Len(layer) THEN layer[s] ELSE layer[IF i = 1 THEN 1 ELSE i - 1]

\* index ^ 1 counts from 0; without a neighbour, the node itself.
Sibling(layer, i) ==
    LET s == IF i % 2 = 1 THEN i + 1 ELSE i - 1
    IN  IF s <= Len(layer) THEN layer[s] ELSE layer[i]

\* index /= 2, layer after layer: the place of the node that leaf i is under.
Places(hashes, i) ==
    LET place[k \in 0 .. Len(hashes)] == IF k = 0 THEN i ELSE (place[k - 1] + 1) \div 2
    IN  place

\* proof_for: the sibling in every layer but the last.
ProofFor(hashes, i) ==
    LET layers == Layers(hashes)
        places == Places(hashes, i)
    IN  [k \in 1 .. Depth(hashes) |-> Sibling(layers[k - 1], places[k - 1])]

VerifyProof(leaf, proof, root) ==
    LET hash[k \in 0 .. Len(proof)] ==
          IF k = 0 THEN leaf ELSE HashPairSorted(hash[k - 1], proof[k])
    IN  hash[Len(proof)] = root

\* With the proof of leaf i, leaf i verifies and no other leaf does.
MaxLeaves == 7
TreesVerify ==
    \A n \in 1 .. MaxLeaves :
       LET hashes == [i \in 1 .. n |-> HashLeaf(i, 1)]
           root == Root(hashes)
           proofs == [i \in 1 .. n |-> ProofFor(hashes, i)]
       IN  \A i, j \in 1 .. n : VerifyProof(hashes[j], proofs[i], root) <=> i = j
=============================================================================
