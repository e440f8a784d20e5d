------------------------- MODULE DistributorProofs -------------------------
(***************************************************************************)
(* Proofs about the Merkle tree of a snapshot, for any number of leaves,   *)
(* and about Distributor for any number of wallets, cycles and claims, any *)
(* rates and deposits, whoever makes the distributors with whatever roots, *)
(* and whatever points and proofs are claimed with: what verifies is a     *)
(* leaf, a root commits to its totals, the vaults balance, and where the   *)
(* root is a snapshot's the payouts are.                                   *)
(***************************************************************************)
EXTENDS Distributor, SnapshotsProofs, SumProofs

-----------------------------------------------------------------------------
(* The tree *)

\* A set of numbers with a member has a least one.
LEMMA LeastNumber ==
    ASSUME NEW S, NEW n \in Nat, n \in S
    PROVE  \E k \in 0 .. n : k \in S /\ \A j \in 0 .. k - 1 : j \notin S
<1> DEFINE Least(k) == k \in S /\ \A j \in 0 .. k - 1 : j \notin S
           H == {m \in Nat : (\E k \in 0 .. m : Least(k)) \/ \A j \in 0 .. m : j \notin S}
<1>1. 0 \in H
  <2>1. 0 \in S => Least(0)
    OBVIOUS
  <2>2. 0 \notin S => \A j \in 0 .. 0 : j \notin S
    OBVIOUS
  <2> HIDE DEF Least
  <2>3. 0 \in 0 .. 0
    OBVIOUS
  <2> QED BY <2>1, <2>2, <2>3
<1>2. ASSUME NEW m \in Nat, m \in H
      PROVE  m + 1 \in H
  <2>0. \A j \in 0 .. m + 1 : j \in 0 .. m \/ j = m + 1
    OBVIOUS
  <2>1. CASE \E k \in 0 .. m : Least(k)
    <3> HIDE DEF Least
    <3>1. \A k \in 0 .. m : k \in 0 .. m + 1
      OBVIOUS
    <3> QED BY <2>1, <3>1
  <2>2. CASE \A j \in 0 .. m : j \notin S
    <3>1. m + 1 \in S => Least(m + 1)
      BY <2>2
    <3>2. m + 1 \notin S => \A j \in 0 .. m + 1 : j \notin S
      BY <2>0, <2>2
    <3> HIDE DEF Least
    <3>3. m + 1 \in 0 .. m + 1
      OBVIOUS
    <3> QED BY <3>1, <3>2, <3>3
  <2> QED BY <1>2, <2>1, <2>2
<1> HIDE DEF H
<1>3. n \in H
  BY <1>1, <1>2, NatSetInduction
<1>4. n \in 0 .. n
  OBVIOUS
<1> QED BY <1>3, <1>4 DEF H

-----------------------------------------------------------------------------
(* One layer *)

LEMMA PairOf ==
    ASSUME NEW a, NEW b
    PROVE  HashPairSorted(a, b).pair = {a, b}
BY DEF HashPairSorted

LEMMA PairMember ==
    ASSUME NEW a, NEW b, NEW c, NEW d, HashPairSorted(a, b) = HashPairSorted(c, d)
    PROVE  a = c \/ a = d
<1>1. {a, b} = {c, d}
  BY PairOf
<1> QED BY <1>1

LEMMA PairsEqual ==
    ASSUME NEW a, NEW b, NEW s
    PROVE  HashPairSorted(a, s) = HashPairSorted(b, s) <=> a = b
<1>1. ASSUME HashPairSorted(a, s) = HashPairSorted(b, s) PROVE a = b
  <2>1. {a, s} = {b, s}
    BY <1>1, PairOf
  <2> QED BY <2>1
<1> QED BY <1>1

LEMMA HalfFacts ==
    ASSUME NEW n \in Nat, n >= 1
    PROVE  /\ (n + 1) \div 2 \in Nat /\ (n + 1) \div 2 >= 1
           /\ n > 1 => (n + 1) \div 2 < n
           /\ \A i \in 1 .. (n + 1) \div 2 : 2 * i - 1 \in 1 .. n
           /\ \A i \in 1 .. n : (i + 1) \div 2 \in 1 .. (n + 1) \div 2
           /\ n % 2 = 1 => n = 2 * ((n + 1) \div 2) - 1
           /\ n % 2 # 1 => n = 2 * ((n + 1) \div 2)
OBVIOUS

IsSeq(s) == \E S : s \in Seq(S)

LEMMA SeqLength == ASSUME NEW s, IsSeq(s) PROVE Len(s) \in Nat
BY DEF IsSeq

LEMMA NextLayerFacts ==
    ASSUME NEW layer, IsSeq(layer), Len(layer) >= 1
    PROVE  /\ IsSeq(NextLayer(layer))
           /\ Len(NextLayer(layer)) = (Len(layer) + 1) \div 2
           /\ \A i \in 1 .. Len(NextLayer(layer)) :
                 NextLayer(layer)[i] =
                   HashPairSorted(layer[2 * i - 1],
                      IF 2 * i <= Len(layer) THEN layer[2 * i] ELSE layer[2 * i - 1])
<1>s. PICK S : layer \in Seq(S)
  BY DEF IsSeq
<1> DEFINE n == Len(layer)
           m == (n + 1) \div 2
           T == {HashPairSorted(a, b) : a \in S, b \in S}
           node(i) == HashPairSorted(layer[2 * i - 1],
                         IF 2 * i <= n THEN layer[2 * i] ELSE layer[2 * i - 1])
<1>0. n \in Nat /\ n >= 1 /\ \A i \in 1 .. n : layer[i] \in S
  BY <1>s
<1>1. m \in Nat /\ \A i \in 1 .. m : 2 * i - 1 \in 1 .. n /\ (2 * i <= n => 2 * i \in 1 .. n)
  BY <1>0, HalfFacts
<1>2. ASSUME NEW i \in 1 .. m PROVE node(i) \in T
  <2>1. layer[2 * i - 1] \in S /\ (2 * i <= n => layer[2 * i] \in S)
    BY <1>0, <1>1
  <2> QED BY <2>1
<1>3. NextLayer(layer) = [i \in 1 .. m |-> node(i)]
  BY DEF NextLayer
<1> HIDE DEF m, T, node
<1>4. NextLayer(layer) \in Seq(T) /\ Len(NextLayer(layer)) = m
  BY <1>1, <1>2, <1>3
<1>5. IsSeq(NextLayer(layer))
  BY <1>4 DEF IsSeq
<1> QED BY <1>3, <1>4, <1>5 DEF m, node

\* A node and its sibling are hashed into the node above them.
LEMMA SiblingParent ==
    ASSUME NEW layer, IsSeq(layer), NEW i \in 1 .. Len(layer)
    PROVE  HashPairSorted(layer[i], Sibling(layer, i)) = NextLayer(layer)[(i + 1) \div 2]
<1> DEFINE n == Len(layer)
           j == (i + 1) \div 2
<1>0. n \in Nat /\ n >= 1 /\ i \in Nat /\ i >= 1
  BY SeqLength
<1>1. j \in 1 .. (n + 1) \div 2
  BY <1>0, HalfFacts
<1>2. NextLayer(layer)[j] =
         HashPairSorted(layer[2 * j - 1],
                        IF 2 * j <= n THEN layer[2 * j] ELSE layer[2 * j - 1])
  <2>1. j \in 1 .. Len(NextLayer(layer))
    <3> HIDE DEF j
    <3> QED BY <1>0, <1>1, NextLayerFacts
  <2> HIDE DEF j
  <2> QED BY <1>0, <2>1, NextLayerFacts
<1>3. CASE i % 2 = 1
  <2>1. i = 2 * j - 1 /\ i + 1 = 2 * j
    <3>1. i = 2 * j - 1
      BY <1>0, <1>3, HalfFacts
    <3> QED BY <1>0, <3>1
  <2> HIDE DEF j
  <2>2. Sibling(layer, i) = IF 2 * j <= n THEN layer[2 * j] ELSE layer[i]
    BY <1>3, <2>1 DEF Sibling
  <2> QED BY <1>2, <2>1, <2>2 DEF j
<1>4. CASE i % 2 # 1
  <2>1. i = 2 * j /\ i - 1 = 2 * j - 1
    BY <1>0, <1>4, HalfFacts
  <2> HIDE DEF j
  <2>2. Sibling(layer, i) = layer[2 * j - 1]
    BY <1>4, <2>1 DEF Sibling
  <2>3. NextLayer(layer)[j] = HashPairSorted(layer[2 * j - 1], layer[i])
    BY <1>2, <2>1
  <2>4. HashPairSorted(layer[2 * j - 1], layer[i]) = HashPairSorted(layer[i], layer[2 * j - 1])
    BY DEF HashPairSorted
  <2> QED BY <2>2, <2>3, <2>4 DEF j
<1> QED BY <1>3, <1>4

-----------------------------------------------------------------------------
(* The layers *)

Layer(f, hashes, k) ==
    IF k = 0 THEN hashes
    ELSE IF Len(f[k - 1]) = 1 THEN f[k - 1] ELSE NextLayer(f[k - 1])

LEMMA LayersExist ==
    ASSUME NEW hashes, NEW n \in Nat
    PROVE  \E f : f = [k \in 0 .. n |-> Layer(f, hashes, k)]
<1> DEFINE H == {m \in Nat : \E f : f = [k \in 0 .. m |-> Layer(f, hashes, k)]}
<1>1. 0 \in H
  <2> DEFINE f == [k \in 0 .. 0 |-> hashes]
  <2>1. \A k \in 0 .. 0 : Layer(f, hashes, k) = hashes
    BY DEF Layer
  <2>2. f = [k \in 0 .. 0 |-> Layer(f, hashes, k)]
    BY <2>1
  <2> HIDE DEF f
  <2> QED BY <2>2
<1>2. ASSUME NEW m \in Nat, m \in H
      PROVE  m + 1 \in H
  <2>1. PICK f : f = [k \in 0 .. m |-> Layer(f, hashes, k)]
    BY <1>2
  <2> DEFINE g == [k \in 0 .. m + 1 |-> Layer(f, hashes, k)]
  <2>2. \A k \in 0 .. m : g[k] = f[k]
    BY <2>1
  <2>3. \A k \in 0 .. m + 1 : k # 0 => k - 1 \in 0 .. m
    OBVIOUS
  <2>4. \A k \in 0 .. m + 1 : Layer(f, hashes, k) = Layer(g, hashes, k)
    BY <2>2, <2>3 DEF Layer
  <2>5. g = [k \in 0 .. m + 1 |-> Layer(g, hashes, k)]
    BY <2>4
  <2> HIDE DEF g
  <2> QED BY <2>5
<1> HIDE DEF H
<1>3. n \in H
  BY <1>1, <1>2, NatSetInduction
<1> QED BY <1>3 DEF H

LEMMA LayersDef ==
    ASSUME NEW hashes, IsSeq(hashes)
    PROVE  \A k \in 0 .. Len(hashes) : Layers(hashes)[k] = Layer(Layers(hashes), hashes, k)
<1>1. Len(hashes) \in Nat
  BY DEF IsSeq
<1>2. Layers(hashes) = CHOOSE f : f = [k \in 0 .. Len(hashes) |-> Layer(f, hashes, k)]
  BY DEF Layers, Layer
<1>3. Layers(hashes) = [k \in 0 .. Len(hashes) |-> Layer(Layers(hashes), hashes, k)]
  BY <1>1, <1>2, LayersExist
<1> HIDE DEF Layer
<1> QED BY <1>3

\* Every layer has a node, and as long as it has two, fewer than the one below.
LEMMA LayerLengths ==
    ASSUME NEW hashes, IsSeq(hashes), Len(hashes) >= 1
    PROVE  \A k \in 0 .. Len(hashes) :
              /\ IsSeq(Layers(hashes)[k])
              /\ Len(Layers(hashes)[k]) \in Nat /\ Len(Layers(hashes)[k]) >= 1
              /\ Len(Layers(hashes)[k]) = 1 \/ Len(Layers(hashes)[k]) + k <= Len(hashes)
<1> DEFINE n == Len(hashes)
           L == Layers(hashes)
           len(k) == Len(L[k])
           Good(k) == /\ IsSeq(L[k]) /\ len(k) \in Nat /\ len(k) >= 1
                      /\ len(k) = 1 \/ len(k) + k <= n
           H == {k \in Nat : k <= n => Good(k)}
<1>0. n \in Nat /\ n >= 1
  BY DEF IsSeq
<1>1. \A k \in 0 .. n : L[k] = Layer(L, hashes, k)
  BY LayersDef
<1> HIDE DEF L, n
<1>2. 0 \in H
  <2>1. L[0] = hashes
    BY <1>0, <1>1 DEF Layer
  <2> QED BY <1>0, <2>1 DEF n
<1>3. ASSUME NEW k \in Nat, k \in H
      PROVE  k + 1 \in H
  <2>1. SUFFICES ASSUME k + 1 <= n PROVE Good(k + 1)
    <3> HIDE DEF Good
    <3> QED OBVIOUS
  <2>2. Good(k)
    BY <1>0, <1>3, <2>1
  <2>3. L[k + 1] = IF len(k) = 1 THEN L[k] ELSE NextLayer(L[k])
    BY <1>0, <1>1, <2>1 DEF Layer
  <2>4. CASE len(k) = 1
    BY <2>2, <2>3, <2>4
  <2>5. CASE len(k) # 1
    <3>1. IsSeq(L[k + 1]) /\ len(k + 1) = (len(k) + 1) \div 2
      BY <2>2, <2>3, <2>5, NextLayerFacts
    <3> HIDE DEF len
    <3>2. /\ (len(k) + 1) \div 2 \in Nat /\ (len(k) + 1) \div 2 >= 1
          /\ (len(k) + 1) \div 2 < len(k)
      BY <2>2, <2>5, HalfFacts
    <3> QED BY <1>0, <2>2, <2>5, <3>1, <3>2
  <2> QED BY <2>4, <2>5
<1> HIDE DEF H
<1>4. \A k \in Nat : k \in H
  BY <1>2, <1>3, NatSetInduction
<1> QED BY <1>0, <1>4 DEF H, L, n

\* The layers up to Depth have two nodes or more; from there on, the root.
LEMMA DepthFacts ==
    ASSUME NEW hashes, IsSeq(hashes), Len(hashes) >= 1
    PROVE  /\ Depth(hashes) \in 0 .. Len(hashes)
           /\ Len(Layers(hashes)[Depth(hashes)]) = 1
           /\ \A k \in 0 .. Depth(hashes) - 1 :
                 /\ Len(Layers(hashes)[k]) > 1
                 /\ Layers(hashes)[k + 1] = NextLayer(Layers(hashes)[k])
           /\ Layers(hashes)[0] = hashes
           /\ Root(hashes) = Layers(hashes)[Depth(hashes)][1]
<1> DEFINE n == Len(hashes)
           L == Layers(hashes)
           D == Depth(hashes)
           len(k) == Len(L[k])
           First(k) == len(k) = 1 /\ \A j \in 0 .. k - 1 : len(j) > 1
           Ones == {k \in Nat : len(k) = 1}
<1>0. n \in Nat /\ n >= 1
  BY DEF IsSeq
<1>1. \A k \in 0 .. n : L[k] = Layer(L, hashes, k)
  BY LayersDef
<1>2. \A k \in 0 .. n : len(k) \in Nat /\ len(k) >= 1 /\ (len(k) = 1 \/ len(k) + k <= n)
  BY LayerLengths
<1>3. D = CHOOSE k \in 0 .. n : First(k)
  BY DEF Depth
<1> HIDE DEF L, n, D
<1> HIDE DEF len
<1>4. n \in Ones
  BY <1>0, <1>2
<1>5. \E k \in 0 .. n : First(k)
  <2>1. PICK k \in 0 .. n : k \in Ones /\ \A j \in 0 .. k - 1 : j \notin Ones
    BY <1>0, <1>4, LeastNumber
  <2>2. \A j \in 0 .. k - 1 : j \in Nat /\ j \in 0 .. n
    BY <1>0
  <2>3. \A j \in 0 .. k - 1 : len(j) # 1
    BY <2>1, <2>2
  <2>4. \A j \in 0 .. k - 1 : len(j) > 1
    BY <1>2, <2>2, <2>3
  <2>5. First(k)
    BY <2>1, <2>4
  <2> QED BY <2>5
<1>6. D \in 0 .. n /\ First(D)
  <2> HIDE DEF First
  <2> QED BY <1>3, <1>5
<1>7. L[0] = hashes
  BY <1>0, <1>1 DEF Layer
<1>8. ASSUME NEW k \in 0 .. D - 1 PROVE len(k) > 1 /\ L[k + 1] = NextLayer(L[k])
  <2>1. k + 1 \in 0 .. n /\ (k + 1) - 1 = k /\ k + 1 # 0
    BY <1>0, <1>6
  <2>2. len(k) > 1
    BY <1>6
  <2>3. Len(L[k]) # 1
    <3>1. k \in 0 .. n /\ len(k) \in Nat
      BY <1>0, <1>2, <1>6
    <3>2. len(k) # 1
      BY <2>2, <3>1
    <3> QED BY <3>2 DEF len
  <2> QED BY <1>1, <2>1, <2>2, <2>3 DEF Layer
<1>9. L[n] = L[D]
  <2> DEFINE H == {j \in Nat : D + j <= n => L[D + j] = L[D]}
  <2>1. 0 \in H
    BY <1>6
  <2>2. ASSUME NEW j \in Nat, j \in H PROVE j + 1 \in H
    <3>1. SUFFICES ASSUME D + (j + 1) <= n PROVE L[D + (j + 1)] = L[D]
      OBVIOUS
    <3>2. D + j <= n /\ L[D + j] = L[D]
      BY <1>0, <1>6, <2>2, <3>1
    <3>3. /\ D + (j + 1) \in 0 .. n /\ (D + (j + 1)) - 1 = D + j
          /\ D + (j + 1) # 0
      BY <1>0, <1>6, <3>1
    <3>4. Len(L[D + j]) = 1
      BY <1>6, <3>2 DEF len
    <3> QED BY <1>1, <3>2, <3>3, <3>4 DEF Layer
  <2> HIDE DEF H
  <2>3. \A j \in Nat : j \in H
    BY <2>1, <2>2, NatSetInduction
  <2>4. n - D \in Nat /\ D + (n - D) = n
    BY <1>0, <1>6
  <2>5. n - D \in H
    BY <2>3, <2>4
  <2> QED BY <1>0, <2>4, <2>5 DEF H
<1>10. Root(hashes) = L[D][1]
  BY <1>9 DEF Root, L, n
<1> QED BY <1>6, <1>7, <1>8, <1>10 DEF L, n, D, len

-----------------------------------------------------------------------------
(* Places and proofs *)

Place(f, i, k) == IF k = 0 THEN i ELSE (f[k - 1] + 1) \div 2

LEMMA PlacesExist ==
    ASSUME NEW i, NEW n \in Nat
    PROVE  \E f : f = [k \in 0 .. n |-> Place(f, i, k)]
<1> DEFINE H == {m \in Nat : \E f : f = [k \in 0 .. m |-> Place(f, i, k)]}
<1>1. 0 \in H
  <2> DEFINE f == [k \in 0 .. 0 |-> i]
  <2>1. \A k \in 0 .. 0 : Place(f, i, k) = i
    BY DEF Place
  <2>2. f = [k \in 0 .. 0 |-> Place(f, i, k)]
    BY <2>1
  <2> HIDE DEF f
  <2> QED BY <2>2
<1>2. ASSUME NEW m \in Nat, m \in H
      PROVE  m + 1 \in H
  <2>1. PICK f : f = [k \in 0 .. m |-> Place(f, i, k)]
    BY <1>2
  <2> DEFINE g == [k \in 0 .. m + 1 |-> Place(f, i, k)]
  <2>2. \A k \in 0 .. m : g[k] = f[k]
    BY <2>1
  <2>3. \A k \in 0 .. m + 1 : k # 0 => k - 1 \in 0 .. m
    OBVIOUS
  <2>4. \A k \in 0 .. m + 1 : Place(f, i, k) = Place(g, i, k)
    BY <2>2, <2>3 DEF Place
  <2>5. g = [k \in 0 .. m + 1 |-> Place(g, i, k)]
    BY <2>4
  <2> HIDE DEF g
  <2> QED BY <2>5
<1> HIDE DEF H
<1>3. n \in H
  BY <1>1, <1>2, NatSetInduction
<1> QED BY <1>3 DEF H

LEMMA PlacesDef ==
    ASSUME NEW hashes, IsSeq(hashes), NEW i
    PROVE  \A k \in 0 .. Len(hashes) :
              Places(hashes, i)[k] = Place(Places(hashes, i), i, k)
<1>1. Len(hashes) \in Nat
  BY SeqLength
<1>2. Places(hashes, i) = CHOOSE f : f = [k \in 0 .. Len(hashes) |-> Place(f, i, k)]
  BY DEF Places, Place
<1>3. Places(hashes, i) = [k \in 0 .. Len(hashes) |-> Place(Places(hashes, i), i, k)]
  BY <1>1, <1>2, PlacesExist
<1> HIDE DEF Place
<1> QED BY <1>3

\* The place of a leaf's ancestor is in its layer.
LEMMA PlaceInLayer ==
    ASSUME NEW hashes, IsSeq(hashes), Len(hashes) >= 1, NEW i \in 1 .. Len(hashes)
    PROVE  /\ Places(hashes, i)[0] = i
           /\ \A k \in 0 .. Depth(hashes) :
                 Places(hashes, i)[k] \in 1 .. Len(Layers(hashes)[k])
           /\ \A k \in 0 .. Depth(hashes) - 1 :
                 Places(hashes, i)[k + 1] = (Places(hashes, i)[k] + 1) \div 2
<1> DEFINE n == Len(hashes)
           L == Layers(hashes)
           D == Depth(hashes)
           P == Places(hashes, i)
           len(k) == Len(L[k])
           H == {k \in Nat : k <= D => P[k] \in 1 .. len(k)}
<1>0. n \in Nat /\ n >= 1 /\ D \in 0 .. n
  BY SeqLength, DepthFacts
<1>1. \A k \in 0 .. n : P[k] = Place(P, i, k)
  BY PlacesDef
<1>2. \A k \in 0 .. n : len(k) \in Nat /\ len(k) >= 1
  BY LayerLengths
<1>3. \A k \in 0 .. D - 1 : len(k + 1) = (len(k) + 1) \div 2
  <2>0. \A k \in 0 .. D - 1 : L[k + 1] = NextLayer(L[k])
    BY DepthFacts
  <2>1. \A k \in 0 .. D - 1 : L[k + 1] = NextLayer(L[k]) /\ k \in 0 .. n
    <3> HIDE DEF D, n, L
    <3> QED BY <1>0, <2>0
  <2>2. \A k \in 0 .. n : IsSeq(L[k]) /\ Len(L[k]) >= 1
    BY LayerLengths
  <2> HIDE DEF L, D
  <2> QED BY <2>1, <2>2, NextLayerFacts
<1>4. i \in 1 .. len(0)
  BY DepthFacts
<1> HIDE DEF n, L, D, P, len
<1>5. P[0] = i
  BY <1>0, <1>1 DEF Place
<1>6. ASSUME NEW k \in 0 .. D - 1 PROVE P[k + 1] = (P[k] + 1) \div 2
  <2>1. k + 1 \in 0 .. n /\ (k + 1) - 1 = k /\ k + 1 # 0
    BY <1>0
  <2> QED BY <1>1, <2>1 DEF Place
<1>7. 0 \in H
  BY <1>4, <1>5
<1>8. ASSUME NEW k \in Nat, k \in H PROVE k + 1 \in H
  <2>1. SUFFICES ASSUME k + 1 <= D PROVE P[k + 1] \in 1 .. len(k + 1)
    OBVIOUS
  <2>2. k \in 0 .. D - 1 /\ k \in 0 .. n
    BY <1>0, <2>1
  <2>3. P[k] \in 1 .. len(k)
    BY <1>8, <2>2, <1>0
  <2>4. /\ P[k + 1] = (P[k] + 1) \div 2 /\ len(k + 1) = (len(k) + 1) \div 2
        /\ len(k) \in Nat /\ len(k) >= 1
    BY <1>2, <1>3, <1>6, <2>2
  <2> QED BY <2>3, <2>4, HalfFacts
<1> HIDE DEF H
<1>9. \A k \in Nat : k \in H
  BY <1>7, <1>8, NatSetInduction
<1>10. \A k \in 0 .. D : P[k] \in 1 .. len(k)
  BY <1>0, <1>9 DEF H
<1> QED BY <1>5, <1>6, <1>10 DEF n, L, D, P, len

LEMMA ProofForFacts ==
    ASSUME NEW hashes, IsSeq(hashes), Len(hashes) >= 1, NEW i
    PROVE  /\ Len(ProofFor(hashes, i)) = Depth(hashes)
           /\ \A k \in 1 .. Depth(hashes) :
                 ProofFor(hashes, i)[k] =
                    Sibling(Layers(hashes)[k - 1], Places(hashes, i)[k - 1])
<1> DEFINE D == Depth(hashes)
           sibling(k) == Sibling(Layers(hashes)[k - 1], Places(hashes, i)[k - 1])
           S == {sibling(k) : k \in 1 .. D}
<1>1. D \in Nat
  BY SeqLength, DepthFacts
<1>2. ProofFor(hashes, i) = [k \in 1 .. D |-> sibling(k)]
  BY DEF ProofFor
<1>3. \A k \in 1 .. D : sibling(k) \in S
  OBVIOUS
<1> HIDE DEF D, sibling, S
<1>4. ProofFor(hashes, i) \in Seq(S) /\ Len(ProofFor(hashes, i)) = D
  BY <1>1, <1>2, <1>3
<1> QED BY <1>2, <1>4 DEF D, sibling

\* The hashes verify_proof goes through.
Hash(f, leaf, proof, k) == IF k = 0 THEN leaf ELSE HashPairSorted(f[k - 1], proof[k])
Hashed(leaf, proof) == CHOOSE f : f = [k \in 0 .. Len(proof) |-> Hash(f, leaf, proof, k)]

LEMMA HashedExist ==
    ASSUME NEW leaf, NEW proof, NEW n \in Nat
    PROVE  \E f : f = [k \in 0 .. n |-> Hash(f, leaf, proof, k)]
<1> DEFINE H == {m \in Nat : \E f : f = [k \in 0 .. m |-> Hash(f, leaf, proof, k)]}
<1>1. 0 \in H
  <2> DEFINE f == [k \in 0 .. 0 |-> leaf]
  <2>1. \A k \in 0 .. 0 : Hash(f, leaf, proof, k) = leaf
    BY DEF Hash
  <2>2. f = [k \in 0 .. 0 |-> Hash(f, leaf, proof, k)]
    BY <2>1
  <2> HIDE DEF f
  <2> QED BY <2>2
<1>2. ASSUME NEW m \in Nat, m \in H
      PROVE  m + 1 \in H
  <2>1. PICK f : f = [k \in 0 .. m |-> Hash(f, leaf, proof, k)]
    BY <1>2
  <2> DEFINE g == [k \in 0 .. m + 1 |-> Hash(f, leaf, proof, k)]
  <2>2. \A k \in 0 .. m : g[k] = f[k]
    BY <2>1
  <2>3. \A k \in 0 .. m + 1 : k # 0 => k - 1 \in 0 .. m
    OBVIOUS
  <2>4. \A k \in 0 .. m + 1 : Hash(f, leaf, proof, k) = Hash(g, leaf, proof, k)
    BY <2>2, <2>3 DEF Hash
  <2>5. g = [k \in 0 .. m + 1 |-> Hash(g, leaf, proof, k)]
    BY <2>4
  <2> HIDE DEF g
  <2> QED BY <2>5
<1> HIDE DEF H
<1>3. n \in H
  BY <1>1, <1>2, NatSetInduction
<1> QED BY <1>3 DEF H

LEMMA HashedFacts ==
    ASSUME NEW leaf, NEW proof, Len(proof) \in Nat
    PROVE  /\ Hashed(leaf, proof)[0] = leaf
           /\ \A k \in 0 .. Len(proof) - 1 :
                 Hashed(leaf, proof)[k + 1] =
                    HashPairSorted(Hashed(leaf, proof)[k], proof[k + 1])
           /\ \A root : VerifyProof(leaf, proof, root)
                           <=> Hashed(leaf, proof)[Len(proof)] = root
<1> DEFINE f == Hashed(leaf, proof)
           n == Len(proof)
<1>1. f = [k \in 0 .. n |-> Hash(f, leaf, proof, k)]
  BY HashedExist DEF Hashed
<1>2. \A root : VerifyProof(leaf, proof, root) <=> f[n] = root
  BY DEF VerifyProof, Hashed, Hash
<1> HIDE DEF f, n
<1>3. \A k \in 0 .. n : f[k] = Hash(f, leaf, proof, k)
  BY <1>1
<1>0. n \in Nat
  BY DEF n
<1>4. f[0] = leaf
  BY <1>0, <1>3 DEF Hash
<1>5. ASSUME NEW k \in 0 .. n - 1 PROVE f[k + 1] = HashPairSorted(f[k], proof[k + 1])
  <2>1. k + 1 \in 0 .. n /\ (k + 1) - 1 = k /\ k + 1 # 0
    BY <1>0
  <2> QED BY <1>3, <2>1 DEF Hash
<1> QED BY <1>2, <1>4, <1>5 DEF f, n

-----------------------------------------------------------------------------
(* What verifies *)

\* What a node of a layer above the leaves hashes: two nodes one layer down.
LEMMA NodeChildren ==
    ASSUME NEW hashes, IsSeq(hashes), Len(hashes) >= 1,
           NEW k \in 0 .. Depth(hashes) - 1, NEW q \in 1 .. Len(Layers(hashes)[k + 1])
    PROVE  \E a, b \in 1 .. Len(Layers(hashes)[k]) :
              Layers(hashes)[k + 1][q]
                 = HashPairSorted(Layers(hashes)[k][a], Layers(hashes)[k][b])
<1> DEFINE layer == Layers(hashes)[k]
           n == Len(layer)
<1>1. /\ IsSeq(layer) /\ n \in Nat /\ n >= 1
  <2>1. k \in 0 .. Len(hashes)
    BY SeqLength, DepthFacts
  <2> QED BY <2>1, LayerLengths
<1>2. Layers(hashes)[k + 1] = NextLayer(layer)
  BY DepthFacts
<1>3. q \in 1 .. Len(NextLayer(layer)) /\ Len(NextLayer(layer)) = (n + 1) \div 2
  BY <1>1, <1>2, NextLayerFacts
<1>4. NextLayer(layer)[q] =
         HashPairSorted(layer[2 * q - 1],
                        IF 2 * q <= n THEN layer[2 * q] ELSE layer[2 * q - 1])
  BY <1>1, <1>3, NextLayerFacts
<1> HIDE DEF layer, n
<1>5. 2 * q - 1 \in 1 .. n /\ (2 * q <= n => 2 * q \in 1 .. n)
  BY <1>1, <1>3, HalfFacts
<1>6. \E b \in 1 .. n : NextLayer(layer)[q] = HashPairSorted(layer[2 * q - 1], layer[b])
  BY <1>4, <1>5
<1> QED BY <1>2, <1>5, <1>6 DEF layer, n

(* proof_for and verify_proof agree on trees of any size, odd layers        *)
(* included: with the proof of leaf i, the hash of leaf i verifies against  *)
(* the root, and no other hash does.                                        *)
THEOREM ProofsFitTheirLeaf ==
    ASSUME NEW hashes, IsSeq(hashes), Len(hashes) >= 1, NEW i \in 1 .. Len(hashes), NEW x
    PROVE  VerifyProof(x, ProofFor(hashes, i), Root(hashes)) <=> x = hashes[i]
<1> DEFINE n == Len(hashes)
           L == Layers(hashes)
           D == Depth(hashes)
           P == Places(hashes, i)
           proof == ProofFor(hashes, i)
           f == Hashed(x, proof)
           H == {k \in Nat : k <= D => (f[k] = L[k][P[k]] <=> x = hashes[i])}
<1>0. n \in Nat /\ D \in 0 .. n /\ Len(proof) = D
  BY SeqLength, DepthFacts, ProofForFacts
<1>1. L[0] = hashes /\ P[0] = i /\ f[0] = x
  BY <1>0, DepthFacts, PlaceInLayer, HashedFacts
<1>2. ASSUME NEW k \in 0 .. D - 1
      PROVE  f[k + 1] = L[k + 1][P[k + 1]] <=> f[k] = L[k][P[k]]
  <2>1. k \in 0 .. n /\ k \in 0 .. D /\ k + 1 \in 1 .. D /\ (k + 1) - 1 = k
    BY <1>0
  <2>2. IsSeq(L[k]) /\ P[k] \in 1 .. Len(L[k])
    BY <2>1, LayerLengths, PlaceInLayer
  <2>3. f[k + 1] = HashPairSorted(f[k], proof[k + 1])
    BY <1>0, HashedFacts
  <2>4. proof[k + 1] = Sibling(L[k], P[k])
    BY <2>1, ProofForFacts
  <2>5a. L[k + 1] = NextLayer(L[k])
    BY DepthFacts
  <2>5. L[k + 1] = NextLayer(L[k]) /\ P[k + 1] = (P[k] + 1) \div 2
    BY <2>5a, PlaceInLayer
  <2> HIDE DEF L, P, f, proof
  <2>6. L[k + 1][P[k + 1]] = HashPairSorted(L[k][P[k]], proof[k + 1])
    BY <2>2, <2>4, <2>5, SiblingParent
  <2> QED BY <2>3, <2>6, PairsEqual
<1>3. VerifyProof(x, proof, Root(hashes)) <=> f[D] = L[D][1]
  BY <1>0, DepthFacts, HashedFacts
<1>4. P[D] = 1
  <2>1. D \in 0 .. D
    BY <1>0
  <2>2. P[D] \in 1 .. Len(L[D])
    BY <2>1, PlaceInLayer
  <2>3. Len(L[D]) = 1
    BY DepthFacts
  <2> QED BY <2>2, <2>3
<1> HIDE DEF n, L, D, P, proof, f
<1>5. 0 \in H
  BY <1>1
<1>6. ASSUME NEW k \in Nat, k \in H PROVE k + 1 \in H
  <2>1. SUFFICES ASSUME k + 1 <= D
                 PROVE  f[k + 1] = L[k + 1][P[k + 1]] <=> x = hashes[i]
    OBVIOUS
  <2>2. k \in 0 .. D - 1 /\ k <= D
    BY <1>0, <2>1
  <2> QED BY <1>2, <1>6, <2>2
<1> HIDE DEF H
<1>7. D \in H
  BY <1>0, <1>5, <1>6, NatSetInduction
<1>8. f[D] = L[D][P[D]] <=> x = hashes[i]
  BY <1>0, <1>7 DEF H
<1> QED BY <1>3, <1>4, <1>8 DEF proof

(* Whatever proof is sent: a leaf that verifies against the root of a       *)
(* snapshot is one of its leaves.  No node above the leaves passes for one, *)
(* and no leaf for a node, as neither hashes like the other.                *)
THEOREM OnlyLeavesVerify ==
    ASSUME NEW hashes, IsSeq(hashes), Len(hashes) >= 1,
           \A i \in 1 .. Len(hashes) : hashes[i].pair = {},
           NEW x, x.pair = {}, NEW proof, Len(proof) \in Nat,
           VerifyProof(x, proof, Root(hashes))
    PROVE  \E i \in 1 .. Len(hashes) : x = hashes[i]
<1> DEFINE n == Len(hashes)
           L == Layers(hashes)
           D == Depth(hashes)
           m == Len(proof)
           f == Hashed(x, proof)
           len(k) == Len(L[k])
           In(j) == \E q \in 1 .. len(D - j) : f[m - j] = L[D - j][q]
           H == {j \in Nat : j <= m /\ j <= D => In(j)}
<1>0. n \in Nat /\ D \in 0 .. n /\ m \in Nat
  BY SeqLength, DepthFacts
<1>1. L[0] = hashes /\ len(D) = 1 /\ f[0] = x /\ f[m] = L[D][1]
  BY DepthFacts, HashedFacts
<1>2. \A k \in 0 .. m - 1 : f[k + 1] = HashPairSorted(f[k], proof[k + 1])
  BY HashedFacts
<1>3. \A k \in 0 .. D - 1 : \A q \in 1 .. len(k + 1) :
         \E a, b \in 1 .. len(k) : L[k + 1][q] = HashPairSorted(L[k][a], L[k][b])
  BY NodeChildren
<1>4. len(0) = n
  BY <1>1
<1> HIDE DEF L, D, m, f, len, n
<1>6. 0 \in H
  <2>1. D - 0 = D /\ m - 0 = m /\ 1 \in 1 .. len(D)
    BY <1>0, <1>1
  <2>2. In(0)
    BY <1>1, <2>1
  <2> HIDE DEF In
  <2> QED BY <2>2
<1>7. ASSUME NEW j \in Nat, j \in H PROVE j + 1 \in H
  <2>1. SUFFICES ASSUME j + 1 <= m, j + 1 <= D PROVE In(j + 1)
    <3> HIDE DEF In
    <3> QED OBVIOUS
  <2> DEFINE k == D - (j + 1)
             l == m - (j + 1)
  <2>2. /\ k \in 0 .. D - 1 /\ k + 1 = D - j /\ l \in 0 .. m - 1 /\ l + 1 = m - j
        /\ j <= m /\ j <= D
    BY <1>0, <2>1
  <2>3. PICK q \in 1 .. len(D - j) : f[m - j] = L[D - j][q]
    <3>1. In(j)
      <4> HIDE DEF In
      <4> QED BY <1>7, <2>2
    <3> QED BY <3>1
  <2> HIDE DEF k, l
  <2>4. PICK a \in 1 .. len(k), b \in 1 .. len(k) :
           L[k + 1][q] = HashPairSorted(L[k][a], L[k][b])
    BY <1>3, <2>2, <2>3
  <2>5. HashPairSorted(f[l], proof[l + 1]) = HashPairSorted(L[k][a], L[k][b])
    BY <1>2, <2>2, <2>3, <2>4
  <2>6. f[l] = L[k][a] \/ f[l] = L[k][b]
    BY <2>5, PairMember
  <2>7. \E r \in 1 .. len(k) : f[l] = L[k][r]
    BY <2>6
  <2> QED BY <2>7 DEF k, l
<1> HIDE DEF H
<1>8. \A j \in Nat : j \in H
  BY <1>6, <1>7, NatSetInduction
<1>9. CASE m = D
  <2>1. In(D)
    BY <1>0, <1>8, <1>9 DEF H
  <2>2. D - D = 0 /\ m - D = 0
    BY <1>0, <1>9
  <2> QED BY <1>1, <1>4, <2>1, <2>2 DEF n
<1>10. CASE m < D
  <2>1. In(m)
    <3> HIDE DEF In
    <3> QED BY <1>0, <1>8, <1>10 DEF H
  <2> DEFINE k == (D - m) - 1
  <2>2. k \in 0 .. D - 1 /\ k + 1 = D - m /\ m - m = 0
    BY <1>0, <1>10
  <2> HIDE DEF k
  <2>3. PICK q \in 1 .. len(k + 1) : x = L[k + 1][q]
    BY <1>1, <2>1, <2>2
  <2>4. PICK a, b : x = HashPairSorted(a, b)
    BY <1>3, <2>2, <2>3
  <2>5. x.pair = {a, b}
    BY <2>4, PairOf
  <2> QED BY <2>5
<1>11. CASE m > D
  <2>1. In(D)
    <3> HIDE DEF In
    <3> QED BY <1>0, <1>8, <1>11 DEF H
  <2> DEFINE k == (m - D) - 1
  <2>2. k \in 0 .. m - 1 /\ k + 1 = m - D /\ D - D = 0
    BY <1>0, <1>11
  <2> HIDE DEF k
  <2>3. PICK q \in 1 .. n : f[k + 1] = hashes[q]
    BY <1>1, <1>4, <2>1, <2>2
  <2>4. f[k + 1].pair = {f[k], proof[k + 1]} /\ hashes[q].pair = {}
    BY <1>2, <2>2, PairOf DEF n
  <2> QED BY <2>3, <2>4
<1> QED BY <1>0, <1>9, <1>10, <1>11

(* TreesVerify, which TLC evaluates for trees of up to seven leaves.        *)
THEOREM TreesOfAnySizeVerify == TreesVerify
<1> SUFFICES ASSUME NEW n \in 1 .. MaxLeaves, NEW i \in 1 .. n, NEW j \in 1 .. n
             PROVE  LET hashes == [k \in 1 .. n |-> HashLeaf(k, 1)]
                    IN  VerifyProof(hashes[j], ProofFor(hashes, i), Root(hashes)) <=> i = j
  BY DEF TreesVerify
<1> DEFINE S == {HashLeaf(k, 1) : k \in 1 .. n}
           hashes == [k \in 1 .. n |-> HashLeaf(k, 1)]
<1>1. n \in Nat
  OBVIOUS
<1>2. \A k \in 1 .. n : HashLeaf(k, 1) \in S
  OBVIOUS
<1> HIDE DEF S
<1>3. hashes \in Seq(S) /\ Len(hashes) = n
  BY <1>1, <1>2
<1>4. IsSeq(hashes) /\ Len(hashes) >= 1
  BY <1>3 DEF IsSeq
<1>5. hashes[j] = hashes[i] <=> i = j
  BY DEF HashLeaf
<1> HIDE DEF hashes
<1> QED BY <1>3, <1>4, <1>5, ProofsFitTheirLeaf DEF hashes

-----------------------------------------------------------------------------
(* The leaves of a snapshot *)

\* The list of the eligible wallets names each of them once.
LEMMA ListedFacts ==
    ASSUME NEW t
    PROVE  /\ Listed(t) \in Seq(Eligible(t)) /\ Len(Listed(t)) \in Nat
           /\ Eligible(t) # {} => Len(Listed(t)) >= 1
           /\ \A w \in Eligible(t) : \E i \in 1 .. Len(Listed(t)) : Listed(t)[i] = w
<1> DEFINE S == Eligible(t)
           n == Cardinality(S)
           list == Listed(t)
<1>1. IsFiniteSet(S)
  BY FS_Subset, DistributorAssumption DEF Eligible
<1>2. n \in Nat /\ ExistsBijection(1 .. n, S)
  BY <1>1, FS_CardinalityType
<1>3. PICK f \in Bijection(1 .. n, S) : TRUE
  BY <1>2 DEF ExistsBijection
<1>4. f \in [1 .. n -> S] /\ IsInjective(f)
  BY <1>3 DEF Bijection, Injection, Surjection, IsInjective
<1>5. list \in [1 .. n -> S] /\ IsInjective(list)
  <2>1. list = CHOOSE g \in [1 .. n -> S] : IsInjective(g)
    BY DEF Listed, SetToSeq
  <2> HIDE DEF S, n, list
  <2> QED BY <1>4, <2>1
<1> HIDE DEF list
<1>6. list \in Injection(1 .. n, S)
  BY <1>5 DEF Injection, IsInjective
<1>7. Cardinality(1 .. n) = n
  BY <1>2, FS_Interval
<1>8. list \in Surjection(1 .. n, S)
  BY <1>1, <1>6, <1>7, FS_Injection
<1>9. list \in Seq(S) /\ Len(list) = n
  BY <1>2, <1>5
<1>10. \A w \in S : \E i \in 1 .. n : list[i] = w
  BY <1>8 DEF Surjection
<1>11. S # {} => n >= 1
  BY <1>2, <1>10
<1> QED BY <1>2, <1>9, <1>10, <1>11 DEF list

LEMMA LeavesFacts ==
    ASSUME NEW t
    PROVE  /\ IsSeq(LeavesOf(t)) /\ Len(LeavesOf(t)) = Len(Listed(t))
           /\ \A i \in 1 .. Len(Listed(t)) :
                 LeavesOf(t)[i] = HashLeaf(Listed(t)[i], t[Listed(t)[i]])
<1> DEFINE n == Len(Listed(t))
           leaf(i) == HashLeaf(Listed(t)[i], t[Listed(t)[i]])
           S == {leaf(i) : i \in 1 .. n}
<1>1. n \in Nat
  BY ListedFacts
<1>2. LeavesOf(t) = [i \in 1 .. n |-> leaf(i)]
  BY DEF LeavesOf
<1> HIDE DEF n, leaf
<1>3. LeavesOf(t) \in [1 .. n -> S]
  BY <1>2
<1>4. LeavesOf(t) \in Seq(S) /\ Len(LeavesOf(t)) = n
  <2> HIDE DEF S
  <2> QED BY <1>1, <1>3
<1>5. IsSeq(LeavesOf(t))
  BY <1>4 DEF IsSeq
<1> QED BY <1>1, <1>2, <1>4, <1>5 DEF n, leaf

LEMMA LeafOf ==
    ASSUME NEW w, NEW p, NEW v, NEW q
    PROVE  /\ HashLeaf(w, p).pair = {}
           /\ HashLeaf(w, p) = HashLeaf(v, q) => w = v /\ p = q
BY DEF HashLeaf

\* What verifies against a root, by whatever proof, is a wallet with a leaf
\* under it, and its points there.
LEMMA VerifiesMeaning ==
    ASSUME NEW t, Eligible(t) # {}, NEW w, NEW p, NEW proof, Len(proof) \in Nat,
           VerifyProof(HashLeaf(w, p), proof, SnapshotRoot(t))
    PROVE  w \in Eligible(t) /\ p = t[w]
<1>1. IsSeq(LeavesOf(t)) /\ Len(LeavesOf(t)) >= 1
  BY LeavesFacts, ListedFacts
<1>2. \A i \in 1 .. Len(LeavesOf(t)) : LeavesOf(t)[i].pair = {}
  BY LeavesFacts, LeafOf
<1>3. VerifyProof(HashLeaf(w, p), proof, Root(LeavesOf(t)))
  BY DEF SnapshotRoot
<1>4. HashLeaf(w, p).pair = {}
  BY LeafOf
<1>5. PICK i \in 1 .. Len(LeavesOf(t)) : HashLeaf(w, p) = LeavesOf(t)[i]
  BY <1>1, <1>2, <1>3, <1>4, OnlyLeavesVerify
<1>6. HashLeaf(w, p) = HashLeaf(Listed(t)[i], t[Listed(t)[i]])
  BY <1>5, LeavesFacts
<1>7. w = Listed(t)[i] /\ p = t[Listed(t)[i]]
  BY <1>6, LeafOf
<1>8. Listed(t)[i] \in Eligible(t)
  BY <1>5, LeavesFacts, ListedFacts
<1> QED BY <1>7, <1>8

\* A payload with its wallet's points in its root verifies against that root.
LEMMA HonestVerifies ==
    ASSUME NEW a, a.wallet \in Eligible(a.root), a.points = a.root[a.wallet]
    PROVE  /\ Len(ProofOf(a)) \in Nat
           /\ VerifyProof(HashLeaf(a.wallet, a.points), ProofOf(a), SnapshotRoot(a.root))
<1> DEFINE t == a.root
           L == LeavesOf(t)
           place == CHOOSE i \in 1 .. Len(Listed(t)) : Listed(t)[i] = a.wallet
<1>1. place \in 1 .. Len(Listed(t)) /\ Listed(t)[place] = a.wallet
  BY ListedFacts
<1>2. ProofOf(a) = ProofFor(L, place)
  BY DEF ProofOf
<1> HIDE DEF place
<1>3. IsSeq(L) /\ Len(L) >= 1 /\ Len(L) = Len(Listed(t))
  BY LeavesFacts, ListedFacts
<1>4. place \in 1 .. Len(L)
  BY <1>1, <1>3
<1>5. L[place] = HashLeaf(a.wallet, a.points)
  BY <1>1, LeavesFacts
<1>6. SnapshotRoot(t) = Root(L)
  BY DEF SnapshotRoot
<1> HIDE DEF L
<1>7. VerifyProof(L[place], ProofFor(L, place), Root(L))
  BY <1>3, <1>4, ProofsFitTheirLeaf
<1>8. Len(ProofFor(L, place)) \in Nat
  <2>1. Len(ProofFor(L, place)) = Depth(L) /\ Depth(L) \in 0 .. Len(L) /\ Len(L) \in Nat
    BY <1>3, ProofForFacts, DepthFacts, SeqLength
  <2> QED BY <2>1
<1> QED BY <1>2, <1>5, <1>6, <1>7, <1>8

\* One proof of one leaf has one root.
LEMMA OneRoot ==
    ASSUME NEW leaf, NEW proof, NEW r, NEW s,
           VerifyProof(leaf, proof, r), VerifyProof(leaf, proof, s)
    PROVE  r = s
BY DEF VerifyProof

LEMMA LeafInBoth ==
    ASSUME NEW t, NEW u, Eligible(u) # {}, SnapshotRoot(t) = SnapshotRoot(u),
           NEW w \in Eligible(t)
    PROVE  w \in Eligible(u) /\ t[w] = u[w]
<1> DEFINE a == [wallet |-> w, points |-> t[w], root |-> t]
<1>1. /\ Len(ProofOf(a)) \in Nat
      /\ VerifyProof(HashLeaf(a.wallet, a.points), ProofOf(a), SnapshotRoot(a.root))
  <2>1. a.wallet = w /\ a.points = t[w] /\ a.root = t
    OBVIOUS
  <2> HIDE DEF a
  <2> QED BY <2>1, HonestVerifies
<1>2. VerifyProof(HashLeaf(w, t[w]), ProofOf(a), SnapshotRoot(u))
  BY <1>1
<1> HIDE DEF a
<1> QED BY <1>1, <1>2, VerifiesMeaning

(* A root commits to the totals it was built from: two sets of totals with  *)
(* the same root are equal, wallet by wallet.                               *)
THEOREM RootsCommit ==
    ASSUME NEW t \in Totals, NEW u \in Totals, Eligible(t) # {}, Eligible(u) # {},
           SnapshotRoot(t) = SnapshotRoot(u)
    PROVE  t = u
<1>1. \A w \in Eligible(t) : w \in Eligible(u) /\ t[w] = u[w]
  BY LeafInBoth
<1>2. \A w \in Eligible(u) : w \in Eligible(t) /\ u[w] = t[w]
  BY LeafInBoth
<1>3. ASSUME NEW w \in Wallets PROVE t[w] = u[w]
  <2>1. t[w] \in Nat /\ u[w] \in Nat
    BY DEF Totals, Amounts
  <2>2. CASE w \in Eligible(t) \/ w \in Eligible(u)
    BY <1>1, <1>2, <2>2
  <2>3. CASE w \notin Eligible(t) /\ w \notin Eligible(u)
    BY <2>1, <2>3 DEF Eligible
  <2> QED BY <2>2, <2>3
<1> QED BY <1>3 DEF Totals

-----------------------------------------------------------------------------
(* The program beside the server *)

\* Nothing is published of no wallet.
LEMMA RootsStep ==
    SnapshotInv /\ RootsHaveLeaves /\ [Next]_vars => RootsHaveLeaves'
<1> SUFFICES ASSUME SnapshotInv, RootsHaveLeaves, [Next]_vars PROVE RootsHaveLeaves'
  OBVIOUS
<1>0. TypeOK /\ TypeOK'
  BY SnapTypeStep DEF SnapshotInv
<1> DEFINE PubOK(s) == s.pc # "idle" => Eligible(s.totals) # {}
           RootOK(t) == t # None => Eligible(t) # {}
<1>1. RootsHaveLeaves <=> /\ \A p \in Publishers : PubOK(pub[p])
                          /\ \A c \in Cycles : RootOK(snapshots[c])
  BY DEF RootsHaveLeaves, Published
<1>2. RootsHaveLeaves' <=> /\ \A p \in Publishers : PubOK(pub'[p])
                           /\ \A c \in Cycles : RootOK(snapshots'[c])
  BY DEF RootsHaveLeaves, Published
<1>3. PubOK(NotPublishing)
  BY DEF NotPublishing
<1>4. SUFFICES /\ \A p \in Publishers : PubOK(pub'[p])
               /\ \A c \in Cycles : RootOK(snapshots'[c])
  BY <1>2
<1>5. ASSUME NEW p \in Publishers, LoadTotals(p)
      PROVE  UNCHANGED snapshots /\ \A q \in Publishers : PubOK(pub'[q])
  <2>1. pub' = [pub EXCEPT ![p] = [@ EXCEPT !.pc = "cycle", !.totals = points]]
    BY <1>5 DEF LoadTotals
  <2>2. PubOK([pub[p] EXCEPT !.pc = "cycle", !.totals = points])
    <3>1. [pub[p] EXCEPT !.pc = "cycle", !.totals = points].totals = points
      BY <1>0 DEF TypeOK
    <3> QED BY <1>5, <3>1 DEF LoadTotals
  <2>3. pub \in [Publishers -> PubTypes]
    BY <1>0, SnapTypeSplit
  <2> HIDE DEF PubOK
  <2> QED BY <1>1, <1>5, <2>1, <2>2, <2>3 DEF LoadTotals, tables
<1>6. ASSUME NEW p \in Publishers, PickCycle(p)
      PROVE  UNCHANGED snapshots /\ \A q \in Publishers : PubOK(pub'[q])
  <2>1. pub' = [pub EXCEPT ![p] = [@ EXCEPT !.pc = "insert", !.cycle = Latest + 1]]
    BY <1>6 DEF PickCycle
  <2>2. [pub[p] EXCEPT !.pc = "insert", !.cycle = Latest + 1].totals = pub[p].totals
    BY <1>0 DEF TypeOK
  <2>3. Eligible(pub[p].totals) # {}
    BY <1>1, <1>6 DEF PickCycle
  <2> QED BY <1>0, <1>1, <1>6, <2>1, <2>2, <2>3 DEF PickCycle, tables, TypeOK
<1>7. ASSUME NEW p \in Publishers, InsertSnapshot(p)
      PROVE  /\ \A q \in Publishers : PubOK(pub'[q])
             /\ \A c \in Cycles : RootOK(snapshots'[c])
  <2>1. Eligible(pub[p].totals) # {}
    BY <1>1, <1>7 DEF InsertSnapshot
  <2>2. CASE snapshots[pub[p].cycle] # None
    BY <1>0, <1>1, <1>3, <1>7, <2>2 DEF InsertSnapshot, TypeOK
  <2>3. CASE snapshots[pub[p].cycle] = None
    <3>1. /\ snapshots' = [snapshots EXCEPT ![pub[p].cycle] = pub[p].totals]
          /\ pub' = [pub EXCEPT ![p] =
                       [@ EXCEPT !.pc = "leaves", !.todo = Eligible(pub[p].totals)]]
      BY <1>7, <2>3 DEF InsertSnapshot
    <3>2. [pub[p] EXCEPT !.pc = "leaves", !.todo = Eligible(pub[p].totals)].totals = pub[p].totals
      BY <1>0 DEF TypeOK
    <3>3. \A q \in Publishers : PubOK(pub'[q])
      BY <1>0, <1>1, <2>1, <3>1, <3>2 DEF TypeOK
    <3>4. \A c \in Cycles : RootOK(snapshots'[c])
      BY <1>0, <1>1, <2>1, <3>1 DEF TypeOK
    <3> QED BY <1>7, <3>3, <3>4 DEF InsertSnapshot
  <2> QED BY <2>2, <2>3
<1>8. ASSUME NEW p \in Publishers, InsertLeaf(p)
      PROVE  UNCHANGED snapshots /\ \A q \in Publishers : PubOK(pub'[q])
  <2>1. PICK w \in pub[p].todo :
          pub' = [pub EXCEPT ![p] = IF pub[p].todo = {w} THEN NotPublishing
                                    ELSE [pub[p] EXCEPT !.todo = pub[p].todo \ {w}]]
    BY <1>8 DEF InsertLeaf
  <2>2. PubOK([pub[p] EXCEPT !.todo = pub[p].todo \ {w}])
    BY <1>0, <1>1 DEF TypeOK
  <2> HIDE DEF PubOK
  <2> QED BY <1>0, <1>1, <1>3, <1>8, <2>1, <2>2 DEF InsertLeaf, TypeOK
<1>9. ASSUME NEW p \in Publishers, PublishFails(p)
      PROVE  UNCHANGED snapshots /\ \A q \in Publishers : PubOK(pub'[q])
  BY <1>0, <1>1, <1>3, <1>9 DEF PublishFails, tables, TypeOK
<1>10. ASSUME NEW r \in Readers, ReadLatest(r) \/ ReadLeaf(r)
       PROVE  UNCHANGED <<snapshots, pub>>
  BY <1>10 DEF ReadLatest, ReadLeaf, tables
<1>11. CASE Restart
  BY <1>1, <1>3, <1>11 DEF Restart, tables
<1>12. ASSUME NEW w \in Wallets, Earn(w) PROVE UNCHANGED <<snapshots, pub>>
  BY <1>12 DEF Earn
<1> HIDE DEF PubOK, RootOK
<1> QED BY <1>1, <1>5, <1>6, <1>7, <1>8, <1>9, <1>10, <1>11, <1>12
    DEF Next, Publish, vars

-----------------------------------------------------------------------------
(* Receipts *)

Payments == Nat \cup {None}
Paid(row, S) == {x \in S : row[x] # None}
PaidIn(row, S) == SumFunctionOnSet(row, Paid(row, S))

\* A receipt where there was none adds its amount to the sum.
LEMMA ReceiptAdds ==
    ASSUME NEW S, IsFiniteSet(S), NEW row \in [S -> Payments], NEW x \in S, row[x] = None,
           NEW amount \in Nat, NEW paid, \A y \in S : paid[y] = IF y = x THEN amount ELSE row[y]
    PROVE  PaidIn(row, S) \in Nat /\ PaidIn(paid, S) = PaidIn(row, S) + amount
<1> DEFINE P == Paid(row, S)
<1>1. IsFiniteSet(P) /\ x \notin P
  <2>1. P \subseteq S
    BY DEF Paid
  <2> QED BY <2>1, FS_Subset DEF Paid
<1>2. amount # None
  BY SnapshotAssumption
<1>3. Paid(paid, S) = P \cup {x}
  BY <1>2 DEF Paid
<1>4. \A y \in P : row[y] = paid[y] /\ row[y] \in Nat
  BY <1>1 DEF Paid, Payments
<1>5. \A y \in P \cup {x} : paid[y] \in Nat
  BY <1>4
<1>6. paid[x] = amount
  OBVIOUS
<1> HIDE DEF P
<1>7. SumFunctionOnSet(paid, P \cup {x}) = paid[x] + SumFunctionOnSet(paid, P)
  BY <1>1, <1>5, SumAdd
<1>8. SumFunctionOnSet(row, P) = SumFunctionOnSet(paid, P)
  BY <1>1, <1>4, SumSame
<1>9. SumFunctionOnSet(row, P) \in Nat
  BY <1>1, <1>4, SumOfNats
<1>10. PaidIn(row, S) = SumFunctionOnSet(row, P)
  BY DEF PaidIn, P
<1>11. PaidIn(paid, S) = SumFunctionOnSet(paid, P \cup {x})
  BY <1>3 DEF PaidIn
<1> QED BY <1>6, <1>7, <1>8, <1>9, <1>10, <1>11

\* The same rows have the same sums.
LEMMA ReceiptsSame ==
    ASSUME NEW S, IsFiniteSet(S), NEW row, NEW paid, \A y \in S : paid[y] = row[y]
    PROVE  PaidIn(paid, S) = PaidIn(row, S)
<1>1. Paid(paid, S) = Paid(row, S) /\ Paid(row, S) \subseteq S
  BY DEF Paid
<1>2. IsFiniteSet(Paid(row, S))
  BY <1>1, FS_Subset
<1>3. \A y \in Paid(row, S) : paid[y] = row[y]
  BY <1>1
<1>4. SumFunctionOnSet(paid, Paid(row, S)) = SumFunctionOnSet(row, Paid(row, S))
  BY <1>2, <1>3, SumSame
<1> QED BY <1>1, <1>4 DEF PaidIn

LEMMA BalanceRows ==
    VaultsBalance <=>
       /\ \A c \in Cycles : deposited[c] = vault[c] + PaidIn(receipts[c], Wallets)
       /\ \A w \in Wallets : held[w] = PaidIn([c \in Cycles |-> receipts[c][w]], Cycles)
<1>1. \A c \in Cycles : PaidBy(c) = Paid(receipts[c], Wallets)
  BY DEF PaidBy, Paid
<1>2. \A w \in Wallets : PaidTo(w) = Paid([c \in Cycles |-> receipts[c][w]], Cycles)
  BY DEF PaidTo, Paid
<1> QED BY <1>1, <1>2, Zenon DEF VaultsBalance, PaidIn

LEMMA BalanceRowsNext ==
    VaultsBalance' <=>
       /\ \A c \in Cycles : deposited'[c] = vault'[c] + PaidIn(receipts'[c], Wallets)
       /\ \A w \in Wallets : held'[w] = PaidIn([c \in Cycles |-> receipts'[c][w]], Cycles)
<1>1. \A c \in Cycles : PaidBy(c)' = Paid(receipts'[c], Wallets)
  BY DEF PaidBy, Paid
<1>2. \A w \in Wallets : PaidTo(w)' = Paid([c \in Cycles |-> receipts'[c][w]], Cycles)
  BY DEF PaidTo, Paid
<1> QED BY <1>1, <1>2, Zenon DEF VaultsBalance, PaidIn

LEMMA FiniteRows == IsFiniteSet(Wallets) /\ IsFiniteSet(Cycles)
<1>1. IsFiniteSet(1 .. MaxCycle)
  BY SnapshotAssumption, FS_Interval
<1> QED BY <1>1, DistributorAssumption DEF Cycles

-----------------------------------------------------------------------------
(* claim *)

ChainTypes ==
    /\ distributors \in [Cycles -> Distributors \cup {None}]
    /\ vault \in [Cycles -> 0 .. MaxTokens]
    /\ receipts \in [Cycles -> [Wallets -> 0 .. MaxTokens \cup {None}]]
    /\ held \in [Wallets -> Nat]
    /\ deposited \in [Cycles -> 0 .. MaxDeposited]

LEMMA ClaimTypeSplit == ClaimTypeOK <=> TypeOK /\ ChainTypes
BY DEF ClaimTypeOK, ChainTypes

\* What is published is of some wallet, and in Totals.
LEMMA PublishedFacts ==
    ASSUME SnapshotInv, RootsHaveLeaves, NEW d \in Published
    PROVE  d \in Cycles /\ snapshots[d] \in Totals /\ Eligible(snapshots[d]) # {}
BY DEF SnapshotInv, TypeOK, RootsHaveLeaves, Published

\* What a proved receipt is worth where the root is that of some totals.
LEMMA ProvedReceipt ==
    ASSUME NEW t \in Totals, Eligible(t) # {}, NEW w, NEW rate, NEW amount, NEW root,
           root = SnapshotRoot(t),
           \E points_ \in Claimed, proof \in Proofs :
              VerifyProof(HashLeaf(w, points_), proof, root) /\ amount = rate * points_
    PROVE  w \in Eligible(t) /\ amount = rate * t[w]
<1>1. PICK points_ \in Claimed, proof \in Proofs :
        VerifyProof(HashLeaf(w, points_), proof, root) /\ amount = rate * points_
  OBVIOUS
<1>2. Len(proof) \in Nat
  BY DistributorAssumption
<1>3. w \in Eligible(t) /\ points_ = t[w]
  BY <1>1, <1>2, VerifiesMeaning
<1> QED BY <1>1, <1>3

\* What a claim that succeeds does to the ledger.
LEMMA ClaimFacts ==
    ASSUME ClaimInv, NEW c \in Cycles, NEW w \in Wallets, NEW points_ \in Claimed,
           NEW proof \in Proofs, Claim(c, w, points_, proof)
    PROVE  \E amount \in Nat :
              /\ receipts[c][w] = None /\ distributors[c] # None
              /\ amount <= vault[c] /\ amount <= MaxTokens
              /\ VerifyProof(HashLeaf(w, points_), proof, distributors[c].root)
              /\ amount = distributors[c].rate * points_
              /\ Pay(c, w, amount)
<1> DEFINE rate == distributors[c].rate
           amount == Payout(points_, rate)
<1>1. /\ distributors[c] # None /\ receipts[c][w] = None
      /\ VerifyProof(HashLeaf(w, points_), proof, distributors[c].root)
      /\ amount <= MaxTokens /\ amount <= vault[c] /\ Pay(c, w, amount)
  BY DEF Claim
<1>2. distributors[c] \in Distributors
  BY <1>1, ClaimTypeSplit DEF ClaimInv, ChainTypes
<1>3. rate \in Rates
  BY <1>2 DEF Distributors
<1>4. rate \in Nat /\ points_ \in Nat
  BY <1>3, DistributorAssumption
<1> HIDE DEF rate
<1>5. amount = rate * points_ /\ amount \in Nat
  BY <1>4 DEF Payout
<1> HIDE DEF amount
<1> QED BY <1>1, <1>5 DEF rate

-----------------------------------------------------------------------------
(* The invariant *)

LEMMA ClaimInvInit == ClaimInit => ClaimInv
<1> SUFFICES ASSUME ClaimInit PROVE ClaimInv
  OBVIOUS
<1>1. SnapshotInv /\ TypeOK
  BY SnapshotInvInit DEF ClaimInit, SnapshotInv
<1>2. ChainTypes
  BY DistributorAssumption DEF ClaimInit, ChainTypes
<1>3. RootsHaveLeaves
  BY DEF ClaimInit, Init, RootsHaveLeaves, Published, NotPublishing
<1>4. AuthorityCopiesRoots
  BY DEF ClaimInit, AuthorityCopiesRoots
<1>5. ReceiptsAreProved
  BY DEF ClaimInit, ReceiptsAreProved, PaidBy
<1>6. VaultsBalance
  <2>1. ASSUME NEW c \in Cycles
        PROVE  deposited[c] = vault[c] + SumFunctionOnSet(receipts[c], PaidBy(c))
    <3>1. PaidBy(c) = {} /\ deposited[c] = 0 /\ vault[c] = 0
      BY DEF ClaimInit, PaidBy
    <3>2. SumFunctionOnSet(receipts[c], {}) = 0
      BY SumEmpty
    <3> QED BY <3>1, <3>2
  <2>2. ASSUME NEW w \in Wallets
        PROVE  held[w] = SumFunctionOnSet([c \in Cycles |-> receipts[c][w]], PaidTo(w))
    <3>1. PaidTo(w) = {} /\ held[w] = 0
      BY DEF ClaimInit, PaidTo
    <3>2. SumFunctionOnSet([c \in Cycles |-> receipts[c][w]], {}) = 0
      BY SumEmpty
    <3> QED BY <3>1, <3>2
  <2> QED BY <2>1, <2>2, Zenon DEF VaultsBalance
<1> QED BY <1>1, <1>2, <1>3, <1>4, <1>5, <1>6, ClaimTypeSplit DEF ClaimInv

\* The server's own steps.
LEMMA ClaimServer == ClaimInv /\ [Next]_vars /\ UNCHANGED chain => ClaimInv'
<1> SUFFICES ASSUME ClaimInv, [Next]_vars, UNCHANGED chain PROVE ClaimInv'
  OBVIOUS
<1>0. SnapshotInv /\ RootsHaveLeaves /\ ClaimTypeOK /\ TypeOK
  BY DEF ClaimInv, SnapshotInv
<1>1. SnapshotInv' /\ RootsHaveLeaves' /\ TypeOK'
  BY <1>0, SnapshotInvStep, RootsStep DEF SnapshotInv
<1>2. UNCHANGED <<distributors, vault, receipts, held, deposited>>
  BY DEF chain
<1>3. \A c \in Cycles : snapshots[c] # None => snapshots'[c] = snapshots[c]
  BY <1>0, TablesStep
<1>4. ClaimTypeOK'
  BY <1>0, <1>1, <1>2 DEF ClaimTypeOK
<1>5. AuthorityCopiesRoots'
  BY <1>2, <1>3 DEF ClaimInv, AuthorityCopiesRoots
<1>6. VaultsBalance'
  BY <1>2 DEF ClaimInv, VaultsBalance, PaidBy, PaidTo
<1>7. ReceiptsAreProved'
  BY <1>2 DEF ClaimInv, ReceiptsAreProved, PaidBy
<1> QED BY <1>1, <1>4, <1>5, <1>6, <1>7 DEF ClaimInv

\* The parts of the invariant that are about the server alone.
LEMMA ServerUnchanged ==
    ASSUME ClaimInv, UNCHANGED vars
    PROVE  SnapshotInv' /\ RootsHaveLeaves' /\ TypeOK' /\ snapshots' = snapshots
<1>1. SnapshotInv /\ RootsHaveLeaves
  BY DEF ClaimInv
<1>2. SnapshotInv' /\ RootsHaveLeaves'
  BY <1>1, SnapshotInvStep, RootsStep
<1> QED BY <1>2 DEF SnapshotInv, vars

\* Whoever makes a distributor: the authority of a published root.
LEMMA ClaimInitialize ==
    ASSUME ClaimInv, NEW c \in Cycles, NEW signer \in Strangers \cup {Authority},
           NEW root, NEW rate \in Rates, InitializeDistributor(c, signer, root, rate),
           root \in Roots \cup {SnapshotRoot(t) : t \in {u \in Totals : Eligible(u) # {}}},
           signer = Authority => snapshots[c] # None /\ root = SnapshotRoot(snapshots[c])
    PROVE  ClaimInv'
<1> DEFINE d == [authority |-> signer, root |-> root, rate |-> rate]
<1>1. SnapshotInv' /\ RootsHaveLeaves' /\ TypeOK' /\ snapshots' = snapshots
  BY ServerUnchanged DEF InitializeDistributor
<1>2. /\ distributors' = [distributors EXCEPT ![c] = d] /\ distributors[c] = None
      /\ UNCHANGED <<vault, receipts, held, deposited>>
  BY DEF InitializeDistributor
<1>3. ChainTypes
  BY ClaimTypeSplit DEF ClaimInv
<1>4. d \in Distributors /\ d.authority = signer /\ d.root = root
  BY DEF Distributors
<1> HIDE DEF d
<1>5. ClaimTypeOK'
  BY <1>1, <1>2, <1>3, <1>4 DEF ChainTypes, ClaimTypeOK
<1>6. \A e \in Cycles : distributors'[e] = IF e = c THEN d ELSE distributors[e]
  BY <1>2, <1>3 DEF ChainTypes
<1>7. AuthorityCopiesRoots'
  BY <1>1, <1>4, <1>6 DEF ClaimInv, AuthorityCopiesRoots
<1>8. VaultsBalance'
  BY <1>2 DEF ClaimInv, VaultsBalance, PaidBy, PaidTo
<1>9. ReceiptsAreProved'
  <2>1. SUFFICES ASSUME NEW e \in Cycles, NEW w \in Wallets, receipts'[e][w] # None
                 PROVE  /\ distributors'[e] # None
                        /\ \E points_ \in Claimed, proof \in Proofs :
                              /\ VerifyProof(HashLeaf(w, points_), proof, distributors'[e].root)
                              /\ receipts'[e][w] = distributors'[e].rate * points_
    BY DEF ReceiptsAreProved, PaidBy
  <2>2. receipts'[e][w] = receipts[e][w] /\ distributors[e] # None
    BY <1>2, <2>1 DEF ClaimInv, ReceiptsAreProved, PaidBy
  <2>3. distributors'[e] = distributors[e]
    BY <1>2, <1>6, <2>2
  <2> QED BY <2>1, <2>2, <2>3 DEF ClaimInv, ReceiptsAreProved, PaidBy
<1> QED BY <1>1, <1>5, <1>7, <1>8, <1>9 DEF ClaimInv

LEMMA ClaimPublish ==
    ASSUME ClaimInv, NEW c \in Cycles, PublishRoot(c) \/ TakeCycle(c)
    PROVE  ClaimInv'
<1> DEFINE R == {SnapshotRoot(t) : t \in {u \in Totals : Eligible(u) # {}}}
<1>1. CASE PublishRoot(c)
  <2>1. PICK rate \in Rates :
          InitializeDistributor(c, Authority, SnapshotRoot(snapshots[c]), rate)
    BY <1>1 DEF PublishRoot
  <2>2. c \in Published /\ snapshots[c] # None
    BY <1>1 DEF PublishRoot, Published
  <2>3. snapshots[c] \in Totals /\ Eligible(snapshots[c]) # {}
    BY <2>2, PublishedFacts DEF ClaimInv
  <2>4. SnapshotRoot(snapshots[c]) \in Roots \cup R
    BY <2>3
  <2> QED BY <2>1, <2>2, <2>4, ClaimInitialize
<1>2. CASE TakeCycle(c)
  <2>1. PICK s \in Strangers, root \in Roots, rate \in Rates :
          InitializeDistributor(c, s, root, rate)
    BY <1>2 DEF TakeCycle
  <2>2. s # Authority
    BY DistributorAssumption
  <2>3. root \in Roots \cup R
    OBVIOUS
  <2> QED BY <2>1, <2>2, <2>3, ClaimInitialize
<1> QED BY <1>1, <1>2

LEMMA ClaimDeposit ==
    ASSUME ClaimInv, NEW c \in Cycles, Deposit(c)
    PROVE  ClaimInv'
<1>1. SnapshotInv' /\ RootsHaveLeaves' /\ TypeOK' /\ snapshots' = snapshots
  BY ServerUnchanged DEF Deposit
<1>2. PICK a \in Deposits :
        /\ deposited[c] + a <= MaxDeposited /\ vault[c] + a <= MaxTokens
        /\ vault' = [vault EXCEPT ![c] = @ + a]
        /\ deposited' = [deposited EXCEPT ![c] = @ + a]
  BY DEF Deposit
<1>3. UNCHANGED <<distributors, receipts, held>> /\ a \in Nat
  BY DistributorAssumption DEF Deposit
<1>4. ChainTypes
  BY ClaimTypeSplit DEF ClaimInv
<1>5. \A d \in Cycles : deposited[d] \in Nat /\ vault[d] \in Nat
  BY <1>4 DEF ChainTypes
<1>6. /\ vault[c] + a \in 0 .. MaxTokens
      /\ deposited[c] + a \in 0 .. MaxDeposited
  BY <1>2, <1>3, <1>5, DistributorAssumption
<1>7. ClaimTypeOK'
  BY <1>1, <1>2, <1>3, <1>4, <1>6 DEF ChainTypes, ClaimTypeOK
<1>8. AuthorityCopiesRoots'
  BY <1>1, <1>3 DEF ClaimInv, AuthorityCopiesRoots
<1>9. VaultsBalance'
  <2>1. /\ \A d \in Cycles : deposited[d] = vault[d] + PaidIn(receipts[d], Wallets)
        /\ \A w \in Wallets : held[w] = PaidIn([d \in Cycles |-> receipts[d][w]], Cycles)
    BY BalanceRows DEF ClaimInv
  <2>2. \A d \in Cycles : PaidIn(receipts[d], Wallets) \in Nat
    <3>1. SUFFICES ASSUME NEW d \in Cycles PROVE PaidIn(receipts[d], Wallets) \in Nat
      OBVIOUS
    <3>2. IsFiniteSet(Paid(receipts[d], Wallets))
      <4>1. Paid(receipts[d], Wallets) \subseteq Wallets
        BY DEF Paid
      <4> QED BY <4>1, FiniteRows, FS_Subset
    <3>3. \A w \in Paid(receipts[d], Wallets) : receipts[d][w] \in Nat
      BY <1>4 DEF ChainTypes, Paid
    <3> QED BY <3>2, <3>3, SumOfNats DEF PaidIn
  <2>3. \A d \in Cycles : deposited'[d] = vault'[d] + PaidIn(receipts[d], Wallets)
    <3>1. SUFFICES ASSUME NEW d \in Cycles
                   PROVE  deposited'[d] = vault'[d] + PaidIn(receipts[d], Wallets)
      OBVIOUS
    <3>2. deposited[d] = vault[d] + PaidIn(receipts[d], Wallets)
      BY <2>1
    <3>3. /\ deposited'[d] = IF d = c THEN deposited[d] + a ELSE deposited[d]
          /\ vault'[d] = IF d = c THEN vault[d] + a ELSE vault[d]
      BY <1>2, <1>4 DEF ChainTypes
    <3> QED BY <1>3, <1>5, <2>2, <3>2, <3>3
  <2> QED BY <1>3, <2>1, <2>3, BalanceRowsNext
<1>10. ReceiptsAreProved'
  BY <1>3 DEF ClaimInv, ReceiptsAreProved, PaidBy
<1> QED BY <1>1, <1>7, <1>8, <1>9, <1>10 DEF ClaimInv

LEMMA ClaimPays ==
    ASSUME ClaimInv, NEW c \in Cycles, NEW w \in Wallets, NEW points_ \in Claimed,
           NEW proof \in Proofs, Claim(c, w, points_, proof)
    PROVE  ClaimInv'
<1>1. SnapshotInv' /\ RootsHaveLeaves' /\ TypeOK' /\ snapshots' = snapshots
  BY ServerUnchanged DEF Claim
<1>2. PICK amount \in Nat :
        /\ receipts[c][w] = None /\ distributors[c] # None
        /\ amount <= vault[c] /\ amount <= MaxTokens
        /\ VerifyProof(HashLeaf(w, points_), proof, distributors[c].root)
        /\ amount = distributors[c].rate * points_
        /\ Pay(c, w, amount)
  BY ClaimFacts
<1>3. UNCHANGED <<distributors, deposited>>
  BY DEF Claim
<1>4. ChainTypes
  BY ClaimTypeSplit DEF ClaimInv
<1>5. /\ \A d \in Cycles : vault'[d] = IF d = c THEN vault[d] - amount ELSE vault[d]
      /\ \A v \in Wallets : held'[v] = IF v = w THEN held[v] + amount ELSE held[v]
      /\ \A d \in Cycles, v \in Wallets :
            receipts'[d][v] = IF d = c /\ v = w THEN amount ELSE receipts[d][v]
  BY <1>2, <1>4 DEF Pay, ChainTypes
<1>6. /\ \A d \in Cycles : vault[d] \in Nat /\ vault[d] <= MaxTokens
      /\ \A v \in Wallets : held[v] \in Nat
      /\ \A d \in Cycles : deposited[d] \in Nat
  BY <1>4 DEF ChainTypes
<1>7. ClaimTypeOK'
  <2>1. vault' \in [Cycles -> 0 .. MaxTokens]
    <3>1. vault[c] - amount \in 0 .. MaxTokens
      BY <1>2, <1>6, DistributorAssumption
    <3> QED BY <1>2, <1>4, <3>1 DEF Pay, ChainTypes
  <2>2. held' \in [Wallets -> Nat]
    <3>1. held[w] + amount \in Nat
      BY <1>6
    <3> QED BY <1>2, <1>4, <3>1 DEF Pay, ChainTypes
  <2>3. receipts' \in [Cycles -> [Wallets -> 0 .. MaxTokens \cup {None}]]
    <3>1. amount \in 0 .. MaxTokens
      BY <1>2, DistributorAssumption
    <3>2. [receipts[c] EXCEPT ![w] = amount] \in [Wallets -> 0 .. MaxTokens \cup {None}]
      BY <1>4, <3>1 DEF ChainTypes
    <3>3. receipts' = [receipts EXCEPT ![c] = [receipts[c] EXCEPT ![w] = amount]]
      BY <1>2, <1>4 DEF Pay, ChainTypes
    <3> QED BY <1>4, <3>2, <3>3 DEF ChainTypes
  <2> QED BY <1>1, <1>3, <1>4, <2>1, <2>2, <2>3 DEF ChainTypes, ClaimTypeOK
<1>8. AuthorityCopiesRoots'
  BY <1>1, <1>3 DEF ClaimInv, AuthorityCopiesRoots
<1>9. VaultsBalance'
  <2> DEFINE row(d) == receipts[d]
             column(v) == [d \in Cycles |-> receipts[d][v]]
             rowNext(d) == receipts'[d]
             columnNext(v) == [d \in Cycles |-> receipts'[d][v]]
  <2>1. /\ \A d \in Cycles : deposited[d] = vault[d] + PaidIn(row(d), Wallets)
        /\ \A v \in Wallets : held[v] = PaidIn(column(v), Cycles)
    BY BalanceRows DEF ClaimInv
  <2>2. row(c) \in [Wallets -> Payments] /\ column(w) \in [Cycles -> Payments]
    BY <1>4 DEF ChainTypes, Payments
  <2>3. row(c)[w] = None /\ column(w)[c] = None
    BY <1>2
  <2>4. /\ \A v \in Wallets : rowNext(c)[v] = IF v = w THEN amount ELSE row(c)[v]
        /\ \A d \in Cycles : columnNext(w)[d] = IF d = c THEN amount ELSE column(w)[d]
    BY <1>5
  <2>5. /\ \A d \in Cycles : d # c => \A v \in Wallets : rowNext(d)[v] = row(d)[v]
        /\ \A v \in Wallets : v # w => \A d \in Cycles : columnNext(v)[d] = column(v)[d]
    BY <1>5
  <2>6. deposited' = deposited
    BY <1>3
  <2> HIDE DEF row, column, rowNext, columnNext
  <2>7. /\ PaidIn(row(c), Wallets) \in Nat
        /\ PaidIn(rowNext(c), Wallets) = PaidIn(row(c), Wallets) + amount
    BY <2>2, <2>3, <2>4, FiniteRows, ReceiptAdds
  <2>8. PaidIn(columnNext(w), Cycles) = PaidIn(column(w), Cycles) + amount
    BY <2>2, <2>3, <2>4, FiniteRows, ReceiptAdds
  <2>9. \A d \in Cycles : deposited'[d] = vault'[d] + PaidIn(rowNext(d), Wallets)
    <3>1. SUFFICES ASSUME NEW d \in Cycles
                   PROVE  deposited'[d] = vault'[d] + PaidIn(rowNext(d), Wallets)
      OBVIOUS
    <3>2. CASE d = c
      <4>1. deposited[c] = vault[c] + PaidIn(row(c), Wallets) /\ vault'[c] = vault[c] - amount
        BY <1>5, <2>1
      <4> QED BY <1>2, <1>6, <2>6, <2>7, <3>2, <4>1
    <3>3. CASE d # c
      <4>1. PaidIn(rowNext(d), Wallets) = PaidIn(row(d), Wallets)
        BY <2>5, <3>3, FiniteRows, ReceiptsSame
      <4> QED BY <1>5, <2>1, <2>6, <3>3, <4>1
    <3> QED BY <3>2, <3>3
  <2>10. \A v \in Wallets : held'[v] = PaidIn(columnNext(v), Cycles)
    <3>1. SUFFICES ASSUME NEW v \in Wallets
                   PROVE  held'[v] = PaidIn(columnNext(v), Cycles)
      OBVIOUS
    <3>2. CASE v = w
      BY <1>5, <2>1, <2>8, <3>2
    <3>3. CASE v # w
      <4>1. PaidIn(columnNext(v), Cycles) = PaidIn(column(v), Cycles)
        BY <2>5, <3>3, FiniteRows, ReceiptsSame
      <4> QED BY <1>5, <2>1, <3>3, <4>1
    <3> QED BY <3>2, <3>3
  <2> QED BY <2>9, <2>10, BalanceRowsNext DEF rowNext, columnNext
<1>10. ReceiptsAreProved'
  <2>1. SUFFICES ASSUME NEW d \in Cycles, NEW v \in Wallets, receipts'[d][v] # None
                 PROVE  /\ distributors[d] # None
                        /\ \E q \in Claimed, pf \in Proofs :
                              /\ VerifyProof(HashLeaf(v, q), pf, distributors[d].root)
                              /\ receipts'[d][v] = distributors[d].rate * q
    BY <1>3 DEF ReceiptsAreProved, PaidBy
  <2>2. CASE d = c /\ v = w
    <3>1. receipts'[d][v] = amount
      BY <1>5, <2>2
    <3> QED BY <1>2, <2>2, <3>1
  <2>3. CASE ~ (d = c /\ v = w)
    <3>1. receipts'[d][v] = receipts[d][v]
      BY <1>5, <2>3
    <3> QED BY <2>1, <3>1 DEF ClaimInv, ReceiptsAreProved, PaidBy
  <2> QED BY <2>2, <2>3
<1> QED BY <1>1, <1>7, <1>8, <1>9, <1>10 DEF ClaimInv

LEMMA ClaimInvStep == ClaimInv /\ [ClaimNext]_claimVars => ClaimInv'
<1> SUFFICES ASSUME ClaimInv, [ClaimNext]_claimVars PROVE ClaimInv'
  OBVIOUS
<1>1. CASE [Next]_vars /\ UNCHANGED chain
  BY <1>1, ClaimServer
<1>2. ASSUME NEW c \in Cycles, PublishRoot(c) \/ TakeCycle(c) \/ Deposit(c) PROVE ClaimInv'
  BY <1>2, ClaimPublish, ClaimDeposit
<1>3. ASSUME NEW c \in Cycles, NEW w \in Wallets, NEW points_ \in Claimed, NEW proof \in Proofs,
             Claim(c, w, points_, proof)
      PROVE  ClaimInv'
  BY <1>3, ClaimPays
<1> QED BY <1>1, <1>2, <1>3 DEF ClaimNext, claimVars

LEMMA ClaimInvariant == ClaimSpec => []ClaimInv
BY ClaimInvInit, ClaimInvStep, PTL DEF ClaimSpec

-----------------------------------------------------------------------------
(* Theorems *)

(* The accounts of the program have the shape their types declare: a vault  *)
(* and a receipt fit u64, for any wallets, cycles, rate and deposits.       *)
THEOREM ClaimTypeCorrect == ClaimSpec => []ClaimTypeOK
<1>1. ClaimInv => ClaimTypeOK BY DEF ClaimInv
<1> QED BY <1>1, ClaimInvariant, PTL

(* What a vault received is what it holds and what its receipts add up to,  *)
(* and what a wallet holds is what its receipts add up to, whoever claims   *)
(* when, twice, late or at another cycle's distributor.                     *)
THEOREM VaultsAlwaysBalance == ClaimSpec => []VaultsBalance
<1>1. ClaimInv => VaultsBalance BY DEF ClaimInv
<1> QED BY <1>1, ClaimInvariant, PTL

(* Whoever made a distributor and whatever points and proofs wallets claim  *)
(* with: if its root is that of a published snapshot, its receipts are of   *)
(* wallets of that snapshot, the rate times their points there.             *)
THEOREM PayoutsAreOfTheSnapshot == ClaimSpec => []PayoutsMatchSnapshot
<1>1. ClaimInv => PayoutsMatchSnapshot
  <2>1. SUFFICES ASSUME ClaimInv, NEW c \in Cycles, NEW w \in PaidBy(c)
                 PROVE  /\ distributors[c] # None
                        /\ \A d \in Published :
                              distributors[c].root = SnapshotRoot(snapshots[d]) =>
                                 /\ snapshots[d][w] > 0
                                 /\ receipts[c][w] = distributors[c].rate * snapshots[d][w]
    BY DEF PayoutsMatchSnapshot
  <2> DEFINE amount == receipts[c][w]
             rate == distributors[c].rate
             root == distributors[c].root
  <2>2. /\ distributors[c] # None
        /\ \E points_ \in Claimed, proof \in Proofs :
              VerifyProof(HashLeaf(w, points_), proof, root) /\ amount = rate * points_
    BY <2>1 DEF ClaimInv, ReceiptsAreProved
  <2> HIDE DEF amount, rate, root
  <2>3. ASSUME NEW d \in Published, root = SnapshotRoot(snapshots[d])
        PROVE  snapshots[d][w] > 0 /\ amount = rate * snapshots[d][w]
    <3>1. snapshots[d] \in Totals /\ Eligible(snapshots[d]) # {}
      BY <2>1, PublishedFacts DEF ClaimInv
    <3>2. w \in Eligible(snapshots[d]) /\ amount = rate * snapshots[d][w]
      BY <2>2, <2>3, <3>1, ProvedReceipt
    <3> QED BY <3>2 DEF Eligible
  <2> QED BY <2>2, <2>3 DEF amount, rate, root
<1> QED BY <1>1, ClaimInvariant, PTL

(* A payload of the server verifies exactly where the root is the one it    *)
(* was proved in - at the authority's distributor of its cycle, and at a    *)
(* stranger's only if that has the very same root.                          *)
THEOREM PayloadsVerifyOnTheChain == ClaimSpec => []PayloadsVerifyOnChain
<1>1. ClaimInv => PayloadsVerifyOnChain
  <2>1. SUFFICES ASSUME ClaimInv, NEW d \in Cycles, NEW w \in Wallets, leaves[d][w] # None,
                        NEW c \in Cycles, distributors[c] # None
                 PROVE  LET a == PayloadOf(w, d)
                            verifies == VerifyProof(HashLeaf(w, a.points), ProofOf(a),
                                                    distributors[c].root)
                        IN  /\ verifies <=> distributors[c].root = SnapshotRoot(a.root)
                            /\ c = d /\ distributors[c].authority = Authority => verifies
    BY DEF PayloadsVerifyOnChain
  <2> DEFINE a == PayloadOf(w, d)
             root == distributors[c].root
  <2>2. a.wallet = w /\ a.root = snapshots[d] /\ a.points = leaves[d][w]
    BY DEF PayloadOf
  <2>3. leaves[d][w] = snapshots[d][w] /\ leaves[d][w] > 0
    BY <2>1 DEF ClaimInv, SnapshotInv, LeavesMatchRoot
  <2>4. c = d /\ distributors[c].authority = Authority => root = SnapshotRoot(snapshots[d])
    BY <2>1 DEF ClaimInv, AuthorityCopiesRoots
  <2> HIDE DEF a, root
  <2>5. a.wallet \in Eligible(a.root) /\ a.points = a.root[a.wallet]
    BY <2>2, <2>3 DEF Eligible
  <2>6. VerifyProof(HashLeaf(w, a.points), ProofOf(a), SnapshotRoot(a.root))
    BY <2>2, <2>5, HonestVerifies
  <2>7. VerifyProof(HashLeaf(w, a.points), ProofOf(a), root) <=> root = SnapshotRoot(a.root)
    BY <2>6, OneRoot
  <2> QED BY <2>2, <2>4, <2>7 DEF a, root
<1> QED BY <1>1, ClaimInvariant, PTL

(* Leaf i of a snapshot verifies with its own proof and no other does, at   *)
(* whatever state something is published.                                   *)
THEOREM EveryLeafVerifiesAlways == ClaimSpec => []EveryLeafVerifies
<1>1. EveryLeafVerifies
  BY TreesOfAnySizeVerify DEF EveryLeafVerifies
<1> QED BY <1>1, PTL
=============================================================================
