----------------------------- MODULE SumProofs -----------------------------
(***************************************************************************)
(* Sums over finite sets, and the two forms of induction that the proofs   *)
(* about sums and trees use: over the natural numbers and over a finite    *)
(* set.  Both are stated of a set of the numbers, or of the subsets, that  *)
(* have the property, so that nothing but a set has to be instantiated.    *)
(***************************************************************************)
EXTENDS FiniteSetsExt, FiniteSetTheorems, WellFoundedInduction, NaturalsInduction, TLAPS

\* A set of numbers with zero and the successor of each of its members.
LEMMA NatSetInduction ==
    ASSUME NEW S, 0 \in S, \A n \in Nat : n \in S => n + 1 \in S
    PROVE  \A n \in Nat : n \in S
<1>1. SUFFICES ASSUME NEW n \in Nat, n \notin S
               PROVE  FALSE
  OBVIOUS
<1> DEFINE R == OpToRel(<, Nat)
           Out == {m \in Nat : m \notin S}
<1>2. PICK m \in Out : \A k \in Out : <<k, m>> \notin R
  <2>1. IsWellFoundedOn(R, Nat)
    BY NatLessThanWellFounded
  <2> QED BY <1>1, <2>1, WFMin
<1>3. m # 0
  OBVIOUS
<1>4. m - 1 \in Nat /\ m - 1 < m /\ m = (m - 1) + 1
  BY <1>3
<1>5. m - 1 \notin S
  BY <1>4
<1>6. <<m - 1, m>> \in R
  BY <1>4 DEF OpToRel
<1> QED BY <1>2, <1>4, <1>5, <1>6

LEMMA OneLess ==
    ASSUME NEW S, IsFiniteSet(S), NEW x \in S, NEW n \in Nat, Cardinality(S) = n + 1
    PROVE  Cardinality(S \ {x}) = n
<1>1. Cardinality(S \ {x}) = Cardinality(S) - 1
  BY FS_RemoveElement, Zenon
<1> QED BY <1>1

-----------------------------------------------------------------------------
(* SumFunctionOnSet(f, S): f[x] for one x of S, plus the sum over the rest. *)

Pick(s) == CHOOSE x \in s : TRUE
Step(f, iter, s) == IF s = {} THEN 0 ELSE f[Pick(s)] + iter[s \ {Pick(s)}]
Iter(f, S) == CHOOSE iter : iter = [s \in SUBSET S |-> Step(f, iter, s)]

LEMMA PickIn == ASSUME NEW s, s # {} PROVE Pick(s) \in s
BY DEF Pick

LEMMA SumIsIter ==
    ASSUME NEW f, NEW S
    PROVE  SumFunctionOnSet(f, S) = Iter(f, S)[S]
BY DEF SumFunctionOnSet, FoldFunctionOnSet, MapThenFoldSet, Iter, Step, Pick

\* The fold is well defined: there is such a function on the subsets of n
\* elements or less, for every n.
LEMMA IterExists ==
    ASSUME NEW f, NEW S, IsFiniteSet(S)
    PROVE  \E iter : iter = [s \in SUBSET S |-> Step(f, iter, s)]
<1> DEFINE Small(n) == {s \in SUBSET S : Cardinality(s) <= n}
           H == {n \in Nat : \E iter : iter = [s \in Small(n) |-> Step(f, iter, s)]}
<1>0. \A s \in SUBSET S : IsFiniteSet(s) /\ Cardinality(s) \in Nat
  BY FS_Subset, FS_CardinalityType
<1>1. 0 \in H
  <2>1. \A s \in Small(0) : s = {}
    BY <1>0, FS_EmptySet
  <2> DEFINE iter == [s \in Small(0) |-> 0]
  <2>2. \A s \in Small(0) : Step(f, iter, s) = 0
    BY <2>1 DEF Step
  <2>3. iter = [s \in Small(0) |-> Step(f, iter, s)]
    BY <2>2
  <2> QED BY <2>3
<1>2. ASSUME NEW n \in Nat, n \in H
      PROVE  n + 1 \in H
  <2>1. PICK old : old = [s \in Small(n) |-> Step(f, old, s)]
    BY <1>2
  <2> DEFINE iter == [s \in Small(n + 1) |-> Step(f, old, s)]
  <2>2. \A s \in Small(n) : s \in Small(n + 1) /\ iter[s] = old[s]
    BY <1>0, <2>1
  <2>3. \A s \in Small(n + 1) : s # {} => s \ {Pick(s)} \in Small(n)
    BY <1>0, PickIn, FS_RemoveElement
  <2>4. \A s \in Small(n + 1) : Step(f, old, s) = Step(f, iter, s)
    BY <2>2, <2>3 DEF Step
  <2>5. iter = [s \in Small(n + 1) |-> Step(f, iter, s)]
    BY <2>4
  <2> HIDE DEF Small, iter
  <2> QED BY <2>5
<1> HIDE DEF H
<1>3. Cardinality(S) \in H
  BY <1>0, <1>1, <1>2, NatSetInduction
<1>4. Small(Cardinality(S)) = SUBSET S
  BY <1>0, FS_Subset
<1> QED BY <1>3, <1>4 DEF H

LEMMA IterStep ==
    ASSUME NEW f, NEW S, IsFiniteSet(S), NEW s \in SUBSET S
    PROVE  Iter(f, S)[s] = Step(f, Iter(f, S), s)
<1>1. Iter(f, S) = [t \in SUBSET S |-> Step(f, Iter(f, S), t)]
  BY IterExists DEF Iter
<1> HIDE DEF Iter
<1> QED BY <1>1

\* It is the same whatever larger set it is taken from, and for every
\* function with the same values on the set.
LEMMA IterSame ==
    ASSUME NEW f, NEW g, NEW S, NEW T, IsFiniteSet(S), IsFiniteSet(T),
           NEW U \in SUBSET (S \cap T), \A x \in U : f[x] = g[x]
    PROVE  Iter(f, S)[U] = Iter(g, T)[U]
<1> DEFINE F == Iter(f, S)
           G == Iter(g, T)
           H == {n \in Nat : \A s \in SUBSET U : Cardinality(s) = n => F[s] = G[s]}
<1>0. IsFiniteSet(U) /\ \A s \in SUBSET U : IsFiniteSet(s) /\ Cardinality(s) \in Nat
  <2>1. IsFiniteSet(U)
    BY FS_Subset
  <2> QED BY <2>1, FS_Subset, FS_CardinalityType
<1>1. \A s \in SUBSET U : F[s] = Step(f, F, s) /\ G[s] = Step(g, G, s)
  BY IterStep
<1> HIDE DEF F, G
<1>2. 0 \in H
  <2>1. \A s \in SUBSET U : Cardinality(s) = 0 => s = {}
    BY <1>0, FS_EmptySet
  <2> QED BY <1>1, <2>1 DEF Step
<1>3. ASSUME NEW n \in Nat, n \in H
      PROVE  n + 1 \in H
  <2>1. SUFFICES ASSUME NEW s \in SUBSET U, Cardinality(s) = n + 1
                 PROVE  F[s] = G[s]
    OBVIOUS
  <2>2. s # {}
    BY <1>0, <2>1, FS_EmptySet
  <2>3. Pick(s) \in s
    BY <2>2, PickIn
  <2>4. Cardinality(s \ {Pick(s)}) = n /\ s \ {Pick(s)} \in SUBSET U
    BY <1>0, <2>1, <2>3, OneLess
  <2>5. F[s \ {Pick(s)}] = G[s \ {Pick(s)}]
    BY <1>3, <2>4
  <2> QED BY <1>1, <2>2, <2>3, <2>5 DEF Step
<1> HIDE DEF H
<1>4. Cardinality(U) \in H
  BY <1>0, <1>2, <1>3, NatSetInduction
<1> QED BY <1>4 DEF H, F, G

LEMMA SumEmpty ==
    ASSUME NEW f
    PROVE  SumFunctionOnSet(f, {}) = 0
BY SumIsIter, IterStep, FS_EmptySet DEF Step

\* Two functions with the same values on a finite set have the same sum.
LEMMA SumSame ==
    ASSUME NEW f, NEW g, NEW S, IsFiniteSet(S), \A x \in S : f[x] = g[x]
    PROVE  SumFunctionOnSet(f, S) = SumFunctionOnSet(g, S)
<1>1. Iter(f, S)[S] = Iter(g, S)[S]
  BY IterSame
<1> QED BY <1>1, SumIsIter

LEMMA SumPick ==
    ASSUME NEW f, NEW S, IsFiniteSet(S), S # {}
    PROVE  SumFunctionOnSet(f, S) = f[Pick(S)] + SumFunctionOnSet(f, S \ {Pick(S)})
<1> DEFINE T == S \ {Pick(S)}
<1>1. Iter(f, S)[S] = f[Pick(S)] + Iter(f, S)[T]
  BY IterStep DEF Step
<1>2. IsFiniteSet(T)
  BY FS_RemoveElement
<1>3. Iter(f, S)[T] = Iter(f, T)[T]
  BY <1>2, IterSame
<1> QED BY <1>1, <1>3, SumIsIter

\* A sum of natural numbers is one, and may begin with any member of the set.
LEMMA SumOfNats ==
    ASSUME NEW f, NEW S, IsFiniteSet(S), \A x \in S : f[x] \in Nat
    PROVE  /\ SumFunctionOnSet(f, S) \in Nat
           /\ \A x \in S : SumFunctionOnSet(f, S) = f[x] + SumFunctionOnSet(f, S \ {x})
<1> DEFINE Sum(T) == SumFunctionOnSet(f, T)
           Good(T) == /\ Sum(T) \in Nat
                      /\ \A x \in T : /\ Sum(T) = f[x] + Sum(T \ {x})
                                      /\ Sum(T \ {x}) \in Nat
           H == {n \in Nat : \A T \in SUBSET S : Cardinality(T) = n => Good(T)}
<1>0. \A T \in SUBSET S : IsFiniteSet(T) /\ Cardinality(T) \in Nat
  BY FS_Subset, FS_CardinalityType
<1>1. Sum({}) = 0 /\ \A T \in SUBSET S : T # {} => Sum(T) = f[Pick(T)] + Sum(T \ {Pick(T)})
  BY <1>0, SumEmpty, SumPick
<1> HIDE DEF Sum
<1>2. 0 \in H
  <2>1. \A T \in SUBSET S : Cardinality(T) = 0 => T = {}
    BY <1>0, FS_EmptySet
  <2>2. Good({})
    BY <1>1
  <2> HIDE DEF Good
  <2> QED BY <2>1, <2>2
<1>3. ASSUME NEW n \in Nat, n \in H
      PROVE  n + 1 \in H
  <2>1. SUFFICES ASSUME NEW T \in SUBSET S, Cardinality(T) = n + 1
                 PROVE  Good(T)
    OBVIOUS
  <2>2. \A x \in T : Cardinality(T \ {x}) = n /\ T \ {x} \in SUBSET S
    BY <1>0, <2>1, OneLess
  <2>3. \A x \in T : Good(T \ {x})
    BY <1>3, <2>2
  <2>4. T # {}
    BY <1>0, <2>1, FS_EmptySet
  <2> DEFINE c == Pick(T)
  <2>5. c \in T
    BY <2>4, PickIn
  <2>6. Sum(T) = f[c] + Sum(T \ {c})
    BY <1>1, <2>4
  <2> HIDE DEF c
  <2>7. f[c] \in Nat /\ Sum(T \ {c}) \in Nat
    BY <2>3, <2>5
  <2>8. Sum(T) \in Nat
    BY <2>6, <2>7
  <2>9. ASSUME NEW x \in T
        PROVE  Sum(T) = f[x] + Sum(T \ {x})
    <3>1. CASE x = c
      BY <2>6, <3>1
    <3>2. CASE x # c
      <4> DEFINE U == T \ {c, x}
      <4>1. (T \ {c}) \ {x} = U /\ (T \ {x}) \ {c} = U
        OBVIOUS
      <4>2. Sum(T \ {c}) = f[x] + Sum(U)
        BY <2>3, <2>5, <3>2, <4>1
      <4>3. Sum(T \ {x}) = f[c] + Sum(U)
        BY <2>3, <2>5, <3>2, <4>1
      <4>4. Sum(U) \in Nat
        BY <2>3, <2>5, <3>2, <4>1
      <4>5. f[x] \in Nat
        OBVIOUS
      <4> QED BY <2>6, <2>7, <4>2, <4>3, <4>4, <4>5
    <3> QED BY <3>1, <3>2
  <2>10. \A x \in T : Sum(T \ {x}) \in Nat
    BY <2>3
  <2> QED BY <2>8, <2>9, <2>10
<1> HIDE DEF H
<1>4. Cardinality(S) \in H
  BY <1>0, <1>2, <1>3, NatSetInduction
<1> QED BY <1>4 DEF H, Sum

\* One element more.
LEMMA SumAdd ==
    ASSUME NEW f, NEW S, IsFiniteSet(S), NEW x, x \notin S,
           \A y \in S \cup {x} : f[y] \in Nat
    PROVE  SumFunctionOnSet(f, S \cup {x}) = f[x] + SumFunctionOnSet(f, S)
<1> DEFINE T == S \cup {x}
<1>1. IsFiniteSet(T) /\ x \in T /\ T \ {x} = S
  BY FS_AddElement
<1> HIDE DEF T
<1>2. SumFunctionOnSet(f, T) = f[x] + SumFunctionOnSet(f, T \ {x})
  BY <1>1, SumOfNats DEF T
<1> QED BY <1>1, <1>2 DEF T
=============================================================================
