-------------------------- MODULE SnapshotsProofs --------------------------
(***************************************************************************)
(* Proofs about Snapshots for any number of publishers, readers, wallets   *)
(* and cycles: its type invariant, that leaves and payloads fit the root   *)
(* of their cycle, and that nothing published ever changes.                *)
(***************************************************************************)
EXTENDS Snapshots, WellFoundedInduction, TLAPS

-----------------------------------------------------------------------------
(* latest_snapshot *)

LEMMA LatestIsPublished ==
    /\ Published = {} => Latest = 0
    /\ Published # {} => Latest \in Published /\ \A d \in Published : d <= Latest
<1>1. Published = {} => Latest = 0
  BY DEF Latest
<1>2. ASSUME Published # {}
      PROVE  Latest \in Published /\ \A d \in Published : d <= Latest
  <2> DEFINE T == {MaxCycle - c : c \in Published}
  <2>1. Published \subseteq Cycles /\ Cycles \subseteq Nat /\ MaxCycle \in Nat
    BY SnapshotAssumption DEF Published, Cycles
  <2>a. \A c \in Published : MaxCycle - c \in Nat
    BY <2>1 DEF Cycles
  <2>2. T \subseteq Nat /\ T # {}
    BY <1>2, <2>a
  <2>3. \E x \in T : \A y \in T : ~ (<<y, x>> \in OpToRel(<, Nat))
    BY <2>2, WFMin, NatLessThanWellFounded, Zenon
  <2>4. PICK x \in T : \A y \in T : x <= y
    <3> HIDE DEF T
    <3>1. PICK x \in T : \A y \in T : ~ (<<y, x>> \in OpToRel(<, Nat))
      BY <2>3
    <3>2. ASSUME NEW y \in T PROVE x <= y
      <4>1. x \in Nat /\ y \in Nat
        BY <2>2
      <4>2. y < x => <<y, x>> \in OpToRel(<, Nat)
        BY <4>1, Zenon DEF OpToRel
      <4>3. <<y, x>> \notin OpToRel(<, Nat)
        BY <3>1, Zenon
      <4>4. ~ (y < x)
        BY <4>2, <4>3, Zenon
      <4> QED BY <4>1, <4>4
    <3> QED BY <3>1, <3>2
  <2>5. PICK c \in Published : x = MaxCycle - c
    OBVIOUS
  <2>6. ASSUME NEW d \in Published PROVE d <= c
    <3>1. x <= MaxCycle - d
      BY <2>4
    <3> QED BY <2>1, <2>5, <3>1
  <2> QED BY <1>2, <2>5, <2>6 DEF Latest
<1> QED BY <1>1, <1>2

LEMMA LatestType == Latest \in 0 .. MaxCycle /\ (Latest # 0 => Latest \in Published)
<1>1. Published \subseteq Cycles /\ 0 \in 0 .. MaxCycle /\ Cycles \subseteq 0 .. MaxCycle
  BY SnapshotAssumption DEF Published, Cycles
<1> QED BY <1>1, LatestIsPublished

-----------------------------------------------------------------------------
(* Types *)

PubTypes == [pc : {"idle", "cycle", "insert", "leaves"}, totals : Totals,
             cycle : 0 .. MaxCycle, todo : SUBSET Wallets]
ReadTypes == [pc : {"idle", "leaf"}, wallet : Wallets \cup {None},
              cycle : 0 .. MaxCycle, answer : Payloads \cup {None}]
TablesOK ==
    /\ points \in Totals
    /\ snapshots \in [Cycles -> Totals \cup {None}]
    /\ leaves \in [Cycles -> [Wallets -> Amounts \cup {None}]]

LEMMA SnapTypeSplit ==
    TypeOK <=> TablesOK /\ pub \in [Publishers -> PubTypes] /\ read \in [Readers -> ReadTypes]
BY DEF TypeOK, TablesOK, PubTypes, ReadTypes

LEMMA IdleTypes == NotPublishing \in PubTypes /\ NotReading \in ReadTypes
<1>1. /\ [w \in Wallets |-> 0] \in Totals /\ 0 \in 0 .. MaxCycle
  BY SnapshotAssumption DEF Totals, Amounts
<1> QED BY <1>1 DEF NotPublishing, NotReading, PubTypes, ReadTypes

LEMMA SnapTypeInit == Init => TypeOK
<1> SUFFICES ASSUME Init PROVE TypeOK
  OBVIOUS
<1>1. TablesOK
  BY SnapshotAssumption DEF Init, TablesOK, Totals, Amounts
<1>2. pub \in [Publishers -> PubTypes] /\ read \in [Readers -> ReadTypes]
  BY IdleTypes DEF Init
<1> QED BY <1>1, <1>2, SnapTypeSplit

\* A leaf looked up in a snapshot on file makes a payload.
LEMMA PayloadType ==
    ASSUME TypeOK, NEW w \in Wallets, NEW c \in Cycles, snapshots[c] # None,
           leaves[c][w] # None
    PROVE  [wallet |-> w, cycle |-> c, points |-> leaves[c][w], root |-> snapshots[c]] \in Payloads
<1>1. leaves[c][w] \in Amounts /\ snapshots[c] \in Totals
  BY DEF TypeOK
<1> QED BY <1>1 DEF Payloads

LEMMA SnapTypeStep == SnapshotInv /\ [Next]_vars => TypeOK'
<1> SUFFICES ASSUME SnapshotInv, [Next]_vars PROVE TypeOK'
  OBVIOUS
<1>0. /\ TypeOK /\ TablesOK
      /\ pub \in [Publishers -> PubTypes] /\ read \in [Readers -> ReadTypes]
  BY SnapTypeSplit DEF SnapshotInv
<1>q. TablesOK' /\ pub' \in [Publishers -> PubTypes] /\ read' \in [Readers -> ReadTypes]
        => TypeOK'
  BY DEF TypeOK, TablesOK, PubTypes, ReadTypes
<1>1. ASSUME NEW p \in Publishers, LoadTotals(p) PROVE TypeOK'
  <2>1. pub' = [pub EXCEPT ![p] = [@ EXCEPT !.pc = "cycle", !.totals = points]]
    BY <1>1 DEF LoadTotals
  <2>2. [pub[p] EXCEPT !.pc = "cycle", !.totals = points] \in PubTypes
    BY <1>0 DEF TablesOK, PubTypes
  <2> QED BY <1>0, <1>q, <1>1, <2>1, <2>2 DEF LoadTotals, tables, TablesOK
<1>2. ASSUME NEW p \in Publishers, PickCycle(p) PROVE TypeOK'
  <2>1. pub' = [pub EXCEPT ![p] = [@ EXCEPT !.pc = "insert", !.cycle = Latest + 1]]
    BY <1>2 DEF PickCycle
  <2>2. Latest + 1 \in 0 .. MaxCycle
    BY <1>2, LatestType, SnapshotAssumption DEF PickCycle
  <2>3. [pub[p] EXCEPT !.pc = "insert", !.cycle = Latest + 1] \in PubTypes
    BY <1>0, <2>2 DEF PubTypes
  <2> QED BY <1>0, <1>q, <1>2, <2>1, <2>3 DEF PickCycle, tables, TablesOK
<1>3. ASSUME NEW p \in Publishers, InsertSnapshot(p) PROVE TypeOK'
  <2>1. CASE snapshots[pub[p].cycle] # None
    BY <1>0, <1>q, <1>3, <2>1, IdleTypes DEF InsertSnapshot, TablesOK
  <2>2. CASE snapshots[pub[p].cycle] = None
    <3>1. /\ snapshots' = [snapshots EXCEPT ![pub[p].cycle] = pub[p].totals]
          /\ pub' = [pub EXCEPT ![p] =
                       [@ EXCEPT !.pc = "leaves", !.todo = Eligible(pub[p].totals)]]
      BY <1>3, <2>2 DEF InsertSnapshot
    <3>2. pub[p].totals \in Totals /\ Eligible(pub[p].totals) \in SUBSET Wallets
      BY <1>0 DEF PubTypes, Eligible
    <3>3. [pub[p] EXCEPT !.pc = "leaves", !.todo = Eligible(pub[p].totals)] \in PubTypes
      BY <1>0, <3>2 DEF PubTypes
    <3> QED BY <1>0, <1>q, <1>3, <3>1, <3>2, <3>3 DEF InsertSnapshot, TablesOK
  <2> QED BY <2>1, <2>2
<1>4. ASSUME NEW p \in Publishers, InsertLeaf(p) PROVE TypeOK'
  <2>1. PICK w \in pub[p].todo :
          /\ leaves' = [leaves EXCEPT ![pub[p].cycle][w] = pub[p].totals[w]]
          /\ pub' = [pub EXCEPT ![p] = IF pub[p].todo = {w} THEN NotPublishing
                                       ELSE [pub[p] EXCEPT !.todo = pub[p].todo \ {w}]]
    BY <1>4 DEF InsertLeaf
  <2>2. w \in Wallets /\ pub[p].totals[w] \in Amounts
    BY <1>0 DEF PubTypes, Totals
  <2>a. pub[p].cycle \in Cycles
    BY <1>4 DEF SnapshotInv, PublishersHoldRoots, InsertLeaf
  <2>b. [leaves[pub[p].cycle] EXCEPT ![w] = pub[p].totals[w]]
           \in [Wallets -> Amounts \cup {None}]
    BY <1>0, <2>2, <2>a DEF TablesOK
  <2>3. leaves' \in [Cycles -> [Wallets -> Amounts \cup {None}]]
    BY <1>0, <2>1, <2>a, <2>b DEF TablesOK
  <2>4. (IF pub[p].todo = {w} THEN NotPublishing
         ELSE [pub[p] EXCEPT !.todo = pub[p].todo \ {w}]) \in PubTypes
    <3>1. [pub[p] EXCEPT !.todo = pub[p].todo \ {w}] \in PubTypes
      BY <1>0 DEF PubTypes
    <3> QED BY <3>1, IdleTypes
  <2>5. pub' \in [Publishers -> PubTypes]
    BY <1>0, <2>1, <2>4, IdleTypes
  <2> QED BY <1>0, <1>q, <1>4, <2>3, <2>5 DEF InsertLeaf, TablesOK
<1>5. ASSUME NEW p \in Publishers, PublishFails(p) PROVE TypeOK'
  BY <1>0, <1>q, <1>5, IdleTypes DEF PublishFails, tables, TablesOK
<1>6. ASSUME NEW r \in Readers, ReadLatest(r) PROVE TypeOK'
  <2>1. PICK w \in Wallets :
          read' = [read EXCEPT ![r] = [pc |-> IF Latest = 0 THEN "idle" ELSE "leaf",
                                       wallet |-> w, cycle |-> Latest, answer |-> None]]
    BY <1>6 DEF ReadLatest
  <2>2. [pc |-> IF Latest = 0 THEN "idle" ELSE "leaf", wallet |-> w, cycle |-> Latest,
         answer |-> None] \in ReadTypes
    BY LatestType DEF ReadTypes
  <2> QED BY <1>0, <1>q, <1>6, <2>1, <2>2 DEF ReadLatest, tables, TablesOK
<1>7. ASSUME NEW r \in Readers, ReadLeaf(r) PROVE TypeOK'
  <2> DEFINE w == read[r].wallet
             c == read[r].cycle
             a == IF leaves[c][w] = None THEN None
                  ELSE [wallet |-> w, cycle |-> c, points |-> leaves[c][w],
                        root |-> snapshots[c]]
  <2>1. read' = [read EXCEPT ![r].pc = "idle", ![r].answer = a]
    BY <1>7 DEF ReadLeaf
  <2>2. w \in Wallets /\ c \in Cycles /\ snapshots[c] # None
    BY <1>7 DEF SnapshotInv, ReadersHoldSnapshots, ReadLeaf, Published
  <2>3. a \in Payloads \cup {None}
    BY <1>0, <2>2, PayloadType
  <2> HIDE DEF a
  <2>4. [read[r] EXCEPT !.pc = "idle", !.answer = a] \in ReadTypes
    BY <1>0, <2>3 DEF ReadTypes
  <2>5. read' \in [Readers -> ReadTypes]
    BY <1>0, <2>1, <2>4
  <2> QED BY <1>0, <1>q, <1>7, <2>5 DEF ReadLeaf, tables, TablesOK
<1>8. ASSUME NEW w \in Wallets, Earn(w) PROVE TypeOK'
  <2>1. points[w] \in 0 .. MaxPoints /\ points[w] < MaxPoints
    BY <1>0, <1>8 DEF TablesOK, Totals, Amounts, Earn
  <2>2. points' \in Totals
    BY <1>0, <1>8, <2>1, SnapshotAssumption DEF Earn, TablesOK, Totals, Amounts
  <2> QED BY <1>0, <1>q, <1>8, <2>2 DEF Earn, TablesOK
<1>9. CASE Restart
  <2>1. \A r \in Readers : [read[r] EXCEPT !.pc = "idle"] \in ReadTypes
    BY <1>0 DEF ReadTypes
  <2> QED BY <1>0, <1>q, <1>9, <2>1, IdleTypes DEF Restart, tables, TablesOK
<1>10. CASE UNCHANGED vars
  BY <1>0, <1>q, <1>10 DEF vars, TablesOK
<1> QED BY <1>1, <1>2, <1>3, <1>4, <1>5, <1>6, <1>7, <1>8, <1>9, <1>10 DEF Next, Publish

-----------------------------------------------------------------------------
(* What is published *)

LEMMA SnapshotInvInit == Init => SnapshotInv
<1> SUFFICES ASSUME Init PROVE SnapshotInv
  OBVIOUS
<1>1. TypeOK
  BY SnapTypeInit
<1>2. /\ \A p \in Publishers : pub[p].pc = "idle"
      /\ \A r \in Readers : read[r].pc = "idle" /\ read[r].answer = None
      /\ \A c \in Cycles, w \in Wallets : leaves[c][w] = None
  BY DEF Init, NotPublishing, NotReading
<1> QED BY <1>1, <1>2
    DEF SnapshotInv, PublishersHoldRoots, ReadersHoldSnapshots, LeavesMatchRoot, PayloadsVerify

\* The statements change the tables in two ways only: a root of a free cycle,
\* and a leaf of a root that is on file.
LEMMA TablesStep ==
    ASSUME SnapshotInv, [Next]_vars
    PROVE  /\ \A c \in Cycles : snapshots[c] # None => snapshots'[c] = snapshots[c]
           /\ \A c \in Cycles, w \in Wallets :
                 \/ leaves'[c][w] = leaves[c][w]
                 \/ /\ snapshots[c] # None
                    /\ leaves'[c][w] = snapshots[c][w] /\ snapshots[c][w] > 0
<1>0. TypeOK
  BY DEF SnapshotInv
<1>1. ASSUME NEW p \in Publishers, InsertSnapshot(p)
      PROVE  /\ leaves' = leaves
             /\ \A c \in Cycles : snapshots[c] # None => snapshots'[c] = snapshots[c]
  BY <1>0, <1>1 DEF InsertSnapshot, TypeOK
<1>2. ASSUME NEW p \in Publishers, InsertLeaf(p)
      PROVE  /\ snapshots' = snapshots
             /\ \A c \in Cycles, w \in Wallets :
                   \/ leaves'[c][w] = leaves[c][w]
                   \/ /\ snapshots[c] # None
                      /\ leaves'[c][w] = snapshots[c][w] /\ snapshots[c][w] > 0
  <2>1. PICK v \in pub[p].todo : leaves' = [leaves EXCEPT ![pub[p].cycle][v] = pub[p].totals[v]]
    BY <1>2 DEF InsertLeaf
  <2>2. /\ snapshots[pub[p].cycle] = pub[p].totals /\ pub[p].totals[v] > 0
        /\ v \in Wallets /\ pub[p].cycle \in Cycles
    BY <1>2, <2>1 DEF SnapshotInv, PublishersHoldRoots, InsertLeaf, Eligible
  <2>3. pub[p].totals # None
    BY <1>0, SnapshotAssumption DEF TypeOK, Totals, Amounts
  <2>4. \A c \in Cycles, w \in Wallets :
           leaves'[c][w] = IF c = pub[p].cycle /\ w = v THEN pub[p].totals[v] ELSE leaves[c][w]
    BY <1>0, <2>1, <2>2 DEF TypeOK
  <2> QED BY <1>2, <2>2, <2>3, <2>4 DEF InsertLeaf
<1> QED
  BY <1>1, <1>2
  DEF Next, vars, tables, Publish, LoadTotals, PickCycle, PublishFails, ReadLatest, ReadLeaf,
      Earn, Restart

LEMMA SnapshotInvStep == SnapshotInv /\ [Next]_vars => SnapshotInv'
<1> SUFFICES ASSUME SnapshotInv, [Next]_vars PROVE SnapshotInv'
  OBVIOUS
<1>0. TypeOK /\ TypeOK'
  BY SnapTypeStep DEF SnapshotInv
<1>1. /\ \A c \in Cycles : snapshots[c] # None => snapshots'[c] = snapshots[c]
      /\ \A c \in Cycles, w \in Wallets :
            \/ leaves'[c][w] = leaves[c][w]
            \/ /\ snapshots[c] # None
               /\ leaves'[c][w] = snapshots[c][w] /\ snapshots[c][w] > 0
  BY TablesStep
<1>2. LeavesMatchRoot'
  <2> SUFFICES ASSUME NEW c \in Cycles, NEW w \in Wallets, leaves'[c][w] # None
               PROVE  /\ snapshots'[c] # None
                      /\ leaves'[c][w] = snapshots'[c][w] /\ leaves'[c][w] > 0
    BY DEF LeavesMatchRoot
  <2>1. CASE leaves'[c][w] = leaves[c][w]
    BY <1>1, <2>1 DEF SnapshotInv, LeavesMatchRoot
  <2>2. CASE snapshots[c] # None /\ leaves'[c][w] = snapshots[c][w] /\ snapshots[c][w] > 0
    BY <1>1, <2>2
  <2> QED BY <1>1, <2>1, <2>2
<1>3. PublishersHoldRoots'
  <2> SUFFICES ASSUME NEW p \in Publishers
      PROVE  /\ pub'[p].pc \in {"insert", "leaves"} => pub'[p].cycle \in Cycles
             /\ pub'[p].pc = "leaves" =>
                   /\ snapshots'[pub'[p].cycle] = pub'[p].totals
                   /\ pub'[p].todo \subseteq Eligible(pub'[p].totals)
    BY DEF PublishersHoldRoots, Eligible
  <2>0. /\ pub[p].pc \in {"insert", "leaves"} => pub[p].cycle \in Cycles
        /\ pub[p].pc = "leaves" =>
              /\ snapshots[pub[p].cycle] = pub[p].totals
              /\ pub[p].todo \subseteq Eligible(pub[p].totals)
    BY DEF SnapshotInv, PublishersHoldRoots
  <2>1. pub[p].totals # None /\ pub[p].totals \in Totals
    BY <1>0, SnapshotAssumption DEF TypeOK, Totals, Amounts
  <2>2. CASE pub'[p] = pub[p]
    BY <1>1, <2>0, <2>1, <2>2
  <2>3. CASE pub'[p] = NotPublishing
    BY <2>3 DEF NotPublishing
  <2>4. CASE LoadTotals(p)
    <3>1. pub'[p].pc = "cycle"
      BY <1>0, <2>4 DEF LoadTotals, TypeOK
    <3> QED BY <3>1
  <2>5. CASE PickCycle(p)
    <3>1. pub'[p].pc = "insert" /\ pub'[p].cycle = Latest + 1
      BY <1>0, <2>5 DEF PickCycle, TypeOK
    <3>2. Latest + 1 \in Cycles
      BY <2>5, LatestType, SnapshotAssumption DEF PickCycle, Cycles
    <3> QED BY <3>1, <3>2
  <2>6. CASE InsertSnapshot(p)
    <3>1. CASE snapshots[pub[p].cycle] # None
      <4>1. pub'[p] = NotPublishing
        BY <1>0, <2>6, <3>1 DEF InsertSnapshot, TypeOK
      <4> QED BY <2>3, <4>1
    <3>2. CASE snapshots[pub[p].cycle] = None
      <4>1. /\ snapshots' = [snapshots EXCEPT ![pub[p].cycle] = pub[p].totals]
            /\ pub' = [pub EXCEPT ![p] =
                         [@ EXCEPT !.pc = "leaves", !.todo = Eligible(pub[p].totals)]]
            /\ pub[p].pc = "insert"
        BY <2>6, <3>2 DEF InsertSnapshot
      <4>2. /\ pub'[p].pc = "leaves" /\ pub'[p].totals = pub[p].totals
            /\ pub'[p].cycle = pub[p].cycle /\ pub'[p].todo = Eligible(pub[p].totals)
        BY <1>0, <4>1 DEF TypeOK
      <4>3. pub[p].cycle \in Cycles /\ snapshots'[pub[p].cycle] = pub[p].totals
        BY <1>0, <2>0, <4>1 DEF TypeOK
      <4> QED BY <4>2, <4>3
    <3> QED BY <3>1, <3>2
  <2>7. CASE InsertLeaf(p)
    <3>1. PICK w \in pub[p].todo :
            pub' = [pub EXCEPT ![p] = IF pub[p].todo = {w} THEN NotPublishing
                                      ELSE [pub[p] EXCEPT !.todo = pub[p].todo \ {w}]]
      BY <2>7 DEF InsertLeaf
    <3>2. CASE pub[p].todo # {w}
      <4>0. pub'[p] = [pub[p] EXCEPT !.todo = pub[p].todo \ {w}]
        BY <1>0, <3>1, <3>2 DEF TypeOK
      <4>1. /\ pub'[p].pc = pub[p].pc /\ pub'[p].totals = pub[p].totals
            /\ pub'[p].cycle = pub[p].cycle /\ pub'[p].todo \subseteq pub[p].todo
        BY <1>0, <4>0 DEF TypeOK
      <4>2. pub[p].pc = "leaves" /\ snapshots' = snapshots
        BY <2>7 DEF InsertLeaf
      <4> QED BY <2>0, <4>1, <4>2
    <3>3. CASE pub[p].todo = {w}
      <4>1. pub'[p] = NotPublishing
        BY <1>0, <3>1, <3>3 DEF TypeOK
      <4> QED BY <2>3, <4>1
    <3> QED BY <3>2, <3>3
  <2>8. CASE PublishFails(p)
    <3>1. pub'[p] = NotPublishing
      BY <1>0, <2>8 DEF PublishFails, TypeOK
    <3> QED BY <2>3, <3>1
  <2>9. ASSUME NEW q \in Publishers, q # p, Publish(q) PROVE pub'[p] = pub[p]
    BY <1>0, <2>9
    DEF Publish, LoadTotals, PickCycle, InsertSnapshot, InsertLeaf, PublishFails, TypeOK
  <2>10. CASE Restart
    BY <2>3, <2>10 DEF Restart
  <2> QED
    BY <2>2, <2>4, <2>5, <2>6, <2>7, <2>8, <2>9, <2>10
    DEF Next, vars, Publish, ReadLatest, ReadLeaf, Earn
<1>4. ReadersHoldSnapshots'
  <2> SUFFICES ASSUME NEW r \in Readers, read'[r].pc = "leaf"
               PROVE  /\ read'[r].wallet \in Wallets
                      /\ read'[r].cycle \in Cycles /\ snapshots'[read'[r].cycle] # None
    BY DEF ReadersHoldSnapshots, Published
  <2>1. CASE read'[r] = read[r]
    BY <1>1, <2>1 DEF SnapshotInv, ReadersHoldSnapshots, Published
  <2>2. ASSUME NEW q \in Readers, ReadLatest(q) PROVE read'[r] = read[r] \/
                 /\ read'[r].wallet \in Wallets /\ read'[r].cycle \in Published
                 /\ snapshots' = snapshots
    <3>1. PICK w \in Wallets :
            read' = [read EXCEPT ![q] = [pc |-> IF Latest = 0 THEN "idle" ELSE "leaf",
                                         wallet |-> w, cycle |-> Latest, answer |-> None]]
      BY <2>2 DEF ReadLatest
    <3>2. CASE q = r
      <4>1. /\ read'[r].wallet = w /\ read'[r].cycle = Latest
            /\ read'[r].pc = IF Latest = 0 THEN "idle" ELSE "leaf"
        BY <1>0, <3>1, <3>2 DEF TypeOK
      <4> QED BY <2>2, <4>1, LatestType DEF ReadLatest, tables
    <3> QED BY <1>0, <3>1, <3>2 DEF TypeOK
  <2>3. ASSUME NEW q \in Readers, ReadLeaf(q) PROVE read'[r] = read[r]
    BY <1>0, <2>3 DEF ReadLeaf, TypeOK
  <2>4. ~ Restart
    BY <1>0 DEF Restart, TypeOK
  <2> QED
    BY <1>1, <2>1, <2>2, <2>3, <2>4
    DEF Next, vars, Published, Publish, LoadTotals, PickCycle, InsertSnapshot, InsertLeaf,
        PublishFails, Earn
<1>5. PayloadsVerify'
  <2> SUFFICES ASSUME NEW r \in Readers, read'[r].answer # None
      PROVE  /\ read'[r].answer.points = read'[r].answer.root[read'[r].answer.wallet]
             /\ read'[r].answer.root = snapshots'[read'[r].answer.cycle]
    BY DEF PayloadsVerify
  <2>1. CASE read'[r].answer = read[r].answer
    <3>1. /\ read[r].answer \in Payloads
          /\ read[r].answer.points = read[r].answer.root[read[r].answer.wallet]
          /\ read[r].answer.root = snapshots[read[r].answer.cycle]
      BY <1>0, <2>1 DEF SnapshotInv, PayloadsVerify, TypeOK
    <3>2. read[r].answer.root # None /\ read[r].answer.cycle \in Cycles
      BY <3>1, SnapshotAssumption DEF Payloads, Totals, Amounts
    <3> QED BY <1>1, <2>1, <3>1, <3>2
  <2>2. ASSUME NEW q \in Readers, ReadLatest(q) PROVE read'[r].answer = read[r].answer
    BY <1>0, <2>2 DEF ReadLatest, TypeOK
  <2>3. CASE ReadLeaf(r)
    <3> DEFINE w == read[r].wallet
               c == read[r].cycle
               a == IF leaves[c][w] = None THEN None
                    ELSE [wallet |-> w, cycle |-> c, points |-> leaves[c][w],
                          root |-> snapshots[c]]
    <3>1. read' = [read EXCEPT ![r].pc = "idle", ![r].answer = a] /\ snapshots' = snapshots
      BY <2>3 DEF ReadLeaf, tables
    <3> HIDE DEF a
    <3>2. read'[r].answer = a
      BY <1>0, <3>1 DEF TypeOK
    <3>3. w \in Wallets /\ c \in Cycles
      BY <2>3 DEF SnapshotInv, ReadersHoldSnapshots, ReadLeaf, Published
    <3>4. leaves[c][w] # None => leaves[c][w] = snapshots[c][w]
      BY <3>3 DEF SnapshotInv, LeavesMatchRoot
    <3>5. a # None =>
             /\ a.points = leaves[c][w] /\ a.root = snapshots[c]
             /\ a.wallet = w /\ a.cycle = c /\ leaves[c][w] # None
      BY DEF a
    <3> QED BY <3>1, <3>2, <3>4, <3>5
  <2>4. ASSUME NEW q \in Readers, q # r, ReadLeaf(q) PROVE read'[r] = read[r]
    BY <1>0, <2>4 DEF ReadLeaf, TypeOK
  <2>5. Restart => read'[r].answer = read[r].answer
    BY <1>0 DEF Restart, TypeOK
  <2> QED
    BY <2>1, <2>2, <2>3, <2>4, <2>5
    DEF Next, vars, Publish, LoadTotals, PickCycle, InsertSnapshot, InsertLeaf, PublishFails,
        Earn
<1> QED BY <1>0, <1>2, <1>3, <1>4, <1>5 DEF SnapshotInv

THEOREM SnapshotInvariant == Spec => []SnapshotInv
<1>1. Init => SnapshotInv BY SnapshotInvInit
<1>2. SnapshotInv /\ [Next]_vars => SnapshotInv' BY SnapshotInvStep
<1> QED BY <1>1, <1>2, PTL DEF Spec

(* However many publishers race for a cycle and wherever they stop, every   *)
(* leaf on file is a leaf of the root of its cycle.                         *)
THEOREM LeavesFitTheirRoot == Spec => []LeavesMatchRoot
<1>1. SnapshotInv => LeavesMatchRoot BY DEF SnapshotInv
<1> QED BY <1>1, SnapshotInvariant, PTL

(* A payload answered by /claim/latest from two reads, with anything        *)
(* published in between, is of one cycle: its root and points belong        *)
(* together.                                                                *)
THEOREM AnsweredPayloadsVerify == Spec => []PayloadsVerify
<1>1. SnapshotInv => PayloadsVerify BY DEF SnapshotInv
<1> QED BY <1>1, SnapshotInvariant, PTL

(* No step, failure or restart changes a published root or leaf.            *)
THEOREM SnapshotsAreFinal == Spec => PublishedForGood
<1>1. SnapshotInv /\ [Next]_vars =>
        [\A c \in Cycles :
           /\ snapshots[c] # None => snapshots'[c] = snapshots[c]
           /\ \A w \in Wallets : leaves[c][w] # None => leaves'[c][w] = leaves[c][w]]_vars
  <2> SUFFICES ASSUME SnapshotInv, [Next]_vars, NEW c \in Cycles
      PROVE  /\ snapshots[c] # None => snapshots'[c] = snapshots[c]
             /\ \A w \in Wallets : leaves[c][w] # None => leaves'[c][w] = leaves[c][w]
    OBVIOUS
  <2>1. \A w \in Wallets : leaves[c][w] # None => leaves[c][w] = snapshots[c][w]
    BY DEF SnapshotInv, LeavesMatchRoot
  <2> QED BY <2>1, TablesStep
<1> QED BY <1>1, SnapshotInvariant, PTL DEF Spec, PublishedForGood

-----------------------------------------------------------------------------
(* Totals only grow *)

LEMMA GrowthStep ==
    OnePublisher /\ SnapshotInv /\ TypeOK' /\ GrowthInv /\ [Next]_vars => GrowthInv'
<1> SUFFICES ASSUME OnePublisher, SnapshotInv, TypeOK', GrowthInv, [Next]_vars
             PROVE  GrowthInv'
  OBVIOUS
<1>0. /\ TypeOK /\ Published \subseteq Cycles /\ Cycles \subseteq Nat
      /\ \A w \in Wallets : points[w] \in Nat
      /\ \A c \in Published, w \in Wallets : snapshots[c][w] \in Nat
      /\ \A p \in Publishers, w \in Wallets : pub[p].totals[w] \in Nat
      /\ pub \in [Publishers -> PubTypes]
  <2>1. Totals \subseteq [Wallets -> Nat]
    BY SnapshotAssumption DEF Totals, Amounts
  <2> QED BY <2>1, SnapTypeSplit, SnapshotAssumption
          DEF SnapshotInv, TypeOK, Published, Cycles, PubTypes
<1>1. ASSUME NEW p \in Publishers, LoadTotals(p) PROVE GrowthInv'
  <2>1. /\ UNCHANGED <<points, snapshots>> /\ Published' = Published
        /\ pub'[p].pc = "cycle" /\ pub'[p].totals = points
        /\ \A q \in Publishers : q = p
    BY <1>0, <1>1 DEF LoadTotals, tables, Published, PubTypes, OnePublisher
  <2>2. \A w \in Wallets : points[w] <= points[w]
    BY <1>0
  <2>3. \A c \in Published, w \in Wallets : snapshots[c][w] <= points[w]
    BY DEF GrowthInv
  <2>4. TotalsGrow'
    BY <2>1 DEF GrowthInv, TotalsGrow
  <2> QED BY <2>1, <2>2, <2>3, <2>4 DEF GrowthInv
<1>2. ASSUME NEW p \in Publishers, PickCycle(p) PROVE GrowthInv'
  <2>1. /\ UNCHANGED <<points, snapshots>> /\ Published' = Published
        /\ pub[p].pc = "cycle" /\ pub'[p].totals = pub[p].totals
        /\ pub'[p].cycle = Latest + 1
        /\ \A q \in Publishers : q = p
    BY <1>0, <1>2 DEF PickCycle, tables, Published, PubTypes, OnePublisher
  <2>2. \A c \in Published : c < Latest + 1
    <3>1. \A c \in Published : c <= Latest /\ c \in Nat /\ Latest \in Nat
      BY <1>0, LatestIsPublished
    <3> QED BY <3>1
  <2> QED BY <1>0, <2>1, <2>2 DEF GrowthInv, TotalsGrow
<1>3. ASSUME NEW p \in Publishers, InsertSnapshot(p) PROVE GrowthInv'
  <2> DEFINE k == pub[p].cycle
  <2>1. /\ UNCHANGED points /\ pub[p].pc = "insert" /\ k \in Cycles
        /\ \A q \in Publishers : q = p
    BY <1>3 DEF InsertSnapshot, OnePublisher, SnapshotInv, PublishersHoldRoots
  <2>2. pub'[p].pc \notin {"cycle", "insert"}
    <3>1. CASE pub' = [pub EXCEPT ![p] = NotPublishing]
      BY <1>0, <3>1 DEF NotPublishing
    <3>2. CASE \E todo : pub' = [pub EXCEPT ![p] = [pub[p] EXCEPT !.pc = "leaves", !.todo = todo]]
      BY <1>0, <3>2 DEF PubTypes
    <3> QED BY <1>0, <1>3, <3>1, <3>2 DEF InsertSnapshot
  <2>3. CASE snapshots[k] # None
    <3>1. snapshots' = snapshots /\ Published' = Published
      BY <1>3, <2>3 DEF InsertSnapshot, Published
    <3> QED BY <2>1, <2>2, <3>1 DEF GrowthInv, TotalsGrow
  <2>4. CASE snapshots[k] = None
    <3>1. snapshots' = [snapshots EXCEPT ![k] = pub[p].totals]
      BY <1>3, <2>4 DEF InsertSnapshot
    <3>2. /\ snapshots'[k] = pub[p].totals
          /\ \A c \in Cycles : c # k => snapshots'[c] = snapshots[c]
      BY <1>0, <2>1, <3>1 DEF TypeOK
    <3>3. \A c \in Published' : c = k \/ (c \in Published /\ c < k /\ c # k)
      BY <2>1, <3>2 DEF Published, GrowthInv
    <3>4. /\ \A w \in Wallets : pub[p].totals[w] <= points[w]
          /\ \A c \in Published, w \in Wallets : snapshots[c][w] <= pub[p].totals[w]
      BY <2>1 DEF GrowthInv
    <3>5. \A c \in Published', w \in Wallets : snapshots'[c][w] <= points'[w]
      BY <1>0, <2>1, <3>2, <3>3, <3>4 DEF GrowthInv
    <3>6. TotalsGrow'
      <4> SUFFICES ASSUME NEW c \in Published', NEW d \in Published', c < d,
                          NEW w \in Wallets
                   PROVE  snapshots'[c][w] <= snapshots'[d][w]
        BY DEF TotalsGrow
      <4>1. CASE d = k
        <5>1. c # k /\ c \in Published
          <6>1. ~(k < k)
            <7>1. k \in Nat
              BY <1>0, <2>1
            <7>2. \A i \in Nat : ~(i < i)
              OBVIOUS
            <7> QED BY <7>1, <7>2
          <6>2. c < k
            BY <4>1
          <6>3. c # k
            BY <6>1, <6>2
          <6> QED BY <3>3, <6>3
        <5>2. snapshots'[c] = snapshots[c]
          BY <1>0, <3>2, <5>1
        <5> QED BY <3>2, <3>4, <4>1, <5>1, <5>2
      <4>2. CASE d # k
        <5>1. d \in Published /\ d < k /\ c \in Published /\ c # k
          <6>1. d \in Published /\ d < k /\ d \in Nat /\ k \in Nat
            BY <1>0, <2>1, <3>3, <4>2
          <6>2. c \in Nat /\ c # k
            BY <1>0, <2>1, <3>3, <6>1
          <6> QED BY <3>3, <6>1, <6>2
        <5>2. snapshots'[c] = snapshots[c] /\ snapshots'[d] = snapshots[d]
          BY <1>0, <3>2, <4>2, <5>1
        <5> QED BY <5>1, <5>2 DEF GrowthInv, TotalsGrow
      <4> QED BY <4>1, <4>2
    <3> QED BY <2>1, <2>2, <3>5, <3>6 DEF GrowthInv
  <2> QED BY <2>3, <2>4
<1>4. ASSUME UNCHANGED <<points, snapshots>>,
             \A p \in Publishers : pub'[p].pc \in {"cycle", "insert"} => pub'[p] = pub[p]
      PROVE  GrowthInv'
  BY <1>4 DEF GrowthInv, TotalsGrow, Published
<1>5. ASSUME NEW p \in Publishers, InsertLeaf(p) \/ PublishFails(p) PROVE GrowthInv'
  <2>1. UNCHANGED <<points, snapshots>>
    BY <1>5 DEF InsertLeaf, PublishFails, tables
  <2>2. \A q \in Publishers : pub'[q].pc \in {"cycle", "insert"} => pub'[q] = pub[q]
    <3>1. CASE pub' = [pub EXCEPT ![p] = NotPublishing]
      BY <1>0, <3>1 DEF NotPublishing
    <3>2. CASE /\ pub[p].pc = "leaves"
               /\ \E todo : pub' = [pub EXCEPT ![p] = [pub[p] EXCEPT !.todo = todo]]
      BY <1>0, <3>2 DEF PubTypes
    <3>3. PublishFails(p) => pub' = [pub EXCEPT ![p] = NotPublishing]
      BY DEF PublishFails
    <3>4. InsertLeaf(p) =>
             \/ pub' = [pub EXCEPT ![p] = NotPublishing]
             \/ /\ pub[p].pc = "leaves"
                /\ \E todo : pub' = [pub EXCEPT ![p] = [pub[p] EXCEPT !.todo = todo]]
      <4> SUFFICES ASSUME InsertLeaf(p), pub' # [pub EXCEPT ![p] = NotPublishing]
                   PROVE  \E todo : pub' = [pub EXCEPT ![p] = [pub[p] EXCEPT !.todo = todo]]
        BY DEF InsertLeaf
      <4> QED BY DEF InsertLeaf
    <3> QED BY <1>5, <3>1, <3>2, <3>3, <3>4
  <2> QED BY <1>4, <2>1, <2>2
<1>6. ASSUME NEW r \in Readers, ReadLatest(r) \/ ReadLeaf(r) PROVE GrowthInv'
  BY <1>4, <1>6 DEF ReadLatest, ReadLeaf, tables
<1>7. ASSUME NEW v \in Wallets, Earn(v) PROVE GrowthInv'
  <2>1. /\ UNCHANGED <<snapshots, pub>> /\ Published' = Published
        /\ \A w \in Wallets : points[w] <= points'[w] /\ points'[w] \in Nat
    <3>1. points' = [points EXCEPT ![v] = points[v] + 1] /\ points \in [Wallets -> Amounts]
      BY <1>0, <1>7 DEF Earn, TypeOK, Totals
    <3>2. \A w \in Wallets : points'[w] = points[w] \/ points'[w] = points[w] + 1
      BY <3>1
    <3> QED BY <1>0, <1>7, <3>2 DEF Earn, Published
  <2>2. \A c \in Published', w \in Wallets : snapshots'[c][w] <= points'[w]
    BY <1>0, <2>1 DEF GrowthInv
  <2>3. \A p \in Publishers : pub[p].pc \in {"cycle", "insert"} =>
           \A w \in Wallets : pub[p].totals[w] <= points'[w]
    BY <1>0, <2>1 DEF GrowthInv
  <2> QED BY <2>1, <2>2, <2>3 DEF GrowthInv, TotalsGrow
<1>8. CASE Restart \/ UNCHANGED vars
  BY <1>4, <1>8 DEF Restart, NotPublishing, tables, vars
<1> QED BY <1>1, <1>2, <1>3, <1>5, <1>6, <1>7, <1>8 DEF Next, Publish

(* Where one publisher is at work at a time - the snapshot task, failing    *)
(* and restarting as it may - a wallet's total never goes down from one     *)
(* cycle to the next, although points and cycle are read at two times.      *)
THEOREM TotalsGrowWithOnePublisher ==
    ASSUME OnePublisher
    PROVE  Spec => []TotalsGrow
<1>1. Init => GrowthInv
  BY DEF Init, GrowthInv, TotalsGrow, Published, NotPublishing
<1>2. SnapshotInv /\ SnapshotInv' /\ GrowthInv /\ [Next]_vars => GrowthInv'
  BY GrowthStep DEF SnapshotInv
<1>3. GrowthInv => TotalsGrow
  BY DEF GrowthInv
<1> QED BY <1>1, <1>2, <1>3, SnapshotInvariant, PTL DEF Spec
=============================================================================
