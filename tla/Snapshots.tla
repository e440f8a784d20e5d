----------------------------- MODULE Snapshots -----------------------------
(***************************************************************************)
(* Reward snapshots: publish_snapshot of server/src/merkle.rs, run by the  *)
(* snapshot task of server/src/scheduler.rs and by the admin endpoint, and *)
(* the claim lookups of server/src/api/rewards.rs.                         *)
(*                                                                         *)
(* Publishing is four kinds of statement, each its own commit: read the    *)
(* totals, read the last cycle, insert the snapshot, insert one leaf after *)
(* another.  Two publishers may be anywhere in it at once, points move     *)
(* meanwhile, and a publisher can stop between any two statements.         *)
(*                                                                         *)
(* A Merkle root is modelled by the totals it commits to: sha256 is taken  *)
(* to have no collisions.  That a leaf's proof verifies against its root,  *)
(* and no other leaf does, is the subject of module Merkle.                *)
(***************************************************************************)
EXTENDS Naturals

CONSTANTS
    None,
    Wallets,
    Publishers,     \* the snapshot task, and admin requests
    Readers,        \* claim lookups, one at a time each
    MaxPoints,      \* bound of a wallet's points
    MaxCycle,       \* bound of the cycles published
    Faults          \* whether publishers fail or the server restarts

ASSUME SnapshotAssumption ==
    /\ Wallets # {} /\ None \notin Nat /\ None \notin Wallets
    /\ None \notin [Wallets -> 0 .. MaxPoints]
    /\ MaxPoints \in Nat /\ MaxCycle \in Nat /\ Faults \in BOOLEAN

VARIABLES
    points,         \* total_points_per_wallet, now
    snapshots,      \* table snapshots: by cycle, the totals of its root
    leaves,         \* table snapshot_leaves: by cycle, wallet -> points
    pub,            \* per publisher: what it read and the leaves it has left
    read            \* per reader: the wallet, the snapshot and the answer

tables == <<points, snapshots, leaves>>
vars   == <<points, snapshots, leaves, pub, read>>

-----------------------------------------------------------------------------
Amounts == 0 .. MaxPoints
Cycles == 1 .. MaxCycle
Totals == [Wallets -> Amounts]

\* HAVING pts > 0: the wallets a snapshot has leaves for.
Eligible(totals) == {w \in Wallets : totals[w] > 0}

Published == {c \in Cycles : snapshots[c] # None}
Latest == IF Published = {} THEN 0
          ELSE CHOOSE c \in Published : \A d \in Published : d <= c

NotPublishing == [pc |-> "idle", totals |-> [w \in Wallets |-> 0], cycle |-> 0,
                  todo |-> {}]
NotReading == [pc |-> "idle", wallet |-> None, cycle |-> 0, answer |-> None]

\* /claim/latest's answer: the leaf, with the cycle and root it is proved in.
Payloads == [wallet : Wallets, cycle : Cycles, points : Amounts, root : Totals]

Init ==
    /\ points = [w \in Wallets |-> 0]
    /\ snapshots = [c \in Cycles |-> None]
    /\ leaves = [c \in Cycles |-> [w \in Wallets |-> None]]
    /\ pub = [p \in Publishers |-> NotPublishing]
    /\ read = [r \in Readers |-> NotReading]

-----------------------------------------------------------------------------
(* publish_snapshot *)

\* Mutant: only what is new is counted.
LoadNewPoints(p) ==
    /\ pub[p].pc = "idle"
    /\ Eligible(points) # {}
    /\ pub' = [pub EXCEPT ![p].pc = "cycle", ![p].totals =
         IF Latest = 0 THEN points
         ELSE [w \in Wallets |-> points[w] - snapshots[Latest][w]]]
    /\ UNCHANGED <<tables, read>>

\* total_points_per_wallet; without an eligible wallet nothing is published.
LoadTotals(p) ==
    /\ pub[p].pc = "idle"
    /\ Eligible(points) # {}
    /\ pub' = [pub EXCEPT ![p] = [@ EXCEPT !.pc = "cycle", !.totals = points]]
    /\ UNCHANGED <<tables, read>>

\* latest_snapshot, plus one.
PickCycle(p) ==
    /\ pub[p].pc = "cycle"
    /\ Latest < MaxCycle
    /\ pub' = [pub EXCEPT ![p] = [@ EXCEPT !.pc = "insert", !.cycle = Latest + 1]]
    /\ UNCHANGED <<tables, read>>

\* Mutant: the row of a cycle that is taken is written over.
InsertOrReplace(p) ==
    /\ pub[p].pc = "insert"
    /\ snapshots' = [snapshots EXCEPT ![pub[p].cycle] = pub[p].totals]
    /\ pub' = [pub EXCEPT ![p] = [@ EXCEPT !.pc = "leaves", !.todo = Eligible(pub[p].totals)]]
    /\ UNCHANGED <<points, leaves, read>>
\* Mutant: the totals are read again for the row.
InsertCurrentTotals(p) ==
    /\ pub[p].pc = "insert"
    /\ snapshots[pub[p].cycle] = None
    /\ snapshots' = [snapshots EXCEPT ![pub[p].cycle] = points]
    /\ pub' = [pub EXCEPT ![p] = [@ EXCEPT !.pc = "leaves", !.todo = Eligible(pub[p].totals)]]
    /\ UNCHANGED <<points, leaves, read>>

\* insert_snapshot: a cycle that is taken is an error, by its UNIQUE column.
InsertSnapshot(p) ==
    /\ pub[p].pc = "insert"
    /\ IF snapshots[pub[p].cycle] # None
       THEN /\ pub' = [pub EXCEPT ![p] = NotPublishing]
            /\ UNCHANGED snapshots
       ELSE /\ snapshots' = [snapshots EXCEPT ![pub[p].cycle] = pub[p].totals]
            /\ pub' = [pub EXCEPT ![p] =
                         [@ EXCEPT !.pc = "leaves", !.todo = Eligible(pub[p].totals)]]
    /\ UNCHANGED <<points, leaves, read>>

\* insert_snapshot_leaf, in the order of the wallets - left open here; the
\* last one ends the handler or the task's tick.
InsertLeaf(p) ==
    /\ pub[p].pc = "leaves"
    /\ \E w \in pub[p].todo :
         /\ leaves' = [leaves EXCEPT ![pub[p].cycle][w] = pub[p].totals[w]]
         /\ pub' = [pub EXCEPT ![p] =
                      IF pub[p].todo = {w} THEN NotPublishing
                      ELSE [pub[p] EXCEPT !.todo = pub[p].todo \ {w}]]
    /\ UNCHANGED <<points, snapshots, read>>

\* A statement fails, or the request is dropped: what is written stays.
PublishFails(p) ==
    /\ Faults
    /\ pub[p].pc # "idle"
    /\ pub' = [pub EXCEPT ![p] = NotPublishing]
    /\ UNCHANGED <<tables, read>>

-----------------------------------------------------------------------------
(* GET /api/wallet/:wallet/claim/latest *)

ReadLatest(r) ==
    /\ read[r].pc = "idle"
    /\ \E w \in Wallets :
         read' = [read EXCEPT ![r] =
                    [pc |-> IF Latest = 0 THEN "idle" ELSE "leaf", wallet |-> w,
                     cycle |-> Latest, answer |-> None]]
    /\ UNCHANGED <<tables, pub>>

\* Mutant: the root of the answer is looked up again, after the leaf.
ReadLeafThenRoot(r) ==
    /\ read[r].pc = "leaf"
    /\ LET w == read[r].wallet
           c == read[r].cycle
       IN  read' = [read EXCEPT ![r].pc = "idle", ![r].answer =
             IF leaves[c][w] = None THEN None
             ELSE [wallet |-> w, cycle |-> c, points |-> leaves[c][w],
                   root |-> snapshots[Latest]]]
    /\ UNCHANGED <<tables, pub>>

\* snapshot_leaf_for_wallet; no leaf is a 404.
ReadLeaf(r) ==
    /\ read[r].pc = "leaf"
    /\ LET w == read[r].wallet
           c == read[r].cycle
       IN  read' = [read EXCEPT ![r].pc = "idle", ![r].answer =
             IF leaves[c][w] = None THEN None
             ELSE [wallet |-> w, cycle |-> c, points |-> leaves[c][w],
                   root |-> snapshots[c]]]
    /\ UNCHANGED <<tables, pub>>

-----------------------------------------------------------------------------
\* Proofs, uptime and audits: points only ever grow.
Earn(w) ==
    /\ points[w] < MaxPoints
    /\ points' = [points EXCEPT ![w] = @ + 1]
    /\ UNCHANGED <<snapshots, leaves, pub, read>>

Restart ==
    /\ Faults
    /\ pub' = [p \in Publishers |-> NotPublishing]
    /\ read' = [r \in Readers |-> [read[r] EXCEPT !.pc = "idle"]]
    /\ UNCHANGED tables

Publish(p) ==
    LoadTotals(p) \/ PickCycle(p) \/ InsertSnapshot(p) \/ InsertLeaf(p) \/ PublishFails(p)

Next ==
    \/ \E p \in Publishers : Publish(p)
    \/ \E r \in Readers : ReadLatest(r) \/ ReadLeaf(r)
    \/ \E w \in Wallets : Earn(w)
    \/ Restart

Spec == Init /\ [][Next]_vars

-----------------------------------------------------------------------------
(* Properties *)

(* Every variable has the shape its declaration says.                       *)
TypeOK ==
    /\ points \in Totals
    /\ snapshots \in [Cycles -> Totals \cup {None}]
    /\ leaves \in [Cycles -> [Wallets -> Amounts \cup {None}]]
    /\ pub \in [Publishers -> [pc : {"idle", "cycle", "insert", "leaves"}, totals : Totals,
                               cycle : 0 .. MaxCycle, todo : SUBSET Wallets]]
    /\ read \in [Readers -> [pc : {"idle", "leaf"}, wallet : Wallets \cup {None},
                             cycle : 0 .. MaxCycle, answer : Payloads \cup {None}]]

(* Every leaf on file is a leaf of the root of its cycle, also when two     *)
(* publishers pick the same cycle and only one of them gets it.             *)
LeavesMatchRoot ==
    \A c \in Cycles, w \in Wallets : leaves[c][w] # None =>
       snapshots[c] # None /\ leaves[c][w] = snapshots[c][w] /\ leaves[c][w] > 0

(* A payload that /claim/latest answers verifies: its points are those of   *)
(* the wallet in the root it names, and that root is its cycle's for good.  *)
PayloadsVerify ==
    \A r \in Readers : read[r].answer # None =>
       LET a == read[r].answer IN
       a.points = a.root[a.wallet] /\ a.root = snapshots[a.cycle]

(* A published root and the leaves filed under it never change.             *)
PublishedForGood ==
    [][\A c \in Cycles :
         /\ snapshots[c] # None => snapshots'[c] = snapshots[c]
         /\ \A w \in Wallets : leaves[c][w] # None => leaves'[c][w] = leaves[c][w]]_vars

(* With one publisher, restarts included, a wallet's total never goes down  *)
(* from one cycle to the next.                                              *)
TotalsGrow ==
    \A c, d \in Published : c < d => \A w \in Wallets : snapshots[c][w] <= snapshots[d][w]

-----------------------------------------------------------------------------
(* Why they hold: the inductive invariant the proofs use.                   *)

\* Whoever inserts leaves has the totals of the root that is on file.
PublishersHoldRoots ==
    \A p \in Publishers :
       /\ pub[p].pc \in {"insert", "leaves"} => pub[p].cycle \in Cycles
       /\ pub[p].pc = "leaves" =>
             /\ snapshots[pub[p].cycle] = pub[p].totals
             /\ pub[p].todo \subseteq Eligible(pub[p].totals)

\* Whoever looks a leaf up does it in a snapshot that is on file.
ReadersHoldSnapshots ==
    \A r \in Readers : read[r].pc = "leaf" =>
       read[r].wallet \in Wallets /\ read[r].cycle \in Published

SnapshotInv ==
    /\ TypeOK /\ PublishersHoldRoots /\ ReadersHoldSnapshots
    /\ LeavesMatchRoot /\ PayloadsVerify

\* TotalsGrow, where there is one publisher: what it has read is no less than
\* what is published, and no more than what the wallets have by now.
OnePublisher == \A p, q \in Publishers : p = q
GrowthInv ==
    /\ TotalsGrow
    /\ \A c \in Published, w \in Wallets : snapshots[c][w] <= points[w]
    /\ \A p \in Publishers : pub[p].pc \in {"cycle", "insert"} =>
          \A w \in Wallets :
             /\ pub[p].totals[w] <= points[w]
             /\ \A c \in Published : snapshots[c][w] <= pub[p].totals[w]
    /\ \A p \in Publishers : pub[p].pc = "insert" => \A c \in Published : c < pub[p].cycle
=============================================================================
