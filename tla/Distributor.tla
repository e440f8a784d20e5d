----------------------------- MODULE Distributor -----------------------------
(***************************************************************************)
(* The claim program on Solana (programs/zepin-claim) beside the server's  *)
(* snapshots.  The operator of the server - the authority - copies a       *)
(* published root into the distributor of its cycle and funds its vault,   *)
(* and wallets send the payloads of /claim/latest to it.                   *)
(*                                                                         *)
(* None of this is enforced by the program.  Whoever signs first makes the *)
(* distributor of a cycle, with any root and any rate, and a claim may     *)
(* come with any points and any proof; the signer's key is all that binds  *)
(* it.  So the specification lets every signer do so, and the authority    *)
(* follow the procedure.                                                   *)
(*                                                                         *)
(* An instruction is one transaction: it succeeds as a whole or changes    *)
(* nothing, so only those that succeed are steps.  Meanwhile points grow,  *)
(* snapshots are published, vaults are short of funds and topped up, and   *)
(* claims are sent late, twice, and to the distributor of another cycle.   *)
(***************************************************************************)
EXTENDS Snapshots, Merkle, FiniteSetsExt, SequencesExt

CONSTANTS
    Authority,      \* the operator's key
    Strangers,      \* other keys that may sign initialize_distributor
    Roots,          \* what a stranger may pass as merkle_root: any hashes
    Rates,          \* payout_per_point
    Claimed,        \* the points a claimer may name
    Proofs,         \* the proofs a claimer may send: any sequences of hashes
    MaxTokens,      \* u64::MAX
    Deposits,       \* amounts transferred into a vault
    MaxDeposited    \* bound of what a vault ever receives

-----------------------------------------------------------------------------
(* Roots and proofs: the server's hashing and the program's are the same    *)

\* The wallets with a leaf, in the order publish_snapshot sorts them in.
Listed(totals) == SetToSeq(Eligible(totals))
LeavesOf(totals) ==
    LET list == Listed(totals)
    IN  [i \in 1 .. Len(list) |-> HashLeaf(list[i], totals[list[i]])]
SnapshotRoot(totals) == Root(LeavesOf(totals))

\* The siblings of a payload, as filed with its leaf.
ProofOf(payload) ==
    LET list == Listed(payload.root)
    IN  ProofFor(LeavesOf(payload.root),
                 CHOOSE i \in 1 .. Len(list) : list[i] = payload.wallet)

\* The accounts initialize_distributor can make.
Distributors == [authority : Strangers \cup {Authority}, rate : Rates,
                 root : Roots \cup {SnapshotRoot(t) : t \in {u \in Totals : Eligible(u) # {}}}]

ASSUME DistributorAssumption ==
    /\ Rates \subseteq Nat /\ Claimed \subseteq Nat /\ Deposits \subseteq Nat
    /\ MaxTokens \in Nat /\ MaxDeposited \in Nat
    /\ \A proof \in Proofs : Len(proof) \in Nat
    /\ Authority \notin Strangers /\ None \notin Distributors
    /\ IsFiniteSet(Wallets)

VARIABLES
    distributors,   \* account per cycle: authority, root and rate
    vault,          \* per cycle: the balance of the distributor's vault
    receipts,       \* per cycle and wallet: the amount of the ClaimReceipt
    held,           \* per wallet: what its token accounts hold, added up
    deposited       \* history: what a vault ever received

chain == <<distributors, vault, receipts, held, deposited>>
claimVars == <<vars, chain>>

ClaimInit ==
    /\ Init
    /\ distributors = [c \in Cycles |-> None]
    /\ vault = [c \in Cycles |-> 0]
    /\ receipts = [c \in Cycles |-> [w \in Wallets |-> None]]
    /\ held = [w \in Wallets |-> 0]
    /\ deposited = [c \in Cycles |-> 0]

-----------------------------------------------------------------------------
(* initialize_distributor *)

\* Mutant: init_if_needed, which writes over the account of a cycle.
InitializeAgain(c, signer, root, rate) ==
    /\ distributors' = [distributors EXCEPT
                          ![c] = [authority |-> signer, root |-> root, rate |-> rate]]
    /\ UNCHANGED <<vars, vault, receipts, held, deposited>>

\* init refuses a second account for the seeds, which are the cycle alone.
InitializeDistributor(c, signer, root, rate) ==
    /\ distributors[c] = None
    /\ distributors' = [distributors EXCEPT
                          ![c] = [authority |-> signer, root |-> root, rate |-> rate]]
    /\ UNCHANGED <<vars, vault, receipts, held, deposited>>

\* The authority's procedure: the root the server published for the cycle.
PublishRoot(c) ==
    /\ snapshots[c] # None
    /\ \E rate \in Rates :
          InitializeDistributor(c, Authority, SnapshotRoot(snapshots[c]), rate)

\* Anyone else's: any hash, the root of some cycle or not.
TakeCycle(c) ==
    \E s \in Strangers, root \in Roots, rate \in Rates :
       InitializeDistributor(c, s, root, rate)

\* A plain token transfer into the vault, which the distributor owns.
Deposit(c) ==
    /\ \E a \in Deposits :
         /\ deposited[c] + a <= MaxDeposited
         /\ vault[c] + a <= MaxTokens
         /\ vault' = [vault EXCEPT ![c] = @ + a]
         /\ deposited' = [deposited EXCEPT ![c] = @ + a]
    /\ UNCHANGED <<vars, distributors, receipts, held>>

-----------------------------------------------------------------------------
(* claim *)

\* u128 arithmetic; claim fails what does not fit u64.
Payout(points_, rate) == points_ * rate

\* token::transfer from the vault, and the receipt, in one transaction.
Pay(c, w, amount) ==
    /\ vault' = [vault EXCEPT ![c] = @ - amount]
    /\ held' = [held EXCEPT ![w] = @ + amount]
    /\ receipts' = [receipts EXCEPT ![c][w] = amount]

\* Mutants: the vault need not hold the payout; the receipt is init_if_needed.
ClaimUnfunded(c, w, points_, proof) ==
    /\ distributors[c] # None
    /\ receipts[c][w] = None
    /\ VerifyProof(HashLeaf(w, points_), proof, distributors[c].root)
    /\ LET amount == Payout(points_, distributors[c].rate)
       IN  amount <= MaxTokens /\ Pay(c, w, amount)
    /\ UNCHANGED <<vars, distributors, deposited>>
ClaimAgain(c, w, points_, proof) ==
    /\ distributors[c] # None
    /\ VerifyProof(HashLeaf(w, points_), proof, distributors[c].root)
    /\ LET amount == Payout(points_, distributors[c].rate)
       IN  amount <= MaxTokens /\ amount <= vault[c] /\ Pay(c, w, amount)
    /\ UNCHANGED <<vars, distributors, deposited>>

\* Wallet w signs a claim at cycle c's distributor, for the leaf of its own key.
\* The receipt is created by init; an overflow or a short vault fails it all.
Claim(c, w, points_, proof) ==
    /\ distributors[c] # None
    /\ receipts[c][w] = None
    /\ VerifyProof(HashLeaf(w, points_), proof, distributors[c].root)
    /\ LET amount == Payout(points_, distributors[c].rate)
       IN  amount <= MaxTokens /\ amount <= vault[c] /\ Pay(c, w, amount)
    /\ UNCHANGED <<vars, distributors, deposited>>

-----------------------------------------------------------------------------
ClaimNext ==
    \/ Next /\ UNCHANGED chain
    \/ \E c \in Cycles : PublishRoot(c) \/ TakeCycle(c) \/ Deposit(c)
    \/ \E c \in Cycles, w \in Wallets, points_ \in Claimed, proof \in Proofs :
          Claim(c, w, points_, proof)

ClaimSpec == ClaimInit /\ [][ClaimNext]_claimVars

-----------------------------------------------------------------------------
(* Properties *)

(* Every variable has the shape its declaration says; a balance fits u64.   *)
ClaimTypeOK ==
    /\ TypeOK
    /\ distributors \in [Cycles -> Distributors \cup {None}]
    /\ vault \in [Cycles -> 0 .. MaxTokens]
    /\ receipts \in [Cycles -> [Wallets -> 0 .. MaxTokens \cup {None}]]
    /\ held \in [Wallets -> Nat]
    /\ deposited \in [Cycles -> 0 .. MaxDeposited]

PaidBy(c) == {w \in Wallets : receipts[c][w] # None}
PaidTo(w) == {c \in Cycles : receipts[c][w] # None}

(* Tokens are neither made nor lost nor paid twice: what a vault received   *)
(* is what it holds and what its receipts say, and what a wallet holds is   *)
(* the sum of its receipts, however often and wherever claims are sent.     *)
VaultsBalance ==
    /\ \A c \in Cycles :
          deposited[c] = vault[c] + SumFunctionOnSet(receipts[c], PaidBy(c))
    /\ \A w \in Wallets :
          held[w] = SumFunctionOnSet([c \in Cycles |-> receipts[c][w]], PaidTo(w))

(* A distributor whose root is that of some snapshot - whoever made it, and *)
(* for whichever cycle - pays only the wallets of that snapshot, the rate   *)
(* times their points there, in full: no other points and no other proof    *)
(* than those of the snapshot get a receipt.                                *)
PayoutsMatchSnapshot ==
    \A c \in Cycles : \A w \in PaidBy(c) :
       /\ distributors[c] # None
       /\ \A d \in Published : distributors[c].root = SnapshotRoot(snapshots[d]) =>
             /\ snapshots[d][w] > 0
             /\ receipts[c][w] = distributors[c].rate * snapshots[d][w]

\* What /claim/latest answers of cycle d, see PayloadsVerify.
PayloadOf(w, d) == [wallet |-> w, cycle |-> d, points |-> leaves[d][w], root |-> snapshots[d]]

(* A payload of the server verifies on the chain exactly where the root is  *)
(* the one it was proved in: at the distributor of its own cycle if that is *)
(* the authority's, at a stranger's only if it has the same root.           *)
PayloadsVerifyOnChain ==
    \A d \in Cycles, w \in Wallets : leaves[d][w] # None =>
       LET a == PayloadOf(w, d)
           proof == ProofOf(a)
           root == SnapshotRoot(a.root)
           Verifies(c) == VerifyProof(HashLeaf(w, a.points), proof, distributors[c].root)
       IN  \A c \in Cycles : distributors[c] # None =>
             /\ Verifies(c) <=> distributors[c].root = root
             /\ c = d /\ distributors[c].authority = Authority => Verifies(c)

(* Whatever is published: in trees of one to seven leaves, odd layers       *)
(* included, leaf i verifies with the proof of leaf i and no other does     *)
(* (the Kani harness of merkle.rs).  The trees do not depend on the state.  *)
EveryLeafVerifies == Published # {} => TreesVerify

-----------------------------------------------------------------------------
(* Why they hold: the inductive invariant the proofs use.                   *)

\* No root is of an empty tree.
RootsHaveLeaves ==
    /\ \A p \in Publishers : pub[p].pc # "idle" => Eligible(pub[p].totals) # {}
    /\ \A c \in Published : Eligible(snapshots[c]) # {}

\* The authority follows its procedure.
AuthorityCopiesRoots ==
    \A c \in Cycles :
       distributors[c] # None /\ distributors[c].authority = Authority =>
          snapshots[c] # None /\ distributors[c].root = SnapshotRoot(snapshots[c])

\* A receipt was paid for a leaf that verifies against the root.
ReceiptsAreProved ==
    \A c \in Cycles : \A w \in PaidBy(c) :
       /\ distributors[c] # None
       /\ \E points_ \in Claimed, proof \in Proofs :
             /\ VerifyProof(HashLeaf(w, points_), proof, distributors[c].root)
             /\ receipts[c][w] = distributors[c].rate * points_

ClaimInv ==
    /\ SnapshotInv /\ RootsHaveLeaves /\ AuthorityCopiesRoots
    /\ ClaimTypeOK /\ VaultsBalance /\ ReceiptsAreProved
=============================================================================
