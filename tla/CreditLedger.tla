---------------------------- MODULE CreditLedger ----------------------------
(***************************************************************************)
(* What the server promises about points, with every handler, race and     *)
(* retry taken away.  A claim (a node, a height, a block hash) is decided  *)
(* once: it is refused, or it is awarded an amount.  An awarded claim is   *)
(* credited at most once, for exactly its award, to the node that made it. *)
(* The only other income of a node is what it accrues for being up and for *)
(* passing audits.                                                         *)
(* ProofIntake is shown to implement this specification.                   *)
(***************************************************************************)
EXTENDS Naturals

CONSTANTS
    Nodes,      \* registered nodes
    Claims,     \* records with at least a field node, in Nodes
    Amounts     \* what an award, or one accrual, may be: numbers

VARIABLES
    decision,   \* per claim: "open", "refused", "awarded" or "credited"
    award,      \* per claim: the amount it was awarded
    accrued,    \* per node: points earned for uptime and audits
    balance     \* per node: the points column the wallet sees

ledgerVars == <<decision, award, accrued, balance>>

Init ==
    /\ decision = [c \in Claims |-> "open"]
    /\ award = [c \in Claims |-> 0]
    /\ accrued = [n \in Nodes |-> 0]
    /\ balance = [n \in Nodes |-> 0]

Refuse(c) ==
    /\ decision[c] = "open"
    /\ decision' = [decision EXCEPT ![c] = "refused"]
    /\ UNCHANGED <<award, accrued, balance>>

Grant(c) ==
    /\ decision[c] = "open"
    /\ decision' = [decision EXCEPT ![c] = "awarded"]
    /\ \E a \in Amounts : award' = [award EXCEPT ![c] = a]
    /\ UNCHANGED <<accrued, balance>>

Credit(c) ==
    /\ decision[c] = "awarded"
    /\ decision' = [decision EXCEPT ![c] = "credited"]
    /\ balance' = [balance EXCEPT ![c.node] = @ + award[c]]
    /\ UNCHANGED <<award, accrued>>

Accrue(n) ==
    /\ UNCHANGED <<decision, award>>
    /\ \E a \in Amounts :
         /\ accrued' = [accrued EXCEPT ![n] = @ + a]
         /\ balance' = [balance EXCEPT ![n] = @ + a]

Next ==
    \/ \E c \in Claims : Refuse(c) \/ Grant(c) \/ Credit(c)
    \/ \E n \in Nodes : Accrue(n)

Spec == Init /\ [][Next]_ledgerVars
=============================================================================
