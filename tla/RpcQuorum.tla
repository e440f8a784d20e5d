------------------------------ MODULE RpcQuorum -----------------------------
(***************************************************************************)
(* The tally of server/src/rpc.rs: one call is put to every trusted        *)
(* endpoint, and an answer counts when a strict majority of all endpoints  *)
(* gives it, those that fail included in the count.                        *)
(*                                                                         *)
(* answers is a function from the endpoints to what each one told; Failed  *)
(* stands for a call that ended in an error or a timeout.                  *)
(***************************************************************************)
EXTENDS Integers, FiniteSets

CONSTANTS Failed, NoEndpoints, AllFailed, NoQuorum

Errors == {NoEndpoints, AllFailed, NoQuorum}

ASSUME ErrorsAssumption ==
    Failed \notin Errors /\ NoEndpoints \notin {AllFailed, NoQuorum}

Tellers(answers, v) == {e \in DOMAIN answers : answers[e] = v}
Told(answers) == {answers[e] : e \in DOMAIN answers} \ {Failed}

\* Mutant: half is enough.
HalfNeeded(answers) == Cardinality(DOMAIN answers) \div 2
MajorityNeeded(answers) == Cardinality(DOMAIN answers) \div 2 + 1

\* max_by_key: an answer that no other one outnumbers.
Best(answers) ==
    CHOOSE v \in Told(answers) : \A w \in Told(answers) :
       Cardinality(Tellers(answers, w)) <= Cardinality(Tellers(answers, v))

\* quorum_call
QuorumCall(answers) ==
    CASE DOMAIN answers = {} -> NoEndpoints
      [] DOMAIN answers # {} /\ Told(answers) = {} -> AllFailed
      [] Told(answers) # {} ->
            IF Cardinality(Tellers(answers, Best(answers))) < MajorityNeeded(answers)
            THEN NoQuorum ELSE Best(answers)
=============================================================================
