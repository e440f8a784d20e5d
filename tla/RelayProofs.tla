---------------------------- MODULE RelayProofs ----------------------------
(***************************************************************************)
(* Proofs about Relay for any number of endpoints, handlers and blocks, as *)
(* long as at most half of the endpoints are faulty: its type invariant,   *)
(* that accepted claims were verified, and that an honest claim is         *)
(* rejected only if it was torn or out of drift.                           *)
(***************************************************************************)
EXTENDS Relay, FiniteSetTheorems, WellFoundedInduction, TLAPS

-----------------------------------------------------------------------------
(* The tally *)

LEMMA TellersFinite ==
    ASSUME NEW answers, IsFiniteSet(DOMAIN answers), NEW v
    PROVE  /\ IsFiniteSet(Tellers(answers, v))
           /\ Cardinality(Tellers(answers, v)) \in 0 .. Cardinality(DOMAIN answers)
<1>1. Tellers(answers, v) \in SUBSET DOMAIN answers
  BY DEF Tellers
<1>2. /\ IsFiniteSet(Tellers(answers, v))
      /\ Cardinality(Tellers(answers, v)) <= Cardinality(DOMAIN answers)
  BY <1>1, FS_Subset
<1> QED BY <1>2, FS_CardinalityType

\* max_by_key finds an answer whenever one was told.
LEMMA BestIsTold ==
    ASSUME NEW answers, IsFiniteSet(DOMAIN answers), Told(answers) # {}
    PROVE  Best(answers) \in Told(answers)
<1> DEFINE N == Cardinality(DOMAIN answers)
           votes(v) == Cardinality(Tellers(answers, v))
           T == {N - votes(v) : v \in Told(answers)}
<1>1. N \in Nat /\ \A v : votes(v) \in 0 .. N
  BY FS_CardinalityType, TellersFinite
<1>2. T \subseteq Nat /\ T # {}
  BY <1>1
<1>3. \E x \in T : \A y \in T : ~ (<<y, x>> \in OpToRel(<, Nat))
  BY <1>2, WFMin, NatLessThanWellFounded, Zenon
<1>4. PICK x \in T : \A y \in T : x <= y
  <2> HIDE DEF T
  <2>1. PICK x \in T : \A y \in T : ~ (<<y, x>> \in OpToRel(<, Nat))
    BY <1>3
  <2>2. ASSUME NEW y \in T PROVE x <= y
    <3>1. x \in Nat /\ y \in Nat
      BY <1>2
    <3>2. y < x => <<y, x>> \in OpToRel(<, Nat)
      BY <3>1, Zenon DEF OpToRel
    <3>3. <<y, x>> \notin OpToRel(<, Nat)
      BY <2>1, Zenon
    <3>4. ~ (y < x)
      BY <3>2, <3>3, Zenon
    <3> QED BY <3>1, <3>4
  <2> QED BY <2>1, <2>2
<1>5. PICK v \in Told(answers) : x = N - votes(v)
  OBVIOUS
<1>6. \A w \in Told(answers) : votes(w) <= votes(v)
  <2> TAKE w \in Told(answers)
  <2>1. x <= N - votes(w)
    BY <1>4
  <2>2. N - votes(v) <= N - votes(w)
    BY <1>5, <2>1
  <2>3. votes(w) \in 0 .. N /\ votes(v) \in 0 .. N
    BY <1>1, Zenon
  <2> HIDE DEF N, votes
  <2> QED BY <1>1, <2>2, <2>3
<1> QED BY <1>5, <1>6 DEF Best

\* A strict majority is more than the faulty endpoints can be.
LEMMA HonestTeller ==
    ASSUME NEW answers, DOMAIN answers = Endpoints, NEW v,
           Cardinality(Tellers(answers, v)) >= MajorityNeeded(answers)
    PROVE  \E e \in Honest : answers[e] = v
<1> SUFFICES ASSUME \A e \in Honest : answers[e] # v PROVE FALSE
  OBVIOUS
<1>1. IsFiniteSet(Endpoints) /\ IsFiniteSet(Faulty)
  BY RelayAssumption, FS_Subset
<1>2. Tellers(answers, v) \in SUBSET Faulty
  BY DEF Tellers, Honest
<1>3. Cardinality(Tellers(answers, v)) <= Cardinality(Faulty)
  BY <1>1, <1>2, FS_Subset
<1>4. /\ Cardinality(Endpoints) \in Nat /\ Cardinality(Faulty) \in Nat
      /\ Cardinality(Tellers(answers, v)) \in Nat
  BY <1>1, FS_CardinalityType, TellersFinite
<1> QED BY <1>3, <1>4, RelayAssumption DEF MajorityNeeded

(* What the quorum answers, if it answers a block at all, is what an honest *)
(* endpoint told: quorum_call never lets the faulty ones, or a split        *)
(* between endpoints at different heights, decide.                          *)
THEOREM QuorumIsHonest ==
    ASSUME NEW answers, DOMAIN answers = Endpoints, QuorumCall(answers) \notin Errors
    PROVE  /\ QuorumCall(answers) # Failed
           /\ \E e \in Honest : answers[e] = QuorumCall(answers)
<1>1. IsFiniteSet(DOMAIN answers)
  BY RelayAssumption
<1>2. Endpoints # {} /\ Told(answers) # {}
  BY DEF QuorumCall, Errors, Told
<1>3. /\ QuorumCall(answers) = Best(answers)
      /\ ~ (Cardinality(Tellers(answers, Best(answers))) < MajorityNeeded(answers))
  BY <1>2 DEF QuorumCall, Errors
<1>4. Best(answers) # Failed
  BY <1>1, <1>2, BestIsTold DEF Told
<1>5. Cardinality(Tellers(answers, Best(answers))) >= MajorityNeeded(answers)
  BY <1>1, <1>3, TellersFinite, FS_CardinalityType DEF MajorityNeeded
<1> QED BY <1>3, <1>4, <1>5, HonestTeller

-----------------------------------------------------------------------------
(* Types *)

RelayTypes == [pc : {"sleep", "hash", "post", "wait"}, height : Heights, hash : Hashes,
               handler : Handlers \cup {None}]
CheckTypes == [pc : {"idle", "asking"}, height : Heights, hash : Hashes,
               tip : Heights \cup {None},
               answers : [Endpoints -> Hashes \cup {Failed, None}],
               verdict : {"accepted", "rejected", "pending", None}]

LEMMA ConstantsFit ==
    /\ 0 \in Heights /\ Heights \subseteq Nat /\ Heights \subseteq Hashes /\ Text \in Hashes
    /\ Unasked \in [Endpoints -> Hashes \cup {Failed, None}]
    /\ NoTick \in RelayTypes /\ NoCheck \in CheckTypes
<1>1. /\ 0 \in Heights /\ Heights \subseteq Nat /\ Heights \subseteq Hashes
      /\ Text \in Hashes /\ 0 \in Hashes
  BY RelayAssumption DEF Heights, Hashes
<1>2. Unasked \in [Endpoints -> Hashes \cup {Failed, None}]
  BY DEF Unasked
<1> QED BY <1>1, <1>2 DEF NoTick, NoCheck, RelayTypes, CheckTypes

LEMMA VerdictType ==
    ASSUME NEW height, NEW hash, NEW cached, NEW answer
    PROVE  Verdict(height, hash, cached, answer) \in {"accepted", "rejected", "pending"}
BY ErrorsAssumption DEF Verdict, Errors

\* Nodes move along the chain and never past it.
WorldOK ==
    /\ chain \in Heights /\ own \in 0 .. chain
    /\ view \in [Endpoints -> 0 .. chain]
    /\ source \in Sources
    /\ prover \in 0 .. own \cup {None}
    /\ proofFile \in {ProofFile(h) : h \in 0 .. own} \cup {None}
    /\ tip \in 0 .. chain \cup {None}

\* A tip the quorum agrees on is a height of an honest endpoint.
LEMMA TipIsReached ==
    ASSUME WorldOK, RefreshTip
    PROVE  tip' \in 0 .. chain
<1>1. PICK t \in Heights : QuorumCall(CountsTold(t)) = t /\ tip' = t
  BY DEF RefreshTip
<1>2. DOMAIN CountsTold(t) = Endpoints
  BY DEF CountsTold
<1>3. t \in Nat /\ t \notin Errors
  BY ConstantsFit, RelayAssumption
<1>4. PICK e \in Honest : CountsTold(t)[e] = t /\ t # Failed
  BY <1>1, <1>2, <1>3, QuorumIsHonest
<1>5. t <= view[e]
  BY <1>4 DEF CountsTold, Honest
<1>6. view[e] \in 0 .. chain /\ chain \in Nat
  BY ConstantsFit DEF WorldOK, Honest
<1> QED BY <1>1, <1>3, <1>5, <1>6

LEMMA TypeSplit ==
    TypeOK <=> WorldOK /\ relay \in RelayTypes /\ check \in [Handlers -> CheckTypes]
BY DEF TypeOK, WorldOK, RelayTypes, CheckTypes

LEMMA RelayTypeInit == Init => TypeOK
<1> SUFFICES ASSUME Init PROVE TypeOK
  OBVIOUS
<1>1. WorldOK
  BY ConstantsFit DEF Init, WorldOK
<1>2. relay \in RelayTypes /\ check \in [Handlers -> CheckTypes]
  BY ConstantsFit DEF Init
<1> QED BY <1>1, <1>2, TypeSplit

LEMMA RelayTypeStep == TypeOK /\ [Next]_vars => TypeOK'
<1> SUFFICES ASSUME TypeOK, [Next]_vars PROVE TypeOK'
  OBVIOUS
<1>0. WorldOK /\ relay \in RelayTypes /\ check \in [Handlers -> CheckTypes]
  BY TypeSplit
<1> SUFFICES WorldOK' /\ relay' \in RelayTypes /\ check' \in [Handlers -> CheckTypes]
  BY TypeSplit DEF TypeOK, WorldOK, RelayTypes, CheckTypes
<1>1. CASE MineBlock
  BY <1>0, <1>1, RelayAssumption DEF MineBlock, WorldOK, Heights
<1>2. CASE OwnAdvances
  BY <1>0, <1>2, RelayAssumption DEF OwnAdvances, WorldOK, Heights
<1>3. CASE ProverReads
  BY <1>0, <1>3 DEF ProverReads, WorldOK, Heights
<1>4. CASE ProverWrites
  BY <1>0, <1>4 DEF ProverWrites, WorldOK
<1>5. ASSUME NEW e \in Honest, Advances(e) PROVE TypeOK'
  <2>1. view' \in [Endpoints -> 0 .. chain]
    BY <1>0, <1>5, RelayAssumption DEF Advances, WorldOK, Heights, Honest
  <2>2. UNCHANGED <<chain, own, source, prover, proofFile, relay, check>>
    BY <1>5 DEF Advances
  <2>3. tip' = tip
    BY <1>5 DEF Advances
  <2> QED BY <1>0, <2>1, <2>2, <2>3, TypeSplit DEF WorldOK, TypeOK, RelayTypes, CheckTypes
<1>6. CASE ReadCount
  <2>1. own \in Heights /\ NoTick \in RelayTypes
    BY <1>0, ConstantsFit, RelayAssumption DEF WorldOK, Heights
  <2>2. relay' = [NoTick EXCEPT !.pc = "hash", !.height = own]
    BY <1>6 DEF ReadCount
  <2>3. relay' \in RelayTypes
    BY <2>1, <2>2 DEF RelayTypes
  <2> QED BY <1>0, <1>6, <2>3 DEF ReadCount, world, nodes, WorldOK
<1>7. CASE ReadBestHash
  <2>1. own \in Hashes
    BY <1>0, ConstantsFit, RelayAssumption DEF WorldOK, Heights, Hashes
  <2>2. relay' = [relay EXCEPT !.pc = "post", !.hash = own]
    BY <1>7 DEF ReadBestHash
  <2>3. relay' \in RelayTypes
    BY <1>0, <2>1, <2>2 DEF RelayTypes
  <2> QED BY <1>0, <1>7, <2>3 DEF ReadBestHash, world, nodes, WorldOK
<1>8. CASE ReadProofFile
  <2>1. PICK height \in 0 .. own : proofFile = ProofFile(height)
    BY <1>0, <1>8 DEF ReadProofFile, WorldOK
  <2>2. proofFile.height \in Heights /\ proofFile.publicInput = Text
    BY <1>0, <2>1, RelayAssumption DEF ProofFile, WorldOK, Heights
  <2>3. relay' = [NoTick EXCEPT !.pc = "post", !.height = proofFile.height,
                                !.hash = proofFile.publicInput]
    BY <1>8 DEF ReadProofFile
  <2>4. relay' \in RelayTypes
    BY <2>2, <2>3, ConstantsFit DEF RelayTypes
  <2> QED BY <1>0, <1>8, <2>4 DEF ReadProofFile, world, nodes, WorldOK
<1>9. CASE Post
  <2>1. PICK h \in Handlers :
          /\ check' = [check EXCEPT ![h] =
                         [NoCheck EXCEPT !.pc = "asking", !.height = relay.height,
                                         !.hash = relay.hash, !.tip = tip]]
          /\ relay' = [relay EXCEPT !.pc = "wait", !.handler = h]
    BY <1>9 DEF Post
  <2>2. relay' \in RelayTypes
    BY <1>0, <2>1 DEF RelayTypes
  <2>3. /\ relay.height \in Heights /\ relay.hash \in Hashes
        /\ tip \in Heights \cup {None}
    BY <1>0, RelayAssumption DEF RelayTypes, WorldOK, Heights
  <2>4. [NoCheck EXCEPT !.pc = "asking", !.height = relay.height, !.hash = relay.hash,
                        !.tip = tip] \in CheckTypes
    BY <2>3, ConstantsFit DEF CheckTypes
  <2>5. check' \in [Handlers -> CheckTypes]
    BY <1>0, <2>1, <2>4
  <2> QED BY <1>0, <1>9, <2>2, <2>5 DEF Post, world, nodes, WorldOK
<1>10. CASE TickFails
  BY <1>0, <1>10, ConstantsFit DEF TickFails, world, nodes, WorldOK
<1>11. ASSUME NEW h \in Handlers, NEW e \in Endpoints, Answers(e, h) PROVE TypeOK'
  <2>1. PICK v \in Hashes \cup {Failed} : check' = [check EXCEPT ![h].answers[e] = v]
    BY <1>11 DEF Answers
  <2>2. check[h] \in CheckTypes
    BY <1>0
  <2>3. [check[h].answers EXCEPT ![e] = v] \in [Endpoints -> Hashes \cup {Failed, None}]
    BY <2>2 DEF CheckTypes
  <2>4. [check[h] EXCEPT !.answers = [check[h].answers EXCEPT ![e] = v]] \in CheckTypes
    BY <2>2, <2>3 DEF CheckTypes
  <2>5. check' \in [Handlers -> CheckTypes]
    BY <1>0, <2>1, <2>4
  <2>6. UNCHANGED <<world, relay>>
    BY <1>11 DEF Answers
  <2>7. WorldOK' /\ relay' \in RelayTypes
    BY <1>0, <2>6 DEF world, nodes, WorldOK
  <2> QED BY <2>5, <2>7 DEF TypeOK, WorldOK, RelayTypes, CheckTypes
<1>12. ASSUME NEW h \in Handlers, Decide(h) PROVE TypeOK'
  <2> DEFINE v == Verdict(check[h].height, check[h].hash, check[h].tip,
                          QuorumCall(check[h].answers))
  <2>1. check' = [check EXCEPT ![h] =
                    [@ EXCEPT !.pc = "idle", !.answers = Unasked, !.verdict = v]]
    BY <1>12 DEF Decide
  <2>2. v \in {"accepted", "rejected", "pending"} /\ check[h] \in CheckTypes
    BY <1>0, VerdictType
  <2> HIDE DEF v
  <2>3. [check[h] EXCEPT !.pc = "idle", !.answers = Unasked, !.verdict = v] \in CheckTypes
    BY <2>2, ConstantsFit DEF CheckTypes
  <2>4. check' \in [Handlers -> CheckTypes]
    BY <1>0, <2>1, <2>3
  <2>5. relay' \in RelayTypes /\ UNCHANGED world
    BY <1>0, <1>12, ConstantsFit DEF Decide
  <2>6. WorldOK'
    BY <1>0, <2>5 DEF world, nodes, WorldOK
  <2> QED BY <2>4, <2>5, <2>6 DEF TypeOK, WorldOK, RelayTypes, CheckTypes
<1>13. ASSUME NEW h \in Handlers, Drop(h) PROVE TypeOK'
  <2>1. check' \in [Handlers -> CheckTypes]
    BY <1>0, <1>13, ConstantsFit DEF Drop
  <2>2. UNCHANGED <<world, relay>>
    BY <1>13 DEF Drop
  <2>3. WorldOK' /\ relay' \in RelayTypes
    BY <1>0, <2>2 DEF world, nodes, WorldOK
  <2> QED BY <2>1, <2>3 DEF TypeOK, WorldOK, RelayTypes, CheckTypes
<1>14. CASE RefreshTip
  <2>1. tip' \in 0 .. chain
    BY <1>0, <1>14, TipIsReached
  <2> QED BY <1>0, <1>14, <2>1 DEF RefreshTip, nodes, WorldOK
<1>15. CASE Restart
  <2>1. check' \in [Handlers -> CheckTypes]
    BY <1>0, <1>15, ConstantsFit DEF Restart
  <2> QED BY <1>0, <1>15, <2>1 DEF Restart, nodes, WorldOK
<1>16. CASE UNCHANGED vars
  BY <1>0, <1>16 DEF vars, nodes, WorldOK
<1> HIDE DEF WorldOK
<1>17. TypeOK' => WorldOK' /\ relay' \in RelayTypes /\ check' \in [Handlers -> CheckTypes]
  BY DEF TypeOK, WorldOK, RelayTypes, CheckTypes
<1> QED
  BY <1>1, <1>2, <1>3, <1>4, <1>5, <1>6, <1>7, <1>8, <1>9, <1>10, <1>11, <1>12, <1>13,
     <1>14, <1>15, <1>16, <1>17 DEF Next, Tick, Serve

-----------------------------------------------------------------------------
(* The verdicts *)

LEMMA RelayInvInit == Init => RelayInv
<1> SUFFICES ASSUME Init PROVE RelayInv
  OBVIOUS
<1>1. TypeOK
  BY RelayTypeInit
<1>2. /\ relay.pc = "sleep"
      /\ \A h \in Handlers :
            /\ check[h].pc = "idle" /\ check[h].verdict = None /\ check[h].tip = None
            /\ \A e \in Endpoints : check[h].answers[e] = None
  BY DEF Init, NoTick, NoCheck, Unasked
<1>3. /\ ClaimsAreGathered /\ AcceptedIsVerified /\ RejectedForCause
      /\ TipsAreReached
  BY <1>2, RelayAssumption DEF ClaimsAreGathered, AcceptedIsVerified, RejectedForCause,
     TipsAreReached
<1>4. HonestAnswers
  BY <1>2 DEF HonestAnswers, Honest
<1> QED BY <1>1, <1>3, <1>4 DEF RelayInv

\* The chain and the operator's node only grow, and its relay is not reconfigured.
LEMMA WorldGrows ==
    ASSUME [Next]_vars
    PROVE  /\ source' = source
           /\ own' = own \/ own' = own + 1
           /\ chain' = chain \/ chain' = chain + 1
BY DEF Next, vars, world, nodes, MineBlock, OwnAdvances, ProverReads, ProverWrites, Advances,
       Tick, ReadCount, ReadBestHash, ReadProofFile, Post, TickFails, Serve, Answers, Decide,
       Drop, RefreshTip, Restart

\* A claim stays gathered while the operator's node follows the chain.
LEMMA GatheredStays ==
    ASSUME TypeOK, [Next]_vars, NEW height \in Heights, NEW hash \in Hashes,
           Gathered(height, hash)
    PROVE  \/ source' = "rpc" /\ hash \in height .. own'
           \/ source' = "file" /\ hash = Text
<1>1. source' = source /\ (own' = own \/ own' = own + 1)
  BY WorldGrows
<1>2. own \in Nat /\ height \in Nat
  BY ConstantsFit DEF TypeOK, Heights
<1>3. hash \in height .. own => hash \in height .. own'
  BY <1>1, <1>2
<1> QED BY <1>1, <1>3 DEF Gathered

\* Nor does growth take away what a rejection was for.
LEMMA CauseStays ==
    ASSUME TypeOK, [Next]_vars, NEW c, c.height \in Heights, c.hash \in Hashes,
           Gathered(c.height, c.hash), Torn(c) \/ Adrift(c)
    PROVE  \/ source' = "rpc" /\ c.height < c.hash /\ c.hash <= own'
           \/ source' = "file" /\ c.hash = Text
           \/ /\ c.hash = c.height /\ c.height <= own'
              /\ c.tip \in 0 .. chain'
              /\ c.height + MaxDrift < c.tip \/ c.tip + MaxDrift < c.height
<1>1. /\ source' = source
      /\ own' = own \/ own' = own + 1
      /\ chain' = chain \/ chain' = chain + 1
  BY WorldGrows
<1>2. own \in Nat /\ chain \in Nat /\ c.height \in Nat
  BY ConstantsFit DEF TypeOK, Heights
<1>3. CASE source = "file" /\ c.hash = Text
  BY <1>1, <1>3
<1>4. CASE source = "rpc" /\ c.height < c.hash /\ c.hash <= own /\ c.hash \in Nat
  BY <1>1, <1>2, <1>4
<1>5. CASE Adrift(c)
  <2>1. c.height <= own' /\ c.tip \in 0 .. chain'
    BY <1>1, <1>2, <1>5 DEF Adrift
  <2> QED BY <1>5, <2>1 DEF Adrift
<1>6. source = "rpc" /\ Gathered(c.height, c.hash) => c.hash \in Nat
  BY <1>2 DEF Gathered
<1> QED BY <1>3, <1>4, <1>5, <1>6 DEF Torn

\* The conjuncts of RelayInv about one handler, and about the tick.
HandlerInv(h) ==
    /\ check[h].pc = "asking" \/ check[h].verdict = "rejected" =>
          Gathered(check[h].height, check[h].hash)
    /\ \A e \in Honest : check[h].answers[e] \in {None, Failed, check[h].height}
    /\ check[h].verdict = "accepted" /\ Endpoints # {} => check[h].hash = check[h].height
    /\ check[h].verdict = "rejected" => Torn(check[h]) \/ Adrift(check[h])
    /\ check[h].tip # None => check[h].tip <= chain

TickInv ==
    /\ relay.pc = "hash" => source = "rpc" /\ relay.height <= own
    /\ relay.pc \in {"post", "wait"} => Gathered(relay.height, relay.hash)

LEMMA RelayInvSplit == RelayInv <=> TypeOK /\ TickInv /\ \A h \in Handlers : HandlerInv(h)
BY DEF RelayInv, ClaimsAreGathered, HonestAnswers, AcceptedIsVerified, RejectedForCause,
       TipsAreReached, HandlerInv, TickInv

\* A handler that does nothing keeps its conjuncts.
LEMMA HandlerStays ==
    ASSUME RelayInv, [Next]_vars, NEW h \in Handlers, check'[h] = check[h]
    PROVE  HandlerInv(h)'
<1>1. HandlerInv(h) /\ TypeOK
  BY RelayInvSplit
<1>2. /\ check[h].height \in Heights /\ check[h].hash \in Hashes
      /\ check[h].tip \in Heights \cup {None}
  BY <1>1 DEF TypeOK
<1>3. /\ source' = source
      /\ chain' = chain \/ chain' = chain + 1
  BY WorldGrows
<1>4. Gathered(check[h].height, check[h].hash) =>
          \/ source' = "rpc" /\ check[h].hash \in check[h].height .. own'
          \/ source' = "file" /\ check[h].hash = Text
  BY <1>1, <1>2, GatheredStays
<1>5. ASSUME check[h].verdict = "rejected" PROVE Torn(check[h])' \/ Adrift(check[h])'
  <2>1. Gathered(check[h].height, check[h].hash) /\ (Torn(check[h]) \/ Adrift(check[h]))
    BY <1>1, <1>5 DEF HandlerInv
  <2>2. \/ source' = "rpc" /\ check[h].height < check[h].hash /\ check[h].hash <= own'
        \/ source' = "file" /\ check[h].hash = Text
        \/ /\ check[h].hash = check[h].height /\ check[h].height <= own'
           /\ check[h].tip \in 0 .. chain'
           /\ \/ check[h].height + MaxDrift < check[h].tip
              \/ check[h].tip + MaxDrift < check[h].height
    BY <1>1, <1>2, <2>1, CauseStays
  <2> QED BY <2>2 DEF Torn, Adrift
<1>6. check[h].tip # None => check[h].tip <= chain'
  <2>1. chain \in Nat /\ (check[h].tip # None => check[h].tip \in Nat)
    BY <1>1, <1>2, ConstantsFit DEF TypeOK, Heights
  <2> QED BY <1>1, <1>3, <2>1 DEF HandlerInv
<1>7. check'[h].verdict = "rejected" => Torn(check[h])' \/ Adrift(check[h])'
  BY <1>5
<1> QED BY <1>1, <1>3, <1>4, <1>6, <1>7 DEF HandlerInv, Gathered

LEMMA RelayInvStep == RelayInv /\ [Next]_vars => RelayInv'
<1> SUFFICES ASSUME RelayInv, [Next]_vars PROVE RelayInv'
  OBVIOUS
<1>1. TypeOK /\ TypeOK' /\ TickInv /\ \A h \in Handlers : HandlerInv(h)
  BY RelayInvSplit, RelayTypeStep
<1>2. /\ own \in Nat /\ relay.height \in Heights /\ relay.hash \in Hashes
      /\ \A h \in Handlers : check[h].height \in Heights /\ check[h].hash \in Hashes
  BY <1>1, ConstantsFit DEF TypeOK, Heights
<1>3. source' = source /\ (own' = own \/ own' = own + 1)
  BY WorldGrows
<1>4. TickInv'
  <2>1. CASE relay' = relay
    <3>1. relay.pc = "hash" => source' = "rpc" /\ relay.height <= own'
      <4>1. relay.height \in Nat
        BY <1>2, ConstantsFit
      <4> QED BY <1>1, <1>2, <1>3, <4>1 DEF TickInv
    <3>2. relay.pc \in {"post", "wait"} =>
             \/ source' = "rpc" /\ relay.hash \in relay.height .. own'
             \/ source' = "file" /\ relay.hash = Text
      BY <1>1, <1>2, GatheredStays DEF TickInv
    <3>3. /\ relay'.pc = "hash" => source' = "rpc" /\ relay'.height <= own'
          /\ relay'.pc = relay.pc
      BY <2>1, <3>1
    <3> QED BY <2>1, <3>2, <3>3 DEF TickInv, Gathered
  <2>2. CASE relay' = NoTick
    BY <2>2 DEF TickInv, NoTick
  <2>3. CASE ReadCount
    <3>1. relay'.pc = "hash" /\ relay'.height = own /\ source = "rpc" /\ own' = own
      BY <2>3 DEF ReadCount, NoTick, world, nodes
    <3> QED BY <1>2, <1>3, <3>1 DEF TickInv
  <2>4. CASE ReadBestHash
    <3>1. /\ relay'.pc = "post" /\ relay'.height = relay.height /\ relay'.hash = own
          /\ relay.pc = "hash" /\ own' = own
      BY <1>1, <2>4 DEF ReadBestHash, world, nodes, TypeOK
    <3>2. source = "rpc" /\ relay.height <= own /\ relay.height \in Nat
      BY <1>1, <1>2, <3>1, ConstantsFit DEF TickInv
    <3> QED BY <1>2, <1>3, <3>1, <3>2 DEF TickInv, Gathered
  <2>5. CASE ReadProofFile
    <3>1. PICK height \in 0 .. own : proofFile = ProofFile(height)
      BY <1>1, <2>5 DEF ReadProofFile, TypeOK
    <3>2. relay'.pc = "post" /\ relay'.hash = Text /\ source = "file"
      BY <2>5, <3>1 DEF ReadProofFile, NoTick, ProofFile
    <3> QED BY <1>3, <3>2 DEF TickInv, Gathered
  <2>6. CASE Post
    <3>1. /\ relay'.pc = "wait" /\ relay'.height = relay.height /\ relay'.hash = relay.hash
          /\ relay.pc = "post"
      BY <1>1, <2>6 DEF Post, TypeOK
    <3> QED BY <1>1, <1>2, <1>3, <3>1, GatheredStays DEF TickInv, Gathered
  <2> QED
    BY <2>1, <2>2, <2>3, <2>4, <2>5, <2>6
    DEF Next, vars, MineBlock, OwnAdvances, ProverReads, ProverWrites, Advances, Tick,
        TickFails, Serve, Answers, Decide, Drop, RefreshTip, Restart
<1>5. ASSUME NEW h \in Handlers PROVE HandlerInv(h)'
  <2>0. HandlerInv(h) /\ check[h].height \in Heights /\ check[h].hash \in Hashes
    BY <1>1, <1>2
  <2>1. CASE check'[h] = check[h]
    BY <2>1, HandlerStays
  <2>2. CASE check'[h] = NoCheck
    BY <2>2, RelayAssumption DEF HandlerInv, NoCheck, Unasked, Honest
  <2>3. CASE Post /\ check'[h] # check[h]
    <3>1. /\ check'[h] = [NoCheck EXCEPT !.pc = "asking", !.height = relay.height,
                                         !.hash = relay.hash, !.tip = tip]
          /\ relay.pc = "post" /\ UNCHANGED world
      BY <1>1, <2>3 DEF Post, TypeOK
    <3>2. /\ check'[h].height = relay.height /\ check'[h].hash = relay.hash
          /\ check'[h].verdict = None /\ check'[h].tip = tip
          /\ \A e \in Endpoints : check'[h].answers[e] = None
      BY <3>1 DEF NoCheck, Unasked
    <3>3. Gathered(relay.height, relay.hash) /\ (tip # None => tip <= chain)
      BY <1>1, <3>1 DEF TickInv, TypeOK
    <3> QED BY <3>1, <3>2, <3>3, RelayAssumption
        DEF HandlerInv, Gathered, Honest, world, nodes
  <2>4. ASSUME NEW e \in Endpoints, Answers(e, h) PROVE HandlerInv(h)'
    <3>1. PICK v \in Hashes \cup {Failed} :
            /\ e \in Honest => v \in {Failed, check[h].height}
            /\ check' = [check EXCEPT ![h].answers[e] = v]
      BY <2>4 DEF Answers, Honest
    <3>2. UNCHANGED world
      BY <2>4 DEF Answers
    <3>3. check[h].answers \in [Endpoints -> Hashes \cup {Failed, None}]
      BY <1>1 DEF TypeOK
    <3>4. /\ check'[h].pc = check[h].pc /\ check'[h].verdict = check[h].verdict
          /\ check'[h].tip = check[h].tip
          /\ check'[h].height = check[h].height /\ check'[h].hash = check[h].hash
          /\ check'[h].answers = [check[h].answers EXCEPT ![e] = v]
      BY <1>1, <3>1 DEF TypeOK
    <3>5. \A d \in Honest : check'[h].answers[d] \in {None, Failed, check'[h].height}
      BY <2>0, <3>1, <3>3, <3>4 DEF HandlerInv, Honest
    <3> QED BY <2>0, <3>2, <3>4, <3>5 DEF HandlerInv, Gathered, Torn, Adrift, world, nodes
  <2>5. CASE Decide(h)
    <3> DEFINE told == QuorumCall(check[h].answers)
               v == Verdict(check[h].height, check[h].hash, check[h].tip, told)
    <3>1. /\ check' = [check EXCEPT ![h] =
                         [@ EXCEPT !.pc = "idle", !.answers = Unasked, !.verdict = v]]
          /\ check[h].pc = "asking" /\ UNCHANGED world
          /\ \A e \in Endpoints : check[h].answers[e] # None
      BY <2>5 DEF Decide
    <3> HIDE DEF v
    <3>2. /\ check'[h].pc = "idle" /\ check'[h].verdict = v
          /\ check'[h].height = check[h].height /\ check'[h].hash = check[h].hash
          /\ check'[h].tip = check[h].tip /\ check'[h].answers = Unasked
      BY <1>1, <3>1 DEF TypeOK
    <3>3. Gathered(check[h].height, check[h].hash)
      BY <2>0, <3>1 DEF HandlerInv
    <3>4. DOMAIN check[h].answers = Endpoints
      BY <1>1 DEF TypeOK
    <3>5. told \notin Errors => told = check[h].height
      BY <2>0, <3>1, <3>4, QuorumIsHonest DEF HandlerInv, Honest
    <3>6. told = NoEndpoints => Endpoints = {}
      <4>1. Endpoints # {} /\ told = NoEndpoints => told = Best(check[h].answers)
        BY <3>4, ErrorsAssumption DEF QuorumCall
      <4>2. Endpoints # {} /\ told = NoEndpoints => Told(check[h].answers) # {}
        BY <3>4, ErrorsAssumption DEF QuorumCall
      <4>3. Told(check[h].answers) # {} => Best(check[h].answers) \in Told(check[h].answers)
        BY <3>4, BestIsTold, RelayAssumption
      <4>4. Told(check[h].answers) \subseteq Hashes
        BY <1>1, <3>1, <3>4 DEF TypeOK, Told
      <4>5. NoEndpoints \notin Hashes
        BY RelayAssumption, ConstantsFit DEF Hashes, Errors
      <4> QED BY <4>1, <4>2, <4>3, <4>4, <4>5
    <3> HIDE DEF told
    <3>7. v = "accepted" /\ Endpoints # {} => check[h].hash = check[h].height
      BY <3>5, <3>6, ErrorsAssumption DEF v, Verdict, Errors
    <3>8. v = "rejected" => \/ check[h].hash # check[h].height
                            \/ OutOfDrift(check[h].height, check[h].tip)
      BY <3>5, ErrorsAssumption DEF v, Verdict, Errors
    <3>9. v = "rejected" => Torn(check[h]) \/ Adrift(check[h])
      <4>1. check[h].height \in Nat /\ own \in Nat /\ chain \in Nat /\ MaxDrift \in Nat
        BY <1>1, <1>2, ConstantsFit, RelayAssumption DEF TypeOK, Heights
      <4>2. CASE source = "file" /\ check[h].hash = Text
        BY <4>2 DEF Torn
      <4>3. CASE source = "rpc" /\ check[h].hash \in check[h].height .. own
        <5>1. CASE check[h].hash # check[h].height
          BY <4>1, <4>3, <5>1 DEF Torn
        <5>2. CASE check[h].hash = check[h].height
                     /\ OutOfDrift(check[h].height, check[h].tip)
          <6>1. check[h].tip \in 0 .. chain
            <7>1. check[h].tip \in Nat /\ check[h].tip <= chain
              BY <1>1, <2>0, <5>2, ConstantsFit DEF TypeOK, HandlerInv, OutOfDrift
            <7> QED BY <4>1, <7>1
          <6>2. check[h].height <= own
            BY <4>1, <4>3
          <6>3. \/ check[h].height + MaxDrift < check[h].tip
                \/ check[h].tip + MaxDrift < check[h].height
            BY <4>1, <5>2, <6>1 DEF OutOfDrift
          <6> QED BY <5>2, <6>1, <6>2, <6>3 DEF Adrift
        <5> QED BY <3>8, <5>1, <5>2
      <4> QED BY <3>3, <4>2, <4>3 DEF Gathered
    <3>10. own' = own /\ source' = source /\ chain' = chain
      BY <2>5 DEF Decide, world, nodes
    <3>11. \A e \in Honest : check'[h].answers[e] \in {None, Failed, check'[h].height}
      BY <3>2 DEF Unasked, Honest
    <3>12. Gathered(check[h].height, check[h].hash)'
      BY <3>2, <3>3, <3>10 DEF Gathered
    <3>13. v = "rejected" => Torn(check[h])' \/ Adrift(check[h])'
      BY <3>2, <3>9, <3>10 DEF Torn, Adrift
    <3>14. check'[h].tip # None => check'[h].tip <= chain'
      BY <2>0, <3>2, <3>10 DEF HandlerInv
    <3> QED BY <3>2, <3>7, <3>11, <3>12, <3>13, <3>14 DEF HandlerInv
  <2>6. ASSUME NEW g \in Handlers, Serve(g), g # h PROVE check'[h] = check[h]
    BY <1>1, <2>6 DEF Serve, Answers, Decide, Drop, TypeOK
  <2>7. Drop(h) => check'[h] = NoCheck
    BY <1>1 DEF Drop, TypeOK
  <2>8. CASE check' = check
    BY <2>1, <2>8
  <2>10. CASE Restart
    <3>1. check'[h] \in {NoCheck, check[h]}
      BY <2>10 DEF Restart
    <3> QED BY <2>1, <2>2, <3>1
  <2>9. ASSUME NEW g \in Handlers, Serve(g) PROVE HandlerInv(h)'
    BY <2>1, <2>2, <2>4, <2>5, <2>6, <2>7, <2>9 DEF Serve
  <2> QED
    BY <2>1, <2>3, <2>8, <2>9, <2>10
    DEF Next, vars, MineBlock, OwnAdvances, ProverReads, ProverWrites, Advances, Tick,
        ReadCount, ReadBestHash, ReadProofFile, TickFails, RefreshTip
<1> QED BY <1>1, <1>4, <1>5, RelayInvSplit
    DEF RelayInv, ClaimsAreGathered, HonestAnswers, AcceptedIsVerified, RejectedForCause,
        TipsAreReached, HandlerInv, TickInv

THEOREM RelayInvariant == Spec => []RelayInv
<1>1. Init => RelayInv BY RelayInvInit
<1>2. RelayInv /\ [Next]_vars => RelayInv' BY RelayInvStep
<1> QED BY <1>1, <1>2, PTL DEF Spec

(* Every reachable state of the relay, the chain and the checks is well     *)
(* typed, and no node is ever ahead of the chain.                           *)
THEOREM RelayTypeCorrect == Spec => []TypeOK
<1>1. RelayInv => TypeOK BY DEF RelayInv
<1> QED BY <1>1, RelayInvariant, PTL

(* With any number of endpoints, at most half of them faulty, whatever they *)
(* answer and whenever, a claim the server accepts is the block of its      *)
(* height.                                                                  *)
THEOREM AcceptedClaimsWereVerified == Spec => []AcceptedIsVerified
<1>1. RelayInv => AcceptedIsVerified BY DEF RelayInv
<1> QED BY <1>1, RelayInvariant, PTL

(* No lateness, failure or lie of an endpoint has an honest claim rejected, *)
(* be it by what they tell of the block or of the tip: it was torn between  *)
(* the relay's two reads, it came from a file, or its node or the cached    *)
(* tip was more than MaxDrift behind the chain.                             *)
THEOREM HonestClaimsAreRejectedForCause == Spec => []RejectedForCause
<1>1. RelayInv => RejectedForCause BY DEF RelayInv
<1> QED BY <1>1, RelayInvariant, PTL
=============================================================================
