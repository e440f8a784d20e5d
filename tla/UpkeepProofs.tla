---------------------------- MODULE UpkeepProofs ----------------------------
(***************************************************************************)
(* Theorems about NodeUpkeep, for any number of nodes, requests, rounds    *)
(* and suspensions, with or without trusted RPCs.                          *)
(*                                                                         *)
(* A step of the composition is a step of ProofIntake, or of the two tasks *)
(* or a bonus, which write the status, points and uptime of a node only.   *)
(* So what is proved of ProofIntake still holds, and the rest needs        *)
(* one fact more: no node has a last proof without a credited one, which   *)
(* is what makes the lists of the tasks right (StandingInv).               *)
(***************************************************************************)
EXTENDS NodeUpkeep, ProofIntakeProofs, SumProofs

LEMMA UpkeepSteps ==
    ASSUME [UpkeepNext]_upkeepVars
    PROVE  \/ /\ [Next]_vars /\ UNCHANGED audits
              /\ UNCHANGED upkeepLists \/ (uptimeDue' = {} /\ staleDue' = {})
           \/ Upkeep
BY DEF UpkeepNext, Intake, UpkeepRestart, Next, upkeepVars

\* The tasks write nodes and their lists, a bonus is written to nodes.
LEMMA TaskSteps ==
    ASSUME Upkeep
    PROVE  /\ UNCHANGED <<proofs, usedNonces, trustedTip, sub, poll, env>>
           /\ \/ UptimeList \/ StaleList
              \/ UNCHANGED nodes /\ \E n \in Nodes : UptimeFails(n) \/ StaleFails(n)
              \/ \E n \in Nodes : UptimeCredit(n) \/ StaleMark(n) \/ AuditBonus(n)
BY DEF Upkeep, UptimeList, StaleList, UptimeCredit, UptimeFails, StaleMark, StaleFails,
       AuditBonus, vars, env

\* What a task writes into the row of the node it is at.
LEMMA AddedRow ==
    ASSUME TypeOK, NEW n \in Nodes, NEW rounds \in Nat, AddUptimeAndPoints(n, rounds)
    PROVE  /\ \A m \in Nodes : m # n => nodes'[m] = nodes[m]
           /\ nodes'[n] = [status |-> nodes[n].status, lastHeight |-> nodes[n].lastHeight,
                           lastHash |-> nodes[n].lastHash,
                           lastProofAt |-> nodes[n].lastProofAt,
                           points |-> nodes[n].points + Tier[n],
                           uptime |-> nodes[n].uptime + rounds]
           /\ nodes' \in [Nodes -> NodeRows]
<1>1. nodes' = [nodes EXCEPT ![n] = [nodes[n] EXCEPT !.uptime = nodes[n].uptime + rounds,
                                          !.points = nodes[n].points + Tier[n]]]
  BY DEF AddUptimeAndPoints, TypeOK
<1>2. nodes[n] \in NodeRows /\ Tier[n] \in Nat
  BY IntakeAssumption DEF TypeOK, RewardTiers
<1>3. nodes'[n] = [nodes[n] EXCEPT !.uptime = nodes[n].uptime + rounds,
                                   !.points = nodes[n].points + Tier[n]]
  BY <1>1 DEF TypeOK
<1>4. nodes'[n] = [status |-> nodes[n].status, lastHeight |-> nodes[n].lastHeight,
                   lastHash |-> nodes[n].lastHash,
                   lastProofAt |-> nodes[n].lastProofAt,
                   points |-> nodes[n].points + Tier[n],
                   uptime |-> nodes[n].uptime + rounds]
  BY <1>2, <1>3 DEF NodeRows
<1>5. nodes'[n] \in NodeRows
  BY <1>2, <1>4 DEF NodeRows
<1> QED BY <1>1, <1>4, <1>5 DEF TypeOK

LEMMA UptimeRow ==
    ASSUME TypeOK, NEW n \in Nodes, UptimeCredit(n)
    PROVE  /\ \A m \in Nodes : m # n => nodes'[m] = nodes[m]
           /\ nodes'[n] = [status |-> nodes[n].status, lastHeight |-> nodes[n].lastHeight,
                           lastHash |-> nodes[n].lastHash,
                           lastProofAt |-> nodes[n].lastProofAt,
                           points |-> nodes[n].points + Tier[n],
                           uptime |-> nodes[n].uptime + 1]
           /\ nodes' \in [Nodes -> NodeRows]
<1>1. AddUptimeAndPoints(n, 1)
  BY DEF UptimeCredit
<1> QED BY <1>1, AddedRow

LEMMA AuditRow ==
    ASSUME TypeOK, NEW n \in Nodes, AuditBonus(n)
    PROVE  /\ \A m \in Nodes : m # n => nodes'[m] = nodes[m]
           /\ nodes'[n] = [status |-> nodes[n].status, lastHeight |-> nodes[n].lastHeight,
                           lastHash |-> nodes[n].lastHash,
                           lastProofAt |-> nodes[n].lastProofAt,
                           points |-> nodes[n].points + Tier[n],
                           uptime |-> nodes[n].uptime]
           /\ nodes' \in [Nodes -> NodeRows]
<1>1. AddUptimeAndPoints(n, 0)
  BY DEF AuditBonus
<1>2. nodes[n].uptime \in Nat
  BY DEF TypeOK, NodeRows
<1>3. nodes[n].uptime + 0 = nodes[n].uptime
  BY <1>2
<1> QED BY <1>1, <1>3, AddedRow

LEMMA StaleRow ==
    ASSUME TypeOK, NEW n \in Nodes, StaleMark(n)
    PROVE  /\ \A m \in Nodes : m # n => nodes'[m] = nodes[m]
           /\ nodes'[n] = [status |-> "stale", lastHeight |-> nodes[n].lastHeight,
                           lastHash |-> nodes[n].lastHash,
                           lastProofAt |-> nodes[n].lastProofAt,
                           points |-> nodes[n].points,
                           uptime |-> nodes[n].uptime]
           /\ nodes' \in [Nodes -> NodeRows]
<1>1. nodes' = [nodes EXCEPT ![n] = [nodes[n] EXCEPT !.status = "stale"]]
  BY DEF StaleMark, UpdateNodeStatus, TypeOK
<1>2. nodes[n] \in NodeRows
  BY DEF TypeOK
<1>3. nodes'[n] = [nodes[n] EXCEPT !.status = "stale"]
  BY <1>1 DEF TypeOK
<1>4. nodes'[n] = [status |-> "stale", lastHeight |-> nodes[n].lastHeight,
                   lastHash |-> nodes[n].lastHash,
                   lastProofAt |-> nodes[n].lastProofAt,
                   points |-> nodes[n].points,
                   uptime |-> nodes[n].uptime]
  BY <1>2, <1>3 DEF NodeRows
<1>5. nodes'[n] \in NodeRows
  BY <1>2, <1>4 DEF NodeRows, Statuses
<1> QED BY <1>1, <1>4, <1>5 DEF TypeOK

\* The columns the ledger reads, after a task's UPDATE.
LEMMA TaskColumns ==
    ASSUME TypeOK, NEW n \in Nodes, NEW m \in Nodes
    PROVE  /\ UptimeCredit(n) =>
                 /\ nodes'[m].points = nodes[m].points + (IF m = n THEN Tier[n] ELSE 0)
                 /\ nodes'[m].uptime = nodes[m].uptime + (IF m = n THEN 1 ELSE 0)
           /\ AuditBonus(n) =>
                 /\ nodes'[m].points = nodes[m].points + (IF m = n THEN Tier[n] ELSE 0)
                 /\ nodes'[m].uptime = nodes[m].uptime
           /\ StaleMark(n) => /\ nodes'[m].points = nodes[m].points
                              /\ nodes'[m].uptime = nodes[m].uptime
<1>0. nodes[m].points \in Nat /\ nodes[m].uptime \in Nat
  BY DEF TypeOK, NodeRows
<1>1. CASE m = n
  <2>1. ASSUME UptimeCredit(n)
        PROVE  /\ nodes'[n].points = nodes[n].points + Tier[n]
               /\ nodes'[n].uptime = nodes[n].uptime + 1
    <3>1. nodes'[n] = [status |-> nodes[n].status, lastHeight |-> nodes[n].lastHeight,
                       lastHash |-> nodes[n].lastHash,
                       lastProofAt |-> nodes[n].lastProofAt,
                       points |-> nodes[n].points + Tier[n],
                       uptime |-> nodes[n].uptime + 1]
      BY <2>1, UptimeRow
    <3> QED BY <3>1
  <2>2. ASSUME StaleMark(n)
        PROVE  nodes'[n].points = nodes[n].points /\ nodes'[n].uptime = nodes[n].uptime
    <3>1. nodes'[n] = [status |-> "stale", lastHeight |-> nodes[n].lastHeight,
                       lastHash |-> nodes[n].lastHash,
                       lastProofAt |-> nodes[n].lastProofAt,
                       points |-> nodes[n].points,
                       uptime |-> nodes[n].uptime]
      BY <2>2, StaleRow
    <3> QED BY <3>1
  <2>3. ASSUME AuditBonus(n)
        PROVE  /\ nodes'[n].points = nodes[n].points + Tier[n]
               /\ nodes'[n].uptime = nodes[n].uptime
    <3>1. nodes'[n] = [status |-> nodes[n].status, lastHeight |-> nodes[n].lastHeight,
                       lastHash |-> nodes[n].lastHash,
                       lastProofAt |-> nodes[n].lastProofAt,
                       points |-> nodes[n].points + Tier[n],
                       uptime |-> nodes[n].uptime]
      BY <2>3, AuditRow
    <3> QED BY <3>1
  <2> QED BY <1>1, <2>1, <2>2, <2>3
<1>2. CASE m # n
  <2>1. UptimeCredit(n) \/ StaleMark(n) \/ AuditBonus(n) => nodes'[m] = nodes[m]
    BY <1>2, UptimeRow, StaleRow, AuditRow
  <2> QED BY <1>0, <1>2, <2>1
<1> QED BY <1>1, <1>2

-----------------------------------------------------------------------------
(* Types and credits *)

LEMMA UpkeepTypeNext == UpkeepTypeOK /\ [UpkeepNext]_upkeepVars => UpkeepTypeOK'
<1> SUFFICES ASSUME UpkeepTypeOK, [UpkeepNext]_upkeepVars PROVE UpkeepTypeOK'
  OBVIOUS
<1>0. TypeOK
  BY DEF UpkeepTypeOK
<1>1. CASE /\ [Next]_vars /\ UNCHANGED audits
           /\ UNCHANGED upkeepLists \/ (uptimeDue' = {} /\ staleDue' = {})
  BY <1>0, <1>1, TypeNext DEF UpkeepTypeOK, upkeepLists
<1>2. CASE Upkeep
  <2>1. nodes' \in [Nodes -> NodeRows]
    <3>1. CASE UNCHANGED nodes
      BY <3>1 DEF UpkeepTypeOK, TypeOK
    <3>2. UptimeList \/ StaleList => UNCHANGED nodes
      BY DEF UptimeList, StaleList, vars
    <3> QED BY <1>0, <1>2, <3>1, <3>2, TaskSteps, UptimeRow, StaleRow, AuditRow
  <2>2. TypeOK'
    BY <1>0, <1>2, <2>1, TaskSteps DEF TypeOK, env
  <2>3. uptimeDue' \subseteq Nodes /\ staleDue' \subseteq Nodes
    BY <1>2 DEF Upkeep, UptimeList, StaleList, UptimeCredit, UptimeFails, StaleMark,
                StaleFails, AuditBonus, upkeepLists, UpkeepTypeOK
  <2>4. audits' \in [Nodes -> Nat]
    BY <1>2 DEF Upkeep, UptimeList, StaleList, UptimeCredit, UptimeFails, StaleMark,
                StaleFails, AuditBonus, UpkeepTypeOK
  <2> QED BY <2>2, <2>3, <2>4 DEF UpkeepTypeOK
<1> QED BY <1>1, <1>2, UpkeepSteps

LEMMA UpkeepTypeInit == UpkeepInit => UpkeepTypeOK
BY TypeInit DEF UpkeepInit, UpkeepTypeOK

(* Every variable of intake and upkeep together keeps its shape.            *)
THEOREM UpkeepTypeCorrect == UpkeepSpec => []UpkeepTypeOK
BY UpkeepTypeInit, UpkeepTypeNext, PTL DEF UpkeepSpec

LEMMA UpkeepCreditNext ==
    UpkeepTypeOK /\ CreditInv /\ [UpkeepNext]_upkeepVars => CreditInv'
<1> SUFFICES ASSUME TypeOK, CreditInv, [UpkeepNext]_upkeepVars PROVE CreditInv'
  BY DEF UpkeepTypeOK
<1>1. CASE [Next]_vars
  BY <1>1, CreditNext
<1>2. CASE Upkeep
  <2>1. UNCHANGED <<proofs, sub, poll>>
    BY <1>2, TaskSteps
  <2> QED BY <2>1 DEF CreditInv, Due
<1> QED BY <1>1, <1>2, UpkeepSteps

LEMMA UpkeepCreditInvariant == UpkeepSpec => []CreditInv
<1>1. UpkeepInit => CreditInv
  BY CreditInit DEF UpkeepInit
<1> QED BY <1>1, UpkeepCreditNext, UpkeepTypeCorrect, PTL DEF UpkeepSpec

-----------------------------------------------------------------------------
(* Standing *)

\* The statements of the intake that write nodes: applying a credited proof,
\* and suspending.
LEMMA IntakeRows ==
    ASSUME TypeOK, CreditInv, [Next]_vars
    PROVE  \/ UNCHANGED <<nodes, proofs>>
           \/ /\ UNCHANGED nodes
              /\ \A k \in Keys : proofs[k].credits > 0 => proofs'[k].credits > 0
           \/ \E n \in Nodes : Suspend(n)
           \/ \E k \in Keys, a \in Awards, at \in Times :
                 Due(k, a) /\ ApplyProofAcceptance(k, a, at)
<1>0. /\ poll.key \in Keys /\ poll.award \in Awards /\ poll.at \in Times
      /\ \A h \in Handlers : /\ KeyOf(sub[h].req) \in Keys /\ sub[h].award \in Awards
                            /\ sub[h].req.ts \in Times
  BY KeyOfType DEF TypeOK, Polling, Handling, Requests
<1>1. ASSUME NEW k \in Keys, NEW v, NEW a, TryInsertProof(k, v, a)
      PROVE  \A j \in Keys : proofs[j].credits > 0 => proofs'[j].credits > 0
  <2>1. proofs[k].credits > 0 => proofs[k] # NoRow
    BY DEF NoRow
  <2> QED BY <1>1, <2>1 DEF TryInsertProof, TypeOK
<1>2. ASSUME NEW h \in Handlers, InsertProof(h)
      PROVE  /\ UNCHANGED nodes
             /\ \A k \in Keys : proofs[k].credits > 0 => proofs'[k].credits > 0
  BY <1>0, <1>1, <1>2 DEF InsertProof
<1>3. ASSUME NEW h \in Handlers, Apply(h)
      PROVE  \E k \in Keys, a \in Awards, at \in Times :
                 Due(k, a) /\ ApplyProofAcceptance(k, a, at)
  BY <1>0, <1>3 DEF Apply, CreditInv
<1>4. PollInsert => /\ UNCHANGED nodes
                    /\ \A k \in Keys : proofs[k].credits > 0 => proofs'[k].credits > 0
  BY <1>0, <1>1 DEF PollInsert
<1>5. PollApply => \E k \in Keys, a \in Awards, at \in Times :
                      Due(k, a) /\ ApplyProofAcceptance(k, a, at)
  BY <1>0 DEF PollApply, CreditInv
<1>6. ASSUME NEW h \in Handlers, Submit(h), ~InsertProof(h), ~Apply(h)
      PROVE  UNCHANGED <<nodes, proofs>>
  BY <1>6 DEF Submit, Receive, Lookup, Refuse, UseNonce, ReadTip, Verify, Fail, tables
<1>7. Poll => PollInsert \/ PollApply \/ UNCHANGED <<nodes, proofs>>
  BY DEF Poll, PollList, PollTip, PollAsk, PollSkip, PollQuorum, PollFail,
         PollRoundEnds, tables
<1>8. RefreshTip \/ Restart \/ MineBlock \/ Tick => UNCHANGED <<nodes, proofs>>
  BY DEF RefreshTip, Restart, MineBlock, Tick, tables
<1> QED BY <1>2, <1>3, <1>4, <1>5, <1>6, <1>7, <1>8 DEF Next, vars

\* StandingInv, of one node.
Stands(n) ==
    CreditedKeys(n) = {} =>
       /\ nodes[n].status \in {"registered", "suspended"}
       /\ nodes[n].uptime = 0 /\ nodes[n].lastProofAt = None
       /\ n \notin uptimeDue \cup staleDue

LEMMA StandingNext ==
    UpkeepTypeOK /\ CreditInv /\ StandingInv /\ [UpkeepNext]_upkeepVars => StandingInv'
<1> SUFFICES ASSUME UpkeepTypeOK, CreditInv, StandingInv, [UpkeepNext]_upkeepVars,
                    NEW n \in Nodes
             PROVE  Stands(n)'
  BY DEF StandingInv, StandingIsEarned, Stands
<1>0. Stands(n) /\ TypeOK
  BY DEF StandingInv, StandingIsEarned, Stands, UpkeepTypeOK
<1>1. ASSUME CreditedKeys(n)' = {} => CreditedKeys(n) = {},
             CreditedKeys(n)' = {} =>
                /\ nodes'[n].status \in {nodes[n].status, "suspended"}
                /\ nodes'[n].uptime = nodes[n].uptime
                /\ nodes'[n].lastProofAt = nodes[n].lastProofAt
                /\ n \in uptimeDue' => n \in uptimeDue
                /\ n \in staleDue' => n \in staleDue
      PROVE  Stands(n)'
  BY <1>0, <1>1 DEF Stands
<1>2. CASE [Next]_vars /\ (UNCHANGED upkeepLists \/ (uptimeDue' = {} /\ staleDue' = {}))
  <2>0. /\ n \in uptimeDue' => n \in uptimeDue
        /\ n \in staleDue' => n \in staleDue
    BY <1>2 DEF upkeepLists
  <2>1. CASE UNCHANGED nodes /\ \A k \in Keys : proofs[k].credits > 0 => proofs'[k].credits > 0
    <3>1. CreditedKeys(n)' = {} => CreditedKeys(n) = {}
      BY <2>1 DEF CreditedKeys
    <3> QED BY <1>1, <2>0, <2>1, <3>1
  <2>2. ASSUME NEW m \in Nodes, Suspend(m) PROVE Stands(n)'
    <3>1. CreditedKeys(n)' = CreditedKeys(n)
      BY <2>2 DEF Suspend, CreditedKeys
    <3>2. nodes' = [nodes EXCEPT ![m] = [nodes[m] EXCEPT !.status = "suspended"]]
      BY <1>0, <2>2 DEF Suspend, TypeOK
    <3>3. nodes[n] \in NodeRows
      BY <1>0 DEF TypeOK
    <3>4. /\ nodes'[n].status \in {nodes[n].status, "suspended"}
          /\ nodes'[n].uptime = nodes[n].uptime
          /\ nodes'[n].lastProofAt = nodes[n].lastProofAt
      BY <1>0, <3>2, <3>3 DEF TypeOK, NodeRows
    <3> QED BY <1>1, <2>0, <3>1, <3>4
  <2>3. ASSUME NEW k \in Keys, NEW a \in Awards, NEW at \in Times,
               Due(k, a), ApplyProofAcceptance(k, a, at)
        PROVE  Stands(n)'
    <3>1. /\ proofs'[k] = [proofs[k] EXCEPT !.credits = 1]
          /\ \A j \in Keys : j # k => proofs'[j] = proofs[j]
      BY <1>0, <2>3 DEF ApplyProofAcceptance, TypeOK, Due
    <3>2. proofs'[k].credits = 1
      BY <1>0, <3>1 DEF TypeOK, Rows
    <3>3. CASE k.node = n
      <4>1. k \in CreditedKeys(n)'
        BY <3>2, <3>3 DEF CreditedKeys
      <4> QED BY <4>1 DEF Stands
    <3>4. CASE k.node # n
      <4>1. CreditedKeys(n)' = CreditedKeys(n)
        BY <3>1, <3>4 DEF CreditedKeys
      <4>2. nodes'[n] = nodes[n]
        BY <1>0, <2>3, <3>4 DEF ApplyProofAcceptance, TypeOK
      <4> QED BY <1>1, <2>0, <4>1, <4>2
    <3> QED BY <3>3, <3>4
  <2>4. CASE UNCHANGED <<nodes, proofs>>
    BY <2>1, <2>4
  <2> QED BY <1>0, <1>2, <2>1, <2>2, <2>3, <2>4, IntakeRows
<1>3. CASE Upkeep
  <2>1. CreditedKeys(n)' = CreditedKeys(n)
    BY <1>3, TaskSteps DEF CreditedKeys
  <2>2. CASE UptimeList
    <3>1. nodes' = nodes /\ staleDue' = staleDue /\ \A m \in uptimeDue' : nodes[m].lastProofAt # None
      BY <2>2 DEF UptimeList, Recent, vars
    <3> QED BY <1>0, <2>1, <3>1 DEF Stands
  <2>3. CASE StaleList
    <3>1. nodes' = nodes /\ uptimeDue' = uptimeDue /\ \A m \in staleDue' : nodes[m].lastProofAt # None
      BY <2>3 DEF StaleList, Silent, vars
    <3> QED BY <1>0, <2>1, <3>1 DEF Stands
  <2>4. ASSUME NEW m \in Nodes, UptimeFails(m) \/ StaleFails(m) PROVE Stands(n)'
    <3>1. nodes' = nodes /\ uptimeDue' \subseteq uptimeDue /\ staleDue' \subseteq staleDue
      BY <2>4 DEF UptimeFails, StaleFails, vars
    <3> QED BY <1>1, <2>1, <3>1
  <2>5. ASSUME NEW m \in Nodes, UptimeCredit(m) PROVE Stands(n)'
    <3>1. m \in uptimeDue /\ uptimeDue' \subseteq uptimeDue /\ staleDue' = staleDue
      BY <2>5 DEF UptimeCredit
    <3>2. CASE m = n
      BY <1>0, <2>1, <3>1, <3>2 DEF Stands
    <3>3. CASE m # n
      <4>1. nodes'[n] = nodes[n]
        BY <1>0, <2>5, <3>3, UptimeRow
      <4> QED BY <1>1, <2>1, <3>1, <4>1
    <3> QED BY <3>2, <3>3
  <2>6. ASSUME NEW m \in Nodes, StaleMark(m) PROVE Stands(n)'
    <3>1. m \in staleDue /\ staleDue' \subseteq staleDue /\ uptimeDue' = uptimeDue
      BY <2>6 DEF StaleMark
    <3>2. CASE m = n
      BY <1>0, <2>1, <3>1, <3>2 DEF Stands
    <3>3. CASE m # n
      <4>1. nodes'[n] = nodes[n]
        BY <1>0, <2>6, <3>3, StaleRow
      <4> QED BY <1>1, <2>1, <3>1, <4>1
    <3> QED BY <3>2, <3>3
  <2>7. ASSUME NEW m \in Nodes, AuditBonus(m) PROVE Stands(n)'
    <3>1. UNCHANGED upkeepLists
      BY <2>7 DEF AuditBonus
    <3>2. /\ nodes'[n].status = nodes[n].status
          /\ nodes'[n].uptime = nodes[n].uptime
          /\ nodes'[n].lastProofAt = nodes[n].lastProofAt
      <4>1. CASE m = n
        <5>1. nodes'[n] = [status |-> nodes[n].status, lastHeight |-> nodes[n].lastHeight,
                           lastHash |-> nodes[n].lastHash,
                           lastProofAt |-> nodes[n].lastProofAt,
                           points |-> nodes[n].points + Tier[n],
                           uptime |-> nodes[n].uptime]
          BY <1>0, <2>7, <4>1, AuditRow
        <5> QED BY <5>1
      <4>2. CASE m # n
        BY <1>0, <2>7, <4>2, AuditRow
      <4> QED BY <4>1, <4>2
    <3> QED BY <1>1, <2>1, <3>1, <3>2 DEF upkeepLists
  <2> QED BY <1>3, <2>2, <2>3, <2>4, <2>5, <2>6, <2>7 DEF Upkeep
<1> QED BY <1>2, <1>3, UpkeepSteps

LEMMA StandingInit == UpkeepInit => StandingInv
<1> SUFFICES ASSUME UpkeepInit PROVE StandingInv
  OBVIOUS
<1>1. \A n \in Nodes : /\ nodes[n].status = "registered" /\ nodes[n].uptime = 0
                       /\ nodes[n].lastProofAt = None
  BY DEF UpkeepInit, Init
<1>2. uptimeDue = {} /\ staleDue = {}
  BY DEF UpkeepInit
<1> QED BY <1>1, <1>2 DEF StandingInv, StandingIsEarned

(* Whatever the tasks' lists are worth by the time they are acted upon, no  *)
(* node is active or stale, is paid for uptime, or is on a list, that has   *)
(* not been credited a proof.                                               *)
THEOREM StandingNeedsProof == UpkeepSpec => []StandingIsEarned
<1>1. UpkeepSpec => []StandingInv
  BY StandingInit, StandingNext, UpkeepTypeCorrect, UpkeepCreditInvariant, PTL DEF UpkeepSpec
<1>2. StandingInv => StandingIsEarned
  BY DEF StandingInv
<1> QED BY <1>1, <1>2, PTL

-----------------------------------------------------------------------------
(* Suspension *)

\* No handler past its Lookup works for n.
HandlersDrained(n) ==
    \A h \in Handlers : sub[h].pc \notin {"idle", "lookup", "done"} => sub[h].req.node # n
PollerDrained(n) ==
    /\ poll.pc \in {"tip", "ask", "quorum"} => n \notin poll.todo
    /\ poll.pc \in {"quorum", "insert", "apply"} => n \notin poll.todo \cup {poll.key.node}

LEMMA SubmitOwn ==
    ASSUME TypeOK, NEW h \in Handlers, Submit(h)
    PROVE  (\A g \in Handlers : g # h => sub'[g] = sub[g]) /\ poll' = poll
<1>1. \E s : sub' = [sub EXCEPT ![h] = s]
  BY DEF Submit, Receive, Lookup, Refuse, UseNonce, ReadTip, Verify, InsertProof, Apply,
         Fail, Reply
<1>2. poll' = poll
  BY DEF Submit, Receive, Lookup, Refuse, UseNonce, ReadTip, Verify, InsertProof, Apply,
         Fail
<1> QED BY <1>1, <1>2 DEF TypeOK

LEMMA DrainSubmit ==
    ASSUME TypeOK, NEW n \in Nodes, nodes[n].status = "suspended", HandlersDrained(n),
           NEW h \in Handlers, Submit(h)
    PROVE  HandlersDrained(n)' /\ nodes'[n] = nodes[n] /\ poll' = poll
<1>0. sub[h] \in Handling
  BY DEF TypeOK
<1>1. (\A g \in Handlers : g # h => sub'[g] = sub[g]) /\ poll' = poll
  BY SubmitOwn
<1>2. sub'[h].pc \notin {"idle", "lookup", "done"} => sub'[h].req.node # n
  <2>1. ASSUME NEW r, Reply(h, r) PROVE sub'[h].pc = "done"
    BY <2>1 DEF Reply, Replied, TypeOK
  <2>2. CASE Receive(h)
    BY <1>0, <2>2 DEF Receive, TypeOK, Handling
  <2>3. CASE Lookup(h)
    <3>1. CASE sub[h].req.node = n
      <4>1. Reply(h, "forbidden") BY <2>3, <3>1 DEF Lookup
      <4> QED BY <2>1, <4>1
    <3>2. CASE sub[h].req.node # n
      <4>1. \/ Reply(h, "forbidden")
            \/ \E seen : sub' = [sub EXCEPT ![h] = [sub[h] EXCEPT !.pc = "nonce", !.seen = seen]]
        BY <2>3 DEF Lookup, TypeOK
      <4> QED BY <1>0, <2>1, <3>2, <4>1 DEF TypeOK, Handling
    <3> QED BY <3>1, <3>2
  <2>4. CASE Refuse(h)
    BY <2>1, <2>4 DEF Refuse
  <2>5. CASE Fail(h)
    BY <2>1, <2>5 DEF Fail
  <2>6. CASE Apply(h)
    BY <2>1, <2>6 DEF Apply
  <2>7. CASE UseNonce(h) \/ ReadTip(h) \/ Verify(h) \/ InsertProof(h)
    <3>1. sub[h].req.node # n
      BY <2>7 DEF HandlersDrained, UseNonce, ReadTip, Verify, InsertProof
    <3>2. CASE \E r : Reply(h, r)
      BY <2>1, <3>2
    <3>3. CASE ~ \E r : Reply(h, r)
      <4>1. \/ sub' = [sub EXCEPT ![h] = [sub[h] EXCEPT !.pc = "tip"]]
            \/ \E t : sub' = [sub EXCEPT ![h] = [sub[h] EXCEPT !.pc = "verify", !.tip = t]]
            \/ \E v, a : sub' = [sub EXCEPT ![h] =
                                   [sub[h] EXCEPT !.pc = "insert", !.verdict = v, !.award = a]]
            \/ sub' = [sub EXCEPT ![h] = [sub[h] EXCEPT !.pc = "apply"]]
        BY <2>7, <3>3 DEF UseNonce, ReadTip, Verify, InsertProof, TypeOK
      <4>2. sub'[h].req = sub[h].req
        BY <1>0, <4>1 DEF TypeOK, Handling
      <4> QED BY <3>1, <4>2
    <3> QED BY <3>2, <3>3
  <2> QED BY <2>2, <2>3, <2>4, <2>5, <2>6, <2>7 DEF Submit
<1>3. nodes'[n] = nodes[n]
  <2>1. CASE Apply(h)
    <3>1. KeyOf(sub[h].req).node # n
      BY <2>1 DEF Apply, HandlersDrained, KeyOf
    <3>2. \E row : nodes' = [nodes EXCEPT ![KeyOf(sub[h].req).node] = row]
      BY <2>1 DEF Apply, ApplyProofAcceptance
    <3> QED BY <3>1, <3>2 DEF TypeOK
  <2>2. CASE ~Apply(h)
    BY <2>2 DEF Submit, Receive, Lookup, Refuse, UseNonce, ReadTip, Verify, InsertProof,
                Fail, tables
  <2> QED BY <2>1, <2>2
<1> QED BY <1>1, <1>2, <1>3 DEF HandlersDrained

LEMMA DrainPoll ==
    ASSUME TypeOK, NEW n \in Nodes, nodes[n].status = "suspended", PollerDrained(n), Poll
    PROVE  PollerDrained(n)' /\ nodes'[n] = nodes[n] /\ UNCHANGED sub
<1>0. poll \in Polling
  BY DEF TypeOK
<1>1. UNCHANGED sub
  BY DEF Poll, PollList, PollTip, PollAsk, PollSkip, PollQuorum, PollInsert, PollApply,
         PollFail, PollRoundEnds
<1>2. nodes'[n] = nodes[n]
  <2>1. CASE PollApply
    <3>1. poll.key.node # n
      BY <2>1 DEF PollApply, PollerDrained
    <3> QED BY <2>1, <3>1 DEF PollApply, ApplyProofAcceptance, TypeOK
  <2>2. CASE ~PollApply
    BY <2>2 DEF Poll, PollList, PollTip, PollAsk, PollSkip, PollQuorum, PollInsert,
                PollFail, PollRoundEnds, tables
  <2> QED BY <2>1, <2>2
<1>3. PollerDrained(n)'
  <2>1. CASE PollList
    <3> DEFINE listed == {m \in RpcNodes : nodes[m].status # "suspended"}
    <3>1. n \notin listed
      OBVIOUS
    <3>2. poll' = [poll EXCEPT !.pc = "tip", !.todo = listed]
      BY <2>1 DEF PollList
    <3> HIDE DEF listed
    <3> QED BY <1>0, <3>1, <3>2 DEF Polling, PollerDrained
  <2>2. CASE PollTip
    BY <1>0, <2>2 DEF PollTip, Polling, PollerDrained
  <2>3. CASE PollAsk
    <3>1. PICK k \in Keys :
            /\ k.node \in poll.todo
            /\ \/ poll' = [poll EXCEPT !.todo = poll.todo \ {k.node}]
               \/ poll' = [poll EXCEPT !.todo = poll.todo \ {k.node}, !.key = k, !.pc = "quorum"]
      BY <2>3 DEF PollAsk
    <3>2. n \notin poll.todo /\ poll.pc = "ask"
      BY <2>3 DEF PollAsk, PollerDrained
    <3> QED BY <1>0, <3>1, <3>2 DEF Polling, PollerDrained
  <2>4. CASE PollSkip
    BY <1>0, <2>4 DEF PollSkip, Polling, PollerDrained
  <2>5. ASSUME poll' = NodeDone(poll), n \notin poll.todo PROVE PollerDrained(n)'
    BY <2>5 DEF NodeDone, PollerDrained
  <2>6. CASE PollQuorum
    <3>1. n \notin poll.todo \cup {poll.key.node}
      BY <2>6 DEF PollQuorum, PollerDrained
    <3>2. CASE poll' = NodeDone(poll)
      BY <2>5, <3>1, <3>2
    <3>3. CASE poll' # NodeDone(poll)
      <4> DEFINE paid == PollPoints(Tier[poll.key.node], poll.key.height, poll.tip)
                 a(v) == IF v = "accepted" THEN paid ELSE 0
      <4>1. \E v \in {"accepted", "rejected"} :
               poll' = [poll EXCEPT !.pc = "insert", !.verdict = v, !.at = now, !.award = a(v)]
        BY <2>6, <3>3 DEF PollQuorum
      <4> HIDE DEF a
      <4> QED BY <1>0, <3>1, <4>1 DEF Polling, PollerDrained
    <3> QED BY <3>2, <3>3
  <2>7. CASE PollInsert
    <3>1. n \notin poll.todo \cup {poll.key.node}
      BY <2>7 DEF PollInsert, PollerDrained
    <3>2. poll' = NodeDone(poll) \/ poll' = [poll EXCEPT !.pc = "apply"]
      BY <2>7 DEF PollInsert
    <3> QED BY <1>0, <2>5, <3>1, <3>2 DEF Polling, PollerDrained
  <2>8. CASE PollApply \/ PollFail
    <3>1. n \notin poll.todo /\ poll' = NodeDone(poll)
      BY <2>8 DEF PollApply, PollFail, PollerDrained
    <3> QED BY <2>5, <3>1
  <2>9. CASE PollRoundEnds
    BY <2>9 DEF PollRoundEnds, RoundOver, PollerDrained
  <2> QED BY <2>1, <2>2, <2>3, <2>4, <2>6, <2>7, <2>8, <2>9 DEF Poll
<1> QED BY <1>1, <1>2, <1>3

\* SuspensionDrains, of one node.
StaysSuspended(n) ==
    nodes[n].status = "suspended" /\ Drained(n) =>
       /\ nodes'[n].status = "suspended"
       /\ nodes'[n].points = nodes[n].points + Tier[n] * (audits'[n] - audits[n])
       /\ nodes'[n].uptime = nodes[n].uptime
       /\ Drained(n)'

LEMMA DrainedParts ==
    ASSUME NEW n \in Nodes
    PROVE  Drained(n) <=> /\ HandlersDrained(n) /\ PollerDrained(n)
                          /\ n \notin uptimeDue \cup staleDue
BY DEF Drained, HandlersDrained, PollerDrained

LEMMA DrainIntake ==
    ASSUME TypeOK, NEW n \in Nodes, nodes[n].status = "suspended",
           HandlersDrained(n), PollerDrained(n), [Next]_vars
    PROVE  /\ HandlersDrained(n)' /\ PollerDrained(n)'
           /\ nodes'[n].status = "suspended" /\ nodes'[n].points = nodes[n].points
           /\ nodes'[n].uptime = nodes[n].uptime
<1>1. ASSUME NEW h \in Handlers, Submit(h)
      PROVE  /\ HandlersDrained(n)' /\ PollerDrained(n)' /\ nodes'[n] = nodes[n]
  BY <1>1, DrainSubmit DEF PollerDrained
<1>2. CASE Poll
  BY <1>2, DrainPoll DEF HandlersDrained
<1>3. ASSUME NEW m \in Nodes, Suspend(m)
      PROVE  /\ HandlersDrained(n)' /\ PollerDrained(n)'
             /\ nodes'[n].status = "suspended" /\ nodes'[n].points = nodes[n].points
             /\ nodes'[n].uptime = nodes[n].uptime
  <2>1. nodes' = [nodes EXCEPT ![m] = [nodes[m] EXCEPT !.status = "suspended"]]
    BY <1>3 DEF Suspend, TypeOK
  <2>2. nodes[n] \in NodeRows
    BY DEF TypeOK
  <2>3. /\ nodes'[n].status = "suspended" /\ nodes'[n].points = nodes[n].points
        /\ nodes'[n].uptime = nodes[n].uptime
    BY <2>1, <2>2 DEF TypeOK, NodeRows
  <2> QED BY <1>3, <2>3 DEF Suspend, HandlersDrained, PollerDrained
<1>4. CASE Restart
  <2>1. \A h \in Handlers : sub'[h] = sub[h] \/ sub'[h].pc = "done"
    BY <1>4 DEF Restart, Replied
  <2> QED BY <1>4, <2>1 DEF Restart, RoundOver, HandlersDrained, PollerDrained, tables
<1>5. CASE RefreshTip \/ MineBlock \/ Tick \/ UNCHANGED vars
  <2>1. UNCHANGED <<nodes, sub, poll>>
    BY <1>5 DEF RefreshTip, MineBlock, Tick, vars, tables
  <2> QED BY <2>1 DEF HandlersDrained, PollerDrained
<1> QED BY <1>1, <1>2, <1>3, <1>4, <1>5 DEF Next

LEMMA DrainNext ==
    UpkeepTypeOK /\ [UpkeepNext]_upkeepVars => \A n \in Nodes : StaysSuspended(n)
<1> SUFFICES ASSUME UpkeepTypeOK, [UpkeepNext]_upkeepVars, NEW n \in Nodes,
                    nodes[n].status = "suspended", Drained(n)
             PROVE  /\ nodes'[n].status = "suspended"
                    /\ nodes'[n].points = nodes[n].points + Tier[n] * (audits'[n] - audits[n])
                    /\ nodes'[n].uptime = nodes[n].uptime
                    /\ Drained(n)'
  BY DEF StaysSuspended
<1>0. /\ TypeOK /\ HandlersDrained(n) /\ PollerDrained(n)
      /\ n \notin uptimeDue \cup staleDue
      /\ audits \in [Nodes -> Nat] /\ nodes[n].points \in Nat /\ Tier[n] \in Nat
  BY DrainedParts, IntakeAssumption DEF UpkeepTypeOK, TypeOK, NodeRows, RewardTiers
<1>1. ASSUME nodes'[n].status = "suspended", nodes'[n].points = nodes[n].points,
             nodes'[n].uptime = nodes[n].uptime, audits'[n] = audits[n],
             HandlersDrained(n)', PollerDrained(n)', n \notin uptimeDue' \cup staleDue'
      PROVE  /\ nodes'[n].status = "suspended"
             /\ nodes'[n].points = nodes[n].points + Tier[n] * (audits'[n] - audits[n])
             /\ nodes'[n].uptime = nodes[n].uptime
             /\ Drained(n)'
  <2>1. Tier[n] * (audits'[n] - audits[n]) = 0
    BY <1>0, <1>1
  <2>2. nodes'[n].points = nodes[n].points + Tier[n] * (audits'[n] - audits[n])
    BY <1>0, <1>1, <2>1
  <2>3. Drained(n)'
    BY <1>1 DEF Drained, HandlersDrained, PollerDrained
  <2> QED BY <1>1, <2>2, <2>3
<1>2. CASE /\ [Next]_vars /\ UNCHANGED audits
           /\ UNCHANGED upkeepLists \/ (uptimeDue' = {} /\ staleDue' = {})
  <2>1. n \notin uptimeDue' \cup staleDue'
    BY <1>0, <1>2 DEF upkeepLists
  <2> QED BY <1>0, <1>1, <1>2, <2>1, DrainIntake
<1>3. CASE Upkeep
  <2>1. HandlersDrained(n)' /\ PollerDrained(n)'
    BY <1>0, <1>3, TaskSteps DEF HandlersDrained, PollerDrained
  <2>2. n \notin uptimeDue' \cup staleDue'
    BY <1>0, <1>3 DEF Upkeep, UptimeList, StaleList, UptimeCredit, UptimeFails, StaleMark,
                      StaleFails, AuditBonus, upkeepLists, Recent, Silent
  <2>3. CASE \E m \in Nodes : AuditBonus(m)
    <3>1. PICK m \in Nodes : AuditBonus(m)
      BY <2>3
    <3>2. CASE m = n
      <4>1. nodes'[n] = [status |-> nodes[n].status, lastHeight |-> nodes[n].lastHeight,
                         lastHash |-> nodes[n].lastHash,
                         lastProofAt |-> nodes[n].lastProofAt,
                         points |-> nodes[n].points + Tier[n],
                         uptime |-> nodes[n].uptime]
        BY <1>0, <3>1, <3>2, AuditRow
      <4>2. audits'[n] - audits[n] = 1
        BY <1>0, <3>1, <3>2 DEF AuditBonus
      <4>3. Tier[n] * (audits'[n] - audits[n]) = Tier[n]
        BY <1>0, <4>2
      <4>4. Drained(n)'
        BY <2>1, <2>2 DEF Drained, HandlersDrained, PollerDrained
      <4> QED BY <4>1, <4>3, <4>4
    <3>3. CASE m # n
      <4>1. nodes'[n] = nodes[n]
        BY <1>0, <3>1, <3>3, AuditRow
      <4>2. audits'[n] = audits[n]
        BY <1>0, <3>1, <3>3 DEF AuditBonus
      <4> QED BY <1>1, <2>1, <2>2, <4>1, <4>2
    <3> QED BY <3>2, <3>3
  <2>4. CASE ~ \E m \in Nodes : AuditBonus(m)
    <3>1. UptimeList \/ StaleList => UNCHANGED nodes
      BY DEF UptimeList, StaleList, vars
    <3>2. ASSUME NEW m \in Nodes, UptimeCredit(m) PROVE nodes'[n] = nodes[n]
      BY <1>0, <3>2, UptimeRow DEF UptimeCredit
    <3>3. ASSUME NEW m \in Nodes, StaleMark(m) PROVE nodes'[n] = nodes[n]
      BY <1>0, <3>3, StaleRow DEF StaleMark
    <3>4. nodes'[n] = nodes[n]
      BY <1>3, <2>4, <3>1, <3>2, <3>3, TaskSteps
    <3>5. audits' = audits
      BY <1>3, <2>4 DEF Upkeep, UptimeList, StaleList, UptimeCredit, UptimeFails, StaleMark,
                        StaleFails
    <3> QED BY <1>1, <2>1, <2>2, <3>4, <3>5
  <2> QED BY <2>3, <2>4
<1> QED BY <1>2, <1>3, UpkeepSteps

(* Once the requests, the polling round and the lists that had read a node  *)
(* before it was suspended have run out, nothing makes it active again, and *)
(* no proof and no uptime round pays it: not the poller, not a restart, not *)
(* a list made later.  Only the bonus of an audit still does.               *)
THEOREM SuspensionHolds == UpkeepSpec => SuspensionDrains
<1>1. UpkeepTypeOK /\ [UpkeepNext]_upkeepVars =>
         [\A n \in Nodes : StaysSuspended(n)]_upkeepVars
  BY DrainNext
<1>2. UpkeepSpec => [][\A n \in Nodes : StaysSuspended(n)]_upkeepVars
  BY <1>1, UpkeepTypeCorrect, PTL DEF UpkeepSpec
<1> QED BY <1>2 DEF SuspensionDrains, StaysSuspended

-----------------------------------------------------------------------------
(* The ledger *)

Accrued == [n \in Nodes |-> AccruedBy(n)]

LEMMA UpkeepLedgerInit == UpkeepInit => UpkeepLedger!Init
<1> SUFFICES ASSUME UpkeepInit PROVE UpkeepLedger!Init
  OBVIOUS
<1>1. Ledger!Init
  BY LedgerInit DEF UpkeepInit
<1>2. \A n \in Nodes : AccruedBy(n) = 0
  <2>1. \A n \in Nodes : nodes[n].uptime = 0 /\ audits[n] = 0 /\ Tier[n] \in Nat
    BY IntakeAssumption DEF UpkeepInit, Init, RewardTiers
  <2> QED BY <2>1 DEF AccruedBy
<1> QED BY <1>1, <1>2 DEF Ledger!Init, UpkeepLedger!Init

\* A step of the intake is a step of its own ledger; here it leaves what
\* accrues alone.
LEMMA UpkeepLedgerIntake ==
    ASSUME TypeOK, TypeOK', [Ledger!Next]_(Ledger!ledgerVars), audits' = audits,
           \A n \in Nodes : nodes'[n].uptime = nodes[n].uptime
    PROVE  [UpkeepLedger!Next]_(UpkeepLedger!ledgerVars)
<1>1. Accrued' = Accrued
  BY DEF Accrued, AccruedBy
<1>2. CASE UNCHANGED Ledger!ledgerVars
  BY <1>1, <1>2 DEF Ledger!ledgerVars, UpkeepLedger!ledgerVars, Accrued
<1>3. ASSUME NEW k \in Keys, Ledger!Refuse(k) PROVE UpkeepLedger!Next
  <2>1. UpkeepLedger!Refuse(k)
    BY <1>1, <1>3 DEF Ledger!Refuse, UpkeepLedger!Refuse, Accrued
  <2> QED BY <2>1 DEF UpkeepLedger!Next
<1>4. ASSUME NEW k \in Keys, Ledger!Grant(k) PROVE UpkeepLedger!Next
  <2>1. UpkeepLedger!Grant(k)
    BY <1>1, <1>4 DEF Ledger!Grant, UpkeepLedger!Grant, Accrued
  <2> QED BY <2>1 DEF UpkeepLedger!Next
<1>5. ASSUME NEW k \in Keys, Ledger!Credit(k) PROVE UpkeepLedger!Next
  <2>1. UpkeepLedger!Credit(k)
    BY <1>1, <1>5 DEF Ledger!Credit, UpkeepLedger!Credit, Accrued
  <2> QED BY <2>1 DEF UpkeepLedger!Next
<1>6. ASSUME NEW n \in Nodes, Ledger!Accrue(n)
      PROVE  UNCHANGED UpkeepLedger!ledgerVars
  <2>1. PICK a \in Awards :
           /\ [m \in Nodes |-> 0] = [[m \in Nodes |-> 0] EXCEPT ![n] = 0 + a]
           /\ Balance' = [Balance EXCEPT ![n] = Balance[n] + a]
           /\ Decision' = Decision /\ Award' = Award
    BY <1>6 DEF Ledger!Accrue, Decision, Award, Balance
  <2>2. a = 0
    <3> DEFINE zero == [m \in Nodes |-> 0]
    <3>1. zero[n] = 0 /\ [zero EXCEPT ![n] = 0 + a][n] = 0 + a
      OBVIOUS
    <3>2. a \in Nat
      BY DEF Awards
    <3> QED BY <2>1, <3>1, <3>2
  <2>3. Balance \in [Nodes -> Nat]
    BY DEF Balance, TypeOK, NodeRows
  <2>4. Balance' = Balance
    BY <2>1, <2>2, <2>3
  <2> QED BY <1>1, <2>1, <2>4 DEF UpkeepLedger!ledgerVars, Accrued, Decision, Award, Balance
<1> QED BY <1>2, <1>3, <1>4, <1>5, <1>6 DEF Ledger!Next

LEMMA OneMore ==
    ASSUME NEW t \in Nat, NEW u \in Nat
    PROVE  t * (u + 1) = t * u + t
OBVIOUS

LEMMA UpkeepLedgerTask ==
    ASSUME UpkeepTypeOK, UpkeepTypeOK', Upkeep
    PROVE  [UpkeepLedger!Next]_(UpkeepLedger!ledgerVars)
<1>0. proofs' = proofs /\ TypeOK /\ TypeOK' /\ audits \in [Nodes -> Nat]
  BY TaskSteps DEF UpkeepTypeOK
<1>1. Decision' = Decision /\ Award' = Award
  BY <1>0 DEF Decision, Award
<1>2. ASSUME \A n \in Nodes : /\ nodes'[n].points = nodes[n].points
                             /\ nodes'[n].uptime = nodes[n].uptime,
             audits' = audits
      PROVE  UNCHANGED UpkeepLedger!ledgerVars
  <2>1. Balance' = Balance /\ Accrued' = Accrued
    BY <1>2 DEF Balance, Accrued, AccruedBy
  <2> QED BY <1>1, <2>1 DEF UpkeepLedger!ledgerVars, Decision, Award, Balance, Accrued
\* One tier more for one node, in both columns.
<1>6. ASSUME NEW n \in Nodes,
             \A m \in Nodes : m # n => nodes'[m] = nodes[m] /\ audits'[m] = audits[m],
             nodes'[n].points = nodes[n].points + Tier[n],
             nodes'[n].uptime + audits'[n] = nodes[n].uptime + audits[n] + 1
      PROVE  UpkeepLedger!Next
  <2>1. /\ Tier[n] \in Nat /\ nodes[n].uptime \in Nat /\ audits[n] \in Nat
        /\ Tier[n] \in Awards
    BY <1>0, IntakeAssumption DEF TypeOK, NodeRows, RewardTiers, Awards
  <2>2. AccruedBy(n)' = AccruedBy(n) + Tier[n]
    <3> DEFINE u == nodes[n].uptime + audits[n]
    <3>1. u \in Nat /\ AccruedBy(n) = Tier[n] * u
      BY <2>1 DEF AccruedBy
    <3>2. AccruedBy(n)' = Tier[n] * (u + 1)
      BY <1>6 DEF AccruedBy
    <3> HIDE DEF u
    <3>3. Tier[n] * (u + 1) = Tier[n] * u + Tier[n]
      BY <2>1, <3>1, OneMore
    <3> QED BY <3>1, <3>2, <3>3, Zenon
  <2>3. \A m \in Nodes : m # n => AccruedBy(m)' = AccruedBy(m)
    BY <1>6 DEF AccruedBy
  <2>4. Accrued' = [Accrued EXCEPT ![n] = Accrued[n] + Tier[n]]
    BY <2>2, <2>3 DEF Accrued
  <2>5. Balance' = [Balance EXCEPT ![n] = Balance[n] + Tier[n]]
    BY <1>6 DEF Balance
  <2>6. UpkeepLedger!Accrue(n)
    BY <1>1, <2>1, <2>4, <2>5
       DEF UpkeepLedger!Accrue, Decision, Award, Balance, Accrued
  <2> QED BY <2>6 DEF UpkeepLedger!Next
<1>3. ASSUME NEW n \in Nodes, UptimeCredit(n) PROVE UpkeepLedger!Next
  <2>1. /\ \A m \in Nodes : m # n => nodes'[m] = nodes[m]
        /\ nodes'[n].points = nodes[n].points + Tier[n]
        /\ nodes'[n].uptime = nodes[n].uptime + 1
    BY <1>0, <1>3, UptimeRow, TaskColumns
  <2>2. audits' = audits /\ nodes[n].uptime \in Nat /\ audits[n] \in Nat
    BY <1>0, <1>3 DEF UptimeCredit, TypeOK, NodeRows
  <2>3. nodes'[n].uptime + audits'[n] = nodes[n].uptime + audits[n] + 1
    BY <2>1, <2>2
  <2> QED BY <1>6, <2>1, <2>2, <2>3
<1>4. ASSUME NEW n \in Nodes, StaleMark(n)
      PROVE  /\ \A m \in Nodes : /\ nodes'[m].points = nodes[m].points
                                 /\ nodes'[m].uptime = nodes[m].uptime
             /\ audits' = audits
  BY <1>0, <1>4, TaskColumns DEF StaleMark
<1>7. ASSUME NEW n \in Nodes, AuditBonus(n) PROVE UpkeepLedger!Next
  <2>1. /\ \A m \in Nodes : m # n => nodes'[m] = nodes[m]
        /\ nodes'[n].points = nodes[n].points + Tier[n]
        /\ nodes'[n].uptime = nodes[n].uptime
    BY <1>0, <1>7, AuditRow, TaskColumns
  <2>2. /\ audits'[n] = audits[n] + 1
        /\ \A m \in Nodes : m # n => audits'[m] = audits[m]
        /\ nodes[n].uptime \in Nat /\ audits[n] \in Nat
    BY <1>0, <1>7 DEF AuditBonus, TypeOK, NodeRows
  <2>3. nodes'[n].uptime + audits'[n] = nodes[n].uptime + audits[n] + 1
    BY <2>1, <2>2
  <2> QED BY <1>6, <2>1, <2>2, <2>3
<1>5. ASSUME UptimeList \/ StaleList \/ \E n \in Nodes : UptimeFails(n) \/ StaleFails(n)
      PROVE  nodes' = nodes /\ audits' = audits
  BY <1>5 DEF UptimeList, StaleList, UptimeFails, StaleFails, vars
<1> QED BY <1>2, <1>3, <1>4, <1>5, <1>7 DEF Upkeep

LEMMA UptimeKept ==
    ASSUME TypeOK, CreditInv, [Next]_vars, NEW n \in Nodes
    PROVE  nodes'[n].uptime = nodes[n].uptime
<1>0. nodes[n] \in NodeRows
  BY DEF TypeOK
<1>1. ASSUME NEW m \in Nodes, Suspend(m) PROVE nodes'[n].uptime = nodes[n].uptime
  <2>1. nodes' = [nodes EXCEPT ![m] = [nodes[m] EXCEPT !.status = "suspended"]]
    BY <1>1 DEF Suspend, TypeOK
  <2> QED BY <1>0, <2>1 DEF TypeOK, NodeRows
<1>2. ASSUME NEW k \in Keys, NEW a, NEW at, ApplyProofAcceptance(k, a, at)
      PROVE  nodes'[n].uptime = nodes[n].uptime
  BY <1>2 DEF ApplyProofAcceptance, TypeOK, Keys
<1> QED BY <1>1, <1>2, IntakeRows

LEMMA UpkeepLedgerStep ==
    ASSUME UpkeepTypeOK, UpkeepTypeOK', CreditInv, [UpkeepNext]_upkeepVars
    PROVE  [UpkeepLedger!Next]_(UpkeepLedger!ledgerVars)
<1>0. TypeOK /\ TypeOK'
  BY DEF UpkeepTypeOK
<1>1. CASE [Next]_vars /\ UNCHANGED audits
  <2>1. [Ledger!Next]_(Ledger!ledgerVars)
    BY <1>0, <1>1, LedgerNext
  <2>2. \A n \in Nodes : nodes'[n].uptime = nodes[n].uptime
    BY <1>0, <1>1, UptimeKept
  <2> QED BY <1>0, <1>1, <2>1, <2>2, UpkeepLedgerIntake
<1>2. CASE Upkeep
  BY <1>2, UpkeepLedgerTask
<1> QED BY <1>1, <1>2, UpkeepSteps

(* The writers of the points column - submissions, the poller, the uptime   *)
(* task and audits - together still implement the ledger: a balance moves   *)
(* by one credited claim, or by one tier for one uptime round or one passed *)
(* audit, at a time.                                                        *)
THEOREM UpkeepImplementsTheLedger == UpkeepSpec => UpkeepImplementsLedger
<1>1. /\ UpkeepTypeOK /\ UpkeepTypeOK' /\ CreditInv /\ [UpkeepNext]_upkeepVars
      => [UpkeepLedger!Next]_(UpkeepLedger!ledgerVars)
  BY UpkeepLedgerStep
<1>2. UpkeepSpec => UpkeepLedger!Init /\ [][UpkeepLedger!Next]_(UpkeepLedger!ledgerVars)
  BY <1>1, UpkeepLedgerInit, UpkeepTypeCorrect, UpkeepCreditInvariant, PTL DEF UpkeepSpec
<1> QED BY <1>2 DEF UpkeepImplementsLedger, UpkeepLedger!Spec

-----------------------------------------------------------------------------
(* Balances *)

\* A node's balance is its income, from finitely many claims.
Income(n) == SumFunctionOnSet(Award, CreditedKeys(n)) + Accrued[n]
BalanceInv == \A n \in Nodes : IsFiniteSet(CreditedKeys(n)) /\ Balance[n] = Income(n)

LEMMA BalanceInvMeaning == BalanceInv => BalanceIsEarned
BY DEF BalanceInv, BalanceIsEarned, Income, Award, Accrued, Balance

LEMMA CreditedRow ==
    ASSUME NEW row \in Rows, row.verdict # "accepted" => row.credits = 0
    PROVE  row.credits > 0 <=> DecisionOf(row) = "credited"
<1>1. row.credits \in Nat /\ row.verdict \in {"none", "rejected", "pending", "accepted"}
  BY DEF Rows, Verdicts
<1> QED BY <1>1, DecisionCases

LEMMA BalanceInit == UpkeepInit => BalanceInv
<1> SUFFICES ASSUME UpkeepInit, NEW n \in Nodes
             PROVE  IsFiniteSet(CreditedKeys(n)) /\ Balance[n] = Income(n)
  BY DEF BalanceInv
<1>1. CreditedKeys(n) = {}
  BY DEF UpkeepInit, Init, CreditedKeys, NoRow
<1>2. Accrued[n] = 0 /\ Balance[n] = 0
  BY UpkeepLedgerInit DEF UpkeepLedger!Init, Accrued, Balance
<1> QED BY <1>1, <1>2, SumEmpty, FS_EmptySet DEF Income

LEMMA BalanceStep ==
    ASSUME TypeOK, TypeOK', CreditInv, CreditInv', BalanceInv, audits \in [Nodes -> Nat],
           [UpkeepLedger!Next]_(UpkeepLedger!ledgerVars)
    PROVE  BalanceInv'
<1> SUFFICES ASSUME NEW n \in Nodes
             PROVE  IsFiniteSet(CreditedKeys(n)') /\ Balance'[n] = Income(n)'
  BY DEF BalanceInv
<1> DEFINE Credited(d) == {k \in Keys : k.node = n /\ d[k] = "credited"}
           Sum(a, d) == SumFunctionOnSet(a, Credited(d))
<1>1. CreditedKeys(n) = Credited(Decision) /\ CreditedKeys(n)' = Credited(Decision')
  <2>1. ASSUME NEW k \in Keys
        PROVE  /\ proofs[k].credits > 0 <=> Decision[k] = "credited"
               /\ proofs'[k].credits > 0 <=> Decision'[k] = "credited"
    <3>1. /\ proofs[k] \in Rows /\ proofs'[k] \in Rows
          /\ Decision[k] = DecisionOf(proofs[k]) /\ Decision'[k] = DecisionOf(proofs'[k])
      BY DEF TypeOK, Decision
    <3>2. /\ proofs[k].verdict # "accepted" => proofs[k].credits = 0
          /\ proofs'[k].verdict # "accepted" => proofs'[k].credits = 0
      BY DEF CreditInv
    <3> QED BY <3>1, <3>2, CreditedRow
  <2> QED BY <2>1 DEF CreditedKeys
<1>2. /\ Decision = [k \in Keys |-> Decision[k]] /\ Award \in [Keys -> Nat]
      /\ Award' \in [Keys -> Nat] /\ Balance \in [Nodes -> Nat] /\ Accrued \in [Nodes -> Nat]
  <2>1. \A k \in Keys : proofs[k].points \in Nat /\ proofs'[k].points \in Nat
    <3>1. \A k \in Keys : proofs[k] \in Rows /\ proofs'[k] \in Rows
      BY DEF TypeOK
    <3> QED BY <3>1 DEF Rows, Awards
  <2>2. \A m \in Nodes : nodes[m].points \in Nat /\ AccruedBy(m) \in Nat
    <3>1. \A m \in Nodes : /\ nodes[m].points \in Nat /\ nodes[m].uptime \in Nat
                           /\ audits[m] \in Nat /\ Tier[m] \in Nat
      BY IntakeAssumption DEF TypeOK, NodeRows, RewardTiers
    <3> QED BY <3>1 DEF AccruedBy
  <2> QED BY <2>1, <2>2 DEF Decision, Award, Balance, Accrued
<1>3. IsFiniteSet(Credited(Decision)) /\ Balance[n] = Sum(Award, Decision) + Accrued[n]
  BY <1>1 DEF BalanceInv, Income
<1>4. Sum(Award, Decision) \in Nat
  BY <1>2, <1>3, SumOfNats
<1>5. SUFFICES /\ IsFiniteSet(Credited(Decision'))
               /\ Balance'[n] = Sum(Award', Decision') + Accrued'[n]
  BY <1>1 DEF Income
<1>6. CASE UNCHANGED UpkeepLedger!ledgerVars
  <2>1. UNCHANGED <<Decision, Award, Balance, Accrued>>
    BY <1>6 DEF UpkeepLedger!ledgerVars, Decision, Award, Balance, Accrued
  <2> QED BY <1>3, <2>1
<1>7. ASSUME NEW k \in Keys, UpkeepLedger!Refuse(k)
      PROVE  /\ IsFiniteSet(Credited(Decision'))
             /\ Balance'[n] = Sum(Award', Decision') + Accrued'[n]
  <2>1. /\ Decision[k] = "open" /\ Decision' = [Decision EXCEPT ![k] = "refused"]
        /\ UNCHANGED <<Award, Balance, Accrued>>
    BY <1>7 DEF UpkeepLedger!Refuse, Decision, Award, Balance, Accrued
  <2>2. Credited(Decision') = Credited(Decision)
    BY <1>2, <2>1
  <2> QED BY <1>3, <2>1, <2>2
<1>8. ASSUME NEW k \in Keys, UpkeepLedger!Grant(k)
      PROVE  /\ IsFiniteSet(Credited(Decision'))
             /\ Balance'[n] = Sum(Award', Decision') + Accrued'[n]
  <2>1. PICK a :
          /\ Decision[k] = "open" /\ Decision' = [Decision EXCEPT ![k] = "awarded"]
          /\ Award' = [Award EXCEPT ![k] = a]
          /\ UNCHANGED <<Balance, Accrued>>
    BY <1>8 DEF UpkeepLedger!Grant, Decision, Award, Balance, Accrued
  <2>2. Credited(Decision') = Credited(Decision)
    BY <1>2, <2>1
  <2>3. \A j \in Credited(Decision) : Award'[j] = Award[j]
    BY <1>2, <2>1
  <2>4. Sum(Award', Decision) = Sum(Award, Decision)
    BY <1>3, <2>3, SumSame
  <2> QED BY <1>3, <2>1, <2>2, <2>4
<1>9. ASSUME NEW k \in Keys, UpkeepLedger!Credit(k)
      PROVE  /\ IsFiniteSet(Credited(Decision'))
             /\ Balance'[n] = Sum(Award', Decision') + Accrued'[n]
  <2>1. /\ Decision[k] = "awarded" /\ Decision' = [Decision EXCEPT ![k] = "credited"]
        /\ Balance' = [Balance EXCEPT ![k.node] = Balance[k.node] + Award[k]]
        /\ UNCHANGED <<Award, Accrued>>
    BY <1>9 DEF UpkeepLedger!Credit, Decision, Award, Balance, Accrued
  <2>2. CASE k.node = n
    <3>1. Credited(Decision') = Credited(Decision) \cup {k} /\ k \notin Credited(Decision)
      BY <1>2, <2>1, <2>2
    <3>2. Sum(Award, Decision') = Award[k] + Sum(Award, Decision)
      <4>1. \A j \in Credited(Decision) \cup {k} : Award[j] \in Nat
        BY <1>2
      <4> HIDE DEF Credited
      <4> QED BY <1>3, <3>1, <4>1, SumAdd
    <3>3. IsFiniteSet(Credited(Decision'))
      BY <1>3, <3>1, FS_AddElement
    <3>4. Balance'[n] = Balance[n] + Award[k] /\ Award[k] \in Nat /\ Accrued[n] \in Nat
      BY <1>2, <2>1, <2>2
    <3> QED BY <1>3, <1>4, <2>1, <3>2, <3>3, <3>4
  <2>3. CASE k.node # n
    <3>1. Credited(Decision') = Credited(Decision)
      BY <1>2, <2>1, <2>3
    <3>2. Balance'[n] = Balance[n]
      BY <1>2, <2>1, <2>3
    <3> QED BY <1>3, <2>1, <3>1, <3>2
  <2> QED BY <2>2, <2>3
<1>10. ASSUME NEW m \in Nodes, UpkeepLedger!Accrue(m)
       PROVE  /\ IsFiniteSet(Credited(Decision'))
              /\ Balance'[n] = Sum(Award', Decision') + Accrued'[n]
  <2>1. PICK a \in Awards :
          /\ Accrued' = [Accrued EXCEPT ![m] = Accrued[m] + a]
          /\ Balance' = [Balance EXCEPT ![m] = Balance[m] + a]
          /\ UNCHANGED <<Decision, Award>>
    BY <1>10 DEF UpkeepLedger!Accrue, Decision, Award, Balance, Accrued
  <2>2. a \in Nat /\ Accrued[n] \in Nat /\ Balance[n] \in Nat
    BY <1>2 DEF Awards
  <2>3. \/ Balance'[n] = Balance[n] + a /\ Accrued'[n] = Accrued[n] + a
        \/ Balance'[n] = Balance[n] /\ Accrued'[n] = Accrued[n]
    BY <1>2, <2>1
  <2> QED BY <1>3, <1>4, <2>1, <2>2, <2>3
<1> QED BY <1>6, <1>7, <1>8, <1>9, <1>10 DEF UpkeepLedger!Next

(* No update is lost: whatever the handlers, the poller and the uptime task *)
(* do to a row in between each other's reads and writes, a node's points    *)
(* are the awards of its credited proofs plus its tier for each uptime      *)
(* round and audit.  From the ledger: what one step can do to a balance.    *)
THEOREM BalancesAreEarned == UpkeepSpec => []BalanceIsEarned
<1>1. UpkeepInit => BalanceInv
  BY BalanceInit
<1>2. /\ UpkeepTypeOK /\ UpkeepTypeOK' /\ CreditInv /\ CreditInv' /\ BalanceInv
      /\ [UpkeepNext]_upkeepVars
      => BalanceInv'
  BY UpkeepLedgerStep, BalanceStep DEF UpkeepTypeOK
<1>3. UpkeepSpec => []BalanceInv
  BY <1>1, <1>2, UpkeepTypeCorrect, UpkeepCreditInvariant, PTL DEF UpkeepSpec
<1> QED BY <1>3, BalanceInvMeaning, PTL
=============================================================================
