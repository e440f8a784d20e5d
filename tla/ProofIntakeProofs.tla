------------------------- MODULE ProofIntakeProofs -------------------------
(***************************************************************************)
(* Proofs about the points formula, for every input, and about ProofIntake *)
(* for any number of nodes, requests, heights and nonces: its types, that  *)
(* no award is credited twice, that it implements CreditLedger; and what   *)
(* clients can rely on - a nonce admits one request, a claim gets one      *)
(* verdict, a reply describes what is on file, what is accepted is on the  *)
(* chain, and what a node shows was credited to it.                        *)
(***************************************************************************)
EXTENDS ProofIntake, TLAPS

-----------------------------------------------------------------------------
(* Points *)

LEMMA FreshnessType ==
    ASSUME NEW drift \in Nat
    PROVE  Freshness(drift) \in 0 .. 5
BY DEF Freshness

LEMMA DriftType ==
    ASSUME NEW tip \in Nat \cup {None}, NEW height \in Nat
    PROVE  DriftBehind(tip, height) \in Nat
BY DEF DriftBehind

LEMMA BonusType ==
    ASSUME NEW uptime \in Nat, NEW peers \in Nat
    PROVE  UptimeBonus(uptime) \in 0 .. 24 /\ PeersBonus(peers) \in 0 .. 3
BY DEF UptimeBonus, PeersBonus, LesserOf

(* points_from_parts never leaves tier .. 87, whatever uptime and peers an  *)
(* operator reports: the u64 sums cannot overflow and the i64 column holds  *)
(* them.                                                                    *)
THEOREM PointsBounded ==
    ASSUME NEW tier \in RewardTiers, NEW drift \in Nat,
           NEW uptime \in Nat, NEW peers \in Nat
    PROVE  PointsFromParts(tier, drift, uptime, peers) \in tier .. 87
<1>1. Freshness(drift) \in 0 .. 5 BY FreshnessType
<1>2. UptimeBonus(uptime) \in 0 .. 24 /\ PeersBonus(peers) \in 0 .. 3 BY BonusType
<1>3. CASE tier = 6 BY <1>1, <1>2, <1>3 DEF PointsFromParts
<1>4. CASE tier = 10 BY <1>1, <1>2, <1>4 DEF PointsFromParts
<1> QED BY <1>3, <1>4 DEF RewardTiers

(* The award a submission can earn is an award a proof row can hold.        *)
THEOREM SubmissionPointsType ==
    ASSUME NEW tier \in RewardTiers, NEW height \in Nat, NEW uptime \in Nat,
           NEW peers \in Nat, NEW tip \in Nat \cup {None}
    PROVE  SubmissionPoints(tier, height, uptime, peers, tip) \in Awards
<1>1. DriftBehind(tip, height) \in Nat BY DriftType
<1>2. SubmissionPoints(tier, height, uptime, peers, tip) \in tier .. 87
  BY <1>1, PointsBounded DEF SubmissionPoints
<1> QED BY <1>2 DEF Awards, RewardTiers

(* "Matches the lower bound of a relay-mode proof" (scheduler.rs): for the  *)
(* same height and cached tip a poll never pays more than a submission.     *)
THEOREM PollPaysNoMore ==
    ASSUME NEW tier \in RewardTiers, NEW height \in Nat, NEW uptime \in Nat,
           NEW peers \in Nat, NEW tip \in Nat \cup {None}
    PROVE  /\ PollPoints(tier, height, tip) \in Awards
           /\ PollPoints(tier, height, tip)
                <= SubmissionPoints(tier, height, uptime, peers, tip)
<1> DEFINE d == DriftBehind(tip, height)
<1>1. d \in Nat BY DriftType
<1>2. Freshness(d) \in 0 .. 5 BY <1>1, FreshnessType
<1>3. UptimeBonus(uptime) \in 0 .. 24 /\ PeersBonus(peers) \in 0 .. 3 BY BonusType
<1> HIDE DEF d
<1>4. PollPoints(tier, height, tip) = tier * (1 + Freshness(d))
  BY DEF PollPoints, d
<1>5. SubmissionPoints(tier, height, uptime, peers, tip)
        = tier * (1 + Freshness(d)) + UptimeBonus(uptime) + PeersBonus(peers)
  BY DEF SubmissionPoints, PointsFromParts, d
<1>6. CASE tier = 6 BY <1>2, <1>3, <1>4, <1>5, <1>6 DEF Awards
<1>7. CASE tier = 10 BY <1>2, <1>3, <1>4, <1>5, <1>7 DEF Awards
<1> QED BY <1>6, <1>7 DEF RewardTiers

(* A claim further behind the cached tip never earns more than one closer   *)
(* to it, all else being equal.                                             *)
THEOREM FresherPaysMore ==
    ASSUME NEW tier \in RewardTiers, NEW d \in Nat, NEW e \in Nat, d <= e,
           NEW uptime \in Nat, NEW peers \in Nat
    PROVE  PointsFromParts(tier, e, uptime, peers)
             <= PointsFromParts(tier, d, uptime, peers)
<1>1. Freshness(e) <= Freshness(d) BY DEF Freshness
<1>2. Freshness(d) \in 0 .. 5 /\ Freshness(e) \in 0 .. 5 BY FreshnessType
<1>3. UptimeBonus(uptime) \in 0 .. 24 /\ PeersBonus(peers) \in 0 .. 3 BY BonusType
<1>4. CASE tier = 6 BY <1>1, <1>2, <1>3, <1>4 DEF PointsFromParts
<1>5. CASE tier = 10 BY <1>1, <1>2, <1>3, <1>5 DEF PointsFromParts
<1> QED BY <1>4, <1>5 DEF RewardTiers

-----------------------------------------------------------------------------
(* Facts about the operators the actions are built from *)

LEMMA AnyRequestType == AnyRequest \in Requests
<1>1. PICK n \in Nodes, b \in Hashes, x \in Nonces, t \in Telemetry : TRUE
  BY IntakeAssumption
<1>2. [node |-> n, height |-> Genesis, hash |-> b, nonce |-> x,
       ts |-> 0, tele |-> t] \in Requests
  BY IntakeAssumption DEF Requests, Times
<1> QED BY <1>2 DEF AnyRequest

LEMMA AnyKeyType == AnyKey \in Keys
<1>1. PICK n \in Nodes, b \in Hashes : TRUE
  BY IntakeAssumption
<1>2. [node |-> n, height |-> Genesis, hash |-> b] \in Keys
  BY IntakeAssumption DEF Keys
<1> QED BY <1>2 DEF AnyKey

LEMMA KeyOfType ==
    ASSUME NEW r \in Requests
    PROVE  KeyOf(r) \in Keys /\ KeyOf(r).node = r.node
BY DEF KeyOf, Keys, Requests

LEMMA AwardForType ==
    ASSUME NEW r \in Requests, NEW tip \in OptHeight
    PROVE  AwardFor(r, tip) \in Awards
<1>1. /\ Tier[r.node] \in RewardTiers /\ r.height \in Nat
      /\ r.tele.uptime \in Nat /\ r.tele.peers \in Nat
      /\ tip \in Nat \cup {None}
  BY IntakeAssumption DEF Requests, OptHeight
<1> QED BY <1>1, SubmissionPointsType DEF AwardFor

LEMMA PollAwardType ==
    ASSUME NEW k \in Keys, NEW tip \in OptHeight
    PROVE  PollPoints(Tier[k.node], k.height, tip) \in Awards
<1>1. Tier[k.node] \in RewardTiers /\ k.height \in Nat /\ tip \in Nat \cup {None}
  BY IntakeAssumption DEF Keys, OptHeight
<1> QED BY <1>1, PollPaysNoMore

LEMMA VerdictType ==
    ASSUME NEW r \in Requests, NEW tip \in OptHeight, NEW answer
    PROVE  SubmissionVerdict(r, tip, answer) \in Verdicts
BY IntakeAssumption DEF SubmissionVerdict, Verdicts

\* A handler's step rewrites its own record and no other.
LEMMA RepliedType ==
    ASSUME NEW s \in Handling, NEW r \in Replies
    PROVE  Replied(s, r) \in Handling
<1>1. /\ "done" \in Steps /\ None \in OptHeight /\ "pending" \in Verdicts
      /\ 0 \in Awards
  BY DEF Steps, OptHeight, Verdicts, Awards
<1> QED BY <1>1 DEF Replied, Handling

LEMMA NodeDoneType ==
    ASSUME NEW p \in Polling
    PROVE  NodeDone(p) \in Polling
<1>1. "ask" \in PollSteps /\ "pending" \in Verdicts /\ 0 \in Awards /\ 0 \in Times
  BY IntakeAssumption DEF PollSteps, Verdicts, Awards, Times
<1> QED BY <1>1, AnyKeyType DEF NodeDone, Polling

LEMMA RoundOverType == RoundOver \in Polling
<1>1. /\ "idle" \in PollSteps /\ "pending" \in Verdicts /\ None \in OptHeight
      /\ 0 \in Awards /\ 0 \in Times
  BY IntakeAssumption DEF PollSteps, OptHeight, Verdicts, Awards, Times
<1> QED BY <1>1, AnyKeyType DEF RoundOver, Polling

LEMMA TryInsertType ==
    ASSUME TypeOK, NEW k \in Keys, NEW v \in Verdicts, NEW a \in Awards,
           TryInsertProof(k, v, a)
    PROVE  proofs' \in [Keys -> Rows]
BY DEF TypeOK, TryInsertProof, Rows

LEMMA ApplyType ==
    ASSUME TypeOK, NEW k \in Keys, NEW a \in Awards, NEW at \in Times,
           ApplyProofAcceptance(k, a, at)
    PROVE  nodes' \in [Nodes -> NodeRows] /\ proofs' \in [Keys -> Rows]
<1>1. k.node \in Nodes /\ k.height \in Heights /\ k.hash \in Hashes
  BY DEF Keys
<1>2. nodes[k.node].points + a \in Nat
  BY <1>1 DEF TypeOK, NodeRows, Awards
<1>3. [status |-> "active", lastHeight |-> k.height, lastHash |-> k.hash,
       lastProofAt |-> at, points |-> nodes[k.node].points + a,
       uptime |-> nodes[k.node].uptime] \in NodeRows
  BY <1>1, <1>2 DEF TypeOK, NodeRows, OptHeight, Statuses
<1>4. nodes' \in [Nodes -> NodeRows]
  BY <1>3 DEF TypeOK, ApplyProofAcceptance
<1>5. proofs[k].credits + 1 \in Nat
  BY DEF TypeOK, Rows
<1>6. proofs' \in [Keys -> Rows]
  BY <1>5 DEF TypeOK, Rows, ApplyProofAcceptance
<1> QED BY <1>4, <1>6

-----------------------------------------------------------------------------
(* Type correctness *)

LEMMA TypeInit == Init => TypeOK
<1> SUFFICES ASSUME Init PROVE TypeOK
  OBVIOUS
<1>1. 0 \in Times /\ 0 \in 0 .. MaxTime /\ 0 \in Awards /\ Genesis \in Heights
  BY IntakeAssumption DEF Times, Awards
<1>2. nodes \in [Nodes -> NodeRows]
  BY DEF Init, NodeRows, Statuses, OptHeight
<1>3. proofs \in [Keys -> Rows]
  BY <1>1 DEF Init, NoRow, Rows
<1>4. sub \in [Handlers -> Handling]
  <2>1. /\ "idle" \in Steps /\ None \in OptHeight /\ "pending" \in Verdicts
        /\ "none" \in Replies
    BY DEF Steps, OptHeight, Verdicts, Replies
  <2> QED BY <1>1, <2>1, AnyRequestType DEF Init, Handling
<1>5. poll \in Polling
  BY RoundOverType DEF Init
<1> QED BY <1>1, <1>2, <1>3, <1>4, <1>5 DEF Init, TypeOK, OptHeight

\* A submit handler's step rewrites its own record; the others keep theirs.
LEMMA HandlerStepType ==
    ASSUME TypeOK, NEW h \in Handlers, NEW s \in Handling,
           sub' = [sub EXCEPT ![h] = s]
    PROVE  sub' \in [Handlers -> Handling]
BY DEF TypeOK

LEMMA ReplyType ==
    ASSUME TypeOK, NEW h \in Handlers, NEW r \in Replies, Reply(h, r)
    PROVE  sub' \in [Handlers -> Handling]
<1>1. Replied(sub[h], r) \in Handling
  BY RepliedType DEF TypeOK
<1> QED BY <1>1 DEF Reply, TypeOK

LEMMA TypeSubmit ==
    ASSUME TypeOK, NEW h \in Handlers, Submit(h)
    PROVE  TypeOK'
<1> USE DEF TypeOK
<1>0. sub[h] \in Handling
  OBVIOUS
<1>1. CASE Receive(h)
  <2>1. PICK r \in Requests :
          sub' = [sub EXCEPT ![h] = [@ EXCEPT !.pc = "lookup", !.req = r]]
    BY <1>1 DEF Receive
  <2>2. [sub[h] EXCEPT !.pc = "lookup", !.req = r] \in Handling
    BY <1>0 DEF Handling, Steps
  <2> QED BY <1>1, <2>1, <2>2 DEF Receive, tables, env
<1>2. CASE Lookup(h)
  <2> DEFINE row == nodes[sub[h].req.node]
  <2>1. row.lastHeight \in OptHeight
    BY <1>0 DEF Handling, Requests, NodeRows
  <2>2. [sub[h] EXCEPT !.pc = "nonce", !.seen = row.lastHeight] \in Handling
    BY <1>0, <2>1 DEF Handling, Steps
  <2>3. CASE row.status = "suspended"
    <3>1. Reply(h, "forbidden") BY <1>2, <2>3 DEF Lookup
    <3> QED BY <1>2, <3>1, ReplyType DEF Lookup, tables, env, Replies
  <2>4. CASE row.status # "suspended"
    <3>1. sub' = [sub EXCEPT ![h] = [@ EXCEPT !.pc = "nonce", !.seen = row.lastHeight]]
      BY <1>2, <2>4 DEF Lookup
    <3> QED BY <1>2, <2>2, <3>1 DEF Lookup, tables, env
  <2> QED BY <2>3, <2>4
<1>3. CASE Refuse(h)
  BY <1>3, ReplyType DEF Refuse, tables, env, Replies
<1>4. CASE UseNonce(h)
  <2>1. sub[h].req.nonce \in Nonces
    BY <1>0 DEF Handling, Requests
  <2>2. [sub[h] EXCEPT !.pc = "tip"] \in Handling
    BY <1>0 DEF Handling, Steps
  <2>3. usedNonces' \subseteq Nonces
    BY <1>4, <2>1 DEF UseNonce
  <2>4. sub' \in [Handlers -> Handling]
    <3>1. CASE Reply(h, "nonce_used") BY <3>1, ReplyType DEF Replies
    <3>2. CASE Reply(h, "far_behind") BY <3>2, ReplyType DEF Replies
    <3>3. CASE sub' = [sub EXCEPT ![h] = [@ EXCEPT !.pc = "tip"]] BY <3>3, <2>2
    <3> QED BY <1>4, <3>1, <3>2, <3>3 DEF UseNonce
  <2> QED BY <1>4, <2>3, <2>4 DEF UseNonce, env
<1>5. CASE ReadTip(h)
  <2>1. [sub[h] EXCEPT !.pc = "verify", !.tip = trustedTip] \in Handling
    BY <1>0 DEF Handling, Steps
  <2> QED BY <1>5, <2>1 DEF ReadTip, tables, env
<1>6. CASE Verify(h)
  <2>1. PICK v \in Verdicts :
          sub' = [sub EXCEPT ![h] =
                    [@ EXCEPT !.pc = "insert", !.verdict = v,
                              !.award = IF v = "accepted"
                                        THEN AwardFor(sub[h].req, sub[h].tip) ELSE 0]]
    BY <1>0, <1>6, VerdictType DEF Verify, Handling
  <2> DEFINE a == IF v = "accepted" THEN AwardFor(sub[h].req, sub[h].tip) ELSE 0
  <2>2. a \in Awards
    BY <1>0, AwardForType DEF Handling, Awards
  <2> HIDE DEF a
  <2>3. [sub[h] EXCEPT !.pc = "insert", !.verdict = v, !.award = a] \in Handling
    BY <1>0, <2>2 DEF Handling, Steps
  <2> QED BY <1>6, <2>1, <2>3 DEF Verify, tables, env, a
<1>7. CASE InsertProof(h)
  <2> DEFINE k == KeyOf(sub[h].req)
  <2>1. k \in Keys
    BY <1>0, KeyOfType DEF Handling
  <2>2. sub[h].verdict \in Verdicts /\ sub[h].award \in Awards
    BY <1>0 DEF Handling
  <2>3. TryInsertProof(k, sub[h].verdict, sub[h].award)
    BY <1>7 DEF InsertProof
  <2>4. proofs' \in [Keys -> Rows]
    BY <2>1, <2>2, <2>3, TryInsertType
  <2>5. [sub[h] EXCEPT !.pc = "apply"] \in Handling
    BY <1>0 DEF Handling, Steps
  <2>6. sub' \in [Handlers -> Handling]
    <3>1. CASE Reply(h, "duplicate") BY <3>1, ReplyType DEF Replies
    <3>2. CASE Reply(h, sub[h].verdict) BY <2>2, <3>2, ReplyType DEF Replies
    <3>3. CASE sub' = [sub EXCEPT ![h] = [@ EXCEPT !.pc = "apply"]] BY <3>3, <2>5
    <3> QED BY <1>7, <3>1, <3>2, <3>3 DEF InsertProof
  <2> QED BY <1>7, <2>4, <2>6 DEF InsertProof, env
<1>8. CASE Apply(h)
  <2> DEFINE k == KeyOf(sub[h].req)
  <2>1. k \in Keys /\ sub[h].award \in Awards /\ sub[h].req.ts \in Times
    BY <1>0, KeyOfType DEF Handling, Requests
  <2>2. nodes' \in [Nodes -> NodeRows] /\ proofs' \in [Keys -> Rows]
    BY <1>8, <2>1, ApplyType DEF Apply
  <2>3. sub' \in [Handlers -> Handling]
    BY <1>8, ReplyType DEF Apply, Replies, Verdicts
  <2> QED BY <1>8, <2>2, <2>3 DEF Apply, env
<1>9. CASE Fail(h)
  BY <1>9, ReplyType DEF Fail, tables, env, Replies
<1> QED
  BY <1>1, <1>2, <1>3, <1>4, <1>5, <1>6, <1>7, <1>8, <1>9 DEF Submit

LEMMA TypePoll ==
    ASSUME TypeOK, Poll
    PROVE  TypeOK'
<1> USE DEF TypeOK
<1>0. poll \in Polling
  OBVIOUS
<1>1. CASE PollList
  <2> DEFINE listed == {n \in RpcNodes : nodes[n].status # "suspended"}
  <2>1. listed \in SUBSET Nodes
    BY IntakeAssumption
  <2>2. poll' = [poll EXCEPT !.pc = "tip", !.todo = listed]
    BY <1>1 DEF PollList
  <2> HIDE DEF listed
  <2>3. [poll EXCEPT !.pc = "tip", !.todo = listed] \in Polling
    BY <1>0, <2>1 DEF Polling, PollSteps
  <2> QED BY <1>1, <2>2, <2>3 DEF PollList, tables, env
<1>2. CASE PollTip
  <2>1. [poll EXCEPT !.pc = "ask", !.tip = trustedTip] \in Polling
    BY <1>0 DEF Polling, PollSteps
  <2> QED BY <1>2, <2>1 DEF PollTip, tables, env
<1>3. CASE PollAsk
  <2>1. PICK k \in Keys :
          \/ poll' = [poll EXCEPT !.todo = @ \ {k.node}]
          \/ poll' = [poll EXCEPT !.todo = @ \ {k.node}, !.key = k, !.pc = "quorum"]
    BY <1>3 DEF PollAsk
  <2>2. [poll EXCEPT !.todo = @ \ {k.node}] \in Polling
    BY <1>0 DEF Polling
  <2>3. [poll EXCEPT !.todo = @ \ {k.node}, !.key = k, !.pc = "quorum"] \in Polling
    BY <1>0 DEF Polling, PollSteps
  <2> QED BY <1>3, <2>1, <2>2, <2>3 DEF PollAsk, tables, env
<1>4. CASE PollSkip
  <2>1. PICK n \in Nodes : poll' = [poll EXCEPT !.todo = @ \ {n}]
    BY <1>0, <1>4 DEF PollSkip, Polling
  <2>2. [poll EXCEPT !.todo = @ \ {n}] \in Polling
    BY <1>0 DEF Polling
  <2> QED BY <1>4, <2>1, <2>2 DEF PollSkip, tables, env
<1>5. CASE PollQuorum
  <2> DEFINE paid == PollPoints(Tier[poll.key.node], poll.key.height, poll.tip)
             a(v) == IF v = "accepted" THEN paid ELSE 0
  <2>1. \/ poll' = NodeDone(poll)
        \/ \E v \in {"accepted", "rejected"} :
             poll' = [poll EXCEPT !.pc = "insert", !.verdict = v, !.at = now, !.award = a(v)]
    BY <1>5 DEF PollQuorum
  <2>2. ASSUME NEW v PROVE a(v) \in Awards
    BY <1>0, PollAwardType DEF Polling, Awards
  <2>3. now \in Times
    BY IntakeAssumption DEF Times
  <2> HIDE DEF a
  <2>4. ASSUME NEW v \in {"accepted", "rejected"}
        PROVE  [poll EXCEPT !.pc = "insert", !.verdict = v, !.at = now, !.award = a(v)]
                 \in Polling
    BY <1>0, <2>2, <2>3 DEF Polling, PollSteps, Verdicts
  <2>5. poll' \in Polling
    BY <1>0, <2>1, <2>4, NodeDoneType
  <2> QED BY <1>5, <2>5 DEF PollQuorum, tables, env
<1>6. CASE PollInsert
  <2>1. poll.key \in Keys /\ poll.verdict \in Verdicts /\ poll.award \in Awards
    BY <1>0 DEF Polling
  <2>2. proofs' \in [Keys -> Rows]
    BY <1>6, <2>1, TryInsertType DEF PollInsert
  <2>3. [poll EXCEPT !.pc = "apply"] \in Polling
    BY <1>0 DEF Polling, PollSteps
  <2>4. poll' \in Polling
    BY <1>0, <1>6, <2>3, NodeDoneType DEF PollInsert
  <2> QED BY <1>6, <2>2, <2>4 DEF PollInsert, env
<1>7. CASE PollApply
  <2>1. poll.key \in Keys /\ poll.award \in Awards /\ poll.at \in Times
    BY <1>0 DEF Polling
  <2>2. nodes' \in [Nodes -> NodeRows] /\ proofs' \in [Keys -> Rows]
    BY <1>7, <2>1, ApplyType DEF PollApply
  <2> QED BY <1>0, <1>7, <2>2, NodeDoneType DEF PollApply, env
<1>8. CASE PollFail
  BY <1>0, <1>8, NodeDoneType DEF PollFail, tables, env
<1>9. CASE PollRoundEnds
  BY <1>9, RoundOverType DEF PollRoundEnds, tables, env
<1> QED
  BY <1>1, <1>2, <1>3, <1>4, <1>5, <1>6, <1>7, <1>8, <1>9 DEF Poll

LEMMA TypeWorld ==
    ASSUME TypeOK,
           RefreshTip \/ Restart \/ MineBlock \/ Tick \/ (\E n \in Nodes : Suspend(n))
    PROVE  TypeOK'
<1> USE DEF TypeOK
<1>1. CASE RefreshTip
  BY <1>1 DEF RefreshTip, tables, env, OptHeight
<1>2. CASE Restart
  <2>1. "failed" \in Replies /\ None \in OptHeight
    BY DEF Replies, OptHeight
  <2>2. sub' \in [Handlers -> Handling]
    BY <1>2, <2>1, RepliedType DEF Restart
  <2> QED BY <1>2, <2>1, <2>2, RoundOverType DEF Restart, tables, env
<1>3. CASE MineBlock
  BY <1>3 DEF MineBlock, tables
<1>4. CASE Tick
  BY <1>4, IntakeAssumption DEF Tick, tables
<1>5. ASSUME NEW n \in Nodes, Suspend(n) PROVE TypeOK'
  <2>1. [nodes[n] EXCEPT !.status = "suspended"] \in NodeRows
    BY DEF NodeRows, Statuses
  <2> QED BY <1>5, <2>1 DEF Suspend, env
<1> QED BY <1>1, <1>2, <1>3, <1>4, <1>5

LEMMA TypeNext == TypeOK /\ [Next]_vars => TypeOK'
<1> SUFFICES ASSUME TypeOK, [Next]_vars PROVE TypeOK'
  OBVIOUS
<1>1. CASE UNCHANGED vars
  BY <1>1 DEF TypeOK, vars
<1>2. CASE Next
  BY <1>2, TypeSubmit, TypePoll, TypeWorld DEF Next
<1> QED BY <1>1, <1>2

(* Every variable of the intake keeps its shape; in particular an award     *)
(* stays an amount the points column can hold, and a handler never leaves   *)
(* the steps the code has.                                                  *)
THEOREM IntakeTypeCorrect == Spec => []TypeOK
BY TypeInit, TypeNext, PTL DEF Spec

-----------------------------------------------------------------------------
(* No award is credited twice *)

LEMMA CreditInit == Init => CreditInv
BY DEF Init, CreditInv, NoRow, RoundOver

\* A handler's step that leaves the rows and the poller alone, and does not
\* bring the handler to its last statement.
LEMMA CreditQuiet ==
    ASSUME TypeOK, CreditInv, UNCHANGED <<proofs, poll>>,
           NEW h \in Handlers, NEW s, sub' = [sub EXCEPT ![h] = s],
           s.pc # "apply", s.verdict # "accepted" => s.award = 0
    PROVE  CreditInv'
<1>1. /\ sub'[h] = s
      /\ \A g \in Handlers : g # h => sub'[g] = sub[g]
  BY DEF TypeOK
<1> QED BY <1>1 DEF CreditInv, Due

LEMMA CreditReply ==
    ASSUME TypeOK, CreditInv, UNCHANGED <<proofs, poll>>,
           NEW h \in Handlers, NEW r, Reply(h, r)
    PROVE  CreditInv'
<1>1. sub' = [sub EXCEPT ![h] = Replied(sub[h], r)]
  BY DEF Reply, TypeOK
<1>2. Replied(sub[h], r).pc = "done" /\ Replied(sub[h], r).award = 0
  BY DEF Replied
<1> QED BY <1>1, <1>2, CreditQuiet

LEMMA CreditSubmitQuiet ==
    ASSUME TypeOK, CreditInv, NEW h \in Handlers,
           Receive(h) \/ Lookup(h) \/ Refuse(h) \/ UseNonce(h) \/ ReadTip(h)
             \/ Verify(h) \/ Fail(h)
    PROVE  CreditInv'
<1>0. sub[h] \in Handling /\ (sub[h].verdict # "accepted" => sub[h].award = 0)
  BY DEF TypeOK, CreditInv
<1>1. CASE Receive(h)
  <2>1. PICK r \in Requests :
          sub' = [sub EXCEPT ![h] = [sub[h] EXCEPT !.pc = "lookup", !.req = r]]
    BY <1>1 DEF Receive, TypeOK
  <2> DEFINE s == [sub[h] EXCEPT !.pc = "lookup", !.req = r]
  <2>2. s.pc # "apply" /\ (s.verdict # "accepted" => s.award = 0)
    BY <1>0 DEF Handling
  <2>3. UNCHANGED <<proofs, poll>> BY <1>1 DEF Receive, tables
  <2> HIDE DEF s
  <2> QED BY <2>1, <2>2, <2>3, CreditQuiet DEF s
<1>2. CASE Lookup(h)
  <2>1. UNCHANGED <<proofs, poll>> BY <1>2 DEF Lookup, tables
  <2> DEFINE s == [sub[h] EXCEPT !.pc = "nonce", !.seen = nodes[sub[h].req.node].lastHeight]
  <2>2. Reply(h, "forbidden") \/ sub' = [sub EXCEPT ![h] = s]
    BY <1>2 DEF Lookup, TypeOK
  <2>3. s.pc # "apply" /\ (s.verdict # "accepted" => s.award = 0)
    BY <1>0 DEF Handling
  <2> HIDE DEF s
  <2> QED BY <2>1, <2>2, <2>3, CreditQuiet, CreditReply
<1>3. CASE Refuse(h)
  <2>1. UNCHANGED <<proofs, poll>> /\ Reply(h, "refused") BY <1>3 DEF Refuse, tables
  <2> QED BY <2>1, CreditReply
<1>4. CASE UseNonce(h)
  <2>1. UNCHANGED <<proofs, poll>> BY <1>4 DEF UseNonce
  <2> DEFINE s == [sub[h] EXCEPT !.pc = "tip"]
  <2>2. \/ Reply(h, "nonce_used") \/ Reply(h, "far_behind")
        \/ sub' = [sub EXCEPT ![h] = s]
    BY <1>4 DEF UseNonce, TypeOK
  <2>3. s.pc # "apply" /\ (s.verdict # "accepted" => s.award = 0)
    BY <1>0 DEF Handling
  <2> HIDE DEF s
  <2> QED BY <2>1, <2>2, <2>3, CreditQuiet, CreditReply
<1>5. CASE ReadTip(h)
  <2>1. UNCHANGED <<proofs, poll>> BY <1>5 DEF ReadTip, tables
  <2> DEFINE s == [sub[h] EXCEPT !.pc = "verify", !.tip = trustedTip]
  <2>2. sub' = [sub EXCEPT ![h] = s]
    BY <1>5 DEF ReadTip, TypeOK
  <2>3. s.pc # "apply" /\ (s.verdict # "accepted" => s.award = 0)
    BY <1>0 DEF Handling
  <2> HIDE DEF s
  <2> QED BY <2>1, <2>2, <2>3, CreditQuiet
<1>6. CASE Verify(h)
  <2>1. UNCHANGED <<proofs, poll>> BY <1>6 DEF Verify, tables
  <2> DEFINE a(v) == IF v = "accepted" THEN AwardFor(sub[h].req, sub[h].tip) ELSE 0
             s(v) == [sub[h] EXCEPT !.pc = "insert", !.verdict = v, !.award = a(v)]
  <2>2. \E v : sub' = [sub EXCEPT ![h] = s(v)]
    BY <1>6 DEF Verify, TypeOK
  <2>3. ASSUME NEW v PROVE v # "accepted" => a(v) = 0
    OBVIOUS
  <2> HIDE DEF a
  <2>4. ASSUME NEW v
        PROVE s(v).pc # "apply" /\ (s(v).verdict # "accepted" => s(v).award = 0)
    BY <1>0, <2>3 DEF Handling
  <2> HIDE DEF s
  <2> QED BY <2>1, <2>2, <2>4, CreditQuiet
<1>7. CASE Fail(h)
  <2>1. UNCHANGED <<proofs, poll>> /\ Reply(h, "failed") BY <1>7 DEF Fail, tables
  <2> QED BY <2>1, CreditReply
<1> QED BY <1>1, <1>2, <1>3, <1>4, <1>5, <1>6, <1>7

LEMMA CreditInsert ==
    ASSUME TypeOK, CreditInv, NEW h \in Handlers, InsertProof(h)
    PROVE  CreditInv'
<1> DEFINE k == KeyOf(sub[h].req)
           v == sub[h].verdict
           a == sub[h].award
           s == [sub[h] EXCEPT !.pc = "apply"]
<1>0. /\ sub[h] \in Handling /\ k \in Keys /\ v \in Verdicts /\ a \in Awards
      /\ v # "accepted" => a = 0
  BY KeyOfType DEF TypeOK, CreditInv, Handling
<1>1. /\ poll' = poll
      /\ TryInsertProof(k, v, a)
  BY DEF InsertProof
<1>2. CASE ~Inserted(k)
  <2>1. proofs' = proofs /\ Reply(h, "duplicate")
    BY <1>1, <1>2 DEF InsertProof, TryInsertProof, Inserted
  <2> QED BY <1>1, <2>1, CreditReply
<1>3. CASE Inserted(k)
  <2>1. /\ proofs' = [proofs EXCEPT ![k] = [verdict |-> v, points |-> a, credits |-> 0]]
        /\ proofs[k].verdict = "none"
    BY <1>1, <1>3 DEF TryInsertProof, Inserted, NoRow
  <2>2. /\ proofs'[k] = [verdict |-> v, points |-> a, credits |-> 0]
        /\ \A j \in Keys : j # k => proofs'[j] = proofs[j]
    BY <1>0, <2>1 DEF TypeOK
  <2>3. /\ poll.pc = "apply" => poll.key # k
        /\ \A g \in Handlers : sub[g].pc = "apply" => KeyOf(sub[g].req) # k
    BY <2>1 DEF CreditInv, Due
  <2>4. \A g \in Handlers : KeyOf(sub[g].req) \in Keys
    BY KeyOfType DEF TypeOK, Handling
  <2>5. poll.key \in Keys
    BY DEF TypeOK, Polling
  <2>6. \A j \in Keys :
          /\ proofs'[j].verdict = "none" => proofs'[j] = NoRow
          /\ proofs'[j].verdict # "accepted" =>
                proofs'[j].credits = 0 /\ proofs'[j].points = 0
          /\ proofs'[j].credits <= 1
    BY <1>0, <2>2 DEF CreditInv, Verdicts
  <2>7. \A g \in Handlers : g # h /\ sub[g].pc = "apply" =>
           /\ proofs'[KeyOf(sub[g].req)] = proofs[KeyOf(sub[g].req)]
           /\ KeyOf(sub[g].req) # k
    BY <2>2, <2>3, <2>4
  <2>8. poll.pc = "apply" => proofs'[poll.key] = proofs[poll.key]
    BY <2>2, <2>3, <2>5
  <2>9. CASE v = "accepted"
    <3>1. sub' = [sub EXCEPT ![h] = s]
      BY <1>3, <2>9 DEF InsertProof, TypeOK
    <3>2. s.pc = "apply" /\ s.req = sub[h].req /\ s.verdict = v /\ s.award = a
      BY <1>0 DEF Handling
    <3> HIDE DEF s
    <3>3. /\ sub'[h] = s
          /\ \A g \in Handlers : g # h => sub'[g] = sub[g]
      BY <3>1 DEF TypeOK
    <3> QED BY <1>0, <1>1, <2>2, <2>3, <2>6, <2>7, <2>8, <2>9, <3>2, <3>3
            DEF CreditInv, Due
  <2>10. CASE v # "accepted"
    <3>1. Reply(h, v)
      BY <1>3, <2>10 DEF InsertProof
    <3>2. /\ sub'[h] = Replied(sub[h], v)
          /\ \A g \in Handlers : g # h => sub'[g] = sub[g]
      BY <3>1 DEF Reply, TypeOK
    <3>3. Replied(sub[h], v).pc = "done" /\ Replied(sub[h], v).award = 0
      BY DEF Replied
    <3> QED BY <1>0, <1>1, <2>6, <2>7, <2>8, <3>2, <3>3 DEF CreditInv, Due
  <2> QED BY <2>9, <2>10
<1> QED BY <1>2, <1>3

LEMMA CreditApply ==
    ASSUME TypeOK, CreditInv, NEW h \in Handlers, Apply(h)
    PROVE  CreditInv'
<1> DEFINE k == KeyOf(sub[h].req)
<1>0. /\ k \in Keys /\ Due(k, sub[h].award)
      /\ \A g \in Handlers : KeyOf(sub[g].req) \in Keys
      /\ poll.key \in Keys
  BY KeyOfType DEF TypeOK, CreditInv, Handling, Apply, Polling
<1>1. proofs' = [proofs EXCEPT ![k].credits = @ + 1] /\ poll' = poll
  BY DEF Apply, ApplyProofAcceptance
<1>2. /\ proofs'[k] = [proofs[k] EXCEPT !.credits = 1]
      /\ \A j \in Keys : j # k => proofs'[j] = proofs[j]
  BY <1>0, <1>1 DEF TypeOK, Due
<1>3. /\ proofs'[k].verdict = "accepted" /\ proofs'[k].credits = 1
  BY <1>0, <1>2 DEF TypeOK, Rows, Due
<1>4. /\ sub'[h] = Replied(sub[h], "accepted")
      /\ \A g \in Handlers : g # h => sub'[g] = sub[g]
  BY DEF Apply, Reply, TypeOK
<1>5. Replied(sub[h], "accepted").pc = "done" /\ Replied(sub[h], "accepted").award = 0
  BY DEF Replied
<1>6. /\ poll.pc = "apply" => poll.key # k
      /\ \A g \in Handlers : g # h /\ sub[g].pc = "apply" => KeyOf(sub[g].req) # k
  BY DEF CreditInv, Apply
<1> QED BY <1>0, <1>1, <1>2, <1>3, <1>4, <1>5, <1>6 DEF CreditInv, Due

LEMMA CreditPoll ==
    ASSUME TypeOK, CreditInv, Poll
    PROVE  CreditInv'
<1>0. /\ poll \in Polling /\ poll.key \in Keys
      /\ poll.verdict # "accepted" => poll.award = 0
      /\ \A g \in Handlers : KeyOf(sub[g].req) \in Keys
  BY KeyOfType DEF TypeOK, CreditInv, Polling, Handling
\* The poller moves on without writing a row and not to its last statement.
<1>1. ASSUME UNCHANGED <<proofs, sub>>, poll'.pc # "apply",
             poll'.verdict # "accepted" => poll'.award = 0
      PROVE  CreditInv'
  BY <1>1 DEF CreditInv, Due
<1>2. NodeDone(poll).pc = "ask" /\ NodeDone(poll).award = 0
  BY DEF NodeDone
<1>3. CASE PollList
  <2>1. /\ UNCHANGED <<proofs, sub>>
        /\ \E t : poll' = [poll EXCEPT !.pc = "tip", !.todo = t]
    BY <1>3 DEF PollList, tables
  <2>2. poll'.pc = "tip" /\ poll'.verdict = poll.verdict /\ poll'.award = poll.award
    BY <1>0, <2>1 DEF Polling
  <2> QED BY <1>0, <1>1, <2>1, <2>2
<1>4. CASE PollTip
  <2>1. UNCHANGED <<proofs, sub>> BY <1>4 DEF PollTip, tables
  <2>2. poll'.pc = "ask" /\ poll'.verdict = poll.verdict /\ poll'.award = poll.award
    BY <1>0, <1>4 DEF PollTip, Polling
  <2> QED BY <1>0, <1>1, <2>1, <2>2
<1>5. CASE PollAsk
  <2>1. UNCHANGED <<proofs, sub>> BY <1>5 DEF PollAsk, tables
  <2>2. /\ poll'.pc \in {"ask", "quorum"}
        /\ poll'.verdict = poll.verdict /\ poll'.award = poll.award
    BY <1>0, <1>5 DEF PollAsk, Polling
  <2> QED BY <1>0, <1>1, <2>1, <2>2
<1>6. CASE PollSkip
  <2>1. UNCHANGED <<proofs, sub>> BY <1>6 DEF PollSkip, tables
  <2>2. poll'.pc = "ask" /\ poll'.verdict = poll.verdict /\ poll'.award = poll.award
    BY <1>0, <1>6 DEF PollSkip, Polling
  <2> QED BY <1>0, <1>1, <2>1, <2>2
<1>7. CASE PollQuorum
  <2>1. UNCHANGED <<proofs, sub>> BY <1>7 DEF PollQuorum, tables
  <2> DEFINE a(v) == IF v = "accepted"
                     THEN PollPoints(Tier[poll.key.node], poll.key.height, poll.tip) ELSE 0
  <2>2. \/ poll' = NodeDone(poll)
        \/ \E v : poll' = [poll EXCEPT !.pc = "insert", !.verdict = v, !.at = now,
                                       !.award = a(v)]
    BY <1>7 DEF PollQuorum
  <2>3. ASSUME NEW v PROVE v # "accepted" => a(v) = 0
    OBVIOUS
  <2> HIDE DEF a
  <2>4. poll'.pc # "apply" /\ (poll'.verdict # "accepted" => poll'.award = 0)
    BY <1>0, <1>2, <2>2, <2>3 DEF Polling
  <2> QED BY <1>1, <2>1, <2>4
<1>8. CASE PollInsert
  <2> DEFINE k == poll.key
             v == poll.verdict
             a == poll.award
  <2>0. v \in Verdicts /\ sub' = sub
    BY <1>0, <1>8 DEF Polling, PollInsert
  <2>1. CASE ~Inserted(k)
    <3>1. UNCHANGED <<proofs, sub>> /\ poll' = NodeDone(poll)
      BY <1>8, <2>1 DEF PollInsert, TryInsertProof, Inserted
    <3> QED BY <1>1, <1>2, <3>1
  <2>2. CASE Inserted(k)
    <3>1. /\ proofs'[k] = [verdict |-> v, points |-> a, credits |-> 0]
          /\ \A j \in Keys : j # k => proofs'[j] = proofs[j]
          /\ proofs[k].verdict = "none"
      BY <1>0, <1>8, <2>2 DEF PollInsert, TryInsertProof, Inserted, NoRow, TypeOK
    <3>2. \A g \in Handlers : sub[g].pc = "apply" => KeyOf(sub[g].req) # k
      BY <3>1 DEF CreditInv, Due
    <3>3. \A j \in Keys :
            /\ proofs'[j].verdict = "none" => proofs'[j] = NoRow
            /\ proofs'[j].verdict # "accepted" =>
                  proofs'[j].credits = 0 /\ proofs'[j].points = 0
            /\ proofs'[j].credits <= 1
      BY <1>0, <2>0, <3>1 DEF CreditInv, Verdicts
    <3>4. \A g \in Handlers : sub[g].pc = "apply" =>
             proofs'[KeyOf(sub[g].req)] = proofs[KeyOf(sub[g].req)]
      BY <1>0, <3>1, <3>2
    <3>5. \/ v = "accepted" /\ poll' = [poll EXCEPT !.pc = "apply"]
          \/ v # "accepted" /\ poll' = NodeDone(poll)
      BY <1>8, <2>2 DEF PollInsert
    <3>6. \/ /\ v = "accepted" /\ poll'.pc = "apply" /\ poll'.key = k
             /\ poll'.verdict = v /\ poll'.award = a
          \/ poll'.pc = "ask" /\ poll'.award = 0
      BY <1>0, <1>2, <3>5 DEF Polling
    <3> QED BY <1>0, <2>0, <3>1, <3>2, <3>3, <3>4, <3>6 DEF CreditInv, Due
  <2> QED BY <2>1, <2>2
<1>9. CASE PollApply
  <2> DEFINE k == poll.key
  <2>0. Due(k, poll.award) /\ sub' = sub /\ poll' = NodeDone(poll)
    BY <1>9 DEF CreditInv, PollApply
  <2>1. /\ proofs'[k] = [proofs[k] EXCEPT !.credits = 1]
        /\ \A j \in Keys : j # k => proofs'[j] = proofs[j]
    BY <1>0, <1>9, <2>0 DEF PollApply, ApplyProofAcceptance, TypeOK, Due
  <2>2. proofs'[k].verdict = "accepted" /\ proofs'[k].credits = 1
    BY <1>0, <2>0, <2>1 DEF TypeOK, Rows, Due
  <2>3. \A g \in Handlers : sub[g].pc = "apply" => KeyOf(sub[g].req) # k
    BY <1>9 DEF CreditInv, PollApply
  <2>4. \A g \in Handlers : sub[g].pc = "apply" =>
           proofs'[KeyOf(sub[g].req)] = proofs[KeyOf(sub[g].req)]
    BY <1>0, <2>1, <2>3
  <2>5. \A j \in Keys :
          /\ proofs'[j].verdict = "none" => proofs'[j] = NoRow
          /\ proofs'[j].verdict # "accepted" =>
                proofs'[j].credits = 0 /\ proofs'[j].points = 0
          /\ proofs'[j].credits <= 1
    <3> SUFFICES ASSUME NEW j \in Keys
                 PROVE  /\ proofs'[j].verdict = "none" => proofs'[j] = NoRow
                        /\ proofs'[j].verdict # "accepted" =>
                              proofs'[j].credits = 0 /\ proofs'[j].points = 0
                        /\ proofs'[j].credits <= 1
      OBVIOUS
    <3>1. CASE j = k BY <2>2, <3>1
    <3>2. CASE j # k BY <2>1, <3>2 DEF CreditInv
    <3> QED BY <3>1, <3>2
  <2> QED BY <1>0, <1>2, <2>0, <2>4, <2>5 DEF CreditInv, Due
<1>10. CASE PollFail
  <2>1. UNCHANGED <<proofs, sub>> /\ poll' = NodeDone(poll) BY <1>10 DEF PollFail, tables
  <2> QED BY <1>1, <1>2, <2>1
<1>11. CASE PollRoundEnds
  <2>1. UNCHANGED <<proofs, sub>> /\ poll' = RoundOver
    BY <1>11 DEF PollRoundEnds, tables
  <2> QED BY <1>1, <2>1 DEF RoundOver
<1> QED
  BY <1>3, <1>4, <1>5, <1>6, <1>7, <1>8, <1>9, <1>10, <1>11 DEF Poll

LEMMA CreditWorld ==
    ASSUME TypeOK, CreditInv,
           RefreshTip \/ Restart \/ MineBlock \/ Tick \/ (\E n \in Nodes : Suspend(n))
    PROVE  CreditInv'
<1>1. CASE Restart
  <2>1. /\ proofs' = proofs /\ poll' = RoundOver
        /\ \A h \in Handlers :
             \/ sub[h].pc \in {"idle", "done"} /\ sub'[h] = sub[h]
             \/ sub'[h] = Replied(sub[h], "failed")
    BY <1>1 DEF Restart, tables
  <2>2. \A h \in Handlers :
          /\ sub'[h].pc # "apply"
          /\ sub'[h].verdict # "accepted" => sub'[h].award = 0
    <3> SUFFICES ASSUME NEW h \in Handlers
                 PROVE  /\ sub'[h].pc # "apply"
                        /\ sub'[h].verdict # "accepted" => sub'[h].award = 0
      OBVIOUS
    <3>1. CASE sub[h].pc \in {"idle", "done"} /\ sub'[h] = sub[h]
      BY <3>1 DEF CreditInv
    <3>2. CASE sub'[h] = Replied(sub[h], "failed")
      BY <3>2 DEF Replied
    <3> QED BY <2>1, <3>1, <3>2
  <2>3. poll'.pc # "apply" /\ poll'.award = 0
    BY <2>1 DEF RoundOver
  <2> QED BY <2>1, <2>2, <2>3 DEF CreditInv, Due
<1>2. CASE ~Restart
  <2>1. UNCHANGED <<proofs, sub, poll>>
    BY <1>2 DEF RefreshTip, MineBlock, Tick, Suspend, tables
  <2> QED BY <2>1 DEF CreditInv, Due
<1> QED BY <1>1, <1>2

LEMMA CreditNext == TypeOK /\ CreditInv /\ [Next]_vars => CreditInv'
<1> SUFFICES ASSUME TypeOK, CreditInv, [Next]_vars PROVE CreditInv'
  OBVIOUS
<1>1. CASE UNCHANGED vars
  BY <1>1 DEF CreditInv, Due, vars
<1>2. CASE Next
  BY <1>2, CreditSubmitQuiet, CreditInsert, CreditApply, CreditPoll, CreditWorld
  DEF Next, Submit
<1> QED BY <1>1, <1>2

LEMMA CreditInvariant == Spec => []CreditInv
BY CreditInit, CreditNext, IntakeTypeCorrect, PTL DEF Spec

LEMMA CreditInvIsEnough == TypeOK /\ CreditInv => CreditedAtMostOnce
BY DEF TypeOK, CreditInv, CreditedAtMostOnce, Rows

(* However many submissions, polls, failures and restarts interleave, a     *)
(* proof row's award reaches its node's points at most once, and only if    *)
(* the row was accepted.                                                    *)
THEOREM NoDoubleCredit == Spec => []CreditedAtMostOnce
BY CreditInvariant, IntakeTypeCorrect, CreditInvIsEnough, PTL

-----------------------------------------------------------------------------
(* ProofIntake implements CreditLedger: each step of a submit handler, of   *)
(* the poller or of the world is a decision on one claim, the credit of one *)
(* awarded claim, or invisible in the ledger.                               *)

\* The mapped variables, as the ledger sees them.
Decision == [k \in Keys |-> DecisionOf(proofs[k])]
Award    == [k \in Keys |-> proofs[k].points]
Balance  == [n \in Nodes |-> nodes[n].points]

LEMMA DecisionCases ==
    ASSUME NEW row \in Rows
    PROVE  /\ row.verdict = "none" => DecisionOf(row) = "open"
           /\ row.verdict \in {"rejected", "pending"} => DecisionOf(row) = "refused"
           /\ row.verdict = "accepted" /\ row.credits = 0 => DecisionOf(row) = "awarded"
           /\ row.verdict = "accepted" /\ row.credits # 0 => DecisionOf(row) = "credited"
BY DEF DecisionOf

LEMMA LedgerInit == Init => Ledger!Init
<1> SUFFICES ASSUME Init PROVE Ledger!Init
  OBVIOUS
<1>1. \A k \in Keys : proofs[k] = NoRow
  BY DEF Init
<1>2. DecisionOf(NoRow) = "open" /\ NoRow.points = 0
  BY DEF DecisionOf, NoRow
<1>3. \A n \in Nodes : nodes[n].points = 0
  BY DEF Init
<1> QED BY <1>1, <1>2, <1>3 DEF Ledger!Init

\* A step that leaves the rows and every points column alone.
LEMMA LedgerStutter ==
    ASSUME UNCHANGED proofs, \A n \in Nodes : nodes'[n].points = nodes[n].points
    PROVE  UNCHANGED Ledger!ledgerVars
<1>1. Decision' = Decision /\ Award' = Award
  BY DEF Decision, Award
<1>2. Balance' = Balance
  BY DEF Balance
<1> QED BY <1>1, <1>2 DEF Ledger!ledgerVars, Decision, Award, Balance

\* Writing a proof row decides its claim.
LEMMA LedgerInsert ==
    ASSUME TypeOK, TypeOK', NEW k \in Keys, NEW v \in Verdicts, NEW a \in Awards,
           v # "accepted" => a = 0, TryInsertProof(k, v, a), UNCHANGED nodes
    PROVE  [Ledger!Next]_(Ledger!ledgerVars)
<1> DEFINE row == [verdict |-> v, points |-> a, credits |-> 0]
<1>0. row.verdict = v /\ row.points = a /\ row.credits = 0
  OBVIOUS
<1>1. CASE proofs[k] # NoRow
  <2>1. UNCHANGED proofs BY <1>1 DEF TryInsertProof
  <2> QED BY <2>1, LedgerStutter
<1>2. CASE proofs[k] = NoRow
  <2>1. proofs' = [proofs EXCEPT ![k] = row]
    BY <1>2 DEF TryInsertProof
  <2>2. /\ proofs'[k] = row
        /\ \A j \in Keys : j # k => proofs'[j] = proofs[j]
    BY <2>1 DEF TypeOK
  <2>3. Decision[k] = "open" /\ Award[k] = 0
    BY <1>2 DEF Decision, DecisionOf, NoRow, Award
  <2>4. Balance' = Balance
    BY DEF Balance
  <2> HIDE DEF row
  <2>5. Award' = [Award EXCEPT ![k] = a]
    BY <1>0, <2>2 DEF Award
  <2>6. CASE v = "accepted"
    <3>1. DecisionOf(row) = "awarded"
      BY <1>0, <2>6 DEF DecisionOf
    <3>2. Decision' = [Decision EXCEPT ![k] = "awarded"]
      BY <2>2, <3>1 DEF Decision
    <3>3. Ledger!Grant(k)
      BY <2>3, <2>4, <2>5, <3>2 DEF Ledger!Grant, Decision, Award, Balance
    <3> QED BY <3>3 DEF Ledger!Next
  <2>7. CASE v # "accepted"
    <3>1. DecisionOf(row) = "refused" /\ a = 0
      BY <1>0, <2>7 DEF DecisionOf, Verdicts
    <3>2. Decision' = [Decision EXCEPT ![k] = "refused"]
      BY <2>2, <3>1 DEF Decision
    <3>3. Award' = Award
      BY <2>3, <2>5, <3>1 DEF Award
    <3>4. Ledger!Refuse(k)
      BY <2>3, <2>4, <3>2, <3>3 DEF Ledger!Refuse, Decision, Award, Balance
    <3> QED BY <3>4 DEF Ledger!Next
  <2> QED BY <2>6, <2>7
<1> QED BY <1>1, <1>2

\* The UPDATE of the node credits the claim whose award was due.
LEMMA LedgerCredit ==
    ASSUME TypeOK, NEW k \in Keys, NEW a \in Awards, NEW at,
           Due(k, a), ApplyProofAcceptance(k, a, at)
    PROVE  Ledger!Next
<1>0. k.node \in Nodes
  BY DEF Keys
<1>1. /\ proofs'[k] = [proofs[k] EXCEPT !.credits = 1]
      /\ \A j \in Keys : j # k => proofs'[j] = proofs[j]
  BY DEF ApplyProofAcceptance, TypeOK, Due
<1>2. /\ proofs'[k].verdict = "accepted" /\ proofs'[k].credits = 1
      /\ proofs'[k].points = a
  BY <1>1 DEF TypeOK, Rows, Due
<1>3. DecisionOf(proofs'[k]) = "credited"
  BY <1>2 DEF DecisionOf
<1>4. Decision[k] = "awarded" /\ Award[k] = a
  BY DEF Decision, DecisionOf, Award, Due
<1>5. Decision' = [Decision EXCEPT ![k] = "credited"]
  BY <1>1, <1>3 DEF Decision
<1>6. Award' = Award
  BY <1>1, <1>2, <1>4 DEF Award
<1>7. Balance' = [Balance EXCEPT ![k.node] = Balance[k.node] + Award[k]]
  BY <1>0, <1>4 DEF Balance, ApplyProofAcceptance, TypeOK
<1>8. Ledger!Credit(k)
  BY <1>4, <1>5, <1>6, <1>7 DEF Ledger!Credit, Decision, Award, Balance
<1> QED BY <1>8 DEF Ledger!Next

LEMMA LedgerSubmit ==
    ASSUME TypeOK, TypeOK', CreditInv, NEW h \in Handlers, Submit(h)
    PROVE  [Ledger!Next]_(Ledger!ledgerVars)
<1>0. /\ sub[h] \in Handling /\ KeyOf(sub[h].req) \in Keys
      /\ sub[h].verdict \in Verdicts /\ sub[h].award \in Awards
  BY KeyOfType DEF TypeOK, Handling
<1>1. CASE InsertProof(h)
  <2>1. /\ TryInsertProof(KeyOf(sub[h].req), sub[h].verdict, sub[h].award)
        /\ UNCHANGED nodes
    BY <1>1 DEF InsertProof
  <2>2. sub[h].verdict # "accepted" => sub[h].award = 0
    BY DEF CreditInv
  <2> QED BY <1>0, <2>1, <2>2, LedgerInsert
<1>2. CASE Apply(h)
  <2>1. /\ Due(KeyOf(sub[h].req), sub[h].award)
        /\ ApplyProofAcceptance(KeyOf(sub[h].req), sub[h].award, sub[h].req.ts)
    BY <1>2 DEF Apply, CreditInv
  <2> QED BY <1>0, <2>1, LedgerCredit
<1>3. CASE ~InsertProof(h) /\ ~Apply(h)
  <2>1. UNCHANGED <<nodes, proofs>>
    BY <1>3 DEF Submit, Receive, Lookup, Refuse, UseNonce, ReadTip, Verify, Fail, tables
  <2> QED BY <2>1, LedgerStutter
<1> QED BY <1>1, <1>2, <1>3

LEMMA LedgerPoll ==
    ASSUME TypeOK, TypeOK', CreditInv, Poll
    PROVE  [Ledger!Next]_(Ledger!ledgerVars)
<1>0. poll.key \in Keys /\ poll.verdict \in Verdicts /\ poll.award \in Awards
  BY DEF TypeOK, Polling
<1>1. CASE PollInsert
  <2>1. TryInsertProof(poll.key, poll.verdict, poll.award) /\ UNCHANGED nodes
    BY <1>1 DEF PollInsert
  <2>2. poll.verdict # "accepted" => poll.award = 0
    BY DEF CreditInv
  <2> QED BY <1>0, <2>1, <2>2, LedgerInsert
<1>2. CASE PollApply
  <2>1. Due(poll.key, poll.award) /\ ApplyProofAcceptance(poll.key, poll.award, poll.at)
    BY <1>2 DEF PollApply, CreditInv
  <2> QED BY <1>0, <2>1, LedgerCredit
<1>3. CASE ~PollInsert /\ ~PollApply
  <2>1. UNCHANGED <<nodes, proofs>>
    BY <1>3 DEF Poll, PollList, PollTip, PollAsk, PollSkip, PollQuorum, PollFail,
                PollRoundEnds, tables
  <2> QED BY <2>1, LedgerStutter
<1> QED BY <1>1, <1>2, <1>3

LEMMA LedgerWorld ==
    ASSUME TypeOK,
           RefreshTip \/ Restart \/ MineBlock \/ Tick \/ (\E n \in Nodes : Suspend(n))
    PROVE  UNCHANGED Ledger!ledgerVars
<1>1. ASSUME NEW n \in Nodes, Suspend(n)
      PROVE  UNCHANGED proofs /\ \A m \in Nodes : nodes'[m].points = nodes[m].points
  BY <1>1 DEF Suspend, TypeOK, NodeRows
<1>2. CASE RefreshTip \/ Restart \/ MineBlock \/ Tick
  <2>1. UNCHANGED <<nodes, proofs>>
    BY <1>2 DEF RefreshTip, Restart, MineBlock, Tick, tables
  <2> QED BY <2>1, LedgerStutter
<1> QED BY <1>1, <1>2, LedgerStutter

LEMMA LedgerNext ==
    TypeOK /\ TypeOK' /\ CreditInv /\ [Next]_vars => [Ledger!Next]_(Ledger!ledgerVars)
<1> SUFFICES ASSUME TypeOK, TypeOK', CreditInv, [Next]_vars
             PROVE  [Ledger!Next]_(Ledger!ledgerVars)
  OBVIOUS
<1>1. CASE UNCHANGED vars
  <2>1. UNCHANGED <<nodes, proofs>> BY <1>1 DEF vars
  <2> QED BY <2>1, LedgerStutter
<1>2. CASE Next
  BY <1>2, LedgerSubmit, LedgerPoll, LedgerWorld DEF Next
<1> QED BY <1>1, <1>2

(* Every behaviour of the intake - any number of requests, any interleaving *)
(* with the poller, any failure or restart - is a behaviour of the ledger:  *)
(* points move only when an accepted claim is credited, once, by its award. *)
THEOREM IntakeImplementsLedger == Spec => ImplementsLedger
<1>1. Spec => Ledger!Init /\ [][Ledger!Next]_(Ledger!ledgerVars)
  BY LedgerInit, LedgerNext, IntakeTypeCorrect, CreditInvariant, PTL DEF Spec
<1> QED BY <1>1 DEF ImplementsLedger, Ledger!Spec

-----------------------------------------------------------------------------
(* What clients can rely on *)

\* TookNonce, of a handler's record.
Took(s) ==
    \/ s.pc \in {"tip", "verify", "insert", "apply"}
    \/ s.reply \in Verdicts \cup {"far_behind", "duplicate"}

LEMMA ReplyRecord ==
    ASSUME TypeOK, NEW h \in Handlers, NEW r, Reply(h, r)
    PROVE  /\ sub'[h].pc = "done" /\ sub'[h].reply = r /\ sub'[h].req = sub[h].req
           /\ \A g \in Handlers : g # h => sub'[g] = sub[g]
<1>1. /\ sub'[h] = Replied(sub[h], r)
      /\ \A g \in Handlers : g # h => sub'[g] = sub[g]
  BY DEF Reply, TypeOK
<1> QED BY <1>1 DEF Replied

\* What each step of a handler does to its pc, request and reply.
LEMMA SubmitSteps ==
    ASSUME TypeOK, NEW h \in Handlers, Submit(h)
    PROVE  /\ \A g \in Handlers : g # h => sub'[g] = sub[g]
           /\ poll' = poll
           /\ \/ /\ Receive(h) /\ sub[h].pc = "idle"
                 /\ sub'[h].pc = "lookup" /\ sub'[h].reply = sub[h].reply
              \/ /\ Lookup(h) \/ Refuse(h)
                 /\ sub[h].pc = "lookup" /\ sub'[h].req = sub[h].req
                 /\ \/ sub'[h].pc = "nonce" /\ sub'[h].reply = sub[h].reply
                    \/ sub'[h].pc = "done" /\ sub'[h].reply \in {"forbidden", "refused"}
              \/ /\ UseNonce(h)
                 /\ sub[h].pc = "nonce" /\ sub'[h].req = sub[h].req
                 /\ \/ sub'[h].pc = "done" /\ sub'[h].reply = "nonce_used"
                    \/ /\ sub[h].req.nonce \notin usedNonces
                       /\ usedNonces' = usedNonces \cup {sub[h].req.nonce}
                       /\ \/ sub'[h].pc = "done" /\ sub'[h].reply = "far_behind"
                          \/ sub'[h].pc = "tip" /\ sub'[h].reply = sub[h].reply
              \/ /\ ReadTip(h) \/ Verify(h)
                 /\ sub[h].pc \in {"tip", "verify"} /\ sub'[h].req = sub[h].req
                 /\ sub'[h].pc \in {"verify", "insert"} /\ sub'[h].reply = sub[h].reply
              \/ /\ InsertProof(h)
                 /\ sub[h].pc = "insert" /\ sub'[h].req = sub[h].req
                 /\ \/ sub'[h].pc = "done" /\ sub'[h].reply \in Verdicts \cup {"duplicate"}
                    \/ sub'[h].pc = "apply" /\ sub'[h].reply = sub[h].reply
              \/ /\ Apply(h)
                 /\ sub[h].pc = "apply" /\ sub'[h].req = sub[h].req
                 /\ sub'[h].pc = "done" /\ sub'[h].reply = "accepted"
              \/ /\ Fail(h)
                 /\ sub[h].pc \notin {"idle", "done"} /\ sub'[h].req = sub[h].req
                 /\ sub'[h].pc = "done" /\ sub'[h].reply = "failed"
<1>0. sub[h] \in Handling
  BY DEF TypeOK
<1>1. CASE Receive(h)
  <2>1. PICK r \in Requests :
          sub' = [sub EXCEPT ![h] = [sub[h] EXCEPT !.pc = "lookup", !.req = r]]
    BY <1>1 DEF Receive, TypeOK
  <2> QED BY <1>0, <1>1, <2>1 DEF Receive, TypeOK, Handling
<1>2. CASE Lookup(h)
  <2> DEFINE row == nodes[sub[h].req.node]
  <2>1. CASE row.status = "suspended"
    <3>1. Reply(h, "forbidden") BY <1>2, <2>1 DEF Lookup
    <3> QED BY <1>2, <3>1, ReplyRecord DEF Lookup
  <2>2. CASE row.status # "suspended"
    <3>1. sub' = [sub EXCEPT ![h] =
                    [sub[h] EXCEPT !.pc = "nonce", !.seen = row.lastHeight]]
      BY <1>2, <2>2 DEF Lookup, TypeOK
    <3> QED BY <1>0, <1>2, <3>1 DEF Lookup, TypeOK, Handling
  <2> QED BY <2>1, <2>2
<1>3. CASE Refuse(h)
  BY <1>3, ReplyRecord DEF Refuse
<1>4. CASE UseNonce(h)
  <2>1. CASE sub[h].req.nonce \in usedNonces
    BY <1>4, <2>1, ReplyRecord DEF UseNonce
  <2>2. CASE sub[h].req.nonce \notin usedNonces
    <3>1. /\ usedNonces' = usedNonces \cup {sub[h].req.nonce}
          /\ sub[h].pc = "nonce" /\ poll' = poll
          /\ \/ Reply(h, "far_behind")
             \/ sub' = [sub EXCEPT ![h] = [sub[h] EXCEPT !.pc = "tip"]]
      BY <1>4, <2>2 DEF UseNonce, TypeOK
    <3>2. CASE Reply(h, "far_behind")
      BY <1>4, <2>2, <3>1, <3>2, ReplyRecord
    <3>3. CASE sub' = [sub EXCEPT ![h] = [sub[h] EXCEPT !.pc = "tip"]]
      <4>1. /\ sub'[h].pc = "tip" /\ sub'[h].reply = sub[h].reply
            /\ sub'[h].req = sub[h].req
            /\ \A g \in Handlers : g # h => sub'[g] = sub[g]
        BY <1>0, <3>3 DEF TypeOK, Handling
      <4>2. /\ UseNonce(h)
            /\ sub[h].pc = "nonce" /\ sub'[h].req = sub[h].req
            /\ sub[h].req.nonce \notin usedNonces
            /\ usedNonces' = usedNonces \cup {sub[h].req.nonce}
            /\ sub'[h].pc = "tip" /\ sub'[h].reply = sub[h].reply
        BY <1>4, <2>2, <3>1, <4>1
      <4>3. poll' = poll
        BY <3>1
      <4> QED BY <4>1, <4>2, <4>3
    <3> QED BY <3>1, <3>2, <3>3
  <2> QED BY <2>1, <2>2
<1>5. CASE ReadTip(h)
  BY <1>0, <1>5 DEF ReadTip, TypeOK, Handling
<1>6. CASE Verify(h)
  <2>1. \E v, a :
          sub' = [sub EXCEPT ![h] =
                    [sub[h] EXCEPT !.pc = "insert", !.verdict = v, !.award = a]]
    BY <1>6 DEF Verify, TypeOK
  <2>2. /\ sub'[h].pc = "insert" /\ sub'[h].reply = sub[h].reply
        /\ sub'[h].req = sub[h].req
        /\ \A g \in Handlers : g # h => sub'[g] = sub[g]
    BY <1>0, <2>1 DEF TypeOK, Handling
  <2>3. sub[h].pc = "verify" /\ poll' = poll
    BY <1>6 DEF Verify
  <2> QED BY <1>6, <2>2, <2>3
<1>7. CASE InsertProof(h)
  <2>1. /\ sub[h].pc = "insert" /\ poll' = poll
        /\ \/ Reply(h, "duplicate") \/ Reply(h, sub[h].verdict)
           \/ sub' = [sub EXCEPT ![h] = [sub[h] EXCEPT !.pc = "apply"]]
    BY <1>7 DEF InsertProof, TypeOK
  <2>2. CASE Reply(h, "duplicate")
    BY <1>7, <2>1, <2>2, ReplyRecord
  <2>3. CASE Reply(h, sub[h].verdict)
    BY <1>0, <1>7, <2>1, <2>3, ReplyRecord DEF Handling
  <2>4. CASE sub' = [sub EXCEPT ![h] = [sub[h] EXCEPT !.pc = "apply"]]
    BY <1>0, <1>7, <2>1, <2>4 DEF TypeOK, Handling
  <2> QED BY <2>1, <2>2, <2>3, <2>4
<1>8. CASE Apply(h)
  BY <1>8, ReplyRecord DEF Apply
<1>9. CASE Fail(h)
  BY <1>9, ReplyRecord DEF Fail
<1> QED BY <1>1, <1>2, <1>3, <1>4, <1>5, <1>6, <1>7, <1>8, <1>9 DEF Submit

-----------------------------------------------------------------------------
(* Nonces *)

LEMMA NonceInit == Init => NonceInv
BY DEF Init, NonceInv, TookNonce, OneRequestPerNonce, Verdicts

LEMMA NoncesStay ==
    ASSUME NEW h \in Handlers, Submit(h)
    PROVE  usedNonces \subseteq usedNonces'
BY DEF Submit, Receive, Lookup, Refuse, UseNonce, ReadTip, Verify, InsertProof,
       Apply, Fail, tables

\* A request holds its nonce after a step if it did before, or if the step
\* took a nonce nobody had.
LEMMA NonceTaken ==
    ASSUME TypeOK, NonceInv, NEW h \in Handlers, Submit(h)
    PROVE  /\ sub'[h].pc # "done" => sub'[h].reply = "none"
           /\ TookNonce(h)' =>
                 /\ sub'[h].req = sub[h].req
                 /\ \/ TookNonce(h)
                    \/ /\ sub[h].req.nonce \notin usedNonces
                       /\ sub[h].req.nonce \in usedNonces'
<1>0. sub[h].pc # "done" => sub[h].reply = "none"
  BY DEF NonceInv
<1> QED BY <1>0, SubmitSteps DEF TookNonce, Verdicts

LEMMA NonceSubmit ==
    ASSUME TypeOK, NonceInv, NEW h \in Handlers, Submit(h)
    PROVE  NonceInv'
<1>1. \A g \in Handlers : g # h => sub'[g] = sub[g]
  BY SubmitSteps
<1>2. \A g \in Handlers : g # h => (TookNonce(g)' <=> TookNonce(g))
  BY <1>1 DEF TookNonce
<1>3. \A g \in Handlers : sub'[g].pc # "done" => sub'[g].reply = "none"
  BY <1>1, NonceTaken DEF NonceInv
<1>4. \A g \in Handlers : TookNonce(g)' => sub'[g].req.nonce \in usedNonces'
  <2> SUFFICES ASSUME NEW g \in Handlers, TookNonce(g)'
               PROVE  sub'[g].req.nonce \in usedNonces'
    OBVIOUS
  <2>1. CASE g # h
    BY <1>1, <1>2, <2>1, NoncesStay DEF NonceInv
  <2>2. CASE g = h
    BY <2>2, NoncesStay, NonceTaken DEF NonceInv
  <2> QED BY <2>1, <2>2
<1>5. \A g \in Handlers : g # h /\ TookNonce(g)' /\ TookNonce(h)' =>
          sub'[g].req.nonce # sub'[h].req.nonce
  <2> SUFFICES ASSUME NEW g \in Handlers, g # h, TookNonce(g)', TookNonce(h)'
               PROVE  sub'[g].req.nonce # sub'[h].req.nonce
    OBVIOUS
  <2>1. TookNonce(g) /\ sub'[g].req = sub[g].req
    BY <1>1, <1>2
  <2>2. sub[g].req.nonce \in usedNonces
    BY <2>1 DEF NonceInv
  <2>3. sub'[h].req = sub[h].req
    BY NonceTaken
  <2>4. CASE TookNonce(h)
    BY <2>1, <2>3, <2>4 DEF NonceInv, OneRequestPerNonce
  <2>5. CASE sub[h].req.nonce \notin usedNonces
    BY <2>1, <2>2, <2>3, <2>5
  <2> QED BY <2>4, <2>5, NonceTaken
<1>6. OneRequestPerNonce'
  <2> SUFFICES ASSUME NEW f \in Handlers, NEW g \in Handlers,
                      TookNonce(f)', TookNonce(g)',
                      sub'[f].req.nonce = sub'[g].req.nonce, f # g
               PROVE  FALSE
    BY DEF OneRequestPerNonce
  <2>1. CASE f = h \/ g = h
    BY <1>5, <2>1
  <2>2. CASE f # h /\ g # h
    BY <1>1, <1>2, <2>2 DEF NonceInv, OneRequestPerNonce
  <2> QED BY <2>1, <2>2
<1> QED BY <1>3, <1>4, <1>6 DEF NonceInv

\* What a restart does to the requests: the open ones fail.
LEMMA RestartStep ==
    ASSUME Restart, NEW h \in Handlers
    PROVE  \/ sub'[h] = sub[h]
           \/ /\ sub[h].pc \notin {"idle", "done"}
              /\ sub'[h].pc = "done" /\ sub'[h].reply = "failed"
              /\ sub'[h].req = sub[h].req
<1>1. \/ sub'[h] = sub[h]
      \/ sub[h].pc \notin {"idle", "done"} /\ sub'[h] = Replied(sub[h], "failed")
  BY DEF Restart
<1> QED BY <1>1 DEF Replied

LEMMA OtherSteps ==
    ASSUME Poll \/ RefreshTip \/ MineBlock \/ Tick \/ (\E n \in Nodes : Suspend(n))
    PROVE  UNCHANGED <<sub, usedNonces>>
BY DEF Poll, PollList, PollTip, PollAsk, PollSkip, PollQuorum, PollInsert, PollApply,
       PollFail, PollRoundEnds, RefreshTip, MineBlock, Tick, Suspend, tables

LEMMA NonceNext == TypeOK /\ NonceInv /\ [Next]_vars => NonceInv'
<1> SUFFICES ASSUME TypeOK, NonceInv, [Next]_vars PROVE NonceInv'
  OBVIOUS
<1>1. ASSUME NEW h \in Handlers, Submit(h) PROVE NonceInv'
  BY <1>1, NonceSubmit
<1>2. CASE Restart
  <2>1. \A h \in Handlers : TookNonce(h)' => TookNonce(h) /\ sub'[h] = sub[h]
    BY <1>2, RestartStep DEF TookNonce, Verdicts
  <2>2. usedNonces' = usedNonces
    BY <1>2 DEF Restart, tables
  <2>3. \A h \in Handlers : sub'[h].pc # "done" => sub'[h].reply = "none"
    BY <1>2, RestartStep DEF NonceInv
  <2> QED BY <2>1, <2>2, <2>3 DEF NonceInv, OneRequestPerNonce
<1>3. CASE UNCHANGED <<sub, usedNonces>>
  BY <1>3 DEF NonceInv, OneRequestPerNonce, TookNonce
<1> QED BY <1>1, <1>2, <1>3, OtherSteps DEF Next, vars

LEMMA NonceInvariant == Spec => []NonceInv
BY NonceInit, NonceNext, IntakeTypeCorrect, PTL DEF Spec

(* Whatever requests arrive together, fail or are cut off by a restart, at  *)
(* most one of those that carry a nonce gets past try_use_nonce.            *)
THEOREM NoncesAdmitOneRequest == Spec => []OneRequestPerNonce
<1>1. NonceInv => OneRequestPerNonce
  BY DEF NonceInv
<1> QED BY <1>1, NonceInvariant, PTL

-----------------------------------------------------------------------------
(* Replies *)

\* What a step may do to a row: write it, or credit it.  A row that is
\* written keeps its verdict, and its credits never go down.
RowKept(k) ==
    proofs[k].verdict # "none" =>
       /\ proofs'[k].verdict = proofs[k].verdict
       /\ proofs'[k].points = proofs[k].points
       /\ proofs'[k].credits >= proofs[k].credits

LEMMA InsertKeepsRows ==
    ASSUME TypeOK, NEW k \in Keys, NEW v, NEW a, TryInsertProof(k, v, a)
    PROVE  \A j \in Keys : RowKept(j)
<1> SUFFICES ASSUME NEW j \in Keys, proofs[j].verdict # "none"
             PROVE  proofs'[j] = proofs[j] /\ proofs[j].credits \in Nat
  BY DEF RowKept
<1>1. proofs[j] # NoRow /\ proofs[j].credits \in Nat
  BY DEF NoRow, TypeOK, Rows
<1> QED BY <1>1 DEF TryInsertProof, TypeOK

LEMMA ApplyKeepsRows ==
    ASSUME TypeOK, NEW k \in Keys, NEW a, NEW at, ApplyProofAcceptance(k, a, at)
    PROVE  \A j \in Keys : RowKept(j)
<1>1. /\ proofs'[k] = [proofs[k] EXCEPT !.credits = proofs[k].credits + 1]
      /\ \A j \in Keys : j # k => proofs'[j] = proofs[j]
  BY DEF ApplyProofAcceptance, TypeOK
<1>2. \A j \in Keys : proofs[j] \in Rows
  BY DEF TypeOK
<1>3. RowKept(k)
  BY <1>1, <1>2 DEF RowKept, Rows
<1>4. \A j \in Keys : j # k => RowKept(j)
  BY <1>1, <1>2 DEF RowKept, Rows
<1> QED BY <1>3, <1>4

LEMMA RowsKept ==
    ASSUME TypeOK, [Next]_vars
    PROVE  \A k \in Keys : RowKept(k)
<1>0. /\ poll.key \in Keys
      /\ \A h \in Handlers : KeyOf(sub[h].req) \in Keys
  BY KeyOfType DEF TypeOK, Polling, Handling
<1>1. ASSUME NEW h \in Handlers, InsertProof(h) PROVE \A k \in Keys : RowKept(k)
  BY <1>0, <1>1, InsertKeepsRows DEF InsertProof
<1>2. ASSUME NEW h \in Handlers, Apply(h) PROVE \A k \in Keys : RowKept(k)
  BY <1>0, <1>2, ApplyKeepsRows DEF Apply
<1>3. CASE PollInsert
  BY <1>0, <1>3, InsertKeepsRows DEF PollInsert
<1>4. CASE PollApply
  BY <1>0, <1>4, ApplyKeepsRows DEF PollApply
<1>5. CASE UNCHANGED proofs
  BY <1>5 DEF RowKept, TypeOK, Rows
<1>6. ASSUME NEW h \in Handlers, Submit(h), ~InsertProof(h), ~Apply(h)
      PROVE  UNCHANGED proofs
  BY <1>6 DEF Submit, Receive, Lookup, Refuse, UseNonce, ReadTip, Verify, Fail, tables
<1>7. Poll => PollInsert \/ PollApply \/ UNCHANGED proofs
  BY DEF Poll, PollList, PollTip, PollAsk, PollSkip, PollQuorum, PollFail,
         PollRoundEnds, tables
<1>8. RefreshTip \/ Restart \/ MineBlock \/ Tick \/ (\E n \in Nodes : Suspend(n)) =>
         UNCHANGED proofs
  BY DEF RefreshTip, Restart, MineBlock, Tick, Suspend, tables
<1> QED BY <1>1, <1>2, <1>3, <1>4, <1>5, <1>6, <1>7, <1>8 DEF Next, vars

(* No submission, poll, failure or restart rewrites a proof row: a pending  *)
(* or rejected claim stays so, and a credit is never taken back.            *)
THEOREM ProofRowsAreFinal == Spec => RowsAreFinal
<1>1. TypeOK /\ [Next]_vars => [\A k \in Keys : RowKept(k)]_vars
  BY RowsKept
<1>2. Spec => [][\A k \in Keys : RowKept(k)]_vars
  BY <1>1, IntakeTypeCorrect, PTL DEF Spec
<1> QED BY <1>2 DEF RowsAreFinal, RowKept

\* RepliesAreTrue, of one request.
ReplyTrue(h) ==
    LET row == proofs[KeyOf(sub[h].req)] IN
    /\ sub[h].reply = "accepted" => row.verdict = "accepted" /\ row.credits = 1
    /\ sub[h].reply \in {"pending", "rejected"} =>
          row.verdict = sub[h].reply /\ row.points = 0 /\ row.credits = 0
    /\ sub[h].reply = "duplicate" => row.verdict # "none"

\* The claim of h has no verdict that another request was told.
Unanswered(h) ==
    \A g \in Handlers :
       g # h /\ sub[g].reply \in Verdicts => KeyOf(sub[g].req) # KeyOf(sub[h].req)

LEMMA ReplyStaysTrue ==
    ASSUME TypeOK, TypeOK', CreditInv', NEW h \in Handlers, ReplyTrue(h),
           sub'[h].req = sub[h].req, sub'[h].reply = sub[h].reply,
           \A k \in Keys : RowKept(k)
    PROVE  ReplyTrue(h)'
<1> DEFINE k == KeyOf(sub[h].req)
<1>1. k \in Keys /\ KeyOf(sub'[h].req) = k
  BY KeyOfType DEF TypeOK, Handling
<1>2. RowKept(k) /\ proofs'[k].credits \in Nat /\ proofs[k].credits \in Nat
  BY <1>1 DEF TypeOK, Rows
<1>3. /\ proofs'[k].verdict # "accepted" => proofs'[k].credits = 0 /\ proofs'[k].points = 0
      /\ proofs'[k].credits <= 1
  BY <1>1 DEF CreditInv
<1> HIDE DEF k
<1>4. /\ sub[h].reply = "accepted" => proofs[k].verdict = "accepted" /\ proofs[k].credits = 1
      /\ sub[h].reply \in {"pending", "rejected"} => proofs[k].verdict = sub[h].reply
      /\ sub[h].reply = "duplicate" => proofs[k].verdict # "none"
  BY DEF ReplyTrue, k
<1>5. /\ sub'[h].reply = "accepted" =>
            proofs'[k].verdict = "accepted" /\ proofs'[k].credits = 1
      /\ sub'[h].reply \in {"pending", "rejected"} =>
            /\ proofs'[k].verdict = sub'[h].reply
            /\ proofs'[k].points = 0 /\ proofs'[k].credits = 0
      /\ sub'[h].reply = "duplicate" => proofs'[k].verdict # "none"
  BY <1>2, <1>3, <1>4 DEF RowKept
<1> QED BY <1>1, <1>5 DEF ReplyTrue

\* The verdict InsertProof tells is the row it has just written.
LEMMA InsertReply ==
    ASSUME TypeOK, TypeOK', CreditInv, CreditInv', RepliesAreTrue,
           NEW h \in Handlers, InsertProof(h)
    PROVE  /\ sub'[h].pc = "done" => ReplyTrue(h)'
           /\ sub'[h].reply \in Verdicts /\ sub'[h].pc = "done" => Unanswered(h)
<1> DEFINE k == KeyOf(sub[h].req)
           v == sub[h].verdict
<1>0. k \in Keys /\ v \in Verdicts
  BY KeyOfType DEF TypeOK, Handling
<1>1. CASE ~Inserted(k)
  <2>1. Reply(h, "duplicate") /\ proofs' = proofs
    BY <1>1 DEF InsertProof, TryInsertProof, Inserted
  <2>2. proofs[k].verdict # "none"
    BY <1>0, <1>1 DEF CreditInv, Inserted
  <2>3. sub'[h].reply = "duplicate" /\ sub'[h].req = sub[h].req
    BY <2>1, ReplyRecord
  <2> QED BY <2>1, <2>2, <2>3 DEF ReplyTrue, Verdicts
<1>2. CASE Inserted(k) /\ v = "accepted"
  <2>1. sub' = [sub EXCEPT ![h] = [sub[h] EXCEPT !.pc = "apply"]]
    BY <1>2 DEF InsertProof
  <2>2. sub'[h].pc = "apply"
    BY <2>1 DEF TypeOK, Handling
  <2> QED BY <2>2
<1>3. CASE Inserted(k) /\ v # "accepted"
  <2>1. /\ Reply(h, v)
        /\ proofs' = [proofs EXCEPT ![k] = [verdict |-> v, points |-> sub[h].award,
                                            credits |-> 0]]
    BY <1>3 DEF InsertProof, TryInsertProof, Inserted
  <2>2. sub'[h].reply = v /\ sub'[h].req = sub[h].req
    BY <2>1, ReplyRecord
  <2>3. proofs'[k].verdict = v
    BY <1>0, <2>1 DEF TypeOK
  <2>4. proofs'[k].points = 0 /\ proofs'[k].credits = 0
    BY <1>0, <1>3, <2>3 DEF CreditInv
  <2>5. ReplyTrue(h)'
    BY <1>0, <1>3, <2>2, <2>3, <2>4 DEF ReplyTrue, Verdicts
  <2>6. proofs[k].verdict = "none"
    BY <1>3 DEF Inserted, NoRow
  <2>7. Unanswered(h)
    BY <2>6 DEF Unanswered, RepliesAreTrue, Verdicts
  <2> QED BY <2>5, <2>7
<1> QED BY <1>1, <1>2, <1>3

LEMMA ApplyReply ==
    ASSUME TypeOK, CreditInv, RepliesAreTrue, NEW h \in Handlers, Apply(h)
    PROVE  ReplyTrue(h)' /\ Unanswered(h)
<1> DEFINE k == KeyOf(sub[h].req)
<1>1. Due(k, sub[h].award) /\ k \in Keys
  BY KeyOfType DEF CreditInv, Apply, TypeOK, Handling
<1>2. proofs'[k] = [proofs[k] EXCEPT !.credits = 1]
  BY <1>1 DEF Apply, ApplyProofAcceptance, TypeOK, Due
<1>3. proofs'[k].verdict = "accepted" /\ proofs'[k].credits = 1
  BY <1>1, <1>2 DEF Due, TypeOK, Rows
<1>4. sub'[h].reply = "accepted" /\ sub'[h].req = sub[h].req
  BY ReplyRecord DEF Apply
<1>5. ReplyTrue(h)'
  BY <1>3, <1>4 DEF ReplyTrue
<1>6. proofs[k].verdict = "accepted" /\ proofs[k].credits = 0
  BY <1>1 DEF Due
<1>7. Unanswered(h)
  BY <1>6 DEF Unanswered, RepliesAreTrue, Verdicts
<1> QED BY <1>5, <1>7

ReplyInv == NonceInv /\ RepliesAreTrue /\ OneVerdictPerClaim

LEMMA ReplySubmit ==
    ASSUME TypeOK, TypeOK', CreditInv, CreditInv', ReplyInv,
           NEW h \in Handlers, Submit(h)
    PROVE  RepliesAreTrue' /\ OneVerdictPerClaim'
<1>1. \A g \in Handlers : g # h => sub'[g] = sub[g]
  BY SubmitSteps
<1>2. \A k \in Keys : RowKept(k)
  BY RowsKept DEF Next
<1>3. \A g \in Handlers : ReplyTrue(g)
  BY DEF ReplyInv, RepliesAreTrue, ReplyTrue
<1>4. \A g \in Handlers : g # h => ReplyTrue(g)'
  BY <1>1, <1>2, <1>3, ReplyStaysTrue
<1>5. sub[h].pc # "done" => sub[h].reply = "none"
  BY DEF ReplyInv, NonceInv
<1>6. /\ ReplyTrue(h)'
      /\ sub'[h].reply \in Verdicts => sub'[h].req = sub[h].req /\ Unanswered(h)
  <2>1. CASE InsertProof(h)
    <3>0. sub[h].pc = "insert"
      BY <2>1 DEF InsertProof
    <3>1. sub'[h].req = sub[h].req /\ (sub'[h].pc # "done" => sub'[h].reply = "none")
      BY <3>0, NonceTaken, SubmitSteps DEF ReplyInv
    <3>2. CASE sub'[h].pc = "done"
      BY <2>1, <3>1, <3>2, InsertReply DEF ReplyInv
    <3>3. CASE sub'[h].pc # "done"
      BY <3>1, <3>3 DEF ReplyTrue, Verdicts
    <3> QED BY <3>2, <3>3
  <2>2. CASE Apply(h)
    <3>1. sub'[h].req = sub[h].req
      BY <2>2, ReplyRecord DEF Apply
    <3> QED BY <2>2, <3>1, ApplyReply DEF ReplyInv
  <2>3. CASE ~InsertProof(h) /\ ~Apply(h)
    <3>1. sub'[h].reply \in {"none", "forbidden", "refused", "nonce_used", "far_behind", "failed"}
      BY <1>5, <2>3, SubmitSteps
    <3> QED BY <3>1 DEF ReplyTrue, Verdicts
  <2> QED BY <2>1, <2>2, <2>3
<1>7. RepliesAreTrue'
  BY <1>4, <1>6 DEF RepliesAreTrue, ReplyTrue
<1>8. OneVerdictPerClaim'
  <2> SUFFICES ASSUME NEW f \in Handlers, NEW g \in Handlers,
                      sub'[f].reply \in Verdicts, sub'[g].reply \in Verdicts,
                      KeyOf(sub'[f].req) = KeyOf(sub'[g].req), f # g
               PROVE  FALSE
    BY DEF OneVerdictPerClaim
  <2>1. CASE f = h
    BY <1>1, <1>6, <2>1 DEF Unanswered
  <2>2. CASE g = h
    BY <1>1, <1>6, <2>2 DEF Unanswered
  <2>3. CASE f # h /\ g # h
    BY <1>1, <2>3 DEF ReplyInv, OneVerdictPerClaim
  <2> QED BY <2>1, <2>2, <2>3
<1> QED BY <1>7, <1>8

LEMMA ReplyNext ==
    TypeOK /\ TypeOK' /\ CreditInv /\ CreditInv' /\ ReplyInv /\ [Next]_vars => ReplyInv'
<1> SUFFICES ASSUME TypeOK, TypeOK', CreditInv, CreditInv', ReplyInv, [Next]_vars
             PROVE  ReplyInv'
  OBVIOUS
<1>1. NonceInv'
  BY NonceNext DEF ReplyInv
<1>2. ASSUME NEW h \in Handlers, Submit(h)
      PROVE  RepliesAreTrue' /\ OneVerdictPerClaim'
  BY <1>2, ReplySubmit
<1>3. CASE \A h \in Handlers : \/ sub'[h] = sub[h]
                               \/ sub'[h].reply = "failed" /\ sub'[h].req = sub[h].req
  <2>1. \A k \in Keys : RowKept(k)
    BY RowsKept
  <2>2. \A h \in Handlers : ReplyTrue(h)
    BY DEF ReplyInv, RepliesAreTrue, ReplyTrue
  <2>3. ASSUME NEW h \in Handlers PROVE ReplyTrue(h)'
    <3>1. CASE sub'[h] = sub[h]
      BY <2>1, <2>2, <3>1, ReplyStaysTrue
    <3>2. CASE sub'[h].reply = "failed"
      BY <3>2 DEF ReplyTrue
    <3> QED BY <1>3, <3>1, <3>2
  <2>4. RepliesAreTrue'
    BY <2>3 DEF RepliesAreTrue, ReplyTrue
  <2>5. \A h \in Handlers : sub'[h].reply \in Verdicts => sub'[h] = sub[h]
    BY <1>3 DEF Verdicts
  <2>6. OneVerdictPerClaim
    BY DEF ReplyInv
  <2>7. OneVerdictPerClaim'
    <3> SUFFICES ASSUME NEW f \in Handlers, NEW g \in Handlers,
                        sub'[f].reply \in Verdicts, sub'[g].reply \in Verdicts,
                        KeyOf(sub'[f].req) = KeyOf(sub'[g].req)
                 PROVE  f = g
      BY DEF OneVerdictPerClaim
    <3> QED BY <2>5, <2>6 DEF OneVerdictPerClaim
  <2> QED BY <1>1, <2>4, <2>7 DEF ReplyInv
<1>4. Restart \/ UNCHANGED sub =>
         \A h \in Handlers : \/ sub'[h] = sub[h]
                             \/ sub'[h].reply = "failed" /\ sub'[h].req = sub[h].req
  BY RestartStep
<1> QED BY <1>1, <1>2, <1>3, <1>4, OtherSteps DEF ReplyInv, Next, vars

LEMMA ReplyInit == Init => ReplyInv
<1>1. Init => RepliesAreTrue /\ OneVerdictPerClaim
  BY DEF Init, RepliesAreTrue, OneVerdictPerClaim, Verdicts
<1> QED BY <1>1, NonceInit DEF ReplyInv

LEMMA ReplyInvariant == Spec => []ReplyInv
BY ReplyInit, ReplyNext, IntakeTypeCorrect, CreditInvariant, PTL DEF Spec

(* What an operator is told is what the tables hold, for as long as the     *)
(* tables live: an accepted proof is on file and paid for exactly once.     *)
THEOREM RepliesTellTheTables == Spec => []RepliesAreTrue
<1>1. ReplyInv => RepliesAreTrue
  BY DEF ReplyInv
<1> QED BY <1>1, ReplyInvariant, PTL

(* Of the requests that race for one (node, height, hash), at most one is   *)
(* told a verdict.                                                          *)
THEOREM ClaimsGetOneVerdict == Spec => []OneVerdictPerClaim
<1>1. ReplyInv => OneVerdictPerClaim
  BY DEF ReplyInv
<1> QED BY <1>1, ReplyInvariant, PTL

-----------------------------------------------------------------------------
(* The chain *)

\* Which statements write rows, and what they need to be true of the chain.
LEMMA VerdictInsert ==
    ASSUME TypeOK, VerdictInv, Strict, NEW k \in Keys, NEW v, NEW a,
           v = "accepted" => OnChain(k),
           TryInsertProof(k, v, a), UNCHANGED chainTip
    PROVE  \A j \in Keys : proofs'[j].verdict = "accepted" => OnChain(j)'
<1> SUFFICES ASSUME NEW j \in Keys, proofs'[j].verdict = "accepted" PROVE OnChain(j)
  BY DEF OnChain
<1>1. CASE j = k /\ proofs[k] = NoRow
  BY <1>1 DEF TryInsertProof, TypeOK
<1>2. CASE ~(j = k /\ proofs[k] = NoRow)
  <2>1. proofs'[j] = proofs[j]
    BY <1>2 DEF TryInsertProof, TypeOK
  <2> QED BY <2>1 DEF VerdictInv
<1> QED BY <1>1, <1>2

LEMMA VerdictKept ==
    ASSUME TypeOK, TypeOK', VerdictInv, Strict, chainTip' \in Nat, chainTip \in Nat,
           chainTip <= chainTip', \A k \in Keys : proofs'[k].verdict = proofs[k].verdict
    PROVE  \A j \in Keys : proofs'[j].verdict = "accepted" => OnChain(j)'
<1> SUFFICES ASSUME NEW j \in Keys, proofs'[j].verdict = "accepted" PROVE OnChain(j)'
  OBVIOUS
<1>1. OnChain(j) /\ j.height \in Nat
  BY IntakeAssumption DEF VerdictInv, Keys
<1> QED BY <1>1 DEF OnChain

\* Apply changes no verdict.
LEMMA ApplyVerdicts ==
    ASSUME TypeOK, NEW k \in Keys, NEW a, NEW at, ApplyProofAcceptance(k, a, at)
    PROVE  \A j \in Keys : proofs'[j].verdict = proofs[j].verdict
<1>1. /\ proofs'[k] = [proofs[k] EXCEPT !.credits = proofs[k].credits + 1]
      /\ \A j \in Keys : j # k => proofs'[j] = proofs[j]
  BY DEF ApplyProofAcceptance, TypeOK
<1>2. proofs[k] \in Rows
  BY DEF TypeOK
<1> QED BY <1>1, <1>2 DEF Rows

LEMMA VerifyOnChain ==
    ASSUME TypeOK, Strict, NEW h \in Handlers, Verify(h), sub'[h].verdict = "accepted"
    PROVE  OnChain(KeyOf(sub[h].req))
<1> DEFINE r == sub[h].req
<1>1. PICK answer \in QuorumAnswers(r.height) :
         LET v == SubmissionVerdict(r, sub[h].tip, answer) IN
         sub' = [sub EXCEPT ![h] =
                   [sub[h] EXCEPT !.pc = "insert", !.verdict = v,
                             !.award = IF v = "accepted"
                                       THEN AwardFor(r, sub[h].tip) ELSE 0]]
  BY DEF Verify, TypeOK
<1>2. sub[h] \in Handling
  BY DEF TypeOK
<1>3. SubmissionVerdict(r, sub[h].tip, answer) = "accepted"
  BY <1>1, <1>2 DEF TypeOK, Handling
<1>4. answer # None /\ BlockOf[r.hash] = answer
  BY <1>3 DEF SubmissionVerdict
<1>5. r.height <= chainTip /\ answer = Chain[r.height]
  BY <1>1, <1>4 DEF QuorumAnswers
<1> QED BY <1>4, <1>5 DEF OnChain, KeyOf

LEMMA PollOnChain ==
    ASSUME TypeOK, PollQuorum, poll'.pc = "insert", poll'.verdict = "accepted"
    PROVE  OnChain(poll'.key)
<1>1. PICK answer \in QuorumAnswers(poll.key.height) :
         IF answer = None
         THEN poll' = NodeDone(poll)
         ELSE \E a, at : poll' = [poll EXCEPT !.pc = "insert",
                        !.verdict = IF BlockOf[poll.key.hash] = answer
                                    THEN "accepted" ELSE "rejected",
                        !.at = at, !.award = a]
  BY DEF PollQuorum
<1>2. answer # None
  <2>1. NodeDone(poll).pc = "ask"
    BY DEF NodeDone
  <2> QED BY <1>1, <2>1
<1>3. poll \in Polling
  BY DEF TypeOK
<1>4. poll'.key = poll.key /\ BlockOf[poll.key.hash] = answer
  BY <1>1, <1>2, <1>3 DEF Polling
<1>5. poll.key.height <= chainTip /\ answer = Chain[poll.key.height]
  BY <1>1, <1>2 DEF QuorumAnswers
<1> QED BY <1>4, <1>5 DEF OnChain

LEMMA VerdictSubmit ==
    ASSUME TypeOK, TypeOK', VerdictInv, Strict, NEW h \in Handlers, Submit(h)
    PROVE  VerdictInv'
<1>0. /\ KeyOf(sub[h].req) \in Keys
      /\ \A g \in Handlers : g # h => sub'[g] = sub[g]
      /\ poll' = poll
  BY SubmitSteps, KeyOfType DEF TypeOK, Handling
<1>1. UNCHANGED <<chainTip>>
  BY DEF Submit, Receive, Lookup, Refuse, UseNonce, ReadTip, Verify, InsertProof, Apply,
         Fail, env
<1>2. chainTip \in Nat
  BY IntakeAssumption DEF TypeOK
<1>3. \A k \in Keys : proofs'[k].verdict = "accepted" => OnChain(k)'
  <2>1. CASE InsertProof(h)
    <3>1. /\ sub[h].verdict = "accepted" => OnChain(KeyOf(sub[h].req))
          /\ TryInsertProof(KeyOf(sub[h].req), sub[h].verdict, sub[h].award)
      BY <2>1 DEF InsertProof, VerdictInv
    <3> QED BY <1>0, <1>1, <3>1, VerdictInsert
  <2>2. CASE Apply(h)
    <3>1. \A k \in Keys : proofs'[k].verdict = proofs[k].verdict
      BY <1>0, <2>2, ApplyVerdicts DEF Apply
    <3> QED BY <1>1, <1>2, <3>1, VerdictKept
  <2>3. CASE ~InsertProof(h) /\ ~Apply(h)
    <3>1. UNCHANGED proofs
      BY <2>3 DEF Submit, Receive, Lookup, Refuse, UseNonce, ReadTip, Verify, Fail, tables
    <3> QED BY <1>1, <1>2, <3>1, VerdictKept
  <2> QED BY <2>1, <2>2, <2>3
<1>4. ASSUME sub'[h].pc = "insert", sub'[h].verdict = "accepted"
      PROVE  OnChain(KeyOf(sub'[h].req))
  <2>1. Verify(h) \/ ReadTip(h)
    BY <1>4, SubmitSteps
  <2>2. sub[h] \in Handling
    BY DEF TypeOK
  <2>3. Verify(h)
    BY <1>4, <2>1, <2>2 DEF ReadTip, TypeOK, Handling
  <2>4. sub[h].pc = "verify"
    BY <2>3 DEF Verify
  <2>5. sub'[h].req = sub[h].req
    BY <2>4, SubmitSteps
  <2> QED BY <1>4, <2>3, <2>5, VerifyOnChain
<1>5. \A g \in Handlers :
         sub'[g].pc = "insert" /\ sub'[g].verdict = "accepted" => OnChain(KeyOf(sub'[g].req))
  BY <1>0, <1>4 DEF VerdictInv
<1> QED BY <1>0, <1>1, <1>3, <1>5 DEF VerdictInv, OnChain

LEMMA VerdictPoll ==
    ASSUME TypeOK, TypeOK', VerdictInv, Strict, Poll
    PROVE  VerdictInv'
<1>0. poll \in Polling /\ poll.key \in Keys /\ chainTip \in Nat
  BY IntakeAssumption DEF TypeOK, Polling
<1>1. UNCHANGED <<chainTip, sub>>
  BY DEF Poll, PollList, PollTip, PollAsk, PollSkip, PollQuorum, PollInsert, PollApply,
         PollFail, PollRoundEnds, env
<1>2. \A k \in Keys : proofs'[k].verdict = "accepted" => OnChain(k)'
  <2>1. CASE PollInsert
    <3>1. /\ poll.verdict = "accepted" => OnChain(poll.key)
          /\ TryInsertProof(poll.key, poll.verdict, poll.award)
      BY <2>1 DEF PollInsert, VerdictInv
    <3> QED BY <1>0, <1>1, <3>1, VerdictInsert
  <2>2. CASE PollApply
    <3>1. \A k \in Keys : proofs'[k].verdict = proofs[k].verdict
      BY <1>0, <2>2, ApplyVerdicts DEF PollApply
    <3> QED BY <1>0, <1>1, <3>1, VerdictKept
  <2>3. CASE ~PollInsert /\ ~PollApply
    <3>1. UNCHANGED proofs
      BY <2>3 DEF Poll, PollList, PollTip, PollAsk, PollSkip, PollQuorum, PollFail,
                  PollRoundEnds, tables
    <3> QED BY <1>0, <1>1, <3>1, VerdictKept
  <2> QED BY <2>1, <2>2, <2>3
<1>3. ASSUME poll'.pc = "insert", poll'.verdict = "accepted" PROVE OnChain(poll'.key)
  <2>1. CASE PollQuorum
    BY <1>3, <2>1, PollOnChain
  <2>2. CASE ~PollQuorum
    <3>1. NodeDone(poll).pc = "ask" /\ RoundOver.pc = "idle"
      BY DEF NodeDone, RoundOver
    <3>2. poll'.pc # "insert"
      BY <1>0, <2>2, <3>1 DEF Poll, PollList, PollTip, PollAsk, PollSkip, PollInsert,
                              PollApply, PollFail, PollRoundEnds, Polling
    <3> QED BY <1>3, <3>2
  <2> QED BY <2>1, <2>2
<1> QED BY <1>1, <1>2, <1>3 DEF VerdictInv, OnChain

LEMMA VerdictNext == TypeOK /\ TypeOK' /\ VerdictInv /\ [Next]_vars => VerdictInv'
<1> SUFFICES ASSUME TypeOK, TypeOK', VerdictInv, [Next]_vars, Strict PROVE VerdictInv'
  BY DEF VerdictInv
<1>1. ASSUME UNCHANGED proofs, chainTip' \in Nat, chainTip <= chainTip',
             \A h \in Handlers : sub'[h].pc = "insert" => sub'[h] = sub[h],
             poll'.pc = "insert" => poll' = poll
      PROVE  VerdictInv'
  <2>1. chainTip \in Nat
    BY IntakeAssumption DEF TypeOK
  <2>2. \A k \in Keys : proofs'[k].verdict = "accepted" => OnChain(k)'
    BY <1>1, <2>1, VerdictKept
  <2>3. ASSUME NEW k \in Keys, OnChain(k) PROVE OnChain(k)'
    <3>1. k.height \in Nat
      BY IntakeAssumption DEF Keys
    <3> QED BY <1>1, <2>1, <2>3, <3>1 DEF OnChain
  <2>4. poll.key \in Keys /\ \A h \in Handlers : KeyOf(sub[h].req) \in Keys
    BY KeyOfType DEF TypeOK, Handling, Polling
  <2>5. \A h \in Handlers : sub'[h].pc = "insert" /\ sub'[h].verdict = "accepted" =>
           OnChain(KeyOf(sub[h].req))' /\ sub'[h] = sub[h]
    BY <1>1, <2>3, <2>4 DEF VerdictInv
  <2>6. poll'.pc = "insert" /\ poll'.verdict = "accepted" => OnChain(poll.key)' /\ poll' = poll
    BY <1>1, <2>3, <2>4 DEF VerdictInv
  <2> QED BY <2>2, <2>5, <2>6 DEF VerdictInv, OnChain
<1>2. chainTip \in Nat
  BY IntakeAssumption DEF TypeOK
<1>3. CASE UNCHANGED vars
  BY <1>1, <1>2, <1>3 DEF vars
<1>4. CASE RefreshTip \/ Tick \/ (\E n \in Nodes : Suspend(n))
  <2>1. UNCHANGED <<proofs, sub, poll, chainTip>>
    BY <1>4 DEF RefreshTip, Tick, Suspend, tables, env
  <2> QED BY <1>1, <1>2, <2>1
<1>5. CASE MineBlock
  <2>1. UNCHANGED <<proofs, sub, poll>> /\ chainTip' = chainTip + 1
    BY <1>5 DEF MineBlock, tables
  <2> QED BY <1>1, <1>2, <2>1
<1>6. CASE Restart
  <2>1. UNCHANGED <<proofs, chainTip>> /\ poll' = RoundOver /\ RoundOver.pc = "idle"
    BY <1>6 DEF Restart, tables, env, RoundOver
  <2>2. \A h \in Handlers : sub'[h].pc = "insert" => sub'[h] = sub[h]
    BY <1>6, RestartStep
  <2> QED BY <1>1, <1>2, <2>1, <2>2
<1> QED BY <1>3, <1>4, <1>5, <1>6, VerdictSubmit, VerdictPoll DEF Next

LEMMA VerdictInvariant == Spec => []VerdictInv
<1>1. Init => VerdictInv
  BY DEF Init, VerdictInv, NoRow, RoundOver
<1> QED BY <1>1, VerdictNext, IntakeTypeCorrect, PTL DEF Spec

(* With a quorum configured, only claims that name the block the chain has  *)
(* at their height are ever on file as accepted - whatever tip was cached,  *)
(* however long the handler waited, and wherever it was cut off.            *)
THEOREM AcceptedClaimsAreOnChain == Spec => []AcceptedIsOnChain
<1>1. VerdictInv => AcceptedIsOnChain
  BY DEF VerdictInv, OnChain, AcceptedIsOnChain
<1> QED BY <1>1, VerdictInvariant, PTL

-----------------------------------------------------------------------------
(* The last proof of a node *)

\* LastProofIsCredited, of one node.
LastCredited(n) ==
    nodes[n].lastHeight # None =>
       /\ nodes[n].lastHash # None
       /\ proofs[[node |-> n, height |-> nodes[n].lastHeight,
                  hash |-> nodes[n].lastHash]].credits = 1

\* A credited row stays credited, once.
LEMMA CreditKept ==
    ASSUME TypeOK, TypeOK', CreditInv, CreditInv', [Next]_vars,
           NEW k \in Keys, proofs[k].credits = 1
    PROVE  proofs'[k].credits = 1
<1>1. proofs[k].verdict # "none" /\ RowKept(k)
  BY RowsKept DEF CreditInv
<1>2. proofs'[k].credits \in Nat /\ proofs'[k].credits <= 1 /\ proofs'[k].credits >= 1
  BY <1>1 DEF RowKept, CreditInv, TypeOK, Rows
<1> QED BY <1>2

\* A node whose two columns are untouched shows what it showed.
LEMMA LastKept ==
    ASSUME TypeOK, TypeOK', CreditInv, CreditInv', [Next]_vars,
           NEW n \in Nodes, LastCredited(n),
           nodes'[n].lastHeight = nodes[n].lastHeight, nodes'[n].lastHash = nodes[n].lastHash
    PROVE  LastCredited(n)'
<1> DEFINE k == [node |-> n, height |-> nodes[n].lastHeight, hash |-> nodes[n].lastHash]
<1> SUFFICES ASSUME nodes[n].lastHeight # None
             PROVE  nodes[n].lastHash # None /\ proofs'[k].credits = 1
  BY DEF LastCredited
<1>1. nodes[n].lastHash # None /\ proofs[k].credits = 1
  BY DEF LastCredited
<1>2. k \in Keys
  BY <1>1 DEF TypeOK, NodeRows, OptHeight, Keys
<1> QED BY <1>1, <1>2, CreditKept

LEMMA LastApply ==
    ASSUME TypeOK, TypeOK', CreditInv, CreditInv', [Next]_vars,
           \A n \in Nodes : LastCredited(n),
           NEW k \in Keys, NEW a, NEW at, Due(k, a), ApplyProofAcceptance(k, a, at)
    PROVE  \A n \in Nodes : LastCredited(n)'
<1>0. k.node \in Nodes /\ k.height \in Heights /\ k.hash \in Hashes
      /\ k = [node |-> k.node, height |-> k.height, hash |-> k.hash]
  BY DEF Keys
<1>1. nodes'[k.node].lastHeight = k.height /\ nodes'[k.node].lastHash = k.hash
  BY <1>0 DEF ApplyProofAcceptance, TypeOK
<1>2. proofs'[k].credits = 1
  <2>1. proofs'[k] = [proofs[k] EXCEPT !.credits = 1]
    BY DEF ApplyProofAcceptance, TypeOK, Due
  <2> QED BY <2>1 DEF TypeOK, Rows
<1>3. LastCredited(k.node)'
  BY <1>0, <1>1, <1>2, IntakeAssumption DEF LastCredited
<1>4. ASSUME NEW n \in Nodes, n # k.node PROVE LastCredited(n)'
  <2>1. nodes'[n] = nodes[n]
    BY <1>4 DEF ApplyProofAcceptance, TypeOK
  <2> QED BY <2>1, LastKept
<1> QED BY <1>3, <1>4

LEMMA LastNext ==
    /\ TypeOK /\ TypeOK' /\ CreditInv /\ CreditInv' /\ LastProofIsCredited
    /\ [Next]_vars
    => LastProofIsCredited'
<1> SUFFICES ASSUME TypeOK, TypeOK', CreditInv, CreditInv', LastProofIsCredited, [Next]_vars
             PROVE  \A n \in Nodes : LastCredited(n)'
  BY DEF LastProofIsCredited, LastCredited
<1>0. /\ \A n \in Nodes : LastCredited(n)
      /\ poll.key \in Keys
      /\ \A h \in Handlers : KeyOf(sub[h].req) \in Keys
  BY KeyOfType DEF LastProofIsCredited, LastCredited, TypeOK, Polling, Handling
<1>1. ASSUME NEW h \in Handlers, Apply(h) PROVE \A n \in Nodes : LastCredited(n)'
  BY <1>0, <1>1, LastApply DEF Apply, CreditInv
<1>2. CASE PollApply
  BY <1>0, <1>2, LastApply DEF PollApply, CreditInv
<1>3. ASSUME NEW m \in Nodes, Suspend(m) PROVE \A n \in Nodes : LastCredited(n)'
  <2>1. \A n \in Nodes : /\ nodes'[n].lastHeight = nodes[n].lastHeight
                         /\ nodes'[n].lastHash = nodes[n].lastHash
    <3>1. \A n \in Nodes : nodes[n] \in NodeRows
      BY DEF TypeOK
    <3>2. nodes' = [nodes EXCEPT ![m] = [nodes[m] EXCEPT !.status = "suspended"]]
      BY <1>3 DEF Suspend, TypeOK
    <3> QED BY <3>1, <3>2 DEF NodeRows, TypeOK
  <2> QED BY <1>0, <2>1, LastKept
<1>4. CASE UNCHANGED nodes
  BY <1>0, <1>4, LastKept
<1>5. ASSUME NEW h \in Handlers, Submit(h), ~Apply(h) PROVE UNCHANGED nodes
  BY <1>5 DEF Submit, Receive, Lookup, Refuse, UseNonce, ReadTip, Verify, InsertProof,
              Fail, tables
<1>6. Poll => PollApply \/ UNCHANGED nodes
  BY DEF Poll, PollList, PollTip, PollAsk, PollSkip, PollQuorum, PollInsert, PollFail,
         PollRoundEnds, tables
<1>7. RefreshTip \/ Restart \/ MineBlock \/ Tick => UNCHANGED nodes
  BY DEF RefreshTip, Restart, MineBlock, Tick, tables
<1> QED BY <1>1, <1>2, <1>3, <1>4, <1>5, <1>6, <1>7 DEF Next, vars

(* The height and hash a node shows come from one proof, which is its own   *)
(* and was paid - whichever of the submit handlers and the poller wrote the *)
(* row last, and in whatever order.                                         *)
THEOREM NodesShowTheirProofs == Spec => []LastProofIsCredited
<1>1. Init => LastProofIsCredited
  BY DEF Init, LastProofIsCredited
<1> QED BY <1>1, LastNext, IntakeTypeCorrect, CreditInvariant, PTL DEF Spec
=============================================================================
