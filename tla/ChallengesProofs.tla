-------------------------- MODULE ChallengesProofs --------------------------
(***************************************************************************)
(* Theorems about Challenges, for any number of challenges, answers and    *)
(* nonces: the row of a challenge only ever goes from open to resolved,    *)
(* and what answers are paid is backed by it.                              *)
(***************************************************************************)
EXTENDS Challenges, FiniteSetTheorems, TLAPS

-----------------------------------------------------------------------------
(* Shapes *)

Asking == [pc : {"idle", "hash", "done"}, node : Nodes \cup {None}, tip : Tips \cup {None}]
Answering == [pc : Steps, req : Answers, reply : Replies]

LEMMA TypeSplit ==
    TypeOK <=> /\ challenges \in [Challenges -> Rows]
               /\ usedNonces \subseteq Nonces
               /\ points \in [Nodes -> Nat]
               /\ ask \in [Challenges -> Asking]
               /\ ans \in [Handlers -> Answering]
               /\ now \in 0 .. MaxTime
BY DEF TypeOK, Asking, Answering

\* ChallengeDepth::pick never goes back further than the chain.
LEMMA DepthInReach ==
    ASSUME NEW tip \in Tips
    PROVE  tip - PickDepth(tip) \in Nat
<1> DEFINE span == MaxDepth - MinDepth
<1>1. /\ tip \in Nat /\ MinDepth \in Nat /\ MaxDepth \in Nat
      /\ span \in Nat /\ span > 0 /\ span + MinDepth = MaxDepth
  BY ChallengeAssumption
<1>2. CASE tip < MaxDepth
  BY <1>1, <1>2 DEF PickDepth
<1>3. CASE ~(tip < MaxDepth)
  <2>1. tip % span \in 0 .. span - 1
    <3> HIDE DEF span
    <3> QED BY <1>1
  <2>2. PickDepth(tip) = (tip % span) + MinDepth
    BY <1>3 DEF PickDepth
  <2> HIDE DEF span
  <2> QED BY <1>1, <1>3, <2>1, <2>2
<1> QED BY <1>2, <1>3

LEMMA ChallengeTypeInit == Init => TypeOK
<1> SUFFICES ASSUME Init PROVE TypeOK
  OBVIOUS
<1>1. NoRow \in Rows
  BY DEF NoRow, Rows
<1>2. (CHOOSE a \in Answers : TRUE) \in Answers
  <2>1. PICK c \in Challenges, x \in Nonces : TRUE
    BY ChallengeAssumption
  <2>2. [id |-> c, nonce |-> x, right |-> TRUE] \in Answers
    BY DEF Answers
  <2> QED BY <2>2
<1>3. ans \in [Handlers -> Answering]
  BY <1>2 DEF Init, Answering, Steps, Replies
<1>4. ask \in [Challenges -> Asking]
  BY DEF Init, Asking
<1> QED BY <1>1, <1>3, <1>4, ChallengeAssumption, TypeSplit DEF Init

-----------------------------------------------------------------------------
(* What the steps do *)

\* The two ways in which a handler moves on.
LEMMA GoRecord ==
    ASSUME ans \in [Handlers -> Answering], NEW h \in Handlers, NEW pc \in Steps, Go(h, pc)
    PROVE  /\ ans' \in [Handlers -> Answering]
           /\ ans'[h].pc = pc /\ ans'[h].req = ans[h].req /\ ans'[h].reply = ans[h].reply
           /\ \A g \in Handlers : g # h => ans'[g] = ans[g]
BY DEF Go, Answering

LEMMA ReplyRecord ==
    ASSUME ans \in [Handlers -> Answering], NEW h \in Handlers, NEW r \in Replies, Reply(h, r)
    PROVE  /\ ans' \in [Handlers -> Answering]
           /\ ans'[h].pc = "done" /\ ans'[h].req = ans[h].req /\ ans'[h].reply = r
           /\ \A g \in Handlers : g # h => ans'[g] = ans[g]
<1>1. ans' = [ans EXCEPT ![h] = [ans[h] EXCEPT !.pc = "done", !.reply = r]]
  BY DEF Reply
<1>2. [ans[h] EXCEPT !.pc = "done", !.reply = r] \in Answering
  BY DEF Answering, Steps
<1>3. /\ [ans[h] EXCEPT !.pc = "done", !.reply = r].pc = "done"
      /\ [ans[h] EXCEPT !.pc = "done", !.reply = r].reply = r
      /\ [ans[h] EXCEPT !.pc = "done", !.reply = r].req = ans[h].req
  BY DEF Answering
<1> QED BY <1>1, <1>2, <1>3

LEMMA MarkedRow ==
    ASSUME challenges \in [Challenges -> Rows], NEW c \in Challenges, NEW passed \in BOOLEAN,
           MarkAnswered(c, passed)
    PROVE  /\ challenges' \in [Challenges -> Rows]
           /\ challenges'[c].status = "answered" /\ challenges'[c].node = challenges[c].node
           /\ \A d \in Challenges : d # c => challenges'[d] = challenges[d]
<1>1. challenges' = [challenges EXCEPT ![c] =
                       [challenges[c] EXCEPT !.status = "answered", !.passed = passed]]
  BY DEF MarkAnswered
<1>2. [challenges[c] EXCEPT !.status = "answered", !.passed = passed] \in Rows
  BY DEF Rows
<1>3. /\ [challenges[c] EXCEPT !.status = "answered", !.passed = passed].status = "answered"
      /\ [challenges[c] EXCEPT !.status = "answered", !.passed = passed].node = challenges[c].node
  BY DEF Rows
<1> QED BY <1>1, <1>2, <1>3

\* Each step of a submit handler: where it goes, and what it writes.
LEMMA SubmitSteps ==
    ASSUME TypeOK, NEW h \in Handlers, Submit(h)
    PROVE  /\ ans' \in [Handlers -> Answering]
           /\ \A g \in Handlers : g # h => ans'[g] = ans[g]
           /\ UNCHANGED <<ask, now>>
           /\ \/ /\ Receive(h) /\ UNCHANGED tables
                 /\ ans[h].pc = "idle" /\ ans'[h].pc = "read" /\ ans'[h].reply = ans[h].reply
              \/ /\ Read(h) /\ UNCHANGED tables
                 /\ ans[h].pc = "read" /\ ans'[h].req = ans[h].req
                 /\ \/ ans'[h].pc = "done" /\ ans'[h].reply \in {"refused", "resolved"}
                    \/ /\ ans'[h].pc \in {"lapsed", "nonce"} /\ ans'[h].reply = ans[h].reply
                       /\ Row(h).status = "open"
              \/ /\ Lapse(h) /\ UNCHANGED <<usedNonces, points>>
                 /\ ans[h].pc = "lapsed" /\ ans'[h].req = ans[h].req
                 /\ ans'[h].pc = "done" /\ ans'[h].reply = "expired"
                 /\ MarkAnswered(ans[h].req.id, FALSE)
              \/ /\ UseNonce(h) /\ UNCHANGED <<challenges, points>>
                 /\ ans[h].pc = "nonce" /\ ans'[h].req = ans[h].req
                 /\ usedNonces' = usedNonces \cup {ans[h].req.nonce}
                 /\ \/ ans'[h].pc = "done" /\ ans'[h].reply = "nonce_used"
                    \/ /\ ans'[h].pc = "mark" /\ ans'[h].reply = ans[h].reply
                       /\ ans[h].req.nonce \notin usedNonces
              \/ /\ Mark(h) /\ UNCHANGED <<usedNonces, points>>
                 /\ ans[h].pc = "mark" /\ ans'[h].req = ans[h].req
                 /\ MarkAnswered(ans[h].req.id, ans[h].req.right)
                 /\ \/ ans'[h].pc = "done" /\ ans'[h].reply = "wrong"
                    \/ /\ ans'[h].pc = "bonus" /\ ans'[h].reply = ans[h].reply
                       /\ ans[h].req.right
              \/ /\ Bonus(h) /\ UNCHANGED <<challenges, usedNonces>>
                 /\ ans[h].pc = "bonus" /\ ans'[h].req = ans[h].req
                 /\ ans'[h].pc = "done" /\ ans'[h].reply = "passed"
              \/ /\ Refuse(h) \/ Fail(h)
                 /\ UNCHANGED tables
                 /\ ans[h].pc \notin {"idle", "done"} /\ ans'[h].req = ans[h].req
                 /\ ans'[h].pc = "done" /\ ans'[h].reply \in {"refused", "failed"}
<1>0. /\ ans \in [Handlers -> Answering]
      /\ \A pc \in {"lapsed", "nonce", "mark", "bonus"} : pc \in Steps
      /\ {"refused", "resolved", "expired", "nonce_used", "passed", "wrong", "failed"} \subseteq Replies
  BY TypeSplit DEF Steps, Replies
<1>1. CASE Receive(h)
  <2>1. PICK a \in Answers : ans' = [ans EXCEPT ![h].pc = "read", ![h].req = a]
    BY <1>1 DEF Receive
  <2>2. ans' = [ans EXCEPT ![h] = [ans[h] EXCEPT !.pc = "read", !.req = a]]
    BY <2>1
  <2>3. [ans[h] EXCEPT !.pc = "read", !.req = a] \in Answering
    BY <1>0 DEF Answering, Steps
  <2>4. /\ [ans[h] EXCEPT !.pc = "read", !.req = a].pc = "read"
        /\ [ans[h] EXCEPT !.pc = "read", !.req = a].reply = ans[h].reply
    BY <1>0 DEF Answering
  <2> QED BY <1>0, <1>1, <2>2, <2>3, <2>4 DEF Receive
<1>2. CASE Read(h)
  <2>1. \/ Reply(h, "refused") \/ Reply(h, "resolved")
        \/ Row(h).status = "open" /\ (Go(h, "lapsed") \/ Go(h, "nonce"))
    <3>1. Row(h).status \in {"none", "open", "answered", "expired"} /\ Row(h).expires \in Nat
      BY <1>0, TypeSplit DEF Row, Rows, Answering, Answers
    <3>2. now \in Nat
      BY ChallengeAssumption, TypeSplit
    <3>3. Row(h).expires < now \/ Row(h).expires >= now
      BY <3>1, <3>2
    <3>4. CASE Row(h).status = "none"
      BY <1>2, <3>4 DEF Read
    <3>5. CASE Row(h).status \in {"answered", "expired"}
      BY <1>2, <3>5 DEF Read
    <3>6. CASE Row(h).status = "open" /\ Row(h).expires < now
      BY <1>2, <3>6 DEF Read
    <3>7. CASE Row(h).status = "open" /\ ~(Row(h).expires < now)
      BY <1>2, <3>3, <3>7 DEF Read
    <3> QED BY <3>1, <3>4, <3>5, <3>6, <3>7
  <2> QED BY <1>0, <1>2, <2>1, GoRecord, ReplyRecord DEF Read
<1>3. CASE Lapse(h)
  BY <1>0, <1>3, ReplyRecord DEF Lapse
<1>4. CASE Refuse(h) \/ Fail(h)
  BY <1>0, <1>4, ReplyRecord DEF Refuse, Fail
<1>5. CASE UseNonce(h)
  <2>1. \/ Reply(h, "nonce_used")
        \/ Go(h, "mark") /\ ans[h].req.nonce \notin usedNonces
    BY <1>5 DEF UseNonce
  <2> QED BY <1>0, <1>5, <2>1, GoRecord, ReplyRecord DEF UseNonce
<1>6. CASE Mark(h)
  <2>1. \/ Reply(h, "wrong")
        \/ Go(h, "bonus") /\ ans[h].req.right
    BY <1>6 DEF Mark
  <2> QED BY <1>0, <1>6, <2>1, GoRecord, ReplyRecord DEF Mark
<1>7. CASE Bonus(h)
  BY <1>0, <1>7, ReplyRecord DEF Bonus
<1> QED BY <1>1, <1>2, <1>3, <1>4, <1>5, <1>6, <1>7 DEF Submit

\* A restart ends what is under way and nothing else.
LEMMA RestartSteps ==
    ASSUME TypeOK, Restart
    PROVE  /\ ans' \in [Handlers -> Answering] /\ ask' \in [Challenges -> Asking]
           /\ \A h \in Handlers :
                 \/ ans'[h] = ans[h] /\ ans[h].pc \in {"idle", "done"}
                 \/ /\ ans[h].pc \notin {"idle", "done"} /\ ans'[h].req = ans[h].req
                    /\ ans'[h].pc = "done" /\ ans'[h].reply = "failed"
           /\ \A c \in Challenges :
                 \/ ask'[c] = ask[c]
                 \/ ask[c].pc = "hash" /\ ask'[c].pc = "done"
<1>0. ans \in [Handlers -> Answering] /\ ask \in [Challenges -> Asking]
  BY TypeSplit
<1>1. \A h \in Handlers :
         LET a == [ans[h] EXCEPT !.pc = "done", !.reply = "failed"]
         IN  a \in Answering /\ a.pc = "done" /\ a.reply = "failed" /\ a.req = ans[h].req
  BY <1>0 DEF Answering, Steps, Replies
<1>2. \A c \in Challenges :
         LET a == [ask[c] EXCEPT !.pc = "done"] IN a \in Asking /\ a.pc = "done"
  BY <1>0 DEF Asking
<1>3. /\ ans' \in [Handlers -> Answering]
      /\ \A h \in Handlers :
            \/ ans'[h] = ans[h] /\ ans[h].pc \in {"idle", "done"}
            \/ /\ ans[h].pc \notin {"idle", "done"} /\ ans'[h].req = ans[h].req
               /\ ans'[h].pc = "done" /\ ans'[h].reply = "failed"
  BY <1>0, <1>1 DEF Restart
<1>4. /\ ask' \in [Challenges -> Asking]
      /\ \A c \in Challenges : ask'[c] = ask[c] \/ (ask[c].pc = "hash" /\ ask'[c].pc = "done")
  BY <1>0, <1>2 DEF Restart
<1> QED BY <1>3, <1>4

-----------------------------------------------------------------------------
(* The life of a challenge *)

\* Steps of challenge c: none, issued, marked, expired.
Kept(c) == challenges'[c] = challenges[c]
Issued(c) ==
    /\ challenges[c].status = "none" /\ challenges'[c].status = "open"
    /\ challenges'[c].node = ask[c].node /\ ask[c].pc = "hash" /\ ask'[c].pc = "done"
Marked(c) ==
    /\ challenges[c].status # "none" /\ challenges'[c].status = "answered"
    /\ challenges'[c].node = challenges[c].node
Expired(c) ==
    /\ challenges[c].status = "open" /\ challenges'[c].status = "expired"
    /\ challenges'[c].node = challenges[c].node
RowStep(c) == Kept(c) \/ Issued(c) \/ Marked(c) \/ Expired(c)

AskStep(c) ==
    \/ ask'[c] = ask[c]
    \/ /\ ask[c].pc = "idle" /\ ask'[c].pc = "hash"
       /\ ask'[c].node \in Nodes /\ ask'[c].tip \in Tips
    \/ ask[c].pc = "hash" /\ ask'[c].pc = "done"

LEMMA TablesStep ==
    ASSUME TypeOK, RowsAreAsked, AnswersMatchRows, [Next]_vars
    PROVE  /\ challenges' \in [Challenges -> Rows]
           /\ ask' \in [Challenges -> Asking]
           /\ \A c \in Challenges : RowStep(c) /\ AskStep(c)
<1>0. /\ challenges \in [Challenges -> Rows] /\ ask \in [Challenges -> Asking]
      /\ ans \in [Handlers -> Answering] /\ now \in Nat
  BY ChallengeAssumption, TypeSplit
<1>1. ASSUME NEW c \in Challenges, Ask(c)
      PROVE  /\ challenges' = challenges /\ ask' \in [Challenges -> Asking]
             /\ \A d \in Challenges : AskStep(d)
  <2>1. PICK n \in Nodes, t \in Tips :
           ask' = [ask EXCEPT ![c] = [pc |-> "hash", node |-> n, tip |-> t]]
    BY <1>1 DEF Ask
  <2>2. [pc |-> "hash", node |-> n, tip |-> t] \in Asking
    BY DEF Asking
  <2>3. /\ ask'[c] = [pc |-> "hash", node |-> n, tip |-> t]
        /\ \A d \in Challenges : d # c => ask'[d] = ask[d]
    BY <1>0, <2>1
  <2> QED BY <1>0, <1>1, <2>1, <2>2, <2>3 DEF Ask, AskStep, tables
<1>2. ASSUME NEW c \in Challenges, Issue(c) \/ AskFails(c)
      PROVE  /\ ask[c].pc = "hash" /\ ask'[c].pc = "done"
             /\ ask' \in [Challenges -> Asking] /\ \A d \in Challenges : AskStep(d)
  <2>1. ask' = [ask EXCEPT ![c] = [ask[c] EXCEPT !.pc = "done"]] /\ ask[c].pc = "hash"
    BY <1>2 DEF Issue, AskFails
  <2>2. /\ [ask[c] EXCEPT !.pc = "done"] \in Asking
        /\ [ask[c] EXCEPT !.pc = "done"].pc = "done"
    BY <1>0 DEF Asking
  <2> QED BY <1>0, <2>1, <2>2 DEF AskStep
<1>3. ASSUME NEW c \in Challenges, Issue(c)
      PROVE  challenges' \in [Challenges -> Rows] /\ \A d \in Challenges : RowStep(d)
  <2> DEFINE row == [status |-> "open", node |-> ask[c].node,
                     target |-> ask[c].tip - PickDepth(ask[c].tip),
                     expires |-> now + Lifetime, passed |-> None]
  <2>1. /\ challenges' = [challenges EXCEPT ![c] = row]
        /\ ask[c].node \in Nodes /\ ask[c].tip \in Tips /\ challenges[c].status = "none"
    BY <1>2, <1>3 DEF Issue, RowsAreAsked
  <2>2. row \in Rows
    <3>1. ask[c].tip - PickDepth(ask[c].tip) \in Nat
      BY <2>1, DepthInReach
    <3>2. now + Lifetime \in Nat
      BY <1>0, ChallengeAssumption
    <3> QED BY <2>1, <3>1, <3>2 DEF Rows
  <2>3. row.status = "open" /\ row.node = ask[c].node
    OBVIOUS
  <2> HIDE DEF row
  <2>4. Issued(c)
    BY <1>0, <1>2, <1>3, <2>1, <2>3 DEF Issued
  <2>5. \A d \in Challenges : d # c => Kept(d)
    BY <1>0, <2>1 DEF Kept
  <2> QED BY <1>0, <2>1, <2>2, <2>4, <2>5 DEF RowStep
<1>4. ASSUME NEW h \in Handlers, Submit(h)
      PROVE  challenges' \in [Challenges -> Rows] /\ \A d \in Challenges : RowStep(d)
  <2>1. ans[h].req.id \in Challenges /\ ans[h].req.right \in BOOLEAN
    BY <1>0 DEF Answering, Answers
  <2>2. CASE challenges' = challenges
    BY <1>0, <2>2 DEF RowStep, Kept
  <2>3. CASE /\ ans[h].pc \in {"lapsed", "mark"}
             /\ \E passed \in BOOLEAN : MarkAnswered(ans[h].req.id, passed)
    <3>1. challenges[ans[h].req.id].status # "none"
      BY <2>3 DEF AnswersMatchRows, Row
    <3> QED BY <1>0, <2>1, <2>3, <3>1, MarkedRow DEF RowStep, Kept, Marked
  <2> QED BY <1>4, <2>1, <2>2, <2>3, SubmitSteps DEF tables
<1>5. ASSUME ExpireOldChallenges
      PROVE  challenges' \in [Challenges -> Rows] /\ \A d \in Challenges : RowStep(d)
  <2>1. \A d \in Challenges :
           LET row == [challenges[d] EXCEPT !.status = "expired"]
           IN  row \in Rows /\ row.status = "expired" /\ row.node = challenges[d].node
    BY <1>0 DEF Rows
  <2>2. \A d \in Challenges :
           \/ challenges'[d] = challenges[d]
           \/ /\ challenges[d].status = "open"
              /\ challenges'[d] = [challenges[d] EXCEPT !.status = "expired"]
    BY <1>5 DEF ExpireOldChallenges
  <2>3. \A d \in Challenges : RowStep(d)
    BY <2>1, <2>2 DEF RowStep, Kept, Expired
  <2>4. challenges' = [d \in Challenges |-> challenges'[d]]
    BY <1>5 DEF ExpireOldChallenges
  <2> QED BY <1>0, <2>1, <2>2, <2>3, <2>4
<1>6. challenges' = challenges => challenges' \in [Challenges -> Rows] /\ \A c \in Challenges : RowStep(c)
  BY <1>0 DEF RowStep, Kept
<1>7. ask' = ask => ask' \in [Challenges -> Asking] /\ \A c \in Challenges : AskStep(c)
  BY <1>0 DEF AskStep
<1>8. CASE Restart
  <2>1. challenges' = challenges
    BY <1>8 DEF Restart, tables
  <2> QED BY <1>6, <1>8, <2>1, RestartSteps DEF AskStep
<1>9. CASE \E c \in Challenges : Ask(c) \/ Issue(c) \/ AskFails(c)
  BY <1>1, <1>2, <1>3, <1>6, <1>9 DEF AskFails, tables
<1>10. CASE \E h \in Handlers : Submit(h)
  BY <1>4, <1>7, <1>10, SubmitSteps
<1>11. CASE ExpireOldChallenges
  BY <1>5, <1>7, <1>11 DEF ExpireOldChallenges
<1>12. CASE Tick \/ UNCHANGED vars
  BY <1>6, <1>7, <1>12 DEF Tick, tables, vars
<1> QED BY <1>8, <1>9, <1>10, <1>11, <1>12 DEF Next

LEMMA RowsNext ==
    TypeOK /\ RowsAreAsked /\ AnswersMatchRows /\ [Next]_vars => RowsAreAsked'
<1> SUFFICES ASSUME TypeOK, RowsAreAsked, AnswersMatchRows, [Next]_vars,
                    NEW c \in Challenges
             PROVE  /\ ask'[c].pc = "hash" => ask'[c].node \in Nodes /\ ask'[c].tip \in Tips
                    /\ ask'[c].pc # "done" => challenges'[c].status = "none"
                    /\ challenges'[c].status # "none" => challenges'[c].node \in Nodes
  BY DEF RowsAreAsked
<1>1. RowStep(c) /\ AskStep(c)
  BY TablesStep
<1> QED BY <1>1 DEF RowsAreAsked, RowStep, AskStep, Kept, Issued, Marked, Expired

LEMMA ChallengeTypeNext ==
    TypeOK /\ RowsAreAsked /\ AnswersMatchRows /\ [Next]_vars => TypeOK'
<1> SUFFICES ASSUME TypeOK, RowsAreAsked, AnswersMatchRows, [Next]_vars PROVE TypeOK'
  OBVIOUS
<1>0. /\ challenges' \in [Challenges -> Rows] /\ ask' \in [Challenges -> Asking]
      /\ ans \in [Handlers -> Answering] /\ usedNonces \subseteq Nonces
      /\ points \in [Nodes -> Nat] /\ now \in 0 .. MaxTime
  BY TablesStep, TypeSplit
<1>1. CASE \E h \in Handlers : Submit(h)
  <2> PICK h \in Handlers : Submit(h)
    BY <1>1
  <2>1. /\ ans' \in [Handlers -> Answering] /\ now' = now
        /\ ans[h].req.nonce \in Nonces
    BY <1>0, SubmitSteps DEF Answering, Answers
  <2>2. usedNonces' \subseteq Nonces
    BY <1>0, <2>1, SubmitSteps DEF tables
  <2>3. points' \in [Nodes -> Nat]
    <3>1. CASE points' = points
      BY <1>0, <3>1
    <3>2. CASE Bonus(h)
      <4>1. \A n \in Nodes : points[n] + Tier[n] \in Nat
        BY <1>0, ChallengeAssumption
      <4>2. Row(h).node \in Nodes
        <5>1. ans[h].pc = "bonus" /\ ans[h].req.id \in Challenges
          BY <1>0, <3>2 DEF Bonus, Answering, Answers
        <5> QED BY <5>1 DEF AnswersMatchRows, RowsAreAsked, Row
      <4> QED BY <1>0, <3>2, <4>1, <4>2 DEF Bonus
    <3> QED BY <3>1, <3>2, SubmitSteps DEF tables
  <2> QED BY <1>0, <2>1, <2>2, <2>3, TypeSplit DEF TypeOK, Asking, Answering
<1>2. CASE Restart
  BY <1>0, <1>2, RestartSteps DEF Restart, tables, TypeOK, Asking, Answering
<1>3. CASE Tick
  <2>1. now' \in 0 .. MaxTime
    BY <1>0, <1>3, ChallengeAssumption DEF Tick
  <2> QED BY <1>0, <1>3, <2>1 DEF Tick, tables, TypeOK, Asking, Answering
<1>4. CASE \/ \E c \in Challenges : Ask(c) \/ Issue(c) \/ AskFails(c)
           \/ ExpireOldChallenges \/ UNCHANGED vars
  <2>1. UNCHANGED <<usedNonces, points, ans, now>>
    BY <1>4 DEF Ask, Issue, AskFails, ExpireOldChallenges, tables, vars
  <2> QED BY <1>0, <2>1 DEF TypeOK, Asking, Answering
<1> QED BY <1>1, <1>2, <1>3, <1>4 DEF Next

-----------------------------------------------------------------------------
(* The answers *)

\* AnswersMatchRows, of one answer.
Matches(h) ==
    /\ ans[h].reply # "none" => ans[h].pc = "done"
    /\ ans[h].pc \in {"lapsed", "nonce", "mark", "bonus"} => Row(h).status # "none"
    /\ MarkedBy(h) => Row(h).status = "answered"
    /\ ans[h].pc = "bonus" \/ Paid(h) => ans[h].req.right

\* An answer that does nothing still matches, whatever becomes of the rows.
LEMMA MatchStays ==
    ASSUME TypeOK, RowsAreAsked, AnswersMatchRows, [Next]_vars,
           NEW h \in Handlers, ans'[h] = ans[h]
    PROVE  Matches(h)'
<1>1. ans[h].req.id \in Challenges
  BY TypeSplit DEF Answering, Answers
<1>2. /\ challenges[ans[h].req.id].status # "none"
           => challenges'[ans[h].req.id].status # "none"
      /\ challenges[ans[h].req.id].status = "answered"
           => challenges'[ans[h].req.id].status = "answered"
  BY <1>1, TablesStep DEF RowStep, Kept, Issued, Marked, Expired
<1>3. Matches(h)
  BY DEF AnswersMatchRows, Matches
<1> QED BY <1>2, <1>3 DEF Matches, MarkedBy, Paid, Row

\* What the answer that takes a step has marked, if anything.
LEMMA MatchSubmit ==
    ASSUME TypeOK, RowsAreAsked, AnswersMatchRows, NEW h \in Handlers, Submit(h)
    PROVE  Matches(h)'
<1>0. /\ challenges \in [Challenges -> Rows]
      /\ ans[h].req.id \in Challenges /\ ans[h].req.right \in BOOLEAN
  BY TypeSplit DEF Answering, Answers
<1>1. Matches(h)
  BY DEF AnswersMatchRows, Matches
<1>2. ASSUME ans'[h].pc = "read", ans'[h].reply = ans[h].reply, ans[h].pc = "idle"
      PROVE  Matches(h)'
  BY <1>1, <1>2 DEF Matches, MarkedBy, Paid
<1>3. ASSUME challenges' = challenges, ans'[h].req = ans[h].req,
             \/ ans'[h].pc = "done"
                /\ ans'[h].reply \in {"refused", "resolved", "nonce_used", "failed"}
             \/ /\ ans'[h].pc \in {"lapsed", "nonce", "mark"} /\ ans'[h].reply = ans[h].reply
                /\ ans[h].pc \in {"read", "nonce"}
                /\ ans[h].pc = "read" => Row(h).status = "open"
      PROVE  Matches(h)'
  BY <1>1, <1>3 DEF Matches, MarkedBy, Paid, Row
<1>4. ASSUME ans'[h].req = ans[h].req,
             \E passed \in BOOLEAN : MarkAnswered(ans[h].req.id, passed),
             \/ ans'[h].pc = "done" /\ ans'[h].reply \in {"expired", "wrong"}
             \/ /\ ans'[h].pc = "bonus" /\ ans'[h].reply = ans[h].reply
                /\ ans[h].pc = "mark" /\ ans[h].req.right
      PROVE  Matches(h)'
  <2>1. challenges'[ans[h].req.id].status = "answered"
    BY <1>0, <1>4, MarkedRow
  <2> QED BY <1>1, <1>4, <2>1 DEF Matches, MarkedBy, Paid, Row
<1>5. ASSUME challenges' = challenges, ans'[h].req = ans[h].req, ans[h].pc = "bonus",
             ans'[h].pc = "done", ans'[h].reply = "passed"
      PROVE  Matches(h)'
  BY <1>1, <1>5 DEF Matches, MarkedBy, Paid, Row
<1> QED BY <1>0, <1>2, <1>3, <1>4, <1>5, SubmitSteps DEF tables

\* Steps that are not a handler's leave the answers alone, but for a restart.
LEMMA OtherSteps ==
    ASSUME [Next]_vars, ~(\E h \in Handlers : Submit(h)), ~Restart
    PROVE  UNCHANGED <<usedNonces, points, ans>>
BY DEF Next, Ask, Issue, AskFails, ExpireOldChallenges, Tick, tables, vars

LEMMA AnswersNext ==
    TypeOK /\ RowsAreAsked /\ AnswersMatchRows /\ [Next]_vars => AnswersMatchRows'
<1> SUFFICES ASSUME TypeOK, RowsAreAsked, AnswersMatchRows, [Next]_vars, NEW h \in Handlers
             PROVE  Matches(h)'
  BY DEF AnswersMatchRows, Matches
<1>1. CASE \E g \in Handlers : Submit(g)
  <2> PICK g \in Handlers : Submit(g)
    BY <1>1
  <2> QED BY MatchStays, MatchSubmit, SubmitSteps
<1>2. CASE Restart
  <2>1. CASE ans'[h] = ans[h]
    BY <2>1, MatchStays
  <2>2. CASE ans'[h].pc = "done" /\ ans'[h].reply = "failed"
    BY <2>2 DEF Matches, MarkedBy, Paid
  <2> QED BY <1>2, <2>1, <2>2, RestartSteps
<1>3. CASE ~(\E g \in Handlers : Submit(g)) /\ ~Restart
  BY <1>3, OtherSteps, MatchStays
<1> QED BY <1>1, <1>2, <1>3

\* A step gives one handler a nonce nobody had spent, or none.
LEMMA NoncesNext ==
    TypeOK /\ AnswersMatchRows /\ NoncesAreSpentOnce /\ [Next]_vars => NoncesAreSpentOnce'
<1> SUFFICES ASSUME TypeOK, AnswersMatchRows, NoncesAreSpentOnce, [Next]_vars
             PROVE  NoncesAreSpentOnce'
  OBVIOUS
<1>1. CASE \E g \in Handlers : Submit(g)
  <2> PICK h \in Handlers : Submit(h)
    BY <1>1
  <2>1. \A g \in Handlers : g # h => ans'[g] = ans[g]
    BY SubmitSteps
  <2>2. ans[h].reply # "none" => ans[h].pc = "done"
    BY DEF AnswersMatchRows
  <2>3. \/ SpentNonce(h)' /\ ~SpentNonce(h) /\ ans'[h].req = ans[h].req
           /\ ans[h].req.nonce \notin usedNonces
           /\ usedNonces' = usedNonces \cup {ans[h].req.nonce}
        \/ /\ SpentNonce(h)' => SpentNonce(h) /\ ans'[h].req = ans[h].req
           /\ usedNonces \subseteq usedNonces'
    BY <2>2, SubmitSteps DEF SpentNonce, Paid, tables
  <2>4. CASE /\ SpentNonce(h)' /\ ans'[h].req = ans[h].req
             /\ ans[h].req.nonce \notin usedNonces
             /\ usedNonces' = usedNonces \cup {ans[h].req.nonce}
    BY <2>1, <2>4 DEF NoncesAreSpentOnce, SpentNonce, Paid
  <2>5. CASE /\ SpentNonce(h)' => SpentNonce(h) /\ ans'[h].req = ans[h].req
             /\ usedNonces \subseteq usedNonces'
    <3>1. \A g \in Handlers : SpentNonce(g)' => SpentNonce(g) /\ ans'[g].req = ans[g].req
      BY <2>1, <2>5 DEF SpentNonce, Paid
    <3> QED BY <2>5, <3>1 DEF NoncesAreSpentOnce
  <2> QED BY <2>3, <2>4, <2>5
<1>2. CASE Restart
  <2>1. usedNonces' = usedNonces
    BY <1>2 DEF Restart, tables
  <2>2. \A g \in Handlers : SpentNonce(g)' => SpentNonce(g) /\ ans'[g].req = ans[g].req
    BY <1>2, RestartSteps DEF SpentNonce, Paid
  <2> QED BY <2>1, <2>2 DEF NoncesAreSpentOnce
<1>3. CASE ~(\E g \in Handlers : Submit(g)) /\ ~Restart
  BY <1>3, OtherSteps DEF NoncesAreSpentOnce, SpentNonce, Paid
<1> QED BY <1>1, <1>2, <1>3

-----------------------------------------------------------------------------
(* The bonuses *)

PaidOn(m) == {h \in Handlers : Paid(h) /\ challenges[ans[h].req.id].node = m}

\* As long as nobody is newly paid, the paid answers of a node stay the same.
LEMMA PaidStays ==
    ASSUME TypeOK, RowsAreAsked, AnswersMatchRows, [Next]_vars,
           NEW h \in Handlers, Paid(h), ans'[h] = ans[h]
    PROVE  /\ Paid(h)'
           /\ challenges'[ans'[h].req.id].node = challenges[ans[h].req.id].node
<1>1. ans[h].req.id \in Challenges
  BY TypeSplit DEF Answering, Answers
<1>2. challenges[ans[h].req.id].status = "answered"
  BY DEF AnswersMatchRows, MarkedBy, Paid, Row
<1>3. challenges'[ans[h].req.id].node = challenges[ans[h].req.id].node
  BY <1>1, <1>2, TablesStep DEF RowStep, Kept, Issued, Marked, Expired
<1> QED BY <1>3 DEF Paid

LEMMA BonusNext ==
    TypeOK /\ RowsAreAsked /\ AnswersMatchRows /\ BonusesAreEarned /\ [Next]_vars
      => BonusesAreEarned'
<1> SUFFICES ASSUME TypeOK, RowsAreAsked, AnswersMatchRows, BonusesAreEarned, [Next]_vars
             PROVE  BonusesAreEarned'
  OBVIOUS
<1>0. /\ \A n \in Nodes : points[n] = Cardinality(PaidOn(n)) * Tier[n]
      /\ \A h \in Handlers : Paid(h) => ans[h].pc = "done"
      /\ points \in [Nodes -> Nat]
  BY TypeSplit DEF BonusesAreEarned, PaidOn, Paid, AnswersMatchRows
<1>1. \A h \in Handlers : Paid(h)' =>
         ans'[h].req.right /\ challenges'[ans'[h].req.id].status = "answered"
  BY AnswersNext DEF AnswersMatchRows, MarkedBy, Paid, Row
<1>2. (\A n \in Nodes : points'[n] = Cardinality(PaidOn(n)') * Tier[n]) => BonusesAreEarned'
  BY <1>1 DEF BonusesAreEarned, PaidOn
<1>3. ASSUME points' = points,
             \A h \in Handlers : \/ ans'[h] = ans[h]
                                 \/ ~Paid(h) /\ ~Paid(h)'
      PROVE  BonusesAreEarned'
  <2>1. \A n \in Nodes : PaidOn(n)' = PaidOn(n)
    <3> SUFFICES ASSUME NEW n \in Nodes, NEW h \in Handlers
                 PROVE  h \in PaidOn(n)' <=> h \in PaidOn(n)
      BY DEF PaidOn
    <3>1. CASE Paid(h) /\ ans'[h] = ans[h]
      BY <3>1, PaidStays DEF PaidOn
    <3>2. CASE ~Paid(h) /\ ans'[h] = ans[h]
      BY <3>2 DEF PaidOn, Paid
    <3>3. CASE ~Paid(h) /\ ~Paid(h)'
      BY <3>3 DEF PaidOn
    <3> QED BY <1>3, <3>1, <3>2, <3>3
  <2> QED BY <1>0, <1>2, <1>3, <2>1
<1>4. ASSUME NEW h \in Handlers, Bonus(h) PROVE BonusesAreEarned'
  <2>1. /\ \A g \in Handlers : g # h => ans'[g] = ans[g]
        /\ ans[h].pc = "bonus" /\ ans'[h].req = ans[h].req /\ ans'[h].reply = "passed"
        /\ challenges' = challenges /\ ans[h].req.id \in Challenges
    <3>1. Submit(h) /\ ans[h].pc = "bonus" /\ challenges' = challenges
      BY <1>4 DEF Submit, Bonus
    <3>2. Reply(h, "passed") /\ "passed" \in Replies
      BY <1>4 DEF Bonus, Replies
    <3> QED BY <3>1, <3>2, ReplyRecord, TypeSplit DEF Answering, Answers
  <2>2. PICK m \in Nodes : m = Row(h).node
    BY <2>1 DEF AnswersMatchRows, RowsAreAsked, Row
  <2>3. points' = [points EXCEPT ![m] = points[m] + Tier[m]]
    BY <1>4, <2>2 DEF Bonus
  <2>4. ~Paid(h) /\ Paid(h)'
    BY <1>0, <2>1 DEF Paid
  <2>5. PaidOn(m)' = PaidOn(m) \cup {h} /\ h \notin PaidOn(m)
    BY <2>1, <2>2, <2>4 DEF PaidOn, Paid, Row
  <2>6. \A n \in Nodes : n # m => PaidOn(n)' = PaidOn(n)
    BY <2>1, <2>2, <2>4 DEF PaidOn, Paid, Row
  <2>7. /\ Cardinality(PaidOn(m)) \in Nat
        /\ Cardinality(PaidOn(m)') = Cardinality(PaidOn(m)) + 1
    <3>1. IsFiniteSet(PaidOn(m))
      <4>1. PaidOn(m) \in SUBSET Handlers
        BY DEF PaidOn
      <4> QED BY <4>1, ChallengeAssumption, FS_Subset
    <3> QED BY <2>5, <3>1, FS_AddElement, FS_CardinalityType
  <2>8. \A a, t \in Nat : (a + 1) * t = a * t + t
    OBVIOUS
  <2>9. points'[m] = Cardinality(PaidOn(m)') * Tier[m]
    <3>1. Tier[m] \in Nat /\ points'[m] = points[m] + Tier[m]
      BY <1>0, <2>2, <2>3, ChallengeAssumption
    <3> QED BY <1>0, <2>2, <2>7, <2>8, <3>1
  <2>10. \A n \in Nodes : n # m => points'[n] = Cardinality(PaidOn(n)') * Tier[n]
    BY <1>0, <2>3, <2>6
  <2> QED BY <1>2, <2>9, <2>10
<1>5. ASSUME NEW h \in Handlers, Submit(h), ~Bonus(h) PROVE BonusesAreEarned'
  <2>1. points' = points
    BY <1>5, SubmitSteps DEF tables
  <2>2. ~Paid(h) /\ ~Paid(h)'
    BY <1>0, <1>5, SubmitSteps DEF Paid, AnswersMatchRows
  <2> QED BY <1>3, <1>5, <2>1, <2>2, SubmitSteps
<1>6. CASE Restart
  <2>1. points' = points
    BY <1>6 DEF Restart, tables
  <2>2. \A h \in Handlers : ans'[h] = ans[h] \/ (~Paid(h) /\ ~Paid(h)')
    BY <1>0, <1>6, RestartSteps DEF Paid
  <2> QED BY <1>3, <2>1, <2>2
<1>7. CASE ~(\E g \in Handlers : Submit(g)) /\ ~Restart
  BY <1>3, <1>7, OtherSteps
<1> QED BY <1>4, <1>5, <1>6, <1>7

-----------------------------------------------------------------------------
(* The theorems *)

LEMMA ChallengeInvInit == Init => ChallengeInv
<1> SUFFICES ASSUME Init PROVE ChallengeInv
  OBVIOUS
<1>1. \A h \in Handlers : ans[h].pc = "idle" /\ ans[h].reply = "none"
  BY DEF Init
<1>2. RowsAreAsked
  BY DEF Init, RowsAreAsked, NoRow
<1>3. AnswersMatchRows /\ NoncesAreSpentOnce
  BY <1>1 DEF AnswersMatchRows, NoncesAreSpentOnce, MarkedBy, SpentNonce, Paid
<1>4. BonusesAreEarned
  <2>1. \A n \in Nodes : PaidOn(n) = {}
    BY <1>1 DEF PaidOn, Paid
  <2>2. \A n \in Nodes : points[n] = 0 /\ Tier[n] \in Nat
    BY ChallengeAssumption DEF Init
  <2>3. \A n \in Nodes : points[n] = Cardinality(PaidOn(n)) * Tier[n]
    <3>1. Cardinality({}) = 0 /\ \A t \in Nat : 0 * t = 0
      BY FS_EmptySet
    <3> QED BY <2>1, <2>2, <3>1
  <2> QED BY <1>1, <2>3 DEF BonusesAreEarned, PaidOn, Paid
<1> QED BY <1>2, <1>3, <1>4, ChallengeTypeInit DEF ChallengeInv

LEMMA ChallengeInvNext == ChallengeInv /\ [Next]_vars => ChallengeInv'
BY ChallengeTypeNext, RowsNext, AnswersNext, NoncesNext, BonusNext DEF ChallengeInv

LEMMA ChallengeInvariant == Spec => []ChallengeInv
BY ChallengeInvInit, ChallengeInvNext, PTL DEF Spec

(* Every reachable state is well typed; in particular the height that an    *)
(* audit asks for is one the chain had, whatever the tip.                   *)
THEOREM ChallengeTypeCorrect == Spec => []TypeOK
<1>1. ChallengeInv => TypeOK
  BY DEF ChallengeInv
<1> QED BY <1>1, ChallengeInvariant, PTL

(* A signed answer that is delivered again, at once or after a failure, is  *)
(* not paid again.                                                          *)
THEOREM RetransmissionsPayOnce == Spec => []RetransmissionPaysOnce
<1>1. ChallengeInv => RetransmissionPaysOnce
  BY DEF ChallengeInv, NoncesAreSpentOnce, RetransmissionPaysOnce, SpentNonce
<1> QED BY <1>1, ChallengeInvariant, PTL

(* A node's bonuses are one tier for each answer that passed, and each such *)
(* answer was right and its challenge is on file as answered - whatever     *)
(* other answers and the expiry task did meanwhile.                         *)
THEOREM BonusesStandOnAudits == Spec => []BonusesAreEarned
<1>1. ChallengeInv => BonusesAreEarned
  BY DEF ChallengeInv
<1> QED BY <1>1, ChallengeInvariant, PTL

(* Once an answer is marked, no answer that is read later gets past the     *)
(* check of the row.                                                        *)
THEOREM MarkedChallengesAreClosed == Spec => LateAnswersAreRefused
<1>1. ChallengeInv /\ [Next]_vars =>
        [\A g, h \in Handlers :
            ans[h].pc = "read" /\ ans'[h].pc \in {"nonce", "lapsed"}
               /\ MarkedBy(g) /\ ans[g].req.id = ans[h].req.id
            => g = h]_vars
  <2> SUFFICES ASSUME ChallengeInv, [Next]_vars, NEW g \in Handlers, NEW h \in Handlers,
                      ans[h].pc = "read", ans'[h].pc \in {"nonce", "lapsed"},
                      MarkedBy(g), ans[g].req.id = ans[h].req.id
               PROVE  g = h
    OBVIOUS
  <2>1. Row(h).status = "answered" /\ TypeOK
    BY DEF ChallengeInv, AnswersMatchRows, Row
  <2>2. ans'[h] # ans[h]
    OBVIOUS
  <2>3. CASE \E k \in Handlers : Submit(k)
    <3> PICK k \in Handlers : Submit(k)
      BY <2>3
    <3>1. k = h
      BY <2>1, <2>2, SubmitSteps
    <3> QED BY <2>1, <3>1, SubmitSteps
  <2>4. CASE Restart
    BY <2>1, <2>2, <2>4, RestartSteps
  <2>5. CASE ~(\E k \in Handlers : Submit(k)) /\ ~Restart
    BY <2>2, <2>5, OtherSteps
  <2> QED BY <2>3, <2>4, <2>5
<1> QED BY <1>1, ChallengeInvariant, PTL DEF Spec, LateAnswersAreRefused

(* Neither answers, late or not, nor the expiry task open a challenge again *)
(* or take an answered one back.                                            *)
THEOREM ChallengesStayResolved == Spec => ResolvedForGood
<1>1. ChallengeInv /\ [Next]_vars =>
        [\A c \in Challenges :
           /\ challenges[c].status \in {"answered", "expired"} => challenges'[c].status # "open"
           /\ challenges[c].status = "answered" => challenges'[c].status = "answered"]_vars
  <2> SUFFICES ASSUME ChallengeInv, [Next]_vars, NEW c \in Challenges
      PROVE  /\ challenges[c].status \in {"answered", "expired"} => challenges'[c].status # "open"
             /\ challenges[c].status = "answered" => challenges'[c].status = "answered"
    OBVIOUS
  <2>1. RowStep(c)
    BY TablesStep DEF ChallengeInv
  <2> QED BY <2>1 DEF RowStep, Kept, Issued, Marked, Expired
<1> QED BY <1>1, ChallengeInvariant, PTL DEF Spec, ResolvedForGood
=============================================================================
