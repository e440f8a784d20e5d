----------------------------- MODULE Challenges -----------------------------
(***************************************************************************)
(* Audits: a node's operator asks for a challenge and answers it.          *)
(* server/src/api/challenges.rs (request, submit) and the expiry task of   *)
(* server/src/scheduler.rs.  A submit handler reads the challenge once and *)
(* decides on what it read; the UPDATEs it runs later are unconditional.   *)
(* Between its read and its writes other answers may be marked, and the    *)
(* expiry task may run.  Handlers can fail or be dropped at any await.     *)
(***************************************************************************)
EXTENDS Naturals, FiniteSetsExt

CONSTANTS
    None,
    Nodes,
    Challenges,     \* ids the server will give out, one for each request
    Handlers,       \* answers the server will ever receive
    Nonces,         \* nonces of the answers
    Tier,           \* reward tier per node: the bonus
    Lifetime,       \* how long a challenge stays open: ten minutes
    MinDepth,       \* the 32 of ChallengeDepth::pick
    MaxDepth,       \* its 256
    Tips,           \* block counts the quorum may agree on
    MaxTime,        \* bound of the clock
    Faults          \* whether handlers fail, are dropped, or the server restarts

ASSUME ChallengeAssumption ==
    /\ None \notin Nat
    /\ Nodes # {} /\ Nonces # {} /\ Challenges # {}
    /\ Tier \in [Nodes -> Nat]
    /\ Lifetime \in Nat /\ MaxTime \in Nat /\ Tips \subseteq Nat
    /\ MinDepth \in Nat /\ MaxDepth \in Nat /\ MinDepth < MaxDepth
    /\ IsFiniteSet(Handlers) /\ Faults \in BOOLEAN

VARIABLES
    challenges,     \* table challenges, by id
    usedNonces,     \* table used_nonces
    points,         \* the points column of table nodes: bonuses only
    ask,            \* per challenge: its request handler's node, tip and pc
    ans,            \* per answer: its submit handler's local state
    now

tables == <<challenges, usedNonces, points>>
vars   == <<challenges, usedNonces, points, ask, ans, now>>

-----------------------------------------------------------------------------
Rows == [status : {"none", "open", "answered", "expired"}, node : Nodes \cup {None},
         target : Nat \cup {None}, expires : Nat, passed : BOOLEAN \cup {None}]
NoRow == [status |-> "none", node |-> None, target |-> None, expires |-> 0,
          passed |-> None]

\* right: whether the answer is the expected hash once both are normalised.
Answers == [id : Challenges, nonce : Nonces, right : BOOLEAN]

Steps == {"idle", "read", "lapsed", "nonce", "mark", "bonus", "done"}
Replies == {"none", "refused", "resolved", "expired", "nonce_used", "passed",
            "wrong", "failed"}

Init ==
    /\ challenges = [c \in Challenges |-> NoRow]
    /\ usedNonces = {}
    /\ points = [n \in Nodes |-> 0]
    /\ ask = [c \in Challenges |-> [pc |-> "idle", node |-> None, tip |-> None]]
    /\ ans = [h \in Handlers |->
                [pc |-> "idle", req |-> CHOOSE a \in Answers : TRUE, reply |-> "none"]]
    /\ now = 0

-----------------------------------------------------------------------------
(* POST /api/challenges/request *)

\* Mutant: always the full depth.
PickFullDepth(tip) == IF tip > 0 THEN MaxDepth ELSE 0

\* ChallengeDepth::pick: half way down a young chain, else MinDepth .. MaxDepth - 1
\* blocks back, a function of the tip.
PickDepth(tip) ==
    IF tip < MaxDepth THEN tip \div 2 ELSE (tip % (MaxDepth - MinDepth)) + MinDepth

\* Node, signature and nonce are checked and the quorum agrees on a tip.
Ask(c) ==
    /\ ask[c].pc = "idle"
    /\ now + Lifetime < MaxTime
    /\ \E n \in Nodes, t \in Tips :
         ask' = [ask EXCEPT ![c] = [pc |-> "hash", node |-> n, tip |-> t]]
    /\ UNCHANGED <<tables, ans, now>>

\* The quorum agrees on the hash at the target height: insert_challenge.
Issue(c) ==
    /\ ask[c].pc = "hash"
    /\ now + Lifetime < MaxTime
    /\ challenges' = [challenges EXCEPT ![c] =
         [status |-> "open", node |-> ask[c].node,
          target |-> ask[c].tip - PickDepth(ask[c].tip),
          expires |-> now + Lifetime, passed |-> None]]
    /\ ask' = [ask EXCEPT ![c].pc = "done"]
    /\ UNCHANGED <<usedNonces, points, ans, now>>

\* The quorum does not answer, or the handler fails: no challenge.
AskFails(c) ==
    /\ ask[c].pc = "hash"
    /\ ask' = [ask EXCEPT ![c].pc = "done"]
    /\ UNCHANGED <<tables, ans, now>>

-----------------------------------------------------------------------------
(* POST /api/challenges/submit *)

Go(h, pc) == ans' = [ans EXCEPT ![h].pc = pc]
Reply(h, r) == ans' = [ans EXCEPT ![h].pc = "done", ![h].reply = r]
Row(h) == challenges[ans[h].req.id]

\* Mutant: the verdict is recorded and the status is not.
MarkPassedOnly(c, passed) == challenges' = [challenges EXCEPT ![c].passed = passed]

\* mark_challenge_answered: UPDATE ... WHERE id, whatever the status is now.
MarkAnswered(c, passed) ==
    challenges' = [challenges EXCEPT ![c].status = "answered", ![c].passed = passed]

Receive(h) ==
    /\ ans[h].pc = "idle"
    /\ \E a \in Answers :
         ans' = [ans EXCEPT ![h].pc = "read", ![h].req = a]
    /\ UNCHANGED <<tables, ask, now>>

\* get_challenge, then the checks on the row it returned.
Read(h) ==
    /\ ans[h].pc = "read"
    /\ CASE Row(h).status = "none" -> Reply(h, "refused")
         [] Row(h).status \in {"answered", "expired"} -> Reply(h, "resolved")
         [] Row(h).status = "open" /\ Row(h).expires < now -> Go(h, "lapsed")
         [] Row(h).status = "open" /\ Row(h).expires >= now -> Go(h, "nonce")
    /\ UNCHANGED <<tables, ask, now>>

\* Too late: the row is marked before wallet and signature are looked at.
Lapse(h) ==
    /\ ans[h].pc = "lapsed"
    /\ MarkAnswered(ans[h].req.id, FALSE)
    /\ Reply(h, "expired")
    /\ UNCHANGED <<usedNonces, points, ask, now>>

\* Another wallet's challenge, or a bad signature.
Refuse(h) ==
    /\ ans[h].pc = "nonce"
    /\ Reply(h, "refused")
    /\ UNCHANGED <<tables, ask, now>>

\* Mutant: the nonce is not recorded.
UseNonceUnspent(h) ==
    /\ ans[h].pc = "nonce"
    /\ IF ans[h].req.nonce \in usedNonces THEN Reply(h, "nonce_used") ELSE Go(h, "mark")
    /\ UNCHANGED <<tables, ask, now>>

UseNonce(h) ==
    /\ ans[h].pc = "nonce"
    /\ usedNonces' = usedNonces \cup {ans[h].req.nonce}
    /\ IF ans[h].req.nonce \in usedNonces THEN Reply(h, "nonce_used") ELSE Go(h, "mark")
    /\ UNCHANGED <<challenges, points, ask, now>>

Mark(h) ==
    /\ ans[h].pc = "mark"
    /\ MarkAnswered(ans[h].req.id, ans[h].req.right)
    /\ IF ans[h].req.right THEN Go(h, "bonus") ELSE Reply(h, "wrong")
    /\ UNCHANGED <<usedNonces, points, ask, now>>

\* add_uptime_and_points(node, 0, tier).
Bonus(h) ==
    /\ ans[h].pc = "bonus"
    /\ points' = [points EXCEPT ![Row(h).node] = @ + Tier[Row(h).node]]
    /\ Reply(h, "passed")
    /\ UNCHANGED <<challenges, usedNonces, ask, now>>

Fail(h) ==
    /\ Faults
    /\ ans[h].pc \notin {"idle", "done"}
    /\ Reply(h, "failed")
    /\ UNCHANGED <<tables, ask, now>>

-----------------------------------------------------------------------------
(* challenge_expiry_loop, and the world *)

\* Mutant: every challenge past its time is expired, answered ones too.
ExpireAll ==
    /\ \E c \in Challenges : challenges[c].status \in {"open", "answered"} /\ challenges[c].expires < now
    /\ challenges' = [c \in Challenges |->
         IF challenges[c].status # "none" /\ challenges[c].expires < now
         THEN [challenges[c] EXCEPT !.status = "expired"] ELSE challenges[c]]
    /\ UNCHANGED <<usedNonces, points, ask, ans, now>>
\* Mutant: the comparison is turned round and nothing old is ever expired.
ExpireYoung ==
    /\ \E c \in Challenges : challenges[c].status = "open" /\ challenges[c].expires > now + Lifetime
    /\ UNCHANGED vars

\* expire_old_challenges: one UPDATE over all open rows.
ExpireOldChallenges ==
    /\ \E c \in Challenges : challenges[c].status = "open" /\ challenges[c].expires < now
    /\ challenges' = [c \in Challenges |->
         IF challenges[c].status = "open" /\ challenges[c].expires < now
         THEN [challenges[c] EXCEPT !.status = "expired"] ELSE challenges[c]]
    /\ UNCHANGED <<usedNonces, points, ask, ans, now>>

Restart ==
    /\ Faults
    /\ ans' = [h \in Handlers |->
                 IF ans[h].pc \in {"idle", "done"} THEN ans[h]
                 ELSE [ans[h] EXCEPT !.pc = "done", !.reply = "failed"]]
    /\ ask' = [c \in Challenges |->
                 IF ask[c].pc = "hash" THEN [ask[c] EXCEPT !.pc = "done"] ELSE ask[c]]
    /\ UNCHANGED <<tables, now>>

Tick ==
    /\ now < MaxTime
    /\ now' = now + 1
    /\ UNCHANGED <<tables, ask, ans>>

-----------------------------------------------------------------------------
Submit(h) ==
    Receive(h) \/ Read(h) \/ Lapse(h) \/ Refuse(h) \/ UseNonce(h) \/ Mark(h)
        \/ Bonus(h) \/ Fail(h)

Next ==
    \/ \E c \in Challenges : Ask(c) \/ Issue(c) \/ AskFails(c)
    \/ \E h \in Handlers : Submit(h)
    \/ ExpireOldChallenges \/ Restart \/ Tick

Spec == Init /\ [][Next]_vars

\* Time passes and the expiry task keeps ticking.
FairSpec == Spec /\ WF_vars(Tick) /\ WF_vars(ExpireOldChallenges)

-----------------------------------------------------------------------------
(* Properties *)

(* Every variable has the shape its declaration says.                       *)
TypeOK ==
    /\ challenges \in [Challenges -> Rows]
    /\ usedNonces \subseteq Nonces
    /\ points \in [Nodes -> Nat]
    /\ ask \in [Challenges -> [pc : {"idle", "hash", "done"}, node : Nodes \cup {None},
                               tip : Tips \cup {None}]]
    /\ ans \in [Handlers -> [pc : Steps, req : Answers, reply : Replies]]
    /\ now \in 0 .. MaxTime

Paid(h) == ans[h].reply = "passed"
MarkedBy(h) == ans[h].pc = "bonus" \/ ans[h].reply \in {"passed", "wrong", "expired"}

(* An answer that is sent again - the same signed request, the same nonce - *)
(* is never paid a second time, also when both copies are handled at once.  *)
RetransmissionPaysOnce ==
    \A g, h \in Handlers :
       Paid(g) /\ Paid(h) /\ ans[g].req.nonce = ans[h].req.nonce => g = h

(* The bonuses on a node are those of the answers that passed, and each of  *)
(* them stands against a challenge on file as answered: neither the expiry  *)
(* task nor a late answer turns a paid challenge into an expired one.       *)
BonusesAreEarned ==
    /\ \A n \in Nodes :
         LET paid(m) == {h \in Handlers : Paid(h) /\ challenges[ans[h].req.id].node = m}
         IN  points[n] = Cardinality(paid(n)) * Tier[n]
    /\ \A h \in Handlers : Paid(h) =>
         ans[h].req.right /\ challenges[ans[h].req.id].status = "answered"

(* An answer that arrives after another answer was marked is refused: only  *)
(* answers that were read while the challenge was open can still pay.       *)
LateAnswersAreRefused ==
    [][\A g, h \in Handlers :
          ans[h].pc = "read" /\ ans'[h].pc \in {"nonce", "lapsed"}
             /\ MarkedBy(g) /\ ans[g].req.id = ans[h].req.id
          => g = h]_vars

(* A challenge never opens again, and an answered one stays answered.       *)
ResolvedForGood ==
    [][\A c \in Challenges :
         /\ challenges[c].status \in {"answered", "expired"} => challenges'[c].status # "open"
         /\ challenges[c].status = "answered" => challenges'[c].status = "answered"]_vars

(* No challenge stays open for ever, whoever fails to answer it.            *)
EveryChallengeIsResolved ==
    \A c \in Challenges : challenges[c].status = "open" ~> challenges[c].status # "open"

-----------------------------------------------------------------------------
(* The inductive invariant of ChallengesProofs *)

\* A challenge has no row before its request is done, and a node after.
RowsAreAsked ==
    \A c \in Challenges :
       /\ ask[c].pc = "hash" => ask[c].node \in Nodes /\ ask[c].tip \in Tips
       /\ ask[c].pc # "done" => challenges[c].status = "none"
       /\ challenges[c].status # "none" => challenges[c].node \in Nodes

\* What an answer goes by is on file, and what it marked stays marked.
AnswersMatchRows ==
    \A h \in Handlers :
       /\ ans[h].reply # "none" => ans[h].pc = "done"
       /\ ans[h].pc \in {"lapsed", "nonce", "mark", "bonus"} => Row(h).status # "none"
       /\ MarkedBy(h) => Row(h).status = "answered"
       /\ ans[h].pc = "bonus" \/ Paid(h) => ans[h].req.right

\* An answer that is being marked, is about to be paid or is paid has spent
\* its nonce, alone.
SpentNonce(h) == ans[h].pc \in {"mark", "bonus"} \/ Paid(h)
NoncesAreSpentOnce ==
    /\ \A h \in Handlers : SpentNonce(h) => ans[h].req.nonce \in usedNonces
    /\ \A g, h \in Handlers :
          SpentNonce(g) /\ SpentNonce(h) /\ ans[g].req.nonce = ans[h].req.nonce => g = h

ChallengeInv ==
    TypeOK /\ RowsAreAsked /\ AnswersMatchRows /\ NoncesAreSpentOnce /\ BonusesAreEarned

-----------------------------------------------------------------------------
(* What the repository's text says and the code does not do.                *)

(* server/src/api/challenges.rs answers a second answer with "challenge     *)
(* already resolved or expired", so a challenge pays one bonus at most.     *)
OneBonusPerChallenge ==
    \A g, h \in Handlers :
       Paid(g) /\ Paid(h) /\ ans[g].req.id = ans[h].req.id => g = h
=============================================================================
