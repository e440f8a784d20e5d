---------------------------- MODULE ProofIntake ----------------------------
(***************************************************************************)
(* How a claim "node n saw block b at height h" becomes points.            *)
(*                                                                         *)
(* Two paths write the same tables.  POST /api/proofs/submit               *)
(* (server/src/api/proofs.rs) runs once per request, many requests at a    *)
(* time; the exposed-RPC poller (server/src/scheduler.rs) is one task that *)
(* walks the nodes with a public endpoint.  Every SQL statement commits on *)
(* its own - there is no transaction anywhere - so a handler is a sequence *)
(* of atomic steps, one for each await that touches shared state, and      *)
(* everything it read in an earlier step may be stale in a later one.      *)
(* A handler can end between any two steps: the statement fails (500), the *)
(* client goes away and its future is dropped, or the process restarts.    *)
(***************************************************************************)
EXTENDS Points, FiniteSetsExt

CONSTANTS
    Nodes,          \* ids of the registered nodes of the server's network
    Handlers,       \* submit requests the server will ever receive
    Heights,        \* block heights a claim can name
    Hashes,         \* spellings of a block hash, as claimed and stored
    Blocks,         \* the blocks those spellings denote
    Nonces,
    Telemetry,      \* self-reported [uptime, peers] of a submission
    Tier,           \* reward tier per node
    RpcNodes,       \* nodes registered with an rpc_endpoint
    BlockOf,        \* normalize_hash: the block a spelling denotes
    Chain,          \* the block the trusted RPCs hold at each height
    Genesis,        \* height of the chain when the server starts
    TipLag,         \* how far behind the chain an agreed block count may be
    Strict,         \* trusted RPCs are configured (false: permissive mode)
    MaxDrift,       \* MAX_HEIGHT_DRIFT
    HeightLag,      \* the 1024 of the monotonic-height guard
    HeightModulus,  \* 2^64: u64 addition wraps in the release build
    MaxTime,        \* bound of the clock
    MaxSkew,        \* MAX_CLOCK_SKEW
    Faults,         \* whether handlers fail, are dropped, or the server restarts
    CanSuspend      \* nodes an administrator may suspend in the database

ASSUME IntakeAssumption ==
    /\ Nodes # {} /\ Hashes # {} /\ Nonces # {} /\ Telemetry # {}
    /\ None \notin Hashes
    /\ Heights \subseteq Nat /\ Genesis \in Heights
    /\ Tier \in [Nodes -> RewardTiers] /\ RpcNodes \subseteq Nodes
    /\ BlockOf \in [Hashes -> Blocks] /\ Chain \in [Heights -> Blocks]
    /\ Telemetry \subseteq [uptime : Nat, peers : Nat]
    /\ TipLag \in Nat /\ MaxDrift \in Nat /\ HeightLag \in Nat
    /\ HeightModulus \in Nat \ {0}
    /\ MaxTime \in Nat /\ MaxSkew \in Nat
    /\ Strict \in BOOLEAN /\ Faults \in BOOLEAN
    /\ CanSuspend \subseteq Nodes

VARIABLES
    nodes,          \* table nodes: the mutable columns, by node id
    proofs,         \* table proofs, by its UNIQUE (node, height, hash) key
    usedNonces,     \* table used_nonces
    trustedTip,     \* AppState::trusted_tip, a cache
    sub,            \* per request: the local state of its submit handler
    poll,           \* the local state of the exposed-RPC task
    chainTip,       \* environment: height of the Zcash chain
    now             \* environment: wall clock

tables == <<nodes, proofs, usedNonces>>
env    == <<chainTip, now>>
vars   == <<nodes, proofs, usedNonces, trustedTip, sub, poll, chainTip, now>>

-----------------------------------------------------------------------------
(* Types *)

Times == 0 .. (MaxTime + MaxSkew)
OptHeight == Heights \cup {None}
Statuses == {"registered", "active", "stale", "suspended"}
Verdicts == {"accepted", "rejected", "pending"}

Keys == [node : Nodes, height : Heights, hash : Hashes]

Requests == [node : Nodes, height : Heights, hash : Hashes, nonce : Nonces,
             ts : Times, tele : Telemetry]

KeyOf(r) == [node |-> r.node, height |-> r.height, hash |-> r.hash]

NodeRows == [status : Statuses, lastHeight : OptHeight,
             lastHash : Hashes \cup {None}, lastProofAt : Times \cup {None},
             points : Nat, uptime : Nat]

\* A proof row.  credits is a history variable: how often the row's award
\* has been added to its node.  "none" is a key with no row.
Rows == [verdict : Verdicts \cup {"none"}, points : Awards, credits : Nat]
NoRow == [verdict |-> "none", points |-> 0, credits |-> 0]

Steps == {"idle", "lookup", "nonce", "tip", "verify", "insert", "apply", "done"}
Replies == Verdicts \cup
    {"none", "refused", "forbidden", "nonce_used", "far_behind", "duplicate", "failed"}

Handling == [pc : Steps, req : Requests, seen : OptHeight, tip : OptHeight,
             verdict : Verdicts, award : Awards, reply : Replies]

PollSteps == {"idle", "tip", "ask", "quorum", "insert", "apply"}
Polling == [pc : PollSteps, todo : SUBSET Nodes, tip : OptHeight, key : Keys,
            verdict : Verdicts, award : Awards, at : Times]

-----------------------------------------------------------------------------
(* The statements of the store, as the handlers use them *)

\* Mutant: INSERT OR REPLACE.
UpsertProof(k, verdict, points) ==
    proofs' = [proofs EXCEPT ![k] = [verdict |-> verdict, points |-> points,
                                     credits |-> 0]]

\* try_insert_proof: INSERT OR IGNORE, then rows_affected() == 1.
TryInsertProof(k, verdict, points) ==
    proofs' = IF proofs[k] = NoRow
              THEN [proofs EXCEPT ![k] = [verdict |-> verdict, points |-> points,
                                          credits |-> 0]]
              ELSE proofs
\* Mutant: rows_affected() is not looked at.
InsertedAnyway(k) == k \in Keys
Inserted(k) == proofs[k] = NoRow

\* Mutants: the award replaces the points; the hash column is left behind.
ApplyReplacing(k, points, at) ==
    /\ nodes' = [nodes EXCEPT ![k.node] =
                   [status |-> "active", lastHeight |-> k.height, lastHash |-> k.hash,
                    lastProofAt |-> at, points |-> points, uptime |-> @.uptime]]
    /\ proofs' = [proofs EXCEPT ![k].credits = @ + 1]
ApplyHeightOnly(k, points, at) ==
    /\ nodes' = [nodes EXCEPT ![k.node] =
                   [@ EXCEPT !.status = "active", !.lastHeight = k.height,
                             !.lastProofAt = at, !.points = nodes[k.node].points + points]]
    /\ proofs' = [proofs EXCEPT ![k].credits = @ + 1]

\* apply_proof_acceptance: one unconditional UPDATE of the node's row.
ApplyProofAcceptance(k, points, at) ==
    /\ nodes' = [nodes EXCEPT ![k.node] =
                   [status |-> "active", lastHeight |-> k.height, lastHash |-> k.hash,
                    lastProofAt |-> at, points |-> @.points + points, uptime |-> @.uptime]]
    /\ proofs' = [proofs EXCEPT ![k].credits = @ + 1]

-----------------------------------------------------------------------------
(* The decisions of the handlers; heights are u64 and their sums wrap *)

Plus(a, b) == (a + b) % HeightModulus

FarBehind(height, last) == last # None /\ Plus(height, HeightLag) < last

OutOfDrift(height, tip) ==
    /\ tip # None
    /\ Plus(height, MaxDrift) < tip \/ height > Plus(tip, MaxDrift)

\* What the quorum can answer when asked for the block at a height: the block
\* if the chain has it, or nothing (no majority, all calls failed).
QuorumAnswers(height) ==
    {None} \cup (IF height <= chainTip THEN {Chain[height]} ELSE {})

\* Mutant: no quorum is treated like permissive mode.
VerdictWithoutQuorum(r, tip, answer) ==
    CASE answer = None -> "accepted"
      [] answer # None /\ BlockOf[r.hash] # answer -> "rejected"
      [] OTHER -> IF OutOfDrift(r.height, tip) THEN "rejected" ELSE "accepted"

SubmissionVerdict(r, tip, answer) ==
    CASE ~Strict -> "accepted"
      [] Strict /\ answer = None -> "pending"
      [] Strict /\ answer # None /\ BlockOf[r.hash] # answer -> "rejected"
      [] Strict /\ answer # None /\ BlockOf[r.hash] = answer ->
            IF OutOfDrift(r.height, tip) THEN "rejected" ELSE "accepted"

AwardFor(r, tip) ==
    SubmissionPoints(Tier[r.node], r.height, r.tele.uptime, r.tele.peers, tip)

-----------------------------------------------------------------------------
\* What a local that is not in scope holds.
AnyRequest == CHOOSE r \in Requests : TRUE
AnyKey == CHOOSE k \in Keys : TRUE

\* The exposed-RPC task between two rounds.
RoundOver == [pc |-> "idle", todo |-> {}, tip |-> None, key |-> AnyKey,
              verdict |-> "pending", award |-> 0, at |-> 0]

Init ==
    /\ nodes = [n \in Nodes |->
                  [status |-> "registered", lastHeight |-> None, lastHash |-> None,
                   lastProofAt |-> None, points |-> 0, uptime |-> 0]]
    /\ proofs = [k \in Keys |-> NoRow]
    /\ usedNonces = {}
    /\ trustedTip = None
    /\ sub = [h \in Handlers |->
                [pc |-> "idle", req |-> AnyRequest, seen |-> None, tip |-> None,
                 verdict |-> "pending", award |-> 0, reply |-> "none"]]
    /\ poll = RoundOver
    /\ chainTip = Genesis
    /\ now = 0

-----------------------------------------------------------------------------
(* POST /api/proofs/submit *)

\* The handler returns r and its locals go out of scope.
Replied(s, r) == [pc |-> "done", req |-> s.req, seen |-> None, tip |-> None,
                  verdict |-> "pending", award |-> 0, reply |-> r]
Reply(h, r) == sub' = [sub EXCEPT ![h] = Replied(@, r)]

\* A request arrives.  Those that fail the checks made before the first await
\* (hash and nonce shape, timestamp window) change nothing and are left out.
Receive(h) ==
    /\ sub[h].pc = "idle"
    /\ \E r \in Requests :
         /\ r.ts <= now + MaxSkew /\ now <= r.ts + MaxSkew
         /\ sub' = [sub EXCEPT ![h] = [@ EXCEPT !.pc = "lookup", !.req = r]]
    /\ UNCHANGED <<tables, trustedTip, poll, env>>

\* Mutant: the status is not looked at.
LookupAnyStatus(h) ==
    /\ sub[h].pc = "lookup"
    /\ sub' = [sub EXCEPT ![h] =
                 [@ EXCEPT !.pc = "nonce", !.seen = nodes[sub[h].req.node].lastHeight]]
    /\ UNCHANGED <<tables, trustedTip, poll, env>>

\* get_node, then the checks on the row it returned.  What the handler keeps
\* of the row, and uses after the next awaits, is its last height.
Lookup(h) ==
    /\ sub[h].pc = "lookup"
    /\ LET row == nodes[sub[h].req.node] IN
         IF row.status = "suspended"
         THEN Reply(h, "forbidden")
         ELSE sub' = [sub EXCEPT ![h] =
                        [@ EXCEPT !.pc = "nonce", !.seen = row.lastHeight]]
    /\ UNCHANGED <<tables, trustedTip, poll, env>>

\* Unknown node, another wallet's or network's node, or a bad signature.
Refuse(h) ==
    /\ sub[h].pc = "lookup"
    /\ Reply(h, "refused")
    /\ UNCHANGED <<tables, trustedTip, poll, env>>

\* Mutant: the nonce is looked up here but not recorded.
UseNonceUnspent(h) ==
    /\ sub[h].pc = "nonce"
    /\ IF sub[h].req.nonce \in usedNonces
       THEN Reply(h, "nonce_used")
       ELSE IF FarBehind(sub[h].req.height, sub[h].seen)
       THEN Reply(h, "far_behind")
       ELSE sub' = [sub EXCEPT ![h] = [@ EXCEPT !.pc = "tip"]]
    /\ UNCHANGED <<tables, trustedTip, poll, env>>

\* try_use_nonce (INSERT OR IGNORE), then the monotonic-height guard against
\* the height read in Lookup.  The nonce is spent even when the guard refuses.
UseNonce(h) ==
    /\ sub[h].pc = "nonce"
    /\ LET r == sub[h].req IN
         IF r.nonce \in usedNonces
         THEN Reply(h, "nonce_used") /\ UNCHANGED usedNonces
         ELSE /\ usedNonces' = usedNonces \cup {r.nonce}
              /\ IF FarBehind(r.height, sub[h].seen)
                 THEN Reply(h, "far_behind")
                 ELSE sub' = [sub EXCEPT ![h] = [@ EXCEPT !.pc = "tip"]]
    /\ UNCHANGED <<nodes, proofs, trustedTip, poll, env>>

ReadTip(h) ==
    /\ sub[h].pc = "tip"
    /\ sub' = [sub EXCEPT ![h] = [@ EXCEPT !.pc = "verify", !.tip = trustedTip]]
    /\ UNCHANGED <<tables, trustedTip, poll, env>>

\* Mutant: the quorum is asked again until it agrees.
VerifyUntilAgreed(h) ==
    /\ sub[h].pc = "verify"
    /\ \E answer \in QuorumAnswers(sub[h].req.height) \ {None} :
         sub' = [sub EXCEPT ![h] =
                   [@ EXCEPT !.pc = "insert", !.award = 0,
                      !.verdict = SubmissionVerdict(sub[h].req, sub[h].tip, answer)]]
    /\ UNCHANGED <<tables, trustedTip, poll, env>>

\* The quorum is asked for the block; verdict and award follow from the answer.
Verify(h) ==
    /\ sub[h].pc = "verify"
    /\ \E answer \in (IF Strict THEN QuorumAnswers(sub[h].req.height) ELSE {None}) :
         LET v == SubmissionVerdict(sub[h].req, sub[h].tip, answer) IN
         sub' = [sub EXCEPT ![h] =
                   [@ EXCEPT !.pc = "insert", !.verdict = v,
                             !.award = IF v = "accepted"
                                       THEN AwardFor(sub[h].req, sub[h].tip) ELSE 0]]
    /\ UNCHANGED <<tables, trustedTip, poll, env>>

\* Mutant: a conflict is not answered with 409 but with the verdict.
InsertProofUnreported(h) ==
    /\ sub[h].pc = "insert"
    /\ LET k == KeyOf(sub[h].req) IN
         /\ TryInsertProof(k, sub[h].verdict, sub[h].award)
         /\ IF Inserted(k) /\ sub[h].verdict = "accepted"
            THEN sub' = [sub EXCEPT ![h] = [@ EXCEPT !.pc = "apply"]]
            ELSE Reply(h, sub[h].verdict)
    /\ UNCHANGED <<nodes, usedNonces, trustedTip, poll, env>>

InsertProof(h) ==
    /\ sub[h].pc = "insert"
    /\ LET k == KeyOf(sub[h].req) IN
         /\ TryInsertProof(k, sub[h].verdict, sub[h].award)
         /\ IF ~Inserted(k) THEN Reply(h, "duplicate")
            ELSE IF sub[h].verdict = "accepted"
            THEN sub' = [sub EXCEPT ![h] = [@ EXCEPT !.pc = "apply"]]
            ELSE Reply(h, sub[h].verdict)
    /\ UNCHANGED <<nodes, usedNonces, trustedTip, poll, env>>

Apply(h) ==
    /\ sub[h].pc = "apply"
    /\ ApplyProofAcceptance(KeyOf(sub[h].req), sub[h].award, sub[h].req.ts)
    /\ Reply(h, "accepted")
    /\ UNCHANGED <<usedNonces, trustedTip, poll, env>>

\* A store call returns an error, or the client disconnects and the handler's
\* future is dropped at an await: what it wrote so far stays.
Fail(h) ==
    /\ Faults
    /\ sub[h].pc \notin {"idle", "done"}
    /\ Reply(h, "failed")
    /\ UNCHANGED <<tables, trustedTip, poll, env>>

-----------------------------------------------------------------------------
(* The exposed-RPC task *)

\* poll_one_node returns and the loop turns to the next node.
NodeDone(p) == [pc |-> "ask", todo |-> p.todo, tip |-> p.tip, key |-> AnyKey,
                verdict |-> "pending", award |-> 0, at |-> 0]

\* list_nodes_with_rpc.  The code keeps registration order; which node comes
\* next is left open here.
PollList ==
    /\ Strict
    /\ poll.pc = "idle"
    /\ LET listed == {n \in RpcNodes : nodes[n].status # "suspended"} IN
         /\ listed # {}
         /\ poll' = [poll EXCEPT !.pc = "tip", !.todo = listed]
    /\ UNCHANGED <<tables, trustedTip, sub, env>>

\* One read of the cached tip serves the whole round.
PollTip ==
    /\ poll.pc = "tip"
    /\ poll' = [poll EXCEPT !.pc = "ask", !.tip = trustedTip]
    /\ UNCHANGED <<tables, trustedTip, sub, env>>

\* The node's own RPC names its tip and the hash there - anything at all, or
\* nothing (PollSkip); a height out of drift is skipped.
PollAsk ==
    /\ poll.pc = "ask"
    /\ \E k \in Keys :
         /\ k.node \in poll.todo
         /\ poll' = IF OutOfDrift(k.height, poll.tip)
                    THEN [poll EXCEPT !.todo = @ \ {k.node}]
                    ELSE [poll EXCEPT !.todo = @ \ {k.node}, !.key = k, !.pc = "quorum"]
    /\ UNCHANGED <<tables, trustedTip, sub, env>>

\* The operator's RPC does not answer: the round goes on with the next node.
PollSkip ==
    /\ poll.pc = "ask"
    /\ \E n \in poll.todo : poll' = [poll EXCEPT !.todo = @ \ {n}]
    /\ UNCHANGED <<tables, trustedTip, sub, env>>

\* Mutant: without a quorum the node is asked about again.
PollQuorumRetry ==
    /\ poll.pc = "quorum"
    /\ \E answer \in QuorumAnswers(poll.key.height) \ {None} :
         poll' = [poll EXCEPT !.pc = "insert", !.award = 0, !.at = now,
                    !.verdict = IF BlockOf[poll.key.hash] = answer
                                THEN "accepted" ELSE "rejected"]
    /\ UNCHANGED <<tables, trustedTip, sub, env>>

PollQuorum ==
    /\ poll.pc = "quorum"
    /\ \E answer \in QuorumAnswers(poll.key.height) :
         IF answer = None
         THEN poll' = NodeDone(poll)
         ELSE LET v == IF BlockOf[poll.key.hash] = answer THEN "accepted" ELSE "rejected" IN
              poll' = [poll EXCEPT !.pc = "insert", !.verdict = v, !.at = now,
                         !.award = IF v = "accepted"
                                   THEN PollPoints(Tier[poll.key.node], poll.key.height, poll.tip)
                                   ELSE 0]
    /\ UNCHANGED <<tables, trustedTip, sub, env>>

\* Mutant: the row is written and the node's is not.
PollInsertOnly ==
    /\ poll.pc = "insert"
    /\ TryInsertProof(poll.key, poll.verdict, poll.award)
    /\ poll' = NodeDone(poll)
    /\ UNCHANGED <<nodes, usedNonces, trustedTip, sub, env>>

PollInsert ==
    /\ poll.pc = "insert"
    /\ TryInsertProof(poll.key, poll.verdict, poll.award)
    /\ poll' = IF Inserted(poll.key) /\ poll.verdict = "accepted"
               THEN [poll EXCEPT !.pc = "apply"] ELSE NodeDone(poll)
    /\ UNCHANGED <<nodes, usedNonces, trustedTip, sub, env>>

PollApply ==
    /\ poll.pc = "apply"
    /\ ApplyProofAcceptance(poll.key, poll.award, poll.at)
    /\ poll' = NodeDone(poll)
    /\ UNCHANGED <<usedNonces, trustedTip, sub, env>>

\* A store call fails: the error is logged and the next node is polled.
PollFail ==
    /\ Faults
    /\ poll.pc \in {"quorum", "insert", "apply"}
    /\ poll' = NodeDone(poll)
    /\ UNCHANGED <<tables, trustedTip, sub, env>>

PollRoundEnds ==
    /\ poll.pc = "ask" /\ poll.todo = {}
    /\ poll' = RoundOver
    /\ UNCHANGED <<tables, trustedTip, sub, env>>

-----------------------------------------------------------------------------
(* The rest of the server, and the world *)

\* tip_refresh_loop: the quorum agreed on a block count.
RefreshTip ==
    /\ Strict
    /\ trustedTip' \in {h \in Heights : h <= chainTip /\ chainTip <= h + TipLag}
    /\ UNCHANGED <<tables, sub, poll, env>>

\* The process dies and starts again: tables survive, tasks and caches do not.
Restart ==
    /\ Faults
    /\ sub' = [h \in Handlers |->
                 IF sub[h].pc \in {"idle", "done"} THEN sub[h]
                 ELSE Replied(sub[h], "failed")]
    /\ poll' = RoundOver
    /\ trustedTip' = None
    /\ UNCHANGED <<tables, env>>

\* No code path suspends a node; an administrator's UPDATE does.
Suspend(n) ==
    /\ n \in CanSuspend
    /\ nodes' = [nodes EXCEPT ![n] = [@ EXCEPT !.status = "suspended"]]
    /\ UNCHANGED <<proofs, usedNonces, trustedTip, sub, poll, env>>

MineBlock ==
    /\ chainTip + 1 \in Heights
    /\ chainTip' = chainTip + 1
    /\ UNCHANGED <<tables, trustedTip, sub, poll, now>>

Tick ==
    /\ now < MaxTime
    /\ now' = now + 1
    /\ UNCHANGED <<tables, trustedTip, sub, poll, chainTip>>

-----------------------------------------------------------------------------
Submit(h) ==
    Receive(h) \/ Lookup(h) \/ Refuse(h) \/ UseNonce(h) \/ ReadTip(h)
        \/ Verify(h) \/ InsertProof(h) \/ Apply(h) \/ Fail(h)

Poll ==
    PollList \/ PollTip \/ PollAsk \/ PollSkip \/ PollQuorum \/ PollInsert
        \/ PollApply \/ PollFail \/ PollRoundEnds

Next ==
    \/ \E h \in Handlers : Submit(h)
    \/ Poll
    \/ RefreshTip \/ Restart \/ MineBlock \/ Tick
    \/ \E n \in Nodes : Suspend(n)

Spec == Init /\ [][Next]_vars

\* Tokio polls every woken task, and each await of a handler or of the poller
\* ends: RPC calls time out and SQLite gives up after its busy timeout.
Handle(h) == Lookup(h) \/ UseNonce(h) \/ ReadTip(h) \/ Verify(h) \/ InsertProof(h) \/ Apply(h)
PollOn == PollTip \/ PollAsk \/ PollSkip \/ PollQuorum \/ PollInsert \/ PollApply \/ PollRoundEnds

FairSpec ==
    /\ Spec
    /\ \A h \in Handlers : WF_vars(Handle(h))
    /\ WF_vars(PollOn)
-----------------------------------------------------------------------------
(* Properties *)

(* Every variable has the shape its declaration says.                       *)
TypeOK ==
    /\ nodes \in [Nodes -> NodeRows]
    /\ proofs \in [Keys -> Rows]
    /\ usedNonces \subseteq Nonces
    /\ trustedTip \in OptHeight
    /\ sub \in [Handlers -> Handling]
    /\ poll \in Polling
    /\ chainTip \in Heights
    /\ now \in 0 .. MaxTime

(* However the submit handlers and the poller interleave, and wherever they *)
(* stop, the award of a proof row is added to its node at most once, and    *)
(* only if the row says accepted.                                           *)
CreditedAtMostOnce ==
    \A k \in Keys :
       /\ proofs[k].credits <= 1
       /\ proofs[k].credits = 1 => proofs[k].verdict = "accepted"

\* The claims the node's points are from.
CreditedKeys(n) == {k \in Keys : k.node = n /\ proofs[k].credits > 0}

\* Request h got past try_use_nonce.
TookNonce(h) ==
    \/ sub[h].pc \in {"tip", "verify", "insert", "apply"}
    \/ sub[h].reply \in Verdicts \cup {"far_behind", "duplicate"}

(* Of all requests that carry one nonce at most one gets past the replay    *)
(* check, even when they arrive together: "exactly-once nonces" of          *)
(* server/tests/concurrency.rs.                                             *)
OneRequestPerNonce ==
    \A g, h \in Handlers :
       TookNonce(g) /\ TookNonce(h) /\ sub[g].req.nonce = sub[h].req.nonce => g = h

(* Of all requests for one (node, height, hash) at most one is answered     *)
(* with a verdict, whatever nonces they carry; the others get 409.          *)
OneVerdictPerClaim ==
    \A g, h \in Handlers :
       /\ sub[g].reply \in Verdicts /\ sub[h].reply \in Verdicts
       /\ KeyOf(sub[g].req) = KeyOf(sub[h].req)
       => g = h

(* A reply tells the operator what the tables hold: "accepted" is on file   *)
(* and paid, "pending" and "rejected" are on file and worth nothing, and a  *)
(* 409 duplicate means that some verdict on that claim is on file.          *)
RepliesAreTrue ==
    \A h \in Handlers :
       LET row == proofs[KeyOf(sub[h].req)] IN
       /\ sub[h].reply = "accepted" => row.verdict = "accepted" /\ row.credits = 1
       /\ sub[h].reply \in {"pending", "rejected"} =>
             row.verdict = sub[h].reply /\ row.points = 0 /\ row.credits = 0
       /\ sub[h].reply = "duplicate" => row.verdict # "none"

(* With a quorum configured, an accepted row names the block the quorum     *)
(* holds at that height, and a height the chain had already reached.        *)
AcceptedIsOnChain ==
    Strict =>
      \A k \in Keys : proofs[k].verdict = "accepted" =>
         BlockOf[k.hash] = Chain[k.height] /\ k.height <= chainTip

(* The height and hash a node shows are those of one of its own credited    *)
(* rows: the two columns always come from the same proof.                   *)
LastProofIsCredited ==
    \A n \in Nodes : nodes[n].lastHeight # None =>
       /\ nodes[n].lastHash # None
       /\ proofs[[node |-> n, height |-> nodes[n].lastHeight,
                  hash |-> nodes[n].lastHash]].credits = 1

(* A proof row is final: no later submission, poll or restart replaces its  *)
(* verdict or its award, or takes a credit back.                            *)
RowsAreFinal ==
    [][\A k \in Keys : proofs[k].verdict # "none" =>
          /\ proofs'[k].verdict = proofs[k].verdict
          /\ proofs'[k].points = proofs[k].points
          /\ proofs'[k].credits >= proofs[k].credits]_vars

\* How the tables read as the abstract ledger.
DecisionOf(row) ==
    CASE row.verdict = "none" -> "open"
      [] row.verdict \in {"rejected", "pending"} -> "refused"
      [] row.verdict = "accepted" /\ row.credits = 0 -> "awarded"
      [] OTHER -> "credited"

Ledger == INSTANCE CreditLedger WITH
    Claims   <- Keys,
    Amounts  <- Awards,
    decision <- [k \in Keys |-> DecisionOf(proofs[k])],
    award    <- [k \in Keys |-> proofs[k].points],
    accrued  <- [n \in Nodes |-> 0],
    balance  <- [n \in Nodes |-> nodes[n].points]

(* Intake implements the ledger: every step of a handler, the poller or a   *)
(* restart is a decision, a credit, or nothing the ledger can see.          *)
ImplementsLedger == Ledger!Spec

(* Every request that is looked up is answered.                             *)
EverySubmissionIsAnswered ==
    \A h \in Handlers : sub[h].pc = "lookup" ~> sub[h].pc = "done"

(* Where nothing fails, every accepted row is eventually credited.          *)
EveryAwardIsCredited ==
    \A k \in Keys : proofs[k].verdict = "accepted" ~> proofs[k].credits = 1

(* A polling round ends, whatever the operators' endpoints answer.          *)
EveryRoundEnds == poll.pc # "idle" ~> poll.pc = "idle"

-----------------------------------------------------------------------------
(* Why they hold: the inductive invariant the proofs use.                   *)

\* The row of k is written and its award is still to be credited.
Due(k, a) ==
    /\ proofs[k].verdict = "accepted" /\ proofs[k].credits = 0
    /\ proofs[k].points = a

\* Whoever is about to credit a row is the only one who ever will.
CreditInv ==
    /\ \A k \in Keys :
         /\ proofs[k].verdict = "none" => proofs[k] = NoRow
         /\ proofs[k].verdict # "accepted" =>
               proofs[k].credits = 0 /\ proofs[k].points = 0
         /\ proofs[k].credits <= 1
    /\ \A h \in Handlers :
         /\ sub[h].verdict # "accepted" => sub[h].award = 0
         /\ sub[h].pc = "apply" =>
               /\ Due(KeyOf(sub[h].req), sub[h].award)
               /\ poll.pc = "apply" => poll.key # KeyOf(sub[h].req)
    /\ poll.verdict # "accepted" => poll.award = 0
    /\ poll.pc = "apply" => Due(poll.key, poll.award)
    /\ \A g, h \in Handlers :
         /\ sub[g].pc = "apply" /\ sub[h].pc = "apply"
         /\ KeyOf(sub[g].req) = KeyOf(sub[h].req)
         => g = h

\* A nonce in the table belongs to the one request that put it there.
NonceInv ==
    /\ \A h \in Handlers : sub[h].pc # "done" => sub[h].reply = "none"
    /\ \A h \in Handlers : TookNonce(h) => sub[h].req.nonce \in usedNonces
    /\ OneRequestPerNonce

\* A verdict "accepted" was true of the chain when it was reached, and the
\* chain only grows.
OnChain(k) == BlockOf[k.hash] = Chain[k.height] /\ k.height <= chainTip
VerdictInv ==
    Strict =>
       /\ \A k \in Keys : proofs[k].verdict = "accepted" => OnChain(k)
       /\ \A h \in Handlers :
             sub[h].pc = "insert" /\ sub[h].verdict = "accepted" => OnChain(KeyOf(sub[h].req))
       /\ poll.pc = "insert" /\ poll.verdict = "accepted" => OnChain(poll.key)

-----------------------------------------------------------------------------
(* What the repository's text says and the code does not do.                *)

Quiet == poll.pc = "idle" /\ \A h \in Handlers : sub[h].pc \in {"idle", "done"}

(* server/tests/concurrency.rs: "point totals are consistent (sum of        *)
(* awarded == wallet stats)", whenever no request is being handled.         *)
TotalsAgree ==
    Quiet => \A n \in Nodes :
       nodes[n].points = MapThenSumSet(LAMBDA k : proofs[k].points,
                                       {k \in Keys : k.node = n})

(* server/src/scheduler.rs: a proof for a block that is already on file is  *)
(* "no double credit", so a node is paid for a block at most once.          *)
OneCreditPerBlock ==
    \A j, k \in Keys :
       /\ proofs[j].credits > 0 /\ proofs[k].credits > 0
       /\ j.node = k.node /\ j.height = k.height /\ BlockOf[j.hash] = BlockOf[k.hash]
       => j = k
=============================================================================
