------------------------------- MODULE Relay -------------------------------
(***************************************************************************)
(* An honest operator's relay in watch mode (prover/src/bin/relay.rs) and  *)
(* the check of its claims against the trusted endpoints (server/src/      *)
(* rpc.rs, called by submit), while the chain grows and every node sees it *)
(* grow in its own time.                                                   *)
(*                                                                         *)
(* The relay asks its node twice, for the height and for the best hash.    *)
(* The server puts one call to all endpoints at once; each answers from    *)
(* the chain it has by then, fails, or - if it is faulty - says anything.  *)
(* The chain does not reorganise: block h is told from every other block,  *)
(* so it is modelled by h.  A claim is also measured against the cached    *)
(* tip, which a task of the server refreshes when a quorum agrees on it.   *)
(* Rows, replays and awards are in ProofIntake.                            *)
(***************************************************************************)
EXTENDS RpcQuorum

CONSTANTS
    None,
    Endpoints,      \* trusted endpoints, none in permissive mode
    Faulty,         \* those that may tell anything
    Handlers,       \* submissions the server checks at once
    Sources,        \* where the relay reads its claim: "rpc", "file"
    Text,           \* a string that is no block hash
    MaxDrift,       \* MAX_HEIGHT_DRIFT
    MaxHeight,      \* bound of the chain
    Faults          \* whether calls fail, relays time out and handlers drop

ASSUME RelayAssumption ==
    /\ Faulty \subseteq Endpoints /\ IsFiniteSet(Endpoints)
    /\ 2 * Cardinality(Faulty) <= Cardinality(Endpoints)
    /\ MaxHeight \in Nat /\ MaxDrift \in Nat /\ Text \notin Nat /\ Faults \in BOOLEAN
    /\ Sources \subseteq {"rpc", "file"}
    /\ None \notin {"accepted", "rejected", "pending"} \cup Nat
    /\ Failed \notin Nat \cup {Text} /\ Errors \cap (Nat \cup {Text}) = {}

VARIABLES
    chain,      \* height of the best chain
    own,        \* height of the operator's node
    view,       \* height of every endpoint
    source,     \* whether the relay runs with --node-rpc or --proof-file
    prover,     \* the height the prover has read and not yet written, or None
    proofFile,  \* the prover's last file: the claim in it, or None
    tip,        \* AppState::trusted_tip, or None
    relay,      \* the tick: where it is, and the claim it gathers
    check       \* per handler: the claim, the tip it found, what was told, the verdict

nodes == <<chain, own, view, source, prover, proofFile>>
vars == <<nodes, tip, relay, check>>
world == <<nodes, tip>>

-----------------------------------------------------------------------------
Heights == 0 .. MaxHeight
Hashes == Heights \cup {Text}
Honest == Endpoints \ Faulty

Unasked == [e \in Endpoints |-> None]
NoCheck == [pc |-> "idle", height |-> 0, hash |-> 0, tip |-> None,
            answers |-> Unasked, verdict |-> None]
NoTick == [pc |-> "sleep", height |-> 0, hash |-> 0, handler |-> None]

Init ==
    /\ chain = 0 /\ own = 0 /\ view = [e \in Endpoints |-> 0]
    /\ source \in Sources
    /\ prover = None /\ proofFile = None
    /\ tip = None
    /\ relay = NoTick
    /\ check = [h \in Handlers |-> NoCheck]

-----------------------------------------------------------------------------
(* The chain, and the nodes that follow it *)

MineBlock ==
    /\ chain < MaxHeight
    /\ chain' = chain + 1
    /\ UNCHANGED <<own, view, source, prover, proofFile, tip, relay, check>>

OwnAdvances ==
    /\ own < chain
    /\ own' = own + 1
    /\ UNCHANGED <<chain, view, source, prover, proofFile, tip, relay, check>>

Advances(e) ==
    /\ view[e] < chain
    /\ view' = [view EXCEPT ![e] = @ + 1]
    /\ UNCHANGED <<chain, own, source, prover, proofFile, tip, relay, check>>

\* depinzcash-prover reads the tip height from Zebra's database ...
ProverReads ==
    /\ source = "file" /\ prover = None
    /\ prover' = own
    /\ UNCHANGED <<chain, own, view, source, proofFile, tip, relay, check>>

\* The file has the height as a number and in decimals (public_inputs[0]), and
\* no block_hash.
ProofFile(height) == [height |-> height, publicInput |-> Text]

\* ... and writes it to a file after a while.
ProverWrites ==
    /\ prover # None
    /\ proofFile' = ProofFile(prover)
    /\ prover' = None
    /\ UNCHANGED <<chain, own, view, source, tip, relay, check>>

-----------------------------------------------------------------------------
(* The relay: watch, submit_once, gather_metrics *)

\* A tick: getblockcount of the operator's node ...
ReadCount ==
    /\ relay.pc = "sleep" /\ source = "rpc"
    /\ relay' = [NoTick EXCEPT !.pc = "hash", !.height = own]
    /\ UNCHANGED <<world, check>>

\* ... and getbestblockhash, in a call of its own.
ReadBestHash ==
    /\ relay.pc = "hash"
    /\ relay' = [relay EXCEPT !.pc = "post", !.hash = own]
    /\ UNCHANGED <<world, check>>

\* metrics.block_hash is not there: public_inputs[0] is taken for it.
ReadProofFile ==
    /\ relay.pc = "sleep" /\ source = "file" /\ proofFile # None
    /\ relay' = [NoTick EXCEPT !.pc = "post", !.height = proofFile.height,
                                   !.hash = proofFile.publicInput]
    /\ UNCHANGED <<world, check>>

\* The signed claim is POSTed, with a nonce of its own; a handler takes it up
\* and reads the cached tip before it asks the endpoints.
Post ==
    /\ relay.pc = "post"
    /\ \E h \in Handlers :
         /\ check[h].pc = "idle"
         /\ check' = [check EXCEPT ![h] =
                        [NoCheck EXCEPT !.pc = "asking", !.height = relay.height,
                                        !.hash = relay.hash, !.tip = tip]]
         /\ relay' = [relay EXCEPT !.pc = "wait", !.handler = h]
    /\ UNCHANGED world

\* A call to the node fails, or the answer does not come in 15 s: the tick is
\* over, with a warning, and the next one starts anew.
TickFails ==
    /\ Faults
    /\ relay.pc # "sleep"
    /\ relay' = NoTick
    /\ UNCHANGED <<world, check>>

-----------------------------------------------------------------------------
(* The server: the cached tip, and get_block_hash of the claimed height *)

\* Who can tell t in answer to getblockcount: the call lasts, so an honest
\* endpoint may have told a height that it is past by now.
CountsTold(t) == [e \in Endpoints |-> IF e \in Faulty \/ t <= view[e] THEN t ELSE Failed]

\* tip_refresh_loop: the quorum agreed on a block count, which it can as soon as
\* those who can tell it are enough - what the others tell makes no difference.
RefreshTip ==
    /\ \E t \in Heights : QuorumCall(CountsTold(t)) = t /\ tip' = t
    /\ UNCHANGED <<nodes, relay, check>>

\* Mutant: an endpoint that does not have the block is waited for.
AnswersWhenSynced(e, h) ==
    /\ check[h].pc = "asking" /\ check[h].answers[e] = None
    /\ view[e] >= check[h].height
    /\ check' = [check EXCEPT ![h].answers[e] = check[h].height]
    /\ UNCHANGED <<world, relay>>

\* An honest endpoint tells the block if it has it, else an error; any call
\* may fail; a faulty endpoint tells anything.
Answers(e, h) ==
    /\ check[h].pc = "asking" /\ check[h].answers[e] = None
    /\ \E v \in Hashes \cup {Failed} :
         /\ \/ e \in Faulty
            \/ Faults /\ v = Failed
            \/ view[e] < check[h].height /\ v = Failed
            \/ view[e] >= check[h].height /\ v = check[h].height
         /\ check' = [check EXCEPT ![h].answers[e] = v]
    /\ UNCHANGED <<world, relay>>

\* Mutant: no quorum is a mismatch.
VerdictOfAnyError(height, hash, cached, answer) ==
    IF answer = hash \/ answer = NoEndpoints THEN "accepted" ELSE "rejected"

\* Too far behind the cached tip, or ahead of it.
OutOfDrift(height, cached) ==
    /\ cached # None
    /\ height + MaxDrift < cached \/ height > cached + MaxDrift

\* Without endpoints a claim is accepted, without a cached tip drift is not
\* looked at.
Verdict(height, hash, cached, answer) ==
    CASE answer = NoEndpoints -> "accepted"
      [] answer \in {AllFailed, NoQuorum} -> "pending"
      [] answer \notin Errors ->
            IF answer # hash \/ OutOfDrift(height, cached) THEN "rejected" ELSE "accepted"

\* join_all is over: the tally, the verdict, and the answer to the relay.
Decide(h) ==
    /\ check[h].pc = "asking"
    /\ \A e \in Endpoints : check[h].answers[e] # None
    /\ check' = [check EXCEPT ![h] =
                   [@ EXCEPT !.pc = "idle", !.answers = Unasked,
                      !.verdict = Verdict(check[h].height, check[h].hash, check[h].tip,
                                          QuorumCall(check[h].answers))]]
    /\ relay' = IF relay.handler = h THEN NoTick ELSE relay
    /\ UNCHANGED world

\* The handler is dropped, its client being gone.
Drop(h) ==
    /\ Faults
    /\ check[h].pc = "asking"
    /\ check' = [check EXCEPT ![h] = NoCheck]
    /\ UNCHANGED <<world, relay>>

\* The cached tip and every handler are lost.
Restart ==
    /\ Faults
    /\ tip' = None
    /\ check' = [h \in Handlers |-> IF check[h].pc = "asking" THEN NoCheck ELSE check[h]]
    /\ UNCHANGED <<nodes, relay>>

-----------------------------------------------------------------------------
Tick == ReadCount \/ ReadBestHash \/ ReadProofFile \/ Post \/ TickFails
Serve(h) == (\E e \in Endpoints : Answers(e, h)) \/ Decide(h) \/ Drop(h)

Next ==
    \/ MineBlock \/ OwnAdvances \/ ProverReads \/ ProverWrites
    \/ \E e \in Honest : Advances(e)
    \/ RefreshTip \/ Restart
    \/ Tick
    \/ \E h \in Handlers : Serve(h)

Spec == Init /\ [][Next]_vars

\* The relay is scheduled and its calls have timeouts; every call of the server
\* to an endpoint has one too (rpc_timeout), and join_all returns.
FairSpec ==
    /\ Spec
    /\ WF_vars(Tick)
    /\ \A h \in Handlers :
          /\ WF_vars(Decide(h))
          /\ \A e \in Endpoints : WF_vars(Answers(e, h))

-----------------------------------------------------------------------------
(* Properties *)

(* Every variable has the shape its declaration says; no node is ahead of   *)
(* the chain.                                                               *)
TypeOK ==
    /\ chain \in Heights /\ own \in 0 .. chain
    /\ view \in [Endpoints -> 0 .. chain]
    /\ source \in Sources
    /\ prover \in 0 .. own \cup {None}
    /\ proofFile \in {ProofFile(h) : h \in 0 .. own} \cup {None}
    /\ tip \in 0 .. chain \cup {None}
    /\ relay \in [pc : {"sleep", "hash", "post", "wait"}, height : Heights, hash : Hashes,
                  handler : Handlers \cup {None}]
    /\ check \in [Handlers -> [pc : {"idle", "asking"}, height : Heights, hash : Hashes,
                     tip : Heights \cup {None},
                     answers : [Endpoints -> Hashes \cup {Failed, None}],
                     verdict : {"accepted", "rejected", "pending", None}]]

(* As long as at most half of the endpoints are faulty, what was accepted   *)
(* is the block of the height it was claimed for - however late, partial or *)
(* wrong the answers were, and wherever the endpoints were in the chain.    *)
AcceptedIsVerified ==
    \A h \in Handlers :
       check[h].verdict = "accepted" /\ Endpoints # {} => check[h].hash = check[h].height

\* The operator's node got a block between the two reads, so the hash is of a
\* higher block; or the claim is from a file of the prover, which has none.
Torn(c) ==
    \/ source = "rpc" /\ c.height < c.hash /\ c.hash <= own
    \/ source = "file" /\ c.hash = Text

\* The claim is whole, but the height it was read at, or the tip the server had
\* cached, is more than MaxDrift blocks short of what the other has of the chain.
Adrift(c) ==
    /\ c.hash = c.height /\ c.height <= own
    /\ c.tip \in 0 .. chain
    /\ c.height + MaxDrift < c.tip \/ c.tip + MaxDrift < c.height

(* An honest claim is rejected only if it is torn, or if its node or the    *)
(* server's cached tip really is more than MaxDrift blocks behind the       *)
(* chain.  Faulty, late and failing endpoints never have it rejected:       *)
(* neither by what they tell of the block nor through the tip they tell.    *)
RejectedForCause ==
    \A h \in Handlers :
       check[h].verdict = "rejected" => Torn(check[h]) \/ Adrift(check[h])

(* Every tick of the relay and every check of the server ends, whatever the *)
(* endpoints do.                                                            *)
EveryTickEnds ==
    /\ (relay.pc # "sleep") ~> (relay.pc = "sleep")
    /\ \A h \in Handlers : (check[h].pc = "asking") ~> (check[h].pc = "idle")

-----------------------------------------------------------------------------
(* Why they hold: the inductive invariant the proofs use.                   *)

\* What an honest relay claims, torn or not.
Gathered(height, hash) ==
    \/ source = "rpc" /\ hash \in height .. own
    \/ source = "file" /\ hash = Text

ClaimsAreGathered ==
    /\ relay.pc = "hash" => source = "rpc" /\ relay.height <= own
    /\ relay.pc \in {"post", "wait"} => Gathered(relay.height, relay.hash)
    /\ \A h \in Handlers : check[h].pc = "asking" \/ check[h].verdict = "rejected" =>
          Gathered(check[h].height, check[h].hash)

\* Honest endpoints tell nothing but the block that was asked for.
HonestAnswers ==
    \A h \in Handlers : \A e \in Honest :
       check[h].answers[e] \in {None, Failed, check[h].height}

\* The tip a handler found was a height of the chain.
TipsAreReached == \A h \in Handlers : check[h].tip # None => check[h].tip <= chain

RelayInv == /\ TypeOK /\ ClaimsAreGathered /\ HonestAnswers /\ TipsAreReached
            /\ AcceptedIsVerified /\ RejectedForCause
=============================================================================
