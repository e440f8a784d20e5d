---------------------------- MODULE Registration ----------------------------
(***************************************************************************)
(* Registering nodes of one wallet: POST /api/nodes/register              *)
(* (server/src/api/nodes.rs), the relay's `register` command               *)
(* (prover/src/bin/relay.rs) and the loop of the operator's script         *)
(* (scripts/depinzcash-compose-node.sh) that runs it again when it fails.  *)
(*                                                                         *)
(* A handler runs from one await to the next: nonce, list, insert.  Its    *)
(* client may stop waiting at any of them (the relay waits 15 s), the      *)
(* answer may be lost, and the script then signs a fresh request while     *)
(* the old one may still be handled.  A request once sent may also be      *)
(* delivered again.  The credentials exist in the answer only: the relay   *)
(* writes them to a file, and a relay that has the file is done.           *)
(***************************************************************************)
EXTENDS Naturals, Sequences

CONSTANTS
    None,
    Operators,      \* relays with the key of the wallet, one node each
    Handlers,       \* requests the server handles at once
    KindArgs,       \* spellings given to --kind
    Labels,         \* labels in a request: NULL (None), Empty, or a name
    Empty,          \* the empty string
    Network,        \* the server's network
    MaxAttempts,    \* bound of the times a relay is run
    Faults          \* lost answers, dropped handlers, restarts, 429s

ASSUME RegistrationAssumption ==
    /\ Empty # None /\ None \notin KindArgs
    /\ MaxAttempts \in Nat \ {0} /\ Faults \in BOOLEAN

VARIABLES
    args,       \* per operator: the kind and label it registers with
    open,       \* config: registration_enabled
    nodes,      \* table nodes: a row's place stands for its id and token
    nonces,     \* table used_nonces
    hand,       \* per handler: where it is and the request it handles
    relay,      \* per operator: the run of the relay and the answer it got
    file        \* per operator: the node in relay-state.json, or 0

vars == <<args, open, nodes, nonces, hand, relay, file>>

-----------------------------------------------------------------------------
Requests == [op : Operators, attempt : 1 .. MaxAttempts]
NoRequest == [op |-> None, attempt |-> 0]
\* random_nonce: fresh in every run, so the attempt stands for it too.
NonceOf(req) == req

Kinds == {"zebra-full", "lightwalletd"}
\* Mutant: the kind is stored as it is spelled.
ParseAsGiven(kind) == kind
\* NodeKind::parse
Parse(kind) ==
    CASE kind \in {"zebra-full", "zebra_full", "zebrafull"} -> "zebra-full"
      [] kind \in {"lightwalletd", "lwd"} -> "lightwalletd"
      [] OTHER -> None

LabelText(label) == IF label = None THEN Empty ELSE label

\* What the relay signs and what the server verifies, as far as they differ.
SignedMessage(a) == <<a.kind, "mainnet", LabelText(a.label)>>
ExpectedMessage(a) == <<Parse(a.kind), Network, LabelText(a.label)>>
SignatureHolds(a) == SignedMessage(a) = ExpectedMessage(a)

\* The check of the handler: a row of this kind, with NULL like "".
SameName(n, a) == n.kind = Parse(a.kind) /\ LabelText(n.label) = LabelText(a.label)
\* UNIQUE (wallet, kind, label): NULL equals nothing.
SameKey(n, a) == n.kind = Parse(a.kind) /\ a.label # None /\ n.label = a.label

\* list_nodes_by_wallet
Rows == {nodes[i] : i \in 1 .. Len(nodes)}

\* try_use_nonce: INSERT OR IGNORE.
TryUseNonce(req) == nonces' = nonces \cup {NonceOf(req)}
NonceUsed(req) == NonceOf(req) \in nonces

ArgsOf(h) == args[hand[h].req.op]
\* A new id and token: the row's place.
NewNode(h) == [kind |-> Parse(ArgsOf(h).kind), label |-> ArgsOf(h).label, req |-> hand[h].req]
InsertRow(n) == nodes' = Append(nodes, n)

Idle == [pc |-> "idle", req |-> NoRequest]
NotRunning == [pc |-> "ready", attempt |-> 0, status |-> None, node |-> 0]

Init ==
    /\ args \in [Operators -> [kind : KindArgs, label : Labels]]
    /\ open \in BOOLEAN
    /\ nodes = <<>> /\ nonces = {}
    /\ hand = [h \in Handlers |-> Idle]
    /\ relay = [o \in Operators |-> NotRunning]
    /\ file = [o \in Operators |-> 0]

-----------------------------------------------------------------------------
(* The relay, and the script that runs it *)

\* register: sign, POST.  The script does not run it when the file is there.
Send(o) ==
    /\ relay[o].pc = "ready" /\ file[o] = 0
    /\ relay[o].attempt < MaxAttempts
    /\ relay' = [relay EXCEPT ![o] = [pc |-> "waiting", attempt |-> relay[o].attempt + 1,
                                 status |-> None, node |-> 0]]
    /\ UNCHANGED <<args, open, nodes, nonces, hand, file>>

\* An answer reaches the relay that waits for it, or nobody.
Answer(req, status, node) ==
    \/ /\ relay[req.op].pc = "waiting" /\ relay[req.op].attempt = req.attempt
       /\ relay' = [relay EXCEPT ![req.op] =
                      [@ EXCEPT !.pc = "answered", !.status = status, !.node = node]]
    \/ /\ Faults \/ relay[req.op].pc # "waiting" \/ relay[req.op].attempt # req.attempt
       /\ UNCHANGED relay

\* No answer in 15 s, no connection, or Ctrl-C: the script, or its operator,
\* runs it again.
Timeout(o) ==
    /\ Faults
    /\ relay[o].pc = "waiting"
    /\ relay' = [relay EXCEPT ![o].pc = "ready"]
    /\ UNCHANGED <<args, open, nodes, nonces, hand, file>>

\* 200: fs::write of the state file.
Save(o) ==
    /\ relay[o].pc = "answered" /\ relay[o].status = "ok"
    /\ file' = [file EXCEPT ![o] = relay[o].node]
    /\ relay' = [relay EXCEPT ![o].pc = "done"]
    /\ UNCHANGED <<args, open, nodes, nonces, hand>>

\* 429 and 403: run again; anything else: the script dies.
GiveUpOrRetry(o) ==
    /\ relay[o].pc = "answered" /\ relay[o].status # "ok"
    /\ relay' = [relay EXCEPT ![o].pc =
                   IF relay[o].status \in {"busy", "forbidden"} THEN "ready" ELSE "dead"]
    /\ UNCHANGED <<args, open, nodes, nonces, hand, file>>

\* A crash before the file is written, or a second go after the script died.
RunAgain(o) ==
    /\ Faults
    /\ relay[o].pc \in {"answered", "dead"}
    /\ relay' = [relay EXCEPT ![o].pc = "ready"]
    /\ UNCHANGED <<args, open, nodes, nonces, hand, file>>

-----------------------------------------------------------------------------
(* register, on the server *)

\* 429 of the rate limiter, before the handler.
RateLimit(o) ==
    /\ Faults
    /\ relay[o].pc = "waiting"
    /\ Answer([op |-> o, attempt |-> relay[o].attempt], "busy", 0)
    /\ UNCHANGED <<args, open, nodes, nonces, hand, file>>

\* A request arrives, for the first time or again; the checks up to the
\* signature need no store.  A late one has a timestamp out of the window.
Receive(h) ==
    /\ hand[h].pc = "idle"
    /\ \E req \in Requests :
         /\ req.attempt <= relay[req.op].attempt
         /\ \/ /\ ~open
               /\ Answer(req, "forbidden", 0)
               /\ UNCHANGED hand
            \/ /\ open
               /\ Faults \/ ~SignatureHolds(args[req.op])
               /\ Answer(req, "bad", 0)
               /\ UNCHANGED hand
            \/ /\ open
               /\ SignatureHolds(args[req.op])
               /\ hand' = [hand EXCEPT ![h] = [pc |-> "nonce", req |-> req]]
               /\ UNCHANGED relay
    /\ UNCHANGED <<args, open, nodes, nonces, file>>

\* The handler answers and ends.
End(h, status, node) ==
    /\ Answer(hand[h].req, status, node)
    /\ hand' = [hand EXCEPT ![h] = Idle]

Goto(h, pc) ==
    /\ hand' = [hand EXCEPT ![h].pc = pc]
    /\ UNCHANGED relay

\* Mutant: the nonce is looked up and recorded at the end.
UseNonceUnspent(h) ==
    /\ hand[h].pc = "nonce"
    /\ IF NonceUsed(hand[h].req) THEN End(h, "conflict", 0) ELSE Goto(h, "list")
    /\ UNCHANGED <<args, open, nodes, nonces, file>>

\* 409 "nonce already used".
UseNonce(h) ==
    /\ hand[h].pc = "nonce"
    /\ TryUseNonce(hand[h].req)
    /\ IF NonceUsed(hand[h].req) THEN End(h, "conflict", 0) ELSE Goto(h, "list")
    /\ UNCHANGED <<args, open, nodes, file>>

\* Mutants: the node that is there is handed out; the label is not looked at.
ListAndReturn(h) ==
    /\ hand[h].pc = "list"
    /\ \/ \E i \in 1 .. Len(nodes) :
            SameName(nodes[i], ArgsOf(h)) /\ End(h, "ok", i)
       \/ (\A n \in Rows : ~SameName(n, ArgsOf(h))) /\ Goto(h, "insert")
    /\ UNCHANGED <<args, open, nodes, nonces, file>>
ListAnyLabel(h) ==
    /\ hand[h].pc = "list"
    /\ IF \E n \in Rows : n.kind = Parse(ArgsOf(h).kind)
       THEN End(h, "taken", 0)
       ELSE Goto(h, "insert")
    /\ UNCHANGED <<args, open, nodes, nonces, file>>

\* list_nodes_by_wallet and its filter: 409 "already registered".
List(h) ==
    /\ hand[h].pc = "list"
    /\ IF \E n \in Rows : SameName(n, ArgsOf(h))
       THEN End(h, "taken", 0)
       ELSE Goto(h, "insert")
    /\ UNCHANGED <<args, open, nodes, nonces, file>>

\* Mutant: the table has no UNIQUE key.
InsertAnyway(h) ==
    /\ hand[h].pc = "insert"
    /\ InsertRow(NewNode(h))
    /\ End(h, "ok", Len(nodes) + 1)
    /\ UNCHANGED <<args, open, nonces, file>>

\* insert_node: 500 when the UNIQUE key is taken.
InsertNode(h) ==
    /\ hand[h].pc = "insert"
    /\ IF \E n \in Rows : SameKey(n, ArgsOf(h))
       THEN End(h, "error", 0) /\ UNCHANGED nodes
       ELSE InsertRow(NewNode(h)) /\ End(h, "ok", Len(nodes) + 1)
    /\ UNCHANGED <<args, open, nonces, file>>

\* The store fails, or the handler is dropped because its client is gone.
Fail(h) ==
    /\ Faults
    /\ hand[h].pc # "idle"
    /\ End(h, "error", 0)
    /\ UNCHANGED <<args, open, nodes, nonces, file>>

\* Requests in progress end without an answer; the configuration may change.
Restart ==
    /\ Faults
    /\ hand' = [h \in Handlers |-> Idle]
    /\ open' \in BOOLEAN
    /\ UNCHANGED <<args, nodes, nonces, relay, file>>

-----------------------------------------------------------------------------
Next ==
    \/ \E o \in Operators :
          \/ Send(o) \/ Timeout(o) \/ Save(o) \/ GiveUpOrRetry(o) \/ RunAgain(o)
          \/ RateLimit(o)
    \/ \E h \in Handlers :
          Receive(h) \/ UseNonce(h) \/ List(h) \/ InsertNode(h) \/ Fail(h)
    \/ Restart

Spec == Init /\ [][Next]_vars

-----------------------------------------------------------------------------
(* Properties *)

Statuses == {"ok", "busy", "forbidden", "bad", "conflict", "taken", "error"}

Runs == [pc : {"ready", "waiting", "answered", "dead", "done"},
         attempt : 0 .. MaxAttempts,
         status : Statuses \cup {None}, node : 0 .. Len(nodes)]

(* Every variable has the shape its declaration says; in particular the     *)
(* table holds canonical kinds only.                                        *)
TypeOK ==
    /\ args \in [Operators -> [kind : KindArgs, label : Labels]]
    /\ open \in BOOLEAN
    /\ nodes \in Seq([kind : Kinds, label : Labels, req : Requests])
    /\ nonces \subseteq Requests
    /\ hand \in [Handlers -> [pc : {"idle", "nonce", "list", "insert"},
                              req : Requests \cup {NoRequest}]]
    /\ relay \in [Operators -> Runs]
    /\ file \in [Operators -> 0 .. Len(nodes)]

(* A signed request makes one node at most, however often it is delivered   *)
(* and however its handlings overlap.                                       *)
OneNodePerRequest ==
    \A i, j \in 1 .. Len(nodes) : nodes[i].req = nodes[j].req => i = j

(* The credentials in a relay's file are those of a node of its own: made   *)
(* by one of its requests, under its own kind and label.  No two relays     *)
(* share a node, whoever else registers the same name at the same time.     *)
OwnCredentials ==
    \A o \in Operators : file[o] # 0 =>
       /\ nodes[file[o]].req.op = o
       /\ SameName(nodes[file[o]], args[o])

(* "Already registered" is true, and said of another request's node: a      *)
(* relay is never refused because of the very request it waits for.         *)
RefusedByAnother ==
    \A o \in Operators : relay[o].pc = "answered" /\ relay[o].status = "taken" =>
       \E n \in Rows : /\ SameName(n, args[o])
                       /\ n.req # [op |-> o, attempt |-> relay[o].attempt]

(* Two nodes never have the same kind and label, where there is a label:    *)
(* handlers that both found the name free are told apart by the UNIQUE key. *)
OneNodePerLabel ==
    \A i, j \in 1 .. Len(nodes) :
       nodes[i].label # None /\ nodes[i].kind = nodes[j].kind /\ nodes[i].label = nodes[j].label
          => i = j

-----------------------------------------------------------------------------
(* The inductive invariant of RegistrationProofs *)

\* A handler that has spent its nonce is alone with its request, which has
\* made no node yet.
NonceSpent(h) == hand[h].pc \in {"list", "insert"}
RequestsAreHandledOnce ==
    /\ \A h \in Handlers : NonceSpent(h) =>
          /\ hand[h].req \in nonces
          /\ \A i \in 1 .. Len(nodes) : nodes[i].req # hand[h].req
    /\ \A g, h \in Handlers : NonceSpent(g) /\ NonceSpent(h) /\ hand[g].req = hand[h].req
                               => g = h
    /\ \A i \in 1 .. Len(nodes) : nodes[i].req \in nonces

\* What is handled was signed with the kind the server parses it to, and a row
\* is named as its request asked.
NamesAreSigned ==
    /\ \A h \in Handlers : hand[h].pc # "idle" =>
          hand[h].req \in Requests /\ SignatureHolds(ArgsOf(h))
    /\ \A i \in 1 .. Len(nodes) : SameName(nodes[i], args[nodes[i].req.op])

\* A relay that was told "ok" was given a node one of its requests made.
AnswersAreOwn ==
    \A o \in Operators : relay[o].pc = "answered" /\ relay[o].status = "ok" =>
       relay[o].node # 0 /\ nodes[relay[o].node].req.op = o

RegistrationInv ==
    /\ TypeOK /\ RequestsAreHandledOnce /\ NamesAreSigned /\ AnswersAreOwn
    /\ OneNodePerRequest /\ OneNodePerLabel /\ OwnCredentials /\ RefusedByAnother

-----------------------------------------------------------------------------
(* What the repository's text says and the code does not do.                *)

(* nodes.rs: "node already registered (wallet, kind, label) - use a unique  *)
(* label": no two nodes have one kind and label, a missing one included.    *)
OneNodePerName ==
    \A i, j \in 1 .. Len(nodes) :
       nodes[i].kind = nodes[j].kind /\ LabelText(nodes[i].label) = LabelText(nodes[j].label)
          => i = j
=============================================================================
