------------------------- MODULE RegistrationProofs -------------------------
(***************************************************************************)
(* Theorems about Registration, for any number of relays, handlers, runs,  *)
(* labels and repeated deliveries.                                         *)
(*                                                                         *)
(* The argument: try_use_nonce admits a request once, so a handler past it *)
(* is alone with its request (RequestsAreHandledOnce); a verified request  *)
(* is spelled as the server parses it, so a row bears the name its request *)
(* asked for (NamesAreSigned); and an answer names the row it was made     *)
(* with (AnswersAreOwn).  The rest follows from these three.               *)
(***************************************************************************)
EXTENDS Registration, TLAPS

\* The run of a relay that has its answer.
Answered(run, status, node) ==
    [pc |-> "answered", attempt |-> run.attempt, status |-> status, node |-> node]

\* What an answer does to the relays: at most the one that waits for it turns
\* to "answered".
LEMMA AnswerSteps ==
    ASSUME TypeOK, NEW req \in Requests, NEW status, NEW node, Answer(req, status, node),
           NEW o \in Operators
    PROVE  \/ relay'[o] = relay[o]
           \/ /\ o = req.op /\ relay[o].attempt = req.attempt
              /\ relay'[o] = Answered(relay[o], status, node)
<1>1. relay \in [Operators -> Runs] /\ relay[o] \in Runs
  BY DEF TypeOK
<1>2. CASE UNCHANGED relay
  BY <1>2
<1>3. CASE /\ relay[req.op].attempt = req.attempt
           /\ relay' = [relay EXCEPT ![req.op] = [relay[req.op] EXCEPT
                          !.pc = "answered", !.status = status, !.node = node]]
  <2>1. CASE o = req.op
    <3>1. relay'[o] = [relay[o] EXCEPT !.pc = "answered", !.status = status, !.node = node]
      BY <1>1, <1>3, <2>1
    <3> QED BY <1>1, <1>3, <2>1, <3>1 DEF Runs, Answered
  <2>2. CASE o # req.op
    BY <1>1, <1>3, <2>2
  <2> QED BY <2>1, <2>2
<1> QED BY <1>2, <1>3 DEF Answer

LEMMA AnswerType ==
    ASSUME TypeOK, NEW req \in Requests, NEW status \in Statuses,
           NEW node \in 0 .. Len(nodes'), Len(nodes) \in Nat, Len(nodes') \in Nat,
           Len(nodes) <= Len(nodes'), Answer(req, status, node)
    PROVE  relay' \in [Operators -> Runs']
<1>1. relay' = [o \in Operators |-> relay'[o]]
  BY DEF Answer, TypeOK
<1>2. ASSUME NEW o \in Operators
      PROVE  relay'[o] \in Runs'
  <2>1. relay[o] \in Runs
    BY DEF TypeOK
  <2>2. CASE relay'[o] = relay[o]
    BY <2>1, <2>2 DEF Runs
  <2>3. CASE relay'[o] = Answered(relay[o], status, node)
    BY <2>1, <2>3 DEF Answered, Runs
  <2> QED BY <2>2, <2>3, AnswerSteps
<1> QED BY <1>1, <1>2

-----------------------------------------------------------------------------
(* Types *)

LEMMA NamesParse ==
    ASSUME TypeOK, NamesAreSigned, NEW h \in Handlers, hand[h].pc # "idle"
    PROVE  /\ hand[h].req \in Requests
           /\ ArgsOf(h) \in [kind : KindArgs, label : Labels]
           /\ Parse(ArgsOf(h).kind) = ArgsOf(h).kind /\ ArgsOf(h).kind \in Kinds
<1>1. hand[h].req \in Requests /\ SignatureHolds(ArgsOf(h))
  BY DEF NamesAreSigned
<1>2. ArgsOf(h) \in [kind : KindArgs, label : Labels]
  BY <1>1 DEF TypeOK, ArgsOf, Requests
<1>3. ArgsOf(h).kind = Parse(ArgsOf(h).kind)
  BY <1>1 DEF SignatureHolds, SignedMessage, ExpectedMessage
<1>4. ArgsOf(h).kind # None
  BY <1>2, RegistrationAssumption
<1>5. ArgsOf(h).kind \in Kinds
  BY <1>3, <1>4 DEF Parse, Kinds
<1> QED BY <1>1, <1>2, <1>3, <1>5

LEMMA NewNodeType ==
    ASSUME TypeOK, NamesAreSigned, NEW h \in Handlers, hand[h].pc # "idle"
    PROVE  NewNode(h) \in [kind : Kinds, label : Labels, req : Requests]
BY NamesParse DEF NewNode

LEMMA LengthType == TypeOK => Len(nodes) \in Nat
BY DEF TypeOK

LEMMA RelayTypeNext ==
    ASSUME TypeOK, NEW o \in Operators,
           \/ Send(o) \/ Timeout(o) \/ Save(o) \/ GiveUpOrRetry(o) \/ RunAgain(o)
           \/ RateLimit(o)
    PROVE  TypeOK'
<1>1. UNCHANGED <<args, open, nodes, nonces, hand>>
  BY DEF Send, Timeout, Save, GiveUpOrRetry, RunAgain, RateLimit
<1>2. relay \in [Operators -> Runs] /\ relay[o] \in Runs
  BY DEF TypeOK
<1>3. Runs' = Runs
  BY <1>1 DEF Runs
<1>4. relay' \in [Operators -> Runs]
  <2>1. CASE Send(o)
    <3>1. relay[o].attempt + 1 \in 0 .. MaxAttempts
      BY <1>2, <2>1, RegistrationAssumption DEF Send, Runs
    <3>2. 0 \in 0 .. Len(nodes)
      BY LengthType
    <3> QED BY <1>2, <2>1, <3>1, <3>2 DEF Send, Runs
  <2>2. CASE Timeout(o) \/ Save(o) \/ GiveUpOrRetry(o) \/ RunAgain(o)
    <3>1. PICK pc \in {"ready", "done", "dead"} : relay' = [relay EXCEPT ![o].pc = pc]
      BY <2>2 DEF Timeout, Save, GiveUpOrRetry, RunAgain
    <3> QED BY <1>2, <3>1 DEF Runs
  <2>3. CASE RateLimit(o)
    <3>1. 0 \in 0 .. Len(nodes)
      BY LengthType
    <3>2. \/ UNCHANGED relay
          \/ relay' = [relay EXCEPT ![o] = [relay[o] EXCEPT
                          !.pc = "answered", !.status = "busy", !.node = 0]]
      BY <2>3 DEF RateLimit, Answer
    <3>3. [relay[o] EXCEPT !.pc = "answered", !.status = "busy", !.node = 0] \in Runs
      BY <1>2, <3>1 DEF Runs, Statuses
    <3> QED BY <1>2, <3>2, <3>3
  <2> QED BY <2>1, <2>2, <2>3
<1>5. file' \in [Operators -> 0 .. Len(nodes)]
  <2>1. relay[o].node \in 0 .. Len(nodes)
    BY <1>2 DEF Runs
  <2>2. file' = file \/ file' = [file EXCEPT ![o] = relay[o].node]
    BY DEF Send, Timeout, Save, GiveUpOrRetry, RunAgain, RateLimit
  <2> QED BY <2>1, <2>2 DEF TypeOK
<1> QED BY <1>1, <1>3, <1>4, <1>5 DEF TypeOK

LEMMA ReceiveType ==
    ASSUME TypeOK, NEW h \in Handlers, Receive(h)
    PROVE  TypeOK'
<1>1. PICK req \in Requests :
         \/ Answer(req, "forbidden", 0) /\ UNCHANGED hand
         \/ Answer(req, "bad", 0) /\ UNCHANGED hand
         \/ UNCHANGED relay /\ hand' = [hand EXCEPT ![h] = [pc |-> "nonce", req |-> req]]
  BY DEF Receive
<1>2. UNCHANGED <<args, open, nodes, nonces, file>>
  BY DEF Receive
<1>3. Len(nodes) \in Nat /\ Len(nodes') = Len(nodes) /\ 0 \in 0 .. Len(nodes')
  BY <1>2, LengthType
<1>4. relay' \in [Operators -> Runs']
  <2>1. CASE UNCHANGED relay
    BY <1>2, <2>1 DEF TypeOK, Runs
  <2>2. CASE Answer(req, "forbidden", 0)
    BY <1>3, <2>2, AnswerType DEF Statuses
  <2>3. CASE Answer(req, "bad", 0)
    BY <1>3, <2>3, AnswerType DEF Statuses
  <2> QED BY <1>1, <2>1, <2>2, <2>3
<1>5. hand' \in [Handlers -> [pc : {"idle", "nonce", "list", "insert"},
                              req : Requests \cup {NoRequest}]]
  BY <1>1 DEF TypeOK
<1> QED BY <1>2, <1>3, <1>4, <1>5 DEF TypeOK

\* Whatever a handler does: its effect on itself, the rows and the relays.
LEMMA HandlerSteps ==
    ASSUME NEW h \in Handlers, UseNonce(h) \/ List(h) \/ InsertNode(h) \/ Fail(h)
    PROVE  /\ hand[h].pc # "idle" /\ UNCHANGED <<args, open, file>>
           /\ nonces' = nonces \/ nonces' = nonces \cup {hand[h].req}
           /\ \/ \E pc \in {"list", "insert"} : Goto(h, pc) /\ UNCHANGED nodes
              \/ \E status \in {"conflict", "taken", "error"} :
                    End(h, status, 0) /\ UNCHANGED nodes
              \/ End(h, "ok", Len(nodes) + 1) /\ InsertRow(NewNode(h))
BY DEF UseNonce, List, InsertNode, Fail, TryUseNonce, NonceOf

LEMMA HandlerType ==
    ASSUME TypeOK, NamesAreSigned, NEW h \in Handlers,
           UseNonce(h) \/ List(h) \/ InsertNode(h) \/ Fail(h)
    PROVE  TypeOK'
<1> DEFINE Hands == [Handlers -> [pc : {"idle", "nonce", "list", "insert"},
                                  req : Requests \cup {NoRequest}]]
<1>1. /\ hand[h].pc # "idle" /\ UNCHANGED <<args, open, file>>
      /\ nonces' = nonces \/ nonces' = nonces \cup {hand[h].req}
  BY HandlerSteps
<1>2. hand[h].req \in Requests /\ Len(nodes) \in Nat
  BY <1>1, LengthType DEF NamesAreSigned
<1>3. nonces' \subseteq Requests
  BY <1>1, <1>2 DEF TypeOK
<1>4. CASE \E pc \in {"list", "insert"} : Goto(h, pc) /\ UNCHANGED nodes
  <2>1. hand' \in Hands
    BY <1>4 DEF Goto, TypeOK
  <2>2. UNCHANGED <<relay, nodes>>
    BY <1>4 DEF Goto
  <2> QED BY <1>1, <1>3, <2>1, <2>2 DEF TypeOK, Runs
<1>5. CASE \E status \in {"conflict", "taken", "error"} :
              End(h, status, 0) /\ UNCHANGED nodes
  <2>1. hand' \in Hands
    BY <1>5 DEF End, TypeOK, Idle
  <2>2. PICK status \in Statuses : Answer(hand[h].req, status, 0)
    BY <1>5 DEF End, Statuses
  <2>3. nodes' = nodes
    BY <1>5
  <2>4. relay' \in [Operators -> Runs']
    BY <1>2, <2>2, <2>3, AnswerType
  <2> QED BY <1>1, <1>3, <2>1, <2>3, <2>4 DEF TypeOK
<1>6. CASE End(h, "ok", Len(nodes) + 1) /\ InsertRow(NewNode(h))
  <2>1. hand' \in Hands
    BY <1>6 DEF End, TypeOK, Idle
  <2>2. NewNode(h) \in [kind : Kinds, label : Labels, req : Requests]
    BY <1>1, NewNodeType
  <2>3. nodes' = Append(nodes, NewNode(h)) /\ Len(nodes') = Len(nodes) + 1
    BY <1>6 DEF InsertRow, TypeOK
  <2>4. nodes' \in Seq([kind : Kinds, label : Labels, req : Requests])
    BY <2>2, <2>3 DEF TypeOK
  <2>5. Answer(hand[h].req, "ok", Len(nodes) + 1)
    BY <1>6 DEF End
  <2>6. relay' \in [Operators -> Runs']
    BY <1>2, <2>3, <2>5, AnswerType DEF Statuses
  <2>7. file' \in [Operators -> 0 .. Len(nodes')]
    BY <1>1, <1>2, <2>3 DEF TypeOK
  <2> QED BY <1>1, <1>3, <2>1, <2>4, <2>6, <2>7 DEF TypeOK
<1> QED BY <1>4, <1>5, <1>6, HandlerSteps

LEMMA RestartType == TypeOK /\ Restart => TypeOK'
BY DEF TypeOK, Restart, Idle, Runs

LEMMA TypeNext == TypeOK /\ NamesAreSigned /\ [Next]_vars => TypeOK'
<1>1. UNCHANGED vars /\ TypeOK => TypeOK'
  BY DEF TypeOK, vars, Runs
<1> QED BY <1>1, RelayTypeNext, ReceiveType, HandlerType, RestartType DEF Next

-----------------------------------------------------------------------------
(* Requests *)

\* A row is appended or nothing happens to the table.
LEMMA RowsGrow ==
    ASSUME TypeOK, [Next]_vars
    PROVE  /\ Len(nodes) \in Nat /\ Len(nodes') \in Nat
           /\ UNCHANGED args
           /\ \A i \in 1 .. Len(nodes) : i \in 1 .. Len(nodes') /\ nodes'[i] = nodes[i]
           /\ \/ nodes' = nodes
              \/ \E h \in Handlers :
                    /\ InsertNode(h)
                    /\ nodes' = Append(nodes, NewNode(h))
                    /\ Len(nodes') = Len(nodes) + 1
                    /\ nodes'[Len(nodes) + 1] = NewNode(h)
                    /\ \A n \in Rows : ~SameKey(n, ArgsOf(h))
<1>1. \/ UNCHANGED <<args, nodes>>
      \/ \E h \in Handlers : /\ InsertNode(h) /\ InsertRow(NewNode(h))
                             /\ \A n \in Rows : ~SameKey(n, ArgsOf(h))
  BY DEF Next, vars, Send, Timeout, Save, GiveUpOrRetry, RunAgain, RateLimit,
         Receive, UseNonce, List, InsertNode, Fail, Restart
<1>2. nodes \in Seq([kind : Kinds, label : Labels, req : Requests])
  BY DEF TypeOK
<1>3. CASE UNCHANGED <<args, nodes>>
  BY <1>2, <1>3
<1>4. ASSUME NEW h \in Handlers, InsertNode(h), InsertRow(NewNode(h)),
             \A n \in Rows : ~SameKey(n, ArgsOf(h))
      PROVE  /\ nodes' = Append(nodes, NewNode(h))
             /\ Len(nodes') = Len(nodes) + 1
             /\ nodes'[Len(nodes) + 1] = NewNode(h)
             /\ \A i \in 1 .. Len(nodes) : i \in 1 .. Len(nodes') /\ nodes'[i] = nodes[i]
  <2>1. nodes' = Append(nodes, NewNode(h))
    BY <1>4 DEF InsertRow
  <2>2. Len(nodes) \in Nat /\ Len(nodes') = Len(nodes) + 1
    BY <1>2, <2>1
  <2> QED BY <1>2, <2>1, <2>2
<1> QED BY <1>1, <1>2, <1>3, <1>4 DEF InsertNode

\* A handler goes on with the request it has, or is idle.
LEMMA GotoHand ==
    ASSUME TypeOK, NEW h \in Handlers, NEW pc, Goto(h, pc)
    PROVE  /\ hand'[h].pc = pc /\ hand'[h].req = hand[h].req
           /\ \A g \in Handlers : g # h => hand'[g] = hand[g]
BY DEF Goto, TypeOK

LEMMA EndHand ==
    ASSUME TypeOK, NEW h \in Handlers, NEW status, NEW node, End(h, status, node)
    PROVE  /\ hand'[h].pc = "idle"
           /\ \A g \in Handlers : g # h => hand'[g] = hand[g]
BY DEF End, TypeOK, Idle

\* Every step but UseNonce and InsertNode leaves rows and nonces alone, and
\* no handler becomes one that has spent its nonce.
LEMMA QuietSteps ==
    ASSUME TypeOK, [Next]_vars, \A h \in Handlers : ~UseNonce(h) /\ ~InsertNode(h)
    PROVE  /\ UNCHANGED <<nodes, nonces>>
           /\ \A g \in Handlers : NonceSpent(g)' => NonceSpent(g) /\ hand'[g].req = hand[g].req
<1>1. CASE UNCHANGED <<nodes, nonces, hand>>
  BY <1>1 DEF NonceSpent
<1>2. ASSUME NEW h \in Handlers, Receive(h)
      PROVE  /\ UNCHANGED <<nodes, nonces>>
             /\ \A g \in Handlers : NonceSpent(g)' => NonceSpent(g) /\ hand'[g].req = hand[g].req
  <2>1. \/ hand' = hand
        \/ \E req \in Requests : hand' = [hand EXCEPT ![h] = [pc |-> "nonce", req |-> req]]
    BY <1>2 DEF Receive
  <2>2. hand \in [Handlers -> [pc : {"idle", "nonce", "list", "insert"},
                               req : Requests \cup {NoRequest}]]
    BY DEF TypeOK
  <2> QED BY <1>2, <2>1, <2>2 DEF Receive, NonceSpent
<1>3. ASSUME NEW h \in Handlers, List(h)
      PROVE  /\ UNCHANGED <<nodes, nonces>>
             /\ \A g \in Handlers : NonceSpent(g)' => NonceSpent(g) /\ hand'[g].req = hand[g].req
  BY <1>3, GotoHand, EndHand DEF List, NonceSpent
<1>4. ASSUME NEW h \in Handlers, Fail(h)
      PROVE  /\ UNCHANGED <<nodes, nonces>>
             /\ \A g \in Handlers : NonceSpent(g)' => NonceSpent(g) /\ hand'[g].req = hand[g].req
  BY <1>4, EndHand DEF Fail, NonceSpent
<1>5. CASE Restart
  BY <1>5 DEF Restart, Idle, NonceSpent
<1>6. ASSUME NEW o \in Operators,
             \/ Send(o) \/ Timeout(o) \/ Save(o) \/ GiveUpOrRetry(o) \/ RunAgain(o)
             \/ RateLimit(o)
      PROVE  UNCHANGED <<nodes, nonces, hand>>
  BY <1>6 DEF Send, Timeout, Save, GiveUpOrRetry, RunAgain, RateLimit
<1> QED BY <1>1, <1>2, <1>3, <1>4, <1>5, <1>6 DEF Next, vars

LEMMA RequestsNext ==
    TypeOK /\ RequestsAreHandledOnce /\ [Next]_vars => RequestsAreHandledOnce'
<1> SUFFICES ASSUME TypeOK, RequestsAreHandledOnce, [Next]_vars
             PROVE  RequestsAreHandledOnce'
  OBVIOUS
<1>1. CASE \A h \in Handlers : ~UseNonce(h) /\ ~InsertNode(h)
  BY <1>1, QuietSteps DEF RequestsAreHandledOnce
<1>2. ASSUME NEW h \in Handlers, UseNonce(h) PROVE RequestsAreHandledOnce'
  <2>1. nodes' = nodes /\ nonces' = nonces \cup {hand[h].req}
    BY <1>2 DEF UseNonce, TryUseNonce, NonceOf
  <2>2. CASE hand[h].req \in nonces
    <3>1. \A g \in Handlers : NonceSpent(g)' => NonceSpent(g) /\ hand'[g].req = hand[g].req
      BY <1>2, <2>2, EndHand DEF UseNonce, NonceUsed, NonceOf, NonceSpent
    <3> QED BY <2>1, <3>1 DEF RequestsAreHandledOnce
  <2>3. CASE hand[h].req \notin nonces
    <3>1. /\ hand'[h].req = hand[h].req
          /\ \A g \in Handlers : g # h => hand'[g] = hand[g]
      BY <1>2, <2>3, GotoHand DEF UseNonce, NonceUsed, NonceOf
    <3>2. \A g \in Handlers : g # h /\ NonceSpent(g)' => NonceSpent(g)
      BY <3>1 DEF NonceSpent
    <3> QED BY <2>1, <2>3, <3>1, <3>2 DEF RequestsAreHandledOnce
  <2> QED BY <2>2, <2>3
<1>3. ASSUME NEW h \in Handlers, InsertNode(h) PROVE RequestsAreHandledOnce'
  <2>1. nonces' = nonces /\ NonceSpent(h)
    BY <1>3 DEF InsertNode, NonceSpent
  <2>2. /\ ~NonceSpent(h)'
        /\ \A g \in Handlers : g # h => hand'[g] = hand[g]
    BY <1>3, EndHand DEF InsertNode, NonceSpent
  <2>3. \A g \in Handlers : NonceSpent(g)' => NonceSpent(g) /\ g # h /\ hand'[g].req = hand[g].req
    BY <2>2 DEF NonceSpent
  <2>4. CASE nodes' = nodes
    BY <2>1, <2>3, <2>4 DEF RequestsAreHandledOnce
  <2>5. CASE InsertRow(NewNode(h))
    <3>1. /\ Len(nodes) \in Nat /\ Len(nodes') = Len(nodes) + 1
          /\ nodes'[Len(nodes) + 1].req = hand[h].req
          /\ \A i \in 1 .. Len(nodes) : nodes'[i] = nodes[i]
      BY <2>5, LengthType DEF InsertRow, NewNode, TypeOK
    <3>2. \A i \in 1 .. Len(nodes') : i \in 1 .. Len(nodes) \/ i = Len(nodes) + 1
      BY <3>1
    <3> QED BY <2>1, <2>3, <3>1, <3>2 DEF RequestsAreHandledOnce
  <2> QED BY <1>3, <2>4, <2>5 DEF InsertNode
<1> QED BY <1>1, <1>2, <1>3

LEMMA OneNodePerRequestNext ==
    TypeOK /\ RequestsAreHandledOnce /\ OneNodePerRequest /\ [Next]_vars => OneNodePerRequest'
<1> SUFFICES ASSUME TypeOK, RequestsAreHandledOnce, OneNodePerRequest, [Next]_vars,
                    NEW i \in 1 .. Len(nodes'), NEW j \in 1 .. Len(nodes'),
                    nodes'[i].req = nodes'[j].req, i # j
             PROVE  FALSE
  BY DEF OneNodePerRequest
<1>1. CASE nodes' = nodes
  BY <1>1 DEF OneNodePerRequest
<1>2. ASSUME NEW h \in Handlers, InsertNode(h), Len(nodes') = Len(nodes) + 1,
             nodes'[Len(nodes) + 1] = NewNode(h)
      PROVE  FALSE
  <2>1. /\ nodes'[Len(nodes) + 1].req = hand[h].req
        /\ \A k \in 1 .. Len(nodes) : nodes[k].req # hand[h].req
    BY <1>2 DEF NewNode, RequestsAreHandledOnce, InsertNode, NonceSpent
  <2>2. \A k \in 1 .. Len(nodes') : k \in 1 .. Len(nodes) \/ k = Len(nodes) + 1
    BY <1>2, LengthType
  <2> QED BY <2>1, <2>2, RowsGrow DEF OneNodePerRequest
<1> QED BY <1>1, <1>2, RowsGrow

LEMMA OneNodePerLabelNext ==
    TypeOK /\ OneNodePerLabel /\ [Next]_vars => OneNodePerLabel'
<1> SUFFICES ASSUME TypeOK, OneNodePerLabel, [Next]_vars,
                    NEW i \in 1 .. Len(nodes'), NEW j \in 1 .. Len(nodes'),
                    nodes'[i].label # None, nodes'[i].kind = nodes'[j].kind,
                    nodes'[i].label = nodes'[j].label, i # j
             PROVE  FALSE
  BY DEF OneNodePerLabel
<1>1. CASE nodes' = nodes
  BY <1>1 DEF OneNodePerLabel
<1>2. ASSUME NEW h \in Handlers, Len(nodes') = Len(nodes) + 1,
             nodes'[Len(nodes) + 1] = NewNode(h),
             \A n \in Rows : ~SameKey(n, ArgsOf(h))
      PROVE  FALSE
  <2>1. /\ nodes'[Len(nodes) + 1].kind = Parse(ArgsOf(h).kind)
        /\ nodes'[Len(nodes) + 1].label = ArgsOf(h).label
    BY <1>2 DEF NewNode
  <2>2. \A k \in 1 .. Len(nodes) : ~SameKey(nodes[k], ArgsOf(h))
    BY <1>2 DEF Rows
  <2>3. \A k \in 1 .. Len(nodes') : k \in 1 .. Len(nodes) \/ k = Len(nodes) + 1
    BY <1>2, LengthType
  <2> QED BY <2>1, <2>2, <2>3, RowsGrow DEF OneNodePerLabel, SameKey
<1> QED BY <1>1, <1>2, RowsGrow

-----------------------------------------------------------------------------
(* Names, answers and credentials *)

LEMMA NamesNext == TypeOK /\ NamesAreSigned /\ [Next]_vars => NamesAreSigned'
<1> SUFFICES ASSUME TypeOK, NamesAreSigned, [Next]_vars PROVE NamesAreSigned'
  OBVIOUS
<1>1. ASSUME NEW g \in Handlers, hand'[g].pc # "idle"
      PROVE  hand'[g].req \in Requests /\ SignatureHolds(ArgsOf(g))'
  <2>1. UNCHANGED args
    BY RowsGrow
  <2>2. CASE hand'[g].pc # "idle" => hand[g].pc # "idle" /\ hand'[g].req = hand[g].req
    BY <1>1, <2>1, <2>2 DEF NamesAreSigned, ArgsOf, SignatureHolds, SignedMessage, ExpectedMessage
  <2>3. CASE UNCHANGED hand \/ Restart
    <3>1. hand'[g].pc # "idle" => hand[g].pc # "idle" /\ hand'[g].req = hand[g].req
      BY <2>3 DEF Restart, Idle
    <3> QED BY <2>2, <3>1
  <2>4. ASSUME NEW h \in Handlers, Receive(h)
        PROVE  hand'[g].req \in Requests /\ SignatureHolds(ArgsOf(g))'
    <3>1. CASE hand' = hand
      BY <2>2, <3>1
    <3>2. CASE \E req \in Requests : /\ SignatureHolds(args[req.op])
                                     /\ hand' = [hand EXCEPT ![h] = [pc |-> "nonce", req |-> req]]
      <4>1. PICK req \in Requests : /\ SignatureHolds(args[req.op])
                                    /\ hand' = [hand EXCEPT ![h] = [pc |-> "nonce", req |-> req]]
        BY <3>2
      <4>2. CASE g = h
        <5>1. hand'[g].req = req
          BY <4>1, <4>2 DEF TypeOK
        <5> QED BY <2>1, <4>1, <5>1 DEF ArgsOf, SignatureHolds, SignedMessage, ExpectedMessage
      <4>3. CASE g # h
        <5>1. hand'[g] = hand[g]
          BY <4>1, <4>3 DEF TypeOK
        <5> QED BY <2>2, <5>1
      <4> QED BY <4>2, <4>3
    <3> QED BY <2>4, <3>1, <3>2 DEF Receive
  <2>5. ASSUME NEW h \in Handlers, UseNonce(h) \/ List(h) \/ InsertNode(h) \/ Fail(h)
        PROVE  hand'[g].req \in Requests /\ SignatureHolds(ArgsOf(g))'
    <3>1. hand[h].pc # "idle"
      BY <2>5, HandlerSteps
    <3>2. \/ hand'[h].req = hand[h].req \/ hand'[h].pc = "idle"
      BY <2>5, HandlerSteps, GotoHand, EndHand
    <3>3. \A f \in Handlers : f # h => hand'[f] = hand[f]
      BY <2>5, HandlerSteps, GotoHand, EndHand
    <3> QED BY <2>2, <3>1, <3>2, <3>3
  <2>6. ASSUME NEW o \in Operators,
               \/ Send(o) \/ Timeout(o) \/ Save(o) \/ GiveUpOrRetry(o) \/ RunAgain(o)
               \/ RateLimit(o)
        PROVE  UNCHANGED hand
    BY <2>6 DEF Send, Timeout, Save, GiveUpOrRetry, RunAgain, RateLimit
  <2> QED BY <2>3, <2>4, <2>5, <2>6 DEF Next, vars
<1>2. ASSUME NEW i \in 1 .. Len(nodes')
      PROVE  SameName(nodes'[i], args'[nodes'[i].req.op])
  <2>1. UNCHANGED args
    BY RowsGrow
  <2>2. CASE i \in 1 .. Len(nodes)
    <3>1. nodes'[i] = nodes[i]
      BY <2>2, RowsGrow
    <3> QED BY <2>1, <2>2, <3>1 DEF NamesAreSigned, SameName
  <2>3. CASE i \notin 1 .. Len(nodes)
    <3>1. PICK h \in Handlers : /\ Len(nodes') = Len(nodes) + 1
                                /\ nodes'[Len(nodes) + 1] = NewNode(h)
      BY <1>2, <2>3, RowsGrow
    <3>2. i = Len(nodes) + 1
      BY <1>2, <2>3, <3>1, LengthType
    <3> QED BY <2>1, <3>1, <3>2 DEF NewNode, SameName, ArgsOf
  <2> QED BY <2>2, <2>3
<1>3. \A h \in Handlers : hand'[h].pc # "idle" =>
         hand'[h].req \in Requests /\ SignatureHolds(ArgsOf(h))'
  BY <1>1
<1> QED BY <1>2, <1>3 DEF NamesAreSigned, SameName, ArgsOf

LEMMA AnswerTo ==
    ASSUME TypeOK, NEW req \in Requests, NEW status, NEW node, Answer(req, status, node),
           NEW o \in Operators, relay'[o] # relay[o]
    PROVE  /\ o = req.op /\ relay'[o].attempt = req.attempt
           /\ relay'[o].status = status /\ relay'[o].node = node
<1>1. /\ o = req.op /\ relay[o].attempt = req.attempt
      /\ relay'[o] = Answered(relay[o], status, node)
  BY AnswerSteps
<1> QED BY <1>1 DEF Answered

\* Where an answer to relay o comes from.
LEMMA AnswerSources ==
    ASSUME TypeOK, NamesAreSigned, [Next]_vars, NEW o \in Operators,
           relay'[o].pc = "answered", relay'[o] # relay[o]
    PROVE  \/ relay'[o].status \notin {"ok", "taken"}
           \/ \E h \in Handlers :
                 /\ NonceSpent(h)
                 /\ hand[h].req.op = o /\ relay'[o].attempt = hand[h].req.attempt
                 /\ \/ /\ relay'[o].status = "taken" /\ UNCHANGED nodes
                       /\ \E n \in Rows : SameName(n, args[o])
                    \/ /\ relay'[o].status = "ok" /\ relay'[o].node = Len(nodes) + 1
                       /\ InsertRow(NewNode(h))
<1>1. ASSUME NEW p \in Operators,
             Send(p) \/ Timeout(p) \/ Save(p) \/ GiveUpOrRetry(p) \/ RunAgain(p)
      PROVE  FALSE
  <2>1. p # o => relay'[o] = relay[o]
    BY <1>1 DEF Send, Timeout, Save, GiveUpOrRetry, RunAgain, TypeOK
  <2>2. relay \in [Operators -> Runs] /\ relay[p] \in Runs
    BY DEF TypeOK
  <2>3. relay'[p].pc # "answered"
    BY <1>1, <2>2 DEF Send, Timeout, Save, GiveUpOrRetry, RunAgain, Runs
  <2> QED BY <2>1, <2>3
<1>2. ASSUME NEW p \in Operators, RateLimit(p)
      PROVE  relay'[o].status = "busy"
  <2>1. relay' = [relay EXCEPT ![p] = [relay[p] EXCEPT
                     !.pc = "answered", !.status = "busy", !.node = 0]]
        \/ UNCHANGED relay
    BY <1>2 DEF RateLimit, Answer
  <2>2. relay \in [Operators -> Runs] /\ relay[p] \in Runs
    BY DEF TypeOK
  <2> QED BY <2>1, <2>2 DEF Runs
<1>3. ASSUME NEW h \in Handlers, Receive(h)
      PROVE  relay'[o].status \in {"forbidden", "bad"}
  <2>1. PICK req \in Requests : \/ Answer(req, "forbidden", 0)
                                \/ Answer(req, "bad", 0)
                                \/ UNCHANGED relay
    BY <1>3 DEF Receive
  <2> QED BY <2>1, AnswerTo
<1>4. ASSUME NEW h \in Handlers, UseNonce(h) \/ Fail(h)
      PROVE  relay'[o].status \notin {"ok", "taken"}
  <2>1. hand[h].req \in Requests
    BY <1>4 DEF UseNonce, Fail, NamesAreSigned
  <2>2. \/ Answer(hand[h].req, "conflict", 0)
        \/ Answer(hand[h].req, "error", 0)
        \/ UNCHANGED relay
    BY <1>4 DEF UseNonce, Fail, End, Goto
  <2> QED BY <2>1, <2>2, AnswerTo
<1>5. ASSUME NEW h \in Handlers, List(h)
      PROVE  /\ hand[h].req.op = o /\ relay'[o].attempt = hand[h].req.attempt
             /\ relay'[o].status = "taken" /\ UNCHANGED nodes /\ NonceSpent(h)
             /\ \E n \in Rows : SameName(n, args[o])
  <2>1. hand[h].req \in Requests /\ NonceSpent(h)
    BY <1>5 DEF List, NamesAreSigned, NonceSpent
  <2>2. \/ /\ Answer(hand[h].req, "taken", 0)
           /\ \E n \in Rows : SameName(n, ArgsOf(h))
        \/ UNCHANGED relay
    BY <1>5 DEF List, End, Goto
  <2>3. /\ hand[h].req.op = o /\ relay'[o].attempt = hand[h].req.attempt
        /\ relay'[o].status = "taken"
        /\ \E n \in Rows : SameName(n, ArgsOf(h))
    BY <2>1, <2>2, AnswerTo
  <2> QED BY <1>5, <2>1, <2>3 DEF ArgsOf, List
<1>6. ASSUME NEW h \in Handlers, InsertNode(h)
      PROVE  \/ relay'[o].status = "error"
             \/ /\ hand[h].req.op = o /\ relay'[o].attempt = hand[h].req.attempt
                /\ relay'[o].status = "ok" /\ relay'[o].node = Len(nodes) + 1
                /\ NonceSpent(h) /\ InsertRow(NewNode(h))
  <2>1. hand[h].req \in Requests /\ NonceSpent(h)
    BY <1>6 DEF InsertNode, NamesAreSigned, NonceSpent
  <2>2. \/ Answer(hand[h].req, "error", 0)
        \/ Answer(hand[h].req, "ok", Len(nodes) + 1) /\ InsertRow(NewNode(h))
    BY <1>6 DEF InsertNode, End
  <2> QED BY <2>1, <2>2, AnswerTo
<1>7. Restart \/ UNCHANGED vars => UNCHANGED relay
  BY DEF Restart, vars
<1> QED BY <1>1, <1>2, <1>3, <1>4, <1>5, <1>6, <1>7 DEF Next

LEMMA AnswersNext ==
    TypeOK /\ NamesAreSigned /\ AnswersAreOwn /\ [Next]_vars => AnswersAreOwn'
<1> SUFFICES ASSUME TypeOK, NamesAreSigned, AnswersAreOwn, [Next]_vars, NEW o \in Operators,
                    relay'[o].pc = "answered", relay'[o].status = "ok"
             PROVE  relay'[o].node # 0 /\ nodes'[relay'[o].node].req.op = o
  BY DEF AnswersAreOwn
<1>1. CASE relay'[o] = relay[o]
  <2>1. relay[o].node # 0 /\ nodes[relay[o].node].req.op = o
    BY <1>1 DEF AnswersAreOwn
  <2>2. relay[o].node \in 0 .. Len(nodes)
    BY DEF TypeOK, Runs
  <2>3. relay[o].node \in 1 .. Len(nodes)
    BY <2>1, <2>2, LengthType
  <2> QED BY <1>1, <2>1, <2>3, RowsGrow
<1>2. CASE relay'[o] # relay[o]
  <2>1. PICK h \in Handlers : /\ hand[h].req.op = o /\ relay'[o].node = Len(nodes) + 1
                              /\ InsertRow(NewNode(h))
    BY <1>2, AnswerSources
  <2>2. nodes'[Len(nodes) + 1] = NewNode(h) /\ Len(nodes) + 1 # 0
    BY <2>1, LengthType DEF InsertRow, TypeOK
  <2> QED BY <2>1, <2>2 DEF NewNode
<1> QED BY <1>1, <1>2

LEMMA FileSteps ==
    ASSUME TypeOK, [Next]_vars, NEW o \in Operators
    PROVE  \/ file'[o] = file[o]
           \/ /\ relay[o].pc = "answered" /\ relay[o].status = "ok"
              /\ file'[o] = relay[o].node
<1>1. \/ file' = file
      \/ \E p \in Operators : /\ relay[p].pc = "answered" /\ relay[p].status = "ok"
                             /\ file' = [file EXCEPT ![p] = relay[p].node]
  BY DEF Next, vars, Send, Timeout, Save, GiveUpOrRetry, RunAgain, RateLimit,
         Receive, UseNonce, List, InsertNode, Fail, Restart
<1> QED BY <1>1 DEF TypeOK

LEMMA CredentialsNext ==
    /\ TypeOK /\ NamesAreSigned /\ AnswersAreOwn /\ OwnCredentials
    /\ [Next]_vars
    => OwnCredentials'
<1> SUFFICES ASSUME TypeOK, NamesAreSigned, AnswersAreOwn, OwnCredentials, [Next]_vars,
                    NEW o \in Operators, file'[o] # 0
             PROVE  /\ nodes'[file'[o]].req.op = o
                    /\ SameName(nodes'[file'[o]], args'[o])
  BY DEF OwnCredentials, SameName
<1>1. /\ file'[o] \in 1 .. Len(nodes)
      /\ nodes[file'[o]].req.op = o
  <2>1. CASE file'[o] = file[o]
    <3>1. file[o] \in 0 .. Len(nodes)
      BY DEF TypeOK
    <3> QED BY <2>1, <3>1, LengthType DEF OwnCredentials
  <2>2. CASE /\ relay[o].pc = "answered" /\ relay[o].status = "ok"
             /\ file'[o] = relay[o].node
    <3>1. relay[o].node \in 0 .. Len(nodes)
      BY DEF TypeOK, Runs
    <3> QED BY <2>2, <3>1, LengthType DEF AnswersAreOwn
  <2> QED BY <2>1, <2>2, FileSteps
<1>2. SameName(nodes[file'[o]], args[o])
  BY <1>1 DEF NamesAreSigned
<1>3. nodes'[file'[o]] = nodes[file'[o]] /\ UNCHANGED args
  BY <1>1, RowsGrow
<1> QED BY <1>1, <1>2, <1>3

LEMMA RefusedNext ==
    /\ TypeOK /\ NamesAreSigned /\ RequestsAreHandledOnce /\ RefusedByAnother
    /\ [Next]_vars
    => RefusedByAnother'
<1> SUFFICES ASSUME TypeOK, NamesAreSigned, RequestsAreHandledOnce, RefusedByAnother,
                    [Next]_vars, NEW o \in Operators,
                    relay'[o].pc = "answered", relay'[o].status = "taken"
             PROVE  \E i \in 1 .. Len(nodes') :
                       /\ SameName(nodes'[i], args'[o])
                       /\ nodes'[i].req # [op |-> o, attempt |-> relay'[o].attempt]
  BY DEF RefusedByAnother, Rows, SameName
<1>1. \E i \in 1 .. Len(nodes) :
         /\ SameName(nodes[i], args[o])
         /\ nodes[i].req # [op |-> o, attempt |-> relay'[o].attempt]
  <2>1. CASE relay'[o] = relay[o]
    BY <2>1 DEF RefusedByAnother, Rows
  <2>2. CASE relay'[o] # relay[o]
    <3>1. PICK h \in Handlers :
             /\ NonceSpent(h)
             /\ hand[h].req.op = o /\ relay'[o].attempt = hand[h].req.attempt
             /\ \E n \in Rows : SameName(n, args[o])
      BY <2>2, AnswerSources
    <3>2. hand[h].req \in Requests
      BY <3>1 DEF NamesAreSigned, NonceSpent
    <3>3. hand[h].req = [op |-> o, attempt |-> relay'[o].attempt]
      BY <3>1, <3>2 DEF Requests
    <3>4. \A i \in 1 .. Len(nodes) : nodes[i].req # hand[h].req
      BY <3>1 DEF RequestsAreHandledOnce
    <3> QED BY <3>1, <3>3, <3>4 DEF Rows
  <2> QED BY <2>1, <2>2
<1>2. PICK i \in 1 .. Len(nodes) :
         /\ SameName(nodes[i], args[o])
         /\ nodes[i].req # [op |-> o, attempt |-> relay'[o].attempt]
  BY <1>1
<1>3. i \in 1 .. Len(nodes') /\ nodes'[i] = nodes[i] /\ UNCHANGED args
  BY RowsGrow
<1> QED BY <1>2, <1>3

-----------------------------------------------------------------------------
LEMMA RegistrationInit == Init => RegistrationInv
<1> SUFFICES ASSUME Init PROVE RegistrationInv
  OBVIOUS
<1>1. nodes = <<>> /\ Len(nodes) = 0 /\ 1 .. Len(nodes) = {}
  BY DEF Init
<1>2. TypeOK
  BY <1>1, RegistrationAssumption DEF Init, TypeOK, Runs, Idle, NotRunning
<1>3. RequestsAreHandledOnce /\ NamesAreSigned /\ AnswersAreOwn
  BY <1>1 DEF Init, Idle, NotRunning, RequestsAreHandledOnce, NonceSpent, NamesAreSigned,
              AnswersAreOwn
<1>4. OneNodePerRequest /\ OneNodePerLabel /\ OwnCredentials /\ RefusedByAnother
  BY <1>1 DEF Init, NotRunning, OneNodePerRequest, OneNodePerLabel, OwnCredentials,
              RefusedByAnother
<1> QED BY <1>2, <1>3, <1>4 DEF RegistrationInv

LEMMA RegistrationNext == RegistrationInv /\ [Next]_vars => RegistrationInv'
BY TypeNext, RequestsNext, NamesNext, AnswersNext, OneNodePerRequestNext,
   OneNodePerLabelNext, CredentialsNext, RefusedNext DEF RegistrationInv

THEOREM RegistrationInvariant == Spec => []RegistrationInv
BY RegistrationInit, RegistrationNext, PTL DEF Spec

(* Every reachable state is well typed: in particular the file of a relay   *)
(* names a node that is in the table.                                       *)
THEOREM RegistrationTypeCorrect == Spec => []TypeOK
<1>1. RegistrationInv => TypeOK
  BY DEF RegistrationInv
<1> QED BY <1>1, RegistrationInvariant, PTL

(* However often a signed registration is delivered, and however its        *)
(* handlings overlap, fail or are cut off, it makes one node at most.       *)
THEOREM RequestsMakeOneNode == Spec => []OneNodePerRequest
<1>1. RegistrationInv => OneNodePerRequest
  BY DEF RegistrationInv
<1> QED BY <1>1, RegistrationInvariant, PTL

(* Of handlers that all found a label free, the UNIQUE key admits one.      *)
THEOREM LabelsNameOneNode == Spec => []OneNodePerLabel
<1>1. RegistrationInv => OneNodePerLabel
  BY DEF RegistrationInv
<1> QED BY <1>1, RegistrationInvariant, PTL

(* The credentials a relay saves are those of a node that one of its own    *)
(* requests made, under the name it asked for.                              *)
THEOREM CredentialsAreOwn == Spec => []OwnCredentials
<1>1. RegistrationInv => OwnCredentials
  BY DEF RegistrationInv
<1> QED BY <1>1, RegistrationInvariant, PTL

(* A relay that is told "already registered" is told so of a node that the  *)
(* request it waits for did not make.                                       *)
THEOREM RefusalsNameAnother == Spec => []RefusedByAnother
<1>1. RegistrationInv => RefusedByAnother
  BY DEF RegistrationInv
<1> QED BY <1>1, RegistrationInvariant, PTL
=============================================================================
