# DePINZcash: a verification project

DePINZcash pays operators of Zcash nodes in points. An operator registers a node
with a Solana wallet, proves every few minutes which block the node sees, and is
paid for proofs that the server's trusted RPC endpoints confirm. Points become
token claims through Merkle snapshots and a Solana program. What a user of this
system cares about is that points are neither lost, nor paid twice, nor paid for
something that did not happen, although many requests, background tasks and
restarts touch the same SQLite tables without any transaction. That is what the
modules here state, check with TLC and, where they can, prove with TLAPS.

## 1. Inventory

| Component | State | Operations | Interacts with |
|---|---|---|---|
| Proof submission (`server/src/api/proofs.rs`) | tables `proofs`, `nodes`, `used_nonces`; locals of each handler across six awaits | `submit`; read-only lists | quorum, cached tip, store; races the poller and itself |
| Exposed-RPC poller (`scheduler.rs`: `exposed_rpc_loop`, `poll_one_node`) | one task: list of nodes, one tip per round | a round over all nodes with an endpoint | writes the same tables as submissions |
| Points engine (`calculate_points`, `points_from_parts`) | none | pure | called by both |
| Trusted tip cache (`state.rs`, `tip_refresh_loop`) | `Option<u64>`, lost on restart | refresh, read | read once by each submission and each round |
| RPC quorum (`rpc.rs`) | endpoints | tally of the answers, strict majority of all endpoints | submissions, poller, challenges, tip |
| Uptime and staleness tasks (`scheduler.rs`) | a list read at each tick | credit uptime and points, mark nodes stale | `nodes` |
| Audit challenges (`api/challenges.rs`, `challenge_expiry_loop`) | tables `challenges`, `used_nonces`; handler locals | request, answer, expire | quorum, `nodes.points` |
| Snapshots (`merkle.rs`, `snapshot_loop`, `api/admin.rs`) | tables `snapshots`, `snapshot_leaves`; publisher locals | publish, look up a claim (`api/rewards.rs`) | reads `nodes.points` |
| Registration (`api/nodes.rs`) | tables `nodes`, `used_nonces`; handler locals | register | relay |
| Relay client (`prover/src/bin/relay.rs`) and its start script | state file with node id and token; a tick's locals | register, submit, watch | HTTP, the operator's node or the prover's file |
| Mock prover (`prover/src/main.rs`) | the file it writes | read the height, write the file | relay |
| Claim distributor (`programs/zepin-claim`) | distributor and receipt accounts, vault | initialize, claim | roots and proofs of the snapshots |
| Statistics, health, routing, configuration, web front end, other scripts | no state of their own, or only a view | - | - |

What is hard here is the same everywhere: a handler is a chain of statements that
commit one by one, what it read at the start is used at the end, it can stop
between any two of them (error, client gone, restart), and other handlers and
tasks run meanwhile. `PROJECT.json` lists these hazards at their lines.

What makes each component correct:

- *submission and poller*: one row, one verdict and at most one payment per claim;
  balances equal what the rows say; nonces admit one request; a reply is true;
  accepted blocks are on the chain; every request is answered and every round ends.
- *background tasks*: standing is earned by proofs, a suspended node stays so and is
  paid for nothing but audits, silence is noticed, no UPDATE is lost.
- *challenges*: a challenge is resolved for good; a repeated answer pays once; a
  bonus is backed by a passed audit; no challenge stays open.
- *registration and relay*: one node per signed request and per label, a relay ends
  with its own credentials; an honest claim is rejected only where the relay tore
  it, or where the operator's node or the server's cached tip really is behind;
  every tick ends.
- *quorum*: an answer is one an honest endpoint told.
- *snapshots*: leaves, roots and payloads fit together whoever publishes when; what
  is published stays; totals grow.
- *distributor*: every payload verifies where its root is, and nowhere else; a
  distributor pays a wallet once, in full, only what the snapshot of its root says,
  and never more than its vault holds.

## 2. Modules

| Module | What it is |
|---|---|
| `Points` | the award of a submission and of a poll |
| `CreditLedger` | abstract specification: claims are decided once and credited at most once |
| `ProofIntake` | submissions, poller, tip cache, restarts; implements `CreditLedger` |
| `NodeUpkeep` | `ProofIntake` composed with the uptime and staleness tasks and the bonus of an audit; implements `CreditLedger` too |
| `Challenges` | request, answer and expiry of audits |
| `RpcQuorum` | the tally of `quorum_call`, as an operator |
| `Relay` | a relay in watch mode, the prover's file, the endpoints, the server's cached tip and its check |
| `Registration` | the server's `register`, the relay's, and the script that repeats it |
| `Snapshots` | publishers of snapshots and claim lookups |
| `Merkle` | the tree, its proofs and their verification, as operators |
| `Distributor` | `Snapshots` and `Merkle` composed with the Solana program |
| `SumProofs` | lemmas about `SumFunctionOnSet`, the fold of the community modules |
| `ProofIntakeProofs` | theorems about `Points` and `ProofIntake` |
| `DistributorProofs` | theorems about `Merkle` and `Distributor` |
| `UpkeepProofs`, `ChallengesProofs`, `RegistrationProofs`, `RelayProofs`, `SnapshotsProofs` | theorems about the module each is named for |
| `MC*` | instances for TLC |

Definitions called *Mutant* are deliberate bugs. No specification uses them: each
replaces the definition that follows it to confirm that the properties notice.

In every module one action is one await of the code together with what follows up
to the next one, a table is a function or sequence of rows, and each SQL statement
is atomic (SQLite serialises them; no handler opens a transaction). `Faults` allows
any handler, task or publisher to stop at any await, calls to fail, and the
process to restart; tables survive a restart, locals and the cached tip do not.

### ProofIntake

State: `nodes`, `proofs` and `usedNonces` are the tables; `trustedTip` is the
cache; `sub[h]` is the local state of the handler of request `h`, with `pc`
naming the await it stands at; `poll` is the poller's; `chainTip` and `now` are
the world. `proofs` is a function of the `UNIQUE (node, height, hash)` key, and
each row has a history counter `credits` - how often its award was added to its
node - which the code does not have and no guard reads.

| Action | Code |
|---|---|
| `Receive`, `Lookup`, `Refuse` | request checks, `get_node` and the checks on its row |
| `UseNonce` | `try_use_nonce`, then the monotonic-height guard on the height read in `Lookup` |
| `ReadTip`, `Verify` | the cached tip; the quorum call, the verdict and the award |
| `InsertProof`, `Apply` | `try_insert_proof`; `apply_proof_acceptance` |
| `PollList` ... `PollRoundEnds` | the same for the poller, one node after another |
| `Fail`, `PollFail`, `Restart` | an error or a dropped future at any await; a new process |
| `RefreshTip`, `Suspend`, `MineBlock`, `Tick` | tip task, an administrator's SQL, the chain, the clock |

A hash is a *spelling*; `BlockOf` is `normalize_hash`. The quorum answers the
block of the chain or nothing, in any order (`QuorumAnswers`); `Relay` shows why it
may be taken so. Sums of heights wrap at `HeightModulus` as `u64` does in the
release build; the debug build panics there instead, which `Fail` covers.
Signatures are a refusal that may happen. Requests that fail before the first
await change nothing and are left out.

`DecisionOf` maps a row to the ledger: no row is *open*, a rejected or pending row
is *refused*, an accepted one is *awarded*, and *credited* once paid. Every step
of `ProofIntake` is then a step of `CreditLedger` or invisible (`ImplementsLedger`).

### NodeUpkeep

It adds the two lists a tick of `uptime_loop` and `staleness_loop` reads
(`uptimeDue`, `staleDue`) and, per statement, `UptimeCredit` and `StaleMark`, whose
`UPDATE`s are unconditional: they act on what a node was when it was listed.
`UpkeepRestart` is the restart of `ProofIntake` that also drops the lists.
`lastProofAt` is the time the operator claimed, up to `MaxSkew` ahead of the
clock, as in the code. Uptime is counted in rounds.

`AuditBonus` is the third writer of `nodes.points`: `add_uptime_and_points` at the
end of a passed audit (`challenges.rs:158-163`), which moves no hours and asks for no
status. The rest of an audit is in `Challenges`; here the bonus may come at any
moment, for any node, and `audits` counts it. The same `CreditLedger` is
implemented, with uptime and audits as what accrues without a claim.

### Challenges

`ask[c]` is the handler that requests challenge `c`, `ans[h]` the handler of
answer `h`. `Read` keeps the code's decision on the row as read; `Mark` and
`Lapse` are the unconditional `UPDATE`s of `mark_challenge_answered`. The
expected hash and the answer are reduced to whether they agree once normalised.
The nonce of a request is left out, that of an answer is not: it is what makes a
repeated request harmless.

### RpcQuorum and Relay

`QuorumCall` maps what every endpoint told to an answer or one of three errors.
The ties of `max_by_key` are the free choice in `Best`; an answer that wins has a
strict majority, so the choice never shows.

`Relay` follows one watch loop: `ReadCount` and `ReadBestHash` are two calls to the
operator's node, `ReadProofFile` takes a file of the prover, `Post` sends the
claim; `Answers`, `Decide` and `Drop` are the server's call to every endpoint, its
tally and verdict. `view[e]` is how far an endpoint has followed the chain. A
faulty endpoint tells anything. A block is named by its height: there are no
reorganisations. `TickFails` is the relay's own timeout or a failed call.

`tip` is the cached tip. `RefreshTip` sets it to any count a quorum can agree on: the
call lasts, so an honest endpoint may have told a height it is past by now, and a
faulty one tells what suits (`CountsTold`). `Restart` empties it. A handler reads it
in `Post`, before it asks, and `Verdict` measures the claim against what was read
then (`OutOfDrift`, the two drift rejections of `submit`).

### Registration

`nodes` is a sequence, and a row's place stands for its random id and token.
`Send`, `Timeout`, `Save`, `GiveUpOrRetry` and `RunAgain` are the relay and the loop in
`depinzcash-compose-node.sh` around it; `Receive`, `UseNonce`, `List`, `InsertNode`
are the handler. An answer reaches the run that waits for it or nobody; a request
once sent may be delivered any number of times. The signature is reduced to
whether the signed and the verified message agree: the relay signs the kind as
spelled and always `mainnet`, the server verifies the parsed kind and its network.

### Snapshots, Merkle and Distributor

A root stands for the totals it commits to. `pub[p]` holds the totals and the
cycle a publisher read; `InsertLeaf` files one leaf per step (the code goes by
wallet, the model in any order). A lookup is two reads.

`Merkle` takes sha256 to be free of collisions: the hash of a leaf is the leaf and
that of a sorted pair is the set of the two. The two never meet in the code either:
a pair is hashed from 64 bytes, a leaf from a base58 key of at most 44 and a number
of 8. Layers, odd nodes, siblings and
verification are as in `merkle.rs`, and in the program, which hashes alike.

In `Distributor` an instruction is one transaction that changes all or nothing, so
only successful ones are steps. The program takes `initialize_distributor` from
whoever signs, with any root and rate, once per cycle, and a claim of any points
with any proof; so does the model. `InitializeDistributor` is the instruction;
`PublishRoot` is the operator's procedure (the root of a published snapshot, signed
by `Authority`), `TakeCycle` anyone else's call, signed by one of `Strangers` with one
of `Roots`. `Claim` is by any wallet, of any `Claimed` points, with any of `Proofs`.
Account constraints (owner, mint, seeds) are the runtime's and taken as given.
A distributor may name any mint; `held` adds up a wallet's accounts of all of them,
and `deposited` is what anyone put into the vault.

## 3. Runs

| Run | Instance | Question |
|---|---|---|
| `IntakeRace` | 1 node, 2 requests + poller, 1 height, right and wrong hash, 2 nonces, failures | are payments, verdicts, nonces and replies right under every interleaving? |
| `IntakeLive` | 1 request + poller, heights 0..1, growing chain, lagging tip, suspension, fair, no failures | is everything answered, credited, ended; is what is accepted on the chain and what is shown credited? |
| `UpkeepRace` | 1 node, 2 requests, both tasks, an audit, heights 0 and 15 of modulus 16, guard of 1, skew, suspension, failures, no trusted RPCs | are balance and standing earned, is a suspended node paid for nothing but audits, is silence noticed? |
| `ChallengeRace` | 2 answers, 2 nonces, expiry, failures, fair clock and expiry task | is an audit resolved once and for good, and always in the end? |
| `RegistrationRetry` | 2 relays of 2 runs each, 2 handlers, 2 kinds (one an alias), a label or none, failures | who gets a node, whose credentials, who is refused? |
| `RelayWatch` | 4 endpoints, 2 faulty, 1 handler, heights 0..1, drift of 0, node or file, failures, restarts, fair | is what is accepted verified, an honest claim rejected only if torn or really adrift, every tick ended? |
| `SnapshotRace` | 2 publishers, 1 reader, 2 wallets, 2 cycles, failures | do roots, leaves and payloads fit and stay? |
| `ClaimPipeline` | 1 publisher, 1 stranger, 2 wallets, 2 cycles, rate 3 where `u64` ends at 5, trees of 1..7 leaves | is only what a snapshot says paid, once and in full, whoever made the distributors; where do payloads verify; do vaults balance; do totals grow? |

Why small instances are enough. The races are between two writers of one row or
one node, so two handlers, or a handler and a task, on one key show them; with two
nonces, two answers in `ChallengeRace` are rivals or one request sent twice.
Rejected, pending and accepted rows all occur with a right and a wrong hash and a
quorum that may stay silent. Heights 0 and 1 give a tip that lags by one; 0 and 15
with a guard of 1 and modulus 16 are refused, let through and wrapped.
`MaxTime` 2 with `StaleAfter` 1 and `MaxSkew` 1 puts a proof on either side of both
cutoffs. Two runs per relay and re-delivery make a lost answer, a repeated
request and a late handler meet. Two of four endpoints are the most the
assumption allows. Heights 0 and 1
with a drift of 0 give claims behind and ahead of the cached tip, torn ones and right
ones. A rate of three tokens per point
with a limit of 5 tells a payout that fits from one that overflows, a vault
of 4 pays the first and not a second, and trees of 1, 3, 5 and 7 leaves have odd
layers at every level up to three. The stranger's roots are one that a cycle's
snapshot may have too and one of a tree that lists a wallet twice, which no snapshot
has; the proofs are all those that verify in trees of one or two leaves, for right
and wrong leaves. `MaxTime`, `MaxUptime`, `MaxAudits`, `MaxPoints`, `MaxCycle`,
`MaxHeight`, `MaxAttempts` and `MaxDeposited` only bound counters. Symmetry is used on
requests, nonces, relays and wallets, which the specifications treat alike, and
only where no liveness is checked.

`UpkeepRace` has no trusted RPCs, so the poller is idle in it (and a submission
takes no tip into account); that the poller does not disturb its properties is
what the theorems of `UpkeepProofs` add. A challenge is issued only with trusted RPCs
but answered without asking them, so the audit in this run is one issued before the
server was started again without them.

Runs that show a disagreement between the code and the repository's own text:

| Run | Text | What TLC shows |
|---|---|---|
| `TotalsAgree` | `server/tests/concurrency.rs:6` | a handler that ends between row and payment leaves an accepted row that is never paid; the retry gets 409 |
| `OneCreditPerBlock` | `server/src/scheduler.rs:264` | two spellings of one hash are two rows, both paid |
| `OneBonusPerChallenge` | `server/src/api/challenges.rs:116` | two answers read an open challenge and both are paid |
| `OneNodePerName` | `server/src/api/nodes.rs:116` | two registrations without a label that overlap make two nodes of one name |

Behaviour of the models worth knowing, which no property forbids because no text of
the repository does, or because it says so itself:

- The height guard reads the last height before three awaits; an older proof may
  overwrite a newer height (what holds is `LastProofIsCredited`).
- A staleness round may mark a node stale that has just proved something; the next
  proof makes it active again. `docs/RUN_FULLNODE_VI.md:233` tells operators of a node
  that is shown stale while its latest proof is accepted.
- A claim filed as pending, because no quorum answered, is never decided again.
- After the row of a snapshot and before its leaves a claim is answered 404.
- A relay that reads height and best hash around a new block submits a torn claim; a
  file of the prover has no `block_hash`, so its claims are rejected whenever a
  quorum answers.
- A claim of the right block is rejected when the operator's node lags behind the
  cached tip by more than the drift, and also when the cached tip itself is that
  old, as after a spell without a quorum: the claim is then "ahead of trusted tip".
- Audits do not ask for a node's status: a suspended node can be challenged, and its
  points still grow by a tier for each audit it passes. It earns nothing else.
- Any signer can make the distributor of a cycle, with any root, rate and vault,
  before the operator does; the payloads of that cycle then do not verify there, and
  the operator cannot replace it. `programs/zepin-claim/README.md:25` calls the
  instruction "Authority-only", but the program compares the signer with nothing.
  `TakeCycle` is therefore a step, and the properties of `Distributor` say what holds in
  spite of it. What line 96 of that README says, that a root once stored is not
  overwritten, does hold.
- A relay whose answer was lost after the node was inserted is refused on every
  further run, and the token is gone: only `OwnCredentials` and `RefusedByAnother` hold.
- A kind given by an alias, or a server of another network, is refused: the signed
  messages differ.
- The points of a snapshot are lifetime totals, so every cycle pays them anew.
- With two publishers at once a later cycle may commit to older totals.

### Fairness

- `IntakeLive`: a started handler and a started round go on (weak fairness of their
  steps): every await in them ends, since RPC calls have a timeout and SQLite a
  busy timeout, and tokio polls woken tasks. No fairness of requests arriving, of
  the poller's timer, of the quorum's answers, of blocks or of the tip. It has no
  failures, because with them the payment can be lost (`TotalsAgree`).
- `UpkeepRace`: strong fairness of `StaleList` and `StaleMark`. The task ticks for
  ever in whatever process runs; failures and restarts cut rounds short again and
  again, but not every time. Weak fairness would not do, since a restart disables
  a mark that was due.
- `ChallengeRace`: time passes and the expiry task ticks, failures or not.
- `RelayWatch`: the relay is scheduled, and every call to an endpoint ends
  (`rpc_timeout`), so each answers or fails; nothing of the chain or the endpoints'
  progress.

## 4. Theorems

All are for every value of the constants under the named assumptions of the
modules, which only say what shape constants have - except
`RelayAssumption`, which bounds the faulty endpoints by half of them. Endpoints,
the answers handled at once and the wallets of a snapshot are finitely many, as a
configuration, a process and the rows of a table are.
The inductive invariants they rest on hold in TLC's small instances too.

Induction over data is done without the library's schemas: `NatSetInduction` says
that a *set* with zero and every successor has all naturals (a smallest missing one
would be the successor of a member). To use it, the statement is made a set of
numbers. `SumProofs` proves with it that the fold behind `SumFunctionOnSet` exists,
does not depend on the order it picks elements in, and that a new element adds its
value (`SumAdd`).

**Points.** Awards lie in 0..87 (`PointsBounded`); `FresherPaysMore`; `PollPaysNoMore`.

**Intake.**

- `IntakeTypeCorrect`: `Spec => []TypeOK`.
- `NoDoubleCredit`: the property is not inductive, as nothing in it forbids two
  handlers to be about to credit one row. `CreditInv` adds that whoever stands
  before `Apply` or `PollApply` has an accepted, uncredited row with exactly its
  award, and that no two stand before the same row. It is kept because only the
  writer of a row goes on to `Apply`, and a row is written only where there was none.
- `IntakeImplementsLedger`, from `CreditInv`: an insert is `Grant` or `Refuse`, an
  apply is `Credit`, everything else leaves the ledger alone.
- `NoncesAdmitOneRequest`, from `NonceInv`: a nonce held by a request is in the
  table, so taking one that is not there makes its taker the only holder.
- `ProofRowsAreFinal`; `RepliesTellTheTables` and `ClaimsGetOneVerdict`, from
  `CreditInv`, `NonceInv` and the finality of rows.
- `AcceptedClaimsAreOnChain`, from `VerdictInv`: a verdict carried by a handler or the
  poller across its awaits is already true of the chain, which only grows.
- `NodesShowTheirProofs`: `Apply` writes height, hash and credit in one statement, and
  `CreditInv` names the row.

**Upkeep.** `NodeUpkeep` extends `ProofIntake`, so its steps are those of the intake,
or touch neither rows nor handlers; `CreditInv` carries over and is reused.

- `StandingNeedsProof`, from `StandingInv`: without a credited proof `lastProofAt` is
  unset, so no list can hold the node.
- `SuspensionHolds`: an action property that is proved from types alone. `Drained`
  says that no handler, round or list has read the node before it was suspended,
  and it is itself preserved, because every reader but that of an audit looks at
  the status first. A bonus moves the points, and moves `audits` with them.
- `UpkeepImplementsTheLedger`: `UptimeCredit` and `AuditBonus` are `Accrue`.
- `BalancesAreEarned`: with `BalanceInv` (a node's balance is its income, from finitely
  many claims), step by step along the ledger: `Credit` adds one key to the credited
  ones, so by `SumAdd` its award to the sum; `Grant` and `Refuse` leave the credited
  ones and their awards alone (`SumSame`); `Accrue` adds a tier. `CreditInv` is needed
  to know that the rows counted are those the ledger calls credited.

**Challenges.** `ChallengeInv` adds to types and bonuses that a challenge has no row before
its request is done (`RowsAreAsked`), that what an answer goes by is on file and what
it marked stays marked (`AnswersMatchRows`), and that an answer past its nonce holds it
alone (`NoncesAreSpentOnce`). From it `RetransmissionsPayOnce`, `BonusesStandOnAudits`,
`MarkedChallengesAreClosed` and `ChallengesStayResolved`; the number of paid answers
grows by one with each `Bonus`, so the equation of points and bonuses needs no
induction over the set.

**Registration.** `RegistrationInv` is `TypeOK`, the four properties and what makes them
inductive: a handler past its nonce is alone with its request, which has made no
node yet (`RequestsAreHandledOnce`); what is handled was signed with the kind the
server parses it to, and a row is named as its request asked (`NamesAreSigned`);
an "ok" names a node that a request of this relay made (`AnswersAreOwn`). From it
`RegistrationTypeCorrect`, `RequestsMakeOneNode`, `LabelsNameOneNode`,
`CredentialsAreOwn`, `RefusalsNameAnother`.

**Relay.** `QuorumIsHonest`: a strict majority is more than the faulty endpoints, so
an honest one is among those who told it; that `Best` exists at all is by taking
the most told answer (the least of a non-empty set of naturals). With it,
`AcceptedClaimsWereVerified` and `HonestClaimsAreRejectedForCause` follow from
`RelayInv`: honest endpoints tell nothing but the block that was asked for, a claim
is what the relay gathered (hash at or above the height, or the file's text), and a
tip that was cached is a height the chain has reached (`TipsAreReached`, by
`TipIsReached`: an honest endpoint told it). A cause stays one, since chain and nodes
only grow (`CauseStays`).

**Snapshots.** `SnapshotInv` adds to the properties that a publisher that files leaves
holds the totals of the row of its cycle, and a reader those of the row it read. From it
`LeavesFitTheirRoot`, `AnsweredPayloadsVerify`, `SnapshotsAreFinal`.
`TotalsGrowWithOnePublisher` assumes `OnePublisher`; `GrowthInv` adds that what the
publisher has read is no less than what is published and no more than what the
wallets have by now, and that its cycle is above all published ones.

**Merkle trees** (in `DistributorProofs`), for any number of leaves.

- The layers, the places of a leaf and the hashes of a verification are recursive
  functions; that they exist, and so equal their definitions, is by induction on
  the layer (`LayersExist`, `PlacesExist`, `HashedExist`). `LayerLengths` bounds the
  depth: a layer of more than one node is longer than the next.
- `ProofsFitTheirLeaf`: by induction on the layer, the hash computed from `x` is the node
  that leaf `i` is under if and only if `x` is leaf `i`. The step is `SiblingParent` (the
  hash of a node and its sibling, itself included, is their parent) and `PairsEqual`.
- `OnlyLeavesVerify` is about any proof, of any length: going down from the root, the
  hash at every step is a node of the tree, and since a leaf hashes to no pair the
  proof ends exactly at the leaves.
- `RootsCommit`: a leaf of one snapshot verifies against the other's root, hence is a
  leaf there too, with the same points.
- `TreesOfAnySizeVerify` and `EveryLeafVerifiesAlways` are what TLC evaluates up to seven.

**Distributor**, for any signers, roots, rates, points and proofs. `ClaimInv` is
`SnapshotInv`, the types, `VaultsBalance` and three facts: no root is of an empty tree
(`RootsHaveLeaves`; without it a root would be no node at all), the authority's
distributor holds the root of its cycle (`AuthorityCopiesRoots`, kept because a
published root is final and an account is made once), and a receipt is of a leaf
that some proof verified against the root it was paid from (`ReceiptsAreProved`).
From it

- `ClaimTypeCorrect`, and `VaultsAlwaysBalance`: a receipt where there was none adds its
  amount to the sum of its cycle and to that of its wallet (`ReceiptAdds`);
- `PayoutsAreOfTheSnapshot`: where the root is a snapshot's, by `OnlyLeavesVerify` the
  leaf that was proved, by whatever proof, is the wallet's in that snapshot;
- `PayloadsVerifyOnTheChain`: one leaf and one proof hash to one root, so a payload
  verifies exactly where that root is (`OneRoot`), and its own is the one it was
  proved in (`HonestVerifies`).

Only model-checked is liveness, which this prover does not do: `EverySubmissionIsAnswered`,
`EveryAwardIsCredited`, `EveryRoundEnds`, `SilentNodesGoStale`, `EveryChallengeIsResolved`
and `EveryTickEnds`. Every other property of a passing run is stated by a theorem.

## 5. Not modelled

- Statistics, health and the lists of the API, and the web front end: read-only views.
- Routing, parsing of the configuration and error texts; of the limits of the server
  only the 429 a registration may meet.
- Cryptography: ed25519 and sha256 are abstracted as said above; the window of
  timestamps is part of `ProofIntake`.
- Of the relay: the command that answers challenges (its calls are the two of
  `Challenges`), the loading of key files, the messages it prints.
- The mock prover beyond the height it reads and the file it writes: its proof is a
  placeholder hash that nothing verifies.
- The scripts other than the registration loop: they install third-party software.
- The Solana runtime: account validation, rent, and the token program are taken as
  given.
- Reorganisations of the Zcash chain, and a dishonest majority of trusted endpoints.
