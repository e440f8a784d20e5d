----------------------------- MODULE NodeUpkeep -----------------------------
(***************************************************************************)
(* The uptime and staleness tasks of server/src/scheduler.rs and the bonus *)
(* for a passed audit, composed with the submissions and the poller of     *)
(* ProofIntake, whose table of nodes they write.                           *)
(*                                                                         *)
(* Each round of a task reads all nodes once and then updates, one         *)
(* statement after another, those that the list it read called for.        *)
(* Proofs are applied and nodes are suspended in between: the UPDATEs are  *)
(* unconditional, so they act on what the node was when it was listed.     *)
(* The handlers of audits never look at a node's status; here an audit is  *)
(* only the bonus it ends with, at any moment, and Challenges has the rest.*)
(***************************************************************************)
EXTENDS ProofIntake

CONSTANTS
    UptimeWindow,   \* 2 * uptime_reward_interval
    StaleAfter,     \* 6 * heartbeat_interval
    MaxUptime,      \* bound of the uptime ticks a node is credited
    MaxAudits       \* bound of the bonuses a node is paid

ASSUME UpkeepAssumption ==
    UptimeWindow \in Nat /\ StaleAfter \in Nat /\ MaxUptime \in Nat /\ MaxAudits \in Nat

VARIABLES
    uptimeDue,      \* nodes the uptime round has still to credit
    staleDue,       \* nodes the staleness round has still to mark
    audits          \* history: bonuses each node was paid for passed audits

upkeepLists == <<uptimeDue, staleDue>>
upkeepVars == <<vars, upkeepLists, audits>>

UpkeepInit ==
    Init /\ uptimeDue = {} /\ staleDue = {} /\ audits = [n \in Nodes |-> 0]

-----------------------------------------------------------------------------
(* uptime_loop; the uptime column counts in rounds of the task *)

\* Not suspended, and with a last proof - at the time its operator claimed -
\* not before the cutoff.
Recent(n) ==
    /\ nodes[n].status # "suspended"
    /\ nodes[n].lastProofAt # None
    /\ nodes[n].lastProofAt + UptimeWindow >= now

UptimeList ==
    /\ uptimeDue = {}
    /\ uptimeDue' = {n \in Nodes : Recent(n) /\ nodes[n].uptime < MaxUptime}
    /\ uptimeDue' # {}
    /\ UNCHANGED <<vars, staleDue, audits>>

\* Mutant: the points column is left behind.
AddUptimeOnly(n, rounds) ==
    nodes' = [nodes EXCEPT ![n] = [@ EXCEPT !.uptime = nodes[n].uptime + rounds]]

\* add_uptime_and_points: one UPDATE that adds to both columns; what it adds to
\* the points is always the node's tier.
AddUptimeAndPoints(n, rounds) ==
    nodes' = [nodes EXCEPT ![n] = [@ EXCEPT !.uptime = nodes[n].uptime + rounds,
                                            !.points = nodes[n].points + Tier[n]]]

UptimeCredit(n) ==
    /\ n \in uptimeDue
    /\ AddUptimeAndPoints(n, 1)
    /\ uptimeDue' = uptimeDue \ {n}
    /\ UNCHANGED <<proofs, usedNonces, trustedTip, sub, poll, env, staleDue, audits>>

\* The UPDATE fails: it is logged, and the node is not credited this round.
UptimeFails(n) ==
    /\ Faults
    /\ n \in uptimeDue
    /\ uptimeDue' = uptimeDue \ {n}
    /\ UNCHANGED <<vars, staleDue, audits>>

-----------------------------------------------------------------------------
(* staleness_loop *)

\* Mutant: the status is not looked at, nor that there is a last proof.
SilentOfAnyStatus(n) ==
    nodes[n].lastProofAt # None => nodes[n].lastProofAt + StaleAfter < now

\* Active, with a last proof before the cutoff.
Silent(n) ==
    /\ nodes[n].status = "active"
    /\ nodes[n].lastProofAt # None
    /\ nodes[n].lastProofAt + StaleAfter < now

\* Mutant: the threshold is applied twice.
StaleListLate ==
    /\ staleDue = {}
    /\ staleDue' = {n \in Nodes : Silent(n) /\ nodes[n].lastProofAt + 2 * StaleAfter < now}
    /\ staleDue' # {}
    /\ UNCHANGED <<vars, uptimeDue, audits>>

StaleList ==
    /\ staleDue = {}
    /\ staleDue' = {n \in Nodes : Silent(n)}
    /\ staleDue' # {}
    /\ UNCHANGED <<vars, uptimeDue, audits>>

UpdateNodeStatus(n, status) == nodes' = [nodes EXCEPT ![n] = [@ EXCEPT !.status = status]]

\* Whatever the node has become since it was listed.
StaleMark(n) ==
    /\ n \in staleDue
    /\ UpdateNodeStatus(n, "stale")
    /\ staleDue' = staleDue \ {n}
    /\ UNCHANGED <<proofs, usedNonces, trustedTip, sub, poll, env, uptimeDue, audits>>

StaleFails(n) ==
    /\ Faults
    /\ n \in staleDue
    /\ staleDue' = staleDue \ {n}
    /\ UNCHANGED <<vars, uptimeDue, audits>>

-----------------------------------------------------------------------------
(* POST /api/challenges/submit *)

\* An answer passed: the bonus is paid to the node, of whatever status.
AuditBonus(n) ==
    /\ audits[n] < MaxAudits
    /\ AddUptimeAndPoints(n, 0)
    /\ audits' = [audits EXCEPT ![n] = @ + 1]
    /\ UNCHANGED <<proofs, usedNonces, trustedTip, sub, poll, env, upkeepLists>>

-----------------------------------------------------------------------------
\* A new process starts both tasks at their first tick.
UpkeepRestart == Restart /\ uptimeDue' = {} /\ staleDue' = {} /\ UNCHANGED audits

\* What writes nodes besides the intake.
Upkeep ==
    \/ UptimeList \/ StaleList
    \/ \E n \in Nodes : UptimeCredit(n) \/ UptimeFails(n) \/ StaleMark(n) \/ StaleFails(n)
    \/ \E n \in Nodes : AuditBonus(n)

\* Everything of ProofIntake but its restart, which stops these tasks too.
Intake ==
    \/ \E h \in Handlers : Submit(h)
    \/ Poll
    \/ RefreshTip \/ MineBlock \/ Tick
    \/ \E n \in Nodes : Suspend(n)

UpkeepNext ==
    \/ Intake /\ UNCHANGED <<upkeepLists, audits>>
    \/ Upkeep
    \/ UpkeepRestart

UpkeepSpec == UpkeepInit /\ [][UpkeepNext]_upkeepVars

\* The staleness task ticks for ever, in whatever process runs: its rounds are
\* cut short by failures and restarts again and again, but not every time.
FairUpkeepSpec ==
    /\ UpkeepSpec
    /\ SF_upkeepVars(StaleList)
    /\ \A n \in Nodes : SF_upkeepVars(StaleMark(n))

-----------------------------------------------------------------------------
(* Properties *)

(* Every variable has the shape its declaration says.                       *)
UpkeepTypeOK ==
    /\ TypeOK /\ uptimeDue \subseteq Nodes /\ staleDue \subseteq Nodes
    /\ audits \in [Nodes -> Nat]

\* What a node is due for its uptime rounds and its audits.
AccruedBy(n) == Tier[n] * (nodes[n].uptime + audits[n])

(* A node's points are the awards of its credited proofs and its tier for   *)
(* each uptime round and each passed audit, whoever writes the row when: no *)
(* update is lost.                                                          *)
BalanceIsEarned ==
    \A n \in Nodes :
       nodes[n].points = SumFunctionOnSet([k \in Keys |-> proofs[k].points], CreditedKeys(n))
                           + AccruedBy(n)

(* Standing is earned by proofs: a node without a credited proof is neither *)
(* active nor stale, and has no uptime.  The tasks act on old lists, so     *)
(* this also says that no list they hold was ever wrong about it.           *)
StandingIsEarned ==
    \A n \in Nodes : CreditedKeys(n) = {} =>
       /\ nodes[n].status \in {"registered", "suspended"}
       /\ nodes[n].uptime = 0
       /\ n \notin uptimeDue \cup staleDue

\* Nothing under way has read node n before it was suspended.
Drained(n) ==
    /\ \A h \in Handlers :
          sub[h].pc \notin {"idle", "lookup", "done"} => sub[h].req.node # n
    /\ poll.pc \in {"tip", "ask", "quorum"} => n \notin poll.todo
    /\ poll.pc \in {"quorum", "insert", "apply"} => n \notin poll.todo \cup {poll.key.node}
    /\ n \notin uptimeDue \cup staleDue

(* Suspension is checked when a node is read and undone by writes that come *)
(* later.  Once what was under way when it was suspended has ended, a node  *)
(* stays suspended, for good, and is paid for no proof and no uptime round. *)
(* Audits do not ask for the status: their bonus is all it can still earn.  *)
SuspensionDrains ==
    [][\A n \in Nodes : nodes[n].status = "suspended" /\ Drained(n) =>
          /\ nodes'[n].status = "suspended"
          /\ nodes'[n].points = nodes[n].points + Tier[n] * (audits'[n] - audits[n])
          /\ nodes'[n].uptime = nodes[n].uptime
          /\ Drained(n)']_upkeepVars

(* A node that is active and silent for longer than the threshold does not  *)
(* stay so: it is marked, suspended, or proves something.                   *)
SilentNodesGoStale == \A n \in Nodes : Silent(n) ~> ~Silent(n)

\* StandingIsEarned, with the column the tasks make their lists from.
StandingInv ==
    /\ StandingIsEarned
    /\ \A n \in Nodes : CreditedKeys(n) = {} => nodes[n].lastProofAt = None

\* The ledger, with uptime and audits as what accrues without a claim.
UpkeepLedger == INSTANCE CreditLedger WITH
    Claims   <- Keys,
    Amounts  <- Awards,
    decision <- [k \in Keys |-> DecisionOf(proofs[k])],
    award    <- [k \in Keys |-> proofs[k].points],
    accrued  <- [n \in Nodes |-> AccruedBy(n)],
    balance  <- [n \in Nodes |-> nodes[n].points]

(* Intake and upkeep together implement the ledger: a balance moves by one  *)
(* credited claim or one accrual at a time.                                 *)
UpkeepImplementsLedger == UpkeepLedger!Spec
=============================================================================
