------------------------------- MODULE Points -------------------------------
(***************************************************************************)
(* The points engine: what one accepted proof is worth.                    *)
(* server/src/api/proofs.rs (calculate_points, points_from_parts),         *)
(* server/src/scheduler.rs (poll_one_node) and server/src/types.rs         *)
(* (reward_tier).  Points are u64 in the code; the largest award is 87, so *)
(* neither the saturating product nor the sums can reach the width.        *)
(***************************************************************************)
EXTENDS Naturals

CONSTANT None       \* Rust's Option::None, where a height or a time may be absent

(* Option<u64> values are either a natural number or None.                 *)
ASSUME NoneAssumption == None \notin Nat

-----------------------------------------------------------------------------

\* NodeKind::reward_tier: 10 for zebra-full, 6 for lightwalletd.
RewardTiers == {6, 10}

LesserOf(a, b) == IF a < b THEN a ELSE b

\* 5u64.saturating_sub(drift)
Freshness(drift) == IF drift < 5 THEN 5 - drift ELSE 0

\* Mutant: the bonus for uptime is not capped.
UptimeHours(uptimeSeconds) == uptimeSeconds \div 3600

UptimeBonus(uptimeSeconds) == LesserOf(uptimeSeconds \div 3600, 24)

PeersBonus(peers) == LesserOf(peers \div 4, 3)

PointsFromParts(tier, drift, uptimeSeconds, peers) ==
    tier * (1 + Freshness(drift)) + UptimeBonus(uptimeSeconds) + PeersBonus(peers)

\* How far a height is behind the trusted tip the server last cached; a
\* height ahead of the tip, or an unknown tip, counts as no drift at all.
DriftBehind(tip, height) ==
    IF tip # None /\ tip >= height THEN tip - height ELSE 0

\* The award of a signed submission.
SubmissionPoints(tier, height, uptimeSeconds, peers, tip) ==
    PointsFromParts(tier, DriftBehind(tip, height), uptimeSeconds, peers)

\* The award of an exposed-RPC poll, which has no uptime or peers to go by.
PollPoints(tier, height, tip) ==
    tier * (1 + Freshness(DriftBehind(tip, height)))

\* Every amount a proof row can carry.
Awards == 0 .. 87
=============================================================================
