\* Two answers read one open challenge.
SPECIFICATION Spec
CONSTANTS
  None = None
  Nodes = {n1}
  Challenges = {c1}
  Handlers = {h1, h2}
  Nonces = {x1, x2}
  Tier <- MCTier
  Lifetime = 1
  MinDepth = 1
  MaxDepth = 4
  Tips = {3, 4, 9}
  MaxTime = 3
  Faults = FALSE
INVARIANT OneBonusPerChallenge
CHECK_DEADLOCK FALSE
