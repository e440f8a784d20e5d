\* The snapshot task and an admin publish at once; a claim is looked up.
SPECIFICATION Spec
CONSTANTS
  None = None
  Wallets = {w1, w2}
  Publishers = {cron, admin}
  Readers = {r1}
  MaxPoints = 2
  MaxCycle = 2
  Faults = TRUE
SYMMETRY TwoWallets
INVARIANTS LeavesMatchRoot PayloadsVerify
PROPERTIES PublishedForGood
