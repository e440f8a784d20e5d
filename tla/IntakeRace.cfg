\* Two concurrent submissions and the poller on one node and one height, while the clock moves.
SPECIFICATION Spec
CONSTANTS
  None = None
  Nodes = {n1}
  Handlers = {h1, h2}
  Heights = {0}
  Hashes <- OneSpelling
  Blocks <- MCBlocks
  Nonces = {x1, x2}
  Telemetry <- MCTelemetry
  Tier <- MCTier
  RpcNodes <- AllNodes
  BlockOf <- MCBlockOfOne
  Chain <- MCChain
  Genesis = 0
  TipLag = 0
  Strict = TRUE
  MaxDrift = 0
  HeightLag = 0
  HeightModulus = 16
  MaxTime = 1
  MaxSkew = 0
  Faults = TRUE
  CanSuspend <- NoNodes
SYMMETRY Requesters
INVARIANTS TypeOK CreditedAtMostOnce OneRequestPerNonce OneVerdictPerClaim RepliesAreTrue
PROPERTIES RowsAreFinal ImplementsLedger
