\* A submission and the poller, fair and without failures, while the chain grows, the cached tip is behind it and nodes are suspended.
SPECIFICATION FairSpec
CONSTANTS
  None = None
  Nodes = {n1}
  Handlers = {h1}
  Heights = {0, 1}
  Hashes <- OneSpelling
  Blocks <- MCBlocks
  Nonces = {x1}
  Telemetry <- MCTelemetry
  Tier <- MCTier
  RpcNodes <- AllNodes
  BlockOf <- MCBlockOfOne
  Chain <- MCChain
  Genesis = 0
  TipLag = 0
  Strict = TRUE
  MaxDrift = 0
  HeightLag = 0
  HeightModulus = 16
  MaxTime = 0
  MaxSkew = 0
  Faults = FALSE
  CanSuspend <- AllNodes
PROPERTIES EverySubmissionIsAnswered EveryAwardIsCredited EveryRoundEnds
INVARIANTS AcceptedIsOnChain LastProofIsCredited
