\* A submission interrupted between its two writes.
SPECIFICATION Spec
CONSTANTS
  None = None
  Nodes = {n1}
  Handlers = {h1}
  Heights = {0}
  Hashes <- OneSpelling
  Blocks <- MCBlocks
  Nonces = {x1, x2}
  Telemetry <- MCTelemetry
  Tier <- MCTier
  RpcNodes <- NoNodes
  BlockOf <- MCBlockOfOne
  Chain <- MCChain
  Genesis = 0
  TipLag = 0
  Strict = TRUE
  MaxDrift = 0
  HeightLag = 0
  HeightModulus = 16
  MaxTime = 0
  MaxSkew = 0
  Faults = TRUE
  CanSuspend <- NoNodes
INVARIANT TotalsAgree
