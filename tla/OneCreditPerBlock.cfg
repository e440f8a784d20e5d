\* The poller and a relay spell the same block hash differently.
SPECIFICATION Spec
CONSTANTS
  None = None
  Nodes = {n1}
  Handlers = {h1}
  Heights = {0}
  Hashes <- MCHashes
  Blocks <- MCBlocks
  Nonces = {x1, x2}
  Telemetry <- MCTelemetry
  Tier <- MCTier
  RpcNodes <- AllNodes
  BlockOf <- MCBlockOf
  Chain <- MCChain
  Genesis = 0
  TipLag = 0
  Strict = TRUE
  MaxDrift = 0
  HeightLag = 0
  HeightModulus = 16
  MaxTime = 0
  MaxSkew = 0
  Faults = FALSE
  CanSuspend <- NoNodes
INVARIANT OneCreditPerBlock
