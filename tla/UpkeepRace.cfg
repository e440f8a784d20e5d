\* No trusted RPCs: two submissions of one node, the uptime and staleness tasks, an audit, suspension, the clock.
SPECIFICATION FairUpkeepSpec
CONSTANTS
  None = None
  Nodes = {n1}
  Handlers = {h1, h2}
  Heights = {0, 15}
  Hashes <- OneBlock
  Blocks <- OnlyBlocks
  Nonces = {x1, x2}
  Telemetry <- MCTelemetry
  Tier <- MCTier
  RpcNodes <- NoNodes
  BlockOf <- MCBlockOf
  Chain <- MCChain
  Genesis = 0
  TipLag = 0
  Strict = FALSE
  MaxDrift = 0
  HeightLag = 1
  HeightModulus = 16
  MaxTime = 2
  MaxSkew = 1
  Faults = TRUE
  CanSuspend <- AllNodes
  UptimeWindow = 0
  StaleAfter = 1
  MaxUptime = 1
  MaxAudits = 1
INVARIANTS BalanceIsEarned StandingIsEarned
PROPERTIES SuspensionDrains SilentNodesGoStale UpkeepImplementsLedger
