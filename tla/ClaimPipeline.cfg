\* One publisher, one reader, two cycles; 3 per point where u64 holds 5; a
\* stranger may take either cycle, with the root of any cycle or a strange one.
SPECIFICATION ClaimSpec
CONSTANTS
  None = None
  Wallets = {1, 2}
  Publishers = {cron}
  Readers = {}
  MaxPoints = 2
  MaxCycle = 2
  Faults = TRUE
  Authority = authority
  Strangers = {stranger}
  Roots <- StrangeRoots
  Rates = {3}
  Claimed = {1, 2}
  Proofs <- ShortProofs
  MaxTokens = 5
  Deposits = {4}
  MaxDeposited = 8
INVARIANTS ClaimTypeOK TotalsGrow VaultsBalance PayoutsMatchSnapshot PayloadsVerifyOnChain EveryLeafVerifies
