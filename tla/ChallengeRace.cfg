\* Two answers to one challenge, around its expiry; time and the expiry task go on.
SPECIFICATION FairSpec
CONSTANTS
  None = None
  Nodes = {n1}
  Challenges = {c1}
  Handlers = {h1, h2}
  Nonces = {x1, x2}
  Tier <- MCTier
  Lifetime = 1
  MinDepth = 1
  MaxDepth = 4
  Tips = {3, 4, 9}
  MaxTime = 3
  Faults = TRUE
INVARIANTS TypeOK RetransmissionPaysOnce BonusesAreEarned
PROPERTIES LateAnswersAreRefused EveryChallengeIsResolved ResolvedForGood
