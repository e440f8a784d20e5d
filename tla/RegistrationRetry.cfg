\* Two relays of one wallet, of the same or of different names, two runs each.
SPECIFICATION Spec
CONSTANTS
  None = None
  Empty = Empty
  Operators = {o1, o2}
  Handlers = {h1, h2}
  KindArgs = {"zebra-full", "lwd"}
  Labels = {None, home}
  Network = "mainnet"
  MaxAttempts = 2
  Faults = TRUE
SYMMETRY Interchangeable
INVARIANTS TypeOK OneNodePerRequest OwnCredentials RefusedByAnother OneNodePerLabel
