\* Two relays of one wallet register without a label at the same time.
SPECIFICATION Spec
CONSTANTS
  None = None
  Empty = Empty
  Operators = {o1, o2}
  Handlers = {h1, h2}
  KindArgs = {"zebra-full", "lwd"}
  Labels = {None, home}
  Network = "mainnet"
  MaxAttempts = 2
  Faults = TRUE
SYMMETRY Interchangeable
INVARIANT OneNodePerName
