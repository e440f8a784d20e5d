\* A relay over four endpoints of which two are faulty, while the chain grows.
SPECIFICATION FairSpec
CONSTANTS
  None = None
  Failed = Failed
  NoEndpoints = NoEndpoints
  AllFailed = AllFailed
  NoQuorum = NoQuorum
  Endpoints = {e1, e2, e3, e4}
  Faulty = {e3, e4}
  Handlers = {h1}
  Sources = {"rpc", "file"}
  Text = Text
  MaxHeight = 1
  MaxDrift = 0
  Faults = TRUE
INVARIANTS AcceptedIsVerified RejectedForCause
PROPERTY EveryTickEnds
