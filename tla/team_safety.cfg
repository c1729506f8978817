SPECIFICATION Spec
CONSTANTS
  a = a
  b = b
  c = c
  Users = {a, b, c}
  Core = {a}
  Strangers = {c}
  Ghosts = {}
  Metas <- VariedMetas
  FaultKinds = {"abort", "config", "github", "limit", "provider", "team"}
  EditKinds = {"desired", "members", "meta"}
  LimitErrors = {"until", "floating"}
  StaleReads = TRUE
  MaxFaults = 1
  MaxEdits = 1
INVARIANTS TypeOK PendingHasWork OneLiveOperation JustifiedOperations
PROPERTIES ProtectedMembers DryRunKeepsMembers
