SPECIFICATION Spec
CONSTANTS
  a = a
  b = b
  c = c
  Users = {a, b}
  Core = {a}
  Strangers = {b}
  Ghosts = {}
  Metas <- VariedMetas
  FaultKinds = {"abort", "github", "limit", "provider", "team"}
  EditKinds = {"members", "meta"}
  LimitErrors = {"until", "floating"}
  StaleReads = FALSE
  MaxFaults = 1
  MaxEdits = 2
PROPERTIES WriteAhead QuietWhileRateLimited
