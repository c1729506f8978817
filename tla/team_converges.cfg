SPECIFICATION FairSpec
CONSTANTS
  a = a
  b = b
  c = c
  Users = {a, b}
  Core = {}
  Strangers = {}
  Ghosts = {}
  Metas <- TTLMetas
  FaultKinds = {"abort", "github", "limit", "provider"}
  EditKinds = {"desired", "members"}
  LimitErrors = {"until"}
  StaleReads = FALSE
  MaxFaults = 1
  MaxEdits = 1
PROPERTIES Converges RateLimitLifted
