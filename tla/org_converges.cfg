SPECIFICATION FairSpec
CONSTANTS
  a = a
  b = b
  c = c
  o = o
  x = x
  p = p
  q = q
  Users = {a, b}
  Teams = {o, x}
  Repos = {p}
  OwnerTeams = {o}
  Visibility <- Private
  Anonymous = {}
  Locked = {}
  Metas <- OneMetas
  Githubs <- Mismatched
  Resources <- BothTeams
  FaultKinds = {"github", "limit"}
  EditKinds = {"meta"}
  LimitErrors = {"until"}
  StaleReads = FALSE
  MaxFaults = 1
  MaxEdits = 1
PROPERTIES Converges RateLimitLifted DryRunLeft
