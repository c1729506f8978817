SPECIFICATION Spec
CONSTANTS
  a = a
  b = b
  c = c
  o = o
  x = x
  p = p
  q = q
  Users = {a, b, c}
  Teams = {o, x}
  Repos = {p, q}
  OwnerTeams = {o}
  Visibility <- Mixed
  Anonymous = {}
  Locked = {q}
  Metas <- RepoMetas
  Githubs <- AssignedGithubs
  Resources <- AssignedResources
  FaultKinds = {"limit"}
  EditKinds = {"github", "meta"}
  LimitErrors = {"until"}
  StaleReads = FALSE
  MaxFaults = 1
  MaxEdits = 1
PROPERTIES AssignmentsKept OnlyAnnounced NothingRepeated
