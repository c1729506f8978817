SPECIFICATION Spec
CONSTANTS
  a = a
  b = b
  c = c
  o = o
  x = x
  p = p
  q = q
  Users = {a, b, c}
  Teams = {o, x}
  Repos = {}
  OwnerTeams = {o, x}
  Visibility <- Private
  Anonymous = {}
  Locked = {}
  Metas <- PeopleMetas
  Githubs <- PeopleGithubs
  Resources <- PeopleResources
  FaultKinds = {"abort", "github", "limit", "lost", "operation"}
  EditKinds = {"meta", "resource"}
  LimitErrors = {"until"}
  StaleReads = FALSE
  MaxFaults = 1
  MaxEdits = 1
INVARIANTS TypeOK StateTellsPending
PROPERTIES RemovalsJustified OwnersKept DryRunKeepsGithub QuietWhileRateLimited
