SPECIFICATION FairSpec
CONSTANTS
  a = a
  b = b
  c = c
  Users = {a}
  Core = {}
  Strangers = {}
  Ghosts = {}
  Metas <- TTLMetas
  FaultKinds = {"config"}
  EditKinds = {}
  LimitErrors = {}
  StaleReads = FALSE
  MaxFaults = 1
  MaxEdits = 0
PROPERTIES MembershipEnsured
