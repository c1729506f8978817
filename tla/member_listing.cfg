SPECIFICATION FairSpec
CONSTANTS
  v1 = v1
  v2 = v2
  u1 = u1
  u2 = u2
  u3 = u3
  Workers = {v1, v2}
  Users = {u1, u2, u3}
  Groups <- TwoOfThem
  PageSize = 1
  Half = 3
  MaxDelay = 1
  FaultKinds = {"refused", "request", "revoked", "shape", "torn"}
  MaxFaults = 1
  MaxChanges = 1
INVARIANTS TypeOK LiveToken
PROPERTIES NobodyMissed Recovers
