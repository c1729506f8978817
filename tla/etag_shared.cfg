SPECIFICATION FairSpec
CONSTANTS
  p1 = p1
  p2 = p2
  r1 = r1
  r2 = r2
  Readers = {r1, r2}
  Kinds = {"plain", "ext"}
  Pages = {p1}
  Empty = Empty
  None = None
  MaxPages = 2
  MaxChanges = 1
  Failures = {"body"}
  MaxFailures = 1
INVARIANTS TypeOK
PROPERTIES CallsReturn ValueKept
