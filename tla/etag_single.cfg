SPECIFICATION FairSpec
CONSTANTS
  p1 = p1
  p2 = p2
  r1 = r1
  r2 = r2
  Readers = {r1}
  Kinds = {"ext"}
  Pages = {p1, p2}
  Empty = Empty
  None = None
  MaxPages = 1
  MaxChanges = 3
  Failures = {"request"}
  MaxFailures = 2
INVARIANTS FreshRead
PROPERTIES RosterObserved
