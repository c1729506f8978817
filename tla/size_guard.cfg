SPECIFICATION FairSpec
CONSTANTS
  Limit = 8
  Floor = 2
  Labels <- SomeLabels
  MaxOps = 5
  MaxBatch = 2
  MaxFaults = 1
  MaxEdits = 1
INVARIANTS StoredFits
PROPERTIES DropsLeast CallsReturn OutcomeRecorded
