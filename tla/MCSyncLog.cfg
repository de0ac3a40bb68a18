SPECIFICATION Spec
CONSTANTS
  w1 = w1
  w2 = w2
  r1 = r1
  r2 = r2
  v1 = v1
  v2 = v2
  None = None
  Nobody = Nobody
  Writers <- MCWriters
  Replayers <- MCReplayers
  Values <- MCValues
  MaxRuns = 4
SYMMETRY Symmetry
INVARIANTS
  SyncTypeOK
  OnlyCommittedAnnounced
  RowsAreProjection
  CopyIsPrefix
PROPERTIES
  ImplementsLog
CHECK_DEADLOCK FALSE
