CONSTANTS
  page = page
  a = a
  b = b
  c = c
  d = d
  None = None
  Revisions <- MCRevisions
  Chunks = {a, b, c, d}
  Batches <- MCBatches
  SummaryIds <- MCSummaryIds
  FanIn = 2
  Fanout = 2
  Workers = {w1, w2}
  MaxAttempts = 2
  MaxDisturbances = 1
SPECIFICATION FairSpec
INVARIANTS
  RootsCoverRevision
  OnlyTallVanish
  SupersededHidden
PROPERTIES
  RevisionIsSealed
CHECK_DEADLOCK FALSE
