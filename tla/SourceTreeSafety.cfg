CONSTANTS
  None = None
  Rpc = Rpc
  Tokens <- MCTokens
  Chunks = {c1, c2}
  SummaryIds = {s1, s2, s3, s4}
  Budget = 1
  Fanout = 2
  Top = 2
  Workers = {w1, w2}
  MaxCrashes = 1
  MaxFailures = 1
  MaxManualFlushes = 1
  MaxDisturbances = 1
SPECIFICATION Spec
SYMMETRY Symmetry
INVARIANTS
  ParentListsChild
  ChildSealsOnce
  OnlyOvertakenAreLost
  AdmittedIsPursued
  RootIsHighest
PROPERTIES
  UsesKeyQueue
