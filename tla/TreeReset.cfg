CONSTANTS
  None = None
  Rpc = Rpc
  Tokens <- MCTokens
  Chunks = {c1}
  SummaryIds = {s1, s2, s3}
  Budget = 2
  Fanout = 2
  Top = 2
  Workers = {w1}
  MaxCrashes = 1
  MaxFailures = 1
  MaxManualFlushes = 1
  MaxResets = 1
  MaxDisturbances = 2
SPECIFICATION FairSpecReset
INVARIANTS
  ResetStrandsNothing
  NothingComesBack
PROPERTIES
  EveryChunkIsRebuilt
