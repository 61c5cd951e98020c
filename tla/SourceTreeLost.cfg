CONSTANTS
  None = None
  Rpc = Rpc
  Tokens <- MCTokens
  Chunks = {c1, c2, c3}
  SummaryIds = {s1, s2, s3, s4}
  Budget = 2
  Fanout = 2
  Top = 2
  Workers = {w1, w2}
  MaxCrashes = 0
  MaxFailures = 0
  MaxManualFlushes = 0
  MaxDisturbances = 0
SPECIFICATION Spec
SYMMETRY Symmetry
PROPERTIES
  SealMovesItems
