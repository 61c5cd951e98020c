CONSTANTS
  c1 = c1
  s1 = s1
  Sync = Sync
  Rpc = Rpc
  None = None
  Chunks = {c1}
  Summaries = {s1}
  Unembeddable = {c1}
  Signatures = {A, B}
  First = A
  Batch = 1
  MaxDisturbances = 2
SPECIFICATION Spec
INVARIANTS
  CoverageIsReal
  UncoveredIsPursued
  FlagStandsForBatch
PROPERTIES
  ChainEnds
  EmbeddableSearchable
