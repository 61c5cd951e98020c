CONSTANTS
  extract = extract
  extract2 = extract2
  backfill = backfill
  seal = seal
  flush = flush
  None = None
  KindOf <- MCKindOf
  MaxAttempts <- MCMaxAttempts
  Keys = {backfill, flush}
  Stamps = {1, 2, 3}
  Jobs = {j1, j2}
  Workers = {w1, w2}
  BatchLimit = 1
  LocalMemory = FALSE
  OtherLlmWork = FALSE
  MaxInterrupts = 1
  MaxLeaks = 1
SPECIFICATION Spec
SYMMETRY Symmetry
INVARIANTS
  OneSettlerPerRow
  AttemptsWithinBudget
  NoDoubleClaim
PROPERTIES
  TerminalIsFinal
  ActsAsKeyQueue
