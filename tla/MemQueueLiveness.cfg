CONSTANTS
  extract = extract
  extract2 = extract2
  backfill = backfill
  seal = seal
  flush = flush
  None = None
  KindOf <- MCKindOf
  MaxAttempts <- MCMaxAttempts
  Keys = {seal, extract}
  Stamps = {1, 2}
  Jobs = {j1, j2}
  Workers = {w1, w2}
  BatchLimit = 1
  LocalMemory = TRUE
  OtherLlmWork = TRUE
  MaxInterrupts = 0
  MaxLeaks = 1
SPECIFICATION FairSpec
INVARIANTS
  LocalWorkIsSerial
PROPERTIES
  ReadyIsClaimed
  RunningIsSettled
