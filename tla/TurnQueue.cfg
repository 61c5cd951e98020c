\* a turn, a follow-up and a message of any queue mode or a parallel turn; one cancel or clear
SPECIFICATION Spec
CONSTANTS
  r1 = r1
  r2 = r2
  r3 = r3
  Requests <- MCRequests
  ModesOf <- SomeModes
  None = None
  MaxCancels = 1
INVARIANTS
  LiveTurnsAreReachable
  OnlyDisplacedStrand
  HandledOnce
  CancelledStaysQuiet
PROPERTIES
  EveryTurnReports
  FollowupRuns
CHECK_DEADLOCK FALSE
