CONSTANTS
  chat = chat
  meeting = meeting
  unlabelled = unlabelled
  cron = cron
  thread = thread
  call = call
  None = None
  SurfacesOf <- MCSurfacesOf
  OriginOf <- MCOriginOf
  ToolOf <- MCToolOf
  Tools = {tool}
  Threads = {thread}
  Meetings = {call}
  Calls = {chat, meeting, unlabelled}
  MaxStoreErrors = 1
  MaxCrashes = 1
SPECIFICATION FairSpec
INVARIANTS
  ApprovalReachesCall
  RoutesKnown
PROPERTIES
  KeepsPromise
  DenialsAgree
  ApprovedIsActedOn
