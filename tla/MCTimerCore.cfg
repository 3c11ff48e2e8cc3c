\* One user with one call, two runs, one crash or failing request.
CONSTANTS
  Users = {u1}
  Loop = Loop
  Runs = {r1, r2}
  Schedules <- Some
  Rejected <- Old
  StartTime = 1
  MaxTime = 2
  Lookback = 1
  MaxCalls = 1
  MaxFaults = 1
  None = None
SPECIFICATION FairSpec
CHECK_DEADLOCK FALSE
PROPERTIES
  OnceEach
  IntentKept
  ClaimSettles
  DueIsTaken
