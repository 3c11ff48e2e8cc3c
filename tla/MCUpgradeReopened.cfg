CONSTANTS
  MaxWrites = 1
  MaxChecks = 2
  MaxDeaths = 1
  MaxFailures = 1
  MaxQuits = 0
  Spared = {"emptied", "unsynced"}
SPECIFICATION Spec
CHECK_DEADLOCK FALSE
INVARIANT
  WritesSurvive
