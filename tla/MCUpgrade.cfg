\* Two attempts; the worker may die twice and two steps may fail, anywhere but in
\* three of the four windows that the runs of their own show.
CONSTANTS
  MaxWrites = 2
  MaxChecks = 2
  MaxDeaths = 2
  MaxFailures = 2
  MaxQuits = 1
  Spared = {"emptied", "reopened", "unsynced"}
SPECIFICATION FairSpec
CHECK_DEADLOCK FALSE
INVARIANTS
  WritesSurvive
  VersionsAgree
  OneServer
PROPERTIES
  DataIsThere
  ServiceReturns
