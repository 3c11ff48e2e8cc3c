SPECIFICATION Spec
CONSTANTS
    Sessions = {r1, r2}
    Kinds = {"device", "browser"}
    Callers = {c1}
    Watch = watch
    None = None
    Spared = {"orphan", "split"}
    MaxFrames = 4
    MaxConfigs = 2
    MaxInputs = 2
    MaxCalls = 3
    MaxFaults = 1
    MaxCrashes = 1
    MaxEvents = 5
CHECK_DEADLOCK FALSE
INVARIANTS
  DiskIsTrue
  EvidenceIsTrue
  ShutdownStopsAll
PROPERTIES
  StreamLossEnds
