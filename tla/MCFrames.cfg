SPECIFICATION Spec
CONSTANTS
    Requests = {r1, r2}
    MaxFrames = 4
    MaxConfigs = 2
    GopMax = 2
    MaxAsked = 2
    MaxFaults = 1
CHECK_DEADLOCK FALSE
INVARIANTS
  CacheIsSound
PROPERTIES
  NeverSuperseded
  RequestsEnd
