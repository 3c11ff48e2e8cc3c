SPECIFICATION Spec
CONSTANTS
    p = p
    d = d
    Ids = {p, d}
    Archives <- MCArchives
    Needs <- MCNeeds
    Resident = {p}
    Managers = {m1, m2}
    Callers = {c1}
    Boot = boot
    NoOne = noone
    Kinds = {"install", "update", "quiet", "enable", "disable", "uninstall", "remove"}
    MaxOps = 2
    MaxCalls = 1
    MaxFaults = 1
    MaxCrashes = 1
    CrashAnywhere = FALSE
CHECK_DEADLOCK FALSE
INVARIANTS
  CallsAreSheltered
  
  NeedsAreMet
PROPERTIES
  DisabledStays
  OperationsEnd
