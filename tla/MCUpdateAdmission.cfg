SPECIFICATION AdmissionSpec
CONSTANTS
  Clients = {c1}
  Coordinator = tick
  Requests = {"get", "install", "apply", "cancel", "check", "rollback"}
  Jobs = {run, media}
  Runs = {run}
  Automatic = TRUE
  DiesIn = {"staged", "verifying", "waiting"}
  Faults = {"thread", "disk"}
  MaxRequests = 2
CHECK_DEADLOCK FALSE
INVARIANTS
  FrozenToTheDrain

  
