\* One waiter and two runs of one device, an archive of one record: the run that
\* is waited for may be dropped from the archive meanwhile.  No symmetry: the run
\* also checks liveness.
CONSTANTS
  Runs = {r1, r2}
  Devices = {d1}
  Waiters = {w1}
  NoRun = NoRun
  HistoryCap = 1
  MaxRestarts = 0
  PersistFails = FALSE
SPECIFICATION FairSpec
CHECK_DEADLOCK FALSE
INVARIANTS
  WaitsAreSound
PROPERTIES
  WaiterIsTold
  CancelSettles
