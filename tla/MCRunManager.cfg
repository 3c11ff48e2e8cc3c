\* Two runs, on one device or on two; an archive of one record, one crash, and
\* writes of the journal that may fail.
CONSTANTS
  Runs = {r1, r2}
  Devices = {d1, d2}
  Waiters = {}
  NoRun = NoRun
  HistoryCap = 1
  MaxRestarts = 1
  PersistFails = TRUE
SPECIFICATION Spec
SYMMETRY RunSymmetry
CHECK_DEADLOCK FALSE
INVARIANTS
  AdmissionIsExclusive
  CancelWins
  EndsOnce
  JournalIsTrue
