\* Three tasks, two sessions and three generations: a claim, a failed and a
\* retried transition, and a second session on the same target.  No symmetry:
\* the run also checks liveness.
CONSTANTS
  Procs = {p1, p2, p3}
  Owners = {a, b}
  NoOwner = NoOwner
  MaxGen = 3
  MaxTickets = 1
SPECIFICATION FairSpec
CHECK_DEADLOCK FALSE
INVARIANTS
  NoMixedInput
  AlwaysStoppable
  ClosedUntilClean
PROPERTIES
  TakesTurns
  TransitionsSettle
