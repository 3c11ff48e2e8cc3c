SPECIFICATION Spec
CONSTANTS
  Callers = {c1, c2}
  Run = run
  Watch = watch
  Session = session
  NoOwner = nobody
  None = none
  Ops = {o1}
  MaxCalls = 4
  MaxFrames = 2
  MaxFaults = 1
CHECK_DEADLOCK FALSE
INVARIANTS
  HeldToTheEnd
  OperationOnce
  FreshFrame
PROPERTIES
  SessionEnds
