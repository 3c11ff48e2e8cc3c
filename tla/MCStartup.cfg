SPECIFICATION Spec
CONSTANTS
  s1 = s1
  s2 = s2
  s3 = s3
  w1 = w1
  w2 = w2
  w3 = w3
  c1 = c1
  c2 = c2
  Starts = {s1, s2, s3}
  Workers = {w1, w2, w3}
  Children = {c1, c2}
  None = none
  EarlyQuits = FALSE
  MaxQuits = 1
  MaxDeaths = 1
SYMMETRY Alike
CHECK_DEADLOCK FALSE
INVARIANTS
  NeverDuringReplacement
