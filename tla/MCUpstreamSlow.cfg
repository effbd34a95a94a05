SPECIFICATION UpSpec
CONSTANTS
  c1 = c1
  c2 = c2
  c3 = c3
  Calls = {c1, c2, c3}
  N = 3
  QueryTimeout = 15
  AttemptMax = 2
  Threshold = 2
  Cooldown = 5
  Outside = Outside

INVARIANTS SingleProbe
