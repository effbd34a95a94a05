SPECIFICATION Spec
CONSTANTS
  a1 = a1
  a2 = a2
  t1 = t1
  v1 = v1
  p1 = p1
  None = None
  Queries = {q1, q2, q3}
  Flights = {f1}
  Swappers = {s1}
  Keys = {a1}
  QTypeOf <- MCQTypeOf
  PanelKeys <- MCPanelKeys
  Intercepted <- MCIntercepted
  PolicyAction <- MCPolicyAction
  MaxGen = 2
  GenBound <- MCPolicyGens
  MaxEpoch = 2
  CacheMax = 1
  EvictSample = 8
  FlightLimit = 1
  MaxInflight = 2
SYMMETRY Symmetry
INVARIANTS
  CacheFollowsSnapshots
  AnswersNotOlderThanArrival
CONSTRAINTS OneFlushOrPolicyTwice TwoServed
