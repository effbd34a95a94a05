SPECIFICATION SvSpec
CONSTANTS
  a1 = a1
  a2 = a2
  t1 = t1
  v1 = v1
  p1 = p1
  None = None
  Queries = {q1, q2, q3}
  Flights = {f1}
  Swappers = {s1}
  Keys = {a1, v1, p1}
  QTypeOf <- MCQTypeOf
  PanelKeys <- MCPanelKeys
  Intercepted <- MCIntercepted
  PolicyAction <- MCPolicyAction
  MaxGen = 1
  GenBound <- MCSwapGens
  MaxEpoch = 0
  CacheMax = 1
  EvictSample = 8
  FlightLimit = 1
  MaxInflight = 2
  Calls = {u1, u2, u3}
  N = 2
  QueryTimeout = 4
  AttemptMax = 3
  Threshold = 2
  Cooldown = 6
  Outside = Outside
  UpstreamAsks <- MCUpstreamAsks
  SubnetAsks = {"off", "host", "garbage"}
  EnvUpstreams <- MCEnvUpstreams
  EnvSubnet = "wide"
  MaxCalls = 3
  MaxBusy = 1
  MaxStarts = 1
  NoFile = NoFile
  Clients = {r1, r2}
  Cost = 2
  Cap = 4
  Factor = 2
  Ceiling = 7
  SweepGap = 5
  Skew = 1
  MaxTime = 12
  Unswept = Unswept
  Space = 8
  Sizes = {1, 2, 4, 8}
  Lists <- MCLists
  Hosts <- MCHosts
  ChinaSets <- MCChinaSets
  Replies <- MCReplies
  Gateway = "gw"
  Failed = Failed
  Pending = Pending
  MaxReloads = 2
INVARIANTS
  SingleProbe FairSlices SettingsHold EvictionUnseen LookupExact AnswerByMembership
PROPERTIES
  ServingSettles
CHECK_DEADLOCK FALSE
