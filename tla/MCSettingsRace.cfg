SPECIFICATION StSpec
CONSTANTS
  UpstreamAsks <- MCUpstreamAsks
  SubnetAsks = {"off", "host", "wide", "garbage"}
  EnvUpstreams <- MCEnvUpstreams
  EnvSubnet = "wide"
  MaxCalls = 3
  MaxBusy = 2
  MaxStarts = 0
  NoFile = NoFile
INVARIANTS EcsNotDropped
CHECK_DEADLOCK FALSE
