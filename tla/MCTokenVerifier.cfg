SPECIFICATION FairSpec
CONSTANTS
  k1 = k1
  k2 = k2
  r1 = r1
  r2 = r2
  eager = eager
  probe = probe
  nobody = nobody
  Kids <- MCKids
  Requests <- MCRequests
  Presents <- MCPresents
  Eager = eager
  Probe = probe
  Nobody = nobody
  CacheTtl = 1
  MaxStale = 1
  HttpTimeout = 1
  ClockSkew = 1
  MachineTtl = 1
  AllowedClient = "agent-fleet"
  AllowedSub = ""
  AllowedDelegate = "deputy"
  MaxTime = 3
  MaxRotations = 1
CHECK_DEADLOCK FALSE
INVARIANTS
  TypeOK
  OneRefreshAtATime
PROPERTIES
  VerdictsAreDeserved
  EveryCheckEnds
