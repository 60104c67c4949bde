SPECIFICATION FairSpec
CONSTANTS
  first = first  second = second  i1 = i1
  moved = moved  ended = ended  filed = filed  kick = kick  wake = wake
  w1 = w1  w2 = w2  none = none
  Commands = {first, second}
  Instances = {i1}
  Rows = {moved, ended, filed, kick}
  InstanceOf <- MCInstanceOf
  CommandOf <- MCCommandOf
  Kind <- MCKind
  Id <- MCId
  Workers = {w1, w2}
  NoRow = none
  Channels = {"EXECUTION_KICK", "FORUM_EVENT", "OWNER_ASSISTANCE_WAKE"}
  BatchLimit = 2
  KickMaxAttempts = 1
  MaxPower = 9
  MaxFaults = 1
CHECK_DEADLOCK FALSE
INVARIANTS
  TypeOK
  DeliverySafety
  ThreadSafety
PROPERTIES
  KeepsItsPromise
  EveryRowSettles
