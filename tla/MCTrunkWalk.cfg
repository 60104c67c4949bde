SPECIFICATION FairSpec
CONSTANTS
  c1 = c1
  c2 = c2
  Clients = {c1}
  Keys <- AllKeys
  DefinitionIds = {"d", "e"}
  MaxVersion = 2
  Stored <- MCStored
  Requests <- CyclicRequests
  PoolSize = 3
  MaxStimuli = 2
  Last = 4
PROPERTY ValidationEnds
CHECK_DEADLOCK FALSE
