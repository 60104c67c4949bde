SPECIFICATION Spec
CONSTANTS
  c1 = c1
  c2 = c2
  Clients = {c1}
  Keys <- AllKeys
  DefinitionIds = {"d", "e"}
  MaxVersion = 2
  Stored <- MCStored
  Requests <- MCRequests
  PoolSize = 3
  MaxStimuli = 4
  Last = 4
INVARIANT OncePerKey
CHECK_DEADLOCK FALSE
