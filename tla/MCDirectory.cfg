SPECIFICATION Spec
CONSTANTS
  op = op
  o1 = o1
  n1 = n1
  hum = hum
  c1 = c1
  c2 = c2
  d1 = d1
  d2 = d2
  w1 = w1
  w2 = w2
  o2 = o2
  n2 = n2
  o3 = o3
  n3 = n3
  Principals <- MCPrincipals
  Domains <- MCDomains
  DomainKeys = {"one", "two"}
  Clients = {c1, c2}
  Requests <- MCRequests
  InitialRow <- MCInitialRow
  InitialDomain <- MCInitialDomain
  InitialBinding <- MCInitialBinding
  InitialCoordinators = {op}
  MaxStimuli = 4
  Works = {w1, w2}
  Pairs <- MCPairs
  Lines <- MCLines
  HumanRows = {w1}
  Human = hum
  Operator = op
  Holder <- MCHolder
  MaxVersion = 3
SYMMETRY ClientSymmetry
CHECK_DEADLOCK FALSE
INVARIANTS
  TypeOK
PROPERTIES
  OwnershipSafety
  CommandSafety
  ProgramSafety
