SPECIFICATION FairSpec
CONSTANTS
  ann = ann  bob = bob  nobody = nobody
  Owners = {ann, bob}
  Nobody = nobody
  MaxCases = 1
  MaxVisits = 2
  MaxChanges = 4
  Last <- MCLast
  OpNodes <- MCOpNodes
  GateNodes <- MCGateNodes
  Producer <- MCProducer
  Operations <- MCOperations
CHECK_DEADLOCK FALSE
INVARIANTS
  TypeOK
  CaseClosedByReview
  ObligationSafety
PROPERTIES
  DecisionsStay
  PassesFinishTheWork
