SPECIFICATION Spec
CONSTANTS
  n1 = n1  n2 = n2  n3 = n3
  forward = forward  finish = finish  back = back  abort = abort  none = none
  SemanticModel = 3
  Nodes <- MCNodes
  NodeType <- MCNodeType
  OrderIndex <- MCOrderIndex
  EntryNode = n1
  Transitions <- MCTransitions
  NoTransition = none
  Source <- MCSource
  Target <- MCTarget
  Effect <- MCEffect
  Primary <- MCPrimary
  MaxReturnsPerEdge = 2
  Business = TRUE
  MaxReceipts = 7
  MaxRefusals = 1
INVARIANTS
  TypeOK
  ActivationSafety
  ExhaustedEdgeEscalated
  CommandsLeaveTheirRecords
  ReadsTellTheTruth
