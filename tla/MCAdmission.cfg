SPECIFICATION FairSpec
CONSTANTS
  c1 = c1
  c2 = c2
  Principals <- MCPrincipals
  Commands <- MCCommands
  Jobs <- MCJobs
  Kind <- MCKind
  LocallyOff = {}
  AgentOf <- MCAgentOf
  History <- MCHistory
  Edges <- MCEdges
  Volatile = {2}
  BreakCodes = {"admission_unavailable"}
  Deadline = 1
  MaxInFlight = 1
  MaxTime = 2
  MaxChanges = 1
  MaxTries = 1
CHECK_DEADLOCK FALSE
INVARIANTS
  TypeOK
  AdmittedIsFresh
  AnswersMatchDeeds
PROPERTIES
  EveryCommandAnswered
