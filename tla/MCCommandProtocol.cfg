SPECIFICATION FairSpec
CONSTANTS
  a = a  reuse = reuse  stop = stop  halt = halt  wake = wake  none = none
  Clients = {a, reuse, stop, halt, wake}
  Key <- MCKey
  Hash <- MCHash
  Kind <- MCKind
  Expected <- MCExpected
  Workers = {w1, w2}
  NoClient = none
  MaxFaults = 1
CHECK_DEADLOCK FALSE
INVARIANTS
  TypeOK
  AnswersAreOnRecord
PROPERTIES
  ImplementsExactlyOnce
  EveryRequestAnswered
