SPECIFICATION FairSpec
CONSTANTS
  None = None
  p1 = p1
  p2 = p2
  q1 = q1
  q2 = q2
  Plugins = {p1}
  Processes = {q1, q2}
  Owner <- MCOwner
  MaxOutput = 1
  QueueSize = 2
INVARIANTS
  TypeOK
  HandlersExcluded
PROPERTIES
  DeliveredInOrder
  CallReturned
  ExitSettled
