SPECIFICATION Spec
CONSTANTS
  None = None
  p1 = p1
  p2 = p2
  q1 = q1
  q2 = q2
  Plugins = {p1, p2}
  Processes = {q1}
  Owner <- MCOwner
  MaxOutput = 0
  QueueSize = 1
INVARIANTS
  EarlyExitWaits
