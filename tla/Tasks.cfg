SPECIFICATION Spec
CONSTANTS
  None = None
  Continuous = {c1}
  Scheduled = {t1}
  s1 = s1
  s2 = s2
  s3 = s3
  s4 = s4
  Slots = {s1, s2, s3}
  ContinuousDefs <- MCContinuousDefs
  ScheduledDefs <- MCScheduledDefs
  CountCap = 1
  MaxTicks = 2
  MaxQueue = 2
CONSTRAINT OneTask
SYMMETRY SlotSymmetry
INVARIANTS
  TypeOK
  LedgerConsistent
  OneProcess
  StateMatchesProcess
  RestartingIsArmed
  PendingIsStopping
  ActiveIsTracked
PROPERTIES
  SkipNeverOverlaps
  NoUnwantedStart
