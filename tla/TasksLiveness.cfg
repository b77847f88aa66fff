SPECIFICATION FairSpec
CONSTANTS
  None = None
  Continuous = {c1}
  Scheduled = {}
  s1 = s1
  s2 = s2
  s3 = s3
  s4 = s4
  Slots = {s1, s2, s3}
  ContinuousDefs <- MCOneDef
  ScheduledDefs <- MCOneSchedule
  CountCap = 1
  MaxTicks = 1
  MaxQueue = 1
PROPERTIES
  ExitSettles
  RestartHappens
  StopCompletes
