\* Two channels, of which one is closed while its upstream still sends.
SPECIFICATION Spec
CONSTANTS
  Channels = {1, 2}
  MaxWebSockets = 1
  Window = 2
  Queue = 1
  MaxSent = 2
  MaxRead = 1
INVARIANTS
  ChannelsIndependent
CHECK_DEADLOCK FALSE
