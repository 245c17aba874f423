SPECIFICATION Spec
CONSTANTS
  Median = 3
  RocMod = 2
  Window = 2
  RtcpWindow = 2
  RtcpLast = 3
  Keys = 2
  MaxPackets = 3
INVARIANTS InSync
PROPERTIES NeverBack ImplementsChannel
CHECK_DEADLOCK FALSE
