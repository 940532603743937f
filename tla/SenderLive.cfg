SPECIFICATION FairSpec
CONSTANTS
  Rows <- OneRow
  Drawers = {bgThread, main}
  MainThread = main
  AutoRefresh = FALSE
  AutoRefreshNum = 1
  ManualRefresh = TRUE
  Ble = FALSE
  Faulty = TRUE
  MaxPackets = 2
  MaxAtEnd = 1
  MaxFrames = 2
  MaxUnanswered = 16
  NoPacket = NoPacket
PROPERTIES ServiceKept AlwaysDrains ContentArrives
\* The threads stop once the driver has been terminated.
CHECK_DEADLOCK FALSE
