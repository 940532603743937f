SPECIFICATION Spec
CONSTANTS
  Rows <- OneRow
  Drawers = {bgThread}
  MainThread = main
  AutoRefresh = FALSE
  AutoRefreshNum = 1
  ManualRefresh = TRUE
  Ble = FALSE
  Faulty = FALSE
  MaxPackets = 2
  MaxAtEnd = 2
  MaxFrames = 1
  MaxUnanswered = 2
  NoPacket = NoPacket
INVARIANT RefreshIsCurrent
\* The threads stop once the driver has been terminated.
CHECK_DEADLOCK FALSE
