SPECIFICATION Spec
CONSTANTS
  Rows <- OneRow
  Drawers = {bgThread, worker}
  MainThread = main
  AutoRefresh = TRUE
  AutoRefreshNum = 1
  ManualRefresh = FALSE
  Ble = TRUE
  Faulty = TRUE
  MaxPackets = 4
  MaxAtEnd = 1
  MaxFrames = 2
  MaxUnanswered = 1
  NoPacket = NoPacket
SYMMETRY Threads
INVARIANTS TypeOK QueueAccounting ShutGateHasLine GoneIsReported ReportedOnce NoLostWakeup RefreshBudget ContentNeverLost
\* The threads stop once the driver has been terminated.
CHECK_DEADLOCK FALSE
