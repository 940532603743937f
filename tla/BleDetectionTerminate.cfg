SPECIFICATION Spec
CONSTANTS
  MaxCalls = 1
  MaxResumes = 0
  MaxScanners = 1
  RadioOff = FALSE
  LoopAnswers = TRUE
  None = None
INVARIANT StoppedByTerminate
\* The bounds are used up, or nobody looks for a display.
CHECK_DEADLOCK FALSE
