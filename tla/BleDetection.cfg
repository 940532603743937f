SPECIFICATION FairSpec
CONSTANTS
  MaxCalls = 2
  MaxResumes = 1
  MaxScanners = 2
  RadioOff = TRUE
  LoopAnswers = FALSE
  None = None
INVARIANTS TypeOK NoMissedDevice NotBelieved
PROPERTY CallsReturn
\* The bounds are used up, or nobody looks for a display.
CHECK_DEADLOCK FALSE
