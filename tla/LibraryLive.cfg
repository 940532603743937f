SPECIFICATION FairSpec
CONSTANTS
  MaxSessions = 1
  MaxShows = 1
  MaxEvents = 2
  Timeouts = TRUE
  QueryErrors = FALSE
  None = None
INVARIANT HeldFrameIsDecided
PROPERTIES ModesSettle MainReturns
\* The bounds are used up, or the session is over and nobody starts one.
CHECK_DEADLOCK FALSE
