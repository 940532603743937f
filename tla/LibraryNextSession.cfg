SPECIFICATION Spec
CONSTANTS
  MaxSessions = 2
  MaxShows = 0
  MaxEvents = 1
  Timeouts = FALSE
  QueryErrors = FALSE
  None = None
INVARIANT PendingHasQuery
\* The bounds are used up, or the session is over and nobody starts one.
CHECK_DEADLOCK FALSE
