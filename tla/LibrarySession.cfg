SPECIFICATION Spec
CONSTANTS
  MaxSessions = 1
  MaxShows = 2
  MaxEvents = 1
  Timeouts = FALSE
  QueryErrors = TRUE
  None = None
INVARIANTS TypeOK PendingHasQuery OneQuery ReportFollowsOperation
\* The bounds are used up, or the session is over and nobody starts one.
CHECK_DEADLOCK FALSE
