SPECIFICATION FairSpec
CONSTANTS
  MaxConnections = 2
  MaxSessions = 2
INVARIANTS TypeOK OneSender NoLingering ConnectAlone FreshInformation
PROPERTY MainReturns
\* The bounds are used up, or nobody opens the display again.
CHECK_DEADLOCK FALSE
