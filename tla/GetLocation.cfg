\* The program with a client of the service or of the portal.
SPECIFICATION ProgramFairSpec
CONSTANTS
    MaxLocations = 3
    MaxInbox = 3
INVARIANTS
    TaskAnsweredOnce
    LatestIsShown
PROPERTY Ends
CHECK_DEADLOCK FALSE
