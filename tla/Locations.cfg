\* Exports and signals may fail; thresholds come and go.
SPECIFICATION Spec
CONSTANTS
    Places <- MCPlaces
    Times <- MCTimes
    Thresholds = {0, 50}
    TimeThresholds = {0, 40}
    Failures = {"export", "emit"}
    Grace = 2
    MaxUpdates = 5
    NULL = NULL
INVARIANTS
    OneOwnerEach
    NamedObjectsExist
PROPERTIES
    SignalsChain
    QuietUpdatesAreSmall
CHECK_DEADLOCK FALSE
