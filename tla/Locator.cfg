\* A GPS and a web source; ages and thresholds scaled down.
SPECIFICATION FilterSpec
CONSTANTS
    gps = gps
    web = web
    Reporters = {gps, web}
    Priority = {gps}
    Places <- MCPlaces
    Times <- MCTimes
    Accuracies <- MCAccuracies
    Unknown = Unknown
    NoLocation = NoLocation
    MaxSpeed = 1
    MaxLocationAge = 4
    MaxPriorityAge = 3
    PriorityAccuracy = 1
INVARIANTS
    LockNotAhead
PROPERTIES
    PriorityHolds
