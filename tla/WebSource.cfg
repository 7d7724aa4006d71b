\* Two access points: a query carries both, or is a GeoIP query.
SPECIFICATION FairSpec
CONSTANTS
    home = home
    cafe = cafe
    BSSs = {home, cafe}
    MaxCached = 2
    None = None
INVARIANTS
    CachedUnderItsRequest
PROPERTIES
    StoppedIsQuiet
    StartedIsTold
CHECK_DEADLOCK FALSE
