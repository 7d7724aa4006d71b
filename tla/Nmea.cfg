\* A socket, if it is configured, and two services in the network; two locators use the source.
SPECIFICATION FairSpec
CONSTANTS
    sock = sock  phone = phone  boat = boat
    Socket = {sock}
    Net = {phone, boat}
    Levels <- MCLevels
    MaxUses = 2
    NULL = NULL
INVARIANTS
    ConnectedToBest
    TimerWhenAllBroken
    LevelIsBest
PROPERTY
    SettlesConnected
