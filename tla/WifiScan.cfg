\* Two sources share one interface, whose proxies and access points arrive late.
SPECIFICATION FairSpec
CONSTANTS
    street = street
    city = city
    Wifis = {street, city}
    Interfaces = {wlan}
    BSSs = {home}
    MaxProxies = 1
    MaxCalls = 1
    None = None
INVARIANTS
    ConnectedWhenUsable
    ScanGoesOn
    ListIsReal
PROPERTIES
    EverySourceListsPoints
    NewsGetsOut
CHECK_DEADLOCK FALSE
