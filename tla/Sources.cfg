\* Three locators; starting the wifi source refreshes its level at once.
SPECIFICATION ThresholdFairSpec
CONSTANTS
    street = street
    exact = exact
    other = other
    NULL = NULL
    wifi = wifi
    gps = gps
    nmea = nmea
    Locators = {street, exact, other}
    Sources = {wifi, gps, nmea}
    ConfigOrder <- MCOrder
    Accuracy <- MCAccuracy
    SourceLevels <- MCLevels
    Web = {wifi}
    RefreshedByStart = {wifi}
    Addresses = {a1, a2}
    Thresholds = {0, 1, 2}
INVARIANTS
    UsesBalanced
    OnlyEligibleActive
    RateOfTheLiving
PROPERTY WalkTerminates
