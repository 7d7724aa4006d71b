-------------------------- MODULE MCLocatorSources -------------------------
(***************************************************************************)
(* A small instance of LocatorThresholds: wifi (a web source), a GPS and   *)
(* an NMEA service of any accuracy, shared by a locator of street and two  *)
(* of exact level, of which two live at a time.                            *)
(***************************************************************************)
EXTENDS LocatorThresholds

CONSTANTS street, exact, other, wifi, gps, nmea

MCOrder == {<<wifi, gps>>, <<wifi, nmea>>, <<gps, nmea>>}
MCAccuracy == [l \in Locators |-> IF l = street THEN 6 ELSE EXACT]
MCLevels ==
    [s \in Sources |-> CASE s = wifi -> {NONE, CITY, 6}
                         [] s = gps  -> {NONE, EXACT}
                         [] s = nmea -> {NONE, CITY, EXACT}]
=============================================================================
