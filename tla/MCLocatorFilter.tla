-------------------------- MODULE MCLocatorFilter --------------------------
(***************************************************************************)
(* A small instance of LocatorFilter: a GPS and a web source on a line of  *)
(* three places.  Times run past both ages, and the accuracies lie below,  *)
(* at and above the priority threshold and reach no, one and two places.   *)
(***************************************************************************)
EXTENDS LocatorFilter

CONSTANTS gps, web

MCPlaces == 0 .. 2
MCTimes == 0 .. 5
MCAccuracies == 0 .. 2
=============================================================================
