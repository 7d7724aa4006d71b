-------------------------- MODULE MCClientLocation -------------------------
(***************************************************************************)
(* ClientLocation with three places 40 m apart, so that two steps below a  *)
(* threshold of 50 m exceed it together, and two timestamps a minute apart. *)
(***************************************************************************)
EXTENDS ClientLocation

MCPlaces == {0, 40, 80}
MCTimes == {0, 60}
=============================================================================
