---------------------------- MODULE MCNmeaSource ---------------------------
(***************************************************************************)
(* A small instance of NmeaSource: a socket and two services in the        *)
(* network, of street or exact level.                                      *)
(***************************************************************************)
EXTENDS NmeaSource

CONSTANTS sock, phone, boat

MCLevels == {6, EXACT}
=============================================================================
