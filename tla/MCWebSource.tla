----------------------------- MODULE MCWebSource ---------------------------
(***************************************************************************)
(* WebSource with enough access points for a query to carry them.          *)
(***************************************************************************)
EXTENDS WebSource

CONSTANTS home, cafe
=============================================================================
