---------------------------- MODULE MCGetLocation --------------------------
(***************************************************************************)
(* A small instance of GetLocation: three locations, two of which may come *)
(* before Start is answered, and at most three messages on their way when  *)
(* the service has news.                                                   *)
(***************************************************************************)
EXTENDS GetLocation
=============================================================================
