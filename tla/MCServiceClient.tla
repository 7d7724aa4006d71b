-------------------------- MODULE MCServiceClient --------------------------
(***************************************************************************)
(* Small instances of ServiceClient.  Requests holds a value below every   *)
(* level, the default (CITY), a value that is no level, and one above      *)
(* EXACT; MaxLevels the disabled agent, the two lowest levels, a value     *)
(* between two levels and EXACT.                                           *)
(***************************************************************************)
EXTENDS ServiceClient

MCRequests == {0, 4, 7, 9}
MCMaxLevels == {0, 1, 4, 7, 8}
MCReplies == {CITY, EXACT}
MCPerm(app, good, bad) == [i \in {app, good, bad} |->
    IF i = app THEN "ask" ELSE IF i = good THEN "allowed" ELSE "disallowed"]

CONSTANTS app, good, bad
MCPermissions == MCPerm(app, good, bad)
=============================================================================
