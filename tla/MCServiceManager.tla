------------------------- MODULE MCServiceManager -------------------------
(***************************************************************************)
(* Small instances of ServiceManager: applications p1 and p2, agents a1    *)
(* and a2.  With SameUser everybody is of one user, so that agents replace *)
(* each other; otherwise p2 and a2 belong to a second user.                *)
(***************************************************************************)
EXTENDS ServiceManager

CONSTANTS p1, p2, a1, a2, u1, u2

SameUser == [x \in Peers \cup Agents |-> u1]
TwoUsers == [x \in Peers \cup Agents |-> IF x \in {p2, a2} THEN u2 ELSE u1]
=============================================================================
