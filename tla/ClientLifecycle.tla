-------------------------- MODULE ClientLifecycle --------------------------
(***************************************************************************)
(* What a client promises to an application that waits for the answer to   *)
(* each Start(): it is in one phase at a time, runs only by a Start() or   *)
(* out of a suspension, and is suspended only by the agent turning         *)
(* geolocation off, for as long as it stays off.  ServiceClient implements *)
(* this with four variables that could disagree.                           *)
(***************************************************************************)

VARIABLES phase, enabled

Phases == {"stopped", "asking", "running", "suspended", "gone"}

LifecycleInit == phase = "stopped" /\ enabled \in BOOLEAN

\* A Start() is granted at once, or the agent is asked.
Begin ==
    /\ phase = "stopped"
    /\ enabled
    /\ phase' \in {"asking", "running"}
    /\ UNCHANGED enabled

\* The question is answered; a deleted client disappears with the answer.
Answer ==
    /\ phase = "asking"
    /\ phase' \in {"running", "stopped", "gone"}
    /\ UNCHANGED enabled

End ==
    /\ phase = "running"
    /\ phase' = "stopped"
    /\ UNCHANGED enabled

Disable ==
    /\ enabled
    /\ enabled' = FALSE
    /\ phase' = IF phase = "running" THEN "suspended" ELSE phase

Enable ==
    /\ ~enabled
    /\ phase # "gone"
    /\ enabled' = TRUE
    /\ phase' = IF phase = "suspended" THEN "running" ELSE phase

\* A vanished agent allows nothing more, but suspends nobody.
AgentLost ==
    /\ enabled
    /\ enabled' = FALSE
    /\ UNCHANGED phase

Drop ==
    /\ phase \in {"stopped", "running", "suspended"}
    /\ phase' = "gone"
    /\ UNCHANGED enabled

LifecycleNext ==
    Begin \/ Answer \/ End \/ Disable \/ Enable \/ AgentLost \/ Drop

LifecycleSpec == LifecycleInit /\ [][LifecycleNext]_<<phase, enabled>>
=============================================================================
