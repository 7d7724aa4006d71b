---------------------------- MODULE GetLocation ----------------------------
(***************************************************************************)
(* The program getlocation (getlocation.c): it starts an agent, makes a    *)
(* GClueSimple, shows its locations, and gives up after a timeout.         *)
(*                                                                         *)
(* The agent is a child that one thread forks while another sleeps for a   *)
(* second and then runs the main loop; the call for a client waits until   *)
(* there is an agent for the user, this one or that of the desktop.        *)
(*                                                                         *)
(* Leaving the main loop does not end the round that it is in: messages    *)
(* which were there when the round began are still handled.                *)
(***************************************************************************)
EXTENDS SimpleClient

VARIABLES
    loop,      \* "before", "running", "leaving", "left", "returned"
    due,       \* messages that the last round still handles
    holds,     \* the globals simple and client are set
    dropped,   \* the program gave the object up: it is finalized
    desktop,   \* the desktop has an agent of its own
    agent,     \* "none", "forked", "registered", "stopped"
    agentPid   \* the global: set once the thread is back from fork

programVars == <<loop, due, holds, dropped, desktop, agent, agentPid>>
systemVars == <<simpleVars, programVars>>

ProgramInit ==
    /\ SimpleInit
    /\ loop = "before"
    /\ due = 0
    /\ holds = FALSE
    /\ dropped = FALSE
    /\ desktop \in BOOLEAN
    /\ agent = "none"
    /\ agentPid = FALSE

----------------------------------------------------------------------------
\* run_agent: the binary may be missing, or fail, and then nothing follows.
Fork ==
    /\ agent = "none" /\ loop # "returned"
    /\ agent' = "forked"
    /\ UNCHANGED <<simpleVars, loop, due, holds, dropped, desktop, agentPid>>

ForkReturns ==
    /\ agent # "none" /\ ~agentPid /\ loop # "returned"
    /\ agentPid' = TRUE
    /\ UNCHANGED <<simpleVars, loop, due, holds, dropped, desktop, agent>>

\* The agent finds the service and calls AddAgent.
AgentRegisters ==
    /\ agent = "forked"
    /\ agent' = "registered"
    /\ UNCHANGED <<simpleVars, loop, due, holds, dropped, desktop, agentPid>>

\* getlocation: the timeout is set, the object is asked for, the loop runs.
Run ==
    /\ loop = "before"
    /\ loop' = "running"
    /\ InitAsync
    /\ UNCHANGED <<portal, inbox, waiting, task, listening, cached, response, asked,
                   location, astray, failed, service>>
    /\ UNCHANGED <<due, holds, dropped, desktop, agent, agentPid>>

\* g_clear_object of client and simple, and g_main_loop_quit: n messages are
\* left of the round.
Quit(n) ==
    /\ loop' = "leaving"
    /\ due' = n
    /\ dropped' = (dropped \/ holds)
    /\ holds' = FALSE

\* Mutant: nothing to clear, nothing done.
OnLocationTimeoutIfReady ==
    /\ loop = "running" /\ holds
    /\ \E n \in 0 .. Len(inbox) : Quit(n)
    /\ UNCHANGED <<simpleVars, desktop, agent, agentPid>>

\* on_location_timeout, by the timer
OnLocationTimeout ==
    /\ loop = "running"
    /\ \E n \in 0 .. Len(inbox) : Quit(n)
    /\ UNCHANGED <<simpleVars, desktop, agent, agentPid>>

\* What the program does in the callback m: on_simple_ready when the task is
\* answered, on_client_active_notify when the client is no longer active.
ProgramHears(m) ==
    IF \/ task = "pending" /\ task' = "error"
       \/ m.kind = "properties" /\ ~m.ok /\ cached.active /\ holds
    THEN IF loop = "running" THEN \E n \in 0 .. Len(inbox) - 1 : Quit(n)
         ELSE Quit(due - 1)
    ELSE /\ holds' = (holds \/ (task = "pending" /\ task' = "ok"))
         /\ due' = IF loop = "leaving" THEN due - 1 ELSE due
         /\ UNCHANGED <<loop, dropped>>

Handles ==
    /\ loop = "running" \/ (loop = "leaving" /\ due > 0)
    /\ inbox # << >>
    /\ inbox' = Tail(inbox)

\* One message in the main loop.
Dispatch ==
    /\ ~dropped
    /\ Handles
    /\ Callback(Head(inbox))
    /\ ProgramHears(Head(inbox))
    /\ UNCHANGED <<desktop, agent, agentPid>>

\* gclue_simple_finalize has disconnected the handlers, but does not wait for
\* the proxies that are being made: their callback reads what is freed.
DispatchDropped ==
    /\ dropped
    /\ Handles
    /\ due' = due - 1
    /\ UNCHANGED <<portal, step, request, waiting, task, listening, cached,
                   response, asked, location, astray, failed, service>>
    /\ UNCHANGED <<loop, holds, dropped, desktop, agent, agentPid>>

\* g_main_loop_run returns, and the thread is joined.
LoopLeft ==
    /\ loop = "leaving" /\ due = 0
    /\ loop' = "left"
    /\ UNCHANGED <<simpleVars, due, holds, dropped, desktop, agent, agentPid>>

\* main kills the agent and returns.
MainReturns ==
    /\ loop = "left"
    /\ loop' = "returned"
    /\ agent' = IF agentPid THEN "stopped" ELSE agent
    /\ UNCHANGED <<simpleVars, due, holds, dropped, desktop, agentPid>>

\* The service makes a client only when the user has an agent.  Without one
\* the call ends, if at all, with an error: that of GDBus's own timeout.
ServiceSide ==
    /\ loop \in {"running", "leaving"}
    /\ Environment
    /\ request = "get client" /\ request' = "none" /\ inbox'[Len(inbox')].ok
          => desktop \/ agent = "registered"
    /\ UNCHANGED programVars

ProgramNext ==
    \/ Fork
    \/ ForkReturns
    \/ AgentRegisters
    \/ Run
    \/ OnLocationTimeout
    \/ Dispatch
    \/ DispatchDropped
    \/ LoopLeft
    \/ MainReturns
    \/ ServiceSide

ProgramSpec == ProgramInit /\ [][ProgramNext]_systemVars

\* The timer fires, the loop turns and main goes on; neither the service nor
\* an agent is ever counted on.
ProgramFairSpec ==
    /\ ProgramSpec
    /\ WF_systemVars(Run) /\ WF_systemVars(OnLocationTimeout)
    /\ WF_systemVars(Dispatch) /\ WF_systemVars(DispatchDropped)
    /\ WF_systemVars(LoopLeft) /\ WF_systemVars(MainReturns)

----------------------------------------------------------------------------
(* When nothing is on its way, an object that the program holds shows the   *)
(* last location that was signaled, unless the proxy of that could not be   *)
(* made: none is lost or overtaken by one before it, in the chain of calls  *)
(* or after it.                                                             *)
LatestIsShown ==
    holds /\ inbox = << >> /\ asked = << >> =>
       /\ location # NoLocation
       /\ failed \/ location = service.location

(* The program comes to its end with or without a location, an agent or an  *)
(* answer of the service, wherever in the chain it waits, and also when the *)
(* timer and the last answers come in the same round.                       *)
Ends == <>(loop = "returned")

(* "Terminate the agent process": main leaves no agent of its own behind.   *)
AgentStopped == loop = "returned" => agent \in {"none", "stopped"}

(* "g_cancellable_cancel (priv->cancellable)": no callback of the object     *)
(* comes after it was given up.                                             *)
FreedIsQuiet ==
    [][ dropped /\ inbox # << >> /\ inbox' = Tail(inbox)
           => Head(inbox).kind # "proxy" ]_systemVars
=============================================================================
