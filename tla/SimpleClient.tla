---------------------------- MODULE SimpleClient ---------------------------
(***************************************************************************)
(* GClueSimple (libgeoclue/gclue-simple.c, with the creation of its client *)
(* in libgeoclue/gclue-helpers.c): the chain of asynchronous calls that    *)
(* ends the task of gclue_simple_new with a location, and the locations    *)
(* that are shown afterwards.                                              *)
(*                                                                         *)
(* It has two back ends: the service itself, and the location portal for   *)
(* an application in a sandbox.  Both send answers and signals in one      *)
(* order, which the model keeps: inbox.  What the library does depends on  *)
(* that order, for the callback of Start uses a task that the first        *)
(* location releases.                                                      *)
(*                                                                         *)
(* Each callback is an operator on the message it is given; whoever runs   *)
(* the main loop (GetLocation) takes the messages from the inbox, one at a *)
(* time.                                                                   *)
(***************************************************************************)
EXTENDS Naturals, Sequences, FiniteSets

CONSTANTS
    MaxLocations,  \* bound: locations that the service makes, numbered from 1
    MaxInbox       \* bound: messages on their way, beyond which nothing new

ASSUME SimpleAssumption == MaxLocations \in Nat /\ MaxInbox \in Nat

NoLocation == 0    \* "/", and priv->location == NULL

VARIABLES
    portal,    \* should_use_portal
    step,      \* the call of the chain that is out, "none" outside the chain
    request,   \* that call, while it has not been answered
    inbox,     \* answers and signals on their way
    waiting,   \* priv->task is set
    task,      \* "pending", "ok" or "error"
    listening, \* the handler of the location signal
    cached,    \* [location, active]: the properties in the client's proxy
    response,  \* priv->response_id is set
    asked,     \* locations whose proxy is being made, in order
    location,  \* priv->location
    astray,    \* history: the task was used after it had been released
    failed,    \* history: the last proxy of a location could not be made
    service    \* [location, active, suspended, changed, responding]: the
               \* other side

simpleVars == <<portal, step, request, inbox, waiting, task, listening, cached,
                response, asked, location, astray, failed, service>>

Kinds == {"answer", "location-updated", "properties", "proxy", "response"}

Message(kind, ok, loc) == [kind |-> kind, ok |-> ok, location |-> loc]

----------------------------------------------------------------------------
SimpleInit ==
    /\ portal \in BOOLEAN
    /\ step = "none"
    /\ request = "none"
    /\ inbox = << >>
    /\ waiting = FALSE
    /\ task = "pending"
    /\ listening = FALSE
    /\ cached = [location |-> NoLocation, active |-> FALSE]
    /\ response = FALSE
    /\ asked = << >>
    /\ location = NoLocation
    /\ astray = FALSE
    /\ failed = FALSE
    /\ service = [location |-> NoLocation, active |-> FALSE, suspended |-> FALSE,
                  changed |-> FALSE, responding |-> FALSE]

Call(name) == step' = name /\ request' = name

\* gclue_simple_init_async
InitAsync == Call(IF portal THEN "portal proxy" ELSE "manager proxy")

\* The chain up to the call that starts the updates.
Chain == {"manager proxy", "get client", "client proxy", "portal proxy",
          "create session"}

Following == [c \in {"manager proxy", "get client", "portal proxy"} |->
                CASE c = "manager proxy" -> "get client"
                  [] c = "get client"    -> "client proxy"
                  [] c = "portal proxy"  -> "create session"]

\* g_task_return and g_clear_object of priv->task.
ReturnTask(result) ==
    /\ task' = IF waiting THEN result ELSE task
    /\ astray' = (astray \/ ~waiting)
    /\ waiting' = FALSE

----------------------------------------------------------------------------
\* Each callback states step', request', waiting', task', listening',
\* response', asked', location', astray' and failed'; cached' is that of
\* PropertiesChanged.

\* An error before the task is kept in priv->task.
ChainBreaks(m) ==
    /\ step \in Chain
    /\ m.kind = "answer" /\ ~m.ok
    /\ step' = "none"
    /\ task' = "error"
    /\ listening' = FALSE
    /\ UNCHANGED <<request, waiting, response, asked, location, astray, failed>>

\* on_manager_proxy_ready, on_get_client_ready, on_portal_created (which
\* connects to the portal's signal)
ChainGoesOn(m) ==
    /\ step \in DOMAIN Following
    /\ m.kind = "answer" /\ m.ok
    /\ Call(Following[step])
    /\ listening' = (step = "portal proxy")
    /\ UNCHANGED <<waiting, task, response, asked, location, astray, failed>>

\* on_client_proxy_ready and on_client_created
ClientCreated(m) ==
    /\ step = "client proxy"
    /\ m.kind = "answer" /\ m.ok
    /\ waiting' = TRUE
    /\ listening' = TRUE
    /\ Call("start")
    /\ UNCHANGED <<task, response, asked, location, astray, failed>>

\* Mutant: a location that comes while another is being made is left out.
LocationUpdatedUnlessBusy(m) ==
    /\ m.kind = "location-updated" /\ ~portal
    /\ asked' = IF m.location = NoLocation \/ ~listening \/ asked # << >>
                THEN asked ELSE Append(asked, m.location)
    /\ UNCHANGED <<step, request, waiting, task, listening, response, location,
                   astray, failed>>

\* on_location_updated
LocationUpdated(m) ==
    /\ m.kind = "location-updated" /\ ~portal
    /\ asked' = IF m.location = NoLocation \/ ~listening
                THEN asked ELSE Append(asked, m.location)
    /\ UNCHANGED <<step, request, waiting, task, listening, response, location,
                   astray, failed>>

\* on_client_started: the task that it was given is the one in priv->task.
ClientStarted(m) ==
    /\ step = "start"
    /\ m.kind = "answer"
    /\ step' = "none"
    /\ IF m.ok
       THEN /\ asked' = IF cached.location = NoLocation THEN asked
                        ELSE Append(asked, cached.location)
            /\ astray' = (astray \/ ~waiting)
            /\ UNCHANGED <<waiting, task>>
       ELSE ReturnTask("error") /\ asked' = asked
    /\ UNCHANGED <<request, listening, response, location, failed>>

\* Mutant: priv->task is not cleared.
LocationReadyKeepsTask(m) ==
    /\ m.kind = "proxy"
    /\ asked' = Tail(asked)
    /\ failed' = ~m.ok
    /\ location' = IF m.ok THEN m.location ELSE location
    /\ task' = IF ~waiting THEN task ELSE IF m.ok THEN "ok" ELSE "error"
    /\ astray' = (astray \/ (waiting /\ task # "pending"))
    /\ UNCHANGED <<step, request, waiting, listening, response>>

\* on_location_proxy_ready
LocationReady(m) ==
    /\ m.kind = "proxy"
    /\ asked' = Tail(asked)
    /\ failed' = ~m.ok
    /\ location' = IF m.ok THEN m.location ELSE location
    /\ IF waiting THEN ReturnTask(IF m.ok THEN "ok" ELSE "error")
       ELSE UNCHANGED <<waiting, task, astray>>
    /\ UNCHANGED <<step, request, listening, response>>

----------------------------------------------------------------------------
\* on_session_created, where the handle is the expected one
SessionCreated(m) ==
    /\ step = "create session"
    /\ m.kind = "answer" /\ m.ok
    /\ waiting' = TRUE
    /\ response' = TRUE
    /\ Call("portal start")
    /\ UNCHANGED <<task, listening, asked, location, astray, failed>>

\* clear_portal
ClearPortal == listening' = FALSE /\ response' = FALSE

\* on_portal_started_finish: it is given the task that is in priv->task.
PortalStarted(m) ==
    /\ step = "portal start"
    /\ m.kind = "answer"
    /\ step' = "none"
    /\ IF m.ok
       THEN /\ astray' = (astray \/ ~waiting)
            /\ UNCHANGED <<waiting, task, listening, response>>
       ELSE ReturnTask("error") /\ ClearPortal
    /\ UNCHANGED <<request, asked, location, failed>>

\* on_started: the user has decided.
PortalResponds(m) ==
    /\ m.kind = "response"
    /\ IF ~response
       THEN UNCHANGED <<waiting, task, astray, listening, response>>
       ELSE IF m.ok
       THEN response' = FALSE /\ UNCHANGED <<waiting, task, astray, listening>>
       ELSE ReturnTask("error") /\ ClearPortal
    /\ UNCHANGED <<step, request, asked, location, failed>>

\* on_portal_location_updated
PortalLocationUpdated(m) ==
    /\ m.kind = "location-updated" /\ portal
    /\ IF ~listening
       THEN UNCHANGED <<location, waiting, task, astray>>
       ELSE /\ location' = m.location
            /\ IF waiting THEN ReturnTask("ok")
               ELSE UNCHANGED <<waiting, task, astray>>
    /\ UNCHANGED <<step, request, listening, response, asked, failed>>

----------------------------------------------------------------------------
\* The cache of the client's proxy, before any callback runs.
PropertiesChanged(m) ==
    /\ m.kind = "properties"
    /\ UNCHANGED <<step, request, waiting, task, listening, response, asked,
                   location, astray, failed>>

\* What the library does with a message.
Callback(m) ==
    /\ \/ ChainBreaks(m) \/ ChainGoesOn(m) \/ ClientCreated(m)
       \/ LocationUpdated(m) \/ ClientStarted(m) \/ LocationReady(m)
       \/ SessionCreated(m) \/ PortalStarted(m) \/ PortalResponds(m)
       \/ PortalLocationUpdated(m) \/ PropertiesChanged(m)
    /\ cached' = IF m.kind = "properties"
                 THEN [location |-> m.location, active |-> m.ok] ELSE cached
    /\ UNCHANGED <<portal, service>>

----------------------------------------------------------------------------
(***************************************************************************)
(* The other side: the service (ServiceManager, ServiceClient,             *)
(* ClientLocation) or the portal.  A call may be answered late, with an    *)
(* error, or never.                                                        *)
(***************************************************************************)
libraryVars == <<portal, step, waiting, task, listening, cached, response, location,
                 astray, failed>>

Room == Len(inbox) < MaxInbox

AnswersChain(ok) ==
    /\ request \notin {"none", "start"}
    /\ request' = "none"
    /\ inbox' = Append(inbox, Message("answer", ok, NoLocation))
    /\ service' = [service EXCEPT !.responding = (request = "portal start" /\ ok)]
    /\ UNCHANGED <<libraryVars, asked>>

\* complete_start: the locator may set locations while it is being started;
\* changed properties are announced when the service is idle.
AnswersStart ==
    /\ request = "start"
    /\ request' = "none"
    /\ \E n \in {k \in 0 .. 2 : k <= MaxLocations} :
          /\ inbox' = inbox
                \o [i \in 1 .. n |-> Message("location-updated", TRUE, i)]
                \o <<Message("answer", TRUE, NoLocation)>>
          /\ service' = [service EXCEPT !.location = n, !.active = TRUE,
                                        !.changed = TRUE]
    /\ UNCHANGED <<libraryVars, asked>>

\* Not allowed, disabled by the agent, or no DesktopId.
RefusesStart ==
    /\ request = "start"
    /\ request' = "none"
    /\ inbox' = Append(inbox, Message("answer", FALSE, NoLocation))
    /\ UNCHANGED <<libraryVars, asked, service>>

\* org.freedesktop.portal.Request::Response
PortalDecides(ok) ==
    /\ service.responding
    /\ service' = [service EXCEPT !.responding = FALSE, !.active = ok]
    /\ inbox' = Append(inbox, Message("response", ok, NoLocation))
    /\ UNCHANGED <<libraryVars, request, asked>>

\* A new location while the client is active.
ServiceUpdates ==
    /\ service.active /\ Room
    /\ service.location < MaxLocations
    /\ service' = [service EXCEPT !.location = @ + 1, !.changed = ~portal]
    /\ inbox' = Append(inbox,
                       Message("location-updated", TRUE, service.location + 1))
    /\ UNCHANGED <<libraryVars, request, asked>>

\* on_agent_props_changed: the agent disables geolocation while the client is
\* active.
ServiceSuspends ==
    /\ ~portal /\ Room
    /\ service.active
    /\ service' = [service EXCEPT !.active = FALSE, !.suspended = TRUE,
                                  !.changed = TRUE]
    /\ UNCHANGED <<libraryVars, request, inbox, asked>>

\* on_agent_props_changed: it allows it again, and what it suspended restarts.
ServiceResumes ==
    /\ Room
    /\ service.suspended
    /\ service' = [service EXCEPT !.active = TRUE, !.suspended = FALSE,
                                  !.changed = TRUE]
    /\ UNCHANGED <<libraryVars, request, inbox, asked>>

\* PropertiesChanged
ServiceAnnounces ==
    /\ service.changed
    /\ service' = [service EXCEPT !.changed = FALSE]
    /\ inbox' = Append(inbox,
                       Message("properties", service.active, service.location))
    /\ UNCHANGED <<libraryVars, request, asked>>

\* The proxies of locations are answered in order.
Answered == Cardinality({i \in 1 .. Len(inbox) : inbox[i].kind = "proxy"})

AnswersProxy(ok) ==
    /\ Answered < Len(asked)
    /\ inbox' = Append(inbox, Message("proxy", ok, asked[Answered + 1]))
    /\ UNCHANGED <<libraryVars, request, asked, service>>

Environment ==
    \/ \E ok \in BOOLEAN :
          \/ AnswersChain(ok)
          \/ PortalDecides(ok)
          \/ AnswersProxy(ok)
    \/ AnswersStart
    \/ RefusesStart
    \/ ServiceUpdates
    \/ ServiceSuspends
    \/ ServiceResumes
    \/ ServiceAnnounces

----------------------------------------------------------------------------
SimpleTypeOK ==
    /\ portal \in BOOLEAN
    /\ step \in Chain \cup {"none", "start", "portal start"}
    /\ request \in {"none", step}
    /\ inbox \in Seq([kind : Kinds, ok : BOOLEAN, location : 0 .. MaxLocations])
    /\ task \in {"pending", "ok", "error"}
    /\ asked \in Seq(1 .. MaxLocations)
    /\ location \in 0 .. MaxLocations
    /\ {waiting, listening, response, astray, failed} \subseteq BOOLEAN

(* The task of gclue_simple_new is answered once, and no callback of the    *)
(* chain comes to it after the first location has released it: whatever     *)
(* locations come before and after the answer to Start, and however proxies *)
(* of them fail.                                                            *)
TaskAnsweredOnce == ~astray
=============================================================================
