--------------------------- MODULE ServiceClient ---------------------------
(***************************************************************************)
(* One GClueServiceClient (src/gclue-service-client.c): the D-Bus object   *)
(* through which one application starts and stops receiving locations.     *)
(*                                                                         *)
(* The daemon has a single thread, so every D-Bus method handler, every    *)
(* asynchronous reply and every signal handler is one atomic action.  What *)
(* interleaves is their order: AuthorizeApp is an asynchronous call to the *)
(* agent, and Start(), Stop(), a change of MaxAccuracyLevel, DeleteClient  *)
(* or the disappearance of either process may come before its answer.      *)
(*                                                                         *)
(* A locator is represented by its accuracy level.  Thresholds and the     *)
(* location objects are in ClientLocation.                                 *)
(***************************************************************************)
EXTENDS Integers

CONSTANTS
    Calls,       \* Start() calls the application may have outstanding at once
    Requests,    \* values the application writes to RequestedAccuracyLevel
    MaxLevels,   \* values the agent publishes as MaxAccuracyLevel
    Replies,     \* values of allowed_accuracy_level in an AuthorizeApp reply
    DesktopIds,  \* desktop ids an application may claim
    NoId,        \* the NULL desktop id
    Perm,        \* [DesktopIds -> configured permission]
    XdgIds,      \* what may be found out about it: an xdg id, or NoId
    NoLocator    \* priv->locator == NULL

Permissions == {"allowed", "disallowed", "ask"}

\* GClueAccuracyLevel without GCLUE_ACCURACY_LEVEL_NONE
COUNTRY == 1
CITY == 4
EXACT == 8
Levels == {COUNTRY, CITY, 5, 6, EXACT}

ASSUME ClientAssumption ==
    /\ Requests \subseteq Nat
    /\ MaxLevels \subseteq Nat
    /\ Replies \subseteq Levels
    /\ NoId \notin DesktopIds
    /\ Perm \in [DesktopIds -> Permissions]
    /\ XdgIds \subseteq DesktopIds \cup {NoId}
    /\ NoLocator \notin Nat

VARIABLES
    xdgId,      \* the xdg id of the application if it is sandboxed, or NoId
    connected,  \* the application is on the bus
    listed,     \* the manager holds the client in its list
    agentUp,    \* the agent process is on the bus
    maxLevel,   \* MaxAccuracyLevel as cached by priv->agent_proxy
    requested,  \* RequestedAccuracyLevel, at first DEFAULT_ACCURACY_LEVEL
    desktopId,  \* the DesktopId property
    calls,      \* what became of each Start() call
    client,     \* [active, locator, agentStopped]
    orphans,    \* levels of locators overwritten while still running
    consented,  \* history: the agent has authorized this client
    appStopped  \* history: Stop() is the last thing the application asked

vars == <<xdgId, connected, listed, agentUp, maxLevel, requested, desktopId,
          calls, client, orphans, consented, appStopped>>

environment ==
    <<xdgId, connected, listed, agentUp, maxLevel, requested, desktopId>>

\* A StartData of an unanswered call holds a reference on the client.
Waiting(cs) == {c \in Calls : cs[c] = "waiting"}
Alive == listed \/ Waiting(calls) # {}

----------------------------------------------------------------------------
\* ensure_valid_accuracy_level: clamp, then the next lower member of the enum.
Clamp(x, low, high) == IF x > high THEN high ELSE IF x < low THEN low ELSE x

\* Mutants: no step down to a member of the enum; the maximum is forgotten.
EnsureValidOnlyClamps(level, max) == Clamp(level, COUNTRY, max)
EnsureValidIgnoresMax(level, max) ==
    CHOOSE l \in Levels : /\ l <= Clamp(level, COUNTRY, EXACT)
                          /\ \A k \in Levels :
                                k <= Clamp(level, COUNTRY, EXACT) => k <= l

EnsureValid(level, max) ==
    LET accuracy == Clamp(level, COUNTRY, max)
    IN  CHOOSE l \in Levels : /\ l <= accuracy
                              /\ \A k \in Levels : k <= accuracy => k <= l

\* gclue_locator_new: no source is of country level.
LocatorNew(level) == IF level = COUNTRY THEN CITY ELSE level

\* start_client does not look at the locator it overwrites; agent_stopped is
\* for the caller to set.
StartClient(level, suspended) ==
    [active |-> TRUE, locator |-> LocatorNew(level), agentStopped |-> suspended]

Overwritten == orphans \cup ({client.locator} \ {NoLocator})

\* stop_client
StopClient(suspended) ==
    [active |-> FALSE, locator |-> NoLocator, agentStopped |-> suspended]

\* The last unref finalizes the client, which drops its locator.
Release(s, inList, cs) ==
    IF inList \/ Waiting(cs) # {} THEN s ELSE StopClient(FALSE)

----------------------------------------------------------------------------
Init ==
    /\ xdgId \in XdgIds
    /\ connected = TRUE
    /\ listed = TRUE
    /\ agentUp = TRUE
    /\ maxLevel \in MaxLevels
    /\ requested = CITY
    /\ desktopId = NoId
    /\ calls = [c \in Calls |-> "idle"]
    /\ client = StopClient(FALSE)
    /\ orphans = {}
    /\ consented = FALSE
    /\ appStopped = FALSE

\* The object stays exported until it is finalized.
AppCanCall == connected /\ Alive

\* The application writes one of its properties (handle_set_property).
SetRequested(level) ==
    /\ AppCanCall
    /\ requested' = level
    /\ UNCHANGED <<xdgId, connected, listed, agentUp, maxLevel, desktopId,
                   calls, client, orphans, consented, appStopped>>

SetDesktopId(id) ==
    /\ AppCanCall
    /\ desktopId' = id
    /\ UNCHANGED <<xdgId, connected, listed, agentUp, maxLevel, requested,
                   calls, client, orphans, consented, appStopped>>

EffectiveId == IF xdgId # NoId THEN xdgId ELSE desktopId
SystemApp == xdgId = NoId

Refused ==
    \/ EffectiveId = NoId
    \/ EffectiveId # NoId /\ Perm[EffectiveId] = "disallowed"
    \/ maxLevel = 0

NeedsConsent == Perm[EffectiveId] = "ask" /\ ~SystemApp

\* Mutant: a call that is still being decided counts as started.
StartAgainWhileAsking(c) ==
    /\ AppCanCall /\ calls[c] # "waiting"
    /\ client.locator # NoLocator \/ Waiting(calls) # {}
    /\ calls' = [calls EXCEPT ![c] = "ok"]
    /\ appStopped' = FALSE
    /\ UNCHANGED <<environment, client, orphans, consented>>

\* handle_start: the locator exists, so the call is answered at once.
StartAgain(c) ==
    /\ AppCanCall /\ calls[c] # "waiting"
    /\ client.locator # NoLocator
    /\ calls' = [calls EXCEPT ![c] = "ok"]
    /\ appStopped' = FALSE
    /\ UNCHANGED <<environment, client, orphans, consented>>

\* handle_start, handle_post_agent_check_auth: no desktop id, disallowed by
\* the configuration, or geolocation disabled by the agent.
StartDenied(c) ==
    /\ AppCanCall /\ calls[c] # "waiting"
    /\ client.locator = NoLocator
    /\ Refused
    /\ calls' = [calls EXCEPT ![c] = "denied"]
    /\ UNCHANGED <<environment, client, orphans, consented, appStopped>>

\* handle_start, handle_post_agent_check_auth, complete_start: the
\* configuration allows the application, or it cannot be identified.
StartAllowed(c) ==
    /\ AppCanCall /\ calls[c] # "waiting"
    /\ client.locator = NoLocator
    /\ ~Refused
    /\ ~NeedsConsent
    /\ calls' = [calls EXCEPT ![c] = "ok"]
    /\ client' = Release(StartClient(EnsureValid(EnsureValid(requested, EXACT),
                                                 maxLevel),
                                     client.agentStopped), listed, calls')
    /\ appStopped' = FALSE
    /\ UNCHANGED <<environment, orphans, consented>>

\* handle_post_agent_check_auth: the agent has to be asked.
StartAsksAgent(c) ==
    /\ AppCanCall /\ calls[c] # "waiting"
    /\ client.locator = NoLocator
    /\ ~Refused
    /\ NeedsConsent
    /\ calls' = [calls EXCEPT ![c] = "waiting"]
    /\ appStopped' = FALSE
    /\ UNCHANGED <<environment, client, orphans, consented>>

\* on_authorize_app_ready with authorized = TRUE: start_client at the level
\* the agent replied, whatever happened since the question was asked.
Authorized(c, level) ==
    /\ agentUp
    /\ calls[c] = "waiting"
    /\ calls' = [calls EXCEPT ![c] = "ok"]
    /\ client' = Release(StartClient(level, client.agentStopped),
                          listed, calls')
    /\ orphans' = Overwritten
    /\ consented' = TRUE
    /\ UNCHANGED <<environment, appStopped>>

\* on_authorize_app_ready with authorized = FALSE.
Rejected(c) ==
    /\ agentUp
    /\ calls[c] = "waiting"
    /\ calls' = [calls EXCEPT ![c] = "denied"]
    /\ client' = Release(client, listed, calls')
    /\ UNCHANGED <<environment, orphans, consented, appStopped>>

\* on_authorize_app_ready with an error: the call timed out in GDBus, or the
\* bus answered for an agent that is gone.
AuthorizeFailed(c) ==
    /\ calls[c] = "waiting"
    /\ calls' = [calls EXCEPT ![c] = "denied"]
    /\ client' = Release(client, listed, calls')
    /\ UNCHANGED <<environment, orphans, consented, appStopped>>

\* Mutant: the locator stays.
StopKeepsLocator ==
    /\ AppCanCall
    /\ client' = [client EXCEPT !.active = FALSE]
    /\ appStopped' = TRUE
    /\ UNCHANGED <<environment, calls, orphans, consented>>

\* handle_stop: neither agent_stopped nor an unanswered Start() is touched.
Stop ==
    /\ AppCanCall
    /\ client' = StopClient(client.agentStopped)
    /\ appStopped' = TRUE
    /\ UNCHANGED <<environment, calls, orphans, consented>>

\* Mutants: every inactive client is started; agent_stopped stays set.
AgentSetsMaxStartsAll(max) ==
    /\ Alive
    /\ agentUp
    /\ max # maxLevel
    /\ maxLevel' = max
    /\ client' = IF max # 0 /\ ~client.active
                 THEN StartClient(EnsureValid(requested, max), FALSE)
                 ELSE IF max = 0 /\ client.active THEN StopClient(TRUE)
                 ELSE client
    /\ UNCHANGED <<xdgId, connected, listed, agentUp, requested, desktopId,
                   calls, orphans, consented, appStopped>>

AgentSetsMaxStaysMarked(max) ==
    /\ Alive
    /\ agentUp
    /\ max # maxLevel
    /\ maxLevel' = max
    /\ client' = IF max # 0 /\ client.agentStopped
                 THEN StartClient(EnsureValid(requested, max), TRUE)
                 ELSE IF max = 0 /\ client.active THEN StopClient(TRUE)
                 ELSE client
    /\ UNCHANGED <<xdgId, connected, listed, agentUp, requested, desktopId,
                   calls, orphans, consented, appStopped>>

\* on_agent_props_changed: 0 suspends a running client, any other value
\* restarts a client the agent had suspended.
AgentSetsMax(max) ==
    /\ Alive
    /\ agentUp
    /\ max # maxLevel
    /\ maxLevel' = max
    /\ client' = IF max # 0 /\ client.agentStopped
                 THEN StartClient(EnsureValid(requested, max), FALSE)
                 ELSE IF max = 0 /\ client.active
                 THEN StopClient(TRUE)
                 ELSE client
    /\ orphans' = IF max # 0 /\ client.agentStopped
                  THEN Overwritten ELSE orphans
    /\ UNCHANGED <<xdgId, connected, listed, agentUp, requested, desktopId,
                   calls, consented, appStopped>>

\* The agent leaves the bus: GDBusProxy empties its cache and reports no
\* changed property, so on_agent_props_changed returns at once.
AgentVanishes ==
    /\ Alive
    /\ agentUp
    /\ agentUp' = FALSE
    /\ maxLevel' = 0
    /\ UNCHANGED <<xdgId, connected, listed, requested, desktopId,
                   calls, client, orphans, consented, appStopped>>

\* delete_client for DeleteClient(): the manager gives its reference up.
DeleteClient ==
    /\ connected
    /\ listed
    /\ listed' = FALSE
    /\ client' = Release(client, FALSE, calls)
    /\ UNCHANGED <<xdgId, connected, agentUp, maxLevel, requested, desktopId,
                   calls, orphans, consented, appStopped>>

\* Mutant: the manager keeps the client of an application that left.
PeerVanishesUnnoticed ==
    /\ connected
    /\ connected' = FALSE
    /\ UNCHANGED <<xdgId, listed, agentUp, maxLevel, requested, desktopId,
                   calls, client, orphans, consented, appStopped>>

\* on_peer_vanished: the same when the application leaves the bus.
PeerVanishes ==
    /\ connected
    /\ connected' = FALSE
    /\ listed' = FALSE
    /\ client' = Release(client, FALSE, calls)
    /\ UNCHANGED <<xdgId, agentUp, maxLevel, requested, desktopId,
                   calls, orphans, consented, appStopped>>

Next ==
    \/ \E level \in Requests : SetRequested(level)
    \/ \E id \in DesktopIds : SetDesktopId(id)
    \/ \E c \in Calls :
          \/ StartAgain(c)
          \/ StartDenied(c)
          \/ StartAllowed(c)
          \/ StartAsksAgent(c)
          \/ \E level \in Replies : Authorized(c, level)
          \/ Rejected(c)
          \/ AuthorizeFailed(c)
    \/ Stop
    \/ \E max \in MaxLevels : AgentSetsMax(max)
    \/ AgentVanishes
    \/ DeleteClient
    \/ PeerVanishes

Spec == Init /\ [][Next]_vars

\* GDBus ends every call that the agent leaves unanswered with an error.
FairSpec == Spec /\ \A c \in Calls : WF_vars(AuthorizeFailed(c))

----------------------------------------------------------------------------
ClientType == [active : BOOLEAN, locator : Levels \cup {NoLocator},
               agentStopped : BOOLEAN]

TypeOK ==
    /\ xdgId \in XdgIds
    /\ connected \in BOOLEAN
    /\ listed \in BOOLEAN
    /\ agentUp \in BOOLEAN
    /\ maxLevel \in Nat
    /\ requested \in Nat
    /\ desktopId \in DesktopIds \cup {NoId}
    /\ calls \in [Calls -> {"idle", "waiting", "ok", "denied"}]
    /\ client \in ClientType
    /\ orphans \subseteq Levels
    /\ consented \in BOOLEAN
    /\ appStopped \in BOOLEAN

(* Client.xml, Active: the client is active exactly while it receives       *)
(* location updates.  One locator serves it, and none is left running once  *)
(* it is stopped, suspended or finalized.                                   *)
ActiveMeansReceiving ==
    /\ client.active <=> client.locator # NoLocator
    /\ orphans = {}

(* agent_stopped is only ever set while the agent has geolocation disabled, *)
(* so a change of MaxAccuracyLevel to another value always finds and        *)
(* restarts a suspended client; none stays suspended under an agent that    *)
(* allows it.                                                               *)
SuspendedOnlyWhileDisabled == client.agentStopped => maxLevel = 0

(* An application the agent has to authorize never gets a running locator   *)
(* before the agent said yes, by whatever path it was started.              *)
NoLocatorWithoutConsent ==
    /\ xdgId # NoId
    /\ Perm[xdgId] = "ask"
    /\ client.locator # NoLocator \/ orphans # {}
    => consented

(* A locator that is created without the agent's own word on the level      *)
(* (allowed by the configuration, or restarted after a suspension) stays    *)
(* within MaxAccuracyLevel for every requested value, a country level       *)
(* maximum standing for the city level of gclue_locator_new.                *)
GrantWithinMax ==
    [][ \/ client'.locator \in {client.locator, NoLocator}
        \/ \E c \in Calls : calls[c] = "waiting" /\ calls'[c] = "ok"
        \/ client'.locator <= Clamp(maxLevel', CITY, EXACT) ]_vars

(* A Start() that is answered with success leaves the client active, unless *)
(* the answer was what kept a deleted client in existence.                  *)
SuccessMeansActive ==
    [][ \A c \in Calls : calls[c] # "ok" /\ calls'[c] = "ok"
                           => client'.active \/ ~Alive' ]_vars

(* Once its application has left the bus a client goes away together with   *)
(* its locator, however many calls were unanswered.  (One that was only     *)
(* deleted stays exported, and alive, while calls keep overlapping.)        *)
AbandonedClientGoes == ~connected ~> (~Alive /\ client.locator = NoLocator)

----------------------------------------------------------------------------
(* What the interface promises and the code does not keep.                  *)

(* Client.xml, Stop: "Stop receiving events about the current location."    *)
(* A client the application stopped last receives nothing.                  *)
StopSticks ==
    appStopped => client.locator = NoLocator

----------------------------------------------------------------------------
(* For an application that waits for each answer the client is a            *)
(* ClientLifecycle: active, agent_stopped, the locator and the outstanding  *)
(* call never contradict each other.                                        *)
phase ==
    IF ~Alive THEN "gone"
    ELSE IF client.agentStopped THEN "suspended"
    ELSE IF client.active THEN "running"
    ELSE IF Waiting(calls) # {} THEN "asking"
    ELSE "stopped"

Lifecycle == INSTANCE ClientLifecycle WITH phase <- phase,
                                           enabled <- maxLevel # 0

LifecycleSpec == Lifecycle!LifecycleSpec
=============================================================================
