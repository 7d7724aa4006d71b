----------------------------- MODULE NmeaSource ----------------------------
(***************************************************************************)
(* GClueNMEASource (src/gclue-nmea-source.c): the source of NMEA sentences *)
(* from a configured socket and from services that Avahi finds in the      *)
(* network.  It is connected to one service at a time, the most accurate   *)
(* one it has not found broken, and tries all of them again when every one *)
(* is broken.                                                              *)
(*                                                                         *)
(* Connecting and reading are asynchronous and end with an answer, with an *)
(* error, or cancelled; a cancelled callback returns before it touches the *)
(* source, so only operations that were not cancelled are kept.  The two   *)
(* lists are sorted whenever they change: here they are sets, and the head *)
(* of a list is its most accurate, then its oldest service.                *)
(***************************************************************************)
EXTENDS Integers

CONSTANTS
    Socket,    \* the service that the configuration may name
    Net,       \* names of services in the network
    Levels,    \* values of "accuracy" in their TXT records
    MaxUses,   \* bound: locators that have the source started
    NULL

Services == Socket \cup Net

NONE == 0
EXACT == 8

ASSUME NmeaAssumption ==
    /\ Socket \cap Net = {}
    /\ \A s, t \in Socket : s = t
    /\ Levels \subseteq NONE .. EXACT
    /\ MaxUses \in Nat
    /\ NULL \notin Services

VARIABLES
    uses,        \* active_counter
    try,         \* try_services
    broken,      \* broken_services
    accuracy,    \* [Services -> accuracy, as of when it was added]
    older,       \* <<s, t>>: s was added before t
    active,      \* active_service
    link,        \* the service that connection and input_stream belong to
    hungUp,      \* that service has closed the connection in good order
    pending,     \* the operations that have not been cancelled
    timer,       \* unbreak_timer is running
    refreshIdle, \* accuracy_refresh_source is set
    level,       \* available-accuracy-level
    avahi,       \* avahi_client: "none", "running", or "failed"
    announced,   \* services the browser has announced
    resolving    \* services being resolved

vars == <<uses, try, broken, accuracy, older, active, link, hungUp, pending,
          timer, refreshIdle, level, avahi, announced, resolving>>

connection == <<active, link, hungUp, pending>>
lists == <<try, broken, accuracy, older, timer>>
browser == <<avahi, announced, resolving>>

Known == try \cup broken

----------------------------------------------------------------------------
\* Mutant: the newest of the most accurate.
BeforeNewest(s, t) ==
    \/ accuracy'[s] > accuracy'[t]
    \/ accuracy'[s] = accuracy'[t] /\ <<t, s>> \in older'

\* compare_avahi_service_by_accuracy_n_time, once the lists have changed.
Before(s, t) ==
    \/ accuracy'[s] > accuracy'[t]
    \/ accuracy'[s] = accuracy'[t] /\ <<s, t>> \in older'

IsHead(s) == s \in try' /\ \A t \in try' \ {s} : Before(s, t)

Connecting(s) == [service |-> s, kind |-> "connect"]
Reading(s) == [service |-> s, kind |-> "read"]

\* What disconnect_from_service leaves of the operations.
Uncancelled == IF active = NULL THEN pending ELSE {}

\* disconnect_from_service, then try_connect_to_service.
Connect ==
    /\ link' = NULL
    /\ hungUp' = FALSE
    /\ IF uses' > 0 /\ try' # {}
       THEN \E s \in try' : /\ IsHead(s)
                            /\ active' = s
                            /\ pending' = Uncancelled \cup {Connecting(s)}
       ELSE active' = NULL /\ pending' = Uncancelled

Disconnect ==
    /\ link' = NULL
    /\ hungUp' = FALSE
    /\ active' = NULL
    /\ pending' = Uncancelled

\* Mutant: a more accurate service waits for the one in use to break.
ReconnectWhenGone ==
    IF active \in try' THEN UNCHANGED connection ELSE Connect

\* reconnect_service; an active service that broke or went has been
\* disconnected before.
Reconnect ==
    IF active # NULL /\ IsHead(active) THEN UNCHANGED connection ELSE Connect

\* Mutant: a timer that is not needed any more goes on.
CheckUnbreakTimerKeeps == timer' = (timer \/ (try' = {} /\ broken' # {}))

\* check_unbreak_timer
CheckUnbreakTimer == timer' = (try' = {} /\ broken' # {})

\* service_lists_changed
ListsChanged ==
    /\ CheckUnbreakTimer
    /\ Reconnect
    /\ refreshIdle' = TRUE

----------------------------------------------------------------------------
\* gclue_nmea_source_init: a configured socket is added; Avahi is there or is
\* not, or cannot be browsed (which refreshes the level once more).
Init ==
    /\ uses = 0
    /\ try \in {{}, Socket}
    /\ broken = {}
    /\ accuracy = [s \in Services |-> IF s \in Socket THEN EXACT ELSE NONE]
    /\ older = {}
    /\ active = NULL
    /\ link = NULL
    /\ hungUp = FALSE
    /\ pending = {}
    /\ timer = FALSE
    /\ avahi \in {"none", "running"}
    /\ refreshIdle \in {try # {}, try # {} \/ avahi = "none"}
    /\ level = NONE
    /\ announced = {}
    /\ resolving = {}

\* try_connect_avahi_client without a client that works: what a failed one
\* had found is dropped, and a new one browses, or cannot be had, or cannot
\* browse.  (Without a client no service of the network is known.)
RestartAvahi ==
    /\ avahi # "running"
    /\ avahi' \in {"none", "running"}
    /\ announced' = {}
    /\ resolving' = {}
    /\ try' = try \cap Socket
    /\ broken' = broken \cap Socket
    /\ UNCHANGED <<accuracy, older>>
    /\ CheckUnbreakTimer
    /\ Reconnect
    /\ refreshIdle' \in IF avahi = "failed" THEN {TRUE}
                        ELSE {refreshIdle, refreshIdle \/ avahi' = "none"}

\* gclue_nmea_source_get_singleton, for one more locator.
GetSingleton ==
    /\ UNCHANGED <<uses, level>>
    /\ RestartAvahi

\* gclue_nmea_source_start
Start ==
    /\ uses < MaxUses
    /\ uses' = uses + 1
    /\ \/ RestartAvahi
       \/ /\ avahi = "running"
          /\ UNCHANGED <<lists, refreshIdle, browser>>
          /\ Reconnect
    /\ UNCHANGED level

\* Mutant: a stop without a start is counted.
StopUncounted ==
    /\ uses' = uses - 1
    /\ IF uses' > 0 THEN UNCHANGED connection ELSE Disconnect
    /\ UNCHANGED <<lists, refreshIdle, level, browser>>

\* gclue_nmea_source_stop
Stop ==
    /\ uses > 0
    /\ uses' = uses - 1
    /\ IF uses' > 0 THEN UNCHANGED connection ELSE Disconnect
    /\ UNCHANGED <<lists, refreshIdle, level, browser>>

----------------------------------------------------------------------------
\* browse_callback: AVAHI_BROWSER_NEW
Announced(s) ==
    /\ avahi = "running"
    /\ s \notin announced
    /\ announced' = announced \cup {s}
    /\ resolving' = resolving \cup {s}
    /\ UNCHANGED <<uses, connection, lists, refreshIdle, level, avahi>>

\* Mutant: the level is refreshed only when the list of services to try changes.
WithdrawnQuietly(s) ==
    /\ avahi = "running"
    /\ s \in announced
    /\ announced' = announced \ {s}
    /\ try' = try \ {s}
    /\ broken' = broken \ {s}
    /\ UNCHANGED <<uses, accuracy, older, level, avahi, resolving>>
    /\ CheckUnbreakTimer
    /\ Reconnect
    /\ refreshIdle' = (refreshIdle \/ s \in try)

\* browse_callback: AVAHI_BROWSER_REMOVE, remove_service_by_name.  A service
\* that is still being resolved will be added all the same.
Withdrawn(s) ==
    /\ avahi = "running"
    /\ s \in announced
    /\ announced' = announced \ {s}
    /\ try' = try \ {s}
    /\ broken' = broken \ {s}
    /\ UNCHANGED <<uses, accuracy, older, level, avahi, resolving>>
    /\ ListsChanged

\* resolve_callback: AVAHI_RESOLVER_FOUND, add_new_service
Found(s, lvl) ==
    /\ avahi = "running"
    /\ s \in resolving
    /\ resolving' = resolving \ {s}
    /\ UNCHANGED <<uses, level, avahi, announced>>
    /\ IF s \in Known
       THEN UNCHANGED <<connection, lists, refreshIdle>>
       ELSE /\ try' = try \cup {s}
            /\ accuracy' = [accuracy EXCEPT ![s] = lvl]
            /\ older' = {p \in older : s \notin {p[1], p[2]}}
                           \cup {<<t, s>> : t \in Known}
            /\ UNCHANGED broken
            /\ ListsChanged

\* resolve_callback: AVAHI_RESOLVER_FAILURE
NotFound(s) ==
    /\ s \in resolving
    /\ resolving' = resolving \ {s}
    /\ UNCHANGED <<uses, connection, lists, refreshIdle, level, avahi, announced>>

\* client_callback: AVAHI_CLIENT_FAILURE is only logged.
AvahiFails ==
    /\ avahi = "running"
    /\ avahi' = "failed"
    /\ UNCHANGED <<uses, connection, lists, refreshIdle, level, announced,
                   resolving>>

----------------------------------------------------------------------------
\* on_connection_to_location_server
Connected(p) ==
    /\ p.kind = "connect"
    /\ link' = p.service
    /\ pending' = (pending \ {p}) \cup {Reading(p.service)}
    /\ UNCHANGED <<uses, lists, active, hungUp, refreshIdle, level, browser>>

\* service_broken.  The source is disconnected before the lists change, so
\* that it connects anew whatever the head is then.
ServiceBroken ==
    /\ try' = try \ {active}
    /\ broken' = broken \cup {active}
    /\ UNCHANGED <<accuracy, older>>
    /\ CheckUnbreakTimer
    /\ Connect
    /\ refreshIdle' = TRUE

\* Mutant: the service is tried again at once.
OperationFailsAgain(p) ==
    /\ ~hungUp
    /\ UNCHANGED <<uses, lists, refreshIdle, level, browser>>
    /\ Connect

\* on_connection_to_location_server, on_read_nmea_sentence: with an error.
OperationFails(p) ==
    /\ ~hungUp
    /\ UNCHANGED <<uses, level, browser>>
    /\ ServiceBroken

\* The service closes the connection in good order.  From then on a read ends
\* with neither message nor error, which on_read_nmea_sentence takes for an
\* empty line and reads on.
HangsUp(p) ==
    /\ p.kind = "read"
    /\ hungUp' = TRUE
    /\ UNCHANGED <<uses, lists, active, link, pending, refreshIdle, level,
                   browser>>

\* on_service_unbreak_time
Unbreak ==
    /\ timer
    /\ timer' = FALSE
    /\ UNCHANGED <<uses, refreshIdle, level, browser>>
    /\ IF try = {} /\ broken # {}
       THEN /\ try' = broken
            /\ broken' = {}
            /\ UNCHANGED <<accuracy, older>>
            /\ Reconnect
       ELSE UNCHANGED <<try, broken, accuracy, older, connection>>

\* on_refresh_accuracy_level: the more accurate head of the two lists.
RefreshLevel ==
    /\ refreshIdle
    /\ refreshIdle' = FALSE
    /\ level' = IF Known = {} THEN NONE
                ELSE CHOOSE l \in {accuracy[s] : s \in Known} :
                        \A s \in Known : accuracy[s] <= l
    /\ UNCHANGED <<uses, lists, connection, browser>>

BrowserSays ==
    \/ \E s \in Net : \/ Announced(s)
                      \/ Withdrawn(s)
                      \/ \E lvl \in Levels : Found(s, lvl)
                      \/ NotFound(s)
    \/ AvahiFails

Next ==
    \/ GetSingleton
    \/ Start
    \/ Stop
    \/ BrowserSays
    \/ \E p \in pending : Connected(p) \/ OperationFails(p) \/ HangsUp(p)
    \/ Unbreak
    \/ RefreshLevel

Spec == Init /\ [][Next]_vars

\* Connecting ends, one way or the other, and timers and idle callbacks are
\* dispatched.
FairSpec ==
    /\ Spec
    /\ \A s \in Services :
          WF_vars(\E p \in pending \cap {Connecting(s)} :
                     Connected(p) \/ OperationFails(p))
    /\ WF_vars(Unbreak)
    /\ WF_vars(RefreshLevel)

----------------------------------------------------------------------------
TypeOK ==
    /\ uses \in 0 .. MaxUses
    /\ try \subseteq Services
    /\ broken \subseteq Services
    /\ accuracy \in [Services -> NONE .. EXACT]
    /\ older \subseteq Services \X Services
    /\ active \in Services \cup {NULL}
    /\ link \in Services \cup {NULL}
    /\ hungUp \in BOOLEAN
    /\ pending \subseteq [service : Services, kind : {"connect", "read"}]
    /\ timer \in BOOLEAN
    /\ refreshIdle \in BOOLEAN
    /\ level \in NONE .. EXACT
    /\ avahi \in {"none", "running", "failed"}
    /\ announced \subseteq Net
    /\ resolving \subseteq Net

(* A source in use is connected, or connecting, to a most accurate of the   *)
(* services that are left to try whenever there is one, with exactly one    *)
(* operation on its way, which is the service's own: what its callback      *)
(* asserts, and that no answer of an earlier service is taken for one of    *)
(* the present.                                                             *)
ConnectedToBest ==
    /\ active # NULL <=> uses > 0 /\ try # {}
    /\ active # NULL =>
          /\ active \in try
          /\ \A s \in try : accuracy[s] <= accuracy[active]
    /\ link \in {NULL, active}
    /\ pending = IF active = NULL THEN {}
                 ELSE {IF link = NULL THEN Connecting(active)
                       ELSE Reading(active)}

(* No service is tried and broken at once, and the timer that brings the    *)
(* broken ones back runs exactly while all are broken: it is neither lost   *)
(* nor left over when a new service comes, whatever order services come,    *)
(* break and go in, and whether or not the source is in use.                *)
TimerWhenAllBroken ==
    /\ try \cap broken = {}
    /\ timer <=> try = {} /\ broken # {}

(* The level announced to the locators is that of the most accurate service *)
(* that is known, broken or not, as soon as no refresh is due.              *)
LevelIsBest ==
    ~refreshIdle =>
       /\ \A s \in Known : accuracy[s] <= level
       /\ level # NONE => \E s \in Known : accuracy[s] = level

(* A service in use is left only when it breaks or goes, when the source is *)
(* stopped, or for a more accurate one.  A new service that is as accurate  *)
(* does not interrupt it.                                                   *)
StaysConnected ==
    [][ active # NULL /\ active' # active =>
           \/ uses' = 0
           \/ active \notin try'
           \/ \E s \in try' : accuracy'[s] > accuracy[active] ]_vars

(* A source that stays in use and knows a service that has come to work,    *)
(* while Avahi has no more news, comes to stay connected to a service that  *)
(* is there, however many others fail and although that service may have    *)
(* been found broken: it neither gives up nor goes on trying broken ones    *)
(* for ever.  That holds only where it does not end on a connection which   *)
(* its service has closed in good order, for that goes unnoticed            *)
(* (HangUpNoticed), and a working service beside it is then never tried.    *)
SettlesConnected ==
    \A s \in Services :
       /\ <>[](uses > 0 /\ s \in Known)
       /\ <>[][~(BrowserSays \/ RestartAvahi)]_vars
       /\ <>[][\A p \in pending : p.service = s => ~(OperationFails(p) \/ HangsUp(p))]_vars
       /\ []<>~hungUp
       => <>[](link # NULL /\ ~hungUp)

----------------------------------------------------------------------------
(* reconnection_required: "reconnection is required if either 1. service in *)
(* use went down."  A connection that its service has closed is given up.   *)
HangUpNoticed == hungUp ~> ~hungUp
=============================================================================
