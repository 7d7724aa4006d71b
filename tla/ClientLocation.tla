--------------------------- MODULE ClientLocation --------------------------
(***************************************************************************)
(* The location objects of a GClueServiceClient (gclue-service-client.c    *)
(* and gclue-service-location.c): when a location of the locator becomes a *)
(* new object and a LocationUpdated signal, when it is written into the    *)
(* current object instead, and how long an object stays on the bus.        *)
(*                                                                         *)
(* Starting and stopping are the effects of start_client and stop_client   *)
(* only; who may start is the business of ServiceClient.                   *)
(***************************************************************************)
EXTENDS Integers, FiniteSets

CONSTANTS
    Places,       \* positions on a line, in metres
    Times,        \* timestamps of locations, in seconds
    Thresholds,   \* values the application gives DistanceThreshold
    TimeThresholds, \* ... and TimeThreshold
    Failures,     \* subset of {"export", "emit"}: calls of GDBus that may fail
    Grace,        \* 5: seconds before an old object goes
    MaxUpdates,   \* bound: number of location objects in a behaviour
    NULL

Paths == 1 .. MaxUpdates
Root == 0         \* the object path "/"

Locations == [at : Places, ts : Times]

ASSUME ClientLocationAssumption ==
    /\ Places \subseteq Int /\ Times \subseteq Int
    /\ Thresholds \subseteq Nat /\ TimeThresholds \subseteq Nat
    /\ Failures \subseteq {"export", "emit"}
    /\ Grace \in Nat /\ MaxUpdates \in Nat
    /\ NULL \notin Nat
    /\ NULL \notin Locations \cup [old : Paths \cup {Root}, new : Paths]

VARIABLES
    alive,     \* the client has not been finalized
    last,      \* what its locator reported last; NULL: stopped, or nothing yet
    started,   \* it has a locator
    distance,  \* distance_threshold
    time,      \* time_threshold
    location,  \* path of the current object, or NULL
    prev,      \* path of prev_location, or NULL
    shown,     \* what the current object shows, or NULL
    refs,      \* [Paths -> references to the object]; exported while positive
    retired,   \* [path, left]: the running timeouts of old objects
    signaled,  \* signaled_location, or NULL
    property,  \* the Location property
    told,      \* [old, new] of the last LocationUpdated signal, or NULL
    updates,   \* locations_updated
    announced, \* history: the location in the object that signal named as new
    failed     \* history: a call of GDBus has failed

vars == <<alive, last, started, distance, time, location, prev, shown, refs,
          retired, signaled, property, told, updates, announced, failed>>

objects == <<location, prev, shown, refs, retired, signaled, property, told,
             updates, announced, failed>>

----------------------------------------------------------------------------
Abs(n) == IF n < 0 THEN -n ELSE n

\* distance_below_threshold and time_below_threshold.
DistanceBelow(loc) ==
    /\ distance # 0
    /\ signaled # NULL
    /\ Abs(loc.at - signaled.at) < distance

TimeBelow(loc) ==
    /\ time # 0
    /\ signaled # NULL
    /\ Abs(loc.ts - signaled.ts) < time

Exported == {p \in Paths : refs[p] > 0}

----------------------------------------------------------------------------
Init ==
    /\ alive = TRUE
    /\ last = NULL
    /\ started = FALSE
    /\ distance = 0
    /\ time = 0
    /\ location = NULL
    /\ prev = NULL
    /\ shown = NULL
    /\ refs = [p \in Paths |-> 0]
    /\ retired = {}
    /\ signaled = NULL
    /\ property = Root
    /\ told = NULL
    /\ updates = 0
    /\ announced = NULL
    /\ failed = FALSE

\* start_client: a new locator.
Start ==
    /\ alive /\ ~started
    /\ started' = TRUE
    /\ UNCHANGED <<alive, last, distance, time, objects>>

\* stop_client: the locator goes, and with it the location it had.
Stop ==
    /\ alive /\ started
    /\ started' = FALSE
    /\ last' = NULL
    /\ UNCHANGED <<alive, distance, time, objects>>

\* gclue_service_client_handle_set_property.
SetDistance(d) ==
    /\ alive
    /\ distance' = d
    /\ UNCHANGED <<alive, last, started, time, objects>>

SetTime(t) ==
    /\ alive
    /\ time' = t
    /\ UNCHANGED <<alive, last, started, distance, objects>>

\* Mutant: the next location is measured from this one.
UpdateInPlaceDrifts(loc) ==
    /\ location # NULL
    /\ DistanceBelow(loc) \/ TimeBelow(loc)
    /\ shown' = loc
    /\ signaled' = loc
    /\ UNCHANGED <<location, prev, refs, retired, property, told, updates,
                   announced, failed>>

\* on_locator_location_changed, below a threshold.
UpdateInPlace(loc) ==
    /\ location # NULL
    /\ DistanceBelow(loc) \/ TimeBelow(loc)
    /\ shown' = loc
    /\ UNCHANGED <<location, prev, refs, retired, signaled, property, told,
                   updates, announced, failed>>

\* Mutants: the current object is retired; prev_location stays what it was.
MakeWayRetiresCurrent ==
    /\ updates < MaxUpdates
    /\ updates' = updates + 1
    /\ retired' = IF location = NULL THEN retired
                  ELSE retired \cup {[path |-> location, left |-> Grace]}
    /\ prev' = location
MakeWayKeepsPrev ==
    /\ updates < MaxUpdates
    /\ updates' = updates + 1
    /\ UNCHANGED <<retired, prev>>

\* Above: the reference to prev_location becomes the timeout's, and the
\* current object becomes the previous one.
MakeWay ==
    /\ updates < MaxUpdates
    /\ updates' = updates + 1
    /\ retired' = IF prev = NULL THEN retired
                  ELSE retired \cup {[path |-> prev, left |-> Grace]}
    /\ prev' = location

\* gclue_service_location_new fails.
ExportFails ==
    /\ "export" \in Failures
    /\ MakeWay
    /\ location' = NULL
    /\ shown' = NULL
    /\ failed' = TRUE
    /\ UNCHANGED <<refs, signaled, property, told, announced>>

NewObject(loc) ==
    /\ MakeWay
    /\ location' = updates'
    /\ shown' = loc
    /\ refs' = [refs EXCEPT ![updates'] = 1]
    /\ property' = updates'
    /\ signaled' = loc
    /\ \/ /\ told' = [old |-> IF prev' = NULL THEN Root ELSE prev', new |-> updates']
          /\ announced' = loc
          /\ UNCHANGED failed
       \/ /\ "emit" \in Failures
          /\ failed' = TRUE
          /\ UNCHANGED <<told, announced>>

\* The locator of the client has a new location, no older than its last.
LocatorReports(loc) ==
    /\ alive /\ started
    /\ last # NULL => loc.ts >= last.ts
    /\ last' = loc
    /\ \/ UpdateInPlace(loc)
       \/ /\ location = NULL \/ ~(DistanceBelow(loc) \/ TimeBelow(loc))
          /\ ExportFails \/ NewObject(loc)
    /\ UNCHANGED <<alive, started, distance, time>>

\* A second passes for the running timeouts.
Tick ==
    /\ \E r \in retired : r.left > 0
    /\ retired' = {[path |-> r.path, left |-> IF r.left = 0 THEN 0 ELSE r.left - 1] :
                     r \in retired}
    /\ UNCHANGED <<alive, last, started, distance, time, location, prev, shown,
                   refs, signaled, property, told, updates, announced, failed>>

\* Mutants: the timeout is not removed; the object is not released.
PrevLocationTimeoutAgain(r) ==
    /\ r.left = 0
    /\ refs' = [refs EXCEPT ![r.path] = @ - 1]
    /\ UNCHANGED <<alive, last, started, distance, time, location, prev, shown,
                   retired, signaled, property, told, updates, announced, failed>>
PrevLocationTimeoutKeeps(r) ==
    /\ r.left = 0
    /\ retired' = retired \ {r}
    /\ UNCHANGED <<alive, last, started, distance, time, location, prev, shown,
                   refs, signaled, property, told, updates, announced, failed>>

\* on_prev_location_timeout.
PrevLocationTimeout(r) ==
    /\ r.left = 0
    /\ retired' = retired \ {r}
    /\ refs' = [refs EXCEPT ![r.path] = @ - 1]
    /\ UNCHANGED <<alive, last, started, distance, time, location, prev, shown,
                   signaled, property, told, updates, announced, failed>>

\* gclue_service_client_finalize; the timeouts of old objects run on.
Finalize ==
    /\ alive
    /\ alive' = FALSE
    /\ started' = FALSE
    /\ last' = NULL
    /\ refs' = [p \in Paths |->
                  refs[p] - Cardinality({x \in {location} : x = p})
                          - Cardinality({x \in {prev} : x = p})]
    /\ location' = NULL
    /\ prev' = NULL
    /\ shown' = NULL
    /\ signaled' = NULL
    /\ UNCHANGED <<distance, time, retired, property, told, updates, announced,
                   failed>>

Next ==
    \/ Start
    \/ Stop
    \/ \E d \in Thresholds : SetDistance(d)
    \/ \E t \in TimeThresholds : SetTime(t)
    \/ \E loc \in Locations : LocatorReports(loc)
    \/ Tick
    \/ \E r \in retired : PrevLocationTimeout(r)
    \/ Finalize

Spec == Init /\ [][Next]_vars

----------------------------------------------------------------------------
TypeOK ==
    /\ alive \in BOOLEAN /\ started \in BOOLEAN
    /\ last \in Locations \cup {NULL}
    /\ distance \in Nat /\ time \in Nat
    /\ location \in Paths \cup {NULL} /\ prev \in Paths \cup {NULL}
    /\ shown \in Locations \cup {NULL}
    /\ refs \in [Paths -> Nat]
    /\ retired \subseteq [path : Paths, left : 0 .. Grace]
    /\ signaled \in Locations \cup {NULL}
    /\ property \in Paths \cup {Root}
    /\ told \in [old : Paths \cup {Root}, new : Paths] \cup {NULL}
    /\ updates \in 0 .. MaxUpdates
    /\ announced \in Locations \cup {NULL}
    /\ failed \in BOOLEAN

(* Every reference to a location object has one owner: the client, as its   *)
(* current or its previous location, or one timeout.  No object leaks, and  *)
(* none is released twice, whatever export or signal fails and whenever the *)
(* client goes.                                                             *)
OneOwnerEach ==
    \A p \in Paths :
       refs[p] = Cardinality({x \in {"location"} : location = p})
                 + Cardinality({x \in {"prev"} : prev = p})
                 + Cardinality({r \in retired : r.path = p})

(* The objects an application was last told about, the old and the new, and *)
(* the one the Location property names, are on the bus while its client     *)
(* lives, as long as no export or signal fails: "Lets try to ensure that    *)
(* apps are not still accessing the last location".                         *)
NamedObjectsExist ==
    alive /\ ~failed =>
             /\ property # Root => property \in Exported
             /\ told # NULL => {told.old, told.new} \ {Root} \subseteq Exported

(* Signals form a chain: each names as old what the one before named as     *)
(* new, over stops and restarts of the client, unless a call failed.        *)
SignalsChain ==
    [][told' # told /\ ~failed => told'.old = IF told = NULL THEN Root ELSE told.new]_vars

(* However many locations are written into the current object one after     *)
(* the other, each is near the location that the last LocationUpdated       *)
(* signal announced, in space or in time: many small steps do not take an   *)
(* application's object far from what it was told, over restarts of the     *)
(* client too, unless a call of GDBus failed.                               *)
QuietUpdatesAreSmall ==
    [][last' # last /\ last' # NULL /\ told' = told /\ ~failed' =>
         /\ announced # NULL
         /\ \/ Abs(last'.at - announced.at) < distance
            \/ Abs(last'.ts - announced.ts) < time]_vars

(* What a running client's locator reported last is what an application     *)
(* reads through the Location property, through updates in place, stops and *)
(* restarts, unless an export or a signal failed.                           *)
PropertyIsCurrent ==
    alive /\ ~failed /\ last # NULL => property = location /\ shown = last

(* "You want to delay reading this property until your callback to          *)
(* LocationUpdated signal is called for the first time after starting the   *)
(* client": the first location after a start is signaled.                   *)
StartIsSignaled ==
    [][last = NULL /\ last' # NULL => told' # told]_vars
=============================================================================
