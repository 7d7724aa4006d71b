--------------------------- MODULE LocatorFilter ---------------------------
(***************************************************************************)
(* set_location of GClueLocator (src/gclue-locator.c): which of the        *)
(* locations its sources report becomes the location of the locator.       *)
(*                                                                         *)
(* Sources report on their own, so locations come with any timestamp: one  *)
(* kept by a source from before the locator was started, the fix time of a *)
(* GPS receiver, the moment a web service answered.  A place is a point on *)
(* a line, in metres.                                                      *)
(*                                                                         *)
(* The other half of the locator is LocatorSources; names that it has too  *)
(* begin with Filter here, so that LocatorProofs can extend both.          *)
(***************************************************************************)
EXTENDS Integers

CONSTANTS
    Reporters,                 \* the sources of the locator
    Priority,                  \* those with priority-source, the GPS ones
    Places, Times, Accuracies, \* what a location may say
    Unknown,                   \* GCLUE_LOCATION_ACCURACY_UNKNOWN
    NoLocation,                \* NULL
    MaxSpeed,                  \* MAX_SPEED
    MaxLocationAge,            \* MAX_LOCATION_AGE
    MaxPriorityAge,            \* MAX_PRIORITY_SOURCE_AGE
    PriorityAccuracy           \* PRIORITY_ACCURACY_THRESHOLD

Locations == [source : Reporters, time : Times, at : Places,
              accuracy : Accuracies \cup {Unknown}]

ASSUME FilterAssumption ==
    /\ Priority \subseteq Reporters
    /\ Places \subseteq Int
    /\ Times \subseteq Nat
    /\ Accuracies \subseteq Nat
    /\ Unknown \notin Nat
    /\ NoLocation \notin Locations
    /\ MaxSpeed \in Nat
    /\ MaxLocationAge \in Nat \ {0}
    /\ MaxPriorityAge \in Nat \ {0}
    /\ PriorityAccuracy \in Nat

VARIABLES
    cur,      \* the location of the locator
    lock,     \* priority_source_lock
    lockTime, \* priority_source_lock_timestamp
    heard,    \* history: the last location reported
    verdict,  \* history: what became of it
    lastFix,  \* history: the last accurate priority location to take over
    latest    \* history: the newest time considered since then

filterVars == <<cur, lock, lockTime, heard, verdict, lastFix, latest>>

----------------------------------------------------------------------------
Distance(a, b) == IF a.at > b.at THEN a.at - b.at ELSE b.at - a.at

\* speed > MAX_SPEED.  At equal timestamps the speed is G_MAXDOUBLE; a current
\* location that is too old counts as reachable.
TooFast(loc) ==
    LET age == loc.time - cur.time
    IN  age < MaxLocationAge /\ (age = 0 \/ Distance(loc, cur) > MaxSpeed * age)

IsPriority(loc) == loc.source \in Priority

\* Mutant: any accurate location locks.
UpdatesLockAnySource(loc) == loc.accuracy < PriorityAccuracy

\* update_priority_source
UpdatesLock(loc) == IsPriority(loc) /\ loc.accuracy < PriorityAccuracy

\* Mutant: an inaccurate priority location drops the lock.
LockedWhileAccurate(loc) ==
    \/ UpdatesLock(loc)
    \/ lock /\ ~IsPriority(loc) /\ loc.time - lockTime < MaxPriorityAge

\* The lock as it stands once a report has set it or let it expire.
Locked(loc) ==
    UpdatesLock(loc) \/ (lock /\ loc.time - lockTime < MaxPriorityAge)

Older(loc) == loc.time < cur.time

LessAccurate(loc) ==
    /\ Distance(loc, cur) <= loc.accuracy \/ TooFast(loc)
    /\ loc.accuracy > cur.accuracy

----------------------------------------------------------------------------
FilterInit ==
    /\ cur = NoLocation
    /\ lock = FALSE
    /\ lockTime = 0
    /\ heard = NoLocation
    /\ verdict = "none"
    /\ lastFix = NoLocation
    /\ latest = 0

Take(loc) ==
    /\ cur' = loc
    /\ heard' = loc
    /\ verdict' = "taken"

Ignore(loc, why) ==
    /\ heard' = loc
    /\ verdict' = why
    /\ UNCHANGED cur

\* Mutant: discarded only in favour of a current location.
DiscardUnknownLater(loc) ==
    /\ loc.accuracy = Unknown
    /\ cur' = IF cur = NoLocation THEN loc ELSE cur
    /\ heard' = loc
    /\ verdict' = "unknown"
    /\ UNCHANGED <<lock, lockTime, lastFix, latest>>

\* "Discarding location with unknown accuracy"
DiscardUnknown(loc) ==
    /\ loc.accuracy = Unknown
    /\ Ignore(loc, "unknown")
    /\ UNCHANGED <<lock, lockTime, lastFix, latest>>

\* Without a current location anything else is taken, and sets no lock.
TakeFirst(loc) ==
    /\ loc.accuracy # Unknown
    /\ cur = NoLocation
    /\ Take(loc)
    /\ UNCHANGED <<lock, lockTime, lastFix, latest>>

\* "New location older than current, ignoring."
IgnoreOlder(loc) ==
    /\ loc.accuracy # Unknown
    /\ cur # NoLocation
    /\ Older(loc)
    /\ Ignore(loc, "older")
    /\ UNCHANGED <<lock, lockTime, lastFix, latest>>

\* The rest of set_location: the lock is updated first, whether the location
\* is taken then or not.
Consider(loc) ==
    /\ loc.accuracy # Unknown
    /\ cur # NoLocation
    /\ ~Older(loc)
    /\ lock' = Locked(loc)
    /\ lockTime' = IF UpdatesLock(loc) THEN loc.time ELSE lockTime
    /\ lastFix' = IF UpdatesLock(loc) THEN loc ELSE lastFix
    /\ latest' = IF UpdatesLock(loc) \/ loc.time > latest THEN loc.time ELSE latest
    /\ \/ /\ Locked(loc) /\ ~IsPriority(loc)
          /\ Ignore(loc, "locked")
       \/ /\ ~Locked(loc) \/ IsPriority(loc)
          /\ ~UpdatesLock(loc) /\ LessAccurate(loc)
          /\ Ignore(loc, "less accurate")
       \/ /\ ~Locked(loc) \/ IsPriority(loc)
          /\ UpdatesLock(loc) \/ ~LessAccurate(loc)
          /\ Take(loc)

\* on_location_changed, and start_source for a source that is active already.
Report(loc) ==
    \/ DiscardUnknown(loc)
    \/ TakeFirst(loc)
    \/ IgnoreOlder(loc)
    \/ Consider(loc)

FilterNext == \E loc \in Locations : Report(loc)

FilterSpec == FilterInit /\ [][FilterNext]_filterVars

----------------------------------------------------------------------------
KnownLocations == [source : Reporters, time : Times, at : Places,
                   accuracy : Accuracies]
Verdicts == {"none", "unknown", "older", "locked", "less accurate", "taken"}

FilterTypeOK ==
    /\ cur \in KnownLocations \cup {NoLocation}
    /\ lock \in BOOLEAN
    /\ lockTime \in Times \cup {0}
    /\ heard \in Locations \cup {NoLocation}
    /\ verdict \in Verdicts
    /\ lastFix \in KnownLocations \cup {NoLocation}
    /\ latest \in Times \cup {0}

(* The timestamps are unsigned 64 bit integers: new_timestamp minus the     *)
(* timestamp of the lock must not wrap around, or the lock would expire at  *)
(* once.  The lock is never ahead of the current location, which no         *)
(* considered location is older than.                                       *)
LockNotAhead == lock => cur # NoLocation /\ lockTime <= cur.time

(* A locator never steps back to an older location, nor to none.            *)
NeverOlder ==
    [][ cur # NoLocation => cur' # NoLocation /\ cur'.time >= cur.time ]_filterVars

(* A location of another source gives way to the priority source only while *)
(* that has delivered an accurate location less than MAX_PRIORITY_SOURCE_AGE *)
(* seconds before: when GPS goes silent the other sources come back.        *)
LockBlocksOnlyAfterFix ==
    verdict = "locked" =>
       /\ lastFix # NoLocation
       /\ heard.time - lastFix.time < MaxPriorityAge

(* Conversely, once a priority source has taken over from another location  *)
(* with an accurate one, the locator leaves its locations for one of        *)
(* another source only when it has come upon a location that is             *)
(* MAX_PRIORITY_SOURCE_AGE seconds newer than that fix.  That need not be   *)
(* the location it takes: one it ignores ends the lock just as well.        *)
(* (An accurate location that is the locator's first sets no lock and holds *)
(* nothing.)                                                                *)
PriorityHolds ==
    [][ /\ lastFix # NoLocation
        /\ cur' # cur /\ ~IsPriority(cur')
        => latest' - lastFix.time >= MaxPriorityAge ]_filterVars

(* Not kept: no location of another source less than                        *)
(* MAX_PRIORITY_SOURCE_AGE seconds newer than the last fix is ever taken.   *)
(* An inaccurate location of the priority source that comes too late ends   *)
(* the lock and is then ignored; an older one of another source replaces    *)
(* the fix.                                                                 *)
FixHoldsItsAge ==
    [][ /\ lastFix # NoLocation
        /\ cur' # cur /\ ~IsPriority(cur')
        => cur'.time - lastFix.time >= MaxPriorityAge ]_filterVars
=============================================================================
