------------------------------ MODULE WebSource ----------------------------
(***************************************************************************)
(* Refreshing the location of a wifi source: the network checks and web    *)
(* queries of gclue-web-source.c, the query that gclue-mozilla.c makes of  *)
(* the access points, and the cache of gclue-wifi.c.  What moves the       *)
(* access points is AccessPoints, which WifiScan implements; the locators  *)
(* start and stop the source as LocatorSources says.                       *)
(*                                                                         *)
(* The cell tower is left out: it enters a query and its cache key alike.  *)
(***************************************************************************)
EXTENDS Integers, FiniteSets

CONSTANTS
    BSSs,        \* access points
    MaxCached,   \* bound: locations in the cache
    None

ASSUME WebSourceAssumption == MaxCached \in Nat \ {0}

VARIABLES
    active, device, list, changed, asked,  \* AccessPoints
    reachable,  \* locate_url_reachable
    checking,   \* it is being checked
    level,      \* available-accuracy-level
    query,      \* the query under way, with the key it was sent under, or None
    cache,      \* location_cache: locations, each under the key of its query
    location,   \* what the location of the source was asked with, or None
    outcome     \* history: what came of the list as it is, since the start

points == <<active, device, list, changed, asked>>
network == <<reachable, checking>>
answers == <<level, query, cache, location, outcome>>
vars == <<points, network, answers>>

AP == INSTANCE AccessPoints

\* When a refresh has lowered the level to none, the locators stop the source
\* before anything else happens (on_avail_accuracy_level_changed).
Settled == active => level # "none"

\* What a query asks with: the access points of the source, those of another,
\* or nothing but the address it comes from.
Asking(aps) == [from |-> "list", aps |-> aps]
Another == [from |-> "another", aps |-> {}]
GeoIP == [from |-> "geoip", aps |-> {}]

Subjects == {Asking(aps) : aps \in SUBSET BSSs} \cup {Another, GeoIP}
Entries == [key : SUBSET BSSs, about : Subjects]

----------------------------------------------------------------------------
Init ==
    /\ AP!Init
    /\ reachable = FALSE
    /\ checking = TRUE
    /\ level = "none"
    /\ query = None
    /\ cache = {}
    /\ location = None
    /\ outcome = "nothing"

\* gclue_wifi_get_available_accuracy_level.
Available ==
    IF ~reachable THEN "none" ELSE IF device THEN "own" ELSE "city"

\* gclue_mozilla_create_query: fewer than two access points are not worth it.
Subject ==
    CASE asked = "another" -> Another
      [] asked = "self" /\ Cardinality(list) >= 2 -> Asking(list)
      [] OTHER -> GeoIP

\* What came of a list is forgotten when it changes.
SoFar == IF list' = list THEN outcome ELSE "nothing"

\* Mutant: an inactive source is told from the cache.
CacheHitAlways ==
    /\ \E e \in cache : e.key = list' /\ location' = e.about
    /\ outcome' = IF active' THEN "told" ELSE SoFar
    /\ UNCHANGED <<level, query, cache>>

\* find_cached_location: of an entry with these access points, whose signals
\* may or may not be near enough.
CacheHit ==
    /\ active'
    /\ \E e \in cache : e.key = list' /\ location' = e.about
    /\ outcome' = "told"
    /\ UNCHANGED <<level, query, cache>>

\* gclue_web_source_real_refresh_async, and gclue_wifi_create_query, which
\* makes no query of a device that lists nothing.
Ask ==
    /\ level' = Available'
    /\ LET asks == active' /\ reachable'
           sent == asks /\ query = None /\ ~(device' /\ list' = {})
       IN  /\ query' = IF sent THEN [key |-> list', about |-> Subject'] ELSE query
           /\ outcome' = CASE sent -> "asked"
                           [] asks /\ query # None /\ query.key # list' -> "overtaken"
                           [] OTHER -> SoFar
    /\ UNCHANGED <<cache, location>>

\* gclue_wifi_refresh_async, in the state that the caller leaves.
Refresh == CacheHit \/ Ask

----------------------------------------------------------------------------
(* The source and its device.                                               *)

\* gclue_wifi_start: a locator starts what is available, and only a source
\* without a device is refreshed at once.
Start ==
    /\ level # "none"
    /\ AP!Start
    /\ UNCHANGED network
    /\ IF device THEN UNCHANGED answers ELSE Refresh

\* gclue_wifi_stop: the query goes on, and the cache is pruned.
Stop ==
    /\ AP!Stop
    /\ cache' \in SUBSET cache
    /\ outcome' = "nothing"
    /\ UNCHANGED <<network, level, query, location>>

GainDevice ==
    /\ Settled
    /\ AP!GainDevice
    /\ UNCHANGED network
    /\ IF active THEN UNCHANGED answers ELSE Refresh

LoseDevice ==
    /\ Settled
    /\ AP!LoseDevice
    /\ UNCHANGED network
    /\ Refresh

\* Mutant: a scan refreshes nothing.
ScannedUnread ==
    /\ Settled
    /\ AP!Scanned
    /\ UNCHANGED <<network, answers>>

\* on_scan_wait_done.
Scanned ==
    /\ Settled
    /\ AP!Scanned
    /\ UNCHANGED network
    /\ IF changed THEN Refresh ELSE UNCHANGED answers

\* The list is scanned, and other sources scan, with no consequence yet.
PointsMove ==
    /\ Settled
    /\ AP!ListChanges \/ AP!OtherScanned \/ AP!OtherGone
    /\ outcome' = SoFar
    /\ UNCHANGED <<network, level, query, cache, location>>

----------------------------------------------------------------------------
(* The network.                                                             *)

\* on_network_changed cancels the check under way.
NetworkChanged ==
    /\ Settled /\ ~checking
    /\ checking' = TRUE
    /\ UNCHANGED <<points, reachable, answers>>

\* locate_url_checked_cb.
Checked ==
    /\ Settled /\ checking
    /\ checking' = FALSE
    /\ reachable' \in BOOLEAN
    /\ UNCHANGED points
    /\ IF reachable' /\ ~reachable THEN Refresh ELSE UNCHANGED answers

----------------------------------------------------------------------------
(* Answers.                                                                 *)

\* The answer to a query for an older list replaces what the source was told
\* since, from the cache.
OutcomeOfAnswer ==
    CASE active /\ query.key = list -> "told"
      [] active /\ query.key # list /\ outcome = "told" -> "overtaken"
      [] OTHER -> outcome

\* Mutant: the key is made of the access points when the answer comes.
AnsweredKeyedNow ==
    /\ Settled /\ query # None
    /\ query' = None
    /\ location' = query.about
    /\ outcome' = OutcomeOfAnswer
    /\ \E kept \in SUBSET cache :
          /\ cache' = kept \cup {[query EXCEPT !.key = list]}
          /\ Cardinality(cache') <= MaxCached
    /\ UNCHANGED <<points, network, level>>

\* refresh_callback, and refresh_cb of gclue-wifi.c: the source may be stopped
\* and its list another by now.  A cache at its bound has been pruned before.
Answered ==
    /\ Settled /\ query # None
    /\ query' = None
    /\ location' = query.about
    /\ outcome' = OutcomeOfAnswer
    /\ \E kept \in SUBSET cache :
          /\ cache' = kept \cup {query}
          /\ kept = cache \/ Cardinality(cache) = MaxCached
          /\ Cardinality(cache') <= MaxCached
    /\ UNCHANGED <<points, network, level>>

QueryFailed ==
    /\ Settled /\ query # None
    /\ query' = None
    /\ outcome' = IF active /\ query.key = list THEN "failed" ELSE outcome
    /\ UNCHANGED <<points, network, level, cache, location>>

\* cache_prune, at its time or when memory is low, and cache_empty.
Prune ==
    /\ Settled /\ active
    /\ cache' \in SUBSET cache \ {cache}
    /\ UNCHANGED <<points, network, level, query, location, outcome>>

----------------------------------------------------------------------------
Next ==
    \/ Start
    \/ Stop
    \/ GainDevice
    \/ LoseDevice
    \/ Scanned
    \/ PointsMove
    \/ NetworkChanged
    \/ Checked
    \/ Answered
    \/ QueryFailed
    \/ Prune

Spec == Init /\ [][Next]_vars

\* Scans go on, as WifiScan shows unless wpa_supplicant fails them; queries
\* and checks end.
Fairness ==
    /\ WF_vars(Scanned)
    /\ WF_vars(Answered \/ QueryFailed)
    /\ WF_vars(Checked)

FairSpec == Spec /\ Fairness
----------------------------------------------------------------------------
TypeOK ==
    /\ active \in BOOLEAN /\ device \in BOOLEAN
    /\ list \subseteq BSSs
    /\ changed \in BOOLEAN
    /\ asked \in {"nobody", "self", "another"}
    /\ reachable \in BOOLEAN /\ checking \in BOOLEAN
    /\ level \in {"none", "city", "own"}
    /\ query \in Entries \cup {None}
    /\ cache \subseteq Entries
    /\ location \in Subjects \cup {None}
    /\ outcome \in {"nothing", "asked", "told", "failed", "overtaken"}

(* A location that was asked for with the access points of the source is    *)
(* cached under just these, however the list changed before the answer, and *)
(* so is found again only where they are all in range.                      *)
CachedUnderItsRequest ==
    \A e \in cache : e.about.from = "list" => e.about.aps = e.key

(* A stopped source is quiet: but for the answer to the query it had under  *)
(* way, neither the network, nor a device, nor the cache moves its location *)
(* or makes it send anything.                                               *)
StoppedIsQuiet ==
    [][~active /\ ~active' /\ query = None => UNCHANGED <<query, location>>]_vars

(* A source that stays usable, with a list that has come to rest, is told   *)
(* the location of this very list, whether the start, the network, the      *)
(* device or the access points come last: no refresh is lost.  Either the   *)
(* query for it fails, or one sent for an older list was under way when the *)
(* refresh came: real_refresh_async refuses that (PENDING), and nothing     *)
(* asks again; nor does anything when a location from the cache is replaced *)
(* by the answer to an older query.                                         *)
Usable == active /\ reachable /\ (device => list # {})
AtRest == <>[]Usable /\ <>[][list' = list]_list
StartedIsTold == AtRest => []<>(outcome \in {"told", "failed", "overtaken"})

(* gclue-wifi.c:1260: "The Mozilla service puts BSSID and signal strength   *)
(* for each BSS into its query", and so the key is made of them: what is    *)
(* cached under two access points or more was asked for with access points. *)
CacheKeyIsAsked ==
    \A e \in cache : Cardinality(e.key) >= 2 => e.about # GeoIP

(* gclue_web_source_refresh: "Causes @source to refresh location": in the   *)
(* end the location is that of the list, or the query for it failed.        *)
NewsIsTold == AtRest => []<>(outcome \in {"told", "failed"})

(* gclue_web_source_refresh: "Causes @source to refresh location and        *)
(* available accuracy level": after a refresh for a device that is gone the *)
(* level is that of a source without one.                                   *)
RefreshSetsLevel == [][LoseDevice => level' = Available']_vars
=============================================================================
