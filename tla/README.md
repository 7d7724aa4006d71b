# Verification of GeoClue

TLA+ models of the GeoClue location daemon in `src/Linux/geoclue`, the TLC runs
that check them on small instances, and TLAPS proofs for every instance.
Unqualified file names below are those of `src/Linux/geoclue/src`.

## The system

GeoClue is a D-Bus service with one thread and one GLib main loop. Every method
handler, timeout, signal handler and asynchronous reply runs to its end before
the next; nothing is preempted, but their order is arbitrary, and every D-Bus
call the daemon makes is asynchronous, so state that was checked before a call
may be stale when its reply arrives. That is what most models here are about.

| Part | State | Operations | Correct when |
|---|---|---|---|
| Service manager `gclue-service-manager.c` | clients and their number, agents by user, calls waiting for an agent, `InUse` | GetClient, CreateClient, DeleteClient, AddAgent, peers and agents that vanish | the counter agrees with the list; calls wait exactly while there is no agent; a peer gets its own client, one by GetClient; a gone peer leaves nothing |
| Daemon `gclue-main.c` | inactivity timeout | timeout, `notify::active` | it quits only without clients |
| Client info `gclue-client-info.c` | user, pid, xdg id of a bus peer | asynchronous credential lookup, `peer-vanished` | every lookup ends; a vanished peer is announced |
| Service client `gclue-service-client.c` | active, locator, agent_stopped, undecided Start() calls | Start, Stop, property writes, AuthorizeApp replies, MaxAccuracyLevel changes, finalize | active exactly while a locator runs; consent before location; suspension only by the agent; granted levels within the maximum |
| Location objects `gclue-service-client.c`, `gclue-service-location.c` | current and previous object, signaled location, running timeouts | a location from the locator, the 5 s timeout, thresholds, finalize | one owner per object; objects an application knows of exist; signals chain; only small updates are silent |
| Locator `gclue-locator.c` | location, priority lock, ranked list of sources, active sources | set_location, start, finalize, level changes of sources | never older; GPS has priority for a while only; the eligible sources run |
| Location source `gclue-location-source.c` | use count, location, level | start_source, stop_source | the count is the number of users |
| Web source `gclue-web-source.c`, `gclue-mozilla.c` | outstanding query, reachability, level | refresh, connectivity answers, answers to queries | one query at a time; a source that stays usable is told where its access points are; a stopped one is quiet |
| Wifi `gclue-wifi.c` | interface, access points and those being added, scan timers, location cache | start, stop, interfaces and access points that come and go, scans | scanning goes on while active; the list is that of the interface; cached under what was asked with |
| NMEA `gclue-nmea-source.c` | services to try and broken ones, active service, connection, timer | add, remove, connect, read, break, unbreak | the active service is the best untried one; a timer runs when all are broken |
| Modem `gclue-modem-manager.c`, `gclue-3g.c`, `gclue-cdma.c`, `gclue-modem-gps.c` | modem in use, kinds of location asked of it, setups, cell tower | start, stop, modems that come, go and get ready, setups that end, towers | running sources have asked the modem; queries carry its tower; nothing of a modem outlives it |
| Minimum of thresholds `gclue-min-uint.c` | values by owner | a client that sets its threshold, comes or goes | the rate of the sources is that of the clients that are there |
| Static source `gclue-static-source.c`, compass `gclue-compass.c` | file and timer; heading | see components in PROJECT.json | |
| Client library `libgeoclue` | chain of asynchronous calls of GClueSimple, locations being made | new, signals of the service or the portal | the task is answered once; the latest location is shown |
| `src/Linux/getlocation.c` | main loop, timeout, agent | run, the callbacks of the library | it ends, with the latest location if there is one |

How they interact: an application calls GetClient; the manager looks the peer
up (`GClueClientInfo`), waits for an agent of its user if there is none, and
makes a `GClueServiceClient`. Start() asks the agent (AuthorizeApp) unless the
configuration decides, then makes a `GClueLocator` of the granted level. The
locator starts the shared sources whose level is at most its own; each source
notifies its locators of locations and levels; the wifi and 3G sources ask a web
service, through one GClueMozilla, with the access points and the cell tower
they were given; the locator filters, and the client turns the result into a
location object and a LocationUpdated signal.
The manager watches the clients' `active` for InUse, the peer for disappearance
and the daemon watches the manager's `active` for its inactivity timeout. The
library makes the application's calls, one after the other, for a program like
getlocation, which brings an agent of its own.

The hard parts are listed under `hazards` in PROJECT.json at the lines where
they bite: replies that come after Stop, DeleteClient or a vanished process;
agents that replace each other; batches of waiting calls; a list sorted while it
is walked; shared counted sources; objects whose last reference is a timeout's;
proxies that are ready when what they stand for is gone; sources, devices,
network and locators that become ready in any order.

## The modules

| Module | Code | How |
|---|---|---|
| `ServiceClient` | `gclue-service-client.c` without location objects | one action per handler and per outcome of it; `calls` is what became of each Start(); a locator is its level |
| `ClientLifecycle` | (abstract) | what an application that waits for answers may rely on: stopped, asking, running, suspended, gone |
| `ServiceManager` | `gclue-service-manager.c`, `gclue-main.c`, the outcomes of `gclue-client-info.c` | calls and AddAgent are small state machines, `waiting` is `clients_waiting_agent` in order, `core` holds what `complete_get_client` and `delete_client` update together |
| `LocatorFilter` | `set_location` of `gclue-locator.c` | one action per early return, one for the rest with the lock's update first; places on a line |
| `LocatorSources` | start, finalize, level changes of `gclue-locator.c`; counts of `gclue-location-source.c` | a list is the relation "comes before"; the loop of `gclue_locator_start` one source at a time, other actions waiting for its end |
| `ClientLocation` | `on_locator_location_changed`, thresholds, timeouts, finalize | one owner per reference: `location`, `prev`, or an element of `retired` |
| `NmeaSource` | `gclue-nmea-source.c` without the sentences | one action per callback; the sorted lists are sets with a relation "was added before"; an operation is kept until it ends or is cancelled |
| `AccessPoints` | (abstract) `gclue-wifi.c` | what a wifi source is to the queries made for it: started, with an interface, its list, whether the list is news, whose list queries carry |
| `WifiScan` | `gclue-wifi.c` without refreshing, the access points of `gclue-mozilla.c` | one action per callback, for each source of a shared interface; a proxy or a call under way is a number; `bss_cancellable` drops them |
| `WebSource` | `gclue-web-source.c` without submissions, queries of `gclue-mozilla.c`, cache of `gclue-wifi.c` | builds on `AccessPoints`; a query is the list it was sent under and what it asks with |
| `ModemManager` | `gclue-modem-manager.c`, `gclue-3g.c`, start and stop of `gclue-cdma.c` and `gclue-modem-gps.c`, the tower of `gclue-mozilla.c` | ModemManager's objects and those of the daemon side by side; each notification runs in the state its caller leaves |
| `LocatorThresholds` | `gclue-min-uint.c`, thresholds in `gclue-locator.c` and `gclue-service-client.c` | extends `LocatorSources`: `values` is a function of addresses, a locator has one, `leaving` are the drops that wait for the idle loop |
| `SimpleClient` | `gclue-simple.c` and `gclue-helpers.c`, with the service and the portal as they see them | one operator per callback, applied to a message; `inbox` keeps the order of answers and signals |
| `GetLocation` | `src/Linux/getlocation.c` | extends `SimpleClient`: the thread of the agent and the rounds of the main loop, which takes the messages |
| `MC*` | | sets and functions for TLC |
| `*Proofs` | | theorems: `LocatorProofs` about `LocatorSources`, `LocatorThresholds` and `LocatorFilter`, `ClientProofs` about `ServiceClient`, `SimpleClient` and `GetLocation`, the others about the module they are named after |

How they compose. `ServiceClient` stands for one of the clients of
`ServiceManager` (`ClientTurns` is its start or stop, `DeleteClient` and
`PeerVanished` the actions of the same name), `ClientLocation` begins where
`StartClient` made a locator, whose locations come in the order that
`LocationsNeverOlder` proves of `LocatorFilter`, and a locator of
`LocatorSources` is one that `StartClient` makes and `StopClient` finalizes.
`LocatorThresholds` adds to each of these steps what becomes of the client's
threshold, and `ThresholdsKeepSources` proves that it does to the sources what
`LocatorSources` does. `NmeaSource`, `WebSource` and `ModemManager` are sources of
`LocatorSources`: `uses`, or `active`, is what that module counts, `level` what
`Announce` announces. Each source of `WifiScan` implements `AccessPoints`
(`EverySourceListsPoints`), on which `WebSource` builds its queries; the cell
tower of `ModemManager`, which enters a query and its cache key alike, is left
out there. `GetLocation` composes the program with `SimpleClient`; of the service
it knows what `ServiceManager` (no client before there is an agent, though GDBus
may end the call with an error), `ServiceClient` (refused, started, suspended,
resumed) and `ClientLocation` (locations in order) let it do.

Names ending in a description of a fault (`StopKeepsLocator`,
`FinalizeStopsNone`, ...) right before an operator are its mutants: plausible
bugs with which each property is known to fail. No specification uses them.

### What is abstracted

- Levels are the numbers of `GClueAccuracyLevel`; desktop ids, peers, users and
  agents are model values; the configuration is a constant.
- `xdgId` is chosen once: the parsing of cgroups in `gclue-client-info.c` is its
  value only.
- An access point is usable or not: the rules on BSSIDs, SSIDs and signals are
  a choice when its proxy is ready. A place of the cache is near enough or not.
- A tower is named or anonymous, of a known or unknown technology (`Anonymous`,
  `Unknown`).
- What the operating system and the bus do is a nondeterministic step:
  connections close (`Leave`), the agent's proxy loses its owner and its cache
  (`AgentVanishes`), a second passes (`Tick`).
- Histories (`consented`, `appStopped`, `heard`, `verdict`, `lastFix`, `latest`,
  `announced`, `failed`, `outcome`, `broken`, `astray`, `lapsed`, `unheard`, `lost`)
  record what a property needs and guard nothing.

## The runs

| Run | Question | Bounds |
|---|---|---|
| `ClientOneCall` | do active and locator agree; is it a `ClientLifecycle`; do grants stay within the maximum | one Start() at a time; sandboxed and not; three configured permissions; requests 0, 4 (the default), 7, 9; maxima 0, 1, 4, 7, 8 |
| `ClientTwoCalls` | the same questions that survive two undecided Start() calls; does an abandoned client go | two calls, a sandboxed application that must be asked about |
| `Manager` | queue, counter, inactivity timeout, reuse, InUse, answers, and gone peers | two users with one peer and one agent each; two calls in total |
| `Locator` | is the lock right, and does a fix hold for its age, for locations in any order | two sources (one of priority), three places, timestamps and accuracies on both sides of each threshold; ages scaled to 3 and 4 |
| `Sources` | counts, eligibility, the end of the walk, the rate of the sources | three locators of two levels at two addresses, so two at a time, one of which may take the address of one that left; three sources, one that announces a level while it is started; thresholds 0, 1, 2 |
| `Locations` | who owns an object, what an application may still read, what it is told | five objects, grace of two seconds, places 40 m apart with a threshold of 50 m, timestamps a minute apart with one of 40 s |
| `Nmea` | is the best service in use connected, the timer running when all are broken, the level that of the best; is a working service found in the end | a socket that may be configured, two services of the network, two levels, two users |
| `WifiScan` | does a source listen exactly while it can, is its list real, do scans go on, does news get out; is each an `AccessPoints` | two sources of one interface that comes and goes, one access point, one proxy of an object and one Scan call at a time |
| `WebSource` | is a location cached under what was asked with, is a stopped source quiet, is a usable one told of its list | two access points, as many as a query needs, two cached locations, another source, a network, a device |
| `Modem` | what is left of a modem, have sources asked, is the tower current and owned | two 3G sources (symmetric), CDMA and GPS; a modem of every kind and one of 3GPP only; a tower with operator, one without, one of an unknown technology |
| `GetLocation` | is the task answered once, the latest location shown, does the program end | service or portal, an agent of the desktop or not, three locations, of which two before Start is answered; nothing new with three messages on their way |
| `ModemRemoved` | violation: a modem that goes while none is in use takes the service down | as `Modem` |

Why the bounds are enough: two calls are what it takes for one to be decided
while another is undecided, for a batch to reuse a client it has just made, and
for one locator to overwrite another; three sources are needed for a source to
move across the node of a walk; an object passes through new, current, previous,
retired and gone with the arrival of three more, so five overlap two retired
ones; of three services one can be in use while another breaks or returns and a
third comes or goes, and the socket is the one that outlives a client of Avahi; requests and maxima hold a value below, at, between
and above the levels; a second wifi source is what can take the queries from the
first, and one path is enough for a proxy to be overtaken by the object it
stands for; two modems are what it takes for one to go unused; two locations on
their way can overtake each other, and a third come after the answer.
The arithmetic (clamping, ages, thresholds) is also proved without bounds.

Deadlock is checked for `Locator`, `Sources` and `Nmea`. Elsewhere the system really
stops: a client that is released by application and manager has no more
actions, the daemon may quit, `MaxUpdates` ends `Locations`, getlocation returns,
the loss of an unused modem ends the service, and a source whose locators,
network and devices are at rest has nothing to do.

### Fairness

`FairSpec` of `ServiceClient`: GDBus ends every call, after 25 s by default, so
an AuthorizeApp call gets an answer or fails. `FairSpec` of `ServiceManager`: the
bus answers every credential lookup and announces closed connections, and the
main loop dispatches each event; nothing is assumed about agents, applications
or the inactivity timeout, and calls that wait for an agent may wait for ever.
`ThresholdFairSpec` of `LocatorThresholds`: a loop in one callback goes on.
`FairSpec` of `NmeaSource`: connecting succeeds or fails, by the kernel's timeout
at the latest, and GLib dispatches the timer and the idle callback; nothing is
assumed of a read, a service or Avahi. `FairSpec` of `WifiScan`: wpa_supplicant
answers Scan calls and ends its scans, one way or the other, and GLib fires the
timers. `FairSpec` of `WebSource`: queries and checks of the network end, by libsoup's
and GIO's timeouts at the latest, and scans end again and again, which `ScanGoesOn`
and the fairness of `WifiScan` give as long as no scan is refused or fails.
`ProgramFairSpec` of `GetLocation`: its timer fires, its loop turns and main goes on;
neither the service nor an agent is counted on. Everything else is safety.

What makes the liveness properties conditional is in them. `NewsGetsOut` ends
with a broken scan or a lost interface. `StartedIsTold` speaks of a source that
stays usable from some time on, with a list that changes no more: it is told the
location of this list, not of one before. The exceptions are a failed query for
it and a query for an older list, under way when the refresh came or answered
after the cache (`NewsIsTold`, below). `SettlesConnected` speaks of a service that works from
some time on while Avahi has no more news, and excludes a source that ends on a
connection its service closed in good order (`HangUpNoticed`, below).

### What TLC refutes

**The modem that was not in use** (`ModemRemoved`, a run). When a modem without
location interface is plugged out and no modem is in use, `on_mm_object_removed`
(gclue-modem-manager.c:947) looks up the path of the modem in use instead of the
one that goes; that is NULL, and hashing it ends the service (`OtherRemoved`).
With another modem in use the wrong path is looked up, and the one that goes
stays among `modems_not_enabled`.

The following definitions state what a comment, a name or a caller expects and
what the code does not keep. They have no run of their own; put in place of the
properties of the run in parentheses, TLC finds a counterexample.

- `StopSticks` (`ClientOneCall`): `handle_stop` (624) does not withdraw a Start()
  that waits for the agent; the answer starts the client.
- `LiveAgentStays` (`Manager`, with `UserOf <- SameUser` and `Renames = FALSE`):
  `on_agent_vanished` (481) removes the agent registered for the user of the one
  that left, also its successor.
- `FixHoldsItsAge` (`Locator`): that no location of another source is taken
  within MAX_PRIORITY_SOURCE_AGE of an accurate fix. A location that comes too
  late ends the lock even if it is then ignored for its accuracy, and the next,
  from within the age, is taken (gclue-locator.c:143-176).
- `EveryEligibleActive` (`Sources`): a source that announces a level while
  `gclue_locator_start` (540) starts it has the list sorted under the walk;
  sources that moved before the node stay stopped until their level changes.
  Where starting never announces a level (`RefreshedByStart = {}`) all eligible
  sources are active.
- `NoneForgotten` (`Sources`): the value of a locator that went is dropped at
  idle, by its address (gclue-min-uint.c:64); a new locator at that address
  loses its own instead, until its client writes its threshold again.
- `StartIsSignaled` (`Locations`): `signaled_location` outlives the locator, so
  the first location after Stop and Start is compared with the last one before
  and may be written into the old object without a signal.
- `HangUpNoticed` (`Nmea`): a service that closes the connection ends the read
  with neither message nor error; `on_read_nmea_sentence` (735) takes it for an
  empty line and reads on, for ever and at once, so neither this service nor
  another is connected until the source is stopped or a better one comes. This is
  the case that `SettlesConnected` excludes.
- `CacheKeyIsAsked` (`WebSource`): the cache key is the source's list
  (gclue-wifi.c:1474), also when the query carried no access points, or those of
  another source, because the source had not scanned or another one scanned
  last.
- `NewsIsTold` (`WebSource`): `gclue_web_source_refresh` "causes @source to
  refresh location", but a refresh that comes while a query is under way is
  refused (gclue-web-source.c:107) and nobody asks again: if the query was for an
  older list, the location stays that of the older list until the access points
  change again. The answer to an older query also replaces a location that the
  cache has given since.
- `RefreshSetsLevel` (`WebSource`): a cache hit (gclue-wifi.c:1430) returns
  before the level is refreshed.
- `AgentStopped` (`GetLocation`): main may end before the thread of the agent is
  back from fork, and then leaves the agent behind.
- `FreedIsQuiet` (`GetLocation`): `on_location_proxy_ready` may come in the loop
  round in which the object was given up, and reads what is freed.

Seen while modelling, with a place in the models. In the service: a reply to
AuthorizeApp starts a client at its level even if MaxAccuracyLevel became 0 in
between (`Authorized`, gclue-service-client.c:426); Stop() leaves `agent_stopped`,
so the agent's next level restarts a client its application stopped (`Stop`,
628); of two authorized Start() calls the second overwrites, and leaks, the
first locator (`Overwritten`, 260); with no allowed agent calls wait although
`handle_pending_auth` is written for clients without one (`InfoQueued`,
gclue-service-manager.c:355); the inactivity timeout counts clients only and may
quit under a call in progress (`InactivityTimeout`, gclue-main.c:86); an agent
that leaves between its lookup and its proxy is registered unwatched
(`AgentVanishedUnseen`); InUse is stale after an active client changes its
DesktopId (`ClientRenamed` with `Renames`); an accurate GPS fix that is the first
location of a locator sets no lock (`TakeFirst`, gclue-locator.c:112).

In the sources: an NMEA service that is withdrawn while it is being resolved is
added when the resolver ends, and stays until Avahi fails (`Withdrawn`,
gclue-nmea-source.c:545). A refused or failed scan ends the chain of scans until
the next start, or a scan of another program (`ScanRefused`, gclue-wifi.c:594).
The proxy of an interface that went may still be taken, and every other
interface is ignored from then on (`InterfaceReady`, 882 and 921). The loss of
the network lowers no level (`Checked`, gclue-web-source.c:250). A modem that is
enabled a second time is reported to nobody (`ModemEnabledUnnoticed`,
gclue-modem-manager.c:849), and when one is connected anew GPS, unlike 3G and CDMA,
is not told, so that `caps` still has what it asked of the interface before
(`ModemEnabled`, 880-894). A setup that failed is not tried again
(`SetupFailed`), and disabling CDMA clears the tower of running 3G sources
(`StopCdma`). A tower without operator keeps the one before (`LocationChanged`).

## The proofs

All are for any value of the constants that satisfies the `ASSUME` of the
module. Every invariant and every action property that a passing run checks is
also stated by a theorem.

- **ServiceClient** (`ClientProofs`). `TypeCorrect` rests on `EnsureValidLevel`:
  clamping yields a level, within the maximum, for every request and every
  maximum but 0. `SuspendedOnlyWhileDisabledAlways` is inductive as it stands.
  `ActiveMeansReceivingAlways` and `ImplementsLifecycle` assume `Sequential`, one
  outstanding call, without which they are false; the invariant `SequentialInv`
  adds that a client with an undecided call is neither active nor has a locator
  to lose, and that a suspended one has none; each action is then a step of the
  lifecycle or a stutter. `NoLocatorWithoutConsentAlways` needs `ConsentInv`,
  which counts a suspended client as served: it is restarted without being asked
  about again. `SuccessAlwaysMeansActive` holds for any number of calls, since
  with any number a client is active exactly while it has a locator
  (`ActiveWithLocator`). `GrantsStayWithinMax` needs no invariant but the types,
  and that the level `gclue_locator_new` raises stays within the clamped maximum.
- **SimpleClient and GetLocation** (`ClientProofs`). `TaskAlwaysAnsweredOnce` and
  `LatestAlwaysShown` rest on the order of the inbox (`SimpleInv`): in the chain
  of calls there is one answer and nothing else; only locations come before the
  answer to Start; with the portal nothing does; and the newest location is in
  the last signal on its way, the last proxy asked for, or shown. Each step of
  the service, the portal and the callbacks keeps each part. It holds until the
  program gives the object up (`ProgramInv`); from then on only types and answers
  matter.
- **ServiceManager** (`ServiceManagerProofs`). One event completes a whole batch
  of waiting calls, so the proof goes over the places of the queue: after the
  first k calls the manager is sound (`CoreInv`) and exactly these are answered
  (`Served`). Induction over the natural numbers is stated there with a set in
  place of the library's operator and proved from well-founded finite sets. The
  properties are inductive only together (`ManagerInv`): that a client's user has
  an agent, that calls wait only without one, that identifiers are distinct and
  the counter is the length of the list. `AnswersAlwaysNameOwnClient` follows.
- **LocatorFilter** (`LocatorProofs`). `FilterInv` adds to the types that the
  lock's time is that of the last accurate fix, which is no newer than the
  current location, and that a lock that is gone was ended by a location the whole
  age newer (`EndedByAge`). From it follow `LockNeverAhead` (the unsigned subtraction
  does not wrap), `LockOnlyAfterFix`, `PriorityAlwaysHolds` and
  `LocationsNeverOlder`.
- **LocatorSources** (`LocatorProofs`). `UsesAlwaysBalanced`: counts equal
  numbers of users for any finite set of locators; the work is in the
  cardinalities of the locators that gain and lose a source in one announcement,
  with the source of a running walk known not to be active yet.
  `OnlyEligibleAlways` holds for any order of announcements, and
  `ListsAlwaysRanked` although lists are sorted under the walk.
  `AllEligibleWithoutRefresh` assumes that no start announces a level
  (`RefreshedByStart = {}`), without which TLC refutes it: then every eligible
  source is active or lies ahead of the walk (`ActiveOrAhead`).
- **LocatorThresholds** (`LocatorProofs`). `RateAlwaysOfTheLiving` rests on
  `ThresholdsInv`: no two living locators have one address; the table holds the
  values of the living that lost none, and otherwise only values that are due to
  be dropped; and the rate is the least of the table. `ThresholdsKeepSources`
  proves the refinement of `LocatorSources`, from which
  `ThresholdsKeepUsesBalanced`, as it is checked by `Sources`.
- **ClientLocation** (`ClientLocationProofs`). `AlwaysOneOwnerEach` and
  `NamedObjectsAlwaysExist` are inductive with `OwnersApart` (no object is
  current, previous or retired twice over, so that no two timeouts merge as they
  run down) and `NamedAreOwn` (what the application was told is the client's
  current and previous object). `SignalsAlwaysChain` and
  `QuietUpdatesAlwaysSmall` are steps from them; the latter needs that the
  current object shows the last location that arrived, and that the location new
  ones are compared with is the one last announced (`SignaledWasTold`), so that
  no number of small steps moves it.
- **NmeaSource** (`NmeaSourceProofs`). `NmeaInv` is the four invariants of the
  module with three facts they need: the active service is the head of its list, not
  only as accurate; of two services one was added first; and without a client of
  Avahi no service of the network is known, so that a restart that refreshes no
  level changes none. Every callback ends in `Connect` or `Reconnect`, so the
  part about the connection is proved for these two. `AlwaysStaysConnected` is
  the action property: a head that is not more accurate was older before.
- **WifiScan** (`WifiScanProofs`). `WifiInv`: a source is connected exactly while
  it can be and else idle, which makes every timer, call and proxy one of a
  connected source; on it rests the chain of scans, and the list, for which
  `ListInv` follows each access point from the signal to the list: a proxy under
  way stands for one in range, or for one noted as astray.
  `EverySourceIsAccessPoints` takes each step to one of `AccessPoints`, for each
  source, or to a stutter.
- **WebSource** (`WebSourceProofs`). What is cached was a query before, so the
  invariant gives the query under way the key it was sent with, whatever becomes
  of the list until the answer. `AsksForAccessPoints` proves the refinement of
  `AccessPoints`; `StoppedAlwaysQuiet` says that nothing but the answer to a
  query still under way moves a stopped source.
- **ModemManager** (`ModemManagerProofs`). `ModemInv` adds to the properties that
  no location of 3GPP means no tower, that the watched modem is connected, that
  each running 3G source has its timer, and that the tower last compared with is
  the one queries carry, without which a report of the tower it has could be
  dropped as no news. What each notification does to the modem and its sources is
  a lemma of its own, cited by the handlers that notify.

Theorems that state definitions no run repeats: those about types,
`SuspendedOnlyWhileDisabledAlways`, `LockOnlyAfterFix`, `LocationsNeverOlder`,
`AlwaysStaysConnected`, `WaitersNeverHaveAgents`, `ClientsAlwaysHaveAgents`,
`PropertyAlwaysCurrent`, `ThresholdsKeepSources`, `AsksForAccessPoints`,
`ListsAlwaysRanked` and `AllEligibleWithoutRefresh`.

Only model-checked: all liveness (`AbandonedClientGoes`, `GonePeerCleaned`,
`WalkTerminates`, `SettlesConnected`, `NewsGetsOut`, `StartedIsTold`, `Ends`),
since fairness and ENABLED are beyond the prover.

## Not modelled

Every part is listed in PROJECT.json with its reason. Left out for good: parsing
and geometry (`gclue-location.c`, `gclue-nmea-utils.c`), HTTP and JSON
(`gclue-mozilla.c`), D-Bus boilerplate, the demo programs but for the agent's
registration, the synchronous variants of the library, and the Windows sources, a
thin layer over a system API with a vendored JSON library (`json.hpp` alone is
more than half of the repository's lines).

Inside modelled files: `handle_pending_auth` and its timer (no client is made
without an agent: `ClientHasAgent`); the movement derived from two locations; the
submission of another source's locations (gclue-web-source.c:551-621), which
sends and forgets; the intervals between scans; the age of cached locations,
which after a long stop may be more than 48 hours when they are found again.

`SimpleClient` is one object in its process, without a GCancellable. What that
leaves out: a client that cannot be created leaks the task, since
`on_client_created` clears a `priv->task` that is not set yet; a GCancellable that
is cancelled after Start ends nothing before a location comes; and two objects
of one process share the client of the service (GetClient), so that dropping one
deletes it for both. `getlocation.c` asks for the client of an object that has
none under the portal; the model takes that for a handler that never comes.

## Plan

Done: `ServiceClient` with `ClientLifecycle`, `ServiceManager`, `LocatorFilter`,
`LocatorSources` with `LocatorThresholds`, `ClientLocation`, `NmeaSource`,
`WifiScan` with `AccessPoints`, `WebSource`, `ModemManager`, `SimpleClient` with
`GetLocation`; proofs about all of them. Next, in this order:

1. `StaticSource`: the file that is read again when it changes, and the idle
   callback that sets its location, also after a stop.
2. Composition of `ServiceManager` with `ServiceClient`, one module in which
   `ClientTurns` is replaced by the client's own steps, implementing an abstract
   service: a peer receives locations only between its Start and its Stop. Its
   proof would cite `CoreInv` and `SequentialInv`.

Runs are kept few: a new module shares a run with the one it composes with, or
takes the place of a run whose question it answers as well.
