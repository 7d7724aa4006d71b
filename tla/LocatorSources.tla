--------------------------- MODULE LocatorSources --------------------------
(***************************************************************************)
(* GClueLocator (src/gclue-locator.c) and the use counts of the sources    *)
(* (start_source and stop_source of src/gclue-location-source.c): which    *)
(* sources run for which locators.                                         *)
(*                                                                         *)
(* The sources are singletons that the locators share; those modelled are  *)
(* kept alive by the manager's own locator.  Starting a locator walks down *)
(* its list of sources, and a source may change its accuracy level while   *)
(* it is being started: the handler of that signal sorts the list under    *)
(* the walk.  The walk is a loop in one callback, so nothing else happens  *)
(* until it ends; it is modelled source by source, and every other action  *)
(* waits for it.                                                           *)
(*                                                                         *)
(* A list of sources is the relation "comes before".                       *)
(***************************************************************************)
EXTENDS Integers, FiniteSets

CONSTANTS
    Locators,
    Sources,
    ConfigOrder,     \* the order in which gclue_locator_constructed adds them
    Accuracy,        \* [Locators -> accuracy_level]
    SourceLevels,    \* [Sources -> levels it can have]
    Web,             \* web sources, which find out late that the net is gone
    RefreshedByStart, \* web sources whose start refreshes their level
    NULL             \* no node of a list, no locator

NONE == 0
CITY == 4
EXACT == 8

\* Every source is in the list once.
TotalOrder(list) ==
    /\ \A a, b \in Sources : a # b => <<a, b>> \in list \/ <<b, a>> \in list
    /\ \A a, b \in Sources : <<a, b>> \in list => <<b, a>> \notin list
    /\ \A a, b, c \in Sources :
          <<a, b>> \in list /\ <<b, c>> \in list => <<a, c>> \in list

ASSUME SourcesAssumption ==
    /\ IsFiniteSet(Locators)
    /\ NULL \notin Locators \cup Sources
    /\ ConfigOrder \subseteq Sources \X Sources
    /\ TotalOrder(ConfigOrder)
    /\ Accuracy \in [Locators -> CITY .. EXACT]
    /\ SourceLevels \in [Sources -> SUBSET (NONE .. EXACT)]
    /\ \A s \in Sources : NONE \in SourceLevels[s]
    /\ RefreshedByStart \subseteq Web
    /\ Web \subseteq Sources

VARIABLES
    level,   \* [Sources -> avail_accuracy_level], as last announced
    actual,  \* [Sources -> the level a refresh would announce]
    uses,    \* [Sources -> active_counter]
    started, \* the locators that exist and have been started
    order,   \* [Locators -> their lists of sources]
    active,  \* [Locators -> active_sources]
    walk     \* [locator, node]: the walk of gclue_locator_start, if any

vars == <<level, actual, uses, started, order, active, walk>>

NoWalk == [locator |-> NULL, node |-> NULL]

----------------------------------------------------------------------------
\* Mutant: the lowest level first.
SortedAscending(list, lv) ==
    {p \in Sources \X Sources :
       lv[p[1]] < lv[p[2]] \/ (lv[p[1]] = lv[p[2]] /\ p \in list)}

\* g_list_sort with compare_accuracy_level: stable, the highest level first.
Sorted(list, lv) ==
    {p \in Sources \X Sources :
       lv[p[1]] > lv[p[2]] \/ (lv[p[1]] = lv[p[2]] /\ p \in list)}

Eligible(l, lvl) == lvl # NONE /\ lvl <= Accuracy[l]

\* The locators that have s among their active sources.
Users(act, s) == {l \in Locators : s \in act[l]}

\* Mutant: sources are never removed.
ActiveAfterStartOnly(l, s, lvl, running) ==
    IF Eligible(l, lvl) THEN running \cup {s} ELSE running

\* on_avail_accuracy_level_changed of one locator: what its active sources
\* become when s announces level lvl.
ActiveAfter(l, s, lvl, running) ==
    IF Eligible(l, lvl) THEN running \cup {s} ELSE running \ {s}

\* The handlers of all locators, for a source that announces a level, given
\* the active sources and the use counts before.
Announce(s, lvl, act, use) ==
    /\ level' = [level EXCEPT ![s] = lvl]
    /\ active' = [l \in Locators |->
                    IF l \in started THEN ActiveAfter(l, s, lvl, act[l])
                    ELSE act[l]]
    /\ uses' = [use EXCEPT ![s] =
                  @ + Cardinality({l \in started : s \in active'[l] \ act[l]})
                    - Cardinality({l \in started : s \in act[l] \ active'[l]})]
    /\ order' = [l \in Locators |->
                    IF l \in started THEN Sorted(order[l], level') ELSE order[l]]

\* node->next of s in a list, and the first node of a list.
IsNext(list, s, t) ==
    \/ t \in Sources /\ <<s, t>> \in list
       /\ \A u \in Sources : <<s, u>> \in list => u = t \/ <<t, u>> \in list
    \/ t = NULL /\ \A u \in Sources : <<s, u>> \notin list

IsHead(list, t) == t \in Sources /\ \A u \in Sources : u = t \/ <<t, u>> \in list

----------------------------------------------------------------------------
Init ==
    /\ level \in [Sources -> NONE .. EXACT]
    /\ \A s \in Sources : level[s] \in SourceLevels[s]
    /\ actual = level
    /\ uses = [s \in Sources |-> 0]
    /\ started = {}
    /\ order = [l \in Locators |-> {}]
    /\ active = [l \in Locators |-> {}]
    /\ walk = NoWalk

\* gclue_locator_constructed, then gclue_locator_start up to its loop.
Start(l) ==
    /\ walk = NoWalk
    /\ l \notin started
    /\ started' = started \cup {l}
    /\ order' = [order EXCEPT ![l] = Sorted(ConfigOrder, level)]
    /\ \E t \in Sources : /\ IsHead(order'[l], t)
                         /\ walk' = [locator |-> l, node |-> t]
    /\ UNCHANGED <<level, actual, uses, active>>

\* The end of the loop: node == NULL.
WalkEnds ==
    /\ walk # NoWalk
    /\ walk.node = NULL
    /\ walk' = NoWalk
    /\ UNCHANGED <<level, actual, uses, started, order, active>>

\* Mutant: the loop goes on without the next node.
WalkSkipsInPlace ==
    /\ walk.node \in Sources
    /\ ~Eligible(walk.locator, level[walk.node])
    /\ UNCHANGED vars

\* "Not starting %s"
WalkSkips ==
    LET s == walk.node
    IN  /\ s \in Sources
        /\ ~Eligible(walk.locator, level[s])
        /\ \E t \in Sources \cup {NULL} :
              /\ IsNext(order[walk.locator], s, t)
              /\ walk' = [locator |-> walk.locator, node |-> t]
        /\ UNCHANGED <<level, actual, uses, started, order, active>>

\* The source is appended to active_sources, then started.  Its first user
\* makes it refresh its level, if it is of that kind.
WalkStarts ==
    LET s == walk.node
        act == [active EXCEPT ![walk.locator] = @ \cup {s}]
        use == [uses EXCEPT ![s] = @ + 1]
    IN  /\ s \in Sources
        /\ Eligible(walk.locator, level[s])
        /\ IF uses[s] = 0 /\ s \in RefreshedByStart /\ actual[s] # level[s]
           THEN Announce(s, actual[s], act, use)
           ELSE active' = act /\ uses' = use /\ UNCHANGED <<level, order>>
        /\ \E t \in Sources \cup {NULL} :
              /\ IsNext(order'[walk.locator], s, t)
              /\ walk' = [locator |-> walk.locator, node |-> t]
        /\ UNCHANGED <<actual, started>>

\* Mutants: all sources are stopped; none is.
FinalizeStopsAll(l) ==
    /\ walk = NoWalk
    /\ l \in started
    /\ started' = started \ {l}
    /\ uses' = [s \in Sources |-> uses[s] - 1]
    /\ active' = [active EXCEPT ![l] = {}]
    /\ order' = [order EXCEPT ![l] = {}]
    /\ UNCHANGED <<level, actual, walk>>

FinalizeStopsNone(l) ==
    /\ walk = NoWalk
    /\ l \in started
    /\ started' = started \ {l}
    /\ active' = [active EXCEPT ![l] = {}]
    /\ order' = [order EXCEPT ![l] = {}]
    /\ UNCHANGED <<level, actual, uses, walk>>

\* The client drops its locator: gclue_locator_finalize.
Finalize(l) ==
    /\ walk = NoWalk
    /\ l \in started
    /\ started' = started \ {l}
    /\ uses' = [s \in Sources |-> IF s \in active[l] THEN uses[s] - 1 ELSE uses[s]]
    /\ active' = [active EXCEPT ![l] = {}]
    /\ order' = [order EXCEPT ![l] = {}]
    /\ UNCHANGED <<level, actual, walk>>

\* The level of a source changes and is announced (a modem, a network service
\* or a device appears or goes, the network is back).
LevelChanges(s, lvl) ==
    /\ walk = NoWalk
    /\ lvl # level[s]
    /\ actual' = [actual EXCEPT ![s] = lvl]
    /\ Announce(s, lvl, active, uses)
    /\ UNCHANGED <<started, walk>>

\* locate_url_checked_cb: the network is lost and nothing announces it.
NetworkLost ==
    /\ walk = NoWalk
    /\ actual' = [s \in Sources |-> IF s \in Web THEN NONE ELSE actual[s]]
    /\ UNCHANGED <<level, uses, started, order, active, walk>>

Next ==
    \/ \E l \in Locators : Start(l) \/ Finalize(l)
    \/ WalkSkips
    \/ WalkStarts
    \/ WalkEnds
    \/ \E s \in Sources : \E lvl \in SourceLevels[s] : LevelChanges(s, lvl)
    \/ NetworkLost

Spec == Init /\ [][Next]_vars

\* A loop that is running comes to its end.
FairSpec == Spec /\ WF_vars(WalkSkips \/ WalkStarts \/ WalkEnds)

----------------------------------------------------------------------------
TypeOK ==
    /\ level \in [Sources -> NONE .. EXACT]
    /\ actual \in [Sources -> NONE .. EXACT]
    /\ uses \in [Sources -> Nat]
    /\ started \subseteq Locators
    /\ order \in [Locators -> SUBSET (Sources \X Sources)]
    /\ active \in [Locators -> SUBSET Sources]
    /\ walk \in [locator : Locators \cup {NULL}, node : Sources \cup {NULL}]

(* The use count of a source is the number of locators that have it among   *)
(* their active sources, whatever order starts, level changes (also in the  *)
(* middle of a start) and disappearing locators come in: no source runs for *)
(* nobody, and none stops under a locator.  (stop_source ignores a stop at  *)
(* zero: Finalize subtracts without that guard, which this would show.)     *)
UsesBalanced ==
    \A s \in Sources : uses[s] = Cardinality(Users(active, s))

(* A locator never listens to a source that is more accurate than the level *)
(* it was created for, or that has no level, even in the middle of a start. *)
OnlyEligibleActive ==
    \A l \in Locators : \A s \in active[l] : Eligible(l, level[s])

(* The list of a started locator keeps every source once, the most accurate *)
(* first, so that its head tells the available level.                       *)
ListRanked ==
    \A l \in started :
       /\ TotalOrder(order[l])
       /\ \A a, b \in Sources : <<a, b>> \in order[l] => level[a] >= level[b]

(* The walk visits no source twice and comes to its end, although the list  *)
(* is sorted under it.                                                      *)
WalkTerminates == walk # NoWalk ~> walk = NoWalk

(* gclue_location_source_start: "Start searching for location and keep an   *)
(* eye on location changes."  Once started, a locator has all the sources   *)
(* active whose level it may have.                                          *)
EveryEligibleActive ==
    walk = NoWalk =>
       \A l \in started : \A s \in Sources :
          Eligible(l, level[s]) => s \in active[l]
=============================================================================
