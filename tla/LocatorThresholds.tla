-------------------------- MODULE LocatorThresholds ------------------------
(***************************************************************************)
(* The time thresholds of the clients on their way to the sources:         *)
(* gclue_locator_set_time_threshold and on_time_threshold_changed of       *)
(* src/gclue-locator.c, and GClueMinUINT (src/gclue-min-uint.c), which     *)
(* keeps one value of every owner and tells the least of them.  The modem  *)
(* is asked for fixes at that rate.                                        *)
(*                                                                         *)
(* An owner is known by its address.  When a locator goes, its value stays *)
(* until the main loop is idle; by then a new locator may have been made   *)
(* at the same address, and it is that one's value which goes.             *)
(*                                                                         *)
(* A locator gives its threshold to all sources of its list, started or    *)
(* not, so one table stands for those of all sources.                      *)
(***************************************************************************)
EXTENDS LocatorSources, FiniteSetsExt, Functions

CONSTANTS
    Addresses,   \* where a locator may be allocated
    Thresholds   \* TimeThreshold of a client, in seconds

ASSUME ThresholdsAssumption ==
    /\ Thresholds \subseteq Nat
    /\ IsFiniteSet(Thresholds)
    /\ NULL \notin Addresses

VARIABLES
    threshold,   \* [Locators -> the value of its own GClueMinUINT]
    address,     \* [Locators -> where it is, NULL if it does not exist]
    values,      \* all_values of a source: a function of some addresses
    rate,        \* the refresh rate that the modem was last asked for
    leaving,     \* addresses whose deferred drop waits for the idle loop
    lost         \* history: locators whose value went in another's place

thresholdVars == <<threshold, address, values, rate, leaving, lost>>
allVars == <<vars, thresholdVars>>

\* gclue_min_uint_get_value: 0 if nobody has a value.
Least(vals) == IF vals = {} THEN 0 ELSE Min(vals)

\* gclue_min_uint_add_value of all sources, and their "notify::value".
AddValue(a, v) ==
    /\ values' = [b \in DOMAIN values \cup {a} |-> IF b = a THEN v ELSE values[b]]
    /\ rate' = Least(Range(values'))

Walking == WalkSkips \/ WalkStarts \/ WalkEnds

----------------------------------------------------------------------------
ThresholdInit ==
    /\ Init
    /\ threshold = [l \in Locators |-> 0]
    /\ address = [l \in Locators |-> NULL]
    /\ values = << >>
    /\ rate = 0
    /\ leaving = {}
    /\ lost = {}

\* start_client: the new locator is given the threshold of the client, then
\* started.
StartClient(l) ==
    /\ Start(l)
    /\ \E a \in Addresses, v \in Thresholds :
          /\ a \notin {address[k] : k \in started}
          /\ address' = [address EXCEPT ![l] = a]
          /\ threshold' = [threshold EXCEPT ![l] = v]
          /\ AddValue(a, v)
    /\ UNCHANGED <<leaving, lost>>

\* A client writes TimeThreshold while it has a locator.
SetTimeThreshold(l, v) ==
    /\ walk = NoWalk
    /\ l \in started
    /\ threshold' = [threshold EXCEPT ![l] = v]
    /\ AddValue(address[l], v)
    /\ lost' = lost \ {l}
    /\ UNCHANGED <<vars, address, leaving>>

\* stop_client: the locator is disposed of, and on_owner_weak_ref_notify
\* defers the drop of its value.
StopClient(l) ==
    /\ Finalize(l)
    /\ leaving' = leaving \cup {address[l]}
    /\ address' = [address EXCEPT ![l] = NULL]
    /\ threshold' = [threshold EXCEPT ![l] = 0]
    /\ lost' = lost \ {l}
    /\ UNCHANGED <<values, rate>>

\* Mutant: the drop tells nobody.
DropsQuietly ==
    /\ walk = NoWalk
    /\ leaving # {}
    /\ values' = Restrict(values, DOMAIN values \ leaving)
    /\ leaving' = {}
    /\ lost' = lost \cup {l \in started : address[l] \in leaving}
    /\ UNCHANGED <<vars, threshold, address, rate>>

\* on_owner_weak_ref_notify_defered: all that are due, in one turn of the
\* main loop.
Drops ==
    /\ walk = NoWalk
    /\ leaving # {}
    /\ values' = Restrict(values, DOMAIN values \ leaving)
    /\ rate' = Least(Range(values'))
    /\ leaving' = {}
    /\ lost' = lost \cup {l \in started : address[l] \in leaving}
    /\ UNCHANGED <<vars, threshold, address>>

\* What does not concern the thresholds.
Elsewhere ==
    /\ \/ Walking
       \/ \E s \in Sources : \E lvl \in SourceLevels[s] : LevelChanges(s, lvl)
       \/ NetworkLost
    /\ UNCHANGED thresholdVars

ThresholdNext ==
    \/ \E l \in Locators :
          \/ StartClient(l)
          \/ StopClient(l)
          \/ \E v \in Thresholds : SetTimeThreshold(l, v)
    \/ Drops
    \/ Elsewhere

ThresholdSpec == ThresholdInit /\ [][ThresholdNext]_allVars

\* A loop that is running comes to its end.
ThresholdFairSpec ==
    ThresholdSpec /\ WF_allVars(Walking /\ UNCHANGED thresholdVars)

----------------------------------------------------------------------------
ThresholdTypeOK ==
    /\ threshold \in [Locators -> Nat]
    /\ address \in [Locators -> Addresses \cup {NULL}]
    /\ DOMAIN values \subseteq Addresses
    /\ \A a \in DOMAIN values : values[a] \in Thresholds
    /\ rate \in Nat
    /\ leaving \subseteq Addresses
    /\ lost \subseteq started

(* Once the drops that are due are done, the sources work at the rate of the *)
(* most demanding client that has a locator, in whatever order clients come, *)
(* go and write their thresholds: none that left is served any longer, and   *)
(* no other is forgotten but those whose locator took the place of one that  *)
(* was leaving.                                                              *)
RateOfTheLiving ==
    leaving = {} => rate = Least({threshold[l] : l \in started \ lost})

(* "Let's ensure owner is really gone before we drop its value": a client    *)
(* that has a locator is never forgotten.                                    *)
NoneForgotten == \A l \in started : address[l] \in DOMAIN values
=============================================================================
