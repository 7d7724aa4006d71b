--------------------------- MODULE LocatorProofs ---------------------------
(***************************************************************************)
(* Proofs about the locator: LocatorSources and LocatorThresholds, for any *)
(* number of locators, sources, addresses and thresholds and any accuracy  *)
(* levels, and LocatorFilter, for any sources, places, timestamps and      *)
(* limits.                                                                 *)
(*                                                                         *)
(* LocatorSources: the use counts of the sources stay balanced and no      *)
(* locator listens to a source it may not have.  The counts would be wrong *)
(* if a walk came to a source twice.  That it does not, although the list  *)
(* is sorted under it, is the part of the invariant called Unvisited; it   *)
(* rests on a refresh at the start of a source only ever lowering its      *)
(* level to none.                                                          *)
(* With a list sorted whenever levels change the walk may also pass a      *)
(* source over; without a refresh during the walk it does not              *)
(* (ActiveOrAhead).                                                        *)
(*                                                                         *)
(* LocatorThresholds: the sources work at the rate of the clients that are *)
(* there, and the module does to the sources what LocatorSources does, so  *)
(* that all that is proved of that holds here.  A rate is the least value  *)
(* of a table whose owners come and go.  What makes it right is that the   *)
(* table, but for what is about to be dropped, is the inverse of the       *)
(* locators' addresses (TableOfLiving): each value in it is of one living  *)
(* locator, each living locator that is not lost has one.                  *)
(*                                                                         *)
(* LocatorFilter: the invariant ties the lock to the location that set it  *)
(* and to the current one, and its end to a location that came the whole   *)
(* age later (EndedByAge); everything else follows from it.                *)
(***************************************************************************)
EXTENDS LocatorThresholds, LocatorFilter, FiniteSetTheorems, TLAPS

----------------------------------------------------------------------------
(* The sources.                                                             *)

Types ==
    /\ level \in [Sources -> NONE .. EXACT]
    /\ actual \in [Sources -> NONE .. EXACT]
    /\ uses \in [Sources -> Nat]
    /\ started \subseteq Locators
    /\ order \in [Locators -> SUBSET (Sources \X Sources)]
    /\ active \in [Locators -> SUBSET Sources]
    /\ walk.locator \in Locators \cup {NULL}
    /\ walk.node \in Sources \cup {NULL}

(* Only a lost network goes unannounced. *)
LevelsKnown == \A s \in Sources : actual[s] \in {level[s], NONE}

IdleHasNone == \A l \in Locators \ started : active[l] = {}

StrictOrder(list) ==
    /\ \A a, b \in Sources : <<a, b>> \in list => <<b, a>> \notin list
    /\ \A a, b, c \in Sources :
          <<a, b>> \in list /\ <<b, c>> \in list => <<a, c>> \in list

ListsOrdered == \A l \in started : StrictOrder(order[l])

(* The node of the walk and all nodes after it have not been started. *)
Unvisited ==
    walk.node \in Sources =>
       /\ walk.locator \in started
       /\ \A t \in Sources :
             t = walk.node \/ <<walk.node, t>> \in order[walk.locator]
                => t \notin active[walk.locator]

SourcesInv ==
    /\ Types
    /\ LevelsKnown
    /\ IdleHasNone
    /\ ListsOrdered
    /\ Unvisited
    /\ UsesBalanced
    /\ OnlyEligibleActive

----------------------------------------------------------------------------
(* Sorting keeps a strict order strict, whatever the levels.                *)
LEMMA SortedStrict ==
    ASSUME NEW list, StrictOrder(list), NEW lv \in [Sources -> NONE .. EXACT]
    PROVE  /\ StrictOrder(Sorted(list, lv))
           /\ Sorted(list, lv) \subseteq Sources \X Sources
<1>1. \A a, b \in Sources : <<a, b>> \in Sorted(list, lv)
         <=> lv[a] > lv[b] \/ (lv[a] = lv[b] /\ <<a, b>> \in list)
  BY DEF Sorted
<1>2. \A a \in Sources : lv[a] \in Int
  BY DEF NONE, EXACT
<1>3. ASSUME NEW a \in Sources, NEW b \in Sources,
             <<a, b>> \in Sorted(list, lv)
      PROVE  <<b, a>> \notin Sorted(list, lv)
  <2>1. lv[a] \in Int /\ lv[b] \in Int
    BY <1>2
  <2>2. CASE lv[a] > lv[b]
    BY <1>1, <2>1, <2>2
  <2>3. CASE lv[a] = lv[b] /\ <<a, b>> \in list
    BY <1>1, <2>1, <2>3 DEF StrictOrder
  <2>. QED  BY <1>1, <1>3, <2>2, <2>3
<1>4. ASSUME NEW a \in Sources, NEW b \in Sources, NEW c \in Sources,
             <<a, b>> \in Sorted(list, lv), <<b, c>> \in Sorted(list, lv)
      PROVE  <<a, c>> \in Sorted(list, lv)
  <2>1. lv[a] \in Int /\ lv[b] \in Int /\ lv[c] \in Int
    BY <1>2
  <2>2. CASE lv[a] > lv[c]
    BY <1>1, <2>2
  <2>3. CASE lv[a] <= lv[c]
    <3>1. lv[a] = lv[b] /\ lv[b] = lv[c]
      BY <1>1, <1>4, <2>1, <2>3
    <3>2. <<a, b>> \in list /\ <<b, c>> \in list
      BY <1>1, <1>4, <2>1, <3>1
    <3>. QED  BY <1>1, <3>1, <3>2 DEF StrictOrder
  <2>. QED  BY <2>1, <2>2, <2>3
<1>5. Sorted(list, lv) \subseteq Sources \X Sources
  BY DEF Sorted
<1>. QED  BY <1>3, <1>4, <1>5 DEF StrictOrder

LEMMA UsersFinite ==
    ASSUME NEW act, NEW s
    PROVE  /\ IsFiniteSet(Users(act, s))
           /\ Cardinality(Users(act, s)) \in Nat
  BY FS_Subset, FS_CardinalityType, SourcesAssumption DEF Users

(* The handlers of all locators keep balanced counts balanced, and leave    *)
(* the source that announced its level only with those that may have it.    *)
LEMMA AnnounceBalanced ==
    ASSUME NEW s \in Sources, NEW lvl \in NONE .. EXACT,
           NEW act \in [Locators -> SUBSET Sources],
           NEW use \in [Sources -> Nat],
           started \subseteq Locators,
           \A l \in Locators \ started : act[l] = {},
           \A r \in Sources : use[r] = Cardinality(Users(act, r)),
           Announce(s, lvl, act, use)
    PROVE  /\ active' \in [Locators -> SUBSET Sources]
           /\ uses' \in [Sources -> Nat]
           /\ \A r \in Sources : uses'[r] = Cardinality(Users(active', r))
           /\ \A l \in Locators : active'[l] \ {s} = act[l] \ {s}
           /\ \A l \in Locators : s \in active'[l] => l \in started /\ Eligible(l, lvl)
<1>. DEFINE joins == {l \in started : s \in active'[l] \ act[l]}
            leaves == {l \in started : s \in act[l] \ active'[l]}
<1>1. active' \in [Locators -> SUBSET Sources]
  BY DEF Announce, ActiveAfter
<1>2. \A l \in Locators : active'[l] \ {s} = act[l] \ {s}
  BY DEF Announce, ActiveAfter
<1>3. \A l \in Locators : s \in active'[l] => l \in started /\ Eligible(l, lvl)
  BY DEF Announce, ActiveAfter
<1>4. \A r \in Sources \ {s} : Users(active', r) = Users(act, r)
  <2>1. ASSUME NEW r \in Sources \ {s}, NEW l \in Locators
        PROVE  r \in active'[l] <=> r \in act[l]
    BY <1>2
  <2>. QED  BY <2>1 DEF Users
<1>5. Users(active', s) = (Users(act, s) \ leaves) \cup joins
  <2>1. \A l \in Locators \ started : active'[l] = act[l]
    BY DEF Announce
  <2>. QED  BY <2>1 DEF Users
<1>6. /\ leaves \subseteq Users(act, s)
      /\ joins \cap (Users(act, s) \ leaves) = {}
  BY DEF Users
<1>7. /\ IsFiniteSet(Users(act, s)) /\ IsFiniteSet(leaves) /\ IsFiniteSet(joins)
      /\ IsFiniteSet(Users(act, s) \ leaves)
  BY FS_Subset, SourcesAssumption, UsersFinite, <1>6
<1>8. Cardinality(Users(act, s) \ leaves)
        = Cardinality(Users(act, s)) - Cardinality(leaves)
  <2>1. Users(act, s) \cap leaves = leaves
    BY <1>6
  <2>2. Cardinality(Users(act, s) \ leaves)
          = Cardinality(Users(act, s)) - Cardinality(Users(act, s) \cap leaves)
    <3>. HIDE DEF leaves
    <3>. QED  BY <1>7, FS_Difference
  <2>. QED  BY <2>1, <2>2
<1>9. Cardinality(Users(active', s))
        = Cardinality(Users(act, s) \ leaves) + Cardinality(joins)
  <2>1. Cardinality((Users(act, s) \ leaves) \cap joins) = 0
    BY <1>6, FS_EmptySet
  <2>2. Cardinality((Users(act, s) \ leaves) \cup joins)
          = Cardinality(Users(act, s) \ leaves) + Cardinality(joins)
            - Cardinality((Users(act, s) \ leaves) \cap joins)
    BY <1>7, FS_Union
  <2>3. Cardinality(Users(act, s) \ leaves) \in Nat /\ Cardinality(joins) \in Nat
    BY <1>7, FS_CardinalityType
  <2>. QED  BY <1>5, <2>1, <2>2, <2>3
<1>10. uses'[s] = use[s] + Cardinality(joins) - Cardinality(leaves)
  BY DEF Announce
<1>11. uses'[s] = Cardinality(Users(active', s))
  <2>1. /\ Cardinality(Users(act, s)) \in Nat
        /\ Cardinality(leaves) \in Nat /\ Cardinality(joins) \in Nat
    BY <1>7, FS_CardinalityType
  <2>2. use[s] = Cardinality(Users(act, s))
    OBVIOUS
  <2>. QED  BY <1>8, <1>9, <1>10, <2>1, <2>2
<1>12. \A r \in Sources \ {s} : uses'[r] = use[r]
  BY DEF Announce
<1>13. \A r \in Sources : uses'[r] = Cardinality(Users(active', r))
  BY <1>4, <1>11, <1>12
<1>14. uses' \in [Sources -> Nat]
  <2>1. DOMAIN uses' = Sources /\ uses' = [r \in Sources |-> uses'[r]]
    BY DEF Announce
  <2>2. \A r \in Sources : uses'[r] \in Nat
    BY <1>13, UsersFinite
  <2>. QED  BY <2>1, <2>2
<1>. QED  BY <1>1, <1>2, <1>3, <1>13, <1>14

LEMMA SourcesInit == Init => SourcesInv
<1>. SUFFICES ASSUME Init PROVE SourcesInv
  OBVIOUS
<1>1. Types
  BY DEF Init, Types, NoWalk
<1>2. \A s \in Sources : Users(active, s) = {}
  BY DEF Init, Users
<1>3. UsesBalanced
  BY <1>2, FS_EmptySet DEF Init, UsesBalanced
<1>4. Unvisited
  BY SourcesAssumption DEF Init, NoWalk, Unvisited
<1>. QED  BY <1>1, <1>3, <1>4
             DEF Init, SourcesInv, LevelsKnown, IdleHasNone, ListsOrdered,
                 OnlyEligibleActive

(* A new locator has no active source yet, so its walk may begin anywhere.  *)
LEMMA StartKeeps ==
    ASSUME SourcesInv, NEW l \in Locators, Start(l)
    PROVE  SourcesInv'
<1>1. StrictOrder(Sorted(ConfigOrder, level))
      /\ Sorted(ConfigOrder, level) \subseteq Sources \X Sources
  <2>1. StrictOrder(ConfigOrder)
    BY SourcesAssumption DEF TotalOrder, StrictOrder
  <2>. QED  BY <2>1, SortedStrict DEF SourcesInv, Types
<1>2. active[l] = {}
  BY DEF Start, SourcesInv, IdleHasNone
<1>3. walk'.locator = l /\ walk'.node \in Sources
  BY DEF Start
<1>4. Types'
  BY <1>1, <1>3 DEF Start, SourcesInv, Types
<1>5. ListsOrdered'
  BY <1>1 DEF Start, SourcesInv, Types, ListsOrdered
<1>6. Unvisited'
  BY <1>2, <1>3 DEF Start, Unvisited
<1>7. UsesBalanced' /\ OnlyEligibleActive' /\ LevelsKnown' /\ IdleHasNone'
  BY DEF Start, SourcesInv, UsesBalanced, OnlyEligibleActive, Eligible,
         LevelsKnown, IdleHasNone, Users
<1>. QED  BY <1>4, <1>5, <1>6, <1>7 DEF SourcesInv

LEMMA WalkEndsKeeps ==
    ASSUME SourcesInv, WalkEnds
    PROVE  SourcesInv'
<1>1. walk'.locator = NULL /\ walk'.node = NULL
  BY DEF WalkEnds, NoWalk
<1>2. Types' /\ Unvisited'
  BY <1>1, SourcesAssumption DEF WalkEnds, SourcesInv, Types, Unvisited
<1>3. UsesBalanced' /\ OnlyEligibleActive' /\ LevelsKnown' /\ IdleHasNone'
      /\ ListsOrdered'
  BY DEF WalkEnds, SourcesInv, UsesBalanced, OnlyEligibleActive, Eligible,
         LevelsKnown, IdleHasNone, ListsOrdered, Users
<1>. QED  BY <1>2, <1>3 DEF SourcesInv

(* What comes after the next node came after the node before it.            *)
LEMMA WalkSkipsKeeps ==
    ASSUME SourcesInv, WalkSkips
    PROVE  SourcesInv'
<1>. DEFINE s == walk.node
            l == walk.locator
<1>1. PICK t \in Sources \cup {NULL} :
         IsNext(order[l], s, t) /\ walk' = [locator |-> l, node |-> t]
  BY DEF WalkSkips
<1>2. walk'.locator = l /\ walk'.node = t
  BY <1>1
<1>3. s \in Sources /\ l \in started /\ l \in Locators
  BY DEF WalkSkips, SourcesInv, Unvisited, Types
<1>4. Types'
  BY <1>2, <1>3 DEF WalkSkips, SourcesInv, Types
<1>5. Unvisited'
  <2>1. SUFFICES ASSUME t \in Sources
                 PROVE  \A u \in Sources : u = t \/ <<t, u>> \in order[l]
                           => u \notin active[l]
    BY <1>2, <1>3 DEF WalkSkips, Unvisited
  <2>2. <<s, t>> \in order[l]
    BY <1>1, <2>1, SourcesAssumption DEF IsNext
  <2>3. \A u \in Sources : u = t \/ <<t, u>> \in order[l] => <<s, u>> \in order[l]
    BY <1>3, <2>1, <2>2 DEF SourcesInv, ListsOrdered, StrictOrder
  <2>. QED  BY <1>3, <2>3 DEF SourcesInv, Unvisited
<1>6. UsesBalanced' /\ OnlyEligibleActive' /\ LevelsKnown' /\ IdleHasNone'
      /\ ListsOrdered'
  BY DEF WalkSkips, SourcesInv, UsesBalanced, OnlyEligibleActive, Eligible,
         LevelsKnown, IdleHasNone, ListsOrdered, Users
<1>. QED  BY <1>4, <1>5, <1>6 DEF SourcesInv

LEMMA FinalizeKeeps ==
    ASSUME SourcesInv, NEW l \in Locators, Finalize(l)
    PROVE  SourcesInv'
<1>1. \A s \in Sources : Users(active', s) = Users(active, s) \ {l}
  BY DEF Finalize, Users, SourcesInv, Types
<1>2. \A s \in Sources : l \in Users(active, s) <=> s \in active[l]
  BY DEF Users
<1>3. ASSUME NEW s \in Sources
      PROVE  uses'[s] = Cardinality(Users(active', s))
  <2>1. Cardinality(Users(active, s) \ {l}) =
           IF l \in Users(active, s) THEN Cardinality(Users(active, s)) - 1
           ELSE Cardinality(Users(active, s))
    BY UsersFinite, FS_RemoveElement
  <2>2. uses[s] = Cardinality(Users(active, s))
    BY DEF SourcesInv, UsesBalanced
  <2>3. uses'[s] = IF s \in active[l] THEN uses[s] - 1 ELSE uses[s]
    BY DEF Finalize
  <2>. QED  BY <1>1, <1>2, <2>1, <2>2, <2>3
<1>4. uses' \in [Sources -> Nat]
  <2>1. \A s \in Sources : uses'[s] \in Nat
    BY <1>3, UsersFinite
  <2>2. uses' = [s \in Sources |-> uses'[s]]
    BY DEF Finalize
  <2>. QED  BY <2>1, <2>2
<1>5. Types'
  BY <1>4 DEF Finalize, SourcesInv, Types
<1>6. Unvisited'
  BY SourcesAssumption DEF Finalize, NoWalk, Unvisited
<1>7. OnlyEligibleActive' /\ LevelsKnown' /\ IdleHasNone' /\ ListsOrdered'
  BY DEF Finalize, SourcesInv, Types, OnlyEligibleActive, Eligible,
         LevelsKnown, IdleHasNone, ListsOrdered
<1>. QED  BY <1>3, <1>5, <1>6, <1>7 DEF SourcesInv, UsesBalanced

LEMMA NetworkLostKeeps ==
    ASSUME SourcesInv, NetworkLost
    PROVE  SourcesInv'
<1>1. Types' /\ LevelsKnown'
  BY DEF NetworkLost, SourcesInv, Types, LevelsKnown, NONE, EXACT
<1>2. UsesBalanced' /\ OnlyEligibleActive' /\ IdleHasNone' /\ ListsOrdered'
      /\ Unvisited'
  BY DEF NetworkLost, SourcesInv, UsesBalanced, OnlyEligibleActive, Eligible,
         IdleHasNone, ListsOrdered, Unvisited, Users
<1>. QED  BY <1>1, <1>2 DEF SourcesInv

(* One more user: the walk starts its node for its locator.                 *)
LEMMA NodeBalanced ==
    ASSUME SourcesInv, walk.node \in Sources,
           NEW act, act = [active EXCEPT ![walk.locator] = @ \cup {walk.node}],
           NEW use, use = [uses EXCEPT ![walk.node] = @ + 1]
    PROVE  /\ walk.locator \in started
           /\ walk.locator \in Locators
           /\ walk.node \notin active[walk.locator]
           /\ act \in [Locators -> SUBSET Sources]
           /\ use \in [Sources -> Nat]
           /\ \A l \in Locators \ started : act[l] = {}
           /\ \A r \in Sources : use[r] = Cardinality(Users(act, r))
<1>. DEFINE s == walk.node
            l == walk.locator
<1>1. l \in started /\ l \in Locators /\ s \notin active[l]
  BY DEF SourcesInv, Unvisited, Types
<1>2. act \in [Locators -> SUBSET Sources] /\ use \in [Sources -> Nat]
  BY <1>1 DEF SourcesInv, Types
<1>3. \A k \in Locators \ started : act[k] = {}
  BY <1>1 DEF SourcesInv, IdleHasNone, Types
<1>4. /\ Users(act, s) = Users(active, s) \cup {l}
      /\ l \notin Users(active, s)
  BY <1>1 DEF Users, SourcesInv, Types
<1>5. \A r \in Sources \ {s} : Users(act, r) = Users(active, r)
  BY <1>1 DEF Users, SourcesInv, Types
<1>6. Cardinality(Users(act, s)) = Cardinality(Users(active, s)) + 1
  BY <1>4, UsersFinite, FS_AddElement
<1>7. ASSUME NEW r \in Sources
      PROVE  use[r] = Cardinality(Users(act, r))
  <2>1. uses[r] = Cardinality(Users(active, r))
    BY DEF SourcesInv, UsesBalanced
  <2>2. CASE r = s
    BY <1>6, <2>1, <2>2 DEF SourcesInv, Types
  <2>3. CASE r # s
    BY <1>5, <2>1, <2>3 DEF SourcesInv, Types
  <2>. QED  BY <2>2, <2>3
<1>. QED  BY <1>1, <1>2, <1>3, <1>7

(* The node is started.  If its level is announced meanwhile, it has become *)
(* NONE: the node goes to the back of the list, only sources that came      *)
(* after it before can come after it now, and nobody keeps it.              *)
LEMMA WalkStartsKeeps ==
    ASSUME SourcesInv, WalkStarts
    PROVE  SourcesInv'
<1>. DEFINE s == walk.node
            l == walk.locator
            act == [active EXCEPT ![l] = @ \cup {s}]
            use == [uses EXCEPT ![s] = @ + 1]
<1>1. PICK t \in Sources \cup {NULL} :
         IsNext(order'[l], s, t) /\ walk' = [locator |-> l, node |-> t]
  BY DEF WalkStarts
<1>2. walk'.locator = l /\ walk'.node = t
  BY <1>1
<1>3. /\ s \in Sources /\ Eligible(l, level[s])
      /\ actual' = actual /\ started' = started
  BY DEF WalkStarts
<1>4. /\ l \in started /\ l \in Locators /\ s \notin active[l]
      /\ act \in [Locators -> SUBSET Sources]
      /\ use \in [Sources -> Nat]
      /\ \A k \in Locators \ started : act[k] = {}
      /\ \A r \in Sources : use[r] = Cardinality(Users(act, r))
  BY <1>3, NodeBalanced
<1>5. \A u \in Sources : u = s \/ <<s, u>> \in order[l] => u \notin active[l]
  BY <1>3 DEF SourcesInv, Unvisited
<1>6. CASE active' = act /\ uses' = use /\ UNCHANGED <<level, order>>
  <2>1. Types' /\ LevelsKnown' /\ IdleHasNone' /\ ListsOrdered' /\ UsesBalanced'
    BY <1>2, <1>3, <1>4, <1>6
       DEF SourcesInv, Types, LevelsKnown, IdleHasNone, ListsOrdered, UsesBalanced
  <2>2. Unvisited'
    <3>1. SUFFICES ASSUME t \in Sources, NEW u \in Sources,
                          u = t \/ <<t, u>> \in order[l]
                   PROVE  u \notin active'[l]
      BY <1>2, <1>3, <1>4, <1>6 DEF Unvisited
    <3>2. <<s, t>> \in order[l]
      BY <1>1, <1>6, <3>1, SourcesAssumption DEF IsNext
    <3>3. <<s, u>> \in order[l] /\ u # s
      BY <1>3, <1>4, <3>1, <3>2 DEF SourcesInv, ListsOrdered, StrictOrder
    <3>. QED  BY <1>4, <1>5, <1>6, <3>3 DEF SourcesInv, Types
  <2>3. OnlyEligibleActive'
    BY <1>3, <1>4, <1>6 DEF SourcesInv, Types, OnlyEligibleActive, Eligible
  <2>. QED  BY <2>1, <2>2, <2>3 DEF SourcesInv
<1>7. CASE Announce(s, actual[s], act, use) /\ actual[s] # level[s]
  <2>1. actual[s] = NONE /\ actual[s] \in NONE .. EXACT
    BY <1>3, <1>7 DEF SourcesInv, LevelsKnown, Types
  <2>2. /\ active' \in [Locators -> SUBSET Sources]
        /\ uses' \in [Sources -> Nat]
        /\ \A r \in Sources : uses'[r] = Cardinality(Users(active', r))
        /\ \A k \in Locators : active'[k] \ {s} = act[k] \ {s}
        /\ \A k \in Locators : s \in active'[k] => Eligible(k, actual[s])
    <3>1. started \subseteq Locators
      BY DEF SourcesInv, Types
    <3>. HIDE DEF act, use
    <3>. QED  BY <1>3, <1>4, <1>7, <2>1, <3>1, AnnounceBalanced
  <2>3. \A k \in Locators : s \notin active'[k]
    BY <2>1, <2>2 DEF Eligible
  <2>4. \A k \in Locators : active'[k] \subseteq active[k]
    BY <1>4, <2>2, <2>3 DEF SourcesInv, Types
  <2>5. level' = [level EXCEPT ![s] = NONE] /\ level' \in [Sources -> NONE .. EXACT]
    BY <1>7, <2>1 DEF Announce, SourcesInv, Types
  <2>6. \A k \in started : /\ StrictOrder(order'[k])
                           /\ order'[k] \subseteq Sources \X Sources
    BY <1>7, <2>5, SortedStrict DEF Announce, SourcesInv, Types, ListsOrdered
  <2>7. order' \in [Locators -> SUBSET (Sources \X Sources)]
    BY <1>7, <2>6 DEF Announce, SourcesInv, Types
  <2>8. Types'
    BY <1>2, <1>3, <1>4, <2>2, <2>5, <2>7 DEF SourcesInv, Types
  <2>9. LevelsKnown'
    BY <1>3, <2>1, <2>5 DEF SourcesInv, Types, LevelsKnown
  <2>10. IdleHasNone' /\ ListsOrdered' /\ UsesBalanced'
    BY <1>3, <2>2, <2>4, <2>6
       DEF SourcesInv, IdleHasNone, ListsOrdered, UsesBalanced
  <2>11. \A u \in Sources : <<s, u>> \in order'[l] => <<s, u>> \in order[l]
    <3>1. ASSUME NEW u \in Sources
          PROVE  ~(level'[s] > level'[u])
      BY <1>3, <2>5 DEF SourcesInv, Types, NONE, EXACT
    <3>2. order'[l] = Sorted(order[l], level')
      BY <1>4, <1>7 DEF Announce
    <3>. QED  BY <3>1, <3>2 DEF Sorted
  <2>12. Unvisited'
    <3>1. SUFFICES ASSUME t \in Sources, NEW u \in Sources,
                          u = t \/ <<t, u>> \in order'[l]
                   PROVE  u \notin active'[l]
      BY <1>2, <1>3, <1>4 DEF Unvisited
    <3>2. <<s, t>> \in order'[l]
      BY <1>1, <3>1, SourcesAssumption DEF IsNext
    <3>3. <<s, u>> \in order[l]
      BY <1>3, <1>4, <2>6, <2>11, <3>1, <3>2 DEF StrictOrder
    <3>. QED  BY <1>4, <1>5, <2>4, <3>3
  <2>13. OnlyEligibleActive'
    <3>1. SUFFICES ASSUME NEW k \in Locators, NEW r \in active'[k]
                   PROVE  Eligible(k, level'[r])
      BY DEF OnlyEligibleActive, Eligible
    <3>2. r # s /\ r \in active[k] /\ r \in Sources
      BY <2>2, <2>3, <2>4
    <3>3. level'[r] = level[r]
      BY <2>5, <3>2 DEF SourcesInv, Types
    <3>. QED  BY <3>2, <3>3 DEF SourcesInv, OnlyEligibleActive
  <2>. QED  BY <2>8, <2>9, <2>10, <2>12, <2>13 DEF SourcesInv
<1>. QED  BY <1>6, <1>7 DEF WalkStarts

(* Outside a walk a level may change to anything.                           *)
LEMMA LevelChangesKeeps ==
    ASSUME SourcesInv, NEW s \in Sources, NEW lvl \in NONE .. EXACT,
           LevelChanges(s, lvl)
    PROVE  SourcesInv'
<1>1. /\ walk' = walk /\ walk.node = NULL /\ started' = started
      /\ actual' = [actual EXCEPT ![s] = lvl]
      /\ Announce(s, lvl, active, uses)
  BY DEF LevelChanges, NoWalk
<1>2. /\ active' \in [Locators -> SUBSET Sources]
      /\ uses' \in [Sources -> Nat]
      /\ \A r \in Sources : uses'[r] = Cardinality(Users(active', r))
      /\ \A k \in Locators : active'[k] \ {s} = active[k] \ {s}
      /\ \A k \in Locators : s \in active'[k] => k \in started /\ Eligible(k, lvl)
  BY <1>1, AnnounceBalanced
     DEF SourcesInv, Types, IdleHasNone, UsesBalanced
<1>3. level' = [level EXCEPT ![s] = lvl] /\ level' \in [Sources -> NONE .. EXACT]
  BY <1>1 DEF Announce, SourcesInv, Types
<1>4. \A k \in started : /\ StrictOrder(order'[k])
                         /\ order'[k] \subseteq Sources \X Sources
  BY <1>1, <1>3, SortedStrict DEF Announce, SourcesInv, Types, ListsOrdered
<1>5. order' \in [Locators -> SUBSET (Sources \X Sources)]
  BY <1>1, <1>4 DEF Announce, SourcesInv, Types
<1>6. Types' /\ LevelsKnown'
  BY <1>1, <1>2, <1>3, <1>5 DEF SourcesInv, Types, LevelsKnown
<1>7. IdleHasNone'
  BY <1>1 DEF Announce, SourcesInv, IdleHasNone, Types
<1>8. ListsOrdered' /\ UsesBalanced'
  BY <1>1, <1>2, <1>4 DEF ListsOrdered, UsesBalanced
<1>9. Unvisited'
  BY <1>1, SourcesAssumption DEF Unvisited
<1>10. OnlyEligibleActive'
  <2>1. SUFFICES ASSUME NEW k \in Locators, NEW r \in active'[k]
                 PROVE  Eligible(k, level'[r])
    BY DEF OnlyEligibleActive, Eligible
  <2>2. CASE r = s
    BY <1>2, <1>3, <2>2 DEF SourcesInv, Types
  <2>3. CASE r # s
    <3>1. r \in active[k] /\ r \in Sources
      BY <1>2, <2>3
    <3>2. level'[r] = level[r]
      BY <1>3, <2>3, <3>1 DEF SourcesInv, Types
    <3>. QED  BY <3>1, <3>2 DEF SourcesInv, OnlyEligibleActive
  <2>. QED  BY <2>2, <2>3
<1>. QED  BY <1>2, <1>6, <1>7, <1>8, <1>9, <1>10 DEF SourcesInv

LEMMA StutterKeeps ==
    ASSUME SourcesInv, UNCHANGED vars
    PROVE  SourcesInv'
  BY DEF vars, SourcesInv, Types, LevelsKnown, IdleHasNone, ListsOrdered,
         Unvisited, UsesBalanced, OnlyEligibleActive, Eligible, Users

LEMMA SourcesInvariant == Spec => []SourcesInv
<1>1. SourcesInv /\ [Next]_vars => SourcesInv'
  <2>1. SUFFICES ASSUME SourcesInv, [Next]_vars
                 PROVE  SourcesInv'
    OBVIOUS
  <2>2. ASSUME NEW s \in Sources, NEW lvl \in SourceLevels[s], LevelChanges(s, lvl)
        PROVE  SourcesInv'
    <3>1. lvl \in NONE .. EXACT
      BY SourcesAssumption
    <3>. QED  BY <2>1, <2>2, <3>1, LevelChangesKeeps
  <2>. QED  BY <2>1, <2>2, StartKeeps, FinalizeKeeps, WalkSkipsKeeps,
               WalkStartsKeeps, WalkEndsKeeps, NetworkLostKeeps, StutterKeeps
            DEF Next
<1>. QED  BY <1>1, SourcesInit, PTL DEF Spec

(* No order of starts, level changes in or out of a walk, and finalized     *)
(* locators makes a use count differ from the number of locators that use   *)
(* the source (active_counter of gclue-location-source.c).                  *)
THEOREM UsesAlwaysBalanced == Spec => []UsesBalanced
<1>1. SourcesInv => UsesBalanced
  BY DEF SourcesInv
<1>. QED  BY <1>1, SourcesInvariant, PTL

(* A locator never has a source it is not allowed, or that has no level,    *)
(* among its active_sources.                                                *)
THEOREM OnlyEligibleAlways == Spec => []OnlyEligibleActive
<1>1. SourcesInv => OnlyEligibleActive
  BY DEF SourcesInv
<1>. QED  BY <1>1, SourcesInvariant, PTL

----------------------------------------------------------------------------
(* The lists and the walk.                                                  *)

RankedBy(list, lv) ==
    /\ TotalOrder(list)
    /\ \A a, b \in Sources : <<a, b>> \in list => lv[a] >= lv[b]

(* Sorting loses no source and ranks those that are there.                  *)
LEMMA SortedRanked ==
    ASSUME NEW list, TotalOrder(list), NEW lv \in [Sources -> NONE .. EXACT]
    PROVE  RankedBy(Sorted(list, lv), lv)
<1>1. StrictOrder(Sorted(list, lv))
  BY SortedStrict DEF TotalOrder, StrictOrder
<1>2. \A a \in Sources : lv[a] \in Int
  BY DEF NONE, EXACT
<1>3. ASSUME NEW a \in Sources, NEW b \in Sources, a # b
      PROVE  <<a, b>> \in Sorted(list, lv) \/ <<b, a>> \in Sorted(list, lv)
  <2>1. lv[a] > lv[b] \/ lv[b] > lv[a] \/ lv[a] = lv[b]
    BY <1>2
  <2>2. <<a, b>> \in list \/ <<b, a>> \in list
    BY <1>3 DEF TotalOrder
  <2>. QED  BY <2>1, <2>2 DEF Sorted
<1>4. ASSUME NEW a \in Sources, NEW b \in Sources, <<a, b>> \in Sorted(list, lv)
      PROVE  lv[a] >= lv[b]
  BY <1>2, <1>4 DEF Sorted
<1>. QED  BY <1>1, <1>3, <1>4 DEF RankedBy, TotalOrder, StrictOrder

LEMMA AnnounceRanks ==
    ASSUME Types, ListRanked, NEW s \in Sources, NEW lvl \in NONE .. EXACT,
           NEW act, NEW use, Announce(s, lvl, act, use)
    PROVE  \A l \in started : RankedBy(order'[l], level')
<1>1. level' \in [Sources -> NONE .. EXACT]
  BY DEF Types, Announce
<1>2. ASSUME NEW l \in started
      PROVE  RankedBy(order'[l], level')
  <2>1. order'[l] = Sorted(order[l], level') /\ TotalOrder(order[l])
    BY DEF Types, Announce, ListRanked
  <2>. QED  BY <1>1, <2>1, SortedRanked
<1>. QED  BY <1>2

(* A started locator's list has every source once and the best first,       *)
(* whenever levels change: with each of them on_avail_accuracy_level_changed *)
(* sorts it again, under the walk of gclue_locator_start too.               *)
THEOREM ListsAlwaysRanked == Spec => []ListRanked
<1>1. Init => ListRanked
  BY DEF Init, ListRanked
<1>2. SourcesInv /\ ListRanked /\ [Next]_vars => ListRanked'
  <2>. SUFFICES ASSUME SourcesInv, ListRanked, [Next]_vars
                PROVE  \A l \in started' : RankedBy(order'[l], level')
    BY DEF ListRanked, RankedBy
  <2>1. Types
    BY DEF SourcesInv
  <2>2. CASE level' = level /\ order' = order /\ started' = started
    BY <2>2 DEF ListRanked, RankedBy
  <2>3. ASSUME NEW l \in Locators, Start(l)
        PROVE  \A k \in started' : RankedBy(order'[k], level')
    <3>1. RankedBy(Sorted(ConfigOrder, level), level)
      BY <2>1, SortedRanked, SourcesAssumption DEF Types
    <3>. QED  BY <2>1, <2>3, <3>1 DEF Start, Types, ListRanked, RankedBy
  <2>4. ASSUME NEW l \in Locators, Finalize(l)
        PROVE  \A k \in started' : RankedBy(order'[k], level')
    BY <2>1, <2>4 DEF Finalize, Types, ListRanked, RankedBy
  <2>5. CASE WalkStarts
    <3>1. CASE level' = level /\ order' = order
      BY <2>2, <2>5, <3>1 DEF WalkStarts
    <3>2. ASSUME NEW act, NEW use, walk.node \in Sources,
                 Announce(walk.node, actual[walk.node], act, use)
          PROVE  \A k \in started' : RankedBy(order'[k], level')
      BY <2>1, <2>5, <3>2, AnnounceRanks DEF WalkStarts, Types
    <3>. QED  BY <2>5, <3>1, <3>2 DEF WalkStarts
  <2>6. ASSUME NEW s \in Sources, NEW lvl \in SourceLevels[s], LevelChanges(s, lvl)
        PROVE  \A k \in started' : RankedBy(order'[k], level')
    <3>1. lvl \in NONE .. EXACT
      BY SourcesAssumption
    <3>. QED  BY <2>1, <2>6, <3>1, AnnounceRanks DEF LevelChanges
  <2>. QED  BY <2>2, <2>3, <2>4, <2>5, <2>6
            DEF Next, vars, WalkSkips, WalkEnds, NetworkLost
<1>. QED  BY <1>1, <1>2, SourcesInvariant, PTL DEF Spec

(* A source that a started locator may have is active for it, or is the     *)
(* node of its walk, or after it.                                           *)
ActiveOrAhead ==
    \A l \in started : \A s \in Sources :
       Eligible(l, level[s]) =>
          \/ s \in active[l]
          \/ /\ walk.locator = l
             /\ walk.node = s \/ (walk.node \in Sources /\ <<walk.node, s>> \in order[l])

LEMMA IdleWalk ==
    ASSUME Types, ActiveOrAhead, walk = NoWalk, NEW l \in started, NEW s \in Sources,
           Eligible(l, level[s])
    PROVE  s \in active[l]
<1>1. walk.locator = NULL
  BY DEF NoWalk
<1>2. walk.locator # l
  BY <1>1, SourcesAssumption DEF Types
<1>. QED  BY <1>2 DEF ActiveOrAhead

(* Where no source announces a level while it is being started, so that     *)
(* nothing sorts the list under gclue_locator_start, a started locator has  *)
(* every source that it may have, however levels change between the walks.  *)
THEOREM AllEligibleWithoutRefresh ==
    ASSUME RefreshedByStart = {}
    PROVE  Spec => []EveryEligibleActive
<1>1. Init => ActiveOrAhead
  BY DEF Init, ActiveOrAhead
<1>2. SourcesInv /\ ActiveOrAhead /\ [Next]_vars => ActiveOrAhead'
  <2>. SUFFICES ASSUME SourcesInv, ActiveOrAhead, [Next]_vars
                PROVE  ActiveOrAhead'
    OBVIOUS
  <2>1. Types
    BY DEF SourcesInv
  <2>2. walk = NoWalk => \A l \in started, s \in Sources :
                             Eligible(l, level[s]) => s \in active[l]
    BY <2>1, IdleWalk
  <2>3. ASSUME NEW t \in Sources \cup {NULL}, NEW s \in Sources,
               IsNext(order[walk.locator], walk.node, t),
               <<walk.node, s>> \in order[walk.locator]
        PROVE  t = s \/ (t \in Sources /\ <<t, s>> \in order[walk.locator])
    BY <2>3 DEF IsNext
  <2>4. ASSUME NEW l \in Locators, Start(l) PROVE ActiveOrAhead'
    <3>1. \A s \in Sources :
             /\ walk'.locator = l
             /\ walk'.node = s \/ (walk'.node \in Sources /\ <<walk'.node, s>> \in order'[l])
      BY <2>4 DEF Start, IsHead
    <3>. QED  BY <2>1, <2>2, <2>4, <3>1 DEF Start, ActiveOrAhead, Eligible, Types
  <2>5. ASSUME NEW l \in Locators, Finalize(l) PROVE ActiveOrAhead'
    BY <2>1, <2>2, <2>5 DEF Finalize, ActiveOrAhead, Eligible, Types
  <2>6. CASE WalkSkips
    <3>1. PICK t \in Sources \cup {NULL} :
             /\ IsNext(order[walk.locator], walk.node, t)
             /\ walk' = [locator |-> walk.locator, node |-> t]
      BY <2>6 DEF WalkSkips
    <3>2. UNCHANGED <<level, started, order, active>>
          /\ ~Eligible(walk.locator, level[walk.node])
      BY <2>6 DEF WalkSkips
    <3>. QED  BY <2>3, <3>1, <3>2 DEF ActiveOrAhead, Eligible
  <2>7. CASE WalkStarts
    <3>1. PICK t \in Sources \cup {NULL} :
             /\ IsNext(order'[walk.locator], walk.node, t)
             /\ walk' = [locator |-> walk.locator, node |-> t]
      BY <2>7 DEF WalkStarts
    <3>2. UNCHANGED <<level, started, order>>
          /\ active' = [active EXCEPT ![walk.locator] = @ \cup {walk.node}]
      BY <2>7 DEF WalkStarts
    <3>. QED  BY <2>1, <2>3, <3>1, <3>2 DEF ActiveOrAhead, Eligible, Types
  <2>8. CASE WalkEnds
    BY <2>8, SourcesAssumption DEF WalkEnds, ActiveOrAhead, Eligible
  <2>9. ASSUME NEW s \in Sources, NEW lvl \in SourceLevels[s], LevelChanges(s, lvl)
        PROVE  ActiveOrAhead'
    <3>1. \A l \in started : active'[l] = ActiveAfter(l, s, lvl, active[l])
      BY <2>1, <2>9 DEF LevelChanges, Announce, Types
    <3>2. started' = started /\ level' = [level EXCEPT ![s] = lvl] /\ walk = NoWalk
      BY <2>9 DEF LevelChanges, Announce
    <3>3. \A l \in started, r \in Sources : Eligible(l, level'[r]) => r \in active'[l]
      BY <2>1, <2>2, <3>1, <3>2 DEF ActiveAfter, Eligible, Types
    <3>. QED  BY <3>2, <3>3 DEF ActiveOrAhead, Eligible
  <2>10. CASE NetworkLost
    BY <2>10 DEF NetworkLost, ActiveOrAhead, Eligible
  <2>11. CASE UNCHANGED vars
    BY <2>11 DEF vars, ActiveOrAhead, Eligible
  <2>. QED  BY <2>4, <2>5, <2>6, <2>7, <2>8, <2>9, <2>10, <2>11 DEF Next
<1>3. SourcesInv /\ ActiveOrAhead => EveryEligibleActive
  BY IdleWalk DEF SourcesInv, EveryEligibleActive
<1>. QED  BY <1>1, <1>2, <1>3, SourcesInvariant, PTL DEF Spec

----------------------------------------------------------------------------
(* The thresholds.                                                          *)

(* Each living locator has an address of its own.                           *)
OwnAddresses ==
    /\ started \subseteq Locators
    /\ lost \subseteq started
    /\ threshold \in [Locators -> Nat]
    /\ address \in [Locators -> Addresses \cup {NULL}]
    /\ \A l \in started : address[l] # NULL
    /\ \A k, l \in started : address[k] = address[l] => k = l

TableOfLiving ==
    /\ \A l \in started \ lost :
          address[l] \in DOMAIN values /\ values[address[l]] = threshold[l]
    /\ \A l \in lost : address[l] \notin DOMAIN values
    /\ \A a \in DOMAIN values :
          a \in leaving \/ \E l \in started \ lost : address[l] = a

RateIsLeast == rate = Least(Range(values))

ThresholdsInv == OwnAddresses /\ TableOfLiving /\ RateIsLeast

----------------------------------------------------------------------------
(* With nothing to drop, the values of the table are the thresholds of the  *)
(* living locators.                                                         *)
LEMMA InvGivesRate == ThresholdsInv => RateOfTheLiving
<1>. SUFFICES ASSUME ThresholdsInv, leaving = {}
             PROVE  rate = Least({threshold[l] : l \in started \ lost})
  BY DEF RateOfTheLiving
<1>. USE DEF ThresholdsInv, TableOfLiving
<1>1. Range(values) \subseteq {threshold[l] : l \in started \ lost}
  BY DEF Range
<1>2. {threshold[l] : l \in started \ lost} \subseteq Range(values)
  BY DEF Range
<1>3. Range(values) = {threshold[l] : l \in started \ lost}
  BY <1>1, <1>2
<1>. QED  BY <1>3 DEF RateIsLeast

LEMMA ThresholdsInvInit == ThresholdInit => ThresholdsInv
<1>. SUFFICES ASSUME ThresholdInit PROVE ThresholdsInv
  OBVIOUS
<1>1. DOMAIN values = {} /\ Range(values) = {}
  BY DEF ThresholdInit, Range
<1>2. started = {} /\ lost = {}
  BY DEF ThresholdInit, Init
<1>3. OwnAddresses
  BY <1>2 DEF OwnAddresses, ThresholdInit
<1>4. TableOfLiving
  BY <1>1, <1>2 DEF TableOfLiving
<1>5. RateIsLeast
  BY <1>1 DEF RateIsLeast, ThresholdInit, Least
<1>. QED  BY <1>3, <1>4, <1>5 DEF ThresholdsInv

(* A new locator takes an address that no living one has, and its value     *)
(* there replaces any that is still to be dropped.                          *)
LEMMA StartClientKeeps ==
    ASSUME ThresholdsInv, ThresholdsAssumption, NEW l \in Locators, StartClient(l)
    PROVE  ThresholdsInv'
<1>. USE DEF ThresholdsInv
<1>1. PICK a \in Addresses, v \in Thresholds :
         /\ a \notin {address[k] : k \in started}
         /\ address' = [address EXCEPT ![l] = a]
         /\ threshold' = [threshold EXCEPT ![l] = v]
         /\ AddValue(a, v)
  BY DEF StartClient
<1>2. started' = started \cup {l} /\ l \notin started
  BY DEF StartClient, Start
<1>3. leaving' = leaving /\ lost' = lost
  BY DEF StartClient
<1>4. DOMAIN values' = DOMAIN values \cup {a}
      /\ values'[a] = v
      /\ \A b \in DOMAIN values \ {a} : values'[b] = values[b]
  BY <1>1 DEF AddValue
<1>5. a # NULL /\ v \in Nat
  BY <1>1 DEF ThresholdsAssumption
<1>6. /\ address'[l] = a /\ threshold'[l] = v
      /\ \A k \in started : address'[k] = address[k] /\ threshold'[k] = threshold[k]
                            /\ address[k] # a
  BY <1>1, <1>2 DEF OwnAddresses
<1>7. OwnAddresses'
  BY <1>1, <1>2, <1>3, <1>5, <1>6 DEF OwnAddresses
<1>8. TableOfLiving'
  BY <1>2, <1>3, <1>4, <1>6 DEF TableOfLiving, OwnAddresses
<1>9. RateIsLeast'
  BY <1>1 DEF AddValue, RateIsLeast
<1>. QED  BY <1>7, <1>8, <1>9

(* A value that is written again brings a lost locator back to the table.   *)
LEMMA SetKeeps ==
    ASSUME ThresholdsInv, ThresholdsAssumption, NEW l \in Locators,
           NEW v \in Thresholds, SetTimeThreshold(l, v)
    PROVE  ThresholdsInv'
<1>. USE DEF ThresholdsInv
<1>1. /\ l \in started /\ started' = started /\ leaving' = leaving
      /\ address' = address /\ lost' = lost \ {l}
      /\ threshold' = [threshold EXCEPT ![l] = v]
  BY DEF SetTimeThreshold, vars
<1>2. AddValue(address[l], v)
  BY DEF SetTimeThreshold
<1>3. DOMAIN values' = DOMAIN values \cup {address[l]}
      /\ values'[address[l]] = v
      /\ \A b \in DOMAIN values \ {address[l]} : values'[b] = values[b]
  BY <1>2 DEF AddValue
<1>4. v \in Nat
  BY DEF ThresholdsAssumption
<1>5. threshold'[l] = v /\ \A k \in started \ {l} : threshold'[k] = threshold[k]
                           /\ address[k] # address[l]
  BY <1>1 DEF OwnAddresses
<1>6. OwnAddresses'
  BY <1>1, <1>4 DEF OwnAddresses
<1>7. TableOfLiving'
  BY <1>1, <1>3, <1>5 DEF TableOfLiving, OwnAddresses
<1>8. RateIsLeast'
  BY <1>2 DEF AddValue, RateIsLeast
<1>. QED  BY <1>6, <1>7, <1>8

(* The value of a locator that goes stays, as one to be dropped.            *)
LEMMA StopKeeps ==
    ASSUME ThresholdsInv, NEW l \in Locators, StopClient(l)
    PROVE  ThresholdsInv'
<1>. USE DEF ThresholdsInv
<1>1. /\ l \in started /\ started' = started \ {l} /\ lost' = lost \ {l}
      /\ leaving' = leaving \cup {address[l]} /\ values' = values /\ rate' = rate
      /\ address' = [address EXCEPT ![l] = NULL]
      /\ threshold' = [threshold EXCEPT ![l] = 0]
  BY DEF StopClient, Finalize
<1>2. \A k \in started' : address'[k] = address[k] /\ threshold'[k] = threshold[k]
  BY <1>1 DEF OwnAddresses
<1>3. OwnAddresses'
  BY <1>1, <1>2 DEF OwnAddresses
<1>4. TableOfLiving'
  BY <1>1, <1>2 DEF TableOfLiving, OwnAddresses
<1>5. RateIsLeast'
  BY <1>1 DEF RateIsLeast
<1>. QED  BY <1>3, <1>4, <1>5

(* The living locators that lose their value with a drop are those that are *)
(* lost.                                                                    *)
LEMMA DropsKeep ==
    ASSUME ThresholdsInv, Drops
    PROVE  ThresholdsInv'
<1>. USE DEF ThresholdsInv
<1>1. /\ started' = started /\ address' = address /\ threshold' = threshold
      /\ lost' = lost \cup {k \in started : address[k] \in leaving}
      /\ rate' = Least(Range(values'))
  BY DEF Drops, vars
<1>2. /\ DOMAIN values' = DOMAIN values \ leaving
      /\ \A a \in DOMAIN values' : values'[a] = values[a]
  BY DEF Drops, Restrict
<1>3. OwnAddresses'
  BY <1>1 DEF OwnAddresses
<1>4. TableOfLiving'
  BY <1>1, <1>2 DEF TableOfLiving, OwnAddresses
<1>5. RateIsLeast'
  BY <1>1 DEF RateIsLeast
<1>. QED  BY <1>3, <1>4, <1>5

LEMMA ElsewhereKeeps ==
    ASSUME ThresholdsInv, Elsewhere
    PROVE  ThresholdsInv'
<1>1. UNCHANGED thresholdVars
  BY DEF Elsewhere
<1>2. started' = started
  BY DEF Elsewhere, Walking, WalkSkips, WalkStarts, WalkEnds, LevelChanges,
         NetworkLost
<1>. QED  BY <1>1, <1>2 DEF thresholdVars, ThresholdsInv, OwnAddresses,
            TableOfLiving, RateIsLeast

LEMMA ThresholdsInvStep ==
    ASSUME ThresholdsInv, ThresholdsAssumption, [ThresholdNext]_allVars
    PROVE  ThresholdsInv'
<1>1. CASE \E l \in Locators : StartClient(l)
  BY <1>1, StartClientKeeps
<1>2. CASE \E l \in Locators : StopClient(l)
  BY <1>2, StopKeeps
<1>3. CASE \E l \in Locators : \E v \in Thresholds : SetTimeThreshold(l, v)
  BY <1>3, SetKeeps
<1>4. CASE Drops
  BY <1>4, DropsKeep
<1>5. CASE Elsewhere
  BY <1>5, ElsewhereKeeps
<1>6. CASE UNCHANGED allVars
  BY <1>6 DEF allVars, vars, thresholdVars, ThresholdsInv, OwnAddresses,
              TableOfLiving, RateIsLeast
<1>. QED  BY <1>1, <1>2, <1>3, <1>4, <1>5, <1>6 DEF ThresholdNext

(* Once the drops that are due are done, the sources work at the rate of    *)
(* the most demanding client that has a locator (add_value, the deferred    *)
(* drop and on_time_threshold_changed of gclue-min-uint.c and               *)
(* gclue-locator.c), but for those whose locator took a leaving one's place. *)
THEOREM RateAlwaysOfTheLiving == ThresholdSpec => []RateOfTheLiving
<1>1. ThresholdInit => ThresholdsInv
  BY ThresholdsInvInit
<1>2. ThresholdsInv /\ [ThresholdNext]_allVars => ThresholdsInv'
  BY ThresholdsInvStep, ThresholdsAssumption
<1>3. ThresholdsInv => RateOfTheLiving
  BY InvGivesRate
<1>. QED  BY <1>1, <1>2, <1>3, PTL DEF ThresholdSpec

(* Thresholds do not get in the way of the sources: every step is one of    *)
(* LocatorSources or leaves what that knows alone.                          *)
THEOREM ThresholdsKeepSources == ThresholdSpec => Spec
<1>1. ThresholdInit => Init
  BY DEF ThresholdInit
<1>2. [ThresholdNext]_allVars => [Next]_vars
  <2>. SUFFICES ASSUME [ThresholdNext]_allVars PROVE [Next]_vars
    OBVIOUS
  <2>1. CASE \E l \in Locators : StartClient(l)
    BY <2>1 DEF StartClient, Next
  <2>2. CASE \E l \in Locators : StopClient(l)
    BY <2>2 DEF StopClient, Next
  <2>3. CASE \E l \in Locators : \E v \in Thresholds : SetTimeThreshold(l, v)
    BY <2>3 DEF SetTimeThreshold
  <2>4. CASE Drops
    BY <2>4 DEF Drops
  <2>5. CASE Elsewhere
    BY <2>5 DEF Elsewhere, Walking, Next
  <2>6. CASE UNCHANGED allVars
    BY <2>6 DEF allVars
  <2>. QED  BY <2>1, <2>2, <2>3, <2>4, <2>5, <2>6 DEF ThresholdNext
<1>. QED  BY <1>1, <1>2, PTL DEF ThresholdSpec, Spec

(* With thresholds and rates, too, the use count of every source is the     *)
(* number of the locators that use it.                                      *)
THEOREM ThresholdsKeepUsesBalanced == ThresholdSpec => []UsesBalanced
  BY ThresholdsKeepSources, UsesAlwaysBalanced, PTL

----------------------------------------------------------------------------
(* The filter.                                                              *)

(* The lock stands for the last accurate priority location, and the current *)
(* location is at least as recent.                                          *)
LockIsLastFix ==
    lock => /\ cur # NoLocation
            /\ lastFix # NoLocation
            /\ lockTime = lastFix.time
            /\ lockTime <= cur.time

(* Without a lock the last fix, if there was one, is out of date.           *)
EndedByAge ==
    lastFix # NoLocation /\ ~lock => latest - lastFix.time >= MaxPriorityAge

FilterInv ==
    FilterTypeOK /\ LockIsLastFix /\ LockBlocksOnlyAfterFix /\ EndedByAge

(* What a known location is made of; timestamps and accuracies are natural. *)
LEMMA KnownLocation ==
    ASSUME NEW loc \in Locations, loc.accuracy # Unknown
    PROVE  loc \in KnownLocations /\ loc # NoLocation /\ loc.time \in Times
  BY FilterAssumption DEF Locations, KnownLocations

LEMMA KnownIsTimed ==
    ASSUME NEW loc \in KnownLocations
    PROVE  loc.time \in Nat /\ loc # NoLocation
<1>1. loc.time \in Times
  BY DEF KnownLocations
<1>2. loc \in Locations
  BY DEF KnownLocations, Locations
<1>. QED  BY <1>1, <1>2, FilterAssumption

(* A report leaves the types intact.                                        *)
LEMMA ReportTypes ==
    ASSUME FilterTypeOK, NEW loc \in Locations, Report(loc)
    PROVE  FilterTypeOK'
<1>1. CASE DiscardUnknown(loc)
  BY <1>1 DEF DiscardUnknown, Ignore, FilterTypeOK, Verdicts
<1>2. CASE TakeFirst(loc)
  <2>1. loc \in KnownLocations
    BY <1>2, KnownLocation DEF TakeFirst
  <2>. QED  BY <1>2, <2>1 DEF TakeFirst, Take, FilterTypeOK, Verdicts
<1>3. CASE IgnoreOlder(loc)
  BY <1>3 DEF IgnoreOlder, Ignore, FilterTypeOK, Verdicts
<1>4. CASE Consider(loc)
  <2>1. loc \in KnownLocations /\ loc.time \in Times
    BY <1>4, KnownLocation DEF Consider
  <2>2. lockTime' \in Times \cup {0}
    BY <1>4, <2>1 DEF Consider, FilterTypeOK
  <2>3. lock' \in BOOLEAN
    BY <1>4 DEF Consider, Locked, FilterTypeOK, UpdatesLock, IsPriority
  <2>4. /\ cur' \in KnownLocations \cup {NoLocation}
        /\ heard' \in Locations \cup {NoLocation}
        /\ verdict' \in Verdicts
    BY <1>4, <2>1 DEF Consider, Take, Ignore, FilterTypeOK, Verdicts
  <2>5. /\ lastFix' \in KnownLocations \cup {NoLocation}
        /\ latest' \in Times \cup {0}
    BY <1>4, <2>1 DEF Consider, FilterTypeOK
  <2>. QED  BY <2>2, <2>3, <2>4, <2>5 DEF FilterTypeOK
<1>. QED  BY <1>1, <1>2, <1>3, <1>4 DEF Report

(* Every report preserves the invariant; only Consider touches the lock.    *)
LEMMA ReportPreserves ==
    ASSUME FilterInv, NEW loc \in Locations, Report(loc)
    PROVE  FilterInv'
<1>1. FilterTypeOK'
  BY ReportTypes DEF FilterInv
<1>2. CASE DiscardUnknown(loc)
  BY <1>1, <1>2
     DEF DiscardUnknown, Ignore, FilterInv, LockIsLastFix, LockBlocksOnlyAfterFix,
         EndedByAge
<1>3. CASE TakeFirst(loc)
  BY <1>1, <1>3
     DEF TakeFirst, Take, FilterInv, LockIsLastFix, LockBlocksOnlyAfterFix,
         EndedByAge
<1>4. CASE IgnoreOlder(loc)
  BY <1>1, <1>4
     DEF IgnoreOlder, Ignore, FilterInv, LockIsLastFix, LockBlocksOnlyAfterFix,
         EndedByAge
<1>5. CASE Consider(loc)
  <2>1. loc \in KnownLocations /\ loc # NoLocation /\ loc.time \in Nat
    BY <1>5, KnownLocation, KnownIsTimed DEF Consider
  <2>2. cur.time \in Nat /\ lockTime \in Nat /\ loc.time >= cur.time
    <3>1. cur \in KnownLocations /\ lockTime \in Times \cup {0}
      BY <1>5 DEF Consider, FilterInv, FilterTypeOK
    <3>2. cur.time \in Nat
      BY <3>1, KnownIsTimed
    <3>3. lockTime \in Nat
      BY <3>1, FilterAssumption
    <3>4. ~(loc.time < cur.time)
      BY <1>5 DEF Consider, Older
    <3>. QED  BY <2>1, <3>2, <3>3, <3>4
  <2>3. CASE UpdatesLock(loc)
    <3>1. cur' = loc /\ lastFix' = loc /\ lockTime' = loc.time /\ lock'
      BY <1>5, <2>3 DEF Consider, Take, UpdatesLock, LessAccurate, Locked
    <3>2. verdict' = "taken"
      BY <1>5, <2>3 DEF Consider, Take, UpdatesLock, LessAccurate
    <3>. QED  BY <1>1, <2>1, <3>1, <3>2
                 DEF FilterInv, LockIsLastFix, LockBlocksOnlyAfterFix, EndedByAge
  <2>4. CASE ~UpdatesLock(loc)
    <3>1. lockTime' = lockTime /\ lastFix' = lastFix
      BY <1>5, <2>4 DEF Consider
    <3>2. cur' \in {cur, loc}
      BY <1>5 DEF Consider, Take, Ignore
    <3>3. cur' # NoLocation /\ cur'.time >= cur.time
      <4>1. CASE cur' = cur
        <5>1. cur # NoLocation /\ cur'.time = cur.time
          BY <1>5, <4>1 DEF Consider
        <5>2. cur.time >= cur.time
          BY <2>2
        <5>. QED  BY <4>1, <5>1, <5>2
      <4>2. CASE cur' = loc
        BY <2>1, <2>2, <4>2
      <4>. QED  BY <3>2, <4>1, <4>2
    <3>4. cur'.time \in Nat
      BY <2>1, <2>2, <3>2
    <3>5. lock' => lock /\ loc.time - lockTime < MaxPriorityAge
      BY <1>5, <2>4 DEF Consider, Locked
    <3>6. LockIsLastFix'
      BY <2>2, <3>1, <3>3, <3>4, <3>5 DEF FilterInv, LockIsLastFix
    <3>7. verdict' = "locked" => lock' /\ heard' = loc
      BY <1>5 DEF Consider, Take, Ignore
    <3>8. LockBlocksOnlyAfterFix'
      BY <3>1, <3>5, <3>7 DEF FilterInv, LockIsLastFix, LockBlocksOnlyAfterFix
    <3>9. EndedByAge'
      <4>1. SUFFICES ASSUME lastFix # NoLocation, ~lock'
                     PROVE  latest' - lastFix.time >= MaxPriorityAge
        BY <3>1 DEF EndedByAge
      <4>2. latest \in Nat /\ lastFix.time \in Nat
        BY <4>1, KnownIsTimed, FilterAssumption DEF FilterInv, FilterTypeOK
      <4>3. latest' \in Nat /\ latest' >= latest /\ latest' >= loc.time
        <5>1. latest' = IF loc.time > latest THEN loc.time ELSE latest
          BY <1>5, <2>4 DEF Consider
        <5>. QED  BY <2>1, <4>2, <5>1
      <4>4. CASE lock
        <5>1. lockTime = lastFix.time
          BY <4>4 DEF FilterInv, LockIsLastFix
        <5>2. ~(loc.time - lockTime < MaxPriorityAge)
          BY <1>5, <4>1, <4>4 DEF Consider, Locked
        <5>. QED  BY <2>1, <4>2, <4>3, <5>1, <5>2, FilterAssumption
      <4>5. CASE ~lock
        <5>1. latest - lastFix.time >= MaxPriorityAge
          BY <4>1, <4>5 DEF FilterInv, EndedByAge
        <5>. QED  BY <4>2, <4>3, <5>1, FilterAssumption
      <4>. QED  BY <4>4, <4>5
    <3>. QED  BY <1>1, <3>6, <3>8, <3>9 DEF FilterInv
  <2>. QED  BY <2>3, <2>4
<1>. QED  BY <1>2, <1>3, <1>4, <1>5 DEF Report

LEMMA FilterInvariant == FilterSpec => []FilterInv
<1>1. FilterInit => FilterInv
  BY DEF FilterInit, FilterInv, FilterTypeOK, Verdicts, LockIsLastFix,
         LockBlocksOnlyAfterFix, EndedByAge
<1>2. FilterInv /\ [FilterNext]_filterVars => FilterInv'
  <2>1. CASE FilterNext
    BY <2>1, ReportPreserves DEF FilterNext
  <2>2. CASE UNCHANGED filterVars
    BY <2>2 DEF filterVars, FilterInv, FilterTypeOK, LockIsLastFix,
                LockBlocksOnlyAfterFix, EndedByAge
  <2>. QED  BY <2>1, <2>2
<1>. QED  BY <1>1, <1>2, PTL DEF FilterSpec

----------------------------------------------------------------------------
(* Every variable of the filter keeps its type.                             *)
THEOREM FilterTypes == FilterSpec => []FilterTypeOK
<1>1. FilterInv => FilterTypeOK
  BY DEF FilterInv
<1>. QED  BY <1>1, FilterInvariant, PTL

(* The subtraction of the lock's timestamp never wraps around.              *)
THEOREM LockNeverAhead == FilterSpec => []LockNotAhead
<1>1. FilterInv => LockNotAhead
  BY DEF FilterInv, LockIsLastFix, LockNotAhead
<1>. QED  BY <1>1, FilterInvariant, PTL

(* Only a recent accurate fix of a priority source shuts others out.        *)
THEOREM LockOnlyAfterFix == FilterSpec => []LockBlocksOnlyAfterFix
<1>1. FilterInv => LockBlocksOnlyAfterFix
  BY DEF FilterInv
<1>. QED  BY <1>1, FilterInvariant, PTL

(* The location of a locator never goes back in time.                       *)
THEOREM LocationsNeverOlder == FilterSpec => NeverOlder
<1>1. ASSUME FilterInv, [FilterNext]_filterVars, cur # NoLocation
      PROVE  cur' # NoLocation /\ cur'.time >= cur.time
  <2>0. cur.time \in Nat
    BY <1>1, KnownIsTimed DEF FilterInv, FilterTypeOK
  <2>1. CASE UNCHANGED filterVars
    BY <1>1, <2>0, <2>1 DEF filterVars
  <2>2. ASSUME NEW loc \in Locations, Report(loc)
        PROVE  cur' # NoLocation /\ cur'.time >= cur.time
    <3>1. CASE DiscardUnknown(loc) \/ IgnoreOlder(loc)
      BY <1>1, <2>0, <3>1 DEF DiscardUnknown, IgnoreOlder, Ignore
    <3>2. CASE TakeFirst(loc)
      BY <1>1, <3>2 DEF TakeFirst
    <3>3. CASE Consider(loc)
      <4>1. cur' \in {cur, loc} /\ ~Older(loc) /\ loc \in KnownLocations
        BY <3>3, KnownLocation DEF Consider, Take, Ignore
      <4>2. loc.time >= cur.time /\ loc # NoLocation
        BY <2>0, <4>1, KnownIsTimed DEF Older
      <4>. QED  BY <1>1, <2>0, <4>1, <4>2
    <3>. QED  BY <2>2, <3>1, <3>2, <3>3 DEF Report
  <2>. QED  BY <1>1, <2>1, <2>2 DEF FilterNext
<1>. QED  BY <1>1, FilterInvariant, PTL DEF FilterSpec, NeverOlder

(* Once the priority source has taken over with a fix, its locations give   *)
(* way only after something MAX_PRIORITY_SOURCE_AGE newer has come.         *)
THEOREM PriorityAlwaysHolds == FilterSpec => PriorityHolds
<1>. DEFINE Premise == /\ lastFix # NoLocation
                       /\ cur' # cur /\ ~IsPriority(cur')
<1>1. ASSUME FilterInv, FilterInv', [FilterNext]_filterVars, Premise
      PROVE  latest' - lastFix.time >= MaxPriorityAge
  <2>1. PICK loc \in Locations : Report(loc)
    BY <1>1 DEF FilterNext, filterVars
  <2>2. CASE Consider(loc)
    <3>1. cur' = loc /\ ~IsPriority(loc) /\ ~Locked(loc)
      BY <1>1, <2>2 DEF Consider, Take, Ignore
    <3>2. lastFix' = lastFix /\ ~lock'
      BY <2>2, <3>1 DEF Consider, UpdatesLock, Locked
    <3>. QED  BY <1>1, <3>2 DEF FilterInv, EndedByAge
  <2>3. CASE TakeFirst(loc)
    <3>1. lastFix' = lastFix /\ lock' = lock /\ ~lock
      BY <1>1, <2>3 DEF TakeFirst, FilterInv, LockIsLastFix
    <3>. QED  BY <1>1, <3>1 DEF FilterInv, EndedByAge
  <2>4. ~DiscardUnknown(loc) /\ ~IgnoreOlder(loc)
    BY <1>1 DEF DiscardUnknown, IgnoreOlder, Ignore
  <2>. QED  BY <2>1, <2>2, <2>3, <2>4 DEF Report
<1>. QED  BY <1>1, FilterInvariant, PTL DEF FilterSpec, PriorityHolds
=============================================================================
