------------------------ MODULE ClientLocationProofs -----------------------
(***************************************************************************)
(* Proofs about ClientLocation, for any locations, thresholds and bounds,  *)
(* and whichever calls fail.                                               *)
(*                                                                         *)
(* That every reference has one owner is an invariant because no object    *)
(* ever has two (OwnersApart): an old object's timeout would else merge    *)
(* with another as they run down.  What an application was told is the     *)
(* pair of the client's current and previous objects (NamedAreOwn), which  *)
(* it owns; signaled_location does not drift from the location it was told *)
(* of (SignaledWasTold).                                                   *)
(***************************************************************************)
EXTENDS ClientLocation, FiniteSetTheorems, TLAPS

Owned(p) == location = p \/ prev = p \/ \E r \in retired : r.path = p

RefsOwned == \A p \in Paths : refs[p] = IF Owned(p) THEN 1 ELSE 0

OwnersApart ==
    /\ location # NULL => location \in 1 .. updates
    /\ prev # NULL => prev \in 1 .. updates /\ prev # location
    /\ \A r \in retired : r.path \in 1 .. updates /\ r.path # location /\ r.path # prev
    /\ \A q, r \in retired : q.path = r.path => q = r

PathOf(object) == IF object = NULL THEN Root ELSE object

NamedAreOwn ==
    alive /\ ~failed =>
       /\ property = PathOf(location)
       /\ told = NULL => location = NULL /\ prev = NULL
       /\ told # NULL => told.new = location /\ told.old = PathOf(prev)

ShownIsLast == alive /\ ~failed /\ last # NULL => location # NULL /\ shown = last

SignaledWasTold == alive /\ ~failed => signaled = announced

LocationInv ==
    /\ TypeOK
    /\ OwnersApart
    /\ RefsOwned
    /\ NamedAreOwn
    /\ ShownIsLast
    /\ SignaledWasTold

----------------------------------------------------------------------------
(* Paths and references.                                                    *)

LEMMA PathsAreNumbers ==
    /\ MaxUpdates \in Nat /\ Grace \in Nat
    /\ NULL \notin Nat /\ NULL \notin Paths /\ Root \notin Paths /\ NULL # Root
    /\ \A n : n \in Paths <=> n \in Nat /\ 1 <= n /\ n <= MaxUpdates
  BY ClientLocationAssumption DEF Paths, Root

(* A set is counted by whether it has its only possible element.            *)
LEMMA CountOne ==
    ASSUME NEW S, NEW P \in BOOLEAN, P => \E x : S = {x}, ~P => S = {}
    PROVE  Cardinality(S) = IF P THEN 1 ELSE 0
  BY FS_EmptySet, FS_Singleton

LEMMA OwnedOnce ==
    ASSUME TypeOK, OwnersApart, RefsOwned
    PROVE  OneOwnerEach
<1>. SUFFICES ASSUME NEW p \in Paths
              PROVE  refs[p] = Cardinality({x \in {"location"} : location = p})
                               + Cardinality({x \in {"prev"} : prev = p})
                               + Cardinality({r \in retired : r.path = p})
  BY DEF OneOwnerEach
<1>. DEFINE Old == \E r \in retired : r.path = p
<1>1. Cardinality({x \in {"location"} : location = p}) = IF location = p THEN 1 ELSE 0
  BY CountOne
<1>2. Cardinality({x \in {"prev"} : prev = p}) = IF prev = p THEN 1 ELSE 0
  BY CountOne
<1>3. Cardinality({r \in retired : r.path = p}) = IF Old THEN 1 ELSE 0
  <2>1. ASSUME Old PROVE \E x : {r \in retired : r.path = p} = {x}
    <3>1. PICK q \in retired : q.path = p
      BY <2>1
    <3>2. {r \in retired : r.path = p} = {q}
      BY <3>1 DEF OwnersApart
    <3>. QED  BY <3>2
  <2>2. ~Old => {r \in retired : r.path = p} = {}
    OBVIOUS
  <2>3. Old \in BOOLEAN
    OBVIOUS
  <2>. HIDE DEF Old
  <2>. QED  BY <2>1, <2>2, <2>3, CountOne
<1>4. refs[p] = IF location = p \/ prev = p \/ Old THEN 1 ELSE 0
  BY DEF RefsOwned, Owned
<1>5. /\ ~(location = p /\ prev = p)
      /\ Old => location # p /\ prev # p
  BY PathsAreNumbers DEF OwnersApart
<1>. HIDE DEF Old
<1>. QED  BY <1>1, <1>2, <1>3, <1>4, <1>5

(* MakeWay leaves the next path to nobody, and each object with one owner,  *)
(* whatever becomes the current object.                                     *)
LEMMA MakeWayEffect ==
    ASSUME TypeOK, OwnersApart, RefsOwned, MakeWay
    PROVE  /\ updates' \in Paths /\ updates' = updates + 1 /\ ~Owned(updates')
           /\ prev' = location /\ location # updates'
           /\ retired' \subseteq [path : Paths, left : 0 .. Grace]
           /\ \A r \in retired' :
                 r.path \in 1 .. updates /\ r.path # location /\ r.path # updates'
           /\ \A q, r \in retired' : q.path = r.path => q = r
           /\ \A p \in Paths : (\E r \in retired' : r.path = p)
                                  <=> prev = p \/ \E r \in retired : r.path = p
<1>. USE DEF TypeOK
<1>1. updates' \in Paths /\ updates' = updates + 1 /\ prev' = location
  BY PathsAreNumbers DEF MakeWay
<1>2. ~Owned(updates') /\ location # updates'
  BY <1>1, PathsAreNumbers DEF OwnersApart, Owned
<1>3. CASE prev = NULL
  <2>1. retired' = retired
    BY <1>3 DEF MakeWay
  <2>. QED  BY <1>1, <1>2, <1>3, <2>1, PathsAreNumbers DEF OwnersApart, Owned
<1>4. CASE prev # NULL
  <2>. DEFINE new == [path |-> prev, left |-> Grace]
  <2>1. retired' = retired \cup {new}
    BY <1>4 DEF MakeWay
  <2>2. new \in [path : Paths, left : 0 .. Grace] /\ new.path = prev
    BY <1>4, PathsAreNumbers
  <2>3. prev \in 1 .. updates /\ prev # location /\ prev # updates'
    BY <1>1, <1>4, PathsAreNumbers DEF OwnersApart
  <2>4. \A r \in retired : r.path \in 1 .. updates /\ r.path # location /\ r.path # prev
                           /\ r.path # updates'
    BY <1>1, PathsAreNumbers DEF OwnersApart
  <2>5. \A q, r \in retired : q.path = r.path => q = r
    BY DEF OwnersApart
  <2>. HIDE DEF new
  <2>. QED  BY <1>1, <1>2, <2>1, <2>2, <2>3, <2>4, <2>5
<1>. QED  BY <1>3, <1>4

----------------------------------------------------------------------------
(* The invariant.                                                           *)

LEMMA InvInit == Init => LocationInv
<1>. SUFFICES ASSUME Init PROVE LocationInv
  OBVIOUS
<1>. USE DEF Init
<1>1. TypeOK
  <2>1. refs \in [Paths -> Nat] /\ updates \in 0 .. MaxUpdates /\ {} = retired
    BY PathsAreNumbers
  <2>. QED  BY <2>1 DEF TypeOK
<1>2. OwnersApart /\ NamedAreOwn /\ ShownIsLast /\ SignaledWasTold
  BY DEF OwnersApart, NamedAreOwn, ShownIsLast, SignaledWasTold, PathOf
<1>3. RefsOwned
  BY PathsAreNumbers DEF RefsOwned, Owned
<1>. QED  BY <1>1, <1>2, <1>3 DEF LocationInv

(* What changes no object keeps the invariant, if it forgets the last       *)
(* location or leaves it alone.                                             *)
LEMMA QuietInv ==
    ASSUME LocationInv, UNCHANGED <<objects, alive>>, last' \in {last, NULL},
           started' \in BOOLEAN, distance' \in Nat, time' \in Nat
    PROVE  LocationInv'
<1>. USE DEF LocationInv, objects
<1>1. TypeOK'
  BY DEF TypeOK
<1>2. OwnersApart' /\ RefsOwned'
  BY DEF OwnersApart, RefsOwned, Owned
<1>3. NamedAreOwn' /\ ShownIsLast' /\ SignaledWasTold'
  BY DEF NamedAreOwn, ShownIsLast, SignaledWasTold, PathOf
<1>. QED  BY <1>1, <1>2, <1>3

LEMMA UpdateInPlaceInv ==
    ASSUME LocationInv, NEW loc \in Locations, UpdateInPlace(loc), last' = loc,
           UNCHANGED <<alive, started, distance, time>>
    PROVE  LocationInv'
<1>. USE DEF LocationInv, UpdateInPlace
<1>1. TypeOK'
  BY DEF TypeOK
<1>2. OwnersApart' /\ RefsOwned'
  BY DEF OwnersApart, RefsOwned, Owned
<1>3. NamedAreOwn' /\ ShownIsLast' /\ SignaledWasTold'
  BY DEF NamedAreOwn, ShownIsLast, SignaledWasTold, PathOf
<1>. QED  BY <1>1, <1>2, <1>3

LEMMA ExportFailsInv ==
    ASSUME LocationInv, NEW loc \in Locations, ExportFails, last' = loc,
           UNCHANGED <<alive, started, distance, time>>
    PROVE  LocationInv'
<1>. USE DEF LocationInv, ExportFails
<1>0. MakeWay /\ location' = NULL /\ UNCHANGED refs
  OBVIOUS
<1>1. TypeOK'
  BY <1>0, MakeWayEffect, PathsAreNumbers DEF TypeOK, Paths
<1>2. OwnersApart'
  BY <1>0, <1>1, MakeWayEffect, PathsAreNumbers DEF OwnersApart, TypeOK
<1>3. RefsOwned'
  BY <1>0, MakeWayEffect, PathsAreNumbers DEF RefsOwned, Owned
<1>4. NamedAreOwn' /\ ShownIsLast' /\ SignaledWasTold'
  BY DEF NamedAreOwn, ShownIsLast, SignaledWasTold
<1>. QED  BY <1>1, <1>2, <1>3, <1>4

LEMMA NewObjectInv ==
    ASSUME LocationInv, NEW loc \in Locations, NewObject(loc), last' = loc,
           UNCHANGED <<alive, started, distance, time>>
    PROVE  LocationInv'
<1>. USE DEF LocationInv
<1>0. /\ MakeWay /\ location' = updates' /\ shown' = loc
      /\ refs' = [refs EXCEPT ![updates'] = 1]
      /\ property' = updates' /\ signaled' = loc
      /\ \/ told' = [old |-> PathOf(location), new |-> updates'] /\ announced' = loc
            /\ UNCHANGED failed
         \/ failed' = TRUE /\ UNCHANGED <<told, announced>>
  BY MakeWayEffect DEF NewObject, PathOf
<1>. DEFINE signal == [old |-> PathOf(location), new |-> updates']
<1>1. /\ signal \in [old : Paths \cup {Root}, new : Paths]
      /\ signal.old = PathOf(location) /\ signal.new = updates'
  BY <1>0, MakeWayEffect DEF TypeOK, PathOf
<1>2. TypeOK'
  <2>1. refs' \in [Paths -> Nat]
    BY <1>0, MakeWayEffect DEF TypeOK
  <2>2. told' \in [old : Paths \cup {Root}, new : Paths] \cup {NULL}
        /\ failed' \in BOOLEAN /\ announced' \in Locations \cup {NULL}
    BY <1>0, <1>1 DEF TypeOK
  <2>3. retired' \subseteq [path : Paths, left : 0 .. Grace]
        /\ updates' \in 0 .. MaxUpdates /\ location' \in Paths \cup {NULL}
        /\ prev' \in Paths \cup {NULL} /\ property' \in Paths \cup {Root}
    BY <1>0, MakeWayEffect, PathsAreNumbers DEF TypeOK, Paths
  <2>. QED  BY <1>0, <2>1, <2>2, <2>3 DEF TypeOK
<1>3. OwnersApart'
  BY <1>0, <1>2, MakeWayEffect, PathsAreNumbers DEF OwnersApart, TypeOK
<1>4. RefsOwned'
  <2>. SUFFICES ASSUME NEW p \in Paths
                PROVE  refs'[p] = IF Owned(p)' THEN 1 ELSE 0
    BY DEF RefsOwned
  <2>1. Owned(p)' <=> p = updates' \/ Owned(p)
    BY <1>0, MakeWayEffect DEF Owned
  <2>2. refs'[p] = IF p = updates' THEN 1 ELSE refs[p]
    BY <1>0 DEF TypeOK
  <2>. QED  BY <2>1, <2>2 DEF RefsOwned
<1>5. NamedAreOwn'
  <2>. SUFFICES ASSUME alive', ~failed'
                PROVE  /\ property' = PathOf(location')
                       /\ told' # NULL /\ told'.new = location'
                       /\ told'.old = PathOf(prev')
    BY DEF NamedAreOwn, PathOf
  <2>1. told' = signal
    BY <1>0
  <2>2. signal # NULL
    BY <1>1, ClientLocationAssumption
  <2>3. prev' = location /\ updates' # NULL
    BY <1>0, MakeWayEffect, PathsAreNumbers
  <2>. HIDE DEF signal
  <2>. QED  BY <1>0, <1>1, <2>1, <2>2, <2>3 DEF PathOf
<1>6. ShownIsLast'
  BY <1>0, MakeWayEffect, PathsAreNumbers DEF ShownIsLast
<1>7. SignaledWasTold'
  BY <1>0 DEF SignaledWasTold
<1>. QED  BY <1>2, <1>3, <1>4, <1>5, <1>6, <1>7

LEMMA TickInv ==
    ASSUME LocationInv, Tick
    PROVE  LocationInv'
<1>. USE DEF LocationInv, Tick
<1>. DEFINE After(r) == [path |-> r.path, left |-> IF r.left = 0 THEN 0 ELSE r.left - 1]
<1>1. retired' = {After(r) : r \in retired}
  OBVIOUS
<1>2. \A r \in retired : After(r) \in [path : Paths, left : 0 .. Grace]
                         /\ After(r).path = r.path
  BY PathsAreNumbers DEF TypeOK
<1>3. TypeOK'
  BY <1>1, <1>2 DEF TypeOK
<1>4. \A q \in retired' : \E r \in retired : q = After(r)
  BY <1>1
<1>5. \A p : (\E r \in retired' : r.path = p) <=> (\E r \in retired : r.path = p)
  BY <1>1, <1>2
<1>6. OwnersApart'
  <2>. HIDE DEF After
  <2>1. \A r \in retired' :
           r.path \in 1 .. updates /\ r.path # location /\ r.path # prev
    BY <1>2, <1>4 DEF OwnersApart
  <2>2. \A q, r \in retired' : q.path = r.path => q = r
    BY <1>2, <1>4 DEF OwnersApart
  <2>. QED  BY <2>1, <2>2 DEF OwnersApart
<1>7. RefsOwned'
  BY <1>5 DEF RefsOwned, Owned
<1>8. NamedAreOwn' /\ ShownIsLast' /\ SignaledWasTold'
  BY DEF NamedAreOwn, ShownIsLast, SignaledWasTold, PathOf
<1>. QED  BY <1>3, <1>6, <1>7, <1>8

LEMMA TimeoutInv ==
    ASSUME LocationInv, NEW r \in retired, PrevLocationTimeout(r)
    PROVE  LocationInv'
<1>. USE DEF LocationInv, PrevLocationTimeout
<1>1. r.path \in Paths /\ refs[r.path] = 1
  BY DEF TypeOK, RefsOwned, Owned
<1>2. \A p \in Paths : refs'[p] = IF p = r.path THEN 0 ELSE refs[p]
  BY <1>1 DEF TypeOK
<1>3. refs' \in [Paths -> Nat]
  BY <1>1 DEF TypeOK
<1>4. TypeOK'
  BY <1>3 DEF TypeOK
<1>5. OwnersApart'
  BY DEF OwnersApart
<1>6. \A p \in Paths : Owned(p)' <=> Owned(p) /\ p # r.path
  BY DEF Owned, OwnersApart
<1>7. RefsOwned'
  BY <1>2, <1>6 DEF RefsOwned
<1>8. NamedAreOwn' /\ ShownIsLast' /\ SignaledWasTold'
  BY DEF NamedAreOwn, ShownIsLast, SignaledWasTold, PathOf
<1>. QED  BY <1>4, <1>5, <1>7, <1>8

LEMMA FinalizeInv ==
    ASSUME LocationInv, Finalize
    PROVE  LocationInv'
<1>. USE DEF LocationInv, Finalize
<1>1. ASSUME NEW p \in Paths
      PROVE  refs'[p] = IF p = location \/ p = prev THEN 0 ELSE refs[p]
  <2>1. Cardinality({x \in {location} : x = p}) = IF location = p THEN 1 ELSE 0
    BY CountOne
  <2>2. Cardinality({x \in {prev} : x = p}) = IF prev = p THEN 1 ELSE 0
    BY CountOne
  <2>3. refs[p] \in Nat /\ (p = location \/ p = prev => refs[p] = 1)
        /\ ~(p = location /\ p = prev)
    BY PathsAreNumbers DEF TypeOK, RefsOwned, Owned, OwnersApart
  <2>. QED  BY <2>1, <2>2, <2>3
<1>2. refs' \in [Paths -> Nat]
  <2>1. refs' = [p \in Paths |-> refs'[p]]
    OBVIOUS
  <2>. QED  BY <1>1, <2>1 DEF TypeOK
<1>3. TypeOK'
  BY <1>2 DEF TypeOK
<1>4. OwnersApart'
  BY PathsAreNumbers DEF OwnersApart, TypeOK
<1>5. \A p \in Paths : Owned(p)' <=> Owned(p) /\ p # location /\ p # prev
  BY PathsAreNumbers DEF Owned, OwnersApart
<1>6. RefsOwned'
  BY <1>1, <1>5 DEF RefsOwned
<1>7. NamedAreOwn' /\ ShownIsLast' /\ SignaledWasTold'
  BY DEF NamedAreOwn, ShownIsLast, SignaledWasTold
<1>. QED  BY <1>3, <1>4, <1>6, <1>7

LEMMA InvStep == LocationInv /\ [Next]_vars => LocationInv'
<1>. SUFFICES ASSUME LocationInv, [Next]_vars PROVE LocationInv'
  OBVIOUS
<1>0. TypeOK
  BY DEF LocationInv
<1>1. CASE Start
  BY <1>0, <1>1, QuietInv DEF Start, TypeOK
<1>2. CASE Stop
  BY <1>0, <1>2, QuietInv DEF Stop, TypeOK
<1>3. ASSUME NEW d \in Thresholds, SetDistance(d) PROVE LocationInv'
  BY <1>0, <1>3, QuietInv, ClientLocationAssumption DEF SetDistance, TypeOK
<1>4. ASSUME NEW t \in TimeThresholds, SetTime(t) PROVE LocationInv'
  BY <1>0, <1>4, QuietInv, ClientLocationAssumption DEF SetTime, TypeOK
<1>5. ASSUME NEW loc \in Locations, LocatorReports(loc) PROVE LocationInv'
  BY <1>5, UpdateInPlaceInv, ExportFailsInv, NewObjectInv DEF LocatorReports
<1>6. CASE Tick
  BY <1>6, TickInv
<1>7. ASSUME NEW r \in retired, PrevLocationTimeout(r) PROVE LocationInv'
  BY <1>7, TimeoutInv
<1>8. CASE Finalize
  BY <1>8, FinalizeInv
<1>9. CASE UNCHANGED vars
  <2>1. UNCHANGED <<objects, alive, last, started, distance, time>>
    BY <1>9 DEF vars, objects
  <2>. QED  BY <1>0, <2>1, QuietInv DEF TypeOK
<1>. QED  BY <1>1, <1>2, <1>3, <1>4, <1>5, <1>6, <1>7, <1>8, <1>9 DEF Next

LEMMA InvAlways == Spec => []LocationInv
  BY InvInit, InvStep, PTL DEF Spec

----------------------------------------------------------------------------
(* The theorems.                                                            *)

(* Every part of the state stays of its type.                               *)
THEOREM LocationTypes == Spec => []TypeOK
<1>1. LocationInv => TypeOK
  BY DEF LocationInv
<1>. QED  BY <1>1, InvAlways, PTL

(* No location object leaks or is released twice, whatever fails and        *)
(* whenever the client goes (on_prev_location_timeout, finalize).           *)
THEOREM AlwaysOneOwnerEach == Spec => []OneOwnerEach
<1>1. LocationInv => OneOwnerEach
  BY OwnedOnce DEF LocationInv
<1>. QED  BY <1>1, InvAlways, PTL

(* The objects that an application was told about, or reads of in the       *)
(* Location property, are on the bus (on_locator_location_changed).         *)
THEOREM NamedObjectsAlwaysExist == Spec => []NamedObjectsExist
<1>1. LocationInv => NamedObjectsExist
  <2>. SUFFICES ASSUME LocationInv, alive, ~failed
                PROVE  /\ property # Root => property \in Exported
                       /\ told # NULL => {told.old, told.new} \ {Root} \subseteq Exported
    BY DEF NamedObjectsExist
  <2>1. \A p : p \in {PathOf(location), PathOf(prev)} \ {Root} => p \in Exported
    BY DEF LocationInv, TypeOK, PathOf, RefsOwned, Owned, Exported
  <2>2. told # NULL => told.new \in {Root, PathOf(location)} \cup {NULL}
    BY DEF LocationInv, NamedAreOwn, PathOf
  <2>3. told # NULL => told.new \in Paths
    BY DEF LocationInv, TypeOK
  <2>. QED  BY <2>1, <2>2, <2>3, PathsAreNumbers DEF LocationInv, NamedAreOwn
<1>. QED  BY <1>1, InvAlways, PTL

(* The Location property names the object that shows what the locator       *)
(* reported last, unless a call of GDBus failed.                            *)
THEOREM PropertyAlwaysCurrent == Spec => []PropertyIsCurrent
<1>1. LocationInv => PropertyIsCurrent
  BY DEF LocationInv, NamedAreOwn, ShownIsLast, PropertyIsCurrent, PathOf
<1>. QED  BY <1>1, InvAlways, PTL

(* Only NewObject signals, and what it names as old is the current object.  *)
LEMMA OnlyNewObjectTells ==
    ASSUME LocationInv, [Next]_vars, told' # told
    PROVE  \E loc \in Locations : LocatorReports(loc) /\ NewObject(loc)
  BY DEF Next, vars, objects, Start, Stop, SetDistance, SetTime, LocatorReports,
         UpdateInPlace, ExportFails, Tick, PrevLocationTimeout, Finalize

(* Each LocationUpdated signal names as old what the one before named as    *)
(* new, unless a call of GDBus failed.                                      *)
THEOREM SignalsAlwaysChain == Spec => SignalsChain
<1>1. LocationInv /\ [Next]_vars =>
         [told' # told /\ ~failed => told'.old = IF told = NULL THEN Root ELSE told.new]_vars
  <2>. SUFFICES ASSUME LocationInv, [Next]_vars, told' # told, ~failed
                PROVE  told'.old = IF told = NULL THEN Root ELSE told.new
    OBVIOUS
  <2>1. PICK loc \in Locations : LocatorReports(loc) /\ NewObject(loc)
    BY OnlyNewObjectTells
  <2>2. told'.old = PathOf(location) /\ alive
    BY <2>1 DEF NewObject, MakeWay, LocatorReports, PathOf
  <2>3. told # NULL => told.new # NULL
    BY PathsAreNumbers DEF LocationInv, TypeOK
  <2>. QED  BY <2>2, <2>3 DEF LocationInv, NamedAreOwn, PathOf
<1>. QED  BY <1>1, InvAlways, PTL DEF Spec, SignalsChain

(* A location that no signal tells of is near the one that the last signal  *)
(* announced, in space or in time, after any number of such locations       *)
(* (on_locator_location_changed, below_threshold).                          *)
THEOREM QuietUpdatesAlwaysSmall == Spec => QuietUpdatesAreSmall
<1>1. LocationInv /\ [Next]_vars =>
         [last' # last /\ last' # NULL /\ told' = told /\ ~failed' =>
            /\ announced # NULL
            /\ \/ Abs(last'.at - announced.at) < distance
               \/ Abs(last'.ts - announced.ts) < time]_vars
  <2>. SUFFICES ASSUME LocationInv, [Next]_vars, last' # last, last' # NULL,
                       told' = told, ~failed'
                PROVE  /\ announced # NULL
                       /\ \/ Abs(last'.at - announced.at) < distance
                          \/ Abs(last'.ts - announced.ts) < time
    OBVIOUS
  <2>1. PICK loc \in Locations : LocatorReports(loc)
    BY DEF Next, vars, Start, Stop, SetDistance, SetTime, Tick, PrevLocationTimeout,
           Finalize
  <2>2. last' = loc
    BY <2>1 DEF LocatorReports
  <2>3. CASE UpdateInPlace(loc)
    <3>1. signaled = announced
      BY <2>1, <2>3 DEF UpdateInPlace, LocatorReports, LocationInv, SignaledWasTold
    <3>. QED  BY <2>2, <2>3, <3>1 DEF UpdateInPlace, DistanceBelow, TimeBelow
  <2>4. ~NewObject(loc)
    <3>1. SUFFICES ASSUME NewObject(loc) PROVE FALSE
      OBVIOUS
    <3>2. told' = [old |-> PathOf(location), new |-> updates'] /\ alive /\ ~failed
      BY <2>1, <3>1 DEF NewObject, MakeWay, LocatorReports, PathOf, LocationInv, TypeOK
    <3>3. told # NULL /\ told.new = updates'
      <4>1. [old |-> PathOf(location), new |-> updates']
               \in [old : Paths \cup {Root}, new : Paths]
        BY <3>1, MakeWayEffect DEF NewObject, LocationInv, TypeOK, PathOf
      <4>. QED  BY <3>2, <4>1, ClientLocationAssumption
    <3>4. location = updates'
      BY <3>2, <3>3 DEF LocationInv, NamedAreOwn
    <3>. QED  BY <3>1, <3>4, MakeWayEffect DEF NewObject, LocationInv
  <2>5. ~ExportFails
    BY DEF ExportFails
  <2>. QED  BY <2>1, <2>3, <2>4, <2>5 DEF LocatorReports
<1>. QED  BY <1>1, InvAlways, PTL DEF Spec, QuietUpdatesAreSmall
=============================================================================
