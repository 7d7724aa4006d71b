-------------------------- MODULE NmeaSourceProofs -------------------------
(***************************************************************************)
(* Proofs about NmeaSource, for any services, levels and numbers of users. *)
(*                                                                         *)
(* Whatever a callback does to the lists ends in Connect or Reconnect.  So *)
(* the invariant about the connection is proved once for each of these,    *)
(* from what both find: types that hold, and operations that belong to the *)
(* active service.                                                         *)
(***************************************************************************)
EXTENDS NmeaSource, TLAPS

(* The two lists are ordered: of two services one alone was added first.    *)
AgesDiffer == \A s, t \in Services : ~(<<s, t>> \in older /\ <<t, s>> \in older)

(* The active service is the head of its list.                              *)
ActiveIsHead ==
    active # NULL => \A t \in try \ {active} :
                        \/ accuracy[active] > accuracy[t]
                        \/ accuracy[active] = accuracy[t] /\ <<active, t>> \in older

(* Services of the network are known through a client only.                 *)
NetNeedsAvahi == avahi = "none" => Known \subseteq Socket /\ resolving = {}

Tidy == TimerWhenAllBroken /\ AgesDiffer

NmeaInv ==
    /\ TypeOK
    /\ ConnectedToBest
    /\ ActiveIsHead
    /\ Tidy
    /\ NetNeedsAvahi
    /\ LevelIsBest

(* The part of TypeOK that is about the lists.                              *)
ListTypes ==
    /\ try \subseteq Services
    /\ accuracy \in [Services -> NONE .. EXACT]

(* The part of TypeOK that is about the connection.                         *)
ConnectionTypes ==
    /\ active \in Services \cup {NULL}
    /\ link \in Services \cup {NULL}
    /\ hungUp \in BOOLEAN
    /\ pending \subseteq [service : Services, kind : {"connect", "read"}]

(* No operation is under way while no service is active.                    *)
LEMMA IdleNothingPending ==
    ASSUME ConnectedToBest
    PROVE  Uncancelled = {}
  BY DEF ConnectedToBest, Uncancelled

(* The head of the new list is a most accurate of its services.             *)
LEMMA HeadIsBest ==
    ASSUME ListTypes', NEW s, IsHead(s)
    PROVE  \A t \in try' : accuracy'[t] <= accuracy'[s]
<1> SUFFICES ASSUME NEW t \in try' PROVE accuracy'[t] <= accuracy'[s]
  OBVIOUS
<1>1. s \in try'
  BY DEF IsHead
<1>2. accuracy'[t] \in 0 .. 8 /\ accuracy'[s] \in 0 .. 8
  BY <1>1 DEF ListTypes, NONE, EXACT
<1>3. t = s \/ Before(s, t)
  BY DEF IsHead
<1>4. accuracy'[s] > accuracy'[t] \/ accuracy'[s] = accuracy'[t]
  BY <1>3, Zenon DEF Before
<1>. QED  BY <1>2, <1>4

(* A new connection is to the head of the new list.                         *)
LEMMA ConnectConnects ==
    ASSUME ConnectedToBest, ListTypes', Connect
    PROVE  ConnectedToBest' /\ ActiveIsHead' /\ ConnectionTypes'
<1>1. Uncancelled = {}
  BY IdleNothingPending
<1>2. CASE uses' > 0 /\ try' # {}
  <2>1. PICK s \in try' : /\ IsHead(s)
                          /\ active' = s
                          /\ pending' = {Connecting(s)}
    BY <1>1, <1>2 DEF Connect
  <2>2. s \in Services /\ s # NULL
    BY NmeaAssumption DEF ListTypes
  <2>3. link' = NULL /\ hungUp' = FALSE
    BY DEF Connect
  <2>4. \A t \in try' \ {s} : Before(s, t)
    BY <2>1 DEF IsHead
  <2>5. \A t \in try' : accuracy'[t] <= accuracy'[s]
    BY <2>1, HeadIsBest
  <2>6. pending' \subseteq [service : Services, kind : {"connect", "read"}]
    BY <2>1, <2>2 DEF Connecting
  <2>7. ConnectedToBest'
    BY <1>2, <2>1, <2>2, <2>3, <2>5 DEF ConnectedToBest, Connecting, Reading
  <2>8. ActiveIsHead'
    BY <2>1, <2>4 DEF ActiveIsHead, Before
  <2>. QED  BY <2>1, <2>2, <2>3, <2>6, <2>7, <2>8 DEF ConnectionTypes
<1>3. CASE ~(uses' > 0 /\ try' # {})
  <2>1. active' = NULL /\ pending' = {} /\ link' = NULL /\ hungUp' = FALSE
    BY <1>1, <1>3 DEF Connect
  <2>. QED  BY <1>3, <2>1 DEF ConnectedToBest, ActiveIsHead, ConnectionTypes
<1>. QED  BY <1>2, <1>3

(* A connection that is kept is to the head of the new list.                *)
LEMMA ReconnectConnects ==
    ASSUME TypeOK, ConnectedToBest, ListTypes', Reconnect,
           active # NULL => uses' > 0
    PROVE  ConnectedToBest' /\ ActiveIsHead' /\ ConnectionTypes'
<1>1. CASE active # NULL /\ IsHead(active)
  <2>1. UNCHANGED connection
    BY <1>1 DEF Reconnect
  <2>2. active \in try' /\ \A t \in try' \ {active} : Before(active, t)
    BY <1>1 DEF IsHead
  <2>3. \A t \in try' : accuracy'[t] <= accuracy'[active]
    BY <1>1, HeadIsBest
  <2>4. ConnectedToBest'
    BY <1>1, <2>1, <2>2, <2>3
    DEF connection, ConnectedToBest, Connecting, Reading
  <2>5. ActiveIsHead'
    BY <2>1, <2>2 DEF connection, ActiveIsHead, Before
  <2>. QED  BY <2>1, <2>4, <2>5 DEF connection, TypeOK, ConnectionTypes
<1>2. CASE ~(active # NULL /\ IsHead(active))
  <2>1. Connect
    BY <1>2 DEF Reconnect
  <2>. QED  BY <2>1, ConnectConnects
<1>. QED  BY <1>1, <1>2

(* Of the levels of some services one is the highest.                       *)
LEMMA HighestLevel ==
    ASSUME NEW S \in SUBSET (0 .. 8), S # {}
    PROVE  \E l \in S : \A x \in S : x <= l
<1>1. CASE 8 \in S
  BY <1>1
<1>2. CASE 8 \notin S /\ 7 \in S
  BY <1>2
<1>3. CASE 8 \notin S /\ 7 \notin S /\ 6 \in S
  BY <1>3
<1>4. CASE 8 \notin S /\ 7 \notin S /\ 6 \notin S /\ 5 \in S
  BY <1>4
<1>5. CASE 8 \notin S /\ 7 \notin S /\ 6 \notin S /\ 5 \notin S /\ 4 \in S
  BY <1>5
<1>6. CASE \A x \in S : x < 4
  <2>1. CASE 3 \in S
    BY <1>6, <2>1
  <2>2. CASE 3 \notin S /\ 2 \in S
    BY <1>6, <2>2
  <2>3. CASE 3 \notin S /\ 2 \notin S /\ 1 \in S
    BY <1>6, <2>3
  <2>4. CASE 3 \notin S /\ 2 \notin S /\ 1 \notin S
    <3>1. \A x \in S : x \in 0 .. 8 /\ x < 4 /\ x # 3 /\ x # 2 /\ x # 1
      BY <1>6, <2>4
    <3>2. \A x \in S : x = 0
      BY <3>1
    <3>3. PICK l \in S : TRUE
      OBVIOUS
    <3>. QED  BY <3>2, <3>3
  <2>. QED  BY <2>1, <2>2, <2>3, <2>4
<1>. QED  BY <1>1, <1>2, <1>3, <1>4, <1>5, <1>6

LEMMA InitInv == Init => NmeaInv
<1> SUFFICES ASSUME Init PROVE NmeaInv
  OBVIOUS
<1>1. TypeOK
  <2>1. uses \in 0 .. MaxUses /\ level \in NONE .. EXACT
    BY NmeaAssumption DEF Init, NONE, EXACT
  <2>2. accuracy \in [Services -> NONE .. EXACT]
    BY DEF Init, NONE, EXACT
  <2>3. try \subseteq Services
    BY DEF Init, Services
  <2>4. refreshIdle \in BOOLEAN
    BY Zenon DEF Init
  <2>. QED  BY <2>1, <2>2, <2>3, <2>4 DEF Init, TypeOK
<1>2. ConnectedToBest /\ ActiveIsHead
  BY NmeaAssumption DEF Init, ConnectedToBest, ActiveIsHead
<1>3. Tidy
  BY DEF Init, Tidy, TimerWhenAllBroken, AgesDiffer
<1>4. NetNeedsAvahi
  BY DEF Init, NetNeedsAvahi, Known
<1>5. LevelIsBest
  BY DEF Init, LevelIsBest, Known
<1>. QED  BY <1>1, <1>2, <1>3, <1>4, <1>5 DEF NmeaInv

(* What stays of the invariant when neither the users, nor the lists, nor   *)
(* the connection change.                                                   *)
LEMMA ConnectionKept ==
    ASSUME NmeaInv, UNCHANGED <<uses, connection, lists>>
    PROVE  ConnectedToBest' /\ ActiveIsHead' /\ Tidy' /\ ConnectionTypes'
<1>1. ConnectedToBest' /\ ActiveIsHead'
  BY DEF NmeaInv, ConnectedToBest, ActiveIsHead, connection, lists, Connecting,
         Reading
<1>2. Tidy'
  BY DEF NmeaInv, Tidy, TimerWhenAllBroken, AgesDiffer, lists
<1>3. ConnectionTypes'
  BY DEF NmeaInv, TypeOK, ConnectionTypes, connection
<1>. QED  BY <1>1, <1>2, <1>3

(* The level stays that of the best while the lists do.                     *)
LEMMA LevelKept ==
    ASSUME NmeaInv, UNCHANGED <<try, broken, accuracy, level>>,
           refreshIdle => refreshIdle'
    PROVE  LevelIsBest'
  BY DEF NmeaInv, LevelIsBest, Known

(* A service that is active is in use.                                      *)
LEMMA ActiveInUse ==
    ASSUME NmeaInv, active # NULL
    PROVE  uses > 0 /\ active \in try /\ active \in Services /\ active \notin broken
  BY DEF NmeaInv, ConnectedToBest, TypeOK, Tidy, TimerWhenAllBroken

LEMMA RestartAvahiInv ==
    ASSUME NmeaInv, RestartAvahi, UNCHANGED level,
           uses' \in 0 .. MaxUses, uses' = uses \/ uses' = uses + 1
    PROVE  NmeaInv'
<1>1. TypeOK /\ ConnectedToBest
  BY DEF NmeaInv
<1>2. ListTypes'
  BY <1>1 DEF RestartAvahi, TypeOK, ListTypes
<1>3. active # NULL => uses' > 0
  BY <1>1, ActiveInUse, NmeaAssumption DEF TypeOK
<1>4. Reconnect
  BY DEF RestartAvahi
<1>5. ConnectedToBest' /\ ActiveIsHead' /\ ConnectionTypes'
  BY <1>1, <1>2, <1>3, <1>4, ReconnectConnects
<1>6. Tidy'
  BY DEF NmeaInv, Tidy, TimerWhenAllBroken, AgesDiffer, RestartAvahi,
         CheckUnbreakTimer
<1>7. NetNeedsAvahi'
  BY DEF RestartAvahi, NetNeedsAvahi, Known
<1>8. refreshIdle' \in BOOLEAN
  BY <1>1, Zenon DEF RestartAvahi, TypeOK
<1>9. TypeOK'
  <2>1. broken' \subseteq Services /\ older' \subseteq Services \X Services
    BY <1>1 DEF RestartAvahi, TypeOK
  <2>2. timer' \in BOOLEAN
    BY DEF RestartAvahi, CheckUnbreakTimer
  <2>3. /\ avahi' \in {"none", "running", "failed"}
        /\ announced' \subseteq Net
        /\ resolving' \subseteq Net
    BY DEF RestartAvahi
  <2>4. level' \in NONE .. EXACT
    BY <1>1 DEF TypeOK
  <2>. QED  BY <1>2, <1>5, <1>8, <2>1, <2>2, <2>3, <2>4
            DEF TypeOK, ListTypes, ConnectionTypes
<1>10. LevelIsBest'
  <2>1. CASE avahi = "failed"
    <3>1. refreshIdle' = TRUE
      BY <2>1 DEF RestartAvahi
    <3>. QED  BY <3>1 DEF LevelIsBest
  <2>2. CASE avahi # "failed"
    <3>1. avahi = "none"
      BY <1>1, <2>2 DEF RestartAvahi, TypeOK
    <3>2. Known \subseteq Socket
      BY <3>1 DEF NmeaInv, NetNeedsAvahi
    <3>3. UNCHANGED <<try, broken, accuracy>>
      BY <3>2 DEF RestartAvahi, Known
    <3>4. refreshIdle => refreshIdle'
      BY <2>2, Zenon DEF RestartAvahi
    <3>. QED  BY <3>3, <3>4, LevelKept
  <2>. QED  BY <2>1, <2>2
<1>. QED  BY <1>5, <1>6, <1>7, <1>9, <1>10 DEF NmeaInv

LEMMA StartInv ==
    ASSUME NmeaInv, Start
    PROVE  NmeaInv'
<1>1. TypeOK /\ ConnectedToBest
  BY DEF NmeaInv
<1>2. uses' \in 0 .. MaxUses /\ uses' = uses + 1
  BY <1>1, NmeaAssumption DEF Start, TypeOK
<1>3. CASE RestartAvahi
  BY <1>2, <1>3, RestartAvahiInv DEF Start
<1>4. CASE UNCHANGED <<lists, refreshIdle, browser>> /\ Reconnect
  <2>1. ListTypes'
    BY <1>1, <1>4 DEF TypeOK, ListTypes, lists
  <2>2. active # NULL => uses' > 0
    BY <1>1, <1>2, ActiveInUse DEF TypeOK
  <2>3. ConnectedToBest' /\ ActiveIsHead' /\ ConnectionTypes'
    BY <1>1, <1>4, <2>1, <2>2, ReconnectConnects
  <2>4. Tidy'
    BY <1>4 DEF NmeaInv, Tidy, TimerWhenAllBroken, AgesDiffer, lists
  <2>5. NetNeedsAvahi'
    BY <1>4 DEF NmeaInv, NetNeedsAvahi, Known, lists, browser
  <2>6. LevelIsBest'
    BY <1>4, LevelKept DEF lists, Start
  <2>7. TypeOK'
    <3>1. level' = level
      BY DEF Start
    <3>. QED  BY <1>1, <1>2, <1>4, <2>1, <2>3, <3>1
              DEF TypeOK, ListTypes, ConnectionTypes, lists, browser
  <2>. QED  BY <2>3, <2>4, <2>5, <2>6, <2>7 DEF NmeaInv
<1>. QED  BY <1>3, <1>4 DEF Start

LEMMA StopInv ==
    ASSUME NmeaInv, Stop
    PROVE  NmeaInv'
<1>1. TypeOK /\ ConnectedToBest
  BY DEF NmeaInv
<1>2. uses' \in 0 .. MaxUses /\ uses' = uses - 1
  BY <1>1, NmeaAssumption DEF Stop, TypeOK
<1>3. UNCHANGED <<lists, refreshIdle, level, browser>>
  BY DEF Stop
<1>4. ConnectedToBest' /\ ActiveIsHead' /\ Tidy' /\ ConnectionTypes'
  <2>1. CASE uses' > 0
    <3>1. UNCHANGED connection
      BY <2>1 DEF Stop
    <3>2. active = NULL => try = {}
      BY <1>1, <1>2, <2>1 DEF ConnectedToBest, TypeOK
    <3>3. ConnectedToBest'
      BY <1>1, <1>3, <2>1, <3>1, <3>2
      DEF ConnectedToBest, connection, lists, Connecting, Reading
    <3>4. ActiveIsHead'
      BY <1>3, <3>1 DEF NmeaInv, ActiveIsHead, connection, lists
    <3>5. Tidy'
      BY <1>3 DEF NmeaInv, Tidy, TimerWhenAllBroken, AgesDiffer, lists
    <3>. QED  BY <1>1, <3>1, <3>3, <3>4, <3>5
              DEF TypeOK, ConnectionTypes, connection
  <2>2. CASE ~(uses' > 0)
    <3>1. active' = NULL /\ link' = NULL /\ hungUp' = FALSE /\ pending' = {}
      BY <1>1, <2>2, IdleNothingPending DEF Stop, Disconnect
    <3>2. Tidy'
      BY <1>3 DEF NmeaInv, Tidy, TimerWhenAllBroken, AgesDiffer, lists
    <3>. QED  BY <2>2, <3>1, <3>2
              DEF ConnectedToBest, ActiveIsHead, ConnectionTypes
  <2>. QED  BY <2>1, <2>2
<1>5. NetNeedsAvahi'
  BY <1>3 DEF NmeaInv, NetNeedsAvahi, Known, lists, browser
<1>6. LevelIsBest'
  BY <1>3, LevelKept DEF lists
<1>7. TypeOK'
  BY <1>1, <1>2, <1>3, <1>4 DEF TypeOK, ConnectionTypes, lists, browser
<1>. QED  BY <1>4, <1>5, <1>6, <1>7 DEF NmeaInv

(* What a change of the lists makes of the invariant.                       *)
LEMMA ListsChangedInv ==
    ASSUME NmeaInv, UNCHANGED uses, ListsChanged, ListTypes', AgesDiffer',
           try' \cap broken' = {}
    PROVE  /\ ConnectedToBest' /\ ActiveIsHead' /\ ConnectionTypes' /\ Tidy'
           /\ LevelIsBest'
           /\ timer' \in BOOLEAN /\ refreshIdle' \in BOOLEAN
<1>1. TypeOK /\ ConnectedToBest
  BY DEF NmeaInv
<1>2. Reconnect /\ CheckUnbreakTimer /\ refreshIdle' = TRUE
  BY DEF ListsChanged
<1>3. active # NULL => uses' > 0
  BY ActiveInUse
<1>4. ConnectedToBest' /\ ActiveIsHead' /\ ConnectionTypes'
  BY <1>1, <1>2, <1>3, ReconnectConnects
<1>5. Tidy' /\ timer' \in BOOLEAN
  BY <1>2 DEF Tidy, TimerWhenAllBroken, CheckUnbreakTimer
<1>6. LevelIsBest'
  BY <1>2 DEF LevelIsBest
<1>. QED  BY <1>2, <1>4, <1>5, <1>6

LEMMA WithdrawnInv ==
    ASSUME NmeaInv, NEW s \in Net, Withdrawn(s)
    PROVE  NmeaInv'
<1>1. TypeOK /\ Tidy
  BY DEF NmeaInv
<1>2. ListsChanged /\ UNCHANGED <<uses, accuracy, older, level, avahi, resolving>>
  BY DEF Withdrawn
<1>3. ListTypes' /\ broken' \subseteq Services /\ announced' \subseteq Net
  BY <1>1 DEF Withdrawn, TypeOK, ListTypes
<1>4. AgesDiffer' /\ try' \cap broken' = {}
  BY <1>1, <1>2 DEF Withdrawn, Tidy, AgesDiffer, TimerWhenAllBroken
<1>5. /\ ConnectedToBest' /\ ActiveIsHead' /\ ConnectionTypes' /\ Tidy'
      /\ LevelIsBest'
      /\ timer' \in BOOLEAN /\ refreshIdle' \in BOOLEAN
  BY <1>2, <1>3, <1>4, ListsChangedInv
<1>6. NetNeedsAvahi'
  BY DEF Withdrawn, NetNeedsAvahi
<1>7. TypeOK'
  BY <1>1, <1>2, <1>3, <1>5 DEF TypeOK, ListTypes, ConnectionTypes
<1>. QED  BY <1>5, <1>6, <1>7 DEF NmeaInv

LEMMA FoundInv ==
    ASSUME NmeaInv, NEW s \in Net, NEW lvl \in Levels, Found(s, lvl)
    PROVE  NmeaInv'
<1>1. TypeOK /\ Tidy
  BY DEF NmeaInv
<1>2. /\ avahi' = "running"
      /\ resolving' \subseteq Net
      /\ UNCHANGED <<uses, level, avahi, announced>>
  BY <1>1 DEF Found, TypeOK
<1>3. NetNeedsAvahi'
  BY <1>2 DEF NetNeedsAvahi
<1>4. CASE s \in Known
  <2>1. UNCHANGED <<connection, lists, refreshIdle>>
    BY <1>4 DEF Found
  <2>2. ConnectedToBest' /\ ActiveIsHead' /\ Tidy' /\ ConnectionTypes'
    BY <1>2, <2>1, ConnectionKept
  <2>3. LevelIsBest'
    BY <1>2, <2>1, LevelKept DEF lists
  <2>4. TypeOK'
    BY <1>1, <1>2, <2>1, <2>2 DEF TypeOK, ConnectionTypes, lists
  <2>. QED  BY <1>3, <2>2, <2>3, <2>4 DEF NmeaInv
<1>5. CASE s \notin Known
  <2>1. /\ try' = try \cup {s}
        /\ accuracy' = [accuracy EXCEPT ![s] = lvl]
        /\ older' = {p \in older : s \notin {p[1], p[2]}}
                       \cup {<<t, s>> : t \in Known}
        /\ UNCHANGED broken
        /\ ListsChanged
    BY <1>5 DEF Found
  <2>2. lvl \in NONE .. EXACT /\ s \in Services
    BY NmeaAssumption DEF Services
  <2>3. ListTypes'
    BY <1>1, <2>1, <2>2 DEF TypeOK, ListTypes
  <2>4. older' \subseteq Services \X Services
    BY <1>1, <2>1, <2>2 DEF TypeOK, Known
  <2>5. AgesDiffer'
    <3> SUFFICES ASSUME NEW t \in Services, NEW u \in Services,
                        <<t, u>> \in older', <<u, t>> \in older'
                 PROVE  FALSE
      BY DEF AgesDiffer
    <3>1. CASE <<t, u>> \in older /\ s \notin {t, u}
      <4>1. <<u, t>> \in older
        BY <2>1, <3>1
      <4>. QED  BY <1>1, <3>1, <4>1 DEF Tidy, AgesDiffer
    <3>2. CASE u = s /\ t \in Known
      <4>1. t = s
        BY <2>1, <3>2
      <4>. QED  BY <1>5, <3>2, <4>1
    <3>. QED  BY <2>1, <3>1, <3>2
  <2>6. try' \cap broken' = {}
    BY <1>1, <1>5, <2>1 DEF Known, Tidy, TimerWhenAllBroken
  <2>7. /\ ConnectedToBest' /\ ActiveIsHead' /\ ConnectionTypes' /\ Tidy'
        /\ LevelIsBest'
        /\ timer' \in BOOLEAN /\ refreshIdle' \in BOOLEAN
    BY <1>2, <2>1, <2>3, <2>5, <2>6, ListsChangedInv
  <2>8. TypeOK'
    BY <1>1, <1>2, <2>1, <2>3, <2>4, <2>7 DEF TypeOK, ListTypes, ConnectionTypes
  <2>. QED  BY <1>3, <2>7, <2>8 DEF NmeaInv
<1>. QED  BY <1>4, <1>5

(* News of the browser that changes no list.                                *)
LEMMA NoNewsInv ==
    ASSUME NmeaInv, UNCHANGED <<uses, connection, lists, refreshIdle, level>>,
           announced' \subseteq Net, resolving' \subseteq Net,
           avahi' \in {"none", "running", "failed"}, avahi' # "none"
    PROVE  NmeaInv'
<1>1. ConnectedToBest' /\ ActiveIsHead' /\ Tidy' /\ ConnectionTypes'
  BY ConnectionKept
<1>2. LevelIsBest'
  BY LevelKept DEF lists
<1>3. TypeOK'
  BY <1>1 DEF NmeaInv, TypeOK, ConnectionTypes, lists
<1>. QED  BY <1>1, <1>2, <1>3 DEF NmeaInv, NetNeedsAvahi

(* A service is resolved only while Avahi is there.                         *)
LEMMA NotFoundInv ==
    ASSUME NmeaInv, NEW s \in Net, NotFound(s)
    PROVE  NmeaInv'
<1>1. avahi' # "none"
  BY DEF NmeaInv, NetNeedsAvahi, NotFound
<1>. QED  BY <1>1, NoNewsInv DEF NotFound, NmeaInv, TypeOK

LEMMA BrowserInv ==
    ASSUME NmeaInv, BrowserSays
    PROVE  NmeaInv'
<1>1. ASSUME NEW s \in Net, Announced(s) PROVE NmeaInv'
  BY <1>1, NoNewsInv DEF Announced, NmeaInv, TypeOK
<1>2. ASSUME AvahiFails PROVE NmeaInv'
  BY <1>2, NoNewsInv DEF AvahiFails, NmeaInv, TypeOK
<1>. QED  BY <1>1, <1>2, WithdrawnInv, FoundInv, NotFoundInv DEF BrowserSays

(* What a step on the connection alone leaves to show.                      *)
LEMMA OnlyConnection ==
    ASSUME NmeaInv, UNCHANGED <<uses, lists, refreshIdle, level, browser>>,
           ConnectedToBest', ConnectionTypes', active' = active
    PROVE  NmeaInv'
<1>1. TypeOK'
  BY DEF NmeaInv, TypeOK, ConnectionTypes, lists, browser
<1>2. ActiveIsHead'
  BY DEF NmeaInv, ActiveIsHead, lists
<1>3. Tidy'
  BY DEF NmeaInv, Tidy, TimerWhenAllBroken, AgesDiffer, lists
<1>4. NetNeedsAvahi'
  BY DEF NmeaInv, NetNeedsAvahi, Known, lists, browser
<1>5. LevelIsBest'
  BY LevelKept DEF lists
<1>. QED  BY <1>1, <1>2, <1>3, <1>4, <1>5 DEF NmeaInv

(* An operation that ends belongs to the active service.                    *)
LEMMA PendingIsActive ==
    ASSUME NmeaInv, NEW p \in pending
    PROVE  /\ active # NULL
           /\ p = IF link = NULL THEN Connecting(active) ELSE Reading(active)
           /\ pending = {p}
  BY DEF NmeaInv, ConnectedToBest

LEMMA ConnectedInv ==
    ASSUME NmeaInv, NEW p \in pending, Connected(p)
    PROVE  NmeaInv'
<1>1. active # NULL /\ active \in Services
  BY PendingIsActive, ActiveInUse
<1>2. p = Connecting(active) /\ pending = {p}
  BY PendingIsActive DEF Connected, Reading
<1>3. p.service = active
  BY <1>2 DEF Connecting
<1>4. active' = active /\ link' = active /\ pending' = {Reading(active)}
  BY <1>2, <1>3 DEF Connected
<1>5. UNCHANGED <<uses, lists, hungUp, refreshIdle, level, browser>>
  BY DEF Connected
<1>6. ConnectedToBest'
  <2>1. /\ active # NULL <=> uses > 0 /\ try # {}
        /\ active # NULL =>
              /\ active \in try
              /\ \A s \in try : accuracy[s] <= accuracy[active]
    BY DEF NmeaInv, ConnectedToBest
  <2>. QED  BY <1>1, <1>4, <1>5, <2>1 DEF ConnectedToBest, Reading, lists
<1>7. ConnectionTypes'
  <2>1. Reading(active) \in [service : Services, kind : {"connect", "read"}]
    BY <1>1 DEF Reading
  <2>. QED  BY <1>1, <1>4, <1>5, <2>1 DEF NmeaInv, TypeOK, ConnectionTypes
<1>. QED  BY <1>4, <1>5, <1>6, <1>7, OnlyConnection

LEMMA HangsUpInv ==
    ASSUME NmeaInv, NEW p \in pending, HangsUp(p)
    PROVE  NmeaInv'
<1>1. ConnectedToBest'
  BY DEF NmeaInv, HangsUp, ConnectedToBest, lists, Connecting, Reading
<1>2. ConnectionTypes'
  BY DEF NmeaInv, TypeOK, HangsUp, ConnectionTypes
<1>. QED  BY <1>1, <1>2, OnlyConnection DEF HangsUp

LEMMA OperationFailsInv ==
    ASSUME NmeaInv, NEW p \in pending, OperationFails(p)
    PROVE  NmeaInv'
<1>1. TypeOK /\ ConnectedToBest /\ Tidy
  BY DEF NmeaInv
<1>2. active \in Services /\ active \in try
  BY PendingIsActive, ActiveInUse
<1>3. /\ try' = try \ {active}
      /\ broken' = broken \cup {active}
      /\ UNCHANGED <<accuracy, older, uses, level, browser>>
      /\ CheckUnbreakTimer
      /\ Connect
      /\ refreshIdle' = TRUE
  BY DEF OperationFails, ServiceBroken
<1>4. ListTypes' /\ broken' \subseteq Services /\ timer' \in BOOLEAN
  BY <1>1, <1>2, <1>3 DEF TypeOK, ListTypes, CheckUnbreakTimer
<1>5. ConnectedToBest' /\ ActiveIsHead' /\ ConnectionTypes'
  BY <1>1, <1>3, <1>4, ConnectConnects
<1>6. Tidy'
  BY <1>1, <1>3 DEF Tidy, TimerWhenAllBroken, AgesDiffer, CheckUnbreakTimer
<1>7. NetNeedsAvahi'
  <2>1. try' \cup broken' = try \cup broken
    BY <1>2, <1>3
  <2>. QED  BY <1>3, <2>1 DEF NmeaInv, NetNeedsAvahi, Known, browser
<1>8. LevelIsBest'
  BY <1>3 DEF LevelIsBest
<1>9. TypeOK'
  BY <1>1, <1>3, <1>4, <1>5 DEF TypeOK, ListTypes, ConnectionTypes, browser
<1>. QED  BY <1>5, <1>6, <1>7, <1>8, <1>9 DEF NmeaInv

LEMMA UnbreakInv ==
    ASSUME NmeaInv, Unbreak
    PROVE  NmeaInv'
<1>1. TypeOK /\ ConnectedToBest /\ Tidy
  BY DEF NmeaInv
<1>2. try = {} /\ broken # {}
  BY <1>1 DEF Unbreak, Tidy, TimerWhenAllBroken
<1>3. /\ timer' = FALSE
      /\ UNCHANGED <<uses, refreshIdle, level, browser, accuracy, older>>
      /\ try' = broken
      /\ broken' = {}
      /\ Reconnect
  BY <1>2 DEF Unbreak
<1>4. ListTypes'
  BY <1>1, <1>3 DEF TypeOK, ListTypes
<1>5. ConnectedToBest' /\ ActiveIsHead' /\ ConnectionTypes'
  BY <1>1, <1>3, <1>4, ActiveInUse, ReconnectConnects
<1>6. Tidy'
  BY <1>1, <1>2, <1>3 DEF Tidy, TimerWhenAllBroken, AgesDiffer
<1>7. Known' = Known
  BY <1>2, <1>3 DEF Known
<1>8. NetNeedsAvahi'
  BY <1>3, <1>7 DEF NmeaInv, NetNeedsAvahi, browser
<1>9. LevelIsBest'
  BY <1>3, <1>7 DEF NmeaInv, LevelIsBest
<1>10. TypeOK'
  BY <1>1, <1>3, <1>4, <1>5 DEF TypeOK, ListTypes, ConnectionTypes, browser
<1>. QED  BY <1>5, <1>6, <1>8, <1>9, <1>10 DEF NmeaInv

LEMMA RefreshLevelInv ==
    ASSUME NmeaInv, RefreshLevel
    PROVE  NmeaInv'
<1>1. TypeOK
  BY DEF NmeaInv
<1>2. UNCHANGED <<uses, lists, connection, browser>> /\ refreshIdle' = FALSE
  BY DEF RefreshLevel
<1>3. ConnectedToBest' /\ ActiveIsHead' /\ Tidy' /\ ConnectionTypes'
  BY <1>2, ConnectionKept
<1>4. NetNeedsAvahi'
  BY <1>2 DEF NmeaInv, NetNeedsAvahi, Known, lists, browser
<1>5. UNCHANGED <<try, broken, accuracy>>
  BY <1>2 DEF lists
<1>6. level' \in NONE .. EXACT /\ LevelIsBest'
  <2>1. CASE Known = {}
    BY <1>5, <2>1 DEF RefreshLevel, LevelIsBest, Known, NONE, EXACT
  <2>2. CASE Known # {}
    <3> DEFINE known == {accuracy[s] : s \in Known}
    <3>1. known \in SUBSET (0 .. 8) /\ known # {}
      BY <1>1, <2>2 DEF TypeOK, Known, NONE, EXACT
    <3>2. \E l \in known : \A x \in known : x <= l
      <4> HIDE DEF known
      <4>. QED  BY <3>1, HighestLevel
    <3>3. \E l \in known : \A s \in Known : accuracy[s] <= l
      BY <3>2
    <3>4. level' = CHOOSE l \in known : \A s \in Known : accuracy[s] <= l
      BY <2>2 DEF RefreshLevel
    <3>5. level' \in known /\ \A s \in Known : accuracy[s] <= level'
      <4> HIDE DEF known
      <4>. QED  BY <3>3, <3>4
    <3>6. \E s \in Known : accuracy[s] = level'
      BY <3>5
    <3>7. Known' = Known /\ accuracy' = accuracy
      BY <1>5 DEF Known
    <3>8. LevelIsBest'
      BY <3>5, <3>6, <3>7 DEF LevelIsBest
    <3>. QED  BY <3>1, <3>5, <3>8 DEF NONE, EXACT
  <2>. QED  BY <2>1, <2>2
<1>7. TypeOK'
  BY <1>1, <1>2, <1>3, <1>6 DEF TypeOK, ConnectionTypes, lists, browser
<1>. QED  BY <1>3, <1>4, <1>6, <1>7 DEF NmeaInv

LEMMA NextInv ==
    ASSUME NmeaInv, [Next]_vars
    PROVE  NmeaInv'
<1>1. CASE GetSingleton
  <2>1. uses' \in 0 .. MaxUses /\ uses' = uses
    BY <1>1 DEF NmeaInv, TypeOK, GetSingleton
  <2>. QED  BY <1>1, <2>1, RestartAvahiInv DEF GetSingleton
<1>2. CASE UNCHANGED vars
  BY <1>2, OnlyConnection
  DEF NmeaInv, TypeOK, ConnectionTypes, ConnectedToBest, Connecting, Reading,
      vars, lists, browser
<1>. QED  BY <1>1, <1>2, StartInv, StopInv, BrowserInv, ConnectedInv,
             OperationFailsInv, HangsUpInv, UnbreakInv, RefreshLevelInv DEF Next

----------------------------------------------------------------------------
(* A connection is left for the head of the new list.  Were that not more   *)
(* accurate, then it was known, and older, before.                          *)
LEMMA ReconnectLeaves ==
    ASSUME NmeaInv, ListTypes', Reconnect,
           active # NULL, active' # active, uses' > 0, active \in try',
           accuracy'[active] = accuracy[active],
           \A t \in try' : t # active /\ <<t, active>> \in older' =>
               /\ t \in try
               /\ <<t, active>> \in older
               /\ accuracy'[t] = accuracy[t]
    PROVE  \E s \in try' : accuracy'[s] > accuracy[active]
<1>1. Connect
  BY DEF Reconnect, connection
<1>2. PICK s \in try' : IsHead(s) /\ active' = s
  BY <1>1 DEF Connect
<1>3. Before(s, active)
  BY <1>2 DEF IsHead
<1>4. CASE accuracy'[s] > accuracy'[active]
  BY <1>4
<1>5. CASE accuracy'[s] = accuracy'[active] /\ <<s, active>> \in older'
  <2>1. /\ s \in try
        /\ <<s, active>> \in older
        /\ accuracy[s] = accuracy[active]
    BY <1>2, <1>5
  <2>2. accuracy[s] \in 0 .. 8 /\ s \in Services /\ active \in Services
    BY <2>1, ActiveInUse DEF NmeaInv, TypeOK, NONE, EXACT
  <2>3. ~(accuracy[active] > accuracy[s])
    BY <2>1, <2>2
  <2>4. <<active, s>> \in older
    BY <1>2, <2>1, <2>3 DEF NmeaInv, ActiveIsHead
  <2>. QED  BY <2>1, <2>2, <2>4 DEF NmeaInv, Tidy, AgesDiffer
<1>. QED  BY <1>3, <1>4, <1>5, Zenon DEF Before

(* When services only go, nothing is better than the one in use.            *)
LEMMA FewerLeaves ==
    ASSUME NmeaInv, Reconnect, try' \subseteq try, UNCHANGED <<accuracy, older>>,
           active # NULL, active' # active, uses' > 0, active \in try'
    PROVE  \E s \in try' : accuracy'[s] > accuracy[active]
<1>1. ListTypes'
  BY DEF NmeaInv, TypeOK, ListTypes
<1>. QED  BY <1>1, ReconnectLeaves

LEMMA FoundLeaves ==
    ASSUME NmeaInv, NEW s \in Net, NEW lvl \in Levels, Found(s, lvl),
           active # NULL, active' # active
    PROVE  \E t \in try' : accuracy'[t] > accuracy[active]
<1>1. s \notin Known
  BY DEF Found, connection
<1>2. active \in try /\ active # s /\ uses' > 0
  BY <1>1, ActiveInUse DEF Known, Found
<1>3. /\ try' = try \cup {s}
      /\ accuracy' = [accuracy EXCEPT ![s] = lvl]
      /\ older' = {p \in older : s \notin {p[1], p[2]}}
                     \cup {<<t, s>> : t \in Known}
      /\ Reconnect
  BY <1>1 DEF Found, ListsChanged
<1>4. lvl \in NONE .. EXACT /\ s \in Services
  BY NmeaAssumption DEF Services
<1>5. ListTypes'
  BY <1>3, <1>4 DEF NmeaInv, TypeOK, ListTypes
<1>6. accuracy'[active] = accuracy[active]
  BY <1>2, <1>3 DEF NmeaInv, TypeOK
<1>7. ASSUME NEW t \in try', t # active, <<t, active>> \in older'
      PROVE  t \in try /\ <<t, active>> \in older /\ accuracy'[t] = accuracy[t]
  <2>1. <<t, active>> \in older /\ s # t
    BY <1>2, <1>3, <1>7
  <2>. QED  BY <1>3, <1>7, <2>1 DEF NmeaInv, TypeOK
<1>. QED  BY <1>2, <1>3, <1>5, <1>6, <1>7, ReconnectLeaves

LEMMA RestartLeaves ==
    ASSUME NmeaInv, RestartAvahi,
           active # NULL, active' # active, uses' > 0, active \in try'
    PROVE  \E s \in try' : accuracy'[s] > accuracy[active]
  BY FewerLeaves DEF RestartAvahi

LEMMA StayStep ==
    ASSUME NmeaInv, [Next]_vars, active # NULL, active' # active,
           uses' # 0, active \in try'
    PROVE  \E s \in try' : accuracy'[s] > accuracy[active]
<1>1. uses \in Nat /\ uses > 0
  BY ActiveInUse, NmeaAssumption DEF NmeaInv, TypeOK
<1>2. CASE GetSingleton
  BY <1>1, <1>2, RestartLeaves DEF GetSingleton
<1>3. CASE Start
  <2>1. uses' > 0
    BY <1>1, <1>3 DEF Start
  <2>2. CASE RestartAvahi
    BY <2>1, <2>2, RestartLeaves
  <2>3. CASE Reconnect /\ UNCHANGED lists
    BY <2>1, <2>3, FewerLeaves DEF lists
  <2>. QED  BY <1>3, <2>2, <2>3 DEF Start
<1>4. CASE Stop
  <2>1. uses' > 0
    BY <1>1, <1>4 DEF Stop
  <2>. QED  BY <1>4, <2>1 DEF Stop, connection
<1>5. CASE BrowserSays
  <2>1. ASSUME NEW s \in Net, Announced(s) PROVE FALSE
    BY <2>1 DEF Announced, connection
  <2>2. ASSUME NEW s \in Net, Withdrawn(s)
        PROVE  \E t \in try' : accuracy'[t] > accuracy[active]
    <3>1. uses' > 0 /\ try' \subseteq try /\ Reconnect
      BY <1>1, <2>2 DEF Withdrawn, ListsChanged
    <3>2. UNCHANGED <<accuracy, older>>
      BY <2>2 DEF Withdrawn
    <3>. QED  BY <3>1, <3>2, FewerLeaves
  <2>3. ASSUME NEW s \in Net, NotFound(s) PROVE FALSE
    BY <2>3 DEF NotFound, connection
  <2>4. ASSUME AvahiFails PROVE FALSE
    BY <2>4 DEF AvahiFails, connection
  <2>. QED  BY <1>5, <2>1, <2>2, <2>3, <2>4, FoundLeaves DEF BrowserSays
<1>6. ASSUME NEW p \in pending, Connected(p) \/ OperationFails(p) \/ HangsUp(p)
      PROVE  FALSE
  BY <1>6 DEF Connected, OperationFails, ServiceBroken, HangsUp
<1>7. CASE Unbreak
  <2>1. try = {}
    BY <1>7 DEF NmeaInv, Tidy, TimerWhenAllBroken, Unbreak
  <2>. QED  BY <2>1, ActiveInUse
<1>8. CASE RefreshLevel
  BY <1>8 DEF RefreshLevel, connection
<1>9. CASE UNCHANGED vars
  BY <1>9 DEF vars
<1>. QED  BY <1>2, <1>3, <1>4, <1>5, <1>6, <1>7, <1>8, <1>9 DEF Next

----------------------------------------------------------------------------
(* The invariant holds of every behaviour of the source.                    *)
THEOREM NmeaInvariant == Spec => []NmeaInv
  BY InitInv, NextInv, PTL DEF Spec

(* Lists, connection and timers stay within their types, for any services   *)
(* and users.                                                               *)
THEOREM NmeaTypes == Spec => []TypeOK
<1>1. NmeaInv => TypeOK
  BY DEF NmeaInv
<1>. QED  BY <1>1, NmeaInvariant, PTL

(* disconnect_from_service and reconnect_service keep a source that is in   *)
(* use connected to a most accurate of the services left to try, with one   *)
(* operation on its way.                                                    *)
THEOREM AlwaysConnectedToBest == Spec => []ConnectedToBest
<1>1. NmeaInv => ConnectedToBest
  BY DEF NmeaInv
<1>. QED  BY <1>1, NmeaInvariant, PTL

(* check_unbreak_timer, called with every change of the lists, has the      *)
(* timer run exactly while all services are broken.                         *)
THEOREM TimerAlwaysWhenAllBroken == Spec => []TimerWhenAllBroken
<1>1. NmeaInv => TimerWhenAllBroken
  BY DEF NmeaInv, Tidy
<1>. QED  BY <1>1, NmeaInvariant, PTL

(* No change of the services goes by without the level being refreshed.     *)
THEOREM LevelAlwaysBest == Spec => []LevelIsBest
<1>1. NmeaInv => LevelIsBest
  BY DEF NmeaInv
<1>. QED  BY <1>1, NmeaInvariant, PTL

(* reconnection_required: a service in use is not left for one that is no   *)
(* better.                                                                  *)
THEOREM AlwaysStaysConnected == Spec => StaysConnected
<1>1. NmeaInv /\ [Next]_vars =>
        [active # NULL /\ active' # active =>
           \/ uses' = 0
           \/ active \notin try'
           \/ \E s \in try' : accuracy'[s] > accuracy[active]]_vars
  BY StayStep
<1>. QED  BY <1>1, NmeaInvariant, PTL DEF Spec, StaysConnected
=============================================================================
