------------------------- MODULE ModemManagerProofs ------------------------
(***************************************************************************)
(* Proofs about ModemManager, for any 3G sources, modems, capabilities and *)
(* towers.                                                                 *)
(*                                                                         *)
(* The properties are invariants only together, and with four more facts,  *)
(* the parts of ModemInv that have no name in ModemManager: no location of *)
(* 3GPP means no tower; the modem in use, while it is watched, is          *)
(* connected; each running 3G source has its own timer; and location_3gpp, *)
(* which is_location_3gpp_same compares with, is the tower of the queries. *)
(***************************************************************************)
EXTENDS ModemManager, TLAPS

----------------------------------------------------------------------------
Carried(t) == IF t \in Unknown THEN None ELSE t

SeenBeforeTower ==
    /\ seen = None => tower = None
    /\ Running = {} => tower = None
    /\ timers \subseteq Running

WatchedIsConnected == used \in watched => connected

(* The running 3G sources that are set up on a modem which heard them.      *)
Heard == Available("3gpp") /\ ~lapsed /\ ~unheard

EachHasTimer ==
    \A s \in Running :
       Heard /\ s \notin setups /\ ~ignore /\ tower # None => s \in timers

Settled == Heard /\ Running # {} /\ setups \cap Threegs = {}

SeenIsCarried == Settled /\ ~ignore => tower = Carried(seen)

SeenIsCurrent ==
    Settled /\ cell \notin Anonymous => seen = cell /\ tower = Carried(cell)

ModemInv ==
    /\ TypeOK
    /\ NothingLeftOfGone
    /\ SeenBeforeTower
    /\ WatchedIsConnected
    /\ RunningSourceAsks
    /\ EachHasTimer
    /\ SeenIsCarried
    /\ SeenIsCurrent

----------------------------------------------------------------------------
(* What the operators of ModemManager do.                                   *)

LEMMA Kinded ==
    /\ \A s \in Sources : Kind(s) \in Kinds /\ (Kind(s) = "3gpp" <=> s \in Threegs)
    /\ "cdma" \notin Threegs /\ "gps" \notin Threegs
    /\ Kind("cdma") = "cdma" /\ Kind("gps") = "gps"
  BY ModemAssumption DEF Sources, Kind, Kinds

LEMMA NoTower == Carried(None) = None /\ None \notin Anonymous
  BY ModemAssumption DEF Carried

(* NotifyAvailable sets up every active source that is available.           *)
LEMMA Notified ==
    ASSUME TypeOK, NEW K \in SUBSET Kinds, NotifyAvailable(K)
    PROVE  /\ caps \subseteq caps' /\ caps' \in SUBSET Kinds
           /\ setups \subseteq setups' /\ setups' \in SUBSET Sources
           /\ \A s \in active : Kind(s) \in K /\ Available(Kind(s))'
                 => Kind(s) \in caps' /\ s \in setups'
  BY Kinded DEF TypeOK, NotifyAvailable

(* Availability is that of the modem in use.                                *)
LEMMA AvailableSame ==
    ASSUME UNCHANGED <<used, connected>>, used \in enabled' <=> used \in enabled,
           NEW k
    PROVE  Available(k)' <=> Available(k)
  BY DEF Available

LEMMA Cleared ==
    ASSUME TypeOK, SeenBeforeTower, NEW f \in BOOLEAN, Clear3gpp(f)
    PROVE  /\ seen' = None /\ tower' = None
           /\ timers' \subseteq timers
  BY DEF SeenBeforeTower, Clear3gpp, FixLost

(* A location is taken as it is, or left for one of two reasons.            *)
Taken(t) ==
    /\ seen' = t
    /\ ignore' = FALSE /\ unheard' = FALSE
    /\ tower' = IF Running = {} THEN None ELSE Carried(t)
    /\ timers' \in SUBSET Threegs /\ timers' \subseteq timers \cup Running
    /\ t # None => timers' = timers \cup Running

Left(t, forced) ==
    /\ t # None /\ ignore' = forced
    /\ UNCHANGED <<seen, tower, timers, unheard>>
    /\ t \in Anonymous \/ (t = seen /\ ~forced)

LEMMA LocationEffect ==
    ASSUME TypeOK, SeenBeforeTower, NEW f \in BOOLEAN, NEW t \in Towers \cup {None},
           LocationChanged(t, f)
    PROVE  Taken(t) \/ Left(t, f)
<1>1. CASE t = None
  <2>1. Clear3gpp(f) /\ ignore' = FALSE /\ unheard' = FALSE
    BY <1>1 DEF LocationChanged
  <2>2. Taken(t)
    BY <1>1, <2>1, Cleared, NoTower DEF Taken, TypeOK
  <2>. QED  BY <2>2
<1>2. CASE t # None /\ (t \in Anonymous \/ (t = seen /\ ~f))
  BY <1>2 DEF LocationChanged, Left
<1>3. CASE t # None /\ ~(t \in Anonymous \/ (t = seen /\ ~f))
  <2>1. seen' = t /\ ignore' = FALSE /\ FixFound(t) /\ unheard' = FALSE
    BY <1>3 DEF LocationChanged
  <2>2. tower' = IF Running = {} THEN None ELSE Carried(t)
    BY <2>1 DEF FixFound, Carried, SeenBeforeTower
  <2>3. timers' = timers \cup Running /\ timers' \in SUBSET Threegs
    BY <2>1 DEF FixFound, TypeOK, Running
  <2>. QED  BY <2>1, <2>2, <2>3 DEF Taken
<1>. QED  BY <1>1, <1>2, <1>3

(* try_modem takes the modem and sets its sources up, or leaves all alone.  *)
LEMMA TryModemEffect ==
    ASSUME TypeOK, NEW m \in Modems, TryModem(m), enabled' \in SUBSET Modems
    PROVE  \/ /\ m \in located' /\ used' = m /\ connected' = TRUE /\ lapsed' = FALSE
              /\ cell' \in Towers \cup {None}
              /\ caps' \in SUBSET Kinds /\ setups' \in SUBSET Sources
              /\ \A s \in active : Available(Kind(s))' => Kind(s) \in caps' /\ s \in setups'
           \/ UNCHANGED <<used, cell, connected, lapsed, caps, setups>>
<1>1. CASE m \in located'
  <2>. DEFINE K == IF m \in enabled' THEN Kinds ELSE {"gps"}
  <2>1. used' = m /\ connected' = TRUE /\ lapsed' = FALSE
        /\ cell' \in Towers \cup {None} /\ NotifyAvailable(K)
    BY <1>1 DEF TryModem
  <2>2. K \in SUBSET Kinds
    BY DEF Kinds
  <2>3. \A s \in active : Available(Kind(s))' => Kind(s) \in K
    BY <2>1, Kinded DEF Available, TypeOK
  <2>. HIDE DEF K
  <2>. QED  BY <1>1, <2>1, <2>2, <2>3, Notified
<1>2. CASE m \notin located'
  BY <1>2 DEF TryModem
<1>. QED  BY <1>1, <1>2

----------------------------------------------------------------------------
(* Types.                                                                   *)

LEMMA TypeInit == Init => TypeOK
  BY DEF Init, TypeOK

LEMMA TypeStep ==
    ASSUME TypeOK, SeenBeforeTower, [Next]_vars
    PROVE  TypeOK'
<1>. USE DEF world, tracking, fixes, Steady
<1>1. ASSUME NEW m \in Modems, ModemAdded(m) PROVE TypeOK'
  <2>1. enabled' \in SUBSET Modems /\ enabled' \subseteq present'
        /\ located' \subseteq present' /\ present' \subseteq Modems
        /\ UNCHANGED <<up, fixes, active>>
    BY <1>1 DEF ModemAdded, TypeOK
  <2>2. CASE UNCHANGED <<tracking, caps, setups, lapsed>>
    BY <2>1, <2>2 DEF TypeOK
  <2>3. CASE notEnabled' = notEnabled \cup ({m} \ enabled')
             /\ watched' = watched \cup ({m} \ enabled') /\ TryModem(m)
    <3>1. notEnabled' \subseteq Modems /\ watched' \subseteq Modems
      BY <2>3 DEF TypeOK
    <3>2. /\ used' \in Modems \cup {None} /\ connected' \in BOOLEAN
          /\ lapsed' \in BOOLEAN /\ cell' \in Towers \cup {None}
          /\ caps' \subseteq Kinds /\ setups' \subseteq Sources
      BY <2>1, <2>3, TryModemEffect DEF TypeOK
    <3>. QED  BY <2>1, <3>1, <3>2 DEF TypeOK
  <2>. QED  BY <1>1, <2>2, <2>3 DEF ModemAdded
<1>2. ASSUME NEW m \in Modems, ModemRemoved(m) PROVE TypeOK'
  <2>1. seen' = None /\ tower' = None /\ timers' \subseteq timers
    BY <1>2, Cleared DEF ModemRemoved, TypeOK
  <2>2. /\ present' \subseteq Modems /\ enabled' \subseteq present'
        /\ located' \subseteq present' /\ watched' \subseteq Modems
        /\ UNCHANGED active
    BY <1>2 DEF ModemRemoved, Unplugged, TypeOK
  <2>. QED  BY <1>2, <2>1, <2>2 DEF ModemRemoved, TypeOK
<1>3. ASSUME NEW m \in Modems, OtherRemoved(m) PROVE TypeOK'
  BY <1>3 DEF OtherRemoved, Unplugged, TypeOK
<1>4. ASSUME NEW m \in Modems, ModemEnabled(m) PROVE TypeOK'
  <2>1. /\ enabled' \in SUBSET Modems /\ enabled' \subseteq present'
        /\ located' \subseteq present' /\ present' \subseteq Modems
        /\ notEnabled' \subseteq Modems /\ watched' \subseteq Modems
        /\ UNCHANGED <<up, fixes, active>>
    BY <1>4 DEF ModemEnabled, Enabled, TypeOK
  <2>2. /\ used' \in Modems \cup {None} /\ connected' \in BOOLEAN
        /\ lapsed' \in BOOLEAN /\ cell' \in Towers \cup {None}
        /\ caps' \subseteq Kinds /\ setups' \subseteq Sources
    <3>1. CASE TryModem(m)
      BY <2>1, <3>1, TryModemEffect DEF TypeOK
    <3>2. CASE connected' = (m \in located') /\ UNCHANGED <<used, cell, lapsed>>
               /\ NotifyAvailable({"3gpp", "cdma"})
      <4>1. {"3gpp", "cdma"} \in SUBSET Kinds
        BY DEF Kinds
      <4>. QED  BY <3>2, <4>1, Notified DEF TypeOK
    <3>3. CASE UNCHANGED <<used, cell, connected, lapsed, caps, setups>>
      BY <3>3 DEF TypeOK
    <3>. QED  BY <1>4, <3>1, <3>2, <3>3 DEF ModemEnabled
  <2>. QED  BY <2>1, <2>2 DEF TypeOK
<1>5. ASSUME NEW m \in Modems, ModemEnabledUnnoticed(m) PROVE TypeOK'
  BY <1>5 DEF ModemEnabledUnnoticed, Enabled, TypeOK
<1>6. ASSUME NEW m \in Modems, ModemDisabled(m) PROVE TypeOK'
  BY <1>6 DEF ModemDisabled, TypeOK
<1>7. ASSUME NEW s \in Sources, Start(s) PROVE TypeOK'
  BY <1>7, Kinded DEF Start, TypeOK
<1>8. ASSUME NEW s \in Sources, Stop3g(s) PROVE TypeOK'
  BY <1>8 DEF Stop3g, TypeOK
<1>9. ASSUME NEW s \in Sources, SetupDone(s) PROVE TypeOK'
  <2>1. /\ seen' \in Towers \cup {None} /\ tower' \in Towers \cup {None}
        /\ ignore' \in BOOLEAN /\ unheard' \in BOOLEAN /\ timers' \subseteq Threegs
    <3>1. CASE LocationChanged(cell, TRUE)
      BY <3>1, LocationEffect DEF TypeOK, Taken, Left, Carried
    <3>2. CASE ignore' = TRUE /\ UNCHANGED <<seen, tower, timers, unheard>>
      BY <3>2 DEF TypeOK
    <3>. QED  BY <1>9, <3>1, <3>2 DEF SetupDone
  <2>. QED  BY <1>9, <2>1 DEF SetupDone, TypeOK
<1>10. ASSUME NEW s \in Sources, SetupFailed(s) PROVE TypeOK'
  BY <1>10 DEF SetupFailed, TypeOK
<1>11. ASSUME NEW s \in Sources, TimerEnds(s) PROVE TypeOK'
  BY <1>11 DEF TimerEnds, TypeOK
<1>12. CASE CellMoves
  <2>0. cell' \in Towers \cup {None}
    BY <1>12 DEF CellMoves
  <2>1. /\ seen' \in Towers \cup {None} /\ tower' \in Towers \cup {None}
        /\ ignore' \in BOOLEAN /\ unheard' \in BOOLEAN /\ timers' \subseteq Threegs
    <3>1. CASE LocationChanged(cell', ignore)
      <4>1. ignore \in BOOLEAN
        BY DEF TypeOK
      <4>2. Taken(cell') \/ Left(cell', ignore)
        BY <2>0, <3>1, <4>1, LocationEffect
      <4>. QED  BY <2>0, <4>1, <4>2 DEF TypeOK, Taken, Left, Carried
    <3>2. CASE UNCHANGED fixes
      BY <3>2 DEF TypeOK
    <3>. QED  BY <1>12, <3>1, <3>2 DEF CellMoves
  <2>. QED  BY <1>12, <2>0, <2>1 DEF CellMoves, TypeOK
<1>13. CASE StopCdma
  <2>1. seen' \in Towers \cup {None} /\ tower' \in Towers \cup {None}
        /\ timers' \subseteq Threegs
    BY <1>13, Cleared DEF StopCdma, TypeOK
  <2>. QED  BY <1>13, <2>1 DEF StopCdma, TypeOK
<1>14. CASE StopGps
  BY <1>14 DEF StopGps, TypeOK
<1>15. CASE UNCHANGED vars
  BY <1>15 DEF vars, TypeOK
<1>. QED  BY <1>1, <1>2, <1>3, <1>4, <1>5, <1>6, <1>7, <1>8, <1>9, <1>10, <1>11,
             <1>12, <1>13, <1>14, <1>15 DEF Next

----------------------------------------------------------------------------
(* What a modem that went leaves.                                           *)

LEMMA GoneStep ==
    ASSUME TypeOK, NothingLeftOfGone, SeenBeforeTower, [Next]_vars
    PROVE  NothingLeftOfGone'
<1>. USE DEF NothingLeftOfGone, world, tracking, fixes, Steady
<1>a. used = None => \A k : ~Available(k)
  BY DEF Available
<1>1. ASSUME NEW m \in Modems, ModemAdded(m) PROVE NothingLeftOfGone'
  <2>1. present' = present \cup {m} /\ enabled' \in SUBSET Modems
        /\ UNCHANGED <<seen, tower>>
    BY <1>1 DEF ModemAdded, TypeOK
  <2>2. CASE UNCHANGED <<used, connected, caps, setups>>
    BY <2>1, <2>2
  <2>3. CASE used = None /\ TryModem(m)
    BY <2>1, <2>3, TryModemEffect, ModemAssumption
  <2>. QED  BY <1>1, <2>2, <2>3 DEF ModemAdded
<1>2. ASSUME NEW m \in Modems, ModemRemoved(m) PROVE NothingLeftOfGone'
  <2>1. seen' = None /\ tower' = None
    BY <1>2, Cleared DEF ModemRemoved, TypeOK
  <2>. QED  BY <1>2, <2>1 DEF ModemRemoved
<1>3. ASSUME NEW m \in Modems, OtherRemoved(m) PROVE NothingLeftOfGone'
  BY <1>3 DEF OtherRemoved, Unplugged
<1>4. ASSUME NEW m \in Modems, ModemEnabled(m) PROVE NothingLeftOfGone'
  <2>1. UNCHANGED <<present, seen, tower>> /\ m \in present /\ enabled' \in SUBSET Modems
    BY <1>4 DEF ModemEnabled, Enabled, TypeOK
  <2>2. CASE used = None
    BY <1>4, <2>1, <2>2, TryModemEffect, ModemAssumption DEF ModemEnabled
  <2>3. CASE used # None
    <3>1. UNCHANGED used
      BY <1>4, <2>3 DEF ModemEnabled
    <3>. QED  BY <2>1, <2>3, <3>1
  <2>. QED  BY <2>2, <2>3
<1>5. ASSUME NEW m \in Modems, ModemEnabledUnnoticed(m) PROVE NothingLeftOfGone'
  BY <1>5 DEF ModemEnabledUnnoticed, Enabled
<1>6. ASSUME NEW m \in Modems, ModemDisabled(m) PROVE NothingLeftOfGone'
  BY <1>6 DEF ModemDisabled
<1>7. ASSUME NEW s \in Sources, Start(s) PROVE NothingLeftOfGone'
  BY <1>7, <1>a DEF Start
<1>8. ASSUME NEW s \in Sources, Stop3g(s) PROVE NothingLeftOfGone'
  BY <1>8, <1>a DEF Stop3g
<1>9. ASSUME NEW s \in Sources, SetupDone(s) PROVE NothingLeftOfGone'
  BY <1>9 DEF SetupDone
<1>10. ASSUME NEW s \in Sources, SetupFailed(s) PROVE NothingLeftOfGone'
  BY <1>10 DEF SetupFailed
<1>11. ASSUME NEW s \in Sources, TimerEnds(s) PROVE NothingLeftOfGone'
  BY <1>11 DEF TimerEnds
<1>12. CASE CellMoves
  BY <1>12 DEF CellMoves
<1>13. CASE StopCdma
  BY <1>13, <1>a DEF StopCdma
<1>14. CASE StopGps
  BY <1>14, <1>a DEF StopGps
<1>15. CASE UNCHANGED vars
  BY <1>15 DEF vars
<1>. QED  BY <1>1, <1>2, <1>3, <1>4, <1>5, <1>6, <1>7, <1>8, <1>9, <1>10, <1>11,
             <1>12, <1>13, <1>14, <1>15 DEF Next

LEMMA SeenStep ==
    ASSUME TypeOK, NothingLeftOfGone, SeenBeforeTower, [Next]_vars
    PROVE  SeenBeforeTower'
<1>. USE DEF SeenBeforeTower, Running, world, tracking, fixes, Steady
<1>1. ASSUME NEW m \in Modems, ModemAdded(m) PROVE SeenBeforeTower'
  BY <1>1 DEF ModemAdded
<1>2. ASSUME NEW m \in Modems, ModemRemoved(m) PROVE SeenBeforeTower'
  BY <1>2, Cleared DEF ModemRemoved, Unplugged, TypeOK
<1>3. ASSUME NEW m \in Modems, OtherRemoved(m) PROVE SeenBeforeTower'
  BY <1>3 DEF OtherRemoved, Unplugged
<1>4. ASSUME NEW m \in Modems, ModemEnabled(m) PROVE SeenBeforeTower'
  BY <1>4 DEF ModemEnabled
<1>5. ASSUME NEW m \in Modems, ModemEnabledUnnoticed(m) PROVE SeenBeforeTower'
  BY <1>5 DEF ModemEnabledUnnoticed
<1>6. ASSUME NEW m \in Modems, ModemDisabled(m) PROVE SeenBeforeTower'
  BY <1>6 DEF ModemDisabled
<1>7. ASSUME NEW s \in Sources, Start(s) PROVE SeenBeforeTower'
  BY <1>7 DEF Start
<1>8. ASSUME NEW s \in Sources, Stop3g(s) PROVE SeenBeforeTower'
  <2>1. Running' = Running \ {s} /\ timers' = timers \ {s}
    BY <1>8 DEF Stop3g
  <2>2. CASE Running = {s}
    <3>1. tower' = None
      BY <1>8, <2>2 DEF Stop3g
    <3>. QED  BY <2>1, <3>1
  <2>3. CASE Running # {s}
    <3>1. UNCHANGED <<seen, tower>> /\ Running' # {}
      BY <1>8, <2>1, <2>3 DEF Stop3g
    <3>. QED  BY <2>1, <3>1
  <2>. QED  BY <2>2, <2>3
<1>9. ASSUME NEW s \in Sources, SetupDone(s) PROVE SeenBeforeTower'
  <2>1. CASE LocationChanged(cell, TRUE)
    <3>1. Taken(cell) \/ Left(cell, TRUE)
      BY <2>1, LocationEffect DEF TypeOK
    <3>. QED  BY <1>9, <3>1, NoTower DEF SetupDone, Taken, Left
  <2>2. CASE UNCHANGED <<seen, tower, timers>>
    BY <1>9, <2>2 DEF SetupDone
  <2>. QED  BY <1>9, <2>1, <2>2 DEF SetupDone
<1>10. ASSUME NEW s \in Sources, SetupFailed(s) PROVE SeenBeforeTower'
  BY <1>10 DEF SetupFailed
<1>11. ASSUME NEW s \in Sources, TimerEnds(s) PROVE SeenBeforeTower'
  BY <1>11 DEF TimerEnds
<1>12. CASE CellMoves
  <2>1. CASE LocationChanged(cell', ignore)
    <3>1. ignore \in BOOLEAN /\ cell' \in Towers \cup {None}
      BY <1>12 DEF CellMoves, TypeOK
    <3>2. Taken(cell') \/ Left(cell', ignore)
      BY <2>1, <3>1, LocationEffect
    <3>. QED  BY <1>12, <3>2, NoTower DEF CellMoves, Taken, Left
  <2>2. CASE UNCHANGED fixes
    BY <1>12, <2>2 DEF CellMoves
  <2>. QED  BY <1>12, <2>1, <2>2 DEF CellMoves
<1>13. CASE StopCdma
  <2>1. Running' = Running
    BY <1>13, Kinded DEF StopCdma
  <2>. QED  BY <1>13, <2>1, Cleared DEF StopCdma, TypeOK
<1>14. CASE StopGps
  <2>1. Running' = Running
    BY <1>14, Kinded DEF StopGps
  <2>. QED  BY <1>14, <2>1 DEF StopGps
<1>15. CASE UNCHANGED vars
  BY <1>15 DEF vars
<1>. QED  BY <1>1, <1>2, <1>3, <1>4, <1>5, <1>6, <1>7, <1>8, <1>9, <1>10, <1>11,
             <1>12, <1>13, <1>14, <1>15 DEF Next
----------------------------------------------------------------------------
(* Running sources ask.                                                     *)

LEMMA WatchedStep ==
    ASSUME TypeOK, NothingLeftOfGone, WatchedIsConnected, [Next]_vars
    PROVE  WatchedIsConnected'
<1>. USE DEF WatchedIsConnected, world, tracking, Steady
<1>1. ASSUME NEW m \in Modems, ModemAdded(m) PROVE WatchedIsConnected'
  <2>1. CASE UNCHANGED <<used, connected, watched>>
    BY <2>1
  <2>2. CASE used = None /\ TryModem(m) /\ watched' = watched \cup ({m} \ enabled')
    <3>1. enabled' \in SUBSET Modems /\ used \notin watched'
      BY <1>1, <2>2, ModemAssumption DEF ModemAdded, TypeOK
    <3>. QED  BY <2>2, <3>1, TryModemEffect
  <2>. QED  BY <1>1, <2>1, <2>2 DEF ModemAdded
<1>2. ASSUME NEW m \in Modems, ModemRemoved(m) PROVE WatchedIsConnected'
  BY <1>2, ModemAssumption DEF ModemRemoved, Unplugged, TypeOK
<1>3. ASSUME NEW m \in Modems, OtherRemoved(m) PROVE WatchedIsConnected'
  BY <1>3 DEF OtherRemoved, Unplugged
<1>4. ASSUME NEW m \in Modems, ModemEnabled(m) PROVE WatchedIsConnected'
  <2>1. watched' = watched \ {m} /\ enabled' \in SUBSET Modems
    BY <1>4 DEF ModemEnabled, Enabled, TypeOK
  <2>2. CASE TryModem(m)
    BY <2>1, <2>2, TryModemEffect
  <2>3. CASE used = m /\ UNCHANGED used
    BY <2>1, <2>3
  <2>4. CASE UNCHANGED <<used, connected>>
    BY <2>1, <2>4
  <2>. QED  BY <1>4, <2>2, <2>3, <2>4 DEF ModemEnabled
<1>5. CASE UNCHANGED <<used, watched, connected>>
  BY <1>5
<1>. QED  BY <1>1, <1>2, <1>3, <1>4, <1>5
          DEF Next, vars, ModemEnabledUnnoticed, ModemDisabled, Start, Stop3g,
              SetupDone, SetupFailed, TimerEnds, CellMoves, StopCdma, StopGps

LEMMA AsksStep ==
    ASSUME TypeOK, NothingLeftOfGone, WatchedIsConnected, RunningSourceAsks, [Next]_vars
    PROVE  RunningSourceAsks'
<1>. SUFFICES ASSUME NEW s \in active', Available(Kind(s))', ~lapsed'
              PROVE  Kind(s) \in caps'
  BY DEF RunningSourceAsks, Kind
<1>. USE DEF world, tracking, fixes, Steady
<1>0. s \in active /\ Available(Kind(s)) /\ ~lapsed => Kind(s) \in caps
  BY DEF RunningSourceAsks
<1>1. ASSUME NEW m \in Modems, ModemAdded(m) PROVE Kind(s) \in caps'
  <2>0. s \in active /\ enabled' \in SUBSET Modems
    BY <1>1 DEF ModemAdded, TypeOK
  <2>1. CASE UNCHANGED <<used, connected, caps, lapsed>>
    <3>1. used # None
      BY <2>1 DEF Available
    <3>2. used \in enabled' <=> used \in enabled
      BY <1>1, <3>1 DEF ModemAdded, NothingLeftOfGone
    <3>. QED  BY <1>0, <2>0, <2>1, <3>2, AvailableSame
  <2>2. CASE used = None /\ TryModem(m)
    <3>1. used' # None
      BY DEF Available
    <3>. QED  BY <2>0, <2>2, <3>1, TryModemEffect
  <2>. QED  BY <1>1, <2>1, <2>2 DEF ModemAdded
<1>2. ASSUME NEW m \in Modems, ModemRemoved(m) PROVE Kind(s) \in caps'
  BY <1>2 DEF ModemRemoved, Available
<1>3. ASSUME NEW m \in Modems, OtherRemoved(m) PROVE Kind(s) \in caps'
  <2>1. s \in active /\ UNCHANGED <<used, connected, caps, lapsed>>
        /\ (used \in enabled' <=> used \in enabled)
    BY <1>3 DEF OtherRemoved, Unplugged
  <2>. QED  BY <1>0, <2>1, AvailableSame
<1>4. ASSUME NEW m \in Modems, ModemEnabled(m) PROVE Kind(s) \in caps'
  <2>0. s \in active /\ enabled' = enabled \cup {m} /\ enabled' \in SUBSET Modems
        /\ m \in watched
    BY <1>4 DEF ModemEnabled, Enabled, TypeOK
  <2>1. CASE used = None
    <3>1. used' # None
      BY DEF Available
    <3>. QED  BY <1>4, <2>0, <2>1, <3>1, TryModemEffect DEF ModemEnabled
  <2>2. CASE used = m /\ used # None
    <3>1. UNCHANGED <<used, lapsed>> /\ NotifyAvailable({"3gpp", "cdma"})
      BY <1>4, <2>2 DEF ModemEnabled
    <3>2. {"3gpp", "cdma"} \in SUBSET Kinds /\ Kind(s) \in Kinds
      BY <2>0, Kinded DEF Kinds, TypeOK
    <3>3. CASE Kind(s) \in {"3gpp", "cdma"}
      BY <2>0, <3>1, <3>2, <3>3, Notified
    <3>4. CASE Kind(s) = "gps"
      <4>1. Available(Kind(s))
        BY <2>0, <2>2, <3>1, <3>4 DEF Available, WatchedIsConnected
      <4>. QED  BY <1>0, <2>0, <3>1, <3>2, <4>1, Notified
    <3>. QED  BY <3>2, <3>3, <3>4 DEF Kinds
  <2>3. CASE used # None /\ used # m
    <3>1. UNCHANGED <<used, connected, caps, lapsed>>
      BY <1>4, <2>3 DEF ModemEnabled
    <3>. QED  BY <1>0, <2>0, <2>3, <3>1, AvailableSame
  <2>. QED  BY <2>1, <2>2, <2>3
<1>5. ASSUME NEW m \in Modems, ModemEnabledUnnoticed(m) PROVE Kind(s) \in caps'
  <2>1. s \in active /\ UNCHANGED <<used, connected, caps>> /\ used # m /\ ~lapsed
        /\ enabled' = enabled \cup {m}
    BY <1>5 DEF ModemEnabledUnnoticed, Enabled
  <2>. QED  BY <1>0, <2>1, AvailableSame
<1>6. ASSUME NEW m \in Modems, ModemDisabled(m) PROVE Kind(s) \in caps'
  BY <1>0, <1>6 DEF ModemDisabled, Available
<1>7. ASSUME NEW r \in Sources, Start(r) PROVE Kind(s) \in caps'
  <2>1. Available(Kind(s))
    BY <1>7, AvailableSame DEF Start
  <2>. QED  BY <1>0, <1>7, <2>1 DEF Start
<1>8. ASSUME NEW r \in Sources, Stop3g(r) PROVE Kind(s) \in caps'
  <2>1. Available(Kind(s)) /\ s \in active \ {r} /\ ~lapsed /\ s \in Sources
    BY <1>8, AvailableSame DEF Stop3g, TypeOK
  <2>2. Running = {r} => Kind(s) # "3gpp"
    BY <2>1, Kinded DEF Running
  <2>. QED  BY <1>0, <1>8, <2>1, <2>2 DEF Stop3g
<1>9. ASSUME NEW r \in Sources, SetupDone(r) PROVE Kind(s) \in caps'
  BY <1>0, <1>9, AvailableSame DEF SetupDone
<1>10. ASSUME NEW r \in Sources, SetupFailed(r) PROVE Kind(s) \in caps'
  BY <1>0, <1>10, AvailableSame DEF SetupFailed
<1>11. ASSUME NEW r \in Sources, TimerEnds(r) PROVE Kind(s) \in caps'
  BY <1>0, <1>11, AvailableSame DEF TimerEnds
<1>12. CASE CellMoves
  BY <1>0, <1>12, AvailableSame DEF CellMoves
<1>13. CASE StopCdma
  <2>1. Available(Kind(s)) /\ s \in active \ {"cdma"} /\ ~lapsed /\ s \in Sources
    BY <1>13, AvailableSame DEF StopCdma, TypeOK
  <2>2. Kind(s) # "cdma"
    BY <2>1, Kinded DEF Kind
  <2>. QED  BY <1>0, <1>13, <2>1, <2>2 DEF StopCdma
<1>14. CASE StopGps
  <2>1. Available(Kind(s)) /\ s \in active \ {"gps"} /\ ~lapsed /\ s \in Sources
    BY <1>14, AvailableSame DEF StopGps, TypeOK
  <2>2. Kind(s) # "gps"
    BY <2>1, Kinded DEF Kind
  <2>. QED  BY <1>0, <1>14, <2>1, <2>2 DEF StopGps
<1>15. CASE UNCHANGED vars
  BY <1>0, <1>15, AvailableSame DEF vars
<1>. QED  BY <1>1, <1>2, <1>3, <1>4, <1>5, <1>6, <1>7, <1>8, <1>9, <1>10, <1>11,
             <1>12, <1>13, <1>14, <1>15 DEF Next

----------------------------------------------------------------------------
(* Each running source has a timer.                                         *)

LEMMA TimersStep ==
    ASSUME TypeOK, NothingLeftOfGone, SeenBeforeTower, EachHasTimer, [Next]_vars
    PROVE  EachHasTimer'
<1>. SUFFICES ASSUME NEW s \in Running', Heard', s \notin setups', ~ignore',
                     tower' # None
              PROVE  s \in timers'
  BY DEF EachHasTimer
<1>. USE DEF world, tracking, fixes, Steady, Running, Heard
<1>0. /\ s \in Running /\ Heard /\ s \notin setups /\ ~ignore /\ tower # None
           => s \in timers
      /\ s \in Threegs /\ s \in active' /\ Available("3gpp")'
  BY DEF EachHasTimer
<1>s. s \in Sources /\ Kind(s) = "3gpp"
  BY <1>0, Kinded DEF Sources
<1>t. ASSUME NEW t \in Towers \cup {None}, Taken(t), s \in Running
      PROVE  s \in timers'
  <2>1. t # None
    BY <1>t, NoTower DEF Taken
  <2>. QED  BY <1>t, <2>1 DEF Taken
<1>1. ASSUME NEW m \in Modems, ModemAdded(m) PROVE s \in timers'
  <2>1. used # None
    BY <1>1 DEF ModemAdded, NothingLeftOfGone
  <2>2. /\ used \in enabled' <=> used \in enabled
        /\ UNCHANGED <<used, connected, lapsed, setups, active, fixes>>
    BY <1>1, <2>1 DEF ModemAdded, NothingLeftOfGone
  <2>. QED  BY <1>0, <2>2, AvailableSame
<1>2. ASSUME NEW m \in Modems, ModemRemoved(m) PROVE s \in timers'
  BY <1>2, Cleared DEF ModemRemoved, TypeOK
<1>3. ASSUME NEW m \in Modems, OtherRemoved(m) PROVE s \in timers'
  <2>1. /\ used \in enabled' <=> used \in enabled
        /\ UNCHANGED <<used, connected, lapsed, setups, active, fixes>>
    BY <1>3 DEF OtherRemoved, Unplugged
  <2>. QED  BY <1>0, <2>1, AvailableSame
<1>4. ASSUME NEW m \in Modems, ModemEnabled(m) PROVE s \in timers'
  <2>0. enabled' = enabled \cup {m} /\ UNCHANGED <<active, fixes>> /\ used # None
    BY <1>4 DEF ModemEnabled, Enabled, NothingLeftOfGone
  <2>1. CASE used = m
    <3>1. NotifyAvailable({"3gpp", "cdma"}) /\ {"3gpp", "cdma"} \in SUBSET Kinds
      BY <1>4, <2>0, <2>1 DEF ModemEnabled, Kinds
    <3>2. s \in setups'
      BY <1>0, <1>s, <2>0, <3>1, Notified
    <3>. QED  BY <3>2
  <2>2. CASE used # m
    <3>1. UNCHANGED <<used, connected, lapsed, setups>>
      BY <1>4, <2>0, <2>2 DEF ModemEnabled
    <3>. QED  BY <1>0, <2>0, <2>2, <3>1, AvailableSame
  <2>. QED  BY <2>1, <2>2
<1>5. ASSUME NEW m \in Modems, ModemEnabledUnnoticed(m) PROVE s \in timers'
  <2>1. /\ used \in enabled' <=> used \in enabled
        /\ UNCHANGED <<used, connected, setups, active, fixes>> /\ ~lapsed
    BY <1>5 DEF ModemEnabledUnnoticed, Enabled
  <2>. QED  BY <1>0, <2>1, AvailableSame
<1>6. ASSUME NEW m \in Modems, ModemDisabled(m) PROVE s \in timers'
  BY <1>0, <1>6 DEF ModemDisabled, Available
<1>7. ASSUME NEW r \in Sources, Start(r) PROVE s \in timers'
  <2>1. Available("3gpp") /\ UNCHANGED <<lapsed, fixes>>
    BY <1>0, <1>7, AvailableSame DEF Start
  <2>2. s # r
    BY <1>7, <1>s, <2>1 DEF Start
  <2>3. s \in Running /\ s \notin setups
    BY <1>0, <1>7, <2>2 DEF Start
  <2>. QED  BY <1>0, <2>1, <2>3
<1>8. ASSUME NEW r \in Sources, Stop3g(r) PROVE s \in timers'
  <2>1. Available("3gpp") /\ UNCHANGED <<lapsed, unheard, setups, ignore>>
    BY <1>0, <1>8, AvailableSame DEF Stop3g
  <2>2. s \in Running /\ s # r /\ timers' = timers \ {r}
    BY <1>0, <1>8 DEF Stop3g
  <2>3. UNCHANGED tower
    BY <1>8, <2>2 DEF Stop3g
  <2>. QED  BY <1>0, <2>1, <2>2, <2>3
<1>9. ASSUME NEW r \in Sources, SetupDone(r) PROVE s \in timers'
  <2>1. LocationChanged(cell, TRUE) /\ s \in Running
    BY <1>0, <1>9 DEF SetupDone
  <2>2. Taken(cell) \/ Left(cell, TRUE)
    BY <2>1, LocationEffect DEF TypeOK
  <2>3. Taken(cell) /\ cell \in Towers \cup {None}
    BY <2>2 DEF Left, TypeOK
  <2>. QED  BY <1>t, <2>1, <2>3
<1>10. ASSUME NEW r \in Sources, SetupFailed(r) PROVE s \in timers'
  <2>1. Available("3gpp") /\ UNCHANGED <<lapsed, active, seen, ignore, tower, timers>>
    BY <1>0, <1>10, AvailableSame DEF SetupFailed
  <2>2. r \notin Threegs /\ ~unheard
    BY <1>10 DEF SetupFailed
  <2>3. s \notin setups
    BY <1>0, <1>10, <2>2 DEF SetupFailed
  <2>. QED  BY <1>0, <2>1, <2>2, <2>3
<1>11. ASSUME NEW r \in Sources, TimerEnds(r) PROVE s \in timers'
  BY <1>11 DEF TimerEnds
<1>12. CASE CellMoves
  <2>1. s \in Running /\ Available("3gpp") /\ UNCHANGED <<lapsed, setups>>
    BY <1>0, <1>12, AvailableSame DEF CellMoves
  <2>2. CASE LocationChanged(cell', ignore)
    <3>1. ignore \in BOOLEAN /\ cell' \in Towers \cup {None}
      BY <1>12 DEF CellMoves, TypeOK
    <3>2. Taken(cell') \/ Left(cell', ignore)
      BY <2>2, <3>1, LocationEffect
    <3>3. CASE Taken(cell')
      BY <1>t, <2>1, <3>1, <3>3
    <3>4. CASE Left(cell', ignore)
      BY <1>0, <2>1, <3>4 DEF Left
    <3>. QED  BY <3>2, <3>3, <3>4
  <2>3. CASE UNCHANGED fixes
    BY <1>0, <2>1, <2>3
  <2>. QED  BY <1>12, <2>2, <2>3 DEF CellMoves
<1>13. CASE StopCdma
  <2>1. s \in Running /\ Available("3gpp") /\ UNCHANGED <<lapsed, setups, ignore>>
    BY <1>0, <1>13, AvailableSame DEF StopCdma
  <2>2. UNCHANGED <<tower, timers, unheard>>
    BY <1>13, Cleared DEF StopCdma, TypeOK
  <2>. QED  BY <1>0, <2>1, <2>2
<1>14. CASE StopGps
  BY <1>0, <1>14, AvailableSame DEF StopGps
<1>15. CASE UNCHANGED vars
  BY <1>0, <1>15, AvailableSame DEF vars
<1>. QED  BY <1>1, <1>2, <1>3, <1>4, <1>5, <1>6, <1>7, <1>8, <1>9, <1>10, <1>11,
             <1>12, <1>13, <1>14, <1>15 DEF Next

----------------------------------------------------------------------------
(* The tower is current.                                                    *)

SeenRight ==
    /\ ~ignore => tower = Carried(seen)
    /\ cell \notin Anonymous => seen = cell /\ tower = Carried(cell)

LEMMA CurrentStep ==
    ASSUME TypeOK, NothingLeftOfGone, SeenBeforeTower, RunningSourceAsks,
           SeenIsCarried, SeenIsCurrent, [Next]_vars
    PROVE  SeenIsCarried' /\ SeenIsCurrent'
<1>. SUFFICES ASSUME Settled' PROVE SeenRight'
  BY DEF SeenIsCarried, SeenIsCurrent, SeenRight, Carried
<1>. USE DEF world, tracking, fixes, Steady, Running, Heard, Settled
<1>0. Available("3gpp")' /\ ~lapsed' /\ ~unheard' /\ Running' # {}
      /\ setups' \cap Threegs = {}
  OBVIOUS
<1>f. Settled /\ UNCHANGED <<ignore, tower, seen, cell>> => SeenRight'
  BY DEF SeenIsCarried, SeenIsCurrent, SeenRight, Carried
<1>t. Taken(cell') /\ Running # {} => SeenRight'
  BY DEF Taken, SeenRight, Carried
<1>3g. \A s \in Running : s \in Sources /\ Kind(s) = "3gpp"
  BY Kinded DEF TypeOK, Sources
<1>n. ASSUME UNCHANGED active,
             \A s \in active : Kind(s) = "3gpp" /\ Available(Kind(s))' => s \in setups'
      PROVE  FALSE
  <2>1. PICK s \in Running' : TRUE
    BY <1>0
  <2>2. s \in active /\ Kind(s) = "3gpp" /\ s \in Threegs
    BY <1>n, <1>3g, <2>1
  <2>. QED  BY <1>0, <1>n, <2>2
<1>1. ASSUME NEW m \in Modems, ModemAdded(m) PROVE SeenRight'
  <2>0. used' # None
    BY <1>0 DEF Available
  <2>1. CASE used = None
    <3>1. TryModem(m) /\ enabled' \in SUBSET Modems /\ UNCHANGED active
      BY <1>1, <2>0, <2>1 DEF ModemAdded, TypeOK
    <3>2. \A s \in active : Available(Kind(s))' => s \in setups'
      BY <2>0, <2>1, <3>1, TryModemEffect
    <3>. QED  BY <1>n, <3>1, <3>2
  <2>2. CASE used # None
    <3>1. /\ used \in enabled' <=> used \in enabled
          /\ UNCHANGED <<used, connected, cell, lapsed, setups, active, fixes>>
      BY <1>1, <2>2 DEF ModemAdded, NothingLeftOfGone
    <3>. QED  BY <1>0, <1>f, <3>1, AvailableSame
  <2>. QED  BY <2>1, <2>2
<1>2. ASSUME NEW m \in Modems, ModemRemoved(m) PROVE SeenRight'
  BY <1>0, <1>2 DEF ModemRemoved, Available
<1>3. ASSUME NEW m \in Modems, OtherRemoved(m) PROVE SeenRight'
  <2>1. /\ used \in enabled' <=> used \in enabled
        /\ UNCHANGED <<used, connected, cell, lapsed, setups, active, fixes>>
    BY <1>3 DEF OtherRemoved, Unplugged
  <2>. QED  BY <1>0, <1>f, <2>1, AvailableSame
<1>4. ASSUME NEW m \in Modems, ModemEnabled(m) PROVE SeenRight'
  <2>0. /\ enabled' = enabled \cup {m} /\ enabled' \in SUBSET Modems
        /\ UNCHANGED <<active, fixes>> /\ used' # None
    BY <1>0, <1>4 DEF ModemEnabled, Enabled, Available, TypeOK
  <2>1. CASE used = None
    <3>1. TryModem(m)
      BY <1>4, <2>1, ModemAssumption DEF ModemEnabled
    <3>2. \A s \in active : Available(Kind(s))' => s \in setups'
      BY <2>0, <2>1, <3>1, TryModemEffect
    <3>. QED  BY <1>n, <2>0, <3>2
  <2>2. CASE used = m /\ used # None
    <3>1. NotifyAvailable({"3gpp", "cdma"}) /\ {"3gpp", "cdma"} \in SUBSET Kinds
      BY <1>4, <2>2 DEF ModemEnabled, Kinds
    <3>2. \A s \in active : Kind(s) = "3gpp" /\ Available(Kind(s))' => s \in setups'
      BY <3>1, Notified
    <3>. QED  BY <1>n, <2>0, <3>2
  <2>3. CASE used # m /\ used # None
    <3>1. UNCHANGED <<used, connected, cell, lapsed, setups>>
      BY <1>4, <2>3 DEF ModemEnabled
    <3>. QED  BY <1>0, <1>f, <2>0, <2>3, <3>1, AvailableSame
  <2>. QED  BY <2>1, <2>2, <2>3
<1>5. ASSUME NEW m \in Modems, ModemEnabledUnnoticed(m) PROVE SeenRight'
  <2>1. /\ used \in enabled' <=> used \in enabled
        /\ UNCHANGED <<used, connected, cell, setups, active, fixes>> /\ ~lapsed
    BY <1>0, <1>5 DEF ModemEnabledUnnoticed, Enabled
  <2>. QED  BY <1>0, <1>f, <2>1, AvailableSame
<1>6. ASSUME NEW m \in Modems, ModemDisabled(m) PROVE SeenRight'
  <2>1. Available("3gpp")
    BY <1>0, <1>6 DEF ModemDisabled, Available
  <2>. QED  BY <1>0, <1>f, <1>6, <2>1 DEF ModemDisabled
<1>7. ASSUME NEW r \in Sources, Start(r) PROVE SeenRight'
  <2>1. Available("3gpp") /\ UNCHANGED <<lapsed, cell, fixes>> /\ active' = active \cup {r}
    BY <1>0, <1>7, AvailableSame DEF Start
  <2>2. CASE r \in Threegs
    BY <1>0, <1>7, <2>1, <2>2, Kinded DEF Start
  <2>3. CASE r \notin Threegs
    <3>1. Running # {} /\ setups \cap Threegs = {}
      BY <1>0, <1>7, <2>1, <2>3 DEF Start
    <3>. QED  BY <1>0, <1>f, <2>1, <3>1
  <2>. QED  BY <2>2, <2>3
<1>8. ASSUME NEW r \in Sources, Stop3g(r) PROVE SeenRight'
  <2>1. Available("3gpp")
        /\ UNCHANGED <<lapsed, unheard, setups, ignore, cell>>
    BY <1>0, <1>8, AvailableSame DEF Stop3g
  <2>2. Running' = Running \ {r}
    BY <1>8 DEF Stop3g
  <2>3. Running # {r} /\ Running # {}
    BY <1>0, <2>2
  <2>4. UNCHANGED <<seen, tower>>
    BY <1>8, <2>3 DEF Stop3g
  <2>. QED  BY <1>0, <1>f, <2>1, <2>3, <2>4
<1>9. ASSUME NEW r \in Sources, SetupDone(r) PROVE SeenRight'
  <2>1. Available("3gpp") /\ Running # {} /\ UNCHANGED <<lapsed, cell>>
    BY <1>0, <1>9, AvailableSame DEF SetupDone
  <2>2. "3gpp" \in caps
    BY <1>0, <1>3g, <2>1 DEF RunningSourceAsks
  <2>3. Taken(cell) \/ Left(cell, TRUE)
    BY <1>9, <2>2, LocationEffect DEF SetupDone, TypeOK
  <2>. QED  BY <1>t, <2>1, <2>3 DEF Left, SeenRight
<1>10. ASSUME NEW r \in Sources, SetupFailed(r) PROVE SeenRight'
  <2>1. Available("3gpp") /\ UNCHANGED <<lapsed, active, cell, seen, ignore, tower>>
    BY <1>0, <1>10, AvailableSame DEF SetupFailed
  <2>2. r \notin Threegs /\ ~unheard
    BY <1>0, <1>10 DEF SetupFailed
  <2>3. setups \cap Threegs = {}
    BY <1>0, <1>10, <2>2 DEF SetupFailed
  <2>. QED  BY <1>0, <1>f, <2>1, <2>2, <2>3
<1>11. ASSUME NEW r \in Sources, TimerEnds(r) PROVE SeenRight'
  BY <1>0, <1>f, <1>11, AvailableSame DEF TimerEnds
<1>12. CASE CellMoves
  <2>1. Available("3gpp") /\ Running # {} /\ UNCHANGED <<lapsed, setups>>
    BY <1>0, <1>12, AvailableSame DEF CellMoves
  <2>2. "3gpp" \in caps /\ connected
    BY <1>0, <1>3g, <2>1 DEF RunningSourceAsks, Available
  <2>3. /\ LocationChanged(cell', ignore)
        /\ ignore \in BOOLEAN /\ cell' \in Towers \cup {None}
    BY <1>12, <2>2 DEF CellMoves, TypeOK
  <2>4. Taken(cell') \/ Left(cell', ignore)
    BY <2>3, LocationEffect
  <2>5. CASE Left(cell', ignore)
    <3>1. ~ignore => tower = Carried(seen)
      BY <1>0, <2>1, <2>5 DEF SeenIsCarried, Left
    <3>. QED  BY <2>5, <3>1 DEF Left, SeenRight, Carried
  <2>. QED  BY <1>t, <2>1, <2>4, <2>5
<1>13. CASE StopCdma
  <2>1. Available("3gpp") /\ Running # {} /\ UNCHANGED <<lapsed, setups, ignore, cell>>
    BY <1>0, <1>13, AvailableSame DEF StopCdma
  <2>2. UNCHANGED <<seen, tower, unheard>>
    BY <1>0, <1>13, <2>1 DEF StopCdma
  <2>. QED  BY <1>0, <1>f, <2>1, <2>2
<1>14. CASE StopGps
  <2>1. Available("3gpp") /\ Running # {}
        /\ UNCHANGED <<lapsed, setups, cell, fixes>>
    BY <1>0, <1>14, AvailableSame DEF StopGps
  <2>. QED  BY <1>0, <1>f, <2>1
<1>15. CASE UNCHANGED vars
  BY <1>0, <1>f, <1>15, AvailableSame DEF vars
<1>. QED  BY <1>1, <1>2, <1>3, <1>4, <1>5, <1>6, <1>7, <1>8, <1>9, <1>10, <1>11,
             <1>12, <1>13, <1>14, <1>15 DEF Next

----------------------------------------------------------------------------
(* The theorems.                                                            *)

LEMMA ModemInvInit == Init => ModemInv
<1>. SUFFICES ASSUME Init PROVE ModemInv
  OBVIOUS
<1>1. NothingLeftOfGone /\ SeenBeforeTower /\ WatchedIsConnected
  BY DEF Init, NothingLeftOfGone, SeenBeforeTower, WatchedIsConnected
<1>2. Running = {} /\ active = {}
  BY DEF Init, Running
<1>. QED  BY TypeInit, <1>1, <1>2
          DEF ModemInv, RunningSourceAsks, EachHasTimer, Settled, SeenIsCarried,
              SeenIsCurrent

LEMMA ModemInvStep == ModemInv /\ [Next]_vars => ModemInv'
  BY TypeStep, GoneStep, SeenStep, WatchedStep, AsksStep, TimersStep, CurrentStep
     DEF ModemInv

LEMMA ModemInvAlways == Spec => []ModemInv
  BY ModemInvInit, ModemInvStep, PTL DEF Spec

(* Every part of the state stays of its type.                               *)
THEOREM ModemTypes == Spec => []TypeOK
<1>1. ModemInv => TypeOK
  BY DEF ModemInv
<1>. QED  BY <1>1, ModemInvAlways, PTL

(* Whatever modems come and go, nothing is asked of one that went, and no   *)
(* tower of it is left in a query (on_mm_object_removed).                   *)
THEOREM NothingIsLeftOfGone == Spec => []NothingLeftOfGone
<1>1. ModemInv => NothingLeftOfGone
  BY DEF ModemInv
<1>. QED  BY <1>1, ModemInvAlways, PTL

(* Each running source has asked the modem for its kind of location, in     *)
(* whatever order they got ready (enable_caps, clear_caps).                 *)
THEOREM EveryRunningSourceAsks == Spec => []RunningSourceAsks
<1>1. ModemInv => RunningSourceAsks
  BY DEF ModemInv
<1>. QED  BY <1>1, ModemInvAlways, PTL

(* A tower is carried only for a running 3G source, and one sends it again  *)
(* in time (gclue_3g_stop, on_fix_3g).                                      *)
THEOREM TowerAlwaysHasOwner == Spec => []TowerHasOwner
<1>1. ModemInv => TowerHasOwner
  <2>. SUFFICES ASSUME ModemInv,
                       tower # None /\ Available("3gpp") /\ setups = {} /\ ~ignore
                          /\ ~unheard /\ ~lapsed
                PROVE  timers # {}
    BY DEF ModemInv, SeenBeforeTower, TowerHasOwner
  <2>1. PICK s \in Running : TRUE
    BY DEF ModemInv, SeenBeforeTower
  <2>2. s \in timers
    BY <2>1 DEF ModemInv, EachHasTimer, Heard
  <2>. QED  BY <2>2
<1>. QED  BY <1>1, ModemInvAlways, PTL

(* The tower that queries carry is the one the modem signals, but for the   *)
(* cases that TowerIsCurrent names (on_get_3gpp_ready, on_fix_3g).          *)
THEOREM TowerIsAlwaysCurrent == Spec => []TowerIsCurrent
<1>1. ModemInv => TowerIsCurrent
  BY DEF ModemInv, SeenIsCurrent, TowerIsCurrent, Settled, Heard, Carried
<1>. QED  BY <1>1, ModemInvAlways, PTL
=============================================================================
