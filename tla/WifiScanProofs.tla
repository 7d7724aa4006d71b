--------------------------- MODULE WifiScanProofs --------------------------
(***************************************************************************)
(* Proofs about WifiScan, for any sources, interfaces and access points.   *)
(*                                                                         *)
(* The inductive invariant is WifiInv: that a source is connected exactly  *)
(* while it can be, and else idle, makes every timer, call and proxy that  *)
(* fires one of a connected source; the chain of scans needs it, and so    *)
(* does ListInv, which adds to ListIsReal that proxies under way are of    *)
(* access points in range or noted as astray.  The implementation of       *)
(* AccessPoints takes each step of WifiScan to a step of one source or to  *)
(* a stutter of it.                                                        *)
(***************************************************************************)
EXTENDS WifiScan, TLAPS

----------------------------------------------------------------------------
(* Types.                                                                   *)

(* One proxy less is under way.                                             *)
LEMMA OneLess ==
    ASSUME NEW A, NEW B, NEW f \in [A -> [B -> Nat]], NEW a \in A, NEW b \in B,
           f[a][b] > 0
    PROVE  LET g == [f EXCEPT ![a][b] = @ - 1]
           IN  /\ g \in [A -> [B -> Nat]]
               /\ \A x \in A, y \in B :
                     g[x][y] = IF x = a /\ y = b THEN f[x][y] - 1 ELSE f[x][y]
<1>. DEFINE row == [f[a] EXCEPT ![b] = @ - 1]
<1>1. f[a] \in [B -> Nat] /\ f[a][b] \in Nat /\ f[a][b] - 1 \in Nat
  OBVIOUS
<1>2. row \in [B -> Nat]
  BY <1>1
<1>3. [f EXCEPT ![a][b] = @ - 1] = [f EXCEPT ![a] = row]
  OBVIOUS
<1>4. [f EXCEPT ![a] = row] \in [A -> [B -> Nat]]
  BY <1>2
<1>5. ASSUME NEW x \in A, NEW y \in B
      PROVE  [f EXCEPT ![a] = row][x][y]
                = IF x = a /\ y = b THEN f[x][y] - 1 ELSE f[x][y]
  BY <1>1
<1>. QED  BY <1>3, <1>4, <1>5

LEMMA TypeInit == Init => TypeOK
  BY WifiScanAssumption DEF Init, TypeOK, NoProxies

LEMMA ConnectTypes ==
    ASSUME TypeOK, NEW s \in Wifis, NEW i \in Interfaces, ConnectBssSignals(s, i)
    PROVE  /\ connected' \in [Wifis -> BOOLEAN]
           /\ bssMaking' \in [Wifis -> [BSSs -> Nat]]
           /\ changed' \in [Wifis -> BOOLEAN]
           /\ listening' \in [Wifis -> BOOLEAN]
           /\ calls' \in [Wifis -> Nat]
           /\ UNCHANGED <<bsss, ignored, scanWait, scanTimer, broken, astray>>
<1>1. [b \in BSSs |-> IF b \in inRange[i] THEN 1 ELSE 0] \in [BSSs -> Nat]
  OBVIOUS
<1>. QED  BY <1>1 DEF TypeOK, ConnectBssSignals, StartScan

LEMMA StartTypes ==
    ASSUME TypeOK, NEW s \in Wifis, Start(s)
    PROVE  TypeOK'
<1>. USE DEF TypeOK, Start, supplicant, lists, scans
<1>1. CASE interface[s] = None
  BY <1>1
<1>2. CASE interface[s] # None
  BY <1>2, ConnectTypes
<1>. QED  BY <1>1, <1>2

LEMMA DisconnectTypes ==
    ASSUME TypeOK, NEW D \in SUBSET Wifis, DisconnectBssSignals(D)
    PROVE  /\ connected' \in [Wifis -> BOOLEAN]
           /\ bssMaking' \in [Wifis -> [BSSs -> Nat]]
           /\ bsss' \in [Wifis -> SUBSET BSSs]
           /\ ignored' \in [Wifis -> SUBSET BSSs]
           /\ changed' \in [Wifis -> BOOLEAN]
           /\ listening' \in [Wifis -> BOOLEAN]
           /\ calls' \in [Wifis -> Nat]
           /\ scanWait' \in [Wifis -> BOOLEAN]
           /\ scanTimer' \in [Wifis -> BOOLEAN]
           /\ mozilla' \in Wifis \cup {None}
           /\ broken' \in [Wifis -> BOOLEAN]
           /\ astray' \in [Wifis -> SUBSET BSSs]
  BY DEF TypeOK, DisconnectBssSignals, NoProxies

LEMMA TypeStep ==
    ASSUME TypeOK, [Next]_vars
    PROVE  TypeOK'
<1>. USE DEF supplicant, lists, scans, Unscanned
<1>1. ASSUME NEW s \in Wifis, Start(s) PROVE TypeOK'
  BY <1>1, StartTypes
<1>2. ASSUME NEW s \in Wifis, Stop(s) PROVE TypeOK'
  <2>1. DisconnectBssSignals({s})
    BY <1>2 DEF Stop
  <2>. QED  BY <1>2, <2>1, DisconnectTypes DEF Stop, TypeOK
<1>3. ASSUME NEW s \in Wifis, ScanAccepted(s) PROVE TypeOK'
  BY <1>3 DEF ScanAccepted, TypeOK
<1>4. ASSUME NEW s \in Wifis, ScanRefused(s) PROVE TypeOK'
  BY <1>4 DEF ScanRefused, CancelScan, TypeOK
<1>5. ASSUME NEW s \in Wifis, ScanWaitDone(s) PROVE TypeOK'
  BY <1>5 DEF ScanWaitDone, TypeOK
<1>6. ASSUME NEW s \in Wifis, ScanTimeout(s) PROVE TypeOK'
  <2>1. listening' \in [Wifis -> BOOLEAN] /\ calls' \in [Wifis -> Nat]
    <3>1. CASE interface[s] = None
      BY <1>6, <3>1 DEF ScanTimeout, TypeOK
    <3>2. CASE interface[s] # None
      <4>1. StartScan(s) /\ calls[s] + 1 \in Nat
        BY <1>6, <3>2 DEF ScanTimeout, TypeOK
      <4>. QED  BY <4>1 DEF StartScan, TypeOK
    <3>. QED  BY <3>1, <3>2
  <2>. QED  BY <1>6, <2>1 DEF ScanTimeout, TypeOK
<1>7. ASSUME NEW s \in Wifis, NEW i \in Interfaces, InterfaceReady(s, i) PROVE TypeOK'
  <2>1. making' \in [Wifis -> [Interfaces -> Nat]]
    <3>1. /\ making \in [Wifis -> [Interfaces -> Nat]] /\ making[s][i] > 0
          /\ making' = [making EXCEPT ![s][i] = @ - 1]
      BY <1>7 DEF InterfaceReady, TypeOK
    <3>. QED  BY <3>1, OneLess
  <2>2. CASE ConnectBssSignals(s, i) /\ interface' = [interface EXCEPT ![s] = i]
    BY <1>7, <2>1, <2>2, ConnectTypes DEF InterfaceReady, TypeOK
  <2>3. CASE UNCHANGED <<connected, changed, lists, scans, astray>>
    <3>1. interface' \in [Wifis -> Interfaces \cup {None}]
      BY <1>7 DEF InterfaceReady, TypeOK
    <3>. QED  BY <1>7, <2>1, <2>3, <3>1 DEF InterfaceReady, TypeOK
  <2>. QED  BY <1>7, <2>2, <2>3 DEF InterfaceReady
<1>8. ASSUME NEW s \in Wifis, NEW b \in BSSs, BssReady(s, b) PROVE TypeOK'
  <2>1. bssMaking' \in [Wifis -> [BSSs -> Nat]]
    <3>1. /\ bssMaking \in [Wifis -> [BSSs -> Nat]] /\ bssMaking[s][b] > 0
          /\ bssMaking' = [bssMaking EXCEPT ![s][b] = @ - 1]
      BY <1>8 DEF BssReady, TypeOK
    <3>. QED  BY <3>1, OneLess
  <2>2. CASE BssIgnored(s, b)
    BY <1>8, <2>1, <2>2 DEF BssReady, BssIgnored, TypeOK
  <2>3. CASE ignored' = [ignored EXCEPT ![s] = @ \cup {b}]
             /\ UNCHANGED <<bsss, changed, astray>>
    BY <1>8, <2>1, <2>3 DEF BssReady, TypeOK
  <2>4. CASE AddBss(s, b) /\ UNCHANGED <<ignored, astray>>
    BY <1>8, <2>1, <2>4 DEF BssReady, AddBss, TypeOK
  <2>. QED  BY <1>8, <2>2, <2>3, <2>4 DEF BssReady
<1>9. ASSUME NEW s \in Wifis, NEW b \in BSSs, SignalRises(s, b) PROVE TypeOK'
  BY <1>9 DEF SignalRises, AddBss, TypeOK
<1>10. ASSUME NEW i \in Interfaces, InterfaceAdded(i) PROVE TypeOK'
  BY <1>10 DEF InterfaceAdded, TypeOK
<1>11. ASSUME NEW i \in Interfaces, InterfaceRemoved(i) PROVE TypeOK'
  <2>1. DisconnectBssSignals({s \in Wifis : interface[s] = i})
    BY <1>11 DEF InterfaceRemoved
  <2>. QED  BY <1>11, <2>1, DisconnectTypes DEF InterfaceRemoved, TypeOK
<1>12. ASSUME NEW i \in Interfaces, ScanDone(i) PROVE TypeOK'
  BY <1>12 DEF ScanDone, TypeOK, Listeners
<1>13. ASSUME NEW i \in Interfaces, ScanFailed(i) PROVE TypeOK'
  BY <1>13 DEF ScanFailed, TypeOK, Listeners
<1>14. ASSUME NEW i \in Interfaces, NEW b \in BSSs, BssAdded(i, b) PROVE TypeOK'
  BY <1>14 DEF BssAdded, TypeOK, Hearing
<1>15. ASSUME NEW i \in Interfaces, NEW b \in BSSs, BssRemoved(i, b) PROVE TypeOK'
  BY <1>15 DEF BssRemoved, TypeOK, Hearing, GoesAstray
<1>16. CASE UNCHANGED vars
  BY <1>16 DEF vars, TypeOK
<1>. QED  BY <1>1, <1>2, <1>3, <1>4, <1>5, <1>6, <1>7, <1>8, <1>9, <1>10, <1>11,
             <1>12, <1>13, <1>14, <1>15, <1>16 DEF Next
----------------------------------------------------------------------------
(* ConnectedWhenUsable and ScanGoesOn are inductive together.               *)

ConnectedRight(s) ==
    /\ connected[s] <=> active[s] /\ interface[s] # None
    /\ ~connected[s] => Idle(s)

LEMMA DisconnectIdle ==
    ASSUME TypeOK, NEW D \in SUBSET Wifis, DisconnectBssSignals(D), NEW t \in D
    PROVE  ~connected'[t] /\ Idle(t)'
  BY WifiScanAssumption DEF TypeOK, DisconnectBssSignals, Idle, NoProxies

LEMMA DisconnectOthers ==
    ASSUME TypeOK, NEW D \in SUBSET Wifis, DisconnectBssSignals(D), NEW t \in Wifis \ D
    PROVE  /\ connected'[t] = connected[t]
           /\ bssMaking'[t] = bssMaking[t] /\ bsss'[t] = bsss[t] /\ ignored'[t] = ignored[t]
           /\ listening'[t] = listening[t] /\ calls'[t] = calls[t]
           /\ scanWait'[t] = scanWait[t] /\ scanTimer'[t] = scanTimer[t]
           /\ broken'[t] = broken[t] /\ astray'[t] = astray[t]
           /\ mozilla' = t <=> mozilla = t
  BY WifiScanAssumption DEF TypeOK, DisconnectBssSignals

LEMMA ConnectEffect ==
    ASSUME TypeOK, NEW s \in Wifis, NEW i \in Interfaces, ConnectBssSignals(s, i)
    PROVE  /\ connected'[s] /\ listening'[s] /\ calls'[s] > 0 /\ changed'[s]
           /\ \A b \in BSSs : bssMaking'[s][b] = IF b \in inRange[i] THEN 1 ELSE 0
           /\ \A t \in Wifis \ {s} :
                 /\ connected'[t] = connected[t] /\ listening'[t] = listening[t]
                 /\ calls'[t] = calls[t] /\ changed'[t] = changed[t]
                 /\ bssMaking'[t] = bssMaking[t]
           /\ UNCHANGED <<bsss, ignored, scanWait, scanTimer, broken, astray>>
<1>1. calls[s] + 1 > 0
  BY DEF TypeOK
<1>. QED  BY <1>1 DEF TypeOK, ConnectBssSignals, StartScan

LEMMA ConnectedStep ==
    ASSUME TypeOK, ConnectedWhenUsable, [Next]_vars
    PROVE  ConnectedWhenUsable'
<1>. SUFFICES ASSUME NEW t \in Wifis
             PROVE  ConnectedRight(t)'
  BY DEF ConnectedWhenUsable, ConnectedRight
<1>0. ConnectedRight(t)
  BY DEF ConnectedWhenUsable, ConnectedRight
<1>. USE DEF ConnectedRight, Idle, supplicant, lists, scans, Unscanned, TypeOK
<1>1. ASSUME NEW s \in Wifis, Start(s) PROVE ConnectedRight(t)'
  <2>1. CASE interface[s] = None
    BY <1>0, <1>1, <2>1 DEF Start
  <2>2. CASE interface[s] # None
    <3>1. ConnectBssSignals(s, interface[s]) /\ interface[s] \in Interfaces
      BY <1>1, <2>2 DEF Start
    <3>. QED  BY <1>0, <1>1, <2>2, <3>1, ConnectEffect DEF Start
  <2>. QED  BY <2>1, <2>2
<1>2. ASSUME NEW s \in Wifis, Stop(s) PROVE ConnectedRight(t)'
  <2>0. DisconnectBssSignals({s}) /\ {s} \in SUBSET Wifis
    BY <1>2 DEF Stop
  <2>1. CASE t = s
    BY <1>0, <1>2, <2>0, <2>1, DisconnectIdle DEF Stop
  <2>2. CASE t # s
    <3>1. t \in Wifis \ {s}
      BY <2>2
    <3>. QED  BY <1>0, <1>2, <2>0, <3>1, DisconnectOthers DEF Stop
  <2>. QED  BY <2>1, <2>2
<1>3. ASSUME NEW s \in Wifis, ScanAccepted(s) PROVE ConnectedRight(t)'
  BY <1>0, <1>3 DEF ScanAccepted
<1>4. ASSUME NEW s \in Wifis, ScanRefused(s) PROVE ConnectedRight(t)'
  BY <1>0, <1>4 DEF ScanRefused, CancelScan
<1>5. ASSUME NEW s \in Wifis, ScanWaitDone(s) PROVE ConnectedRight(t)'
  BY <1>0, <1>5 DEF ScanWaitDone
<1>6. ASSUME NEW s \in Wifis, ScanTimeout(s) PROVE ConnectedRight(t)'
  BY <1>0, <1>6 DEF ScanTimeout, StartScan
<1>7. ASSUME NEW s \in Wifis, NEW i \in Interfaces, InterfaceReady(s, i)
      PROVE  ConnectedRight(t)'
  <2>1. CASE interface' = [interface EXCEPT ![s] = i] /\ ConnectBssSignals(s, i)
                /\ active[s]
    BY <1>0, <1>7, <2>1, ConnectEffect, WifiScanAssumption DEF InterfaceReady
  <2>2. CASE /\ UNCHANGED <<connected, changed, lists, scans, astray>>
             /\ \/ UNCHANGED interface
                \/ interface[s] = None /\ ~active[s]
                   /\ interface' = [interface EXCEPT ![s] = i]
    BY <1>0, <1>7, <2>2 DEF InterfaceReady
  <2>. QED  BY <1>7, <2>1, <2>2 DEF InterfaceReady
<1>8. ASSUME NEW s \in Wifis, NEW b \in BSSs, BssReady(s, b)
      PROVE  ConnectedRight(t)'
  BY <1>0, <1>8 DEF BssReady, BssIgnored, AddBss, NoProxies
<1>9. ASSUME NEW s \in Wifis, NEW b \in BSSs, SignalRises(s, b)
      PROVE  ConnectedRight(t)'
  BY <1>0, <1>9 DEF SignalRises, AddBss
<1>10. ASSUME NEW i \in Interfaces, InterfaceAdded(i) PROVE ConnectedRight(t)'
  BY <1>0, <1>10 DEF InterfaceAdded
<1>11. ASSUME NEW i \in Interfaces, InterfaceRemoved(i) PROVE ConnectedRight(t)'
  <2>. DEFINE D == {s \in Wifis : interface[s] = i}
  <2>1. DisconnectBssSignals(D)
    BY <1>11 DEF InterfaceRemoved
  <2>2. CASE t \in D
    BY <1>0, <1>11, <2>1, <2>2, DisconnectIdle DEF InterfaceRemoved
  <2>3. CASE t \notin D
    BY <1>0, <1>11, <2>1, <2>3, DisconnectOthers DEF InterfaceRemoved
  <2>. QED  BY <2>2, <2>3
<1>12. ASSUME NEW i \in Interfaces, ScanDone(i) PROVE ConnectedRight(t)'
  BY <1>0, <1>12 DEF ScanDone, Listeners
<1>13. ASSUME NEW i \in Interfaces, ScanFailed(i) PROVE ConnectedRight(t)'
  BY <1>0, <1>13 DEF ScanFailed
<1>14. ASSUME NEW i \in Interfaces, NEW b \in BSSs, BssAdded(i, b)
       PROVE  ConnectedRight(t)'
  BY <1>0, <1>14 DEF BssAdded, Hearing
<1>15. ASSUME NEW i \in Interfaces, NEW b \in BSSs, BssRemoved(i, b)
       PROVE  ConnectedRight(t)'
  BY <1>0, <1>15 DEF BssRemoved, Hearing
<1>16. CASE UNCHANGED vars
  BY <1>0, <1>16 DEF vars
<1>. QED  BY <1>1, <1>2, <1>3, <1>4, <1>5, <1>6, <1>7, <1>8, <1>9, <1>10, <1>11,
             <1>12, <1>13, <1>14, <1>15, <1>16 DEF Next

(* The part of ScanGoesOn about one source.                                 *)
ScanGoing(s) ==
    connected[s] /\ ~broken[s] =>
       listening[s] /\ (calls[s] > 0 \/ scanning[interface[s]] \/ scanTimer[s])

LEMMA ScanStep ==
    ASSUME TypeOK, ConnectedWhenUsable, ScanGoesOn, [Next]_vars
    PROVE  ScanGoesOn'
<1>. SUFFICES ASSUME NEW t \in Wifis
             PROVE  ScanGoing(t)'
  BY DEF ScanGoesOn, ScanGoing
<1>0. ConnectedRight(t) /\ ScanGoing(t)
  BY DEF ConnectedWhenUsable, ConnectedRight, ScanGoesOn, ScanGoing
<1>. USE DEF ConnectedRight, ScanGoing, supplicant, lists, scans, Unscanned, TypeOK
<1>1. ASSUME NEW s \in Wifis, Start(s) PROVE ScanGoing(t)'
  <2>1. CASE interface[s] = None
    BY <1>0, <1>1, <2>1 DEF Start
  <2>2. CASE interface[s] # None
    <3>1. ConnectBssSignals(s, interface[s]) /\ interface[s] \in Interfaces
      BY <1>1, <2>2 DEF Start
    <3>. QED  BY <1>0, <1>1, <2>2, <3>1, ConnectEffect DEF Start
  <2>. QED  BY <2>1, <2>2
<1>2. ASSUME NEW s \in Wifis, Stop(s) PROVE ScanGoing(t)'
  <2>0. DisconnectBssSignals({s}) /\ {s} \in SUBSET Wifis
    BY <1>2 DEF Stop
  <2>1. CASE t = s
    BY <1>0, <1>2, <2>0, <2>1, DisconnectIdle DEF Stop
  <2>2. CASE t # s
    <3>1. t \in Wifis \ {s}
      BY <2>2
    <3>. QED  BY <1>0, <1>2, <2>0, <3>1, DisconnectOthers DEF Stop
  <2>. QED  BY <2>1, <2>2
<1>3. ASSUME NEW s \in Wifis, ScanAccepted(s) PROVE ScanGoing(t)'
  BY <1>0, <1>3 DEF ScanAccepted
<1>4. ASSUME NEW s \in Wifis, ScanRefused(s) PROVE ScanGoing(t)'
  BY <1>0, <1>4 DEF ScanRefused, CancelScan
<1>5. ASSUME NEW s \in Wifis, ScanWaitDone(s) PROVE ScanGoing(t)'
  BY <1>0, <1>5 DEF ScanWaitDone
<1>6. ASSUME NEW s \in Wifis, ScanTimeout(s) PROVE ScanGoing(t)'
  BY <1>0, <1>6 DEF ScanTimeout, StartScan
<1>7. ASSUME NEW s \in Wifis, NEW i \in Interfaces, InterfaceReady(s, i)
      PROVE  ScanGoing(t)'
  <2>1. CASE interface' = [interface EXCEPT ![s] = i] /\ ConnectBssSignals(s, i)
                /\ active[s]
    BY <1>0, <1>7, <2>1, ConnectEffect, WifiScanAssumption DEF InterfaceReady
  <2>2. CASE /\ UNCHANGED <<connected, changed, lists, scans, astray>>
             /\ \/ UNCHANGED interface
                \/ interface[s] = None /\ ~active[s]
                   /\ interface' = [interface EXCEPT ![s] = i]
    BY <1>0, <1>7, <2>2 DEF InterfaceReady
  <2>. QED  BY <1>7, <2>1, <2>2 DEF InterfaceReady
<1>8. ASSUME NEW s \in Wifis, NEW b \in BSSs, BssReady(s, b)
      PROVE  ScanGoing(t)'
  BY <1>0, <1>8 DEF BssReady
<1>9. ASSUME NEW s \in Wifis, NEW b \in BSSs, SignalRises(s, b)
      PROVE  ScanGoing(t)'
  BY <1>0, <1>9 DEF SignalRises
<1>10. ASSUME NEW i \in Interfaces, InterfaceAdded(i) PROVE ScanGoing(t)'
  BY <1>0, <1>10 DEF InterfaceAdded
<1>11. ASSUME NEW i \in Interfaces, InterfaceRemoved(i) PROVE ScanGoing(t)'
  <2>. DEFINE D == {s \in Wifis : interface[s] = i}
  <2>1. DisconnectBssSignals(D)
    BY <1>11 DEF InterfaceRemoved
  <2>2. CASE t \in D
    BY <1>0, <1>11, <2>1, <2>2, DisconnectIdle DEF InterfaceRemoved
  <2>3. CASE t \notin D
    <3>1. t \in Wifis \ D /\ D \in SUBSET Wifis /\ interface[t] # i
      BY <2>3
    <3>2. interface'[t] = interface[t] /\ scanning'[interface[t]] = scanning[interface[t]]
      BY <1>11, <3>1 DEF InterfaceRemoved
    <3>. QED  BY <1>0, <2>1, <3>1, <3>2, DisconnectOthers
  <2>. QED  BY <2>2, <2>3
<1>12. ASSUME NEW i \in Interfaces, ScanDone(i) PROVE ScanGoing(t)'
  BY <1>0, <1>12 DEF ScanDone, Listeners
<1>13. ASSUME NEW i \in Interfaces, ScanFailed(i) PROVE ScanGoing(t)'
  BY <1>0, <1>13 DEF ScanFailed, Listeners
<1>14. ASSUME NEW i \in Interfaces, NEW b \in BSSs, BssAdded(i, b)
       PROVE  ScanGoing(t)'
  BY <1>0, <1>14 DEF BssAdded
<1>15. ASSUME NEW i \in Interfaces, NEW b \in BSSs, BssRemoved(i, b)
       PROVE  ScanGoing(t)'
  BY <1>0, <1>15 DEF BssRemoved
<1>16. CASE UNCHANGED vars
  BY <1>0, <1>16 DEF vars
<1>. QED  BY <1>1, <1>2, <1>3, <1>4, <1>5, <1>6, <1>7, <1>8, <1>9, <1>10, <1>11,
             <1>12, <1>13, <1>14, <1>15, <1>16 DEF Next
----------------------------------------------------------------------------
(* ListIsReal needs that proxies under way are of access points in range,   *)
(* or of some that are noted as astray.                                     *)

Listed(s, b) == b \in bsss[s] \/ b \in ignored[s] \/ bssMaking[s][b] > 0

ListRight(s, b) ==
    connected[s] =>
       /\ Listed(s, b) => b \in inRange[interface[s]] \/ b \in astray[s]
       /\ b \in inRange[interface[s]] => Listed(s, b) \/ b \in astray[s]

ListInv == \A s \in Wifis, b \in BSSs : ListRight(s, b)

LEMMA ListInvReal == TypeOK /\ ConnectedWhenUsable /\ ListInv => ListIsReal
<1>. SUFFICES ASSUME TypeOK, ConnectedWhenUsable, ListInv,
                    NEW s \in Wifis, connected[s]
             PROVE  /\ bsss[s] \cup ignored[s] \subseteq inRange[interface[s]] \cup astray[s]
                    /\ inRange[interface[s]] \subseteq bsss[s] \cup ignored[s] \cup astray[s]
                                \cup {b \in BSSs : bssMaking[s][b] > 0}
  BY DEF ListIsReal
<1>1. interface[s] \in Interfaces
  BY DEF ConnectedWhenUsable, TypeOK
<1>. QED  BY <1>1 DEF TypeOK, ListInv, ListRight, Listed

LEMMA ListStep ==
    ASSUME TypeOK, ConnectedWhenUsable, ListInv, [Next]_vars
    PROVE  ListInv'
<1>. SUFFICES ASSUME NEW t \in Wifis, NEW c \in BSSs
             PROVE  ListRight(t, c)'
  BY DEF ListInv
<1>0. ConnectedRight(t) /\ ListRight(t, c)
  BY DEF ConnectedWhenUsable, ConnectedRight, ListInv
<1>. USE DEF ConnectedRight, ListRight, Listed, supplicant, lists, scans, Unscanned, TypeOK
<1>1. ASSUME NEW s \in Wifis, Start(s) PROVE ListRight(t, c)'
  <2>1. CASE interface[s] = None
    BY <1>0, <1>1, <2>1 DEF Start
  <2>2. CASE interface[s] # None
    <3>1. ConnectBssSignals(s, interface[s]) /\ interface[s] \in Interfaces
      BY <1>1, <2>2 DEF Start
    <3>. QED  BY <1>0, <1>1, <2>2, <3>1, ConnectEffect DEF Start, Idle
  <2>. QED  BY <2>1, <2>2
<1>2. ASSUME NEW s \in Wifis, Stop(s) PROVE ListRight(t, c)'
  <2>0. DisconnectBssSignals({s}) /\ {s} \in SUBSET Wifis
    BY <1>2 DEF Stop
  <2>1. CASE t = s
    BY <1>0, <1>2, <2>0, <2>1, DisconnectIdle DEF Stop
  <2>2. CASE t # s
    <3>1. t \in Wifis \ {s}
      BY <2>2
    <3>. QED  BY <1>0, <1>2, <2>0, <3>1, DisconnectOthers DEF Stop
  <2>. QED  BY <2>1, <2>2
<1>3. ASSUME NEW s \in Wifis, ScanAccepted(s) PROVE ListRight(t, c)'
  BY <1>0, <1>3 DEF ScanAccepted
<1>4. ASSUME NEW s \in Wifis, ScanRefused(s) PROVE ListRight(t, c)'
  BY <1>0, <1>4 DEF ScanRefused
<1>5. ASSUME NEW s \in Wifis, ScanWaitDone(s) PROVE ListRight(t, c)'
  BY <1>0, <1>5 DEF ScanWaitDone
<1>6. ASSUME NEW s \in Wifis, ScanTimeout(s) PROVE ListRight(t, c)'
  BY <1>0, <1>6 DEF ScanTimeout
<1>7. ASSUME NEW s \in Wifis, NEW i \in Interfaces, InterfaceReady(s, i)
      PROVE  ListRight(t, c)'
  <2>1. CASE interface' = [interface EXCEPT ![s] = i] /\ ConnectBssSignals(s, i)
                /\ interface[s] = None
    BY <1>0, <1>7, <2>1, ConnectEffect DEF InterfaceReady, Idle
  <2>2. CASE /\ UNCHANGED <<connected, changed, lists, scans, astray>>
             /\ \/ UNCHANGED interface
                \/ interface[s] = None /\ ~active[s]
                   /\ interface' = [interface EXCEPT ![s] = i]
    BY <1>0, <1>7, <2>2 DEF InterfaceReady
  <2>. QED  BY <1>7, <2>1, <2>2 DEF InterfaceReady
<1>8. ASSUME NEW s \in Wifis, NEW b \in BSSs, BssReady(s, b)
      PROVE  ListRight(t, c)'
  <2>2. CASE t = s /\ c = b
    BY <1>0, <1>8, <2>2 DEF BssReady, BssIgnored, AddBss
  <2>3. CASE t # s \/ c # b
    <3>1. bssMaking'[t][c] = bssMaking[t][c]
      BY <1>8, <2>3 DEF BssReady
    <3>. QED  BY <1>0, <1>8, <2>3, <3>1 DEF BssReady, BssIgnored, AddBss
  <2>. QED  BY <2>2, <2>3
<1>9. ASSUME NEW s \in Wifis, NEW b \in BSSs, SignalRises(s, b)
      PROVE  ListRight(t, c)'
  BY <1>0, <1>9 DEF SignalRises, AddBss
<1>10. ASSUME NEW i \in Interfaces, InterfaceAdded(i) PROVE ListRight(t, c)'
  BY <1>0, <1>10 DEF InterfaceAdded
<1>11. ASSUME NEW i \in Interfaces, InterfaceRemoved(i) PROVE ListRight(t, c)'
  <2>. DEFINE D == {s \in Wifis : interface[s] = i}
  <2>1. DisconnectBssSignals(D)
    BY <1>11 DEF InterfaceRemoved
  <2>2. CASE t \in D
    BY <1>0, <1>11, <2>1, <2>2, DisconnectIdle DEF InterfaceRemoved
  <2>3. CASE t \notin D
    <3>1. t \in Wifis \ D /\ D \in SUBSET Wifis /\ interface[t] # i
      BY <2>3
    <3>2. interface'[t] = interface[t] /\ inRange'[interface[t]] = inRange[interface[t]]
      BY <1>11, <3>1 DEF InterfaceRemoved
    <3>3. /\ connected'[t] = connected[t] /\ bsss'[t] = bsss[t]
          /\ ignored'[t] = ignored[t] /\ bssMaking'[t] = bssMaking[t]
          /\ astray'[t] = astray[t]
      BY <2>1, <3>1, DisconnectOthers
    <3>. HIDE DEF D
    <3>. QED  BY <1>0, <3>2, <3>3
  <2>. QED  BY <2>2, <2>3
<1>12. ASSUME NEW i \in Interfaces, ScanDone(i) PROVE ListRight(t, c)'
  BY <1>0, <1>12 DEF ScanDone
<1>13. ASSUME NEW i \in Interfaces, ScanFailed(i) PROVE ListRight(t, c)'
  BY <1>0, <1>13 DEF ScanFailed
<1>14. ASSUME NEW i \in Interfaces, NEW b \in BSSs, BssAdded(i, b)
       PROVE  ListRight(t, c)'
  <2>1. CASE t \in Hearing(i) /\ c = b
    BY <1>0, <1>14, <2>1 DEF BssAdded, Hearing
  <2>2. CASE t \notin Hearing(i) \/ c # b
    BY <1>0, <1>14, <2>2 DEF BssAdded, Hearing
  <2>. QED  BY <2>1, <2>2
<1>15. ASSUME NEW i \in Interfaces, NEW b \in BSSs, BssRemoved(i, b)
       PROVE  ListRight(t, c)'
  <2>1. CASE t \in Hearing(i) /\ c = b
    BY <1>0, <1>15, <2>1 DEF BssRemoved, Hearing, GoesAstray
  <2>2. CASE t \notin Hearing(i) \/ c # b
    BY <1>0, <1>15, <2>2 DEF BssRemoved, Hearing, GoesAstray
  <2>. QED  BY <2>1, <2>2
<1>16. CASE UNCHANGED vars
  BY <1>0, <1>16 DEF vars
<1>. QED  BY <1>1, <1>2, <1>3, <1>4, <1>5, <1>6, <1>7, <1>8, <1>9, <1>10, <1>11,
             <1>12, <1>13, <1>14, <1>15, <1>16 DEF Next
----------------------------------------------------------------------------
(* The theorems about invariants.                                           *)

WifiInv == TypeOK /\ ConnectedWhenUsable /\ ScanGoesOn /\ ListInv

LEMMA WifiInvInit == Init => WifiInv
<1>. SUFFICES ASSUME Init PROVE WifiInv
  OBVIOUS
<1>1. \A s \in Wifis : ~connected[s] /\ ~active[s] /\ interface[s] = None
  BY DEF Init
<1>2. \A s \in Wifis : Idle(s)
  BY WifiScanAssumption DEF Init, Idle
<1>. QED  BY TypeInit, <1>1, <1>2
          DEF WifiInv, ConnectedWhenUsable, ScanGoesOn, ListInv, ListRight

LEMMA WifiInvStep == WifiInv /\ [Next]_vars => WifiInv'
  BY TypeStep, ConnectedStep, ScanStep, ListStep DEF WifiInv

LEMMA WifiInvAlways == Spec => []WifiInv
  BY WifiInvInit, WifiInvStep, PTL DEF Spec

(* Every part of the sources' state stays of its type.                      *)
THEOREM WifiTypes == Spec => []TypeOK
<1>1. WifiInv => TypeOK
  BY DEF WifiInv
<1>. QED  BY <1>1, WifiInvAlways, PTL

(* A source listens and scans exactly while it is started and has an        *)
(* interface (connect_bss_signals, disconnect_bss_signals).                 *)
THEOREM AlwaysConnectedWhenUsable == Spec => []ConnectedWhenUsable
<1>1. WifiInv => ConnectedWhenUsable
  BY DEF WifiInv
<1>. QED  BY <1>1, WifiInvAlways, PTL

(* Only a refused or failed scan ends the chain of scans of a connected     *)
(* source (on_scan_call_done, on_scan_done, on_scan_timeout).               *)
THEOREM ScanAlwaysGoesOn == Spec => []ScanGoesOn
<1>1. WifiInv => ScanGoesOn
  BY DEF WifiInv
<1>. QED  BY <1>1, WifiInvAlways, PTL

(* The list of a connected source is that of its interface, but for proxies *)
(* overtaken by their object (on_bss_added, on_bss_removed).                *)
THEOREM ListAlwaysReal == Spec => []ListIsReal
<1>1. WifiInv => ListIsReal
  BY ListInvReal DEF WifiInv
<1>. QED  BY <1>1, WifiInvAlways, PTL

----------------------------------------------------------------------------
(* Each source is one of AccessPoints.                                      *)
LEMMA PointsInit ==
    ASSUME Init, NEW t \in Wifis
    PROVE  Points(t)!Init
  BY DEF Init, Points!Init

(* Nothing changes in what AccessPoints knows of a source.                  *)
SamePoint(t) ==
    /\ active'[t] = active[t]
    /\ interface'[t] = interface[t]
    /\ bsss'[t] = bsss[t]
    /\ changed'[t] = changed[t]

LEMMA PointStutters ==
    ASSUME NEW t \in Wifis, SamePoint(t), UNCHANGED mozilla
    PROVE  UNCHANGED Points(t)!apVars
  BY DEF SamePoint, Points!apVars

(* Another source is disconnected: its list may have been the asked one.    *)
LEMMA PointLosesOther ==
    ASSUME TypeOK, NEW t \in Wifis, SamePoint(t), NEW D \in SUBSET Wifis,
           t \notin D, mozilla' = IF mozilla \in D THEN None ELSE mozilla
    PROVE  [Points(t)!OtherGone]_(Points(t)!apVars)
<1>1. CASE mozilla \in D
  BY <1>1, WifiScanAssumption DEF SamePoint, Points!OtherGone, Points!apVars
<1>2. CASE mozilla \notin D
  BY <1>2, PointStutters
<1>. QED  BY <1>1, <1>2

(* A connected source lists one access point more or less.                  *)
LEMMA PointLists ==
    ASSUME NEW t \in Wifis, active[t], interface[t] # None, NEW b \in BSSs,
           active'[t] = active[t], interface'[t] = interface[t], UNCHANGED mozilla,
           \/ b \notin bsss[t] /\ bsss'[t] = bsss[t] \cup {b}
           \/ b \in bsss[t] /\ bsss'[t] = bsss[t] \ {b},
           changed'[t] = TRUE
    PROVE  Points(t)!ListChanges
<1>1. bsss'[t] # bsss[t] /\ bsss'[t] \in {bsss[t] \cup {b}, bsss[t] \ {b}}
  OBVIOUS
<1>. QED  BY <1>1 DEF Points!ListChanges, Points!Connected

LEMMA PointsStep ==
    ASSUME WifiInv, [Next]_vars, NEW t \in Wifis
    PROVE  [Points(t)!Next]_(Points(t)!apVars)
<1>0. TypeOK /\ ConnectedRight(t)
  BY DEF WifiInv, ConnectedWhenUsable, ConnectedRight
<1>. DEFINE Step == [Points(t)!Next]_(Points(t)!apVars)
<1>u. UNCHANGED Points(t)!apVars => Step
  OBVIOUS
<1>g. [Points(t)!OtherGone]_(Points(t)!apVars) => Step
  BY DEF Points!Next
<1>s. UNCHANGED mozilla /\ SamePoint(t) => Step
  BY <1>u, PointStutters
<1>. USE DEF supplicant, lists, scans, Unscanned
<1>1. ASSUME NEW s \in Wifis, Start(s) PROVE Step
  <2>1. UNCHANGED <<interface, bsss, mozilla>> /\ active' = [active EXCEPT ![s] = TRUE]
    BY <1>1 DEF Start, ConnectBssSignals
  <2>2. CASE t = s
    <3>1. ~active[t] /\ active'[t] = TRUE
      BY <1>0, <1>1, <2>1, <2>2 DEF Start, TypeOK
    <3>2. changed'[t] = (interface[t] # None \/ changed[t])
      BY <1>0, <1>1, <2>2 DEF Start, ConnectBssSignals, TypeOK
    <3>3. Points(t)!Start
      BY <2>1, <3>1, <3>2 DEF Points!Start
    <3>. QED  BY <3>3 DEF Points!Next
  <2>3. CASE t # s
    <3>1. SamePoint(t)
      BY <1>0, <1>1, <2>1, <2>3 DEF SamePoint, Start, ConnectBssSignals, TypeOK
    <3>. QED  BY <1>s, <2>1, <3>1
  <2>. QED  BY <2>2, <2>3
<1>2. ASSUME NEW s \in Wifis, Stop(s) PROVE Step
  <2>1. CASE t = s
    <3>1. active[t] /\ active'[t] = FALSE /\ UNCHANGED interface
      BY <1>0, <1>2, <2>1 DEF Stop, TypeOK
    <3>2. bsss'[t] = {} /\ changed' = changed
          /\ mozilla' = IF mozilla = t THEN None ELSE mozilla
      BY <1>0, <1>2, <2>1 DEF Stop, DisconnectBssSignals, TypeOK
    <3>3. Points(t)!Stop
      BY <1>0, <3>1, <3>2, WifiScanAssumption DEF Points!Stop, Points!Disconnect
    <3>. QED  BY <3>3 DEF Points!Next
  <2>2. CASE t # s
    <3>1. SamePoint(t)
      BY <1>0, <1>2, <2>2 DEF SamePoint, Stop, DisconnectBssSignals, TypeOK
    <3>2. mozilla' = (IF mozilla \in {s} THEN None ELSE mozilla)
          /\ t \notin {s} /\ {s} \in SUBSET Wifis
      BY <1>2, <2>2 DEF Stop, DisconnectBssSignals
    <3>. QED  BY <1>0, <1>g, <3>1, <3>2, PointLosesOther
  <2>. QED  BY <2>1, <2>2
<1>3. ASSUME NEW s \in Wifis, ScanAccepted(s) PROVE Step
  BY <1>s, <1>3 DEF ScanAccepted, SamePoint
<1>4. ASSUME NEW s \in Wifis, ScanRefused(s) PROVE Step
  BY <1>s, <1>4 DEF ScanRefused, SamePoint
<1>5. ASSUME NEW s \in Wifis, ScanWaitDone(s) PROVE Step
  <2>1. UNCHANGED <<active, interface, bsss>> /\ mozilla' = s /\ s # None
    BY <1>5, WifiScanAssumption DEF ScanWaitDone
  <2>2. CASE t = s
    <3>1. active[t] /\ interface[t] # None /\ changed'[t] = FALSE
      BY <1>0, <1>5, <2>2 DEF ScanWaitDone, ConnectedRight, Idle, TypeOK
    <3>2. Points(t)!Scanned
      BY <2>1, <2>2, <3>1 DEF Points!Scanned, Points!Connected
    <3>. QED  BY <3>2 DEF Points!Next
  <2>3. CASE t # s
    <3>1. changed'[t] = changed[t]
      BY <1>0, <1>5, <2>3 DEF ScanWaitDone, TypeOK
    <3>2. Points(t)!OtherScanned
      BY <2>1, <2>3, <3>1 DEF Points!OtherScanned
    <3>. QED  BY <3>2 DEF Points!Next
  <2>. QED  BY <2>2, <2>3
<1>6. ASSUME NEW s \in Wifis, ScanTimeout(s) PROVE Step
  BY <1>s, <1>6 DEF ScanTimeout, SamePoint
<1>7. ASSUME NEW s \in Wifis, NEW i \in Interfaces, InterfaceReady(s, i) PROVE Step
  <2>1. UNCHANGED <<active, bsss, mozilla>>
    BY <1>7 DEF InterfaceReady, ConnectBssSignals
  <2>2. CASE UNCHANGED <<interface, changed>>
    BY <1>s, <2>1, <2>2 DEF SamePoint
  <2>3. CASE /\ interface[s] = None
             /\ interface' = [interface EXCEPT ![s] = i]
             /\ IF active[s] THEN ConnectBssSignals(s, i) ELSE UNCHANGED changed
    <3>1. CASE t = s
      <4>1. interface[t] = None /\ interface'[t] # None
        BY <1>0, <2>3, <3>1, WifiScanAssumption DEF TypeOK
      <4>2. changed'[t] = (active[t] \/ changed[t])
        BY <1>0, <2>3, <3>1 DEF ConnectBssSignals, TypeOK
      <4>3. Points(t)!GainDevice
        BY <2>1, <4>1, <4>2 DEF Points!GainDevice
      <4>. QED  BY <4>3 DEF Points!Next
    <3>2. CASE t # s
      <4>1. SamePoint(t)
        BY <1>0, <2>1, <2>3, <3>2 DEF SamePoint, ConnectBssSignals, TypeOK
      <4>. QED  BY <1>s, <2>1, <4>1
    <3>. QED  BY <3>1, <3>2
  <2>. QED  BY <1>7, <2>2, <2>3 DEF InterfaceReady
<1>8. ASSUME NEW s \in Wifis, NEW b \in BSSs, BssReady(s, b) PROVE Step
  <2>1. UNCHANGED <<active, interface, mozilla>>
    BY <1>8 DEF BssReady
  <2>2. CASE UNCHANGED <<bsss, changed>>
    BY <1>s, <2>1, <2>2 DEF SamePoint
  <2>3. CASE AddBss(s, b)
    <3>1. CASE t # s \/ b \in bsss[s]
      <4>1. SamePoint(t)
        BY <1>0, <2>1, <2>3, <3>1 DEF SamePoint, AddBss, TypeOK
      <4>. QED  BY <1>s, <2>1, <4>1
    <3>2. CASE t = s /\ b \notin bsss[s]
      <4>1. connected[t]
        BY <1>0, <1>8, <3>2 DEF BssReady, ConnectedRight, Idle, NoProxies
      <4>2. bsss'[t] = bsss[t] \cup {b} /\ changed'[t] = TRUE
        BY <1>0, <2>3, <3>2 DEF AddBss, TypeOK
      <4>3. Points(t)!ListChanges
        BY <1>0, <2>1, <3>2, <4>1, <4>2, PointLists DEF ConnectedRight
      <4>. QED  BY <4>3 DEF Points!Next
    <3>. QED  BY <3>1, <3>2
  <2>. QED  BY <1>8, <2>2, <2>3 DEF BssReady, BssIgnored
<1>9. ASSUME NEW s \in Wifis, NEW b \in BSSs, SignalRises(s, b) PROVE Step
  <2>1. UNCHANGED <<active, interface, mozilla>> /\ AddBss(s, b)
    BY <1>9 DEF SignalRises
  <2>2. CASE t # s \/ b \in bsss[s]
    <3>1. SamePoint(t)
      BY <1>0, <2>1, <2>2 DEF SamePoint, AddBss, TypeOK
    <3>. QED  BY <1>s, <2>1, <3>1
  <2>3. CASE t = s /\ b \notin bsss[s]
    <3>1. connected[t]
      BY <1>0, <1>9, <2>3 DEF SignalRises, ConnectedRight, Idle
    <3>2. bsss'[t] = bsss[t] \cup {b} /\ changed'[t] = TRUE
      BY <1>0, <2>1, <2>3 DEF AddBss, TypeOK
    <3>3. Points(t)!ListChanges
      BY <1>0, <2>1, <2>3, <3>1, <3>2, PointLists DEF ConnectedRight
    <3>. QED  BY <3>3 DEF Points!Next
  <2>. QED  BY <2>2, <2>3
<1>10. ASSUME NEW i \in Interfaces, InterfaceAdded(i) PROVE Step
  BY <1>s, <1>10 DEF InterfaceAdded, SamePoint
<1>11. ASSUME NEW i \in Interfaces, InterfaceRemoved(i) PROVE Step
  <2>. DEFINE D == {s \in Wifis : interface[s] = i}
  <2>0. DisconnectBssSignals(D) /\ D \in SUBSET Wifis
    BY <1>11 DEF InterfaceRemoved
  <2>1. UNCHANGED <<active, changed>>
        /\ mozilla' = IF mozilla \in D THEN None ELSE mozilla
    BY <1>11, <2>0 DEF InterfaceRemoved, DisconnectBssSignals
  <2>2. CASE t \in D
    <3>1. interface[t] # None /\ interface'[t] = None /\ bsss'[t] = {}
      BY <1>11, <2>0, <2>2, WifiScanAssumption DEF InterfaceRemoved, DisconnectBssSignals
    <3>2. Points(t)!LoseDevice
      BY <1>0, <2>1, <2>2, <3>1, WifiScanAssumption
         DEF Points!LoseDevice, Points!Disconnect, TypeOK
    <3>. QED  BY <3>2 DEF Points!Next
  <2>3. CASE t \notin D
    <3>1. interface'[t] = interface[t]
      BY <1>11, <2>3 DEF InterfaceRemoved
    <3>2. bsss'[t] = bsss[t]
      BY <2>0, <2>3 DEF DisconnectBssSignals
    <3>3. SamePoint(t)
      BY <2>1, <3>1, <3>2 DEF SamePoint
    <3>. HIDE DEF D
    <3>. QED  BY <1>0, <1>g, <2>0, <2>1, <2>3, <3>3, PointLosesOther
  <2>. QED  BY <2>2, <2>3
<1>12. ASSUME NEW i \in Interfaces, ScanDone(i) PROVE Step
  BY <1>s, <1>12 DEF ScanDone, SamePoint
<1>13. ASSUME NEW i \in Interfaces, ScanFailed(i) PROVE Step
  BY <1>s, <1>13 DEF ScanFailed, SamePoint
<1>14. ASSUME NEW i \in Interfaces, NEW b \in BSSs, BssAdded(i, b) PROVE Step
  BY <1>s, <1>14 DEF BssAdded, SamePoint
<1>15. ASSUME NEW i \in Interfaces, NEW b \in BSSs, BssRemoved(i, b) PROVE Step
  <2>1. UNCHANGED <<active, interface, mozilla>>
    BY <1>15 DEF BssRemoved
  <2>2. CASE t \in Hearing(i) /\ b \in bsss[t]
    <3>1. active[t] /\ interface[t] # None
      BY <1>0, <2>2 DEF Hearing, ConnectedRight
    <3>2. bsss'[t] = bsss[t] \ {b} /\ changed'[t] = TRUE
      BY <1>0, <1>15, <2>2 DEF BssRemoved, TypeOK
    <3>3. Points(t)!ListChanges
      BY <2>1, <2>2, <3>1, <3>2, PointLists
    <3>. QED  BY <3>3 DEF Points!Next
  <2>3. CASE ~(t \in Hearing(i) /\ b \in bsss[t])
    <3>1. bsss'[t] = bsss[t] /\ changed'[t] = changed[t]
      BY <1>0, <1>15, <2>3 DEF BssRemoved, TypeOK
    <3>. QED  BY <1>s, <2>1, <3>1 DEF SamePoint
  <2>. QED  BY <2>2, <2>3
<1>16. CASE UNCHANGED vars
  BY <1>s, <1>16 DEF vars, SamePoint
<1>. QED  BY <1>1, <1>2, <1>3, <1>4, <1>5, <1>6, <1>7, <1>8, <1>9, <1>10, <1>11,
             <1>12, <1>13, <1>14, <1>15, <1>16 DEF Next

(* Whatever the proxies, scans and signals do, each source lists access     *)
(* points, and has its list asked, the way WebSource counts on: gclue-wifi.c*)
(* implements AccessPoints.                                                 *)
THEOREM EverySourceIsAccessPoints == Spec => EverySourceListsPoints
<1>. DEFINE PointsInits == \A s \in Wifis : Points(s)!Init
            PointsSteps == \A s \in Wifis : [Points(s)!Next]_(Points(s)!apVars)
<1>1. Init => PointsInits
  BY PointsInit
<1>2. WifiInv /\ [Next]_vars => [PointsSteps]_vars
  BY PointsStep
<1>3. Spec => PointsInits /\ [][PointsSteps]_vars
  <2>. HIDE DEF PointsInits, PointsSteps
  <2>. QED  BY <1>1, <1>2, WifiInvAlways, PTL DEF Spec
<1>. QED  BY <1>3 DEF EverySourceListsPoints
=============================================================================
