------------------------------- MODULE WifiScan ----------------------------
(***************************************************************************)
(* The wifi sources (gclue-wifi.c) and wpa_supplicant: interfaces and      *)
(* access points come and go, their D-Bus proxies are made asynchronously, *)
(* and a chain of scans keeps the list of access points fresh.  The        *)
(* sources, one for each accuracy level, share a GClueMozilla, which puts  *)
(* the list of the source that scanned last into every query.              *)
(*                                                                         *)
(* Refreshing the location is the business of WebSource.                   *)
(***************************************************************************)
EXTENDS Integers, FiniteSets

CONSTANTS
    Wifis,       \* the singletons of gclue_wifi_get_singleton
    Interfaces,  \* object paths of network interfaces
    BSSs,        \* object paths of access points
    MaxProxies,  \* bound: proxies under way for one object path
    MaxCalls,    \* bound: Scan calls under way for one source
    None

ASSUME WifiScanAssumption ==
    /\ MaxProxies \in Nat \ {0} /\ MaxCalls \in Nat \ {0}
    /\ None \notin Interfaces \cup Wifis

VARIABLES
    interfaces,  \* wpa_supplicant: its interfaces
    inRange,     \* ... [Interfaces -> the access points it lists]
    scanning,    \* ... [Interfaces -> a scan is under way, ScanDone is to come]
    active,      \* [Wifis -> the source is started]
    interface,   \* [Wifis -> its interface, or None]
    making,      \* [Wifis -> proxies under way for each interface]
    connected,   \* [Wifis -> bss_added_id and bss_removed_id are set]
    bssMaking,   \* [Wifis -> proxies under way for each access point]
    bsss,        \* [Wifis -> bss_proxies]
    ignored,     \* [Wifis -> ignored_bss_proxies, too weak to be of use]
    changed,     \* [Wifis -> bss_list_changed]
    listening,   \* [Wifis -> scan_done_id is set]
    calls,       \* [Wifis -> Scan calls under way]
    scanWait,    \* [Wifis -> scan_wait_id: the second after a scan]
    scanTimer,   \* [Wifis -> scan_timeout: the next scan is scheduled]
    mozilla,     \* the source whose list queries carry, or None
    broken,      \* history: [Wifis -> the last scan was refused or failed]
    astray       \* history: [Wifis -> paths whose proxy was lost, or was
                 \* under way when the object went]

vars == <<interfaces, inRange, scanning, active, interface, making, connected,
          bssMaking, bsss, ignored, changed, listening, calls, scanWait,
          scanTimer, mozilla, broken, astray>>

supplicant == <<interfaces, inRange, scanning>>
scans == <<listening, calls, scanWait, scanTimer, broken>>
lists == <<bssMaking, bsss, ignored>>

----------------------------------------------------------------------------
NoProxies == [b \in BSSs |-> 0]

Init ==
    /\ interfaces \in SUBSET Interfaces
    /\ inRange \in [Interfaces -> SUBSET BSSs]
    /\ \A i \in Interfaces \ interfaces : inRange[i] = {}
    /\ scanning = [i \in Interfaces |-> FALSE]
    /\ active = [s \in Wifis |-> FALSE]
    /\ interface = [s \in Wifis |-> None]
    \* gclue_wifi_constructed asks for the first interface only.
    /\ \E first \in interfaces \cup {None} :
          /\ first = None => interfaces = {}
          /\ making = [s \in Wifis |->
                         [i \in Interfaces |-> IF i = first THEN 1 ELSE 0]]
    /\ connected = [s \in Wifis |-> FALSE]
    /\ bssMaking = [s \in Wifis |-> NoProxies]
    /\ bsss = [s \in Wifis |-> {}]
    /\ ignored = [s \in Wifis |-> {}]
    /\ changed = [s \in Wifis |-> FALSE]
    /\ listening = [s \in Wifis |-> FALSE]
    /\ calls = [s \in Wifis |-> 0]
    /\ scanWait = [s \in Wifis |-> FALSE]
    /\ scanTimer = [s \in Wifis |-> FALSE]
    /\ mozilla = None
    /\ broken = [s \in Wifis |-> FALSE]
    /\ astray = [s \in Wifis |-> {}]

\* start_wifi_scan.
StartScan(s) ==
    /\ calls[s] < MaxCalls
    /\ listening' = [listening EXCEPT ![s] = TRUE]
    /\ calls' = [calls EXCEPT ![s] = @ + 1]

\* connect_bss_signals, with an interface.
ConnectBssSignals(s, i) ==
    /\ StartScan(s)
    /\ changed' = [changed EXCEPT ![s] = TRUE]
    /\ connected' = [connected EXCEPT ![s] = TRUE]
    /\ bssMaking' = [bssMaking EXCEPT ![s] =
                       [b \in BSSs |-> IF b \in inRange[i] THEN 1 ELSE 0]]
    /\ UNCHANGED <<bsss, ignored, scanWait, scanTimer, broken, astray>>

\* cancel_wifi_scan: the calls under way still answer.
CancelScan(s) ==
    /\ scanTimer' = [scanTimer EXCEPT ![s] = FALSE]
    /\ scanWait' = [scanWait EXCEPT ![s] = FALSE]
    /\ listening' = [listening EXCEPT ![s] = FALSE]

\* disconnect_bss_signals, for the sources of D: bss_cancellable drops the
\* proxies and calls under way; and gclue_mozilla_test_set_wifi.
DisconnectBssSignals(D) ==
    LET Gone(f, v) == [s \in Wifis |-> IF s \in D THEN v ELSE f[s]]
    IN  /\ scanTimer' = Gone(scanTimer, FALSE)
        /\ scanWait' = Gone(scanWait, FALSE)
        /\ listening' = Gone(listening, FALSE)
        /\ calls' = Gone(calls, 0)
        /\ broken' = Gone(broken, FALSE)
        /\ connected' = Gone(connected, FALSE)
        /\ bssMaking' = Gone(bssMaking, NoProxies)
        /\ bsss' = Gone(bsss, {})
        /\ ignored' = Gone(ignored, {})
        /\ astray' = Gone(astray, {})
        /\ mozilla' = IF mozilla \in D THEN None ELSE mozilla
        /\ UNCHANGED changed

----------------------------------------------------------------------------
(* The locators start and stop a source.                                    *)

Start(s) ==
    /\ ~active[s]
    /\ active' = [active EXCEPT ![s] = TRUE]
    /\ IF interface[s] = None
       THEN UNCHANGED <<connected, changed, lists, scans, astray>>
       ELSE ConnectBssSignals(s, interface[s])
    /\ UNCHANGED <<supplicant, interface, making, mozilla>>

Stop(s) ==
    /\ active[s]
    /\ active' = [active EXCEPT ![s] = FALSE]
    /\ DisconnectBssSignals({s})
    /\ UNCHANGED <<supplicant, interface, making>>

----------------------------------------------------------------------------
(* Interfaces.                                                              *)

\* on_interface_added, in every source that has none.
InterfaceAdded(i) ==
    /\ i \notin interfaces
    /\ \A s \in Wifis : making[s][i] < MaxProxies
    /\ interfaces' = interfaces \cup {i}
    /\ making' = [s \in Wifis |-> IF interface[s] # None THEN making[s]
                                  ELSE [making[s] EXCEPT ![i] = @ + 1]]
    /\ UNCHANGED <<inRange, scanning, active, interface, connected, changed,
                   lists, scans, mozilla, astray>>

\* on_interface_removed, in the sources that use it.
InterfaceRemoved(i) ==
    /\ i \in interfaces
    /\ interfaces' = interfaces \ {i}
    /\ inRange' = [inRange EXCEPT ![i] = {}]
    /\ scanning' = [scanning EXCEPT ![i] = FALSE]
    /\ interface' = [s \in Wifis |-> IF interface[s] = i THEN None ELSE interface[s]]
    /\ DisconnectBssSignals({s \in Wifis : interface[s] = i})
    /\ UNCHANGED <<active, making>>

\* Mutant: an active source is not connected to its new interface.
InterfaceReadyUnconnected(s, i) ==
    /\ making[s][i] > 0
    /\ making' = [making EXCEPT ![s][i] = @ - 1]
    /\ \/ interface' = [interface EXCEPT ![s] = IF @ = None THEN i ELSE @]
       \/ UNCHANGED interface
    /\ UNCHANGED <<supplicant, active, connected, changed, lists, scans, mozilla,
                   astray>>

\* on_interface_proxy_ready: the proxy failed, is not needed, or is taken.
InterfaceReady(s, i) ==
    /\ making[s][i] > 0
    /\ making' = [making EXCEPT ![s][i] = @ - 1]
    /\ \/ UNCHANGED <<interface, connected, changed, lists, scans, astray>>
       \/ /\ interface[s] = None
          /\ interface' = [interface EXCEPT ![s] = i]
          /\ IF active[s]
             THEN ConnectBssSignals(s, i)
             ELSE UNCHANGED <<connected, changed, lists, scans, astray>>
    /\ UNCHANGED <<supplicant, active, mozilla>>

----------------------------------------------------------------------------
(* Access points.                                                           *)

\* The sources that hear of access points of an interface.
Hearing(i) == {s \in Wifis : interface[s] = i /\ connected[s]}

\* on_bss_added.
BssAdded(i, b) ==
    /\ i \in interfaces /\ b \notin inRange[i]
    /\ \A s \in Hearing(i) : bssMaking[s][b] < MaxProxies
    /\ inRange' = [inRange EXCEPT ![i] = @ \cup {b}]
    /\ bssMaking' = [s \in Wifis |-> IF s \notin Hearing(i) THEN bssMaking[s]
                                     ELSE [bssMaking[s] EXCEPT ![b] = @ + 1]]
    /\ UNCHANGED <<interfaces, scanning, active, interface, making, connected,
                   bsss, ignored, changed, scans, mozilla, astray>>

\* The object goes while its proxy is made: it may still be listed.
GoesAstray(S, b) ==
    astray' = [s \in Wifis |-> IF s \in S /\ bssMaking[s][b] > 0
                               THEN astray[s] \cup {b} ELSE astray[s]]

\* Mutant: the list keeps what goes.
BssRemovedKept(i, b) ==
    /\ b \in inRange[i]
    /\ inRange' = [inRange EXCEPT ![i] = @ \ {b}]
    /\ GoesAstray(Hearing(i), b)
    /\ UNCHANGED <<interfaces, scanning, active, interface, making, connected,
                   lists, changed, scans, mozilla>>

\* on_bss_removed; a proxy under way stays so.
BssRemoved(i, b) ==
    LET H == Hearing(i)
    IN  /\ b \in inRange[i]
        /\ inRange' = [inRange EXCEPT ![i] = @ \ {b}]
        /\ bsss' = [s \in Wifis |-> IF s \in H THEN bsss[s] \ {b} ELSE bsss[s]]
        /\ ignored' = [s \in Wifis |-> IF s \in H THEN ignored[s] \ {b} ELSE ignored[s]]
        /\ changed' = [s \in Wifis |-> changed[s] \/ (s \in H /\ b \in bsss[s])]
        /\ GoesAstray(H, b)
        /\ UNCHANGED <<interfaces, scanning, active, interface, making, connected,
                       bssMaking, scans, mozilla>>

\* add_bss_proxy.
AddBss(s, b) ==
    /\ bsss' = [bsss EXCEPT ![s] = @ \cup {b}]
    /\ changed' = [changed EXCEPT ![s] = @ \/ b \notin bsss[s]]

\* The proxy failed, or shows no BSSID or SSID that may be submitted: that of
\* an object that is gone already shows none.
BssIgnored(s, b) ==
    /\ astray' = [astray EXCEPT ![s] = @ \cup {b}]
    /\ UNCHANGED <<bsss, ignored, changed>>

\* on_bss_proxy_ready.
BssReady(s, b) ==
    /\ bssMaking[s][b] > 0
    /\ bssMaking' = [bssMaking EXCEPT ![s][b] = @ - 1]
    /\ \/ BssIgnored(s, b)
       \/ /\ ignored' = [ignored EXCEPT ![s] = @ \cup {b}]
          /\ UNCHANGED <<bsss, changed, astray>>
       \/ /\ AddBss(s, b)
          /\ UNCHANGED <<ignored, astray>>
    /\ UNCHANGED <<supplicant, active, interface, making, connected, scans, mozilla>>

\* on_bss_signal_notify, above the noise level.
SignalRises(s, b) ==
    /\ b \in ignored[s]
    /\ AddBss(s, b)
    /\ ignored' = [ignored EXCEPT ![s] = @ \ {b}]
    /\ UNCHANGED <<supplicant, active, interface, making, connected, bssMaking,
                   scans, mozilla, astray>>

----------------------------------------------------------------------------
(* Scans.                                                                   *)

Unscanned == <<interfaces, inRange, active, interface, making, connected, lists,
               astray>>

\* on_scan_call_done: wpa_supplicant scans, or refuses.
ScanAccepted(s) ==
    /\ calls[s] > 0
    /\ interface[s] \in interfaces
    /\ calls' = [calls EXCEPT ![s] = @ - 1]
    /\ scanning' = [scanning EXCEPT ![interface[s]] = TRUE]
    /\ UNCHANGED <<Unscanned, changed, listening, scanWait, scanTimer, broken,
                   mozilla>>

ScanRefused(s) ==
    /\ calls[s] > 0
    /\ calls' = [calls EXCEPT ![s] = @ - 1]
    /\ CancelScan(s)
    /\ broken' = [broken EXCEPT ![s] = TRUE]
    /\ UNCHANGED <<Unscanned, scanning, changed, mozilla>>

\* The sources that hear a scan of the interface end.
Listeners(i) == {s \in Wifis : interface[s] = i /\ listening[s]}

\* Mutants: the next scan is left to the next start; the list is never read.
ScanDoneLast(i) ==
    /\ i \in interfaces
    /\ scanning' = [scanning EXCEPT ![i] = FALSE]
    /\ scanWait' = [s \in Wifis |-> scanWait[s] \/ s \in Listeners(i)]
    /\ broken' = [s \in Wifis |-> broken[s] /\ s \notin Listeners(i)]
    /\ UNCHANGED <<Unscanned, changed, listening, calls, scanTimer, mozilla>>

ScanDoneUnread(i) ==
    /\ i \in interfaces
    /\ scanning' = [scanning EXCEPT ![i] = FALSE]
    /\ scanTimer' = [s \in Wifis |-> scanTimer[s] \/ s \in Listeners(i)]
    /\ broken' = [s \in Wifis |-> broken[s] /\ s \notin Listeners(i)]
    /\ UNCHANGED <<Unscanned, changed, listening, calls, scanWait, mozilla>>

\* on_scan_done, for a scan of a source or of any other program.
ScanDone(i) ==
    /\ i \in interfaces
    /\ scanning' = [scanning EXCEPT ![i] = FALSE]
    /\ scanWait' = [s \in Wifis |-> scanWait[s] \/ s \in Listeners(i)]
    /\ scanTimer' = [s \in Wifis |-> scanTimer[s] \/ s \in Listeners(i)]
    /\ broken' = [s \in Wifis |-> broken[s] /\ s \notin Listeners(i)]
    /\ UNCHANGED <<Unscanned, changed, listening, calls, mozilla>>

ScanFailed(i) ==
    /\ i \in interfaces /\ scanning[i]
    /\ scanning' = [scanning EXCEPT ![i] = FALSE]
    /\ broken' = [s \in Wifis |-> broken[s] \/ s \in Listeners(i)]
    /\ UNCHANGED <<Unscanned, changed, listening, calls, scanWait, scanTimer, mozilla>>

\* Mutant: the change is noted, and no query ever carries the list.
ScanWaitDoneUnset(s) ==
    /\ scanWait[s]
    /\ scanWait' = [scanWait EXCEPT ![s] = FALSE]
    /\ changed' = [changed EXCEPT ![s] = FALSE]
    /\ UNCHANGED <<Unscanned, scanning, listening, calls, scanTimer, broken, mozilla>>

\* on_scan_wait_done: a changed list refreshes the location.
ScanWaitDone(s) ==
    /\ scanWait[s]
    /\ scanWait' = [scanWait EXCEPT ![s] = FALSE]
    /\ mozilla' = s
    /\ changed' = [changed EXCEPT ![s] = FALSE]
    /\ UNCHANGED <<Unscanned, scanning, listening, calls, scanTimer, broken>>

\* on_scan_timeout.
ScanTimeout(s) ==
    /\ scanTimer[s]
    /\ scanTimer' = [scanTimer EXCEPT ![s] = FALSE]
    /\ IF interface[s] = None
       THEN UNCHANGED <<listening, calls>>
       ELSE StartScan(s)
    /\ UNCHANGED <<Unscanned, scanning, changed, scanWait, broken, mozilla>>

----------------------------------------------------------------------------
Next ==
    \/ \E s \in Wifis :
          \/ Start(s)
          \/ Stop(s)
          \/ ScanAccepted(s)
          \/ ScanRefused(s)
          \/ ScanWaitDone(s)
          \/ ScanTimeout(s)
          \/ \E i \in Interfaces : InterfaceReady(s, i)
          \/ \E b \in BSSs : BssReady(s, b) \/ SignalRises(s, b)
    \/ \E i \in Interfaces :
          \/ InterfaceAdded(i)
          \/ InterfaceRemoved(i)
          \/ ScanDone(i)
          \/ ScanFailed(i)
          \/ \E b \in BSSs : BssAdded(i, b) \/ BssRemoved(i, b)

Spec == Init /\ [][Next]_vars

\* Calls are answered, scans end, timers fire.
Fairness ==
    /\ \A s \in Wifis :
          /\ WF_vars(ScanAccepted(s) \/ ScanRefused(s))
          /\ WF_vars(ScanWaitDone(s))
          /\ WF_vars(ScanTimeout(s))
    /\ \A i \in Interfaces : WF_vars(scanning[i] /\ (ScanDone(i) \/ ScanFailed(i)))

FairSpec == Spec /\ Fairness
----------------------------------------------------------------------------
TypeOK ==
    /\ interfaces \subseteq Interfaces
    /\ inRange \in [Interfaces -> SUBSET BSSs]
    /\ scanning \in [Interfaces -> BOOLEAN]
    /\ active \in [Wifis -> BOOLEAN]
    /\ interface \in [Wifis -> Interfaces \cup {None}]
    /\ making \in [Wifis -> [Interfaces -> Nat]]
    /\ connected \in [Wifis -> BOOLEAN]
    /\ bssMaking \in [Wifis -> [BSSs -> Nat]]
    /\ bsss \in [Wifis -> SUBSET BSSs]
    /\ ignored \in [Wifis -> SUBSET BSSs]
    /\ changed \in [Wifis -> BOOLEAN]
    /\ listening \in [Wifis -> BOOLEAN]
    /\ calls \in [Wifis -> Nat]
    /\ scanWait \in [Wifis -> BOOLEAN]
    /\ scanTimer \in [Wifis -> BOOLEAN]
    /\ mozilla \in Wifis \cup {None}
    /\ broken \in [Wifis -> BOOLEAN]
    /\ astray \in [Wifis -> SUBSET BSSs]

Idle(s) ==
    /\ bssMaking[s] = NoProxies /\ bsss[s] = {} /\ ignored[s] = {}
    /\ ~listening[s] /\ calls[s] = 0 /\ ~scanWait[s] /\ ~scanTimer[s]
    /\ mozilla # s

(* A source listens and scans exactly while it is started and has an        *)
(* interface, in whatever order it is started, stopped, and given and       *)
(* deprived of interfaces whose proxies arrive late.  Otherwise nothing of  *)
(* it is left to run: no timer, call or access point, and no query carries  *)
(* its list.  That bss_cancellable is never made twice (the assertion of    *)
(* connect_bss_signals) is part of it.                                      *)
ConnectedWhenUsable ==
    \A s \in Wifis :
       /\ connected[s] <=> active[s] /\ interface[s] # None
       /\ ~connected[s] => Idle(s)

(* The chain of scans of a connected source breaks only when wpa_supplicant *)
(* refuses or fails a scan: else it is waiting for the answer to a call,    *)
(* for a scan to end or for the time of the next, and hears when one ends.  *)
ScanGoesOn ==
    \A s \in Wifis :
       connected[s] /\ ~broken[s] =>
          listening[s] /\ (calls[s] > 0 \/ scanning[interface[s]] \/ scanTimer[s])

(* A connected source knows the access points of its interface: those       *)
(* in its lists are in range, and those in range are in its lists or their  *)
(* proxies are under way, but for those that went while their proxy was     *)
(* made, and those whose proxy failed or shows no usable name.              *)
ListIsReal ==
    \A s \in Wifis :
       connected[s] =>
          /\ bsss[s] \cup ignored[s] \subseteq inRange[interface[s]] \cup astray[s]
          /\ inRange[interface[s]] \subseteq bsss[s] \cup ignored[s] \cup astray[s]
                                \cup {b \in BSSs : bssMaking[s][b] > 0}

(* A change of the list of a connected source is acted upon: a refresh      *)
(* takes it up, unless the source is disconnected or a scan fails first.    *)
NewsGetsOut ==
    \A s \in Wifis :
       connected[s] /\ changed[s]
          ~> ~changed[s] \/ ~connected[s] \/ broken[s]

(* Each source is one of AccessPoints: whatever the order of proxies, scans *)
(* and signals, WebSource need not know of them.                            *)
Points(s) ==
    INSTANCE AccessPoints
        WITH active <- active[s],
             device <- interface[s] # None,
             list <- bsss[s],
             changed <- changed[s],
             asked <- IF mozilla = None THEN "nobody"
                      ELSE IF mozilla = s THEN "self" ELSE "another"

EverySourceListsPoints ==
    /\ \A s \in Wifis : Points(s)!Init
    /\ [][\A s \in Wifis : [Points(s)!Next]_(Points(s)!apVars)]_vars
=============================================================================
