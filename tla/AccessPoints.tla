----------------------------- MODULE AccessPoints --------------------------
(***************************************************************************)
(* What one wifi source (gclue-wifi.c) is to the web queries made for it:  *)
(* whether it runs and has a network interface, which access points it     *)
(* lists, whether the list changed since the last refresh, and whose list  *)
(* the queries carry, since all wifi sources share one GClueMozilla.       *)
(*                                                                         *)
(* WifiScan implements this specification, for each of its sources, with   *)
(* the proxies, scans and timers that bring these changes about; WebSource *)
(* builds the queries, the cache and the network on top of it.             *)
(***************************************************************************)
CONSTANT BSSs     \* access points

VARIABLES
    active,   \* the source is started
    device,   \* it has an interface
    list,     \* bss_proxies, the access points it goes by
    changed,  \* bss_list_changed
    asked     \* the source whose list queries carry: mozilla->priv->wifi

apVars == <<active, device, list, changed, asked>>

----------------------------------------------------------------------------
Init ==
    /\ active = FALSE
    /\ device = FALSE
    /\ list = {}
    /\ changed = FALSE
    /\ asked = "nobody"

Connected == active /\ device

\* The list goes with the signals, and queries no longer carry it.
Disconnect ==
    /\ list' = {}
    /\ asked' = IF asked = "self" THEN "nobody" ELSE asked
    /\ UNCHANGED changed

\* gclue_wifi_start and gclue_wifi_stop.
Start ==
    /\ ~active
    /\ active' = TRUE
    /\ changed' = (device \/ changed)
    /\ UNCHANGED <<device, list, asked>>

Stop ==
    /\ active
    /\ active' = FALSE
    /\ Disconnect
    /\ UNCHANGED device

\* on_interface_proxy_ready and on_interface_removed.
GainDevice ==
    /\ ~device
    /\ device' = TRUE
    /\ changed' = (active \/ changed)
    /\ UNCHANGED <<active, list, asked>>

\* The other sources may lose theirs, the same one, at once.
LoseDevice ==
    /\ device
    /\ device' = FALSE
    /\ \/ Disconnect
       \/ /\ asked = "another"
          /\ asked' = "nobody"
          /\ list' = {}
          /\ UNCHANGED changed
    /\ UNCHANGED active

\* An access point is listed or goes.
ListChanges ==
    /\ Connected
    /\ \E b \in BSSs : list' \in {list \cup {b}, list \ {b}} \ {list}
    /\ changed' = TRUE
    /\ UNCHANGED <<active, device, asked>>

\* on_scan_wait_done: the list is complete, queries carry it from now on.
Scanned ==
    /\ Connected
    /\ asked' = "self"
    /\ changed' = FALSE
    /\ UNCHANGED <<active, device, list>>

\* Another wifi source does the same, or stops.
OtherScanned ==
    /\ asked' = "another"
    /\ UNCHANGED <<active, device, list, changed>>

OtherGone ==
    /\ asked = "another"
    /\ asked' = "nobody"
    /\ UNCHANGED <<active, device, list, changed>>

Next ==
    \/ Start
    \/ Stop
    \/ GainDevice
    \/ LoseDevice
    \/ ListChanges
    \/ Scanned
    \/ OtherScanned
    \/ OtherGone

Spec == Init /\ [][Next]_apVars
=============================================================================
