---------------------------- MODULE ModemManager ---------------------------
(***************************************************************************)
(* The modem sources (gclue-3g.c, gclue-cdma.c, gclue-modem-gps.c) and the *)
(* GClueModemManager they share (gclue-modem-manager.c), which uses one of *)
(* ModemManager's modems, asks it for the kinds of location the running    *)
(* sources need, and tells the 3G sources the cell tower that web queries  *)
(* are to carry.                                                           *)
(*                                                                         *)
(* Assisted GPS and the fixes of CDMA and GPS, which change no state here, *)
(* are left out; refreshing a 3G source's location is as in WebSource.     *)
(***************************************************************************)
EXTENDS FiniteSets

CONSTANTS
    Threegs,    \* the 3G sources, which differ in accuracy level
    Modems,     \* object paths of modems
    Offers,     \* [Modems -> the kinds of location it is capable of]
    Towers,     \* cell towers
    Anonymous,  \* those signaled without an operator code
    Unknown,    \* those signaled with an access technology that is none
    None

Kinds == {"3gpp", "cdma", "gps"}
Sources == Threegs \cup {"cdma", "gps"}

ASSUME ModemAssumption ==
    /\ {"cdma", "gps"} \cap Threegs = {}
    /\ Offers \in [Modems -> SUBSET Kinds]
    /\ Anonymous \subseteq Towers /\ Unknown \subseteq Towers
    /\ None \notin Modems \cup Towers

VARIABLES
    present,     \* ModemManager: its modems
    enabled,     \* ... those in state ENABLED or above
    located,     \* ... those with a location interface
    cell,        \* ... the tower that the modem in use signals, or None
    up,          \* the service runs
    used,        \* mm_object and modem, or None
    connected,   \* modem_location is set
    notEnabled,  \* modems_not_enabled
    watched,     \* modems whose state notifications are handled
    caps,        \* caps: the kinds asked for
    setups,      \* sources whose asynchronous setup is under way
    seen,        \* location_3gpp, or None
    ignore,      \* location_3gpp_ignore_previous
    active,      \* sources that are started; gclue_3g_running counts the 3Gs
    tower,       \* the tower in gclue-mozilla.c, or None
    timers,      \* 3G sources with a location_3gpp_timeout_id
    lapsed,      \* history: the modem was enabled again, unnoticed
    unheard      \* history: the tower was cleared for CDMA, or a setup failed

world == <<present, enabled, located>>
tracking == <<used, cell, connected, notEnabled, watched>>
fixes == <<seen, ignore, tower, timers, unheard>>
vars == <<world, up, tracking, caps, setups, fixes, active, lapsed>>

Running == active \cap Threegs
Kind(s) == IF s \in Threegs THEN "3gpp" ELSE s

----------------------------------------------------------------------------
Init ==
    /\ present = {} /\ enabled = {} /\ located = {}
    /\ cell = None
    /\ up = TRUE
    /\ used = None /\ connected = FALSE
    /\ notEnabled = {} /\ watched = {}
    /\ caps = {} /\ setups = {}
    /\ seen = None /\ ignore = FALSE
    /\ active = {} /\ tower = None /\ timers = {}
    /\ lapsed = FALSE /\ unheard = FALSE

\* gclue_modem_manager_get_is_3g_available and its like.
Available(k) ==
    /\ used # None /\ connected
    /\ k \in Offers[used]
    /\ k # "gps" => used \in enabled

\* The sources that the notifications of these kinds, in the state the caller
\* leaves, let ask the modem for them (on_is_3g_available_notify, enable_caps).
NotifyAvailable(K) ==
    LET S == {s \in active : Kind(s) \in K /\ Available(Kind(s))'}
    IN  /\ caps' = caps \cup {Kind(s) : s \in S}
        /\ setups' = setups \cup S

\* on_fix_3g in the running 3G sources, without and with a tower, which
\* gclue_mozilla_set_tower takes if its access technology is known.
FixLost ==
    /\ tower' = IF Running = {} THEN tower ELSE None
    /\ timers' = timers \ Running

FixFound(t) ==
    /\ tower' = IF Running = {} THEN tower ELSE IF t \in Unknown THEN None ELSE t
    /\ timers' = timers \cup Running

\* clear_3gpp_location, with location_3gpp_ignore_previous.
Clear3gpp(forced) ==
    IF seen = None /\ ~forced
    THEN UNCHANGED <<seen, tower, timers>>
    ELSE seen' = None /\ FixLost

\* on_location_changed and on_get_3gpp_ready, which is_location_3gpp_same ends
\* unless the fix is forced.
LocationChanged(t, forced) ==
    IF t = None
    THEN Clear3gpp(forced) /\ ignore' = FALSE /\ unheard' = FALSE
    ELSE IF t \in Anonymous \/ (t = seen /\ ~forced)
    THEN ignore' = forced /\ UNCHANGED <<seen, tower, timers, unheard>>
    ELSE seen' = t /\ ignore' = FALSE /\ FixFound(t) /\ unheard' = FALSE

----------------------------------------------------------------------------
(* ModemManager's modems.                                                   *)

\* try_modem, in the state the caller leaves of the world: the modem is used
\* if it has a location interface.
TryModem(m) ==
    IF m \in located'
    THEN /\ used' = m /\ connected' = TRUE
         /\ cell' \in Towers \cup {None}
         /\ lapsed' = FALSE
         /\ NotifyAvailable(IF m \in enabled' THEN Kinds ELSE {"gps"})
    ELSE UNCHANGED <<used, cell, connected, lapsed, caps, setups>>

\* on_mm_object_added, and on_manager_new_ready for the first ones: another
\* modem is in use, or one of this path is known already, or it is tried.
ModemAdded(m) ==
    /\ up /\ m \notin present
    /\ present' = present \cup {m}
    /\ enabled' \in {enabled, enabled \cup {m}}
    /\ located' \in {located, located \cup {m}}
    /\ IF used # None \/ m \in notEnabled
       THEN UNCHANGED <<tracking, caps, setups, lapsed>>
       ELSE /\ notEnabled' = notEnabled \cup ({m} \ enabled')
            /\ watched' = watched \cup ({m} \ enabled')
            /\ TryModem(m)
    /\ UNCHANGED <<up, fixes, active>>

\* The modem's objects go, and their proxies hear nothing any more.
Unplugged(m) ==
    /\ up /\ m \in present
    /\ present' = present \ {m}
    /\ enabled' = enabled \ {m}
    /\ located' = located \ {m}
    /\ watched' = watched \ {m}
    /\ UNCHANGED active

\* Mutant: the tower of the modem is kept.
ModemRemovedTowerKept(m) ==
    /\ Unplugged(m)
    /\ used = m
    /\ notEnabled' = notEnabled \ {m}
    /\ used' = None /\ cell' = None /\ connected' = FALSE
    /\ caps' = {} /\ setups' = {}
    /\ lapsed' = FALSE
    /\ UNCHANGED <<up, fixes>>

\* on_mm_object_removed.  Setups under way fail.
ModemRemoved(m) ==
    /\ Unplugged(m)
    /\ used = m
    /\ notEnabled' = notEnabled \ {m}
    /\ Clear3gpp(ignore)
    /\ used' = None /\ cell' = None /\ connected' = FALSE
    /\ caps' = {} /\ setups' = {}
    /\ lapsed' = FALSE
    /\ unheard' = FALSE
    /\ UNCHANGED <<up, ignore>>

\* ... of a modem that is not in use: the path that is looked up is that of
\* the modem in use, and is NULL, which hashing does not survive, if none is.
OtherRemoved(m) ==
    /\ Unplugged(m)
    /\ used # m
    /\ notEnabled' = notEnabled \ {used}
    /\ up' = (used # None)
    /\ UNCHANGED <<used, cell, connected, caps, setups, lapsed, fixes>>

\* A modem gets ready; ModemManager makes its location interface anew.
Enabled(m) ==
    /\ up /\ m \in present \ enabled
    /\ enabled' = enabled \cup {m}
    /\ located' \in {located \ {m}, located \cup {m}}
    /\ UNCHANGED <<present, notEnabled>>

\* Mutant: the sources are not told of the modem that is enabled.
ModemEnabledUntold(m) ==
    /\ Enabled(m)
    /\ m \in watched
    /\ watched' = watched \ {m}
    /\ IF used = None
       THEN TryModem(m)
       ELSE /\ connected' = IF used = m THEN m \in located' ELSE connected
            /\ UNCHANGED <<used, cell, lapsed, caps, setups>>
    /\ UNCHANGED <<up, fixes, active>>

\* on_mm_modem_state_notify: it is tried, or is the one in use and connected
\* anew, or another one is in use.
ModemEnabled(m) ==
    /\ Enabled(m)
    /\ m \in watched
    /\ watched' = watched \ {m}
    /\ CASE used = None -> TryModem(m)
         [] used = m -> /\ connected' = (m \in located')
                        /\ UNCHANGED <<used, cell, lapsed>>
                        /\ NotifyAvailable({"3gpp", "cdma"})
         [] OTHER -> UNCHANGED <<used, cell, connected, lapsed, caps, setups>>
    /\ UNCHANGED <<up, fixes, active>>

\* Nobody watches a modem that was enabled before.
ModemEnabledUnnoticed(m) ==
    /\ Enabled(m)
    /\ m \notin watched
    /\ lapsed' = (lapsed \/ used = m)
    /\ UNCHANGED <<up, used, cell, connected, watched, caps, setups, fixes, active>>

ModemDisabled(m) ==
    /\ up /\ m \in enabled
    /\ enabled' = enabled \ {m}
    /\ UNCHANGED <<present, located, up, tracking, caps, setups, fixes,
                   active, lapsed>>

\* on_location_changed.
CellMoves ==
    /\ up /\ used # None
    /\ cell' \in (Towers \cup {None}) \ {cell}
    /\ IF connected /\ "3gpp" \in caps
       THEN LocationChanged(cell', ignore)
       ELSE UNCHANGED fixes
    /\ UNCHANGED <<world, up, used, connected, notEnabled, watched, caps, setups,
                   active, lapsed>>

----------------------------------------------------------------------------
(* The sources.                                                             *)

Steady == <<world, up, tracking, lapsed>>

\* gclue_3g_start, gclue_cdma_start, gclue_modem_gps_start.
Start(s) ==
    /\ up /\ s \notin active
    /\ active' = active \cup {s}
    /\ IF Available(Kind(s))
       THEN caps' = caps \cup {Kind(s)} /\ setups' = setups \cup {s}
       ELSE UNCHANGED <<caps, setups>>
    /\ UNCHANGED <<Steady, fixes>>

\* Mutant: the tower goes only with the modem's kind.
Stop3gTowerLeft(s) ==
    /\ up /\ s \in Running
    /\ active' = active \ {s}
    /\ timers' = timers \ {s}
    /\ IF Running = {s} /\ Available("3gpp")
       THEN caps' = caps \ {"3gpp"} /\ seen' = None /\ tower' = None
       ELSE UNCHANGED <<caps, seen, tower>>
    /\ UNCHANGED <<Steady, setups, ignore, unheard>>

\* gclue_3g_stop, and gclue_modem_manager_disable_3g for the last one.
Stop3g(s) ==
    /\ up /\ s \in Running
    /\ active' = active \ {s}
    /\ timers' = timers \ {s}
    /\ IF Running = {s} /\ Available("3gpp")
       THEN caps' = caps \ {"3gpp"} /\ seen' = None
       ELSE UNCHANGED <<caps, seen>>
    /\ tower' = IF Running = {s} THEN None ELSE tower
    /\ UNCHANGED <<Steady, setups, ignore, unheard>>

\* gclue_cdma_stop: disabling CDMA clears the 3GPP location as well.
StopCdma ==
    /\ up /\ "cdma" \in active
    /\ active' = active \ {"cdma"}
    /\ IF Available("cdma")
       THEN /\ caps' = caps \ {"cdma"}
            /\ Clear3gpp(ignore)
            /\ unheard' = (Running # {} \/ unheard)
       ELSE UNCHANGED <<caps, seen, tower, timers, unheard>>
    /\ UNCHANGED <<Steady, setups, ignore>>

\* gclue_modem_gps_stop.
StopGps ==
    /\ up /\ "gps" \in active
    /\ active' = active \ {"gps"}
    /\ caps' = IF Available("gps") THEN caps \ {"gps"} ELSE caps
    /\ UNCHANGED <<Steady, setups, fixes>>

\* Mutant: the next fix is forced, and no fix is sent now.
SetupDoneSilent(s) ==
    /\ up /\ s \in setups
    /\ setups' = setups \ {s}
    /\ ignore' = TRUE
    /\ UNCHANGED <<Steady, seen, tower, timers, unheard, caps, active>>

\* on_modem_location_setup: a fix is forced, now or when the next is signaled.
SetupDone(s) ==
    /\ up /\ s \in setups
    /\ setups' = setups \ {s}
    /\ IF "3gpp" \in caps
       THEN LocationChanged(cell, TRUE)
       ELSE ignore' = TRUE /\ UNCHANGED <<seen, tower, timers, unheard>>
    /\ UNCHANGED <<Steady, caps, active>>

\* on_3g_enabled and its like warn, and nothing is tried again.
SetupFailed(s) ==
    /\ up /\ s \in setups
    /\ setups' = setups \ {s}
    /\ unheard' = (s \in Threegs \/ unheard)
    /\ UNCHANGED <<Steady, caps, seen, ignore, tower, timers, active>>

\* on_location_3gpp_timeout sends the location again, or ends without a tower.
TimerEnds(s) ==
    /\ up /\ s \in timers /\ tower = None
    /\ timers' = timers \ {s}
    /\ UNCHANGED <<Steady, caps, setups, seen, ignore, tower, unheard, active>>

----------------------------------------------------------------------------
Next ==
    \/ \E m \in Modems :
          \/ ModemAdded(m)
          \/ ModemRemoved(m)
          \/ OtherRemoved(m)
          \/ ModemEnabled(m)
          \/ ModemEnabledUnnoticed(m)
          \/ ModemDisabled(m)
    \/ \E s \in Sources :
          \/ Start(s)
          \/ Stop3g(s)
          \/ SetupDone(s)
          \/ SetupFailed(s)
          \/ TimerEnds(s)
    \/ CellMoves
    \/ StopCdma
    \/ StopGps

Spec == Init /\ [][Next]_vars
----------------------------------------------------------------------------
TypeOK ==
    /\ present \subseteq Modems
    /\ enabled \subseteq present /\ located \subseteq present
    /\ cell \in Towers \cup {None}
    /\ up \in BOOLEAN
    /\ used \in Modems \cup {None} /\ connected \in BOOLEAN
    /\ notEnabled \subseteq Modems /\ watched \subseteq Modems
    /\ caps \subseteq Kinds
    /\ setups \subseteq Sources
    /\ seen \in Towers \cup {None} /\ ignore \in BOOLEAN
    /\ active \subseteq Sources
    /\ tower \in Towers \cup {None}
    /\ timers \subseteq Threegs
    /\ lapsed \in BOOLEAN /\ unheard \in BOOLEAN

(* What a modem that went has left: nothing is asked of it or awaited from  *)
(* it, its tower is in no query, and the next modem is used from a clean    *)
(* slate, as the assertions of try_modem_location expect.                   *)
NothingLeftOfGone ==
    /\ used \in present \cup {None}
    /\ used = None =>
          ~connected /\ caps = {} /\ setups = {} /\ seen = None /\ tower = None

(* A running source has asked the modem in use for its kind of location,    *)
(* whichever came first: the source, the modem, or the modem's readiness.   *)
(* Only a modem that is enabled a second time is not asked again.  A modem  *)
(* that is connected anew (on_mm_modem_state_notify, 880-894) tells 3G and  *)
(* CDMA, which ask again, and not GPS: caps then keeps what GPS asked of    *)
(* the location interface before, and says nothing of the new one.          *)
RunningSourceAsks ==
    \A s \in active :
       Available(Kind(s)) /\ ~lapsed => Kind(s) \in caps

(* Queries carry a tower only while a 3G source runs, although several run  *)
(* on one modem and stop in any order, with the modem ready or not; and one *)
(* of them sends it again in time, once its setup is done and the fix that  *)
(* forces has come.                                                         *)
TowerHasOwner ==
    /\ timers \subseteq Running
    /\ tower # None => Running # {}
    /\ tower # None /\ Available("3gpp") /\ setups = {} /\ ~ignore
       /\ ~unheard /\ ~lapsed => timers # {}

(* The tower that queries carry is the one the modem in use signals, once   *)
(* its setups are done, unless one failed or CDMA was stopped meanwhile,    *)
(* the modem was enabled a second time, or what it signals names no         *)
(* operator.                                                                *)
TowerIsCurrent ==
    Running # {} /\ Available("3gpp") /\ setups = {} /\ ~lapsed /\ ~unheard
    /\ cell \notin Anonymous
       => tower = IF cell \in Unknown THEN None ELSE cell

(* gclue-modem-manager.c:949-951, "Unused modem '%s' removed.", provides    *)
(* for a modem that goes while none is in use: the service goes on.         *)
UnusedModemGoesQuietly == up
=============================================================================
