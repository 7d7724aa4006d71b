--------------------------- MODULE ServiceManager --------------------------
(***************************************************************************)
(* The GClueServiceManager (src/gclue-service-manager.c) and the lifetime  *)
(* of the daemon (src/gclue-main.c): GetClient, CreateClient, DeleteClient *)
(* and AddAgent, the queue of clients that wait for the agent of their     *)
(* user, the disappearance of peers, InUse and the inactivity timeout.     *)
(*                                                                         *)
(* Each call looks up its caller's credentials asynchronously              *)
(* (GClueClientInfo), and an agent's proxy is made asynchronously on top   *)
(* of that, so calls complete in any order and after their caller is gone. *)
(* What a client does once it exists is in ServiceClient; here it only     *)
(* turns active and inactive.                                              *)
(***************************************************************************)
EXTENDS Integers, Sequences, FiniteSets, SequencesExt

CONSTANTS
    Peers,       \* bus connections of applications
    Agents,      \* bus connections of agents
    Users,
    UserOf,      \* [Peers \cup Agents -> Users]
    Invocations, \* GetClient and CreateClient calls, each made once
    NoOne,       \* no peer, no agent
    Allowed,     \* agents the configuration lets register
    Renames      \* an active client may change its DesktopId

ASSUME ManagerAssumption ==
    /\ UserOf \in [Peers \cup Agents -> Users]
    /\ NoOne \notin Peers \cup Agents
    /\ Allowed \subseteq Agents
    /\ Renames \in BOOLEAN

VARIABLES
    onBus,     \* bus connections still open
    calls,     \* [Invocations -> state of the call]
    waiting,   \* clients_waiting_agent
    core,      \* [clients, num, lastId, idleTimer, answer]
    agents,    \* [Users -> registered agent]
    adding,    \* [Agents -> progress of AddAgent]
    inUse,     \* the InUse property
    running    \* the main loop

vars == <<onBus, calls, waiting, core, agents, adding, inUse, running>>

Idle == [status |-> "new", peer |-> NoOne, reuse |-> FALSE]

----------------------------------------------------------------------------
\* sync_in_use_property
InUseNow(clients) == \E c \in clients : c.active /\ ~c.system

\* complete_get_client for one call: reuse the newest of the peer's clients
\* (mine), or make one.  "notify::active" with the first client stops the
\* inactivity timeout.  The id is spent even when the client cannot be exported.
CompleteWith(mine, m, r, fails) ==
    LET peer == calls[r].peer
        id == m.lastId + 1
        client == [id |-> id, peer |-> peer, agent |-> agents'[UserOf[peer]],
                   active |-> FALSE, system |-> FALSE]
    IN  CASE calls[r].reuse /\ mine # {} ->
               [m EXCEPT !.answer[r] = Max({c.id : c \in mine})]
          [] ~(calls[r].reuse /\ mine # {}) /\ r \in fails ->
               [m EXCEPT !.lastId = id]
          [] OTHER ->
               [m EXCEPT !.lastId = id,
                         !.clients = @ \cup {client},
                         !.num = @ + 1,
                         !.idleTimer = IF m.num = 0 THEN FALSE ELSE @,
                         !.answer[r] = id]

\* Mutants: the list as it was before the batch; anybody's newest client.
CompleteStale(m, r, fails) ==
    CompleteWith({c \in core.clients : c.peer = calls[r].peer}, m, r, fails)
CompleteAnyones(m, r, fails) == CompleteWith(m.clients, m, r, fails)

Complete(m, r, fails) ==
    CompleteWith({c \in m.clients : c.peer = calls[r].peer}, m, r, fails)

\* The calls of a batch are completed one after the other.
CompleteAll(batch, fails) ==
    LET after[n \in 0 .. Len(batch)] ==
          IF n = 0 THEN core ELSE Complete(after[n - 1], batch[n], fails)
    IN  after[Len(batch)]

\* The chosen entries of a queue, in its order: SelectSeq, written as the
\* function that the proofs argue about.
Among(queue, chosen) ==
    LET upto[n \in 0 .. Len(queue)] ==
          IF n = 0 THEN <<>>
          ELSE IF queue[n] \in chosen THEN Append(upto[n - 1], queue[n])
          ELSE upto[n - 1]
    IN  upto[Len(queue)]

\* The calls of a batch are over, with an answer or an error.
Finish(cs, batch, m) ==
    [r \in Invocations |->
        IF r \notin batch THEN cs[r]
        ELSE [cs[r] EXCEPT !.status = IF m.answer[r] # 0 THEN "answered"
                                      ELSE "failed"]]

\* Mutants: a client is counted out though none matches; the timeout starts
\* only when a single client is left to go.
DeleteCountsAlways(m, gone) ==
    [m EXCEPT !.clients = @ \ gone,
              !.num = @ - 1,
              !.idleTimer = IF gone # {} /\ m.num = 1 THEN TRUE ELSE @]
DeleteLastOnly(m, gone) ==
    [m EXCEPT !.clients = @ \ gone,
              !.num = @ - Cardinality(gone),
              !.idleTimer = IF gone # {} /\ m.num = 1 THEN TRUE ELSE @]

\* delete_client: removes every match; with the last client "notify::active"
\* starts the inactivity timeout.
Delete(m, gone) ==
    [m EXCEPT !.clients = @ \ gone,
              !.num = @ - Cardinality(gone),
              !.idleTimer = IF gone # {} /\ m.num = Cardinality(gone)
                            THEN TRUE ELSE @]

----------------------------------------------------------------------------
\* on_bus_acquired: no client yet, so the inactivity timeout runs.
Init ==
    /\ onBus = Peers \cup Agents
    /\ calls = [r \in Invocations |-> Idle]
    /\ waiting = <<>>
    /\ core = [clients |-> {}, num |-> 0, lastId |-> 0, idleTimer |-> TRUE,
               answer |-> [r \in Invocations |-> 0]]
    /\ agents = [u \in Users |-> NoOne]
    /\ adding = [a \in Agents |-> "new"]
    /\ inUse = FALSE
    /\ running = TRUE

\* handle_get_client, for GetClient (reuse) and CreateClient.
Call(r, p, reuse) ==
    /\ running
    /\ p \in onBus
    /\ calls[r].status = "new"
    /\ calls' = [calls EXCEPT ![r] = [status |-> "info", peer |-> p,
                                      reuse |-> reuse]]
    /\ UNCHANGED <<onBus, waiting, core, agents, adding, inUse, running>>

\* on_client_info_new_ready with an error: the bus no longer knows the peer.
InfoFails(r) ==
    /\ running
    /\ calls[r].status = "info"
    /\ calls[r].peer \notin onBus
    /\ calls' = [calls EXCEPT ![r].status = "failed"]
    /\ UNCHANGED <<onBus, waiting, core, agents, adding, inUse, running>>

\* on_client_info_new_ready without an agent for the user: wait for one.
InfoQueued(r) ==
    /\ running
    /\ calls[r].status = "info"
    /\ agents[UserOf[calls[r].peer]] = NoOne
    /\ calls' = [calls EXCEPT ![r].status = "queued"]
    /\ waiting' = Append(waiting, r)
    /\ UNCHANGED <<onBus, core, agents, adding, inUse, running>>

\* Mutant: nobody waits for an agent.
InfoCompletesAnyway(r, fails) ==
    /\ running
    /\ calls[r].status = "info"
    /\ UNCHANGED agents
    /\ core' = Complete(core, r, fails)
    /\ calls' = Finish(calls, {r}, core')
    /\ UNCHANGED <<onBus, waiting, adding, inUse, running>>

\* on_client_info_new_ready with an agent for the user.
InfoCompletes(r, fails) ==
    /\ running
    /\ calls[r].status = "info"
    /\ agents[UserOf[calls[r].peer]] # NoOne
    /\ UNCHANGED agents
    /\ core' = Complete(core, r, fails)
    /\ calls' = Finish(calls, {r}, core')
    /\ UNCHANGED <<onBus, waiting, adding, inUse, running>>

\* Mutants: the call stays in the queue; the call is never answered.
WaiterVanishesQueued(r) ==
    /\ running
    /\ calls[r].status = "queued"
    /\ calls[r].peer \notin onBus
    /\ calls' = [calls EXCEPT ![r].status = "failed"]
    /\ UNCHANGED <<onBus, waiting, core, agents, adding, inUse, running>>

WaiterVanishesUnanswered(r) ==
    /\ running
    /\ calls[r].status = "queued"
    /\ calls[r].peer \notin onBus
    /\ waiting' = Among(waiting, Invocations \ {r})
    /\ UNCHANGED <<onBus, calls, core, agents, adding, inUse, running>>

\* on_peer_vanished_before_completion
WaiterVanishes(r) ==
    /\ running
    /\ calls[r].status = "queued"
    /\ calls[r].peer \notin onBus
    /\ calls' = [calls EXCEPT ![r].status = "failed"]
    /\ waiting' = Among(waiting, Invocations \ {r})
    /\ UNCHANGED <<onBus, core, agents, adding, inUse, running>>

\* handle_delete_client: only a client of the caller matches.  InUse is
\* synchronized even when none does.
DeleteClient(p, id) ==
    LET gone == {c \in core.clients : c.peer = p /\ c.id = id}
    IN  /\ running
        /\ p \in onBus
        /\ core' = Delete(core, gone)
        /\ inUse' = InUseNow(core'.clients)
        /\ UNCHANGED <<onBus, calls, waiting, agents, adding, running>>

\* on_peer_vanished: drops every client of the bus name.
PeerVanished(p) ==
    LET gone == {c \in core.clients : c.peer = p}
    IN  /\ running
        /\ p \notin onBus
        /\ gone # {}
        /\ core' = Delete(core, gone)
        /\ inUse' = InUseNow(core'.clients)
        /\ UNCHANGED <<onBus, calls, waiting, agents, adding, running>>

\* Mutant: InUse is not computed again when a client stops.
ClientTurnsOnly(c) ==
    /\ running
    /\ core' = [core EXCEPT
                   !.clients = (@ \ {c}) \cup {[c EXCEPT !.active = ~@]}]
    /\ inUse' = (inUse \/ InUseNow(core'.clients))
    /\ UNCHANGED <<onBus, calls, waiting, agents, adding, running>>

\* A client starts or stops; on_client_notify_active
ClientTurns(c) ==
    /\ running
    /\ core' = [core EXCEPT
                   !.clients = (@ \ {c}) \cup {[c EXCEPT !.active = ~@]}]
    /\ inUse' = InUseNow(core'.clients)
    /\ UNCHANGED <<onBus, calls, waiting, agents, adding, running>>

\* A client is given another DesktopId; the manager is not told.
ClientRenamed(c) ==
    /\ running
    /\ c.peer \in onBus
    /\ Renames \/ ~c.active
    /\ core' = [core EXCEPT
                   !.clients = (@ \ {c}) \cup {[c EXCEPT !.system = ~@]}]
    /\ UNCHANGED <<onBus, calls, waiting, agents, adding, inUse, running>>

----------------------------------------------------------------------------
\* handle_add_agent
AddAgent(a) ==
    /\ running
    /\ a \in onBus
    /\ adding[a] = "new"
    /\ adding' = [adding EXCEPT ![a] = "info"]
    /\ UNCHANGED <<onBus, calls, waiting, core, agents, inUse, running>>

\* on_agent_info_new_ready: an error, or an agent that is not allowed.
AgentRefused(a) ==
    /\ running
    /\ adding[a] = "info"
    /\ a \notin onBus \/ a \notin Allowed
    /\ adding' = [adding EXCEPT ![a] = "failed"]
    /\ UNCHANGED <<onBus, calls, waiting, core, agents, inUse, running>>

\* on_agent_info_new_ready: the proxy is asked for.
AgentAccepted(a) ==
    /\ running
    /\ adding[a] = "info"
    /\ a \in Allowed
    /\ adding' = [adding EXCEPT ![a] = "proxy"]
    /\ UNCHANGED <<onBus, calls, waiting, core, agents, inUse, running>>

\* on_agent_proxy_ready with an error.
AgentProxyFails(a) ==
    /\ running
    /\ adding[a] \in {"proxy", "proxy, gone"}
    /\ adding' = [adding EXCEPT ![a] = "failed"]
    /\ UNCHANGED <<onBus, calls, waiting, core, agents, inUse, running>>

\* on_agent_proxy_ready: the agent takes over its user, and every waiting
\* call of the user is completed, in the order of the queue.
AgentProxyReady(a, fails) ==
    LET user == UserOf[a]
        served == {r \in ToSet(waiting) : UserOf[calls[r].peer] = user}
    IN  /\ running
        /\ adding[a] \in {"proxy", "proxy, gone"}
        /\ adding' = [adding EXCEPT ![a] = IF @ = "proxy" THEN "registered"
                                           ELSE "unwatched"]
        /\ agents' = [agents EXCEPT ![user] = a]
        /\ core' = CompleteAll(Among(waiting, served), fails)
        /\ calls' = Finish(calls, served, core')
        /\ waiting' = Among(waiting, Invocations \ served)
        /\ UNCHANGED <<onBus, inUse, running>>

\* on_agent_vanished: forgets the agent of the user, whichever that is now.
AgentVanished(a) ==
    /\ running
    /\ a \notin onBus
    /\ adding[a] = "registered"
    /\ adding' = [adding EXCEPT ![a] = "vanished"]
    /\ agents' = [agents EXCEPT ![UserOf[a]] = NoOne]
    /\ UNCHANGED <<onBus, calls, waiting, core, inUse, running>>

\* "peer-vanished" of an agent before on_agent_proxy_ready connects to it.
AgentVanishedUnseen(a) ==
    /\ running
    /\ a \notin onBus
    /\ adding[a] = "proxy"
    /\ adding' = [adding EXCEPT ![a] = "proxy, gone"]
    /\ UNCHANGED <<onBus, calls, waiting, core, agents, inUse, running>>

\* A process leaves the bus; the daemon learns of it later.
Leave(p) ==
    /\ running
    /\ p \in onBus
    /\ onBus' = onBus \ {p}
    /\ UNCHANGED <<calls, waiting, core, agents, adding, inUse, running>>

\* on_inactivity_timeout
InactivityTimeout ==
    /\ running
    /\ core.idleTimer
    /\ running' = FALSE
    /\ UNCHANGED <<onBus, calls, waiting, core, agents, adding, inUse>>

Queued == {r \in Invocations : calls[r].status = "queued"}

Next ==
    \/ \E r \in Invocations :
          \/ \E p \in Peers, reuse \in BOOLEAN : Call(r, p, reuse)
          \/ InfoFails(r)
          \/ InfoQueued(r)
          \/ \E fails \in SUBSET {r} : InfoCompletes(r, fails)
          \/ WaiterVanishes(r)
    \/ \E c \in core.clients : ClientTurns(c) \/ ClientRenamed(c)
    \/ \E p \in Peers :
          \/ \E id \in 1 .. core.lastId : DeleteClient(p, id)
          \/ PeerVanished(p)
    \/ \E a \in Agents :
          \/ AddAgent(a)
          \/ AgentRefused(a)
          \/ AgentAccepted(a)
          \/ AgentProxyFails(a)
          \/ \E fails \in SUBSET Queued : AgentProxyReady(a, fails)
          \/ AgentVanished(a)
          \/ AgentVanishedUnseen(a)
    \/ \E p \in Peers \cup Agents : Leave(p)
    \/ InactivityTimeout

Spec == Init /\ [][Next]_vars

\* The bus answers every question about a connection, tells when one closes,
\* and the main loop handles each event in turn.
FairSpec ==
    /\ Spec
    /\ \A r \in Invocations :
          /\ WF_vars(InfoFails(r) \/ InfoQueued(r) \/ InfoCompletes(r, {}))
          /\ WF_vars(WaiterVanishes(r))
    /\ \A p \in Peers : WF_vars(PeerVanished(p))

----------------------------------------------------------------------------
ClientType == [id : Nat, peer : Peers, agent : Agents \cup {NoOne},
               active : BOOLEAN, system : BOOLEAN]
CallType == [status : {"new", "info", "queued", "answered", "failed"},
             peer : Peers \cup {NoOne}, reuse : BOOLEAN]
CoreType == [clients : SUBSET ClientType, num : Nat, lastId : Nat,
             idleTimer : BOOLEAN, answer : [Invocations -> Nat]]
AddProgress == {"new", "info", "proxy", "proxy, gone", "registered",
                "unwatched", "vanished", "failed"}

TypeOK ==
    /\ onBus \subseteq Peers \cup Agents
    /\ calls \in [Invocations -> CallType]
    /\ waiting \in Seq(Invocations)
    /\ core \in CoreType
    /\ agents \in [Users -> Agents \cup {NoOne}]
    /\ adding \in [Agents -> AddProgress]
    /\ inUse \in BOOLEAN
    /\ running \in BOOLEAN

(* The counter of clients agrees with the list through every batch of       *)
(* deletions and completions, and the inactivity timeout runs exactly while *)
(* there is no client: the daemon never quits under a client and never      *)
(* loses the timeout that ends it.                                          *)
TimeoutRunsWhileEmpty ==
    /\ core.num = Cardinality(core.clients)
    /\ core.idleTimer <=> core.clients = {}

(* A call waits in the queue exactly once and only while its user has no    *)
(* agent: registering one drains all of its user's calls, and a caller that *)
(* vanished takes its calls out.                                            *)
WaitsOnlyWithoutAgent ==
    /\ \A i, j \in DOMAIN waiting : waiting[i] = waiting[j] => i = j
    /\ ToSet(waiting) = Queued
    /\ \A r \in Queued : agents[UserOf[calls[r].peer]] = NoOne

(* Every client is created with an agent, whatever happened to the agent    *)
(* between the call and its completion: gclue-service-client.c's handling   *)
(* of a missing agent (handle_pending_auth) cannot be reached this way.     *)
ClientHasAgent == \A c \in core.clients : c.agent # NoOne

(* Manager.xml, GetClient: "On the first call [...] this method will create *)
(* the client object but subsequent calls will return the path of the       *)
(* existing client."  Also when several calls are looked up, or wait for an *)
(* agent, at the same time.                                                 *)
GetClientMakesOne ==
    \A p \in Peers :
       (\A r \in Invocations : calls[r].peer = p => calls[r].reuse)
          => \A c, d \in core.clients : c.peer = p /\ d.peer = p => c = d

(* A call is answered with a client of its caller that exists when the      *)
(* answer is sent, and CreateClient with one made for this call alone.      *)
AnswerNamesOwnClient ==
    [][ \A r \in Invocations :
          calls[r].status # "answered" /\ calls'[r].status = "answered" =>
             /\ \E c \in core'.clients : /\ c.id = core'.answer[r]
                                          /\ c.peer = calls'[r].peer
             /\ ~calls[r].reuse =>
                   /\ core'.answer[r] > core.lastId
                   /\ \A q \in Invocations \ {r} :
                        ~calls[q].reuse => core'.answer[q] # core'.answer[r] ]_vars

(* InUse is TRUE exactly while some client that is no system component is   *)
(* active, over starts, stops, deletions and peers that vanish, as long as  *)
(* no active client is given another DesktopId.                             *)
InUseAccurate == ~Renames => (inUse <=> InUseNow(core.clients))

(* Nothing of a peer that left the bus stays: neither its clients nor its   *)
(* calls, wherever they were when it left.                                  *)
GonePeerCleaned ==
    \A p \in Peers :
       p \notin onBus
          ~> \/ /\ \A c \in core.clients : c.peer # p
                /\ \A r \in Invocations : calls[r].peer = p
                      => calls[r].status \in {"answered", "failed"}
             \/ ~running

----------------------------------------------------------------------------
(* What the documentation and the comments say and the code does not do.    *)

(* Manager.xml, AddAgent: "Each agent is responsible for the user it is     *)
(* running as."  An agent that registered and is still there stays          *)
(* registered until another one of its user takes over.                     *)
LiveAgentStays ==
    [][ \A u \in Users : agents[u] \in onBus => agents'[u] # NoOne ]_vars
=============================================================================
