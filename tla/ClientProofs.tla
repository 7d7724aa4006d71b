---------------------------- MODULE ClientProofs ---------------------------
(***************************************************************************)
(* Proofs about the two ends of a client: the object of the service        *)
(* (ServiceClient) for every set of calls, requests, published maxima and  *)
(* replies, and every configuration; and the library's object in the       *)
(* program getlocation (SimpleClient, GetLocation) for every number of     *)
(* locations and messages.                                                 *)
(*                                                                         *)
(* The second part rests on the order in which messages lie in the inbox,  *)
(* which one invariant describes, SimpleInv: in the chain of calls there   *)
(* is one answer and nothing else; nothing but locations comes before the  *)
(* answer to Start, and no proxy of them is answered until it has been     *)
(* handled; with the portal, neither the user's decision nor a location is *)
(* there before the answer; the newest location is in the last signal on   *)
(* its way, or in the last proxy asked for, or shown.  Every step of the   *)
(* other side and every callback keeps it, until the program gives the     *)
(* object up.                                                              *)
(***************************************************************************)
EXTENDS ServiceClient, GetLocation, FiniteSetTheorems, TLAPS


(* ensure_valid_accuracy_level yields a member of the enum within the       *)
(* maximum, whatever the application wrote and whatever the agent published *)
LEMMA EnsureValidLevel ==
    ASSUME NEW level \in Nat, NEW max \in Nat, max # 0
    PROVE  EnsureValid(level, max) \in Levels /\ EnsureValid(level, max) <= max
<1> DEFINE accuracy == Clamp(level, COUNTRY, max)
<1>1. accuracy \in Nat /\ accuracy >= 1 /\ accuracy <= max
  BY DEF Clamp, COUNTRY
<1>2. \E l \in Levels : /\ l <= accuracy
                        /\ \A k \in Levels : k <= accuracy => k <= l
  <2>1. CASE accuracy >= 8
    BY <1>1, <2>1 DEF Levels, COUNTRY, CITY, EXACT
  <2>2. CASE accuracy \in {6, 7}
    BY <1>1, <2>2 DEF Levels, COUNTRY, CITY, EXACT
  <2>3. CASE accuracy = 5
    BY <1>1, <2>3 DEF Levels, COUNTRY, CITY, EXACT
  <2>4. CASE accuracy = 4
    BY <1>1, <2>4 DEF Levels, COUNTRY, CITY, EXACT
  <2>5. CASE accuracy < 4
    BY <1>1, <2>5 DEF Levels, COUNTRY, CITY, EXACT
  <2> QED BY <1>1, <2>1, <2>2, <2>3, <2>4, <2>5
<1> DEFINE result == EnsureValid(level, max)
<1>3. result \in Levels /\ result <= accuracy
  BY <1>2 DEF EnsureValid
<1>4. result \in Nat
  BY <1>3 DEF Levels, COUNTRY, CITY, EXACT
<1> QED BY <1>1, <1>3, <1>4

LEMMA LocatorLevel ==
    ASSUME NEW level \in Levels
    PROVE  LocatorNew(level) \in Levels
BY DEF LocatorNew, Levels, COUNTRY, CITY, EXACT

LEMMA StartedClient ==
    ASSUME NEW level \in Levels, NEW suspended \in BOOLEAN
    PROVE  StartClient(level, suspended) \in ClientType
BY LocatorLevel DEF StartClient, ClientType

LEMMA StoppedClient ==
    ASSUME NEW suspended \in BOOLEAN
    PROVE  StopClient(suspended) \in ClientType
BY DEF StopClient, ClientType

(* Finalizing yields the stopped record; any other release changes nothing. *)
LEMMA ReleasedClient ==
    ASSUME NEW s, NEW inList, NEW cs
    PROVE  Release(s, inList, cs) \in {s, StopClient(FALSE)}
BY DEF Release

----------------------------------------------------------------------------
(* Every variable keeps its type; in particular every locator is created at *)
(* a member of GClueAccuracyLevel, for all the values an application can    *)
(* request and all the maxima an agent can publish.                         *)
THEOREM TypeCorrect == Spec => []TypeOK
<1>0. StopClient(FALSE) \in ClientType
  BY StoppedClient
<1>1. Init => TypeOK
  <2> SUFFICES ASSUME Init PROVE TypeOK
    OBVIOUS
  <2>1. client \in ClientType
    BY <1>0 DEF Init
  <2>2. maxLevel \in Nat /\ requested \in Nat
    BY ClientAssumption DEF Init, CITY
  <2>3. calls \in [Calls -> {"idle", "waiting", "ok", "denied"}]
    BY DEF Init
  <2> QED BY <2>1, <2>2, <2>3 DEF Init, TypeOK
<1>2. TypeOK /\ [Next]_vars => TypeOK'
  <2> SUFFICES ASSUME TypeOK, [Next]_vars PROVE TypeOK'
    OBVIOUS
  <2> USE ClientAssumption
  <2>0. ASSUME NEW s \in ClientType, NEW inList, NEW cs
        PROVE  Release(s, inList, cs) \in ClientType
    BY <1>0, ReleasedClient
  <2>1. client \in ClientType /\ client.agentStopped \in BOOLEAN
    BY DEF TypeOK, ClientType
  <2>2. Overwritten \subseteq Levels
    BY DEF TypeOK, ClientType, Overwritten
  <2>3. ASSUME NEW level \in Requests, SetRequested(level) PROVE TypeOK'
    BY <2>3 DEF TypeOK, SetRequested
  <2>4. ASSUME NEW id \in DesktopIds, SetDesktopId(id) PROVE TypeOK'
    BY <2>4 DEF TypeOK, SetDesktopId
  <2>5. ASSUME NEW c \in Calls, StartAgain(c) PROVE TypeOK'
    BY <2>5 DEF TypeOK, StartAgain, environment
  <2>6. ASSUME NEW c \in Calls, StartDenied(c) PROVE TypeOK'
    BY <2>6 DEF TypeOK, StartDenied, environment
  <2>7. ASSUME NEW c \in Calls, StartAllowed(c) PROVE TypeOK'
    <3> DEFINE wanted == EnsureValid(requested, EXACT)
               granted == EnsureValid(wanted, maxLevel)
    <3>1. wanted \in Levels
      BY EnsureValidLevel DEF TypeOK, EXACT
    <3>2. granted \in Levels
      <4>1. maxLevel \in Nat /\ maxLevel # 0
        BY <2>7 DEF StartAllowed, Refused, TypeOK
      <4>2. wanted \in Nat
        BY <3>1 DEF Levels, COUNTRY, CITY, EXACT
      <4> HIDE DEF wanted
      <4> QED BY <4>1, <4>2, EnsureValidLevel
    <3> HIDE DEF granted
    <3>3. StartClient(granted, client.agentStopped) \in ClientType
      BY <2>1, <3>2, StartedClient
    <3>4. client' \in ClientType
      BY <2>0, <2>7, <3>3 DEF StartAllowed, granted
    <3> QED BY <2>7, <3>4 DEF TypeOK, StartAllowed, environment
  <2>8. ASSUME NEW c \in Calls, StartAsksAgent(c) PROVE TypeOK'
    BY <2>8 DEF TypeOK, StartAsksAgent, environment
  <2>9. ASSUME NEW c \in Calls, NEW level \in Replies, Authorized(c, level)
        PROVE  TypeOK'
    <3>1. StartClient(level, client.agentStopped) \in ClientType
      BY <2>1, StartedClient
    <3>2. client' \in ClientType
      BY <2>0, <2>9, <3>1 DEF Authorized
    <3> QED BY <2>2, <2>9, <3>2 DEF TypeOK, Authorized, environment
  <2>10. ASSUME NEW c \in Calls, Rejected(c) PROVE TypeOK'
    <3>1. client' \in ClientType
      BY <2>0, <2>1, <2>10 DEF Rejected
    <3> QED BY <2>10, <3>1 DEF TypeOK, Rejected, environment
  <2>11. ASSUME NEW c \in Calls, AuthorizeFailed(c) PROVE TypeOK'
    <3>1. client' \in ClientType
      BY <2>0, <2>1, <2>11 DEF AuthorizeFailed
    <3> QED BY <2>11, <3>1 DEF TypeOK, AuthorizeFailed, environment
  <2>12. CASE Stop
    <3>1. client' \in ClientType
      BY <2>1, <2>12, StoppedClient DEF Stop
    <3> QED BY <2>12, <3>1 DEF TypeOK, Stop, environment
  <2>13. ASSUME NEW max \in MaxLevels, AgentSetsMax(max) PROVE TypeOK'
    <3>1. max \in Nat
      OBVIOUS
    <3>2. client' \in ClientType
      <4>1. CASE max # 0 /\ client.agentStopped
        <5> DEFINE granted == EnsureValid(requested, max)
        <5>1. granted \in Levels
          BY <3>1, <4>1, EnsureValidLevel DEF TypeOK
        <5> HIDE DEF granted
        <5>2. StartClient(granted, FALSE) \in ClientType
          BY <5>1, StartedClient
        <5> QED BY <2>13, <4>1, <5>2 DEF AgentSetsMax, granted
      <4>2. CASE max = 0 /\ ~(max # 0 /\ client.agentStopped)
        BY <2>1, <2>13, <4>2, StoppedClient DEF AgentSetsMax
      <4>3. CASE max # 0 /\ ~client.agentStopped
        BY <2>1, <2>13, <4>3 DEF AgentSetsMax
      <4> QED BY <4>1, <4>2, <4>3
    <3>3. orphans' \subseteq Levels
      BY <2>2, <2>13 DEF AgentSetsMax, TypeOK
    <3> QED BY <2>13, <3>1, <3>2, <3>3 DEF TypeOK, AgentSetsMax
  <2>14. CASE AgentVanishes
    BY <2>14 DEF TypeOK, AgentVanishes
  <2>15. CASE DeleteClient
    <3>1. client' \in ClientType
      BY <2>0, <2>1, <2>15 DEF DeleteClient
    <3> QED BY <2>15, <3>1 DEF TypeOK, DeleteClient
  <2>16. CASE PeerVanishes
    <3>1. client' \in ClientType
      BY <2>0, <2>1, <2>16 DEF PeerVanishes
    <3> QED BY <2>16, <3>1 DEF TypeOK, PeerVanishes
  <2>17. CASE UNCHANGED vars
    BY <2>17 DEF TypeOK, vars
  <2> QED
    BY <2>3, <2>4, <2>5, <2>6, <2>7, <2>8, <2>9, <2>10, <2>11, <2>12, <2>13,
       <2>14, <2>15, <2>16, <2>17 DEF Next
<1> QED BY <1>1, <1>2, PTL DEF Spec

----------------------------------------------------------------------------
(* Whatever the number of calls: a client is marked as suspended only while *)
(* MaxAccuracyLevel is 0.                                                   *)
THEOREM SuspendedOnlyWhileDisabledAlways ==
    Spec => []SuspendedOnlyWhileDisabled
<1> DEFINE Inv == SuspendedOnlyWhileDisabled
<1>1. Init => Inv
  BY DEF Init, SuspendedOnlyWhileDisabled, StopClient
<1>2. TypeOK /\ Inv /\ [Next]_vars => Inv'
  <2> SUFFICES ASSUME TypeOK, Inv, [Next]_vars PROVE Inv'
    OBVIOUS
  <2>1. ASSUME maxLevel' = maxLevel,
               client'.agentStopped = FALSE
                 \/ client'.agentStopped = client.agentStopped
        PROVE  Inv'
    BY <2>1 DEF SuspendedOnlyWhileDisabled
  <2>2. ASSUME NEW s, NEW inList, NEW cs,
               client' = Release(s, inList, cs),
               s.agentStopped = client.agentStopped
        PROVE  client'.agentStopped = FALSE
                 \/ client'.agentStopped = client.agentStopped
    BY <2>2, ReleasedClient DEF StopClient
  <2>4. ASSUME NEW level \in Requests, SetRequested(level) PROVE Inv'
    BY <2>1, <2>4 DEF SetRequested
  <2>5. ASSUME NEW id \in DesktopIds, SetDesktopId(id) PROVE Inv'
    BY <2>1, <2>5 DEF SetDesktopId
  <2>6. ASSUME NEW c \in Calls,
               StartAgain(c) \/ StartDenied(c) \/ StartAsksAgent(c)
        PROVE  Inv'
    BY <2>1, <2>6 DEF StartAgain, StartDenied, StartAsksAgent, environment
  <2>7. ASSUME NEW c \in Calls, StartAllowed(c) PROVE Inv'
    <3>1. PICK level : client' = Release(StartClient(level, client.agentStopped),
                                         listed, calls')
      BY <2>7 DEF StartAllowed
    <3>2. client' \in {StartClient(level, client.agentStopped), StopClient(FALSE)}
      BY <3>1, ReleasedClient
    <3>3. maxLevel' = maxLevel
      BY <2>7 DEF StartAllowed, environment
    <3>4. StartClient(level, client.agentStopped).agentStopped
            = client.agentStopped
      BY DEF StartClient
    <3>5. StopClient(FALSE).agentStopped = FALSE
      BY DEF StopClient
    <3> QED BY <2>1, <3>2, <3>3, <3>4, <3>5
  <2>8. ASSUME NEW c \in Calls, NEW level \in Replies, Authorized(c, level)
        PROVE  Inv'
    <3>1. client' \in {StartClient(level, client.agentStopped), StopClient(FALSE)}
      BY <2>8, ReleasedClient DEF Authorized
    <3>2. maxLevel' = maxLevel
      BY <2>8 DEF Authorized, environment
    <3>4. StartClient(level, client.agentStopped).agentStopped
            = client.agentStopped
      BY DEF StartClient
    <3>5. StopClient(FALSE).agentStopped = FALSE
      BY DEF StopClient
    <3> QED BY <2>1, <3>1, <3>2, <3>4, <3>5
  <2>9. ASSUME NEW c \in Calls, Rejected(c) \/ AuthorizeFailed(c) PROVE Inv'
    BY <2>1, <2>2, <2>9 DEF Rejected, AuthorizeFailed, environment
  <2>10. CASE Stop
    BY <2>1, <2>10 DEF Stop, environment, StopClient
  <2>11. ASSUME NEW max \in MaxLevels, AgentSetsMax(max) PROVE Inv'
    <3>1. CASE max = 0
      BY <2>11, <3>1 DEF AgentSetsMax, SuspendedOnlyWhileDisabled
    <3>2. CASE max # 0 /\ client.agentStopped
      BY <2>11, <3>2 DEF AgentSetsMax, SuspendedOnlyWhileDisabled, StartClient
    <3>3. CASE max # 0 /\ ~client.agentStopped
      BY <2>11, <3>3 DEF AgentSetsMax, SuspendedOnlyWhileDisabled
    <3> QED BY <3>1, <3>2, <3>3
  <2>12. CASE AgentVanishes
    BY <2>12 DEF AgentVanishes, SuspendedOnlyWhileDisabled
  <2>13. CASE DeleteClient
    BY <2>1, <2>2, <2>13 DEF DeleteClient
  <2>14. CASE PeerVanishes
    BY <2>1, <2>2, <2>14 DEF PeerVanishes
  <2>15. CASE UNCHANGED vars
    BY <2>1, <2>15 DEF vars
  <2> QED
    BY <2>4, <2>5, <2>6, <2>7, <2>8, <2>9, <2>10, <2>11, <2>12, <2>13, <2>14,
       <2>15 DEF Next
<1> QED BY <1>1, <1>2, TypeCorrect, PTL DEF Spec

----------------------------------------------------------------------------
(* The application waits for the answer to each Start().                    *)
Sequential == \A c, d \in Calls : c = d

(* Inductive strengthening of ActiveMeansReceiving: an unanswered call      *)
(* excludes a running locator, because the call was made without one and    *)
(* only a suspended client, which none is while the agent allows anything,  *)
(* would be started behind its back.                                        *)
SequentialInv ==
    /\ ActiveMeansReceiving
    /\ client.agentStopped => maxLevel = 0 /\ ~client.active
    /\ Waiting(calls) # {} => ~client.active /\ ~client.agentStopped

LEMMA SequentialInit == Init => SequentialInv
BY DEF Init, SequentialInv, ActiveMeansReceiving, StopClient, Waiting

LEMMA AnsweredLeavesNone ==
    ASSUME Sequential, TypeOK, NEW c \in Calls, NEW answer, answer # "waiting",
           calls' = [calls EXCEPT ![c] = answer]
    PROVE  Waiting(calls') = {}
BY DEF Sequential, TypeOK, Waiting

LEMMA SequentialStep ==
    ASSUME Sequential, TypeOK, SequentialInv, [Next]_vars
    PROVE  SequentialInv'
<1> USE DEF SequentialInv, ActiveMeansReceiving
<1>1. ASSUME UNCHANGED <<client, orphans, maxLevel, calls>>
      PROVE  SequentialInv'
  BY <1>1
<1>2. \A level : NoLocator # LocatorNew(level) \/ level \notin Levels
  BY LocatorLevel, ClientAssumption DEF Levels, COUNTRY, CITY, EXACT
<1>3. ASSUME NEW level \in Requests, SetRequested(level) PROVE SequentialInv'
  BY <1>1, <1>3 DEF SetRequested
<1>4. ASSUME NEW id \in DesktopIds, SetDesktopId(id) PROVE SequentialInv'
  BY <1>1, <1>4 DEF SetDesktopId
<1>5. ASSUME NEW c \in Calls, StartAgain(c) PROVE SequentialInv'
  BY <1>5, AnsweredLeavesNone DEF StartAgain, environment
<1>6. ASSUME NEW c \in Calls, StartDenied(c) PROVE SequentialInv'
  BY <1>6, AnsweredLeavesNone DEF StartDenied, environment
<1>7. ASSUME NEW c \in Calls, StartAllowed(c) PROVE SequentialInv'
  <2>1. Waiting(calls') = {} /\ ~client.agentStopped
    BY <1>7, AnsweredLeavesNone DEF StartAllowed, Refused
  <2> DEFINE wanted == EnsureValid(requested, EXACT)
             granted == EnsureValid(wanted, maxLevel)
  <2>2. wanted \in Levels
    BY EnsureValidLevel DEF TypeOK, EXACT
  <2>3. granted \in Levels
    <3>1. maxLevel \in Nat /\ maxLevel # 0
      BY <1>7 DEF StartAllowed, Refused, TypeOK
    <3>2. wanted \in Nat
      BY <2>2 DEF Levels, COUNTRY, CITY, EXACT
    <3> HIDE DEF wanted
    <3> QED BY <3>1, <3>2, EnsureValidLevel
  <2>4. client' \in {StartClient(granted, client.agentStopped),
                     StopClient(FALSE)}
    BY <1>7, ReleasedClient DEF StartAllowed
  <2> HIDE DEF granted
  <2>5. orphans' = orphans /\ maxLevel' = maxLevel
    BY <1>7 DEF StartAllowed, environment
  <2> QED BY <1>2, <2>1, <2>3, <2>4, <2>5 DEF StartClient, StopClient
<1>8. ASSUME NEW c \in Calls, StartAsksAgent(c) PROVE SequentialInv'
  BY <1>8 DEF StartAsksAgent, environment, Refused
<1>9. ASSUME NEW c \in Calls, NEW level \in Replies, Authorized(c, level)
      PROVE  SequentialInv'
  <2>1. Waiting(calls') = {} /\ c \in Waiting(calls)
    BY <1>9, AnsweredLeavesNone DEF Authorized, Waiting
  <2>2. client.locator = NoLocator /\ ~client.agentStopped
    BY <2>1
  <2>3. orphans' = {} /\ maxLevel' = maxLevel
    BY <1>9, <2>2 DEF Authorized, Overwritten, environment
  <2>4. level \in Levels
    BY ClientAssumption
  <2>5. client' \in {StartClient(level, client.agentStopped), StopClient(FALSE)}
    BY <1>9, ReleasedClient DEF Authorized
  <2> QED BY <1>2, <2>1, <2>2, <2>3, <2>4, <2>5 DEF StartClient, StopClient
<1>10. ASSUME NEW c \in Calls, Rejected(c) \/ AuthorizeFailed(c)
       PROVE  SequentialInv'
  <2>1. Waiting(calls') = {}
    BY <1>10, AnsweredLeavesNone DEF Rejected, AuthorizeFailed
  <2>2. client' \in {client, StopClient(FALSE)}
    BY <1>10, ReleasedClient DEF Rejected, AuthorizeFailed
  <2> QED
    BY <1>10, <2>1, <2>2
       DEF Rejected, AuthorizeFailed, environment, StopClient
<1>11. CASE Stop
  BY <1>11 DEF Stop, environment, StopClient
<1>12. ASSUME NEW max \in MaxLevels, AgentSetsMax(max) PROVE SequentialInv'
  <2>1. calls' = calls /\ maxLevel' = max /\ max \in Nat
    BY <1>12, ClientAssumption DEF AgentSetsMax
  <2>2. CASE max # 0 /\ client.agentStopped
    <3> DEFINE granted == EnsureValid(requested, max)
    <3>1. granted \in Levels
      BY <2>1, <2>2, EnsureValidLevel DEF TypeOK
    <3>2. client' = StartClient(granted, FALSE) /\ orphans' = Overwritten
      BY <1>12, <2>2 DEF AgentSetsMax
    <3> HIDE DEF granted
    <3>3. orphans' = {}
      BY <2>2, <3>2 DEF Overwritten
    <3>4. Waiting(calls') = {}
      BY <2>1, <2>2
    <3> QED BY <1>2, <3>1, <3>2, <3>3, <3>4 DEF StartClient
  <2>3. CASE max = 0 /\ client.active
    BY <1>12, <2>1, <2>3 DEF AgentSetsMax, StopClient
  <2>4. CASE ~(max # 0 /\ client.agentStopped) /\ ~(max = 0 /\ client.active)
    BY <1>12, <2>1, <2>4 DEF AgentSetsMax
  <2> QED BY <2>2, <2>3, <2>4
<1>13. CASE AgentVanishes
  BY <1>13 DEF AgentVanishes
<1>14. CASE DeleteClient \/ PeerVanishes
  <2>1. client' \in {client, StopClient(FALSE)}
    BY <1>14, ReleasedClient DEF DeleteClient, PeerVanishes
  <2>2. UNCHANGED <<orphans, maxLevel, calls>>
    BY <1>14 DEF DeleteClient, PeerVanishes
  <2>3. CASE client' = client
    BY <1>1, <2>2, <2>3
  <2>4. CASE client' = StopClient(FALSE)
    BY <2>2, <2>4 DEF StopClient
  <2> QED BY <2>1, <2>3, <2>4
<1>15. CASE UNCHANGED vars
  BY <1>1, <1>15 DEF vars
<1> QED
  BY <1>3, <1>4, <1>5, <1>6, <1>7, <1>8, <1>9, <1>10, <1>11, <1>12, <1>13,
     <1>14, <1>15 DEF Next

(* Client.xml, Active, for an application that waits for each answer: the   *)
(* client is active exactly while one locator serves it, and no locator is  *)
(* ever left behind.                                                        *)
THEOREM ActiveMeansReceivingAlways ==
    ASSUME Sequential
    PROVE  Spec => []ActiveMeansReceiving
<1>1. TypeOK /\ SequentialInv /\ [Next]_vars => SequentialInv'
  BY SequentialStep
<1>2. SequentialInv => ActiveMeansReceiving
  BY DEF SequentialInv
<1> QED BY <1>1, <1>2, SequentialInit, TypeCorrect, PTL DEF Spec

----------------------------------------------------------------------------
(* For an application that waits for each answer the client implements      *)
(* ClientLifecycle: every step is a step of that machine or none at all.    *)
LEMMA LifecycleStart == Init => Lifecycle!LifecycleInit
<1> SUFFICES ASSUME Init PROVE Lifecycle!LifecycleInit
  OBVIOUS
<1>1. Alive /\ Waiting(calls) = {}
  BY DEF Init, Alive, Waiting
<1>2. ~client.active /\ ~client.agentStopped
  BY DEF Init, StopClient
<1> QED BY <1>1, <1>2 DEF phase, Lifecycle!LifecycleInit

LEMMA LifecycleStep ==
    ASSUME Sequential, TypeOK, SequentialInv, SequentialInv', [Next]_vars
    PROVE  [Lifecycle!LifecycleNext]_<<phase, maxLevel # 0>>
<1> DEFINE Step == [Lifecycle!LifecycleNext]_<<phase, maxLevel # 0>>
<1> USE DEF Lifecycle!LifecycleNext
<1>1. ASSUME UNCHANGED <<listed, calls, client, maxLevel>> PROVE Step
  BY <1>1 DEF phase, Alive
<1>2. ASSUME NEW c \in Calls, calls[c] # "waiting" PROVE Waiting(calls) = {}
  BY <1>2 DEF Sequential, Waiting
<1>3. ASSUME NEW level \in Requests, SetRequested(level) PROVE Step
  BY <1>1, <1>3 DEF SetRequested
<1>4. ASSUME NEW id \in DesktopIds, SetDesktopId(id) PROVE Step
  BY <1>1, <1>4 DEF SetDesktopId
<1>5. ASSUME NEW c \in Calls, StartAgain(c) \/ StartDenied(c) PROVE Step
  <2>1. Waiting(calls) = {} /\ Waiting(calls') = {}
    BY <1>2, <1>5, AnsweredLeavesNone DEF StartAgain, StartDenied
  <2>2. UNCHANGED <<listed, client, maxLevel>>
    BY <1>5 DEF StartAgain, StartDenied, environment
  <2> QED BY <2>1, <2>2 DEF phase, Alive
<1>6. ASSUME NEW c \in Calls, StartAllowed(c) PROVE Step
  <2>1. Waiting(calls) = {} /\ Waiting(calls') = {}
    BY <1>2, <1>6, AnsweredLeavesNone DEF StartAllowed
  <2>2. listed /\ listed' /\ maxLevel # 0 /\ maxLevel' = maxLevel
    BY <1>6, <2>1 DEF StartAllowed, AppCanCall, Alive, Refused, environment
  <2>3. phase = "stopped"
    BY <1>6, <2>1, <2>2
       DEF StartAllowed, phase, Alive, SequentialInv, ActiveMeansReceiving
  <2>4. client'.active /\ ~client'.agentStopped
    <3>1. PICK level : client' = Release(StartClient(level, client.agentStopped),
                                         listed, calls')
      BY <1>6 DEF StartAllowed
    <3>2. client' = StartClient(level, client.agentStopped)
      BY <2>2, <3>1 DEF Release
    <3> QED BY <2>2, <3>2 DEF StartClient, SequentialInv
  <2>5. phase' = "running"
    BY <2>2, <2>4 DEF phase, Alive
  <2> QED BY <2>2, <2>3, <2>5 DEF Lifecycle!Begin
<1>7. ASSUME NEW c \in Calls, StartAsksAgent(c) PROVE Step
  <2>1. Waiting(calls) = {}
    BY <1>2, <1>7 DEF StartAsksAgent
  <2>2. listed /\ listed' /\ maxLevel # 0 /\ maxLevel' = maxLevel
        /\ client' = client
    BY <1>7, <2>1 DEF StartAsksAgent, AppCanCall, Alive, Refused, environment
  <2>3. c \in Waiting(calls')
    BY <1>7 DEF StartAsksAgent, Waiting, TypeOK
  <2>4. phase = "stopped"
    BY <1>7, <2>1, <2>2
       DEF StartAsksAgent, phase, Alive, SequentialInv, ActiveMeansReceiving
  <2>5. phase' = "asking"
    BY <2>2, <2>3 DEF phase, Alive, SequentialInv
  <2> QED BY <2>2, <2>4, <2>5 DEF Lifecycle!Begin
<1>8. ASSUME NEW c \in Calls,
             (\E level \in Replies : Authorized(c, level))
               \/ Rejected(c) \/ AuthorizeFailed(c)
      PROVE  Step
  <2>1. c \in Waiting(calls) /\ maxLevel' = maxLevel /\ Waiting(calls') = {}
    BY <1>8, AnsweredLeavesNone
       DEF Authorized, Rejected, AuthorizeFailed, Waiting, environment
  <2>2. phase = "asking"
    BY <2>1 DEF phase, Alive, SequentialInv
  <2>3. ~client'.agentStopped
    <3>1. ~client.agentStopped
      BY <2>1 DEF SequentialInv
    <3>2. CASE Rejected(c) \/ AuthorizeFailed(c)
      <4>1. client' \in {client, StopClient(FALSE)}
        BY <3>2, ReleasedClient DEF Rejected, AuthorizeFailed
      <4> QED BY <3>1, <4>1 DEF StopClient
    <3>3. ASSUME NEW level \in Replies, Authorized(c, level)
          PROVE  ~client'.agentStopped
      <4>1. client' \in {StartClient(level, client.agentStopped),
                         StopClient(FALSE)}
        BY <3>3, ReleasedClient DEF Authorized
      <4>2. ~StartClient(level, client.agentStopped).agentStopped
        BY <3>1 DEF StartClient
      <4>3. ~StopClient(FALSE).agentStopped
        BY DEF StopClient
      <4> QED BY <4>1, <4>2, <4>3
    <3> QED BY <1>8, <3>2, <3>3
  <2>4. phase' \in {"running", "stopped", "gone"}
    BY <2>1, <2>3 DEF phase
  <2> QED BY <2>1, <2>2, <2>4 DEF Lifecycle!Answer
<1>9. CASE Stop
  <2>1. Alive /\ Alive' /\ Waiting(calls') = Waiting(calls)
        /\ maxLevel' = maxLevel
    BY <1>9 DEF Stop, AppCanCall, Alive, environment
  <2>2. ~client'.active /\ client'.agentStopped = client.agentStopped
    BY <1>9 DEF Stop, StopClient
  <2>3. CASE phase = "running"
    BY <2>1, <2>2, <2>3 DEF phase, SequentialInv, Lifecycle!End
  <2>4. CASE phase # "running"
    BY <2>1, <2>2, <2>4 DEF phase, SequentialInv
  <2> QED BY <2>3, <2>4
<1>10. ASSUME NEW max \in MaxLevels, AgentSetsMax(max) PROVE Step
  <2>1. Alive /\ Alive' /\ Waiting(calls') = Waiting(calls)
        /\ maxLevel' = max /\ max # maxLevel
    BY <1>10 DEF AgentSetsMax, Alive
  <2>2. CASE max = 0 /\ client.active
    <3>1. phase = "running" /\ phase' = "suspended"
      BY <1>10, <2>1, <2>2 DEF AgentSetsMax, phase, SequentialInv, StopClient
    <3> QED BY <2>1, <2>2, <3>1 DEF Lifecycle!Disable
  <2>3. CASE max = 0 /\ ~client.active
    <3>1. client' = client
      BY <1>10, <2>3 DEF AgentSetsMax
    <3>2. phase' = phase /\ phase # "running"
      BY <2>1, <2>3, <3>1 DEF phase
    <3> QED BY <2>1, <2>3, <3>2 DEF Lifecycle!Disable
  <2>4. CASE max # 0 /\ client.agentStopped
    <3>1. maxLevel = 0 /\ phase = "suspended"
      BY <2>1, <2>4 DEF phase, SequentialInv
    <3>2. phase' = "running"
      BY <1>10, <2>1, <2>4 DEF AgentSetsMax, phase, StartClient
    <3> QED BY <2>1, <2>4, <3>1, <3>2 DEF Lifecycle!Enable
  <2>5. CASE max # 0 /\ ~client.agentStopped
    <3>1. client' = client
      BY <1>10, <2>5 DEF AgentSetsMax
    <3>2. phase' = phase /\ phase \notin {"suspended", "gone"}
      BY <2>1, <2>5, <3>1 DEF phase
    <3> QED BY <2>1, <2>5, <3>2 DEF Lifecycle!Enable
  <2> QED BY <2>2, <2>3, <2>4, <2>5
<1>11. CASE AgentVanishes
  <2>1. phase' = phase /\ maxLevel' = 0
    BY <1>11 DEF AgentVanishes, phase, Alive
  <2> QED BY <2>1 DEF Lifecycle!AgentLost
<1>12. CASE DeleteClient \/ PeerVanishes
  <2>1. maxLevel' = maxLevel /\ Waiting(calls') = Waiting(calls) /\ ~listed'
        /\ client' = Release(client, FALSE, calls)
    BY <1>12 DEF DeleteClient, PeerVanishes
  <2>2. CASE Waiting(calls) # {}
    <3>1. client' = client
      BY <2>1, <2>2 DEF Release
    <3>2. phase = "asking" /\ phase' = "asking"
      BY <2>1, <2>2, <3>1 DEF phase, Alive, SequentialInv
    <3> QED BY <2>1, <3>2
  <2>3. CASE Waiting(calls) = {}
    <3>1. phase' = "gone" /\ phase # "asking"
      BY <2>1, <2>3 DEF phase, Alive
    <3>2. phase \in {"gone", "stopped", "running", "suspended"}
      BY <3>1 DEF phase
    <3> QED BY <2>1, <3>1, <3>2 DEF Lifecycle!Drop
  <2> QED BY <2>2, <2>3
<1>13. CASE UNCHANGED vars
  BY <1>1, <1>13 DEF vars
<1> QED
  BY <1>3, <1>4, <1>5, <1>6, <1>7, <1>8, <1>9, <1>10, <1>11, <1>12, <1>13
     DEF Next

THEOREM ImplementsLifecycle ==
    ASSUME Sequential
    PROVE  Spec => LifecycleSpec
<1>1. TypeOK /\ SequentialInv /\ [Next]_vars => SequentialInv'
  BY SequentialStep
<1>2. TypeOK /\ SequentialInv /\ SequentialInv' /\ [Next]_vars
        => [Lifecycle!LifecycleNext]_<<phase, maxLevel # 0>>
  BY LifecycleStep
<1> QED
  BY <1>1, <1>2, SequentialInit, LifecycleStart, TypeCorrect, PTL
     DEF Spec, LifecycleSpec, Lifecycle!LifecycleSpec

----------------------------------------------------------------------------
(* Inductive strengthening of NoLocatorWithoutConsent: being suspended      *)
(* counts as having had a locator, since a suspended client is restarted    *)
(* without asking again.                                                    *)
MustAsk == xdgId # NoId /\ Perm[xdgId] = "ask"
Served ==
    client.active \/ client.agentStopped \/ client.locator # NoLocator
      \/ orphans # {}
ConsentInv == MustAsk /\ Served => consented

(* What was found out about the application is never looked up again.       *)
LEMMA ApplicationStays == [Next]_vars => xdgId' = xdgId
<1> SUFFICES ASSUME [Next]_vars PROVE xdgId' = xdgId
  OBVIOUS
<1>1. ASSUME NEW c \in Calls, NEW level \in Replies, Authorized(c, level)
      PROVE  xdgId' = xdgId
  BY <1>1 DEF Authorized, environment
<1>2. ASSUME NEW c \in Calls,
             \/ StartAgain(c) \/ StartDenied(c) \/ StartAllowed(c)
             \/ StartAsksAgent(c) \/ Rejected(c) \/ AuthorizeFailed(c)
      PROVE  xdgId' = xdgId
  BY <1>2 DEF StartAgain, StartDenied, StartAllowed, StartAsksAgent,
              Rejected, AuthorizeFailed, environment
<1>3. ASSUME \/ \E level \in Requests : SetRequested(level)
             \/ \E id \in DesktopIds : SetDesktopId(id)
             \/ Stop
             \/ \E max \in MaxLevels : AgentSetsMax(max)
             \/ AgentVanishes \/ DeleteClient \/ PeerVanishes
      PROVE  xdgId' = xdgId
  BY <1>3 DEF SetRequested, SetDesktopId, Stop, AgentSetsMax, AgentVanishes,
              DeleteClient, PeerVanishes, environment
<1>4. UNCHANGED vars => xdgId' = xdgId
  BY DEF vars
<1> QED BY <1>1, <1>2, <1>3, <1>4 DEF Next

(* An application the agent must authorize gets no locator before it did.   *)
THEOREM NoLocatorWithoutConsentAlways == Spec => []NoLocatorWithoutConsent
<1> USE DEF ConsentInv
<1>1. Init => ConsentInv
  BY DEF Init, Served, StopClient
<1>2. ConsentInv /\ [Next]_vars => ConsentInv'
  <2>0. [Next]_vars => (MustAsk' <=> MustAsk)
    BY ApplicationStays DEF MustAsk
  <2> SUFFICES ASSUME ConsentInv, [Next]_vars, MustAsk PROVE Served' => consented'
    BY <2>0
  <2>1. ASSUME UNCHANGED <<orphans, consented>>,
               client' \in {client, StopClient(client.agentStopped),
                            StopClient(FALSE)}
        PROVE  Served' => consented'
    BY <2>1 DEF Served, StopClient
  <2>2. ASSUME NEW level \in Requests, SetRequested(level)
        PROVE  Served' => consented'
    BY <2>1, <2>2 DEF SetRequested
  <2>3. ASSUME NEW id \in DesktopIds, SetDesktopId(id)
        PROVE  Served' => consented'
    BY <2>1, <2>3 DEF SetDesktopId
  <2>4. ASSUME NEW c \in Calls,
               StartAgain(c) \/ StartDenied(c) \/ StartAsksAgent(c)
        PROVE  Served' => consented'
    BY <2>1, <2>4 DEF StartAgain, StartDenied, StartAsksAgent
  <2>5. ASSUME NEW c \in Calls, StartAllowed(c) PROVE FALSE
    BY <2>5 DEF StartAllowed, NeedsConsent, EffectiveId, SystemApp, MustAsk
  <2>6. ASSUME NEW c \in Calls, NEW level \in Replies, Authorized(c, level)
        PROVE  Served' => consented'
    BY <2>6 DEF Authorized
  <2>7. ASSUME NEW c \in Calls, Rejected(c) \/ AuthorizeFailed(c)
        PROVE  Served' => consented'
    BY <2>1, <2>7, ReleasedClient DEF Rejected, AuthorizeFailed
  <2>8. CASE Stop
    BY <2>1, <2>8 DEF Stop
  <2>9. ASSUME NEW max \in MaxLevels, AgentSetsMax(max)
        PROVE  Served' => consented'
    BY <2>9 DEF AgentSetsMax, Served
  <2>10. CASE AgentVanishes
    BY <2>1, <2>10 DEF AgentVanishes
  <2>11. CASE DeleteClient \/ PeerVanishes
    BY <2>1, <2>11, ReleasedClient DEF DeleteClient, PeerVanishes
  <2>12. CASE UNCHANGED vars
    BY <2>1, <2>12 DEF vars
  <2> QED
    BY <2>2, <2>3, <2>4, <2>5, <2>6, <2>7, <2>8, <2>9, <2>10, <2>11, <2>12
       DEF Next
<1>3. ConsentInv => NoLocatorWithoutConsent
  BY DEF NoLocatorWithoutConsent, MustAsk, Served
<1> QED BY <1>1, <1>2, <1>3, PTL DEF Spec

----------------------------------------------------------------------------
(* One flag and one pointer say whether the client runs, and start_client  *)
(* and stop_client set both, for however many calls.                       *)
ActiveWithLocator == client.active <=> client.locator # NoLocator

(* A client that a handler leaves as it was, stops, or starts at a level.  *)
LEMMA StartedWithLocator ==
    ASSUME NEW level \in Levels, NEW suspended
    PROVE  /\ StartClient(level, suspended).active
           /\ StartClient(level, suspended).locator # NoLocator
<1>1. LocatorNew(level) \in Nat
  BY LocatorLevel DEF Levels, COUNTRY, CITY, EXACT
<1> QED BY <1>1, ClientAssumption DEF StartClient

(* The level StartAllowed grants is within the maximum of the agent, even  *)
(* when gclue_locator_new replaces the country level.                      *)
LEMMA GrantedLevel ==
    ASSUME NEW level \in Nat, NEW max \in Nat, max # 0, NEW suspended
    PROVE  /\ EnsureValid(level, max) \in Levels
           /\ StartClient(EnsureValid(level, max), suspended).locator
                <= Clamp(max, CITY, EXACT)
<1> DEFINE granted == EnsureValid(level, max)
<1>1. granted \in Levels /\ granted <= max
  BY EnsureValidLevel
<1> HIDE DEF granted
<1>2. LocatorNew(granted) <= Clamp(max, CITY, EXACT)
  BY <1>1 DEF LocatorNew, Clamp, Levels, COUNTRY, CITY, EXACT
<1>3. StartClient(granted, suspended).locator = LocatorNew(granted)
  BY DEF StartClient
<1> QED BY <1>1, <1>2, <1>3 DEF granted

LEMMA AllowedLevel ==
    ASSUME TypeOK, NEW c \in Calls, StartAllowed(c)
    PROVE  \E level \in Levels :
              /\ client' = Release(StartClient(level, client.agentStopped),
                                   listed, calls')
              /\ StartClient(level, client.agentStopped).locator
                   <= Clamp(maxLevel, CITY, EXACT)
<1> DEFINE wanted == EnsureValid(requested, EXACT)
<1>1. wanted \in Levels
  BY EnsureValidLevel DEF TypeOK, EXACT
<1>2. wanted \in Nat
  BY <1>1 DEF Levels, COUNTRY, CITY, EXACT
<1>3. maxLevel \in Nat /\ maxLevel # 0
  BY DEF StartAllowed, Refused, TypeOK
<1>4. client' = Release(StartClient(EnsureValid(wanted, maxLevel),
                                    client.agentStopped), listed, calls')
  BY DEF StartAllowed
<1> HIDE DEF wanted
<1>5. /\ EnsureValid(wanted, maxLevel) \in Levels
      /\ StartClient(EnsureValid(wanted, maxLevel), client.agentStopped).locator
           <= Clamp(maxLevel, CITY, EXACT)
  BY <1>2, <1>3, GrantedLevel
<1> QED BY <1>4, <1>5

LEMMA RestartedLevel ==
    ASSUME TypeOK, NEW max \in MaxLevels, AgentSetsMax(max),
           max # 0 /\ client.agentStopped
    PROVE  \E level \in Levels :
              /\ client' = StartClient(level, FALSE)
              /\ client'.locator <= Clamp(maxLevel', CITY, EXACT)
<1>1. requested \in Nat /\ max \in Nat
  BY ClientAssumption DEF TypeOK
<1>2. client' = StartClient(EnsureValid(requested, max), FALSE) /\ maxLevel' = max
  BY DEF AgentSetsMax
<1> QED BY <1>1, <1>2, GrantedLevel

(* What a step makes of the client, by the path it takes. *)
LEMMA ClientMoves ==
    ASSUME TypeOK, [Next]_vars
    PROVE  \/ client' \in {client, StopClient(FALSE), StopClient(TRUE)}
           \/ \E c \in Calls : StartAllowed(c)
           \/ \E c \in Calls, level \in Replies : Authorized(c, level)
           \/ \E max \in MaxLevels :
                 AgentSetsMax(max) /\ max # 0 /\ client.agentStopped
<1>1. ASSUME NEW c \in Calls, Rejected(c) \/ AuthorizeFailed(c)
      PROVE  client' \in {client, StopClient(FALSE)}
  BY <1>1, ReleasedClient DEF Rejected, AuthorizeFailed
<1>2. ASSUME NEW c \in Calls, StartAgain(c) \/ StartDenied(c) \/ StartAsksAgent(c)
      PROVE  client' = client
  BY <1>2 DEF StartAgain, StartDenied, StartAsksAgent
<1>3. CASE \/ \E level \in Requests : SetRequested(level)
           \/ \E id \in DesktopIds : SetDesktopId(id)
           \/ AgentVanishes \/ UNCHANGED vars
  BY <1>3 DEF SetRequested, SetDesktopId, AgentVanishes, vars
<1>4. CASE Stop
  <2>1. client.agentStopped \in BOOLEAN
    BY DEF TypeOK, ClientType
  <2> QED BY <1>4, <2>1 DEF Stop
<1>5. CASE DeleteClient \/ PeerVanishes
  BY <1>5, ReleasedClient DEF DeleteClient, PeerVanishes
<1>6. ASSUME NEW max \in MaxLevels, AgentSetsMax(max)
      PROVE  \/ max # 0 /\ client.agentStopped
             \/ client' \in {client, StopClient(TRUE)}
  BY <1>6 DEF AgentSetsMax
<1> QED BY <1>1, <1>2, <1>3, <1>4, <1>5, <1>6 DEF Next

LEMMA AnsweredOk ==
    ASSUME TypeOK, [Next]_vars, NEW c \in Calls, calls[c] # "ok", calls'[c] = "ok"
    PROVE  \/ StartAgain(c) \/ StartAllowed(c)
           \/ \E level \in Replies : Authorized(c, level)
<1>1. \A d \in Calls : \A answer :
        calls' = [calls EXCEPT ![d] = answer] => d = c /\ answer = "ok"
  BY DEF TypeOK
<1>2. calls' # calls
  OBVIOUS
<1>3. ASSUME NEW d \in Calls,
             \/ StartAgain(d) \/ StartAllowed(d)
             \/ \E level \in Replies : Authorized(d, level)
      PROVE  d = c
  BY <1>1, <1>3 DEF StartAgain, StartAllowed, Authorized
<1>4. ASSUME NEW d \in Calls,
             StartDenied(d) \/ StartAsksAgent(d) \/ Rejected(d) \/ AuthorizeFailed(d)
      PROVE  FALSE
  BY <1>1, <1>4 DEF StartDenied, StartAsksAgent, Rejected, AuthorizeFailed
<1>5. ~UNCHANGED vars /\ ~Stop /\ ~AgentVanishes /\ ~DeleteClient /\ ~PeerVanishes
  BY <1>2 DEF vars, Stop, AgentVanishes, DeleteClient, PeerVanishes
<1>6. /\ \A level \in Requests : ~SetRequested(level)
      /\ \A id \in DesktopIds : ~SetDesktopId(id)
      /\ \A max \in MaxLevels : ~AgentSetsMax(max)
  BY <1>2 DEF SetRequested, SetDesktopId, AgentSetsMax
<1> QED BY <1>3, <1>4, <1>5, <1>6 DEF Next

LEMMA ActiveWithLocatorAlways == Spec => []ActiveWithLocator
<1>1. Init => ActiveWithLocator
  BY DEF Init, StopClient, ActiveWithLocator
<1>2. TypeOK /\ ActiveWithLocator /\ [Next]_vars => ActiveWithLocator'
  <2> SUFFICES ASSUME TypeOK, ActiveWithLocator, [Next]_vars
               PROVE  ActiveWithLocator'
    OBVIOUS
  <2>1. \/ client'.active /\ client'.locator # NoLocator
        \/ client' = StopClient(FALSE)
        => ActiveWithLocator'
    BY DEF ActiveWithLocator, StopClient
  <2>2. CASE client' \in {client, StopClient(FALSE), StopClient(TRUE)}
    BY <2>2 DEF ActiveWithLocator, StopClient
  <2>3. ASSUME NEW c \in Calls, StartAllowed(c) PROVE ActiveWithLocator'
    <3>1. PICK level \in Levels :
            client' = Release(StartClient(level, client.agentStopped), listed, calls')
      BY <2>3, AllowedLevel
    <3>2. client' \in {StartClient(level, client.agentStopped), StopClient(FALSE)}
      BY <3>1, ReleasedClient
    <3> QED BY <2>1, <3>2, StartedWithLocator
  <2>4. ASSUME NEW c \in Calls, NEW level \in Replies, Authorized(c, level)
        PROVE  ActiveWithLocator'
    <3>1. level \in Levels
      BY ClientAssumption
    <3>2. client' \in {StartClient(level, client.agentStopped), StopClient(FALSE)}
      BY <2>4, ReleasedClient DEF Authorized
    <3> QED BY <2>1, <3>1, <3>2, StartedWithLocator
  <2>5. ASSUME NEW max \in MaxLevels, AgentSetsMax(max), max # 0, client.agentStopped
        PROVE  ActiveWithLocator'
    <3>1. PICK level \in Levels : client' = StartClient(level, FALSE)
      BY <2>5, RestartedLevel
    <3> QED BY <2>1, <3>1, StartedWithLocator
  <2> QED BY <2>2, <2>3, <2>4, <2>5, ClientMoves
<1> QED BY <1>1, <1>2, TypeCorrect, PTL DEF Spec

(* For every requested value and every maximum an agent publishes, a       *)
(* locator that start_client makes without an answer of the agent stays    *)
(* within its MaxAccuracyLevel, after gclue_locator_new too.               *)
THEOREM GrantsStayWithinMax == Spec => GrantWithinMax
<1> DEFINE Grant ==
        \/ client'.locator \in {client.locator, NoLocator}
        \/ \E c \in Calls : calls[c] = "waiting" /\ calls'[c] = "ok"
        \/ client'.locator <= Clamp(maxLevel', CITY, EXACT)
<1>1. TypeOK /\ [Next]_vars => Grant
  <2> SUFFICES ASSUME TypeOK, [Next]_vars PROVE Grant
    OBVIOUS
  <2>1. CASE client' \in {client, StopClient(FALSE), StopClient(TRUE)}
    BY <2>1 DEF StopClient
  <2>2. ASSUME NEW c \in Calls, StartAllowed(c) PROVE Grant
    <3>1. PICK level \in Levels :
            /\ client' = Release(StartClient(level, client.agentStopped), listed, calls')
            /\ StartClient(level, client.agentStopped).locator
                 <= Clamp(maxLevel, CITY, EXACT)
      BY <2>2, AllowedLevel
    <3>2. CASE client' = StopClient(FALSE)
      BY <3>2 DEF StopClient
    <3>3. CASE client' = StartClient(level, client.agentStopped)
      <4>1. maxLevel' = maxLevel
        BY <2>2 DEF StartAllowed, environment
      <4> QED BY <3>1, <3>3, <4>1
    <3> QED BY <3>1, <3>2, <3>3, ReleasedClient
  <2>3. ASSUME NEW c \in Calls, NEW level \in Replies, Authorized(c, level)
        PROVE  Grant
    <3>1. calls[c] = "waiting" /\ calls'[c] = "ok"
      BY <2>3 DEF Authorized, TypeOK
    <3> QED BY <3>1
  <2>4. ASSUME NEW max \in MaxLevels, AgentSetsMax(max), max # 0, client.agentStopped
        PROVE  Grant
    BY <2>4, RestartedLevel
  <2> QED BY <2>1, <2>2, <2>3, <2>4, ClientMoves
<1>2. TypeOK /\ [Next]_vars => [Grant]_vars
  BY <1>1
<1> QED BY <1>2, TypeCorrect, PTL DEF Spec, GrantWithinMax

(* However many calls overlap, one that handle_start or                    *)
(* on_authorize_app_ready answers with success leaves the client active,   *)
(* unless the call alone kept a deleted client in existence.               *)
THEOREM SuccessAlwaysMeansActive == Spec => SuccessMeansActive
<1> DEFINE Success == \A c \in Calls : calls[c] # "ok" /\ calls'[c] = "ok"
                                          => client'.active \/ ~Alive'
<1>1. TypeOK /\ ActiveWithLocator /\ [Next]_vars => Success
  <2> SUFFICES ASSUME TypeOK, ActiveWithLocator, [Next]_vars,
                      NEW c \in Calls, calls[c] # "ok", calls'[c] = "ok"
               PROVE  client'.active \/ ~Alive'
    OBVIOUS
  <2>1. ASSUME NEW level \in Levels, NEW suspended, listed' = listed,
               client' = Release(StartClient(level, suspended), listed, calls')
        PROVE  client'.active \/ ~Alive'
    <3>1. CASE listed \/ Waiting(calls') # {}
      <4>1. client' = StartClient(level, suspended)
        BY <2>1, <3>1 DEF Release
      <4> QED BY <4>1, StartedWithLocator
    <3>2. CASE ~(listed \/ Waiting(calls') # {})
      BY <2>1, <3>2 DEF Alive
    <3> QED BY <3>1, <3>2
  <2>2. CASE StartAgain(c)
    BY <2>2 DEF StartAgain, ActiveWithLocator
  <2>3. CASE StartAllowed(c)
    <3>1. listed' = listed
      BY <2>3 DEF StartAllowed, environment
    <3>2. PICK level \in Levels :
            client' = Release(StartClient(level, client.agentStopped), listed, calls')
      BY <2>3, AllowedLevel
    <3> QED BY <2>1, <3>1, <3>2
  <2>4. ASSUME NEW level \in Replies, Authorized(c, level)
        PROVE  client'.active \/ ~Alive'
    <3>1. listed' = listed /\ level \in Levels
      BY <2>4, ClientAssumption DEF Authorized, environment
    <3>2. client' = Release(StartClient(level, client.agentStopped), listed, calls')
      BY <2>4 DEF Authorized
    <3> QED BY <2>1, <3>1, <3>2
  <2> QED BY <2>2, <2>3, <2>4, AnsweredOk
<1>2. TypeOK /\ ActiveWithLocator /\ [Next]_vars => [Success]_vars
  BY <1>1
<1> QED
  BY <1>2, TypeCorrect, ActiveWithLocatorAlways, PTL DEF Spec, SuccessMeansActive

----------------------------------------------------------------------------
(***************************************************************************)
(* Messages on their way.                                                  *)
(***************************************************************************)
Messages == [kind : Kinds, ok : BOOLEAN, location : 0 .. MaxLocations]

(* Where the answers about proxies are among the first n messages.         *)
Proxies(q, n) == {i \in 1 .. n : q[i].kind = "proxy"}

LEMMA ProxiesFinite ==
    ASSUME NEW q, NEW n \in Nat
    PROVE  IsFiniteSet(Proxies(q, n)) /\ Cardinality(Proxies(q, n)) \in Nat
<1>1. IsFiniteSet(1 .. n)
  BY FS_Interval
<1>2. Proxies(q, n) \in SUBSET (1 .. n)
  BY DEF Proxies
<1> QED BY <1>1, <1>2, FS_Subset, FS_CardinalityType

LEMMA ProxiesNone ==
    ASSUME NEW q, NEW n \in Nat, \A i \in 1 .. n : q[i].kind # "proxy"
    PROVE  Cardinality(Proxies(q, n)) = 0
<1>1. Proxies(q, n) = {}
  BY DEF Proxies
<1> QED BY <1>1, FS_EmptySet

LEMMA ProxiesSame ==
    ASSUME NEW q, NEW r, NEW n \in Nat, \A i \in 1 .. n : q[i] = r[i]
    PROVE  Proxies(q, n) = Proxies(r, n)
BY DEF Proxies

LEMMA ProxiesMore ==
    ASSUME NEW q, NEW n \in Nat
    PROVE  Cardinality(Proxies(q, n + 1)) =
             IF q[n + 1].kind = "proxy" THEN Cardinality(Proxies(q, n)) + 1
             ELSE Cardinality(Proxies(q, n))
<1>1. CASE q[n + 1].kind = "proxy"
  <2>1. Proxies(q, n + 1) = Proxies(q, n) \cup {n + 1} /\ n + 1 \notin Proxies(q, n)
    BY <1>1 DEF Proxies
  <2> QED BY <1>1, <2>1, ProxiesFinite, FS_AddElement
<1>2. CASE q[n + 1].kind # "proxy"
  <2>1. Proxies(q, n + 1) = Proxies(q, n)
    BY <1>2 DEF Proxies
  <2> QED BY <1>2, <2>1
<1> QED BY <1>1, <1>2

(* With the first message gone the others move up.                         *)
LEMMA ProxiesMoveUp ==
    ASSUME NEW q, NEW r, NEW n \in Nat, \A i \in 1 .. n : r[i] = q[i + 1]
    PROVE  Cardinality(Proxies(q, n + 1)) =
             IF q[1].kind = "proxy" THEN Cardinality(Proxies(r, n)) + 1
             ELSE Cardinality(Proxies(r, n))
<1> DEFINE S == Proxies(r, n)
           T == Proxies(q, n + 1) \ {1}
           f == [i \in S |-> i + 1]
<1>1. f \in Bijection(S, T)
  <2>1. \A i \in S : i \in Nat /\ i + 1 \in T
    BY DEF Proxies
  <2>2. \A j \in T : j - 1 \in S /\ j \in Int
    <3> SUFFICES ASSUME NEW j \in T PROVE j - 1 \in S /\ j \in Int
      OBVIOUS
    <3>1. j \in 2 .. n + 1 /\ q[j].kind = "proxy"
      BY DEF Proxies
    <3>2. j - 1 \in 1 .. n /\ (j - 1) + 1 = j
      BY <3>1
    <3> QED BY <3>1, <3>2 DEF Proxies
  <2> HIDE DEF S, T
  <2>3. f \in [S -> T] /\ \A i, j \in S : f[i] = f[j] => i = j
    BY <2>1
  <2>4. \A j \in T : \E i \in S : f[i] = j
    BY <2>2
  <2> QED BY <2>3, <2>4 DEF Bijection, Injection, Surjection, IsInjective
<1>2. Cardinality(T) = Cardinality(S)
  <2>1. IsFiniteSet(S)
    BY ProxiesFinite
  <2> HIDE DEF S, T, f
  <2> QED BY <1>1, <2>1, FS_Bijection DEF ExistsBijection
<1>3. IsFiniteSet(Proxies(q, n + 1)) /\ Cardinality(Proxies(q, n + 1)) \in Nat
  BY ProxiesFinite
<1>4. 1 \in Proxies(q, n + 1) <=> q[1].kind = "proxy"
  BY DEF Proxies
<1>5. Cardinality(T) = IF 1 \in Proxies(q, n + 1)
                       THEN Cardinality(Proxies(q, n + 1)) - 1
                       ELSE Cardinality(Proxies(q, n + 1))
  BY <1>3, FS_RemoveElement
<1>6. Cardinality(T) \in Nat
  BY <1>2, ProxiesFinite
<1> HIDE DEF T
<1> QED BY <1>2, <1>3, <1>4, <1>5, <1>6

(* One message more. *)
LEMMA OneAdded ==
    ASSUME NEW q \in Seq(Messages), NEW m \in Messages, NEW r, r = Append(q, m)
    PROVE  /\ r \in Seq(Messages) /\ Len(q) \in Nat /\ Len(r) = Len(q) + 1
           /\ \A i \in 1 .. Len(q) : r[i] = q[i] /\ i \in 1 .. Len(r)
           /\ r[Len(q) + 1] = m
           /\ \A n \in 0 .. Len(q) : Proxies(r, n) = Proxies(q, n)
           /\ Cardinality(Proxies(r, Len(r))) =
                IF m.kind = "proxy" THEN Cardinality(Proxies(q, Len(q))) + 1
                ELSE Cardinality(Proxies(q, Len(q)))
<1>1. r \in Seq(Messages) /\ Len(q) \in Nat /\ Len(r) = Len(q) + 1
  OBVIOUS
<1>2. \A i \in 1 .. Len(q) : r[i] = q[i] /\ i \in 1 .. Len(r)
  OBVIOUS
<1>3. r[Len(q) + 1] = m
  OBVIOUS
<1>4. ASSUME NEW n \in 0 .. Len(q) PROVE Proxies(r, n) = Proxies(q, n)
  <2>1. n \in Nat /\ \A i \in 1 .. n : r[i] = q[i]
    BY <1>1, <1>2
  <2> QED BY <2>1, ProxiesSame
<1>5. Cardinality(Proxies(r, Len(q) + 1)) =
        IF m.kind = "proxy" THEN Cardinality(Proxies(r, Len(q))) + 1
        ELSE Cardinality(Proxies(r, Len(q)))
  BY <1>1, <1>3, ProxiesMore
<1> QED BY <1>1, <1>2, <1>3, <1>4, <1>5

(* One message less. *)
LEMMA OneTaken ==
    ASSUME NEW q \in Seq(Messages), q # << >>, NEW r, r = Tail(q)
    PROVE  /\ r \in Seq(Messages) /\ Len(r) \in Nat /\ Len(q) = Len(r) + 1
           /\ q[1] \in Messages /\ Head(q) = q[1]
           /\ \A i \in 1 .. Len(r) : r[i] = q[i + 1] /\ i + 1 \in 1 .. Len(q)
           /\ \A n \in 0 .. Len(r) :
                 Cardinality(Proxies(q, n + 1)) =
                   IF q[1].kind = "proxy" THEN Cardinality(Proxies(r, n)) + 1
                   ELSE Cardinality(Proxies(r, n))
<1>1. r \in Seq(Messages) /\ Len(r) \in Nat /\ Len(q) = Len(r) + 1
  OBVIOUS
<1>2. q[1] \in Messages /\ Head(q) = q[1]
  OBVIOUS
<1>3. \A i \in 1 .. Len(r) : r[i] = q[i + 1] /\ i + 1 \in 1 .. Len(q)
  OBVIOUS
<1>4. ASSUME NEW n \in 0 .. Len(r)
      PROVE  Cardinality(Proxies(q, n + 1)) =
               IF q[1].kind = "proxy" THEN Cardinality(Proxies(r, n)) + 1
               ELSE Cardinality(Proxies(r, n))
  <2>1. n \in Nat /\ \A i \in 1 .. n : r[i] = q[i + 1]
    BY <1>1, <1>3
  <2> QED BY <2>1, ProxiesMoveUp
<1> QED BY <1>1, <1>2, <1>3, <1>4

LEMMA MessageIs ==
    ASSUME NEW kind \in Kinds, NEW ok \in BOOLEAN, NEW loc \in 0 .. MaxLocations
    PROVE  /\ Message(kind, ok, loc) \in Messages
           /\ Message(kind, ok, loc).kind = kind
           /\ Message(kind, ok, loc).ok = ok
           /\ Message(kind, ok, loc).location = loc
BY DEF Message, Messages

LEMMA NotEmpty ==
    ASSUME NEW S, NEW q \in Seq(S), q # << >>
    PROVE  Len(q) \in Nat /\ Len(q) # 0 /\ 1 \in 1 .. Len(q)
<1>1. Len(q) \in Nat /\ Len(q) # 0
  OBVIOUS
<1> QED BY <1>1

(* The places of a sequence that is longer by one.                         *)
LEMMA OneLonger ==
    ASSUME NEW q, NEW r, Len(q) \in Nat, Len(r) = Len(q) + 1
    PROVE  /\ r # << >>
           /\ \A i \in 1 .. Len(r) : i \in 1 .. Len(q) \/ i = Len(q) + 1
           /\ \A i \in 1 .. Len(q) : i \in 1 .. Len(r)
           /\ Len(q) + 1 \in 1 .. Len(r) /\ 1 \in 1 .. Len(r)
<1>1. Len(r) # 0
  OBVIOUS
<1> QED BY <1>1

LEMMA ElementsOf ==
    ASSUME NEW S, NEW q \in Seq(S)
    PROVE  Len(q) \in Nat /\ \A i \in 1 .. Len(q) : q[i] \in S
OBVIOUS

(* A sequence put together of those two.                                   *)
LEMMA PutTogether ==
    ASSUME NEW S, NEW n \in Nat, NEW f \in [1 .. n -> S], NEW e \in S,
           NEW r, r = << >> \o f \o <<e>>
    PROVE  /\ r \in Seq(S) /\ Len(r) = n + 1
           /\ \A i \in 1 .. n : r[i] = f[i]
           /\ r[n + 1] = e
<1>1. f \in Seq(S) /\ Len(f) = n
  OBVIOUS
<1>2. << >> \o f = f
  BY <1>1
<1>3. r = f \o <<e>>
  BY <1>2
<1>4. <<e>> \in Seq(S) /\ Len(<<e>>) = 1 /\ <<e>>[1] = e
  OBVIOUS
<1>5. r \in Seq(S) /\ Len(r) = n + 1
  BY <1>1, <1>3, <1>4
<1>6. \A i \in 1 .. n : r[i] = f[i]
  BY <1>1, <1>3, <1>4
<1>7. r[n + 1] = e
  BY <1>1, <1>3, <1>4
<1> QED BY <1>5, <1>6, <1>7

LEMMA AppendedOne ==
    ASSUME NEW S, NEW q \in Seq(S), NEW e \in S, NEW r, r = Append(q, e)
    PROVE  /\ Len(q) \in Nat /\ Len(r) = Len(q) + 1
           /\ \A j \in 1 .. Len(q) : r[j] = q[j]
           /\ r[Len(r)] = e
OBVIOUS

LEMMA TailOf ==
    ASSUME NEW S, NEW q \in Seq(S), q # << >>, NEW r, r = Tail(q)
    PROVE  /\ r \in Seq(S) /\ Len(r) \in Nat /\ Len(q) = Len(r) + 1
           /\ \A i \in 1 .. Len(r) : r[i] = q[i + 1]
           /\ r = << >> <=> Len(r) = 0
<1>1. r \in Seq(S) /\ Len(r) \in Nat /\ Len(q) = Len(r) + 1
      /\ \A i \in 1 .. Len(r) : r[i] = q[i + 1]
  OBVIOUS
<1>2. r = << >> => Len(r) = 0
  OBVIOUS
<1>3. r # << >> => Len(r) # 0
  BY <1>1, NotEmpty
<1> QED BY <1>1, <1>2, <1>3

LEMMA OneShorter ==
    ASSUME NEW q, NEW r, Len(r) \in Nat, Len(q) = Len(r) + 1, Len(q) = 1
    PROVE  Len(r) = 0 /\ \A i \in 1 .. Len(r) : FALSE
<1>1. Len(r) + 1 = 1
  OBVIOUS
<1>2. \A n \in Nat : n + 1 = 1 => n = 0
  OBVIOUS
<1>3. Len(r) = 0
  BY <1>1, <1>2
<1> QED BY <1>3

----------------------------------------------------------------------------
(***************************************************************************)
(* What the library relies on while the object is not given up.            *)
(***************************************************************************)
SimpleTypes ==
    /\ portal \in BOOLEAN
    /\ step \in Chain \cup {"none", "start", "portal start"}
    /\ request \in {"none", step}
    /\ inbox \in Seq(Messages)
    /\ task \in {"pending", "ok", "error"}
    /\ cached \in [location : 0 .. MaxLocations, active : BOOLEAN]
    /\ asked \in Seq(1 .. MaxLocations)
    /\ location \in 0 .. MaxLocations
    /\ waiting \in BOOLEAN /\ listening \in BOOLEAN /\ response \in BOOLEAN
    /\ astray \in BOOLEAN /\ failed \in BOOLEAN
    /\ service \in [location : 0 .. MaxLocations, active : BOOLEAN,
                    suspended : BOOLEAN, changed : BOOLEAN, responding : BOOLEAN]

OnWay(kind) == \E i \in 1 .. Len(inbox) : inbox[i].kind = kind

(* No location has come of the service, nor is one to come before it turns *)
(* active.                                                                 *)
Untold ==
    /\ service.location = NoLocation /\ ~service.active /\ ~service.suspended
    /\ ~OnWay("location-updated")

Fresh ==
    /\ Untold /\ ~service.changed
    /\ asked = << >>
    /\ location = NoLocation /\ cached.location = NoLocation
    /\ ~failed

(* In the chain there is the one call, or its answer, and no answer after  *)
(* it.                                                                     *)
ChainInv ==
    /\ request # "none" => inbox = << >> /\ Fresh
    /\ step \in Chain =>
          /\ Fresh /\ ~waiting /\ task = "pending" /\ ~response
          /\ portal <=> step \in {"portal proxy", "create session"}
          /\ step = "create session" => listening
          /\ request = "none" => Len(inbox) = 1 /\ inbox[1].kind = "answer"
    /\ step = "none" => ~OnWay("answer")

(* Only locations come before the answer to Start, and their proxies after *)
(* it, so that the task is still there for its callback.                   *)
StartInv ==
    step = "start" =>
       /\ ~portal /\ waiting /\ listening /\ cached.location = NoLocation
       /\ request = "none" =>
             \E k \in 1 .. Len(inbox) :
                /\ inbox[k].kind = "answer"
                /\ \A i \in 1 .. Len(inbox) :
                      /\ i < k => inbox[i].kind = "location-updated"
                      /\ i > k => inbox[i].kind # "answer"

(* With the portal nothing comes before the answer, nor any location       *)
(* before the user has decided.                                            *)
PortalStartInv ==
    step = "portal start" =>
       /\ portal /\ waiting /\ listening /\ response
       /\ request = "none" =>
             /\ inbox # << >> /\ inbox[1].kind = "answer"
             /\ \A i \in 1 .. Len(inbox) : i > 1 => inbox[i].kind # "answer"
             /\ ~inbox[1].ok => Len(inbox) = 1 /\ Untold /\ ~service.responding

PortalInv ==
    /\ portal =>
          /\ asked = << >> /\ ~failed /\ ~service.changed /\ ~service.suspended
          /\ ~OnWay("proxy") /\ ~OnWay("properties")
    /\ ~portal => ~service.responding /\ ~OnWay("response") /\ ~response
    /\ service.responding \/ OnWay("response") =>
          /\ waiting /\ response /\ listening
          /\ request = "none" /\ step \in {"none", "portal start"}
    /\ service.responding => Untold /\ ~OnWay("response")
    /\ \A i \in 1 .. Len(inbox) :
          inbox[i].kind = "response" =>
             /\ \A j \in 1 .. Len(inbox) : j < i => inbox[j].kind = "answer"
             /\ ~inbox[i].ok => Untold

(* The newest location is that of the last signal on its way, else that of *)
(* the last proxy being made, else the one that is shown.                  *)
NewsInv ==
    /\ service.active \/ service.suspended \/ OnWay("location-updated") => listening
    /\ \A i \in 1 .. Len(inbox) :
          inbox[i].kind = "location-updated" =>
             /\ inbox[i].location # NoLocation
             /\ \/ inbox[i].location = service.location
                \/ \E j \in 1 .. Len(inbox) :
                      j > i /\ inbox[j].kind = "location-updated"
    /\ ~OnWay("location-updated") =>
          IF asked = << >> THEN failed \/ location = service.location
          ELSE asked[Len(asked)] = service.location

(* The answers about proxies are those of the first ones asked for.        *)
ProxyInv ==
    /\ Cardinality(Proxies(inbox, Len(inbox))) <= Len(asked)
    /\ \A i \in Proxies(inbox, Len(inbox)) :
          inbox[i].location = asked[Cardinality(Proxies(inbox, i))]

TaskInv ==
    /\ waiting => task = "pending"
    /\ task = "ok" => location # NoLocation

SimpleInv ==
    /\ ChainInv /\ StartInv /\ PortalStartInv /\ PortalInv
    /\ NewsInv /\ ProxyInv /\ TaskInv

(* Before the object is made nothing is under way. *)
AtRest ==
    /\ step = "none" /\ inbox = << >> /\ Fresh
    /\ ~waiting /\ task = "pending" /\ ~listening /\ ~response
    /\ ~service.responding

ProgramInv ==
    /\ SimpleTypes
    /\ TaskAnsweredOnce
    /\ loop = "before" => AtRest
    /\ ~dropped => SimpleInv
    /\ holds => ~dropped /\ task = "ok"

----------------------------------------------------------------------------
(***************************************************************************)
(* What the other side does.                                               *)
(***************************************************************************)
LEMMA Queues ==
    ASSUME SimpleTypes
    PROVE  /\ inbox \in Seq(Messages) /\ Len(inbox) \in Nat
           /\ \A i \in 1 .. Len(inbox) : inbox[i] \in Messages
           /\ asked \in Seq(1 .. MaxLocations) /\ Len(asked) \in Nat
           /\ \A i \in 1 .. Len(asked) : asked[i] \in 1 .. MaxLocations
<1>1. inbox \in Seq(Messages) /\ asked \in Seq(1 .. MaxLocations)
  BY DEF SimpleTypes
<1> QED BY <1>1, ElementsOf

LEMMA Sent ==
    ASSUME SimpleTypes, NEW m \in Messages, inbox' = Append(inbox, m)
    PROVE  /\ inbox' \in Seq(Messages) /\ Len(inbox) \in Nat
           /\ Len(inbox') = Len(inbox) + 1
           /\ \A i \in 1 .. Len(inbox) : inbox'[i] = inbox[i]
           /\ inbox'[Len(inbox) + 1] = m
           /\ \A kind : OnWay(kind)' <=> OnWay(kind) \/ m.kind = kind
<1>1. inbox \in Seq(Messages)
  BY DEF SimpleTypes
<1>2. /\ inbox' \in Seq(Messages) /\ Len(inbox) \in Nat
      /\ Len(inbox') = Len(inbox) + 1
      /\ \A i \in 1 .. Len(inbox) : inbox'[i] = inbox[i]
      /\ inbox'[Len(inbox) + 1] = m
  BY <1>1, OneAdded
<1>3. ASSUME NEW kind PROVE OnWay(kind)' <=> OnWay(kind) \/ m.kind = kind
  <2>1. \A i \in 1 .. Len(inbox') : i \in 1 .. Len(inbox) \/ i = Len(inbox) + 1
    BY <1>2
  <2>2. 1 .. Len(inbox) \subseteq 1 .. Len(inbox') /\ Len(inbox) + 1 \in 1 .. Len(inbox')
    BY <1>2
  <2> QED BY <1>2, <2>1, <2>2 DEF OnWay
<1> QED BY <1>2, <1>3

LEMMA SentNoProxy ==
    ASSUME SimpleTypes, ProxyInv, NEW m \in Messages, inbox' = Append(inbox, m),
           m.kind # "proxy", asked' = asked
    PROVE  ProxyInv'
<1>0. inbox \in Seq(Messages)
  BY DEF SimpleTypes
<1>1. Len(inbox) \in Nat
  BY <1>0
<1>a. /\ \A i \in 1 .. Len(inbox) : inbox'[i] = inbox[i]
      /\ inbox'[Len(inbox) + 1] = m /\ Len(inbox') = Len(inbox) + 1
  BY <1>0, OneAdded
<1>c. ASSUME NEW n \in 0 .. Len(inbox)
      PROVE  Proxies(inbox', n) = Proxies(inbox, n)
  <2>1. n \in Nat /\ \A i \in 1 .. n : inbox'[i] = inbox[i]
    BY <1>1, <1>a
  <2> QED BY <2>1, ProxiesSame
<1>b. Cardinality(Proxies(inbox', Len(inbox'))) =
           IF m.kind = "proxy" THEN Cardinality(Proxies(inbox, Len(inbox))) + 1
           ELSE Cardinality(Proxies(inbox, Len(inbox)))
  BY <1>0, OneAdded
<1>2. /\ \A i \in 1 .. Len(inbox) : inbox'[i] = inbox[i]
      /\ inbox'[Len(inbox) + 1] = m /\ Len(inbox') = Len(inbox) + 1
      /\ \A n \in 0 .. Len(inbox) : Proxies(inbox', n) = Proxies(inbox, n)
      /\ Cardinality(Proxies(inbox', Len(inbox'))) = Cardinality(Proxies(inbox, Len(inbox)))
  BY <1>a, <1>b, <1>c
<1>3. ASSUME NEW i \in Proxies(inbox', Len(inbox'))
      PROVE  inbox'[i].location = asked'[Cardinality(Proxies(inbox', i))]
  <2>1. i \in 1 .. Len(inbox) + 1 /\ inbox'[i].kind = "proxy"
    BY <1>2 DEF Proxies
  <2>2. i \in 1 .. Len(inbox)
    BY <1>1, <1>2, <2>1
  <2>3. i \in Proxies(inbox, Len(inbox))
    BY <1>2, <2>1, <2>2 DEF Proxies
  <2>4. Proxies(inbox', i) = Proxies(inbox, i) /\ inbox'[i] = inbox[i]
    BY <1>1, <1>2, <2>2
  <2> QED BY <2>3, <2>4 DEF ProxyInv
<1>4. Cardinality(Proxies(inbox', Len(inbox'))) <= Len(asked')
  BY <1>2 DEF ProxyInv
<1> QED BY <1>3, <1>4 DEF ProxyInv

LEMMA AnswersChainKeeps ==
    ASSUME SimpleTypes, SimpleInv, NEW ok \in BOOLEAN, AnswersChain(ok)
    PROVE  SimpleInv'
<1> DEFINE m == Message("answer", ok, NoLocation)
<1> USE DEF SimpleInv
<1>1. m \in Messages /\ m.kind = "answer" /\ m.ok = ok
  BY MessageIs, SimpleAssumption DEF Kinds, NoLocation
<1>2. inbox = << >> /\ Fresh /\ step = request /\ step # "none" /\ step # "start"
  BY DEF AnswersChain, ChainInv, SimpleTypes
<1>3. inbox' = Append(inbox, m) /\ request' = "none" /\ asked' = asked
  BY DEF AnswersChain
<1>4. /\ service'.location = service.location /\ service'.active = service.active
      /\ service'.suspended = service.suspended
      /\ service'.changed = service.changed
      /\ service'.responding = (request = "portal start" /\ ok)
  BY DEF AnswersChain, SimpleTypes
<1>5. UNCHANGED <<portal, step, waiting, task, listening, cached, response, location,
                  astray, failed>>
  BY DEF AnswersChain, libraryVars
<1> HIDE DEF m
<1>6. Len(inbox) = 0 /\ Len(inbox') = 1 /\ inbox'[1] = m
  BY <1>1, <1>2, <1>3, Sent
<1>7. \A kind : OnWay(kind)' <=> kind = "answer"
  <2>1. \A kind : ~OnWay(kind)
    BY <1>6 DEF OnWay
  <2> QED BY <1>1, <1>3, <2>1, Sent
<1>8. Untold' /\ Fresh'
  BY <1>2, <1>3, <1>4, <1>5, <1>7 DEF Untold, Fresh
<1>9. ChainInv'
  BY <1>1, <1>2, <1>3, <1>5, <1>6, <1>8 DEF ChainInv
<1>10. StartInv'
  BY <1>2, <1>5 DEF StartInv
<1>11. PortalStartInv'
  <2>1. inbox' # << >>
    BY <1>6
  <2>2. ~inbox'[1].ok => ~service'.responding
    BY <1>1, <1>4, <1>6
  <2>3. \A i \in 1 .. Len(inbox') : ~(i > 1)
    BY <1>6
  <2>4. inbox'[1].kind = "answer"
    BY <1>1, <1>6
  <2>5. step = "portal start" => portal /\ waiting /\ listening /\ response
    BY DEF PortalStartInv
  <2>6. step' = "portal start" => portal' /\ waiting' /\ listening' /\ response'
    BY <2>5, <1>5
  <2> QED BY <1>6, <1>8, <2>1, <2>2, <2>3, <2>4, <2>6 DEF PortalStartInv
<1>12. PortalInv'
  <2>1. service'.responding => step = "portal start"
    BY <1>2, <1>4
  <2>2. \A i \in 1 .. Len(inbox') : inbox'[i].kind # "response"
    BY <1>1, <1>6
  <2>3. step = "portal start" => portal /\ waiting /\ response /\ listening
    BY DEF PortalStartInv
  <2>4. portal' => asked' = << >> /\ ~failed' /\ ~service'.changed /\ ~service'.suspended
    BY <1>3, <1>4, <1>5 DEF PortalInv
  <2>5. ~portal' => ~service'.responding /\ ~response'
    BY <1>5, <2>1, <2>3 DEF PortalInv
  <2>6. ~OnWay("proxy")' /\ ~OnWay("properties")' /\ ~OnWay("response")'
    BY <1>7
  <2>7. service'.responding => /\ waiting' /\ response' /\ listening'
                               /\ request' = "none" /\ step' = "portal start"
    BY <1>3, <1>5, <2>1, <2>3
  <2> QED BY <1>8, <2>2, <2>4, <2>5, <2>6, <2>7 DEF PortalInv
<1>13. NewsInv'
  <2>1. \A i \in 1 .. Len(inbox') : inbox'[i].kind # "location-updated"
    BY <1>1, <1>6
  <2>2. asked' = << >> /\ location' = service'.location
        /\ ~service'.active /\ ~service'.suspended
    BY <1>8 DEF Fresh, Untold
  <2>3. ~OnWay("location-updated")'
    BY <1>7
  <2> QED BY <2>1, <2>2, <2>3 DEF NewsInv
<1>14. ProxyInv'
  BY <1>1, <1>3, SentNoProxy
<1>15. TaskInv'
  BY <1>5 DEF TaskInv
<1> QED BY <1>9, <1>10, <1>11, <1>12, <1>13, <1>14, <1>15

LEMMA RefusesStartKeeps ==
    ASSUME SimpleTypes, SimpleInv, RefusesStart
    PROVE  SimpleInv'
<1> DEFINE m == Message("answer", FALSE, NoLocation)
<1> USE DEF SimpleInv
<1>1. m \in Messages /\ m.kind = "answer"
  BY SimpleAssumption DEF Kinds, NoLocation, Message, Messages
<1>2. inbox = << >> /\ Fresh /\ step = "start"
  BY DEF RefusesStart, ChainInv, SimpleTypes
<1>3. inbox' = Append(inbox, m) /\ request' = "none" /\ asked' = asked
      /\ service' = service
  BY DEF RefusesStart
<1>5. UNCHANGED <<portal, step, waiting, task, listening, cached, response, location,
                  astray, failed>>
  BY DEF RefusesStart, libraryVars
<1> HIDE DEF m
<1>6. Len(inbox) = 0 /\ Len(inbox') = 1 /\ inbox'[1] = m
  BY <1>1, <1>2, <1>3, Sent
<1>7. \A kind : OnWay(kind)' <=> kind = "answer"
  <2>1. \A kind : ~OnWay(kind)
    BY <1>6 DEF OnWay
  <2> QED BY <1>1, <1>3, <2>1, Sent
<1>8. Untold' /\ Fresh'
  BY <1>2, <1>3, <1>5, <1>7 DEF Untold, Fresh
<1>9. ChainInv'
  BY <1>2, <1>3, <1>5 DEF ChainInv, Chain
<1>10. StartInv'
  BY <1>1, <1>2, <1>3, <1>5, <1>6 DEF StartInv
<1>11. PortalStartInv'
  BY <1>2, <1>5 DEF PortalStartInv
<1>12. PortalInv'
  BY <1>1, <1>2, <1>3, <1>5, <1>6, <1>7, <1>8 DEF PortalInv, StartInv
<1>13. NewsInv'
  BY <1>1, <1>2, <1>3, <1>5, <1>6, <1>7, <1>8 DEF NewsInv, Fresh, Untold
<1>14. ProxyInv'
  BY <1>1, <1>3, SentNoProxy
<1>15. TaskInv'
  BY <1>5 DEF TaskInv
<1> QED BY <1>9, <1>10, <1>11, <1>12, <1>13, <1>14, <1>15

(* Once the answer to Start is on its way others may follow it.            *)
LEMMA SentLater ==
    ASSUME SimpleTypes, SimpleInv, NEW m \in Messages, inbox' = Append(inbox, m),
           m.kind # "answer", request = "none", step \notin Chain,
           UNCHANGED <<portal, step, request, waiting, listening, cached>>
    PROVE  ChainInv' /\ StartInv'
<1> USE DEF SimpleInv
<1>1. /\ Len(inbox) \in Nat /\ Len(inbox') = Len(inbox) + 1
      /\ \A i \in 1 .. Len(inbox) : inbox'[i] = inbox[i]
      /\ inbox'[Len(inbox) + 1] = m
  BY Sent
<1>2. OnWay("answer")' <=> OnWay("answer")
  BY Sent
<1>3. ChainInv'
  BY <1>2 DEF ChainInv
<1>4. StartInv'
  <2> SUFFICES ASSUME step' = "start" PROVE StartInv'
    BY DEF StartInv
  <2>1. /\ ~portal' /\ waiting' /\ listening' /\ cached'.location = NoLocation
    BY DEF StartInv
  <2>2. PICK k \in 1 .. Len(inbox) :
          /\ inbox[k].kind = "answer"
          /\ \A i \in 1 .. Len(inbox) :
                /\ i < k => inbox[i].kind = "location-updated"
                /\ i > k => inbox[i].kind # "answer"
    BY DEF StartInv
  <2>3. k \in 1 .. Len(inbox') /\ inbox'[k].kind = "answer"
    BY <1>1, <2>2
  <2>4. ASSUME NEW i \in 1 .. Len(inbox')
        PROVE  /\ i < k => inbox'[i].kind = "location-updated"
               /\ i > k => inbox'[i].kind # "answer"
    <3>1. CASE i \in 1 .. Len(inbox)
      BY <1>1, <2>2, <3>1
    <3>2. CASE i = Len(inbox) + 1
      BY <1>1, <2>2, <3>2
    <3> QED BY <1>1, <3>1, <3>2
  <2> QED BY <2>1, <2>3, <2>4 DEF StartInv
<1> QED BY <1>3, <1>4

LEMMA ActiveLater ==
    ASSUME SimpleTypes, SimpleInv,
           \/ service.active \/ service.suspended \/ service.changed
           \/ service.responding \/ asked # << >>
    PROVE  request = "none" /\ step \notin Chain
BY DEF SimpleInv, ChainInv, PortalInv, Fresh, Untold, Chain

LEMMA ServiceUpdatesKeeps ==
    ASSUME SimpleTypes, SimpleInv, ServiceUpdates
    PROVE  SimpleInv'
<1> DEFINE m == Message("location-updated", TRUE, service.location + 1)
<1> USE DEF SimpleInv
<1>0. service.location \in 0 .. MaxLocations /\ service.location < MaxLocations
  BY DEF ServiceUpdates, SimpleTypes
<1>1. /\ m \in Messages /\ m.kind = "location-updated"
      /\ m.location = service.location + 1 /\ m.location # NoLocation
  <2>1. service.location + 1 \in 0 .. MaxLocations /\ service.location + 1 # 0
    BY <1>0, SimpleAssumption
  <2> QED BY <2>1 DEF Kinds, NoLocation, Message, Messages
<1>2. inbox' = Append(inbox, m) /\ request' = request /\ asked' = asked
  BY DEF ServiceUpdates
<1>3. /\ service'.location = service.location + 1 /\ service'.active = service.active
      /\ service'.suspended = service.suspended
      /\ service'.changed = ~portal
      /\ service'.responding = service.responding
  BY DEF ServiceUpdates, SimpleTypes
<1>4. UNCHANGED <<portal, step, waiting, task, listening, cached, response, location,
                  astray, failed>>
  BY DEF ServiceUpdates, libraryVars
<1>5. service.active
  BY DEF ServiceUpdates
<1> HIDE DEF m
<1>6. request = "none" /\ step \notin Chain
  BY <1>5, ActiveLater
<1>7. /\ Len(inbox) \in Nat /\ Len(inbox') = Len(inbox) + 1
      /\ \A i \in 1 .. Len(inbox) : inbox'[i] = inbox[i]
      /\ inbox'[Len(inbox) + 1] = m
  BY <1>1, <1>2, Sent
<1>8. \A kind : OnWay(kind)' <=> OnWay(kind) \/ kind = "location-updated"
  BY <1>1, <1>2, Sent
<1>9. ChainInv' /\ StartInv'
  BY <1>1, <1>2, <1>4, <1>6, SentLater
<1>10. ~Untold
  BY <1>5 DEF Untold
<1>11. PortalStartInv'
  <2> SUFFICES ASSUME step' = "portal start" PROVE PortalStartInv'
    BY DEF PortalStartInv
  <2>1. portal' /\ waiting' /\ listening' /\ response'
    BY <1>4 DEF PortalStartInv
  <2>0. step = "portal start" /\ portal
    BY <1>4, <2>1
  <2>2. /\ inbox # << >> /\ inbox[1].kind = "answer"
        /\ \A i \in 1 .. Len(inbox) : i > 1 => inbox[i].kind # "answer"
        /\ ~inbox[1].ok => Untold
    BY <1>6, <2>0 DEF PortalStartInv
  <2>3. inbox[1].ok
    BY <1>10, <2>2, Zenon
  <2>4. 1 \in 1 .. Len(inbox)
    <3>1. inbox \in Seq(Messages) /\ inbox # << >>
      BY <2>2 DEF SimpleTypes
    <3> QED BY <3>1, NotEmpty
  <2>5. inbox'[1] = inbox[1] /\ inbox' # << >>
    BY <1>7, <2>4, OneLonger
  <2>6. ASSUME NEW i \in 1 .. Len(inbox'), i > 1 PROVE inbox'[i].kind # "answer"
    <3>1. CASE i \in 1 .. Len(inbox)
      BY <1>7, <2>2, <2>6, <3>1
    <3>2. CASE i = Len(inbox) + 1
      BY <1>1, <1>7, <3>2
    <3>3. i \in 1 .. Len(inbox) \/ i = Len(inbox) + 1
      BY <1>7, OneLonger
    <3> QED BY <3>1, <3>2, <3>3
  <2> QED BY <2>1, <2>2, <2>3, <2>5, <2>6 DEF PortalStartInv
<1>12. PortalInv'
  <2>1. ~service'.responding
    BY <1>3, <1>10 DEF PortalInv
  <2>2. portal' => asked' = << >> /\ ~failed' /\ ~service'.changed /\ ~service'.suspended
    BY <1>2, <1>3, <1>4 DEF PortalInv
  <2>3. /\ portal' => ~OnWay("proxy")' /\ ~OnWay("properties")'
        /\ ~portal' => ~OnWay("response")' /\ ~response'
        /\ OnWay("response")' => /\ waiting' /\ response' /\ listening'
                                  /\ request' = "none" /\ step' \in {"none", "portal start"}
    BY <1>2, <1>4, <1>8 DEF PortalInv
  <2>4. ASSUME NEW i \in 1 .. Len(inbox'), inbox'[i].kind = "response"
        PROVE  /\ \A j \in 1 .. Len(inbox') : j < i => inbox'[j].kind = "answer"
               /\ inbox'[i].ok
    <3>1. i \in 1 .. Len(inbox) /\ inbox'[i] = inbox[i]
      BY <1>1, <1>7, <2>4
    <3>2. /\ \A j \in 1 .. Len(inbox) : j < i => inbox[j].kind = "answer"
          /\ inbox[i].ok
      BY <1>10, <2>4, <3>1 DEF PortalInv
    <3> QED BY <1>7, <3>1, <3>2
  <2> QED BY <2>1, <2>2, <2>3, <2>4 DEF PortalInv
<1>13. NewsInv'
  <2>1. listening'
    BY <1>4, <1>5 DEF NewsInv
  <2>2. OnWay("location-updated")'
    BY <1>8
  <2>3. ASSUME NEW i \in 1 .. Len(inbox'), inbox'[i].kind = "location-updated"
        PROVE  /\ inbox'[i].location # NoLocation
               /\ \/ inbox'[i].location = service'.location
                  \/ \E j \in 1 .. Len(inbox') :
                        j > i /\ inbox'[j].kind = "location-updated"
    <3>1. CASE i \in 1 .. Len(inbox)
      <4>1. Len(inbox) + 1 \in 1 .. Len(inbox') /\ Len(inbox) + 1 > i
        BY <1>7, <3>1
      <4> QED BY <1>1, <1>7, <2>3, <3>1, <4>1 DEF NewsInv
    <3>2. CASE i = Len(inbox) + 1
      BY <1>1, <1>3, <1>7, <3>2
    <3> QED BY <1>7, <3>1, <3>2
  <2> QED BY <2>1, <2>2, <2>3 DEF NewsInv
<1>14. ProxyInv'
  BY <1>1, <1>2, SentNoProxy
<1>15. TaskInv'
  BY <1>4 DEF TaskInv
<1> QED BY <1>9, <1>11, <1>12, <1>13, <1>14, <1>15

LEMMA ServiceSuspendsKeeps ==
    ASSUME SimpleTypes, SimpleInv, ServiceSuspends
    PROVE  SimpleInv'
<1> USE DEF SimpleInv
<1>1. UNCHANGED <<portal, step, request, waiting, task, listening, cached, response,
                  location, astray, failed, inbox, asked>>
  BY DEF ServiceSuspends, libraryVars
<1>2. ~portal /\ service.active /\ request = "none" /\ step \notin Chain
  BY ActiveLater DEF ServiceSuspends
<1>3. /\ service'.location = service.location /\ ~service'.active
      /\ service'.responding = service.responding
  BY DEF ServiceSuspends, SimpleTypes
<1>4. \A kind : OnWay(kind)' <=> OnWay(kind)
  BY <1>1 DEF OnWay
<1>5. ChainInv'
  BY <1>1, <1>2, <1>4 DEF ChainInv
<1>6. StartInv' /\ PortalStartInv'
  BY <1>1, <1>2 DEF StartInv, PortalStartInv
<1>7. PortalInv'
  <2>1. ~service'.responding /\ ~OnWay("response")' /\ ~response'
    BY <1>1, <1>2, <1>3, <1>4 DEF PortalInv
  <2>2. \A i \in 1 .. Len(inbox') : inbox'[i].kind # "response"
    BY <2>1 DEF OnWay
  <2> QED BY <1>1, <1>2, <2>1, <2>2 DEF PortalInv
<1>8. NewsInv'
  BY <1>1, <1>2, <1>3, <1>4 DEF NewsInv
<1>9. ProxyInv' /\ TaskInv'
  BY <1>1 DEF ProxyInv, TaskInv
<1> QED BY <1>5, <1>6, <1>7, <1>8, <1>9

LEMMA ServiceResumesKeeps ==
    ASSUME SimpleTypes, SimpleInv, ServiceResumes
    PROVE  SimpleInv'
<1> USE DEF SimpleInv
<1>1. UNCHANGED <<portal, step, request, waiting, task, listening, cached, response,
                  location, astray, failed, inbox, asked>>
  BY DEF ServiceResumes, libraryVars
<1>2. ~portal /\ service.suspended /\ request = "none" /\ step \notin Chain
  BY ActiveLater DEF ServiceResumes, PortalInv
<1>3. /\ service'.location = service.location /\ ~service'.suspended
      /\ service'.responding = service.responding
  BY DEF ServiceResumes, SimpleTypes
<1>4. \A kind : OnWay(kind)' <=> OnWay(kind)
  BY <1>1 DEF OnWay
<1>5. ChainInv'
  BY <1>1, <1>2, <1>4 DEF ChainInv
<1>6. StartInv' /\ PortalStartInv'
  BY <1>1, <1>2 DEF StartInv, PortalStartInv
<1>7. PortalInv'
  <2>1. ~service'.responding /\ ~OnWay("response")' /\ ~response'
    BY <1>1, <1>2, <1>3, <1>4 DEF PortalInv
  <2>2. \A i \in 1 .. Len(inbox') : inbox'[i].kind # "response"
    BY <2>1 DEF OnWay
  <2> QED BY <1>1, <1>2, <2>1, <2>2 DEF PortalInv
<1>8. NewsInv'
  BY <1>1, <1>2, <1>3, <1>4 DEF NewsInv
<1>9. ProxyInv' /\ TaskInv'
  BY <1>1 DEF ProxyInv, TaskInv
<1> QED BY <1>5, <1>6, <1>7, <1>8, <1>9

(* What comes of the service besides locations and answers to the chain.   *)
LEMMA SentByService ==
    ASSUME SimpleTypes, SimpleInv, NEW m \in Messages, inbox' = Append(inbox, m),
           m.kind \in {"properties", "proxy"}, ~portal,
           request = "none", step \notin Chain,
           UNCHANGED <<libraryVars, request, asked>>,
           service'.location = service.location,
           service'.active = service.active,
           service'.suspended = service.suspended,
           service'.responding = service.responding
    PROVE  /\ ChainInv' /\ StartInv' /\ PortalStartInv' /\ PortalInv'
           /\ NewsInv' /\ TaskInv'
<1> USE DEF SimpleInv
<1>1. UNCHANGED <<portal, step, request, waiting, task, listening, cached, response,
                  location, astray, failed, asked>>
  BY DEF libraryVars
<1>2. /\ Len(inbox) \in Nat /\ Len(inbox') = Len(inbox) + 1
      /\ \A i \in 1 .. Len(inbox) : inbox'[i] = inbox[i]
      /\ inbox'[Len(inbox) + 1] = m
  BY Sent
<1>3. \A kind : OnWay(kind)' <=> OnWay(kind) \/ m.kind = kind
  BY Sent
<1>4. ChainInv' /\ StartInv'
  BY <1>1, SentLater
<1>5. PortalStartInv'
  BY <1>1 DEF PortalStartInv
<1>6. PortalInv'
  <2>1. ~service'.responding /\ ~response'
    BY <1>1 DEF PortalInv
  <2>2. ~OnWay("response")'
    BY <1>3 DEF PortalInv
  <2>3. \A i \in 1 .. Len(inbox') : inbox'[i].kind # "response"
    BY <2>2 DEF OnWay
  <2> QED BY <1>1, <2>1, <2>2, <2>3 DEF PortalInv
<1>7. NewsInv'
  <2>1. OnWay("location-updated")' <=> OnWay("location-updated")
    BY <1>3
  <2>2. service'.active \/ service'.suspended \/ OnWay("location-updated")' => listening'
    BY <1>1, <2>1 DEF NewsInv
  <2>3. ASSUME NEW i \in 1 .. Len(inbox'), inbox'[i].kind = "location-updated"
        PROVE  /\ inbox'[i].location # NoLocation
               /\ \/ inbox'[i].location = service'.location
                  \/ \E j \in 1 .. Len(inbox') :
                        j > i /\ inbox'[j].kind = "location-updated"
    <3>1. i \in 1 .. Len(inbox) /\ inbox'[i] = inbox[i]
      <4>1. i # Len(inbox) + 1
        BY <1>2, <2>3
      <4>2. i \in 1 .. Len(inbox)
        BY <1>2, <4>1, OneLonger
      <4> QED BY <1>2, <4>2
    <3>2. /\ inbox[i].location # NoLocation
          /\ \/ inbox[i].location = service.location
             \/ \E j \in 1 .. Len(inbox) :
                   j > i /\ inbox[j].kind = "location-updated"
      BY <2>3, <3>1 DEF NewsInv
    <3>3. CASE inbox[i].location = service.location
      BY <3>1, <3>2, <3>3
    <3>4. ASSUME NEW j \in 1 .. Len(inbox), j > i, inbox[j].kind = "location-updated"
          PROVE  \E k \in 1 .. Len(inbox') :
                    k > i /\ inbox'[k].kind = "location-updated"
      <4>1. j \in 1 .. Len(inbox') /\ inbox'[j] = inbox[j]
        BY <1>2, OneLonger
      <4> QED BY <3>4, <4>1
    <3> QED BY <3>1, <3>2, <3>3, <3>4
  <2>4. ~OnWay("location-updated")' =>
           IF asked' = << >> THEN failed' \/ location' = service'.location
           ELSE asked'[Len(asked')] = service'.location
    BY <1>1, <2>1 DEF NewsInv
  <2> QED BY <2>2, <2>3, <2>4 DEF NewsInv
<1>8. TaskInv'
  BY <1>1 DEF TaskInv
<1> QED BY <1>4, <1>5, <1>6, <1>7, <1>8

LEMMA ServiceAnnouncesKeeps ==
    ASSUME SimpleTypes, SimpleInv, ServiceAnnounces
    PROVE  SimpleInv'
<1> DEFINE m == Message("properties", service.active, service.location)
<1>1. m \in Messages /\ m.kind = "properties"
  BY DEF Kinds, Message, Messages, SimpleTypes
<1>2. inbox' = Append(inbox, m) /\ UNCHANGED <<libraryVars, request, asked>>
  BY DEF ServiceAnnounces
<1>3. /\ service'.location = service.location /\ service'.active = service.active
      /\ service'.suspended = service.suspended
      /\ service'.responding = service.responding
  BY DEF ServiceAnnounces, SimpleTypes
<1>4. ~portal /\ request = "none" /\ step \notin Chain
  BY ActiveLater DEF ServiceAnnounces, SimpleInv, PortalInv
<1> HIDE DEF m
<1>5. ChainInv' /\ StartInv' /\ PortalStartInv' /\ PortalInv' /\ NewsInv' /\ TaskInv'
  BY <1>1, <1>2, <1>3, <1>4, SentByService
<1>6. ProxyInv'
  BY <1>1, <1>2, SentNoProxy DEF SimpleInv
<1> QED BY <1>5, <1>6 DEF SimpleInv

LEMMA AnswersProxyKeeps ==
    ASSUME SimpleTypes, SimpleInv, NEW ok \in BOOLEAN, AnswersProxy(ok)
    PROVE  SimpleInv'
<1> DEFINE n == Cardinality(Proxies(inbox, Len(inbox)))
           m == Message("proxy", ok, asked[n + 1])
<1>1. inbox \in Seq(Messages) /\ Len(inbox) \in Nat
  BY Queues
<1>2. n = Answered /\ n \in Nat /\ n < Len(asked)
  <2>1. Proxies(inbox, Len(inbox)) = {i \in 1 .. Len(inbox) : inbox[i].kind = "proxy"}
    BY DEF Proxies
  <2>2. n = Answered
    BY <2>1 DEF Answered
  <2>3. n \in Nat
    BY <1>1, ProxiesFinite
  <2> QED BY <2>2, <2>3 DEF AnswersProxy
<1>3. Len(asked) \in Nat /\ asked # << >>
  <2>1. Len(asked) \in Nat
    BY Queues
  <2>2. Len(asked) # 0
    BY <1>2, <2>1
  <2> QED BY <2>1, <2>2
<1>4. asked[n + 1] \in 0 .. MaxLocations
  <2>1. n + 1 \in 1 .. Len(asked)
    BY <1>2, <1>3
  <2>2. asked[n + 1] \in 1 .. MaxLocations
    BY <2>1, Queues
  <2> QED BY <2>2
<1>5. m \in Messages /\ m.kind = "proxy" /\ m.location = asked[n + 1]
  BY <1>4 DEF Kinds, Message, Messages
<1>6. /\ inbox' = Append(inbox, m)
      /\ UNCHANGED <<libraryVars, request, asked>> /\ service' = service
  BY <1>2 DEF AnswersProxy
<1>7. ~portal /\ request = "none" /\ step \notin Chain
  BY <1>3, ActiveLater DEF SimpleInv, PortalInv
<1> HIDE DEF m, n
<1>8. ChainInv' /\ StartInv' /\ PortalStartInv' /\ PortalInv' /\ NewsInv' /\ TaskInv'
  BY <1>5, <1>6, <1>7, SentByService
<1>9. ProxyInv'
  <2>1. /\ \A i \in 1 .. Len(inbox) : inbox'[i] = inbox[i]
        /\ inbox'[Len(inbox) + 1] = m /\ Len(inbox') = Len(inbox) + 1
    BY <1>1, <1>5, <1>6, OneAdded
  <2>2. Cardinality(Proxies(inbox', Len(inbox'))) = n + 1
    <3>1. Cardinality(Proxies(inbox', Len(inbox'))) =
            IF m.kind = "proxy" THEN Cardinality(Proxies(inbox, Len(inbox))) + 1
            ELSE Cardinality(Proxies(inbox, Len(inbox)))
      <4>1. inbox' = Append(inbox, m)
        BY <1>6
      <4>2. inbox \in Seq(Messages)
        BY <1>1
      <4>3. m \in Messages
        BY <1>5
      <4> QED BY <4>1, <4>2, <4>3, OneAdded
    <3> QED BY <1>5, <3>1 DEF n
  <2>3. ASSUME NEW i \in Proxies(inbox', Len(inbox'))
        PROVE  inbox'[i].location = asked'[Cardinality(Proxies(inbox', i))]
    <3>1. i \in 1 .. Len(inbox') /\ inbox'[i].kind = "proxy"
      BY DEF Proxies
    <3>2. CASE i \in 1 .. Len(inbox)
      <4>1. inbox'[i] = inbox[i] /\ i \in Proxies(inbox, Len(inbox))
        BY <2>1, <3>1, <3>2 DEF Proxies
      <4>2. i \in Nat /\ \A j \in 1 .. i : inbox'[j] = inbox[j]
        BY <1>1, <2>1, <3>2
      <4>3. Proxies(inbox', i) = Proxies(inbox, i)
        BY <4>2, ProxiesSame
      <4> QED BY <1>6, <4>1, <4>3 DEF SimpleInv, ProxyInv
    <3>3. CASE i = Len(inbox) + 1
      <4>1. inbox'[i].location = asked[n + 1] /\ i = Len(inbox')
        BY <1>5, <2>1, <3>3
      <4> QED BY <1>6, <2>2, <4>1
    <3> QED BY <1>1, <2>1, <3>1, <3>2, <3>3, OneLonger
  <2>4. Cardinality(Proxies(inbox', Len(inbox'))) <= Len(asked')
    BY <1>2, <1>3, <1>6, <2>2
  <2> QED BY <2>3, <2>4 DEF ProxyInv
<1> QED BY <1>8, <1>9 DEF SimpleInv

LEMMA PortalDecidesKeeps ==
    ASSUME SimpleTypes, SimpleInv, NEW ok \in BOOLEAN, PortalDecides(ok)
    PROVE  SimpleInv'
<1> DEFINE m == Message("response", ok, NoLocation)
<1> USE DEF SimpleInv
<1>1. m \in Messages /\ m.kind = "response" /\ m.ok = ok
  BY MessageIs, SimpleAssumption DEF Kinds, NoLocation
<1>2. inbox' = Append(inbox, m) /\ request' = request /\ asked' = asked
  BY DEF PortalDecides
<1>3. /\ service'.location = service.location /\ service'.active = ok
      /\ service'.suspended = service.suspended
      /\ service'.changed = service.changed /\ service'.responding = FALSE
  BY DEF PortalDecides, SimpleTypes
<1>4. UNCHANGED <<portal, step, waiting, task, listening, cached, response, location,
                  astray, failed>>
  BY DEF PortalDecides, libraryVars
<1>5. service.responding
  BY DEF PortalDecides
<1> HIDE DEF m
<1>6. /\ portal /\ Untold /\ ~OnWay("response") /\ ~OnWay("proxy") /\ ~OnWay("properties")
      /\ waiting /\ response /\ listening /\ request = "none"
      /\ step \in {"none", "portal start"}
      /\ asked = << >> /\ ~failed /\ ~service.changed
  BY <1>5 DEF PortalInv
<1>7. /\ Len(inbox) \in Nat /\ Len(inbox') = Len(inbox) + 1
      /\ \A i \in 1 .. Len(inbox) : inbox'[i] = inbox[i]
      /\ inbox'[Len(inbox) + 1] = m
  BY <1>1, <1>2, Sent
<1>8. \A kind : OnWay(kind)' <=> OnWay(kind) \/ kind = "response"
  BY <1>1, <1>2, Sent
<1>9. ChainInv' /\ StartInv'
  BY <1>1, <1>2, <1>4, <1>6, SentLater DEF Chain
<1>10. \A i \in 1 .. Len(inbox) : inbox[i].kind = "answer"
  <2> SUFFICES ASSUME NEW i \in 1 .. Len(inbox) PROVE inbox[i].kind = "answer"
    OBVIOUS
  <2>1. inbox[i].kind \in Kinds
    <3>1. inbox[i] \in Messages
      BY Queues
    <3> QED BY <3>1 DEF Messages
  <2>2. inbox[i].kind \notin {"response", "proxy", "properties", "location-updated"}
    BY <1>6 DEF OnWay, Untold
  <2> QED BY <2>1, <2>2 DEF Kinds
<1>11. PortalStartInv'
  <2> SUFFICES ASSUME step' = "portal start" PROVE PortalStartInv'
    BY DEF PortalStartInv
  <2>0. step = "portal start"
    BY <1>4
  <2>1. portal' /\ waiting' /\ listening' /\ response'
    BY <1>4, <1>6
  <2>2. /\ inbox # << >> /\ inbox[1].kind = "answer"
        /\ \A i \in 1 .. Len(inbox) : i > 1 => inbox[i].kind # "answer"
        /\ ~inbox[1].ok => ~service.responding
    BY <1>6, <2>0 DEF PortalStartInv
  <2>3. inbox[1].ok
    BY <1>5, <2>2, Zenon
  <2>4. 1 \in 1 .. Len(inbox)
    <3>1. inbox \in Seq(Messages) /\ inbox # << >>
      BY <2>2 DEF SimpleTypes
    <3> QED BY <3>1, NotEmpty
  <2>5. inbox'[1] = inbox[1] /\ inbox' # << >>
    BY <1>7, <2>4, OneLonger
  <2>6. ASSUME NEW i \in 1 .. Len(inbox'), i > 1 PROVE inbox'[i].kind # "answer"
    <3>1. CASE i \in 1 .. Len(inbox)
      BY <1>7, <2>2, <2>6, <3>1
    <3>2. CASE i = Len(inbox) + 1
      BY <1>1, <1>7, <3>2
    <3>3. i \in 1 .. Len(inbox) \/ i = Len(inbox) + 1
      BY <1>7, OneLonger
    <3> QED BY <3>1, <3>2, <3>3
  <2> QED BY <2>1, <2>2, <2>3, <2>5, <2>6 DEF PortalStartInv
<1>12. ~ok => Untold'
  BY <1>3, <1>6, <1>8 DEF Untold
<1>13. PortalInv'
  <2>1. ~OnWay("proxy")' /\ ~OnWay("properties")'
    BY <1>6, <1>8
  <2>2. /\ waiting' /\ response' /\ listening' /\ request' = "none"
        /\ step' \in {"none", "portal start"} /\ portal'
        /\ asked' = << >> /\ ~failed' /\ ~service'.changed
        /\ ~service'.suspended /\ ~service'.responding
    BY <1>2, <1>3, <1>4, <1>6 DEF Untold
  <2>3. ASSUME NEW i \in 1 .. Len(inbox'), inbox'[i].kind = "response"
        PROVE  /\ \A j \in 1 .. Len(inbox') : j < i => inbox'[j].kind = "answer"
               /\ ~inbox'[i].ok => Untold'
    <3>1. i = Len(inbox) + 1
      BY <1>7, <1>10, <2>3, OneLonger
    <3>2. \A j \in 1 .. Len(inbox') : j < i => inbox'[j].kind = "answer"
      BY <1>7, <1>10, <3>1, OneLonger
    <3> QED BY <1>1, <1>7, <1>12, <3>1, <3>2
  <2> QED BY <2>1, <2>2, <2>3 DEF PortalInv
<1>14. NewsInv'
  <2>1. ~OnWay("location-updated")'
    BY <1>6, <1>8 DEF Untold
  <2>2. \A i \in 1 .. Len(inbox') : inbox'[i].kind # "location-updated"
    BY <2>1 DEF OnWay
  <2>3. location' = service'.location
    BY <1>3, <1>4, <1>6 DEF NewsInv, Untold
  <2>4. listening' /\ asked' = << >>
    BY <1>2, <1>4, <1>6
  <2> QED BY <2>1, <2>2, <2>3, <2>4 DEF NewsInv
<1>15. ProxyInv'
  BY <1>1, <1>2, SentNoProxy
<1>16. TaskInv'
  BY <1>4 DEF TaskInv
<1> QED BY <1>9, <1>11, <1>13, <1>14, <1>15, <1>16

LEMMA AnswersStartKeeps ==
    ASSUME SimpleTypes, SimpleInv, AnswersStart
    PROVE  SimpleInv' /\ inbox' \in Seq(Messages)
           /\ service'.location \in 0 .. MaxLocations
<1> USE DEF SimpleInv
<1>1. PICK n \in {k \in 0 .. 2 : k <= MaxLocations} :
        /\ inbox' = inbox
              \o [i \in 1 .. n |-> Message("location-updated", TRUE, i)]
              \o <<Message("answer", TRUE, NoLocation)>>
        /\ service' = [service EXCEPT !.location = n, !.active = TRUE,
                                      !.changed = TRUE]
  BY DEF AnswersStart
<1>2. n \in Nat /\ n \in 0 .. MaxLocations
  BY SimpleAssumption
<1> DEFINE f == [i \in 1 .. n |-> Message("location-updated", TRUE, i)]
           m == Message("answer", TRUE, NoLocation)
<1>3. m \in Messages /\ m.kind = "answer" /\ m.ok
  BY SimpleAssumption DEF Kinds, NoLocation, Message, Messages
<1>4. /\ f \in [1 .. n -> Messages]
      /\ \A i \in 1 .. n : f[i].kind = "location-updated" /\ f[i].location = i
  <2>1. \A i \in 1 .. n : i \in 0 .. MaxLocations
    BY <1>2, SimpleAssumption
  <2> QED BY <2>1 DEF Kinds, Message, Messages
<1>5. inbox = << >> /\ Fresh /\ step = "start"
  BY DEF AnswersStart, ChainInv, SimpleTypes
<1>6. inbox' = << >> \o f \o <<m>>
  BY <1>1, <1>5
<1>7. /\ service'.location = n /\ service'.active /\ service'.changed
      /\ service'.responding = service.responding
  BY <1>1 DEF SimpleTypes
<1>8. /\ request' = "none" /\ asked' = asked
      /\ UNCHANGED <<portal, step, waiting, task, listening, cached, response,
                     location, astray, failed>>
  BY DEF AnswersStart, libraryVars
<1> HIDE DEF f, m
<1>9. /\ inbox' \in Seq(Messages) /\ Len(inbox') = n + 1
      /\ \A i \in 1 .. n : inbox'[i] = f[i]
      /\ inbox'[n + 1] = m
  BY <1>2, <1>3, <1>4, <1>6, PutTogether
<1>10. /\ \A i \in 1 .. Len(inbox') : i \in 1 .. n \/ i = n + 1
       /\ \A i \in 1 .. n : i \in 1 .. Len(inbox')
       /\ n + 1 \in 1 .. Len(inbox')
  BY <1>2, <1>9
<1>11. \A i \in 1 .. n : /\ inbox'[i].kind = "location-updated"
                         /\ inbox'[i].location = i
  BY <1>4, <1>9
<1>12. inbox'[n + 1].kind = "answer"
  BY <1>3, <1>9
<1>13. \A i \in 1 .. Len(inbox') : inbox'[i].kind \in {"location-updated", "answer"}
  BY <1>10, <1>11, <1>12
<1>14. ~portal /\ waiting /\ listening /\ cached.location = NoLocation
  BY <1>5 DEF StartInv
<1>15. ChainInv'
  BY <1>5, <1>8 DEF ChainInv, Chain
<1>16. StartInv'
  <2>1. \A i \in 1 .. Len(inbox') : /\ i < n + 1 => inbox'[i].kind = "location-updated"
                                    /\ ~(i > n + 1)
    BY <1>2, <1>10, <1>11
  <2> QED BY <1>8, <1>10, <1>12, <1>14, <2>1 DEF StartInv
<1>17. PortalStartInv'
  BY <1>5, <1>8 DEF PortalStartInv
<1>18. PortalInv'
  <2>1. ~service'.responding /\ ~response' /\ ~portal'
    BY <1>7, <1>8, <1>14 DEF PortalInv
  <2>2. \A i \in 1 .. Len(inbox') : inbox'[i].kind # "response"
    BY <1>13
  <2>3. ~OnWay("response")'
    BY <2>2 DEF OnWay
  <2> QED BY <2>1, <2>2, <2>3 DEF PortalInv
<1>19. NewsInv'
  <2>1. listening' /\ asked' = << >> /\ location' = 0
    BY <1>5, <1>8, <1>14 DEF Fresh, NoLocation
  <2>2. ASSUME NEW i \in 1 .. Len(inbox'), inbox'[i].kind = "location-updated"
        PROVE  /\ inbox'[i].location # NoLocation
               /\ \/ inbox'[i].location = service'.location
                  \/ \E j \in 1 .. Len(inbox') :
                        j > i /\ inbox'[j].kind = "location-updated"
    <3>1. i \in 1 .. n
      BY <1>10, <1>12, <2>2
    <3>2. inbox'[i].location = i /\ i # 0
      BY <1>11, <3>1
    <3>3. CASE i = n
      BY <1>7, <3>2, <3>3 DEF NoLocation
    <3>4. CASE i # n
      <4>1. n \in 1 .. n /\ n > i
        BY <1>2, <3>1, <3>4
      <4>2. n \in 1 .. Len(inbox') /\ inbox'[n].kind = "location-updated"
        BY <1>10, <1>11, <4>1
      <4> QED BY <3>2, <4>1, <4>2 DEF NoLocation
    <3> QED BY <3>3, <3>4
  <2>3. CASE n = 0
    BY <1>7, <2>1, <2>2, <2>3 DEF NewsInv
  <2>4. CASE n # 0
    <3>1. n \in 1 .. n
      BY <1>2, <2>4
    <3>2. OnWay("location-updated")'
      BY <1>10, <1>11, <3>1 DEF OnWay
    <3> QED BY <2>1, <2>2, <3>2 DEF NewsInv
  <2> QED BY <2>3, <2>4
<1>20. ProxyInv'
  <2>1. Len(inbox') \in Nat /\ \A i \in 1 .. Len(inbox') : inbox'[i].kind # "proxy"
    BY <1>2, <1>9, <1>13
  <2>2. Cardinality(Proxies(inbox', Len(inbox'))) = 0
    BY <2>1, ProxiesNone
  <2>3. Proxies(inbox', Len(inbox')) = {}
    BY <2>1 DEF Proxies
  <2>4. Len(asked') = 0
    BY <1>5, <1>8 DEF Fresh
  <2> QED BY <2>2, <2>3, <2>4 DEF ProxyInv
<1>21. TaskInv'
  BY <1>8 DEF TaskInv
<1> QED BY <1>2, <1>7, <1>9, <1>15, <1>16, <1>17, <1>18, <1>19, <1>20, <1>21

LEMMA EnvironmentKeeps ==
    ASSUME SimpleTypes, SimpleInv, Environment
    PROVE  SimpleInv'
BY AnswersChainKeeps, PortalDecidesKeeps, AnswersProxyKeeps, AnswersStartKeeps,
   RefusesStartKeeps, ServiceUpdatesKeeps, ServiceSuspendsKeeps, ServiceResumesKeeps,
   ServiceAnnouncesKeeps
   DEF Environment

LEMMA SentTypes ==
    ASSUME SimpleTypes, NEW m \in Messages, inbox' = Append(inbox, m),
           UNCHANGED <<libraryVars, asked>>, request' \in {"none", request},
           service' \in [location : 0 .. MaxLocations, active : BOOLEAN,
                         suspended : BOOLEAN, changed : BOOLEAN, responding : BOOLEAN]
    PROVE  SimpleTypes'
<1>1. inbox' \in Seq(Messages)
  BY Sent
<1> QED BY <1>1 DEF SimpleTypes, libraryVars

LEMMA EnvironmentTypes ==
    ASSUME SimpleTypes, Environment
    PROVE  SimpleTypes' /\ UNCHANGED libraryVars
<1> DEFINE Service == [location : 0 .. MaxLocations, active : BOOLEAN,
                       suspended : BOOLEAN, changed : BOOLEAN, responding : BOOLEAN]
<1>1. service \in Service
  BY DEF SimpleTypes
<1>2. ASSUME NEW ok \in BOOLEAN, AnswersChain(ok) PROVE SimpleTypes'
  <2>1. Message("answer", ok, NoLocation) \in Messages
    BY SimpleAssumption DEF Kinds, NoLocation, Message, Messages
  <2>2. service' \in Service
    BY <1>1, <1>2 DEF AnswersChain
  <2> QED BY <1>2, <2>1, <2>2, SentTypes DEF AnswersChain
<1>3. ASSUME NEW ok \in BOOLEAN, PortalDecides(ok) PROVE SimpleTypes'
  <2>1. Message("response", ok, NoLocation) \in Messages
    BY SimpleAssumption DEF Kinds, NoLocation, Message, Messages
  <2>2. service' \in Service
    BY <1>1, <1>3 DEF PortalDecides
  <2> QED BY <1>3, <2>1, <2>2, SentTypes DEF PortalDecides
<1>4. ASSUME NEW ok \in BOOLEAN, AnswersProxy(ok) PROVE SimpleTypes'
  <2>1. Answered + 1 \in 1 .. Len(asked)
    <3>1. Answered = Cardinality(Proxies(inbox, Len(inbox)))
      BY DEF Answered, Proxies
    <3>2. Answered \in Nat
      BY <3>1, ProxiesFinite, Queues
    <3> QED BY <1>4, <3>2, Queues DEF AnswersProxy
  <2>2. asked[Answered + 1] \in 0 .. MaxLocations
    <3>1. asked[Answered + 1] \in 1 .. MaxLocations
      BY <2>1, Queues
    <3> QED BY <3>1
  <2>3. Message("proxy", ok, asked[Answered + 1]) \in Messages
    BY <2>2 DEF Kinds, Message, Messages
  <2> QED BY <1>1, <1>4, <2>3, SentTypes DEF AnswersProxy
<1>5. ASSUME AnswersStart PROVE SimpleTypes'
  <2>1. PICK n \in {k \in 0 .. 2 : k <= MaxLocations} :
          /\ inbox' = inbox
                \o [i \in 1 .. n |-> Message("location-updated", TRUE, i)]
                \o <<Message("answer", TRUE, NoLocation)>>
          /\ service' = [service EXCEPT !.location = n, !.active = TRUE,
                                        !.changed = TRUE]
    BY <1>5 DEF AnswersStart
  <2>2. n \in Nat /\ n \in 0 .. MaxLocations
    BY SimpleAssumption
  <2>3. service' \in Service
    BY <1>1, <2>1, <2>2
  <2> DEFINE f == [i \in 1 .. n |-> Message("location-updated", TRUE, i)]
             m == Message("answer", TRUE, NoLocation)
  <2>4. m \in Messages
    BY SimpleAssumption DEF Kinds, NoLocation, Message, Messages
  <2>5. f \in [1 .. n -> Messages]
    <3>1. \A i \in 1 .. n : i \in 0 .. MaxLocations
      BY <2>2, SimpleAssumption
    <3> QED BY <3>1 DEF Kinds, Message, Messages
  <2>6. inbox' = inbox \o f \o <<m>>
    BY <2>1
  <2> HIDE DEF f, m
  <2>7. inbox' \in Seq(Messages)
    <3>1. f \in Seq(Messages) /\ <<m>> \in Seq(Messages) /\ inbox \in Seq(Messages)
      BY <2>2, <2>4, <2>5, Queues
    <3>2. inbox \o f \in Seq(Messages)
      BY <3>1
    <3> QED BY <2>6, <3>1, <3>2
  <2> QED BY <1>5, <2>3, <2>7 DEF SimpleTypes, AnswersStart, libraryVars
<1>6. ASSUME RefusesStart PROVE SimpleTypes'
  <2>1. Message("answer", FALSE, NoLocation) \in Messages
    BY SimpleAssumption DEF Kinds, NoLocation, Message, Messages
  <2> QED BY <1>1, <1>6, <2>1, SentTypes DEF RefusesStart
<1>7. ASSUME ServiceUpdates PROVE SimpleTypes'
  <2>1. service.location + 1 \in 0 .. MaxLocations
    BY <1>1, <1>7, SimpleAssumption DEF ServiceUpdates
  <2>2. Message("location-updated", TRUE, service.location + 1) \in Messages
    BY <2>1 DEF Kinds, Message, Messages
  <2>3. service' \in Service
    <3>1. portal \in BOOLEAN
      BY DEF SimpleTypes
    <3> QED BY <1>1, <1>7, <2>1, <3>1 DEF ServiceUpdates
  <2> QED BY <1>7, <2>2, <2>3, SentTypes DEF ServiceUpdates
<1>8. ASSUME ServiceSuspends PROVE SimpleTypes'
  <2>1. service' \in Service
    BY <1>1, <1>8 DEF ServiceSuspends
  <2> QED BY <1>8, <2>1 DEF SimpleTypes, ServiceSuspends, libraryVars
<1>8a. ASSUME ServiceResumes PROVE SimpleTypes'
  <2>1. service' \in Service
    BY <1>1, <1>8a DEF ServiceResumes
  <2> QED BY <1>8a, <2>1 DEF SimpleTypes, ServiceResumes, libraryVars
<1>9. ASSUME ServiceAnnounces PROVE SimpleTypes'
  <2>1. Message("properties", service.active, service.location) \in Messages
    BY <1>1 DEF Kinds, Message, Messages
  <2>2. service' \in Service
    BY <1>1, <1>9 DEF ServiceAnnounces
  <2> QED BY <1>9, <2>1, <2>2, SentTypes DEF ServiceAnnounces
<1>10. SimpleTypes'
  BY <1>2, <1>3, <1>4, <1>5, <1>6, <1>7, <1>8, <1>8a, <1>9
     DEF Environment
<1>11. UNCHANGED libraryVars
  BY DEF Environment, AnswersChain, PortalDecides, AnswersProxy, AnswersStart,
         RefusesStart, ServiceUpdates, ServiceSuspends, ServiceResumes,
         ServiceAnnounces
<1> QED BY <1>10, <1>11

----------------------------------------------------------------------------
(***************************************************************************)
(* What the library does with the first message.                           *)
(***************************************************************************)
LEMMA Taken ==
    ASSUME SimpleTypes, inbox # << >>, inbox' = Tail(inbox)
    PROVE  /\ inbox' \in Seq(Messages) /\ Len(inbox') \in Nat
           /\ Len(inbox) = Len(inbox') + 1
           /\ Head(inbox) = inbox[1] /\ inbox[1] \in Messages
           /\ 1 \in 1 .. Len(inbox)
           /\ \A i \in 1 .. Len(inbox') :
                 inbox'[i] = inbox[i + 1] /\ i + 1 \in 1 .. Len(inbox)
           /\ \A i \in 1 .. Len(inbox) :
                 i > 1 => i - 1 \in 1 .. Len(inbox') /\ inbox'[i - 1] = inbox[i]
           /\ \A kind : OnWay(kind) <=> OnWay(kind)' \/ inbox[1].kind = kind
<1>1. inbox \in Seq(Messages)
  BY Queues
<1>2. /\ inbox' \in Seq(Messages) /\ Len(inbox') \in Nat
      /\ Len(inbox) = Len(inbox') + 1
      /\ inbox[1] \in Messages /\ Head(inbox) = inbox[1]
      /\ \A i \in 1 .. Len(inbox') :
            inbox'[i] = inbox[i + 1] /\ i + 1 \in 1 .. Len(inbox)
  BY <1>1, OneTaken
<1>3. 1 \in 1 .. Len(inbox)
  BY <1>2
<1>4. ASSUME NEW i \in 1 .. Len(inbox), i > 1
      PROVE  i - 1 \in 1 .. Len(inbox') /\ inbox'[i - 1] = inbox[i]
  <2>1. i - 1 \in 1 .. Len(inbox') /\ (i - 1) + 1 = i
    BY <1>2, <1>4
  <2>2. inbox'[i - 1] = inbox[(i - 1) + 1]
    BY <1>2, <2>1
  <2> QED BY <2>1, <2>2
<1>5. ASSUME NEW kind PROVE OnWay(kind) <=> OnWay(kind)' \/ inbox[1].kind = kind
  <2>1. ASSUME NEW i \in 1 .. Len(inbox), inbox[i].kind = kind
        PROVE  OnWay(kind)' \/ inbox[1].kind = kind
    <3>1. CASE i = 1
      BY <2>1, <3>1
    <3>2. CASE i > 1
      BY <1>4, <2>1, <3>2 DEF OnWay
    <3> QED BY <3>1, <3>2
  <2>2. OnWay(kind)' => OnWay(kind)
    BY <1>2 DEF OnWay
  <2>3. inbox[1].kind = kind => OnWay(kind)
    BY <1>3 DEF OnWay
  <2> QED BY <2>1, <2>2, <2>3 DEF OnWay
<1> QED BY <1>2, <1>3, <1>4, <1>5

(* An answer about a proxy is about one asked for.                         *)
LEMMA ProxyPlace ==
    ASSUME SimpleTypes, ProxyInv, NEW i \in Proxies(inbox, Len(inbox))
    PROVE  Cardinality(Proxies(inbox, i)) \in 1 .. Len(asked)
<1>1. Len(inbox) \in Nat /\ Len(asked) \in Nat
  BY Queues
<1>2. i \in 1 .. Len(inbox) /\ inbox[i].kind = "proxy"
  BY DEF Proxies
<1>3. i \in Nat
  BY <1>1, <1>2
<1>4. IsFiniteSet(Proxies(inbox, i)) /\ Cardinality(Proxies(inbox, i)) \in Nat
  BY <1>3, ProxiesFinite
<1>5. Cardinality(Proxies(inbox, i)) # 0
  <2>1. i \in Proxies(inbox, i)
    BY <1>2, <1>3 DEF Proxies
  <2> QED BY <1>4, <2>1, FS_EmptySet
<1>6. Cardinality(Proxies(inbox, i)) <= Cardinality(Proxies(inbox, Len(inbox)))
  <2>1. Proxies(inbox, i) \in SUBSET Proxies(inbox, Len(inbox))
    BY <1>1, <1>2 DEF Proxies
  <2>2. IsFiniteSet(Proxies(inbox, Len(inbox)))
    BY <1>1, ProxiesFinite
  <2> QED BY <2>1, <2>2, FS_Subset
<1>7. Cardinality(Proxies(inbox, Len(inbox))) \in Nat
  BY <1>1, ProxiesFinite
<1>8. Cardinality(Proxies(inbox, Len(inbox))) <= Len(asked)
  BY DEF ProxyInv
<1> QED BY <1>1, <1>4, <1>5, <1>6, <1>7, <1>8

(* The proxies that are answered keep their places.                        *)
LEMMA TakenNoProxy ==
    ASSUME SimpleTypes, ProxyInv, inbox # << >>, inbox' = Tail(inbox),
           inbox[1].kind # "proxy",
           Len(asked') \in Nat, Len(asked) <= Len(asked'),
           \A j \in 1 .. Len(asked) : asked'[j] = asked[j]
    PROVE  ProxyInv'
<1>1. inbox \in Seq(Messages) /\ Len(asked) \in Nat
  BY Queues
<1>2. /\ Len(inbox') \in Nat /\ Len(inbox) = Len(inbox') + 1
      /\ \A i \in 1 .. Len(inbox') :
            inbox'[i] = inbox[i + 1] /\ i + 1 \in 1 .. Len(inbox)
  BY Taken
<1>3. \A n \in 0 .. Len(inbox') :
         Cardinality(Proxies(inbox, n + 1)) =
           IF inbox[1].kind = "proxy" THEN Cardinality(Proxies(inbox', n)) + 1
           ELSE Cardinality(Proxies(inbox', n))
  BY <1>1, OneTaken
<1>4. \A n \in 0 .. Len(inbox') :
         Cardinality(Proxies(inbox, n + 1)) = Cardinality(Proxies(inbox', n))
  BY <1>3
<1>5. Cardinality(Proxies(inbox', Len(inbox'))) = Cardinality(Proxies(inbox, Len(inbox)))
  BY <1>2, <1>4
<1>6. Cardinality(Proxies(inbox', Len(inbox'))) <= Len(asked')
  <2>1. Cardinality(Proxies(inbox, Len(inbox))) \in Nat
    BY <1>2, ProxiesFinite
  <2>2. Cardinality(Proxies(inbox, Len(inbox))) <= Len(asked)
    BY DEF ProxyInv
  <2> QED BY <1>1, <1>5, <2>1, <2>2
<1>7. ASSUME NEW i \in Proxies(inbox', Len(inbox'))
      PROVE  inbox'[i].location = asked'[Cardinality(Proxies(inbox', i))]
  <2>1. i \in 1 .. Len(inbox') /\ inbox'[i].kind = "proxy"
    BY DEF Proxies
  <2>2. inbox'[i] = inbox[i + 1] /\ i + 1 \in Proxies(inbox, Len(inbox))
    BY <1>2, <2>1 DEF Proxies
  <2>3. Cardinality(Proxies(inbox, i + 1)) = Cardinality(Proxies(inbox', i))
    BY <1>2, <1>4, <2>1
  <2>4. inbox[i + 1].location = asked[Cardinality(Proxies(inbox, i + 1))]
    BY <2>2 DEF ProxyInv
  <2>5. Cardinality(Proxies(inbox, i + 1)) \in 1 .. Len(asked)
    BY <1>1, <2>2, ProxyPlace
  <2> QED BY <2>2, <2>3, <2>4, <2>5
<1> QED BY <1>6, <1>7 DEF ProxyInv

(* The first of them is that of the first location asked for.              *)
LEMMA TakenProxy ==
    ASSUME SimpleTypes, ProxyInv, inbox # << >>, inbox' = Tail(inbox),
           inbox[1].kind = "proxy", asked' = Tail(asked)
    PROVE  /\ ProxyInv'
           /\ asked # << >> /\ inbox[1].location = asked[1]
<1>1. inbox \in Seq(Messages) /\ Len(asked) \in Nat
      /\ asked \in Seq(1 .. MaxLocations)
  BY Queues
<1>2. /\ Len(inbox') \in Nat /\ Len(inbox) = Len(inbox') + 1
      /\ 1 \in 1 .. Len(inbox)
      /\ \A i \in 1 .. Len(inbox') :
            inbox'[i] = inbox[i + 1] /\ i + 1 \in 1 .. Len(inbox)
  BY Taken
<1>3. \A n \in 0 .. Len(inbox') :
         Cardinality(Proxies(inbox, n + 1)) =
           IF inbox[1].kind = "proxy" THEN Cardinality(Proxies(inbox', n)) + 1
           ELSE Cardinality(Proxies(inbox', n))
  BY <1>1, OneTaken
<1>4. \A n \in 0 .. Len(inbox') :
         Cardinality(Proxies(inbox, n + 1)) = Cardinality(Proxies(inbox', n)) + 1
  BY <1>3
<1>5. Cardinality(Proxies(inbox', Len(inbox'))) + 1 = Cardinality(Proxies(inbox, Len(inbox)))
  BY <1>2, <1>4
<1>6. 1 \in Proxies(inbox, Len(inbox))
  BY <1>2 DEF Proxies
<1>7. Cardinality(Proxies(inbox, 1)) = 1
  <2>1. Cardinality(Proxies(inbox, 0 + 1)) = Cardinality(Proxies(inbox', 0)) + 1
    BY <1>2, <1>4
  <2>2. \A i \in 1 .. 0 : inbox'[i].kind # "proxy"
    OBVIOUS
  <2>3. Cardinality(Proxies(inbox', 0)) = 0
    BY <2>2, ProxiesNone
  <2> QED BY <2>1, <2>3
<1>8. asked # << >> /\ inbox[1].location = asked[1]
  <2>1. 1 \in 1 .. Len(asked)
    BY <1>1, <1>6, <1>7, ProxyPlace
  <2>2. asked # << >>
    BY <2>1
  <2> QED BY <1>6, <1>7, <2>2 DEF ProxyInv
<1>9. /\ Len(asked) = Len(asked') + 1 /\ Len(asked') \in Nat
      /\ \A i \in 1 .. Len(asked') : asked'[i] = asked[i + 1]
  BY <1>1, <1>8
<1>10. Cardinality(Proxies(inbox', Len(inbox'))) <= Len(asked')
  <2>1. Cardinality(Proxies(inbox', Len(inbox'))) \in Nat
    BY <1>2, ProxiesFinite
  <2>2. Cardinality(Proxies(inbox, Len(inbox))) <= Len(asked)
    BY DEF ProxyInv
  <2> QED BY <1>1, <1>5, <1>9, <2>1, <2>2
<1>11. ASSUME NEW i \in Proxies(inbox', Len(inbox'))
       PROVE  inbox'[i].location = asked'[Cardinality(Proxies(inbox', i))]
  <2>1. i \in 1 .. Len(inbox') /\ inbox'[i].kind = "proxy"
    BY DEF Proxies
  <2>2. inbox'[i] = inbox[i + 1] /\ i + 1 \in Proxies(inbox, Len(inbox))
    BY <1>2, <2>1 DEF Proxies
  <2>3. Cardinality(Proxies(inbox, i + 1)) = Cardinality(Proxies(inbox', i)) + 1
    BY <1>2, <1>4, <2>1
  <2>4. inbox[i + 1].location = asked[Cardinality(Proxies(inbox, i + 1))]
    BY <2>2 DEF ProxyInv
  <2>5. Cardinality(Proxies(inbox, i + 1)) \in 1 .. Len(asked)
    BY <1>1, <2>2, ProxyPlace
  <2>6. Cardinality(Proxies(inbox', i)) \in Nat /\ Cardinality(Proxies(inbox', i)) # 0
    <3>1. i \in Nat /\ IsFiniteSet(Proxies(inbox', i))
          /\ Cardinality(Proxies(inbox', i)) \in Nat
      BY <1>2, <2>1, ProxiesFinite
    <3>2. i \in Proxies(inbox', i)
      BY <2>1 DEF Proxies
    <3> QED BY <3>1, <3>2, FS_EmptySet
  <2>7. Cardinality(Proxies(inbox', i)) \in 1 .. Len(asked')
    BY <1>1, <1>9, <2>3, <2>5, <2>6
  <2> QED BY <1>9, <2>2, <2>3, <2>4, <2>7
<1> QED BY <1>8, <1>10, <1>11 DEF ProxyInv

(* What follows the first message keeps its order.                         *)
LEMMA TakenOrder ==
    ASSUME SimpleTypes, NewsInv, PortalInv, inbox # << >>, inbox' = Tail(inbox),
           service' = service
    PROVE  /\ Untold => Untold'
           /\ service'.active \/ service'.suspended \/ OnWay("location-updated")'
                 => listening
           /\ \A i \in 1 .. Len(inbox') :
                 inbox'[i].kind = "location-updated" =>
                    /\ inbox'[i].location # NoLocation
                    /\ \/ inbox'[i].location = service'.location
                       \/ \E j \in 1 .. Len(inbox') :
                             j > i /\ inbox'[j].kind = "location-updated"
           /\ \A i \in 1 .. Len(inbox') :
                 inbox'[i].kind = "response" =>
                    /\ \A j \in 1 .. Len(inbox') : j < i => inbox'[j].kind = "answer"
                    /\ ~inbox'[i].ok => Untold'
<1>1. /\ Len(inbox') \in Nat /\ Len(inbox) = Len(inbox') + 1
      /\ \A i \in 1 .. Len(inbox') :
            inbox'[i] = inbox[i + 1] /\ i + 1 \in 1 .. Len(inbox)
      /\ \A i \in 1 .. Len(inbox) :
            i > 1 => i - 1 \in 1 .. Len(inbox') /\ inbox'[i - 1] = inbox[i]
  BY Taken
<1>2. \A kind : OnWay(kind) <=> OnWay(kind)' \/ inbox[1].kind = kind
  BY Taken
<1>3. Untold => Untold'
  BY <1>2 DEF Untold
<1>4. service'.active \/ service'.suspended \/ OnWay("location-updated")' => listening
  BY <1>2 DEF NewsInv
<1>5. ASSUME NEW i \in 1 .. Len(inbox'), inbox'[i].kind = "location-updated"
      PROVE  /\ inbox'[i].location # NoLocation
             /\ \/ inbox'[i].location = service'.location
                \/ \E j \in 1 .. Len(inbox') :
                      j > i /\ inbox'[j].kind = "location-updated"
  <2>1. inbox'[i] = inbox[i + 1] /\ i + 1 \in 1 .. Len(inbox)
    BY <1>1
  <2>2. /\ inbox[i + 1].location # NoLocation
        /\ \/ inbox[i + 1].location = service.location
           \/ \E j \in 1 .. Len(inbox) :
                 j > i + 1 /\ inbox[j].kind = "location-updated"
    BY <1>5, <2>1 DEF NewsInv
  <2>3. ASSUME NEW j \in 1 .. Len(inbox), j > i + 1, inbox[j].kind = "location-updated"
        PROVE  \E k \in 1 .. Len(inbox') :
                  k > i /\ inbox'[k].kind = "location-updated"
    <3>1. j > 1 /\ j - 1 > i
      BY <1>1, <2>3
    <3>2. j - 1 \in 1 .. Len(inbox') /\ inbox'[j - 1].kind = "location-updated"
      BY <1>1, <2>3, <3>1
    <3> QED BY <3>1, <3>2
  <2> QED BY <2>1, <2>2, <2>3
<1>6. ASSUME NEW i \in 1 .. Len(inbox'), inbox'[i].kind = "response"
      PROVE  /\ \A j \in 1 .. Len(inbox') : j < i => inbox'[j].kind = "answer"
             /\ ~inbox'[i].ok => Untold'
  <2>1. inbox'[i] = inbox[i + 1] /\ i + 1 \in 1 .. Len(inbox)
    BY <1>1
  <2>2. /\ \A j \in 1 .. Len(inbox) : j < i + 1 => inbox[j].kind = "answer"
        /\ ~inbox[i + 1].ok => Untold
    BY <1>6, <2>1 DEF PortalInv
  <2>3. ASSUME NEW j \in 1 .. Len(inbox'), j < i PROVE inbox'[j].kind = "answer"
    <3>1. inbox'[j] = inbox[j + 1] /\ j + 1 \in 1 .. Len(inbox)
      BY <1>1
    <3>2. j + 1 < i + 1
      BY <1>1, <2>3
    <3> QED BY <2>2, <3>1, <3>2
  <2>4. ~inbox'[i].ok => Untold'
    BY <1>3, <2>1, <2>2, Zenon
  <2> QED BY <2>3, <2>4
<1> QED BY <1>3, <1>4, <1>5, <1>6

(* In the chain the answer is all there is.                                *)
LEMMA ChainTaken ==
    ASSUME SimpleTypes, SimpleInv, step \in Chain, inbox # << >>, inbox' = Tail(inbox),
           UNCHANGED <<portal, cached, service, asked, location, failed>>,
           ~portal => ~response'
    PROVE  /\ inbox' = << >> /\ request = "none" /\ Fresh /\ Fresh'
           /\ ~waiting /\ task = "pending"
           /\ portal <=> step \in {"portal proxy", "create session"}
           /\ \A kind : ~OnWay(kind)'
           /\ PortalInv' /\ NewsInv' /\ ProxyInv'
<1> USE DEF SimpleInv
<1>1. /\ request = "none" /\ Fresh /\ Len(inbox) = 1 /\ inbox[1].kind = "answer"
      /\ ~waiting /\ task = "pending"
      /\ portal <=> step \in {"portal proxy", "create session"}
  BY DEF ChainInv
<1>2. /\ inbox' \in Seq(Messages) /\ Len(inbox') \in Nat /\ Len(inbox) = Len(inbox') + 1
  BY Taken
<1>3. Len(inbox') = 0 /\ inbox' = << >>
  <2>1. Len(inbox) = 1
    BY <1>1
  <2>2. Len(inbox') = 0
    BY <1>2, <2>1
  <2> QED BY <1>2, <2>2
<1>4. ASSUME NEW kind PROVE ~OnWay(kind)'
  <2>1. \A i \in 1 .. Len(inbox') : FALSE
    BY <1>3
  <2> QED BY <2>1 DEF OnWay
<1>5. Fresh'
  BY <1>1, <1>4 DEF Fresh, Untold
<1>6. ~service.responding
  BY DEF PortalInv, Chain
<1>7. PortalInv'
  <2>1. asked' = << >> /\ ~failed' /\ ~service'.changed /\ ~service'.suspended
    BY <1>1 DEF Fresh, Untold
  <2>2. \A i \in 1 .. Len(inbox') : FALSE
    BY <1>3
  <2>3. ~portal' => ~response'
    OBVIOUS
  <2> QED BY <1>4, <1>6, <2>1, <2>2, <2>3 DEF PortalInv
<1>8. NewsInv'
  <2>1. asked' = << >> /\ location' = service'.location
        /\ ~service'.active /\ ~service'.suspended
    BY <1>5 DEF Fresh, Untold
  <2>2. \A i \in 1 .. Len(inbox') : FALSE
    BY <1>3
  <2> QED BY <1>4, <2>1, <2>2 DEF NewsInv
<1>9. ProxyInv'
  <2>1. Len(asked') \in Nat /\ Len(asked) <= Len(asked')
        /\ \A j \in 1 .. Len(asked) : asked'[j] = asked[j]
    BY Queues
  <2> QED BY <1>1, <2>1, TakenNoProxy
<1> QED BY <1>1, <1>3, <1>4, <1>5, <1>7, <1>8, <1>9

LEMMA ChainBreaksKeeps ==
    ASSUME SimpleTypes, SimpleInv, inbox # << >>, inbox' = Tail(inbox),
           ChainBreaks(inbox[1]), UNCHANGED <<portal, cached, service>>
    PROVE  SimpleInv' /\ astray' = astray
<1>1. step \in Chain
  BY DEF ChainBreaks, Following, Chain
<1>2. UNCHANGED <<request, waiting, response, asked, location, astray, failed>>
      /\ step' = "none" /\ task' = "error"
  BY DEF ChainBreaks
<1>3. ~portal => ~response'
  BY <1>2 DEF SimpleInv, PortalInv
<1>4. /\ inbox' = << >> /\ request = "none" /\ Fresh' /\ ~waiting
      /\ \A kind : ~OnWay(kind)'
      /\ PortalInv' /\ NewsInv' /\ ProxyInv'
  BY <1>1, <1>2, <1>3, ChainTaken
<1>5. ChainInv'
  BY <1>2, <1>4 DEF ChainInv, Chain
<1>6. StartInv' /\ PortalStartInv' /\ TaskInv'
  BY <1>2, <1>4 DEF StartInv, PortalStartInv, TaskInv
<1> QED BY <1>2, <1>4, <1>5, <1>6 DEF SimpleInv

LEMMA ChainGoesOnKeeps ==
    ASSUME SimpleTypes, SimpleInv, inbox # << >>, inbox' = Tail(inbox),
           ChainGoesOn(inbox[1]), UNCHANGED <<portal, cached, service>>
    PROVE  SimpleInv' /\ astray' = astray
<1>1. step \in {"manager proxy", "get client", "portal proxy"} /\ step \in Chain
  BY DEF ChainGoesOn, Following, Chain
<1>2. /\ UNCHANGED <<waiting, task, response, asked, location, astray, failed>>
      /\ step' = Following[step] /\ request' = step'
      /\ listening' = (step = "portal proxy")
  BY DEF ChainGoesOn, Call
<1>3. /\ step = "manager proxy" => step' = "get client"
      /\ step = "get client" => step' = "client proxy"
      /\ step = "portal proxy" => step' = "create session"
  BY <1>1, <1>2 DEF Following
<1>4. ~response'
  BY <1>1, <1>2 DEF SimpleInv, ChainInv
<1>5. /\ inbox' = << >> /\ Fresh' /\ ~waiting /\ task = "pending"
      /\ portal <=> step \in {"portal proxy", "create session"}
      /\ PortalInv' /\ NewsInv' /\ ProxyInv'
  BY <1>1, <1>2, <1>4, ChainTaken
<1>6. ChainInv'
  <2>1. step' \in {"get client", "client proxy", "create session"}
    BY <1>1, <1>3
  <2>2. portal' <=> step' = "create session"
    BY <1>1, <1>3, <1>5
  <2>3. step' = "create session" => listening'
    BY <1>1, <1>2, <1>3
  <2> QED BY <1>2, <1>4, <1>5, <2>1, <2>2, <2>3 DEF ChainInv
<1>7. StartInv' /\ PortalStartInv' /\ TaskInv'
  BY <1>1, <1>2, <1>3, <1>5 DEF StartInv, PortalStartInv, TaskInv
<1> QED BY <1>2, <1>5, <1>6, <1>7 DEF SimpleInv

LEMMA ClientCreatedKeeps ==
    ASSUME SimpleTypes, SimpleInv, inbox # << >>, inbox' = Tail(inbox),
           ClientCreated(inbox[1]), UNCHANGED <<portal, cached, service>>
    PROVE  SimpleInv' /\ astray' = astray
<1>1. step = "client proxy" /\ step \in Chain
  BY DEF ClientCreated, Chain
<1>2. /\ UNCHANGED <<task, response, asked, location, astray, failed>>
      /\ waiting' = TRUE /\ listening' = TRUE /\ step' = "start" /\ request' = "start"
  BY DEF ClientCreated, Call
<1>3. ~response'
  BY <1>1, <1>2 DEF SimpleInv, ChainInv
<1>4. /\ inbox' = << >> /\ Fresh' /\ task = "pending" /\ ~portal
      /\ PortalInv' /\ NewsInv' /\ ProxyInv'
  <2>1. /\ inbox' = << >> /\ Fresh' /\ task = "pending"
        /\ portal <=> step \in {"portal proxy", "create session"}
        /\ PortalInv' /\ NewsInv' /\ ProxyInv'
    BY <1>1, <1>2, <1>3, ChainTaken
  <2> QED BY <1>1, <2>1
<1>5. ChainInv'
  BY <1>2, <1>4 DEF ChainInv, Chain
<1>6. StartInv'
  BY <1>2, <1>4 DEF StartInv, Fresh
<1>7. PortalStartInv' /\ TaskInv'
  BY <1>2, <1>4 DEF PortalStartInv, TaskInv
<1> QED BY <1>2, <1>4, <1>5, <1>6, <1>7 DEF SimpleInv

LEMMA SessionCreatedKeeps ==
    ASSUME SimpleTypes, SimpleInv, inbox # << >>, inbox' = Tail(inbox),
           SessionCreated(inbox[1]), UNCHANGED <<portal, cached, service>>
    PROVE  SimpleInv' /\ astray' = astray
<1>1. step = "create session" /\ step \in Chain
  BY DEF SessionCreated, Chain
<1>2. /\ UNCHANGED <<task, listening, asked, location, astray, failed>>
      /\ waiting' = TRUE /\ response' = TRUE
      /\ step' = "portal start" /\ request' = "portal start"
  BY DEF SessionCreated, Call
<1>3. portal /\ listening
  BY <1>1 DEF SimpleInv, ChainInv
<1>4. /\ inbox' = << >> /\ Fresh' /\ task = "pending"
      /\ PortalInv' /\ NewsInv' /\ ProxyInv'
  BY <1>1, <1>2, <1>3, ChainTaken
<1>5. ChainInv'
  BY <1>2, <1>4 DEF ChainInv, Chain
<1>6. PortalStartInv'
  BY <1>2, <1>3 DEF PortalStartInv
<1>7. StartInv' /\ TaskInv'
  BY <1>2, <1>4 DEF StartInv, TaskInv
<1> QED BY <1>2, <1>4, <1>5, <1>6, <1>7 DEF SimpleInv

(* Once updates are started only their answer changes the step.            *)
LEMMA NotAnswer ==
    ASSUME SimpleTypes, SimpleInv, inbox # << >>, inbox' = Tail(inbox),
           inbox[1].kind # "answer", UNCHANGED <<portal, step, request, service>>
    PROVE  /\ request = "none" /\ step \notin Chain /\ step # "portal start"
           /\ step = "start" => inbox[1].kind = "location-updated"
           /\ ChainInv' /\ PortalStartInv'
<1> USE DEF SimpleInv
<1>1. request = "none"
  BY DEF ChainInv
<1>2. step \notin Chain
  BY <1>1 DEF ChainInv
<1>3. step # "portal start"
  BY <1>1 DEF PortalStartInv
<1>4. ASSUME step = "start" PROVE inbox[1].kind = "location-updated"
  <2>1. PICK k \in 1 .. Len(inbox) :
          /\ inbox[k].kind = "answer"
          /\ \A i \in 1 .. Len(inbox) : i < k => inbox[i].kind = "location-updated"
    BY <1>1, <1>4 DEF StartInv
  <2>2. 1 \in 1 .. Len(inbox) /\ Len(inbox) \in Nat
    BY Taken, Queues
  <2>3. k # 1
    BY <2>1
  <2>4. 1 < k
    BY <2>2, <2>3
  <2> QED BY <2>1, <2>2, <2>4
<1>5. ChainInv'
  <2>1. OnWay("answer")' => OnWay("answer")
    BY Taken
  <2> QED BY <1>1, <1>2, <2>1 DEF ChainInv
<1>6. PortalStartInv'
  BY <1>3 DEF PortalStartInv
<1> QED BY <1>1, <1>2, <1>3, <1>4, <1>5, <1>6

(* What matters of the portal is of no interest to the service.            *)
LEMMA NoPortal ==
    ASSUME SimpleTypes, SimpleInv, inbox # << >>, inbox' = Tail(inbox), ~portal,
           UNCHANGED <<portal, service, response>>
    PROVE  PortalInv'
<1>1. ~response' /\ ~service'.responding /\ ~OnWay("response")
  BY DEF SimpleInv, PortalInv
<1>2. ~OnWay("response")'
  BY <1>1, Taken
<1>3. \A i \in 1 .. Len(inbox') : inbox'[i].kind # "response"
  BY <1>2 DEF OnWay
<1> QED BY <1>1, <1>2, <1>3 DEF PortalInv

LEMMA LocationUpdatedKeeps ==
    ASSUME SimpleTypes, SimpleInv, inbox # << >>, inbox' = Tail(inbox),
           LocationUpdated(inbox[1]), UNCHANGED <<portal, cached, service>>
    PROVE  SimpleInv' /\ astray' = astray
<1> USE DEF SimpleInv
<1>1. /\ inbox[1].kind = "location-updated" /\ ~portal
      /\ UNCHANGED <<step, request, waiting, task, listening, response, location,
                     astray, failed>>
      /\ asked' = IF inbox[1].location = NoLocation \/ ~listening
                  THEN asked ELSE Append(asked, inbox[1].location)
  BY DEF LocationUpdated
<1>2. /\ Len(inbox') \in Nat /\ Len(inbox) = Len(inbox') + 1 /\ 1 \in 1 .. Len(inbox)
      /\ \A i \in 1 .. Len(inbox) :
            i > 1 => i - 1 \in 1 .. Len(inbox') /\ inbox'[i - 1] = inbox[i]
      /\ inbox[1] \in Messages
  BY Taken
<1>3. OnWay("location-updated")
  BY <1>1, <1>2 DEF OnWay
<1>4. listening /\ inbox[1].location # NoLocation
  BY <1>1, <1>2, <1>3 DEF NewsInv
<1>5. asked' = Append(asked, inbox[1].location)
  BY <1>1, <1>4
<1>6. /\ Len(asked) \in Nat /\ Len(asked') = Len(asked) + 1
      /\ \A j \in 1 .. Len(asked) : asked'[j] = asked[j]
      /\ asked'[Len(asked')] = inbox[1].location
  <2>1. inbox[1].location \in 1 .. MaxLocations
    BY <1>2, <1>4 DEF Messages, NoLocation
  <2>2. asked \in Seq(1 .. MaxLocations)
    BY Queues
  <2> QED BY <1>5, <2>1, <2>2, AppendedOne
<1>7. ChainInv' /\ PortalStartInv' /\ request = "none"
  BY <1>1, NotAnswer
<1>8. StartInv'
  <2> SUFFICES ASSUME step' = "start" PROVE StartInv'
    BY DEF StartInv
  <2>1. step = "start"
    BY <1>1
  <2>2. ~portal' /\ waiting' /\ listening' /\ cached'.location = NoLocation
    BY <1>1, <2>1 DEF StartInv
  <2>3. PICK k \in 1 .. Len(inbox) :
          /\ inbox[k].kind = "answer"
          /\ \A i \in 1 .. Len(inbox) :
                /\ i < k => inbox[i].kind = "location-updated"
                /\ i > k => inbox[i].kind # "answer"
    BY <1>7, <2>1 DEF StartInv
  <2>4. k # 1
    BY <1>1, <2>3
  <2>5. k > 1
    BY <1>2, <2>4
  <2>6. k - 1 \in 1 .. Len(inbox') /\ inbox'[k - 1].kind = "answer"
    BY <1>2, <2>3, <2>5
  <2>7. ASSUME NEW i \in 1 .. Len(inbox')
        PROVE  /\ i < k - 1 => inbox'[i].kind = "location-updated"
               /\ i > k - 1 => inbox'[i].kind # "answer"
    <3>1. inbox'[i] = inbox[i + 1] /\ i + 1 \in 1 .. Len(inbox)
      BY Taken
    <3>2. (i < k - 1 => i + 1 < k) /\ (i > k - 1 => i + 1 > k)
      BY <1>2
    <3> QED BY <2>3, <3>1, <3>2
  <2> QED BY <2>2, <2>6, <2>7 DEF StartInv
<1>9. PortalInv'
  BY <1>1, NoPortal
<1>10. NewsInv'
  <2>1. ASSUME ~OnWay("location-updated")'
        PROVE  asked' # << >> /\ asked'[Len(asked')] = service'.location
    <3>1. ~ \E j \in 1 .. Len(inbox) : j > 1 /\ inbox[j].kind = "location-updated"
      BY <1>2, <2>1 DEF OnWay
    <3>2. inbox[1].location = service.location
      BY <1>1, <1>2, <3>1 DEF NewsInv
    <3>3. Len(asked') # 0
      BY <1>6
    <3> QED BY <1>6, <3>2, <3>3
  <2>2. /\ service'.active \/ service'.suspended \/ OnWay("location-updated")' => listening'
        /\ \A i \in 1 .. Len(inbox') :
              inbox'[i].kind = "location-updated" =>
                 /\ inbox'[i].location # NoLocation
                 /\ \/ inbox'[i].location = service'.location
                    \/ \E j \in 1 .. Len(inbox') :
                          j > i /\ inbox'[j].kind = "location-updated"
    BY <1>1, TakenOrder
  <2> QED BY <2>1, <2>2 DEF NewsInv
<1>11. ProxyInv'
  <2>1. Len(asked') \in Nat /\ Len(asked) <= Len(asked')
    BY <1>6
  <2> QED BY <1>1, <1>6, <2>1, TakenNoProxy
<1>12. TaskInv'
  BY <1>1 DEF TaskInv
<1> QED BY <1>1, <1>7, <1>8, <1>9, <1>10, <1>11, <1>12

LEMMA PropertiesChangedKeeps ==
    ASSUME SimpleTypes, SimpleInv, inbox # << >>, inbox' = Tail(inbox),
           PropertiesChanged(inbox[1]), UNCHANGED <<portal, service>>
    PROVE  SimpleInv' /\ astray' = astray
<1> USE DEF SimpleInv
<1>1. /\ inbox[1].kind = "properties"
      /\ UNCHANGED <<step, request, waiting, task, listening, response, asked,
                     location, astray, failed>>
  BY DEF PropertiesChanged
<1>2. OnWay("properties")
  BY <1>1, Taken
<1>3. ~portal
  BY <1>2 DEF PortalInv
<1>4. ChainInv' /\ PortalStartInv' /\ step # "start"
  BY <1>1, NotAnswer
<1>5. StartInv' /\ TaskInv'
  BY <1>1, <1>4 DEF StartInv, TaskInv
<1>6. PortalInv'
  BY <1>1, <1>3, NoPortal
<1>7. NewsInv'
  <2>1. OnWay("location-updated")' <=> OnWay("location-updated")
    BY <1>1, Taken
  <2>2. ~OnWay("location-updated")' =>
           IF asked' = << >> THEN failed' \/ location' = service'.location
           ELSE asked'[Len(asked')] = service'.location
    BY <1>1, <2>1 DEF NewsInv
  <2>3. /\ service'.active \/ service'.suspended \/ OnWay("location-updated")' => listening'
        /\ \A i \in 1 .. Len(inbox') :
              inbox'[i].kind = "location-updated" =>
                 /\ inbox'[i].location # NoLocation
                 /\ \/ inbox'[i].location = service'.location
                    \/ \E j \in 1 .. Len(inbox') :
                          j > i /\ inbox'[j].kind = "location-updated"
    BY <1>1, TakenOrder
  <2> QED BY <2>2, <2>3 DEF NewsInv
<1>8. ProxyInv'
  <2>1. Len(asked') \in Nat /\ Len(asked) <= Len(asked')
        /\ \A j \in 1 .. Len(asked) : asked'[j] = asked[j]
    BY <1>1, Queues
  <2> QED BY <1>1, <2>1, TakenNoProxy
<1> QED BY <1>1, <1>4, <1>5, <1>6, <1>7, <1>8

LEMMA LocationReadyKeeps ==
    ASSUME SimpleTypes, SimpleInv, inbox # << >>, inbox' = Tail(inbox),
           LocationReady(inbox[1]), UNCHANGED <<portal, cached, service>>
    PROVE  SimpleInv' /\ astray' = astray /\ asked # << >>
<1> USE DEF SimpleInv
<1>1. /\ inbox[1].kind = "proxy"
      /\ asked' = Tail(asked) /\ failed' = ~inbox[1].ok
      /\ location' = IF inbox[1].ok THEN inbox[1].location ELSE location
      /\ IF waiting THEN ReturnTask(IF inbox[1].ok THEN "ok" ELSE "error")
         ELSE UNCHANGED <<waiting, task, astray>>
      /\ UNCHANGED <<step, request, listening, response>>
  BY DEF LocationReady
<1>2. /\ ~waiting' /\ astray' = astray
      /\ \/ task' = "ok" /\ inbox[1].ok
         \/ task' = "error"
         \/ task' = task
  BY <1>1 DEF ReturnTask, SimpleTypes
<1>3. OnWay("proxy") /\ inbox[1] \in Messages
  BY <1>1, Taken
<1>4. ~portal
  BY <1>3 DEF PortalInv
<1>5. ChainInv' /\ PortalStartInv' /\ step # "start"
  BY <1>1, NotAnswer
<1>6. StartInv'
  BY <1>1, <1>5 DEF StartInv
<1>7. PortalInv'
  BY <1>1, <1>4, NoPortal
<1>8. ProxyInv' /\ asked # << >> /\ inbox[1].location = asked[1]
  BY <1>1, TakenProxy
<1>9. /\ Len(asked) = Len(asked') + 1 /\ Len(asked') \in Nat
      /\ \A i \in 1 .. Len(asked') : asked'[i] = asked[i + 1]
      /\ asked' = << >> <=> Len(asked') = 0
      /\ asked[1] # NoLocation
  <2>1. asked \in Seq(1 .. MaxLocations)
    BY Queues
  <2>2. asked[1] \in 1 .. MaxLocations
    BY <1>8, <2>1, NotEmpty, ElementsOf
  <2>3. asked' = Tail(asked) /\ asked # << >>
    BY <1>1, <1>8
  <2>4. asked[1] # NoLocation
    BY <2>2 DEF NoLocation
  <2>5. /\ Len(asked) = Len(asked') + 1 /\ Len(asked') \in Nat
        /\ \A i \in 1 .. Len(asked') : asked'[i] = asked[i + 1]
    BY <2>1, <2>3, TailOf
  <2>6. asked' = << >> <=> Len(asked') = 0
    BY <2>1, <2>3, TailOf
  <2> QED BY <2>4, <2>5, <2>6
<1>10. NewsInv'
  <2>1. OnWay("location-updated")' <=> OnWay("location-updated")
    BY <1>1, Taken
  <2>2. ASSUME ~OnWay("location-updated")'
        PROVE  IF asked' = << >> THEN failed' \/ location' = service'.location
               ELSE asked'[Len(asked')] = service'.location
    <3>1. asked[Len(asked)] = service.location
      BY <1>8, <2>1, <2>2 DEF NewsInv
    <3>2. CASE asked' = << >>
      <4>1. Len(asked) = 1
        BY <1>9, <3>2
      <4>2. inbox[1].location = service.location
        BY <1>8, <3>1, <4>1
      <4>3. failed' \/ location' = inbox[1].location
        BY <1>1, <1>3 DEF Messages
      <4> QED BY <3>2, <4>2, <4>3
    <3>3. CASE asked' # << >>
      <4>1. Len(asked') \in 1 .. Len(asked')
        BY <1>9, <3>3
      <4>2. asked'[Len(asked')] = asked[Len(asked)]
        BY <1>9, <4>1
      <4> QED BY <3>1, <3>3, <4>2
    <3> QED BY <3>2, <3>3
  <2>3. /\ service'.active \/ service'.suspended \/ OnWay("location-updated")' => listening'
        /\ \A i \in 1 .. Len(inbox') :
              inbox'[i].kind = "location-updated" =>
                 /\ inbox'[i].location # NoLocation
                 /\ \/ inbox'[i].location = service'.location
                    \/ \E j \in 1 .. Len(inbox') :
                          j > i /\ inbox'[j].kind = "location-updated"
    BY <1>1, TakenOrder
  <2> QED BY <2>2, <2>3 DEF NewsInv
<1>11. TaskInv'
  <2>1. task' = "ok" => location' # NoLocation
    <3>1. CASE task' = "ok" /\ inbox[1].ok
      BY <1>1, <1>8, <1>9, <3>1
    <3>2. CASE task' = task
      BY <1>1, <1>8, <1>9, <3>2 DEF TaskInv
    <3> QED BY <1>2, <3>1, <3>2
  <2> QED BY <1>2, <2>1 DEF TaskInv
<1> QED BY <1>2, <1>5, <1>6, <1>7, <1>8, <1>10, <1>11

LEMMA ClientStartedKeeps ==
    ASSUME SimpleTypes, SimpleInv, inbox # << >>, inbox' = Tail(inbox),
           ClientStarted(inbox[1]), UNCHANGED <<portal, cached, service>>
    PROVE  SimpleInv' /\ (astray' <=> astray)
<1> USE DEF SimpleInv
<1>1. step = "start" /\ inbox[1].kind = "answer"
  BY DEF ClientStarted
<1>2. request = "none"
  BY DEF ChainInv
<1>3. ~portal /\ waiting /\ cached.location = NoLocation
  BY <1>1 DEF StartInv
<1>4. /\ UNCHANGED <<request, listening, response, location, failed>>
      /\ asked' = asked /\ step' = "none"
      /\ astray' <=> astray
      /\ \/ waiting' = waiting /\ task' = task
         \/ waiting' = FALSE /\ task' = "error"
  BY <1>3 DEF ClientStarted, ReturnTask
<1>5. ~OnWay("answer")'
  <2>1. PICK k \in 1 .. Len(inbox) :
          \A i \in 1 .. Len(inbox) : /\ i < k => inbox[i].kind = "location-updated"
                                     /\ i > k => inbox[i].kind # "answer"
    BY <1>1, <1>2 DEF StartInv
  <2>2. 1 \in 1 .. Len(inbox) /\ Len(inbox) \in Nat /\ Len(inbox') \in Nat
    BY Taken, Queues
  <2>3. k = 1
    BY <1>1, <2>1, <2>2
  <2>4. ASSUME NEW i \in 1 .. Len(inbox') PROVE inbox'[i].kind # "answer"
    <3>1. inbox'[i] = inbox[i + 1] /\ i + 1 \in 1 .. Len(inbox)
      BY Taken
    <3>2. i + 1 > k
      BY <2>2, <2>3
    <3> QED BY <2>1, <3>1, <3>2
  <2> QED BY <2>4 DEF OnWay
<1>6. ChainInv'
  BY <1>2, <1>4, <1>5 DEF ChainInv, Chain
<1>7. StartInv' /\ PortalStartInv'
  BY <1>4 DEF StartInv, PortalStartInv
<1>8. PortalInv'
  BY <1>3, <1>4, NoPortal
<1>9. NewsInv'
  <2>1. OnWay("location-updated")' <=> OnWay("location-updated")
    BY <1>1, Taken
  <2>2. ~OnWay("location-updated")' =>
           IF asked' = << >> THEN failed' \/ location' = service'.location
           ELSE asked'[Len(asked')] = service'.location
    BY <1>4, <2>1 DEF NewsInv
  <2>3. /\ service'.active \/ service'.suspended \/ OnWay("location-updated")' => listening'
        /\ \A i \in 1 .. Len(inbox') :
              inbox'[i].kind = "location-updated" =>
                 /\ inbox'[i].location # NoLocation
                 /\ \/ inbox'[i].location = service'.location
                    \/ \E j \in 1 .. Len(inbox') :
                          j > i /\ inbox'[j].kind = "location-updated"
    BY <1>4, TakenOrder
  <2> QED BY <2>2, <2>3 DEF NewsInv
<1>10. ProxyInv'
  <2>1. Len(asked') \in Nat /\ Len(asked) <= Len(asked')
        /\ \A j \in 1 .. Len(asked) : asked'[j] = asked[j]
    BY <1>4, Queues
  <2> QED BY <1>1, <2>1, TakenNoProxy
<1>11. TaskInv'
  BY <1>4 DEF TaskInv
<1> QED BY <1>4, <1>6, <1>7, <1>8, <1>9, <1>10, <1>11

(* With the portal there are no proxies.                                   *)
LEMMA PortalTaken ==
    ASSUME SimpleTypes, SimpleInv, inbox # << >>, inbox' = Tail(inbox), portal,
           UNCHANGED <<asked, failed, service, request>>,
           inbox[1].kind # "location-updated" => location' = location,
           inbox[1].kind = "location-updated" => location' = inbox[1].location,
           \/ listening' = listening
           \/ Untold
    PROVE  /\ asked' = << >> /\ ~failed' /\ ~service'.changed /\ ~service'.suspended
           /\ ~OnWay("proxy")' /\ ~OnWay("properties")'
           /\ NewsInv' /\ ProxyInv' /\ request' = "none"
<1> USE DEF SimpleInv
<1>1. /\ asked = << >> /\ ~failed /\ ~service.changed /\ ~service.suspended
      /\ ~OnWay("proxy") /\ ~OnWay("properties")
  BY DEF PortalInv
<1>2. \A kind : OnWay(kind) <=> OnWay(kind)' \/ inbox[1].kind = kind
  BY Taken
<1>3. ~OnWay("proxy")' /\ ~OnWay("properties")' /\ inbox[1].kind # "proxy"
  BY <1>1, <1>2
<1>4. request' = "none"
  BY DEF ChainInv
<1>5. ProxyInv'
  <2>1. Len(asked') \in Nat /\ Len(asked) <= Len(asked')
        /\ \A j \in 1 .. Len(asked) : asked'[j] = asked[j]
    BY Queues
  <2> QED BY <1>3, <2>1, TakenNoProxy
<1>6. NewsInv'
  <2>1. /\ service'.active \/ service'.suspended \/ OnWay("location-updated")' => listening
        /\ Untold => Untold'
        /\ \A i \in 1 .. Len(inbox') :
              inbox'[i].kind = "location-updated" =>
                 /\ inbox'[i].location # NoLocation
                 /\ \/ inbox'[i].location = service'.location
                    \/ \E j \in 1 .. Len(inbox') :
                          j > i /\ inbox'[j].kind = "location-updated"
    BY TakenOrder
  <2>2. service'.active \/ service'.suspended \/ OnWay("location-updated")' => listening'
    BY <2>1 DEF Untold
  <2>3. ASSUME ~OnWay("location-updated")'
        PROVE  location' = service'.location
    <3>1. CASE inbox[1].kind = "location-updated"
      <4>1. ~ \E j \in 1 .. Len(inbox) : j > 1 /\ inbox[j].kind = "location-updated"
        BY <2>3, Taken DEF OnWay
      <4>2. 1 \in 1 .. Len(inbox)
        BY Taken
      <4>3. inbox[1].location = service.location
        BY <3>1, <4>1, <4>2 DEF NewsInv
      <4> QED BY <3>1, <4>3
    <3>2. CASE inbox[1].kind # "location-updated"
      <4>1. ~OnWay("location-updated")
        BY <1>2, <2>3, <3>2
      <4> QED BY <1>1, <3>2, <4>1 DEF NewsInv
    <3> QED BY <3>1, <3>2
  <2> QED BY <1>1, <2>1, <2>2, <2>3 DEF NewsInv
<1> QED BY <1>1, <1>3, <1>4, <1>5, <1>6

LEMMA PortalStartedKeeps ==
    ASSUME SimpleTypes, SimpleInv, inbox # << >>, inbox' = Tail(inbox),
           PortalStarted(inbox[1]), UNCHANGED <<portal, cached, service>>
    PROVE  SimpleInv' /\ (astray' <=> astray)
<1> USE DEF SimpleInv
<1>1. step = "portal start" /\ inbox[1].kind = "answer"
  BY DEF PortalStarted
<1>2. request = "none"
  BY DEF ChainInv
<1>3. /\ portal /\ waiting /\ listening /\ response
      /\ \A i \in 1 .. Len(inbox) : i > 1 => inbox[i].kind # "answer"
      /\ ~inbox[1].ok => Len(inbox) = 1 /\ Untold /\ ~service.responding
  BY <1>1, <1>2 DEF PortalStartInv
<1>4. /\ UNCHANGED <<request, asked, location, failed>>
      /\ step' = "none" /\ (astray' <=> astray)
      /\ \/ /\ inbox[1].ok
            /\ UNCHANGED <<waiting, task, listening, response>>
         \/ /\ ~inbox[1].ok
            /\ waiting' = FALSE /\ task' = "error"
            /\ listening' = FALSE /\ response' = FALSE
  BY <1>3 DEF PortalStarted, ReturnTask, ClearPortal
<1>5. /\ asked' = << >> /\ ~failed' /\ ~service'.changed /\ ~service'.suspended
      /\ ~OnWay("proxy")' /\ ~OnWay("properties")'
      /\ NewsInv' /\ ProxyInv' /\ request' = "none"
  <2>1. listening' = listening \/ Untold
    BY <1>3, <1>4, Zenon
  <2> QED BY <1>1, <1>3, <1>4, <2>1, PortalTaken
<1>6. ~OnWay("answer")'
  <2>1. ASSUME NEW i \in 1 .. Len(inbox') PROVE inbox'[i].kind # "answer"
    <3>1. inbox'[i] = inbox[i + 1] /\ i + 1 \in 1 .. Len(inbox) /\ Len(inbox') \in Nat
      BY Taken
    <3>2. i + 1 > 1
      BY <3>1
    <3> QED BY <1>3, <3>1, <3>2
  <2> QED BY <2>1 DEF OnWay
<1>7. ChainInv'
  BY <1>4, <1>5, <1>6 DEF ChainInv, Chain
<1>8. StartInv' /\ PortalStartInv' /\ TaskInv'
  <2>1. StartInv' /\ PortalStartInv'
    BY <1>4 DEF StartInv, PortalStartInv
  <2>2. waiting' => waiting' = waiting /\ task' = task
    BY <1>4
  <2>3. task' = "ok" => task = "ok"
    BY <1>4
  <2>4. TaskInv'
    BY <1>4, <2>2, <2>3 DEF TaskInv
  <2> QED BY <2>1, <2>4
<1>9. PortalInv'
  <2>1. /\ Untold => Untold'
        /\ \A i \in 1 .. Len(inbox') :
              inbox'[i].kind = "response" =>
                 /\ \A j \in 1 .. Len(inbox') : j < i => inbox'[j].kind = "answer"
                 /\ ~inbox'[i].ok => Untold'
    BY <1>4, TakenOrder
  <2>2. service'.responding \/ OnWay("response")' => waiting' /\ response' /\ listening'
    <3>1. CASE inbox[1].ok
      BY <1>3, <1>4, <3>1, Zenon
    <3>2. CASE ~inbox[1].ok
      <4>1. Len(inbox) = 1 /\ ~service.responding
        BY <1>3, <3>2, Zenon
      <4>2. \A i \in 1 .. Len(inbox') : FALSE
        <5>1. Len(inbox') \in Nat /\ Len(inbox) = Len(inbox') + 1
          BY Taken
        <5>2. Len(inbox) = 1
          BY <4>1
        <5> QED BY <5>1, <5>2, OneShorter
      <4>3. ~OnWay("response")'
        BY <4>2 DEF OnWay
      <4> QED BY <4>1, <4>3
    <3> QED BY <3>1, <3>2
  <2>3. service'.responding => Untold' /\ ~OnWay("response")'
    <3>1. service.responding => Untold /\ ~OnWay("response")
      BY DEF PortalInv
    <3>2. OnWay("response")' => OnWay("response")
      BY Taken
    <3> QED BY <2>1, <3>1, <3>2
  <2> QED BY <1>3, <1>4, <1>5, <2>1, <2>2, <2>3 DEF PortalInv
<1> QED BY <1>4, <1>5, <1>7, <1>8, <1>9

LEMMA PortalRespondsKeeps ==
    ASSUME SimpleTypes, SimpleInv, inbox # << >>, inbox' = Tail(inbox),
           PortalResponds(inbox[1]), UNCHANGED <<portal, cached, service>>
    PROVE  SimpleInv' /\ (astray' <=> astray)
<1> USE DEF SimpleInv
<1>1. inbox[1].kind = "response" /\ UNCHANGED <<step, request, asked, location, failed>>
  BY DEF PortalResponds
<1>2. OnWay("response") /\ 1 \in 1 .. Len(inbox)
  BY <1>1, Taken
<1>3. /\ portal /\ waiting /\ response /\ listening
      /\ ~service.responding
      /\ ~inbox[1].ok => Untold
  BY <1>1, <1>2 DEF PortalInv
<1>4. /\ astray' <=> astray
      /\ response' = FALSE
      /\ \/ /\ inbox[1].ok
            /\ UNCHANGED <<waiting, task, listening>>
         \/ /\ ~inbox[1].ok
            /\ waiting' = FALSE /\ task' = "error" /\ listening' = FALSE
  BY <1>3 DEF PortalResponds, ReturnTask, ClearPortal
<1>5. /\ asked' = << >> /\ ~failed' /\ ~service'.changed /\ ~service'.suspended
      /\ ~OnWay("proxy")' /\ ~OnWay("properties")'
      /\ NewsInv' /\ ProxyInv'
  <2>1. listening' = listening \/ Untold
    BY <1>3, <1>4, Zenon
  <2> QED BY <1>1, <1>3, <1>4, <2>1, PortalTaken
<1>6. ChainInv' /\ PortalStartInv' /\ step # "start"
  BY <1>1, NotAnswer
<1>7. StartInv' /\ TaskInv'
  BY <1>1, <1>4, <1>6 DEF StartInv, TaskInv
<1>8. \A i \in 1 .. Len(inbox') : inbox'[i].kind # "response"
  <2> SUFFICES ASSUME NEW i \in 1 .. Len(inbox'), inbox'[i].kind = "response"
               PROVE  FALSE
    OBVIOUS
  <2>1. inbox'[i] = inbox[i + 1] /\ i + 1 \in 1 .. Len(inbox) /\ Len(inbox') \in Nat
    BY Taken
  <2>2. 1 < i + 1
    BY <2>1
  <2>3. inbox[1].kind = "answer"
    BY <1>2, <2>1, <2>2 DEF PortalInv
  <2> QED BY <1>1, <2>3
<1>9. ~OnWay("response")'
  BY <1>8 DEF OnWay
<1>10. PortalInv'
  BY <1>3, <1>5, <1>8, <1>9 DEF PortalInv
<1> QED BY <1>4, <1>5, <1>6, <1>7, <1>10

LEMMA PortalLocationUpdatedKeeps ==
    ASSUME SimpleTypes, SimpleInv, inbox # << >>, inbox' = Tail(inbox),
           PortalLocationUpdated(inbox[1]), UNCHANGED <<portal, cached, service>>
    PROVE  SimpleInv' /\ (astray' <=> astray)
<1> USE DEF SimpleInv
<1>1. /\ inbox[1].kind = "location-updated" /\ portal
      /\ UNCHANGED <<step, request, listening, response, asked, failed>>
  BY DEF PortalLocationUpdated
<1>2. OnWay("location-updated") /\ 1 \in 1 .. Len(inbox)
  BY <1>1, Taken
<1>3. listening /\ inbox[1].location # NoLocation
  BY <1>1, <1>2 DEF NewsInv
<1>4. /\ location' = inbox[1].location
      /\ waiting' = FALSE /\ (astray' <=> astray)
      /\ task' = "ok" \/ task' = task
  BY <1>3 DEF PortalLocationUpdated, ReturnTask, SimpleTypes
<1>5. /\ asked' = << >> /\ ~failed' /\ ~service'.changed /\ ~service'.suspended
      /\ ~OnWay("proxy")' /\ ~OnWay("properties")'
      /\ NewsInv' /\ ProxyInv'
  BY <1>1, <1>4, PortalTaken
<1>6. ChainInv' /\ PortalStartInv' /\ step # "start"
  <2>1. ChainInv' /\ PortalStartInv'
    BY <1>1, NotAnswer
  <2>2. step # "start"
    BY <1>1 DEF StartInv
  <2> QED BY <2>1, <2>2
<1>7. StartInv' /\ TaskInv'
  BY <1>1, <1>3, <1>4, <1>6 DEF StartInv, TaskInv
<1>8. \A i \in 1 .. Len(inbox') : inbox'[i].kind # "response"
  <2> SUFFICES ASSUME NEW i \in 1 .. Len(inbox'), inbox'[i].kind = "response"
               PROVE  FALSE
    OBVIOUS
  <2>1. inbox'[i] = inbox[i + 1] /\ i + 1 \in 1 .. Len(inbox) /\ Len(inbox') \in Nat
    BY Taken
  <2>2. 1 < i + 1
    BY <2>1
  <2>3. inbox[1].kind = "answer"
    BY <1>2, <2>1, <2>2 DEF PortalInv
  <2> QED BY <1>1, <2>3
<1>9. ~OnWay("response")'
  BY <1>8 DEF OnWay
<1>10. PortalInv'
  <2>1. ~service.responding
    BY <1>2 DEF PortalInv, Untold
  <2> QED BY <1>1, <1>5, <1>8, <1>9, <2>1 DEF PortalInv
<1> QED BY <1>4, <1>5, <1>6, <1>7, <1>10

LEMMA CallbackKeeps ==
    ASSUME SimpleTypes, SimpleInv, inbox # << >>, inbox' = Tail(inbox),
           Callback(inbox[1])
    PROVE  SimpleInv' /\ (astray' <=> astray)
<1>1. UNCHANGED <<portal, service>>
  BY DEF Callback
<1>2. inbox[1].kind # "properties" => cached' = cached
  BY DEF Callback
<1>3. CASE ChainBreaks(inbox[1])
  BY <1>1, <1>2, <1>3, ChainBreaksKeeps DEF ChainBreaks
<1>4. CASE ChainGoesOn(inbox[1])
  BY <1>1, <1>2, <1>4, ChainGoesOnKeeps DEF ChainGoesOn
<1>5. CASE ClientCreated(inbox[1])
  BY <1>1, <1>2, <1>5, ClientCreatedKeeps DEF ClientCreated
<1>6. CASE LocationUpdated(inbox[1])
  BY <1>1, <1>2, <1>6, LocationUpdatedKeeps DEF LocationUpdated
<1>7. CASE ClientStarted(inbox[1])
  BY <1>1, <1>2, <1>7, ClientStartedKeeps DEF ClientStarted
<1>8. CASE LocationReady(inbox[1])
  BY <1>1, <1>2, <1>8, LocationReadyKeeps DEF LocationReady
<1>9. CASE SessionCreated(inbox[1])
  BY <1>1, <1>2, <1>9, SessionCreatedKeeps DEF SessionCreated
<1>10. CASE PortalStarted(inbox[1])
  BY <1>1, <1>2, <1>10, PortalStartedKeeps DEF PortalStarted
<1>11. CASE PortalResponds(inbox[1])
  BY <1>1, <1>2, <1>11, PortalRespondsKeeps DEF PortalResponds
<1>12. CASE PortalLocationUpdated(inbox[1])
  BY <1>1, <1>2, <1>12, PortalLocationUpdatedKeeps DEF PortalLocationUpdated
<1>13. CASE PropertiesChanged(inbox[1])
  BY <1>1, <1>13, PropertiesChangedKeeps
<1> QED BY <1>3, <1>4, <1>5, <1>6, <1>7, <1>8, <1>9, <1>10, <1>11, <1>12, <1>13
        DEF Callback

LEMMA CallbackTypes ==
    ASSUME SimpleTypes, SimpleInv, inbox # << >>, inbox' = Tail(inbox),
           Callback(inbox[1])
    PROVE  SimpleTypes'
<1>1. inbox[1] \in Messages /\ inbox' \in Seq(Messages)
  BY Taken
<1>2. inbox[1].ok \in BOOLEAN /\ inbox[1].location \in 0 .. MaxLocations
  BY <1>1 DEF Messages
<1>3. request = "none"
  BY DEF SimpleInv, ChainInv
<1>4. portal' \in BOOLEAN /\ service' = service
      /\ cached' \in [location : 0 .. MaxLocations, active : BOOLEAN]
  BY <1>2 DEF Callback, SimpleTypes
<1>5. asked \in Seq(1 .. MaxLocations)
  BY Queues
<1>6. ASSUME NEW l \in 0 .. MaxLocations, l # NoLocation
      PROVE  Append(asked, l) \in Seq(1 .. MaxLocations)
  <2>1. l \in 1 .. MaxLocations
    BY <1>6 DEF NoLocation
  <2> QED BY <1>5, <2>1
<1> DEFINE Asked == Seq(1 .. MaxLocations)
           Steps == Chain \cup {"none", "start", "portal start"}
           Rest ==
             /\ step' \in Steps /\ request' \in {"none", step'}
             /\ task' \in {"pending", "ok", "error"}
             /\ asked' \in Asked
             /\ location' \in 0 .. MaxLocations
             /\ waiting' \in BOOLEAN /\ listening' \in BOOLEAN
             /\ response' \in BOOLEAN /\ astray' \in BOOLEAN /\ failed' \in BOOLEAN
<1>7. /\ step \in Steps /\ task \in {"pending", "ok", "error"}
      /\ asked \in Asked
      /\ location \in 0 .. MaxLocations
      /\ waiting \in BOOLEAN /\ listening \in BOOLEAN
      /\ response \in BOOLEAN /\ astray \in BOOLEAN /\ failed \in BOOLEAN
  BY DEF SimpleTypes
<1>8. "none" \in Steps /\ "start" \in Steps /\ "portal start" \in Steps
      /\ Chain \subseteq Steps
  OBVIOUS
<1>9. \A l \in 0 .. MaxLocations : l # NoLocation => Append(asked, l) \in Asked
  BY <1>6
<1>10. asked # << >> => Tail(asked) \in Asked
  BY <1>5
<1>11. \A result \in {"ok", "error"} :
          ReturnTask(result) => /\ waiting' \in BOOLEAN /\ astray' \in BOOLEAN
                                /\ task' \in {"pending", "ok", "error"}
  BY <1>7 DEF ReturnTask
<1> HIDE DEF Asked, Steps
<1>12. ASSUME ChainBreaks(inbox[1]) PROVE Rest
  BY <1>3, <1>7, <1>8, <1>12 DEF ChainBreaks
<1>13. ASSUME ChainGoesOn(inbox[1]) PROVE Rest
  <2>1. step' \in Chain /\ request' = step'
    BY <1>13 DEF ChainGoesOn, Call, Following, Chain
  <2> QED BY <1>7, <1>8, <1>13, <2>1 DEF ChainGoesOn
<1>14. ASSUME ClientCreated(inbox[1]) PROVE Rest
  BY <1>7, <1>8, <1>14 DEF ClientCreated, Call
<1>15. ASSUME LocationUpdated(inbox[1]) PROVE Rest
  <2>1. asked' \in Asked
    BY <1>2, <1>7, <1>9, <1>15 DEF LocationUpdated
  <2> QED BY <1>3, <1>7, <1>8, <1>15, <2>1 DEF LocationUpdated
<1>16. ASSUME ClientStarted(inbox[1]) PROVE Rest
  <2>1. cached.location \in 0 .. MaxLocations
    BY DEF SimpleTypes
  <2>2. asked' = asked \/ (asked' = Append(asked, cached.location)
                             /\ cached.location # NoLocation)
    BY <1>16 DEF ClientStarted
  <2>3. asked' \in Asked
    BY <1>7, <1>9, <2>1, <2>2
  <2>4. waiting' \in BOOLEAN /\ task' \in {"pending", "ok", "error"} /\ astray' \in BOOLEAN
    BY <1>7, <1>11, <1>16 DEF ClientStarted
  <2>5. step' = "none" /\ UNCHANGED <<request, listening, response, location, failed>>
    BY <1>16 DEF ClientStarted
  <2> QED BY <1>3, <1>7, <1>8, <2>3, <2>4, <2>5
<1>17. ASSUME LocationReady(inbox[1]) PROVE Rest
  <2>1. asked' = Tail(asked) /\ inbox[1].kind = "proxy"
    BY <1>17 DEF LocationReady
  <2>2. asked # << >>
    BY <2>1, TakenProxy DEF SimpleInv
  <2>3. asked' \in Asked
    BY <1>10, <2>1, <2>2
  <2>4. location' \in 0 .. MaxLocations /\ failed' \in BOOLEAN
    BY <1>2, <1>7, <1>17 DEF LocationReady
  <2>5. waiting' \in BOOLEAN /\ task' \in {"pending", "ok", "error"} /\ astray' \in BOOLEAN
    BY <1>7, <1>11, <1>17 DEF LocationReady
  <2>6. UNCHANGED <<step, request, listening, response>>
    BY <1>17 DEF LocationReady
  <2> QED BY <1>3, <1>7, <1>8, <2>3, <2>4, <2>5, <2>6
<1>18. ASSUME SessionCreated(inbox[1]) PROVE Rest
  BY <1>7, <1>8, <1>18 DEF SessionCreated, Call
<1>19. ASSUME PortalStarted(inbox[1]) PROVE Rest
  <2>1. waiting' \in BOOLEAN /\ task' \in {"pending", "ok", "error"} /\ astray' \in BOOLEAN
    BY <1>7, <1>11, <1>19 DEF PortalStarted
  <2>2. listening' \in BOOLEAN /\ response' \in BOOLEAN
    BY <1>7, <1>19 DEF PortalStarted, ClearPortal
  <2> QED BY <1>3, <1>7, <1>8, <1>19, <2>1, <2>2 DEF PortalStarted
<1>20. ASSUME PortalResponds(inbox[1]) PROVE Rest
  <2>1. waiting' \in BOOLEAN /\ task' \in {"pending", "ok", "error"} /\ astray' \in BOOLEAN
    BY <1>7, <1>11, <1>20 DEF PortalResponds
  <2>2. listening' \in BOOLEAN /\ response' \in BOOLEAN
    BY <1>7, <1>20 DEF PortalResponds, ClearPortal
  <2> QED BY <1>3, <1>7, <1>8, <1>20, <2>1, <2>2 DEF PortalResponds
<1>21. ASSUME PortalLocationUpdated(inbox[1]) PROVE Rest
  <2>1. location' \in 0 .. MaxLocations
    BY <1>2, <1>7, <1>21 DEF PortalLocationUpdated
  <2>2. waiting' \in BOOLEAN /\ task' \in {"pending", "ok", "error"} /\ astray' \in BOOLEAN
    BY <1>7, <1>11, <1>21 DEF PortalLocationUpdated
  <2>3. UNCHANGED <<step, request, listening, response, asked, failed>>
    BY <1>21 DEF PortalLocationUpdated
  <2> QED BY <1>3, <1>7, <1>8, <2>1, <2>2, <2>3
<1>22. ASSUME PropertiesChanged(inbox[1]) PROVE Rest
  BY <1>3, <1>7, <1>8, <1>22 DEF PropertiesChanged
<1>23. Rest
  <2> HIDE DEF Rest
  <2> QED BY <1>12, <1>13, <1>14, <1>15, <1>16, <1>17, <1>18, <1>19, <1>20, <1>21, <1>22
          DEF Callback
<1>24. service' \in [location : 0 .. MaxLocations, active : BOOLEAN,
                     suspended : BOOLEAN, changed : BOOLEAN, responding : BOOLEAN]
  BY <1>4 DEF SimpleTypes
<1> QED BY <1>1, <1>4, <1>23, <1>24 DEF SimpleTypes, Asked, Steps

(* The task that has been answered keeps its answer.                       *)
LEMMA TaskStays ==
    ASSUME SimpleTypes, SimpleInv, inbox # << >>, Callback(inbox[1]), task # "pending"
    PROVE  task' = task
<1>1. ~waiting
  BY DEF SimpleInv, TaskInv
<1>2. step \notin Chain
  BY DEF SimpleInv, ChainInv
<1>3. ~ChainBreaks(inbox[1])
  BY <1>2 DEF ChainBreaks, Following, Chain
<1>4. \A result : ReturnTask(result) => task' = task
  BY <1>1 DEF ReturnTask
<1> QED BY <1>1, <1>3, <1>4
        DEF Callback, ChainGoesOn, ClientCreated, LocationUpdated, ClientStarted,
            LocationReady, SessionCreated, PortalStarted, PortalResponds,
            PortalLocationUpdated, PropertiesChanged

----------------------------------------------------------------------------
(***************************************************************************)
(* The program.                                                            *)
(***************************************************************************)
LEMMA RestIsFine ==
    ASSUME SimpleTypes, AtRest
    PROVE  SimpleInv
<1>1. Len(inbox) = 0 /\ \A i \in 1 .. Len(inbox) : FALSE
  BY DEF AtRest
<1>2. \A kind : ~OnWay(kind)
  BY <1>1 DEF OnWay
<1>3. request = "none" /\ step = "none"
  BY DEF AtRest, SimpleTypes
<1>4. ChainInv /\ StartInv /\ PortalStartInv
  BY <1>2, <1>3 DEF ChainInv, StartInv, PortalStartInv, Chain
<1>5. PortalInv
  BY <1>1, <1>2 DEF AtRest, Fresh, Untold, PortalInv
<1>6. NewsInv
  BY <1>1, <1>2 DEF AtRest, Fresh, Untold, NewsInv
<1>7. ProxyInv
  <2>1. Len(inbox) \in Nat /\ \A i \in 1 .. Len(inbox) : inbox[i].kind # "proxy"
    BY <1>1
  <2>2. Cardinality(Proxies(inbox, Len(inbox))) = 0
    BY <2>1, ProxiesNone
  <2>3. Proxies(inbox, Len(inbox)) = {}
    BY <2>1 DEF Proxies
  <2>4. Len(asked) = 0
    BY DEF AtRest, Fresh
  <2> QED BY <2>2, <2>3, <2>4 DEF ProxyInv
<1>8. TaskInv
  BY DEF AtRest, TaskInv
<1> QED BY <1>4, <1>5, <1>6, <1>7, <1>8 DEF SimpleInv

LEMMA RunKeeps ==
    ASSUME SimpleTypes, AtRest, Run
    PROVE  SimpleTypes' /\ SimpleInv' /\ UNCHANGED <<astray, task>>
<1>1. /\ UNCHANGED <<portal, inbox, waiting, task, listening, cached, response,
                     asked, location, astray, failed, service>>
      /\ request' = step'
      /\ step' = IF portal THEN "portal proxy" ELSE "manager proxy"
  BY DEF Run, InitAsync, Call
<1>2. SimpleInv
  BY RestIsFine
<1>3. SimpleTypes'
  BY <1>1 DEF SimpleTypes, Chain
<1>4. \A kind : OnWay(kind)' <=> OnWay(kind)
  BY <1>1 DEF OnWay
<1>5. Untold' /\ Fresh'
  BY <1>1, <1>4 DEF AtRest, Fresh, Untold
<1>6. ChainInv'
  <2>1. step' \in Chain /\ step' # "none" /\ step' # "create session"
    BY <1>1 DEF Chain
  <2>2. portal' <=> step' \in {"portal proxy", "create session"}
    BY <1>1 DEF SimpleTypes
  <2>3. inbox' = << >> /\ ~waiting' /\ task' = "pending" /\ ~response' /\ request' # "none"
    BY <1>1, <2>1 DEF AtRest
  <2> QED BY <1>5, <2>1, <2>2, <2>3 DEF ChainInv
<1>7. StartInv' /\ PortalStartInv'
  BY <1>1 DEF StartInv, PortalStartInv
<1>8. PortalInv'
  <2>1. inbox' = << >> /\ asked' = << >> /\ ~failed' /\ ~service'.changed
        /\ ~service'.suspended /\ ~service'.responding /\ ~response'
    BY <1>1 DEF AtRest, Fresh, Untold
  <2>2. Len(inbox') = 0
    BY <2>1
  <2>3. \A i \in 1 .. Len(inbox') : FALSE
    BY <2>2
  <2>4. \A kind : ~OnWay(kind)'
    BY <2>3 DEF OnWay
  <2> QED BY <2>1, <2>3, <2>4 DEF PortalInv
<1>9. NewsInv' /\ ProxyInv' /\ TaskInv'
  BY <1>1, <1>2, <1>4 DEF SimpleInv, NewsInv, ProxyInv, TaskInv
<1> QED BY <1>1, <1>3, <1>6, <1>7, <1>8, <1>9 DEF SimpleInv

LEMMA SimpleTypesKept ==
    ASSUME SimpleTypes, inbox' \in Seq(Messages),
           UNCHANGED <<portal, step, request, waiting, task, listening, cached,
                       response, asked, location, astray, failed, service>>
    PROVE  SimpleTypes'
<1> DEFINE Asked == Seq(1 .. MaxLocations)
           Inbox == Seq(Messages)
<1>1. asked \in Asked
  BY DEF SimpleTypes
<1> HIDE DEF Asked, Inbox
<1>2. asked' \in Asked
  BY <1>1
<1>3. cached' \in [location : 0 .. MaxLocations, active : BOOLEAN]
  BY DEF SimpleTypes
<1>4. service' \in [location : 0 .. MaxLocations, active : BOOLEAN,
                   suspended : BOOLEAN, changed : BOOLEAN, responding : BOOLEAN]
  BY DEF SimpleTypes
<1>5. /\ portal' \in BOOLEAN
      /\ step' \in Chain \cup {"none", "start", "portal start"}
      /\ request' \in {"none", step'}
      /\ task' \in {"pending", "ok", "error"}
      /\ location' \in 0 .. MaxLocations
      /\ waiting' \in BOOLEAN /\ listening' \in BOOLEAN /\ response' \in BOOLEAN
      /\ astray' \in BOOLEAN /\ failed' \in BOOLEAN
  BY DEF SimpleTypes
<1> QED BY <1>2, <1>3, <1>4, <1>5 DEF SimpleTypes, Asked

(* A step that leaves the object alone.                                    *)
LEMMA ObjectAlone ==
    ASSUME UNCHANGED simpleVars
    PROVE  /\ SimpleTypes => SimpleTypes'
           /\ SimpleInv => SimpleInv'
           /\ AtRest => AtRest'
           /\ astray' = astray /\ task' = task
<1>1. UNCHANGED <<portal, step, request, inbox, waiting, task, listening, cached,
                  response, asked, location, astray, failed, service>>
  BY DEF simpleVars
<1>2. SimpleTypes => SimpleTypes'
  BY <1>1, SimpleTypesKept DEF SimpleTypes
<1>3. \A kind : OnWay(kind)' <=> OnWay(kind)
  BY <1>1 DEF OnWay
<1>4. (Untold' <=> Untold) /\ (Fresh' <=> Fresh)
  BY <1>1, <1>3 DEF Untold, Fresh
<1>5. SimpleInv => ChainInv' /\ StartInv' /\ PortalStartInv'
  BY <1>1, <1>3, <1>4 DEF SimpleInv, ChainInv, StartInv, PortalStartInv
<1>6. SimpleInv => PortalInv'
  BY <1>1, <1>3, <1>4 DEF SimpleInv, PortalInv
<1>7. SimpleInv => NewsInv' /\ ProxyInv' /\ TaskInv'
  BY <1>1, <1>3 DEF SimpleInv, NewsInv, ProxyInv, TaskInv
<1>8. AtRest => AtRest'
  BY <1>1, <1>4 DEF AtRest
<1> QED BY <1>1, <1>2, <1>5, <1>6, <1>7, <1>8 DEF SimpleInv

LEMMA ProgramInvStart ==
    ASSUME ProgramInit
    PROVE  ProgramInv
<1>1. SimpleTypes
  <2>1. << >> \in Seq(Messages) /\ << >> \in Seq(1 .. MaxLocations)
    OBVIOUS
  <2>2. 0 \in 0 .. MaxLocations
    BY SimpleAssumption
  <2> QED BY <2>1, <2>2 DEF ProgramInit, SimpleInit, SimpleTypes, NoLocation
<1>2. AtRest
  <2>1. inbox = << >> /\ asked = << >>
    BY DEF ProgramInit, SimpleInit
  <2>2. ~OnWay("location-updated")
    <3>1. Len(inbox) = 0
      BY <2>1
    <3> QED BY <3>1 DEF OnWay
  <2> QED BY <2>1, <2>2 DEF ProgramInit, SimpleInit, AtRest, Fresh, Untold
<1>3. SimpleInv
  BY <1>1, <1>2, RestIsFine
<1>4. TaskAnsweredOnce /\ ~holds
  BY DEF ProgramInit, SimpleInit, TaskAnsweredOnce
<1> QED BY <1>1, <1>2, <1>3, <1>4 DEF ProgramInv

LEMMA DispatchKeeps ==
    ASSUME ProgramInv, Dispatch
    PROVE  ProgramInv'
<1>1. /\ SimpleTypes /\ SimpleInv /\ ~astray /\ ~dropped
      /\ inbox # << >> /\ inbox' = Tail(inbox) /\ Head(inbox) = inbox[1]
  BY Taken DEF ProgramInv, Dispatch, Handles, TaskAnsweredOnce
<1>2. Callback(inbox[1]) /\ ProgramHears(inbox[1])
  BY <1>1 DEF Dispatch
<1>3. SimpleTypes' /\ SimpleInv' /\ ~astray'
  BY <1>1, <1>2, CallbackKeeps, CallbackTypes
<1>4. loop' # "before"
  BY <1>2 DEF Dispatch, Handles, ProgramHears, Quit
<1>5. task # "pending" => task' = task
  BY <1>1, <1>2, TaskStays
<1>6. holds' => ~dropped' /\ task' = "ok"
  <2>1. CASE holds' = FALSE
    BY <2>1
  <2>2. CASE holds' = (holds \/ (task = "pending" /\ task' = "ok")) /\ dropped' = dropped
    BY <1>1, <1>5, <2>2 DEF ProgramInv
  <2> QED BY <1>2, <2>1, <2>2 DEF ProgramHears, Quit
<1> QED BY <1>3, <1>4, <1>6 DEF ProgramInv, TaskAnsweredOnce

LEMMA ProgramInvStep ==
    ASSUME ProgramInv, [ProgramNext]_systemVars
    PROVE  ProgramInv'
<1>1. ASSUME UNCHANGED simpleVars, loop' = "before" => loop = "before",
             \/ UNCHANGED <<holds, dropped>>
             \/ holds' = FALSE /\ dropped' = (dropped \/ holds)
      PROVE  ProgramInv'
  <2>1. SimpleTypes' /\ ~astray' /\ task' = task
    BY <1>1, ObjectAlone DEF ProgramInv, TaskAnsweredOnce
  <2>2. loop' = "before" => AtRest'
    BY <1>1, ObjectAlone DEF ProgramInv
  <2>3. ~dropped' => SimpleInv'
    <3>1. ~dropped' => ~dropped
      BY <1>1, Zenon
    <3> QED BY <1>1, <3>1, ObjectAlone DEF ProgramInv
  <2>4. holds' => ~dropped' /\ task' = "ok"
    BY <1>1, <2>1 DEF ProgramInv
  <2> QED BY <2>1, <2>2, <2>3, <2>4 DEF ProgramInv, TaskAnsweredOnce
<1>2. CASE UNCHANGED systemVars
  BY <1>1, <1>2 DEF systemVars, programVars
<1>3. CASE Fork \/ ForkReturns \/ AgentRegisters
  BY <1>1, <1>3 DEF Fork, ForkReturns, AgentRegisters
<1>4. CASE Run
  <2>1. SimpleTypes /\ AtRest /\ ~astray
    BY <1>4 DEF Run, ProgramInv, TaskAnsweredOnce
  <2>2. SimpleTypes' /\ SimpleInv' /\ UNCHANGED <<astray, task>>
    BY <1>4, <2>1, RunKeeps
  <2>3. loop' # "before" /\ UNCHANGED <<holds, dropped>>
    BY <1>4 DEF Run
  <2> QED BY <2>1, <2>2, <2>3 DEF ProgramInv, TaskAnsweredOnce
<1>5. CASE OnLocationTimeout
  BY <1>1, <1>5 DEF OnLocationTimeout, Quit
<1>6. CASE Dispatch
  BY <1>6, DispatchKeeps
<1>7. CASE DispatchDropped
  <2>1. /\ dropped /\ loop # "before" /\ inbox # << >> /\ inbox' = Tail(inbox)
        /\ UNCHANGED <<portal, step, request, waiting, task, listening, cached,
                       response, asked, location, astray, failed, service>>
        /\ UNCHANGED <<loop, holds, dropped>>
    BY <1>7 DEF DispatchDropped, Handles
  <2>2. SimpleTypes
    BY DEF ProgramInv
  <2>3. inbox' \in Seq(Messages)
    BY <2>1, <2>2, Taken
  <2>4. SimpleTypes'
    BY <2>1, <2>2, <2>3, SimpleTypesKept
  <2> QED BY <2>1, <2>4 DEF ProgramInv, TaskAnsweredOnce
<1>8. CASE LoopLeft \/ MainReturns
  BY <1>1, <1>8 DEF LoopLeft, MainReturns
<1>9. CASE ServiceSide
  <2>1. loop # "before" /\ Environment /\ UNCHANGED <<loop, holds, dropped>>
    BY <1>9 DEF ServiceSide, programVars
  <2>2. SimpleTypes /\ ~astray
    BY DEF ProgramInv, TaskAnsweredOnce
  <2>3. SimpleTypes' /\ astray' = astray /\ task' = task
    BY <2>1, <2>2, EnvironmentTypes DEF libraryVars
  <2>4. ~dropped => SimpleInv'
    BY <2>1, <2>2, EnvironmentKeeps DEF ProgramInv
  <2> QED BY <2>1, <2>2, <2>3, <2>4 DEF ProgramInv, TaskAnsweredOnce
<1> QED BY <1>2, <1>3, <1>4, <1>5, <1>6, <1>7, <1>8, <1>9 DEF ProgramNext

LEMMA ProgramInvAlways == ProgramSpec => []ProgramInv
BY ProgramInvStart, ProgramInvStep, PTL DEF ProgramSpec

(* Messages are those of one order, a proxy is answered for a location that *)
(* was asked for, and locations are those that the service made.           *)
THEOREM SimpleAlwaysTyped == ProgramSpec => []SimpleTypeOK
<1>1. ProgramInv => SimpleTypeOK
  <2> SUFFICES ASSUME SimpleTypes PROVE SimpleTypeOK
    BY DEF ProgramInv
  <2>1. step \in Chain \cup {"none", "start", "portal start"}
    BY DEF SimpleTypes
  <2>2. inbox \in Seq([kind : Kinds, ok : BOOLEAN, location : 0 .. MaxLocations])
    BY DEF SimpleTypes, Messages
  <2> QED BY <2>1, <2>2 DEF SimpleTypes, SimpleTypeOK
<1> QED BY <1>1, ProgramInvAlways, PTL

(* Whatever comes of the service, the portal or nobody, in which order and  *)
(* with which errors, gclue_simple_new is answered once, and no callback    *)
(* of the chain finds the task of priv->task released.                      *)
THEOREM TaskAlwaysAnsweredOnce == ProgramSpec => []TaskAnsweredOnce
<1>1. ProgramInv => TaskAnsweredOnce
  BY DEF ProgramInv
<1> QED BY <1>1, ProgramInvAlways, PTL

(* For any number of locations and messages: when all is handled, what the  *)
(* program shows is the last location signaled, unless its proxy failed.    *)
THEOREM LatestAlwaysShown == ProgramSpec => []LatestIsShown
<1>1. ProgramInv => LatestIsShown
  <2> SUFFICES ASSUME ProgramInv, holds, inbox = << >>, asked = << >>
               PROVE  location # NoLocation /\ (failed \/ location = service.location)
    BY DEF LatestIsShown
  <2>1. SimpleInv /\ task = "ok"
    BY DEF ProgramInv
  <2>2. ~OnWay("location-updated")
    <3>1. Len(inbox) = 0
      OBVIOUS
    <3> QED BY <3>1 DEF OnWay
  <2> QED BY <2>1, <2>2 DEF SimpleInv, TaskInv, NewsInv
<1> QED BY <1>1, ProgramInvAlways, PTL
=============================================================================
