--------------------------- MODULE WebSourceProofs --------------------------
(***************************************************************************)
(* Proofs about WebSource, for any set of access points and any bound on   *)
(* the cache.                                                              *)
(*                                                                         *)
(* What is cached was a query before, so the invariant speaks of the query *)
(* under way as well: its key is the list it was sent with, whatever       *)
(* becomes of the list until the answer comes.                             *)
(***************************************************************************)
EXTENDS WebSource, TLAPS

(* A query, or what is left of it in the cache, has the access points it   *)
(* asks with for its key.                                                  *)
UnderItsRequest(e) == e.about.from = "list" => e.about.aps = e.key

WebInv ==
    /\ TypeOK
    /\ CachedUnderItsRequest
    /\ query # None => UnderItsRequest(query)

PointsTypeOK ==
    /\ active \in BOOLEAN /\ device \in BOOLEAN
    /\ list \subseteq BSSs
    /\ changed \in BOOLEAN
    /\ asked \in {"nobody", "self", "another"}

(* What Refresh relies on and keeps. *)
AnswersOK ==
    /\ level \in {"none", "city", "own"}
    /\ query \in Entries \cup {None}
    /\ cache \subseteq Entries
    /\ location \in Subjects \cup {None}
    /\ outcome \in {"nothing", "asked", "told", "failed", "overtaken"}
    /\ CachedUnderItsRequest
    /\ query # None => UnderItsRequest(query)

LEMMA WebInvParts ==
    WebInv <=> PointsTypeOK /\ AnswersOK /\ reachable \in BOOLEAN /\ checking \in BOOLEAN
  BY DEF WebInv, TypeOK, PointsTypeOK, AnswersOK

(* Every step of the access points leaves their types intact. *)
LEMMA PointsTyped ==
    ASSUME PointsTypeOK, AP!Next \/ UNCHANGED points
    PROVE  PointsTypeOK'
<1>1. CASE AP!Start
  BY <1>1 DEF PointsTypeOK, AP!Start
<1>2. CASE AP!Stop
  BY <1>2 DEF PointsTypeOK, AP!Stop, AP!Disconnect
<1>3. CASE AP!GainDevice
  BY <1>3 DEF PointsTypeOK, AP!GainDevice
<1>4. CASE AP!LoseDevice
  BY <1>4 DEF PointsTypeOK, AP!LoseDevice, AP!Disconnect
<1>5. CASE AP!ListChanges
  BY <1>5 DEF PointsTypeOK, AP!ListChanges
<1>6. CASE AP!Scanned
  BY <1>6 DEF PointsTypeOK, AP!Scanned
<1>7. CASE AP!OtherScanned
  BY <1>7 DEF PointsTypeOK, AP!OtherScanned
<1>8. CASE AP!OtherGone
  BY <1>8 DEF PointsTypeOK, AP!OtherGone
<1>9. CASE UNCHANGED points
  BY <1>9 DEF PointsTypeOK, points
<1>. QED
  BY <1>1, <1>2, <1>3, <1>4, <1>5, <1>6, <1>7, <1>8, <1>9 DEF AP!Next

(* A query is made for the list of the moment, and asks with it, with that *)
(* of another source or with none.                                         *)
LEMMA SubjectOfList ==
    ASSUME PointsTypeOK'
    PROVE  /\ Subject' \in Subjects
           /\ Subject'.from = "list" => Subject'.aps = list'
<1>1. CASE asked' = "another"
  <2>1. Subject' = Another
    BY <1>1 DEF Subject
  <2>. QED
    BY <2>1 DEF Subjects, Another
<1>2. CASE asked' = "self" /\ Cardinality(list') >= 2
  <2>1. Subject' = Asking(list')
    BY <1>2 DEF Subject
  <2>. QED
    BY <2>1 DEF Subjects, Asking, PointsTypeOK
<1>3. CASE asked' # "another" /\ ~(asked' = "self" /\ Cardinality(list') >= 2)
  <2>1. Subject' = GeoIP
    BY <1>3 DEF Subject
  <2>. QED
    BY <2>1 DEF Subjects, GeoIP
<1>. QED
  BY <1>1, <1>2, <1>3

LEMMA SoFarTyped ==
    ASSUME AnswersOK
    PROVE  SoFar \in {"nothing", "asked", "told", "failed", "overtaken"}
  BY DEF SoFar, AnswersOK

(* A refresh finds a location under its key, or asks under the key. *)
LEMMA RefreshKeeps ==
    ASSUME AnswersOK, PointsTypeOK', Refresh
    PROVE  AnswersOK'
<1>1. CASE CacheHit
  <2>1. PICK e \in cache : e.key = list' /\ location' = e.about
    BY <1>1 DEF CacheHit
  <2>2. e.about \in Subjects
    BY <2>1 DEF AnswersOK, Entries
  <2>. QED
    BY <1>1, <2>1, <2>2 DEF CacheHit, AnswersOK, CachedUnderItsRequest
<1>2. CASE Ask
  <2>1. level' \in {"none", "city", "own"}
    BY <1>2 DEF Ask, Available
  <2>2. query' \in Entries \cup {None} /\ (query' # None => UnderItsRequest(query'))
    <3>1. CASE UNCHANGED query
      BY <3>1 DEF AnswersOK
    <3>2. CASE query' = [key |-> list', about |-> Subject']
      <4>1. Subject' \in Subjects /\ (Subject'.from = "list" => Subject'.aps = list')
        BY SubjectOfList
      <4>2. list' \in SUBSET BSSs
        BY DEF PointsTypeOK
      <4>3. query' \in Entries
        BY <3>2, <4>1, <4>2 DEF Entries
      <4>4. query'.key = list' /\ query'.about = Subject'
        BY <3>2
      <4>. QED
        BY <3>2, <4>1, <4>3, <4>4 DEF UnderItsRequest
    <3>. QED
      BY <1>2, <3>1, <3>2 DEF Ask
  <2>3. outcome' \in {"nothing", "asked", "told", "failed", "overtaken"}
    BY <1>2, SoFarTyped DEF Ask
  <2>. QED
    BY <1>2, <2>1, <2>2, <2>3 DEF Ask, AnswersOK, CachedUnderItsRequest
<1>. QED
  BY <1>1, <1>2 DEF Refresh

(* What moves the access points, in any action, is a step of AccessPoints. *)
LEMMA PointsStep ==
    ASSUME [Next]_vars
    PROVE  AP!Next \/ UNCHANGED points
<1>1. CASE Start
  BY <1>1 DEF Start, AP!Next
<1>2. CASE Stop
  BY <1>2 DEF Stop, AP!Next
<1>3. CASE GainDevice
  BY <1>3 DEF GainDevice, AP!Next
<1>4. CASE LoseDevice
  BY <1>4 DEF LoseDevice, AP!Next
<1>5. CASE Scanned
  BY <1>5 DEF Scanned, AP!Next
<1>6. CASE PointsMove
  BY <1>6 DEF PointsMove, AP!Next
<1>7. CASE NetworkChanged \/ Checked \/ Answered \/ QueryFailed \/ Prune \/ UNCHANGED vars
  BY <1>7 DEF NetworkChanged, Checked, Answered, QueryFailed, Prune, vars
<1>. QED
  BY <1>1, <1>2, <1>3, <1>4, <1>5, <1>6, <1>7 DEF Next

LEMMA AnswersUnmoved ==
    ASSUME AnswersOK, UNCHANGED answers
    PROVE  AnswersOK'
  BY DEF AnswersOK, CachedUnderItsRequest, UnderItsRequest, answers

LEMMA WebInvInit == Init => WebInv
  BY DEF Init, AP!Init, WebInv, TypeOK, CachedUnderItsRequest

LEMMA WebInvStep ==
    ASSUME WebInv, [Next]_vars
    PROVE  WebInv'
<1>1. PointsTypeOK /\ AnswersOK /\ reachable \in BOOLEAN /\ checking \in BOOLEAN
  BY WebInvParts
<1>2. PointsTypeOK'
  BY <1>1, PointsTyped, PointsStep
<1>r. Refresh => AnswersOK'
  BY <1>1, <1>2, RefreshKeeps
<1>u. UNCHANGED answers => AnswersOK'
  BY <1>1, AnswersUnmoved
<1>3. reachable' \in BOOLEAN /\ checking' \in BOOLEAN
  BY <1>1 DEF Next, Start, Stop, GainDevice, LoseDevice, Scanned, PointsMove,
              NetworkChanged, Checked, Answered, QueryFailed, Prune, network, vars
<1>4. AnswersOK'
  <2>1. CASE Start
    BY <2>1, <1>r, <1>u DEF Start
  <2>2. CASE Stop
    BY <2>2, <1>1 DEF Stop, AnswersOK, CachedUnderItsRequest
  <2>3. CASE GainDevice
    BY <2>3, <1>r, <1>u DEF GainDevice
  <2>4. CASE LoseDevice
    BY <2>4, <1>r DEF LoseDevice
  <2>5. CASE Scanned
    BY <2>5, <1>r, <1>u DEF Scanned
  <2>6. CASE PointsMove
    BY <2>6, <1>1, SoFarTyped DEF PointsMove, AnswersOK, CachedUnderItsRequest,
                                  UnderItsRequest
  <2>n. CASE NetworkChanged
    BY <2>n, <1>u DEF NetworkChanged
  <2>7. CASE Checked
    BY <2>7, <1>r, <1>u DEF Checked
  <2>8. CASE Answered
    <3>1. query \in Entries /\ UnderItsRequest(query)
      BY <2>8, <1>1 DEF Answered, AnswersOK
    <3>2. query.about \in Subjects
      BY <3>1 DEF Entries
    <3>3. PICK kept \in SUBSET cache : cache' = kept \cup {query}
      BY <2>8 DEF Answered
    <3>4. cache' \subseteq Entries
      BY <3>1, <3>3, <1>1 DEF AnswersOK
    <3>5. CachedUnderItsRequest'
      BY <3>1, <3>3, <1>1 DEF AnswersOK, CachedUnderItsRequest, UnderItsRequest
    <3>6. outcome' \in {"nothing", "asked", "told", "failed", "overtaken"}
      BY <2>8, <1>1 DEF Answered, OutcomeOfAnswer, AnswersOK
    <3>. QED
      BY <2>8, <1>1, <3>2, <3>4, <3>5, <3>6 DEF Answered, AnswersOK
  <2>9. CASE QueryFailed
    BY <2>9, <1>1 DEF QueryFailed, AnswersOK, CachedUnderItsRequest
  <2>10. CASE Prune
    BY <2>10, <1>1 DEF Prune, AnswersOK, CachedUnderItsRequest, UnderItsRequest
  <2>11. CASE UNCHANGED vars
    BY <2>11, <1>u DEF vars
  <2>. QED
    BY <2>1, <2>2, <2>3, <2>4, <2>5, <2>6, <2>n, <2>7, <2>8, <2>9, <2>10,
       <2>11 DEF Next
<1>. QED
  BY <1>2, <1>3, <1>4 DEF WebInv, TypeOK, PointsTypeOK, AnswersOK

LEMMA WebInvAlways == Spec => []WebInv
  BY WebInvInit, WebInvStep, PTL DEF Spec

(* Every variable keeps its type, whatever is asked and answered, by       *)
(* gclue-web-source.c and the cache of gclue-wifi.c.                       *)
THEOREM WebTypes == Spec => []TypeOK
<1>1. WebInv => TypeOK
  BY DEF WebInv
<1>. QED
  BY <1>1, WebInvAlways, PTL

(* A location that was asked for with access points is cached under just   *)
(* these, although refresh_cb of gclue-wifi.c runs when the list may be    *)
(* another: the key was made with the query.                               *)
THEOREM AlwaysCachedUnderItsRequest == Spec => []CachedUnderItsRequest
<1>1. WebInv => CachedUnderItsRequest
  BY DEF WebInv
<1>. QED
  BY <1>1, WebInvAlways, PTL

(* No refresh, whoever causes it, asks anything for a stopped source or    *)
(* moves its location: the guards of find_cached_location's caller and of  *)
(* gclue_web_source_real_refresh_async are enough.                         *)
THEOREM StoppedAlwaysQuiet == Spec => StoppedIsQuiet
<1>1. ASSUME Next, ~active, ~active', query = None
      PROVE  UNCHANGED <<query, location>>
  <2>1. Refresh => UNCHANGED <<query, location>>
    BY <1>1 DEF Refresh, CacheHit, Ask
  <2>2. UNCHANGED answers => UNCHANGED <<query, location>>
    BY DEF answers
  <2>3. ~Start /\ ~Stop /\ ~Scanned /\ ~Answered /\ ~QueryFailed /\ ~Prune
    BY <1>1 DEF Start, Stop, Scanned, Answered, QueryFailed, Prune,
                AP!Start, AP!Stop, AP!Scanned, AP!Connected
  <2>4. CASE GainDevice
    BY <2>1, <2>2, <2>4 DEF GainDevice
  <2>5. CASE LoseDevice
    BY <2>1, <2>5 DEF LoseDevice
  <2>6. CASE PointsMove \/ NetworkChanged
    BY <2>2, <2>6 DEF PointsMove, NetworkChanged
  <2>7. CASE Checked
    BY <2>1, <2>2, <2>7 DEF Checked
  <2>. QED
    BY <1>1, <2>3, <2>4, <2>5, <2>6, <2>7 DEF Next
<1>2. [Next]_vars
      => [~active /\ ~active' /\ query = None => UNCHANGED <<query, location>>]_vars
  BY <1>1
<1>. QED
  BY <1>2, PTL DEF Spec, StoppedIsQuiet

(* The source asks for the access points of a source as AccessPoints has   *)
(* it, the specification that WifiScan implements: neither the network nor *)
(* an answer moves them any other way.                                     *)
THEOREM AsksForAccessPoints == Spec => AP!Spec
<1>1. Init => AP!Init
  BY DEF Init
<1>2. [Next]_vars => [AP!Next]_(AP!apVars)
  BY PointsStep DEF points, AP!apVars
<1>. QED
  BY <1>1, <1>2, PTL DEF Spec, AP!Spec
=============================================================================
