------------------------ MODULE ServiceManagerProofs ------------------------
(***************************************************************************)
(* Proofs about ServiceManager, for any peers, users and calls.            *)
(*                                                                         *)
(* One event completes a whole batch of the calls that wait for an agent,  *)
(* in the order of its queue, and a call may reuse the client that one     *)
(* before it has made.  What the batch does is a recursive function, so    *)
(* the proof goes over the places of the queue: after the first k of them  *)
(* the manager is sound (CoreInv), and what has been answered are these    *)
(* calls alone, each with an error or a client of its peer (Served).       *)
(*                                                                         *)
(* Induction comes first: the library's theorem has an operator for a      *)
(* parameter, so it is stated here with a set in place of a predicate and  *)
(* proved from the well-foundedness of finite sets; then that the          *)
(* recursive functions of ServiceManager are there and obey their          *)
(* equations.                                                              *)
(*                                                                         *)
(* The properties are invariants only together (ManagerInv): a client has  *)
(* an agent because those of a user who has none wait; one GetClient       *)
(* client per peer, and the timeout, need the identifiers to be distinct,  *)
(* the count to be that of the list and the timer to run while it is zero. *)
(***************************************************************************)
EXTENDS ServiceManager, FiniteSetTheorems, WellFoundedInduction, TLAPS

----------------------------------------------------------------------------
(* Induction over the natural numbers, with a set in place of a predicate. *)

(* Every nonempty set of natural numbers has a least element: an interval  *)
(* from 0 is smaller as a set exactly when it ends earlier, and the finite *)
(* sets are well-founded under strict inclusion.                           *)
LEMMA LeastNat ==
    ASSUME NEW S \in SUBSET Nat, S # {}
    PROVE  \E x \in S : \A y \in S : x <= y
<1>. DEFINE T == {0 .. x : x \in S}
<1>1. ASSUME NEW x \in S
      PROVE  0 .. x \in FiniteSubsetsOf(Nat)
  <2>1. IsFiniteSet(0 .. x)
    BY FS_Interval
  <2>. QED
    BY <2>1 DEF FiniteSubsetsOf
<1>2. T \subseteq FiniteSubsetsOf(Nat)
  BY <1>1
<1>3. T # {}
  OBVIOUS
<1>4. PICK t \in T : \A u \in T : <<u, t>> \notin StrictSubsetOrdering(Nat)
  <2>. HIDE DEF T
  <2>. QED
    BY <1>2, <1>3, FS_StrictSubsetOrderingWellFounded, WFMin
<1>5. PICK x \in S : t = 0 .. x
  OBVIOUS
<1>6. ASSUME NEW y \in S, y < x
      PROVE  FALSE
  <2>1. 0 .. y \in T /\ 0 .. y \in SUBSET Nat /\ 0 .. x \in SUBSET Nat
    OBVIOUS
  <2>2. 0 .. y \subseteq 0 .. x /\ x \in 0 .. x /\ x \notin 0 .. y
    BY <1>6
  <2>3. <<0 .. y, 0 .. x>> \in StrictSubsetOrdering(Nat)
    BY <2>1, <2>2 DEF StrictSubsetOrdering
  <2>. QED
    BY <1>4, <1>5, <2>1, <2>3
<1>. QED
  BY <1>6

LEMMA SetInduction ==
    ASSUME NEW S, 0 \in S, \A n \in Nat : n \in S => n + 1 \in S
    PROVE  Nat \subseteq S
<1>. SUFFICES ASSUME ~(Nat \subseteq S)
              PROVE  FALSE
  OBVIOUS
<1>. DEFINE Missed == {n \in Nat : n \notin S}
<1>1. PICK x \in Missed : \A y \in Missed : x <= y
  <2>1. Missed \in SUBSET Nat /\ Missed # {}
    OBVIOUS
  <2>. QED
    BY <2>1, LeastNat
<1>2. x - 1 \in Nat /\ x - 1 \in S
  BY <1>1
<1>. QED
  BY <1>1, <1>2

(* Induction up to a bound. *)
LEMMA SetInductionUpTo ==
    ASSUME NEW S, NEW N \in Nat, 0 \in S,
           \A n \in 0 .. N : n \in S /\ n < N => n + 1 \in S
    PROVE  0 .. N \subseteq S
<1>. DEFINE T == {n \in Nat : n <= N => n \in S}
<1>1. 0 \in T
  OBVIOUS
<1>2. ASSUME NEW n \in Nat, n \in T
      PROVE  n + 1 \in T
  BY <1>2
<1>3. Nat \subseteq T
  <2>. HIDE DEF T
  <2>. QED
    BY <1>1, <1>2, SetInduction
<1>. QED
  BY <1>3

(* Max is the greatest element of a nonempty, bounded set.                 *)
LEMMA MaxOfBounded ==
    ASSUME NEW S \in SUBSET Nat, S # {}, NEW k \in Nat, \A x \in S : x <= k
    PROVE  Max(S) \in S /\ \A x \in S : x <= Max(S)
<1>. DEFINE T == {k - x : x \in S}
<1>1. T \in SUBSET Nat /\ T # {}
  <2>1. \A x \in S : k - x \in Nat
    OBVIOUS
  <2>. QED
    BY <2>1
<1>2. PICK t \in T : \A u \in T : t <= u
  <2>. HIDE DEF T
  <2>. QED
    BY <1>1, LeastNat
<1>3. PICK m \in S : t = k - m
  OBVIOUS
<1>4. ASSUME NEW x \in S
      PROVE  m >= x
  <2>1. k - m <= k - x
    BY <1>2, <1>3
  <2>. QED
    BY <2>1
<1>5. \E y \in S : \A x \in S : y >= x
  BY <1>4
<1>6. Max(S) \in S /\ \A x \in S : Max(S) >= x
  BY <1>5 DEF Max
<1>. QED
  BY <1>6

----------------------------------------------------------------------------
(* Among. *)

AmongEqn(f, queue, chosen, N) ==
    f = [n \in 0 .. N |->
          IF n = 0 THEN <<>>
          ELSE IF queue[n] \in chosen THEN Append(f[n - 1], queue[n])
          ELSE f[n - 1]]

(* The recursive equations of Among define a function: there is one for    *)
(* every prefix, by induction.                                             *)
LEMMA AmongDefined ==
    ASSUME NEW queue \in Seq(Invocations), NEW chosen, NEW N \in Nat
    PROVE  \E f : AmongEqn(f, queue, chosen, N)
<1>. USE DEF AmongEqn
<1>. DEFINE Eqn(f, k) == AmongEqn(f, queue, chosen, k)
            S == {k \in Nat : \E f : Eqn(f, k)}
<1>1. 0 \in S
  <2>. DEFINE g == [n \in 0 .. 0 |-> <<>>]
  <2>1. Eqn(g, 0)
    OBVIOUS
  <2>. QED
    BY <2>1
<1>2. ASSUME NEW k \in Nat, k \in S
      PROVE  k + 1 \in S
  <2>1. PICK f : Eqn(f, k)
    BY <1>2
  <2>. DEFINE last == IF queue[k + 1] \in chosen THEN Append(f[k], queue[k + 1])
                      ELSE f[k]
              g == [n \in 0 .. k + 1 |-> IF n = k + 1 THEN last ELSE f[n]]
  <2>2. ASSUME NEW n \in 0 .. k + 1
        PROVE  g[n] = IF n = 0 THEN <<>>
              ELSE IF queue[n] \in chosen THEN Append(g[n - 1], queue[n])
              ELSE g[n - 1]
    <3>1. CASE n = k + 1
      BY <3>1
    <3>2. CASE n \in 0 .. k /\ n = 0
      <4>1. g[n] = f[n]
        BY <3>2
      <4>. QED
        BY <4>1, <3>2, <2>1
    <3>3. CASE n \in 0 .. k /\ n # 0
      <4>1. g[n] = f[n] /\ g[n - 1] = f[n - 1]
        BY <3>3
      <4>2. f[n] = IF queue[n] \in chosen THEN Append(f[n - 1], queue[n])
                   ELSE f[n - 1]
        BY <3>3, <2>1
      <4>. QED
        BY <4>1, <4>2, <3>3
    <3>. QED
      BY <3>1, <3>2, <3>3
  <2>3. Eqn(g, k + 1)
    <3>. DEFINE h == [n \in 0 .. k + 1 |->
              IF n = 0 THEN <<>>
              ELSE IF queue[n] \in chosen THEN Append(g[n - 1], queue[n])
              ELSE g[n - 1]]
    <3>1. \A n \in 0 .. k + 1 : g[n] = h[n]
      BY <2>2
    <3>2. DOMAIN g = 0 .. k + 1 /\ DOMAIN h = 0 .. k + 1
      OBVIOUS
    <3>3. g = [n \in 0 .. k + 1 |-> g[n]] /\ h = [n \in 0 .. k + 1 |-> h[n]]
      OBVIOUS
    <3>4. [n \in 0 .. k + 1 |-> g[n]] = [n \in 0 .. k + 1 |-> h[n]]
      <4>. HIDE DEF g, h
      <4>. QED
        BY <3>1
    <3>. QED
      BY <3>3, <3>4
  <2>4. \E h : Eqn(h, k + 1)
    <3>. HIDE DEF g, Eqn
    <3>. QED
      BY <2>3
  <2>. QED
    BY <2>4
<1>3. Nat \subseteq S
  <2>. HIDE DEF S
  <2>. QED
    BY <1>1, <1>2, SetInduction
<1>. QED
  BY <1>3

LEMMA AmongIs ==
    ASSUME NEW queue \in Seq(Invocations), NEW chosen
    PROVE  \E f :
              /\ Among(queue, chosen) = f[Len(queue)]
              /\ f[0] = <<>>
              /\ \A n \in 1 .. Len(queue) :
                    f[n] = IF queue[n] \in chosen THEN Append(f[n - 1], queue[n])
                           ELSE f[n - 1]
<1>. DEFINE N == Len(queue)
            Eqn(f) == AmongEqn(f, queue, chosen, N)
            upto == CHOOSE f : Eqn(f)
<1>1. N \in Nat
  OBVIOUS
<1>2. \E f : Eqn(f)
  BY <1>1, AmongDefined
<1>3. Eqn(upto)
  <2>. HIDE DEF Eqn
  <2>. QED
    BY <1>2
<1>4. Among(queue, chosen) = upto[N]
  BY DEF Among, AmongEqn
<1>. HIDE DEF upto
<1>5. upto[0] = <<>>
  BY <1>1, <1>3 DEF AmongEqn
<1>6. ASSUME NEW n \in 1 .. N
      PROVE  upto[n] = IF queue[n] \in chosen THEN Append(upto[n - 1], queue[n])
                       ELSE upto[n - 1]
  <2>1. n \in 0 .. N /\ n # 0
    BY <1>1
  <2>. QED
    BY <1>3, <2>1 DEF AmongEqn
<1>. QED
  BY <1>4, <1>5, <1>6

(* Among keeps the chosen entries, and each as often as it was.            *)
LEMMA AmongKeeps ==
    ASSUME NEW queue \in Seq(Invocations), NEW chosen
    PROVE  /\ Among(queue, chosen) \in Seq(Invocations)
           /\ ToSet(Among(queue, chosen)) = ToSet(queue) \cap chosen
           /\ (\A i, j \in DOMAIN queue : queue[i] = queue[j] => i = j)
              => \A i, j \in DOMAIN Among(queue, chosen) :
                    Among(queue, chosen)[i] = Among(queue, chosen)[j] => i = j
<1>. DEFINE N == Len(queue)
            Once(q) == \A i, j \in DOMAIN q : q[i] = q[j] => i = j
            Before(n) == {queue[i] : i \in 1 .. n}
            Good(q, n) == /\ q \in Seq(Invocations)
                          /\ ToSet(q) = Before(n) \cap chosen
                          /\ Once(queue) => Once(q)
<1>1. PICK f :
              /\ Among(queue, chosen) = f[N]
              /\ f[0] = <<>>
              /\ \A n \in 1 .. N :
                    f[n] = IF queue[n] \in chosen THEN Append(f[n - 1], queue[n])
                           ELSE f[n - 1]
  BY AmongIs
<1>2. N \in Nat /\ DOMAIN queue = 1 .. N /\ \A n \in 1 .. N : queue[n] \in Invocations
  OBVIOUS
<1>. DEFINE S == {n \in 0 .. N : Good(f[n], n)}
<1>3. 0 \in S
  <2>1. <<>> \in Seq(Invocations) /\ ToSet(<<>>) = {} /\ Once(<<>>)
    BY DEF ToSet
  <2>2. Before(0) = {}
    OBVIOUS
  <2>3. Good(<<>>, 0)
    BY <2>1, <2>2
  <2>4. Good(f[0], 0) /\ 0 \in 0 .. N
    BY <2>3, <1>1, <1>2
  <2>. QED
    <3>. HIDE DEF Good
    <3>. QED
      BY <2>4
<1>4. ASSUME NEW n \in 0 .. N, n \in S, n < N
      PROVE  n + 1 \in S
  <2>. DEFINE q == f[n]
              e == queue[n + 1]
  <2>1. Good(q, n) /\ n + 1 \in 1 .. N /\ n + 1 \in 0 .. N /\ e \in Invocations
    BY <1>2, <1>4
  <2>2. Before(n + 1) = Before(n) \cup {e}
    <3>1. 1 .. n + 1 = (1 .. n) \cup {n + 1}
      BY <2>1
    <3>. QED
      BY <3>1
  <2>3. CASE e \in chosen
    <3>1. f[n + 1] = Append(q, e)
      <4>1. n + 1 - 1 = n /\ n + 1 \in 1 .. N
        BY <2>1
      <4>2. f[n + 1] = IF queue[n + 1] \in chosen
                       THEN Append(f[n + 1 - 1], queue[n + 1])
                       ELSE f[n + 1 - 1]
        BY <4>1, <1>1
      <4>. QED
        BY <4>1, <4>2, <2>3
    <3>2. Append(q, e) \in Seq(Invocations) /\ Len(Append(q, e)) = Len(q) + 1
          /\ DOMAIN Append(q, e) = 1 .. Len(q) + 1
          /\ DOMAIN q = 1 .. Len(q) /\ Len(q) \in Nat
          /\ (\A i \in 1 .. Len(q) : Append(q, e)[i] = q[i])
          /\ Append(q, e)[Len(q) + 1] = e
      BY <2>1
    <3>3. ToSet(Append(q, e)) = ToSet(q) \cup {e}
      <4>1. 1 .. Len(q) + 1 = (1 .. Len(q)) \cup {Len(q) + 1}
        BY <3>2
      <4>. QED
        BY <4>1, <3>2 DEF ToSet
    <3>4. ToSet(f[n + 1]) = Before(n + 1) \cap chosen
      BY <3>1, <3>3, <2>1, <2>2, <2>3
    <3>5. ASSUME Once(queue)
          PROVE  Once(Append(q, e))
      <4>1. e \notin Before(n)
        BY <3>5, <1>2, <2>1
      <4>2. \A i \in 1 .. Len(q) : q[i] # e
        BY <4>1, <2>1, <3>2 DEF ToSet
      <4>3. Once(q)
        BY <3>5, <2>1
      <4>4. ASSUME NEW i \in 1 .. Len(q) + 1, NEW j \in 1 .. Len(q) + 1,
                   Append(q, e)[i] = Append(q, e)[j]
            PROVE  i = j
        <5>1. CASE i \in 1 .. Len(q) /\ j \in 1 .. Len(q)
          BY <5>1, <4>3, <4>4, <3>2
        <5>2. CASE i = Len(q) + 1 /\ j \in 1 .. Len(q)
          BY <5>2, <4>2, <4>4, <3>2
        <5>3. CASE j = Len(q) + 1 /\ i \in 1 .. Len(q)
          BY <5>3, <4>2, <4>4, <3>2
        <5>. QED
          BY <5>1, <5>2, <5>3, <3>2
      <4>. QED
        BY <4>4, <3>2
    <3>. QED
      BY <3>1, <3>2, <3>4, <3>5, <2>1
  <2>4. CASE e \notin chosen
    <3>1. f[n + 1] = q
      BY <2>1, <2>4, <1>1
    <3>2. Before(n + 1) \cap chosen = Before(n) \cap chosen
      BY <2>2, <2>4
    <3>. QED
      BY <3>1, <3>2, <2>1
  <2>. QED
    BY <2>3, <2>4
<1>5. 0 .. N \subseteq S
  <2>. HIDE DEF S
  <2>. QED
    BY <1>2, <1>3, <1>4, SetInductionUpTo
<1>6. Good(f[N], N)
  <2>1. N \in 0 .. N
    BY <1>2
  <2>2. N \in S
    <3>. HIDE DEF S
    <3>. QED
      BY <2>1, <1>5
  <2>. QED
    BY <2>2
<1>7. ToSet(queue) = Before(N)
  BY <1>2 DEF ToSet
<1>. QED
  BY <1>1, <1>6, <1>7

----------------------------------------------------------------------------
(* CompleteAll. *)

CompleteEqn(f, batch, fails, N) ==
    f = [n \in 0 .. N |->
          IF n = 0 THEN core ELSE Complete(f[n - 1], batch[n], fails)]

LEMMA CompleteAllDefined ==
    ASSUME NEW batch, NEW fails, NEW N \in Nat
    PROVE  \E f : CompleteEqn(f, batch, fails, N)
<1>. USE DEF CompleteEqn
<1>. DEFINE Eqn(f, k) == CompleteEqn(f, batch, fails, k)
            S == {k \in Nat : \E f : Eqn(f, k)}
<1>1. 0 \in S
  <2>. DEFINE g == [n \in 0 .. 0 |-> core]
  <2>1. Eqn(g, 0)
    OBVIOUS
  <2>. QED
    BY <2>1
<1>2. ASSUME NEW k \in Nat, k \in S
      PROVE  k + 1 \in S
  <2>1. PICK f : Eqn(f, k)
    BY <1>2
  <2>. DEFINE last == Complete(f[k], batch[k + 1], fails)
              g == [n \in 0 .. k + 1 |-> IF n = k + 1 THEN last ELSE f[n]]
  <2>2. ASSUME NEW n \in 0 .. k + 1
        PROVE  g[n] = IF n = 0 THEN core
                      ELSE Complete(g[n - 1], batch[n], fails)
    <3>1. CASE n = k + 1
      BY <3>1
    <3>2. CASE n \in 0 .. k /\ n = 0
      <4>1. g[n] = f[n]
        BY <3>2
      <4>. QED
        BY <4>1, <3>2, <2>1
    <3>3. CASE n \in 0 .. k /\ n # 0
      <4>1. g[n] = f[n] /\ g[n - 1] = f[n - 1]
        BY <3>3
      <4>2. f[n] = Complete(f[n - 1], batch[n], fails)
        BY <3>3, <2>1
      <4>. QED
        BY <4>1, <4>2, <3>3
    <3>. QED
      BY <3>1, <3>2, <3>3
  <2>3. Eqn(g, k + 1)
    <3>. DEFINE h == [n \in 0 .. k + 1 |->
              IF n = 0 THEN core ELSE Complete(g[n - 1], batch[n], fails)]
    <3>1. \A n \in 0 .. k + 1 : g[n] = h[n]
      BY <2>2
    <3>2. g = [n \in 0 .. k + 1 |-> g[n]] /\ h = [n \in 0 .. k + 1 |-> h[n]]
      OBVIOUS
    <3>3. [n \in 0 .. k + 1 |-> g[n]] = [n \in 0 .. k + 1 |-> h[n]]
      <4>. HIDE DEF g, h
      <4>. QED
        BY <3>1
    <3>. QED
      BY <3>2, <3>3
  <2>4. \E h : Eqn(h, k + 1)
    <3>. HIDE DEF g, Eqn
    <3>. QED
      BY <2>3
  <2>. QED
    BY <2>4
<1>3. Nat \subseteq S
  <2>. HIDE DEF S
  <2>. QED
    BY <1>1, <1>2, SetInduction
<1>. QED
  BY <1>3

LEMMA CompleteAllIs ==
    ASSUME NEW batch \in Seq(Invocations), NEW fails
    PROVE  \E f :
              /\ CompleteAll(batch, fails) = f[Len(batch)]
              /\ f[0] = core
              /\ \A n \in 1 .. Len(batch) :
                    f[n] = Complete(f[n - 1], batch[n], fails)
<1>. DEFINE N == Len(batch)
            Eqn(f) == CompleteEqn(f, batch, fails, N)
            after == CHOOSE f : Eqn(f)
<1>1. N \in Nat
  OBVIOUS
<1>2. \E f : Eqn(f)
  BY <1>1, CompleteAllDefined
<1>3. Eqn(after)
  <2>. HIDE DEF Eqn
  <2>. QED
    BY <1>2
<1>4. CompleteAll(batch, fails) = after[N]
  BY DEF CompleteAll, CompleteEqn
<1>. HIDE DEF after
<1>5. after[0] = core
  BY <1>1, <1>3 DEF CompleteEqn
<1>6. ASSUME NEW n \in 1 .. N
      PROVE  after[n] = Complete(after[n - 1], batch[n], fails)
  <2>1. n \in 0 .. N /\ n # 0
    BY <1>1
  <2>. QED
    BY <1>3, <2>1 DEF CompleteEqn
<1>. QED
  BY <1>4, <1>5, <1>6

----------------------------------------------------------------------------
(* One completion. *)

ClientsOf(m, p) == {c \in m.clients : c.peer = p}

(* The client that the completion of a call makes.                         *)
NewClient(m, r) ==
    [id |-> m.lastId + 1, peer |-> calls[r].peer,
     agent |-> agents'[UserOf[calls[r].peer]], active |-> FALSE, system |-> FALSE]

LEMMA CompleteReuses ==
    ASSUME NEW m \in CoreType, NEW r \in Invocations, NEW fails,
           calls[r].reuse, ClientsOf(m, calls[r].peer) # {}
    PROVE  Complete(m, r, fails) =
             [clients |-> m.clients, num |-> m.num, lastId |-> m.lastId,
              idleTimer |-> m.idleTimer,
              answer |-> [m.answer EXCEPT
                            ![r] = Max({c.id : c \in ClientsOf(m, calls[r].peer)})]]
BY DEF Complete, CompleteWith, ClientsOf, CoreType

LEMMA CompleteFails ==
    ASSUME NEW m \in CoreType, NEW r \in Invocations, NEW fails,
           ~(calls[r].reuse /\ ClientsOf(m, calls[r].peer) # {}), r \in fails
    PROVE  Complete(m, r, fails) =
             [clients |-> m.clients, num |-> m.num, lastId |-> m.lastId + 1,
              idleTimer |-> m.idleTimer, answer |-> m.answer]
BY DEF Complete, CompleteWith, ClientsOf, CoreType

LEMMA CompleteMakes ==
    ASSUME NEW m \in CoreType, NEW r \in Invocations, NEW fails,
           ~(calls[r].reuse /\ ClientsOf(m, calls[r].peer) # {}), r \notin fails
    PROVE  Complete(m, r, fails) =
             [clients |-> m.clients \cup {NewClient(m, r)}, num |-> m.num + 1,
              lastId |-> m.lastId + 1,
              idleTimer |-> IF m.num = 0 THEN FALSE ELSE m.idleTimer,
              answer |-> [m.answer EXCEPT ![r] = m.lastId + 1]]
BY DEF Complete, CompleteWith, ClientsOf, NewClient, CoreType

(* The counter, the timeout, the ids and the answers of a manager agree.   *)
CoreInv(m) ==
    /\ IsFiniteSet(m.clients)
    /\ m.num = Cardinality(m.clients)
    /\ m.idleTimer <=> m.clients = {}
    /\ \A c \in m.clients : c.id \in 1 .. m.lastId
    /\ \A c, d \in m.clients : c.id = d.id => c = d
    /\ \A r \in Invocations : m.answer[r] <= m.lastId

(* What the completion of r makes of m.                                    *)
Completed(m, k, r) ==
    /\ k \in CoreType
    /\ CoreInv(k)
    /\ m.clients \subseteq k.clients
    /\ m.lastId <= k.lastId
    /\ \A c \in k.clients \ m.clients :
          /\ k.clients = m.clients \cup {c}
          /\ ~c.active
          /\ c.peer = calls[r].peer
          /\ c.agent = agents'[UserOf[calls[r].peer]]
          /\ calls[r].reuse => ClientsOf(m, calls[r].peer) = {}
    /\ \A q \in Invocations \ {r} : k.answer[q] = m.answer[q]
    /\ \/ k.answer[r] = m.answer[r]
       \/ /\ \E c \in k.clients : c.id = k.answer[r] /\ c.peer = calls[r].peer
          /\ ~calls[r].reuse => k.answer[r] = k.lastId /\ m.lastId < k.lastId

LEMMA CompleteCompletes ==
    ASSUME NEW m \in CoreType, CoreInv(m), NEW r \in Invocations, NEW fails,
           calls[r].peer \in Peers, agents' \in [Users -> Agents \cup {NoOne}]
    PROVE  Completed(m, Complete(m, r, fails), r)
<1>. DEFINE k == Complete(m, r, fails)
            peer == calls[r].peer
            mine == ClientsOf(m, peer)
<1>1. /\ m.clients \in SUBSET ClientType /\ m.num \in Nat /\ m.lastId \in Nat
      /\ m.idleTimer \in BOOLEAN /\ m.answer \in [Invocations -> Nat]
  BY DEF CoreType
<1>2. CASE calls[r].reuse /\ mine # {}
  <2>. DEFINE ids == {c.id : c \in mine}
  <2>1. k = [clients |-> m.clients, num |-> m.num, lastId |-> m.lastId,
             idleTimer |-> m.idleTimer, answer |-> [m.answer EXCEPT ![r] = Max(ids)]]
    BY <1>2, CompleteReuses
  <2>2. ids \in SUBSET Nat /\ ids # {} /\ \A x \in ids : x <= m.lastId
    BY <1>1, <1>2 DEF ClientsOf, CoreInv, ClientType
  <2>3. Max(ids) \in ids
    <3>. HIDE DEF ids
    <3>. QED
      BY <1>1, <2>2, MaxOfBounded
  <2>4. PICK c \in m.clients : c.id = Max(ids) /\ c.peer = peer
    BY <2>3 DEF ClientsOf
  <2>. HIDE DEF ids
  <2>5. Max(ids) \in Nat /\ Max(ids) <= m.lastId
    BY <2>2, <2>3
  <2>. DEFINE x == Max(ids)
              answer == [m.answer EXCEPT ![r] = x]
  <2>6. answer \in [Invocations -> Nat] /\ answer[r] = x
        /\ \A q \in Invocations \ {r} : answer[q] = m.answer[q]
    BY <1>1, <2>5
  <2>. HIDE DEF answer, x
  <2>7. k.clients = m.clients /\ k.num = m.num /\ k.lastId = m.lastId
        /\ k.idleTimer = m.idleTimer /\ k.answer = answer
    BY <2>1 DEF answer, x
  <2>8. k \in CoreType
    BY <1>1, <2>1, <2>6 DEF CoreType, answer, x
  <2>. HIDE DEF k
  <2>9. \A q \in Invocations : answer[q] <= m.lastId
    BY <2>5, <2>6 DEF CoreInv, x
  <2>10. CoreInv(k)
    BY <2>7, <2>9 DEF CoreInv
  <2>11. \E d \in k.clients : d.id = k.answer[r] /\ d.peer = peer
    BY <2>4, <2>6, <2>7 DEF x
  <2>. QED
    BY <1>1, <1>2, <2>6, <2>7, <2>8, <2>10, <2>11 DEF Completed, k
<1>3. CASE ~(calls[r].reuse /\ mine # {}) /\ r \in fails
  <2>1. k = [clients |-> m.clients, num |-> m.num, lastId |-> m.lastId + 1,
             idleTimer |-> m.idleTimer, answer |-> m.answer]
    BY <1>3, CompleteFails
  <2>2. k.clients = m.clients /\ k.num = m.num /\ k.lastId = m.lastId + 1
        /\ k.idleTimer = m.idleTimer /\ k.answer = m.answer
    BY <2>1
  <2>3. k \in CoreType
    BY <1>1, <2>1 DEF CoreType
  <2>. HIDE DEF k
  <2>4. \A c \in m.clients : c.id \in 1 .. m.lastId + 1
    BY <1>1 DEF CoreInv
  <2>5. \A q \in Invocations : m.answer[q] <= m.lastId + 1
    BY <1>1 DEF CoreInv
  <2>6. CoreInv(k)
    BY <2>2, <2>4, <2>5 DEF CoreInv
  <2>. QED
    BY <1>1, <2>2, <2>3, <2>6 DEF Completed, k
<1>4. CASE ~(calls[r].reuse /\ mine # {}) /\ r \notin fails
  <2>. DEFINE id == m.lastId + 1
              c == NewClient(m, r)
              timer == IF m.num = 0 THEN FALSE ELSE m.idleTimer
              answer == [m.answer EXCEPT ![r] = id]
  <2>1. k = [clients |-> m.clients \cup {c}, num |-> m.num + 1, lastId |-> id,
             idleTimer |-> timer, answer |-> answer]
    BY <1>4, CompleteMakes
  <2>2. c \in ClientType /\ c.id = id /\ c.peer = peer /\ ~c.active
        /\ c.agent = agents'[UserOf[peer]]
    BY <1>1, ManagerAssumption DEF NewClient, ClientType
  <2>3. c \notin m.clients
    BY <1>1, <2>2 DEF CoreInv
  <2>4. IsFiniteSet(m.clients \cup {c})
        /\ Cardinality(m.clients \cup {c}) = m.num + 1
    <3>1. IsFiniteSet(m.clients) /\ m.num = Cardinality(m.clients)
      BY DEF CoreInv
    <3>. HIDE DEF c
    <3>2. IsFiniteSet(m.clients \cup {c})
          /\ Cardinality(m.clients \cup {c}) =
               IF c \in m.clients THEN Cardinality(m.clients)
               ELSE Cardinality(m.clients) + 1
      BY <3>1, FS_AddElement
    <3>. QED
      BY <2>3, <3>1, <3>2
  <2>5. ~timer /\ timer \in BOOLEAN
    BY <1>1, FS_EmptySet DEF CoreInv
  <2>6. id \in Nat /\ answer \in [Invocations -> Nat] /\ answer[r] = id
        /\ \A q \in Invocations \ {r} : answer[q] = m.answer[q]
    BY <1>1
  <2>. HIDE DEF answer, timer
  <2>7. k.clients = m.clients \cup {c} /\ k.num = m.num + 1 /\ k.lastId = id
        /\ k.idleTimer = timer /\ k.answer = answer
    BY <2>1
  <2>8. k \in CoreType
    BY <1>1, <2>1, <2>2, <2>5, <2>6 DEF CoreType
  <2>. HIDE DEF k, c
  <2>9. \A d \in k.clients : d.id \in 1 .. id
    BY <1>1, <2>2, <2>7 DEF CoreInv
  <2>10. \A d, e \in k.clients : d.id = e.id => d = e
    <3>1. \A d \in m.clients : d.id # c.id
      BY <1>1, <2>2 DEF CoreInv
    <3>. QED
      BY <2>7, <3>1 DEF CoreInv
  <2>11. \A q \in Invocations : answer[q] <= id
    BY <1>1, <2>6 DEF CoreInv
  <2>12. CoreInv(k)
    BY <2>4, <2>5, <2>7, <2>9, <2>10, <2>11 DEF CoreInv
  <2>13. \A d \in k.clients \ m.clients : d = c
    BY <2>7
  <2>14. calls[r].reuse => mine = {}
    BY <1>4
  <2>15. m.lastId < id /\ m.lastId <= id
    BY <1>1
  <2>16. \E d \in k.clients : d.id = k.answer[r] /\ d.peer = peer
    BY <2>2, <2>6, <2>7
  <2>. HIDE DEF id
  <2>. QED
    BY <2>2, <2>6, <2>7, <2>8, <2>12, <2>13, <2>14, <2>15, <2>16 DEF Completed, k
<1>. QED
  BY <1>2, <1>3, <1>4

----------------------------------------------------------------------------
(* A batch of completions. *)

AllReuse(p) == \A r \in Invocations : calls[r].peer = p => calls[r].reuse
OnlyOne(m, p) == \A c, d \in m.clients : c.peer = p /\ d.peer = p => c = d

(* What the completion of the calls in done has made of core.              *)
Served(m, done) ==
    /\ m \in CoreType
    /\ CoreInv(m)
    /\ core.clients \subseteq m.clients
    /\ core.lastId <= m.lastId
    /\ \A c \in m.clients \ core.clients :
          ~c.active /\ \E r \in done : c.agent = agents'[UserOf[calls[r].peer]]
    /\ \A p \in Peers : AllReuse(p) /\ OnlyOne(core, p) => OnlyOne(m, p)
    /\ \A r \in Invocations \ done : m.answer[r] = core.answer[r]
    /\ \A r \in done : m.answer[r] # 0 =>
          \E c \in m.clients : c.id = m.answer[r] /\ c.peer = calls[r].peer
    /\ \A r \in done : m.answer[r] # 0 /\ ~calls[r].reuse =>
          /\ core.lastId < m.answer[r]
          /\ \A q \in Invocations \ {r} :
                ~calls[q].reuse => m.answer[q] # m.answer[r]

(* Nothing served yet. *)
LEMMA ServedNone ==
    ASSUME core \in CoreType, CoreInv(core)
    PROVE  Served(core, {})
BY DEF Served, CoreType

(* One more call is served; it had no answer before. *)
LEMMA ServedMore ==
    ASSUME NEW m, NEW done \in SUBSET Invocations, Served(m, done),
           NEW r \in Invocations, NEW fails,
           core \in CoreType, CoreInv(core), core.answer[r] = 0,
           calls[r].peer \in Peers, agents' \in [Users -> Agents \cup {NoOne}]
    PROVE  Served(Complete(m, r, fails), done \cup {r})
<1>. DEFINE k == Complete(m, r, fails)
            peer == calls[r].peer
<1>1. m \in CoreType /\ CoreInv(m)
  BY DEF Served
<1>2. Completed(m, k, r)
  BY <1>1, CompleteCompletes
<1>. HIDE DEF k
<1>3. k \in CoreType /\ CoreInv(k)
  BY <1>2 DEF Completed
<1>4. /\ core.lastId \in Nat /\ m.lastId \in Nat /\ k.lastId \in Nat
      /\ core.answer \in [Invocations -> Nat] /\ m.answer \in [Invocations -> Nat]
      /\ k.answer \in [Invocations -> Nat]
  BY <1>1, <1>3 DEF CoreType
<1>5. core.clients \subseteq k.clients /\ m.clients \subseteq k.clients
      /\ core.lastId <= k.lastId /\ core.lastId <= m.lastId /\ m.lastId <= k.lastId
  BY <1>2, <1>4 DEF Completed, Served
<1>6. ASSUME NEW c \in k.clients \ core.clients
      PROVE  ~c.active /\ \E s \in done \cup {r} :
                c.agent = agents'[UserOf[calls[s].peer]]
  BY <1>2 DEF Completed, Served
<1>7. ASSUME NEW p \in Peers, AllReuse(p), OnlyOne(core, p)
      PROVE  OnlyOne(k, p)
  <2>1. OnlyOne(m, p)
    BY <1>7 DEF Served
  <2>2. CASE k.clients = m.clients
    BY <2>1, <2>2 DEF OnlyOne
  <2>3. CASE k.clients # m.clients
    <3>1. PICK c \in k.clients \ m.clients : TRUE
      BY <1>5, <2>3
    <3>2. /\ k.clients = m.clients \cup {c} /\ c.peer = peer
          /\ calls[r].reuse => ClientsOf(m, peer) = {}
      BY <1>2, <3>1 DEF Completed
    <3>3. CASE peer = p
      <4>1. \A d \in m.clients : d.peer # p
        BY <1>7, <3>2, <3>3 DEF AllReuse, ClientsOf
      <4>. QED
        BY <3>2, <4>1 DEF OnlyOne
    <3>4. CASE peer # p
      BY <2>1, <3>2, <3>4 DEF OnlyOne
    <3>. QED
      BY <3>3, <3>4
  <2>. QED
    BY <2>2, <2>3
<1>8. ASSUME NEW q \in Invocations \ (done \cup {r})
      PROVE  k.answer[q] = core.answer[q]
  BY <1>2 DEF Completed, Served
<1>9. m.answer[r] # 0 => r \in done
  BY DEF Served
<1>10. ASSUME NEW q \in done \cup {r}, k.answer[q] # 0
       PROVE  \E c \in k.clients : c.id = k.answer[q] /\ c.peer = calls[q].peer
  <2>1. CASE k.answer[q] = m.answer[q]
    <3>1. q \in done
      BY <1>9, <1>10, <2>1
    <3>2. PICK c \in m.clients : c.id = m.answer[q] /\ c.peer = calls[q].peer
      BY <1>10, <2>1, <3>1 DEF Served
    <3>. QED
      BY <1>5, <2>1, <3>2
  <2>2. CASE k.answer[q] # m.answer[q]
    <3>1. q = r
      BY <1>2, <2>2 DEF Completed
    <3>. QED
      BY <1>2, <2>2, <3>1 DEF Completed
  <2>. QED
    BY <2>1, <2>2
<1>11. ASSUME NEW q \in done \cup {r}, k.answer[q] # 0, ~calls[q].reuse
       PROVE  /\ core.lastId < k.answer[q]
              /\ \A x \in Invocations \ {q} :
                    ~calls[x].reuse => k.answer[x] # k.answer[q]
  <2>1. \A x \in Invocations : m.answer[x] <= m.lastId
    BY <1>1 DEF CoreInv
  <2>2. CASE k.answer[r] = m.answer[r]
    <3>1. \A x \in Invocations : k.answer[x] = m.answer[x]
      BY <1>2, <2>2 DEF Completed
    <3>2. q \in done
      BY <1>9, <1>11, <2>2
    <3>. QED
      BY <1>11, <3>1, <3>2 DEF Served
  <2>3. CASE k.answer[r] # m.answer[r] /\ calls[r].reuse
    <3>1. q # r /\ q \in done
      BY <1>11, <2>3
    <3>2. k.answer[q] = m.answer[q]
      BY <1>2, <3>1 DEF Completed
    <3>3. \A x \in Invocations \ {q} : ~calls[x].reuse => k.answer[x] = m.answer[x]
      BY <1>2, <2>3 DEF Completed
    <3>. QED
      BY <1>11, <3>1, <3>2, <3>3 DEF Served
  <2>4. CASE k.answer[r] # m.answer[r] /\ ~calls[r].reuse
    <3>1. k.answer[r] = k.lastId /\ m.lastId < k.lastId
      BY <1>2, <2>4 DEF Completed
    <3>2. \A x \in Invocations \ {r} : k.answer[x] = m.answer[x]
      BY <1>2 DEF Completed
    <3>3. \A x \in Invocations \ {r} : k.answer[x] # k.answer[r]
      BY <1>4, <2>1, <3>1, <3>2
    <3>4. CASE q = r
      BY <1>4, <1>5, <3>1, <3>3, <3>4
    <3>5. CASE q # r
      <4>1. q \in done /\ k.answer[q] = m.answer[q]
        BY <3>2, <3>5
      <4>. QED
        BY <1>11, <3>2, <3>3, <3>5, <4>1 DEF Served
    <3>. QED
      BY <3>4, <3>5
  <2>. QED
    BY <2>2, <2>3, <2>4
<1>. QED
  BY <1>3, <1>5, <1>6, <1>7, <1>8, <1>10, <1>11 DEF Served, k

(* A whole batch is served, whatever its order and its failures.           *)
LEMMA ServedAll ==
    ASSUME NEW batch \in Seq(Invocations), NEW fails,
           core \in CoreType, CoreInv(core),
           \A r \in ToSet(batch) : core.answer[r] = 0 /\ calls[r].peer \in Peers,
           agents' \in [Users -> Agents \cup {NoOne}]
    PROVE  Served(CompleteAll(batch, fails), ToSet(batch))
<1>. DEFINE N == Len(batch)
            Before(n) == {batch[i] : i \in 1 .. n}
<1>1. PICK f :
              /\ CompleteAll(batch, fails) = f[N]
              /\ f[0] = core
              /\ \A n \in 1 .. N : f[n] = Complete(f[n - 1], batch[n], fails)
  BY CompleteAllIs
<1>2. N \in Nat /\ DOMAIN batch = 1 .. N /\ \A n \in 1 .. N : batch[n] \in Invocations
  OBVIOUS
<1>. DEFINE S == {n \in 0 .. N : Served(f[n], Before(n))}
<1>3. 0 \in S
  <2>1. Before(0) = {}
    OBVIOUS
  <2>2. Served(f[0], Before(0))
    BY <1>1, <2>1, ServedNone
  <2>. QED
    BY <1>2, <2>2
<1>4. ASSUME NEW n \in 0 .. N, n \in S, n < N
      PROVE  n + 1 \in S
  <2>1. n + 1 \in 1 .. N /\ n + 1 \in 0 .. N /\ n + 1 - 1 = n
    BY <1>2, <1>4
  <2>2. f[n + 1] = Complete(f[n], batch[n + 1], fails)
    BY <1>1, <2>1
  <2>3. Before(n + 1) = Before(n) \cup {batch[n + 1]}
    <3>1. 1 .. n + 1 = (1 .. n) \cup {n + 1}
      BY <2>1
    <3>. QED
      BY <3>1
  <2>4. Before(n) \in SUBSET Invocations
    BY <1>2
  <2>5. batch[n + 1] \in Invocations /\ batch[n + 1] \in ToSet(batch)
    BY <1>2, <2>1 DEF ToSet
  <2>6. Served(f[n], Before(n))
    BY <1>4
  <2>. HIDE DEF Before
  <2>7. Served(f[n + 1], Before(n + 1))
    BY <2>2, <2>3, <2>4, <2>5, <2>6, ServedMore
  <2>. QED
    BY <2>1, <2>7
<1>5. 0 .. N \subseteq S
  <2>. HIDE DEF S
  <2>. QED
    BY <1>2, <1>3, <1>4, SetInductionUpTo
<1>6. Served(f[N], Before(N))
  <2>1. N \in 0 .. N
    BY <1>2
  <2>2. N \in S
    <3>. HIDE DEF S
    <3>. QED
      BY <2>1, <1>5
  <2>. QED
    BY <2>2
<1>7. ToSet(batch) = Before(N)
  BY <1>2 DEF ToSet
<1>. QED
  BY <1>1, <1>6, <1>7

----------------------------------------------------------------------------
(* Deleting and changing clients. *)

LEMMA CoreChanged ==
    ASSUME NEW m \in CoreType, NEW clients, NEW num, NEW idleTimer
    PROVE  [m EXCEPT !.clients = clients, !.num = num, !.idleTimer = idleTimer] =
             [clients |-> clients, num |-> num, lastId |-> m.lastId,
              idleTimer |-> idleTimer, answer |-> m.answer]
<1>. DEFINE k(c, n, t) == [clients |-> c, num |-> n, lastId |-> m.lastId,
                           idleTimer |-> t, answer |-> m.answer]
            m1 == [m EXCEPT !.clients = clients]
            m2 == [m1 EXCEPT !.num = num]
            m3 == [m2 EXCEPT !.idleTimer = idleTimer]
<1>1. m = k(m.clients, m.num, m.idleTimer)
  BY DEF CoreType
<1>2. m1 = k(clients, m.num, m.idleTimer)
  BY <1>1
<1>. HIDE DEF m1
<1>3. m2 = k(clients, num, m.idleTimer)
  BY <1>2
<1>. HIDE DEF m2
<1>4. m3 = k(clients, num, idleTimer)
  BY <1>3
<1>5. m3 = [m EXCEPT !.clients = clients, !.num = num, !.idleTimer = idleTimer]
  BY Zenon DEF m1, m2
<1>. QED
  BY <1>4, <1>5

LEMMA DeleteDeletes ==
    ASSUME NEW m \in CoreType, CoreInv(m), NEW gone \in SUBSET m.clients
    PROVE  /\ Delete(m, gone) \in CoreType
           /\ CoreInv(Delete(m, gone))
           /\ Delete(m, gone).clients = m.clients \ gone
           /\ Delete(m, gone).lastId = m.lastId
           /\ Delete(m, gone).answer = m.answer
<1>. DEFINE k == Delete(m, gone)
            left == m.clients \ gone
            timer == IF gone # {} /\ m.num = Cardinality(gone) THEN TRUE
                     ELSE m.idleTimer
<1>1. /\ m.clients \in SUBSET ClientType /\ m.num \in Nat /\ m.lastId \in Nat
      /\ m.idleTimer \in BOOLEAN /\ m.answer \in [Invocations -> Nat]
  BY DEF CoreType
<1>2. k = [clients |-> left, num |-> m.num - Cardinality(gone),
           lastId |-> m.lastId, idleTimer |-> timer, answer |-> m.answer]
  <2>1. k = [m EXCEPT !.clients = left, !.num = m.num - Cardinality(gone),
                      !.idleTimer = timer]
    BY DEF Delete
  <2>. HIDE DEF k, timer, left
  <2>. QED
    BY <2>1, CoreChanged
<1>3. IsFiniteSet(m.clients) /\ m.num = Cardinality(m.clients)
  BY DEF CoreInv
<1>4. IsFiniteSet(gone) /\ Cardinality(gone) \in Nat
  BY <1>3, FS_Subset, FS_CardinalityType
<1>5. /\ IsFiniteSet(left)
      /\ Cardinality(left) = Cardinality(m.clients) - Cardinality(m.clients \cap gone)
  BY <1>3, FS_Difference
<1>6. m.clients \cap gone = gone
  OBVIOUS
<1>7. Cardinality(left) = m.num - Cardinality(gone) /\ Cardinality(left) \in Nat
  <2>1. Cardinality(left) \in Nat
    BY <1>5, FS_CardinalityType
  <2>. QED
    BY <2>1, <1>3, <1>5, <1>6
<1>8. timer <=> left = {}
  <2>1. m.num = Cardinality(gone) <=> Cardinality(left) = 0
    BY <1>1, <1>4, <1>7
  <2>2. Cardinality(left) = 0 <=> left = {}
    BY <1>5, FS_EmptySet
  <2>3. m.idleTimer <=> m.clients = {}
    BY DEF CoreInv
  <2>4. gone = {} => left = m.clients
    OBVIOUS
  <2>5. CASE gone = {}
    BY <2>3, <2>4, <2>5, <1>1
  <2>6. CASE gone # {}
    <3>1. ~m.idleTimer
      BY <2>3, <2>6
    <3>. QED
      BY <2>1, <2>2, <2>6, <3>1
  <2>. QED
    BY <2>5, <2>6
<1>9. timer \in BOOLEAN
  BY <1>1
<1>. HIDE DEF timer
<1>10. k.clients = left /\ k.num = Cardinality(left) /\ k.lastId = m.lastId
       /\ k.idleTimer = timer /\ k.answer = m.answer
  BY <1>2, <1>7
<1>11. k \in CoreType
  BY <1>1, <1>2, <1>7, <1>9 DEF CoreType
<1>. HIDE DEF k
<1>12. CoreInv(k)
  BY <1>5, <1>8, <1>10 DEF CoreInv
<1>. QED
  BY <1>10, <1>11, <1>12 DEF k

(* A client is exchanged for one of the same id, peer and agent.           *)
LEMMA ClientExchanged ==
    ASSUME NEW m \in CoreType, CoreInv(m), NEW c \in m.clients,
           NEW d \in ClientType, d.id = c.id, d.peer = c.peer, d.agent = c.agent,
           NEW k, k = [m EXCEPT !.clients = (@ \ {c}) \cup {d}]
    PROVE  /\ k \in CoreType
           /\ CoreInv(k)
           /\ k.clients = (m.clients \ {c}) \cup {d}
           /\ k.lastId = m.lastId
           /\ k.answer = m.answer
           /\ \A p : OnlyOne(m, p) => OnlyOne(k, p)
<1>. DEFINE kept == m.clients \ {c}
            new == kept \cup {d}
<1>1. /\ m.clients \in SUBSET ClientType /\ m.num \in Nat /\ m.lastId \in Nat
      /\ m.idleTimer \in BOOLEAN /\ m.answer \in [Invocations -> Nat]
  BY DEF CoreType
<1>2. k = [clients |-> new, num |-> m.num, lastId |-> m.lastId,
           idleTimer |-> m.idleTimer, answer |-> m.answer]
  BY DEF CoreType
<1>3. k.clients = new /\ k.num = m.num /\ k.lastId = m.lastId
      /\ k.idleTimer = m.idleTimer /\ k.answer = m.answer
  BY <1>2
<1>4. k \in CoreType
  BY <1>1, <1>2 DEF CoreType
<1>5. IsFiniteSet(m.clients) /\ m.num = Cardinality(m.clients)
  BY DEF CoreInv
<1>6. d \notin kept
  BY DEF CoreInv
<1>7. IsFiniteSet(new) /\ Cardinality(new) = m.num
  <2>1. IsFiniteSet(kept) /\ Cardinality(kept) = m.num - 1
    BY <1>5, FS_RemoveElement
  <2>2. IsFiniteSet(kept \cup {d})
        /\ Cardinality(kept \cup {d}) =
             IF d \in kept THEN Cardinality(kept) ELSE Cardinality(kept) + 1
    <3>. HIDE DEF kept
    <3>. QED
      BY <2>1, FS_AddElement
  <2>. QED
    BY <1>1, <1>6, <2>1, <2>2
<1>8. ~m.idleTimer /\ new # {}
  BY DEF CoreInv
<1>9. \A e \in new : e.id \in 1 .. m.lastId
  BY DEF CoreInv
<1>10. \A e, f \in new : e.id = f.id => e = f
  BY DEF CoreInv
<1>. HIDE DEF new
<1>11. CoreInv(k)
  BY <1>3, <1>7, <1>8, <1>9, <1>10 DEF CoreInv
<1>12. ASSUME NEW p, OnlyOne(m, p)
       PROVE  OnlyOne(k, p)
  BY <1>3, <1>12 DEF OnlyOne, new
<1>. QED
  BY <1>3, <1>4, <1>11, <1>12 DEF new

----------------------------------------------------------------------------
(* The inductive invariant. *)

(* A call has no caller before it is made and one after, and no answer     *)
(* before it is answered.                                                  *)
CallsSound ==
    \A r \in Invocations :
       /\ calls[r].status = "new" => calls[r].peer = NoOne
       /\ calls[r].status # "new" => calls[r].peer \in Peers
       /\ calls[r].status # "answered" => core.answer[r] = 0

ManagerInv ==
    /\ TypeOK
    /\ CoreInv(core)
    /\ CallsSound
    /\ GetClientMakesOne
    /\ InUseAccurate
    /\ ClientHasAgent
    /\ WaitsOnlyWithoutAgent

(* What AnswerNamesOwnClient says of one step.                             *)
AnswersOwn ==
    \A r \in Invocations :
       calls[r].status # "answered" /\ calls'[r].status = "answered" =>
          /\ \E c \in core'.clients : /\ c.id = core'.answer[r]
                                       /\ c.peer = calls'[r].peer
          /\ ~calls[r].reuse =>
                /\ core'.answer[r] > core.lastId
                /\ \A q \in Invocations \ {r} :
                     ~calls[q].reuse => core'.answer[q] # core'.answer[r]

LEMMA InitInv == Init => ManagerInv
<1>. SUFFICES ASSUME Init
              PROVE  ManagerInv
  OBVIOUS
<1>. USE DEF Init, Idle
<1>1. /\ core.clients = {} /\ core.num = 0 /\ core.lastId = 0 /\ core.idleTimer
      /\ \A r \in Invocations : core.answer[r] = 0
  OBVIOUS
<1>2. core \in CoreType
  BY DEF CoreType
<1>3. calls \in [Invocations -> CallType]
  BY DEF CallType
<1>4. \A r \in Invocations : calls[r].status = "new" /\ calls[r].peer = NoOne
  OBVIOUS
<1>5. waiting \in Seq(Invocations) /\ DOMAIN waiting = {}
  OBVIOUS
<1>6. TypeOK
  BY <1>2, <1>3, <1>5 DEF TypeOK, AddProgress
<1>7. CoreInv(core)
  BY <1>1, FS_EmptySet DEF CoreInv
<1>8. WaitsOnlyWithoutAgent
  BY <1>4, <1>5 DEF WaitsOnlyWithoutAgent, Queued, ToSet
<1>. QED
  BY <1>1, <1>4, <1>6, <1>7, <1>8
  DEF ManagerInv, CallsSound, GetClientMakesOne, InUseAccurate, InUseNow, ClientHasAgent

(* Steps that leave the manager's lists alone. *)
LEMMA KeptInv ==
    ASSUME ManagerInv, TypeOK', UNCHANGED <<calls, waiting, core, agents, inUse>>
    PROVE  ManagerInv' /\ AnswersOwn
<1>1. CoreInv(core)' /\ CallsSound' /\ GetClientMakesOne' /\ InUseAccurate'
      /\ ClientHasAgent'
  BY DEF ManagerInv, CoreInv, CallsSound, GetClientMakesOne, InUseAccurate,
         InUseNow, ClientHasAgent
<1>2. WaitsOnlyWithoutAgent'
  BY DEF ManagerInv, WaitsOnlyWithoutAgent, Queued
<1>3. AnswersOwn
  BY DEF AnswersOwn
<1>. QED
  BY <1>1, <1>2, <1>3 DEF ManagerInv

(* A call changes its status and nothing else. *)
LEMMA StatusChanges ==
    ASSUME ManagerInv, NEW r \in Invocations, NEW s \in {"queued", "failed"},
           calls[r].status # "new", calls[r].status # "answered",
           calls' = [calls EXCEPT ![r].status = s],
           UNCHANGED <<core, inUse>>
    PROVE  /\ calls' \in [Invocations -> CallType]
           /\ \A q \in Invocations :
                /\ calls'[q].peer = calls[q].peer
                /\ calls'[q].reuse = calls[q].reuse
                /\ q # r => calls'[q].status = calls[q].status
           /\ calls'[r].status = s
           /\ CoreInv(core)' /\ CallsSound' /\ GetClientMakesOne'
           /\ InUseAccurate' /\ ClientHasAgent' /\ AnswersOwn
<1>1. calls \in [Invocations -> CallType]
  BY DEF ManagerInv, TypeOK
<1>2. calls' \in [Invocations -> CallType]
  BY <1>1 DEF CallType
<1>3. \A q \in Invocations :
                /\ calls'[q].peer = calls[q].peer
                /\ calls'[q].reuse = calls[q].reuse
                /\ q # r => calls'[q].status = calls[q].status
  BY <1>1 DEF CallType
<1>4. calls'[r].status = s
  BY <1>1 DEF CallType
<1>5. CoreInv(core)' /\ InUseAccurate' /\ ClientHasAgent'
  BY DEF ManagerInv, CoreInv, InUseAccurate, InUseNow, ClientHasAgent
<1>6. CallsSound'
  BY <1>3, <1>4 DEF ManagerInv, CallsSound
<1>7. GetClientMakesOne'
  BY <1>3 DEF ManagerInv, GetClientMakesOne
<1>8. AnswersOwn
  BY <1>3, <1>4 DEF AnswersOwn
<1>. QED
  BY <1>2, <1>3, <1>4, <1>5, <1>6, <1>7, <1>8

----------------------------------------------------------------------------
(* One lemma per action that changes the calls, the queue or the clients.  *)

LEMMA CallKeeps ==
    ASSUME ManagerInv, NEW r \in Invocations, NEW p \in Peers,
           NEW reuse \in BOOLEAN, Call(r, p, reuse)
    PROVE  ManagerInv' /\ AnswersOwn
<1>. DEFINE call == [status |-> "info", peer |-> p, reuse |-> reuse]
<1>1. calls \in [Invocations -> CallType] /\ calls[r].status = "new"
      /\ calls[r].peer = NoOne /\ p # NoOne
  BY ManagerAssumption DEF ManagerInv, TypeOK, CallsSound, Call
<1>2. calls' = [calls EXCEPT ![r] = call] /\ UNCHANGED <<waiting, core, agents, inUse>>
      /\ UNCHANGED <<onBus, adding, running>>
  BY DEF Call
<1>3. call \in CallType /\ call.status = "info" /\ call.peer = p
  BY DEF CallType
<1>. HIDE DEF call
<1>4. calls' \in [Invocations -> CallType] /\ calls'[r] = call
      /\ \A q \in Invocations \ {r} : calls'[q] = calls[q]
  BY <1>1, <1>2, <1>3
<1>5. TypeOK'
  BY <1>2, <1>4 DEF ManagerInv, TypeOK
<1>6. CoreInv(core)' /\ InUseAccurate' /\ ClientHasAgent'
  BY <1>2 DEF ManagerInv, CoreInv, InUseAccurate, InUseNow, ClientHasAgent
<1>7. CallsSound'
  <2>1. core.answer[r] = 0
    BY <1>1 DEF ManagerInv, CallsSound
  <2>. QED
    BY <2>1, <1>2, <1>3, <1>4 DEF ManagerInv, CallsSound
<1>8. GetClientMakesOne'
  <2>. SUFFICES ASSUME NEW x \in Peers, AllReuse(x)'
                PROVE  OnlyOne(core, x)'
    BY DEF GetClientMakesOne, AllReuse, OnlyOne
  <2>1. ASSUME NEW q \in Invocations, calls[q].peer = x
        PROVE  calls[q].reuse
    <3>1. q # r
      BY <1>1, <2>1, ManagerAssumption
    <3>. QED
      BY <1>4, <2>1, <3>1 DEF AllReuse
  <2>. QED
    BY <1>2, <2>1 DEF ManagerInv, GetClientMakesOne, OnlyOne
<1>9. WaitsOnlyWithoutAgent'
  <2>1. Queued' = Queued
    BY <1>1, <1>3, <1>4 DEF Queued
  <2>2. \A q \in Queued : calls'[q] = calls[q]
    BY <1>1, <1>4 DEF Queued
  <2>. QED
    BY <1>2, <2>1, <2>2 DEF ManagerInv, WaitsOnlyWithoutAgent
<1>10. AnswersOwn
  BY <1>3, <1>4 DEF AnswersOwn
<1>. QED
  BY <1>5, <1>6, <1>7, <1>8, <1>9, <1>10 DEF ManagerInv

LEMMA InfoFailsKeeps ==
    ASSUME ManagerInv, NEW r \in Invocations, InfoFails(r)
    PROVE  ManagerInv' /\ AnswersOwn
<1>. DEFINE s == "failed"
<1>1. calls[r].status = "info" /\ calls' = [calls EXCEPT ![r].status = s]
      /\ UNCHANGED <<core, inUse>> /\ UNCHANGED <<onBus, waiting, agents, adding, running>>
  BY DEF InfoFails
<1>2. /\ calls' \in [Invocations -> CallType]
      /\ \A q \in Invocations :
           /\ calls'[q].peer = calls[q].peer
           /\ q # r => calls'[q].status = calls[q].status
      /\ calls'[r].status = s
      /\ CoreInv(core)' /\ CallsSound' /\ GetClientMakesOne'
      /\ InUseAccurate' /\ ClientHasAgent' /\ AnswersOwn
  BY <1>1, StatusChanges
<1>3. TypeOK'
  BY <1>1, <1>2 DEF ManagerInv, TypeOK
<1>4. WaitsOnlyWithoutAgent'
  <2>1. Queued' = Queued
    BY <1>1, <1>2 DEF Queued
  <2>2. \A q \in Queued : calls'[q].peer = calls[q].peer
    BY <1>2 DEF Queued
  <2>. QED
    BY <1>1, <2>1, <2>2 DEF ManagerInv, WaitsOnlyWithoutAgent
<1>. QED
  BY <1>2, <1>3, <1>4 DEF ManagerInv

LEMMA InfoQueuedKeeps ==
    ASSUME ManagerInv, NEW r \in Invocations, InfoQueued(r)
    PROVE  ManagerInv' /\ AnswersOwn
<1>. DEFINE s == "queued"
<1>1. calls[r].status = "info" /\ calls' = [calls EXCEPT ![r].status = s]
      /\ waiting' = Append(waiting, r) /\ agents[UserOf[calls[r].peer]] = NoOne
      /\ UNCHANGED <<core, inUse>> /\ UNCHANGED <<onBus, agents, adding, running>>
  BY DEF InfoQueued
<1>2. /\ calls' \in [Invocations -> CallType]
      /\ \A q \in Invocations :
           /\ calls'[q].peer = calls[q].peer
           /\ q # r => calls'[q].status = calls[q].status
      /\ calls'[r].status = s
      /\ CoreInv(core)' /\ CallsSound' /\ GetClientMakesOne'
      /\ InUseAccurate' /\ ClientHasAgent' /\ AnswersOwn
  BY <1>1, StatusChanges
<1>3. waiting \in Seq(Invocations)
  BY DEF ManagerInv, TypeOK
<1>4. TypeOK'
  <2>1. waiting' \in Seq(Invocations)
    BY <1>1, <1>3
  <2>. QED
    BY <1>1, <1>2, <2>1 DEF ManagerInv, TypeOK
<1>. DEFINE N == Len(waiting)
<1>5. N \in Nat /\ DOMAIN waiting = 1 .. N /\ DOMAIN waiting' = 1 .. N + 1
      /\ (\A i \in 1 .. N : waiting'[i] = waiting[i]) /\ waiting'[N + 1] = r
  BY <1>1, <1>3
<1>6. \A i \in 1 .. N : waiting[i] # r
  <2>1. r \notin ToSet(waiting)
    BY <1>1 DEF ManagerInv, WaitsOnlyWithoutAgent, Queued
  <2>. QED
    BY <1>5, <2>1 DEF ToSet
<1>7. Queued' = Queued \cup {r}
  BY <1>2 DEF Queued
<1>8. WaitsOnlyWithoutAgent'
  <2>1. ASSUME NEW i \in DOMAIN waiting', NEW j \in DOMAIN waiting',
               waiting'[i] = waiting'[j]
        PROVE  i = j
    <3>1. i \in 1 .. N \/ i = N + 1
      BY <1>5
    <3>2. j \in 1 .. N \/ j = N + 1
      BY <1>5
    <3>3. CASE i \in 1 .. N /\ j \in 1 .. N
      BY <1>5, <2>1, <3>3 DEF ManagerInv, WaitsOnlyWithoutAgent
    <3>. QED
      BY <1>5, <1>6, <2>1, <3>1, <3>2, <3>3
  <2>2. ToSet(waiting') = ToSet(waiting) \cup {r}
    <3>1. 1 .. N + 1 = (1 .. N) \cup {N + 1}
      BY <1>5
    <3>. QED
      BY <1>5, <3>1 DEF ToSet
  <2>3. ToSet(waiting') = Queued'
    BY <2>2, <1>7 DEF ManagerInv, WaitsOnlyWithoutAgent
  <2>4. \A q \in Queued' : agents'[UserOf[calls'[q].peer]] = NoOne
    <3>1. \A q \in Queued' : q \in Invocations /\ (q = r \/ q \in Queued)
      BY <1>7 DEF Queued
    <3>. QED
      BY <3>1, <1>1, <1>2 DEF ManagerInv, WaitsOnlyWithoutAgent
  <2>. QED
    BY <2>1, <2>3, <2>4 DEF WaitsOnlyWithoutAgent
<1>. QED
  BY <1>2, <1>4, <1>8 DEF ManagerInv

LEMMA WaiterVanishesKeeps ==
    ASSUME ManagerInv, NEW r \in Invocations, WaiterVanishes(r)
    PROVE  ManagerInv' /\ AnswersOwn
<1>. DEFINE s == "failed"
            kept == Invocations \ {r}
<1>1. calls[r].status = "queued" /\ calls' = [calls EXCEPT ![r].status = s]
      /\ waiting' = Among(waiting, kept)
      /\ UNCHANGED <<core, inUse>> /\ UNCHANGED <<onBus, agents, adding, running>>
  BY DEF WaiterVanishes
<1>2. /\ calls' \in [Invocations -> CallType]
      /\ \A q \in Invocations :
           /\ calls'[q].peer = calls[q].peer
           /\ q # r => calls'[q].status = calls[q].status
      /\ calls'[r].status = s
      /\ CoreInv(core)' /\ CallsSound' /\ GetClientMakesOne'
      /\ InUseAccurate' /\ ClientHasAgent' /\ AnswersOwn
  BY <1>1, StatusChanges
<1>3. waiting \in Seq(Invocations)
      /\ (\A i, j \in DOMAIN waiting : waiting[i] = waiting[j] => i = j)
      /\ ToSet(waiting) = Queued
  BY DEF ManagerInv, TypeOK, WaitsOnlyWithoutAgent
<1>4. waiting' \in Seq(Invocations) /\ ToSet(waiting') = Queued \cap kept
      /\ \A i, j \in DOMAIN waiting' : waiting'[i] = waiting'[j] => i = j
  BY <1>1, <1>3, AmongKeeps
<1>5. TypeOK'
  BY <1>1, <1>2, <1>4 DEF ManagerInv, TypeOK
<1>6. Queued' = Queued \cap kept
  BY <1>2 DEF Queued
<1>7. \A q \in Queued' : agents'[UserOf[calls'[q].peer]] = NoOne
  <2>1. \A q \in Queued' : q \in Queued /\ q \in Invocations
    BY <1>6 DEF Queued
  <2>. QED
    BY <2>1, <1>1, <1>2 DEF ManagerInv, WaitsOnlyWithoutAgent
<1>8. WaitsOnlyWithoutAgent'
  BY <1>4, <1>6, <1>7 DEF WaitsOnlyWithoutAgent
<1>. QED
  BY <1>2, <1>5, <1>8 DEF ManagerInv

(* The calls of a batch are over: what InfoCompletes and AgentProxyReady   *)
(* have in common.                                                         *)
LEMMA BatchIsOver ==
    ASSUME ManagerInv, NEW done \in SUBSET Invocations, Served(core', done),
           \A r \in done : calls[r].status \in {"info", "queued"},
           \A r \in done : agents'[UserOf[calls[r].peer]] # NoOne,
           calls' = Finish(calls, done, core'), UNCHANGED inUse
    PROVE  /\ calls' \in [Invocations -> CallType]
           /\ \A q \in Invocations :
                /\ calls'[q].peer = calls[q].peer
                /\ q \notin done => calls'[q].status = calls[q].status
                /\ q \in done => calls'[q].status \in {"answered", "failed"}
           /\ core' \in CoreType
           /\ CoreInv(core)' /\ CallsSound' /\ GetClientMakesOne'
           /\ InUseAccurate' /\ ClientHasAgent' /\ AnswersOwn
<1>1. calls \in [Invocations -> CallType]
  BY DEF ManagerInv, TypeOK
<1>2. core' \in CoreType /\ CoreInv(core')
  BY DEF Served
<1>3. ASSUME NEW q \in Invocations
      PROVE  /\ calls'[q] \in CallType
             /\ calls'[q].peer = calls[q].peer
             /\ calls'[q].reuse = calls[q].reuse
             /\ q \notin done => calls'[q].status = calls[q].status
             /\ q \in done =>
                  calls'[q].status = IF core'.answer[q] # 0 THEN "answered" ELSE "failed"
  <2>. DEFINE s == IF core'.answer[q] # 0 THEN "answered" ELSE "failed"
  <2>1. calls'[q] = IF q \notin done THEN calls[q] ELSE [calls[q] EXCEPT !.status = s]
    BY DEF Finish
  <2>2. calls[q] \in CallType /\ s \in {"answered", "failed"}
    BY <1>1
  <2>. HIDE DEF s
  <2>3. CASE q \notin done
    BY <2>1, <2>2, <2>3
  <2>4. CASE q \in done
    <3>1. calls'[q] = [calls[q] EXCEPT !.status = s]
      BY <2>1, <2>4
    <3>2. calls'[q] \in CallType /\ calls'[q].peer = calls[q].peer
          /\ calls'[q].reuse = calls[q].reuse /\ calls'[q].status = s
      BY <2>2, <3>1 DEF CallType
    <3>. QED
      BY <2>4, <3>2 DEF s
  <2>. QED
    BY <2>3, <2>4
<1>4. calls' \in [Invocations -> CallType]
  <2>1. calls' = [q \in Invocations |-> calls'[q]]
    BY DEF Finish
  <2>. QED
    BY <1>3, <2>1
<1>5. ASSUME NEW q \in done
      PROVE  calls'[q].status \in {"answered", "failed"}
  BY <1>3
<1>6. CallsSound'
  <2>. SUFFICES ASSUME NEW q \in Invocations
                PROVE  /\ calls'[q].status = "new" => calls'[q].peer = NoOne
                       /\ calls'[q].status # "new" => calls'[q].peer \in Peers
                       /\ calls'[q].status # "answered" => core'.answer[q] = 0
    BY DEF CallsSound
  <2>1. CASE q \in done
    BY <1>3, <2>1 DEF ManagerInv, CallsSound
  <2>2. CASE q \notin done
    <3>1. core'.answer[q] = core.answer[q]
      BY <2>2 DEF Served
    <3>. QED
      BY <1>3, <2>2, <3>1 DEF ManagerInv, CallsSound
  <2>. QED
    BY <2>1, <2>2
<1>7. GetClientMakesOne'
  <2>. SUFFICES ASSUME NEW p \in Peers, AllReuse(p)'
                PROVE  OnlyOne(core', p)
    BY DEF GetClientMakesOne, AllReuse, OnlyOne
  <2>1. AllReuse(p)
    BY <1>3 DEF AllReuse
  <2>2. OnlyOne(core, p)
    BY <2>1 DEF ManagerInv, GetClientMakesOne, AllReuse, OnlyOne
  <2>. QED
    BY <2>1, <2>2 DEF Served
<1>8. InUseAccurate'
  BY DEF ManagerInv, InUseAccurate, InUseNow, Served
<1>9. ClientHasAgent'
  BY DEF ManagerInv, ClientHasAgent, Served
<1>10. AnswersOwn
  <2>. SUFFICES ASSUME NEW r \in Invocations,
                       calls[r].status # "answered", calls'[r].status = "answered"
                PROVE  /\ \E c \in core'.clients : /\ c.id = core'.answer[r]
                                                     /\ c.peer = calls'[r].peer
                       /\ ~calls[r].reuse =>
                             /\ core'.answer[r] > core.lastId
                             /\ \A q \in Invocations \ {r} :
                                  ~calls[q].reuse => core'.answer[q] # core'.answer[r]
    BY DEF AnswersOwn
  <2>1. r \in done /\ core'.answer[r] # 0
    BY <1>3
  <2>2. core.lastId \in Nat /\ core'.answer[r] \in Nat
    BY <1>2 DEF ManagerInv, TypeOK, CoreType
  <2>. QED
    BY <1>3, <2>1, <2>2 DEF Served
<1>. QED
  BY <1>2, <1>3, <1>4, <1>5, <1>6, <1>7, <1>8, <1>9, <1>10 DEF CoreInv

LEMMA InfoCompletesKeeps ==
    ASSUME ManagerInv, NEW r \in Invocations, NEW fails, InfoCompletes(r, fails)
    PROVE  ManagerInv' /\ AnswersOwn
<1>1. /\ calls[r].status = "info" /\ agents[UserOf[calls[r].peer]] # NoOne
      /\ core' = Complete(core, r, fails) /\ calls' = Finish(calls, {r}, core')
      /\ UNCHANGED <<agents, inUse>> /\ UNCHANGED <<onBus, waiting, adding, running>>
  BY DEF InfoCompletes
<1>2. core \in CoreType /\ CoreInv(core) /\ agents' \in [Users -> Agents \cup {NoOne}]
      /\ calls[r].peer \in Peers /\ core.answer[r] = 0
  BY <1>1 DEF ManagerInv, TypeOK, CallsSound
<1>3. Served(Complete(core, r, fails), {} \cup {r})
  BY <1>2, ServedNone, ServedMore
<1>4. Served(core', {r})
  <2>1. {} \cup {r} = {r}
    OBVIOUS
  <2>. QED
    BY <1>1, <1>3, <2>1
<1>5. /\ calls' \in [Invocations -> CallType]
      /\ \A q \in Invocations :
           /\ calls'[q].peer = calls[q].peer
           /\ q \notin {r} => calls'[q].status = calls[q].status
           /\ q \in {r} => calls'[q].status \in {"answered", "failed"}
      /\ core' \in CoreType
      /\ CoreInv(core)' /\ CallsSound' /\ GetClientMakesOne'
      /\ InUseAccurate' /\ ClientHasAgent' /\ AnswersOwn
  BY <1>1, <1>4, BatchIsOver
<1>6. TypeOK'
  BY <1>1, <1>5 DEF ManagerInv, TypeOK
<1>7. WaitsOnlyWithoutAgent'
  <2>1. Queued' = Queued
    BY <1>1, <1>5 DEF Queued
  <2>2. \A q \in Queued : calls'[q].peer = calls[q].peer
    BY <1>5 DEF Queued
  <2>. QED
    BY <1>1, <2>1, <2>2 DEF ManagerInv, WaitsOnlyWithoutAgent
<1>. QED
  BY <1>5, <1>6, <1>7 DEF ManagerInv

LEMMA AgentProxyReadyKeeps ==
    ASSUME ManagerInv, NEW a \in Agents, NEW fails, AgentProxyReady(a, fails)
    PROVE  ManagerInv' /\ AnswersOwn
<1>. DEFINE user == UserOf[a]
            served == {r \in ToSet(waiting) : UserOf[calls[r].peer] = user}
            kept == Invocations \ served
            batch == Among(waiting, served)
            progress == IF adding[a] = "proxy" THEN "registered" ELSE "unwatched"
<1>1. /\ adding' = [adding EXCEPT ![a] = progress]
      /\ agents' = [agents EXCEPT ![user] = a]
      /\ core' = CompleteAll(batch, fails)
      /\ calls' = Finish(calls, served, core')
      /\ waiting' = Among(waiting, kept)
      /\ UNCHANGED <<onBus, inUse, running>>
  BY DEF AgentProxyReady
<1>2. waiting \in Seq(Invocations)
      /\ (\A i, j \in DOMAIN waiting : waiting[i] = waiting[j] => i = j)
      /\ ToSet(waiting) = Queued
  BY DEF ManagerInv, TypeOK, WaitsOnlyWithoutAgent
<1>3. served \in SUBSET Invocations /\ served \subseteq ToSet(waiting)
      /\ \A r \in served : calls[r].status = "queued"
                            /\ UserOf[calls[r].peer] = user
  BY <1>2 DEF Queued
<1>4. agents' \in [Users -> Agents \cup {NoOne}] /\ agents'[user] = a /\ a # NoOne
      /\ (\A u \in Users \ {user} : agents'[u] = agents[u]) /\ user \in Users
  BY <1>1, ManagerAssumption DEF ManagerInv, TypeOK
<1>. HIDE DEF user, served, kept
<1>5. batch \in Seq(Invocations) /\ ToSet(batch) = served
  <2>1. batch \in Seq(Invocations) /\ ToSet(batch) = ToSet(waiting) \cap served
    BY <1>2, AmongKeeps
  <2>. QED
    BY <1>3, <2>1
<1>. HIDE DEF batch
<1>6. core \in CoreType /\ CoreInv(core)
      /\ \A r \in ToSet(batch) : core.answer[r] = 0 /\ calls[r].peer \in Peers
  BY <1>3, <1>5 DEF ManagerInv, TypeOK, CallsSound
<1>7. Served(core', served)
  <2>1. Served(CompleteAll(batch, fails), ToSet(batch))
    BY <1>4, <1>5, <1>6, ServedAll
  <2>. QED
    BY <1>1, <1>5, <2>1
<1>8. /\ calls' \in [Invocations -> CallType]
      /\ \A q \in Invocations :
           /\ calls'[q].peer = calls[q].peer
           /\ q \notin served => calls'[q].status = calls[q].status
           /\ q \in served => calls'[q].status \in {"answered", "failed"}
      /\ core' \in CoreType
      /\ CoreInv(core)' /\ CallsSound' /\ GetClientMakesOne'
      /\ InUseAccurate' /\ ClientHasAgent' /\ AnswersOwn
  <2>1. \A r \in served : agents'[UserOf[calls[r].peer]] # NoOne
    BY <1>3, <1>4
  <2>2. \A r \in served : calls[r].status \in {"info", "queued"}
    BY <1>3
  <2>3. UNCHANGED inUse /\ calls' = Finish(calls, served, core')
    BY <1>1
  <2>. QED
    BY <1>3, <1>7, <2>1, <2>2, <2>3, BatchIsOver
<1>9. waiting' \in Seq(Invocations) /\ ToSet(waiting') = Queued \cap kept
      /\ \A i, j \in DOMAIN waiting' : waiting'[i] = waiting'[j] => i = j
  BY <1>1, <1>2, AmongKeeps
<1>10. adding' \in [Agents -> AddProgress]
  BY <1>1 DEF ManagerInv, TypeOK, AddProgress
<1>11. TypeOK'
  BY <1>1, <1>4, <1>8, <1>9, <1>10 DEF ManagerInv, TypeOK
<1>12. Queued' = Queued \cap kept
  <2>1. \A q \in Invocations : q \in Queued' <=> q \in Queued /\ q \notin served
    BY <1>8, <1>3 DEF Queued
  <2>. QED
    BY <2>1 DEF Queued, kept
<1>13. ASSUME NEW q \in Queued'
       PROVE  agents'[UserOf[calls'[q].peer]] = NoOne
  <2>1. q \in Queued /\ q \notin served /\ q \in Invocations
    BY <1>12, <1>13 DEF kept
  <2>2. UserOf[calls[q].peer] # user
    BY <1>2, <2>1 DEF served
  <2>3. calls[q].peer \in Peers /\ UserOf[calls[q].peer] \in Users
    BY <2>1, ManagerAssumption DEF ManagerInv, CallsSound, Queued
  <2>4. agents[UserOf[calls[q].peer]] = NoOne
    BY <2>1 DEF ManagerInv, WaitsOnlyWithoutAgent
  <2>. QED
    BY <1>4, <1>8, <2>1, <2>2, <2>3, <2>4
<1>14. WaitsOnlyWithoutAgent'
  BY <1>9, <1>12, <1>13 DEF WaitsOnlyWithoutAgent
<1>. QED
  BY <1>8, <1>11, <1>14 DEF ManagerInv

(* Clients go: DeleteClient and PeerVanished. *)
LEMMA ClientsGo ==
    ASSUME ManagerInv, NEW gone \in SUBSET core.clients,
           core' = Delete(core, gone), inUse' = InUseNow(core'.clients),
           UNCHANGED <<onBus, calls, waiting, agents, adding, running>>
    PROVE  ManagerInv' /\ AnswersOwn
<1>1. core \in CoreType /\ CoreInv(core)
  BY DEF ManagerInv, TypeOK
<1>2. core' \in CoreType /\ CoreInv(core') /\ core'.clients = core.clients \ gone
      /\ core'.answer = core.answer
  BY <1>1, DeleteDeletes
<1>3. inUse' \in BOOLEAN /\ InUseAccurate'
  BY DEF InUseNow, InUseAccurate
<1>4. TypeOK'
  BY <1>2, <1>3 DEF ManagerInv, TypeOK
<1>5. CallsSound' /\ GetClientMakesOne' /\ ClientHasAgent'
  BY <1>2 DEF ManagerInv, CallsSound, GetClientMakesOne, ClientHasAgent
<1>6. WaitsOnlyWithoutAgent'
  BY DEF ManagerInv, WaitsOnlyWithoutAgent, Queued
<1>7. AnswersOwn
  BY DEF AnswersOwn
<1>. QED
  BY <1>2, <1>3, <1>4, <1>5, <1>6, <1>7 DEF ManagerInv, CoreInv

(* A client changes its state: ClientTurns and ClientRenamed. *)
LEMMA ClientChanges ==
    ASSUME ManagerInv, NEW c \in core.clients, NEW d \in ClientType,
           d.id = c.id, d.peer = c.peer, d.agent = c.agent,
           core' = [core EXCEPT !.clients = (@ \ {c}) \cup {d}],
           inUse' \in BOOLEAN, InUseAccurate',
           UNCHANGED <<onBus, calls, waiting, agents, adding, running>>
    PROVE  ManagerInv' /\ AnswersOwn
<1>1. core \in CoreType /\ CoreInv(core)
  BY DEF ManagerInv, TypeOK
<1>2. core' \in CoreType /\ CoreInv(core')
      /\ core'.clients = (core.clients \ {c}) \cup {d}
      /\ core'.answer = core.answer
      /\ \A p : OnlyOne(core, p) => OnlyOne(core', p)
  BY <1>1, ClientExchanged
<1>3. TypeOK'
  BY <1>2 DEF ManagerInv, TypeOK
<1>4. CallsSound' /\ ClientHasAgent'
  BY <1>2 DEF ManagerInv, CallsSound, ClientHasAgent
<1>5. GetClientMakesOne'
  <2>. SUFFICES ASSUME NEW p \in Peers, AllReuse(p)'
                PROVE  OnlyOne(core', p)
    BY DEF GetClientMakesOne, AllReuse, OnlyOne
  <2>1. OnlyOne(core, p)
    BY DEF ManagerInv, GetClientMakesOne, AllReuse, OnlyOne
  <2>. QED
    BY <1>2, <2>1
<1>6. WaitsOnlyWithoutAgent'
  BY DEF ManagerInv, WaitsOnlyWithoutAgent, Queued
<1>7. AnswersOwn
  BY DEF AnswersOwn
<1>. QED
  BY <1>2, <1>3, <1>4, <1>5, <1>6, <1>7 DEF ManagerInv, CoreInv

LEMMA ClientTurnsKeeps ==
    ASSUME ManagerInv, NEW c \in core.clients, ClientTurns(c)
    PROVE  ManagerInv' /\ AnswersOwn
<1>. DEFINE d == [c EXCEPT !.active = ~@]
<1>1. c \in ClientType
  BY DEF ManagerInv, TypeOK, CoreType
<1>2. d \in ClientType /\ d.id = c.id /\ d.peer = c.peer /\ d.agent = c.agent
  BY <1>1 DEF ClientType
<1>3. core' = [core EXCEPT !.clients = (@ \ {c}) \cup {d}]
      /\ UNCHANGED <<onBus, calls, waiting, agents, adding, running>>
  BY DEF ClientTurns
<1>4. inUse' \in BOOLEAN /\ InUseAccurate'
  BY DEF ClientTurns, InUseNow, InUseAccurate
<1>. HIDE DEF d
<1>. QED
  BY <1>2, <1>3, <1>4, ClientChanges

LEMMA ClientRenamedKeeps ==
    ASSUME ManagerInv, NEW c \in core.clients, ClientRenamed(c)
    PROVE  ManagerInv' /\ AnswersOwn
<1>. DEFINE d == [c EXCEPT !.system = ~@]
<1>1. c \in ClientType /\ core \in CoreType /\ CoreInv(core)
  BY DEF ManagerInv, TypeOK, CoreType
<1>2. d \in ClientType /\ d.id = c.id /\ d.peer = c.peer /\ d.agent = c.agent
      /\ d.active = c.active
  BY <1>1 DEF ClientType
<1>3. core' = [core EXCEPT !.clients = (@ \ {c}) \cup {d}]
      /\ UNCHANGED <<onBus, calls, waiting, agents, adding, inUse, running>>
      /\ (Renames \/ ~c.active)
  BY DEF ClientRenamed
<1>. HIDE DEF d
<1>4. core'.clients = (core.clients \ {c}) \cup {d}
  BY <1>1, <1>2, <1>3, ClientExchanged
<1>5. InUseAccurate'
  <2>. SUFFICES ASSUME ~Renames
                PROVE  inUse' <=> InUseNow(core'.clients)
    BY DEF InUseAccurate
  <2>1. ~c.active /\ ~d.active
    BY <1>2, <1>3
  <2>2. InUseNow(core'.clients) <=> InUseNow(core.clients)
    BY <1>4, <2>1 DEF InUseNow
  <2>3. inUse <=> InUseNow(core.clients)
    BY DEF ManagerInv, InUseAccurate
  <2>. QED
    BY <1>3, <2>2, <2>3
<1>6. inUse' \in BOOLEAN
  BY <1>3 DEF ManagerInv, TypeOK
<1>. QED
  BY <1>2, <1>3, <1>5, <1>6, ClientChanges

(* The agent of a user is forgotten: a new client needs one again. *)
LEMMA AgentVanishedKeeps ==
    ASSUME ManagerInv, NEW a \in Agents, AgentVanished(a)
    PROVE  ManagerInv' /\ AnswersOwn
<1>1. agents' = [agents EXCEPT ![UserOf[a]] = NoOne]
      /\ adding' = [adding EXCEPT ![a] = "vanished"]
      /\ UNCHANGED <<onBus, calls, waiting, core, inUse, running>>
  BY DEF AgentVanished
<1>2. agents' \in [Users -> Agents \cup {NoOne}]
      /\ \A u \in Users : agents[u] = NoOne => agents'[u] = NoOne
  BY <1>1, ManagerAssumption DEF ManagerInv, TypeOK
<1>3. adding' \in [Agents -> AddProgress]
  BY <1>1 DEF ManagerInv, TypeOK, AddProgress
<1>4. TypeOK'
  BY <1>1, <1>2, <1>3 DEF ManagerInv, TypeOK
<1>5. CoreInv(core)' /\ CallsSound' /\ GetClientMakesOne' /\ InUseAccurate'
      /\ ClientHasAgent'
  BY <1>1 DEF ManagerInv, CoreInv, CallsSound, GetClientMakesOne, InUseAccurate,
              InUseNow, ClientHasAgent
<1>6. WaitsOnlyWithoutAgent'
  <2>1. ASSUME NEW q \in Queued
        PROVE  agents'[UserOf[calls[q].peer]] = NoOne
    <3>1. UserOf[calls[q].peer] \in Users
      BY ManagerAssumption DEF ManagerInv, CallsSound, Queued
    <3>2. agents[UserOf[calls[q].peer]] = NoOne
      BY DEF ManagerInv, WaitsOnlyWithoutAgent
    <3>. QED
      BY <1>2, <3>1, <3>2
  <2>2. Queued' = Queued
    BY <1>1 DEF Queued
  <2>. QED
    BY <1>1, <2>1, <2>2 DEF ManagerInv, WaitsOnlyWithoutAgent
<1>7. AnswersOwn
  BY <1>1 DEF AnswersOwn
<1>. QED
  BY <1>4, <1>5, <1>6, <1>7 DEF ManagerInv

(* The progress of AddAgent, a connection that closes, the end. *)
LEMMA AddingTypes ==
    ASSUME ManagerInv, NEW a \in Agents, NEW s \in AddProgress,
           adding' = [adding EXCEPT ![a] = s],
           UNCHANGED <<onBus, calls, waiting, core, agents, inUse, running>>
    PROVE  ManagerInv' /\ AnswersOwn
<1>1. adding' \in [Agents -> AddProgress]
  BY DEF ManagerInv, TypeOK
<1>2. TypeOK'
  BY <1>1 DEF ManagerInv, TypeOK
<1>. QED
  BY <1>2, KeptInv

LEMMA NextKeeps == ManagerInv /\ [Next]_vars => ManagerInv' /\ AnswersOwn
<1>. SUFFICES ASSUME ManagerInv, [Next]_vars
              PROVE  ManagerInv' /\ AnswersOwn
  OBVIOUS
<1>1. ASSUME NEW r \in Invocations, NEW p \in Peers, NEW reuse \in BOOLEAN,
             Call(r, p, reuse)
      PROVE  ManagerInv' /\ AnswersOwn
  BY <1>1, CallKeeps
<1>2. ASSUME NEW r \in Invocations, InfoFails(r)
      PROVE  ManagerInv' /\ AnswersOwn
  BY <1>2, InfoFailsKeeps
<1>3. ASSUME NEW r \in Invocations, InfoQueued(r)
      PROVE  ManagerInv' /\ AnswersOwn
  BY <1>3, InfoQueuedKeeps
<1>4. ASSUME NEW r \in Invocations, NEW fails \in SUBSET {r}, InfoCompletes(r, fails)
      PROVE  ManagerInv' /\ AnswersOwn
  BY <1>4, InfoCompletesKeeps
<1>5. ASSUME NEW r \in Invocations, WaiterVanishes(r)
      PROVE  ManagerInv' /\ AnswersOwn
  BY <1>5, WaiterVanishesKeeps
<1>6. ASSUME NEW c \in core.clients, ClientTurns(c)
      PROVE  ManagerInv' /\ AnswersOwn
  BY <1>6, ClientTurnsKeeps
<1>7. ASSUME NEW c \in core.clients, ClientRenamed(c)
      PROVE  ManagerInv' /\ AnswersOwn
  BY <1>7, ClientRenamedKeeps
<1>8. ASSUME NEW p \in Peers, NEW id, DeleteClient(p, id)
      PROVE  ManagerInv' /\ AnswersOwn
  <2>. DEFINE gone == {c \in core.clients : c.peer = p /\ c.id = id}
  <2>1. gone \in SUBSET core.clients /\ core' = Delete(core, gone)
        /\ inUse' = InUseNow(core'.clients)
        /\ UNCHANGED <<onBus, calls, waiting, agents, adding, running>>
    BY <1>8 DEF DeleteClient
  <2>. HIDE DEF gone
  <2>. QED
    BY <2>1, ClientsGo
<1>9. ASSUME NEW p \in Peers, PeerVanished(p)
      PROVE  ManagerInv' /\ AnswersOwn
  <2>. DEFINE gone == {c \in core.clients : c.peer = p}
  <2>1. gone \in SUBSET core.clients /\ core' = Delete(core, gone)
        /\ inUse' = InUseNow(core'.clients)
        /\ UNCHANGED <<onBus, calls, waiting, agents, adding, running>>
    BY <1>9 DEF PeerVanished
  <2>. HIDE DEF gone
  <2>. QED
    BY <2>1, ClientsGo
<1>10. ASSUME NEW a \in Agents,
              AddAgent(a) \/ AgentRefused(a) \/ AgentAccepted(a)
              \/ AgentProxyFails(a) \/ AgentVanishedUnseen(a)
       PROVE  ManagerInv' /\ AnswersOwn
  <2>1. PICK s \in AddProgress : adding' = [adding EXCEPT ![a] = s]
    BY <1>10 DEF AddAgent, AgentRefused, AgentAccepted, AgentProxyFails,
                 AgentVanishedUnseen, AddProgress
  <2>2. UNCHANGED <<onBus, calls, waiting, core, agents, inUse, running>>
    BY <1>10 DEF AddAgent, AgentRefused, AgentAccepted, AgentProxyFails,
                 AgentVanishedUnseen
  <2>. QED
    BY <2>1, <2>2, AddingTypes
<1>11. ASSUME NEW a \in Agents, NEW fails, AgentProxyReady(a, fails)
       PROVE  ManagerInv' /\ AnswersOwn
  BY <1>11, AgentProxyReadyKeeps
<1>12. ASSUME NEW a \in Agents, AgentVanished(a)
       PROVE  ManagerInv' /\ AnswersOwn
  BY <1>12, AgentVanishedKeeps
<1>13. ASSUME NEW p, Leave(p)
       PROVE  ManagerInv' /\ AnswersOwn
  <2>1. TypeOK' /\ UNCHANGED <<calls, waiting, core, agents, inUse>>
    BY <1>13 DEF ManagerInv, TypeOK, Leave
  <2>. QED
    BY <2>1, KeptInv
<1>14. CASE InactivityTimeout
  <2>1. TypeOK' /\ UNCHANGED <<calls, waiting, core, agents, inUse>>
    BY <1>14 DEF ManagerInv, TypeOK, InactivityTimeout
  <2>. QED
    BY <2>1, KeptInv
<1>15. CASE UNCHANGED vars
  <2>1. TypeOK' /\ UNCHANGED <<calls, waiting, core, agents, inUse>>
    BY <1>15 DEF ManagerInv, TypeOK, vars
  <2>. QED
    BY <2>1, KeptInv
<1>. QED
  BY <1>1, <1>2, <1>3, <1>4, <1>5, <1>6, <1>7, <1>8, <1>9, <1>10, <1>11, <1>12,
     <1>13, <1>14, <1>15 DEF Next

----------------------------------------------------------------------------
(* The theorems. *)

LEMMA SpecInv == Spec => []ManagerInv /\ [][AnswersOwn]_vars
<1>1. ManagerInv /\ [Next]_vars => [AnswersOwn]_vars
  BY NextKeeps
<1>. QED
  BY InitInv, NextKeeps, <1>1, PTL DEF Spec

(* Every variable keeps its type. *)
THEOREM ManagerTypes == Spec => []TypeOK
<1>1. ManagerInv => TypeOK
  BY DEF ManagerInv
<1>. QED
  BY <1>1, SpecInv, PTL

(* The counter of gclue-service-manager.c is the length of its list, and   *)
(* the inactivity timeout of gclue-main.c runs exactly while there is no   *)
(* client: the daemon never quits under one, nor forgets to.               *)
THEOREM TimeoutAlwaysRunsWhileEmpty == Spec => []TimeoutRunsWhileEmpty
<1>1. ManagerInv => TimeoutRunsWhileEmpty
  BY DEF ManagerInv, CoreInv, TimeoutRunsWhileEmpty
<1>. QED
  BY <1>1, SpecInv, PTL

(* GetClient makes one client for a peer, however its calls overlap and    *)
(* wait.                                                                   *)
THEOREM GetClientAlwaysMakesOne == Spec => []GetClientMakesOne
<1>1. ManagerInv => GetClientMakesOne
  BY DEF ManagerInv
<1>. QED
  BY <1>1, SpecInv, PTL

(* InUse follows the active clients, as long as none is renamed.           *)
THEOREM InUseAlwaysAccurate == Spec => []InUseAccurate
<1>1. ManagerInv => InUseAccurate
  BY DEF ManagerInv
<1>. QED
  BY <1>1, SpecInv, PTL

(* The queue holds every waiting call once, and only calls of users that   *)
(* have no agent.                                                          *)
THEOREM WaitersNeverHaveAgents == Spec => []WaitsOnlyWithoutAgent
<1>1. ManagerInv => WaitsOnlyWithoutAgent
  BY DEF ManagerInv
<1>. QED
  BY <1>1, SpecInv, PTL

(* No client is made without an agent, so the client's own handling of a   *)
(* missing one is never needed.                                            *)
THEOREM ClientsAlwaysHaveAgents == Spec => []ClientHasAgent
<1>1. ManagerInv => ClientHasAgent
  BY DEF ManagerInv
<1>. QED
  BY <1>1, SpecInv, PTL

(* A call is answered with a client of its caller that exists at that      *)
(* moment, and CreateClient with one of its own, through any batch.        *)
THEOREM AnswersAlwaysNameOwnClient == Spec => AnswerNamesOwnClient
  BY SpecInv DEF AnswerNamesOwnClient, AnswersOwn
=============================================================================
