------------------------ MODULE TicketSpinlock_proofs ------------------------
(***************************************************************************)
(* TicketSpinlock, used through its LockGuard, is a fair mutex for any     *)
(* number of threads below the range of its unsigned counters, across any  *)
(* number of wraps.                                                        *)
(***************************************************************************)
EXTENDS TicketSpinlock, FiniteSetTheorems, FunctionTheorems, TLAPS

(* Whoever is in the section is the oldest thread. *)
OldestInside ==
  \A t \in Threads : pc[t] = "in" => order # <<>> /\ order[1] = t

IInv == TypeOK /\ TicketsInOrder /\ OldestInside

-----------------------------------------------------------------------------
(* Arithmetic modulo the range of the counters. *)

(* No wrap, *)
LEMMA ModSmall ==
  ASSUME NEW M \in Nat, NEW a \in Int, 0 <= a, a < M PROVE a % M = a
  OBVIOUS

(* one wrap upwards, *)
LEMMA ModOnce ==
  ASSUME NEW M \in Nat, NEW a \in Int, M <= a, a < 2 * M PROVE a % M = a - M
  OBVIOUS

(* one wrap downwards. *)
LEMMA ModNegative ==
  ASSUME NEW M \in Nat, NEW a \in Int, -M <= a, a < 0 PROVE a % M = a + M
  OBVIOUS

(* Adding one before or after another offset. *)
LEMMA ModStep ==
  ASSUME NEW M \in Nat, NEW a \in 0 .. M - 1, NEW k \in 0 .. M - 1
  PROVE  /\ (((a + 1) % M) + k) % M = (a + 1 + k) % M
         /\ (((a + k) % M) + 1) % M = (a + k + 1) % M
<1>1. (((a + 1) % M) + k) % M = (a + 1 + k) % M
  <2>1. CASE a + 1 < M
    <3>1. (a + 1) % M = a + 1
      BY <2>1, ModSmall
    <3>2. QED
      BY <3>1
  <2>2. CASE a + 1 = M
    <3>1. (a + 1) % M = 0
      BY <2>2, ModOnce
    <3>2. k % M = k /\ (a + 1 + k) % M = k
      BY <2>2, ModSmall, ModOnce
    <3>3. QED
      BY <3>1, <3>2
  <2>3. QED
    BY <2>1, <2>2
<1>2. (((a + k) % M) + 1) % M = (a + k + 1) % M
  <2>1. CASE a + k < M
    <3>1. (a + k) % M = a + k
      BY <2>1, ModSmall
    <3>2. QED
      BY <3>1
  <2>2. CASE a + k >= M
    <3>1. (a + k) % M = a + k - M
      BY <2>2, ModOnce
    <3>2. (a + k + 1) % M = a + k + 1 - M
      <4> DEFINE b == a + k + 1
      <4>1. b \in Int /\ M <= b /\ b < 2 * M
        BY <2>2
      <4> HIDE DEF b
      <4>2. b % M = b - M
        BY <4>1, ModOnce
      <4>3. QED
        BY <4>2 DEF b
    <3>3. (a + k - M + 1) % M = a + k - M + 1
      BY <2>2, ModSmall
    <3>4. QED
      BY <3>1, <3>2, <3>3
  <2>3. QED
    BY <2>1, <2>2
<1>3. QED
  BY <1>1, <1>2

(* The test of lock's loop: it succeeds for the oldest ticket alone. *)
LEMMA ModDiff ==
  ASSUME NEW M \in Nat, NEW a \in 0 .. M - 1, NEW k \in 0 .. M - 1,
         (((a + k) % M) - a) % M = 0
  PROVE  k = 0
<1>1. CASE a + k < M
  <2>1. ((a + k) % M) - a = k
    BY <1>1, ModSmall
  <2>2. QED
    BY <2>1, ModSmall
<1>2. CASE a + k >= M
  <2>1. ((a + k) % M) - a = k - M
    BY <1>2, ModOnce
  <2>2. CASE k = 0
    BY <2>2
  <2>3. CASE k > 0
    <3>1. (k - M) % M = k - M + M
      BY <2>3, ModNegative
    <3>2. QED
      BY <2>1, <3>1
  <2>4. QED
    BY <2>2, <2>3
<1>3. QED
  BY <1>1, <1>2

-----------------------------------------------------------------------------
(* A sequence without repetition is no longer than the set of threads. *)
LEMMA OrderBound ==
  ASSUME NEW s \in Seq(Threads),
         \A i, j \in 1 .. Len(s) : s[i] = s[j] => i = j
  PROVE  Len(s) < CounterMod
<1>1. s \in [1 .. Len(s) -> Threads] /\ Len(s) \in Nat
  OBVIOUS
<1>2. s \in Injection(1 .. Len(s), Threads)
  BY <1>1, Fun_IsInj
<1>3. Cardinality(1 .. Len(s)) <= Cardinality(Threads)
  BY <1>2, TicketAssumption, FS_Injection
<1>4. Cardinality(1 .. Len(s)) = IF 1 > Len(s) THEN 0 ELSE Len(s) - 1 + 1
  BY <1>1, FS_Interval
<1>5. Cardinality(Threads) \in Nat
  BY TicketAssumption, FS_CardinalityType
<1>6. QED
  BY <1>1, <1>3, <1>4, <1>5, TicketAssumption

(* A new lock satisfies the invariant. *)
LEMMA InitInv == Init => IInv
  BY TicketAssumption DEF Init, IInv, TypeOK, TicketsInOrder, OldestInside

(* The fetch_add of lock keeps the invariant. *)
LEMMA lockInv ==
  ASSUME IInv, NEW t \in Threads, lock(t)
  PROVE  IInv'
<1> DEFINE n == Len(order)
<1>1. /\ order \in Seq(Threads) /\ n \in Nat /\ n < CounterMod
      /\ m_next \in 0 .. CounterMod - 1 /\ CounterMod \in Nat
  BY OrderBound, TicketAssumption DEF IInv, TypeOK, TicketsInOrder
<1>2. /\ pc[t] = "out" /\ ticket' = [ticket EXCEPT ![t] = m_ticket]
      /\ m_ticket' = Inc(m_ticket) /\ pc' = [pc EXCEPT ![t] = "spin"]
      /\ order' = Append(order, t) /\ m_next' = m_next
  BY DEF lock
<1>3. /\ Len(order') = n + 1
      /\ \A i \in 1 .. n : order'[i] = order[i]
      /\ order'[n + 1] = t /\ order' \in Seq(Threads)
  BY <1>1, <1>2
<1>4. \A i \in 1 .. n : order[i] # t /\ order[i] \in Threads
  <2>1. \A i \in 1 .. n : order[i] \in Threads
    BY <1>1
  <2>2. pc[t] # "out" <=> \E i \in 1 .. n : order[i] = t
    BY DEF IInv, TicketsInOrder
  <2>3. QED
    BY <1>2, <2>1, <2>2
<1>5. TypeOK'
  BY <1>2, <1>3, TicketAssumption DEF IInv, TypeOK, Inc
<1>6. TicketsInOrder'
  <2>1. \A u \in Threads : pc'[u] # "out" <=> \E i \in 1 .. Len(order') : order'[i] = u
    BY <1>1, <1>2, <1>3, <1>4 DEF IInv, TypeOK, TicketsInOrder
  <2>2. ASSUME NEW i \in 1 .. Len(order'), NEW j \in 1 .. Len(order'), order'[i] = order'[j]
        PROVE  i = j
    <3>1. \A a, b \in 1 .. n : order[a] = order[b] => a = b
      BY DEF IInv, TicketsInOrder
    <3>2. CASE i \in 1 .. n /\ j \in 1 .. n
      BY <2>2, <3>1, <3>2, <1>3
    <3>3. CASE i = n + 1 \/ j = n + 1
      BY <2>2, <3>3, <1>1, <1>3, <1>4
    <3>4. QED
      BY <3>2, <3>3, <1>1, <1>3
  <2>3. ASSUME NEW i \in 1 .. Len(order')
        PROVE  ticket'[order'[i]] = (m_next' + i - 1) % CounterMod
    <3>1. CASE i = n + 1
      BY <3>1, <1>1, <1>2, <1>3 DEF IInv, TypeOK, TicketsInOrder
    <3>2. CASE i # n + 1
      BY <3>2, <1>1, <1>2, <1>3, <1>4 DEF IInv, TypeOK, TicketsInOrder
    <3>3. QED
      BY <3>1, <3>2
  <2>4. m_ticket' = (m_next' + Len(order')) % CounterMod
    <3>1. (((m_next + n) % CounterMod) + 1) % CounterMod = (m_next + n + 1) % CounterMod
      <4>1. n \in 0 .. CounterMod - 1
        BY <1>1
      <4> HIDE DEF n
      <4>2. QED
        BY <4>1, <1>1, ModStep
    <3>2. m_ticket = (m_next + n) % CounterMod
      BY DEF IInv, TicketsInOrder
    <3>3. QED
      BY <1>1, <1>2, <1>3, <3>1, <3>2 DEF Inc
  <2>5. QED
    BY <2>1, <2>2, <2>3, <2>4 DEF TicketsInOrder
<1>7. OldestInside'
  BY <1>1, <1>2, <1>3 DEF IInv, TypeOK, OldestInside
<1>8. QED
  BY <1>5, <1>6, <1>7 DEF IInv

(* The thread that leaves lock is the oldest, and the section is empty.    *)
LEMMA enterOldest ==
  ASSUME IInv, NEW t \in Threads, enter(t)
  PROVE  order # <<>> /\ order[1] = t /\ \A u \in Threads : pc[u] # "in"
<1>1. PICK i \in 1 .. Len(order) : order[i] = t
  BY DEF enter, IInv, TicketsInOrder
<1>2. Len(order) < CounterMod /\ Len(order) \in Nat /\ CounterMod \in Nat
  BY OrderBound, TicketAssumption DEF IInv, TypeOK, TicketsInOrder
<1>3. ticket[t] = (m_next + (i - 1)) % CounterMod
  BY <1>1, <1>2 DEF IInv, TypeOK, TicketsInOrder
<1>4. (ticket[t] - m_next) % CounterMod = 0
  BY DEF enter
<1>5. i - 1 = 0
  <2>1. m_next \in 0 .. CounterMod - 1 /\ i - 1 \in 0 .. CounterMod - 1
    BY <1>1, <1>2 DEF IInv, TypeOK
  <2>2. QED
    BY <1>2, <1>3, <1>4, <2>1, ModDiff
<1>6. order # <<>> /\ order[1] = t
  BY <1>1, <1>2, <1>5
<1>7. \A u \in Threads : pc[u] # "in"
  BY <1>6 DEF IInv, OldestInside, enter
<1>8. QED
  BY <1>6, <1>7

(* The end of the spin keeps it. *)
LEMMA enterInv ==
  ASSUME IInv, NEW t \in Threads, enter(t)
  PROVE  IInv'
<1>1. order # <<>> /\ order[1] = t /\ \A u \in Threads : pc[u] # "in"
  BY enterOldest
<1>2. /\ pc[t] = "spin" /\ pc' = [pc EXCEPT ![t] = "in"]
      /\ m_ticket' = m_ticket /\ m_next' = m_next /\ ticket' = ticket /\ order' = order
  BY DEF enter
<1>3. TypeOK'
  BY <1>2 DEF IInv, TypeOK
<1>4. TicketsInOrder'
  BY <1>2 DEF IInv, TypeOK, TicketsInOrder
<1>5. OldestInside'
  BY <1>1, <1>2 DEF IInv, TypeOK, OldestInside
<1>6. QED
  BY <1>3, <1>4, <1>5 DEF IInv

(* So does unlock(ticket): everyone moves up by one. *)
LEMMA unlockInv ==
  ASSUME IInv, NEW t \in Threads, unlock(t)
  PROVE  IInv'
<1> DEFINE n == Len(order)
<1>1. /\ order \in Seq(Threads) /\ n \in Nat /\ n < CounterMod
      /\ m_next \in 0 .. CounterMod - 1 /\ CounterMod \in Nat
  BY OrderBound, TicketAssumption DEF IInv, TypeOK, TicketsInOrder
<1>2. order # <<>> /\ order[1] = t /\ n > 0
  BY <1>1 DEF IInv, OldestInside, unlock
<1>3. /\ pc[t] = "in" /\ pc' = [pc EXCEPT ![t] = "out"]
      /\ m_next' = Inc(ticket[t]) /\ order' = Tail(order)
      /\ m_ticket' = m_ticket /\ ticket' = ticket
  BY DEF unlock
<1>4. /\ Len(order') = n - 1 /\ order' \in Seq(Threads)
      /\ \A i \in 1 .. n - 1 : order'[i] = order[i + 1]
  BY <1>1, <1>2, <1>3
<1>5. m_next' = (m_next + 1) % CounterMod
  <2>1. ticket[t] = m_next % CounterMod
    BY <1>1, <1>2 DEF IInv, TypeOK, TicketsInOrder
  <2>2. ticket[t] = m_next
    BY <2>1, <1>1, ModSmall
  <2>3. QED
    BY <1>3, <2>2 DEF Inc
<1>6. TypeOK'
  BY <1>1, <1>3, <1>4, <1>5 DEF IInv, TypeOK
<1>7. \A i \in 1 .. n - 1 : order'[i] \in Threads /\ order'[i] # t
  BY <1>1, <1>2, <1>4 DEF IInv, TicketsInOrder
<1>8. TicketsInOrder'
  <2>1. ASSUME NEW u \in Threads
        PROVE  pc'[u] # "out" <=> \E i \in 1 .. Len(order') : order'[i] = u
    <3>1. CASE u = t
      BY <3>1, <1>1, <1>3, <1>4, <1>7 DEF IInv, TypeOK
    <3>2. CASE u # t
      <4>1. pc'[u] # "out" <=> \E i \in 1 .. n : order[i] = u
        BY <3>2, <1>3 DEF IInv, TypeOK, TicketsInOrder
      <4>2. ASSUME NEW i \in 1 .. n, order[i] = u
            PROVE  i - 1 \in 1 .. n - 1 /\ order'[i - 1] = u
        BY <4>2, <3>2, <1>1, <1>2, <1>4
      <4>3. ASSUME NEW i \in 1 .. n - 1, order'[i] = u
            PROVE  i + 1 \in 1 .. n /\ order[i + 1] = u
        BY <4>3, <1>1, <1>4
      <4>4. QED
        BY <4>1, <4>2, <4>3, <1>4
    <3>3. QED
      BY <3>1, <3>2
  <2>2. ASSUME NEW i \in 1 .. Len(order'), NEW j \in 1 .. Len(order'), order'[i] = order'[j]
        PROVE  i = j
    <3>1. \A a, b \in 1 .. n : order[a] = order[b] => a = b
      BY DEF IInv, TicketsInOrder
    <3>2. /\ i + 1 \in 1 .. n /\ j + 1 \in 1 .. n
          /\ order'[i] = order[i + 1] /\ order'[j] = order[j + 1]
      BY <1>1, <1>4
    <3>3. i + 1 = j + 1
      BY <2>2, <3>1, <3>2
    <3>4. QED
      BY <3>3, <1>1, <1>4
  <2>3. ASSUME NEW i \in 1 .. Len(order')
        PROVE  ticket'[order'[i]] = (m_next' + i - 1) % CounterMod
    <3>1. ticket[order[i + 1]] = (m_next + (i + 1) - 1) % CounterMod
      <4>1. i + 1 \in 1 .. n
        BY <1>1, <1>4
      <4>2. \A k \in 1 .. n : ticket[order[k]] = (m_next + k - 1) % CounterMod
        BY DEF IInv, TicketsInOrder
      <4>3. QED
        BY <4>1, <4>2
    <3>2. (((m_next + 1) % CounterMod) + (i - 1)) % CounterMod = (m_next + 1 + (i - 1)) % CounterMod
      <4> DEFINE k == i - 1
      <4>1. k \in 0 .. CounterMod - 1
        BY <1>1, <1>4
      <4> HIDE DEF k
      <4>2. (((m_next + 1) % CounterMod) + k) % CounterMod = (m_next + 1 + k) % CounterMod
        BY <4>1, <1>1, ModStep
      <4>3. QED
        BY <4>2 DEF k
    <3>3. order'[i] = order[i + 1] /\ ticket' = ticket /\ i \in Int
      BY <1>3, <1>4
    <3>4. m_next + (i + 1) - 1 = m_next + 1 + (i - 1)
      BY <1>1, <3>3
    <3>5. m_next' + i - 1 = ((m_next + 1) % CounterMod) + (i - 1)
      BY <1>1, <1>5, <3>3
    <3>6. QED
      BY <3>1, <3>2, <3>3, <3>4, <3>5
  <2>4. m_ticket' = (m_next' + Len(order')) % CounterMod
    <3>1. (((m_next + 1) % CounterMod) + (n - 1)) % CounterMod = (m_next + 1 + (n - 1)) % CounterMod
      BY <1>1, <1>2, ModStep
    <3>2. m_next + 1 + (n - 1) = m_next + n
      BY <1>1
    <3>3. m_ticket = (m_next + n) % CounterMod
      BY DEF IInv, TicketsInOrder
    <3>4. QED
      BY <3>1, <3>2, <3>3, <1>3, <1>4, <1>5
  <2>5. QED
    BY <2>1, <2>2, <2>3, <2>4 DEF TicketsInOrder
<1>9. OldestInside'
  <2>1. \A u \in Threads : pc[u] = "in" => u = t
    BY <1>2 DEF IInv, OldestInside
  <2>2. QED
    BY <2>1, <1>3 DEF IInv, TypeOK, OldestInside
<1>10. QED
  BY <1>6, <1>8, <1>9 DEF IInv

(* Every step keeps the invariant. *)
LEMMA NextInv == IInv /\ [Next]_vars => IInv'
<1> SUFFICES ASSUME IInv, [Next]_vars PROVE IInv'
  OBVIOUS
<1>1. CASE Next
  BY <1>1, lockInv, enterInv, unlockInv DEF Next
<1>2. CASE UNCHANGED vars
  BY <1>2 DEF vars, IInv, TypeOK, TicketsInOrder, OldestInside
<1>3. QED
  BY <1>1, <1>2

-----------------------------------------------------------------------------
(* The tickets in use stay a window of the counters' range, one per thread.*)
THEOREM TicketsStayInOrder == Spec => []TicketsInOrder
<1>1. IInv => TicketsInOrder
  BY DEF IInv
<1>2. QED
  BY <1>1, InitInv, NextInv, PTL DEF Spec

(* Two threads are never in the guarded section at once. *)
THEOREM Exclusive == Spec => []MutualExclusion
<1>1. IInv => MutualExclusion
  BY DEF IInv, OldestInside, MutualExclusion
<1>2. QED
  BY <1>1, InitInv, NextInv, PTL DEF Spec

(* lock is Ask, the end of its spin Acquire, unlock Release. *)
LEMMA StepImplements ==
  IInv /\ [Next]_vars => [Lock!Next]_<<order, {t \in Threads : pc[t] = "in"}>>
<1> DEFINE own == {t \in Threads : pc[t] = "in"}
<1> SUFFICES ASSUME IInv, [Next]_vars
             PROVE  Lock!Next \/ (order' = order /\ own' = own)
  OBVIOUS
<1>1. ASSUME NEW t \in Threads, lock(t)
      PROVE  Lock!Next
  <2>1. own' = own
    BY <1>1 DEF lock, IInv, TypeOK
  <2>2. Lock!Ask(t)
    BY <1>1, <2>1 DEF lock, Lock!Ask
  <2>3. QED
    BY <2>2 DEF Lock!Next
<1>2. ASSUME NEW t \in Threads, enter(t)
      PROVE  Lock!Next
  <2>1. order # <<>> /\ order[1] = t /\ own = {} /\ order' = order
    BY <1>2, enterOldest DEF enter
  <2>2. own' = {t}
    BY <1>2, <2>1 DEF enter, IInv, TypeOK
  <2>3. Head(order) = t
    BY <2>1 DEF IInv, TypeOK
  <2>4. Lock!Acquire(t)
    BY <2>1, <2>2, <2>3 DEF Lock!Acquire
  <2>5. QED
    BY <2>4 DEF Lock!Next
<1>3. ASSUME NEW t \in Threads, unlock(t)
      PROVE  Lock!Next
  <2>1. \A u \in Threads : pc[u] = "in" <=> u = t
    BY <1>3 DEF IInv, OldestInside, unlock
  <2>2. own = {t}
    BY <2>1
  <2>3. own' = {} /\ order' = Tail(order)
    BY <1>3, <2>1 DEF unlock, IInv, TypeOK
  <2>4. Lock!Release(t)
    BY <2>2, <2>3 DEF Lock!Release
  <2>5. QED
    BY <2>4 DEF Lock!Next
<1>4. CASE UNCHANGED vars
  BY <1>4 DEF vars
<1>5. QED
  BY <1>1, <1>2, <1>3, <1>4 DEF Next

(* The lock is a fair mutex: it is owned one thread at a time, in the      *)
(* order of the fetch_adds in lock.                                        *)
THEOREM ImplementsFairMutex == Spec => FairMutex
<1>1. Init => Lock!Init
  BY DEF Init, Lock!Init
<1>2. QED
  BY <1>1, InitInv, NextInv, StepImplements, PTL DEF Spec, FairMutex, Lock!Spec
=============================================================================
