-------------------------- MODULE AtomicQueue_proofs -------------------------
(***************************************************************************)
(* AtomicQueue keeps its types, loses and duplicates no element, and       *)
(* implements the exactly-once channel, for any number of threads, any     *)
(* size, and any value of the counters.                                    *)
(***************************************************************************)
EXTENDS AtomicQueue, FiniteSetTheorems, TLAPS

(* The inductive invariant: no part of it can be proved without the others.*)
IInv == TypeOK /\ PushBound /\ InFlight

(* Arithmetic of counters that wrap at M: what % keeps of a sum and of a   *)
(* difference.                                                             *)
LEMMA NoMultipleBetween ==
  ASSUME NEW M \in Nat \ {0}, NEW n \in Int, M * n < M, M * n > -M
  PROVE  n = 0
<1>1. CASE n >= 1
  BY <1>1
<1>2. CASE n <= -1
  BY <1>2
<1>3. QED
  BY <1>1, <1>2

LEMMA DivMod ==
  ASSUME NEW M \in Nat \ {0}, NEW a \in Int
  PROVE  a \div M \in Int /\ a % M \in 0 .. M - 1 /\ a = M * (a \div M) + (a % M)
  OBVIOUS

(* The remainder is the only one. *)
LEMMA Remainder ==
  ASSUME NEW M \in Nat \ {0}, NEW q \in Int, NEW r \in 0 .. M - 1
  PROVE  (M * q + r) % M = r
<1> DEFINE a == M * q + r
           n == q - (a \div M)
<1>1. a \in Int
  OBVIOUS
<1>2. a \div M \in Int /\ a % M \in 0 .. M - 1 /\ a = M * (a \div M) + (a % M)
  BY <1>1, DivMod
<1>3. \A x \in Int : M * (q - x) = M * q - M * x
  OBVIOUS
<1>4. n \in Int /\ M * n = (a % M) - r
  BY <1>2, <1>3
<1>5. M * n < M /\ M * n > -M
  BY <1>2, <1>4
<1> HIDE DEF n
<1>6. n = 0
  BY <1>4, <1>5, NoMultipleBetween
<1> HIDE DEF a
<1>7. QED
  BY <1>2, <1>4, <1>6 DEF a

LEMMA ModOfSum ==
  ASSUME NEW M \in Nat \ {0}, NEW a \in Int, NEW k \in Int
  PROVE  ((a % M) + k) % M = (a + k) % M
<1> DEFINE q == a \div M
           r == a % M
           u == (r + k) \div M
           v == (r + k) % M
<1>1. q \in Int /\ r \in Int /\ a = M * q + r
  BY DivMod
<1>2. r + k \in Int
  BY <1>1
<1>3. u \in Int /\ v \in 0 .. M - 1 /\ r + k = M * u + v
  BY <1>2, DivMod
<1> HIDE DEF q, r, u, v
<1>4. M * (q + u) = M * q + M * u
  BY <1>1, <1>3
<1>5. a + k = M * (q + u) + v /\ q + u \in Int
  BY <1>1, <1>3, <1>4
<1>6. (a + k) % M = v
  BY <1>3, <1>5, Remainder
<1>7. QED
  BY <1>6 DEF v, r

LEMMA ModOfDifference ==
  ASSUME NEW M \in Nat \ {0}, NEW a \in Int, NEW b \in Int
  PROVE  ((a % M) - (b % M)) % M = (a - b) % M
<1> DEFINE q == b \div M
           r == b % M
           k == a - b
           u == k \div M
           v == k % M
<1>1. q \in Int /\ r \in Int /\ b = M * q + r
  BY DivMod
<1>2. k \in Int
  OBVIOUS
<1> HIDE DEF q, r
<1>3. ((a % M) + (-r)) % M = (a + (-r)) % M
  <2>1. -r \in Int
    BY <1>1
  <2>2. QED
    BY <2>1, ModOfSum
<1>4. u \in Int /\ v \in 0 .. M - 1 /\ k = M * u + v
  BY <1>2, DivMod
<1> HIDE DEF u, v
<1>5. M * (q + u) = M * q + M * u
  BY <1>1, <1>4
<1>6. a + (-r) = M * (q + u) + v /\ q + u \in Int
  BY <1>1, <1>4, <1>5
<1>7. (a + (-r)) % M = v
  BY <1>4, <1>6, Remainder
<1>8. a % M \in Int
  BY DivMod
<1>9. (a % M) + (-r) = (a % M) - r
  BY <1>1, <1>8
<1>10. QED
  BY <1>3, <1>7, <1>9 DEF v, r

(* Two counts less than a wrap apart are told apart by their counters.     *)
LEMMA ModApart ==
  ASSUME NEW M \in Nat \ {0}, NEW a \in Int, NEW b \in Int, 0 <= a - b, a - b < M
  PROVE  /\ ((a % M) - (b % M)) % M = a - b
         /\ a % M = b % M => a = b
<1>1. a - b \in 0 .. M - 1
  OBVIOUS
<1>2. (M * 0 + (a - b)) % M = a - b
  BY <1>1, Remainder
<1>3. M * 0 + (a - b) = a - b
  OBVIOUS
<1>4. ((a % M) - (b % M)) % M = a - b
  <2>1. ((a % M) - (b % M)) % M = (a - b) % M
    BY ModOfDifference, Zenon
  <2>2. (a - b) % M = a - b
    BY <1>2, <1>3, Zenon
  <2>3. QED
    BY <2>1, <2>2, Zenon
<1>5. ASSUME a % M = b % M PROVE a = b
  <2>1. a % M \in Int
    BY DivMod
  <2>2. (a % M) - (b % M) = 0
    BY <1>5, <2>1
  <2>3. (M * 0 + 0) % M = 0 /\ M * 0 + 0 = 0 /\ 0 \in 0 .. M - 1
    BY Remainder
  <2>4. QED
    BY <1>4, <2>2, <2>3
<1>6. QED
  BY <1>4, <1>5

(* The comparison of the counters is that of the counts. *)
LEMMA SignedDiffApart ==
  ASSUME NEW a \in Int, NEW b \in Int, 0 <= a - b, a - b <= QueueSize
  PROVE  SignedDiff(a % CounterMod, b % CounterMod) = a - b
<1>1. CounterMod \in Nat \ {0} /\ QueueSize \in Nat \ {0} /\ CounterMod \div 2 > QueueSize
  BY QueueBaseAssumption
<1>2. a - b < CounterMod \div 2 /\ a - b < CounterMod
  BY <1>1
<1>3. ((a % CounterMod) - (b % CounterMod)) % CounterMod = a - b
  <2>1. CounterMod \in Nat \ {0}
    BY <1>1
  <2>2. a - b < CounterMod
    BY <1>2
  <2>3. QED
    BY <2>1, <2>2, ModApart, Zenon
<1> DEFINE d == ((a % CounterMod) - (b % CounterMod)) % CounterMod
<1>4. SignedDiff(a % CounterMod, b % CounterMod)
        = IF d < CounterMod \div 2 THEN d ELSE d - CounterMod
  BY DEF SignedDiff
<1>5. d < CounterMod \div 2
  BY <1>2, <1>3, Zenon
<1> HIDE DEF d
<1>6. QED
  BY <1>3, <1>4, <1>5, Zenon DEF d

-----------------------------------------------------------------------------
(* Unsigned increment stays in range. *)
LEMMA IncType == ASSUME NEW n \in Counters PROVE Inc(n) \in Counters
  BY QueueBaseAssumption DEF Counters, Inc

(* Every ticket names a slot. *)
LEMMA SlotType == ASSUME NEW n \in Counters PROVE SlotOf(n) \in Slots
<1>1. n % QueueSize \in Slots
  BY QueueBaseAssumption DEF Counters, Slots
<1>2. QED
  BY <1>1, QueueBaseAssumption DEF SlotOf

(* The history a completed push and a completed pop leave. *)
LEMMA SentStep ==
  ASSUME TypeOK, NEW p \in Producers, pushed[p] < MaxPush,
         pushed' = [pushed EXCEPT ![p] = @ + 1]
  PROVE  /\ Pending(p) \in Messages
         /\ Pending(p) \notin Sent
         /\ Sent' = Sent \cup {Pending(p)}
<1>1. Pending(p) \in Messages /\ Pending(p) \notin Sent
  BY QueueBaseAssumption DEF TypeOK, Pending, Messages, Sent
<1>2. ASSUME NEW m \in Messages
      PROVE  m \in Sent' <=> m \in Sent \cup {Pending(p)}
  <2>1. PICK q \in Producers, n \in 1 .. MaxPush : m = <<q, n>>
    BY DEF Messages
  <2>2. m \in Sent <=> n <= pushed[q]
    BY <2>1 DEF Sent
  <2>3. m \in Sent' <=> n <= pushed'[q]
    BY <2>1 DEF Sent
  <2>4. m = Pending(p) <=> q = p /\ n = pushed[p] + 1
    BY <2>1 DEF Pending
  <2>5. CASE q = p
    BY <2>2, <2>3, <2>4, <2>5, QueueBaseAssumption DEF TypeOK
  <2>6. CASE q # p
    BY <2>2, <2>3, <2>4, <2>6, QueueBaseAssumption DEF TypeOK
  <2>7. QED
    BY <2>5, <2>6
<1>3. QED
  BY <1>1, <1>2 DEF Sent

(* Handing one element out adds it to the delivered ones. *)
LEMMA DeliveredStep ==
  ASSUME TypeOK, NEW c \in Consumers, NEW m \in Messages,
         recv' = [recv EXCEPT ![c] = Append(@, m)]
  PROVE  Delivered' = Delivered \cup {m}
<1>1. recv[c] \in Seq(Messages) /\ DOMAIN recv = Consumers
  BY DEF TypeOK
<1>2. /\ DOMAIN Append(recv[c], m) = 1 .. Len(recv[c]) + 1
      /\ DOMAIN recv[c] = 1 .. Len(recv[c])
      /\ Len(recv[c]) \in Nat
      /\ \A i \in 1 .. Len(recv[c]) : Append(recv[c], m)[i] = recv[c][i]
      /\ Append(recv[c], m)[Len(recv[c]) + 1] = m
  BY <1>1
<1>3. ASSUME NEW x \in Messages
      PROVE  x \in Delivered' <=> x \in Delivered \cup {m}
  <2> DEFINE In(f, d) == \E i \in DOMAIN f[d] : f[d][i] = x
  <2>1. In(recv', c) <=> In(recv, c) \/ x = m
    BY <1>1, <1>2
  <2>2. \A d \in Consumers : d # c => (In(recv', d) <=> In(recv, d))
    BY <1>1
  <2>3. x \in Delivered' <=> \E d \in Consumers : In(recv', d)
    BY DEF Delivered
  <2>4. x \in Delivered <=> \E d \in Consumers : In(recv, d)
    BY DEF Delivered
  <2> HIDE DEF In
  <2>5. QED
    BY <2>1, <2>2, <2>3, <2>4
<1>4. Delivered \subseteq Messages /\ Delivered' \subseteq Messages
  BY DEF Delivered
<1>5. QED
  BY <1>3, <1>4

(* Steps that leave the history alone. *)
LEMMA HistorySame ==
  ASSUME UNCHANGED historyVars
  PROVE  Sent' = Sent /\ Delivered' = Delivered
  BY DEF historyVars, Sent, Delivered

(* What the ticket steps do to the state: nothing to slots or history.     *)
LEMMA TicketStepType ==
  ASSUME TypeOK, PushBound, TicketStep, UNCHANGED m_elements
  PROVE  TypeOK' /\ PushBound' /\ UNCHANGED historyVars
<1> USE DEF counterVars, historyVars
<1>1. ASSUME NEW p \in Producers, TryPushStep(p)
      PROVE  TypeOK' /\ PushBound' /\ UNCHANGED historyVars
  <2>1. p \in Threads /\ p \notin Consumers
    BY QueueBaseAssumption DEF Threads
  <2>2. CASE TryPushLoad(p)
    BY <2>1, <2>2 DEF TryPushLoad, TypeOK, PushBound
  <2>3. CASE TryPushFull(p)
    BY <2>1, <2>3 DEF TryPushFull, TypeOK, PushBound
  <2>4. CASE TryPushRoom(p)
    BY <2>1, <2>4 DEF TryPushRoom, TypeOK, PushBound
  <2>5. CASE AdvanceHead(p)
    <3>1. \/ /\ m_head' = Inc(ticket[p]) /\ ticket' = ticket
             /\ pc' = [pc EXCEPT ![p] = "slot"]
          \/ /\ m_head' = m_head /\ ticket' = [ticket EXCEPT ![p] = m_head]
             /\ pc' = [pc EXCEPT ![p] = "check"]
      BY <2>5, Zenon DEF AdvanceHead
    <3>2. pc[p] = "advance" /\ m_tail' = m_tail /\ UNCHANGED historyVars
      BY <2>5 DEF AdvanceHead
    <3>3. Inc(ticket[p]) \in Counters
      BY <2>1, IncType DEF TypeOK
    <3>4. TypeOK'
      BY <3>1, <3>2, <3>3, <2>1 DEF TypeOK
    <3>5. PushBound'
      BY <3>1, <3>2, <2>1 DEF TypeOK, PushBound, Threads
    <3>6. QED
      BY <3>2, <3>4, <3>5
  <2>6. QED
    BY <1>1, <2>2, <2>3, <2>4, <2>5 DEF TryPushStep
<1>2. ASSUME NEW p \in Producers, PushTicket(p)
      PROVE  TypeOK' /\ PushBound' /\ UNCHANGED historyVars
  BY <1>2, IncType DEF PushTicket, TypeOK, PushBound, Threads
<1>3. ASSUME NEW c \in Consumers, TryPopStep(c)
      PROVE  TypeOK' /\ PushBound' /\ UNCHANGED historyVars
  <2>1. c \in Threads /\ c \notin Producers
    BY <1>3, QueueBaseAssumption DEF Threads
  <2>2. CASE TryPopLoad(c)
    BY <2>1, <2>2 DEF TryPopLoad, TypeOK, PushBound
  <2>3. CASE TryPopEmpty(c)
    BY <2>1, <2>3 DEF TryPopEmpty, TypeOK, PushBound
  <2>4. CASE TryPopAny(c)
    BY <2>1, <2>4 DEF TryPopAny, TypeOK, PushBound
  <2>5. CASE AdvanceTail(c)
    <3>1. \/ /\ m_tail' = Inc(ticket[c]) /\ ticket' = ticket
             /\ pc' = [pc EXCEPT ![c] = "slot"]
          \/ /\ m_tail' = m_tail /\ ticket' = [ticket EXCEPT ![c] = m_tail]
             /\ pc' = [pc EXCEPT ![c] = "check"]
      BY <2>5, Zenon DEF AdvanceTail
    <3>2. pc[c] = "advance" /\ m_head' = m_head /\ UNCHANGED historyVars
      BY <2>5 DEF AdvanceTail
    <3>3. Inc(ticket[c]) \in Counters
      BY <2>1, IncType DEF TypeOK
    <3>4. TypeOK'
      BY <3>1, <3>2, <3>3, <2>1 DEF TypeOK
    <3>5. PushBound'
      BY <3>1, <3>2, <2>1 DEF TypeOK, PushBound, Threads
    <3>6. QED
      BY <3>2, <3>4, <3>5
  <2>6. QED
    BY <1>3, <2>2, <2>3, <2>4, <2>5 DEF TryPopStep
<1>4. ASSUME NEW c \in Consumers, PopTicket(c)
      PROVE  TypeOK' /\ PushBound' /\ UNCHANGED historyVars
  BY <1>4, IncType, QueueBaseAssumption DEF PopTicket, TypeOK, PushBound, Threads
<1>5. QED
  BY <1>1, <1>2, <1>3, <1>4 DEF TicketStep

(* A push adds its element to the sent ones and puts it in an empty slot.  *)
LEMMA do_pushInv ==
  ASSUME IInv, NEW p \in Producers, do_push(p)
  PROVE  IInv'
<1> DEFINE s == SlotOf(ticket[p])
           e == Pending(p)
<1>1. p \in Threads /\ p \notin Consumers /\ ticket[p] \in Counters
  BY QueueBaseAssumption DEF IInv, TypeOK, Threads
<1>2. s \in Slots
  BY <1>1, SlotType
<1>3. pushed[p] < MaxPush
  BY <1>1 DEF IInv, PushBound, do_push
<1>4. /\ pc[p] = "slot" /\ m_elements[s] = NIL
      /\ m_elements' = [m_elements EXCEPT ![s] = e]
      /\ pushed' = [pushed EXCEPT ![p] = @ + 1]
      /\ pc' = [pc EXCEPT ![p] = "idle"]
      /\ m_head' = m_head /\ m_tail' = m_tail /\ ticket' = ticket /\ recv' = recv
  BY DEF do_push, counterVars
<1>5. /\ e \in Messages /\ e \notin Sent
      /\ Sent' = Sent \cup {e}
  BY <1>3, <1>4, SentStep DEF IInv
<1>6. Delivered' = Delivered
  BY <1>4 DEF Delivered
<1>7. e # NIL
  BY <1>5, QueueBaseAssumption
<1>8. m_elements \in [Slots -> Messages \cup {NIL}]
  BY DEF IInv, TypeOK
<1> HIDE DEF s, e
<1>9. TypeOK'
  BY <1>1, <1>2, <1>3, <1>4, <1>5, QueueBaseAssumption DEF IInv, TypeOK
<1>10. PushBound'
  BY <1>1, <1>3, <1>4 DEF IInv, PushBound, TypeOK, Threads
<1>11. InFlight'
  <2>1. (Delivered \subseteq Sent)'
    BY <1>5, <1>6 DEF IInv, InFlight
  <2>2. \A i \in Slots : m_elements'[i] # NIL => m_elements'[i] \in Sent' \ Delivered'
    BY <1>2, <1>4, <1>5, <1>6, <1>8 DEF IInv, InFlight
  <2>3. \A i, j \in Slots : m_elements'[i] = m_elements'[j] /\ m_elements'[i] # NIL => i = j
    BY <1>2, <1>4, <1>5, <1>7, <1>8 DEF IInv, InFlight
  <2>4. ASSUME NEW m \in Sent' \ Delivered'
        PROVE  \E i \in Slots : m_elements'[i] = m
    <3>1. CASE m = e
      BY <3>1, <1>2, <1>4, <1>8
    <3>2. CASE m # e
      <4>1. m \in Sent \ Delivered
        BY <3>2, <1>5, <1>6
      <4>2. PICK i \in Slots : m_elements[i] = m
        BY <4>1 DEF IInv, InFlight
      <4>3. m # NIL
        BY <4>1, QueueBaseAssumption DEF Sent
      <4>4. QED
        BY <4>2, <4>3, <1>2, <1>4, <1>8
    <3>3. QED
      BY <3>1, <3>2
  <2>5. QED
    BY <2>1, <2>2, <2>3, <2>4 DEF InFlight
<1>12. QED
  BY <1>9, <1>10, <1>11 DEF IInv

(* A pop moves the element of its slot to the delivered ones.              *)
LEMMA do_popStep ==
  ASSUME IInv, NEW c \in Consumers, do_pop(c)
  PROVE  /\ SlotOf(ticket[c]) \in Slots
         /\ m_elements[SlotOf(ticket[c])] \in Sent \ Delivered
         /\ m_elements[SlotOf(ticket[c])] \in Messages
         /\ Delivered' = Delivered \cup {m_elements[SlotOf(ticket[c])]}
         /\ Sent' = Sent
<1> DEFINE s == SlotOf(ticket[c])
           e == m_elements[s]
<1>1. ticket[c] \in Counters
  BY DEF IInv, TypeOK, Threads
<1>2. s \in Slots
  BY <1>1, SlotType
<1>3. e \in Sent \ Delivered
  BY <1>2 DEF IInv, InFlight, do_pop
<1>4. e \in Messages
  BY <1>3 DEF Sent
<1>5. Delivered' = Delivered \cup {e}
  BY <1>4, DeliveredStep DEF IInv, do_pop
<1>6. Sent' = Sent
  BY DEF do_pop, Sent
<1>7. QED
  BY <1>2, <1>3, <1>4, <1>5, <1>6

(* A pop keeps the invariant. *)
LEMMA do_popInv ==
  ASSUME IInv, NEW c \in Consumers, do_pop(c)
  PROVE  IInv'
<1> DEFINE s == SlotOf(ticket[c])
           e == m_elements[s]
<1>1. c \in Threads /\ c \notin Producers
  BY QueueBaseAssumption DEF Threads
<1>2. /\ s \in Slots /\ e \in Sent \ Delivered /\ e \in Messages
      /\ Delivered' = Delivered \cup {e} /\ Sent' = Sent
  BY do_popStep
<1>3. /\ recv' = [recv EXCEPT ![c] = Append(@, e)]
      /\ m_elements' = [m_elements EXCEPT ![s] = NIL]
      /\ pc' = [pc EXCEPT ![c] = "idle"]
      /\ m_head' = m_head /\ m_tail' = m_tail /\ ticket' = ticket /\ pushed' = pushed
  BY DEF do_pop, counterVars
<1>4. m_elements \in [Slots -> Messages \cup {NIL}]
  BY DEF IInv, TypeOK
<1>5. TypeOK'
  <2>1. recv' \in [Consumers -> Seq(Messages)]
    BY <1>2, <1>3 DEF IInv, TypeOK
  <2>2. QED
    BY <2>1, <1>1, <1>2, <1>3 DEF IInv, TypeOK
<1>6. PushBound'
  BY <1>1, <1>3 DEF IInv, TypeOK, PushBound, Threads
<1>7. InFlight'
  <2>1. (Delivered \subseteq Sent)'
    BY <1>2 DEF IInv, InFlight
  <2>2. ASSUME NEW i \in Slots, m_elements'[i] # NIL
        PROVE  m_elements'[i] \in Sent' \ Delivered'
    <3>1. i # s /\ m_elements'[i] = m_elements[i]
      BY <2>2, <1>2, <1>3, <1>4
    <3>2. m_elements[i] # e
      BY <2>2, <3>1, <1>2 DEF IInv, InFlight
    <3>3. QED
      BY <2>2, <3>1, <3>2, <1>2 DEF IInv, InFlight
  <2>3. \A i, j \in Slots : m_elements'[i] = m_elements'[j] /\ m_elements'[i] # NIL => i = j
    BY <1>2, <1>3, <1>4 DEF IInv, InFlight
  <2>4. ASSUME NEW m \in Sent' \ Delivered'
        PROVE  \E i \in Slots : m_elements'[i] = m
    <3>1. m \in Sent \ Delivered /\ m # e
      BY <1>2
    <3>2. PICK i \in Slots : m_elements[i] = m
      BY <3>1 DEF IInv, InFlight
    <3>3. i # s
      BY <3>1, <3>2
    <3>4. QED
      BY <3>2, <3>3, <1>3, <1>4
  <2>5. QED
    BY <2>1, <2>2, <2>3, <2>4 DEF InFlight
<1>8. QED
  BY <1>5, <1>6, <1>7 DEF IInv

(* A new queue satisfies the invariant. *)
LEMMA InitInv == Init => IInv
<1> SUFFICES ASSUME Init PROVE IInv
  OBVIOUS
<1>1. TypeOK
  BY QueueBaseAssumption DEF Init, QueueBaseInit, TypeOK, Counters
<1>2. PushBound
  BY DEF Init, QueueBaseInit, PushBound, Threads
<1>3. Sent = {}
  BY QueueBaseAssumption DEF Init, QueueBaseInit, Sent, Messages
<1>4. Delivered = {}
  BY DEF Init, QueueBaseInit, Delivered
<1>5. InFlight
  BY <1>3, <1>4 DEF Init, InFlight
<1>6. QED
  BY <1>1, <1>2, <1>5 DEF IInv

(* Every step keeps the invariant. *)
LEMMA NextInv == IInv /\ [Next]_vars => IInv'
<1> SUFFICES ASSUME IInv, [Next]_vars PROVE IInv'
  OBVIOUS
<1>1. CASE TicketStep /\ UNCHANGED m_elements
  <2>1. TypeOK' /\ PushBound' /\ UNCHANGED historyVars
    BY <1>1, TicketStepType DEF IInv
  <2>2. InFlight'
    BY <1>1, <2>1, HistorySame DEF IInv, InFlight
  <2>3. QED
    BY <2>1, <2>2 DEF IInv
<1>2. CASE \E p \in Producers : do_push(p)
  BY <1>2, do_pushInv
<1>3. CASE \E c \in Consumers : do_pop(c)
  BY <1>3, do_popInv
<1>4. CASE UNCHANGED vars
  BY <1>4 DEF vars, IInv, TypeOK, PushBound, InFlight, Sent, Delivered
<1>5. QED
  BY <1>1, <1>2, <1>3, <1>4 DEF Next

(* Every variable keeps its type. *)
THEOREM TypeCorrect == Spec => []TypeOK
<1>1. IInv => TypeOK
  BY DEF IInv
<1>2. QED
  BY <1>1, InitInv, NextInv, PTL DEF Spec

(* No interleaving of pushes and pops loses or duplicates an element: the  *)
(* compare-exchange and the exchange on the slot are enough, whatever the  *)
(* counters hand out.                                                      *)
THEOREM NothingLost == Spec => []InFlight
<1>1. IInv => InFlight
  BY DEF IInv
<1>2. QED
  BY <1>1, InitInv, NextInv, PTL DEF Spec

(* A completed push is a Send, a completed pop a Deliver. *)
LEMMA StepImplements ==
  IInv /\ [Next]_vars => [Channel!Next]_<<Sent, recv>>
<1> SUFFICES ASSUME IInv, [Next]_vars
             PROVE  Channel!Next \/ (Sent' = Sent /\ recv' = recv)
  OBVIOUS
<1>1. CASE TicketStep /\ UNCHANGED m_elements
  <2>1. UNCHANGED historyVars
    BY <1>1, TicketStepType DEF IInv
  <2>2. QED
    BY <2>1, HistorySame DEF historyVars
<1>2. ASSUME NEW p \in Producers, do_push(p)
      PROVE  Channel!Next
  <2>1. pushed[p] < MaxPush /\ p \in Threads
    BY <1>2 DEF IInv, PushBound, do_push, Threads
  <2>2. /\ Pending(p) \in Messages /\ Pending(p) \notin Sent
        /\ Sent' = Sent \cup {Pending(p)}
    BY <1>2, <2>1, SentStep DEF IInv, do_push
  <2>3. recv' = recv
    BY <1>2 DEF do_push
  <2>4. QED
    BY <2>2, <2>3 DEF Channel!Next, Channel!Send
<1>3. ASSUME NEW c \in Consumers, do_pop(c)
      PROVE  Channel!Next
  <2> DEFINE e == m_elements[SlotOf(ticket[c])]
  <2>1. e \in Sent \ Delivered /\ Sent' = Sent
    BY <1>3, do_popStep
  <2>2. e \in Messages
    BY <2>1 DEF Sent
  <2>3. e \in Sent \ Channel!Handed
    BY <2>1 DEF Delivered, Channel!Handed
  <2>4. recv' = [recv EXCEPT ![c] = Append(@, e)]
    BY <1>3 DEF do_pop
  <2> HIDE DEF e
  <2>5. Channel!Deliver(c, e)
    BY <2>1, <2>3, <2>4 DEF Channel!Deliver
  <2>6. QED
    BY <2>2, <2>5 DEF Channel!Next
<1>4. CASE UNCHANGED vars
  BY <1>4 DEF vars, Sent
<1>5. QED
  BY <1>1, <1>2, <1>3, <1>4 DEF Next

(* The queue is an exactly-once channel: do_pop hands out what do_push     *)
(* stored, to one consumer and once.                                       *)
THEOREM Implements == Spec => ExactlyOnceSpec
<1>1. Init => Channel!Init
  <2> SUFFICES ASSUME Init PROVE Sent = {} /\ recv = [c \in Consumers |-> <<>>]
    BY DEF Channel!Init
  <2>1. Sent = {}
    BY QueueBaseAssumption DEF Init, QueueBaseInit, Sent, Messages
  <2>2. recv = [c \in Consumers |-> <<>>]
    BY DEF Init, QueueBaseInit
  <2>3. QED
    BY <2>1, <2>2
<1>2. QED
  BY <1>1, InitInv, NextInv, StepImplements, PTL DEF Spec, ExactlyOnceSpec, Channel!Spec

-----------------------------------------------------------------------------
(* One producer and one consumer: the tickets count the elements.          *)

(* Thread u, having completed n calls, moves counter k on with plain       *)
(* stores, and its ticket is the count.                                    *)
Counts(u, n, k) ==
  /\ k = (Start + n + IF pc[u] = "slot" THEN 1 ELSE 0) % CounterMod
  /\ pc[u] \in {"check", "advance"} => ticket[u] = k
  /\ pc[u] = "slot" => ticket[u] = (Start + n) % CounterMod

(* The i-th element popped is the i-th pushed, and every element lies in   *)
(* the slot of its number.                                                 *)
Sequential ==
  /\ \A p \in Producers : Counts(p, pushed[p], m_head)
  /\ \A c \in Consumers : Counts(c, Len(recv[c]), m_tail)
  /\ \A c \in Consumers : \A i \in DOMAIN recv[c] : recv[c][i][2] = i
  /\ \A s \in Slots : m_elements[s] # NIL => s = SlotOf((Start + m_elements[s][2] - 1) % CounterMod)

(* A step of a thread on its own counter, before it has a ticket. *)
LEMMA CountsWait ==
  ASSUME TypeOK, NEW u \in Threads, NEW n \in Nat, NEW k, NEW x \in {"idle", "check", "advance"},
         Counts(u, n, k), pc[u] # "slot", pc' = [pc EXCEPT ![u] = x],
         ticket' = [ticket EXCEPT ![u] = k] \/ (ticket' = ticket /\ (x # "idle" => ticket[u] = k))
  PROVE  Counts(u, n, k)'
<1>1. pc'[u] = x /\ x # "slot" /\ (ticket'[u] = k \/ x = "idle")
  BY DEF TypeOK
<1>2. QED
  BY <1>1 DEF Counts

(* It takes its ticket and moves the counter on. *)
LEMMA CountsTake ==
  ASSUME TypeOK, NEW u \in Threads, NEW n \in Nat, NEW k, NEW l,
         Counts(u, n, k), pc[u] = "advance", pc' = [pc EXCEPT ![u] = "slot"], UNCHANGED ticket,
         l = Inc(ticket[u])
  PROVE  Counts(u, n, l)'
<1>1. pc'[u] = "slot" /\ ticket[u] = k
  BY DEF TypeOK, Counts
<1>2. k = (Start + n) % CounterMod
  <2>1. k = (Start + n + 0) % CounterMod
    BY DEF Counts
  <2>2. Start + n + 0 = Start + n
    BY QueueBaseAssumption DEF Counters
  <2>3. QED
    BY <2>1, <2>2
<1>3. l = (Start + n + 1) % CounterMod
  <2>1. Start + n \in Int /\ 1 \in Int /\ CounterMod \in Nat \ {0}
    BY QueueBaseAssumption DEF Counters
  <2>2. (((Start + n) % CounterMod) + 1) % CounterMod = (Start + n + 1) % CounterMod
    BY <2>1, ModOfSum, Zenon
  <2>3. QED
    BY <1>1, <1>2, <2>2 DEF Inc
<1>4. QED
  BY <1>1, <1>2, <1>3 DEF Counts

(* It completes the call. *)
LEMMA CountsDone ==
  ASSUME TypeOK, NEW u \in Threads, NEW n \in Nat, NEW k,
         Counts(u, n, k), pc[u] = "slot", pc' = [pc EXCEPT ![u] = "idle"]
  PROVE  Counts(u, n + 1, k)'
<1>1. pc'[u] = "idle"
  BY DEF TypeOK
<1>2. k = (Start + n + 1) % CounterMod
  BY DEF Counts
<1>3. Start + (n + 1) + 0 = Start + n + 1
  BY QueueBaseAssumption DEF Counters
<1>4. QED
  BY <1>1, <1>2, <1>3 DEF Counts

(* The steps of the one thread on counter k, up to its ticket. *)
LEMMA CountsTicket ==
  ASSUME TypeOK, SPSC, NEW u \in Threads, NEW n \in Nat, NEW k \in Counters, NEW l, Counts(u, n, k),
         \/ l = k /\ pc[u] \in {"idle", "check"} /\ (\E x \in {"idle", "check", "advance"} :
              /\ pc' = [pc EXCEPT ![u] = x]
              /\ ticket' = [ticket EXCEPT ![u] = k] \/ (ticket' = ticket /\ (x # "idle" => pc[u] = "check")))
         \/ l = Inc(ticket[u]) /\ pc[u] = "advance" /\ pc' = [pc EXCEPT ![u] = "slot"] /\ UNCHANGED ticket
  PROVE  Counts(u, n, l)'
<1>1. CASE l = k /\ pc[u] \in {"idle", "check"} /\ (\E x \in {"idle", "check", "advance"} :
              /\ pc' = [pc EXCEPT ![u] = x]
              /\ ticket' = [ticket EXCEPT ![u] = k] \/ (ticket' = ticket /\ (x # "idle" => pc[u] = "check")))
  <2>1. PICK x \in {"idle", "check", "advance"} :
              /\ pc' = [pc EXCEPT ![u] = x]
              /\ ticket' = [ticket EXCEPT ![u] = k] \/ (ticket' = ticket /\ (x # "idle" => pc[u] = "check"))
    BY <1>1
  <2>2. pc[u] = "check" => ticket[u] = k
    BY DEF Counts
  <2>3. Counts(u, n, k)'
    BY <1>1, <2>1, <2>2, CountsWait
  <2>4. QED
    BY <1>1, <2>3
<1>2. CASE l = Inc(ticket[u]) /\ pc[u] = "advance" /\ pc' = [pc EXCEPT ![u] = "slot"] /\ UNCHANGED ticket
  BY <1>2, CountsTake
<1>3. QED
  BY <1>1, <1>2

LEMMA SequentialTicket ==
  ASSUME IInv, SPSC, Sequential, TicketStep, UNCHANGED m_elements
  PROVE  Sequential'
<1>1. TypeOK /\ m_head \in Counters /\ m_tail \in Counters
  BY DEF IInv, TypeOK
<1>2. UNCHANGED historyVars
  BY TicketStepType DEF IInv
<1>3. ASSUME NEW p \in Producers, TryPushStep(p) \/ PushTicket(p)
      PROVE  Sequential'
  <2>1. p \in Threads /\ Consumers \subseteq Threads /\ p \notin Consumers /\ \A q \in Producers : q = p
    BY QueueBaseAssumption DEF Threads
  <2>2. PICK n \in Nat, k \in Counters, l \in {m_head'} : n = pushed[p] /\ k = m_head /\ l = m_head'
    <3>1. pushed[p] \in Nat
      BY QueueBaseAssumption DEF IInv, TypeOK
    <3>2. QED
      BY <1>1, <3>1
  <2>3. Counts(p, n, k)
    BY <2>2 DEF Sequential
  <2>4. /\ m_tail' = m_tail
        /\ \/ l = k /\ pc[p] \in {"idle", "check"} /\ (\E x \in {"idle", "check", "advance"} :
                /\ pc' = [pc EXCEPT ![p] = x]
                /\ ticket' = [ticket EXCEPT ![p] = k] \/ (ticket' = ticket /\ (x # "idle" => pc[p] = "check")))
           \/ l = Inc(ticket[p]) /\ pc[p] = "advance" /\ pc' = [pc EXCEPT ![p] = "slot"] /\ UNCHANGED ticket
    <3>1. CASE TryPushLoad(p) \/ TryPushFull(p) \/ TryPushRoom(p)
      BY <2>2, <3>1 DEF TryPushLoad, TryPushFull, TryPushRoom, counterVars
    <3>2. CASE AdvanceHead(p)
      <4>1. m_head' = Inc(ticket[p]) /\ pc' = [pc EXCEPT ![p] = "slot"] /\ UNCHANGED ticket
        BY <3>2, Zenon DEF AdvanceHead
      <4>2. pc[p] = "advance" /\ m_tail' = m_tail
        BY <3>2 DEF AdvanceHead
      <4>3. QED
        BY <2>2, <4>1, <4>2
    <3>3. CASE PushTicket(p)
      <4>1. m_head' = m_head /\ pc' = [pc EXCEPT ![p] = "advance"]
        BY <3>3, Zenon DEF PushTicket
      <4>2. pc[p] = "idle" /\ m_tail' = m_tail /\ ticket' = [ticket EXCEPT ![p] = m_head]
        BY <3>3 DEF PushTicket
      <4>3. QED
        BY <2>2, <4>1, <4>2
    <3>4. QED
      BY <1>3, <3>1, <3>2, <3>3 DEF TryPushStep
  <2>5. Counts(p, n, l)'
    BY <1>1, <2>1, <2>3, <2>4, CountsTicket
  <2>6. \A q \in Producers : Counts(q, pushed[q], m_head)'
    BY <1>2, <2>1, <2>2, <2>5 DEF Counts, historyVars
  <2>7. \A c \in Consumers : pc'[c] = pc[c] /\ ticket'[c] = ticket[c]
    BY <1>1, <2>1, <2>4 DEF TypeOK
  <2>8. \A c \in Consumers : Counts(c, Len(recv[c]), m_tail)'
    BY <1>2, <2>4, <2>7 DEF Sequential, Counts, historyVars
  <2>9. QED
    BY <1>2, <2>6, <2>8 DEF Sequential, historyVars
<1>4. ASSUME NEW c \in Consumers, TryPopStep(c) \/ PopTicket(c)
      PROVE  Sequential'
  <2>1. c \in Threads /\ Producers \subseteq Threads /\ c \notin Producers /\ \A d \in Consumers : d = c
    BY QueueBaseAssumption DEF Threads
  <2>2. PICK n \in Nat, k \in Counters, l \in {m_tail'} : n = Len(recv[c]) /\ k = m_tail /\ l = m_tail'
    <3>1. Len(recv[c]) \in Nat
      BY DEF IInv, TypeOK
    <3>2. QED
      BY <1>1, <3>1
  <2>3. Counts(c, n, k)
    BY <2>2 DEF Sequential
  <2>4. /\ m_head' = m_head
        /\ \/ l = k /\ pc[c] \in {"idle", "check"} /\ (\E x \in {"idle", "check", "advance"} :
                /\ pc' = [pc EXCEPT ![c] = x]
                /\ ticket' = [ticket EXCEPT ![c] = k] \/ (ticket' = ticket /\ (x # "idle" => pc[c] = "check")))
           \/ l = Inc(ticket[c]) /\ pc[c] = "advance" /\ pc' = [pc EXCEPT ![c] = "slot"] /\ UNCHANGED ticket
    <3>1. CASE TryPopLoad(c) \/ TryPopEmpty(c) \/ TryPopAny(c)
      BY <2>2, <3>1 DEF TryPopLoad, TryPopEmpty, TryPopAny, counterVars
    <3>2. CASE AdvanceTail(c)
      <4>1. m_tail' = Inc(ticket[c]) /\ pc' = [pc EXCEPT ![c] = "slot"] /\ UNCHANGED ticket
        BY <3>2, Zenon DEF AdvanceTail
      <4>2. pc[c] = "advance" /\ m_head' = m_head
        BY <3>2 DEF AdvanceTail
      <4>3. QED
        BY <2>2, <4>1, <4>2
    <3>3. CASE PopTicket(c)
      <4>1. m_tail' = m_tail /\ pc' = [pc EXCEPT ![c] = "advance"]
        BY <3>3, Zenon DEF PopTicket
      <4>2. pc[c] = "idle" /\ m_head' = m_head /\ ticket' = [ticket EXCEPT ![c] = m_tail]
        BY <3>3 DEF PopTicket
      <4>3. QED
        BY <2>2, <4>1, <4>2
    <3>4. QED
      BY <1>4, <3>1, <3>2, <3>3 DEF TryPopStep
  <2>5. Counts(c, n, l)'
    BY <1>1, <2>1, <2>3, <2>4, CountsTicket
  <2>6. \A d \in Consumers : Counts(d, Len(recv[d]), m_tail)'
    BY <1>2, <2>1, <2>2, <2>5 DEF Counts, historyVars
  <2>7. \A q \in Producers : pc'[q] = pc[q] /\ ticket'[q] = ticket[q]
    BY <1>1, <2>1, <2>4 DEF TypeOK
  <2>8. \A q \in Producers : Counts(q, pushed[q], m_head)'
    BY <1>2, <2>4, <2>7 DEF Sequential, Counts, historyVars
  <2>9. QED
    BY <1>2, <2>6, <2>8 DEF Sequential, historyVars
<1>5. QED
  BY <1>3, <1>4 DEF TicketStep

LEMMA SequentialPush ==
  ASSUME IInv, SPSC, Sequential, NEW p \in Producers, do_push(p)
  PROVE  Sequential'
<1>1. p \in Threads /\ Consumers \subseteq Threads /\ p \notin Consumers /\ \A q \in Producers : q = p
  BY QueueBaseAssumption DEF Threads
<1>2. /\ TypeOK /\ pc[p] = "slot" /\ pc' = [pc EXCEPT ![p] = "idle"]
      /\ m_elements' = [m_elements EXCEPT ![SlotOf(ticket[p])] = Pending(p)]
      /\ pushed' = [pushed EXCEPT ![p] = @ + 1] /\ UNCHANGED <<counterVars, ticket, recv>>
  BY DEF do_push, IInv
<1>3. PICK n \in Nat, k \in Counters : n = pushed[p] /\ k = m_head
  <2>1. pushed[p] \in Nat /\ m_head \in Counters
    BY QueueBaseAssumption DEF IInv, TypeOK
  <2>2. QED
    BY <2>1
<1>4. Counts(p, n, k) /\ n + 1 = pushed'[p] /\ k = m_head'
  BY <1>2, <1>3 DEF Sequential, TypeOK, counterVars
<1>5. Counts(p, n + 1, k)'
  BY <1>1, <1>2, <1>4, CountsDone
<1>6. \A q \in Producers : Counts(q, pushed[q], m_head)'
  BY <1>1, <1>4, <1>5 DEF Counts
<1>7. \A c \in Consumers : pc'[c] = pc[c]
  BY <1>1, <1>2 DEF TypeOK
<1>8. \A c \in Consumers : Counts(c, Len(recv[c]), m_tail)'
  BY <1>2, <1>7 DEF Sequential, Counts, counterVars
<1>9. ASSUME NEW s \in Slots, m_elements'[s] # NIL
      PROVE  s = SlotOf((Start + m_elements'[s][2] - 1) % CounterMod)
  <2>1. CASE s = SlotOf(ticket[p])
    <3>1. m_elements'[s][2] = n + 1
      BY <1>2, <1>3, <2>1 DEF TypeOK, Pending
    <3>2. ticket[p] = (Start + n) % CounterMod
      BY <1>2, <1>4 DEF Counts
    <3>3. Start + (n + 1) - 1 = Start + n
      BY QueueBaseAssumption DEF Counters
    <3>4. QED
      BY <2>1, <3>1, <3>2, <3>3
  <2>2. CASE s # SlotOf(ticket[p])
    BY <1>2, <1>9, <2>2 DEF TypeOK, Sequential
  <2>3. QED
    BY <2>1, <2>2
<1>10. QED
  BY <1>2, <1>6, <1>8, <1>9 DEF Sequential

(* The consumer finds the element with the number of its pop: an older one *)
(* would have been popped already, and a later one would mean that the     *)
(* element with that number, sent before it, is in the same slot.          *)
LEMMA SequentialPop ==
  ASSUME IInv, SPSC, Sequential, NEW c \in Consumers, do_pop(c)
  PROVE  Sequential'
<1> DEFINE s == SlotOf(ticket[c])
           e == m_elements[s]
<1>1. c \in Threads /\ Producers \subseteq Threads /\ c \notin Producers /\ \A d \in Consumers : d = c
  BY QueueBaseAssumption DEF Threads
<1>2. /\ TypeOK /\ pc[c] = "slot" /\ pc' = [pc EXCEPT ![c] = "idle"]
      /\ m_elements' = [m_elements EXCEPT ![s] = NIL] /\ e # NIL
      /\ recv' = [recv EXCEPT ![c] = Append(@, e)] /\ UNCHANGED <<counterVars, ticket, pushed>>
  BY DEF do_pop, IInv
<1>3. s \in Slots /\ e \in Sent /\ e \notin Delivered /\ e \in Messages
  BY do_popStep
<1>4. PICK n \in Nat, k \in Counters : n = Len(recv[c]) /\ k = m_tail
  <2>1. Len(recv[c]) \in Nat /\ m_tail \in Counters
    BY DEF IInv, TypeOK
  <2>2. QED
    BY <2>1
<1>5. recv[c] \in Seq(Messages) /\ DOMAIN recv[c] = 1 .. n /\ \A i \in 1 .. n : recv[c][i][2] = i
  <2>1. recv[c] \in Seq(Messages)
    BY DEF IInv, TypeOK
  <2>2. DOMAIN recv[c] = 1 .. n
    BY <1>4, <2>1
  <2>3. QED
    BY <2>1, <2>2 DEF Sequential
<1>6. s = SlotOf((Start + n) % CounterMod)
  BY <1>2, <1>4 DEF Sequential, Counts
<1>7. e[2] = n + 1
  <2>1. PICK p \in Producers, i \in 1 .. MaxPush : e = <<p, i>>
    BY <1>3 DEF Messages
  <2>2. i \in Nat /\ i <= pushed[p] /\ i >= 1 /\ pushed[p] \in 0 .. MaxPush
    BY <1>2, <1>3, <2>1, QueueBaseAssumption DEF Sent, TypeOK
  <2>3. i > n
    <3> SUFFICES ASSUME i <= n PROVE FALSE
      BY <2>2
    <3>1. i \in 1 .. n
      BY <2>2
    <3>2. PICK q \in Producers, j \in 1 .. MaxPush : recv[c][i] = <<q, j>>
      BY <1>5, <3>1 DEF Messages
    <3>3. q = p /\ j = i
      BY <1>5, <3>1, <3>2, QueueBaseAssumption
    <3>4. recv[c][i] = e
      BY <2>1, <3>2, <3>3
    <3>5. QED
      BY <1>3, <1>5, <3>1, <3>4 DEF Delivered
  <2> DEFINE x == <<p, n + 1>>
  <2>4. n + 1 \in 1 .. MaxPush /\ n + 1 <= pushed[p]
    BY <2>2, <2>3, QueueBaseAssumption
  <2>5. x \in Sent
    BY <2>4 DEF Sent, Messages
  <2>6. x \notin Delivered
    <3> SUFFICES ASSUME x \in Delivered PROVE FALSE
      OBVIOUS
    <3>1. PICK j \in DOMAIN recv[c] : recv[c][j] = x
      BY <1>1 DEF Delivered
    <3>2. j = n + 1
      BY <1>5, <3>1
    <3>3. QED
      BY <1>5, <3>1, <3>2
  <2>7. PICK r \in Slots : m_elements[r] = x
    BY <2>5, <2>6 DEF IInv, InFlight
  <2>8. x # NIL /\ x[2] = n + 1
    BY <2>5, QueueBaseAssumption DEF Sent
  <2>9. r = SlotOf((Start + (n + 1) - 1) % CounterMod)
    BY <2>7, <2>8 DEF Sequential
  <2>10. Start + (n + 1) - 1 = Start + n
    BY QueueBaseAssumption DEF Counters
  <2>11. r = s
    BY <1>6, <2>9, <2>10
  <2>12. QED
    BY <2>7, <2>8, <2>11
<1> HIDE DEF s, e
<1>8. /\ recv'[c] = Append(recv[c], e)
      /\ Len(recv'[c]) = n + 1 /\ DOMAIN recv'[c] = 1 .. n + 1
      /\ recv'[c][n + 1] = e /\ \A i \in 1 .. n : recv'[c][i] = recv[c][i]
  <2>1. recv'[c] = Append(recv[c], e)
    BY <1>2 DEF TypeOK
  <2>2. QED
    BY <1>3, <1>4, <1>5, <2>1
<1>9. \A i \in DOMAIN recv'[c] : recv'[c][i][2] = i
  <2>1. \A i \in 1 .. n + 1 : i \in 1 .. n \/ i = n + 1
    OBVIOUS
  <2>2. QED
    BY <1>5, <1>7, <1>8, <2>1
<1>10. Counts(c, n, k) /\ k = m_tail'
  BY <1>2, <1>4 DEF Sequential, counterVars
<1>11. Counts(c, n + 1, k)'
  BY <1>1, <1>2, <1>10, CountsDone
<1>12. \A d \in Consumers : Counts(d, Len(recv[d]), m_tail)'
  BY <1>1, <1>8, <1>10, <1>11 DEF Counts
<1>13. \A q \in Producers : pc'[q] = pc[q]
  BY <1>1, <1>2 DEF TypeOK
<1>14. \A q \in Producers : Counts(q, pushed[q], m_head)'
  BY <1>2, <1>13 DEF Sequential, Counts, counterVars
<1>15. \A r \in Slots : m_elements'[r] # NIL => m_elements'[r] = m_elements[r]
  BY <1>2, <1>3 DEF TypeOK
<1>16. QED
  BY <1>1, <1>9, <1>12, <1>14, <1>15 DEF Sequential

(* With one producer and one consumer (SPSC) the consumer pops the         *)
(* elements in the order pushed, though neither side waits for the other's *)
(* counter in push and pop and both counters wrap.                         *)
THEOREM OneProducerOrder ==
  ASSUME SPSC
  PROVE  Spec => []SingleProducerOrder
<1>1. Init => IInv /\ Sequential
  <2> SUFFICES ASSUME Init PROVE IInv /\ Sequential
    OBVIOUS
  <2>1. /\ m_head = Start /\ m_tail = Start /\ pc = [u \in Threads |-> "idle"]
        /\ pushed = [p \in Producers |-> 0] /\ recv = [c \in Consumers |-> <<>>]
        /\ m_elements = [i \in Slots |-> NIL]
    BY DEF Init, QueueBaseInit
  <2>2. Start = (Start + 0 + 0) % CounterMod
    BY QueueBaseAssumption DEF Counters
  <2>3. \A u \in Producers \cup Consumers : pc[u] = "idle"
    BY <2>1 DEF Threads
  <2>4. \A c \in Consumers : recv[c] = <<>> /\ Len(recv[c]) = 0 /\ DOMAIN recv[c] = {}
    BY <2>1
  <2>5. Sequential
    BY <2>1, <2>2, <2>3, <2>4 DEF Sequential, Counts
  <2>6. QED
    BY <2>5, InitInv
<1>2. IInv /\ Sequential /\ [Next]_vars => (IInv /\ Sequential)'
  <2> SUFFICES ASSUME IInv, Sequential, [Next]_vars PROVE Sequential'
    BY NextInv
  <2>1. CASE UNCHANGED vars
    BY <2>1 DEF vars, Sequential, Counts
  <2>2. QED
    BY <2>1, SequentialTicket, SequentialPush, SequentialPop DEF Next
<1>3. IInv /\ Sequential => SingleProducerOrder
  BY DEF IInv, TypeOK, Sequential, SingleProducerOrder
<1>4. QED
  BY <1>1, <1>2, <1>3, PTL DEF Spec

-----------------------------------------------------------------------------
(* Any number of threads: every slot is filled and emptied by turns, once  *)
(* for each ticket that names it.                                          *)

(* The threads of T that have a ticket for slot i. *)
At(T, i) == {t \in T : pc[t] = "slot" /\ SlotOf(ticket[t]) = i}

(* How many of the tickets 0 .. n - 1 leave the remainder r. *)
Laps(n, r) == (n \div QueueSize) + IF r < n % QueueSize THEN 1 ELSE 0

Held(i) == IF m_elements[i] = NIL THEN 0 ELSE 1

(* h and t tickets have been taken, not counting modulo 2^32.  Of the      *)
(* pushes with a ticket for a slot, those that are not under way exceed    *)
(* the pops by what the slot holds.                                        *)
Balance(h, t) ==
  /\ m_head = h % CounterMod /\ m_tail = t % CounterMod
  /\ \A r \in Slots :
       /\ IsFiniteSet(At(Producers, Remap[r])) /\ IsFiniteSet(At(Consumers, Remap[r]))
       /\ Laps(h, r) - Cardinality(At(Producers, Remap[r]))
            = Laps(t, r) - Cardinality(At(Consumers, Remap[r])) + Held(Remap[r])

(* With one thread on a side its load and its store see the same counter.  *)
Alone ==
  SPSC => /\ \A p \in Producers : pc[p] \in {"check", "advance"} => ticket[p] = m_head
          /\ \A c \in Consumers : pc[c] \in {"check", "advance"} => ticket[c] = m_tail

Balanced == Alone /\ \E h, t \in Nat : Balance(h, t)

(* The quotient is the only one. *)
LEMMA Quotient ==
  ASSUME NEW M \in Nat \ {0}, NEW q \in Int, NEW r \in 0 .. M - 1
  PROVE  (M * q + r) \div M = q
<1> DEFINE a == M * q + r
           u == a \div M
<1>1. a \in Int
  OBVIOUS
<1>2. u \in Int /\ a % M \in 0 .. M - 1 /\ a = M * u + (a % M)
  BY <1>1, DivMod
<1>3. a % M = r
  BY Remainder
<1> HIDE DEF u
<1>4. M * q = M * u
  BY <1>2, <1>3
<1>5. M * (q - u) = M * q - M * u
  BY <1>2
<1>6. q - u \in Int /\ M * (q - u) < M /\ M * (q - u) > -M
  BY <1>2, <1>4, <1>5
<1>7. q - u = 0
  BY <1>6, NoMultipleBetween
<1>8. QED
  BY <1>2, <1>7 DEF u

(* One more ticket is one more for its remainder. *)
LEMMA LapsNext ==
  ASSUME NEW n \in Nat, NEW r \in Slots
  PROVE  /\ Laps(n, r) \in Int
         /\ Laps(n + 1, r) = Laps(n, r) + IF n % QueueSize = r THEN 1 ELSE 0
<1> DEFINE M == QueueSize
           q == n \div M
           b == n % M
<1>0. M \in Nat \ {0} /\ r \in 0 .. M - 1
  BY QueueBaseAssumption DEF Slots
<1>1. q \in Int /\ b \in 0 .. M - 1 /\ n = M * q + b
  BY <1>0, DivMod
<1> HIDE DEF M, q, b
<1>2. CASE b = M - 1
  <2>1. M * (q + 1) = M * q + M
    BY <1>0, <1>1
  <2>2. n + 1 = M * (q + 1) + 0 /\ q + 1 \in Int /\ 0 \in 0 .. M - 1
    BY <1>0, <1>1, <1>2, <2>1
  <2>3. (n + 1) \div M = q + 1 /\ (n + 1) % M = 0
    BY <1>0, <2>2, Quotient, Remainder
  <2>4. QED
    BY <1>0, <1>1, <1>2, <2>3 DEF Laps, M, q, b
<1>3. CASE b # M - 1
  <2>1. n + 1 = M * q + (b + 1) /\ b + 1 \in 0 .. M - 1
    BY <1>0, <1>1, <1>3
  <2>2. (n + 1) \div M = q /\ (n + 1) % M = b + 1
    BY <1>0, <1>1, <2>1, Quotient, Remainder
  <2>3. QED
    BY <1>0, <1>1, <1>3, <2>2 DEF Laps, M, q, b
<1>4. QED
  BY <1>2, <1>3

(* The counter names the slot that the count does. *)
LEMMA SlotOfCount ==
  ASSUME NEW n \in Nat
  PROVE  n % QueueSize \in Slots /\ SlotOf(n % CounterMod) = Remap[n % QueueSize]
<1> DEFINE M == QueueSize
           C == CounterMod
           q == n \div C
           b == n % C
           u == b \div M
           v == b % M
           w == C \div M
<1>0. M \in Nat \ {0} /\ C \in Nat \ {0} /\ C % M = 0
  BY QueueBaseAssumption
<1>1. q \in Int /\ b \in Int /\ n = C * q + b
  BY <1>0, DivMod
<1>2. w \in Int /\ C = M * w
  <2>1. w \in Int /\ C = M * w + (C % M)
    BY <1>0, DivMod
  <2>2. QED
    BY <1>0, <2>1
<1>3. u \in Int /\ v \in 0 .. M - 1 /\ b = M * u + v
  BY <1>0, <1>1, DivMod
<1> HIDE DEF q, b, u, v, w, C, M
<1> DEFINE x == w * q
<1>4. C * q = M * x /\ x \in Int
  BY <1>0, <1>1, <1>2
<1> HIDE DEF x
<1>5. M * (x + u) = M * x + M * u
  BY <1>0, <1>3, <1>4
<1>6. n = M * (x + u) + v /\ x + u \in Int
  BY <1>0, <1>1, <1>3, <1>4, <1>5
<1>7. n % M = v
  BY <1>0, <1>3, <1>6, Remainder
<1>8. QED
  BY <1>0, <1>3, <1>7 DEF SlotOf, v, b, M, C, Slots

(* A thread takes the next ticket; nobody else moves. *)
LEMMA AtTakes ==
  ASSUME TypeOK, NEW T, T \subseteq Threads, NEW u \in T, NEW i,
         pc[u] # "slot", pc'[u] = "slot",
         \A t \in T \ {u} : (pc'[t] = "slot" <=> pc[t] = "slot") /\ ticket'[t] = ticket[t],
         IsFiniteSet(At(T, i))
  PROVE  /\ IsFiniteSet(At(T, i)') /\ Cardinality(At(T, i)) \in Nat
         /\ Cardinality(At(T, i)') = Cardinality(At(T, i)) + IF SlotOf(ticket'[u]) = i THEN 1 ELSE 0
<1>1. At(T, i)' = IF SlotOf(ticket'[u]) = i THEN At(T, i) \cup {u} ELSE At(T, i)
  BY DEF At, SlotOf
<1>2. u \notin At(T, i)
  BY DEF At
<1>3. IsFiniteSet(At(T, i) \cup {u}) /\ Cardinality(At(T, i) \cup {u}) = Cardinality(At(T, i)) + 1
  BY <1>2, FS_AddElement
<1>4. Cardinality(At(T, i)) \in Nat
  BY FS_CardinalityType
<1>5. QED
  BY <1>1, <1>3, <1>4

(* A thread leaves its slot. *)
LEMMA AtLeaves ==
  ASSUME TypeOK, NEW T, T \subseteq Threads, NEW u \in T, NEW i,
         pc[u] = "slot", pc' = [pc EXCEPT ![u] = "idle"], ticket' = ticket,
         IsFiniteSet(At(T, i))
  PROVE  /\ IsFiniteSet(At(T, i)') /\ Cardinality(At(T, i)) \in Nat
         /\ Cardinality(At(T, i)') = Cardinality(At(T, i)) - IF SlotOf(ticket[u]) = i THEN 1 ELSE 0
<1>1. \A t \in T : pc'[t] = IF t = u THEN "idle" ELSE pc[t]
  BY DEF TypeOK
<1>2. At(T, i)' = IF SlotOf(ticket[u]) = i THEN At(T, i) \ {u} ELSE At(T, i)
  BY <1>1 DEF At, SlotOf
<1>3. SlotOf(ticket[u]) = i => u \in At(T, i)
  BY DEF At
<1>4. /\ IsFiniteSet(At(T, i) \ {u})
      /\ u \in At(T, i) => Cardinality(At(T, i) \ {u}) = Cardinality(At(T, i)) - 1
  BY FS_RemoveElement
<1>5. Cardinality(At(T, i)) \in Nat
  BY FS_CardinalityType
<1>6. QED
  BY <1>2, <1>3, <1>4, <1>5

LEMMA AtSame ==
  ASSUME NEW T, NEW i,
         \A t \in T : /\ pc'[t] = "slot" <=> pc[t] = "slot"
                      /\ pc[t] = "slot" => ticket'[t] = ticket[t]
  PROVE  At(T, i)' = At(T, i)
  BY DEF At, SlotOf

(* What a ticket step is to the accounts: the next ticket of one side is   *)
(* taken, or none.                                                         *)
Untaken ==
  /\ UNCHANGED counterVars
  /\ \A t \in Threads : /\ pc'[t] = "slot" <=> pc[t] = "slot"
                        /\ pc[t] = "slot" => ticket'[t] = ticket[t]

TakesTicket(u) ==
  /\ pc[u] # "slot" /\ pc'[u] = "slot"
  /\ \A t \in Threads \ {u} : pc'[t] = pc[t] /\ ticket'[t] = ticket[t]

LEMMA TicketTaken ==
  ASSUME TypeOK, Alone, TicketStep
  PROVE  /\ Alone'
         /\ \/ Untaken
            \/ \E p \in Producers :
                 TakesTicket(p) /\ ticket'[p] = m_head /\ m_head' = Inc(m_head) /\ m_tail' = m_tail
            \/ \E c \in Consumers :
                 TakesTicket(c) /\ ticket'[c] = m_tail /\ m_tail' = Inc(m_tail) /\ m_head' = m_head
<1> USE DEF counterVars
<1>1. ASSUME NEW p \in Producers, TryPushStep(p) \/ PushTicket(p)
      PROVE  /\ Alone'
             /\ Untaken \/ (TakesTicket(p) /\ ticket'[p] = m_head /\ m_head' = Inc(m_head) /\ m_tail' = m_tail)
  <2>1. p \in Threads /\ Consumers \subseteq Threads /\ p \notin Consumers /\ Producers \subseteq Threads
    BY QueueBaseAssumption DEF Threads
  <2>2. CASE TryPushLoad(p)
    BY <2>1, <2>2, QueueBaseAssumption DEF TryPushLoad, TypeOK, Alone, Untaken
  <2>3. CASE TryPushFull(p)
    BY <2>1, <2>3 DEF TryPushFull, TypeOK, Alone, Untaken
  <2>4. CASE TryPushRoom(p)
    BY <2>1, <2>4 DEF TryPushRoom, TypeOK, Alone, Untaken
  <2>5. CASE AdvanceHead(p)
    <3>1. \/ /\ m_head' = Inc(ticket[p]) /\ ticket' = ticket
             /\ pc' = [pc EXCEPT ![p] = "slot"]
             /\ SPSC \/ m_head = ticket[p]
          \/ /\ m_head' = m_head /\ ticket' = [ticket EXCEPT ![p] = m_head]
             /\ pc' = [pc EXCEPT ![p] = "check"]
      BY <2>5, Zenon DEF AdvanceHead
    <3>2. pc[p] = "advance" /\ m_tail' = m_tail
      BY <2>5 DEF AdvanceHead
    <3>3. SPSC => ticket[p] = m_head
      BY <3>2 DEF Alone
    <3>4. CASE m_head' = m_head /\ ticket' = [ticket EXCEPT ![p] = m_head] /\ pc' = [pc EXCEPT ![p] = "check"]
      BY <2>1, <3>2, <3>4 DEF TypeOK, Alone, Untaken
    <3>5. CASE m_head' = Inc(ticket[p]) /\ ticket' = ticket /\ pc' = [pc EXCEPT ![p] = "slot"] /\ ticket[p] = m_head
      <4>1. TakesTicket(p)
        BY <2>1, <3>2, <3>5 DEF TypeOK, TakesTicket
      <4>2. Alone'
        BY <2>1, <3>2, <3>5, QueueBaseAssumption DEF TypeOK, Alone
      <4>3. QED
        BY <3>2, <3>5, <4>1, <4>2
    <3>6. QED
      BY <3>1, <3>3, <3>4, <3>5
  <2>6. CASE PushTicket(p)
    <3>1. pc[p] = "idle" /\ ticket' = [ticket EXCEPT ![p] = m_head] /\ m_tail' = m_tail
      BY <2>6 DEF PushTicket
    <3>2. CASE SPSC
      <4>1. m_head' = m_head /\ pc' = [pc EXCEPT ![p] = "advance"]
        BY <2>6, <3>2, Zenon DEF PushTicket
      <4>2. QED
        BY <2>1, <3>1, <4>1 DEF TypeOK, Alone, Untaken
    <3>3. CASE ~SPSC
      <4>1. m_head' = Inc(m_head) /\ pc' = [pc EXCEPT ![p] = "slot"]
        BY <2>6, <3>3, Zenon DEF PushTicket
      <4>2. QED
        BY <2>1, <3>1, <3>3, <4>1 DEF TypeOK, Alone, TakesTicket
    <3>4. QED
      BY <3>2, <3>3
  <2>7. QED
    BY <1>1, <2>2, <2>3, <2>4, <2>5, <2>6 DEF TryPushStep
<1>2. ASSUME NEW c \in Consumers, TryPopStep(c) \/ PopTicket(c)
      PROVE  /\ Alone'
             /\ Untaken \/ (TakesTicket(c) /\ ticket'[c] = m_tail /\ m_tail' = Inc(m_tail) /\ m_head' = m_head)
  <2>1. c \in Threads /\ Producers \subseteq Threads /\ c \notin Producers /\ Consumers \subseteq Threads
    BY QueueBaseAssumption DEF Threads
  <2>2. CASE TryPopLoad(c)
    BY <2>1, <2>2, QueueBaseAssumption DEF TryPopLoad, TypeOK, Alone, Untaken
  <2>3. CASE TryPopEmpty(c)
    BY <2>1, <2>3 DEF TryPopEmpty, TypeOK, Alone, Untaken
  <2>4. CASE TryPopAny(c)
    BY <2>1, <2>4 DEF TryPopAny, TypeOK, Alone, Untaken
  <2>5. CASE AdvanceTail(c)
    <3>1. \/ /\ m_tail' = Inc(ticket[c]) /\ ticket' = ticket
             /\ pc' = [pc EXCEPT ![c] = "slot"]
             /\ SPSC \/ m_tail = ticket[c]
          \/ /\ m_tail' = m_tail /\ ticket' = [ticket EXCEPT ![c] = m_tail]
             /\ pc' = [pc EXCEPT ![c] = "check"]
      BY <2>5, Zenon DEF AdvanceTail
    <3>2. pc[c] = "advance" /\ m_head' = m_head
      BY <2>5 DEF AdvanceTail
    <3>3. SPSC => ticket[c] = m_tail
      BY <3>2 DEF Alone
    <3>4. CASE m_tail' = m_tail /\ ticket' = [ticket EXCEPT ![c] = m_tail] /\ pc' = [pc EXCEPT ![c] = "check"]
      BY <2>1, <3>2, <3>4 DEF TypeOK, Alone, Untaken
    <3>5. CASE m_tail' = Inc(ticket[c]) /\ ticket' = ticket /\ pc' = [pc EXCEPT ![c] = "slot"] /\ ticket[c] = m_tail
      <4>1. TakesTicket(c)
        BY <2>1, <3>2, <3>5 DEF TypeOK, TakesTicket
      <4>2. Alone'
        BY <2>1, <3>2, <3>5, QueueBaseAssumption DEF TypeOK, Alone
      <4>3. QED
        BY <3>2, <3>5, <4>1, <4>2
    <3>6. QED
      BY <3>1, <3>3, <3>4, <3>5
  <2>6. CASE PopTicket(c)
    <3>1. pc[c] = "idle" /\ ticket' = [ticket EXCEPT ![c] = m_tail] /\ m_head' = m_head
      BY <2>6 DEF PopTicket
    <3>2. CASE SPSC
      <4>1. m_tail' = m_tail /\ pc' = [pc EXCEPT ![c] = "advance"]
        BY <2>6, <3>2, Zenon DEF PopTicket
      <4>2. QED
        BY <2>1, <3>1, <4>1 DEF TypeOK, Alone, Untaken
    <3>3. CASE ~SPSC
      <4>1. m_tail' = Inc(m_tail) /\ pc' = [pc EXCEPT ![c] = "slot"]
        BY <2>6, <3>3, Zenon DEF PopTicket
      <4>2. QED
        BY <2>1, <3>1, <3>3, <4>1 DEF TypeOK, Alone, TakesTicket
    <3>4. QED
      BY <3>2, <3>3
  <2>7. QED
    BY <1>2, <2>2, <2>3, <2>4, <2>5, <2>6 DEF TryPopStep
<1>3. QED
  BY <1>1, <1>2 DEF TicketStep

LEMMA IncCount ==
  ASSUME NEW n \in Nat
  PROVE  Inc(n % CounterMod) = (n + 1) % CounterMod
<1>1. CounterMod \in Nat \ {0} /\ 1 \in Int /\ n \in Int
  BY QueueBaseAssumption
<1>2. ((n % CounterMod) + 1) % CounterMod = (n + 1) % CounterMod
  BY <1>1, ModOfSum, Zenon
<1>3. QED
  BY <1>2 DEF Inc

LEMMA SameSlot ==
  ASSUME NEW r \in Slots, NEW s \in Slots
  PROVE  Remap[r] = Remap[s] <=> r = s
  BY QueueBaseAssumption

(* Every slot is the image of one: an injection of a finite set into       *)
(* itself is onto.                                                         *)
LEMMA RemapOnto ==
  ASSUME NEW i \in Slots
  PROVE  \E r \in Slots : Remap[r] = i
<1>1. QueueSize - 1 \in Int /\ 0 \in Int
  BY QueueBaseAssumption
<1>2. IsFiniteSet(Slots)
  BY <1>1, FS_Interval DEF Slots
<1>3. Remap \in Injection(Slots, Slots)
  BY QueueBaseAssumption DEF Injection, IsInjective
<1>4. Remap \in Surjection(Slots, Slots)
  BY <1>2, <1>3, FS_Injection
<1>5. QED
  BY <1>4 DEF Surjection

LEMMA BalanceTicket ==
  ASSUME TypeOK, Balanced, TicketStep, UNCHANGED m_elements
  PROVE  Balanced'
<1>0. Producers \subseteq Threads /\ Consumers \subseteq Threads /\ Producers \cap Consumers = {}
  BY QueueBaseAssumption DEF Threads
<1>1. PICK h \in Nat, t \in Nat : Balance(h, t)
  BY DEF Balanced
<1>2. Alone'
  BY TicketTaken DEF Balanced
<1>3. \A i : Held(i)' = Held(i)
  BY DEF Held
<1>4. CASE Untaken
  <2>1. \A i : At(Producers, i)' = At(Producers, i)
    BY <1>0, <1>4, AtSame DEF Untaken
  <2>2. \A i : At(Consumers, i)' = At(Consumers, i)
    BY <1>0, <1>4, AtSame DEF Untaken
  <2>3. Balance(h, t)'
    BY <1>1, <1>3, <1>4, <2>1, <2>2 DEF Balance, Untaken, counterVars
  <2>4. QED
    BY <1>2, <2>3 DEF Balanced
<1>5. ASSUME NEW p \in Producers, TakesTicket(p), ticket'[p] = m_head, m_head' = Inc(m_head), m_tail' = m_tail
      PROVE  Balanced'
  <2>1. m_head' = (h + 1) % CounterMod /\ m_tail' = t % CounterMod
    BY <1>1, <1>5, IncCount DEF Balance
  <2>2. h % QueueSize \in Slots /\ SlotOf(ticket'[p]) = Remap[h % QueueSize]
    BY <1>1, <1>5, SlotOfCount DEF Balance
  <2>3. ASSUME NEW r \in Slots
        PROVE  /\ IsFiniteSet(At(Producers, Remap[r])') /\ IsFiniteSet(At(Consumers, Remap[r])')
               /\ Laps(h + 1, r) - Cardinality(At(Producers, Remap[r])')
                    = Laps(t, r) - Cardinality(At(Consumers, Remap[r])') + Held(Remap[r])'
    <3>1. At(Consumers, Remap[r])' = At(Consumers, Remap[r])
      BY <1>0, <1>5, AtSame DEF TakesTicket
    <3>2. IsFiniteSet(At(Producers, Remap[r])) /\ IsFiniteSet(At(Consumers, Remap[r]))
      BY <1>1 DEF Balance
    <3>3. /\ IsFiniteSet(At(Producers, Remap[r])') /\ Cardinality(At(Producers, Remap[r])) \in Nat
          /\ Cardinality(At(Producers, Remap[r])')
               = Cardinality(At(Producers, Remap[r])) + IF SlotOf(ticket'[p]) = Remap[r] THEN 1 ELSE 0
      <4>1. \A u \in Producers \ {p} : (pc'[u] = "slot" <=> pc[u] = "slot") /\ ticket'[u] = ticket[u]
        BY <1>0, <1>5 DEF TakesTicket
      <4>2. QED
        BY <1>0, <1>5, <3>2, <4>1, AtTakes DEF TakesTicket
    <3>4. Laps(h, r) \in Int /\ Laps(h + 1, r) = Laps(h, r) + IF h % QueueSize = r THEN 1 ELSE 0
      BY LapsNext
    <3>5. SlotOf(ticket'[p]) = Remap[r] <=> h % QueueSize = r
      BY <2>2, SameSlot
    <3>6. Laps(h + 1, r) - Cardinality(At(Producers, Remap[r])') = Laps(h, r) - Cardinality(At(Producers, Remap[r]))
      BY <3>3, <3>4, <3>5
    <3>7. QED
      BY <1>1, <1>3, <3>1, <3>2, <3>3, <3>6 DEF Balance
  <2>4. Balance(h + 1, t)'
    BY <2>1, <2>3 DEF Balance
  <2>5. QED
    BY <1>2, <2>4 DEF Balanced
<1>6. ASSUME NEW c \in Consumers, TakesTicket(c), ticket'[c] = m_tail, m_tail' = Inc(m_tail), m_head' = m_head
      PROVE  Balanced'
  <2>1. m_tail' = (t + 1) % CounterMod /\ m_head' = h % CounterMod
    BY <1>1, <1>6, IncCount DEF Balance
  <2>2. t % QueueSize \in Slots /\ SlotOf(ticket'[c]) = Remap[t % QueueSize]
    BY <1>1, <1>6, SlotOfCount DEF Balance
  <2>3. ASSUME NEW r \in Slots
        PROVE  /\ IsFiniteSet(At(Producers, Remap[r])') /\ IsFiniteSet(At(Consumers, Remap[r])')
               /\ Laps(h, r) - Cardinality(At(Producers, Remap[r])')
                    = Laps(t + 1, r) - Cardinality(At(Consumers, Remap[r])') + Held(Remap[r])'
    <3>1. At(Producers, Remap[r])' = At(Producers, Remap[r])
      BY <1>0, <1>6, AtSame DEF TakesTicket
    <3>2. IsFiniteSet(At(Producers, Remap[r])) /\ IsFiniteSet(At(Consumers, Remap[r]))
      BY <1>1 DEF Balance
    <3>3. /\ IsFiniteSet(At(Consumers, Remap[r])') /\ Cardinality(At(Consumers, Remap[r])) \in Nat
          /\ Cardinality(At(Consumers, Remap[r])')
               = Cardinality(At(Consumers, Remap[r])) + IF SlotOf(ticket'[c]) = Remap[r] THEN 1 ELSE 0
      <4>1. \A u \in Consumers \ {c} : (pc'[u] = "slot" <=> pc[u] = "slot") /\ ticket'[u] = ticket[u]
        BY <1>0, <1>6 DEF TakesTicket
      <4>2. QED
        BY <1>0, <1>6, <3>2, <4>1, AtTakes DEF TakesTicket
    <3>4. Laps(t, r) \in Int /\ Laps(t + 1, r) = Laps(t, r) + IF t % QueueSize = r THEN 1 ELSE 0
      BY LapsNext
    <3>5. SlotOf(ticket'[c]) = Remap[r] <=> t % QueueSize = r
      BY <2>2, SameSlot
    <3>6. Laps(t + 1, r) - Cardinality(At(Consumers, Remap[r])') = Laps(t, r) - Cardinality(At(Consumers, Remap[r]))
      BY <3>3, <3>4, <3>5
    <3>7. QED
      BY <1>1, <1>3, <3>1, <3>2, <3>3, <3>6 DEF Balance
  <2>4. Balance(h, t + 1)'
    BY <2>1, <2>3 DEF Balance
  <2>5. QED
    BY <1>2, <2>4 DEF Balanced
<1>7. QED
  BY <1>4, <1>5, <1>6, TicketTaken DEF Balanced

LEMMA BalancePush ==
  ASSUME IInv, Balanced, NEW p \in Producers, do_push(p)
  PROVE  Balanced'
<1>0. Producers \subseteq Threads /\ Consumers \subseteq Threads /\ Producers \cap Consumers = {}
  BY QueueBaseAssumption DEF Threads
<1>1. PICK h \in Nat, t \in Nat : Balance(h, t)
  BY DEF Balanced
<1> DEFINE i == SlotOf(ticket[p])
<1>2. /\ TypeOK /\ pc[p] = "slot" /\ pc' = [pc EXCEPT ![p] = "idle"]
      /\ m_head' = m_head /\ m_tail' = m_tail /\ ticket' = ticket
      /\ m_elements[i] = NIL /\ m_elements' = [m_elements EXCEPT ![i] = Pending(p)]
  BY DEF do_push, counterVars, IInv
<1>3. i \in Slots
  BY <1>0, <1>2, SlotType DEF TypeOK
<1>4. Pending(p) # NIL
  <2>1. pushed[p] < MaxPush
    BY <1>2 DEF IInv, PushBound
  <2>2. Pending(p) \in Messages
    BY <2>1, SentStep DEF IInv, do_push
  <2>3. QED
    BY <2>2, QueueBaseAssumption
<1> HIDE DEF i
<1>5. \A j \in Slots : Held(j)' = Held(j) + IF i = j THEN 1 ELSE 0
  BY <1>2, <1>3, <1>4 DEF Held, TypeOK
<1>6. ASSUME NEW r \in Slots
      PROVE  /\ IsFiniteSet(At(Producers, Remap[r])') /\ IsFiniteSet(At(Consumers, Remap[r])')
             /\ Laps(h, r) - Cardinality(At(Producers, Remap[r])')
                  = Laps(t, r) - Cardinality(At(Consumers, Remap[r])') + Held(Remap[r])'
  <2>1. At(Consumers, Remap[r])' = At(Consumers, Remap[r])
    <3>1. \A u \in Consumers : pc'[u] = pc[u] /\ ticket'[u] = ticket[u]
      BY <1>0, <1>2 DEF TypeOK
    <3>2. QED
      BY <3>1, AtSame
  <2>2. IsFiniteSet(At(Producers, Remap[r])) /\ IsFiniteSet(At(Consumers, Remap[r]))
    BY <1>1 DEF Balance
  <2>3. /\ IsFiniteSet(At(Producers, Remap[r])')
        /\ Cardinality(At(Producers, Remap[r])')
             = Cardinality(At(Producers, Remap[r])) - IF i = Remap[r] THEN 1 ELSE 0
    BY <1>0, <1>2, <2>2, AtLeaves DEF i
  <2>4. Remap[r] \in Slots /\ Laps(h, r) \in Int /\ Laps(t, r) \in Int
    BY LapsNext, QueueBaseAssumption
  <2>5. /\ Cardinality(At(Producers, Remap[r])) \in Nat /\ Cardinality(At(Consumers, Remap[r])) \in Nat
        /\ Held(Remap[r]) \in Int
    BY <2>2, FS_CardinalityType DEF Held
  <2>6. Laps(h, r) - Cardinality(At(Producers, Remap[r]))
          = Laps(t, r) - Cardinality(At(Consumers, Remap[r])) + Held(Remap[r])
    BY <1>1 DEF Balance
  <2>7. QED
    BY <1>5, <2>1, <2>2, <2>3, <2>4, <2>5, <2>6
<1>7. Balance(h, t)'
  BY <1>1, <1>2, <1>6 DEF Balance
<1>8. Alone'
  BY <1>0, <1>2 DEF Balanced, Alone, TypeOK
<1>9. QED
  BY <1>7, <1>8 DEF Balanced

LEMMA BalancePop ==
  ASSUME IInv, Balanced, NEW c \in Consumers, do_pop(c)
  PROVE  Balanced'
<1>0. Producers \subseteq Threads /\ Consumers \subseteq Threads /\ Producers \cap Consumers = {}
  BY QueueBaseAssumption DEF Threads
<1>1. PICK h \in Nat, t \in Nat : Balance(h, t)
  BY DEF Balanced
<1> DEFINE i == SlotOf(ticket[c])
<1>2. /\ TypeOK /\ pc[c] = "slot" /\ pc' = [pc EXCEPT ![c] = "idle"]
      /\ m_head' = m_head /\ m_tail' = m_tail /\ ticket' = ticket
      /\ m_elements[i] # NIL /\ m_elements' = [m_elements EXCEPT ![i] = NIL]
  BY DEF do_pop, counterVars, IInv
<1>3. i \in Slots
  BY <1>0, <1>2, SlotType DEF TypeOK
<1>4. m_elements[i] # NIL
  BY <1>2
<1> HIDE DEF i
<1>5. \A j \in Slots : Held(j)' = Held(j) - IF i = j THEN 1 ELSE 0
  BY <1>2, <1>3, <1>4 DEF Held, TypeOK
<1>6. ASSUME NEW r \in Slots
      PROVE  /\ IsFiniteSet(At(Producers, Remap[r])') /\ IsFiniteSet(At(Consumers, Remap[r])')
             /\ Laps(h, r) - Cardinality(At(Producers, Remap[r])')
                  = Laps(t, r) - Cardinality(At(Consumers, Remap[r])') + Held(Remap[r])'
  <2>1. At(Producers, Remap[r])' = At(Producers, Remap[r])
    <3>1. \A u \in Producers : pc'[u] = pc[u] /\ ticket'[u] = ticket[u]
      BY <1>0, <1>2 DEF TypeOK
    <3>2. QED
      BY <3>1, AtSame
  <2>2. IsFiniteSet(At(Producers, Remap[r])) /\ IsFiniteSet(At(Consumers, Remap[r]))
    BY <1>1 DEF Balance
  <2>3. /\ IsFiniteSet(At(Consumers, Remap[r])')
        /\ Cardinality(At(Consumers, Remap[r])')
             = Cardinality(At(Consumers, Remap[r])) - IF i = Remap[r] THEN 1 ELSE 0
    BY <1>0, <1>2, <2>2, AtLeaves DEF i
  <2>4. Remap[r] \in Slots /\ Laps(h, r) \in Int /\ Laps(t, r) \in Int
    BY LapsNext, QueueBaseAssumption
  <2>5. /\ Cardinality(At(Producers, Remap[r])) \in Nat /\ Cardinality(At(Consumers, Remap[r])) \in Nat
        /\ Held(Remap[r]) \in Int
    BY <2>2, FS_CardinalityType DEF Held
  <2>6. Laps(h, r) - Cardinality(At(Producers, Remap[r]))
          = Laps(t, r) - Cardinality(At(Consumers, Remap[r])) + Held(Remap[r])
    BY <1>1 DEF Balance
  <2>7. QED
    BY <1>5, <2>1, <2>2, <2>3, <2>4, <2>5, <2>6
<1>7. Balance(h, t)'
  BY <1>1, <1>2, <1>6 DEF Balance
<1>8. Alone'
  BY <1>0, <1>2 DEF Balanced, Alone, TypeOK
<1>9. QED
  BY <1>7, <1>8 DEF Balanced

LEMMA BalanceInit == Init => Balanced
<1> SUFFICES ASSUME Init PROVE Balanced
  OBVIOUS
<1>1. /\ m_head = Start /\ m_tail = Start /\ \A u \in Producers \cup Consumers : pc[u] = "idle"
      /\ \A i \in Slots : m_elements[i] = NIL
  BY DEF Init, QueueBaseInit, Threads
<1>2. Start \in Nat /\ Start = Start % CounterMod
  BY QueueBaseAssumption DEF Counters
<1>3. \A i : At(Producers, i) = {} /\ At(Consumers, i) = {}
  BY <1>1 DEF At
<1>4. IsFiniteSet({}) /\ Cardinality({}) = 0
  BY FS_EmptySet
<1>5. \A r \in Slots : Remap[r] \in Slots /\ Held(Remap[r]) = 0 /\ Laps(Start, r) \in Int
  BY <1>1, <1>2, LapsNext, QueueBaseAssumption DEF Held
<1>6. Balance(Start, Start)
  <2>1. \A r \in Slots :
          /\ IsFiniteSet(At(Producers, Remap[r])) /\ IsFiniteSet(At(Consumers, Remap[r]))
          /\ Laps(Start, r) - Cardinality(At(Producers, Remap[r]))
               = Laps(Start, r) - Cardinality(At(Consumers, Remap[r])) + Held(Remap[r])
    <3> SUFFICES ASSUME NEW r \in Slots
                 PROVE  /\ IsFiniteSet(At(Producers, Remap[r])) /\ IsFiniteSet(At(Consumers, Remap[r]))
                        /\ Laps(Start, r) - Cardinality(At(Producers, Remap[r]))
                             = Laps(Start, r) - Cardinality(At(Consumers, Remap[r])) + Held(Remap[r])
      OBVIOUS
    <3>1. At(Producers, Remap[r]) = {} /\ At(Consumers, Remap[r]) = {}
      BY <1>3
    <3>2. Laps(Start, r) \in Int /\ Held(Remap[r]) = 0
      BY <1>5
    <3> DEFINE n == Laps(Start, r)
    <3>3. n - 0 = n - 0 + 0
      BY <3>2
    <3>4. QED
      BY <1>4, <3>1, <3>2, <3>3
  <2>2. QED
    BY <1>1, <1>2, <2>1 DEF Balance
<1>7. QED
  BY <1>1, <1>2, <1>6 DEF Balanced, Alone

LEMMA BalanceStep == IInv /\ Balanced /\ [Next]_vars => Balanced'
<1> SUFFICES ASSUME IInv, Balanced, [Next]_vars PROVE Balanced'
  OBVIOUS
<1>1. CASE UNCHANGED vars
  <2>1. PICK h \in Nat, t \in Nat : Balance(h, t)
    BY DEF Balanced
  <2>2. \A i : At(Producers, i)' = At(Producers, i) /\ At(Consumers, i)' = At(Consumers, i) /\ Held(i)' = Held(i)
    BY <1>1 DEF vars, At, Held, SlotOf
  <2>3. Balance(h, t)'
    BY <1>1, <2>1, <2>2 DEF vars, Balance
  <2>4. QED
    BY <1>1, <2>3 DEF vars, Balanced, Alone
<1>2. CASE TicketStep /\ UNCHANGED m_elements
  BY <1>2, BalanceTicket DEF IInv
<1>3. QED
  BY <1>1, <1>2, BalancePush, BalancePop DEF Next

(* With no call under way, the tickets between the counts are those of the *)
(* slots that hold something.                                              *)
LEMMA RestCounts ==
  ASSUME NEW h \in Nat, NEW t \in Nat, NEW H \in [Slots -> {0, 1}],
         \A r \in Slots : Laps(h, r) = Laps(t, r) + H[r]
  PROVE  /\ 0 <= h - t /\ h - t <= QueueSize
         /\ \A r \in Slots : H[r] = 1 <=> \E k \in 0 .. h - t - 1 : (t + k) % QueueSize = r
<1> DEFINE M == QueueSize
           a == h \div M
           b == h % M
           c == t \div M
           d == t % M
<1>0. M \in Nat \ {0} /\ Slots = 0 .. M - 1
  BY QueueBaseAssumption DEF Slots
<1>1. a \in Int /\ b \in 0 .. M - 1 /\ h = M * a + b /\ c \in Int /\ d \in 0 .. M - 1 /\ t = M * c + d
  BY <1>0, DivMod
<1>2. \A r \in 0 .. M - 1 :
        /\ H[r] \in {0, 1}
        /\ a + (IF r < b THEN 1 ELSE 0) = c + (IF r < d THEN 1 ELSE 0) + H[r]
  BY <1>0 DEF Laps
<1> HIDE DEF M, a, b, c, d
<1>3. M - 1 \in 0 .. M - 1 /\ a + 0 = c + 0 + H[M - 1] /\ H[M - 1] \in {0, 1}
  BY <1>0, <1>1, <1>2
<1>4. CASE a = c
  <2>1. d <= b
    <3> SUFFICES ASSUME b < d PROVE FALSE
      BY <1>1
    <3>1. b \in 0 .. M - 1 /\ a + 0 = c + 1 + H[b] /\ H[b] \in {0, 1}
      BY <1>1, <1>2
    <3>2. QED
      BY <1>1, <1>4, <3>1
  <2>2. h - t = b - d /\ b - d <= M
    BY <1>0, <1>1, <1>4
  <2>3. \A r \in 0 .. M - 1 : H[r] = 1 <=> d <= r /\ r < b
    BY <1>1, <1>2, <1>4, <2>1
  <2>4. \A k \in 0 .. b - d - 1 : (t + k) % M = d + k
    <3> SUFFICES ASSUME NEW k \in 0 .. b - d - 1 PROVE (t + k) % M = d + k
      OBVIOUS
    <3>1. d + k \in 0 .. M - 1 /\ t + k = M * c + (d + k)
      BY <1>0, <1>1
    <3>2. QED
      BY <1>0, <1>1, <3>1, Remainder
  <2>5. \A r \in 0 .. M - 1 : (d <= r /\ r < b) <=> \E k \in 0 .. b - d - 1 : d + k = r
    <3> SUFFICES ASSUME NEW r \in 0 .. M - 1 PROVE (d <= r /\ r < b) <=> \E k \in 0 .. b - d - 1 : d + k = r
      OBVIOUS
    <3>1. ASSUME d <= r, r < b PROVE \E k \in 0 .. b - d - 1 : d + k = r
      <4>1. r - d \in 0 .. b - d - 1 /\ d + (r - d) = r
        BY <1>0, <1>1, <3>1
      <4>2. QED
        BY <4>1
    <3>2. QED
      BY <1>1, <3>1
  <2>6. \A r \in 0 .. M - 1 : H[r] = 1 <=> \E k \in 0 .. b - d - 1 : (t + k) % M = r
    BY <2>3, <2>4, <2>5
  <2>7. 0 <= h - t /\ h - t <= M /\ h - t - 1 = b - d - 1
    BY <1>1, <2>1, <2>2
  <2>8. QED
    BY <1>0, <2>6, <2>7 DEF M
<1>5. CASE a = c + 1
  <2>1. b <= d
    <3> SUFFICES ASSUME d < b PROVE FALSE
      BY <1>1
    <3>1. d \in 0 .. M - 1 /\ a + 1 = c + 0 + H[d] /\ H[d] \in {0, 1}
      BY <1>1, <1>2
    <3>2. QED
      BY <1>1, <1>5, <3>1
  <2>2. h - t = M + b - d /\ 0 <= M + b - d /\ M + b - d <= M
    <3>1. M * (c + 1) = M * c + M
      BY <1>0, <1>1
    <3>2. QED
      BY <1>0, <1>1, <1>5, <2>1, <3>1
  <2>3. \A r \in 0 .. M - 1 : H[r] = 1 <=> d <= r \/ r < b
    BY <1>1, <1>2, <1>5, <2>1
  <2>4. \A k \in 0 .. M + b - d - 1 : (t + k) % M = IF d + k < M THEN d + k ELSE d + k - M
    <3> SUFFICES ASSUME NEW k \in 0 .. M + b - d - 1
                 PROVE  (t + k) % M = IF d + k < M THEN d + k ELSE d + k - M
      OBVIOUS
    <3>1. CASE d + k < M
      <4>1. d + k \in 0 .. M - 1 /\ t + k = M * c + (d + k)
        BY <1>0, <1>1, <3>1
      <4>2. QED
        BY <1>0, <1>1, <3>1, <4>1, Remainder
    <3>2. CASE d + k >= M
      <4>1. M * (c + 1) = M * c + M
        BY <1>0, <1>1
      <4>2. d + k - M \in 0 .. M - 1 /\ t + k = M * (c + 1) + (d + k - M) /\ c + 1 \in Int
        BY <1>0, <1>1, <3>2, <4>1
      <4>3. (t + k) % M = d + k - M
        BY <1>0, <4>2, Remainder
      <4>4. QED
        BY <1>0, <1>1, <3>2, <4>3
    <3>3. QED
      BY <1>0, <1>1, <3>1, <3>2
  <2>5. \A r \in 0 .. M - 1 :
          (d <= r \/ r < b) <=> \E k \in 0 .. M + b - d - 1 : (IF d + k < M THEN d + k ELSE d + k - M) = r
    <3> SUFFICES ASSUME NEW r \in 0 .. M - 1
                 PROVE  (d <= r \/ r < b) <=>
                          \E k \in 0 .. M + b - d - 1 : (IF d + k < M THEN d + k ELSE d + k - M) = r
      OBVIOUS
    <3>1. ASSUME d <= r PROVE \E k \in 0 .. M + b - d - 1 : (IF d + k < M THEN d + k ELSE d + k - M) = r
      <4>1. r - d \in 0 .. M + b - d - 1 /\ d + (r - d) < M /\ d + (r - d) = r
        BY <1>0, <1>1, <3>1
      <4>2. QED
        BY <4>1
    <3>2. ASSUME r < b PROVE \E k \in 0 .. M + b - d - 1 : (IF d + k < M THEN d + k ELSE d + k - M) = r
      <4>1. /\ r - d + M \in 0 .. M + b - d - 1 /\ ~(d + (r - d + M) < M) /\ d + (r - d + M) - M = r
        BY <1>0, <1>1, <2>1, <3>2
      <4>2. QED
        BY <4>1
    <3>3. ASSUME NEW k \in 0 .. M + b - d - 1, (IF d + k < M THEN d + k ELSE d + k - M) = r
          PROVE  d <= r \/ r < b
      BY <1>0, <1>1, <3>3
    <3>4. QED
      BY <3>1, <3>2, <3>3
  <2>6. \A r \in 0 .. M - 1 : H[r] = 1 <=> \E k \in 0 .. M + b - d - 1 : (t + k) % M = r
    BY <2>3, <2>4, <2>5
  <2>7. 0 <= h - t /\ h - t <= M /\ h - t - 1 = M + b - d - 1
    BY <1>0, <1>1, <2>2
  <2>8. QED
    BY <1>0, <2>6, <2>7 DEF M
<1>6. QED
  BY <1>1, <1>3, <1>4, <1>5

(* With no call under way the slots that hold an element are those of the  *)
(* tickets between m_tail and m_head.                                      *)
AtRest ==
  (\A t \in Threads : pc[t] = "idle") =>
    \A i \in Slots :
      m_elements[i] # NIL <=> \E k \in 0 .. was_size - 1 : SlotOf((m_tail + k) % CounterMod) = i

LEMMA BalanceRests == TypeOK /\ Balanced => AtRest
<1> SUFFICES ASSUME TypeOK, Balanced, \A u \in Threads : pc[u] = "idle"
             PROVE  \A i \in Slots :
                      m_elements[i] # NIL <=> \E k \in 0 .. was_size - 1 : SlotOf((m_tail + k) % CounterMod) = i
  BY DEF AtRest
<1>1. PICK h \in Nat, t \in Nat : Balance(h, t)
  BY DEF Balanced
<1>2. \A i : At(Producers, i) = {} /\ At(Consumers, i) = {}
  BY DEF At, Threads
<1> DEFINE H == [r \in Slots |-> Held(Remap[r])]
<1>3. H \in [Slots -> {0, 1}]
  BY DEF Held
<1>4. \A r \in Slots : Laps(h, r) = Laps(t, r) + H[r]
  <2> SUFFICES ASSUME NEW r \in Slots PROVE Laps(h, r) = Laps(t, r) + H[r]
    OBVIOUS
  <2>1. Laps(h, r) \in Int /\ Laps(t, r) \in Int /\ H[r] \in Int /\ H[r] = Held(Remap[r])
    BY <1>3, LapsNext
  <2>2. Cardinality(At(Producers, Remap[r])) = 0 /\ Cardinality(At(Consumers, Remap[r])) = 0
    BY <1>2, FS_EmptySet
  <2>3. Laps(h, r) - 0 = Laps(t, r) - 0 + Held(Remap[r])
    BY <1>1, <2>2 DEF Balance
  <2>4. QED
    BY <2>1, <2>3
<1> HIDE DEF H
<1>5. /\ 0 <= h - t /\ h - t <= QueueSize
      /\ \A r \in Slots : H[r] = 1 <=> \E k \in 0 .. h - t - 1 : (t + k) % QueueSize = r
  BY <1>3, <1>4, RestCounts
<1>6. was_size = h - t
  <2>1. SignedDiff(m_head, m_tail) = h - t
    BY <1>1, <1>5, SignedDiffApart DEF Balance
  <2>2. QED
    BY <1>5, <2>1 DEF was_size
<1>7. \A k \in Nat : SlotOf((m_tail + k) % CounterMod) = Remap[(t + k) % QueueSize] /\ (t + k) % QueueSize \in Slots
  <2> SUFFICES ASSUME NEW k \in Nat
               PROVE  SlotOf((m_tail + k) % CounterMod) = Remap[(t + k) % QueueSize] /\ (t + k) % QueueSize \in Slots
    OBVIOUS
  <2>1. CounterMod \in Nat \ {0} /\ t \in Int /\ k \in Int /\ t + k \in Nat
    BY QueueBaseAssumption
  <2>2. ((t % CounterMod) + k) % CounterMod = (t + k) % CounterMod
    BY <2>1, ModOfSum, Zenon
  <2>3. QED
    BY <1>1, <2>1, <2>2, SlotOfCount DEF Balance
<1>8. ASSUME NEW i \in Slots
      PROVE  m_elements[i] # NIL <=> \E k \in 0 .. was_size - 1 : SlotOf((m_tail + k) % CounterMod) = i
  <2>1. PICK r \in Slots : Remap[r] = i
    BY RemapOnto
  <2>2. m_elements[i] # NIL <=> H[r] = 1
    BY <2>1 DEF H, Held
  <2>3. \A k \in 0 .. h - t - 1 : SlotOf((m_tail + k) % CounterMod) = i <=> (t + k) % QueueSize = r
    <3>1. \A k \in 0 .. h - t - 1 : k \in Nat
      OBVIOUS
    <3>2. QED
      BY <1>7, <2>1, <3>1, SameSlot
  <2>4. QED
    BY <1>5, <1>6, <2>2, <2>3
<1>9. QED
  BY <1>8

(* At rest the counters and the ring agree, for any number of threads and  *)
(* any mix of push, try_push, pop and try_pop, whatever order the calls    *)
(* overtook each other in and however often the counters have wrapped.     *)
THEOREM RingAtRest == Spec => []AtRest
<1>1. IInv => TypeOK
  BY DEF IInv
<1>2. QED
  BY <1>1, InitInv, NextInv, BalanceInit, BalanceStep, BalanceRests, PTL DEF Spec

=============================================================================
