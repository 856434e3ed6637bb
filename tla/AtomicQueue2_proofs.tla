------------------------- MODULE AtomicQueue2_proofs -------------------------
(***************************************************************************)
(* The slot states of AtomicQueue2 give each slot to one thread at a time, *)
(* and with that AtomicQueue2 implements AtomicQueue, for any number of    *)
(* threads, any size and both modes (SPSC and not).                        *)
(***************************************************************************)
EXTENDS AtomicQueue2, TLAPS

(* The state a slot keeps while a push or a pop is inside it.              *)
PushState == IF SPSC THEN "EMPTY" ELSE "STORING"
PopState == IF SPSC THEN "STORED" ELSE "LOADING"

(* The inductive invariant, in parts. *)
PcInv ==
  /\ \A p \in Producers : pc[p] \in {"idle", "check", "advance", "slot", "write", "publish"}
  /\ \A c \in Consumers : pc[c] \in {"idle", "check", "advance", "slot", "read", "release"}
  /\ \A p \in Producers : pc[p] # "idle" => pushed[p] < MaxPush

ClaimInv ==
  /\ \A p \in Producers : pc[p] \in {"write", "publish"} => m_states[slotOf(p)] = PushState
  /\ \A c \in Consumers : pc[c] \in {"read", "release"} => m_states[slotOf(c)] = PopState

ValueInv ==
  /\ \A p \in Producers : pc[p] = "publish" => m_elements[slotOf(p)] = Pending(p)
  /\ \A c \in Consumers : pc[c] = "release" => element[c] = m_elements[slotOf(c)]
  /\ \A i \in Slots : m_states[i] \in {"STORED", "LOADING"} => m_elements[i] \in Messages

IInv == TypeOK /\ PcInv /\ ClaimInv /\ ValueInv /\ SlotExclusive

(* The state of a slot with a producer in it. *)
LEMMA PushStateFact ==
  /\ PushState = "EMPTY" \/ PushState = "STORING"
  /\ PushState = "EMPTY" => \A p, q \in Producers : p = q
<1>1. CASE SPSC
  BY <1>1, QueueBaseAssumption, Zenon DEF PushState
<1>2. CASE ~SPSC
  <2>1. PushState = "STORING"
    BY <1>2, Zenon DEF PushState
  <2>2. QED
    BY <2>1
<1>3. QED
  BY <1>1, <1>2

(* The state of a slot with a consumer in it. *)
LEMMA PopStateFact ==
  /\ PopState = "STORED" \/ PopState = "LOADING"
  /\ PopState = "STORED" => \A c, d \in Consumers : c = d
<1>1. CASE SPSC
  BY <1>1, QueueBaseAssumption, Zenon DEF PopState
<1>2. CASE ~SPSC
  <2>1. PopState = "LOADING"
    BY <1>2, Zenon DEF PopState
  <2>2. QED
    BY <2>1
<1>3. QED
  BY <1>1, <1>2

(* What the claims leave, without the conditional on SPSC.                 *)
LEMMA ClaimEmptyStep ==
  ASSUME NEW p \in Producers, ClaimEmpty(p), m_states \in [Slots -> State], slotOf(p) \in Slots
  PROVE  m_states' = [m_states EXCEPT ![slotOf(p)] = PushState]
<1>1. CASE SPSC
  <2>1. m_states' = m_states /\ PushState = "EMPTY"
    BY <1>1, Zenon DEF ClaimEmpty, PushState
  <2>2. QED
    BY <2>1 DEF ClaimEmpty
<1>2. CASE ~SPSC
  BY <1>2, Zenon DEF ClaimEmpty, PushState
<1>3. QED
  BY <1>1, <1>2

(* What a claim by do_pop_any changes. *)
LEMMA ClaimStoredStep ==
  ASSUME NEW c \in Consumers, ClaimStored(c), m_states \in [Slots -> State], slotOf(c) \in Slots
  PROVE  m_states' = [m_states EXCEPT ![slotOf(c)] = PopState]
<1>1. CASE SPSC
  <2>1. m_states' = m_states /\ PopState = "STORED"
    BY <1>1, Zenon DEF ClaimStored, PopState
  <2>2. QED
    BY <2>1 DEF ClaimStored
<1>2. CASE ~SPSC
  BY <1>2, Zenon DEF ClaimStored, PopState
<1>3. QED
  BY <1>1, <1>2

(* A counter stays in its range. *)
LEMMA IncType == ASSUME NEW n \in Counters PROVE Inc(n) \in Counters
  BY QueueBaseAssumption DEF Counters, Inc

(* A ticket names a slot of the ring. *)
LEMMA SlotType == ASSUME NEW n \in Counters PROVE SlotOf(n) \in Slots
<1>1. n % QueueSize \in Slots
  BY QueueBaseAssumption DEF Counters, Slots
<1>2. QED
  BY <1>1, QueueBaseAssumption DEF SlotOf

(* A thread's ticket names a slot of the ring. *)
LEMMA SlotOfThread == ASSUME TypeOK, NEW t \in Threads PROVE slotOf(t) \in Slots
  BY SlotType DEF TypeOK, slotOf

-----------------------------------------------------------------------------
(* A ticket step in one shape: one thread t, outside any slot, moves on to *)
(* another place outside, with a ticket it read from a counter.            *)
TicketMove(t) ==
  /\ t \in Threads
  /\ pc[t] \in {"idle", "check", "advance"}
  /\ \E x \in {"idle", "check", "advance", "slot"} : pc' = [pc EXCEPT ![t] = x]
  /\ \E n \in Counters : ticket' = [ticket EXCEPT ![t] = n]
  /\ m_head' \in Counters /\ m_tail' \in Counters
  /\ t \in Producers => pushed[t] < MaxPush
  /\ pushed' = pushed /\ recv' = recv

(* Every ticket step has that shape. *)
LEMMA TicketStepMoves ==
  ASSUME TypeOK, PcInv, TicketStep PROVE \E t \in Threads : TicketMove(t)
<1> USE DEF counterVars, historyVars
<1>1. ASSUME NEW p \in Producers, TryPushStep(p) \/ PushTicket(p)
      PROVE  TicketMove(p)
  <2>1. p \in Threads /\ ticket[p] \in Counters /\ Inc(ticket[p]) \in Counters
        /\ Inc(m_head) \in Counters /\ m_head \in Counters /\ m_tail \in Counters
        /\ ticket = [ticket EXCEPT ![p] = ticket[p]]
    BY IncType DEF TypeOK, Threads
  <2>2. CASE TryPushLoad(p)
    BY <2>1, <2>2 DEF TryPushLoad, TicketMove
  <2>3. CASE TryPushFull(p)
    BY <2>1, <2>3 DEF TryPushFull, TicketMove, PcInv
  <2>4. CASE TryPushRoom(p)
    BY <2>1, <2>4 DEF TryPushRoom, TicketMove, PcInv
  <2>5. CASE AdvanceHead(p)
    <3>1. \/ /\ m_head' = Inc(ticket[p]) /\ ticket' = ticket
             /\ pc' = [pc EXCEPT ![p] = "slot"]
          \/ /\ m_head' = m_head /\ ticket' = [ticket EXCEPT ![p] = m_head]
             /\ pc' = [pc EXCEPT ![p] = "check"]
      BY <2>5, Zenon DEF AdvanceHead
    <3>2. pc[p] = "advance" /\ m_tail' = m_tail /\ pushed' = pushed /\ recv' = recv
      BY <2>5 DEF AdvanceHead
    <3>3. pushed[p] < MaxPush
      BY <3>2 DEF PcInv
    <3>4. QED
      BY <2>1, <3>1, <3>2, <3>3 DEF TicketMove
  <2>6. CASE PushTicket(p)
    <3>1. /\ m_head' = m_head \/ m_head' = Inc(m_head)
          /\ \/ pc' = [pc EXCEPT ![p] = "advance"]
             \/ pc' = [pc EXCEPT ![p] = "slot"]
      BY <2>6, Zenon DEF PushTicket
    <3>2. /\ pc[p] = "idle" /\ m_tail' = m_tail /\ pushed' = pushed /\ recv' = recv
          /\ pushed[p] < MaxPush /\ ticket' = [ticket EXCEPT ![p] = m_head]
      BY <2>6 DEF PushTicket
    <3>3. QED
      BY <2>1, <3>1, <3>2 DEF TicketMove
  <2>7. QED
    BY <1>1, <2>2, <2>3, <2>4, <2>5, <2>6 DEF TryPushStep
<1>2. ASSUME NEW c \in Consumers, TryPopStep(c) \/ PopTicket(c)
      PROVE  TicketMove(c)
  <2>1. c \in Threads /\ ticket[c] \in Counters /\ Inc(ticket[c]) \in Counters
        /\ Inc(m_tail) \in Counters /\ m_head \in Counters /\ m_tail \in Counters
        /\ ticket = [ticket EXCEPT ![c] = ticket[c]] /\ c \notin Producers
    BY IncType, QueueBaseAssumption DEF TypeOK, Threads
  <2>2. CASE TryPopLoad(c)
    BY <2>1, <2>2 DEF TryPopLoad, TicketMove
  <2>3. CASE TryPopEmpty(c)
    BY <2>1, <2>3 DEF TryPopEmpty, TicketMove
  <2>4. CASE TryPopAny(c)
    BY <2>1, <2>4 DEF TryPopAny, TicketMove
  <2>5. CASE AdvanceTail(c)
    <3>1. \/ /\ m_tail' = Inc(ticket[c]) /\ ticket' = ticket
             /\ pc' = [pc EXCEPT ![c] = "slot"]
          \/ /\ m_tail' = m_tail /\ ticket' = [ticket EXCEPT ![c] = m_tail]
             /\ pc' = [pc EXCEPT ![c] = "check"]
      BY <2>5, Zenon DEF AdvanceTail
    <3>2. pc[c] = "advance" /\ m_head' = m_head /\ pushed' = pushed /\ recv' = recv
      BY <2>5 DEF AdvanceTail
    <3>3. QED
      BY <2>1, <3>1, <3>2 DEF TicketMove
  <2>6. CASE PopTicket(c)
    <3>1. /\ m_tail' = m_tail \/ m_tail' = Inc(m_tail)
          /\ \/ pc' = [pc EXCEPT ![c] = "advance"]
             \/ pc' = [pc EXCEPT ![c] = "slot"]
      BY <2>6, Zenon DEF PopTicket
    <3>2. /\ pc[c] = "idle" /\ m_head' = m_head /\ pushed' = pushed /\ recv' = recv
          /\ ticket' = [ticket EXCEPT ![c] = m_tail]
      BY <2>6 DEF PopTicket
    <3>3. QED
      BY <2>1, <3>1, <3>2 DEF TicketMove
  <2>7. QED
    BY <1>2, <2>2, <2>3, <2>4, <2>5, <2>6 DEF TryPopStep
<1>3. QED
  BY <1>1, <1>2 DEF TicketStep, TicketMove

-----------------------------------------------------------------------------
(* Every step preserves the inductive invariant. *)

(* Taking a ticket keeps the invariant. *)
LEMMA TicketInv ==
  ASSUME IInv, NEW t \in Threads, TicketMove(t), UNCHANGED <<m_states, m_elements, element>>
  PROVE  IInv'
<1>1. PICK x \in {"idle", "check", "advance", "slot"}, n \in Counters :
        pc' = [pc EXCEPT ![t] = x] /\ ticket' = [ticket EXCEPT ![t] = n]
  BY DEF TicketMove
<1>2. /\ m_head' \in Counters /\ m_tail' \in Counters /\ pushed' = pushed /\ recv' = recv
      /\ t \in Producers => pushed[t] < MaxPush
  BY DEF TicketMove
<1>3. TypeOK'
  BY <1>1, <1>2 DEF IInv, TypeOK
<1>4. PcInv'
  BY <1>1, <1>2 DEF IInv, TypeOK, PcInv, Threads
<1>5. \A u \in Threads : InSlot(u)' => u # t /\ pc'[u] = pc[u] /\ slotOf(u)' = slotOf(u)
  BY <1>1 DEF IInv, TypeOK, InSlot, slotOf, SlotOf
<1>6. ClaimInv'
  BY <1>5 DEF IInv, ClaimInv, InSlot, Threads
<1>7. ValueInv'
  BY <1>2, <1>5 DEF IInv, ValueInv, InSlot, Threads, Pending
<1>8. SlotExclusive'
  BY <1>5 DEF IInv, SlotExclusive, InSlot
<1>9. QED
  BY <1>3, <1>4, <1>6, <1>7, <1>8 DEF IInv

(* The claim of do_push_any keeps the invariant: the slot had nobody in it. *)
LEMMA ClaimEmptyInv ==
  ASSUME IInv, NEW p \in Producers, ClaimEmpty(p)
  PROVE  IInv'
<1> USE DEF counterVars, historyVars
<1>1. p \in Threads /\ p \notin Consumers /\ slotOf(p) \in Slots
  BY QueueBaseAssumption, SlotOfThread DEF IInv, Threads
<1>2. m_states' = [m_states EXCEPT ![slotOf(p)] = PushState]
  BY <1>1, ClaimEmptyStep DEF IInv, TypeOK
<1>3. /\ pc[p] = "slot" /\ m_states[slotOf(p)] = "EMPTY" /\ pc' = [pc EXCEPT ![p] = "write"]
      /\ m_head' = m_head /\ m_tail' = m_tail /\ ticket' = ticket /\ pushed' = pushed
      /\ recv' = recv /\ m_elements' = m_elements /\ element' = element
  BY DEF ClaimEmpty
<1>4. TypeOK'
  BY <1>1, <1>2, <1>3, PushStateFact DEF IInv, TypeOK, State
<1>5. PcInv'
  BY <1>1, <1>3 DEF IInv, TypeOK, PcInv, Threads
<1>6. \A u \in Threads : slotOf(u)' = slotOf(u)
  BY <1>3 DEF slotOf, SlotOf
<1>7. ASSUME NEW u \in Threads, InSlot(u)
      PROVE  u # p /\ slotOf(u) # slotOf(p)
  <2>1. u # p
    BY <1>3, <1>7 DEF InSlot
  <2>2. CASE u \in Producers
    BY <2>1, <2>2, <1>3, <1>7, PushStateFact, QueueBaseAssumption
       DEF IInv, PcInv, ClaimInv, InSlot
  <2>3. CASE u \in Consumers
    BY <2>1, <2>3, <1>3, <1>7, PopStateFact DEF IInv, PcInv, ClaimInv, InSlot
  <2>4. QED
    BY <2>2, <2>3, <2>1 DEF Threads
<1>8. \A u \in Threads : u # p => pc'[u] = pc[u]
  BY <1>3 DEF IInv, TypeOK
<1>9. pc'[p] = "write" /\ m_states'[slotOf(p)] = PushState
  BY <1>1, <1>2, <1>3 DEF IInv, TypeOK
<1>10. \A i \in Slots : i # slotOf(p) => m_states'[i] = m_states[i]
  BY <1>1, <1>2 DEF IInv, TypeOK
<1>11. ClaimInv'
  <2>1. ASSUME NEW q \in Producers, pc'[q] \in {"write", "publish"}
        PROVE  m_states'[slotOf(q)'] = PushState
    <3>1. CASE q = p
      BY <3>1, <1>1, <1>6, <1>9
    <3>2. CASE q # p
      <4>1. q \in Threads /\ InSlot(q) /\ pc[q] \in {"write", "publish"}
        BY <2>1, <3>2, <1>8 DEF Threads, InSlot
      <4>2. slotOf(q) \in Slots
        BY <4>1, SlotOfThread DEF IInv
      <4>3. QED
        BY <4>1, <4>2, <1>6, <1>7, <1>10 DEF IInv, ClaimInv
    <3>3. QED
      BY <3>1, <3>2
  <2>2. ASSUME NEW c \in Consumers, pc'[c] \in {"read", "release"}
        PROVE  m_states'[slotOf(c)'] = PopState
    <3>1. c # p /\ c \in Threads /\ InSlot(c) /\ pc[c] \in {"read", "release"}
      BY <2>2, <1>1, <1>8 DEF Threads, InSlot
    <3>2. slotOf(c) \in Slots
      BY <3>1, SlotOfThread DEF IInv
    <3>3. QED
      BY <3>1, <3>2, <1>6, <1>7, <1>10 DEF IInv, ClaimInv
  <2>3. PushState' = PushState /\ PopState' = PopState
    BY DEF PushState, PopState
  <2>4. QED
    BY <2>1, <2>2, <2>3 DEF ClaimInv
<1>12. ValueInv'
  <2>1. \A q \in Producers : pc'[q] = "publish" => m_elements'[slotOf(q)'] = Pending(q)'
    BY <1>3, <1>6, <1>8, <1>9 DEF IInv, ValueInv, Threads, Pending
  <2>2. \A c \in Consumers : pc'[c] = "release" => element'[c] = m_elements'[slotOf(c)']
    BY <1>1, <1>3, <1>6, <1>8 DEF IInv, ValueInv, Threads
  <2>3. \A i \in Slots : m_states'[i] \in {"STORED", "LOADING"} => m_elements'[i] \in Messages
    BY <1>3, <1>9, <1>10, PushStateFact DEF IInv, ValueInv
  <2>4. QED
    BY <2>1, <2>2, <2>3 DEF ValueInv
<1>13. SlotExclusive'
  BY <1>6, <1>7, <1>8, <1>9 DEF IInv, SlotExclusive, InSlot
<1>14. QED
  BY <1>4, <1>5, <1>11, <1>12, <1>13 DEF IInv

(* A thread inside a slot has it to itself. *)
LEMMA Alone ==
  ASSUME IInv, NEW t \in Threads, NEW u \in Threads, InSlot(t), InSlot(u), t # u
  PROVE  slotOf(t) # slotOf(u)
  BY DEF IInv, SlotExclusive

(* The write of the element keeps it: nobody else is in the slot. *)
LEMMA WriteElementInv ==
  ASSUME IInv, NEW p \in Producers, WriteElement(p)
  PROVE  IInv'
<1> USE DEF counterVars, historyVars
<1>1. p \in Threads /\ p \notin Consumers /\ slotOf(p) \in Slots
  BY QueueBaseAssumption, SlotOfThread DEF IInv, Threads
<1>2. /\ pc[p] = "write" /\ pc' = [pc EXCEPT ![p] = "publish"]
      /\ m_elements' = [m_elements EXCEPT ![slotOf(p)] = Pending(p)]
      /\ m_head' = m_head /\ m_tail' = m_tail /\ ticket' = ticket /\ pushed' = pushed
      /\ recv' = recv /\ m_states' = m_states /\ element' = element
  BY DEF WriteElement
<1>3. Pending(p) \in Messages /\ Pending(p)' = Pending(p)
  <2>1. pushed[p] < MaxPush /\ pushed[p] \in 0 .. MaxPush
    BY <1>2 DEF IInv, PcInv, TypeOK
  <2>2. Pending(p) \in Messages
    BY <2>1, QueueBaseAssumption DEF Pending, Messages
  <2>3. Pending(p)' = Pending(p)
    BY <1>2 DEF Pending
  <2>4. QED
    BY <2>2, <2>3
<1>4. TypeOK'
  BY <1>1, <1>2, <1>3 DEF IInv, TypeOK
<1>5. PcInv'
  BY <1>1, <1>2 DEF IInv, TypeOK, PcInv, Threads
<1>6. \A u \in Threads : slotOf(u)' = slotOf(u) /\ slotOf(u) \in Slots
  BY <1>2, SlotOfThread DEF IInv, slotOf, SlotOf
<1>7. \A u \in Threads : InSlot(u)' <=> InSlot(u)
  BY <1>2 DEF IInv, TypeOK, InSlot
<1>8. \A u \in Threads : u # p => pc'[u] = pc[u]
  BY <1>2 DEF IInv, TypeOK
<1>9. \A i \in Slots : m_elements'[i] = IF i = slotOf(p) THEN Pending(p) ELSE m_elements[i]
  BY <1>1, <1>2 DEF IInv, TypeOK
<1>10. InSlot(p) /\ m_states[slotOf(p)] = PushState /\ pc'[p] = "publish"
  BY <1>1, <1>2 DEF InSlot, IInv, ClaimInv, TypeOK
<1>11. ClaimInv'
  <2>1. PushState' = PushState /\ PopState' = PopState
    BY DEF PushState, PopState
  <2>2. QED
    BY <2>1, <1>1, <1>2, <1>6, <1>8, <1>10 DEF IInv, ClaimInv, Threads
<1>12. ValueInv'
  <2>1. ASSUME NEW q \in Producers, pc'[q] = "publish"
        PROVE  m_elements'[slotOf(q)'] = Pending(q)'
    <3>1. CASE q = p
      BY <3>1, <1>1, <1>3, <1>6, <1>9
    <3>2. CASE q # p
      <4>1. q \in Threads /\ InSlot(q) /\ pc[q] = "publish"
        BY <2>1, <3>2, <1>8 DEF Threads, InSlot
      <4>2. slotOf(q) # slotOf(p)
        BY <4>1, <3>2, <1>1, <1>10, Alone
      <4>3. QED
        BY <4>1, <4>2, <1>2, <1>6, <1>9 DEF IInv, ValueInv, Pending
    <3>3. QED
      BY <3>1, <3>2
  <2>2. ASSUME NEW c \in Consumers, pc'[c] = "release"
        PROVE  element'[c] = m_elements'[slotOf(c)']
    <3>1. c # p /\ c \in Threads /\ InSlot(c) /\ pc[c] = "release"
      BY <2>2, <1>1, <1>8 DEF Threads, InSlot
    <3>2. slotOf(c) # slotOf(p)
      BY <3>1, <1>1, <1>10, Alone
    <3>3. QED
      BY <3>1, <3>2, <1>2, <1>6, <1>9 DEF IInv, ValueInv
  <2>3. \A i \in Slots : m_states'[i] \in {"STORED", "LOADING"} => m_elements'[i] \in Messages
    BY <1>2, <1>3, <1>9 DEF IInv, ValueInv
  <2>4. QED
    BY <2>1, <2>2, <2>3 DEF ValueInv
<1>13. SlotExclusive'
  BY <1>6, <1>7 DEF IInv, SlotExclusive
<1>14. QED
  BY <1>4, <1>5, <1>11, <1>12, <1>13 DEF IInv

(* So does the publication of STORED ... *)
LEMMA PublishStoredInv ==
  ASSUME IInv, NEW p \in Producers, PublishStored(p)
  PROVE  IInv'
<1> USE DEF counterVars, historyVars
<1>1. p \in Threads /\ p \notin Consumers /\ slotOf(p) \in Slots
  BY QueueBaseAssumption, SlotOfThread DEF IInv, Threads
<1>2. /\ pc[p] = "publish" /\ pc' = [pc EXCEPT ![p] = "idle"]
      /\ m_states' = [m_states EXCEPT ![slotOf(p)] = "STORED"]
      /\ pushed' = [pushed EXCEPT ![p] = @ + 1]
      /\ m_head' = m_head /\ m_tail' = m_tail /\ ticket' = ticket
      /\ recv' = recv /\ m_elements' = m_elements /\ element' = element
  BY DEF PublishStored
<1>3. Pending(p) \in Messages /\ pushed[p] < MaxPush
  BY <1>2, QueueBaseAssumption DEF IInv, PcInv, TypeOK, Pending, Messages
<1>4. TypeOK'
  BY <1>1, <1>2, <1>3, QueueBaseAssumption DEF IInv, TypeOK, State
<1>5. PcInv'
  BY <1>1, <1>2 DEF IInv, TypeOK, PcInv, Threads
<1>6. \A u \in Threads : slotOf(u)' = slotOf(u) /\ slotOf(u) \in Slots
  BY <1>2, SlotOfThread DEF IInv, slotOf, SlotOf
<1>7. /\ InSlot(p) /\ pc'[p] = "idle"
      /\ \A u \in Threads : u # p => pc'[u] = pc[u]
  BY <1>1, <1>2 DEF IInv, TypeOK, InSlot
<1>8. \A u \in Threads : InSlot(u)' => u # p /\ InSlot(u) /\ slotOf(u) # slotOf(p)
  BY <1>1, <1>7, Alone DEF InSlot
<1>9. \A i \in Slots : m_states'[i] = IF i = slotOf(p) THEN "STORED" ELSE m_states[i]
  BY <1>1, <1>2 DEF IInv, TypeOK
<1>10. ClaimInv'
  <2>1. PushState' = PushState /\ PopState' = PopState
    BY DEF PushState, PopState
  <2>2. QED
    BY <2>1, <1>6, <1>7, <1>8, <1>9 DEF IInv, ClaimInv, Threads, InSlot
<1>11. ValueInv'
  <2>1. \A q \in Producers : q # p => Pending(q)' = Pending(q)
    BY <1>2 DEF IInv, TypeOK, Pending
  <2>2. \A q \in Producers : pc'[q] = "publish" => m_elements'[slotOf(q)'] = Pending(q)'
    BY <2>1, <1>2, <1>6, <1>7 DEF IInv, ValueInv, Threads
  <2>3. \A c \in Consumers : pc'[c] = "release" => element'[c] = m_elements'[slotOf(c)']
    BY <1>1, <1>2, <1>6, <1>7 DEF IInv, ValueInv, Threads
  <2>4. \A i \in Slots : m_states'[i] \in {"STORED", "LOADING"} => m_elements'[i] \in Messages
    BY <1>2, <1>3, <1>9 DEF IInv, ValueInv
  <2>5. QED
    BY <2>2, <2>3, <2>4 DEF ValueInv
<1>12. SlotExclusive'
  BY <1>6, <1>8 DEF IInv, SlotExclusive
<1>13. QED
  BY <1>4, <1>5, <1>10, <1>11, <1>12 DEF IInv

(* ... the claim of do_pop_any ... *)
LEMMA ClaimStoredInv ==
  ASSUME IInv, NEW c \in Consumers, ClaimStored(c)
  PROVE  IInv'
<1> USE DEF counterVars, historyVars
<1>1. c \in Threads /\ c \notin Producers /\ slotOf(c) \in Slots
  BY QueueBaseAssumption, SlotOfThread DEF IInv, Threads
<1>2. m_states' = [m_states EXCEPT ![slotOf(c)] = PopState]
  BY <1>1, ClaimStoredStep DEF IInv, TypeOK
<1>3. /\ pc[c] = "slot" /\ m_states[slotOf(c)] = "STORED" /\ pc' = [pc EXCEPT ![c] = "read"]
      /\ m_head' = m_head /\ m_tail' = m_tail /\ ticket' = ticket /\ pushed' = pushed
      /\ recv' = recv /\ m_elements' = m_elements /\ element' = element
  BY DEF ClaimStored
<1>4. TypeOK'
  BY <1>1, <1>2, <1>3, PopStateFact DEF IInv, TypeOK, State
<1>5. PcInv'
  BY <1>1, <1>3 DEF IInv, TypeOK, PcInv, Threads
<1>6. \A u \in Threads : slotOf(u)' = slotOf(u) /\ slotOf(u) \in Slots
  BY <1>3, SlotOfThread DEF IInv, slotOf, SlotOf
<1>7. ASSUME NEW u \in Threads, InSlot(u)
      PROVE  u # c /\ slotOf(u) # slotOf(c)
  <2>1. u # c
    BY <1>3, <1>7 DEF InSlot
  <2>2. CASE u \in Consumers
    BY <2>1, <2>2, <1>3, <1>7, PopStateFact DEF IInv, PcInv, ClaimInv, InSlot
  <2>3. CASE u \in Producers
    BY <2>1, <2>3, <1>3, <1>7, PushStateFact DEF IInv, PcInv, ClaimInv, InSlot
  <2>4. QED
    BY <2>2, <2>3, <2>1 DEF Threads
<1>8. /\ pc'[c] = "read"
      /\ \A u \in Threads : u # c => pc'[u] = pc[u]
  BY <1>1, <1>3 DEF IInv, TypeOK
<1>9. \A i \in Slots : m_states'[i] = IF i = slotOf(c) THEN PopState ELSE m_states[i]
  BY <1>1, <1>2 DEF IInv, TypeOK
<1>10. ClaimInv'
  <2>1. PushState' = PushState /\ PopState' = PopState
    BY DEF PushState, PopState
  <2>2. \A p \in Producers : pc'[p] \in {"write", "publish"} => m_states'[slotOf(p)'] = PushState
    BY <1>1, <1>6, <1>7, <1>8, <1>9 DEF IInv, ClaimInv, Threads, InSlot
  <2>3. \A d \in Consumers : pc'[d] \in {"read", "release"} => m_states'[slotOf(d)'] = PopState
    BY <1>1, <1>6, <1>7, <1>8, <1>9 DEF IInv, ClaimInv, Threads, InSlot
  <2>4. QED
    BY <2>1, <2>2, <2>3 DEF ClaimInv
<1>11. ValueInv'
  <2>1. \A p \in Producers : pc'[p] = "publish" => m_elements'[slotOf(p)'] = Pending(p)'
    BY <1>1, <1>3, <1>6, <1>8 DEF IInv, ValueInv, Threads, Pending
  <2>2. \A d \in Consumers : pc'[d] = "release" => element'[d] = m_elements'[slotOf(d)']
    BY <1>3, <1>6, <1>8 DEF IInv, ValueInv, Threads
  <2>3. \A i \in Slots : m_states'[i] \in {"STORED", "LOADING"} => m_elements'[i] \in Messages
    BY <1>1, <1>3, <1>9 DEF IInv, ValueInv
  <2>4. QED
    BY <2>1, <2>2, <2>3 DEF ValueInv
<1>12. SlotExclusive'
  BY <1>6, <1>7, <1>8 DEF IInv, SlotExclusive, InSlot
<1>13. QED
  BY <1>4, <1>5, <1>10, <1>11, <1>12 DEF IInv

(* ... its read of the element ... *)
LEMMA ReadElementInv ==
  ASSUME IInv, NEW c \in Consumers, ReadElement(c)
  PROVE  IInv'
<1> USE DEF counterVars, historyVars
<1>1. c \in Threads /\ c \notin Producers /\ slotOf(c) \in Slots
  BY QueueBaseAssumption, SlotOfThread DEF IInv, Threads
<1>2. /\ pc[c] = "read" /\ pc' = [pc EXCEPT ![c] = "release"]
      /\ element' = [element EXCEPT ![c] = m_elements[slotOf(c)]]
      /\ m_head' = m_head /\ m_tail' = m_tail /\ ticket' = ticket /\ pushed' = pushed
      /\ recv' = recv /\ m_states' = m_states /\ m_elements' = m_elements
  BY DEF ReadElement
<1>3. TypeOK'
  BY <1>1, <1>2 DEF IInv, TypeOK
<1>4. PcInv'
  BY <1>1, <1>2 DEF IInv, TypeOK, PcInv, Threads
<1>5. \A u \in Threads : slotOf(u)' = slotOf(u)
  BY <1>2 DEF slotOf, SlotOf
<1>6. \A u \in Threads : InSlot(u)' <=> InSlot(u)
  BY <1>2 DEF IInv, TypeOK, InSlot
<1>7. /\ pc'[c] = "release" /\ element'[c] = m_elements[slotOf(c)]
      /\ \A u \in Threads : u # c => pc'[u] = pc[u]
      /\ \A d \in Consumers : d # c => element'[d] = element[d]
  BY <1>1, <1>2 DEF IInv, TypeOK
<1>8. ClaimInv'
  <2>1. PushState' = PushState /\ PopState' = PopState
    BY DEF PushState, PopState
  <2>2. QED
    BY <2>1, <1>1, <1>2, <1>5, <1>7 DEF IInv, ClaimInv, Threads
<1>9. ValueInv'
  <2>1. \A p \in Producers : Pending(p)' = Pending(p)
    BY <1>2 DEF Pending
  <2>2. QED
    BY <2>1, <1>1, <1>2, <1>5, <1>7 DEF IInv, ValueInv, Threads
<1>10. SlotExclusive'
  BY <1>5, <1>6 DEF IInv, SlotExclusive
<1>11. QED
  BY <1>3, <1>4, <1>8, <1>9, <1>10 DEF IInv

(* ... and its publication of EMPTY. *)
LEMMA ReleaseEmptyInv ==
  ASSUME IInv, NEW c \in Consumers, ReleaseEmpty(c)
  PROVE  IInv'
<1> USE DEF counterVars, historyVars
<1>1. c \in Threads /\ c \notin Producers /\ slotOf(c) \in Slots
  BY QueueBaseAssumption, SlotOfThread DEF IInv, Threads
<1>2. /\ pc[c] = "release" /\ pc' = [pc EXCEPT ![c] = "idle"]
      /\ m_states' = [m_states EXCEPT ![slotOf(c)] = "EMPTY"]
      /\ recv' = [recv EXCEPT ![c] = Append(@, element[c])]
      /\ m_head' = m_head /\ m_tail' = m_tail /\ ticket' = ticket /\ pushed' = pushed
      /\ m_elements' = m_elements /\ element' = element
  BY DEF ReleaseEmpty
<1>3. TypeOK'
  <2>1. recv' \in [Consumers -> Seq(Messages \cup {NIL})]
    BY <1>2 DEF IInv, TypeOK
  <2>2. QED
    BY <2>1, <1>1, <1>2 DEF IInv, TypeOK, State
<1>4. PcInv'
  BY <1>1, <1>2 DEF IInv, TypeOK, PcInv, Threads
<1>5. \A u \in Threads : slotOf(u)' = slotOf(u) /\ slotOf(u) \in Slots
  BY <1>2, SlotOfThread DEF IInv, slotOf, SlotOf
<1>6. /\ InSlot(c) /\ pc'[c] = "idle"
      /\ \A u \in Threads : u # c => pc'[u] = pc[u]
  BY <1>1, <1>2 DEF IInv, TypeOK, InSlot
<1>7. \A u \in Threads : InSlot(u)' => u # c /\ InSlot(u) /\ slotOf(u) # slotOf(c)
  BY <1>1, <1>6, Alone DEF InSlot
<1>8. \A i \in Slots : m_states'[i] = IF i = slotOf(c) THEN "EMPTY" ELSE m_states[i]
  BY <1>1, <1>2 DEF IInv, TypeOK
<1>9. ClaimInv'
  <2>1. PushState' = PushState /\ PopState' = PopState
    BY DEF PushState, PopState
  <2>2. QED
    BY <2>1, <1>5, <1>6, <1>7, <1>8 DEF IInv, ClaimInv, Threads, InSlot
<1>10. ValueInv'
  <2>1. \A p \in Producers : Pending(p)' = Pending(p)
    BY <1>2 DEF Pending
  <2>2. QED
    BY <2>1, <1>1, <1>2, <1>5, <1>6, <1>8 DEF IInv, ValueInv, Threads
<1>11. SlotExclusive'
  BY <1>5, <1>7 DEF IInv, SlotExclusive
<1>12. QED
  BY <1>3, <1>4, <1>9, <1>10, <1>11 DEF IInv

(* A new queue satisfies the invariant. *)
LEMMA InitInv == Init => IInv
<1> SUFFICES ASSUME Init PROVE IInv
  OBVIOUS
<1> USE DEF Init, QueueBaseInit
<1>1. TypeOK
  BY QueueBaseAssumption DEF TypeOK, Counters, State
<1>2. PcInv
  BY DEF PcInv, Threads
<1>3. ClaimInv /\ ValueInv
  BY DEF ClaimInv, ValueInv, Threads
<1>4. SlotExclusive
  BY DEF SlotExclusive, InSlot
<1>5. QED
  BY <1>1, <1>2, <1>3, <1>4 DEF IInv

(* Every step keeps the invariant. *)
LEMMA NextInv == IInv /\ [Next]_vars => IInv'
<1> SUFFICES ASSUME IInv, [Next]_vars PROVE IInv'
  OBVIOUS
<1>1. CASE TicketStep /\ UNCHANGED <<m_states, m_elements, element>>
  BY <1>1, TicketStepMoves, TicketInv DEF IInv
<1>2. CASE \E p \in Producers : ClaimEmpty(p) \/ WriteElement(p) \/ PublishStored(p)
  BY <1>2, ClaimEmptyInv, WriteElementInv, PublishStoredInv
<1>3. CASE \E c \in Consumers : ClaimStored(c) \/ ReadElement(c) \/ ReleaseEmpty(c)
  BY <1>3, ClaimStoredInv, ReadElementInv, ReleaseEmptyInv
<1>4. CASE UNCHANGED vars
  BY <1>4 DEF vars, IInv, TypeOK, PcInv, ClaimInv, ValueInv, SlotExclusive, InSlot,
              slotOf, SlotOf, Pending, PushState, PopState
<1>5. QED
  BY <1>1, <1>2, <1>3, <1>4 DEF Next

-----------------------------------------------------------------------------
(* Every variable keeps its type. *)
THEOREM TypeCorrect == Spec => []TypeOK
<1>1. IInv => TypeOK
  BY DEF IInv
<1>2. QED
  BY <1>1, InitInv, NextInv, PTL DEF Spec

(* The element of a slot is never touched by two threads at once: the slot *)
(* states of do_push_any and do_pop_any keep every push and pop apart, for *)
(* any number of threads and however far their tickets are apart.          *)
THEOREM NoElementRace == Spec => []SlotExclusive
<1>1. IInv => SlotExclusive
  BY DEF IInv
<1>2. QED
  BY <1>1, InitInv, NextInv, PTL DEF Spec

-----------------------------------------------------------------------------
(* Refinement of AtomicQueue. *)

(* Operators of Words that only mention the counters are the ones here. *)
LEMMA SameOperators ==
  /\ \A n : Words!Full(n) <=> Full(n)
  /\ \A n : Words!Empty(n) <=> Empty(n)
  /\ \A n : Words!Inc(n) = Inc(n)
  /\ \A n : Words!SlotOf(n) = SlotOf(n)
  /\ \A p : Words!Pending(p) = Pending(p)
  BY DEF Words!Full, Full, Words!Empty, Empty, Words!SignedDiff, SignedDiff,
         Words!Inc, Inc, Words!SlotOf, SlotOf, Words!Pending, Pending

(* How PcBar follows pc. *)
LEMMA PcBarMove ==
  ASSUME TypeOK, NEW t \in Threads, NEW x,
         x \notin {"write", "publish", "read", "release"},
         pc' = [pc EXCEPT ![t] = x]
  PROVE  PcBar' = [PcBar EXCEPT ![t] = x]
  BY DEF TypeOK, PcBar, InSlot

(* Inside a slot a thread is, for AtomicQueue, still at the slot. *)
LEMMA PcBarInside ==
  ASSUME TypeOK, NEW t \in Threads, NEW x \in {"write", "publish", "read", "release"},
         pc[t] = "slot" \/ InSlot(t),
         pc' = [pc EXCEPT ![t] = x]
  PROVE  PcBar' = PcBar
  BY DEF TypeOK, PcBar, InSlot

(* Elsewhere it is where it is. *)
LEMMA PcBarValue ==
  ASSUME NEW t \in Threads
  PROVE  /\ ~InSlot(t) => PcBar[t] = pc[t]
         /\ InSlot(t) => PcBar[t] = "slot"
  BY DEF PcBar

(* Taking a ticket changes no word. *)
LEMMA CellBarSame ==
  ASSUME UNCHANGED <<m_states, m_elements>>
  PROVE  CellBar' = CellBar
  BY DEF CellBar

(* A step that takes a push ticket is one of AtomicQueue. *)
LEMMA PushTicketRefines ==
  ASSUME IInv, NEW p \in Producers, TryPushStep(p) \/ PushTicket(p)
  PROVE  Words!TryPushStep(p) \/ Words!PushTicket(p)
<1> USE DEF counterVars, historyVars, Words!counterVars, Words!historyVars
<1>1. p \in Threads /\ TypeOK
  BY DEF IInv, Threads
<1>2. ~InSlot(p) => PcBar[p] = pc[p]
  BY <1>1, PcBarValue
<1>3. CASE TryPushLoad(p)
  <2>1. pc[p] = "idle" /\ pc' = [pc EXCEPT ![p] = "check"]
    BY <1>3 DEF TryPushLoad
  <2>2. PcBar[p] = "idle" /\ PcBar' = [PcBar EXCEPT ![p] = "check"]
    BY <1>1, <1>2, <2>1, PcBarMove DEF InSlot
  <2>3. Words!TryPushLoad(p)
    BY <1>3, <2>2 DEF TryPushLoad, Words!TryPushLoad
  <2>4. QED
    BY <2>3 DEF Words!TryPushStep
<1>4. CASE TryPushFull(p)
  <2>1. pc[p] = "check" /\ pc' = [pc EXCEPT ![p] = "idle"]
    BY <1>4 DEF TryPushFull
  <2>2. PcBar[p] = "check" /\ PcBar' = [PcBar EXCEPT ![p] = "idle"]
    BY <1>1, <1>2, <2>1, PcBarMove DEF InSlot
  <2>3. Words!TryPushFull(p)
    BY <1>4, <2>2, SameOperators DEF TryPushFull, Words!TryPushFull
  <2>4. QED
    BY <2>3 DEF Words!TryPushStep
<1>5. CASE TryPushRoom(p)
  <2>1. pc[p] = "check" /\ pc' = [pc EXCEPT ![p] = "advance"]
    BY <1>5 DEF TryPushRoom
  <2>2. PcBar[p] = "check" /\ PcBar' = [PcBar EXCEPT ![p] = "advance"]
    BY <1>1, <1>2, <2>1, PcBarMove DEF InSlot
  <2>3. Words!TryPushRoom(p)
    BY <1>5, <2>2, SameOperators DEF TryPushRoom, Words!TryPushRoom
  <2>4. QED
    BY <2>3 DEF Words!TryPushStep
<1>6. CASE AdvanceHead(p)
  <2>1. pc[p] = "advance" /\ m_tail' = m_tail /\ pushed' = pushed /\ recv' = recv
    BY <1>6 DEF AdvanceHead
  <2>2. PcBar[p] = "advance"
    BY <1>2, <2>1 DEF InSlot
  <2>3. CASE SPSC \/ m_head = ticket[p]
    <3>1. /\ m_head' = Inc(ticket[p]) /\ ticket' = ticket
          /\ pc' = [pc EXCEPT ![p] = "slot"]
      BY <1>6, <2>3, Zenon DEF AdvanceHead
    <3>2. PcBar' = [PcBar EXCEPT ![p] = "slot"]
      BY <3>1, <1>1, PcBarMove
    <3>3. m_head' = Words!Inc(ticket[p])
      BY <3>1, SameOperators
    <3>4. Words!AdvanceHead(p)
      BY <2>1, <2>2, <2>3, <3>1, <3>2, <3>3, Zenon DEF Words!AdvanceHead
    <3>5. QED
      BY <3>4 DEF Words!TryPushStep
  <2>4. CASE ~(SPSC \/ m_head = ticket[p])
    <3>1. /\ m_head' = m_head /\ ticket' = [ticket EXCEPT ![p] = m_head]
          /\ pc' = [pc EXCEPT ![p] = "check"]
      BY <1>6, <2>4, Zenon DEF AdvanceHead
    <3>2. PcBar' = [PcBar EXCEPT ![p] = "check"]
      BY <3>1, <1>1, PcBarMove
    <3>3. Words!AdvanceHead(p)
      BY <2>1, <2>2, <2>4, <3>1, <3>2, Zenon DEF Words!AdvanceHead
    <3>4. QED
      BY <3>3 DEF Words!TryPushStep
  <2>5. QED
    BY <2>3, <2>4
<1>7. CASE PushTicket(p)
  <2>1. /\ pc[p] = "idle" /\ m_tail' = m_tail /\ pushed' = pushed /\ recv' = recv
        /\ ticket' = [ticket EXCEPT ![p] = m_head]
    BY <1>7 DEF PushTicket
  <2>2. PcBar[p] = "idle"
    BY <1>2, <2>1 DEF InSlot
  <2>3. CASE SPSC
    <3>1. m_head' = m_head /\ pc' = [pc EXCEPT ![p] = "advance"]
      BY <1>7, <2>3, Zenon DEF PushTicket
    <3>2. PcBar' = [PcBar EXCEPT ![p] = "advance"]
      BY <3>1, <1>1, PcBarMove
    <3>3. QED
      BY <1>7, <2>1, <2>2, <2>3, <3>1, <3>2, Zenon DEF PushTicket, Words!PushTicket
  <2>4. CASE ~SPSC
    <3>1. m_head' = Inc(m_head) /\ pc' = [pc EXCEPT ![p] = "slot"]
      BY <1>7, <2>4, Zenon DEF PushTicket
    <3>2. PcBar' = [PcBar EXCEPT ![p] = "slot"]
      BY <3>1, <1>1, PcBarMove
    <3>3. m_head' = Words!Inc(m_head)
      BY <3>1, SameOperators
    <3>4. QED
      BY <1>7, <2>1, <2>2, <2>4, <3>2, <3>3, Zenon DEF PushTicket, Words!PushTicket
  <2>5. QED
    BY <2>3, <2>4
<1>8. QED
  BY <1>3, <1>4, <1>5, <1>6, <1>7 DEF TryPushStep

(* A step that takes a pop ticket is one of AtomicQueue. *)
LEMMA PopTicketRefines ==
  ASSUME IInv, NEW c \in Consumers, TryPopStep(c) \/ PopTicket(c)
  PROVE  Words!TryPopStep(c) \/ Words!PopTicket(c)
<1> USE DEF counterVars, historyVars, Words!counterVars, Words!historyVars
<1>1. c \in Threads /\ TypeOK
  BY DEF IInv, Threads
<1>2. ~InSlot(c) => PcBar[c] = pc[c]
  BY <1>1, PcBarValue
<1>3. CASE TryPopLoad(c)
  <2>1. pc[c] = "idle" /\ pc' = [pc EXCEPT ![c] = "check"]
    BY <1>3 DEF TryPopLoad
  <2>2. PcBar[c] = "idle" /\ PcBar' = [PcBar EXCEPT ![c] = "check"]
    BY <1>1, <1>2, <2>1, PcBarMove DEF InSlot
  <2>3. Words!TryPopLoad(c)
    BY <1>3, <2>2 DEF TryPopLoad, Words!TryPopLoad
  <2>4. QED
    BY <2>3 DEF Words!TryPopStep
<1>4. CASE TryPopEmpty(c)
  <2>1. pc[c] = "check" /\ pc' = [pc EXCEPT ![c] = "idle"]
    BY <1>4 DEF TryPopEmpty
  <2>2. PcBar[c] = "check" /\ PcBar' = [PcBar EXCEPT ![c] = "idle"]
    BY <1>1, <1>2, <2>1, PcBarMove DEF InSlot
  <2>3. Words!TryPopEmpty(c)
    BY <1>4, <2>2, SameOperators DEF TryPopEmpty, Words!TryPopEmpty
  <2>4. QED
    BY <2>3 DEF Words!TryPopStep
<1>5. CASE TryPopAny(c)
  <2>1. pc[c] = "check" /\ pc' = [pc EXCEPT ![c] = "advance"]
    BY <1>5 DEF TryPopAny
  <2>2. PcBar[c] = "check" /\ PcBar' = [PcBar EXCEPT ![c] = "advance"]
    BY <1>1, <1>2, <2>1, PcBarMove DEF InSlot
  <2>3. Words!TryPopAny(c)
    BY <1>5, <2>2, SameOperators DEF TryPopAny, Words!TryPopAny
  <2>4. QED
    BY <2>3 DEF Words!TryPopStep
<1>6. CASE AdvanceTail(c)
  <2>1. pc[c] = "advance" /\ m_head' = m_head /\ pushed' = pushed /\ recv' = recv
    BY <1>6 DEF AdvanceTail
  <2>2. PcBar[c] = "advance"
    BY <1>2, <2>1 DEF InSlot
  <2>3. CASE SPSC \/ m_tail = ticket[c]
    <3>1. /\ m_tail' = Inc(ticket[c]) /\ ticket' = ticket
          /\ pc' = [pc EXCEPT ![c] = "slot"]
      BY <1>6, <2>3, Zenon DEF AdvanceTail
    <3>2. PcBar' = [PcBar EXCEPT ![c] = "slot"]
      BY <3>1, <1>1, PcBarMove
    <3>3. m_tail' = Words!Inc(ticket[c])
      BY <3>1, SameOperators
    <3>4. Words!AdvanceTail(c)
      BY <2>1, <2>2, <2>3, <3>1, <3>2, <3>3, Zenon DEF Words!AdvanceTail
    <3>5. QED
      BY <3>4 DEF Words!TryPopStep
  <2>4. CASE ~(SPSC \/ m_tail = ticket[c])
    <3>1. /\ m_tail' = m_tail /\ ticket' = [ticket EXCEPT ![c] = m_tail]
          /\ pc' = [pc EXCEPT ![c] = "check"]
      BY <1>6, <2>4, Zenon DEF AdvanceTail
    <3>2. PcBar' = [PcBar EXCEPT ![c] = "check"]
      BY <3>1, <1>1, PcBarMove
    <3>3. Words!AdvanceTail(c)
      BY <2>1, <2>2, <2>4, <3>1, <3>2, Zenon DEF Words!AdvanceTail
    <3>4. QED
      BY <3>3 DEF Words!TryPopStep
  <2>5. QED
    BY <2>3, <2>4
<1>7. CASE PopTicket(c)
  <2>1. /\ pc[c] = "idle" /\ m_head' = m_head /\ pushed' = pushed /\ recv' = recv
        /\ ticket' = [ticket EXCEPT ![c] = m_tail]
    BY <1>7 DEF PopTicket
  <2>2. PcBar[c] = "idle"
    BY <1>2, <2>1 DEF InSlot
  <2>3. CASE SPSC
    <3>1. m_tail' = m_tail /\ pc' = [pc EXCEPT ![c] = "advance"]
      BY <1>7, <2>3, Zenon DEF PopTicket
    <3>2. PcBar' = [PcBar EXCEPT ![c] = "advance"]
      BY <3>1, <1>1, PcBarMove
    <3>3. QED
      BY <1>7, <2>1, <2>2, <2>3, <3>1, <3>2, Zenon DEF PopTicket, Words!PopTicket
  <2>4. CASE ~SPSC
    <3>1. m_tail' = Inc(m_tail) /\ pc' = [pc EXCEPT ![c] = "slot"]
      BY <1>7, <2>4, Zenon DEF PopTicket
    <3>2. PcBar' = [PcBar EXCEPT ![c] = "slot"]
      BY <3>1, <1>1, PcBarMove
    <3>3. m_tail' = Words!Inc(m_tail)
      BY <3>1, SameOperators
    <3>4. QED
      BY <1>7, <2>1, <2>2, <2>4, <3>2, <3>3, Zenon DEF PopTicket, Words!PopTicket
  <2>5. QED
    BY <2>3, <2>4
<1>8. QED
  BY <1>3, <1>4, <1>5, <1>6, <1>7 DEF TryPopStep

(* A push takes effect when it publishes STORED, a pop when it publishes   *)
(* EMPTY; the steps before are invisible in the words.                     *)
LEMMA PublishStoredRefines ==
  ASSUME IInv, NEW p \in Producers, PublishStored(p)
  PROVE  Words!do_push(p)
<1> USE DEF counterVars, historyVars, Words!counterVars, Words!historyVars
<1>1. p \in Threads /\ TypeOK /\ slotOf(p) \in Slots /\ InSlot(p)
  BY SlotOfThread DEF IInv, Threads, PublishStored, InSlot
<1>2. PcBar[p] = "slot" /\ PcBar' = [PcBar EXCEPT ![p] = "idle"]
  BY <1>1, PcBarValue, PcBarMove DEF PublishStored
<1>3. m_states[slotOf(p)] = PushState /\ m_elements[slotOf(p)] = Pending(p)
  BY DEF IInv, ClaimInv, ValueInv, PublishStored
<1>4. CellBar[slotOf(p)] = NIL
  BY <1>1, <1>3, PushStateFact DEF CellBar
<1>5. /\ \A i \in Slots : m_states'[i] = IF i = slotOf(p) THEN "STORED" ELSE m_states[i]
      /\ m_elements' = m_elements
  BY <1>1 DEF PublishStored, TypeOK
<1>6. CellBar' = [CellBar EXCEPT ![slotOf(p)] = Pending(p)]
  BY <1>1, <1>3, <1>5 DEF CellBar
<1>7. Words!SlotOf(ticket[p]) = slotOf(p) /\ Words!Pending(p) = Pending(p)
  BY SameOperators DEF slotOf
<1>8. QED
  BY <1>2, <1>4, <1>6, <1>7 DEF PublishStored, Words!do_push

(* The publication of EMPTY is the exchange of do_pop_atomic. *)
LEMMA ReleaseEmptyRefines ==
  ASSUME IInv, NEW c \in Consumers, ReleaseEmpty(c)
  PROVE  Words!do_pop(c)
<1> USE DEF counterVars, historyVars, Words!counterVars, Words!historyVars
<1>1. c \in Threads /\ TypeOK /\ slotOf(c) \in Slots /\ InSlot(c)
  BY SlotOfThread DEF IInv, Threads, ReleaseEmpty, InSlot
<1>2. PcBar[c] = "slot" /\ PcBar' = [PcBar EXCEPT ![c] = "idle"]
  BY <1>1, PcBarValue, PcBarMove DEF ReleaseEmpty
<1>3. m_states[slotOf(c)] = PopState /\ m_elements[slotOf(c)] = element[c]
  BY DEF IInv, ClaimInv, ValueInv, ReleaseEmpty
<1>4. CellBar[slotOf(c)] = element[c] /\ element[c] \in Messages
  BY <1>1, <1>3, PopStateFact DEF CellBar, IInv, ValueInv
<1>5. element[c] # NIL
  BY <1>4, QueueBaseAssumption
<1>6. /\ \A i \in Slots : m_states'[i] = IF i = slotOf(c) THEN "EMPTY" ELSE m_states[i]
      /\ m_elements' = m_elements
  BY <1>1 DEF ReleaseEmpty, TypeOK
<1>7. CellBar' = [CellBar EXCEPT ![slotOf(c)] = NIL]
  BY <1>1, <1>6 DEF CellBar
<1>8. Words!SlotOf(ticket[c]) = slotOf(c)
  BY SameOperators DEF slotOf
<1>9. QED
  BY <1>2, <1>4, <1>5, <1>7, <1>8 DEF ReleaseEmpty, Words!do_pop

(* The other steps inside a slot are stutters of AtomicQueue. *)
LEMMA InsideRefines ==
  ASSUME IInv,
         \/ \E p \in Producers : ClaimEmpty(p) \/ WriteElement(p)
         \/ \E c \in Consumers : ClaimStored(c) \/ ReadElement(c)
  PROVE  UNCHANGED Words!vars
<1> USE DEF counterVars, historyVars
<1>1. ASSUME NEW p \in Producers, ClaimEmpty(p)
      PROVE  UNCHANGED Words!vars
  <2>1. p \in Threads /\ TypeOK /\ slotOf(p) \in Slots
    BY SlotOfThread DEF IInv, Threads
  <2>2. PcBar' = PcBar
    BY <1>1, <2>1, PcBarInside DEF ClaimEmpty
  <2>3. m_states' = [m_states EXCEPT ![slotOf(p)] = PushState]
    BY <1>1, <2>1, ClaimEmptyStep DEF TypeOK
  <2>4. CellBar' = CellBar
    BY <1>1, <2>1, <2>3, PushStateFact DEF ClaimEmpty, CellBar, TypeOK
  <2>5. QED
    BY <1>1, <2>2, <2>4 DEF ClaimEmpty, Words!vars
<1>2. ASSUME NEW p \in Producers, WriteElement(p)
      PROVE  UNCHANGED Words!vars
  <2>1. p \in Threads /\ TypeOK /\ slotOf(p) \in Slots /\ InSlot(p)
    BY <1>2, SlotOfThread DEF IInv, Threads, WriteElement, InSlot
  <2>2. PcBar' = PcBar
    BY <1>2, <2>1, PcBarInside DEF WriteElement
  <2>3. m_states[slotOf(p)] = PushState
    BY <1>2 DEF IInv, ClaimInv, WriteElement
  <2>4. /\ m_states' = m_states
        /\ \A i \in Slots : i # slotOf(p) => m_elements'[i] = m_elements[i]
    BY <1>2, <2>1 DEF WriteElement, TypeOK
  <2>5. CellBar' = CellBar
    BY <2>3, <2>4, PushStateFact DEF CellBar
  <2>6. QED
    BY <1>2, <2>2, <2>5 DEF WriteElement, Words!vars
<1>3. ASSUME NEW c \in Consumers, ClaimStored(c)
      PROVE  UNCHANGED Words!vars
  <2>1. c \in Threads /\ TypeOK /\ slotOf(c) \in Slots
    BY SlotOfThread DEF IInv, Threads
  <2>2. PcBar' = PcBar
    BY <1>3, <2>1, PcBarInside DEF ClaimStored
  <2>3. m_states' = [m_states EXCEPT ![slotOf(c)] = PopState]
    BY <1>3, <2>1, ClaimStoredStep DEF TypeOK
  <2>4. CellBar' = CellBar
    BY <1>3, <2>1, <2>3, PopStateFact DEF ClaimStored, CellBar, TypeOK
  <2>5. QED
    BY <1>3, <2>2, <2>4 DEF ClaimStored, Words!vars
<1>4. ASSUME NEW c \in Consumers, ReadElement(c)
      PROVE  UNCHANGED Words!vars
  <2>1. c \in Threads /\ TypeOK /\ InSlot(c)
    BY <1>4 DEF IInv, Threads, ReadElement, InSlot
  <2>2. PcBar' = PcBar
    BY <1>4, <2>1, PcBarInside DEF ReadElement
  <2>3. QED
    BY <1>4, <2>2, CellBarSame DEF ReadElement, Words!vars
<1>5. QED
  BY <1>1, <1>2, <1>3, <1>4

(* Every step is a step of AtomicQueue or a stutter. *)
LEMMA StepRefines == IInv /\ [Next]_vars => [Words!Next]_(Words!vars)
<1> SUFFICES ASSUME IInv, [Next]_vars
             PROVE  Words!Next \/ UNCHANGED Words!vars
  OBVIOUS
<1>1. CASE TicketStep /\ UNCHANGED <<m_states, m_elements, element>>
  <2>1. Words!TicketStep
    BY <1>1, PushTicketRefines, PopTicketRefines DEF TicketStep, Words!TicketStep
  <2>2. CellBar' = CellBar
    BY <1>1, CellBarSame
  <2>3. QED
    BY <2>1, <2>2 DEF Words!Next
<1>2. CASE \E p \in Producers : ClaimEmpty(p) \/ WriteElement(p) \/ PublishStored(p)
  BY <1>2, InsideRefines, PublishStoredRefines DEF Words!Next
<1>3. CASE \E c \in Consumers : ClaimStored(c) \/ ReadElement(c) \/ ReleaseEmpty(c)
  BY <1>3, InsideRefines, ReleaseEmptyRefines DEF Words!Next
<1>4. CASE UNCHANGED vars
  BY <1>4 DEF vars, Words!vars, PcBar, CellBar, InSlot
<1>5. QED
  BY <1>1, <1>2, <1>3, <1>4 DEF Next

(* AtomicQueue2 implements AtomicQueue: what is proved of the ring of      *)
(* atomic words holds of the ring of slot states.                          *)
THEOREM ImplementsAtomicQueue == Spec => AtomicQueueSpec
<1>1. Init => Words!Init
  <2> SUFFICES ASSUME Init PROVE Words!Init
    OBVIOUS
  <2>1. CellBar = [i \in Slots |-> NIL]
    BY DEF Init, CellBar
  <2>2. PcBar = [t \in Threads |-> "idle"]
    BY DEF Init, QueueBaseInit, PcBar, InSlot
  <2>3. Words!Slots = Slots /\ Words!Threads = Threads
    BY DEF Words!Slots, Slots, Words!Threads, Threads
  <2>4. QED
    BY <2>1, <2>2, <2>3 DEF Init, QueueBaseInit, Words!Init, Words!QueueBaseInit
<1>2. QED
  BY <1>1, InitInv, NextInv, StepRefines, PTL DEF Spec, AtomicQueueSpec, Words!Spec

-----------------------------------------------------------------------------
(* What is proved of the ring of atomic words, under the same mapping.     *)
Proved == INSTANCE AtomicQueue_proofs WITH m_elements <- CellBar, pc <- PcBar

(* The two instances name the same steps. *)
LEMMA SameSteps == [Words!Next]_(Words!vars) => [Proved!Next]_(Proved!vars)
<1>1. Words!vars = Proved!vars /\ (Words!vars)' = (Proved!vars)'
  BY DEF Words!vars, Proved!vars
<1>2. Words!Next => Proved!Next
  BY DEF Words!Next, Proved!Next, Words!TicketStep, Proved!TicketStep,
         Words!TryPushStep, Proved!TryPushStep, Words!TryPopStep, Proved!TryPopStep,
         Words!do_push, Proved!do_push, Words!do_pop, Proved!do_pop,
         Words!PushTicket, Proved!PushTicket, Words!PopTicket, Proved!PopTicket,
         Words!TryPushLoad, Proved!TryPushLoad, Words!TryPushFull, Proved!TryPushFull,
         Words!TryPushRoom, Proved!TryPushRoom, Words!AdvanceHead, Proved!AdvanceHead,
         Words!TryPopLoad, Proved!TryPopLoad, Words!TryPopEmpty, Proved!TryPopEmpty,
         Words!TryPopAny, Proved!TryPopAny, Words!AdvanceTail, Proved!AdvanceTail,
         Words!counterVars, Proved!counterVars, Words!historyVars, Proved!historyVars,
         Words!Full, Proved!Full, Words!Empty, Proved!Empty,
         Words!SignedDiff, Proved!SignedDiff, Words!Inc, Proved!Inc,
         Words!SlotOf, Proved!SlotOf, Words!Pending, Proved!Pending
<1>3. QED
  BY <1>1, <1>2

(* So AtomicQueue2 implements the instance the theorems are about. *)
LEMMA ImplementsProved == Spec => Proved!Spec
<1>1. Words!Init => Proved!Init
  BY DEF Words!Init, Proved!Init, Words!QueueBaseInit, Proved!QueueBaseInit,
         Words!Threads, Proved!Threads, Words!Slots, Proved!Slots
<1>2. Spec => Words!Spec
  BY ImplementsAtomicQueue DEF AtomicQueueSpec
<1>3. QED
  BY <1>1, <1>2, SameSteps, PTL DEF Words!Spec, Proved!Spec

(* The ring that the SPSC template argument selects keeps the order of its *)
(* one producer: OneProducerOrder of the ring of words, carried over by    *)
(* the refinement to the slot states of do_push_any and do_pop_any.        *)
THEOREM OneProducerSlotOrder == ASSUME SPSC PROVE Spec => []SingleProducerOrder
<1>1. Proved!QueueBaseAssumption
  BY QueueBaseAssumption
     DEF Proved!QueueBaseAssumption, Proved!Counters, Proved!Slots, Proved!Messages,
         Counters, Slots, Messages
<1>2. Proved!Spec => []Proved!SingleProducerOrder
  BY <1>1, Proved!OneProducerOrder, PTL
<1>3. Proved!SingleProducerOrder => SingleProducerOrder
  BY DEF Proved!SingleProducerOrder, SingleProducerOrder
<1>4. QED
  BY <1>2, <1>3, ImplementsProved, PTL

-----------------------------------------------------------------------------
(* A slot is left in STORING or LOADING only while a thread is inside it.  *)
Busy ==
  \A i \in Slots : m_states[i] \in {"STORING", "LOADING"} =>
                     \E t \in Threads : InSlot(t) /\ slotOf(t) = i

(* A step inside a slot, or into it, leaves its thread inside; one out of  *)
(* it publishes EMPTY or STORED.                                           *)
LEMMA BusyStep ==
  ASSUME TypeOK, Busy, NEW u \in Threads, ticket' = ticket,
         NEW x, pc' = [pc EXCEPT ![u] = x],
         NEW s, m_states' = [m_states EXCEPT ![slotOf(u)] = s],
         x \in {"write", "publish", "read", "release"} \/ s \in {"EMPTY", "STORED"}
  PROVE  Busy'
<1>1. slotOf(u) \in Slots /\ \A t : slotOf(t)' = slotOf(t)
  BY SlotOfThread DEF slotOf, SlotOf
<1>2. \A t \in Threads : pc'[t] = IF t = u THEN x ELSE pc[t]
  BY DEF TypeOK
<1>3. \A i \in Slots : m_states'[i] = IF i = slotOf(u) THEN s ELSE m_states[i]
  BY <1>1 DEF TypeOK
<1> SUFFICES ASSUME NEW i \in Slots, m_states'[i] \in {"STORING", "LOADING"}
             PROVE  \E t \in Threads : InSlot(t)' /\ slotOf(t)' = i
  BY DEF Busy
<1>4. CASE i = slotOf(u)
  <2>1. x \in {"write", "publish", "read", "release"}
    BY <1>3, <1>4
  <2>2. InSlot(u)' /\ slotOf(u)' = i
    BY <1>1, <1>2, <1>4, <2>1 DEF InSlot
  <2>3. QED
    BY <2>2
<1>5. CASE i # slotOf(u)
  <2>1. PICK t \in Threads : InSlot(t) /\ slotOf(t) = i
    BY <1>3, <1>5 DEF Busy
  <2>2. InSlot(t)' /\ slotOf(t)' = i
    BY <1>1, <1>2, <1>5, <2>1 DEF InSlot
  <2>3. QED
    BY <2>2
<1>6. QED
  BY <1>4, <1>5

(* A step outside the slots moves nobody who is inside one. *)
LEMMA BusyOutside ==
  ASSUME TypeOK, Busy, m_states' = m_states,
         \A t \in Threads : InSlot(t) => pc'[t] = pc[t] /\ ticket'[t] = ticket[t]
  PROVE  Busy'
<1> SUFFICES ASSUME NEW i \in Slots, m_states'[i] \in {"STORING", "LOADING"}
             PROVE  \E t \in Threads : InSlot(t)' /\ slotOf(t)' = i
  BY DEF Busy
<1>1. PICK t \in Threads : InSlot(t) /\ slotOf(t) = i
  BY DEF Busy
<1>2. InSlot(t)' /\ slotOf(t)' = i
  BY <1>1 DEF InSlot, slotOf, SlotOf
<1>3. QED
  BY <1>2

LEMMA BusyNext == IInv /\ Busy /\ [Next]_vars => Busy'
<1> SUFFICES ASSUME IInv, Busy, [Next]_vars PROVE Busy'
  OBVIOUS
<1>0. TypeOK /\ PcInv /\ Producers \subseteq Threads /\ Consumers \subseteq Threads
  BY DEF IInv, Threads
<1>1. CASE UNCHANGED vars
  BY <1>0, <1>1, BusyOutside DEF vars
<1>2. CASE TicketStep /\ UNCHANGED <<m_states, m_elements, element>>
  <2>1. PICK t \in Threads : TicketMove(t)
    BY <1>0, <1>2, TicketStepMoves
  <2>2. PICK x \in {"idle", "check", "advance", "slot"}, n \in Counters :
          pc' = [pc EXCEPT ![t] = x] /\ ticket' = [ticket EXCEPT ![t] = n]
    BY <2>1 DEF TicketMove
  <2>3. \A u \in Threads : InSlot(u) => pc'[u] = pc[u] /\ ticket'[u] = ticket[u]
    BY <1>0, <2>1, <2>2 DEF TypeOK, InSlot, TicketMove
  <2>4. QED
    BY <1>0, <1>2, <2>3, BusyOutside
<1>3. ASSUME NEW p \in Producers, ClaimEmpty(p) PROVE Busy'
  <2>1. p \in Threads /\ slotOf(p) \in Slots
    BY <1>0, SlotOfThread
  <2>2. m_states' = [m_states EXCEPT ![slotOf(p)] = PushState]
    BY <1>0, <1>3, <2>1, ClaimEmptyStep DEF TypeOK
  <2>3. pc' = [pc EXCEPT ![p] = "write"] /\ ticket' = ticket
    BY <1>3 DEF ClaimEmpty
  <2>4. QED
    BY <1>0, <2>1, <2>2, <2>3, BusyStep
<1>4. ASSUME NEW p \in Producers, WriteElement(p) PROVE Busy'
  <2>1. p \in Threads /\ slotOf(p) \in Slots
    BY <1>0, SlotOfThread
  <2>2. m_states' = [m_states EXCEPT ![slotOf(p)] = m_states[slotOf(p)]]
    BY <1>0, <1>4, <2>1 DEF TypeOK, WriteElement
  <2>3. pc' = [pc EXCEPT ![p] = "publish"] /\ ticket' = ticket
    BY <1>4 DEF WriteElement
  <2>4. QED
    BY <1>0, <2>1, <2>2, <2>3, BusyStep
<1>5. ASSUME NEW p \in Producers, PublishStored(p) PROVE Busy'
  <2>1. p \in Threads /\ m_states' = [m_states EXCEPT ![slotOf(p)] = "STORED"]
        /\ pc' = [pc EXCEPT ![p] = "idle"] /\ ticket' = ticket
    BY <1>0, <1>5 DEF PublishStored
  <2>2. QED
    BY <1>0, <2>1, BusyStep
<1>6. ASSUME NEW c \in Consumers, ClaimStored(c) PROVE Busy'
  <2>1. c \in Threads /\ slotOf(c) \in Slots
    BY <1>0, SlotOfThread
  <2>2. m_states' = [m_states EXCEPT ![slotOf(c)] = PopState]
    BY <1>0, <1>6, <2>1, ClaimStoredStep DEF TypeOK
  <2>3. pc' = [pc EXCEPT ![c] = "read"] /\ ticket' = ticket
    BY <1>6 DEF ClaimStored
  <2>4. QED
    BY <1>0, <2>1, <2>2, <2>3, BusyStep
<1>7. ASSUME NEW c \in Consumers, ReadElement(c) PROVE Busy'
  <2>1. c \in Threads /\ slotOf(c) \in Slots
    BY <1>0, SlotOfThread
  <2>2. m_states' = [m_states EXCEPT ![slotOf(c)] = m_states[slotOf(c)]]
    BY <1>0, <1>7, <2>1 DEF TypeOK, ReadElement
  <2>3. pc' = [pc EXCEPT ![c] = "release"] /\ ticket' = ticket
    BY <1>7 DEF ReadElement
  <2>4. QED
    BY <1>0, <2>1, <2>2, <2>3, BusyStep
<1>8. ASSUME NEW c \in Consumers, ReleaseEmpty(c) PROVE Busy'
  <2>1. c \in Threads /\ m_states' = [m_states EXCEPT ![slotOf(c)] = "EMPTY"]
        /\ pc' = [pc EXCEPT ![c] = "idle"] /\ ticket' = ticket
    BY <1>0, <1>8 DEF ReleaseEmpty
  <2>2. QED
    BY <1>0, <2>1, BusyStep
<1>9. QED
  BY <1>1, <1>2, <1>3, <1>4, <1>5, <1>6, <1>7, <1>8 DEF Next

(* With no call under way, the slots are STORED exactly where a ticket     *)
(* between m_tail and m_head names them and EMPTY elsewhere: RingAtRest of *)
(* the ring of words, and no slot left claimed.                            *)
THEOREM SlotsConsistentAtRest == Spec => []QuiescentConsistent
<1>1. Proved!QueueBaseAssumption
  BY QueueBaseAssumption
     DEF Proved!QueueBaseAssumption, Proved!Counters, Proved!Slots, Proved!Messages,
         Counters, Slots, Messages
<1>2. Proved!Spec => []Proved!AtRest
  BY <1>1, Proved!RingAtRest, PTL
<1>3. Init => Busy
  BY DEF Init, Busy
<1>4. IInv /\ Busy /\ Proved!AtRest => QuiescentConsistent
  <2> SUFFICES ASSUME IInv, Busy, Proved!AtRest, \A t \in Threads : pc[t] = "idle", NEW i \in Slots
               PROVE  m_states[i] = IF \E k \in 0 .. was_size - 1 : SlotOf((m_tail + k) % CounterMod) = i
                                    THEN "STORED" ELSE "EMPTY"
    BY DEF QuiescentConsistent
  <2>1. \A t \in Threads : ~InSlot(t)
    BY DEF InSlot
  <2>2. m_states[i] \in {"EMPTY", "STORED"}
    BY <2>1 DEF Busy, IInv, TypeOK, State
  <2>3. \A t \in Threads : PcBar[t] = "idle"
    BY <2>1 DEF PcBar
  <2>4. Proved!Threads = Threads /\ Proved!Slots = Slots
    BY DEF Proved!Threads, Threads, Proved!Slots, Slots
  <2>5. Proved!was_size = was_size /\ \A n : Proved!SlotOf(n) = SlotOf(n)
    BY DEF Proved!was_size, was_size, Proved!SignedDiff, SignedDiff, Proved!SlotOf, SlotOf
  <2>6. CellBar[i] # NIL <=> \E k \in 0 .. was_size - 1 : SlotOf((m_tail + k) % CounterMod) = i
    BY <2>3, <2>4, <2>5 DEF Proved!AtRest
  <2>7. CellBar[i] # NIL <=> m_states[i] = "STORED"
    BY <2>2, QueueBaseAssumption DEF CellBar, IInv, ValueInv
  <2>8. QED
    BY <2>2, <2>6, <2>7
<1>5. QED
  BY <1>2, <1>3, <1>4, ImplementsProved, InitInv, NextInv, BusyNext, PTL DEF Spec

=============================================================================
