------------------------------ MODULE QueueBase ------------------------------
(***************************************************************************)
(* The two counters of lu::queue::QueueBase (include/queue/Queue.h) and    *)
(* the way a thread takes a ticket from them.  A push takes its ticket     *)
(* from m_head, a pop from m_tail; the ticket names the slot in which the  *)
(* derived queue (AtomicQueue, AtomicQueue2) then exchanges the element.   *)
(*                                                                         *)
(* Every atomic access is one action.  The relaxed loads and stores are    *)
(* read as sequentially consistent: all accesses to one counter are        *)
(* totally ordered in any case, and the element itself is published by the *)
(* acquire/release accesses of the slot.                                   *)
(***************************************************************************)
EXTENDS Integers, Sequences, FiniteSets

CONSTANTS
  Producers,   \* threads that push
  Consumers,   \* threads that pop
  QueueSize,   \* m_queueSize
  CounterMod,  \* 2^32: the counters are unsigned and wrap
  Start,       \* value of both counters when the observed window opens: 0 for
               \* a new queue, n after n pushes and n pops
  Remap,       \* lu::common::remapIndex on 0..QueueSize-1
  SPSC,        \* the template argument SPSC
  MaxPush,     \* bound: pushes per producer
  NIL          \* no element

Slots == 0 .. QueueSize - 1
Counters == 0 .. CounterMod - 1
Threads == Producers \cup Consumers

(* The n-th element that producer p pushes. *)
Messages == Producers \X (1 .. MaxPush)

(* MINIMIZE_CONTENTION, the mode of the transfer queue, rounds the size up *)
(* to a power of two, so the size divides 2^32; the signed comparison of   *)
(* the counters needs a size below half their range.                       *)
ASSUME QueueBaseAssumption ==
  /\ QueueSize \in Nat \ {0}
  /\ CounterMod \in Nat \ {0}
  /\ CounterMod % QueueSize = 0
  /\ CounterMod \div 2 > QueueSize
  /\ Start \in Counters
  /\ Remap \in [Slots -> Slots]
  /\ \A i, j \in Slots : Remap[i] = Remap[j] => i = j
  /\ MaxPush \in Nat
  /\ NIL \notin Messages
  /\ Producers \cap Consumers = {}
  /\ SPSC \in BOOLEAN
  /\ SPSC => /\ \A p, q \in Producers : p = q
             /\ \A c, d \in Consumers : c = d

VARIABLES
  m_head,   \* next push ticket
  m_tail,   \* next pop ticket
  pc,       \* where each thread stands in its current call
  ticket,   \* the local variable head or tail of that call
  pushed,   \* how many pushes each producer has completed
  recv      \* the elements each consumer has popped, in order

counterVars == <<m_head, m_tail>>
historyVars == <<pushed, recv>>

(* The element of producer p's current push; a push that found the queue   *)
(* full is repeated with the same element.                                 *)
Pending(p) == <<p, pushed[p] + 1>>

Sent == {m \in Messages : m[2] <= pushed[m[1]]}
Delivered == {m \in Messages : \E c \in Consumers : \E i \in DOMAIN recv[c] : recv[c][i] = m}

QueueBaseInit ==
  /\ m_head = Start
  /\ m_tail = Start
  /\ pc = [t \in Threads |-> "idle"]
  /\ ticket = [t \in Threads |-> Start]
  /\ pushed = [p \in Producers |-> 0]
  /\ recv = [c \in Consumers |-> <<>>]

-----------------------------------------------------------------------------
(* Arithmetic of the counters. *)

Inc(n) == (n + 1) % CounterMod

(* static_cast<int>(a - b) on unsigned a and b. *)
SignedDiff(a, b) ==
  LET d == (a - b) % CounterMod
  IN  IF d < CounterMod \div 2 THEN d ELSE d - CounterMod

FullOneLate(head) == SignedDiff(head, m_tail) > QueueSize

Full(head) == SignedDiff(head, m_tail) >= QueueSize
Empty(tail) == SignedDiff(m_head, tail) <= 0

(* was_size: never negative although m_tail may be ahead of m_head. *)
was_size == LET d == SignedDiff(m_head, m_tail) IN IF d > 0 THEN d ELSE 0

SlotOf(n) == Remap[n % QueueSize]

-----------------------------------------------------------------------------
(* Taking a push ticket. *)

(* try_push reads m_head ... *)
TryPushLoad(p) ==
  /\ pc[p] = "idle"
  /\ pushed[p] < MaxPush
  /\ ticket' = [ticket EXCEPT ![p] = m_head]
  /\ pc' = [pc EXCEPT ![p] = "check"]
  /\ UNCHANGED <<counterVars, historyVars>>

(* ... gives up when the queue looks full ... *)
TryPushFull(p) ==
  /\ pc[p] = "check"
  /\ Full(ticket[p])
  /\ pc' = [pc EXCEPT ![p] = "idle"]
  /\ UNCHANGED <<counterVars, ticket, historyVars>>

TryPushRoom(p) ==
  /\ pc[p] = "check"
  /\ ~Full(ticket[p])
  /\ pc' = [pc EXCEPT ![p] = "advance"]
  /\ UNCHANGED <<counterVars, ticket, historyVars>>

(* ... and otherwise moves m_head on.  With one producer that is a plain   *)
(* store, else a compare-exchange that on failure reloads m_head and       *)
(* checks again.                                                           *)
AdvanceHeadByStore(p) ==
  /\ pc[p] = "advance"
  /\ m_head' = Inc(ticket[p])
  /\ pc' = [pc EXCEPT ![p] = "slot"]
  /\ UNCHANGED <<m_tail, ticket, historyVars>>

AdvanceHead(p) ==
  /\ pc[p] = "advance"
  /\ IF SPSC \/ m_head = ticket[p]
     THEN /\ m_head' = Inc(ticket[p])
          /\ pc' = [pc EXCEPT ![p] = "slot"]
          /\ UNCHANGED ticket
     ELSE /\ ticket' = [ticket EXCEPT ![p] = m_head]
          /\ pc' = [pc EXCEPT ![p] = "check"]
          /\ UNCHANGED m_head
  /\ UNCHANGED <<m_tail, historyVars>>

(* push takes the next ticket whether or not there is room: a fetch_add,   *)
(* or with one producer a load and then the store of AdvanceHead.          *)
PushTicket(p) ==
  /\ pc[p] = "idle"
  /\ pushed[p] < MaxPush
  /\ ticket' = [ticket EXCEPT ![p] = m_head]
  /\ m_head' = IF SPSC THEN m_head ELSE Inc(m_head)
  /\ pc' = [pc EXCEPT ![p] = IF SPSC THEN "advance" ELSE "slot"]
  /\ UNCHANGED <<m_tail, historyVars>>

-----------------------------------------------------------------------------
(* Taking a pop ticket: the same steps on m_tail. *)

TryPopLoad(c) ==
  /\ pc[c] = "idle"
  /\ ticket' = [ticket EXCEPT ![c] = m_tail]
  /\ pc' = [pc EXCEPT ![c] = "check"]
  /\ UNCHANGED <<counterVars, historyVars>>

TryPopEmpty(c) ==
  /\ pc[c] = "check"
  /\ Empty(ticket[c])
  /\ pc' = [pc EXCEPT ![c] = "idle"]
  /\ UNCHANGED <<counterVars, ticket, historyVars>>

TryPopAny(c) ==
  /\ pc[c] = "check"
  /\ ~Empty(ticket[c])
  /\ pc' = [pc EXCEPT ![c] = "advance"]
  /\ UNCHANGED <<counterVars, ticket, historyVars>>

AdvanceTail(c) ==
  /\ pc[c] = "advance"
  /\ IF SPSC \/ m_tail = ticket[c]
     THEN /\ m_tail' = Inc(ticket[c])
          /\ pc' = [pc EXCEPT ![c] = "slot"]
          /\ UNCHANGED ticket
     ELSE /\ ticket' = [ticket EXCEPT ![c] = m_tail]
          /\ pc' = [pc EXCEPT ![c] = "check"]
          /\ UNCHANGED m_tail
  /\ UNCHANGED <<m_head, historyVars>>

PopTicket(c) ==
  /\ pc[c] = "idle"
  /\ ticket' = [ticket EXCEPT ![c] = m_tail]
  /\ m_tail' = IF SPSC THEN m_tail ELSE Inc(m_tail)
  /\ pc' = [pc EXCEPT ![c] = IF SPSC THEN "advance" ELSE "slot"]
  /\ UNCHANGED <<m_head, historyVars>>

TryPushStep(p) == TryPushLoad(p) \/ TryPushFull(p) \/ TryPushRoom(p) \/ AdvanceHead(p)
TryPopStep(c) == TryPopLoad(c) \/ TryPopEmpty(c) \/ TryPopAny(c) \/ AdvanceTail(c)

-----------------------------------------------------------------------------
(* Properties of the counters and of the delivery order. *)

(* While every thread uses try_push and try_pop the counters describe a    *)
(* queue of at most QueueSize elements, across the wrap of the counters    *)
(* too: the stale reads of m_head and m_tail in try_push and try_pop never *)
(* let a push overrun the slots or a pop overtake the pushes.              *)
TicketWindow == SignedDiff(m_head, m_tail) \in 0 .. QueueSize

(* With one producer each consumer pops its elements in the order pushed.  *)
SingleProducerOrder ==
  \A c \in Consumers : \A i, j \in DOMAIN recv[c] : i < j => recv[c][i][2] < recv[c][j][2]
=============================================================================
