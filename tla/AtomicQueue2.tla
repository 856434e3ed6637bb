---------------------------- MODULE AtomicQueue2 -----------------------------
(***************************************************************************)
(* lu::queue::AtomicQueue2: a ring for elements that are not atomic.  Each *)
(* slot has a state beside its element; do_push_any and do_pop_any claim   *)
(* the slot through the state, touch the element without synchronisation   *)
(* and then publish the slot's next state.  The write and the read of the  *)
(* element are steps of their own, so that a race on it would show.        *)
(***************************************************************************)
EXTENDS QueueBase

VARIABLES
  m_states,    \* EMPTY, STORING, STORED or LOADING
  m_elements,  \* what the slots hold; a slot keeps its old value when popped
  element      \* the local variable that do_pop_any moves the slot's value to

vars == <<m_head, m_tail, pc, ticket, pushed, recv, m_states, m_elements, element>>

State == {"EMPTY", "STORING", "STORED", "LOADING"}

slotOf(t) == SlotOf(ticket[t])

Init ==
  /\ QueueBaseInit
  /\ m_states = [i \in Slots |-> "EMPTY"]
  /\ m_elements = [i \in Slots |-> NIL]
  /\ element = [c \in Consumers |-> NIL]

-----------------------------------------------------------------------------
(* do_push_any.  With one producer the claim is a wait for EMPTY, else a   *)
(* compare-exchange to STORING.                                            *)

ClaimEmptyNoWait(p) ==
  /\ pc[p] = "slot"
  /\ pc' = [pc EXCEPT ![p] = "write"]
  /\ UNCHANGED <<counterVars, ticket, historyVars, m_states, m_elements, element>>

ClaimEmptyByLoad(p) ==
  /\ pc[p] = "slot"
  /\ m_states[slotOf(p)] = "EMPTY"
  /\ pc' = [pc EXCEPT ![p] = "write"]
  /\ UNCHANGED <<counterVars, ticket, historyVars, m_states, m_elements, element>>

ClaimEmptyAsStored(p) ==
  /\ pc[p] = "slot"
  /\ m_states[slotOf(p)] = "EMPTY"
  /\ m_states' = [m_states EXCEPT ![slotOf(p)] = "STORED"]
  /\ pc' = [pc EXCEPT ![p] = "write"]
  /\ UNCHANGED <<counterVars, ticket, historyVars, m_elements, element>>

ClaimEmpty(p) ==
  /\ pc[p] = "slot"
  /\ m_states[slotOf(p)] = "EMPTY"
  /\ m_states' = IF SPSC THEN m_states ELSE [m_states EXCEPT ![slotOf(p)] = "STORING"]
  /\ pc' = [pc EXCEPT ![p] = "write"]
  /\ UNCHANGED <<counterVars, ticket, historyVars, m_elements, element>>

WriteElement(p) ==
  /\ pc[p] = "write"
  /\ m_elements' = [m_elements EXCEPT ![slotOf(p)] = Pending(p)]
  /\ pc' = [pc EXCEPT ![p] = "publish"]
  /\ UNCHANGED <<counterVars, ticket, historyVars, m_states, element>>

PublishStored(p) ==
  /\ pc[p] = "publish"
  /\ m_states' = [m_states EXCEPT ![slotOf(p)] = "STORED"]
  /\ pushed' = [pushed EXCEPT ![p] = @ + 1]
  /\ pc' = [pc EXCEPT ![p] = "idle"]
  /\ UNCHANGED <<counterVars, ticket, recv, m_elements, element>>

(* do_pop_any. *)
ClaimStored(c) ==
  /\ pc[c] = "slot"
  /\ m_states[slotOf(c)] = "STORED"
  /\ m_states' = IF SPSC THEN m_states ELSE [m_states EXCEPT ![slotOf(c)] = "LOADING"]
  /\ pc' = [pc EXCEPT ![c] = "read"]
  /\ UNCHANGED <<counterVars, ticket, historyVars, m_elements, element>>

ReadElement(c) ==
  /\ pc[c] = "read"
  /\ element' = [element EXCEPT ![c] = m_elements[slotOf(c)]]
  /\ pc' = [pc EXCEPT ![c] = "release"]
  /\ UNCHANGED <<counterVars, ticket, historyVars, m_states, m_elements>>

ReleaseEmpty(c) ==
  /\ pc[c] = "release"
  /\ m_states' = [m_states EXCEPT ![slotOf(c)] = "EMPTY"]
  /\ recv' = [recv EXCEPT ![c] = Append(@, element[c])]
  /\ pc' = [pc EXCEPT ![c] = "idle"]
  /\ UNCHANGED <<counterVars, ticket, pushed, m_elements, element>>

TicketStep ==
  \/ \E p \in Producers : TryPushStep(p) \/ PushTicket(p)
  \/ \E c \in Consumers : TryPopStep(c) \/ PopTicket(c)

Next ==
  \/ TicketStep /\ UNCHANGED <<m_states, m_elements, element>>
  \/ \E p \in Producers : ClaimEmpty(p) \/ WriteElement(p) \/ PublishStored(p)
  \/ \E c \in Consumers : ClaimStored(c) \/ ReadElement(c) \/ ReleaseEmpty(c)

Spec == Init /\ [][Next]_vars

-----------------------------------------------------------------------------
TypeOK ==
  /\ m_head \in Counters
  /\ m_tail \in Counters
  /\ pc \in [Threads -> {"idle", "check", "advance", "slot",
                         "write", "publish", "read", "release"}]
  /\ ticket \in [Threads -> Counters]
  /\ pushed \in [Producers -> 0 .. MaxPush]
  /\ recv \in [Consumers -> Seq(Messages \cup {NIL})]
  /\ m_states \in [Slots -> State]
  /\ m_elements \in [Slots -> Messages \cup {NIL}]
  /\ element \in [Consumers -> Messages \cup {NIL}]

(* The thread has claimed its slot and not yet published the next state. *)
InSlot(t) == pc[t] \in {"write", "publish", "read", "release"}

(* No two threads are inside one slot: the unsynchronised write and read   *)
(* of the element in do_push_any and do_pop_any never race, although a     *)
(* producer a lap behind and one a lap ahead may wait for the same slot.   *)
SlotExclusive ==
  \A t, u \in Threads : InSlot(t) /\ InSlot(u) /\ slotOf(t) = slotOf(u) => t = u

(* When no call is under way the slots and the counters tell the same      *)
(* story: exactly the slots of the tickets between m_tail and m_head are   *)
(* stored, whatever order the calls overtook each other in.                *)
QuiescentConsistent ==
  (\A t \in Threads : pc[t] = "idle") =>
    \A i \in Slots :
      m_states[i] = IF \E k \in 0 .. was_size - 1 : SlotOf((m_tail + k) % CounterMod) = i
                    THEN "STORED" ELSE "EMPTY"

-----------------------------------------------------------------------------
(* The slot protocol implements one atomic word per slot: a push takes     *)
(* effect when it publishes STORED, a pop when it publishes EMPTY.         *)
CellBar == [i \in Slots |-> IF m_states[i] \in {"STORED", "LOADING"} THEN m_elements[i] ELSE NIL]
PcBar == [t \in Threads |-> IF InSlot(t) THEN "slot" ELSE pc[t]]

Words == INSTANCE AtomicQueue WITH m_elements <- CellBar, pc <- PcBar

(* AtomicQueue2 implements AtomicQueue. *)
AtomicQueueSpec == Words!Spec
=============================================================================
