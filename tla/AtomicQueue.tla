----------------------------- MODULE AtomicQueue -----------------------------
(***************************************************************************)
(* lu::queue::AtomicQueue: a ring of atomic words.  do_push_atomic moves a *)
(* slot from NIL to the element by compare-exchange, do_pop_atomic takes   *)
(* the element by exchanging it with NIL; both spin until they succeed, so *)
(* a failed attempt is no step.                                            *)
(***************************************************************************)
EXTENDS QueueBase

VARIABLE m_elements

vars == <<m_head, m_tail, pc, ticket, pushed, recv, m_elements>>

Init ==
  /\ QueueBaseInit
  /\ m_elements = [i \in Slots |-> NIL]

(* The store overwrites whatever the slot holds. *)
do_push_no_wait(p) ==
  /\ pc[p] = "slot"
  /\ m_elements' = [m_elements EXCEPT ![SlotOf(ticket[p])] = Pending(p)]
  /\ pushed' = [pushed EXCEPT ![p] = @ + 1]
  /\ pc' = [pc EXCEPT ![p] = "idle"]
  /\ UNCHANGED <<counterVars, ticket, recv>>

(* do_push: wait until the slot is NIL, then store (SPSC) or               *)
(* compare-exchange; with one producer nobody else can fill the slot       *)
(* between the load and the store, so both are this one step.              *)
do_push(p) ==
  /\ pc[p] = "slot"
  /\ m_elements[SlotOf(ticket[p])] = NIL
  /\ m_elements' = [m_elements EXCEPT ![SlotOf(ticket[p])] = Pending(p)]
  /\ pushed' = [pushed EXCEPT ![p] = @ + 1]
  /\ pc' = [pc EXCEPT ![p] = "idle"]
  /\ UNCHANGED <<counterVars, ticket, recv>>

(* The slot is read and not exchanged. *)
do_pop_keep(c) ==
  /\ pc[c] = "slot"
  /\ m_elements[SlotOf(ticket[c])] # NIL
  /\ recv' = [recv EXCEPT ![c] = Append(@, m_elements[SlotOf(ticket[c])])]
  /\ pc' = [pc EXCEPT ![c] = "idle"]
  /\ UNCHANGED <<counterVars, ticket, pushed, m_elements>>

(* do_pop: exchange the slot with NIL once it holds an element. *)
do_pop(c) ==
  /\ pc[c] = "slot"
  /\ m_elements[SlotOf(ticket[c])] # NIL
  /\ recv' = [recv EXCEPT ![c] = Append(@, m_elements[SlotOf(ticket[c])])]
  /\ m_elements' = [m_elements EXCEPT ![SlotOf(ticket[c])] = NIL]
  /\ pc' = [pc EXCEPT ![c] = "idle"]
  /\ UNCHANGED <<counterVars, ticket, pushed>>

TicketStep ==
  \/ \E p \in Producers : TryPushStep(p) \/ PushTicket(p)
  \/ \E c \in Consumers : TryPopStep(c) \/ PopTicket(c)

Next ==
  \/ TicketStep /\ UNCHANGED m_elements
  \/ \E p \in Producers : do_push(p)
  \/ \E c \in Consumers : do_pop(c)

Spec == Init /\ [][Next]_vars

-----------------------------------------------------------------------------
TypeOK ==
  /\ m_head \in Counters
  /\ m_tail \in Counters
  /\ pc \in [Threads -> {"idle", "check", "advance", "slot"}]
  /\ ticket \in [Threads -> Counters]
  /\ pushed \in [Producers -> 0 .. MaxPush]
  /\ recv \in [Consumers -> Seq(Messages)]
  /\ m_elements \in [Slots -> Messages \cup {NIL}]

(* A producer with a push under way is still allowed one (the bound). *)
PushBound == \A p \in Producers : pc[p] # "idle" => pushed[p] < MaxPush

(* Nothing lost, nothing duplicated: every accepted element is either      *)
(* handed out or in exactly one slot, never both.                          *)
InFlight ==
  /\ Delivered \subseteq Sent
  /\ \A i \in Slots : m_elements[i] # NIL => m_elements[i] \in Sent \ Delivered
  /\ \A i, j \in Slots : m_elements[i] = m_elements[j] /\ m_elements[i] # NIL => i = j
  /\ \A m \in Sent \ Delivered : \E i \in Slots : m_elements[i] = m

(* The queue implements the exactly-once channel. *)
Channel == INSTANCE ExactlyOnce WITH sent <- Sent

ExactlyOnceSpec == Channel!Spec
=============================================================================
