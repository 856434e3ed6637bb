---------------------------- MODULE TicketSpinlock ---------------------------
(***************************************************************************)
(* lu::common::TicketSpinlock (src/common/spinlock.cpp), used through its  *)
(* LockGuard: the constructor takes the lock and keeps the ticket, the     *)
(* destructor hands the ticket back.                                       *)
(***************************************************************************)
EXTENDS Integers, Sequences, FiniteSets

CONSTANTS
  Threads,
  CounterMod,  \* 2^32: tickets are unsigned
  Start        \* value of both counters when the observed window opens

(* Fewer threads than tickets: no two waiting threads share a ticket. *)
ASSUME TicketAssumption ==
  /\ IsFiniteSet(Threads)
  /\ CounterMod \in Nat
  /\ Cardinality(Threads) < CounterMod
  /\ Start \in 0 .. CounterMod - 1

VARIABLES
  m_ticket,  \* the next ticket to hand out
  m_next,    \* the ticket that owns the lock
  ticket,    \* the local variable of lock, later LockGuard::m_ticket
  pc,        \* "out", "spin" or "in" the guarded section
  order      \* history: threads between lock's fetch_add and unlock, oldest first

vars == <<m_ticket, m_next, ticket, pc, order>>

Inc(n) == (n + 1) % CounterMod

Init ==
  /\ m_ticket = Start
  /\ m_next = Start
  /\ ticket = [t \in Threads |-> Start]
  /\ pc = [t \in Threads |-> "out"]
  /\ order = <<>>

(* lock: fetch_add ... *)
lock(t) ==
  /\ pc[t] = "out"
  /\ ticket' = [ticket EXCEPT ![t] = m_ticket]
  /\ m_ticket' = Inc(m_ticket)
  /\ pc' = [pc EXCEPT ![t] = "spin"]
  /\ order' = Append(order, t)
  /\ UNCHANGED m_next

enterEarly(t) ==
  /\ pc[t] = "spin"
  /\ (ticket[t] - m_next) % CounterMod <= 1
  /\ pc' = [pc EXCEPT ![t] = "in"]
  /\ UNCHANGED <<m_ticket, m_next, ticket, order>>

(* ... then spin while the unsigned difference to m_next is not zero.      *)
enter(t) ==
  /\ pc[t] = "spin"
  /\ (ticket[t] - m_next) % CounterMod = 0
  /\ pc' = [pc EXCEPT ![t] = "in"]
  /\ UNCHANGED <<m_ticket, m_next, ticket, order>>

(* unlock(): the overload without a ticket, which no code calls.  It       *)
(* passes m_next + 1 on, so that m_next moves by two.                      *)
unlockNoTicket(t) ==
  /\ pc[t] = "in"
  /\ m_next' = Inc(Inc(m_next))
  /\ pc' = [pc EXCEPT ![t] = "out"]
  /\ order' = Tail(order)
  /\ UNCHANGED <<m_ticket, ticket>>

(* unlock(ticket) from ~LockGuard. *)
unlock(t) ==
  /\ pc[t] = "in"
  /\ m_next' = Inc(ticket[t])
  /\ pc' = [pc EXCEPT ![t] = "out"]
  /\ order' = Tail(order)
  /\ UNCHANGED <<m_ticket, ticket>>

Next == \E t \in Threads : lock(t) \/ enter(t) \/ unlock(t)

Spec == Init /\ [][Next]_vars

(* A thread in lock keeps running, and no guarded section lasts for ever.  *)
Fairness == \A t \in Threads : WF_vars(enter(t)) /\ WF_vars(unlock(t))

FairSpec == Spec /\ Fairness

-----------------------------------------------------------------------------
TypeOK ==
  /\ m_ticket \in 0 .. CounterMod - 1
  /\ m_next \in 0 .. CounterMod - 1
  /\ ticket \in [Threads -> 0 .. CounterMod - 1]
  /\ pc \in [Threads -> {"out", "spin", "in"}]
  /\ order \in Seq(Threads)

(* The tickets in use are those from m_next on, one per thread, in the     *)
(* order the threads arrived, also across the wrap of the counters.        *)
TicketsInOrder ==
  /\ \A t \in Threads : pc[t] # "out" <=> \E i \in 1 .. Len(order) : order[i] = t
  /\ \A i, j \in 1 .. Len(order) : order[i] = order[j] => i = j
  /\ \A i \in 1 .. Len(order) : ticket[order[i]] = (m_next + i - 1) % CounterMod
  /\ m_ticket = (m_next + Len(order)) % CounterMod

(* Two threads are never in the section at once. *)
MutualExclusion ==
  \A t, u \in Threads : pc[t] = "in" /\ pc[u] = "in" => t = u

(* The lock is a fair mutex: owned one at a time, in order of arrival.     *)
Lock == INSTANCE Mutex WITH queue <- order, owner <- {t \in Threads : pc[t] = "in"}

FairMutex == Lock!Spec

(* Everyone who asks gets the lock. *)
NoStarvation ==
  \A t \in Threads : pc[t] = "spin" ~> pc[t] = "in"
=============================================================================
