------------------------------ MODULE MPSCQueue ------------------------------
(***************************************************************************)
(* lu::queue::MPSCQueue: many producers, one consumer that goes to sleep   *)
(* when the queue stays empty.  The consumer raises m_consumerWait and     *)
(* waits on m_cv until a producer has lowered it; a producer that reads    *)
(* the flag raised after its push lowers it under m_mutex and notifies.    *)
(*                                                                         *)
(* The wrapped queue is AtomicQueue, which AtomicQueue2 implements.        *)
(* m_mutex needs no variable: a producer holds it only to lower the flag,  *)
(* and the consumer from its predicate check to the moment it sleeps, so   *)
(* each critical section is one step.                                      *)
(***************************************************************************)
EXTENDS AtomicQueue

CONSTANTS
  SpinLimit   \* 1000: failed try_pops before pop goes to sleep

ASSUME MPSCAssumption ==
  /\ \A c, d \in Consumers : c = d
  /\ SpinLimit \in Nat
  /\ ~SPSC

VARIABLES
  m_consumerWait,
  call,    \* where each thread stands in MPSCQueue::push or MPSCQueue::pop
  count,   \* the local variable count of pop
  lapped   \* a push has filled a slot that an older push is still waiting for

waitVars == <<m_consumerWait, call, count, lapped>>
mpscVars == <<vars, waitVars>>

Asleep == \E c \in Consumers : call[c] = "asleep"

(* In m_cv.wait with a predicate that is false. *)
Waiting == m_consumerWait /\ \E c \in Consumers : call[c] \in {"wait", "asleep"}

MPSCInit ==
  /\ Init
  /\ m_consumerWait = FALSE
  /\ call = [t \in Threads |-> "try"]
  /\ count = 0
  /\ lapped = FALSE

-----------------------------------------------------------------------------
(* push: repeat try_push until it succeeds ... *)
PushTry(p) ==
  /\ call[p] = "try"
  /\ TryPushStep(p)
  /\ UNCHANGED <<m_elements, waitVars>>

PushDone(p) ==
  /\ call[p] = "try"
  /\ do_push(p)
  /\ call' = [call EXCEPT ![p] = "look"]
  /\ lapped' = (lapped \/ \E q \in Producers \ {p} :
                  /\ pc[q] = "slot"
                  /\ SlotOf(ticket[q]) = SlotOf(ticket[p])
                  /\ SignedDiff(ticket[p], ticket[q]) > 0)
  /\ UNCHANGED <<m_consumerWait, count>>

(* ... then look whether the consumer waits ... *)
PushLook(p) ==
  /\ call[p] = "look"
  /\ call' = [call EXCEPT ![p] = IF m_consumerWait THEN "lower" ELSE "try"]
  /\ UNCHANGED <<vars, m_consumerWait, count, lapped>>

PushLowerAndReturn(p) ==
  /\ call[p] = "lower"
  /\ m_consumerWait' = FALSE
  /\ call' = [call EXCEPT ![p] = "try"]
  /\ UNCHANGED <<vars, count, lapped>>

(* ... lower the flag under the mutex ... *)
PushLower(p) ==
  /\ call[p] = "lower"
  /\ m_consumerWait' = FALSE
  /\ call' = [call EXCEPT ![p] = "notify"]
  /\ UNCHANGED <<vars, count, lapped>>

(* ... and notify: a sleeping consumer checks its predicate again. *)
PushNotify(p) ==
  /\ call[p] = "notify"
  /\ call' = [t \in Threads |-> IF t = p THEN "try"
                                ELSE IF call[t] = "asleep" THEN "wait" ELSE call[t]]
  /\ UNCHANGED <<vars, m_consumerWait, count, lapped>>

-----------------------------------------------------------------------------
(* pop: repeat try_pop ... *)
PopTry(c) ==
  /\ call[c] = "try"
  /\ TryPopLoad(c) \/ TryPopAny(c) \/ AdvanceTail(c)
  /\ UNCHANGED <<m_elements, waitVars>>

PopDone(c) ==
  /\ call[c] = "try"
  /\ do_pop(c)
  /\ count' = 0
  /\ UNCHANGED <<m_consumerWait, call, lapped>>

(* ... the failed attempt number SpinLimit + 1 leads to sleep ... *)
PopEmpty(c) ==
  /\ call[c] = "try"
  /\ TryPopEmpty(c)
  /\ IF count = SpinLimit
     THEN /\ call' = [call EXCEPT ![c] = "raise"]
          /\ UNCHANGED count
     ELSE /\ count' = IF count < SpinLimit THEN count + 1 ELSE count
          /\ UNCHANGED call
  /\ UNCHANGED <<m_elements, m_consumerWait, lapped>>

PopRaise(c) ==
  /\ call[c] = "raise"
  /\ m_consumerWait' = TRUE
  /\ call' = [call EXCEPT ![c] = "wait"]
  /\ UNCHANGED <<vars, count, lapped>>

(* ... m_cv.wait checks its predicate under the mutex.  After it pop keeps *)
(* trying and, count being past the limit, does not sleep again.           *)
PopWait(c) ==
  /\ call[c] = "wait"
  /\ IF m_consumerWait
     THEN /\ call' = [call EXCEPT ![c] = "asleep"]
          /\ UNCHANGED count
     ELSE /\ call' = [call EXCEPT ![c] = "try"]
          /\ count' = SpinLimit + 1
  /\ UNCHANGED <<vars, m_consumerWait, lapped>>

(* A condition variable may wake without a notification. *)
SpuriousWake(c) ==
  /\ call[c] = "asleep"
  /\ call' = [call EXCEPT ![c] = "wait"]
  /\ UNCHANGED <<vars, m_consumerWait, count, lapped>>

push(p) == PushTry(p) \/ PushDone(p) \/ PushLook(p) \/ PushLower(p) \/ PushNotify(p)
pop(c) == PopTry(c) \/ PopDone(c) \/ PopEmpty(c) \/ PopRaise(c) \/ PopWait(c)

MPSCNext ==
  \/ \E p \in Producers : push(p)
  \/ \E c \in Consumers : pop(c) \/ SpuriousWake(c)

(* Every thread that can run runs; nothing makes a wake-up spurious.       *)
MPSCFairness ==
  /\ \A p \in Producers : WF_mpscVars(push(p))
  /\ \A c \in Consumers : WF_mpscVars(pop(c))

MPSCSpec == MPSCInit /\ [][MPSCNext]_mpscVars

MPSCFairSpec == MPSCSpec /\ MPSCFairness

-----------------------------------------------------------------------------
MPSCTypeOK ==
  /\ TypeOK
  /\ m_consumerWait \in BOOLEAN
  /\ call \in [Threads -> {"try", "look", "lower", "notify", "raise", "wait", "asleep"}]
  /\ count \in 0 .. SpinLimit + 1
  /\ lapped \in BOOLEAN

(* A consumer asleep with the flag lowered has a notification on its way:  *)
(* the wait in pop never misses the notify_one of a push that saw the flag.*)
NoMissedNotify ==
  Asleep /\ ~m_consumerWait => \E p \in Producers : call[p] = "notify"

(* Each producer's elements are popped in the order it pushed them, unless *)
(* some push overtook another that was stalled between its ticket and its  *)
(* slot for a whole lap of the ring.                                       *)
OrderUnlessLapped ==
  ~lapped => \A c \in Consumers : \A i, j \in DOMAIN recv[c] :
    i < j /\ recv[c][i][1] = recv[c][j][1] => recv[c][i][2] < recv[c][j][2]

(* A push that looks at the flag while the consumer sleeps wakes it.       *)
NextPushWakes ==
  \A p \in Producers : (Asleep /\ call[p] = "look") ~> ~Asleep

(* Every element that a push accepted is popped in the end.                *)
EveryPushPopped ==
  \A m \in Messages : (m \in Sent) ~> (m \in Delivered)

(* What holds instead: it is popped unless the consumer stays in m_cv.wait *)
(* for good, with the flag raised so that no spurious wake-up frees it.    *)
PoppedUnlessAsleep ==
  <>[]Waiting \/ \A m \in Messages : (m \in Sent) ~> (m \in Delivered)
=============================================================================
