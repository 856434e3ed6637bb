------------------------- MODULE WorkerThread_proofs -------------------------
(***************************************************************************)
(* MPSCQueue only adds to AtomicQueue: it implements it, so it inherits    *)
(* its theorems, and its wait protocol never misses a notification.  A     *)
(* worker thread uses its channel only as MPSCQueue allows, so what is     *)
(* proved of the queue holds of the channel; and stop() drains it.         *)
(***************************************************************************)
EXTENDS WorkerThread, AtomicQueue_proofs, FiniteSetTheorems


CallStates == {"try", "look", "lower", "notify", "raise", "wait", "asleep"}

(* The inductive invariant of the wait protocol. *)
WaitInv == call \in [Threads -> CallStates] /\ NoMissedNotify

(* Every step of the wrapper is a step of the wrapped queue or leaves it   *)
(* alone.                                                                  *)
LEMMA WrapperStep == [MPSCNext]_mpscVars => [Next]_vars
<1> SUFFICES ASSUME [MPSCNext]_mpscVars PROVE Next \/ UNCHANGED vars
  OBVIOUS
<1>1. ASSUME NEW p \in Producers, push(p)
      PROVE  Next \/ UNCHANGED vars
  <2>1. CASE PushTry(p)
    BY <2>1 DEF PushTry, Next, TicketStep
  <2>2. CASE PushDone(p)
    BY <2>2 DEF PushDone, Next
  <2>3. CASE PushLook(p) \/ PushLower(p) \/ PushNotify(p)
    BY <2>3 DEF PushLook, PushLower, PushNotify
  <2>4. QED
    BY <1>1, <2>1, <2>2, <2>3 DEF push
<1>2. ASSUME NEW c \in Consumers, pop(c) \/ SpuriousWake(c)
      PROVE  Next \/ UNCHANGED vars
  <2>1. CASE PopTry(c)
    BY <2>1 DEF PopTry, Next, TicketStep, TryPopStep
  <2>2. CASE PopEmpty(c)
    BY <2>2 DEF PopEmpty, Next, TicketStep, TryPopStep
  <2>3. CASE PopDone(c)
    BY <2>3 DEF PopDone, Next
  <2>4. CASE PopRaise(c) \/ PopWait(c) \/ SpuriousWake(c)
    BY <2>4 DEF PopRaise, PopWait, SpuriousWake
  <2>5. QED
    BY <1>2, <2>1, <2>2, <2>3, <2>4 DEF pop
<1>3. CASE UNCHANGED mpscVars
  BY <1>3 DEF mpscVars
<1>4. QED
  BY <1>1, <1>2, <1>3 DEF MPSCNext

(* MPSCQueue uses its queue only through try_push and try_pop: waiting     *)
(* and waking are stutters of AtomicQueue.                                 *)
THEOREM MPSCImplementsAtomicQueue == MPSCSpec => Spec
<1>1. MPSCInit => Init
  BY DEF MPSCInit
<1>2. QED
  BY <1>1, WrapperStep, PTL DEF MPSCSpec, Spec

(* Sleeping and waking lose and duplicate nothing either.                  *)
THEOREM MPSCNothingLost == MPSCSpec => []InFlight
  BY MPSCImplementsAtomicQueue, NothingLost, PTL

(* The queue between the threads is an exactly-once channel.               *)
THEOREM MPSCExactlyOnce == MPSCSpec => ExactlyOnceSpec
  BY MPSCImplementsAtomicQueue, Implements, PTL

(* Every step keeps the invariant of the wait. *)
LEMMA WaitInvStep == WaitInv /\ [MPSCNext]_mpscVars => WaitInv'
<1> SUFFICES ASSUME WaitInv, [MPSCNext]_mpscVars PROVE WaitInv'
  OBVIOUS
<1> USE DEF WaitInv, CallStates, Threads
<1>1. ASSUME NEW p \in Producers, push(p)
      PROVE  WaitInv'
  <2>1. CASE PushTry(p)
    BY <2>1 DEF PushTry, waitVars, NoMissedNotify, Asleep
  <2>2. CASE PushDone(p)
    BY <2>2 DEF PushDone, NoMissedNotify, Asleep
  <2>3. CASE PushLook(p)
    BY <2>3 DEF PushLook, NoMissedNotify, Asleep
  <2>4. CASE PushLower(p)
    BY <2>4 DEF PushLower, NoMissedNotify, Asleep
  <2>5. CASE PushNotify(p)
    BY <2>5 DEF PushNotify, NoMissedNotify, Asleep
  <2>6. QED
    BY <1>1, <2>1, <2>2, <2>3, <2>4, <2>5 DEF push
<1>2. ASSUME NEW c \in Consumers, pop(c) \/ SpuriousWake(c)
      PROVE  WaitInv'
  <2>0. c \notin Producers
    BY QueueBaseAssumption
  <2>1. CASE PopTry(c)
    BY <2>1 DEF PopTry, waitVars, NoMissedNotify, Asleep
  <2>2. CASE PopDone(c)
    BY <2>2 DEF PopDone, NoMissedNotify, Asleep
  <2>3. CASE PopEmpty(c)
    BY <2>0, <2>3 DEF PopEmpty, NoMissedNotify, Asleep
  <2>4. CASE PopRaise(c)
    BY <2>4 DEF PopRaise, NoMissedNotify, Asleep
  <2>5. CASE PopWait(c)
    BY <2>0, <2>5 DEF PopWait, NoMissedNotify, Asleep
  <2>6. CASE SpuriousWake(c)
    BY <2>0, <2>6 DEF SpuriousWake, NoMissedNotify, Asleep
  <2>7. QED
    BY <1>2, <2>1, <2>2, <2>3, <2>4, <2>5, <2>6 DEF pop
<1>3. CASE UNCHANGED mpscVars
  BY <1>3 DEF mpscVars, waitVars, NoMissedNotify, Asleep
<1>4. QED
  BY <1>1, <1>2, <1>3 DEF MPSCNext

(* A consumer asleep in m_cv.wait with the flag already lowered has a      *)
(* producer on its way to notify_one.                                      *)
THEOREM MPSCNoMissedNotify == MPSCSpec => []NoMissedNotify
<1>1. MPSCInit => WaitInv
  BY DEF MPSCInit, WaitInv, CallStates, NoMissedNotify, Asleep, Threads
<1>2. WaitInv => NoMissedNotify
  BY DEF WaitInv
<1>3. QED
  BY <1>1, <1>2, WaitInvStep, PTL DEF MPSCSpec

-----------------------------------------------------------------------------
(* The window of tickets.  The counters are read back as counts h and t    *)
(* that do not wrap: h pushes and t pops have taken a ticket since the     *)
(* counters were 0.                                                        *)

(* The elements whose push has taken its ticket. *)
Taken == Sent \cup {Pending(p) : p \in {q \in Producers : pc[q] = "slot"}}

(* A producer with a stale head still knows a count that m_head once had,  *)
(* and after its check one that leaves room; the consumer, being the only  *)
(* one, is never stale.                                                    *)
PushTicketAt(p, h, t) ==
  \E k \in Start .. h : ticket[p] = k % CounterMod /\ (pc[p] = "advance" => k < t + QueueSize)

Window(h, t) ==
  /\ m_head = h % CounterMod /\ m_tail = t % CounterMod
  /\ t <= h /\ h <= t + QueueSize
  /\ Start <= h /\ h <= Start + Cardinality(Taken)
  /\ \A p \in Producers : pc[p] \in {"check", "advance"} => PushTicketAt(p, h, t)
  /\ \A c \in Consumers : pc[c] \in {"check", "advance"} =>
       ticket[c] = m_tail /\ (pc[c] = "advance" => t < h)

Windowed == \E h, t \in Nat : Window(h, t)

(* The counters do not come round to a value a producer has read: there    *)
(* are at most 2^32 pushes.                                                *)
FewPushes == IsFiniteSet(Messages) /\ Cardinality(Messages) <= CounterMod

(* In the window the two counters never look further apart than the size.  *)
LEMMA WindowShows == Windowed => TicketWindow
<1> SUFFICES ASSUME NEW h \in Nat, NEW t \in Nat, Window(h, t) PROVE TicketWindow
  BY DEF Windowed
<1>1. QueueSize \in Nat
  BY QueueBaseAssumption
<1>2. SignedDiff(m_head, m_tail) = h - t
  BY <1>1, SignedDiffApart DEF Window
<1>3. QED
  BY <1>1, <1>2 DEF TicketWindow, Window

-----------------------------------------------------------------------------
(* Taken grows when a push takes its ticket and at no other step. *)

LEMMA TakenMember ==
  \A m : m \in Taken <=> m \in Sent \/ \E q \in Producers : pc[q] = "slot" /\ m = Pending(q)
  BY DEF Taken

LEMMA PendingApart ==
  ASSUME IInv, NEW p \in Producers, pc[p] # "idle"
  PROVE  /\ Pending(p) \in Messages /\ Pending(p) \notin Sent
         /\ \A q \in Producers : Pending(q) = Pending(p) => q = p
  BY QueueBaseAssumption DEF IInv, TypeOK, PushBound, Pending, Messages, Sent

LEMMA TakenMessages ==
  ASSUME IInv PROVE Taken \subseteq Messages
  BY TakenMember, PendingApart DEF Sent

(* The push about to take its ticket is not among those that have. *)
LEMMA TakenRoom ==
  ASSUME IInv, FewPushes, NEW p \in Producers, pc[p] = "advance"
  PROVE  /\ IsFiniteSet(Taken) /\ Pending(p) \notin Taken
         /\ Cardinality(Taken) \in Nat /\ Cardinality(Taken) < CounterMod
<1>1. Pending(p) \in Messages /\ Pending(p) \notin Taken
  BY PendingApart, TakenMember
<1>2. IsFiniteSet(Taken) /\ Cardinality(Taken) \in Nat
  BY TakenMessages, FS_Subset, FS_CardinalityType DEF FewPushes
<1>3. Taken \cup {Pending(p)} \subseteq Messages
  BY <1>1, TakenMessages
<1>4. Cardinality(Taken \cup {Pending(p)}) = Cardinality(Taken) + 1
  BY <1>1, <1>2, FS_AddElement
<1>5. Cardinality(Taken \cup {Pending(p)}) <= Cardinality(Messages)
  BY <1>3, FS_Subset DEF FewPushes
<1>6. Cardinality(Messages) \in Nat /\ CounterMod \in Nat
  BY FS_CardinalityType, QueueBaseAssumption DEF FewPushes
<1>7. QED
  BY <1>1, <1>2, <1>4, <1>5, <1>6 DEF FewPushes

LEMMA TakenAdvance ==
  ASSUME IInv, FewPushes, NEW p \in Producers, pc[p] = "advance",
         pc' = [pc EXCEPT ![p] = "slot"], UNCHANGED historyVars
  PROVE  /\ Taken' = Taken \cup {Pending(p)} /\ Pending(p) \notin Taken
         /\ Cardinality(Taken') = Cardinality(Taken) + 1
<1>1. Sent' = Sent /\ \A q \in Producers : Pending(q)' = Pending(q)
  BY HistorySame DEF historyVars, Pending
<1>2. \A q \in Producers : pc'[q] = "slot" <=> pc[q] = "slot" \/ q = p
  BY DEF IInv, TypeOK, Threads
<1>3. ASSUME NEW m PROVE m \in Taken' <=> m \in Taken \/ m = Pending(p)
  <2>1. m \in Taken' <=> m \in Sent' \/ \E q \in Producers : pc'[q] = "slot" /\ m = Pending(q)'
    BY DEF Taken
  <2>2. QED
    BY <1>1, <1>2, <2>1, TakenMember
<1>4. Taken' = Taken \cup {Pending(p)}
  BY <1>3
<1>5. QED
  BY <1>4, TakenRoom, FS_AddElement

LEMMA TakenSame ==
  ASSUME UNCHANGED historyVars, \A q \in Producers : pc'[q] = "slot" <=> pc[q] = "slot"
  PROVE  Taken' = Taken
  BY HistorySame DEF historyVars, Pending, Taken

LEMMA TakenPush ==
  ASSUME IInv, NEW p \in Producers, do_push(p)
  PROVE  Taken' = Taken
<1>1. pc[p] = "slot" /\ pc' = [pc EXCEPT ![p] = "idle"] /\ pushed' = [pushed EXCEPT ![p] = @ + 1]
  BY DEF do_push
<1>2. Sent' = Sent \cup {Pending(p)}
  BY <1>1, SentStep DEF IInv, PushBound
<1>3. \A q \in Producers : pc'[q] = "slot" <=> pc[q] = "slot" /\ q # p
  BY <1>1 DEF IInv, TypeOK, Threads
<1>4. \A q \in Producers : q # p => pushed'[q] = pushed[q]
  BY <1>1 DEF IInv, TypeOK
<1>5. ASSUME NEW m PROVE m \in Taken' <=> m \in Taken
  <2>1. m \in Taken' <=> m \in Sent' \/ \E q \in Producers : pc'[q] = "slot" /\ m = <<q, pushed'[q] + 1>>
    BY DEF Taken, Pending
  <2>2. m \in Taken <=> m \in Sent \/ \E q \in Producers : pc[q] = "slot" /\ m = <<q, pushed[q] + 1>>
    BY DEF Taken, Pending
  <2>3. m \in Sent' <=> m \in Sent \/ m = <<p, pushed[p] + 1>>
    BY <1>2 DEF Pending
  <2>4. QED
    BY <1>1, <1>3, <1>4, <2>1, <2>2, <2>3
<1>6. QED
  BY <1>5

-----------------------------------------------------------------------------
(* Every step keeps the window. *)

LEMMA PushTicketKeeps ==
  ASSUME NEW p \in Producers, NEW h \in Nat, NEW t \in Nat, NEW g \in Nat, NEW s \in Nat,
         PushTicketAt(p, h, t), h <= g, t <= s,
         pc'[p] = pc[p], ticket'[p] = ticket[p]
  PROVE  PushTicketAt(p, g, s)'
<1>1. Start \in Nat /\ QueueSize \in Nat
  BY QueueBaseAssumption DEF Counters
<1>2. PICK k \in Start .. h : ticket[p] = k % CounterMod /\ (pc[p] = "advance" => k < t + QueueSize)
  BY DEF PushTicketAt
<1>3. k \in Start .. g /\ (k < t + QueueSize => k < s + QueueSize)
  BY <1>1
<1>4. QED
  BY <1>2, <1>3 DEF PushTicketAt

LEMMA WindowLoad ==
  ASSUME IInv, NEW h \in Nat, NEW t \in Nat, Window(h, t), NEW p \in Producers,
         pc' = [pc EXCEPT ![p] = "check"], ticket' = [ticket EXCEPT ![p] = m_head],
         pc[p] # "slot", UNCHANGED <<counterVars, historyVars>>
  PROVE  Window(h, t)'
<1>1. p \in Threads /\ p \notin Consumers /\ Producers \subseteq Threads /\ Consumers \subseteq Threads
  BY QueueBaseAssumption DEF Threads
<1>2. /\ pc'[p] = "check" /\ ticket'[p] = m_head
      /\ \A u \in Threads : u # p => pc'[u] = pc[u] /\ ticket'[u] = ticket[u]
  BY <1>1 DEF IInv, TypeOK
<1>3. Taken' = Taken
  BY <1>1, <1>2, TakenSame DEF counterVars
<1>4. PushTicketAt(p, h, t)'
  <2>1. h \in Start .. h
    BY QueueBaseAssumption DEF Window, Counters
  <2>2. QED
    BY <1>2, <2>1 DEF PushTicketAt, Window
<1>5. ASSUME NEW q \in Producers, pc'[q] \in {"check", "advance"} PROVE PushTicketAt(q, h, t)'
  <2>1. CASE q = p
    BY <1>4, <2>1
  <2>2. CASE q # p
    BY <1>1, <1>2, <1>5, <2>2, PushTicketKeeps DEF Window
  <2>3. QED
    BY <2>1, <2>2
<1>6. ASSUME NEW c \in Consumers PROVE pc'[c] = pc[c] /\ ticket'[c] = ticket[c]
  BY <1>1, <1>2
<1>7. QED
  BY <1>3, <1>5, <1>6 DEF Window, counterVars

LEMMA WindowReturn ==
  ASSUME IInv, NEW h \in Nat, NEW t \in Nat, Window(h, t), NEW u \in Threads,
         pc' = [pc EXCEPT ![u] = "idle"], UNCHANGED <<counterVars, ticket>>, Taken' = Taken
  PROVE  Window(h, t)'
<1>1. Producers \subseteq Threads /\ Consumers \subseteq Threads
  BY DEF Threads
<1>2. pc'[u] = "idle" /\ \A v \in Threads : v # u => pc'[v] = pc[v]
  BY DEF IInv, TypeOK
<1>3. ASSUME NEW q \in Producers, pc'[q] \in {"check", "advance"} PROVE PushTicketAt(q, h, t)'
  BY <1>1, <1>2, <1>3, PushTicketKeeps DEF Window
<1>4. ASSUME NEW c \in Consumers, pc'[c] \in {"check", "advance"} PROVE pc'[c] = pc[c]
  BY <1>1, <1>2, <1>4
<1>5. QED
  BY <1>3, <1>4 DEF Window, counterVars

LEMMA WindowRoom ==
  ASSUME IInv, NEW h \in Nat, NEW t \in Nat, Window(h, t), NEW p \in Producers, TryPushRoom(p)
  PROVE  Window(h, t)'
<1>1. p \in Threads /\ p \notin Consumers /\ Producers \subseteq Threads /\ Consumers \subseteq Threads
  BY QueueBaseAssumption DEF Threads
<1>2. /\ pc[p] = "check" /\ pc'[p] = "advance" /\ ~Full(ticket[p])
      /\ \A u \in Threads : u # p => pc'[u] = pc[u]
      /\ UNCHANGED <<counterVars, ticket, historyVars>>
  BY <1>1 DEF IInv, TypeOK, TryPushRoom
<1>3. Taken' = Taken
  BY <1>1, <1>2, TakenSame
<1>4. PushTicketAt(p, h, t)'
  <2>1. PICK k \in Start .. h : ticket[p] = k % CounterMod
    BY <1>2 DEF Window, PushTicketAt
  <2>2. Start \in Nat /\ QueueSize \in Nat /\ k \in Nat
    BY QueueBaseAssumption DEF Counters
  <2>3. k < t + QueueSize
    <3>1. CASE t <= k
      <4>1. 0 <= k - t /\ k - t <= QueueSize
        BY <2>2, <3>1 DEF Window
      <4>2. SignedDiff(ticket[p], m_tail) = k - t
        BY <2>1, <2>2, <4>1, SignedDiffApart DEF Window
      <4>3. k - t < QueueSize
        BY <1>2, <2>2, <4>2 DEF Full
      <4>4. QED
        BY <2>2, <4>3
    <3>2. CASE k < t
      BY <2>2, <3>2, QueueBaseAssumption
    <3>3. QED
      BY <2>2, <3>1, <3>2
  <2>4. QED
    BY <1>2, <2>1, <2>3 DEF PushTicketAt
<1>5. ASSUME NEW q \in Producers, pc'[q] \in {"check", "advance"} PROVE PushTicketAt(q, h, t)'
  <2>1. CASE q = p
    BY <1>4, <2>1
  <2>2. CASE q # p
    BY <1>1, <1>2, <1>5, <2>2, PushTicketKeeps DEF Window
  <2>3. QED
    BY <2>1, <2>2
<1>6. ASSUME NEW c \in Consumers PROVE pc'[c] = pc[c] /\ ticket'[c] = ticket[c]
  BY <1>1, <1>2
<1>7. QED
  BY <1>2, <1>3, <1>5, <1>6 DEF Window, counterVars

(* A producer whose compare-exchange succeeds has read the latest head: a  *)
(* count further back would be a whole wrap older.                         *)
LEMMA WindowAdvance ==
  ASSUME IInv, FewPushes, NEW h \in Nat, NEW t \in Nat, Window(h, t), NEW p \in Producers,
         pc[p] = "advance", m_head = ticket[p], m_head' = Inc(ticket[p]),
         pc' = [pc EXCEPT ![p] = "slot"], UNCHANGED <<ticket, m_tail, historyVars>>
  PROVE  Window(h + 1, t)'
<1>1. p \in Threads /\ p \notin Consumers /\ Producers \subseteq Threads /\ Consumers \subseteq Threads
  BY QueueBaseAssumption DEF Threads
<1>2. pc'[p] = "slot" /\ \A u \in Threads : u # p => pc'[u] = pc[u]
  BY <1>1 DEF IInv, TypeOK
<1>3. Cardinality(Taken') = Cardinality(Taken) + 1 /\ Cardinality(Taken) \in Nat
      /\ Cardinality(Taken) < CounterMod
  BY TakenAdvance, TakenRoom
<1>4. Start \in Nat /\ QueueSize \in Nat /\ CounterMod \in Nat \ {0}
  BY QueueBaseAssumption DEF Counters
<1>5. PICK k \in Start .. h : ticket[p] = k % CounterMod /\ k < t + QueueSize
  BY DEF Window, PushTicketAt
<1>6. k = h
  <2>1. 0 <= h - k /\ h - k < CounterMod /\ h \in Int /\ k \in Int
    BY <1>3, <1>4 DEF Window
  <2>2. h % CounterMod = k % CounterMod
    BY <1>5 DEF Window
  <2>3. h % CounterMod = k % CounterMod => h = k
    BY <1>4, <2>1, ModApart, Zenon
  <2>4. QED
    BY <2>2, <2>3
<1>7. m_head' = (h + 1) % CounterMod
  <2>1. h \in Int /\ 1 \in Int
    OBVIOUS
  <2>2. ((h % CounterMod) + 1) % CounterMod = (h + 1) % CounterMod
    BY <1>4, <2>1, ModOfSum, Zenon
  <2>3. QED
    BY <1>5, <1>6, <2>2 DEF Inc
<1>8. t <= h + 1 /\ h + 1 <= t + QueueSize /\ Start <= h + 1 /\ h + 1 <= Start + Cardinality(Taken')
  BY <1>3, <1>4, <1>5, <1>6 DEF Window
<1>9. ASSUME NEW q \in Producers, pc'[q] \in {"check", "advance"} PROVE PushTicketAt(q, h + 1, t)'
  <2>1. q # p /\ pc'[q] = pc[q] /\ ticket'[q] = ticket[q]
    BY <1>1, <1>2, <1>9
  <2>2. PushTicketAt(q, h, t)
    BY <1>9, <2>1 DEF Window
  <2>3. h + 1 \in Nat /\ h <= h + 1 /\ t <= t
    OBVIOUS
  <2>4. QED
    BY <2>1, <2>2, <2>3, PushTicketKeeps
<1>10. ASSUME NEW c \in Consumers, pc'[c] \in {"check", "advance"}
       PROVE  ticket'[c] = m_tail' /\ (pc'[c] = "advance" => t < h + 1)
  BY <1>1, <1>2, <1>10 DEF Window
<1>11. QED
  BY <1>7, <1>8, <1>9, <1>10 DEF Window

(* The threads that hold a ticket still hold it, and nobody else does. *)
SameTickets ==
  \A u \in Threads : /\ pc'[u] = "slot" <=> pc[u] = "slot"
                     /\ pc[u] = "slot" => ticket'[u] = ticket[u]

(* Thread u takes the ticket n. *)
Takes(u, n) ==
  pc[u] = "advance" /\ ticket[u] = n /\ pc' = [pc EXCEPT ![u] = "slot"] /\ UNCHANGED ticket

LEMMA WindowPush ==
  ASSUME IInv, FewPushes, NEW h \in Nat, NEW t \in Nat, Window(h, t), NEW p \in Producers,
         TryPushStep(p)
  PROVE  /\ UNCHANGED historyVars
         /\ \/ Window(h, t)' /\ SameTickets
            \/ Window(h + 1, t)' /\ Takes(p, m_head)
<1>1. p \in Threads /\ Producers \subseteq Threads
  BY DEF Threads
<1>2. ticket \in [Threads -> Counters] /\ pc \in [Threads -> {"idle", "check", "advance", "slot"}]
  BY DEF IInv, TypeOK
<1>3. CASE TryPushLoad(p)
  <2>1. /\ pc[p] = "idle" /\ pc' = [pc EXCEPT ![p] = "check"]
        /\ ticket' = [ticket EXCEPT ![p] = m_head] /\ UNCHANGED <<counterVars, historyVars>>
    BY <1>3 DEF TryPushLoad
  <2>2. SameTickets
    BY <1>1, <1>2, <2>1 DEF SameTickets
  <2>3. QED
    BY <2>1, <2>2, WindowLoad
<1>4. CASE TryPushFull(p)
  <2>1. /\ pc[p] = "check" /\ pc' = [pc EXCEPT ![p] = "idle"]
        /\ UNCHANGED <<counterVars, ticket, historyVars>>
    BY <1>4 DEF TryPushFull
  <2>2. SameTickets
    BY <1>1, <1>2, <2>1 DEF SameTickets
  <2>3. Taken' = Taken
    BY <1>1, <2>1, <2>2, TakenSame DEF SameTickets
  <2>4. QED
    BY <1>1, <2>1, <2>2, <2>3, WindowReturn
<1>5. CASE TryPushRoom(p)
  <2>1. /\ pc[p] = "check" /\ pc' = [pc EXCEPT ![p] = "advance"]
        /\ UNCHANGED <<counterVars, ticket, historyVars>>
    BY <1>5 DEF TryPushRoom
  <2>2. SameTickets
    BY <1>1, <1>2, <2>1 DEF SameTickets
  <2>3. QED
    BY <1>5, <2>1, <2>2, WindowRoom
<1>6. CASE AdvanceHead(p)
  <2>1. pc[p] = "advance" /\ UNCHANGED <<m_tail, historyVars>>
    BY <1>6 DEF AdvanceHead
  <2>2. CASE m_head = ticket[p]
    <3>1. m_head' = Inc(ticket[p]) /\ pc' = [pc EXCEPT ![p] = "slot"] /\ UNCHANGED ticket
      BY <1>6, <2>2, Zenon DEF AdvanceHead
    <3>2. Window(h + 1, t)'
      BY <2>1, <2>2, <3>1, WindowAdvance
    <3>3. QED
      BY <2>1, <2>2, <3>1, <3>2 DEF Takes
  <2>3. CASE m_head # ticket[p]
    <3>1. ticket' = [ticket EXCEPT ![p] = m_head] /\ pc' = [pc EXCEPT ![p] = "check"] /\ UNCHANGED m_head
      BY <1>6, <2>3, MPSCAssumption, Zenon DEF AdvanceHead
    <3>2. UNCHANGED <<counterVars, historyVars>>
      BY <2>1, <3>1 DEF counterVars
    <3>3. SameTickets
      BY <1>1, <1>2, <2>1, <3>1 DEF SameTickets
    <3>4. QED
      BY <2>1, <3>1, <3>2, <3>3, WindowLoad
  <2>4. QED
    BY <2>2, <2>3
<1>7. QED
  BY <1>3, <1>4, <1>5, <1>6 DEF TryPushStep

(* The only consumer moves on to where x, with the ticket it will use. *)
LEMMA WindowPopMove ==
  ASSUME IInv, NEW h \in Nat, NEW t \in Nat, Window(h, t), NEW c \in Consumers,
         NEW x \in {"check", "advance"}, pc' = [pc EXCEPT ![c] = x],
         ticket' = [ticket EXCEPT ![c] = m_tail], UNCHANGED <<counterVars, historyVars>>,
         x = "advance" => t < h
  PROVE  Window(h, t)'
<1>1. c \in Threads /\ c \notin Producers /\ Producers \subseteq Threads /\ \A d \in Consumers : d = c
  BY QueueBaseAssumption, MPSCAssumption DEF Threads
<1>2. /\ pc'[c] = x /\ ticket'[c] = m_tail
      /\ \A q \in Producers : pc'[q] = pc[q] /\ ticket'[q] = ticket[q]
  BY <1>1 DEF IInv, TypeOK
<1>3. Taken' = Taken
  BY <1>2, TakenSame
<1>4. ASSUME NEW q \in Producers, pc'[q] \in {"check", "advance"} PROVE PushTicketAt(q, h, t)'
  BY <1>2, <1>4, PushTicketKeeps DEF Window
<1>5. QED
  BY <1>1, <1>2, <1>3, <1>4 DEF Window, counterVars

LEMMA WindowPop ==
  ASSUME IInv, NEW h \in Nat, NEW t \in Nat, Window(h, t), NEW c \in Consumers, TryPopStep(c)
  PROVE  /\ UNCHANGED historyVars
         /\ \/ Window(h, t)' /\ SameTickets
            \/ Window(h, t + 1)' /\ Takes(c, m_tail)
<1>1. c \in Threads /\ c \notin Producers /\ Producers \subseteq Threads /\ \A d \in Consumers : d = c
  BY QueueBaseAssumption, MPSCAssumption DEF Threads
<1>2. ticket \in [Threads -> Counters] /\ pc \in [Threads -> {"idle", "check", "advance", "slot"}]
  BY DEF IInv, TypeOK
<1>3. CASE TryPopLoad(c)
  <2>1. /\ pc[c] = "idle" /\ pc' = [pc EXCEPT ![c] = "check"]
        /\ ticket' = [ticket EXCEPT ![c] = m_tail] /\ UNCHANGED <<counterVars, historyVars>>
    BY <1>3 DEF TryPopLoad
  <2>2. SameTickets
    BY <1>1, <1>2, <2>1 DEF SameTickets
  <2>3. QED
    BY <2>1, <2>2, WindowPopMove
<1>4. CASE TryPopEmpty(c)
  <2>1. /\ pc[c] = "check" /\ pc' = [pc EXCEPT ![c] = "idle"]
        /\ UNCHANGED <<counterVars, ticket, historyVars>>
    BY <1>4 DEF TryPopEmpty
  <2>2. SameTickets
    BY <1>1, <1>2, <2>1 DEF SameTickets
  <2>3. Taken' = Taken
    BY <1>1, <2>1, <2>2, TakenSame DEF SameTickets
  <2>4. QED
    BY <1>1, <2>1, <2>2, <2>3, WindowReturn
<1>5. CASE TryPopAny(c)
  <2>1. /\ pc[c] = "check" /\ ~Empty(ticket[c]) /\ pc' = [pc EXCEPT ![c] = "advance"]
        /\ UNCHANGED <<counterVars, ticket, historyVars>>
    BY <1>5 DEF TryPopAny
  <2>2. ticket[c] = m_tail
    BY <2>1 DEF Window
  <2>3. t < h
    <3>1. QueueSize \in Nat
      BY QueueBaseAssumption
    <3>2. SignedDiff(m_head, m_tail) = h - t
      BY <3>1, SignedDiffApart DEF Window
    <3>3. QED
      BY <2>1, <2>2, <3>2 DEF Empty
  <2>4. ticket' = [ticket EXCEPT ![c] = m_tail]
    BY <1>1, <1>2, <2>1, <2>2
  <2>5. SameTickets
    BY <1>1, <1>2, <2>1 DEF SameTickets
  <2>6. QED
    BY <2>1, <2>3, <2>4, <2>5, WindowPopMove
<1>6. CASE AdvanceTail(c)
  <2>1. pc[c] = "advance" /\ UNCHANGED <<m_head, historyVars>>
    BY <1>6 DEF AdvanceTail
  <2>2. ticket[c] = m_tail /\ t < h
    BY <2>1 DEF Window
  <2>3. m_tail' = Inc(m_tail) /\ pc' = [pc EXCEPT ![c] = "slot"] /\ UNCHANGED ticket
    BY <1>6, <2>2, Zenon DEF AdvanceTail
  <2>4. pc'[c] = "slot" /\ \A q \in Producers : pc'[q] = pc[q]
    BY <1>1, <1>2, <2>3
  <2>5. Taken' = Taken
    BY <2>1, <2>4, TakenSame
  <2>6. m_tail' = (t + 1) % CounterMod
    <3>1. t \in Int /\ 1 \in Int /\ CounterMod \in Nat \ {0}
      BY QueueBaseAssumption
    <3>2. ((t % CounterMod) + 1) % CounterMod = (t + 1) % CounterMod
      BY <3>1, ModOfSum, Zenon
    <3>3. QED
      BY <2>3, <3>2 DEF Inc, Window
  <2>7. t + 1 \in Nat /\ t <= t + 1 /\ t + 1 <= h /\ h <= h
    BY <2>2
  <2>8. ASSUME NEW q \in Producers, pc'[q] \in {"check", "advance"} PROVE PushTicketAt(q, h, t + 1)'
    <3>1. PushTicketAt(q, h, t) /\ pc'[q] = pc[q] /\ ticket'[q] = ticket[q]
      BY <2>3, <2>4, <2>8 DEF Window
    <3>2. QED
      BY <2>7, <3>1, PushTicketKeeps
  <2>9. h <= t + 1 + QueueSize
    BY QueueBaseAssumption DEF Window
  <2>10. Window(h, t + 1)'
    BY <1>1, <2>1, <2>4, <2>5, <2>6, <2>7, <2>8, <2>9 DEF Window
  <2>11. QED
    BY <2>1, <2>2, <2>3, <2>10 DEF Takes
<1>7. QED
  BY <1>3, <1>4, <1>5, <1>6 DEF TryPopStep

(* What the wrapper does to the queue: it uses try_push and try_pop only.  *)
LEMMA WrapperTries ==
  ASSUME MPSCNext
  PROVE  \/ \E p \in Producers : (TryPushStep(p) /\ UNCHANGED <<m_elements, lapped>>) \/ PushDone(p)
         \/ \E c \in Consumers : ((TryPopStep(c) /\ UNCHANGED m_elements) \/ do_pop(c)) /\ UNCHANGED lapped
         \/ UNCHANGED <<vars, lapped>>
<1>1. ASSUME NEW p \in Producers, push(p)
      PROVE  \/ TryPushStep(p) /\ UNCHANGED <<m_elements, lapped>>
             \/ PushDone(p)
             \/ UNCHANGED <<vars, lapped>>
  BY <1>1 DEF waitVars, push, PushTry, PushLook, PushLower, PushNotify
<1>2. ASSUME NEW c \in Consumers, pop(c) \/ SpuriousWake(c)
      PROVE  \/ ((TryPopStep(c) /\ UNCHANGED m_elements) \/ do_pop(c)) /\ UNCHANGED lapped
             \/ UNCHANGED <<vars, lapped>>
  BY <1>2 DEF waitVars, pop, PopTry, PopDone, PopEmpty, PopRaise, PopWait, SpuriousWake, TryPopStep
<1>3. QED
  BY <1>1, <1>2 DEF MPSCNext

LEMMA WindowStep ==
  ASSUME IInv, FewPushes, Windowed, [MPSCNext]_mpscVars
  PROVE  Windowed'
<1>1. PICK h \in Nat, t \in Nat : Window(h, t)
  BY DEF Windowed
<1>2. ASSUME NEW p \in Producers, TryPushStep(p) PROVE Windowed'
  <2>1. Window(h, t)' \/ Window(h + 1, t)'
    BY <1>1, <1>2, WindowPush
  <2>2. h + 1 \in Nat
    OBVIOUS
  <2>3. QED
    BY <2>1, <2>2 DEF Windowed
<1>3. ASSUME NEW p \in Producers, do_push(p) PROVE Windowed'
  <2>1. Taken' = Taken /\ p \in Threads
    BY <1>3, TakenPush DEF Threads
  <2>2. pc' = [pc EXCEPT ![p] = "idle"] /\ UNCHANGED <<counterVars, ticket>>
    BY <1>3 DEF do_push
  <2>3. QED
    BY <1>1, <2>1, <2>2, WindowReturn DEF Windowed
<1>4. ASSUME NEW c \in Consumers, TryPopStep(c) PROVE Windowed'
  <2>1. Window(h, t)' \/ Window(h, t + 1)'
    BY <1>1, <1>4, WindowPop
  <2>2. t + 1 \in Nat
    OBVIOUS
  <2>3. QED
    BY <2>1, <2>2 DEF Windowed
<1>5. ASSUME NEW c \in Consumers, do_pop(c) PROVE Windowed'
  <2>1. c \in Threads /\ c \notin Producers /\ Producers \subseteq Threads
    BY QueueBaseAssumption DEF Threads
  <2>2. pc' = [pc EXCEPT ![c] = "idle"] /\ UNCHANGED <<counterVars, ticket, pushed>>
    BY <1>5 DEF do_pop
  <2>3. \A q \in Producers : pc'[q] = pc[q]
    BY <2>1, <2>2 DEF IInv, TypeOK
  <2>4. Taken' = Taken
    BY <2>2, <2>3 DEF Taken, Sent, Pending
  <2>5. QED
    BY <1>1, <2>1, <2>2, <2>4, WindowReturn DEF Windowed
<1>6. CASE UNCHANGED vars
  <2>1. Taken' = Taken
    BY <1>6 DEF vars, Taken, Sent, Pending
  <2>2. Window(h, t)'
    BY <1>1, <1>6, <2>1 DEF vars, Window, PushTicketAt
  <2>3. QED
    BY <2>2 DEF Windowed
<1>7. CASE UNCHANGED mpscVars
  BY <1>6, <1>7 DEF mpscVars
<1>8. QED
  BY <1>2, <1>3, <1>4, <1>5, <1>6, <1>7, WrapperTries DEF PushDone

LEMMA WindowInit == MPSCInit => Windowed
<1> SUFFICES ASSUME MPSCInit PROVE Windowed
  OBVIOUS
<1>1. /\ m_head = Start /\ m_tail = Start /\ pc = [u \in Threads |-> "idle"]
      /\ pushed = [p \in Producers |-> 0]
  BY DEF MPSCInit, Init, QueueBaseInit
<1>2. Start \in Nat /\ Start % CounterMod = Start /\ QueueSize \in Nat
  BY QueueBaseAssumption DEF Counters
<1>3. Taken = {}
  <2>1. Sent = {}
    BY <1>1, QueueBaseAssumption DEF Sent, Messages
  <2>2. QED
    BY <1>1, <2>1 DEF Taken, Threads
<1>4. Cardinality(Taken) = 0
  BY <1>3, FS_EmptySet
<1>5. \A u \in Producers \cup Consumers : pc[u] = "idle"
  BY <1>1 DEF Threads
<1>6. Window(Start, Start)
  BY <1>1, <1>2, <1>4, <1>5 DEF Window
<1>7. QED
  BY <1>2, <1>6 DEF Windowed

(* try_push and try_pop keep the two counters of the transfer queue within *)
(* its size of each other, across the wrap of the 32-bit counters and      *)
(* however stale the head or tail that a thread compares with: a push      *)
(* never overruns the ring and a pop never overtakes the pushes.  The      *)
(* hypothesis cannot be dropped: a producer that sleeps between its check  *)
(* and its compare-exchange while 2^32 other pushes go by finds m_head     *)
(* back at the value it read and takes a ticket for a full ring.           *)
THEOREM MPSCTicketWindow ==
  ASSUME FewPushes
  PROVE  MPSCSpec => []TicketWindow
<1>1. MPSCInit => IInv /\ Windowed
  BY InitInv, WindowInit DEF MPSCInit
<1>2. IInv /\ Windowed /\ [MPSCNext]_mpscVars => (IInv /\ Windowed)'
  BY WrapperStep, NextInv, WindowStep
<1>3. QED
  BY <1>1, <1>2, WindowShows, PTL DEF MPSCSpec

-----------------------------------------------------------------------------
(* The order of delivery.  f numbers the elements by the tickets of their  *)
(* pushes, which are counted without wrapping.                             *)

(* The tickets from Start to h - 1 belong to one element each, and those   *)
(* of one producer's elements rise.                                        *)
Numbered(h, f) ==
  /\ \A m \in Taken : f[m] \in Start .. h - 1
  /\ \A n \in Start .. h - 1 : \E m \in Taken : f[m] = n
  /\ \A m, k \in Taken : f[m] = f[k] => m = k
  /\ \A m, k \in Taken : m[1] = k[1] /\ m[2] < k[2] => f[m] < f[k]

PushesHold(f) ==
  \A p \in Producers : pc[p] = "slot" => ticket[p] = f[Pending(p)] % CounterMod

(* The consumer has popped the elements in the order of their tickets, and *)
(* holds the next ticket.                                                  *)
PopsFollow(t, f) ==
  /\ Consumers = {} => t = Start
  /\ \A c \in Consumers :
       /\ t = Start + Len(recv[c]) + IF pc[c] = "slot" THEN 1 ELSE 0
       /\ \A i \in DOMAIN recv[c] : f[recv[c][i]] = Start + i - 1
       /\ pc[c] = "slot" => ticket[c] = (Start + Len(recv[c])) % CounterMod

(* An element lies in the slot of its ticket, and the pushes that wait for *)
(* that slot come after it.                                                *)
SlotsFollow(f) ==
  \A s \in Slots : m_elements[s] # NIL =>
    /\ s = SlotOf(f[m_elements[s]] % CounterMod)
    /\ \A q \in Producers : pc[q] = "slot" /\ SlotOf(ticket[q]) = s =>
         f[m_elements[s]] < f[Pending(q)]

Line(h, t, f) ==
  Window(h, t) /\ Numbered(h, f) /\ PushesHold(f) /\ PopsFollow(t, f) /\ SlotsFollow(f)

(* From f to g the elements keep their tickets, and new ones come last. *)
Renumbers(f, g) ==
  /\ \A m \in Taken : g[m] = f[m]
  /\ \A m \in Taken', k \in Taken : m \notin Taken => g[k] < g[m]

Lined == lapped \/ \E h, t \in Nat, f \in [Messages -> Nat] : Line(h, t, f)

(* Elements that have been popped are among the numbered ones. *)
LEMMA PoppedTaken ==
  ASSUME IInv, NEW c \in Consumers, NEW i \in DOMAIN recv[c]
  PROVE  recv[c][i] \in Delivered /\ recv[c][i] \in Taken
<1>1. recv[c][i] \in Messages
  BY DEF IInv, TypeOK
<1>2. recv[c][i] \in Delivered
  BY <1>1 DEF Delivered
<1>3. QED
  BY <1>2 DEF IInv, InFlight, Taken

(* An element not yet popped has a ticket that the consumer has not used.  *)
LEMMA NotYetPopped ==
  ASSUME IInv, NEW h \in Nat, NEW t \in Nat, NEW f \in [Messages -> Nat],
         Numbered(h, f), PopsFollow(t, f), NEW m \in Taken, m \notin Delivered,
         NEW c \in Consumers
  PROVE  f[m] >= Start + Len(recv[c])
<1> SUFFICES ASSUME f[m] < Start + Len(recv[c]) PROVE FALSE
  <2>1. f[m] \in Nat /\ Start \in Nat /\ Len(recv[c]) \in Nat
    BY TakenMessages, QueueBaseAssumption DEF Counters, IInv, TypeOK
  <2>2. QED
    BY <2>1
<1>1. Start \in Nat /\ f[m] \in Start .. h - 1
  BY QueueBaseAssumption DEF Numbered, Counters
<1>2. recv[c] \in Seq(Messages)
  BY DEF IInv, TypeOK
<1> DEFINE i == f[m] - Start + 1
<1>3. i \in DOMAIN recv[c] /\ Start + i - 1 = f[m]
  <2> DEFINE n == Len(recv[c])
  <2>1. n \in Nat /\ DOMAIN recv[c] = 1 .. n
    BY <1>2
  <2> HIDE DEF n
  <2>2. f[m] \in Int /\ f[m] >= Start /\ f[m] < Start + n
    BY <1>1 DEF n
  <2>3. i \in 1 .. n /\ Start + i - 1 = f[m]
    BY <1>1, <2>1, <2>2
  <2>4. QED
    BY <2>1, <2>3
<1>4. f[recv[c][i]] = Start + i - 1
  BY <1>3 DEF PopsFollow
<1> HIDE DEF i
<1>5. recv[c][i] \in Delivered /\ recv[c][i] \in Taken
  BY <1>3, PoppedTaken
<1>6. recv[c][i] = m
  BY <1>3, <1>4, <1>5 DEF Numbered
<1>7. QED
  BY <1>5, <1>6

LEMMA NotBehindTail ==
  ASSUME IInv, NEW h \in Nat, NEW t \in Nat, NEW f \in [Messages -> Nat],
         Numbered(h, f), PopsFollow(t, f), NEW m \in Taken, m \notin Delivered
  PROVE  f[m] >= t - 1
<1>1. Start \in Nat /\ f[m] \in Start .. h - 1
  BY QueueBaseAssumption DEF Numbered, Counters
<1>2. CASE Consumers = {}
  BY <1>1, <1>2 DEF PopsFollow
<1>3. ASSUME NEW c \in Consumers PROVE f[m] >= t - 1
  <2>1. Len(recv[c]) \in Nat
    BY DEF IInv, TypeOK
  <2>2. f[m] >= Start + Len(recv[c])
    BY NotYetPopped
  <2>3. t = Start + Len(recv[c]) + IF pc[c] = "slot" THEN 1 ELSE 0
    BY DEF PopsFollow
  <2>4. t <= Start + Len(recv[c]) + 1
    BY <1>1, <2>1, <2>3
  <2>5. QED
    BY <1>1, <2>1, <2>2, <2>4
<1>4. QED
  BY <1>2, <1>3

(* Steps that move no ticket and no element. *)
LEMMA LineSame ==
  ASSUME NEW h \in Nat, NEW t \in Nat, NEW f \in [Messages -> Nat], Line(h, t, f),
         Window(h, t)', SameTickets, UNCHANGED <<historyVars, m_elements>>
  PROVE  Line(h, t, f)'
<1>1. \A q \in Producers : (pc'[q] = "slot" <=> pc[q] = "slot") /\ (pc[q] = "slot" => ticket'[q] = ticket[q])
  BY DEF SameTickets, Threads
<1>2. \A c \in Consumers : (pc'[c] = "slot" <=> pc[c] = "slot") /\ (pc[c] = "slot" => ticket'[c] = ticket[c])
  BY DEF SameTickets, Threads
<1>3. Taken' = Taken
  BY <1>1, TakenSame
<1>4. \A q \in Producers : Pending(q)' = Pending(q)
  BY DEF historyVars, Pending
<1>5. Numbered(h, f)'
  BY <1>3 DEF Line, Numbered
<1>6. PushesHold(f)'
  BY <1>1, <1>4 DEF Line, PushesHold
<1>7. PopsFollow(t, f)'
  BY <1>2 DEF Line, PopsFollow, historyVars
<1>8. SlotsFollow(f)'
  BY <1>1, <1>4 DEF Line, SlotsFollow
<1>9. QED
  BY <1>5, <1>6, <1>7, <1>8 DEF Line

(* A push takes the next ticket, which is the highest. *)
LEMMA LineAdvance ==
  ASSUME IInv, FewPushes, NEW h \in Nat, NEW t \in Nat, NEW f \in [Messages -> Nat], Line(h, t, f),
         NEW p \in Producers, Takes(p, m_head), Window(h + 1, t)',
         UNCHANGED <<historyVars, m_elements>>
  PROVE  \E g \in [Messages -> Nat] : Line(h + 1, t, g)' /\ Renumbers(f, g)
<1> DEFINE e == Pending(p)
<1>1. p \in Threads /\ p \notin Consumers /\ Producers \subseteq Threads /\ Consumers \subseteq Threads
  BY QueueBaseAssumption DEF Threads
<1>2. /\ pc[p] = "advance" /\ ticket[p] = m_head /\ pc' = [pc EXCEPT ![p] = "slot"] /\ UNCHANGED ticket
      /\ pc'[p] = "slot" /\ \A u \in Threads : u # p => pc'[u] = pc[u]
  BY <1>1 DEF Takes, IInv, TypeOK
<1>3. Taken' = Taken \cup {e} /\ e \notin Taken
  BY <1>2, TakenAdvance
<1>4. e \in Messages /\ \A q \in Producers : Pending(q) = e => q = p
  BY <1>2, PendingApart
<1>5. Taken \subseteq Messages
  BY TakenMessages
<1>6. PICK g \in [Messages -> Nat] : g[e] = h /\ \A m \in Taken : g[m] = f[m]
  <2> DEFINE f1 == [f EXCEPT ![e] = h]
  <2>1. f1 \in [Messages -> Nat] /\ f1[e] = h /\ \A m \in Taken : f1[m] = f[m]
    BY <1>3, <1>4, <1>5
  <2>2. QED
    BY <2>1
<1>7. \A q \in Producers : Pending(q)' = Pending(q)
  BY DEF historyVars, Pending
<1>8. \A q \in Producers : pc[q] = "slot" => Pending(q) \in Taken
  BY TakenMember
<1>9. Start \in Nat /\ Start <= h
  BY QueueBaseAssumption DEF Line, Window, Counters
<1>10. \A m \in Taken : f[m] \in Start .. h - 1
  BY DEF Line, Numbered
<1>11. ASSUME NEW k \in Taken, k[1] = p PROVE k[2] < e[2]
  <2>1. k \in Sent
    <3>1. \A q \in Producers : pc[q] = "slot" => q # p
      BY <1>2
    <3>2. \A q \in Producers : k = Pending(q) => q = p
      BY <1>11 DEF Pending
    <3>3. QED
      BY <3>1, <3>2, TakenMember
  <2>2. k[2] <= pushed[p] /\ pushed[p] \in Nat /\ k[2] \in Nat
    BY <1>11, <2>1, QueueBaseAssumption DEF Sent, Messages, IInv, TypeOK
  <2>3. e[2] = pushed[p] + 1
    BY DEF Pending
  <2>4. QED
    BY <2>2, <2>3
<1>12. e[1] = p
  BY DEF Pending
<1> HIDE DEF e
<1>13. Numbered(h + 1, g)'
  <2>1. \A m \in Taken' : g[m] \in Start .. h
    BY <1>3, <1>6, <1>9, <1>10
  <2>2. \A n \in Start .. h : \E m \in Taken' : g[m] = n
    <3>1. \A n \in Start .. h - 1 : \E m \in Taken : g[m] = n
      BY <1>6 DEF Line, Numbered
    <3>2. \A n \in Start .. h : n = h \/ n \in Start .. h - 1
      BY <1>9
    <3>3. QED
      BY <1>3, <1>6, <3>1, <3>2
  <2>3. \A m, k \in Taken' : g[m] = g[k] => m = k
    <3>1. \A m \in Taken : g[m] # h
      BY <1>6, <1>9, <1>10
    <3>2. \A m, k \in Taken : g[m] = g[k] => m = k
      BY <1>6 DEF Line, Numbered
    <3>3. QED
      BY <1>3, <1>6, <3>1, <3>2
  <2>4. ASSUME NEW m \in Taken', NEW k \in Taken', m[1] = k[1], m[2] < k[2] PROVE g[m] < g[k]
    <3>1. CASE m \in Taken /\ k \in Taken
      BY <1>6, <2>4, <3>1 DEF Line, Numbered
    <3>2. CASE k = e
      <4>1. m # e
        <5>1. e[2] \in Nat
          BY <1>4 DEF Messages
        <5>2. QED
          BY <2>4, <3>2, <5>1
      <4>2. m \in Taken
        BY <1>3, <4>1
      <4>3. QED
        BY <1>6, <1>9, <1>10, <3>2, <4>2
    <3>3. CASE m = e /\ k \in Taken
      <4>1. k[2] < e[2]
        BY <1>11, <1>12, <2>4, <3>3
      <4>2. k[2] \in Nat /\ e[2] \in Nat
        BY <1>4, <1>5, <3>3 DEF Messages
      <4>3. QED
        BY <2>4, <3>3, <4>1, <4>2
    <3>4. QED
      BY <1>3, <3>1, <3>2, <3>3
  <2>5. h + 1 - 1 = h
    OBVIOUS
  <2>6. QED
    BY <2>1, <2>2, <2>3, <2>4, <2>5 DEF Numbered
<1>14. PushesHold(g)'
  <2>1. ASSUME NEW q \in Producers, pc'[q] = "slot" PROVE ticket'[q] = g[Pending(q)] % CounterMod
    <3>1. CASE q = p
      BY <1>2, <1>6, <3>1 DEF Line, Window, e
    <3>2. CASE q # p
      BY <1>1, <1>2, <1>6, <1>8, <2>1, <3>2 DEF Line, PushesHold
    <3>3. QED
      BY <3>1, <3>2
  <2>2. QED
    BY <1>7, <2>1 DEF PushesHold
<1>15. PopsFollow(t, g)'
  <2>1. \A c \in Consumers : pc'[c] = pc[c] /\ ticket'[c] = ticket[c]
    BY <1>1, <1>2
  <2>2. \A c \in Consumers : \A i \in DOMAIN recv[c] : g[recv[c][i]] = f[recv[c][i]]
    BY <1>6, PoppedTaken
  <2>3. recv' = recv
    BY DEF historyVars
  <2>4. QED
    BY <2>1, <2>2, <2>3 DEF Line, PopsFollow
<1>16. SlotsFollow(g)'
  <2>1. ASSUME NEW s \in Slots, m_elements[s] # NIL
        PROVE  /\ s = SlotOf(g[m_elements[s]] % CounterMod)
               /\ \A q \in Producers : pc'[q] = "slot" /\ SlotOf(ticket[q]) = s =>
                    g[m_elements[s]] < g[Pending(q)]
    <3>1. m_elements[s] \in Taken
      BY <2>1 DEF IInv, InFlight, Taken
    <3>2. g[m_elements[s]] = f[m_elements[s]] /\ f[m_elements[s]] < h
      BY <1>6, <1>9, <1>10, <3>1
    <3>3. ASSUME NEW q \in Producers, pc'[q] = "slot", SlotOf(ticket[q]) = s
          PROVE  g[m_elements[s]] < g[Pending(q)]
      <4>1. CASE q = p
        BY <1>6, <3>2, <4>1 DEF e
      <4>2. CASE q # p
        BY <1>1, <1>2, <1>6, <1>8, <2>1, <3>2, <3>3, <4>2 DEF Line, SlotsFollow
      <4>3. QED
        BY <4>1, <4>2
    <3>4. QED
      BY <2>1, <3>2, <3>3 DEF Line, SlotsFollow
  <2>2. QED
    BY <1>2, <1>7, <2>1 DEF SlotsFollow
<1>17. Renumbers(f, g)
  BY <1>3, <1>6, <1>9, <1>10 DEF Renumbers
<1>18. QED
  BY <1>6, <1>13, <1>14, <1>15, <1>16, <1>17 DEF Line

(* The consumer takes the next ticket. *)
LEMMA LineTail ==
  ASSUME IInv, NEW h \in Nat, NEW t \in Nat, NEW f \in [Messages -> Nat], Line(h, t, f),
         NEW c \in Consumers, Takes(c, m_tail), Window(h, t + 1)',
         UNCHANGED <<historyVars, m_elements>>
  PROVE  Line(h, t + 1, f)'
<1>1. c \in Threads /\ c \notin Producers /\ Producers \subseteq Threads /\ \A d \in Consumers : d = c
  BY QueueBaseAssumption, MPSCAssumption DEF Threads
<1>2. /\ pc[c] = "advance" /\ ticket[c] = m_tail /\ UNCHANGED ticket
      /\ pc'[c] = "slot" /\ \A q \in Producers : pc'[q] = pc[q]
  BY <1>1 DEF Takes, IInv, TypeOK
<1>3. Taken' = Taken /\ \A q \in Producers : Pending(q)' = Pending(q)
  BY <1>2, TakenSame DEF historyVars, Pending
<1>4. Numbered(h, f)'
  BY <1>3 DEF Line, Numbered
<1>5. PushesHold(f)'
  BY <1>2, <1>3 DEF Line, PushesHold
<1>6. SlotsFollow(f)'
  BY <1>2, <1>3 DEF Line, SlotsFollow
<1>7. PopsFollow(t + 1, f)'
  <2>1. t = Start + Len(recv[c]) /\ m_tail = t % CounterMod
    <3>1. t = Start + Len(recv[c]) + 0
      BY <1>2 DEF Line, PopsFollow
    <3>2. Start \in Nat /\ Len(recv[c]) \in Nat
      BY QueueBaseAssumption DEF IInv, TypeOK, Counters
    <3>3. QED
      BY <3>1, <3>2 DEF Line, Window
  <2>2. recv' = recv
    BY DEF historyVars
  <2>3. QED
    BY <1>1, <1>2, <2>1, <2>2 DEF Line, PopsFollow
<1>8. QED
  BY <1>4, <1>5, <1>6, <1>7 DEF Line

(* A push fills its slot.  One that comes after another waiting for the    *)
(* same slot would lap it: both tickets lie in the window, so the signed   *)
(* difference tells which is older.                                        *)
LEMMA LinePush ==
  ASSUME IInv, NEW h \in Nat, NEW t \in Nat, NEW f \in [Messages -> Nat], Line(h, t, f),
         NEW p \in Producers, PushDone(p), ~lapped'
  PROVE  Line(h, t, f)'
<1> DEFINE s == SlotOf(ticket[p])
           e == Pending(p)
<1>1. p \in Threads /\ p \notin Consumers /\ Producers \subseteq Threads /\ Consumers \subseteq Threads
  BY QueueBaseAssumption DEF Threads
<1>2. /\ pc[p] = "slot" /\ m_elements[s] = NIL /\ m_elements' = [m_elements EXCEPT ![s] = e]
      /\ pushed' = [pushed EXCEPT ![p] = @ + 1] /\ pc' = [pc EXCEPT ![p] = "idle"]
      /\ UNCHANGED <<counterVars, ticket, recv>> /\ do_push(p)
  BY DEF PushDone, do_push
<1>3. /\ pc'[p] = "idle" /\ \A u \in Threads : u # p => pc'[u] = pc[u]
      /\ \A q \in Producers : q # p => Pending(q)' = Pending(q)
  BY <1>1, <1>2 DEF IInv, TypeOK, Pending
<1>4. s \in Slots /\ DOMAIN m_elements = Slots
  BY <1>1, SlotType DEF IInv, TypeOK
<1>5. Taken' = Taken /\ Window(h, t)'
  BY <1>1, <1>2, TakenPush, WindowReturn DEF Line
<1>6. e \in Taken /\ e \notin Sent
  BY <1>2, PendingApart, TakenMember
<1>7. Numbered(h, f)'
  BY <1>5 DEF Line, Numbered
<1>8. PushesHold(f)'
  BY <1>1, <1>2, <1>3 DEF Line, PushesHold
<1>9. PopsFollow(t, f)'
  <2>1. \A c \in Consumers : pc'[c] = pc[c]
    BY <1>1, <1>3
  <2>2. QED
    BY <1>2, <2>1 DEF Line, PopsFollow
<1>10. s = SlotOf(f[e] % CounterMod)
  BY <1>2 DEF Line, PushesHold
<1>11. ASSUME NEW q \in Producers, q # p, pc[q] = "slot", SlotOf(ticket[q]) = s
       PROVE  f[e] < f[Pending(q)]
  <2> DEFINE k == Pending(q)
  <2>1. k \in Taken /\ k \notin Sent /\ k # e
    BY <1>2, <1>11, PendingApart, TakenMember
  <2>2. /\ f[e] \in Nat /\ f[k] \in Nat /\ f[e] # f[k] /\ f[e] \in Start .. h - 1
        /\ Start \in Nat /\ QueueSize \in Nat
    BY <1>6, <2>1, TakenMessages, QueueBaseAssumption DEF Line, Numbered, Counters
  <2>3. k \notin Delivered
    BY <2>1 DEF IInv, InFlight
  <2>4. f[k] >= t - 1
    BY <2>1, <2>3, NotBehindTail DEF Line
  <2>5. ticket[p] = f[e] % CounterMod /\ ticket[q] = f[k] % CounterMod
    BY <1>2, <1>11 DEF Line, PushesHold
  <2>6. ~(SignedDiff(ticket[p], ticket[q]) > 0)
    BY <1>11 DEF PushDone
  <2>7. ASSUME f[k] < f[e] PROVE FALSE
    <3>1. 0 <= f[e] - f[k] /\ f[e] - f[k] <= QueueSize /\ f[e] - f[k] > 0
      BY <2>2, <2>4, <2>7 DEF Line, Window
    <3>2. SignedDiff(f[e] % CounterMod, f[k] % CounterMod) = f[e] - f[k]
      BY <2>2, <3>1, SignedDiffApart
    <3>3. QED
      BY <2>5, <2>6, <3>1, <3>2
  <2>8. QED
    BY <2>2, <2>7
<1> HIDE DEF s, e
<1>12. SlotsFollow(f)'
  <2>1. ASSUME NEW r \in Slots, m_elements'[r] # NIL
        PROVE  /\ r = SlotOf(f[m_elements'[r]] % CounterMod)
               /\ \A q \in Producers : pc'[q] = "slot" /\ SlotOf(ticket[q]) = r =>
                    q # p /\ f[m_elements'[r]] < f[Pending(q)]
    <3>1. \A q \in Producers : pc'[q] = "slot" => q # p /\ pc[q] = "slot"
      BY <1>1, <1>3
    <3>2. CASE r = s
      <4>1. m_elements'[r] = e
        BY <1>2, <1>4, <3>2
      <4>2. QED
        BY <1>10, <1>11, <3>1, <3>2, <4>1
    <3>3. CASE r # s
      <4>1. m_elements'[r] = m_elements[r]
        BY <1>2, <1>4, <3>3
      <4>2. QED
        BY <2>1, <3>1, <4>1 DEF Line, SlotsFollow
    <3>4. QED
      BY <3>2, <3>3
  <2>2. QED
    BY <1>2, <1>3, <2>1 DEF SlotsFollow
<1>13. QED
  BY <1>5, <1>7, <1>8, <1>9, <1>12 DEF Line

(* The element the consumer finds in its slot is the one whose push had    *)
(* the same ticket: were it a later one, the push with that ticket would   *)
(* have its element in the slot, or still be waiting for it.               *)
LEMMA PopFinds ==
  ASSUME IInv, NEW h \in Nat, NEW t \in Nat, NEW f \in [Messages -> Nat], Line(h, t, f),
         NEW c \in Consumers, do_pop(c)
  PROVE  f[m_elements[SlotOf(ticket[c])]] = Start + Len(recv[c])
<1> DEFINE s == SlotOf(ticket[c])
           e == m_elements[s]
           n == Start + Len(recv[c])
<1>1. Start \in Nat /\ Len(recv[c]) \in Nat /\ n \in Nat
  BY QueueBaseAssumption DEF IInv, TypeOK, Counters
<1>2. s \in Slots /\ e \in Sent /\ e \notin Delivered /\ e # NIL /\ pc[c] = "slot"
  BY do_popStep DEF do_pop
<1>3. e \in Taken /\ f[e] \in Nat
  BY <1>2, TakenMessages DEF Taken
<1>4. f[e] >= n
  BY <1>2, <1>3, NotYetPopped DEF Line
<1>5. ticket[c] = n % CounterMod /\ t = n + 1
  BY <1>2 DEF Line, PopsFollow
<1>6. n \in Start .. h - 1
  BY <1>1, <1>5 DEF Line, Window
<1>7. PICK m \in Taken : f[m] = n
  BY <1>6 DEF Line, Numbered
<1>8. s = SlotOf(f[m] % CounterMod)
  BY <1>5, <1>7
<1> HIDE DEF s, e, n
<1>9. m \notin Delivered
  <2> SUFFICES ASSUME m \in Delivered PROVE FALSE
    OBVIOUS
  <2>1. PICK d \in Consumers : \E j \in DOMAIN recv[d] : recv[d][j] = m
    BY DEF Delivered
  <2>2. PICK i \in DOMAIN recv[c] : recv[c][i] = m
    BY <2>1, MPSCAssumption
  <2>3. f[m] = Start + i - 1
    BY <2>2 DEF Line, PopsFollow
  <2>4. i \in 1 .. Len(recv[c])
    BY <2>2 DEF IInv, TypeOK
  <2>5. QED
    BY <1>1, <1>7, <2>3, <2>4 DEF n
<1>10. CASE m \in Sent
  <2>1. PICK r \in Slots : m_elements[r] = m
    BY <1>9, <1>10 DEF IInv, InFlight
  <2>2. m # NIL
    BY <1>10, QueueBaseAssumption DEF Sent
  <2>3. r = s
    BY <1>8, <2>1, <2>2 DEF Line, SlotsFollow
  <2>4. QED
    BY <1>7, <2>1, <2>3 DEF e, n, s
<1>11. CASE m \notin Sent
  <2>1. PICK q \in Producers : pc[q] = "slot" /\ m = Pending(q)
    BY <1>11, TakenMember
  <2>2. SlotOf(ticket[q]) = s
    BY <1>8, <2>1 DEF Line, PushesHold
  <2>3. f[e] < f[m]
    BY <1>2, <2>1, <2>2 DEF Line, SlotsFollow, e
  <2>4. QED
    BY <1>1, <1>3, <1>4, <1>7, <2>3
<1>12. QED
  BY <1>10, <1>11

LEMMA LinePop ==
  ASSUME IInv, NEW h \in Nat, NEW t \in Nat, NEW f \in [Messages -> Nat], Line(h, t, f),
         NEW c \in Consumers, do_pop(c)
  PROVE  Line(h, t, f)'
<1> DEFINE s == SlotOf(ticket[c])
           e == m_elements[s]
<1>1. c \in Threads /\ c \notin Producers /\ Producers \subseteq Threads /\ \A d \in Consumers : d = c
  BY QueueBaseAssumption, MPSCAssumption DEF Threads
<1>2. /\ pc[c] = "slot" /\ recv' = [recv EXCEPT ![c] = Append(@, e)]
      /\ m_elements' = [m_elements EXCEPT ![s] = NIL] /\ pc' = [pc EXCEPT ![c] = "idle"]
      /\ UNCHANGED <<counterVars, ticket, pushed>>
  BY DEF do_pop
<1>3. /\ pc'[c] = "idle" /\ \A q \in Producers : pc'[q] = pc[q]
      /\ \A q \in Producers : Pending(q)' = Pending(q)
  BY <1>1, <1>2 DEF IInv, TypeOK, Pending
<1>4. s \in Slots /\ e \in Messages
  BY do_popStep
<1>5. f[e] = Start + Len(recv[c])
  BY PopFinds
<1>6. Taken' = Taken
  BY <1>2, <1>3 DEF Taken, Sent
<1>7. Window(h, t)'
  BY <1>1, <1>2, <1>6, WindowReturn DEF Line
<1>8. Numbered(h, f)'
  BY <1>6 DEF Line, Numbered
<1>9. PushesHold(f)'
  BY <1>2, <1>3 DEF Line, PushesHold
<1>10. SlotsFollow(f)'
  <2>1. \A r \in Slots : m_elements'[r] # NIL => m_elements'[r] = m_elements[r]
    BY <1>2, <1>4 DEF IInv, TypeOK
  <2>2. QED
    BY <1>2, <1>3, <2>1 DEF Line, SlotsFollow
<1> HIDE DEF s, e
<1>11. PopsFollow(t, f)'
  <2>1. recv[c] \in Seq(Messages) /\ Len(recv[c]) \in Nat /\ Start \in Nat
    BY QueueBaseAssumption DEF IInv, TypeOK, Counters
  <2>2. recv'[c] = Append(recv[c], e)
    BY <1>2 DEF IInv, TypeOK
  <2>3. /\ Len(recv'[c]) = Len(recv[c]) + 1 /\ DOMAIN recv'[c] = 1 .. Len(recv[c]) + 1
        /\ recv'[c][Len(recv[c]) + 1] = e
        /\ \A i \in 1 .. Len(recv[c]) : recv'[c][i] = recv[c][i]
    BY <1>4, <2>1, <2>2
  <2>4. t = Start + Len(recv[c]) + 1 /\ \A i \in 1 .. Len(recv[c]) : f[recv[c][i]] = Start + i - 1
    <3>1. t = Start + Len(recv[c]) + 1
      BY <1>2 DEF Line, PopsFollow
    <3>2. DOMAIN recv[c] = 1 .. Len(recv[c])
      BY <2>1
    <3>3. \A i \in DOMAIN recv[c] : f[recv[c][i]] = Start + i - 1
      BY DEF Line, PopsFollow
    <3>4. QED
      BY <3>1, <3>2, <3>3
  <2>5. \A i \in DOMAIN recv'[c] : f[recv'[c][i]] = Start + i - 1
    <3>1. \A i \in DOMAIN recv'[c] : i \in 1 .. Len(recv[c]) \/ i = Len(recv[c]) + 1
      BY <2>1, <2>3
    <3>2. Start + (Len(recv[c]) + 1) - 1 = Start + Len(recv[c])
      BY <2>1
    <3>3. QED
      BY <1>5, <2>3, <2>4, <3>1, <3>2
  <2>6. t = Start + Len(recv'[c]) + 0
    BY <2>1, <2>3, <2>4
  <2>7. QED
    BY <1>1, <1>3, <2>5, <2>6 DEF PopsFollow
<1>12. QED
  BY <1>7, <1>8, <1>9, <1>10, <1>11 DEF Line

(* Every step of the queue keeps the line, unless it laps a stalled push.  *)
LEMMA LineMoves ==
  ASSUME IInv, FewPushes, NEW h \in Nat, NEW t \in Nat, NEW f \in [Messages -> Nat], Line(h, t, f),
         [MPSCNext]_mpscVars, ~lapped'
  PROVE  \E i, j \in Nat, g \in [Messages -> Nat] : Line(i, j, g)' /\ Renumbers(f, g)
<1>1. Window(h, t) /\ h + 1 \in Nat /\ t + 1 \in Nat
  BY DEF Line
<1>2. ASSUME Taken' = Taken PROVE Renumbers(f, f)
  BY <1>2 DEF Renumbers
<1>3. ASSUME SameTickets, UNCHANGED historyVars PROVE Taken' = Taken
  BY <1>3, TakenSame DEF SameTickets, Threads
<1>4. ASSUME NEW p \in Producers, TryPushStep(p), UNCHANGED m_elements
      PROVE  \E i, j \in Nat, g \in [Messages -> Nat] : Line(i, j, g)' /\ Renumbers(f, g)
  <2>1. UNCHANGED historyVars
    BY <1>1, <1>4, WindowPush
  <2>2. CASE Window(h, t)' /\ SameTickets
    <3>1. Line(h, t, f)'
      BY <1>4, <2>1, <2>2, LineSame
    <3>2. QED
      BY <1>2, <1>3, <2>1, <2>2, <3>1
  <2>3. CASE Window(h + 1, t)' /\ Takes(p, m_head)
    <3>1. PICK g \in [Messages -> Nat] : Line(h + 1, t, g)' /\ Renumbers(f, g)
      BY <1>4, <2>1, <2>3, LineAdvance
    <3>2. QED
      BY <1>1, <3>1
  <2>4. QED
    BY <1>1, <1>4, <2>2, <2>3, WindowPush
<1>5. ASSUME NEW p \in Producers, PushDone(p)
      PROVE  \E i, j \in Nat, g \in [Messages -> Nat] : Line(i, j, g)' /\ Renumbers(f, g)
  <2>1. Line(h, t, f)'
    BY <1>5, LinePush
  <2>2. Taken' = Taken
    BY <1>5, TakenPush DEF PushDone
  <2>3. QED
    BY <1>2, <2>1, <2>2
<1>6. ASSUME NEW c \in Consumers, TryPopStep(c), UNCHANGED m_elements
      PROVE  \E i, j \in Nat, g \in [Messages -> Nat] : Line(i, j, g)' /\ Renumbers(f, g)
  <2>1. UNCHANGED historyVars
    BY <1>1, <1>6, WindowPop
  <2>2. CASE Window(h, t)' /\ SameTickets
    <3>1. Line(h, t, f)'
      BY <1>6, <2>1, <2>2, LineSame
    <3>2. QED
      BY <1>2, <1>3, <2>1, <2>2, <3>1
  <2>3. CASE Window(h, t + 1)' /\ Takes(c, m_tail)
    <3>1. Line(h, t + 1, f)'
      BY <1>6, <2>1, <2>3, LineTail
    <3>2. Taken' = Taken
      <4>1. \A q \in Producers : pc'[q] = pc[q]
        BY <2>3, QueueBaseAssumption DEF Takes, IInv, TypeOK, Threads
      <4>2. QED
        BY <2>1, <4>1, TakenSame
    <3>3. QED
      BY <1>1, <1>2, <3>1, <3>2
  <2>4. QED
    BY <1>1, <1>6, <2>2, <2>3, WindowPop
<1>7. ASSUME NEW c \in Consumers, do_pop(c)
      PROVE  \E i, j \in Nat, g \in [Messages -> Nat] : Line(i, j, g)' /\ Renumbers(f, g)
  <2>1. Line(h, t, f)'
    BY <1>7, LinePop
  <2>2. UNCHANGED pushed /\ \A q \in Producers : pc'[q] = pc[q]
    BY <1>7, QueueBaseAssumption DEF do_pop, IInv, TypeOK, Threads
  <2>3. Taken' = Taken
    BY <2>2 DEF Taken, Sent, Pending
  <2>4. QED
    BY <1>2, <2>1, <2>3
<1>8. CASE UNCHANGED vars
  <2>1. Taken' = Taken /\ SameTickets /\ UNCHANGED <<historyVars, m_elements>>
    BY <1>8 DEF vars, historyVars, Taken, Sent, Pending, SameTickets
  <2>2. Window(h, t)'
    BY <1>1, <1>8, <2>1 DEF vars, Window, PushTicketAt
  <2>3. Line(h, t, f)'
    BY <2>1, <2>2, LineSame
  <2>4. QED
    BY <1>2, <2>1, <2>3
<1>9. CASE UNCHANGED mpscVars
  BY <1>8, <1>9 DEF mpscVars
<1>10. QED
  BY <1>4, <1>5, <1>6, <1>7, <1>8, <1>9, WrapperTries

(* Once a push has lapped another, that stays so. *)
LEMMA LappedStays ==
  ASSUME [MPSCNext]_mpscVars, lapped PROVE lapped'
<1>1. \A p \in Producers : PushDone(p) => lapped'
  BY DEF PushDone
<1>2. CASE UNCHANGED mpscVars
  BY <1>2 DEF mpscVars, waitVars
<1>3. QED
  BY <1>1, <1>2, WrapperTries

LEMMA LineStep ==
  ASSUME IInv, FewPushes, Lined, [MPSCNext]_mpscVars
  PROVE  Lined'
<1>1. CASE lapped
  BY <1>1, LappedStays DEF Lined
<1>2. ASSUME ~lapped, ~lapped' PROVE Lined'
  <2>1. PICK h \in Nat, t \in Nat, f \in [Messages -> Nat] : Line(h, t, f)
    BY <1>2 DEF Lined
  <2>2. PICK i \in Nat, j \in Nat, g \in [Messages -> Nat] : Line(i, j, g)'
    BY <1>2, <2>1, LineMoves
  <2>3. QED
    BY <2>2 DEF Lined
<1>3. QED
  BY <1>1, <1>2 DEF Lined

LEMMA LineInit == MPSCInit => Lined
<1> SUFFICES ASSUME MPSCInit PROVE Lined
  OBVIOUS
<1>1. /\ m_head = Start /\ m_tail = Start /\ pc = [u \in Threads |-> "idle"]
      /\ pushed = [p \in Producers |-> 0] /\ recv = [c \in Consumers |-> <<>>]
      /\ m_elements = [i \in Slots |-> NIL]
  BY DEF MPSCInit, Init, QueueBaseInit
<1>2. Start \in Nat /\ Start % CounterMod = Start /\ QueueSize \in Nat
  BY QueueBaseAssumption DEF Counters
<1>3. Taken = {}
  <2>1. Sent = {}
    BY <1>1, QueueBaseAssumption DEF Sent, Messages
  <2>2. QED
    BY <1>1, <2>1 DEF Taken, Threads
<1>4. Cardinality(Taken) = 0
  BY <1>3, FS_EmptySet
<1>5. \A u \in Producers \cup Consumers : pc[u] = "idle"
  BY <1>1 DEF Threads
<1>6. Window(Start, Start)
  BY <1>1, <1>2, <1>4, <1>5 DEF Window
<1>7. PICK f \in [Messages -> Nat] : f = [m \in Messages |-> 0]
  OBVIOUS
<1>8. Numbered(Start, f)
  BY <1>2, <1>3 DEF Numbered
<1>9. PopsFollow(Start, f)
  <2>1. \A c \in Consumers : recv[c] = <<>> /\ Len(recv[c]) = 0 /\ DOMAIN recv[c] = {}
    BY <1>1
  <2>2. \A c \in Consumers : pc[c] # "slot"
    BY <1>5
  <2>3. \A c \in Consumers : Start = Start + Len(recv[c]) + 0
    BY <1>2, <2>1
  <2>4. QED
    BY <2>1, <2>2, <2>3 DEF PopsFollow
<1>10. PushesHold(f) /\ SlotsFollow(f)
  BY <1>1, <1>5 DEF PushesHold, SlotsFollow
<1>11. QED
  BY <1>2, <1>6, <1>8, <1>9, <1>10 DEF Lined, Line

(* Elements popped in the order of their tickets are popped, producer by   *)
(* producer, in the order pushed.                                          *)
LEMMA LineShows == IInv /\ Lined => OrderUnlessLapped
<1> SUFFICES ASSUME IInv, NEW h \in Nat, NEW t \in Nat, NEW f \in [Messages -> Nat], Line(h, t, f),
                    NEW c \in Consumers, NEW i \in DOMAIN recv[c], NEW j \in DOMAIN recv[c],
                    i < j, recv[c][i][1] = recv[c][j][1]
             PROVE  recv[c][i][2] < recv[c][j][2]
  BY DEF Lined, OrderUnlessLapped
<1>1. recv[c][i] \in Taken /\ recv[c][j] \in Taken
  BY PoppedTaken
<1>2. i \in Nat /\ j \in Nat /\ Start \in Nat
  BY QueueBaseAssumption DEF IInv, TypeOK, Counters
<1>3. f[recv[c][i]] = Start + i - 1 /\ f[recv[c][j]] = Start + j - 1
  BY DEF Line, PopsFollow
<1>4. PICK p \in Producers, a \in 1 .. MaxPush : recv[c][i] = <<p, a>>
  BY <1>1, TakenMessages DEF Messages
<1>5. PICK q \in Producers, b \in 1 .. MaxPush : recv[c][j] = <<q, b>>
  BY <1>1, TakenMessages DEF Messages
<1>6. p = q /\ a \in Int /\ b \in Int
  BY <1>4, <1>5, QueueBaseAssumption
<1>7. a # b
  BY <1>2, <1>3, <1>4, <1>5, <1>6
<1>8. ~(b < a)
  <2> SUFFICES ASSUME b < a PROVE FALSE
    OBVIOUS
  <2>1. f[recv[c][j]] < f[recv[c][i]]
    BY <1>1, <1>4, <1>5, <1>6 DEF Line, Numbered
  <2>2. QED
    BY <1>2, <1>3, <2>1
<1>9. QED
  BY <1>4, <1>5, <1>6, <1>7, <1>8

(* Each producer's messages leave the transfer queue in the order it sent  *)
(* them, although producers race for tickets and fill their slots in any   *)
(* order, unless one was stalled between its ticket and its slot while the *)
(* others went round the ring.  As for the window, at most 2^32 pushes.    *)
THEOREM MPSCProducerOrder ==
  ASSUME FewPushes
  PROVE  MPSCSpec => []OrderUnlessLapped
<1>1. MPSCInit => IInv /\ Lined
  BY InitInv, LineInit DEF MPSCInit
<1>2. IInv /\ Lined /\ [MPSCNext]_mpscVars => (IInv /\ Lined)'
  BY WrapperStep, NextInv, LineStep
<1>3. QED
  BY <1>1, <1>2, LineShows, PTL DEF MPSCSpec

-----------------------------------------------------------------------------
(* The worker thread on its channel. *)


(* Every step of the thread and of its senders is one of the queue, or     *)
(* leaves it alone.                                                        *)
LEMMA WorkerStep == [WorkerNext]_workerVars => [MPSCNext]_mpscVars
<1> SUFFICES ASSUME [WorkerNext]_workerVars PROVE MPSCNext \/ UNCHANGED mpscVars
  OBVIOUS
<1>1. CASE start \/ stop \/ join
  BY <1>1 DEF start, stop, join
<1>2. CASE stopPush
  BY <1>2, StopperAssumption DEF stopPush, MPSCNext
<1>3. ASSUME NEW p \in Producers, transferMsg(p) PROVE MPSCNext
  BY <1>3 DEF transferMsg, MPSCNext
<1>4. ASSUME NEW c \in Consumers, run(c) \/ runWake(c) PROVE MPSCNext
  BY <1>4 DEF run, runPop, runMsg, runWake, pop, MPSCNext
<1>5. CASE UNCHANGED workerVars
  BY <1>5 DEF workerVars
<1>6. QED
  BY <1>1, <1>2, <1>3, <1>4, <1>5 DEF WorkerNext

(* Sending, stopping and joining use the channel as an MPSCQueue: nothing  *)
(* is lost or duplicated, each sender's messages are handled in order and  *)
(* no notification is missed, whenever stop() is called.                   *)
THEOREM WorkerUsesQueue == WorkerSpec => MPSCSpec
<1>1. WorkerInit => MPSCInit
  BY DEF WorkerInit
<1>2. QED
  BY <1>1, WorkerStep, PTL DEF WorkerSpec, MPSCSpec

-----------------------------------------------------------------------------
(* Before stop() nothing comes from the thread that calls it, what was     *)
(* sent before is no null message, and the thread ends only on one.        *)
StopInv ==
  /\ ~stopCalled => pushed[Stopper] = 0 /\ pc[Stopper] = "idle" /\ beforeStop = {}
  /\ beforeStop \subseteq Sent /\ \A m \in beforeStop : ~IsNull(m)
  /\ thread \in {"exited", "joined"} => \E m \in Delivered : IsNull(m)

(* The null message comes after everything sent before stop(). *)
StopLast(f) == \A m \in beforeStop, k \in Taken : IsNull(k) => f[m] < f[k]

Drains ==
  lapped \/ \E h, t \in Nat, f \in [Messages -> Nat] : Line(h, t, f) /\ StopLast(f)

(* What a step of the queue leaves of the history: it only grows. *)
LEMMA HistoryGrows ==
  ASSUME IInv, [MPSCNext]_mpscVars
  PROVE  Sent \subseteq Sent' /\ Delivered \subseteq Delivered'
<1>1. ASSUME UNCHANGED historyVars PROVE Sent \subseteq Sent' /\ Delivered \subseteq Delivered'
  BY <1>1, HistorySame
<1>2. ASSUME NEW p \in Producers, PushDone(p) PROVE Sent \subseteq Sent' /\ Delivered \subseteq Delivered'
  <2>1. pc[p] = "slot" /\ pushed' = [pushed EXCEPT ![p] = @ + 1] /\ recv' = recv
    BY <1>2 DEF PushDone, do_push
  <2>2. Sent' = Sent \cup {Pending(p)}
    BY <2>1, SentStep DEF IInv, PushBound
  <2>3. QED
    BY <2>1, <2>2 DEF Delivered
<1>3. ASSUME NEW c \in Consumers, do_pop(c) PROVE Sent \subseteq Sent' /\ Delivered \subseteq Delivered'
  <2>1. /\ recv' = [recv EXCEPT ![c] = Append(@, m_elements[SlotOf(ticket[c])])]
        /\ pushed' = pushed /\ m_elements[SlotOf(ticket[c])] \in Messages
    BY <1>3, do_popStep DEF do_pop
  <2>2. Delivered' = Delivered \cup {m_elements[SlotOf(ticket[c])]}
    BY <2>1, DeliveredStep DEF IInv
  <2>3. QED
    BY <2>1, <2>2 DEF Sent
<1>4. ASSUME NEW p \in Producers, TryPushStep(p) PROVE UNCHANGED historyVars
  BY <1>4 DEF TryPushStep, TryPushLoad, TryPushFull, TryPushRoom, AdvanceHead, historyVars
<1>5. ASSUME NEW c \in Consumers, TryPopStep(c) PROVE UNCHANGED historyVars
  BY <1>5 DEF TryPopStep, TryPopLoad, TryPopEmpty, TryPopAny, AdvanceTail, historyVars
<1>6. ASSUME UNCHANGED vars \/ UNCHANGED mpscVars PROVE UNCHANGED historyVars
  BY <1>6 DEF vars, mpscVars, historyVars
<1>7. QED
  BY <1>1, <1>2, <1>3, <1>4, <1>5, <1>6, WrapperTries

(* A call of another thread leaves the stopper where it is. *)
LEMMA StopperStill ==
  ASSUME IInv, NEW u \in Threads, u # Stopper,
         (u \in Producers /\ push(u)) \/ (u \in Consumers /\ (pop(u) \/ SpuriousWake(u)))
  PROVE  pushed'[Stopper] = pushed[Stopper] /\ pc'[Stopper] = pc[Stopper]
<1>1. Stopper \in Producers /\ Stopper \in Threads
  BY StopperAssumption DEF Threads
<1>2. /\ pc \in [Threads -> {"idle", "check", "advance", "slot"}]
      /\ pushed \in [Producers -> 0 .. MaxPush]
  BY DEF IInv, TypeOK
<1>3. ASSUME \/ UNCHANGED <<pc, pushed>>
             \/ UNCHANGED pushed /\ \E x : pc' = [pc EXCEPT ![u] = x]
      PROVE  pushed'[Stopper] = pushed[Stopper] /\ pc'[Stopper] = pc[Stopper]
  BY <1>1, <1>2, <1>3
<1>4. CASE u \in Producers /\ push(u)
  <2>1. CASE TryPushStep(u)
    <3>1. UNCHANGED pushed
      BY <2>1 DEF TryPushStep, TryPushLoad, TryPushFull, TryPushRoom, AdvanceHead, historyVars
    <3>2. \E x : pc' = [pc EXCEPT ![u] = x]
      <4>1. CASE AdvanceHead(u)
        BY <4>1, Zenon DEF AdvanceHead
      <4>2. CASE TryPushLoad(u) \/ TryPushFull(u) \/ TryPushRoom(u)
        BY <4>2 DEF TryPushLoad, TryPushFull, TryPushRoom
      <4>3. QED
        BY <2>1, <4>1, <4>2 DEF TryPushStep
    <3>3. QED
      BY <1>3, <3>1, <3>2
  <2>2. CASE do_push(u)
    BY <1>1, <1>2, <2>2 DEF do_push
  <2>3. QED
    BY <1>3, <1>4, <2>1, <2>2
       DEF push, PushTry, PushDone, PushLook, PushLower, PushNotify, vars
<1>5. CASE u \in Consumers /\ (pop(u) \/ SpuriousWake(u))
  <2>1. CASE TryPopStep(u)
    <3>1. UNCHANGED pushed
      BY <2>1 DEF TryPopStep, TryPopLoad, TryPopEmpty, TryPopAny, AdvanceTail, historyVars
    <3>2. \E x : pc' = [pc EXCEPT ![u] = x]
      <4>1. CASE AdvanceTail(u)
        BY <4>1, Zenon DEF AdvanceTail
      <4>2. CASE TryPopLoad(u) \/ TryPopEmpty(u) \/ TryPopAny(u)
        BY <4>2 DEF TryPopLoad, TryPopEmpty, TryPopAny
      <4>3. QED
        BY <2>1, <4>1, <4>2 DEF TryPopStep
    <3>3. QED
      BY <1>3, <3>1, <3>2
  <2>2. CASE do_pop(u)
    BY <1>3, <2>2 DEF do_pop
  <2>3. QED
    BY <1>3, <1>5, <2>1, <2>2
       DEF pop, PopTry, PopDone, PopEmpty, PopRaise, PopWait, SpuriousWake, vars, TryPopStep
<1>6. QED
  BY <1>4, <1>5

(* Before stop() no push has taken a ticket for a null message. *)
LEMMA NoNullYet ==
  ASSUME IInv, pushed[Stopper] = 0, pc[Stopper] = "idle", NEW k \in Taken
  PROVE  ~IsNull(k)
<1>1. CASE k \in Sent
  BY <1>1, QueueBaseAssumption DEF Sent, Messages, IsNull
<1>2. CASE k \notin Sent
  <2>1. PICK q \in Producers : pc[q] = "slot" /\ k = Pending(q)
    BY <1>2, TakenMember
  <2>2. k[1] = q
    BY <2>1 DEF Pending
  <2>3. QED
    BY <2>1, <2>2 DEF IsNull
<1>3. QED
  BY <1>1, <1>2

LEMMA StopInvStep ==
  ASSUME IInv, StopInv, [WorkerNext]_workerVars
  PROVE  StopInv'
<1>1. Sent \subseteq Sent' /\ Delivered \subseteq Delivered'
  BY WorkerStep, HistoryGrows
<1>2. ASSUME UNCHANGED threadVars, ~stopCalled =>
               pushed'[Stopper] = pushed[Stopper] /\ pc'[Stopper] = pc[Stopper]
      PROVE  StopInv'
  BY <1>1, <1>2 DEF StopInv, threadVars
<1>3. CASE start
  <2>1. thread' = "running" /\ UNCHANGED <<pushed, pc, stopCalled, beforeStop>>
    BY <1>3 DEF start, mpscVars, vars
  <2>2. QED
    BY <1>1, <2>1 DEF StopInv
<1>4. CASE stop
  <2>1. ~stopCalled /\ stopCalled' = TRUE /\ beforeStop' = Sent /\ thread' = thread
    BY <1>4 DEF stop
  <2>2. \A m \in Sent : ~IsNull(m)
    BY <2>1, NoNullYet DEF StopInv, Taken
  <2>3. QED
    BY <1>1, <2>1, <2>2 DEF StopInv
<1>5. CASE stopPush
  BY <1>2, <1>5 DEF stopPush
<1>6. CASE join
  <2>1. thread = "exited" /\ thread' = "joined" /\ UNCHANGED <<pushed, pc, stopCalled, beforeStop>>
    BY <1>6 DEF join, mpscVars, vars
  <2>2. QED
    BY <1>1, <2>1 DEF StopInv
<1>7. ASSUME NEW p \in Producers, transferMsg(p) PROVE StopInv'
  <2>1. p # Stopper /\ push(p) /\ UNCHANGED threadVars /\ p \in Threads
    BY <1>7 DEF transferMsg, Threads
  <2>2. QED
    BY <1>2, <2>1, StopperStill
<1>8. ASSUME NEW c \in Consumers, run(c) \/ runWake(c) PROVE StopInv'
  <2>1. c \in Threads /\ c # Stopper
    BY QueueBaseAssumption, StopperAssumption DEF Threads
  <2>2. pop(c) \/ SpuriousWake(c)
    BY <1>8 DEF run, runPop, runMsg, runWake, pop
  <2>3. pushed'[Stopper] = pushed[Stopper] /\ pc'[Stopper] = pc[Stopper]
    BY <2>1, <2>2, StopperStill
  <2>4. CASE runPop(c) \/ runWake(c)
    BY <1>2, <2>3, <2>4 DEF runPop, runWake
  <2>5. CASE runMsg(c)
    <3> DEFINE e == m_elements[SlotOf(ticket[c])]
    <3>1. do_pop(c) /\ UNCHANGED <<stopCalled, beforeStop>>
      BY <2>5 DEF runMsg, PopDone
    <3>2. thread' = IF IsNull(e) THEN "exited" ELSE thread
      BY <2>5 DEF runMsg
    <3>3. e \in Messages /\ recv' = [recv EXCEPT ![c] = Append(@, e)]
      BY <3>1, do_popStep DEF do_pop
    <3>4. e \in Delivered'
      BY <3>3, DeliveredStep DEF IInv
    <3> HIDE DEF e
    <3>5. thread' \in {"exited", "joined"} => \E m \in Delivered' : IsNull(m)
      BY <1>1, <3>2, <3>4 DEF StopInv
    <3>6. QED
      BY <1>1, <2>3, <3>1, <3>5 DEF StopInv, IsNull
  <2>6. QED
    BY <1>8, <2>4, <2>5 DEF run
<1>9. CASE UNCHANGED workerVars
  BY <1>2, <1>9 DEF workerVars, mpscVars, vars
<1>10. QED
  BY <1>3, <1>4, <1>5, <1>6, <1>7, <1>8, <1>9 DEF WorkerNext

LEMMA DrainsStep ==
  ASSUME IInv, FewPushes, StopInv, Drains, [WorkerNext]_workerVars
  PROVE  Drains'
<1>1. [MPSCNext]_mpscVars
  BY WorkerStep
<1>2. CASE lapped
  BY <1>1, <1>2, LappedStays DEF Drains
<1>3. ASSUME ~lapped, ~lapped' PROVE Drains'
  <2>1. PICK h \in Nat, t \in Nat, f \in [Messages -> Nat] : Line(h, t, f) /\ StopLast(f)
    BY <1>3 DEF Drains
  <2>2. PICK i \in Nat, j \in Nat, g \in [Messages -> Nat] : Line(i, j, g)' /\ Renumbers(f, g)
    BY <1>1, <1>3, <2>1, LineMoves
  <2>3. StopLast(g)'
    <3>1. CASE stop
      <4>1. ~stopCalled /\ beforeStop' = Sent /\ UNCHANGED <<pushed, pc>>
        BY <3>1 DEF stop, mpscVars, vars
      <4>2. Taken' = Taken
        BY <4>1 DEF Taken, Sent, Pending
      <4>3. \A k \in Taken' : ~IsNull(k)
        BY <4>1, <4>2, NoNullYet DEF StopInv
      <4>4. QED
        BY <4>3 DEF StopLast, IsNull
    <3>2. CASE UNCHANGED beforeStop
      <4>1. beforeStop \subseteq Taken
        BY DEF StopInv, Taken
      <4>2. ASSUME NEW m \in beforeStop, NEW k \in Taken', IsNull(k) PROVE g[m] < g[k]
        <5>1. CASE k \in Taken
          BY <2>1, <2>2, <4>1, <4>2, <5>1 DEF StopLast, Renumbers
        <5>2. CASE k \notin Taken
          BY <2>2, <4>1, <4>2, <5>2 DEF Renumbers
        <5>3. QED
          BY <5>1, <5>2
      <4>3. QED
        BY <3>2, <4>2 DEF StopLast, IsNull
    <3>3. UNCHANGED beforeStop \/ stop
      BY DEF WorkerNext, workerVars, threadVars, start, stopPush, join, transferMsg, run, runPop,
             runMsg, runWake
    <3>4. QED
      BY <3>1, <3>2, <3>3
  <2>4. QED
    BY <2>2, <2>3 DEF Drains
<1>4. QED
  BY <1>2, <1>3 DEF Drains

(* A popped null message has everything with a lower ticket before it. *)
LEMMA DrainsShows ==
  ASSUME IInv, StopInv, Drains PROVE DrainBeforeStop
<1> SUFFICES ASSUME thread \in {"exited", "joined"}, ~lapped, NEW m \in beforeStop, m \notin Delivered
             PROVE  FALSE
  BY DEF DrainBeforeStop, StopInv, Handled
<1>1. PICK h \in Nat, t \in Nat, f \in [Messages -> Nat] : Line(h, t, f) /\ StopLast(f)
  BY DEF Drains
<1>2. PICK k \in Delivered : IsNull(k)
  BY DEF StopInv
<1>3. PICK c \in Consumers : \E j \in DOMAIN recv[c] : recv[c][j] = k
  BY DEF Delivered
<1>4. PICK i \in DOMAIN recv[c] : recv[c][i] = k
  BY <1>3
<1>5. m \in Taken /\ k \in Taken
  BY <1>4, PoppedTaken DEF StopInv, Taken
<1>6. f[m] \in Nat /\ f[k] = Start + i - 1 /\ Start \in Nat
  <2>1. f[m] \in Nat
    BY <1>5, TakenMessages
  <2>2. f[k] = Start + i - 1
    BY <1>1, <1>4 DEF Line, PopsFollow
  <2>3. QED
    BY <2>1, <2>2, QueueBaseAssumption DEF Counters
<1>7. i \in 1 .. Len(recv[c]) /\ Len(recv[c]) \in Nat
  BY DEF IInv, TypeOK
<1>8. f[m] < f[k]
  BY <1>1, <1>2, <1>5 DEF StopLast
<1>9. f[m] >= Start + Len(recv[c])
  BY <1>1, <1>5, NotYetPopped DEF Line
<1>10. QED
  BY <1>6, <1>7, <1>8, <1>9

(* stop() drains the channel: a message whose transferMsg returned before  *)
(* stop() was called has been given to onMsg when the thread ends, however *)
(* the senders race with the null message, unless a push was stalled for   *)
(* a lap of the ring.  At most 2^32 pushes, as for the queue.              *)
THEOREM StopDrains ==
  ASSUME FewPushes
  PROVE  WorkerSpec => []DrainBeforeStop
<1>1. WorkerInit => IInv /\ StopInv /\ Drains
  <2> SUFFICES ASSUME WorkerInit PROVE IInv /\ StopInv /\ Drains
    OBVIOUS
  <2>1. MPSCInit /\ thread = "created" /\ ~stopCalled /\ beforeStop = {}
    BY DEF WorkerInit
  <2>2. IInv
    BY <2>1, InitInv DEF MPSCInit
  <2>3. StopInv
    BY <2>1, StopperAssumption DEF StopInv, MPSCInit, Init, QueueBaseInit, Threads
  <2>4. Drains
    BY <2>1, LineInit DEF Lined, Drains, StopLast
  <2>5. QED
    BY <2>2, <2>3, <2>4
<1>2. IInv /\ StopInv /\ Drains /\ [WorkerNext]_workerVars => (IInv /\ StopInv /\ Drains)'
  BY WorkerStep, WrapperStep, NextInv, StopInvStep, DrainsStep
<1>3. IInv /\ StopInv /\ Drains => DrainBeforeStop
  BY DrainsShows
<1>4. QED
  BY <1>1, <1>2, <1>3, PTL DEF WorkerSpec
=============================================================================
