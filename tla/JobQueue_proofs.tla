--------------------------- MODULE JobQueue_proofs ---------------------------
(***************************************************************************)
(* The JobManager, and a JobQueue on it, for every number of jobs, users,  *)
(* workers and processors.                                                 *)
(*                                                                         *)
(* The manager owns every accepted job exactly once, names it by an id of  *)
(* its own and never leaves a startable job without a worker: four         *)
(* invariants, each proved from the ones before it, the types, who owns a  *)
(* job (Ownership), how far the ids reach back (IdWindow) and what the     *)
(* workers are about to do (Staffing).                                     *)
(*                                                                         *)
(* Of the queue: the jobs it lists are never freed ones, its backlog       *)
(* moves, and one at a time means in the order of addJob.  What is shown   *)
(* of the manager holds under the queue as well.                           *)
(***************************************************************************)
EXTENDS JobQueue, SequenceTheorems, FiniteSetTheorems, TLAPS

-----------------------------------------------------------------------------
(* Lists of jobs: what the operations on them do to their contents.        *)

LEMMA ContainsEmpty == \A x : ~Contains(<<>>, x)
  BY DEF Contains

LEMMA InjectiveEmpty == IsInjective(<<>>)
  BY DEF IsInjective

LEMMA ContainsType ==
  ASSUME NEW S, NEW s \in Seq(S), NEW x, Contains(s, x)
  PROVE  x \in S
  BY DEF Contains

LEMMA ContainsAppend ==
  ASSUME NEW S, NEW s \in Seq(S), NEW e \in S
  PROVE  /\ Append(s, e) \in Seq(S)
         /\ \A x : Contains(Append(s, e), x) <=> Contains(s, x) \/ x = e
         /\ IsInjective(s) /\ ~Contains(s, e) => IsInjective(Append(s, e))
<1>1. Append(s, e) \in Seq(S) /\ Len(Append(s, e)) = Len(s) + 1
  BY AppendProperties
<1>2. \A i \in 1 .. Len(s) : Append(s, e)[i] = s[i]
  BY AppendProperties
<1>3. Append(s, e)[Len(s) + 1] = e
  BY AppendProperties
<1>4. Len(s) \in Nat /\ DOMAIN s = 1 .. Len(s) /\ DOMAIN Append(s, e) = 1 .. Len(s) + 1
  BY <1>1, LenProperties
<1>5. ASSUME NEW x PROVE Contains(Append(s, e), x) <=> Contains(s, x) \/ x = e
  <2>1. ASSUME Contains(Append(s, e), x) PROVE Contains(s, x) \/ x = e
    BY <1>1, <1>2, <1>3, <1>4, <2>1 DEF Contains
  <2>2. ASSUME Contains(s, x) PROVE Contains(Append(s, e), x)
    BY <1>1, <1>2, <1>4, <2>2 DEF Contains
  <2>3. ASSUME x = e PROVE Contains(Append(s, e), x)
    <3>1. Len(s) + 1 \in 1 .. Len(Append(s, e))
      BY <1>1, <1>4
    <3>2. QED
      BY <1>3, <2>3, <3>1 DEF Contains
  <2>4. QED
    BY <2>1, <2>2, <2>3
<1>6. ASSUME IsInjective(s), ~Contains(s, e) PROVE IsInjective(Append(s, e))
  BY <1>1, <1>2, <1>3, <1>4, <1>6 DEF IsInjective, Contains
<1>7. QED
  BY <1>1, <1>5, <1>6

LEMMA ContainsTail ==
  ASSUME NEW S, NEW s \in Seq(S), s # <<>>, IsInjective(s)
  PROVE  /\ Head(s) \in S
         /\ Contains(s, Head(s))
         /\ Tail(s) \in Seq(S)
         /\ \A x : Contains(Tail(s), x) <=> Contains(s, x) /\ x # Head(s)
         /\ IsInjective(Tail(s))
<1>1. Head(s) \in S /\ Tail(s) \in Seq(S) /\ Len(Tail(s)) = Len(s) - 1
  BY HeadTailProperties
<1>2. \A i \in 1 .. Len(s) - 1 : Tail(s)[i] = s[i + 1]
  BY <1>1, HeadTailProperties
<1>3. Head(s) = s[1]
  OBVIOUS
<1>4. Len(s) \in Nat \ {0} /\ DOMAIN s = 1 .. Len(s) /\ DOMAIN Tail(s) = 1 .. Len(s) - 1
  BY <1>1, LenProperties, EmptySeq
<1>5. Contains(s, Head(s))
  BY <1>3, <1>4 DEF Contains
<1>6. ASSUME NEW x PROVE Contains(Tail(s), x) <=> Contains(s, x) /\ x # Head(s)
  <2>1. ASSUME Contains(Tail(s), x) PROVE Contains(s, x) /\ x # Head(s)
    <3>1. PICK i \in 1 .. Len(s) - 1 : Tail(s)[i] = x
      BY <1>1, <2>1 DEF Contains
    <3>2. i + 1 \in DOMAIN s /\ 1 \in DOMAIN s /\ i + 1 # 1 /\ s[i + 1] = x
      BY <1>2, <1>4, <3>1
    <3>3. QED
      BY <1>3, <1>4, <3>2 DEF Contains, IsInjective
  <2>2. ASSUME Contains(s, x), x # Head(s) PROVE Contains(Tail(s), x)
    <3>1. PICK i \in 1 .. Len(s) : s[i] = x
      BY <2>2 DEF Contains
    <3>2. i - 1 \in 1 .. Len(s) - 1 /\ Tail(s)[i - 1] = x
      BY <1>2, <1>3, <1>4, <2>2, <3>1
    <3>3. QED
      BY <1>1, <3>2 DEF Contains
  <2>3. QED
    BY <2>1, <2>2
<1>7. IsInjective(Tail(s))
  <2>1. ASSUME NEW a \in DOMAIN Tail(s), NEW b \in DOMAIN Tail(s), Tail(s)[a] = Tail(s)[b]
        PROVE  a = b
    <3>1. a + 1 \in DOMAIN s /\ b + 1 \in DOMAIN s /\ s[a + 1] = s[b + 1]
      BY <1>2, <1>4, <2>1
    <3>2. a + 1 = b + 1
      BY <3>1 DEF IsInjective
    <3>3. QED
      BY <1>4, <3>2
  <2>2. QED
    BY <2>1 DEF IsInjective
<1>8. QED
  BY <1>1, <1>5, <1>6, <1>7

(* find and erase on a list without repetitions. *)
LEMMA RemoveAtProperties ==
  ASSUME NEW S, NEW s \in Seq(S), NEW i \in 1 .. Len(s)
  PROVE  /\ RemoveAt(s, i) \in Seq(S)
         /\ Len(RemoveAt(s, i)) = Len(s) - 1
         /\ \A k \in 1 .. Len(s) - 1 : RemoveAt(s, i)[k] = IF k < i THEN s[k] ELSE s[k + 1]
<1> DEFINE l == SubSeq(s, 1, i - 1)
           r == SubSeq(s, i + 1, Len(s))
<1>0. Len(s) \in Nat /\ \A k \in 1 .. Len(s) : s[k] \in S
  BY LenProperties, ElementOfSeq
<1>1. l \in Seq(S) /\ Len(l) = i - 1 /\ \A k \in 1 .. i - 1 : l[k] = s[k]
  <2>1. \A k \in 1 .. i - 1 : s[k] \in S
    BY <1>0
  <2>2. 1 \in Int /\ i - 1 \in Int
    BY <1>0
  <2>3. /\ SubSeq(s, 1, i - 1) \in Seq(S)
        /\ Len(SubSeq(s, 1, i - 1)) = IF 1 <= i - 1 THEN i - 1 - 1 + 1 ELSE 0
        /\ \A k \in 1 .. i - 1 - 1 + 1 : SubSeq(s, 1, i - 1)[k] = s[1 + k - 1]
    BY <2>1, <2>2, SubSeqProperties
  <2>4. QED
    BY <1>0, <2>3
<1>2. r \in Seq(S) /\ Len(r) = Len(s) - i /\ \A k \in 1 .. Len(s) - i : r[k] = s[i + k]
  <2>1. \A k \in i + 1 .. Len(s) : s[k] \in S
    BY <1>0
  <2>2. i + 1 \in Int /\ Len(s) \in Int
    BY <1>0
  <2>3. /\ SubSeq(s, i + 1, Len(s)) \in Seq(S)
        /\ Len(SubSeq(s, i + 1, Len(s))) = IF i + 1 <= Len(s) THEN Len(s) - (i + 1) + 1 ELSE 0
        /\ \A k \in 1 .. Len(s) - (i + 1) + 1 : SubSeq(s, i + 1, Len(s))[k] = s[(i + 1) + k - 1]
    BY <2>1, <2>2, SubSeqProperties
  <2>4. QED
    BY <1>0, <2>3
<1>3. RemoveAt(s, i) = l \o r
  BY DEF RemoveAt
<1> HIDE DEF l, r
<1>4. /\ l \o r \in Seq(S)
      /\ Len(l \o r) = Len(l) + Len(r)
      /\ \A k \in 1 .. Len(l) + Len(r) : (l \o r)[k] = IF k <= Len(l) THEN l[k] ELSE r[k - Len(l)]
  BY <1>1, <1>2, ConcatProperties
<1>5. ASSUME NEW k \in 1 .. Len(s) - 1
      PROVE  RemoveAt(s, i)[k] = IF k < i THEN s[k] ELSE s[k + 1]
  <2>1. CASE k < i
    BY <1>0, <1>1, <1>2, <1>3, <1>4, <2>1
  <2>2. CASE k >= i
    <3>1. k - (i - 1) \in 1 .. Len(s) - i /\ ~(k <= Len(l)) /\ k \in 1 .. Len(l) + Len(r)
      BY <1>0, <1>1, <1>2, <2>2
    <3>2. (l \o r)[k] = r[k - (i - 1)] /\ r[k - (i - 1)] = s[i + (k - (i - 1))]
      BY <1>1, <1>2, <1>4, <3>1
    <3>3. i + (k - (i - 1)) = k + 1 /\ ~(k < i)
      BY <1>0, <2>2
    <3>4. QED
      BY <1>3, <3>2, <3>3
  <2>3. QED
    BY <1>0, <2>1, <2>2
<1>6. QED
  BY <1>0, <1>1, <1>2, <1>3, <1>4, <1>5

LEMMA ContainsRemoveFirst ==
  ASSUME NEW S, NEW s \in Seq(S), IsInjective(s), NEW e
  PROVE  /\ RemoveFirst(s, e) \in Seq(S)
         /\ \A x : Contains(RemoveFirst(s, e), x) <=> Contains(s, x) /\ x # e
         /\ IsInjective(RemoveFirst(s, e))
         /\ s = <<>> => RemoveFirst(s, e) = <<>>
<1>0. Len(s) \in Nat /\ DOMAIN s = 1 .. Len(s)
  BY LenProperties
<1>1. CASE ~Contains(s, e)
  <2>1. RemoveFirst(s, e) = s
    BY <1>1 DEF RemoveFirst, Contains
  <2>2. QED
    BY <1>1, <2>1
<1>2. CASE Contains(s, e)
  <2>1. PICK i \in 1 .. Len(s) : s[i] = e
    BY <1>2 DEF Contains
  <2> DEFINE I == {k \in 1 .. Len(s) : s[k] = e}
             t == RemoveAt(s, i)
  <2>2. I = {i}
    BY <1>0, <2>1 DEF IsInjective
  <2>3. RemoveFirst(s, e) = RemoveAt(s, IF I # {} THEN Min(I) ELSE 0)
    BY <2>1 DEF RemoveFirst, SelectInSeq
  <2>4. Min({i}) = i
    BY <1>0 DEF Min
  <2>5. RemoveFirst(s, e) = t
    BY <2>2, <2>3, <2>4
  <2>6. /\ t \in Seq(S)
        /\ Len(t) = Len(s) - 1
        /\ \A k \in 1 .. Len(s) - 1 : t[k] = IF k < i THEN s[k] ELSE s[k + 1]
    BY RemoveAtProperties
  <2> HIDE DEF t, I
  <2>7. DOMAIN t = 1 .. Len(s) - 1
    BY <2>6, LenProperties
  <2>8. ASSUME NEW x PROVE Contains(t, x) <=> Contains(s, x) /\ x # e
    <3>1. ASSUME Contains(t, x) PROVE Contains(s, x) /\ x # e
      <4>1. PICK k \in 1 .. Len(s) - 1 : t[k] = x
        BY <2>6, <3>1 DEF Contains
      <4>2. PICK m \in 1 .. Len(s) : m # i /\ s[m] = x
        BY <1>0, <2>6, <4>1
      <4>3. QED
        BY <1>0, <2>1, <4>2 DEF Contains, IsInjective
    <3>2. ASSUME Contains(s, x), x # e PROVE Contains(t, x)
      <4>1. PICK m \in 1 .. Len(s) : s[m] = x
        BY <3>2 DEF Contains
      <4>2. m # i
        BY <2>1, <3>2, <4>1
      <4>3. \E k \in 1 .. Len(s) - 1 : t[k] = x
        <5>1. CASE m < i
          BY <1>0, <2>6, <4>1, <5>1
        <5>2. CASE m > i
          <6>1. m - 1 \in 1 .. Len(s) - 1 /\ ~(m - 1 < i) /\ (m - 1) + 1 = m
            BY <1>0, <5>2
          <6>2. QED
            BY <2>6, <4>1, <6>1
        <5>3. QED
          BY <1>0, <4>2, <5>1, <5>2
      <4>4. QED
        BY <2>6, <4>3 DEF Contains
    <3>3. QED
      BY <3>1, <3>2
  <2>9. IsInjective(t)
    <3>1. ASSUME NEW a \in 1 .. Len(s) - 1, NEW b \in 1 .. Len(s) - 1, t[a] = t[b]
          PROVE  a = b
      <4> DEFINE old(k) == IF k < i THEN k ELSE k + 1
      <4>1. old(a) \in DOMAIN s /\ old(b) \in DOMAIN s
        BY <1>0
      <4>2. t[a] = s[old(a)] /\ t[b] = s[old(b)]
        BY <2>6
      <4>3. old(a) = old(b)
        <5> HIDE DEF old
        <5>1. QED
          BY <3>1, <4>1, <4>2 DEF IsInjective
      <4>4. QED
        BY <1>0, <4>3
    <3>2. QED
      BY <2>7, <3>1 DEF IsInjective
  <2>10. s # <<>>
    BY <1>2, ContainsEmpty
  <2>11. QED
    BY <2>5, <2>6, <2>8, <2>9, <2>10
<1>3. QED
  BY <1>1, <1>2

-----------------------------------------------------------------------------
(* The owner of a job that it has not added yet may free it, as JobQueue   *)
(* does: the manager's invariants hold among such owners too.              *)
discard(S) ==
  /\ \A j \in S : job[j] = "new"
  /\ job' = [j \in Jobs |-> IF j \in S THEN "freed" ELSE job[j]]
  /\ UNCHANGED <<queueVars, m_processing, m_section, m_userCallBack, workerVars, cpc, historyVars>>

Step == Next \/ \E S \in SUBSET Jobs : discard(S)

Busy == {"work", "call", "erase", "free"}

(* A registered worker is one that has been started and has not left. *)
Roster == m_workers = {w \in Workers : wpc[w] # "none"}

(* No job is twice in the lists. *)
Lists ==
  /\ IsInjective(m_processing)
  /\ \A p \in Priorities : IsInjective(m_jobQueue[p])
  /\ \A p, q \in Priorities : \A j \in Jobs :
       Contains(m_jobQueue[p], j) /\ Contains(m_jobQueue[q], j) => p = q

(* A worker carries one job while it is busy with it and none otherwise. *)
Carries ==
  /\ \A w \in Workers : wpc[w] \in Busy => \E j \in Jobs : wjob[w] = {j}
  /\ \A w \in Workers : wpc[w] \notin Busy => wjob[w] = {}

(* A waiting job is alive and in nobody's hands. *)
QueuedAlone ==
  \A p \in Priorities : \A j \in Jobs : Contains(m_jobQueue[p], j) =>
    job[j] = "live" /\ ~Contains(m_processing, j) /\ \A w \in Workers : j \notin wjob[w]

(* What is being processed has a worker, which has not erased it yet. *)
ProcessedByWorker ==
  \A j \in Jobs : Contains(m_processing, j) => \E w \in Workers : j \in wjob[w] /\ wpc[w] # "free"

(* What a worker carries is alive, and listed until the worker erases it. *)
CarriedAlive ==
  \A w \in Workers : \A j \in wjob[w] :
    job[j] = "live" /\ (wpc[w] # "free" => Contains(m_processing, j))

CarriedOnce == \A v, w \in Workers : \A j \in wjob[v] : j \in wjob[w] => v = w

(* A live job waits or is carried. *)
LiveSomewhere ==
  \A j \in Jobs : job[j] = "live" =>
    (\E p \in Priorities : Contains(m_jobQueue[p], j)) \/ \E w \in Workers : j \in wjob[w]

Ownership ==
  /\ TypeOK
  /\ Roster
  /\ Lists
  /\ Carries
  /\ QueuedAlone
  /\ ProcessedByWorker
  /\ CarriedAlive
  /\ CarriedOnce
  /\ LiveSomewhere

LEMMA OwnershipImplies == Ownership => JobsOwnedOnce
<1> SUFFICES ASSUME Ownership PROVE JobsOwnedOnce
  OBVIOUS
<1> USE DEF Ownership
<1>1. \A w \in Workers, j \in Jobs : Has(w, j) <=> j \in wjob[w]
  BY DEF Carries, Has, Busy
<1>2. ASSUME NEW j \in Jobs
      PROVE  Queued(j) => job[j] = "live" /\ ~Processing(j) /\ \A w \in Workers : ~Has(w, j)
  BY <1>1 DEF QueuedAlone, Queued, Processing
<1>3. ASSUME NEW j \in Jobs
      PROVE  Processing(j) <=> \E w \in Workers : Has(w, j) /\ wpc[w] # "free"
  BY <1>1 DEF ProcessedByWorker, CarriedAlive, Processing
<1>4. ASSUME NEW j \in Jobs, NEW w \in Workers, Has(w, j)
      PROVE  job[j] = "live" /\ \A v \in Workers \ {w} : ~Has(v, j)
  BY <1>1, <1>4 DEF CarriedAlive, CarriedOnce
<1>5. ASSUME NEW j \in Jobs, job[j] = "live"
      PROVE  Queued(j) \/ \E w \in Workers : Has(w, j)
  BY <1>1, <1>5 DEF LiveSomewhere, Queued
<1>6. QED
  BY <1>2, <1>3, <1>4, <1>5 DEF JobsOwnedOnce, Lists

LEMMA MaxWorkersType == \A p \in Priorities : getMaxWorkers(p) \in Nat
<1> SUFFICES ASSUME NEW p \in Priorities PROVE getMaxWorkers(p) \in Nat
  OBVIOUS
<1>1. p \in 0 .. 4 /\ UIntMod \in Nat \ {0} /\ max_workers \in Nat
  BY JobManagerAssumption DEF max_workers, PRIORITY_LOW_PAUSABLE, PRIORITY_DEDICATED
<1>2. (max_workers - (3 - p)) % UIntMod \in Nat
  BY <1>1
<1>3. QED
  BY <1>2 DEF getMaxWorkers, PRIORITY_HIGH

(* A list without repetitions is no longer than the set it is from. *)
LEMMA InjectiveLen ==
  ASSUME NEW S, IsFiniteSet(S), NEW s \in Seq(S), IsInjective(s)
  PROVE  Len(s) <= Cardinality(S)
<1>1. Len(s) \in Nat /\ s \in [1 .. Len(s) -> S]
  BY LenProperties
<1>2. s \in Injection(1 .. Len(s), S)
  BY <1>1 DEF Injection
<1>3. IsFiniteSet(1 .. Len(s)) /\ Cardinality(1 .. Len(s)) = Len(s)
  <2>1. /\ IsFiniteSet(1 .. Len(s))
        /\ Cardinality(1 .. Len(s)) = IF 1 > Len(s) THEN 0 ELSE Len(s) - 1 + 1
    BY <1>1, FS_Interval
  <2>2. QED
    BY <1>1, <2>1
<1>4. Cardinality(1 .. Len(s)) <= Cardinality(S)
  BY <1>2, FS_Injection
<1>5. QED
  BY <1>3, <1>4

(* startWorkers finds a new thread when it needs one. *)
LEMMA NewWorkerExists ==
  ASSUME Ownership, NEW j \in Jobs, job[j] = "new", NEW p \in Priorities,
         Len(m_processing) < getMaxWorkers(p),
         Len(m_processing) >= Cardinality(m_workers)
  PROVE  NewWorker \in Workers /\ wpc[NewWorker] = "none"
<1>1. SUFFICES \E w \in Workers : wpc[w] = "none"
  BY DEF NewWorker
<1>2. SUFFICES ASSUME \A w \in Workers : wpc[w] # "none" PROVE FALSE
  OBVIOUS
<1>3. m_workers = Workers
  BY <1>2 DEF Ownership, Roster
<1>4. ~Contains(m_processing, j)
  BY DEF Ownership, ProcessedByWorker, CarriedAlive
<1>5. m_processing \in Seq(Jobs) /\ IsInjective(m_processing)
  BY DEF Ownership, TypeOK, Lists
<1>6. Append(m_processing, j) \in Seq(Jobs) /\ IsInjective(Append(m_processing, j))
  BY <1>4, <1>5, ContainsAppend
<1>7. Len(Append(m_processing, j)) <= Cardinality(Jobs)
  BY <1>6, JobManagerAssumption, InjectiveLen
<1>8. Len(m_processing) \in Nat /\ Len(Append(m_processing, j)) = Len(m_processing) + 1
  BY <1>5, AppendProperties, LenProperties
<1>9. Cardinality(Jobs) \in Nat /\ Cardinality(Workers) \in Nat
  BY JobManagerAssumption, WorkersAssumption, FS_CardinalityType
<1>10. getMaxWorkers(p) \in Nat
  BY MaxWorkersType
<1>11. QED
  BY <1>3, <1>7, <1>8, <1>9, <1>10, WorkersAssumption

-----------------------------------------------------------------------------
(* Who owns a job, action by action. *)

LEMMA OwnershipAdd ==
  ASSUME Ownership, NEW j \in Jobs, NEW p \in Priorities, NEW cb \in BOOLEAN,
         job[j] = "new", addJob(j, p, cb)
  PROVE  Ownership'
<1>1. CASE ~m_running
  <2>1. job' = [job EXCEPT ![j] = "freed"]
    BY <1>1 DEF addJob
  <2>2. UNCHANGED <<m_jobQueue, m_processing, m_workers, wpc, wjob>>
    BY <1>1 DEF addJob, historyVars
  <2>3. TypeOK'
    BY <1>1 DEF Ownership, TypeOK, addJob, historyVars
  <2>4. Roster' /\ Lists' /\ Carries' /\ ProcessedByWorker' /\ CarriedOnce'
    BY <2>2 DEF Ownership, Roster, Lists, Carries, ProcessedByWorker, CarriedOnce
  <2>5. QueuedAlone' /\ CarriedAlive' /\ LiveSomewhere'
    <3>1. \A k \in Jobs : job'[k] = IF k = j THEN "freed" ELSE job[k]
      BY <2>1 DEF Ownership, TypeOK
    <3>2. \A w \in Workers : wjob[w] \subseteq Jobs
      BY DEF Ownership, TypeOK
    <3>3. QED
      BY <2>2, <3>1, <3>2 DEF Ownership, QueuedAlone, CarriedAlive, LiveSomewhere
  <2>6. QED
    BY <2>3, <2>4, <2>5 DEF Ownership
<1>2. CASE m_running
  <2>1. /\ job' = [job EXCEPT ![j] = "live"]
        /\ m_jobQueue' = [m_jobQueue EXCEPT ![p] = Append(@, j)]
        /\ startWorkers(p)
        /\ UNCHANGED <<m_processing, wjob>>
    BY <1>2 DEF addJob
  <2>2. m_jobQueue[p] \in Seq(Jobs) /\ IsInjective(m_jobQueue[p])
    BY DEF Ownership, TypeOK, Lists
  <2>3. /\ \A q \in Priorities : ~Contains(m_jobQueue[q], j)
        /\ ~Contains(m_processing, j)
        /\ \A w \in Workers : j \notin wjob[w]
    BY DEF Ownership, QueuedAlone, ProcessedByWorker, CarriedAlive
  <2>4. /\ m_jobQueue'[p] \in Seq(Jobs)
        /\ IsInjective(m_jobQueue'[p])
        /\ \A x : Contains(m_jobQueue'[p], x) <=> Contains(m_jobQueue[p], x) \/ x = j
    BY <2>1, <2>2, <2>3, ContainsAppend DEF Ownership, TypeOK
  <2>5. \A q \in Priorities \ {p} : m_jobQueue'[q] = m_jobQueue[q]
    BY <2>1 DEF Ownership, TypeOK
  <2>6. m_jobQueue' \in [Priorities -> Seq(Jobs)]
    BY <2>1, <2>4 DEF Ownership, TypeOK
  <2>7. /\ wpc' \in [Workers -> {"none", "next", "asleep", "remove", "work", "call", "erase", "free"}]
        /\ m_workers' \subseteq Workers
        /\ m_workers' = {w \in Workers : wpc'[w] # "none"}
        /\ \A w \in Workers : wpc'[w] # wpc[w] => wpc[w] \in {"none", "asleep"} /\ wpc'[w] = "next"
    <3>1. CASE UNCHANGED <<wpc, m_workers>>
      BY <3>1 DEF Ownership, TypeOK, Roster
    <3>2. CASE wpc' = NotifyAll /\ UNCHANGED m_workers
      BY <3>2 DEF Ownership, TypeOK, Roster, NotifyAll
    <3>3. CASE /\ Len(m_processing) < getMaxWorkers(p)
               /\ Len(m_processing) >= Cardinality(m_workers)
               /\ wpc' = [wpc EXCEPT ![NewWorker] = "next"]
               /\ m_workers' = m_workers \cup {NewWorker}
      <4>1. NewWorker \in Workers /\ wpc[NewWorker] = "none"
        BY <3>3, NewWorkerExists
      <4>2. QED
        BY <3>3, <4>1 DEF Ownership, TypeOK, Roster
    <3>4. QED
      BY <2>1, <3>1, <3>2, <3>3 DEF startWorkers
  <2>8. nextId \in 0 .. UIntMod - 1
    <3>1. Cardinality(Jobs) \in Nat
      BY JobManagerAssumption, FS_CardinalityType
    <3>2. UIntMod \in Nat /\ UIntMod > 1 /\ m_jobCounter \in Nat
      BY <3>1, JobManagerAssumption DEF Ownership, TypeOK
    <3>3. QED
      BY <3>2 DEF nextId
  <2>9. TypeOK'
    <3>1. m_jobCounter' \in 0 .. UIntMod - 1 /\ m_id' \in [Jobs -> 0 .. UIntMod - 1]
      BY <1>2, <2>8 DEF Ownership, TypeOK, addJob
    <3>2. m_priority' \in [Jobs -> PRIORITY_LOW_PAUSABLE .. PRIORITY_DEDICATED]
      BY <1>2, JobManagerAssumption DEF Ownership, TypeOK, addJob
    <3>3. m_userCallBack' \in [Jobs -> BOOLEAN]
      BY <1>2 DEF Ownership, TypeOK, addJob
    <3>4. job' \in [Jobs -> {"new", "live", "freed"}]
      BY <2>1 DEF Ownership, TypeOK
    <3>5. UNCHANGED <<m_running, m_pauseJobs, m_processing, m_section, wjob, wcall, cpc,
                      answered, silenced, late, overlap>>
      BY DEF addJob, historyVars
    <3>6. QED
      BY <2>6, <2>7, <3>1, <3>2, <3>3, <3>4, <3>5 DEF Ownership, TypeOK
  <2>10. Roster'
    BY <2>7 DEF Roster
  <2>11. Lists'
    BY <2>1, <2>3, <2>4, <2>5 DEF Ownership, Lists
  <2>12. m_processing' = m_processing /\ wjob' = wjob
    BY <2>1
  <2>13. Carries' /\ ProcessedByWorker' /\ CarriedOnce'
    <3>1. \A w \in Workers : wpc'[w] \in Busy <=> wpc[w] \in Busy
      BY <2>7 DEF Busy
    <3>2. \A w \in Workers : wpc'[w] = "free" <=> wpc[w] = "free"
      BY <2>7
    <3>3. Carries' /\ CarriedOnce'
      BY <2>12, <3>1 DEF Ownership, Carries, CarriedOnce
    <3>4. ProcessedByWorker'
      BY <2>12, <3>2 DEF Ownership, ProcessedByWorker
    <3>5. QED
      BY <3>3, <3>4
  <2>14. \A k \in Jobs : job'[k] = IF k = j THEN "live" ELSE job[k]
    BY <2>1 DEF Ownership, TypeOK
  <2>15. QueuedAlone'
    BY <2>1, <2>3, <2>4, <2>5, <2>14 DEF Ownership, QueuedAlone
  <2>16. CarriedAlive'
    <3>1. \A w \in Workers : wpc'[w] = "free" <=> wpc[w] = "free"
      BY <2>7
    <3>2. QED
      BY <2>12, <2>14, <3>1 DEF Ownership, TypeOK, CarriedAlive
  <2>17. LiveSomewhere'
    BY <2>12, <2>4, <2>5, <2>14 DEF Ownership, LiveSomewhere
  <2>18. QED
    BY <2>9, <2>10, <2>11, <2>13, <2>15, <2>16, <2>17 DEF Ownership
<1>3. QED
  BY <1>1, <1>2

(* Steps that touch no list and no job; a worker may move on, but neither  *)
(* takes a job nor erases or frees one.                                    *)
LEMMA OwnershipMove ==
  ASSUME Ownership, TypeOK', Roster',
         UNCHANGED <<m_jobQueue, m_processing, job, wjob>>,
         \A w \in Workers : wpc'[w] \in Busy <=> wpc[w] \in Busy,
         \A w \in Workers : wpc'[w] = "free" <=> wpc[w] = "free"
  PROVE  Ownership'
<1>1. Lists' /\ QueuedAlone' /\ CarriedOnce' /\ LiveSomewhere'
  BY DEF Ownership, Lists, QueuedAlone, CarriedOnce, LiveSomewhere
<1>2. Carries'
  <2>1. \A w \in Workers : wpc'[w] \in Busy <=> wpc[w] \in Busy
    OBVIOUS
  <2>2. Carries /\ wjob' = wjob
    BY DEF Ownership
  <2>3. ASSUME NEW w \in Workers, wpc'[w] \in Busy PROVE \E j \in Jobs : wjob'[w] = {j}
    BY ONLY <2>1, <2>2, <2>3 DEF Carries
  <2>4. ASSUME NEW w \in Workers, wpc'[w] \notin Busy PROVE wjob'[w] = {}
    BY ONLY <2>1, <2>2, <2>4 DEF Carries
  <2>5. QED
    BY ONLY <2>3, <2>4 DEF Carries
<1>3. ProcessedByWorker' /\ CarriedAlive'
  <2>1. \A w \in Workers : wpc'[w] = "free" <=> wpc[w] = "free"
    OBVIOUS
  <2>2. ProcessedByWorker /\ CarriedAlive /\ UNCHANGED <<m_processing, job, wjob>>
    BY DEF Ownership
  <2>3. QED
    BY ONLY <2>1, <2>2 DEF ProcessedByWorker, CarriedAlive
<1>4. QED
  BY <1>1, <1>2, <1>3 DEF Ownership

(* cancelJob and cancelJobs take a job out of the queues and free it if it *)
(* waited there.                                                           *)
LEMMA OwnershipDrop ==
  ASSUME Ownership, TypeOK', NEW j \in Jobs,
         m_jobQueue' = [p \in Priorities |-> RemoveFirst(m_jobQueue[p], j)],
         job' = [job EXCEPT ![j] = IF Queued(j) THEN "freed" ELSE @],
         UNCHANGED <<m_processing, m_workers, wpc, wjob>>
  PROVE  Ownership'
<1>1. ASSUME NEW p \in Priorities
      PROVE  /\ IsInjective(m_jobQueue'[p])
             /\ \A x : Contains(m_jobQueue'[p], x) <=> Contains(m_jobQueue[p], x) /\ x # j
  <2>1. m_jobQueue[p] \in Seq(Jobs) /\ IsInjective(m_jobQueue[p])
    BY DEF Ownership, TypeOK, Lists
  <2>2. m_jobQueue'[p] = RemoveFirst(m_jobQueue[p], j)
    OBVIOUS
  <2>3. QED
    BY <2>1, <2>2, ContainsRemoveFirst
<1>2. \A k \in Jobs : job'[k] = IF k = j /\ Queued(j) THEN "freed" ELSE job[k]
  BY DEF Ownership, TypeOK
<1>3. Roster' /\ Carries' /\ ProcessedByWorker' /\ CarriedOnce'
  BY DEF Ownership, Roster, Carries, ProcessedByWorker, CarriedOnce
<1>4. Lists'
  BY <1>1 DEF Ownership, Lists
<1>5. QueuedAlone'
  BY <1>1, <1>2 DEF Ownership, QueuedAlone
<1>6. CarriedAlive'
  <2>1. ASSUME NEW w \in Workers, NEW k \in wjob[w] PROVE k \in Jobs /\ ~(k = j /\ Queued(j))
    BY <2>1 DEF Ownership, TypeOK, QueuedAlone, Queued
  <2>2. QED
    BY <1>2, <2>1 DEF Ownership, CarriedAlive
<1>7. LiveSomewhere'
  <2>1. ASSUME NEW k \in Jobs, job'[k] = "live"
        PROVE  (\E p \in Priorities : Contains(m_jobQueue'[p], k)) \/ \E w \in Workers : k \in wjob[w]
    <3>1. job[k] = "live" /\ ~(k = j /\ Queued(j))
      BY <1>2, <2>1
    <3>2. QED
      BY <1>1, <3>1 DEF Ownership, LiveSomewhere, Queued
  <2>2. QED
    BY <2>1 DEF LiveSomewhere
<1>8. QED
  BY <1>3, <1>4, <1>5, <1>6, <1>7 DEF Ownership

(* popJob hands the first job of a queue to a worker. *)
LEMMA OwnershipPop ==
  ASSUME Ownership, NEW w \in Workers, wpc[w] = "next", NEW p \in Priorities, popJob(w, p),
         UNCHANGED <<m_running, m_pauseJobs, m_section, m_userCallBack, job, m_workers, wcall, cpc,
                     answered, silenced, late, overlap>>
  PROVE  Ownership'
<1> DEFINE h == Head(m_jobQueue[p])
<1>1. m_jobQueue[p] \in Seq(Jobs) /\ m_jobQueue[p] # <<>> /\ IsInjective(m_jobQueue[p])
  BY DEF Ownership, TypeOK, Lists, popJob, MayPop
<1>2. /\ h \in Jobs
      /\ Contains(m_jobQueue[p], h)
      /\ Tail(m_jobQueue[p]) \in Seq(Jobs)
      /\ \A x : Contains(Tail(m_jobQueue[p]), x) <=> Contains(m_jobQueue[p], x) /\ x # h
      /\ IsInjective(Tail(m_jobQueue[p]))
  BY <1>1, ContainsTail
<1>3. job[h] = "live" /\ ~Contains(m_processing, h) /\ \A v \in Workers : h \notin wjob[v]
  BY <1>2 DEF Ownership, QueuedAlone
<1>4. m_processing \in Seq(Jobs) /\ IsInjective(m_processing)
  BY DEF Ownership, TypeOK, Lists
<1>5. /\ m_processing' \in Seq(Jobs)
      /\ \A x : Contains(m_processing', x) <=> Contains(m_processing, x) \/ x = h
      /\ IsInjective(m_processing')
  BY <1>2, <1>3, <1>4, ContainsAppend DEF popJob
<1>6. m_jobQueue' = [m_jobQueue EXCEPT ![p] = Tail(@)]
  BY DEF popJob
<1>7. \A q \in Priorities : /\ IsInjective(m_jobQueue'[q])
                           /\ \A x \in Jobs : Contains(m_jobQueue'[q], x) <=> Contains(m_jobQueue[q], x) /\ x # h
  BY <1>2, <1>6 DEF Ownership, TypeOK, Lists
<1>8. /\ wjob' = [wjob EXCEPT ![w] = {h}]
      /\ wpc' = [wpc EXCEPT ![w] = "work"]
  BY DEF popJob
<1>9. wjob[w] = {}
  BY DEF Ownership, Carries, Busy
<1> HIDE DEF h
<1>10. TypeOK'
  <2>1. m_jobQueue' \in [Priorities -> Seq(Jobs)]
    BY <1>2, <1>6 DEF Ownership, TypeOK
  <2>2. wjob' \in [Workers -> SUBSET Jobs]
    BY <1>2, <1>8 DEF Ownership, TypeOK
  <2>3. wpc' \in [Workers -> {"none", "next", "asleep", "remove", "work", "call", "erase", "free"}]
    BY <1>8 DEF Ownership, TypeOK
  <2>4. UNCHANGED <<m_jobCounter, m_id, m_priority>>
    BY DEF popJob
  <2>5. QED
    BY <1>5, <2>1, <2>2, <2>3, <2>4 DEF Ownership, TypeOK
<1>11. Roster'
  BY <1>8 DEF Ownership, TypeOK, Roster
<1>12. Lists'
  BY <1>5, <1>7 DEF Ownership, Lists
<1>13. \A v \in Workers : wjob'[v] = IF v = w THEN {h} ELSE wjob[v]
  BY <1>8 DEF Ownership, TypeOK
<1>14. \A v \in Workers : wpc'[v] = IF v = w THEN "work" ELSE wpc[v]
  BY <1>8 DEF Ownership, TypeOK
<1>15. Carries'
  BY <1>2, <1>13, <1>14 DEF Ownership, Carries, Busy
<1>16. QueuedAlone'
  BY <1>5, <1>7, <1>13 DEF Ownership, QueuedAlone
<1>17. ProcessedByWorker'
  BY <1>5, <1>9, <1>13, <1>14 DEF Ownership, ProcessedByWorker
<1>18. CarriedAlive'
  <2>1. ASSUME NEW v \in Workers, NEW k \in wjob'[v]
        PROVE  job'[k] = "live" /\ (wpc'[v] # "free" => Contains(m_processing', k))
    <3>1. CASE v = w
      BY <1>3, <1>5, <1>13, <3>1
    <3>2. CASE v # w
      BY <1>5, <1>13, <1>14, <3>2 DEF Ownership, CarriedAlive
    <3>3. QED
      BY <3>1, <3>2
  <2>2. QED
    BY <2>1 DEF CarriedAlive
<1>19. CarriedOnce'
  BY <1>3, <1>13 DEF Ownership, CarriedOnce
<1>20. LiveSomewhere'
  BY <1>7, <1>9, <1>13 DEF Ownership, LiveSomewhere
<1>21. QED
  BY <1>10, <1>11, <1>12, <1>15, <1>16, <1>17, <1>18, <1>19, <1>20 DEF Ownership

(* onJobComplete erases the item of the job that the worker carries ... *)
LEMMA OwnershipErase ==
  ASSUME Ownership, NEW w \in Workers, completeErase(w)
  PROVE  Ownership'
<1>1. PICK j \in Jobs : wjob[w] = {j}
  BY DEF Ownership, Carries, Busy, completeErase
<1>2. m_processing' = RemoveFirst(m_processing, j)
  BY <1>1 DEF completeErase
<1>3. m_processing \in Seq(Jobs) /\ IsInjective(m_processing)
  BY DEF Ownership, TypeOK, Lists
<1>4. /\ m_processing' \in Seq(Jobs)
      /\ \A x : Contains(m_processing', x) <=> Contains(m_processing, x) /\ x # j
      /\ IsInjective(m_processing')
  BY <1>2, <1>3, ContainsRemoveFirst
<1>5. wpc' = [wpc EXCEPT ![w] = "free"] /\ wpc[w] = "erase"
  BY DEF completeErase
<1>6. UNCHANGED <<m_jobCounter, m_running, m_pauseJobs, m_jobQueue, m_id, m_priority, m_section,
                  m_userCallBack, job, m_workers, wjob, wcall, cpc, answered, silenced, late, overlap>>
  BY DEF completeErase, queueVars, historyVars
<1>7. TypeOK'
  BY <1>4, <1>5, <1>6 DEF Ownership, TypeOK
<1>8. \A v \in Workers : wpc'[v] = IF v = w THEN "free" ELSE wpc[v]
  BY <1>5 DEF Ownership, TypeOK
<1>9. Roster'
  BY <1>5, <1>6, <1>8 DEF Ownership, Roster
<1>10. Lists' /\ CarriedOnce' /\ LiveSomewhere'
  BY <1>4, <1>6 DEF Ownership, Lists, CarriedOnce, LiveSomewhere
<1>11. Carries'
  BY <1>1, <1>6, <1>8 DEF Ownership, Carries, Busy
<1>12. QueuedAlone'
  BY <1>4, <1>6 DEF Ownership, QueuedAlone
<1>13. ProcessedByWorker'
  <2>1. ASSUME NEW k \in Jobs, Contains(m_processing', k)
        PROVE  \E v \in Workers : k \in wjob[v] /\ wpc'[v] # "free"
    <3>1. Contains(m_processing, k) /\ k # j
      BY <1>4, <2>1
    <3>2. PICK v \in Workers : k \in wjob[v] /\ wpc[v] # "free"
      BY <3>1 DEF Ownership, ProcessedByWorker
    <3>3. v # w
      BY <1>1, <3>1, <3>2
    <3>4. QED
      BY <1>8, <3>2, <3>3
  <2>2. QED
    BY <1>6, <2>1 DEF ProcessedByWorker
<1>14. CarriedAlive'
  <2>1. ASSUME NEW v \in Workers, NEW k \in wjob[v]
        PROVE  job[k] = "live" /\ (wpc'[v] # "free" => Contains(m_processing', k))
    <3>1. CASE v = w
      BY <1>8, <3>1 DEF Ownership, CarriedAlive
    <3>2. CASE v # w
      <4>1. k # j
        BY <1>1, <3>2 DEF Ownership, CarriedOnce
      <4>2. QED
        BY <1>4, <1>8, <3>2, <4>1 DEF Ownership, CarriedAlive
    <3>3. QED
      BY <3>1, <3>2
  <2>2. QED
    BY <1>6, <2>1 DEF CarriedAlive
<1>15. QED
  BY <1>7, <1>9, <1>10, <1>11, <1>12, <1>13, <1>14 DEF Ownership

(* ... and frees the job. *)
LEMMA OwnershipFree ==
  ASSUME Ownership, NEW w \in Workers, completeFree(w)
  PROVE  Ownership'
<1>1. PICK j \in Jobs : wjob[w] = {j}
  BY DEF Ownership, Carries, Busy, completeFree
<1>2. /\ wpc[w] = "free"
      /\ wjob' = [wjob EXCEPT ![w] = {}]
      /\ wpc' = [wpc EXCEPT ![w] = "next"]
      /\ wcall' = [wcall EXCEPT ![w] = FALSE]
  BY DEF completeFree
<1>3. \A k \in Jobs : job'[k] = IF k = j THEN "freed" ELSE job[k]
  BY <1>1 DEF completeFree
<1>4. UNCHANGED <<m_jobCounter, m_running, m_pauseJobs, m_jobQueue, m_id, m_priority, m_processing,
                  m_section, m_userCallBack, m_workers, cpc, answered, silenced, late, overlap>>
  BY DEF completeFree, queueVars, historyVars
<1>5. TypeOK'
  <2>1. job' \in [Jobs -> {"new", "live", "freed"}]
    BY DEF completeFree, Ownership, TypeOK
  <2>2. QED
    BY <1>2, <1>4, <2>1 DEF Ownership, TypeOK
<1>6. \A v \in Workers : wpc'[v] = IF v = w THEN "next" ELSE wpc[v]
  BY <1>2 DEF Ownership, TypeOK
<1>7. \A v \in Workers : wjob'[v] = IF v = w THEN {} ELSE wjob[v]
  BY <1>2 DEF Ownership, TypeOK
<1>8. Roster'
  BY <1>2, <1>4, <1>6 DEF Ownership, Roster
<1>9. Lists' /\ CarriedOnce'
  BY <1>4, <1>7 DEF Ownership, Lists, CarriedOnce
<1>10. Carries'
  BY <1>6, <1>7 DEF Ownership, Carries, Busy
<1>11. /\ \A p \in Priorities : ~Contains(m_jobQueue[p], j)
       /\ \A v \in Workers : v # w => j \notin wjob[v]
  BY <1>1 DEF Ownership, QueuedAlone, CarriedOnce
<1>12. QueuedAlone'
  BY <1>3, <1>4, <1>7, <1>11 DEF Ownership, QueuedAlone
<1>13. ProcessedByWorker'
  <2>1. ASSUME NEW k \in Jobs, Contains(m_processing, k)
        PROVE  \E v \in Workers : k \in wjob'[v] /\ wpc'[v] # "free"
    <3>1. PICK v \in Workers : k \in wjob[v] /\ wpc[v] # "free"
      BY <2>1 DEF Ownership, ProcessedByWorker
    <3>2. v # w
      BY <1>2, <3>1
    <3>3. QED
      BY <1>6, <1>7, <3>1, <3>2
  <2>2. QED
    BY <1>4, <2>1 DEF ProcessedByWorker
<1>14. CarriedAlive'
  <2>1. ASSUME NEW v \in Workers, NEW k \in wjob'[v]
        PROVE  job'[k] = "live" /\ (wpc'[v] # "free" => Contains(m_processing, k))
    <3>1. v # w /\ k \in wjob[v] /\ k # j /\ k \in Jobs
      BY <1>7, <1>11 DEF Ownership, TypeOK
    <3>2. QED
      BY <1>3, <1>6, <3>1 DEF Ownership, CarriedAlive
  <2>2. QED
    BY <1>4, <2>1 DEF CarriedAlive
<1>15. LiveSomewhere'
  BY <1>1, <1>3, <1>4, <1>7 DEF Ownership, LiveSomewhere
<1>16. QED
  BY <1>5, <1>8, <1>9, <1>10, <1>12, <1>13, <1>14, <1>15 DEF Ownership

LEMMA OwnershipDiscard ==
  ASSUME Ownership, NEW S \in SUBSET Jobs, discard(S)
  PROVE  Ownership'
<1>1. \A k \in Jobs : job'[k] = IF k \in S THEN "freed" ELSE job[k]
  BY DEF discard
<1>2. \A k \in S : job[k] = "new"
  BY DEF discard
<1>3. UNCHANGED <<m_jobCounter, m_running, m_pauseJobs, m_jobQueue, m_id, m_priority, m_processing,
                  m_section, m_userCallBack, m_workers, wpc, wjob, wcall, cpc,
                  answered, silenced, late, overlap>>
  BY DEF discard, queueVars, workerVars, historyVars
<1>4. TypeOK'
  <2>1. job' \in [Jobs -> {"new", "live", "freed"}]
    BY DEF discard, Ownership, TypeOK
  <2>2. QED
    BY <1>3, <2>1 DEF Ownership, TypeOK
<1>5. Roster' /\ Lists' /\ Carries' /\ ProcessedByWorker' /\ CarriedOnce'
  BY <1>3 DEF Ownership, Roster, Lists, Carries, ProcessedByWorker, CarriedOnce
<1>6. QueuedAlone'
  BY <1>1, <1>2, <1>3 DEF Ownership, QueuedAlone
<1>7. CarriedAlive'
  <2>1. \A v \in Workers : wjob[v] \subseteq Jobs
    BY DEF Ownership, TypeOK
  <2>2. QED
    BY <1>1, <1>2, <1>3, <2>1 DEF Ownership, CarriedAlive
<1>8. LiveSomewhere'
  BY <1>1, <1>3 DEF Ownership, LiveSomewhere
<1>9. QED
  BY <1>4, <1>5, <1>6, <1>7, <1>8 DEF Ownership

LEMMA OwnershipInit == Init => Ownership
<1> SUFFICES ASSUME Init PROVE Ownership
  OBVIOUS
<1>1. TypeOK
  <2>1. /\ <<>> \in Seq(Jobs)
        /\ PRIORITY_LOW_PAUSABLE \in PRIORITY_LOW_PAUSABLE .. PRIORITY_DEDICATED
    BY DEF PRIORITY_LOW_PAUSABLE, PRIORITY_DEDICATED
  <2>2. StartId \in 0 .. UIntMod - 1 /\ 0 \in 0 .. UIntMod - 1
    BY JobManagerAssumption
  <2>3. QED
    BY <2>1, <2>2 DEF Init, TypeOK
<1>2. Lists /\ QueuedAlone /\ ProcessedByWorker
  BY ContainsEmpty, InjectiveEmpty DEF Init, Lists, QueuedAlone, ProcessedByWorker
<1>3. Roster /\ Carries /\ CarriedAlive /\ CarriedOnce /\ LiveSomewhere
  BY DEF Init, Roster, Carries, CarriedAlive, CarriedOnce, LiveSomewhere, Busy
<1>4. QED
  BY <1>1, <1>2, <1>3 DEF Ownership

(* A user's call. *)
LEMMA OwnershipClient ==
  ASSUME Ownership, Client
  PROVE  Ownership'
<1> USE DEF queueVars, workerVars, historyVars
<1>1. ASSUME NEW j \in Jobs, NEW p \in Priorities, NEW cb \in BOOLEAN, job[j] = "new", addJob(j, p, cb)
      PROVE  Ownership'
  BY <1>1, OwnershipAdd
<1>2. ASSUME NEW j \in Jobs, cancelJob(j)
      PROVE  Ownership'
  <2>1. m_jobQueue' \in [Priorities -> Seq(Jobs)]
    BY <1>2, ContainsRemoveFirst DEF cancelJob, Ownership, TypeOK, Lists
  <2>2. TypeOK'
    BY <1>2, <2>1 DEF cancelJob, Ownership, TypeOK
  <2>3. QED
    BY <1>2, <2>2, OwnershipDrop DEF cancelJob
<1>3. CASE pauseJobs \/ unPauseJobs \/ restart \/ cancelJobs
  <2>1. UNCHANGED <<m_jobQueue, m_processing, job, wjob, wpc, m_workers>>
    BY <1>3 DEF pauseJobs, unPauseJobs, restart, cancelJobs
  <2>2. TypeOK'
    BY <1>3 DEF pauseJobs, unPauseJobs, restart, cancelJobs, Ownership, TypeOK
  <2>3. QED
    BY <2>1, <2>2, OwnershipMove DEF Ownership, Roster
<1>4. QED
  BY <1>1, <1>2, <1>3 DEF Client

(* The rest of cancelJobs. *)
LEMMA OwnershipCancelJobs ==
  ASSUME Ownership, cancelJobsStep
  PROVE  Ownership'
<1> USE DEF queueVars, workerVars, historyVars
<1>1. ASSUME NEW j \in Jobs, cancelAbort(j)
      PROVE  Ownership'
  <2>1. m_jobQueue' \in [Priorities -> Seq(Jobs)]
    BY <1>1, ContainsRemoveFirst DEF cancelAbort, Ownership, TypeOK, Lists
  <2>2. TypeOK'
    BY <1>1, <2>1 DEF cancelAbort, Ownership, TypeOK
  <2>3. QED
    BY <1>1, <2>2, OwnershipDrop DEF cancelAbort
<1>2. CASE cancelAborted \/ cancelDone
  <2>1. UNCHANGED <<m_jobQueue, m_processing, job, wjob, wpc, m_workers>>
    BY <1>2 DEF cancelAborted, cancelDone
  <2>2. TypeOK'
    BY <1>2 DEF cancelAborted, cancelDone, Ownership, TypeOK
  <2>3. QED
    BY <2>1, <2>2, OwnershipMove DEF Ownership, Roster
<1>3. CASE cancelNotify
  <2>1. \A w \in Workers : wpc'[w] = IF wpc[w] = "asleep" THEN "next" ELSE wpc[w]
    BY <1>3 DEF cancelNotify, NotifyAll
  <2>2. TypeOK'
    BY <1>3 DEF cancelNotify, NotifyAll, Ownership, TypeOK
  <2>3. Roster'
    BY <1>3, <2>1 DEF cancelNotify, Ownership, Roster
  <2>4. \A w \in Workers : wpc'[w] \in Busy <=> wpc[w] \in Busy
    BY <2>1 DEF Busy
  <2>5. \A w \in Workers : wpc'[w] = "free" <=> wpc[w] = "free"
    BY <2>1
  <2>6. UNCHANGED <<m_jobQueue, m_processing, job, wjob>>
    BY <1>3 DEF cancelNotify
  <2>7. QED
    BY <2>2, <2>3, <2>4, <2>5, <2>6, OwnershipMove
<1>4. QED
  BY <1>1, <1>2, <1>3 DEF cancelJobsStep

(* One worker moves from one state to another with its hands as they are. *)
LEMMA OwnershipWorkerMove ==
  ASSUME Ownership, NEW w \in Workers, NEW to, wpc' = [wpc EXCEPT ![w] = to],
         \/ /\ wpc[w] \in {"next", "asleep", "remove"} /\ to \in {"next", "asleep", "remove"}
            /\ m_workers' = m_workers
         \/ wpc[w] = "remove" /\ to = "none" /\ m_workers' = m_workers \ {w}
         \/ wpc[w] \in {"work", "call"} /\ to \in {"call", "erase"} /\ m_workers' = m_workers,
         UNCHANGED <<m_jobCounter, m_running, m_pauseJobs, m_jobQueue, m_id, m_priority, m_processing,
                     m_section, m_userCallBack, job, wjob, cpc, silenced, overlap>>,
         wcall' \in [Workers -> BOOLEAN], answered' \subseteq Jobs, late' \subseteq Jobs
  PROVE  Ownership'
<1>1. \A v \in Workers : wpc'[v] = IF v = w THEN to ELSE wpc[v]
  BY DEF Ownership, TypeOK
<1>2. TypeOK'
  <2>1. wpc' \in [Workers -> {"none", "next", "asleep", "remove", "work", "call", "erase", "free"}]
    BY DEF Ownership, TypeOK
  <2>2. m_workers' \subseteq Workers
    BY DEF Ownership, TypeOK
  <2>3. QED
    BY <2>1, <2>2 DEF Ownership, TypeOK
<1>3. Roster'
  BY <1>1 DEF Ownership, Roster
<1>4. \A v \in Workers : wpc'[v] \in Busy <=> wpc[v] \in Busy
  BY <1>1 DEF Busy
<1>5. \A v \in Workers : wpc'[v] = "free" <=> wpc[v] = "free"
  BY <1>1
<1>6. QED
  BY <1>2, <1>3, <1>4, <1>5, OwnershipMove

LEMMA OwnershipWorker ==
  ASSUME Ownership, NEW w \in Workers, process(w) \/ spuriousWake(w)
  PROVE  Ownership'
<1> USE DEF queueVars, workerVars, historyVars
<1>0. wcall \in [Workers -> BOOLEAN] /\ answered \subseteq Jobs /\ late \subseteq Jobs /\ wjob[w] \subseteq Jobs
  BY DEF Ownership, TypeOK
<1>1. CASE getNextJob(w)
  <2>1. ASSUME NEW p \in Priorities, popJob(w, p)
        PROVE  Ownership'
    BY <1>1, <2>1, OwnershipPop DEF getNextJob
  <2>2. ASSUME NEW to \in {"asleep", "remove"}, wpc' = [wpc EXCEPT ![w] = to],
               UNCHANGED <<m_jobCounter, m_jobQueue, m_id, m_priority, m_processing, wjob>>
        PROVE  Ownership'
    <3>1. wpc[w] = "next" /\ UNCHANGED <<m_running, m_pauseJobs, m_section, m_userCallBack, job, m_workers,
                                         wcall, cpc, answered, silenced, late, overlap>>
      BY <1>1 DEF getNextJob
    <3>2. QED
      BY <1>0, <2>2, <3>1, OwnershipWorkerMove
  <2>3. QED
    BY <1>1, <2>1, <2>2 DEF getNextJob
<1>2. CASE spuriousWake(w)
  BY <1>0, <1>2, OwnershipWorkerMove DEF spuriousWake
<1>3. CASE removeWorker(w)
  BY <1>0, <1>3, OwnershipWorkerMove DEF removeWorker
<1>4. CASE onJobComplete(w)
  <2>1. wcall' \in [Workers -> BOOLEAN]
    BY <1>0, <1>4 DEF onJobComplete
  <2>2. QED
    BY <1>0, <1>4, <2>1, OwnershipWorkerMove DEF onJobComplete
<1>5. CASE completeCall(w)
  <2>1. answered' \subseteq Jobs /\ late' \subseteq Jobs
    BY <1>0, <1>5 DEF completeCall
  <2>2. QED
    BY <1>0, <1>5, <2>1, OwnershipWorkerMove DEF completeCall
<1>6. CASE completeErase(w)
  BY <1>6, OwnershipErase
<1>7. CASE completeFree(w)
  BY <1>7, OwnershipFree
<1>8. QED
  BY <1>1, <1>2, <1>3, <1>4, <1>5, <1>6, <1>7 DEF process

LEMMA OwnershipStep == Ownership /\ [Step]_managerVars => Ownership'
<1> SUFFICES ASSUME Ownership, [Step]_managerVars PROVE Ownership'
  OBVIOUS
<1>1. CASE UNCHANGED managerVars
  BY <1>1 DEF managerVars, queueVars, workerVars, historyVars, Ownership, TypeOK, Roster, Lists, Carries,
              QueuedAlone, ProcessedByWorker, CarriedAlive, CarriedOnce, LiveSomewhere
<1>2. CASE Next
  BY <1>2, OwnershipClient, OwnershipCancelJobs, OwnershipWorker DEF Next
<1>3. ASSUME NEW S \in SUBSET Jobs, discard(S)
      PROVE  Ownership'
  BY <1>3, OwnershipDiscard
<1>4. QED
  BY <1>1, <1>2, <1>3 DEF Step

(* The variables keep their types: in particular startWorkers always finds *)
(* a thread to start.                                                      *)
THEOREM JobManagerTypes == Spec => []TypeOK
<1>1. [Next]_managerVars => [Step]_managerVars
  BY DEF Step
<1>2. Ownership => TypeOK
  BY DEF Ownership
<1>3. QED
  BY <1>1, <1>2, OwnershipInit, OwnershipStep, PTL DEF Spec

(* Every accepted job is in one queue once or with one worker, is alive    *)
(* there and is not lost, whatever cancelJob, cancelJobs, restart and the  *)
(* workers do at the same time.                                            *)
THEOREM EveryJobOwnedOnce == Spec => []JobsOwnedOnce
<1>1. [Next]_managerVars => [Step]_managerVars
  BY DEF Step
<1>2. QED
  BY <1>1, OwnershipInit, OwnershipStep, OwnershipImplies, PTL DEF Spec

-----------------------------------------------------------------------------
(* The ids.  Behind(i) is how many jobs ago the id i was given out: the    *)
(* ids run through 1 .. UIntMod - 1 and start over.                        *)

Accepted == {j \in Jobs : m_id[j] # 0}

Behind(i) == IF i <= m_jobCounter THEN m_jobCounter - i ELSE m_jobCounter - i + (UIntMod - 1)

(* The ids given out so far are the latest ones, each of one job.          *)
IdWindow ==
  /\ \A j \in Jobs : job[j] = "new" => m_id[j] = 0
  /\ \A j \in Jobs : job[j] = "live" => m_id[j] # 0
  /\ \A j \in Jobs : m_id[j] # 0 => m_jobCounter # 0 /\ Behind(m_id[j]) < Cardinality(Accepted)
  /\ \A j, k \in Jobs : m_id[j] # 0 /\ m_id[j] = m_id[k] => j = k

LEMMA IdWindowAdd ==
  ASSUME Ownership, IdWindow, NEW j \in Jobs, NEW p \in Priorities, NEW cb \in BOOLEAN,
         job[j] = "new", addJob(j, p, cb)
  PROVE  IdWindow'
<1>1. CASE ~m_running
  <2>1. \A k \in Jobs : job'[k] = IF k = j THEN "freed" ELSE job[k]
    BY <1>1 DEF addJob, Ownership, TypeOK
  <2>2. UNCHANGED <<m_jobCounter, m_id>>
    BY <1>1 DEF addJob
  <2>3. QED
    BY <2>1, <2>2 DEF IdWindow, Accepted, Behind
<1>2. CASE m_running
  <2> DEFINE c == m_jobCounter
             n == nextId
             N == Cardinality(Accepted)
  <2>1. m_jobCounter' = n /\ m_id' = [m_id EXCEPT ![j] = n]
    BY <1>2 DEF addJob
  <2>2. \A k \in Jobs : job'[k] = IF k = j THEN "live" ELSE job[k]
    BY <1>2 DEF addJob, Ownership, TypeOK
  <2>3. m_id[j] = 0
    BY DEF IdWindow
  <2>4. IsFiniteSet(Jobs) /\ Accepted \in SUBSET Jobs
    BY JobManagerAssumption DEF Accepted
  <2>5. IsFiniteSet(Accepted) /\ N \in Nat /\ Cardinality(Jobs) \in Nat
    BY <2>4, FS_Subset, FS_CardinalityType
  <2>6. /\ UIntMod \in Nat /\ UIntMod > 1
        /\ c \in 0 .. UIntMod - 1
        /\ m_id \in [Jobs -> 0 .. UIntMod - 1]
    BY <2>5, JobManagerAssumption DEF Ownership, TypeOK
  <2>7. n = (IF c = UIntMod - 1 THEN 1 ELSE c + 1) /\ n # 0 /\ n \in 1 .. UIntMod - 1
    <3>1. CASE c = UIntMod - 1
      <4>1. (c + 1) % UIntMod = 0
        BY <2>6, <3>1
      <4>2. QED
        BY <2>6, <3>1, <4>1 DEF nextId
    <3>2. CASE c # UIntMod - 1
      <4>1. (c + 1) % UIntMod = c + 1
        BY <2>6, <3>2
      <4>2. QED
        BY <2>6, <3>2, <4>1 DEF nextId
    <3>3. QED
      BY <3>1, <3>2
  <2> HIDE DEF n
  <2>8. \A k \in Jobs : m_id'[k] = IF k = j THEN n ELSE m_id[k]
    BY <2>1, <2>6
  <2>9. Accepted' = Accepted \cup {j}
    BY <2>7, <2>8 DEF Accepted
  <2>10. Cardinality(Accepted') = N + 1
    <3>1. j \notin Accepted
      BY <2>3 DEF Accepted
    <3>2. QED
      BY <2>5, <2>9, <3>1, FS_AddElement
  <2>11. N + 1 <= Cardinality(Jobs) /\ Cardinality(Jobs) < UIntMod - 1
    <3>1. Accepted' \in SUBSET Jobs
      BY <2>4, <2>9
    <3>2. QED
      BY <2>4, <2>10, <3>1, FS_Subset, JobManagerAssumption
  <2> HIDE DEF N
  <2>12. ASSUME NEW k \in Jobs, k # j, m_id[k] # 0
         PROVE  /\ m_id[k] # n
                /\ (IF m_id[k] <= n THEN n - m_id[k] ELSE n - m_id[k] + (UIntMod - 1)) < N + 1
    <3>1. /\ c # 0
          /\ (IF m_id[k] <= c THEN c - m_id[k] ELSE c - m_id[k] + (UIntMod - 1)) < N
      BY <2>12 DEF IdWindow, Behind, N
    <3>2. m_id[k] \in 1 .. UIntMod - 1
      BY <2>6, <2>12
    <3>3. QED
      BY <2>5, <2>6, <2>7, <2>11, <3>1, <3>2
  <2>13. \A k \in Jobs : m_id'[k] # 0 => m_jobCounter' # 0 /\ Behind(m_id[k])' < Cardinality(Accepted')
    <3>1. ASSUME NEW k \in Jobs, m_id'[k] # 0
          PROVE  (IF m_id'[k] <= n THEN n - m_id'[k] ELSE n - m_id'[k] + (UIntMod - 1)) < N + 1
      <4>1. CASE k = j
        BY <2>5, <2>6, <2>7, <2>8, <4>1
      <4>2. CASE k # j
        BY <2>8, <2>12, <3>1, <4>2
      <4>3. QED
        BY <4>1, <4>2
    <3>2. QED
      BY <2>1, <2>7, <2>10, <3>1 DEF Behind
  <2>14. \A i, k \in Jobs : m_id'[i] # 0 /\ m_id'[i] = m_id'[k] => i = k
    BY <2>7, <2>8, <2>12 DEF IdWindow
  <2>15. \A k \in Jobs : (job'[k] = "new" => m_id'[k] = 0) /\ (job'[k] = "live" => m_id'[k] # 0)
    BY <2>2, <2>7, <2>8 DEF IdWindow
  <2>16. QED
    BY <2>13, <2>14, <2>15 DEF IdWindow
<1>3. QED
  BY <1>1, <1>2

LEMMA IdWindowStep == Ownership /\ IdWindow /\ [Step]_managerVars => IdWindow'
<1> SUFFICES ASSUME Ownership, IdWindow, [Step]_managerVars PROVE IdWindow'
  OBVIOUS
<1>1. ASSUME NEW j \in Jobs, NEW p \in Priorities, NEW cb \in BOOLEAN, job[j] = "new", addJob(j, p, cb)
      PROVE  IdWindow'
  BY <1>1, IdWindowAdd
<1>2. ASSUME UNCHANGED <<m_jobCounter, m_id>>,
             \A k \in Jobs : job'[k] = job[k] \/ job'[k] = "freed"
      PROVE  IdWindow'
  BY <1>2 DEF IdWindow, Accepted, Behind
<1>3. CASE \/ \E j \in Jobs : cancelJob(j) \/ cancelAbort(j)
           \/ \E w \in Workers : completeFree(w)
           \/ \E S \in SUBSET Jobs : discard(S)
  <2>1. UNCHANGED <<m_jobCounter, m_id>>
    BY <1>3 DEF cancelJob, cancelAbort, completeFree, discard, queueVars
  <2>2. \A k \in Jobs : job'[k] = job[k] \/ job'[k] = "freed"
    BY <1>3 DEF cancelJob, cancelAbort, completeFree, discard, Ownership, TypeOK
  <2>3. QED
    BY <1>2, <2>1, <2>2
<1>4. CASE \/ pauseJobs \/ unPauseJobs \/ restart \/ cancelJobs \/ cancelAborted \/ cancelNotify \/ cancelDone
           \/ \E w \in Workers : \/ getNextJob(w) \/ removeWorker(w) \/ onJobComplete(w)
                                 \/ completeCall(w) \/ completeErase(w) \/ spuriousWake(w)
           \/ UNCHANGED managerVars
  <2>1. UNCHANGED <<m_jobCounter, m_id, job>>
    BY <1>4 DEF pauseJobs, unPauseJobs, restart, cancelJobs, cancelAborted, cancelNotify, cancelDone,
                getNextJob, popJob, removeWorker, onJobComplete, completeCall, completeErase,
                spuriousWake, managerVars, queueVars
  <2>2. QED
    BY <1>2, <2>1
<1>5. QED
  BY <1>1, <1>3, <1>4 DEF Step, Next, Client, cancelJobsStep, process

(* Two live jobs never have the same id, and none has the id 0 that means  *)
(* refused, also when m_jobCounter wraps: cancelJob hits the job meant.    *)
THEOREM IdsStayDistinct == Spec => []IdsDistinct
<1>1. [Next]_managerVars => [Step]_managerVars
  BY DEF Step
<1>2. Init => IdWindow
  BY DEF Init, IdWindow
<1>3. IdWindow => IdsDistinct
  BY DEF IdWindow, IdsDistinct
<1>4. QED
  BY <1>1, <1>2, <1>3, OwnershipInit, OwnershipStep, IdWindowStep, PTL DEF Spec

-----------------------------------------------------------------------------
(* The workers.  What cancelJobs has stopped is empty until the restart,   *)
(* and while the manager runs no worker is on its way out, unless restart  *)
(* and cancelJobs overlap.                                                 *)

Stopped ==
  /\ cpc = "abort" <=> m_section = "held"
  /\ cpc = "abort" => ~m_running
  /\ ~m_running /\ cpc = "idle" => m_workers = {}
  /\ ~m_running /\ cpc # "abort" => \A p \in Priorities : m_jobQueue[p] = <<>>
  /\ m_running /\ ~overlap => cpc = "idle" /\ \A w \in Workers : wpc[w] # "remove"

Staffing == Stopped /\ JobHasWorker

(* A worker that will look at the queues. *)
Active(w) == wpc[w] \notin {"none", "asleep", "remove"}

LEMMA StaffingAdd ==
  ASSUME Ownership, Staffing, NEW j \in Jobs, NEW p \in Priorities, NEW cb \in BOOLEAN,
         job[j] = "new", addJob(j, p, cb)
  PROVE  Staffing'
<1>0. UNCHANGED <<m_running, m_pauseJobs, m_processing, m_section, cpc, overlap>>
  BY DEF addJob, historyVars
<1>1. CASE ~m_running
  <2>1. UNCHANGED <<m_jobQueue, wpc, m_workers>>
    BY <1>1 DEF addJob
  <2>2. QED
    BY <1>0, <2>1 DEF Staffing, Stopped, JobHasWorker, MayPop
<1>2. CASE m_running
  <2>1. startWorkers(p) /\ m_jobQueue' = [m_jobQueue EXCEPT ![p] = Append(@, j)]
    BY <1>2 DEF addJob
  <2>2. \A q \in Priorities \ {p} : m_jobQueue'[q] = m_jobQueue[q]
    BY <2>1 DEF Ownership, TypeOK
  <2>3. \A q \in Priorities : MayPop(q)' => MayPop(q) \/ (q = p /\ Len(m_processing) < getMaxWorkers(p))
    BY <1>0, <2>2 DEF MayPop
  <2>4. CASE Len(m_processing) >= getMaxWorkers(p) /\ UNCHANGED <<wpc, m_workers>>
    <3>1. Len(m_processing) \in Nat /\ getMaxWorkers(p) \in Nat
      BY MaxWorkersType, LenProperties DEF Ownership, TypeOK
    <3>2. JobHasWorker'
      BY <1>0, <2>3, <2>4, <3>1 DEF Staffing, JobHasWorker
    <3>3. Stopped'
      BY <1>0, <1>2, <2>4 DEF Staffing, Stopped
    <3>4. QED
      BY <3>2, <3>3 DEF Staffing
  <2>5. CASE /\ Len(m_processing) < Cardinality(m_workers)
             /\ wpc' = NotifyAll
             /\ UNCHANGED m_workers
    <3>1. m_workers # {}
      <4>1. Len(m_processing) \in Nat
        BY LenProperties DEF Ownership, TypeOK
      <4>2. QED
        BY <2>5, <4>1, FS_EmptySet
    <3>2. \A w \in Workers : wpc'[w] = IF wpc[w] = "asleep" THEN "next" ELSE wpc[w]
      BY <2>5 DEF NotifyAll
    <3>3. Stopped'
      BY <1>0, <1>2, <2>5, <3>2 DEF Staffing, Stopped
    <3>4. JobHasWorker'
      <4>1. ASSUME m_running, ~overlap
            PROVE  \E w \in m_workers' : wpc'[w] \notin {"none", "asleep", "remove"}
        <5>1. PICK w \in m_workers : TRUE
          BY <3>1
        <5>2. w \in Workers /\ wpc[w] # "none" /\ wpc[w] # "remove"
          BY <4>1 DEF Ownership, Roster, Staffing, Stopped
        <5>3. QED
          BY <2>5, <3>2, <5>2
      <4>2. QED
        BY <1>0, <4>1 DEF JobHasWorker
    <3>5. QED
      BY <3>3, <3>4 DEF Staffing
  <2>6. CASE /\ Len(m_processing) < getMaxWorkers(p)
             /\ Len(m_processing) >= Cardinality(m_workers)
             /\ wpc' = [wpc EXCEPT ![NewWorker] = "next"]
             /\ m_workers' = m_workers \cup {NewWorker}
    <3>1. NewWorker \in Workers /\ wpc[NewWorker] = "none"
      BY <2>6, NewWorkerExists
    <3>2. \A w \in Workers : wpc'[w] = IF w = NewWorker THEN "next" ELSE wpc[w]
      BY <2>6 DEF Ownership, TypeOK
    <3>3. Stopped'
      BY <1>0, <1>2, <3>2 DEF Staffing, Stopped
    <3>4. JobHasWorker'
      BY <2>6, <3>1, <3>2 DEF JobHasWorker
    <3>5. QED
      BY <3>3, <3>4 DEF Staffing
  <2>7. QED
    BY <2>1, <2>4, <2>5, <2>6 DEF startWorkers
<1>3. QED
  BY <1>1, <1>2

(* Steps that start no job and send nobody to sleep or away. *)
LEMMA StaffingKeep ==
  ASSUME Staffing, Stopped',
         \A p \in Priorities \ {PRIORITY_LOW_PAUSABLE} : MayPop(p)' => MayPop(p),
         m_running' /\ ~overlap' => m_running /\ ~overlap,
         m_workers' = m_workers,
         \A w \in m_workers : Active(w) => wpc'[w] \notin {"none", "asleep", "remove"}
  PROVE  Staffing'
  BY DEF Staffing, JobHasWorker, Active

LEMMA StaffingClient ==
  ASSUME Ownership, Staffing, Client
  PROVE  Staffing'
<1> USE DEF queueVars, workerVars, historyVars
<1>1. ASSUME NEW j \in Jobs, NEW p \in Priorities, NEW cb \in BOOLEAN, job[j] = "new", addJob(j, p, cb)
      PROVE  Staffing'
  BY <1>1, StaffingAdd
<1>2. ASSUME NEW j \in Jobs, cancelJob(j)
      PROVE  Staffing'
  <2>1. \A p \in Priorities : m_jobQueue[p] = <<>> => m_jobQueue'[p] = <<>>
    BY <1>2, ContainsRemoveFirst DEF cancelJob, Ownership, TypeOK, Lists
  <2>2. UNCHANGED <<m_running, m_pauseJobs, m_processing, m_section, cpc, overlap, wpc, m_workers>>
    BY <1>2 DEF cancelJob
  <2>3. Stopped'
    BY <2>1, <2>2 DEF Staffing, Stopped
  <2>4. \A p \in Priorities : MayPop(p)' => MayPop(p)
    BY <2>1, <2>2 DEF MayPop
  <2>5. QED
    BY <2>2, <2>3, <2>4, StaffingKeep DEF Active
<1>3. CASE pauseJobs \/ unPauseJobs
  <2>1. UNCHANGED <<m_running, m_jobQueue, m_processing, m_section, cpc, overlap, wpc, m_workers>>
    BY <1>3 DEF pauseJobs, unPauseJobs
  <2>2. Stopped'
    BY <2>1 DEF Staffing, Stopped
  <2>3. \A p \in Priorities \ {PRIORITY_LOW_PAUSABLE} : MayPop(p)' => MayPop(p)
    BY <2>1 DEF MayPop
  <2>4. QED
    BY <2>1, <2>2, <2>3, StaffingKeep DEF Active
<1>4. CASE restart
  <2>1. UNCHANGED <<m_jobQueue, m_processing, m_section, cpc, wpc, m_workers>> /\ m_running' /\ ~m_running
    BY <1>4 DEF restart
  <2>2. overlap' = (overlap \/ cpc # "idle") /\ cpc # "abort"
    BY <1>4 DEF restart, Staffing, Stopped
  <2>3. \A p \in Priorities : m_jobQueue[p] = <<>>
    BY <2>1, <2>2 DEF Staffing, Stopped
  <2>4. Stopped'
    <3>1. ASSUME ~overlap' PROVE cpc = "idle" /\ \A w \in Workers : wpc[w] # "remove"
      BY <2>1, <2>2, <3>1 DEF Staffing, Stopped, Ownership, Roster
    <3>2. QED
      BY <2>1, <2>2, <3>1 DEF Staffing, Stopped
  <2>5. JobHasWorker'
    BY <2>1, <2>3 DEF JobHasWorker, MayPop
  <2>6. QED
    BY <2>4, <2>5 DEF Staffing
<1>5. CASE cancelJobs
  <2>1. ~m_running' /\ cpc' = "abort" /\ m_section' = "held"
    BY <1>5 DEF cancelJobs, Ownership, TypeOK
  <2>2. QED
    BY <2>1 DEF Staffing, Stopped, JobHasWorker
<1>6. QED
  BY <1>1, <1>2, <1>3, <1>4, <1>5 DEF Client

LEMMA StaffingCancelJobs ==
  ASSUME Ownership, Staffing, cancelJobsStep
  PROVE  Staffing'
<1> USE DEF queueVars, workerVars, historyVars
<1>1. ASSUME NEW j \in Jobs, cancelAbort(j)
      PROVE  Staffing'
  <2>1. UNCHANGED <<m_running, m_section, cpc, overlap, wpc, m_workers>> /\ cpc = "abort"
    BY <1>1 DEF cancelAbort
  <2>2. ~m_running
    BY <2>1 DEF Staffing, Stopped
  <2>3. QED
    BY <2>1, <2>2 DEF Staffing, Stopped, JobHasWorker
<1>2. CASE cancelAborted
  <2>1. /\ UNCHANGED <<m_running, m_jobQueue, overlap, wpc, m_workers>>
        /\ cpc = "abort" /\ m_section' = "free"
        /\ cpc' = IF m_workers = {} THEN "idle" ELSE "drain"
    BY <1>2 DEF cancelAborted
  <2>2. ~m_running
    BY <2>1 DEF Staffing, Stopped
  <2>3. \A p \in Priorities : m_jobQueue[p] = <<>>
    <3> SUFFICES ASSUME NEW p0 \in Priorities, m_jobQueue[p0] # <<>> PROVE FALSE
      OBVIOUS
    <3>1. Priorities \subseteq 0 .. 4
      BY JobManagerAssumption DEF PRIORITY_LOW_PAUSABLE, PRIORITY_DEDICATED
    <3>2. PICK p \in Priorities : m_jobQueue[p] # <<>> /\ \A q \in Priorities : q < p => m_jobQueue[q] = <<>>
      BY <3>1
    <3>3. Head(m_jobQueue[p]) \in Jobs
      BY <3>2, HeadTailProperties DEF Ownership, TypeOK
    <3>4. abortQueued(Head(m_jobQueue[p]))
      BY <3>2 DEF abortQueued
    <3>5. QED
      BY <1>2, <3>3, <3>4 DEF cancelAborted
  <2>4. QED
    BY <2>1, <2>2, <2>3 DEF Staffing, Stopped, JobHasWorker
<1>3. CASE cancelNotify
  <2>1. UNCHANGED <<m_running, m_pauseJobs, m_jobQueue, m_processing, m_section, cpc, overlap, m_workers>>
    BY <1>3 DEF cancelNotify
  <2>2. \A w \in Workers : wpc'[w] = IF wpc[w] = "asleep" THEN "next" ELSE wpc[w]
    BY <1>3 DEF cancelNotify, NotifyAll
  <2>3. Stopped'
    BY <2>1, <2>2 DEF Staffing, Stopped
  <2>4. \A p \in Priorities : MayPop(p)' => MayPop(p)
    BY <2>1 DEF MayPop
  <2>5. \A w \in m_workers : Active(w) => wpc'[w] \notin {"none", "asleep", "remove"}
    BY <2>2 DEF Active, Ownership, TypeOK
  <2>6. QED
    BY <2>1, <2>3, <2>4, <2>5, StaffingKeep
<1>4. CASE cancelDone
  <2>1. UNCHANGED <<m_running, m_pauseJobs, m_jobQueue, m_processing, m_section, overlap, wpc, m_workers>>
    BY <1>4 DEF cancelDone
  <2>2. cpc = "drain" /\ m_workers = {} /\ cpc' = "idle"
    BY <1>4 DEF cancelDone
  <2>3. Stopped'
    BY <2>1, <2>2 DEF Staffing, Stopped
  <2>4. \A p \in Priorities : MayPop(p)' => MayPop(p)
    BY <2>1 DEF MayPop
  <2>5. QED
    BY <2>1, <2>3, <2>4, StaffingKeep DEF Active
<1>5. QED
  BY <1>1, <1>2, <1>3, <1>4 DEF cancelJobsStep

LEMMA StaffingWorker ==
  ASSUME Ownership, Staffing, NEW w \in Workers, process(w) \/ spuriousWake(w)
  PROVE  Staffing'
<1> USE DEF queueVars, workerVars, historyVars
<1>0. wpc \in [Workers -> {"none", "next", "asleep", "remove", "work", "call", "erase", "free"}]
  BY DEF Ownership, TypeOK
<1>1. ASSUME NEW to \in {"next", "work", "call", "erase", "free"},
             wpc[w] # "none", wpc' = [wpc EXCEPT ![w] = to], Stopped',
             UNCHANGED <<m_running, overlap, m_workers>>
      PROVE  Staffing'
  <2>1. w \in m_workers' /\ wpc'[w] \notin {"none", "asleep", "remove"}
    BY <1>0, <1>1 DEF Ownership, Roster
  <2>2. QED
    BY <1>1, <2>1 DEF Staffing, JobHasWorker
<1>2. ASSUME NEW to \in {"next", "asleep", "work", "call", "erase", "free"},
             wpc' = [wpc EXCEPT ![w] = to], UNCHANGED <<m_running, m_section, cpc, overlap, m_workers>>,
             \A p \in Priorities : m_jobQueue[p] = <<>> => m_jobQueue'[p] = <<>>
      PROVE  Stopped'
  <2>1. \A v \in Workers : wpc'[v] = IF v = w THEN to ELSE wpc[v]
    BY <1>0, <1>2
  <2>2. QED
    BY <1>2, <2>1 DEF Staffing, Stopped
<1>3. CASE getNextJob(w)
  <2>0. wpc[w] = "next" /\ UNCHANGED <<m_running, m_pauseJobs, m_section, cpc, overlap, m_workers>>
    BY <1>3 DEF getNextJob
  <2>1. ASSUME NEW p \in Priorities, popJob(w, p)
        PROVE  Staffing'
    <3>1. m_jobQueue[p] # <<>> /\ m_jobQueue' = [m_jobQueue EXCEPT ![p] = Tail(@)]
          /\ wpc' = [wpc EXCEPT ![w] = "work"]
      BY <2>1 DEF popJob, MayPop
    <3>2. \A q \in Priorities : m_jobQueue[q] = <<>> => m_jobQueue'[q] = <<>>
      BY <3>1 DEF Ownership, TypeOK
    <3>3. QED
      BY <1>1, <1>2, <2>0, <3>1, <3>2
  <2>2. CASE /\ ~\E p \in Priorities : MayPop(p)
             /\ wpc' = [wpc EXCEPT ![w] = "asleep"]
             /\ UNCHANGED <<m_jobQueue, m_processing>>
    <3>1. Stopped'
      BY <1>2, <2>0, <2>2
    <3>2. \A p \in Priorities : ~MayPop(p)'
      BY <2>0, <2>2 DEF MayPop
    <3>3. QED
      BY <3>1, <3>2 DEF Staffing, JobHasWorker
  <2>3. CASE /\ ~m_running
             /\ wpc' = [wpc EXCEPT ![w] = "remove"]
             /\ UNCHANGED <<m_jobQueue, m_processing>>
    <3>1. Stopped'
      BY <2>0, <2>3 DEF Staffing, Stopped
    <3>2. QED
      BY <2>0, <2>3, <3>1 DEF Staffing, JobHasWorker
  <2>4. QED
    BY <1>3, <2>1, <2>2, <2>3 DEF getNextJob
<1>4. CASE spuriousWake(w)
  BY <1>1, <1>2, <1>4 DEF spuriousWake
<1>5. CASE onJobComplete(w)
  BY <1>1, <1>2, <1>5 DEF onJobComplete
<1>6. CASE completeCall(w)
  BY <1>1, <1>2, <1>6 DEF completeCall
<1>7. CASE completeErase(w)
  BY <1>1, <1>2, <1>7 DEF completeErase
<1>8. CASE completeFree(w)
  BY <1>1, <1>2, <1>8 DEF completeFree
<1>9. CASE removeWorker(w)
  <2>1. /\ wpc[w] = "remove" /\ m_workers' = m_workers \ {w}
        /\ wpc' = [wpc EXCEPT ![w] = "none"]
        /\ UNCHANGED <<m_running, m_jobQueue, m_section, cpc, overlap>>
    BY <1>9 DEF removeWorker
  <2>2. ~(m_running /\ ~overlap)
    BY <2>1 DEF Staffing, Stopped
  <2>3. QED
    BY <2>1, <2>2 DEF Staffing, Stopped, JobHasWorker
<1>10. QED
  BY <1>3, <1>4, <1>5, <1>6, <1>7, <1>8, <1>9 DEF process

LEMMA StaffingStep == Ownership /\ Staffing /\ [Step]_managerVars => Staffing'
<1> SUFFICES ASSUME Ownership, Staffing, [Step]_managerVars PROVE Staffing'
  OBVIOUS
<1>1. CASE UNCHANGED managerVars
  BY <1>1 DEF managerVars, queueVars, workerVars, historyVars, Staffing, Stopped, JobHasWorker, MayPop
<1>2. CASE Next
  BY <1>2, StaffingClient, StaffingCancelJobs, StaffingWorker DEF Next
<1>3. ASSUME NEW S \in SUBSET Jobs, discard(S)
      PROVE  Staffing'
  BY <1>3 DEF discard, queueVars, workerVars, historyVars, Staffing, Stopped, JobHasWorker, MayPop
<1>4. QED
  BY <1>1, <1>2, <1>3 DEF Step

(* No wake-up is lost: while the manager runs and a job may be started,    *)
(* some worker is on its way to the queues, unless restart overlapped with *)
(* cancelJobs or the job is a pausable one.                                *)
THEOREM StartableJobHasWorker == Spec => []JobHasWorker
<1>1. [Next]_managerVars => [Step]_managerVars
  BY DEF Step
<1>2. Init => Staffing
  BY DEF Init, Staffing, Stopped, JobHasWorker, MayPop
<1>3. Staffing => JobHasWorker
  BY DEF Staffing
<1>4. QED
  BY <1>1, <1>2, <1>3, OwnershipInit, OwnershipStep, StaffingStep, PTL DEF Spec

-----------------------------------------------------------------------------
(* Lists of jobs with different keys, which find takes for different jobs. *)

KeysDiffer(s) == \A a, b \in DOMAIN s : a < b => ~Equal(s[a], s[b])

(* What is left of s, in the order of s. *)
Thinned(t, s) ==
  \A a, b \in DOMAIN t : a < b =>
    \E c, d \in DOMAIN s : c < d /\ t[a] = s[c] /\ t[b] = s[d]

LEMMA RemoveAtKeys ==
  ASSUME NEW s \in Seq(Jobs), KeysDiffer(s), NEW i \in 1 .. Len(s)
  PROVE  /\ RemoveAt(s, i) \in Seq(Jobs)
         /\ Len(RemoveAt(s, i)) = Len(s) - 1
         /\ Thinned(RemoveAt(s, i), s)
         /\ KeysDiffer(RemoveAt(s, i))
         /\ \A x : Contains(RemoveAt(s, i), x) <=> Contains(s, x) /\ ~Equal(x, s[i])
<1> DEFINE t == RemoveAt(s, i)
           old(k) == IF k < i THEN k ELSE k + 1
<1>0. Len(s) \in Nat /\ DOMAIN s = 1 .. Len(s)
  BY LenProperties
<1>1. /\ t \in Seq(Jobs)
      /\ Len(t) = Len(s) - 1
      /\ \A k \in 1 .. Len(s) - 1 : t[k] = IF k < i THEN s[k] ELSE s[k + 1]
  BY RemoveAtProperties
<1>2. DOMAIN t = 1 .. Len(s) - 1
  BY <1>1, LenProperties
<1> HIDE DEF t
<1>3. \A k \in 1 .. Len(s) - 1 : old(k) \in 1 .. Len(s) /\ old(k) # i /\ t[k] = s[old(k)]
  BY <1>0, <1>1
<1>4. \A j, k \in 1 .. Len(s) - 1 : j < k => old(j) < old(k)
  BY <1>0
<1>5. Thinned(t, s)
  <2> HIDE DEF old
  <2>1. QED
    BY <1>0, <1>2, <1>3, <1>4 DEF Thinned
<1>6. KeysDiffer(t)
  <2> HIDE DEF old
  <2>1. QED
    BY <1>0, <1>2, <1>3, <1>4 DEF KeysDiffer
<1>7. \A k \in 1 .. Len(s) : k # i => ~Equal(s[k], s[i])
  <2> SUFFICES ASSUME NEW k \in 1 .. Len(s), k # i PROVE ~Equal(s[k], s[i])
    OBVIOUS
  <2>1. k < i \/ i < k
    BY <1>0
  <2>2. QED
    BY <1>0, <2>1 DEF KeysDiffer, Equal
<1>8. ASSUME NEW x PROVE Contains(t, x) <=> Contains(s, x) /\ ~Equal(x, s[i])
  <2>1. ASSUME Contains(t, x) PROVE Contains(s, x) /\ ~Equal(x, s[i])
    <3>1. PICK k \in 1 .. Len(s) - 1 : t[k] = x
      BY <1>1, <2>1 DEF Contains
    <3> HIDE DEF old
    <3>2. QED
      BY <1>3, <1>7, <3>1 DEF Contains
  <2>2. ASSUME Contains(s, x), ~Equal(x, s[i]) PROVE Contains(t, x)
    <3>1. PICK m \in 1 .. Len(s) : s[m] = x
      BY <2>2 DEF Contains
    <3>2. m # i
      BY <2>2, <3>1 DEF Equal
    <3>3. CASE m < i
      <4>1. m \in 1 .. Len(s) - 1 /\ t[m] = x
        BY <1>0, <1>1, <3>1, <3>3
      <4>2. QED
        BY <1>1, <4>1 DEF Contains
    <3>4. CASE m > i
      <4>1. m - 1 \in 1 .. Len(s) - 1 /\ ~(m - 1 < i) /\ (m - 1) + 1 = m
        BY <1>0, <3>4
      <4>2. t[m - 1] = x
        BY <1>1, <3>1, <4>1
      <4>3. QED
        BY <1>1, <4>1, <4>2 DEF Contains
    <3>5. QED
      BY <1>0, <3>2, <3>3, <3>4
  <2>3. QED
    BY <2>1, <2>2
<1>9. QED
  BY <1>1, <1>5, <1>6, <1>8 DEF t

LEMMA FrontTailRemove ==
  ASSUME NEW s \in Seq(Jobs), s # <<>>
  PROVE  /\ Len(s) \in 1 .. Len(s) /\ 1 \in 1 .. Len(s)
         /\ Front(s) = RemoveAt(s, Len(s)) /\ Last(s) = s[Len(s)]
         /\ Tail(s) = RemoveAt(s, 1) /\ Head(s) = s[1]
<1>0. Len(s) \in Nat \ {0} /\ DOMAIN s = 1 .. Len(s) /\ \A k \in 1 .. Len(s) : s[k] \in Jobs
  BY LenProperties, EmptySeq, ElementOfSeq
<1>1. Len(s) \in 1 .. Len(s) /\ 1 \in 1 .. Len(s)
  BY <1>0
<1>2. /\ Front(s) \in Seq(Jobs) /\ Len(Front(s)) = Len(s) - 1
      /\ \A k \in 1 .. Len(s) - 1 : Front(s)[k] = s[k]
  <2>1. \A k \in 1 .. Len(s) - 1 : s[k] \in Jobs
    BY <1>0
  <2>2. 1 \in Int /\ Len(s) - 1 \in Int
    BY <1>0
  <2>3. /\ SubSeq(s, 1, Len(s) - 1) \in Seq(Jobs)
        /\ Len(SubSeq(s, 1, Len(s) - 1)) = IF 1 <= Len(s) - 1 THEN Len(s) - 1 - 1 + 1 ELSE 0
        /\ \A k \in 1 .. Len(s) - 1 - 1 + 1 : SubSeq(s, 1, Len(s) - 1)[k] = s[1 + k - 1]
    BY <2>1, <2>2, SubSeqProperties
  <2>4. QED
    BY <1>0, <2>3 DEF Front
<1>3. /\ Tail(s) \in Seq(Jobs) /\ Len(Tail(s)) = Len(s) - 1
      /\ \A k \in 1 .. Len(s) - 1 : Tail(s)[k] = s[k + 1]
  BY HeadTailProperties
<1>4. /\ RemoveAt(s, Len(s)) \in Seq(Jobs) /\ Len(RemoveAt(s, Len(s))) = Len(s) - 1
      /\ \A k \in 1 .. Len(s) - 1 : RemoveAt(s, Len(s))[k] = IF k < Len(s) THEN s[k] ELSE s[k + 1]
  BY <1>1, RemoveAtProperties
<1>5. /\ RemoveAt(s, 1) \in Seq(Jobs) /\ Len(RemoveAt(s, 1)) = Len(s) - 1
      /\ \A k \in 1 .. Len(s) - 1 : RemoveAt(s, 1)[k] = IF k < 1 THEN s[k] ELSE s[k + 1]
  BY <1>1, RemoveAtProperties
<1>6. Front(s) = RemoveAt(s, Len(s))
  <2>1. \A k \in 1 .. Len(s) - 1 : Front(s)[k] = RemoveAt(s, Len(s))[k]
    BY <1>0, <1>2, <1>4
  <2>2. QED
    BY <1>2, <1>4, <2>1, SeqEqual
<1>7. Tail(s) = RemoveAt(s, 1)
  <2>1. \A k \in 1 .. Len(s) - 1 : Tail(s)[k] = RemoveAt(s, 1)[k]
    BY <1>0, <1>3, <1>5
  <2>2. QED
    BY <1>3, <1>5, <2>1, SeqEqual
<1>8. Head(s) = s[1]
  OBVIOUS
<1>9. QED
  BY <1>1, <1>6, <1>7, <1>8 DEF Last

(* The queue's find and erase. *)
LEMMA WithoutKeys ==
  ASSUME NEW s \in Seq(Jobs), KeysDiffer(s), NEW j
  PROVE  /\ Without(s, j) \in Seq(Jobs)
         /\ Len(Without(s, j)) = Len(s) \/ Len(Without(s, j)) = Len(s) - 1
         /\ Thinned(Without(s, j), s)
         /\ KeysDiffer(Without(s, j))
         /\ \A x : Contains(Without(s, j), x) <=> Contains(s, x) /\ ~Equal(x, j)
<1>0. Len(s) \in Nat /\ DOMAIN s = 1 .. Len(s)
  BY LenProperties
<1>1. CASE ~\E i \in 1 .. Len(s) : Equal(s[i], j)
  <2>1. Without(s, j) = s
    BY <1>1 DEF Without, RemoveFirstMatch
  <2>2. Thinned(s, s)
    BY DEF Thinned
  <2>3. \A x : Contains(s, x) => ~Equal(x, j)
    BY <1>1 DEF Contains
  <2>4. QED
    BY <2>1, <2>2, <2>3
<1>2. CASE \E i \in 1 .. Len(s) : Equal(s[i], j)
  <2>1. PICK i \in 1 .. Len(s) : Equal(s[i], j)
    BY <1>2
  <2> DEFINE I == {k \in 1 .. Len(s) : Equal(s[k], j)}
  <2>2. I = {i}
    <3>1. ASSUME NEW k \in 1 .. Len(s), Equal(s[k], j) PROVE k = i
      <4>1. Equal(s[k], s[i]) /\ Equal(s[i], s[k])
        BY <2>1, <3>1 DEF Equal
      <4>2. ~(k < i) /\ ~(i < k)
        BY <1>0, <4>1 DEF KeysDiffer
      <4>3. QED
        BY <1>0, <4>2
    <3>2. QED
      BY <2>1, <3>1
  <2>3. Without(s, j) = RemoveAt(s, IF I # {} THEN Min(I) ELSE 0)
    BY <1>2 DEF Without, RemoveFirstMatch, SelectInSeq
  <2>4. Min({i}) = i
    BY <1>0 DEF Min
  <2>5. Without(s, j) = RemoveAt(s, i)
    BY <2>2, <2>3, <2>4
  <2>6. \A x : Equal(x, s[i]) <=> Equal(x, j)
    BY <2>1 DEF Equal
  <2>7. QED
    BY <2>5, <2>6, RemoveAtKeys
<1>3. QED
  BY <1>1, <1>2

(* A new job goes to the back of the line, which is the front of the list, *)
(* or with m_lifo to the other end.                                        *)
LEMMA ConsKeys ==
  ASSUME NEW s \in Seq(Jobs), NEW j \in Jobs
  PROVE  /\ <<j>> \o s \in Seq(Jobs)
         /\ Len(<<j>> \o s) = Len(s) + 1
         /\ (<<j>> \o s)[1] = j
         /\ \A k \in 1 .. Len(s) : (<<j>> \o s)[k + 1] = s[k]
         /\ \A x : Contains(<<j>> \o s, x) <=> Contains(s, x) \/ x = j
         /\ KeysDiffer(s) /\ ~Listed(s, j) => KeysDiffer(<<j>> \o s)
<1> DEFINE t == <<j>> \o s
<1>0. Len(s) \in Nat /\ DOMAIN s = 1 .. Len(s) /\ <<j>> \in Seq(Jobs) /\ Len(<<j>>) = 1 /\ <<j>>[1] = j
  BY LenProperties
<1>1. /\ t \in Seq(Jobs) /\ Len(t) = 1 + Len(s)
      /\ \A i \in 1 .. 1 + Len(s) : t[i] = IF i <= 1 THEN <<j>>[i] ELSE s[i - 1]
  BY <1>0, ConcatProperties
<1>2. DOMAIN t = 1 .. Len(s) + 1
  BY <1>0, <1>1, LenProperties
<1> HIDE DEF t
<1>3. t[1] = j
  BY <1>0, <1>1
<1>4. ASSUME NEW k \in 1 .. Len(s) PROVE t[k + 1] = s[k]
  <2>1. k + 1 \in 1 .. 1 + Len(s) /\ ~(k + 1 <= 1) /\ (k + 1) - 1 = k
    BY <1>0
  <2>2. QED
    BY <1>1, <2>1
<1>5. ASSUME NEW k \in 1 .. Len(s) + 1, k # 1 PROVE k - 1 \in 1 .. Len(s) /\ t[k] = s[k - 1]
  BY <1>0, <1>1, <1>5
<1>6. ASSUME NEW x PROVE Contains(t, x) <=> Contains(s, x) \/ x = j
  <2>1. ASSUME Contains(t, x) PROVE Contains(s, x) \/ x = j
    <3>1. PICK k \in 1 .. Len(s) + 1 : t[k] = x
      BY <1>0, <1>1, <2>1 DEF Contains
    <3>2. QED
      BY <1>3, <1>5, <3>1 DEF Contains
  <2>2. ASSUME Contains(s, x) PROVE Contains(t, x)
    <3>1. PICK k \in 1 .. Len(s) : s[k] = x
      BY <2>2 DEF Contains
    <3>2. k + 1 \in 1 .. Len(t) /\ t[k + 1] = x
      BY <1>0, <1>1, <1>4, <3>1
    <3>3. QED
      BY <3>2 DEF Contains
  <2>3. ASSUME x = j PROVE Contains(t, x)
    <3>1. 1 \in 1 .. Len(t)
      BY <1>0, <1>1
    <3>2. QED
      BY <1>3, <2>3, <3>1 DEF Contains
  <2>4. QED
    BY <2>1, <2>2, <2>3
<1>7. ASSUME KeysDiffer(s), ~Listed(s, j) PROVE KeysDiffer(t)
  <2>1. ASSUME NEW a \in 1 .. Len(s) + 1, NEW b \in 1 .. Len(s) + 1, a < b PROVE ~Equal(t[a], t[b])
    <3>1. b - 1 \in 1 .. Len(s) /\ t[b] = s[b - 1]
      BY <1>0, <1>5, <2>1
    <3>2. CASE a = 1
      BY <1>0, <1>3, <1>7, <3>1, <3>2 DEF Listed, Equal
    <3>3. CASE a # 1
      <4>1. a - 1 \in 1 .. Len(s) /\ t[a] = s[a - 1] /\ a - 1 < b - 1
        BY <1>0, <1>5, <2>1, <3>3
      <4>2. QED
        BY <1>0, <1>7, <3>1, <4>1 DEF KeysDiffer
    <3>4. QED
      BY <3>2, <3>3
  <2>2. QED
    BY <1>2, <2>1 DEF KeysDiffer
<1>8. QED
  BY <1>0, <1>1, <1>3, <1>4, <1>6, <1>7 DEF t

LEMMA AppendKeys ==
  ASSUME NEW s \in Seq(Jobs), NEW j \in Jobs, KeysDiffer(s), ~Listed(s, j)
  PROVE  KeysDiffer(Append(s, j))
<1>0. Len(s) \in Nat /\ DOMAIN s = 1 .. Len(s)
  BY LenProperties
<1>1. /\ Append(s, j) \in Seq(Jobs) /\ Len(Append(s, j)) = Len(s) + 1
      /\ \A i \in 1 .. Len(s) : Append(s, j)[i] = s[i]
      /\ Append(s, j)[Len(s) + 1] = j
  BY AppendProperties
<1>2. DOMAIN Append(s, j) = 1 .. Len(s) + 1
  BY <1>1, LenProperties
<1>3. ASSUME NEW a \in 1 .. Len(s) + 1, NEW b \in 1 .. Len(s) + 1, a < b
      PROVE  ~Equal(Append(s, j)[a], Append(s, j)[b])
  <2>1. a \in 1 .. Len(s) /\ Append(s, j)[a] = s[a]
    BY <1>0, <1>1, <1>3
  <2>2. CASE b = Len(s) + 1
    BY <1>0, <1>1, <2>1, <2>2 DEF Listed
  <2>3. CASE b \in 1 .. Len(s)
    BY <1>0, <1>1, <1>3, <2>1, <2>3 DEF KeysDiffer
  <2>4. QED
    BY <1>0, <2>2, <2>3
<1>4. QED
  BY <1>2, <1>3 DEF KeysDiffer

-----------------------------------------------------------------------------
(* The queue's own invariant, next to the manager's. *)

(* The job whose onJobAbort comes next. *)
NextAbort(j) == abortQueued(j) \/ abortProcessing(j)

QueueTypes ==
  /\ jq_jobQueue \in Seq(Jobs) /\ jq_processing \in Seq(Jobs)
  /\ qpc \in [QThreads -> {"out", "add", "told", "cancel", "cancelAll"}]
  /\ added \in Seq(Jobs) /\ completed \in Seq(Jobs) /\ cancelled \in BOOLEAN

(* The queue's mutex is held by the one thread that is inside the queue. *)
Holder ==
  /\ jq_section = {} \/ \E t \in QThreads : jq_section = {t}
  /\ \A t \in QThreads : qpc[t] \in {"add", "cancel", "cancelAll"} <=> jq_section = {t}

(* Users call the queue, workers and the canceller are told of a job. *)
Callers ==
  /\ \A u \in Users : qpc[u] # "told"
  /\ \A w \in Workers : qpc[w] \in {"out", "add", "told"} /\ (qpc[w] # "out" => wpc[w] = "call" /\ wcall[w])
  /\ qpc[Canceller] \in {"out", "add", "told"}

(* A thread goes on to the manager when there is a job and room for it. *)
Room == \A t \in QThreads : qpc[t] = "add" => jq_jobQueue # <<>> /\ Len(jq_processing) < m_jobsAtOnce

(* The job of which the canceller is telling is off the list already, and  *)
(* will be the one that cancelJobs drops.                                  *)
Aborting ==
  qpc[Canceller] # "out" =>
    cpc = "abort" /\ \E j \in Jobs : NextAbort(j) /\ m_userCallBack[j] /\ ~Contains(jq_processing, j)

KeysApart ==
  /\ KeysDiffer(jq_jobQueue)
  /\ KeysDiffer(jq_processing)
  /\ \A j, k \in Jobs : Contains(jq_jobQueue, j) /\ Contains(jq_processing, k) => ~Equal(j, k)

Waiting == \A j \in Jobs : Contains(jq_jobQueue, j) => job[j] = "new"

(* A listed job is alive, will call back, and its worker has not yet told. *)
HandedOut ==
  \A j \in Jobs : Contains(jq_processing, j) =>
    /\ job[j] = "live" /\ m_userCallBack[j]
    /\ \A w \in Workers : j \in wjob[w] => wpc[w] = "work" \/ (wpc[w] = "call" /\ wcall[w] /\ qpc[w] = "out")

Manager == Ownership /\ IdWindow /\ Staffing

QueueInv == QueueTypes /\ Holder /\ Callers /\ Room /\ Aborting /\ KeysApart /\ Waiting /\ HandedOut

LEMMA QueueInvInit == JQInit => Manager /\ QueueInv
<1> SUFFICES ASSUME JQInit PROVE Manager /\ QueueInv
  OBVIOUS
<1>1. Init
  BY DEF JQInit
<1>2. Ownership
  BY <1>1, OwnershipInit
<1>3. IdWindow /\ Staffing
  BY <1>1 DEF Init, IdWindow, Staffing, Stopped, JobHasWorker, MayPop
<1>4. /\ jq_section = {} /\ jq_jobQueue = <<>> /\ jq_processing = <<>> /\ added = <<>> /\ completed = <<>>
      /\ cancelled = FALSE /\ qpc = [t \in QThreads |-> "out"]
  BY DEF JQInit
<1>5. Users \subseteq QThreads /\ Workers \subseteq QThreads /\ Canceller \in QThreads
  BY DEF QThreads
<1>6. QueueTypes /\ Holder /\ Callers /\ Room /\ Aborting
  <2>1. \A t \in QThreads : qpc[t] = "out"
    BY <1>4
  <2>2. QueueTypes
    <3>1. <<>> \in Seq(Jobs)
      OBVIOUS
    <3>2. qpc \in [QThreads -> {"out", "add", "told", "cancel", "cancelAll"}]
      BY <1>4
    <3>3. QED
      BY <1>4, <3>1, <3>2 DEF QueueTypes
  <2>3. Holder
    BY <1>4, <2>1 DEF Holder
  <2>4. Callers /\ Room /\ Aborting
    BY <1>5, <2>1 DEF Callers, Room, Aborting
  <2>5. QED
    BY <2>2, <2>3, <2>4
<1>7. KeysApart /\ Waiting /\ HandedOut
  BY <1>4, ContainsEmpty DEF KeysApart, KeysDiffer, Waiting, HandedOut
<1>8. QED
  BY <1>2, <1>3, <1>6, <1>7 DEF Manager, QueueInv

-----------------------------------------------------------------------------
(* Every step of the queue is one of the manager, one that frees jobs that *)
(* nobody has added yet, or none at all for the manager.                   *)
LEMMA StepOfManager ==
  ASSUME Manager, QueueInv, [JQNext]_jqVars
  PROVE  [Step]_managerVars
<1> USE DEF QueueInv
<1>1. CASE UNCHANGED jqVars
  BY <1>1 DEF jqVars
<1>2. CASE managerCall \/ abortCalled \/ cancellerStep
  BY <1>2 DEF managerCall, abortCalled, cancellerStep, Step, Next, Client, cancelJobsStep
<1>3. CASE abortNotify \/ \E w \in Workers : workerNotify(w)
  BY <1>3 DEF abortNotify, workerNotify, jqNotify
<1>4. CASE \E w \in Workers : workerCalled(w) \/ workerStep(w)
  BY <1>4 DEF workerCalled, workerStep, Step, Next, process
<1>5. ASSUME NEW u \in Users, NEW j \in Jobs, jqAddJob(u, j)
      PROVE  [Step]_managerVars
  <2>1. CASE UNCHANGED job
    BY <1>5, <2>1 DEF jqAddJob, managerVars
  <2>2. CASE job' = [job EXCEPT ![j] = "freed"]
    <3>1. job' = [k \in Jobs |-> IF k \in {j} THEN "freed" ELSE job[k]]
      BY <2>2 DEF Manager, Ownership, TypeOK
    <3>2. discard({j})
      BY <1>5, <3>1 DEF jqAddJob, discard
    <3>3. QED
      BY <3>2 DEF Step
  <2>3. QED
    BY <1>5, <2>1, <2>2 DEF jqAddJob
<1>6. ASSUME NEW u \in Users, NEW j \in Jobs, jqCancelWaiting(u, j)
      PROVE  [Step]_managerVars
  <2>1. job' = [k \in Jobs |-> IF k \in {j} THEN "freed" ELSE job[k]]
    BY <1>6 DEF jqCancelWaiting, Manager, Ownership, TypeOK
  <2>2. job[j] = "new"
    BY <1>6 DEF jqCancelWaiting, Waiting
  <2>3. discard({j})
    BY <1>6, <2>1, <2>2 DEF jqCancelWaiting, discard
  <2>4. QED
    BY <2>3 DEF Step
<1>7. ASSUME NEW u \in Users, jqCancelJob(u) \/ jqCancelJobs(u)
      PROVE  [Step]_managerVars
  BY <1>7 DEF jqCancelJob, jqCancelJobs
<1>8. ASSUME NEW t \in QThreads, jqAddNext(t)
      PROVE  [Step]_managerVars
  <2>1. jq_jobQueue \in Seq(Jobs) /\ jq_jobQueue # <<>>
    BY <1>8 DEF jqAddNext, Room, QueueTypes
  <2>2. Last(jq_jobQueue) \in Jobs /\ Contains(jq_jobQueue, Last(jq_jobQueue))
    BY <2>1, FrontTailRemove, ElementOfSeq DEF Contains
  <2>3. job[Last(jq_jobQueue)] = "new"
    BY <2>2 DEF Waiting
  <2>4. QED
    BY <1>8, <2>2, <2>3, JobQueueAssumption DEF jqAddNext, Step, Next, Client
<1>9. ASSUME NEW j \in Jobs, Contains(jq_processing, j), cancelJob(j)
      PROVE  [Step]_managerVars
  <2>1. m_id[j] # 0
    BY <1>9 DEF HandedOut, Manager, IdWindow
  <2>2. QED
    BY <1>9, <2>1 DEF Step, Next, Client
<1>10. ASSUME NEW t \in QThreads, jqCancelHanded(t) \/ jqCancelFirst(t)
       PROVE  [Step]_managerVars
  <2>1. jq_processing \in Seq(Jobs)
    BY DEF QueueTypes
  <2>2. PICK i \in 1 .. Len(jq_processing) : cancelJob(jq_processing[i])
    BY <1>10, <2>1, FrontTailRemove, LenProperties DEF jqCancelHanded, jqCancelFirst
  <2>3. jq_processing[i] \in Jobs /\ Contains(jq_processing, jq_processing[i])
    BY <2>1, <2>2, ElementOfSeq DEF Contains
  <2>4. QED
    BY <1>9, <2>2, <2>3
<1>11. ASSUME NEW t \in QThreads, jqCancelRest(t)
       PROVE  [Step]_managerVars
  <2> DEFINE S == {j \in Jobs : Contains(jq_jobQueue, j)}
  <2>1. job' = [k \in Jobs |-> IF k \in S THEN "freed" ELSE job[k]]
    BY <1>11 DEF jqCancelRest
  <2>2. \A j \in S : job[j] = "new"
    BY DEF Waiting
  <2>3. discard(S)
    BY <1>11, <2>1, <2>2 DEF jqCancelRest, discard
  <2>4. S \in SUBSET Jobs
    OBVIOUS
  <2>5. QED
    BY <2>3, <2>4 DEF Step
<1>12. QED
  BY <1>1, <1>2, <1>3, <1>4, <1>5, <1>6, <1>7, <1>8, <1>10, <1>11 DEF JQNext, userCall, callStep

LEMMA ManagerStep ==
  ASSUME Manager, QueueInv, [JQNext]_jqVars
  PROVE  Manager'
  BY StepOfManager, OwnershipStep, IdWindowStep, StaffingStep DEF Manager

-----------------------------------------------------------------------------
(* What the steps do to the control state. *)

LEMMA Threads ==
  /\ Users \subseteq QThreads /\ Workers \subseteq QThreads /\ Canceller \in QThreads
  /\ \A u \in Users : u \notin Workers /\ u # Canceller
  /\ Canceller \notin Workers
  BY JobQueueAssumption DEF QThreads

(* A thread that has the mutex, or takes it while it is free, goes on. *)
LEMMA HolderMove ==
  ASSUME QueueInv, NEW t \in QThreads, jq_section = {} \/ jq_section = {t},
         NEW to \in {"out", "add", "told", "cancel", "cancelAll"},
         qpc' = [qpc EXCEPT ![t] = to],
         jq_section' = IF to \in {"add", "cancel", "cancelAll"} THEN {t} ELSE {}
  PROVE  /\ qpc' \in [QThreads -> {"out", "add", "told", "cancel", "cancelAll"}]
         /\ \A s \in QThreads : qpc'[s] = IF s = t THEN to ELSE qpc[s]
         /\ Holder'
<1>1. qpc \in [QThreads -> {"out", "add", "told", "cancel", "cancelAll"}]
  BY DEF QueueInv, QueueTypes
<1>2. \A s \in QThreads : qpc'[s] = IF s = t THEN to ELSE qpc[s]
  BY <1>1
<1>3. \A s \in QThreads : s # t => qpc[s] \notin {"add", "cancel", "cancelAll"}
  BY DEF QueueInv, Holder
<1>4. Holder'
  BY <1>2, <1>3 DEF Holder
<1>5. QED
  BY <1>1, <1>2, <1>4

LEMMA NextJobMove ==
  ASSUME QueueInv, NEW t \in QThreads, jq_section = {} \/ jq_section = {t},
         NEW to \in {"add", "out", "told"}, qpc' = [qpc EXCEPT ![t] = to],
         jq_section' = IF to = "add" THEN {t} ELSE {}
  PROVE  /\ qpc' \in [QThreads -> {"out", "add", "told", "cancel", "cancelAll"}]
         /\ \A s \in QThreads : qpc'[s] = IF s = t THEN to ELSE qpc[s]
         /\ Holder'
         /\ \A s \in QThreads : qpc'[s] = "add" => s = t
<1>1. jq_section' = IF to \in {"add", "cancel", "cancelAll"} THEN {t} ELSE {}
  OBVIOUS
<1>2. /\ qpc' \in [QThreads -> {"out", "add", "told", "cancel", "cancelAll"}]
      /\ \A s \in QThreads : qpc'[s] = IF s = t THEN to ELSE qpc[s]
      /\ Holder'
  BY <1>1, HolderMove
<1>3. ASSUME NEW s \in QThreads, qpc'[s] = "add" PROVE s = t
  BY <1>1, <1>2, <1>3 DEF Holder
<1>4. QED
  BY <1>2, <1>3

LEMMA NextAbortSame ==
  ASSUME UNCHANGED <<m_jobQueue, m_processing, m_userCallBack>>
  PROVE  \A j : NextAbort(j)' <=> NextAbort(j)
  BY DEF NextAbort, abortQueued, abortProcessing

LEMMA AbortingKeep ==
  ASSUME Aborting, UNCHANGED <<m_jobQueue, m_processing, m_userCallBack, cpc>>,
         qpc'[Canceller] # "out" => qpc[Canceller] # "out",
         \A k \in Jobs : Contains(jq_processing', k) => Contains(jq_processing, k)
  PROVE  Aborting'
  BY NextAbortSame DEF Aborting

(* While the manager's mutex is free the canceller is not calling back. *)
LEMMA CancellerOut ==
  ASSUME Manager, QueueInv, m_section = "free"
  PROVE  qpc[Canceller] = "out"
  BY DEF Manager, Staffing, Stopped, QueueInv, Aborting

LEMMA HandedKeep ==
  ASSUME HandedOut,
         \A k \in Jobs : Contains(jq_processing', k) =>
           Contains(jq_processing, k) /\ job'[k] = job[k] /\ m_userCallBack'[k] = m_userCallBack[k],
         \A w \in Workers : \A k \in Jobs : k \in wjob'[w] /\ Contains(jq_processing', k) =>
           /\ k \in wjob[w] /\ wpc'[w] = wpc[w] /\ wcall'[w] = wcall[w]
           /\ qpc[w] = "out" => qpc'[w] = "out"
  PROVE  HandedOut'
<1> SUFFICES ASSUME NEW j \in Jobs, Contains(jq_processing', j)
             PROVE  /\ job'[j] = "live" /\ m_userCallBack'[j]
                    /\ \A w \in Workers : j \in wjob'[w] =>
                         wpc'[w] = "work" \/ (wpc'[w] = "call" /\ wcall'[w] /\ qpc'[w] = "out")
  BY DEF HandedOut
<1>1. /\ job[j] = "live" /\ m_userCallBack[j]
      /\ \A w \in Workers : j \in wjob[w] => wpc[w] = "work" \/ (wpc[w] = "call" /\ wcall[w] /\ qpc[w] = "out")
  BY DEF HandedOut
<1>2. QED
  BY <1>1

LEMMA Unlisted ==
  ASSUME NEW s \in Seq(Jobs), NEW j, NEW k, ~Listed(s, j), Contains(s, k)
  PROVE  ~Equal(j, k) /\ ~Equal(k, j)
<1>1. PICK i \in 1 .. Len(s) : s[i] = k
  BY DEF Contains
<1>2. i \in DOMAIN s
  BY <1>1, LenProperties
<1>3. QED
  BY <1>1, <1>2 DEF Listed, Equal

LEMMA InvAddJob ==
  ASSUME Manager, QueueInv, NEW u \in Users, NEW j \in Jobs, jqAddJob(u, j)
  PROVE  QueueInv'
<1> USE DEF QueueInv
<1>0. /\ qpc[u] = "out" /\ jq_section = {} /\ job[j] = "new" /\ ~Contains(jq_jobQueue, j)
      /\ UNCHANGED <<m_jobQueue, m_processing, m_userCallBack, cpc, wpc, wjob, wcall, jq_processing, completed,
                     cancelled>>
  BY DEF jqAddJob, queueVars, workerVars
<1>1. ~Contains(jq_processing, j)
  BY <1>0 DEF HandedOut
<1>2. CASE /\ job' = [job EXCEPT ![j] = "freed"]
           /\ UNCHANGED <<jq_section, jq_jobQueue, qpc, added>>
  <2>1. \A k \in Jobs : k # j => job'[k] = job[k]
    BY <1>2 DEF Manager, Ownership, TypeOK
  <2>2. QueueTypes' /\ Holder' /\ Callers' /\ Room' /\ KeysApart'
    BY <1>0, <1>2 DEF QueueTypes, Holder, Callers, Room, KeysApart, KeysDiffer
  <2>3. Waiting'
    BY <1>0, <1>2, <2>1 DEF Waiting
  <2>4. HandedOut'
    BY <1>0, <1>1, <1>2, <2>1, HandedKeep
  <2>5. Aborting'
    BY <1>0, <1>2, AbortingKeep
  <2>6. QED
    BY <2>2, <2>3, <2>4, <2>5
<1>3. CASE /\ ~Listed(jq_jobQueue, j) /\ ~Listed(jq_processing, j)
           /\ jq_jobQueue' = IF m_lifo THEN Append(jq_jobQueue, j) ELSE <<j>> \o jq_jobQueue
           /\ queueNextJob(u, jq_jobQueue', jq_processing, "out")
           /\ added' = Append(added, j)
           /\ UNCHANGED job
  <2>1. jq_jobQueue \in Seq(Jobs) /\ jq_processing \in Seq(Jobs) /\ added \in Seq(Jobs)
    BY DEF QueueTypes
  <2>2. /\ jq_jobQueue' \in Seq(Jobs)
        /\ KeysDiffer(jq_jobQueue')
        /\ \A x : Contains(jq_jobQueue', x) <=> Contains(jq_jobQueue, x) \/ x = j
    BY <1>3, <2>1, ConsKeys, AppendKeys, ContainsAppend DEF KeysApart
  <2>3. u \in QThreads /\ u \notin Workers /\ u # Canceller /\ Canceller \in QThreads
        /\ Users \subseteq QThreads /\ Workers \subseteq QThreads /\ Canceller \notin Workers
    BY Threads
  <2>4. PICK to \in {"add", "out"} :
           /\ to = "add" <=> jq_jobQueue' # <<>> /\ Len(jq_processing) < m_jobsAtOnce
           /\ qpc' = [qpc EXCEPT ![u] = to]
           /\ jq_section' = IF to = "add" THEN {u} ELSE {}
    BY <1>3 DEF queueNextJob
  <2>14. /\ qpc' \in [QThreads -> {"out", "add", "told", "cancel", "cancelAll"}]
         /\ \A s \in QThreads : qpc'[s] = IF s = u THEN to ELSE qpc[s]
         /\ Holder'
         /\ \A s \in QThreads : qpc'[s] = "add" => s = u
    <3>1. u \in QThreads /\ jq_section = {} /\ to \in {"add", "out", "told"}
      BY <1>0, <2>3
    <3>2. qpc' = [qpc EXCEPT ![u] = to] /\ jq_section' = IF to = "add" THEN {u} ELSE {}
      BY <2>4
    <3>3. QED
      BY <3>1, <3>2, NextJobMove
  <2>5. added' \in Seq(Jobs)
    BY <1>3, <2>1, AppendProperties
  <2>6. QueueTypes'
    BY <1>0, <2>1, <2>2, <2>4, <2>14, <2>5 DEF QueueTypes
  <2>7. Callers'
    BY <1>0, <2>3, <2>4, <2>14 DEF Callers
  <2>8. Room'
    BY <1>0, <2>3, <2>4, <2>14 DEF Room
  <2>9. KeysApart'
    <3>1. \A k \in Jobs : Contains(jq_processing, k) => ~Equal(j, k)
      BY <1>3, <2>1, Unlisted
    <3>2. QED
      BY <1>0, <2>2, <3>1 DEF KeysApart
  <2>10. Waiting'
    BY <1>0, <1>3, <2>2 DEF Waiting
  <2>11. HandedOut'
    BY <1>0, <1>3, <2>3, <2>4, <2>14, HandedKeep
  <2>12. Aborting'
    BY <1>0, <2>3, <2>4, <2>14, AbortingKeep
  <2>13. QED
    BY <2>4, <2>14, <2>6, <2>7, <2>8, <2>9, <2>10, <2>11, <2>12
<1>4. QED
  BY <1>2, <1>3 DEF jqAddJob

(* The first step of cancelJob and of cancelJobs. *)
LEMMA InvTake ==
  ASSUME Manager, QueueInv, NEW u \in Users, jqCancelJob(u) \/ jqCancelJobs(u)
  PROVE  QueueInv'
<1> USE DEF QueueInv
<1>0. /\ qpc[u] = "out" /\ jq_section = {} /\ jq_section' = {u}
      /\ UNCHANGED <<managerVars, jq_jobQueue, jq_processing, added, completed, cancelled>>
  BY DEF jqCancelJob, jqCancelJobs, queueHistory
<1>1. UNCHANGED <<m_jobQueue, m_processing, m_userCallBack, cpc, wpc, wjob, wcall, job>>
  BY <1>0 DEF managerVars, queueVars, workerVars
<1>2. u \in QThreads /\ u \notin Workers /\ u # Canceller /\ Canceller \in QThreads
      /\ Users \subseteq QThreads /\ Workers \subseteq QThreads /\ Canceller \notin Workers
  BY Threads
<1>3. PICK to \in {"cancel", "cancelAll"} : qpc' = [qpc EXCEPT ![u] = to]
  BY DEF jqCancelJob, jqCancelJobs
<1>4. /\ qpc' \in [QThreads -> {"out", "add", "told", "cancel", "cancelAll"}]
      /\ \A s \in QThreads : qpc'[s] = IF s = u THEN to ELSE qpc[s]
      /\ Holder'
  BY <1>0, <1>2, <1>3, HolderMove
<1>5. QueueTypes'
  BY <1>0, <1>4 DEF QueueTypes
<1>6. Callers' /\ Room'
  BY <1>0, <1>1, <1>2, <1>4 DEF Callers, Room
<1>7. KeysApart' /\ Waiting'
  BY <1>0, <1>1 DEF KeysApart, KeysDiffer, Waiting
<1>8. HandedOut'
  BY <1>0, <1>1, <1>2, <1>4, HandedKeep
<1>9. Aborting'
  BY <1>0, <1>1, <1>2, <1>4, AbortingKeep
<1>10. QED
  BY <1>4, <1>5, <1>6, <1>7, <1>8, <1>9

(* What the manager's addJob does to the jobs, as far as the queue sees it. *)
LEMMA AddEffect ==
  ASSUME Manager, NEW j \in Jobs, job[j] = "new", addJob(j, Priority, TRUE)
  PROVE  /\ UNCHANGED <<m_processing, m_section, wjob, wcall, cpc, silenced>>
         /\ \A k \in Jobs : job'[k] = IF k # j THEN job[k] ELSE IF m_running THEN "live" ELSE "freed"
         /\ \A k \in Jobs : k # j => m_userCallBack'[k] = m_userCallBack[k] /\ m_id'[k] = m_id[k]
         /\ m_running => m_userCallBack'[j]
         /\ ~m_running => m_id' = m_id
         /\ \A w \in Workers : j \notin wjob[w]
         /\ \A w \in Workers : wjob[w] # {} => wpc'[w] = wpc[w]
         /\ \A k \in Jobs : k # j => (Queued(k)' <=> Queued(k))
<1>1. UNCHANGED <<m_processing, m_section, wjob, wcall, cpc, silenced>>
  BY DEF addJob, historyVars
<1>2. \A k \in Jobs : job'[k] = IF k # j THEN job[k] ELSE IF m_running THEN "live" ELSE "freed"
  BY DEF addJob, Manager, Ownership, TypeOK
<1>3. \A k \in Jobs : k # j => m_userCallBack'[k] = m_userCallBack[k] /\ m_id'[k] = m_id[k]
  BY DEF addJob, Manager, Ownership, TypeOK
<1>4. /\ m_running => m_userCallBack'[j]
      /\ ~m_running => m_id' = m_id
  BY DEF addJob, Manager, Ownership, TypeOK
<1>5. \A w \in Workers : j \notin wjob[w]
  BY DEF Manager, Ownership, CarriedAlive
<1>6. \A w \in Workers : wjob[w] # {} => wpc[w] \notin {"none", "asleep"}
  BY DEF Manager, Ownership, Carries, Busy
<1>7. \A w \in Workers : wjob[w] # {} => wpc'[w] = wpc[w]
  <2>1. CASE UNCHANGED wpc
    BY <2>1
  <2>2. CASE wpc' = NotifyAll
    BY <1>6, <2>2 DEF NotifyAll
  <2>3. CASE /\ Len(m_processing) < getMaxWorkers(Priority)
             /\ Len(m_processing) >= Cardinality(m_workers)
             /\ wpc' = [wpc EXCEPT ![NewWorker] = "next"]
    <3>1. NewWorker \in Workers /\ wpc[NewWorker] = "none"
      BY <2>3, NewWorkerExists, JobQueueAssumption DEF Manager
    <3>2. QED
      BY <1>6, <2>3, <3>1 DEF Manager, Ownership, TypeOK
  <2>4. QED
    BY <2>1, <2>2, <2>3 DEF addJob, startWorkers
<1>8. ASSUME NEW k \in Jobs, k # j PROVE Queued(k)' <=> Queued(k)
  <2>1. CASE m_jobQueue' = m_jobQueue
    BY <2>1 DEF Queued
  <2>2. CASE m_jobQueue' = [m_jobQueue EXCEPT ![Priority] = Append(@, j)]
    <3>1. Priority \in Priorities /\ m_jobQueue[Priority] \in Seq(Jobs)
      BY JobQueueAssumption DEF Manager, Ownership, TypeOK
    <3>2. \A x : Contains(Append(m_jobQueue[Priority], j), x) <=> Contains(m_jobQueue[Priority], x) \/ x = j
      BY <3>1, ContainsAppend
    <3>3. \A p \in Priorities : m_jobQueue'[p] = IF p = Priority THEN Append(m_jobQueue[p], j) ELSE m_jobQueue[p]
      BY <2>2, <3>1 DEF Manager, Ownership, TypeOK
    <3>4. \A p \in Priorities : Contains(m_jobQueue'[p], k) <=> Contains(m_jobQueue[p], k)
      BY <1>8, <3>2, <3>3
    <3>5. QED
      BY <3>4 DEF Queued
  <2>3. QED
    BY <2>1, <2>2 DEF addJob
<1>9. QED
  BY <1>1, <1>2, <1>3, <1>4, <1>5, <1>7, <1>8

LEMMA InvAddNext ==
  ASSUME Manager, QueueInv, NEW t \in QThreads, jqAddNext(t)
  PROVE  QueueInv'
<1> USE DEF QueueInv
<1> DEFINE j == Last(jq_jobQueue)
<1>0. /\ qpc[t] = "add" /\ addJob(j, Priority, TRUE) /\ jq_jobQueue' = Front(jq_jobQueue)
      /\ UNCHANGED <<added, completed, cancelled>>
  BY DEF jqAddNext, queueHistory
<1>1. /\ jq_jobQueue \in Seq(Jobs) /\ jq_jobQueue # <<>> /\ KeysDiffer(jq_jobQueue)
      /\ jq_processing \in Seq(Jobs) /\ KeysDiffer(jq_processing)
  BY <1>0 DEF Room, QueueTypes, KeysApart
<1>2. j \in Jobs /\ Contains(jq_jobQueue, j)
  BY <1>1, FrontTailRemove, ElementOfSeq DEF Contains
<1>3. /\ Front(jq_jobQueue) \in Seq(Jobs) /\ KeysDiffer(Front(jq_jobQueue))
      /\ \A x : Contains(Front(jq_jobQueue), x) <=> Contains(jq_jobQueue, x) /\ ~Equal(x, j)
  BY <1>1, FrontTailRemove, RemoveAtKeys
<1>4. job[j] = "new"
  BY <1>2 DEF Waiting
<1>5. m_section = "free" /\ qpc[Canceller] = "out" /\ t # Canceller
  BY <1>0, CancellerOut DEF addJob
<1>6. /\ Users \subseteq QThreads /\ Workers \subseteq QThreads /\ Canceller \in QThreads
      /\ \A u \in Users : u \notin Workers /\ u # Canceller
      /\ Canceller \notin Workers
  BY Threads
<1>7. jq_section = {t}
  BY <1>0 DEF Holder
<1>8. PICK to \in {"add", After(t)} :
        /\ qpc' = [qpc EXCEPT ![t] = to]
        /\ jq_section' = IF to = "add" THEN {t} ELSE {}
        /\ to = "add" => jq_jobQueue' # <<>> /\ Len(jq_processing) < m_jobsAtOnce /\ ~m_running
  BY DEF jqAddNext, queueNextJob, After
<1>9. /\ to \in {"add", "out", "told"}
      /\ t \in Users => to # "told"
      /\ t \in Workers => to # "out"
  BY <1>6 DEF After
<1>10. /\ qpc' \in [QThreads -> {"out", "add", "told", "cancel", "cancelAll"}]
       /\ \A s \in QThreads : qpc'[s] = IF s = t THEN to ELSE qpc[s]
       /\ Holder'
       /\ \A s \in QThreads : qpc'[s] = "add" => s = t
  BY <1>7, <1>8, <1>9, NextJobMove
<1>11. /\ UNCHANGED <<m_processing, m_section, wjob, wcall, cpc, silenced>>
       /\ \A k \in Jobs : job'[k] = IF k # j THEN job[k] ELSE IF m_running THEN "live" ELSE "freed"
       /\ \A k \in Jobs : k # j => m_userCallBack'[k] = m_userCallBack[k] /\ m_id'[k] = m_id[k]
       /\ m_running => m_userCallBack'[j]
       /\ \A w \in Workers : j \notin wjob[w]
       /\ \A w \in Workers : wjob[w] # {} => wpc'[w] = wpc[w]
  BY <1>0, <1>2, <1>4, AddEffect
<1> HIDE DEF j
<1>12. jq_processing' = IF m_running THEN Append(jq_processing, j) ELSE jq_processing
  BY DEF jqAddNext, j
<1>13. /\ Append(jq_processing, j) \in Seq(Jobs)
       /\ \A x : Contains(Append(jq_processing, j), x) <=> Contains(jq_processing, x) \/ x = j
  BY <1>1, <1>2, ContainsAppend
<1>14. QueueTypes'
  BY <1>0, <1>1, <1>3, <1>10, <1>12, <1>13 DEF QueueTypes
<1>15. Callers'
  <2>1. \A u \in Users : qpc'[u] # "told"
    BY <1>6, <1>9, <1>10 DEF Callers
  <2>2. qpc'[Canceller] \in {"out", "add", "told"}
    BY <1>5, <1>6, <1>10
  <2>3. ASSUME NEW w \in Workers PROVE qpc'[w] \in {"out", "add", "told"}
    BY <1>6, <1>9, <1>10 DEF Callers
  <2>4. ASSUME NEW w \in Workers, qpc'[w] # "out" PROVE wpc'[w] = "call" /\ wcall'[w]
    <3>1. qpc[w] # "out"
      BY <1>0, <1>6, <1>10, <2>4
    <3>2. wpc[w] = "call" /\ wcall[w]
      BY <3>1 DEF Callers
    <3>3. wjob[w] # {}
      BY <3>2 DEF Manager, Ownership, Carries, Busy
    <3>4. QED
      BY <1>11, <3>2, <3>3
  <2>5. QED
    BY <2>1, <2>2, <2>3, <2>4 DEF Callers
<1>16. Room'
  BY <1>8, <1>10, <1>12 DEF Room
<1>17. Aborting'
  BY <1>5, <1>6, <1>10 DEF Aborting
<1>18. KeysApart'
  <2>1. ~Listed(jq_processing, j)
    <3>1. ASSUME NEW i \in DOMAIN jq_processing, Equal(jq_processing[i], j) PROVE FALSE
      <4>1. i \in 1 .. Len(jq_processing) /\ jq_processing[i] \in Jobs
        BY <1>1, <3>1, LenProperties, ElementOfSeq
      <4>2. Contains(jq_processing, jq_processing[i])
        BY <4>1 DEF Contains
      <4>3. QED
        BY <1>2, <3>1, <4>1, <4>2 DEF KeysApart, Equal
    <3>2. QED
      BY <3>1 DEF Listed
  <2>2. KeysDiffer(Append(jq_processing, j))
    BY <1>1, <1>2, <2>1, AppendKeys
  <2>3. KeysDiffer(jq_jobQueue') /\ KeysDiffer(jq_processing')
    BY <1>0, <1>1, <1>3, <1>12, <2>2
  <2>4. ASSUME NEW x \in Jobs, NEW y \in Jobs, Contains(jq_jobQueue', x), Contains(jq_processing', y)
        PROVE  ~Equal(x, y)
    <3>1. Contains(jq_jobQueue, x) /\ ~Equal(x, j)
      BY <1>0, <1>3, <2>4
    <3>2. Contains(jq_processing, y) \/ y = j
      BY <1>12, <1>13, <2>4
    <3>3. QED
      BY <3>1, <3>2 DEF KeysApart
  <2>5. QED
    BY <2>3, <2>4 DEF KeysApart
<1>19. Waiting'
  <2>1. ASSUME NEW k \in Jobs, Contains(jq_jobQueue', k) PROVE job'[k] = "new"
    <3>1. Contains(jq_jobQueue, k) /\ k # j
      BY <1>0, <1>3, <2>1 DEF Equal
    <3>2. QED
      BY <1>11, <3>1 DEF Waiting
  <2>2. QED
    BY <2>1 DEF Waiting
<1>20. HandedOut'
  <2>0. ~Contains(jq_processing, j)
    BY <1>2, <1>4 DEF HandedOut
  <2>1. ASSUME NEW k \in Jobs, k # j, Contains(jq_processing, k)
        PROVE  /\ job'[k] = "live" /\ m_userCallBack'[k]
               /\ \A w \in Workers : k \in wjob'[w] =>
                    wpc'[w] = "work" \/ (wpc'[w] = "call" /\ wcall'[w] /\ qpc'[w] = "out")
    <3>1. /\ job[k] = "live" /\ m_userCallBack[k]
          /\ \A w \in Workers : k \in wjob[w] => wpc[w] = "work" \/ (wpc[w] = "call" /\ wcall[w] /\ qpc[w] = "out")
      BY <2>1 DEF HandedOut
    <3>2. ASSUME NEW w \in Workers, k \in wjob[w]
          PROVE  wpc'[w] = wpc[w] /\ wcall'[w] = wcall[w] /\ (qpc[w] = "out" => qpc'[w] = "out")
      BY <1>0, <1>6, <1>10, <1>11, <3>2
    <3>3. QED
      BY <1>11, <2>1, <3>1, <3>2
  <2>2. ASSUME Contains(jq_processing', j)
        PROVE  /\ job'[j] = "live" /\ m_userCallBack'[j]
               /\ \A w \in Workers : j \notin wjob'[w]
    <3>1. m_running
      BY <1>12, <2>0, <2>2
    <3>2. QED
      BY <1>2, <1>11, <3>1
  <2>3. \A k \in Jobs : Contains(jq_processing', k) => Contains(jq_processing, k) \/ k = j
    BY <1>12, <1>13
  <2>4. QED
    BY <2>1, <2>2, <2>3 DEF HandedOut
<1>21. QED
  BY <1>10, <1>14, <1>15, <1>16, <1>17, <1>18, <1>19, <1>20

(* onJobNotify, called by a worker or by cancelJobs. *)
LEMMA InvNotify ==
  ASSUME Manager, QueueInv, NEW t \in Workers \cup {Canceller}, NEW j \in Jobs, qpc[t] = "out", jqNotify(t, j),
         t \in Workers => wpc[t] = "call" /\ wcall[t] /\ wjob[t] = {j},
         t = Canceller => cpc = "abort" /\ NextAbort(j) /\ m_userCallBack[j]
  PROVE  QueueInv'
<1> USE DEF QueueInv
<1>0. /\ jq_section = {} /\ jq_processing' = Without(jq_processing, j)
      /\ queueNextJob(t, jq_jobQueue, jq_processing', "told")
      /\ completed' = IF t \in Workers THEN Append(completed, j) ELSE completed
      /\ UNCHANGED <<managerVars, jq_jobQueue, added, cancelled>>
  BY DEF jqNotify
<1>1. UNCHANGED <<m_jobQueue, m_processing, m_userCallBack, cpc, wpc, wjob, wcall, job>>
  BY <1>0 DEF managerVars, queueVars, workerVars
<1>2. /\ Users \subseteq QThreads /\ Workers \subseteq QThreads /\ Canceller \in QThreads
      /\ \A u \in Users : u \notin Workers /\ u # Canceller
      /\ Canceller \notin Workers /\ t \in QThreads /\ t \notin Users
  BY Threads
<1>3. /\ jq_processing \in Seq(Jobs) /\ KeysDiffer(jq_processing) /\ completed \in Seq(Jobs)
  BY DEF QueueTypes, KeysApart
<1>4. /\ jq_processing' \in Seq(Jobs) /\ KeysDiffer(jq_processing')
      /\ \A x : Contains(jq_processing', x) <=> Contains(jq_processing, x) /\ ~Equal(x, j)
  BY <1>0, <1>3, WithoutKeys
<1>5. completed' \in Seq(Jobs)
  BY <1>0, <1>3, AppendProperties
<1>6. PICK to \in {"add", "told"} :
        /\ to = "add" <=> jq_jobQueue # <<>> /\ Len(jq_processing') < m_jobsAtOnce
        /\ qpc' = [qpc EXCEPT ![t] = to]
        /\ jq_section' = IF to = "add" THEN {t} ELSE {}
  BY <1>0 DEF queueNextJob
<1>7. /\ qpc' \in [QThreads -> {"out", "add", "told", "cancel", "cancelAll"}]
      /\ \A s \in QThreads : qpc'[s] = IF s = t THEN to ELSE qpc[s]
      /\ Holder'
      /\ \A s \in QThreads : qpc'[s] = "add" => s = t
  <2>1. t \in QThreads /\ jq_section = {} /\ to \in {"add", "out", "told"}
    BY <1>0, <1>2
  <2>2. qpc' = [qpc EXCEPT ![t] = to] /\ jq_section' = IF to = "add" THEN {t} ELSE {}
    BY <1>6
  <2>3. QED
    BY <2>1, <2>2, NextJobMove
<1>8. QueueTypes'
  BY <1>0, <1>4, <1>5, <1>7 DEF QueueTypes
<1>9. Callers'
  BY <1>1, <1>2, <1>7 DEF Callers
<1>10. Room'
  BY <1>0, <1>6, <1>7 DEF Room
<1>11. ~Contains(jq_processing', j)
  BY <1>4 DEF Equal
<1>12. Aborting'
  <2>1. CASE t = Canceller
    BY <1>1, <1>11, <2>1, NextAbortSame DEF Aborting
  <2>2. CASE t # Canceller
    BY <1>1, <1>2, <1>4, <1>7, <2>2, AbortingKeep
  <2>3. QED
    BY <2>1, <2>2
<1>13. KeysApart' /\ Waiting'
  BY <1>0, <1>1, <1>4 DEF KeysApart, Waiting
<1>14. HandedOut'
  <2>1. ASSUME NEW w \in Workers, NEW k \in Jobs, k \in wjob'[w], Contains(jq_processing', k)
        PROVE  qpc[w] = "out" => qpc'[w] = "out"
    BY <1>1, <1>2, <1>7, <1>11, <2>1
  <2>2. QED
    BY <1>1, <1>4, <2>1, HandedKeep
<1>15. QED
  BY <1>7, <1>8, <1>9, <1>10, <1>12, <1>13, <1>14

LEMMA CancelEffect ==
  ASSUME Manager, NEW k \in Jobs, cancelJob(k)
  PROVE  /\ m_section = "free" /\ UNCHANGED <<m_processing, wpc, wjob, wcall, cpc, m_id>>
         /\ \A x \in Jobs : x # k => job'[x] = job[x] /\ m_userCallBack'[x] = m_userCallBack[x]
         /\ job'[k] = job[k] \/ job'[k] = "freed"
         /\ silenced \subseteq silenced' /\ silenced' \subseteq silenced \cup {k}
         /\ \A x \in Jobs : Queued(x)' => Queued(x)
         /\ k \in silenced' /\ job'[k] = "live" => k \in silenced \/ ~m_userCallBack'[k]
         /\ m_userCallBack'[k] => m_userCallBack[k]
         /\ (job[k] = "live" /\ \A w \in Workers : k \in wjob[w] => wpc[w] # "free") => k \in silenced'
<1>1. m_section = "free" /\ UNCHANGED <<m_processing, wpc, wjob, wcall, cpc, m_id>>
  BY DEF cancelJob, workerVars
<1>2. /\ \A x \in Jobs : x # k => job'[x] = job[x] /\ m_userCallBack'[x] = m_userCallBack[x]
      /\ job'[k] = IF Queued(k) THEN "freed" ELSE job[k]
      /\ m_userCallBack'[k] = (m_userCallBack[k] /\ ~Processing(k))
  BY DEF cancelJob, Manager, Ownership, TypeOK
<1>3. silenced' = IF Queued(k) \/ Processing(k) THEN silenced \cup {k} ELSE silenced
  BY DEF cancelJob
<1>4. \A x \in Jobs : Queued(x)' => Queued(x)
  <2>1. ASSUME NEW x \in Jobs, NEW p \in Priorities, Contains(m_jobQueue'[p], x)
        PROVE  Contains(m_jobQueue[p], x)
    <3>1. m_jobQueue[p] \in Seq(Jobs) /\ IsInjective(m_jobQueue[p]) /\ m_jobQueue'[p] = RemoveFirst(m_jobQueue[p], k)
      BY DEF Manager, Ownership, TypeOK, Lists, cancelJob
    <3>2. QED
      BY <2>1, <3>1, ContainsRemoveFirst
  <2>2. QED
    BY <2>1 DEF Queued
<1>5. ASSUME job[k] = "live", \A w \in Workers : k \in wjob[w] => wpc[w] # "free"
      PROVE  Queued(k) \/ Processing(k)
  BY <1>5 DEF Manager, Ownership, LiveSomewhere, CarriedAlive, Queued, Processing
<1>6. QED
  BY <1>1, <1>2, <1>3, <1>4, <1>5

(* A handed out job is cancelled with the manager and taken off the list. *)
LEMMA InvCancelListed ==
  ASSUME Manager, QueueInv, NEW i \in 1 .. Len(jq_processing), cancelJob(jq_processing[i]),
         jq_processing' = RemoveAt(jq_processing, i),
         qpc' \in [QThreads -> {"out", "add", "told", "cancel", "cancelAll"}], Holder', cancelled' \in BOOLEAN,
         \A s \in QThreads : qpc'[s] = qpc[s] \/ (s \in Users /\ qpc'[s] = "out"),
         \A s \in QThreads : qpc'[s] # "add",
         UNCHANGED <<jq_jobQueue, added, completed>>
  PROVE  QueueInv'
<1> USE DEF QueueInv
<1> DEFINE k == jq_processing[i]
<1>1. jq_processing \in Seq(Jobs) /\ KeysDiffer(jq_processing)
  BY DEF QueueTypes, KeysApart
<1>2. k \in Jobs /\ Contains(jq_processing, k)
  BY <1>1, ElementOfSeq DEF Contains
<1>3. /\ jq_processing' \in Seq(Jobs) /\ KeysDiffer(jq_processing')
      /\ \A x : Contains(jq_processing', x) <=> Contains(jq_processing, x) /\ ~Equal(x, k)
  BY <1>1, RemoveAtKeys
<1>4. /\ m_section = "free" /\ UNCHANGED <<wpc, wjob, wcall, cpc>>
      /\ \A x \in Jobs : x # k => job'[x] = job[x] /\ m_userCallBack'[x] = m_userCallBack[x]
  BY <1>2, CancelEffect
<1>5. /\ Users \subseteq QThreads /\ Workers \subseteq QThreads /\ Canceller \in QThreads
      /\ \A u \in Users : u \notin Workers /\ u # Canceller
      /\ Canceller \notin Workers
  BY Threads
<1>6. ~Contains(jq_processing', k) /\ ~Contains(jq_jobQueue, k)
  BY <1>2, <1>3 DEF Equal, HandedOut, Waiting
<1> HIDE DEF k
<1>7. qpc'[Canceller] = "out"
  BY <1>4, <1>5, CancellerOut
<1>8. QueueTypes'
  BY <1>3 DEF QueueTypes
<1>9. Callers'
  BY <1>4, <1>5, <1>7 DEF Callers
<1>10. Room' /\ Aborting'
  BY <1>7 DEF Room, Aborting
<1>11. KeysApart'
  BY <1>3 DEF KeysApart
<1>12. Waiting'
  BY <1>2, <1>4, <1>6 DEF Waiting
<1>13. HandedOut'
  <2>1. \A x \in Jobs : Contains(jq_processing', x) => Contains(jq_processing, x) /\ x # k
    BY <1>3, <1>6
  <2>2. \A w \in Workers : qpc[w] = "out" => qpc'[w] = "out"
    BY <1>5
  <2>3. QED
    BY <1>4, <2>1, <2>2, HandedKeep
<1>14. QED
  BY <1>8, <1>9, <1>10, <1>11, <1>12, <1>13

(* Waiting jobs are freed and leave the list. *)
LEMMA InvDiscard ==
  ASSUME Manager, QueueInv,
         jq_jobQueue' \in Seq(Jobs), KeysDiffer(jq_jobQueue'),
         \A x \in Jobs : Contains(jq_jobQueue', x) => Contains(jq_jobQueue, x) /\ job'[x] = job[x],
         \A x \in Jobs : ~Contains(jq_jobQueue, x) => job'[x] = job[x],
         qpc' \in [QThreads -> {"out", "add", "told", "cancel", "cancelAll"}], Holder', cancelled' \in BOOLEAN,
         \A s \in QThreads : qpc'[s] = qpc[s] \/ (s \in Users /\ qpc'[s] = "out"),
         \A s \in QThreads : qpc'[s] # "add",
         UNCHANGED <<m_jobQueue, m_processing, m_userCallBack, cpc, wpc, wjob, wcall, jq_processing, added, completed>>
  PROVE  QueueInv'
<1> USE DEF QueueInv
<1>1. /\ Users \subseteq QThreads /\ Workers \subseteq QThreads /\ Canceller \in QThreads
      /\ \A u \in Users : u \notin Workers /\ u # Canceller
      /\ Canceller \notin Workers
  BY Threads
<1>2. QueueTypes'
  BY DEF QueueTypes
<1>3. Callers' /\ Room'
  BY <1>1 DEF Callers, Room
<1>4. KeysApart'
  BY DEF KeysApart
<1>5. Waiting'
  BY DEF Waiting
<1>6. Aborting'
  BY <1>1, AbortingKeep
<1>7. HandedOut'
  <2>1. \A x \in Jobs : Contains(jq_processing, x) => ~Contains(jq_jobQueue, x)
    BY DEF HandedOut, Waiting
  <2>2. \A w \in Workers : qpc[w] = "out" => qpc'[w] = "out"
    BY <1>1
  <2>3. QED
    BY <2>1, <2>2, HandedKeep
<1>8. QED
  BY <1>2, <1>3, <1>4, <1>5, <1>6, <1>7

LEMMA InvCancel ==
  ASSUME Manager, QueueInv,
         \/ \E u \in Users, j \in Jobs : jqCancelWaiting(u, j)
         \/ \E t \in QThreads : jqCancelHanded(t) \/ jqCancelFirst(t) \/ jqCancelRest(t)
  PROVE  QueueInv'
<1> USE DEF QueueInv
<1>0. /\ jq_jobQueue \in Seq(Jobs) /\ KeysDiffer(jq_jobQueue)
      /\ jq_processing \in Seq(Jobs)
      /\ qpc \in [QThreads -> {"out", "add", "told", "cancel", "cancelAll"}]
      /\ cancelled \in BOOLEAN
  BY DEF QueueTypes, KeysApart
<1>1. ASSUME NEW t \in QThreads, qpc[t] \in {"cancel", "cancelAll"}
      PROVE  t \in Users /\ jq_section = {t} /\ \A s \in QThreads : qpc[s] # "add"
  <2>1. jq_section = {t}
    BY <1>1 DEF Holder
  <2>2. t \in Users
    BY <1>1 DEF Callers, QThreads
  <2>3. \A s \in QThreads : qpc[s] # "add"
    BY <1>1, <2>1 DEF Holder
  <2>4. QED
    BY <2>1, <2>2, <2>3
<1>2. ASSUME NEW t \in QThreads, qpc[t] \in {"cancel", "cancelAll"}, jq_section' = {}, qpc' = [qpc EXCEPT ![t] = "out"]
      PROVE  /\ qpc' \in [QThreads -> {"out", "add", "told", "cancel", "cancelAll"}] /\ Holder'
             /\ \A s \in QThreads : qpc'[s] = qpc[s] \/ (s \in Users /\ qpc'[s] = "out")
             /\ \A s \in QThreads : qpc'[s] # "add"
  <2>1. /\ qpc' \in [QThreads -> {"out", "add", "told", "cancel", "cancelAll"}]
        /\ \A s \in QThreads : qpc'[s] = IF s = t THEN "out" ELSE qpc[s]
        /\ Holder'
    BY <1>1, <1>2, HolderMove
  <2>2. QED
    BY <1>1, <1>2, <2>1
<1>3. ASSUME NEW u \in Users, NEW j \in Jobs, jqCancelWaiting(u, j)
      PROVE  QueueInv'
  <2>1. /\ jq_section = {} /\ jq_jobQueue' = Without(jq_jobQueue, j)
        /\ Contains(jq_jobQueue, j) /\ cancelled' = TRUE /\ job' = [job EXCEPT ![j] = "freed"]
        /\ UNCHANGED <<m_jobQueue, m_processing, m_userCallBack, cpc, wpc, wjob, wcall, jq_section,
                       jq_processing, qpc, added, completed>>
    BY <1>3 DEF jqCancelWaiting, queueVars, workerVars
  <2>2. /\ jq_jobQueue' \in Seq(Jobs) /\ KeysDiffer(jq_jobQueue')
        /\ \A x : Contains(jq_jobQueue', x) <=> Contains(jq_jobQueue, x) /\ ~Equal(x, j)
    BY <1>0, <2>1, WithoutKeys
  <2>3. \A x \in Jobs : x # j => job'[x] = job[x]
    BY <2>1 DEF Manager, Ownership, TypeOK
  <2>4. \A s \in QThreads : qpc'[s] # "add"
    BY <2>1 DEF Holder
  <2>5. Holder'
    BY <2>1 DEF Holder
  <2>6. \A x \in Jobs : Contains(jq_jobQueue', x) => Contains(jq_jobQueue, x) /\ job'[x] = job[x]
    BY <2>2, <2>3 DEF Equal
  <2>7. \A x \in Jobs : ~Contains(jq_jobQueue, x) => job'[x] = job[x]
    BY <2>1, <2>3
  <2>8. QED
    BY <1>0, <2>1, <2>2, <2>4, <2>5, <2>6, <2>7, InvDiscard
<1>4. ASSUME NEW t \in QThreads, jqCancelHanded(t)
      PROVE  QueueInv'
  <2>1. /\ qpc[t] = "cancel" /\ jq_section' = {} /\ qpc' = [qpc EXCEPT ![t] = "out"] /\ cancelled' = TRUE
        /\ UNCHANGED <<jq_jobQueue, added, completed>>
    BY <1>4 DEF jqCancelHanded
  <2>2. PICK i \in DOMAIN jq_processing : cancelJob(jq_processing[i]) /\ jq_processing' = RemoveAt(jq_processing, i)
    BY <1>4 DEF jqCancelHanded
  <2>3. i \in 1 .. Len(jq_processing)
    BY <1>0, LenProperties
  <2>4. QED
    BY <1>2, <2>1, <2>2, <2>3, InvCancelListed
<1>5. ASSUME NEW t \in QThreads, jqCancelFirst(t)
      PROVE  QueueInv'
  <2>1. /\ qpc[t] = "cancelAll" /\ cancelled' = TRUE /\ jq_processing # <<>>
        /\ UNCHANGED <<jq_section, qpc, jq_jobQueue, added, completed>>
        /\ cancelJob(Head(jq_processing)) /\ jq_processing' = Tail(jq_processing)
    BY <1>5 DEF jqCancelFirst
  <2>2. /\ 1 \in 1 .. Len(jq_processing) /\ cancelJob(jq_processing[1])
        /\ jq_processing' = RemoveAt(jq_processing, 1)
    BY <1>0, <2>1, FrontTailRemove
  <2>3. Holder'
    BY <2>1 DEF Holder
  <2>4. QED
    BY <1>0, <1>1, <2>1, <2>2, <2>3, InvCancelListed
<1>6. ASSUME NEW t \in QThreads, jqCancelRest(t)
      PROVE  QueueInv'
  <2>1. /\ qpc[t] = "cancelAll" /\ jq_section' = {} /\ qpc' = [qpc EXCEPT ![t] = "out"]
        /\ jq_jobQueue' = <<>>
        /\ job' = [j \in Jobs |-> IF Contains(jq_jobQueue, j) THEN "freed" ELSE job[j]]
        /\ UNCHANGED <<m_jobQueue, m_processing, m_userCallBack, cpc, wpc, wjob, wcall,
                       jq_processing, added, completed, cancelled>>
    BY <1>6 DEF jqCancelRest, queueVars, workerVars, queueHistory
  <2>2. jq_jobQueue' \in Seq(Jobs) /\ KeysDiffer(jq_jobQueue') /\ \A x : ~Contains(jq_jobQueue', x)
    BY <2>1, ContainsEmpty DEF KeysDiffer
  <2>3. \A x \in Jobs : ~Contains(jq_jobQueue, x) => job'[x] = job[x]
    BY <2>1
  <2>4. QED
    BY <1>0, <1>2, <2>1, <2>2, <2>3, InvDiscard
<1>7. QED
  BY <1>3, <1>4, <1>5, <1>6

-----------------------------------------------------------------------------
(* The manager's own steps leave the queue's lists alone. *)

LEMMA InvSide ==
  ASSUME QueueInv, UNCHANGED <<jq_section, jq_jobQueue, jq_processing, added, completed, cancelled>>,
         qpc' \in [QThreads -> {"out", "add", "told", "cancel", "cancelAll"}],
         \A s \in QThreads : qpc'[s] # qpc[s] => qpc[s] \in {"out", "told"} /\ qpc'[s] = "out",
         Callers', Aborting', HandedOut',
         \A j \in Jobs : job[j] = "new" => job'[j] = "new"
  PROVE  QueueInv'
<1> USE DEF QueueInv
<1>1. QueueTypes' /\ KeysApart' /\ Waiting'
  BY DEF QueueTypes, KeysApart, KeysDiffer, Waiting
<1>2. \A s \in QThreads : qpc'[s] \in {"add", "cancel", "cancelAll"} <=> qpc[s] \in {"add", "cancel", "cancelAll"}
  OBVIOUS
<1>3. Holder'
  <2>1. Holder /\ jq_section' = jq_section
    OBVIOUS
  <2>2. QED
    BY ONLY <1>2, <2>1 DEF Holder
<1>4. Room'
  BY DEF Room
<1>5. QED
  BY <1>1, <1>3, <1>4

LEMMA InvWorkerCalled ==
  ASSUME Manager, QueueInv, NEW w \in Workers, workerCalled(w)
  PROVE  QueueInv'
<1> USE DEF QueueInv
<1>1. /\ wpc[w] = "call" /\ (wcall[w] => qpc[w] = "told")
      /\ wpc' = [wpc EXCEPT ![w] = "erase"]
      /\ qpc' = [qpc EXCEPT ![w] = "out"]
      /\ UNCHANGED <<m_jobQueue, m_processing, m_userCallBack, job, wjob, wcall, cpc, jq_section, jq_jobQueue,
                     jq_processing, added, completed, cancelled>>
  BY DEF workerCalled, completeCall, queueVars, listVars, queueHistory
<1>2. /\ Users \subseteq QThreads /\ Workers \subseteq QThreads /\ Canceller \in QThreads
      /\ \A u \in Users : u \notin Workers /\ u # Canceller
      /\ Canceller \notin Workers
  BY Threads
<1>3. qpc[w] \in {"out", "told"}
  BY <1>1 DEF Callers
<1>4. /\ qpc' \in [QThreads -> {"out", "add", "told", "cancel", "cancelAll"}]
      /\ \A s \in QThreads : qpc'[s] = IF s = w THEN "out" ELSE qpc[s]
  BY <1>1, <1>2 DEF QueueTypes
<1>5. \A v \in Workers : wpc'[v] = IF v = w THEN "erase" ELSE wpc[v]
  BY <1>1 DEF Manager, Ownership, TypeOK
<1>6. Callers'
  BY <1>1, <1>2, <1>4, <1>5 DEF Callers
<1>7. Aborting'
  BY <1>1, <1>2, <1>4, AbortingKeep
<1>8. HandedOut'
  <2>1. \A k \in Jobs : k \in wjob[w] => ~Contains(jq_processing, k)
    BY <1>1 DEF HandedOut
  <2>2. \A v \in Workers : v # w => wpc'[v] = wpc[v] /\ qpc'[v] = qpc[v]
    BY <1>2, <1>4, <1>5
  <2>3. \A v \in Workers : \A k \in Jobs : k \in wjob'[v] /\ Contains(jq_processing', k) => v # w
    BY <1>1, <2>1
  <2>4. QED
    BY <1>1, <2>2, <2>3, HandedKeep
<1>9. \A s \in QThreads : qpc'[s] # qpc[s] => qpc[s] \in {"out", "told"} /\ qpc'[s] = "out"
  BY <1>3, <1>4
<1>10. QED
  BY <1>1, <1>4, <1>6, <1>7, <1>8, <1>9, InvSide

LEMMA InvWorkerStep ==
  ASSUME Manager, QueueInv, NEW w \in Workers, workerStep(w)
  PROVE  QueueInv'
<1> USE DEF QueueInv
<1>0. /\ UNCHANGED <<jq_section, jq_jobQueue, jq_processing, qpc, added, completed, cancelled>>
      /\ UNCHANGED <<m_userCallBack, cpc>>
  BY DEF workerStep, getNextJob, removeWorker, onJobComplete, completeErase, completeFree, spuriousWake,
         listVars, queueHistory
<1>1. /\ wpc \in [Workers -> {"none", "next", "asleep", "remove", "work", "call", "erase", "free"}]
      /\ wjob \in [Workers -> SUBSET Jobs] /\ wcall \in [Workers -> BOOLEAN]
      /\ qpc \in [QThreads -> {"out", "add", "told", "cancel", "cancelAll"}]
  BY DEF Manager, Ownership, TypeOK, QueueTypes
<1>2. wpc[w] \in {"next", "asleep", "remove", "work", "erase", "free"}
  BY DEF workerStep, getNextJob, removeWorker, onJobComplete, completeErase, completeFree, spuriousWake
<1>3. qpc[w] = "out"
  BY <1>2 DEF Callers
<1>4. /\ \A v \in Workers : v # w => wpc'[v] = wpc[v] /\ wcall'[v] = wcall[v] /\ wjob'[v] = wjob[v]
  <2>1. CASE getNextJob(w)
    BY <1>1, <2>1 DEF getNextJob, popJob
  <2>2. CASE removeWorker(w) \/ onJobComplete(w) \/ completeErase(w) \/ completeFree(w) \/ spuriousWake(w)
    BY <1>1, <2>2 DEF removeWorker, onJobComplete, completeErase, completeFree, spuriousWake
  <2>3. QED
    BY <2>1, <2>2 DEF workerStep
<1>5. Callers'
  BY <1>0, <1>3, <1>4 DEF Callers
<1>6. Aborting'
  <2>1. CASE m_section = "free"
    BY <1>0, <2>1, CancellerOut DEF Aborting
  <2>2. CASE UNCHANGED <<m_jobQueue, m_processing>>
    BY <1>0, <2>2, AbortingKeep
  <2>3. QED
    BY <2>1, <2>2 DEF workerStep, getNextJob, removeWorker, onJobComplete, completeErase, completeFree,
                      spuriousWake, queueVars
<1>7. /\ \A k \in Jobs : job[k] = "new" => job'[k] = "new"
      /\ \A k \in Jobs : Contains(jq_processing, k) => job'[k] = job[k]
  <2>1. CASE completeFree(w)
    <3>1. wpc[w] = "free" /\ \A k \in Jobs : job'[k] = IF k \in wjob[w] THEN "freed" ELSE job[k]
      BY <2>1 DEF completeFree
    <3>2. \A k \in Jobs : k \in wjob[w] => job[k] = "live" /\ ~Contains(jq_processing, k)
      BY <3>1 DEF Manager, Ownership, CarriedAlive, HandedOut
    <3>3. QED
      BY <3>1, <3>2
  <2>2. CASE UNCHANGED job
    BY <2>2
  <2>3. QED
    BY <2>1, <2>2 DEF workerStep, getNextJob, removeWorker, onJobComplete, completeErase, spuriousWake
<1>8. ASSUME NEW k \in Jobs, Contains(jq_processing, k), k \in wjob'[w]
      PROVE  wpc'[w] = "work" \/ (wpc'[w] = "call" /\ wcall'[w])
  <2>1. k \in wjob[w] => wpc[w] = "work"
    BY <1>2, <1>8 DEF HandedOut
  <2>2. CASE getNextJob(w)
    <3>1. wpc[w] = "next" /\ wjob[w] = {}
      BY <2>2 DEF getNextJob, Manager, Ownership, Carries, Busy
    <3>2. wjob'[w] = wjob[w] \/ wpc'[w] = "work"
      BY <1>1, <2>2 DEF getNextJob, popJob
    <3>3. QED
      BY <1>8, <3>1, <3>2
  <2>3. CASE onJobComplete(w)
    <3>1. /\ wpc' = [wpc EXCEPT ![w] = "call"] /\ wjob' = wjob
          /\ wcall' = [wcall EXCEPT ![w] = \E j \in wjob[w] : m_userCallBack[j]]
      BY <2>3 DEF onJobComplete
    <3>2. m_userCallBack[k]
      BY <1>8 DEF HandedOut
    <3>3. QED
      BY <1>1, <1>8, <3>1, <3>2
  <2>4. CASE removeWorker(w) \/ completeErase(w) \/ spuriousWake(w)
    <3>1. wjob' = wjob /\ wpc[w] # "work"
      BY <2>4 DEF removeWorker, completeErase, spuriousWake
    <3>2. QED
      BY <1>8, <2>1, <3>1
  <2>5. CASE completeFree(w)
    BY <1>1, <1>8, <2>5 DEF completeFree
  <2>6. QED
    BY <2>2, <2>3, <2>4, <2>5 DEF workerStep
<1>9. HandedOut'
  <2> SUFFICES ASSUME NEW k \in Jobs, Contains(jq_processing, k)
               PROVE  /\ job'[k] = "live" /\ m_userCallBack'[k]
                      /\ \A v \in Workers : k \in wjob'[v] =>
                           wpc'[v] = "work" \/ (wpc'[v] = "call" /\ wcall'[v] /\ qpc'[v] = "out")
    BY <1>0 DEF HandedOut
  <2>1. job'[k] = "live" /\ m_userCallBack'[k]
    BY <1>0, <1>7 DEF HandedOut
  <2>2. ASSUME NEW v \in Workers, v # w, k \in wjob'[v]
        PROVE  wpc'[v] = "work" \/ (wpc'[v] = "call" /\ wcall'[v] /\ qpc'[v] = "out")
    BY <1>0, <1>4, <2>2 DEF HandedOut
  <2>3. QED
    BY <1>0, <1>3, <1>8, <2>1, <2>2
<1>10. \A s \in QThreads : qpc'[s] # qpc[s] => qpc[s] \in {"out", "told"} /\ qpc'[s] = "out"
  BY <1>0
<1>11. qpc' \in [QThreads -> {"out", "add", "told", "cancel", "cancelAll"}]
  BY <1>0, <1>1
<1>12. QED
  BY <1>0, <1>5, <1>6, <1>7, <1>9, <1>10, <1>11, InvSide

(* cancelJobs has one job that it drops next. *)
LEMMA NextAbortOnce ==
  ASSUME Manager, NEW j \in Jobs, NEW k \in Jobs, NextAbort(j), NextAbort(k)
  PROVE  j = k
<1>1. Priorities \subseteq 0 .. 4
  BY JobManagerAssumption DEF PRIORITY_LOW_PAUSABLE, PRIORITY_DEDICATED
<1>2. CASE abortQueued(j)
  <2>1. PICK p \in Priorities : m_jobQueue[p] # <<>> /\ Head(m_jobQueue[p]) = j
                                /\ \A q \in Priorities : q < p => m_jobQueue[q] = <<>>
    BY <1>2 DEF abortQueued
  <2>2. abortQueued(k)
    BY <2>1 DEF NextAbort, abortProcessing
  <2>3. PICK r \in Priorities : m_jobQueue[r] # <<>> /\ Head(m_jobQueue[r]) = k
                                /\ \A q \in Priorities : q < r => m_jobQueue[q] = <<>>
    BY <2>2 DEF abortQueued
  <2>4. ~(p < r) /\ ~(r < p)
    BY <2>1, <2>3
  <2>5. p = r
    BY <1>1, <2>4
  <2>6. QED
    BY <2>1, <2>3, <2>5
<1>3. CASE ~abortQueued(j)
  <2>1. abortProcessing(j) /\ abortProcessing(k)
    BY <1>3 DEF NextAbort, abortProcessing, abortQueued
  <2>2. PICK a \in DOMAIN m_processing :
           /\ m_processing[a] = j /\ m_userCallBack[j]
           /\ \A b \in 1 .. a - 1 : ~m_userCallBack[m_processing[b]]
    BY <2>1 DEF abortProcessing
  <2>3. PICK c \in DOMAIN m_processing :
           /\ m_processing[c] = k /\ m_userCallBack[k]
           /\ \A b \in 1 .. c - 1 : ~m_userCallBack[m_processing[b]]
    BY <2>1 DEF abortProcessing
  <2>4. DOMAIN m_processing = 1 .. Len(m_processing) /\ Len(m_processing) \in Nat
    BY LenProperties DEF Manager, Ownership, TypeOK
  <2>5. a = c
    BY <2>2, <2>3, <2>4
  <2>6. QED
    BY <2>2, <2>3, <2>5
<1>4. QED
  BY <1>2, <1>3

LEMMA AbortEffect ==
  ASSUME Manager, NEW j \in Jobs, cancelAbort(j)
  PROVE  /\ cpc = "abort" /\ NextAbort(j) /\ UNCHANGED <<m_processing, wpc, wjob, wcall, cpc, m_id>>
         /\ \A x \in Jobs : x # j => job'[x] = job[x] /\ m_userCallBack'[x] = m_userCallBack[x]
         /\ ~m_userCallBack'[j]
         /\ job'[j] = job[j] \/ job'[j] = "freed"
         /\ job[j] = "live"
         /\ silenced' = silenced \cup {j}
         /\ \A x \in Jobs : Queued(x)' => Queued(x)
<1>1. cpc = "abort" /\ NextAbort(j) /\ UNCHANGED <<m_processing, wpc, wjob, wcall, cpc, m_id>>
  BY DEF cancelAbort, workerVars, NextAbort
<1>2. /\ \A x \in Jobs : x # j => job'[x] = job[x] /\ m_userCallBack'[x] = m_userCallBack[x]
      /\ ~m_userCallBack'[j]
      /\ job'[j] = job[j] \/ job'[j] = "freed"
      /\ silenced' = silenced \cup {j}
  BY DEF cancelAbort, Manager, Ownership, TypeOK
<1>3. \A x \in Jobs : Queued(x)' => Queued(x)
  <2>1. ASSUME NEW x \in Jobs, NEW p \in Priorities, Contains(m_jobQueue'[p], x)
        PROVE  Contains(m_jobQueue[p], x)
    <3>1. m_jobQueue[p] \in Seq(Jobs) /\ IsInjective(m_jobQueue[p]) /\ m_jobQueue'[p] = RemoveFirst(m_jobQueue[p], j)
      BY DEF Manager, Ownership, TypeOK, Lists, cancelAbort
    <3>2. QED
      BY <2>1, <3>1, ContainsRemoveFirst
  <2>2. QED
    BY <2>1 DEF Queued
<1>4. job[j] = "live"
  <2>1. CASE abortQueued(j)
    <3>1. PICK p \in Priorities : m_jobQueue[p] # <<>> /\ Head(m_jobQueue[p]) = j
      BY <2>1 DEF abortQueued
    <3>2. Contains(m_jobQueue[p], j)
      BY <3>1, ContainsTail DEF Manager, Ownership, TypeOK, Lists
    <3>3. QED
      BY <3>2 DEF Manager, Ownership, QueuedAlone
  <2>2. CASE abortProcessing(j)
    <3>1. Contains(m_processing, j)
      BY <2>2, LenProperties DEF abortProcessing, Contains, Manager, Ownership, TypeOK
    <3>2. QED
      BY <3>1 DEF Manager, Ownership, ProcessedByWorker, CarriedAlive
  <2>3. QED
    BY <1>1, <2>1, <2>2 DEF NextAbort
<1>5. QED
  BY <1>1, <1>2, <1>3, <1>4

LEMMA InvCanceller ==
  ASSUME Manager, QueueInv, managerCall \/ abortCalled \/ cancellerStep
  PROVE  QueueInv'
<1> USE DEF QueueInv
<1>0. /\ Users \subseteq QThreads /\ Workers \subseteq QThreads /\ Canceller \in QThreads
      /\ \A u \in Users : u \notin Workers /\ u # Canceller
      /\ Canceller \notin Workers
  BY Threads
<1>1. ASSUME NEW j \in Jobs, m_userCallBack[j] => qpc[Canceller] = "told", cancelAbort(j),
             qpc' = [qpc EXCEPT ![Canceller] = "out"], UNCHANGED <<listVars, queueHistory>>
      PROVE  QueueInv'
  <2>1. UNCHANGED <<jq_section, jq_jobQueue, jq_processing, added, completed, cancelled>>
    BY <1>1 DEF listVars, queueHistory
  <2>2. /\ qpc' \in [QThreads -> {"out", "add", "told", "cancel", "cancelAll"}]
        /\ \A s \in QThreads : qpc'[s] = IF s = Canceller THEN "out" ELSE qpc[s]
    BY <1>0, <1>1 DEF QueueTypes
  <2>3. /\ NextAbort(j) /\ UNCHANGED <<wpc, wjob, wcall>> /\ job[j] = "live"
        /\ \A x \in Jobs : x # j => job'[x] = job[x] /\ m_userCallBack'[x] = m_userCallBack[x]
    BY <1>1, AbortEffect
  <2>4. ~Contains(jq_processing, j)
    <3>1. CASE ~m_userCallBack[j]
      BY <3>1 DEF HandedOut
    <3>2. CASE m_userCallBack[j]
      <4>1. PICK k \in Jobs : NextAbort(k) /\ ~Contains(jq_processing, k)
        BY <1>1, <3>2 DEF Aborting
      <4>2. k = j
        BY <2>3, <4>1, NextAbortOnce
      <4>3. QED
        BY <4>1, <4>2
    <3>3. QED
      BY <3>1, <3>2
  <2>5. qpc[Canceller] \in {"out", "told"}
    <3>1. CASE qpc[Canceller] = "out"
      BY <3>1
    <3>2. CASE qpc[Canceller] # "out"
      <4>1. PICK k \in Jobs : NextAbort(k) /\ m_userCallBack[k]
        BY <3>2 DEF Aborting
      <4>2. k = j
        BY <2>3, <4>1, NextAbortOnce
      <4>3. QED
        BY <1>1, <4>1, <4>2
    <3>3. QED
      BY <3>1, <3>2
  <2>6. Callers' /\ Aborting'
    BY <1>0, <2>2, <2>3 DEF Callers, Aborting
  <2>7. HandedOut'
    <3>1. \A x \in Jobs : Contains(jq_processing', x) => Contains(jq_processing, x) /\ x # j
      BY <2>1, <2>4
    <3>2. \A v \in Workers : qpc'[v] = qpc[v]
      BY <1>0, <2>2
    <3>3. QED
      BY <2>3, <3>1, <3>2, HandedKeep
  <2>8. \A x \in Jobs : job[x] = "new" => job'[x] = "new"
    BY <2>3
  <2>9. \A s \in QThreads : qpc'[s] # qpc[s] => qpc[s] \in {"out", "told"} /\ qpc'[s] = "out"
    BY <2>2, <2>5
  <2>10. QED
    BY <2>1, <2>2, <2>6, <2>7, <2>8, <2>9, InvSide
<1>2. ASSUME UNCHANGED <<m_userCallBack, job, wjob, wcall, listVars, qpc, queueHistory>>,
             \A v \in Workers : wpc'[v] = wpc[v] \/ wpc[v] = "asleep",
             qpc[Canceller] = "out"
      PROVE  QueueInv'
  <2>1. UNCHANGED <<jq_section, jq_jobQueue, jq_processing, added, completed, cancelled, qpc>>
    BY <1>2 DEF listVars, queueHistory
  <2>2. qpc' \in [QThreads -> {"out", "add", "told", "cancel", "cancelAll"}]
    BY <2>1 DEF QueueTypes
  <2>3. Callers' /\ Aborting'
    BY <1>0, <1>2, <2>1 DEF Callers, Aborting
  <2>4. \A v \in Workers : wjob[v] # {} => wpc'[v] = wpc[v]
    BY <1>2 DEF Manager, Ownership, Carries, Busy
  <2>5. HandedOut'
    BY <1>2, <2>1, <2>4, HandedKeep
  <2>6. QED
    BY <1>2, <2>1, <2>2, <2>3, <2>5, InvSide
<1>3. CASE abortCalled
  BY <1>1, <1>3 DEF abortCalled
<1>4. CASE managerCall
  <2>1. m_section = "free"
    BY <1>4 DEF managerCall, cancelJobs, restart
  <2>2. UNCHANGED <<m_userCallBack, job, wjob, wcall, wpc, listVars, qpc, queueHistory>>
    BY <1>4 DEF managerCall, cancelJobs, restart, workerVars
  <2>3. qpc[Canceller] = "out"
    BY <2>1, CancellerOut
  <2>4. QED
    BY <1>2, <2>2, <2>3
<1>5. CASE cancellerStep
  <2>1. UNCHANGED <<m_userCallBack, job, wjob, wcall, listVars, qpc, queueHistory>>
    BY <1>5 DEF cancellerStep, cancelAborted, cancelNotify, cancelDone, workerVars
  <2>2. \A v \in Workers : wpc'[v] = wpc[v] \/ wpc[v] = "asleep"
    BY <1>5 DEF cancellerStep, cancelAborted, cancelNotify, cancelDone, workerVars, NotifyAll
  <2>3. qpc[Canceller] = "out"
    BY <1>5 DEF cancellerStep, cancelAborted, cancelNotify, cancelDone, Aborting, NextAbort
  <2>4. QED
    BY <1>2, <2>1, <2>2, <2>3
<1>6. QED
  BY <1>3, <1>4, <1>5

LEMMA NotifyCases ==
  ASSUME Manager, QueueInv, abortNotify \/ \E w \in Workers : workerNotify(w)
  PROVE  \E t \in Workers \cup {Canceller}, j \in Jobs :
           /\ qpc[t] = "out" /\ jqNotify(t, j)
           /\ t \in Workers => wpc[t] = "call" /\ wcall[t] /\ wjob[t] = {j}
           /\ t = Canceller => cpc = "abort" /\ NextAbort(j) /\ m_userCallBack[j]
<1>1. CASE abortNotify
  BY <1>1, Threads DEF abortNotify, NextAbort
<1>2. ASSUME NEW w \in Workers, workerNotify(w)
      PROVE  \E j \in Jobs : /\ qpc[w] = "out" /\ jqNotify(w, j) /\ wpc[w] = "call" /\ wcall[w] /\ wjob[w] = {j}
  BY <1>2 DEF workerNotify, Manager, Ownership, Carries, Busy
<1>3. QED
  BY <1>1, <1>2, Threads

LEMMA QueueInvStep == Manager /\ QueueInv /\ [JQNext]_jqVars => QueueInv'
<1> SUFFICES ASSUME Manager, QueueInv, [JQNext]_jqVars PROVE QueueInv'
  OBVIOUS
<1>1. CASE UNCHANGED jqVars
  <2>1. UNCHANGED <<m_jobQueue, m_processing, m_userCallBack, cpc, wpc, wjob, wcall, job, jq_section, jq_jobQueue,
                    jq_processing, qpc, added, completed, cancelled>>
    BY <1>1 DEF jqVars, managerVars, queueVars, workerVars, listVars, queueHistory
  <2>2. \A j : NextAbort(j)' <=> NextAbort(j)
    BY <2>1, NextAbortSame
  <2>3. QED
    BY <2>1, <2>2 DEF QueueInv, QueueTypes, Holder, Callers, Room, Aborting, KeysApart, KeysDiffer, Waiting, HandedOut
<1>2. CASE abortNotify \/ \E w \in Workers : workerNotify(w)
  BY <1>2, NotifyCases, InvNotify
<1>3. CASE managerCall \/ abortCalled \/ cancellerStep
  BY <1>3, InvCanceller
<1>4. CASE \E w \in Workers : workerCalled(w) \/ workerStep(w)
  BY <1>4, InvWorkerCalled, InvWorkerStep
<1>5. CASE \E u \in Users : userCall(u)
  BY <1>5, InvAddJob, InvTake, InvCancel DEF userCall
<1>6. CASE \E t \in QThreads : callStep(t)
  BY <1>6, InvAddNext, InvCancel DEF callStep
<1>7. QED
  BY <1>1, <1>2, <1>3, <1>4, <1>5, <1>6 DEF JQNext

(* The pointers in the queue's two lists are to jobs that nobody has freed,*)
(* although the manager frees a job on a worker's thread, or inside its    *)
(* own cancel calls, and the list is only told of it.                      *)
THEOREM ListedJobsAlive == JQSpec => []QueueHoldsLiveJobs
<1>1. QueueInv => QueueHoldsLiveJobs
  <2> SUFFICES ASSUME QueueInv PROVE QueueHoldsLiveJobs
    OBVIOUS
  <2>1. jq_jobQueue \in Seq(Jobs) /\ jq_processing \in Seq(Jobs)
    BY DEF QueueInv, QueueTypes
  <2>2. \A i \in DOMAIN jq_jobQueue : jq_jobQueue[i] \in Jobs /\ Contains(jq_jobQueue, jq_jobQueue[i])
    BY <2>1, LenProperties, ElementOfSeq DEF Contains
  <2>3. \A i \in DOMAIN jq_processing : jq_processing[i] \in Jobs /\ Contains(jq_processing, jq_processing[i])
    BY <2>1, LenProperties, ElementOfSeq DEF Contains
  <2>4. QED
    BY <2>2, <2>3 DEF QueueInv, Waiting, HandedOut, QueueHoldsLiveJobs
<1>2. QED
  BY <1>1, QueueInvInit, ManagerStep, QueueInvStep, PTL DEF JQSpec

(* The manager keeps its promises when its callbacks call it back: every   *)
(* job owned once, ids distinct, no wake-up lost.                          *)
THEOREM ManagerUnderQueue == JQSpec => [](JobsOwnedOnce /\ IdsDistinct /\ JobHasWorker)
<1>1. Manager => JobsOwnedOnce /\ IdsDistinct /\ JobHasWorker
  BY OwnershipImplies DEF Manager, IdWindow, IdsDistinct, Staffing
<1>2. QED
  BY <1>1, QueueInvInit, ManagerStep, QueueInvStep, PTL DEF JQSpec

-----------------------------------------------------------------------------
(* The backlog.  A thread on its way to the manager fills the last free    *)
(* place or takes the last waiting job, as long as nothing was cancelled.  *)

Backlog ==
  /\ Len(jq_processing) <= m_jobsAtOnce
  /\ BacklogMoves
  /\ \A t \in QThreads : ~cancelled /\ qpc[t] = "add" =>
       Len(jq_processing) = m_jobsAtOnce - 1 \/ Len(jq_jobQueue) = 1

LEMMA BacklogNotify ==
  ASSUME Manager, QueueInv, Backlog, NEW t \in QThreads, NEW j \in Jobs, jqNotify(t, j)
  PROVE  Backlog'
<1> USE DEF QueueInv
<1>1. /\ jq_section = {} /\ jq_processing' = Without(jq_processing, j)
      /\ queueNextJob(t, jq_jobQueue, jq_processing', "told")
      /\ UNCHANGED <<jq_jobQueue, cancelled>>
  BY DEF jqNotify
<1>2. /\ Len(jq_processing) \in Nat /\ Len(jq_processing') \in Nat
      /\ Len(jq_processing') = Len(jq_processing) \/ Len(jq_processing') = Len(jq_processing) - 1
  BY <1>1, WithoutKeys, LenProperties DEF QueueTypes, KeysApart
<1>3. PICK to \in {"add", "told"} :
        /\ to = "add" <=> jq_jobQueue # <<>> /\ Len(jq_processing') < m_jobsAtOnce
        /\ qpc' = [qpc EXCEPT ![t] = to]
        /\ jq_section' = IF to = "add" THEN {t} ELSE {}
  BY <1>1 DEF queueNextJob
<1>4. /\ \A s \in QThreads : qpc'[s] = IF s = t THEN to ELSE qpc[s]
      /\ \A s \in QThreads : qpc'[s] = "add" => s = t
  BY <1>1, <1>3, NextJobMove
<1>5. m_jobsAtOnce \in Nat \ {0}
  BY JobQueueAssumption
<1>6. ~cancelled /\ jq_jobQueue # <<>> => Len(jq_processing) = m_jobsAtOnce
  BY <1>1 DEF Backlog, BacklogMoves
<1>7. Len(jq_processing') <= m_jobsAtOnce
  BY <1>2, <1>5 DEF Backlog
<1>8. BacklogMoves'
  BY <1>1, <1>2, <1>3, <1>5, <1>6 DEF BacklogMoves
<1>9. ASSUME NEW s \in QThreads, ~cancelled', qpc'[s] = "add" PROVE Len(jq_processing') = m_jobsAtOnce - 1
  BY <1>1, <1>2, <1>3, <1>4, <1>5, <1>6, <1>9
<1>10. QED
  BY <1>7, <1>8, <1>9 DEF Backlog

LEMMA BacklogAddJob ==
  ASSUME Manager, QueueInv, Backlog, NEW u \in Users, NEW j \in Jobs, jqAddJob(u, j)
  PROVE  Backlog'
<1> USE DEF QueueInv
<1>0. jq_section = {} /\ UNCHANGED <<jq_processing, cancelled>> /\ u \in QThreads
  BY Threads DEF jqAddJob
<1>1. CASE UNCHANGED <<jq_section, jq_jobQueue, qpc>>
  BY <1>0, <1>1 DEF Backlog, BacklogMoves
<1>2. CASE /\ jq_jobQueue' = IF m_lifo THEN Append(jq_jobQueue, j) ELSE <<j>> \o jq_jobQueue
           /\ queueNextJob(u, jq_jobQueue', jq_processing, "out")
  <2>1. PICK to \in {"add", "out"} :
           /\ to = "add" <=> jq_jobQueue' # <<>> /\ Len(jq_processing) < m_jobsAtOnce
           /\ qpc' = [qpc EXCEPT ![u] = to]
           /\ jq_section' = IF to = "add" THEN {u} ELSE {}
    BY <1>2 DEF queueNextJob
  <2>2. \A s \in QThreads : qpc'[s] = "add" => s = u /\ to = "add"
    BY <1>0, <2>1, NextJobMove
  <2>3. /\ Len(jq_jobQueue) \in Nat /\ Len(jq_processing) \in Nat
        /\ Len(jq_jobQueue') = Len(jq_jobQueue) + 1
        /\ jq_jobQueue = <<>> => Len(jq_jobQueue) = 0
    BY <1>2, ConsKeys, AppendProperties, LenProperties DEF QueueTypes
  <2>4. m_jobsAtOnce \in Nat \ {0}
    BY JobQueueAssumption
  <2>5. ~cancelled /\ jq_jobQueue # <<>> => Len(jq_processing) = m_jobsAtOnce
    BY <1>0 DEF Backlog, BacklogMoves
  <2>6. BacklogMoves'
    <3>1. ASSUME jq_section' = {}, jq_jobQueue' # <<>> PROVE Len(jq_processing) = m_jobsAtOnce
      <4>1. ~(Len(jq_processing) < m_jobsAtOnce)
        BY <2>1, <3>1
      <4>2. Len(jq_processing) <= m_jobsAtOnce
        BY DEF Backlog
      <4>3. QED
        BY <2>3, <2>4, <4>1, <4>2
    <3>2. QED
      BY <1>0, <3>1 DEF BacklogMoves
  <2>7. ASSUME NEW s \in QThreads, ~cancelled, qpc'[s] = "add" PROVE Len(jq_jobQueue') = 1
    BY <2>1, <2>2, <2>3, <2>4, <2>5, <2>7
  <2>8. QED
    BY <1>0, <2>6, <2>7 DEF Backlog
<1>3. QED
  BY <1>1, <1>2 DEF jqAddJob

LEMMA BacklogAddNext ==
  ASSUME Manager, QueueInv, Backlog, NEW t \in QThreads, jqAddNext(t)
  PROVE  Backlog'
<1> USE DEF QueueInv
<1>1. /\ qpc[t] = "add" /\ jq_section = {t} /\ jq_jobQueue' = Front(jq_jobQueue) /\ UNCHANGED cancelled
      /\ jq_jobQueue # <<>> /\ Len(jq_processing) < m_jobsAtOnce
  BY DEF jqAddNext, Holder, Room, queueHistory
<1>2. /\ jq_jobQueue \in Seq(Jobs) /\ jq_processing \in Seq(Jobs)
      /\ Last(jq_jobQueue) \in Jobs
      /\ jq_jobQueue' \in Seq(Jobs)
      /\ Len(jq_jobQueue') = Len(jq_jobQueue) - 1
  BY <1>1, FrontTailRemove, RemoveAtKeys, ElementOfSeq DEF QueueTypes, KeysApart
<1>3. /\ Len(jq_jobQueue) \in Nat /\ Len(jq_processing) \in Nat /\ m_jobsAtOnce \in Nat \ {0}
      /\ Len(jq_jobQueue') = 0 <=> jq_jobQueue' = <<>>
  BY <1>2, LenProperties, EmptySeq, JobQueueAssumption
<1>4. ~cancelled => Len(jq_processing) = m_jobsAtOnce - 1 \/ Len(jq_jobQueue) = 1
  BY <1>1 DEF Backlog
<1>5. CASE m_running
  <2>1. /\ jq_processing' = Append(jq_processing, Last(jq_jobQueue)) /\ jq_section' = {}
        /\ qpc' = [qpc EXCEPT ![t] = After(t)]
    BY <1>5 DEF jqAddNext
  <2>2. Len(jq_processing') = Len(jq_processing) + 1
    BY <1>2, <2>1, AppendProperties
  <2>3. \A s \in QThreads : qpc'[s] # "add"
    <3>1. After(t) \in {"out", "told"}
      BY DEF After
    <3>2. \A s \in QThreads : qpc'[s] = IF s = t THEN After(t) ELSE qpc[s]
      BY <2>1 DEF QueueTypes
    <3>3. \A s \in QThreads : s # t => qpc[s] # "add"
      BY <1>1 DEF Holder
    <3>4. QED
      BY <3>1, <3>2, <3>3
  <2>4. BacklogMoves'
    BY <1>1, <1>2, <1>3, <1>4, <2>2 DEF BacklogMoves
  <2>5. QED
    BY <1>1, <1>3, <2>2, <2>3, <2>4 DEF Backlog
<1>6. CASE ~m_running
  <2>1. queueNextJob(t, jq_jobQueue', jq_processing, After(t)) /\ UNCHANGED jq_processing
    BY <1>6 DEF jqAddNext
  <2>2. PICK to \in {"add", After(t)} :
          /\ to = "add" <=> jq_jobQueue' # <<>> /\ Len(jq_processing) < m_jobsAtOnce
          /\ jq_section' = IF to = "add" THEN {t} ELSE {}
    BY <2>1 DEF queueNextJob, After
  <2>3. BacklogMoves'
    BY <1>1, <2>1, <2>2 DEF BacklogMoves
  <2>4. ASSUME NEW s \in QThreads, qpc'[s] = "add" PROVE jq_jobQueue' # <<>>
    <3>1. Room'
      BY InvAddNext
    <3>2. QED
      BY <2>4, <3>1 DEF Room
  <2>5. ASSUME NEW s \in QThreads, ~cancelled, qpc'[s] = "add" PROVE Len(jq_processing) = m_jobsAtOnce - 1
    BY <1>2, <1>3, <1>4, <2>4, <2>5
  <2>6. QED
    BY <1>1, <2>1, <2>3, <2>5 DEF Backlog
<1>7. QED
  BY <1>5, <1>6

LEMMA BacklogStep == Manager /\ QueueInv /\ Backlog /\ [JQNext]_jqVars => Backlog'
<1> SUFFICES ASSUME Manager, QueueInv, Backlog, [JQNext]_jqVars PROVE Backlog'
  OBVIOUS
<1>0. QueueInv'
  BY QueueInvStep
<1>1. CASE abortNotify \/ \E w \in Workers : workerNotify(w)
  BY <1>1, NotifyCases, BacklogNotify, Threads
<1>2. ASSUME UNCHANGED <<jq_section, jq_jobQueue, jq_processing, cancelled>>,
             \A s \in QThreads : qpc'[s] = "add" => qpc[s] = "add"
      PROVE  Backlog'
  BY <1>2 DEF Backlog, BacklogMoves
<1>3. CASE UNCHANGED jqVars
  BY <1>2, <1>3 DEF jqVars, listVars, queueHistory
<1>4. CASE managerCall \/ cancellerStep \/ \E w \in Workers : workerStep(w)
  BY <1>2, <1>4 DEF managerCall, cancellerStep, workerStep, listVars, queueHistory
<1>5. CASE abortCalled \/ \E w \in Workers : workerCalled(w)
  <2>1. PICK t \in QThreads : qpc' = [qpc EXCEPT ![t] = "out"]
    BY <1>5, Threads DEF abortCalled, workerCalled
  <2>2. UNCHANGED <<jq_section, jq_jobQueue, jq_processing, cancelled>>
    BY <1>5 DEF abortCalled, workerCalled, listVars, queueHistory
  <2>3. \A s \in QThreads : qpc'[s] = "add" => qpc[s] = "add"
    BY <2>1 DEF QueueInv, QueueTypes
  <2>4. QED
    BY <1>2, <2>2, <2>3
<1>6. CASE \E u \in Users, j \in Jobs : jqAddJob(u, j)
  BY <1>6, BacklogAddJob
<1>7. CASE \E t \in QThreads : jqAddNext(t)
  BY <1>7, BacklogAddNext
<1>8. ASSUME NEW u \in Users, jqCancelJob(u) \/ jqCancelJobs(u)
      PROVE  Backlog'
  <2>1. jq_section' # {} /\ UNCHANGED <<jq_processing>>
    BY <1>8 DEF jqCancelJob, jqCancelJobs
  <2>2. \A s \in QThreads : qpc'[s] # "add"
    <3>1. /\ jq_section' = {u} /\ u \in QThreads
          /\ qpc' = [qpc EXCEPT ![u] = "cancel"] \/ qpc' = [qpc EXCEPT ![u] = "cancelAll"]
      BY <1>8, Threads DEF jqCancelJob, jqCancelJobs
    <3>2. \A s \in QThreads : qpc[s] # "add"
      BY <1>8 DEF jqCancelJob, jqCancelJobs, QueueInv, Holder
    <3>3. QED
      BY <3>1, <3>2 DEF QueueInv, QueueTypes
  <2>3. QED
    BY <2>1, <2>2 DEF Backlog, BacklogMoves
<1>9. ASSUME cancelled', Len(jq_processing') <= m_jobsAtOnce
      PROVE  Backlog'
  BY <1>9 DEF Backlog, BacklogMoves
<1>10. CASE \E u \in Users, j \in Jobs : jqCancelWaiting(u, j)
  BY <1>9, <1>10 DEF jqCancelWaiting, Backlog
<1>11. CASE \E t \in QThreads : jqCancelHanded(t) \/ jqCancelFirst(t)
  <2>1. jq_processing \in Seq(Jobs) /\ KeysDiffer(jq_processing)
    BY DEF QueueInv, QueueTypes, KeysApart
  <2>2. PICK i \in 1 .. Len(jq_processing) : jq_processing' = RemoveAt(jq_processing, i)
    BY <1>11, <2>1, LenProperties, FrontTailRemove DEF jqCancelHanded, jqCancelFirst
  <2>3. Len(jq_processing') = Len(jq_processing) - 1 /\ Len(jq_processing) \in Nat
    BY <2>1, <2>2, RemoveAtKeys, LenProperties
  <2>4. Len(jq_processing') <= m_jobsAtOnce
    BY <2>3, JobQueueAssumption DEF Backlog
  <2>5. QED
    BY <1>9, <1>11, <2>4 DEF jqCancelHanded, jqCancelFirst
<1>12. CASE \E t \in QThreads : jqCancelRest(t)
  <2>1. jq_jobQueue' = <<>> /\ jq_processing' = jq_processing
    BY <1>12 DEF jqCancelRest
  <2>2. \A s \in QThreads : qpc'[s] # "add"
    BY <1>0, <2>1 DEF QueueInv, Room
  <2>3. QED
    BY <2>1, <2>2 DEF Backlog, BacklogMoves
<1>13. QED
  BY <1>1, <1>3, <1>4, <1>5, <1>6, <1>7, <1>8, <1>10, <1>11, <1>12 DEF JQNext, userCall, callStep

(* The queue never stalls with work left: unless a job was cancelled,      *)
(* while jobs wait and no call is in progress m_jobsAtOnce are handed out. *)
THEOREM BacklogAlwaysMoves == JQSpec => []BacklogMoves
<1>1. JQInit => Backlog
  BY JobQueueAssumption, Threads DEF JQInit, Backlog, BacklogMoves
<1>2. Backlog => BacklogMoves
  BY DEF Backlog
<1>3. QED
  BY <1>1, <1>2, QueueInvInit, ManagerStep, QueueInvStep, BacklogStep, PTL DEF JQSpec

-----------------------------------------------------------------------------
(* The order of completion.  Two facts about the jobs come first: one that *)
(* was cancelled has no callback any more, and one whose completion was    *)
(* told is neither waiting nor about to be told of again.                  *)

SilencedMute == \A j \in silenced : job[j] # "new" /\ (job[j] = "live" => ~m_userCallBack[j])

LEMMA MuteStep == Manager /\ SilencedMute /\ [Step]_managerVars => SilencedMute'
<1> SUFFICES ASSUME Manager, SilencedMute, [Step]_managerVars PROVE SilencedMute'
  OBVIOUS
<1>0. silenced \subseteq Jobs /\ job \in [Jobs -> {"new", "live", "freed"}] /\ m_userCallBack \in [Jobs -> BOOLEAN]
  BY DEF Manager, Ownership, TypeOK
<1>1. ASSUME NEW j \in Jobs, NEW p \in Priorities, NEW cb \in BOOLEAN, job[j] = "new", addJob(j, p, cb)
      PROVE  SilencedMute'
  <2>1. /\ silenced' = silenced
        /\ \A k \in Jobs : k # j => job'[k] = job[k] /\ m_userCallBack'[k] = m_userCallBack[k]
    BY <1>0, <1>1 DEF addJob, historyVars
  <2>2. j \notin silenced
    BY <1>1 DEF SilencedMute
  <2>3. QED
    BY <1>0, <2>1, <2>2 DEF SilencedMute
<1>2. ASSUME NEW j \in Jobs, m_id[j] # 0, cancelJob(j)
      PROVE  SilencedMute'
  <2>1. job[j] # "new"
    BY <1>2 DEF Manager, IdWindow
  <2>2. /\ \A x \in Jobs : x # j => job'[x] = job[x] /\ m_userCallBack'[x] = m_userCallBack[x]
        /\ job'[j] = job[j] \/ job'[j] = "freed"
        /\ silenced' \subseteq silenced \cup {j}
        /\ j \in silenced' /\ job'[j] = "live" => j \in silenced \/ ~m_userCallBack'[j]
        /\ m_userCallBack'[j] => m_userCallBack[j]
    BY <1>2, CancelEffect
  <2>3. QED
    BY <1>0, <2>1, <2>2 DEF SilencedMute
<1>3. ASSUME NEW j \in Jobs, cancelAbort(j)
      PROVE  SilencedMute'
  BY <1>0, <1>3, AbortEffect DEF SilencedMute
<1>4. ASSUME NEW S \in SUBSET Jobs, discard(S)
      PROVE  SilencedMute'
  <2>1. UNCHANGED <<silenced, m_userCallBack>> /\ \A k \in Jobs : job'[k] = IF k \in S THEN "freed" ELSE job[k]
    BY <1>4 DEF discard, historyVars
  <2>2. QED
    BY <1>0, <2>1 DEF SilencedMute
<1>5. ASSUME NEW w \in Workers, completeFree(w)
      PROVE  SilencedMute'
  <2>1. /\ UNCHANGED <<silenced, m_userCallBack>>
        /\ \A k \in Jobs : job'[k] = IF k \in wjob[w] THEN "freed" ELSE job[k]
    BY <1>5 DEF completeFree, historyVars
  <2>2. QED
    BY <1>0, <2>1 DEF SilencedMute
<1>6. CASE \/ pauseJobs \/ unPauseJobs \/ restart \/ cancelJobs \/ cancelAborted \/ cancelNotify \/ cancelDone
           \/ \E w \in Workers : \/ getNextJob(w) \/ removeWorker(w) \/ onJobComplete(w)
                                 \/ completeCall(w) \/ completeErase(w) \/ spuriousWake(w)
           \/ UNCHANGED managerVars
  <2>1. UNCHANGED <<silenced, m_userCallBack, job>>
    BY <1>6 DEF pauseJobs, unPauseJobs, restart, cancelJobs, cancelAborted, cancelNotify, cancelDone,
                getNextJob, removeWorker, onJobComplete, completeCall, completeErase,
                spuriousWake, managerVars, historyVars
  <2>2. QED
    BY <2>1 DEF SilencedMute
<1>7. QED
  BY <1>1, <1>2, <1>3, <1>4, <1>5, <1>6 DEF Step, Next, Client, cancelJobsStep, process

Told(j) ==
  /\ ~Queued(j)
  /\ \A w \in Workers : j \in wjob[w] => (wpc[w] = "call" /\ qpc[w] # "out") \/ wpc[w] \in {"erase", "free"}

(* The histories: what the queue has is on record, what is completed was   *)
(* accepted and told.                                                      *)
Recorded ==
  /\ \A j \in Jobs : Contains(jq_jobQueue, j) \/ m_id[j] # 0 => Contains(added, j)
  /\ \A j \in Jobs : Contains(completed, j) => m_id[j] # 0 /\ Told(j)

LEMMA ToldKeep ==
  ASSUME Manager, QueueInv, [JQNext]_jqVars, NEW j \in Jobs, m_id[j] # 0, Told(j)
  PROVE  m_id'[j] # 0 /\ Told(j)'
<1> USE DEF QueueInv
<1>0. /\ Users \subseteq QThreads /\ Workers \subseteq QThreads /\ Canceller \in QThreads
      /\ \A u \in Users : u \notin Workers /\ u # Canceller
      /\ Canceller \notin Workers
  BY Threads
<1>1. /\ qpc \in [QThreads -> {"out", "add", "told", "cancel", "cancelAll"}]
      /\ wpc \in [Workers -> {"none", "next", "asleep", "remove", "work", "call", "erase", "free"}]
      /\ wjob \in [Workers -> SUBSET Jobs]
      /\ job[j] # "new"
  BY DEF QueueTypes, Manager, Ownership, TypeOK, IdWindow
<1>2. ASSUME m_id'[j] = m_id[j], Queued(j)' => Queued(j), wjob' = wjob,
             \A w \in Workers : wjob[w] # {} => wpc'[w] = wpc[w],
             \A w \in Workers : qpc[w] # "out" => qpc'[w] # "out"
      PROVE  m_id'[j] # 0 /\ Told(j)'
  BY <1>2 DEF Told
<1>3. ASSUME UNCHANGED <<m_jobQueue, m_id, wjob>>, \A w \in Workers : wpc'[w] = wpc[w] \/ wpc[w] = "asleep",
             \A w \in Workers : qpc[w] # "out" => qpc'[w] # "out"
      PROVE  m_id'[j] # 0 /\ Told(j)'
  <2>1. \A w \in Workers : wjob[w] # {} => wpc[w] # "asleep"
    BY DEF Manager, Ownership, Carries, Busy
  <2>2. Queued(j)' <=> Queued(j)
    BY <1>3 DEF Queued
  <2>3. QED
    BY <1>2, <1>3, <2>1, <2>2
<1>4. CASE \/ UNCHANGED jqVars \/ managerCall \/ cancellerStep
           \/ \E u \in Users, k \in Jobs : jqCancelWaiting(u, k)
  <2>1. UNCHANGED <<m_jobQueue, m_id, wjob, qpc>> /\ \A w \in Workers : wpc'[w] = wpc[w] \/ wpc[w] = "asleep"
    BY <1>4 DEF jqVars, managerVars, queueVars, workerVars, managerCall, cancelJobs, restart, cancellerStep,
                cancelAborted, cancelNotify, cancelDone, jqCancelWaiting, NotifyAll
  <2>2. QED
    BY <1>3, <2>1
<1>5. ASSUME NEW u \in Users, \/ \E k \in Jobs : jqAddJob(u, k)
                              \/ jqCancelJob(u) \/ jqCancelJobs(u)
      PROVE  m_id'[j] # 0 /\ Told(j)'
  <2>1. UNCHANGED <<m_jobQueue, m_id, wjob, wpc>>
    BY <1>5 DEF jqAddJob, jqCancelJob, jqCancelJobs, managerVars, queueVars, workerVars
  <2>2. \A s \in QThreads : s # u => qpc'[s] = qpc[s]
    BY <1>1, <1>5 DEF jqAddJob, jqCancelJob, jqCancelJobs, queueNextJob
  <2>3. QED
    BY <1>0, <1>3, <2>1, <2>2
<1>6. ASSUME NEW t \in QThreads, jqCancelHanded(t) \/ jqCancelFirst(t) \/ jqCancelRest(t)
      PROVE  m_id'[j] # 0 /\ Told(j)'
  <2>1. t \in Users
    BY <1>6 DEF jqCancelHanded, jqCancelFirst, jqCancelRest, Callers, QThreads
  <2>2. \A s \in QThreads : s # t => qpc'[s] = qpc[s]
    BY <1>1, <1>6 DEF jqCancelHanded, jqCancelFirst, jqCancelRest
  <2>3. \A w \in Workers : qpc'[w] = qpc[w]
    BY <1>0, <2>1, <2>2
  <2>4. CASE jqCancelRest(t)
    BY <1>3, <2>3, <2>4 DEF jqCancelRest, queueVars, workerVars
  <2>5. CASE jqCancelHanded(t) \/ jqCancelFirst(t)
    <3>1. PICK i \in 1 .. Len(jq_processing) : cancelJob(jq_processing[i])
      BY <2>5, FrontTailRemove, LenProperties DEF jqCancelHanded, jqCancelFirst, QueueTypes
    <3>2. jq_processing[i] \in Jobs
      BY <3>1, ElementOfSeq DEF QueueTypes
    <3>3. UNCHANGED <<wpc, wjob, m_id>> /\ (Queued(j)' => Queued(j))
      BY <3>1, <3>2, CancelEffect
    <3>4. QED
      BY <1>2, <2>3, <3>3
  <2>6. QED
    BY <1>6, <2>4, <2>5
<1>7. ASSUME NEW t \in QThreads, jqAddNext(t)
      PROVE  m_id'[j] # 0 /\ Told(j)'
  <2>1. /\ jq_jobQueue \in Seq(Jobs) /\ jq_jobQueue # <<>> /\ addJob(Last(jq_jobQueue), Priority, TRUE)
    BY <1>7 DEF jqAddNext, Room, QueueTypes
  <2>2. Last(jq_jobQueue) \in Jobs /\ Contains(jq_jobQueue, Last(jq_jobQueue))
    BY <2>1, FrontTailRemove, ElementOfSeq DEF Contains
  <2>3. job[Last(jq_jobQueue)] = "new" /\ Last(jq_jobQueue) # j
    BY <1>1, <2>2 DEF Waiting
  <2>4. /\ wjob' = wjob /\ m_id'[j] = m_id[j] /\ (Queued(j)' <=> Queued(j))
        /\ \A w \in Workers : wjob[w] # {} => wpc'[w] = wpc[w]
    BY <2>1, <2>2, <2>3, AddEffect
  <2>5. PICK to \in {"add", After(t)} : qpc' = [qpc EXCEPT ![t] = to]
    BY <1>7 DEF jqAddNext, queueNextJob
  <2>6. \A w \in Workers : qpc[w] # "out" => qpc'[w] # "out"
    BY <1>0, <1>1, <2>5 DEF After
  <2>7. QED
    BY <1>2, <2>4, <2>6
<1>8. CASE abortNotify \/ \E w \in Workers : workerNotify(w)
  <2>1. PICK t \in Workers \cup {Canceller}, k \in Jobs : jqNotify(t, k)
    BY <1>8, NotifyCases
  <2>2. UNCHANGED <<m_jobQueue, m_id, wjob, wpc>>
    BY <2>1 DEF jqNotify, managerVars, queueVars, workerVars
  <2>3. PICK to \in {"add", "told"} : qpc' = [qpc EXCEPT ![t] = to]
    BY <2>1 DEF jqNotify, queueNextJob
  <2>4. \A w \in Workers : qpc[w] # "out" => qpc'[w] # "out"
    BY <1>0, <1>1, <2>3
  <2>5. QED
    BY <1>3, <2>2, <2>4
<1>9. CASE abortCalled
  <2>1. PICK k \in Jobs : cancelAbort(k)
    BY <1>9 DEF abortCalled
  <2>2. UNCHANGED <<wpc, wjob, m_id>> /\ (Queued(j)' => Queued(j))
    BY <2>1, AbortEffect
  <2>3. \A w \in Workers : qpc'[w] = qpc[w]
    BY <1>0, <1>1, <1>9 DEF abortCalled
  <2>4. QED
    BY <1>2, <2>2, <2>3
<1>10. ASSUME NEW w \in Workers, workerCalled(w)
       PROVE  m_id'[j] # 0 /\ Told(j)'
  <2>1. /\ UNCHANGED <<m_jobQueue, m_id, wjob>> /\ wpc' = [wpc EXCEPT ![w] = "erase"]
        /\ qpc' = [qpc EXCEPT ![w] = "out"]
    BY <1>10 DEF workerCalled, completeCall, queueVars
  <2>2. \A v \in Workers : v # w => qpc'[v] = qpc[v] /\ wpc'[v] = wpc[v]
    BY <1>0, <1>1, <2>1
  <2>3. wpc'[w] = "erase"
    BY <1>1, <2>1
  <2>4. Queued(j)' <=> Queued(j)
    BY <2>1 DEF Queued
  <2>5. QED
    BY <2>1, <2>2, <2>3, <2>4 DEF Told
<1>11. ASSUME NEW w \in Workers, workerStep(w)
       PROVE  m_id'[j] # 0 /\ Told(j)'
  <2>0. UNCHANGED <<qpc, m_id>>
    BY <1>11 DEF workerStep, getNextJob, popJob, removeWorker, onJobComplete, completeErase, completeFree,
                 spuriousWake, queueVars
  <2>1. ASSUME NEW p \in Priorities, popJob(w, p), getNextJob(w)
        PROVE  Told(j)'
    <3>1. /\ m_jobQueue[p] # <<>> /\ m_jobQueue[p] \in Seq(Jobs) /\ IsInjective(m_jobQueue[p])
          /\ m_jobQueue' = [m_jobQueue EXCEPT ![p] = Tail(@)]
          /\ wjob' = [wjob EXCEPT ![w] = {Head(m_jobQueue[p])}]
          /\ wpc' = [wpc EXCEPT ![w] = "work"]
      BY <2>1 DEF popJob, MayPop, Manager, Ownership, TypeOK, Lists
    <3>2. /\ Contains(m_jobQueue[p], Head(m_jobQueue[p]))
          /\ \A x : Contains(Tail(m_jobQueue[p]), x) => Contains(m_jobQueue[p], x)
      BY <3>1, ContainsTail
    <3>3. j # Head(m_jobQueue[p])
      BY <3>2 DEF Told, Queued
    <3>4. \A q \in Priorities : m_jobQueue'[q] = IF q = p THEN Tail(m_jobQueue[q]) ELSE m_jobQueue[q]
      BY <3>1 DEF Manager, Ownership, TypeOK
    <3>5. ~Queued(j)'
      BY <3>2, <3>4 DEF Told, Queued
    <3>6. \A v \in Workers : j \in wjob'[v] => v # w
      BY <1>1, <3>1, <3>3
    <3>7. \A v \in Workers : v # w => wjob'[v] = wjob[v] /\ wpc'[v] = wpc[v]
      BY <1>1, <3>1
    <3>8. QED
      BY <2>0, <3>5, <3>6, <3>7 DEF Told
  <2>2. ASSUME UNCHANGED <<m_jobQueue, wjob>>, j \notin wjob[w],
               \A v \in Workers : v # w => wpc'[v] = wpc[v]
        PROVE  Told(j)'
    BY <2>0, <2>2 DEF Told, Queued
  <2>3. CASE getNextJob(w)
    <3>1. wjob[w] = {}
      BY <2>3 DEF getNextJob, Manager, Ownership, Carries, Busy
    <3>2. CASE UNCHANGED <<m_jobQueue, wjob>> /\ \A v \in Workers : v # w => wpc'[v] = wpc[v]
      BY <2>0, <2>2, <3>1, <3>2
    <3>3. QED
      BY <1>1, <2>0, <2>1, <2>3, <3>2 DEF getNextJob
  <2>4. CASE removeWorker(w) \/ spuriousWake(w) \/ onJobComplete(w)
    <3>1. j \notin wjob[w]
      BY <2>4 DEF removeWorker, spuriousWake, onJobComplete, Told
    <3>2. UNCHANGED <<m_jobQueue, wjob>> /\ \A v \in Workers : v # w => wpc'[v] = wpc[v]
      BY <1>1, <2>4 DEF removeWorker, spuriousWake, onJobComplete, queueVars
    <3>3. QED
      BY <2>0, <2>2, <3>1, <3>2
  <2>5. CASE completeErase(w)
    <3>1. UNCHANGED <<m_jobQueue, wjob>> /\ \A v \in Workers : wpc'[v] = IF v = w THEN "free" ELSE wpc[v]
      BY <1>1, <2>5 DEF completeErase, queueVars
    <3>2. QED
      BY <2>0, <3>1 DEF Told, Queued
  <2>6. CASE completeFree(w)
    <3>1. /\ UNCHANGED m_jobQueue
          /\ \A v \in Workers : v # w => wjob'[v] = wjob[v] /\ wpc'[v] = wpc[v]
          /\ wjob'[w] = {}
      BY <1>1, <2>6 DEF completeFree, queueVars
    <3>2. QED
      BY <2>0, <3>1 DEF Told, Queued
  <2>7. QED
    BY <1>11, <2>0, <2>3, <2>4, <2>5, <2>6 DEF workerStep
<1>12. QED
  BY <1>4, <1>5, <1>6, <1>7, <1>8, <1>9, <1>10, <1>11 DEF JQNext, userCall, callStep

(* What a step may do to the histories and to the waiting jobs. *)
LEMMA Histories ==
  ASSUME Manager, QueueInv, [JQNext]_jqVars
  PROVE  /\ silenced \subseteq silenced'
         /\ \/ UNCHANGED added
            \/ \E u \in Users, j \in Jobs :
                 jqAddJob(u, j) /\ added' = Append(added, j)
                 /\ jq_jobQueue' = (IF m_lifo THEN Append(jq_jobQueue, j) ELSE <<j>> \o jq_jobQueue)
         /\ \/ UNCHANGED completed
            \/ \E w \in Workers, j \in Jobs : /\ workerNotify(w) /\ jqNotify(w, j) /\ wjob[w] = {j}
                                              /\ completed' = Append(completed, j)
         /\ \/ UNCHANGED m_id
            \/ \E t \in QThreads : jqAddNext(t) /\ m_running
<1>1. silenced \subseteq silenced'
  <2>1. CASE \/ UNCHANGED managerVars
             \/ \E S \in SUBSET Jobs : discard(S)
             \/ pauseJobs \/ unPauseJobs \/ restart \/ cancelJobs \/ cancelAborted \/ cancelNotify \/ cancelDone
             \/ \E j \in Jobs, p \in Priorities, cb \in BOOLEAN : addJob(j, p, cb)
             \/ \E w \in Workers : process(w) \/ spuriousWake(w)
    BY <2>1 DEF managerVars, discard, pauseJobs, unPauseJobs, restart, cancelJobs, cancelAborted, cancelNotify,
                cancelDone, addJob, process, getNextJob, removeWorker, onJobComplete, completeCall, completeErase,
                completeFree, spuriousWake, historyVars
  <2>2. CASE \E j \in Jobs : cancelJob(j) \/ cancelAbort(j)
    BY <2>2 DEF cancelJob, cancelAbort
  <2>3. QED
    BY <2>1, <2>2, StepOfManager DEF Step, Next, Client, cancelJobsStep
<1>2. CASE UNCHANGED jqVars
  BY <1>1, <1>2 DEF jqVars, queueHistory, managerVars, queueVars
<1>3. CASE abortNotify \/ \E w \in Workers : workerNotify(w)
  <2>1. CASE abortNotify
    BY <1>1, <2>1, Threads DEF abortNotify, jqNotify, managerVars, queueVars
  <2>2. ASSUME NEW w \in Workers, workerNotify(w)
        PROVE  \E j \in Jobs : /\ jqNotify(w, j) /\ wjob[w] = {j} /\ completed' = Append(completed, j)
                               /\ UNCHANGED <<m_id, added>>
    <3>1. PICK j \in Jobs : wjob[w] = {j} /\ jqNotify(w, j)
      BY <2>2 DEF workerNotify, Manager, Ownership, Carries, Busy
    <3>2. QED
      BY <3>1 DEF jqNotify, managerVars, queueVars
  <2>3. QED
    BY <1>1, <1>3, <2>1, <2>2
<1>4. CASE \/ managerCall \/ abortCalled \/ cancellerStep
           \/ \E w \in Workers : workerCalled(w) \/ workerStep(w)
  <2>1. UNCHANGED <<added, completed>>
    BY <1>4 DEF managerCall, abortCalled, cancellerStep, workerCalled, workerStep, queueHistory
  <2>2. UNCHANGED m_id
    BY <1>4 DEF managerCall, cancelJobs, restart, abortCalled, cancelAbort, cancellerStep, cancelAborted,
                cancelNotify, cancelDone, workerCalled, completeCall, workerStep, getNextJob, popJob, removeWorker,
                onJobComplete, completeErase, completeFree, spuriousWake, queueVars
  <2>3. QED
    BY <1>1, <2>1, <2>2
<1>5. ASSUME NEW u \in Users, NEW j \in Jobs, jqAddJob(u, j)
      PROVE  /\ UNCHANGED <<completed, m_id>>
             /\ \/ UNCHANGED added
                \/ /\ added' = Append(added, j)
                   /\ jq_jobQueue' = IF m_lifo THEN Append(jq_jobQueue, j) ELSE <<j>> \o jq_jobQueue
  BY <1>5 DEF jqAddJob, queueVars
<1>6. CASE \E u \in Users : jqCancelJob(u) \/ jqCancelJobs(u) \/ \E j \in Jobs : jqCancelWaiting(u, j)
  BY <1>1, <1>6 DEF jqCancelJob, jqCancelJobs, jqCancelWaiting, queueHistory, managerVars, queueVars
<1>7. CASE \E t \in QThreads : jqCancelHanded(t) \/ jqCancelFirst(t) \/ jqCancelRest(t)
  BY <1>1, <1>7 DEF jqCancelHanded, jqCancelFirst, jqCancelRest, cancelJob, queueHistory, queueVars
<1>8. ASSUME NEW t \in QThreads, jqAddNext(t)
      PROVE  UNCHANGED <<added, completed>> /\ (m_running \/ UNCHANGED m_id)
  BY <1>8 DEF jqAddNext, addJob, queueHistory
<1>9. QED
  BY <1>1, <1>2, <1>3, <1>4, <1>5, <1>6, <1>7, <1>8 DEF JQNext, userCall, callStep

(* No step but addJob puts a job on the waiting list. *)
LEMMA WaitingShrinks ==
  ASSUME Manager, QueueInv, [JQNext]_jqVars
  PROVE  \/ Thinned(jq_jobQueue', jq_jobQueue) /\ \A x : Contains(jq_jobQueue', x) => Contains(jq_jobQueue, x)
         \/ \E u \in Users, j \in Jobs :
              jqAddJob(u, j) /\ added' = Append(added, j)
              /\ jq_jobQueue' = (IF m_lifo THEN Append(jq_jobQueue, j) ELSE <<j>> \o jq_jobQueue)
<1>0. jq_jobQueue \in Seq(Jobs) /\ KeysDiffer(jq_jobQueue)
  BY DEF QueueInv, QueueTypes, KeysApart
<1>1. CASE UNCHANGED jq_jobQueue
  BY <1>1 DEF Thinned
<1>2. ASSUME NEW u \in Users, NEW j \in Jobs, jqAddJob(u, j)
      PROVE  \/ UNCHANGED jq_jobQueue
             \/ /\ added' = Append(added, j)
                /\ jq_jobQueue' = (IF m_lifo THEN Append(jq_jobQueue, j) ELSE <<j>> \o jq_jobQueue)
  BY <1>2 DEF jqAddJob
<1>3. CASE \E u \in Users, j \in Jobs : jqCancelWaiting(u, j)
  BY <1>0, <1>3, WithoutKeys DEF jqCancelWaiting
<1>4. CASE \E t \in QThreads : jqCancelRest(t)
  BY <1>4, ContainsEmpty DEF jqCancelRest, Thinned
<1>5. CASE \E t \in QThreads : jqAddNext(t)
  <2>1. jq_jobQueue # <<>> /\ jq_jobQueue' = Front(jq_jobQueue)
    BY <1>5 DEF jqAddNext, QueueInv, Room
  <2>2. QED
    BY <1>0, <2>1, FrontTailRemove, RemoveAtKeys
<1>6. CASE \/ UNCHANGED jqVars \/ managerCall \/ abortCalled \/ cancellerStep
           \/ \E w \in Workers : workerCalled(w) \/ workerStep(w) \/ workerNotify(w)
           \/ abortNotify
           \/ \E u \in Users : jqCancelJob(u) \/ jqCancelJobs(u)
           \/ \E t \in QThreads : jqCancelHanded(t) \/ jqCancelFirst(t)
  <2>1. UNCHANGED jq_jobQueue
    BY <1>6 DEF jqVars, managerCall, abortCalled, cancellerStep, workerCalled, workerStep, workerNotify, abortNotify,
                jqNotify, jqCancelJob, jqCancelJobs, jqCancelHanded, jqCancelFirst, listVars
  <2>2. QED
    BY <1>1, <2>1
<1>7. QED
  BY <1>1, <1>2, <1>3, <1>4, <1>5, <1>6 DEF JQNext, userCall, callStep

LEMMA RecordedStep == Manager /\ QueueInv /\ Recorded /\ [JQNext]_jqVars => Recorded'
<1> SUFFICES ASSUME Manager, QueueInv, Recorded, [JQNext]_jqVars PROVE Recorded'
  OBVIOUS
<1>0. added \in Seq(Jobs) /\ completed \in Seq(Jobs) /\ jq_jobQueue \in Seq(Jobs)
  BY DEF QueueInv, QueueTypes
<1>1. \A x : Contains(added, x) => Contains(added', x)
  <2>1. added' = added \/ \E j \in Jobs : added' = Append(added, j)
    BY Histories
  <2>2. \A j \in Jobs : \A x : Contains(added, x) => Contains(Append(added, j), x)
    BY <1>0, ContainsAppend
  <2>3. QED
    BY <2>1, <2>2
<1>2. ASSUME NEW j \in Jobs, Contains(jq_jobQueue', j) PROVE Contains(added', j)
  <2>1. CASE Contains(jq_jobQueue, j)
    BY <1>1, <2>1 DEF Recorded
  <2>2. CASE ~Contains(jq_jobQueue, j)
    <3>1. PICK k \in Jobs : added' = Append(added, k) /\ Contains(jq_jobQueue', j)
                            /\ jq_jobQueue' = (IF m_lifo THEN Append(jq_jobQueue, k) ELSE <<k>> \o jq_jobQueue)
      BY <1>2, <2>2, WaitingShrinks
    <3>2. j = k
      BY <1>0, <2>2, <3>1, ConsKeys, ContainsAppend
    <3>3. QED
      BY <1>0, <3>1, <3>2, ContainsAppend
  <2>3. QED
    BY <2>1, <2>2
<1>3. ASSUME NEW j \in Jobs, m_id'[j] # 0 PROVE Contains(added', j)
  <2>1. CASE m_id[j] # 0
    BY <1>1, <2>1 DEF Recorded
  <2>2. CASE m_id[j] = 0
    <3>1. PICK t \in QThreads : jqAddNext(t) /\ m_running
      BY <1>3, <2>2, Histories
    <3>2. jq_jobQueue # <<>> /\ addJob(Last(jq_jobQueue), Priority, TRUE)
      BY <3>1 DEF jqAddNext, QueueInv, Room
    <3>3. Last(jq_jobQueue) \in Jobs /\ Contains(jq_jobQueue, Last(jq_jobQueue))
      BY <1>0, <3>2, FrontTailRemove, ElementOfSeq DEF Contains
    <3>4. j = Last(jq_jobQueue)
      BY <1>3, <2>2, <3>2, <3>3, AddEffect DEF QueueInv, Waiting
    <3>5. QED
      BY <1>1, <3>3, <3>4 DEF Recorded
  <2>3. QED
    BY <2>1, <2>2
<1>4. ASSUME NEW j \in Jobs, Contains(completed', j) PROVE m_id'[j] # 0 /\ Told(j)'
  <2>1. CASE Contains(completed, j)
    BY <2>1, ToldKeep DEF Recorded
  <2>2. CASE ~Contains(completed, j)
    <3>1. PICK w \in Workers : workerNotify(w) /\ jqNotify(w, j) /\ wjob[w] = {j}
      <4>1. PICK w \in Workers, k \in Jobs : /\ workerNotify(w) /\ jqNotify(w, k) /\ wjob[w] = {k}
                                            /\ completed' = Append(completed, k)
        BY <1>4, <2>2, Histories
      <4>2. j = k
        BY <1>0, <1>4, <2>2, <4>1, ContainsAppend
      <4>3. QED
        BY <4>1, <4>2
    <3>2. job[j] = "live" /\ ~Queued(j) /\ \A v \in Workers : j \in wjob[v] => v = w
      BY <3>1 DEF Manager, Ownership, CarriedAlive, CarriedOnce, QueuedAlone, Queued
    <3>3. m_id[j] # 0
      BY <3>2 DEF Manager, IdWindow
    <3>4. UNCHANGED <<m_id, m_jobQueue, wjob, wpc>> /\ wpc[w] = "call"
      BY <3>1 DEF workerNotify, jqNotify, managerVars, queueVars, workerVars
    <3>5. qpc'[w] # "out"
      <4>1. PICK to \in {"add", "told"} : qpc' = [qpc EXCEPT ![w] = to]
        BY <3>1 DEF jqNotify, queueNextJob
      <4>2. QED
        BY <4>1, Threads DEF QueueInv, QueueTypes
    <3>6. QED
      BY <3>2, <3>3, <3>4, <3>5 DEF Told, Queued
  <2>3. QED
    BY <2>1, <2>2
<1>5. QED
  BY <1>2, <1>3, <1>4 DEF Recorded

(* One at a time: the job with the manager, if any.  It counts until its   *)
(* completion is told or its cancellation is done.                         *)
Handed(j) == m_id[j] # 0 /\ j \notin silenced /\ ~Contains(completed, j)

Precedes(s, x, y) == \E a, b \in DOMAIN s : a < b /\ s[a] = x /\ s[b] = y

(* No cancelled job has called back. *)
Honest == \A j \in Jobs : Contains(completed, j) => j \notin silenced

(* Completed jobs, then the one with the manager, then the waiting ones    *)
(* from the back of the list: all in the order of addJob.                  *)
InLine ==
  /\ \A a, b \in DOMAIN jq_jobQueue : a < b => Precedes(added, jq_jobQueue[b], jq_jobQueue[a])
  /\ \A j, k \in Jobs : (Handed(j) \/ Contains(completed, j)) /\ Contains(jq_jobQueue, k) => Precedes(added, j, k)
  /\ \A j, k \in Jobs : Contains(completed, j) /\ Handed(k) => Precedes(added, j, k)
  /\ \A a, b \in DOMAIN completed : a < b => Precedes(added, completed[a], completed[b])

(* It is on the queue's list, except while the canceller has taken it off  *)
(* and is about to drop it, or a job that it is equal to.                  *)
OneHanded ==
  /\ \A j, k \in Jobs : Handed(j) /\ Handed(k) => j = k
  /\ \A j \in Jobs : Handed(j) /\ ~Contains(jq_processing, j) =>
       /\ cpc = "abort" /\ qpc[Canceller] # "out"
       /\ \E c \in Jobs : NextAbort(c) /\ m_userCallBack[c] /\ (c = j \/ Contains(completed, c))

Order == m_jobsAtOnce = 1 /\ ~m_lifo /\ Honest => InLine /\ OneHanded

LEMMA InLineKeep ==
  ASSUME InLine, UNCHANGED <<added, completed>>,
         Thinned(jq_jobQueue', jq_jobQueue),
         \A x : Contains(jq_jobQueue', x) => Contains(jq_jobQueue, x),
         \A k \in Jobs : Handed(k)' => Handed(k)
  PROVE  InLine'
<1>0. added' = added
  OBVIOUS
<1>1. ASSUME NEW a \in DOMAIN jq_jobQueue', NEW b \in DOMAIN jq_jobQueue', a < b
      PROVE  Precedes(added', jq_jobQueue'[b], jq_jobQueue'[a])
  <2>1. PICK c, d \in DOMAIN jq_jobQueue : c < d /\ jq_jobQueue'[a] = jq_jobQueue[c] /\ jq_jobQueue'[b] = jq_jobQueue[d]
    BY <1>1 DEF Thinned
  <2>2. Precedes(added, jq_jobQueue[d], jq_jobQueue[c])
    BY <2>1 DEF InLine
  <2>3. Precedes(added, jq_jobQueue'[b], jq_jobQueue'[a])
    BY <2>1, <2>2
  <2>4. QED
    BY <1>0, <2>3
<1>2. \A j, k \in Jobs : (Handed(j)' \/ Contains(completed', j)) /\ Contains(jq_jobQueue', k) => Precedes(added', j, k)
  BY <1>0 DEF InLine
<1>3. \A j, k \in Jobs : Contains(completed', j) /\ Handed(k)' => Precedes(added', j, k)
  BY <1>0 DEF InLine
<1>4. ASSUME NEW a \in DOMAIN completed', NEW b \in DOMAIN completed', a < b
      PROVE  Precedes(added', completed'[a], completed'[b])
  <2>1. Precedes(added, completed[a], completed[b])
    BY <1>4 DEF InLine
  <2>2. QED
    BY <1>0, <2>1
<1>5. QED
  BY <1>1, <1>2, <1>3, <1>4 DEF InLine

LEMMA OneHandedKeep ==
  ASSUME OneHanded, UNCHANGED completed,
         \A k \in Jobs : Handed(k)' => Handed(k),
         \A k \in Jobs : Handed(k)' /\ Contains(jq_processing, k) => Contains(jq_processing', k),
         qpc[Canceller] # "out" =>
           qpc'[Canceller] # "out" /\ UNCHANGED <<m_jobQueue, m_processing, m_userCallBack, cpc>>
  PROVE  OneHanded'
<1>1. \A j, k \in Jobs : Handed(j)' /\ Handed(k)' => j = k
  BY DEF OneHanded
<1>2. ASSUME NEW j \in Jobs, Handed(j)', ~Contains(jq_processing', j)
      PROVE  /\ cpc' = "abort" /\ qpc'[Canceller] # "out"
             /\ \E c \in Jobs : NextAbort(c)' /\ m_userCallBack'[c] /\ (c = j \/ Contains(completed', c))
  <2>1. /\ cpc = "abort" /\ qpc[Canceller] # "out"
        /\ \E c \in Jobs : NextAbort(c) /\ m_userCallBack[c] /\ (c = j \/ Contains(completed, c))
    BY <1>2 DEF OneHanded
  <2>2. qpc'[Canceller] # "out" /\ UNCHANGED <<m_jobQueue, m_processing, m_userCallBack, cpc>>
    BY <2>1
  <2>3. \A c : NextAbort(c)' <=> NextAbort(c)
    BY <2>2, NextAbortSame
  <2>4. QED
    BY <2>1, <2>2, <2>3
<1>3. QED
  BY <1>1, <1>2 DEF OneHanded

(* A job on the queue's list is the one with the manager. *)
LEMMA ListedHanded ==
  ASSUME Manager, QueueInv, SilencedMute, Recorded, NEW j \in Jobs, Contains(jq_processing, j)
  PROVE  Handed(j)
<1>1. /\ job[j] = "live" /\ m_userCallBack[j]
      /\ \A w \in Workers : j \in wjob[w] => wpc[w] = "work" \/ (wpc[w] = "call" /\ wcall[w] /\ qpc[w] = "out")
  BY DEF QueueInv, HandedOut
<1>2. m_id[j] # 0 /\ j \notin silenced
  BY <1>1 DEF Manager, IdWindow, SilencedMute
<1>3. ~Told(j)
  <2>1. Queued(j) \/ \E w \in Workers : j \in wjob[w]
    BY <1>1 DEF Manager, Ownership, LiveSomewhere, Queued
  <2>2. QED
    BY <1>1, <2>1 DEF Told
<1>4. QED
  BY <1>2, <1>3 DEF Handed, Recorded

(* While the manager can be called nothing is handed out but what is listed. *)
LEMMA HandedListed ==
  ASSUME Manager, QueueInv, OneHanded, m_section = "free", NEW j \in Jobs, Handed(j)
  PROVE  Contains(jq_processing, j)
  BY CancellerOut DEF OneHanded

LEMMA BeforeAppend ==
  ASSUME QueueInv, NEW j \in Jobs, added' = Append(added, j)
  PROVE  /\ \A x, y : Precedes(added, x, y) => Precedes(added', x, y)
         /\ \A x : Contains(added, x) => Precedes(added', x, j)
<1>1. /\ added \in Seq(Jobs) /\ Len(added) \in Nat /\ DOMAIN added = 1 .. Len(added)
      /\ Len(added') = Len(added) + 1 /\ added' \in Seq(Jobs)
      /\ \A i \in 1 .. Len(added) : added'[i] = added[i]
      /\ added'[Len(added) + 1] = j
  BY AppendProperties, LenProperties DEF QueueInv, QueueTypes
<1>2. DOMAIN added' = 1 .. Len(added) + 1
  BY <1>1, LenProperties
<1>3. ASSUME NEW x, NEW y, Precedes(added, x, y) PROVE Precedes(added', x, y)
  <2>1. PICK a, b \in 1 .. Len(added) : a < b /\ added[a] = x /\ added[b] = y
    BY <1>1, <1>3 DEF Precedes
  <2>2. a \in DOMAIN added' /\ b \in DOMAIN added' /\ added'[a] = x /\ added'[b] = y
    BY <1>1, <1>2, <2>1
  <2>3. QED
    BY <2>1, <2>2 DEF Precedes
<1>4. ASSUME NEW x, Contains(added, x) PROVE Precedes(added', x, j)
  <2>1. PICK a \in 1 .. Len(added) : added[a] = x
    BY <1>4 DEF Contains
  <2>2. a \in DOMAIN added' /\ Len(added) + 1 \in DOMAIN added' /\ a < Len(added) + 1 /\ added'[a] = x
    BY <1>1, <1>2, <2>1
  <2>3. QED
    BY <1>1, <2>2 DEF Precedes
<1>5. QED
  BY <1>3, <1>4

LEMMA OrderAddJob ==
  ASSUME Manager, QueueInv, Recorded, InLine, OneHanded, ~m_lifo, NEW u \in Users, NEW j \in Jobs,
         jqAddJob(u, j), added' = Append(added, j), jq_jobQueue' = <<j>> \o jq_jobQueue
  PROVE  InLine' /\ OneHanded'
<1>1. UNCHANGED <<m_id, silenced, completed, jq_processing, m_jobQueue, m_processing, m_userCallBack, cpc>>
  BY DEF jqAddJob, queueVars, historyVars
<1>2. \A k : Handed(k)' <=> Handed(k)
  BY <1>1 DEF Handed
<1>3. qpc'[Canceller] = qpc[Canceller]
  BY Threads DEF jqAddJob, queueNextJob, QueueInv, QueueTypes
<1>4. OneHanded'
  BY <1>1, <1>2, <1>3, OneHandedKeep
<1>5. jq_jobQueue \in Seq(Jobs) /\ Len(jq_jobQueue) \in Nat /\ DOMAIN jq_jobQueue = 1 .. Len(jq_jobQueue)
  BY LenProperties DEF QueueInv, QueueTypes
<1>6. /\ jq_jobQueue' \in Seq(Jobs) /\ Len(jq_jobQueue') = Len(jq_jobQueue) + 1
      /\ jq_jobQueue'[1] = j
      /\ \A k \in 1 .. Len(jq_jobQueue) : jq_jobQueue'[k + 1] = jq_jobQueue[k]
      /\ \A x : Contains(jq_jobQueue', x) <=> Contains(jq_jobQueue, x) \/ x = j
  BY <1>5, ConsKeys
<1>7. DOMAIN jq_jobQueue' = 1 .. Len(jq_jobQueue) + 1
  BY <1>6, LenProperties
<1>8. /\ \A x, y : Precedes(added, x, y) => Precedes(added', x, y)
      /\ \A x : Contains(added, x) => Precedes(added', x, j)
  BY BeforeAppend
<1>9. ASSUME NEW a \in DOMAIN jq_jobQueue', NEW b \in DOMAIN jq_jobQueue', a < b
      PROVE  Precedes(added', jq_jobQueue'[b], jq_jobQueue'[a])
  <2>1. b - 1 \in 1 .. Len(jq_jobQueue) /\ (b - 1) + 1 = b
    BY <1>5, <1>7, <1>9
  <2>2. jq_jobQueue'[b] = jq_jobQueue[b - 1]
    BY <1>6, <2>1
  <2>3. CASE a = 1
    <3>1. jq_jobQueue[b - 1] \in Jobs /\ Contains(jq_jobQueue, jq_jobQueue[b - 1])
      BY <1>5, <2>1, ElementOfSeq DEF Contains
    <3>2. Contains(added, jq_jobQueue[b - 1])
      BY <3>1 DEF Recorded
    <3>3. jq_jobQueue'[a] = j
      BY <1>6, <2>3
    <3>4. QED
      BY <1>8, <2>2, <3>2, <3>3
  <2>4. CASE a # 1
    <3>1. a - 1 \in 1 .. Len(jq_jobQueue) /\ (a - 1) + 1 = a /\ a - 1 < b - 1
      BY <1>5, <1>7, <1>9, <2>4
    <3>2. jq_jobQueue'[a] = jq_jobQueue[a - 1]
      BY <1>6, <3>1
    <3>3. Precedes(added, jq_jobQueue[b - 1], jq_jobQueue[a - 1])
      BY <1>5, <2>1, <3>1 DEF InLine
    <3>4. QED
      BY <1>8, <2>2, <3>2, <3>3
  <2>5. QED
    BY <2>3, <2>4
<1>10. ASSUME NEW x \in Jobs, NEW y \in Jobs, Handed(x)' \/ Contains(completed', x), Contains(jq_jobQueue', y)
       PROVE  Precedes(added', x, y)
  <2>1. Handed(x) \/ Contains(completed, x)
    BY <1>1, <1>2, <1>10
  <2>2. Contains(added, x)
    BY <2>1 DEF Handed, Recorded
  <2>3. QED
    BY <1>6, <1>8, <1>10, <2>1, <2>2 DEF InLine
<1>11. \A x, y \in Jobs : Contains(completed', x) /\ Handed(y)' => Precedes(added', x, y)
  BY <1>1, <1>2, <1>8 DEF InLine
<1>12. ASSUME NEW a \in DOMAIN completed', NEW b \in DOMAIN completed', a < b
       PROVE  Precedes(added', completed'[a], completed'[b])
  <2>1. Precedes(added, completed[a], completed[b])
    BY <1>1, <1>12 DEF InLine
  <2>2. QED
    BY <1>1, <1>8, <2>1
<1>13. QED
  BY <1>4, <1>9, <1>10, <1>11, <1>12 DEF InLine

LEMMA OrderAddNext ==
  ASSUME Manager, QueueInv, Recorded, InLine, OneHanded, m_jobsAtOnce = 1, NEW t \in QThreads, jqAddNext(t)
  PROVE  InLine' /\ OneHanded'
<1> DEFINE j == Last(jq_jobQueue)
<1>1. /\ qpc[t] = "add" /\ addJob(j, Priority, TRUE) /\ jq_jobQueue' = Front(jq_jobQueue)
      /\ UNCHANGED <<added, completed>>
      /\ jq_jobQueue # <<>> /\ Len(jq_processing) < 1
  BY DEF jqAddNext, QueueInv, Room, queueHistory
<1>2. /\ jq_jobQueue \in Seq(Jobs) /\ KeysDiffer(jq_jobQueue) /\ jq_processing \in Seq(Jobs)
      /\ Len(jq_jobQueue) \in Nat \ {0} /\ DOMAIN jq_jobQueue = 1 .. Len(jq_jobQueue)
  BY <1>1, LenProperties, EmptySeq DEF QueueInv, QueueTypes, KeysApart
<1>3. \A k \in Jobs : ~Handed(k)
  <2>1. jq_processing = <<>>
    BY <1>1, <1>2, LenProperties, EmptySeq
  <2>2. \A k : ~Contains(jq_processing, k)
    BY <2>1, ContainsEmpty
  <2>3. m_section = "free"
    BY <1>1 DEF addJob
  <2>4. QED
    BY <2>2, <2>3, HandedListed
<1>4. j \in Jobs /\ Contains(jq_jobQueue, j) /\ j = jq_jobQueue[Len(jq_jobQueue)]
  BY <1>1, <1>2, FrontTailRemove, ElementOfSeq DEF Contains
<1>5. /\ jq_jobQueue' \in Seq(Jobs) /\ Thinned(jq_jobQueue', jq_jobQueue)
      /\ \A x : Contains(jq_jobQueue', x) <=> Contains(jq_jobQueue, x) /\ ~Equal(x, j)
  <2> DEFINE n == Len(jq_jobQueue)
  <2>1. n \in 1 .. Len(jq_jobQueue) /\ jq_jobQueue' = RemoveAt(jq_jobQueue, n)
    BY <1>1, <1>2, FrontTailRemove
  <2>2. /\ RemoveAt(jq_jobQueue, n) \in Seq(Jobs)
        /\ Thinned(RemoveAt(jq_jobQueue, n), jq_jobQueue)
        /\ \A x : Contains(RemoveAt(jq_jobQueue, n), x) <=> Contains(jq_jobQueue, x) /\ ~Equal(x, jq_jobQueue[n])
    BY <1>2, <2>1, RemoveAtKeys
  <2>3. QED
    BY <1>4, <2>1, <2>2
<1>6. /\ UNCHANGED silenced
      /\ \A k \in Jobs : k # j => m_id'[k] = m_id[k]
      /\ ~m_running => m_id' = m_id
  BY <1>1, <1>4, AddEffect DEF QueueInv, Waiting
<1>7. \A k \in Jobs : Handed(k)' => k = j /\ m_running
  BY <1>1, <1>3, <1>6 DEF Handed
<1> HIDE DEF j
<1>8. OneHanded'
  <2>1. ASSUME NEW k \in Jobs, Handed(k)' PROVE Contains(jq_processing', k)
    <3>1. m_running /\ k = j
      BY <1>7, <2>1
    <3>2. jq_processing' = Append(jq_processing, j)
      BY <3>1 DEF jqAddNext, j
    <3>3. QED
      BY <1>2, <1>4, <3>1, <3>2, ContainsAppend
  <2>2. \A x, y \in Jobs : Handed(x)' /\ Handed(y)' => x = y
    BY <1>7
  <2>3. QED
    BY <2>1, <2>2 DEF OneHanded
<1>9. ASSUME NEW a \in DOMAIN jq_jobQueue', NEW b \in DOMAIN jq_jobQueue', a < b
      PROVE  Precedes(added', jq_jobQueue'[b], jq_jobQueue'[a])
  BY <1>1, <1>5, <1>9 DEF Thinned, InLine
<1>10. ASSUME NEW y \in Jobs, Contains(jq_jobQueue', y) PROVE Precedes(added', j, y)
  <2>1. Contains(jq_jobQueue, y) /\ y # j
    BY <1>5, <1>10 DEF Equal
  <2>2. PICK a \in 1 .. Len(jq_jobQueue) : jq_jobQueue[a] = y
    BY <2>1 DEF Contains
  <2>3. a < Len(jq_jobQueue) /\ Len(jq_jobQueue) \in 1 .. Len(jq_jobQueue)
    BY <1>2, <1>4, <2>1, <2>2
  <2>4. Precedes(added, jq_jobQueue[Len(jq_jobQueue)], jq_jobQueue[a])
    BY <1>2, <2>2, <2>3 DEF InLine
  <2>5. QED
    BY <1>1, <1>4, <2>2, <2>4
<1>11. ASSUME NEW x \in Jobs, NEW y \in Jobs, Handed(x)' \/ Contains(completed', x), Contains(jq_jobQueue', y)
       PROVE  Precedes(added', x, y)
  <2>1. CASE Handed(x)'
    BY <1>7, <1>10, <1>11, <2>1
  <2>2. CASE Contains(completed', x)
    <3>1. Contains(jq_jobQueue, y) /\ Contains(completed, x)
      BY <1>1, <1>5, <1>11, <2>2
    <3>2. QED
      BY <1>1, <3>1 DEF InLine
  <2>3. QED
    BY <1>11, <2>1, <2>2
<1>12. ASSUME NEW x \in Jobs, NEW y \in Jobs, Contains(completed', x), Handed(y)'
       PROVE  Precedes(added', x, y)
  <2>1. y = j /\ Contains(completed, x)
    BY <1>1, <1>7, <1>12
  <2>2. QED
    BY <1>1, <1>4, <2>1 DEF InLine
<1>13. \A a, b \in DOMAIN completed' : a < b => Precedes(added', completed'[a], completed'[b])
  BY <1>1 DEF InLine
<1>14. QED
  BY <1>8, <1>9, <1>11, <1>12, <1>13 DEF InLine

(* A worker tells that the job is done: it is the one that was handed out. *)
LEMMA OrderComplete ==
  ASSUME Manager, QueueInv, Recorded, InLine, OneHanded, Honest', NEW w \in Workers, NEW j \in Jobs,
         workerNotify(w), jqNotify(w, j), wjob[w] = {j}, completed' = Append(completed, j)
  PROVE  InLine' /\ OneHanded'
<1>1. UNCHANGED <<m_id, silenced, added, jq_jobQueue>> /\ wpc[w] = "call" /\ qpc[w] = "out"
  BY DEF workerNotify, jqNotify, managerVars, queueVars, historyVars
<1>2. /\ completed \in Seq(Jobs) /\ Len(completed) \in Nat /\ DOMAIN completed = 1 .. Len(completed)
      /\ completed' \in Seq(Jobs) /\ Len(completed') = Len(completed) + 1
      /\ \A i \in 1 .. Len(completed) : completed'[i] = completed[i]
      /\ completed'[Len(completed) + 1] = j
      /\ \A x : Contains(completed', x) <=> Contains(completed, x) \/ x = j
  BY LenProperties, AppendProperties, ContainsAppend DEF QueueInv, QueueTypes
<1>3. DOMAIN completed' = 1 .. Len(completed) + 1
  BY <1>2, LenProperties
<1>4. Handed(j)
  <2>1. m_id[j] # 0
    BY DEF Manager, Ownership, CarriedAlive, IdWindow
  <2>2. j \notin silenced
    BY <1>1, <1>2 DEF Honest
  <2>3. ~Told(j)
    BY <1>1 DEF Told
  <2>4. QED
    BY <2>1, <2>2, <2>3 DEF Handed, Recorded
<1>5. \A k \in Jobs : ~Handed(k)'
  <2>1. \A k \in Jobs : Handed(k)' => Handed(k) /\ k # j
    BY <1>1, <1>2 DEF Handed
  <2>2. QED
    BY <1>4, <2>1 DEF OneHanded
<1>6. OneHanded'
  BY <1>5 DEF OneHanded
<1>7. \A a, b \in DOMAIN jq_jobQueue' : a < b => Precedes(added', jq_jobQueue'[b], jq_jobQueue'[a])
  BY <1>1 DEF InLine
<1>8. \A x, y \in Jobs : Contains(completed', x) /\ Contains(jq_jobQueue', y) => Precedes(added', x, y)
  BY <1>1, <1>2, <1>4 DEF InLine
<1>9. ASSUME NEW a \in DOMAIN completed', NEW b \in DOMAIN completed', a < b
      PROVE  Precedes(added', completed'[a], completed'[b])
  <2>1. a \in 1 .. Len(completed) /\ completed'[a] = completed[a]
    BY <1>2, <1>3, <1>9
  <2>2. CASE b = Len(completed) + 1
    <3>1. completed[a] \in Jobs /\ Contains(completed, completed[a])
      BY <1>2, <2>1, ElementOfSeq DEF Contains
    <3>2. Precedes(added, completed[a], j)
      BY <1>4, <3>1 DEF InLine
    <3>3. QED
      BY <1>1, <1>2, <2>1, <2>2, <3>2
  <2>3. CASE b \in 1 .. Len(completed)
    <3>1. Precedes(added, completed[a], completed[b])
      BY <1>2, <1>9, <2>1, <2>3 DEF InLine
    <3>2. QED
      BY <1>1, <1>2, <2>1, <2>3, <3>1
  <2>4. QED
    BY <1>2, <1>3, <2>2, <2>3
<1>10. QED
  BY <1>5, <1>6, <1>7, <1>8, <1>9 DEF InLine

LEMMA NextAbortLive ==
  ASSUME Manager, NEW j \in Jobs, NextAbort(j)
  PROVE  job[j] = "live"
<1>1. CASE abortQueued(j)
  <2>1. PICK p \in Priorities : m_jobQueue[p] # <<>> /\ Head(m_jobQueue[p]) = j
    BY <1>1 DEF abortQueued
  <2>2. Contains(m_jobQueue[p], j)
    BY <2>1, ContainsTail DEF Manager, Ownership, TypeOK, Lists
  <2>3. QED
    BY <2>2 DEF Manager, Ownership, QueuedAlone
<1>2. CASE abortProcessing(j)
  <2>1. Contains(m_processing, j)
    BY <1>2, LenProperties DEF abortProcessing, Contains, Manager, Ownership, TypeOK
  <2>2. QED
    BY <2>1 DEF Manager, Ownership, ProcessedByWorker, CarriedAlive
<1>3. QED
  BY <1>1, <1>2 DEF NextAbort

(* The canceller tells of a job: it takes that one off the list, or, when  *)
(* its completion was told before, perhaps an equal one.                   *)
LEMMA OrderAbortNotify ==
  ASSUME Manager, QueueInv, SilencedMute, Recorded, InLine, OneHanded, abortNotify
  PROVE  InLine' /\ OneHanded'
<1>1. PICK j \in Jobs : NextAbort(j) /\ m_userCallBack[j] /\ jqNotify(Canceller, j)
  BY DEF abortNotify, NextAbort
<1>2. cpc = "abort" /\ qpc[Canceller] = "out"
  BY DEF abortNotify
<1>3. /\ UNCHANGED <<m_id, silenced, added, completed, jq_jobQueue, m_jobQueue, m_processing, m_userCallBack, cpc>>
      /\ jq_processing' = Without(jq_processing, j)
  BY <1>1, Threads DEF jqNotify, managerVars, queueVars, historyVars
<1>4. \A k : Handed(k)' <=> Handed(k)
  BY <1>3 DEF Handed
<1>5. InLine'
  <2>1. Thinned(jq_jobQueue', jq_jobQueue)
    BY <1>3 DEF Thinned
  <2>2. QED
    BY <1>3, <1>4, <2>1, InLineKeep
<1>6. qpc'[Canceller] # "out"
  <2>1. PICK to \in {"add", "told"} : qpc' = [qpc EXCEPT ![Canceller] = to]
    BY <1>1 DEF jqNotify, queueNextJob
  <2>2. QED
    BY <2>1, Threads DEF QueueInv, QueueTypes
<1>7. ASSUME NEW k \in Jobs, Handed(k) PROVE j = k \/ Contains(completed, j)
  <2>1. job[j] = "live"
    BY <1>1, NextAbortLive
  <2>2. m_id[j] # 0 /\ j \notin silenced
    BY <1>1, <2>1 DEF Manager, IdWindow, SilencedMute
  <2>3. QED
    BY <1>7, <2>2 DEF Handed, OneHanded
<1>8. NextAbort(j)'
  BY <1>1, <1>3, NextAbortSame
<1>9. OneHanded'
  <2>1. \A x, y \in Jobs : Handed(x)' /\ Handed(y)' => x = y
    BY <1>4 DEF OneHanded
  <2>2. ASSUME NEW k \in Jobs, Handed(k)' PROVE m_userCallBack'[j] /\ (j = k \/ Contains(completed', j))
    BY <1>1, <1>3, <1>4, <1>7, <2>2
  <2>3. QED
    BY <1>2, <1>3, <1>6, <1>8, <2>1, <2>2 DEF OneHanded
<1>10. QED
  BY <1>5, <1>9

LEMMA OrderAbortCalled ==
  ASSUME Manager, QueueInv, Recorded, InLine, OneHanded, Honest', abortCalled
  PROVE  InLine' /\ OneHanded'
<1>1. PICK j \in Jobs : cancelAbort(j)
  BY DEF abortCalled
<1>2. NextAbort(j) /\ silenced' = silenced \cup {j} /\ UNCHANGED m_id
  BY <1>1, AbortEffect
<1>3. UNCHANGED <<added, completed, jq_jobQueue, jq_processing>>
  BY DEF abortCalled, listVars, queueHistory
<1>4. \A k \in Jobs : Handed(k)' => Handed(k) /\ k # j
  BY <1>2, <1>3 DEF Handed
<1>5. InLine'
  <2>1. Thinned(jq_jobQueue', jq_jobQueue)
    BY <1>3 DEF Thinned
  <2>2. QED
    BY <1>3, <1>4, <2>1, InLineKeep
<1>6. ~Contains(completed, j)
  BY <1>2, <1>3 DEF Honest
<1>7. ASSUME NEW k \in Jobs, Handed(k)' PROVE Contains(jq_processing', k)
  <2> SUFFICES ASSUME ~Contains(jq_processing, k) PROVE FALSE
    BY <1>3
  <2>1. PICK c \in Jobs : NextAbort(c) /\ (c = k \/ Contains(completed, c))
    BY <1>4, <1>7 DEF OneHanded
  <2>2. c = j
    BY <1>2, <2>1, NextAbortOnce
  <2>3. QED
    BY <1>4, <1>6, <1>7, <2>1, <2>2
<1>8. OneHanded'
  BY <1>4, <1>7 DEF OneHanded
<1>9. QED
  BY <1>5, <1>8

LEMMA OrderCancelListed ==
  ASSUME Manager, QueueInv, SilencedMute, Recorded, InLine, OneHanded,
         NEW t \in QThreads, jqCancelHanded(t) \/ jqCancelFirst(t)
  PROVE  InLine' /\ OneHanded'
<1>1. jq_processing \in Seq(Jobs) /\ UNCHANGED <<added, completed, jq_jobQueue>>
  BY DEF QueueInv, QueueTypes, jqCancelHanded, jqCancelFirst
<1>2. PICK i \in 1 .. Len(jq_processing) : cancelJob(jq_processing[i])
  BY <1>1, FrontTailRemove, LenProperties DEF jqCancelHanded, jqCancelFirst
<1> DEFINE j == jq_processing[i]
<1>3. j \in Jobs /\ Contains(jq_processing, j)
  BY <1>1, <1>2, ElementOfSeq DEF Contains
<1>4. Handed(j)
  BY <1>3, ListedHanded
<1>5. job[j] = "live" /\ \A w \in Workers : j \in wjob[w] => wpc[w] # "free"
  BY <1>3 DEF QueueInv, HandedOut
<1>6. j \in silenced' /\ silenced \subseteq silenced' /\ UNCHANGED m_id
  BY <1>2, <1>3, <1>5, CancelEffect
<1> HIDE DEF j
<1>7. \A k \in Jobs : Handed(k)' => Handed(k) /\ k # j
  BY <1>1, <1>6 DEF Handed
<1>8. \A k \in Jobs : ~Handed(k)'
  BY <1>3, <1>4, <1>7 DEF OneHanded
<1>9. InLine'
  <2>1. Thinned(jq_jobQueue', jq_jobQueue)
    BY <1>1 DEF Thinned
  <2>2. QED
    BY <1>1, <1>7, <2>1, InLineKeep
<1>10. OneHanded'
  BY <1>8 DEF OneHanded
<1>11. QED
  BY <1>9, <1>10

(* Every other step: at most waiting jobs are dropped. *)
LEMMA OrderOther ==
  ASSUME Manager, QueueInv, InLine, OneHanded,
         UNCHANGED <<m_id, silenced, added, completed, jq_processing>>,
         Thinned(jq_jobQueue', jq_jobQueue), \A x : Contains(jq_jobQueue', x) => Contains(jq_jobQueue, x),
         qpc[Canceller] # "out" =>
           qpc'[Canceller] # "out" /\ UNCHANGED <<m_jobQueue, m_processing, m_userCallBack, cpc>>
  PROVE  InLine' /\ OneHanded'
<1>1. \A k : Handed(k)' <=> Handed(k)
  BY DEF Handed
<1>2. InLine'
  BY <1>1, InLineKeep
<1>3. OneHanded'
  BY <1>1, OneHandedKeep
<1>4. QED
  BY <1>2, <1>3

LEMMA OrderStep ==
  Manager /\ QueueInv /\ SilencedMute /\ Recorded /\ Order /\ [JQNext]_jqVars => Order'
<1> SUFFICES ASSUME Manager, QueueInv, SilencedMute, Recorded, Order, [JQNext]_jqVars,
                    m_jobsAtOnce = 1, ~m_lifo, Honest'
             PROVE  InLine' /\ OneHanded'
  BY DEF Order
<1>0. /\ Users \subseteq QThreads /\ Workers \subseteq QThreads /\ Canceller \in QThreads
      /\ \A u \in Users : u \notin Workers /\ u # Canceller
      /\ Canceller \notin Workers
      /\ qpc \in [QThreads -> {"out", "add", "told", "cancel", "cancelAll"}]
  BY Threads DEF QueueInv, QueueTypes
<1>1. Honest
  <2>1. completed \in Seq(Jobs)
    BY DEF QueueInv, QueueTypes
  <2>2. completed' = completed \/ \E k \in Jobs : completed' = Append(completed, k)
    BY Histories
  <2>3. \A k \in Jobs : \A x : Contains(completed, x) => Contains(Append(completed, k), x)
    BY <2>1, ContainsAppend
  <2>4. \A x : Contains(completed, x) => Contains(completed', x)
    BY <2>2, <2>3
  <2>5. silenced \subseteq silenced'
    BY Histories
  <2>6. QED
    BY <2>4, <2>5 DEF Honest
<1>2. InLine /\ OneHanded
  BY <1>1 DEF Order
<1>3. CASE \E t \in QThreads : jqAddNext(t)
  BY <1>2, <1>3, OrderAddNext
<1>4. CASE \E w \in Workers : workerNotify(w)
  <2>1. PICK w \in Workers : workerNotify(w)
    BY <1>4
  <2>2. PICK j \in Jobs : wjob[w] = {j} /\ jqNotify(w, j)
    BY <2>1 DEF workerNotify, Manager, Ownership, Carries, Busy
  <2>3. completed' = Append(completed, j)
    BY <2>2 DEF jqNotify
  <2>4. QED
    BY <1>2, <2>1, <2>2, <2>3, OrderComplete
<1>5. CASE abortNotify
  BY <1>2, <1>5, OrderAbortNotify
<1>6. CASE abortCalled
  BY <1>2, <1>6, OrderAbortCalled
<1>7. CASE \E t \in QThreads : jqCancelHanded(t) \/ jqCancelFirst(t)
  BY <1>2, <1>7, OrderCancelListed
<1>8. Thinned(jq_jobQueue, jq_jobQueue)
  BY DEF Thinned
<1>9. ASSUME NEW u \in Users, NEW j \in Jobs, jqAddJob(u, j)
      PROVE  InLine' /\ OneHanded'
  <2>1. CASE UNCHANGED <<added, jq_jobQueue, qpc>>
    <3>1. UNCHANGED <<m_id, silenced, added, completed, jq_processing, qpc, m_jobQueue, m_processing, m_userCallBack,
                      cpc>>
      BY <1>9, <2>1 DEF jqAddJob, queueVars, historyVars
    <3>2. QED
      BY <1>2, <1>8, <2>1, <3>1, OrderOther
  <2>2. CASE added' = Append(added, j) /\ jq_jobQueue' = <<j>> \o jq_jobQueue
    BY <1>2, <1>9, <2>2, OrderAddJob
  <2>3. QED
    BY <1>9, <2>1, <2>2 DEF jqAddJob
<1>10. CASE \/ \E u \in Users : jqCancelJob(u) \/ jqCancelJobs(u) \/ \E j \in Jobs : jqCancelWaiting(u, j)
            \/ \E t \in QThreads : jqCancelRest(t)
  <2>1. /\ UNCHANGED <<m_id, silenced, added, completed, jq_processing, m_jobQueue, m_processing, m_userCallBack, cpc>>
    BY <1>10 DEF jqCancelJob, jqCancelJobs, jqCancelWaiting, jqCancelRest, managerVars, queueVars, historyVars,
                 queueHistory
  <2>2. \A x : Contains(jq_jobQueue', x) => Contains(jq_jobQueue, x)
    BY <1>10, WithoutKeys, ContainsEmpty DEF jqCancelJob, jqCancelJobs, jqCancelWaiting, jqCancelRest, QueueInv,
                                             QueueTypes, KeysApart
  <2>3. Thinned(jq_jobQueue', jq_jobQueue)
    <3>1. CASE \E u \in Users : jqCancelJob(u) \/ jqCancelJobs(u)
      BY <1>8, <3>1 DEF jqCancelJob, jqCancelJobs
    <3>2. CASE \E u \in Users, j \in Jobs : jqCancelWaiting(u, j)
      BY <3>2, WithoutKeys DEF jqCancelWaiting, QueueInv, QueueTypes, KeysApart
    <3>3. CASE \E t \in QThreads : jqCancelRest(t)
      BY <3>3 DEF jqCancelRest, Thinned
    <3>4. QED
      BY <1>10, <3>1, <3>2, <3>3
  <2>4. qpc[Canceller] # "out" => qpc'[Canceller] # "out"
    <3>1. ASSUME NEW t \in QThreads, jqCancelRest(t) PROVE t # Canceller
      BY <3>1 DEF jqCancelRest, QueueInv, Callers
    <3>2. QED
      BY <1>0, <1>10, <3>1 DEF jqCancelJob, jqCancelJobs, jqCancelWaiting, jqCancelRest
  <2>5. QED
    BY <1>2, <2>1, <2>2, <2>3, <2>4, OrderOther
<1>11. CASE \/ UNCHANGED jqVars \/ managerCall \/ cancellerStep
            \/ \E w \in Workers : workerCalled(w) \/ workerStep(w)
  <2>1. UNCHANGED <<added, completed, jq_processing, jq_jobQueue>>
    BY <1>11 DEF jqVars, managerCall, cancellerStep, workerCalled, workerStep, listVars, queueHistory
  <2>2. UNCHANGED <<m_id, silenced>>
    BY <1>11 DEF jqVars, managerVars, managerCall, cancelJobs, restart, cancellerStep, cancelAborted,
                 cancelNotify, cancelDone, workerCalled, completeCall, workerStep, getNextJob, popJob, removeWorker,
                 onJobComplete, completeErase, completeFree, spuriousWake, queueVars, historyVars
  <2>3. qpc'[Canceller] = qpc[Canceller]
    BY <1>0, <1>11 DEF jqVars, managerCall, cancellerStep, workerCalled, workerStep
  <2>4. ASSUME qpc[Canceller] # "out"
        PROVE  UNCHANGED <<m_jobQueue, m_processing, m_userCallBack, cpc>>
    <3>1. cpc = "abort" /\ m_section = "held" /\ \E j \in Jobs : NextAbort(j)
      BY <2>4 DEF QueueInv, Aborting, Manager, Staffing, Stopped
    <3>2. CASE UNCHANGED jqVars
      BY <3>2 DEF jqVars, managerVars, queueVars
    <3>3. CASE managerCall \/ cancellerStep
      BY <3>1, <3>3 DEF managerCall, cancelJobs, restart, cancellerStep, cancelAborted, cancelNotify, cancelDone,
                        NextAbort
    <3>4. CASE \E w \in Workers : workerCalled(w) \/ workerStep(w)
      BY <3>1, <3>4 DEF workerCalled, completeCall, workerStep, getNextJob, removeWorker,
                        onJobComplete, completeErase, completeFree, spuriousWake, queueVars
    <3>5. QED
      BY <1>11, <3>2, <3>3, <3>4
  <2>5. QED
    BY <1>2, <1>8, <2>1, <2>2, <2>3, <2>4, OrderOther
<1>12. QED
  BY <1>3, <1>4, <1>5, <1>6, <1>7, <1>9, <1>10, <1>11 DEF JQNext, userCall, callStep

(* With one job at a time and not lifo, jobs complete in the order of      *)
(* addJob, whichever workers take them and whatever is cancelled meanwhile,*)
(* unless a job that was cancelled calls back all the same.                *)
THEOREM CompletesInOrder == JQSpec => []CompletedInOrder
<1>1. JQInit => SilencedMute /\ Recorded /\ Order
  <2> SUFFICES ASSUME JQInit PROVE SilencedMute /\ Recorded /\ Order
    OBVIOUS
  <2>1. /\ silenced = {} /\ jq_jobQueue = <<>> /\ completed = <<>> /\ \A j \in Jobs : m_id[j] = 0
    BY DEF JQInit, Init
  <2>2. SilencedMute /\ Recorded
    BY <2>1, ContainsEmpty DEF SilencedMute, Recorded
  <2>3. \A j \in Jobs : ~Handed(j)
    BY <2>1 DEF Handed
  <2>4. InLine /\ OneHanded
    BY <2>1, <2>3, ContainsEmpty DEF InLine, OneHanded
  <2>5. QED
    BY <2>2, <2>4 DEF Order
<1>2. Manager /\ QueueInv /\ SilencedMute /\ [JQNext]_jqVars => SilencedMute'
  BY StepOfManager, MuteStep
<1>3. QueueInv /\ Order => CompletedInOrder
  <2> SUFFICES ASSUME QueueInv, Order, m_jobsAtOnce = 1, ~m_lifo,
                      \A i \in DOMAIN completed : completed[i] \notin silenced,
                      NEW i \in DOMAIN completed, NEW j \in DOMAIN completed, i < j
               PROVE  \E a, b \in DOMAIN added : a < b /\ added[a] = completed[i] /\ added[b] = completed[j]
    BY DEF CompletedInOrder
  <2>1. Honest
    BY LenProperties DEF QueueInv, QueueTypes, Honest, Contains
  <2>2. Precedes(added, completed[i], completed[j])
    BY <2>1 DEF Order, InLine
  <2>3. QED
    BY <2>2 DEF Precedes
<1>4. QED
  BY <1>1, <1>2, <1>3, QueueInvInit, ManagerStep, QueueInvStep, RecordedStep, OrderStep, PTL DEF JQSpec
=============================================================================
