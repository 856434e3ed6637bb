------------------------------ MODULE JobManager -----------------------------
(***************************************************************************)
(* lu::thread::JobManager and its JobWorkers (src/thread/JobManager.cpp).  *)
(* Jobs wait in one deque per priority; a worker takes one, calls the      *)
(* user's callback and frees the job.  Workers are started on demand and   *)
(* sleep on m_cv when there is nothing for them.                           *)
(*                                                                         *)
(* A critical section of m_section that calls nothing outside is one step. *)
(* Only cancelJobs calls the user while it holds m_section, so the mutex   *)
(* has a variable.  process() has the call of doWork commented out: a job  *)
(* is complete as soon as a worker has it, and Job::shouldCancel, which    *)
(* only doWork calls, is never reached.                                    *)
(***************************************************************************)
EXTENDS Integers, Sequences, FiniteSets, SequencesExt

CONSTANTS
  Jobs,                 \* Job objects; each is added once
  Workers,              \* worker threads
  Priorities,           \* the priorities in use, from PRIORITY_LOW_PAUSABLE (0) up
  HardwareConcurrency,  \* std::thread::hardware_concurrency()
  UIntMod,              \* 2^32: range of unsigned int
  StartId               \* m_jobCounter when the observed window opens

PRIORITY_LOW_PAUSABLE == 0
PRIORITY_HIGH == 3
PRIORITY_DEDICATED == 4

ASSUME JobManagerAssumption ==
  /\ IsFiniteSet(Jobs)
  /\ Priorities \subseteq PRIORITY_LOW_PAUSABLE .. PRIORITY_DEDICATED
  /\ HardwareConcurrency \in Nat
  /\ UIntMod \in Nat \ {0}
  /\ Cardinality(Jobs) < UIntMod - 1
  /\ StartId \in 0 .. UIntMod - 1

VARIABLES
  m_jobCounter,
  m_running,
  m_pauseJobs,
  m_jobQueue,    \* per priority, the waiting jobs, next one first
  m_processing,  \* the jobs that workers have taken, oldest first
  m_workers,     \* the registered workers
  m_section,     \* the mutex: held by cancelJobs between two steps, or not
  m_id,          \* WorkItem::m_id of each accepted job
  m_priority,    \* WorkItem::m_priority
  m_userCallBack,\* WorkItem::m_userCallBack is set
  job,           \* "new", "live" (owned by the manager) or "freed"
  wpc,           \* where each worker stands
  wjob,          \* the job a worker has taken, as a set of at most one
  wcall,         \* the callback in the worker's copy of the item is set
  cpc,           \* where the thread that calls cancelJobs stands
  answered,      \* history: jobs whose onJobComplete or onJobAbort was called
  silenced,      \* history: jobs of which a cancel returned or onJobAbort was called
  late,          \* history: silenced jobs whose onJobComplete was called afterwards
  overlap        \* history: restart was called while cancelJobs waited for the workers

queueVars == <<m_jobCounter, m_running, m_pauseJobs, m_jobQueue, m_id, m_priority>>
workerVars == <<m_workers, wpc, wjob, wcall>>
historyVars == <<answered, silenced, late, overlap>>
managerVars == <<queueVars, m_processing, m_section, m_userCallBack, job, workerVars, cpc, historyVars>>

Init ==
  /\ m_jobCounter = StartId
  /\ m_running = TRUE
  /\ m_pauseJobs = FALSE
  /\ m_jobQueue = [p \in Priorities |-> <<>>]
  /\ m_processing = <<>>
  /\ m_workers = {}
  /\ m_section = "free"
  /\ m_id = [j \in Jobs |-> 0]
  /\ m_priority = [j \in Jobs |-> PRIORITY_LOW_PAUSABLE]
  /\ m_userCallBack = [j \in Jobs |-> FALSE]
  /\ job = [j \in Jobs |-> "new"]
  /\ wpc = [w \in Workers |-> "none"]
  /\ wjob = [w \in Workers |-> {}]
  /\ wcall = [w \in Workers |-> FALSE]
  /\ cpc = "idle"
  /\ answered = {} /\ silenced = {} /\ late = {}
  /\ overlap = FALSE

-----------------------------------------------------------------------------
max_workers == IF HardwareConcurrency <= 2 THEN 1 ELSE HardwareConcurrency

(* The subtraction is unsigned: with few processors it wraps or gives 0.   *)
getMaxWorkers(p) ==
  IF p = PRIORITY_DEDICATED THEN 10000 ELSE (max_workers - (PRIORITY_HIGH - p)) % UIntMod

(* A thread can always be started: startWorkers starts one for a job that  *)
(* no worker has, and no more than getMaxWorkers at a time.                *)
ASSUME WorkersAssumption ==
  /\ IsFiniteSet(Workers)
  /\ \/ Cardinality(Jobs) <= Cardinality(Workers)
     \/ \A p \in Priorities : getMaxWorkers(p) <= Cardinality(Workers)

(* m_cv.notify_all: every sleeping worker goes back to its loop. *)
NotifyAll == [w \in Workers |-> IF wpc[w] = "asleep" THEN "next" ELSE wpc[w]]

Queued(j) == \E p \in Priorities : Contains(m_jobQueue[p], j)
Processing(j) == Contains(m_processing, j)

(* The name of a new thread; which one does not matter. *)
NewWorker == CHOOSE w \in Workers : wpc[w] = "none"

startWorkersQuietly(p) ==
  IF Len(m_processing) < getMaxWorkers(p) /\ Len(m_processing) >= Cardinality(m_workers)
  THEN /\ wpc' = [wpc EXCEPT ![NewWorker] = "next"]
       /\ m_workers' = m_workers \cup {NewWorker}
  ELSE UNCHANGED <<wpc, m_workers>>

(* startWorkers wakes the workers, starts one, or leaves the job to a      *)
(* worker that is busy.                                                    *)
startWorkers(p) ==
  \/ /\ Len(m_processing) >= getMaxWorkers(p)
     /\ UNCHANGED <<wpc, m_workers>>
  \/ /\ Len(m_processing) < getMaxWorkers(p)
     /\ Len(m_processing) < Cardinality(m_workers)
     /\ wpc' = NotifyAll
     /\ UNCHANGED m_workers
  \/ /\ Len(m_processing) < getMaxWorkers(p)
     /\ Len(m_processing) >= Cardinality(m_workers)
     /\ wpc' = [wpc EXCEPT ![NewWorker] = "next"]
     /\ m_workers' = m_workers \cup {NewWorker}

nextIdUnchecked == (m_jobCounter + 1) % UIntMod

(* Id 0 means "not accepted" and is skipped. *)
nextId ==
  LET n == (m_jobCounter + 1) % UIntMod IN IF n = 0 THEN 1 ELSE n

addJob(j, p, cb) ==
  /\ m_section = "free"
  /\ IF m_running
     THEN /\ m_jobCounter' = nextId
          /\ m_id' = [m_id EXCEPT ![j] = nextId]
          /\ m_priority' = [m_priority EXCEPT ![j] = p]
          /\ m_userCallBack' = [m_userCallBack EXCEPT ![j] = cb]
          /\ job' = [job EXCEPT ![j] = "live"]
          /\ m_jobQueue' = [m_jobQueue EXCEPT ![p] = Append(@, j)]
          /\ startWorkers(p)
     ELSE /\ job' = [job EXCEPT ![j] = "freed"]
          /\ UNCHANGED <<m_jobCounter, m_id, m_priority, m_userCallBack, m_jobQueue, wpc, m_workers>>
  /\ UNCHANGED <<m_running, m_pauseJobs, m_processing, m_section, wjob, wcall, cpc, historyVars>>

(* cancelJob: a waiting job is freed, of one being processed only the      *)
(* callback is removed.  The id names one job (IdsDistinct).               *)
cancelJob(j) ==
  /\ m_section = "free"
  /\ m_jobQueue' = [p \in Priorities |-> RemoveFirst(m_jobQueue[p], j)]
  /\ job' = [job EXCEPT ![j] = IF Queued(j) THEN "freed" ELSE @]
  /\ m_userCallBack' = [m_userCallBack EXCEPT ![j] = @ /\ ~Processing(j)]
  /\ silenced' = IF Queued(j) \/ Processing(j) THEN silenced \cup {j} ELSE silenced
  /\ UNCHANGED <<m_jobCounter, m_running, m_pauseJobs, m_id, m_priority, m_processing,
                 m_section, workerVars, cpc, answered, late, overlap>>

pauseJobs ==
  /\ m_section = "free"
  /\ m_pauseJobs' = TRUE
  /\ UNCHANGED <<m_jobCounter, m_running, m_jobQueue, m_id, m_priority, m_processing, m_section,
                 m_userCallBack, job, workerVars, cpc, historyVars>>

unPauseJobs ==
  /\ m_section = "free"
  /\ m_pauseJobs' = FALSE
  /\ UNCHANGED <<m_jobCounter, m_running, m_jobQueue, m_id, m_priority, m_processing, m_section,
                 m_userCallBack, job, workerVars, cpc, historyVars>>

restart ==
  /\ m_section = "free"
  /\ ~m_running
  /\ m_running' = TRUE
  /\ overlap' = (overlap \/ cpc # "idle")
  /\ UNCHANGED <<m_jobCounter, m_pauseJobs, m_jobQueue, m_id, m_priority, m_processing, m_section,
                 m_userCallBack, job, workerVars, cpc, answered, silenced, late>>

-----------------------------------------------------------------------------
(* cancelJobs, one callback per step, m_section held throughout ...        *)
cancelJobs ==
  /\ cpc = "idle"
  /\ m_section = "free"
  /\ m_section' = "held"
  /\ m_running' = FALSE
  /\ cpc' = "abort"
  /\ UNCHANGED <<m_jobCounter, m_pauseJobs, m_jobQueue, m_id, m_priority, m_processing,
                 m_userCallBack, job, workerVars, historyVars>>

(* the job whose callback comes next: waiting jobs, lowest priority first, *)
(* then the ones being processed that still have a callback                *)
abortQueued(j) ==
  \E p \in Priorities :
    /\ m_jobQueue[p] # <<>> /\ Head(m_jobQueue[p]) = j
    /\ \A q \in Priorities : q < p => m_jobQueue[q] = <<>>

abortProcessing(j) ==
  /\ \A p \in Priorities : m_jobQueue[p] = <<>>
  /\ \E i \in DOMAIN m_processing :
       /\ m_processing[i] = j /\ m_userCallBack[j]
       /\ \A k \in 1 .. i - 1 : ~m_userCallBack[m_processing[k]]

(* onJobAbort, then freeJob for a waiting job and cancel for the others. *)
cancelAbort(j) ==
  /\ cpc = "abort"
  /\ abortQueued(j) \/ abortProcessing(j)
  /\ m_jobQueue' = [p \in Priorities |-> RemoveFirst(m_jobQueue[p], j)]
  /\ job' = [job EXCEPT ![j] = IF Queued(j) THEN "freed" ELSE @]
  /\ answered' = IF m_userCallBack[j] THEN answered \cup {j} ELSE answered
  /\ silenced' = silenced \cup {j}
  /\ m_userCallBack' = [m_userCallBack EXCEPT ![j] = FALSE]
  /\ UNCHANGED <<m_jobCounter, m_running, m_pauseJobs, m_id, m_priority, m_processing, m_section,
                 workerVars, cpc, late, overlap>>

cancelAborted ==
  /\ cpc = "abort"
  /\ ~\E j \in Jobs : abortQueued(j) \/ abortProcessing(j)
  /\ m_section' = "free"
  /\ cpc' = IF m_workers = {} THEN "idle" ELSE "drain"
  /\ UNCHANGED <<queueVars, m_processing, m_userCallBack, job, workerVars, historyVars>>

cancelWait ==
  /\ cpc = "drain"
  /\ m_workers # {}
  /\ UNCHANGED managerVars

(* ... then m_section is free and the workers are told to finish, over and *)
(* over, until none is left.                                               *)
cancelNotify ==
  /\ cpc = "drain"
  /\ m_workers # {}
  /\ wpc' = NotifyAll
  /\ UNCHANGED <<queueVars, m_processing, m_section, m_userCallBack, job, m_workers, wjob, wcall,
                 cpc, historyVars>>

cancelDone ==
  /\ cpc = "drain"
  /\ m_section = "free"
  /\ m_workers = {}
  /\ cpc' = "idle"
  /\ UNCHANGED <<queueVars, m_processing, m_section, m_userCallBack, job, workerVars, historyVars>>

-----------------------------------------------------------------------------
(* popJob takes the first job of the highest priority that has one it may  *)
(* start now.                                                              *)
MayPop(p) ==
  /\ ~(p = PRIORITY_LOW_PAUSABLE /\ m_pauseJobs)
  /\ m_jobQueue[p] # <<>>
  /\ Len(m_processing) < getMaxWorkers(p)

popJob(w, p) ==
  /\ MayPop(p)
  /\ \A q \in Priorities : MayPop(q) => q <= p
  /\ m_processing' = Append(m_processing, Head(m_jobQueue[p]))
  /\ m_jobQueue' = [m_jobQueue EXCEPT ![p] = Tail(@)]
  /\ wjob' = [wjob EXCEPT ![w] = {Head(m_jobQueue[p])}]
  /\ wpc' = [wpc EXCEPT ![w] = "work"]
  /\ UNCHANGED <<m_jobCounter, m_id, m_priority>>

(* getNextJob: take a job, or wait on m_cv, or leave when m_running is off.*)
getNextJob(w) ==
  /\ wpc[w] = "next"
  /\ m_section = "free"
  /\ \/ /\ m_running
        /\ \E p \in Priorities : popJob(w, p)
     \/ /\ m_running
        /\ ~\E p \in Priorities : MayPop(p)
        /\ wpc' = [wpc EXCEPT ![w] = "asleep"]
        /\ UNCHANGED <<m_jobCounter, m_jobQueue, m_id, m_priority, m_processing, wjob>>
     \/ /\ ~m_running
        /\ wpc' = [wpc EXCEPT ![w] = "remove"]
        /\ UNCHANGED <<m_jobCounter, m_jobQueue, m_id, m_priority, m_processing, wjob>>
  /\ UNCHANGED <<m_running, m_pauseJobs, m_section, m_userCallBack, job, m_workers, wcall, cpc,
                 historyVars>>

spuriousWake(w) ==
  /\ wpc[w] = "asleep"
  /\ wpc' = [wpc EXCEPT ![w] = "next"]
  /\ UNCHANGED <<queueVars, m_processing, m_section, m_userCallBack, job, m_workers, wjob, wcall,
                 cpc, historyVars>>

(* removeWorker runs after getNextJob has left m_section; the thread ends. *)
removeWorker(w) ==
  /\ wpc[w] = "remove"
  /\ m_section = "free"
  /\ m_workers' = m_workers \ {w}
  /\ wpc' = [wpc EXCEPT ![w] = "none"]
  /\ UNCHANGED <<queueVars, m_processing, m_section, m_userCallBack, job, wjob, wcall, cpc, historyVars>>

(* onJobComplete copies the item, which it always finds (JobsOwnedOnce),   *)
(* under m_section ...                                                     *)
onJobComplete(w) ==
  /\ wpc[w] = "work"
  /\ m_section = "free"
  /\ wcall' = [wcall EXCEPT ![w] = \E j \in wjob[w] : m_userCallBack[j]]
  /\ wpc' = [wpc EXCEPT ![w] = "call"]
  /\ UNCHANGED <<queueVars, m_processing, m_section, m_userCallBack, job, m_workers, wjob, cpc,
                 historyVars>>

(* ... calls the user from the copy, without the lock ... *)
completeCall(w) ==
  /\ wpc[w] = "call"
  /\ wpc' = [wpc EXCEPT ![w] = "erase"]
  /\ answered' = IF wcall[w] THEN answered \cup wjob[w] ELSE answered
  /\ late' = IF wcall[w] THEN late \cup (wjob[w] \cap silenced) ELSE late
  /\ UNCHANGED <<queueVars, m_processing, m_section, m_userCallBack, job, m_workers, wjob, wcall,
                 cpc, silenced, overlap>>

completeEraseNone(w) ==
  /\ wpc[w] = "erase"
  /\ m_section = "free"
  /\ wpc' = [wpc EXCEPT ![w] = "free"]
  /\ UNCHANGED <<queueVars, m_processing, m_section, m_userCallBack, job, m_workers, wjob, wcall,
                 cpc, historyVars>>

(* ... erases the item under the lock again ... *)
completeErase(w) ==
  /\ wpc[w] = "erase"
  /\ m_section = "free"
  /\ \E j \in wjob[w] : m_processing' = RemoveFirst(m_processing, j)
  /\ wpc' = [wpc EXCEPT ![w] = "free"]
  /\ UNCHANGED <<queueVars, m_section, m_userCallBack, job, m_workers, wjob, wcall, cpc, historyVars>>

(* ... and frees the job without it. *)
completeFree(w) ==
  /\ wpc[w] = "free"
  /\ job' = [j \in Jobs |-> IF j \in wjob[w] THEN "freed" ELSE job[j]]
  /\ wjob' = [wjob EXCEPT ![w] = {}]
  /\ wcall' = [wcall EXCEPT ![w] = FALSE]
  /\ wpc' = [wpc EXCEPT ![w] = "next"]
  /\ UNCHANGED <<queueVars, m_processing, m_section, m_userCallBack, m_workers, cpc, historyVars>>

process(w) ==
  \/ getNextJob(w) \/ removeWorker(w) \/ onJobComplete(w)
  \/ completeCall(w) \/ completeErase(w) \/ completeFree(w)

(* What cancelJobs does after its first step. *)
cancelJobsStep ==
  \/ \E j \in Jobs : cancelAbort(j)
  \/ cancelAborted \/ cancelNotify \/ cancelDone

(* Users add a job object once and cancel what was accepted. *)
Client ==
  \/ \E j \in Jobs, p \in Priorities, cb \in BOOLEAN : job[j] = "new" /\ addJob(j, p, cb)
  \/ \E j \in Jobs : m_id[j] # 0 /\ cancelJob(j)
  \/ pauseJobs \/ unPauseJobs \/ restart \/ cancelJobs

Next ==
  \/ Client
  \/ cancelJobsStep
  \/ \E w \in Workers : process(w) \/ spuriousWake(w)

(* Worker threads and cancelJobs run on; nothing obliges a user to call.   *)
Fairness ==
  /\ \A w \in Workers : WF_managerVars(process(w))
  /\ WF_managerVars(cancelJobsStep)

Spec == Init /\ [][Next]_managerVars /\ Fairness

-----------------------------------------------------------------------------
TypeOK ==
  /\ m_jobCounter \in 0 .. UIntMod - 1
  /\ m_running \in BOOLEAN /\ m_pauseJobs \in BOOLEAN
  /\ m_jobQueue \in [Priorities -> Seq(Jobs)]
  /\ m_processing \in Seq(Jobs)
  /\ m_workers \subseteq Workers
  /\ m_section \in {"free", "held"}
  /\ m_id \in [Jobs -> 0 .. UIntMod - 1]
  /\ m_priority \in [Jobs -> PRIORITY_LOW_PAUSABLE .. PRIORITY_DEDICATED]
  /\ m_userCallBack \in [Jobs -> BOOLEAN]
  /\ job \in [Jobs -> {"new", "live", "freed"}]
  /\ wpc \in [Workers -> {"none", "next", "asleep", "remove", "work", "call", "erase", "free"}]
  /\ wjob \in [Workers -> SUBSET Jobs]
  /\ wcall \in [Workers -> BOOLEAN]
  /\ cpc \in {"idle", "abort", "drain"}
  /\ answered \subseteq Jobs /\ silenced \subseteq Jobs /\ late \subseteq Jobs
  /\ overlap \in BOOLEAN

Has(w, j) == wpc[w] \in {"work", "call", "erase", "free"} /\ j \in wjob[w]

(* A job that the manager owns is in one place only: it waits in a queue,  *)
(* once, or one worker has it.  What the queues, m_processing or a worker  *)
(* point to is not freed, whatever cancelJob, cancelJobs and the workers   *)
(* do at the same time, and no owned job is lost.                          *)
JobsOwnedOnce ==
  /\ \A p \in Priorities : IsInjective(m_jobQueue[p])
  /\ \A j \in Jobs :
       /\ Queued(j) => job[j] = "live" /\ ~Processing(j) /\ \A w \in Workers : ~Has(w, j)
       /\ Processing(j) <=> \E w \in Workers : Has(w, j) /\ wpc[w] # "free"
       /\ \A w \in Workers : Has(w, j) => job[j] = "live" /\ \A v \in Workers \ {w} : ~Has(v, j)
       /\ job[j] = "live" => Queued(j) \/ \E w \in Workers : Has(w, j)

(* Ids of jobs that are still known are valid and distinct: cancelJob      *)
(* never hits another job.                                                 *)
IdsDistinct ==
  \A j, k \in Jobs : job[j] = "live" /\ job[k] = "live" =>
    m_id[j] # 0 /\ (m_id[j] = m_id[k] => j = k)

(* No wake-up is lost: while a job may be started some worker is on its    *)
(* way to the queues.  Exempt are the pausable jobs, for which unPauseJobs *)
(* wakes nobody, and a restart that overlapped with cancelJobs.            *)
JobHasWorker ==
  m_running /\ ~overlap =>
    \A p \in Priorities \ {PRIORITY_LOW_PAUSABLE} :
      MayPop(p) => \E w \in m_workers : wpc[w] \notin {"none", "asleep", "remove"}

(* cancelJobs returns, unless restart puts the workers back to work.       *)
CancelJobsReturns == cpc # "idle" ~> (cpc = "idle" \/ overlap)

(* Every accepted job with a callback is answered (completed or aborted)   *)
(* or cancelled, if it may be started at all.                              *)
EveryJobAnswered ==
  \A j \in Jobs :
    (job[j] = "live" /\ m_userCallBack[j]) ~>
      \/ j \in answered \cup silenced
      \/ overlap
      \/ m_priority[j] = PRIORITY_LOW_PAUSABLE
      \/ getMaxWorkers(m_priority[j]) = 0

(* Once a job's callback has been cancelled it is not called any more.     *)
CancelledStaysSilent == late = {}
=============================================================================
