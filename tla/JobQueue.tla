------------------------------- MODULE JobQueue ------------------------------
(***************************************************************************)
(* lu::thread::JobQueue (src/thread/JobQueue.cpp) on a JobManager: it      *)
(* hands its jobs to the manager at most m_jobsAtOnce at a time and is the *)
(* callback (IJobCallback) of every one of them.                           *)
(*                                                                         *)
(* The queue's m_section, here jq_section, is held across the calls into   *)
(* the manager; the manager's m_section is held by cancelJobs across the   *)
(* calls of onJobAbort into the queue.                                     *)
(***************************************************************************)
EXTENDS JobManager

CONSTANTS
  Users,        \* threads that call the queue
  Canceller,    \* the thread that calls JobManager::cancelJobs
  Key,          \* jobs with equal keys are equal for Job::operator==
  m_jobsAtOnce,
  m_lifo,
  Priority      \* the queue's m_priority

ASSUME JobQueueAssumption ==
  /\ m_jobsAtOnce \in Nat \ {0}
  /\ m_lifo \in BOOLEAN
  /\ Priority \in Priorities
  /\ Canceller \notin Users \cup Workers
  /\ Users \cap Workers = {}
  /\ DOMAIN Key = Jobs

VARIABLES
  jq_section,     \* the threads that hold the queue's m_section: none or one
  jq_jobQueue,    \* the waiting jobs; the last one is next
  jq_processing,  \* the jobs handed to the manager
  qpc,            \* where each thread stands in a call of the queue
  added,          \* history: the accepted jobs in the order of addJob
  completed,      \* history: the jobs in the order of onJobComplete
  cancelled       \* history: cancelJob has removed a job

QThreads == Users \cup Workers \cup {Canceller}

listVars == <<jq_section, jq_jobQueue, jq_processing>>
queueHistory == <<added, completed, cancelled>>
jqVars == <<managerVars, listVars, qpc, queueHistory>>

JQInit ==
  /\ Init
  /\ jq_section = {}
  /\ jq_jobQueue = <<>>
  /\ jq_processing = <<>>
  /\ qpc = [t \in QThreads |-> "out"]
  /\ added = <<>> /\ completed = <<>>
  /\ cancelled = FALSE

Equal(j, k) == Key[j] = Key[k]
Without(s, j) == RemoveFirstMatch(s, LAMBDA k : Equal(k, j))
Listed(s, j) == \E i \in DOMAIN s : Equal(s[i], j)

queueNextJobOneMore(t, waiting, handed, after) ==
  IF waiting # <<>> /\ Len(handed) <= m_jobsAtOnce
  THEN jq_section' = {t} /\ qpc' = [qpc EXCEPT ![t] = "add"]
  ELSE jq_section' = {} /\ qpc' = [qpc EXCEPT ![t] = after]

(* After its own work a call of queueNextJob goes on to the manager while  *)
(* there is a waiting job and room for it; else the mutex is released and  *)
(* the thread is where the call was made to lead ("out" or "told").        *)
queueNextJob(t, waiting, handed, after) ==
  IF waiting # <<>> /\ Len(handed) < m_jobsAtOnce
  THEN jq_section' = {t} /\ qpc' = [qpc EXCEPT ![t] = "add"]
  ELSE jq_section' = {} /\ qpc' = [qpc EXCEPT ![t] = after]

After(t) == IF t \in Users THEN "out" ELSE "told"

-----------------------------------------------------------------------------
(* addJob drops a job that is equal to one the queue already has. *)
jqAddJob(u, j) ==
  /\ qpc[u] = "out"
  /\ jq_section = {}
  /\ job[j] = "new"
  /\ ~Contains(jq_jobQueue, j)
  /\ IF Listed(jq_jobQueue, j) \/ Listed(jq_processing, j)
     THEN /\ job' = [job EXCEPT ![j] = "freed"]
          /\ UNCHANGED <<jq_section, jq_jobQueue, qpc, added>>
     ELSE /\ jq_jobQueue' = IF m_lifo THEN Append(jq_jobQueue, j) ELSE <<j>> \o jq_jobQueue
          /\ queueNextJob(u, jq_jobQueue', jq_processing, "out")
          /\ added' = Append(added, j)
          /\ UNCHANGED job
  /\ UNCHANGED <<queueVars, m_processing, m_section, m_userCallBack, workerVars, cpc, historyVars,
                 jq_processing, completed, cancelled>>

(* Mutant: a refused job stays the next one.                              *)
jqAddNextKeep(t) ==
  /\ qpc[t] = "add"
  /\ addJob(Last(jq_jobQueue), Priority, TRUE)
  /\ jq_jobQueue' = IF m_running THEN Front(jq_jobQueue) ELSE jq_jobQueue
  /\ IF m_running
     THEN /\ jq_processing' = Append(jq_processing, Last(jq_jobQueue))
          /\ jq_section' = {}
          /\ qpc' = [qpc EXCEPT ![t] = After(t)]
     ELSE /\ queueNextJob(t, jq_jobQueue', jq_processing, After(t))
          /\ UNCHANGED jq_processing
  /\ UNCHANGED queueHistory

(* queueNextJob: JobManager::addJob under both mutexes.  One accepted job  *)
(* ends the loop; a refused one has been freed, and the next is tried.     *)
jqAddNext(t) ==
  /\ qpc[t] = "add"
  /\ addJob(Last(jq_jobQueue), Priority, TRUE)
  /\ jq_jobQueue' = Front(jq_jobQueue)
  /\ IF m_running
     THEN /\ jq_processing' = Append(jq_processing, Last(jq_jobQueue))
          /\ jq_section' = {}
          /\ qpc' = [qpc EXCEPT ![t] = After(t)]
     ELSE /\ queueNextJob(t, jq_jobQueue', jq_processing, After(t))
          /\ UNCHANGED jq_processing
  /\ UNCHANGED queueHistory

jqNotifyAndReturn(t, j) ==
  /\ jq_section = {}
  /\ jq_processing' = Without(jq_processing, j)
  /\ qpc' = [qpc EXCEPT ![t] = "told"]
  /\ completed' = Append(completed, j)
  /\ UNCHANGED <<managerVars, jq_section, jq_jobQueue, added, cancelled>>

(* onJobNotify, the body of onJobComplete and onJobAbort. *)
jqNotify(t, j) ==
  /\ jq_section = {}
  /\ jq_processing' = Without(jq_processing, j)
  /\ queueNextJob(t, jq_jobQueue, jq_processing', "told")
  /\ completed' = IF t \in Workers THEN Append(completed, j) ELSE completed
  /\ UNCHANGED <<managerVars, jq_jobQueue, added, cancelled>>

(* cancelJob: of a job handed out first the manager's item is cancelled,   *)
(* under both mutexes; a waiting job is freed.  Nothing changes the list   *)
(* between the find and the cancel, so the job is chosen in the second.    *)
jqCancelJob(u) ==
  /\ qpc[u] = "out"
  /\ jq_section = {}
  /\ jq_processing # <<>>
  /\ jq_section' = {u}
  /\ qpc' = [qpc EXCEPT ![u] = "cancel"]
  /\ UNCHANGED <<managerVars, jq_jobQueue, jq_processing, queueHistory>>

jqCancelHandedKeep(u) ==
  /\ qpc[u] = "cancel"
  /\ \E i \in DOMAIN jq_processing : cancelJob(jq_processing[i])
  /\ jq_section' = {}
  /\ qpc' = [qpc EXCEPT ![u] = "out"]
  /\ cancelled' = TRUE
  /\ UNCHANGED <<jq_jobQueue, jq_processing, added, completed>>

jqCancelHanded(u) ==
  /\ qpc[u] = "cancel"
  /\ \E i \in DOMAIN jq_processing :
       /\ cancelJob(jq_processing[i])
       /\ jq_processing' = RemoveAt(jq_processing, i)
  /\ jq_section' = {}
  /\ qpc' = [qpc EXCEPT ![u] = "out"]
  /\ cancelled' = TRUE
  /\ UNCHANGED <<jq_jobQueue, added, completed>>

jqCancelWaiting(u, j) ==
  /\ qpc[u] = "out"
  /\ jq_section = {}
  /\ Contains(jq_jobQueue, j)
  /\ ~Listed(jq_processing, j)
  /\ job' = [job EXCEPT ![j] = "freed"]
  /\ jq_jobQueue' = Without(jq_jobQueue, j)
  /\ cancelled' = TRUE
  /\ UNCHANGED <<queueVars, m_processing, m_section, m_userCallBack, workerVars, cpc, historyVars,
                 jq_section, jq_processing, qpc, added, completed>>

(* cancelJobs, also the destructor: every job handed out is cancelled in   *)
(* turn, then the waiting ones are freed.                                  *)
jqCancelJobs(u) ==
  /\ qpc[u] = "out"
  /\ jq_section = {}
  /\ jq_section' = {u}
  /\ qpc' = [qpc EXCEPT ![u] = "cancelAll"]
  /\ UNCHANGED <<managerVars, jq_jobQueue, jq_processing, queueHistory>>

jqCancelFirst(u) ==
  /\ qpc[u] = "cancelAll"
  /\ jq_processing # <<>>
  /\ cancelJob(Head(jq_processing))
  /\ jq_processing' = Tail(jq_processing)
  /\ cancelled' = TRUE
  /\ UNCHANGED <<jq_section, jq_jobQueue, qpc, added, completed>>

jqCancelRest(u) ==
  /\ qpc[u] = "cancelAll"
  /\ jq_processing = <<>>
  /\ job' = [j \in Jobs |-> IF Contains(jq_jobQueue, j) THEN "freed" ELSE job[j]]
  /\ jq_jobQueue' = <<>>
  /\ jq_section' = {}
  /\ qpc' = [qpc EXCEPT ![u] = "out"]
  /\ UNCHANGED <<queueVars, m_processing, m_section, m_userCallBack, workerVars, cpc, historyVars,
                 jq_processing, queueHistory>>

-----------------------------------------------------------------------------
(* The manager's side: its callbacks into the queue, and everything else.  *)

(* A worker calls onJobComplete, then goes on as in JobManager. *)
workerNotify(w) ==
  /\ wpc[w] = "call" /\ wcall[w] /\ qpc[w] = "out"
  /\ \E j \in wjob[w] : jqNotify(w, j)

workerCalled(w) ==
  /\ wcall[w] => qpc[w] = "told"
  /\ completeCall(w)
  /\ qpc' = [qpc EXCEPT ![w] = "out"]
  /\ UNCHANGED <<listVars, queueHistory>>

workerStep(w) ==
  /\ \/ getNextJob(w) \/ removeWorker(w) \/ onJobComplete(w)
     \/ completeErase(w) \/ completeFree(w) \/ spuriousWake(w)
  /\ UNCHANGED <<listVars, qpc, queueHistory>>

(* cancelJobs calls onJobAbort with the manager's m_section held. *)
abortNotify ==
  /\ cpc = "abort" /\ qpc[Canceller] = "out"
  /\ \E j \in Jobs :
       /\ abortQueued(j) \/ abortProcessing(j)
       /\ m_userCallBack[j]
       /\ jqNotify(Canceller, j)

abortCalled ==
  /\ \E j \in Jobs :
       /\ m_userCallBack[j] => qpc[Canceller] = "told"
       /\ cancelAbort(j)
  /\ qpc' = [qpc EXCEPT ![Canceller] = "out"]
  /\ UNCHANGED <<listVars, queueHistory>>

cancellerStep ==
  /\ cancelAborted \/ cancelNotify \/ cancelDone
  /\ UNCHANGED <<listVars, qpc, queueHistory>>

(* restart is left to the thread that called cancelJobs. *)
managerCall ==
  /\ cancelJobs \/ (cpc = "idle" /\ restart)
  /\ UNCHANGED <<listVars, qpc, queueHistory>>

userCall(u) ==
  \/ \E j \in Jobs : jqAddJob(u, j) \/ jqCancelWaiting(u, j)
  \/ jqCancelJob(u) \/ jqCancelJobs(u)

(* The rest of a call of the queue. *)
callStep(t) == jqAddNext(t) \/ jqCancelHanded(t) \/ jqCancelFirst(t) \/ jqCancelRest(t)

JQNext ==
  \/ managerCall \/ abortNotify \/ abortCalled \/ cancellerStep
  \/ \E u \in Users : userCall(u)
  \/ \E t \in QThreads : callStep(t)
  \/ \E w \in Workers : workerNotify(w) \/ workerCalled(w) \/ workerStep(w)

JQFairness ==
  /\ \A t \in QThreads : WF_jqVars(callStep(t))
  /\ \A w \in Workers : WF_jqVars(workerNotify(w) \/ workerCalled(w) \/ workerStep(w))
  /\ WF_jqVars(abortNotify \/ abortCalled \/ cancellerStep)

JQSpec == JQInit /\ [][JQNext]_jqVars /\ JQFairness

-----------------------------------------------------------------------------
(* The pointers the queue compares and hands out are never freed ones.     *)
QueueHoldsLiveJobs ==
  /\ \A i \in DOMAIN jq_jobQueue : job[jq_jobQueue[i]] = "new"
  /\ \A i \in DOMAIN jq_processing : job[jq_processing[i]] = "live"

(* While jobs wait, as many as allowed are handed out: the queue never     *)
(* stalls with work left.  Exempt is cancelJob, which starts no other job. *)
BacklogMoves ==
  jq_section = {} /\ jq_jobQueue # <<>> /\ ~cancelled => Len(jq_processing) = m_jobsAtOnce

(* One at a time and not lifo: jobs are completed in the order of addJob,  *)
(* whichever workers take them, as long as no cancelled job calls back: its*)
(* late onJobComplete may take an equal job off the list.                  *)
CompletedInOrder ==
  m_jobsAtOnce = 1 /\ ~m_lifo /\ (\A i \in DOMAIN completed : completed[i] \notin silenced) =>
    \A i, j \in DOMAIN completed : i < j =>
      \E a, b \in DOMAIN added : a < b /\ added[a] = completed[i] /\ added[b] = completed[j]

(* Every call of the queue gives its mutex back, unless the manager's      *)
(* cancelJobs is calling back: it holds the mutex that the call needs.     *)
QueueCallsReturn == jq_section # {} ~> (jq_section = {} \/ cpc = "abort")
=============================================================================
