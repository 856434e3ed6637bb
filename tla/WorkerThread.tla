----------------------------- MODULE WorkerThread ----------------------------
(***************************************************************************)
(* lu::platform::thread::WorkerThread on its input channel, an MPSCQueue   *)
(* (InputChannel, OutputChannel and TransferQueue only forward to it).     *)
(* Other threads transfer messages to it; stop() pushes a ChannelData with *)
(* a null pointer through the same queue, and run() ends when it pops one. *)
(***************************************************************************)
EXTENDS MPSCQueue

CONSTANT Stopper   \* the thread that calls stop(); it sends nothing else

ASSUME StopperAssumption == Stopper \in Producers /\ MaxPush > 0

VARIABLES
  thread,      \* "created", "running", "exited" or "joined"
  stopCalled,  \* stop() has begun
  beforeStop   \* the messages whose push had completed when it began

threadVars == <<thread, stopCalled, beforeStop>>
workerVars == <<mpscVars, threadVars>>

IsNull(m) == m[1] = Stopper

(* The messages given to onMsg. *)
Handled == {m \in Delivered : ~IsNull(m)}

WorkerInit ==
  /\ MPSCInit
  /\ thread = "created"
  /\ stopCalled = FALSE
  /\ beforeStop = {}

-----------------------------------------------------------------------------
start ==
  /\ thread = "created"
  /\ thread' = "running"
  /\ UNCHANGED <<mpscVars, stopCalled, beforeStop>>

transferMsg(p) ==
  /\ p # Stopper
  /\ push(p)
  /\ UNCHANGED threadVars

stop ==
  /\ ~stopCalled
  /\ stopCalled' = TRUE
  /\ beforeStop' = Sent
  /\ UNCHANGED <<mpscVars, thread>>

stopPush ==
  /\ stopCalled
  /\ pushed[Stopper] = 0 \/ call[Stopper] # "try"
  /\ push(Stopper)
  /\ UNCHANGED threadVars

(* run: pop until the null message, handing every other one to onMsg. *)
runPop(c) ==
  /\ thread = "running"
  /\ PopTry(c) \/ PopEmpty(c) \/ PopRaise(c) \/ PopWait(c)
  /\ UNCHANGED threadVars

runWake(c) ==
  /\ SpuriousWake(c)
  /\ UNCHANGED threadVars

runMsgUntilStop(c) ==
  /\ PopDone(c)
  /\ thread' = IF stopCalled THEN "exited" ELSE thread
  /\ UNCHANGED <<stopCalled, beforeStop>>

runMsgForEver(c) ==
  /\ PopDone(c)
  /\ UNCHANGED threadVars

runMsg(c) ==
  /\ PopDone(c)
  /\ thread' = IF IsNull(m_elements[SlotOf(ticket[c])]) THEN "exited" ELSE thread
  /\ UNCHANGED <<stopCalled, beforeStop>>

run(c) == runPop(c) \/ runMsg(c)

join ==
  /\ thread = "exited"
  /\ thread' = "joined"
  /\ UNCHANGED <<mpscVars, stopCalled, beforeStop>>

(* After the thread is joined its senders may stay in push for ever. *)
WorkerNext ==
  \/ start \/ stop \/ stopPush \/ join
  \/ \E p \in Producers : transferMsg(p)
  \/ \E c \in Consumers : run(c) \/ runWake(c)

WorkerFairness ==
  /\ WF_workerVars(start)
  /\ WF_workerVars(stopPush)
  /\ WF_workerVars(join)
  /\ \A p \in Producers : WF_workerVars(transferMsg(p))
  /\ \A c \in Consumers : WF_workerVars(run(c))

WorkerSpec == WorkerInit /\ [][WorkerNext]_workerVars /\ WorkerFairness

-----------------------------------------------------------------------------
(* A message whose transferMsg returned before stop() was called is given  *)
(* to onMsg before the thread ends, unless a push overtook a stalled one   *)
(* by a lap: stop()'s null message may then be popped first.               *)
DrainBeforeStop ==
  thread \in {"exited", "joined"} /\ ~lapped => beforeStop \subseteq Handled

(* stop() ends the thread, whatever the others push and however full the   *)
(* channel is, unless the thread waits for good in pop on a queue that is  *)
(* not empty (the wake-up that MPSCQueue can lose).                        *)
StopEndsThread ==
  \/ <>[](Waiting /\ Sent # Delivered)
  \/ stopCalled ~> thread = "joined"
=============================================================================
