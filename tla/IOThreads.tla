------------------------------ MODULE IOThreads ------------------------------
(***************************************************************************)
(* The IO threads of an application: a ServerThread with its ClientThreads *)
(* (kind "pool"), a ServerSingleThread ("single") or a ConnectionThread    *)
(* ("connect"), with one worker thread that answers what they pass to it   *)
(* (transferMsgToIOThread), the main thread that starts, stops and joins   *)
(* them, and peers that connect, send requests and hang up.                *)
(*                                                                         *)
(* Thread 0 is the server or connection thread, 1, 2, ... are the client   *)
(* threads.  One step is one access to what threads share: a system call,  *)
(* a counter, the worker's map of notifiers, its queue.                    *)
(***************************************************************************)
EXTENDS EventLoop

CONSTANTS Conns,          \* connections (of a ConnectionThread: its services)
          Configs,        \* the applications considered, see ConfigAssumption
          MaxThreads,     \* bound on the client threads
          InboxCapacity   \* size of the worker's queue

\* n: NUMBER_OF_CLIENT_HANDLE_THREADS; hw: hardware_concurrency(); timer:
\* TIMER_IN_MSEC is not 0; web: services are web sockets; asks: requests a peer
\* sends; hangups: whether peers hang up; stops: whether stop() is called; peers:
\* the connections of this application.
ASSUME ConfigAssumption ==
    \A c \in Configs :
        /\ DOMAIN c = {"kind", "newThread", "timer", "ssl", "web", "n", "hw",
                       "asks", "hangups", "stops", "peers"}
        /\ c.kind \in {"pool", "single", "connect"}
        /\ c.n \in 0..MaxThreads /\ c.hw \in Nat /\ c.peers \subseteq Conns

\* Connections are told apart from the other handlers of an event loop.
ASSUME ConnsAssumption ==
    /\ IsFiniteSet(Conns)
    /\ MaxThreads \in Nat /\ InboxCapacity \in Nat \ {0}
    /\ Conns \cap {"own", "sender", "timer", "listen", "none"} = {}

VARIABLES conf,       \* the application, one of Configs
          pc, loop,   \* per IO thread: where it is, its event loop
          cur,        \* per IO thread: the connection it is setting up
          sync,       \* m_syncStart
          conn,       \* per connection: its state, its peer's input, its thread
          backlog,    \* connections the kernel holds for accept
          turn,       \* m_currentClientHandler
          services,   \* m_services: [list, at]
          notifiers,  \* threads in the worker's m_eventNotifiers
          snap,       \* per IO thread: the map as an insert under way has read it
          inbox, busy,  \* the worker's queue; the request it is answering
          main,       \* where the main thread is
          stopping,   \* progress of stop(): [at, step]
          crash,      \* where the process died, if it did
          raced,      \* history: two threads were in the map at once
          handed, opened  \* history: connections handed over, and opened

loopVars == <<pc, loop, cur>>
connVars == <<conn, backlog, turn, services, handed, opened>>
workerVars == <<notifiers, snap, inbox, busy, raced>>
mainVars == <<main, stopping, sync>>
vars == <<conf, loopVars, connVars, workerVars, mainVars, crash>>

Threads == 0..MaxThreads
None == "none"

-----------------------------------------------------------------------------
\* The constructor of ServerThread: at most one thread per processor, and
\* m_syncStart waits for the client threads and for a thread of its own.
NumThreads(c) == IF c.kind /= "pool" THEN 0 ELSE IF c.n >= c.hw THEN c.hw ELSE c.n

\* Mutant: a thread of its own is not counted.
ServerThreadSyncClients(c) == update(WaitForCount(c.n), NumThreads(c))

\* Mutant: only a thread of its own is counted.
ServerThreadSyncServer(c) == update(WaitForCount(c.n), 1)

ServerThreadSync(c) ==
    LET w == update(WaitForCount(c.n), NumThreads(c))
    IN  IF c.newThread THEN update(w, NumThreads(c) + 1) ELSE w

\* ServerSingleThread: for a thread of its own only.
ServerSingleThreadSync(c) ==
    IF c.newThread THEN update(WaitForCount(0), 1) ELSE WaitForCount(0)

Clients == 1..NumThreads(conf)

NewConn == [st |-> "idle", hello |-> "ok", input |-> 0, asked |-> 0, answered |-> 0,
            hup |-> FALSE, t |-> 0]

Init ==
    /\ conf \in Configs
    /\ pc = [t \in Threads |-> "unborn"]
    /\ loop = [t \in Threads |-> NewLoop]
    /\ cur = [t \in Threads |-> None]
    /\ sync = IF conf.kind = "pool" THEN ServerThreadSync(conf)
              ELSE ServerSingleThreadSync(conf)
    /\ conn = [c \in Conns |-> NewConn]
    /\ backlog = <<>> /\ turn = 0 /\ handed = <<>>
    /\ opened = [t \in Threads |-> <<>>]
    /\ services = [list |-> IF conf.kind = "connect" THEN SetToSeq(conf.peers) ELSE <<>>,
                   at |-> 1]
    /\ notifiers = {} /\ raced = FALSE /\ inbox = <<>> /\ busy = None
    /\ snap = [t \in Threads |-> {}]
    /\ main = "new" /\ stopping = [at |-> 0, step |-> "off"]
    /\ crash = None

Go(t, where) == pc' = [pc EXCEPT ![t] = where]

SetLoop(t, l) == loop' = [loop EXCEPT ![t] = l]

Dies(where) == /\ crash' = where
               /\ UNCHANGED <<conf, loopVars, connVars, workerVars, mainVars>>

-----------------------------------------------------------------------------
(* Starting *)

\* start(): the client threads first, then a thread of its own, or the caller's.
start ==
    /\ main = "new"
    /\ pc' = [t \in Threads |-> IF t \in Clients \cup {0} THEN "run" ELSE "unborn"]
    /\ main' = IF ~conf.newThread THEN "inRun"
               ELSE IF conf.kind = "connect" THEN "started" ELSE "waitStart"
    /\ UNCHANGED <<conf, loop, cur, connVars, workerVars, stopping, sync, crash>>

startReturns ==
    /\ \/ main = "waitStart" /\ waitOver(sync)
       \/ main = "inRun" /\ pc[0] = "done"
    /\ main' = "started"
    /\ UNCHANGED <<conf, loopVars, connVars, workerVars, stopping, sync, crash>>

\* connectTo: an insert into the sender's unordered_map, which no lock protects:
\* of two that overlap, one may be lost.
connectToBegins(t) ==
    /\ pc[t] = "run"
    /\ IF t = 0 /\ conf.kind = "pool"
       THEN Go(t, "setUp") /\ UNCHANGED <<snap, raced>>
       ELSE /\ Go(t, "insert")
            /\ snap' = [snap EXCEPT ![t] = notifiers]
            /\ raced' = (raced \/ \E u \in Threads : pc[u] = "insert")
    /\ UNCHANGED <<conf, loop, cur, connVars, notifiers, inbox, busy, mainVars, crash>>

\* Mutant: the notifier is made and not given to the sender.
connectToEndsAlone(t) ==
    /\ pc[t] = "insert"
    /\ UNCHANGED notifiers
    /\ SetLoop(t, LET l == add(loop[t], "sender", FALSE)
                  IN  IF t \in Clients THEN add(l, "own", loop[t].pipe["own"] /= <<>>)
                      ELSE l)
    /\ Go(t, CASE t \in Clients -> "synced"
               [] conf.kind = "single" -> "setUp"
               [] OTHER -> "connect")
    /\ UNCHANGED <<conf, cur, connVars, snap, inbox, busy, raced, mainVars, crash>>

\* run of a ClientThread, a ServerSingleThread, a ConnectionThread: the channel
\* of the sender, and of a client thread its own, join the event loop.
connectToEnds(t) ==
    /\ pc[t] = "insert"
    /\ \E m \in {notifiers, snap[t]} : notifiers' = m \cup {t}
    /\ SetLoop(t, LET l == add(loop[t], "sender", FALSE)
                  IN  IF t \in Clients THEN add(l, "own", loop[t].pipe["own"] /= <<>>)
                      ELSE l)
    /\ Go(t, CASE t \in Clients -> "synced"
               [] conf.kind = "single" -> "setUp"
               [] OTHER -> "connect")
    /\ UNCHANGED <<conf, cur, connVars, snap, inbox, busy, raced, mainVars, crash>>

\* EventThread::run up to the loop: the repeating timer.
StartLoop(l) == IF conf.timer THEN startTimer(add(l, "timer", FALSE), TRUE) ELSE l

clientSynced(t) ==
    /\ pc[t] = "synced"
    /\ sync' = increment(sync)
    /\ SetLoop(t, StartLoop(loop[t])) /\ Go(t, "wait")
    /\ UNCHANGED <<conf, cur, connVars, workerVars, main, stopping, crash>>

\* run of a ServerThread and of a ServerSingleThread, once they listen: l is the
\* loop with the listening socket.
ServerThreadRun(t, l) ==
    IF conf.newThread
    THEN sync' = increment(sync) /\ SetLoop(t, StartLoop(l)) /\ Go(t, "wait")
    ELSE sync' = sync /\ SetLoop(t, l) /\ Go(t, "await")

ServerSingleThreadRun(t, l) ==
    /\ sync' = IF conf.newThread THEN increment(sync) ELSE sync
    /\ SetLoop(t, StartLoop(l)) /\ Go(t, "wait")

\* setUpTCP fails (no address, no socket, or none that binds and listens), and
\* run returns; or the socket listens.
setUpTCP(t) ==
    /\ pc[t] = "setUp"
    /\ \/ Go(t, "done") /\ UNCHANGED <<loop, sync>>
       \/ conf.kind = "pool" /\ ServerThreadRun(t, add(loop[t], "listen", FALSE))
       \/ conf.kind = "single" /\ ServerSingleThreadRun(t, add(loop[t], "listen", FALSE))
    /\ UNCHANGED <<conf, cur, connVars, workerVars, main, stopping, crash>>

serverAwaits(t) ==
    /\ pc[t] = "await" /\ waitOver(sync)
    /\ SetLoop(t, StartLoop(loop[t])) /\ Go(t, "wait")
    /\ UNCHANGED <<conf, cur, connVars, workerVars, mainVars, crash>>

-----------------------------------------------------------------------------
(* The event loop *)

FDEventLoopStart(t) ==
    \/ /\ pc[t] = "wait" /\ loop[t].ready /= <<>>
       /\ SetLoop(t, epoll_wait(loop[t]))
       /\ Go(t, "batch")
       /\ UNCHANGED <<conf, cur, connVars, workerVars, mainVars, crash>>
    \/ /\ pc[t] = "batch" /\ loop[t].batch = <<>>
       /\ IF Leaves(loop[t]) THEN SetLoop(t, close(loop[t])) /\ Go(t, "done")
          ELSE Go(t, "wait") /\ UNCHANGED loop
       /\ UNCHANGED <<conf, cur, connVars, workerVars, mainVars, crash>>

\* The event being handled; its handler is at work until Finished.
Event(t, h) == pc[t] = "batch" /\ loop[t].batch /= <<>> /\ Head(loop[t].batch) = h

\* onTimer of a server does nothing to the threads.
timerEvent(t) ==
    /\ Event(t, "timer")
    /\ SetLoop(t, Finished(loop[t]))
    /\ Go(t, IF conf.kind = "connect" THEN "onTimer" ELSE "batch")
    /\ UNCHANGED <<conf, cur, connVars, workerVars, mainVars, crash>>

\* A data socket is made, onNewConnection called, and the socket registered.
Opened(l, c) == add(l, c, conn[c].input > 0 \/ conn[c].hup)

\* Receive and readMessages: one read fills the buffer, its EventData are handled
\* one by one, and so on until the pipe is empty.  NewConnection comes on a
\* thread's own channel, AppMessage on a sender's.
channelEvent(t, ch) ==
    LET l == IF loop[t].buf = <<>> THEN Receive(loop[t], ch) ELSE loop[t]
        c == Head(l.buf)
        rest == [l EXCEPT !.buf = Tail(@)]
    IN  /\ Event(t, ch) /\ UNCHANGED pc
        /\ \/ /\ l.buf = <<>> /\ SetLoop(t, Finished(l)) /\ UNCHANGED <<conn, opened>>
           \/ /\ l.buf /= <<>> /\ ch = "own"
              /\ SetLoop(t, Opened(rest, c))
              /\ conn' = [conn EXCEPT ![c].st = "open", ![c].t = t]
              /\ opened' = [opened EXCEPT ![t] = Append(@, c)]
           \/ /\ l.buf /= <<>> /\ ch = "sender"
              /\ SetLoop(t, rest)
              /\ conn' = [conn EXCEPT ![c].answered = @ + 1]
              /\ UNCHANGED opened
        /\ UNCHANGED <<conf, cur, backlog, turn, services, handed, workerVars, mainVars,
                       crash>>

\* Thread 0 of an application without a thread of its own runs run() directly:
\* threadRun never set m_sCurrentLuThread.
CurrentUnset(t) == t = 0 /\ ~conf.newThread

\* onEvent of a data socket: every request goes to the worker, by a push that
\* spins while its queue is full; a peer that hung up ends the handler.
dataEvent(t, c) ==
    /\ Event(t, c)
    /\ \/ /\ conn[c].input > 0 /\ CurrentUnset(t) /\ Dies("current")
       \/ /\ conn[c].input > 0 /\ ~CurrentUnset(t) /\ Len(inbox) < InboxCapacity
          /\ inbox' = Append(inbox, c)
          /\ conn' = [conn EXCEPT ![c].input = @ - 1]
          /\ UNCHANGED <<loopVars, notifiers, snap, busy, raced, crash>>
          /\ UNCHANGED <<conf, backlog, turn, services, handed, opened, mainVars>>
       \/ /\ conn[c].input = 0
          /\ IF conn[c].hup
             THEN /\ SetLoop(t, erase(Finished(loop[t]), c))
                  /\ conn' = [conn EXCEPT ![c].st = "closed"]
             ELSE SetLoop(t, Finished(loop[t])) /\ UNCHANGED conn
          /\ UNCHANGED <<conf, pc, cur, backlog, turn, services, handed, opened>>
          /\ UNCHANGED <<workerVars, mainVars, crash>>

-----------------------------------------------------------------------------
(* Accepting *)

\* The whole backlog is accepted, one connection after the other.
acceptDataSocket(t) ==
    /\ Event(t, "listen")
    /\ IF backlog = <<>>
       THEN SetLoop(t, Finished(loop[t])) /\ UNCHANGED <<pc, cur, conn, backlog>>
       ELSE /\ Go(t, "onNew") /\ cur' = [cur EXCEPT ![t] = Head(backlog)]
            /\ conn' = [conn EXCEPT ![Head(backlog)].st = "accepted"]
            /\ backlog' = Tail(backlog)
            /\ UNCHANGED loop
    /\ UNCHANGED <<conf, turn, services, handed, opened, workerVars, mainVars, crash>>

\* onNewConnection.  SSL_accept waits for the peer's hello, and drops the
\* connection if it is no good.
sslAcceptFails(t) ==
    /\ pc[t] = "onNew" /\ conn[cur[t]].hello = "bad"
    /\ conn' = [conn EXCEPT ![cur[t]].st = "dropped"]
    /\ Go(t, "batch")
    /\ UNCHANGED <<conf, loop, cur, backlog, turn, services, handed, opened>>
    /\ UNCHANGED <<workerVars, mainVars, crash>>

\* Mutant: the turn is not passed on.
serverOnNewConnectionSame(t) ==
    LET u == (turn % NumThreads(conf)) + 1
    IN  /\ pc[t] = "onNew" /\ conn[cur[t]].hello = "ok" /\ conf.kind = "pool"
        /\ IF NumThreads(conf) = 0 THEN Dies("modulo")
           ELSE /\ CanNotify(loop[u], "own")
                /\ SetLoop(u, notify(loop[u], "own", cur[t]))
                /\ turn' = turn
                /\ handed' = Append(handed, cur[t])
                /\ conn' = [conn EXCEPT ![cur[t]].st = "passed"]
                /\ Go(t, "batch")
                /\ UNCHANGED <<conf, cur, backlog, services, opened>>
                /\ UNCHANGED <<workerVars, mainVars, crash>>

\* ServerThread: the client threads take turns.  The hand-over blocks while the
\* pipe of the client thread is full.
serverOnNewConnection(t) ==
    LET u == (turn % NumThreads(conf)) + 1
    IN  /\ pc[t] = "onNew" /\ conn[cur[t]].hello = "ok" /\ conf.kind = "pool"
        /\ IF NumThreads(conf) = 0 THEN Dies("modulo")
           ELSE /\ CanNotify(loop[u], "own")
                /\ SetLoop(u, notify(loop[u], "own", cur[t]))
                /\ turn' = u
                /\ handed' = Append(handed, cur[t])
                /\ conn' = [conn EXCEPT ![cur[t]].st = "passed"]
                /\ Go(t, "batch")
                /\ UNCHANGED <<conf, cur, backlog, services, opened>>
                /\ UNCHANGED <<workerVars, mainVars, crash>>

\* ServerSingleThread keeps the connection itself.
singleOnNewConnection(t) ==
    /\ pc[t] = "onNew" /\ conn[cur[t]].hello = "ok" /\ conf.kind = "single"
    /\ handed' = Append(handed, cur[t])
    /\ Go(t, "add")
    /\ UNCHANGED <<conf, loop, cur, conn, backlog, turn, services, opened>>
    /\ UNCHANGED <<workerVars, mainVars, crash>>

\* ServerSingleThread and ConnectionThread register the data socket themselves;
\* the service is then erased from the list.
addDataSocket(t) ==
    LET c == cur[t]
    IN  /\ pc[t] \in {"add", "addFirst", "addAgain"}
        /\ SetLoop(t, Opened(loop[t], c))
        /\ conn' = [conn EXCEPT ![c].st = "open"]
        /\ opened' = [opened EXCEPT ![t] = Append(@, c)]
        /\ services' = IF pc[t] = "add" THEN services
                       ELSE [services EXCEPT !.list = RemoveAt(@, services.at)]
        /\ Go(t, CASE pc[t] = "add" -> "batch"
                   [] pc[t] = "addFirst" -> "connect"
                   [] OTHER -> "reconnect")
        /\ UNCHANGED <<conf, cur, backlog, turn, handed, workerVars, mainVars, crash>>

-----------------------------------------------------------------------------
(* Connecting *)

\* connectToTCP: no address of the service answers, or its TLS handshake fails;
\* or there is a data socket.
connectToTCP(t) ==
    /\ services.at <= Len(services.list)
    /\ \/ /\ services' = [services EXCEPT !.at = @ + 1]
          /\ UNCHANGED <<pc, loop, cur, handed>>
       \/ /\ LET c == services.list[services.at]
             IN  cur' = [cur EXCEPT ![t] = c] /\ handed' = Append(handed, c)
          /\ Go(t, IF pc[t] = "connect" THEN "addFirst" ELSE "addAgain")
          /\ UNCHANGED <<loop, services>>

\* connect(): every service of the list is tried in turn.
connect(t) ==
    /\ pc[t] \in {"connect", "reconnect"}
    /\ \/ connectToTCP(t)
       \/ /\ services.at > Len(services.list)
          /\ services' = [services EXCEPT !.at = 1]
          /\ IF pc[t] = "connect" THEN SetLoop(t, StartLoop(loop[t])) /\ Go(t, "wait")
             ELSE Go(t, "batch") /\ UNCHANGED loop
          /\ UNCHANGED <<cur, handed>>
    /\ UNCHANGED <<conf, conn, backlog, turn, opened, workerVars, mainVars, crash>>

\* connectTo for each of some services, with its duplicate check: the services of
\* web sockets are remembered for good, the others only until they are connected.
connectTo(list, cs) ==
    list \o SetToSeq({c \in cs : ~conf.web /\ ~Contains(list, c)})

\* onTimer of an application that asks again for a service it has lost.
onTimer(t) ==
    /\ pc[t] = "onTimer" /\ Go(t, "reconnect")
    /\ services' = [services EXCEPT !.list =
                        connectTo(@, {c \in conf.peers : conn[c].st = "closed"})]
    /\ conn' = [c \in Conns |-> IF conn[c].st = "closed"
                                THEN [conn[c] EXCEPT !.st = "lost", !.hup = FALSE]
                                ELSE conn[c]]
    /\ UNCHANGED <<conf, loop, cur, backlog, turn, handed, opened, workerVars, mainVars, crash>>

-----------------------------------------------------------------------------
(* The worker *)

\* transferMsgToIOThread looks up the notifier of the thread the request came
\* from; a null one is used all the same.  A lookup during an insert may miss.
transferMsgToIOThread ==
    LET t == conn[Head(inbox)].t
        inserting == \E u \in Threads : pc[u] = "insert"
    IN  /\ inbox /= <<>> /\ busy = None
        /\ \/ /\ t \in notifiers
              /\ busy' = Head(inbox) /\ inbox' = Tail(inbox)
              /\ UNCHANGED crash
           \/ /\ t \notin notifiers \/ inserting
              /\ crash' = "notifier" /\ UNCHANGED <<busy, inbox>>
        /\ raced' = (raced \/ inserting)
        /\ UNCHANGED <<conf, loopVars, connVars, notifiers, snap, mainVars>>

notifySender ==
    LET t == conn[busy].t
    IN  /\ busy /= None /\ CanNotify(loop[t], "sender")
        /\ SetLoop(t, notify(loop[t], "sender", busy))
        /\ busy' = None
        /\ UNCHANGED <<conf, pc, cur, connVars, notifiers, snap, inbox, raced, mainVars, crash>>

-----------------------------------------------------------------------------
(* Stopping *)

InLoop(t) == pc[t] \notin {"unborn", "run", "insert", "synced", "setUp", "await",
                           "connect", "addFirst"}

\* The thread whose stop() is running: the client threads in order, then 0.
StopThread == IF stopping.at > NumThreads(conf) THEN 0 ELSE stopping.at

stopCalled ==
    /\ conf.stops /\ stopping.step = "off"
    /\ main = "started" \/ (main = "inRun" /\ InLoop(0))
    /\ stopping' = [at |-> 1, step |-> IF conf.timer THEN "flag" ELSE "timer"]
    /\ UNCHANGED <<conf, loopVars, connVars, workerVars, main, sync, crash>>

\* Mutant: the timer of stop() is not added to the loop.
stopTimerNotAdded ==
    /\ stopping.step = "timer"
    /\ SetLoop(StopThread, startTimer(loop[StopThread], FALSE))
    /\ stopping' = [stopping EXCEPT !.step = "flag"]
    /\ UNCHANGED <<conf, pc, cur, connVars, workerVars, main, sync, crash>>

\* EventThread::stop without a timer: one that expires once is made.
stopTimer ==
    /\ stopping.step = "timer"
    /\ SetLoop(StopThread, startTimer(add(loop[StopThread], "timer", FALSE), FALSE))
    /\ stopping' = [stopping EXCEPT !.step = "flag"]
    /\ UNCHANGED <<conf, pc, cur, connVars, workerVars, main, sync, crash>>

stopFlag ==
    /\ stopping.step = "flag"
    /\ SetLoop(StopThread, [loop[StopThread] EXCEPT !.m_stop = TRUE])
    /\ stopping' = [at |-> stopping.at + 1,
                    step |-> IF StopThread = 0 THEN "over"
                             ELSE IF conf.timer THEN "flag" ELSE "timer"]
    /\ UNCHANGED <<conf, pc, cur, connVars, workerVars, main, sync, crash>>

\* join(): of the client threads, then of m_thread, which without a thread of
\* its own was never started: std::thread::join throws.
join ==
    /\ main = "started" /\ stopping.step = "over"
    /\ \A t \in Clients : pc[t] = "done"
    /\ \/ ~conf.newThread /\ main' = "threw"
       \/ conf.newThread /\ pc[0] = "done" /\ main' = "joined"
    /\ UNCHANGED <<conf, loopVars, connVars, workerVars, stopping, sync, crash>>

-----------------------------------------------------------------------------
(* The kernel and the peers *)

expire(t) == /\ Expires(loop[t], conf.kind /= "connect")
             /\ SetLoop(t, Expire(loop[t]))
             /\ UNCHANGED <<conf, pc, cur, connVars, workerVars, mainVars, crash>>

Edges(c) == loop' = [t \in Threads |-> Edge(loop[t], c)]

peerConnects(c) ==
    /\ conn[c].st = "idle" /\ "listen" \in loop[0].added
    /\ \E hello \in IF conf.ssl THEN {"ok", "bad", "silent"} ELSE {"ok"} :
        conn' = [conn EXCEPT ![c].st = "backlog", ![c].hello = hello]
    /\ backlog' = Append(backlog, c)
    /\ Edges("listen")
    /\ UNCHANGED <<conf, pc, cur, turn, services, handed, opened, workerVars, mainVars, crash>>

Connected(c) == conn[c].st \in {"backlog", "accepted", "passed", "open"}

peerAsks(c) ==
    /\ Connected(c) /\ conn[c].asked < conf.asks /\ ~conn[c].hup
    /\ conn' = [conn EXCEPT ![c].asked = @ + 1, ![c].input = @ + 1]
    /\ Edges(c)
    /\ UNCHANGED <<conf, pc, cur, backlog, turn, services, handed, opened, workerVars,
                   mainVars, crash>>

\* Each peer hangs up at most once: bounds the reconnections.
peerHangsUp(c) ==
    /\ Connected(c) /\ conf.hangups /\ ~conn[c].hup
    /\ Cardinality({i \in 1..Len(handed) : handed[i] = c}) <= 1
    /\ conn' = [conn EXCEPT ![c].hup = TRUE]
    /\ Edges(c)
    /\ UNCHANGED <<conf, pc, cur, backlog, turn, services, handed, opened, workerVars,
                   mainVars, crash>>

-----------------------------------------------------------------------------
Thread(t) ==
    \/ connectToBegins(t) \/ connectToEnds(t) \/ clientSynced(t) \/ setUpTCP(t)
    \/ serverAwaits(t) \/ FDEventLoopStart(t) \/ timerEvent(t)
    \/ (\E ch \in {"own", "sender"} : channelEvent(t, ch))
    \/ (\E c \in Conns : dataEvent(t, c))
    \/ acceptDataSocket(t) \/ sslAcceptFails(t) \/ serverOnNewConnection(t)
    \/ singleOnNewConnection(t) \/ addDataSocket(t) \/ connect(t) \/ onTimer(t)

Worker == transferMsgToIOThread \/ notifySender

Main == start \/ startReturns \/ stopTimer \/ stopFlag \/ join

Peer(c) == peerConnects(c) \/ peerAsks(c) \/ peerHangsUp(c)

Next == /\ crash = None
        /\ \/ \E t \in Threads : Thread(t) \/ expire(t)
           \/ Worker \/ Main \/ stopCalled
           \/ \E c \in conf.peers : Peer(c)

\* Every thread is scheduled and an armed timer expires; peers need do nothing
\* and nobody has to call stop.
Fairness ==
    /\ \A t \in Threads : /\ WF_vars(crash = None /\ Thread(t))
                          /\ WF_vars(crash = None /\ expire(t))
    /\ WF_vars(crash = None /\ Worker)
    /\ WF_vars(crash = None /\ Main)

Spec == Init /\ [][Next]_vars /\ Fairness

\* The abstract threads: the client threads, or the one thread there is.
Abstract == INSTANCE Dispatch
    WITH n <- IF conf.kind = "pool" THEN NumThreads(conf) ELSE 1,
         opened <- IF conf.kind = "pool" THEN [t \in Clients |-> opened[t]]
                   ELSE <<opened[0]>>

-----------------------------------------------------------------------------
(* Properties *)

\* Connections are handed to the client threads in turn and opened by them once
\* each, in order, whatever the threads and pipes do meanwhile (ServerThread::
\* onNewConnection, EventChannel; with n = 1, ServerSingleThread and connect()).
DispatchSpec == Abstract!Spec

\* setUpTCP failed: run() returned before its loop.
SetUpFailed == pc[0] = "done" /\ loop[0].open

\* When start() has returned with a thread of its own, every client thread has
\* its channels and notifiers in place and the server socket listens, as it did not
\* fail to be set up: m_syncStart counted each of them, and each once.
StartedWhenReady ==
    main = "started" /\ conf.newThread /\ conf.kind = "pool"
        => /\ \A t \in Clients : pc[t] \notin {"run", "insert", "synced"}
           /\ pc[0] \notin {"run", "setUp"} /\ ~SetUpFailed

\* transferMsgToIOThread finds the notifier of the thread whose request it
\* answers: run() inserts it before any request of that thread can exist.  Only
\* threads that were in the map at the same time can spoil that.
NotifierFound == crash = "notifier" => raced

\* start() returns: everyone it waits for increments m_syncStart, unless the
\* socket could not be set up.
StartReturns == main = "waitStart" ~> main = "started" \/ SetUpFailed \/ crash /= None

\* The timer of stop() expired, and was handled, before m_stop was set.
MissedExpiry(t) ==
    /\ pc[t] = "wait" /\ loop[t].m_stop
    /\ loop[t].ready = <<>> /\ loop[t].timer = "off"

HeldBySilentPeer == pc[0] = "onNew" /\ conn[cur[0]].hello = "silent"

\* The server waits for room in the pipe of a thread that has ended.
HandOverBlocked ==
    LET u == (turn % NumThreads(conf)) + 1
    IN  /\ pc[0] = "onNew" /\ conf.kind = "pool" /\ NumThreads(conf) > 0
        /\ pc[u] = "done" /\ ~CanNotify(loop[u], "own")

Pushing(t) == \E c \in Conns : /\ Event(t, c) /\ conn[c].input > 0
                              /\ Len(inbox) = InboxCapacity

\* The worker waits for room in the pipe of a thread that has ended, or that
\* waits for room in the worker's queue.
WorkerStuck ==
    /\ busy /= None
    /\ LET t == conn[busy].t
       IN  ~CanNotify(loop[t], "sender") /\ (pc[t] = "done" \/ Pushing(t))

\* After stop() every loop ends and join() comes back, except for the ways in
\* which a thread of this code sleeps or waits for ever.
StopEndsLoops ==
    stopping.step = "over" ~>
        \/ main \in {"joined", "threw"} \/ crash /= None
        \/ \E t \in Clients \cup {0} : MissedExpiry(t)
        \/ HeldBySilentPeer \/ HandOverBlocked \/ WorkerStuck

=============================================================================
