------------------------------ MODULE EventLoop ------------------------------
(***************************************************************************)
(* FDEventLoop with the handlers it serves: the edge-triggered epoll set,  *)
(* EventChannel (a pipe of EventData), FDTimer, and the WaitForCount that  *)
(* the IO threads use to start together.  A loop is a record of one thread; *)
(* the operators give the record after a call.                             *)
(***************************************************************************)
EXTENDS Naturals, Sequences, SequencesExt

CONSTANTS NumberOfEventsPerHandle,  \* events one epoll_wait may return
          PipeCapacity,             \* EventData the kernel keeps in a pipe
          BufferSize                \* EventData one read of a channel takes

ASSUME LoopAssumption ==
    /\ NumberOfEventsPerHandle \in Nat \ {0}
    /\ PipeCapacity \in Nat \ {0}
    /\ BufferSize \in Nat \ {0}

-----------------------------------------------------------------------------
\* WaitForCount: m_count and m_numberOfCountWaiting.
WaitForCount(n) == [count |-> 0, waiting |-> n]

increment(w) == [w EXCEPT !.count = @ + 1]

update(w, n) == [w EXCEPT !.waiting = n]

\* wait() returns: the count is the awaited one, not one beyond it.
waitOver(w) == w.count = w.waiting

-----------------------------------------------------------------------------
\* added: handlers registered with epoll; ready: those with an edge not yet
\* reported, oldest first; batch: what the last epoll_wait returned and is not handled yet;
\* pipe: what the pipe of a channel holds; buf: EventData read, not handled.
NewLoop ==
    [open |-> TRUE, m_stop |-> FALSE, added |-> {}, ready |-> <<>>, batch |-> <<>>,
     pipe |-> [ch \in {"own", "sender"} |-> <<>>], buf |-> <<>>, timer |-> "off"]

\* New input for h: an edge, if h is registered.
Edge(l, h) == IF h \in l.added /\ ~Contains(l.ready, h)
              THEN [l EXCEPT !.ready = Append(@, h)] ELSE l


\* EPOLL_CTL_ADD reports at once what is already there to read.
add(l, h, pending) ==
    IF ~l.open THEN l
    ELSE LET added == [l EXCEPT !.added = @ \cup {h}]
         IN  IF pending THEN Edge(added, h) ELSE added

\* The destructor of a data socket closes its descriptor, which takes it out of
\* the epoll set; the EPOLL_CTL_DEL of the loop names no descriptor. The ready
\* list holds a handler once (Edge), so that its first place is its only one.
erase(l, h) == [l EXCEPT !.added = @ \ {h}, !.ready = RemoveFirst(@, h)]

epoll_wait(l) ==
    LET n == Min({NumberOfEventsPerHandle, Len(l.ready)})
    IN  [l EXCEPT !.batch = SubSeq(l.ready, 1, n),
                  !.ready = SubSeq(@, n + 1, Len(@))]

\* The handler of the first event of the batch has returned.
Finished(l) == [l EXCEPT !.batch = Tail(@)]

\* m_stop is looked at after each batch: the epoll descriptor is closed.
Leaves(l) == l.m_stop

close(l) == [l EXCEPT !.open = FALSE, !.added = {}, !.ready = <<>>]

-----------------------------------------------------------------------------
\* notify: a blocking write of one EventData.
CanNotify(l, ch) == Len(l.pipe[ch]) < PipeCapacity

notify(l, ch, event) == Edge([l EXCEPT !.pipe[ch] = Append(@, event)], ch)

\* One read of Receive: as much as the buffer takes.
Receive(l, ch) ==
    LET n == Min({BufferSize, Len(l.pipe[ch])})
    IN  [l EXCEPT !.buf = SubSeq(l.pipe[ch], 1, n),
                  !.pipe[ch] = SubSeq(@, n + 1, Len(@))]

-----------------------------------------------------------------------------
\* FDTimer::start, and the kernel's expiry of an armed timer.
startTimer(l, repeat) == [l EXCEPT !.timer = IF repeat THEN "repeat" ELSE "once"]

\* A repeating timer whose callback does nothing (idle) matters once m_stop is set.
Expires(l, idle) ==
    /\ l.timer /= "off" /\ "timer" \in l.added /\ ~Contains(l.ready, "timer")
    /\ (l.timer = "repeat" /\ idle) => l.m_stop

Expire(l) == Edge([l EXCEPT !.timer = IF @ = "once" THEN "off" ELSE @], "timer")
=============================================================================
