----------------------------- MODULE ByteStream -----------------------------
(***************************************************************************)
(* A connected pair of sockets as BaseSocket, SSLSocket and Utils use it:  *)
(* the bytes on their way to each end, bounded by the kernel's buffers, the *)
(* edge-triggered readiness epoll reports, shutdown and reset, and the      *)
(* loops of send and sendfile.  A byte is a cell; what a cell means is the  *)
(* business of the modules that use this one.                               *)
(***************************************************************************)
EXTENDS Integers, Sequences, FiniteSetsExt

CONSTANT Room     \* how many cells the kernel holds in one direction

ASSUME RoomAssumption == Room \in Nat \ {0}

VARIABLES wire,     \* wire[e]: what has been sent to e and not received
          ready,    \* ready[e]: epoll has an edge to report to e
          shut,     \* shut[e]: e has called stop, or its descriptor is closed
          broken,   \* the connection has been reset
          out       \* out[e]: the calls of send the thread of e is in

streamVars == <<wire, ready, shut, broken, out>>

End == {"client", "server"}
Peer(e) == IF e = "client" THEN "server" ELSE "client"

\* calls: the buffers still to be sent, the first being sent; tot and size
\* are totalSent and size of the running call; pos is sendfile's offset; cut
\* remembers that some call has returned before all of its bytes were sent.
NewOut == [calls |-> <<>>, how |-> "send", tot |-> 0, size |-> 0, pos |-> 0, cut |-> FALSE]

Busy(e) == out[e].calls # <<>>

\* A descriptor nothing can be written to any more.
Gone(e) == shut[e] \/ shut[Peer(e)] \/ broken

Free(e) == Room - Len(wire[Peer(e)])

\* Call the loops of send (or SSL_write, or sendfile) on these buffers.
StartSend(o, calls, how) ==
    [o EXCEPT !.calls = calls, !.how = how, !.tot = 0, !.pos = 0,
              !.size = IF calls = <<>> THEN 0 ELSE Len(Head(calls))]

\* The running call returns, having put all of its bytes on the wire or not.
Return(o, whole) ==
    [StartSend(o, Tail(o.calls), o.how) EXCEPT !.cut = o.cut \/ ~whole]

Put(e, cells) ==
    /\ wire' = [wire EXCEPT ![Peer(e)] = @ \o cells]
    /\ ready' = [ready EXCEPT ![Peer(e)] = @ \/ cells # <<>>]
    /\ UNCHANGED <<shut, broken>>

\* After a partial send errno is whatever the last failing call left there:
\* the loop goes on (with the size reduced) or returns.  EAGAIN is no step.
Partial(o, n, retry) ==
    LET tot == o.tot + n
        size == o.size - n
    IN  IF retry /\ tot < size THEN [o EXCEPT !.tot = tot, !.size = size]
        ELSE Return(o, FALSE)

\* One ::send of BaseSocket::send.
SendCall(e) ==
    /\ Busy(e) /\ out[e].how = "send"
    /\ LET o == out[e]
           n == Min({Free(e), o.size})
       IN  \/ /\ Gone(e)
              /\ out' = [out EXCEPT ![e] = Return(o, TRUE)]
              /\ UNCHANGED <<wire, ready, shut, broken>>
           \/ /\ ~Gone(e) /\ n > 0
              /\ Put(e, SubSeq(Head(o.calls), o.tot + 1, o.tot + n))
              /\ \E retry \in BOOLEAN :
                    out' = [out EXCEPT ![e] = IF n = o.size THEN Return(o, TRUE)
                                                           ELSE Partial(o, n, retry)]

\* SSLSocket::send: SSL_write writes all of the buffer or asks to be repeated.
SSLSend(e) ==
    /\ Busy(e) /\ out[e].how = "ssl"
    /\ \/ /\ Gone(e)
          /\ UNCHANGED <<wire, ready, shut, broken>>
       \/ /\ ~Gone(e) /\ Free(e) >= out[e].size
          /\ Put(e, Head(out[e].calls))
    /\ out' = [out EXCEPT ![e] = Return(@, TRUE)]

\* BaseSocket::sendfile of a file of size bytes.  The first ::sendfile is not
\* counted in totalSent, so the loop then asks for size bytes more.
SendFileFirst(e) ==
    /\ Busy(e) /\ out[e].how = "file"
    /\ LET o == out[e]
           n == IF Gone(e) THEN 0 ELSE Min({Free(e), o.size})
       IN  /\ Put(e, SubSeq(Head(o.calls), 1, n))
           /\ out' = [out EXCEPT ![e] = IF n = 0 THEN Return(o, Gone(e))
                                        ELSE [o EXCEPT !.how = "fileloop", !.pos = n]]

\* At the end of the file ::sendfile answers 0: with errno EAGAIN the loop
\* never ends ("spin"), otherwise it returns.
SendFileLoop(e) ==
    /\ Busy(e) /\ out[e].how = "fileloop"
    /\ LET o   == out[e]
           eof == Len(Head(o.calls)) - o.pos
           n   == IF Gone(e) THEN 0 ELSE Min({Free(e), eof})
           tot == o.tot + n
           size == o.size - n
       IN  /\ n > 0 \/ eof = 0 \/ Gone(e)
           /\ Put(e, SubSeq(Head(o.calls), o.pos + 1, o.pos + n))
           /\ \E retry \in BOOLEAN :
                 out' = [out EXCEPT ![e] =
                     IF Gone(e) \/ ~retry \/ tot >= size
                     THEN Return(o, n = eof \/ Gone(e))
                     ELSE [o EXCEPT !.tot = tot, !.size = size, !.pos = o.pos + n,
                                    !.how = IF n = 0 THEN "spin" ELSE "fileloop"]]

\* BaseSocket::stop(ShutdownReadWrite), and the closing of the descriptor:
\* both ends see an event, and what is on the wire can still be received.
Shutdown(e) ==
    /\ shut' = [shut EXCEPT ![e] = TRUE]
    /\ ready' = [x \in End |-> TRUE]

\* The connection is reset: what is on the wire is lost.
Reset ==
    /\ ~broken
    /\ broken' = TRUE
    /\ wire' = [x \in End |-> <<>>]
    /\ ready' = [x \in End |-> TRUE]
    /\ UNCHANGED <<shut, out>>

\* What readDataSocket meets: nothing yet (EAGAIN), the end, or bytes.
WouldBlock(e) == wire[e] = <<>> /\ ~Gone(e)
EndOfStream(e) == wire[e] = <<>> /\ Gone(e)

StreamInit ==
    /\ wire = [e \in End |-> <<>>]
    /\ ready = [e \in End |-> FALSE]
    /\ shut = [e \in End |-> FALSE]
    /\ broken = FALSE
    /\ out = [e \in End |-> NewOut]
=============================================================================
