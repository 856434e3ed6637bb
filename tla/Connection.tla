----------------------------- MODULE Connection -----------------------------
(***************************************************************************)
(* Two ends of a connection exchanging messages: DataSocket, DataSocketV,  *)
(* HBDataSocket with HBSocketClient, and WebSocket with HBSocketClient,    *)
(* each with its receive buffer, over ByteStream.  Each end is one thread  *)
(* (its IO thread), which handles events, runs the callbacks and sends.    *)
(* One step is one recv, one message or frame, one ::send.                 *)
(*                                                                         *)
(* A raw message is a cell <<"sz", id, size>> (the Header of the data       *)
(* handler) followed by its payload; an upgrade header is HeaderLines lines *)
(* of a cell <<"tx", i>> and a cell <<"nl">>, and an empty line.            *)
(***************************************************************************)
EXTENDS ByteStream, Frame, Handshake

CONSTANTS Configs,         \* the connections considered, see ConfigAssumption
          Message,         \* Message[id]: [n: payload cells, op, zero]
          HeaderLines,     \* lines of an upgrade header
          MaxMessageSize   \* the template argument: cells of a frame's payload

RawClass == {"DataSocket", "DataSocketV"}
Class == RawClass \cup {"HBDataSocket", "HBSocketClient", "WebSocket"}

\* B: the buffer size; ssl: SSLSocket is the SocketType; script: the message
\* buffers each end sends, in order; files: they are sent with sendFile;
\* faults: what else may happen to the connection.
ASSUME ConfigAssumption ==
    \A c \in Configs :
        /\ c \in [cls: [End -> Class], B: Nat \ {0}, ssl: BOOLEAN, files: BOOLEAN,
                   info: InitialRequestInfo, script: [End -> Seq(DOMAIN Message)],
                   faults: SUBSET {"stop", "close", "reset"}]
        /\ \/ c.cls["client"] \in RawClass /\ c.cls["server"] \in RawClass
           \/ /\ c.cls["client"] = "HBSocketClient" /\ ~c.files
              /\ c.cls["server"] \in {"HBDataSocket", "WebSocket"}

\* zero: the application has left the size in its header 0.  An opcode is the
\* firstOpCode of sendMsg.
ASSUME MessageAssumption ==
    /\ Message \in [DOMAIN Message -> [n: Nat, zero: BOOLEAN,
                                       op: {Text, Binary, CloseOp, PingOp, PongOp}]]
    /\ HeaderLines \in Nat /\ MaxMessageSize \in Nat \ {0}

VARIABLES conf,    \* the connection, one of Configs
          sock,    \* sock[e]: the members of the socket object of e
          next,    \* next[e]: the position of e in its script
          buffer,  \* buffer[e][id][i]: what a cell of a buffer of e is XORed with
          sent,    \* sent[e]: the messages e has sent, as its peer should see them
          got      \* got[e]: the messages given to the callbacks of e

connVars == <<conf, sock, next, buffer, sent, got>>
vars == <<streamVars, connVars>>

Cls(e) == conf.cls[e]

Nil == <<"nil">>

\* The bytes of the receive buffer: StringV has two of conf.B.
BufferLen(cls, B) == IF cls = "DataSocketV" THEN 2 * B ELSE B

\* The object as constructed.  The last three are history: an upgrade header
\* has been looked at in two reads, the first of which held a whole line; a
\* message has been sent before the handshake was answered; a message has
\* taken more than one frame.
NewSocket(cls, B) ==
    [pc |-> IF cls = "HBSocketClient" THEN "new" ELSE "idle",
     status |-> IF cls \in RawClass THEN "TCP" ELSE "Connecting",
     off |-> 0, left |-> 0, toRecv |-> BufferLen(cls, B),
     mem |-> [i \in 0..(BufferLen(cls, B) - 1) |-> Nil],
     hdr |-> 0, frame |-> NewFrame,
     split |-> FALSE, early |-> FALSE, frag |-> FALSE]

Header == [i \in 1..(2 * HeaderLines + 1) |->
              IF i % 2 = 1 /\ i <= 2 * HeaderLines THEN <<"tx", (i + 1) \div 2>> ELSE <<"nl">>]

Init ==
    /\ StreamInit
    /\ conf \in Configs
    /\ sock = [e \in End |-> NewSocket(conf.cls[e], conf.B)]
    /\ next = [e \in End |-> 1]
    /\ buffer = [e \in End |-> [id \in DOMAIN Message |-> [i \in 1..Message[id].n |-> {}]]]
    /\ sent = [e \in End |-> <<>>]
    /\ got = [e \in End |-> <<>>]

-----------------------------------------------------------------------------
(* Sending *)

Payload(e, id) == [i \in 1..Message[id].n |-> <<"pl", id, i, buffer[e][id][i]>>]

\* A message as the application lays it out for a raw connection.
Raw(e, id) == << <<"sz", id, IF Message[id].zero THEN 0 ELSE Message[id].n + 1>> >> \o Payload(e, id)

How(e) == IF conf.ssl THEN "ssl" ELSE IF conf.files THEN "file" ELSE "send"

\* The application, on the thread of e, sends the next buffer of its script.
CanSend(e) == /\ sock[e].pc = "idle" /\ ~Busy(e)
              /\ next[e] <= Len(conf.script[e])

Sending(e, calls, entry) ==
    /\ out' = [out EXCEPT ![e] = StartSend(@, calls, How(e))]
    /\ sent' = [sent EXCEPT ![e] = @ \o entry]
    /\ next' = [next EXCEPT ![e] = @ + 1]
    /\ UNCHANGED <<wire, ready, shut, broken, conf, got>>

SendRaw(e) ==
    LET id == conf.script[e][next[e]] IN
    /\ Sending(e, <<Raw(e, id)>>, <<[op |-> Binary, body |-> Payload(e, id)]>>)
    /\ UNCHANGED <<buffer, sock>>

\* The callback a message sent in a frame should end in: onData does not tell
\* text from binary, onPong and onClose are not given the payload.
Seen(op, body) == [op |-> IF op = Text THEN Binary ELSE op,
                   body |-> IF op \in {PongOp, CloseOp} THEN <<>> ELSE body]

\* The payload is masked where it lies: the application's own buffer.
SendFrames(e, masked) ==
    LET id == conf.script[e][next[e]]
        F  == numFrames(Message[id].n, MaxMessageSize)
    IN  \E key \in [1..F -> IF masked THEN Keys ELSE {0}] :
          /\ Sending(e, sendMsg(Payload(e, id), Message[id].op, key, MaxMessageSize),
                     <<Seen(Message[id].op, Payload(e, id))>>)
          /\ buffer' = [buffer EXCEPT ![e][id] =
                [i \in DOMAIN @ |-> Xor(@[i], key[((i - 1) \div MaxMessageSize) + 1])]]
          /\ sock' = [sock EXCEPT ![e].early = @ \/ sock[e].status = "Connecting",
                                  ![e].frag = @ \/ F > 1]

\* sendMsg answers 0 and sends nothing before the handshake is done.
SendNothing(e) == Sending(e, <<>>, <<>>) /\ UNCHANGED <<buffer, sock>>

DataSocketSendMsg(e) == Cls(e) = "DataSocket" /\ CanSend(e) /\ SendRaw(e)

DataSocketVSendMsg(e) == Cls(e) = "DataSocketV" /\ CanSend(e) /\ SendRaw(e)

HBSend(e, masked) ==
    CASE sock[e].status = "TCP"        -> SendRaw(e)
      [] sock[e].status = "WebSocket"  -> SendFrames(e, masked)
      [] sock[e].status = "Connecting" -> SendNothing(e)

HBDataSocketSendMsg(e) == Cls(e) = "HBDataSocket" /\ CanSend(e) /\ HBSend(e, FALSE)

HBSocketClientSendMsg(e) == Cls(e) = "HBSocketClient" /\ CanSend(e) /\ HBSend(e, TRUE)

\* WebSocket::sendMsg does not look at the status of the handshake.
WebSocketSendMsg(e) == Cls(e) = "WebSocket" /\ CanSend(e) /\ SendFrames(e, FALSE)

\* startHandshake, called from the callback that reports the new connection.
startHandshake(e) ==
    /\ Cls(e) = "HBSocketClient" /\ sock[e].pc = "new"
    /\ sock' = [sock EXCEPT ![e].pc = "idle"]
    /\ out' = [out EXCEPT ![e] = StartSend(@, <<Header>>, How(e))]
    /\ UNCHANGED <<wire, ready, shut, broken, conf, next, buffer, sent, got>>

SendStep(e) ==
    /\ SendCall(e) \/ SSLSend(e) \/ SendFileFirst(e) \/ SendFileLoop(e)
    /\ UNCHANGED connVars

-----------------------------------------------------------------------------
(* The receive buffer *)

\* The bytes that have been received and not read.
Window(s) == [i \in 1..s.left |-> s.mem[s.off + i - 1]]

\* updateForDataRead; bytes that will not be looked at again become Nil.
updateForDataRead(s, n) ==
    [s EXCEPT !.off = @ + n, !.left = @ - n,
              !.mem = [i \in DOMAIN @ |-> IF i < s.off + n THEN Nil ELSE @[i]]]

\* The end of a turn of Receive: what is left moves to the front if it is at
\* most a quarter of the buffer; otherwise nothing changes, toRecv included.
ShiftBuffer(s) ==
    LET N == Cardinality(DOMAIN s.mem) IN
    IF s.left = 0 THEN [s EXCEPT !.off = 0, !.toRecv = N]
    ELSE IF s.left <= N \div 4
    THEN [s EXCEPT !.off = 0, !.toRecv = N - s.left,
                   !.mem = [i \in DOMAIN @ |-> IF i < s.left THEN @[s.off + i] ELSE Nil]]
    ELSE s

\* DataSocketV swaps its two buffers once the first has been read.
SwapBuffers(s) ==
    LET N == Cardinality(DOMAIN s.mem) IN
    IF s.left = 0 THEN [s EXCEPT !.off = 0, !.toRecv = N]
    ELSE IF s.off >= N \div 2
    THEN [s EXCEPT !.off = @ - (N \div 2), !.toRecv = N - s.left,
                   !.mem = [i \in DOMAIN @ |-> @[(i + (N \div 2)) % N]]]
    ELSE s

\* Mutant: one read for each event, as if the loop were level-triggered.
CompactOnce(e, s) ==
    [IF Cls(e) = "DataSocketV" THEN SwapBuffers(s) ELSE ShiftBuffer(s) EXCEPT !.pc = "idle"]

Compact(e, s) ==
    [IF Cls(e) = "DataSocketV" THEN SwapBuffers(s) ELSE ShiftBuffer(s) EXCEPT !.pc = "recv"]

\* The room readDataSocket is told of: DataSocketV works it out from the
\* offset (getNumberOfBuffers), the others keep it in m_numberOfBytesLeftToRecv.
\* Mutant: what has been read already is counted as free.
getNumberOfBuffersNoOffset(s) == Cardinality(DOMAIN s.mem) - s.left

getNumberOfBuffers(s) == Cardinality(DOMAIN s.mem) - (s.off + s.left)

Space(e) == IF Cls(e) = "DataSocketV" THEN getNumberOfBuffers(sock[e]) ELSE sock[e].toRecv

\* onClientClose; the handler answers FALSE, the loop destroys it and its
\* descriptor is closed.
ClientClose(e) ==
    /\ sock' = [sock EXCEPT ![e].pc = "closed"]
    /\ Shutdown(e)

\* onEvent: hang-up first, whatever else the event says; then Receive.
OnEvent(e) ==
    /\ sock[e].pc = "idle" /\ ~Busy(e) /\ ready[e]
    /\ \/ /\ broken \/ (shut[e] /\ shut[Peer(e)])
          /\ ClientClose(e)
       \/ /\ ~(broken \/ (shut[e] /\ shut[Peer(e)]))
          /\ sock' = [sock EXCEPT ![e].pc = "recv"]
          /\ ready' = [ready EXCEPT ![e] = FALSE]
          /\ UNCHANGED shut
    /\ UNCHANGED <<wire, broken, out, conf, next, buffer, sent, got>>

\* One readDataSocket of the loop of Receive.  n bytes have arrived; with
\* no room recv answers 0, which reads as the end of the stream.
Receive(e) ==
    /\ sock[e].pc = "recv" /\ ~Busy(e)
    /\ \/ /\ WouldBlock(e)
          /\ sock' = [sock EXCEPT ![e].pc = "idle"]
          /\ UNCHANGED <<wire, ready, shut>>
       \/ /\ EndOfStream(e) \/ (wire[e] # <<>> /\ Space(e) = 0)
          /\ ClientClose(e)
          /\ UNCHANGED wire
       \/ /\ \E n \in 1..Min({Space(e), Len(wire[e])}) :
               LET s   == sock[e]
                   at  == s.off + s.left
               IN  /\ wire' = [wire EXCEPT ![e] = SubSeq(@, n + 1, Len(@))]
                   /\ sock' = [sock EXCEPT ![e] =
                        IF at + n > Cardinality(DOMAIN s.mem) THEN [s EXCEPT !.pc = "overrun"]
                        ELSE [s EXCEPT !.pc = "read", !.left = @ + n,
                                       !.mem = [i \in DOMAIN @ |->
                                           IF i \in at..(at + n - 1) THEN wire[e][i - at + 1]
                                           ELSE @[i]]]]
          /\ UNCHANGED <<ready, shut>>
    /\ UNCHANGED <<broken, out, conf, next, buffer, sent, got>>

-----------------------------------------------------------------------------
(* Reading messages *)

\* What an end does to itself (s), its peer (stop) and the callbacks (cb).
Handle(e, s, stop, cb) ==
    /\ sock' = [sock EXCEPT ![e] = s]
    /\ got' = [got EXCEPT ![e] = @ \o cb]
    /\ IF stop THEN Shutdown(e) ELSE UNCHANGED <<ready, shut>>
    /\ UNCHANGED <<wire, broken, conf, next, buffer, sent>>

Reading(e) == sock[e].pc = "read" /\ ~Busy(e)

\* readHeader of String and StringV, readMessage: the cells at an offset.
readHeader(s) == s.mem[s.off][3]
readMessage(s, size) == [op |-> Binary, body |-> SubSeq(Window(s), 2, size)]

\* One turn of readMessages (readRawTCPMessages).  A size of 0 stops the
\* connection and then gives the callback that same message for ever.  Bytes
\* that are no header have no size: what happens then is not followed.
ReadRaw(e) ==
    LET s == sock[e] IN
    /\ \/ s.left < 1 /\ Handle(e, Compact(e, s), FALSE, <<>>)
       \/ /\ s.left >= 1 /\ s.mem[s.off][1] # "sz"
          /\ Handle(e, [s EXCEPT !.pc = "garbled"], FALSE, <<>>)
       \/ /\ s.left >= 1 /\ s.mem[s.off][1] = "sz"
          /\ LET size == readHeader(s) IN
             \/ size = 0 /\ Handle(e, [s EXCEPT !.pc = "spinning"], TRUE, <<>>)
             \/ size > s.left /\ Handle(e, Compact(e, s), FALSE, <<>>)
             \/ /\ size > 0 /\ size <= s.left
                /\ Handle(e, updateForDataRead(s, size), FALSE, <<readMessage(s, size)>>)
    /\ UNCHANGED out

\* The socket after the frame reader r has looked at what it has received.
AfterFrame(s, r) ==
    updateForDataRead([s EXCEPT !.frame = r.f,
                                !.mem = [i \in DOMAIN @ |->
                                    IF i \in s.off..(s.off + s.left - 1)
                                    THEN r.d[i - s.off + 1] ELSE @[i]]], r.o)

\* processMessage returns to readMessages: an opcode Close means stop.
FramesRead(e, s) == Handle(e, Compact(e, s), s.frame.opCode = CloseOp, <<>>)

\* processMessage, by turns of readFrame.  It returns when there is nothing
\* to read; a frame without payload is complete all the same.
ReadFrames(e) ==
    LET s == sock[e]
        f == s.frame
        nothing == s.left = 0 /\ ~(f.st = "ReadPayload" /\ f.length = 0)
    IN  /\ \/ f.st # "Done" /\ nothing /\ FramesRead(e, s)
           \/ /\ f.st # "Done" /\ ~nothing
              /\ \E tooBig \in BOOLEAN : \E r \in {readFrame(Reader(f, Window(s), 0), tooBig)} :
                    CASE r.f.st = "Garbled" -> Handle(e, [s EXCEPT !.pc = "garbled"], FALSE, <<>>)
                      [] r.f.st = f.st      -> FramesRead(e, s)
                      [] OTHER              -> Handle(e, AfterFrame(s, r), FALSE, <<>>)
           \/ /\ f.st = "Done"
              /\ \E t \in {processMessage(Reader(f, Window(s), 0), MaxMessageSize)} :
                    IF t.returns THEN FramesRead(e, AfterFrame(s, t.r))
                    ELSE Handle(e, AfterFrame(s, t.r), FALSE, t.cb)
        /\ UNCHANGED out

\* The search for the empty line that ends an upgrade header.  The view starts
\* at m_readWebsocketHeaderOffset and is searched from that offset again.
Lines(s) == {p \in s.hdr..(s.left - s.hdr - 1) : s.mem[s.hdr + p][1] = "nl"}
EmptyLines(s) == {p \in Lines(s) : p = s.hdr \/ (p - 1) \in Lines(s)}

\* Found in one piece the header is read; found after a first line had been
\* passed, what is read is not the header but a part without its end, and the
\* parser runs past it (an exception nobody catches, or a fault).
HeaderEnd(s) == Min(EmptyLines(s)) + 1

ReadUpgrade(e, Accept(_)) ==
    LET s  == [sock[e] EXCEPT !.split = @ \/ sock[e].hdr # 0]
        s1 == [s EXCEPT !.hdr = IF EmptyLines(s) # {} THEN HeaderEnd(s)
                                ELSE IF Lines(s) = {} THEN @ ELSE Max(Lines(s)) + 1]
    IN  \/ /\ EmptyLines(s) = {}
           /\ Handle(e, Compact(e, s1), s.toRecv = 0, <<>>)
           /\ UNCHANGED out
        \/ /\ EmptyLines(s) # {} /\ s.hdr # 0
           /\ Handle(e, [s1 EXCEPT !.pc = "crashed"], FALSE, <<>>)
           /\ UNCHANGED out
        \/ /\ EmptyLines(s) # {} /\ s.hdr = 0
           /\ SubSeq(Window(s), 1, HeaderEnd(s)) # Header
           /\ Handle(e, [s1 EXCEPT !.pc = "garbled"], FALSE, <<>>)
           /\ UNCHANGED out
        \/ /\ EmptyLines(s) # {} /\ s.hdr = 0
           /\ SubSeq(Window(s), 1, HeaderEnd(s)) = Header
           /\ Accept(s1)

Request == createHandShakeRequest(conf.info, generateKey)
Response == getResponse(Request, RESOURCE)

\* processHandshake: refuse, or answer and open.  The server becomes what the
\* request asks for; a WebSocket is a WebSocket.
Answer(e, s, transport) ==
    IF Response = NoResponse
    THEN Handle(e, Compact(e, s), TRUE, <<>>) /\ UNCHANGED out
    ELSE /\ Handle(e, [updateForDataRead(s, s.hdr) EXCEPT !.hdr = 0, !.status = transport], FALSE, <<>>)
         /\ out' = [out EXCEPT ![e] = StartSend(@, <<Header>>, How(e))]

\* Mutant: the server upgrades to web socket whatever was asked for.
HBProcessHandshakeWeb(e) == ReadUpgrade(e, LAMBDA s : Answer(e, s, "WebSocket"))

HBProcessHandshake(e) ==
    ReadUpgrade(e, LAMBDA s : Answer(e, s, Transport(Request.upgrade)))

WSProcessHandshake(e) ==
    ReadUpgrade(e, LAMBDA s : Answer(e, s, "WebSocket"))

processServerReply(e) ==
    ReadUpgrade(e, LAMBDA s :
        /\ UNCHANGED out
        /\ IF readServerResponse(Response, generateKey)
           THEN Handle(e, [updateForDataRead(s, s.hdr) EXCEPT !.hdr = 0,
                              !.status = Transport(Response.upgrade)], FALSE, <<>>)
           ELSE Handle(e, Compact(e, s), TRUE, <<>>))

\* readMessages by status.
ReadMessages(e) ==
    \/ sock[e].status = "TCP" /\ ReadRaw(e)
    \/ sock[e].status = "WebSocket" /\ ReadFrames(e)

-----------------------------------------------------------------------------
(* The five classes: each repeats onEvent, Receive and readMessages *)

DataSocketOnEvent(e) == Cls(e) = "DataSocket" /\ OnEvent(e)
DataSocketReceive(e) == Cls(e) = "DataSocket" /\ Receive(e)
DataSocketReadMessages(e) == Cls(e) = "DataSocket" /\ Reading(e) /\ ReadRaw(e)

DataSocketVOnEvent(e) == Cls(e) = "DataSocketV" /\ OnEvent(e)
DataSocketVReceive(e) == Cls(e) = "DataSocketV" /\ Receive(e)
DataSocketVReadMessages(e) == Cls(e) = "DataSocketV" /\ Reading(e) /\ ReadRaw(e)

HBDataSocketOnEvent(e) == Cls(e) = "HBDataSocket" /\ OnEvent(e)
HBDataSocketReceive(e) == Cls(e) = "HBDataSocket" /\ Receive(e)
HBDataSocketReadMessages(e) ==
    /\ Cls(e) = "HBDataSocket" /\ Reading(e)
    /\ \/ sock[e].status = "Connecting" /\ HBProcessHandshake(e)
       \/ ReadMessages(e)

HBSocketClientOnEvent(e) == Cls(e) = "HBSocketClient" /\ OnEvent(e)
HBSocketClientReceive(e) == Cls(e) = "HBSocketClient" /\ Receive(e)
HBSocketClientReadMessages(e) ==
    /\ Cls(e) = "HBSocketClient" /\ Reading(e)
    /\ \/ sock[e].status = "Connecting" /\ processServerReply(e)
       \/ ReadMessages(e)

WebSocketOnEvent(e) == Cls(e) = "WebSocket" /\ OnEvent(e)
WebSocketReceive(e) == Cls(e) = "WebSocket" /\ Receive(e)
WebSocketReadMessages(e) ==
    /\ Cls(e) = "WebSocket" /\ Reading(e)
    /\ \/ sock[e].status = "Connecting" /\ WSProcessHandshake(e)
       \/ sock[e].status = "WebSocket" /\ ReadFrames(e)

\* The application stops the connection.
stop(e) ==
    /\ "stop" \in conf.faults /\ sock[e].pc = "idle" /\ ~Busy(e) /\ ~shut[e]
    /\ Shutdown(e)
    /\ UNCHANGED <<wire, broken, out, connVars>>

\* The application closes the descriptor: no more events, and the object stays
\* (close tests an assignment).  Unread bytes turn the close into a reset.
close(e) ==
    /\ "close" \in conf.faults /\ sock[e].pc = "idle" /\ ~Busy(e)
    /\ sock' = [sock EXCEPT ![e].pc = "closed"]
    /\ Shutdown(e)
    /\ broken' = (broken \/ wire[e] # <<>>)
    /\ wire' = IF wire[e] # <<>> THEN [x \in End |-> <<>>] ELSE wire
    /\ UNCHANGED <<out, conf, next, buffer, sent, got>>

ConnectionReset == "reset" \in conf.faults /\ Reset /\ UNCHANGED connVars

\* What the IO thread of e does by itself.
Thread(e) ==
    \/ startHandshake(e) \/ SendStep(e)
    \/ DataSocketOnEvent(e) \/ DataSocketReceive(e) \/ DataSocketReadMessages(e)
    \/ DataSocketVOnEvent(e) \/ DataSocketVReceive(e) \/ DataSocketVReadMessages(e)
    \/ HBDataSocketOnEvent(e) \/ HBDataSocketReceive(e) \/ HBDataSocketReadMessages(e)
    \/ HBSocketClientOnEvent(e) \/ HBSocketClientReceive(e) \/ HBSocketClientReadMessages(e)
    \/ WebSocketOnEvent(e) \/ WebSocketReceive(e) \/ WebSocketReadMessages(e)

\* What the application asks it to do.
Application(e) ==
    \/ DataSocketSendMsg(e) \/ DataSocketVSendMsg(e) \/ HBDataSocketSendMsg(e)
    \/ HBSocketClientSendMsg(e) \/ WebSocketSendMsg(e)
    \/ stop(e) \/ close(e)

Next == ConnectionReset \/ \E e \in End : Thread(e) \/ Application(e)

Spec == Init /\ [][Next]_vars /\ \A e \in End : WF_vars(Thread(e))

-----------------------------------------------------------------------------
(* Properties *)

\* Both ends are open and disagree on what follows the handshake.
Mismatched == \E e, f \in End : sock[e].status = "TCP" /\ sock[f].status = "WebSocket"

\* e has sent over frames a message that takes more than one of them.
Fragmented(e) == sock[e].status = "WebSocket" /\ sock[e].frag

\* A WebSocket has sent a message before it had answered the handshake.
Early(e) == sock[e].early

Spoilt(e) == out[e].cut \/ Mismatched \/ Fragmented(e)

ToServer == INSTANCE MessageStream
            WITH sent <- sent["client"], recv <- got["server"], spoilt <- Spoilt("client")
ToClient == INSTANCE MessageStream
            WITH sent <- sent["server"], recv <- got["client"], spoilt <- Spoilt("server")

\* However the bytes are cut into reads, buffers and frames, each end hands
\* its callbacks exactly the messages the other has sent, whole, once and in
\* order, until a send is cut short, a message needs two frames, or the two
\* ends have left the handshake with different transports.
MessageStreamSpec == ToServer!Spec /\ ToClient!Spec

\* The largest unit the peer of e sends: a raw message or an upgrade header.
Units(e) ==
    {Message[id].n + 1 : id \in {conf.script[Peer(e)][i] : i \in 1..Len(conf.script[Peer(e)])}}
    \cup (IF Cls(e) \in RawClass THEN {} ELSE {Len(Header)})

\* The ways a receiver goes wrong have these causes and no others.  It writes
\* past its buffer only if some message or the header is larger than a quarter
\* of it, while it waits for a header that came in two reads or of which a cut
\* send or a WebSocket that sent before its handshake has left the end missing,
\* or at a frame that is Done and held back.  It takes other bytes for a header
\* only after a cut send, a disagreement on the transport or such a WebSocket.
\* It loops on a message of size 0 only if one was sent.  DataSocketV never
\* writes past its buffers.
BrokenOnlyFor ==
    \A e \in End :
        /\ sock[e].pc = "overrun" =>
              /\ Cls(e) # "DataSocketV"
              /\ \/ \E u \in Units(e) : u > conf.B \div 4
                 \/ /\ sock[e].status = "Connecting"
                    /\ sock[e].split \/ out[Peer(e)].cut \/ Early(Peer(e))
                 \/ sock[e].frame.st = "Done"
        /\ sock[e].pc = "garbled" =>
              out[Peer(e)].cut \/ Mismatched \/ Early(Peer(e))
        /\ sock[e].pc = "spinning" =>
              \E i \in 1..(next[Peer(e)] - 1) : Message[conf.script[Peer(e)][i]].zero

\* Two open ends have the same transport, unless the server is a WebSocket,
\* which speaks frames even to a client that has asked for "tcp".
TransportAgreed ==
    Mismatched => Cls("server") = "WebSocket" /\ Request.upgrade = "tcp"

\* What a message carries is what its buffer held when it was first sent,
\* unless a masked send has been made from that buffer before: it left the
\* buffer masked.
UnmaskedUnlessResent ==
    \A e \in End : \A i \in 1..Len(got[e]) : \A j \in 1..Len(got[e][i].body) :
        LET cell == got[e][i].body[j] IN
        cell[1] = "pl" /\ cell[4] # {} =>
            \/ Spoilt(Peer(e))
            \/ Cardinality({k \in 1..(next[Peer(e)] - 1) : conf.script[Peer(e)][k] = cell[2]}) > 1

\* Both threads are in a send loop that finds no room: each waits for the
\* other to receive.
SendDeadlock ==
    \A e \in End : Busy(e) /\ Free(e) < (IF out[e].how = "ssl" THEN out[e].size ELSE 1)

Explained ==
    \/ broken \/ SendDeadlock
    \/ \E e \in End : \/ shut[e] \/ out[e].cut \/ out[e].how = "spin" \/ sock[e].split
                      \/ sock[e].pc \in {"closed", "overrun", "garbled", "spinning", "crashed"}

\* Everything sent is delivered in the end, although an edge of epoll is
\* reported once, unless the connection is stopped or broken in one of the
\* ways above, both ends spin in send, a sendfile never ends, or an upgrade
\* header came in two reads the first of which held a whole line.
EventuallyDelivered ==
    <>[](Explained \/ \A e \in End : got[e] = sent[Peer(e)])
=============================================================================
