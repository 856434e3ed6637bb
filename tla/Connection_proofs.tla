-------------------------- MODULE Connection_proofs --------------------------
(***************************************************************************)
(* Theorems about a connection, for every pair of classes, buffer size,    *)
(* kernel buffer, script of messages and field width of a frame.           *)
(*                                                                         *)
(* First what each end keeps to itself: Kinds says what a step does to the *)
(* socket that takes it, Base is the invariant.  Then one direction as a   *)
(* sequence of bytes, for ConnectionStream_proofs: how units are laid out, *)
(* and what the receiver's turns and the sender's calls make of it.        *)
(***************************************************************************)
EXTENDS Connection, SequenceTheorems, FiniteSetTheorems, WellFoundedInduction, TLAPS

-----------------------------------------------------------------------------
(* Types *)

Ids == DOMAIN Message
Opcode == {Text, Binary, CloseOp, PingOp, PongOp}

Cell ==
  ({"tx"} \X Nat) \cup {<<"nl">>} \cup ({"sz"} \X Ids \X Nat)
  \cup ({"pl"} \X Ids \X Nat \X SUBSET Keys)
  \cup ({"h1"} \X BOOLEAN \X BOOLEAN \X Nat) \cup ({"h2"} \X BOOLEAN \X Nat)
  \cup ({"ex"} \X Nat) \cup ({"mk"} \X Keys)

(* What a place of a receive buffer holds. *)
AnyCell == Cell \cup {Nil}

Entry == [op : Nat, body : Seq(AnyCell)]

Status == {"Connecting", "TCP", "WebSocket"}
Dead == {"closed", "overrun", "garbled", "spinning", "crashed"}

FrameType ==
  [st : {"ReadHeader", "ReadPayloadLength", "ReadMask", "ReadPayload", "Done"},
   fin : BOOLEAN, rsv : BOOLEAN, opCode : Nat, mask : Keys \cup {Unread}, length : Nat,
   valid : BOOLEAN, fragmented : BOOLEAN, message : Seq(AnyCell)]

Pcs == {"new", "idle", "recv", "read"} \cup Dead
Memory(N) == [0 .. N - 1 -> AnyCell]

SockType(N) ==
  [pc : Pcs, status : Status, off : Nat, left : Nat, toRecv : Int, mem : Memory(N), hdr : Nat,
   frame : FrameType, split : BOOLEAN, early : BOOLEAN, frag : BOOLEAN]

(* The buffers a thread sends, and the loops it sends them in. *)
Buffers == Seq(Seq(Cell))
Loops == {"send", "ssl", "file", "fileloop", "spin"}

OutType ==
  [calls : Buffers, how : Loops,
   tot : Nat, size : Nat, pos : Nat, cut : BOOLEAN]

(* The length of the receive buffer of e. *)
Length(e) == BufferLen(conf.cls[e], conf.B)

BufferType ==
  /\ buffer = [e \in End |-> buffer[e]]
  /\ \A e \in End :
       /\ buffer[e] = [id \in Ids |-> buffer[e][id]]
       /\ \A id \in Ids : buffer[e][id] \in [1 .. Message[id].n -> SUBSET Keys]

SocksType ==
  /\ sock = [e \in End |-> sock[e]]
  /\ \A e \in End : sock[e] \in SockType(Length(e)) /\ sock[e].off + sock[e].left <= Length(e)

Types ==
  /\ conf \in Configs
  /\ wire \in [End -> Seq(Cell)]
  /\ ready \in [End -> BOOLEAN] /\ shut \in [End -> BOOLEAN] /\ broken \in BOOLEAN
  /\ out \in [End -> OutType]
  /\ SocksType
  /\ next \in [End -> Nat \ {0}]
  /\ BufferType
  /\ sent \in [End -> Seq(Entry)] /\ got \in [End -> Seq(Entry)]

(* How much of the first call has been written. *)
Written(o) == IF o.how \in {"send", "ssl"} THEN o.tot ELSE o.pos

CallOK(o) ==
  /\ o.calls = <<>> => Written(o) = 0
  /\ o.calls # <<>> => Written(o) <= Len(Head(o.calls))
  /\ o.calls # <<>> /\ o.how \in {"send", "ssl"} => o.size = Len(Head(o.calls)) - o.tot
  /\ o.how = "ssl" => o.tot = 0
  /\ o.calls # <<>> /\ o.how = "file" => o.size = Len(Head(o.calls)) /\ o.pos = 0

-----------------------------------------------------------------------------
(* The two ends *)

LEMMA Ends ==
  /\ \A e \in End : Peer(e) \in End /\ Peer(e) # e /\ Peer(Peer(e)) = e
  /\ \A e, f \in End : f = e \/ f = Peer(e)
  BY DEF End, Peer

LEMMA ConfFacts ==
  ASSUME conf \in Configs, NEW e \in End
  PROVE  /\ conf.cls[e] \in Class /\ conf.B \in Nat \ {0} /\ conf.info \in InitialRequestInfo
         /\ conf.script[e] \in Seq(Ids) /\ conf.ssl \in BOOLEAN /\ conf.files \in BOOLEAN
         /\ conf.cls[e] \in RawClass <=> conf.cls[Peer(e)] \in RawClass
         /\ conf.cls["client"] \notin RawClass =>
              /\ conf.cls["client"] = "HBSocketClient"
              /\ conf.cls["server"] \in {"HBDataSocket", "WebSocket"}
         /\ conf.cls["client"] \in {"DataSocket", "DataSocketV", "HBSocketClient"}
         /\ conf.cls["server"] \in {"DataSocket", "DataSocketV", "HBDataSocket", "WebSocket"}
         /\ Length(e) \in Nat \ {0}
<1>1. conf \in [cls: [End -> Class], B: Nat \ {0}, ssl: BOOLEAN, files: BOOLEAN,
                info: InitialRequestInfo, script: [End -> Seq(Ids)],
                faults: SUBSET {"stop", "close", "reset"}]
  BY ConfigAssumption DEF Ids
<1>2. \/ conf.cls["client"] \in RawClass /\ conf.cls["server"] \in RawClass
      \/ /\ conf.cls["client"] = "HBSocketClient" /\ ~conf.files
         /\ conf.cls["server"] \in {"HBDataSocket", "WebSocket"}
  BY ConfigAssumption
<1>3. conf.cls[e] \in RawClass <=> conf.cls[Peer(e)] \in RawClass
  BY <1>2 DEF End, Peer, RawClass
<1>4. Length(e) \in Nat \ {0}
  BY <1>1 DEF Length, BufferLen
<1>5. QED
  BY <1>1, <1>2, <1>3, <1>4 DEF RawClass

-----------------------------------------------------------------------------
(* Sequences and least elements *)

(* A part of a sequence. *)
LEMMA PartOf ==
  ASSUME NEW S, NEW s \in Seq(S), NEW a \in Nat \ {0}, NEW b \in 0 .. Len(s), a <= b + 1
  PROVE  /\ SubSeq(s, a, b) \in Seq(S) /\ Len(SubSeq(s, a, b)) = b - a + 1
         /\ \A i \in 1 .. b - a + 1 : SubSeq(s, a, b)[i] = s[a + i - 1]
<1>1. Len(s) \in Nat /\ \A i \in a .. b : s[i] \in S
  BY LenProperties
<1>2. a \in Int /\ b \in Int
  BY <1>1
<1>3. /\ SubSeq(s, a, b) \in Seq(S)
      /\ Len(SubSeq(s, a, b)) = IF a <= b THEN b - a + 1 ELSE 0
      /\ \A i \in 1 .. b - a + 1 : SubSeq(s, a, b)[i] = s[a + i - 1]
  BY <1>1, <1>2, SubSeqProperties
<1>4. QED
  BY <1>1, <1>3

(* The smaller of two numbers. *)
LEMMA MinOfTwo ==
  ASSUME NEW a \in Int, NEW b \in Int
  PROVE  Min({a, b}) \in {a, b} /\ Min({a, b}) <= a /\ Min({a, b}) <= b
<1>1. \E x \in {a, b} : \A y \in {a, b} : x <= y
  BY DEF Min
<1>2. QED
  BY <1>1 DEF Min

(* A sequence given element by element. *)
LEMMA SeqOf ==
  ASSUME NEW S, NEW n \in Nat, NEW s \in [1 .. n -> S]
  PROVE  s \in Seq(S) /\ Len(s) = n
  OBVIOUS

(* Short sequences joined. *)
LEMMA JoinThree ==
  ASSUME NEW S, NEW a \in S, NEW b \in S, NEW c \in S
  PROVE  << a, b >> \o << c >> = << a, b, c >>
<1> DEFINE s == << a, b >> \o << c >>
<1>1. s \in Seq(S) /\ Len(s) = 3 /\ s[1] = a /\ s[2] = b /\ s[3] = c
  BY ConcatProperties
<1>2. << a, b, c >> \in Seq(S) /\ Len(<< a, b, c >>) = 3
  OBVIOUS
<1> HIDE DEF s
<1>3. \A i \in 1 .. Len(s) : s[i] = << a, b, c >>[i]
  BY <1>1
<1>4. s = << a, b, c >>
  BY <1>1, <1>2, <1>3, SeqEqual
<1>5. QED
  BY <1>4 DEF s

LEMMA JoinFour ==
  ASSUME NEW S, NEW a \in S, NEW b \in S, NEW c \in S, NEW d \in S
  PROVE  << a, b, c >> \o << d >> = << a, b, c, d >>
<1> DEFINE s == << a, b, c >> \o << d >>
<1>1. s \in Seq(S) /\ Len(s) = 4 /\ s[1] = a /\ s[2] = b /\ s[3] = c /\ s[4] = d
  BY ConcatProperties
<1>2. << a, b, c, d >> \in Seq(S) /\ Len(<< a, b, c, d >>) = 4
  OBVIOUS
<1> HIDE DEF s
<1>3. \A i \in 1 .. Len(s) : s[i] = << a, b, c, d >>[i]
  BY <1>1
<1>4. s = << a, b, c, d >>
  BY <1>1, <1>2, <1>3, SeqEqual
<1>5. QED
  BY <1>4 DEF s

(* A bounded set of numbers has a greatest one. *)
LEMMA GreatestOf ==
  ASSUME NEW n \in Nat, NEW T \in SUBSET (0 .. n), T # {}
  PROVE  Max(T) \in T
<1> DEFINE R == OpToRel(<, Nat)
           D == {n - x : x \in T}
<1>1. IsWellFoundedOn(R, Nat)
  BY NatLessThanWellFounded
<1>2. D \subseteq Nat /\ D # {}
  <2>1. ASSUME NEW x \in T PROVE n - x \in Nat
    <3>1. x \in 0 .. n
      OBVIOUS
    <3>2. QED
      BY <3>1
  <2>2. QED
    BY <2>1
<1>3. PICK d \in D : \A y \in D : ~(<<y, d>> \in R)
  <2> HIDE DEF R, D
  <2>1. QED
    BY <1>1, <1>2, WFMin
<1>4. ASSUME NEW y \in D PROVE d <= y
  <2>1. ASSUME y < d PROVE <<y, d>> \in R
    BY <1>2, <2>1 DEF OpToRel
  <2>2. ~(y < d) /\ y \in Nat /\ d \in Nat
    BY <1>2, <1>3, <2>1
  <2>3. QED
    BY <2>2
<1>5. PICK x \in T : d = n - x
  OBVIOUS
<1>6. \A y \in T : x >= y
  <2> SUFFICES ASSUME NEW y \in T PROVE x >= y
    OBVIOUS
  <2>1. n - y \in D /\ x \in Int /\ y \in Int
    OBVIOUS
  <2>2. n - x <= n - y
    BY <1>4, <1>5, <2>1
  <2>3. QED
    BY <2>1, <2>2
<1>7. QED
  BY <1>6 DEF Max

-----------------------------------------------------------------------------
(* Sending *)

OutWith(o, calls, how, n) ==
  [o EXCEPT !.calls = calls, !.how = how, !.tot = 0, !.pos = 0, !.size = n]

LEMMA OutSet ==
  ASSUME NEW o \in OutType, NEW calls \in Buffers, NEW n \in Nat,
         NEW how \in Loops
  PROVE  /\ OutWith(o, calls, how, n) \in OutType
         /\ OutWith(o, calls, how, n).calls = calls /\ OutWith(o, calls, how, n).how = how
         /\ OutWith(o, calls, how, n).tot = 0 /\ OutWith(o, calls, how, n).pos = 0
         /\ OutWith(o, calls, how, n).size = n /\ OutWith(o, calls, how, n).cut = o.cut
  BY DEF OutType, OutWith

(* A call that begins. *)
LEMMA StartFacts ==
  ASSUME NEW o \in OutType, NEW calls \in Buffers, NEW how \in Loops
  PROVE  /\ StartSend(o, calls, how) \in OutType /\ CallOK(StartSend(o, calls, how))
         /\ StartSend(o, calls, how).calls = calls /\ Written(StartSend(o, calls, how)) = 0
         /\ StartSend(o, calls, how).cut = o.cut
<1>1. \E n \in Nat : (calls # <<>> => n = Len(Head(calls))) /\ StartSend(o, calls, how) = OutWith(o, calls, how, n)
  <2>1. CASE calls = <<>>
    BY <2>1 DEF StartSend, OutWith
  <2>2. CASE calls # <<>>
    <3>1. Head(calls) \in Seq(Cell)
      BY <2>2, HeadTailProperties DEF Buffers
    <3>2. Len(Head(calls)) \in Nat
      BY <3>1, LenProperties
    <3>3. StartSend(o, calls, how) = OutWith(o, calls, how, Len(Head(calls)))
      BY <2>2 DEF StartSend, OutWith
    <3>4. QED
      BY <3>2, <3>3
  <2>3. QED
    BY <2>1, <2>2
<1>2. PICK n \in Nat : (calls # <<>> => n = Len(Head(calls))) /\ StartSend(o, calls, how) = OutWith(o, calls, how, n)
  BY <1>1
<1>3. /\ OutWith(o, calls, how, n) \in OutType
      /\ OutWith(o, calls, how, n).calls = calls /\ OutWith(o, calls, how, n).how = how
      /\ OutWith(o, calls, how, n).tot = 0 /\ OutWith(o, calls, how, n).pos = 0
      /\ OutWith(o, calls, how, n).size = n /\ OutWith(o, calls, how, n).cut = o.cut
  BY <1>2, OutSet
<1>4. CallOK(OutWith(o, calls, how, n)) /\ Written(OutWith(o, calls, how, n)) = 0
  BY <1>2, <1>3 DEF CallOK, Written
<1>5. QED
  BY <1>2, <1>3, <1>4

(* A call that returns. *)
LEMMA ReturnFacts ==
  ASSUME NEW o \in OutType, o.calls # <<>>, NEW whole \in BOOLEAN
  PROVE  /\ Return(o, whole) \in OutType /\ CallOK(Return(o, whole))
         /\ Return(o, whole).calls = Tail(o.calls) /\ Written(Return(o, whole)) = 0
         /\ Return(o, whole).cut = (o.cut \/ ~whole)
<1> DEFINE s == StartSend(o, Tail(o.calls), o.how)
<1>1. o.calls \in Buffers /\ o.cut \in BOOLEAN /\ o.how \in Loops
  BY DEF OutType
<1>2. Tail(o.calls) \in Buffers
  BY <1>1, HeadTailProperties DEF Buffers
<1>3. s \in OutType /\ CallOK(s) /\ s.calls = Tail(o.calls) /\ Written(s) = 0 /\ s.cut = o.cut
  BY <1>1, <1>2, StartFacts
<1>4. Return(o, whole) = [s EXCEPT !.cut = o.cut \/ ~whole]
  BY DEF Return
<1> HIDE DEF s
<1>5. QED
  BY <1>1, <1>3, <1>4 DEF OutType, CallOK, Written

(* One turn of a send loop: n more bytes of the first call are written,    *)
(* and the call goes on, returns having written all (or to a connection    *)
(* that is gone), or is cut short.                                         *)
Writes(e, n) ==
  /\ out[e].calls # <<>>
  /\ n \in 0 .. Len(Head(out[e].calls)) - Written(out[e])
  /\ (Gone(e) => n = 0) /\ n <= Free(e)
  /\ wire' = [wire EXCEPT ![Peer(e)] =
                @ \o SubSeq(Head(out[e].calls), Written(out[e]) + 1, Written(out[e]) + n)]
  /\ shut' = shut /\ broken' = broken /\ ready' \in [End -> BOOLEAN]
  /\ \E o \in OutType :
       /\ out' = [out EXCEPT ![e] = o] /\ CallOK(o) /\ (out[e].cut => o.cut)
       /\ o.calls \in {out[e].calls, Tail(out[e].calls)}
       /\ \/ o.cut
          \/ o.calls = out[e].calls /\ Written(o) = Written(out[e]) + n
          \/ /\ o.calls = Tail(out[e].calls) /\ Written(o) = 0
             /\ Gone(e) \/ n = Len(Head(out[e].calls)) - Written(out[e])

(* Nothing is written. *)
LEMMA WritesNothing ==
  ASSUME NEW w \in [End -> Seq(Cell)], NEW e \in End, NEW s, NEW a \in Nat
  PROVE  [w EXCEPT ![e] = @ \o SubSeq(s, a + 1, a + 0)] = w
<1>1. SubSeq(s, a + 1, a + 0) = <<>>
  BY SubSeqEmpty
<1>2. w[e] \o <<>> = w[e]
  BY ConcatEmptySeq
<1>3. QED
  BY <1>1, <1>2

-----------------------------------------------------------------------------
(* The socket object: what each of its updates leaves alone *)

WithPc(s, pc) == [s EXCEPT !.pc = pc]
WithHdr(s, hdr) == [s EXCEPT !.hdr = hdr]
WithSplit(s, split) == [s EXCEPT !.split = split]
WithStatus(s, status) == [s EXCEPT !.hdr = 0, !.status = status]
WithHistory(s, early, frag) == [s EXCEPT !.early = early, !.frag = frag]
WithFrame(s, frame, mem) == [s EXCEPT !.frame = frame, !.mem = mem]
WithBuffer(s, off, left, mem) == [s EXCEPT !.off = off, !.left = left, !.mem = mem]
WithRoom(s, off, toRecv, mem) == [s EXCEPT !.off = off, !.toRecv = toRecv, !.mem = mem]

LEMMA PcSet ==
  ASSUME NEW N, NEW s \in SockType(N), NEW pc \in Pcs
  PROVE  /\ WithPc(s, pc) \in SockType(N) /\ WithPc(s, pc).pc = pc
         /\ WithPc(s, pc).status = s.status /\ WithPc(s, pc).off = s.off
         /\ WithPc(s, pc).left = s.left /\ WithPc(s, pc).toRecv = s.toRecv
         /\ WithPc(s, pc).mem = s.mem /\ WithPc(s, pc).hdr = s.hdr
         /\ WithPc(s, pc).frame = s.frame /\ WithPc(s, pc).split = s.split
         /\ WithPc(s, pc).early = s.early /\ WithPc(s, pc).frag = s.frag
  BY DEF WithPc, SockType

LEMMA HdrSet ==
  ASSUME NEW N, NEW s \in SockType(N), NEW hdr \in Nat
  PROVE  /\ WithHdr(s, hdr) \in SockType(N) /\ WithHdr(s, hdr).hdr = hdr
         /\ WithHdr(s, hdr).status = s.status /\ WithHdr(s, hdr).off = s.off
         /\ WithHdr(s, hdr).left = s.left /\ WithHdr(s, hdr).toRecv = s.toRecv
         /\ WithHdr(s, hdr).mem = s.mem /\ WithHdr(s, hdr).pc = s.pc
         /\ WithHdr(s, hdr).frame = s.frame /\ WithHdr(s, hdr).split = s.split
         /\ WithHdr(s, hdr).early = s.early /\ WithHdr(s, hdr).frag = s.frag
  BY DEF WithHdr, SockType

LEMMA SplitSet ==
  ASSUME NEW N, NEW s \in SockType(N), NEW split \in BOOLEAN
  PROVE  /\ WithSplit(s, split) \in SockType(N) /\ WithSplit(s, split).split = split
         /\ WithSplit(s, split).status = s.status /\ WithSplit(s, split).off = s.off
         /\ WithSplit(s, split).left = s.left /\ WithSplit(s, split).toRecv = s.toRecv
         /\ WithSplit(s, split).mem = s.mem /\ WithSplit(s, split).hdr = s.hdr
         /\ WithSplit(s, split).frame = s.frame /\ WithSplit(s, split).pc = s.pc
         /\ WithSplit(s, split).early = s.early /\ WithSplit(s, split).frag = s.frag
  BY DEF WithSplit, SockType

LEMMA StatusSet ==
  ASSUME NEW N, NEW s \in SockType(N), NEW status \in Status
  PROVE  /\ WithStatus(s, status) \in SockType(N) /\ WithStatus(s, status).status = status
         /\ WithStatus(s, status).hdr = 0 /\ WithStatus(s, status).off = s.off
         /\ WithStatus(s, status).left = s.left /\ WithStatus(s, status).toRecv = s.toRecv
         /\ WithStatus(s, status).mem = s.mem /\ WithStatus(s, status).pc = s.pc
         /\ WithStatus(s, status).frame = s.frame /\ WithStatus(s, status).split = s.split
         /\ WithStatus(s, status).early = s.early /\ WithStatus(s, status).frag = s.frag
  BY DEF WithStatus, SockType

LEMMA HistorySet ==
  ASSUME NEW N, NEW s \in SockType(N), NEW early \in BOOLEAN, NEW frag \in BOOLEAN
  PROVE  /\ WithHistory(s, early, frag) \in SockType(N)
         /\ WithHistory(s, early, frag).early = early /\ WithHistory(s, early, frag).frag = frag
         /\ WithHistory(s, early, frag).status = s.status /\ WithHistory(s, early, frag).off = s.off
         /\ WithHistory(s, early, frag).left = s.left /\ WithHistory(s, early, frag).toRecv = s.toRecv
         /\ WithHistory(s, early, frag).mem = s.mem /\ WithHistory(s, early, frag).hdr = s.hdr
         /\ WithHistory(s, early, frag).frame = s.frame /\ WithHistory(s, early, frag).pc = s.pc
         /\ WithHistory(s, early, frag).split = s.split
  BY DEF WithHistory, SockType

LEMMA FrameSet ==
  ASSUME NEW N, NEW s \in SockType(N), NEW frame \in FrameType, NEW mem \in Memory(N)
  PROVE  /\ WithFrame(s, frame, mem) \in SockType(N)
         /\ WithFrame(s, frame, mem).frame = frame /\ WithFrame(s, frame, mem).mem = mem
         /\ WithFrame(s, frame, mem).status = s.status /\ WithFrame(s, frame, mem).off = s.off
         /\ WithFrame(s, frame, mem).left = s.left /\ WithFrame(s, frame, mem).toRecv = s.toRecv
         /\ WithFrame(s, frame, mem).hdr = s.hdr /\ WithFrame(s, frame, mem).pc = s.pc
         /\ WithFrame(s, frame, mem).split = s.split
         /\ WithFrame(s, frame, mem).early = s.early /\ WithFrame(s, frame, mem).frag = s.frag
  BY DEF WithFrame, SockType

LEMMA BufferSet ==
  ASSUME NEW N, NEW s \in SockType(N), NEW off \in Nat, NEW left \in Nat, NEW mem \in Memory(N)
  PROVE  /\ WithBuffer(s, off, left, mem) \in SockType(N)
         /\ WithBuffer(s, off, left, mem).off = off /\ WithBuffer(s, off, left, mem).left = left
         /\ WithBuffer(s, off, left, mem).mem = mem
         /\ WithBuffer(s, off, left, mem).status = s.status
         /\ WithBuffer(s, off, left, mem).toRecv = s.toRecv
         /\ WithBuffer(s, off, left, mem).hdr = s.hdr /\ WithBuffer(s, off, left, mem).pc = s.pc
         /\ WithBuffer(s, off, left, mem).frame = s.frame /\ WithBuffer(s, off, left, mem).split = s.split
         /\ WithBuffer(s, off, left, mem).early = s.early /\ WithBuffer(s, off, left, mem).frag = s.frag
  BY DEF WithBuffer, SockType

LEMMA RoomSet ==
  ASSUME NEW N, NEW s \in SockType(N), NEW off \in Nat, NEW toRecv \in Int, NEW mem \in Memory(N)
  PROVE  /\ WithRoom(s, off, toRecv, mem) \in SockType(N)
         /\ WithRoom(s, off, toRecv, mem).off = off /\ WithRoom(s, off, toRecv, mem).toRecv = toRecv
         /\ WithRoom(s, off, toRecv, mem).mem = mem
         /\ WithRoom(s, off, toRecv, mem).status = s.status
         /\ WithRoom(s, off, toRecv, mem).left = s.left
         /\ WithRoom(s, off, toRecv, mem).hdr = s.hdr /\ WithRoom(s, off, toRecv, mem).pc = s.pc
         /\ WithRoom(s, off, toRecv, mem).frame = s.frame /\ WithRoom(s, off, toRecv, mem).split = s.split
         /\ WithRoom(s, off, toRecv, mem).early = s.early /\ WithRoom(s, off, toRecv, mem).frag = s.frag
  BY DEF WithRoom, SockType

-----------------------------------------------------------------------------
(* The receive buffer *)

(* A socket whose bytes lie within its buffer. *)
Fits(s, N) == s \in SockType(N) /\ s.off + s.left <= N

(* What the updates of the receive buffer leave alone. *)
Kept(s, t) ==
  /\ t.status = s.status /\ t.hdr = s.hdr /\ t.frame = s.frame
  /\ t.split = s.split /\ t.early = s.early /\ t.frag = s.frag

LEMMA SockFacts ==
  ASSUME NEW N, NEW s \in SockType(N)
  PROVE  /\ s.pc \in Pcs /\ s.status \in Status /\ s.off \in Nat /\ s.left \in Nat /\ s.toRecv \in Int
         /\ s.mem \in Memory(N) /\ s.hdr \in Nat /\ s.frame \in FrameType
         /\ s.split \in BOOLEAN /\ s.early \in BOOLEAN /\ s.frag \in BOOLEAN
  BY DEF SockType

LEMMA MemorySize ==
  ASSUME NEW N \in Nat, NEW m \in Memory(N)
  PROVE  DOMAIN m = 0 .. N - 1 /\ Cardinality(DOMAIN m) = N /\ \A i \in 0 .. N - 1 : m[i] \in AnyCell
<1>1. DOMAIN m = 0 .. N - 1 /\ \A i \in 0 .. N - 1 : m[i] \in AnyCell
  BY DEF Memory
<1>2. Cardinality(0 .. N - 1) = N
  BY FS_Interval
<1>3. QED
  BY <1>1, <1>2

LEMMA WindowFacts ==
  ASSUME NEW N \in Nat, NEW s, Fits(s, N)
  PROVE  /\ Window(s) \in Seq(AnyCell) /\ Len(Window(s)) = s.left
         /\ \A i \in 1 .. s.left : Window(s)[i] = s.mem[s.off + i - 1]
<1>1. s.off \in Nat /\ s.left \in Nat /\ s.mem \in Memory(N) /\ s.off + s.left <= N
  BY SockFacts DEF Fits
<1>2. \A i \in 0 .. N - 1 : s.mem[i] \in AnyCell
  BY <1>1, MemorySize
<1>3. ASSUME NEW i \in 1 .. s.left PROVE s.mem[s.off + i - 1] \in AnyCell
  BY <1>1, <1>2
<1>4. Window(s) \in [1 .. s.left -> AnyCell]
  BY <1>3 DEF Window
<1>5. QED
  BY <1>1, <1>4, SeqOf DEF Window

(* Bytes are read. *)
LEMMA Consumed ==
  ASSUME NEW N \in Nat, NEW s, Fits(s, N), NEW n \in 0 .. s.left
  PROVE  /\ Fits(updateForDataRead(s, n), N) /\ Kept(s, updateForDataRead(s, n))
         /\ updateForDataRead(s, n).pc = s.pc /\ updateForDataRead(s, n).toRecv = s.toRecv
         /\ updateForDataRead(s, n).off = s.off + n /\ updateForDataRead(s, n).left = s.left - n
         /\ \A i \in 1 .. s.left - n : Window(updateForDataRead(s, n))[i] = Window(s)[n + i]
<1>1. s \in SockType(N) /\ s.off \in Nat /\ s.left \in Nat /\ s.mem \in Memory(N) /\ s.off + s.left <= N
  BY SockFacts DEF Fits
<1>2. PICK mem \in Memory(N) : mem = [i \in DOMAIN s.mem |-> IF i < s.off + n THEN Nil ELSE s.mem[i]]
  BY <1>1, MemorySize DEF Memory, AnyCell
<1>3. PICK a \in Nat, b \in Nat : a = s.off + n /\ b = s.left - n
  BY <1>1
<1> DEFINE t == WithBuffer(s, a, b, mem)
<1>4. updateForDataRead(s, n) = t
  BY <1>2, <1>3 DEF updateForDataRead, WithBuffer
<1>5. ASSUME NEW i \in 1 .. s.left - n PROVE mem[a + i - 1] = s.mem[s.off + (n + i) - 1]
  <2>1. DOMAIN s.mem = 0 .. N - 1
    BY <1>1, MemorySize
  <2>2. a + i - 1 \in 0 .. N - 1 /\ ~(a + i - 1 < s.off + n) /\ a + i - 1 = s.off + (n + i) - 1
    BY <1>1, <1>3
  <2>3. QED
    BY <1>2, <2>1, <2>2
<1>6. s \in SockType(N) /\ mem \in Memory(N) /\ a \in Nat /\ b \in Nat
  BY <1>1, <1>2, <1>3
<1>7. /\ t \in SockType(N) /\ t.off = a /\ t.left = b /\ t.mem = mem
      /\ Kept(s, t) /\ t.pc = s.pc /\ t.toRecv = s.toRecv
  BY <1>6, BufferSet DEF Kept
<1> HIDE DEF t
<1>8. Fits(t, N)
  BY <1>1, <1>3, <1>7 DEF Fits
<1>9. ASSUME NEW i \in 1 .. s.left - n PROVE Window(t)[i] = Window(s)[n + i]
  <2>1. n + i \in 1 .. s.left
    BY <1>1
  <2>2. i \in 1 .. t.left
    BY <1>3, <1>7
  <2>3. Window(t)[i] = mem[a + i - 1]
    BY <1>7, <1>8, <2>2, WindowFacts
  <2>4. Window(s)[n + i] = s.mem[s.off + (n + i) - 1]
    BY <2>1, WindowFacts
  <2>5. QED
    BY <1>5, <2>3, <2>4
<1>10. QED
  BY <1>3, <1>4, <1>7, <1>8, <1>9

(* The same bytes, elsewhere in the buffer. *)
Moved(s, t, N) ==
  /\ Fits(t, N) /\ Kept(s, t) /\ t.left = s.left
  /\ \A i \in 1 .. s.left : Window(t)[i] = Window(s)[i]

LEMMA MovedIf ==
  ASSUME NEW N \in Nat, NEW s, Fits(s, N), NEW off \in Nat, NEW toRecv \in Int, NEW mem \in Memory(N),
         off + s.left <= N, \A i \in 1 .. s.left : mem[off + i - 1] = s.mem[s.off + i - 1]
  PROVE  /\ Moved(s, WithRoom(s, off, toRecv, mem), N) /\ WithRoom(s, off, toRecv, mem).pc = s.pc
         /\ WithRoom(s, off, toRecv, mem).off = off /\ WithRoom(s, off, toRecv, mem).toRecv = toRecv
<1> DEFINE t == WithRoom(s, off, toRecv, mem)
<1>1. s \in SockType(N) /\ s.left \in Nat
  BY SockFacts DEF Fits
<1>2. /\ t \in SockType(N) /\ t.off = off /\ t.toRecv = toRecv /\ t.mem = mem /\ t.left = s.left
      /\ Kept(s, t) /\ t.pc = s.pc
  <2>1. /\ t \in SockType(N) /\ t.off = off /\ t.toRecv = toRecv /\ t.mem = mem /\ t.left = s.left
        /\ t.pc = s.pc
    BY <1>1, RoomSet
  <2>2. /\ t.status = s.status /\ t.hdr = s.hdr /\ t.frame = s.frame
        /\ t.split = s.split /\ t.early = s.early /\ t.frag = s.frag
    BY <1>1, RoomSet
  <2>3. QED
    BY <2>1, <2>2 DEF Kept
<1> HIDE DEF t
<1>3. Fits(t, N)
  BY <1>2 DEF Fits
<1>4. ASSUME NEW i \in 1 .. s.left PROVE Window(t)[i] = Window(s)[i]
  <2>1. Window(t)[i] = mem[off + i - 1]
    BY <1>2, <1>3, WindowFacts
  <2>2. Window(s)[i] = s.mem[s.off + i - 1]
    BY WindowFacts
  <2>3. QED
    BY <2>1, <2>2
<1>5. QED
  BY <1>2, <1>3, <1>4 DEF Moved, t

LEMMA MovedSame ==
  ASSUME NEW N \in Nat, NEW s, Fits(s, N)
  PROVE  Moved(s, s, N)
  BY DEF Moved, Kept

LEMMA ShiftFacts ==
  ASSUME NEW N \in Nat, NEW s, Fits(s, N)
  PROVE  /\ Moved(s, ShiftBuffer(s), N) /\ ShiftBuffer(s).pc = s.pc
         /\ \/ ShiftBuffer(s).off = 0 /\ ShiftBuffer(s).toRecv = N - s.left
            \/ /\ ShiftBuffer(s).off = s.off /\ ShiftBuffer(s).toRecv = s.toRecv
               /\ s.left > N \div 4
<1>1. s \in SockType(N) /\ s.off \in Nat /\ s.left \in Nat /\ s.mem \in Memory(N) /\ s.off + s.left <= N
  BY SockFacts DEF Fits
<1>2. Cardinality(DOMAIN s.mem) = N /\ DOMAIN s.mem = 0 .. N - 1 /\ \A i \in 0 .. N - 1 : s.mem[i] \in AnyCell
  BY <1>1, MemorySize
<1>3. CASE s.left = 0
  <2>1. ShiftBuffer(s) = [s EXCEPT !.off = 0, !.toRecv = N]
    BY <1>2, <1>3 DEF ShiftBuffer
  <2>2. [s EXCEPT !.off = 0, !.toRecv = N] = WithRoom(s, 0, N, s.mem)
    BY <1>1 DEF WithRoom, SockType
  <2>3. 0 + s.left <= N /\ \A i \in 1 .. s.left : s.mem[0 + i - 1] = s.mem[s.off + i - 1]
    BY <1>3
  <2>4. Moved(s, WithRoom(s, 0, N, s.mem), N) /\ WithRoom(s, 0, N, s.mem).pc = s.pc
        /\ WithRoom(s, 0, N, s.mem).off = 0 /\ WithRoom(s, 0, N, s.mem).toRecv = N
    BY <1>1, <2>3, MovedIf
  <2>5. QED
    BY <1>3, <2>1, <2>2, <2>4
<1>4. CASE s.left # 0 /\ s.left <= N \div 4
  <2>1. PICK mem \in Memory(N) :
          mem = [i \in DOMAIN s.mem |-> IF i < s.left THEN s.mem[s.off + i] ELSE Nil]
    <3>1. ASSUME NEW i \in 0 .. N - 1, i < s.left PROVE s.mem[s.off + i] \in AnyCell
      BY <1>1, <1>2, <3>1
    <3>2. QED
      BY <1>2, <3>1 DEF Memory, AnyCell
  <2>2. PICK r \in Int : r = N - s.left
    BY <1>1
  <2>3. ShiftBuffer(s) = WithRoom(s, 0, r, mem)
    BY <1>2, <1>4, <2>1, <2>2 DEF ShiftBuffer, WithRoom
  <2>4. ASSUME NEW i \in 1 .. s.left PROVE mem[0 + i - 1] = s.mem[s.off + i - 1]
    <3>1. i - 1 \in 0 .. N - 1 /\ i - 1 < s.left /\ s.off + (i - 1) = s.off + i - 1
      BY <1>1
    <3>2. mem[i - 1] = s.mem[s.off + (i - 1)]
      BY <1>2, <2>1, <3>1
    <3>3. QED
      BY <3>1, <3>2
  <2>5. r \in Int /\ mem \in Memory(N) /\ 0 + s.left <= N
    BY <1>1, <2>1, <2>2
  <2>6. Moved(s, WithRoom(s, 0, r, mem), N) /\ WithRoom(s, 0, r, mem).pc = s.pc
        /\ WithRoom(s, 0, r, mem).off = 0 /\ WithRoom(s, 0, r, mem).toRecv = r
    BY <2>4, <2>5, MovedIf
  <2>7. QED
    BY <2>2, <2>3, <2>6
<1>5. CASE s.left # 0 /\ ~(s.left <= N \div 4)
  <2>1. ShiftBuffer(s) = s
    BY <1>2, <1>5 DEF ShiftBuffer
  <2>2. QED
    BY <1>1, <1>5, <2>1, MovedSame
<1>6. QED
  BY <1>3, <1>4, <1>5

LEMMA SwapFacts ==
  ASSUME NEW N \in Nat, NEW B \in Nat, N = 2 * B, NEW s, Fits(s, N)
  PROVE  Moved(s, SwapBuffers(s), N) /\ SwapBuffers(s).pc = s.pc
<1>1. s \in SockType(N) /\ s.off \in Nat /\ s.left \in Nat /\ s.mem \in Memory(N) /\ s.off + s.left <= N
  BY SockFacts DEF Fits
<1>2. Cardinality(DOMAIN s.mem) = N /\ DOMAIN s.mem = 0 .. N - 1 /\ \A i \in 0 .. N - 1 : s.mem[i] \in AnyCell
  BY <1>1, MemorySize
<1>3. CASE s.left = 0
  <2>1. SwapBuffers(s) = [s EXCEPT !.off = 0, !.toRecv = N]
    BY <1>2, <1>3 DEF SwapBuffers
  <2>2. [s EXCEPT !.off = 0, !.toRecv = N] = WithRoom(s, 0, N, s.mem)
    BY <1>1 DEF WithRoom, SockType
  <2>3. 0 + s.left <= N /\ \A i \in 1 .. s.left : s.mem[0 + i - 1] = s.mem[s.off + i - 1]
    BY <1>3
  <2>4. Moved(s, WithRoom(s, 0, N, s.mem), N) /\ WithRoom(s, 0, N, s.mem).pc = s.pc
    BY <1>1, <2>3, MovedIf
  <2>5. QED
    BY <2>1, <2>2, <2>4
<1>4. CASE s.left # 0 /\ s.off >= N \div 2
  <2>1. N \div 2 = B
    OBVIOUS
  <2>2. PICK mem \in Memory(N) : mem = [i \in DOMAIN s.mem |-> s.mem[(i + B) % N]]
    <3>1. ASSUME NEW i \in 0 .. N - 1 PROVE s.mem[(i + B) % N] \in AnyCell
      <4>1. (i + B) % N \in 0 .. N - 1
        BY <1>1
      <4>2. QED
        BY <1>2, <4>1
    <3>2. QED
      BY <1>2, <3>1 DEF Memory
  <2>3. PICK a \in Nat, r \in Int : a = s.off - B /\ r = N - s.left
    BY <1>1, <1>4, <2>1
  <2>4. SwapBuffers(s) = WithRoom(s, a, r, mem)
    BY <1>2, <1>4, <2>1, <2>2, <2>3 DEF SwapBuffers, WithRoom
  <2>5. ASSUME NEW i \in 1 .. s.left PROVE mem[a + i - 1] = s.mem[s.off + i - 1]
    <3>1. a + i - 1 \in 0 .. N - 1 /\ (a + i - 1) + B = s.off + i - 1 /\ s.off + i - 1 \in 0 .. N - 1
      BY <1>1, <2>3
    <3>2. (s.off + i - 1) % N = s.off + i - 1
      BY <3>1
    <3>3. QED
      BY <1>2, <2>2, <3>1, <3>2
  <2>6. a \in Nat /\ r \in Int /\ mem \in Memory(N) /\ a + s.left <= N
    BY <1>1, <2>2, <2>3
  <2>7. Moved(s, WithRoom(s, a, r, mem), N) /\ WithRoom(s, a, r, mem).pc = s.pc
    BY <2>5, <2>6, MovedIf
  <2>8. QED
    BY <2>4, <2>7
<1>5. CASE s.left # 0 /\ ~(s.off >= N \div 2)
  <2>1. SwapBuffers(s) = s
    BY <1>2, <1>5 DEF SwapBuffers
  <2>2. QED
    BY <2>1, MovedSame
<1>6. QED
  BY <1>3, <1>4, <1>5

LEMMA PcMoved ==
  ASSUME NEW N \in Nat, NEW s, Fits(s, N), NEW pc \in Pcs
  PROVE  /\ Moved(s, WithPc(s, pc), N) /\ WithPc(s, pc).pc = pc
         /\ WithPc(s, pc).off = s.off /\ WithPc(s, pc).toRecv = s.toRecv
<1> DEFINE t == WithPc(s, pc)
<1>1. s \in SockType(N) /\ s.off + s.left <= N
  BY DEF Fits
<1>2. /\ t \in SockType(N) /\ t.pc = pc /\ t.off = s.off /\ t.left = s.left /\ t.toRecv = s.toRecv
      /\ t.mem = s.mem
  BY <1>1, PcSet
<1>3. Kept(s, t)
  BY <1>1, PcSet DEF Kept
<1> HIDE DEF t
<1>4. Fits(t, N)
  BY <1>1, <1>2 DEF Fits
<1>5. Window(t) = Window(s)
  BY <1>2 DEF Window
<1>6. QED
  BY <1>2, <1>3, <1>4, <1>5 DEF Moved, t

LEMMA CompactFacts ==
  ASSUME conf \in Configs, NEW e \in End, NEW s, Fits(s, Length(e))
  PROVE  /\ Moved(s, Compact(e, s), Length(e)) /\ Compact(e, s).pc = "recv"
         /\ Cls(e) # "DataSocketV" =>
              \/ Compact(e, s).off = 0 /\ Compact(e, s).toRecv = Length(e) - s.left
              \/ /\ Compact(e, s).off = s.off /\ Compact(e, s).toRecv = s.toRecv
                 /\ s.left > Length(e) \div 4
<1> DEFINE N == Length(e)
           u == IF Cls(e) = "DataSocketV" THEN SwapBuffers(s) ELSE ShiftBuffer(s)
<1>1. N \in Nat
  BY ConfFacts
<1>2. Compact(e, s) = WithPc(u, "recv")
  BY DEF Compact, WithPc
<1>3. /\ Moved(s, u, N)
      /\ Cls(e) # "DataSocketV" =>
           \/ u.off = 0 /\ u.toRecv = N - s.left
           \/ u.off = s.off /\ u.toRecv = s.toRecv /\ s.left > N \div 4
  <2>1. CASE Cls(e) = "DataSocketV"
    <3>1. PICK B \in Nat : B = conf.B
      BY ConfFacts
    <3>2. N = 2 * B
      BY <2>1, <3>1 DEF Length, BufferLen, Cls
    <3> HIDE DEF N
    <3>3. Moved(s, SwapBuffers(s), N)
      BY <1>1, <3>2, SwapFacts DEF N
    <3>4. QED
      BY <2>1, <3>3
  <2>2. CASE Cls(e) # "DataSocketV"
    <3>1. /\ Moved(s, ShiftBuffer(s), N)
          /\ \/ ShiftBuffer(s).off = 0 /\ ShiftBuffer(s).toRecv = N - s.left
             \/ /\ ShiftBuffer(s).off = s.off /\ ShiftBuffer(s).toRecv = s.toRecv
                /\ s.left > N \div 4
      BY <1>1, ShiftFacts
    <3>2. QED
      BY <2>2, <3>1
  <2>3. QED
    BY <2>1, <2>2
<1> HIDE DEF u, N
<1>4. Fits(u, N) /\ u.left = s.left /\ Kept(s, u) /\ \A i \in 1 .. s.left : Window(u)[i] = Window(s)[i]
  BY <1>3 DEF Moved
<1>5. "recv" \in Pcs
  BY DEF Pcs
<1>6. /\ Moved(u, WithPc(u, "recv"), N) /\ WithPc(u, "recv").pc = "recv"
      /\ WithPc(u, "recv").off = u.off /\ WithPc(u, "recv").toRecv = u.toRecv
  BY <1>1, <1>4, <1>5, PcMoved
<1>7. Moved(s, WithPc(u, "recv"), N)
  BY <1>4, <1>6 DEF Moved, Kept
<1>8. QED
  BY <1>2, <1>3, <1>6, <1>7 DEF N

-----------------------------------------------------------------------------
(* Cells and frames *)

LEMMA CellFacts ==
  ASSUME NEW c \in AnyCell
  PROVE  /\ c[1] = "h1" => c[2] \in BOOLEAN /\ c[3] \in BOOLEAN /\ c[4] \in Nat
         /\ c[1] = "h2" => c[2] \in BOOLEAN /\ c[3] \in Nat
         /\ c[1] = "ex" => c[2] \in Nat
         /\ c[1] = "mk" => c[2] \in Keys
         /\ c[1] = "sz" => c[2] \in Ids /\ c[3] \in Nat
         /\ c[1] = "pl" => c \in {"pl"} \X Ids \X Nat \X SUBSET Keys
  BY DEF AnyCell, Cell, Nil

Sts == {"ReadHeader", "ReadPayloadLength", "ReadMask", "ReadPayload", "Done"}
Mask == Keys \cup {Unread}

LEMMA FrameFields ==
  ASSUME NEW f \in FrameType
  PROVE  /\ f.st \in Sts /\ f.fin \in BOOLEAN /\ f.rsv \in BOOLEAN /\ f.opCode \in Nat /\ f.mask \in Mask
         /\ f.length \in Nat /\ f.valid \in BOOLEAN /\ f.fragmented \in BOOLEAN /\ f.message \in Seq(AnyCell)
  BY DEF FrameType, Sts, Mask

(* The frames the reader makes of f, field by field. *)
StFrame(f, st) == [f EXCEPT !.st = st]
HeadFrame(f, fin, rsv, op, mk, length) ==
  [f EXCEPT !.fin = fin, !.rsv = rsv, !.opCode = op, !.mask = mk, !.length = length]
ValidFrame(f, st) == [f EXCEPT !.valid = TRUE, !.st = st]
LengthFrame(f, length, st) == [f EXCEPT !.length = length, !.st = st]
MaskFrame(f, mk, st) == [f EXCEPT !.mask = mk, !.st = st]
ErrorFrame(f) == [reset(f) EXCEPT !.st = "Done"]
ClosingFrame(f) == [f EXCEPT !.opCode = CloseOp]
PartFrame(f, message) == [f EXCEPT !.fragmented = TRUE, !.message = message]

LEMMA StSet ==
  ASSUME NEW f \in FrameType, NEW st \in Sts
  PROVE  /\ StFrame(f, st) \in FrameType /\ StFrame(f, st).st = st /\ StFrame(f, st).fin = f.fin
         /\ StFrame(f, st).rsv = f.rsv /\ StFrame(f, st).opCode = f.opCode
         /\ StFrame(f, st).mask = f.mask /\ StFrame(f, st).length = f.length
         /\ StFrame(f, st).valid = f.valid /\ StFrame(f, st).fragmented = f.fragmented
         /\ StFrame(f, st).message = f.message
  BY DEF FrameType, StFrame, Sts

LEMMA HeadSet ==
  ASSUME NEW f \in FrameType, NEW fin \in BOOLEAN, NEW rsv \in BOOLEAN, NEW op \in Nat,
         NEW mk \in Mask, NEW length \in Nat
  PROVE  /\ HeadFrame(f, fin, rsv, op, mk, length) \in FrameType
         /\ HeadFrame(f, fin, rsv, op, mk, length).fin = fin /\ HeadFrame(f, fin, rsv, op, mk, length).rsv = rsv
         /\ HeadFrame(f, fin, rsv, op, mk, length).opCode = op /\ HeadFrame(f, fin, rsv, op, mk, length).mask = mk
         /\ HeadFrame(f, fin, rsv, op, mk, length).length = length
         /\ HeadFrame(f, fin, rsv, op, mk, length).st = f.st /\ HeadFrame(f, fin, rsv, op, mk, length).valid = f.valid
         /\ HeadFrame(f, fin, rsv, op, mk, length).fragmented = f.fragmented
         /\ HeadFrame(f, fin, rsv, op, mk, length).message = f.message
  BY DEF FrameType, HeadFrame, Mask

LEMMA ValidSet ==
  ASSUME NEW f \in FrameType, NEW st \in Sts
  PROVE  /\ ValidFrame(f, st) \in FrameType /\ ValidFrame(f, st).st = st /\ ValidFrame(f, st).fin = f.fin
         /\ ValidFrame(f, st).rsv = f.rsv /\ ValidFrame(f, st).opCode = f.opCode
         /\ ValidFrame(f, st).mask = f.mask /\ ValidFrame(f, st).length = f.length
         /\ ValidFrame(f, st).valid = TRUE /\ ValidFrame(f, st).fragmented = f.fragmented
         /\ ValidFrame(f, st).message = f.message
  BY DEF FrameType, ValidFrame, Sts

LEMMA LengthSet ==
  ASSUME NEW f \in FrameType, NEW n \in Nat, NEW st \in Sts
  PROVE  /\ LengthFrame(f, n, st) \in FrameType /\ LengthFrame(f, n, st).st = st /\ LengthFrame(f, n, st).fin = f.fin
         /\ LengthFrame(f, n, st).rsv = f.rsv /\ LengthFrame(f, n, st).opCode = f.opCode
         /\ LengthFrame(f, n, st).mask = f.mask /\ LengthFrame(f, n, st).length = n
         /\ LengthFrame(f, n, st).valid = f.valid /\ LengthFrame(f, n, st).fragmented = f.fragmented
         /\ LengthFrame(f, n, st).message = f.message
  BY DEF FrameType, LengthFrame, Sts

LEMMA MaskSet ==
  ASSUME NEW f \in FrameType, NEW mk \in Mask, NEW st \in Sts
  PROVE  /\ MaskFrame(f, mk, st) \in FrameType /\ MaskFrame(f, mk, st).st = st /\ MaskFrame(f, mk, st).fin = f.fin
         /\ MaskFrame(f, mk, st).rsv = f.rsv /\ MaskFrame(f, mk, st).opCode = f.opCode
         /\ MaskFrame(f, mk, st).mask = mk /\ MaskFrame(f, mk, st).length = f.length
         /\ MaskFrame(f, mk, st).valid = f.valid /\ MaskFrame(f, mk, st).fragmented = f.fragmented
         /\ MaskFrame(f, mk, st).message = f.message
  BY DEF FrameType, MaskFrame, Sts, Mask

LEMMA ResetSet ==
  ASSUME NEW f \in FrameType
  PROVE  /\ reset(f) \in FrameType /\ reset(f).st = "ReadHeader" /\ reset(f).length = 0 /\ ~reset(f).valid
         /\ reset(f).mask = 0 /\ ~reset(f).fragmented /\ reset(f).message = f.message
         /\ reset(f).opCode = ReservedC
  BY WidthAssumption DEF FrameType, reset, NewFrame, ReservedC

LEMMA ErrorSet ==
  ASSUME NEW f \in FrameType
  PROVE  /\ ErrorFrame(f) \in FrameType /\ ErrorFrame(f).st = "Done" /\ ErrorFrame(f).length = 0
         /\ ~ErrorFrame(f).valid /\ ErrorFrame(f).mask = 0 /\ ~ErrorFrame(f).fragmented
         /\ ErrorFrame(f).message = f.message
  BY WidthAssumption DEF FrameType, ErrorFrame, reset, NewFrame, ReservedC

LEMMA ClosingSet ==
  ASSUME NEW f \in FrameType
  PROVE  /\ ClosingFrame(f) \in FrameType /\ ClosingFrame(f).st = f.st /\ ClosingFrame(f).fin = f.fin
         /\ ClosingFrame(f).rsv = f.rsv /\ ClosingFrame(f).opCode = CloseOp
         /\ ClosingFrame(f).mask = f.mask /\ ClosingFrame(f).length = f.length
         /\ ClosingFrame(f).valid = f.valid /\ ClosingFrame(f).fragmented = f.fragmented
         /\ ClosingFrame(f).message = f.message
  BY DEF FrameType, ClosingFrame, CloseOp

LEMMA PartSet ==
  ASSUME NEW f \in FrameType, NEW m \in Seq(AnyCell)
  PROVE  /\ PartFrame(f, m) \in FrameType /\ PartFrame(f, m).st = f.st /\ PartFrame(f, m).fin = f.fin
         /\ PartFrame(f, m).rsv = f.rsv /\ PartFrame(f, m).opCode = f.opCode
         /\ PartFrame(f, m).mask = f.mask /\ PartFrame(f, m).length = f.length
         /\ PartFrame(f, m).valid = f.valid /\ PartFrame(f, m).fragmented
         /\ PartFrame(f, m).message = m
  BY DEF FrameType, PartFrame


-----------------------------------------------------------------------------
(* The frame reader *)

(* What holds of the frame of a socket besides its type. *)
FrameOK(f) ==
  /\ f.st = "ReadMask" => f.mask = Unread
  /\ f.st = "ReadPayloadLength" => f.mask \in {0, Unread}
  /\ f.st \in {"ReadPayload", "Done"} => f.mask \in Keys
  /\ f.st \notin {"ReadHeader", "Done"} => f.valid
  /\ f.st = "Done" /\ ~f.valid => f.length = 0
  /\ f.fragmented => f.st = "Done" /\ f.valid /\ f.opCode = CloseOp

(* The reader needs more bytes than there are. *)
Waits(f, d) ==
  \/ f.st = "ReadHeader" /\ Len(d) < 2
  \/ f.st \in {"ReadPayloadLength", "ReadMask"} /\ Len(d) < 1
  \/ f.st = "ReadPayload" /\ f.length # 0 /\ Len(d) < f.length

(* The bytes are not of the kind the reader expects. *)
Misreads(f, d) ==
  \/ f.st = "ReadHeader" /\ Len(d) >= 2 /\ (d[1][1] # "h1" \/ d[2][1] # "h2")
  \/ f.st = "ReadPayloadLength" /\ Len(d) >= 1 /\ d[1][1] # "ex"
  \/ f.st = "ReadMask" /\ Len(d) >= 1 /\ d[1][1] # "mk"
  \/ f.st = "ReadPayload" /\ Len(d) >= f.length /\ \E i \in 1 .. f.length : d[i][1] # "pl"

(* The frame g refuses what it has read. *)
Refused(g) == g.st = "Done" /\ ~g.valid

Unmasked(c, key) == IF key = 0 THEN c ELSE [c EXCEPT ![4] = Xor(@, key)]

ReadsHeader(f, d, g, d2, o) ==
  /\ f.st = "ReadHeader" /\ Len(d) >= 2 /\ d[1][1] = "h1" /\ d[2][1] = "h2" /\ d2 = d /\ o = 2
  /\ g.fin = d[1][2] /\ g.opCode = d[1][4] /\ g.length = d[2][3] /\ g.valid
  /\ g.mask = (IF d[2][2] THEN Unread ELSE 0)
  /\ g.st = (IF d[2][3] > Len7Max THEN "ReadPayloadLength" ELSE IF d[2][2] THEN "ReadMask" ELSE "ReadPayload")

ReadsLength(f, d, g, d2, o) ==
  /\ f.st = "ReadPayloadLength" /\ Len(d) >= 1 /\ d[1][1] = "ex" /\ d2 = d /\ o = 1
  /\ g.fin = f.fin /\ g.opCode = f.opCode /\ g.valid
  /\ g.mask = f.mask /\ g.length = d[1][2] % (Max32 + 1) /\ LengthOk(f.length, d[1][2])
  /\ g.st = (IF f.mask # 0 THEN "ReadMask" ELSE "ReadPayload")

ReadsMask(f, d, g, d2, o) ==
  /\ f.st = "ReadMask" /\ Len(d) >= 1 /\ d[1][1] = "mk" /\ d2 = d /\ o = 1
  /\ g.fin = f.fin /\ g.opCode = f.opCode /\ g.valid
  /\ g.length = f.length /\ g.mask = d[1][2] /\ g.st = "ReadPayload"

ReadsPayload(f, d, g, d2, o) ==
  /\ f.st = "ReadPayload" /\ Len(d) >= f.length /\ o = 0
  /\ g.fin = f.fin /\ g.opCode = f.opCode /\ g.valid
  /\ g.length = f.length /\ g.mask = f.mask /\ g.st = "Done"
  /\ \A i \in 1 .. f.length : d[i][1] = "pl" /\ d2[i] = Unmasked(d[i], f.mask)
  /\ \A i \in f.length + 1 .. Len(d) : d2[i] = d[i]

(* One turn of the reader takes the frame f and the bytes d to g and d2,    *)
(* and o bytes are behind it.                                              *)
Reads(f, d, g, d2, o) ==
  /\ g \in FrameType /\ FrameOK(g) /\ g.message = f.message /\ g.fragmented = f.fragmented /\ g.st # f.st
  /\ d2 \in Seq(AnyCell) /\ Len(d2) = Len(d) /\ o \in 0 .. Len(d)
  /\ g.st = "Done" => g.length <= Len(d) - o
  /\ \/ Refused(g)
     \/ ReadsHeader(f, d, g, d2, o) \/ ReadsLength(f, d, g, d2, o)
     \/ ReadsMask(f, d, g, d2, o) \/ ReadsPayload(f, d, g, d2, o)

Read(f, d, r) ==
  \/ r.f.st = "Garbled" /\ Misreads(f, d)
  \/ r.f.st = f.st /\ Waits(f, d)
  \/ \E g, d2, o : r = Reader(g, d2, o) /\ Reads(f, d, g, d2, o)

LEMMA ErrorReads ==
  ASSUME NEW f \in FrameType, NEW h \in FrameType, h.message = f.message, ~f.fragmented, f.st # "Done",
         NEW d \in Seq(AnyCell), NEW o \in 0 .. Len(d)
  PROVE  Reads(f, d, ErrorFrame(h), d, o)
<1>1. Len(d) \in Nat
  BY LenProperties
<1>2. 0 \in Keys
  BY WidthAssumption
<1>3. /\ ErrorFrame(h) \in FrameType /\ ErrorFrame(h).st = "Done" /\ ErrorFrame(h).length = 0
      /\ ~ErrorFrame(h).valid /\ ErrorFrame(h).mask = 0 /\ ~ErrorFrame(h).fragmented
      /\ ErrorFrame(h).message = h.message
  BY ErrorSet
<1>4. FrameOK(ErrorFrame(h))
  BY <1>2, <1>3 DEF FrameOK
<1>5. f.fragmented \in BOOLEAN /\ ErrorFrame(h).fragmented \in BOOLEAN
  BY <1>3, FrameFields
<1>6. QED
  BY <1>1, <1>3, <1>4, <1>5 DEF Reads, Refused

(* The record of a reader. *)
LEMMA ReaderFields ==
  ASSUME NEW f, NEW d, NEW o
  PROVE  Reader(f, d, o).f = f /\ Reader(f, d, o).d = d /\ Reader(f, d, o).o = o
  BY DEF Reader

LEMMA ReaderUpdates ==
  ASSUME NEW f, NEW d, NEW o
  PROVE  /\ setError(Reader(f, d, o)) = Reader(ErrorFrame(f), d, o)
         /\ Garbled(Reader(f, d, o)).f.st = "Garbled" \/ f \notin FrameType
         /\ getDataLeftToRead(Reader(f, d, o)) = Len(d) - o
<1>1. setError(Reader(f, d, o)) = Reader(ErrorFrame(f), d, o)
  BY DEF setError, Reader, ErrorFrame
<1>2. Garbled(Reader(f, d, o)).f.st = "Garbled" \/ f \notin FrameType
  BY DEF Garbled, Reader, FrameType
<1>3. QED
  BY <1>1, <1>2 DEF getDataLeftToRead, Reader

MovedOn(f, d, g) == [Reader(f, d, 0) EXCEPT !.f = g, !.o = 1]
Rewritten(f, d, g, d2) == [Reader(f, d, 0) EXCEPT !.f = g, !.d = d2]

LEMMA ReaderMoves ==
  ASSUME NEW f, NEW d, NEW g, NEW d2
  PROVE  MovedOn(f, d, g) = Reader(g, d, 1) /\ Rewritten(f, d, g, d2) = Reader(g, d2, 0)
<1>1. [Reader(f, d, 0) EXCEPT !.f = g] = Reader(g, d, 0)
  BY DEF Reader
<1>2. [Reader(g, d, 0) EXCEPT !.o = 1] = Reader(g, d, 1)
  BY DEF Reader
<1>3. MovedOn(f, d, g) = [[Reader(f, d, 0) EXCEPT !.f = g] EXCEPT !.o = 1]
  BY DEF Reader, MovedOn
<1>4. [Reader(g, d, 0) EXCEPT !.d = d2] = Reader(g, d2, 0)
  BY DEF Reader
<1>5. Rewritten(f, d, g, d2) = [[Reader(f, d, 0) EXCEPT !.f = g] EXCEPT !.d = d2]
  BY DEF Reader, Rewritten
<1>6. QED
  BY <1>1, <1>2, <1>3, <1>4, <1>5

LEMMA HeaderTurn ==
  ASSUME NEW f \in FrameType, FrameOK(f), f.st = "ReadHeader", NEW d \in Seq(AnyCell)
  PROVE  Read(f, d, readFrameHeader(Reader(f, d, 0)))
<1> DEFINE r == Reader(f, d, 0)
<1>1. r.f = f /\ r.d = d /\ r.o = 0 /\ getDataLeftToRead(r) = Len(d) - 0 /\ Len(d) \in Nat
  BY ReaderFields, ReaderUpdates, LenProperties
<1>2. ~f.fragmented
  BY DEF FrameOK
<1>3. CASE Len(d) < 2
  <2>1. readFrameHeader(r) = r
    BY <1>1, <1>3 DEF readFrameHeader
  <2>2. QED
    BY <1>1, <1>3, <2>1 DEF Read, Waits
<1>4. CASE Len(d) >= 2 /\ Misread(r, 2, <<"h1", "h2">>)
  <2>1. readFrameHeader(r) = Garbled(r)
    BY <1>1, <1>4 DEF readFrameHeader
  <2>2. PICK i \in 1 .. 2 : d[0 + i][1] # <<"h1", "h2">>[i]
    BY <1>1, <1>4 DEF Misread
  <2>3. d[1][1] # "h1" \/ d[2][1] # "h2"
    <3>1. CASE i = 1
      BY <2>2, <3>1
    <3>2. CASE i = 2
      BY <2>2, <3>2
    <3>3. QED
      BY <2>2, <3>1, <3>2
  <2>4. Garbled(r).f.st = "Garbled"
    BY ReaderUpdates
  <2>5. QED
    BY <1>4, <2>1, <2>3, <2>4 DEF Read, Misreads
<1>5. CASE Len(d) >= 2 /\ ~Misread(r, 2, <<"h1", "h2">>)
  <2>1. d[1] \in AnyCell /\ d[2] \in AnyCell
    BY <1>1, <1>5, ElementOfSeq
  <2>2. d[1][1] = "h1" /\ d[2][1] = "h2"
    <3>1. \A i \in 1 .. 2 : d[0 + i][1] = <<"h1", "h2">>[i]
      BY <1>1, <1>5 DEF Misread
    <3>2. QED
      BY <3>1
  <2>3. d[1][2] \in BOOLEAN /\ d[1][3] \in BOOLEAN /\ d[1][4] \in Nat /\ d[2][2] \in BOOLEAN /\ d[2][3] \in Nat
    BY <2>1, <2>2, CellFacts
  <2>4. PICK fin \in BOOLEAN, rsv \in BOOLEAN, op \in Nat, masked \in BOOLEAN, n \in Nat :
          d[1][2] = fin /\ d[1][3] = rsv /\ d[1][4] = op /\ d[2][2] = masked /\ d[2][3] = n
    BY <2>3
  <2>5. PICK mk \in Mask : mk = IF masked THEN Unread ELSE 0
    BY WidthAssumption DEF Mask
  <2> DEFINE h == HeadFrame(f, fin, rsv, op, mk, n)
  <2>6. fin \in BOOLEAN /\ rsv \in BOOLEAN /\ op \in Nat /\ mk \in Mask /\ n \in Nat
    BY <2>4, <2>5
  <2>7. /\ h \in FrameType /\ h.fin = fin /\ h.rsv = rsv /\ h.opCode = op /\ h.mask = mk /\ h.length = n
        /\ h.fragmented = f.fragmented /\ h.message = f.message
    BY <2>6, HeadSet
  <2>8. [f EXCEPT !.fin = d[1][2], !.rsv = d[1][3], !.opCode = d[1][4],
                  !.mask = IF d[2][2] THEN Unread ELSE 0, !.length = d[2][3]] = h
    BY <2>4, <2>5 DEF HeadFrame
  <2> HIDE DEF h
  <2>9. readFrameHeader(r) =
          IF ~checkValidity(h) THEN setError(Reader(h, d, 2))
          ELSE [Reader(h, d, 2) EXCEPT !.f.valid = TRUE,
                   !.f.st = IF h.length > Len7Max THEN "ReadPayloadLength" ELSE AfterLength(h)]
    <3>1. r.d[r.o + 1] = d[1] /\ r.d[r.o + 2] = d[2] /\ r.o + 2 = 2 /\ r.f = f /\ r.d = d
      BY <1>1
    <3>2. ~(getDataLeftToRead(r) < 2) /\ ~Misread(r, 2, <<"h1", "h2">>)
      BY <1>1, <1>5
    <3> HIDE DEF r
    <3>3. [r.f EXCEPT !.fin = r.d[r.o + 1][2], !.rsv = r.d[r.o + 1][3], !.opCode = r.d[r.o + 1][4],
                      !.mask = IF r.d[r.o + 2][2] THEN Unread ELSE 0, !.length = r.d[r.o + 2][3]] = h
      BY <2>8, <3>1, Zenon
    <3>4. Reader(h, r.d, r.o + 2) = Reader(h, d, 2)
      BY <3>1
    <3>5. readFrameHeader(r) =
          IF ~checkValidity(h) THEN setError(Reader(h, r.d, r.o + 2))
          ELSE [Reader(h, r.d, r.o + 2) EXCEPT !.f.valid = TRUE,
                   !.f.st = IF h.length > Len7Max THEN "ReadPayloadLength" ELSE AfterLength(h)]
      BY <3>2, <3>3, Zenon DEF readFrameHeader
    <3>6. QED
      BY <3>4, <3>5, Zenon
  <2>10. CASE ~checkValidity(h)
    <3>1. readFrameHeader(r) = Reader(ErrorFrame(h), d, 2)
      BY <2>9, <2>10, ReaderUpdates
    <3>2. 2 \in 0 .. Len(d)
      BY <1>1, <1>5
    <3>3. Reads(f, d, ErrorFrame(h), d, 2)
      BY <1>2, <2>7, <3>2, ErrorReads
    <3>4. QED
      BY <3>1, <3>3 DEF Read
  <2>11. CASE checkValidity(h)
    <3>1. PICK st \in Sts : st = IF n > Len7Max THEN "ReadPayloadLength" ELSE IF masked THEN "ReadMask" ELSE "ReadPayload"
      BY DEF Sts
    <3>2. st = IF h.length > Len7Max THEN "ReadPayloadLength" ELSE AfterLength(h)
      BY <2>4, <2>5, <2>7, <3>1 DEF AfterLength, hasMask, Unread
    <3> DEFINE g == ValidFrame(h, st)
    <3>3. readFrameHeader(r) = [Reader(h, d, 2) EXCEPT !.f.valid = TRUE, !.f.st = st]
      BY <2>9, <2>11, <3>2
    <3>4. readFrameHeader(r) = Reader(g, d, 2)
      BY <3>3 DEF Reader, ValidFrame
    <3>5. /\ g \in FrameType /\ g.st = st /\ g.fin = fin /\ g.opCode = op /\ g.mask = mk /\ g.length = n
          /\ g.valid = TRUE /\ g.fragmented = f.fragmented /\ g.message = f.message
      BY <2>7, <3>1, ValidSet
    <3> HIDE DEF g
    <3>6. FrameOK(g)
      BY <1>2, <2>4, <2>5, <3>1, <3>5, WidthAssumption DEF FrameOK, Unread
    <3>7. ReadsHeader(f, d, g, d, 2)
      BY <1>5, <2>2, <2>4, <2>5, <3>1, <3>5 DEF ReadsHeader
    <3>8. g.st # f.st /\ g.st # "Done" /\ 2 \in 0 .. Len(d)
      BY <1>1, <1>5, <3>1, <3>5
    <3>9. Reads(f, d, g, d, 2)
      BY <3>5, <3>6, <3>7, <3>8 DEF Reads
    <3>10. QED
      BY <3>4, <3>9 DEF Read
  <2>12. QED
    BY <2>10, <2>11
<1>6. QED
  BY <1>1, <1>3, <1>4, <1>5

LEMMA LengthTurn ==
  ASSUME NEW f \in FrameType, FrameOK(f), f.st = "ReadPayloadLength", NEW d \in Seq(AnyCell)
  PROVE  Read(f, d, readFramePayloadLength(Reader(f, d, 0)))
<1> DEFINE r == Reader(f, d, 0)
<1>1. r.f = f /\ r.d = d /\ r.o = 0 /\ getDataLeftToRead(r) = Len(d) - 0 /\ Len(d) \in Nat
  BY ReaderFields, ReaderUpdates, LenProperties
<1>2. ~f.fragmented /\ f.valid /\ f.mask \in {0, Unread} /\ f.fragmented \in BOOLEAN
  BY FrameFields DEF FrameOK
<1>3. CASE Len(d) < 1
  <2>1. readFramePayloadLength(r) = r
    BY <1>1, <1>3 DEF readFramePayloadLength
  <2>2. QED
    BY <1>1, <1>3, <2>1 DEF Read, Waits
<1>4. CASE Len(d) >= 1 /\ Misread(r, 1, <<"ex">>)
  <2>1. readFramePayloadLength(r) = Garbled(r)
    BY <1>1, <1>4 DEF readFramePayloadLength
  <2>2. d[1][1] # "ex"
    BY <1>1, <1>4 DEF Misread
  <2>3. Garbled(r).f.st = "Garbled"
    BY ReaderUpdates
  <2>4. QED
    BY <1>4, <2>1, <2>2, <2>3 DEF Read, Misreads
<1>5. CASE Len(d) >= 1 /\ ~Misread(r, 1, <<"ex">>)
  <2>1. d[1] \in AnyCell /\ d[1][1] = "ex"
    BY <1>1, <1>5, ElementOfSeq DEF Misread
  <2>2. PICK n \in Nat : d[1][2] = n
    BY <2>1, CellFacts
  <2>3. PICK m \in Nat : m = n % (Max32 + 1)
    BY <2>2, WidthAssumption
  <2>4. ~(getDataLeftToRead(r) < 1) /\ ~Misread(r, 1, <<"ex">>) /\ r.d[r.o + 1][2] = n /\ r.o + 1 = 1
    BY <1>1, <1>5, <2>2
  <2>5. PICK st \in Sts : st = AfterLength(f) /\ st = IF f.mask # 0 THEN "ReadMask" ELSE "ReadPayload"
    BY DEF AfterLength, hasMask, Sts
  <2> DEFINE h == [f EXCEPT !.length = m]
             g == LengthFrame(f, m, st)
  <2>6. [r EXCEPT !.f.length = m, !.o = 1] = Reader(h, d, 1)
    <3>1. [r EXCEPT !.f.length = m, !.o = 1] = MovedOn(f, d, h)
      BY DEF Reader, MovedOn
    <3> HIDE DEF h
    <3>2. MovedOn(f, d, h) = Reader(h, d, 1)
      BY ReaderMoves
    <3>3. QED
      BY <3>1, <3>2, Zenon
  <2>7. /\ g \in FrameType /\ g.st = st /\ g.fin = f.fin /\ g.opCode = f.opCode /\ g.mask = f.mask /\ g.length = m
        /\ g.valid = f.valid /\ g.fragmented = f.fragmented /\ g.message = f.message
    <3>1. m \in Nat /\ st \in Sts
      BY <2>3, <2>5
    <3>2. QED
      BY <3>1, LengthSet
  <2>8. h \in FrameType /\ h.message = f.message
    <3>1. m \in Nat
      BY <2>3
    <3>2. QED
      BY <3>1 DEF FrameType
  <2>9. [Reader(h, d, 1) EXCEPT !.f.st = st] = Reader(g, d, 1)
    BY DEF Reader, LengthFrame
  <2> HIDE DEF r, h, g
  <2>10. readFramePayloadLength(r) =
           IF LengthOk(f.length, n) THEN [Reader(h, d, 1) EXCEPT !.f.st = st] ELSE setError(Reader(h, d, 1))
    <3>1. [r EXCEPT !.f.length = r.d[r.o + 1][2] % (Max32 + 1), !.o = @ + 1] = Reader(h, d, 1)
      BY <1>1, <2>3, <2>4, <2>6
    <3>2. AfterLength(r.f) = st /\ r.f.length = f.length
      BY <1>1, <2>5
    <3>3. QED
      BY <2>4, <3>1, <3>2, Zenon DEF readFramePayloadLength
  <2>11. CASE ~LengthOk(f.length, n)
    <3>1. readFramePayloadLength(r) = Reader(ErrorFrame(h), d, 1)
      BY <2>10, <2>11, ReaderUpdates
    <3>2. 1 \in 0 .. Len(d)
      BY <1>1, <1>5
    <3>3. Reads(f, d, ErrorFrame(h), d, 1)
      BY <1>2, <2>8, <3>2, ErrorReads
    <3>4. QED
      BY <3>1, <3>3 DEF Read, r
  <2>12. CASE LengthOk(f.length, n)
    <3>1. readFramePayloadLength(r) = Reader(g, d, 1)
      BY <2>9, <2>10, <2>12
    <3>2. FrameOK(g)
      BY <1>2, <2>5, <2>7, WidthAssumption DEF FrameOK, Unread
    <3>3. ReadsLength(f, d, g, d, 1)
      BY <1>2, <1>5, <2>1, <2>2, <2>3, <2>5, <2>7, <2>12 DEF ReadsLength
    <3>4. g.st # f.st /\ g.st # "Done" /\ 1 \in 0 .. Len(d)
      BY <1>1, <1>5, <2>5, <2>7
    <3>5. Reads(f, d, g, d, 1)
      BY <2>7, <3>2, <3>3, <3>4 DEF Reads
    <3>6. QED
      BY <3>1, <3>5 DEF Read, r
  <2>13. QED
    BY <2>11, <2>12
<1>6. QED
  BY <1>1, <1>3, <1>4, <1>5

LEMMA MaskTurn ==
  ASSUME NEW f \in FrameType, FrameOK(f), f.st = "ReadMask", NEW d \in Seq(AnyCell)
  PROVE  Read(f, d, readFrameMask(Reader(f, d, 0)))
<1> DEFINE r == Reader(f, d, 0)
<1>1. r.f = f /\ r.d = d /\ r.o = 0 /\ getDataLeftToRead(r) = Len(d) - 0 /\ Len(d) \in Nat
  BY ReaderFields, ReaderUpdates, LenProperties
<1>2. ~f.fragmented /\ f.valid /\ f.fragmented \in BOOLEAN
  BY FrameFields DEF FrameOK
<1>3. CASE Len(d) < 1
  <2>1. readFrameMask(r) = r
    BY <1>1, <1>3 DEF readFrameMask
  <2>2. QED
    BY <1>1, <1>3, <2>1 DEF Read, Waits
<1>4. CASE Len(d) >= 1 /\ Misread(r, 1, <<"mk">>)
  <2>1. readFrameMask(r) = Garbled(r)
    BY <1>1, <1>4 DEF readFrameMask
  <2>2. d[1][1] # "mk"
    BY <1>1, <1>4 DEF Misread
  <2>3. Garbled(r).f.st = "Garbled"
    BY ReaderUpdates
  <2>4. QED
    BY <1>4, <2>1, <2>2, <2>3 DEF Read, Misreads
<1>5. CASE Len(d) >= 1 /\ ~Misread(r, 1, <<"mk">>)
  <2>1. d[1] \in AnyCell /\ d[1][1] = "mk"
    BY <1>1, <1>5, ElementOfSeq DEF Misread
  <2>2. PICK mk \in Keys : d[1][2] = mk
    BY <2>1, CellFacts
  <2>3. mk \in Mask /\ "ReadPayload" \in Sts
    BY <2>2 DEF Mask, Sts
  <2>4. ~(getDataLeftToRead(r) < 1) /\ ~Misread(r, 1, <<"mk">>) /\ r.d[r.o + 1][2] = mk /\ r.o + 1 = 1
    BY <1>1, <1>5, <2>2
  <2> DEFINE g == MaskFrame(f, mk, "ReadPayload")
  <2>5. /\ g \in FrameType /\ g.st = "ReadPayload" /\ g.fin = f.fin /\ g.opCode = f.opCode /\ g.mask = mk
        /\ g.length = f.length /\ g.valid = f.valid /\ g.fragmented = f.fragmented /\ g.message = f.message
    BY <2>3, MaskSet
  <2>6. [r EXCEPT !.f.mask = mk, !.f.st = "ReadPayload", !.o = 1] = Reader(g, d, 1)
    <3>1. [r EXCEPT !.f.mask = mk, !.f.st = "ReadPayload", !.o = 1] = MovedOn(f, d, g)
      BY DEF Reader, MaskFrame, MovedOn
    <3> HIDE DEF g
    <3>2. MovedOn(f, d, g) = Reader(g, d, 1)
      BY ReaderMoves
    <3>3. QED
      BY <3>1, <3>2, Zenon
  <2> HIDE DEF r, g
  <2>7. readFrameMask(r) = Reader(g, d, 1)
    <3>1. [r EXCEPT !.f.mask = r.d[r.o + 1][2], !.f.st = "ReadPayload", !.o = @ + 1] = Reader(g, d, 1)
      BY <1>1, <2>4, <2>6
    <3>2. QED
      BY <2>4, <3>1, Zenon DEF readFrameMask
  <2>8. FrameOK(g)
    BY <1>2, <2>2, <2>5 DEF FrameOK
  <2>9. ReadsMask(f, d, g, d, 1)
    BY <1>2, <1>5, <2>1, <2>2, <2>5 DEF ReadsMask
  <2>10. g.st # f.st /\ g.st # "Done" /\ 1 \in 0 .. Len(d)
    BY <1>1, <1>5, <2>5
  <2>11. Reads(f, d, g, d, 1)
    BY <2>5, <2>8, <2>9, <2>10 DEF Reads
  <2>12. QED
    BY <2>7, <2>11 DEF Read, r
<1>6. QED
  BY <1>1, <1>3, <1>4, <1>5

(* Unmasking a payload cell leaves a payload cell. *)
LEMMA UnmaskedCell ==
  ASSUME NEW c \in AnyCell, c[1] = "pl", NEW key \in Keys
  PROVE  /\ Unmasked(c, key) \in Cell /\ Unmasked(c, key)[1] = "pl" /\ Unmasked(c, key)[2] = c[2]
         /\ Unmasked(c, key)[3] = c[3] /\ Unmasked(c, key)[4] = Xor(c[4], key)
<1>1. c \in {"pl"} \X Ids \X Nat \X SUBSET Keys
  BY CellFacts
<1>2. PICK id \in Ids, i \in Nat, x \in SUBSET Keys : c = <<"pl", id, i, x>>
  BY <1>1
<1>3. Xor(x, key) \in SUBSET Keys
  BY <1>2 DEF Xor
<1>4. Unmasked(c, key) = <<"pl", id, i, Xor(x, key)>>
  <2>1. CASE key = 0
    BY <1>2, <2>1 DEF Unmasked, Xor
  <2>2. CASE key # 0
    <3>1. Unmasked(c, key) = [c EXCEPT ![4] = Xor(@, key)]
      BY <2>2 DEF Unmasked
    <3>2. PICK y \in SUBSET Keys : y = Xor(x, key)
      BY <1>3
    <3>3. [<<"pl", id, i, x>> EXCEPT ![4] = y] = <<"pl", id, i, y>>
      OBVIOUS
    <3>4. [c EXCEPT ![4] = Xor(@, key)] = [<<"pl", id, i, x>> EXCEPT ![4] = y]
      BY <1>2, <3>2
    <3>5. QED
      BY <3>1, <3>2, <3>3, <3>4
  <2>3. QED
    BY <2>1, <2>2
<1>5. <<"pl", id, i, Xor(x, key)>> \in Cell
  BY <1>2, <1>3 DEF Cell
<1>6. QED
  BY <1>2, <1>4, <1>5

LEMMA PayloadTurn ==
  ASSUME NEW f \in FrameType, FrameOK(f), f.st = "ReadPayload", NEW d \in Seq(AnyCell), NEW tooBig \in BOOLEAN
  PROVE  Read(f, d, readFramePayload(Reader(f, d, 0), tooBig))
<1> DEFINE r == Reader(f, d, 0)
           n == f.length
           g == StFrame(f, "Done")
<1>1. r.f = f /\ r.d = d /\ r.o = 0 /\ getDataLeftToRead(r) = Len(d) - 0 /\ Len(d) \in Nat /\ n \in Nat
  BY ReaderFields, ReaderUpdates, LenProperties, FrameFields
<1>2. ~f.fragmented /\ f.valid /\ f.mask \in Keys /\ f.fragmented \in BOOLEAN
  BY FrameFields DEF FrameOK
<1>3. /\ g \in FrameType /\ g.st = "Done" /\ g.fin = f.fin /\ g.opCode = f.opCode /\ g.mask = f.mask
      /\ g.length = n /\ g.valid = f.valid /\ g.fragmented = f.fragmented /\ g.message = f.message
  <2>1. "Done" \in Sts
    BY DEF Sts
  <2>2. QED
    BY <2>1, StSet
<1>4. [r EXCEPT !.f.st = "Done"] = Reader(g, d, 0)
  BY DEF Reader, StFrame
<1>5. ASSUME NEW e PROVE [r EXCEPT !.f.st = "Done", !.d = e] = Reader(g, e, 0)
  <2>1. [r EXCEPT !.f.st = "Done", !.d = e] = Rewritten(f, d, g, e)
    BY DEF Reader, StFrame, Rewritten
  <2> HIDE DEF g
  <2>2. Rewritten(f, d, g, e) = Reader(g, e, 0)
    BY ReaderMoves
  <2>3. QED
    BY <2>1, <2>2, Zenon
<1> HIDE DEF g
<1>6. FrameOK(g)
  BY <1>2, <1>3 DEF FrameOK
<1>7. CASE n = 0
  <2>1. readFramePayload(r, tooBig) = Reader(g, d, 0)
    BY <1>1, <1>4, <1>7 DEF readFramePayload
  <2>2. ReadsPayload(f, d, g, d, 0)
    BY <1>1, <1>2, <1>3, <1>7 DEF ReadsPayload
  <2>3. Reads(f, d, g, d, 0)
    BY <1>1, <1>3, <1>6, <1>7, <2>2 DEF Reads
  <2>4. QED
    BY <2>1, <2>3 DEF Read
<1>8. CASE n # 0 /\ tooBig
  <2>1. readFramePayload(r, tooBig) = Reader(ErrorFrame(f), d, 0)
    BY <1>1, <1>8, ReaderUpdates DEF readFramePayload
  <2>2. Reads(f, d, ErrorFrame(f), d, 0)
    BY <1>1, <1>2, ErrorReads
  <2>3. QED
    BY <2>1, <2>2 DEF Read
<1>9. CASE n # 0 /\ ~tooBig /\ Len(d) < n
  <2>1. readFramePayload(r, tooBig) = r
    BY <1>1, <1>9 DEF readFramePayload
  <2>2. QED
    BY <1>1, <1>9, <2>1 DEF Read, Waits
<1>10. CASE n # 0 /\ ~tooBig /\ Len(d) >= n /\ Misread(r, n, [i \in 1 .. n |-> "pl"])
  <2>1. readFramePayload(r, tooBig) = Garbled(r)
    BY <1>1, <1>10 DEF readFramePayload
  <2>2. \E i \in 1 .. n : d[i][1] # "pl"
    <3>1. PICK i \in 1 .. n : d[0 + i][1] # [j \in 1 .. n |-> "pl"][i]
      BY <1>1, <1>10 DEF Misread
    <3>2. 0 + i = i
      BY <3>1
    <3>3. QED
      BY <3>1, <3>2
  <2>3. Garbled(r).f.st = "Garbled"
    BY ReaderUpdates
  <2>4. QED
    BY <1>10, <2>1, <2>2, <2>3 DEF Read, Misreads
<1>11. CASE n # 0 /\ ~tooBig /\ Len(d) >= n /\ ~Misread(r, n, [i \in 1 .. n |-> "pl"])
  <2>1. ASSUME NEW i \in 1 .. n PROVE d[i][1] = "pl" /\ d[i] \in AnyCell /\ i \in 1 .. Len(d)
    <3>1. d[0 + i][1] = [j \in 1 .. n |-> "pl"][i]
      BY <1>1, <1>11 DEF Misread
    <3>2. 0 + i = i /\ i \in 1 .. Len(d)
      BY <1>1, <1>11
    <3>3. d[i] \in AnyCell
      BY <3>2, ElementOfSeq
    <3>4. QED
      BY <3>1, <3>2, <3>3
  <2>2. PICK d2 : d2 = IF hasMask(f) THEN mask(d, 0 + 1, 0 + n, f.mask) ELSE d
    OBVIOUS
  <2>3. readFramePayload(r, tooBig) = Reader(g, d2, 0)
    <3>1. ~(getDataLeftToRead(r) < n)
      BY <1>1, <1>11
    <3>2. [r EXCEPT !.f.st = "Done", !.d = d2] = Reader(g, d2, 0)
      BY <1>5
    <3>3. [r EXCEPT !.f.st = "Done", !.d = IF hasMask(r.f) THEN mask(@, r.o + 1, r.o + n, r.f.mask) ELSE @]
            = Reader(g, d2, 0)
      BY <1>1, <2>2, <3>2, Zenon
    <3>4. r.f.length = n
      BY <1>1
    <3> HIDE DEF r, n
    <3>5. QED
      BY <1>11, <3>1, <3>3, <3>4, Zenon DEF readFramePayload
  <2>4. \A i \in 1 .. Len(d) : d2[i] = IF i <= n THEN Unmasked(d[i], f.mask) ELSE d[i]
    <3> SUFFICES ASSUME NEW i \in 1 .. Len(d) PROVE d2[i] = IF i <= n THEN Unmasked(d[i], f.mask) ELSE d[i]
      OBVIOUS
    <3>1. CASE f.mask = 0
      BY <2>2, <3>1 DEF hasMask, Unmasked
    <3>2. CASE f.mask # 0
      <4>1. d2 = [j \in DOMAIN d |-> IF j \in 0 + 1 .. 0 + n THEN [d[j] EXCEPT ![4] = Xor(@, f.mask)] ELSE d[j]]
        BY <2>2, <3>2 DEF hasMask, mask
      <4>2. DOMAIN d = 1 .. Len(d) /\ (i \in 0 + 1 .. 0 + n <=> i <= n)
        BY <1>1, LenProperties
      <4>3. QED
        BY <3>2, <4>1, <4>2 DEF Unmasked
    <3>3. QED
      BY <3>1, <3>2
  <2>5. d2 \in Seq(AnyCell) /\ Len(d2) = Len(d)
    <3>1. ASSUME NEW i \in 1 .. Len(d) PROVE d2[i] \in AnyCell
      <4>1. CASE i <= n
        <5>1. d2[i] = Unmasked(d[i], f.mask) /\ i \in 1 .. n
          BY <1>1, <2>4, <4>1
        <5>2. Unmasked(d[i], f.mask) \in Cell
          BY <1>2, <2>1, <5>1, UnmaskedCell
        <5>3. QED
          BY <5>1, <5>2 DEF AnyCell
      <4>2. CASE ~(i <= n)
        BY <2>4, <4>2, ElementOfSeq
      <4>3. QED
        BY <4>1, <4>2
    <3>2. d2 = [i \in 1 .. Len(d) |-> d2[i]]
      <4>1. DOMAIN d = 1 .. Len(d) /\ d = [i \in 1 .. Len(d) |-> d[i]]
        BY LenProperties
      <4>2. CASE hasMask(f)
        BY <2>2, <4>1, <4>2 DEF mask
      <4>3. QED
        BY <2>2, <4>1, <4>2
    <3>3. d2 \in [1 .. Len(d) -> AnyCell]
      BY <3>1, <3>2
    <3>4. QED
      BY <1>1, <3>3, SeqOf
  <2>6. ReadsPayload(f, d, g, d2, 0)
    <3>1. \A i \in 1 .. n : d[i][1] = "pl" /\ d2[i] = Unmasked(d[i], f.mask)
      BY <1>1, <2>1, <2>4
    <3>2. \A i \in n + 1 .. Len(d) : d2[i] = d[i]
      BY <1>1, <2>4
    <3>3. QED
      BY <1>1, <1>2, <1>3, <1>11, <3>1, <3>2 DEF ReadsPayload
  <2>7. Reads(f, d, g, d2, 0)
    BY <1>1, <1>3, <1>6, <1>11, <2>5, <2>6 DEF Reads
  <2>8. QED
    BY <2>3, <2>7 DEF Read
<1>12. QED
  BY <1>1, <1>7, <1>8, <1>9, <1>10, <1>11

(* One turn of the loop of readFrame. *)
LEMMA ReadFrameFacts ==
  ASSUME NEW f \in FrameType, FrameOK(f), f.st # "Done", NEW d \in Seq(AnyCell), NEW tooBig \in BOOLEAN
  PROVE  Read(f, d, readFrame(Reader(f, d, 0), tooBig))
<1>1. Reader(f, d, 0).f = f /\ f.st \in Sts
  BY ReaderFields, FrameFields
<1>2. CASE f.st = "ReadHeader"
  BY <1>1, <1>2, HeaderTurn DEF readFrame
<1>3. CASE f.st = "ReadPayloadLength"
  BY <1>1, <1>3, LengthTurn DEF readFrame
<1>4. CASE f.st = "ReadMask"
  BY <1>1, <1>4, MaskTurn DEF readFrame
<1>5. CASE f.st = "ReadPayload"
  BY <1>1, <1>5, PayloadTurn DEF readFrame
<1>6. QED
  BY <1>1, <1>2, <1>3, <1>4, <1>5 DEF Sts

-----------------------------------------------------------------------------
(* What processMessage does with a frame *)

(* The frame stays as it is, but for an opcode that stops the connection. *)
TurnStays(f, t, g, o) ==
  /\ t.returns = TRUE /\ t.cb = <<>> /\ o = 0
  /\ g.st = "Done" /\ g.valid = f.valid /\ g.length = f.length /\ g.mask = f.mask /\ g.opCode = CloseOp
  /\ Refused(f) \/ ~f.fin \/ f.opCode = Continue

(* The frame is done with, and the next one begins behind its payload. *)
TurnEnds(f, d, t, g, o) ==
  /\ t.returns = FALSE /\ t.cb \in Seq(Entry) /\ f.valid /\ o = f.length
  /\ g.st = "ReadHeader" /\ g.opCode = ReservedC /\ (f.fin => g.message = f.message)
  /\ f.fin /\ ~f.fragmented /\ f.opCode \in Opcode =>
       t.cb = << Seen(f.opCode, SubSeq(d, 1, f.length)) >>

Turns(f, d, t) ==
  \E g \in FrameType, o \in {0, f.length} :
    /\ t.r = Reader(g, d, o) /\ FrameOK(g)
    /\ TurnStays(f, t, g, o) \/ TurnEnds(f, d, t, g, o)

LEMMA EntryMade ==
  ASSUME NEW op \in Nat, NEW body \in Seq(AnyCell)
  PROVE  [op |-> op, body |-> body] \in Entry /\ << [op |-> op, body |-> body] >> \in Seq(Entry)
  BY DEF Entry

LEMMA ProcessFacts ==
  ASSUME NEW f \in FrameType, FrameOK(f), f.st = "Done", NEW d \in Seq(AnyCell), f.length <= Len(d),
         NEW Capacity \in Nat
  PROVE  Turns(f, d, processMessage(Reader(f, d, 0), Capacity))
<1> DEFINE r == Reader(f, d, 0)
           n == f.length
           body == SubSeq(d, 1, n)
           c == ClosingFrame(f)
           t == processMessage(r, Capacity)
<1>1. r.f = f /\ r.d = d /\ r.o = 0 /\ r.o + n = n /\ r.o + 1 = 1 /\ Len(d) \in Nat /\ n \in Nat
      /\ f.opCode \in Nat /\ f.valid \in BOOLEAN /\ f.fin \in BOOLEAN /\ f.fragmented \in BOOLEAN
      /\ f.message \in Seq(AnyCell)
  BY ReaderFields, LenProperties, FrameFields
<1>2. body \in Seq(AnyCell) /\ Len(body) = n
  <2>1. n \in 0 .. Len(d) /\ 1 <= n + 1
    BY <1>1
  <2>2. QED
    BY <1>1, <2>1, PartOf
<1>3. /\ c \in FrameType /\ c.st = "Done" /\ c.opCode = CloseOp /\ c.mask = f.mask
      /\ c.length = n /\ c.valid = f.valid /\ c.fragmented = f.fragmented /\ c.message = f.message
  BY ClosingSet
<1>4. [r EXCEPT !.f.opCode = CloseOp] = Reader(c, d, 0)
  BY DEF Reader, ClosingFrame
<1>5. /\ reset(f) \in FrameType /\ reset(f).st = "ReadHeader" /\ reset(f).length = 0 /\ ~reset(f).valid
      /\ reset(f).mask = 0 /\ ~reset(f).fragmented /\ reset(f).message = f.message
      /\ reset(f).opCode = ReservedC
  BY ResetSet
<1>6. FrameOK(c) /\ FrameOK(reset(f))
  <2>1. FrameOK(c)
    BY <1>1, <1>3 DEF FrameOK
  <2>2. FrameOK(reset(f))
    BY <1>5 DEF FrameOK
  <2>3. QED
    BY <2>1, <2>2
<1> HIDE DEF c
<1> DEFINE frag == IF isContinuationFrame(f) THEN f.fragmented ELSE ~f.fin
<1>7. /\ ~f.valid => t = Turn([r EXCEPT !.f.opCode = CloseOp], <<>>, TRUE)
      /\ f.valid /\ isControlFrame(f) =>
           t = Turn(Reader(reset(r.f), r.d, r.o + r.f.length),
                    processControlFrame(r, SubSeq(r.d, r.o + 1, r.o + r.f.length)), FALSE)
      /\ f.valid /\ ~isControlFrame(f) /\ f.fragmented # isContinuationFrame(f) =>
           t = Turn([r EXCEPT !.f.opCode = CloseOp], <<>>, TRUE)
      /\ f.valid /\ ~isControlFrame(f) /\ f.fragmented = isContinuationFrame(f) /\ frag /\ append(f, Capacity) =>
           t = Turn([[r EXCEPT !.f.opCode = CloseOp] EXCEPT !.f.fragmented = TRUE,
                         !.f.message = @ \o SubSeq(r.d, r.o + 1, r.o + r.f.length)], <<>>, TRUE)
      /\ f.valid /\ ~isControlFrame(f) /\ f.fragmented = isContinuationFrame(f) /\ ~(frag /\ append(f, Capacity)) =>
           t = Turn([Reader(reset(r.f), r.d, r.o + r.f.length) EXCEPT
                        !.f.message = IF r.f.fin /\ frag THEN <<>> ELSE @],
                    IF ~r.f.fin THEN <<>>
                    ELSE << [op |-> Binary, body |-> IF frag THEN SubSeq(r.f.message, 1, r.f.length)
                                                     ELSE SubSeq(r.d, r.o + 1, r.o + r.f.length)] >>,
                    FALSE)
  <2>1. r.f = f
    BY <1>1
  <2>2. frag = IF isContinuationFrame(r.f) THEN r.f.fragmented ELSE ~r.f.fin
    BY <1>1
  <2> HIDE DEF r
  <2>3. CASE ~f.valid
    BY <2>1, <2>3 DEF processMessage
  <2>4. CASE f.valid /\ isControlFrame(f)
    BY <2>1, <2>4 DEF processMessage
  <2>5. CASE f.valid /\ ~isControlFrame(f) /\ f.fragmented # isContinuationFrame(f)
    BY <2>1, <2>5 DEF processMessage
  <2>6. CASE f.valid /\ ~isControlFrame(f) /\ f.fragmented = isContinuationFrame(f) /\ frag /\ append(f, Capacity)
    BY <2>1, <2>2, <2>6 DEF processMessage
  <2>7. CASE f.valid /\ ~isControlFrame(f) /\ f.fragmented = isContinuationFrame(f) /\ ~(frag /\ append(f, Capacity))
    BY <2>1, <2>2, <2>7 DEF processMessage
  <2>8. QED
    BY <2>3, <2>4, <2>5, <2>6, <2>7
<1>8. CASE ~f.valid
  <2>1. t = Turn(Reader(c, d, 0), <<>>, TRUE)
    BY <1>4, <1>7, <1>8, Zenon
  <2> HIDE DEF t
  <2>2. t.r = Reader(c, d, 0) /\ t.cb = <<>> /\ t.returns = TRUE
    BY <2>1 DEF Turn
  <2>3. TurnStays(f, t, c, 0)
    BY <1>1, <1>3, <1>8, <2>2 DEF TurnStays, Refused
  <2>4. QED
    BY <1>3, <1>6, <2>2, <2>3 DEF Turns, t
<1>9. CASE f.valid /\ isControlFrame(f)
  <2>1. t = Turn(Reader(reset(f), d, n), processControlFrame(r, body), FALSE)
    BY <1>1, <1>7, <1>9, Zenon
  <2> HIDE DEF t
  <2>2. t.r = Reader(reset(f), d, n) /\ t.cb = processControlFrame(r, body) /\ t.returns = FALSE
    BY <2>1 DEF Turn
  <2>3. f.opCode # Text /\ f.opCode # Binary
    BY <1>1, <1>9 DEF isControlFrame, Text, Binary
  <2>4. t.cb \in Seq(Entry) /\ (f.opCode \in Opcode => t.cb = << Seen(f.opCode, body) >>)
    <3>0. PingOp \in Nat /\ PongOp \in Nat /\ CloseOp \in Nat /\ << >> \in Seq(AnyCell) /\ << >> \in Seq(Entry)
      BY DEF PingOp, PongOp, CloseOp
    <3>1. CASE f.opCode = PingOp
      <4> HIDE DEF r, body
      <4>1. t.cb = << [op |-> PingOp, body |-> body] >>
        BY <1>1, <2>2, <3>1 DEF processControlFrame, PingOp, PongOp, CloseOp
      <4>2. Seen(f.opCode, body) = [op |-> PingOp, body |-> body]
        BY <3>1 DEF Seen, PingOp, PongOp, CloseOp, Text
      <4>3. QED
        BY <1>2, <3>0, <4>1, <4>2, EntryMade
    <3>2. CASE f.opCode = PongOp
      <4>1. t.cb = << [op |-> PongOp, body |-> <<>>] >>
        BY <1>1, <2>2, <3>2 DEF processControlFrame, PingOp, PongOp
      <4>2. Seen(f.opCode, body) = [op |-> PongOp, body |-> <<>>]
        BY <3>2 DEF Seen, PingOp, PongOp, CloseOp, Text
      <4>3. QED
        BY <3>0, <4>1, <4>2, EntryMade
    <3>3. CASE f.opCode = CloseOp
      <4>1. t.cb = << [op |-> CloseOp, body |-> <<>>] >>
        BY <1>1, <2>2, <3>3 DEF processControlFrame, PingOp, PongOp, CloseOp
      <4>2. Seen(f.opCode, body) = [op |-> CloseOp, body |-> <<>>]
        BY <3>3 DEF Seen, PingOp, PongOp, CloseOp, Text
      <4>3. QED
        BY <3>0, <4>1, <4>2, EntryMade
    <3>4. CASE f.opCode \notin {PingOp, PongOp, CloseOp}
      <4>1. t.cb = <<>>
        BY <1>1, <2>2, <3>4 DEF processControlFrame
      <4>2. QED
        BY <2>3, <3>0, <3>4, <4>1 DEF Opcode
    <3>5. QED
      BY <3>1, <3>2, <3>3, <3>4
  <2>5. TurnEnds(f, d, t, reset(f), n)
    BY <1>1, <1>5, <1>9, <2>2, <2>4 DEF TurnEnds
  <2>6. QED
    BY <1>5, <1>6, <2>2, <2>5 DEF Turns, t
<1>10. CASE f.valid /\ ~isControlFrame(f) /\ f.fragmented # isContinuationFrame(f)
  <2>1. t = Turn(Reader(c, d, 0), <<>>, TRUE)
    BY <1>4, <1>7, <1>10, Zenon
  <2> HIDE DEF t
  <2>2. t.r = Reader(c, d, 0) /\ t.cb = <<>> /\ t.returns = TRUE
    BY <2>1 DEF Turn
  <2>3. ~f.fragmented
    BY <1>10 DEF FrameOK, isControlFrame, CloseOp
  <2>4. f.opCode = Continue
    BY <1>1, <1>10, <2>3 DEF isContinuationFrame
  <2>5. TurnStays(f, t, c, 0)
    BY <1>1, <1>3, <2>2, <2>4 DEF TurnStays
  <2>6. QED
    BY <1>3, <1>6, <2>2, <2>5 DEF Turns, t
<1>11. CASE f.valid /\ ~isControlFrame(f) /\ f.fragmented = isContinuationFrame(f)
  <2>1. ~f.fragmented /\ ~isContinuationFrame(f)
    BY <1>1, <1>11 DEF FrameOK, isControlFrame, CloseOp
  <2>2. frag = ~f.fin
    BY <2>1
  <2> HIDE DEF frag
  <2>3. CASE frag /\ append(f, Capacity)
    <3> DEFINE m == f.message \o body
               p == PartFrame(c, m)
    <3>1. t = Turn([Reader(c, d, 0) EXCEPT !.f.fragmented = TRUE, !.f.message = @ \o body], <<>>, TRUE)
      BY <1>1, <1>4, <1>7, <1>11, <2>3, Zenon
    <3>2. [Reader(c, d, 0) EXCEPT !.f.fragmented = TRUE, !.f.message = @ \o body] = Reader(p, d, 0)
      <4>1. Reader(c, d, 0).f.message \o body = m
        <5>1. Reader(c, d, 0).f.message = f.message
          BY <1>3, ReaderFields
        <5>2. QED
          BY <5>1, Zenon
      <4> HIDE DEF m
      <4>2. [Reader(c, d, 0) EXCEPT !.f.fragmented = TRUE, !.f.message = m] = [Reader(c, d, 0) EXCEPT !.f = p]
        BY DEF Reader, PartFrame
      <4> HIDE DEF p
      <4>3. [Reader(c, d, 0) EXCEPT !.f = p] = Reader(p, d, 0)
        BY DEF Reader
      <4>4. QED
        BY <4>1, <4>2, <4>3, Zenon
    <3>3. m \in Seq(AnyCell)
      BY <1>1, <1>2, ConcatProperties
    <3> HIDE DEF m
    <3>4. /\ p \in FrameType /\ p.st = "Done" /\ p.opCode = CloseOp /\ p.mask = f.mask /\ p.length = n
          /\ p.valid = f.valid /\ p.fragmented
      BY <1>3, <3>3, PartSet
    <3> HIDE DEF p, t
    <3>5. t.r = Reader(p, d, 0) /\ t.cb = <<>> /\ t.returns = TRUE
      BY <3>1, <3>2 DEF Turn
    <3>6. FrameOK(p)
      BY <1>11, <3>4 DEF FrameOK
    <3>7. TurnStays(f, t, p, 0)
      BY <1>1, <2>2, <2>3, <3>4, <3>5 DEF TurnStays
    <3>8. QED
      BY <3>4, <3>5, <3>6, <3>7 DEF Turns, t
  <2>4. CASE ~(frag /\ append(f, Capacity))
    <3>1. ~(f.fin /\ frag)
      BY <2>2
    <3>2. t = Turn([Reader(reset(f), d, n) EXCEPT !.f.message = IF f.fin /\ frag THEN <<>> ELSE @],
                   IF ~f.fin THEN <<>>
                   ELSE << [op |-> Binary, body |-> IF frag THEN SubSeq(f.message, 1, n) ELSE body] >>, FALSE)
      BY <1>1, <1>7, <1>11, <2>4, Zenon
    <3>3. [Reader(reset(f), d, n) EXCEPT !.f.message = IF f.fin /\ frag THEN <<>> ELSE @] = Reader(reset(f), d, n)
      <4>1. [Reader(reset(f), d, n) EXCEPT !.f.message = IF f.fin /\ frag THEN <<>> ELSE @] =
            Reader([reset(f) EXCEPT !.message = IF f.fin /\ frag THEN <<>> ELSE @], d, n)
        BY DEF Reader
      <4>2. [reset(f) EXCEPT !.message = IF f.fin /\ frag THEN <<>> ELSE @] = reset(f)
        BY <1>5, <3>1 DEF FrameType
      <4>3. QED
        BY <4>1, <4>2, Zenon
    <3>4. PICK cb : cb = IF ~f.fin THEN <<>>
                         ELSE << [op |-> Binary, body |-> IF frag THEN SubSeq(f.message, 1, n) ELSE body] >>
      OBVIOUS
    <3>5. cb = IF f.fin THEN << [op |-> Binary, body |-> body] >> ELSE <<>>
      BY <2>2, <3>4
    <3>6. t = Turn(Reader(reset(f), d, n), cb, FALSE)
      BY <3>2, <3>3, <3>4, Zenon
    <3> HIDE DEF t
    <3>7. t.r = Reader(reset(f), d, n) /\ t.cb = cb /\ t.returns = FALSE
      BY <3>6 DEF Turn
    <3>8. cb \in Seq(Entry)
      <4>1. Binary \in Nat /\ <<>> \in Seq(Entry)
        BY DEF Binary
      <4>2. << [op |-> Binary, body |-> body] >> \in Seq(Entry)
        BY <1>2, <4>1, EntryMade
      <4>3. QED
        BY <3>5, <4>1, <4>2, Zenon
    <3>9. f.fin /\ f.opCode \in Opcode => cb = << Seen(f.opCode, body) >>
      <4>1. f.opCode \notin {PingOp, PongOp, CloseOp}
        BY <1>11 DEF isControlFrame, PingOp, PongOp, CloseOp
      <4>2. f.opCode \in Opcode => Seen(f.opCode, body) = [op |-> Binary, body |-> body]
        BY <4>1 DEF Seen, Opcode, Binary, Text
      <4>3. QED
        BY <3>5, <4>2
    <3>10. TurnEnds(f, d, t, reset(f), n)
      BY <1>1, <1>5, <1>11, <3>7, <3>8, <3>9 DEF TurnEnds
    <3>11. QED
      BY <1>5, <1>6, <3>7, <3>10 DEF Turns, t
  <2>5. QED
    BY <2>3, <2>4
<1>12. QED
  BY <1>1, <1>8, <1>9, <1>10, <1>11 DEF isControlFrame, isContinuationFrame

-----------------------------------------------------------------------------
(* The socket after a turn of the frame reader *)

(* The frame is g, and what is left are the bytes of d behind the first o. *)
Turned(s, t, g, d, o, N) ==
  /\ Fits(t, N) /\ t.pc = s.pc /\ t.status = s.status /\ t.toRecv = s.toRecv /\ t.hdr = s.hdr
  /\ t.split = s.split /\ t.early = s.early /\ t.frag = s.frag
  /\ t.frame = g /\ t.off = s.off + o /\ t.left = s.left - o
  /\ \A i \in 1 .. s.left - o : Window(t)[i] = d[o + i]

LEMMA AfterFrameFacts ==
  ASSUME NEW N \in Nat, NEW s, Fits(s, N), NEW g \in FrameType, NEW d \in Seq(AnyCell), Len(d) = s.left,
         NEW o \in 0 .. s.left
  PROVE  Turned(s, AfterFrame(s, Reader(g, d, o)), g, d, o, N)
<1>1. s \in SockType(N) /\ s.off \in Nat /\ s.left \in Nat /\ s.mem \in Memory(N) /\ s.off + s.left <= N
  BY SockFacts DEF Fits
<1>2. DOMAIN s.mem = 0 .. N - 1 /\ \A i \in 0 .. N - 1 : s.mem[i] \in AnyCell
  BY <1>1, MemorySize
<1>3. PICK mem \in Memory(N) :
        mem = [i \in DOMAIN s.mem |-> IF i \in s.off .. s.off + s.left - 1 THEN d[i - s.off + 1] ELSE s.mem[i]]
  <2>1. ASSUME NEW i \in s.off .. s.off + s.left - 1 PROVE d[i - s.off + 1] \in AnyCell
    <3>1. i - s.off + 1 \in 1 .. Len(d)
      BY <1>1
    <3>2. QED
      BY <3>1, ElementOfSeq
  <2>2. QED
    BY <1>2, <2>1 DEF Memory
<1> DEFINE u == WithFrame(s, g, mem)
           t == updateForDataRead(u, o)
<1>4. AfterFrame(s, Reader(g, d, o)) = t
  <2>1. Reader(g, d, o).f = g /\ Reader(g, d, o).d = d /\ Reader(g, d, o).o = o
    BY ReaderFields
  <2>2. [s EXCEPT !.frame = g, !.mem = mem] = u
    BY DEF WithFrame
  <2> HIDE DEF u
  <2>3. [s EXCEPT !.frame = Reader(g, d, o).f,
                  !.mem = [i \in DOMAIN @ |-> IF i \in s.off .. s.off + s.left - 1
                                              THEN Reader(g, d, o).d[i - s.off + 1] ELSE @[i]]] = u
    BY <1>3, <2>1, <2>2, Zenon
  <2>4. QED
    BY <2>1, <2>3, Zenon DEF AfterFrame
<1>5. s \in SockType(N) /\ mem \in Memory(N)
  BY <1>1, <1>3
<1>6. /\ u \in SockType(N) /\ u.frame = g /\ u.mem = mem /\ u.off = s.off /\ u.left = s.left /\ u.pc = s.pc
      /\ u.status = s.status /\ u.toRecv = s.toRecv /\ u.hdr = s.hdr /\ u.split = s.split
      /\ u.early = s.early /\ u.frag = s.frag
  BY <1>5, FrameSet
<1> HIDE DEF u
<1>7. Fits(u, N)
  BY <1>1, <1>6 DEF Fits
<1>8. ASSUME NEW i \in 1 .. s.left PROVE Window(u)[i] = d[i]
  <2>1. s.off + i - 1 \in 0 .. N - 1 /\ s.off + i - 1 \in s.off .. s.off + s.left - 1
        /\ (s.off + i - 1) - s.off + 1 = i
    BY <1>1
  <2>2. mem[s.off + i - 1] = d[(s.off + i - 1) - s.off + 1]
    BY <1>2, <1>3, <2>1
  <2>3. Window(u)[i] = mem[s.off + i - 1]
    BY <1>6, <1>7, WindowFacts
  <2>4. QED
    BY <2>1, <2>2, <2>3
<1>9. o \in 0 .. u.left
  BY <1>6
<1>10. /\ Fits(t, N) /\ Kept(u, t) /\ t.pc = u.pc /\ t.toRecv = u.toRecv
       /\ t.off = u.off + o /\ t.left = u.left - o
       /\ \A i \in 1 .. u.left - o : Window(t)[i] = Window(u)[o + i]
  BY <1>7, <1>9, Consumed
<1> HIDE DEF t
<1>11. ASSUME NEW i \in 1 .. s.left - o PROVE Window(t)[i] = d[o + i]
  <2>1. o + i \in 1 .. s.left /\ i \in 1 .. u.left - o
    BY <1>1, <1>6
  <2>2. QED
    BY <1>8, <1>10, <2>1
<1>12. Turned(s, t, g, d, o, N)
  BY <1>6, <1>10, <1>11 DEF Turned, Kept
<1>13. QED
  BY <1>4, <1>12

-----------------------------------------------------------------------------
(* The steps of an end, as relations between its socket s before and t after *)

(* What a step of e that reads does to the other variables. *)
Handled(e, t, cb) ==
  /\ sock' = [sock EXCEPT ![e] = t] /\ got' = [got EXCEPT ![e] = @ \o cb]
  /\ shut' = shut \/ shut' = [shut EXCEPT ![e] = TRUE]
  /\ ready' = ready \/ ready' = [x \in End |-> TRUE]
  /\ wire' = wire /\ broken' = broken /\ conf' = conf /\ next' = next /\ buffer' = buffer /\ sent' = sent

(* A turn of Receive ends: what is left moves to the front, or is too much. *)
Compacted(e, s, t) ==
  /\ Moved(s, t, Length(e)) /\ t.pc = "recv"
  /\ Cls(e) # "DataSocketV" =>
       \/ t.off = 0 /\ t.toRecv = Length(e) - s.left
       \/ t.off = s.off /\ t.toRecv = s.toRecv /\ s.left > Length(e) \div 4

(* Only the pc changes. *)
Halts(e, s, t, pc) == Moved(s, t, Length(e)) /\ t.pc = pc /\ t.off = s.off /\ t.toRecv = s.toRecv

(* The first n bytes are read. *)
Takes(e, s, t, n) ==
  /\ Fits(t, Length(e)) /\ Kept(s, t) /\ t.pc = s.pc /\ t.toRecv = s.toRecv
  /\ n \in 0 .. s.left /\ t.off = s.off + n /\ t.left = s.left - n
  /\ \A i \in 1 .. s.left - n : Window(t)[i] = Window(s)[n + i]

RawWaits(e, s, t, cb) ==
  /\ Compacted(e, s, t) /\ cb = <<>>
  /\ s.left = 0 \/ (s.left >= 1 /\ Window(s)[1][1] = "sz" /\ Window(s)[1][3] > s.left)

RawStops(e, s, t, cb) ==
  /\ cb = <<>> /\ s.left >= 1
  /\ \/ Halts(e, s, t, "garbled") /\ Window(s)[1][1] # "sz"
     \/ Halts(e, s, t, "spinning") /\ Window(s)[1][1] = "sz" /\ Window(s)[1][3] = 0

RawTakes(e, s, t, cb) ==
  \E n \in 1 .. s.left :
    /\ Takes(e, s, t, n) /\ Window(s)[1][1] = "sz" /\ Window(s)[1][3] = n
    /\ cb = << [op |-> Binary, body |-> SubSeq(Window(s), 2, n)] >>

LEMMA HandleIs ==
  ASSUME NEW e \in End, NEW t, NEW stp \in BOOLEAN, NEW cb, Handle(e, t, stp, cb)
  PROVE  Handled(e, t, cb)
  BY DEF Handle, Handled, Shutdown

LEMMA SockOf ==
  ASSUME SocksType, conf \in Configs, NEW e \in End
  PROVE  /\ Fits(sock[e], Length(e)) /\ Length(e) \in Nat \ {0} /\ sock[e].left \in Nat /\ sock[e].off \in Nat
         /\ sock[e].off + sock[e].left <= Length(e) /\ sock[e] \in SockType(Length(e))
         /\ Window(sock[e]) \in Seq(AnyCell) /\ Len(Window(sock[e])) = sock[e].left
<1>1. Fits(sock[e], Length(e)) /\ Length(e) \in Nat \ {0}
  BY ConfFacts DEF SocksType, Fits
<1>2. sock[e] \in SockType(Length(e)) /\ sock[e].off + sock[e].left <= Length(e)
  BY <1>1 DEF Fits
<1>3. sock[e].left \in Nat /\ sock[e].off \in Nat
  BY <1>2, SockFacts
<1>4. QED
  BY <1>1, <1>2, <1>3, WindowFacts

LEMMA CompactIs ==
  ASSUME conf \in Configs, NEW e \in End, NEW s, Fits(s, Length(e))
  PROVE  Compacted(e, s, Compact(e, s))
  BY CompactFacts DEF Compacted

LEMMA HaltIs ==
  ASSUME conf \in Configs, NEW e \in End, NEW s, Fits(s, Length(e)), NEW pc \in Pcs
  PROVE  Halts(e, s, WithPc(s, pc), pc)
<1>1. Length(e) \in Nat
  BY ConfFacts
<1>2. QED
  BY <1>1, PcMoved DEF Halts

LEMMA TakeIs ==
  ASSUME conf \in Configs, NEW e \in End, NEW s, Fits(s, Length(e)), NEW n \in 0 .. s.left
  PROVE  Takes(e, s, updateForDataRead(s, n), n)
<1>1. Length(e) \in Nat
  BY ConfFacts
<1>2. QED
  BY <1>1, Consumed DEF Takes

LEMMA RawKinds ==
  ASSUME SocksType, conf \in Configs, NEW e \in End, ReadRaw(e)
  PROVE  /\ out' = out
         /\ \E t, cb : /\ Handled(e, t, cb)
                       /\ \/ RawWaits(e, sock[e], t, cb) \/ RawStops(e, sock[e], t, cb)
                          \/ RawTakes(e, sock[e], t, cb)
<1> DEFINE s == sock[e]
<1>1. Fits(s, Length(e)) /\ s.left \in Nat /\ Window(s) \in Seq(AnyCell) /\ Len(Window(s)) = s.left
      /\ Length(e) \in Nat
  BY SockOf
<1>2. s.left >= 1 => s.mem[s.off] = Window(s)[1]
  <2>1. s.off + 1 - 1 = s.off
    BY SockOf
  <2>2. QED
    BY <1>1, <2>1, WindowFacts
<1>3. out' = out
  BY DEF ReadRaw
<1>4. "garbled" \in Pcs /\ "spinning" \in Pcs
  BY DEF Pcs, Dead
<1>5. CASE s.left < 1 /\ Handle(e, Compact(e, s), FALSE, <<>>)
  <2>1. Handled(e, Compact(e, s), <<>>)
    BY <1>5, HandleIs
  <2>2. RawWaits(e, s, Compact(e, s), <<>>)
    BY <1>1, <1>5, CompactIs DEF RawWaits
  <2>3. QED
    BY <1>3, <2>1, <2>2
<1>6. CASE s.left >= 1 /\ s.mem[s.off][1] # "sz" /\ Handle(e, [s EXCEPT !.pc = "garbled"], FALSE, <<>>)
  <2>1. Handle(e, WithPc(s, "garbled"), FALSE, <<>>)
    BY <1>6 DEF WithPc
  <2>2. Handled(e, WithPc(s, "garbled"), <<>>)
    BY <2>1, HandleIs
  <2>3. Halts(e, s, WithPc(s, "garbled"), "garbled")
    BY <1>1, <1>4, HaltIs
  <2>4. RawStops(e, s, WithPc(s, "garbled"), <<>>)
    BY <1>2, <1>6, <2>3 DEF RawStops
  <2>5. QED
    BY <1>3, <2>2, <2>4
<1>7. CASE /\ s.left >= 1 /\ s.mem[s.off][1] = "sz"
           /\ readHeader(s) = 0 /\ Handle(e, [s EXCEPT !.pc = "spinning"], TRUE, <<>>)
  <2>1. Handle(e, WithPc(s, "spinning"), TRUE, <<>>)
    BY <1>7 DEF WithPc
  <2>2. Handled(e, WithPc(s, "spinning"), <<>>)
    BY <2>1, HandleIs
  <2>3. Halts(e, s, WithPc(s, "spinning"), "spinning")
    BY <1>1, <1>4, HaltIs
  <2>4. RawStops(e, s, WithPc(s, "spinning"), <<>>)
    BY <1>2, <1>7, <2>3 DEF RawStops, readHeader
  <2>5. QED
    BY <1>3, <2>2, <2>4
<1>8. CASE /\ s.left >= 1 /\ s.mem[s.off][1] = "sz"
           /\ readHeader(s) > s.left /\ Handle(e, Compact(e, s), FALSE, <<>>)
  <2>1. Handled(e, Compact(e, s), <<>>)
    BY <1>8, HandleIs
  <2>2. RawWaits(e, s, Compact(e, s), <<>>)
    BY <1>1, <1>2, <1>8, CompactIs DEF RawWaits, readHeader
  <2>3. QED
    BY <1>3, <2>1, <2>2
<1>9. CASE /\ s.left >= 1 /\ s.mem[s.off][1] = "sz" /\ readHeader(s) > 0 /\ readHeader(s) <= s.left
           /\ Handle(e, updateForDataRead(s, readHeader(s)), FALSE, <<readMessage(s, readHeader(s))>>)
  <2>1. PICK n \in 1 .. s.left : n = readHeader(s)
    <3>1. Window(s)[1] \in AnyCell
      BY <1>1, <1>9, ElementOfSeq
    <3>2. readHeader(s) \in Nat
      BY <1>2, <1>9, <3>1, CellFacts DEF readHeader
    <3>3. QED
      BY <1>1, <1>9, <3>2
  <2>2. Handle(e, updateForDataRead(s, n), FALSE, <<readMessage(s, n)>>)
    BY <1>9, <2>1
  <2>3. Handled(e, updateForDataRead(s, n), <<readMessage(s, n)>>)
    BY <2>2, HandleIs
  <2>4. n \in 0 .. s.left
    BY <1>1, <2>1
  <2>5. Takes(e, s, updateForDataRead(s, n), n)
    BY <1>1, <2>4, TakeIs
  <2>6. RawTakes(e, s, updateForDataRead(s, n), <<readMessage(s, n)>>)
    BY <1>2, <1>9, <2>1, <2>5 DEF RawTakes, readMessage, readHeader
  <2>7. QED
    BY <1>3, <2>3, <2>6
<1>10. QED
  BY <1>5, <1>6, <1>7, <1>8, <1>9 DEF ReadRaw

FrameWaits(e, s, t, cb) ==
  /\ Compacted(e, s, t) /\ cb = <<>> /\ s.frame.st # "Done"
  /\ s.left = 0 \/ Waits(s.frame, Window(s))

FrameStops(e, s, t, cb) ==
  Halts(e, s, t, "garbled") /\ cb = <<>> /\ s.frame.st # "Done" /\ Misreads(s.frame, Window(s))

FrameReads(e, s, t, cb) ==
  /\ cb = <<>> /\ s.frame.st # "Done"
  /\ \E g, d, o : Turned(s, t, g, d, o, Length(e)) /\ Reads(s.frame, Window(s), g, d, o)

FrameStays(e, s, t, cb) ==
  /\ cb = <<>> /\ s.frame.st = "Done"
  /\ \E u, g, r : /\ Turned(s, u, g, Window(s), 0, Length(e)) /\ Compacted(e, u, t)
                  /\ g \in FrameType /\ FrameOK(g) /\ TurnStays(s.frame, r, g, 0)

FrameEnds(e, s, t, cb) ==
  /\ s.frame.st = "Done"
  /\ \E g, r : /\ Turned(s, t, g, Window(s), s.frame.length, Length(e))
               /\ g \in FrameType /\ FrameOK(g) /\ r.cb = cb
               /\ TurnEnds(s.frame, Window(s), r, g, s.frame.length)

(* What holds of the frame of a socket. *)
FrameFits(s) == FrameOK(s.frame) /\ (s.frame.st = "Done" => s.frame.length <= s.left)

LEMMA FrameKinds ==
  ASSUME SocksType, conf \in Configs, NEW e \in End, FrameFits(sock[e]), ReadFrames(e)
  PROVE  /\ out' = out
         /\ \E t, cb : /\ Handled(e, t, cb)
                       /\ \/ FrameWaits(e, sock[e], t, cb) \/ FrameStops(e, sock[e], t, cb)
                          \/ FrameReads(e, sock[e], t, cb) \/ FrameStays(e, sock[e], t, cb)
                          \/ FrameEnds(e, sock[e], t, cb)
<1> DEFINE s == sock[e]
           f == s.frame
           W == Window(s)
<1>1. /\ Fits(s, Length(e)) /\ s.left \in Nat /\ W \in Seq(AnyCell) /\ Len(W) = s.left
      /\ Length(e) \in Nat /\ s \in SockType(Length(e))
  BY SockOf
<1>2. f \in FrameType /\ FrameOK(f) /\ (f.st = "Done" => f.length <= s.left) /\ f.length \in Nat /\ f.st \in Sts
  BY <1>1, SockFacts, FrameFields DEF FrameFits
<1>3. out' = out
  BY DEF ReadFrames
<1>4. CASE f.st # "Done" /\ s.left = 0 /\ FramesRead(e, s)
  <2>1. Handled(e, Compact(e, s), <<>>)
    BY <1>4, HandleIs DEF FramesRead
  <2>2. FrameWaits(e, s, Compact(e, s), <<>>)
    BY <1>1, <1>4, CompactIs DEF FrameWaits
  <2>3. QED
    BY <1>3, <2>1, <2>2
<1>5. ASSUME NEW tooBig \in BOOLEAN, NEW r, r = readFrame(Reader(f, W, 0), tooBig), f.st # "Done",
             CASE r.f.st = "Garbled" -> Handle(e, [s EXCEPT !.pc = "garbled"], FALSE, <<>>)
               [] r.f.st = f.st      -> FramesRead(e, s)
               [] OTHER              -> Handle(e, AfterFrame(s, r), FALSE, <<>>)
      PROVE  \E t, cb : /\ Handled(e, t, cb)
                        /\ \/ FrameWaits(e, s, t, cb) \/ FrameStops(e, s, t, cb) \/ FrameReads(e, s, t, cb)
  <2>1. Read(f, W, r)
    BY <1>1, <1>2, <1>5, ReadFrameFacts
  <2>2. f.st # "Garbled"
    BY <1>2 DEF Sts
  <2>3. CASE r.f.st = "Garbled" /\ Misreads(f, W)
    <3>1. Handle(e, WithPc(s, "garbled"), FALSE, <<>>)
      BY <1>5, <2>2, <2>3 DEF WithPc
    <3>2. Handled(e, WithPc(s, "garbled"), <<>>)
      BY <3>1, HandleIs
    <3>3. "garbled" \in Pcs
      BY DEF Pcs, Dead
    <3>4. Halts(e, s, WithPc(s, "garbled"), "garbled")
      BY <1>1, <3>3, HaltIs
    <3>5. FrameStops(e, s, WithPc(s, "garbled"), <<>>)
      BY <1>5, <2>3, <3>4 DEF FrameStops
    <3>6. QED
      BY <3>2, <3>5
  <2>4. CASE r.f.st = f.st /\ Waits(f, W)
    <3>1. FramesRead(e, s)
      BY <1>5, <2>2, <2>4
    <3>2. Handled(e, Compact(e, s), <<>>)
      BY <3>1, HandleIs DEF FramesRead
    <3>3. FrameWaits(e, s, Compact(e, s), <<>>)
      BY <1>1, <1>5, <2>4, CompactIs DEF FrameWaits
    <3>4. QED
      BY <3>2, <3>3
  <2>5. CASE \E g, d, o : r = Reader(g, d, o) /\ Reads(f, W, g, d, o)
    <3>1. PICK g, d, o : r = Reader(g, d, o) /\ Reads(f, W, g, d, o)
      BY <2>5
    <3>2. g \in FrameType /\ d \in Seq(AnyCell) /\ Len(d) = s.left /\ o \in 0 .. s.left /\ g.st # f.st
      BY <1>1, <3>1 DEF Reads
    <3>3. r.f.st = g.st /\ g.st # "Garbled"
      BY <3>1, <3>2, ReaderFields, FrameFields DEF Sts
    <3>4. Handle(e, AfterFrame(s, r), FALSE, <<>>)
      BY <1>5, <3>2, <3>3
    <3>5. Handled(e, AfterFrame(s, Reader(g, d, o)), <<>>)
      BY <3>1, <3>4, HandleIs
    <3>6. Turned(s, AfterFrame(s, Reader(g, d, o)), g, d, o, Length(e))
      BY <1>1, <3>2, AfterFrameFacts
    <3>7. FrameReads(e, s, AfterFrame(s, Reader(g, d, o)), <<>>)
      BY <1>5, <3>1, <3>6 DEF FrameReads
    <3>8. QED
      BY <3>5, <3>7
  <2>6. QED
    BY <2>1, <2>3, <2>4, <2>5 DEF Read
<1>6. ASSUME NEW m, m = processMessage(Reader(f, W, 0), MaxMessageSize), f.st = "Done",
             IF m.returns THEN FramesRead(e, AfterFrame(s, m.r))
             ELSE Handle(e, AfterFrame(s, m.r), FALSE, m.cb)
      PROVE  \E t, cb : Handled(e, t, cb) /\ (FrameStays(e, s, t, cb) \/ FrameEnds(e, s, t, cb))
  <2>1. Turns(f, W, m)
    <3>1. MaxMessageSize \in Nat
      BY MessageAssumption
    <3>2. QED
      BY <1>1, <1>2, <1>6, <3>1, ProcessFacts
  <2>2. PICK g \in FrameType, o \in {0, f.length} :
          /\ m.r = Reader(g, W, o) /\ FrameOK(g)
          /\ TurnStays(f, m, g, o) \/ TurnEnds(f, W, m, g, o)
    BY <2>1 DEF Turns
  <2>3. o \in 0 .. s.left
    BY <1>1, <1>2, <1>6, <2>2
  <2> DEFINE u == AfterFrame(s, Reader(g, W, o))
  <2>4. Turned(s, u, g, W, o, Length(e))
    BY <1>1, <2>2, <2>3, AfterFrameFacts
  <2>5. CASE TurnStays(f, m, g, o)
    <3>1. FramesRead(e, u) /\ o = 0
      BY <1>6, <2>2, <2>5 DEF TurnStays
    <3> HIDE DEF u
    <3>2. Handled(e, Compact(e, u), <<>>)
      BY <3>1, HandleIs DEF FramesRead
    <3>3. Fits(u, Length(e))
      BY <2>4 DEF Turned
    <3>4. Compacted(e, u, Compact(e, u))
      BY <3>3, CompactIs
    <3>5. FrameStays(e, s, Compact(e, u), <<>>)
      BY <1>6, <2>2, <2>4, <2>5, <3>1, <3>4 DEF FrameStays
    <3>6. QED
      BY <3>2, <3>5
  <2>6. CASE TurnEnds(f, W, m, g, o)
    <3>1. Handle(e, u, FALSE, m.cb) /\ o = f.length
      BY <1>6, <2>2, <2>6 DEF TurnEnds
    <3> HIDE DEF u
    <3>2. Handled(e, u, m.cb)
      BY <3>1, HandleIs
    <3>3. FrameEnds(e, s, u, m.cb)
      BY <1>6, <2>2, <2>4, <2>6, <3>1 DEF FrameEnds
    <3>4. QED
      BY <3>2, <3>3
  <2>7. QED
    BY <2>2, <2>5, <2>6
<1>7. QED
  BY <1>3, <1>4, <1>5, <1>6 DEF ReadFrames

(* A set of numbers has a least one. *)
LEMMA LeastOf ==
  ASSUME NEW T \in SUBSET Nat, T # {}
  PROVE  Min(T) \in T /\ \A y \in T : Min(T) <= y
<1> DEFINE R == OpToRel(<, Nat)
<1>1. IsWellFoundedOn(R, Nat)
  BY NatLessThanWellFounded
<1>2. PICK x \in T : \A y \in T : ~(<<y, x>> \in R)
  <2> HIDE DEF R
  <2>1. QED
    BY <1>1, WFMin
<1>3. ASSUME NEW y \in T PROVE x <= y
  <2>1. x \in Nat /\ y \in Nat
    OBVIOUS
  <2>2. ASSUME y < x PROVE <<y, x>> \in R
    BY <2>1, <2>2 DEF OpToRel
  <2> HIDE DEF R
  <2>3. ~(y < x)
    BY <1>2, <2>2
  <2>4. QED
    BY <2>1, <2>3
<1>4. QED
  BY <1>2, <1>3 DEF Min

-----------------------------------------------------------------------------
(* Reading an upgrade header *)

(* The socket has been looked at: only what is remembered of it changes. *)
Looked(e, s, u) ==
  /\ Fits(u, Length(e)) /\ u.pc = s.pc /\ u.status = s.status /\ u.off = s.off /\ u.left = s.left
  /\ u.toRecv = s.toRecv /\ u.frame = s.frame /\ u.early = s.early /\ u.frag = s.frag
  /\ u.split = (s.split \/ s.hdr # 0) /\ Window(u) = Window(s)

Whole(s) == s.hdr = 0 /\ EmptyLines(s) # {} /\ SubSeq(Window(s), 1, HeaderEnd(s)) = Header

UpgradeWaits(e, s, t, cb) ==
  /\ EmptyLines(s) = {} /\ cb = <<>> /\ \E u : Looked(e, s, u) /\ Compacted(e, u, t)

UpgradeStops(e, s, t, cb) ==
  /\ cb = <<>>
  /\ \E u : /\ Looked(e, s, u)
            /\ \/ s.hdr # 0 /\ Halts(e, u, t, "crashed")
               \/ s.hdr = 0 /\ EmptyLines(s) # {} /\ ~Whole(s) /\ Halts(e, u, t, "garbled")

UpgradeRefused(e, s, t, cb) ==
  Whole(s) /\ cb = <<>> /\ \E u : Looked(e, s, u) /\ Compacted(e, u, t)

(* The header is read and the socket is open. *)
Opened(e, s, t, status) ==
  /\ Whole(s) /\ HeaderEnd(s) \in 1 .. s.left
  /\ \E u, v : /\ Looked(e, s, u) /\ Takes(e, u, v, HeaderEnd(s))
               /\ Fits(t, Length(e)) /\ t.status = status /\ t.hdr = 0
               /\ t.pc = v.pc /\ t.off = v.off /\ t.left = v.left /\ t.toRecv = v.toRecv /\ t.frame = v.frame
               /\ t.split = v.split /\ t.early = v.early /\ t.frag = v.frag /\ Window(t) = Window(v)

(* The transport an end opens with. *)
Proper(e) ==
  IF e = "client" THEN Transport(Response.upgrade)
  ELSE IF Cls(e) = "WebSocket" THEN "WebSocket" ELSE Transport(Request.upgrade)

(* The other end would open. *)
Accepts(e) ==
  IF e = "client" THEN readServerResponse(Response, generateKey) ELSE Response # NoResponse

UpgradeOpens(e, s, t, cb) ==
  /\ Opened(e, s, t, Proper(e)) /\ Accepts(e) /\ cb = <<>>
  /\ out' = IF e = "client" THEN out ELSE [out EXCEPT ![e] = StartSend(@, <<Header>>, How(e))]

Upgrades(e, t, cb) ==
  \/ /\ out' = out
     /\ \/ UpgradeWaits(e, sock[e], t, cb) \/ UpgradeStops(e, sock[e], t, cb)
        \/ ~Accepts(e) /\ UpgradeRefused(e, sock[e], t, cb)
  \/ UpgradeOpens(e, sock[e], t, cb)

(* The socket as ReadUpgrade looks at it, and with the offset it remembers. *)
Seen0(e) == WithSplit(sock[e], sock[e].split \/ sock[e].hdr # 0)
Seen1(e) ==
  WithHdr(Seen0(e), IF EmptyLines(Seen0(e)) # {} THEN HeaderEnd(Seen0(e))
                    ELSE IF Lines(Seen0(e)) = {} THEN Seen0(e).hdr ELSE Max(Lines(Seen0(e))) + 1)

LEMMA LinesFacts ==
  ASSUME SocksType, conf \in Configs, NEW e \in End
  PROVE  /\ Lines(Seen0(e)) = Lines(sock[e]) /\ EmptyLines(Seen0(e)) = EmptyLines(sock[e])
         /\ Seen0(e).hdr = sock[e].hdr /\ Seen0(e).toRecv = sock[e].toRecv
         /\ Window(Seen0(e)) = Window(sock[e]) /\ HeaderEnd(Seen0(e)) = HeaderEnd(sock[e])
         /\ Looked(e, sock[e], Seen1(e))
         /\ EmptyLines(sock[e]) # {} =>
              HeaderEnd(sock[e]) \in 1 .. sock[e].left /\ Seen1(e).hdr = HeaderEnd(sock[e])
<1> DEFINE s == sock[e]
           a == s.split \/ s.hdr # 0
           u == Seen0(e)
           N == Length(e)
<1>1. Fits(s, N) /\ N \in Nat \ {0} /\ s \in SockType(N) /\ s.left \in Nat /\ s.off + s.left <= N
  BY SockOf
<1>2. s.hdr \in Nat /\ a \in BOOLEAN
  BY <1>1, SockFacts
<1> HIDE DEF a
<1>3. /\ u \in SockType(N) /\ u.split = a /\ u.status = s.status /\ u.off = s.off /\ u.left = s.left
      /\ u.toRecv = s.toRecv /\ u.mem = s.mem /\ u.hdr = s.hdr /\ u.frame = s.frame /\ u.pc = s.pc
      /\ u.early = s.early /\ u.frag = s.frag
  BY <1>1, <1>2, SplitSet DEF Seen0, a
<1> HIDE DEF u
<1>4. Lines(u) = Lines(s)
  BY <1>3 DEF Lines
<1>5. EmptyLines(u) = EmptyLines(s)
  BY <1>3, <1>4 DEF EmptyLines
<1>6. HeaderEnd(u) = HeaderEnd(s)
  BY <1>5 DEF HeaderEnd
<1>7. Window(u) = Window(s)
  BY <1>3 DEF Window
<1>8. Lines(s) \in SUBSET (0 .. s.left) /\ EmptyLines(s) \in SUBSET Lines(s)
      /\ \A p \in Lines(s) : p \in Nat /\ p <= s.left - 1
  BY <1>1, <1>2 DEF Lines, EmptyLines
<1>9. ASSUME EmptyLines(s) # {} PROVE HeaderEnd(s) \in 1 .. s.left
  <2>1. EmptyLines(s) \in SUBSET Nat
    BY <1>8
  <2>2. Min(EmptyLines(s)) \in EmptyLines(s)
    BY <1>9, <2>1, LeastOf
  <2>3. QED
    BY <1>1, <1>8, <2>2 DEF HeaderEnd
<1> DEFINE h == IF EmptyLines(s) # {} THEN HeaderEnd(s) ELSE IF Lines(s) = {} THEN s.hdr ELSE Max(Lines(s)) + 1
<1>10. h \in Nat
  <2>1. CASE EmptyLines(s) # {}
    BY <1>1, <1>9, <2>1
  <2>2. CASE EmptyLines(s) = {} /\ Lines(s) = {}
    BY <1>2, <2>2
  <2>3. CASE EmptyLines(s) = {} /\ Lines(s) # {}
    <3>1. Max(Lines(s)) \in Lines(s)
      BY <1>1, <1>8, <2>3, GreatestOf
    <3>2. QED
      BY <1>8, <2>3, <3>1
  <2>4. QED
    BY <2>1, <2>2, <2>3
<1>11. Seen1(e) = WithHdr(u, h)
  BY <1>3, <1>4, <1>5, <1>6 DEF Seen1, u
<1> DEFINE v == WithHdr(u, h)
<1> HIDE DEF h
<1>12. /\ v \in SockType(N) /\ v.split = u.split /\ v.status = u.status /\ v.off = u.off /\ v.left = u.left
       /\ v.toRecv = u.toRecv /\ v.mem = u.mem /\ v.hdr = h /\ v.frame = u.frame /\ v.pc = u.pc
       /\ v.early = u.early /\ v.frag = u.frag
  BY <1>3, <1>10, HdrSet
<1> HIDE DEF v
<1>13. Window(v) = Window(s)
  BY <1>3, <1>12 DEF Window
<1>14. Fits(v, N)
  BY <1>1, <1>3, <1>12 DEF Fits
<1>15. Looked(e, s, v)
  BY <1>3, <1>12, <1>13, <1>14 DEF Looked, a
<1>16. EmptyLines(s) # {} => HeaderEnd(s) \in 1 .. s.left /\ v.hdr = HeaderEnd(s)
  BY <1>9, <1>12 DEF h
<1>17. QED
  BY <1>3, <1>4, <1>5, <1>6, <1>7, <1>11, <1>15, <1>16 DEF u, v

LEMMA StatusMoved ==
  ASSUME NEW N \in Nat, NEW s, Fits(s, N), NEW status \in Status
  PROVE  /\ Fits(WithStatus(s, status), N) /\ Window(WithStatus(s, status)) = Window(s)
         /\ WithStatus(s, status).status = status /\ WithStatus(s, status).hdr = 0
         /\ WithStatus(s, status).pc = s.pc /\ WithStatus(s, status).off = s.off
         /\ WithStatus(s, status).left = s.left /\ WithStatus(s, status).toRecv = s.toRecv
         /\ WithStatus(s, status).frame = s.frame /\ WithStatus(s, status).split = s.split
         /\ WithStatus(s, status).early = s.early /\ WithStatus(s, status).frag = s.frag
<1> DEFINE t == WithStatus(s, status)
<1>1. s \in SockType(N) /\ s.off + s.left <= N
  BY DEF Fits
<1>2. /\ t \in SockType(N) /\ t.status = status /\ t.hdr = 0 /\ t.off = s.off /\ t.left = s.left
      /\ t.toRecv = s.toRecv /\ t.mem = s.mem /\ t.pc = s.pc /\ t.frame = s.frame /\ t.split = s.split
      /\ t.early = s.early /\ t.frag = s.frag
  BY <1>1, StatusSet
<1> HIDE DEF t
<1>3. Fits(t, N) /\ Window(t) = Window(s)
  BY <1>1, <1>2 DEF Fits, Window
<1>4. QED
  BY <1>2, <1>3 DEF t

LEMMA OpenIs ==
  ASSUME SocksType, conf \in Configs, NEW e \in End, Whole(sock[e]), NEW status \in Status
  PROVE  Opened(e, sock[e], WithStatus(updateForDataRead(Seen1(e), Seen1(e).hdr), status), status)
<1> DEFINE s == sock[e]
           u == Seen1(e)
           n == HeaderEnd(s)
           v == updateForDataRead(u, n)
<1>1. Looked(e, s, u) /\ n \in 1 .. s.left /\ u.hdr = n /\ Length(e) \in Nat /\ s.left \in Nat
  BY LinesFacts, SockOf DEF Whole
<1> HIDE DEF n, u
<1>2. Fits(u, Length(e)) /\ u.left = s.left
  BY <1>1 DEF Looked
<1>3. n \in 0 .. u.left
  BY <1>1, <1>2
<1>4. Takes(e, u, v, n)
  BY <1>2, <1>3, TakeIs
<1> HIDE DEF v
<1>5. Fits(v, Length(e))
  BY <1>4 DEF Takes
<1>6. /\ Fits(WithStatus(v, status), Length(e)) /\ Window(WithStatus(v, status)) = Window(v)
      /\ WithStatus(v, status).status = status /\ WithStatus(v, status).hdr = 0
      /\ WithStatus(v, status).pc = v.pc /\ WithStatus(v, status).off = v.off
      /\ WithStatus(v, status).left = v.left /\ WithStatus(v, status).toRecv = v.toRecv
      /\ WithStatus(v, status).frame = v.frame /\ WithStatus(v, status).split = v.split
      /\ WithStatus(v, status).early = v.early /\ WithStatus(v, status).frag = v.frag
  BY <1>1, <1>5, StatusMoved
<1>7. Opened(e, s, WithStatus(v, status), status)
  BY <1>1, <1>4, <1>6 DEF Opened, n
<1>8. v = updateForDataRead(Seen1(e), Seen1(e).hdr)
  BY <1>1 DEF v, u
<1>9. QED
  BY <1>7, <1>8

(* What ReadUpgrade does before a header is accepted. *)
UpgradeUnread(e) ==
  \/ /\ EmptyLines(Seen0(e)) = {}
     /\ Handle(e, Compact(e, Seen1(e)), Seen0(e).toRecv = 0, <<>>) /\ out' = out
  \/ /\ EmptyLines(Seen0(e)) # {} /\ Seen0(e).hdr # 0
     /\ Handle(e, WithPc(Seen1(e), "crashed"), FALSE, <<>>) /\ out' = out
  \/ /\ EmptyLines(Seen0(e)) # {} /\ Seen0(e).hdr = 0
     /\ SubSeq(Window(Seen0(e)), 1, HeaderEnd(Seen0(e))) # Header
     /\ Handle(e, WithPc(Seen1(e), "garbled"), FALSE, <<>>) /\ out' = out

UpgradeRead(e) ==
  /\ EmptyLines(Seen0(e)) # {} /\ Seen0(e).hdr = 0
  /\ SubSeq(Window(Seen0(e)), 1, HeaderEnd(Seen0(e))) = Header

LEMMA UnreadKinds ==
  ASSUME SocksType, conf \in Configs, NEW e \in End, UpgradeUnread(e)
  PROVE  \E t, cb : Handled(e, t, cb) /\ out' = out
                    /\ (UpgradeWaits(e, sock[e], t, cb) \/ UpgradeStops(e, sock[e], t, cb))
<1> DEFINE s == sock[e]
           u == Seen0(e)
           v == Seen1(e)
<1>1. /\ EmptyLines(u) = EmptyLines(s) /\ u.hdr = s.hdr /\ u.toRecv = s.toRecv
      /\ Window(u) = Window(s) /\ HeaderEnd(u) = HeaderEnd(s) /\ Looked(e, s, v)
  BY LinesFacts
<1>2. Fits(v, Length(e))
  BY <1>1 DEF Looked
<1>3. "crashed" \in Pcs /\ "garbled" \in Pcs
  BY DEF Pcs, Dead
<1> HIDE DEF u, v
<1>4. CASE EmptyLines(u) = {} /\ Handle(e, Compact(e, v), u.toRecv = 0, <<>>) /\ out' = out
  <2>1. Handled(e, Compact(e, v), <<>>)
    BY <1>4, HandleIs
  <2>2. UpgradeWaits(e, s, Compact(e, v), <<>>)
    BY <1>1, <1>2, <1>4, CompactIs DEF UpgradeWaits
  <2>3. QED
    BY <1>4, <2>1, <2>2
<1>5. CASE EmptyLines(u) # {} /\ u.hdr # 0 /\ Handle(e, WithPc(v, "crashed"), FALSE, <<>>) /\ out' = out
  <2>1. Handled(e, WithPc(v, "crashed"), <<>>)
    BY <1>5, HandleIs
  <2>2. Halts(e, v, WithPc(v, "crashed"), "crashed")
    BY <1>2, <1>3, HaltIs
  <2>3. UpgradeStops(e, s, WithPc(v, "crashed"), <<>>)
    BY <1>1, <1>5, <2>2 DEF UpgradeStops
  <2>4. QED
    BY <1>5, <2>1, <2>3
<1>6. CASE /\ EmptyLines(u) # {} /\ u.hdr = 0 /\ SubSeq(Window(u), 1, HeaderEnd(u)) # Header
           /\ Handle(e, WithPc(v, "garbled"), FALSE, <<>>) /\ out' = out
  <2>1. Handled(e, WithPc(v, "garbled"), <<>>)
    BY <1>6, HandleIs
  <2>2. Halts(e, v, WithPc(v, "garbled"), "garbled")
    BY <1>2, <1>3, HaltIs
  <2>3. UpgradeStops(e, s, WithPc(v, "garbled"), <<>>)
    BY <1>1, <1>6, <2>2 DEF UpgradeStops, Whole
  <2>4. QED
    BY <1>6, <2>1, <2>3
<1>7. QED
  BY <1>4, <1>5, <1>6 DEF UpgradeUnread, u, v

LEMMA ReadIs ==
  ASSUME SocksType, conf \in Configs, NEW e \in End, UpgradeRead(e)
  PROVE  Whole(sock[e])
  BY LinesFacts DEF UpgradeRead, Whole

LEMMA UpgradeSplit ==
  ASSUME NEW e \in End
  PROVE  /\ HBProcessHandshake(e) =>
              UpgradeUnread(e) \/ (UpgradeRead(e) /\ Answer(e, Seen1(e), Transport(Request.upgrade)))
         /\ WSProcessHandshake(e) =>
              UpgradeUnread(e) \/ (UpgradeRead(e) /\ Answer(e, Seen1(e), "WebSocket"))
         /\ processServerReply(e) =>
              \/ UpgradeUnread(e)
              \/ /\ UpgradeRead(e) /\ out' = out
                 /\ \/ /\ readServerResponse(Response, generateKey)
                       /\ Handle(e, WithStatus(updateForDataRead(Seen1(e), Seen1(e).hdr),
                                               Transport(Response.upgrade)), FALSE, <<>>)
                    \/ /\ ~readServerResponse(Response, generateKey)
                       /\ Handle(e, Compact(e, Seen1(e)), TRUE, <<>>)
<1>1. HBProcessHandshake(e) =>
        UpgradeUnread(e) \/ (UpgradeRead(e) /\ Answer(e, Seen1(e), Transport(Request.upgrade)))
  BY DEF HBProcessHandshake, ReadUpgrade, UpgradeUnread, UpgradeRead, WithPc, Seen1, Seen0, WithHdr, WithSplit
<1>2. WSProcessHandshake(e) =>
        UpgradeUnread(e) \/ (UpgradeRead(e) /\ Answer(e, Seen1(e), "WebSocket"))
  BY DEF WSProcessHandshake, ReadUpgrade, UpgradeUnread, UpgradeRead, WithPc, Seen1, Seen0, WithHdr, WithSplit
<1>3. processServerReply(e) =>
        \/ UpgradeUnread(e)
        \/ /\ UpgradeRead(e) /\ out' = out
           /\ \/ /\ readServerResponse(Response, generateKey)
                 /\ Handle(e, WithStatus(updateForDataRead(Seen1(e), Seen1(e).hdr),
                                         Transport(Response.upgrade)), FALSE, <<>>)
              \/ /\ ~readServerResponse(Response, generateKey)
                 /\ Handle(e, Compact(e, Seen1(e)), TRUE, <<>>)
  BY DEF processServerReply, ReadUpgrade, UpgradeUnread, UpgradeRead, WithPc, Seen1, Seen0, WithHdr, WithSplit, WithStatus
<1>4. QED
  BY <1>1, <1>2, <1>3

(* The reading of an upgrade header, by class. *)
UpgradeStep(e) ==
  \/ e = "client" /\ processServerReply(e)
  \/ e = "server" /\ Cls(e) = "HBDataSocket" /\ HBProcessHandshake(e)
  \/ e = "server" /\ Cls(e) = "WebSocket" /\ WSProcessHandshake(e)

LEMMA TransportStatus ==
  ASSUME NEW up
  PROVE  Transport(up) \in Status
  BY DEF Transport, Status

LEMMA AnswerKinds ==
  ASSUME SocksType, conf \in Configs, NEW e \in End, Whole(sock[e]), NEW status \in Status, e # "client",
         status = Proper(e), Answer(e, Seen1(e), status)
  PROVE  \E t, cb : Handled(e, t, cb) /\ Upgrades(e, t, cb)
<1>1. Looked(e, sock[e], Seen1(e))
  BY LinesFacts
<1>2. Fits(Seen1(e), Length(e))
  BY <1>1 DEF Looked
<1>3. CASE Response = NoResponse
  <2>1. Handle(e, Compact(e, Seen1(e)), TRUE, <<>>) /\ out' = out
    BY <1>3 DEF Answer
  <2>2. Handled(e, Compact(e, Seen1(e)), <<>>)
    BY <2>1, HandleIs
  <2>3. UpgradeRefused(e, sock[e], Compact(e, Seen1(e)), <<>>)
    BY <1>1, <1>2, CompactIs DEF UpgradeRefused
  <2>4. QED
    BY <1>3, <2>1, <2>2, <2>3 DEF Upgrades, Accepts
<1>4. CASE Response # NoResponse
  <2> DEFINE t == WithStatus(updateForDataRead(Seen1(e), Seen1(e).hdr), status)
  <2>1. Handle(e, t, FALSE, <<>>) /\ out' = [out EXCEPT ![e] = StartSend(@, <<Header>>, How(e))]
    BY <1>4 DEF Answer, WithStatus
  <2>2. Opened(e, sock[e], t, status)
    BY OpenIs
  <2> HIDE DEF t
  <2>3. Handled(e, t, <<>>)
    BY <2>1, HandleIs
  <2>4. UpgradeOpens(e, sock[e], t, <<>>)
    BY <1>4, <2>1, <2>2 DEF UpgradeOpens, Accepts
  <2>5. QED
    BY <2>3, <2>4 DEF Upgrades
<1>5. QED
  BY <1>3, <1>4

LEMMA UpgradeKinds ==
  ASSUME SocksType, conf \in Configs, NEW e \in End, UpgradeStep(e)
  PROVE  \E t, cb : Handled(e, t, cb) /\ Upgrades(e, t, cb)
<1>1. CASE UpgradeUnread(e)
  BY <1>1, UnreadKinds DEF Upgrades
<1>2. CASE ~UpgradeUnread(e) /\ e = "client" /\ processServerReply(e)
  <2>1. /\ UpgradeRead(e) /\ out' = out
        /\ \/ /\ readServerResponse(Response, generateKey)
              /\ Handle(e, WithStatus(updateForDataRead(Seen1(e), Seen1(e).hdr),
                                      Transport(Response.upgrade)), FALSE, <<>>)
           \/ /\ ~readServerResponse(Response, generateKey)
              /\ Handle(e, Compact(e, Seen1(e)), TRUE, <<>>)
    BY <1>2, UpgradeSplit
  <2>2. Whole(sock[e]) /\ Looked(e, sock[e], Seen1(e))
    BY <2>1, ReadIs, LinesFacts
  <2>3. Fits(Seen1(e), Length(e))
    BY <2>2 DEF Looked
  <2>4. CASE readServerResponse(Response, generateKey)
    <3>1. PICK status \in Status : status = Transport(Response.upgrade)
      BY TransportStatus
    <3>2. Proper(e) = status
      BY <1>2, <3>1 DEF Proper
    <3> DEFINE t == WithStatus(updateForDataRead(Seen1(e), Seen1(e).hdr), status)
    <3>3. Handle(e, t, FALSE, <<>>)
      BY <2>1, <2>4, <3>1
    <3>4. Opened(e, sock[e], t, status)
      BY <2>2, <3>1, OpenIs
    <3> HIDE DEF t
    <3>5. Handled(e, t, <<>>)
      BY <3>3, HandleIs
    <3>6. UpgradeOpens(e, sock[e], t, <<>>)
      BY <1>2, <2>1, <2>4, <3>2, <3>4 DEF UpgradeOpens, Accepts
    <3>7. QED
      BY <3>5, <3>6 DEF Upgrades
  <2>5. CASE ~readServerResponse(Response, generateKey)
    <3>1. Handle(e, Compact(e, Seen1(e)), TRUE, <<>>)
      BY <2>1, <2>5
    <3>2. Handled(e, Compact(e, Seen1(e)), <<>>)
      BY <3>1, HandleIs
    <3>3. UpgradeRefused(e, sock[e], Compact(e, Seen1(e)), <<>>)
      BY <2>2, <2>3, CompactIs DEF UpgradeRefused
    <3>4. QED
      BY <1>2, <2>1, <2>5, <3>2, <3>3 DEF Upgrades, Accepts
  <2>6. QED
    BY <2>4, <2>5
<1>3. CASE ~UpgradeUnread(e) /\ e = "server" /\ Cls(e) = "HBDataSocket" /\ HBProcessHandshake(e)
  <2>1. UpgradeRead(e) /\ Answer(e, Seen1(e), Transport(Request.upgrade))
    BY <1>3, UpgradeSplit
  <2>2. PICK status \in Status : status = Transport(Request.upgrade)
    BY TransportStatus
  <2>3. status = Proper(e) /\ e # "client" /\ Answer(e, Seen1(e), status)
    BY <1>3, <2>1, <2>2 DEF Proper
  <2>4. Whole(sock[e]) /\ status \in Status
    BY <2>1, <2>2, ReadIs
  <2>5. QED
    BY <2>3, <2>4, AnswerKinds
<1>4. CASE ~UpgradeUnread(e) /\ e = "server" /\ Cls(e) = "WebSocket" /\ WSProcessHandshake(e)
  <2>1. UpgradeRead(e) /\ Answer(e, Seen1(e), "WebSocket")
    BY <1>4, UpgradeSplit
  <2>2. PICK status \in Status : status = "WebSocket"
    BY DEF Status
  <2>3. status = Proper(e) /\ e # "client" /\ Answer(e, Seen1(e), status)
    BY <1>4, <2>1, <2>2 DEF Proper
  <2>4. Whole(sock[e]) /\ status \in Status
    BY <2>1, <2>2, ReadIs
  <2>5. QED
    BY <2>3, <2>4, AnswerKinds
<1>5. QED
  BY <1>1, <1>2, <1>3, <1>4 DEF UpgradeStep

-----------------------------------------------------------------------------
(* The send loops *)

LEMMA OutFacts ==
  ASSUME out \in [End -> OutType], NEW e \in End
  PROVE  /\ out[e] \in OutType /\ out[e].calls \in Buffers /\ out[e].how \in Loops /\ out[e].tot \in Nat
         /\ out[e].size \in Nat /\ out[e].pos \in Nat /\ out[e].cut \in BOOLEAN
  BY DEF OutType

LEMMA FirstCall ==
  ASSUME NEW calls \in Buffers, calls # <<>>
  PROVE  /\ Head(calls) \in Seq(Cell) /\ Len(Head(calls)) \in Nat
         /\ Tail(calls) \in Buffers /\ Head(calls) = calls[1] /\ Len(calls) \in Nat \ {0}
         /\ Len(Tail(calls)) = Len(calls) - 1 /\ \A j \in 1 .. Len(calls) - 1 : Tail(calls)[j] = calls[j + 1]
<1>1. Head(calls) \in Seq(Cell) /\ Tail(calls) \in Buffers /\ Len(calls) \in Nat \ {0}
  BY HeadTailProperties, LenProperties, EmptySeq DEF Buffers
<1>2. QED
  BY <1>1, LenProperties, HeadTailProperties DEF Buffers

(* What a turn of a loop leaves, from its parts. *)
LEMMA WritesIf ==
  ASSUME NEW e \in End, out[e].calls # <<>>, NEW n \in 0 .. Len(Head(out[e].calls)) - Written(out[e]),
         Gone(e) => n = 0, n <= Free(e), NEW o \in OutType, out' = [out EXCEPT ![e] = o], CallOK(o), out[e].cut => o.cut,
         wire' = [wire EXCEPT ![Peer(e)] =
                    @ \o SubSeq(Head(out[e].calls), Written(out[e]) + 1, Written(out[e]) + n)],
         shut' = shut, broken' = broken, ready' \in [End -> BOOLEAN],
         o.calls \in {out[e].calls, Tail(out[e].calls)},
         \/ o.cut
         \/ o.calls = out[e].calls /\ Written(o) = Written(out[e]) + n
         \/ /\ o.calls = Tail(out[e].calls) /\ Written(o) = 0
            /\ Gone(e) \/ n = Len(Head(out[e].calls)) - Written(out[e])
  PROVE  Writes(e, n)
  BY DEF Writes

OutMoved(o, how, tot, size, pos) == [o EXCEPT !.how = how, !.tot = tot, !.size = size, !.pos = pos]

LEMMA PutFacts ==
  ASSUME ready \in [End -> BOOLEAN], NEW e \in End, NEW cells, Put(e, cells)
  PROVE  /\ wire' = [wire EXCEPT ![Peer(e)] = @ \o cells] /\ shut' = shut /\ broken' = broken
         /\ ready' \in [End -> BOOLEAN]
<1>1. ready' = [ready EXCEPT ![Peer(e)] = @ \/ cells # <<>>] /\ ready[Peer(e)] \in BOOLEAN
  BY Ends DEF Put
<1>2. (ready[Peer(e)] \/ cells # <<>>) \in BOOLEAN
  OBVIOUS
<1>3. QED
  BY <1>1, <1>2 DEF Put

LEMMA SendCallWrites ==
  ASSUME out \in [End -> OutType], ready \in [End -> BOOLEAN], wire \in [End -> Seq(Cell)], NEW e \in End,
         Len(wire[Peer(e)]) <= Room, CallOK(out[e]), SendCall(e)
  PROVE  \E n \in Nat : Writes(e, n)
<1> DEFINE o == out[e]
           m == Min({Free(e), o.size})
<1>1. /\ o \in OutType /\ o.calls \in Buffers /\ o.how = "send" /\ o.calls # <<>> /\ o.tot \in Nat
      /\ o.size \in Nat /\ o.cut \in BOOLEAN
  BY OutFacts DEF SendCall, Busy
<1>2. Written(o) = o.tot /\ o.tot <= Len(Head(o.calls)) /\ o.size = Len(Head(o.calls)) - o.tot
  BY <1>1 DEF CallOK, Written
<1>3. Len(Head(o.calls)) \in Nat /\ Free(e) \in Nat
  <2>1. Len(wire[Peer(e)]) \in Nat
    BY Ends, LenProperties
  <2>2. QED
    BY <1>1, <2>1, FirstCall, RoomAssumption DEF Free
<1>4. m \in {Free(e), o.size} /\ m <= o.size /\ m <= Free(e)
  <2>1. PICK a \in Int, b \in Int : a = Free(e) /\ b = o.size
    BY <1>1, <1>3
  <2>2. Min({a, b}) \in {a, b} /\ Min({a, b}) <= a /\ Min({a, b}) <= b
    BY MinOfTwo
  <2>3. QED
    BY <2>1, <2>2
<1> HIDE DEF m
<1>5. CASE Gone(e) /\ out' = [out EXCEPT ![e] = Return(o, TRUE)] /\ UNCHANGED <<wire, ready, shut, broken>>
  <2>1. /\ Return(o, TRUE) \in OutType /\ CallOK(Return(o, TRUE)) /\ Return(o, TRUE).calls = Tail(o.calls)
        /\ Written(Return(o, TRUE)) = 0 /\ Return(o, TRUE).cut = (o.cut \/ ~TRUE)
    BY <1>1, ReturnFacts
  <2>2. wire' = [wire EXCEPT ![Peer(e)] = @ \o SubSeq(Head(o.calls), Written(o) + 1, Written(o) + 0)]
    <3>1. Written(o) \in Nat /\ Peer(e) \in End
      BY <1>1, <1>2, Ends
    <3>2. QED
      BY <1>5, <3>1, WritesNothing
  <2>3. 0 \in 0 .. Len(Head(o.calls)) - Written(o) /\ 0 <= Free(e)
    BY <1>1, <1>2, <1>3
  <2>4. Writes(e, 0)
    BY <1>1, <1>3, <1>5, <2>1, <2>2, <2>3, WritesIf
  <2>5. QED
    BY <2>4
<1>6. ASSUME NEW retry \in BOOLEAN, ~Gone(e), m > 0,
             Put(e, SubSeq(Head(o.calls), o.tot + 1, o.tot + m)),
             out' = [out EXCEPT ![e] = IF m = o.size THEN Return(o, TRUE) ELSE Partial(o, m, retry)]
      PROVE  \E n \in Nat : Writes(e, n)
  <2>1. m \in 0 .. Len(Head(o.calls)) - Written(o) /\ m \in Nat
    BY <1>1, <1>2, <1>3, <1>4, <1>6
  <2>2. /\ wire' = [wire EXCEPT ![Peer(e)] = @ \o SubSeq(Head(o.calls), Written(o) + 1, Written(o) + m)]
        /\ shut' = shut /\ broken' = broken /\ ready' \in [End -> BOOLEAN]
    BY <1>2, <1>6, PutFacts
  <2>3. ASSUME NEW w \in BOOLEAN, out' = [out EXCEPT ![e] = Return(o, w)], w => m = o.size
        PROVE  Writes(e, m)
    <3>1. /\ Return(o, w) \in OutType /\ CallOK(Return(o, w)) /\ Return(o, w).calls = Tail(o.calls)
          /\ Written(Return(o, w)) = 0 /\ Return(o, w).cut = (o.cut \/ ~w)
      BY <1>1, ReturnFacts
    <3>2. QED
      BY <1>1, <1>2, <1>4, <1>6, <2>1, <2>2, <2>3, <3>1, WritesIf
  <2>4. CASE m = o.size
    BY <1>6, <2>1, <2>3, <2>4
  <2>5. CASE m # o.size /\ ~(retry /\ o.tot + m < o.size - m)
    <3>1. Partial(o, m, retry) = Return(o, FALSE)
      BY <2>5 DEF Partial
    <3>2. QED
      BY <1>6, <2>1, <2>3, <2>5, <3>1
  <2>6. CASE m # o.size /\ retry /\ o.tot + m < o.size - m
    <3>1. PICK tot \in Nat, size \in Nat, pos \in Nat : tot = o.tot + m /\ size = o.size - m /\ pos = o.pos
      <4>1. o.pos \in Nat /\ o.tot + m \in Nat /\ o.size - m \in Nat
        BY <1>1, <1>4, <2>1, OutFacts
      <4>2. QED
        BY <4>1, Zenon
    <3>0. PICK q : q = OutMoved(o, "send", tot, size, pos)
      OBVIOUS
    <3>2. Partial(o, m, retry) = q
      <4>1. Partial(o, m, retry) = [o EXCEPT !.tot = tot, !.size = size]
        BY <2>6, <3>1 DEF Partial
      <4>2. QED
        BY <1>1, <3>1, <3>0, <4>1 DEF OutMoved, OutType
    <3>3. o \in OutType /\ "send" \in Loops /\ tot \in Nat /\ size \in Nat /\ pos \in Nat
      BY <1>1, <3>1 DEF Loops
    <3>4. /\ q \in OutType /\ q.calls = o.calls /\ q.how = "send" /\ q.tot = tot /\ q.size = size
          /\ q.pos = pos /\ q.cut = o.cut
      BY <3>3, <3>0 DEF OutMoved, OutType
    <3>5. tot <= Len(Head(o.calls)) /\ size = Len(Head(o.calls)) - tot /\ tot = Written(o) + m
      <4>1. PICK L \in Nat : L = Len(Head(o.calls))
        BY <1>3
      <4>2. o.tot \in Nat /\ o.size \in Nat /\ Written(o) = o.tot /\ o.size = L - o.tot /\ m <= o.size /\ m \in Nat
        BY <1>1, <1>2, <1>4, <2>1, <4>1
      <4>3. tot <= L /\ size = L - tot /\ tot = Written(o) + m
        BY <3>1, <4>2
      <4>4. QED
        BY <4>1, <4>3
    <3>6. Written(q) = Written(o) + m /\ CallOK(q)
      BY <1>1, <3>4, <3>5 DEF CallOK, Written
    <3>7. out' = [out EXCEPT ![e] = q]
      BY <1>6, <2>6, <3>2
    <3>8. Writes(e, m)
      BY <1>1, <1>4, <1>6, <2>1, <2>2, <3>4, <3>6, <3>7, WritesIf
    <3>9. QED
      BY <2>1, <3>8
  <2>7. QED
    BY <2>4, <2>5, <2>6
<1>7. QED
  BY <1>5, <1>6 DEF SendCall, m

LEMMA SSLSendWrites ==
  ASSUME out \in [End -> OutType], ready \in [End -> BOOLEAN], wire \in [End -> Seq(Cell)], NEW e \in End,
         Len(wire[Peer(e)]) <= Room, CallOK(out[e]), SSLSend(e)
  PROVE  \E n \in Nat : Writes(e, n)
<1> DEFINE o == out[e]
<1>1. /\ o \in OutType /\ o.calls \in Buffers /\ o.how = "ssl" /\ o.calls # <<>> /\ o.cut \in BOOLEAN
      /\ out' = [out EXCEPT ![e] = Return(o, TRUE)]
  BY OutFacts DEF SSLSend, Busy
<1>2. /\ Written(o) = 0 /\ Head(o.calls) \in Seq(Cell) /\ Len(Head(o.calls)) \in Nat
      /\ o.size = Len(Head(o.calls)) /\ Free(e) \in Nat
  <2>1. Written(o) = 0 /\ Head(o.calls) \in Seq(Cell) /\ Len(Head(o.calls)) \in Nat
    BY <1>1, FirstCall DEF CallOK, Written
  <2>2. o.tot = 0 /\ o.size = Len(Head(o.calls)) - o.tot
    BY <1>1 DEF CallOK
  <2>3. Len(wire[Peer(e)]) \in Nat
    BY Ends, LenProperties
  <2>4. QED
    BY <2>1, <2>2, <2>3, RoomAssumption DEF Free
<1>3. /\ Return(o, TRUE) \in OutType /\ CallOK(Return(o, TRUE)) /\ Return(o, TRUE).calls = Tail(o.calls)
      /\ Written(Return(o, TRUE)) = 0 /\ Return(o, TRUE).cut = (o.cut \/ ~TRUE)
  BY <1>1, ReturnFacts
<1>4. CASE Gone(e) /\ UNCHANGED <<wire, ready, shut, broken>>
  <2>1. wire' = [wire EXCEPT ![Peer(e)] = @ \o SubSeq(Head(o.calls), Written(o) + 1, Written(o) + 0)]
    <3>1. Written(o) \in Nat /\ Peer(e) \in End
      BY <1>2, Ends
    <3>2. QED
      BY <1>4, <3>1, WritesNothing
  <2>2. 0 \in 0 .. Len(Head(o.calls)) - Written(o) /\ 0 <= Free(e)
    BY <1>2
  <2>3. Writes(e, 0)
    BY <1>1, <1>2, <1>3, <1>4, <2>1, <2>2, WritesIf
  <2>4. QED
    BY <2>3
<1>5. CASE ~Gone(e) /\ Free(e) >= o.size /\ Put(e, Head(o.calls))
  <2>1. PICK n \in Nat : n = Len(Head(o.calls))
    BY <1>2
  <2>2. SubSeq(Head(o.calls), Written(o) + 1, Written(o) + n) = Head(o.calls)
    BY <1>2, <2>1, SubSeqFull
  <2>3. /\ wire' = [wire EXCEPT ![Peer(e)] = @ \o Head(o.calls)]
        /\ shut' = shut /\ broken' = broken /\ ready' \in [End -> BOOLEAN]
    BY <1>5, PutFacts
  <2>4. n \in 0 .. Len(Head(o.calls)) - Written(o) /\ n = Len(Head(o.calls)) - Written(o) /\ n <= Free(e)
    BY <1>2, <1>5, <2>1
  <2>5. wire' = [wire EXCEPT ![Peer(e)] = @ \o SubSeq(Head(o.calls), Written(o) + 1, Written(o) + n)]
    BY <2>2, <2>3, Zenon
  <2>6. Writes(e, n)
    BY <1>1, <1>3, <1>5, <2>3, <2>4, <2>5, WritesIf
  <2>7. QED
    BY <2>6
<1>6. QED
  BY <1>4, <1>5 DEF SSLSend

LEMMA SendFileFirstWrites ==
  ASSUME out \in [End -> OutType], ready \in [End -> BOOLEAN], wire \in [End -> Seq(Cell)], NEW e \in End,
         Len(wire[Peer(e)]) <= Room, CallOK(out[e]), SendFileFirst(e)
  PROVE  \E n \in Nat : Writes(e, n)
<1> DEFINE o == out[e]
           m == IF Gone(e) THEN 0 ELSE Min({Free(e), o.size})
<1>1. /\ o \in OutType /\ o.calls \in Buffers /\ o.how = "file" /\ o.calls # <<>> /\ o.cut \in BOOLEAN
      /\ o.size \in Nat /\ o.tot \in Nat
  BY OutFacts DEF SendFileFirst, Busy
<1>2. /\ Written(o) = 0 /\ Head(o.calls) \in Seq(Cell) /\ Len(Head(o.calls)) \in Nat
      /\ o.size = Len(Head(o.calls)) /\ Free(e) \in Nat
  <2>1. Written(o) = 0 /\ Head(o.calls) \in Seq(Cell) /\ Len(Head(o.calls)) \in Nat
    BY <1>1, FirstCall DEF CallOK, Written
  <2>2. o.size = Len(Head(o.calls))
    BY <1>1 DEF CallOK
  <2>3. Len(wire[Peer(e)]) \in Nat
    BY Ends, LenProperties
  <2>4. QED
    BY <2>1, <2>2, <2>3, RoomAssumption DEF Free
<1>3. m \in Nat /\ m <= o.size /\ m <= Free(e) /\ (Gone(e) => m = 0)
  <2>1. PICK a \in Int, b \in Int : a = Free(e) /\ b = o.size
    BY <1>1, <1>2
  <2>2. Min({a, b}) \in {a, b} /\ Min({a, b}) <= a /\ Min({a, b}) <= b
    BY MinOfTwo
  <2>3. QED
    BY <1>1, <1>2, <2>1, <2>2
<1>4. /\ Put(e, SubSeq(Head(o.calls), 1, m))
      /\ out' = [out EXCEPT ![e] = IF m = 0 THEN Return(o, Gone(e)) ELSE [o EXCEPT !.how = "fileloop", !.pos = m]]
  BY DEF SendFileFirst
<1> HIDE DEF m
<1>5. m \in 0 .. Len(Head(o.calls)) - Written(o)
  BY <1>2, <1>3
<1>6. Written(o) + 1 = 1 /\ Written(o) + m = m
  BY <1>2, <1>3
<1>7. /\ wire' = [wire EXCEPT ![Peer(e)] = @ \o SubSeq(Head(o.calls), Written(o) + 1, Written(o) + m)]
      /\ shut' = shut /\ broken' = broken /\ ready' \in [End -> BOOLEAN]
  <2>1. Put(e, SubSeq(Head(o.calls), Written(o) + 1, Written(o) + m))
    BY <1>4, <1>6
  <2>2. QED
    BY <2>1, PutFacts
<1>8. CASE m = 0
  <2>1. PICK w \in BOOLEAN : w = Gone(e)
    BY DEF Gone
  <2>2. /\ Return(o, w) \in OutType /\ CallOK(Return(o, w)) /\ Return(o, w).calls = Tail(o.calls)
        /\ Written(Return(o, w)) = 0 /\ Return(o, w).cut = (o.cut \/ ~w)
    BY <1>1, ReturnFacts
  <2>3. out' = [out EXCEPT ![e] = Return(o, w)]
    BY <1>4, <1>8, <2>1
  <2>4. Writes(e, m)
    BY <1>1, <1>3, <1>5, <1>7, <2>1, <2>2, <2>3, WritesIf
  <2>5. QED
    BY <1>3, <2>4
<1>9. CASE m # 0
  <2>0. PICK q : q = OutMoved(o, "fileloop", o.tot, o.size, m)
    OBVIOUS
  <2>1. [o EXCEPT !.how = "fileloop", !.pos = m] = q
    BY <1>1, <2>0 DEF OutMoved, OutType
  <2>2. o \in OutType /\ "fileloop" \in Loops /\ o.tot \in Nat /\ o.size \in Nat /\ m \in Nat
    BY <1>1, <1>3 DEF Loops
  <2>3. /\ q \in OutType /\ q.calls = o.calls /\ q.how = "fileloop" /\ q.tot = o.tot /\ q.size = o.size
        /\ q.pos = m /\ q.cut = o.cut
    BY <2>2, <2>0 DEF OutMoved, OutType
  <2>4. Written(q) = Written(o) + m /\ CallOK(q)
    BY <1>1, <1>2, <1>3, <1>6, <2>3 DEF CallOK, Written
  <2>5. out' = [out EXCEPT ![e] = q]
    BY <1>4, <1>9, <2>1
  <2>6. Writes(e, m)
    BY <1>1, <1>3, <1>5, <1>7, <2>3, <2>4, <2>5, WritesIf
  <2>7. QED
    BY <1>3, <2>6
<1>10. QED
  BY <1>8, <1>9

LEMMA SendFileLoopWrites ==
  ASSUME out \in [End -> OutType], ready \in [End -> BOOLEAN], wire \in [End -> Seq(Cell)], NEW e \in End,
         Len(wire[Peer(e)]) <= Room, CallOK(out[e]), SendFileLoop(e)
  PROVE  \E n \in Nat : Writes(e, n)
<1> DEFINE o == out[e]
           eof == Len(Head(o.calls)) - o.pos
           m == IF Gone(e) THEN 0 ELSE Min({Free(e), eof})
<1>1. /\ o \in OutType /\ o.calls \in Buffers /\ o.how = "fileloop" /\ o.calls # <<>> /\ o.cut \in BOOLEAN
      /\ o.size \in Nat /\ o.tot \in Nat /\ o.pos \in Nat
  BY OutFacts DEF SendFileLoop, Busy
<1>2. /\ Written(o) = o.pos /\ Head(o.calls) \in Seq(Cell) /\ Len(Head(o.calls)) \in Nat
      /\ eof \in Nat /\ Free(e) \in Nat
  <2>1. Written(o) = o.pos /\ Head(o.calls) \in Seq(Cell) /\ Len(Head(o.calls)) \in Nat
    BY <1>1, FirstCall DEF Written
  <2>2. o.pos <= Len(Head(o.calls))
    BY <1>1, <2>1 DEF CallOK
  <2>3. Len(wire[Peer(e)]) \in Nat
    BY Ends, LenProperties
  <2>4. QED
    BY <1>1, <2>1, <2>2, <2>3, RoomAssumption DEF Free
<1>3. m \in Nat /\ m <= eof /\ m <= Free(e) /\ (Gone(e) => m = 0)
  <2>1. PICK a \in Int, b \in Int : a = Free(e) /\ b = eof
    BY <1>2
  <2>2. Min({a, b}) \in {a, b} /\ Min({a, b}) <= a /\ Min({a, b}) <= b
    BY MinOfTwo
  <2>3. QED
    BY <1>2, <2>1, <2>2
<1>4. /\ Put(e, SubSeq(Head(o.calls), o.pos + 1, o.pos + m))
      /\ \E retry \in BOOLEAN :
           out' = [out EXCEPT ![e] =
                     IF Gone(e) \/ ~retry \/ o.tot + m >= o.size - m THEN Return(o, m = eof \/ Gone(e))
                     ELSE [o EXCEPT !.tot = o.tot + m, !.size = o.size - m, !.pos = o.pos + m,
                                    !.how = IF m = 0 THEN "spin" ELSE "fileloop"]]
  BY DEF SendFileLoop
<1> HIDE DEF m
<1>5. m \in 0 .. Len(Head(o.calls)) - Written(o) /\ (m = eof => m = Len(Head(o.calls)) - Written(o))
  BY <1>2, <1>3
<1>6. /\ wire' = [wire EXCEPT ![Peer(e)] = @ \o SubSeq(Head(o.calls), Written(o) + 1, Written(o) + m)]
      /\ shut' = shut /\ broken' = broken /\ ready' \in [End -> BOOLEAN]
  BY <1>2, <1>4, PutFacts
<1>7. PICK retry \in BOOLEAN :
           out' = [out EXCEPT ![e] =
                     IF Gone(e) \/ ~retry \/ o.tot + m >= o.size - m THEN Return(o, m = eof \/ Gone(e))
                     ELSE [o EXCEPT !.tot = o.tot + m, !.size = o.size - m, !.pos = o.pos + m,
                                    !.how = IF m = 0 THEN "spin" ELSE "fileloop"]]
  BY <1>4
<1>8. CASE Gone(e) \/ ~retry \/ o.tot + m >= o.size - m
  <2>1. PICK w \in BOOLEAN : w = (m = eof \/ Gone(e))
    OBVIOUS
  <2>2. /\ Return(o, w) \in OutType /\ CallOK(Return(o, w)) /\ Return(o, w).calls = Tail(o.calls)
        /\ Written(Return(o, w)) = 0 /\ Return(o, w).cut = (o.cut \/ ~w)
    BY <1>1, ReturnFacts
  <2>3. out' = [out EXCEPT ![e] = Return(o, w)]
    BY <1>7, <1>8, <2>1
  <2>4. Writes(e, m)
    BY <1>1, <1>3, <1>5, <1>6, <2>1, <2>2, <2>3, WritesIf
  <2>5. QED
    BY <1>3, <2>4
<1>9. CASE ~(Gone(e) \/ ~retry \/ o.tot + m >= o.size - m)
  <2>1. PICK how \in Loops : how \in {"spin", "fileloop"} /\ how = IF m = 0 THEN "spin" ELSE "fileloop"
    BY DEF Loops
  <2>2. PICK tot \in Nat, size \in Nat, pos \in Nat : tot = o.tot + m /\ size = o.size - m /\ pos = o.pos + m
    BY <1>1, <1>3, <1>9
  <2>0. PICK q : q = OutMoved(o, how, tot, size, pos)
    OBVIOUS
  <2>3. [o EXCEPT !.tot = o.tot + m, !.size = o.size - m, !.pos = o.pos + m,
                  !.how = IF m = 0 THEN "spin" ELSE "fileloop"] = q
    BY <2>1, <2>2, <2>0 DEF OutMoved
  <2>4. o \in OutType /\ how \in Loops /\ tot \in Nat /\ size \in Nat /\ pos \in Nat
    BY <1>1, <2>1, <2>2
  <2>5. /\ q \in OutType /\ q.calls = o.calls /\ q.how = how /\ q.tot = tot /\ q.size = size
        /\ q.pos = pos /\ q.cut = o.cut
    BY <2>4, <2>0 DEF OutMoved, OutType
  <2>6. pos <= Len(Head(o.calls)) /\ pos = Written(o) + m
    BY <1>1, <1>2, <1>3, <2>2
  <2>7. Written(q) = Written(o) + m /\ CallOK(q)
    BY <1>1, <2>1, <2>5, <2>6 DEF CallOK, Written
  <2>8. out' = [out EXCEPT ![e] = q]
    BY <1>7, <1>9, <2>3
  <2>9. Writes(e, m)
    BY <1>1, <1>3, <1>5, <1>6, <2>5, <2>7, <2>8, WritesIf
  <2>10. QED
    BY <1>3, <2>9
<1>10. QED
  BY <1>8, <1>9

(* Every step of a send loop is such a turn. *)
LEMMA SendWrites ==
  ASSUME Types, \A x \in End : Len(wire[x]) <= Room, NEW e \in End, CallOK(out[e]), SendStep(e)
  PROVE  UNCHANGED connVars /\ \E n \in Nat : Writes(e, n)
<1>1. Len(wire[Peer(e)]) <= Room
  BY Ends
<1>2. QED
  BY <1>1, SendCallWrites, SSLSendWrites, SendFileFirstWrites, SendFileLoopWrites DEF Types, SendStep

-----------------------------------------------------------------------------
(* The other steps *)

(* The thread of e moves on, or someone stops, closes or resets the         *)
(* connection; no message and no byte moves.                                *)
Parks(e, t) ==
  /\ sock' = [sock EXCEPT ![e] = t]
  /\ \E pc \in Pcs :
       /\ Halts(e, sock[e], t, pc)
       /\ pc = sock[e].pc \/ (sock[e].pc \in {"idle", "recv"} /\ pc \in {"idle", "recv", "closed"})
  /\ ready' \in [End -> BOOLEAN] /\ shut' \in [End -> BOOLEAN] /\ \A x \in End : shut[x] => shut'[x]
  /\ broken' \in BOOLEAN /\ (broken => broken')
  /\ wire' = wire \/ (wire' = [x \in End |-> <<>>] /\ broken')
  /\ out' = out /\ conf' = conf /\ next' = next /\ buffer' = buffer /\ sent' = sent /\ got' = got

Starts(e, t) ==
  /\ Cls(e) = "HBSocketClient" /\ sock[e].pc = "new" /\ Halts(e, sock[e], t, "idle")
  /\ sock' = [sock EXCEPT ![e] = t]
  /\ out' = [out EXCEPT ![e] = StartSend(@, <<Header>>, How(e))]
  /\ UNCHANGED <<wire, ready, shut, broken, conf, next, buffer, sent, got>>

(* n bytes arrive, in the buffer or past its end. *)
Fills(e, s, t, n) ==
  \/ Halts(e, s, t, "overrun") /\ s.off + s.left + n > Length(e)
  \/ /\ Fits(t, Length(e)) /\ Kept(s, t) /\ t.pc = "read" /\ t.off = s.off /\ t.toRecv = s.toRecv
     /\ t.left = s.left + n
     /\ \A i \in 1 .. s.left : Window(t)[i] = Window(s)[i]
     /\ \A i \in 1 .. n : Window(t)[s.left + i] = wire[e][i]

Arrives(e, t, n) ==
  /\ sock[e].pc = "recv" /\ n \in 1 .. Len(wire[e]) /\ n <= Space(e)
  /\ sock' = [sock EXCEPT ![e] = t] /\ Fills(e, sock[e], t, n)
  /\ wire' = [wire EXCEPT ![e] = SubSeq(@, n + 1, Len(@))]
  /\ UNCHANGED <<ready, shut, broken, out, conf, next, buffer, sent, got>>

LEMMA SockWith ==
  ASSUME SocksType, NEW e \in End
  PROVE  [sock EXCEPT ![e] = sock[e]] = sock
  BY DEF SocksType

LEMMA StaysHalted ==
  ASSUME SocksType, conf \in Configs, NEW e \in End
  PROVE  Halts(e, sock[e], sock[e], sock[e].pc) /\ sock[e].pc \in Pcs
  BY SockOf, SockFacts, MovedSame DEF Halts

LEMMA ShutFacts ==
  ASSUME shut \in [End -> BOOLEAN], NEW e \in End, Shutdown(e)
  PROVE  /\ shut' \in [End -> BOOLEAN] /\ (\A x \in End : shut[x] => shut'[x]) /\ ready' \in [End -> BOOLEAN]
  BY DEF Shutdown

(* Nothing moves at all. *)
LEMMA StayParks ==
  ASSUME Types, NEW e \in End, sock' = sock,
         ready' \in [End -> BOOLEAN], shut' \in [End -> BOOLEAN], \A x \in End : shut[x] => shut'[x],
         broken' \in BOOLEAN, broken => broken', wire' = wire \/ (wire' = [x \in End |-> <<>>] /\ broken'),
         out' = out, conf' = conf, next' = next, buffer' = buffer, sent' = sent, got' = got
  PROVE  Parks(e, sock[e])
  BY SockWith, StaysHalted DEF Types, Parks

LEMMA MoveParks ==
  ASSUME Types, NEW e \in End, NEW pc \in {"idle", "recv", "closed"}, sock[e].pc \in {"idle", "recv"},
         sock' = [sock EXCEPT ![e].pc = pc],
         ready' \in [End -> BOOLEAN], shut' \in [End -> BOOLEAN], \A x \in End : shut[x] => shut'[x],
         broken' \in BOOLEAN, broken => broken', wire' = wire \/ (wire' = [x \in End |-> <<>>] /\ broken'),
         out' = out, conf' = conf, next' = next, buffer' = buffer, sent' = sent, got' = got
  PROVE  \E t : Parks(e, t)
<1>1. sock' = [sock EXCEPT ![e] = WithPc(sock[e], pc)]
  BY DEF WithPc
<1>2. pc \in Pcs
  BY DEF Pcs, Dead
<1>3. Halts(e, sock[e], WithPc(sock[e], pc), pc)
  BY <1>2, SockOf, HaltIs DEF Types
<1>4. Parks(e, WithPc(sock[e], pc))
  BY <1>1, <1>2, <1>3 DEF Parks
<1>5. QED
  BY <1>4

LEMMA StutterParks ==
  ASSUME Types, UNCHANGED vars
  PROVE  Parks("client", sock["client"])
<1>1. UNCHANGED <<wire, ready, shut, broken, out, conf, sock, next, buffer, sent, got>>
  BY DEF vars, streamVars, connVars
<1>2. QED
  BY <1>1, StayParks DEF Types, End

LEMMA ResetParks ==
  ASSUME Types, ConnectionReset
  PROVE  Parks("client", sock["client"])
<1>1. UNCHANGED <<shut, out, conf, sock, next, buffer, sent, got>> /\ broken' = TRUE
      /\ wire' = [x \in End |-> <<>>] /\ ready' = [x \in End |-> TRUE]
  BY DEF ConnectionReset, Reset, connVars
<1>2. QED
  BY <1>1, StayParks DEF Types, End

LEMMA EventParks ==
  ASSUME Types, NEW e \in End, OnEvent(e)
  PROVE  \E t : Parks(e, t)
<1>1. /\ sock[e].pc = "idle" /\ wire' = wire /\ broken' = broken /\ out' = out /\ conf' = conf /\ next' = next
      /\ buffer' = buffer /\ sent' = sent /\ got' = got
  BY DEF OnEvent
<1>2. CASE ClientClose(e)
  <2>1. /\ shut' \in [End -> BOOLEAN] /\ (\A x \in End : shut[x] => shut'[x]) /\ ready' \in [End -> BOOLEAN]
    BY <1>2, ShutFacts DEF ClientClose, Types
  <2>2. QED
    BY <1>1, <1>2, <2>1, MoveParks DEF ClientClose, Types
<1>3. CASE /\ sock' = [sock EXCEPT ![e].pc = "recv"] /\ ready' = [ready EXCEPT ![e] = FALSE]
           /\ shut' = shut
  BY <1>1, <1>3, MoveParks DEF Types
<1>4. QED
  BY <1>2, <1>3 DEF OnEvent

LEMMA StopParks ==
  ASSUME Types, NEW e \in End, stop(e)
  PROVE  Parks(e, sock[e])
<1>1. UNCHANGED <<wire, broken, out, conf, sock, next, buffer, sent, got>>
  BY DEF stop, connVars
<1>2. /\ shut' \in [End -> BOOLEAN] /\ (\A x \in End : shut[x] => shut'[x]) /\ ready' \in [End -> BOOLEAN]
  BY ShutFacts DEF stop, Types
<1>3. QED
  BY <1>1, <1>2, StayParks DEF Types

LEMMA CloseParks ==
  ASSUME Types, NEW e \in End, close(e)
  PROVE  \E t : Parks(e, t)
<1>1. /\ UNCHANGED <<out, conf, next, buffer, sent, got>> /\ sock[e].pc = "idle"
      /\ sock' = [sock EXCEPT ![e].pc = "closed"] /\ broken' = (broken \/ wire[e] # <<>>)
      /\ wire' = IF wire[e] # <<>> THEN [x \in End |-> <<>>] ELSE wire
  BY DEF close
<1>2. /\ shut' \in [End -> BOOLEAN] /\ (\A x \in End : shut[x] => shut'[x]) /\ ready' \in [End -> BOOLEAN]
  BY ShutFacts DEF close, Types
<1>3. broken' \in BOOLEAN /\ (broken => broken') /\ (wire' = wire \/ (wire' = [x \in End |-> <<>>] /\ broken'))
  BY <1>1 DEF Types
<1>4. QED
  BY <1>1, <1>2, <1>3, MoveParks

(* The socket with n more bytes. *)
Filled(s, left, mem) == [s EXCEPT !.pc = "read", !.left = left, !.mem = mem]

LEMMA FilledSet ==
  ASSUME NEW N, NEW s \in SockType(N), NEW left \in Nat, NEW mem \in Memory(N)
  PROVE  /\ Filled(s, left, mem) \in SockType(N) /\ Filled(s, left, mem).pc = "read"
         /\ Filled(s, left, mem).left = left /\ Filled(s, left, mem).mem = mem
         /\ Filled(s, left, mem).status = s.status /\ Filled(s, left, mem).off = s.off
         /\ Filled(s, left, mem).toRecv = s.toRecv /\ Filled(s, left, mem).hdr = s.hdr
         /\ Filled(s, left, mem).frame = s.frame /\ Filled(s, left, mem).split = s.split
         /\ Filled(s, left, mem).early = s.early /\ Filled(s, left, mem).frag = s.frag
  BY DEF Filled, SockType, Pcs

Fill(s, w, n) ==
  [s EXCEPT !.pc = "read", !.left = @ + n,
            !.mem = [i \in DOMAIN @ |-> IF i \in (s.off + s.left) .. (s.off + s.left + n - 1)
                                        THEN w[i - (s.off + s.left) + 1] ELSE @[i]]]

LEMMA FillFacts ==
  ASSUME NEW N \in Nat, NEW s, Fits(s, N), NEW w \in Seq(Cell), NEW n \in 1 .. Len(w), s.off + s.left + n <= N,
         NEW t, t = Fill(s, w, n)
  PROVE  /\ Fits(t, N) /\ Kept(s, t) /\ t.pc = "read" /\ t.off = s.off /\ t.toRecv = s.toRecv
         /\ t.left = s.left + n
         /\ \A i \in 1 .. s.left : Window(t)[i] = Window(s)[i]
         /\ \A i \in 1 .. n : Window(t)[s.left + i] = w[i]
<1>1. s \in SockType(N) /\ s.off \in Nat /\ s.left \in Nat /\ s.mem \in Memory(N) /\ Len(w) \in Nat
      /\ n \in Nat /\ n >= 1
  BY SockFacts, LenProperties DEF Fits
<1>2. PICK at \in Nat : at = s.off + s.left
  BY <1>1
<1>3. DOMAIN s.mem = 0 .. N - 1 /\ \A i \in 0 .. N - 1 : s.mem[i] \in AnyCell
  BY <1>1, MemorySize
<1>4. PICK mem \in Memory(N) : mem = [i \in DOMAIN s.mem |-> IF i \in at .. (at + n - 1) THEN w[i - at + 1] ELSE s.mem[i]]
  <2>1. ASSUME NEW i \in at .. (at + n - 1) PROVE w[i - at + 1] \in AnyCell
    <3>1. i - at + 1 \in 1 .. Len(w)
      <4>1. PICK m \in Nat : m = Len(w) /\ n <= m
        BY <1>1
      <4>2. i \in Int /\ at <= i /\ i <= at + n - 1
        BY <1>1, <2>1
      <4>3. i - at + 1 \in 1 .. m
        BY <1>1, <4>1, <4>2
      <4>4. QED
        BY <4>1, <4>3
    <3>2. w[i - at + 1] \in Cell
      BY <3>1, ElementOfSeq
    <3>3. QED
      BY <3>2 DEF AnyCell
  <2>2. QED
    BY <1>3, <2>1 DEF Memory
<1>5. PICK left \in Nat : left = s.left + n
  BY <1>1
<1>6. t = Filled(s, left, mem)
  <2>1. s.left + n = left /\ [i \in DOMAIN s.mem |-> IF i \in (s.off + s.left) .. (s.off + s.left + n - 1)
                                  THEN w[i - (s.off + s.left) + 1] ELSE s.mem[i]] = mem
    BY <1>2, <1>4, <1>5
  <2>2. QED
    BY <2>1, Zenon DEF Filled, Fill
<1>7. s \in SockType(N) /\ left \in Nat /\ mem \in Memory(N)
  BY <1>1, <1>4, <1>5
<1>8. /\ t \in SockType(N) /\ t.pc = "read" /\ t.left = left /\ t.mem = mem /\ t.off = s.off
      /\ t.toRecv = s.toRecv
  BY <1>6, <1>7, FilledSet
<1>9. Kept(s, t)
  BY <1>6, <1>7, FilledSet DEF Kept
<1>10. Fits(t, N)
  BY <1>1, <1>5, <1>8 DEF Fits
<1>11. ASSUME NEW i \in 1 .. s.left PROVE Window(t)[i] = Window(s)[i]
  <2>1. s.off + i - 1 \in 0 .. N - 1 /\ s.off + i - 1 \notin at .. (at + n - 1) /\ i \in 1 .. t.left
    <3>1. PICK a \in Nat, b \in Nat : a = s.off /\ b = s.left
      BY <1>1
    <3>2. at = a + b /\ i \in 1 .. b /\ a + b + n <= N /\ t.left = b + n
      BY <1>2, <1>5, <1>8, <3>1
    <3>3. a + i - 1 \in 0 .. N - 1 /\ a + i - 1 \notin at .. (at + n - 1) /\ i \in 1 .. b + n
      BY <1>1, <3>2
    <3>4. QED
      BY <3>1, <3>2, <3>3
  <2>2. mem[s.off + i - 1] = s.mem[s.off + i - 1]
    BY <1>3, <1>4, <2>1
  <2>3. Window(t)[i] = mem[s.off + i - 1]
    BY <1>8, <1>10, <2>1, WindowFacts
  <2>4. Window(s)[i] = s.mem[s.off + i - 1]
    BY WindowFacts
  <2>5. QED
    BY <2>2, <2>3, <2>4
<1>12. ASSUME NEW i \in 1 .. n PROVE Window(t)[s.left + i] = w[i]
  <2>1. PICK j \in 1 .. t.left : j = s.left + i
    BY <1>1, <1>5, <1>8
  <2>2. s.off + j - 1 \in 0 .. N - 1 /\ s.off + j - 1 \in at .. (at + n - 1) /\ (s.off + j - 1) - at + 1 = i
    <3>1. PICK a \in Nat, b \in Nat : a = s.off /\ b = s.left
      BY <1>1
    <3>2. at = a + b /\ j = b + i /\ a + b + n <= N /\ i \in 1 .. n
      BY <1>2, <2>1, <3>1
    <3>3. a + j - 1 \in 0 .. N - 1 /\ a + j - 1 \in at .. (at + n - 1) /\ (a + j - 1) - at + 1 = i
      BY <1>1, <3>2
    <3>4. QED
      BY <3>1, <3>3
  <2>3. mem[s.off + j - 1] = w[(s.off + j - 1) - at + 1]
    BY <1>3, <1>4, <2>2
  <2>4. Window(t)[j] = mem[s.off + j - 1]
    BY <1>8, <1>10, <2>1, WindowFacts
  <2>5. QED
    BY <2>1, <2>2, <2>3, <2>4
<1>13. QED
  BY <1>5, <1>8, <1>9, <1>10, <1>11, <1>12

LEMMA ReceiveKinds ==
  ASSUME Types, NEW e \in End, Receive(e)
  PROVE  (\E t : Parks(e, t)) \/ (\E t, n : Arrives(e, t, n))
<1> DEFINE s == sock[e]
           at == s.off + s.left
<1>1. /\ s.pc = "recv" /\ broken' = broken /\ out' = out /\ conf' = conf /\ next' = next
      /\ buffer' = buffer /\ sent' = sent /\ got' = got
  BY DEF Receive
<1>2. CASE sock' = [sock EXCEPT ![e].pc = "idle"] /\ UNCHANGED <<wire, ready, shut>>
  BY <1>1, <1>2, MoveParks DEF Types
<1>3. CASE ClientClose(e) /\ UNCHANGED wire
  <2>1. /\ shut' \in [End -> BOOLEAN] /\ (\A x \in End : shut[x] => shut'[x]) /\ ready' \in [End -> BOOLEAN]
    BY <1>3, ShutFacts DEF ClientClose, Types
  <2>2. QED
    BY <1>1, <1>3, <2>1, MoveParks DEF ClientClose, Types
<1>4. ASSUME NEW n \in 1 .. Min({Space(e), Len(wire[e])}), UNCHANGED <<ready, shut>>,
             wire' = [wire EXCEPT ![e] = SubSeq(@, n + 1, Len(@))],
             sock' = [sock EXCEPT ![e] =
                        IF at + n > Cardinality(DOMAIN s.mem) THEN [s EXCEPT !.pc = "overrun"]
                        ELSE [s EXCEPT !.pc = "read", !.left = @ + n,
                                       !.mem = [i \in DOMAIN @ |->
                                           IF i \in at..(at + n - 1) THEN wire[e][i - at + 1]
                                           ELSE @[i]]]]
      PROVE  \E t : Arrives(e, t, n)
  <2>1. /\ Fits(s, Length(e)) /\ Length(e) \in Nat /\ s \in SockType(Length(e)) /\ s.off \in Nat /\ s.left \in Nat
        /\ s.toRecv \in Int /\ s.mem \in Memory(Length(e))
    BY SockOf, SockFacts DEF Types
  <2>2. wire[e] \in Seq(Cell) /\ Len(wire[e]) \in Nat /\ Cardinality(DOMAIN s.mem) = Length(e)
    BY <2>1, LenProperties, MemorySize DEF Types
  <2>3. Space(e) \in Int
    BY <2>1, <2>2 DEF Space, getNumberOfBuffers
  <2>4. n \in 1 .. Len(wire[e]) /\ n <= Space(e)
    <3>1. PICK a \in Int, b \in Int : a = Space(e) /\ b = Len(wire[e])
      BY <2>2, <2>3
    <3>2. Min({a, b}) \in {a, b} /\ Min({a, b}) <= a /\ Min({a, b}) <= b
      BY MinOfTwo
    <3>3. n \in 1 .. Min({a, b})
      BY <1>4, <3>1
    <3>4. QED
      BY <3>1, <3>2, <3>3
  <2>5. CASE at + n > Length(e)
    <3>1. sock' = [sock EXCEPT ![e] = WithPc(s, "overrun")]
      BY <1>4, <2>2, <2>5 DEF WithPc
    <3>2. "overrun" \in Pcs
      BY DEF Pcs, Dead
    <3>3. Halts(e, s, WithPc(s, "overrun"), "overrun")
      BY <2>1, <3>2, HaltIs DEF Types
    <3>4. Fills(e, s, WithPc(s, "overrun"), n)
      BY <2>5, <3>3 DEF Fills
    <3>5. Arrives(e, WithPc(s, "overrun"), n)
      BY <1>1, <1>4, <2>4, <3>1, <3>4 DEF Arrives
    <3>6. QED
      BY <3>5
  <2>6. CASE ~(at + n > Length(e))
    <3>0. PICK w \in Seq(Cell) : w = wire[e]
      BY <2>2
    <3>1. PICK t : t = Fill(s, w, n)
      OBVIOUS
    <3>2. s.off + s.left + n <= Length(e)
      BY <2>1, <2>4, <2>6
    <3>3. /\ Fits(t, Length(e)) /\ Kept(s, t) /\ t.pc = "read" /\ t.off = s.off /\ t.toRecv = s.toRecv
          /\ t.left = s.left + n
          /\ \A i \in 1 .. s.left : Window(t)[i] = Window(s)[i]
          /\ \A i \in 1 .. n : Window(t)[s.left + i] = wire[e][i]
      <4>1. Length(e) \in Nat /\ Fits(s, Length(e)) /\ n \in 1 .. Len(w)
        BY <2>1, <2>4, <3>0
      <4>2. /\ Fits(t, Length(e)) /\ Kept(s, t) /\ t.pc = "read" /\ t.off = s.off /\ t.toRecv = s.toRecv
            /\ t.left = s.left + n
            /\ \A i \in 1 .. s.left : Window(t)[i] = Window(s)[i]
            /\ \A i \in 1 .. n : Window(t)[s.left + i] = w[i]
        BY <3>1, <3>2, <4>1, FillFacts
      <4>3. QED
        BY <3>0, <4>2
    <3>4. Fills(e, s, t, n)
      BY <3>3 DEF Fills
    <3>5. sock' = [sock EXCEPT ![e] = t]
      BY <1>4, <2>2, <2>6, <3>0, <3>1, Zenon DEF Fill
    <3>6. Arrives(e, t, n)
      BY <1>1, <1>4, <2>4, <3>4, <3>5 DEF Arrives
    <3>7. QED
      BY <3>6
  <2>7. QED
    BY <2>5, <2>6
<1>5. QED
  BY <1>2, <1>3, <1>4 DEF Receive

LEMMA StartIs ==
  ASSUME Types, NEW e \in End, startHandshake(e)
  PROVE  \E t : Starts(e, t)
<1>1. sock' = [sock EXCEPT ![e] = WithPc(sock[e], "idle")]
  BY DEF startHandshake, WithPc
<1>2. "idle" \in Pcs
  BY DEF Pcs
<1>3. Halts(e, sock[e], WithPc(sock[e], "idle"), "idle")
  BY <1>2, SockOf, HaltIs DEF Types
<1>4. Starts(e, WithPc(sock[e], "idle"))
  BY <1>1, <1>3 DEF Starts, startHandshake
<1>5. QED
  BY <1>4

-----------------------------------------------------------------------------
(* Every step is of one of six kinds *)

(* An open end has the transport its class, the request and the response    *)
(* give it; until it is open it reads no frame.                             *)
StatusOK(e) ==
  /\ Cls(e) \in RawClass => sock[e].status = "TCP"
  /\ Cls(e) \notin RawClass /\ sock[e].status # "Connecting" => sock[e].status = Proper(e) /\ Accepts(e)
  /\ sock[e].status # "WebSocket" => sock[e].frame = NewFrame
  /\ sock[e].early => Cls(e) = "WebSocket"
  /\ sock[e].pc = "new" => /\ sock[e].status = "Connecting" /\ out[e].calls = <<>>
                           /\ Cls(e) = "HBSocketClient"

Base ==
  /\ Types
  /\ \A e \in End : /\ Len(wire[e]) <= Room /\ CallOK(out[e])
                    /\ FrameFits(sock[e]) /\ StatusOK(e)

(* A turn of readMessages. *)
Turning(e, t, cb) ==
  /\ sock[e].pc = "read" /\ ~Busy(e) /\ Handled(e, t, cb)
  /\ \/ /\ sock[e].status = "TCP" /\ out' = out
        /\ \/ RawWaits(e, sock[e], t, cb) \/ RawStops(e, sock[e], t, cb) \/ RawTakes(e, sock[e], t, cb)
     \/ /\ sock[e].status = "WebSocket" /\ out' = out
        /\ \/ FrameWaits(e, sock[e], t, cb) \/ FrameStops(e, sock[e], t, cb) \/ FrameReads(e, sock[e], t, cb)
           \/ FrameStays(e, sock[e], t, cb) \/ FrameEnds(e, sock[e], t, cb)
     \/ sock[e].status = "Connecting" /\ Cls(e) \notin RawClass /\ Upgrades(e, t, cb)

(* A message sent, by the form it takes. *)
SendsRaw(e) == CanSend(e) /\ sock[e].status = "TCP" /\ SendRaw(e)
SendsFrames(e) ==
  /\ CanSend(e) /\ Cls(e) \notin RawClass /\ (sock[e].status = "WebSocket" \/ Cls(e) = "WebSocket")
  /\ \E masked \in BOOLEAN : SendFrames(e, masked) /\ (masked => Cls(e) = "HBSocketClient")
SendsNothing(e) == CanSend(e) /\ sock[e].status = "Connecting" /\ SendNothing(e)

Kinds(e) ==
  \/ \E t : Parks(e, t)
  \/ \E t : Starts(e, t)
  \/ UNCHANGED connVars /\ \E n \in Nat : Writes(e, n)
  \/ \E t, n : Arrives(e, t, n)
  \/ \E t, cb : Turning(e, t, cb)
  \/ SendsRaw(e) \/ SendsFrames(e) \/ SendsNothing(e)

LEMMA TurningKinds ==
  ASSUME Base, NEW e \in End, Reading(e),
         \/ Cls(e) \in RawClass /\ ReadRaw(e)
         \/ Cls(e) \notin RawClass /\ sock[e].status = "Connecting" /\ UpgradeStep(e)
         \/ Cls(e) \notin RawClass /\ ReadMessages(e)
  PROVE  \E t, cb : Turning(e, t, cb)
<1>1. /\ Types /\ SocksType /\ conf \in Configs /\ FrameFits(sock[e]) /\ sock[e].pc = "read" /\ ~Busy(e)
      /\ StatusOK(e)
  BY DEF Base, Types, Reading
<1>2. CASE sock[e].status = "TCP" /\ ReadRaw(e)
  BY <1>1, <1>2, RawKinds DEF Turning
<1>3. CASE sock[e].status = "WebSocket" /\ ReadFrames(e)
  BY <1>1, <1>3, FrameKinds DEF Turning
<1>4. CASE Cls(e) \notin RawClass /\ sock[e].status = "Connecting" /\ UpgradeStep(e)
  BY <1>1, <1>4, UpgradeKinds DEF Turning
<1>5. QED
  BY <1>1, <1>2, <1>3, <1>4 DEF ReadMessages, StatusOK

LEMMA ThreadKinds ==
  ASSUME Base, NEW e \in End, Thread(e)
  PROVE  Kinds(e)
<1>1. /\ Types /\ conf \in Configs /\ CallOK(out[e]) /\ \A x \in End : Len(wire[x]) <= Room
  BY DEF Base, Types
<1>2. CASE startHandshake(e)
  BY <1>1, <1>2, StartIs DEF Kinds
<1>3. CASE SendStep(e)
  BY <1>1, <1>3, SendWrites DEF Kinds
<1>4. CASE OnEvent(e)
  BY <1>1, <1>4, EventParks DEF Kinds
<1>5. CASE Receive(e)
  BY <1>1, <1>5, ReceiveKinds DEF Kinds
<1>6. CASE DataSocketReadMessages(e) \/ DataSocketVReadMessages(e)
  BY <1>6, TurningKinds DEF DataSocketReadMessages, DataSocketVReadMessages, RawClass, Kinds
<1>7. CASE HBDataSocketReadMessages(e)
  <2>1. e = "server"
    BY <1>1, <1>7, ConfFacts DEF HBDataSocketReadMessages, Cls, End
  <2>2. QED
    BY <1>7, <2>1, TurningKinds DEF HBDataSocketReadMessages, RawClass, Kinds, UpgradeStep
<1>8. CASE HBSocketClientReadMessages(e)
  <2>1. e = "client"
    BY <1>1, <1>8, ConfFacts DEF HBSocketClientReadMessages, Cls, End
  <2>2. QED
    BY <1>8, <2>1, TurningKinds DEF HBSocketClientReadMessages, RawClass, Kinds, UpgradeStep
<1>9. CASE WebSocketReadMessages(e)
  <2>1. e = "server"
    BY <1>1, <1>9, ConfFacts DEF WebSocketReadMessages, Cls, End
  <2>2. QED
    BY <1>9, <2>1, TurningKinds DEF WebSocketReadMessages, RawClass, Kinds, UpgradeStep, ReadMessages
<1>10. QED
  BY <1>2, <1>3, <1>4, <1>5, <1>6, <1>7, <1>8, <1>9
  DEF Thread, DataSocketOnEvent, DataSocketReceive, DataSocketVOnEvent, DataSocketVReceive, HBDataSocketOnEvent,
      HBDataSocketReceive, HBSocketClientOnEvent, HBSocketClientReceive, WebSocketOnEvent, WebSocketReceive

LEMMA ApplicationKinds ==
  ASSUME Base, NEW e \in End, Application(e)
  PROVE  Kinds(e)
<1>1. /\ Types /\ SocksType /\ conf \in Configs /\ StatusOK(e)
  BY DEF Base, Types
<1>2. CASE DataSocketSendMsg(e) \/ DataSocketVSendMsg(e)
  BY <1>1, <1>2 DEF DataSocketSendMsg, DataSocketVSendMsg, RawClass, StatusOK, Kinds, SendsRaw
<1>3. ASSUME NEW masked \in BOOLEAN, Cls(e) \notin RawClass, CanSend(e), HBSend(e, masked),
             masked => Cls(e) = "HBSocketClient"
      PROVE  Kinds(e)
  <2>1. sock[e].status \in Status
    BY <1>1, SockOf, SockFacts
  <2>2. CASE sock[e].status = "TCP"
    BY <1>3, <2>2 DEF HBSend, Kinds, SendsRaw
  <2>3. CASE sock[e].status = "WebSocket"
    BY <1>3, <2>3 DEF HBSend, Kinds, SendsFrames
  <2>4. CASE sock[e].status = "Connecting"
    BY <1>3, <2>4 DEF HBSend, Kinds, SendsNothing
  <2>5. QED
    BY <2>1, <2>2, <2>3, <2>4 DEF Status
<1>4. CASE HBDataSocketSendMsg(e) \/ HBSocketClientSendMsg(e)
  BY <1>3, <1>4 DEF HBDataSocketSendMsg, HBSocketClientSendMsg, RawClass
<1>5. CASE WebSocketSendMsg(e)
  BY <1>5 DEF WebSocketSendMsg, RawClass, Kinds, SendsFrames
<1>6. CASE stop(e)
  BY <1>1, <1>6, StopParks DEF Kinds
<1>7. CASE close(e)
  BY <1>1, <1>7, CloseParks DEF Kinds
<1>8. QED
  BY <1>2, <1>4, <1>5, <1>6, <1>7 DEF Application

LEMMA NextKinds ==
  ASSUME Base, [Next]_vars
  PROVE  \E e \in End : Kinds(e)
<1>1. Types /\ "client" \in End
  BY DEF Base, End
<1>2. CASE UNCHANGED vars
  BY <1>1, <1>2, StutterParks DEF Kinds
<1>3. CASE ConnectionReset
  BY <1>1, <1>3, ResetParks DEF Kinds
<1>4. QED
  BY <1>2, <1>3, ThreadKinds, ApplicationKinds DEF Next

-----------------------------------------------------------------------------
(* What is sent *)

LEMMA HeaderFacts ==
  /\ Header \in Seq(Cell) /\ Len(Header) = 2 * HeaderLines + 1
  /\ \A i \in 1 .. 2 * HeaderLines + 1 :
       Header[i][1] = (IF i % 2 = 1 /\ i <= 2 * HeaderLines THEN "tx" ELSE "nl")
<1>1. HeaderLines \in Nat
  BY MessageAssumption
<1>2. PICK n \in Nat : n = 2 * HeaderLines + 1
  BY <1>1
<1>3. ASSUME NEW i \in 1 .. n
      PROVE  (IF i % 2 = 1 /\ i <= 2 * HeaderLines THEN <<"tx", (i + 1) \div 2>> ELSE <<"nl">>) \in Cell
  <2>1. (i + 1) \div 2 \in Nat
    OBVIOUS
  <2>2. <<"tx", (i + 1) \div 2>> \in Cell /\ <<"nl">> \in Cell
    BY <2>1 DEF Cell
  <2>3. QED
    BY <2>2
<1>4. Header \in [1 .. n -> Cell]
  BY <1>2, <1>3 DEF Header
<1>5. Header \in Seq(Cell) /\ Len(Header) = n
  BY <1>4, SeqOf
<1>6. ASSUME NEW i \in 1 .. n
      PROVE  Header[i][1] = (IF i % 2 = 1 /\ i <= 2 * HeaderLines THEN "tx" ELSE "nl")
  <2>1. Header[i] = IF i % 2 = 1 /\ i <= 2 * HeaderLines THEN <<"tx", (i + 1) \div 2>> ELSE <<"nl">>
    BY <1>2 DEF Header
  <2>2. QED
    BY <2>1
<1>7. QED
  BY <1>2, <1>5, <1>6

(* The seven-bit length of a frame of n cells. *)
Code(n) == IF n <= Len7Max THEN n ELSE IF n <= Len16Max THEN Code16 ELSE Code64

HeadLen(n, key) == 2 + (IF n > Len7Max THEN 1 ELSE 0) + (IF key # 0 THEN 1 ELSE 0)

(* The header h of a frame. *)
HeadOf(h, op, n, key, last) ==
  /\ h \in Seq(Cell) /\ Len(h) = HeadLen(n, key) /\ Code(n) \in Nat
  /\ h[1] = <<"h1", last, FALSE, op>> /\ h[2] = <<"h2", key # 0, Code(n)>>
  /\ n > Len7Max => h[3] = <<"ex", n>>
  /\ key # 0 => h[Len(h)] = <<"mk", key>>

LEMMA FrameHeadFacts ==
  ASSUME NEW op \in Nat, NEW n \in Nat, NEW key \in Keys, NEW last \in BOOLEAN,
         NEW h, h = getFrameHeader(op, n, key, last)
  PROVE  HeadOf(h, op, n, key, last)
<1>0. SUFFICES /\ h \in Seq(Cell) /\ Len(h) = HeadLen(n, key) /\ Code(n) \in Nat
               /\ h[1] = <<"h1", last, FALSE, op>> /\ h[2] = <<"h2", key # 0, Code(n)>>
               /\ n > Len7Max => h[3] = <<"ex", n>>
               /\ key # 0 => h[Len(h)] = <<"mk", key>>
  BY DEF HeadOf
<1>1. Code(n) \in Nat /\ Len7Max \in Nat
  BY WidthAssumption DEF Code, Code16, Code64
<1>2. PICK a, b, c, d : a = <<"h1", last, FALSE, op>> /\ b = <<"h2", key # 0, Code(n)>>
                        /\ c = <<"ex", n>> /\ d = <<"mk", key>>
  OBVIOUS
<1>3. a \in Cell /\ b \in Cell /\ c \in Cell /\ d \in Cell
  <2>1. a \in Cell
    BY <1>2 DEF Cell
  <2>2. b \in Cell
    BY <1>1, <1>2 DEF Cell
  <2>3. c \in Cell /\ d \in Cell
    BY <1>2 DEF Cell
  <2>4. QED
    BY <2>1, <2>2, <2>3
<1>4. h = << a, b >> \o (IF n > Len7Max THEN << c >> ELSE <<>>) \o (IF key # 0 THEN << d >> ELSE <<>>)
  BY <1>2 DEF getFrameHeader, Code
<1>5. /\ << a, b >> \o << >> = << a, b >> /\ << a, b >> \o << c >> = << a, b, c >>
      /\ << a, b >> \o << d >> = << a, b, d >> /\ << a, b, c >> \o << d >> = << a, b, c, d >>
      /\ << a, b, c >> \o << >> = << a, b, c >>
  <2>1. << a, b >> \o << >> = << a, b >> /\ << a, b, c >> \o << >> = << a, b, c >>
    BY <1>3, ConcatEmptySeq
  <2>2. << a, b >> \o << c >> = << a, b, c >>
    BY <1>3, JoinThree
  <2>3. << a, b >> \o << d >> = << a, b, d >>
    BY <1>3, JoinThree
  <2>4. << a, b, c >> \o << d >> = << a, b, c, d >>
    BY <1>3, JoinFour
  <2>5. QED
    BY <2>1, <2>2, <2>3, <2>4
<1>6. CASE n > Len7Max /\ key # 0
  <2>1. h = << a, b, c, d >>
    BY <1>4, <1>5, <1>6, Zenon
  <2>2. h \in Seq(Cell) /\ Len(h) = 4 /\ h[1] = a /\ h[2] = b /\ h[3] = c /\ h[4] = d
    BY <1>3, <2>1
  <2>3. HeadLen(n, key) = 4
    BY <1>1, <1>6 DEF HeadLen
  <2>4. h[1] = <<"h1", last, FALSE, op>> /\ h[2] = <<"h2", key # 0, Code(n)>>
    BY <1>2, <2>2, Zenon
  <2>5. (n > Len7Max => h[3] = <<"ex", n>>) /\ (key # 0 => h[4] = <<"mk", key>>)
    BY <1>2, <1>6, <2>2, Zenon
  <2>6. QED
    BY <1>1, <2>2, <2>3, <2>4, <2>5, Zenon
<1>7. CASE n > Len7Max /\ key = 0
  <2>1. h = << a, b, c >>
    BY <1>4, <1>5, <1>7, Zenon
  <2>2. h \in Seq(Cell) /\ Len(h) = 3 /\ h[1] = a /\ h[2] = b /\ h[3] = c
    BY <1>3, <2>1
  <2>3. HeadLen(n, key) = 3
    BY <1>1, <1>7 DEF HeadLen
  <2>4. h[1] = <<"h1", last, FALSE, op>> /\ h[2] = <<"h2", key # 0, Code(n)>>
    BY <1>2, <2>2, Zenon
  <2>5. (n > Len7Max => h[3] = <<"ex", n>>) /\ (key # 0 => h[3] = <<"mk", key>>)
    BY <1>2, <1>7, <2>2, Zenon
  <2>6. QED
    BY <1>1, <2>2, <2>3, <2>4, <2>5, Zenon
<1>8. CASE ~(n > Len7Max) /\ key # 0
  <2>1. h = << a, b, d >>
    BY <1>4, <1>5, <1>8, Zenon
  <2>2. h \in Seq(Cell) /\ Len(h) = 3 /\ h[1] = a /\ h[2] = b /\ h[3] = d
    BY <1>3, <2>1
  <2>3. HeadLen(n, key) = 3
    BY <1>1, <1>8 DEF HeadLen
  <2>4. h[1] = <<"h1", last, FALSE, op>> /\ h[2] = <<"h2", key # 0, Code(n)>>
    BY <1>2, <2>2, Zenon
  <2>5. (n > Len7Max => h[3] = <<"ex", n>>) /\ (key # 0 => h[3] = <<"mk", key>>)
    BY <1>2, <1>8, <2>2, Zenon
  <2>6. QED
    BY <1>1, <2>2, <2>3, <2>4, <2>5, Zenon
<1>9. CASE ~(n > Len7Max) /\ key = 0
  <2>1. h = << a, b >>
    BY <1>4, <1>5, <1>9, Zenon
  <2>2. h \in Seq(Cell) /\ Len(h) = 2 /\ h[1] = a /\ h[2] = b 
    BY <1>3, <2>1
  <2>3. HeadLen(n, key) = 2
    BY <1>1, <1>9 DEF HeadLen
  <2>4. h[1] = <<"h1", last, FALSE, op>> /\ h[2] = <<"h2", key # 0, Code(n)>>
    BY <1>2, <2>2, Zenon
  <2>5. (n > Len7Max => h[3] = <<"ex", n>>) /\ (key # 0 => h[2] = <<"mk", key>>)
    BY <1>2, <1>9, <2>2, Zenon
  <2>6. QED
    BY <1>1, <2>2, <2>3, <2>4, <2>5, Zenon
<1>10. QED
  BY <1>6, <1>7, <1>8, <1>9

LEMMA MessageFacts ==
  ASSUME NEW id \in Ids
  PROVE  Message[id].n \in Nat /\ Message[id].zero \in BOOLEAN /\ Message[id].op \in Opcode
         /\ Message[id].op \in Nat
<1>1. Message[id] \in [n : Nat, zero : BOOLEAN, op : Opcode]
  BY MessageAssumption DEF Ids, Opcode
<1>2. QED
  BY <1>1 DEF Opcode, Text, Binary, CloseOp, PingOp, PongOp

(* The payload cells of a buffer. *)
PlainCell(c) == c \in {"pl"} \X Ids \X Nat \X SUBSET Keys

LEMMA PayloadFacts ==
  ASSUME BufferType, NEW e \in End, NEW id \in Ids
  PROVE  /\ Payload(e, id) \in Seq(Cell) /\ Len(Payload(e, id)) = Message[id].n
         /\ \A i \in 1 .. Message[id].n :
              /\ Payload(e, id)[i] = <<"pl", id, i, buffer[e][id][i]>>
              /\ buffer[e][id][i] \in SUBSET Keys /\ PlainCell(Payload(e, id)[i])
<1>1. PICK n \in Nat : n = Message[id].n
  BY MessageFacts
<1>2. \A i \in 1 .. n : buffer[e][id][i] \in SUBSET Keys
  BY <1>1 DEF BufferType
<1>3. \A i \in 1 .. n : Payload(e, id)[i] = <<"pl", id, i, buffer[e][id][i]>>
  BY <1>1 DEF Payload
<1>4. \A i \in 1 .. n : <<"pl", id, i, buffer[e][id][i]>> \in {"pl"} \X Ids \X Nat \X SUBSET Keys
  BY <1>2
<1>5. Payload(e, id) \in [1 .. n -> Cell]
  <2>1. \A i \in 1 .. n : <<"pl", id, i, buffer[e][id][i]>> \in Cell
    BY <1>4 DEF Cell
  <2>2. QED
    BY <1>1, <2>1 DEF Payload
<1>6. Payload(e, id) \in Seq(Cell) /\ Len(Payload(e, id)) = n
  BY <1>5, SeqOf
<1>7. \A i \in 1 .. n : PlainCell(Payload(e, id)[i])
  BY <1>3, <1>4, Zenon DEF PlainCell
<1>8. QED
  BY <1>1, <1>2, <1>3, <1>6, <1>7, Zenon

LEMMA RawFacts ==
  ASSUME BufferType, NEW e \in End, NEW id \in Ids
  PROVE  /\ Raw(e, id) \in Seq(Cell) /\ Len(Raw(e, id)) = Message[id].n + 1
         /\ Raw(e, id)[1] = <<"sz", id, IF Message[id].zero THEN 0 ELSE Message[id].n + 1>>
         /\ \A i \in 1 .. Message[id].n : Raw(e, id)[i + 1] = Payload(e, id)[i]
<1>1. PICK n \in Nat : n = Message[id].n
  BY MessageFacts
<1>2. PICK p \in Seq(Cell) : p = Payload(e, id) /\ Len(p) = n
  BY <1>1, PayloadFacts
<1>3. PICK z \in Nat : z = IF Message[id].zero THEN 0 ELSE n + 1
  OBVIOUS
<1>4. PICK c \in Cell : c = <<"sz", id, z>>
  BY DEF Cell
<1>5. Raw(e, id) = << c >> \o p
  BY <1>1, <1>2, <1>3, <1>4 DEF Raw
<1>6. /\ << c >> \o p \in Seq(Cell) /\ Len(<< c >> \o p) = 1 + n
      /\ \A i \in 1 .. 1 + n : (<< c >> \o p)[i] = IF i <= 1 THEN << c >>[i] ELSE p[i - 1]
  <2>1. << c >> \in Seq(Cell) /\ Len(<< c >>) = 1
    OBVIOUS
  <2>2. QED
    BY <1>2, <2>1, ConcatProperties
<1>7. (<< c >> \o p)[1] = c
  BY <1>6
<1>8. ASSUME NEW i \in 1 .. n PROVE (<< c >> \o p)[i + 1] = p[i]
  <2>1. i + 1 \in 1 .. 1 + n /\ ~(i + 1 <= 1) /\ (i + 1) - 1 = i
    OBVIOUS
  <2>2. QED
    BY <1>6, <2>1
<1>9. QED
  BY <1>1, <1>2, <1>3, <1>4, <1>5, <1>6, <1>7, <1>8

LEMMA MaskFacts ==
  ASSUME NEW d \in Seq(Cell), \A i \in 1 .. Len(d) : PlainCell(d[i]), NEW key \in Keys
  PROVE  /\ mask(d, 1, Len(d), key) \in Seq(Cell) /\ Len(mask(d, 1, Len(d), key)) = Len(d)
         /\ \A i \in 1 .. Len(d) : /\ mask(d, 1, Len(d), key)[i] = Unmasked(d[i], key)
                                   /\ PlainCell(mask(d, 1, Len(d), key)[i])
<1> DEFINE m == mask(d, 1, Len(d), key)
<1>1. PICK n \in Nat : n = Len(d) /\ DOMAIN d = 1 .. n
  BY LenProperties
<1>2. ASSUME NEW i \in 1 .. n
      PROVE  /\ [d[i] EXCEPT ![4] = Xor(@, key)] = Unmasked(d[i], key) /\ PlainCell(Unmasked(d[i], key))
             /\ Unmasked(d[i], key) \in Cell
  <2>1. PICK id \in Ids, j \in Nat, x \in SUBSET Keys : d[i] = <<"pl", id, j, x>>
    BY <1>1 DEF PlainCell
  <2>2. d[i] \in AnyCell /\ d[i][1] = "pl"
    BY <1>1, <2>1, ElementOfSeq DEF AnyCell
  <2>3. /\ Unmasked(d[i], key) \in Cell /\ Unmasked(d[i], key)[1] = "pl"
    BY <2>2, UnmaskedCell
  <2>4. PlainCell(Unmasked(d[i], key))
    <3>1. Unmasked(d[i], key) \in AnyCell
      BY <2>3 DEF AnyCell
    <3>2. QED
      BY <2>3, <3>1, CellFacts DEF PlainCell
  <2>5. [d[i] EXCEPT ![4] = Xor(@, key)] = Unmasked(d[i], key)
    <3>1. CASE key = 0
      <4>1. [<<"pl", id, j, x>> EXCEPT ![4] = x] = <<"pl", id, j, x>>
        OBVIOUS
      <4>2. Xor(d[i][4], key) = x
        BY <2>1, <3>1 DEF Xor
      <4>3. QED
        BY <2>1, <3>1, <4>1, <4>2 DEF Unmasked
    <3>2. CASE key # 0
      BY <3>2 DEF Unmasked
    <3>3. QED
      BY <3>1, <3>2
  <2>6. QED
    BY <2>3, <2>4, <2>5
<1>3. m = [i \in 1 .. n |-> [d[i] EXCEPT ![4] = Xor(@, key)]]
  BY <1>1 DEF mask
<1> HIDE DEF m
<1>4. m \in [1 .. n -> Cell] /\ \A i \in 1 .. n : m[i] = Unmasked(d[i], key)
  BY <1>2, <1>3
<1>5. m \in Seq(Cell) /\ Len(m) = n
  BY <1>4, SeqOf
<1>6. QED
  BY <1>1, <1>2, <1>4, <1>5 DEF m

(* The number of frames of a message, and the length of each. *)
LEMMA Division ==
  ASSUME NEW M \in Nat \ {0}, NEW a \in Nat
  PROVE  a \div M \in Nat /\ a % M \in 0 .. M - 1 /\ a = M * (a \div M) + (a % M)
  OBVIOUS

LEMMA FramesCover ==
  ASSUME NEW M \in Nat \ {0}, NEW n \in Nat \ {0}, NEW F, F = (n + M - 1) \div M
  PROVE  /\ F \in Nat \ {0} /\ M * (F - 1) \in Nat /\ M * (F - 1) < n /\ n <= M * F
         /\ \A i \in 1 .. F : M * (i - 1) \in Nat /\ M * i = M * (i - 1) + M /\ M * i <= M * F
         /\ \A i \in 1 .. F - 1 : M * i <= M * (F - 1)
<1> DEFINE a == n + M - 1
           p == M * F
<1>1. a \in Nat
  OBVIOUS
<1>2. PICK r \in 0 .. M - 1 : F \in Nat /\ a = M * F + r
  BY <1>1, Division
<1>3. p \in Nat /\ \A x \in Int : M * (x - 1) = M * x - M
  BY <1>2
<1>4. n + M - 1 = p + r /\ M * (F - 1) = p - M
  BY <1>2, <1>3
<1> HIDE DEF p
<1>5. p - M < n /\ n <= p
  BY <1>2, <1>3, <1>4
<1>6. F # 0
  <2>1. ASSUME F = 0 PROVE p = 0
    BY <2>1 DEF p
  <2>2. QED
    BY <1>5, <1>3, <2>1
<1>7. F \in Nat \ {0} /\ F - 1 \in Nat
  BY <1>2, <1>6
<1>8. M * (F - 1) \in Nat
  BY <1>7
<1>9. ASSUME NEW i \in 1 .. F
      PROVE  M * (i - 1) \in Nat /\ M * i = M * (i - 1) + M /\ M * i <= M * F
  <2>1. i - 1 \in Nat /\ i \in Nat /\ F - i \in Nat
    BY <1>7
  <2>2. M * (i - 1) \in Nat /\ M * i \in Nat /\ M * (F - i) \in Nat
    BY <2>1
  <2>3. M * (F - i) = M * F - M * i /\ M * (i - 1) = M * i - M
    BY <2>1, <1>7
  <2> DEFINE x == M * i  y == M * (F - i) z == M * (i - 1)
  <2>4. QED
    BY <2>2, <2>3, <1>3 DEF p
<1>10. ASSUME NEW i \in 1 .. F - 1
       PROVE  M * i <= M * (F - 1)
  <2>1. i \in Nat /\ F - 1 - i \in Nat
    BY <1>7
  <2>2. M * (F - 1 - i) \in Nat
    BY <2>1
  <2>3. M * (F - 1 - i) = M * (F - 1) - M * i
    BY <2>1, <1>7
  <2>4. M * i \in Nat
    BY <2>1
  <2>5. QED
    BY <2>2, <2>3, <2>4, <1>8
<1>11. QED
  BY <1>4, <1>5, <1>7, <1>8, <1>9, <1>10 DEF p
(* A header and its payload. *)
SentFrame(h, p, op, n, key, last) ==
  /\ h = getFrameHeader(op, n, key, last) /\ p \in Seq(Cell) /\ Len(p) = n
  /\ \A j \in 1 .. n : PlainCell(p[j])

(* The frame i of a message of F frames that starts with the opcode op. *)
MessageFrame(calls, i, F, op, key, n) ==
  \E L \in 1 .. n :
    /\ SentFrame(calls[2 * i - 1], calls[2 * i], IF i = 1 THEN op ELSE Continue, L, key[i], i = F)
    /\ F = 1 => L = n

(* What sendMsg is called with, and the calls of send it makes. *)
SendMsgCall(body, op, M, n, F, key, calls) ==
  /\ body \in Seq(Cell) /\ (\A i \in 1 .. Len(body) : PlainCell(body[i])) /\ op \in Nat
  /\ M \in Nat \ {0} /\ n \in Nat /\ n = Len(body) /\ F = numFrames(n, M) /\ key \in [1 .. F -> Keys]
  /\ calls = sendMsg(body, op, key, M)

SendMsgMakes(body, op, M, n, F, key, calls) ==
  /\ F \in Nat \ {0} /\ (n <= M <=> F = 1)
  /\ n = 0 => calls = << getFrameHeader(op, 0, key[1], TRUE) >>
  /\ n # 0 => /\ calls = [j \in 1 .. 2 * F |-> calls[j]] /\ \A i \in 1 .. F : MessageFrame(calls, i, F, op, key, n)
              /\ F = 1 => \A j \in 1 .. n : calls[2][j] = Unmasked(body[j], key[1])

LEMMA SendMsgFacts ==
  ASSUME NEW body, NEW op, NEW M, NEW n, NEW F, NEW key, NEW calls, SendMsgCall(body, op, M, n, F, key, calls)
  PROVE  SendMsgMakes(body, op, M, n, F, key, calls)
<1>0. /\ body \in Seq(Cell) /\ (\A i \in 1 .. Len(body) : PlainCell(body[i])) /\ op \in Nat
      /\ M \in Nat \ {0} /\ n \in Nat /\ n = Len(body) /\ F = numFrames(n, M) /\ key \in [1 .. F -> Keys]
      /\ calls = sendMsg(body, op, key, M)
  BY DEF SendMsgCall
<1> USE <1>0
<1> DEFINE Prt(i) == SubSeq(body, ((i - 1) * M) + 1, IF i = F THEN n ELSE i * M)
           FrameHead(i) == getFrameHeader(IF i = 1 THEN op ELSE Continue, Len(Prt(i)), key[i], i = F)
           Calls == [j \in 1 .. 2 * F |-> IF j % 2 = 1 THEN FrameHead((j + 1) \div 2)
                      ELSE mask(Prt((j + 1) \div 2), 1, Len(Prt((j + 1) \div 2)), key[(j + 1) \div 2])]
<1>1. calls = IF n = 0 THEN << FrameHead(1) >> ELSE Calls
  BY DEF sendMsg
<1>2. CASE n = 0
  <2>1. F = 1
    BY <1>2 DEF numFrames
  <2>2. Prt(1) = <<>> /\ Len(Prt(1)) = 0
    <3>1. ((1 - 1) * M) + 1 = 1
      OBVIOUS
    <3>2. Prt(1) = SubSeq(body, 1, 0)
      BY <1>2, <2>1, <3>1
    <3>3. SubSeq(body, 1, 0) = <<>> /\ Len(<<>>) = 0
      BY SubSeqEmpty
    <3>4. QED
      BY <3>2, <3>3, Zenon
  <2>3. FrameHead(1) = getFrameHeader(op, 0, key[1], TRUE)
    BY <2>1, <2>2
  <2> HIDE DEF Prt, FrameHead, Calls
  <2>4. calls = << getFrameHeader(op, 0, key[1], TRUE) >>
    BY <1>1, <1>2, <2>3
  <2>5. QED
    BY <1>2, <2>1, <2>4 DEF SendMsgMakes
<1>3. CASE n # 0
  <2>1. F = (n + M - 1) \div M
    BY <1>3 DEF numFrames
  <2>2. /\ F \in Nat \ {0} /\ M * (F - 1) \in Nat /\ M * (F - 1) < n /\ n <= M * F
        /\ \A i \in 1 .. F : M * (i - 1) \in Nat /\ M * i = M * (i - 1) + M /\ M * i <= M * F
        /\ \A i \in 1 .. F - 1 : M * i <= M * (F - 1)
    BY <1>3, <2>1, FramesCover
  <2>3. n <= M <=> F = 1
    <3>1. ASSUME F = 1 PROVE n <= M
      BY <2>2, <3>1
    <3>2. ASSUME F # 1 PROVE M < n
      <4>1. 1 \in 1 .. F - 1
        BY <2>2, <3>2
      <4>2. M * 1 <= M * (F - 1)
        BY <2>2, <4>1
      <4>3. M * 1 = M
        OBVIOUS
      <4>4. QED
        BY <2>2, <4>2, <4>3
    <3>3. QED
      BY <2>2, <3>1, <3>2
  <2>4. calls = Calls
    BY <1>1, <1>3
  <2>5. ASSUME NEW i \in 1 .. F
        PROVE  /\ calls[2 * i - 1] = FrameHead(i)
               /\ calls[2 * i] = mask(Prt(i), 1, Len(Prt(i)), key[i])
    <3>1. /\ 2 * i - 1 \in 1 .. 2 * F /\ (2 * i - 1) % 2 = 1 /\ ((2 * i - 1) + 1) \div 2 = i
          /\ 2 * i \in 1 .. 2 * F /\ (2 * i) % 2 = 0 /\ (2 * i + 1) \div 2 = i
      BY <2>2
    <3> HIDE DEF Prt, FrameHead
    <3>2. calls[2 * i - 1] = FrameHead(i)
      BY <2>4, <3>1
    <3>3. calls[2 * i] = mask(Prt(i), 1, Len(Prt(i)), key[i])
      BY <2>4, <3>1
    <3>4. QED
      BY <3>2, <3>3
  <2>6. ASSUME NEW i \in 1 .. F
        PROVE  /\ MessageFrame(calls, i, F, op, key, n)
               /\ F = 1 => \A j \in 1 .. n : calls[2][j] = Unmasked(body[j], key[1])
    <3> DEFINE a == M * (i - 1)
               b == IF i = F THEN n ELSE M * i
    <3>1. a \in Nat /\ b \in Nat /\ a < b /\ b <= n /\ (F = 1 => a = 0 /\ b = n)
      <4>1. CASE i = F
        BY <2>2, <4>1
      <4>2. CASE i # F
        <5>1. i \in 1 .. F - 1
          BY <2>2, <4>2
        <5>2. M * i <= M * (F - 1) /\ M * (i - 1) \in Nat /\ M * i = M * (i - 1) + M
          BY <2>2, <5>1
        <5>3. QED
          BY <2>2, <4>2, <5>1, <5>2
      <4>3. QED
        BY <4>1, <4>2
    <3>2. Prt(i) = SubSeq(body, a + 1, b)
      <4>1. (i - 1) * M = M * (i - 1) /\ i * M = M * i
        BY <2>2
      <4>2. QED
        BY <4>1
    <3>3. PICK k \in Keys : k = key[i]
      OBVIOUS
    <3>4. PICK p, m : p = Prt(i) /\ m = mask(p, 1, Len(p), key[i])
      OBVIOUS
    <3> HIDE DEF a, b, Prt, FrameHead, Calls
    <3>12. PICK x \in Nat, y \in Nat : x = a /\ y = b
      BY <3>1
    <3>13. p = SubSeq(body, x + 1, y) /\ m = mask(p, 1, Len(p), k) /\ y <= Len(body) /\ x < y
      BY <3>1, <3>2, <3>3, <3>4, <3>12
    <3>14. /\ Len(p) = y - x /\ m \in Seq(Cell) /\ Len(m) = y - x /\ \A j \in 1 .. y - x : PlainCell(m[j])
           /\ \A j \in 1 .. y - x : m[j] = Unmasked(body[x + j], k)
      <4>1. Len(body) \in Nat
        BY LenProperties
      <4>2. x + 1 \in Nat \ {0} /\ y \in 0 .. Len(body) /\ x + 1 <= y + 1
        BY <3>13, <4>1
      <4>3. /\ p \in Seq(Cell) /\ Len(p) = y - (x + 1) + 1
            /\ \A z \in 1 .. y - (x + 1) + 1 : p[z] = body[x + 1 + z - 1]
        BY <3>13, <4>2, PartOf
      <4>8. y - (x + 1) + 1 = y - x /\ \A z \in 1 .. y - x : x + 1 + z - 1 = x + z
        OBVIOUS
      <4>4. Len(p) = y - x /\ \A z \in 1 .. y - x : p[z] = body[x + z]
        BY <4>3, <4>8
      <4>5. \A z \in 1 .. Len(p) : PlainCell(p[z])
        <5> SUFFICES ASSUME NEW z \in 1 .. Len(p) PROVE PlainCell(p[z])
          OBVIOUS
        <5>1. x + z \in 1 .. Len(body) /\ p[z] = body[x + z]
          BY <3>13, <4>1, <4>4
        <5>2. QED
          BY <5>1
      <4>6. /\ m \in Seq(Cell) /\ Len(m) = Len(p)
            /\ \A z \in 1 .. Len(p) : m[z] = Unmasked(p[z], k) /\ PlainCell(m[z])
        BY <3>13, <4>3, <4>5, MaskFacts
      <4>7. QED
        BY <4>4, <4>6
    <3>5. /\ Len(Prt(i)) = b - a /\ m \in Seq(Cell) /\ Len(m) = b - a /\ \A j \in 1 .. b - a : PlainCell(m[j])
          /\ \A j \in 1 .. b - a : m[j] = Unmasked(body[a + j], key[i])
      BY <3>3, <3>4, <3>12, <3>14
    <3>6. calls[2 * i - 1] = FrameHead(i) /\ calls[2 * i] = m
      BY <2>5, <3>4
    <3>7. PICK L \in 1 .. n : L = b - a /\ (F = 1 => L = n /\ a = 0)
      BY <3>1
    <3>8. SentFrame(calls[2 * i - 1], calls[2 * i], IF i = 1 THEN op ELSE Continue, L, key[i], i = F)
      BY <3>5, <3>6, <3>7 DEF SentFrame, FrameHead
    <3>9. MessageFrame(calls, i, F, op, key, n)
      BY <3>7, <3>8 DEF MessageFrame
    <3>10. ASSUME F = 1 PROVE \A j \in 1 .. n : calls[2][j] = Unmasked(body[j], key[1])
      <4>1. i = 1 /\ 2 * i = 2
        BY <3>10
      <4>2. calls[2] = m /\ L = n /\ a = 0
        BY <3>6, <3>7, <3>10, <4>1
      <4>3. \A j \in 1 .. n : m[j] = Unmasked(body[j], key[1])
        BY <3>5, <3>7, <4>1, <4>2
      <4>4. QED
        BY <4>2, <4>3
    <3>11. QED
      BY <3>9, <3>10
  <2>7. calls = [j \in 1 .. 2 * F |-> calls[j]]
    BY <2>4
  <2>8. 1 \in 1 .. F
    BY <2>2
  <2>9. QED
    BY <1>3, <2>2, <2>3, <2>6, <2>7, <2>8 DEF SendMsgMakes
<1>4. QED
  BY <1>2, <1>3

LEMMA XorKeys ==
  ASSUME NEW x \in SUBSET Keys, NEW key \in Keys
  PROVE  Xor(x, key) \in SUBSET Keys /\ Xor(Xor(x, key), key) = x
  BY DEF Xor

-----------------------------------------------------------------------------
(* What every step keeps *)

(* What holds of the socket t of e. *)
SockOK(e, t) ==
  /\ Fits(t, Length(e)) /\ FrameFits(t)
  /\ Cls(e) \in RawClass => t.status = "TCP"
  /\ Cls(e) \notin RawClass /\ t.status # "Connecting" => t.status = Proper(e) /\ Accepts(e)
  /\ t.status # "WebSocket" => t.frame = NewFrame
  /\ t.early => Cls(e) = "WebSocket"

LEMMA SockOKIf ==
  ASSUME NEW e, NEW s, NEW t, SockOK(e, s), Fits(t, Length(e)), t.status = s.status, t.frame = s.frame,
         t.early = s.early, s.frame.st = "Done" => s.frame.length <= t.left
  PROVE  SockOK(e, t)
  BY Zenon DEF SockOK, FrameFits

LEMMA SockOKOf ==
  ASSUME Base, NEW e \in End
  PROVE  /\ SockOK(e, sock[e]) /\ Length(e) \in Nat /\ sock[e] \in SockType(Length(e)) /\ conf \in Configs /\ SocksType
         /\ sock[e].left \in Nat /\ sock[e].frame \in FrameType /\ sock[e].frame.length \in Nat
         /\ sock[e].frame.st = "Done" => sock[e].frame.length <= sock[e].left
<1>1. conf \in Configs /\ SocksType /\ FrameFits(sock[e]) /\ StatusOK(e)
  BY DEF Base, Types
<1>2. /\ Fits(sock[e], Length(e)) /\ Length(e) \in Nat \ {0} /\ sock[e].left \in Nat
      /\ sock[e] \in SockType(Length(e))
  BY <1>1, SockOf
<1>3. sock[e].frame \in FrameType
  BY <1>2, SockFacts
<1>4. sock[e].frame.length \in Nat
  BY <1>3, FrameFields
<1>5. SockOK(e, sock[e])
  BY <1>1, <1>2 DEF SockOK, StatusOK
<1>6. QED
  BY <1>1, <1>2, <1>3, <1>4, <1>5 DEF FrameFits

LEMMA MovedOK ==
  ASSUME NEW e, NEW s, NEW t, SockOK(e, s), Moved(s, t, Length(e))
  PROVE  SockOK(e, t)
<1>1. Fits(t, Length(e)) /\ Kept(s, t) /\ t.left = s.left
  BY DEF Moved
<1>2. s.frame.st = "Done" => s.frame.length <= t.left
  BY <1>1, Zenon DEF SockOK, FrameFits
<1>3. QED
  BY <1>1, <1>2, SockOKIf DEF Kept

LEMMA LookedOK ==
  ASSUME NEW e, NEW s, NEW t, SockOK(e, s), Looked(e, s, t)
  PROVE  SockOK(e, t)
<1>1. Fits(t, Length(e)) /\ t.left = s.left /\ t.status = s.status /\ t.frame = s.frame /\ t.early = s.early
  BY DEF Looked
<1>2. s.frame.st = "Done" => s.frame.length <= t.left
  BY <1>1, Zenon DEF SockOK, FrameFits
<1>3. QED
  BY <1>1, <1>2, SockOKIf

(* A frame that is not complete does not look at what is left. *)
LEMMA NewFrameOK ==
  NewFrame.st = "ReadHeader" /\ FrameOK(NewFrame)
  BY DEF NewFrame, FrameOK

LEMMA RawOK ==
  ASSUME NEW e \in End, NEW s, NEW t, NEW cb, SockOK(e, s), s.status = "TCP", s.pc = "read",
         RawWaits(e, s, t, cb) \/ RawStops(e, s, t, cb) \/ RawTakes(e, s, t, cb)
  PROVE  SockOK(e, t) /\ t.pc # "new"
<1>1. CASE RawWaits(e, s, t, cb)
  BY <1>1, MovedOK DEF RawWaits, Compacted
<1>2. CASE RawStops(e, s, t, cb)
  BY <1>2, MovedOK DEF RawStops, Halts
<1>3. CASE RawTakes(e, s, t, cb)
  <2>1. Fits(t, Length(e)) /\ Kept(s, t) /\ t.pc = s.pc
    BY <1>3 DEF RawTakes, Takes
  <2>2. s.frame = NewFrame
    BY DEF SockOK
  <2>3. s.frame.st # "Done"
    BY <2>2, NewFrameOK
  <2>4. QED
    BY <2>1, <2>3, SockOKIf DEF Kept
<1>4. QED
  BY <1>1, <1>2, <1>3

LEMMA TurnedOK ==
  ASSUME NEW e, NEW s, NEW t, NEW g, NEW d, NEW o, SockOK(e, s), s.status = "WebSocket",
         Turned(s, t, g, d, o, Length(e)), FrameOK(g), g.st = "Done" => g.length <= t.left
  PROVE  SockOK(e, t) /\ t.pc = s.pc
  BY Zenon DEF SockOK, FrameFits, Turned

LEMMA FrameStepOK ==
  ASSUME NEW e \in End, NEW s, NEW t, NEW cb, SockOK(e, s), s.status = "WebSocket", s.pc = "read", s.left \in Nat,
         Len(Window(s)) = s.left, s.frame.st = "Done" => s.frame.length <= s.left,
         FrameWaits(e, s, t, cb) \/ FrameStops(e, s, t, cb) \/ FrameReads(e, s, t, cb)
         \/ FrameStays(e, s, t, cb) \/ FrameEnds(e, s, t, cb)
  PROVE  SockOK(e, t) /\ t.pc # "new"
<1>1. CASE FrameWaits(e, s, t, cb)
  BY <1>1, MovedOK DEF FrameWaits, Compacted
<1>2. CASE FrameStops(e, s, t, cb)
  BY <1>2, MovedOK DEF FrameStops, Halts
<1>3. CASE FrameReads(e, s, t, cb)
  <2>1. PICK g, d, o : Turned(s, t, g, d, o, Length(e)) /\ Reads(s.frame, Window(s), g, d, o)
    BY <1>3 DEF FrameReads
  <2>2. FrameOK(g) /\ (g.st = "Done" => g.length <= Len(Window(s)) - o)
    BY <2>1 DEF Reads
  <2>3. t.left = s.left - o
    BY <2>1 DEF Turned
  <2>4. QED
    BY <2>1, <2>2, <2>3, TurnedOK
<1>4. CASE FrameStays(e, s, t, cb)
  <2>1. PICK u, g, r : /\ Turned(s, u, g, Window(s), 0, Length(e)) /\ Compacted(e, u, t)
                       /\ g \in FrameType /\ FrameOK(g) /\ TurnStays(s.frame, r, g, 0) /\ s.frame.st = "Done"
    BY <1>4 DEF FrameStays
  <2>2. g.length = s.frame.length /\ u.left = s.left - 0
    BY <2>1 DEF TurnStays, Turned
  <2>3. g.length <= u.left
    BY <2>1, <2>2
  <2>4. SockOK(e, u)
    BY <2>1, <2>3, TurnedOK
  <2>5. QED
    BY <2>1, <2>4, MovedOK DEF Compacted
<1>5. CASE FrameEnds(e, s, t, cb)
  <2>1. PICK g, r : /\ Turned(s, t, g, Window(s), s.frame.length, Length(e))
                    /\ g \in FrameType /\ FrameOK(g) /\ g.st = "ReadHeader"
    BY <1>5 DEF FrameEnds, TurnEnds
  <2>2. QED
    BY <2>1, TurnedOK
<1>6. QED
  BY <1>1, <1>2, <1>3, <1>4, <1>5

LEMMA UpgradeOK ==
  ASSUME NEW e \in End, NEW t, NEW cb, SockOK(e, sock[e]), sock[e].status = "Connecting", sock[e].pc = "read",
         Cls(e) \notin RawClass, Upgrades(e, t, cb)
  PROVE  SockOK(e, t) /\ t.pc # "new"
<1> DEFINE s == sock[e]
<1>1. CASE UpgradeWaits(e, s, t, cb) \/ UpgradeRefused(e, s, t, cb)
  <2>1. PICK u : Looked(e, s, u) /\ Compacted(e, u, t)
    BY <1>1 DEF UpgradeWaits, UpgradeRefused
  <2>2. SockOK(e, u)
    BY <2>1, LookedOK
  <2>3. QED
    BY <2>1, <2>2, MovedOK DEF Compacted
<1>2. CASE UpgradeStops(e, s, t, cb)
  <2>1. PICK u : Looked(e, s, u) /\ (Halts(e, u, t, "crashed") \/ Halts(e, u, t, "garbled"))
    BY <1>2 DEF UpgradeStops
  <2>2. SockOK(e, u)
    BY <2>1, LookedOK
  <2>3. QED
    BY <2>1, <2>2, MovedOK DEF Halts
<1>3. CASE UpgradeOpens(e, s, t, cb)
  <2>1. PICK u, v : /\ Looked(e, s, u) /\ Takes(e, u, v, HeaderEnd(s))
                    /\ Fits(t, Length(e)) /\ t.status = Proper(e) /\ t.frame = v.frame /\ t.early = v.early
                    /\ t.pc = v.pc
    BY <1>3 DEF UpgradeOpens, Opened
  <2>2. t.frame = s.frame /\ t.early = s.early /\ t.pc = s.pc
    BY <2>1 DEF Takes, Kept, Looked
  <2>3. s.frame = NewFrame /\ Accepts(e) /\ (s.early => Cls(e) = "WebSocket")
    BY <1>3 DEF UpgradeOpens, SockOK
  <2>4. FrameFits(t)
    BY <2>2, <2>3, NewFrameOK DEF FrameFits
  <2> HIDE DEF s
  <2>5. SockOK(e, t)
    BY <2>1, <2>2, <2>3, <2>4 DEF SockOK
  <2>6. QED
    BY <2>2, <2>5 DEF s
<1>4. QED
  BY <1>1, <1>2, <1>3 DEF Upgrades

(* The types of the variables that are no socket. *)
Rest ==
  /\ wire \in [End -> Seq(Cell)] /\ \A x \in End : Len(wire[x]) <= Room
  /\ ready \in [End -> BOOLEAN] /\ shut \in [End -> BOOLEAN] /\ broken \in BOOLEAN
  /\ out \in [End -> OutType] /\ \A x \in End : CallOK(out[x])
  /\ next \in [End -> Nat \ {0}] /\ BufferType
  /\ sent \in [End -> Seq(Entry)] /\ got \in [End -> Seq(Entry)]

LEMMA RestOf ==
  ASSUME Base
  PROVE  Rest
  BY DEF Base, Types, Rest

LEMMA SameConf ==
  ASSUME conf' = conf, NEW x \in End
  PROVE  /\ Length(x)' = Length(x) /\ Cls(x)' = Cls(x) /\ Proper(x)' = Proper(x) /\ Accepts(x)' = Accepts(x)
         /\ Units(x)' = Units(x)
  BY DEF Length, Cls, Proper, Accepts, Request, Response, Units

LEMMA BaseIf ==
  ASSUME Base, NEW e \in End, NEW t, sock' = [sock EXCEPT ![e] = t], SockOK(e, t),
         t.pc = "new" => sock[e].pc = "new" /\ out'[e].calls = <<>> /\ t.status = sock[e].status,
         conf' = conf, \A x \in End : x # e => out'[x] = out[x], Rest'
  PROVE  Base'
<1>1. sock = [x \in End |-> sock[x]]
  BY DEF Base, Types, SocksType
<1>2. sock' = [x \in End |-> sock'[x]] /\ sock'[e] = t /\ \A x \in End : x # e => sock'[x] = sock[x]
  BY <1>1
<1>3. ASSUME NEW x \in End
      PROVE  /\ SockOK(x, sock'[x])
             /\ sock'[x].pc = "new" => /\ sock[x].pc = "new" /\ out'[x].calls = <<>>
                                       /\ sock'[x].status = sock[x].status
  <2>1. CASE x = e
    BY <1>2, <2>1
  <2>2. CASE x # e
    <3>1. SockOK(x, sock[x])
      BY SockOKOf
    <3>2. sock[x].pc = "new" => out[x].calls = <<>>
      BY DEF Base, StatusOK
    <3>3. QED
      BY <1>2, <2>2, <3>1, <3>2
  <2>3. QED
    BY <2>1, <2>2
<1>4. ASSUME NEW x \in End
      PROVE  /\ FrameFits(sock'[x]) /\ StatusOK(x)'
             /\ sock'[x] \in SockType(Length(x)') /\ sock'[x].off + sock'[x].left <= Length(x)'
  <2>1. SockOK(x, sock'[x])
    BY <1>3
  <2>2. /\ Length(x)' = Length(x) /\ Cls(x)' = Cls(x) /\ Proper(x)' = Proper(x) /\ Accepts(x)' = Accepts(x)
    BY SameConf
  <2>3. FrameFits(sock'[x]) /\ sock'[x] \in SockType(Length(x)') /\ sock'[x].off + sock'[x].left <= Length(x)'
    BY <2>1, <2>2 DEF SockOK, Fits
  <2>4. sock'[x].pc = "new" => /\ sock'[x].status = "Connecting" /\ out'[x].calls = <<>>
                               /\ Cls(x) = "HBSocketClient"
    <3>1. ASSUME sock'[x].pc = "new"
          PROVE  sock[x].status = "Connecting" /\ out'[x].calls = <<>> /\ Cls(x) = "HBSocketClient"
      BY <1>3, <3>1 DEF Base, StatusOK
    <3>2. QED
      BY <1>3, <3>1
  <2>5. QED
    BY <2>1, <2>2, <2>3, <2>4 DEF StatusOK, SockOK
<1>5. SocksType'
  BY <1>2, <1>4 DEF SocksType
<1>6. conf' \in Configs
  BY DEF Base, Types
<1>7. Types'
  BY <1>5, <1>6 DEF Types, Rest
<1>8. QED
  BY <1>4, <1>7 DEF Base, Rest

LEMMA ParkBase ==
  ASSUME Base, NEW e \in End, NEW t, Parks(e, t)
  PROVE  Base'
<1>1. Rest /\ SockOK(e, sock[e]) /\ (sock[e].pc = "new" => out[e].calls = <<>>)
  BY RestOf, SockOKOf DEF Base, StatusOK
<1>2. PICK pc \in Pcs :
        /\ Halts(e, sock[e], t, pc)
        /\ pc = sock[e].pc \/ (sock[e].pc \in {"idle", "recv"} /\ pc \in {"idle", "recv", "closed"})
  BY DEF Parks
<1>3. SockOK(e, t) /\ t.pc = pc /\ t.status = sock[e].status
  BY <1>1, <1>2, MovedOK DEF Halts, Moved, Kept
<1>4. /\ sock' = [sock EXCEPT ![e] = t] /\ out' = out /\ conf' = conf
      /\ t.pc = "new" => sock[e].pc = "new" /\ out'[e].calls = <<>> /\ t.status = sock[e].status
  BY <1>1, <1>2, <1>3 DEF Parks
<1>5. wire' \in [End -> Seq(Cell)] /\ \A x \in End : Len(wire'[x]) <= Room
  <2>1. CASE wire' = wire
    BY <1>1, <2>1 DEF Rest
  <2>2. CASE wire' = [x \in End |-> <<>>]
    <3>1. <<>> \in Seq(Cell) /\ Len(<<>>) <= Room
      BY RoomAssumption
    <3>2. QED
      BY <2>2, <3>1
  <2>3. QED
    BY <2>1, <2>2 DEF Parks
<1>6. Rest'
  BY <1>1, <1>4, <1>5 DEF Rest, Parks, BufferType
<1>7. QED
  BY <1>3, <1>4, <1>6, BaseIf

LEMMA StartBase ==
  ASSUME Base, NEW e \in End, NEW t, Starts(e, t)
  PROVE  Base'
<1>1. Rest /\ SockOK(e, sock[e])
  BY RestOf, SockOKOf
<1>2. SockOK(e, t) /\ t.pc = "idle"
  BY <1>1, MovedOK DEF Halts, Starts
<1>3. out[e] \in OutType /\ How(e) \in Loops /\ << Header >> \in Buffers
  BY <1>1, HeaderFacts DEF Rest, How, Loops, Buffers
<1>4. PICK o : o = StartSend(out[e], << Header >>, How(e))
  OBVIOUS
<1>5. o \in OutType /\ CallOK(o)
  BY <1>3, <1>4, StartFacts
<1>6. out' = [out EXCEPT ![e] = o]
  BY <1>4 DEF Starts
<1>7. out' \in [End -> OutType] /\ (\A x \in End : CallOK(out'[x])) /\ \A x \in End : x # e => out'[x] = out[x]
  BY <1>1, <1>5, <1>6 DEF Rest
<1>8. /\ sock' = [sock EXCEPT ![e] = t] /\ conf' = conf
  BY DEF Starts
<1>9. Rest'
  BY <1>1, <1>7 DEF Rest, Starts, BufferType
<1>10. QED
  BY <1>2, <1>7, <1>8, <1>9, BaseIf

LEMMA WriteRest ==
  ASSUME Rest, NEW e \in End, NEW n \in Nat, Writes(e, n)
  PROVE  /\ wire' \in [End -> Seq(Cell)] /\ \A x \in End : Len(wire'[x]) <= Room
         /\ out' \in [End -> OutType] /\ \A x \in End : CallOK(out'[x]) /\ (x # e => out'[x] = out[x])
         /\ ready' \in [End -> BOOLEAN] /\ shut' = shut /\ broken' = broken
         /\ \E p \in Seq(Cell) :
              /\ Len(p) = n /\ wire'[Peer(e)] = wire[Peer(e)] \o p /\ wire'[e] = wire[e]
              /\ \A i \in 1 .. n : p[i] = Head(out[e].calls)[Written(out[e]) + i]
<1> DEFINE c == Head(out[e].calls)
           w == Written(out[e])
<1>1. out[e].calls # <<>> /\ out[e].calls \in Buffers /\ out[e] \in OutType /\ w \in Nat
  BY OutFacts DEF Rest, Writes, Written
<1>2. c \in Seq(Cell) /\ Len(c) \in Nat
  BY <1>1, FirstCall
<1>3. n \in 0 .. Len(c) - w /\ n <= Free(e)
  BY DEF Writes
<1>4. PICK p : p = SubSeq(c, w + 1, w + n)
  OBVIOUS
<1>5. p \in Seq(Cell) /\ Len(p) = n /\ \A i \in 1 .. n : p[i] = c[w + i]
  <2>1. w + 1 \in Nat \ {0} /\ w + n \in 0 .. Len(c) /\ w + 1 <= (w + n) + 1
    BY <1>1, <1>2, <1>3
  <2> HIDE DEF c, w
  <2>2. /\ p \in Seq(Cell) /\ Len(p) = (w + n) - (w + 1) + 1
        /\ \A i \in 1 .. (w + n) - (w + 1) + 1 : p[i] = c[(w + 1) + i - 1]
    BY <1>2, <1>4, <2>1, PartOf
  <2>3. (w + n) - (w + 1) + 1 = n /\ \A i \in 1 .. n : (w + 1) + i - 1 = w + i
    BY <1>1
  <2>4. QED
    BY <2>2, <2>3
<1>6. Peer(e) \in End /\ Peer(e) # e
  BY Ends
<1>7. wire' = [wire EXCEPT ![Peer(e)] = @ \o p]
  BY <1>4 DEF Writes
<1>8. wire[Peer(e)] \in Seq(Cell) /\ Len(wire[Peer(e)]) \in Nat
  BY <1>6, LenProperties DEF Rest
<1>9. wire[Peer(e)] \o p \in Seq(Cell) /\ Len(wire[Peer(e)] \o p) <= Room
  <2>1. wire[Peer(e)] \o p \in Seq(Cell) /\ Len(wire[Peer(e)] \o p) = Len(wire[Peer(e)]) + n
    BY <1>5, <1>8, ConcatProperties
  <2>2. QED
    BY <1>3, <1>8, <2>1, RoomAssumption DEF Free
<1>10. wire' \in [End -> Seq(Cell)] /\ \A x \in End : Len(wire'[x]) <= Room
  <2>1. wire \in [End -> Seq(Cell)] /\ \A x \in End : Len(wire[x]) <= Room
    BY DEF Rest
  <2>2. QED
    BY <1>6, <1>7, <1>9, <2>1
<1>11. wire'[Peer(e)] = wire[Peer(e)] \o p /\ wire'[e] = wire[e]
  BY <1>6, <1>7 DEF Rest
<1>12. PICK o \in OutType : out' = [out EXCEPT ![e] = o] /\ CallOK(o)
  BY DEF Writes
<1>13. out' \in [End -> OutType] /\ \A x \in End : CallOK(out'[x]) /\ (x # e => out'[x] = out[x])
  BY <1>12 DEF Rest
<1>14. ready' \in [End -> BOOLEAN] /\ shut' = shut /\ broken' = broken
  BY DEF Writes
<1>15. QED
  BY <1>5, <1>10, <1>11, <1>13, <1>14

LEMMA WriteBase ==
  ASSUME Base, NEW e \in End, NEW n \in Nat, UNCHANGED connVars, Writes(e, n)
  PROVE  Base'
<1>1. Rest /\ SockOK(e, sock[e]) /\ SocksType
  BY RestOf, SockOKOf
<1>2. /\ wire' \in [End -> Seq(Cell)] /\ \A x \in End : Len(wire'[x]) <= Room
      /\ out' \in [End -> OutType] /\ \A x \in End : CallOK(out'[x]) /\ (x # e => out'[x] = out[x])
      /\ ready' \in [End -> BOOLEAN] /\ shut' = shut /\ broken' = broken
  BY <1>1, WriteRest
<1>3. sock' = [sock EXCEPT ![e] = sock[e]] /\ conf' = conf /\ next' = next /\ buffer' = buffer /\ sent' = sent /\ got' = got
  BY <1>1, SockWith DEF connVars
<1>4. sock[e].pc # "new"
  BY DEF Base, StatusOK, Writes
<1>5. Rest'
  BY <1>1, <1>2, <1>3 DEF Rest, BufferType
<1>6. QED
  BY <1>1, <1>2, <1>3, <1>4, <1>5, BaseIf

LEMMA ArriveBase ==
  ASSUME Base, NEW e \in End, NEW t, NEW n, Arrives(e, t, n)
  PROVE  Base'
<1>1. Rest /\ SockOK(e, sock[e]) /\ sock[e].left \in Nat /\ sock[e].frame.length \in Nat
      /\ (sock[e].frame.st = "Done" => sock[e].frame.length <= sock[e].left)
  BY RestOf, SockOKOf
<1>2. wire[e] \in Seq(Cell) /\ Len(wire[e]) \in Nat /\ n \in 1 .. Len(wire[e]) /\ Len(wire[e]) <= Room
  BY <1>1, LenProperties DEF Rest, Arrives
<1>3. SockOK(e, t) /\ t.pc # "new"
  <2>1. CASE Halts(e, sock[e], t, "overrun")
    BY <1>1, <2>1, MovedOK DEF Halts
  <2>2. CASE /\ Fits(t, Length(e)) /\ Kept(sock[e], t) /\ t.pc = "read" /\ t.left = sock[e].left + n
    <3>1. sock[e].frame.st = "Done" => sock[e].frame.length <= t.left
      BY <1>1, <1>2, <2>2
    <3>2. QED
      BY <1>1, <2>2, <3>1, SockOKIf DEF Kept
  <2>3. QED
    BY <2>1, <2>2 DEF Arrives, Fills
<1>4. /\ SubSeq(wire[e], n + 1, Len(wire[e])) \in Seq(Cell)
      /\ Len(SubSeq(wire[e], n + 1, Len(wire[e]))) <= Room
  <2>1. n + 1 \in Nat \ {0} /\ Len(wire[e]) \in 0 .. Len(wire[e]) /\ n + 1 <= Len(wire[e]) + 1
    BY <1>2
  <2>2. /\ SubSeq(wire[e], n + 1, Len(wire[e])) \in Seq(Cell)
        /\ Len(SubSeq(wire[e], n + 1, Len(wire[e]))) = Len(wire[e]) - (n + 1) + 1
    BY <1>2, <2>1, PartOf
  <2>3. QED
    BY <1>2, <2>2, RoomAssumption
<1>5. wire' \in [End -> Seq(Cell)] /\ \A x \in End : Len(wire'[x]) <= Room
  <2>1. wire \in [End -> Seq(Cell)] /\ (\A x \in End : Len(wire[x]) <= Room)
        /\ wire' = [wire EXCEPT ![e] = SubSeq(@, n + 1, Len(@))]
    BY <1>1 DEF Rest, Arrives
  <2>2. QED
    BY <1>4, <2>1
<1>6. sock' = [sock EXCEPT ![e] = t] /\ conf' = conf /\ out' = out
  BY DEF Arrives
<1>7. Rest'
  BY <1>1, <1>5 DEF Rest, BufferType, Arrives
<1>8. QED
  BY <1>3, <1>6, <1>7, BaseIf

LEMMA CallbackType ==
  ASSUME Base, NEW e \in End, NEW t, NEW cb, Turning(e, t, cb)
  PROVE  cb \in Seq(Entry)
<1>1. SocksType /\ conf \in Configs
  BY SockOKOf
<1>2. Window(sock[e]) \in Seq(AnyCell) /\ Len(Window(sock[e])) = sock[e].left /\ sock[e].left \in Nat
  BY <1>1, SockOf
<1>3. CASE cb = <<>>
  BY <1>3
<1>4. CASE RawTakes(e, sock[e], t, cb)
  <2>1. PICK n \in 1 .. sock[e].left : cb = << [op |-> Binary, body |-> SubSeq(Window(sock[e]), 2, n)] >>
    BY <1>4 DEF RawTakes
  <2>2. 2 \in Nat \ {0} /\ n \in 0 .. Len(Window(sock[e])) /\ 2 <= n + 1
    BY <1>2
  <2>3. SubSeq(Window(sock[e]), 2, n) \in Seq(AnyCell)
    BY <1>2, <2>2, PartOf
  <2>4. Binary \in Nat
    BY DEF Binary
  <2>5. QED
    BY <2>1, <2>3, <2>4, EntryMade
<1>5. CASE FrameEnds(e, sock[e], t, cb)
  BY <1>5 DEF FrameEnds, TurnEnds
<1>6. QED
  BY <1>3, <1>4, <1>5 DEF Turning, RawWaits, RawStops, FrameWaits, FrameStops, FrameReads, FrameStays, Upgrades,
     UpgradeWaits, UpgradeStops, UpgradeRefused, UpgradeOpens

LEMMA TurnOut ==
  ASSUME Rest, NEW e \in End, NEW t, NEW cb, Turning(e, t, cb)
  PROVE  /\ out' \in [End -> OutType] /\ (\A x \in End : CallOK(out'[x])) /\ \A x \in End : x # e => out'[x] = out[x]
         /\ \/ out' = out
            \/ /\ e = "server" /\ sock[e].status = "Connecting" /\ t.status = Proper(e) /\ Accepts(e)
               /\ Opened(e, sock[e], t, Proper(e))
               /\ out' = [out EXCEPT ![e] = StartSend(@, << Header >>, How(e))]
<1>1. CASE out' = out
  BY <1>1 DEF Rest
<1>2. CASE /\ e = "server" /\ sock[e].status = "Connecting" /\ t.status = Proper(e) /\ Accepts(e)
           /\ Opened(e, sock[e], t, Proper(e))
           /\ out' = [out EXCEPT ![e] = StartSend(@, << Header >>, How(e))]
  <2>1. out[e] \in OutType /\ How(e) \in Loops /\ << Header >> \in Buffers
    BY HeaderFacts DEF Rest, How, Loops, Buffers
  <2>2. PICK o : o = StartSend(out[e], << Header >>, How(e))
    OBVIOUS
  <2>3. o \in OutType /\ CallOK(o)
    BY <2>1, <2>2, StartFacts
  <2>4. out' = [out EXCEPT ![e] = o]
    BY <1>2, <2>2
  <2>5. out' \in [End -> OutType] /\ (\A x \in End : CallOK(out'[x])) /\ \A x \in End : x # e => out'[x] = out[x]
    BY <2>3, <2>4 DEF Rest
  <2>6. QED
    BY <1>2, <2>5
<1>3. QED
  BY <1>1, <1>2 DEF Turning, Upgrades, UpgradeOpens, Opened, End

LEMMA TurnBase ==
  ASSUME Base, NEW e \in End, NEW t, NEW cb, Turning(e, t, cb)
  PROVE  Base'
<1>1. Rest /\ SockOK(e, sock[e]) /\ SocksType /\ conf \in Configs /\ sock[e].left \in Nat
      /\ (sock[e].frame.st = "Done" => sock[e].frame.length <= sock[e].left)
  BY RestOf, SockOKOf
<1>2. Len(Window(sock[e])) = sock[e].left
  BY <1>1, SockOf
<1>3. SockOK(e, t) /\ t.pc # "new"
  <2>1. CASE sock[e].status = "TCP"
    BY <1>1, <2>1, RawOK DEF Turning
  <2>2. CASE sock[e].status = "WebSocket"
    BY <1>1, <1>2, <2>2, FrameStepOK DEF Turning
  <2>3. CASE sock[e].status = "Connecting"
    BY <1>1, <2>3, UpgradeOK DEF Turning
  <2>4. QED
    BY <2>1, <2>2, <2>3 DEF Turning
<1>4. out' \in [End -> OutType] /\ (\A x \in End : CallOK(out'[x])) /\ \A x \in End : x # e => out'[x] = out[x]
  BY <1>1, TurnOut
<1>5. cb \in Seq(Entry)
  BY CallbackType
<1>6. got' \in [End -> Seq(Entry)]
  <2>1. got \in [End -> Seq(Entry)] /\ got' = [got EXCEPT ![e] = @ \o cb]
    BY <1>1 DEF Rest, Turning, Handled
  <2>2. got[e] \o cb \in Seq(Entry)
    BY <1>5, <2>1, ConcatProperties
  <2>3. QED
    BY <2>1, <2>2
<1>7. /\ sock' = [sock EXCEPT ![e] = t] /\ conf' = conf
      /\ wire' = wire /\ broken' = broken /\ next' = next /\ buffer' = buffer /\ sent' = sent
  BY DEF Turning, Handled
<1>8. ready' \in [End -> BOOLEAN] /\ shut' \in [End -> BOOLEAN]
  BY <1>1 DEF Turning, Handled, Rest
<1>9. Rest'
  BY <1>1, <1>4, <1>6, <1>7, <1>8 DEF Rest, BufferType
<1>10. QED
  BY <1>3, <1>4, <1>7, <1>9, BaseIf

(* A message is sent. *)
LEMMA SendingRest ==
  ASSUME Rest, NEW e \in End, NEW calls \in Buffers, NEW entry \in Seq(Entry), Sending(e, calls, entry), BufferType'
  PROVE  /\ Rest' /\ conf' = conf /\ (\A x \in End : x # e => out'[x] = out[x])
         /\ out'[e].calls = calls /\ Written(out'[e]) = 0 /\ out'[e].cut = out[e].cut
<1>1. out[e] \in OutType /\ How(e) \in Loops
  BY DEF Rest, How, Loops
<1>2. PICK o : o = StartSend(out[e], calls, How(e))
  OBVIOUS
<1>3. o \in OutType /\ CallOK(o) /\ o.calls = calls /\ Written(o) = 0 /\ o.cut = out[e].cut
  BY <1>1, <1>2, StartFacts
<1>4. out' = [out EXCEPT ![e] = o]
  BY <1>2 DEF Sending
<1>5. /\ out' \in [End -> OutType] /\ (\A x \in End : CallOK(out'[x])) /\ (\A x \in End : x # e => out'[x] = out[x])
      /\ out'[e] = o
  BY <1>3, <1>4 DEF Rest
<1>6. sent' \in [End -> Seq(Entry)]
  <2>1. sent \in [End -> Seq(Entry)] /\ sent' = [sent EXCEPT ![e] = @ \o entry]
    BY DEF Rest, Sending
  <2>2. sent[e] \o entry \in Seq(Entry)
    BY <2>1, ConcatProperties
  <2>3. QED
    BY <2>1, <2>2
<1>7. next' \in [End -> Nat \ {0}]
  <2>1. next \in [End -> Nat \ {0}] /\ next' = [next EXCEPT ![e] = @ + 1]
    BY DEF Rest, Sending
  <2>2. QED
    BY <2>1
<1>8. Rest'
  BY <1>5, <1>6, <1>7 DEF Rest, Sending
<1>9. QED
  BY <1>3, <1>5, <1>8 DEF Sending

LEMMA ScriptId ==
  ASSUME Base, NEW e \in End, CanSend(e)
  PROVE  /\ conf.script[e][next[e]] \in Ids /\ next[e] \in 1 .. Len(conf.script[e]) /\ sock[e].pc = "idle"
         /\ out[e].calls = <<>> /\ conf.script[e] \in Seq(Ids)
<1>1. conf.script[e] \in Seq(Ids) /\ next[e] \in Nat \ {0}
  BY ConfFacts DEF Base, Types
<1>2. Len(conf.script[e]) \in Nat
  BY <1>1, LenProperties
<1>3. next[e] \in 1 .. Len(conf.script[e])
  BY <1>1, <1>2 DEF CanSend
<1>4. conf.script[e][next[e]] \in Ids
  BY <1>1, <1>3, ElementOfSeq
<1>5. QED
  BY <1>1, <1>3, <1>4 DEF CanSend, Busy

LEMMA PayloadEntry ==
  ASSUME BufferType, NEW e \in End, NEW id \in Ids, NEW op \in Opcode
  PROVE  /\ Payload(e, id) \in Seq(AnyCell)
         /\ [op |-> Binary, body |-> Payload(e, id)] \in Entry /\ Seen(op, Payload(e, id)) \in Entry
<1>1. Payload(e, id) \in Seq(Cell)
  BY PayloadFacts
<1>2. Payload(e, id) \in Seq(AnyCell) /\ <<>> \in Seq(AnyCell)
  BY <1>1 DEF AnyCell
<1>3. Binary \in Nat /\ op \in Nat
  BY DEF Opcode, Text, Binary, CloseOp, PingOp, PongOp
<1>4. [op |-> Binary, body |-> Payload(e, id)] \in Entry
  BY <1>2, <1>3, EntryMade
<1>5. PICK p \in Nat : p = IF op = Text THEN Binary ELSE op
  BY <1>3
<1>6. PICK b \in Seq(AnyCell) : b = IF op \in {PongOp, CloseOp} THEN <<>> ELSE Payload(e, id)
  BY <1>2
<1>7. Seen(op, Payload(e, id)) = [op |-> p, body |-> b]
  BY <1>5, <1>6 DEF Seen
<1>8. QED
  BY <1>2, <1>4, <1>7, EntryMade

LEMMA KeyIndex ==
  ASSUME NEW M \in Nat \ {0}, NEW n \in Nat, NEW i \in 1 .. n
  PROVE  ((i - 1) \div M) + 1 \in 1 .. numFrames(n, M)
<1>1. n \in Nat \ {0} /\ i - 1 \in Nat
  OBVIOUS
<1>2. PICK F : F = (n + M - 1) \div M
  OBVIOUS
<1>3. F = numFrames(n, M)
  BY <1>1, <1>2 DEF numFrames
<1>4. F \in Nat \ {0} /\ n <= M * F
  BY <1>1, <1>2, FramesCover
<1>5. PICK q \in Nat, r \in 0 .. M - 1 : q = (i - 1) \div M /\ i - 1 = M * q + r
  BY <1>1, Division
<1>6. ASSUME q >= F PROVE FALSE
  <2>1. q - F \in Nat
    BY <1>4, <1>6
  <2>2. M * (q - F) \in Nat /\ M * (q - F) = M * q - M * F
    BY <1>4, <2>1
  <2>3. M * q \in Nat /\ M * F \in Nat
    BY <1>4
  <2> DEFINE x == M * q  y == M * F
  <2>4. x \in Nat /\ y \in Nat /\ x - y \in Nat /\ i - 1 = x + r /\ n <= y
    BY <1>4, <1>5, <2>2, <2>3
  <2> HIDE DEF x, y
  <2>5. QED
    BY <2>4
<1>7. QED
  BY <1>3, <1>4, <1>5, <1>6

LEMMA FramesType ==
  ASSUME NEW body, NEW op, NEW M, NEW n, NEW F, NEW key, NEW calls, SendMsgCall(body, op, M, n, F, key, calls)
  PROVE  calls \in Buffers
<1>0. op \in Nat /\ n \in Nat /\ key \in [1 .. F -> Keys]
  BY DEF SendMsgCall
<1> USE <1>0
<1>1. /\ F \in Nat \ {0} /\ (n <= M <=> F = 1)
      /\ n = 0 => calls = << getFrameHeader(op, 0, key[1], TRUE) >>
      /\ n # 0 => /\ calls = [j \in 1 .. 2 * F |-> calls[j]] /\ \A i \in 1 .. F : MessageFrame(calls, i, F, op, key, n)
  <2>1. SendMsgMakes(body, op, M, n, F, key, calls)
    BY SendMsgFacts
  <2>2. QED
    BY <2>1 DEF SendMsgMakes
<1>2. CASE n = 0
  <2>1. PICK k \in Keys : k = key[1]
    BY <1>1
  <2>2. PICK h : h = getFrameHeader(op, 0, k, TRUE)
    OBVIOUS
  <2>3. h \in Seq(Cell)
    BY <2>2, FrameHeadFacts DEF HeadOf
  <2>4. calls = << h >>
    BY <1>1, <1>2, <2>1, <2>2
  <2>5. QED
    BY <2>3, <2>4 DEF Buffers
<1>3. CASE n # 0
  <2>1. ASSUME NEW j \in 1 .. 2 * F PROVE calls[j] \in Seq(Cell)
    <3>1. PICK i \in 1 .. F : j = 2 * i - 1 \/ j = 2 * i
      <4>1. j \in Nat /\ F \in Nat /\ 1 <= j /\ j <= 2 * F
        BY <1>1
      <4>2. (j + 1) \div 2 \in 1 .. F /\ (j = 2 * ((j + 1) \div 2) - 1 \/ j = 2 * ((j + 1) \div 2))
        BY <4>1
      <4>3. QED
        BY <4>2
    <3>2. PICK L \in 1 .. n :
            SentFrame(calls[2 * i - 1], calls[2 * i], IF i = 1 THEN op ELSE Continue, L, key[i], i = F)
      BY <1>1, <1>3 DEF MessageFrame
    <3>3. calls[2 * i] \in Seq(Cell)
      BY <3>2 DEF SentFrame
    <3>4. PICK p \in Nat, k \in Keys, l \in BOOLEAN :
            p = (IF i = 1 THEN op ELSE Continue) /\ k = key[i] /\ l = (i = F)
      BY DEF Continue
    <3>5. PICK h : h = getFrameHeader(p, L, k, l)
      OBVIOUS
    <3>6. h \in Seq(Cell)
      <4>1. L \in Nat
        OBVIOUS
      <4>2. QED
        BY <3>5, <4>1, FrameHeadFacts DEF HeadOf
    <3>7. calls[2 * i - 1] = h
      BY <3>2, <3>4, <3>5 DEF SentFrame
    <3>8. QED
      BY <3>1, <3>3, <3>6, <3>7
  <2>2. 2 * F \in Nat /\ calls = [j \in 1 .. 2 * F |-> calls[j]]
    BY <1>1, <1>3
  <2>3. calls \in [1 .. 2 * F -> Seq(Cell)]
    BY <2>1, <2>2
  <2>4. QED
    BY <2>2, <2>3, SeqOf DEF Buffers
<1>4. QED
  BY <1>2, <1>3

(* The message id of e goes out in frames under the keys of key. *)
Framed(e, id, key, calls) ==
  /\ id = conf.script[e][next[e]] /\ id \in Ids
  /\ key \in [1 .. numFrames(Message[id].n, MaxMessageSize) -> Keys]
  /\ Cls(e) # "HBSocketClient" => \A i \in 1 .. numFrames(Message[id].n, MaxMessageSize) : key[i] = 0
  /\ calls = sendMsg(Payload(e, id), Message[id].op, key, MaxMessageSize) /\ calls \in Buffers
  /\ Sending(e, calls, << Seen(Message[id].op, Payload(e, id)) >>)
  /\ buffer' = [buffer EXCEPT ![e][id] =
                  [i \in DOMAIN @ |-> Xor(@[i], key[((i - 1) \div MaxMessageSize) + 1])]]

LEMMA SendFramesIs ==
  ASSUME Base, NEW e \in End, CanSend(e), NEW masked \in BOOLEAN, SendFrames(e, masked), masked => Cls(e) = "HBSocketClient"
  PROVE  \E id, key, calls : Framed(e, id, key, calls)
<1> DEFINE id == conf.script[e][next[e]]
           F == numFrames(Message[id].n, MaxMessageSize)
<1>1. id \in Ids
  BY ScriptId
<1>2. PICK key \in [1 .. F -> IF masked THEN Keys ELSE {0}] :
          /\ Sending(e, sendMsg(Payload(e, id), Message[id].op, key, MaxMessageSize),
                     <<Seen(Message[id].op, Payload(e, id))>>)
          /\ buffer' = [buffer EXCEPT ![e][id] =
                [i \in DOMAIN @ |-> Xor(@[i], key[((i - 1) \div MaxMessageSize) + 1])]]
  BY Zenon DEF SendFrames
<1>3. key \in [1 .. F -> Keys] /\ (Cls(e) # "HBSocketClient" => \A i \in 1 .. F : key[i] = 0)
  BY <1>2, WidthAssumption
<1> DEFINE calls == sendMsg(Payload(e, id), Message[id].op, key, MaxMessageSize)
<1>4. /\ Payload(e, id) \in Seq(Cell) /\ (\A i \in 1 .. Len(Payload(e, id)) : PlainCell(Payload(e, id)[i]))
      /\ Message[id].n = Len(Payload(e, id))
  BY <1>1, PayloadFacts DEF Base, Types
<1>5. Message[id].n \in Nat /\ Message[id].op \in Nat /\ MaxMessageSize \in Nat \ {0}
  BY <1>1, MessageFacts, MessageAssumption
<1> HIDE DEF id
<1>6. SendMsgCall(Payload(e, id), Message[id].op, MaxMessageSize, Message[id].n, F, key, calls)
  BY <1>3, <1>4, <1>5 DEF SendMsgCall
<1>7. calls \in Buffers
  BY <1>6, FramesType
<1>8. Framed(e, id, key, calls)
  BY <1>1, <1>2, <1>3, <1>7 DEF Framed, id
<1>9. QED
  BY <1>8

LEMMA SendRawBase ==
  ASSUME Base, NEW e \in End, SendsRaw(e)
  PROVE  Base'
<1> DEFINE id == conf.script[e][next[e]]
<1>1. Rest /\ SockOK(e, sock[e]) /\ SocksType
  BY RestOf, SockOKOf
<1>2. id \in Ids /\ sock[e].pc = "idle" /\ BufferType
  BY <1>1, ScriptId DEF SendsRaw, Rest
<1>3. /\ Sending(e, << Raw(e, id) >>, <<[op |-> Binary, body |-> Payload(e, id)]>>)
      /\ buffer' = buffer /\ sock' = sock
  BY DEF SendsRaw, SendRaw
<1> HIDE DEF id
<1>4. << Raw(e, id) >> \in Buffers
  BY <1>2, RawFacts DEF Buffers
<1>5. <<[op |-> Binary, body |-> Payload(e, id)]>> \in Seq(Entry)
  <2>1. Text \in Opcode
    BY DEF Opcode
  <2>2. [op |-> Binary, body |-> Payload(e, id)] \in Entry
    BY <1>2, <2>1, PayloadEntry
  <2>3. QED
    BY <2>2
<1>6. BufferType'
  BY <1>2, <1>3 DEF BufferType
<1>7. Rest' /\ conf' = conf /\ (\A x \in End : x # e => out'[x] = out[x])
  BY <1>1, <1>3, <1>4, <1>5, <1>6, SendingRest
<1>8. sock' = [sock EXCEPT ![e] = sock[e]]
  BY <1>1, <1>3, SockWith
<1>9. QED
  BY <1>1, <1>2, <1>7, <1>8, BaseIf

LEMMA SendNothingBase ==
  ASSUME Base, NEW e \in End, SendsNothing(e)
  PROVE  Base'
<1>1. Rest /\ SockOK(e, sock[e]) /\ SocksType
  BY RestOf, SockOKOf
<1>2. sock[e].pc = "idle" /\ BufferType
  BY <1>1, ScriptId DEF SendsNothing, Rest
<1>3. /\ Sending(e, <<>>, <<>>) /\ buffer' = buffer /\ sock' = sock
  BY DEF SendsNothing, SendNothing
<1>4. <<>> \in Buffers /\ <<>> \in Seq(Entry)
  BY DEF Buffers
<1>6. BufferType'
  BY <1>2, <1>3 DEF BufferType
<1>7. Rest' /\ conf' = conf /\ (\A x \in End : x # e => out'[x] = out[x])
  BY <1>1, <1>3, <1>4, <1>6, SendingRest
<1>8. sock' = [sock EXCEPT ![e] = sock[e]]
  BY <1>1, <1>3, SockWith
<1>9. QED
  BY <1>1, <1>2, <1>7, <1>8, BaseIf

LEMMA BufferMasked ==
  ASSUME BufferType, NEW e \in End, NEW id, NEW key, NEW calls, Framed(e, id, key, calls)
  PROVE  /\ BufferType'
         /\ \A i \in 1 .. Message[id].n : buffer'[e][id][i] =
              Xor(buffer[e][id][i], key[((i - 1) \div MaxMessageSize) + 1])
         /\ \A x \in End, j \in Ids : x # e \/ j # id => buffer'[x][j] = buffer[x][j]
<1>1. id \in Ids /\ Message[id].n \in Nat
  BY MessageFacts DEF Framed
<1>2. PICK n \in Nat : n = Message[id].n
  BY <1>1
<1>3. PICK old : old = buffer[e][id] /\ old \in [1 .. n -> SUBSET Keys]
  BY <1>1, <1>2 DEF BufferType
<1>4. PICK new : new = [i \in 1 .. n |-> Xor(old[i], key[((i - 1) \div MaxMessageSize) + 1])]
  OBVIOUS
<1>5. new \in [1 .. n -> SUBSET Keys]
  <2>1. ASSUME NEW i \in 1 .. n PROVE Xor(old[i], key[((i - 1) \div MaxMessageSize) + 1]) \in SUBSET Keys
    <3>1. MaxMessageSize \in Nat \ {0}
      BY MessageAssumption
    <3>2. ((i - 1) \div MaxMessageSize) + 1 \in 1 .. numFrames(n, MaxMessageSize)
      BY <3>1, KeyIndex
    <3>3. key[((i - 1) \div MaxMessageSize) + 1] \in Keys /\ old[i] \in SUBSET Keys
      BY <1>2, <1>3, <3>2 DEF Framed
    <3>4. QED
      BY <3>3, XorKeys
  <2>2. QED
    BY <1>4, <2>1
<1>6. buffer' = [buffer EXCEPT ![e][id] = new]
  <2>1. DOMAIN buffer[e][id] = 1 .. n
    BY <1>3
  <2>2. buffer' = [buffer EXCEPT ![e][id] = [i \in DOMAIN @ |-> Xor(@[i], key[((i - 1) \div MaxMessageSize) + 1])]]
    BY DEF Framed
  <2>3. QED
    BY <1>3, <1>4, <2>1, <2>2, Zenon
<1>7. /\ buffer = [x \in End |-> buffer[x]] /\ \A x \in End : buffer[x] = [j \in Ids |-> buffer[x][j]]
      /\ \A x \in End, j \in Ids : buffer[x][j] \in [1 .. Message[j].n -> SUBSET Keys]
  BY DEF BufferType
<1>8. /\ buffer' = [x \in End |-> buffer'[x]] /\ buffer'[e] = [buffer[e] EXCEPT ![id] = new]
      /\ \A x \in End : x # e => buffer'[x] = buffer[x]
  BY <1>6, <1>7
<1>9. /\ buffer'[e] = [j \in Ids |-> buffer'[e][j]] /\ buffer'[e][id] = new
      /\ \A j \in Ids : j # id => buffer'[e][j] = buffer[e][j]
  BY <1>1, <1>7, <1>8
<1>10. \A x \in End, j \in Ids : x # e \/ j # id => buffer'[x][j] = buffer[x][j]
  BY <1>8, <1>9
<1>11. BufferType'
  <2>1. ASSUME NEW x \in End PROVE buffer'[x] = [j \in Ids |-> buffer'[x][j]]
    BY <1>7, <1>8, <1>9
  <2>2. ASSUME NEW x \in End, NEW j \in Ids PROVE buffer'[x][j] \in [1 .. Message[j].n -> SUBSET Keys]
    BY <1>2, <1>5, <1>7, <1>9, <1>10
  <2>3. QED
    BY <1>8, <2>1, <2>2 DEF BufferType
<1>12. QED
  BY <1>2, <1>3, <1>4, <1>9, <1>10, <1>11

LEMMA SendFramesBase ==
  ASSUME Base, NEW e \in End, SendsFrames(e)
  PROVE  Base'
<1>1. Rest /\ SockOK(e, sock[e]) /\ SocksType /\ sock[e] \in SockType(Length(e))
  BY RestOf, SockOKOf
<1>2. sock[e].pc = "idle" /\ BufferType
  BY <1>1, ScriptId DEF SendsFrames, Rest
<1>3. PICK id, key, calls : Framed(e, id, key, calls)
  BY SendFramesIs DEF SendsFrames
<1>4. /\ calls \in Buffers /\ id \in Ids
      /\ Sending(e, calls, << Seen(Message[id].op, Payload(e, id)) >>)
  BY <1>3 DEF Framed
<1>5. << Seen(Message[id].op, Payload(e, id)) >> \in Seq(Entry)
  <2>1. Message[id].op \in Opcode
    BY <1>4, MessageFacts
  <2>2. Seen(Message[id].op, Payload(e, id)) \in Entry
    BY <1>2, <1>4, <2>1, PayloadEntry
  <2>3. QED
    BY <2>2
<1>6. BufferType'
  BY <1>2, <1>3, BufferMasked
<1>7. Rest' /\ conf' = conf /\ (\A x \in End : x # e => out'[x] = out[x])
  BY <1>1, <1>4, <1>5, <1>6, SendingRest
<1>8. PICK early \in BOOLEAN, frag \in BOOLEAN :
        /\ sock' = [sock EXCEPT ![e].early = early, ![e].frag = frag]
        /\ early = (sock[e].early \/ sock[e].status = "Connecting")
  <2>1. sock[e].early \in BOOLEAN /\ sock[e].frag \in BOOLEAN
    BY <1>1, SockFacts
  <2>2. QED
    BY <2>1 DEF SendsFrames, SendFrames
<1>9. PICK t : t = WithHistory(sock[e], early, frag)
  OBVIOUS
<1>10. sock' = [sock EXCEPT ![e] = t]
  BY <1>1, <1>8, <1>9 DEF WithHistory, SocksType
<1>11. /\ t \in SockType(Length(e)) /\ t.early = early /\ t.status = sock[e].status
       /\ t.off = sock[e].off /\ t.left = sock[e].left /\ t.frame = sock[e].frame /\ t.pc = sock[e].pc
  BY <1>1, <1>9, HistorySet
<1>12. SockOK(e, t)
  <2>1. Fits(t, Length(e)) /\ FrameFits(t)
    BY <1>1, <1>11 DEF SockOK, Fits, FrameFits
  <2>2. t.early => Cls(e) = "WebSocket"
    BY <1>1, <1>8, <1>11 DEF SockOK, SendsFrames
  <2>3. QED
    BY <1>1, <1>11, <2>1, <2>2 DEF SockOK
<1>13. QED
  BY <1>2, <1>7, <1>10, <1>11, <1>12, BaseIf

LEMMA NextBase ==
  ASSUME Base, [Next]_vars
  PROVE  Base'
<1>1. PICK e \in End : Kinds(e)
  BY NextKinds
<1>2. QED
  BY <1>1, ParkBase, StartBase, WriteBase, ArriveBase, TurnBase, SendRawBase, SendFramesBase, SendNothingBase
  DEF Kinds

LEMMA InitBase ==
  ASSUME Init
  PROVE  Base
<1>1. conf \in Configs
  BY DEF Init
<1>2. Rest
  <2>1. <<>> \in Seq(Cell) /\ Len(<<>>) <= Room /\ <<>> \in Seq(Entry) /\ 1 \in Nat \ {0}
    BY RoomAssumption
  <2>2. NewOut \in OutType /\ CallOK(NewOut)
    BY DEF NewOut, OutType, CallOK, Written, Buffers, Loops
  <2>3. BufferType
    <3>1. ASSUME NEW id \in Ids PROVE [i \in 1 .. Message[id].n |-> {}] \in [1 .. Message[id].n -> SUBSET Keys]
      OBVIOUS
    <3>2. QED
      BY <3>1 DEF BufferType, Init, Ids
  <2>4. /\ wire = [e \in End |-> <<>>] /\ ready = [e \in End |-> FALSE] /\ shut = [e \in End |-> FALSE]
        /\ broken = FALSE /\ out = [e \in End |-> NewOut] /\ next = [e \in End |-> 1]
        /\ sent = [e \in End |-> <<>>] /\ got = [e \in End |-> <<>>]
    BY DEF Init, StreamInit
  <2>5. wire \in [End -> Seq(Cell)] /\ \A x \in End : Len(wire[x]) <= Room
    BY <2>1, <2>4
  <2>6. ready \in [End -> BOOLEAN] /\ shut \in [End -> BOOLEAN] /\ broken \in BOOLEAN
    BY <2>4
  <2>7. out \in [End -> OutType] /\ \A x \in End : CallOK(out[x])
    BY <2>2, <2>4
  <2>8. next \in [End -> Nat \ {0}] /\ sent \in [End -> Seq(Entry)] /\ got \in [End -> Seq(Entry)]
    BY <2>1, <2>4
  <2>9. QED
    BY <2>3, <2>5, <2>6, <2>7, <2>8 DEF Rest
<1>3. ASSUME NEW e \in End
      PROVE  /\ sock[e] \in SockType(Length(e)) /\ sock[e].off + sock[e].left <= Length(e)
             /\ FrameFits(sock[e]) /\ StatusOK(e)
  <2>1. PICK N \in Nat \ {0} : N = Length(e)
    BY <1>1, ConfFacts
  <2>2. PICK m : m = [i \in 0 .. N - 1 |-> Nil] /\ m \in Memory(N)
    <3>1. Nil \in AnyCell
      BY DEF AnyCell
    <3>2. [i \in 0 .. N - 1 |-> Nil] \in [0 .. N - 1 -> AnyCell]
      BY <3>1
    <3>3. QED
      BY <3>2, Zenon DEF Memory
  <2>3. PICK pc \in Pcs, st \in Status :
          /\ pc = IF Cls(e) = "HBSocketClient" THEN "new" ELSE "idle"
          /\ st = IF Cls(e) \in RawClass THEN "TCP" ELSE "Connecting"
    BY DEF Pcs, Status
  <2>4. sock[e] = [pc |-> pc, status |-> st, off |-> 0, left |-> 0, toRecv |-> N, mem |-> m, hdr |-> 0,
                   frame |-> NewFrame, split |-> FALSE, early |-> FALSE, frag |-> FALSE]
    BY <2>1, <2>2, <2>3 DEF Init, NewSocket, Length, Cls
  <2>5. NewFrame \in FrameType
    BY WidthAssumption DEF NewFrame, FrameType, ReservedC
  <2>6. sock[e] \in SockType(N)
    BY <2>2, <2>4, <2>5 DEF SockType
  <2>7. out[e].calls = <<>>
    BY DEF Init, StreamInit, NewOut
  <2>8. FrameFits(sock[e]) /\ sock[e].off + sock[e].left <= N
    BY <2>4, NewFrameOK DEF FrameFits
  <2>9. StatusOK(e)
    BY <2>3, <2>4, <2>7 DEF StatusOK, RawClass
  <2>10. QED
    BY <2>1, <2>6, <2>8, <2>9
<1>4. sock = [e \in End |-> sock[e]]
  BY DEF Init
<1>5. QED
  BY <1>1, <1>2, <1>3, <1>4 DEF Base, Types, SocksType, Rest

(* In every state of a connection the variables have their types, the      *)
(* kernel's bound on the bytes under way is kept, every send loop is within *)
(* its buffer, every receive buffer within its memory, every frame reader   *)
(* within what has been received, and an end that is open has the transport *)
(* its class, the request and the response give it.                         *)
THEOREM ConnectionBase == Spec => []Base
<1>1. Init => Base
  BY InitBase
<1>2. Base /\ [Next]_vars => Base'
  BY NextBase
<1>3. QED
  BY <1>1, <1>2, PTL DEF Spec

LEMMA Agreement ==
  ASSUME Base
  PROVE  TransportAgreed
<1>1. SUFFICES ASSUME NEW e \in End, NEW f \in End, sock[e].status = "TCP", sock[f].status = "WebSocket"
               PROVE  Cls("server") = "WebSocket" /\ Request.upgrade = "tcp"
  BY DEF TransportAgreed, Mismatched
<1>2. conf \in Configs /\ StatusOK(e) /\ StatusOK(f)
  BY DEF Base, Types
<1>3. Cls(f) \notin RawClass /\ sock[f].status = Proper(f) /\ Accepts(f)
  BY <1>1, <1>2 DEF StatusOK
<1>4. Cls(e) \notin RawClass /\ sock[e].status = Proper(e) /\ Accepts(e)
  <2>1. e = f \/ e = Peer(f)
    BY Ends
  <2>2. Cls(e) \notin RawClass
    BY <1>2, <1>3, <2>1, ConfFacts DEF Cls
  <2>3. QED
    BY <1>1, <1>2, <2>2 DEF StatusOK
<1>5. e # f
  BY <1>1
<1>6. /\ Response.upgrade = "tcp" => Request.upgrade = "tcp"
      /\ Response.upgrade # "tcp" /\ Response # NoResponse => Request.upgrade # "tcp"
      /\ readServerResponse(Response, generateKey) => Response # NoResponse
  <2>1. Response # NoResponse =>
          \/ Request.upgrade = "tcp" /\ Response = [upgrade |-> "tcp", connection |-> NoField, accept |-> <<>>]
          \/ /\ Request.upgrade # "tcp"
             /\ Response = [upgrade |-> "websocket", connection |-> "upgrade", accept |-> getAcceptKey(Request.key)]
    BY DEF Response, getResponse, HandshakeResponse
  <2>2. Response = NoResponse => Response.upgrade = "none" /\ ~readServerResponse(Response, generateKey)
    BY DEF NoResponse, NoField, readServerResponse
  <2>3. QED
    BY <2>1, <2>2
<1>7. CASE e = "client" /\ f = "server"
  <2>1. Response.upgrade = "tcp"
    BY <1>1, <1>4, <1>7 DEF Proper, Transport
  <2>2. Request.upgrade = "tcp"
    BY <1>6, <2>1
  <2>3. Cls("server") = "WebSocket"
    BY <1>1, <1>3, <1>7, <2>2 DEF Proper, Transport
  <2>4. QED
    BY <2>2, <2>3
<1>8. CASE e = "server" /\ f = "client"
  <2>1. Response.upgrade # "tcp" /\ Response # NoResponse
    BY <1>1, <1>3, <1>4, <1>8 DEF Proper, Transport, Accepts
  <2>2. Request.upgrade # "tcp"
    BY <1>6, <2>1
  <2>3. QED
    BY <1>1, <1>4, <1>8, <2>2 DEF Proper, Transport
<1>9. QED
  BY <1>5, <1>7, <1>8 DEF End

(* Two ends that have both left the handshake speak the same transport,    *)
(* unless the server is a WebSocket and the client has asked for "tcp".     *)
THEOREM TransportsAgree == Spec => []TransportAgreed
<1>1. Base => TransportAgreed
  BY Agreement
<1>2. QED
  BY <1>1, ConnectionBase, PTL

-----------------------------------------------------------------------------
(* The bytes of one direction, from a sender to the receiver with socket s  *)

(* The calls of send lie in T one after the other, up to its end. *)
Layout(T, c, calls) ==
  /\ c \in [1 .. Len(calls) + 1 -> Nat] /\ c[Len(calls) + 1] = Len(T)
  /\ \A j \in 1 .. Len(calls) + 1 : c[j] <= Len(T)
  /\ \A j \in 1 .. Len(calls) : c[j + 1] = c[j] + Len(calls[j])
  /\ \A j \in 1 .. Len(calls) : \A i \in 1 .. Len(calls[j]) : T[c[j] + i] = calls[j][i]

(* All but p bytes of T are still in the calls. *)
Laid(T, o, p) == \E c : Layout(T, c, o.calls) /\ c[1] + Written(o) = p

(* The cell i of the window as it was sent, T having been read up to rd. *)
Holds(s, T, rd, i) ==
  Window(s)[i] = IF s.frame.st = "Done" /\ i <= s.frame.length THEN Unmasked(T[rd + i], s.frame.mask) ELSE T[rd + i]

(* What has been received and what is on the wire are the bytes of T       *)
(* behind rd.                                                              *)
Carries(s, w, T, rd) ==
  /\ T \in Seq(Cell) /\ rd \in Nat /\ rd + s.left + Len(w) <= Len(T)
  /\ \A i \in 1 .. s.left : Holds(s, T, rd, i)
  /\ \A i \in 1 .. Len(w) : w[i] = T[rd + s.left + i]

(* A socket with its numbers. *)
Counts(s) == s.left \in Nat /\ s.frame.length \in Nat

(* The bytes and what has been made of them are the same. *)
SameBytes(s, t) ==
  /\ t.left = s.left /\ t.frame.st = s.frame.st /\ t.frame.length = s.frame.length /\ t.frame.mask = s.frame.mask
  /\ \A i \in 1 .. s.left : Window(t)[i] = Window(s)[i]

LEMMA CarriesMoved ==
  ASSUME NEW s, NEW t, NEW w, NEW T, NEW rd, Carries(s, w, T, rd), SameBytes(s, t)
  PROVE  Carries(t, w, T, rd)
  BY Zenon DEF Carries, Holds, SameBytes

(* The first n bytes are done with. *)
Dropped(s, t, n) ==
  /\ n \in Nat /\ n <= s.left /\ t.left = s.left - n /\ t.frame.st # "Done"
  /\ s.frame.st = "Done" => s.frame.length <= n
  /\ \A i \in 1 .. s.left - n : Window(t)[i] = Window(s)[n + i]

LEMMA CarriesTaken ==
  ASSUME NEW s, NEW t, NEW w \in Seq(Cell), NEW T, NEW rd, NEW n, Counts(s), Carries(s, w, T, rd), Dropped(s, t, n)
  PROVE  Carries(t, w, T, rd + n)
<1>0. /\ n \in Nat /\ n <= s.left /\ t.left = s.left - n /\ t.frame.st # "Done"
      /\ s.frame.st = "Done" => s.frame.length <= n
      /\ \A i \in 1 .. s.left - n : Window(t)[i] = Window(s)[n + i]
  BY DEF Dropped
<1>1. PICK l \in Nat, q \in Nat, r \in Nat, m \in Nat : l = s.left /\ q = s.frame.length /\ r = rd /\ m = Len(w)
  BY LenProperties DEF Counts, Carries
<1>2. t.left = l - n /\ l - n \in Nat /\ (r + n) + (l - n) = r + l /\ r + n \in Nat
  BY <1>0, <1>1
<1>3. ASSUME NEW i \in 1 .. t.left PROVE Holds(t, T, rd + n, i)
  <2>0. i \in 1 .. l - n
    BY <1>2
  <2>1. n + i \in 1 .. l /\ (r + n) + i = r + (n + i)
    BY <1>0, <1>1, <2>0
  <2>2. Holds(s, T, rd, n + i) /\ ~(s.frame.st = "Done" /\ n + i <= s.frame.length)
    BY <1>0, <1>1, <1>2, <2>1 DEF Carries
  <2>3. Window(s)[n + i] = T[r + (n + i)]
    BY <1>0, <1>1, <2>2 DEF Holds
  <2>4. Window(t)[i] = Window(s)[n + i]
    BY <1>0, <1>1, <1>2
  <2>5. QED
    BY <1>0, <1>1, <2>1, <2>3, <2>4 DEF Holds
<1>4. ASSUME NEW i \in 1 .. Len(w) PROVE w[i] = T[(rd + n) + t.left + i]
  <2>1. w[i] = T[r + l + i] /\ (r + n) + t.left + i = r + l + i
    BY <1>0, <1>1, <1>2 DEF Carries
  <2>2. QED
    BY <1>0, <1>1, <2>1
<1>5. (rd + n) + t.left + Len(w) <= Len(T) /\ rd + n \in Nat /\ T \in Seq(Cell)
  BY <1>0, <1>1, <1>2 DEF Carries
<1>6. QED
  BY <1>0, <1>1, <1>2, <1>3, <1>4, <1>5 DEF Carries

(* The reader moves on within a frame, or unmasks its payload. *)
Unveiled(s, t) ==
  /\ t.left = s.left /\ s.frame.st # "Done" /\ t.frame.st = "Done" /\ t.frame.length \in Nat
  /\ \A i \in 1 .. s.left : Window(t)[i] =
       IF i <= t.frame.length THEN Unmasked(Window(s)[i], t.frame.mask) ELSE Window(s)[i]

LEMMA CarriesUnmasked ==
  ASSUME NEW s, NEW t, NEW w, NEW T, NEW rd, Counts(s), Carries(s, w, T, rd), Unveiled(s, t)
  PROVE  Carries(t, w, T, rd)
<1>1. ASSUME NEW i \in 1 .. s.left PROVE Holds(t, T, rd, i)
  <2>1. Window(s)[i] = T[rd + i]
    BY DEF Carries, Holds, Unveiled
  <2>2. QED
    BY <2>1 DEF Holds, Unveiled
<1>2. QED
  BY <1>1, Zenon DEF Carries, Unveiled

(* n bytes arrive. *)
Received(s, t, w, n) ==
  /\ n \in 1 .. Len(w) /\ t.left = s.left + n /\ t.frame = s.frame
  /\ s.frame.st = "Done" => s.frame.length <= s.left
  /\ \A i \in 1 .. s.left : Window(t)[i] = Window(s)[i]
  /\ \A i \in 1 .. n : Window(t)[s.left + i] = w[i]

LEMMA CarriesFilled ==
  ASSUME NEW s, NEW t, NEW w \in Seq(Cell), NEW T, NEW rd, NEW n, Counts(s), Carries(s, w, T, rd), Received(s, t, w, n)
  PROVE  Carries(t, SubSeq(w, n + 1, Len(w)), T, rd)
<1>0. /\ n \in 1 .. Len(w) /\ t.left = s.left + n /\ t.frame = s.frame
      /\ s.frame.st = "Done" => s.frame.length <= s.left
      /\ \A i \in 1 .. s.left : Window(t)[i] = Window(s)[i]
      /\ \A i \in 1 .. n : Window(t)[s.left + i] = w[i]
  BY DEF Received
<1>1. PICK l \in Nat, q \in Nat, r \in Nat, m \in Nat : l = s.left /\ q = s.frame.length /\ r = rd /\ m = Len(w)
  BY LenProperties DEF Counts, Carries
<1>2. n \in 1 .. m /\ t.left = l + n /\ n \in Nat
  BY <1>0, <1>1
<1>3. PICK u : u = SubSeq(w, n + 1, Len(w))
  OBVIOUS
<1>4. Len(u) = m - n /\ \A i \in 1 .. m - n : u[i] = w[n + i]
  <2>1. n + 1 \in Nat \ {0} /\ m \in 0 .. Len(w) /\ n + 1 <= m + 1
    BY <1>0, <1>1, <1>2
  <2>2. Len(u) = m - (n + 1) + 1 /\ \A i \in 1 .. m - (n + 1) + 1 : u[i] = w[n + 1 + i - 1]
    BY <1>0, <1>1, <1>3, <2>1, PartOf
  <2>3. m - (n + 1) + 1 = m - n /\ \A i \in 1 .. m - n : n + 1 + i - 1 = n + i
    BY <1>2
  <2>4. QED
    BY <2>2, <2>3
<1>5. ASSUME NEW i \in 1 .. t.left PROVE Holds(t, T, rd, i)
  <2>1. CASE i <= l
    <3>1. i \in 1 .. s.left
      BY <1>0, <1>1, <1>2, <2>1
    <3>2. Holds(s, T, rd, i) /\ Window(t)[i] = Window(s)[i]
      BY <1>0, <3>1 DEF Carries
    <3>3. QED
      BY <1>0, <3>2 DEF Holds
  <2>2. CASE i > l
    <3>1. PICK j \in 1 .. n : i = l + j
      <4>1. i - l \in 1 .. n /\ i = l + (i - l)
        BY <1>0, <1>1, <1>2, <2>2
      <4>2. QED
        BY <4>1
    <3>2. j \in 1 .. Len(w)
      BY <1>0, <1>1, <1>2
    <3>3. Window(t)[i] = w[j] /\ w[j] = T[r + l + j]
      BY <1>0, <1>1, <3>1, <3>2 DEF Carries
    <3>4. r + l + j = r + i
      BY <1>0, <1>1, <3>1
    <3>5. ~(t.frame.st = "Done" /\ i <= t.frame.length)
      BY <1>0, <1>1, <1>2, <2>2
    <3>6. QED
      BY <1>0, <1>1, <3>3, <3>4, <3>5 DEF Holds
  <2>3. QED
    BY <1>0, <1>1, <1>2, <2>1, <2>2
<1>6. ASSUME NEW i \in 1 .. Len(u) PROVE u[i] = T[rd + t.left + i]
  <2>1. n + i \in 1 .. Len(w) /\ u[i] = w[n + i] /\ r + l + (n + i) = r + t.left + i
    BY <1>0, <1>1, <1>2, <1>4
  <2>2. w[n + i] = T[r + l + (n + i)]
    BY <1>0, <1>1, <2>1 DEF Carries
  <2>3. QED
    BY <1>0, <1>1, <2>1, <2>2
<1>7. rd + t.left + Len(u) = rd + s.left + Len(w)
  <2>1. r + (l + n) + (m - n) = r + l + m
    BY <1>2
  <2>2. QED
    BY <1>0, <1>1, <1>2, <1>4, <2>1
<1>8. Carries(t, u, T, rd)
  BY <1>0, <1>1, <1>5, <1>6, <1>7 DEF Carries
<1>9. QED
  BY <1>3, <1>8

(* The wire is cleared. *)
LEMMA CarriesCleared ==
  ASSUME NEW s, NEW w \in Seq(Cell), NEW T, NEW rd, Counts(s), Carries(s, w, T, rd)
  PROVE  Carries(s, <<>>, T, rd)
<1>1. PICK l \in Nat, r \in Nat, m \in Nat, z \in Nat : l = s.left /\ r = rd /\ m = Len(w) /\ z = Len(T)
  BY LenProperties DEF Counts, Carries
<1>2. Len(<<>>) = 0
  OBVIOUS
<1>3. rd + s.left + Len(<<>>) <= Len(T)
  BY <1>1, <1>2 DEF Carries
<1>4. \A i \in 1 .. Len(<<>>) : FALSE
  BY <1>2
<1>5. QED
  BY <1>3, <1>4 DEF Carries
LEMMA LayoutTail ==
  ASSUME NEW T, NEW c, NEW calls \in Buffers, calls # <<>>, Layout(T, c, calls)
  PROVE  \E d : /\ Layout(T, d, Tail(calls)) /\ d[1] = c[1] + Len(Head(calls))
                /\ c[1] \in Nat /\ \A i \in 1 .. Len(Head(calls)) : T[c[1] + i] = Head(calls)[i]
<1>1. /\ Head(calls) = calls[1] /\ Len(calls) \in Nat \ {0} /\ Tail(calls) \in Buffers
      /\ Len(Tail(calls)) = Len(calls) - 1 /\ \A j \in 1 .. Len(calls) - 1 : Tail(calls)[j] = calls[j + 1]
  BY FirstCall
<1>2. PICK k \in Nat : k = Len(calls) - 1 /\ Len(calls) = k + 1 /\ Len(Tail(calls)) = k
  <2>1. Len(calls) - 1 \in Nat /\ Len(calls) = (Len(calls) - 1) + 1
    BY <1>1
  <2>2. QED
    BY <1>1, <2>1
<1>3. /\ c \in [1 .. k + 2 -> Nat] /\ c[k + 2] = Len(T) /\ \A j \in 1 .. k + 2 : c[j] <= Len(T)
      /\ \A j \in 1 .. k + 1 : c[j + 1] = c[j] + Len(calls[j])
      /\ \A j \in 1 .. k + 1 : \A i \in 1 .. Len(calls[j]) : T[c[j] + i] = calls[j][i]
  BY <1>2 DEF Layout
<1>4. PICK d : d = [j \in 1 .. k + 1 |-> c[j + 1]]
  OBVIOUS
<1>5. \A j \in 1 .. k + 1 : d[j] = c[j + 1] /\ c[j + 1] \in Nat /\ d[j] <= Len(T)
  BY <1>3, <1>4
<1>6. d \in [1 .. k + 1 -> Nat] /\ d[k + 1] = Len(T)
  <2>1. d \in [1 .. k + 1 -> Nat]
    BY <1>4, <1>5
  <2>2. k + 1 \in 1 .. k + 1 /\ (k + 1) + 1 = k + 2
    OBVIOUS
  <2>3. QED
    BY <1>3, <1>5, <2>1, <2>2
<1>7. ASSUME NEW j \in 1 .. k
      PROVE  /\ d[j + 1] = d[j] + Len(Tail(calls)[j])
             /\ \A i \in 1 .. Len(Tail(calls)[j]) : T[d[j] + i] = Tail(calls)[j][i]
  <2>1. j + 1 \in 1 .. k + 1 /\ j \in 1 .. k + 1 /\ Tail(calls)[j] = calls[j + 1]
    BY <1>1, <1>2
  <2>2. d[j + 1] = c[(j + 1) + 1] /\ d[j] = c[j + 1]
    BY <1>5, <2>1
  <2>3. QED
    BY <1>3, <2>1, <2>2
<1>8. Layout(T, d, Tail(calls))
  BY <1>2, <1>5, <1>6, <1>7 DEF Layout
<1>9. 1 \in 1 .. k + 1 /\ 1 \in 1 .. k + 2
  OBVIOUS
<1>10. d[1] = c[1] + Len(Head(calls)) /\ c[1] \in Nat /\ \A i \in 1 .. Len(Head(calls)) : T[c[1] + i] = Head(calls)[i]
  BY <1>1, <1>3, <1>5, <1>9
<1>11. QED
  BY <1>8, <1>10

(* n more bytes of the first call are written. *)
LEMMA CarriesWritten ==
  ASSUME NEW s, NEW w \in Seq(Cell), NEW T, NEW rd, Counts(s), Carries(s, w, T, rd),
         NEW o \in OutType, o.calls # <<>>, Laid(T, o, rd + s.left + Len(w)),
         NEW n \in Nat, n <= Len(Head(o.calls)) - Written(o), NEW p \in Seq(Cell), Len(p) = n,
         \A i \in 1 .. n : p[i] = Head(o.calls)[Written(o) + i],
         NEW o2, \/ o2.calls = o.calls /\ Written(o2) = Written(o) + n
                 \/ o2.calls = Tail(o.calls) /\ Written(o2) = 0 /\ n = Len(Head(o.calls)) - Written(o)
  PROVE  Carries(s, w \o p, T, rd) /\ Laid(T, o2, rd + s.left + Len(w \o p))
<1>1. PICK c : Layout(T, c, o.calls) /\ c[1] + Written(o) = rd + s.left + Len(w)
  BY DEF Laid
<1>2. o.calls \in Buffers /\ Written(o) \in Nat
  BY DEF OutType, Written
<1>3. Len(Head(o.calls)) \in Nat
  BY <1>2, FirstCall
<1>4. PICK d : /\ Layout(T, d, Tail(o.calls)) /\ d[1] = c[1] + Len(Head(o.calls))
               /\ c[1] \in Nat /\ \A i \in 1 .. Len(Head(o.calls)) : T[c[1] + i] = Head(o.calls)[i]
  BY <1>1, <1>2, LayoutTail
<1>5. PICK l \in Nat, r \in Nat, m \in Nat, h \in Nat, k \in Nat, a \in Nat, z \in Nat :
        /\ l = s.left /\ r = rd /\ m = Len(w) /\ h = Len(Head(o.calls)) /\ k = Written(o) /\ a = c[1] /\ z = Len(T)
  BY <1>2, <1>3, <1>4, LenProperties DEF Counts, Carries
<1>6. /\ a + k = r + l + m /\ k + n <= h /\ n \in Nat
      /\ l \in Nat /\ r \in Nat /\ m \in Nat /\ h \in Nat /\ k \in Nat /\ a \in Nat
  BY <1>1, <1>5
<1>7. Len(w \o p) = m + n /\ \A i \in 1 .. m + n : (w \o p)[i] = IF i <= m THEN w[i] ELSE p[i - m]
  BY <1>5, ConcatProperties
<1>8. ASSUME NEW i \in 1 .. m + n PROVE (w \o p)[i] = T[r + l + i]
  <2>1. CASE i <= m
    <3>1. i \in 1 .. Len(w)
      BY <1>5, <2>1
    <3>2. QED
      BY <1>5, <1>7, <2>1, <3>1 DEF Carries
  <2>2. CASE i > m
    <3>1. PICK j \in 1 .. n : j = i - m /\ i = m + j
      <4>1. i - m \in 1 .. n /\ i = m + (i - m)
        BY <1>5, <2>2
      <4>2. QED
        BY <4>1
    <3>2. (w \o p)[i] = p[j] /\ p[j] = Head(o.calls)[k + j]
      <4>1. (w \o p)[i] = p[i - m]
        BY <1>5, <1>7, <2>2
      <4>2. QED
        BY <1>5, <3>1, <4>1
    <3>3. k + j \in 1 .. h /\ a + (k + j) = r + l + i
      <4>1. j \in Nat /\ j >= 1 /\ j <= n /\ i = m + j
        BY <1>6, <3>1
      <4>2. QED
        BY <1>6, <4>1
    <3>4. T[a + (k + j)] = Head(o.calls)[k + j]
      BY <1>4, <1>5, <3>3
    <3>5. QED
      BY <3>2, <3>3, <3>4
  <2>3. QED
    BY <1>5, <2>1, <2>2
<1>9. r + l + (m + n) <= z
  <2>1. Len(Tail(o.calls)) \in Nat
    BY <1>2, FirstCall, LenProperties
  <2>2. d[1] <= Len(T)
    BY <1>4, <2>1 DEF Layout
  <2>3. a + h <= z
    BY <1>4, <1>5, <2>2
  <2>4. QED
    BY <1>6, <2>3
<1>10. Carries(s, w \o p, T, rd)
  BY <1>5, <1>7, <1>8, <1>9 DEF Carries
<1>11. Laid(T, o2, rd + s.left + Len(w \o p))
  <2>1. rd + s.left + Len(w \o p) = r + l + (m + n)
    BY <1>5, <1>7
  <2>2. CASE o2.calls = o.calls /\ Written(o2) = Written(o) + n
    <3>1. c[1] + Written(o2) = r + l + (m + n)
      <4>1. c[1] + Written(o2) = a + (k + n)
        BY <1>5, <2>2
      <4>2. a + (k + n) = r + l + (m + n)
        BY <1>6
      <4>3. QED
        BY <4>1, <4>2
    <3>2. QED
      BY <1>1, <2>1, <2>2, <3>1 DEF Laid
  <2>3. CASE o2.calls = Tail(o.calls) /\ Written(o2) = 0 /\ n = Len(Head(o.calls)) - Written(o)
    <3>1. d[1] + Written(o2) = r + l + (m + n)
      <4>0. n = h - k
        BY <1>5, <2>3
      <4>1. d[1] + Written(o2) = (a + h) + 0
        BY <1>4, <1>5, <2>3
      <4>2. (a + h) + 0 = r + l + (m + n)
        BY <1>6, <4>0
      <4>3. QED
        BY <4>1, <4>2
    <3>2. QED
      BY <1>4, <2>1, <2>3, <3>1 DEF Laid
  <2>4. QED
    BY <2>2, <2>3
<1>12. QED
  BY <1>10, <1>11

(* One more call. *)
LEMMA LayoutGrown ==
  ASSUME NEW T \in Seq(Cell), NEW c, NEW calls \in Buffers, Layout(T, c, calls), NEW p \in Seq(Cell)
  PROVE  \E d : Layout(T \o p, d, Append(calls, p)) /\ \A j \in 1 .. Len(calls) + 1 : d[j] = c[j]
<1>1. PICK k \in Nat, t \in Nat, n \in Nat : k = Len(calls) /\ t = Len(T) /\ n = Len(p)
  BY LenProperties DEF Buffers
<1>2. /\ c \in [1 .. k + 1 -> Nat] /\ c[k + 1] = t /\ \A j \in 1 .. k + 1 : c[j] <= t
      /\ \A j \in 1 .. k : c[j + 1] = c[j] + Len(calls[j])
      /\ \A j \in 1 .. k : \A i \in 1 .. Len(calls[j]) : T[c[j] + i] = calls[j][i]
  BY <1>1 DEF Layout
<1>3. PICK d : d = [j \in 1 .. k + 2 |-> IF j <= k + 1 THEN c[j] ELSE t + n]
  OBVIOUS
<1>4. \A j \in 1 .. k + 1 : j \in 1 .. k + 2 /\ d[j] = c[j] /\ d[j] \in Nat /\ d[j] <= t
  BY <1>2, <1>3
<1>5. d[k + 2] = t + n /\ k + 2 \in 1 .. k + 2
  BY <1>3
<1>6. d \in [1 .. k + 2 -> Nat] /\ \A j \in 1 .. k + 2 : d[j] <= t + n
  <2>1. ASSUME NEW j \in 1 .. k + 2 PROVE d[j] \in Nat /\ d[j] <= t + n
    <3>1. CASE j = k + 2
      BY <1>5, <3>1
    <3>2. CASE j # k + 2
      <4>1. j \in 1 .. k + 1
        BY <3>2
      <4>2. d[j] \in Nat /\ d[j] <= t
        BY <1>4, <4>1
      <4>3. QED
        BY <4>2
    <3>3. QED
      BY <3>1, <3>2
  <2>2. QED
    BY <1>3, <2>1
<1>7. PICK A : A = Append(calls, p)
  OBVIOUS
<1>8. Len(A) = k + 1 /\ A[k + 1] = p /\ \A j \in 1 .. k : A[j] = calls[j]
  BY <1>1, <1>7, AppendProperties DEF Buffers
<1>9. Len(T \o p) = t + n /\ \A i \in 1 .. t + n : (T \o p)[i] = IF i <= t THEN T[i] ELSE p[i - t]
  BY <1>1, ConcatProperties
<1>10. ASSUME NEW j \in 1 .. k + 1
       PROVE  d[j + 1] = d[j] + Len(A[j]) /\ \A i \in 1 .. Len(A[j]) : (T \o p)[d[j] + i] = A[j][i]
  <2>1. CASE j = k + 1
    <3>1. d[j + 1] = t + n /\ d[j] = t /\ A[j] = p
      BY <1>2, <1>4, <1>5, <1>8, <2>1
    <3>2. ASSUME NEW i \in 1 .. n PROVE (T \o p)[t + i] = p[i]
      <4>1. t + i \in 1 .. t + n /\ ~(t + i <= t) /\ (t + i) - t = i
        OBVIOUS
      <4>2. QED
        BY <1>9, <4>1
    <3>3. QED
      BY <1>1, <3>1, <3>2
  <2>2. CASE j # k + 1
    <3>1. j \in 1 .. k /\ j + 1 \in 1 .. k + 1
      BY <2>2
    <3>2. d[j + 1] = c[j + 1] /\ d[j] = c[j] /\ A[j] = calls[j] /\ c[j] \in Nat /\ c[j + 1] \in Nat /\ c[j + 1] <= t
      BY <1>4, <1>8, <3>1
    <3>3. calls[j] \in Seq(Cell) /\ Len(calls[j]) \in Nat
      BY <1>1, <3>1, ElementOfSeq, LenProperties DEF Buffers
    <3>4. ASSUME NEW i \in 1 .. Len(calls[j]) PROVE (T \o p)[c[j] + i] = calls[j][i]
      <4>1. c[j] + i <= c[j + 1]
        BY <1>2, <3>1, <3>2, <3>3
      <4>2. c[j] + i \in 1 .. t + n /\ c[j] + i <= t
        BY <3>2, <3>3, <4>1
      <4>3. (T \o p)[c[j] + i] = T[c[j] + i]
        BY <1>9, <4>2
      <4>4. QED
        BY <1>2, <3>1, <4>3
    <3>5. QED
      BY <1>2, <3>1, <3>2, <3>4
  <2>3. QED
    BY <2>1, <2>2
<1>11. Layout(T \o p, d, A)
  <2>1. (k + 1) + 1 = k + 2
    OBVIOUS
  <2>2. QED
    BY <1>5, <1>6, <1>8, <1>9, <1>10, <2>1 DEF Layout
<1>12. QED
  BY <1>1, <1>4, <1>7, <1>11

(* The first call lies at the end of T. *)
LEMMA LayoutFirst ==
  ASSUME NEW T \in Seq(Cell)
  PROVE  \E c : Layout(T, c, << >>) /\ c[1] = Len(T)
<1>1. PICK t \in Nat : t = Len(T)
  BY LenProperties
<1>2. PICK c : c = [j \in 1 .. 1 |-> t]
  OBVIOUS
<1>3. c \in [1 .. 1 -> Nat] /\ c[1] = t /\ \A j \in 1 .. 1 : c[j] <= t
  BY <1>2
<1>4. Len(<< >>) = 0 /\ 0 + 1 = 1 /\ \A j \in 1 .. 0 : FALSE
  OBVIOUS
<1>5. Layout(T, c, << >>)
  BY <1>1, <1>3, <1>4 DEF Layout
<1>6. QED
  BY <1>1, <1>3, <1>5

-----------------------------------------------------------------------------
(* The units of a direction: an upgrade header, then messages or frames *)

(* A raw message of n payload cells, or a frame. *)
Descr == [fin : BOOLEAN, op : Nat, n : Nat, key : Keys]

RawUnit(v, c) ==
  /\ Len(c) = v.n + 1 /\ c[1][1] = "sz" /\ c[1][3] \in {0, v.n + 1}
  /\ v.key = 0 /\ v.fin /\ v.op = Binary

FrameUnit(v, c) ==
  /\ Len(c) = HeadLen(v.n, v.key) + v.n
  /\ c[1] = <<"h1", v.fin, FALSE, v.op>> /\ c[2] = <<"h2", v.key # 0, Code(v.n)>>
  /\ v.n > Len7Max => c[3] = <<"ex", v.n>>
  /\ v.key # 0 => c[HeadLen(v.n, v.key)] = <<"mk", v.key>>
  /\ \A i \in 1 .. v.n : PlainCell(c[HeadLen(v.n, v.key) + i])

(* What the receiver of a unit should hand to its callbacks. *)
Says(v, c) == Seen(v.op, [i \in 1 .. v.n |-> Unmasked(c[(Len(c) - v.n) + i], v.key)])

(* T is made of the units C described by V, of which H are upgrade headers; *)
(* status is the one of the sender.                                         *)
Parse(H, status, T, b, C, V) ==
  /\ C \in Buffers /\ V \in Seq(Descr) /\ Len(V) = Len(C) /\ Layout(T, b, C) /\ b[1] = 0
  /\ \A j \in 1 .. Len(C) : IF j <= H THEN C[j] = Header
                            ELSE IF status = "TCP" THEN RawUnit(V[j], C[j]) ELSE FrameUnit(V[j], C[j])

(* The units behind the header are the messages snt, each in one unit. *)
Tied(H, C, V, snt) ==
  /\ Len(C) <= H + Len(snt)
  /\ \A j \in H + 1 .. Len(C) : V[j].fin /\ V[j].op \in Opcode /\ snt[j - H] = Says(V[j], C[j])

(* The sender, whose socket is sx, has cut a message into frames. *)
Untied(sx) == sx.status = "WebSocket" /\ sx.frag

(* The sender x has begun to send. *)
Started(H, x, sx) == H = 0 \/ IF x = "client" THEN sx.pc # "new" ELSE sx.status # "Connecting"

Story(H, x, gn, snt, sx, T, b, C, V) ==
  /\ Parse(H, sx.status, T, b, C, V)
  /\ ~Untied(sx) => Tied(H, C, V, snt)
  /\ ~Started(H, x, sx) => C = <<>>
  /\ Started(H, x, sx) /\ ~gn => Len(C) >= H /\ (~Untied(sx) => Len(C) = H + Len(snt))
  /\ sx.status = "Connecting" => snt = <<>>

(* The reader of frames has read T up to rd, the frame v from lo to hi.     *)
InFrame(f, v, lo, hi, rd, tied) ==
  /\ f.st = "ReadPayloadLength" =>
       rd = lo + 2 /\ v.n > Len7Max /\ f.length = Code(v.n) /\ (f.mask # 0 <=> v.key # 0)
  /\ f.st = "ReadMask" => rd = hi - v.n - 1 /\ v.key # 0 /\ f.length = v.n
  /\ f.st \in {"ReadPayload", "Done"} => rd = hi - v.n /\ f.length = v.n /\ f.mask = v.key
  /\ tied => f.fin = v.fin /\ f.opCode = v.op /\ ~f.fragmented

(* The socket s has read k units, and T up to rd. *)
Pos(H, tied, s, g, b, C, V, k, rd) ==
  /\ k \in 0 .. Len(C)
  /\ s.status = "Connecting" => k = 0 /\ rd = 0 /\ g = <<>>
  /\ s.status # "Connecting" => k >= H /\ (tied => Len(g) = k - H)
  /\ s.status # "WebSocket" \/ s.frame.st = "ReadHeader" => rd = b[k + 1]
  /\ s.status = "WebSocket" /\ s.frame.st # "ReadHeader" =>
       k < Len(C) /\ InFrame(s.frame, V[k + 1], b[k + 1], b[k + 2], rd, tied)

Flow(s, w, o, gn, T, rd) == Carries(s, w, T, rd) /\ (~gn => Laid(T, o, rd + s.left + Len(w)))

(* Frames came before the header: the receiver s never opens. *)
TooEarly(s, g, gn, T, rd) ==
  /\ s.status = "Connecting" /\ g = <<>> /\ rd = 0 /\ (~gn => T # <<>>) /\ (T # <<>> => T[1][1] = "h1")

(* The direction is lost: nothing is said of it any more. *)
Lost(s, o, sx) ==
  \/ o.cut \/ s.pc \in Dead \/ Refused(s.frame)
  \/ s.status # "Connecting" /\ sx.status # "Connecting" /\ s.status # sx.status

Ordered(H, x, s, gn, g, snt, sx, T, rd) ==
  IF sx.early THEN TooEarly(s, g, gn, T, rd)
  ELSE \E b, C, V, k : Story(H, x, gn, snt, sx, T, b, C, V) /\ Pos(H, ~Untied(sx), s, g, b, C, V, k, rd)

Dir(H, x, s, w, o, gn, g, snt, sx) ==
  \/ Lost(s, o, sx)
  \/ \E T, rd : Flow(s, w, o, gn, T, rd) /\ Ordered(H, x, s, gn, g, snt, sx, T, rd)

(* The reader is q cells into the unit k + 1. *)
Reached(s, w, T, rd, b, C, k, q) ==
  /\ Carries(s, w, T, rd) /\ Counts(s) /\ w \in Seq(Cell) /\ s.frame.st # "Done" /\ C \in Buffers /\ Layout(T, b, C)
  /\ k \in 0 .. Len(C) - 1 /\ q \in Nat /\ rd = b[k + 1] + q

LEMMA CellHere ==
  ASSUME NEW s, NEW w, NEW T, NEW rd, NEW b, NEW C, NEW k, NEW q, Reached(s, w, T, rd, b, C, k, q),
         NEW i \in 1 .. s.left, q + i <= Len(C[k + 1])
  PROVE  Window(s)[i] = C[k + 1][q + i]
<1>1. /\ Carries(s, w, T, rd) /\ s.left \in Nat /\ s.frame.st # "Done" /\ C \in Buffers /\ Layout(T, b, C)
      /\ k \in 0 .. Len(C) - 1 /\ q \in Nat /\ rd = b[k + 1] + q
  BY DEF Reached, Counts
<1>2. PICK m \in Nat : m = Len(C)
  BY <1>1, LenProperties DEF Buffers
<1>3. k + 1 \in 1 .. m /\ k + 1 \in 1 .. m + 1
  BY <1>1, <1>2
<1>4. b[k + 1] \in Nat /\ \A j \in 1 .. Len(C[k + 1]) : T[b[k + 1] + j] = C[k + 1][j]
  BY <1>1, <1>2, <1>3 DEF Layout
<1>5. PICK a \in Nat, n \in Nat : a = b[k + 1] /\ n = Len(C[k + 1])
  <2>1. C[k + 1] \in Seq(Cell)
    BY <1>1, <1>2, <1>3, ElementOfSeq DEF Buffers
  <2>2. QED
    BY <1>4, <2>1, LenProperties
<1>6. Window(s)[i] = T[rd + i]
  BY <1>1 DEF Carries, Holds
<1>7. rd = a + q /\ q + i \in 1 .. n /\ (a + q) + i = a + (q + i)
  BY <1>1, <1>5
<1>8. T[a + (q + i)] = C[k + 1][q + i]
  BY <1>4, <1>5, <1>7
<1>9. QED
  BY <1>6, <1>7, <1>8

(* Where there is a byte there is a unit. *)
LEMMA UnitHere ==
  ASSUME NEW s, NEW w \in Seq(Cell), NEW T, NEW rd, NEW b, NEW C \in Buffers, NEW k \in 0 .. Len(C), Layout(T, b, C),
         Carries(s, w, T, rd), Counts(s), rd = b[k + 1], s.left >= 1
  PROVE  k \in 0 .. Len(C) - 1
<1>1. PICK m \in Nat, l \in Nat, r \in Nat, t \in Nat, n \in Nat :
        m = Len(C) /\ l = s.left /\ r = rd /\ t = Len(T) /\ n = Len(w)
  BY LenProperties DEF Buffers, Carries, Counts
<1>2. r + l + n <= t /\ l >= 1
  BY <1>1 DEF Carries
<1>3. b[m + 1] = t
  BY <1>1 DEF Layout
<1>4. k # m
  BY <1>1, <1>2, <1>3
<1>5. QED
  BY <1>1, <1>4

(* The places of the units. *)
LEMMA Bounds ==
  ASSUME NEW T, NEW b, NEW C \in Buffers, Layout(T, b, C), NEW k \in 0 .. Len(C) - 1
  PROVE  /\ b[k + 1] \in Nat /\ b[k + 2] \in Nat /\ Len(C[k + 1]) \in Nat /\ b[k + 2] = b[k + 1] + Len(C[k + 1])
         /\ C[k + 1] \in Seq(Cell) /\ k + 1 \in 1 .. Len(C) /\ k \in Nat /\ k + 1 \in 0 .. Len(C)
         /\ b[k + 2] <= Len(T)
<1>1. PICK m \in Nat : m = Len(C)
  BY LenProperties DEF Buffers
<1>2. k + 1 \in 1 .. m /\ k + 1 \in 1 .. m + 1 /\ k + 2 \in 1 .. m + 1 /\ (k + 1) + 1 = k + 2 /\ k \in Nat /\ k + 1 \in 0 .. m
  BY <1>1
<1>3. b \in [1 .. m + 1 -> Nat] /\ \A j \in 1 .. m : b[j + 1] = b[j] + Len(C[j]) /\ \A i \in 1 .. m + 1 : b[i] <= Len(T)
  BY <1>1 DEF Layout
<1>4. C[k + 1] \in Seq(Cell) /\ Len(C[k + 1]) \in Nat
  BY <1>1, <1>2, ElementOfSeq, LenProperties DEF Buffers
<1>5. QED
  BY <1>1, <1>2, <1>3, <1>4

-----------------------------------------------------------------------------
(* The receiver reads *)

LEMMA SaysRaw ==
  ASSUME NEW v \in Descr, NEW c, RawUnit(v, c), NEW W \in Seq(AnyCell), NEW n \in Nat, n = v.n + 1, n <= Len(W),
         \A i \in 1 .. n : W[i] = c[i]
  PROVE  [op |-> Binary, body |-> SubSeq(W, 2, n)] = Says(v, c)
<1>1. PICK m \in Nat : m = v.n /\ n = m + 1
  BY DEF Descr
<1>2. v.key = 0 /\ v.op = Binary /\ Len(c) = m + 1
  BY <1>1 DEF RawUnit
<1>3. PICK B : B = [i \in 1 .. v.n |-> Unmasked(c[(Len(c) - v.n) + i], v.key)]
  OBVIOUS
<1>4. SubSeq(W, 2, n) \in Seq(AnyCell) /\ Len(SubSeq(W, 2, n)) = m /\ \A i \in 1 .. m : SubSeq(W, 2, n)[i] = c[1 + i]
  <2>1. n \in 0 .. Len(W) /\ 2 <= n + 1 /\ 2 \in Nat \ {0} /\ n - 2 + 1 = m
    BY <1>1, LenProperties
  <2>2. /\ SubSeq(W, 2, n) \in Seq(AnyCell) /\ Len(SubSeq(W, 2, n)) = n - 2 + 1
        /\ \A i \in 1 .. n - 2 + 1 : SubSeq(W, 2, n)[i] = W[2 + i - 1]
    BY <2>1, PartOf
  <2>3. \A i \in 1 .. m : 2 + i - 1 = 1 + i /\ 1 + i \in 1 .. n
    BY <1>1
  <2>4. QED
    BY <2>1, <2>2, <2>3
<1>5. \A i \in 1 .. m : B[i] = c[1 + i]
  <2>1. (Len(c) - v.n) = 1
    BY <1>1, <1>2
  <2>2. QED
    BY <1>1, <1>2, <1>3, <2>1 DEF Unmasked
<1>6. SubSeq(W, 2, n) = B
  <2>1. SubSeq(W, 2, n) \in [1 .. m -> AnyCell]
    BY <1>4, LenProperties
  <2>2. QED
    BY <1>1, <1>3, <1>4, <1>5, <2>1
<1>7. Binary # Text /\ Binary \notin {PongOp, CloseOp}
  BY DEF Binary, Text, PongOp, CloseOp
<1>8. QED
  BY <1>2, <1>3, <1>6, <1>7 DEF Says, Seen

(* The unit being read, of a sender that has not lost its receiver. *)
UnitRead(H, x, s, gn, snt, sx, T, b, C, V, k) ==
  /\ Story(H, x, gn, snt, sx, T, b, C, V) /\ H \in Nat /\ snt \in Seq(Entry) /\ s.status # "Connecting"
  /\ (sx.status = "Connecting" \/ sx.status = s.status) /\ k \in 0 .. Len(C) - 1 /\ k >= H /\ s.status \in Status

LEMMA UnitOf ==
  ASSUME NEW H, NEW x, NEW s, NEW gn, NEW snt, NEW sx, NEW T, NEW b, NEW C, NEW V, NEW k,
         UnitRead(H, x, s, gn, snt, sx, T, b, C, V, k)
  PROVE  /\ sx.status = s.status /\ V[k + 1] \in Descr /\ C[k + 1] \in Seq(Cell)
         /\ s.status = "TCP" => RawUnit(V[k + 1], C[k + 1])
         /\ s.status = "WebSocket" => FrameUnit(V[k + 1], C[k + 1])
         /\ ~Untied(sx) => /\ V[k + 1].fin /\ V[k + 1].op \in Opcode /\ k - H < Len(snt)
                           /\ snt[(k - H) + 1] = Says(V[k + 1], C[k + 1])
<1>1. /\ Parse(H, sx.status, T, b, C, V) /\ (~Untied(sx) => Tied(H, C, V, snt))
      /\ (sx.status = "Connecting" => snt = <<>>) /\ H \in Nat /\ k \in 0 .. Len(C) - 1 /\ k >= H
      /\ s.status # "Connecting" /\ (sx.status = "Connecting" \/ sx.status = s.status) /\ s.status \in Status
  BY DEF UnitRead, Story
<1>2. PICK m \in Nat, p \in Nat : m = Len(C) /\ p = Len(snt)
  BY <1>1, LenProperties DEF Parse, Buffers, UnitRead
<1>3. k \in Nat /\ k + 1 \in 1 .. m /\ ~(k + 1 <= H) /\ k + 1 \in H + 1 .. m /\ (k + 1) - H = (k - H) + 1 /\ k - H \in Nat
  BY <1>1, <1>2
<1>4. sx.status # "Connecting"
  <2>1. SUFFICES ASSUME sx.status = "Connecting" PROVE FALSE
    OBVIOUS
  <2>2. p = 0 /\ Tied(H, C, V, snt)
    BY <1>1, <1>2, <2>1 DEF Untied
  <2>3. m <= H + 0
    BY <1>2, <2>2 DEF Tied
  <2>4. QED
    BY <1>1, <1>3, <2>3
<1>5. V[k + 1] \in Descr /\ C[k + 1] \in Seq(Cell)
  BY <1>1, <1>2, <1>3, ElementOfSeq DEF Parse, Buffers
<1>6. IF s.status = "TCP" THEN RawUnit(V[k + 1], C[k + 1]) ELSE FrameUnit(V[k + 1], C[k + 1])
  BY <1>1, <1>2, <1>3, <1>4 DEF Parse
<1>7. ASSUME ~Untied(sx)
      PROVE  /\ V[k + 1].fin /\ V[k + 1].op \in Opcode /\ k - H < Len(snt)
             /\ snt[(k - H) + 1] = Says(V[k + 1], C[k + 1])
  <2>1. /\ m <= H + p
        /\ \A j \in H + 1 .. m : V[j].fin /\ V[j].op \in Opcode /\ snt[j - H] = Says(V[j], C[j])
    BY <1>1, <1>2, <1>7 DEF Tied
  <2>2. k - H < p
    BY <1>1, <1>3, <2>1
  <2>3. QED
    BY <1>2, <1>3, <2>1, <2>2
<1>8. QED
  BY <1>1, <1>4, <1>5, <1>6, <1>7 DEF Status
(* A receiver that is not lost, at the unit k of T. *)
Live(H, x, s, w, gn, g, snt, sx, T, rd, b, C, V, k) ==
  /\ Story(H, x, gn, snt, sx, T, b, C, V) /\ Pos(H, ~Untied(sx), s, g, b, C, V, k, rd)
  /\ Carries(s, w, T, rd) /\ Counts(s) /\ w \in Seq(Cell) /\ H \in Nat /\ snt \in Seq(Entry) /\ g \in Seq(Entry)
  /\ s.status \in Status /\ (s.status # "Connecting" => sx.status = "Connecting" \/ sx.status = s.status)
  /\ Window(s) \in Seq(AnyCell) /\ Len(Window(s)) = s.left /\ s.frame \in FrameType /\ FrameFits(s)
  /\ s.status # "WebSocket" => s.frame = NewFrame

(* What it reads is given to the callback cb. *)
Gives(g, snt, sx, cb) == ~Untied(sx) /\ cb # <<>> => Len(g) < Len(snt) /\ cb = << snt[Len(g) + 1] >>

ReadsOn(H, s, t, w, g, snt, sx, T, rd, b, C, V, cb) ==
  \E rd2, k2 : /\ Carries(t, w, T, rd2) /\ rd2 + t.left = rd + s.left
               /\ Pos(H, ~Untied(sx), t, g \o cb, b, C, V, k2, rd2) /\ Gives(g, snt, sx, cb)

(* What Live says, in parts. *)
LEMMA LiveFacts ==
  ASSUME NEW H, NEW x, NEW s, NEW w, NEW gn, NEW g, NEW snt, NEW sx, NEW T, NEW rd, NEW b, NEW C, NEW V, NEW k,
         Live(H, x, s, w, gn, g, snt, sx, T, rd, b, C, V, k)
  PROVE  /\ C \in Buffers /\ Layout(T, b, C) /\ b[1] = 0 /\ k \in 0 .. Len(C) /\ Len(C) \in Nat /\ rd \in Nat
         /\ s.left \in Nat /\ s.frame.length \in Nat /\ H \in Nat /\ k \in Nat /\ Len(g) \in Nat /\ Len(snt) \in Nat
         /\ s.status # "Connecting" => k >= H /\ (~Untied(sx) => Len(g) = k - H)
         /\ s.status # "WebSocket" => s.frame.st = "ReadHeader"
         /\ s.status # "WebSocket" \/ s.frame.st = "ReadHeader" => rd = b[k + 1]
         /\ s.status # "Connecting" /\ k \in 0 .. Len(C) - 1 => UnitRead(H, x, s, gn, snt, sx, T, b, C, V, k)
<1>1. Parse(H, sx.status, T, b, C, V) /\ Story(H, x, gn, snt, sx, T, b, C, V)
  BY DEF Live, Story
<1>2. C \in Buffers /\ Layout(T, b, C) /\ b[1] = 0 /\ Len(C) \in Nat
  BY <1>1, LenProperties DEF Parse, Buffers
<1>3. /\ k \in 0 .. Len(C)
      /\ s.status # "Connecting" => k >= H /\ (~Untied(sx) => Len(g) = k - H)
      /\ s.status # "WebSocket" \/ s.frame.st = "ReadHeader" => rd = b[k + 1]
  BY DEF Live, Pos
<1>4. s.status # "WebSocket" => s.frame.st = "ReadHeader"
  BY DEF Live, NewFrame
<1>5. s.left \in Nat /\ s.frame.length \in Nat /\ rd \in Nat /\ H \in Nat /\ Len(g) \in Nat /\ Len(snt) \in Nat
  BY LenProperties DEF Live, Counts, Carries
<1>6. k \in Nat
  BY <1>2, <1>3
<1>7. s.status # "Connecting" /\ k \in 0 .. Len(C) - 1 => UnitRead(H, x, s, gn, snt, sx, T, b, C, V, k)
  BY <1>1, <1>3 DEF Live, UnitRead
<1>8. QED
  BY <1>2, <1>3, <1>4, <1>5, <1>6, <1>7

(* A callback is given the next message. *)
LEMMA OneMore ==
  ASSUME NEW g \in Seq(Entry), NEW m \in Seq(Entry), Len(m) = 1, NEW j \in Nat, Len(g) = j
  PROVE  Len(g \o m) = j + 1
<1>1. Len(g \o m) = Len(g) + Len(m)
  BY ConcatProperties
<1>2. QED
  BY <1>1

LEMMA RawReads ==
  ASSUME NEW e, NEW t, NEW cb, NEW H, NEW x, NEW s, NEW w, NEW gn, NEW g, NEW snt, NEW sx, NEW T, NEW rd,
         NEW b, NEW C, NEW V, NEW k, Live(H, x, s, w, gn, g, snt, sx, T, rd, b, C, V, k),
         s.status = "TCP", RawTakes(e, s, t, cb), cb \in Seq(Entry)
  PROVE  ReadsOn(H, s, t, w, g, snt, sx, T, rd, b, C, V, cb)
<1>1. PICK n \in 1 .. s.left : /\ Takes(e, s, t, n) /\ Window(s)[1][1] = "sz" /\ Window(s)[1][3] = n
                               /\ cb = << [op |-> Binary, body |-> SubSeq(Window(s), 2, n)] >>
  BY DEF RawTakes
<1>2. /\ C \in Buffers /\ Layout(T, b, C) /\ k \in 0 .. Len(C) /\ Len(C) \in Nat /\ rd \in Nat
      /\ s.left \in Nat /\ H \in Nat /\ k \in Nat /\ k >= H /\ (~Untied(sx) => Len(g) = k - H)
      /\ s.frame.st = "ReadHeader" /\ rd = b[k + 1] /\ Len(g) \in Nat
      /\ (k \in 0 .. Len(C) - 1 => UnitRead(H, x, s, gn, snt, sx, T, b, C, V, k))
  BY LiveFacts
<1>3. Carries(s, w, T, rd) /\ Counts(s) /\ w \in Seq(Cell) /\ Window(s) \in Seq(AnyCell) /\ Len(Window(s)) = s.left
      /\ g \in Seq(Entry)
  BY DEF Live
<1>4. n \in Nat /\ n >= 1 /\ n <= s.left /\ s.left >= 1 /\ 1 \in 1 .. s.left
  BY <1>2
<1>5. k \in 0 .. Len(C) - 1
  BY <1>2, <1>3, <1>4, UnitHere
<1>6. /\ V[k + 1] \in Descr /\ RawUnit(V[k + 1], C[k + 1]) /\ C[k + 1] \in Seq(Cell)
      /\ ~Untied(sx) => k - H < Len(snt) /\ snt[(k - H) + 1] = Says(V[k + 1], C[k + 1])
  BY <1>2, <1>5, UnitOf
<1>7. PICK v, c : v = V[k + 1] /\ c = C[k + 1]
  OBVIOUS
<1>8. PICK m \in Nat : m = v.n /\ Len(c) = m + 1 /\ c[1][1] = "sz" /\ c[1][3] \in {0, m + 1}
  BY <1>6, <1>7 DEF RawUnit, Descr
<1>9. /\ b[k + 1] \in Nat /\ b[k + 2] = b[k + 1] + Len(C[k + 1]) /\ k + 1 \in 0 .. Len(C)
  BY <1>2, <1>5, Bounds
<1>10. Reached(s, w, T, rd, b, C, k, 0)
  <2>1. rd = b[k + 1] + 0
    BY <1>2, <1>9
  <2>2. QED
    BY <1>2, <1>3, <1>5, <2>1 DEF Reached
<1>11. \A i \in 1 .. s.left : i <= m + 1 => Window(s)[i] = c[i]
  <2>1. ASSUME NEW i \in 1 .. s.left, i <= m + 1 PROVE Window(s)[i] = c[i]
    <3>1. 0 + i = i /\ 0 + i <= Len(C[k + 1])
      BY <1>2, <1>7, <1>8, <2>1
    <3>2. Window(s)[i] = C[k + 1][0 + i]
      BY <1>10, <3>1, CellHere
    <3>3. QED
      BY <1>7, <3>1, <3>2
  <2>2. QED
    BY <2>1
<1>12. n = m + 1
  <2>1. 1 <= m + 1
    OBVIOUS
  <2>2. Window(s)[1] = c[1]
    BY <1>4, <1>11, <2>1
  <2>3. QED
    BY <1>1, <1>4, <1>8, <2>2
<1>13. PICK entry : entry = [op |-> Binary, body |-> SubSeq(Window(s), 2, n)]
  OBVIOUS
<1>14. entry = Says(v, c)
  <2>1. \A i \in 1 .. n : Window(s)[i] = c[i]
    BY <1>2, <1>4, <1>11, <1>12
  <2>2. v \in Descr /\ RawUnit(v, c) /\ n = v.n + 1 /\ n <= Len(Window(s))
    BY <1>3, <1>4, <1>6, <1>7, <1>8, <1>12
  <2>3. QED
    BY <1>3, <1>4, <1>13, <2>1, <2>2, SaysRaw
<1>15. Gives(g, snt, sx, cb)
  BY <1>1, <1>2, <1>6, <1>7, <1>13, <1>14 DEF Gives
<1>16. Carries(t, w, T, rd + n) /\ (rd + n) + t.left = rd + s.left
  <2>1. t.left = s.left - n /\ t.frame = s.frame /\ \A i \in 1 .. s.left - n : Window(t)[i] = Window(s)[n + i]
    BY <1>1 DEF Takes, Kept
  <2>2. t.frame.st # "Done" /\ s.frame.st # "Done"
    BY <1>2, <2>1
  <2>3. Dropped(s, t, n)
    BY <1>4, <2>1, <2>2 DEF Dropped
  <2>4. Carries(t, w, T, rd + n)
    BY <1>3, <2>3, CarriesTaken
  <2>5. (rd + n) + t.left = rd + s.left
    BY <1>2, <1>4, <2>1
  <2>6. QED
    BY <2>4, <2>5
<1>17. Pos(H, ~Untied(sx), t, g \o cb, b, C, V, k + 1, rd + n)
  <2>1. t.status = "TCP"
    BY <1>1 DEF Takes, Kept
  <2>2. rd + n = b[k + 2] /\ (k + 1) + 1 = k + 2
    BY <1>2, <1>7, <1>8, <1>9, <1>12
  <2>3. ~Untied(sx) => Len(g \o cb) = (k + 1) - H
    <3>1. Len(cb) = 1
      BY <1>1
    <3>2. Len(g \o cb) = Len(g) + 1
      BY <1>2, <1>3, <3>1, OneMore
    <3>3. QED
      BY <1>2, <3>2
  <2>4. k + 1 >= H
    BY <1>2
  <2>5. QED
    BY <1>9, <2>1, <2>2, <2>3, <2>4 DEF Pos
<1>18. QED
  BY <1>15, <1>16, <1>17 DEF ReadsOn

-----------------------------------------------------------------------------
(* The reader of frames *)

LEMMA DescrFacts ==
  ASSUME NEW v \in Descr
  PROVE  v.fin \in BOOLEAN /\ v.op \in Nat /\ v.n \in Nat /\ v.key \in Keys /\ v.key \in Nat
  BY WidthAssumption DEF Descr

(* The frame v lies between lo and hi. *)
FrameSpan(v, c, lo, hi) == v \in Descr /\ FrameUnit(v, c) /\ lo \in Nat /\ hi = lo + Len(c)

LEMMA SpanFacts ==
  ASSUME NEW v, NEW c, NEW lo, NEW hi, FrameSpan(v, c, lo, hi)
  PROVE  /\ v.n \in Nat /\ v.key \in Nat /\ v.key \in Keys /\ HeadLen(v.n, v.key) \in {2, 3, 4} /\ hi \in Nat
         /\ hi - v.n = lo + HeadLen(v.n, v.key) /\ Len(c) = HeadLen(v.n, v.key) + v.n /\ Code(v.n) \in Nat
         /\ (Code(v.n) > Len7Max <=> v.n > Len7Max) /\ (v.n <= Len7Max => Code(v.n) = v.n)
<1>1. v.n \in Nat /\ v.key \in Nat /\ v.key \in Keys
  BY DescrFacts DEF FrameSpan
<1>2. HeadLen(v.n, v.key) \in {2, 3, 4}
  BY <1>1 DEF HeadLen
<1>3. Len(c) = HeadLen(v.n, v.key) + v.n /\ lo \in Nat /\ hi = lo + Len(c)
  BY DEF FrameSpan, FrameUnit
<1>4. PICK n \in Nat, h \in Nat : n = v.n /\ h = HeadLen(v.n, v.key)
  BY <1>1, <1>2
<1>5. hi = lo + (h + n)
  BY <1>3, <1>4
<1>6. hi \in Nat /\ hi - n = lo + h
  BY <1>3, <1>4, <1>5
<1>7. Code(n) \in Nat /\ (Code(n) > Len7Max <=> n > Len7Max) /\ (n <= Len7Max => Code(n) = n)
  BY WidthAssumption DEF Code, Code16, Code64
<1>8. QED
  BY <1>1, <1>2, <1>3, <1>4, <1>6, <1>7

LEMMA HeaderRead ==
  ASSUME NEW v, NEW c, NEW lo, NEW hi, FrameSpan(v, c, lo, hi), NEW f, NEW g, NEW d, NEW d2, NEW o, NEW tied,
         ReadsHeader(f, d, g, d2, o), d[1] = c[1], d[2] = c[2], ~g.fragmented
  PROVE  InFrame(g, v, lo, hi, lo + 2, tied) /\ g.st \in {"ReadPayloadLength", "ReadMask", "ReadPayload"}
<1>1. PICK n \in Nat, key \in Nat, h \in {2, 3, 4}, z \in Nat, p \in Nat :
        n = v.n /\ key = v.key /\ h = HeadLen(n, key) /\ z = hi /\ p = lo
  BY SpanFacts DEF FrameSpan
<1>2. /\ z - n = p + h /\ Code(n) \in Nat /\ (Code(n) > Len7Max <=> n > Len7Max) /\ (n <= Len7Max => Code(n) = n)
  BY <1>1, SpanFacts
<1>3. c[1] = <<"h1", v.fin, FALSE, v.op>> /\ c[2] = <<"h2", key # 0, Code(n)>>
  BY <1>1 DEF FrameSpan, FrameUnit
<1>4. d[1][2] = v.fin /\ d[1][4] = v.op /\ d[2][2] = (key # 0) /\ d[2][3] = Code(n)
  BY <1>3
<1>5. /\ g.fin = v.fin /\ g.opCode = v.op /\ g.length = Code(n) /\ g.mask = (IF key # 0 THEN Unread ELSE 0)
      /\ g.st = (IF Code(n) > Len7Max THEN "ReadPayloadLength" ELSE IF key # 0 THEN "ReadMask" ELSE "ReadPayload")
  BY <1>4 DEF ReadsHeader
<1>6. Unread # 0
  BY DEF Unread
<1>7. CASE n > Len7Max
  BY <1>1, <1>2, <1>5, <1>6, <1>7 DEF InFrame
<1>8. CASE ~(n > Len7Max) /\ key # 0
  <2>1. h = 3
    BY <1>1, <1>8 DEF HeadLen
  <2>2. p + 2 = z - n - 1
    BY <1>2, <2>1
  <2>3. g.st = "ReadMask" /\ g.length = n
    BY <1>2, <1>5, <1>8, WidthAssumption
  <2>4. QED
    BY <1>1, <1>5, <1>8, <2>2, <2>3 DEF InFrame
<1>9. CASE ~(n > Len7Max) /\ key = 0
  <2>1. h = 2
    BY <1>1, <1>9 DEF HeadLen
  <2>2. p + 2 = z - n
    BY <1>2, <2>1
  <2>3. g.st = "ReadPayload" /\ g.length = n /\ g.mask = 0
    BY <1>2, <1>5, <1>9, WidthAssumption
  <2>4. QED
    BY <1>1, <1>5, <1>9, <2>2, <2>3 DEF InFrame
<1>10. QED
  BY <1>7, <1>8, <1>9

LEMMA LengthRead ==
  ASSUME NEW v, NEW c, NEW lo, NEW hi, FrameSpan(v, c, lo, hi), NEW f, NEW g, NEW d, NEW d2, NEW o, NEW rd, NEW tied,
         ReadsLength(f, d, g, d2, o), InFrame(f, v, lo, hi, rd, tied), d[1] = c[3], g.fragmented = f.fragmented
  PROVE  InFrame(g, v, lo, hi, rd + 1, tied) /\ g.st \in {"ReadMask", "ReadPayload"}
<1>1. PICK n \in Nat, key \in Nat, h \in {2, 3, 4}, z \in Nat, p \in Nat :
        n = v.n /\ key = v.key /\ h = HeadLen(n, key) /\ z = hi /\ p = lo
  BY SpanFacts DEF FrameSpan
<1>2. z - n = p + h
  BY <1>1, SpanFacts
<1>3. rd = p + 2 /\ n > Len7Max /\ f.length = Code(n) /\ (f.mask # 0 <=> key # 0)
      /\ (tied => f.fin = v.fin /\ f.opCode = v.op /\ ~f.fragmented)
  BY <1>1 DEF InFrame, ReadsLength
<1>4. d[1][2] = n
  BY <1>1, <1>3 DEF FrameSpan, FrameUnit
<1>5. n <= Max32
  <2>1. LengthOk(Code(n), n)
    BY <1>3, <1>4 DEF ReadsLength
  <2>2. CASE n <= Len16Max
    BY <2>2, WidthAssumption
  <2>3. CASE ~(n <= Len16Max)
    <3>1. Code(n) = Code64 /\ Code64 # Code16
      BY <1>3, <2>3, WidthAssumption DEF Code, Code64, Code16
    <3>2. QED
      BY <2>1, <3>1 DEF LengthOk
  <2>4. QED
    BY <2>2, <2>3
<1>6. n % (Max32 + 1) = n
  <2>1. n \in 0 .. Max32 /\ Max32 + 1 \in Nat \ {0}
    BY <1>5, WidthAssumption
  <2>2. QED
    BY <2>1, WidthAssumption
<1>7. /\ g.fin = f.fin /\ g.opCode = f.opCode /\ g.length = n /\ g.mask = f.mask
      /\ g.st = (IF f.mask # 0 THEN "ReadMask" ELSE "ReadPayload")
  BY <1>4, <1>6 DEF ReadsLength
<1>8. CASE key # 0
  <2>1. h = 4 /\ (p + 2) + 1 = z - n - 1
    <3>1. h = 4
      BY <1>1, <1>3, <1>8, WidthAssumption DEF HeadLen
    <3>2. QED
      BY <1>2, <3>1
  <2>2. g.st = "ReadMask"
    BY <1>3, <1>7, <1>8
  <2>3. QED
    BY <1>1, <1>3, <1>7, <1>8, <2>1, <2>2 DEF InFrame
<1>9. CASE key = 0
  <2>1. h = 3 /\ (p + 2) + 1 = z - n
    <3>1. h = 3
      BY <1>1, <1>3, <1>9, WidthAssumption DEF HeadLen
    <3>2. QED
      BY <1>2, <3>1
  <2>2. g.st = "ReadPayload" /\ g.mask = 0
    BY <1>3, <1>7, <1>9
  <2>3. QED
    BY <1>1, <1>3, <1>7, <1>9, <2>1, <2>2 DEF InFrame
<1>10. QED
  BY <1>8, <1>9

LEMMA MaskRead ==
  ASSUME NEW v, NEW c, NEW lo, NEW hi, FrameSpan(v, c, lo, hi), NEW f, NEW g, NEW d, NEW d2, NEW o, NEW rd, NEW tied,
         ReadsMask(f, d, g, d2, o), InFrame(f, v, lo, hi, rd, tied), d[1] = c[HeadLen(v.n, v.key)],
         g.fragmented = f.fragmented
  PROVE  InFrame(g, v, lo, hi, rd + 1, tied) /\ g.st = "ReadPayload"
<1>1. PICK n \in Nat, key \in Nat, z \in Nat : n = v.n /\ key = v.key /\ z = hi
  BY SpanFacts
<1>2. rd = z - n - 1 /\ key # 0 /\ f.length = n /\ (tied => f.fin = v.fin /\ f.opCode = v.op /\ ~f.fragmented)
  BY <1>1 DEF InFrame, ReadsMask
<1>3. d[1][2] = key
  BY <1>1, <1>2 DEF FrameSpan, FrameUnit
<1>4. /\ g.fin = f.fin /\ g.opCode = f.opCode /\ g.length = n /\ g.mask = key /\ g.st = "ReadPayload"
  BY <1>2, <1>3 DEF ReadsMask
<1>5. rd + 1 = z - n
  BY <1>2
<1>6. QED
  BY <1>1, <1>2, <1>4, <1>5 DEF InFrame

LEMMA PayloadRead ==
  ASSUME NEW v, NEW lo, NEW hi, NEW f, NEW g, NEW d, NEW d2, NEW o, NEW rd, NEW tied,
         ReadsPayload(f, d, g, d2, o), InFrame(f, v, lo, hi, rd, tied), g.fragmented = f.fragmented
  PROVE  InFrame(g, v, lo, hi, rd, tied) /\ g.st = "Done" /\ o = 0
  BY DEF InFrame, ReadsPayload

(* The frame being read and what the reader finds in the window. *)
FrameHere(s, w, T, rd, b, C, V, k) ==
  /\ k \in 0 .. Len(C) - 1 /\ FrameSpan(V[k + 1], C[k + 1], b[k + 1], b[k + 2])
  /\ s.frame.st = "ReadHeader" => Reached(s, w, T, rd, b, C, k, 0)
  /\ s.frame.st = "ReadPayloadLength" => Reached(s, w, T, rd, b, C, k, 2) /\ V[k + 1].n > Len7Max
  /\ s.frame.st = "ReadMask" =>
       Reached(s, w, T, rd, b, C, k, HeadLen(V[k + 1].n, V[k + 1].key) - 1) /\ V[k + 1].key # 0
  /\ s.frame.st = "ReadPayload" =>
       Reached(s, w, T, rd, b, C, k, HeadLen(V[k + 1].n, V[k + 1].key)) /\ s.frame.length = V[k + 1].n

LEMMA FrameFound ==
  ASSUME NEW H, NEW x, NEW s, NEW w, NEW gn, NEW g, NEW snt, NEW sx, NEW T, NEW rd, NEW b, NEW C, NEW V, NEW k,
         Live(H, x, s, w, gn, g, snt, sx, T, rd, b, C, V, k),
         s.status = "WebSocket", s.frame.st # "Done", s.left >= 1 \/ s.frame.st # "ReadHeader"
  PROVE  FrameHere(s, w, T, rd, b, C, V, k)
<1>1. /\ C \in Buffers /\ Layout(T, b, C) /\ k \in 0 .. Len(C) /\ Len(C) \in Nat /\ rd \in Nat
      /\ s.left \in Nat /\ s.frame.length \in Nat /\ H \in Nat /\ k \in Nat /\ k >= H
      /\ (s.frame.st = "ReadHeader" => rd = b[k + 1])
      /\ (k \in 0 .. Len(C) - 1 => UnitRead(H, x, s, gn, snt, sx, T, b, C, V, k))
  BY LiveFacts
<1>2. Carries(s, w, T, rd) /\ Counts(s) /\ w \in Seq(Cell)
      /\ (s.frame.st # "ReadHeader" => k < Len(C) /\ InFrame(s.frame, V[k + 1], b[k + 1], b[k + 2], rd, ~Untied(sx)))
  BY DEF Live, Pos
<1>3. k \in 0 .. Len(C) - 1
  <2>1. CASE s.frame.st = "ReadHeader"
    BY <1>1, <1>2, <2>1, UnitHere
  <2>2. CASE s.frame.st # "ReadHeader"
    BY <1>1, <1>2, <2>2
  <2>3. QED
    BY <2>1, <2>2
<1>4. PICK v, c : v = V[k + 1] /\ c = C[k + 1]
  OBVIOUS
<1>5. v \in Descr /\ FrameUnit(v, c)
  BY <1>1, <1>3, <1>4, UnitOf
<1>6. b[k + 1] \in Nat /\ b[k + 2] = b[k + 1] + Len(C[k + 1])
  BY <1>1, <1>3, Bounds
<1>7. FrameSpan(v, c, b[k + 1], b[k + 2])
  BY <1>4, <1>5, <1>6 DEF FrameSpan
<1>8. PICK n \in Nat, h \in {2, 3, 4}, lo \in Nat, hi \in Nat :
        n = v.n /\ h = HeadLen(v.n, v.key) /\ lo = b[k + 1] /\ hi = b[k + 2]
  BY <1>6, <1>7, SpanFacts
<1>9. hi - n = lo + h
  BY <1>7, <1>8, SpanFacts
<1>10. ASSUME NEW q \in Nat, rd = lo + q
       PROVE  Reached(s, w, T, rd, b, C, k, q)
  BY <1>1, <1>2, <1>3, <1>8, <1>10 DEF Reached
<1>11. CASE s.frame.st = "ReadHeader"
  <2>1. rd = lo + 0
    BY <1>1, <1>8, <1>11
  <2>2. Reached(s, w, T, rd, b, C, k, 0)
    BY <1>10, <2>1
  <2>3. QED
    BY <1>3, <1>4, <1>7, <1>11, <2>2 DEF FrameHere
<1>12. CASE s.frame.st = "ReadPayloadLength"
  <2>1. rd = lo + 2 /\ v.n > Len7Max
    BY <1>2, <1>4, <1>8, <1>12 DEF InFrame
  <2>2. Reached(s, w, T, rd, b, C, k, 2)
    BY <1>10, <2>1
  <2>3. QED
    BY <1>3, <1>4, <1>7, <1>12, <2>1, <2>2 DEF FrameHere
<1>13. CASE s.frame.st = "ReadMask"
  <2>1. rd = hi - n - 1 /\ v.key # 0
    BY <1>2, <1>4, <1>8, <1>13 DEF InFrame
  <2>2. rd = lo + (h - 1) /\ h - 1 \in Nat
    BY <1>9, <2>1
  <2>3. Reached(s, w, T, rd, b, C, k, h - 1)
    BY <1>10, <2>2
  <2>4. QED
    BY <1>3, <1>4, <1>7, <1>8, <1>13, <2>1, <2>3 DEF FrameHere
<1>14. CASE s.frame.st = "ReadPayload"
  <2>1. rd = hi - n /\ s.frame.length = v.n
    BY <1>2, <1>4, <1>8, <1>14 DEF InFrame
  <2>2. rd = lo + h /\ h \in Nat
    BY <1>9, <2>1
  <2>3. Reached(s, w, T, rd, b, C, k, h)
    BY <1>10, <2>2
  <2>4. QED
    BY <1>3, <1>4, <1>7, <1>8, <1>14, <2>1, <2>3 DEF FrameHere
<1>15. s.frame.st \in Sts
  BY FrameFields DEF Live
<1>16. QED
  BY <1>11, <1>12, <1>13, <1>14, <1>15 DEF Sts

(* The cells a turn of the reader looks at. *)
FrameCells(f, d, v, c) ==
  /\ f.st = "ReadHeader" /\ Len(d) >= 2 => d[1] = c[1] /\ d[2] = c[2]
  /\ f.st = "ReadPayloadLength" /\ Len(d) >= 1 => d[1] = c[3] /\ v.n > Len7Max
  /\ f.st = "ReadMask" /\ Len(d) >= 1 => d[1] = c[HeadLen(v.n, v.key)] /\ v.key # 0
  /\ f.st = "ReadPayload" /\ Len(d) >= f.length =>
       f.length = v.n /\ \A i \in 1 .. v.n : d[i] = c[HeadLen(v.n, v.key) + i]

LEMMA FrameSeen ==
  ASSUME NEW s, NEW w, NEW T, NEW rd, NEW b, NEW C, NEW V, NEW k, FrameHere(s, w, T, rd, b, C, V, k),
         Len(Window(s)) = s.left, s.left \in Nat
  PROVE  FrameCells(s.frame, Window(s), V[k + 1], C[k + 1])
<1>1. PICK v, c : v = V[k + 1] /\ c = C[k + 1]
  OBVIOUS
<1>2. FrameSpan(v, c, b[k + 1], b[k + 2])
  BY <1>1 DEF FrameHere
<1>3. PICK n \in Nat, h \in {2, 3, 4}, l \in Nat : n = v.n /\ h = HeadLen(v.n, v.key) /\ l = s.left /\ Len(c) = h + n
  BY <1>2, SpanFacts
<1>4. CASE s.frame.st = "ReadHeader"
  <2>1. Reached(s, w, T, rd, b, C, k, 0)
    BY <1>4 DEF FrameHere
  <2>2. ASSUME l >= 2 PROVE Window(s)[1] = c[1] /\ Window(s)[2] = c[2]
    <3>1. 1 \in 1 .. s.left /\ 2 \in 1 .. s.left /\ 0 + 1 <= Len(C[k + 1]) /\ 0 + 2 <= Len(C[k + 1])
      BY <1>1, <1>3, <2>2
    <3>2. Window(s)[1] = C[k + 1][0 + 1]
      BY <2>1, <3>1, CellHere
    <3>3. Window(s)[2] = C[k + 1][0 + 2]
      BY <2>1, <3>1, CellHere
    <3>4. 0 + 1 = 1 /\ 0 + 2 = 2
      OBVIOUS
    <3>5. QED
      BY <1>1, <3>2, <3>3, <3>4
  <2>3. QED
    BY <1>1, <1>3, <1>4, <2>2 DEF FrameCells
<1>5. CASE s.frame.st = "ReadPayloadLength"
  <2>1. Reached(s, w, T, rd, b, C, k, 2) /\ n > Len7Max
    BY <1>1, <1>3, <1>5 DEF FrameHere
  <2>2. h >= 3
    BY <1>3, <2>1, SpanFacts, <1>2 DEF HeadLen
  <2>3. ASSUME l >= 1 PROVE Window(s)[1] = c[3]
    <3>1. 1 \in 1 .. s.left /\ 2 + 1 <= Len(C[k + 1]) /\ 2 + 1 = 3
      BY <1>1, <1>3, <2>2, <2>3
    <3>2. Window(s)[1] = C[k + 1][2 + 1]
      BY <2>1, <3>1, CellHere
    <3>3. QED
      BY <1>1, <3>1, <3>2
  <2>4. QED
    BY <1>1, <1>3, <1>5, <2>1, <2>3 DEF FrameCells
<1>6. CASE s.frame.st = "ReadMask"
  <2>1. Reached(s, w, T, rd, b, C, k, h - 1) /\ v.key # 0
    BY <1>1, <1>3, <1>6 DEF FrameHere
  <2>3. ASSUME l >= 1 PROVE Window(s)[1] = c[h]
    <3>1. 1 \in 1 .. s.left /\ (h - 1) + 1 <= Len(C[k + 1]) /\ (h - 1) + 1 = h
      BY <1>1, <1>3, <2>3
    <3>2. Window(s)[1] = C[k + 1][(h - 1) + 1]
      BY <2>1, <3>1, CellHere
    <3>3. QED
      BY <1>1, <3>1, <3>2
  <2>4. QED
    BY <1>1, <1>3, <1>6, <2>1, <2>3 DEF FrameCells
<1>7. CASE s.frame.st = "ReadPayload"
  <2>1. Reached(s, w, T, rd, b, C, k, h) /\ s.frame.length = n
    BY <1>1, <1>3, <1>7 DEF FrameHere
  <2>3. ASSUME l >= n, NEW i \in 1 .. n PROVE Window(s)[i] = c[h + i]
    <3>1. i \in 1 .. s.left /\ h + i <= Len(C[k + 1])
      BY <1>1, <1>3, <2>3
    <3>2. Window(s)[i] = C[k + 1][h + i]
      BY <2>1, <3>1, CellHere
    <3>3. QED
      BY <1>1, <3>2
  <2>4. QED
    BY <1>1, <1>3, <1>7, <2>1, <2>3 DEF FrameCells
<1>8. QED
  BY <1>1, <1>4, <1>5, <1>6, <1>7 DEF FrameCells

(* What lies where it should is not misread. *)
LEMMA NotMisread ==
  ASSUME NEW f, NEW d, NEW v, NEW c, NEW lo, NEW hi, FrameSpan(v, c, lo, hi), FrameCells(f, d, v, c)
  PROVE  ~Misreads(f, d)
<1>1. PICK n \in Nat, h \in {2, 3, 4} : n = v.n /\ h = HeadLen(v.n, v.key)
  BY SpanFacts
<1>2. /\ c[1][1] = "h1" /\ c[2][1] = "h2" /\ (n > Len7Max => c[3][1] = "ex")
      /\ (v.key # 0 => c[h][1] = "mk") /\ \A i \in 1 .. n : c[h + i][1] = "pl"
  BY <1>1 DEF FrameSpan, FrameUnit, PlainCell
<1>3. QED
  BY <1>1, <1>2 DEF FrameCells, Misreads

LEMMA PosFrame ==
  ASSUME NEW H, NEW x, NEW s, NEW w, NEW gn, NEW g, NEW snt, NEW sx, NEW T, NEW rd, NEW b, NEW C, NEW V, NEW k,
         Live(H, x, s, w, gn, g, snt, sx, T, rd, b, C, V, k), NEW t, NEW rd2,
         s.status = "WebSocket", t.status = "WebSocket", k \in 0 .. Len(C) - 1, t.frame.st # "ReadHeader",
         InFrame(t.frame, V[k + 1], b[k + 1], b[k + 2], rd2, ~Untied(sx))
  PROVE  Pos(H, ~Untied(sx), t, g \o <<>>, b, C, V, k, rd2)
<1>1. g \o <<>> = g
  BY EmptySeq, ConcatEmptySeq DEF Live
<1>2. Pos(H, ~Untied(sx), s, g, b, C, V, k, rd)
  BY DEF Live
<1>3. k < Len(C)
  <2>1. Len(C) \in Nat
    BY LiveFacts
  <2>2. QED
    BY <2>1
<1>4. QED
  BY <1>1, <1>2, <1>3 DEF Pos

LEMMA FrameReadsOn ==
  ASSUME NEW e, NEW t, NEW cb, NEW H, NEW x, NEW s, NEW w, NEW gn, NEW g, NEW snt, NEW sx, NEW T, NEW rd,
         NEW b, NEW C, NEW V, NEW k, Live(H, x, s, w, gn, g, snt, sx, T, rd, b, C, V, k),
         s.status = "WebSocket", FrameReads(e, s, t, cb), ~Refused(t.frame)
  PROVE  ReadsOn(H, s, t, w, g, snt, sx, T, rd, b, C, V, cb)
<1>1. PICK f, d, o : Turned(s, t, f, d, o, Length(e)) /\ Reads(s.frame, Window(s), f, d, o)
  BY DEF FrameReads
<1>2. cb = <<>> /\ s.frame.st # "Done"
  BY DEF FrameReads
<1>3. /\ Carries(s, w, T, rd) /\ Counts(s) /\ w \in Seq(Cell) /\ Len(Window(s)) = s.left /\ s.left \in Nat
      /\ FrameOK(s.frame) /\ s.frame \in FrameType /\ g \in Seq(Entry) /\ rd \in Nat /\ s.frame.length \in Nat
  BY DEF Live, Counts, FrameFits, Carries
<1>4. /\ t.frame = f /\ t.status = "WebSocket" /\ t.left = s.left - o /\ o \in 0 .. s.left
      /\ \A i \in 1 .. s.left - o : Window(t)[i] = d[o + i]
  BY <1>1, <1>3 DEF Turned, Reads
<1>5. ~s.frame.fragmented /\ f.fragmented = s.frame.fragmented /\ ~f.fragmented
  BY <1>1, <1>2, <1>3 DEF FrameOK, Reads
<1>6. \/ ReadsHeader(s.frame, Window(s), f, d, o) \/ ReadsLength(s.frame, Window(s), f, d, o)
      \/ ReadsMask(s.frame, Window(s), f, d, o) \/ ReadsPayload(s.frame, Window(s), f, d, o)
  BY <1>1, <1>4 DEF Reads
<1>7. s.left >= 1 \/ s.frame.st # "ReadHeader"
  <2>1. CASE ReadsHeader(s.frame, Window(s), f, d, o)
    <3>1. s.left >= 2
      BY <1>3, <2>1 DEF ReadsHeader
    <3>2. QED
      BY <1>3, <3>1
  <2>2. CASE ~ReadsHeader(s.frame, Window(s), f, d, o)
    BY <1>6, <2>2 DEF ReadsLength, ReadsMask, ReadsPayload
  <2>3. QED
    BY <2>1, <2>2
<1>8. FrameHere(s, w, T, rd, b, C, V, k)
  BY <1>2, <1>7, FrameFound
<1>9. PICK v, c, lo, hi : v = V[k + 1] /\ c = C[k + 1] /\ lo = b[k + 1] /\ hi = b[k + 2]
  OBVIOUS
<1>10. FrameCells(s.frame, Window(s), v, c)
  BY <1>3, <1>8, <1>9, FrameSeen
<1>11. FrameSpan(v, c, lo, hi) /\ k \in 0 .. Len(C) - 1
  BY <1>8, <1>9 DEF FrameHere
<1>12. s.frame.st # "ReadHeader" => InFrame(s.frame, v, lo, hi, rd, ~Untied(sx))
  BY <1>9 DEF Live, Pos
<1>13. Gives(g, snt, sx, cb)
  BY <1>2 DEF Gives
<1>14. ASSUME NEW n \in Nat, n = o, f.st # "Done", f.st # "ReadHeader", d = Window(s),
              InFrame(f, v, lo, hi, rd + n, ~Untied(sx))
       PROVE  ReadsOn(H, s, t, w, g, snt, sx, T, rd, b, C, V, cb)
  <2>1. Dropped(s, t, n)
    <3>1. n <= s.left /\ t.left = s.left - n /\ t.frame.st # "Done"
      BY <1>3, <1>4, <1>14
    <3>2. \A i \in 1 .. s.left - n : Window(t)[i] = Window(s)[n + i]
      BY <1>4, <1>14
    <3>3. QED
      BY <1>2, <1>14, <3>1, <3>2 DEF Dropped
  <2>2. Carries(t, w, T, rd + n)
    BY <1>3, <2>1, CarriesTaken
  <2>3. (rd + n) + t.left = rd + s.left
    BY <1>3, <1>4, <1>14
  <2>4. Pos(H, ~Untied(sx), t, g \o <<>>, b, C, V, k, rd + n)
    BY <1>4, <1>9, <1>11, <1>14, PosFrame
  <2>5. QED
    BY <1>2, <1>13, <2>2, <2>3, <2>4 DEF ReadsOn
<1>15. CASE ReadsHeader(s.frame, Window(s), f, d, o)
  <2>1. s.frame.st = "ReadHeader" /\ Len(Window(s)) >= 2 /\ o = 2 /\ d = Window(s)
    BY <1>15 DEF ReadsHeader
  <2>2. Window(s)[1] = c[1] /\ Window(s)[2] = c[2]
    BY <1>10, <2>1 DEF FrameCells
  <2>3. InFrame(f, v, lo, hi, lo + 2, ~Untied(sx)) /\ f.st \in {"ReadPayloadLength", "ReadMask", "ReadPayload"}
    BY <1>5, <1>11, <1>15, <2>2, HeaderRead
  <2>4. rd = lo
    BY <1>9, <2>1 DEF Live, Pos
  <2>5. QED
    BY <1>14, <2>1, <2>3, <2>4
<1>16. CASE ReadsLength(s.frame, Window(s), f, d, o)
  <2>1. s.frame.st = "ReadPayloadLength" /\ Len(Window(s)) >= 1 /\ o = 1 /\ d = Window(s)
    BY <1>16 DEF ReadsLength
  <2>2. Window(s)[1] = c[3]
    BY <1>10, <2>1 DEF FrameCells
  <2>3. InFrame(s.frame, v, lo, hi, rd, ~Untied(sx))
    BY <1>12, <2>1
  <2>4. InFrame(f, v, lo, hi, rd + 1, ~Untied(sx)) /\ f.st \in {"ReadMask", "ReadPayload"}
    BY <1>5, <1>11, <1>16, <2>2, <2>3, LengthRead
  <2>5. QED
    BY <1>14, <2>1, <2>4
<1>17. CASE ReadsMask(s.frame, Window(s), f, d, o)
  <2>1. s.frame.st = "ReadMask" /\ Len(Window(s)) >= 1 /\ o = 1 /\ d = Window(s)
    BY <1>17 DEF ReadsMask
  <2>2. Window(s)[1] = c[HeadLen(v.n, v.key)]
    BY <1>10, <2>1 DEF FrameCells
  <2>3. InFrame(s.frame, v, lo, hi, rd, ~Untied(sx))
    BY <1>12, <2>1
  <2>4. InFrame(f, v, lo, hi, rd + 1, ~Untied(sx)) /\ f.st = "ReadPayload"
    BY <1>5, <1>11, <1>17, <2>2, <2>3, MaskRead
  <2>5. QED
    BY <1>14, <2>1, <2>4
<1>18. CASE ReadsPayload(s.frame, Window(s), f, d, o)
  <2>1. InFrame(s.frame, v, lo, hi, rd, ~Untied(sx))
    BY <1>12, <1>18 DEF ReadsPayload
  <2>2. InFrame(f, v, lo, hi, rd, ~Untied(sx)) /\ f.st = "Done" /\ o = 0
    BY <1>5, <1>18, <2>1, PayloadRead
  <2>3. PICK n \in Nat, l \in Nat : n = s.frame.length /\ l = s.left
    BY <1>3
  <2>4. /\ f.length = n /\ f.mask = s.frame.mask /\ (\A i \in 1 .. n : d[i] = Unmasked(Window(s)[i], f.mask))
        /\ \A i \in n + 1 .. l : d[i] = Window(s)[i]
    BY <1>3, <1>18, <2>3 DEF ReadsPayload
  <2>5. \A i \in 1 .. l : Window(t)[i] = d[i]
    <3>1. \A i \in 1 .. l : i \in 1 .. s.left - o /\ o + i = i
      BY <2>2, <2>3
    <3>2. QED
      BY <1>4, <3>1
  <2>6. Unveiled(s, t)
    <3>1. t.left = s.left
      BY <1>4, <2>2, <2>3
    <3>2. ASSUME NEW i \in 1 .. l
          PROVE  Window(t)[i] = IF i <= n THEN Unmasked(Window(s)[i], f.mask) ELSE Window(s)[i]
      <4>1. CASE i <= n
        <5>1. i \in 1 .. n
          BY <4>1
        <5>2. QED
          BY <2>4, <2>5, <4>1, <5>1
      <4>2. CASE ~(i <= n)
        <5>1. i \in n + 1 .. l
          BY <4>2
        <5>2. QED
          BY <2>4, <2>5, <4>2, <5>1
      <4>3. QED
        BY <4>1, <4>2
    <3>3. QED
      BY <1>2, <1>4, <2>2, <2>3, <2>4, <3>1, <3>2 DEF Unveiled
  <2>7. Carries(t, w, T, rd)
    BY <1>3, <2>6, CarriesUnmasked
  <2>8. rd + t.left = rd + s.left
    BY <1>4, <2>2, <2>3
  <2>9. Pos(H, ~Untied(sx), t, g \o <<>>, b, C, V, k, rd)
    <3>1. t.frame.st # "ReadHeader"
      BY <1>4, <2>2
    <3>2. QED
      BY <1>4, <1>9, <1>11, <2>2, <3>1, PosFrame
  <2>10. QED
    BY <1>2, <1>13, <2>7, <2>8, <2>9 DEF ReadsOn
<1>19. QED
  BY <1>6, <1>15, <1>16, <1>17, <1>18

LEMMA SaysFrame ==
  ASSUME NEW v, NEW c, NEW lo, NEW hi, FrameSpan(v, c, lo, hi), NEW W \in Seq(AnyCell), NEW n \in Nat, n = v.n,
         n <= Len(W), \A i \in 1 .. n : W[i] = Unmasked(c[HeadLen(v.n, v.key) + i], v.key)
  PROVE  Seen(v.op, SubSeq(W, 1, n)) = Says(v, c)
<1>1. PICK h \in {2, 3, 4} : h = HeadLen(v.n, v.key) /\ Len(c) = h + n
  BY SpanFacts
<1>2. PICK B : B = [i \in 1 .. v.n |-> Unmasked(c[(Len(c) - v.n) + i], v.key)]
  OBVIOUS
<1>3. SubSeq(W, 1, n) \in Seq(AnyCell) /\ Len(SubSeq(W, 1, n)) = n /\ \A i \in 1 .. n : SubSeq(W, 1, n)[i] = W[i]
  <2>1. n \in 0 .. Len(W) /\ 1 <= n + 1 /\ 1 \in Nat \ {0} /\ n - 1 + 1 = n
    BY LenProperties
  <2>2. /\ SubSeq(W, 1, n) \in Seq(AnyCell) /\ Len(SubSeq(W, 1, n)) = n - 1 + 1
        /\ \A i \in 1 .. n - 1 + 1 : SubSeq(W, 1, n)[i] = W[1 + i - 1]
    BY <2>1, PartOf
  <2>3. \A i \in 1 .. n : 1 + i - 1 = i
    OBVIOUS
  <2>4. QED
    BY <2>1, <2>2, <2>3
<1>4. \A i \in 1 .. n : B[i] = W[i]
  <2>1. Len(c) - v.n = h
    BY <1>1
  <2>2. QED
    BY <1>1, <1>2, <2>1
<1>5. SubSeq(W, 1, n) = B
  <2>1. SubSeq(W, 1, n) \in [1 .. n -> AnyCell]
    BY <1>3, LenProperties
  <2>2. QED
    BY <1>2, <1>3, <1>4, <2>1
<1>6. QED
  BY <1>2, <1>5 DEF Says

LEMMA FrameEndsOn ==
  ASSUME NEW e, NEW t, NEW cb, NEW H, NEW x, NEW s, NEW w, NEW gn, NEW g, NEW snt, NEW sx, NEW T, NEW rd,
         NEW b, NEW C, NEW V, NEW k, Live(H, x, s, w, gn, g, snt, sx, T, rd, b, C, V, k),
         s.status = "WebSocket", FrameEnds(e, s, t, cb), cb \in Seq(Entry)
  PROVE  ReadsOn(H, s, t, w, g, snt, sx, T, rd, b, C, V, cb)
<1>1. PICK f, r : /\ Turned(s, t, f, Window(s), s.frame.length, Length(e)) /\ r.cb = cb
                  /\ TurnEnds(s.frame, Window(s), r, f, s.frame.length)
  BY DEF FrameEnds
<1>2. s.frame.st = "Done"
  BY DEF FrameEnds
<1>3. /\ Carries(s, w, T, rd) /\ Counts(s) /\ w \in Seq(Cell) /\ Len(Window(s)) = s.left /\ s.left \in Nat
      /\ g \in Seq(Entry) /\ rd \in Nat /\ s.frame.length \in Nat /\ Window(s) \in Seq(AnyCell)
      /\ s.frame.length <= s.left
  BY <1>2 DEF Live, Counts, FrameFits, Carries
<1>4. PICK n \in Nat : n = s.frame.length
  BY <1>3
<1>5. /\ t.frame = f /\ f.st = "ReadHeader" /\ t.status = "WebSocket" /\ t.left = s.left - n
      /\ \A i \in 1 .. s.left - n : Window(t)[i] = Window(s)[n + i]
  BY <1>1, <1>4 DEF Turned, TurnEnds
<1>6. /\ C \in Buffers /\ Layout(T, b, C) /\ Len(C) \in Nat /\ H \in Nat /\ k \in Nat /\ k >= H /\ Len(g) \in Nat
      /\ (~Untied(sx) => Len(g) = k - H) /\ k \in 0 .. Len(C)
      /\ (k \in 0 .. Len(C) - 1 => UnitRead(H, x, s, gn, snt, sx, T, b, C, V, k))
  BY LiveFacts
<1>7. PICK v, c, lo, hi : v = V[k + 1] /\ c = C[k + 1] /\ lo = b[k + 1] /\ hi = b[k + 2]
  OBVIOUS
<1>8. k < Len(C) /\ InFrame(s.frame, v, lo, hi, rd, ~Untied(sx))
  BY <1>2, <1>7 DEF Live, Pos
<1>9. k \in 0 .. Len(C) - 1
  BY <1>6, <1>8
<1>10. /\ v \in Descr /\ FrameUnit(v, c) /\ c \in Seq(Cell)
       /\ ~Untied(sx) => v.fin /\ v.op \in Opcode /\ k - H < Len(snt) /\ snt[(k - H) + 1] = Says(v, c)
  BY <1>6, <1>7, <1>9, UnitOf
<1>11. lo \in Nat /\ hi = lo + Len(c) /\ k + 1 \in 0 .. Len(C)
  BY <1>6, <1>7, <1>9, Bounds
<1>12. FrameSpan(v, c, lo, hi)
  BY <1>10, <1>11 DEF FrameSpan
<1>13. PICK h \in {2, 3, 4}, z \in Nat : h = HeadLen(v.n, v.key) /\ z = hi
  BY <1>12, SpanFacts
<1>14. rd = z - n /\ n = v.n /\ s.frame.mask = v.key
  BY <1>2, <1>4, <1>8, <1>13 DEF InFrame
<1>15. z - n = lo + h /\ Len(c) = h + n
  BY <1>12, <1>13, <1>14, SpanFacts
<1>16. \A i \in 1 .. n : Window(s)[i] = Unmasked(c[h + i], v.key)
  <2>1. ASSUME NEW i \in 1 .. n PROVE Window(s)[i] = Unmasked(c[h + i], v.key)
    <3>1. i \in 1 .. s.left /\ i <= s.frame.length
      BY <1>3, <1>4
    <3>2. Window(s)[i] = Unmasked(T[rd + i], v.key)
      BY <1>2, <1>3, <1>14, <3>1 DEF Carries, Holds
    <3>3. h + i \in 1 .. Len(c) /\ rd + i = lo + (h + i)
      <4>1. h + i \in 1 .. h + n /\ (lo + h) + i = lo + (h + i)
        BY <1>11
      <4>2. rd = lo + h
        BY <1>14, <1>15
      <4>3. QED
        BY <1>15, <4>1, <4>2
    <3>4. T[lo + (h + i)] = c[h + i]
      <4>1. k + 1 \in 1 .. Len(C)
        BY <1>6, <1>9
      <4>2. QED
        BY <1>6, <1>7, <3>3, <4>1 DEF Layout
    <3>5. QED
      BY <3>2, <3>3, <3>4
  <2>2. QED
    BY <2>1
<1>17. ~Untied(sx) => cb = << Says(v, c) >>
  <2>1. SUFFICES ASSUME ~Untied(sx) PROVE cb = << Says(v, c) >>
    OBVIOUS
  <2>2. s.frame.fin /\ s.frame.opCode = v.op /\ ~s.frame.fragmented /\ v.op \in Opcode
    BY <1>8, <1>10, <2>1 DEF InFrame
  <2>3. cb = << Seen(v.op, SubSeq(Window(s), 1, n)) >>
    BY <1>1, <1>4, <2>2 DEF TurnEnds
  <2>4. Seen(v.op, SubSeq(Window(s), 1, n)) = Says(v, c)
    BY <1>3, <1>4, <1>12, <1>13, <1>14, <1>16, SaysFrame
  <2>5. QED
    BY <2>3, <2>4
<1>18. Gives(g, snt, sx, cb)
  BY <1>6, <1>10, <1>17 DEF Gives
<1>19. Carries(t, w, T, rd + n) /\ (rd + n) + t.left = rd + s.left
  <2>1. Dropped(s, t, n)
    BY <1>3, <1>4, <1>5 DEF Dropped
  <2>2. Carries(t, w, T, rd + n)
    BY <1>3, <2>1, CarriesTaken
  <2>3. PICK l \in Nat, a \in Nat : l = s.left /\ a = rd
    BY <1>3
  <2>4. (a + n) + (l - n) = a + l
    OBVIOUS
  <2>5. QED
    BY <1>5, <2>2, <2>3, <2>4
<1>20. Pos(H, ~Untied(sx), t, g \o cb, b, C, V, k + 1, rd + n)
  <2>1. rd + n = hi /\ (k + 1) + 1 = k + 2 /\ k + 1 >= H
    BY <1>6, <1>13, <1>14
  <2>2. ~Untied(sx) => Len(g \o cb) = (k + 1) - H
    <3>1. SUFFICES ASSUME ~Untied(sx) PROVE Len(g \o cb) = (k + 1) - H
      OBVIOUS
    <3>2. Len(cb) = 1
      BY <1>17, <3>1
    <3>3. Len(g \o cb) = Len(g) + 1
      BY <1>3, <1>6, <3>2, OneMore
    <3>4. QED
      BY <1>6, <3>1, <3>3
  <2>3. QED
    BY <1>5, <1>7, <1>11, <2>1, <2>2 DEF Pos
<1>21. QED
  BY <1>18, <1>19, <1>20 DEF ReadsOn

(* A unit of raw messages starts with its size. *)
LEMMA RawHeader ==
  ASSUME NEW H, NEW x, NEW s, NEW w, NEW gn, NEW g, NEW snt, NEW sx, NEW T, NEW rd,
         NEW b, NEW C, NEW V, NEW k, Live(H, x, s, w, gn, g, snt, sx, T, rd, b, C, V, k),
         s.status = "TCP", s.left >= 1
  PROVE  Window(s)[1][1] = "sz"
<1>1. /\ C \in Buffers /\ Layout(T, b, C) /\ k \in 0 .. Len(C) /\ Len(C) \in Nat
      /\ s.left \in Nat /\ k \in Nat /\ s.frame.st = "ReadHeader" /\ rd = b[k + 1]
      /\ (k \in 0 .. Len(C) - 1 => UnitRead(H, x, s, gn, snt, sx, T, b, C, V, k))
  BY LiveFacts
<1>2. Carries(s, w, T, rd) /\ Counts(s) /\ w \in Seq(Cell)
  BY DEF Live
<1>3. k \in 0 .. Len(C) - 1
  BY <1>1, <1>2, UnitHere
<1>4. RawUnit(V[k + 1], C[k + 1]) /\ V[k + 1] \in Descr
  BY <1>1, <1>3, UnitOf
<1>5. PICK m \in Nat : Len(C[k + 1]) = m + 1 /\ C[k + 1][1][1] = "sz"
  BY <1>4 DEF RawUnit, Descr
<1>6. b[k + 1] \in Nat
  BY <1>1, <1>3, Bounds
<1>7. Reached(s, w, T, rd, b, C, k, 0)
  <2>1. rd = b[k + 1] + 0
    BY <1>1, <1>6
  <2>2. QED
    BY <1>1, <1>2, <1>3, <2>1 DEF Reached
<1>8. 0 + 1 = 1 /\ 0 + 1 <= Len(C[k + 1]) /\ 1 \in 1 .. s.left
  BY <1>1, <1>5
<1>9. Window(s)[1] = C[k + 1][0 + 1]
  BY <1>7, <1>8, CellHere
<1>10. QED
  BY <1>5, <1>8, <1>9

(* What is in order is not garbled. *)
LEMMA NotGarbled ==
  ASSUME NEW e, NEW t, NEW cb, NEW H, NEW x, NEW s, NEW w, NEW gn, NEW g, NEW snt, NEW sx, NEW T, NEW rd,
         NEW b, NEW C, NEW V, NEW k, Live(H, x, s, w, gn, g, snt, sx, T, rd, b, C, V, k)
  PROVE  /\ s.status = "TCP" /\ RawStops(e, s, t, cb) => t.pc = "spinning"
         /\ s.status = "WebSocket" => ~FrameStops(e, s, t, cb)
<1>1. ASSUME s.status = "TCP", RawStops(e, s, t, cb) PROVE t.pc = "spinning"
  <2>1. Window(s)[1][1] = "sz"
    BY <1>1, RawHeader DEF RawStops
  <2>2. QED
    BY <1>1, <2>1 DEF RawStops, Halts
<1>2. ASSUME s.status = "WebSocket", FrameStops(e, s, t, cb) PROVE FALSE
  <2>1. s.frame.st # "Done" /\ Misreads(s.frame, Window(s)) /\ Len(Window(s)) = s.left /\ s.left \in Nat
    BY <1>2 DEF FrameStops, Live, Counts
  <2>2. s.left >= 1 \/ s.frame.st # "ReadHeader"
    BY <2>1 DEF Misreads
  <2>3. FrameHere(s, w, T, rd, b, C, V, k)
    BY <1>2, <2>1, <2>2, FrameFound
  <2>4. FrameCells(s.frame, Window(s), V[k + 1], C[k + 1])
    BY <2>1, <2>3, FrameSeen
  <2>5. FrameSpan(V[k + 1], C[k + 1], b[k + 1], b[k + 2])
    BY <2>3 DEF FrameHere
  <2>6. QED
    BY <2>1, <2>4, <2>5, NotMisread
<1>3. QED
  BY <1>1, <1>2

-----------------------------------------------------------------------------
(* The upgrade header *)

(* What has been received is the header as far as it goes. *)
Heads(s) == \A i \in 1 .. s.left : i <= Len(Header) => Window(s)[i] = Header[i]

(* The empty line is found where the header ends. *)
LEMMA HeaderLook ==
  ASSUME NEW N \in Nat, NEW s, Fits(s, N), s.off = 0, s.hdr = 0, Heads(s)
  PROVE  /\ EmptyLines(s) # {} => Whole(s) /\ HeaderEnd(s) = Len(Header)
         /\ s.left >= Len(Header) => EmptyLines(s) # {}
<1>1. PICK l \in Nat, m \in Nat : l = s.left /\ m = HeaderLines
  BY MessageAssumption, SockFacts DEF Fits
<1>2. Len(Header) = 2 * m + 1
  BY <1>1, HeaderFacts
<1>3. \A i \in 1 .. 2 * m + 1 : Header[i][1] = "nl" <=> (i % 2 = 0 \/ i = 2 * m + 1)
  <2>1. ASSUME NEW i \in 1 .. 2 * m + 1 PROVE Header[i][1] = "nl" <=> (i % 2 = 0 \/ i = 2 * m + 1)
    <3>1. Header[i][1] = (IF i % 2 = 1 /\ i <= 2 * m THEN "tx" ELSE "nl")
      BY <1>1, HeaderFacts
    <3>2. i % 2 = 0 \/ i % 2 = 1
      OBVIOUS
    <3>3. (i <= 2 * m) <=> (i # 2 * m + 1)
      OBVIOUS
    <3>4. QED
      BY <3>1, <3>2, <3>3
  <2>2. QED
    BY <2>1
<1>4. Window(s) \in Seq(AnyCell) /\ Len(Window(s)) = l /\ \A i \in 1 .. l : Window(s)[i] = s.mem[i - 1]
  <2>1. /\ Window(s) \in Seq(AnyCell) /\ Len(Window(s)) = s.left
        /\ \A i \in 1 .. s.left : Window(s)[i] = s.mem[s.off + i - 1]
    BY WindowFacts
  <2>2. \A i \in 1 .. l : 0 + i - 1 = i - 1
    OBVIOUS
  <2>3. QED
    BY <1>1, <2>1, <2>2
<1>5. Lines(s) = {p \in 0 .. l - 1 : s.mem[p][1] = "nl"}
  <2>1. \A p \in 0 .. l - 1 : 0 + p = p
    OBVIOUS
  <2>2. 0 .. l - 0 - 1 = 0 .. l - 1
    BY <1>1
  <2>3. Lines(s) = {p \in 0 .. l - 0 - 1 : s.mem[0 + p][1] = "nl"}
    BY <1>1 DEF Lines
  <2>4. QED
    BY <2>1, <2>2, <2>3
<1>6. \A p \in 0 .. l - 1 : p < 2 * m + 1 => (p \in Lines(s) <=> ((p + 1) % 2 = 0 \/ p = 2 * m))
  <2>1. ASSUME NEW p \in 0 .. l - 1, p < 2 * m + 1 PROVE p \in Lines(s) <=> ((p + 1) % 2 = 0 \/ p = 2 * m)
    <3>1. p + 1 \in 1 .. l /\ p + 1 \in 1 .. 2 * m + 1 /\ (p + 1) - 1 = p
      BY <2>1
    <3>2. s.mem[p] = Window(s)[p + 1]
      BY <1>4, <3>1
    <3>3. Window(s)[p + 1] = Header[p + 1]
      BY <1>1, <1>2, <3>1 DEF Heads
    <3>4. Header[p + 1][1] = "nl" <=> ((p + 1) % 2 = 0 \/ p + 1 = 2 * m + 1)
      BY <1>3, <3>1
    <3>5. p + 1 = 2 * m + 1 <=> p = 2 * m
      OBVIOUS
    <3>6. QED
      BY <1>5, <3>2, <3>3, <3>4, <3>5
  <2>2. QED
    BY <2>1
<1>7. EmptyLines(s) = {p \in Lines(s) : p = 0 \/ (p - 1) \in Lines(s)}
  BY DEF EmptyLines
<1>8. \A p \in EmptyLines(s) : p \in 0 .. l - 1 /\ p >= 2 * m
  <2>1. ASSUME NEW p \in EmptyLines(s), p < 2 * m PROVE FALSE
    <3>1. p \in Lines(s) /\ p \in 0 .. l - 1 /\ (p = 0 \/ (p - 1) \in Lines(s))
      BY <1>5, <1>7
    <3>2. (p + 1) % 2 = 0
      BY <1>6, <2>1, <3>1
    <3>3. p # 0
      BY <3>2
    <3>4. p - 1 \in 0 .. l - 1 /\ p - 1 < 2 * m + 1 /\ p - 1 # 2 * m /\ (p - 1) + 1 = p
      BY <2>1, <3>1, <3>3
    <3>5. p % 2 = 0
      BY <1>6, <3>1, <3>3, <3>4
    <3>6. QED
      BY <3>1, <3>2, <3>5
  <2>2. \A p \in EmptyLines(s) : p \in 0 .. l - 1
    BY <1>5, <1>7
  <2>3. QED
    BY <2>1, <2>2
<1>9. 2 * m \in 0 .. l - 1 => 2 * m \in EmptyLines(s)
  <2>1. SUFFICES ASSUME 2 * m \in 0 .. l - 1 PROVE 2 * m \in EmptyLines(s)
    OBVIOUS
  <2>2. 2 * m \in Lines(s)
    BY <1>6, <2>1
  <2>3. CASE m = 0
    BY <1>7, <2>2, <2>3
  <2>4. CASE m # 0
    <3>1. 2 * m - 1 \in 0 .. l - 1 /\ 2 * m - 1 < 2 * m + 1 /\ (2 * m - 1) + 1 = 2 * m /\ (2 * m) % 2 = 0
      BY <2>1, <2>4
    <3>2. 2 * m - 1 \in Lines(s)
      BY <1>6, <3>1
    <3>3. QED
      BY <1>7, <2>2, <3>2
  <2>5. QED
    BY <2>3, <2>4
<1>10. s.left >= Len(Header) => EmptyLines(s) # {}
  BY <1>1, <1>2, <1>9
<1>11. ASSUME EmptyLines(s) # {} PROVE Whole(s) /\ HeaderEnd(s) = Len(Header)
  <2>1. EmptyLines(s) \in SUBSET Nat
    BY <1>8
  <2>2. Min(EmptyLines(s)) \in EmptyLines(s) /\ \A y \in EmptyLines(s) : Min(EmptyLines(s)) <= y
    BY <1>11, <2>1, LeastOf
  <2>3. PICK p \in 0 .. l - 1 : p = Min(EmptyLines(s)) /\ p >= 2 * m
    BY <1>8, <2>2
  <2>4. 2 * m \in 0 .. l - 1
    BY <2>3
  <2>5. p = 2 * m
    BY <1>9, <2>2, <2>3, <2>4
  <2>6. HeaderEnd(s) = 2 * m + 1
    BY <2>3, <2>5 DEF HeaderEnd
  <2>7. PICK n \in Nat : n = 2 * m + 1 /\ n <= l /\ n >= 1
    BY <2>4
  <2>8. n \in 0 .. Len(Window(s)) /\ 1 <= n + 1 /\ 1 \in Nat \ {0} /\ n - 1 + 1 = n
    BY <1>4, <2>7
  <2>9. /\ SubSeq(Window(s), 1, n) \in Seq(AnyCell) /\ Len(SubSeq(Window(s), 1, n)) = n - 1 + 1
        /\ \A i \in 1 .. n - 1 + 1 : SubSeq(Window(s), 1, n)[i] = Window(s)[1 + i - 1]
    BY <1>4, <2>8, PartOf
  <2>10. \A i \in 1 .. n : SubSeq(Window(s), 1, n)[i] = Header[i]
    <3>1. \A i \in 1 .. n : 1 + i - 1 = i /\ i \in 1 .. l /\ i \in 1 .. n - 1 + 1
      BY <2>7
    <3>2. QED
      BY <1>1, <1>2, <2>7, <2>9, <3>1 DEF Heads
  <2>11. SubSeq(Window(s), 1, n) = Header
    <3>1. SubSeq(Window(s), 1, n) \in [1 .. n -> AnyCell]
      BY <2>8, <2>9, LenProperties
    <3>2. Header = [i \in 1 .. n |-> Header[i]]
      BY <1>1, <2>7 DEF Header
    <3>3. QED
      BY <2>10, <3>1, <3>2
  <2>12. QED
    BY <1>2, <1>11, <2>6, <2>7, <2>11 DEF Whole
<1>12. QED
  BY <1>10, <1>11

(* A header that has been found is the window's beginning. *)
LEMMA WholeFacts ==
  ASSUME NEW s, Window(s) \in Seq(AnyCell), Len(Window(s)) = s.left, s.left \in Nat, Whole(s),
         HeaderEnd(s) \in 1 .. s.left
  PROVE  HeaderEnd(s) = Len(Header) /\ Heads(s) /\ Len(Header) <= s.left /\ Len(Header) \in Nat /\ Len(Header) >= 1
         /\ Window(s)[1][1] \in {"tx", "nl"}
<1>1. PICK n \in Nat, l \in Nat : n = HeaderEnd(s) /\ l = s.left /\ n >= 1 /\ n <= l
  OBVIOUS
<1>2. n \in 0 .. Len(Window(s)) /\ 1 <= n + 1 /\ 1 \in Nat \ {0} /\ n - 1 + 1 = n
  BY <1>1
<1>3. /\ SubSeq(Window(s), 1, n) \in Seq(AnyCell) /\ Len(SubSeq(Window(s), 1, n)) = n - 1 + 1
      /\ \A i \in 1 .. n - 1 + 1 : SubSeq(Window(s), 1, n)[i] = Window(s)[1 + i - 1]
  BY <1>2, PartOf
<1>4. SubSeq(Window(s), 1, n) = Header
  BY <1>1 DEF Whole
<1>5. Len(Header) = n
  BY <1>2, <1>3, <1>4
<1>6. \A i \in 1 .. n : Window(s)[i] = Header[i]
  <2>1. \A i \in 1 .. n : 1 + i - 1 = i
    BY <1>1
  <2>2. QED
    BY <1>2, <1>3, <1>4, <2>1
<1>7. Heads(s)
  BY <1>1, <1>5, <1>6 DEF Heads
<1>8. Window(s)[1][1] \in {"tx", "nl"}
  <2>1. 1 \in 1 .. n /\ 1 \in 1 .. 2 * HeaderLines + 1
    BY <1>1, MessageAssumption
  <2>2. QED
    BY <1>6, <2>1, HeaderFacts
<1>9. QED
  BY <1>1, <1>5, <1>7, <1>8

(* The receiver that waits for the header has it in front of it. *)
LEMMA HeadsHere ==
  ASSUME NEW x, NEW s, NEW w, NEW gn, NEW g, NEW snt, NEW sx, NEW T, NEW rd,
         NEW b, NEW C, NEW V, NEW k, Live(1, x, s, w, gn, g, snt, sx, T, rd, b, C, V, k), s.status = "Connecting"
  PROVE  Heads(s) /\ k = 0 /\ rd = 0 /\ g = <<>> /\ (s.left >= 1 => 0 \in 0 .. Len(C) - 1 /\ C[1] = Header)
<1>1. /\ C \in Buffers /\ Layout(T, b, C) /\ k \in 0 .. Len(C) /\ Len(C) \in Nat /\ b[1] = 0
      /\ s.left \in Nat /\ s.frame.st = "ReadHeader" /\ rd = b[k + 1]
  BY LiveFacts
<1>2. Carries(s, w, T, rd) /\ Counts(s) /\ w \in Seq(Cell) /\ k = 0 /\ rd = 0 /\ g = <<>>
  BY DEF Live, Pos
<1>3. ASSUME s.left >= 1 PROVE 0 \in 0 .. Len(C) - 1 /\ C[1] = Header
  <2>1. k \in 0 .. Len(C) - 1
    BY <1>1, <1>2, <1>3, UnitHere
  <2>2. 1 \in 1 .. Len(C) /\ 0 \in 0 .. Len(C) - 1
    BY <1>1, <1>2, <2>1
  <2>3. QED
    BY <2>2 DEF Live, Story, Parse
<1>4. ASSUME NEW i \in 1 .. s.left, i <= Len(Header) PROVE Window(s)[i] = Header[i]
  <2>1. 0 \in 0 .. Len(C) - 1 /\ C[1] = Header
    BY <1>1, <1>3
  <2>2. Reached(s, w, T, rd, b, C, 0, 0)
    <3>1. rd = b[0 + 1] + 0
      BY <1>1, <1>2
    <3>2. QED
      BY <1>1, <1>2, <2>1, <3>1 DEF Reached
  <2>3. 0 + 1 = 1 /\ 0 + i = i
    BY <1>1
  <2>4. 0 + i <= Len(C[0 + 1])
    BY <1>4, <2>1, <2>3
  <2>5. Window(s)[i] = C[0 + 1][0 + i]
    BY <2>2, <2>4, CellHere
  <2>6. QED
    BY <2>1, <2>3, <2>5
<1>5. QED
  BY <1>2, <1>3, <1>4 DEF Heads

LEMMA OpensOn ==
  ASSUME NEW e, NEW t, NEW status \in {"TCP", "WebSocket"}, NEW x, NEW s, NEW w, NEW gn, NEW g, NEW snt, NEW sx, NEW T, NEW rd,
         NEW b, NEW C, NEW V, NEW k, Live(1, x, s, w, gn, g, snt, sx, T, rd, b, C, V, k), s.status = "Connecting",
         Opened(e, s, t, status)
  PROVE  ReadsOn(1, s, t, w, g, snt, sx, T, rd, b, C, V, <<>>)
<1>1. PICK u, v : /\ Looked(e, s, u) /\ Takes(e, u, v, HeaderEnd(s)) /\ t.status = status
                  /\ t.left = v.left /\ t.frame = v.frame /\ Window(t) = Window(v)
  BY DEF Opened
<1>2. Whole(s) /\ HeaderEnd(s) \in 1 .. s.left
  BY DEF Opened
<1>3. /\ Carries(s, w, T, rd) /\ Counts(s) /\ w \in Seq(Cell) /\ Len(Window(s)) = s.left /\ s.left \in Nat
      /\ g \in Seq(Entry) /\ Window(s) \in Seq(AnyCell) /\ s.frame = NewFrame
  BY DEF Live, Counts
<1>4. HeaderEnd(s) = Len(Header) /\ Len(Header) <= s.left /\ Len(Header) \in Nat /\ Len(Header) >= 1
  BY <1>2, <1>3, WholeFacts
<1>5. PICK n \in Nat : n = Len(Header) /\ n >= 1 /\ n <= s.left
  BY <1>4
<1>6. k = 0 /\ rd = 0 /\ g = <<>> /\ 0 \in 0 .. Len(C) - 1 /\ C[1] = Header
  <2>1. s.left >= 1
    BY <1>3, <1>5
  <2>2. QED
    BY <2>1, HeadsHere
<1>7. /\ t.left = s.left - n /\ t.frame = NewFrame
      /\ \A i \in 1 .. s.left - n : Window(t)[i] = Window(s)[n + i]
  BY <1>1, <1>3, <1>4, <1>5 DEF Looked, Takes, Kept
<1>8. Dropped(s, t, n)
  BY <1>3, <1>5, <1>7 DEF Dropped, NewFrame
<1>9. Carries(t, w, T, rd + n)
  BY <1>3, <1>8, CarriesTaken
<1>10. rd + n = n /\ (rd + n) + t.left = rd + s.left
  BY <1>3, <1>5, <1>6, <1>7
<1>11. /\ C \in Buffers /\ Layout(T, b, C) /\ Len(C) \in Nat /\ b[1] = 0
  BY LiveFacts
<1>12. b[0 + 2] = b[0 + 1] + Len(C[0 + 1]) /\ 0 + 1 \in 0 .. Len(C)
  BY <1>6, <1>11, Bounds
<1>13. rd + n = b[2] /\ 0 + 1 = 1 /\ 1 + 1 = 2 /\ 0 + 2 = 2
  BY <1>5, <1>6, <1>10, <1>11, <1>12
<1>14. g \o <<>> = g /\ Len(g) = 0
  BY <1>3, <1>6, EmptySeq, ConcatEmptySeq
<1>15. t.status = status /\ t.frame.st = "ReadHeader"
  BY <1>1, <1>7 DEF NewFrame
<1>16. Pos(1, ~Untied(sx), t, g \o <<>>, b, C, V, 1, rd + n)
  <2>1. 1 >= 1 /\ 1 - 1 = 0 /\ 1 \in 0 .. Len(C)
    BY <1>12, <1>13
  <2>2. QED
    BY <1>13, <1>14, <1>15, <2>1 DEF Pos
<1>17. Gives(g, snt, sx, <<>>)
  BY DEF Gives
<1>18. QED
  BY <1>9, <1>10, <1>16, <1>17 DEF ReadsOn

(* The same bytes: nothing has been read. *)
LEMMA StaysOn ==
  ASSUME NEW H, NEW x, NEW s, NEW w, NEW gn, NEW g, NEW snt, NEW sx, NEW T, NEW rd, NEW t,
         NEW b, NEW C, NEW V, NEW k, Live(H, x, s, w, gn, g, snt, sx, T, rd, b, C, V, k),
         SameBytes(s, t), t.status = s.status, t.frame = s.frame
  PROVE  ReadsOn(H, s, t, w, g, snt, sx, T, rd, b, C, V, <<>>)
<1>1. Carries(s, w, T, rd) /\ Pos(H, ~Untied(sx), s, g, b, C, V, k, rd) /\ g \in Seq(Entry)
  BY DEF Live
<1>2. Carries(t, w, T, rd)
  BY <1>1, CarriesMoved
<1>3. rd + t.left = rd + s.left
  BY DEF SameBytes
<1>4. g \o <<>> = g
  BY <1>1, EmptySeq, ConcatEmptySeq
<1>5. Pos(H, ~Untied(sx), t, g \o <<>>, b, C, V, k, rd)
  BY <1>1, <1>4 DEF Pos
<1>6. QED
  BY <1>2, <1>3, <1>5 DEF ReadsOn, Gives

(* A frame that stays Done was one of several, or refused. *)
LEMMA FrameStaysOn ==
  ASSUME NEW e, NEW t, NEW cb, NEW H, NEW x, NEW s, NEW w, NEW gn, NEW g, NEW snt, NEW sx, NEW T, NEW rd,
         NEW b, NEW C, NEW V, NEW k, Live(H, x, s, w, gn, g, snt, sx, T, rd, b, C, V, k),
         s.status = "WebSocket", FrameStays(e, s, t, cb), ~Refused(s.frame)
  PROVE  ReadsOn(H, s, t, w, g, snt, sx, T, rd, b, C, V, cb)
<1>1. PICK u, f, r : /\ Turned(s, u, f, Window(s), 0, Length(e)) /\ Compacted(e, u, t)
                     /\ TurnStays(s.frame, r, f, 0)
  BY DEF FrameStays
<1>2. cb = <<>> /\ s.frame.st = "Done"
  BY DEF FrameStays
<1>3. Carries(s, w, T, rd) /\ Pos(H, ~Untied(sx), s, g, b, C, V, k, rd) /\ g \in Seq(Entry) /\ s.left \in Nat
  BY DEF Live, Counts
<1>4. /\ t.frame = f /\ t.status = "WebSocket" /\ t.left = s.left
      /\ \A i \in 1 .. s.left : Window(t)[i] = Window(s)[i]
  <2>1. /\ u.frame = f /\ u.status = s.status /\ u.left = s.left - 0
        /\ \A i \in 1 .. s.left - 0 : Window(u)[i] = Window(s)[0 + i]
    BY <1>1 DEF Turned
  <2>2. /\ t.frame = u.frame /\ t.status = u.status /\ t.left = u.left
        /\ \A i \in 1 .. u.left : Window(t)[i] = Window(u)[i]
    BY <1>1 DEF Compacted, Moved, Kept
  <2>3. s.left - 0 = s.left /\ \A i \in 1 .. s.left : 0 + i = i
    BY <1>3
  <2>4. QED
    BY <2>1, <2>2, <2>3
<1>5. f.st = "Done" /\ f.length = s.frame.length /\ f.mask = s.frame.mask /\ (~s.frame.fin \/ s.frame.opCode = Continue)
  BY <1>1 DEF TurnStays
<1>6. Carries(t, w, T, rd)
  <2>1. SameBytes(s, t)
    BY <1>2, <1>4, <1>5 DEF SameBytes
  <2>2. QED
    BY <1>3, <2>1, CarriesMoved
<1>7. g \o <<>> = g
  BY <1>3, EmptySeq, ConcatEmptySeq
<1>8. k < Len(C) /\ InFrame(s.frame, V[k + 1], b[k + 1], b[k + 2], rd, ~Untied(sx))
  BY <1>2, <1>3 DEF Pos
<1>9. Untied(sx)
  <2>1. SUFFICES ASSUME ~Untied(sx) PROVE FALSE
    OBVIOUS
  <2>2. /\ Len(C) \in Nat /\ k \in Nat
        /\ (k \in 0 .. Len(C) - 1 => UnitRead(H, x, s, gn, snt, sx, T, b, C, V, k))
    BY LiveFacts
  <2>3. k \in 0 .. Len(C) - 1
    BY <1>8, <2>2
  <2>4. V[k + 1].fin /\ V[k + 1].op \in Opcode
    BY <2>1, <2>2, <2>3, UnitOf
  <2>5. s.frame.fin = V[k + 1].fin /\ s.frame.opCode = V[k + 1].op
    BY <1>8, <2>1 DEF InFrame
  <2>6. Continue \notin Opcode
    BY DEF Continue, Opcode, Text, Binary, CloseOp, PingOp, PongOp
  <2>7. QED
    BY <1>5, <2>4, <2>5, <2>6
<1>10. InFrame(t.frame, V[k + 1], b[k + 1], b[k + 2], rd, FALSE)
  BY <1>2, <1>4, <1>5, <1>8 DEF InFrame
<1>11. Pos(H, FALSE, t, g, b, C, V, k, rd)
  BY <1>2, <1>3, <1>4, <1>5, <1>8, <1>10 DEF Pos
<1>12. (~Untied(sx)) = FALSE
  BY <1>9
<1>13. QED
  BY <1>2, <1>4, <1>6, <1>7, <1>9, <1>11, <1>12 DEF ReadsOn, Gives

-----------------------------------------------------------------------------
(* The sender moves *)

LEMMA PosWeaker ==
  ASSUME NEW H, NEW tied \in BOOLEAN, NEW tied2 \in BOOLEAN, tied2 => tied, NEW s, NEW g, NEW b, NEW C, NEW V, NEW k,
         NEW rd, Pos(H, tied, s, g, b, C, V, k, rd)
  PROVE  Pos(H, tied2, s, g, b, C, V, k, rd)
  BY DEF Pos, InFrame

LEMMA OrderedGone ==
  ASSUME NEW H, NEW x, NEW s, NEW gn, NEW gn2, gn => gn2, NEW g, NEW snt, NEW sx, NEW T, NEW rd,
         Ordered(H, x, s, gn, g, snt, sx, T, rd)
  PROVE  Ordered(H, x, s, gn2, g, snt, sx, T, rd)
<1>1. CASE sx.early
  BY <1>1 DEF Ordered, TooEarly
<1>2. CASE ~sx.early
  <2>1. PICK b, C, V, k : Story(H, x, gn, snt, sx, T, b, C, V) /\ Pos(H, ~Untied(sx), s, g, b, C, V, k, rd)
    BY <1>2 DEF Ordered
  <2>2. Story(H, x, gn2, snt, sx, T, b, C, V)
    BY <2>1 DEF Story
  <2>3. QED
    BY <1>2, <2>1, <2>2 DEF Ordered
<1>3. QED
  BY <1>1, <1>2

(* The sender changes, or opens without sending anything. *)
SenderMoved(H, x, sx, sx2) ==
  /\ sx2.early = sx.early /\ sx2.frag = sx.frag /\ (Started(H, x, sx2) <=> Started(H, x, sx))
  /\ sx2.status = sx.status \/ sx.status = "Connecting"

LEMMA OrderedSender ==
  ASSUME NEW H \in Nat, NEW x, NEW s, NEW gn, NEW g, NEW snt \in Seq(Entry), NEW sx, NEW sx2, NEW T, NEW rd,
         Ordered(H, x, s, gn, g, snt, sx, T, rd), SenderMoved(H, x, sx, sx2)
  PROVE  Ordered(H, x, s, gn, g, snt, sx2, T, rd)
<1>1. CASE sx.early
  BY <1>1 DEF Ordered, SenderMoved
<1>2. CASE ~sx.early
  <2>1. PICK b, C, V, k : Story(H, x, gn, snt, sx, T, b, C, V) /\ Pos(H, ~Untied(sx), s, g, b, C, V, k, rd)
    BY <1>2 DEF Ordered
  <2>2. ~sx2.early
    BY <1>2 DEF SenderMoved
  <2>3. CASE sx2.status = sx.status
    <3>1. Untied(sx2) <=> Untied(sx)
      BY <2>3 DEF SenderMoved, Untied
    <3>2. Started(H, x, sx2) <=> Started(H, x, sx)
      BY DEF SenderMoved
    <3>3. Story(H, x, gn, snt, sx2, T, b, C, V)
      BY <2>1, <2>3, <3>1, <3>2 DEF Story
    <3>4. Pos(H, ~Untied(sx2), s, g, b, C, V, k, rd)
      <4>1. (~Untied(sx2)) \in BOOLEAN /\ (~Untied(sx)) \in BOOLEAN
        BY DEF Untied
      <4>2. QED
        BY <2>1, <3>1, <4>1, PosWeaker
    <3>5. QED
      BY <2>2, <3>3, <3>4 DEF Ordered
  <2>4. CASE sx.status = "Connecting" /\ sx2.status # "Connecting"
    <3>1. ~Untied(sx) /\ snt = <<>> /\ Tied(H, C, V, snt)
      BY <2>1, <2>4 DEF Story, Untied
    <3>2. Len(C) <= H + 0 /\ Len(snt) = 0
      BY <3>1 DEF Tied
    <3>3. Parse(H, sx.status, T, b, C, V) /\ Len(C) \in Nat
      BY <2>1, LenProperties DEF Story, Parse, Buffers
    <3>4. \A j \in 1 .. Len(C) : j <= H
      BY <3>2, <3>3
    <3>5. Parse(H, sx2.status, T, b, C, V)
      BY <3>3, <3>4 DEF Parse
    <3>6. Started(H, x, sx2) <=> Started(H, x, sx)
      BY DEF SenderMoved
    <3>7. Story(H, x, gn, snt, sx2, T, b, C, V)
      BY <2>1, <2>4, <3>1, <3>5, <3>6 DEF Story
    <3>8. Pos(H, ~Untied(sx2), s, g, b, C, V, k, rd)
      <4>1. (~Untied(sx2)) \in BOOLEAN /\ (~Untied(sx)) \in BOOLEAN
        BY DEF Untied
      <4>2. QED
        BY <2>1, <3>1, <4>1, PosWeaker
    <3>9. QED
      BY <2>2, <3>7, <3>8 DEF Ordered
  <2>5. QED
    BY <2>3, <2>4 DEF SenderMoved
<1>3. QED
  BY <1>1, <1>2

(* T2 is T and more. *)
Extends(T, T2) == T2 \in Seq(Cell) /\ Len(T) <= Len(T2) /\ \A i \in 1 .. Len(T) : T2[i] = T[i]

LEMMA ExtendsMore ==
  ASSUME NEW T \in Seq(Cell), NEW T2, Extends(T, T2), NEW p \in Seq(Cell)
  PROVE  Extends(T, T2 \o p)
<1>1. PICK t \in Nat, u \in Nat, n \in Nat : t = Len(T) /\ u = Len(T2) /\ n = Len(p) /\ t <= u
  BY LenProperties DEF Extends
<1>2. T2 \o p \in Seq(Cell) /\ Len(T2 \o p) = u + n /\ \A i \in 1 .. u + n : (T2 \o p)[i] = IF i <= u THEN T2[i] ELSE p[i - u]
  BY <1>1, ConcatProperties DEF Extends
<1>3. \A i \in 1 .. t : i \in 1 .. u + n /\ i <= u
  BY <1>1
<1>4. t <= u + n
  BY <1>1
<1>5. QED
  BY <1>1, <1>2, <1>3, <1>4 DEF Extends

LEMMA CarriesExtended ==
  ASSUME NEW s, NEW w \in Seq(Cell), NEW T \in Seq(Cell), NEW rd, Counts(s), Carries(s, w, T, rd), NEW T2, Extends(T, T2)
  PROVE  Carries(s, w, T2, rd)
<1>1. PICK l \in Nat, r \in Nat, t \in Nat, n \in Nat, u \in Nat :
        l = s.left /\ r = rd /\ t = Len(T) /\ n = Len(w) /\ u = Len(T2) /\ r + l + n <= t /\ t <= u
  BY LenProperties DEF Carries, Counts, Extends
<1>2. r + l + n <= u
  BY <1>1
<1>3. \A i \in 1 .. l : r + i \in 1 .. t
  BY <1>1
<1>4. \A i \in 1 .. n : r + l + i \in 1 .. t
  BY <1>1
<1>5. \A i \in 1 .. l : T2[rd + i] = T[rd + i]
  BY <1>1, <1>3 DEF Extends
<1>6. \A i \in 1 .. n : T2[rd + s.left + i] = T[rd + s.left + i]
  BY <1>1, <1>4 DEF Extends
<1>7. \A i \in 1 .. s.left : Holds(s, T2, rd, i)
  BY <1>1, <1>5 DEF Carries, Holds
<1>8. QED
  BY <1>1, <1>2, <1>6, <1>7 DEF Carries, Extends

(* A list of calls, laid behind T. *)
Laying(T, calls, T2, d) == Extends(T, T2) /\ Layout(T2, d, calls) /\ d[1] = Len(T)

LEMMA LayingAll ==
  ASSUME NEW T \in Seq(Cell), NEW calls \in Buffers
  PROVE  \E T2, d : Laying(T, calls, T2, d)
<1>1. PICK n \in Nat : n = Len(calls)
  BY LenProperties DEF Buffers
<1>2. DEFINE First(m) == SubSeq(calls, 1, m)
             Good(m) == \E T2, d : Laying(T, First(m), T2, d)
             Bad == {m \in 0 .. n : ~Good(m)}
<1>3. ASSUME NEW m \in 0 .. n
      PROVE  First(m) \in Buffers /\ Len(First(m)) = m /\ \A i \in 1 .. m : First(m)[i] = calls[i]
  <2>1. m \in 0 .. Len(calls) /\ 1 <= m + 1 /\ 1 \in Nat \ {0} /\ m - 1 + 1 = m /\ calls \in Seq(Seq(Cell))
    BY <1>1 DEF Buffers
  <2>2. /\ SubSeq(calls, 1, m) \in Seq(Seq(Cell)) /\ Len(SubSeq(calls, 1, m)) = m - 1 + 1
        /\ \A i \in 1 .. m - 1 + 1 : SubSeq(calls, 1, m)[i] = calls[1 + i - 1]
    BY <2>1, PartOf
  <2>3. \A i \in 1 .. m : 1 + i - 1 = i
    OBVIOUS
  <2>4. QED
    BY <2>1, <2>2, <2>3 DEF Buffers
<1>4. Good(0)
  <2>1. First(0) \in Buffers /\ Len(First(0)) = 0
    BY <1>3
  <2>2. First(0) = << >>
    BY <2>1, EmptySeq DEF Buffers
  <2>3. PICK c : Layout(T, c, << >>) /\ c[1] = Len(T)
    BY LayoutFirst
  <2>4. Extends(T, T)
    BY LenProperties DEF Extends
  <2>5. Laying(T, First(0), T, c)
    BY <2>2, <2>3, <2>4 DEF Laying
  <2>6. QED
    BY <2>5
<1>5. ASSUME NEW m \in 0 .. n, m + 1 \in 0 .. n, Good(m) PROVE Good(m + 1)
  <2>1. PICK T2, d : Laying(T, First(m), T2, d)
    BY <1>5
  <2>2. First(m) \in Buffers /\ Len(First(m)) = m /\ (\A i \in 1 .. m : First(m)[i] = calls[i])
        /\ First(m + 1) \in Buffers /\ Len(First(m + 1)) = m + 1 /\ (\A i \in 1 .. m + 1 : First(m + 1)[i] = calls[i])
    BY <1>3, <1>5
  <2>3. m + 1 \in 1 .. n /\ calls[m + 1] \in Seq(Cell)
    <3>1. m + 1 \in 1 .. n
      BY <1>5
    <3>2. QED
      BY <1>1, <3>1, ElementOfSeq DEF Buffers
  <2>4. PICK e : Layout(T2 \o calls[m + 1], e, Append(First(m), calls[m + 1])) /\ \A j \in 1 .. Len(First(m)) + 1 : e[j] = d[j]
    <3>1. T2 \in Seq(Cell) /\ Layout(T2, d, First(m))
      BY <2>1 DEF Laying, Extends
    <3>2. PICK q, p : q = First(m) /\ p = calls[m + 1]
      OBVIOUS
    <3>3. q \in Buffers /\ p \in Seq(Cell) /\ Layout(T2, d, q)
      BY <2>2, <2>3, <3>1, <3>2
    <3>4. \E f : Layout(T2 \o p, f, Append(q, p)) /\ \A j \in 1 .. Len(q) + 1 : f[j] = d[j]
      BY <3>1, <3>3, LayoutGrown
    <3>5. QED
      BY <3>2, <3>4
  <2>5. Append(First(m), calls[m + 1]) = First(m + 1)
    <3>1. PICK A : A = Append(First(m), calls[m + 1])
      OBVIOUS
    <3>2. A \in Seq(Seq(Cell)) /\ Len(A) = m + 1 /\ A[m + 1] = calls[m + 1] /\ \A i \in 1 .. m : A[i] = calls[i]
      BY <2>2, <2>3, <3>1, AppendProperties DEF Buffers
    <3>3. \A i \in 1 .. m + 1 : A[i] = calls[i]
      <4>1. \A i \in 1 .. m + 1 : i = m + 1 \/ i \in 1 .. m
        OBVIOUS
      <4>2. QED
        BY <3>2, <4>1
    <3>4. A \in [1 .. m + 1 -> Seq(Cell)] /\ First(m + 1) \in [1 .. m + 1 -> Seq(Cell)]
      BY <2>2, <3>2, LenProperties DEF Buffers
    <3>5. A = First(m + 1)
      BY <2>2, <3>3, <3>4
    <3>6. QED
      BY <3>1, <3>5
  <2>6. e[1] = Len(T)
    <3>1. 1 \in 1 .. Len(First(m)) + 1
      BY <2>2
    <3>2. QED
      BY <2>1, <2>4, <3>1 DEF Laying
  <2>7. Extends(T, T2 \o calls[m + 1])
    <3>1. Extends(T, T2)
      BY <2>1 DEF Laying
    <3>2. QED
      BY <2>3, <3>1, ExtendsMore
  <2>8. Laying(T, First(m + 1), T2 \o calls[m + 1], e)
    BY <2>4, <2>5, <2>6, <2>7 DEF Laying
  <2>9. QED
    BY <2>8
<1>6. Bad = {}
  <2>1. SUFFICES ASSUME Bad # {} PROVE FALSE
    OBVIOUS
  <2>2. Bad \in SUBSET Nat
    OBVIOUS
  <2>3. PICK m \in Bad : \A y \in Bad : m <= y
    BY <2>1, <2>2, LeastOf
  <2>4. m \in 0 .. n /\ ~Good(m)
    BY <2>3
  <2>5. m # 0
    BY <1>4, <2>4
  <2>6. m - 1 \in 0 .. n /\ (m - 1) + 1 \in 0 .. n /\ (m - 1) + 1 = m /\ ~(m <= m - 1)
    BY <2>4, <2>5
  <2>7. Good(m - 1)
    BY <2>3, <2>6
  <2>8. Good((m - 1) + 1)
    BY <1>5, <2>6, <2>7
  <2>9. QED
    BY <2>4, <2>6, <2>8
<1>7. Good(n)
  <2>1. n \in 0 .. n
    OBVIOUS
  <2>2. QED
    BY <1>6, <2>1
<1>8. First(n) = calls
  <2>1. First(n) \in Buffers /\ Len(First(n)) = n /\ \A i \in 1 .. n : First(n)[i] = calls[i]
    BY <1>3
  <2>2. First(n) \in [1 .. n -> Seq(Cell)] /\ calls \in [1 .. n -> Seq(Cell)]
    BY <1>1, <2>1, LenProperties DEF Buffers
  <2>3. QED
    BY <2>1, <2>2
<1>9. QED
  BY <1>7, <1>8

(* The units D lie behind the units C. *)
LEMMA LayoutJoin ==
  ASSUME NEW T \in Seq(Cell), NEW b, NEW C \in Buffers, Layout(T, b, C), NEW D \in Buffers, NEW T2, NEW d,
         Laying(T, D, T2, d)
  PROVE  \E b2 : Layout(T2, b2, C \o D) /\ \A j \in 1 .. Len(C) + 1 : b2[j] = b[j]
<1>1. PICK m \in Nat, n \in Nat, t \in Nat, u \in Nat : m = Len(C) /\ n = Len(D) /\ t = Len(T) /\ u = Len(T2) /\ t <= u
  BY LenProperties DEF Buffers, Laying, Extends
<1>2. /\ b \in [1 .. m + 1 -> Nat] /\ b[m + 1] = t /\ \A j \in 1 .. m + 1 : b[j] <= t
      /\ \A j \in 1 .. m : b[j + 1] = b[j] + Len(C[j])
      /\ \A j \in 1 .. m : \A i \in 1 .. Len(C[j]) : T[b[j] + i] = C[j][i]
  BY <1>1 DEF Layout
<1>3. /\ d \in [1 .. n + 1 -> Nat] /\ d[n + 1] = u /\ \A j \in 1 .. n + 1 : d[j] <= u
      /\ \A j \in 1 .. n : d[j + 1] = d[j] + Len(D[j])
      /\ \A j \in 1 .. n : \A i \in 1 .. Len(D[j]) : T2[d[j] + i] = D[j][i]
      /\ d[1] = t /\ \A i \in 1 .. t : T2[i] = T[i]
  BY <1>1 DEF Laying, Layout, Extends
<1>4. PICK A : A = C \o D
  OBVIOUS
<1>5. Len(A) = m + n /\ \A j \in 1 .. m + n : A[j] = IF j <= m THEN C[j] ELSE D[j - m]
  BY <1>1, <1>4, ConcatProperties DEF Buffers
<1>6. PICK e : e = [j \in 1 .. m + n + 1 |-> IF j <= m + 1 THEN b[j] ELSE d[j - m]]
  OBVIOUS
<1>7. \A j \in 1 .. m + 1 : j \in 1 .. m + n + 1 /\ e[j] = b[j] /\ e[j] \in Nat /\ e[j] <= t
  BY <1>2, <1>6
<1>8. ASSUME NEW j \in 1 .. n + 1 PROVE m + j \in 1 .. m + n + 1 /\ e[m + j] = d[j] /\ d[j] \in Nat /\ d[j] <= u
  <2>1. m + j \in 1 .. m + n + 1 /\ (m + j) - m = j
    OBVIOUS
  <2>2. d[j] \in Nat /\ d[j] <= u
    BY <1>3
  <2>3. CASE j = 1
    <3>1. m + j = m + 1 /\ m + 1 \in 1 .. m + 1
      BY <2>3
    <3>2. QED
      BY <1>2, <1>3, <1>7, <2>1, <2>2, <2>3, <3>1
  <2>4. CASE j # 1
    <3>1. ~(m + j <= m + 1)
      BY <2>4
    <3>2. QED
      BY <1>6, <2>1, <2>2, <3>1
  <2>5. QED
    BY <2>3, <2>4
<1>9. ASSUME NEW j \in 1 .. m + n + 1 PROVE e[j] \in Nat /\ e[j] <= u
  <2>1. CASE j <= m + 1
    <3>1. j \in 1 .. m + 1
      BY <2>1
    <3>2. e[j] \in Nat /\ e[j] <= t
      BY <1>7, <3>1
    <3>3. QED
      BY <1>1, <3>2
  <2>2. CASE ~(j <= m + 1)
    <3>1. j - m \in 1 .. n + 1 /\ m + (j - m) = j
      BY <2>2
    <3>2. e[m + (j - m)] = d[j - m] /\ d[j - m] \in Nat /\ d[j - m] <= u
      BY <1>8, <3>1
    <3>3. QED
      BY <3>1, <3>2
  <2>3. QED
    BY <2>1, <2>2
<1>10. ASSUME NEW j \in 1 .. m + n
       PROVE  e[j + 1] = e[j] + Len(A[j]) /\ \A i \in 1 .. Len(A[j]) : T2[e[j] + i] = A[j][i]
  <2>1. CASE j <= m
    <3>1. j \in 1 .. m /\ j \in 1 .. m + 1 /\ j + 1 \in 1 .. m + 1
      BY <2>1
    <3>2. e[j] = b[j] /\ e[j + 1] = b[j + 1] /\ A[j] = C[j] /\ b[j] \in Nat /\ b[j + 1] <= t
      BY <1>5, <1>7, <2>1, <3>1
    <3>3. b[j + 1] = b[j] + Len(C[j]) /\ \A i \in 1 .. Len(C[j]) : T[b[j] + i] = C[j][i]
      BY <1>2, <3>1
    <3>4. Len(C[j]) \in Nat
      BY <1>1, <3>1, ElementOfSeq, LenProperties DEF Buffers
    <3>5. PICK p \in Nat, l \in Nat : p = b[j] /\ l = Len(C[j]) /\ p + l <= t
      BY <3>2, <3>3, <3>4
    <3>6. \A i \in 1 .. l : p + i \in 1 .. t
      BY <3>5
    <3>7. \A i \in 1 .. l : T2[p + i] = C[j][i]
      BY <1>3, <3>3, <3>5, <3>6
    <3>8. QED
      BY <3>2, <3>3, <3>5, <3>7
  <2>2. CASE ~(j <= m)
    <3>1. j - m \in 1 .. n /\ j - m \in 1 .. n + 1 /\ (j - m) + 1 \in 1 .. n + 1 /\ m + (j - m) = j
          /\ m + ((j - m) + 1) = j + 1
      BY <2>2
    <3>2. PICK i0 \in 1 .. n : i0 = j - m /\ i0 \in 1 .. n + 1 /\ i0 + 1 \in 1 .. n + 1 /\ m + i0 = j /\ m + (i0 + 1) = j + 1
      BY <3>1
    <3>3. e[m + i0] = d[i0] /\ e[m + (i0 + 1)] = d[i0 + 1] /\ A[j] = D[i0]
      BY <1>5, <1>8, <2>2, <3>2
    <3>4. d[i0 + 1] = d[i0] + Len(D[i0]) /\ \A i \in 1 .. Len(D[i0]) : T2[d[i0] + i] = D[i0][i]
      BY <1>3, <3>2
    <3>5. QED
      BY <3>2, <3>3, <3>4
  <2>3. QED
    BY <2>1, <2>2
<1>11. Layout(T2, e, A)
  <2>1. e \in [1 .. (m + n) + 1 -> Nat] /\ e[(m + n) + 1] = u
    <3>1. n + 1 \in 1 .. n + 1 /\ m + (n + 1) = (m + n) + 1 /\ m + n + 1 = (m + n) + 1
      OBVIOUS
    <3>2. e[m + (n + 1)] = d[n + 1]
      BY <1>8, <3>1
    <3>3. e \in [1 .. (m + n) + 1 -> Nat]
      BY <1>6, <1>9
    <3>4. QED
      BY <1>3, <3>1, <3>2, <3>3
  <2>2. QED
    BY <1>1, <1>5, <1>9, <1>10, <2>1 DEF Layout
<1>12. QED
  BY <1>1, <1>4, <1>7, <1>11

(* The call that starts a frame and the one that ends it are one unit. *)
LEMMA FramesPaired ==
  ASSUME NEW T \in Seq(Cell), NEW calls \in Buffers, NEW F \in Nat, Len(calls) = 2 * F, NEW T2, NEW d,
         Laying(T, calls, T2, d), NEW D \in Buffers, Len(D) = F, \A i \in 1 .. F : D[i] = calls[2 * i - 1] \o calls[2 * i]
  PROVE  \E d2 : Laying(T, D, T2, d2)
<1>1. PICK u \in Nat : u = Len(T2)
  BY LenProperties DEF Laying, Extends
<1>2. /\ d \in [1 .. 2 * F + 1 -> Nat] /\ d[2 * F + 1] = u /\ \A j \in 1 .. 2 * F + 1 : d[j] <= u
      /\ \A j \in 1 .. 2 * F : d[j + 1] = d[j] + Len(calls[j])
      /\ \A j \in 1 .. 2 * F : \A i \in 1 .. Len(calls[j]) : T2[d[j] + i] = calls[j][i]
      /\ d[1] = Len(T) /\ Extends(T, T2)
  BY <1>1 DEF Laying, Layout
<1>3. PICK e : e = [j \in 1 .. F + 1 |-> d[2 * j - 1]]
  OBVIOUS
<1>4. \A j \in 1 .. F + 1 : 2 * j - 1 \in 1 .. 2 * F + 1 /\ e[j] = d[2 * j - 1] /\ e[j] \in Nat /\ e[j] <= u
  <2>1. \A j \in 1 .. F + 1 : 2 * j - 1 \in 1 .. 2 * F + 1
    OBVIOUS
  <2>2. QED
    BY <1>2, <1>3, <2>1
<1>5. e \in [1 .. F + 1 -> Nat]
  BY <1>3, <1>4
<1>6. e[F + 1] = u /\ e[1] = Len(T)
  <2>1. F + 1 \in 1 .. F + 1 /\ 1 \in 1 .. F + 1 /\ 2 * (F + 1) - 1 = 2 * F + 1 /\ 2 * 1 - 1 = 1
    OBVIOUS
  <2>2. QED
    BY <1>2, <1>3, <2>1
<1>7. ASSUME NEW j \in 1 .. F
      PROVE  e[j + 1] = e[j] + Len(D[j]) /\ \A i \in 1 .. Len(D[j]) : T2[e[j] + i] = D[j][i]
  <2>1. PICK q \in 1 .. 2 * F : q = 2 * j - 1 /\ q + 1 \in 1 .. 2 * F /\ q + 1 = 2 * j /\ (q + 1) + 1 = 2 * (j + 1) - 1
                                /\ q \in 1 .. 2 * F + 1
    <3>1. 2 * j - 1 \in 1 .. 2 * F /\ (2 * j - 1) + 1 \in 1 .. 2 * F /\ (2 * j - 1) + 1 = 2 * j
          /\ ((2 * j - 1) + 1) + 1 = 2 * (j + 1) - 1 /\ 2 * j - 1 \in 1 .. 2 * F + 1
      OBVIOUS
    <3>2. QED
      BY <3>1
  <2>2. j \in 1 .. F + 1 /\ j + 1 \in 1 .. F + 1
    OBVIOUS
  <2>3. e[j] = d[q] /\ e[j + 1] = d[(q + 1) + 1]
    BY <1>3, <2>1, <2>2
  <2>4. PICK p, r : p = calls[q] /\ r = calls[q + 1]
    OBVIOUS
  <2>5. p \in Seq(Cell) /\ r \in Seq(Cell)
    BY <2>1, <2>4, ElementOfSeq DEF Buffers
  <2>6. PICK a \in Nat, l \in Nat, k \in Nat : a = d[q] /\ l = Len(p) /\ k = Len(r)
    BY <1>2, <2>1, <2>5, LenProperties
  <2>7. d[q + 1] = a + l /\ d[(q + 1) + 1] = (a + l) + k
    BY <1>2, <2>1, <2>4, <2>6
  <2>8. (\A i \in 1 .. l : T2[a + i] = p[i]) /\ \A i \in 1 .. k : T2[(a + l) + i] = r[i]
    <3>1. \A i \in 1 .. Len(calls[q]) : T2[d[q] + i] = calls[q][i]
      BY <1>2, <2>1
    <3>2. \A i \in 1 .. Len(calls[q + 1]) : T2[d[q + 1] + i] = calls[q + 1][i]
      BY <1>2, <2>1
    <3>3. \A i \in 1 .. l : T2[a + i] = p[i]
      BY <2>4, <2>6, <3>1
    <3>4. \A i \in 1 .. k : T2[(a + l) + i] = r[i]
      BY <2>4, <2>6, <2>7, <3>2
    <3>5. QED
      BY <3>3, <3>4
  <2>9. D[j] = p \o r
    BY <2>1, <2>4
  <2>10. Len(p \o r) = l + k /\ \A i \in 1 .. l + k : (p \o r)[i] = IF i <= l THEN p[i] ELSE r[i - l]
    BY <2>5, <2>6, ConcatProperties
  <2>11. ASSUME NEW i \in 1 .. l + k PROVE T2[a + i] = (p \o r)[i]
    <3>1. CASE i <= l
      <4>1. i \in 1 .. l
        BY <3>1
      <4>2. QED
        BY <2>8, <2>10, <3>1, <4>1
    <3>2. CASE ~(i <= l)
      <4>1. i - l \in 1 .. k /\ (a + l) + (i - l) = a + i
        BY <3>2
      <4>2. T2[(a + l) + (i - l)] = r[i - l]
        BY <2>8, <4>1
      <4>3. QED
        BY <2>10, <3>2, <4>1, <4>2
    <3>3. QED
      BY <3>1, <3>2
  <2>12. (a + l) + k = a + (l + k)
    OBVIOUS
  <2>13. QED
    BY <2>3, <2>6, <2>7, <2>9, <2>10, <2>11, <2>12
<1>8. Layout(T2, e, D)
  BY <1>1, <1>4, <1>5, <1>6, <1>7 DEF Layout
<1>9. QED
  BY <1>2, <1>6, <1>8 DEF Laying

(* A unit that may be the j-th. *)
UnitOK(H, status, j, v, c) ==
  IF j <= H THEN c = Header ELSE IF status = "TCP" THEN RawUnit(v, c) ELSE FrameUnit(v, c)

(* Units are laid behind the ones there are. *)
Adds(H, status, T, b, C, V, D, U, T2, d, C2, V2) ==
  /\ Parse(H, status, T, b, C, V) /\ T \in Seq(Cell) /\ D \in Buffers /\ U \in Seq(Descr) /\ Len(U) = Len(D)
  /\ Laying(T, D, T2, d) /\ \A j \in 1 .. Len(D) : UnitOK(H, status, Len(C) + j, U[j], D[j])
  /\ C2 = C \o D /\ V2 = V \o U

LEMMA ParseGrown ==
  ASSUME NEW H, NEW status, NEW T, NEW b, NEW C, NEW V, NEW D, NEW U, NEW T2, NEW d, NEW C2, NEW V2,
         Adds(H, status, T, b, C, V, D, U, T2, d, C2, V2)
  PROVE  \E b2 : Parse(H, status, T2, b2, C2, V2) /\ \A j \in 1 .. Len(C) + 1 : b2[j] = b[j]
<1>0. /\ Parse(H, status, T, b, C, V) /\ T \in Seq(Cell) /\ D \in Buffers /\ U \in Seq(Descr) /\ Len(U) = Len(D)
      /\ Laying(T, D, T2, d) /\ (\A j \in 1 .. Len(D) : UnitOK(H, status, Len(C) + j, U[j], D[j]))
      /\ C2 = C \o D /\ V2 = V \o U
  BY DEF Adds
<1>1. C \in Buffers /\ V \in Seq(Descr) /\ Len(V) = Len(C) /\ Layout(T, b, C) /\ b[1] = 0
      /\ \A j \in 1 .. Len(C) : UnitOK(H, status, j, V[j], C[j])
  BY <1>0 DEF Parse, UnitOK
<1>2. PICK m \in Nat, n \in Nat : m = Len(C) /\ n = Len(D)
  BY <1>0, <1>1, LenProperties DEF Buffers
<1>3. PICK b2 : Layout(T2, b2, C \o D) /\ \A j \in 1 .. Len(C) + 1 : b2[j] = b[j]
  BY <1>0, <1>1, LayoutJoin
<1>4. PICK A, W : A = C \o D /\ W = V \o U
  OBVIOUS
<1>5. A \in Buffers /\ Len(A) = m + n /\ \A j \in 1 .. m + n : A[j] = IF j <= m THEN C[j] ELSE D[j - m]
  BY <1>0, <1>1, <1>2, <1>4, ConcatProperties DEF Buffers
<1>6. W \in Seq(Descr) /\ Len(W) = m + n /\ \A j \in 1 .. m + n : W[j] = IF j <= m THEN V[j] ELSE U[j - m]
  <2>1. Len(V) = m /\ Len(U) = n /\ V \in Seq(Descr) /\ U \in Seq(Descr)
    BY <1>0, <1>1, <1>2
  <2>2. /\ V \o U \in Seq(Descr) /\ Len(V \o U) = Len(V) + Len(U)
        /\ \A j \in 1 .. Len(V) + Len(U) : (V \o U)[j] = IF j <= Len(V) THEN V[j] ELSE U[j - Len(V)]
    BY <2>1, ConcatProperties
  <2>3. QED
    BY <1>4, <2>1, <2>2
<1>7. ASSUME NEW j \in 1 .. m + n PROVE UnitOK(H, status, j, W[j], A[j])
  <2>1. CASE j <= m
    <3>1. j \in 1 .. m
      BY <2>1
    <3>2. QED
      BY <1>1, <1>2, <1>5, <1>6, <2>1, <3>1
  <2>2. CASE ~(j <= m)
    <3>1. j - m \in 1 .. n /\ m + (j - m) = j
      BY <2>2
    <3>2. UnitOK(H, status, m + (j - m), U[j - m], D[j - m])
      BY <1>0, <1>2, <3>1
    <3>3. QED
      BY <1>5, <1>6, <2>2, <3>1, <3>2
  <2>3. QED
    BY <2>1, <2>2
<1>8. b2[1] = 0
  <2>1. 1 \in 1 .. Len(C) + 1
    BY <1>2
  <2>2. QED
    BY <1>1, <1>3, <2>1
<1>9. Parse(H, status, T2, b2, A, W)
  BY <1>3, <1>4, <1>5, <1>6, <1>7, <1>8 DEF Parse, UnitOK
<1>10. QED
  BY <1>0, <1>3, <1>4, <1>9

LEMMA PosGrown ==
  ASSUME NEW H, NEW tied, NEW s, NEW g, NEW b, NEW C \in Buffers, NEW V \in Seq(Descr), NEW k, NEW rd,
         Pos(H, tied, s, g, b, C, V, k, rd), Len(V) = Len(C), NEW D \in Buffers, NEW U \in Seq(Descr), Len(U) = Len(D),
         NEW b2, \A j \in 1 .. Len(C) + 1 : b2[j] = b[j]
  PROVE  Pos(H, tied, s, g, b2, C \o D, V \o U, k, rd)
<1>1. PICK m \in Nat, n \in Nat : m = Len(C) /\ n = Len(D)
  BY LenProperties DEF Buffers
<1>2. Len(C \o D) = m + n
  BY <1>1, ConcatProperties DEF Buffers
<1>3. \A j \in 1 .. m : (V \o U)[j] = V[j]
  <2>1. \A j \in 1 .. m + n : (V \o U)[j] = IF j <= m THEN V[j] ELSE U[j - m]
    BY <1>1, ConcatProperties
  <2>2. \A j \in 1 .. m : j \in 1 .. m + n /\ j <= m
    OBVIOUS
  <2>3. QED
    BY <2>1, <2>2
<1>4. k \in 0 .. m /\ k \in 0 .. m + n /\ k \in Nat
  BY <1>1 DEF Pos
<1>5. b2[k + 1] = b[k + 1]
  <2>1. k + 1 \in 1 .. Len(C) + 1
    BY <1>1, <1>4
  <2>2. QED
    BY <2>1
<1>6. k < m => b2[k + 2] = b[k + 2] /\ (V \o U)[k + 1] = V[k + 1] /\ k < m + n
  <2>1. SUFFICES ASSUME k < m PROVE b2[k + 2] = b[k + 2] /\ (V \o U)[k + 1] = V[k + 1] /\ k < m + n
    OBVIOUS
  <2>2. k + 2 \in 1 .. Len(C) + 1 /\ k + 1 \in 1 .. m
    BY <1>1, <1>4, <2>1
  <2>3. k < m + n
    BY <1>4, <2>1
  <2>4. QED
    BY <1>3, <2>2, <2>3
<1>7. QED
  BY <1>1, <1>2, <1>4, <1>5, <1>6 DEF Pos
=============================================================================
