------------------------------- MODULE Frame -------------------------------
(***************************************************************************)
(* WebSocket frames (websocket/Frame.h, Frame.cpp), as operators.  A frame *)
(* travels as cells: <<"h1", fin, rsv, opcode>>, <<"h2", masked, length>>, *)
(* an extended length <<"ex", n>> where the seven-bit length is 126 or     *)
(* 127, a key <<"mk", key>> where it is masked, and the payload cells      *)
(* <<"pl", message, index, x>>, x being the keys the cell is XORed with.   *)
(* The field widths are constants, so that the boundaries 125, 2^16, bit   *)
(* 15 and 2^32 of the code keep their order at a small size.               *)
(***************************************************************************)
EXTENDS Integers, Sequences

CONSTANTS Len7Max,   \* 125: the longest payload written in the second byte
          Len16Max,  \* 0xFFFF: the longest payload with a 16-bit length
          Bit15,     \* the bit readFramePayloadLength tests in the 127 case
          Max32,     \* 2^32 - 1: m_length is a uint32_t
          Keys       \* what generateRandomUint32 may return, 0 among them

ASSUME WidthAssumption == /\ Len7Max \in Nat /\ Len16Max \in Nat
                          /\ Bit15 \in Nat \ {0} /\ Max32 \in Nat
                          /\ Len7Max < Len16Max /\ Len16Max < Max32
                          /\ 0 \in Keys /\ Keys \subseteq Nat

Continue == 0
Text     == 1
Binary   == 2
CloseOp  == 8
PingOp   == 9
PongOp   == 10
ReservedC == 12

\* m_mask between readFrameHeader and readFrameMask: set, not yet read.
Unread == -1

Code16 == Len7Max + 1
Code64 == Len7Max + 2

isOpCodeReserved(op) == (op > Binary /\ op < CloseOp) \/ op > PongOp

isControlFrame(f) == (f.opCode \div 8) % 2 = 1

isContinuationFrame(f) == ~isControlFrame(f) /\ f.opCode = Continue

hasMask(f) == f.mask # 0

\* The object as constructed: nothing read, no message being put together.
NewFrame ==
    [st |-> "ReadHeader", fin |-> TRUE, rsv |-> FALSE, opCode |-> ReservedC,
     mask |-> 0, length |-> 0, valid |-> FALSE, fragmented |-> FALSE, message |-> <<>>]

\* reset leaves m_message alone and forgets that a message is fragmented.
reset(f) == [NewFrame EXCEPT !.message = f.message]

\* A reader is a frame f, the bytes d of the socket buffer and readOffset o.
Reader(f, d, o) == [f |-> f, d |-> d, o |-> o]

getDataLeftToRead(r) == Len(r.d) - r.o

\* The next n bytes are not what the reader takes them for: what it makes of
\* them is not followed.
Misread(r, n, kinds) == \E i \in 1..n : r.d[r.o + i][1] # kinds[i]
Garbled(r) == [r EXCEPT !.f.st = "Garbled"]

\* setError and the return of Done that follows every call of it.
setError(r) == [r EXCEPT !.f = [reset(r.f) EXCEPT !.st = "Done"]]

checkValidity(f) ==
    /\ ~f.rsv
    /\ ~isOpCodeReserved(f.opCode)
    /\ isControlFrame(f) => f.length <= Len7Max /\ f.fin

AfterLength(f) == IF hasMask(f) THEN "ReadMask" ELSE "ReadPayload"

readFrameHeader(r) ==
    IF getDataLeftToRead(r) < 2 THEN r
    ELSE IF Misread(r, 2, <<"h1", "h2">>) THEN Garbled(r)
    ELSE LET h1 == r.d[r.o + 1]
             h2 == r.d[r.o + 2]
             f  == [r.f EXCEPT !.fin = h1[2], !.rsv = h1[3], !.opCode = h1[4],
                               !.mask = IF h2[2] THEN Unread ELSE 0, !.length = h2[3]]
             s  == Reader(f, r.d, r.o + 2)
         IN  IF ~checkValidity(f) THEN setError(s)
             ELSE [s EXCEPT !.f.valid = TRUE,
                            !.f.st = IF f.length > Len7Max THEN "ReadPayloadLength"
                                                           ELSE AfterLength(f)]

\* The 127 case refuses a length with bit 15 set, not one with the top bit.
LengthOk(code, n) ==
    IF code = Code16 THEN n > Len7Max
    ELSE n <= Max32 /\ (n \div Bit15) % 2 = 0 /\ n > Len16Max

readFramePayloadLength(r) ==
    IF getDataLeftToRead(r) < 1 THEN r
    ELSE IF Misread(r, 1, <<"ex">>) THEN Garbled(r)
    ELSE LET n == r.d[r.o + 1][2]
             s == [r EXCEPT !.f.length = n % (Max32 + 1), !.o = @ + 1]
         IN  IF LengthOk(r.f.length, n) THEN [s EXCEPT !.f.st = AfterLength(r.f)]
             ELSE setError(s)

readFrameMask(r) ==
    IF getDataLeftToRead(r) < 1 THEN r
    ELSE IF Misread(r, 1, <<"mk">>) THEN Garbled(r)
    ELSE [r EXCEPT !.f.mask = r.d[r.o + 1][2], !.f.st = "ReadPayload", !.o = @ + 1]

\* One byte XORed with its key byte: x is the set of keys the cell is under,
\* and a key takes itself away again.
Xor(x, key) == IF key = 0 THEN x ELSE (x \ {key}) \cup ({key} \ x)

\* The mask of the bytes from..to, in place.
mask(d, from, to, key) ==
    [i \in DOMAIN d |->
        IF i \in from..to THEN [d[i] EXCEPT ![4] = Xor(@, key)] ELSE d[i]]

\* Mutant: the payload is left masked.
readFramePayloadMasked(r, tooBig) ==
    LET n == r.f.length IN
    IF n = 0 THEN [r EXCEPT !.f.st = "Done"]
    ELSE IF tooBig THEN setError(r)
    ELSE IF getDataLeftToRead(r) < n THEN r
    ELSE IF Misread(r, n, [i \in 1..n |-> "pl"]) THEN Garbled(r)
    ELSE [r EXCEPT !.f.st = "Done"]

\* m_maxAllowedMessageSize is a reference to a temporary that is gone: what
\* the comparison with it answers is the argument tooBig.
readFramePayload(r, tooBig) ==
    LET n == r.f.length IN
    IF n = 0 THEN [r EXCEPT !.f.st = "Done"]
    ELSE IF tooBig THEN setError(r)
    ELSE IF getDataLeftToRead(r) < n THEN r
    ELSE IF Misread(r, n, [i \in 1..n |-> "pl"]) THEN Garbled(r)
    ELSE [r EXCEPT !.f.st = "Done",
                   !.d = IF hasMask(r.f) THEN mask(@, r.o + 1, r.o + n, r.f.mask) ELSE @]

\* One turn of the loop of readFrame; the same reader back is WaitForData.
readFrame(r, tooBig) ==
    CASE r.f.st = "ReadHeader"        -> readFrameHeader(r)
      [] r.f.st = "ReadPayloadLength" -> readFramePayloadLength(r)
      [] r.f.st = "ReadMask"          -> readFrameMask(r)
      [] r.f.st = "ReadPayload"       -> readFramePayload(r, tooBig)

\* append answers TRUE when the fragment fits, which its caller takes for
\* "too big"; Capacity is m_maxAllowedMessageSize at construction.
append(f, Capacity) == f.length + Len(f.message) <= Capacity

\* What a turn of processMessage leaves: the reader, the callback (or <<>>)
\* and whether processMessage returns.
Turn(r, cb, returns) == [r |-> r, cb |-> cb, returns |-> returns]

\* processControlFrame: one callback by opcode, then on to the next frame.
processControlFrame(r, body) ==
    CASE r.f.opCode = PingOp  -> <<[op |-> PingOp, body |-> body]>>
      [] r.f.opCode = PongOp  -> <<[op |-> PongOp, body |-> <<>>]>>
      [] r.f.opCode = CloseOp -> <<[op |-> CloseOp, body |-> <<>>]>>
      [] OTHER                -> <<>>

\* What processMessage does with a frame that has been read.  The protocol
\* errors leave the state Done and the opcode Close.
processMessage(r, Capacity) ==
    LET f       == r.f
        n       == f.length
        body    == SubSeq(r.d, r.o + 1, r.o + n)
        frag    == IF isContinuationFrame(f) THEN f.fragmented ELSE ~f.fin
        next    == Reader(reset(f), r.d, r.o + n)
        closing == [r EXCEPT !.f.opCode = CloseOp]
    IN  IF ~f.valid THEN Turn(closing, <<>>, TRUE)
        ELSE IF isControlFrame(f) THEN Turn(next, processControlFrame(r, body), FALSE)
        ELSE IF f.fragmented # isContinuationFrame(f) THEN Turn(closing, <<>>, TRUE)
        ELSE IF frag /\ append(f, Capacity)
        THEN Turn([closing EXCEPT !.f.fragmented = TRUE, !.f.message = @ \o body], <<>>, TRUE)
        ELSE Turn([next EXCEPT !.f.message = IF f.fin /\ frag THEN <<>> ELSE @],
                  IF ~f.fin THEN <<>>
                  ELSE <<[op |-> Binary,
                          body |-> IF frag THEN SubSeq(f.message, 1, n) ELSE body]>>,
                  FALSE)

\* getFrameHeader: the key 0 stands for a frame that is not masked.
getFrameHeader(op, n, key, last) ==
    << <<"h1", last, FALSE, op>>,
       <<"h2", key # 0, IF n <= Len7Max THEN n ELSE IF n <= Len16Max THEN Code16 ELSE Code64>> >>
    \o (IF n > Len7Max THEN << <<"ex", n>> >> ELSE <<>>)
    \o (IF key # 0 THEN << <<"mk", key>> >> ELSE <<>>)

\* sendMsg: the calls of send it makes, a header and a payload per frame of
\* at most MaxMessageSize bytes, each frame under its own key.
numFrames(n, MaxMessageSize) ==
    IF n = 0 THEN 1 ELSE (n + MaxMessageSize - 1) \div MaxMessageSize

sendMsg(body, op, key, MaxMessageSize) ==
    LET n == Len(body)
        F == numFrames(n, MaxMessageSize)
        Part(i) == SubSeq(body, ((i - 1) * MaxMessageSize) + 1,
                          IF i = F THEN n ELSE i * MaxMessageSize)
        FrameHead(i) == getFrameHeader(IF i = 1 THEN op ELSE Continue, Len(Part(i)), key[i], i = F)
    IN  IF n = 0 THEN << FrameHead(1) >>
        ELSE [j \in 1..(2 * F) |-> LET i == (j + 1) \div 2 IN
                 IF j % 2 = 1 THEN FrameHead(i) ELSE mask(Part(i), 1, Len(Part(i)), key[i])]
=============================================================================
