------------------------ MODULE ConnectionStream_proofs -----------------------
(***************************************************************************)
(* A connection implements MessageStream in each direction, for every pair *)
(* of classes, buffer size, kernel buffer, script of messages and field    *)
(* width of a frame.                                                       *)
(*                                                                         *)
(* The inductive invariant InOrder says, of each direction, that it is     *)
(* lost (a send was cut, the receiver has stopped or refused a frame, the  *)
(* ends disagree on the transport), or that one sequence T of bytes lays   *)
(* out every unit the sender has put on the connection, an upgrade header, *)
(* a raw message or a frame, one after the other.  The receiver has read T *)
(* up to rd; its buffer, the wire and what the sender has still to write   *)
(* are, in that order, the rest of T.  The place rd lies in the unit the   *)
(* state of the frame reader says, and the messages given to the callbacks *)
(* are those of the units before it.                                       *)
(*                                                                         *)
(* From it follow what a message carries (UnmaskedOnce) and, with the size *)
(* of what a receiver may still be given (Sane), the causes of a receiver  *)
(* that goes wrong (BrokenOnlyForCauses).                                  *)
(***************************************************************************)
EXTENDS Connection_proofs

-----------------------------------------------------------------------------
(* What the sender sends *)

(* A direction that is not lost. *)
Way(H, x, s, w, o, gn, g, snt, sx) ==
  \E T, rd : Flow(s, w, o, gn, T, rd) /\ Ordered(H, x, s, gn, g, snt, sx, T, rd)

(* The types of a direction. *)
Sides(H, s, w, o, gn, g, snt) ==
  /\ H \in {0, 1} /\ Counts(s) /\ w \in Seq(Cell) /\ o \in OutType /\ CallOK(o) /\ g \in Seq(Entry) /\ snt \in Seq(Entry)
  /\ gn \in BOOLEAN

(* The sender, which was in no call, calls send on these buffers. *)
Calls(o, o2, calls) == o.calls = <<>> /\ calls \in Buffers /\ o2.calls = calls /\ Written(o2) = 0

LEMMA FlowSends ==
  ASSUME NEW H, NEW s, NEW w, NEW o, NEW o2, NEW gn, NEW g, NEW snt, NEW T, NEW rd, NEW calls, NEW T2, NEW d,
         Sides(H, s, w, o, gn, g, snt), Flow(s, w, o, gn, T, rd), ~gn, Calls(o, o2, calls), Laying(T, calls, T2, d)
  PROVE  Flow(s, w, o2, gn, T2, rd)
<1>1. Carries(s, w, T, rd) /\ Laid(T, o, rd + s.left + Len(w)) /\ T \in Seq(Cell) /\ Written(o) = 0
  BY DEF Flow, Carries, Sides, CallOK, Calls
<1>2. Carries(s, w, T2, rd)
  BY <1>1, CarriesExtended DEF Sides, Laying
<1>3. PICK c : Layout(T, c, << >>) /\ c[1] + 0 = rd + s.left + Len(w)
  BY <1>1 DEF Laid, Calls
<1>4. c[1] = Len(T)
  <2>1. Len(<< >>) + 1 = 1
    OBVIOUS
  <2>2. QED
    BY <1>3, <2>1 DEF Layout
<1>5. PICK t \in Nat : t = Len(T)
  BY <1>1, LenProperties
<1>6. t + 0 = t
  OBVIOUS
<1>7. d[1] + Written(o2) = rd + s.left + Len(w)
  BY <1>3, <1>4, <1>5, <1>6 DEF Laying, Calls
<1>8. Laid(T2, o2, rd + s.left + Len(w))
  BY <1>7 DEF Laid, Laying, Calls
<1>9. QED
  BY <1>2, <1>8 DEF Flow

(* Nothing has been sent by a sender that has not begun. *)
NotBegun(x, s, gn, g, snt, sx, T, b, C, V, k, rd) ==
  /\ Story(1, x, gn, snt, sx, T, b, C, V) /\ ~Started(1, x, sx) /\ Pos(1, ~Untied(sx), s, g, b, C, V, k, rd)
  /\ T \in Seq(Cell)

Untouched(s, g, T, rd, C) == C = <<>> /\ T = <<>> /\ s.status = "Connecting" /\ g = <<>> /\ rd = 0

LEMMA NothingYet ==
  ASSUME NEW x, NEW s, NEW gn, NEW g, NEW snt, NEW sx, NEW T, NEW b, NEW C, NEW V, NEW k, NEW rd,
         NotBegun(x, s, gn, g, snt, sx, T, b, C, V, k, rd)
  PROVE  Untouched(s, g, T, rd, C)
<1>1. C = <<>> /\ Layout(T, b, C) /\ b[1] = 0 /\ T \in Seq(Cell) /\ Pos(1, ~Untied(sx), s, g, b, C, V, k, rd)
  BY DEF NotBegun, Story, Parse
<1>2. Len(C) = 0 /\ 0 + 1 = 1
  BY <1>1
<1>3. Len(T) = 0
  BY <1>1, <1>2 DEF Layout
<1>4. T = <<>>
  BY <1>3, EmptySeq
<1>5. k \in 0 .. 0
  BY <1>1, <1>2 DEF Pos
<1>6. ~(k >= 1)
  BY <1>5
<1>7. QED
  BY <1>1, <1>4, <1>6 DEF Pos, Untouched

(* Units are laid behind the ones there are. *)
LEMMA UnitsAdded ==
  ASSUME NEW H, NEW status, NEW T, NEW b, NEW C, NEW V, NEW D, NEW U, NEW T2, NEW d, NEW C2, NEW V2,
         Adds(H, status, T, b, C, V, D, U, T2, d, C2, V2), NEW tied, NEW s, NEW g, NEW k, NEW rd,
         Pos(H, tied, s, g, b, C, V, k, rd)
  PROVE  \E b2 : Parse(H, status, T2, b2, C2, V2) /\ Pos(H, tied, s, g, b2, C2, V2, k, rd)
<1>1. /\ Parse(H, status, T, b, C, V) /\ T \in Seq(Cell) /\ D \in Buffers /\ U \in Seq(Descr) /\ Len(U) = Len(D)
      /\ Laying(T, D, T2, d) /\ \A j \in 1 .. Len(D) : UnitOK(H, status, Len(C) + j, U[j], D[j])
  BY DEF Adds
<1>2. PICK b2 : Parse(H, status, T2, b2, C2, V2) /\ \A j \in 1 .. Len(C) + 1 : b2[j] = b[j]
  BY ParseGrown
<1>3. C \in Buffers /\ V \in Seq(Descr) /\ Len(V) = Len(C)
  BY <1>1 DEF Parse
<1>4. Pos(H, tied, s, g, b2, C \o D, V \o U, k, rd)
  BY <1>1, <1>2, <1>3, PosGrown
<1>5. QED
  BY <1>2, <1>4 DEF Adds

(* An upgrade header is sent first. *)
Leading(x, sx, sx2) ==
  /\ ~Started(1, x, sx) /\ Started(1, x, sx2) /\ sx2.early = sx.early /\ sx2.frag = sx.frag /\ sx.status = "Connecting"

LEMMA WayLeads ==
  ASSUME NEW x, NEW s, NEW w, NEW o, NEW o2, NEW gn, NEW g, NEW snt, NEW sx, NEW sx2, Sides(1, s, w, o, gn, g, snt),
         Way(1, x, s, w, o, gn, g, snt, sx), Leading(x, sx, sx2), Calls(o, o2, << Header >>)
  PROVE  Way(1, x, s, w, o2, gn, g, snt, sx2)
<1>1. PICK T, rd : Flow(s, w, o, gn, T, rd) /\ Ordered(1, x, s, gn, g, snt, sx, T, rd)
  BY DEF Way
<1>2. T \in Seq(Cell) /\ Carries(s, w, T, rd)
  BY <1>1 DEF Flow, Carries
<1>3. PICK T2, d : Laying(T, << Header >>, T2, d)
  <2>1. << Header >> \in Buffers
    BY DEF Calls
  <2>2. QED
    BY <1>2, <2>1, LayingAll
<1>4. ~gn => Flow(s, w, o2, gn, T2, rd)
  BY <1>1, <1>3, FlowSends
<1>5. gn => Flow(s, w, o2, gn, T, rd)
  BY <1>2 DEF Flow
<1>6. CASE sx.early
  <2>1. TooEarly(s, g, gn, T, rd) /\ sx2.early
    BY <1>1, <1>6 DEF Ordered, Leading
  <2>2. ~gn => TooEarly(s, g, gn, T2, rd)
    <3>1. SUFFICES ASSUME ~gn PROVE TooEarly(s, g, gn, T2, rd)
      OBVIOUS
    <3>2. T # <<>> /\ T[1][1] = "h1"
      BY <2>1, <3>1 DEF TooEarly
    <3>3. PICK t \in Nat, u \in Nat : t = Len(T) /\ u = Len(T2) /\ t <= u /\ T2 \in Seq(Cell)
      BY <1>2, <1>3, LenProperties DEF Laying, Extends
    <3>4. t # 0
      BY <1>2, <3>2, <3>3, EmptySeq
    <3>5. 1 \in 1 .. t /\ u # 0
      BY <3>3, <3>4
    <3>6. T2[1] = T[1] /\ T2 # <<>>
      BY <1>3, <3>3, <3>5 DEF Laying, Extends
    <3>7. QED
      BY <2>1, <3>2, <3>6 DEF TooEarly
  <2>3. QED
    BY <1>4, <1>5, <2>1, <2>2 DEF Way, Ordered
<1>7. CASE ~sx.early
  <2>1. PICK b, C, V, k : Story(1, x, gn, snt, sx, T, b, C, V) /\ Pos(1, ~Untied(sx), s, g, b, C, V, k, rd)
    BY <1>1, <1>7 DEF Ordered
  <2>2. ~sx2.early /\ ~Untied(sx) /\ Started(1, x, sx2)
    BY <1>7 DEF Leading, Untied
  <2>3. C = <<>> /\ T = <<>> /\ snt = <<>> /\ Tied(1, C, V, snt) /\ Parse(1, sx.status, T, b, C, V)
    <3>1. C = <<>> /\ T = <<>>
      <4>1. NotBegun(x, s, gn, g, snt, sx, T, b, C, V, k, rd)
        BY <1>2, <2>1 DEF Leading, NotBegun
      <4>2. Untouched(s, g, T, rd, C)
        BY <4>1, NothingYet
      <4>3. QED
        BY <4>2 DEF Untouched
    <3>2. QED
      BY <2>1, <2>2, <3>1 DEF Story, Leading
  <2>4. Len(C) = 0 /\ Len(snt) = 0 /\ V \in Seq(Descr) /\ Len(V) = 0 /\ C \in Buffers
    BY <2>3 DEF Parse
  <2>5. Parse(1, sx2.status, T, b, C, V)
    BY <2>3, <2>4 DEF Parse
  <2>6. (~Untied(sx2)) \in BOOLEAN /\ (~Untied(sx)) \in BOOLEAN
    BY DEF Untied
  <2>7. CASE gn
    <3>1. Story(1, x, gn, snt, sx2, T, b, C, V)
      BY <2>2, <2>3, <2>5, <2>7 DEF Story
    <3>2. Pos(1, ~Untied(sx2), s, g, b, C, V, k, rd)
      BY <2>1, <2>2, <2>6, PosWeaker
    <3>3. QED
      BY <1>5, <2>2, <2>7, <3>1, <3>2 DEF Way, Ordered
  <2>8. CASE ~gn
    <3>1. PICK v, D, U : v = [fin |-> TRUE, op |-> 0, n |-> 0, key |-> 0] /\ D = << Header >> /\ U = << v >>
      OBVIOUS
    <3>2. v \in Descr
      BY <3>1, WidthAssumption DEF Descr
    <3>3. D \in Buffers /\ U \in Seq(Descr) /\ Len(U) = 1 /\ Len(D) = 1 /\ D[1] = Header
      BY <3>1, <3>2 DEF Calls
    <3>4. \A j \in 1 .. Len(D) : UnitOK(1, sx2.status, Len(C) + j, U[j], D[j])
      <4>1. \A j \in 1 .. 1 : j = 1 /\ 0 + j <= 1
        OBVIOUS
      <4>2. QED
        BY <2>4, <3>3, <4>1 DEF UnitOK
    <3>5. PICK st, C2, V2, tied : st = sx2.status /\ C2 = C \o D /\ V2 = V \o U /\ tied = ~Untied(sx)
      OBVIOUS
    <3>6. PICK b2 : Parse(1, st, T2, b2, C2, V2) /\ Pos(1, tied, s, g, b2, C2, V2, k, rd)
      <4>1. Laying(T, D, T2, d) /\ Len(U) = Len(D)
        BY <1>3, <3>1, <3>3
      <4>2. Adds(1, st, T, b, C, V, D, U, T2, d, C2, V2)
        BY <1>2, <2>5, <3>3, <3>4, <3>5, <4>1 DEF Adds
      <4>3. Pos(1, tied, s, g, b, C, V, k, rd)
        BY <2>1, <3>5
      <4>4. QED
        BY <4>2, <4>3, UnitsAdded
    <3>7. Pos(1, ~Untied(sx2), s, g, b2, C2, V2, k, rd)
      BY <2>2, <2>6, <3>5, <3>6, PosWeaker
    <3>8. Len(C2) = 1
      <4>1. Len(C \o D) = Len(C) + Len(D)
        BY <2>4, <3>3, ConcatProperties DEF Buffers
      <4>2. QED
        BY <2>4, <3>3, <3>5, <4>1
    <3>9. Tied(1, C2, V2, snt)
      <4>1. 1 <= 1 + 0 /\ \A j \in 1 + 1 .. 1 : FALSE
        OBVIOUS
      <4>2. QED
        BY <2>4, <3>8, <4>1 DEF Tied
    <3>10. Len(C2) >= 1 /\ Len(C2) = 1 + Len(snt)
      BY <2>4, <3>8
    <3>11. Story(1, x, gn, snt, sx2, T2, b2, C2, V2)
      BY <2>2, <2>3, <3>5, <3>6, <3>9, <3>10 DEF Story
    <3>12. QED
      BY <1>4, <2>2, <2>8, <3>7, <3>11 DEF Way, Ordered
  <2>9. QED
    BY <2>7, <2>8 DEF Sides
<1>8. QED
  BY <1>6, <1>7

LEMMA WayNothing ==
  ASSUME NEW H, NEW x, NEW s, NEW w, NEW o, NEW o2, NEW gn, NEW g, NEW snt, NEW sx, Sides(H, s, w, o, gn, g, snt),
         Way(H, x, s, w, o, gn, g, snt, sx), Calls(o, o2, <<>>)
  PROVE  Way(H, x, s, w, o2, gn, g, snt, sx)
<1>1. PICK T, rd : Flow(s, w, o, gn, T, rd) /\ Ordered(H, x, s, gn, g, snt, sx, T, rd)
  BY DEF Way
<1>2. Written(o) = 0 /\ Written(o2) = 0 /\ o.calls = <<>> /\ o2.calls = <<>>
  BY DEF Calls, Sides, CallOK
<1>3. Flow(s, w, o2, gn, T, rd)
  BY <1>1, <1>2 DEF Flow, Laid
<1>4. QED
  BY <1>1, <1>3 DEF Way

LEMMA AppendFacts ==
  ASSUME NEW S, NEW s \in Seq(S), NEW m \in S, NEW t, t = Append(s, m)
  PROVE  /\ t \in Seq(S) /\ Len(t) = Len(s) + 1 /\ Len(s) \in Nat /\ t[Len(s) + 1] = m
         /\ \A i \in 1 .. Len(s) : t[i] = s[i]
BY AppendProperties, LenProperties

(* One message more. *)
LEMMA TiedMore ==
  ASSUME NEW H \in Nat, NEW C \in Buffers, NEW V, NEW snt \in Seq(Entry), NEW m \in Entry, NEW snt2, snt2 = Append(snt, m),
         Tied(H, C, V, snt)
  PROVE  Tied(H, C, V, snt2)
<1>1. PICK c \in Nat, n \in Nat : c = Len(C) /\ n = Len(snt)
  BY LenProperties DEF Buffers
<1>2. Len(snt2) = n + 1 /\ \A i \in 1 .. n : snt2[i] = snt[i]
  BY <1>1, AppendFacts
<1>3. c <= H + n /\ \A j \in H + 1 .. c : V[j].fin /\ V[j].op \in Opcode /\ snt[j - H] = Says(V[j], C[j])
  BY <1>1 DEF Tied
<1>4. c <= H + (n + 1)
  BY <1>3
<1>5. \A j \in H + 1 .. c : j - H \in 1 .. n
  BY <1>3
<1>6. \A j \in H + 1 .. c : V[j].fin /\ V[j].op \in Opcode /\ snt2[j - H] = Says(V[j], C[j])
  BY <1>2, <1>3, <1>5
<1>7. QED
  BY <1>1, <1>2, <1>4, <1>6 DEF Tied

(* The unit of one message. *)
TheUnit(v, c, m) == v.fin /\ v.op \in Opcode /\ m = Says(v, c)

LEMMA JoinOne ==
  ASSUME NEW S, NEW s \in Seq(S), NEW d \in Seq(S), Len(d) = 1, NEW t, t = s \o d
  PROVE  /\ t[Len(s) + 1] = d[1] /\ \A i \in 1 .. Len(s) : t[i] = s[i]
<1>1. PICK n \in Nat : n = Len(s)
  BY LenProperties
<1>2. /\ Len(s \o d) = Len(s) + Len(d)
      /\ \A i \in 1 .. Len(s) + Len(d) : (s \o d)[i] = IF i <= Len(s) THEN s[i] ELSE d[i - Len(s)]
  BY ConcatProperties
<1>3. Len(t) = n + 1 /\ \A i \in 1 .. n + 1 : t[i] = IF i <= n THEN s[i] ELSE d[i - n]
  BY <1>1, <1>2
<1>4. n + 1 \in 1 .. n + 1 /\ ~(n + 1 <= n) /\ (n + 1) - n = 1 /\ \A i \in 1 .. n : i \in 1 .. n + 1 /\ i <= n
  OBVIOUS
<1>5. QED
  BY <1>1, <1>3, <1>4

OneBehind(H, C, V, snt, m, snt2, D, U, C2, V2) ==
  /\ H \in Nat /\ C \in Buffers /\ V \in Seq(Descr) /\ Len(V) = Len(C) /\ snt \in Seq(Entry) /\ m \in Entry
  /\ snt2 = Append(snt, m) /\ Tied(H, C, V, snt) /\ Len(C) = H + Len(snt)
  /\ D \in Buffers /\ U \in Seq(Descr) /\ Len(D) = 1 /\ Len(U) = 1 /\ TheUnit(U[1], D[1], m)
  /\ C2 = C \o D /\ V2 = V \o U

TiedAll(H, C, V, snt) == Tied(H, C, V, snt) /\ Len(C) = H + Len(snt)

LEMMA TiedOne ==
  ASSUME NEW H, NEW C, NEW V, NEW snt, NEW m, NEW snt2, NEW D, NEW U, NEW C2, NEW V2,
         OneBehind(H, C, V, snt, m, snt2, D, U, C2, V2)
  PROVE  TiedAll(H, C2, V2, snt2)
<1>0. /\ H \in Nat /\ C \in Buffers /\ V \in Seq(Descr) /\ Len(V) = Len(C) /\ snt \in Seq(Entry) /\ m \in Entry
      /\ snt2 = Append(snt, m) /\ Tied(H, C, V, snt) /\ Len(C) = H + Len(snt)
      /\ D \in Buffers /\ U \in Seq(Descr) /\ Len(D) = 1 /\ Len(U) = 1 /\ TheUnit(U[1], D[1], m)
      /\ C2 = C \o D /\ V2 = V \o U
  BY DEF OneBehind
<1>h. H \in Nat
  BY <1>0
<1>1. PICK c \in Nat, n \in Nat : c = Len(C) /\ n = Len(snt)
  BY <1>0, LenProperties DEF Buffers
<1>2. Len(snt2) = n + 1 /\ snt2[n + 1] = m /\ \A i \in 1 .. n : snt2[i] = snt[i]
  BY <1>0, <1>1, AppendFacts
<1>3. Len(C2) = c + 1 /\ C2[c + 1] = D[1] /\ \A i \in 1 .. c : C2[i] = C[i]
  <2>1. PICK S : C \in Seq(S) /\ D \in Seq(S) /\ Len(D) = 1 /\ C2 = C \o D
    BY <1>0 DEF Buffers
  <2>2. C2[Len(C) + 1] = D[1] /\ \A i \in 1 .. Len(C) : C2[i] = C[i]
    BY <2>1, JoinOne
  <2>3. Len(C \o D) = Len(C) + Len(D)
    BY <2>1, ConcatProperties
  <2>4. QED
    BY <1>1, <2>1, <2>2, <2>3
<1>4. V2[c + 1] = U[1] /\ \A i \in 1 .. c : V2[i] = V[i]
  <2>1. PICK S : V \in Seq(S) /\ U \in Seq(S) /\ Len(U) = 1 /\ V2 = V \o U
    BY <1>0
  <2>2. V2[Len(V) + 1] = U[1] /\ \A i \in 1 .. Len(V) : V2[i] = V[i]
    BY <2>1, JoinOne
  <2>3. Len(V) = c
    BY <1>0, <1>1
  <2>4. QED
    BY <2>2, <2>3
<1>5. c = H + n /\ \A j \in H + 1 .. c : V[j].fin /\ V[j].op \in Opcode /\ snt[j - H] = Says(V[j], C[j])
  BY <1>0, <1>1 DEF Tied
<1>6. ASSUME NEW j \in H + 1 .. c + 1
      PROVE  V2[j].fin /\ V2[j].op \in Opcode /\ snt2[j - H] = Says(V2[j], C2[j])
  <2>1. CASE j = c + 1
    <3>1. j - H = n + 1
      BY <1>h, <1>5, <2>1
    <3>2. QED
      BY <1>0, <1>2, <1>3, <1>4, <2>1, <3>1 DEF TheUnit
  <2>2. CASE j # c + 1
    <3>1. j \in H + 1 .. c /\ j \in 1 .. c /\ j - H \in 1 .. n
      BY <1>h, <1>5, <2>2
    <3>2. QED
      BY <1>2, <1>3, <1>4, <1>5, <3>1
  <2>3. QED
    BY <2>1, <2>2
<1>7. c + 1 <= H + (n + 1) /\ c + 1 = H + (n + 1)
  BY <1>h, <1>5
<1>8. QED
  BY <1>2, <1>3, <1>6, <1>7 DEF Tied, TiedAll

(* The message m is sent as the units D, in these calls. *)
SendsUnits(H, x, sx, sx2, snt, snt2, m, calls, D, U) ==
  /\ sx2.status = sx.status /\ sx.status # "Connecting" /\ ~sx.early /\ ~sx2.early
  /\ Started(H, x, sx) /\ Started(H, x, sx2) /\ (Untied(sx) => Untied(sx2))
  /\ m \in Entry /\ snt2 = Append(snt, m) /\ calls \in Buffers
  /\ D \in Buffers /\ U \in Seq(Descr) /\ Len(U) = Len(D)
  /\ \A j \in 1 .. Len(D) : IF sx.status = "TCP" THEN RawUnit(U[j], D[j]) ELSE FrameUnit(U[j], D[j])
  /\ ~Untied(sx2) => Len(D) = 1 /\ TheUnit(U[1], D[1], m)
  /\ \A T \in Seq(Cell) : \E T2, d, d2 : Laying(T, calls, T2, d) /\ Laying(T, D, T2, d2)

LEMMA StoryGone ==
  ASSUME NEW H \in Nat, NEW x, NEW snt \in Seq(Entry), NEW snt2, NEW sx, NEW sx2, NEW m, NEW calls, NEW D, NEW U,
         SendsUnits(H, x, sx, sx2, snt, snt2, m, calls, D, U), NEW T, NEW b, NEW C, NEW V,
         Story(H, x, TRUE, snt, sx, T, b, C, V)
  PROVE  Story(H, x, TRUE, snt2, sx2, T, b, C, V)
<1>1. Parse(H, sx2.status, T, b, C, V) /\ C \in Buffers
  BY DEF Story, SendsUnits, Parse
<1>2. ~Untied(sx2) => Tied(H, C, V, snt2)
  <2>1. SUFFICES ASSUME ~Untied(sx2) PROVE Tied(H, C, V, snt2)
    OBVIOUS
  <2>2. Tied(H, C, V, snt) /\ m \in Entry /\ snt2 = Append(snt, m)
    BY <2>1 DEF Story, SendsUnits
  <2>3. QED
    BY <1>1, <2>2, TiedMore
<1>3. QED
  BY <1>1, <1>2 DEF Story, SendsUnits

LEMMA StoryUnits ==
  ASSUME NEW H \in Nat, NEW x, NEW snt \in Seq(Entry), NEW snt2, NEW sx, NEW sx2, NEW m, NEW calls, NEW D, NEW U,
         SendsUnits(H, x, sx, sx2, snt, snt2, m, calls, D, U), NEW T, NEW b, NEW C, NEW V,
         Story(H, x, FALSE, snt, sx, T, b, C, V), NEW C2, NEW V2, C2 = C \o D, V2 = V \o U, NEW T2, NEW b2,
         Parse(H, sx.status, T2, b2, C2, V2)
  PROVE  Story(H, x, FALSE, snt2, sx2, T2, b2, C2, V2)
<1>1. /\ C \in Buffers /\ V \in Seq(Descr) /\ Len(V) = Len(C) /\ D \in Buffers /\ U \in Seq(Descr) /\ Len(U) = Len(D)
      /\ m \in Entry /\ snt2 = Append(snt, m)
  BY DEF Story, SendsUnits, Parse
<1>2. Len(C2) >= H
  <2>1. PICK c \in Nat, n \in Nat : c = Len(C) /\ n = Len(D)
    BY <1>1, LenProperties DEF Buffers
  <2>2. c >= H
    BY <2>1 DEF Story, SendsUnits
  <2>3. Len(C \o D) = Len(C) + Len(D)
    BY <1>1, ConcatProperties DEF Buffers
  <2>4. c + n >= H
    BY <2>2
  <2>5. QED
    BY <2>1, <2>3, <2>4
<1>3. ~Untied(sx2) => Tied(H, C2, V2, snt2) /\ Len(C2) = H + Len(snt2)
  <2>1. SUFFICES ASSUME ~Untied(sx2) PROVE Tied(H, C2, V2, snt2) /\ Len(C2) = H + Len(snt2)
    OBVIOUS
  <2>2. Tied(H, C, V, snt) /\ Len(C) = H + Len(snt) /\ Len(D) = 1 /\ Len(U) = 1 /\ TheUnit(U[1], D[1], m)
    BY <1>1, <2>1 DEF Story, SendsUnits
  <2>3. OneBehind(H, C, V, snt, m, snt2, D, U, C2, V2)
    BY <1>1, <2>2 DEF OneBehind
  <2>4. TiedAll(H, C2, V2, snt2)
    BY <2>3, TiedOne
  <2>5. QED
    BY <2>4 DEF TiedAll
<1>4. QED
  BY <1>2, <1>3 DEF Story, SendsUnits

LEMMA WayUnits ==
  ASSUME NEW H, NEW x, NEW s, NEW w, NEW o, NEW o2, NEW gn, NEW g, NEW snt, NEW snt2, NEW sx, NEW sx2, NEW m,
         NEW calls, NEW D, NEW U, Sides(H, s, w, o, gn, g, snt), Way(H, x, s, w, o, gn, g, snt, sx),
         Calls(o, o2, calls), SendsUnits(H, x, sx, sx2, snt, snt2, m, calls, D, U)
  PROVE  Way(H, x, s, w, o2, gn, g, snt2, sx2)
<1>1. PICK T, rd : Flow(s, w, o, gn, T, rd) /\ Ordered(H, x, s, gn, g, snt, sx, T, rd)
  BY DEF Way
<1>2. T \in Seq(Cell) /\ Carries(s, w, T, rd) /\ H \in Nat /\ snt \in Seq(Entry)
  BY <1>1 DEF Flow, Carries, Sides
<1>3. ~sx.early /\ ~sx2.early /\ (Untied(sx) => Untied(sx2)) /\ sx2.status = sx.status
  BY DEF SendsUnits
<1>4. PICK b, C, V, k : Story(H, x, gn, snt, sx, T, b, C, V) /\ Pos(H, ~Untied(sx), s, g, b, C, V, k, rd)
  BY <1>1, <1>3 DEF Ordered
<1>5. PICK tied \in BOOLEAN : tied = ~Untied(sx2)
  BY DEF Untied
<1>6. (~Untied(sx)) \in BOOLEAN /\ (tied => ~Untied(sx))
  BY <1>3, <1>5 DEF Untied
<1>7. Pos(H, tied, s, g, b, C, V, k, rd)
  BY <1>4, <1>6, PosWeaker
<1>8. CASE gn
  <2>1. Flow(s, w, o2, gn, T, rd)
    BY <1>2, <1>8 DEF Flow
  <2>2. gn = TRUE
    BY <1>8 DEF Sides
  <2>3. Story(H, x, gn, snt2, sx2, T, b, C, V)
    BY <1>2, <1>4, <2>2, StoryGone
  <2>4. QED
    BY <1>3, <1>5, <1>7, <2>1, <2>3 DEF Way, Ordered
<1>9. CASE ~gn
  <2>1. PICK T2, d, d2 : Laying(T, calls, T2, d) /\ Laying(T, D, T2, d2)
    BY <1>2 DEF SendsUnits
  <2>2. Flow(s, w, o2, gn, T2, rd)
    BY <1>1, <1>9, <2>1, FlowSends
  <2>3. PICK st, C2, V2 : st = sx.status /\ C2 = C \o D /\ V2 = V \o U
    OBVIOUS
  <2>4. Adds(H, st, T, b, C, V, D, U, T2, d2, C2, V2)
    <3>1. Parse(H, st, T, b, C, V) /\ C \in Buffers /\ Len(C) >= H
      BY <1>4, <1>9, <2>3 DEF Story, Parse, SendsUnits
    <3>2. D \in Buffers /\ U \in Seq(Descr) /\ Len(U) = Len(D)
          /\ \A j \in 1 .. Len(D) : IF st = "TCP" THEN RawUnit(U[j], D[j]) ELSE FrameUnit(U[j], D[j])
      BY <2>3 DEF SendsUnits
    <3>3. \A j \in 1 .. Len(D) : ~(Len(C) + j <= H)
      <4>1. PICK c \in Nat : c = Len(C)
        BY <3>1, LenProperties DEF Buffers
      <4>2. QED
        BY <1>2, <3>1, <4>1
    <3>4. \A j \in 1 .. Len(D) : UnitOK(H, st, Len(C) + j, U[j], D[j])
      BY <3>2, <3>3 DEF UnitOK
    <3>5. QED
      BY <1>2, <2>1, <2>3, <3>1, <3>2, <3>4 DEF Adds
  <2>5. PICK b2 : Parse(H, st, T2, b2, C2, V2) /\ Pos(H, tied, s, g, b2, C2, V2, k, rd)
    BY <1>7, <2>4, UnitsAdded
  <2>6. gn = FALSE
    BY <1>9 DEF Sides
  <2>7. Story(H, x, gn, snt2, sx2, T2, b2, C2, V2)
    BY <1>2, <1>4, <2>3, <2>5, <2>6, StoryUnits
  <2>8. QED
    BY <1>3, <1>5, <2>2, <2>5, <2>7 DEF Way, Ordered
<1>10. QED
  BY <1>8, <1>9 DEF Sides

-----------------------------------------------------------------------------
(* The units of a message *)

(* A key takes itself away again. *)
LEMMA UnmaskedTwice ==
  ASSUME NEW c, PlainCell(c), NEW key \in Keys
  PROVE  Unmasked(Unmasked(c, key), key) = c
<1>1. PICK id \in Ids, i \in Nat, x \in SUBSET Keys : c = <<"pl", id, i, x>>
  BY DEF PlainCell
<1>2. c \in AnyCell /\ c[1] = "pl"
  BY <1>1 DEF AnyCell, Cell
<1>3. PICK d : d = Unmasked(c, key)
  OBVIOUS
<1>4. d \in Cell /\ d[1] = "pl" /\ d[2] = c[2] /\ d[3] = c[3] /\ d[4] = Xor(c[4], key)
  BY <1>2, <1>3, UnmaskedCell
<1>5. d \in AnyCell
  BY <1>4 DEF AnyCell
<1>6. PICK f : f = Unmasked(d, key)
  OBVIOUS
<1>7. f \in Cell /\ f[1] = "pl" /\ f[2] = d[2] /\ f[3] = d[3] /\ f[4] = Xor(d[4], key)
  BY <1>4, <1>5, <1>6, UnmaskedCell
<1>8. f \in AnyCell
  BY <1>7 DEF AnyCell
<1>9. f \in {"pl"} \X Ids \X Nat \X SUBSET Keys
  BY <1>7, <1>8, CellFacts
<1>10. c[2] = id /\ c[3] = i /\ c[4] = x
  BY <1>1
<1>11. f[4] = x
  BY <1>4, <1>7, <1>10, XorKeys
<1>12. f[2] = id /\ f[3] = i
  BY <1>4, <1>7, <1>10
<1>13. PICK id2 \in Ids, i2 \in Nat, x2 \in SUBSET Keys : f = <<"pl", id2, i2, x2>>
  BY <1>9
<1>14. id2 = id /\ i2 = i /\ x2 = x
  BY <1>11, <1>12, <1>13
<1>15. QED
  BY <1>1, <1>3, <1>6, <1>13, <1>14

(* A header and the payload behind it are a frame. *)
AFrame(h, p, op, n, key, last, v, c) ==
  /\ op \in Nat /\ n \in Nat /\ key \in Keys /\ last \in BOOLEAN /\ SentFrame(h, p, op, n, key, last)
  /\ v = [fin |-> last, op |-> op, n |-> n, key |-> key] /\ c = h \o p

LEMMA OneFrame ==
  ASSUME NEW h, NEW p, NEW op, NEW n, NEW key, NEW last, NEW v, NEW c, AFrame(h, p, op, n, key, last, v, c)
  PROVE  /\ v \in Descr /\ c \in Seq(Cell) /\ h \in Seq(Cell) /\ p \in Seq(Cell) /\ FrameUnit(v, c)
         /\ \A i \in 1 .. n : c[(Len(c) - n) + i] = p[i]
<1>0. /\ op \in Nat /\ n \in Nat /\ key \in Keys /\ last \in BOOLEAN
      /\ v = [fin |-> last, op |-> op, n |-> n, key |-> key] /\ c = h \o p
  BY DEF AFrame
<1>1. p \in Seq(Cell) /\ Len(p) = n /\ \A j \in 1 .. n : PlainCell(p[j])
  BY DEF AFrame, SentFrame
<1>h. h = getFrameHeader(op, n, key, last)
  BY DEF AFrame, SentFrame
<1>2. /\ h \in Seq(Cell) /\ Len(h) = HeadLen(n, key)
      /\ h[1] = <<"h1", last, FALSE, op>> /\ h[2] = <<"h2", key # 0, Code(n)>>
      /\ n > Len7Max => h[3] = <<"ex", n>>
      /\ key # 0 => h[Len(h)] = <<"mk", key>>
  <2>1. HeadOf(h, op, n, key, last)
    BY <1>0, <1>h, FrameHeadFacts
  <2>2. QED
    BY <2>1, Zenon DEF HeadOf
<1>3. v \in Descr /\ v.fin = last /\ v.op = op /\ v.n = n /\ v.key = key
  BY <1>0 DEF Descr
<1>4. PICK m \in {2, 3, 4} : m = HeadLen(n, key) /\ (n > Len7Max => m >= 3)
  <2>1. key \in Nat /\ Len7Max \in Nat
    BY <1>0, WidthAssumption
  <2>2. QED
    BY <1>0, <2>1 DEF HeadLen
<1>5. /\ c \in Seq(Cell) /\ Len(h \o p) = Len(h) + Len(p)
      /\ \A i \in 1 .. Len(h) + Len(p) : (h \o p)[i] = IF i <= Len(h) THEN h[i] ELSE p[i - Len(h)]
  BY <1>0, <1>1, <1>2, ConcatProperties
<1>6. Len(c) = m + n /\ \A i \in 1 .. m + n : c[i] = IF i <= m THEN h[i] ELSE p[i - m]
  BY <1>0, <1>1, <1>2, <1>4, <1>5
<1>7. 1 \in 1 .. m + n /\ 2 \in 1 .. m + n /\ 1 <= m /\ 2 <= m /\ m \in 1 .. m + n /\ m <= m /\ (m >= 3 => 3 \in 1 .. m + n)
  BY <1>0, <1>4
<1>8. c[1] = h[1] /\ c[2] = h[2] /\ c[m] = h[m] /\ (m >= 3 => c[3] = h[3])
  BY <1>6, <1>7
<1>9. ASSUME NEW i \in 1 .. n PROVE c[m + i] = p[i]
  <2>1. m + i \in 1 .. m + n /\ ~(m + i <= m) /\ (m + i) - m = i
    BY <1>0, <1>4
  <2>2. QED
    BY <1>6, <2>1
<1>10. (Len(c) - n) = m
  BY <1>0, <1>4, <1>6
<1>11. FrameUnit(v, c)
  <2>1. \A i \in 1 .. v.n : PlainCell(c[HeadLen(v.n, v.key) + i])
    BY <1>1, <1>3, <1>4, <1>9
  <2>2. Len(c) = HeadLen(v.n, v.key) + v.n
    BY <1>3, <1>4, <1>6
  <2>3. v.n > Len7Max => c[3] = <<"ex", v.n>>
    BY <1>2, <1>3, <1>4, <1>8
  <2>4. v.key # 0 => c[HeadLen(v.n, v.key)] = <<"mk", v.key>>
    BY <1>2, <1>3, <1>4, <1>8
  <2>5. QED
    BY <1>2, <1>3, <1>8, <2>1, <2>2, <2>3, <2>4 DEF FrameUnit
<1>12. QED
  BY <1>1, <1>2, <1>3, <1>5, <1>9, <1>10, <1>11

(* What the receiver of the one frame of a message should see of it. *)
LEMMA SaysBody ==
  ASSUME NEW v \in Descr, NEW c, NEW body \in Seq(Cell), NEW n \in Nat, n = v.n, n = Len(body),
         \A i \in 1 .. n : PlainCell(body[i]) /\ c[(Len(c) - n) + i] = Unmasked(body[i], v.key)
  PROVE  Seen(v.op, body) = Says(v, c)
<1>1. PICK B : B = [i \in 1 .. v.n |-> Unmasked(c[(Len(c) - v.n) + i], v.key)]
  OBVIOUS
<1>2. v.key \in Keys
  BY DescrFacts
<1>3. ASSUME NEW i \in 1 .. n PROVE B[i] = body[i]
  <2>1. B[i] = Unmasked(c[(Len(c) - n) + i], v.key)
    BY <1>1
  <2>2. PICK k \in Keys : k = v.key
    BY <1>2
  <2>3. PICK y : y = body[i]
    OBVIOUS
  <2>5. Unmasked(Unmasked(y, k), k) = y
    BY <2>2, <2>3, UnmaskedTwice
  <2>4. QED
    BY <2>1, <2>2, <2>3, <2>5
<1>4. body \in [1 .. n -> Cell]
  BY LenProperties
<1>5. body = B
  BY <1>1, <1>3, <1>4
<1>6. QED
  BY <1>1, <1>5 DEF Says

(* What lies behind T as these calls lies there as these units. *)
SameCells(calls, D) == \A T \in Seq(Cell) : \E T2, d, d2 : Laying(T, calls, T2, d) /\ Laying(T, D, T2, d2)

UnitsOf(calls, F, op, body, D, U) ==
  /\ D \in Buffers /\ U \in Seq(Descr) /\ Len(D) = F /\ Len(U) = F
  /\ \A j \in 1 .. F : FrameUnit(U[j], D[j])
  /\ F = 1 => TheUnit(U[1], D[1], Seen(op, body))
  /\ SameCells(calls, D)

LEMMA SameCellsSelf ==
  ASSUME NEW calls \in Buffers
  PROVE  SameCells(calls, calls)
BY LayingAll DEF SameCells

LEMMA UnitEmpty ==
  ASSUME NEW body, NEW op \in Opcode, NEW M, NEW n, NEW F, NEW key, NEW calls, SendMsgCall(body, op, M, n, F, key, calls),
         SendMsgMakes(body, op, M, n, F, key, calls), calls \in Buffers, n = 0
  PROVE  \E D, U : UnitsOf(calls, F, op, body, D, U)
<1>1. F = 1 /\ calls = << getFrameHeader(op, 0, key[1], TRUE) >> /\ key[1] \in Keys /\ op \in Nat /\ body \in Seq(Cell)
      /\ Len(body) = 0
  <2>1. M \in Nat \ {0} /\ key \in [1 .. F -> Keys] /\ op \in Nat /\ body \in Seq(Cell) /\ n = Len(body)
    BY DEF SendMsgCall
  <2>2. F = 1
    BY <2>1 DEF SendMsgMakes
  <2>3. calls = << getFrameHeader(op, 0, key[1], TRUE) >>
    BY DEF SendMsgMakes
  <2>4. key[1] \in Keys
    BY <2>1, <2>2
  <2>5. QED
    BY <2>1, <2>2, <2>3, <2>4
<1>k. PICK k \in Keys : k = key[1]
  BY <1>1
<1>2. PICK h, v : /\ h = getFrameHeader(op, 0, k, TRUE) /\ v = [fin |-> TRUE, op |-> op, n |-> 0, key |-> k]
                  /\ calls = << h >>
  BY <1>1, <1>k
<1>3. SentFrame(h, <<>>, op, 0, k, TRUE)
  BY <1>2 DEF SentFrame
<1>4. PICK c : c = h \o <<>>
  OBVIOUS
<1>5. v \in Descr /\ h \in Seq(Cell) /\ FrameUnit(v, c)
  <2>1. AFrame(h, <<>>, op, 0, k, TRUE, v, c)
    BY <1>1, <1>2, <1>3, <1>4 DEF AFrame
  <2>2. QED
    BY <2>1, OneFrame
<1>6. c = h
  BY <1>4, <1>5, ConcatProperties
<1>7. v.op = op /\ v.n = 0 /\ v.fin
  BY <1>2
<1>8. Seen(op, body) = Says(v, h)
  <2>1. \A i \in 1 .. 0 : PlainCell(body[i]) /\ h[(Len(h) - 0) + i] = Unmasked(body[i], v.key)
    OBVIOUS
  <2>2. QED
    BY <1>1, <1>5, <1>7, <2>1, SaysBody
<1>9. PICK U : U = << v >>
  OBVIOUS
<1>10. U \in Seq(Descr) /\ Len(U) = 1 /\ U[1] = v /\ Len(calls) = 1 /\ calls[1] = h
  BY <1>2, <1>5, <1>9
<1>11. \A j \in 1 .. 1 : j = 1
  OBVIOUS
<1>12. UnitsOf(calls, F, op, body, calls, U)
  BY <1>1, <1>5, <1>6, <1>7, <1>8, <1>10, <1>11, SameCellsSelf DEF UnitsOf, TheUnit
<1>13. QED
  BY <1>12

LEMMA UnitFrames ==
  ASSUME NEW body, NEW op \in Opcode, NEW M, NEW n, NEW F, NEW key, NEW calls, SendMsgCall(body, op, M, n, F, key, calls),
         SendMsgMakes(body, op, M, n, F, key, calls), calls \in Buffers, n # 0
  PROVE  \E D, U : UnitsOf(calls, F, op, body, D, U)
<1>1. /\ F \in Nat \ {0} /\ calls = [j \in 1 .. 2 * F |-> calls[j]] /\ \A i \in 1 .. F : MessageFrame(calls, i, F, op, key, n)
      /\ F = 1 => \A j \in 1 .. n : calls[2][j] = Unmasked(body[j], key[1])
  BY DEF SendMsgMakes
<1>2. /\ op \in Nat /\ body \in Seq(Cell) /\ Len(body) = n /\ n \in Nat /\ (\A i \in 1 .. n : PlainCell(body[i]))
      /\ key \in [1 .. F -> Keys]
  BY DEF SendMsgCall
<1>3. Len(calls) = 2 * F
  <2>1. DOMAIN calls = 1 .. 2 * F /\ DOMAIN calls = 1 .. Len(calls) /\ Len(calls) \in Nat /\ 2 * F \in Nat
    BY <1>1, LenProperties DEF Buffers
  <2>2. QED
    BY <2>1
<1>4. PICK D, U : /\ D = [i \in 1 .. F |-> calls[2 * i - 1] \o calls[2 * i]]
                  /\ U = [i \in 1 .. F |-> [fin |-> i = F, op |-> IF i = 1 THEN op ELSE Continue,
                                            n |-> Len(calls[2 * i]), key |-> key[i]]]
  OBVIOUS
<1>5. ASSUME NEW i \in 1 .. F
      PROVE  /\ U[i] \in Descr /\ D[i] \in Seq(Cell) /\ FrameUnit(U[i], D[i])
             /\ U[i].n = Len(calls[2 * i]) /\ U[i].n \in Nat /\ (F = 1 => U[i].n = n) /\ U[i].key = key[i] /\ (U[i].fin <=> i = F)
             /\ U[i].op = (IF i = 1 THEN op ELSE Continue)
             /\ \A j \in 1 .. U[i].n : D[i][(Len(D[i]) - U[i].n) + j] = calls[2 * i][j]
  <2>1. PICK L \in 1 .. n, o \in Nat, last \in BOOLEAN, k \in Keys :
          /\ SentFrame(calls[2 * i - 1], calls[2 * i], o, L, k, last)
          /\ o = (IF i = 1 THEN op ELSE Continue) /\ k = key[i] /\ last = (i = F) /\ (F = 1 => L = n)
    <3>1. PICK L \in 1 .. n :
            /\ SentFrame(calls[2 * i - 1], calls[2 * i], IF i = 1 THEN op ELSE Continue, L, key[i], i = F)
            /\ F = 1 => L = n
      BY <1>1 DEF MessageFrame
    <3>2. PICK o : o = IF i = 1 THEN op ELSE Continue
      OBVIOUS
    <3>3. o \in Nat
      BY <1>2, <3>2 DEF Continue
    <3>4. PICK last \in BOOLEAN : last = (i = F)
      OBVIOUS
    <3>5. SentFrame(calls[2 * i - 1], calls[2 * i], o, L, key[i], last)
      BY <3>1, <3>2, <3>4
    <3>6. QED
      BY <1>2, <3>1, <3>2, <3>3, <3>4, <3>5
  <2>2. L \in Nat /\ Len(calls[2 * i]) = L
    BY <2>1 DEF SentFrame
  <2>3. PICK h, p, v, c : /\ h = calls[2 * i - 1] /\ p = calls[2 * i] /\ c = h \o p
                          /\ v = [fin |-> last, op |-> o, n |-> L, key |-> k]
    OBVIOUS
  <2>4. U[i] = v /\ D[i] = c
    BY <1>4, <2>1, <2>2, <2>3
  <2>5. SentFrame(h, p, o, L, k, last)
    BY <2>1, <2>3
  <2>6. /\ v \in Descr /\ c \in Seq(Cell) /\ FrameUnit(v, c)
        /\ \A j \in 1 .. L : c[(Len(c) - L) + j] = p[j]
    <3>1. AFrame(h, p, o, L, k, last, v, c)
      BY <2>2, <2>3, <2>5 DEF AFrame
    <3>2. QED
      BY <3>1, OneFrame
  <2>7. v.fin = last /\ v.op = o /\ v.n = L /\ v.key = k
    BY <2>3
  <2>8. QED
    BY <2>1, <2>2, <2>3, <2>4, <2>6, <2>7
<1>6. D \in Buffers /\ Len(D) = F /\ U \in Seq(Descr) /\ Len(U) = F
  <2>1. D \in [1 .. F -> Seq(Cell)] /\ U \in [1 .. F -> Descr]
    BY <1>4, <1>5
  <2>2. QED
    BY <1>1, <2>1, SeqOf DEF Buffers
<1>7. SameCells(calls, D)
  <2>1. SUFFICES ASSUME NEW T \in Seq(Cell)
                 PROVE  \E T2, d, d2 : Laying(T, calls, T2, d) /\ Laying(T, D, T2, d2)
    BY DEF SameCells
  <2>2. PICK T2, d : Laying(T, calls, T2, d)
    BY LayingAll
  <2>3. \A i \in 1 .. F : D[i] = calls[2 * i - 1] \o calls[2 * i]
    BY <1>4
  <2>4. PICK d2 : Laying(T, D, T2, d2)
    BY <1>1, <1>3, <1>6, <2>2, <2>3, FramesPaired
  <2>5. QED
    BY <2>2, <2>4
<1>8. F = 1 => TheUnit(U[1], D[1], Seen(op, body))
  <2>1. SUFFICES ASSUME F = 1 PROVE TheUnit(U[1], D[1], Seen(op, body))
    OBVIOUS
  <2>2. 1 \in 1 .. F /\ 2 * 1 = 2
    BY <2>1
  <2>3. PICK v, c : v = U[1] /\ c = D[1]
    OBVIOUS
  <2>4. /\ v \in Descr /\ v.n = n /\ v.key = key[1] /\ v.fin /\ v.op = op
        /\ \A j \in 1 .. n : c[(Len(c) - n) + j] = calls[2][j]
    BY <1>5, <2>1, <2>2, <2>3
  <2>5. \A i \in 1 .. n : PlainCell(body[i]) /\ c[(Len(c) - n) + i] = Unmasked(body[i], v.key)
    BY <1>1, <1>2, <2>1, <2>4
  <2>6. Seen(v.op, body) = Says(v, c)
    BY <1>2, <2>4, <2>5, SaysBody
  <2>7. QED
    BY <2>3, <2>4, <2>6 DEF TheUnit
<1>9. UnitsOf(calls, F, op, body, D, U)
  BY <1>5, <1>6, <1>7, <1>8 DEF UnitsOf
<1>10. QED
  BY <1>9

-----------------------------------------------------------------------------
(* A direction from one state to the next *)

(* Frames are sent before the header. *)
SendsEarly(x, sx, sx2, calls, D, v) ==
  /\ sx2.early /\ (sx.early \/ ~Started(1, x, sx)) /\ calls \in Buffers /\ SameCells(calls, D)
  /\ D \in Buffers /\ D # <<>> /\ v \in Descr /\ FrameUnit(v, D[1])

LEMMA EarlyCells ==
  ASSUME NEW T \in Seq(Cell), T = <<>>, NEW D \in Buffers, D # <<>>, NEW v \in Descr, FrameUnit(v, D[1]), NEW T2, NEW d,
         Laying(T, D, T2, d)
  PROVE  T2 # <<>> /\ T2[1][1] = "h1"
<1>1. PICK n \in Nat : n = Len(D) /\ n # 0
  BY EmptySeq, LenProperties DEF Buffers
<1>2. 1 \in 1 .. n /\ 1 \in 1 .. n + 1 /\ 2 \in 1 .. n + 1 /\ 1 + 1 = 2
  BY <1>1
<1>3. d[1] = 0
  BY DEF Laying
<1>4. PICK m \in Nat : m = Len(D[1]) /\ m >= 2
  <2>1. HeadLen(v.n, v.key) \in {2, 3, 4} /\ v.n \in Nat
    <3>1. v.n \in Nat /\ v.key \in Nat /\ Len7Max \in Nat
      BY DescrFacts, WidthAssumption
    <3>2. QED
      BY <3>1 DEF HeadLen
  <2>2. Len(D[1]) = HeadLen(v.n, v.key) + v.n
    BY DEF FrameUnit
  <2>3. QED
    BY <2>1, <2>2
<1>5. d[2] = d[1] + Len(D[1]) /\ d[2] <= Len(T2) /\ T2[d[1] + 1] = D[1][1]
  <2>1. 1 \in 1 .. m
    BY <1>4
  <2>2. /\ \A j \in 1 .. n + 1 : d[j] <= Len(T2)
        /\ \A j \in 1 .. n : d[j + 1] = d[j] + Len(D[j])
        /\ \A j \in 1 .. n : \A i \in 1 .. Len(D[j]) : T2[d[j] + i] = D[j][i]
    BY <1>1 DEF Laying, Layout
  <2>3. QED
    BY <1>2, <1>4, <2>1, <2>2
<1>6. T2[1] = D[1][1]
  <2>1. 0 + 1 = 1
    OBVIOUS
  <2>2. QED
    BY <1>3, <1>5, <2>1
<1>7. D[1][1][1] = "h1"
  BY DEF FrameUnit
<1>8. Len(T2) # 0
  <2>1. Len(T2) \in Nat
    BY LenProperties DEF Laying, Extends
  <2>2. QED
    BY <1>3, <1>4, <1>5, <2>1
<1>9. QED
  BY <1>6, <1>7, <1>8

LEMMA WayEarly ==
  ASSUME NEW x, NEW s, NEW w, NEW o, NEW o2, NEW gn, NEW g, NEW snt, NEW snt2, NEW sx, NEW sx2,
         NEW calls, NEW D, NEW v, Sides(1, s, w, o, gn, g, snt), Way(1, x, s, w, o, gn, g, snt, sx),
         Calls(o, o2, calls), SendsEarly(x, sx, sx2, calls, D, v)
  PROVE  Way(1, x, s, w, o2, gn, g, snt2, sx2)
<1>1. PICK T, rd : Flow(s, w, o, gn, T, rd) /\ Ordered(1, x, s, gn, g, snt, sx, T, rd)
  BY DEF Way
<1>2. T \in Seq(Cell) /\ Carries(s, w, T, rd)
  BY <1>1 DEF Flow, Carries
<1>3. s.status = "Connecting" /\ g = <<>> /\ rd = 0 /\ (sx.early => TooEarly(s, g, gn, T, rd)) /\ (~sx.early => T = <<>>)
  <2>1. CASE sx.early
    BY <1>1, <2>1 DEF Ordered, TooEarly
  <2>2. CASE ~sx.early
    <3>1. PICK b, C, V, k : Story(1, x, gn, snt, sx, T, b, C, V) /\ Pos(1, ~Untied(sx), s, g, b, C, V, k, rd)
      BY <1>1, <2>2 DEF Ordered
    <3>2. NotBegun(x, s, gn, g, snt, sx, T, b, C, V, k, rd)
      BY <1>2, <2>2, <3>1 DEF SendsEarly, NotBegun
    <3>3. Untouched(s, g, T, rd, C)
      BY <3>2, NothingYet
    <3>4. QED
      BY <2>2, <3>3 DEF Untouched
  <2>3. QED
    BY <2>1, <2>2
<1>4. CASE gn
  <2>1. Flow(s, w, o2, gn, T, rd)
    BY <1>2, <1>4 DEF Flow
  <2>2. TooEarly(s, g, gn, T, rd)
    BY <1>3, <1>4 DEF TooEarly
  <2>3. QED
    BY <2>1, <2>2 DEF Way, Ordered, SendsEarly
<1>5. CASE ~gn
  <2>1. PICK T2, d, d2 : Laying(T, calls, T2, d) /\ Laying(T, D, T2, d2)
    BY <1>2 DEF SendsEarly, SameCells
  <2>2. Flow(s, w, o2, gn, T2, rd)
    BY <1>1, <1>5, <2>1, FlowSends
  <2>3. T2 # <<>> /\ T2[1][1] = "h1"
    <3>1. CASE T = <<>>
      BY <1>2, <2>1, <3>1, EarlyCells DEF SendsEarly
    <3>2. CASE T # <<>>
      <4>1. sx.early /\ T[1][1] = "h1"
        BY <1>3, <3>2 DEF TooEarly
      <4>2. PICK t \in Nat, u \in Nat : t = Len(T) /\ u = Len(T2) /\ t <= u /\ T2 \in Seq(Cell)
        BY <1>2, <2>1, LenProperties DEF Laying, Extends
      <4>3. t # 0
        BY <1>2, <3>2, <4>2, EmptySeq
      <4>4. 1 \in 1 .. t /\ u # 0
        BY <4>2, <4>3
      <4>5. T2[1] = T[1] /\ T2 # <<>>
        BY <2>1, <4>2, <4>4 DEF Laying, Extends
      <4>6. QED
        BY <4>1, <4>5
    <3>3. QED
      BY <3>1, <3>2
  <2>4. TooEarly(s, g, gn, T2, rd)
    BY <1>3, <2>3 DEF TooEarly
  <2>5. QED
    BY <2>2, <2>4 DEF Way, Ordered, SendsEarly
<1>6. QED
  BY <1>4, <1>5 DEF Sides

(* The sender changes without sending. *)
LEMMA WaySender ==
  ASSUME NEW H, NEW x, NEW s, NEW w, NEW o, NEW gn, NEW g, NEW snt, NEW sx, NEW sx2, Sides(H, s, w, o, gn, g, snt),
         Way(H, x, s, w, o, gn, g, snt, sx), SenderMoved(H, x, sx, sx2)
  PROVE  Way(H, x, s, w, o, gn, g, snt, sx2)
<1>1. PICK T, rd : Flow(s, w, o, gn, T, rd) /\ Ordered(H, x, s, gn, g, snt, sx, T, rd)
  BY DEF Way
<1>2. H \in Nat /\ snt \in Seq(Entry)
  BY DEF Sides
<1>3. Ordered(H, x, s, gn, g, snt, sx2, T, rd)
  BY <1>1, <1>2, OrderedSender
<1>4. QED
  BY <1>1, <1>3 DEF Way

(* The receiver's bytes, status and frame stay, the wire stays or is cleared. *)
Stirs(s, t, w, w2, gn, gn2) ==
  /\ SameBytes(s, t) /\ t.status = s.status /\ t.frame = s.frame
  /\ w2 = w \/ (w2 = <<>> /\ gn2)
  /\ gn => gn2

LEMMA OrderedMoved ==
  ASSUME NEW H, NEW x, NEW s, NEW t, NEW gn, NEW g, NEW snt, NEW sx, NEW T, NEW rd,
         t.status = s.status, t.frame = s.frame, Ordered(H, x, s, gn, g, snt, sx, T, rd)
  PROVE  Ordered(H, x, t, gn, g, snt, sx, T, rd)
<1>1. CASE sx.early
  BY <1>1 DEF Ordered, TooEarly
<1>2. CASE ~sx.early
  <2>1. PICK b, C, V, k : Story(H, x, gn, snt, sx, T, b, C, V) /\ Pos(H, ~Untied(sx), s, g, b, C, V, k, rd)
    BY <1>2 DEF Ordered
  <2>2. Pos(H, ~Untied(sx), t, g, b, C, V, k, rd)
    BY <2>1 DEF Pos
  <2>3. QED
    BY <1>2, <2>1, <2>2 DEF Ordered
<1>3. QED
  BY <1>1, <1>2

LEMMA WayStirs ==
  ASSUME NEW H, NEW x, NEW s, NEW t, NEW w, NEW w2, NEW o, NEW gn, NEW gn2, NEW g, NEW snt, NEW sx,
         Sides(H, s, w, o, gn, g, snt), Way(H, x, s, w, o, gn, g, snt, sx), Stirs(s, t, w, w2, gn, gn2), gn => gn2
  PROVE  Way(H, x, t, w2, o, gn2, g, snt, sx)
<1>1. PICK T, rd : Flow(s, w, o, gn, T, rd) /\ Ordered(H, x, s, gn, g, snt, sx, T, rd)
  BY DEF Way
<1>2. Ordered(H, x, s, gn2, g, snt, sx, T, rd)
  BY <1>1, OrderedGone
<1>3. t.status = s.status /\ t.frame = s.frame /\ SameBytes(s, t)
  BY DEF Stirs
<1>4. Ordered(H, x, t, gn2, g, snt, sx, T, rd)
  BY <1>2, <1>3, OrderedMoved
<1>5. Carries(s, w, T, rd) /\ Counts(s) /\ w \in Seq(Cell)
  BY <1>1 DEF Flow, Sides
<1>6. Carries(s, w2, T, rd)
  BY <1>5, CarriesCleared DEF Stirs
<1>7. Carries(t, w2, T, rd)
  BY <1>3, <1>6, CarriesMoved
<1>8. ~gn2 => w2 = w /\ t.left = s.left /\ ~gn
  BY DEF Stirs, SameBytes
<1>9. Flow(t, w2, o, gn2, T, rd)
  BY <1>1, <1>7, <1>8 DEF Flow
<1>10. QED
  BY <1>4, <1>9 DEF Way

(* n bytes arrive. *)
LEMMA WayFilled ==
  ASSUME NEW H, NEW x, NEW s, NEW t, NEW w, NEW w2, NEW o, NEW gn, NEW g, NEW snt, NEW sx, NEW n,
         Sides(H, s, w, o, gn, g, snt), Way(H, x, s, w, o, gn, g, snt, sx), Received(s, t, w, n),
         t.status = s.status, w2 = SubSeq(w, n + 1, Len(w))
  PROVE  Way(H, x, t, w2, o, gn, g, snt, sx)
<1>1. PICK T, rd : Flow(s, w, o, gn, T, rd) /\ Ordered(H, x, s, gn, g, snt, sx, T, rd)
  BY DEF Way
<1>2. t.frame = s.frame /\ t.left = s.left + n /\ n \in 1 .. Len(w)
  BY DEF Received
<1>3. Ordered(H, x, t, gn, g, snt, sx, T, rd)
  BY <1>1, <1>2, OrderedMoved
<1>4. Carries(s, w, T, rd) /\ Counts(s) /\ w \in Seq(Cell)
  BY <1>1 DEF Flow, Sides
<1>5. Carries(t, w2, T, rd)
  BY <1>4, CarriesFilled
<1>6. PICK l \in Nat, m \in Nat, r \in Nat : l = s.left /\ m = Len(w) /\ r = rd
  BY <1>4, LenProperties DEF Counts, Carries
<1>7. Len(w2) = m - n
  <2>1. n + 1 \in Nat \ {0} /\ m \in 0 .. Len(w) /\ n + 1 <= m + 1 /\ m - (n + 1) + 1 = m - n
    BY <1>2, <1>6
  <2>2. Len(SubSeq(w, n + 1, m)) = m - (n + 1) + 1
    BY <1>4, <2>1, PartOf
  <2>3. QED
    BY <1>6, <2>1, <2>2
<1>8. rd + t.left + Len(w2) = rd + s.left + Len(w)
  <2>1. r + (l + n) + (m - n) = r + l + m
    BY <1>2, <1>6
  <2>2. QED
    BY <1>2, <1>6, <1>7, <2>1
<1>9. Flow(t, w2, o, gn, T, rd)
  BY <1>1, <1>5, <1>8 DEF Flow
<1>10. QED
  BY <1>3, <1>9 DEF Way

(* n more bytes of the call that is running are put on the wire. *)
Moves(o, o2, w, w2, gn, n, p) ==
  /\ o \in OutType /\ o.calls # <<>> /\ n \in Nat /\ n <= Len(Head(o.calls)) - Written(o) /\ p \in Seq(Cell) /\ Len(p) = n
  /\ \A i \in 1 .. n : p[i] = Head(o.calls)[Written(o) + i]
  /\ w2 = w \o p /\ (gn => n = 0)
  /\ ~gn => \/ o2.calls = o.calls /\ Written(o2) = Written(o) + n
            \/ o2.calls = Tail(o.calls) /\ Written(o2) = 0 /\ n = Len(Head(o.calls)) - Written(o)

LEMMA WayWritten ==
  ASSUME NEW H, NEW x, NEW s, NEW w, NEW w2, NEW o, NEW o2, NEW gn, NEW g, NEW snt, NEW sx, NEW n, NEW p,
         Sides(H, s, w, o, gn, g, snt), Way(H, x, s, w, o, gn, g, snt, sx), Moves(o, o2, w, w2, gn, n, p)
  PROVE  Way(H, x, s, w2, o2, gn, g, snt, sx)
<1>1. PICK T, rd : Flow(s, w, o, gn, T, rd) /\ Ordered(H, x, s, gn, g, snt, sx, T, rd)
  BY DEF Way
<1>2. Carries(s, w, T, rd) /\ Counts(s) /\ w \in Seq(Cell)
  BY <1>1 DEF Flow, Sides
<1>3. CASE gn
  <2>1. p = <<>>
    BY <1>3, EmptySeq DEF Moves
  <2>2. w2 = w
    BY <1>2, <2>1, ConcatEmptySeq DEF Moves
  <2>3. Flow(s, w2, o2, gn, T, rd)
    BY <1>2, <1>3, <2>2 DEF Flow
  <2>4. QED
    BY <1>1, <2>3 DEF Way
<1>4. CASE ~gn
  <2>1. Laid(T, o, rd + s.left + Len(w))
    BY <1>1, <1>4 DEF Flow
  <2>2. /\ o \in OutType /\ o.calls # <<>> /\ n \in Nat /\ n <= Len(Head(o.calls)) - Written(o)
        /\ p \in Seq(Cell) /\ Len(p) = n /\ (\A i \in 1 .. n : p[i] = Head(o.calls)[Written(o) + i]) /\ w2 = w \o p
        /\ \/ o2.calls = o.calls /\ Written(o2) = Written(o) + n
           \/ o2.calls = Tail(o.calls) /\ Written(o2) = 0 /\ n = Len(Head(o.calls)) - Written(o)
    BY <1>4 DEF Moves
  <2>3. Carries(s, w \o p, T, rd) /\ Laid(T, o2, rd + s.left + Len(w \o p))
    BY <1>2, <2>1, <2>2, CarriesWritten
  <2>4. Flow(s, w2, o2, gn, T, rd)
    BY <2>2, <2>3 DEF Flow
  <2>5. QED
    BY <1>1, <2>4 DEF Way
<1>5. QED
  BY <1>3, <1>4 DEF Sides

-----------------------------------------------------------------------------
(* The receiver takes a turn *)

(* A turn of readMessages, whatever the end. *)
TurnKind(e, s, t, cb) ==
  \/ s.status = "TCP" /\ (RawWaits(e, s, t, cb) \/ RawStops(e, s, t, cb) \/ RawTakes(e, s, t, cb))
  \/ /\ s.status = "WebSocket"
     /\ \/ FrameWaits(e, s, t, cb) \/ FrameStops(e, s, t, cb) \/ FrameReads(e, s, t, cb)
        \/ FrameStays(e, s, t, cb) \/ FrameEnds(e, s, t, cb)
  \/ /\ s.status = "Connecting" /\ cb = <<>>
     /\ \/ UpgradeWaits(e, s, t, cb) \/ UpgradeStops(e, s, t, cb) \/ UpgradeRefused(e, s, t, cb)
        \/ \E status \in {"TCP", "WebSocket"} : Opened(e, s, t, status)

(* It ends the connection and says nothing. *)
Ends0(t, cb) == (t.pc \in Dead \/ Refused(t.frame)) /\ cb = <<>>

LEMMA MovedSameBytes ==
  ASSUME NEW s, NEW t, NEW N, Moved(s, t, N)
  PROVE  SameBytes(s, t) /\ t.status = s.status /\ t.frame = s.frame
BY DEF Moved, Kept, SameBytes

LEMMA LookedSameBytes ==
  ASSUME NEW e, NEW s, NEW u, NEW t, Looked(e, s, u), Compacted(e, u, t)
  PROVE  SameBytes(s, t) /\ t.status = s.status /\ t.frame = s.frame
BY DEF Looked, Compacted, Moved, Kept, SameBytes

(* A socket, its wire and what is said of its messages. *)
Receives(H, s, w, g, snt, sx) ==
  /\ Counts(s) /\ w \in Seq(Cell) /\ H \in {0, 1} /\ snt \in Seq(Entry) /\ g \in Seq(Entry)
  /\ s.status \in Status /\ (s.status # "Connecting" => sx.status = "Connecting" \/ sx.status = s.status)
  /\ Window(s) \in Seq(AnyCell) /\ Len(Window(s)) = s.left /\ s.frame \in FrameType /\ FrameFits(s)
  /\ s.status # "WebSocket" => s.frame = NewFrame
  /\ s.status = "Connecting" => H = 1
  /\ ~Refused(s.frame)

LEMMA TurnOn ==
  ASSUME NEW e, NEW t, NEW cb, NEW H, NEW x, NEW s, NEW w, NEW gn, NEW g, NEW snt, NEW sx, NEW T, NEW rd,
         NEW b, NEW C, NEW V, NEW k, Live(H, x, s, w, gn, g, snt, sx, T, rd, b, C, V, k),
         Receives(H, s, w, g, snt, sx), TurnKind(e, s, t, cb), cb \in Seq(Entry)
  PROVE  Ends0(t, cb) \/ ReadsOn(H, s, t, w, g, snt, sx, T, rd, b, C, V, cb)
<1>1. CASE s.status = "TCP"
  <2>1. CASE RawWaits(e, s, t, cb)
    <3>1. cb = <<>> /\ SameBytes(s, t) /\ t.status = s.status /\ t.frame = s.frame
      BY <2>1, MovedSameBytes DEF RawWaits, Compacted
    <3>2. QED
      BY <3>1, StaysOn
  <2>2. CASE RawStops(e, s, t, cb)
    BY <2>2 DEF RawStops, Halts, Ends0, Dead
  <2>3. CASE RawTakes(e, s, t, cb)
    BY <1>1, <2>3, RawReads
  <2>4. QED
    BY <1>1, <2>1, <2>2, <2>3 DEF TurnKind
<1>2. CASE s.status = "WebSocket"
  <2>1. CASE FrameWaits(e, s, t, cb)
    <3>1. cb = <<>> /\ SameBytes(s, t) /\ t.status = s.status /\ t.frame = s.frame
      BY <2>1, MovedSameBytes DEF FrameWaits, Compacted
    <3>2. QED
      BY <3>1, StaysOn
  <2>2. CASE FrameStops(e, s, t, cb)
    BY <2>2 DEF FrameStops, Halts, Ends0, Dead
  <2>3. CASE FrameReads(e, s, t, cb)
    <3>1. cb = <<>>
      BY <2>3 DEF FrameReads
    <3>2. CASE Refused(t.frame)
      BY <3>1, <3>2 DEF Ends0
    <3>3. CASE ~Refused(t.frame)
      BY <1>2, <2>3, <3>3, FrameReadsOn
    <3>4. QED
      BY <3>2, <3>3
  <2>4. CASE FrameStays(e, s, t, cb)
    BY <1>2, <2>4, FrameStaysOn DEF Receives
  <2>5. CASE FrameEnds(e, s, t, cb)
    BY <1>2, <2>5, FrameEndsOn
  <2>6. QED
    BY <1>2, <2>1, <2>2, <2>3, <2>4, <2>5 DEF TurnKind
<1>3. CASE s.status = "Connecting"
  <2>1. cb = <<>> /\ H = 1
    BY <1>3 DEF TurnKind, Receives
  <2>2. CASE UpgradeWaits(e, s, t, cb)
    <3>1. SameBytes(s, t) /\ t.status = s.status /\ t.frame = s.frame
      BY <2>2, LookedSameBytes DEF UpgradeWaits
    <3>2. QED
      BY <2>1, <3>1, StaysOn
  <2>3. CASE UpgradeStops(e, s, t, cb)
    BY <2>1, <2>3 DEF UpgradeStops, Halts, Ends0, Dead
  <2>4. CASE UpgradeRefused(e, s, t, cb)
    <3>1. SameBytes(s, t) /\ t.status = s.status /\ t.frame = s.frame
      BY <2>4, LookedSameBytes DEF UpgradeRefused
    <3>2. QED
      BY <2>1, <3>1, StaysOn
  <2>5. ASSUME NEW status \in {"TCP", "WebSocket"}, Opened(e, s, t, status)
        PROVE  ReadsOn(H, s, t, w, g, snt, sx, T, rd, b, C, V, cb)
    BY <1>3, <2>1, <2>5, OpensOn
  <2>6. QED
    BY <1>3, <2>2, <2>3, <2>4, <2>5 DEF TurnKind
<1>4. QED
  BY <1>1, <1>2, <1>3 DEF Receives, Status

LEMMA WayReads ==
  ASSUME NEW H, NEW x, NEW s, NEW t, NEW w, NEW o, NEW gn, NEW g, NEW snt, NEW sx, NEW T, NEW rd, NEW cb, NEW g2,
         NEW b, NEW C, NEW V, Flow(s, w, o, gn, T, rd), Story(H, x, gn, snt, sx, T, b, C, V), ~sx.early,
         ReadsOn(H, s, t, w, g, snt, sx, T, rd, b, C, V, cb), g2 = g \o cb
  PROVE  Way(H, x, t, w, o, gn, g2, snt, sx)
<1>1. PICK rd2, k2 : /\ Carries(t, w, T, rd2) /\ rd2 + t.left = rd + s.left
                     /\ Pos(H, ~Untied(sx), t, g2, b, C, V, k2, rd2)
  BY DEF ReadsOn
<1>2. Flow(t, w, o, gn, T, rd2)
  BY <1>1 DEF Flow
<1>3. QED
  BY <1>1, <1>2 DEF Way, Ordered

(* Frames that came too early are no upgrade header. *)
LEMMA EarlyUnread ==
  ASSUME NEW e, NEW s, NEW t, NEW w, NEW g, NEW gn, NEW T, NEW rd, NEW status, Carries(s, w, T, rd),
         TooEarly(s, g, gn, T, rd), Window(s) \in Seq(AnyCell), Len(Window(s)) = s.left, s.left \in Nat,
         s.frame = NewFrame, w \in Seq(Cell)
  PROVE  ~Opened(e, s, t, status)
<1>1. SUFFICES ASSUME Opened(e, s, t, status) PROVE FALSE
  OBVIOUS
<1>2. Whole(s) /\ HeaderEnd(s) \in 1 .. s.left
  BY <1>1 DEF Opened
<1>3. Window(s)[1][1] \in {"tx", "nl"} /\ Len(Header) <= s.left /\ Len(Header) >= 1 /\ Len(Header) \in Nat
  BY <1>2, WholeFacts
<1>4. PICK l \in Nat : l = s.left /\ l >= 1
  BY <1>3
<1>5. 1 \in 1 .. l /\ 0 + 1 = 1
  BY <1>4
<1>6. s.frame.st # "Done"
  BY NewFrameOK
<1>7. Window(s)[1] = T[1]
  <2>1. rd = 0 /\ Holds(s, T, rd, 1)
    BY <1>4, <1>5 DEF Carries, TooEarly
  <2>2. QED
    BY <1>5, <1>6, <2>1 DEF Holds
<1>8. T # <<>>
  <2>1. PICK m \in Nat, u \in Nat : m = Len(w) /\ u = Len(T) /\ 0 + l + m <= u
    BY <1>4, LenProperties DEF Carries, TooEarly
  <2>2. u # 0
    BY <1>4, <2>1
  <2>3. QED
    BY <2>1, <2>2
<1>9. T[1][1] = "h1"
  BY <1>8 DEF TooEarly
<1>10. QED
  BY <1>3, <1>7, <1>9

EarlyOn(e, s, t, cb, H, w, o, gn, g, g2, snt, sx, T, rd) ==
  /\ Receives(H, s, w, g, snt, sx) /\ TurnKind(e, s, t, cb) /\ cb \in Seq(Entry) /\ g2 = g \o cb /\ sx.early
  /\ Flow(s, w, o, gn, T, rd) /\ TooEarly(s, g, gn, T, rd)
EarlyStays(H, x, t, w, o, gn, g2, snt, sx, cb) == cb = <<>> /\ (Ends0(t, cb) \/ Way(H, x, t, w, o, gn, g2, snt, sx))

LEMMA EarlyTurn ==
  ASSUME NEW e, NEW t, NEW cb, NEW H, NEW x, NEW s, NEW w, NEW o, NEW gn, NEW g, NEW snt, NEW sx, NEW T, NEW rd, NEW g2,
         EarlyOn(e, s, t, cb, H, w, o, gn, g, g2, snt, sx, T, rd)
  PROVE  EarlyStays(H, x, t, w, o, gn, g2, snt, sx, cb)
<1>0. /\ Receives(H, s, w, g, snt, sx) /\ TurnKind(e, s, t, cb) /\ cb \in Seq(Entry) /\ g2 = g \o cb /\ sx.early
      /\ Flow(s, w, o, gn, T, rd) /\ TooEarly(s, g, gn, T, rd)
  BY DEF EarlyOn
<1>1. s.status = "Connecting"
  BY <1>0 DEF TooEarly
<1>2. cb = <<>>
  BY <1>0, <1>1 DEF TurnKind
<1>3. g2 = g
  <2>1. g \in Seq(Entry)
    BY <1>0 DEF Receives
  <2>2. QED
    BY <1>0, <1>2, <2>1, ConcatEmptySeq
<1>4. CASE SameBytes(s, t) /\ t.status = s.status /\ t.frame = s.frame
  <2>1. Carries(s, w, T, rd)
    BY <1>0 DEF Flow
  <2>2. Carries(t, w, T, rd)
    BY <1>4, <2>1, CarriesMoved
  <2>3. t.left = s.left
    BY <1>4 DEF SameBytes
  <2>4. Flow(t, w, o, gn, T, rd)
    BY <1>0, <2>2, <2>3 DEF Flow
  <2>5. TooEarly(t, g2, gn, T, rd)
    BY <1>0, <1>3, <1>4 DEF TooEarly
  <2>6. QED
    BY <1>0, <1>2, <2>4, <2>5 DEF Way, Ordered, EarlyStays
<1>5. CASE UpgradeWaits(e, s, t, cb)
  BY <1>4, <1>5, LookedSameBytes DEF UpgradeWaits, EarlyStays
<1>6. CASE UpgradeStops(e, s, t, cb)
  BY <1>2, <1>6 DEF UpgradeStops, Halts, Ends0, Dead, EarlyStays
<1>7. CASE UpgradeRefused(e, s, t, cb)
  BY <1>4, <1>7, LookedSameBytes DEF UpgradeRefused, EarlyStays
<1>8. ASSUME NEW status, Opened(e, s, t, status) PROVE FALSE
  <2>1. /\ Carries(s, w, T, rd) /\ Window(s) \in Seq(AnyCell) /\ Len(Window(s)) = s.left /\ s.left \in Nat
        /\ s.frame = NewFrame /\ w \in Seq(Cell)
    BY <1>0, <1>1 DEF Flow, Receives, Counts
  <2>2. QED
    BY <1>0, <1>8, <2>1, EarlyUnread
<1>9. UpgradeWaits(e, s, t, cb) \/ UpgradeStops(e, s, t, cb) \/ UpgradeRefused(e, s, t, cb)
  <2>1. \/ UpgradeWaits(e, s, t, cb) \/ UpgradeStops(e, s, t, cb) \/ UpgradeRefused(e, s, t, cb)
        \/ \E status \in {"TCP", "WebSocket"} : Opened(e, s, t, status)
    BY <1>0, <1>1 DEF TurnKind
  <2>2. QED
    BY <1>8, <2>1
<1>10. QED
  BY <1>5, <1>6, <1>7, <1>9

(* A turn of a receiver that is not lost. *)
LEMMA TurnWay ==
  ASSUME NEW e, NEW t, NEW cb, NEW H, NEW x, NEW s, NEW w, NEW o, NEW gn, NEW g, NEW snt, NEW sx, NEW g2,
         Receives(H, s, w, g, snt, sx), TurnKind(e, s, t, cb), cb \in Seq(Entry), g2 = g \o cb,
         Way(H, x, s, w, o, gn, g, snt, sx)
  PROVE  /\ Ends0(t, cb) \/ Way(H, x, t, w, o, gn, g2, snt, sx)
         /\ Gives(g, snt, sx, cb)
<1>1. PICK T, rd : Flow(s, w, o, gn, T, rd) /\ Ordered(H, x, s, gn, g, snt, sx, T, rd)
  BY DEF Way
<1>2. CASE sx.early
  <2>1. TooEarly(s, g, gn, T, rd)
    BY <1>1, <1>2 DEF Ordered
  <2>2. EarlyOn(e, s, t, cb, H, w, o, gn, g, g2, snt, sx, T, rd)
    BY <1>1, <1>2, <2>1 DEF EarlyOn
  <2>3. EarlyStays(H, x, t, w, o, gn, g2, snt, sx, cb)
    BY <2>2, EarlyTurn
  <2>4. QED
    BY <2>3 DEF Gives, EarlyStays
<1>3. CASE ~sx.early
  <2>1. PICK b, C, V, k : Story(H, x, gn, snt, sx, T, b, C, V) /\ Pos(H, ~Untied(sx), s, g, b, C, V, k, rd)
    BY <1>1, <1>3 DEF Ordered
  <2>2. Live(H, x, s, w, gn, g, snt, sx, T, rd, b, C, V, k)
    BY <1>1, <2>1 DEF Live, Receives, Flow
  <2>3. Ends0(t, cb) \/ ReadsOn(H, s, t, w, g, snt, sx, T, rd, b, C, V, cb)
    BY <2>2, TurnOn
  <2>4. CASE Ends0(t, cb)
    BY <2>4 DEF Ends0, Gives
  <2>5. CASE ReadsOn(H, s, t, w, g, snt, sx, T, rd, b, C, V, cb)
    <3>1. Way(H, x, t, w, o, gn, g2, snt, sx)
      BY <1>1, <1>3, <2>1, <2>5, WayReads
    <3>2. Gives(g, snt, sx, cb)
      BY <2>5 DEF ReadsOn
    <3>3. QED
      BY <3>1, <3>2
  <2>6. QED
    BY <2>3, <2>4, <2>5
<1>4. QED
  BY <1>2, <1>3

-----------------------------------------------------------------------------
(* The direction towards an end, in a state *)

(* The upgrade headers each end sends. *)
HeaderOf(e) == IF Cls(e) \in RawClass THEN 0 ELSE 1

Line(e, H, x, s, w, o, gn, g, snt, sx) ==
  /\ H = HeaderOf(e) /\ x = Peer(e) /\ s = sock[e] /\ w = wire[e] /\ o = out[Peer(e)] /\ gn = Gone(e)
  /\ g = got[e] /\ snt = sent[Peer(e)] /\ sx = sock[Peer(e)]

Incoming(e) ==
  Dir(HeaderOf(e), Peer(e), sock[e], wire[e], out[Peer(e)], Gone(e), got[e], sent[Peer(e)], sock[Peer(e)])

(* Lost, or in order. *)
Course(H, x, s, w, o, gn, g, snt, sx) == Lost(s, o, sx) \/ Way(H, x, s, w, o, gn, g, snt, sx)

LEMMA LineIs ==
  ASSUME NEW e, Incoming(e)
  PROVE  \E H, x, s, w, o, gn, g, snt, sx : Line(e, H, x, s, w, o, gn, g, snt, sx) /\ Course(H, x, s, w, o, gn, g, snt, sx)
<1>1. PICK H, x, s, w, o, gn, g, snt, sx : Line(e, H, x, s, w, o, gn, g, snt, sx)
  BY DEF Line
<1>2. Course(H, x, s, w, o, gn, g, snt, sx)
  BY <1>1 DEF Line, Incoming, Dir, Course, Way
<1>3. QED
  BY <1>1, <1>2

(* The same in the next state. *)
LineNext(e, H, x, s, w, o, gn, g, snt, sx) ==
  /\ H = HeaderOf(e)' /\ x = Peer(e) /\ s = sock'[e] /\ w = wire'[e] /\ o = out'[Peer(e)] /\ gn = Gone(e)'
  /\ g = got'[e] /\ snt = sent'[Peer(e)] /\ sx = sock'[Peer(e)]

LEMMA NextIs ==
  ASSUME NEW e, NEW H, NEW x, NEW s, NEW w, NEW o, NEW gn, NEW g, NEW snt, NEW sx,
         LineNext(e, H, x, s, w, o, gn, g, snt, sx), Course(H, x, s, w, o, gn, g, snt, sx)
  PROVE  Incoming(e)'
<1>1. Dir(H, x, s, w, o, gn, g, snt, sx)
  BY DEF Course, Dir, Way
<1>2. QED
  BY <1>1 DEF LineNext, Incoming, Peer

LEMMA LineTypes ==
  ASSUME Base, NEW e \in End, NEW H, NEW x, NEW s, NEW w, NEW o, NEW gn, NEW g, NEW snt, NEW sx,
         Line(e, H, x, s, w, o, gn, g, snt, sx)
  PROVE  Sides(H, s, w, o, gn, g, snt) /\ SockOK(e, s) /\ SockOK(x, sx) /\ x \in End /\ x # e
<1>1. Rest /\ SockOK(e, sock[e]) /\ SockOK(Peer(e), sock[Peer(e)]) /\ Peer(e) \in End /\ Peer(e) # e
  BY RestOf, SockOKOf, Ends
<1>2. Counts(sock[e])
  BY SockOKOf DEF Counts
<1>3. Gone(e) \in BOOLEAN
  BY <1>1 DEF Rest, Gone
<1>4. HeaderOf(e) \in {0, 1}
  BY DEF HeaderOf
<1>5. QED
  BY <1>1, <1>2, <1>3, <1>4 DEF Line, Sides, Rest

(* A receiver that is not lost. *)
LEMMA LineReceives ==
  ASSUME Base, NEW e \in End, NEW H, NEW x, NEW s, NEW w, NEW o, NEW gn, NEW g, NEW snt, NEW sx,
         Line(e, H, x, s, w, o, gn, g, snt, sx), ~Lost(s, o, sx)
  PROVE  Receives(H, s, w, g, snt, sx)
<1>1. Sides(H, s, w, o, gn, g, snt) /\ SockOK(e, s) /\ SockOK(x, sx)
  BY LineTypes
<1>2. SocksType /\ conf \in Configs /\ s = sock[e]
  BY SockOKOf DEF Line
<1>3. Window(s) \in Seq(AnyCell) /\ Len(Window(s)) = s.left /\ s \in SockType(Length(e)) /\ s.frame \in FrameType
  BY <1>2, SockOf, SockOKOf
<1>4. s.status \in Status
  BY <1>3, SockFacts
<1>5. s.status = "Connecting" => H = 1
  BY <1>1 DEF SockOK, Line, HeaderOf
<1>6. ~Refused(s.frame) /\ (s.status # "Connecting" => sx.status = "Connecting" \/ sx.status = s.status)
  BY DEF Lost
<1>7. FrameFits(s) /\ (s.status # "WebSocket" => s.frame = NewFrame)
  BY <1>1 DEF SockOK
<1>8. QED
  BY <1>1, <1>3, <1>4, <1>5, <1>6, <1>7 DEF Receives, Sides

(* What is lost stays lost. *)
Keeps(s, t) ==
  /\ s.pc \in Dead => t.pc \in Dead
  /\ Refused(s.frame) => Refused(t.frame)
  /\ s.status # "Connecting" => t.status = s.status

LEMMA LostStays ==
  ASSUME NEW s, NEW t, NEW o, NEW o2, NEW sx, NEW sx2, Lost(s, o, sx), Keeps(s, t), Keeps(sx, sx2), o.cut => o2.cut
  PROVE  Lost(t, o2, sx2)
<1>1. CASE o.cut
  BY <1>1 DEF Lost
<1>2. CASE s.pc \in Dead
  BY <1>2 DEF Lost, Keeps
<1>3. CASE Refused(s.frame)
  BY <1>3 DEF Lost, Keeps
<1>4. CASE s.status # "Connecting" /\ sx.status # "Connecting" /\ s.status # sx.status
  BY <1>4 DEF Lost, Keeps
<1>5. QED
  BY <1>1, <1>2, <1>3, <1>4 DEF Lost

LEMMA KeepsSame ==
  ASSUME NEW s
  PROVE  Keeps(s, s)
BY DEF Keeps

LEMMA KeepsMoved ==
  ASSUME NEW s, NEW t, t.status = s.status, t.frame = s.frame, s.pc \notin Dead
  PROVE  Keeps(s, t)
BY DEF Keeps

LEMMA GoneStays ==
  ASSUME \A x \in End : shut[x] => shut'[x], broken => broken', NEW e \in End
  PROVE  Gone(e) => Gone(e)'
BY Ends DEF Gone

LEMMA GoneSame ==
  ASSUME shut' = shut, broken' = broken, NEW e
  PROVE  Gone(e)' = Gone(e)
BY DEF Gone

LEMMA HeaderSame ==
  ASSUME conf' = conf, NEW e
  PROVE  HeaderOf(e)' = HeaderOf(e)
BY DEF HeaderOf, Cls

LEMMA SameSelf ==
  ASSUME NEW s
  PROVE  SameBytes(s, s)
BY DEF SameBytes

(* The sender keeps its history, its status and whether it has begun. *)
Alike(s, t) ==
  /\ t.status = s.status /\ t.frame = s.frame /\ t.early = s.early /\ t.frag = s.frag
  /\ t.pc = s.pc \/ (s.pc # "new" /\ t.pc # "new")

LEMMA AlikeMoved ==
  ASSUME NEW H, NEW x, NEW s, NEW t, Alike(s, t)
  PROVE  SenderMoved(H, x, s, t)
BY DEF Alike, SenderMoved, Started

LEMMA AlikeSelf ==
  ASSUME NEW s
  PROVE  Alike(s, s)
BY DEF Alike

(* The bytes stay where they are, or are lost with the connection. *)
Drifts(s, t, w, w2, gn, gn2, sx, sx2) ==
  Stirs(s, t, w, w2, gn, gn2) /\ Alike(sx, sx2) /\ Keeps(s, t) /\ Keeps(sx, sx2)

LEMMA CourseDrifts ==
  ASSUME NEW H, NEW x, NEW s, NEW t, NEW w, NEW w2, NEW o, NEW gn, NEW gn2, NEW g, NEW snt, NEW sx, NEW sx2,
         Sides(H, s, w, o, gn, g, snt), Course(H, x, s, w, o, gn, g, snt, sx), Drifts(s, t, w, w2, gn, gn2, sx, sx2)
  PROVE  Course(H, x, t, w2, o, gn2, g, snt, sx2)
<1>1. CASE Lost(s, o, sx)
  BY <1>1, LostStays DEF Drifts, Course
<1>2. CASE Way(H, x, s, w, o, gn, g, snt, sx)
  <2>1. SenderMoved(H, x, sx, sx2) /\ Stirs(s, t, w, w2, gn, gn2) /\ (gn => gn2)
    BY AlikeMoved DEF Drifts, Stirs
  <2>2. Way(H, x, s, w, o, gn, g, snt, sx2)
    BY <1>2, <2>1, WaySender
  <2>3. Way(H, x, t, w2, o, gn2, g, snt, sx2)
    BY <2>1, <2>2, WayStirs
  <2>4. QED
    BY <2>3 DEF Course
<1>3. QED
  BY <1>1, <1>2 DEF Course

LEMMA DriftSelf ==
  ASSUME NEW s, NEW w, NEW gn, NEW sx
  PROVE  Drifts(s, s, w, w, gn, gn, sx, sx)
BY SameSelf, AlikeSelf, KeepsSame DEF Drifts, Stirs

LEMMA ParkLine ==
  ASSUME Base, NEW a \in End, NEW t, Parks(a, t), NEW e \in End, Incoming(e)
  PROVE  Incoming(e)'
<1>1. PICK H, x, s, w, o, gn, g, snt, sx : Line(e, H, x, s, w, o, gn, g, snt, sx) /\ Course(H, x, s, w, o, gn, g, snt, sx)
  BY LineIs
<1>2. PICK t2, w2, gn2, sx2 : t2 = sock'[e] /\ w2 = wire'[e] /\ gn2 = Gone(e)' /\ sx2 = sock'[x]
  OBVIOUS
<1>3. Sides(H, s, w, o, gn, g, snt) /\ x \in End /\ x # e
  BY <1>1, LineTypes
<1>4. LineNext(e, H, x, t2, w2, o, gn2, g, snt, sx2)
  BY <1>1, <1>2, HeaderSame DEF Line, LineNext, Parks
<1>5. gn => gn2
  BY <1>1, <1>2, GoneStays DEF Line, Parks
<1>6. w2 = w \/ (w2 = <<>> /\ gn2)
  BY <1>1, <1>2 DEF Line, Parks, Gone
<1>7. SameBytes(sock[a], t) /\ Alike(sock[a], t) /\ Keeps(sock[a], t)
  <2>1. PICK pc \in Pcs : /\ Halts(a, sock[a], t, pc)
                          /\ pc = sock[a].pc \/ (sock[a].pc \in {"idle", "recv"} /\ pc \in {"idle", "recv", "closed"})
    BY DEF Parks
  <2>2. Moved(sock[a], t, Length(a)) /\ t.pc = pc
    BY <2>1 DEF Halts
  <2>3. SameBytes(sock[a], t) /\ t.status = sock[a].status /\ t.frame = sock[a].frame
    BY <2>2, MovedSameBytes
  <2>4. Alike(sock[a], t)
    BY <2>1, <2>2 DEF Moved, Kept, Alike
  <2>5. Keeps(sock[a], t)
    BY <2>1, <2>2, <2>3 DEF Keeps, Dead
  <2>6. QED
    BY <2>3, <2>4, <2>5
<1>8. sock' = [sock EXCEPT ![a] = t] /\ SocksType
  BY SockOKOf DEF Parks
<1>9. CASE e = a
  <2>1. s = sock[a] /\ t2 = t /\ sx2 = sx
    BY <1>1, <1>2, <1>3, <1>8, <1>9 DEF Line, SocksType
  <2>2. t.status = s.status /\ t.frame = s.frame
    BY <1>7, <2>1 DEF Alike
  <2>3. Drifts(s, t2, w, w2, gn, gn2, sx, sx2)
    BY <1>5, <1>6, <1>7, <2>1, <2>2, AlikeSelf, KeepsSame DEF Drifts, Stirs
  <2>4. QED
    BY <1>1, <1>3, <1>4, <2>3, CourseDrifts, NextIs
<1>10. CASE e # a
  <2>1. sx = sock[a] /\ sx2 = t /\ t2 = s
    BY <1>1, <1>2, <1>3, <1>8, <1>10, Ends DEF Line, SocksType
  <2>2. Drifts(s, t2, w, w2, gn, gn2, sx, sx2)
    BY <1>5, <1>6, <1>7, <2>1, SameSelf, KeepsSame DEF Drifts, Stirs
  <2>3. QED
    BY <1>1, <1>3, <1>4, <2>2, CourseDrifts, NextIs
<1>11. QED
  BY <1>9, <1>10

(* The upgrade header is sent by an end that has sent nothing. *)
LEMMA CourseLeads ==
  ASSUME NEW x, NEW s, NEW w, NEW o, NEW o2, NEW gn, NEW g, NEW snt, NEW sx, NEW sx2, Sides(1, s, w, o, gn, g, snt),
         Course(1, x, s, w, o, gn, g, snt, sx), Leading(x, sx, sx2), Calls(o, o2, << Header >>), o2.cut = o.cut, Keeps(sx, sx2)
  PROVE  Course(1, x, s, w, o2, gn, g, snt, sx2)
<1>1. CASE Lost(s, o, sx)
  BY <1>1, LostStays, KeepsSame DEF Course
<1>2. CASE Way(1, x, s, w, o, gn, g, snt, sx)
  BY <1>2, WayLeads DEF Course
<1>3. QED
  BY <1>1, <1>2 DEF Course

(* What a call of send begins with. *)
LEMMA CallsBegin ==
  ASSUME Rest, NEW a \in End, out[a].calls = <<>>, NEW calls \in Buffers, out' = [out EXCEPT ![a] = StartSend(@, calls, How(a))]
  PROVE  /\ Calls(out[a], out'[a], calls) /\ out'[a].cut = out[a].cut
         /\ \A x \in End : x # a => out'[x] = out[x]
<1>1. out[a] \in OutType /\ How(a) \in Loops
  BY DEF Rest, How, Loops
<1>2. PICK o : o = StartSend(out[a], calls, How(a))
  OBVIOUS
<1>3. o.calls = calls /\ Written(o) = 0 /\ o.cut = out[a].cut
  BY <1>1, <1>2, StartFacts
<1>4. out' = [out EXCEPT ![a] = o] /\ out \in [End -> OutType]
  BY <1>2 DEF Rest
<1>5. out'[a] = o /\ \A x \in End : x # a => out'[x] = out[x]
  BY <1>4
<1>6. QED
  BY <1>3, <1>5 DEF Calls

LEMMA HeaderBuffers ==
  << Header >> \in Buffers
BY HeaderFacts DEF Buffers

LEMMA StartLine ==
  ASSUME Base, NEW a \in End, NEW t, Starts(a, t), NEW e \in End, Incoming(e)
  PROVE  Incoming(e)'
<1>1. PICK H, x, s, w, o, gn, g, snt, sx : Line(e, H, x, s, w, o, gn, g, snt, sx) /\ Course(H, x, s, w, o, gn, g, snt, sx)
  BY LineIs
<1>2. PICK t2, o2, sx2 : t2 = sock'[e] /\ o2 = out'[x] /\ sx2 = sock'[x]
  OBVIOUS
<1>3. Sides(H, s, w, o, gn, g, snt) /\ x \in End /\ x # e
  BY <1>1, LineTypes
<1>4. LineNext(e, H, x, t2, w, o2, gn, g, snt, sx2)
  BY <1>1, <1>2, HeaderSame, GoneSame DEF Line, LineNext, Starts
<1>5. sock' = [sock EXCEPT ![a] = t] /\ SocksType /\ Rest
  BY SockOKOf, RestOf DEF Starts
<1>6. Moved(sock[a], t, Length(a)) /\ t.pc = "idle" /\ sock[a].pc = "new" /\ Cls(a) = "HBSocketClient"
  BY DEF Starts, Halts
<1>7. SameBytes(sock[a], t) /\ t.status = sock[a].status /\ t.frame = sock[a].frame
  BY <1>6, MovedSameBytes
<1>8. Keeps(sock[a], t)
  BY <1>6, <1>7 DEF Keeps, Dead
<1>9. /\ Calls(out[a], out'[a], << Header >>) /\ out'[a].cut = out[a].cut
      /\ \A y \in End : y # a => out'[y] = out[y]
  <2>1. out[a].calls = <<>>
    BY <1>6 DEF Base, StatusOK
  <2>2. out' = [out EXCEPT ![a] = StartSend(@, << Header >>, How(a))]
    BY DEF Starts
  <2>3. QED
    BY <1>5, <2>1, <2>2, CallsBegin, HeaderBuffers
<1>10. CASE e = a
  <2>1. s = sock[a] /\ t2 = t /\ sx2 = sx /\ o2 = o
    BY <1>1, <1>2, <1>3, <1>5, <1>9, <1>10 DEF Line, SocksType
  <2>2. Drifts(s, t2, w, w, gn, gn, sx, sx2)
    BY <1>7, <1>8, <2>1, AlikeSelf, KeepsSame DEF Drifts, Stirs
  <2>3. QED
    BY <1>1, <1>3, <1>4, <2>1, <2>2, CourseDrifts, NextIs
<1>11. CASE e # a
  <2>1. x = a /\ sx = sock[a] /\ sx2 = t /\ t2 = s /\ o = out[a] /\ o2 = out'[a]
    BY <1>1, <1>2, <1>3, <1>5, <1>11, Ends DEF Line, SocksType
  <2>2. conf \in Configs /\ a = "client"
    <3>1. conf \in Configs
      BY SockOKOf
    <3>2. conf.cls["server"] \in {"DataSocket", "DataSocketV", "HBDataSocket", "WebSocket"}
      BY <3>1, ConfFacts
    <3>3. QED
      BY <1>6, <3>1, <3>2 DEF Cls, End
  <2>3. sock[a].status = "Connecting"
    BY <1>6 DEF Base, StatusOK
  <2>4. H = 1
    <3>1. Cls(e) \notin RawClass
      BY <1>6, <1>11, <2>2, ConfFacts, Ends DEF Cls, RawClass
    <3>2. QED
      BY <1>1, <3>1 DEF Line, HeaderOf
  <2>5. Leading(x, sx, sx2)
    <3>1. sx2.early = sx.early /\ sx2.frag = sx.frag
      BY <1>6, <2>1 DEF Moved, Kept
    <3>2. ~Started(1, x, sx) /\ Started(1, x, sx2)
      BY <1>6, <2>1, <2>2 DEF Started
    <3>3. QED
      BY <2>1, <2>3, <3>1, <3>2 DEF Leading
  <2>6. Course(1, x, s, w, o2, gn, g, snt, sx2)
    BY <1>1, <1>3, <1>8, <1>9, <2>1, <2>4, <2>5, CourseLeads
  <2>7. QED
    BY <1>4, <2>1, <2>4, <2>6, NextIs
<1>12. QED
  BY <1>10, <1>11

(* A turn of a send loop. *)
LEMMA WriteLine ==
  ASSUME Base, NEW a \in End, NEW n \in Nat, UNCHANGED connVars, Writes(a, n), NEW e \in End, Incoming(e)
  PROVE  Incoming(e)'
<1>1. PICK H, x, s, w, o, gn, g, snt, sx : Line(e, H, x, s, w, o, gn, g, snt, sx) /\ Course(H, x, s, w, o, gn, g, snt, sx)
  BY LineIs
<1>2. PICK w2, o2 : w2 = wire'[e] /\ o2 = out'[x]
  OBVIOUS
<1>3. Sides(H, s, w, o, gn, g, snt) /\ x \in End /\ x # e
  BY <1>1, LineTypes
<1>4. LineNext(e, H, x, s, w2, o2, gn, g, snt, sx)
  BY <1>1, <1>2, HeaderSame, GoneSame DEF Line, LineNext, Writes, connVars
<1>5. Rest
  BY RestOf
<1>6. /\ \A y \in End : y # a => out'[y] = out[y]
      /\ \E p \in Seq(Cell) :
           /\ Len(p) = n /\ wire'[Peer(a)] = wire[Peer(a)] \o p /\ wire'[a] = wire[a]
           /\ \A i \in 1 .. n : p[i] = Head(out[a].calls)[Written(out[a]) + i]
  BY <1>5, WriteRest
<1>7. CASE e = a
  <2>1. w2 = w /\ o2 = o
    BY <1>1, <1>2, <1>3, <1>6, <1>7 DEF Line
  <2>2. QED
    BY <1>1, <1>4, <2>1, NextIs
<1>8. CASE e # a
  <2>1. x = a /\ e = Peer(a) /\ o = out[a] /\ w = wire[Peer(a)] /\ o2 = out'[a] /\ w2 = wire'[Peer(a)]
    BY <1>1, <1>2, <1>3, <1>8, Ends DEF Line
  <2>2. PICK p \in Seq(Cell) : Len(p) = n /\ w2 = w \o p /\ \A i \in 1 .. n : p[i] = Head(o.calls)[Written(o) + i]
    BY <1>6, <2>1
  <2>3. PICK q \in OutType :
          /\ out' = [out EXCEPT ![a] = q] /\ (out[a].cut => q.cut)
          /\ \/ q.cut
             \/ q.calls = out[a].calls /\ Written(q) = Written(out[a]) + n
             \/ /\ q.calls = Tail(out[a].calls) /\ Written(q) = 0
                /\ Gone(a) \/ n = Len(Head(out[a].calls)) - Written(out[a])
    BY DEF Writes
  <2>4. o2 = q
    BY <1>5, <2>1, <2>3 DEF Rest
  <2>5. Gone(a) <=> gn
    BY <1>1, <2>1, Ends DEF Line, Gone
  <2>6. CASE q.cut
    BY <1>4, <2>4, <2>6, NextIs DEF Course, Lost
  <2>7. CASE Lost(s, o, sx)
    <3>1. o.cut => o2.cut
      BY <2>1, <2>3, <2>4
    <3>2. Lost(s, o2, sx)
      BY <2>7, <3>1, LostStays, KeepsSame
    <3>3. QED
      BY <1>4, <3>2, NextIs DEF Course
  <2>8. CASE ~q.cut /\ Way(H, x, s, w, o, gn, g, snt, sx)
    <3>1. out[a].calls # <<>> /\ n \in 0 .. Len(Head(out[a].calls)) - Written(out[a]) /\ (Gone(a) => n = 0)
      BY DEF Writes
    <3>2. o \in OutType /\ o.calls # <<>> /\ (gn => n = 0)
      BY <1>3, <2>1, <2>5, <3>1 DEF Sides
    <3>3. n <= Len(Head(o.calls)) - Written(o)
      BY <2>1, <3>1
    <3>4. ~gn => \/ o2.calls = o.calls /\ Written(o2) = Written(o) + n
                 \/ o2.calls = Tail(o.calls) /\ Written(o2) = 0 /\ n = Len(Head(o.calls)) - Written(o)
      BY <2>1, <2>3, <2>4, <2>5, <2>8
    <3>5. Moves(o, o2, w, w2, gn, n, p)
      BY <2>2, <3>2, <3>3, <3>4 DEF Moves
    <3>6. Way(H, x, s, w2, o2, gn, g, snt, sx)
      BY <1>3, <2>8, <3>5, WayWritten
    <3>7. QED
      BY <1>4, <3>6, NextIs DEF Course
  <2>9. QED
    BY <1>1, <2>6, <2>7, <2>8 DEF Course
<1>9. QED
  BY <1>7, <1>8

(* Bytes arrive. *)
LEMMA ArriveLine ==
  ASSUME Base, NEW a \in End, NEW t, NEW n, Arrives(a, t, n), NEW e \in End, Incoming(e)
  PROVE  Incoming(e)'
<1>1. PICK H, x, s, w, o, gn, g, snt, sx : Line(e, H, x, s, w, o, gn, g, snt, sx) /\ Course(H, x, s, w, o, gn, g, snt, sx)
  BY LineIs
<1>2. PICK t2, w2, sx2 : t2 = sock'[e] /\ w2 = wire'[e] /\ sx2 = sock'[x]
  OBVIOUS
<1>3. Sides(H, s, w, o, gn, g, snt) /\ x \in End /\ x # e /\ SockOK(e, s)
  BY <1>1, LineTypes
<1>4. LineNext(e, H, x, t2, w2, o, gn, g, snt, sx2)
  BY <1>1, <1>2, HeaderSame, GoneSame DEF Line, LineNext, Arrives
<1>5. sock' = [sock EXCEPT ![a] = t] /\ SocksType /\ Rest
  BY SockOKOf, RestOf DEF Arrives
<1>6. wire'[a] = SubSeq(wire[a], n + 1, Len(wire[a])) /\ \A y \in End : y # a => wire'[y] = wire[y]
  BY <1>5 DEF Arrives, Rest
<1>7. sock[a].pc = "recv" /\ Fills(a, sock[a], t, n) /\ n \in 1 .. Len(wire[a])
  BY DEF Arrives
<1>8. t.status = sock[a].status /\ t.frame = sock[a].frame /\ t.early = sock[a].early /\ t.frag = sock[a].frag /\ t.pc # "new"
  BY <1>7 DEF Fills, Halts, Moved, Kept
<1>9. CASE e = a
  <2>1. s = sock[a] /\ t2 = t /\ sx2 = sx /\ w = wire[a] /\ w2 = SubSeq(w, n + 1, Len(w))
    BY <1>1, <1>2, <1>3, <1>5, <1>6, <1>9 DEF Line, SocksType
  <2>2. CASE t.pc = "overrun"
    BY <1>4, <2>1, <2>2, NextIs DEF Course, Lost, Dead
  <2>3. CASE Lost(s, o, sx)
    <3>1. Keeps(s, t2)
      BY <1>7, <1>8, <2>1, KeepsMoved DEF Dead
    <3>2. Lost(t2, o, sx2)
      BY <2>1, <2>3, <3>1, LostStays, KeepsSame
    <3>3. QED
      BY <1>4, <3>2, NextIs DEF Course
  <2>4. CASE t.pc # "overrun" /\ Way(H, x, s, w, o, gn, g, snt, sx)
    <3>1. /\ t.left = s.left + n
          /\ \A i \in 1 .. s.left : Window(t)[i] = Window(s)[i]
          /\ \A i \in 1 .. n : Window(t)[s.left + i] = w[i]
      BY <1>7, <2>1, <2>4 DEF Fills, Halts
    <3>2. s.frame.st = "Done" => s.frame.length <= s.left
      BY <1>3 DEF SockOK, FrameFits
    <3>3. Received(s, t2, w, n) /\ t2.status = s.status
      BY <1>7, <1>8, <2>1, <3>1, <3>2 DEF Received
    <3>4. Way(H, x, t2, w2, o, gn, g, snt, sx)
      BY <1>3, <2>1, <2>4, <3>3, WayFilled
    <3>5. QED
      BY <1>4, <2>1, <3>4, NextIs DEF Course
  <2>5. QED
    BY <1>1, <2>2, <2>3, <2>4 DEF Course
<1>10. CASE e # a
  <2>1. sx = sock[a] /\ sx2 = t /\ t2 = s /\ w2 = w
    BY <1>1, <1>2, <1>3, <1>5, <1>6, <1>10, Ends DEF Line, SocksType
  <2>2. Alike(sx, sx2) /\ Keeps(sx, sx2)
    BY <1>7, <1>8, <2>1, KeepsMoved DEF Alike, Dead
  <2>3. Drifts(s, t2, w, w2, gn, gn, sx, sx2)
    BY <2>1, <2>2, SameSelf, KeepsSame DEF Drifts, Stirs
  <2>4. QED
    BY <1>1, <1>3, <1>4, <2>3, CourseDrifts, NextIs
<1>11. QED
  BY <1>9, <1>10

-----------------------------------------------------------------------------
(* A message is sent *)

(* A raw message is one unit. *)
LEMMA SaysPlain ==
  ASSUME NEW v \in Descr, v.op = Binary, v.key = 0, NEW c, NEW body \in Seq(Cell), NEW n \in Nat, n = v.n, n = Len(body),
         NEW k \in Nat, k = Len(c), \A i \in 1 .. n : c[(k - n) + i] = body[i]
  PROVE  [op |-> Binary, body |-> body] = Says(v, c)
<1>1. PICK B : B = [i \in 1 .. v.n |-> Unmasked(c[(Len(c) - v.n) + i], v.key)]
  OBVIOUS
<1>2. ASSUME NEW i \in 1 .. n PROVE B[i] = body[i]
  <2>1. B[i] = Unmasked(c[(k - n) + i], 0)
    BY <1>1
  <2>2. QED
    BY <2>1 DEF Unmasked
<1>3. body \in [1 .. n -> Cell]
  BY LenProperties
<1>4. body = B
  BY <1>1, <1>2, <1>3
<1>5. Says(v, c) = Seen(Binary, body)
  BY <1>1, <1>4 DEF Says
<1>6. Binary \notin {PongOp, CloseOp} /\ Binary # Text
  BY DEF Binary, PongOp, CloseOp, Text
<1>7. QED
  BY <1>5, <1>6 DEF Seen

RawSent(c, body, n) ==
  /\ n \in Nat /\ body \in Seq(Cell) /\ Len(body) = n /\ c \in Seq(Cell) /\ Len(c) = n + 1
  /\ c[1][1] = "sz" /\ c[1][3] \in {0, n + 1} /\ \A i \in 1 .. n : c[i + 1] = body[i]

LEMMA RawIsUnit ==
  ASSUME NEW c, NEW body, NEW n, RawSent(c, body, n)
  PROVE  \E v \in Descr : RawUnit(v, c) /\ TheUnit(v, c, [op |-> Binary, body |-> body])
<1>1. /\ n \in Nat /\ body \in Seq(Cell) /\ Len(body) = n /\ c \in Seq(Cell) /\ Len(c) = n + 1
      /\ c[1][1] = "sz" /\ c[1][3] \in {0, n + 1} /\ \A i \in 1 .. n : c[i + 1] = body[i]
  BY DEF RawSent
<1>2. PICK v : v = [fin |-> TRUE, op |-> Binary, n |-> n, key |-> 0]
  OBVIOUS
<1>3. Binary \in Nat /\ Binary \in Opcode /\ 0 \in Keys
  BY WidthAssumption DEF Binary, Opcode
<1>4. v \in Descr /\ v.fin /\ v.op = Binary /\ v.n = n /\ v.key = 0
  BY <1>1, <1>2, <1>3 DEF Descr
<1>5. RawUnit(v, c)
  BY <1>1, <1>4 DEF RawUnit
<1>6. PICK k \in Nat : k = Len(c) /\ k = n + 1
  BY <1>1
<1>7. ASSUME NEW i \in 1 .. n PROVE c[(k - n) + i] = body[i]
  <2>1. (k - n) + i = i + 1
    BY <1>1, <1>6
  <2>2. QED
    BY <1>1, <2>1
<1>8. [op |-> Binary, body |-> body] = Says(v, c)
  BY <1>1, <1>4, <1>6, <1>7, SaysPlain
<1>9. QED
  BY <1>3, <1>4, <1>5, <1>8 DEF TheUnit

(* What the raw message of e is. *)
LEMMA RawOfMessage ==
  ASSUME BufferType, NEW e \in End, NEW id \in Ids
  PROVE  RawSent(Raw(e, id), Payload(e, id), Message[id].n)
<1>1. PICK n \in Nat : n = Message[id].n
  BY MessageFacts
<1>2. PICK z : z = IF Message[id].zero THEN 0 ELSE n + 1
  OBVIOUS
<1>3. z \in {0, n + 1}
  BY <1>2
<1>4. Raw(e, id) \in Seq(Cell) /\ Raw(e, id)[1] = <<"sz", id, z>> /\ \A i \in 1 .. n : Raw(e, id)[i + 1] = Payload(e, id)[i]
  BY <1>1, <1>2, RawFacts
<1>5. Len(Raw(e, id)) = n + 1
  BY <1>1, RawFacts
<1>6. Payload(e, id) \in Seq(Cell) /\ Len(Payload(e, id)) = n
  BY <1>1, PayloadFacts
<1>7. Raw(e, id)[1][1] = "sz" /\ Raw(e, id)[1][3] = z
  BY <1>4
<1>8. RawSent(Raw(e, id), Payload(e, id), n)
  BY <1>3, <1>4, <1>5, <1>6, <1>7 DEF RawSent
<1>9. QED
  BY <1>1, <1>8

(* The sender a, which is in no call, calls send on these buffers. *)
SendsNow(a, calls, entry) ==
  /\ a \in End /\ calls \in Buffers /\ out[a].calls = <<>> /\ Sending(a, calls, entry)

LEMMA SendingFacts ==
  ASSUME Rest, NEW a \in End, NEW calls, NEW entry, SendsNow(a, calls, entry)
  PROVE  /\ Calls(out[a], out'[a], calls) /\ out'[a].cut = out[a].cut /\ \A y \in End : y # a => out'[y] = out[y]
         /\ sent'[a] = sent[a] \o entry /\ \A y \in End : y # a => sent'[y] = sent[y]
         /\ wire' = wire /\ shut' = shut /\ broken' = broken /\ conf' = conf /\ got' = got
<1>1. out' = [out EXCEPT ![a] = StartSend(@, calls, How(a))] /\ calls \in Buffers /\ out[a].calls = <<>>
  BY DEF SendsNow, Sending
<1>2. Calls(out[a], out'[a], calls) /\ out'[a].cut = out[a].cut /\ \A y \in End : y # a => out'[y] = out[y]
  BY <1>1, CallsBegin
<1>3. sent'[a] = sent[a] \o entry /\ \A y \in End : y # a => sent'[y] = sent[y]
  BY DEF Rest, SendsNow, Sending
<1>4. QED
  BY <1>2, <1>3 DEF SendsNow, Sending

(* One message, whatever the sender is. *)
CourseSends(H, x, sx, sx2, snt, snt2, m, calls, D, U) ==
  \/ SendsUnits(H, x, sx, sx2, snt, snt2, m, calls, D, U)
  \/ H = 1 /\ SendsEarly(x, sx, sx2, calls, D, U[1])

LEMMA CourseGrows ==
  ASSUME NEW H, NEW x, NEW s, NEW w, NEW o, NEW o2, NEW gn, NEW g, NEW snt, NEW snt2, NEW sx, NEW sx2, NEW m,
         NEW calls, NEW D, NEW U, Sides(H, s, w, o, gn, g, snt), Course(H, x, s, w, o, gn, g, snt, sx),
         Calls(o, o2, calls), o2.cut = o.cut, Keeps(sx, sx2), CourseSends(H, x, sx, sx2, snt, snt2, m, calls, D, U)
  PROVE  Course(H, x, s, w, o2, gn, g, snt2, sx2)
<1>1. CASE Lost(s, o, sx)
  BY <1>1, LostStays, KeepsSame DEF Course
<1>2. CASE Way(H, x, s, w, o, gn, g, snt, sx) /\ SendsUnits(H, x, sx, sx2, snt, snt2, m, calls, D, U)
  BY <1>2, WayUnits DEF Course
<1>3. CASE Way(H, x, s, w, o, gn, g, snt, sx) /\ H = 1 /\ SendsEarly(x, sx, sx2, calls, D, U[1])
  <2>1. PICK v : v = U[1]
    OBVIOUS
  <2>2. Way(1, x, s, w, o, gn, g, snt, sx) /\ Sides(1, s, w, o, gn, g, snt) /\ SendsEarly(x, sx, sx2, calls, D, v)
    BY <1>3, <2>1
  <2>3. Way(1, x, s, w, o2, gn, g, snt2, sx2)
    BY <2>2, WayEarly
  <2>4. QED
    BY <1>3, <2>3 DEF Course
<1>4. QED
  BY <1>1, <1>2, <1>3 DEF Course, CourseSends

(* The directions of an end that sends a message m as the units D. *)
LEMMA SendLine ==
  ASSUME Base, NEW a \in End, NEW t, NEW m, NEW calls, NEW D, NEW U, SendsNow(a, calls, << m >>), m \in Entry,
         sock' = [sock EXCEPT ![a] = t], SameBytes(sock[a], t), t.status = sock[a].status, t.frame = sock[a].frame,
         t.pc = sock[a].pc, sock[a].pc = "idle",
         \A snt2 : snt2 = Append(sent[a], m) =>
           CourseSends(HeaderOf(Peer(a)), a, sock[a], t, sent[a], snt2, m, calls, D, U),
         NEW e \in End, Incoming(e)
  PROVE  Incoming(e)'
<1>1. PICK H, x, s, w, o, gn, g, snt, sx : Line(e, H, x, s, w, o, gn, g, snt, sx) /\ Course(H, x, s, w, o, gn, g, snt, sx)
  BY LineIs
<1>2. PICK t2, o2, snt2, sx2 : t2 = sock'[e] /\ o2 = out'[x] /\ snt2 = sent'[x] /\ sx2 = sock'[x]
  OBVIOUS
<1>3. Sides(H, s, w, o, gn, g, snt) /\ x \in End /\ x # e
  BY <1>1, LineTypes
<1>4. SocksType /\ Rest
  BY SockOKOf, RestOf
<1>5. /\ Calls(out[a], out'[a], calls) /\ out'[a].cut = out[a].cut /\ \A y \in End : y # a => out'[y] = out[y]
      /\ sent'[a] = sent[a] \o << m >> /\ \A y \in End : y # a => sent'[y] = sent[y]
      /\ wire' = wire /\ shut' = shut /\ broken' = broken /\ conf' = conf /\ got' = got
  BY <1>4, SendingFacts
<1>6. LineNext(e, H, x, t2, w, o2, gn, g, snt2, sx2)
  BY <1>1, <1>2, <1>5, HeaderSame, GoneSame DEF Line, LineNext
<1>7. Keeps(sock[a], t)
  BY KeepsMoved DEF Dead
<1>8. CASE e = a
  <2>1. s = sock[a] /\ t2 = t /\ sx2 = sx /\ o2 = o /\ snt2 = snt
    BY <1>1, <1>2, <1>3, <1>4, <1>5, <1>8 DEF Line, SocksType
  <2>2. Drifts(s, t2, w, w, gn, gn, sx, sx2)
    BY <1>7, <2>1, AlikeSelf, KeepsSame DEF Drifts, Stirs
  <2>3. QED
    BY <1>1, <1>3, <1>6, <2>1, <2>2, CourseDrifts, NextIs
<1>9. CASE e # a
  <2>1. x = a /\ e = Peer(a) /\ sx = sock[a] /\ sx2 = t /\ t2 = s /\ o = out[a] /\ o2 = out'[a] /\ snt = sent[a] /\ snt2 = sent'[a]
    BY <1>1, <1>2, <1>3, <1>4, <1>9, Ends DEF Line, SocksType
  <2>2. snt2 = Append(snt, m)
    BY <1>3, <1>5, <2>1, AppendIsConcat DEF Sides
  <2>3. CourseSends(H, x, sx, sx2, snt, snt2, m, calls, D, U)
    BY <1>1, <2>1, <2>2 DEF Line
  <2>4. Calls(o, o2, calls) /\ o2.cut = o.cut /\ Keeps(sx, sx2)
    BY <1>5, <1>7, <2>1
  <2>5. Course(H, x, s, w, o2, gn, g, snt2, sx2)
    BY <1>1, <1>3, <2>3, <2>4, CourseGrows
  <2>6. QED
    BY <1>6, <2>1, <2>5, NextIs
<1>10. QED
  BY <1>8, <1>9

LEMMA SendRawLine ==
  ASSUME Base, NEW a \in End, SendsRaw(a), NEW e \in End, Incoming(e)
  PROVE  Incoming(e)'
<1> DEFINE id == conf.script[a][next[a]]
           m == [op |-> Binary, body |-> Payload(a, id)]
           c == Raw(a, id)
<1>1. Rest /\ SockOK(a, sock[a]) /\ SocksType /\ sock[a] \in SockType(Length(a)) /\ conf \in Configs
  BY RestOf, SockOKOf
<1>2. id \in Ids /\ sock[a].pc = "idle" /\ BufferType /\ out[a].calls = <<>>
  BY <1>1, ScriptId DEF SendsRaw, Rest
<1>3. Sending(a, << c >>, << m >>) /\ sock' = sock
  BY DEF SendsRaw, SendRaw
<1> HIDE DEF id
<1>4. << c >> \in Buffers
  BY <1>2, RawFacts DEF Buffers
<1>5. m \in Entry
  <2>1. Text \in Opcode
    BY DEF Opcode
  <2>2. QED
    BY <1>2, <2>1, PayloadEntry
<1>6. PICK v \in Descr : RawUnit(v, c) /\ TheUnit(v, c, m)
  <2>1. RawSent(c, Payload(a, id), Message[id].n)
    BY <1>2, RawOfMessage
  <2>2. QED
    BY <2>1, RawIsUnit
<1> HIDE DEF m, c
<1>7. PICK D, U : D = << c >> /\ U = << v >>
  OBVIOUS
<1>8. D \in Buffers /\ U \in Seq(Descr) /\ Len(D) = 1 /\ Len(U) = 1 /\ D[1] = c /\ U[1] = v
  BY <1>4, <1>7
<1>9. sock' = [sock EXCEPT ![a] = sock[a]]
  BY <1>1, <1>3, SockWith
<1>10. PICK s : s = sock[a]
  OBVIOUS
<1>11. s.status = "TCP" /\ ~s.early
  <2>1. s.status = "TCP"
    BY <1>10 DEF SendsRaw
  <2>2. ~s.early
    <3>1. CASE Cls(a) = "WebSocket"
      <4>1. a = "server"
        BY <1>1, <3>1, ConfFacts, Ends DEF Cls, End
      <4>2. Cls(a) \notin RawClass
        BY <3>1 DEF RawClass
      <4>3. s.status = "WebSocket"
        BY <1>1, <1>10, <2>1, <3>1, <4>1, <4>2 DEF SockOK, Proper
      <4>4. QED
        BY <2>1, <4>3
    <3>2. CASE Cls(a) # "WebSocket"
      BY <1>1, <1>10, <3>2 DEF SockOK
    <3>3. QED
      BY <3>1, <3>2
  <2>3. QED
    BY <2>1, <2>2
<1>12. PICK H : H = HeaderOf(Peer(a))
  OBVIOUS
<1>13. Started(H, a, s)
  BY <1>2, <1>10, <1>11 DEF Started
<1>14. SameCells(<< c >>, D)
  BY <1>4, <1>7, SameCellsSelf
<1>15. ASSUME NEW snt2, snt2 = Append(sent[a], m)
       PROVE  CourseSends(H, a, s, s, sent[a], snt2, m, << c >>, D, U)
  <2>1. \A j \in 1 .. Len(D) : IF s.status = "TCP" THEN RawUnit(U[j], D[j]) ELSE FrameUnit(U[j], D[j])
    <3>1. ASSUME NEW j \in 1 .. Len(D) PROVE RawUnit(U[j], D[j])
      <4>1. j = 1
        BY <1>8, <3>1
      <4>2. QED
        BY <1>6, <1>8, <4>1
    <3>2. QED
      BY <1>11, <3>1
  <2>2. \A T \in Seq(Cell) : \E T2, d, d2 : Laying(T, << c >>, T2, d) /\ Laying(T, D, T2, d2)
    BY <1>14 DEF SameCells
  <2>3. Len(U) = Len(D) /\ Len(D) = 1 /\ TheUnit(U[1], D[1], m)
    BY <1>6, <1>8
  <2>4. SendsUnits(H, a, s, s, sent[a], snt2, m, << c >>, D, U)
    BY <1>4, <1>5, <1>8, <1>11, <1>13, <1>15, <2>1, <2>2, <2>3 DEF SendsUnits
  <2>5. QED
    BY <2>4 DEF CourseSends
<1>16. SendsNow(a, << c >>, << m >>)
  BY <1>2, <1>3, <1>4 DEF SendsNow, m, c
<1>17. SameBytes(sock[a], s) /\ s.status = sock[a].status /\ s.frame = sock[a].frame /\ s.pc = sock[a].pc
  BY <1>10, SameSelf
<1>18. \A snt2 : snt2 = Append(sent[a], m) => CourseSends(HeaderOf(Peer(a)), a, sock[a], s, sent[a], snt2, m, << c >>, D, U)
  BY <1>10, <1>12, <1>15
<1>19. QED
  BY <1>2, <1>5, <1>9, <1>10, <1>16, <1>17, <1>18, SendLine

LEMMA SendNothingLine ==
  ASSUME Base, NEW a \in End, SendsNothing(a), NEW e \in End, Incoming(e)
  PROVE  Incoming(e)'
<1>1. PICK H, x, s, w, o, gn, g, snt, sx : Line(e, H, x, s, w, o, gn, g, snt, sx) /\ Course(H, x, s, w, o, gn, g, snt, sx)
  BY LineIs
<1>2. PICK o2, snt2 : o2 = out'[x] /\ snt2 = sent'[x]
  OBVIOUS
<1>3. Sides(H, s, w, o, gn, g, snt) /\ x \in End /\ x # e
  BY <1>1, LineTypes
<1>4. Rest
  BY RestOf
<1>5. sock' = sock /\ SendsNow(a, <<>>, <<>>)
  <2>1. Sending(a, <<>>, <<>>) /\ sock' = sock /\ out[a].calls = <<>>
    BY ScriptId DEF SendsNothing, SendNothing
  <2>2. <<>> \in Buffers
    BY DEF Buffers
  <2>3. QED
    BY <2>1, <2>2 DEF SendsNow
<1>6. /\ Calls(out[a], out'[a], <<>>) /\ out'[a].cut = out[a].cut /\ \A y \in End : y # a => out'[y] = out[y]
      /\ sent'[a] = sent[a] \o <<>> /\ \A y \in End : y # a => sent'[y] = sent[y]
      /\ wire' = wire /\ shut' = shut /\ broken' = broken /\ conf' = conf /\ got' = got
  BY <1>4, <1>5, SendingFacts
<1>7. snt2 = snt
  <2>1. snt \in Seq(Entry) /\ snt = sent[x] /\ snt2 = sent'[x]
    BY <1>1, <1>2, <1>3 DEF Line, Sides
  <2>2. CASE x = a
    BY <1>6, <2>1, <2>2, ConcatEmptySeq
  <2>3. CASE x # a
    BY <1>3, <1>6, <2>1, <2>3
  <2>4. QED
    BY <2>2, <2>3
<1>8. LineNext(e, H, x, s, w, o2, gn, g, snt, sx)
  BY <1>1, <1>2, <1>5, <1>6, <1>7, HeaderSame, GoneSame DEF Line, LineNext
<1>9. CASE x = a
  <2>1. Calls(o, o2, <<>>) /\ o2.cut = o.cut
    BY <1>1, <1>2, <1>6, <1>9 DEF Line
  <2>2. CASE Lost(s, o, sx)
    BY <1>8, <2>1, <2>2, LostStays, KeepsSame, NextIs DEF Course
  <2>3. CASE Way(H, x, s, w, o, gn, g, snt, sx)
    BY <1>3, <1>8, <2>1, <2>3, WayNothing, NextIs DEF Course
  <2>4. QED
    BY <1>1, <2>2, <2>3 DEF Course
<1>10. CASE x # a
  <2>1. o2 = o
    BY <1>1, <1>2, <1>3, <1>6, <1>10 DEF Line
  <2>2. QED
    BY <1>1, <1>8, <2>1, NextIs
<1>11. QED
  BY <1>9, <1>10

(* The frames of a message, as units. *)
LEMMA FramedUnits ==
  ASSUME BufferType, NEW a \in End, NEW id, NEW key, NEW calls, Framed(a, id, key, calls), NEW F,
         F = numFrames(Message[id].n, MaxMessageSize), NEW op, op = Message[id].op, NEW body, body = Payload(a, id)
  PROVE  F \in Nat \ {0} /\ \E D, U : UnitsOf(calls, F, op, body, D, U)
<1>1. id \in Ids /\ calls \in Buffers
  BY DEF Framed
<1>2. PICK n \in Nat : n = Message[id].n
  BY <1>1, MessageFacts
<1>3. op \in Opcode /\ op \in Nat
  BY <1>1, MessageFacts
<1>4. body \in Seq(Cell) /\ Len(body) = n /\ \A i \in 1 .. n : PlainCell(body[i])
  BY <1>1, <1>2, PayloadFacts
<1>5. PICK M \in Nat \ {0} : M = MaxMessageSize
  BY MessageAssumption
<1>6. SendMsgCall(body, op, M, n, F, key, calls)
  BY <1>2, <1>3, <1>4, <1>5 DEF SendMsgCall, Framed
<1>7. SendMsgMakes(body, op, M, n, F, key, calls)
  BY <1>6, SendMsgFacts
<1>8. F \in Nat \ {0}
  BY <1>7 DEF SendMsgMakes
<1>9. CASE n = 0
  BY <1>1, <1>3, <1>6, <1>7, <1>8, <1>9, UnitEmpty
<1>10. CASE n # 0
  BY <1>1, <1>3, <1>6, <1>7, <1>8, <1>10, UnitFrames
<1>11. QED
  BY <1>9, <1>10

(* What sending frames does to the socket s of a. *)
FramesMark(a, s, t, early, frag) ==
  /\ t.status = s.status /\ t.pc = s.pc /\ t.frame = s.frame /\ SameBytes(s, t)
  /\ t.early = early /\ t.frag = frag

LEMMA FramesSocket ==
  ASSUME Base, NEW a \in End, CanSend(a), NEW early \in BOOLEAN, NEW frag \in BOOLEAN,
         sock' = [sock EXCEPT ![a].early = early, ![a].frag = frag]
  PROVE  \E t : sock' = [sock EXCEPT ![a] = t] /\ FramesMark(a, sock[a], t, early, frag)
<1>1. SocksType /\ sock[a] \in SockType(Length(a))
  BY SockOKOf
<1>2. PICK t : t = WithHistory(sock[a], early, frag)
  OBVIOUS
<1>3. sock' = [sock EXCEPT ![a] = t]
  BY <1>1, <1>2 DEF WithHistory, SocksType
<1>4. /\ t.early = early /\ t.frag = frag /\ t.status = sock[a].status /\ t.off = sock[a].off /\ t.left = sock[a].left
      /\ t.frame = sock[a].frame /\ t.pc = sock[a].pc /\ t.mem = sock[a].mem
  <2>1. /\ t.early = early /\ t.frag = frag /\ t.status = sock[a].status /\ t.off = sock[a].off /\ t.left = sock[a].left
        /\ t.frame = sock[a].frame /\ t.pc = sock[a].pc
    BY <1>1, <1>2, HistorySet
  <2>2. t.mem = sock[a].mem
    BY <1>1, <1>2 DEF WithHistory, SockType
  <2>3. QED
    BY <2>1, <2>2
<1>5. Window(t) = Window(sock[a])
  BY <1>4 DEF Window
<1>6. QED
  BY <1>3, <1>4, <1>5 DEF FramesMark, SameBytes

LEMMA SendFramesLine ==
  ASSUME Base, NEW a \in End, SendsFrames(a), NEW e \in End, Incoming(e)
  PROVE  Incoming(e)'
<1>1. Rest /\ SockOK(a, sock[a]) /\ SocksType /\ sock[a] \in SockType(Length(a)) /\ conf \in Configs
  BY RestOf, SockOKOf
<1>2. sock[a].pc = "idle" /\ BufferType /\ out[a].calls = <<>> /\ CanSend(a)
  BY <1>1, ScriptId DEF SendsFrames, Rest
<1>3. PICK masked \in BOOLEAN : SendFrames(a, masked) /\ (masked => Cls(a) = "HBSocketClient")
  BY DEF SendsFrames
<1>4. PICK id, key, calls : Framed(a, id, key, calls)
  BY <1>2, <1>3, SendFramesIs
<1>5. id \in Ids /\ id = conf.script[a][next[a]] /\ calls \in Buffers /\ Message[id].op \in Opcode
  BY <1>4, MessageFacts DEF Framed
<1>6. PICK F, op, body, m : /\ F = numFrames(Message[id].n, MaxMessageSize) /\ op = Message[id].op /\ body = Payload(a, id)
                            /\ m = Seen(op, body)
  OBVIOUS
<1>7. F \in Nat \ {0} /\ \E D, U : UnitsOf(calls, F, op, body, D, U)
  BY <1>2, <1>4, <1>6, FramedUnits
<1>8. PICK D, U : UnitsOf(calls, F, op, body, D, U)
  BY <1>7
<1>9. m \in Entry /\ SendsNow(a, calls, << m >>)
  BY <1>2, <1>4, <1>5, <1>6, PayloadEntry DEF Framed, SendsNow
<1>10. PICK early \in BOOLEAN, frag \in BOOLEAN :
         /\ sock' = [sock EXCEPT ![a].early = early, ![a].frag = frag]
         /\ early = (sock[a].early \/ sock[a].status = "Connecting") /\ frag = (sock[a].frag \/ F > 1)
  <2>1. sock[a].early \in BOOLEAN /\ sock[a].frag \in BOOLEAN
    BY <1>1, SockFacts
  <2>2. (sock[a].frag \/ F > 1) \in BOOLEAN /\ (sock[a].early \/ sock[a].status = "Connecting") \in BOOLEAN
    BY <2>1
  <2>3. QED
    BY <1>3, <1>5, <1>6, <2>2 DEF SendFrames
<1>11. PICK t : sock' = [sock EXCEPT ![a] = t] /\ FramesMark(a, sock[a], t, early, frag)
  BY <1>2, <1>10, FramesSocket
<1>12. PICK s : s = sock[a]
  OBVIOUS
<1>13. Cls(a) \notin RawClass /\ (s.status = "WebSocket" \/ Cls(a) = "WebSocket")
  BY <1>12 DEF SendsFrames
<1>14. PICK H : H = HeaderOf(Peer(a)) /\ H = 1
  BY <1>1, <1>13, ConfFacts DEF HeaderOf, Cls
<1>15. Cls(a) = "WebSocket" => a = "server"
  BY <1>1, ConfFacts, Ends DEF Cls, End
<1>16. s.status = "Connecting" \/ s.status = "WebSocket"
  <2>1. CASE Cls(a) = "WebSocket" /\ s.status # "Connecting"
    BY <1>1, <1>12, <1>13, <1>15, <2>1 DEF SockOK, Proper
  <2>2. QED
    BY <1>13, <2>1
<1>17. /\ D \in Buffers /\ U \in Seq(Descr) /\ Len(D) = F /\ Len(U) = F /\ SameCells(calls, D)
       /\ \A j \in 1 .. F : FrameUnit(U[j], D[j])
       /\ F = 1 => TheUnit(U[1], D[1], m)
  BY <1>6, <1>8 DEF UnitsOf
<1>18. ASSUME NEW snt2, snt2 = Append(sent[a], m)
       PROVE  CourseSends(H, a, s, t, sent[a], snt2, m, calls, D, U)
  <2>1. CASE t.early
    <3>1. s.early \/ ~Started(1, a, s)
      <4>1. s.early \/ s.status = "Connecting"
        BY <1>10, <1>11, <1>12, <2>1 DEF FramesMark
      <4>2. CASE ~s.early
        <5>1. s.status = "Connecting"
          BY <4>1, <4>2
        <5>2. a = "server"
          BY <1>13, <1>15, <5>1
        <5>3. QED
          BY <5>1, <5>2 DEF Started
      <4>3. QED
        BY <4>2
    <3>2. D # <<>> /\ U[1] \in Descr /\ FrameUnit(U[1], D[1])
      BY <1>7, <1>17, ElementOfSeq
    <3>3. SendsEarly(a, s, t, calls, D, U[1])
      BY <1>5, <1>17, <2>1, <3>1, <3>2 DEF SendsEarly
    <3>4. QED
      BY <1>14, <3>3 DEF CourseSends
  <2>2. CASE ~t.early
    <3>1. ~s.early /\ s.status = "WebSocket" /\ t.status = "WebSocket"
      BY <1>10, <1>11, <1>12, <1>16, <2>2 DEF FramesMark
    <3>2. Started(H, a, s) /\ Started(H, a, t)
      BY <1>2, <1>11, <1>12, <3>1 DEF Started, FramesMark
    <3>3. Untied(s) => Untied(t)
      BY <1>10, <1>11, <1>12, <3>1 DEF Untied, FramesMark
    <3>4. ~Untied(t) => Len(D) = 1 /\ TheUnit(U[1], D[1], m)
      <4>1. SUFFICES ASSUME ~Untied(t) PROVE Len(D) = 1 /\ TheUnit(U[1], D[1], m)
        OBVIOUS
      <4>2. ~(F > 1)
        BY <1>10, <1>11, <3>1, <4>1 DEF Untied, FramesMark
      <4>3. F = 1
        BY <1>7, <4>2
      <4>4. QED
        BY <1>17, <4>3
    <3>5. \A j \in 1 .. Len(D) : IF s.status = "TCP" THEN RawUnit(U[j], D[j]) ELSE FrameUnit(U[j], D[j])
      BY <1>17, <3>1
    <3>6. \A T \in Seq(Cell) : \E T2, d, d2 : Laying(T, calls, T2, d) /\ Laying(T, D, T2, d2)
      BY <1>17 DEF SameCells
    <3>7. Len(U) = Len(D)
      BY <1>17
    <3>8. SendsUnits(H, a, s, t, sent[a], snt2, m, calls, D, U)
      BY <1>5, <1>9, <1>17, <1>18, <2>2, <3>1, <3>2, <3>3, <3>4, <3>5, <3>6, <3>7 DEF SendsUnits
    <3>9. QED
      BY <3>8 DEF CourseSends
  <2>3. QED
    BY <2>1, <2>2
<1>19. \A snt2 : snt2 = Append(sent[a], m) => CourseSends(HeaderOf(Peer(a)), a, sock[a], t, sent[a], snt2, m, calls, D, U)
  BY <1>12, <1>14, <1>18
<1>20. SameBytes(sock[a], t) /\ t.status = sock[a].status /\ t.frame = sock[a].frame /\ t.pc = sock[a].pc
  BY <1>11 DEF FramesMark
<1>21. QED
  BY <1>2, <1>9, <1>11, <1>19, <1>20, SendLine

-----------------------------------------------------------------------------
(* A turn of readMessages *)

(* What a turn leaves of the socket s of its end. *)
Leaves(s, t) == Keeps(s, t) /\ t.early = s.early /\ t.frag = s.frag /\ t.pc # "new"

LEMMA RawLeaves ==
  ASSUME NEW e, NEW s, NEW t, NEW cb, s.pc = "read",
         RawWaits(e, s, t, cb) \/ RawStops(e, s, t, cb) \/ RawTakes(e, s, t, cb)
  PROVE  Leaves(s, t) /\ t.status = s.status
<1>1. CASE RawWaits(e, s, t, cb)
  BY <1>1 DEF RawWaits, Compacted, Moved, Kept, Leaves, Keeps, Dead
<1>2. CASE RawStops(e, s, t, cb)
  BY <1>2 DEF RawStops, Halts, Moved, Kept, Leaves, Keeps, Dead
<1>3. CASE RawTakes(e, s, t, cb)
  BY <1>3 DEF RawTakes, Takes, Kept, Leaves, Keeps, Dead
<1>4. QED
  BY <1>1, <1>2, <1>3

LEMMA FrameLeaves ==
  ASSUME NEW e, NEW s, NEW t, NEW cb, s.pc = "read",
         FrameWaits(e, s, t, cb) \/ FrameStops(e, s, t, cb) \/ FrameReads(e, s, t, cb)
         \/ FrameStays(e, s, t, cb) \/ FrameEnds(e, s, t, cb)
  PROVE  Leaves(s, t) /\ t.status = s.status
<1>1. CASE FrameWaits(e, s, t, cb)
  BY <1>1 DEF FrameWaits, Compacted, Moved, Kept, Leaves, Keeps, Dead
<1>2. CASE FrameStops(e, s, t, cb)
  BY <1>2 DEF FrameStops, Halts, Moved, Kept, Leaves, Keeps, Dead
<1>3. CASE FrameReads(e, s, t, cb)
  BY <1>3 DEF FrameReads, Turned, Leaves, Keeps, Dead, Refused
<1>4. CASE FrameStays(e, s, t, cb)
  <2>1. PICK u, g, r : /\ Turned(s, u, g, Window(s), 0, Length(e)) /\ Compacted(e, u, t) /\ TurnStays(s.frame, r, g, 0)
    BY <1>4 DEF FrameStays
  <2>2. t.status = s.status /\ t.early = s.early /\ t.frag = s.frag /\ t.pc = "recv" /\ t.frame = g
    BY <2>1 DEF Turned, Compacted, Moved, Kept
  <2>3. Refused(s.frame) => Refused(t.frame)
    BY <2>1, <2>2 DEF TurnStays, Refused
  <2>4. QED
    BY <2>2, <2>3 DEF Leaves, Keeps, Dead
<1>5. CASE FrameEnds(e, s, t, cb)
  <2>1. PICK g, r : Turned(s, t, g, Window(s), s.frame.length, Length(e)) /\ TurnEnds(s.frame, Window(s), r, g, s.frame.length)
    BY <1>5 DEF FrameEnds
  <2>2. t.status = s.status /\ t.early = s.early /\ t.frag = s.frag /\ t.pc = s.pc
    BY <2>1 DEF Turned
  <2>3. ~Refused(s.frame)
    BY <2>1 DEF TurnEnds, Refused
  <2>4. QED
    BY <2>2, <2>3 DEF Leaves, Keeps, Dead
<1>6. QED
  BY <1>1, <1>2, <1>3, <1>4, <1>5

(* An upgrade header is looked at, and not accepted. *)
LEMMA UpgradeLeaves ==
  ASSUME NEW e, NEW s, NEW t, NEW cb, s.pc = "read",
         UpgradeWaits(e, s, t, cb) \/ UpgradeStops(e, s, t, cb) \/ UpgradeRefused(e, s, t, cb)
  PROVE  Leaves(s, t) /\ t.status = s.status
<1>1. CASE UpgradeWaits(e, s, t, cb) \/ UpgradeRefused(e, s, t, cb)
  <2>1. PICK u : Looked(e, s, u) /\ Compacted(e, u, t)
    BY <1>1 DEF UpgradeWaits, UpgradeRefused
  <2>2. QED
    BY <2>1 DEF Looked, Compacted, Moved, Kept, Leaves, Keeps, Dead
<1>2. CASE UpgradeStops(e, s, t, cb)
  <2>1. PICK u : Looked(e, s, u) /\ (Halts(e, u, t, "crashed") \/ Halts(e, u, t, "garbled"))
    BY <1>2 DEF UpgradeStops
  <2>2. QED
    BY <2>1 DEF Looked, Halts, Moved, Kept, Leaves, Keeps, Dead
<1>3. QED
  BY <1>1, <1>2

LEMMA OpenLeaves ==
  ASSUME NEW e, NEW s, NEW t, NEW status, s.pc = "read", s.status = "Connecting", Opened(e, s, t, status)
  PROVE  Leaves(s, t) /\ t.status = status
<1>1. PICK u, v : /\ Looked(e, s, u) /\ Takes(e, u, v, HeaderEnd(s)) /\ t.status = status /\ t.frame = v.frame
                  /\ t.early = v.early /\ t.frag = v.frag /\ t.pc = v.pc
  BY DEF Opened
<1>2. t.frame = s.frame /\ t.early = s.early /\ t.frag = s.frag /\ t.pc = s.pc
  BY <1>1 DEF Takes, Kept, Looked
<1>3. QED
  BY <1>1, <1>2 DEF Leaves, Keeps, Dead

(* A turn, by what it does to the connection. *)
TurnStill(a, s, t, cb) ==
  /\ TurnKind(a, s, t, cb) /\ Leaves(s, t) /\ out' = out
  /\ t.status = s.status \/ (s.status = "Connecting" /\ a = "client")
TurnAnswers(a, s, t, cb) ==
  /\ TurnKind(a, s, t, cb) /\ Leaves(s, t) /\ s.status = "Connecting" /\ a = "server" /\ t.status # "Connecting"
  /\ Cls(a) \notin RawClass /\ out' = [out EXCEPT ![a] = StartSend(@, << Header >>, How(a))]

LEMMA TurnCases ==
  ASSUME NEW a \in End, NEW t, NEW cb, NEW s, s = sock[a], Turning(a, t, cb)
  PROVE  TurnStill(a, s, t, cb) \/ TurnAnswers(a, s, t, cb)
<1>1. s.pc = "read"
  BY DEF Turning
<1>2. CASE /\ s.status = "TCP" /\ out' = out
           /\ RawWaits(a, s, t, cb) \/ RawStops(a, s, t, cb) \/ RawTakes(a, s, t, cb)
  <2>1. Leaves(s, t) /\ t.status = s.status
    BY <1>1, <1>2, RawLeaves
  <2>2. TurnKind(a, s, t, cb)
    BY <1>2 DEF TurnKind
  <2>3. QED
    BY <1>2, <2>1, <2>2 DEF TurnStill
<1>3. CASE /\ s.status = "WebSocket" /\ out' = out
           /\ \/ FrameWaits(a, s, t, cb) \/ FrameStops(a, s, t, cb) \/ FrameReads(a, s, t, cb)
              \/ FrameStays(a, s, t, cb) \/ FrameEnds(a, s, t, cb)
  <2>1. Leaves(s, t) /\ t.status = s.status
    BY <1>1, <1>3, FrameLeaves
  <2>2. TurnKind(a, s, t, cb)
    BY <1>3 DEF TurnKind
  <2>3. QED
    BY <1>3, <2>1, <2>2 DEF TurnStill
<1>4. CASE s.status = "Connecting" /\ Cls(a) \notin RawClass /\ Upgrades(a, t, cb)
  <2>1. CASE out' = out /\ (UpgradeWaits(a, s, t, cb) \/ UpgradeStops(a, s, t, cb) \/ UpgradeRefused(a, s, t, cb))
    <3>1. Leaves(s, t) /\ t.status = s.status
      BY <1>1, <2>1, UpgradeLeaves
    <3>2. cb = <<>>
      BY <2>1 DEF UpgradeWaits, UpgradeStops, UpgradeRefused
    <3>3. TurnKind(a, s, t, cb)
      BY <1>4, <2>1, <3>2 DEF TurnKind
    <3>4. QED
      BY <2>1, <3>1, <3>3 DEF TurnStill
  <2>2. CASE UpgradeOpens(a, s, t, cb)
    <3>1. PICK status : status = Proper(a) /\ status \in {"TCP", "WebSocket"}
      BY DEF Proper, Transport
    <3>2. Opened(a, s, t, status) /\ cb = <<>>
      BY <2>2, <3>1 DEF UpgradeOpens
    <3>3. Leaves(s, t) /\ t.status = status
      BY <1>1, <1>4, <3>2, OpenLeaves
    <3>4. TurnKind(a, s, t, cb)
      BY <1>4, <3>1, <3>2 DEF TurnKind
    <3>5. CASE a = "client"
      <4>1. out' = out
        BY <2>2, <3>5 DEF UpgradeOpens
      <4>2. QED
        BY <1>4, <3>3, <3>4, <3>5, <4>1 DEF TurnStill
    <3>6. CASE a # "client"
      <4>1. a = "server" /\ out' = [out EXCEPT ![a] = StartSend(@, << Header >>, How(a))]
        BY <2>2, <3>6 DEF UpgradeOpens, End
      <4>2. t.status # "Connecting"
        BY <3>1, <3>3
      <4>3. QED
        BY <1>4, <3>3, <3>4, <4>1, <4>2 DEF TurnAnswers
    <3>7. QED
      BY <3>5, <3>6
  <2>3. QED
    BY <1>4, <2>1, <2>2 DEF Upgrades
<1>5. QED
  BY <1>2, <1>3, <1>4 DEF Turning

(* The sender takes a turn of its own. *)
LEMMA CourseSender ==
  ASSUME NEW H, NEW x, NEW s, NEW w, NEW o, NEW gn, NEW g, NEW snt, NEW sx, NEW sx2, Sides(H, s, w, o, gn, g, snt),
         Course(H, x, s, w, o, gn, g, snt, sx), SenderMoved(H, x, sx, sx2), Keeps(sx, sx2)
  PROVE  Course(H, x, s, w, o, gn, g, snt, sx2)
<1>1. CASE Lost(s, o, sx)
  BY <1>1, LostStays, KeepsSame DEF Course
<1>2. CASE Way(H, x, s, w, o, gn, g, snt, sx)
  BY <1>2, WaySender DEF Course
<1>3. QED
  BY <1>1, <1>2 DEF Course

(* The receiver takes a turn. *)
LEMMA CourseTurns ==
  ASSUME NEW e, NEW t, NEW cb, NEW H, NEW x, NEW s, NEW w, NEW o, NEW gn, NEW g, NEW snt, NEW sx, NEW g2,
         ~Lost(s, o, sx) => Receives(H, s, w, g, snt, sx), TurnKind(e, s, t, cb), cb \in Seq(Entry), g2 = g \o cb,
         Keeps(s, t), Course(H, x, s, w, o, gn, g, snt, sx)
  PROVE  /\ Course(H, x, t, w, o, gn, g2, snt, sx)
         /\ Lost(s, o, sx) \/ Gives(g, snt, sx, cb)
<1>1. CASE Lost(s, o, sx)
  <2>1. Lost(t, o, sx)
    BY <1>1, LostStays, KeepsSame
  <2>2. QED
    BY <1>1, <2>1 DEF Course
<1>2. CASE ~Lost(s, o, sx)
  <2>1. Way(H, x, s, w, o, gn, g, snt, sx) /\ Receives(H, s, w, g, snt, sx)
    BY <1>2 DEF Course
  <2>2. /\ Ends0(t, cb) \/ Way(H, x, t, w, o, gn, g2, snt, sx)
        /\ Gives(g, snt, sx, cb)
    BY <2>1, TurnWay
  <2>3. Ends0(t, cb) => Lost(t, o, sx)
    BY DEF Ends0, Lost
  <2>4. QED
    BY <2>2, <2>3 DEF Course
<1>3. QED
  BY <1>1, <1>2

LEMMA TurnLine ==
  ASSUME Base, NEW a \in End, NEW t, NEW cb, Turning(a, t, cb), NEW e \in End, Incoming(e)
  PROVE  Incoming(e)'
<1>1. PICK H, x, s, w, o, gn, g, snt, sx : Line(e, H, x, s, w, o, gn, g, snt, sx) /\ Course(H, x, s, w, o, gn, g, snt, sx)
  BY LineIs
<1>2. PICK t2, o2, gn2, g2, sx2 : t2 = sock'[e] /\ o2 = out'[x] /\ gn2 = Gone(e)' /\ g2 = got'[e] /\ sx2 = sock'[x]
  OBVIOUS
<1>3. Sides(H, s, w, o, gn, g, snt) /\ x \in End /\ x # e
  BY <1>1, LineTypes
<1>4. SocksType /\ Rest /\ cb \in Seq(Entry)
  BY SockOKOf, RestOf, CallbackType
<1>5. /\ sock' = [sock EXCEPT ![a] = t] /\ got' = [got EXCEPT ![a] = @ \o cb]
      /\ shut' = shut \/ shut' = [shut EXCEPT ![a] = TRUE]
      /\ wire' = wire /\ broken' = broken /\ conf' = conf /\ sent' = sent /\ sock[a].pc = "read" /\ out[a].calls = <<>>
  BY DEF Turning, Handled, Busy
<1>6. gn => gn2
  <2>1. \A y \in End : shut[y] => shut'[y]
    BY <1>4, <1>5 DEF Rest
  <2>2. QED
    BY <1>1, <1>2, <1>5, <2>1, GoneStays DEF Line
<1>7. LineNext(e, H, x, t2, w, o2, gn2, g2, snt, sx2)
  BY <1>1, <1>2, <1>5, HeaderSame DEF Line, LineNext
<1>8. gn2 \in BOOLEAN
  <2>1. shut' \in [End -> BOOLEAN] /\ broken' \in BOOLEAN
    BY <1>4, <1>5 DEF Rest
  <2>2. QED
    BY <1>2, <2>1, Ends DEF Gone
<1>9. Sides(H, s, w, o, gn2, g, snt) /\ Course(H, x, s, w, o, gn2, g, snt, sx)
  <2>1. Drifts(s, s, w, w, gn, gn2, sx, sx)
    BY <1>6, SameSelf, AlikeSelf, KeepsSame DEF Drifts, Stirs
  <2>2. Course(H, x, s, w, o, gn2, g, snt, sx)
    BY <1>1, <1>3, <2>1, CourseDrifts
  <2>3. QED
    BY <1>3, <1>8, <2>2 DEF Sides
<1>10. PICK r : r = sock[a]
  OBVIOUS
<1>11. TurnStill(a, r, t, cb) \/ TurnAnswers(a, r, t, cb)
  BY <1>10, TurnCases
<1>12. TurnKind(a, r, t, cb) /\ Leaves(r, t) /\ Keeps(r, t)
  BY <1>11 DEF TurnStill, TurnAnswers, Leaves
<1>13. CASE e = a
  <2>1. s = r /\ t2 = t /\ sx2 = sx /\ g2 = g \o cb
    BY <1>1, <1>2, <1>3, <1>4, <1>5, <1>10, <1>13 DEF Line, SocksType, Rest
  <2>2. o2 = o
    BY <1>1, <1>2, <1>3, <1>4, <1>13, TurnOut DEF Line
  <2>3. ~Lost(s, o, sx) => Receives(H, s, w, g, snt, sx)
    BY <1>1, LineReceives
  <2>4. Course(H, x, t, w, o, gn2, g2, snt, sx)
    BY <1>4, <1>9, <1>12, <2>1, <2>3, CourseTurns
  <2>5. QED
    BY <1>7, <2>1, <2>2, <2>4, NextIs
<1>14. CASE e # a
  <2>1. x = a /\ sx = r /\ sx2 = t /\ t2 = s /\ g2 = g /\ o = out[a] /\ o2 = out'[a]
    BY <1>1, <1>2, <1>3, <1>4, <1>5, <1>10, <1>14, Ends DEF Line, SocksType, Rest
  <2>2. CASE TurnStill(a, r, t, cb)
    <3>1. o2 = o
      BY <2>1, <2>2 DEF TurnStill
    <3>2. SenderMoved(H, x, sx, sx2)
      <4>1. sx2.early = sx.early /\ sx2.frag = sx.frag /\ sx.pc # "new" /\ sx2.pc # "new"
        BY <1>5, <1>10, <1>12, <2>1 DEF Leaves
      <4>2. sx2.status = sx.status \/ (sx.status = "Connecting" /\ x = "client")
        BY <2>1, <2>2 DEF TurnStill
      <4>3. Started(H, x, sx2) <=> Started(H, x, sx)
        BY <4>1, <4>2 DEF Started
      <4>4. QED
        BY <4>1, <4>2, <4>3 DEF SenderMoved
    <3>3. Keeps(sx, sx2)
      BY <1>12, <2>1
    <3>4. Course(H, x, s, w, o, gn2, g, snt, sx2)
      BY <1>9, <3>2, <3>3, CourseSender
    <3>5. QED
      BY <1>7, <2>1, <3>1, <3>4, NextIs
  <2>3. CASE TurnAnswers(a, r, t, cb)
    <3>1. H = 1
      <4>1. conf \in Configs /\ Cls(a) \notin RawClass
        BY <2>3, SockOKOf DEF TurnAnswers
      <4>2. Cls(e) \notin RawClass
        BY <1>14, <4>1, ConfFacts, Ends DEF Cls
      <4>3. QED
        BY <1>1, <4>2 DEF Line, HeaderOf
    <3>2. Calls(o, o2, << Header >>) /\ o2.cut = o.cut
      <4>1. out' = [out EXCEPT ![a] = StartSend(@, << Header >>, How(a))]
        BY <2>3 DEF TurnAnswers
      <4>2. QED
        BY <1>4, <1>5, <2>1, <4>1, CallsBegin, HeaderBuffers
    <3>3. Leading(x, sx, sx2)
      BY <1>12, <2>1, <2>3 DEF Leading, TurnAnswers, Started, Leaves
    <3>4. Keeps(sx, sx2)
      BY <1>12, <2>1
    <3>5. Course(1, x, s, w, o2, gn2, g, snt, sx2)
      BY <1>9, <3>1, <3>2, <3>3, <3>4, CourseLeads
    <3>6. QED
      BY <1>7, <2>1, <3>1, <3>5, NextIs
  <2>4. QED
    BY <1>11, <2>2, <2>3
<1>15. QED
  BY <1>13, <1>14

(* Whatever step is taken. *)
LEMMA KindsLine ==
  ASSUME Base, NEW a \in End, Kinds(a), NEW e \in End, Incoming(e)
  PROVE  Incoming(e)'
<1>1. CASE \E t : Parks(a, t)
  BY <1>1, ParkLine
<1>2. CASE \E t : Starts(a, t)
  BY <1>2, StartLine
<1>3. CASE UNCHANGED connVars /\ \E n \in Nat : Writes(a, n)
  BY <1>3, WriteLine
<1>4. CASE \E t, n : Arrives(a, t, n)
  BY <1>4, ArriveLine
<1>5. CASE \E t, cb : Turning(a, t, cb)
  BY <1>5, TurnLine
<1>6. CASE SendsRaw(a)
  BY <1>6, SendRawLine
<1>7. CASE SendsFrames(a)
  BY <1>7, SendFramesLine
<1>8. CASE SendsNothing(a)
  BY <1>8, SendNothingLine
<1>9. QED
  BY <1>1, <1>2, <1>3, <1>4, <1>5, <1>6, <1>7, <1>8 DEF Kinds

(* Each direction of the connection: what has been sent, what of it is      *)
(* under way and what has been received and read are one sequence of units, *)
(* unless the direction is lost.                                            *)
InOrder == \A e \in End : Incoming(e)

LEMMA NextOrder ==
  ASSUME Base, InOrder, [Next]_vars
  PROVE  InOrder'
<1>1. PICK a \in End : Kinds(a)
  BY NextKinds
<1>2. ASSUME NEW e \in End PROVE Incoming(e)'
  BY <1>1, <1>2, KindsLine DEF InOrder
<1>3. QED
  BY <1>2 DEF InOrder

(* Nothing has been sent. *)
LEMMA FreshWay ==
  ASSUME NEW H \in {0, 1}, NEW x \in End, NEW s, NEW o, NEW gn, NEW sx,
         s.left = 0, s.frame = NewFrame, s.status # "WebSocket", o.calls = <<>>, Written(o) = 0,
         s.status = "Connecting" \/ H = 0, ~sx.early, H = 1 => sx.status = "Connecting" /\ (x = "client" => sx.pc = "new")
  PROVE  Way(H, x, s, <<>>, o, gn, <<>>, <<>>, sx)
<1>1. PICK T, b, C, V : T = <<>> /\ C = <<>> /\ V = <<>> /\ b = [i \in 1 .. 1 |-> 0]
  OBVIOUS
<1>2. T \in Seq(Cell) /\ C \in Buffers /\ V \in Seq(Descr) /\ Len(T) = 0 /\ Len(C) = 0 /\ Len(V) = 0 /\ b[1] = 0
  BY <1>1 DEF Buffers
<1>3. Layout(T, b, C)
  BY <1>1, <1>2 DEF Layout
<1>4. Carries(s, <<>>, T, 0)
  BY <1>2 DEF Carries
<1>5. Flow(s, <<>>, o, gn, T, 0)
  <2>1. Layout(T, b, o.calls) /\ b[1] + Written(o) = 0 + s.left + Len(<<>>)
    BY <1>1, <1>2, <1>3
  <2>2. Laid(T, o, 0 + s.left + Len(<<>>))
    BY <2>1 DEF Laid
  <2>3. QED
    BY <1>4, <2>2 DEF Flow
<1>6. Parse(H, sx.status, T, b, C, V)
  BY <1>2, <1>3 DEF Parse
<1>7. Tied(H, C, V, <<>>)
  BY <1>2 DEF Tied
<1>8. Started(H, x, sx) => H = 0
  BY DEF Started, End
<1>9. Story(H, x, gn, <<>>, sx, T, b, C, V)
  BY <1>1, <1>2, <1>6, <1>7, <1>8 DEF Story
<1>10. Pos(H, ~Untied(sx), s, <<>>, b, C, V, 0, 0)
  BY <1>2, NewFrameOK DEF Pos
<1>11. QED
  BY <1>5, <1>9, <1>10 DEF Way, Ordered

LEMMA InitOrder ==
  ASSUME Init
  PROVE  InOrder
<1>1. SUFFICES ASSUME NEW e \in End PROVE Incoming(e)
  BY DEF InOrder
<1>2. PICK H, x : H = HeaderOf(e) /\ x = Peer(e)
  OBVIOUS
<1>3. x \in End /\ x # e /\ H \in {0, 1}
  BY <1>2, Ends DEF HeaderOf
<1>4. conf \in Configs /\ sock = [y \in End |-> NewSocket(conf.cls[y], conf.B)]
  BY DEF Init
<1>5. wire[e] = <<>> /\ out[x] = NewOut /\ got[e] = <<>> /\ sent[x] = <<>>
  BY <1>3 DEF Init, StreamInit
<1>6. PICK s, sx : s = sock[e] /\ sx = sock[x]
  OBVIOUS
<1>7. s = NewSocket(conf.cls[e], conf.B) /\ sx = NewSocket(conf.cls[x], conf.B)
  BY <1>3, <1>4, <1>6
<1>8. /\ s.left = 0 /\ s.frame = NewFrame /\ s.status = (IF conf.cls[e] \in RawClass THEN "TCP" ELSE "Connecting")
  BY <1>7 DEF NewSocket
<1>9. /\ ~sx.early /\ sx.status = (IF conf.cls[x] \in RawClass THEN "TCP" ELSE "Connecting")
      /\ sx.pc = (IF conf.cls[x] = "HBSocketClient" THEN "new" ELSE "idle")
  BY <1>7 DEF NewSocket
<1>10. conf.cls[e] \in RawClass <=> conf.cls[x] \in RawClass
  BY <1>2, <1>4, ConfFacts
<1>11. x = "client" /\ conf.cls[x] \notin RawClass => conf.cls[x] = "HBSocketClient"
  BY <1>3, <1>4, ConfFacts
<1>12. H = IF conf.cls[e] \in RawClass THEN 0 ELSE 1
  BY <1>2 DEF HeaderOf, Cls
<1>13. NewOut.calls = <<>> /\ Written(NewOut) = 0
  BY DEF NewOut, Written
<1>14. Way(H, x, s, <<>>, NewOut, Gone(e), <<>>, <<>>, sx)
  <2>1. PICK o, gn : o = NewOut /\ gn = Gone(e)
    OBVIOUS
  <2>2. o.calls = <<>> /\ Written(o) = 0
    BY <1>13, <2>1
  <2>3. s.status # "WebSocket" /\ (s.status = "Connecting" \/ H = 0)
    BY <1>8, <1>12
  <2>4. H = 1 => sx.status = "Connecting" /\ (x = "client" => sx.pc = "new")
    BY <1>9, <1>10, <1>11, <1>12
  <2>5. Way(H, x, s, <<>>, o, gn, <<>>, <<>>, sx)
    BY <1>3, <1>8, <1>9, <2>2, <2>3, <2>4, FreshWay
  <2>6. QED
    BY <2>1, <2>5
<1>15. QED
  BY <1>2, <1>5, <1>6, <1>14 DEF Incoming, Dir, Way

-----------------------------------------------------------------------------
(* What is promised of each direction *)

(* What no step takes back of the end y. *)
Firm(y) ==
  (out[y].cut => out'[y].cut) /\ Keeps(sock[y], sock'[y]) /\ (sock[y].frag => sock'[y].frag)

LEMMA SocketsNext ==
  ASSUME SocksType, NEW a \in End, NEW t, sock' = [sock EXCEPT ![a] = t], NEW y \in End
  PROVE  sock'[y] = IF y = a THEN t ELSE sock[y]
BY DEF SocksType

LEMMA FirmIf ==
  ASSUME SocksType, NEW a \in End, NEW t, sock' = [sock EXCEPT ![a] = t], Keeps(sock[a], t), sock[a].frag => t.frag,
         NEW y \in End, out[y].cut => out'[y].cut
  PROVE  Firm(y)
<1>1. PICK r : r = sock'[y]
  OBVIOUS
<1>2. r = IF y = a THEN t ELSE sock[y]
  BY <1>1, SocketsNext
<1>3. CASE y = a
  <2>1. r = t /\ sock[y] = sock[a]
    BY <1>2, <1>3
  <2>2. Keeps(sock[y], r) /\ (sock[y].frag => r.frag)
    BY <2>1
  <2>3. QED
    BY <1>1, <2>2 DEF Firm
<1>4. CASE y # a
  <2>1. r = sock[y]
    BY <1>2, <1>4
  <2>2. Keeps(sock[y], r)
    BY <2>1, KeepsSame
  <2>3. QED
    BY <1>1, <2>1, <2>2 DEF Firm
<1>5. QED
  BY <1>3, <1>4

LEMMA FirmSame ==
  ASSUME SocksType, NEW a \in End, sock' = sock, NEW y \in End, out[y].cut => out'[y].cut
  PROVE  Firm(y)
BY KeepsSame DEF Firm

LEMMA SendFirm ==
  ASSUME Base, NEW a \in End, NEW calls, NEW entry, SendsNow(a, calls, entry), NEW y \in End
  PROVE  out[y].cut => out'[y].cut
<1>1. out'[a].cut = out[a].cut /\ \A z \in End : z # a => out'[z] = out[z]
  BY RestOf, SendingFacts
<1>2. QED
  BY <1>1

LEMMA FramesSock ==
  ASSUME Base, NEW a \in End, SendsFrames(a)
  PROVE  \E t : sock' = [sock EXCEPT ![a] = t] /\ Keeps(sock[a], t) /\ (sock[a].frag => t.frag)
<1>1. Rest /\ SocksType /\ sock[a] \in SockType(Length(a)) /\ conf \in Configs
  BY RestOf, SockOKOf
<1>2. sock[a].pc = "idle" /\ CanSend(a)
  BY ScriptId DEF SendsFrames
<1>3. PICK masked \in BOOLEAN : SendFrames(a, masked)
  BY DEF SendsFrames
<1>4. PICK r : r = sock[a]
  OBVIOUS
<1>5. PICK early, frag : /\ sock' = [sock EXCEPT ![a].early = early, ![a].frag = frag]
                         /\ early = (r.early \/ r.status = "Connecting")
                         /\ frag = (r.frag \/ numFrames(Message[conf.script[a][next[a]]].n, MaxMessageSize) > 1)
  BY <1>3, <1>4 DEF SendFrames
<1>6. r.frag \in BOOLEAN /\ r.early \in BOOLEAN
  BY <1>1, <1>4, SockFacts
<1>7. early \in BOOLEAN /\ frag \in BOOLEAN
  BY <1>5, <1>6
<1>8. r.frag => frag
  BY <1>5, <1>6
<1>9. PICK t : t = WithHistory(r, early, frag)
  OBVIOUS
<1>10. sock' = [sock EXCEPT ![a] = t]
  <2>1. sock' = [sock EXCEPT ![a].early = early, ![a].frag = frag]
    BY <1>5
  <2>2. QED
    BY <1>1, <1>4, <1>9, <2>1 DEF WithHistory, SocksType
<1>11. t.status = r.status /\ t.frame = r.frame /\ t.frag = frag /\ r.pc \notin Dead
  <2>1. PICK N : r \in SockType(N)
    BY <1>1, <1>4
  <2>2. t.status = r.status /\ t.frame = r.frame /\ t.frag = frag
    BY <2>1, <1>9 DEF WithHistory, SockType
  <2>3. r.pc \notin Dead
    BY <1>2, <1>4 DEF Dead
  <2>4. QED
    BY <2>2, <2>3
<1>12. Keeps(r, t) /\ (r.frag => t.frag)
  BY <1>8, <1>11, KeepsMoved
<1>13. QED
  BY <1>4, <1>10, <1>12

(* Frames are sent: what SendFramesLine finds, for the other end too. *)
LEMMA FramesSend ==
  ASSUME Base, NEW a \in End, SendsFrames(a)
  PROVE  \E t, calls, m, F : /\ SendsNow(a, calls, << m >>) /\ m \in Entry /\ sock' = [sock EXCEPT ![a] = t]
                             /\ Keeps(sock[a], t) /\ (sock[a].frag => t.frag)
<1>1. Rest /\ SocksType /\ sock[a] \in SockType(Length(a)) /\ conf \in Configs
  BY RestOf, SockOKOf
<1>2. sock[a].pc = "idle" /\ BufferType /\ out[a].calls = <<>> /\ CanSend(a)
  BY <1>1, ScriptId DEF SendsFrames, Rest
<1>3. PICK masked \in BOOLEAN : SendFrames(a, masked) /\ (masked => Cls(a) = "HBSocketClient")
  BY DEF SendsFrames
<1>4. PICK id, key, calls : Framed(a, id, key, calls)
  BY <1>2, <1>3, SendFramesIs
<1>5. id \in Ids /\ id = conf.script[a][next[a]] /\ calls \in Buffers /\ Message[id].op \in Opcode
  BY <1>4, MessageFacts DEF Framed
<1>6. PICK m : m = Seen(Message[id].op, Payload(a, id))
  OBVIOUS
<1>7. m \in Entry /\ SendsNow(a, calls, << m >>)
  BY <1>2, <1>4, <1>5, <1>6, PayloadEntry DEF Framed, SendsNow
<1>8. PICK t : sock' = [sock EXCEPT ![a] = t] /\ Keeps(sock[a], t) /\ (sock[a].frag => t.frag)
  BY FramesSock
<1>9. QED
  BY <1>7, <1>8

LEMMA KindsFirm ==
  ASSUME Base, NEW a \in End, Kinds(a), NEW y \in End
  PROVE  Firm(y)
<1>1. SocksType /\ Rest
  BY SockOKOf, RestOf
<1>2. ASSUME NEW t, Parks(a, t) PROVE Firm(y)
  <2>1. PICK pc \in Pcs : /\ Halts(a, sock[a], t, pc)
                          /\ pc = sock[a].pc \/ (sock[a].pc \in {"idle", "recv"} /\ pc \in {"idle", "recv", "closed"})
    BY <1>2 DEF Parks
  <2>2. t.status = sock[a].status /\ t.frame = sock[a].frame /\ t.frag = sock[a].frag /\ t.pc = pc
    BY <2>1 DEF Halts, Moved, Kept
  <2>3. Keeps(sock[a], t)
    BY <2>1, <2>2 DEF Keeps, Dead
  <2>4. sock' = [sock EXCEPT ![a] = t] /\ out' = out
    BY <1>2 DEF Parks
  <2>5. QED
    BY <1>1, <2>2, <2>3, <2>4, FirmIf
<1>3. ASSUME NEW t, Starts(a, t) PROVE Firm(y)
  <2>1. t.status = sock[a].status /\ t.frame = sock[a].frame /\ t.frag = sock[a].frag /\ sock[a].pc = "new"
    BY <1>3 DEF Starts, Halts, Moved, Kept
  <2>2. Keeps(sock[a], t)
    BY <2>1, KeepsMoved DEF Dead
  <2>3. out[a].calls = <<>>
    BY <2>1 DEF Base, StatusOK
  <2>4. sock' = [sock EXCEPT ![a] = t] /\ out' = [out EXCEPT ![a] = StartSend(@, << Header >>, How(a))]
    BY <1>3 DEF Starts
  <2>5. out[y].cut => out'[y].cut
    BY <1>1, <2>3, <2>4, CallsBegin, HeaderBuffers
  <2>6. QED
    BY <1>1, <2>1, <2>2, <2>4, <2>5, FirmIf
<1>4. ASSUME UNCHANGED connVars, NEW n \in Nat, Writes(a, n) PROVE Firm(y)
  <2>1. PICK q \in OutType : out' = [out EXCEPT ![a] = q] /\ (out[a].cut => q.cut)
    BY <1>4 DEF Writes
  <2>2. out[y].cut => out'[y].cut
    BY <1>1, <2>1 DEF Rest
  <2>3. sock' = sock
    BY <1>4 DEF connVars
  <2>4. QED
    BY <1>1, <2>2, <2>3, FirmSame
<1>5. ASSUME NEW t, NEW n, Arrives(a, t, n) PROVE Firm(y)
  <2>1. sock' = [sock EXCEPT ![a] = t] /\ out' = out /\ sock[a].pc = "recv" /\ Fills(a, sock[a], t, n)
    BY <1>5 DEF Arrives
  <2>2. t.status = sock[a].status /\ t.frame = sock[a].frame /\ t.frag = sock[a].frag
    BY <2>1 DEF Fills, Halts, Moved, Kept
  <2>3. Keeps(sock[a], t)
    BY <2>1, <2>2, KeepsMoved DEF Dead
  <2>4. QED
    BY <1>1, <2>1, <2>2, <2>3, FirmIf
<1>6. ASSUME NEW t, NEW cb, Turning(a, t, cb) PROVE Firm(y)
  <2>1. PICK r : r = sock[a]
    OBVIOUS
  <2>2. Leaves(r, t)
    BY <1>6, <2>1, TurnCases DEF TurnStill, TurnAnswers
  <2>3. Keeps(sock[a], t) /\ (sock[a].frag => t.frag)
    BY <2>1, <2>2 DEF Leaves
  <2>4. sock' = [sock EXCEPT ![a] = t] /\ out[a].calls = <<>>
    BY <1>6 DEF Turning, Handled, Busy
  <2>5. out' = out \/ out' = [out EXCEPT ![a] = StartSend(@, << Header >>, How(a))]
    BY <1>1, <1>6, TurnOut
  <2>6. out[y].cut => out'[y].cut
    BY <1>1, <2>4, <2>5, CallsBegin, HeaderBuffers
  <2>7. QED
    BY <1>1, <2>3, <2>4, <2>6, FirmIf
<1>7. CASE SendsRaw(a)
  <2>1. PICK calls, entry : Sending(a, calls, entry) /\ sock' = sock /\ calls = << Raw(a, conf.script[a][next[a]]) >>
    BY <1>7 DEF SendsRaw, SendRaw
  <2>2. conf.script[a][next[a]] \in Ids /\ out[a].calls = <<>> /\ BufferType
    BY <1>1, <1>7, ScriptId DEF SendsRaw, Rest
  <2>3. SendsNow(a, calls, entry)
    BY <2>1, <2>2, RawFacts DEF SendsNow, Buffers
  <2>4. QED
    BY <1>1, <2>1, <2>3, SendFirm, FirmSame
<1>8. CASE SendsFrames(a)
  BY <1>1, <1>8, FramesSend, SendFirm, FirmIf
<1>9. CASE SendsNothing(a)
  <2>1. Sending(a, <<>>, <<>>) /\ sock' = sock /\ out[a].calls = <<>>
    BY <1>9, ScriptId DEF SendsNothing, SendNothing
  <2>2. SendsNow(a, <<>>, <<>>)
    BY <2>1 DEF SendsNow, Buffers
  <2>3. QED
    BY <1>1, <2>1, <2>2, SendFirm, FirmSame
<1>10. QED
  BY <1>2, <1>3, <1>4, <1>5, <1>6, <1>7, <1>8, <1>9 DEF Kinds

-----------------------------------------------------------------------------
(* Messages in order *)

(* One step of what has been sent, what has been received, and whether the *)
(* stream is spoilt.                                                       *)
Follows(snt, g, sp, snt2, g2, sp2) ==
  /\ sp => sp2
  /\ \/ sp2
     \/ snt2 = snt /\ g2 = g
     \/ g2 = g /\ \E m \in Entry : snt2 = snt \o << m >>
     \/ snt2 = snt /\ Len(g) < Len(snt) /\ g2 = g \o << snt[Len(g) + 1] >>

LEMMA SpoiltStays ==
  ASSUME \A y \in End : Firm(y), NEW x \in End, Spoilt(x)
  PROVE  Spoilt(x)'
<1>1. \A y \in End : sock[y].status # "Connecting" => sock'[y].status = sock[y].status
  BY DEF Firm, Keeps
<1>2. CASE out[x].cut
  BY <1>2 DEF Firm, Spoilt
<1>3. CASE Mismatched
  BY <1>1, <1>3 DEF Mismatched, Spoilt
<1>4. CASE Fragmented(x)
  BY <1>1, <1>4 DEF Firm, Fragmented, Spoilt
<1>5. QED
  BY <1>2, <1>3, <1>4 DEF Spoilt

(* A reader that has refused a frame gives the callbacks nothing more. *)
LEMMA RefusedSilent ==
  ASSUME NEW e, NEW s, NEW t, NEW cb, TurnKind(e, s, t, cb), Refused(s.frame), s.status # "WebSocket" => s.frame = NewFrame
  PROVE  cb = <<>>
<1>1. s.frame.st = "Done" /\ ~s.frame.valid
  BY DEF Refused
<1>2. s.status = "WebSocket"
  BY <1>1 DEF NewFrame
<1>3. \/ FrameWaits(e, s, t, cb) \/ FrameStops(e, s, t, cb) \/ FrameReads(e, s, t, cb)
      \/ FrameStays(e, s, t, cb) \/ FrameEnds(e, s, t, cb)
  BY <1>2 DEF TurnKind
<1>4. ~FrameEnds(e, s, t, cb)
  BY <1>1 DEF FrameEnds, TurnEnds
<1>5. QED
  BY <1>3, <1>4 DEF FrameWaits, FrameStops, FrameReads, FrameStays

(* What the callbacks of e are given by a turn of it. *)
LEMMA TurnGives ==
  ASSUME Base, NEW e \in End, Incoming(e), NEW t, NEW cb, Turning(e, t, cb), ~Spoilt(Peer(e)), cb # <<>>
  PROVE  Len(got[e]) < Len(sent[Peer(e)]) /\ cb = << sent[Peer(e)][Len(got[e]) + 1] >>
<1>1. PICK H, x, s, w, o, gn, g, snt, sx : Line(e, H, x, s, w, o, gn, g, snt, sx) /\ Course(H, x, s, w, o, gn, g, snt, sx)
  BY LineIs
<1>2. x = Peer(e) /\ s = sock[e] /\ o = out[x] /\ g = got[e] /\ snt = sent[x] /\ sx = sock[x]
  BY <1>1 DEF Line
<1>3. x \in End /\ SockOK(e, s) /\ SockOK(x, sx) /\ cb \in Seq(Entry)
  BY <1>1, LineTypes, CallbackType
<1>4. ~o.cut /\ ~Mismatched /\ ~Untied(sx)
  BY <1>2 DEF Spoilt, Fragmented, Untied
<1>5. s.pc = "read"
  BY <1>2 DEF Turning
<1>6. TurnKind(e, s, t, cb) /\ Leaves(s, t) /\ Keeps(s, t)
  BY <1>2, TurnCases DEF TurnStill, TurnAnswers, Leaves
<1>7. ~Refused(s.frame)
  <2>1. s.status # "WebSocket" => s.frame = NewFrame
    BY <1>2 DEF Base, StatusOK
  <2>2. QED
    BY <1>6, <2>1, RefusedSilent
<1>8. s.status \in Status /\ sx.status \in Status
  <2>1. s \in SockType(Length(e)) /\ sx \in SockType(Length(x))
    BY <1>2, <1>3, SockOKOf
  <2>2. QED
    BY <2>1, SockFacts
<1>9. ~Lost(s, o, sx)
  <2>1. ~(s.status # "Connecting" /\ sx.status # "Connecting" /\ s.status # sx.status)
    BY <1>2, <1>3, <1>4, <1>8 DEF Mismatched, Status
  <2>2. s.pc \notin Dead
    BY <1>5 DEF Dead
  <2>3. QED
    BY <1>4, <1>7, <2>1, <2>2 DEF Lost
<1>10. Receives(H, s, w, g, snt, sx)
  BY <1>1, <1>9, LineReceives
<1>11. PICK g2 : g2 = g \o cb
  OBVIOUS
<1>12. Gives(g, snt, sx, cb)
  BY <1>1, <1>3, <1>6, <1>9, <1>10, <1>11, CourseTurns
<1>13. QED
  BY <1>2, <1>4, <1>12 DEF Gives

(* One message is sent, or none. *)
SendsOne(a) == \/ \E calls : SendsNow(a, calls, <<>>)
               \/ \E calls, m : m \in Entry /\ SendsNow(a, calls, << m >>)

LEMMA SendKinds ==
  ASSUME Base, NEW a \in End, SendsRaw(a) \/ SendsFrames(a) \/ SendsNothing(a)
  PROVE  SendsOne(a)
<1>1. Rest /\ conf \in Configs
  BY RestOf, SockOKOf
<1>2. CASE SendsRaw(a)
  <2>1. PICK id : id = conf.script[a][next[a]]
    OBVIOUS
  <2>2. id \in Ids /\ out[a].calls = <<>> /\ BufferType
    BY <1>1, <1>2, <2>1, ScriptId DEF SendsRaw, Rest
  <2>3. PICK m, c : m = [op |-> Binary, body |-> Payload(a, id)] /\ c = Raw(a, id)
    OBVIOUS
  <2>4. Sending(a, << c >>, << m >>)
    BY <1>2, <2>1, <2>3 DEF SendsRaw, SendRaw
  <2>5. Text \in Opcode
    BY DEF Opcode
  <2>6. m \in Entry
    BY <2>2, <2>3, <2>5, PayloadEntry
  <2>7. << c >> \in Buffers
    BY <2>2, <2>3, RawFacts DEF Buffers
  <2>8. SendsNow(a, << c >>, << m >>)
    BY <2>2, <2>4, <2>7 DEF SendsNow
  <2>9. QED
    BY <2>6, <2>8 DEF SendsOne
<1>3. CASE SendsFrames(a)
  BY <1>3, FramesSend DEF SendsOne
<1>4. CASE SendsNothing(a)
  <2>1. Sending(a, <<>>, <<>>) /\ out[a].calls = <<>>
    BY <1>4, ScriptId DEF SendsNothing, SendNothing
  <2>2. SendsNow(a, <<>>, <<>>)
    BY <2>1 DEF SendsNow, Buffers
  <2>3. QED
    BY <2>2 DEF SendsOne
<1>5. QED
  BY <1>2, <1>3, <1>4

(* A step of e's direction, whatever step the connection takes. *)
FollowsStep(e) ==
  Follows(sent[Peer(e)], got[e], Spoilt(Peer(e)), sent'[Peer(e)], got'[e], Spoilt(Peer(e))')

LEMMA KindsFollow ==
  ASSUME Base, NEW a \in End, Kinds(a), NEW e \in End, Incoming(e)
  PROVE  FollowsStep(e)
<1>1. PICK x : x = Peer(e)
  OBVIOUS
<1>2. x \in End /\ x # e /\ Rest
  BY <1>1, Ends, RestOf
<1>3. Spoilt(x) => Spoilt(x)'
  BY <1>2, KindsFirm, SpoiltStays
<1>4. ASSUME sent'[x] = sent[x], got'[e] = got[e] PROVE FollowsStep(e)
  BY <1>1, <1>3, <1>4 DEF FollowsStep, Follows
<1>5. CASE sent' = sent /\ got' = got
  BY <1>4, <1>5
<1>6. ASSUME NEW t, NEW cb, Turning(a, t, cb) PROVE FollowsStep(e)
  <2>1. sent' = sent /\ got' = [got EXCEPT ![a] = @ \o cb] /\ cb \in Seq(Entry)
    BY <1>6, CallbackType DEF Turning, Handled
  <2>2. CASE e # a
    BY <1>2, <1>4, <2>1, <2>2 DEF Rest
  <2>3. CASE e = a /\ cb = <<>>
    <3>1. got'[e] = got[e]
      BY <1>2, <2>1, <2>3 DEF Rest
    <3>2. QED
      BY <1>4, <2>1, <3>1
  <2>4. CASE e = a /\ cb # <<>> /\ ~Spoilt(x)
    <3>1. Len(got[e]) < Len(sent[x]) /\ cb = << sent[x][Len(got[e]) + 1] >>
      BY <1>1, <1>6, <2>4, TurnGives
    <3>2. got'[e] = got[e] \o cb
      BY <1>2, <2>1, <2>4 DEF Rest
    <3>3. QED
      BY <1>1, <1>3, <2>1, <3>1, <3>2 DEF FollowsStep, Follows
  <2>5. CASE Spoilt(x)
    BY <1>1, <1>3, <2>5 DEF FollowsStep, Follows
  <2>6. QED
    BY <2>2, <2>3, <2>4, <2>5
<1>7. ASSUME NEW calls, NEW entry, SendsNow(a, calls, entry), entry = <<>> \/ \E m \in Entry : entry = << m >>
      PROVE  FollowsStep(e)
  <2>1. sent'[a] = sent[a] \o entry /\ (\A y \in End : y # a => sent'[y] = sent[y]) /\ got' = got
    BY <1>2, <1>7, SendingFacts
  <2>2. CASE x # a
    BY <1>2, <1>4, <2>1, <2>2
  <2>3. CASE x = a /\ entry = <<>>
    <3>1. sent'[x] = sent[x]
      BY <1>2, <2>1, <2>3 DEF Rest
    <3>2. QED
      BY <1>4, <2>1, <3>1
  <2>4. CASE x = a /\ \E m \in Entry : entry = << m >>
    BY <1>1, <1>3, <2>1, <2>4 DEF FollowsStep, Follows
  <2>5. QED
    BY <1>7, <2>2, <2>3, <2>4
<1>8. CASE SendsRaw(a) \/ SendsFrames(a) \/ SendsNothing(a)
  <2>1. SendsOne(a)
    BY <1>8, SendKinds
  <2>2. CASE \E calls : SendsNow(a, calls, <<>>)
    BY <1>7, <2>2
  <2>3. CASE \E calls, m : m \in Entry /\ SendsNow(a, calls, << m >>)
    BY <1>7, <2>3
  <2>4. QED
    BY <2>1, <2>2, <2>3 DEF SendsOne
<1>9. CASE \E t : Parks(a, t)
  BY <1>5, <1>9 DEF Parks
<1>10. CASE \E t : Starts(a, t)
  BY <1>5, <1>10 DEF Starts
<1>11. CASE UNCHANGED connVars /\ \E n \in Nat : Writes(a, n)
  BY <1>5, <1>11 DEF connVars
<1>12. CASE \E t, n : Arrives(a, t, n)
  BY <1>5, <1>12 DEF Arrives
<1>13. QED
  BY <1>6, <1>8, <1>9, <1>10, <1>11, <1>12 DEF Kinds

LEMMA StepFollows ==
  ASSUME Base, InOrder, [Next]_vars, NEW e \in End
  PROVE  FollowsStep(e)
<1>1. PICK a \in End : Kinds(a)
  BY NextKinds
<1>2. QED
  BY <1>1, KindsFollow DEF InOrder

(* A step of Follows is a step of MessageStream. *)
LEMMA FollowsGrows ==
  ASSUME NEW snt \in Seq(Entry), NEW m \in Entry, NEW snt2, snt2 = snt \o << m >>
  PROVE  Len(snt2) = Len(snt) + 1 /\ SubSeq(snt2, 1, Len(snt)) = snt
<1>1. << m >> \in Seq(Entry) /\ Len(<< m >>) = 1
  OBVIOUS
<1>2. /\ snt \o << m >> \in Seq(Entry) /\ Len(snt \o << m >>) = Len(snt) + Len(<< m >>)
      /\ \A i \in 1 .. Len(snt) + Len(<< m >>) :
           (snt \o << m >>)[i] = IF i <= Len(snt) THEN snt[i] ELSE << m >>[i - Len(snt)]
  BY <1>1, ConcatProperties
<1>3. PICK n \in Nat : n = Len(snt)
  BY LenProperties
<1>4. snt2 \in Seq(Entry) /\ Len(snt2) = n + 1 /\ \A i \in 1 .. n : snt2[i] = snt[i]
  BY <1>1, <1>2, <1>3
<1>5. SubSeq(snt2, 1, n) = snt
  <2>1. SubSeq(snt2, 1, n) \in Seq(Entry) /\ Len(SubSeq(snt2, 1, n)) = n /\ \A i \in 1 .. n : SubSeq(snt2, 1, n)[i] = snt2[i]
    BY <1>4
  <2>2. QED
    BY <1>3, <1>4, <2>1
<1>6. QED
  BY <1>3, <1>4, <1>5

LEMMA SpoiltBoolean ==
  ASSUME Base, NEW x \in End
  PROVE  Spoilt(x) \in BOOLEAN
<1>1. out[x].cut \in BOOLEAN /\ Mismatched \in BOOLEAN /\ Fragmented(x) \in BOOLEAN
  BY RestOf DEF Rest, OutType, Mismatched, Fragmented
<1>2. QED
  BY <1>1 DEF Spoilt

(* The step the interface MessageStream allows. *)
StreamStep(snt, g, sp, snt2, g2, sp2) ==
  \/ snt2 = snt /\ g2 = g /\ sp2 = sp
  \/ /\ sp => sp2
     /\ \/ sp2 = TRUE
        \/ /\ ~sp2
           /\ \/ Len(snt2) = Len(snt) + 1 /\ SubSeq(snt2, 1, Len(snt)) = snt /\ g2 = g
              \/ Len(g) < Len(snt) /\ g2 = Append(g, snt[Len(g) + 1]) /\ snt2 = snt

LEMMA FollowsStream ==
  ASSUME NEW snt \in Seq(Entry), NEW g \in Seq(Entry), NEW sp \in BOOLEAN, NEW snt2, NEW g2, NEW sp2 \in BOOLEAN,
         Follows(snt, g, sp, snt2, g2, sp2)
  PROVE  StreamStep(snt, g, sp, snt2, g2, sp2)
<1>1. CASE sp2 = TRUE
  BY <1>1 DEF StreamStep
<1>2. CASE sp2 = FALSE
  <2>1. sp = FALSE
    BY <1>2 DEF Follows
  <2>2. CASE snt2 = snt /\ g2 = g
    BY <1>2, <2>1, <2>2 DEF StreamStep
  <2>3. CASE g2 = g /\ \E m \in Entry : snt2 = snt \o << m >>
    BY <1>2, <2>1, <2>3, FollowsGrows DEF StreamStep
  <2>4. CASE snt2 = snt /\ Len(g) < Len(snt) /\ g2 = g \o << snt[Len(g) + 1] >>
    <3>1. PICK m : m = snt[Len(g) + 1]
      OBVIOUS
    <3>2. m \in Entry
      BY <2>4, <3>1, LenProperties, ElementOfSeq
    <3>3. g2 = Append(g, m)
      BY <2>4, <3>1, <3>2, AppendIsConcat
    <3>4. QED
      BY <1>2, <2>1, <2>4, <3>1, <3>3 DEF StreamStep
  <2>5. QED
    BY <1>2, <2>2, <2>3, <2>4 DEF Follows
<1>3. QED
  BY <1>1, <1>2

LEMMA StepStreams ==
  ASSUME Base, Base', InOrder, [Next]_vars, NEW e \in End
  PROVE  StreamStep(sent[Peer(e)], got[e], Spoilt(Peer(e)), sent'[Peer(e)], got'[e], Spoilt(Peer(e))')
<1>1. PICK x : x = Peer(e)
  OBVIOUS
<1>2. x \in End
  BY <1>1, Ends
<1>3. sent[x] \in Seq(Entry) /\ got[e] \in Seq(Entry) /\ Spoilt(x) \in BOOLEAN
  BY <1>2, RestOf, SpoiltBoolean DEF Rest
<1>4. Spoilt(x)' \in BOOLEAN
  <2>1. out' \in [End -> OutType]
    BY DEF Base, Types
  <2>2. out'[x].cut \in BOOLEAN
    BY <1>2, <2>1 DEF OutType
  <2>3. Mismatched' \in BOOLEAN /\ Fragmented(x)' \in BOOLEAN
    BY DEF Mismatched, Fragmented
  <2>4. QED
    BY <2>2, <2>3 DEF Spoilt
<1>5. Follows(sent[x], got[e], Spoilt(x), sent'[x], got'[e], Spoilt(x)')
  BY <1>1, StepFollows DEF FollowsStep
<1>6. PICK sp, sp2 : sp = Spoilt(x) /\ sp2 = Spoilt(x)'
  OBVIOUS
<1>7. StreamStep(sent[x], got[e], sp, sent'[x], got'[e], sp2)
  BY <1>3, <1>4, <1>5, <1>6, FollowsStream
<1>8. QED
  BY <1>1, <1>6, <1>7

LEMMA StreamStarts ==
  ASSUME Init, NEW e \in End
  PROVE  sent[Peer(e)] = <<>> /\ got[e] = <<>> /\ Spoilt(Peer(e)) = FALSE
<1>1. PICK x : x = Peer(e)
  OBVIOUS
<1>2. x \in End
  BY <1>1, Ends
<1>3. sent[x] = <<>> /\ got[e] = <<>> /\ out[x] = NewOut
  BY <1>2 DEF Init, StreamInit
<1>4. \A y \in End : sock[y].status # "WebSocket"
  BY DEF Init, NewSocket
<1>5. ~NewOut.cut
  BY DEF NewOut
<1>6. QED
  BY <1>1, <1>2, <1>3, <1>4, <1>5 DEF Spoilt, Mismatched, Fragmented

LEMMA InOrderAlways == Spec => [](Base /\ InOrder)
<1>1. Init => Base /\ InOrder
  BY InitBase, InitOrder
<1>2. Base /\ InOrder /\ [Next]_vars => Base' /\ InOrder'
  BY NextBase, NextOrder
<1>3. QED
  BY <1>1, <1>2, PTL DEF Spec

LEMMA PeerOf ==
  /\ Peer("server") = "client" /\ Peer("client") = "server" /\ "server" \in End /\ "client" \in End
BY DEF Peer, End

LEMMA ToServerStream == Spec => ToServer!Spec
<1>1. Init => ToServer!Init
  BY StreamStarts, PeerOf DEF ToServer!Init
<1>2. Base /\ Base' /\ InOrder /\ [Next]_vars =>
        [(Spoilt("client") => Spoilt("client")') /\ ToServer!Next]_<<sent["client"], got["server"], Spoilt("client")>>
  <2>1. SUFFICES ASSUME Base, Base', InOrder, [Next]_vars
                 PROVE  [(Spoilt("client") => Spoilt("client")') /\ ToServer!Next]_<<sent["client"], got["server"], Spoilt("client")>>
    OBVIOUS
  <2>2. StreamStep(sent["client"], got["server"], Spoilt("client"), sent'["client"], got'["server"], Spoilt("client")')
    BY <2>1, StepStreams, PeerOf
  <2>3. QED
    BY <2>2 DEF StreamStep, ToServer!Next, ToServer!Spoil, ToServer!Send, ToServer!Deliver
<1>3. QED
  BY <1>1, <1>2, InOrderAlways, PTL DEF Spec, ToServer!Spec

LEMMA ToClientStream == Spec => ToClient!Spec
<1>1. Init => ToClient!Init
  BY StreamStarts, PeerOf DEF ToClient!Init
<1>2. Base /\ Base' /\ InOrder /\ [Next]_vars =>
        [(Spoilt("server") => Spoilt("server")') /\ ToClient!Next]_<<sent["server"], got["client"], Spoilt("server")>>
  <2>1. SUFFICES ASSUME Base, Base', InOrder, [Next]_vars
                 PROVE  [(Spoilt("server") => Spoilt("server")') /\ ToClient!Next]_<<sent["server"], got["client"], Spoilt("server")>>
    OBVIOUS
  <2>2. StreamStep(sent["server"], got["client"], Spoilt("server"), sent'["server"], got'["client"], Spoilt("server")')
    BY <2>1, StepStreams, PeerOf
  <2>3. QED
    BY <2>2 DEF StreamStep, ToClient!Next, ToClient!Spoil, ToClient!Send, ToClient!Deliver
<1>3. QED
  BY <1>1, <1>2, InOrderAlways, PTL DEF Spec, ToClient!Spec

(* However the bytes of a connection are cut into reads, buffers and       *)
(* frames, each end hands its callbacks exactly the messages the other has *)
(* sent, whole, once and in order, until a send is cut short, a message    *)
(* needs two frames, or the ends leave the handshake with different        *)
(* transports.                                                             *)
THEOREM MessagesInOrder == Spec => MessageStreamSpec
BY ToServerStream, ToClientStream, PTL DEF MessageStreamSpec

-----------------------------------------------------------------------------
(* The application's buffers *)

(* e has sent its message id, or has sent it twice. *)
SentOnce(e, id) == \E k \in 1 .. next[e] - 1 : conf.script[e][k] = id
SentTwice(e, id) == \E k, l \in 1 .. next[e] - 1 : k < l /\ conf.script[e][k] = id /\ conf.script[e][l] = id

(* A buffer that is masked has been sent. *)
Marked(e) == \A id \in Ids : \A i \in 1 .. Message[id].n : buffer[e][id][i] # {} => SentOnce(e, id)

(* A cell of a message, masked only in a message sent before. *)
Fair(e, cell) == cell[1] = "pl" /\ cell[4] # {} => SentTwice(e, cell[2])
FairBody(e, m) == \A j \in 1 .. Len(m.body) : Fair(e, m.body[j])
FairSent(e) == \A i \in 1 .. Len(sent[e]) : FairBody(e, sent[e][i])

Masks == \A e \in End : Marked(e) /\ FairSent(e)

(* What has been received was sent. *)
Handed(e) == \/ Spoilt(Peer(e))
               \/ /\ Len(got[e]) <= Len(sent[Peer(e)])
                  /\ \A i \in 1 .. Len(got[e]) : got[e][i] = sent[Peer(e)][i]

(* The message that is sent next has been counted. *)
Counted(a) ==
  /\ CanSend(a) /\ next' = [next EXCEPT ![a] = @ + 1] /\ conf' = conf
  /\ \E id, m : /\ id = conf.script[a][next[a]] /\ sent' = [sent EXCEPT ![a] = @ \o m]
                /\ m = <<>> \/ \E b \in {<<>>, Payload(a, id)}, op \in Opcode : m = << [op |-> op, body |-> b] >>
                /\ \A e \in End, d \in Ids : <<e, d>> # <<a, id>> => buffer'[e][d] = buffer[e][d]

LEMMA OpcodeNat == Opcode \subseteq Nat
  BY DEF Opcode, Text, Binary, CloseOp, PingOp, PongOp

LEMMA OneEntryMore ==
  ASSUME NEW s \in Seq(Entry), NEW y \in Entry, NEW r, r = s \o << y >>
  PROVE  /\ Len(s) \in Nat /\ Len(r) = Len(s) + 1
         /\ \A i \in 1 .. Len(s) + 1 : r[i] = IF i <= Len(s) THEN s[i] ELSE y
<1>1. << y >> \in Seq(Entry) /\ Len(<< y >>) = 1 /\ << y >>[1] = y
  OBVIOUS
<1>2. /\ s \o << y >> \in Seq(Entry) /\ Len(s \o << y >>) = Len(s) + Len(<< y >>)
      /\ \A i \in 1 .. Len(s) + Len(<< y >>) :
           (s \o << y >>)[i] = IF i <= Len(s) THEN s[i] ELSE << y >>[i - Len(s)]
  BY <1>1, ConcatProperties
<1>3. PICK n \in Nat : n = Len(s)
  BY LenProperties
<1>4. \A i \in 1 .. n + 1 : i <= n \/ i - n = 1
  OBVIOUS
<1>5. QED
  BY <1>1, <1>2, <1>3, <1>4

LEMMA CountedRaw ==
  ASSUME Base, NEW a \in End, SendsRaw(a) \/ SendsNothing(a)
  PROVE  Counted(a)
<1>1. PICK id : id = conf.script[a][next[a]]
  OBVIOUS
<1>2. CASE SendsRaw(a)
  <2>1. CanSend(a) /\ Sending(a, << Raw(a, id) >>, << [op |-> Binary, body |-> Payload(a, id)] >>) /\ buffer' = buffer
    BY <1>1, <1>2 DEF SendsRaw, SendRaw
  <2>2. PICK m : m = << [op |-> Binary, body |-> Payload(a, id)] >>
    OBVIOUS
  <2>3. sent' = [sent EXCEPT ![a] = @ \o m] /\ next' = [next EXCEPT ![a] = @ + 1] /\ conf' = conf
    BY <2>1, <2>2 DEF Sending
  <2>4. \E b \in {<<>>, Payload(a, id)}, op \in Opcode : m = << [op |-> op, body |-> b] >>
    BY <2>2 DEF Opcode
  <2>5. QED
    BY <1>1, <2>1, <2>3, <2>4 DEF Counted
<1>3. CASE SendsNothing(a)
  <2>1. CanSend(a) /\ Sending(a, <<>>, <<>>) /\ buffer' = buffer
    BY <1>3 DEF SendsNothing, SendNothing
  <2>2. sent' = [sent EXCEPT ![a] = @ \o <<>>] /\ next' = [next EXCEPT ![a] = @ + 1] /\ conf' = conf
    BY <2>1 DEF Sending
  <2>3. QED
    BY <1>1, <2>1, <2>2 DEF Counted
<1>4. QED
  BY <1>2, <1>3

LEMMA CountedFrames ==
  ASSUME Base, NEW a \in End, SendsFrames(a)
  PROVE  Counted(a)
<1>1. CanSend(a) /\ BufferType
  BY RestOf DEF SendsFrames, Rest
<1>2. PICK masked \in BOOLEAN : SendFrames(a, masked) /\ (masked => Cls(a) = "HBSocketClient")
  BY DEF SendsFrames
<1>3. PICK id, key, calls : Framed(a, id, key, calls)
  BY <1>1, <1>2, SendFramesIs
<1>4. PICK op, b, m : /\ op = Message[id].op /\ b = Payload(a, id) /\ m = << Seen(op, b) >>
  OBVIOUS
<1>5. id = conf.script[a][next[a]] /\ id \in Ids /\ op \in Opcode
  BY <1>3, <1>4, MessageFacts DEF Framed
<1>6. sent' = [sent EXCEPT ![a] = @ \o m] /\ next' = [next EXCEPT ![a] = @ + 1] /\ conf' = conf
  BY <1>3, <1>4 DEF Framed, Sending
<1>7. PICK c \in {<<>>, b}, p \in Opcode : m = << [op |-> p, body |-> c] >>
  BY <1>4, <1>5 DEF Seen, Opcode
<1>8. PICK held : held = [i \in DOMAIN buffer[a][id] |-> Xor(buffer[a][id][i], key[((i - 1) \div MaxMessageSize) + 1])]
  OBVIOUS
<1>9. buffer' = [buffer EXCEPT ![a][id] = held]
  BY <1>3, <1>8 DEF Framed
<1>10. \A e \in End, d \in Ids : <<e, d>> # <<a, id>> => buffer'[e][d] = buffer[e][d]
  BY <1>1, <1>5, <1>9 DEF BufferType
<1>11. QED
  BY <1>1, <1>4, <1>5, <1>6, <1>7, <1>10 DEF Counted

LEMMA SentStays ==
  ASSUME Base, NEW a \in End, next' = [next EXCEPT ![a] = @ + 1], conf' = conf, NEW e \in End, NEW id
  PROVE  /\ SentOnce(e, id) => SentOnce(e, id)'
         /\ SentTwice(e, id) => SentTwice(e, id)'
<1>1. next \in [End -> Nat \ {0}]
  BY RestOf DEF Rest
<1>2. PICK n \in Nat, n2 \in Nat : n = next[e] - 1 /\ n2 = next'[e] - 1 /\ n <= n2
  BY <1>1
<1>3. \A k \in 1 .. n : k \in 1 .. n2
  BY <1>2
<1>4. SentOnce(e, id) => SentOnce(e, id)'
  BY <1>2, <1>3 DEF SentOnce
<1>5. QED
  BY <1>2, <1>3, <1>4 DEF SentTwice

LEMMA CountedMasks ==
  ASSUME Base, Masks, NEW a \in End, Counted(a)
  PROVE  Masks'
<1>1. PICK id, m : /\ id = conf.script[a][next[a]] /\ sent' = [sent EXCEPT ![a] = @ \o m]
                   /\ m = <<>> \/ \E b \in {<<>>, Payload(a, id)}, op \in Opcode : m = << [op |-> op, body |-> b] >>
                   /\ \A e \in End, d \in Ids : <<e, d>> # <<a, id>> => buffer'[e][d] = buffer[e][d]
  BY DEF Counted
<1>2. next' = [next EXCEPT ![a] = @ + 1] /\ conf' = conf /\ id \in Ids /\ CanSend(a)
  BY <1>1, ScriptId DEF Counted
<1>3. BufferType /\ sent \in [End -> Seq(Entry)] /\ next \in [End -> Nat \ {0}]
  BY RestOf DEF Rest
<1>4. PICK n \in Nat : n = next[a] /\ n >= 1 /\ next'[a] = n + 1
  BY <1>2, <1>3
<1>5. SentOnce(a, id)'
  <2>1. n \in 1 .. next'[a] - 1 /\ conf'.script[a][n] = id
    BY <1>1, <1>2, <1>4
  <2>2. QED
    BY <2>1 DEF SentOnce
<1>6. SentOnce(a, id) => SentTwice(a, id)'
  <2>1. SUFFICES ASSUME NEW k \in 1 .. n - 1, conf.script[a][k] = id PROVE SentTwice(a, id)'
    BY <1>4 DEF SentOnce
  <2>2. k \in 1 .. next'[a] - 1 /\ n \in 1 .. next'[a] - 1 /\ k < n
    BY <1>4, <2>1
  <2>3. conf'.script[a][k] = id /\ conf'.script[a][n] = id
    BY <1>1, <1>2, <1>4, <2>1
  <2>4. QED
    BY <2>2, <2>3 DEF SentTwice
<1>7. ASSUME NEW e \in End PROVE Marked(e)'
  <2>1. SUFFICES ASSUME NEW d \in Ids, NEW i \in 1 .. Message[d].n, buffer'[e][d][i] # {} PROVE SentOnce(e, d)'
    BY DEF Marked, Ids
  <2>2. CASE <<e, d>> = <<a, id>>
    BY <1>5, <2>2
  <2>3. CASE <<e, d>> # <<a, id>>
    <3>1. buffer[e][d][i] # {}
      BY <1>1, <2>1, <2>3
    <3>2. SentOnce(e, d)
      BY <3>1 DEF Masks, Marked
    <3>3. QED
      BY <1>2, <3>2, SentStays
  <2>4. QED
    BY <2>2, <2>3
<1>8. ASSUME NEW e \in End, NEW w, FairBody(e, w) PROVE FairBody(e, w)'
  BY <1>2, <1>8, SentStays DEF FairBody, Fair
<1>9. ASSUME NEW b \in {<<>>, Payload(a, id)}, NEW op PROVE FairBody(a, [op |-> op, body |-> b])'
  <2>1. CASE b = <<>>
    BY <2>1 DEF FairBody
  <2>2. CASE b = Payload(a, id)
    <3>1. Message[id].n \in Nat
      BY <1>2, MessageFacts
    <3>2. SUFFICES ASSUME NEW j \in 1 .. Message[id].n, Payload(a, id)[j][4] # {} PROVE SentTwice(a, id)'
      <4>1. Len(b) = Message[id].n
        BY <2>2, <3>1 DEF Payload
      <4>2. \A j \in 1 .. Message[id].n : b[j][2] = id
        BY <2>2 DEF Payload
      <4>3. QED
        BY <2>2, <4>1, <4>2 DEF FairBody, Fair
    <3>3. buffer[a][id][j] # {}
      BY <3>2 DEF Payload
    <3>4. SentOnce(a, id)
      BY <1>2, <3>3 DEF Masks, Marked
    <3>5. QED
      BY <1>6, <3>4
  <2>3. QED
    BY <2>1, <2>2
<1>10. ASSUME NEW e \in End PROVE FairSent(e)'
  <2>1. CASE e # a \/ m = <<>>
    <3>1. PICK s : s = sent[e] /\ \A i \in 1 .. Len(s) : FairBody(e, s[i])'
      BY <1>8 DEF Masks, FairSent
    <3>2. sent'[e] = s
      BY <1>1, <1>3, <2>1, <3>1
    <3>3. QED
      BY <3>1, <3>2 DEF FairSent
  <2>2. CASE e = a /\ \E b \in {<<>>, Payload(a, id)}, op \in Opcode : m = << [op |-> op, body |-> b] >>
    <3>1. PICK b \in {<<>>, Payload(a, id)}, op \in Opcode : m = << [op |-> op, body |-> b] >>
      BY <2>2
    <3>2. b \in Seq(AnyCell)
      <4>1. op \in Opcode /\ (b = <<>> \/ b = Payload(a, id))
        BY <3>1
      <4>2. Payload(a, id) \in Seq(AnyCell)
        BY <1>2, <1>3, <4>1, PayloadEntry
      <4>3. <<>> \in Seq(AnyCell)
        OBVIOUS
      <4>4. QED
        BY <4>1, <4>2, <4>3
    <3>3. PICK y \in Entry : m = << y >> /\ FairBody(a, y)'
      <4>1. PICK y : y = [op |-> op, body |-> b]
        OBVIOUS
      <4>2. y \in Entry
        BY <3>1, <3>2, <4>1, OpcodeNat DEF Entry
      <4>3. FairBody(a, y)'
        BY <1>9, <3>1, <4>1
      <4>4. QED
        BY <3>1, <4>1, <4>2, <4>3
    <3>4. PICK s \in Seq(Entry) : s = sent[a] /\ \A i \in 1 .. Len(s) : FairBody(a, s[i])'
      BY <1>3, <1>8 DEF Masks, FairSent
    <3>5. PICK r : r = s \o << y >>
      OBVIOUS
    <3>6. sent'[a] = r
      BY <1>1, <1>3, <3>3, <3>4, <3>5
    <3>7. /\ Len(s) \in Nat /\ Len(r) = Len(s) + 1
          /\ \A i \in 1 .. Len(s) + 1 : r[i] = IF i <= Len(s) THEN s[i] ELSE y
      BY <3>3, <3>4, <3>5, OneEntryMore
    <3>8. ASSUME NEW i \in 1 .. Len(s) + 1 PROVE FairBody(a, r[i])'
      <4>1. CASE i <= Len(s)
        BY <3>4, <3>7, <3>8, <4>1
      <4>2. CASE ~(i <= Len(s))
        BY <3>3, <3>7, <3>8, <4>2
      <4>3. QED
        BY <4>1, <4>2
    <3>9. QED
      BY <2>2, <3>6, <3>7, <3>8 DEF FairSent
  <2>3. QED
    BY <1>1, <2>1, <2>2
<1>11. QED
  BY <1>7, <1>10 DEF Masks

LEMMA NextMasks ==
  ASSUME Base, Masks, [Next]_vars
  PROVE  Masks'
<1>1. PICK a \in End : Kinds(a)
  BY NextKinds
<1>2. CASE UNCHANGED << next, conf, buffer, sent >>
  <2>1. \A e \in End : Marked(e) => Marked(e)'
    BY <1>2 DEF Marked, SentOnce, Ids
  <2>2. \A e \in End : FairSent(e) => FairSent(e)'
    BY <1>2 DEF FairSent, FairBody, Fair, SentTwice
  <2>3. QED
    BY <2>1, <2>2 DEF Masks
<1>3. CASE Counted(a)
  BY <1>3, CountedMasks
<1>4. CASE \E t : Parks(a, t)
  BY <1>2, <1>4 DEF Parks
<1>5. CASE \E t : Starts(a, t)
  BY <1>2, <1>5 DEF Starts
<1>6. CASE UNCHANGED connVars /\ \E n \in Nat : Writes(a, n)
  BY <1>2, <1>6 DEF connVars
<1>7. CASE \E t, n : Arrives(a, t, n)
  BY <1>2, <1>7 DEF Arrives
<1>8. CASE \E t, cb : Turning(a, t, cb)
  BY <1>2, <1>8 DEF Turning, Handled
<1>9. QED
  BY <1>1, <1>3, <1>4, <1>5, <1>6, <1>7, <1>8, CountedRaw, CountedFrames DEF Kinds

LEMMA InitMasks ==
  ASSUME Init
  PROVE  Masks
<1>1. \A e \in End, id \in Ids : \A i \in 1 .. Message[id].n : buffer[e][id][i] = {}
  BY DEF Init, Ids
<1>2. \A e \in End : sent[e] = <<>>
  BY DEF Init
<1>3. QED
  BY <1>1, <1>2 DEF Masks, Marked, FairSent

LEMMA NextHanded ==
  ASSUME Base, InOrder, [Next]_vars, NEW e \in End, Handed(e)
  PROVE  Handed(e)'
<1>1. PICK x, g, n, g2, n2 : x = Peer(e) /\ g = got[e] /\ n = sent[x] /\ g2 = got'[e] /\ n2 = sent'[x]
  OBVIOUS
<1>2. g \in Seq(Entry) /\ n \in Seq(Entry) /\ Len(g) \in Nat /\ Len(n) \in Nat
  BY <1>1, Ends, RestOf, LenProperties DEF Rest
<1>3. Follows(n, g, Spoilt(x), n2, g2, Spoilt(x)')
  BY <1>1, StepFollows DEF FollowsStep
<1>4. CASE Spoilt(x)'
  BY <1>1, <1>4 DEF Handed
<1>5. CASE ~Spoilt(x)'
  <2>1. Len(g) <= Len(n) /\ \A i \in 1 .. Len(g) : g[i] = n[i]
    BY <1>1, <1>3, <1>5 DEF Follows, Handed
  <2>2. Len(g2) <= Len(n2) /\ \A i \in 1 .. Len(g2) : g2[i] = n2[i]
    <3>1. CASE n2 = n /\ g2 = g
      BY <2>1, <3>1
    <3>2. CASE g2 = g /\ \E m \in Entry : n2 = n \o << m >>
      <4>1. PICK m \in Entry : n2 = n \o << m >>
        BY <3>2
      <4>2. Len(n2) = Len(n) + 1 /\ \A i \in 1 .. Len(n) + 1 : n2[i] = IF i <= Len(n) THEN n[i] ELSE m
        BY <1>2, <4>1, OneEntryMore
      <4>3. QED
        BY <1>2, <2>1, <3>2, <4>2
    <3>3. CASE n2 = n /\ Len(g) < Len(n) /\ g2 = g \o << n[Len(g) + 1] >>
      <4>1. PICK m : m = n[Len(g) + 1]
        OBVIOUS
      <4>2. m \in Entry
        BY <1>2, <3>3, <4>1, ElementOfSeq
      <4>3. Len(g2) = Len(g) + 1 /\ \A i \in 1 .. Len(g) + 1 : g2[i] = IF i <= Len(g) THEN g[i] ELSE m
        BY <1>2, <3>3, <4>1, <4>2, OneEntryMore
      <4>4. QED
        BY <1>2, <2>1, <3>3, <4>1, <4>3
    <3>4. QED
      BY <1>3, <1>5, <3>1, <3>2, <3>3 DEF Follows
  <2>3. QED
    BY <1>1, <2>2 DEF Handed
<1>6. QED
  BY <1>4, <1>5

LEMMA InitHanded ==
  ASSUME Init, NEW e \in End
  PROVE  Handed(e)
<1>1. sent[Peer(e)] = <<>> /\ got[e] = <<>>
  BY StreamStarts
<1>2. Len(<<>>) = 0
  OBVIOUS
<1>3. QED
  BY <1>1, <1>2 DEF Handed

LEMMA Unmasks ==
  ASSUME Base, Masks, \A e \in End : Handed(e)
  PROVE  UnmaskedUnlessResent
<1>1. SUFFICES ASSUME NEW e \in End, NEW i \in 1 .. Len(got[e]), NEW j \in 1 .. Len(got[e][i].body),
                      NEW cell, cell = got[e][i].body[j], cell[1] = "pl", cell[4] # {}, ~Spoilt(Peer(e))
               PROVE  Cardinality({k \in 1 .. (next[Peer(e)] - 1) : conf.script[Peer(e)][k] = cell[2]}) > 1
  BY DEF UnmaskedUnlessResent
<1>2. PICK x : x = Peer(e) /\ x \in End
  BY Ends
<1>3. Len(got[e]) <= Len(sent[x]) /\ got[e][i] = sent[x][i]
  BY <1>1, <1>2 DEF Handed
<1>4. i \in 1 .. Len(sent[x])
  <2>1. Len(got[e]) \in Nat /\ Len(sent[x]) \in Nat
    BY <1>2, RestOf, LenProperties DEF Rest
  <2>2. QED
    BY <1>1, <1>3, <2>1
<1>5. SentTwice(x, cell[2])
  BY <1>1, <1>2, <1>3, <1>4 DEF Masks, FairSent, FairBody, Fair
<1>6. PICK n \in Nat : n = next[x] - 1
  BY <1>2, RestOf DEF Rest
<1>7. PICK S : S = {k \in 1 .. n : conf.script[x][k] = cell[2]}
  OBVIOUS
<1>8. PICK k \in 1 .. n, l \in 1 .. n : k < l /\ k \in S /\ l \in S
  BY <1>5, <1>6, <1>7 DEF SentTwice
<1>9. IsFiniteSet(1 .. n) /\ S \subseteq 1 .. n
  <2>1. n \in Int /\ 1 \in Int
    BY <1>6
  <2>2. IsFiniteSet(1 .. n)
    BY <2>1, FS_Interval
  <2>3. S \subseteq 1 .. n
    BY <1>7
  <2>4. QED
    BY <2>2, <2>3
<1>10. IsFiniteSet(S) /\ Cardinality(S) \in Nat
  BY <1>9, FS_Subset, FS_CardinalityType
<1>11. {k, l} \subseteq S /\ k # l
  BY <1>8
<1>12. Cardinality({k, l}) = 2
  <2>1. IsFiniteSet({k}) /\ Cardinality({k}) = 1 /\ l \notin {k} /\ {k} \cup {l} = {k, l}
    BY <1>11, FS_Singleton
  <2>2. Cardinality({k} \cup {l}) = Cardinality({k}) + 1
    BY <2>1, FS_AddElement
  <2>3. Cardinality({k, l}) = Cardinality({k}) + 1
    BY <2>1, <2>2, Zenon
  <2>4. PICK c : c = Cardinality({k}) /\ c = 1
    BY <2>1
  <2>5. QED
    BY <2>3, <2>4
<1>13. Cardinality({k, l}) <= Cardinality(S)
  BY <1>10, <1>11, FS_Subset
<1>14. Cardinality(S) > 1
  BY <1>10, <1>12, <1>13
<1>15. QED
  BY <1>2, <1>6, <1>7, <1>14

(* What a callback is given of a payload is unmasked, unless the stream is *)
(* spoilt or the application has sent the same buffer before: the client's *)
(* send masks the payload where it lies.                                   *)
THEOREM UnmaskedOnce == Spec => []UnmaskedUnlessResent
<1> DEFINE Inv == Base /\ InOrder /\ Masks /\ \A e \in End : Handed(e)
<1>1. Init => Inv
  BY InitBase, InitOrder, InitMasks, InitHanded
<1>2. Inv /\ [Next]_vars => Inv'
  BY NextBase, NextOrder, NextMasks, NextHanded
<1>3. Inv => UnmaskedUnlessResent
  BY Unmasks
<1>4. QED
  BY <1>1, <1>2, <1>3, PTL DEF Spec

-----------------------------------------------------------------------------
(* The cells that say how long something is *)

Issued(x) == {id \in Ids : SentOnce(x, id)}

(* No longer than a message of S. *)
AtMost(S, n) == \E id \in S : n <= Message[id].n

(* A size is that of a message of S, a length that of a frame of one. *)
Known(S, c) ==
  /\ c[1] = "sz" => c[2] \in S /\ c[3] = (IF Message[c[2]].zero THEN 0 ELSE Message[c[2]].n + 1)
  /\ c[1] = "h2" /\ c[3] <= Len7Max => AtMost(S, c[3])
  /\ c[1] = "ex" => AtMost(S, c[2])

AllKnown(S, d) == \A i \in 1 .. Len(d) : Known(S, d[i])
CallsKnown(S, calls) == \A j \in 1 .. Len(calls) : AllKnown(S, calls[j])

(* What a socket has received, and the length its frame reader has made of *)
(* it, unless the reader has refused a frame.                              *)
Sound(S, s) ==
  \/ Refused(s.frame)
  \/ /\ \A i \in 1 .. s.left : Known(S, Window(s)[i])
     /\ s.frame.st \in {"ReadMask", "ReadPayload", "Done"} => AtMost(S, s.frame.length)

Cells(e) ==
  /\ AllKnown(Issued(Peer(e)), wire[e]) /\ CallsKnown(Issued(Peer(e)), out[Peer(e)].calls)
  /\ Sound(Issued(Peer(e)), sock[e])

LEMMA KnownMore ==
  ASSUME NEW S, NEW R, S \subseteq R, NEW c, Known(S, c)
  PROVE  Known(R, c)
  BY DEF Known, AtMost

LEMMA SoundMore ==
  ASSUME NEW S, NEW R, S \subseteq R, NEW s, Sound(S, s)
  PROVE  Sound(R, s)
<1>1. ASSUME NEW n, AtMost(S, n) PROVE AtMost(R, n)
  BY <1>1 DEF AtMost
<1>2. QED
  BY <1>1, KnownMore DEF Sound

LEMMA CallsMore ==
  ASSUME NEW S, NEW R, S \subseteq R, NEW calls, CallsKnown(S, calls)
  PROVE  CallsKnown(R, calls)
  BY KnownMore DEF CallsKnown, AllKnown

(* A cell of another kind says nothing. *)
LEMMA KnownOther ==
  ASSUME NEW S, NEW c, c[1] \notin {"sz", "h2", "ex"}
  PROVE  Known(S, c)
  BY DEF Known

LEMMA KnownJoined ==
  ASSUME NEW S, NEW w \in Seq(Cell), NEW p \in Seq(Cell), AllKnown(S, w), AllKnown(S, p)
  PROVE  AllKnown(S, w \o p)
<1>1. PICK k \in Nat, l \in Nat : k = Len(w) /\ l = Len(p)
  BY LenProperties
<1>2. Len(w \o p) = k + l /\ \A i \in 1 .. k + l : (w \o p)[i] = IF i <= k THEN w[i] ELSE p[i - k]
  BY <1>1, ConcatProperties
<1>3. ASSUME NEW i \in 1 .. k + l PROVE Known(S, (w \o p)[i])
  <2>1. CASE i <= k
    <3>1. i \in 1 .. k
      BY <2>1
    <3>2. Known(S, w[i])
      BY <1>1, <3>1 DEF AllKnown
    <3>3. (w \o p)[i] = w[i]
      BY <1>2, <2>1
    <3>4. QED
      BY <3>2, <3>3
  <2>2. CASE i > k
    <3>1. i - k \in 1 .. l /\ ~(i <= k)
      BY <2>2
    <3>2. Known(S, p[i - k])
      BY <1>1, <3>1 DEF AllKnown
    <3>3. (w \o p)[i] = p[i - k]
      BY <1>2, <3>1
    <3>4. QED
      BY <3>2, <3>3
  <2>3. QED
    BY <1>1, <2>1, <2>2
<1>4. QED
  BY <1>2, <1>3 DEF AllKnown

LEMMA KnownRest ==
  ASSUME NEW S, NEW w \in Seq(Cell), AllKnown(S, w), NEW n \in 1 .. Len(w)
  PROVE  AllKnown(S, SubSeq(w, n + 1, Len(w)))
<1>1. PICK m \in Nat : m = Len(w)
  BY LenProperties
<1>2. PICK u : u = SubSeq(w, n + 1, Len(w))
  OBVIOUS
<1>3. n + 1 \in Nat \ {0} /\ m \in 0 .. Len(w) /\ n + 1 <= m + 1
  BY <1>1
<1>4. Len(u) = m - (n + 1) + 1 /\ \A i \in 1 .. m - (n + 1) + 1 : u[i] = w[n + 1 + i - 1]
  BY <1>1, <1>2, <1>3, PartOf
<1>5. ASSUME NEW i \in 1 .. m - (n + 1) + 1 PROVE Known(S, u[i])
  <2>1. n + 1 + i - 1 \in 1 .. m
    BY <1>1
  <2>2. QED
    BY <1>1, <1>4, <2>1 DEF AllKnown
<1>6. QED
  BY <1>2, <1>4, <1>5 DEF AllKnown

LEMMA KnownTail ==
  ASSUME NEW S, NEW calls \in Buffers, calls # <<>>, CallsKnown(S, calls)
  PROVE  CallsKnown(S, Tail(calls)) /\ AllKnown(S, Head(calls))
<1>1. /\ Head(calls) = calls[1] /\ Len(calls) \in Nat \ {0} /\ Len(Tail(calls)) = Len(calls) - 1
      /\ \A j \in 1 .. Len(calls) - 1 : Tail(calls)[j] = calls[j + 1]
  BY FirstCall
<1>2. PICK k \in Nat : Len(calls) = k + 1 /\ Len(Tail(calls)) = k
  <2>1. Len(calls) - 1 \in Nat /\ Len(calls) = (Len(calls) - 1) + 1
    BY <1>1
  <2>2. QED
    BY <1>1, <2>1
<1>3. ASSUME NEW j \in 1 .. k PROVE AllKnown(S, Tail(calls)[j])
  <2>1. j + 1 \in 1 .. k + 1 /\ j \in 1 .. Len(calls) - 1
    BY <1>2
  <2>2. QED
    BY <1>1, <1>2, <2>1 DEF CallsKnown
<1>4. 1 \in 1 .. k + 1
  OBVIOUS
<1>5. QED
  BY <1>1, <1>2, <1>3, <1>4 DEF CallsKnown

-----------------------------------------------------------------------------
(* What is sent is known *)

LEMMA HeaderKnown ==
  ASSUME NEW S
  PROVE  CallsKnown(S, << Header >>)
<1>1. AllKnown(S, Header)
  <2>1. ASSUME NEW i \in 1 .. Len(Header) PROVE Known(S, Header[i])
    <3>1. Header[i][1] \in {"tx", "nl"}
      BY HeaderFacts
    <3>2. QED
      BY <3>1, KnownOther
  <2>2. QED
    BY <2>1 DEF AllKnown
<1>2. PICK h : h = Header
  OBVIOUS
<1>3. Len(<< h >>) = 1 /\ << h >>[1] = h
  OBVIOUS
<1>4. QED
  BY <1>1, <1>2, <1>3 DEF CallsKnown

LEMMA RawKnown ==
  ASSUME BufferType, NEW e \in End, NEW S, NEW id \in Ids, id \in S
  PROVE  CallsKnown(S, << Raw(e, id) >>)
<1>0. PICK m \in Nat : m = Message[id].n
  BY MessageFacts
<1>9. PICK r : r = Raw(e, id)
  OBVIOUS
<1>1. r = Raw(e, id) /\ m = Message[id].n /\ m \in Nat
  BY <1>0, <1>9
<1>2. /\ Len(r) = m + 1 /\ r[1] = <<"sz", id, IF Message[id].zero THEN 0 ELSE m + 1>>
      /\ \A i \in 1 .. m : r[i + 1] = Payload(e, id)[i]
  BY <1>1, RawFacts
<1>3. ASSUME NEW i \in 1 .. m + 1 PROVE Known(S, r[i])
  <2>1. CASE i = 1
    <3>1. r[i] = <<"sz", id, IF Message[id].zero THEN 0 ELSE m + 1>>
      BY <1>2, <2>1
    <3>2. r[i][1] = "sz" /\ r[i][2] = id /\ r[i][3] = (IF Message[id].zero THEN 0 ELSE Message[id].n + 1)
      BY <1>1, <3>1
    <3>3. QED
      BY <3>2 DEF Known
  <2>2. CASE i # 1
    <3>1. i - 1 \in 1 .. m /\ (i - 1) + 1 = i
      BY <2>2
    <3>2. r[i] = Payload(e, id)[i - 1]
      BY <1>2, <3>1
    <3>3. PlainCell(Payload(e, id)[i - 1])
      BY <1>1, <3>1, PayloadFacts
    <3>4. r[i][1] = "pl"
      BY <3>2, <3>3 DEF PlainCell
    <3>5. QED
      BY <3>4, KnownOther
  <2>3. QED
    BY <2>1, <2>2
<1>4. AllKnown(S, r)
  BY <1>2, <1>3 DEF AllKnown
<1>5. Len(<< r >>) = 1 /\ << r >>[1] = r
  OBVIOUS
<1>6. QED
  BY <1>1, <1>4, <1>5 DEF CallsKnown

LEMMA HeadKnown ==
  ASSUME NEW S, NEW L \in Nat, AtMost(S, L), NEW op \in Nat, NEW key \in Keys, NEW last \in BOOLEAN,
         NEW h, h = getFrameHeader(op, L, key, last)
  PROVE  AllKnown(S, h)
<1>1. HeadOf(h, op, L, key, last)
  BY FrameHeadFacts
<1>2. /\ Len(h) = HeadLen(L, key) /\ h[1] = <<"h1", last, FALSE, op>> /\ h[2] = <<"h2", key # 0, Code(L)>>
      /\ (L > Len7Max => h[3] = <<"ex", L>>) /\ (key # 0 => h[Len(h)] = <<"mk", key>>) /\ Code(L) \in Nat
  BY <1>1 DEF HeadOf
<1>3. Known(S, h[1])
  <2>1. h[1][1] = "h1"
    BY <1>2
  <2>2. QED
    BY <2>1, KnownOther
<1>4. Known(S, h[2])
  <2>1. h[2][1] = "h2" /\ h[2][3] = Code(L)
    BY <1>2
  <2>2. Code(L) <= Len7Max => Code(L) = L
    BY WidthAssumption DEF Code, Code16, Code64
  <2>3. QED
    BY <2>1, <2>2 DEF Known
<1>5. ASSUME L > Len7Max PROVE Known(S, h[3])
  <2>1. h[3][1] = "ex" /\ h[3][2] = L
    BY <1>2, <1>5
  <2>2. QED
    BY <2>1 DEF Known
<1>6. ASSUME key # 0 PROVE Known(S, h[Len(h)])
  <2>1. h[Len(h)][1] = "mk"
    BY <1>2, <1>6
  <2>2. QED
    BY <2>1, KnownOther
<1>7. ASSUME NEW i \in 1 .. Len(h) PROVE i = 1 \/ i = 2 \/ (i = 3 /\ L > Len7Max) \/ (i = Len(h) /\ key # 0)
  <2>1. PICK z \in Nat : z = Len(h)
    BY <1>2, WidthAssumption DEF HeadLen
  <2>2. z = 2 + (IF L > Len7Max THEN 1 ELSE 0) + (IF key # 0 THEN 1 ELSE 0) /\ i \in 1 .. z
    BY <1>2, <2>1 DEF HeadLen
  <2>3. QED
    BY <2>1, <2>2
<1>8. QED
  BY <1>3, <1>4, <1>5, <1>6, <1>7 DEF AllKnown

LEMMA PlainKnown ==
  ASSUME NEW S, NEW p, \A j \in 1 .. Len(p) : PlainCell(p[j])
  PROVE  AllKnown(S, p)
<1>1. ASSUME NEW j \in 1 .. Len(p) PROVE Known(S, p[j])
  <2>1. p[j][1] = "pl"
    BY DEF PlainCell
  <2>2. QED
    BY <2>1, KnownOther
<1>2. QED
  BY <1>1 DEF AllKnown

LEMMA FramesKnown ==
  ASSUME NEW S, NEW id \in Ids, id \in S,
         NEW body, NEW op, NEW M, NEW n, NEW F, NEW key, NEW calls, SendMsgCall(body, op, M, n, F, key, calls),
         n = Message[id].n
  PROVE  CallsKnown(S, calls)
<1>0. op \in Nat /\ n \in Nat /\ key \in [1 .. F -> Keys]
  BY DEF SendMsgCall
<1>1. /\ F \in Nat \ {0}
      /\ n = 0 => calls = << getFrameHeader(op, 0, key[1], TRUE) >>
      /\ n # 0 => /\ calls = [j \in 1 .. 2 * F |-> calls[j]] /\ \A i \in 1 .. F : MessageFrame(calls, i, F, op, key, n)
  <2>1. SendMsgMakes(body, op, M, n, F, key, calls)
    BY SendMsgFacts
  <2>2. QED
    BY <2>1 DEF SendMsgMakes
<1>2. ASSUME NEW L \in Nat, L <= n PROVE AtMost(S, L)
  BY <1>2 DEF AtMost
<1>3. CASE n = 0
  <2>1. PICK k \in Keys : k = key[1]
    BY <1>0, <1>1
  <2>2. PICK h : h = getFrameHeader(op, 0, k, TRUE)
    OBVIOUS
  <2>3. AllKnown(S, h)
    <3>1. AtMost(S, 0) /\ 0 \in Nat
      BY <1>0, <1>2
    <3>2. QED
      BY <1>0, <2>1, <2>2, <3>1, HeadKnown
  <2>4. calls = << h >>
    BY <1>1, <1>3, <2>1, <2>2
  <2>5. Len(<< h >>) = 1 /\ << h >>[1] = h
    OBVIOUS
  <2>6. QED
    BY <2>3, <2>4, <2>5 DEF CallsKnown
<1>4. CASE n # 0
  <2>1. ASSUME NEW j \in 1 .. 2 * F PROVE AllKnown(S, calls[j])
    <3>1. PICK i \in 1 .. F : j = 2 * i - 1 \/ j = 2 * i
      <4>1. j \in Nat /\ F \in Nat /\ 1 <= j /\ j <= 2 * F
        BY <1>1
      <4>2. (j + 1) \div 2 \in 1 .. F /\ (j = 2 * ((j + 1) \div 2) - 1 \/ j = 2 * ((j + 1) \div 2))
        BY <4>1
      <4>3. QED
        BY <4>2
    <3>2. PICK L \in 1 .. n :
            SentFrame(calls[2 * i - 1], calls[2 * i], IF i = 1 THEN op ELSE Continue, L, key[i], i = F)
      BY <1>1, <1>4 DEF MessageFrame
    <3>3. L \in Nat /\ L <= n
      BY <1>0
    <3>4. AtMost(S, L)
      BY <1>2, <3>3
    <3>5. PICK p \in Nat, k \in Keys, l \in BOOLEAN :
            p = (IF i = 1 THEN op ELSE Continue) /\ k = key[i] /\ l = (i = F)
      BY <1>0 DEF Continue
    <3>6. calls[2 * i - 1] = getFrameHeader(p, L, k, l)
      BY <3>2, <3>5 DEF SentFrame
    <3>7. AllKnown(S, calls[2 * i - 1])
      BY <3>3, <3>4, <3>5, <3>6, HeadKnown
    <3>8. AllKnown(S, calls[2 * i])
      <4>1. Len(calls[2 * i]) = L /\ \A q \in 1 .. L : PlainCell(calls[2 * i][q])
        BY <3>2 DEF SentFrame
      <4>2. QED
        BY <4>1, PlainKnown
    <3>9. QED
      BY <3>1, <3>7, <3>8
  <2>2. Len(calls) = 2 * F
    <3>1. 2 * F \in Nat
      BY <1>1
    <3>2. QED
      BY <1>1, <1>4, <3>1
  <2>3. QED
    BY <2>1, <2>2 DEF CallsKnown
<1>5. QED
  BY <1>3, <1>4

-----------------------------------------------------------------------------
(* What has been received stays known *)

LEMMA SoundMoved ==
  ASSUME NEW S, NEW s, NEW t, NEW N, Moved(s, t, N), Sound(S, s)
  PROVE  Sound(S, t)
  BY DEF Moved, Kept, Sound

LEMMA SoundLooked ==
  ASSUME NEW S, NEW e, NEW s, NEW t, Looked(e, s, t), Sound(S, s)
  PROVE  Sound(S, t)
  BY DEF Looked, Sound

LEMMA SoundTaken ==
  ASSUME NEW S, NEW e, NEW s, NEW t, NEW n, Takes(e, s, t, n), Sound(S, s), s.left \in Nat
  PROVE  Sound(S, t)
<1>1. CASE Refused(s.frame)
  BY <1>1 DEF Takes, Kept, Sound
<1>2. CASE ~Refused(s.frame)
  <2>1. PICK k \in Nat : k = s.left
    OBVIOUS
  <2>2. n \in 0 .. k /\ t.left = k - n /\ \A i \in 1 .. k - n : Window(t)[i] = Window(s)[n + i]
    BY <2>1 DEF Takes
  <2>3. ASSUME NEW i \in 1 .. k - n PROVE Known(S, Window(t)[i])
    <3>1. n + i \in 1 .. k
      BY <2>2
    <3>2. Known(S, Window(s)[n + i])
      BY <1>2, <2>1, <3>1 DEF Sound
    <3>3. QED
      BY <2>2, <3>2
  <2>4. t.frame = s.frame
    BY DEF Takes, Kept
  <2>5. QED
    BY <1>2, <2>2, <2>3, <2>4 DEF Sound
<1>3. QED
  BY <1>1, <1>2

LEMMA SoundFilled ==
  ASSUME NEW S, NEW e, NEW s, NEW t, NEW n, Fills(e, s, t, n), Sound(S, s), s.left \in Nat,
         wire[e] \in Seq(Cell), AllKnown(S, wire[e]), n \in 1 .. Len(wire[e])
  PROVE  Sound(S, t)
<1>1. CASE Halts(e, s, t, "overrun")
  BY <1>1, SoundMoved DEF Halts
<1>2. CASE Refused(s.frame) /\ ~Halts(e, s, t, "overrun")
  BY <1>2 DEF Fills, Kept, Sound
<1>3. CASE ~Refused(s.frame) /\ ~Halts(e, s, t, "overrun")
  <2>1. PICK k \in Nat, l \in Nat : k = s.left /\ l = Len(wire[e])
    BY LenProperties
  <2>2. /\ n \in 1 .. l /\ t.left = k + n /\ t.frame = s.frame
        /\ \A i \in 1 .. k : Window(t)[i] = Window(s)[i]
        /\ \A i \in 1 .. n : Window(t)[k + i] = wire[e][i]
    BY <1>3, <2>1 DEF Fills, Kept
  <2>3. ASSUME NEW i \in 1 .. k + n PROVE Known(S, Window(t)[i])
    <3>1. CASE i <= k
      <4>1. i \in 1 .. k
        BY <2>2, <3>1
      <4>2. Known(S, Window(s)[i])
        BY <1>3, <2>1, <4>1 DEF Sound
      <4>3. QED
        BY <2>2, <4>1, <4>2
    <3>2. CASE i > k
      <4>1. i - k \in 1 .. n /\ i - k \in 1 .. l /\ k + (i - k) = i
        BY <2>2, <3>2
      <4>2. Known(S, wire[e][i - k])
        BY <2>1, <4>1 DEF AllKnown
      <4>3. Window(t)[k + (i - k)] = wire[e][i - k]
        BY <2>2, <4>1
      <4>4. QED
        BY <4>1, <4>2, <4>3
    <3>3. QED
      BY <2>2, <3>1, <3>2
  <2>4. QED
    BY <1>3, <2>2, <2>3 DEF Sound
<1>4. QED
  BY <1>1, <1>2, <1>3

LEMMA SoundOpened ==
  ASSUME NEW S, NEW e, NEW s, NEW t, NEW st, Opened(e, s, t, st), Sound(S, s), s.left \in Nat
  PROVE  Sound(S, t)
<1>1. PICK u, v : /\ Looked(e, s, u) /\ Takes(e, u, v, HeaderEnd(s))
                  /\ t.left = v.left /\ t.frame = v.frame /\ Window(t) = Window(v)
  BY DEF Opened
<1>2. Sound(S, u) /\ u.left \in Nat
  <2>1. u.left = s.left
    BY <1>1 DEF Looked
  <2>2. QED
    BY <1>1, <2>1, SoundLooked
<1>3. Sound(S, v)
  BY <1>1, <1>2, SoundTaken
<1>4. QED
  BY <1>1, <1>3 DEF Sound

-----------------------------------------------------------------------------
(* The length a frame reader makes of known bytes *)

(* The frame reader of s, which has not refused a frame, knows its length. *)
LEMMA ReadsKnown ==
  ASSUME NEW S \in SUBSET Ids, NEW s, Sound(S, s), s.frame \in FrameType, FrameOK(s.frame), s.left \in Nat,
         Window(s) \in Seq(AnyCell), Len(Window(s)) = s.left,
         NEW g, NEW d, NEW o, Reads(s.frame, Window(s), g, d, o), s.frame.st # "Done", ~Refused(g)
  PROVE  /\ g.st \in {"ReadMask", "ReadPayload", "Done"} => AtMost(S, g.length)
         /\ \A i \in 1 .. s.left : Known(S, d[i])
<1>1. PICK f, w : f = s.frame /\ w = Window(s)
  OBVIOUS
<1>2. PICK k \in Nat : k = s.left
  OBVIOUS
<1>3. /\ \A i \in 1 .. k : Known(S, w[i])
      /\ f.st \in {"ReadMask", "ReadPayload", "Done"} => AtMost(S, f.length)
  BY <1>1, <1>2 DEF Sound, Refused
<1>4. w \in Seq(AnyCell) /\ Len(w) = k /\ \A i \in 1 .. k : w[i] \in AnyCell
  BY <1>1, <1>2, ElementOfSeq
<1>5. CASE ReadsHeader(f, w, g, d, o)
  <2>1. /\ 2 \in 1 .. k /\ w[2][1] = "h2" /\ d = w /\ g.length = w[2][3]
        /\ g.st = (IF w[2][3] > Len7Max THEN "ReadPayloadLength" ELSE IF w[2][2] THEN "ReadMask" ELSE "ReadPayload")
    BY <1>4, <1>5 DEF ReadsHeader
  <2>2. Known(S, w[2]) /\ w[2] \in AnyCell
    BY <1>3, <1>4, <2>1
  <2>3. w[2][3] \in Nat
    BY <2>1, <2>2, CellFacts
  <2>4. g.st \in {"ReadMask", "ReadPayload", "Done"} => w[2][3] <= Len7Max
    BY <2>1, <2>3, WidthAssumption
  <2>5. g.st \in {"ReadMask", "ReadPayload", "Done"} => AtMost(S, g.length)
    BY <2>1, <2>2, <2>4 DEF Known
  <2>6. QED
    BY <1>2, <1>3, <2>1, <2>5
<1>6. CASE ReadsLength(f, w, g, d, o)
  <2>1. 1 \in 1 .. k /\ w[1][1] = "ex" /\ d = w /\ g.length = w[1][2] % (Max32 + 1)
    BY <1>4, <1>6 DEF ReadsLength
  <2>2. Known(S, w[1]) /\ w[1] \in AnyCell
    BY <1>3, <1>4, <2>1
  <2>3. PICK a \in Nat : a = w[1][2]
    BY <2>1, <2>2, CellFacts
  <2>4. AtMost(S, a)
    BY <2>1, <2>2, <2>3 DEF Known
  <2>5. PICK M \in Nat \ {0} : M = Max32 + 1
    BY WidthAssumption
  <2>6. PICK q \in Nat, r \in Nat : q = a \div M /\ r = a % M /\ a = M * q + r
    <3>1. a \div M \in Nat /\ a % M \in 0 .. M - 1 /\ a = M * (a \div M) + (a % M)
      BY <2>3, <2>5, Division
    <3>2. a % M \in Nat
      BY <2>5, <3>1
    <3>3. QED
      BY <3>1, <3>2
  <2>7. M * q \in Nat
    BY <2>5, <2>6
  <2>8. r <= a
    BY <2>6, <2>7
  <2>9. g.length = r
    BY <2>1, <2>3, <2>5, <2>6
  <2>10. AtMost(S, g.length)
    <3>1. PICK id \in S : a <= Message[id].n
      BY <2>4 DEF AtMost
    <3>2. PICK m \in Nat : m = Message[id].n
      BY MessageFacts
    <3>3. m \in Nat /\ a \in Nat /\ r \in Nat
      BY <2>3, <2>6, <3>2
    <3>4. a <= m
      BY <3>1, <3>2
    <3>5. r <= m
      BY <2>8, <3>3, <3>4
    <3>6. QED
      BY <2>9, <3>1, <3>2, <3>5 DEF AtMost
  <2>11. QED
    BY <1>2, <1>3, <2>1, <2>10
<1>7. CASE ReadsMask(f, w, g, d, o)
  BY <1>2, <1>3, <1>7 DEF ReadsMask
<1>8. CASE ReadsPayload(f, w, g, d, o)
  <2>1. PICK L \in Nat : L = f.length
    BY <1>1, FrameFields
  <2>2. /\ g.length = L /\ f.st = "ReadPayload" /\ L <= k
        /\ \A i \in 1 .. L : w[i][1] = "pl" /\ d[i] = Unmasked(w[i], f.mask)
        /\ \A i \in L + 1 .. k : d[i] = w[i]
    BY <1>4, <1>8, <2>1 DEF ReadsPayload
  <2>3. f.mask \in Keys
    BY <1>1, <2>2 DEF FrameOK
  <2>4. ASSUME NEW i \in 1 .. k PROVE Known(S, d[i])
    <3>1. CASE i <= L
      <4>1. i \in 1 .. L /\ w[i] \in AnyCell
        BY <1>4, <2>1, <3>1
      <4>2. Unmasked(w[i], f.mask)[1] = "pl"
        BY <2>2, <2>3, <4>1, UnmaskedCell
      <4>3. d[i][1] = "pl"
        BY <2>2, <4>1, <4>2
      <4>4. QED
        BY <4>3, KnownOther
    <3>2. CASE i > L
      <4>1. i \in L + 1 .. k
        BY <2>1, <3>2
      <4>2. QED
        BY <1>3, <2>2, <4>1
    <3>3. QED
      BY <2>1, <3>1, <3>2
  <2>5. AtMost(S, g.length)
    BY <1>3, <2>1, <2>2
  <2>6. QED
    BY <1>2, <2>4, <2>5
<1>9. QED
  BY <1>1, <1>5, <1>6, <1>7, <1>8 DEF Reads

(* A turn of the frame reader, or of what is done with the frame. *)
LEMMA SoundTurned ==
  ASSUME NEW S, NEW s, NEW t, NEW g, NEW d, NEW o, NEW N, Turned(s, t, g, d, o, N), s.left \in Nat, o \in Nat, o <= s.left,
         \/ Refused(g)
         \/ /\ g.st \in {"ReadMask", "ReadPayload", "Done"} => AtMost(S, g.length)
            /\ \A i \in 1 .. s.left : Known(S, d[i])
  PROVE  Sound(S, t)
<1>1. t.frame = g
  BY DEF Turned
<1>2. CASE Refused(g)
  BY <1>1, <1>2 DEF Sound
<1>3. CASE ~Refused(g)
  <2>1. PICK k \in Nat : k = s.left
    OBVIOUS
  <2>2. t.left = k - o /\ \A i \in 1 .. k - o : Window(t)[i] = d[o + i]
    BY <2>1 DEF Turned
  <2>3. ASSUME NEW i \in 1 .. k - o PROVE Known(S, Window(t)[i])
    <3>1. o + i \in 1 .. k
      BY <2>1
    <3>2. Known(S, d[o + i])
      BY <1>3, <2>1, <3>1
    <3>3. QED
      BY <2>2, <3>2
  <2>4. QED
    BY <1>1, <1>3, <2>2, <2>3 DEF Sound
<1>4. QED
  BY <1>2, <1>3

LEMMA SoundRead ==
  ASSUME NEW S \in SUBSET Ids, NEW e, NEW s, NEW t, NEW cb, Sound(S, s), s.frame \in FrameType, FrameOK(s.frame),
         s.left \in Nat, Window(s) \in Seq(AnyCell), Len(Window(s)) = s.left,
         s.frame.st = "Done" => s.frame.length <= s.left, TurnKind(e, s, t, cb)
  PROVE  Sound(S, t)
<1>1. CASE FrameWaits(e, s, t, cb) \/ RawWaits(e, s, t, cb)
  BY <1>1, SoundMoved DEF FrameWaits, RawWaits, Compacted
<1>2. CASE FrameStops(e, s, t, cb) \/ RawStops(e, s, t, cb)
  BY <1>2, SoundMoved DEF FrameStops, RawStops, Halts
<1>3. CASE RawTakes(e, s, t, cb)
  BY <1>3, SoundTaken DEF RawTakes
<1>4. CASE FrameReads(e, s, t, cb)
  <2>1. PICK g, d, o : Turned(s, t, g, d, o, Length(e)) /\ Reads(s.frame, Window(s), g, d, o)
    BY <1>4 DEF FrameReads
  <2>2. s.frame.st # "Done"
    BY <1>4 DEF FrameReads
  <2>3. o \in Nat /\ o <= s.left
    BY <2>1 DEF Reads
  <2>4. \/ Refused(g)
        \/ /\ g.st \in {"ReadMask", "ReadPayload", "Done"} => AtMost(S, g.length)
           /\ \A i \in 1 .. s.left : Known(S, d[i])
    BY <2>1, <2>2, ReadsKnown
  <2>5. QED
    BY <2>1, <2>3, <2>4, SoundTurned
<1>5. CASE FrameStays(e, s, t, cb)
  <2>1. PICK u, g, r : /\ Turned(s, u, g, Window(s), 0, Length(e)) /\ Compacted(e, u, t)
                       /\ g \in FrameType /\ FrameOK(g) /\ TurnStays(s.frame, r, g, 0)
    BY <1>5 DEF FrameStays
  <2>2. g.st = "Done" /\ s.frame.st = "Done" /\ g.length = s.frame.length /\ g.valid = s.frame.valid
    BY <1>5, <2>1 DEF FrameStays, TurnStays
  <2>3. \/ Refused(g)
        \/ /\ g.st \in {"ReadMask", "ReadPayload", "Done"} => AtMost(S, g.length)
           /\ \A i \in 1 .. s.left : Known(S, Window(s)[i])
    BY <2>2 DEF Sound, Refused
  <2>4. Sound(S, u)
    BY <2>1, <2>3, SoundTurned
  <2>5. QED
    BY <2>1, <2>4, SoundMoved DEF Compacted
<1>6. CASE FrameEnds(e, s, t, cb)
  <2>1. PICK g, r : /\ Turned(s, t, g, Window(s), s.frame.length, Length(e))
                    /\ TurnEnds(s.frame, Window(s), r, g, s.frame.length)
    BY <1>6 DEF FrameEnds
  <2>2. s.frame.st = "Done" /\ s.frame.valid /\ g.st = "ReadHeader" /\ s.frame.length \in Nat
    BY <1>6, <2>1, FrameFields DEF FrameEnds, TurnEnds
  <2>3. \A i \in 1 .. s.left : Known(S, Window(s)[i])
    BY <2>2 DEF Sound, Refused
  <2>4. QED
    BY <2>1, <2>2, <2>3, SoundTurned
<1>7. CASE UpgradeWaits(e, s, t, cb) \/ UpgradeRefused(e, s, t, cb)
  <2>1. PICK u : Looked(e, s, u) /\ Compacted(e, u, t)
    BY <1>7 DEF UpgradeWaits, UpgradeRefused
  <2>2. QED
    BY <2>1, SoundLooked, SoundMoved DEF Compacted
<1>8. CASE UpgradeStops(e, s, t, cb)
  <2>1. PICK u, pc : Looked(e, s, u) /\ Halts(e, u, t, pc)
    BY <1>8 DEF UpgradeStops
  <2>2. QED
    BY <2>1, SoundLooked, SoundMoved DEF Halts
<1>9. CASE \E status : Opened(e, s, t, status)
  BY <1>9, SoundOpened
<1>10. QED
  BY <1>1, <1>2, <1>3, <1>4, <1>5, <1>6, <1>7, <1>8, <1>9 DEF TurnKind

-----------------------------------------------------------------------------
(* Every step keeps the cells known *)

LEMMA CellsIf ==
  ASSUME NEW e \in End, NEW S, S = Issued(Peer(e))', AllKnown(S, wire'[e]), CallsKnown(S, out'[Peer(e)].calls), Sound(S, sock'[e])
  PROVE  Cells(e)'
  BY DEF Cells

LEMMA IssuedSame ==
  ASSUME conf' = conf, next' = next, NEW x
  PROVE  Issued(x)' = Issued(x)
  BY DEF Issued, SentOnce

LEMMA IssuedMore ==
  ASSUME Base, NEW a \in End, next' = [next EXCEPT ![a] = @ + 1], conf' = conf, NEW x \in End
  PROVE  Issued(x) \subseteq Issued(x)'
<1>1. ASSUME NEW id, SentOnce(x, id) PROVE SentOnce(x, id)'
  BY <1>1, SentStays
<1>2. QED
  BY <1>1 DEF Issued

LEMMA IssuedNow ==
  ASSUME Base, NEW a \in End, next' = [next EXCEPT ![a] = @ + 1], conf' = conf, conf.script[a][next[a]] \in Ids
  PROVE  conf.script[a][next[a]] \in Issued(a)'
<1>1. PICK n \in Nat \ {0} : n = next[a]
  BY DEF Base, Types
<1>2. next'[a] = n + 1
  BY <1>1 DEF Base, Types
<1>3. n \in 1 .. (n + 1) - 1
  OBVIOUS
<1>4. PICK id : id = conf.script[a][next[a]] /\ id \in Ids
  OBVIOUS
<1>5. SentOnce(a, id)'
  <2>1. conf'.script[a][n] = id
    BY <1>1, <1>4
  <2>2. \E k \in 1 .. next'[a] - 1 : conf'.script[a][k] = id
    BY <1>2, <1>3, <2>1
  <2>3. QED
    BY <2>2 DEF SentOnce
<1>6. id \in Issued(a)'
  BY <1>4, <1>5 DEF Issued
<1>7. QED
  BY <1>4, <1>6

LEMMA NoneKnown ==
  ASSUME NEW S
  PROVE  AllKnown(S, <<>>)
  BY DEF AllKnown

LEMMA ParkCells ==
  ASSUME Base, NEW a \in End, NEW t, Parks(a, t), NEW e \in End, Cells(e)
  PROVE  Cells(e)'
<1>1. SocksType /\ Peer(e) \in End
  BY SockOKOf, Ends
<1>2. sock' = [sock EXCEPT ![a] = t] /\ out' = out /\ conf' = conf /\ next' = next
  BY DEF Parks
<1>3. PICK S : S = Issued(Peer(e)) /\ S = Issued(Peer(e))'
  BY <1>2, IssuedSame
<1>4. AllKnown(S, wire[e]) /\ CallsKnown(S, out[Peer(e)].calls) /\ Sound(S, sock[e])
  BY <1>3 DEF Cells
<1>5. Sound(S, sock'[e])
  <2>1. CASE e = a
    <3>1. PICK pc : Halts(a, sock[a], t, pc)
      BY DEF Parks
    <3>2. Sound(S, t)
      BY <1>4, <2>1, <3>1, SoundMoved DEF Halts
    <3>3. sock'[e] = t
      <4>1. sock'[e] = IF e = a THEN t ELSE sock[e]
        BY <1>1, <1>2, SocketsNext
      <4>2. QED
        BY <4>1, <2>1
    <3>4. QED
      BY <3>2, <3>3
  <2>2. CASE e # a
    BY <1>1, <1>2, <1>4, <2>2, SocketsNext
  <2>3. QED
    BY <2>1, <2>2
<1>6. AllKnown(S, wire'[e])
  <2>1. wire' = wire \/ wire'[e] = <<>>
    BY DEF Parks
  <2>2. QED
    BY <1>4, <2>1, NoneKnown
<1>7. QED
  BY <1>2, <1>3, <1>4, <1>5, <1>6, CellsIf

LEMMA StartCells ==
  ASSUME Base, NEW a \in End, NEW t, Starts(a, t), NEW e \in End, Cells(e)
  PROVE  Cells(e)'
<1>1. SocksType /\ Peer(e) \in End /\ Rest
  BY SockOKOf, Ends, RestOf
<1>2. /\ sock' = [sock EXCEPT ![a] = t] /\ conf' = conf /\ next' = next /\ wire' = wire
      /\ out' = [out EXCEPT ![a] = StartSend(@, << Header >>, How(a))] /\ sock[a].pc = "new"
  BY DEF Starts
<1>3. PICK S : S = Issued(Peer(e)) /\ S = Issued(Peer(e))'
  BY <1>2, IssuedSame
<1>4. AllKnown(S, wire[e]) /\ CallsKnown(S, out[Peer(e)].calls) /\ Sound(S, sock[e])
  BY <1>3 DEF Cells
<1>5. Sound(S, sock'[e])
  <2>1. CASE e = a
    <3>1. Sound(S, t)
      BY <1>4, <2>1, SoundMoved DEF Halts, Starts
    <3>2. sock'[e] = t
      <4>1. sock'[e] = IF e = a THEN t ELSE sock[e]
        BY <1>1, <1>2, SocketsNext
      <4>2. QED
        BY <4>1, <2>1
    <3>3. QED
      BY <3>1, <3>2
  <2>2. CASE e # a
    BY <1>1, <1>2, <1>4, <2>2, SocketsNext
  <2>3. QED
    BY <2>1, <2>2
<1>6. CallsKnown(S, out'[Peer(e)].calls)
  <2>1. out[a].calls = <<>>
    BY <1>2 DEF Base, StatusOK
  <2>2. Calls(out[a], out'[a], << Header >>) /\ \A x \in End : x # a => out'[x] = out[x]
    BY <1>1, <1>2, <2>1, CallsBegin, HeaderBuffers
  <2>3. out'[a].calls = << Header >>
    BY <2>2 DEF Calls
  <2>4. QED
    BY <1>1, <1>4, <2>2, <2>3, HeaderKnown
<1>7. QED
  BY <1>2, <1>3, <1>4, <1>5, <1>6, CellsIf

LEMMA WriteCells ==
  ASSUME Base, NEW a \in End, NEW n \in Nat, UNCHANGED connVars, Writes(a, n), NEW e \in End, Cells(e)
  PROVE  Cells(e)'
<1>1. Peer(e) \in End /\ Rest /\ Peer(Peer(e)) = e /\ e # Peer(e)
  BY Ends, RestOf
<1>2. sock' = sock /\ conf' = conf /\ next' = next
  BY DEF connVars
<1>3. PICK S : S = Issued(Peer(e)) /\ S = Issued(Peer(e))'
  BY <1>2, IssuedSame
<1>4. AllKnown(S, wire[e]) /\ CallsKnown(S, out[Peer(e)].calls) /\ Sound(S, sock[e])
  BY <1>3 DEF Cells
<1>5. CASE a = e
  <2>1. wire'[e] = wire[e] /\ out'[Peer(e)] = out[Peer(e)]
    BY <1>1, <1>5, WriteRest
  <2>2. QED
    BY <1>2, <1>3, <1>4, <2>1, CellsIf
<1>6. CASE a = Peer(e)
  <2>1. PICK p \in Seq(Cell) :
              /\ Len(p) = n /\ wire'[e] = wire[e] \o p
              /\ \A i \in 1 .. n : p[i] = Head(out[a].calls)[Written(out[a]) + i]
    <3>1. \E p \in Seq(Cell) :
              /\ Len(p) = n /\ wire'[Peer(a)] = wire[Peer(a)] \o p /\ wire'[a] = wire[a]
              /\ \A i \in 1 .. n : p[i] = Head(out[a].calls)[Written(out[a]) + i]
      BY <1>1, WriteRest
    <3>2. Peer(a) = e
      BY <1>1, <1>6
    <3>3. QED
      BY <3>1, <3>2
  <2>2. out[a].calls \in Buffers /\ out[a].calls # <<>> /\ n \in 0 .. Len(Head(out[a].calls)) - Written(out[a])
    BY <1>1, OutFacts DEF Rest, Writes
  <2>3. CallsKnown(S, Tail(out[a].calls)) /\ AllKnown(S, Head(out[a].calls))
    BY <1>4, <1>6, <2>2, KnownTail
  <2>4. AllKnown(S, p)
    <3>1. PICK k \in Nat : k = Len(Head(out[a].calls))
      BY <2>2, FirstCall
    <3>2. PICK v \in Nat : v = Written(out[a])
      BY <1>1, OutFacts DEF Rest, Written
    <3>3. ASSUME NEW i \in 1 .. n PROVE Known(S, p[i])
      <4>1. v + i \in 1 .. k
        BY <2>2, <3>1, <3>2
      <4>2. QED
        BY <2>1, <2>3, <3>1, <3>2, <4>1 DEF AllKnown
    <3>4. QED
      BY <2>1, <3>3 DEF AllKnown
  <2>5. AllKnown(S, wire'[e])
    <3>1. wire[e] \in Seq(Cell)
      BY <1>1 DEF Rest
    <3>2. QED
      BY <1>4, <2>1, <2>4, <3>1, KnownJoined
  <2>6. CallsKnown(S, out'[Peer(e)].calls)
    <3>1. PICK o \in OutType : out' = [out EXCEPT ![a] = o] /\ o.calls \in {out[a].calls, Tail(out[a].calls)}
      BY DEF Writes
    <3>2. out'[a] = o
      BY <1>1, <3>1 DEF Rest
    <3>3. QED
      BY <1>4, <1>6, <2>3, <3>1, <3>2
  <2>7. QED
    BY <1>2, <1>3, <1>4, <2>5, <2>6, CellsIf
<1>7. QED
  BY <1>5, <1>6, Ends

LEMMA ArriveCells ==
  ASSUME Base, NEW a \in End, NEW t, NEW n, Arrives(a, t, n), NEW e \in End, Cells(e)
  PROVE  Cells(e)'
<1>1. SocksType /\ Rest /\ sock[a].left \in Nat
  BY SockOKOf, RestOf
<1>2. /\ sock' = [sock EXCEPT ![a] = t] /\ conf' = conf /\ next' = next /\ out' = out
      /\ wire' = [wire EXCEPT ![a] = SubSeq(@, n + 1, Len(@))] /\ n \in 1 .. Len(wire[a])
  BY DEF Arrives
<1>3. PICK S : S = Issued(Peer(e)) /\ S = Issued(Peer(e))'
  BY <1>2, IssuedSame
<1>4. AllKnown(S, wire[e]) /\ CallsKnown(S, out[Peer(e)].calls) /\ Sound(S, sock[e])
  BY <1>3 DEF Cells
<1>5. wire[e] \in Seq(Cell) /\ wire \in [End -> Seq(Cell)]
  BY <1>1 DEF Rest
<1>6. CASE e = a
  <2>1. Sound(S, t)
    BY <1>1, <1>2, <1>4, <1>5, <1>6, SoundFilled DEF Arrives
  <2>2. Sound(S, sock'[e])
    BY <1>1, <1>2, <1>6, <2>1, SocketsNext
  <2>3. wire'[e] = SubSeq(wire[e], n + 1, Len(wire[e]))
    BY <1>2, <1>5, <1>6
  <2>4. AllKnown(S, SubSeq(wire[e], n + 1, Len(wire[e])))
    BY <1>2, <1>4, <1>5, <1>6, KnownRest
  <2>5. QED
    BY <1>2, <1>3, <1>4, <2>2, <2>3, <2>4, CellsIf
<1>7. CASE e # a
  <2>1. wire'[e] = wire[e] /\ sock'[e] = sock[e]
    BY <1>1, <1>2, <1>5, <1>7, SocketsNext
  <2>2. QED
    BY <1>2, <1>3, <1>4, <2>1, CellsIf
<1>8. QED
  BY <1>6, <1>7

LEMMA TurnCells ==
  ASSUME Base, NEW a \in End, NEW t, NEW cb, Turning(a, t, cb), NEW e \in End, Cells(e)
  PROVE  Cells(e)'
<1>1. SocksType /\ Rest /\ SockOK(a, sock[a]) /\ sock[a].left \in Nat /\ sock[a].frame \in FrameType /\ conf \in Configs
      /\ (sock[a].frame.st = "Done" => sock[a].frame.length <= sock[a].left) /\ Peer(e) \in End
  BY SockOKOf, RestOf, Ends
<1>2. Window(sock[a]) \in Seq(AnyCell) /\ Len(Window(sock[a])) = sock[a].left /\ FrameOK(sock[a].frame)
  BY <1>1, SockOf DEF SockOK, FrameFits
<1>3. PICK s : s = sock[a]
  OBVIOUS
<1>4. TurnStill(a, s, t, cb) \/ TurnAnswers(a, s, t, cb)
  BY <1>3, TurnCases
<1>5. TurnKind(a, s, t, cb)
  BY <1>4 DEF TurnStill, TurnAnswers
<1>6. sock' = [sock EXCEPT ![a] = t] /\ conf' = conf /\ next' = next /\ wire' = wire
  BY DEF Turning, Handled
<1>7. PICK S : S = Issued(Peer(e)) /\ S = Issued(Peer(e))' /\ S \in SUBSET Ids
  BY <1>6, IssuedSame DEF Issued
<1>8. AllKnown(S, wire[e]) /\ CallsKnown(S, out[Peer(e)].calls) /\ Sound(S, sock[e])
  BY <1>7 DEF Cells
<1>9. Sound(S, sock'[e])
  <2>1. CASE e = a
    <3>1. Sound(S, s)
      BY <1>3, <1>8, <2>1
    <3>2. Sound(S, t)
      BY <1>1, <1>2, <1>3, <1>5, <1>7, <3>1, SoundRead
    <3>3. sock'[e] = t
      <4>1. sock'[e] = IF e = a THEN t ELSE sock[e]
        BY <1>1, <1>6, SocketsNext
      <4>2. QED
        BY <4>1, <2>1
    <3>4. QED
      BY <3>2, <3>3
  <2>2. CASE e # a
    BY <1>1, <1>6, <1>8, <2>2, SocketsNext
  <2>3. QED
    BY <2>1, <2>2
<1>10. CallsKnown(S, out'[Peer(e)].calls)
  <2>1. CASE out' = out
    BY <1>8, <2>1
  <2>2. CASE out' = [out EXCEPT ![a] = StartSend(@, << Header >>, How(a))]
    <3>1. PICK o : o = StartSend(out[a], << Header >>, How(a))
      OBVIOUS
    <3>2. out[a] \in OutType /\ How(a) \in Loops /\ << Header >> \in Buffers
      BY <1>1, HeaderFacts DEF Rest, How, Loops, Buffers
    <3>3. o.calls = << Header >>
      BY <3>1, <3>2, StartFacts
    <3>4. out'[a] = o /\ \A x \in End : x # a => out'[x] = out[x]
      BY <1>1, <2>2, <3>1 DEF Rest
    <3>5. CallsKnown(S, << Header >>)
      BY HeaderKnown
    <3>6. QED
      BY <1>1, <1>8, <3>3, <3>4, <3>5
  <2>3. QED
    BY <1>4, <2>1, <2>2 DEF TurnStill, TurnAnswers
<1>11. QED
  BY <1>6, <1>7, <1>8, <1>9, <1>10, CellsIf

(* A message is sent, and counted. *)
LEMMA SendCells ==
  ASSUME Base, NEW a \in End, NEW calls, NEW entry, SendsNow(a, calls, entry), NEW t, sock' = [sock EXCEPT ![a] = t],
         SameBytes(sock[a], t), t.frame = sock[a].frame, CallsKnown(Issued(a)', calls), NEW e \in End, Cells(e)
  PROVE  Cells(e)'
<1>1. SocksType /\ Rest /\ Peer(e) \in End
  BY SockOKOf, RestOf, Ends
<1>2. next' = [next EXCEPT ![a] = @ + 1] /\ conf' = conf /\ wire' = wire
  BY DEF SendsNow, Sending
<1>3. Calls(out[a], out'[a], calls) /\ \A y \in End : y # a => out'[y] = out[y]
  BY <1>1, SendingFacts
<1>4. out'[a].calls = calls
  BY <1>3 DEF Calls
<1>5. PICK S, R : S = Issued(Peer(e)) /\ R = Issued(Peer(e))'
  OBVIOUS
<1>6. S \subseteq R
  BY <1>1, <1>2, <1>5, IssuedMore
<1>7. AllKnown(S, wire[e]) /\ CallsKnown(S, out[Peer(e)].calls) /\ Sound(S, sock[e])
  BY <1>5 DEF Cells
<1>8. AllKnown(R, wire'[e])
  BY <1>2, <1>6, <1>7, KnownMore DEF AllKnown
<1>9. CallsKnown(R, out'[Peer(e)].calls)
  <2>1. CASE Peer(e) = a
    BY <1>4, <1>5, <2>1
  <2>2. CASE Peer(e) # a
    <3>1. CallsKnown(R, out[Peer(e)].calls)
      BY <1>6, <1>7, CallsMore
    <3>2. QED
      BY <1>1, <1>3, <2>2, <3>1
  <2>3. QED
    BY <2>1, <2>2
<1>10. Sound(R, sock'[e])
  <2>1. Sound(R, sock[e])
    BY <1>6, <1>7, SoundMore
  <2>2. CASE e = a
    <3>1. Sound(R, t)
      BY <2>1, <2>2 DEF Sound, SameBytes
    <3>2. sock'[e] = t
      <4>1. sock'[e] = IF e = a THEN t ELSE sock[e]
        BY <1>1, SocketsNext
      <4>2. QED
        BY <4>1, <2>2
    <3>3. QED
      BY <3>1, <3>2
  <2>3. CASE e # a
    BY <1>1, <2>1, <2>3, SocketsNext
  <2>4. QED
    BY <2>2, <2>3
<1>11. QED
  BY <1>5, <1>8, <1>9, <1>10, CellsIf

(* What sending leaves of the socket of its end. *)
Reports(s, t) ==
  /\ t.pc = s.pc /\ t.status = s.status /\ t.off = s.off /\ t.left = s.left /\ t.toRecv = s.toRecv
  /\ t.frame = s.frame /\ t.split = s.split /\ SameBytes(s, t) /\ (s.early => t.early)

LEMMA HistoryReport ==
  ASSUME NEW N, NEW s \in SockType(N), NEW early \in BOOLEAN, NEW frag \in BOOLEAN, NEW t, t = WithHistory(s, early, frag),
         s.early => early
  PROVE  Reports(s, t)
<1>1. /\ t.early = early /\ t.pc = s.pc /\ t.status = s.status /\ t.off = s.off /\ t.left = s.left /\ t.toRecv = s.toRecv
      /\ t.frame = s.frame /\ t.split = s.split
  BY HistorySet
<1>2. t.mem = s.mem
  BY DEF WithHistory, SockType
<1>3. Window(t) = Window(s)
  BY <1>1, <1>2 DEF Window
<1>4. SameBytes(s, t)
  BY <1>1, <1>3 DEF SameBytes
<1>5. QED
  BY <1>1, <1>4 DEF Reports

LEMMA FramesReport ==
  ASSUME Base, NEW a \in End, SendsFrames(a)
  PROVE  \E t : sock' = [sock EXCEPT ![a] = t] /\ Reports(sock[a], t)
<1>1. SocksType /\ sock[a] \in SockType(Length(a))
  BY SockOKOf
<1>2. PICK masked \in BOOLEAN : SendFrames(a, masked)
  BY DEF SendsFrames
<1>3. PICK r, N : r = sock[a] /\ r \in SockType(N)
  BY <1>1
<1>4. PICK early, frag : /\ sock' = [sock EXCEPT ![a].early = early, ![a].frag = frag]
                         /\ early = (r.early \/ r.status = "Connecting")
                         /\ frag = (r.frag \/ numFrames(Message[conf.script[a][next[a]]].n, MaxMessageSize) > 1)
  BY <1>2, <1>3 DEF SendFrames
<1>5. r.frag \in BOOLEAN /\ r.early \in BOOLEAN
  BY <1>3, SockFacts
<1>6. early \in BOOLEAN /\ frag \in BOOLEAN
  BY <1>4, <1>5
<1>7. r.early => early
  BY <1>4, <1>5
<1>8. PICK t : t = WithHistory(r, early, frag)
  OBVIOUS
<1>9. sock' = [sock EXCEPT ![a] = t]
  <2>1. sock' = [sock EXCEPT ![a].early = early, ![a].frag = frag]
    BY <1>4
  <2>2. QED
    BY <1>1, <1>3, <1>8, <2>1 DEF WithHistory, SocksType
<1>10. Reports(r, t)
  BY <1>3, <1>6, <1>7, <1>8, HistoryReport
<1>11. QED
  BY <1>3, <1>9, <1>10

LEMMA SendRawCells ==
  ASSUME Base, NEW a \in End, SendsRaw(a), NEW e \in End, Cells(e)
  PROVE  Cells(e)'
<1>1. SocksType /\ Rest
  BY SockOKOf, RestOf
<1>2. PICK id, calls, entry : /\ Sending(a, calls, entry) /\ sock' = sock /\ id = conf.script[a][next[a]]
                              /\ calls = << Raw(a, id) >>
  BY DEF SendsRaw, SendRaw
<1>3. id \in Ids /\ out[a].calls = <<>> /\ BufferType
  BY <1>1, <1>2, ScriptId DEF SendsRaw, Rest
<1>4. SendsNow(a, calls, entry)
  BY <1>2, <1>3, RawFacts DEF SendsNow, Buffers
<1>5. next' = [next EXCEPT ![a] = @ + 1] /\ conf' = conf
  BY <1>2 DEF Sending
<1>6. PICK R : R = Issued(a)'
  OBVIOUS
<1>7. id \in R
  BY <1>2, <1>3, <1>5, <1>6, IssuedNow
<1>8. CallsKnown(R, calls)
  BY <1>2, <1>3, <1>7, RawKnown
<1>9. sock' = [sock EXCEPT ![a] = sock[a]]
  BY <1>1, <1>2, SockWith
<1>10. SameBytes(sock[a], sock[a])
  BY SameSelf
<1>11. QED
  BY <1>4, <1>6, <1>8, <1>9, <1>10, SendCells

LEMMA SendNothingCells ==
  ASSUME Base, NEW a \in End, SendsNothing(a), NEW e \in End, Cells(e)
  PROVE  Cells(e)'
<1>1. SocksType
  BY SockOKOf
<1>2. Sending(a, <<>>, <<>>) /\ sock' = sock /\ out[a].calls = <<>>
  BY ScriptId DEF SendsNothing, SendNothing
<1>3. SendsNow(a, <<>>, <<>>)
  BY <1>2 DEF SendsNow, Buffers
<1>4. PICK R : R = Issued(a)'
  OBVIOUS
<1>5. CallsKnown(R, <<>>)
  BY DEF CallsKnown
<1>6. sock' = [sock EXCEPT ![a] = sock[a]]
  BY <1>1, <1>2, SockWith
<1>7. SameBytes(sock[a], sock[a])
  BY SameSelf
<1>8. QED
  BY <1>3, <1>4, <1>5, <1>6, <1>7, SendCells

LEMMA SendFramesCells ==
  ASSUME Base, NEW a \in End, SendsFrames(a), NEW e \in End, Cells(e)
  PROVE  Cells(e)'
<1>1. BufferType /\ out[a].calls = <<>> /\ CanSend(a)
  BY RestOf, ScriptId DEF SendsFrames, Rest
<1>2. PICK masked \in BOOLEAN : SendFrames(a, masked) /\ (masked => Cls(a) = "HBSocketClient")
  BY DEF SendsFrames
<1>3. PICK id, key, calls : Framed(a, id, key, calls)
  BY <1>1, <1>2, SendFramesIs
<1>4. PICK op, body, F : /\ op = Message[id].op /\ body = Payload(a, id) /\ F = numFrames(Message[id].n, MaxMessageSize)
  OBVIOUS
<1>5. /\ id \in Ids /\ id = conf.script[a][next[a]] /\ calls \in Buffers /\ key \in [1 .. F -> Keys]
      /\ calls = sendMsg(body, op, key, MaxMessageSize) /\ Sending(a, calls, << Seen(op, body) >>)
  BY <1>3, <1>4 DEF Framed
<1>6. PICK n \in Nat : n = Message[id].n
  BY <1>5, MessageFacts
<1>7. SendMsgCall(body, op, MaxMessageSize, n, F, key, calls)
  <2>1. body \in Seq(Cell) /\ Len(body) = n /\ \A i \in 1 .. n : PlainCell(body[i])
    BY <1>1, <1>4, <1>5, <1>6, PayloadFacts
  <2>2. op \in Nat /\ MaxMessageSize \in Nat \ {0}
    BY <1>4, <1>5, MessageFacts, MessageAssumption
  <2>3. QED
    BY <1>4, <1>5, <1>6, <2>1, <2>2 DEF SendMsgCall
<1>8. next' = [next EXCEPT ![a] = @ + 1] /\ conf' = conf
  BY <1>5 DEF Sending
<1>9. PICK R : R = Issued(a)'
  OBVIOUS
<1>10. id \in R
  BY <1>5, <1>8, <1>9, IssuedNow
<1>11. CallsKnown(R, calls)
  BY <1>5, <1>6, <1>7, <1>10, FramesKnown
<1>12. PICK t : sock' = [sock EXCEPT ![a] = t] /\ Reports(sock[a], t)
  BY FramesReport
<1>13. SameBytes(sock[a], t) /\ t.frame = sock[a].frame
  BY <1>12 DEF Reports
<1>14. PICK entry : entry = << Seen(op, body) >>
  OBVIOUS
<1>15. SendsNow(a, calls, entry)
  BY <1>1, <1>5, <1>14 DEF SendsNow
<1>16. QED
  BY <1>9, <1>11, <1>12, <1>13, <1>15, SendCells

LEMMA KindsCells ==
  ASSUME Base, NEW a \in End, Kinds(a), NEW e \in End, Cells(e)
  PROVE  Cells(e)'
BY ParkCells, StartCells, WriteCells, ArriveCells, TurnCells, SendRawCells, SendFramesCells, SendNothingCells DEF Kinds

LEMMA InitCells ==
  ASSUME Init, NEW e \in End
  PROVE  Cells(e)
<1>1. Base /\ Peer(e) \in End
  BY InitBase, Ends
<1>2. wire[e] = <<>> /\ out[Peer(e)].calls = <<>>
  BY <1>1 DEF Init, StreamInit, NewOut
<1>3. sock[e].left = 0 /\ sock[e].frame = NewFrame
  BY DEF Init, NewSocket
<1>4. NewFrame.st = "ReadHeader"
  BY NewFrameOK
<1>5. PICK S : S = Issued(Peer(e))
  OBVIOUS
<1>6. AllKnown(S, wire[e]) /\ CallsKnown(S, out[Peer(e)].calls)
  BY <1>2 DEF AllKnown, CallsKnown
<1>7. Sound(S, sock[e])
  BY <1>3, <1>4 DEF Sound
<1>8. QED
  BY <1>5, <1>6, <1>7 DEF Cells

-----------------------------------------------------------------------------
(* The causes of what goes wrong, which no step takes away *)

Large(e) == \E u \in Units(e) : u > conf.B \div 4
Astray(e) == out[Peer(e)].cut \/ Early(Peer(e))
Cause(e) == Astray(e) \/ Mismatched
Zero(e) == \E i \in 1 .. (next[Peer(e)] - 1) : Message[conf.script[Peer(e)][i]].zero

(* What may make the socket s of e write past its buffer. *)
Excused(e, s) ==
  \/ Large(e)
  \/ s.status = "Connecting" /\ (s.split \/ Astray(e))
  \/ s.frame.st = "Done"

(* There is room for what it will receive, and a cause for what is wrong. *)
Fine(e, s) ==
  /\ s.status = "Connecting" => s.off = 0
  /\ Cls(e) # "DataSocketV" /\ s.pc \in {"new", "idle", "recv"} => s.off + s.left + s.toRecv <= Length(e) \/ Excused(e, s)
  /\ s.pc = "overrun" => Cls(e) # "DataSocketV" /\ Excused(e, s)
  /\ s.pc = "garbled" => Cause(e)
  /\ s.pc = "spinning" => Zero(e)

(* The script has the messages that have been sent. *)
Scripted(x) == next[x] - 1 <= Len(conf.script[x])

(* What every step keeps of the two ends. *)
Steady ==
  /\ conf' = conf
  /\ \A y \in End : /\ Firm(y) /\ (sock[y].early => sock'[y].early)
                    /\ next[y] \in Nat /\ next'[y] \in Nat /\ next[y] <= next'[y]

LEMMA CausesStay ==
  ASSUME Steady, NEW e \in End
  PROVE  /\ Large(e)' = Large(e) /\ (Astray(e) => Astray(e)') /\ (Cause(e) => Cause(e)') /\ (Zero(e) => Zero(e)')
         /\ Length(e)' = Length(e) /\ Cls(e)' = Cls(e)
<1>1. conf' = conf /\ Peer(e) \in End
  BY Ends DEF Steady
<1>2. Length(e)' = Length(e) /\ Cls(e)' = Cls(e) /\ Units(e)' = Units(e)
  BY <1>1, SameConf
<1>3. Large(e)' = Large(e)
  BY <1>1, <1>2 DEF Large
<1>4. Astray(e) => Astray(e)'
  BY <1>1 DEF Astray, Early, Steady, Firm
<1>5. Mismatched => Mismatched'
  <2>1. SUFFICES ASSUME Mismatched PROVE Mismatched'
    OBVIOUS
  <2>2. PICK x \in End, y \in End : sock[x].status = "TCP" /\ sock[y].status = "WebSocket"
    BY <2>1 DEF Mismatched
  <2>3. sock'[x].status = sock[x].status /\ sock'[y].status = sock[y].status
    BY <2>2 DEF Steady, Firm, Keeps
  <2>4. QED
    BY <2>2, <2>3 DEF Mismatched
<1>6. Zero(e) => Zero(e)'
  <2>1. SUFFICES ASSUME Zero(e) PROVE Zero(e)'
    OBVIOUS
  <2>2. PICK n \in Nat, m \in Nat : n = next[Peer(e)] /\ m = next'[Peer(e)] /\ n <= m
    BY <1>1 DEF Steady
  <2>3. PICK i \in 1 .. n - 1 : Message[conf.script[Peer(e)][i]].zero
    BY <2>1, <2>2 DEF Zero
  <2>4. i \in 1 .. m - 1
    BY <2>2, <2>3
  <2>5. Message[conf'.script[Peer(e)][i]].zero
    BY <1>1, <2>3
  <2>6. \E j \in 1 .. next'[Peer(e)] - 1 : Message[conf'.script[Peer(e)][j]].zero
    BY <2>2, <2>4, <2>5
  <2>7. QED
    BY <2>6 DEF Zero
<1>7. QED
  BY <1>2, <1>3, <1>4, <1>5, <1>6 DEF Cause

LEMMA ExcuseStays ==
  ASSUME Steady, NEW e \in End, NEW s, Excused(e, s)
  PROVE  Excused(e, s)'
BY CausesStay DEF Excused

LEMMA FineStays ==
  ASSUME Steady, NEW e \in End, NEW s, Fine(e, s)
  PROVE  Fine(e, s)'
<1>1. /\ (Excused(e, s) => Excused(e, s)') /\ (Cause(e) => Cause(e)') /\ (Zero(e) => Zero(e)')
      /\ Length(e)' = Length(e) /\ Cls(e)' = Cls(e)
  BY ExcuseStays, CausesStay
<1>2. QED
  BY <1>1 DEF Fine

(* What a step does to the script, and to whether an end was too early. *)
Going(a) == conf' = conf /\ (next' = next \/ Counted(a)) /\ \A y \in End : sock[y].early => sock'[y].early

LEMMA GoingIf ==
  ASSUME SocksType, NEW a \in End, NEW t, sock' = [sock EXCEPT ![a] = t], sock[a].early => t.early,
         conf' = conf, next' = next \/ Counted(a)
  PROVE  Going(a)
<1>1. ASSUME NEW y \in End, sock[y].early PROVE sock'[y].early
  <2>1. sock'[y] = IF y = a THEN t ELSE sock[y]
    BY SocketsNext
  <2>2. CASE y = a
    BY <1>1, <2>1, <2>2
  <2>3. CASE y # a
    BY <1>1, <2>1, <2>3
  <2>4. QED
    BY <2>2, <2>3
<1>2. QED
  BY <1>1 DEF Going

LEMMA KindsGoing ==
  ASSUME Base, NEW a \in End, Kinds(a)
  PROVE  Going(a)
<1>1. SocksType
  BY SockOKOf
<1>2. ASSUME NEW t, Parks(a, t) PROVE Going(a)
  <2>1. t.early = sock[a].early /\ sock' = [sock EXCEPT ![a] = t] /\ conf' = conf /\ next' = next
    BY <1>2 DEF Parks, Halts, Moved, Kept
  <2>2. QED
    BY <1>1, <2>1, GoingIf
<1>3. ASSUME NEW t, Starts(a, t) PROVE Going(a)
  <2>1. t.early = sock[a].early /\ sock' = [sock EXCEPT ![a] = t] /\ conf' = conf /\ next' = next
    BY <1>3 DEF Starts, Halts, Moved, Kept
  <2>2. QED
    BY <1>1, <2>1, GoingIf
<1>4. CASE UNCHANGED connVars
  BY <1>4 DEF connVars, Going
<1>5. ASSUME NEW t, NEW n, Arrives(a, t, n) PROVE Going(a)
  <2>1. t.early = sock[a].early /\ sock' = [sock EXCEPT ![a] = t] /\ conf' = conf /\ next' = next
    BY <1>5 DEF Arrives, Fills, Halts, Moved, Kept
  <2>2. QED
    BY <1>1, <2>1, GoingIf
<1>6. ASSUME NEW t, NEW cb, Turning(a, t, cb) PROVE Going(a)
  <2>1. PICK r : r = sock[a]
    OBVIOUS
  <2>2. Leaves(r, t)
    BY <1>6, <2>1, TurnCases DEF TurnStill, TurnAnswers
  <2>3. t.early = sock[a].early
    BY <2>1, <2>2 DEF Leaves
  <2>4. sock' = [sock EXCEPT ![a] = t] /\ conf' = conf /\ next' = next
    BY <1>6 DEF Turning, Handled
  <2>5. QED
    BY <1>1, <2>3, <2>4, GoingIf
<1>7. CASE SendsRaw(a) \/ SendsNothing(a)
  <2>1. Counted(a)
    BY <1>7, CountedRaw
  <2>2. sock' = sock
    BY <1>7 DEF SendsRaw, SendRaw, SendsNothing, SendNothing
  <2>3. QED
    BY <2>1, <2>2 DEF Going, Counted
<1>8. CASE SendsFrames(a)
  <2>1. Counted(a)
    BY <1>8, CountedFrames
  <2>2. PICK t : sock' = [sock EXCEPT ![a] = t] /\ (sock[a].early => t.early)
    BY <1>8, FramesReport DEF Reports
  <2>3. QED
    BY <1>1, <2>1, <2>2, GoingIf DEF Counted
<1>9. QED
  BY <1>2, <1>3, <1>4, <1>5, <1>6, <1>7, <1>8 DEF Kinds

LEMMA GoingSteady ==
  ASSUME Base, NEW a \in End, Kinds(a)
  PROVE  Steady
<1>1. conf' = conf /\ (next' = next \/ Counted(a)) /\ \A y \in End : sock[y].early => sock'[y].early
  BY KindsGoing DEF Going
<1>2. next \in [End -> Nat \ {0}]
  BY RestOf DEF Rest
<1>3. ASSUME NEW y \in End PROVE next[y] \in Nat /\ next'[y] \in Nat /\ next[y] <= next'[y]
  <2>1. PICK n \in Nat : n = next[y]
    BY <1>2
  <2>2. CASE next' = next
    BY <2>1, <2>2
  <2>3. CASE next' = [next EXCEPT ![a] = @ + 1]
    <3>1. next'[y] = n \/ next'[y] = n + 1
      BY <1>2, <2>1, <2>3
    <3>2. QED
      BY <2>1, <3>1
  <2>4. QED
    BY <1>1, <2>2, <2>3 DEF Counted
<1>4. QED
  BY <1>1, <1>3, KindsFirm DEF Steady

LEMMA KindsScripted ==
  ASSUME Base, NEW a \in End, Kinds(a), NEW x \in End, Scripted(x)
  PROVE  Scripted(x)'
<1>1. conf' = conf /\ (next' = next \/ Counted(a))
  BY KindsGoing DEF Going
<1>2. next \in [End -> Nat \ {0}]
  BY RestOf DEF Rest
<1>3. PICK n, l : n \in Nat /\ n = next[x] /\ l = Len(conf.script[x]) /\ l = Len(conf'.script[x])
  BY <1>1, <1>2
<1>4. n - 1 <= l
  BY <1>3 DEF Scripted
<1>5. CASE next'[x] = next[x]
  BY <1>3, <1>4, <1>5 DEF Scripted
<1>6. CASE x = a /\ Counted(a)
  <2>1. next'[x] = n + 1 /\ n <= l
    BY <1>2, <1>3, <1>6 DEF Counted, CanSend
  <2>2. next'[x] - 1 <= l
    <3>1. n <= l /\ n \in Nat
      BY <1>3, <2>1
    <3>2. (n + 1) - 1 = n
      BY <1>3
    <3>3. QED
      BY <2>1, <3>1, <3>2
  <2>3. QED
    BY <1>3, <2>2 DEF Scripted
<1>7. next'[x] = next[x] \/ (x = a /\ Counted(a))
  BY <1>1, <1>2 DEF Counted
<1>8. QED
  BY <1>5, <1>6, <1>7

(* A message that has been sent is of a unit of the script. *)
LEMMA IssuedUnit ==
  ASSUME Base, NEW e \in End, Scripted(Peer(e)), NEW id \in Issued(Peer(e)), NEW n \in Nat, n = Message[id].n
  PROVE  n + 1 \in Units(e) /\ (Message[id].zero => Zero(e))
<1>1. PICK x \in End : x = Peer(e)
  BY Ends
<1>2. PICK k \in 1 .. next[x] - 1 : conf.script[x][k] = id
  BY <1>1 DEF Issued, SentOnce
<1>3. PICK m \in Nat, l \in Nat : m = next[x] /\ l = Len(conf.script[x])
  BY ConfFacts, LenProperties DEF Base, Types
<1>4. k \in 1 .. l
  <2>1. m - 1 <= l
    BY <1>1, <1>3 DEF Scripted
  <2>2. QED
    BY <1>2, <1>3, <2>1
<1>5. n + 1 \in Units(e)
  <2>1. id \in {conf.script[Peer(e)][i] : i \in 1 .. Len(conf.script[Peer(e)])}
    BY <1>1, <1>2, <1>3, <1>4
  <2>2. QED
    BY <2>1 DEF Units
<1>6. Message[id].zero => Zero(e)
  BY <1>1, <1>2 DEF Zero
<1>7. QED
  BY <1>5, <1>6

LEMMA HeaderUnit ==
  ASSUME NEW e, Cls(e) \notin RawClass
  PROVE  Len(Header) \in Units(e) /\ Len(Header) \in Nat /\ Len(Header) >= 1
<1>1. Len(Header) \in Units(e)
  BY DEF Units
<1>2. PICK m \in Nat : m = HeaderLines
  BY MessageAssumption
<1>3. Len(Header) = 2 * m + 1
  BY <1>2, HeaderFacts
<1>4. QED
  BY <1>1, <1>2, <1>3

(* The buffer is too small for a unit of n cells. *)
LEMMA LargeIf ==
  ASSUME Base, NEW e \in End, Cls(e) # "DataSocketV", NEW left \in Nat, left > Length(e) \div 4,
         NEW n \in Units(e), n \in Nat, n >= left
  PROVE  Large(e)
<1>1. PICK B \in Nat \ {0} : B = conf.B
  BY ConfFacts DEF Base, Types
<1>2. Length(e) = B
  BY <1>1 DEF Length, BufferLen, Cls
<1>3. B \div 4 \in Nat
  BY <1>1, Division
<1>4. left > B \div 4
  BY <1>2
<1>5. n > B \div 4
  BY <1>3, <1>4
<1>6. QED
  BY <1>1, <1>5 DEF Large

-----------------------------------------------------------------------------
(* What a turn makes of a socket for which there is room *)

(* A direction with no cause to go wrong has its receiver at a unit. *)
LEMMA LiveHere ==
  ASSUME Base, NEW e \in End, Incoming(e), NEW s, s = sock[e], s.pc \notin Dead, ~Refused(s.frame), ~Astray(e),
         s.status = "Connecting" \/ ~Mismatched
  PROVE  \E H, x, w, gn, g, snt, sx, T, rd, b, C, V, k :
           /\ H = HeaderOf(e) /\ x = Peer(e) /\ sx = sock[x] /\ Live(H, x, s, w, gn, g, snt, sx, T, rd, b, C, V, k)
<1>1. PICK H, x, w, o, gn, g, snt, sx : Line(e, H, x, s, w, o, gn, g, snt, sx) /\ Course(H, x, s, w, o, gn, g, snt, sx)
  <2>1. \E H, x, r, w, o, gn, g, snt, sx : Line(e, H, x, r, w, o, gn, g, snt, sx) /\ Course(H, x, r, w, o, gn, g, snt, sx)
    BY LineIs
  <2>2. PICK H, x, r, w, o, gn, g, snt, sx : Line(e, H, x, r, w, o, gn, g, snt, sx) /\ Course(H, x, r, w, o, gn, g, snt, sx)
    BY <2>1
  <2>3. r = s
    BY <2>2 DEF Line
  <2>4. QED
    BY <2>2, <2>3
<1>2. H = HeaderOf(e) /\ x = Peer(e) /\ o = out[x] /\ sx = sock[x] /\ x \in End
  BY <1>1, Ends DEF Line
<1>3. ~o.cut /\ ~sx.early
  BY <1>2 DEF Astray, Early
<1>4. s.status \in Status /\ sx.status \in Status
  <2>1. sock[e] \in SockType(Length(e)) /\ sock[x] \in SockType(Length(x))
    BY <1>2, SockOKOf
  <2>2. QED
    BY <1>2, <2>1, SockFacts
<1>5. ~Lost(s, o, sx)
  <2>1. SUFFICES ASSUME s.status # "Connecting", sx.status # "Connecting", s.status # sx.status PROVE FALSE
    BY <1>3 DEF Lost
  <2>2. Mismatched
    BY <1>2, <1>4, <2>1 DEF Mismatched, Status
  <2>3. QED
    BY <2>1, <2>2
<1>6. Receives(H, s, w, g, snt, sx)
  BY <1>1, <1>5, LineReceives
<1>7. Way(H, x, s, w, o, gn, g, snt, sx)
  BY <1>1, <1>5 DEF Course
<1>8. PICK T, rd : Flow(s, w, o, gn, T, rd) /\ Ordered(H, x, s, gn, g, snt, sx, T, rd)
  BY <1>7 DEF Way
<1>9. PICK b, C, V, k : Story(H, x, gn, snt, sx, T, b, C, V) /\ Pos(H, ~Untied(sx), s, g, b, C, V, k, rd)
  BY <1>3, <1>8 DEF Ordered
<1>10. Live(H, x, s, w, gn, g, snt, sx, T, rd, b, C, V, k)
  BY <1>6, <1>8, <1>9 DEF Live, Receives, Flow
<1>11. QED
  BY <1>2, <1>10

(* A turn of Receive ends. *)
LEMMA CompactFine ==
  ASSUME NEW e \in End, NEW s, NEW t, Compacted(e, s, t), s.left \in Nat, Length(e) \in Nat,
         s.status = "Connecting" => s.off = 0 /\ Cls(e) # "DataSocketV",
         Cls(e) # "DataSocketV" /\ s.left > Length(e) \div 4 => Excused(e, t)
  PROVE  Fine(e, t)
<1>1. t.pc = "recv" /\ t.status = s.status /\ t.left = s.left
  BY DEF Compacted, Moved, Kept
<1>2. CASE Cls(e) # "DataSocketV" /\ t.off = 0 /\ t.toRecv = Length(e) - s.left
  <2>1. PICK N \in Nat, l \in Nat : N = Length(e) /\ l = s.left
    OBVIOUS
  <2>2. t.off + t.left + t.toRecv = 0 + l + (N - l)
    BY <1>1, <1>2, <2>1
  <2>3. 0 + l + (N - l) <= N
    BY <2>1
  <2>4. t.off + t.left + t.toRecv <= Length(e)
    BY <2>1, <2>2, <2>3
  <2>5. QED
    BY <1>1, <1>2, <2>4 DEF Fine
<1>3. CASE Cls(e) # "DataSocketV" /\ t.off = s.off /\ s.left > Length(e) \div 4
  BY <1>1, <1>3 DEF Fine
<1>4. CASE Cls(e) = "DataSocketV"
  BY <1>1, <1>4 DEF Fine
<1>5. QED
  BY <1>2, <1>3, <1>4 DEF Compacted

(* The socket has more to read. *)
LEMMA ReadFine ==
  ASSUME NEW e, NEW t, t.pc = "read", t.status = "Connecting" => t.off = 0
  PROVE  Fine(e, t)
BY DEF Fine

LEMMA RawWaitFine ==
  ASSUME Base, NEW e \in End, Scripted(Peer(e)), NEW s, s = sock[e], s.status = "TCP", Sound(Issued(Peer(e)), s),
         NEW t, NEW cb, RawWaits(e, s, t, cb)
  PROVE  Fine(e, t)
<1>1. /\ Length(e) \in Nat \ {0} /\ s.left \in Nat /\ Window(s) \in Seq(AnyCell) /\ Len(Window(s)) = s.left /\ ~Refused(s.frame)
  <2>1. SocksType /\ conf \in Configs /\ s.frame = NewFrame
    BY SockOKOf DEF SockOK
  <2>2. QED
    BY <2>1, SockOf, NewFrameOK DEF Refused
<1>2. PICK l \in Nat : l = s.left
  BY <1>1
<1>3. ASSUME Cls(e) # "DataSocketV", l > Length(e) \div 4 PROVE Excused(e, t)
  <2>1. Length(e) \div 4 \in Nat
    BY <1>1, Division
  <2>2. l # 0
    BY <1>3, <2>1
  <2>3. 1 \in 1 .. l /\ Window(s)[1][1] = "sz" /\ Window(s)[1][3] > s.left
    BY <1>2, <2>2 DEF RawWaits
  <2>4. PICK c : c = Window(s)[1]
    OBVIOUS
  <2>5. Known(Issued(Peer(e)), c)
    BY <1>1, <1>2, <2>3, <2>4 DEF Sound
  <2>6. c[2] \in Issued(Peer(e)) /\ c[3] = (IF Message[c[2]].zero THEN 0 ELSE Message[c[2]].n + 1) /\ c[3] > l
    BY <1>2, <2>3, <2>4, <2>5 DEF Known
  <2>7. PICK id \in Issued(Peer(e)), n \in Nat : id = c[2] /\ n = Message[id].n
    <3>1. c[2] \in Ids
      BY <2>6 DEF Issued
    <3>2. QED
      BY <2>6, <3>1, MessageFacts
  <2>8. n + 1 \in Units(e)
    BY <2>7, IssuedUnit
  <2>9. n + 1 > l
    <3>1. CASE Message[id].zero
      <4>1. 0 > l
        BY <2>6, <2>7, <3>1
      <4>2. QED
        BY <1>2, <4>1
    <3>2. CASE ~Message[id].zero
      BY <2>6, <2>7, <3>2
    <3>3. QED
      BY <3>1, <3>2
  <2>10. n + 1 \in Nat /\ n + 1 >= l
    BY <1>2, <2>7, <2>9
  <2>11. Large(e)
    BY <1>3, <2>8, <2>10, LargeIf
  <2>12. QED
    BY <2>11 DEF Excused
<1>4. Compacted(e, s, t)
  BY DEF RawWaits
<1>5. QED
  BY <1>1, <1>2, <1>3, <1>4, CompactFine

LEMMA RawStopFine ==
  ASSUME Base, NEW e \in End, Scripted(Peer(e)), Incoming(e), NEW s, s = sock[e], s.pc = "read", s.status = "TCP",
         Sound(Issued(Peer(e)), s), NEW t, NEW cb, RawStops(e, s, t, cb)
  PROVE  Fine(e, t)
<1>1. /\ s.left \in Nat /\ Window(s) \in Seq(AnyCell) /\ Len(Window(s)) = s.left /\ ~Refused(s.frame) /\ t.status = "TCP"
  <2>1. SocksType /\ conf \in Configs /\ s.frame = NewFrame
    BY SockOKOf DEF SockOK
  <2>2. t.status = s.status
    BY DEF RawStops, Halts, Moved, Kept
  <2>3. QED
    BY <2>1, <2>2, SockOf, NewFrameOK DEF Refused
<1>2. CASE Halts(e, s, t, "garbled") /\ Window(s)[1][1] # "sz"
  <2>1. Cause(e)
    <3>1. SUFFICES ASSUME ~Cause(e) PROVE FALSE
      OBVIOUS
    <3>2. ~Astray(e) /\ ~Mismatched /\ s.pc \notin Dead
      BY <3>1 DEF Cause, Dead
    <3>3. PICK H, x, w, gn, g, snt, sx, T, rd, b, C, V, k : Live(H, x, s, w, gn, g, snt, sx, T, rd, b, C, V, k)
      BY <1>1, <3>2, LiveHere
    <3>4. t.pc = "spinning"
      BY <3>3, NotGarbled
    <3>5. QED
      BY <1>2, <3>4 DEF Halts
  <2>2. t.pc = "garbled"
    BY <1>2 DEF Halts
  <2>3. QED
    BY <1>1, <2>1, <2>2 DEF Fine
<1>3. CASE Halts(e, s, t, "spinning") /\ Window(s)[1][1] = "sz" /\ Window(s)[1][3] = 0
  <2>1. 1 \in 1 .. s.left
    BY <1>1 DEF RawStops
  <2>2. PICK c : c = Window(s)[1]
    OBVIOUS
  <2>3. Known(Issued(Peer(e)), c)
    BY <1>1, <2>1, <2>2 DEF Sound
  <2>4. c[2] \in Issued(Peer(e)) /\ c[3] = (IF Message[c[2]].zero THEN 0 ELSE Message[c[2]].n + 1) /\ c[3] = 0
    BY <1>3, <2>2, <2>3 DEF Known
  <2>5. PICK id \in Issued(Peer(e)), n \in Nat : id = c[2] /\ n = Message[id].n
    <3>1. c[2] \in Ids
      BY <2>4 DEF Issued
    <3>2. QED
      BY <2>4, <3>1, MessageFacts
  <2>6. Message[id].zero
    <3>1. n + 1 # 0
      BY <2>5
    <3>2. QED
      BY <2>4, <2>5, <3>1
  <2>7. Zero(e)
    BY <2>5, <2>6, IssuedUnit
  <2>8. t.pc = "spinning"
    BY <1>3 DEF Halts
  <2>9. QED
    BY <1>1, <2>7, <2>8 DEF Fine
<1>4. QED
  BY <1>2, <1>3 DEF RawStops

LEMMA FrameWaitFine ==
  ASSUME Base, NEW e \in End, Scripted(Peer(e)), NEW s, s = sock[e], s.status = "WebSocket", Sound(Issued(Peer(e)), s),
         NEW t, NEW cb, FrameWaits(e, s, t, cb)
  PROVE  Fine(e, t)
<1>1. /\ Length(e) \in Nat \ {0} /\ s.left \in Nat /\ Len(Window(s)) = s.left /\ s.frame \in FrameType /\ Cls(e) \notin RawClass
  <2>1. SocksType /\ conf \in Configs /\ SockOK(e, s) /\ s.frame \in FrameType
    BY SockOKOf
  <2>2. QED
    BY <2>1, SockOf DEF SockOK
<1>2. PICK l \in Nat, f \in FrameType : l = s.left /\ f = s.frame
  BY <1>1
<1>3. f.st # "Done" /\ (l = 0 \/ Waits(f, Window(s))) /\ Compacted(e, s, t)
  BY <1>2 DEF FrameWaits
<1>4. ASSUME Cls(e) # "DataSocketV", l > Length(e) \div 4 PROVE Excused(e, t)
  <2>1. Length(e) \div 4 \in Nat
    BY <1>1, Division
  <2>2. l # 0
    BY <1>4, <2>1
  <2>3. CASE f.st = "ReadHeader"
    <3>1. l = 1
      BY <1>1, <1>2, <1>3, <2>2, <2>3 DEF Waits
    <3>2. Len(Header) \in Units(e) /\ Len(Header) \in Nat /\ Len(Header) >= l
      BY <1>1, <3>1, HeaderUnit
    <3>3. Large(e)
      BY <1>4, <3>2, LargeIf
    <3>4. QED
      BY <3>3 DEF Excused
  <2>4. CASE f.st \in {"ReadPayloadLength", "ReadMask"}
    BY <1>1, <1>2, <1>3, <2>2, <2>4 DEF Waits
  <2>5. CASE f.st = "ReadPayload"
    <3>1. AtMost(Issued(Peer(e)), f.length)
      BY <1>2, <1>3, <2>5 DEF Sound, Refused
    <3>2. PICK id \in Issued(Peer(e)) : f.length <= Message[id].n
      BY <3>1 DEF AtMost
    <3>3. id \in Ids
      BY <3>2 DEF Issued
    <3>4. PICK n \in Nat, m \in Nat : n = Message[id].n /\ m = f.length
      BY <1>1, <1>2, <3>3, FrameFields, MessageFacts
    <3>5. m <= n
      BY <3>2, <3>4
    <3>6. l < m
      BY <1>1, <1>2, <1>3, <2>2, <2>5, <3>4 DEF Waits
    <3>7. n + 1 \in Units(e)
      BY <3>2, <3>4, IssuedUnit
    <3>8. n + 1 \in Nat /\ n + 1 >= l
      <4>1. m \in Nat /\ n \in Nat /\ l \in Nat
        BY <1>2, <3>4
      <4>2. QED
        BY <3>5, <3>6, <4>1
    <3>9. Large(e)
      BY <1>4, <3>7, <3>8, LargeIf
    <3>10. QED
      BY <3>9 DEF Excused
  <2>6. f.st \in Sts
    BY <1>1, <1>2, FrameFields
  <2>7. QED
    BY <1>3, <2>3, <2>4, <2>5, <2>6 DEF Sts
<1>5. QED
  BY <1>1, <1>2, <1>3, <1>4, CompactFine

LEMMA FrameStayFine ==
  ASSUME Base, NEW e \in End, NEW s, s = sock[e], s.status = "WebSocket", NEW t, NEW cb, FrameStays(e, s, t, cb)
  PROVE  Fine(e, t)
<1>1. PICK u, g, r : /\ Turned(s, u, g, Window(s), 0, Length(e)) /\ Compacted(e, u, t)
                     /\ g \in FrameType /\ FrameOK(g) /\ TurnStays(s.frame, r, g, 0)
  BY DEF FrameStays
<1>2. g.st = "Done" /\ u.frame = g /\ u.status = "WebSocket" /\ u.left = s.left - 0
  BY <1>1 DEF Turned, TurnStays
<1>3. Length(e) \in Nat /\ s.left \in Nat
  BY SockOKOf
<1>4. u.left \in Nat
  BY <1>2, <1>3
<1>5. t.frame = g
  BY <1>1, <1>2 DEF Compacted, Moved, Kept
<1>6. Excused(e, t)
  BY <1>2, <1>5 DEF Excused
<1>7. QED
  BY <1>1, <1>2, <1>3, <1>4, <1>6, CompactFine

LEMMA FrameStopFine ==
  ASSUME Base, NEW e \in End, Incoming(e), NEW s, s = sock[e], s.pc = "read", s.status = "WebSocket",
         NEW t, NEW cb, FrameStops(e, s, t, cb)
  PROVE  Fine(e, t)
<1>1. t.pc = "garbled" /\ t.status = "WebSocket"
  BY DEF FrameStops, Halts, Moved, Kept
<1>2. Cause(e)
  <2>1. SUFFICES ASSUME ~Cause(e) PROVE FALSE
    OBVIOUS
  <2>2. ~Astray(e) /\ ~Mismatched /\ s.pc \notin Dead /\ ~Refused(s.frame)
    BY <2>1 DEF Cause, Dead, FrameStops, Refused
  <2>3. PICK H, x, w, gn, g, snt, sx, T, rd, b, C, V, k : Live(H, x, s, w, gn, g, snt, sx, T, rd, b, C, V, k)
    BY <2>2, LiveHere
  <2>4. QED
    BY <2>3, NotGarbled
<1>3. QED
  BY <1>1, <1>2 DEF Fine

LEMMA FrameFine ==
  ASSUME Base, NEW e \in End, Scripted(Peer(e)), Incoming(e), NEW s, s = sock[e], s.pc = "read", s.status = "WebSocket",
         Sound(Issued(Peer(e)), s), NEW t, NEW cb,
         FrameWaits(e, s, t, cb) \/ FrameStops(e, s, t, cb) \/ FrameReads(e, s, t, cb)
         \/ FrameStays(e, s, t, cb) \/ FrameEnds(e, s, t, cb)
  PROVE  Fine(e, t)
<1>1. CASE FrameReads(e, s, t, cb) \/ FrameEnds(e, s, t, cb)
  <2>1. t.pc = "read" /\ t.status = "WebSocket"
    BY <1>1 DEF FrameReads, FrameEnds, Turned
  <2>2. QED
    BY <2>1, ReadFine
<1>2. QED
  BY <1>1, FrameWaitFine, FrameStopFine, FrameStayFine

-----------------------------------------------------------------------------
(* The upgrade header *)

(* Both ends accept the request, or neither does. *)
LEMMA BothAccept ==
  Accepts("client") <=> Accepts("server")
<1>1. /\ Response \in {NoResponse, [upgrade |-> "tcp", connection |-> NoField, accept |-> <<>>],
                       [upgrade |-> "websocket", connection |-> "upgrade", accept |-> getAcceptKey(Request.key)]}
      /\ Request.key = generateKey
  BY DEF Response, Request, getResponse, HandshakeResponse, createHandShakeRequest
<1>2. CASE Response = NoResponse
  <2>1. Response.upgrade = "none"
    BY <1>2 DEF NoResponse, NoField
  <2>2. ~readServerResponse(Response, generateKey)
    BY <2>1 DEF readServerResponse
  <2>3. QED
    BY <1>2, <2>2 DEF Accepts
<1>3. CASE Response = [upgrade |-> "tcp", connection |-> NoField, accept |-> <<>>]
  <2>1. Response.upgrade = "tcp" /\ NoResponse.upgrade = "none"
    BY <1>3 DEF NoResponse, NoField
  <2>2. readServerResponse(Response, generateKey) /\ Response # NoResponse
    BY <2>1 DEF readServerResponse
  <2>3. QED
    BY <2>2 DEF Accepts
<1>4. CASE Response = [upgrade |-> "websocket", connection |-> "upgrade", accept |-> getAcceptKey(Request.key)]
  <2>1. /\ Response.upgrade = "websocket" /\ Response.connection = "upgrade" /\ Response.accept = getAcceptKey(generateKey)
        /\ NoResponse.upgrade = "none"
    BY <1>1, <1>4 DEF NoResponse, NoField
  <2>2. readServerResponse(Response, generateKey) /\ Response # NoResponse
    BY <2>1 DEF readServerResponse
  <2>3. QED
    BY <2>2 DEF Accepts
<1>5. QED
  BY <1>1, <1>2, <1>3, <1>4

(* The end e waits for a header, and nothing has gone wrong so far. *)
Awaits(e, s) ==
  /\ s = sock[e] /\ s.pc = "read" /\ s.status = "Connecting" /\ Cls(e) \notin RawClass /\ s.off = 0

LEMMA AwaitsLive ==
  ASSUME Base, NEW e \in End, Incoming(e), NEW s, Awaits(e, s), ~Astray(e)
  PROVE  \E x, w, gn, g, snt, sx, T, rd, b, C, V, k : x = Peer(e) /\ sx = sock[x] /\ Live(1, x, s, w, gn, g, snt, sx, T, rd, b, C, V, k)
<1>1. s = sock[e] /\ s.pc \notin Dead /\ s.status = "Connecting" /\ s.frame = NewFrame /\ HeaderOf(e) = 1
  BY SockOKOf DEF Awaits, Dead, SockOK, HeaderOf
<1>2. ~Refused(s.frame)
  BY <1>1, NewFrameOK DEF Refused
<1>3. QED
  BY <1>1, <1>2, LiveHere

LEMMA AwaitsHead ==
  ASSUME Base, NEW e \in End, Incoming(e), NEW s, Awaits(e, s), ~Astray(e), s.hdr = 0
  PROVE  /\ EmptyLines(s) # {} => Whole(s)
         /\ s.left >= Len(Header) => EmptyLines(s) # {}
<1>1. PICK x, w, gn, g, snt, sx, T, rd, b, C, V, k : Live(1, x, s, w, gn, g, snt, sx, T, rd, b, C, V, k)
  BY AwaitsLive
<1>2. Heads(s)
  BY <1>1, HeadsHere DEF Awaits
<1>3. SocksType /\ conf \in Configs
  BY SockOKOf
<1>4. Length(e) \in Nat /\ Fits(s, Length(e)) /\ s.off = 0
  BY <1>3, SockOf DEF Awaits
<1>5. QED
  BY <1>2, <1>4, HeaderLook

(* What waits is no longer than the header. *)
LEMMA AwaitsFew ==
  ASSUME Base, NEW e \in End, Incoming(e), NEW s, Awaits(e, s), ~Astray(e), ~Accepts(e)
  PROVE  s.left <= Len(Header)
<1>1. PICK x, w, gn, g, snt, sx, T, rd, b, C, V, k :
        x = Peer(e) /\ sx = sock[x] /\ Live(1, x, s, w, gn, g, snt, sx, T, rd, b, C, V, k)
  BY AwaitsLive
<1>2. sx.status = "Connecting"
  <2>1. x \in End /\ x # e /\ Cls(x) \notin RawClass
    BY <1>1, Ends, ConfFacts, SockOKOf DEF Awaits, Cls
  <2>2. ~Accepts(x)
    BY <2>1, BothAccept, Ends DEF End
  <2>3. SockOK(x, sx)
    BY <1>1, <2>1, SockOKOf
  <2>4. QED
    BY <2>1, <2>2, <2>3 DEF SockOK
<1>3. /\ C \in Buffers /\ Layout(T, b, C) /\ b[1] = 0 /\ Len(C) \in Nat /\ rd \in Nat /\ s.left \in Nat
  BY <1>1, LiveFacts
<1>4. /\ Len(C) <= 1 + Len(snt) /\ snt = <<>> /\ \A j \in 1 .. Len(C) : j <= 1 => C[j] = Header
  BY <1>1, <1>2 DEF Live, Story, Parse, Tied, Untied
<1>5. rd + s.left + Len(w) <= Len(T) /\ T \in Seq(Cell) /\ w \in Seq(Cell)
  BY <1>1 DEF Live, Carries
<1>6. PICK h \in Nat, z \in Nat, c \in Nat : h = Len(Header) /\ z = Len(T) /\ c = Len(C)
  BY <1>3, <1>5, HeaderFacts, LenProperties
<1>7. z <= h
  <2>1. c \in {0, 1}
    BY <1>4, <1>6
  <2>2. CASE c = 0
    <3>1. b[0 + 1] = z
      BY <1>3, <1>6, <2>2 DEF Layout
    <3>2. QED
      BY <1>3, <1>6, <3>1
  <2>3. CASE c = 1
    <3>1. b[1 + 1] = z /\ b[1 + 1] = b[1] + Len(C[1]) /\ C[1] = Header
      BY <1>3, <1>4, <1>6, <2>3 DEF Layout
    <3>2. z = 0 + h
      BY <1>3, <1>6, <3>1
    <3>3. QED
      BY <1>6, <3>2
  <2>4. QED
    BY <2>1, <2>2, <2>3
<1>8. PICK l \in Nat, y \in Nat : l = s.left /\ y = Len(w)
  BY <1>3, <1>5, LenProperties
<1>9. rd + l + y <= z
  BY <1>5, <1>6, <1>8
<1>10. l <= h
  BY <1>3, <1>6, <1>7, <1>8, <1>9
<1>11. QED
  BY <1>6, <1>8, <1>10

(* What is left of a header fits, or the header itself is too large. *)
LEMMA LookFine ==
  ASSUME Base, NEW e \in End, NEW s, Awaits(e, s), NEW u, Looked(e, s, u), NEW t, Compacted(e, u, t),
         s.hdr = 0 /\ ~Astray(e) => s.left <= Len(Header)
  PROVE  Fine(e, t)
<1>1. /\ u.status = "Connecting" /\ u.off = 0 /\ u.left = s.left /\ u.split = (s.split \/ s.hdr # 0)
      /\ Cls(e) \notin RawClass /\ s = sock[e]
  BY DEF Looked, Awaits
<1>2. Length(e) \in Nat /\ s.left \in Nat /\ Cls(e) # "DataSocketV"
  BY <1>1, SockOKOf DEF RawClass
<1>3. t.status = "Connecting" /\ t.split = u.split
  BY <1>1 DEF Compacted, Moved, Kept
<1>4. ASSUME s.left > Length(e) \div 4 PROVE Excused(e, t)
  <2>1. CASE s.hdr # 0
    BY <1>1, <1>3, <2>1 DEF Excused
  <2>2. CASE Astray(e)
    BY <1>3, <2>2 DEF Excused
  <2>3. CASE s.hdr = 0 /\ ~Astray(e)
    <3>1. Len(Header) \in Units(e) /\ Len(Header) \in Nat
      BY <1>1, HeaderUnit
    <3>2. Len(Header) >= s.left
      BY <1>2, <2>3, <3>1
    <3>3. Large(e)
      BY <1>2, <1>4, <3>1, <3>2, LargeIf
    <3>4. QED
      BY <3>3 DEF Excused
  <2>4. QED
    BY <2>1, <2>2, <2>3
<1>5. u.left \in Nat /\ (Cls(e) # "DataSocketV" /\ u.left > Length(e) \div 4 => Excused(e, t))
  BY <1>1, <1>2, <1>4
<1>6. u.status = "Connecting" => u.off = 0 /\ Cls(e) # "DataSocketV"
  BY <1>1, <1>2
<1>7. QED
  BY <1>2, <1>5, <1>6, CompactFine

LEMMA UpgradeFine ==
  ASSUME Base, NEW e \in End, Incoming(e), NEW s, Awaits(e, s), NEW t, NEW cb, Upgrades(e, t, cb)
  PROVE  Fine(e, t)
<1>1. s = sock[e] /\ s.pc = "read" /\ s.status = "Connecting" /\ s.off = 0
  BY DEF Awaits
<1>2. CASE UpgradeWaits(e, s, t, cb)
  <2>1. PICK u : Looked(e, s, u) /\ Compacted(e, u, t)
    BY <1>2 DEF UpgradeWaits
  <2>2. ASSUME s.hdr = 0, ~Astray(e) PROVE s.left <= Len(Header)
    <3>1. ~(s.left >= Len(Header))
      BY <1>2, <2>2, AwaitsHead DEF UpgradeWaits
    <3>2. PICK l \in Nat, h \in Nat : l = s.left /\ h = Len(Header)
      BY <1>1, SockOKOf, HeaderUnit DEF Awaits
    <3>3. QED
      BY <3>1, <3>2
  <2>3. QED
    BY <2>1, <2>2, LookFine
<1>3. CASE UpgradeRefused(e, s, t, cb) /\ ~Accepts(e)
  <2>1. PICK u : Looked(e, s, u) /\ Compacted(e, u, t)
    BY <1>3 DEF UpgradeRefused
  <2>2. ASSUME s.hdr = 0, ~Astray(e) PROVE s.left <= Len(Header)
    BY <1>3, <2>2, AwaitsFew
  <2>3. QED
    BY <2>1, <2>2, LookFine
<1>4. CASE UpgradeStops(e, s, t, cb)
  <2>1. PICK u : /\ Looked(e, s, u)
                 /\ \/ s.hdr # 0 /\ Halts(e, u, t, "crashed")
                    \/ s.hdr = 0 /\ EmptyLines(s) # {} /\ ~Whole(s) /\ Halts(e, u, t, "garbled")
    BY <1>4 DEF UpgradeStops
  <2>2. t.off = 0
    BY <1>1, <2>1 DEF Looked, Halts
  <2>3. CASE t.pc = "crashed"
    BY <2>2, <2>3 DEF Fine
  <2>4. CASE t.pc = "garbled"
    <3>1. s.hdr = 0 /\ EmptyLines(s) # {} /\ ~Whole(s)
      BY <2>1, <2>4 DEF Halts
    <3>2. Astray(e)
      BY <3>1, AwaitsHead
    <3>3. QED
      BY <2>2, <2>4, <3>2 DEF Fine, Cause
  <2>5. QED
    BY <2>1, <2>3, <2>4 DEF Halts
<1>5. CASE UpgradeOpens(e, s, t, cb)
  <2>1. PICK u, v : Looked(e, s, u) /\ Takes(e, u, v, HeaderEnd(s)) /\ t.pc = v.pc /\ t.status = Proper(e)
    BY <1>5 DEF UpgradeOpens, Opened
  <2>2. t.pc = "read"
    BY <1>1, <2>1 DEF Looked, Takes
  <2>3. t.status # "Connecting"
    BY <2>1 DEF Proper, Transport
  <2>4. QED
    BY <2>2, <2>3, ReadFine
<1>6. QED
  BY <1>1, <1>2, <1>3, <1>4, <1>5 DEF Upgrades

(* A turn of readMessages. *)
LEMMA TurnFine ==
  ASSUME Base, NEW e \in End, Scripted(Peer(e)), Cells(e), Incoming(e), NEW s, s = sock[e], Fine(e, s),
         NEW t, NEW cb, Turning(e, t, cb)
  PROVE  Fine(e, t)
<1>1. s.pc = "read" /\ Sound(Issued(Peer(e)), s) /\ (s.status = "Connecting" => s.off = 0)
  BY DEF Turning, Cells, Fine
<1>2. CASE s.status = "TCP" /\ (RawWaits(e, s, t, cb) \/ RawStops(e, s, t, cb) \/ RawTakes(e, s, t, cb))
  <2>1. CASE RawTakes(e, s, t, cb)
    <3>1. t.pc = "read" /\ t.status = "TCP"
      BY <1>1, <1>2, <2>1 DEF RawTakes, Takes, Kept
    <3>2. QED
      BY <3>1, ReadFine
  <2>2. CASE RawWaits(e, s, t, cb)
    BY <1>1, <1>2, <2>2, RawWaitFine
  <2>3. CASE RawStops(e, s, t, cb)
    BY <1>1, <1>2, <2>3, RawStopFine
  <2>4. QED
    BY <1>2, <2>1, <2>2, <2>3
<1>3. CASE s.status = "WebSocket" /\ (\/ FrameWaits(e, s, t, cb) \/ FrameStops(e, s, t, cb) \/ FrameReads(e, s, t, cb)
                                      \/ FrameStays(e, s, t, cb) \/ FrameEnds(e, s, t, cb))
  BY <1>1, <1>3, FrameFine
<1>4. CASE s.status = "Connecting" /\ Cls(e) \notin RawClass /\ Upgrades(e, t, cb)
  <2>1. Awaits(e, s)
    BY <1>1, <1>4 DEF Awaits
  <2>2. QED
    BY <1>4, <2>1, UpgradeFine
<1>5. QED
  BY <1>2, <1>3, <1>4 DEF Turning

-----------------------------------------------------------------------------
(* The other steps *)

(* Nothing changes but the pc. *)
LEMMA HaltFine ==
  ASSUME NEW e, NEW s, Fine(e, s), NEW t, NEW pc, Halts(e, s, t, pc),
         pc = s.pc \/ (s.pc \in {"new", "idle", "recv"} /\ pc \in {"idle", "recv", "closed"})
  PROVE  Fine(e, t)
<1>1. /\ t.pc = pc /\ t.off = s.off /\ t.left = s.left /\ t.toRecv = s.toRecv
      /\ t.status = s.status /\ t.split = s.split /\ t.frame = s.frame
  BY DEF Halts, Moved, Kept
<1>2. Excused(e, t) <=> Excused(e, s)
  BY <1>1 DEF Excused
<1>3. CASE pc = s.pc
  BY <1>1, <1>2, <1>3 DEF Fine
<1>4. CASE s.pc \in {"new", "idle", "recv"} /\ pc \in {"idle", "recv", "closed"}
  BY <1>1, <1>2, <1>4 DEF Fine
<1>5. QED
  BY <1>3, <1>4

LEMMA ParkFine ==
  ASSUME NEW e, NEW t, Parks(e, t), Fine(e, sock[e])
  PROVE  Fine(e, t)
BY HaltFine DEF Parks

LEMMA StartFine ==
  ASSUME NEW e, NEW t, Starts(e, t), Fine(e, sock[e])
  PROVE  Fine(e, t)
<1>1. Halts(e, sock[e], t, "idle") /\ sock[e].pc = "new"
  BY DEF Starts
<1>2. QED
  BY <1>1, HaltFine

LEMMA ReportFine ==
  ASSUME NEW e, NEW t, Reports(sock[e], t), Fine(e, sock[e])
  PROVE  Fine(e, t)
<1>1. PICK s : s = sock[e]
  OBVIOUS
<1>2. /\ t.pc = s.pc /\ t.off = s.off /\ t.left = s.left /\ t.toRecv = s.toRecv
      /\ t.status = s.status /\ t.split = s.split /\ t.frame = s.frame
  BY <1>1 DEF Reports
<1>3. Excused(e, t) <=> Excused(e, s)
  BY <1>2 DEF Excused
<1>4. QED
  BY <1>1, <1>2, <1>3 DEF Fine

LEMMA ArriveFine ==
  ASSUME Base, NEW e \in End, NEW t, NEW n, Arrives(e, t, n), Fine(e, sock[e])
  PROVE  Fine(e, t)
<1>1. PICK s : s = sock[e]
  OBVIOUS
<1>2. /\ s.pc = "recv" /\ n \in 1 .. Len(wire[e]) /\ n <= Space(e) /\ Fills(e, s, t, n) /\ Fine(e, s)
  BY <1>1 DEF Arrives
<1>3. s \in SockType(Length(e)) /\ Length(e) \in Nat
  BY <1>1, SockOKOf
<1>4. PICK N \in Nat, off \in Nat, left \in Nat, room \in Int :
        N = Length(e) /\ off = s.off /\ left = s.left /\ room = s.toRecv
  BY <1>3, SockFacts
<1>5. n \in Nat /\ wire[e] \in Seq(Cell)
  BY <1>2, RestOf DEF Rest
<1>6. CASE Halts(e, s, t, "overrun") /\ s.off + s.left + n > Length(e)
  <2>1. off + left + n > N
    BY <1>4, <1>6
  <2>2. /\ t.pc = "overrun" /\ t.off = s.off /\ t.status = s.status /\ t.split = s.split /\ t.frame = s.frame
    BY <1>6 DEF Halts, Moved, Kept
  <2>3. Cls(e) # "DataSocketV"
    <3>1. SUFFICES ASSUME Cls(e) = "DataSocketV" PROVE FALSE
      OBVIOUS
    <3>2. Cardinality(DOMAIN s.mem) = N
      BY <1>3, <1>4, SockFacts, MemorySize
    <3>3. Space(e) = N - (off + left)
      BY <1>1, <1>4, <3>1, <3>2 DEF Space, getNumberOfBuffers
    <3>4. n <= N - (off + left)
      BY <1>2, <3>3
    <3>5. QED
      BY <1>5, <2>1, <3>4
  <2>4. Excused(e, s)
    <3>1. SUFFICES ASSUME ~Excused(e, s) PROVE FALSE
      OBVIOUS
    <3>2. n <= room
      BY <1>1, <1>2, <1>4, <2>3 DEF Space
    <3>3. s.off + s.left + s.toRecv <= Length(e)
      BY <1>2, <2>3, <3>1 DEF Fine
    <3>4. off + left + room <= N
      BY <1>4, <3>3
    <3>5. QED
      BY <1>5, <2>1, <3>2, <3>4
  <2>5. Excused(e, t)
    BY <2>2, <2>4 DEF Excused
  <2>6. t.status = "Connecting" => t.off = 0
    BY <1>2, <2>2 DEF Fine
  <2>7. QED
    BY <2>2, <2>3, <2>5, <2>6 DEF Fine
<1>7. CASE t.pc = "read" /\ t.off = s.off /\ Kept(s, t)
  <2>1. t.status = "Connecting" => t.off = 0
    BY <1>2, <1>7 DEF Fine, Kept
  <2>2. QED
    BY <1>7, <2>1, ReadFine
<1>8. QED
  BY <1>2, <1>6, <1>7 DEF Fills

(* What the end a makes of its own socket. *)
LEMMA OwnFine ==
  ASSUME Base, NEW a \in End, Scripted(Peer(a)), Cells(a), Incoming(a), Fine(a, sock[a]), Kinds(a)
  PROVE  sock' = sock \/ \E t : sock' = [sock EXCEPT ![a] = t] /\ Fine(a, t)
<1>1. ASSUME NEW t, Parks(a, t) PROVE sock' = [sock EXCEPT ![a] = t] /\ Fine(a, t)
  BY <1>1, ParkFine DEF Parks
<1>2. ASSUME NEW t, Starts(a, t) PROVE sock' = [sock EXCEPT ![a] = t] /\ Fine(a, t)
  BY <1>2, StartFine DEF Starts
<1>3. ASSUME NEW t, NEW n, Arrives(a, t, n) PROVE sock' = [sock EXCEPT ![a] = t] /\ Fine(a, t)
  BY <1>3, ArriveFine DEF Arrives
<1>4. ASSUME NEW t, NEW cb, Turning(a, t, cb) PROVE sock' = [sock EXCEPT ![a] = t] /\ Fine(a, t)
  <2>1. Fine(a, t)
    BY <1>4, TurnFine
  <2>2. QED
    BY <1>4, <2>1 DEF Turning, Handled
<1>5. CASE UNCHANGED connVars
  BY <1>5 DEF connVars
<1>6. CASE SendsRaw(a) \/ SendsNothing(a)
  BY <1>6 DEF SendsRaw, SendRaw, SendsNothing, SendNothing
<1>7. CASE SendsFrames(a)
  BY <1>7, FramesReport, ReportFine
<1>8. QED
  BY <1>1, <1>2, <1>3, <1>4, <1>5, <1>6, <1>7 DEF Kinds

Good(e) == Fine(e, sock[e])

(* What it takes to show that only the named causes break a receiver. *)
Sane(e) == Cells(e) /\ Scripted(e) /\ Good(e)

LEMMA KindsGood ==
  ASSUME Base, InOrder, \A x \in End : Sane(x), NEW a \in End, Kinds(a), NEW e \in End
  PROVE  Good(e)'
<1>1. PICK q : q = sock'[e]
  OBVIOUS
<1>2. Fine(e, q)
  <2>1. SocksType /\ Peer(a) \in End
    BY SockOKOf, Ends
  <2>2. Scripted(Peer(a)) /\ Cells(a) /\ Incoming(a) /\ Fine(a, sock[a])
    BY <2>1 DEF Sane, Good, InOrder
  <2>3. sock' = sock \/ \E t : sock' = [sock EXCEPT ![a] = t] /\ Fine(a, t)
    BY <2>2, OwnFine
  <2>4. Fine(e, sock[e])
    BY DEF Sane, Good
  <2>5. CASE sock' = sock
    BY <1>1, <2>4, <2>5
  <2>6. ASSUME NEW t, sock' = [sock EXCEPT ![a] = t], Fine(a, t) PROVE Fine(e, q)
    <3>1. sock'[e] = IF e = a THEN t ELSE sock[e]
      BY <2>1, <2>6, SocketsNext
    <3>2. CASE e = a
      BY <1>1, <2>6, <3>1, <3>2
    <3>3. CASE e # a
      BY <1>1, <2>4, <3>1, <3>3
    <3>4. QED
      BY <3>2, <3>3
  <2>7. QED
    BY <2>3, <2>5, <2>6
<1>3. Steady
  BY GoingSteady
<1>4. Fine(e, q)'
  BY <1>2, <1>3, FineStays
<1>5. QED
  BY <1>1, <1>4 DEF Good, Fine, Excused

LEMMA NextSane ==
  ASSUME Base, InOrder, \A x \in End : Sane(x), [Next]_vars
  PROVE  \A e \in End : Sane(e)'
<1>1. PICK a \in End : Kinds(a)
  BY NextKinds
<1>2. ASSUME NEW e \in End PROVE Cells(e)' /\ Scripted(e)' /\ Good(e)'
  <2>1. Cells(e) /\ Scripted(e)
    BY DEF Sane
  <2>2. QED
    BY <1>1, <2>1, KindsCells, KindsScripted, KindsGood
<1>3. QED
  BY <1>2 DEF Sane

LEMMA InitSane ==
  ASSUME Init, NEW e \in End
  PROVE  Sane(e)
<1>1. Base /\ Cells(e)
  BY InitBase, InitCells
<1>2. Scripted(e)
  <2>1. next[e] = 1
    BY DEF Init
  <2>2. PICK l \in Nat : l = Len(conf.script[e])
    BY <1>1, ConfFacts, LenProperties DEF Base, Types
  <2>3. 1 - 1 <= l
    OBVIOUS
  <2>4. QED
    BY <2>1, <2>2, <2>3 DEF Scripted
<1>3. Good(e)
  <2>1. PICK N \in Nat : N = Length(e)
    BY <1>1, SockOKOf
  <2>2. sock[e].off = 0 /\ sock[e].left = 0 /\ sock[e].toRecv = N /\ sock[e].pc \in {"new", "idle"}
    BY <2>1 DEF Init, NewSocket, Length
  <2>3. 0 + 0 + N <= N
    OBVIOUS
  <2>4. QED
    BY <2>1, <2>2, <2>3 DEF Good, Fine
<1>4. QED
  BY <1>1, <1>2, <1>3 DEF Sane

LEMMA SaneCauses ==
  ASSUME \A e \in End : Sane(e)
  PROVE  BrokenOnlyFor
<1>1. ASSUME NEW e \in End
      PROVE  /\ sock[e].pc = "overrun" => Cls(e) # "DataSocketV" /\ Excused(e, sock[e])
             /\ sock[e].pc = "garbled" => Cause(e)
             /\ sock[e].pc = "spinning" => Zero(e)
  BY DEF Sane, Good, Fine
<1>2. QED
  BY <1>1 DEF BrokenOnlyFor, Excused, Large, Astray, Cause, Zero

(* A receiver writes past its buffer, takes other bytes for a header or     *)
(* loops on a message for the causes BrokenOnlyFor names and for no others: *)
(* Receive, readMessages and processHandshake of the five socket classes.   *)
THEOREM BrokenOnlyForCauses == Spec => []BrokenOnlyFor
<1> DEFINE Inv == Base /\ InOrder /\ \A e \in End : Sane(e)
<1>1. Init => Inv
  BY InitBase, InitOrder, InitSane
<1>2. Inv /\ [Next]_vars => Inv'
  BY NextBase, NextOrder, NextSane
<1>3. Inv => BrokenOnlyFor
  BY SaneCauses
<1>4. QED
  BY <1>1, <1>2, <1>3, PTL DEF Spec
=============================================================================
