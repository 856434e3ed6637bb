--------------------------- MODULE IOThreads_proofs --------------------------
(***************************************************************************)
(* Theorems about the IO threads, for any number of client threads and     *)
(* connections, any pipe, buffer and queue size and any application.       *)
(***************************************************************************)
EXTENDS IOThreads, SequenceTheorems, FiniteSetTheorems, WellFoundedInduction, TLAPS

Channels == {"own", "sender"}
Handlers == Conns \cup {"own", "sender", "timer", "listen"}

Loops == [open : BOOLEAN, m_stop : BOOLEAN, added : SUBSET Handlers, ready : Seq(Handlers),
          batch : Seq(Handlers), pipe : [Channels -> Seq(Conns)], buf : Seq(Conns),
          timer : {"off", "once", "repeat"}]

-----------------------------------------------------------------------------
(* Sequences: what the operations on them do.                              *)

(* A part of a sequence. *)
LEMMA Part ==
  ASSUME NEW S, NEW s \in Seq(S), NEW a \in Nat \ {0}, NEW b \in 0 .. Len(s), a <= b + 1
  PROVE  /\ SubSeq(s, a, b) \in Seq(S) /\ Len(SubSeq(s, a, b)) = b - a + 1
         /\ \A i \in 1 .. b - a + 1 : SubSeq(s, a, b)[i] = s[a + i - 1]
<1>1. Len(s) \in Nat /\ \A i \in a .. b : s[i] \in S
  BY LenProperties
<1>2. a \in Int /\ b \in Int
  BY <1>1
<1>3. /\ SubSeq(s, a, b) \in Seq(S)
      /\ Len(SubSeq(s, a, b)) = IF a <= b THEN b - a + 1 ELSE 0
      /\ \A i \in 1 .. b - a + 1 : SubSeq(s, a, b)[i] = s[a + i - 1]
  BY <1>1, <1>2, SubSeqProperties
<1>4. QED
  BY <1>1, <1>3

(* A sequence cut in two and joined again. *)
LEMMA CutAndJoin ==
  ASSUME NEW S, NEW s \in Seq(S), NEW n \in 0 .. Len(s)
  PROVE  SubSeq(s, 1, n) \o SubSeq(s, n + 1, Len(s)) = s
<1>1. Len(s) \in Nat
  BY LenProperties
<1> DEFINE l == SubSeq(s, 1, n)
           r == SubSeq(s, n + 1, Len(s))
<1>2. /\ l \in Seq(S) /\ Len(l) = n /\ \A i \in 1 .. n : l[i] = s[i]
  <2>1. 1 \in Nat \ {0} /\ 1 <= n + 1 /\ n - 1 + 1 = n /\ \A i \in 1 .. n : 1 + i - 1 = i
    BY <1>1
  <2>2. QED
    BY <1>1, <2>1, Part
<1>3. /\ r \in Seq(S) /\ Len(r) = Len(s) - n /\ \A i \in 1 .. Len(s) - n : r[i] = s[n + i]
  <2>1. n + 1 \in Nat \ {0} /\ Len(s) \in 0 .. Len(s) /\ n + 1 <= Len(s) + 1
        /\ Len(s) - (n + 1) + 1 = Len(s) - n
    BY <1>1
  <2>2. /\ r \in Seq(S) /\ Len(r) = Len(s) - (n + 1) + 1
        /\ \A i \in 1 .. Len(s) - (n + 1) + 1 : r[i] = s[(n + 1) + i - 1]
    BY <2>1, Part
  <2>3. \A i \in 1 .. Len(s) - n : (n + 1) + i - 1 = n + i
    BY <1>1
  <2> HIDE DEF r
  <2>4. QED
    BY <2>1, <2>2, <2>3
<1> HIDE DEF l, r
<1>4. /\ l \o r \in Seq(S) /\ Len(l \o r) = Len(l) + Len(r)
      /\ \A i \in 1 .. Len(l) + Len(r) : (l \o r)[i] = IF i <= Len(l) THEN l[i] ELSE r[i - Len(l)]
  BY <1>2, <1>3, ConcatProperties
<1>5. ASSUME NEW i \in 1 .. Len(s) PROVE (l \o r)[i] = s[i]
  BY <1>1, <1>2, <1>3, <1>4
<1>6. l \o r = s
  <2>1. Len(l \o r) = Len(s)
    BY <1>1, <1>2, <1>3, <1>4
  <2>2. \A i \in 1 .. Len(l \o r) : (l \o r)[i] = s[i]
    BY <1>5, <2>1
  <2>3. QED
    BY <1>4, <2>1, <2>2, SeqEqual
<1>7. QED
  BY <1>6 DEF l, r

(* The first element of the second sequence moved to the first one. *)
LEMMA MoveHead ==
  ASSUME NEW S, NEW a \in Seq(S), NEW b \in Seq(S), b # <<>>
  PROVE  Append(a, Head(b)) \o Tail(b) = a \o b
  OBVIOUS

(* The first element taken from two sequences joined. *)
LEMMA HeadOfJoin ==
  ASSUME NEW S, NEW a \in Seq(S), NEW b \in Seq(S), a # <<>>
  PROVE  a \o b # <<>> /\ Head(a \o b) = Head(a) /\ Tail(a) \o b = Tail(a \o b)
<1>1. /\ a \o b \in Seq(S) /\ Len(a \o b) = Len(a) + Len(b) /\ Len(a) \in Nat \ {0} /\ Len(b) \in Nat
      /\ \A i \in 1 .. Len(a) + Len(b) : (a \o b)[i] = IF i <= Len(a) THEN a[i] ELSE b[i - Len(a)]
  BY ConcatProperties, EmptySeq, LenProperties
<1>2. a \o b # <<>> /\ Head(a \o b) = Head(a)
  BY <1>1
<1>3. Tail(a) \o b = Tail(a \o b)
  BY <1>1, <1>2
<1>4. QED
  BY <1>2, <1>3

(* An element appended to the last of three sequences. *)
LEMMA AppendLast ==
  ASSUME NEW S, NEW a \in Seq(S), NEW b \in Seq(S), NEW x \in S
  PROVE  a \o Append(b, x) = Append(a \o b, x)
  OBVIOUS

(* A sequence with an element more is another one. *)
LEMMA AppendChanges ==
  ASSUME NEW S, NEW s \in Seq(S), NEW x
  PROVE  Append(s, x) # s
<1>1. Len(s) \in Nat /\ Len(Append(s, x)) = Len(s) + 1
  BY LenProperties, AppendProperties
<1>2. QED
  BY <1>1

(* A set of numbers has a least one. *)
LEMMA LeastOf ==
  ASSUME NEW T \in SUBSET Nat, T # {}
  PROVE  Min(T) \in T
<1> DEFINE R == OpToRel(<, Nat)
<1>1. IsWellFoundedOn(R, Nat)
  BY NatLessThanWellFounded
<1>2. PICK x \in T : \A y \in T : ~(<<y, x>> \in R)
  <2> HIDE DEF R
  <2>1. QED
    BY <1>1, WFMin
<1>3. ASSUME NEW y \in T PROVE x <= y
  <2>1. ASSUME y < x PROVE <<y, x>> \in R
    BY <2>1 DEF OpToRel
  <2>2. ~(y < x)
    BY <1>2, <2>1
  <2>3. QED
    BY <2>2
<1>4. QED
  BY <1>3 DEF Min

(* RemoveAt drops the element at a position. *)
LEMMA RemoveAtPart ==
  ASSUME NEW S, NEW s \in Seq(S), NEW j \in 1 .. Len(s)
  PROVE  /\ RemoveAt(s, j) \in Seq(S)
         /\ \A c : Contains(RemoveAt(s, j), c) => Contains(s, c)
<1>1. Len(s) \in Nat
  BY LenProperties
<1> DEFINE l == SubSeq(s, 1, j - 1)
           r == SubSeq(s, j + 1, Len(s))
<1>2. /\ l \in Seq(S) /\ Len(l) = j - 1 /\ \A i \in 1 .. j - 1 : l[i] = s[i]
  <2>1. 1 \in Nat \ {0} /\ j - 1 \in 0 .. Len(s) /\ 1 <= (j - 1) + 1 /\ (j - 1) - 1 + 1 = j - 1
        /\ \A i \in 1 .. j - 1 : 1 + i - 1 = i
    BY <1>1
  <2>2. QED
    BY <1>1, <2>1, Part
<1>3. /\ r \in Seq(S) /\ Len(r) = Len(s) - j /\ \A i \in 1 .. Len(s) - j : r[i] = s[j + i]
  <2>1. j + 1 \in Nat \ {0} /\ Len(s) \in 0 .. Len(s) /\ j + 1 <= Len(s) + 1
        /\ Len(s) - (j + 1) + 1 = Len(s) - j
    BY <1>1
  <2>2. /\ r \in Seq(S) /\ Len(r) = Len(s) - (j + 1) + 1
        /\ \A i \in 1 .. Len(s) - (j + 1) + 1 : r[i] = s[(j + 1) + i - 1]
    BY <2>1, Part
  <2>3. \A i \in 1 .. Len(s) - j : (j + 1) + i - 1 = j + i
    BY <1>1
  <2> HIDE DEF r
  <2>4. QED
    BY <2>1, <2>2, <2>3
<1> HIDE DEF l, r
<1>4. /\ l \o r \in Seq(S) /\ Len(l \o r) = Len(l) + Len(r)
      /\ \A i \in 1 .. Len(l) + Len(r) : (l \o r)[i] = IF i <= Len(l) THEN l[i] ELSE r[i - Len(l)]
  BY <1>2, <1>3, ConcatProperties
<1>5. ASSUME NEW i \in 1 .. Len(l \o r) PROVE \E k \in 1 .. Len(s) : (l \o r)[i] = s[k]
  <2>1. CASE i <= Len(l)
    BY <1>1, <1>2, <1>3, <1>4, <2>1
  <2>2. CASE ~(i <= Len(l))
    <3>1. i - Len(l) \in 1 .. Len(s) - j /\ j + (i - Len(l)) \in 1 .. Len(s)
      BY <1>1, <1>2, <1>3, <1>4, <2>2
    <3>2. QED
      BY <1>3, <1>4, <2>2, <3>1
  <2>3. QED
    BY <2>1, <2>2
<1>6. RemoveAt(s, j) = l \o r
  BY DEF RemoveAt, l, r
<1>7. QED
  BY <1>4, <1>5, <1>6 DEF Contains

-----------------------------------------------------------------------------
(* What a call does to the parts of an event loop.                         *)

(* The pipes, the batch and the buffer are left alone. *)
Calm(l, k) ==
  /\ k \in Loops
  /\ k.pipe = l.pipe /\ k.buf = l.buf /\ k.batch = l.batch

(* Nothing but h is new among the handlers of the loop. *)
Held(l, c) == c \in l.added \/ Contains(l.ready, c) \/ Contains(l.batch, c)
Keeps(l, k, h) == \A c \in Conns : Held(k, c) => Held(l, c) \/ c = h

LEMMA EdgeCalm ==
  ASSUME NEW l \in Loops, NEW h
  PROVE  Calm(l, Edge(l, h)) /\ Keeps(l, Edge(l, h), "none") /\ Edge(l, h).added = l.added
<1>1. CASE h \in l.added /\ ~Contains(l.ready, h)
  <2> DEFINE k == [l EXCEPT !.ready = Append(@, h)]
  <2>1. Edge(l, h) = k /\ h \in Handlers
    BY <1>1 DEF Edge, Loops
  <2>2. /\ k \in Loops /\ k.pipe = l.pipe /\ k.buf = l.buf /\ k.batch = l.batch /\ k.added = l.added
        /\ k.ready = Append(l.ready, h)
    <3> DEFINE r == Append(l.ready, h)
    <3>1. r \in Seq(Handlers)
      BY <2>1 DEF Loops
    <3> HIDE DEF r
    <3>2. k = [l EXCEPT !.ready = r]
      BY DEF r
    <3>3. QED
      BY <3>1, <3>2 DEF Loops, r
  <2>3. ASSUME NEW c \in Conns, Held(k, c) PROVE Held(l, c)
    <3>1. CASE Contains(k.ready, c)
      BY <2>2, <3>1, <1>1 DEF Contains, Held, Loops
    <3>2. QED
      BY <3>1, <2>2, <2>3 DEF Held
  <2>4. QED
    BY <2>1, <2>2, <2>3 DEF Calm, Keeps
<1>2. CASE ~(h \in l.added /\ ~Contains(l.ready, h))
  <2>1. Edge(l, h) = l
    BY <1>2 DEF Edge
  <2>2. QED
    BY <2>1 DEF Calm, Keeps
<1>3. QED
  BY <1>1, <1>2

LEMMA AddCalm ==
  ASSUME NEW l \in Loops, NEW h \in Handlers, NEW pending
  PROVE  Calm(l, add(l, h, pending)) /\ Keeps(l, add(l, h, pending), h)
<1> DEFINE k == [l EXCEPT !.added = @ \cup {h}]
<1>1. /\ k \in Loops /\ k.pipe = l.pipe /\ k.buf = l.buf /\ k.batch = l.batch /\ k.ready = l.ready
      /\ k.added = l.added \cup {h}
  BY DEF Loops
<1>2. Calm(l, k) /\ Keeps(l, k, h)
  BY <1>1 DEF Calm, Keeps, Held
<1>3. Calm(k, Edge(k, h)) /\ Keeps(k, Edge(k, h), "none")
  BY <1>1, EdgeCalm
<1>4. Calm(l, Edge(k, h)) /\ Keeps(l, Edge(k, h), h)
  BY <1>2, <1>3, ConnsAssumption DEF Calm, Keeps
<1>5. Calm(l, l) /\ Keeps(l, l, h)
  BY DEF Calm, Keeps
<1>6. add(l, h, pending) \in {l, k, Edge(k, h)}
  BY DEF add
<1>7. QED
  BY <1>2, <1>4, <1>5, <1>6

LEMMA TimerCalm ==
  ASSUME NEW l \in Loops
  PROVE  /\ \A r \in BOOLEAN : Calm(l, startTimer(l, r)) /\ Keeps(l, startTimer(l, r), "none")
         /\ Calm(l, Expire(l)) /\ Keeps(l, Expire(l), "none")
         /\ Calm(l, [l EXCEPT !.m_stop = TRUE]) /\ Keeps(l, [l EXCEPT !.m_stop = TRUE], "none")
         /\ Calm(l, close(l)) /\ Keeps(l, close(l), "none")
<1>1. ASSUME NEW x \in {"off", "once", "repeat"}
      PROVE  Calm(l, [l EXCEPT !.timer = x]) /\ Keeps(l, [l EXCEPT !.timer = x], "none")
  <2> DEFINE k == [l EXCEPT !.timer = x]
  <2>1. /\ k \in Loops /\ k.pipe = l.pipe /\ k.buf = l.buf /\ k.batch = l.batch /\ k.ready = l.ready
        /\ k.added = l.added
    BY DEF Loops
  <2>2. QED
    BY <2>1 DEF Calm, Keeps, Held
<1>2. ASSUME NEW r \in BOOLEAN
      PROVE  Calm(l, startTimer(l, r)) /\ Keeps(l, startTimer(l, r), "none")
  BY <1>1 DEF startTimer
<1>3. Calm(l, Expire(l)) /\ Keeps(l, Expire(l), "none")
  <2> DEFINE k == [l EXCEPT !.timer = IF @ = "once" THEN "off" ELSE @]
  <2>1. k \in Loops /\ Calm(l, k) /\ Keeps(l, k, "none")
    <3>1. (IF l.timer = "once" THEN "off" ELSE l.timer) \in {"off", "once", "repeat"}
      BY DEF Loops
    <3>2. QED
      BY <3>1, <1>1 DEF Calm
  <2>2. Calm(k, Edge(k, "timer")) /\ Keeps(k, Edge(k, "timer"), "none")
    BY <2>1, EdgeCalm
  <2>3. Expire(l) = Edge(k, "timer")
    BY DEF Expire
  <2>4. QED
    BY <2>1, <2>2, <2>3, ConnsAssumption DEF Calm, Keeps
<1>4. Calm(l, [l EXCEPT !.m_stop = TRUE]) /\ Keeps(l, [l EXCEPT !.m_stop = TRUE], "none")
  <2> DEFINE k == [l EXCEPT !.m_stop = TRUE]
  <2>1. /\ k \in Loops /\ k.pipe = l.pipe /\ k.buf = l.buf /\ k.batch = l.batch /\ k.ready = l.ready
        /\ k.added = l.added
    BY DEF Loops
  <2>2. QED
    BY <2>1 DEF Calm, Keeps, Held
<1>5. Calm(l, close(l)) /\ Keeps(l, close(l), "none")
  <2> DEFINE k == [l EXCEPT !.open = FALSE, !.added = {}, !.ready = <<>>]
  <2>1. /\ k \in Loops /\ k.pipe = l.pipe /\ k.buf = l.buf /\ k.batch = l.batch /\ k.ready = <<>>
        /\ k.added = {}
    <3>1. <<>> \in Seq(Handlers)
      OBVIOUS
    <3>2. QED
      BY <3>1 DEF Loops
  <2>2. QED
    BY <2>1 DEF Calm, Keeps, Held, close, Contains
<1>6. QED
  BY <1>2, <1>3, <1>4, <1>5

LEMMA EraseCalm ==
  ASSUME NEW l \in Loops, NEW h
  PROVE  Calm(l, erase(l, h)) /\ Keeps(l, erase(l, h), "none")
<1> DEFINE s == l.ready
           r == RemoveFirst(s, h)
           k == [l EXCEPT !.added = @ \ {h}, !.ready = r]
<1>1. s \in Seq(Handlers)
  BY DEF Loops
<1>2. r \in Seq(Handlers) /\ \A c : Contains(r, c) => Contains(s, c)
  <2>1. CASE \E i \in 1..Len(s) : s[i] = h
    <3> DEFINE I == {i \in 1..Len(s) : s[i] = h}
    <3>1. Len(s) \in Nat /\ I \in SUBSET Nat /\ I # {}
      BY <1>1, <2>1, LenProperties
    <3>2. Min(I) \in I
      BY <3>1, LeastOf
    <3>3. Min(I) \in 1..Len(s)
      BY <3>2
    <3>4. r = RemoveAt(s, Min(I))
      BY <2>1 DEF RemoveFirst, SelectInSeq
    <3>5. QED
      BY <1>1, <3>3, <3>4, RemoveAtPart
  <2>2. CASE ~\E i \in 1..Len(s) : s[i] = h
    BY <1>1, <2>2 DEF RemoveFirst
  <2>3. QED
    BY <2>1, <2>2
<1> HIDE DEF r
<1>3. /\ k \in Loops /\ k.pipe = l.pipe /\ k.buf = l.buf /\ k.batch = l.batch /\ k.ready = r
      /\ k.added = l.added \ {h}
  BY <1>2 DEF Loops
<1>4. erase(l, h) = k
  BY DEF erase, r
<1>5. QED
  BY <1>2, <1>3, <1>4 DEF Calm, Keeps, Held

LEMMA NewLoopType == NewLoop \in Loops
<1>1. <<>> \in Seq(Handlers) /\ <<>> \in Seq(Conns) /\ [ch \in {"own", "sender"} |-> <<>>] \in [Channels -> Seq(Conns)]
  BY DEF Channels
<1>2. QED
  BY <1>1 DEF NewLoop, Loops

LEMMA FinishedStep ==
  ASSUME NEW l \in Loops, l.batch # <<>>
  PROVE  /\ Finished(l) \in Loops /\ Finished(l).pipe = l.pipe /\ Finished(l).buf = l.buf
         /\ Finished(l).batch = Tail(l.batch) /\ Keeps(l, Finished(l), "none")
<1> DEFINE b == Tail(l.batch)
           k == [l EXCEPT !.batch = b]
<1>1. l.batch \in Seq(Handlers)
  BY DEF Loops
<1>2. b \in Seq(Handlers) /\ \A c : Contains(b, c) => Contains(l.batch, c)
  BY <1>1 DEF Contains
<1> HIDE DEF b
<1>3. /\ k \in Loops /\ k.pipe = l.pipe /\ k.buf = l.buf /\ k.batch = b /\ k.ready = l.ready
      /\ k.added = l.added
  BY <1>2 DEF Loops
<1>4. Finished(l) = k
  BY DEF Finished, b
<1>5. QED
  BY <1>2, <1>3, <1>4 DEF Keeps, Held, b

LEMMA MinOfTwo ==
  ASSUME NEW a \in Nat, NEW b \in Nat
  PROVE  Min({a, b}) \in 0 .. b /\ Min({a, b}) \in {a, b}
<1>1. {a, b} \in SUBSET Nat /\ {a, b} # {}
  OBVIOUS
<1>2. Min({a, b}) \in {a, b} /\ \A y \in {a, b} : Min({a, b}) <= y
  <2>1. \E x \in {a, b} : \A y \in {a, b} : x <= y
    <3>1. CASE a <= b
      BY <3>1
    <3>2. CASE ~(a <= b)
      BY <3>2
    <3>3. QED
      BY <3>1, <3>2
  <2>2. QED
    BY <2>1 DEF Min
<1>3. QED
  BY <1>2

LEMMA WaitStep ==
  ASSUME NEW l \in Loops
  PROVE  /\ epoll_wait(l) \in Loops /\ epoll_wait(l).pipe = l.pipe /\ epoll_wait(l).buf = l.buf
         /\ Keeps(l, epoll_wait(l), "none")
<1> DEFINE s == l.ready
           n == Min({NumberOfEventsPerHandle, Len(s)})
           b == SubSeq(s, 1, n)
           r == SubSeq(s, n + 1, Len(s))
           k == [l EXCEPT !.batch = b, !.ready = r]
<1>1. s \in Seq(Handlers) /\ Len(s) \in Nat
  BY LenProperties DEF Loops
<1>2. n \in 0 .. Len(s)
  BY <1>1, MinOfTwo, LoopAssumption
<1> HIDE DEF n
<1>3. /\ b \in Seq(Handlers) /\ Len(b) = n - 1 + 1 /\ \A i \in 1 .. n - 1 + 1 : b[i] = s[1 + i - 1]
  <2>1. 1 \in Nat \ {0} /\ 1 <= n + 1
    BY <1>1, <1>2
  <2>2. QED
    BY <1>1, <1>2, <2>1, Part
<1>4. /\ r \in Seq(Handlers) /\ Len(r) = Len(s) - (n + 1) + 1
      /\ \A i \in 1 .. Len(s) - (n + 1) + 1 : r[i] = s[(n + 1) + i - 1]
  <2>1. n + 1 \in Nat \ {0} /\ Len(s) \in 0 .. Len(s) /\ n + 1 <= Len(s) + 1
    BY <1>1, <1>2
  <2>2. QED
    BY <1>1, <2>1, Part
<1> HIDE DEF b, r
<1>5. /\ \A i \in 1 .. Len(b) : \E j \in 1 .. Len(s) : b[i] = s[j]
      /\ \A i \in 1 .. Len(r) : \E j \in 1 .. Len(s) : r[i] = s[j]
  <2>1. ASSUME NEW i \in 1 .. Len(b) PROVE b[i] = s[i] /\ i \in 1 .. Len(s)
    BY <1>1, <1>2, <1>3
  <2>2. ASSUME NEW i \in 1 .. Len(r) PROVE r[i] = s[n + i] /\ n + i \in 1 .. Len(s)
    <3>1. i \in 1 .. Len(s) - (n + 1) + 1 /\ (n + 1) + i - 1 = n + i /\ n + i \in 1 .. Len(s)
      BY <1>1, <1>2, <1>4
    <3>2. QED
      BY <1>4, <3>1
  <2>3. QED
    BY <2>1, <2>2
<1>6. /\ k \in Loops /\ k.pipe = l.pipe /\ k.buf = l.buf /\ k.batch = b /\ k.ready = r
      /\ k.added = l.added
  BY <1>3, <1>4 DEF Loops
<1>7. epoll_wait(l) = k
  BY DEF epoll_wait, n, b, r
<1>8. QED
  BY <1>5, <1>6, <1>7 DEF Keeps, Held, Contains

LEMMA NotifyStep ==
  ASSUME NEW l \in Loops, NEW ch \in Channels, NEW e \in Conns
  PROVE  /\ notify(l, ch, e) \in Loops
         /\ notify(l, ch, e).pipe = [l.pipe EXCEPT ![ch] = Append(@, e)]
         /\ notify(l, ch, e).buf = l.buf /\ notify(l, ch, e).batch = l.batch
         /\ Keeps(l, notify(l, ch, e), "none")
<1> DEFINE p == [l.pipe EXCEPT ![ch] = Append(@, e)]
           k == [l EXCEPT !.pipe = p]
<1>1. l.pipe \in [Channels -> Seq(Conns)]
  BY DEF Loops
<1>2. p \in [Channels -> Seq(Conns)]
  <2>1. Append(l.pipe[ch], e) \in Seq(Conns)
    BY <1>1
  <2>2. QED
    BY <1>1, <2>1
<1> HIDE DEF p
<1>3. /\ k \in Loops /\ k.pipe = p /\ k.buf = l.buf /\ k.batch = l.batch /\ k.ready = l.ready
      /\ k.added = l.added
  BY <1>2 DEF Loops
<1>4. notify(l, ch, e) = Edge(k, ch)
  <2>1. [l EXCEPT !.pipe[ch] = Append(@, e)] = k
    BY <1>1 DEF p, Loops
  <2>2. QED
    BY <2>1 DEF notify
<1>5. Calm(k, Edge(k, ch)) /\ Keeps(k, Edge(k, ch), "none")
  BY <1>3, EdgeCalm
<1>6. Keeps(l, k, "none")
  BY <1>3 DEF Keeps, Held
<1>7. QED
  BY <1>3, <1>4, <1>5, <1>6, ConnsAssumption DEF Calm, Keeps, p

LEMMA ReceiveStep ==
  ASSUME NEW l \in Loops, NEW ch \in Channels
  PROVE  /\ Receive(l, ch) \in Loops
         /\ \A d \in Channels : d # ch => Receive(l, ch).pipe[d] = l.pipe[d]
         /\ Receive(l, ch).buf \o Receive(l, ch).pipe[ch] = l.pipe[ch]
         /\ Receive(l, ch).batch = l.batch
         /\ Keeps(l, Receive(l, ch), "none")
<1> DEFINE s == l.pipe[ch]
           n == Min({BufferSize, Len(s)})
           b == SubSeq(s, 1, n)
           r == SubSeq(s, n + 1, Len(s))
           p == [l.pipe EXCEPT ![ch] = r]
           k == [l EXCEPT !.buf = b, !.pipe = p]
<1>1. l.pipe \in [Channels -> Seq(Conns)]
  BY DEF Loops
<1>2. s \in Seq(Conns) /\ Len(s) \in Nat
  BY <1>1, LenProperties
<1>3. n \in 0 .. Len(s)
  BY <1>2, MinOfTwo, LoopAssumption
<1> HIDE DEF n
<1>4. b \in Seq(Conns)
  <2>1. 1 \in Nat \ {0} /\ 1 <= n + 1
    BY <1>2, <1>3
  <2>2. QED
    BY <1>2, <1>3, <2>1, Part
<1>5. r \in Seq(Conns)
  <2>1. n + 1 \in Nat \ {0} /\ Len(s) \in 0 .. Len(s) /\ n + 1 <= Len(s) + 1
    BY <1>2, <1>3
  <2>2. QED
    BY <1>2, <2>1, Part
<1>6. b \o r = s
  BY <1>2, <1>3, CutAndJoin
<1>7. Receive(l, ch) = [l EXCEPT !.buf = b, !.pipe[ch] = r]
  BY DEF Receive, n, s, b, r
<1> HIDE DEF b, r
<1>8. p \in [Channels -> Seq(Conns)] /\ p[ch] = r /\ \A d \in Channels : d # ch => p[d] = l.pipe[d]
  BY <1>1, <1>5
<1>9. Receive(l, ch) = k
  BY <1>1, <1>7 DEF Loops
<1> HIDE DEF p
<1>10. /\ k \in Loops /\ k.pipe = p /\ k.buf = b /\ k.batch = l.batch /\ k.ready = l.ready
       /\ k.added = l.added
  BY <1>4, <1>8 DEF Loops
<1>11. QED
  BY <1>6, <1>8, <1>9, <1>10 DEF Keeps, Held

LEMMA PopBuffer ==
  ASSUME NEW l \in Loops, l.buf # <<>>
  PROVE  /\ [l EXCEPT !.buf = Tail(@)] \in Loops /\ [l EXCEPT !.buf = Tail(@)].pipe = l.pipe
         /\ [l EXCEPT !.buf = Tail(@)].buf = Tail(l.buf)
         /\ [l EXCEPT !.buf = Tail(@)].batch = l.batch
         /\ Keeps(l, [l EXCEPT !.buf = Tail(@)], "none") /\ Head(l.buf) \in Conns
<1> DEFINE b == Tail(l.buf)
           k == [l EXCEPT !.buf = b]
<1>1. l.buf \in Seq(Conns)
  BY DEF Loops
<1>2. b \in Seq(Conns) /\ Head(l.buf) \in Conns
  BY <1>1
<1> HIDE DEF b
<1>3. /\ k \in Loops /\ k.pipe = l.pipe /\ k.buf = b /\ k.batch = l.batch /\ k.ready = l.ready
      /\ k.added = l.added
  BY <1>2 DEF Loops
<1>4. QED
  BY <1>2, <1>3 DEF Keeps, Held, b

(* The repeating timer of EventThread::run. *)
LEMMA StartLoopCalm ==
  ASSUME NEW l \in Loops
  PROVE  Calm(l, StartLoop(l)) /\ Keeps(l, StartLoop(l), "none")
<1>1. CASE conf.timer
  <2> DEFINE k == add(l, "timer", FALSE)
  <2>1. Calm(l, k) /\ Keeps(l, k, "timer")
    BY AddCalm DEF Handlers
  <2>2. Calm(k, startTimer(k, TRUE)) /\ Keeps(k, startTimer(k, TRUE), "none")
    BY <2>1, TimerCalm DEF Calm
  <2>3. StartLoop(l) = startTimer(k, TRUE)
    BY <1>1 DEF StartLoop
  <2> HIDE DEF k
  <2>4. QED
    BY <2>1, <2>2, <2>3, ConnsAssumption DEF Calm, Keeps
<1>2. CASE ~conf.timer
  BY <1>2 DEF StartLoop, Calm, Keeps
<1>3. QED
  BY <1>1, <1>2

-----------------------------------------------------------------------------
(* The state: types, the phases of a thread, and the discipline of a loop. *)

Places == {"unborn", "run", "insert", "synced", "setUp", "await", "connect", "addFirst", "wait",
           "batch", "onTimer", "reconnect", "addAgain", "onNew", "add", "done"}

(* A thread here has no batch in hand. *)
NoBatch == {"unborn", "run", "insert", "synced", "setUp", "await", "connect", "addFirst", "wait"}

(* A thread here has a connection in hand. *)
HasConn == {"onNew", "add", "addFirst", "addAgain"}

(* A client thread is never here, and neither is a server with a pool. *)
Connecting == {"add", "addFirst", "addAgain", "connect", "reconnect", "onTimer"}

Stages == {"idle", "backlog", "accepted", "dropped", "passed", "open", "closed", "lost"}

Connections == [st : Stages, hello : {"ok", "bad", "silent"}, input : Nat, asked : Nat,
                answered : Nat, hup : BOOLEAN, t : Threads]

ThreadTypes ==
  /\ conf \in Configs
  /\ pc \in [Threads -> Places]
  /\ loop \in [Threads -> Loops]
  /\ cur \in [Threads -> Conns \cup {None}]

ConnTypes ==
  /\ conn \in [Conns -> Connections]
  /\ backlog \in Seq(Conns)
  /\ turn \in Nat
  /\ services \in [list : Seq(Conns), at : Nat \ {0}]
  /\ handed \in Seq(Conns)
  /\ opened \in [Threads -> Seq(Conns)]

WorkerTypes ==
  /\ inbox \in Seq(Conns)
  /\ busy \in Conns \cup {None}

OtherTypes ==
  /\ sync \in [count : Nat, waiting : Nat]
  /\ stopping \in [at : Nat, step : {"off", "timer", "flag", "over"}]

TypeOK == ThreadTypes /\ ConnTypes /\ WorkerTypes /\ OtherTypes

(* Which thread can be where. *)
Fits(t, x) ==
  /\ t \notin Clients \cup {0} => x = "unborn"
  /\ t \in Clients => x \notin {"setUp", "await"}
  /\ t = 0 => x # "synced"
  /\ conf.kind = "pool" => x \notin Connecting /\ (t = 0 => x # "insert")

Phases ==
  /\ \A t \in Threads : Fits(t, pc[t])
  /\ main = "new" => \A t \in Threads : pc[t] = "unborn"

(* What is read of a channel is handled before its event is over. *)
Tidy(l) == l.buf # <<>> => l.batch # <<>> /\ Head(l.batch) \in Channels

Discipline ==
  \A t \in Threads :
    /\ Tidy(loop[t])
    /\ pc[t] \in NoBatch => loop[t].batch = <<>>
    /\ pc[t] \in HasConn => cur[t] \in Conns

IInv == TypeOK /\ Phases /\ Discipline

-----------------------------------------------------------------------------
(* Sizes. *)

LEMMA ClientsFacts ==
  ASSUME conf \in Configs
  PROVE  /\ NumThreads(conf) \in Nat /\ NumThreads(conf) <= MaxThreads
         /\ Clients \subseteq Threads /\ 0 \in Threads /\ 0 \notin Clients
         /\ conf.kind # "pool" => Clients = {}
         /\ conf.kind \in {"pool", "single", "connect"} /\ conf.peers \subseteq Conns
<1>1. conf.n \in 0 .. MaxThreads /\ conf.hw \in Nat /\ MaxThreads \in Nat
      /\ conf.kind \in {"pool", "single", "connect"} /\ conf.peers \subseteq Conns
  BY ConfigAssumption, ConnsAssumption
<1>2. NumThreads(conf) \in Nat /\ NumThreads(conf) <= MaxThreads /\ (conf.kind # "pool" => NumThreads(conf) = 0)
  BY <1>1 DEF NumThreads
<1>3. QED
  BY <1>1, <1>2 DEF Clients, Threads

(* A set as a sequence. *)
LEMMA SetToSeqType ==
  ASSUME NEW S \in SUBSET Conns
  PROVE  SetToSeq(S) \in Seq(S) /\ SetToSeq(S) \in Seq(Conns)
<1>1. IsFiniteSet(S)
  BY ConnsAssumption, FS_Subset
<1>2. Cardinality(S) \in Nat /\ ExistsBijection(1 .. Cardinality(S), S)
  BY <1>1, FS_CardinalityType, FS_NatBijection, FS_CountingElements
<1>3. PICK f : f \in Bijection(1 .. Cardinality(S), S)
  BY <1>2 DEF ExistsBijection
<1>4. f \in [1 .. Cardinality(S) -> S] /\ IsInjective(f)
  BY <1>3 DEF Bijection, Injection
<1>5. SetToSeq(S) \in [1 .. Cardinality(S) -> S]
  <2> HIDE DEF IsInjective
  <2>1. QED
    BY <1>4 DEF SetToSeq
<1>6. SetToSeq(S) \in Seq(S)
  BY <1>2, <1>5, SeqDef
<1>7. QED
  BY <1>6, SeqMonotonic

-----------------------------------------------------------------------------
(* The connections handed to a thread that it has not opened yet: what it  *)
(* has read of its own channel, and what the pipe still holds.             *)

OwnBuf(l) == IF l.batch # <<>> /\ Head(l.batch) = "own" THEN l.buf ELSE <<>>
Queued(l) == OwnBuf(l) \o l.pipe["own"]

(* A call that loses and reorders none of them; h may be a new handler. *)
Serves(l, k, h) == k \in Loops /\ Tidy(k) /\ Queued(k) = Queued(l) /\ Keeps(l, k, h)

LEMMA QueuedType ==
  ASSUME NEW l \in Loops
  PROVE  /\ OwnBuf(l) \in Seq(Conns) /\ Queued(l) \in Seq(Conns)
         /\ l.buf = <<>> => OwnBuf(l) = <<>> /\ Queued(l) = l.pipe["own"]
<1>1. l.buf \in Seq(Conns) /\ l.pipe["own"] \in Seq(Conns)
  BY DEF Loops, Channels
<1>2. OwnBuf(l) \in Seq(Conns)
  BY <1>1 DEF OwnBuf
<1>3. Queued(l) \in Seq(Conns)
  BY <1>1, <1>2 DEF Queued
<1>4. l.buf = <<>> => OwnBuf(l) = <<>>
  BY DEF OwnBuf
<1>5. <<>> \o l.pipe["own"] = l.pipe["own"]
  BY <1>1
<1>6. QED
  BY <1>2, <1>3, <1>4, <1>5 DEF Queued

LEMMA CalmServes ==
  ASSUME NEW l \in Loops, NEW k, NEW h, Tidy(l), Calm(l, k), Keeps(l, k, h)
  PROVE  Serves(l, k, h)
  BY DEF Serves, Calm, Tidy, Queued, OwnBuf

(* The handler of an event that left nothing unhandled returns. *)
LEMMA FinishedServes ==
  ASSUME NEW l \in Loops, l.batch # <<>>, l.buf = <<>>
  PROVE  Serves(l, Finished(l), "none")
<1>1. /\ Finished(l) \in Loops /\ Finished(l).pipe = l.pipe /\ Finished(l).buf = <<>>
      /\ Keeps(l, Finished(l), "none")
  BY FinishedStep
<1>2. Queued(Finished(l)) = Queued(l)
  BY <1>1, QueuedType
<1>3. QED
  BY <1>1, <1>2 DEF Serves, Tidy

LEMMA WaitServes ==
  ASSUME NEW l \in Loops, l.buf = <<>>
  PROVE  Serves(l, epoll_wait(l), "none")
<1>1. /\ epoll_wait(l) \in Loops /\ epoll_wait(l).pipe = l.pipe /\ epoll_wait(l).buf = <<>>
      /\ Keeps(l, epoll_wait(l), "none")
  BY WaitStep
<1>2. Queued(epoll_wait(l)) = Queued(l)
  BY <1>1, QueuedType
<1>3. QED
  BY <1>1, <1>2 DEF Serves, Tidy

(* Two calls, one after the other. *)
LEMMA ServesTwice ==
  ASSUME NEW l \in Loops, NEW k, NEW j, NEW h, Serves(l, k, "none"), Serves(k, j, h)
  PROVE  Serves(l, j, h)
  BY ConnsAssumption DEF Serves, Keeps

(* Notifying the own channel queues the connection; the sender's does not. *)
LEMMA NotifyServes ==
  ASSUME NEW l \in Loops, NEW e \in Conns, Tidy(l)
  PROVE  /\ Serves(l, notify(l, "sender", e), "none")
         /\ notify(l, "own", e) \in Loops /\ Tidy(notify(l, "own", e))
         /\ Queued(notify(l, "own", e)) = Append(Queued(l), e)
         /\ Keeps(l, notify(l, "own", e), "none")
         /\ notify(l, "own", e).batch = l.batch /\ notify(l, "sender", e).batch = l.batch
<1>1. l.pipe \in [Channels -> Seq(Conns)] /\ "own" \in Channels /\ "sender" \in Channels
  BY DEF Loops, Channels
<1>2. /\ notify(l, "sender", e) \in Loops
      /\ notify(l, "sender", e).pipe = [l.pipe EXCEPT !["sender"] = Append(@, e)]
      /\ notify(l, "sender", e).buf = l.buf /\ notify(l, "sender", e).batch = l.batch
      /\ Keeps(l, notify(l, "sender", e), "none")
  BY <1>1, NotifyStep
<1>3. /\ notify(l, "own", e) \in Loops
      /\ notify(l, "own", e).pipe = [l.pipe EXCEPT !["own"] = Append(@, e)]
      /\ notify(l, "own", e).buf = l.buf /\ notify(l, "own", e).batch = l.batch
      /\ Keeps(l, notify(l, "own", e), "none")
  BY <1>1, NotifyStep
<1>4. notify(l, "sender", e).pipe["own"] = l.pipe["own"]
  BY <1>1, <1>2
<1>5. notify(l, "own", e).pipe["own"] = Append(l.pipe["own"], e)
  BY <1>1, <1>3
<1>6. Serves(l, notify(l, "sender", e), "none")
  BY <1>2, <1>4 DEF Serves, Tidy, Queued, OwnBuf
<1>7. OwnBuf(notify(l, "own", e)) = OwnBuf(l) /\ OwnBuf(l) \in Seq(Conns) /\ l.pipe["own"] \in Seq(Conns)
  BY <1>1, <1>3, QueuedType DEF OwnBuf
<1>8. OwnBuf(l) \o Append(l.pipe["own"], e) = Append(Queued(l), e)
  BY <1>7, AppendLast DEF Queued
<1>9. QED
  BY <1>2, <1>3, <1>5, <1>6, <1>7, <1>8 DEF Queued, Tidy

(* A read of the channel whose event is handled. *)
LEMMA ReceiveServes ==
  ASSUME NEW l \in Loops, NEW ch \in Channels, l.buf = <<>>, l.batch # <<>>, Head(l.batch) = ch
  PROVE  Serves(l, Receive(l, ch), "none") /\ Receive(l, ch).batch = l.batch
<1> DEFINE k == Receive(l, ch)
<1>1. /\ k \in Loops /\ \A d \in Channels : d # ch => k.pipe[d] = l.pipe[d]
      /\ k.buf \o k.pipe[ch] = l.pipe[ch] /\ k.batch = l.batch /\ Keeps(l, k, "none")
  BY ReceiveStep
<1> HIDE DEF k
<1>2. Queued(l) = l.pipe["own"] /\ k.pipe["own"] \in Seq(Conns)
  BY <1>1, QueuedType DEF Loops, Channels
<1>3. CASE ch = "own"
  <2>1. OwnBuf(k) = k.buf
    BY <1>1, <1>3 DEF OwnBuf
  <2>2. Queued(k) = Queued(l)
    BY <1>1, <1>2, <1>3, <2>1 DEF Queued
  <2>3. QED
    BY <1>1, <2>2 DEF Serves, Tidy, k
<1>4. CASE ch # "own"
  <2>1. OwnBuf(k) = <<>> /\ k.pipe["own"] = l.pipe["own"]
    BY <1>1, <1>4 DEF OwnBuf, Channels
  <2>2. Queued(k) = Queued(l)
    BY <1>2, <2>1 DEF Queued
  <2>3. QED
    BY <1>1, <2>2 DEF Serves, Tidy, k
<1>5. QED
  BY <1>3, <1>4

(* What was read is handled: of the own channel, the first connection that waits. *)
LEMMA PopServes ==
  ASSUME NEW l \in Loops, NEW ch \in Channels, l.buf # <<>>, l.batch # <<>>, Head(l.batch) = ch
  PROVE  /\ [l EXCEPT !.buf = Tail(@)] \in Loops /\ Tidy([l EXCEPT !.buf = Tail(@)])
         /\ Keeps(l, [l EXCEPT !.buf = Tail(@)], "none") /\ Head(l.buf) \in Conns
         /\ [l EXCEPT !.buf = Tail(@)].batch = l.batch
         /\ ch = "own" => /\ Queued(l) # <<>> /\ Head(Queued(l)) = Head(l.buf)
                          /\ Queued([l EXCEPT !.buf = Tail(@)]) = Tail(Queued(l))
         /\ ch # "own" => Queued([l EXCEPT !.buf = Tail(@)]) = Queued(l)
<1> DEFINE k == [l EXCEPT !.buf = Tail(@)]
<1>1. /\ k \in Loops /\ k.pipe = l.pipe /\ k.buf = Tail(l.buf) /\ k.batch = l.batch
      /\ Keeps(l, k, "none") /\ Head(l.buf) \in Conns
  BY PopBuffer
<1>2. l.buf \in Seq(Conns) /\ l.pipe["own"] \in Seq(Conns)
  BY DEF Loops, Channels
<1> HIDE DEF k
<1>3. CASE ch = "own"
  <2>1. OwnBuf(l) = l.buf /\ OwnBuf(k) = Tail(l.buf)
    BY <1>1, <1>3 DEF OwnBuf
  <2>2. /\ l.buf \o l.pipe["own"] # <<>> /\ Head(l.buf \o l.pipe["own"]) = Head(l.buf)
        /\ Tail(l.buf) \o l.pipe["own"] = Tail(l.buf \o l.pipe["own"])
    BY <1>2, HeadOfJoin
  <2>3. QED
    BY <1>1, <1>3, <2>1, <2>2 DEF Queued, Tidy, k
<1>4. CASE ch # "own"
  <2>1. OwnBuf(l) = <<>> /\ OwnBuf(k) = <<>>
    BY <1>1, <1>4 DEF OwnBuf
  <2>2. QED
    BY <1>1, <1>4, <2>1 DEF Queued, Tidy, k
<1>5. QED
  BY <1>3, <1>4

-----------------------------------------------------------------------------
(* A step of a thread: the parts of the invariant it must restore.         *)

(* No thread's loop loses, reorders or gains a connection to open. *)
Quiet == loop' \in [Threads -> Loops] /\ \A u \in Threads : Serves(loop[u], loop'[u], "none")

LEMMA Moved ==
  ASSUME IInv, conf' = conf, main' # "new",
         NEW t \in Threads, NEW x \in Places, NEW c \in Conns \cup {None},
         pc' = [pc EXCEPT ![t] = x], cur' = [cur EXCEPT ![t] = c],
         Fits(t, x), x \in HasConn => c \in Conns,
         loop' \in [Threads -> Loops], \A u \in Threads : Tidy(loop'[u]),
         \A u \in Threads \ {t} : loop[u].batch = <<>> => loop'[u].batch = <<>>,
         x \in NoBatch => loop'[t].batch = <<>>
  PROVE  ThreadTypes' /\ Phases' /\ Discipline'
<1>1. ThreadTypes'
  BY DEF IInv, TypeOK, ThreadTypes
<1>2. ASSUME NEW u \in Threads PROVE Fits(u, pc'[u])
  BY DEF IInv, TypeOK, ThreadTypes, Phases
<1>3. Phases'
  BY <1>2 DEF Phases, Fits, Clients
<1>4. ASSUME NEW u \in Threads
      PROVE  /\ pc'[u] \in NoBatch => loop'[u].batch = <<>>
             /\ pc'[u] \in HasConn => cur'[u] \in Conns
  BY DEF IInv, TypeOK, ThreadTypes, Discipline
<1>5. QED
  BY <1>1, <1>3, <1>4 DEF Discipline

LEMMA Unmoved ==
  ASSUME IInv, conf' = conf, main' = "new" => main = "new", pc' = pc, cur' = cur,
         loop' \in [Threads -> Loops], \A u \in Threads : Tidy(loop'[u]),
         \A u \in Threads : loop[u].batch = <<>> => loop'[u].batch = <<>>
  PROVE  ThreadTypes' /\ Phases' /\ Discipline'
<1>1. ThreadTypes' /\ Phases'
  BY DEF IInv, TypeOK, ThreadTypes, Phases, Fits, Clients
<1>2. QED
  BY <1>1 DEF IInv, Discipline

LEMMA OneLoop ==
  ASSUME IInv, NEW t \in Threads, NEW k \in Loops, loop' = [loop EXCEPT ![t] = k], Tidy(k)
  PROVE  /\ loop' \in [Threads -> Loops] /\ \A u \in Threads : Tidy(loop'[u])
         /\ loop'[t] = k /\ \A u \in Threads \ {t} : loop'[u] = loop[u]
         /\ Serves(loop[t], k, "none") => Quiet
<1>1. /\ loop' \in [Threads -> Loops] /\ loop'[t] = k
      /\ \A u \in Threads \ {t} : loop'[u] = loop[u] /\ loop[u] \in Loops
  BY DEF IInv, TypeOK, ThreadTypes
<1>2. \A u \in Threads : Tidy(loop'[u])
  BY <1>1 DEF IInv, Discipline
<1>3. \A u \in Threads \ {t} : Serves(loop[u], loop'[u], "none")
  BY <1>1, <1>2 DEF Serves, Keeps
<1>4. QED
  BY <1>1, <1>2, <1>3 DEF Quiet

LEMMA SameLoops ==
  ASSUME IInv, loop' = loop
  PROVE  /\ loop' \in [Threads -> Loops] /\ Quiet
         /\ \A u \in Threads : Tidy(loop'[u]) /\ (loop[u].batch = <<>> => loop'[u].batch = <<>>)
<1>1. loop' \in [Threads -> Loops] /\ \A u \in Threads : Tidy(loop'[u])
  BY DEF IInv, TypeOK, ThreadTypes, Discipline
<1>2. QED
  BY <1>1 DEF Quiet, Serves, Keeps

LEMMA SameTypes ==
  ASSUME IInv
  PROVE  /\ UNCHANGED connVars => ConnTypes'
         /\ UNCHANGED workerVars => WorkerTypes'
         /\ UNCHANGED <<sync, stopping>> => OtherTypes'
  BY DEF IInv, TypeOK, ConnTypes, WorkerTypes, OtherTypes, connVars, workerVars

LEMMA SameThread ==
  ASSUME IInv, NEW t \in Threads
  PROVE  /\ pc[t] \in Places /\ loop[t] \in Loops /\ cur[t] \in Conns \cup {None}
         /\ Tidy(loop[t]) /\ Fits(t, pc[t])
         /\ cur = [cur EXCEPT ![t] = cur[t]] /\ pc = [pc EXCEPT ![t] = pc[t]]
         /\ pc[t] # "unborn" => main # "new" /\ t \in Clients \cup {0}
  BY DEF IInv, TypeOK, ThreadTypes, Discipline, Phases, Fits

LEMMA ThreadsKind ==
  ASSUME IInv
  PROVE  /\ NumThreads(conf) \in Nat /\ NumThreads(conf) <= MaxThreads
         /\ Clients \subseteq Threads /\ 0 \in Threads /\ 0 \notin Clients
         /\ conf.kind # "pool" => Clients = {}
         /\ conf.kind \in {"pool", "single", "connect"} /\ conf.peers \subseteq Conns
  BY ClientsFacts DEF IInv, TypeOK, ThreadTypes

-----------------------------------------------------------------------------
(* Starting. *)

LEMMA StartStep ==
  ASSUME IInv, start
  PROVE  IInv' /\ Quiet
<1>1. /\ conf' = conf /\ loop' = loop /\ cur' = cur /\ main' # "new"
      /\ pc' = [t \in Threads |-> IF t \in Clients \cup {0} THEN "run" ELSE "unborn"]
  BY DEF start
<1>2. ConnTypes' /\ WorkerTypes' /\ OtherTypes'
  BY SameTypes DEF start
<1>3. ThreadTypes'
  BY <1>1 DEF IInv, TypeOK, ThreadTypes, Places
<1>4. Phases'
  BY <1>1, ThreadsKind DEF Phases, Fits, Clients, Connecting
<1>5. Discipline'
  <2>1. \A t \in Threads : pc[t] = "unborn" /\ loop[t].batch = <<>> /\ Tidy(loop[t])
    BY DEF IInv, Phases, Discipline, start, NoBatch
  <2>2. QED
    BY <1>1, <2>1 DEF Discipline, HasConn
<1>6. QED
  BY <1>1, <1>2, <1>3, <1>4, <1>5, SameLoops DEF IInv, TypeOK

(* A step of the main thread or of the worker that leaves the threads alone. *)
LEMMA AsideStep ==
  ASSUME IInv, startReturns \/ join \/ transferMsgToIOThread \/ stopCalled
  PROVE  IInv' /\ Quiet
<1>1. conf' = conf /\ loop' = loop /\ cur' = cur /\ pc' = pc /\ (main' = "new" => main = "new")
  BY DEF startReturns, join, transferMsgToIOThread, stopCalled, loopVars, mainVars
<1>2. ThreadTypes' /\ Phases' /\ Discipline'
  BY <1>1, SameLoops, Unmoved
<1>3. ConnTypes'
  BY SameTypes DEF startReturns, join, transferMsgToIOThread, stopCalled
<1>4. WorkerTypes'
  <2>1. CASE transferMsgToIOThread
    BY <2>1 DEF transferMsgToIOThread, IInv, TypeOK, WorkerTypes
  <2>2. QED
    BY <2>1, SameTypes DEF startReturns, join, stopCalled
<1>5. OtherTypes'
  <2>1. CASE stopCalled
    BY <2>1 DEF stopCalled, IInv, TypeOK, OtherTypes
  <2>2. QED
    BY <2>1, SameTypes DEF startReturns, join, transferMsgToIOThread, mainVars
<1>6. QED
  BY <1>1, <1>2, <1>3, <1>4, <1>5, SameLoops DEF IInv, TypeOK

LEMMA ConnectToBeginsStep ==
  ASSUME IInv, NEW t \in Threads, connectToBegins(t)
  PROVE  IInv' /\ Quiet
<1> DEFINE x == IF t = 0 /\ conf.kind = "pool" THEN "setUp" ELSE "insert"
<1>1. /\ conf' = conf /\ loop' = loop /\ cur' = cur /\ main' = main /\ pc[t] = "run"
      /\ pc' = [pc EXCEPT ![t] = x]
  BY DEF connectToBegins, Go, mainVars
<1>2. main # "new" /\ t \in Clients \cup {0} /\ loop[t].batch = <<>>
  BY <1>1, SameThread DEF IInv, Discipline, NoBatch
<1>3. x \in Places /\ Fits(t, x) /\ x \notin HasConn
  BY <1>2, ThreadsKind DEF Fits, Places, HasConn, Connecting
<1> HIDE DEF x
<1>4. ThreadTypes' /\ Phases' /\ Discipline'
  BY <1>1, <1>2, <1>3, SameLoops, SameThread, Moved
<1>5. ConnTypes' /\ WorkerTypes' /\ OtherTypes'
  BY SameTypes DEF connectToBegins, IInv, TypeOK, WorkerTypes, mainVars
<1>6. QED
  BY <1>1, <1>4, <1>5, SameLoops DEF IInv, TypeOK

(* A thread moves on with a loop that a call has changed. *)
LEMMA ThreadMove ==
  ASSUME IInv, NEW t \in Threads, NEW x \in Places, NEW k \in Loops,
         conf' = conf, main' = main, cur' = cur, pc[t] # "unborn",
         pc' = [pc EXCEPT ![t] = x], loop' = [loop EXCEPT ![t] = k],
         Tidy(k), Fits(t, x), x \notin HasConn, x \in NoBatch => k.batch = <<>>
  PROVE  ThreadTypes' /\ Phases' /\ Discipline'
<1>1. main' # "new" /\ cur[t] \in Conns \cup {None} /\ cur' = [cur EXCEPT ![t] = cur[t]]
  BY SameThread
<1>2. /\ loop' \in [Threads -> Loops] /\ \A u \in Threads : Tidy(loop'[u])
      /\ loop'[t] = k /\ \A u \in Threads \ {t} : loop'[u] = loop[u]
  BY OneLoop
<1>3. QED
  BY <1>1, <1>2, Moved

LEMMA ConnectToEndsStep ==
  ASSUME IInv, NEW t \in Threads, connectToEnds(t)
  PROVE  IInv' /\ Quiet
<1> DEFINE l == add(loop[t], "sender", FALSE)
           p == loop[t].pipe["own"] /= <<>>
           k == IF t \in Clients THEN add(l, "own", p) ELSE l
           x == CASE t \in Clients -> "synced"
                  [] conf.kind = "single" -> "setUp"
                  [] OTHER -> "connect"
<1>1. /\ conf' = conf /\ cur' = cur /\ main' = main /\ pc[t] = "insert"
      /\ pc' = [pc EXCEPT ![t] = x] /\ loop' = [loop EXCEPT ![t] = k]
  BY DEF connectToEnds, Go, SetLoop, mainVars
<1>2. t \in Clients \cup {0} /\ (conf.kind = "pool" => t \in Clients) /\ loop[t].batch = <<>>
  BY <1>1, SameThread DEF IInv, Discipline, NoBatch, Fits
<1>3. x \in Places /\ Fits(t, x) /\ x \notin HasConn
  BY <1>2, ThreadsKind DEF Fits, Places, HasConn, Connecting
<1>4. Calm(loop[t], k) /\ Keeps(loop[t], k, "none")
  <2>1. Calm(loop[t], l) /\ Keeps(loop[t], l, "sender")
    BY SameThread, AddCalm DEF Handlers
  <2> HIDE DEF l, p
  <2>2. Calm(l, add(l, "own", p)) /\ Keeps(l, add(l, "own", p), "own")
    BY <2>1, AddCalm DEF Handlers, Calm
  <2>3. QED
    BY <2>1, <2>2, ConnsAssumption DEF Calm, Keeps
<1> HIDE DEF x, k
<1>5. Serves(loop[t], k, "none") /\ k.batch = <<>>
  BY <1>2, <1>4, CalmServes, SameThread DEF Calm
<1>6. k \in Loops /\ Tidy(k)
  BY <1>5 DEF Serves
<1>7. ThreadTypes' /\ Phases' /\ Discipline'
  BY <1>1, <1>3, <1>5, <1>6, ThreadMove
<1>8. ConnTypes' /\ WorkerTypes' /\ OtherTypes'
  BY SameTypes DEF connectToEnds, IInv, TypeOK, WorkerTypes, mainVars
<1>9. Quiet
  BY <1>1, <1>5, <1>6, OneLoop
<1>10. QED
  BY <1>7, <1>8, <1>9 DEF IInv, TypeOK

LEMMA ClientSyncedStep ==
  ASSUME IInv, NEW t \in Threads, clientSynced(t)
  PROVE  IInv' /\ Quiet
<1> DEFINE k == StartLoop(loop[t])
<1>1. /\ conf' = conf /\ cur' = cur /\ main' = main /\ pc[t] = "synced"
      /\ pc' = [pc EXCEPT ![t] = "wait"] /\ loop' = [loop EXCEPT ![t] = k]
  BY DEF clientSynced, Go, SetLoop
<1>2. loop[t].batch = <<>>
  BY <1>1 DEF IInv, Discipline, NoBatch
<1>3. "wait" \in Places /\ Fits(t, "wait") /\ "wait" \notin HasConn
  BY <1>1, SameThread DEF Fits, Places, HasConn, Connecting
<1>4. Serves(loop[t], k, "none") /\ k.batch = <<>>
  BY <1>2, StartLoopCalm, CalmServes, SameThread DEF Calm
<1> HIDE DEF k
<1>5. k \in Loops /\ Tidy(k)
  BY <1>4 DEF Serves
<1>6. ThreadTypes' /\ Phases' /\ Discipline'
  BY <1>1, <1>3, <1>4, <1>5, ThreadMove
<1>7. ConnTypes' /\ WorkerTypes'
  BY SameTypes DEF clientSynced
<1>8. OtherTypes'
  BY DEF clientSynced, increment, IInv, TypeOK, OtherTypes
<1>9. Quiet
  BY <1>1, <1>4, <1>5, OneLoop
<1>10. QED
  BY <1>6, <1>7, <1>8, <1>9 DEF IInv, TypeOK

LEMMA SetUpStep ==
  ASSUME IInv, NEW t \in Threads, setUpTCP(t)
  PROVE  IInv' /\ Quiet
<1> DEFINE l == add(loop[t], "listen", FALSE)
<1>1. conf' = conf /\ cur' = cur /\ main' = main /\ pc[t] = "setUp" /\ stopping' = stopping
  BY DEF setUpTCP
<1>2. loop[t].batch = <<>> /\ t = 0
  BY <1>1, SameThread, ThreadsKind DEF IInv, Discipline, NoBatch, Fits
<1>3. \A x \in {"wait", "await", "done"} : x \in Places /\ Fits(t, x) /\ x \notin HasConn
  BY <1>2, ThreadsKind DEF Fits, Places, HasConn, Connecting
<1>4. Calm(loop[t], l) /\ Keeps(loop[t], l, "none") /\ l \in Loops
  <2>1. Calm(loop[t], l) /\ Keeps(loop[t], l, "listen")
    BY SameThread, AddCalm DEF Handlers
  <2> HIDE DEF l
  <2>2. QED
    BY <2>1, ConnsAssumption DEF Calm, Keeps
<1>5. /\ Serves(loop[t], l, "none") /\ l.batch = <<>>
      /\ Serves(loop[t], StartLoop(l), "none") /\ StartLoop(l).batch = <<>>
  <2> HIDE DEF l
  <2>1. Calm(l, StartLoop(l)) /\ Keeps(l, StartLoop(l), "none")
    BY <1>4, StartLoopCalm
  <2>2. Serves(loop[t], l, "none") /\ l.batch = <<>>
    BY <1>2, <1>4, CalmServes, SameThread DEF Calm
  <2>3. Serves(l, StartLoop(l), "none") /\ StartLoop(l).batch = <<>>
    BY <1>4, <2>1, <2>2, CalmServes DEF Calm, Serves
  <2>4. QED
    BY <1>4, <2>2, <2>3, ServesTwice, SameThread
<1>6. PICK x \in {"wait", "await", "done"}, k \in {loop[t], l, StartLoop(l)} :
        pc' = [pc EXCEPT ![t] = x] /\ loop' = [loop EXCEPT ![t] = k]
  <2>1. loop = [loop EXCEPT ![t] = loop[t]]
    BY DEF IInv, TypeOK, ThreadTypes
  <2> HIDE DEF l
  <2>2. CASE Go(t, "done") /\ UNCHANGED <<loop, sync>>
    BY <2>1, <2>2 DEF Go
  <2>3. CASE ServerThreadRun(t, l)
    BY <2>3 DEF ServerThreadRun, Go, SetLoop
  <2>4. CASE ServerSingleThreadRun(t, l)
    BY <2>4 DEF ServerSingleThreadRun, Go, SetLoop
  <2>5. QED
    BY <2>2, <2>3, <2>4 DEF setUpTCP, l
<1> HIDE DEF l
<1>7. Serves(loop[t], k, "none") /\ k.batch = <<>>
  BY <1>2, <1>5, SameThread DEF Serves, Keeps
<1>8. k \in Loops /\ Tidy(k)
  BY <1>7 DEF Serves
<1>9. ThreadTypes' /\ Phases' /\ Discipline'
  BY <1>1, <1>3, <1>6, <1>7, <1>8, ThreadMove
<1>10. ConnTypes' /\ WorkerTypes'
  BY SameTypes DEF setUpTCP
<1>11. OtherTypes'
  <2>1. sync' \in {sync, increment(sync)}
    BY DEF setUpTCP, ServerThreadRun, ServerSingleThreadRun
  <2>2. sync \in [count : Nat, waiting : Nat]
    BY DEF IInv, TypeOK, OtherTypes
  <2>3. increment(sync) \in [count : Nat, waiting : Nat]
    BY <2>2 DEF increment
  <2>4. QED
    BY <1>1, <2>1, <2>2, <2>3 DEF IInv, TypeOK, OtherTypes
<1>12. Quiet
  BY <1>6, <1>7, <1>8, OneLoop
<1>13. QED
  BY <1>9, <1>10, <1>11, <1>12 DEF IInv, TypeOK

LEMMA ServerAwaitsStep ==
  ASSUME IInv, NEW t \in Threads, serverAwaits(t)
  PROVE  IInv' /\ Quiet
<1> DEFINE k == StartLoop(loop[t])
<1>1. /\ conf' = conf /\ cur' = cur /\ main' = main /\ pc[t] = "await"
      /\ pc' = [pc EXCEPT ![t] = "wait"] /\ loop' = [loop EXCEPT ![t] = k]
  BY DEF serverAwaits, Go, SetLoop, mainVars
<1>2. loop[t].batch = <<>>
  BY <1>1 DEF IInv, Discipline, NoBatch
<1>3. "wait" \in Places /\ Fits(t, "wait") /\ "wait" \notin HasConn
  BY <1>1, SameThread DEF Fits, Places, HasConn, Connecting
<1>4. Serves(loop[t], k, "none") /\ k.batch = <<>>
  BY <1>2, StartLoopCalm, CalmServes, SameThread DEF Calm
<1> HIDE DEF k
<1>5. k \in Loops /\ Tidy(k)
  BY <1>4 DEF Serves
<1>6. ThreadTypes' /\ Phases' /\ Discipline'
  BY <1>1, <1>3, <1>4, <1>5, ThreadMove
<1>7. ConnTypes' /\ WorkerTypes' /\ OtherTypes'
  BY SameTypes DEF serverAwaits, mainVars
<1>8. Quiet
  BY <1>1, <1>4, <1>5, OneLoop
<1>9. QED
  BY <1>6, <1>7, <1>8 DEF IInv, TypeOK

-----------------------------------------------------------------------------
(* The event loop. *)

LEMMA DiesStep ==
  ASSUME IInv, NEW w, Dies(w)
  PROVE  IInv' /\ Quiet
<1>1. /\ conf' = conf /\ pc' = pc /\ loop' = loop /\ cur' = cur /\ main' = main
      /\ UNCHANGED connVars /\ UNCHANGED workerVars /\ UNCHANGED <<sync, stopping>>
  BY DEF Dies, loopVars, mainVars
<1>2. ThreadTypes' /\ Phases' /\ Discipline'
  BY <1>1, SameLoops, Unmoved
<1>3. QED
  BY <1>1, <1>2, SameTypes, SameLoops DEF IInv, TypeOK

(* The handler of an event leaves nothing of a channel unread. *)
LEMMA EventFacts ==
  ASSUME IInv, NEW t \in Threads, NEW h, Event(t, h)
  PROVE  /\ pc[t] = "batch" /\ loop[t].batch # <<>> /\ Head(loop[t].batch) = h
         /\ h \notin Channels => loop[t].buf = <<>>
         /\ pc = [pc EXCEPT ![t] = "batch"] /\ "batch" \in Places \ (HasConn \cup NoBatch)
         /\ Fits(t, "batch")
  BY SameThread DEF Event, Tidy, Places, HasConn, NoBatch

LEMMA LoopStartStep ==
  ASSUME IInv, NEW t \in Threads, FDEventLoopStart(t)
  PROVE  IInv' /\ Quiet
<1>1. /\ conf' = conf /\ cur' = cur /\ main' = main /\ pc[t] \in {"wait", "batch"}
      /\ UNCHANGED connVars /\ UNCHANGED workerVars /\ UNCHANGED <<sync, stopping>>
  BY DEF FDEventLoopStart, mainVars
<1>2. \A x \in {"wait", "batch", "done"} : x \in Places /\ Fits(t, x) /\ x \notin HasConn
  BY <1>1, SameThread DEF Fits, Places, HasConn, Connecting
<1>3. PICK x \in {"wait", "batch", "done"}, k \in {loop[t], epoll_wait(loop[t]), close(loop[t])} :
        /\ pc' = [pc EXCEPT ![t] = x] /\ loop' = [loop EXCEPT ![t] = k]
        /\ Serves(loop[t], k, "none") /\ (x = "wait" => k.batch = <<>>)
  <2>1. CASE pc[t] = "wait" /\ SetLoop(t, epoll_wait(loop[t])) /\ Go(t, "batch")
    <3>1. loop[t].batch = <<>> /\ loop[t].buf = <<>>
      BY <2>1, SameThread DEF IInv, Discipline, NoBatch, Tidy
    <3>2. QED
      BY <2>1, <3>1, SameThread, WaitServes DEF Go, SetLoop
  <2>2. CASE loop[t].batch = <<>> /\ SetLoop(t, close(loop[t])) /\ Go(t, "done")
    BY <2>2, SameThread, TimerCalm, CalmServes DEF Go, SetLoop
  <2>3. CASE loop[t].batch = <<>> /\ Go(t, "wait") /\ UNCHANGED loop
    <3>1. loop = [loop EXCEPT ![t] = loop[t]] /\ Serves(loop[t], loop[t], "none")
      BY SameThread DEF IInv, TypeOK, ThreadTypes, Serves, Keeps
    <3>2. QED
      BY <2>3, <3>1 DEF Go
  <2>4. QED
    BY <2>1, <2>2, <2>3 DEF FDEventLoopStart
<1>4. k \in Loops /\ Tidy(k) /\ (x \in NoBatch => k.batch = <<>>)
  BY <1>3 DEF Serves, NoBatch
<1>5. ThreadTypes' /\ Phases' /\ Discipline'
  BY <1>1, <1>2, <1>3, <1>4, ThreadMove
<1>6. Quiet
  BY <1>3, <1>4, OneLoop
<1>7. QED
  BY <1>1, <1>5, <1>6, SameTypes DEF IInv, TypeOK

LEMMA TimerEventStep ==
  ASSUME IInv, NEW t \in Threads, timerEvent(t)
  PROVE  IInv' /\ Quiet
<1> DEFINE k == Finished(loop[t])
           x == IF conf.kind = "connect" THEN "onTimer" ELSE "batch"
<1>1. /\ conf' = conf /\ cur' = cur /\ main' = main /\ Event(t, "timer")
      /\ pc' = [pc EXCEPT ![t] = x] /\ loop' = [loop EXCEPT ![t] = k]
      /\ UNCHANGED connVars /\ UNCHANGED workerVars /\ UNCHANGED <<sync, stopping>>
  BY DEF timerEvent, Go, SetLoop, mainVars
<1>2. pc[t] = "batch" /\ loop[t].batch # <<>> /\ loop[t].buf = <<>>
  BY <1>1, EventFacts DEF Channels
<1>3. x \in Places /\ Fits(t, x) /\ x \notin HasConn /\ x \notin NoBatch
  BY <1>2, SameThread, ThreadsKind DEF Fits, Places, HasConn, NoBatch, Connecting
<1>4. Serves(loop[t], k, "none")
  BY <1>2, FinishedServes, SameThread
<1> HIDE DEF k, x
<1>5. k \in Loops /\ Tidy(k)
  BY <1>4 DEF Serves
<1>6. ThreadTypes' /\ Phases' /\ Discipline'
  BY <1>1, <1>2, <1>3, <1>5, ThreadMove
<1>7. Quiet
  BY <1>1, <1>4, <1>5, OneLoop
<1>8. QED
  BY <1>1, <1>6, <1>7, SameTypes DEF IInv, TypeOK

(* A data socket joins the loop. *)
LEMMA OpenedCalm ==
  ASSUME NEW l \in Loops, NEW c \in Conns
  PROVE  Calm(l, Opened(l, c)) /\ Keeps(l, Opened(l, c), c)
  BY AddCalm DEF Opened, Handlers

(* What the steps do to a connection keeps it one. *)
LEMMA ConnEdits ==
  ASSUME NEW f \in [Conns -> Connections], NEW c \in Conns
  PROVE  /\ \A x \in Stages : [f EXCEPT ![c].st = x] \in [Conns -> Connections]
         /\ \A t \in Threads : [f EXCEPT ![c].st = "open", ![c].t = t] \in [Conns -> Connections]
         /\ [f EXCEPT ![c].answered = @ + 1] \in [Conns -> Connections]
         /\ f[c].input > 0 => [f EXCEPT ![c].input = @ - 1] \in [Conns -> Connections]
         /\ [f EXCEPT ![c].asked = @ + 1, ![c].input = @ + 1] \in [Conns -> Connections]
         /\ [f EXCEPT ![c].hup = TRUE] \in [Conns -> Connections]
         /\ \A x \in {"ok", "bad", "silent"} :
              [f EXCEPT ![c].st = "backlog", ![c].hello = x] \in [Conns -> Connections]
<1>1. f[c] \in Connections
  OBVIOUS
<1>2. ASSUME NEW k \in Connections PROVE [f EXCEPT ![c] = k] \in [Conns -> Connections]
  OBVIOUS
<1>3. \A x \in Stages : [f[c] EXCEPT !.st = x] \in Connections
  BY <1>1 DEF Connections
<1>4. \A t \in Threads : [f[c] EXCEPT !.st = "open", !.t = t] \in Connections
  BY <1>1 DEF Connections, Stages
<1>5. [f[c] EXCEPT !.answered = @ + 1] \in Connections
  BY <1>1 DEF Connections
<1>6. f[c].input > 0 => [f[c] EXCEPT !.input = @ - 1] \in Connections
  BY <1>1 DEF Connections
<1>7. [f[c] EXCEPT !.asked = @ + 1, !.input = @ + 1] \in Connections
  <2>1. ASSUME NEW a \in Nat, NEW b \in Nat PROVE [f[c] EXCEPT !.asked = a, !.input = b] \in Connections
    BY <1>1 DEF Connections
  <2>2. f[c].asked + 1 \in Nat /\ f[c].input + 1 \in Nat
    BY <1>1 DEF Connections
  <2>3. QED
    BY <2>1, <2>2
<1>8. [f[c] EXCEPT !.hup = TRUE] \in Connections
  BY <1>1 DEF Connections
<1>9. \A x \in {"ok", "bad", "silent"} : [f[c] EXCEPT !.st = "backlog", !.hello = x] \in Connections
  BY <1>1 DEF Connections, Stages
<1>10. /\ \A x : [f EXCEPT ![c].st = x] = [f EXCEPT ![c] = [f[c] EXCEPT !.st = x]]
       /\ [f EXCEPT ![c].answered = @ + 1] = [f EXCEPT ![c] = [f[c] EXCEPT !.answered = @ + 1]]
       /\ [f EXCEPT ![c].input = @ - 1] = [f EXCEPT ![c] = [f[c] EXCEPT !.input = @ - 1]]
       /\ [f EXCEPT ![c].hup = TRUE] = [f EXCEPT ![c] = [f[c] EXCEPT !.hup = TRUE]]
  BY Zenon
<1>11. /\ \A t : [f EXCEPT ![c].st = "open", ![c].t = t]
                  = [f EXCEPT ![c] = [f[c] EXCEPT !.st = "open", !.t = t]]
       /\ [f EXCEPT ![c].asked = @ + 1, ![c].input = @ + 1]
            = [f EXCEPT ![c] = [f[c] EXCEPT !.asked = @ + 1, !.input = @ + 1]]
       /\ \A x : [f EXCEPT ![c].st = "backlog", ![c].hello = x]
                  = [f EXCEPT ![c] = [f[c] EXCEPT !.st = "backlog", !.hello = x]]
  BY <1>1 DEF Connections
<1>12. QED
  BY <1>2, <1>3, <1>4, <1>5, <1>6, <1>7, <1>8, <1>9, <1>10, <1>11

LEMMA OpenedType ==
  ASSUME NEW f \in [Threads -> Seq(Conns)], NEW t \in Threads, NEW c \in Conns
  PROVE  /\ [f EXCEPT ![t] = Append(@, c)] \in [Threads -> Seq(Conns)]
         /\ [f EXCEPT ![t] = Append(@, c)][t] = Append(f[t], c)
         /\ \A u \in Threads \ {t} : [f EXCEPT ![t] = Append(@, c)][u] = f[u]
<1>1. Append(f[t], c) \in Seq(Conns)
  OBVIOUS
<1>2. QED
  BY <1>1

(* Thread t opens the first of the connections that wait for it. *)
OpensNext(t, c) ==
  /\ loop' \in [Threads -> Loops]
  /\ Queued(loop[t]) # <<>> /\ c = Head(Queued(loop[t])) /\ Queued(loop'[t]) = Tail(Queued(loop[t]))
  /\ Keeps(loop[t], loop'[t], c)
  /\ \A u \in Threads \ {t} : Serves(loop[u], loop'[u], "none")
  /\ conn' = [conn EXCEPT ![c].st = "open", ![c].t = t]
  /\ opened' = [opened EXCEPT ![t] = Append(@, c)]

LEMMA ChannelStep ==
  ASSUME IInv, NEW t \in Threads, NEW ch \in Channels, channelEvent(t, ch)
  PROVE  /\ IInv'
         /\ \/ \E c \in Conns : OpensNext(t, c)
            \/ /\ Quiet /\ opened' = opened
               /\ \/ conn' = conn
                  \/ \E c \in Conns : conn' = [conn EXCEPT ![c].answered = @ + 1]
<1> DEFINE l == IF loop[t].buf = <<>> THEN Receive(loop[t], ch) ELSE loop[t]
           rest == [l EXCEPT !.buf = Tail(@)]
           c == Head(l.buf)
<1>1. /\ conf' = conf /\ cur' = cur /\ main' = main /\ pc' = pc /\ Event(t, ch)
      /\ UNCHANGED workerVars /\ UNCHANGED <<sync, stopping>>
      /\ UNCHANGED <<backlog, turn, services, handed>>
  BY DEF channelEvent, mainVars
<1>2. /\ pc[t] = "batch" /\ loop[t].batch # <<>> /\ Head(loop[t].batch) = ch
      /\ pc = [pc EXCEPT ![t] = "batch"] /\ "batch" \in Places \ (HasConn \cup NoBatch)
      /\ Fits(t, "batch") /\ loop[t] \in Loops /\ Tidy(loop[t])
  BY <1>1, EventFacts, SameThread
<1>3. Serves(loop[t], l, "none") /\ l.batch = loop[t].batch
  <2>1. Serves(loop[t], loop[t], "none")
    BY <1>2 DEF Serves, Keeps
  <2>2. QED
    BY <1>2, <2>1, ReceiveServes
<1>4. l \in Loops /\ l.batch # <<>> /\ Head(l.batch) = ch
  BY <1>2, <1>3 DEF Serves
<1>5. \/ l.buf = <<>> /\ SetLoop(t, Finished(l)) /\ UNCHANGED <<conn, opened>>
      \/ /\ l.buf # <<>> /\ ch = "own" /\ SetLoop(t, Opened(rest, c))
         /\ conn' = [conn EXCEPT ![c].st = "open", ![c].t = t]
         /\ opened' = [opened EXCEPT ![t] = Append(@, c)]
      \/ /\ l.buf # <<>> /\ ch = "sender" /\ SetLoop(t, rest)
         /\ conn' = [conn EXCEPT ![c].answered = @ + 1] /\ UNCHANGED opened
  BY DEF channelEvent
<1> HIDE DEF l
<1>6. ASSUME NEW k \in Loops, Tidy(k), SetLoop(t, k), ConnTypes' PROVE IInv'
  <2>1. ThreadTypes' /\ Phases' /\ Discipline'
    BY <1>1, <1>2, <1>6, ThreadMove DEF SetLoop
  <2>2. QED
    BY <1>1, <1>6, <2>1, SameTypes DEF IInv, TypeOK
<1>7. CASE l.buf = <<>> /\ SetLoop(t, Finished(l)) /\ UNCHANGED <<conn, opened>>
  <2>1. Serves(loop[t], Finished(l), "none")
    BY <1>2, <1>3, <1>4, <1>7, FinishedServes, ServesTwice
  <2>2. Finished(l) \in Loops /\ Tidy(Finished(l))
    BY <2>1 DEF Serves
  <2>3. ConnTypes'
    BY <1>1, <1>7 DEF IInv, TypeOK, ConnTypes
  <2>4. QED
    BY <1>6, <1>7, <2>1, <2>2, <2>3, OneLoop DEF SetLoop
<1>8. CASE /\ l.buf # <<>> /\ ch = "own" /\ SetLoop(t, Opened(rest, c))
           /\ conn' = [conn EXCEPT ![c].st = "open", ![c].t = t]
           /\ opened' = [opened EXCEPT ![t] = Append(@, c)]
  <2> DEFINE k == Opened(rest, c)
  <2>1. /\ rest \in Loops /\ Tidy(rest) /\ c \in Conns /\ Keeps(l, rest, "none")
        /\ Queued(l) # <<>> /\ Head(Queued(l)) = c /\ Queued(rest) = Tail(Queued(l))
    BY <1>4, <1>8, PopServes
  <2>2. Serves(rest, k, c)
    BY <2>1, OpenedCalm, CalmServes
  <2>3. /\ k \in Loops /\ Tidy(k) /\ Queued(k) = Tail(Queued(l)) /\ Keeps(loop[t], k, c)
        /\ Queued(loop[t]) = Queued(l)
    BY <1>3, <2>1, <2>2, ConnsAssumption DEF Serves, Keeps
  <2> HIDE DEF rest, c, k
  <2>4. ConnTypes'
    <3>1. conn \in [Conns -> Connections] /\ opened \in [Threads -> Seq(Conns)]
      BY DEF IInv, TypeOK, ConnTypes
    <3>2. conn' \in [Conns -> Connections]
      <4>1. PICK d \in Conns : d = c
        BY <2>1
      <4>2. [conn EXCEPT ![d].st = "open", ![d].t = t] \in [Conns -> Connections]
        BY <3>1, ConnEdits
      <4>3. conn' = [conn EXCEPT ![d].st = "open", ![d].t = t]
        BY <1>8, <4>1
      <4>4. QED
        BY <4>2, <4>3
    <3>3. opened' \in [Threads -> Seq(Conns)]
      BY <1>8, <2>1, <3>1, OpenedType
    <3>4. QED
      BY <1>1, <3>2, <3>3 DEF IInv, TypeOK, ConnTypes
  <2>5. loop' = [loop EXCEPT ![t] = k]
    BY <1>8 DEF SetLoop, k
  <2>6. /\ loop' \in [Threads -> Loops] /\ loop'[t] = k
        /\ \A u \in Threads \ {t} : loop'[u] = loop[u] /\ Tidy(loop'[u])
    BY <2>3, <2>5, OneLoop
  <2>7. \A u \in Threads \ {t} : Serves(loop[u], loop'[u], "none")
    BY <2>6 DEF Serves, Keeps
  <2>8. OpensNext(t, c)
    BY <1>8, <2>1, <2>3, <2>6, <2>7 DEF OpensNext
  <2>9. QED
    BY <1>6, <1>8, <2>1, <2>3, <2>4, <2>5, <2>8 DEF SetLoop
<1>9. CASE /\ l.buf # <<>> /\ ch = "sender" /\ SetLoop(t, rest)
           /\ conn' = [conn EXCEPT ![c].answered = @ + 1] /\ UNCHANGED opened
  <2>1. /\ rest \in Loops /\ Tidy(rest) /\ c \in Conns /\ Keeps(l, rest, "none")
        /\ Queued(rest) = Queued(l)
    BY <1>4, <1>9, PopServes
  <2>2. Serves(loop[t], rest, "none")
    BY <1>2, <1>3, <2>1, ServesTwice DEF Serves
  <2> HIDE DEF rest, c
  <2>3. ConnTypes'
    BY <1>1, <1>9, <2>1, ConnEdits DEF IInv, TypeOK, ConnTypes
  <2>4. QED
    BY <1>6, <1>9, <2>1, <2>2, <2>3, OneLoop DEF SetLoop
<1>10. QED
  BY <1>5, <1>7, <1>8, <1>9

LEMMA DataStep ==
  ASSUME IInv, NEW t \in Threads, NEW c \in Conns, dataEvent(t, c)
  PROVE  IInv' /\ Quiet
<1>1. /\ pc[t] = "batch" /\ loop[t].batch # <<>> /\ loop[t].buf = <<>>
      /\ pc = [pc EXCEPT ![t] = "batch"] /\ "batch" \in Places \ (HasConn \cup NoBatch)
      /\ Fits(t, "batch") /\ loop[t] \in Loops /\ Tidy(loop[t])
  BY EventFacts, SameThread, ConnsAssumption DEF dataEvent, Channels
<1>2. conn \in [Conns -> Connections]
  BY DEF IInv, TypeOK, ConnTypes
<1>3. CASE Dies("current")
  BY <1>3, DiesStep
<1>4. CASE /\ conn[c].input > 0 /\ inbox' = Append(inbox, c)
           /\ conn' = [conn EXCEPT ![c].input = @ - 1]
           /\ UNCHANGED <<loopVars, notifiers, snap, busy, raced, crash>>
           /\ UNCHANGED <<conf, backlog, turn, services, handed, opened, mainVars>>
  <2>1. ThreadTypes' /\ Phases' /\ Discipline' /\ Quiet
    BY <1>4, SameLoops, Unmoved DEF loopVars, mainVars
  <2>2. conn' \in [Conns -> Connections]
    BY <1>2, <1>4, ConnEdits
  <2>3. ConnTypes' /\ WorkerTypes' /\ OtherTypes'
    BY <1>4, <2>2 DEF IInv, TypeOK, ConnTypes, WorkerTypes, OtherTypes, mainVars
  <2>4. QED
    BY <2>1, <2>3 DEF IInv, TypeOK
<1>5. CASE /\ conn[c].input = 0
           /\ IF conn[c].hup
              THEN /\ SetLoop(t, erase(Finished(loop[t]), c))
                   /\ conn' = [conn EXCEPT ![c].st = "closed"]
              ELSE SetLoop(t, Finished(loop[t])) /\ UNCHANGED conn
           /\ UNCHANGED <<conf, pc, cur, backlog, turn, services, handed, opened>>
           /\ UNCHANGED <<workerVars, mainVars, crash>>
  <2> DEFINE f == Finished(loop[t])
  <2>1. Serves(loop[t], f, "none") /\ f \in Loops /\ Tidy(f)
    BY <1>1, FinishedServes DEF Serves
  <2> HIDE DEF f
  <2>2. Serves(loop[t], erase(f, c), "none")
    BY <1>1, <2>1, EraseCalm, CalmServes, ServesTwice
  <2>3. PICK k \in {f, erase(f, c)} : loop' = [loop EXCEPT ![t] = k]
    BY <1>5 DEF SetLoop, f
  <2>4. Serves(loop[t], k, "none") /\ k \in Loops /\ Tidy(k)
    BY <2>1, <2>2 DEF Serves
  <2>5. conn' \in [Conns -> Connections]
    <3>1. "closed" \in Stages
      BY DEF Stages
    <3>2. [conn EXCEPT ![c].st = "closed"] \in [Conns -> Connections]
      BY <1>2, <3>1, ConnEdits
    <3>3. QED
      BY <1>2, <1>5, <3>2
  <2>6. ConnTypes' /\ WorkerTypes' /\ OtherTypes'
    BY <1>5, <2>5 DEF IInv, TypeOK, ConnTypes, WorkerTypes, OtherTypes, workerVars, mainVars
  <2>7. conf' = conf /\ main' = main /\ cur' = cur /\ pc' = pc
    BY <1>5 DEF mainVars
  <2>8. ThreadTypes' /\ Phases' /\ Discipline'
    BY <1>1, <2>3, <2>4, <2>7, ThreadMove
  <2>9. Quiet
    BY <2>3, <2>4, OneLoop
  <2>10. QED
    BY <2>6, <2>8, <2>9 DEF IInv, TypeOK
<1>6. QED
  BY <1>3, <1>4, <1>5 DEF dataEvent

-----------------------------------------------------------------------------
(* Accepting. *)

LEMMA AcceptStep ==
  ASSUME IInv, NEW t \in Threads, acceptDataSocket(t)
  PROVE  IInv' /\ Quiet
<1>1. /\ pc[t] = "batch" /\ loop[t].batch # <<>> /\ loop[t].buf = <<>>
      /\ pc = [pc EXCEPT ![t] = "batch"] /\ "batch" \in Places \ (HasConn \cup NoBatch)
      /\ Fits(t, "batch") /\ loop[t] \in Loops /\ Tidy(loop[t])
  BY EventFacts, SameThread DEF acceptDataSocket, Channels
<1>2. /\ conf' = conf /\ main' = main
      /\ UNCHANGED <<turn, services, handed, opened>>
      /\ UNCHANGED workerVars /\ UNCHANGED <<sync, stopping>>
  BY DEF acceptDataSocket, mainVars
<1>3. CASE backlog = <<>>
  <2> DEFINE f == Finished(loop[t])
  <2>1. /\ loop' = [loop EXCEPT ![t] = f] /\ pc' = pc /\ cur' = cur /\ UNCHANGED connVars
    BY <1>3 DEF acceptDataSocket, SetLoop, connVars
  <2>2. Serves(loop[t], f, "none") /\ f \in Loops /\ Tidy(f)
    BY <1>1, FinishedServes DEF Serves
  <2> HIDE DEF f
  <2>3. ThreadTypes' /\ Phases' /\ Discipline'
    BY <1>1, <1>2, <2>1, <2>2, ThreadMove
  <2>4. Quiet
    BY <2>1, <2>2, OneLoop
  <2>5. QED
    BY <1>2, <2>1, <2>3, <2>4, SameTypes DEF IInv, TypeOK
<1>4. CASE backlog # <<>>
  <2> DEFINE c == Head(backlog)
  <2>1. backlog \in Seq(Conns) /\ conn \in [Conns -> Connections]
    BY DEF IInv, TypeOK, ConnTypes
  <2>2. c \in Conns /\ Tail(backlog) \in Seq(Conns)
    BY <1>4, <2>1
  <2>3. /\ pc' = [pc EXCEPT ![t] = "onNew"] /\ cur' = [cur EXCEPT ![t] = c]
        /\ conn' = [conn EXCEPT ![c].st = "accepted"] /\ backlog' = Tail(backlog) /\ loop' = loop
    BY <1>4 DEF acceptDataSocket, Go
  <2> HIDE DEF c
  <2>4. "onNew" \in Places \ NoBatch /\ Fits(t, "onNew") /\ main' # "new"
    BY <1>1, <1>2, SameThread DEF Places, NoBatch, Fits, Connecting
  <2>5. ThreadTypes' /\ Phases' /\ Discipline'
    BY <1>2, <2>2, <2>3, <2>4, SameLoops, Moved
  <2>6. conn' \in [Conns -> Connections]
    BY <2>1, <2>2, <2>3, ConnEdits DEF Stages
  <2>7. ConnTypes'
    BY <1>2, <2>2, <2>3, <2>6 DEF IInv, TypeOK, ConnTypes
  <2>8. QED
    BY <1>2, <2>3, <2>5, <2>7, SameTypes, SameLoops DEF IInv, TypeOK
<1>5. QED
  BY <1>3, <1>4

(* A thread that has a connection in hand. *)
LEMMA InHand ==
  ASSUME IInv, NEW t \in Threads, pc[t] \in HasConn
  PROVE  cur[t] \in Conns /\ pc[t] # "unborn" /\ conn \in [Conns -> Connections]
  BY DEF IInv, TypeOK, ConnTypes, Discipline, HasConn

LEMMA SslStep ==
  ASSUME IInv, NEW t \in Threads, sslAcceptFails(t)
  PROVE  IInv' /\ Quiet
<1>1. /\ conf' = conf /\ main' = main /\ loop' = loop /\ cur' = cur /\ pc[t] = "onNew"
      /\ pc' = [pc EXCEPT ![t] = "batch"] /\ conn' = [conn EXCEPT ![cur[t]].st = "dropped"]
      /\ UNCHANGED <<backlog, turn, services, handed, opened>>
      /\ UNCHANGED workerVars /\ UNCHANGED <<sync, stopping>>
  BY DEF sslAcceptFails, Go, mainVars
<1>2. /\ "batch" \in Places \ (HasConn \cup NoBatch) /\ Fits(t, "batch") /\ main' # "new"
  BY <1>1, SameThread DEF Places, HasConn, NoBatch, Fits, Connecting
<1>3. ThreadTypes' /\ Phases' /\ Discipline'
  BY <1>1, <1>2, SameLoops, SameThread, Moved
<1>4. cur[t] \in Conns /\ conn \in [Conns -> Connections]
  BY <1>1, InHand DEF HasConn
<1>5. conn' \in [Conns -> Connections]
  BY <1>1, <1>4, ConnEdits DEF Stages
<1>6. ConnTypes'
  BY <1>1, <1>5 DEF IInv, TypeOK, ConnTypes
<1>7. QED
  BY <1>1, <1>3, <1>6, SameTypes, SameLoops DEF IInv, TypeOK

LEMMA Modulo ==
  ASSUME NEW a \in Nat, NEW n \in Nat \ {0}
  PROVE  a % n \in 0 .. n - 1
  OBVIOUS

(* Thread u gets connection c. *)
Hands(u, c) ==
  /\ loop' \in [Threads -> Loops]
  /\ Queued(loop'[u]) = Append(Queued(loop[u]), c) /\ Keeps(loop[u], loop'[u], "none")
  /\ \A v \in Threads \ {u} : Serves(loop[v], loop'[v], "none")

LEMMA HandOverStep ==
  ASSUME IInv, NEW t \in Threads, serverOnNewConnection(t)
  PROVE  /\ IInv'
         /\ \/ Dies("modulo") /\ Quiet
            \/ /\ (turn % NumThreads(conf)) + 1 \in Clients /\ NumThreads(conf) # 0
               /\ Hands((turn % NumThreads(conf)) + 1, cur[t])
<1>1. pc[t] = "onNew" /\ conf.kind = "pool"
  BY DEF serverOnNewConnection
<1>2. CASE NumThreads(conf) = 0
  BY <1>2, DiesStep DEF serverOnNewConnection
<1>3. CASE NumThreads(conf) # 0
  <2> DEFINE u == (turn % NumThreads(conf)) + 1
             k == notify(loop[u], "own", cur[t])
  <2>1. NumThreads(conf) \in Nat \ {0} /\ turn \in Nat /\ Clients \subseteq Threads
    BY <1>3, ThreadsKind DEF IInv, TypeOK, ConnTypes
  <2>2. u \in Clients /\ u \in Nat
    <3>1. turn % NumThreads(conf) \in 0 .. NumThreads(conf) - 1
      BY <2>1, Modulo
    <3>2. QED
      BY <2>1, <3>1 DEF Clients
  <2>3. /\ conf' = conf /\ main' = main /\ cur' = cur /\ pc' = [pc EXCEPT ![t] = "batch"]
        /\ loop' = [loop EXCEPT ![u] = k] /\ turn' = u /\ handed' = Append(handed, cur[t])
        /\ conn' = [conn EXCEPT ![cur[t]].st = "passed"]
        /\ UNCHANGED <<backlog, services, opened>>
        /\ UNCHANGED workerVars /\ UNCHANGED <<sync, stopping>>
    BY <1>3 DEF serverOnNewConnection, Go, SetLoop, mainVars
  <2>4. cur[t] \in Conns /\ conn \in [Conns -> Connections]
    BY <1>1, InHand DEF HasConn
  <2> HIDE DEF u
  <2>5. /\ k \in Loops /\ Tidy(k) /\ Queued(k) = Append(Queued(loop[u]), cur[t])
        /\ Keeps(loop[u], k, "none") /\ k.batch = loop[u].batch
    BY <2>1, <2>2, <2>4, SameThread, NotifyServes
  <2> HIDE DEF k
  <2>6. /\ loop' \in [Threads -> Loops] /\ \A v \in Threads : Tidy(loop'[v])
        /\ loop'[u] = k /\ \A v \in Threads \ {u} : loop'[v] = loop[v]
    BY <2>1, <2>2, <2>3, <2>5, OneLoop
  <2>7. \A v \in Threads : loop'[v].batch = loop[v].batch
    BY <2>5, <2>6
  <2>8. /\ "batch" \in Places \ (HasConn \cup NoBatch) /\ Fits(t, "batch") /\ main' # "new"
    BY <1>1, <2>3, SameThread DEF Places, HasConn, NoBatch, Fits, Connecting
  <2>9. ThreadTypes' /\ Phases' /\ Discipline'
    <3>1. cur' = [cur EXCEPT ![t] = cur[t]] /\ cur[t] \in Conns \cup {None}
      BY <2>3, SameThread
    <3>2. \A v \in Threads \ {t} : loop[v].batch = <<>> => loop'[v].batch = <<>>
      BY <2>7
    <3>3. QED
      BY <2>3, <2>6, <2>8, <3>1, <3>2, Moved
  <2>10. conn' \in [Conns -> Connections]
    BY <2>3, <2>4, ConnEdits DEF Stages
  <2>11. ConnTypes'
    BY <2>2, <2>3, <2>4, <2>10 DEF IInv, TypeOK, ConnTypes
  <2>12. Hands(u, cur[t])
    <3>1. \A v \in Threads \ {u} : Serves(loop[v], loop'[v], "none")
      BY <2>6 DEF Serves, Keeps
    <3>2. QED
      BY <2>5, <2>6, <3>1 DEF Hands
  <2>13. QED
    BY <1>3, <2>2, <2>3, <2>9, <2>11, <2>12, SameTypes DEF IInv, TypeOK, u
<1>4. QED
  BY <1>2, <1>3

LEMMA SingleStep ==
  ASSUME IInv, NEW t \in Threads, singleOnNewConnection(t)
  PROVE  IInv' /\ Quiet
<1>1. /\ conf' = conf /\ main' = main /\ loop' = loop /\ cur' = cur /\ pc[t] = "onNew"
      /\ pc' = [pc EXCEPT ![t] = "add"] /\ handed' = Append(handed, cur[t]) /\ conf.kind = "single"
      /\ UNCHANGED <<conn, backlog, turn, services, opened>>
      /\ UNCHANGED workerVars /\ UNCHANGED <<sync, stopping>>
  BY DEF singleOnNewConnection, Go, mainVars
<1>2. cur[t] \in Conns
  BY <1>1, InHand DEF HasConn
<1>3. "add" \in Places \ NoBatch /\ Fits(t, "add") /\ main' # "new"
  BY <1>1, SameThread, ThreadsKind DEF Places, NoBatch, Fits
<1>4. ThreadTypes' /\ Phases' /\ Discipline'
  BY <1>1, <1>2, <1>3, SameLoops, SameThread, Moved
<1>5. ConnTypes'
  BY <1>1, <1>2 DEF IInv, TypeOK, ConnTypes
<1>6. QED
  BY <1>1, <1>4, <1>5, SameTypes, SameLoops DEF IInv, TypeOK

(* The service that is being connected is on the list. *)
ServiceInv == pc[0] \in {"addFirst", "addAgain"} => services.at <= Len(services.list)

(* Thread t registers connection c. *)
Registers(t, c) ==
  /\ loop' \in [Threads -> Loops] /\ Serves(loop[t], loop'[t], c)
  /\ \A u \in Threads \ {t} : Serves(loop[u], loop'[u], "none")

LEMMA AddSocketStep ==
  ASSUME IInv, ServiceInv, NEW t \in Threads, addDataSocket(t)
  PROVE  IInv' /\ Registers(t, cur[t]) /\ cur[t] \in Conns /\ t = 0 /\ conf.kind # "pool"
<1> DEFINE c == cur[t]
           k == Opened(loop[t], c)
           x == CASE pc[t] = "add" -> "batch" [] pc[t] = "addFirst" -> "connect" [] OTHER -> "reconnect"
<1>1. /\ pc[t] \in {"add", "addFirst", "addAgain"} /\ loop' = [loop EXCEPT ![t] = k]
      /\ conn' = [conn EXCEPT ![c].st = "open"] /\ opened' = [opened EXCEPT ![t] = Append(@, c)]
      /\ services' = IF pc[t] = "add" THEN services
                     ELSE [services EXCEPT !.list = RemoveAt(@, services.at)]
      /\ pc' = [pc EXCEPT ![t] = x] /\ conf' = conf /\ main' = main /\ cur' = cur
      /\ UNCHANGED <<backlog, turn, handed>>
      /\ UNCHANGED workerVars /\ UNCHANGED <<sync, stopping>>
  BY DEF addDataSocket, Go, SetLoop, mainVars
<1>2. c \in Conns /\ conn \in [Conns -> Connections] /\ pc[t] # "unborn"
  BY <1>1, InHand DEF HasConn
<1>3. conf.kind # "pool" /\ t = 0
  BY <1>1, <1>2, SameThread, ThreadsKind DEF Fits, Connecting
<1>4. /\ x \in Places \ HasConn /\ Fits(t, x) /\ (x \in NoBatch => pc[t] \in NoBatch)
  BY <1>1, <1>3, ThreadsKind DEF Places, HasConn, NoBatch, Fits
<1>5. Calm(loop[t], k) /\ Keeps(loop[t], k, c)
  BY <1>2, SameThread, OpenedCalm
<1> HIDE DEF c, x, k
<1>6. Serves(loop[t], k, c) /\ k.batch = loop[t].batch
  BY <1>5, SameThread, CalmServes DEF Calm
<1>7. k \in Loops /\ Tidy(k) /\ (x \in NoBatch => k.batch = <<>>)
  BY <1>4, <1>6 DEF Serves, IInv, Discipline
<1>8. ThreadTypes' /\ Phases' /\ Discipline'
  BY <1>1, <1>2, <1>4, <1>7, ThreadMove
<1>9. Registers(t, c)
  <2>1. /\ loop' \in [Threads -> Loops] /\ \A u \in Threads : Tidy(loop'[u])
        /\ loop'[t] = k /\ \A u \in Threads \ {t} : loop'[u] = loop[u]
    BY <1>1, <1>7, OneLoop
  <2>2. \A u \in Threads \ {t} : Serves(loop[u], loop'[u], "none")
    BY <2>1 DEF Serves, Keeps
  <2>3. QED
    BY <1>6, <2>1, <2>2 DEF Registers
<1>10. ConnTypes'
  <2>1. conn' \in [Conns -> Connections]
    BY <1>1, <1>2, ConnEdits DEF Stages
  <2>2. opened' \in [Threads -> Seq(Conns)]
    BY <1>1, <1>2, OpenedType DEF IInv, TypeOK, ConnTypes
  <2>3. services' \in [list : Seq(Conns), at : Nat \ {0}]
    <3>1. services \in [list : Seq(Conns), at : Nat \ {0}]
      BY DEF IInv, TypeOK, ConnTypes
    <3>2. CASE pc[t] = "add"
      BY <1>1, <3>1, <3>2
    <3>3. CASE pc[t] # "add"
      <4> DEFINE r == RemoveAt(services.list, services.at)
      <4>1. services.at \in 1 .. Len(services.list) /\ services.list \in Seq(Conns)
        BY <1>1, <1>3, <3>1, <3>3 DEF ServiceInv
      <4>2. r \in Seq(Conns)
        BY <4>1, RemoveAtPart
      <4>3. services' = [services EXCEPT !.list = r]
        BY <1>1, <3>3
      <4> HIDE DEF r
      <4>4. QED
        BY <3>1, <4>2, <4>3
    <3>4. QED
      BY <3>2, <3>3
  <2>4. QED
    BY <1>1, <2>1, <2>2, <2>3 DEF IInv, TypeOK, ConnTypes
<1>11. QED
  BY <1>1, <1>2, <1>3, <1>8, <1>9, <1>10, SameTypes DEF IInv, TypeOK, c

-----------------------------------------------------------------------------
(* Connecting. *)

LEMMA ConnectStep ==
  ASSUME IInv, NEW t \in Threads, connect(t)
  PROVE  IInv' /\ Quiet /\ t = 0 /\ conf.kind # "pool"
<1>1. /\ pc[t] \in {"connect", "reconnect"} /\ conf' = conf /\ main' = main
      /\ UNCHANGED <<conn, backlog, turn, opened>>
      /\ UNCHANGED workerVars /\ UNCHANGED <<sync, stopping>>
  BY DEF connect, mainVars
<1>2. conf.kind # "pool" /\ t = 0 /\ main' # "new"
  BY <1>1, SameThread, ThreadsKind DEF Fits, Connecting
<1>3. services \in [list : Seq(Conns), at : Nat \ {0}] /\ handed \in Seq(Conns)
  BY DEF IInv, TypeOK, ConnTypes
<1>4. CASE services' = [services EXCEPT !.at = @ + 1] /\ UNCHANGED <<pc, loop, cur, handed>>
  <2>1. ThreadTypes' /\ Phases' /\ Discipline' /\ Quiet
    BY <1>1, <1>4, SameLoops, Unmoved
  <2>2. services' \in [list : Seq(Conns), at : Nat \ {0}]
    BY <1>3, <1>4
  <2>3. ConnTypes'
    BY <1>1, <1>4, <2>2 DEF IInv, TypeOK, ConnTypes
  <2>4. QED
    BY <1>1, <1>2, <2>1, <2>3, SameTypes DEF IInv, TypeOK
<1>5. CASE /\ services.at <= Len(services.list)
           /\ LET c == services.list[services.at]
              IN  cur' = [cur EXCEPT ![t] = c] /\ handed' = Append(handed, c)
           /\ Go(t, IF pc[t] = "connect" THEN "addFirst" ELSE "addAgain")
           /\ UNCHANGED <<loop, services>>
  <2> DEFINE c == services.list[services.at]
             x == IF pc[t] = "connect" THEN "addFirst" ELSE "addAgain"
  <2>1. c \in Conns
    BY <1>3, <1>5
  <2>2. /\ cur' = [cur EXCEPT ![t] = c] /\ handed' = Append(handed, c) /\ services' = services
        /\ pc' = [pc EXCEPT ![t] = x] /\ loop' = loop
    BY <1>5 DEF Go
  <2>3. x \in Places /\ Fits(t, x) /\ (x \in NoBatch => pc[t] \in NoBatch)
    BY <1>1, <1>2, ThreadsKind DEF Places, NoBatch, Fits
  <2> HIDE DEF c, x
  <2>4. x \in NoBatch => loop'[t].batch = <<>>
    BY <2>2, <2>3 DEF IInv, Discipline
  <2>5. ThreadTypes' /\ Phases' /\ Discipline' /\ Quiet
    BY <1>1, <1>2, <2>1, <2>2, <2>3, <2>4, SameLoops, Moved
  <2>6. ConnTypes'
    BY <1>1, <1>3, <2>1, <2>2 DEF IInv, TypeOK, ConnTypes
  <2>7. QED
    BY <1>1, <1>2, <2>5, <2>6, SameTypes DEF IInv, TypeOK
<1>6. CASE /\ services' = [services EXCEPT !.at = 1]
           /\ IF pc[t] = "connect" THEN SetLoop(t, StartLoop(loop[t])) /\ Go(t, "wait")
              ELSE Go(t, "batch") /\ UNCHANGED loop
           /\ UNCHANGED <<cur, handed>>
  <2>1. services' \in [list : Seq(Conns), at : Nat \ {0}]
    BY <1>3, <1>6
  <2>2. ConnTypes'
    BY <1>1, <1>6, <2>1 DEF IInv, TypeOK, ConnTypes
  <2>3. Serves(loop[t], StartLoop(loop[t]), "none") /\ StartLoop(loop[t]).batch = loop[t].batch
    BY StartLoopCalm, CalmServes, SameThread DEF Calm
  <2>4. Serves(loop[t], loop[t], "none") /\ loop = [loop EXCEPT ![t] = loop[t]]
    BY SameThread DEF Serves, Keeps, IInv, TypeOK, ThreadTypes
  <2>5. PICK x \in {"wait", "batch"}, k \in {loop[t], StartLoop(loop[t])} :
          /\ pc' = [pc EXCEPT ![t] = x] /\ loop' = [loop EXCEPT ![t] = k]
          /\ x \in NoBatch => pc[t] \in NoBatch
    <3>1. CASE pc[t] = "connect"
      BY <1>6, <3>1 DEF Go, SetLoop, NoBatch
    <3>2. CASE pc[t] # "connect"
      BY <1>6, <2>4, <3>2 DEF Go, NoBatch
    <3>3. QED
      BY <3>1, <3>2
  <2>6. Serves(loop[t], k, "none") /\ k \in Loops /\ Tidy(k) /\ (x \in NoBatch => k.batch = <<>>)
    BY <2>3, <2>4, <2>5 DEF Serves, IInv, Discipline
  <2>7. x \in Places \ HasConn /\ Fits(t, x)
    BY <1>2, ThreadsKind DEF Places, HasConn, Fits
  <2>8. ThreadTypes' /\ Phases' /\ Discipline'
    BY <1>1, <1>6, <2>5, <2>6, <2>7, ThreadMove
  <2>9. Quiet
    BY <2>5, <2>6, OneLoop
  <2>10. QED
    BY <1>1, <1>2, <2>2, <2>8, <2>9, SameTypes DEF IInv, TypeOK
<1>7. QED
  BY <1>4, <1>5, <1>6 DEF connect, connectToTCP

LEMMA OnTimerStep ==
  ASSUME IInv, NEW t \in Threads, onTimer(t)
  PROVE  IInv' /\ Quiet /\ t = 0 /\ conf.kind # "pool"
<1>1. /\ conf' = conf /\ main' = main /\ loop' = loop /\ cur' = cur /\ pc[t] = "onTimer"
      /\ pc' = [pc EXCEPT ![t] = "reconnect"]
      /\ UNCHANGED <<backlog, turn, handed, opened>>
      /\ UNCHANGED workerVars /\ UNCHANGED <<sync, stopping>>
  BY DEF onTimer, Go, mainVars
<1>2. conf.kind # "pool" /\ t = 0 /\ main' # "new"
  BY <1>1, SameThread, ThreadsKind DEF Fits, Connecting
<1>3. "reconnect" \in Places \ (HasConn \cup NoBatch) /\ Fits(t, "reconnect")
  BY <1>2, ThreadsKind DEF Places, HasConn, NoBatch, Fits
<1>4. ThreadTypes' /\ Phases' /\ Discipline'
  BY <1>1, <1>2, <1>3, SameLoops, SameThread, Moved
<1>5. conn \in [Conns -> Connections] /\ services \in [list : Seq(Conns), at : Nat \ {0}]
  BY DEF IInv, TypeOK, ConnTypes
<1>6. conn' \in [Conns -> Connections]
  <2>1. ASSUME NEW c \in Conns PROVE [conn[c] EXCEPT !.st = "lost", !.hup = FALSE] \in Connections
    BY <1>5 DEF Connections, Stages
  <2>2. QED
    BY <1>5, <2>1 DEF onTimer
<1>7. services' \in [list : Seq(Conns), at : Nat \ {0}]
  <2> DEFINE s == SetToSeq({c \in {d \in conf.peers : conn[d].st = "closed"} :
                              ~conf.web /\ ~Contains(services.list, c)})
  <2>1. s \in Seq(Conns)
    BY SetToSeqType, ThreadsKind
  <2>2. services' = [services EXCEPT !.list = services.list \o s]
    BY DEF onTimer, connectTo
  <2> HIDE DEF s
  <2>3. services.list \o s \in Seq(Conns)
    BY <1>5, <2>1
  <2>4. QED
    BY <1>5, <2>2, <2>3
<1>8. ConnTypes'
  BY <1>1, <1>6, <1>7 DEF IInv, TypeOK, ConnTypes
<1>9. QED
  BY <1>1, <1>2, <1>4, <1>8, SameTypes, SameLoops DEF IInv, TypeOK

-----------------------------------------------------------------------------
(* The worker, stop() and the kernel: a thread's loop changes behind its back. *)

(* A change of one loop that leaves its batch alone. *)
LEMMA LoopTouched ==
  ASSUME IInv, NEW t \in Threads, NEW k, conf' = conf, main' = main, pc' = pc, cur' = cur,
         loop' = [loop EXCEPT ![t] = k], Serves(loop[t], k, "none"), k.batch = loop[t].batch
  PROVE  ThreadTypes' /\ Phases' /\ Discipline' /\ Quiet
<1>1. k \in Loops /\ Tidy(k)
  BY DEF Serves
<1>2. /\ loop' \in [Threads -> Loops] /\ \A u \in Threads : Tidy(loop'[u])
      /\ loop'[t] = k /\ \A u \in Threads \ {t} : loop'[u] = loop[u]
      /\ Quiet
  BY <1>1, OneLoop
<1>3. \A u \in Threads : loop[u].batch = <<>> => loop'[u].batch = <<>>
  BY <1>2
<1>4. QED
  BY <1>2, <1>3, Unmoved

LEMMA NotifySenderStep ==
  ASSUME IInv, notifySender
  PROVE  IInv' /\ Quiet
<1> DEFINE t == conn[busy].t
           k == notify(loop[t], "sender", busy)
<1>1. busy \in Conns /\ t \in Threads
  BY DEF notifySender, IInv, TypeOK, ConnTypes, WorkerTypes, Connections
<1>2. /\ conf' = conf /\ main' = main /\ pc' = pc /\ cur' = cur /\ loop' = [loop EXCEPT ![t] = k]
      /\ UNCHANGED connVars /\ UNCHANGED <<sync, stopping>> /\ busy' = None /\ inbox' = inbox
  BY DEF notifySender, SetLoop, mainVars
<1> HIDE DEF t
<1>3. Serves(loop[t], k, "none") /\ k.batch = loop[t].batch
  BY <1>1, SameThread, NotifyServes
<1> HIDE DEF k
<1>4. ThreadTypes' /\ Phases' /\ Discipline' /\ Quiet
  BY <1>1, <1>2, <1>3, LoopTouched
<1>5. WorkerTypes'
  BY <1>2 DEF IInv, TypeOK, WorkerTypes
<1>6. QED
  BY <1>2, <1>4, <1>5, SameTypes DEF IInv, TypeOK

LEMMA StopThreadType ==
  ASSUME IInv
  PROVE  StopThread \in Threads
<1>1. stopping.at \in Nat /\ MaxThreads \in Nat
  BY ConnsAssumption DEF IInv, TypeOK, OtherTypes
<1>2. QED
  BY <1>1, ThreadsKind DEF StopThread, Threads

LEMMA StopTimerStep ==
  ASSUME IInv, stopTimer
  PROVE  IInv' /\ Quiet
<1> DEFINE t == StopThread
           l == add(loop[t], "timer", FALSE)
           k == startTimer(l, FALSE)
<1>1. t \in Threads
  BY StopThreadType
<1>2. /\ conf' = conf /\ main' = main /\ pc' = pc /\ cur' = cur /\ loop' = [loop EXCEPT ![t] = k]
      /\ UNCHANGED connVars /\ UNCHANGED workerVars /\ sync' = sync
      /\ stopping' = [stopping EXCEPT !.step = "flag"]
  BY DEF stopTimer, SetLoop
<1> HIDE DEF t
<1>3. Calm(loop[t], l) /\ Keeps(loop[t], l, "timer")
  BY <1>1, SameThread, AddCalm DEF Handlers
<1> HIDE DEF l
<1>4. Calm(l, k) /\ Keeps(l, k, "none")
  BY <1>3, TimerCalm DEF Calm
<1> HIDE DEF k
<1>5. Calm(loop[t], k) /\ Keeps(loop[t], k, "none")
  BY <1>3, <1>4, ConnsAssumption DEF Calm, Keeps
<1>6. Serves(loop[t], k, "none") /\ k.batch = loop[t].batch
  BY <1>1, <1>5, SameThread, CalmServes DEF Calm
<1>7. ThreadTypes' /\ Phases' /\ Discipline' /\ Quiet
  BY <1>1, <1>2, <1>6, LoopTouched
<1>8. OtherTypes'
  BY <1>2 DEF IInv, TypeOK, OtherTypes
<1>9. QED
  BY <1>2, <1>7, <1>8, SameTypes DEF IInv, TypeOK

LEMMA StopFlagStep ==
  ASSUME IInv, stopFlag
  PROVE  IInv' /\ Quiet
<1> DEFINE t == StopThread
           k == [loop[t] EXCEPT !.m_stop = TRUE]
<1>1. t \in Threads
  BY StopThreadType
<1>2. /\ conf' = conf /\ main' = main /\ pc' = pc /\ cur' = cur /\ loop' = [loop EXCEPT ![t] = k]
      /\ UNCHANGED connVars /\ UNCHANGED workerVars /\ sync' = sync
  BY DEF stopFlag, SetLoop
<1> HIDE DEF t
<1>3. Calm(loop[t], k) /\ Keeps(loop[t], k, "none")
  BY <1>1, SameThread, TimerCalm
<1> HIDE DEF k
<1>4. Serves(loop[t], k, "none") /\ k.batch = loop[t].batch
  BY <1>1, <1>3, SameThread, CalmServes DEF Calm
<1>5. ThreadTypes' /\ Phases' /\ Discipline' /\ Quiet
  BY <1>1, <1>2, <1>4, LoopTouched
<1>6. OtherTypes'
  BY <1>2 DEF stopFlag, IInv, TypeOK, OtherTypes
<1>7. QED
  BY <1>2, <1>5, <1>6, SameTypes DEF IInv, TypeOK

LEMMA ExpireStep ==
  ASSUME IInv, NEW t \in Threads, expire(t)
  PROVE  IInv' /\ Quiet
<1> DEFINE k == Expire(loop[t])
<1>1. /\ conf' = conf /\ main' = main /\ pc' = pc /\ cur' = cur /\ loop' = [loop EXCEPT ![t] = k]
      /\ UNCHANGED connVars /\ UNCHANGED workerVars /\ UNCHANGED <<sync, stopping>>
  BY DEF expire, SetLoop, mainVars
<1>2. Calm(loop[t], k) /\ Keeps(loop[t], k, "none")
  BY SameThread, TimerCalm
<1> HIDE DEF k
<1>3. Serves(loop[t], k, "none") /\ k.batch = loop[t].batch
  BY <1>2, SameThread, CalmServes DEF Calm
<1>4. ThreadTypes' /\ Phases' /\ Discipline' /\ Quiet
  BY <1>1, <1>3, LoopTouched
<1>5. QED
  BY <1>1, <1>4, SameTypes DEF IInv, TypeOK

LEMMA PeerStep ==
  ASSUME IInv, NEW c \in Conns, Peer(c)
  PROVE  IInv' /\ Quiet /\ \A t \in Threads : loop'[t].added = loop[t].added
<1>1. /\ conf' = conf /\ main' = main /\ pc' = pc /\ cur' = cur
      /\ UNCHANGED workerVars /\ UNCHANGED <<sync, stopping>>
      /\ UNCHANGED <<turn, services, handed, opened>>
  BY DEF Peer, peerConnects, peerAsks, peerHangsUp, mainVars
<1>2. PICK h : loop' = [t \in Threads |-> Edge(loop[t], h)]
  BY DEF Peer, peerConnects, peerAsks, peerHangsUp, Edges
<1>3. ASSUME NEW t \in Threads
      PROVE  Serves(loop[t], loop'[t], "none") /\ loop'[t].batch = loop[t].batch
             /\ loop'[t].added = loop[t].added
  <2>1. Calm(loop[t], Edge(loop[t], h)) /\ Keeps(loop[t], Edge(loop[t], h), "none")
        /\ Edge(loop[t], h).added = loop[t].added
    BY SameThread, EdgeCalm
  <2>2. loop'[t] = Edge(loop[t], h)
    BY <1>2
  <2>3. QED
    BY <2>1, <2>2, SameThread, CalmServes DEF Calm
<1>4. loop' \in [Threads -> Loops] /\ \A u \in Threads : Tidy(loop'[u])
  BY <1>2, <1>3 DEF Serves
<1>5. ThreadTypes' /\ Phases' /\ Discipline'
  BY <1>1, <1>3, <1>4, Unmoved
<1>6. conn \in [Conns -> Connections] /\ backlog \in Seq(Conns)
  BY DEF IInv, TypeOK, ConnTypes
<1>7. conn' \in [Conns -> Connections] /\ backlog' \in Seq(Conns)
  <2>1. CASE peerConnects(c)
    <3>1. PICK hello \in {"ok", "bad", "silent"} :
            conn' = [conn EXCEPT ![c].st = "backlog", ![c].hello = hello]
      BY <2>1 DEF peerConnects
    <3>2. [conn EXCEPT ![c].st = "backlog", ![c].hello = hello] \in [Conns -> Connections]
      BY <1>6, ConnEdits
    <3>3. backlog' = Append(backlog, c)
      BY <2>1 DEF peerConnects
    <3>4. conn' \in [Conns -> Connections]
      BY <3>1, <3>2, Zenon
    <3>5. QED
      BY <1>6, <3>3, <3>4
  <2>2. CASE peerAsks(c)
    <3>1. [conn EXCEPT ![c].asked = @ + 1, ![c].input = @ + 1] \in [Conns -> Connections]
      BY <1>6, ConnEdits
    <3>2. conn' = [conn EXCEPT ![c].asked = @ + 1, ![c].input = @ + 1] /\ backlog' = backlog
      BY <2>2, Zenon DEF peerAsks
    <3>3. conn' \in [Conns -> Connections]
      BY <3>1, <3>2, Zenon
    <3>4. QED
      BY <1>6, <3>2, <3>3
  <2>3. CASE peerHangsUp(c)
    <3>1. [conn EXCEPT ![c].hup = TRUE] \in [Conns -> Connections]
      BY <1>6, ConnEdits
    <3>2. QED
      BY <1>6, <2>3, <3>1 DEF peerHangsUp
  <2>4. QED
    BY <2>1, <2>2, <2>3 DEF Peer
<1>8. ConnTypes'
  BY <1>1, <1>7 DEF IInv, TypeOK, ConnTypes
<1>9. QED
  BY <1>1, <1>3, <1>4, <1>5, <1>8, SameTypes DEF IInv, TypeOK, Quiet

-----------------------------------------------------------------------------
(* The invariant of the threads. *)

LEMMA InitIInv == Init => IInv /\ ServiceInv
<1> SUFFICES ASSUME Init PROVE IInv /\ ServiceInv
  OBVIOUS
<1>1. conf \in Configs /\ conf.n \in Nat
  BY ConfigAssumption, ConnsAssumption DEF Init
<1>2. ThreadTypes
  BY NewLoopType DEF Init, ThreadTypes, Places
<1>3. ConnTypes
  <2>1. NewConn \in Connections
    BY ClientsFacts, <1>1 DEF NewConn, Connections, Stages
  <2>2. conn \in [Conns -> Connections]
    BY <2>1 DEF Init
  <2>3. services \in [list : Seq(Conns), at : Nat \ {0}]
    <3>1. (IF conf.kind = "connect" THEN SetToSeq(conf.peers) ELSE <<>>) \in Seq(Conns)
      BY <1>1, ClientsFacts, SetToSeqType
    <3>2. QED
      BY <3>1 DEF Init
  <2>4. QED
    BY <2>2, <2>3 DEF Init, ConnTypes
<1>4. WorkerTypes
  BY DEF Init, WorkerTypes
<1>5. OtherTypes
  <2>1. NumThreads(conf) \in Nat
    BY <1>1, ClientsFacts
  <2>2. sync \in [count : Nat, waiting : Nat]
    <3>1. \A n \in Nat : WaitForCount(n) \in [count : Nat, waiting : Nat]
      BY DEF WaitForCount
    <3>2. \A w \in [count : Nat, waiting : Nat], n \in Nat : update(w, n) \in [count : Nat, waiting : Nat]
      BY DEF update
    <3>3. ServerThreadSync(conf) \in [count : Nat, waiting : Nat]
      <4> DEFINE w == update(WaitForCount(conf.n), NumThreads(conf))
      <4>1. w \in [count : Nat, waiting : Nat] /\ NumThreads(conf) + 1 \in Nat
        <5>1. NumThreads(conf) + 1 \in Nat
          BY <2>1
        <5>2. WaitForCount(conf.n) \in [count : Nat, waiting : Nat]
          BY <1>1, <3>1, Zenon
        <5>3. w \in [count : Nat, waiting : Nat]
          BY <2>1, <3>2, <5>2, Zenon
        <5>4. QED
          BY <5>1, <5>3
      <4>2. update(w, NumThreads(conf) + 1) \in [count : Nat, waiting : Nat]
        BY <3>2, <4>1
      <4>3. QED
        BY <4>1, <4>2 DEF ServerThreadSync
    <3>4. ServerSingleThreadSync(conf) \in [count : Nat, waiting : Nat]
      BY <3>1, <3>2 DEF ServerSingleThreadSync
    <3>5. QED
      BY <3>3, <3>4 DEF Init
  <2>3. QED
    BY <2>2 DEF Init, OtherTypes
<1>6. Phases
  BY DEF Init, Phases, Fits, Connecting
<1>7. Discipline
  <2>1. NewLoop.batch = <<>> /\ NewLoop.buf = <<>>
    BY DEF NewLoop
  <2>2. QED
    BY <2>1 DEF Init, Discipline, Tidy, HasConn
<1>8. ServiceInv
  BY <1>1, ClientsFacts DEF Init, ServiceInv
<1>9. QED
  BY <1>2, <1>3, <1>4, <1>5, <1>6, <1>7, <1>8 DEF IInv, TypeOK

LEMMA NextIInv ==
  ASSUME IInv, ServiceInv, Next
  PROVE  IInv'
<1>1. ASSUME NEW t \in Threads, Thread(t) PROVE IInv'
  BY <1>1, ConnectToBeginsStep, ConnectToEndsStep, ClientSyncedStep, SetUpStep, ServerAwaitsStep,
     LoopStartStep, TimerEventStep, ChannelStep, DataStep, AcceptStep, SslStep, HandOverStep,
     SingleStep, AddSocketStep, ConnectStep, OnTimerStep DEF Thread, Channels
<1>2. ASSUME NEW c \in conf.peers, Peer(c) PROVE IInv'
  BY <1>2, PeerStep, ThreadsKind
<1>3. CASE Worker \/ Main \/ stopCalled
  BY <1>3, AsideStep, StartStep, NotifySenderStep, StopTimerStep, StopFlagStep DEF Worker, Main
<1>4. QED
  BY <1>1, <1>2, <1>3, ExpireStep DEF Next

LEMMA NextServices ==
  ASSUME IInv, ServiceInv, Next
  PROVE  ServiceInv'
<1>0. services \in [list : Seq(Conns), at : Nat \ {0}] /\ pc \in [Threads -> Places] /\ 0 \in Threads
  BY ThreadsKind DEF IInv, TypeOK, ConnTypes, ThreadTypes
<1>1. ASSUME NEW t \in Threads, addDataSocket(t) PROVE ServiceInv'
  <2>1. t = 0 /\ pc'[0] \notin {"addFirst", "addAgain"}
    BY <1>0, <1>1, AddSocketStep DEF addDataSocket, Go
  <2>2. QED
    BY <2>1 DEF ServiceInv
<1>2. ASSUME NEW t \in Threads, connect(t) PROVE ServiceInv'
  <2>1. t = 0
    BY <1>2, ConnectStep
  <2>2. QED
    BY <1>0, <1>2, <2>1 DEF connect, connectToTCP, ServiceInv, Go
<1>3. ASSUME NEW t \in Threads, onTimer(t) PROVE ServiceInv'
  <2>1. t = 0
    BY <1>3, OnTimerStep
  <2>2. QED
    BY <1>0, <1>3, <2>1 DEF onTimer, ServiceInv, Go
<1>4. ASSUME services' = services, pc'[0] \in {"addFirst", "addAgain"} => pc'[0] = pc[0]
      PROVE  ServiceInv'
  BY <1>4 DEF ServiceInv
<1>5. ASSUME NEW t \in Threads, Thread(t),
             ~addDataSocket(t), ~connect(t), ~onTimer(t)
      PROVE  services' = services /\ (pc'[0] \in {"addFirst", "addAgain"} => pc'[0] = pc[0])
  <2>1. CASE connectToBegins(t) \/ connectToEnds(t) \/ clientSynced(t) \/ serverAwaits(t)
    BY <1>0, <2>1 DEF connectToBegins, connectToEnds, clientSynced, serverAwaits, Go, connVars
  <2>2. CASE setUpTCP(t)
    BY <1>0, <2>2 DEF setUpTCP, ServerThreadRun, ServerSingleThreadRun, Go, connVars
  <2>3. CASE FDEventLoopStart(t) \/ timerEvent(t)
    BY <1>0, <2>3 DEF FDEventLoopStart, timerEvent, Go, connVars
  <2>4. CASE \E ch \in {"own", "sender"} : channelEvent(t, ch)
    BY <2>4 DEF channelEvent
  <2>5. CASE \E c \in Conns : dataEvent(t, c)
    BY <2>5 DEF dataEvent, Dies, loopVars, connVars
  <2>6. CASE acceptDataSocket(t) \/ sslAcceptFails(t) \/ serverOnNewConnection(t) \/ singleOnNewConnection(t)
    BY <1>0, <2>6 DEF acceptDataSocket, sslAcceptFails, serverOnNewConnection, singleOnNewConnection, Go, Dies,
       loopVars, connVars
  <2>7. QED
    BY <1>5, <2>1, <2>2, <2>3, <2>4, <2>5, <2>6 DEF Thread
<1>6. ASSUME \/ \E t \in Threads : expire(t)
             \/ Worker \/ startReturns \/ stopTimer \/ stopFlag \/ join \/ stopCalled
             \/ \E c \in conf.peers : Peer(c)
      PROVE  services' = services /\ pc' = pc
  BY <1>6 DEF expire, Worker, transferMsgToIOThread, notifySender, startReturns, stopTimer, stopFlag, join,
     stopCalled, Peer, peerConnects, peerAsks, peerHangsUp, loopVars, connVars
<1>7. CASE start
  BY <1>0, <1>7 DEF start, ServiceInv
<1>8. QED
  BY <1>1, <1>2, <1>3, <1>4, <1>5, <1>6, <1>7 DEF Next, Main

LEMMA NextConf ==
  ASSUME Next
  PROVE  conf' = conf
<1>1. ASSUME NEW t, Thread(t) PROVE conf' = conf
  BY <1>1 DEF Thread, connectToBegins, connectToEnds, clientSynced, setUpTCP, serverAwaits, FDEventLoopStart,
     timerEvent, channelEvent, dataEvent, acceptDataSocket, sslAcceptFails, serverOnNewConnection,
     singleOnNewConnection, addDataSocket, connect, onTimer, Dies
<1>2. QED
  BY <1>1 DEF Next, expire, Worker, transferMsgToIOThread, notifySender, Main, start, startReturns, stopTimer,
     stopFlag, join, stopCalled, Peer, peerConnects, peerAsks, peerHangsUp

LEMMA StutterIInv ==
  ASSUME IInv, ServiceInv, UNCHANGED vars
  PROVE  IInv' /\ ServiceInv'
<1>1. IInv'
  BY DEF IInv, TypeOK, ThreadTypes, ConnTypes, WorkerTypes, OtherTypes, Phases, Fits, Clients, Discipline, Tidy,
     vars, loopVars, connVars, workerVars, mainVars
<1>2. QED
  BY <1>1 DEF ServiceInv, vars, loopVars, connVars

(* Every thread is at a place that fits it, its loop is well formed, and    *)
(* what it reads of a channel it handles before the event is over.          *)
THEOREM ThreadsInv == Spec => [](IInv /\ ServiceInv)
<1>1. Init => IInv /\ ServiceInv
  BY InitIInv
<1>2. IInv /\ ServiceInv /\ [Next]_vars => (IInv /\ ServiceInv)'
  BY NextIInv, NextServices, StutterIInv
<1>3. QED
  BY <1>1, <1>2, PTL DEF Spec

-----------------------------------------------------------------------------
(* Starting together: m_syncStart counts each thread once. *)

Before == {"unborn", "run", "insert", "synced"}
Early == {"unborn", "run", "setUp"}

(* The server does not listen: not yet, or it could not be set up. *)
Deaf == pc[0] \in Early \/ SetUpFailed

(* The client threads that have their channels and notifiers in place. *)
Ready == {t \in Clients : pc[t] \notin Before}

CountInv ==
  conf.kind = "pool" /\ conf.newThread =>
    /\ sync.waiting = NumThreads(conf) + 1
    /\ sync.count <= Cardinality(Ready) + (IF Deaf THEN 0 ELSE 1)
    /\ main \notin {"new", "waitStart"} => Ready = Clients /\ ~Deaf

LEMMA ReadyFacts ==
  ASSUME IInv
  PROVE  /\ IsFiniteSet(Clients) /\ Cardinality(Clients) = NumThreads(conf)
         /\ \A S \in SUBSET Clients :
              /\ IsFiniteSet(S) /\ Cardinality(S) \in Nat /\ Cardinality(S) <= NumThreads(conf)
              /\ Cardinality(S) = NumThreads(conf) => S = Clients
              /\ \A T \in SUBSET S : Cardinality(T) <= Cardinality(S)
              /\ \A t \in Clients \ S : Cardinality(S \cup {t}) = Cardinality(S) + 1
<1>1. NumThreads(conf) \in Nat
  BY ThreadsKind
<1>2. IsFiniteSet(Clients) /\ Cardinality(Clients) = NumThreads(conf)
  BY <1>1, FS_Interval DEF Clients
<1>3. ASSUME NEW S \in SUBSET Clients
      PROVE  /\ IsFiniteSet(S) /\ Cardinality(S) \in Nat /\ Cardinality(S) <= NumThreads(conf)
             /\ Cardinality(S) = NumThreads(conf) => S = Clients
             /\ \A T \in SUBSET S : Cardinality(T) <= Cardinality(S)
             /\ \A t \in Clients \ S : Cardinality(S \cup {t}) = Cardinality(S) + 1
  <2>1. IsFiniteSet(S) /\ Cardinality(S) <= NumThreads(conf) /\ (Cardinality(S) = NumThreads(conf) => S = Clients)
    BY <1>2, FS_Subset
  <2>2. Cardinality(S) \in Nat
    BY <2>1, FS_CardinalityType
  <2>3. \A T \in SUBSET S : Cardinality(T) <= Cardinality(S)
    BY <2>1, FS_Subset
  <2>4. \A t \in Clients \ S : Cardinality(S \cup {t}) = Cardinality(S) + 1
    BY <2>1, FS_AddElement
  <2>5. QED
    BY <2>1, <2>2, <2>3, <2>4
<1>4. QED
  BY <1>2, <1>3

(* What is done to a loop does not open it again. *)
LEMMA EdgeClosed ==
  ASSUME NEW l \in Loops, NEW h
  PROVE  Edge(l, h).open = l.open /\ erase(l, h).open = l.open
  BY DEF Edge, erase, Loops

LEMMA AddClosed ==
  ASSUME NEW l \in Loops, NEW h, NEW p
  PROVE  add(l, h, p).open = l.open
<1> DEFINE k == [l EXCEPT !.added = @ \cup {h}]
<1>1. k.open = l.open /\ [k EXCEPT !.ready = Append(@, h)].open = l.open
  BY DEF Loops
<1>2. add(l, h, p) \in {l, k, [k EXCEPT !.ready = Append(@, h)]}
  BY DEF add, Edge
<1>3. QED
  BY <1>1, <1>2

LEMMA NotifyClosed ==
  ASSUME NEW l \in Loops, NEW ch, NEW e
  PROVE  notify(l, ch, e).open = l.open
<1> DEFINE k == [l EXCEPT !.pipe[ch] = Append(@, e)]
<1>1. k.open = l.open /\ [k EXCEPT !.ready = Append(@, ch)].open = l.open
  BY DEF Loops
<1>2. notify(l, ch, e) \in {k, [k EXCEPT !.ready = Append(@, ch)]}
  BY DEF notify, Edge
<1>3. QED
  BY <1>1, <1>2

LEMMA BatchClosed ==
  ASSUME NEW l \in Loops
  PROVE  Finished(l).open = l.open /\ epoll_wait(l).open = l.open /\ ~close(l).open
<1>1. ASSUME NEW b, NEW r
      PROVE  [l EXCEPT !.batch = b].open = l.open /\ [l EXCEPT !.batch = b, !.ready = r].open = l.open
  BY DEF Loops
<1>2. ~close(l).open
  BY DEF close, Loops
<1>3. QED
  BY <1>1, <1>2 DEF Finished, epoll_wait

LEMMA ReceiveClosed ==
  ASSUME NEW l \in Loops, NEW ch
  PROVE  Receive(l, ch).open = l.open
<1>1. ASSUME NEW b, NEW r
      PROVE  [l EXCEPT !.buf = b, !.pipe[ch] = r].open = l.open
  BY DEF Loops
<1>2. QED
  BY <1>1 DEF Receive

LEMMA TimerClosed ==
  ASSUME NEW l \in Loops
  PROVE  /\ \A r : startTimer(l, r).open = l.open
         /\ Expire(l).open = l.open
<1>1. \A r : startTimer(l, r).open = l.open
  BY DEF startTimer, Loops
<1>2. Expire(l).open = l.open
  <2> DEFINE k == [l EXCEPT !.timer = IF @ = "once" THEN "off" ELSE @]
  <2>1. k.open = l.open /\ [k EXCEPT !.ready = Append(@, "timer")].open = l.open
    BY DEF Loops
  <2>2. Expire(l) \in {k, [k EXCEPT !.ready = Append(@, "timer")]}
    BY DEF Expire, Edge
  <2>3. QED
    BY <2>1, <2>2
<1>3. QED
  BY <1>1, <1>2

(* A step that opens no loop. *)
NoneOpens == \A u \in Threads : loop'[u].open => loop[u].open

LEMMA OneOpens ==
  ASSUME IInv, NEW t \in Threads, NEW k, loop' = [loop EXCEPT ![t] = k], k.open => loop[t].open
  PROVE  NoneOpens
<1>1. loop \in [Threads -> Loops]
  BY DEF IInv, TypeOK, ThreadTypes
<1>2. loop'[t] = k /\ \A u \in Threads \ {t} : loop'[u] = loop[u]
  BY <1>1
<1>3. QED
  BY <1>2 DEF NoneOpens

LEMMA Registered ==
  ASSUME NEW l \in Loops, NEW h \in {"own", "sender", "timer", "listen"}, NEW p
  PROVE  add(l, h, p) \in Loops /\ add(l, h, p).open = l.open
<1>1. h \in Handlers
  BY DEF Handlers
<1>2. Calm(l, add(l, h, p))
  BY <1>1, AddCalm
<1>3. add(l, h, p).open = l.open
  BY AddClosed
<1>4. QED
  BY <1>2, <1>3 DEF Calm

LEMMA StartLoopClosed ==
  ASSUME NEW l \in Loops
  PROVE  StartLoop(l).open = l.open
<1> DEFINE k == add(l, "timer", FALSE)
<1>1. k \in Loops /\ k.open = l.open
  BY Registered
<1> HIDE DEF k
<1>2. startTimer(k, TRUE).open = l.open
  BY <1>1, TimerClosed
<1>3. StartLoop(l) \in {l, startTimer(k, TRUE)}
  BY DEF StartLoop, k
<1>4. QED
  BY <1>2, <1>3

LEMMA ThreadOpens ==
  ASSUME IInv, ServiceInv, NEW t \in Threads, Thread(t)
  PROVE  NoneOpens
<1> DEFINE l == loop[t]
<1>0. l \in Loops /\ \A u \in Threads : loop[u] \in Loops
  BY DEF IInv, TypeOK, ThreadTypes
<1>1. CASE loop' = loop
  BY <1>1 DEF NoneOpens
<1>2. CASE connectToEnds(t)
  <2> DEFINE k == add(l, "sender", FALSE)
             m == add(k, "own", l.pipe["own"] /= <<>>)
  <2>1. k \in Loops /\ k.open = l.open
    BY <1>0, Registered
  <2> HIDE DEF k
  <2>2. m.open = l.open
    BY <2>1, AddClosed
  <2> HIDE DEF m
  <2>3. loop' = [loop EXCEPT ![t] = IF t \in Clients THEN m ELSE k]
    BY <1>2 DEF connectToEnds, SetLoop, k, m
  <2>4. (IF t \in Clients THEN m ELSE k).open => l.open
    BY <2>1, <2>2
  <2>5. QED
    BY <2>3, <2>4, OneOpens
<1>3. CASE clientSynced(t) \/ serverAwaits(t) \/ connect(t)
  <2>1. loop' = loop \/ loop' = [loop EXCEPT ![t] = StartLoop(l)]
    BY <1>3 DEF clientSynced, serverAwaits, connect, connectToTCP, SetLoop
  <2>2. QED
    BY <1>0, <1>1, <2>1, StartLoopClosed, OneOpens
<1>4. CASE setUpTCP(t)
  <2> DEFINE k == add(l, "listen", FALSE)
  <2>1. k \in Loops /\ k.open = l.open
    BY <1>0, Registered
  <2>2. loop' = loop \/ loop' = [loop EXCEPT ![t] = k] \/ loop' = [loop EXCEPT ![t] = StartLoop(k)]
    BY <1>4 DEF setUpTCP, ServerThreadRun, ServerSingleThreadRun, SetLoop
  <2> HIDE DEF k
  <2>3. StartLoop(k).open = l.open
    BY <2>1, StartLoopClosed
  <2>4. QED
    BY <1>1, <2>1, <2>2, <2>3, OneOpens
<1>5. CASE FDEventLoopStart(t) \/ timerEvent(t)
  <2>1. loop' = loop \/ \E k \in {epoll_wait(l), close(l), Finished(l)} : loop' = [loop EXCEPT ![t] = k]
    BY <1>5 DEF FDEventLoopStart, timerEvent, SetLoop
  <2>2. \A k \in {epoll_wait(l), close(l), Finished(l)} : k.open => l.open
    BY <1>0, BatchClosed
  <2>3. QED
    BY <1>1, <2>1, <2>2, OneOpens
<1>6. ASSUME NEW ch \in {"own", "sender"}, channelEvent(t, ch) PROVE NoneOpens
  <2>1. PICK k : k = IF l.buf = <<>> THEN Receive(l, ch) ELSE l
    OBVIOUS
  <2>2. k \in Loops /\ k.open = l.open
    <3>1. Receive(l, ch) \in Loops /\ Receive(l, ch).open = l.open
      BY <1>0, ReceiveStep, ReceiveClosed DEF Channels
    <3>2. QED
      BY <1>0, <2>1, <3>1
  <2>3. PICK m : m = [k EXCEPT !.buf = Tail(@)]
    OBVIOUS
  <2>4. m.open = l.open /\ (k.buf # <<>> => m \in Loops)
    <3>1. m.open = k.open
      BY <2>2, <2>3 DEF Loops
    <3>2. k.buf # <<>> => m \in Loops
      BY <2>2, <2>3, PopBuffer
    <3>3. QED
      BY <2>2, <3>1, <3>2
  <2>5. \/ loop' = [loop EXCEPT ![t] = Finished(k)]
        \/ k.buf # <<>> /\ loop' = [loop EXCEPT ![t] = Opened(m, Head(k.buf))]
        \/ loop' = [loop EXCEPT ![t] = m]
    BY <1>6, <2>1, <2>3 DEF channelEvent, SetLoop
  <2>6. Finished(k).open = l.open /\ (k.buf # <<>> => Opened(m, Head(k.buf)).open = l.open)
    <3>1. Finished(k).open = l.open
      BY <2>2, BatchClosed
    <3>2. ASSUME k.buf # <<>>, NEW c PROVE Opened(m, c).open = l.open
      BY <2>4, <3>2, AddClosed DEF Opened
    <3>3. QED
      BY <3>1, <3>2
  <2>7. QED
    BY <2>4, <2>5, <2>6, OneOpens
<1>7. ASSUME NEW c \in Conns, dataEvent(t, c) PROVE NoneOpens
  <2>1. \/ loop' = loop \/ loop' = [loop EXCEPT ![t] = Finished(l)]
        \/ loop' = [loop EXCEPT ![t] = erase(Finished(l), c)]
    BY <1>7 DEF dataEvent, Dies, loopVars, SetLoop
  <2>2. Finished(l) \in Loops /\ Finished(l).open = l.open
    <3>1. l.batch # <<>>
      BY <1>7, EventFacts DEF dataEvent
    <3>2. Finished(l) \in Loops
      BY <1>0, <3>1, FinishedStep
    <3>3. QED
      BY <1>0, <3>2, BatchClosed
  <2>3. erase(Finished(l), c).open = l.open
    BY <2>2, EdgeClosed
  <2>4. QED
    BY <1>1, <2>1, <2>2, <2>3, OneOpens
<1>8. CASE acceptDataSocket(t) \/ sslAcceptFails(t) \/ serverOnNewConnection(t) \/ singleOnNewConnection(t)
  <2>1. PICK u : u = (turn % NumThreads(conf)) + 1
    OBVIOUS
  <2>2. \/ loop' = loop \/ loop' = [loop EXCEPT ![t] = Finished(l)]
        \/ loop' = [loop EXCEPT ![u] = notify(loop[u], "own", cur[t])]
    BY <1>8, <2>1 DEF acceptDataSocket, sslAcceptFails, serverOnNewConnection, singleOnNewConnection, Dies, loopVars, SetLoop
  <2>3. Finished(l).open = l.open
    BY <1>0, BatchClosed
  <2>4. CASE u \in Threads
    <3>1. PICK k : k = notify(loop[u], "own", cur[t])
      OBVIOUS
    <3>2. k.open = loop[u].open
      BY <1>0, <2>4, <3>1, NotifyClosed
    <3>3. CASE loop' = [loop EXCEPT ![u] = k]
      BY <2>4, <3>2, <3>3, OneOpens
    <3>4. CASE loop' = [loop EXCEPT ![t] = Finished(l)]
      BY <2>3, <3>4, OneOpens
    <3>5. QED
      BY <1>1, <2>2, <3>1, <3>3, <3>4
  <2>5. CASE u \notin Threads
    <3>1. loop \in [Threads -> Loops]
      BY DEF IInv, TypeOK, ThreadTypes
    <3>2. \A k : [loop EXCEPT ![u] = k] = loop
      BY <2>5, <3>1
    <3>3. CASE loop' = [loop EXCEPT ![t] = Finished(l)]
      BY <2>3, <3>3, OneOpens
    <3>4. QED
      BY <1>1, <2>2, <3>2, <3>3
  <2>6. QED
    BY <2>4, <2>5
<1>9. CASE addDataSocket(t)
  <2>1. PICK k : k = Opened(l, cur[t])
    OBVIOUS
  <2>2. loop' = [loop EXCEPT ![t] = k]
    BY <1>9, <2>1 DEF addDataSocket, SetLoop
  <2>3. k.open = l.open
    BY <1>0, <2>1, AddClosed DEF Opened
  <2>4. QED
    BY <2>2, <2>3, OneOpens
<1>10. CASE connectToBegins(t) \/ onTimer(t)
  BY <1>1, <1>10 DEF connectToBegins, onTimer
<1>11. QED
  BY <1>2, <1>3, <1>4, <1>5, <1>6, <1>7, <1>8, <1>9, <1>10 DEF Thread

LEMMA OtherOpens ==
  ASSUME IInv, \/ \E t \in Threads : expire(t)
               \/ Worker \/ stopTimer \/ stopFlag \/ join \/ stopCalled
               \/ \E c \in conf.peers : Peer(c)
  PROVE  NoneOpens
<1>0. loop \in [Threads -> Loops] /\ \A t \in Threads : loop[t] \in Loops
  BY DEF IInv, TypeOK, ThreadTypes
<1>1. CASE loop' = loop
  BY <1>1 DEF NoneOpens
<1>2. ASSUME NEW t \in Threads, expire(t) PROVE NoneOpens
  <2>1. loop' = [loop EXCEPT ![t] = Expire(loop[t])] /\ Expire(loop[t]).open = loop[t].open
    BY <1>0, <1>2, TimerClosed DEF expire, SetLoop
  <2>2. QED
    BY <2>1, OneOpens
<1>3. CASE Worker
  <2>1. PICK t, k : t = conn[busy].t /\ k = notify(loop[t], "sender", busy)
    OBVIOUS
  <2>2. loop' = loop \/ (busy \in Conns /\ loop' = [loop EXCEPT ![t] = k])
    BY <1>3, <2>1 DEF Worker, transferMsgToIOThread, notifySender, SetLoop, loopVars, IInv, TypeOK, WorkerTypes
  <2>3. busy \in Conns => t \in Threads /\ k.open = loop[t].open
    <3>1. busy \in Conns => t \in Threads
      BY <2>1 DEF IInv, TypeOK, ConnTypes, Connections
    <3>2. QED
      BY <1>0, <2>1, <3>1, NotifyClosed
  <2>4. QED
    BY <1>1, <2>2, <2>3, OneOpens
<1>4. CASE stopTimer \/ stopFlag
  <2>1. PICK t : t = StopThread
    OBVIOUS
  <2>2. t \in Threads
    BY <2>1, StopThreadType
  <2>3. PICK k : k = add(loop[t], "timer", FALSE)
    OBVIOUS
  <2>4. k \in Loops /\ k.open = loop[t].open
    BY <1>0, <2>2, <2>3, Registered
  <2>5. \/ loop' = [loop EXCEPT ![t] = startTimer(k, FALSE)]
        \/ loop' = [loop EXCEPT ![t] = [loop[t] EXCEPT !.m_stop = TRUE]]
    BY <1>4, <2>1, <2>3 DEF stopTimer, stopFlag, SetLoop
  <2>6. startTimer(k, FALSE).open = loop[t].open /\ [loop[t] EXCEPT !.m_stop = TRUE].open = loop[t].open
    BY <1>0, <2>2, <2>4, TimerClosed DEF Loops
  <2>7. QED
    BY <2>2, <2>5, <2>6, OneOpens
<1>5. CASE join \/ stopCalled
  BY <1>1, <1>5 DEF join, stopCalled, loopVars
<1>6. ASSUME NEW c, Peer(c) PROVE NoneOpens
  <2>1. \E h : loop' = [t \in Threads |-> Edge(loop[t], h)]
    BY <1>6 DEF Peer, peerConnects, peerAsks, peerHangsUp, Edges
  <2>2. QED
    BY <1>0, <2>1, EdgeClosed DEF NoneOpens
<1>7. QED
  BY <1>2, <1>3, <1>4, <1>5, <1>6

(* A step that moves no client thread back to where it is not ready, nor the *)
(* server back to where it does not listen.                                  *)
Onward ==
  /\ \A u \in Clients : pc'[u] \in Before => pc[u] \in Before
  /\ Deaf' => Deaf

LEMMA CountKept ==
  ASSUME IInv, CountInv, conf' = conf, Onward, sync' = sync,
         main' \notin {"new", "waitStart"} => main \notin {"new", "waitStart"}
  PROVE  CountInv'
<1> SUFFICES ASSUME conf.kind = "pool", conf.newThread PROVE CountInv'
  BY DEF CountInv
<1>1. Ready \subseteq Ready' /\ Ready' \subseteq Clients /\ Clients' = Clients
  BY DEF Ready, Onward, Clients
<1>2. Cardinality(Ready) \in Nat /\ Cardinality(Ready') \in Nat /\ Cardinality(Ready) <= Cardinality(Ready')
  BY <1>1, ReadyFacts
<1>3. sync.count \in Nat
  BY DEF IInv, TypeOK, OtherTypes
<1>4. sync'.count <= Cardinality(Ready') + (IF Deaf' THEN 0 ELSE 1)
  BY <1>2, <1>3 DEF CountInv, Onward
<1>5. main' \notin {"new", "waitStart"} => Ready' = Clients' /\ ~Deaf'
  BY <1>1 DEF CountInv, Onward
<1>6. QED
  BY <1>4, <1>5 DEF CountInv

LEMMA ThreadOnward ==
  ASSUME IInv, ServiceInv, NEW t \in Threads, Thread(t), conf.kind = "pool"
  PROVE  Onward
<1>0. pc \in [Threads -> Places] /\ Clients \subseteq Threads /\ 0 \in Threads
  BY ThreadsKind DEF IInv, TypeOK, ThreadTypes
<1>open. loop'[0].open => loop[0].open
  BY <1>0, ThreadOpens DEF NoneOpens
<1>1. ASSUME NEW x, pc' = [pc EXCEPT ![t] = x],
             x \in Before => pc[t] \in Before, x \in Early => pc[t] \in Early,
             x = "done" => ~loop'[t].open \/ pc[t] \in Early
      PROVE  Onward
  <2>1. \A u \in Clients : pc'[u] \in Before => pc[u] \in Before
    BY <1>0, <1>1
  <2>2. Deaf' => Deaf
    <3>1. CASE t = 0
      BY <1>0, <1>1, <1>open, <3>1 DEF Deaf, SetUpFailed, Early
    <3>2. CASE t # 0
      BY <1>0, <1>1, <1>open, <3>2 DEF Deaf, SetUpFailed
    <3>3. QED
      BY <3>1, <3>2
  <2>3. QED
    BY <2>1, <2>2 DEF Onward
<1>2. CASE pc' = pc
  BY <1>2, <1>open DEF Onward, Deaf, SetUpFailed
<1>3. CASE connectToBegins(t)
  <2>1. pc[t] = "run" /\ pc' = [pc EXCEPT ![t] = IF t = 0 THEN "setUp" ELSE "insert"]
    BY <1>3 DEF connectToBegins, Go
  <2>2. QED
    BY <1>1, <2>1 DEF Before, Early
<1>4. CASE connectToEnds(t)
  <2>1. t \in Clients
    BY <1>4, SameThread DEF connectToEnds, Fits
  <2>2. pc[t] = "insert" /\ pc' = [pc EXCEPT ![t] = "synced"]
    BY <1>4, <2>1 DEF connectToEnds, Go
  <2>3. QED
    BY <1>1, <2>2 DEF Before, Early
<1>5. CASE clientSynced(t) \/ serverAwaits(t)
  BY <1>1, <1>5 DEF clientSynced, serverAwaits, Go, Before, Early
<1>6. CASE setUpTCP(t)
  BY <1>1, <1>6 DEF setUpTCP, ServerThreadRun, ServerSingleThreadRun, Go, Before, Early
<1>7. CASE FDEventLoopStart(t) \/ timerEvent(t)
  <2>1. loop \in [Threads -> Loops]
    BY DEF IInv, TypeOK, ThreadTypes
  <2>2. ~[loop EXCEPT ![t] = close(loop[t])][t].open
    BY <2>1, BatchClosed
  <2>3. \E x \in {"wait", "batch", "onTimer", "done"} :
           pc' = [pc EXCEPT ![t] = x] /\ (x = "done" => loop' = [loop EXCEPT ![t] = close(loop[t])])
    BY <1>7 DEF FDEventLoopStart, timerEvent, Go, SetLoop
  <2>4. QED
    BY <1>1, <2>2, <2>3 DEF Before, Early
<1>8. CASE \E ch \in {"own", "sender"} : channelEvent(t, ch)
  BY <1>2, <1>8 DEF channelEvent
<1>9. CASE \E c \in Conns : dataEvent(t, c)
  BY <1>2, <1>9 DEF dataEvent, Dies, loopVars
<1>10. CASE acceptDataSocket(t) \/ sslAcceptFails(t) \/ serverOnNewConnection(t) \/ singleOnNewConnection(t)
  BY <1>1, <1>2, <1>10 DEF acceptDataSocket, sslAcceptFails, serverOnNewConnection, singleOnNewConnection, Go, Dies,
     loopVars, Before, Early
<1>11. CASE addDataSocket(t) \/ connect(t) \/ onTimer(t)
  BY <1>11, AddSocketStep, ConnectStep, OnTimerStep
<1>12. QED
  BY <1>3, <1>4, <1>5, <1>6, <1>7, <1>8, <1>9, <1>10, <1>11 DEF Thread

LEMMA CountStep ==
  ASSUME IInv, ServiceInv, CountInv, Next
  PROVE  CountInv'
<1> SUFFICES ASSUME conf.kind = "pool", conf.newThread PROVE CountInv'
  BY NextConf DEF CountInv
<1>0. pc \in [Threads -> Places] /\ Clients \subseteq Threads /\ 0 \in Threads /\ 0 \notin Clients
      /\ sync \in [count : Nat, waiting : Nat] /\ conf' = conf /\ Clients' = Clients /\ NumThreads(conf) \in Nat
  BY ThreadsKind, NextConf DEF IInv, TypeOK, ThreadTypes, OtherTypes, Clients
<1>1. CASE start
  <2>1. main = "new" /\ main' = "waitStart" /\ sync' = sync
    BY <1>1, ConfigAssumption DEF start
  <2>2. \A t \in Clients \cup {0} : pc[t] = "unborn" /\ pc'[t] = "run"
    BY <1>0, <1>1, <2>1 DEF start, IInv, Phases
  <2>3. Onward
    BY <2>2 DEF Onward, Before, Early, Deaf
  <2>4. QED
    BY <1>0, <2>1, <2>3, CountKept
<1>2. CASE startReturns
  <2>1. /\ pc' = pc /\ sync' = sync /\ main' = "started"
        /\ (main = "waitStart" /\ waitOver(sync)) \/ main \notin {"new", "waitStart"}
    BY <1>2 DEF startReturns, loopVars
  <2>2. Ready' = Ready /\ Ready \subseteq Clients /\ Deaf' = Deaf
    BY <1>0, <1>2, <2>1 DEF Ready, Deaf, SetUpFailed, startReturns, loopVars
  <2>3. Cardinality(Ready) \in Nat /\ Cardinality(Ready) <= NumThreads(conf)
        /\ (Cardinality(Ready) = NumThreads(conf) => Ready = Clients)
    BY <2>2, ReadyFacts
  <2>4. main = "waitStart" /\ waitOver(sync) => Cardinality(Ready) = NumThreads(conf) /\ ~Deaf
    BY <1>0, <2>3 DEF CountInv, waitOver
  <2>5. Ready = Clients /\ ~Deaf
    BY <2>1, <2>3, <2>4 DEF CountInv
  <2>6. QED
    BY <1>0, <2>1, <2>2, <2>5 DEF CountInv
<1>3. ASSUME NEW t \in Threads, clientSynced(t) PROVE CountInv'
  <2>1. pc[t] = "synced" /\ pc' = [pc EXCEPT ![t] = "wait"] /\ sync' = increment(sync) /\ main' = main
    BY <1>3 DEF clientSynced, Go
  <2>2. t \in Clients /\ t # 0
    BY <1>0, <2>1, SameThread DEF Fits
  <2>3. Ready' = Ready \cup {t} /\ t \in Clients \ Ready /\ Ready \subseteq Clients
    BY <1>0, <2>1, <2>2 DEF Ready, Before
  <2>4. Cardinality(Ready') = Cardinality(Ready) + 1 /\ Cardinality(Ready) \in Nat
    BY <2>3, ReadyFacts
  <2>5. sync'.waiting = sync.waiting /\ sync'.count = sync.count + 1 /\ Deaf' = Deaf
    <3>1. pc'[0] = pc[0] /\ loop'[0] = loop[0]
      BY <1>0, <1>3, <2>1, <2>2 DEF clientSynced, SetLoop, IInv, TypeOK, ThreadTypes
    <3>2. QED
      BY <1>0, <2>1, <3>1 DEF increment, Deaf, SetUpFailed
  <2>6. sync'.count <= Cardinality(Ready') + (IF Deaf' THEN 0 ELSE 1)
    BY <1>0, <2>4, <2>5 DEF CountInv
  <2>7. main' \notin {"new", "waitStart"} => Ready' = Clients /\ ~Deaf'
    BY <2>1, <2>3, <2>5 DEF CountInv
  <2>8. QED
    BY <1>0, <2>5, <2>6, <2>7 DEF CountInv
<1>4. ASSUME NEW t \in Threads, setUpTCP(t) PROVE CountInv'
  <2>1. pc[t] = "setUp" /\ main' = main
    BY <1>4 DEF setUpTCP
  <2>2. t = 0
    BY <2>1, SameThread DEF Fits
  <2>3. CASE sync' = sync
    BY <1>0, <1>4, <2>1, <2>3, ThreadOnward, CountKept DEF Thread
  <2>4. CASE sync' # sync
    <3>1. sync' = increment(sync) /\ pc' = [pc EXCEPT ![t] = "wait"]
      BY <1>4, <2>4 DEF setUpTCP, ServerThreadRun, ServerSingleThreadRun, Go
    <3>2. Ready' = Ready /\ Ready \subseteq Clients
      BY <1>0, <2>2, <3>1 DEF Ready
    <3>3. Cardinality(Ready) \in Nat
      BY <3>2, ReadyFacts
    <3>4. sync'.waiting = sync.waiting /\ sync'.count = sync.count + 1 /\ Deaf /\ ~Deaf'
      BY <1>0, <2>1, <2>2, <3>1 DEF increment, Early, Deaf, SetUpFailed
    <3>5. sync'.count <= Cardinality(Ready') + (IF Deaf' THEN 0 ELSE 1)
      BY <1>0, <3>2, <3>3, <3>4 DEF CountInv
    <3>6. QED
      BY <1>0, <2>1, <3>2, <3>4, <3>5 DEF CountInv
  <2>5. QED
    BY <2>3, <2>4
<1>5. ASSUME NEW t \in Threads, Thread(t), ~clientSynced(t), ~setUpTCP(t) PROVE CountInv'
  <2>1. sync' = sync /\ main' = main
    BY <1>5 DEF Thread, connectToBegins, connectToEnds, serverAwaits, FDEventLoopStart, timerEvent, channelEvent,
       dataEvent, acceptDataSocket, sslAcceptFails, serverOnNewConnection, singleOnNewConnection, addDataSocket,
       connect, onTimer, Dies, mainVars
  <2>2. QED
    BY <1>0, <1>5, <2>1, ThreadOnward, CountKept
<1>6. ASSUME \/ \E t \in Threads : expire(t)
             \/ Worker \/ stopTimer \/ stopFlag \/ join \/ stopCalled
             \/ \E c \in conf.peers : Peer(c)
      PROVE  CountInv'
  <2>1. sync' = sync /\ pc' = pc /\ (main' \notin {"new", "waitStart"} => main \notin {"new", "waitStart"})
    BY <1>6 DEF expire, Worker, transferMsgToIOThread, notifySender, stopTimer, stopFlag, join,
       stopCalled, Peer, peerConnects, peerAsks, peerHangsUp, loopVars, mainVars
  <2>2. NoneOpens
    BY <1>6, OtherOpens
  <2>3. QED
    BY <1>0, <2>1, <2>2, CountKept DEF Onward, Deaf, SetUpFailed, NoneOpens
<1>7. QED
  BY <1>1, <1>2, <1>3, <1>4, <1>5, <1>6 DEF Next, Main

(* When start() has returned with a thread of its own, every client thread  *)
(* has its channels and notifiers in place and the server listens, however  *)
(* many threads there are.                                                  *)
THEOREM ReadyAtStart == Spec => []StartedWhenReady
<1>1. ASSUME Init PROVE CountInv
  <2>0. IInv
    BY <1>1, InitIInv
  <2>1. NumThreads(conf) \in Nat /\ conf.n \in Nat /\ Ready \subseteq Clients /\ Cardinality({}) = 0
    BY <2>0, ThreadsKind, ConfigAssumption, ConnsAssumption, FS_EmptySet DEF Ready, IInv, TypeOK, ThreadTypes
  <2>2. Cardinality(Ready) \in Nat
    BY <2>0, <2>1, ReadyFacts
  <2>3. conf.kind = "pool" /\ conf.newThread => sync.waiting = NumThreads(conf) + 1 /\ sync.count = 0
    BY <1>1 DEF Init, ServerThreadSync, update, WaitForCount
  <2>4. QED
    BY <1>1, <2>2, <2>3 DEF CountInv, Init
<1>2. CountInv /\ UNCHANGED vars => CountInv'
  BY DEF CountInv, Ready, Clients, Deaf, SetUpFailed, vars, loopVars, mainVars
<1>3. IInv /\ ServiceInv /\ CountInv /\ [Next]_vars => CountInv'
  BY <1>2, CountStep
<1>4. CountInv => StartedWhenReady
  BY DEF CountInv, StartedWhenReady, Ready, Before, Deaf, Early
<1>5. QED
  BY <1>1, <1>3, <1>4, ThreadsInv, PTL DEF Spec

-----------------------------------------------------------------------------
(* Handing over and opening: what a step does to the connections.          *)

Adding == {"add", "addFirst", "addAgain"}

(* No connection is handed over or opened. *)
Idles ==
  /\ Quiet /\ UNCHANGED <<handed, opened, turn>>
  /\ conf.kind # "pool" => /\ pc'[0] \in Adding <=> pc[0] \in Adding
                           /\ pc[0] \in Adding => cur'[0] = cur[0]

(* The server hands connection c to the thread whose turn it is. *)
HandsOver(c) ==
  /\ conf.kind = "pool" /\ NumThreads(conf) # 0 /\ (turn % NumThreads(conf)) + 1 \in Clients
  /\ Hands((turn % NumThreads(conf)) + 1, c)
  /\ turn' = (turn % NumThreads(conf)) + 1 /\ handed' = Append(handed, c) /\ opened' = opened

(* A thread that serves its connections itself takes one in hand. *)
TakesUp(c) ==
  /\ conf.kind # "pool" /\ Quiet /\ pc[0] \notin Adding /\ pc'[0] \in Adding /\ cur'[0] = c
  /\ handed' = Append(handed, c) /\ opened' = opened

(* ... and registers it. *)
PutsDown(c) ==
  /\ conf.kind # "pool" /\ Registers(0, c) /\ pc[0] \in Adding /\ pc'[0] \notin Adding /\ cur[0] = c
  /\ opened' = [opened EXCEPT ![0] = Append(@, c)] /\ handed' = handed

Flow ==
  \/ Idles
  \/ \E t \in Threads, c \in Conns : OpensNext(t, c) /\ UNCHANGED <<handed, turn>>
  \/ \E c \in Conns : HandsOver(c) \/ TakesUp(c) \/ PutsDown(c)

(* Without a pool there is only thread 0. *)
LEMMA OnlyServer ==
  ASSUME IInv, conf.kind # "pool", NEW t \in Threads, pc[t] # "unborn"
  PROVE  t = 0
  BY SameThread, ThreadsKind

LEMMA FlowStarts ==
  ASSUME IInv, NEW t \in Threads,
         \/ connectToBegins(t) \/ connectToEnds(t) \/ clientSynced(t) \/ setUpTCP(t)
         \/ serverAwaits(t) \/ FDEventLoopStart(t) \/ timerEvent(t)
  PROVE  Idles
<1>1. Quiet
  BY ConnectToBeginsStep, ConnectToEndsStep, ClientSyncedStep, SetUpStep, ServerAwaitsStep, LoopStartStep,
     TimerEventStep
<1>2. UNCHANGED <<handed, opened, turn>> /\ cur' = cur
  BY DEF connectToBegins, connectToEnds, clientSynced, setUpTCP, serverAwaits, FDEventLoopStart, timerEvent,
     connVars
<1>3. pc \in [Threads -> Places] /\ 0 \in Threads
  BY ThreadsKind DEF IInv, TypeOK, ThreadTypes
<1>4. \E x \in Places \ Adding : pc' = [pc EXCEPT ![t] = x]
  <2>1. CASE connectToBegins(t) \/ connectToEnds(t) \/ clientSynced(t) \/ serverAwaits(t)
    BY <2>1 DEF connectToBegins, connectToEnds, clientSynced, serverAwaits, Go, Places, Adding
  <2>2. CASE setUpTCP(t)
    BY <2>2 DEF setUpTCP, ServerThreadRun, ServerSingleThreadRun, Go, Places, Adding
  <2>3. CASE FDEventLoopStart(t) \/ timerEvent(t)
    BY <2>3 DEF FDEventLoopStart, timerEvent, Go, Places, Adding
  <2>4. QED
    BY <2>1, <2>2, <2>3
<1>5. pc[t] \notin Adding
  BY DEF connectToBegins, connectToEnds, clientSynced, setUpTCP, serverAwaits, FDEventLoopStart, timerEvent,
     Event, Adding
<1>6. QED
  BY <1>1, <1>2, <1>3, <1>4, <1>5 DEF Idles

LEMMA FlowEvents ==
  ASSUME IInv, NEW t \in Threads,
         \/ \E ch \in {"own", "sender"} : channelEvent(t, ch)
         \/ \E c \in Conns : dataEvent(t, c)
         \/ acceptDataSocket(t) \/ sslAcceptFails(t)
  PROVE  Flow
<1>3. pc \in [Threads -> Places] /\ 0 \in Threads /\ cur \in [Threads -> Conns \cup {None}]
  BY ThreadsKind DEF IInv, TypeOK, ThreadTypes
<1>4. ASSUME NEW ch \in {"own", "sender"}, channelEvent(t, ch) PROVE Flow
  <2>1. UNCHANGED <<handed, turn, pc, cur>>
    BY <1>4 DEF channelEvent
  <2>2. (\E c \in Conns : OpensNext(t, c)) \/ (Quiet /\ opened' = opened)
    BY <1>4, ChannelStep DEF Channels
  <2>3. QED
    BY <2>1, <2>2 DEF Flow, Idles
<1>5. ASSUME NEW c \in Conns, dataEvent(t, c) PROVE Idles
  <2>1. Quiet
    BY <1>5, DataStep
  <2>2. UNCHANGED <<handed, opened, turn, pc, cur>>
    BY <1>5 DEF dataEvent, Dies, loopVars, connVars
  <2>3. QED
    BY <2>1, <2>2 DEF Idles
<1>6. CASE acceptDataSocket(t) \/ sslAcceptFails(t)
  <2>1. Quiet
    BY <1>6, AcceptStep, SslStep
  <2>2. UNCHANGED <<handed, opened, turn>> /\ pc[t] \notin Adding
    BY <1>6 DEF acceptDataSocket, sslAcceptFails, Event, Adding
  <2>3. \/ pc' = pc /\ cur' = cur
        \/ \E x \in {"onNew", "batch"}, c \in Conns \cup {None} :
             pc' = [pc EXCEPT ![t] = x] /\ cur' = [cur EXCEPT ![t] = c]
    <3>1. CASE sslAcceptFails(t)
      BY <1>3, <3>1, SameThread DEF sslAcceptFails, Go
    <3>2. CASE acceptDataSocket(t) /\ backlog = <<>>
      BY <3>2 DEF acceptDataSocket
    <3>3. CASE acceptDataSocket(t) /\ backlog # <<>>
      <4>1. Head(backlog) \in Conns
        BY <3>3 DEF IInv, TypeOK, ConnTypes
      <4>2. QED
        BY <3>3, <4>1 DEF acceptDataSocket, Go
    <3>4. QED
      BY <1>6, <3>1, <3>2, <3>3
  <2>4. QED
    BY <1>3, <2>1, <2>2, <2>3 DEF Flow, Idles, Adding
<1>7. QED
  BY <1>4, <1>5, <1>6 DEF Flow

LEMMA FlowHands ==
  ASSUME IInv, ServiceInv, NEW t \in Threads,
         serverOnNewConnection(t) \/ singleOnNewConnection(t) \/ addDataSocket(t) \/ connect(t) \/ onTimer(t)
  PROVE  Flow
<1>1. pc \in [Threads -> Places] /\ 0 \in Threads /\ cur \in [Threads -> Conns \cup {None}]
  BY ThreadsKind DEF IInv, TypeOK, ThreadTypes
<1>2. CASE serverOnNewConnection(t)
  <2>1. conf.kind = "pool" /\ cur[t] \in Conns
    BY <1>2, InHand DEF serverOnNewConnection, HasConn
  <2>2. CASE Dies("modulo") /\ Quiet
    BY <2>1, <2>2 DEF Flow, Idles, Dies, connVars
  <2>3. CASE /\ (turn % NumThreads(conf)) + 1 \in Clients /\ NumThreads(conf) # 0
             /\ Hands((turn % NumThreads(conf)) + 1, cur[t])
    <3>1. turn' = (turn % NumThreads(conf)) + 1 /\ handed' = Append(handed, cur[t]) /\ opened' = opened
      BY <1>2, <2>3 DEF serverOnNewConnection
    <3>2. HandsOver(cur[t])
      BY <2>1, <2>3, <3>1 DEF HandsOver
    <3>3. QED
      BY <2>1, <3>2 DEF Flow
  <2>4. QED
    BY <1>2, <2>2, <2>3, HandOverStep
<1>3. CASE singleOnNewConnection(t)
  <2>1. /\ conf.kind # "pool" /\ Quiet /\ cur[t] \in Conns /\ pc[t] = "onNew"
    BY <1>3, SingleStep, InHand DEF singleOnNewConnection, HasConn
  <2>2. t = 0
    BY <2>1, OnlyServer
  <2>3. TakesUp(cur[t])
    BY <1>1, <1>3, <2>1, <2>2 DEF TakesUp, singleOnNewConnection, Go, Adding
  <2>4. QED
    BY <2>1, <2>3 DEF Flow
<1>4. CASE addDataSocket(t)
  <2>1. Registers(t, cur[t]) /\ cur[t] \in Conns /\ t = 0 /\ conf.kind # "pool"
    BY <1>4, AddSocketStep
  <2>2. PutsDown(cur[t])
    BY <1>1, <1>4, <2>1 DEF PutsDown, addDataSocket, Go, Adding
  <2>3. QED
    BY <2>1, <2>2 DEF Flow
<1>5. CASE connect(t)
  <2>1. Quiet /\ t = 0 /\ conf.kind # "pool"
    BY <1>5, ConnectStep
  <2>2. pc[0] \notin Adding /\ turn' = turn /\ opened' = opened
    BY <1>5, <2>1 DEF connect, Adding
  <2>3. CASE connectToTCP(t) /\ handed' # handed
    <3> DEFINE c == services.list[services.at]
    <3>1. c \in Conns
      <4>1. services \in [list : Seq(Conns), at : Nat \ {0}] /\ services.at <= Len(services.list)
        BY <2>3 DEF connectToTCP, IInv, TypeOK, ConnTypes
      <4>2. QED
        BY <4>1
    <3>2. /\ cur' = [cur EXCEPT ![t] = c] /\ handed' = Append(handed, c)
          /\ pc' = [pc EXCEPT ![t] = IF pc[t] = "connect" THEN "addFirst" ELSE "addAgain"]
      BY <2>3 DEF connectToTCP, Go
    <3> HIDE DEF c
    <3>3. TakesUp(c)
      BY <1>1, <2>1, <2>2, <3>1, <3>2 DEF TakesUp, Adding
    <3>4. QED
      BY <3>1, <3>3 DEF Flow
  <2>4. CASE handed' = handed
    <3>1. pc'[0] \notin Adding
      BY <1>1, <1>5, <2>1, <2>2, <2>4, AppendChanges DEF connect, connectToTCP, Go, Adding, IInv, TypeOK, ConnTypes
    <3>2. QED
      BY <2>1, <2>2, <2>4, <3>1 DEF Flow, Idles
  <2>5. QED
    BY <1>5, <2>3, <2>4 DEF connect
<1>6. CASE onTimer(t)
  <2>1. Quiet /\ t = 0
    BY <1>6, OnTimerStep
  <2>2. QED
    BY <1>1, <1>6, <2>1 DEF onTimer, Go, Flow, Idles, Adding
<1>7. QED
  BY <1>2, <1>3, <1>4, <1>5, <1>6

LEMMA NextFlow ==
  ASSUME IInv, ServiceInv, Next
  PROVE  Flow
<1>1. ASSUME NEW t \in Threads, Thread(t) PROVE Flow
  BY <1>1, FlowStarts, FlowEvents, FlowHands DEF Thread, Flow
<1>2. ASSUME NEW c \in conf.peers, Peer(c) PROVE Flow
  <2>1. Quiet
    BY <1>2, PeerStep, ThreadsKind
  <2>2. QED
    BY <1>2, <2>1 DEF Flow, Idles, Peer, peerConnects, peerAsks, peerHangsUp
<1>3. CASE start
  <2>1. Quiet /\ 0 \in Threads
    BY <1>3, StartStep, ThreadsKind
  <2>2. pc[0] \notin Adding /\ pc'[0] \notin Adding
    BY <1>3, <2>1 DEF start, IInv, Phases, Adding
  <2>3. QED
    BY <1>3, <2>1, <2>2 DEF Flow, Idles, start, connVars
<1>4. CASE Worker \/ startReturns \/ stopTimer \/ stopFlag \/ join \/ stopCalled \/ \E t \in Threads : expire(t)
  <2>1. Quiet
    BY <1>4, AsideStep, NotifySenderStep, StopTimerStep, StopFlagStep, ExpireStep DEF Worker
  <2>2. UNCHANGED <<handed, opened, turn, pc, cur>>
    BY <1>4 DEF Worker, transferMsgToIOThread, notifySender, startReturns, stopTimer, stopFlag, join, stopCalled,
       expire, connVars, loopVars
  <2>3. QED
    BY <2>1, <2>2 DEF Flow, Idles
<1>5. QED
  BY <1>1, <1>2, <1>3, <1>4 DEF Next, Main

-----------------------------------------------------------------------------
(* Taking turns. *)

(* w: the connections of thread t, opened and waiting, in their order: the  *)
(* ones at the positions t, t + n, t + 2n, ... of handed.                   *)
Share(n, h, t, w) ==
  /\ \A i \in 1 .. Len(w) : (i - 1) * n + t <= Len(h) /\ w[i] = h[(i - 1) * n + t]
  /\ Len(w) * n + t > Len(h)

PoolTurns ==
  conf.kind = "pool" =>
    /\ NumThreads(conf) # 0 => turn <= NumThreads(conf) /\ \E q \in Nat : Len(handed) = q * NumThreads(conf) + turn
    /\ \A t \in Clients : Share(NumThreads(conf), handed, t, opened[t] \o Queued(loop[t]))

SelfTurns ==
  conf.kind # "pool" =>
    handed = IF pc[0] \in Adding THEN Append(opened[0], cur[0]) ELSE opened[0]

NothingElsewhere == \A t \in Threads \ Clients : Queued(loop[t]) = <<>>

TurnsInv == PoolTurns /\ SelfTurns /\ NothingElsewhere

LEMMA Multiples ==
  ASSUME NEW a \in Nat, NEW b \in Nat, NEW n \in Nat, a < b
  PROVE  a * n + n <= b * n
<1>1. PICK d \in Nat : b = a + 1 + d
  <2>1. b - a - 1 \in Nat /\ b = a + 1 + (b - a - 1)
    OBVIOUS
  <2>2. QED
    BY <2>1
<1>2. b * n = a * n + n + d * n
  BY <1>1
<1>3. d * n \in Nat /\ a * n \in Nat
  OBVIOUS
<1>4. QED
  BY <1>2, <1>3

(* The next position is that of thread u: its share grows by it, those of   *)
(* the others do not reach it.                                              *)
LEMMA NextPosition ==
  ASSUME NEW n \in Nat \ {0}, NEW L \in Nat, NEW p \in Nat, NEW u \in 1 .. n, L + 1 = p * n + u,
         NEW t \in 1 .. n, NEW m \in Nat, m * n + t > L, m > 0 => (m - 1) * n + t <= L
  PROVE  /\ t = u => m * n + t = L + 1
         /\ t # u => m * n + t > L + 1
<1>1. m * n \in Nat /\ p * n \in Nat
  OBVIOUS
<1>2. CASE m < p
  <2>1. m * n + n <= p * n
    BY <1>2, Multiples
  <2>2. QED
    BY <1>1, <2>1
<1>3. CASE m = p
  BY <1>1, <1>3
<1>4. CASE p < m
  <2>1. m - 1 \in Nat /\ (m - 1) * n \in Nat /\ (m - 1) * n + t <= L
    BY <1>4
  <2>2. CASE p = m - 1
    <3>1. t <= u - 1 /\ m * n = p * n + n
      BY <1>1, <2>1, <2>2
    <3>2. QED
      BY <1>1, <3>1
  <2>3. CASE p < m - 1
    <3>1. p * n + n <= (m - 1) * n
      BY <2>1, <2>3, Multiples
    <3>2. QED
      BY <1>1, <2>1, <3>1
  <2>4. QED
    BY <1>4, <2>2, <2>3
<1>5. QED
  BY <1>2, <1>3, <1>4

(* turn is passed on: the position handed next is the one of the next thread. *)
LEMMA NextTurn ==
  ASSUME NEW n \in Nat \ {0}, NEW L \in Nat, NEW r \in 0 .. n, NEW q \in Nat, L = q * n + r
  PROVE  (r % n) + 1 \in 1 .. n /\ \E p \in Nat : L + 1 = p * n + ((r % n) + 1)
<1>1. q * n \in Nat /\ (q + 1) * n = q * n + n
  OBVIOUS
<1>2. CASE r = n
  <2>1. r % n = 0
    BY <1>2
  <2>2. (r % n) + 1 \in 1 .. n
    BY <2>1
  <2>3. q + 1 \in Nat /\ L + 1 = (q + 1) * n + ((r % n) + 1)
    BY <1>1, <1>2, <2>1
  <2>4. \E p \in Nat : L + 1 = p * n + ((r % n) + 1)
    BY <2>3, Zenon
  <2>5. QED
    BY <2>2, <2>4
<1>3. CASE r # n
  <2>1. r % n = r
    BY <1>3
  <2>2. (r % n) + 1 \in 1 .. n
    BY <1>3, <2>1
  <2>3. L + 1 = q * n + ((r % n) + 1)
    BY <1>1, <2>1
  <2>4. \E p \in Nat : L + 1 = p * n + ((r % n) + 1)
    BY <2>3, Zenon
  <2>5. QED
    BY <2>2, <2>4
<1>4. QED
  BY <1>2, <1>3

(* What a hand-over does to the shares. *)
LEMMA ShareGrows ==
  ASSUME NEW n \in Nat \ {0}, NEW h \in Seq(Conns), NEW p \in Nat, NEW u \in 1 .. n,
         Len(h) + 1 = p * n + u, NEW c \in Conns, NEW t \in 1 .. n, NEW w \in Seq(Conns), Share(n, h, t, w)
  PROVE  /\ t = u => Share(n, Append(h, c), t, Append(w, c))
         /\ t # u => Share(n, Append(h, c), t, w)
<1> DEFINE L == Len(h)
           m == Len(w)
           g == Append(h, c)
           v == Append(w, c)
<1>1. L \in Nat /\ m \in Nat /\ Len(g) = L + 1 /\ Len(v) = m + 1 /\ g[L + 1] = c /\ v[m + 1] = c
      /\ (\A i \in 1 .. L : g[i] = h[i]) /\ (\A i \in 1 .. m : v[i] = w[i])
  BY LenProperties, AppendProperties
<1>2. \A i \in 1 .. m : (i - 1) * n + t <= L /\ w[i] = h[(i - 1) * n + t]
  BY DEF Share
<1>3. m * n + t > L /\ (m > 0 => (m - 1) * n + t <= L)
  BY <1>1, <1>2 DEF Share
<1>4. (t = u => m * n + t = L + 1) /\ (t # u => m * n + t > L + 1)
  BY <1>1, <1>3, NextPosition
<1>5. \A i \in 1 .. m : (i - 1) * n + t \in 1 .. L
  <2>1. \A i \in 1 .. m : (i - 1) * n \in Nat
    BY <1>1
  <2>2. QED
    BY <1>1, <1>2, <2>1
<1> HIDE DEF L, m, g, v
<1>6. ASSUME NEW i \in 1 .. m PROVE (i - 1) * n + t <= L + 1 /\ w[i] = g[(i - 1) * n + t]
  <2>1. PICK j \in 1 .. L : j = (i - 1) * n + t
    BY <1>5
  <2>2. w[i] = h[j] /\ g[j] = h[j] /\ j <= L + 1
    BY <1>1, <1>2, <2>1
  <2>3. QED
    BY <2>1, <2>2
<1>7. CASE t = u
  <2>1. ((m + 1) - 1) * n + t = L + 1 /\ (m + 1) * n + t > L + 1
    <3>1. (m + 1) - 1 = m /\ (m + 1) * n = m * n + n /\ m * n \in Nat
      BY <1>1
    <3>2. QED
      BY <1>1, <1>4, <1>7, <3>1
  <2>2. ASSUME NEW i \in 1 .. m + 1 PROVE (i - 1) * n + t <= L + 1 /\ v[i] = g[(i - 1) * n + t]
    <3>1. CASE i = m + 1
      BY <1>1, <2>1, <3>1
    <3>2. CASE i # m + 1
      <4>1. i \in 1 .. m
        BY <1>1, <3>2
      <4>2. QED
        BY <1>1, <1>6, <4>1
    <3>3. QED
      BY <3>1, <3>2
  <2>3. Share(n, g, t, v)
    BY <1>1, <2>1, <2>2 DEF Share
  <2>4. QED
    BY <1>7, <2>3 DEF g, v
<1>8. CASE t # u
  <2>1. Share(n, g, t, w)
    BY <1>1, <1>4, <1>6, <1>8 DEF Share, m
  <2>2. QED
    BY <1>8, <2>1 DEF g
<1>9. QED
  BY <1>7, <1>8

LEMMA TurnsStep ==
  ASSUME IInv, TurnsInv, conf' = conf, IInv', Flow
  PROVE  TurnsInv'
<1>0. /\ Clients \subseteq Threads /\ Clients' = Clients /\ 0 \in Threads /\ (conf.kind # "pool" => Clients = {})
      /\ NumThreads(conf) \in Nat /\ Clients = 1 .. NumThreads(conf)
      /\ turn \in Nat /\ handed \in Seq(Conns) /\ opened \in [Threads -> Seq(Conns)]
      /\ \A t \in Threads : Queued(loop[t]) \in Seq(Conns) /\ opened[t] \in Seq(Conns)
  <2>1. \A t \in Threads : loop[t] \in Loops
    BY SameThread
  <2>2. QED
    BY <2>1, ThreadsKind, QueuedType DEF IInv, TypeOK, ConnTypes, Clients
<1>1. ASSUME Quiet PROVE \A t \in Threads : Queued(loop'[t]) = Queued(loop[t])
  BY <1>1 DEF Quiet, Serves
<1>2. CASE Idles
  BY <1>0, <1>1, <1>2 DEF Idles, TurnsInv, PoolTurns, SelfTurns, NothingElsewhere
<1>3. ASSUME NEW t \in Threads, NEW c \in Conns, OpensNext(t, c), UNCHANGED <<handed, turn>>
      PROVE  TurnsInv'
  <2>1. t \in Clients /\ conf.kind = "pool"
    BY <1>0, <1>3 DEF OpensNext, TurnsInv, NothingElsewhere
  <2>2. \A u \in Threads \ {t} : Queued(loop'[u]) = Queued(loop[u]) /\ opened'[u] = opened[u]
    BY <1>0, <1>3 DEF OpensNext, Serves
  <2>3. opened'[t] \o Queued(loop'[t]) = opened[t] \o Queued(loop[t])
    <3>1. opened'[t] = Append(opened[t], Head(Queued(loop[t]))) /\ Queued(loop'[t]) = Tail(Queued(loop[t]))
          /\ Queued(loop[t]) # <<>>
      BY <1>0, <1>3, OpenedType DEF OpensNext
    <3>2. QED
      BY <1>0, <3>1, MoveHead
  <2>4. \A u \in Clients : opened'[u] \o Queued(loop'[u]) = opened[u] \o Queued(loop[u])
    BY <1>0, <2>2, <2>3
  <2>5. NothingElsewhere'
    BY <1>0, <2>1, <2>2 DEF TurnsInv, NothingElsewhere
  <2>6. PoolTurns'
    BY <1>0, <1>3, <2>4 DEF TurnsInv, PoolTurns
  <2>7. QED
    BY <2>1, <2>5, <2>6 DEF TurnsInv, SelfTurns
<1>4. ASSUME NEW c \in Conns, HandsOver(c) PROVE TurnsInv'
  <2> DEFINE n == NumThreads(conf)
             u == (turn % NumThreads(conf)) + 1
  <2>1. /\ n \in Nat \ {0} /\ u \in Clients /\ Hands(u, c) /\ turn' = u /\ handed' = Append(handed, c)
        /\ opened' = opened /\ conf.kind = "pool" /\ Len(handed) \in Nat /\ Clients = 1 .. n
    BY <1>0, <1>4, LenProperties DEF HandsOver
  <2>2. PICK q \in Nat : Len(handed) = q * n + turn
    BY <2>1 DEF TurnsInv, PoolTurns
  <2>3. turn \in 0 .. n
    BY <1>0, <2>1 DEF TurnsInv, PoolTurns
  <2>4. PICK p \in Nat : Len(handed) + 1 = p * n + u
    BY <2>1, <2>2, <2>3, NextTurn
  <2> HIDE DEF u, n
  <2>5. Len(handed') = Len(handed) + 1
    BY <1>0, <2>1, AppendProperties
  <2>6. turn' <= n /\ \E r \in Nat : Len(handed') = r * n + turn'
    BY <2>1, <2>4, <2>5
  <2>7. ASSUME NEW t \in Clients PROVE Share(n, handed', t, opened'[t] \o Queued(loop'[t]))
    <3> DEFINE w == opened[t] \o Queued(loop[t])
    <3>0. opened[t] \in Seq(Conns) /\ Queued(loop[t]) \in Seq(Conns) /\ t \in Threads
      BY <1>0
    <3>1. Share(n, handed, t, w) /\ w \in Seq(Conns)
      <4>1. Share(n, handed, t, w)
        BY <2>1 DEF TurnsInv, PoolTurns, n
      <4>2. QED
        BY <3>0, <4>1
    <3> HIDE DEF w
    <3>2. (t = u => Share(n, Append(handed, c), t, Append(w, c))) /\ (t # u => Share(n, Append(handed, c), t, w))
      BY <1>0, <2>1, <2>4, <3>1, ShareGrows
    <3>3. CASE t = u
      <4>1. Queued(loop'[t]) = Append(Queued(loop[t]), c)
        BY <2>1, <3>3 DEF Hands
      <4>2. opened'[t] \o Queued(loop'[t]) = Append(w, c)
        <5>1. opened[t] \o Append(Queued(loop[t]), c) = Append(opened[t] \o Queued(loop[t]), c)
          <6>1. PICK a \in Seq(Conns), b \in Seq(Conns) : a = opened[t] /\ b = Queued(loop[t])
            BY <3>0
          <6>2. a \o Append(b, c) = Append(a \o b, c)
            BY <1>4, AppendLast
          <6>3. QED
            BY <6>1, <6>2
        <5>2. QED
          BY <2>1, <4>1, <5>1 DEF w
      <4>3. QED
        BY <2>1, <3>2, <3>3, <4>2
    <3>4. CASE t # u
      <4>1. opened'[t] \o Queued(loop'[t]) = w
        BY <2>1, <3>0, <3>4 DEF Hands, Serves, w
      <4>2. QED
        BY <2>1, <3>2, <3>4, <4>1
    <3>5. QED
      BY <3>3, <3>4
  <2>8. NothingElsewhere'
    BY <1>0, <2>1 DEF TurnsInv, NothingElsewhere, Hands, Serves
  <2>9. PoolTurns'
    BY <1>0, <2>6, <2>7 DEF PoolTurns, n
  <2>10. QED
    BY <2>1, <2>8, <2>9 DEF TurnsInv, SelfTurns
<1>5. ASSUME NEW c \in Conns, TakesUp(c) PROVE TurnsInv'
  BY <1>0, <1>1, <1>5 DEF TakesUp, TurnsInv, PoolTurns, SelfTurns, NothingElsewhere
<1>6. ASSUME NEW c \in Conns, PutsDown(c) PROVE TurnsInv'
  <2>1. opened'[0] = Append(opened[0], c)
    BY <1>0, <1>6, OpenedType DEF PutsDown
  <2>2. SelfTurns'
    BY <1>6, <2>1 DEF PutsDown, TurnsInv, SelfTurns
  <2>3. \A t \in Threads : Queued(loop'[t]) = Queued(loop[t])
    BY <1>6 DEF PutsDown, Registers, Serves
  <2>4. QED
    BY <1>0, <1>6, <2>2, <2>3 DEF PutsDown, TurnsInv, PoolTurns, NothingElsewhere
<1>7. QED
  BY <1>2, <1>3, <1>4, <1>5, <1>6 DEF Flow

LEMMA InitTurns ==
  ASSUME Init
  PROVE  TurnsInv
<1>1. IInv
  BY InitIInv
<1>2. 0 \in Threads /\ Clients \subseteq Threads /\ NumThreads(conf) \in Nat /\ Clients = 1 .. NumThreads(conf)
  BY <1>1, ThreadsKind DEF Clients
<1>3. \A t \in Threads : Queued(loop[t]) = <<>> /\ opened[t] = <<>>
  <2>1. \A t \in Threads : loop[t] \in Loops /\ loop[t].buf = <<>> /\ loop[t].pipe["own"] = <<>>
    BY NewLoopType DEF Init, NewLoop
  <2>2. QED
    BY <2>1, QueuedType DEF Init
<1>4. <<>> \o <<>> = <<>> /\ Len(<<>>) = 0
  OBVIOUS
<1>5. \A t \in Clients : Share(NumThreads(conf), handed, t, opened[t] \o Queued(loop[t]))
  <2>1. ASSUME NEW t \in Clients
        PROVE  /\ handed = <<>> /\ opened[t] \o Queued(loop[t]) = <<>>
               /\ 0 * NumThreads(conf) + t > 0
    BY <1>2, <1>3, <1>4 DEF Init
  <2>2. ASSUME NEW t \in Clients PROVE Share(NumThreads(conf), <<>>, t, <<>>)
    <3>1. 1 .. 0 = {}
      OBVIOUS
    <3>2. QED
      BY <1>4, <2>1, <3>1 DEF Share
  <2>3. QED
    BY <2>1, <2>2
<1>6. turn = 0 /\ Len(handed) = 0 * NumThreads(conf) + turn
  BY <1>2, <1>4 DEF Init
<1>7. PoolTurns
  BY <1>2, <1>5, <1>6 DEF PoolTurns
<1>8. QED
  BY <1>2, <1>3, <1>7 DEF TurnsInv, SelfTurns, NothingElsewhere, Init, Adding

(* The thread that opens a connection opens the next of its share. *)
LEMMA ShareHead ==
  ASSUME NEW n \in Nat, NEW h \in Seq(Conns), NEW t \in Nat, NEW o \in Seq(Conns), NEW q \in Seq(Conns),
         q # <<>>, Share(n, h, t, o \o q)
  PROVE  Len(o) * n + t <= Len(h) /\ h[Len(o) * n + t] = Head(q)
<1>1. Len(o) \in Nat /\ Len(q) \in Nat \ {0} /\ Len(o \o q) = Len(o) + Len(q)
      /\ (o \o q)[Len(o) + 1] = q[1] /\ Head(q) = q[1]
  BY LenProperties, EmptySeq, ConcatProperties
<1>2. Len(o) + 1 \in 1 .. Len(o \o q) /\ (Len(o) + 1) - 1 = Len(o)
  BY <1>1
<1>3. QED
  BY <1>1, <1>2 DEF Share

LEMMA AppendedPart ==
  ASSUME NEW S, NEW s \in Seq(S), NEW x \in S
  PROVE  Len(Append(s, x)) = Len(s) + 1 /\ SubSeq(Append(s, x), 1, Len(s)) = s
<1>1. Len(s) \in Nat /\ Append(s, x) \in Seq(S) /\ Len(Append(s, x)) = Len(s) + 1
      /\ \A i \in 1 .. Len(s) : Append(s, x)[i] = s[i]
  BY LenProperties, AppendProperties
<1>2. 1 \in Nat \ {0} /\ Len(s) \in 0 .. Len(Append(s, x)) /\ 1 <= Len(s) + 1 /\ Len(s) - 1 + 1 = Len(s)
      /\ \A i \in 1 .. Len(s) : 1 + i - 1 = i
  BY <1>1
<1>3. /\ SubSeq(Append(s, x), 1, Len(s)) \in Seq(S) /\ Len(SubSeq(Append(s, x), 1, Len(s))) = Len(s)
      /\ \A i \in 1 .. Len(s) : SubSeq(Append(s, x), 1, Len(s))[i] = s[i]
  BY <1>1, <1>2, Part
<1>4. QED
  BY <1>1, <1>3, SeqEqual

(* A step of the threads is a step of Dispatch, or none. *)
LEMMA DispatchStep ==
  ASSUME IInv, TurnsInv, conf' = conf, Flow
  PROVE  [/\ (IF conf.kind = "pool" THEN NumThreads(conf) ELSE 1)' = IF conf.kind = "pool" THEN NumThreads(conf) ELSE 1
          /\ \/ Abstract!Hand
             \/ \E t \in 1 .. IF conf.kind = "pool" THEN NumThreads(conf) ELSE 1 : Abstract!Open(t)
         ]_<<IF conf.kind = "pool" THEN NumThreads(conf) ELSE 1, handed,
             IF conf.kind = "pool" THEN [t \in Clients |-> opened[t]] ELSE <<opened[0]>> >>
<1> DEFINE n == IF conf.kind = "pool" THEN NumThreads(conf) ELSE 1
           o == IF conf.kind = "pool" THEN [t \in Clients |-> opened[t]] ELSE <<opened[0]>>
<1>0. /\ Clients \subseteq Threads /\ Clients' = Clients /\ 0 \in Threads /\ (conf.kind # "pool" => Clients = {})
      /\ NumThreads(conf) \in Nat /\ Clients = 1 .. NumThreads(conf) /\ n' = n
      /\ turn \in Nat /\ handed \in Seq(Conns) /\ opened \in [Threads -> Seq(Conns)]
      /\ \A t \in Threads : Queued(loop[t]) \in Seq(Conns) /\ opened[t] \in Seq(Conns)
  <2>1. \A t \in Threads : loop[t] \in Loops
    BY SameThread
  <2>2. QED
    BY <2>1, ThreadsKind, QueuedType DEF IInv, TypeOK, ConnTypes, Clients
<1>1. CASE Idles
  BY <1>0, <1>1 DEF Idles
<1>2. ASSUME NEW t \in Threads, NEW c \in Conns, OpensNext(t, c), UNCHANGED <<handed, turn>>
      PROVE  t \in 1 .. n /\ Abstract!Open(t)
  <2>1. t \in Clients /\ conf.kind = "pool" /\ t \in Nat
    BY <1>0, <1>2 DEF OpensNext, TurnsInv, NothingElsewhere
  <2>2. Len(opened[t]) * NumThreads(conf) + t <= Len(handed)
        /\ handed[Len(opened[t]) * NumThreads(conf) + t] = c
    <3>1. Share(NumThreads(conf), handed, t, opened[t] \o Queued(loop[t]))
      BY <2>1 DEF TurnsInv, PoolTurns
    <3>2. Queued(loop[t]) # <<>> /\ c = Head(Queued(loop[t]))
      BY <1>2 DEF OpensNext
    <3>3. QED
      BY <1>0, <2>1, <3>1, <3>2, ShareHead
  <2>3. opened'[t] = Append(opened[t], c) /\ \A u \in Threads \ {t} : opened'[u] = opened[u]
    BY <1>0, <1>2, OpenedType DEF OpensNext
  <2>4. [u \in Clients |-> opened'[u]] = [[u \in Clients |-> opened[u]] EXCEPT ![t] = Append(@, c)]
    BY <1>0, <2>1, <2>3
  <2>5. QED
    BY <1>0, <1>2, <2>1, <2>2, <2>4 DEF Abstract!Open, Abstract!NextOf
<1>3. ASSUME NEW c \in Conns, HandsOver(c) \/ TakesUp(c) PROVE Abstract!Hand
  <2>1. handed' = Append(handed, c) /\ opened' = opened
    BY <1>3 DEF HandsOver, TakesUp
  <2>2. Len(handed') = Len(handed) + 1 /\ SubSeq(handed', 1, Len(handed)) = handed
    BY <1>0, <2>1, AppendedPart
  <2>3. QED
    BY <1>0, <2>1, <2>2 DEF Abstract!Hand
<1>4. ASSUME NEW c \in Conns, PutsDown(c) PROVE 1 \in 1 .. n /\ Abstract!Open(1)
  <2>1. /\ conf.kind # "pool" /\ opened' = [opened EXCEPT ![0] = Append(@, c)] /\ handed' = handed
        /\ handed = Append(opened[0], c)
    BY <1>4 DEF PutsDown, TurnsInv, SelfTurns
  <2>2. opened'[0] = Append(opened[0], c)
    BY <1>0, <2>1
  <2>3. Len(opened[0]) * 1 + 1 <= Len(handed) /\ handed[Len(opened[0]) * 1 + 1] = c
    <3>1. Len(opened[0]) \in Nat /\ Len(handed) = Len(opened[0]) + 1 /\ handed[Len(opened[0]) + 1] = c
      BY <1>0, <2>1, LenProperties, AppendProperties
    <3>2. Len(opened[0]) * 1 + 1 = Len(opened[0]) + 1
      BY <3>1
    <3>3. QED
      BY <3>1, <3>2
  <2>4. <<opened'[0]>> = [<<opened[0]>> EXCEPT ![1] = Append(@, c)]
    BY <2>2
  <2>5. QED
    BY <1>0, <2>1, <2>3, <2>4 DEF Abstract!Open, Abstract!NextOf
<1>5. QED
  BY <1>0, <1>1, <1>2, <1>3, <1>4 DEF Flow

LEMMA TurnsKept ==
  ASSUME IInv, ServiceInv, TurnsInv, [Next]_vars
  PROVE  TurnsInv'
<1>1. CASE Next
  BY <1>1, NextFlow, NextConf, NextIInv, TurnsStep
<1>2. CASE UNCHANGED vars
  BY <1>2 DEF TurnsInv, PoolTurns, SelfTurns, NothingElsewhere, Clients, vars, loopVars, connVars
<1>3. QED
  BY <1>1, <1>2

(* The threads implement Dispatch: whatever the threads, pipes, buffers and *)
(* batches do, connections are handed to the client threads in turn, and    *)
(* each thread opens those handed to it once each, in that order.           *)
THEOREM TakesTurns == Spec => DispatchSpec
<1>1. Init => TurnsInv
  BY InitTurns
<1>2. IInv /\ ServiceInv /\ TurnsInv /\ [Next]_vars => TurnsInv'
  BY TurnsKept
<1>3. Spec => [](IInv /\ ServiceInv /\ TurnsInv)
  BY <1>1, <1>2, ThreadsInv, PTL DEF Spec
<1>4. Init => Abstract!Init
  <2> SUFFICES ASSUME Init PROVE Abstract!Init
    OBVIOUS
  <2>1. IInv
    BY InitIInv
  <2>2. 0 \in Threads /\ Clients \subseteq Threads /\ NumThreads(conf) \in Nat /\ Clients = 1 .. NumThreads(conf)
    BY <2>1, ThreadsKind DEF Clients
  <2>3. [t \in Clients |-> opened[t]] = [t \in 1 .. NumThreads(conf) |-> <<>>]
    BY <2>2 DEF Init
  <2>4. <<opened[0]>> = [t \in 1 .. 1 |-> <<>>]
    BY <2>2 DEF Init
  <2>5. handed = <<>>
    BY DEF Init
  <2>6. QED
    BY <2>2, <2>3, <2>4, <2>5 DEF Abstract!Init
<1>5. IInv /\ ServiceInv /\ TurnsInv /\ [Next]_vars =>
        [/\ (IF conf.kind = "pool" THEN NumThreads(conf) ELSE 1)'
              = IF conf.kind = "pool" THEN NumThreads(conf) ELSE 1
         /\ \/ Abstract!Hand
            \/ \E t \in 1 .. IF conf.kind = "pool" THEN NumThreads(conf) ELSE 1 : Abstract!Open(t)
        ]_<<IF conf.kind = "pool" THEN NumThreads(conf) ELSE 1, handed,
            IF conf.kind = "pool" THEN [t \in Clients |-> opened[t]] ELSE <<opened[0]>> >>
  <2>1. ASSUME UNCHANGED vars
        PROVE  UNCHANGED <<IF conf.kind = "pool" THEN NumThreads(conf) ELSE 1, handed,
                           IF conf.kind = "pool" THEN [t \in Clients |-> opened[t]] ELSE <<opened[0]>> >>
    BY <2>1 DEF vars, connVars, Clients
  <2>2. QED
    BY <2>1, NextFlow, NextConf, DispatchStep
<1>6. QED
  BY <1>3, <1>4, <1>5, PTL DEF Spec, DispatchSpec, Abstract!Spec

-----------------------------------------------------------------------------
(* The worker's map of notifiers. *)

Unmapped == {"unborn", "run", "insert"}

(* The thread has put its notifier into the map. *)
Past(t) == pc[t] \notin Unmapped /\ (conf.kind = "pool" => t \in Clients)

(* A connection that a loop serves, or that a request waits for, belongs to *)
(* a thread that has.                                                       *)
OwnedInv ==
  /\ conf.kind # "pool" => \A c \in Conns : conn[c].t = 0
  /\ \A t \in Threads, c \in Conns : Held(loop[t], c) => Past(conn[c].t)
  /\ \A i \in 1 .. Len(inbox) : Past(conn[inbox[i]].t)

(* Unless two threads were in the map at once: nothing inserted was lost. *)
MapInv ==
  /\ DOMAIN snap = Threads
  /\ ~raced =>
       /\ \A t, u \in Threads : pc[t] = "insert" /\ pc[u] = "insert" => t = u
       /\ \A t \in Threads : pc[t] = "insert" => snap[t] = notifiers
       /\ \A t \in Threads : Past(t) => t \in notifiers
       /\ crash # "notifier"

(* The steps that leave the map and the way to it alone. *)
Elsewhere ==
  /\ \A u \in Threads : /\ pc'[u] \in Unmapped <=> pc[u] \in Unmapped
                        /\ pc'[u] = "insert" => pc[u] = "insert"
  /\ UNCHANGED <<notifiers, snap>>

LEMMA ThreadElsewhere ==
  ASSUME IInv, NEW t \in Threads, Thread(t), ~connectToBegins(t), ~connectToEnds(t)
  PROVE  Elsewhere /\ raced' = raced /\ (crash' = crash \/ crash' \in {"modulo", "current"})
<1>1. pc \in [Threads -> Places]
  BY DEF IInv, TypeOK, ThreadTypes
<1>2. ASSUME NEW x, x \notin Unmapped, pc[t] \notin Unmapped, pc' = [pc EXCEPT ![t] = x],
             UNCHANGED <<notifiers, snap, raced>>, crash' = crash \/ crash' \in {"modulo", "current"}
      PROVE  Elsewhere /\ raced' = raced /\ (crash' = crash \/ crash' \in {"modulo", "current"})
  BY <1>1, <1>2 DEF Elsewhere, Unmapped
<1>3. ASSUME pc' = pc, UNCHANGED <<notifiers, snap, raced>>, crash' = crash \/ crash' \in {"modulo", "current"}
      PROVE  Elsewhere /\ raced' = raced /\ (crash' = crash \/ crash' \in {"modulo", "current"})
  BY <1>3 DEF Elsewhere
<1>4. CASE clientSynced(t) \/ serverAwaits(t)
  BY <1>2, <1>4 DEF clientSynced, serverAwaits, Go, Unmapped, workerVars
<1>5. CASE setUpTCP(t)
  BY <1>2, <1>5 DEF setUpTCP, ServerThreadRun, ServerSingleThreadRun, Go, Unmapped, workerVars
<1>6. CASE FDEventLoopStart(t) \/ timerEvent(t)
  BY <1>2, <1>6 DEF FDEventLoopStart, timerEvent, Event, Go, Unmapped, workerVars
<1>7. CASE \E ch \in {"own", "sender"} : channelEvent(t, ch)
  BY <1>3, <1>7 DEF channelEvent, workerVars
<1>8. CASE \E c \in Conns : dataEvent(t, c)
  BY <1>3, <1>8 DEF dataEvent, Dies, loopVars, workerVars
<1>9. CASE acceptDataSocket(t)
  BY <1>2, <1>3, <1>9 DEF acceptDataSocket, Event, Go, Unmapped, workerVars
<1>10. CASE sslAcceptFails(t) \/ singleOnNewConnection(t) \/ onTimer(t)
  BY <1>2, <1>10 DEF sslAcceptFails, singleOnNewConnection, onTimer, Go, Unmapped, workerVars
<1>11. CASE serverOnNewConnection(t)
  BY <1>2, <1>3, <1>11 DEF serverOnNewConnection, Dies, Go, Unmapped, loopVars, workerVars
<1>12. CASE addDataSocket(t)
  BY <1>2, <1>12 DEF addDataSocket, Go, Unmapped, workerVars
<1>13. CASE connect(t)
  BY <1>2, <1>3, <1>13 DEF connect, connectToTCP, Go, Unmapped, workerVars
<1>14. QED
  BY <1>4, <1>5, <1>6, <1>7, <1>8, <1>9, <1>10, <1>11, <1>12, <1>13 DEF Thread

LEMMA OtherElsewhere ==
  ASSUME \/ \E t \in Threads : expire(t)
         \/ notifySender \/ startReturns \/ stopTimer \/ stopFlag \/ join \/ stopCalled
         \/ \E c \in conf.peers : Peer(c)
  PROVE  pc' = pc /\ UNCHANGED <<notifiers, snap, raced, crash, inbox>>
  BY DEF expire, notifySender, startReturns, stopTimer, stopFlag, join, stopCalled, Peer, peerConnects, peerAsks,
     peerHangsUp, loopVars, workerVars

LEMMA MapKept ==
  ASSUME MapInv, Elsewhere, conf' = conf, raced' = raced, crash' # "notifier" \/ crash' = crash
  PROVE  MapInv'
  BY DEF MapInv, Elsewhere, Past, Clients

LEMMA MapStep ==
  ASSUME IInv, MapInv, OwnedInv, Next
  PROVE  MapInv'
<1>0. conf' = conf /\ pc \in [Threads -> Places]
  BY NextConf DEF IInv, TypeOK, ThreadTypes
<1>1. ASSUME NEW t \in Threads, connectToBegins(t) PROVE MapInv'
  <2>1. pc[t] = "run" /\ notifiers' = notifiers /\ crash' = crash
    BY <1>1 DEF connectToBegins
  <2>2. CASE t = 0 /\ conf.kind = "pool"
    <3>1. pc' = [pc EXCEPT ![t] = "setUp"] /\ UNCHANGED <<snap, raced>>
      BY <1>1, <2>2 DEF connectToBegins, Go
    <3>2. 0 \notin Clients
      BY ThreadsKind
    <3>3. \A u \in Threads : (pc'[u] = "insert" <=> pc[u] = "insert") /\ (Past(u)' <=> Past(u))
      BY <1>0, <2>1, <2>2, <3>1, <3>2 DEF Past, Unmapped, Clients
    <3>4. QED
      BY <2>1, <3>1, <3>3 DEF MapInv
  <2>3. CASE ~(t = 0 /\ conf.kind = "pool")
    <3>1. /\ pc' = [pc EXCEPT ![t] = "insert"] /\ snap' = [snap EXCEPT ![t] = notifiers]
          /\ raced' = (raced \/ \E u \in Threads : pc[u] = "insert")
      BY <1>1, <2>3 DEF connectToBegins, Go
    <3>2. \A u \in Threads : (Past(u)' <=> Past(u)) /\ (pc'[u] = "insert" <=> pc[u] = "insert" \/ u = t)
      BY <1>0, <2>1, <3>1 DEF Past, Unmapped, Clients
    <3>3. ASSUME ~raced' PROVE ~raced /\ (\A u \in Threads : pc[u] # "insert")
      BY <3>1, <3>3
    <3>4. ASSUME ~raced' PROVE snap'[t] = notifiers'
      BY <2>1, <3>1 DEF MapInv
    <3>5. DOMAIN snap' = Threads
      BY <3>1 DEF MapInv
    <3>6. ASSUME ~raced', NEW u \in Threads, pc'[u] = "insert" PROVE u = t
      BY <3>2, <3>3, <3>6
    <3>7. ASSUME ~raced', NEW u \in Threads, Past(u)' PROVE u \in notifiers'
      BY <2>1, <3>2, <3>3, <3>7 DEF MapInv
    <3>8. ~raced' => crash' # "notifier"
      BY <2>1, <3>3 DEF MapInv
    <3>9. QED
      BY <3>4, <3>5, <3>6, <3>7, <3>8 DEF MapInv
  <2>4. QED
    BY <2>2, <2>3
<1>2. ASSUME NEW t \in Threads, connectToEnds(t) PROVE MapInv'
  <2>1. /\ pc[t] = "insert" /\ UNCHANGED <<snap, raced, crash>>
        /\ \E m \in {notifiers, snap[t]} : notifiers' = m \cup {t}
    BY <1>2 DEF connectToEnds
  <2>2. PICK x \in Places \ Unmapped : pc' = [pc EXCEPT ![t] = x]
    BY <1>2 DEF connectToEnds, Go, Places, Unmapped
  <2>3. \A u \in Threads \ {t} : pc'[u] = pc[u] /\ (Past(u)' <=> Past(u))
    BY <1>0, <2>2 DEF Past, Clients
  <2>4. pc'[t] # "insert"
    BY <1>0, <2>2 DEF Unmapped
  <2>5. ASSUME ~raced' PROVE notifiers' = notifiers \cup {t} /\ \A u \in Threads : pc'[u] # "insert"
    BY <2>1, <2>3, <2>4, <2>5 DEF MapInv
  <2>6. QED
    BY <2>1, <2>3, <2>5 DEF MapInv
<1>3. CASE start
  <2>1. /\ \A u \in Threads : pc[u] = "unborn" /\ pc'[u] \in {"unborn", "run"}
        /\ UNCHANGED <<notifiers, snap, raced, crash>>
    BY <1>3 DEF start, IInv, Phases, workerVars
  <2>2. QED
    BY <1>0, <2>1, MapKept DEF Elsewhere, Unmapped
<1>4. CASE transferMsgToIOThread
  <2> DEFINE t == conn[Head(inbox)].t
             inserting == \E u \in Threads : pc[u] = "insert"
  <2>1. /\ inbox # <<>> /\ pc' = pc /\ UNCHANGED <<notifiers, snap>> /\ raced' = (raced \/ inserting)
        /\ crash' = crash \/ t \notin notifiers \/ inserting
    BY <1>4 DEF transferMsgToIOThread, loopVars
  <2>2. inbox \in Seq(Conns) /\ 1 \in 1 .. Len(inbox) /\ inbox[1] = Head(inbox)
    BY <2>1 DEF IInv, TypeOK, WorkerTypes
  <2>3. Past(t) /\ t \in Threads
    <3>1. Head(inbox) \in Conns
      BY <2>1, <2>2
    <3>2. QED
      BY <2>2, <3>1 DEF OwnedInv, IInv, TypeOK, ConnTypes, Connections
  <2> HIDE DEF t, inserting
  <2>4. ASSUME ~raced' PROVE ~raced /\ crash' = crash
    BY <2>1, <2>3, <2>4 DEF MapInv
  <2>5. \A u \in Threads : Past(u)' <=> Past(u)
    BY <1>0, <2>1 DEF Past, Clients
  <2>6. QED
    BY <2>1, <2>4, <2>5 DEF MapInv
<1>5. ASSUME NEW t \in Threads, Thread(t), ~connectToBegins(t), ~connectToEnds(t) PROVE MapInv'
  <2>1. Elsewhere /\ raced' = raced /\ (crash' = crash \/ crash' # "notifier")
    BY <1>5, ThreadElsewhere
  <2>2. QED
    BY <1>0, <2>1, MapKept
<1>6. CASE \/ \E t \in Threads : expire(t)
           \/ notifySender \/ startReturns \/ stopTimer \/ stopFlag \/ join \/ stopCalled
           \/ \E c \in conf.peers : Peer(c)
  BY <1>0, <1>6, OtherElsewhere, MapKept DEF Elsewhere
<1>7. QED
  BY <1>1, <1>2, <1>3, <1>4, <1>5, <1>6 DEF Next, Main, Worker

(* A thread in the map stays there. *)
LEMMA PastKept ==
  ASSUME IInv, Next
  PROVE  \A t \in Threads : Past(t) => Past(t)'
<1>0. conf' = conf /\ pc \in [Threads -> Places]
  BY NextConf DEF IInv, TypeOK, ThreadTypes
<1>1. ASSUME \A u \in Threads : pc'[u] \in Unmapped => pc[u] \in Unmapped
      PROVE  \A t \in Threads : Past(t) => Past(t)'
  BY <1>0, <1>1 DEF Past, Clients
<1>2. ASSUME NEW t \in Threads, connectToBegins(t) \/ connectToEnds(t)
      PROVE  \A u \in Threads : pc'[u] \in Unmapped => pc[u] \in Unmapped
  BY <1>0, <1>2 DEF connectToBegins, connectToEnds, Go, Unmapped
<1>3. CASE start
  BY <1>1, <1>3 DEF start, IInv, Phases, Unmapped
<1>4. ASSUME NEW t \in Threads, Thread(t), ~connectToBegins(t), ~connectToEnds(t)
      PROVE  \A u \in Threads : pc'[u] \in Unmapped => pc[u] \in Unmapped
  BY <1>4, ThreadElsewhere DEF Elsewhere
<1>5. CASE transferMsgToIOThread
  BY <1>1, <1>5 DEF transferMsgToIOThread, loopVars
<1>6. CASE \/ \E t \in Threads : expire(t)
           \/ notifySender \/ startReturns \/ stopTimer \/ stopFlag \/ join \/ stopCalled
           \/ \E c \in conf.peers : Peer(c)
  BY <1>1, <1>6, OtherElsewhere
<1>7. QED
  BY <1>1, <1>2, <1>3, <1>4, <1>5, <1>6 DEF Next, Main, Worker

(* No connection changes its thread. *)
SameOwner == \A c \in Conns : conn'[c].t = conn[c].t

LEMMA OwnerEdits ==
  ASSUME NEW f \in [Conns -> Connections], NEW d \in Conns, NEW c \in Conns
  PROVE  /\ \A x : [f EXCEPT ![d].st = x][c].t = f[c].t
         /\ [f EXCEPT ![d].answered = @ + 1][c].t = f[c].t
         /\ [f EXCEPT ![d].input = @ - 1][c].t = f[c].t
         /\ [f EXCEPT ![d].asked = @ + 1, ![d].input = @ + 1][c].t = f[c].t
         /\ [f EXCEPT ![d].hup = TRUE][c].t = f[c].t
         /\ \A x : [f EXCEPT ![d].st = "backlog", ![d].hello = x][c].t = f[c].t
         /\ \A u : [f EXCEPT ![d].st = "open", ![d].t = u][c].t = IF c = d THEN u ELSE f[c].t
<1>1. f[c] \in Connections /\ f[d] \in Connections
  OBVIOUS
<1>2. QED
  BY <1>1 DEF Connections

LEMMA OwnersKept ==
  ASSUME IInv, ServiceInv, NEW t \in Threads, Thread(t), ~\E ch \in {"own", "sender"} : channelEvent(t, ch)
  PROVE  SameOwner
<1>1. conn \in [Conns -> Connections] /\ backlog \in Seq(Conns)
  BY DEF IInv, TypeOK, ConnTypes
<1>2. CASE conn' = conn
  BY <1>2 DEF SameOwner
<1>3. ASSUME NEW d \in Conns, NEW x, conn' = [conn EXCEPT ![d].st = x] PROVE SameOwner
  BY <1>1, <1>3, OwnerEdits DEF SameOwner
<1>4. CASE connectToBegins(t) \/ connectToEnds(t) \/ clientSynced(t) \/ setUpTCP(t) \/ serverAwaits(t)
  BY <1>2, <1>4 DEF connectToBegins, connectToEnds, clientSynced, setUpTCP, serverAwaits, connVars
<1>5. CASE FDEventLoopStart(t) \/ timerEvent(t) \/ singleOnNewConnection(t) \/ connect(t)
  BY <1>2, <1>5 DEF FDEventLoopStart, timerEvent, singleOnNewConnection, connect, connVars
<1>6. ASSUME NEW d \in Conns, dataEvent(t, d) PROVE SameOwner
  <2>1. \/ conn' = conn
        \/ conn' = [conn EXCEPT ![d].input = @ - 1]
        \/ conn' = [conn EXCEPT ![d].st = "closed"]
    BY <1>6 DEF dataEvent, Dies, connVars
  <2>2. CASE conn' = [conn EXCEPT ![d].input = @ - 1]
    <3>1. \A c \in Conns : [conn EXCEPT ![d].input = @ - 1][c].t = conn[c].t
      BY <1>1, OwnerEdits
    <3>2. QED
      BY <2>2, <3>1 DEF SameOwner
  <2>3. QED
    BY <1>2, <1>3, <2>1, <2>2
<1>7. CASE acceptDataSocket(t)
  <2>1. CASE backlog = <<>>
    BY <1>2, <1>7, <2>1 DEF acceptDataSocket
  <2>2. CASE backlog # <<>>
    <3>1. Head(backlog) \in Conns
      BY <1>1, <2>2
    <3>2. QED
      BY <1>3, <1>7, <2>2, <3>1 DEF acceptDataSocket
  <2>3. QED
    BY <2>1, <2>2
<1>8. CASE sslAcceptFails(t)
  <2>1. cur[t] \in Conns /\ conn' = [conn EXCEPT ![cur[t]].st = "dropped"]
    BY <1>8, InHand DEF sslAcceptFails, HasConn
  <2>2. QED
    BY <1>3, <2>1
<1>9. CASE serverOnNewConnection(t)
  <2>1. cur[t] \in Conns /\ (conn' = conn \/ conn' = [conn EXCEPT ![cur[t]].st = "passed"])
    BY <1>9, InHand DEF serverOnNewConnection, HasConn, Dies, connVars
  <2>2. QED
    BY <1>2, <1>3, <2>1
<1>10. CASE addDataSocket(t)
  <2>1. cur[t] \in Conns /\ conn' = [conn EXCEPT ![cur[t]].st = "open"]
    BY <1>10, AddSocketStep DEF addDataSocket
  <2>2. QED
    BY <1>3, <2>1
<1>11. CASE onTimer(t)
  <2>1. \A c \in Conns : [conn[c] EXCEPT !.st = "lost", !.hup = FALSE].t = conn[c].t
    BY <1>1 DEF Connections
  <2>2. QED
    BY <1>11, <2>1 DEF onTimer, SameOwner
<1>12. QED
  BY <1>4, <1>5, <1>6, <1>7, <1>8, <1>9, <1>10, <1>11 DEF Thread

(* What a step must see to for OwnedInv. *)
LEMMA OwnedMoves ==
  ASSUME IInv, OwnedInv, conf' = conf, \A t \in Threads : Past(t) => Past(t)',
         \A c \in Conns : conn'[c].t = conn[c].t \/ (Past(conn[c].t)' /\ (conf.kind # "pool" => conn'[c].t = 0)),
         \A t \in Threads, c \in Conns : Held(loop'[t], c) => Held(loop[t], c) \/ Past(conn[c].t)',
         \A i \in 1 .. Len(inbox') : inbox'[i] \in Conns /\
           ((\E j \in 1 .. Len(inbox) : inbox'[i] = inbox[j]) \/ Past(conn[inbox[i]].t)')
  PROVE  OwnedInv'
<1>1. \A c \in Conns : conn[c].t \in Threads
  BY DEF IInv, TypeOK, ConnTypes, Connections
<1>2. ASSUME NEW c \in Conns, Past(conn[c].t) PROVE Past(conn[c].t)'
  <2>1. CASE conn'[c].t = conn[c].t
    BY <1>1, <1>2, <2>1 DEF Past
  <2>2. QED
    BY <2>1
<1>3. ASSUME NEW t \in Threads, NEW c \in Conns, Held(loop[t], c)' PROVE Past(conn[c].t)'
  <2>1. Held(loop'[t], c)
    BY <1>3 DEF Held
  <2>2. QED
    BY <1>2, <2>1 DEF OwnedInv
<1>4. ASSUME NEW i \in 1 .. Len(inbox') PROVE Past(conn[inbox[i]].t)'
  <2>1. CASE \E j \in 1 .. Len(inbox) : inbox'[i] = inbox[j]
    <3>1. PICK j \in 1 .. Len(inbox) : inbox'[i] = inbox[j]
      BY <2>1
    <3>2. Past(conn[inbox[j]].t) /\ inbox[j] \in Conns
      BY <1>4, <3>1 DEF OwnedInv
    <3>3. PICK c \in Conns : c = inbox[j]
      BY <3>2
    <3>4. Past(conn[c].t)'
      BY <1>2, <3>2, <3>3
    <3>5. inbox'[i] = c
      BY <3>1, <3>3
    <3>6. QED
      BY <3>4, <3>5 DEF Past
  <2>2. QED
    BY <1>4, <2>1
<1>5. conf'.kind # "pool" => \A c \in Conns : conn'[c].t = 0
  BY DEF OwnedInv
<1>6. QED
  BY <1>3, <1>4, <1>5 DEF OwnedInv

(* A step that opens nothing and takes no request. *)
LEMMA OwnedQuiet ==
  ASSUME IInv, OwnedInv, conf' = conf, \A t \in Threads : Past(t) => Past(t)', SameOwner, Quiet,
         \A i \in 1 .. Len(inbox') : inbox'[i] \in Conns /\ \E j \in 1 .. Len(inbox) : inbox'[i] = inbox[j]
  PROVE  OwnedInv'
<1>1. \A t \in Threads, c \in Conns : Held(loop'[t], c) => Held(loop[t], c)
  BY ConnsAssumption DEF Quiet, Serves, Keeps
<1>2. QED
  BY <1>1, OwnedMoves DEF SameOwner

LEMMA SameInbox ==
  ASSUME IInv, inbox' = inbox
  PROVE  \A i \in 1 .. Len(inbox') : inbox'[i] \in Conns /\ \E j \in 1 .. Len(inbox) : inbox'[i] = inbox[j]
  BY DEF IInv, TypeOK, WorkerTypes

LEMMA OwnedStep ==
  ASSUME IInv, ServiceInv, TurnsInv, OwnedInv, Next
  PROVE  OwnedInv'
<1>0. conf' = conf /\ (\A t \in Threads : Past(t) => Past(t)') /\ conn \in [Conns -> Connections]
      /\ inbox \in Seq(Conns)
  BY NextConf, PastKept DEF IInv, TypeOK, ConnTypes, WorkerTypes
<1>1. ASSUME NEW t \in Threads, NEW ch \in {"own", "sender"}, channelEvent(t, ch) PROVE OwnedInv'
  <2>1. inbox' = inbox /\ pc' = pc /\ pc[t] = "batch"
    BY <1>1 DEF channelEvent, Event, workerVars
  <2>2. ASSUME NEW c \in Conns, OpensNext(t, c) PROVE OwnedInv'
    <3>1. conn' = [conn EXCEPT ![c].st = "open", ![c].t = t] /\ Queued(loop[t]) # <<>>
          /\ Keeps(loop[t], loop'[t], c) /\ \A u \in Threads \ {t} : Keeps(loop[u], loop'[u], "none")
      BY <2>2 DEF OpensNext, Serves
    <3>2. t \in Clients
      BY <3>1 DEF TurnsInv, NothingElsewhere
    <3>3. conf.kind = "pool"
      BY <3>2, ThreadsKind
    <3>4. \A d \in Conns : conn'[d].t = IF d = c THEN t ELSE conn[d].t
      <4>1. \A d \in Conns : [conn EXCEPT ![c].st = "open", ![c].t = t][d].t = IF d = c THEN t ELSE conn[d].t
        BY <1>0, OwnerEdits
      <4>2. QED
        BY <3>1, <4>1
    <3>5. Past(conn[c].t)'
      BY <1>0, <2>1, <3>2, <3>4 DEF Past, Unmapped, Clients
    <3>6. \A u \in Threads, d \in Conns : Held(loop'[u], d) => Held(loop[u], d) \/ d = c
      BY <3>1, ConnsAssumption DEF Keeps
    <3>7. \A i \in 1 .. Len(inbox') : inbox'[i] \in Conns /\ \E j \in 1 .. Len(inbox) : inbox'[i] = inbox[j]
      BY <2>1, SameInbox
    <3>8. \A d \in Conns : conn'[d].t = conn[d].t \/ (Past(conn[d].t)' /\ (conf.kind # "pool" => conn'[d].t = 0))
      BY <3>3, <3>4, <3>5
    <3>9. \A u \in Threads, d \in Conns : Held(loop'[u], d) => Held(loop[u], d) \/ Past(conn[d].t)'
      BY <3>5, <3>6
    <3>10. QED
      BY <1>0, <3>7, <3>8, <3>9, OwnedMoves
  <2>3. CASE Quiet /\ (conn' = conn \/ \E c \in Conns : conn' = [conn EXCEPT ![c].answered = @ + 1])
    <3>1. SameOwner
      <4>1. \A c, d \in Conns : [conn EXCEPT ![c].answered = @ + 1][d].t = conn[d].t
        BY <1>0, OwnerEdits
      <4>2. CASE conn' = conn
        BY <4>2 DEF SameOwner
      <4>3. ASSUME NEW c \in Conns, conn' = [conn EXCEPT ![c].answered = @ + 1] PROVE SameOwner
        <5>1. \A d \in Conns : [conn EXCEPT ![c].answered = @ + 1][d].t = conn[d].t
          BY <4>1
        <5>2. QED
          BY <4>3, <5>1, Zenon DEF SameOwner
      <4>4. QED
        BY <2>3, <4>2, <4>3
    <3>2. QED
      BY <1>0, <2>1, <2>3, <3>1, SameInbox, OwnedQuiet
  <2>4. QED
    BY <1>1, <2>2, <2>3, ChannelStep DEF Channels
<1>2. ASSUME NEW t \in Threads, NEW c \in Conns, dataEvent(t, c) PROVE OwnedInv'
  <2>1. Quiet /\ SameOwner
    <3>1. Thread(t) /\ ~\E ch \in {"own", "sender"} : channelEvent(t, ch)
      <4>1. loop[t].batch # <<>> /\ Head(loop[t].batch) = c
        BY <1>2 DEF dataEvent, Event
      <4>2. QED
        BY <1>2, <4>1, ConnsAssumption DEF Thread, channelEvent, Event
    <3>2. QED
      BY <1>2, <3>1, DataStep, OwnersKept
  <2>2. CASE inbox' = inbox
    BY <1>0, <2>1, <2>2, SameInbox, OwnedQuiet
  <2>3. CASE inbox' # inbox
    <3>1. inbox' = Append(inbox, c)
      BY <1>2, <2>3 DEF dataEvent, Dies, workerVars
    <3>2. Held(loop[t], c)
      <4>1. loop[t].batch # <<>> /\ Head(loop[t].batch) = c /\ loop[t].batch \in Seq(Handlers)
        BY <1>2, SameThread DEF dataEvent, Event, Loops
      <4>2. Contains(loop[t].batch, c)
        BY <4>1 DEF Contains
      <4>3. QED
        BY <4>2 DEF Held
    <3>3. Past(conn[c].t)'
      <4>1. Past(conn[c].t) /\ conn'[c].t = conn[c].t /\ conn[c].t \in Threads
        BY <1>0, <2>1, <3>2 DEF OwnedInv, SameOwner, Connections
      <4>2. QED
        BY <1>0, <4>1 DEF Past
    <3>4. Len(inbox) \in Nat /\ Len(inbox') = Len(inbox) + 1 /\ inbox'[Len(inbox) + 1] = c
          /\ \A i \in 1 .. Len(inbox) : inbox'[i] = inbox[i] /\ inbox[i] \in Conns
      BY <1>0, <3>1
    <3>5. ASSUME NEW i \in 1 .. Len(inbox')
          PROVE  inbox'[i] \in Conns /\
                   ((\E j \in 1 .. Len(inbox) : inbox'[i] = inbox[j]) \/ Past(conn[inbox[i]].t)')
      <4>1. CASE i \in 1 .. Len(inbox)
        BY <3>4, <4>1
      <4>2. CASE i \notin 1 .. Len(inbox)
        <5>1. inbox'[i] = c
          BY <3>4, <3>5, <4>2
        <5>2. QED
          BY <1>2, <3>3, <5>1 DEF Past
      <4>3. QED
        BY <4>1, <4>2
    <3>6. \A u \in Threads, d \in Conns : Held(loop'[u], d) => Held(loop[u], d)
      BY <2>1, ConnsAssumption DEF Quiet, Serves, Keeps
    <3>7. QED
      BY <1>0, <2>1, <3>5, <3>6, OwnedMoves DEF SameOwner
  <2>4. QED
    BY <2>2, <2>3
<1>3. ASSUME NEW t \in Threads, addDataSocket(t) PROVE OwnedInv'
  <2>1. Registers(t, cur[t]) /\ cur[t] \in Conns /\ t = 0 /\ conf.kind # "pool" /\ inbox' = inbox
    BY <1>3, AddSocketStep DEF addDataSocket, workerVars
  <2>2. SameOwner
    <3>1. [conn EXCEPT ![cur[t]].st = "open"] = conn'
      BY <1>3 DEF addDataSocket
    <3>2. \A c \in Conns : [conn EXCEPT ![cur[t]].st = "open"][c].t = conn[c].t
      BY <1>0, <2>1, OwnerEdits
    <3>3. QED
      BY <3>1, <3>2 DEF SameOwner
  <2>3. Past(0)'
    <3>1. 0 \in Threads /\ Past(0)
      BY <1>3, <2>1, ThreadsKind DEF addDataSocket, Past, Unmapped
    <3>2. QED
      BY <1>0, <3>1
  <2>4. \A c \in Conns : Past(conn[c].t)'
    BY <2>1, <2>2, <2>3 DEF SameOwner, OwnedInv, Past
  <2>5. QED
    BY <1>0, <2>1, <2>2, <2>4, SameInbox, OwnedMoves DEF SameOwner
<1>4. ASSUME NEW t \in Threads, Thread(t), ~addDataSocket(t), ~\E c \in Conns : dataEvent(t, c),
             ~\E ch \in {"own", "sender"} : channelEvent(t, ch)
      PROVE  OwnedInv'
  <2>1. SameOwner
    BY <1>4, OwnersKept
  <2>2. inbox' = inbox
    BY <1>4 DEF Thread, connectToBegins, connectToEnds, clientSynced, setUpTCP, serverAwaits, FDEventLoopStart,
       timerEvent, acceptDataSocket, sslAcceptFails, serverOnNewConnection, singleOnNewConnection, connect, onTimer,
       Dies, workerVars
  <2>3. CASE Quiet
    BY <1>0, <2>1, <2>2, <2>3, SameInbox, OwnedQuiet
  <2>4. CASE serverOnNewConnection(t) /\ ~Quiet
    <3>1. Hands((turn % NumThreads(conf)) + 1, cur[t])
      BY <2>4, HandOverStep
    <3>2. \A u \in Threads : Keeps(loop[u], loop'[u], "none")
      BY <3>1 DEF Hands, Serves
    <3>3. \A u \in Threads, d \in Conns : Held(loop'[u], d) => Held(loop[u], d)
      BY <3>2, ConnsAssumption DEF Keeps
    <3>4. QED
      BY <1>0, <2>1, <2>2, <3>3, SameInbox, OwnedMoves DEF SameOwner
  <2>5. QED
    BY <1>4, <2>3, <2>4, ConnectToBeginsStep, ConnectToEndsStep, ClientSyncedStep, SetUpStep, ServerAwaitsStep,
       LoopStartStep, TimerEventStep, AcceptStep, SslStep, SingleStep, ConnectStep, OnTimerStep DEF Thread
<1>5. CASE transferMsgToIOThread
  <2>1. Quiet
    BY <1>5, AsideStep
  <2>2. conn' = conn /\ (inbox' = inbox \/ (inbox' = Tail(inbox) /\ inbox # <<>>))
    BY <1>5 DEF transferMsgToIOThread, connVars
  <2>3. \A i \in 1 .. Len(inbox') : inbox'[i] \in Conns /\ \E j \in 1 .. Len(inbox) : inbox'[i] = inbox[j]
    <3>1. CASE inbox' = inbox
      BY <3>1, SameInbox
    <3>2. CASE inbox' = Tail(inbox) /\ inbox # <<>>
      <4>1. /\ Len(inbox) \in Nat \ {0} /\ Len(inbox') = Len(inbox) - 1
            /\ \A i \in 1 .. Len(inbox) - 1 : inbox'[i] = inbox[i + 1]
        BY <1>0, <3>2
      <4>2. ASSUME NEW i \in 1 .. Len(inbox')
            PROVE  i + 1 \in 1 .. Len(inbox) /\ inbox'[i] = inbox[i + 1] /\ inbox[i + 1] \in Conns
        BY <1>0, <4>1
      <4>3. QED
        BY <4>2
    <3>3. QED
      BY <2>2, <3>1, <3>2
  <2>4. QED
    BY <1>0, <2>1, <2>2, <2>3, OwnedQuiet DEF SameOwner
<1>6. CASE start \/ \E t \in Threads : expire(t)
  <2>1. Quiet /\ conn' = conn /\ inbox' = inbox
    BY <1>6, StartStep, ExpireStep DEF start, expire, connVars, workerVars
  <2>2. QED
    BY <1>0, <2>1, SameInbox, OwnedQuiet DEF SameOwner
<1>7. CASE notifySender \/ startReturns \/ stopTimer \/ stopFlag \/ join \/ stopCalled
  <2>1. Quiet
    BY <1>7, AsideStep, NotifySenderStep, StopTimerStep, StopFlagStep
  <2>2. conn' = conn /\ inbox' = inbox
    BY <1>7 DEF notifySender, startReturns, stopTimer, stopFlag, join, stopCalled, connVars, workerVars
  <2>3. QED
    BY <1>0, <2>1, <2>2, SameInbox, OwnedQuiet DEF SameOwner
<1>8. ASSUME NEW c \in conf.peers, Peer(c) PROVE OwnedInv'
  <2>1. c \in Conns
    BY ThreadsKind
  <2>2. Quiet /\ inbox' = inbox
    BY <1>8, <2>1, PeerStep DEF Peer, peerConnects, peerAsks, peerHangsUp, workerVars
  <2>3. SameOwner
    <3>1. CASE peerConnects(c)
      <4>1. PICK x : conn' = [conn EXCEPT ![c].st = "backlog", ![c].hello = x]
        BY <3>1 DEF peerConnects
      <4>2. \A d \in Conns : [conn EXCEPT ![c].st = "backlog", ![c].hello = x][d].t = conn[d].t
        BY <1>0, <2>1, OwnerEdits
      <4>3. QED
        BY <4>1, <4>2 DEF SameOwner
    <3>2. CASE peerAsks(c)
      <4>1. \A d \in Conns : [conn EXCEPT ![c].asked = @ + 1, ![c].input = @ + 1][d].t = conn[d].t
        BY <1>0, <2>1, OwnerEdits
      <4>2. conn' = [conn EXCEPT ![c].asked = @ + 1, ![c].input = @ + 1]
        BY <3>2 DEF peerAsks
      <4>3. QED
        BY <4>1, <4>2 DEF SameOwner
    <3>3. CASE peerHangsUp(c)
      <4>1. \A d \in Conns : [conn EXCEPT ![c].hup = TRUE][d].t = conn[d].t
        BY <1>0, <2>1, OwnerEdits
      <4>2. QED
        BY <3>3, <4>1 DEF SameOwner, peerHangsUp
    <3>4. QED
      BY <1>8, <3>1, <3>2, <3>3 DEF Peer
  <2>4. QED
    BY <1>0, <2>2, <2>3, SameInbox, OwnedQuiet
<1>9. ASSUME NEW t \in Threads, Thread(t) PROVE OwnedInv'
  BY <1>1, <1>2, <1>3, <1>4, <1>9
<1>10. QED
  BY <1>5, <1>6, <1>7, <1>8, <1>9 DEF Next, Main, Worker

(* transferMsgToIOThread finds the notifier of the thread whose request it  *)
(* answers, unless threads were in the map at the same time.                *)
THEOREM FindsNotifier == Spec => []NotifierFound
<1>1. ASSUME Init PROVE MapInv /\ OwnedInv
  <2>1. \A t \in Threads : pc[t] = "unborn" /\ loop[t] = NewLoop
    BY <1>1 DEF Init
  <2>2. MapInv
    <3>1. DOMAIN snap = Threads /\ crash # "notifier" /\ \A t \in Threads : ~Past(t) /\ pc[t] # "insert"
      BY <1>1, <2>1 DEF Init, Past, Unmapped, None
    <3>2. QED
      BY <3>1 DEF MapInv
  <2>3. \A c \in Conns : conn[c].t = 0 /\ ~Held(NewLoop, c)
    BY <1>1 DEF Init, NewConn, Held, NewLoop, Contains
  <2>4. OwnedInv
    BY <1>1, <2>1, <2>3 DEF OwnedInv, Init
  <2>5. QED
    BY <2>2, <2>4
<1>2. MapInv /\ OwnedInv /\ UNCHANGED vars => (MapInv /\ OwnedInv)'
  BY DEF MapInv, OwnedInv, Past, Clients, Held, vars, loopVars, connVars, workerVars
<1>3. IInv /\ ServiceInv /\ TurnsInv /\ MapInv /\ OwnedInv /\ [Next]_vars => (MapInv /\ OwnedInv)'
  BY <1>2, MapStep, OwnedStep
<1>4. MapInv => NotifierFound
  BY DEF MapInv, NotifierFound
<1>5. Init => TurnsInv
  BY InitTurns
<1>6. IInv /\ ServiceInv /\ TurnsInv /\ [Next]_vars => TurnsInv'
  BY TurnsKept
<1>7. QED
  BY <1>1, <1>3, <1>4, <1>5, <1>6, ThreadsInv, PTL DEF Spec

=============================================================================
