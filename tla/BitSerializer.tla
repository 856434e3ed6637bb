--------------------------- MODULE BitSerializer ---------------------------
(***************************************************************************)
(* The binary serializer (reflection/BitSerializer.h and the varint, the   *)
(* optional_ptr and the variant traits of Reflection.h), as operators.  A  *)
(* type is a record whose field k names the serialize_one overload that    *)
(* the code picks at compile time; a value is a number, a sequence or a    *)
(* set.  An archive is [data, pos, err], and what `in' reads is in val.    *)
(* A byte has CharBit bits, so that every width keeps its boundaries at a  *)
(* small size.  Options o are the template options of an archive.          *)
(***************************************************************************)
EXTENDS Integers, Sequences, SequencesExt, FiniteSetsExt, Bitwise

CONSTANT CharBit   \* CHAR_BIT

ASSUME CharBitAssumption == CharBit \in Nat \ {0, 1}

Base == 2 ^ CharBit
Cont == 2 ^ (CharBit - 1)      \* 0x80, the continuation bit of a varint byte

Ok == "ok"
Void == [k |-> "void"]
ByteT == [k |-> "int", n |-> 1, signed |-> FALSE]

Fail(ar, e) == [ar EXCEPT !.err = e]
Left(ar) == Len(ar.data) - ar.pos
Remaining(ar) == SubSeq(ar.data, ar.pos + 1, Len(ar.data))

\* An object's bytes in memory, least significant first, and the other way.
Digits(v, n) == [i \in 1..n |-> ((v % Base ^ n) \div Base ^ (i - 1)) % Base]
Number(bs) == FoldRight(LAMBDA b, acc : b + Base * acc, bs, 0)
Cast(u, t) == IF t.signed /\ u >= Base ^ t.n \div 2 THEN u - Base ^ t.n ELSE u

ByteOrder(o, bs) == IF o.swapped THEN Reverse(bs) ELSE bs

\* Whether an element type is copied as plain bytes (serialize_as_bytes).
AsBytes(o, t) == t.k = "int" /\ (t.n = 1 \/ ~o.swapped)

Sizeof(t) == IF t.k \in {"int", "varint"} THEN t.n ELSE 1

SizeType(o, t) == IF t.size.k = "default" THEN o.size ELSE t.size

-----------------------------------------------------------------------------
(* Room in the buffer: a vector grows by the enlarger's factor, a span does *)
(* not.                                                                      *)

enlarge_for(o, ar, n) ==
    LET size == Len(ar.data)
        new  == ((size + n) * o.enlarger[1]) \div o.enlarger[2]
    IN IF n <= Left(ar) THEN ar
       ELSE IF new > o.limit THEN Fail(ar, "no_buffer_space")
       ELSE [ar EXCEPT !.data = @ \o [i \in 1..(new - size) |-> 0]]

Room(o, ar, n) ==
    IF o.resizable THEN enlarge_for(o, ar, n)
    ELSE IF n > Left(ar) THEN Fail(ar, "result_out_of_range") ELSE ar

Put(ar, bs) ==
    [ar EXCEPT !.pos = @ + Len(bs),
               !.data = [i \in DOMAIN @ |-> IF i > ar.pos /\ i <= ar.pos + Len(bs)
                                            THEN bs[i - ar.pos] ELSE @[i]]]

PutBytes(o, ar, bs) ==
    LET r == Room(o, ar, Len(bs)) IN IF r.err = Ok THEN Put(r, bs) ELSE r

-----------------------------------------------------------------------------
(* varint: CharBit - 1 bits a byte, the least significant first.             *)

varint_max_size(n) == ((n * CharBit) \div (CharBit - 1)) + 1

varint_size(v) ==
    LET bits == CHOOSE b \in 1..32 : 2 ^ (b - 1) <= (v | 1) /\ (v | 1) < 2 ^ b
    IN (bits + (CharBit - 2)) \div (CharBit - 1)

ZigZag(u, n) == LET twice == (2 * u) % Base ^ n
                IN IF u >= Base ^ n \div 2 THEN Base ^ n - 1 - twice ELSE twice
UnZigZag(u, n) == IF u % 2 = 0 THEN u \div 2 ELSE Base ^ n - 1 - u \div 2

outVarint(o, ar, t, v) ==
    LET u     == v % Base ^ t.n
        value == IF t.zigzag THEN ZigZag(u, t.n) ELSE u
        r     == IF o.resizable THEN enlarge_for(o, ar, varint_max_size(t.n))
                 ELSE IF /\ Left(ar) < varint_max_size(t.n)
                         /\ Left(ar) < varint_size(value)
                      THEN Fail(ar, "result_out_of_range") ELSE ar
        count == CHOOSE c \in 1..32 : /\ value < Cont ^ c
                                      /\ c = 1 \/ value >= Cont ^ (c - 1)
        digit(i) == (value \div Cont ^ (i - 1)) % Cont
    IN IF r.err # Ok THEN r
       ELSE Put(r, [i \in 1..count |-> IF i < count THEN digit(i) + Cont ELSE digit(i)])

\* Mutant: short data is read like long data, past its end (where 0 lies).
decode_varintUnguarded(bs, n) ==
    LET max  == varint_max_size(n)
        past == bs \o [i \in 1..max |-> 0]
        ends == {i \in 1..max : past[i] < Cont}
        k    == Min(ends)
        sum  == FoldRight(LAMBDA b, acc : (b % Cont) + Cont * acc, SubSeq(past, 1, k), 0)
    IN IF ends # {} THEN [err |-> Ok, value |-> sum % Base ^ n, size |-> k]
       ELSE [err |-> "value_too_large", value |-> 0, size |-> 0]
\* The first byte without the continuation bit ends the number.  Data shorter
\* than the longest varint may end first; else every byte had the bit.
decode_varint(bs, n) ==
    LET max  == varint_max_size(n)
        ends == {i \in DOMAIN bs : i <= max /\ bs[i] < Cont}
        k    == Min(ends)
        sum  == FoldRight(LAMBDA b, acc : (b % Cont) + Cont * acc, SubSeq(bs, 1, k), 0)
    IN IF ends # {} THEN [err |-> Ok, value |-> sum % Base ^ n, size |-> k]
       ELSE [err |-> IF Len(bs) < max THEN "result_out_of_range" ELSE "value_too_large",
             value |-> 0, size |-> 0]

inVarint(ar, t) ==
    LET d == decode_varint(Remaining(ar), t.n)
    IN IF d.err # Ok THEN Fail(ar, d.err)
       ELSE [ar EXCEPT !.pos = @ + d.size,
                       !.val = Cast(IF t.zigzag THEN UnZigZag(d.value, t.n) ELSE d.value, t)]

-----------------------------------------------------------------------------
(* basic_out.                                                                *)

RECURSIVE outOne(_, _, _, _)

\* serialize_many: one item after the other until one fails.
outMany(o, ar, items) ==
    FoldLeft(LAMBDA a, x : IF a.err = Ok THEN outOne(o, a, x[1], x[2]) ELSE a, ar, items)

outFundamental(o, ar, t, v) == PutBytes(o, ar, ByteOrder(o, Digits(v, t.n)))

outArray(o, ar, t, v) ==
    IF AsBytes(o, t) THEN PutBytes(o, ar, FlattenSeq([i \in DOMAIN v |-> Digits(v[i], t.n)]))
    ELSE outMany(o, ar, [i \in DOMAIN v |-> <<t, v[i]>>])

\* The size goes first, cast to the size type (the cast of a number is in
\* Digits and in outVarint); an unsized container writes none.
outContainer(o, ar, t, v) ==
    LET S == SizeType(o, t)
        r == IF S = Void THEN ar ELSE outOne(o, ar, S, Len(v))
    IN IF r.err # Ok THEN r
       ELSE IF t.k = "map" THEN outMany(o, r, [i \in DOMAIN v |-> <<t.t, v[i]>>])
       ELSE outArray(o, r, t.t, v)

\* std::optional, and optional_ptr.
outOptional(o, ar, t, v) ==
    IF v = <<>> THEN outOne(o, ar, ByteT, 0)
    ELSE outMany(o, ar, <<<<ByteT, 1>>, <<t.t, v[1]>>>>)

\* variant.index() is v[1] - 1; 0 stands for a valueless variant.
outVariant(o, ar, t, v) ==
    IF v[1] = 0 THEN Fail(ar, "invalid_argument")
    ELSE outMany(o, ar, <<<<ByteT, t.ids[v[1]]>>, <<t.ts[v[1]], v[2]>>>>)

outPointer(o, ar, t, v) ==
    IF v = <<>> THEN Fail(ar, "invalid_argument") ELSE outOne(o, ar, t.t, v[1])

BitsetBytes(n) == (n + (CharBit - 1)) \div CharBit

\* The bits are OR-ed into the bytes that the buffer holds.
outBitset(o, ar, t, v) ==
    LET size == BitsetBytes(t.n)
        r    == Room(o, ar, size)
        bits(j) == {i \in 0..(t.n - 1) : i \div CharBit = j - 1 /\ v[i + 1] = 1}
        byte(j) == FoldSet(LAMBDA i, acc : acc | 2 ^ (i % CharBit),
                           r.data[r.pos + j], bits(j))
    IN IF r.err # Ok THEN r ELSE Put(r, [j \in 1..size |-> byte(j)])

\* A nested archive without options, over as many bytes as the size type has in
\* memory, writes the size, once it is known, over the placeholder; a varint may
\* need more bytes than the placeholder's one, or than its type has.
Plain(o) == [o EXCEPT !.swapped = FALSE, !.resizable = FALSE]

outProtocol(o, ar, t, v) ==
    LET S      == SizeType(o, t)
        holder == outOne(o, ar, S, 0)
        body   == outOne(o, holder, t.t, v)
        from   == holder.pos
        count  == body.pos - from
        extra  == IF S.k = "varint" THEN varint_size(count) - 1 ELSE 0
        r      == Room(o, body, extra)
        moved  == Put([r EXCEPT !.pos = from + extra], SubSeq(r.data, from + 1, body.pos))
        span   == SubSeq(moved.data, 1, Min({ar.pos + Sizeof(S), Len(moved.data)}))
        sized  == outOne(Plain(o), [ar EXCEPT !.data = span], S, count)
        rest   == SubSeq(moved.data, Len(span) + 1, Len(moved.data))
    IN IF S = Void THEN outOne(o, ar, t.t, v)
       ELSE IF holder.err # Ok THEN holder
       ELSE IF body.err # Ok THEN body
       ELSE IF r.err # Ok THEN r
       ELSE [moved EXCEPT !.data = sized.data \o rest, !.err = sized.err]

outOne(o, ar, t, v) ==
    CASE t.k = "int" -> outFundamental(o, ar, t, v)
      [] t.k = "varint" -> outVarint(o, ar, t, v)
      [] t.k = "members" -> outMany(o, ar, [i \in DOMAIN v |-> <<t.ts[i], v[i]>>])
      [] t.k = "array" -> outArray(o, ar, t.t, v)
      [] t.k \in {"vector", "view"} -> outContainer(o, ar, t, v)
      [] t.k = "map" -> outContainer(o, ar, t, SetToSeq(v))
      [] t.k = "optional" -> outOptional(o, ar, t, v)
      [] t.k = "variant" -> outVariant(o, ar, t, v)
      [] t.k = "pointer" -> outPointer(o, ar, t, v)
      [] t.k = "bitset" -> outBitset(o, ar, t, v)
      [] t.k = "protocol" -> outProtocol(o, ar, t, v)

\* out::operator(): the spare room is given back where the position has reached
\* the size the data had before.
outCall(o, ar, items) ==
    LET r == outMany(o, ar, items)
    IN IF o.resizable /\ o.enlarger # <<1, 1>> /\ r.pos >= Len(ar.data)
       THEN [r EXCEPT !.data = SubSeq(@, 1, r.pos)] ELSE r

-----------------------------------------------------------------------------
(* in.  old is what the object held before it is read into.                  *)

RECURSIVE Default(_)
Default(t) ==
    CASE t.k \in {"int", "varint"} -> 0
      [] t.k = "members" -> [i \in DOMAIN t.ts |-> Default(t.ts[i])]
      [] t.k = "array" -> [i \in 1..t.n |-> Default(t.t)]
      [] t.k = "variant" -> <<1, Default(t.ts[1])>>
      [] t.k = "bitset" -> [i \in 1..t.n |-> 0]
      [] t.k = "map" -> {}
      [] t.k = "protocol" -> Default(t.t)
      [] OTHER -> <<>>

RECURSIVE inOne(_, _, _, _)

inMany(o, ar, ts, olds) ==
    LET read(a, i) == LET r == inOne(o, a, ts[i], olds[i])
                      IN IF a.err # Ok THEN a
                         ELSE IF r.err # Ok THEN r
                         ELSE [r EXCEPT !.val = Append(a.val, r.val)]
    IN FoldLeft(read, [ar EXCEPT !.val = <<>>], [i \in DOMAIN ts |-> i])

inBytes(ar, n) ==
    IF n > Left(ar) THEN Fail(ar, "result_out_of_range")
    ELSE [ar EXCEPT !.pos = @ + n, !.val = SubSeq(ar.data, ar.pos + 1, ar.pos + n)]

inFundamental(o, ar, t) ==
    LET r == inBytes(ar, t.n)
    IN IF r.err # Ok THEN r ELSE [r EXCEPT !.val = Cast(Number(ByteOrder(o, r.val)), t)]

\* n elements over the ones in olds, as one run of bytes where they are plain.
inArray(o, ar, t, n, olds) ==
    LET r == inBytes(ar, n * t.n)
        element(i) == Cast(Number(SubSeq(r.val, (i - 1) * t.n + 1, i * t.n)), t)
    IN IF ~AsBytes(o, t) THEN inMany(o, ar, [i \in 1..n |-> t], olds)
       ELSE IF r.err # Ok THEN r ELSE [r EXCEPT !.val = [i \in 1..n |-> element(i)]]

\* A vector is resized before its elements are read; a view of constant bytes
\* is set on the data itself.  An unsized vector keeps the size it has.
inContainer(o, ar, t, old) ==
    LET S == SizeType(o, t)
        r == IF S = Void THEN [ar EXCEPT !.val = Len(old)] ELSE inOne(o, ar, S, 0)
        resized == [i \in 1..r.val |-> IF i <= Len(old) THEN old[i] ELSE Default(t.t)]
    IN IF r.err # Ok THEN r
       ELSE IF t.k = "view" THEN inBytes(r, IF S = Void THEN Left(r) ELSE r.val)
       ELSE IF S # Void /\ r.val > o.limit \div Sizeof(t.t) THEN Fail(r, "message_size")
       ELSE inArray(o, r, t.t, r.val, resized)

\* insert keeps the element that is there for a key.
insert(set, x) == IF \E y \in set : y[1] = x[1] THEN set ELSE set \cup {x}

\* Mutant: what the container held is not cleared.
inAssociativeKept(o, ar, t, old) ==
    LET r == inOne(o, ar, SizeType(o, t), 0)
        s == inMany(o, r, [i \in 1..r.val |-> t.t], [i \in 1..r.val |-> Default(t.t)])
    IN IF r.err # Ok THEN r
       ELSE IF s.err # Ok THEN s
       ELSE [s EXCEPT !.val = FoldLeft(insert, old, s.val)]
inAssociative(o, ar, t, old) ==
    LET r == inOne(o, ar, SizeType(o, t), 0)
        s == inMany(o, r, [i \in 1..r.val |-> t.t], [i \in 1..r.val |-> Default(t.t)])
    IN IF r.err # Ok THEN r
       ELSE IF s.err # Ok THEN s
       ELSE [s EXCEPT !.val = FoldLeft(insert, {}, s.val)]

\* Mutant: the missing flag at the end of the data counts as `no value'.
inOptionalLenient(o, ar, t, old) ==
    LET r == inOne(o, ar, ByteT, 0)
        s == inOne(o, r, t.t, IF old = <<>> THEN Default(t.t) ELSE old[1])
    IN IF r.err # Ok THEN [ar EXCEPT !.val = <<>>]
       ELSE IF r.val = 0 THEN [r EXCEPT !.val = <<>>]
       ELSE IF s.err # Ok THEN s ELSE [s EXCEPT !.val = <<@>>]
inOptional(o, ar, t, old) ==
    LET r == inOne(o, ar, ByteT, 0)
        s == inOne(o, r, t.t, IF old = <<>> THEN Default(t.t) ELSE old[1])
    IN IF r.err # Ok THEN r
       ELSE IF r.val = 0 THEN [r EXCEPT !.val = <<>>]
       ELSE IF s.err # Ok THEN s ELSE [s EXCEPT !.val = <<@>>]

\* traits::variant::index: the alternative whose id it is, or past every index.
index(t, id) == IF \E i \in DOMAIN t.ids : t.ids[i] = id
                THEN CHOOSE i \in DOMAIN t.ids : t.ids[i] = id ELSE 0

inVariant(o, ar, t, old) ==
    LET r == inOne(o, ar, ByteT, 0)
        i == index(t, r.val)
        s == inOne(o, r, t.ts[i], IF old[1] = i THEN old[2] ELSE Default(t.ts[i]))
    IN IF r.err # Ok THEN r
       ELSE IF i = 0 THEN Fail(r, "bad_message")
       ELSE IF s.err # Ok THEN s ELSE [s EXCEPT !.val = <<i, @>>]

inPointer(o, ar, t) ==
    LET r == inOne(o, ar, t.t, Default(t.t))
    IN IF r.err # Ok THEN r ELSE [r EXCEPT !.val = <<@>>]

inBitset(ar, t) ==
    LET r == inBytes(ar, BitsetBytes(t.n))
        bit(i) == (r.val[(i \div CharBit) + 1] \div 2 ^ (i % CharBit)) % 2
    IN IF r.err # Ok THEN r ELSE [r EXCEPT !.val = [i \in 1..t.n |-> bit(i - 1)]]

\* The item's protocol is given the size and reads that many bytes.
readSized(o, ar, t, old, size) ==
    LET r == inOne(o, ar, t, old)
    IN IF r.err = Ok /\ r.pos # ar.pos + size THEN Fail(r, "bad_message") ELSE r

inProtocol(o, ar, t, old) ==
    LET S == SizeType(o, t)
        r == inOne(o, ar, S, 0)
    IN IF S = Void THEN inOne(o, ar, t.t, old)
       ELSE IF r.err # Ok THEN r ELSE readSized(o, r, t.t, old, r.val)

inOne(o, ar, t, old) ==
    CASE t.k = "int" -> inFundamental(o, ar, t)
      [] t.k = "varint" -> inVarint(ar, t)
      [] t.k = "members" -> inMany(o, ar, t.ts, old)
      [] t.k = "array" -> inArray(o, ar, t.t, t.n, old)
      [] t.k \in {"vector", "view"} -> inContainer(o, ar, t, old)
      [] t.k = "map" -> inAssociative(o, ar, t, old)
      [] t.k = "optional" -> inOptional(o, ar, t, old)
      [] t.k = "variant" -> inVariant(o, ar, t, old)
      [] t.k = "pointer" -> inPointer(o, ar, t)
      [] t.k = "bitset" -> inBitset(ar, t)
      [] t.k = "protocol" -> inProtocol(o, ar, t, old)
=============================================================================
