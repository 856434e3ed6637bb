------------------------------ MODULE Archive ------------------------------
(***************************************************************************)
(* An `out' and an `in' archive over one buffer, the way a program uses    *)
(* them: out(item) calls in any order, a failed call rewound, both reset   *)
(* and the buffer used again, and `in' reading the items back into objects *)
(* that may hold something.  A byte may change between the two.            *)
(***************************************************************************)
EXTENDS BitSerializer

CONSTANTS Options,   \* the archives' options, and the buffer they start with
          Items,     \* the <<type, value>> pairs that are written
          NewBytes,  \* what a byte may be changed to
          MaxCalls   \* bound: out(item) calls

VARIABLES opt,       \* the options, fixed
          data, outPos, inPos,
          written,   \* the items out has accepted since the reset
          got,       \* what in has returned for them
          failed,    \* the last out call failed and was not rewound
          corrupt,   \* a byte was changed
          calls

vars == <<opt, data, outPos, inPos, written, got, failed, corrupt, calls>>

Init == /\ opt \in Options
        /\ data = opt.initial
        /\ outPos = 0 /\ inPos = 0
        /\ written = <<>> /\ got = <<>>
        /\ failed = FALSE /\ corrupt = FALSE /\ calls = 0

RECURSIVE Parts(_)
Parts(t) == {t} \cup (IF "t" \in DOMAIN t THEN Parts(t.t) ELSE {})
                \cup (IF "ts" \in DOMAIN t THEN UNION {Parts(t.ts[i]) : i \in DOMAIN t.ts}
                      ELSE {})

\* The container sizes of a value that its size type cannot hold.
RECURSIVE Overlong(_, _)
Overlong(t, v) ==
    CASE t.k \in {"vector", "view"} ->
             LET S == SizeType(opt, t)
             IN \/ S # Void /\ Len(v) >= Base ^ S.n
                \/ \E i \in DOMAIN v : Overlong(t.t, v[i])
      [] t.k \in {"optional", "pointer"} -> v # <<>> /\ Overlong(t.t, v[1])
      [] t.k = "members" -> \E i \in DOMAIN v : Overlong(t.ts[i], v[i])
      [] OTHER -> FALSE

\* What `in' can be expected to give back: not a size that was cut, not a bitset
\* that was OR-ed over what the buffer held, and not a protocol's size, which is
\* written in the machine's byte order and read in the archive's.
Exact(t, v) ==
    /\ ~Overlong(t, v)
    /\ \A p \in Parts(t) :
          /\ p.k = "bitset" => \A i \in (outPos + 1)..Len(data) : data[i] = 0
          /\ p.k = "protocol" /\ opt.swapped =>
                 SizeType(opt, p).k # "int" \/ SizeType(opt, p).n = 1

out(item) ==
    LET r == outCall(opt, [data |-> data, pos |-> outPos, err |-> Ok], <<item>>)
    IN /\ ~failed /\ ~corrupt /\ calls < MaxCalls
       /\ calls' = calls + 1
       /\ data' = r.data /\ outPos' = r.pos
       /\ failed' = (r.err # Ok)
       /\ written' = IF r.err # Ok THEN written
                     ELSE Append(written, [item |-> item, from |-> outPos, to |-> r.pos,
                                           exact |-> Exact(item[1], item[2])])
       /\ UNCHANGED <<opt, inPos, got, corrupt>>

\* reset(position): after a failed call the program goes back to the last item.
rewind == /\ failed
          /\ failed' = FALSE
          /\ outPos' = IF written = <<>> THEN 0 ELSE Last(written).to
          /\ UNCHANGED <<opt, data, inPos, written, got, corrupt, calls>>

reset == /\ outPos > 0
         /\ outPos' = 0 /\ inPos' = 0 /\ written' = <<>> /\ got' = <<>> /\ failed' = FALSE
         /\ UNCHANGED <<opt, data, corrupt, calls>>

\* The objects read into: fresh ones, and ones that hold another value.
Objects(item) ==
    {x[2] : x \in {y \in Items : y[1] = item[1]}} \cup {Default(item[1])}

in(old) ==
    LET item == written[Len(got) + 1].item
        t    == item[1]
        r    == inOne(opt, [data |-> data, pos |-> inPos, err |-> Ok, val |-> 0], t, old)
    IN /\ t.k = "vector" /\ SizeType(opt, t) = Void => Len(old) = Len(item[2])
       /\ \A i \in DOMAIN got : got[i].err = Ok
       /\ inPos' = r.pos
       /\ got' = Append(got, [err |-> r.err, pos |-> r.pos,
                              val |-> IF r.err = Ok THEN r.val ELSE 0])
       /\ UNCHANGED <<opt, data, outPos, written, failed, corrupt, calls>>

\* external: what happens to the bytes on the way.
Corrupt == /\ ~corrupt /\ got = <<>> /\ Len(written) = 1 /\ calls = 1
           /\ \E i \in 1..outPos, b \in NewBytes : data' = [data EXCEPT ![i] = b]
           /\ corrupt' = TRUE
           /\ UNCHANGED <<opt, outPos, inPos, written, got, failed, calls>>

Next == \/ \E item \in Items : out(item)
        \/ rewind
        \/ reset
        \/ Len(got) < Len(written) /\ \E old \in Objects(written[Len(got) + 1].item) : in(old)
        \/ Corrupt

Spec == Init /\ [][Next]_vars

-----------------------------------------------------------------------------

\* What `in' reads is what `out' wrote, in order, and it ends where the writer
\* ended, whatever the objects held before and whatever failed calls and earlier
\* uses left in the buffer (serialize_one of basic_out and of in).
RoundTrip ==
    \A i \in DOMAIN got :
        ~corrupt /\ (\A j \in 1..i : written[j].exact) =>
            /\ got[i].err = Ok
            /\ got[i].val = written[i].item[2]
            /\ got[i].pos = written[i].to

\* Data cut anywhere inside the last item is refused with result_out_of_range:
\* no proper prefix of an item's bytes is taken for an item.
CutRefused ==
    written # <<>> /\ ~corrupt /\ Last(written).exact =>
        LET w == Last(written)
        IN \A k \in w.from..(w.to - 1) :
              inOne(opt, [data |-> SubSeq(data, 1, k), pos |-> w.from, err |-> Ok, val |-> 0],
                    w.item[1], w.item[2]).err = "result_out_of_range"

RECURSIVE Valid(_, _)
Valid(t, v) ==
    CASE t.k \in {"int", "varint"} -> IF t.signed THEN 2 * v \in -(Base ^ t.n)..(Base ^ t.n - 1)
                                      ELSE v \in 0..(Base ^ t.n - 1)
      [] t.k = "members" -> \A i \in DOMAIN t.ts : Valid(t.ts[i], v[i])
      [] t.k = "variant" -> v[1] \in DOMAIN t.ts /\ Valid(t.ts[v[1]], v[2])
      [] t.k = "map" -> /\ \A x \in v : Valid(t.t, x)
                        /\ \A x, y \in v : x[1] = y[1] => x = y
      [] t.k = "bitset" -> \A i \in DOMAIN v : v[i] \in {0, 1}
      [] t.k = "protocol" -> Valid(t.t, v)
      [] OTHER -> \A i \in DOMAIN v : Valid(t.t, v[i])

\* Whatever the bytes are, a read that succeeds gives a value of its type and
\* stays inside the data, and one that fails leaves the position inside it too.
ReadStaysValid ==
    /\ inPos <= Len(data)
    /\ \A i \in DOMAIN got : got[i].err = Ok => Valid(written[i].item[1], got[i].val)
=============================================================================
