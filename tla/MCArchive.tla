------------------------------ MODULE MCArchive ------------------------------
(* Items of every kind, with 4-bit bytes, for TLC. *)
EXTENDS Archive

Uint(n) == [k |-> "int", n |-> n, signed |-> FALSE]
VarInt(n) == [k |-> "varint", n |-> n, zigzag |-> FALSE, signed |-> FALSE]
ZigZagInt(n) == [k |-> "varint", n |-> n, zigzag |-> TRUE, signed |-> TRUE]
Auto == [k |-> "default"]
Vector(size, t) == [k |-> "vector", size |-> size, t |-> t]
Pair(t, u) == [k |-> "members", ts |-> <<t, u>>]
Optional(t) == [k |-> "optional", t |-> t]
Either == [k |-> "variant", ts |-> <<Uint(2), VarInt(2)>>, ids |-> <<5, 9>>]
Map == [k |-> "map", size |-> Auto, t |-> Pair(Uint(1), Uint(1))]
Bits == [k |-> "bitset", n |-> 5]
Protocol(size, t) == [k |-> "protocol", size |-> size, t |-> t]
View == [k |-> "view", size |-> Auto, t |-> Uint(1)]

Repeat(n, v) == [i \in 1..n |-> v]

MCItems ==
    {<<Uint(2), v>> : v \in {0, 19, 255}}
    \cup {<<VarInt(2), v>> : v \in {0, 7, 8, 63, 64, 255}}
    \cup {<<ZigZagInt(2), v>> : v \in {-128, -5, 0, 127}}
    \cup {<<[k |-> "int", n |-> 1, signed |-> TRUE], -3>>}
    \cup {<<Vector(Auto, Uint(1)), v>> : v \in {<<>>, <<1, 2>>, Repeat(16, 3)}}
    \cup {<<Vector(Auto, Uint(2)), v>> : v \in {<<17>>, <<18, 35>>}}
    \cup {<<Vector(Void, VarInt(1)), <<9, 1>>>>, <<View, <<4, 5>>>>}
    \cup {<<Vector(Auto, Optional(Uint(1))), v>> : v \in {<<<<>>, <<6>>>>, <<<<2>>>>}}
    \cup {<<[k |-> "array", n |-> 2, t |-> Uint(2)], v>> : v \in {<<1, 16>>, <<0, 0>>}}
    \cup {<<Map, v>> : v \in {{}, {<<1, 2>>, <<3, 4>>}}}
    \cup {<<Either, v>> : v \in {<<0, 0>>, <<1, 33>>, <<2, 100>>}}
    \cup {<<[k |-> "pointer", t |-> Uint(2)], v>> : v \in {<<>>, <<20>>}}
    \cup {<<Bits, v>> : v \in {<<1, 0, 0, 1, 1>>, <<0, 1, 0, 0, 0>>}}
    \cup {<<Protocol(Auto, Pair(Uint(1), Optional(Uint(2)))), v>> : v \in {<<3, <<>>>>, <<8, <<21>>>>}}
    \cup {<<Protocol(VarInt(2), Vector(VarInt(1), Uint(1))), Repeat(9, 2)>>,
          <<Protocol(VarInt(1), Vector(Void, Uint(1))), Repeat(8, 1)>>,
          <<Protocol(Void, Uint(1)), 4>>}

MCOptions ==
    {[resizable |-> TRUE, swapped |-> FALSE, limit |-> 99, enlarger |-> <<3, 2>>,
      size |-> Uint(1), initial |-> <<>>],
     [resizable |-> TRUE, swapped |-> TRUE, limit |-> 99, enlarger |-> <<3, 2>>,
      size |-> Uint(2), initial |-> <<>>],
     [resizable |-> TRUE, swapped |-> FALSE, limit |-> 8, enlarger |-> <<1, 1>>,
      size |-> VarInt(2), initial |-> <<>>],
     [resizable |-> FALSE, swapped |-> FALSE, limit |-> 99, enlarger |-> <<3, 2>>,
      size |-> Uint(1), initial |-> Repeat(7, 0)]}
=============================================================================
