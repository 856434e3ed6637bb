--------------------------- MODULE MCAtomicQueue2 ----------------------------
(* AtomicQueue2 for TLC. *)
EXTENDS AtomicQueue2

(* The index map of a queue too small to be shuffled (remapIndex<0>). *)
MCRemap == [i \in Slots |-> i]
=============================================================================
