----------------------------- MODULE MCMPSCQueue -----------------------------
(* MPSCQueue for TLC. *)
EXTENDS MPSCQueue

(* The index map of a queue too small to be shuffled (remapIndex<0>). *)
MCRemap == [i \in Slots |-> i]
=============================================================================
