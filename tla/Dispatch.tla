------------------------------ MODULE Dispatch ------------------------------
(***************************************************************************)
(* What a server promises of its connections: each is handed to one of n   *)
(* threads, the threads taking turns, and each thread opens the            *)
(* connections handed to it once each, in the order of the hand-over.      *)
(***************************************************************************)
EXTENDS Naturals, Sequences

VARIABLES n, handed, opened

Init == n \in Nat /\ handed = <<>> /\ opened = [t \in 1..n |-> <<>>]

Hand == /\ Len(handed') = Len(handed) + 1
        /\ SubSeq(handed', 1, Len(handed)) = handed
        /\ opened' = opened

\* The position in handed of the next connection of thread t.
NextOf(t) == Len(opened[t]) * n + t

Open(t) == /\ NextOf(t) <= Len(handed)
           /\ opened' = [opened EXCEPT ![t] = Append(@, handed[NextOf(t)])]
           /\ handed' = handed

Spec == Init /\ [][n' = n /\ (Hand \/ \E t \in 1..n : Open(t))]_<<n, handed, opened>>
=============================================================================
