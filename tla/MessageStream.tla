--------------------------- MODULE MessageStream ---------------------------
(***************************************************************************)
(* What a connection promises in one direction: the messages are handed to *)
(* the receiver's callbacks one by one, each once, whole and in the order  *)
(* in which they were sent, for as long as the stream is not spoilt.       *)
(***************************************************************************)
EXTENDS Naturals, Sequences

VARIABLES sent, recv, spoilt

Init == sent = <<>> /\ recv = <<>> /\ spoilt = FALSE

Send == /\ Len(sent') = Len(sent) + 1
        /\ SubSeq(sent', 1, Len(sent)) = sent
        /\ recv' = recv

Deliver == /\ Len(recv) < Len(sent)
           /\ recv' = Append(recv, sent[Len(recv) + 1])
           /\ sent' = sent

\* A spoilt stream stays so, and nothing is promised of it.
Spoil == spoilt' = TRUE

Next == Spoil \/ (~spoilt' /\ (Send \/ Deliver))

Spec == Init /\ [][(spoilt => spoilt') /\ Next]_<<sent, recv, spoilt>>
=============================================================================
