----------------------------- MODULE ExactlyOnce -----------------------------
(***************************************************************************)
(* What a queue promises whatever the interleaving of its threads: every   *)
(* element that a push has accepted is handed to one consumer, at most     *)
(* once, and nothing that was not pushed is handed out.                    *)
(***************************************************************************)
EXTENDS Sequences

CONSTANTS Messages, Consumers

VARIABLES
  sent,   \* the accepted elements
  recv    \* what each consumer was handed, in order

Handed == {m \in Messages : \E c \in Consumers : \E i \in DOMAIN recv[c] : recv[c][i] = m}

Init ==
  /\ sent = {}
  /\ recv = [c \in Consumers |-> <<>>]

Send(m) ==
  /\ m \notin sent
  /\ sent' = sent \cup {m}
  /\ UNCHANGED recv

Deliver(c, m) ==
  /\ m \in sent \ Handed
  /\ recv' = [recv EXCEPT ![c] = Append(@, m)]
  /\ UNCHANGED sent

Next ==
  \/ \E m \in Messages : Send(m)
  \/ \E c \in Consumers, m \in Messages : Deliver(c, m)

Spec == Init /\ [][Next]_<<sent, recv>>
=============================================================================
