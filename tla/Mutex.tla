-------------------------------- MODULE Mutex --------------------------------
(***************************************************************************)
(* What a fair lock promises: threads own it one at a time, in the order   *)
(* in which they asked for it.                                             *)
(***************************************************************************)
EXTENDS Sequences

CONSTANT Threads

VARIABLES
  queue,   \* the threads that asked and have not released, oldest first
  owner    \* {t} while t owns the lock, else {}

Init ==
  /\ queue = <<>>
  /\ owner = {}

Ask(t) ==
  /\ queue' = Append(queue, t)
  /\ UNCHANGED owner

Acquire(t) ==
  /\ owner = {}
  /\ queue # <<>> /\ Head(queue) = t
  /\ owner' = {t}
  /\ UNCHANGED queue

Release(t) ==
  /\ owner = {t}
  /\ queue' = Tail(queue)
  /\ owner' = {}

Next == \E t \in Threads : Ask(t) \/ Acquire(t) \/ Release(t)

Spec == Init /\ [][Next]_<<queue, owner>>
=============================================================================
