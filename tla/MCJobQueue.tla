------------------------------ MODULE MCJobQueue -----------------------------
(* JobQueue for TLC. *)
EXTENDS JobQueue

CONSTANTS j1, j2, j3

(* The first and the third job are equal for Job::operator==. *)
MCKey == [j \in Jobs |-> IF j = j3 THEN j1 ELSE j]
=============================================================================
