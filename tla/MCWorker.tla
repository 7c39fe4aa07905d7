------------------------------- MODULE MCWorker -------------------------------
(* Worker with two named jobs of different timeouts, for TLC. *)
EXTENDS Worker

CONSTANTS j1, j2

MCJobTimeout == [j \in Jobs |-> IF j = j1 THEN 1 ELSE 2]
=============================================================================
