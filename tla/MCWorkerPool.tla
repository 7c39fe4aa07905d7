---------------------------- MODULE MCWorkerPool ----------------------------
(* WorkerPool with named workers, jobs and commands, for TLC. *)
EXTENDS WorkerPool

CONSTANTS w1, w2, w3, j1, j2, j3, ping, snmp

\* Two global workers and one that registers for a plugin.
MCPlugins == [w \in Workers |-> IF w = w3 THEN <<snmp>> ELSE <<>>]
MCCommandOf == [j \in Jobs |-> IF j = j3 THEN snmp ELSE ping]
MCIsCallback == [j \in Jobs |-> j = j2]
=============================================================================
