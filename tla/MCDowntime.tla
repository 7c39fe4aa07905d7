------------------------------ MODULE MCDowntime ------------------------------
(* A small instance of Downtime: a fixed downtime and a flexible one whose     *)
(* window opens first and which, started late, ends last.                      *)
EXTENDS Downtime

MCRequests ==
    {[fixed |-> TRUE, start_time |-> 1, end_time |-> 2, duration |-> 1],
     [fixed |-> FALSE, start_time |-> 0, end_time |-> 1, duration |-> 2]}
=============================================================================
