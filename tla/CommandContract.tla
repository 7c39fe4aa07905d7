--------------------------- MODULE CommandContract ---------------------------
(***************************************************************************)
(* What the command file promises to those who write external commands     *)
(* into it: the lines arrive as they were written, in order and once.      *)
(* Where a process failed, one stretch of what was on the way may be       *)
(* missing.                                                                *)
(***************************************************************************)
EXTENDS Naturals, Sequences

CONSTANTS Lines, Newline

VARIABLES
    stream,     \* the bytes on the way
    processed,  \* the bytes of the lines that arrived
    failures    \* how many times something may have been lost

vars == <<stream, processed, failures>>

Init == stream = <<>> /\ processed = <<>> /\ failures = 0

After(i) == SubSeq(stream, i + 1, Len(stream))

Submit(line) == stream' = stream \o line /\ UNCHANGED <<processed, failures>>

\* All up to some newline arrives.
Arrive ==
    \E i \in DOMAIN stream :
        /\ stream[i] = Newline
        /\ processed' = processed \o SubSeq(stream, 1, i)
        /\ stream' = After(i)
        /\ UNCHANGED failures

\* The bytes between two positions are lost.
Lose ==
    \E i \in 0..Len(stream) : \E j \in i..Len(stream) :
        /\ stream' = SubSeq(stream, 1, i) \o After(j)
        /\ failures' = failures + 1
        /\ UNCHANGED processed

Next == (\E line \in Lines : Submit(line)) \/ Arrive \/ Lose

Spec == Init /\ [][Next]_vars
=============================================================================
