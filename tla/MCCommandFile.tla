---------------------------- MODULE MCCommandFile ----------------------------
(* A small instance of CommandFile: a short line and one that is longer than  *)
(* the master's buffer.                                                       *)
EXTENDS CommandFile

CONSTANTS a, b, nl

MCLines == {<<a, nl>>, <<b, a, b, nl>>}

\* The scan of iocache_use_delim with a delimiter of two bytes: memchr from buf
\* on, and on behind a first byte that is not followed by the second.
RECURSIVE Scan(_, _, _)
Scan(bytes, from, delim) ==
    LET candidates == {i \in from..Len(bytes) + 1 - Len(delim) : bytes[i] = Head(delim)}
    IN IF candidates = {} THEN 0 ELSE
       LET at == CHOOSE i \in candidates : \A j \in candidates : i <= j
       IN IF SubSeq(bytes, at, at + Len(delim) - 1) = delim THEN at ELSE Scan(bytes, at + 1, delim)

ASSUME ScanFindsTheFirst ==
    \A n \in 0..5, delim \in {<<a>>, <<a, b>>, <<a, a>>, <<a, a, b>>} :
        \A bytes \in [1..n -> {a, b}], offset \in 0..n :
            LET ioc == [buf |-> bytes, offset |-> offset, bufsize |-> 5]
            IN DelimAt(ioc, delim) = Scan(bytes, offset + 1, delim)
=============================================================================
