------------------------------- MODULE IOCache -------------------------------
(***************************************************************************)
(* The buffer through which sockets and pipes are read (lib/iocache.c).    *)
(* buf is what has been read into the buffer, without the rest of its      *)
(* memory, so that its length is ioc_buflen.                               *)
(***************************************************************************)
EXTENDS Naturals, Sequences

iocache_create(size) == [buf |-> <<>>, offset |-> 0, bufsize |-> size]

Available(ioc) == Len(ioc.buf) - ioc.offset

\* What is not used yet.
Contents(ioc) == SubSeq(ioc.buf, ioc.offset + 1, Len(ioc.buf))

\* iocache_move_data: also when all is used, where only the counters are reset.
iocache_move_data(ioc) ==
    IF ioc.offset = 0 THEN ioc
    ELSE [ioc EXCEPT !.buf = Contents(ioc), !.offset = 0]

iocache_grow(ioc, increment) ==
    [iocache_move_data(ioc) EXCEPT !.bufsize = @ + increment]

\* iocache_read before it reads: there is room.
WithRoom(ioc) ==
    LET moved == iocache_move_data(ioc)
    IN IF Len(moved.buf) >= moved.bufsize THEN iocache_grow(moved, moved.bufsize) ELSE moved

\* How much of input a read takes.
Taken(ioc, input) ==
    LET room == WithRoom(ioc).bufsize - Len(WithRoom(ioc).buf)
    IN IF Len(input) < room THEN Len(input) ELSE room

\* iocache_read, of all there is room for.
iocache_read(ioc, input) ==
    [WithRoom(ioc) EXCEPT !.buf = @ \o SubSeq(input, 1, Taken(ioc, input))]

\* iocache_use_size returns the next bytes.
iocache_use_size(ioc, size) == [ioc EXCEPT !.offset = @ + size]

\* iocache_use_delim, the scan: the first position from which delim is met, or 0.
\* memchr looks for its first byte where all of it may still follow.
DelimAt(ioc, delim) ==
    LET fits == ioc.offset + 1 .. Len(ioc.buf) + 1 - Len(delim)
        met == {i \in fits : SubSeq(ioc.buf, i, i + Len(delim) - 1) = delim}
    IN IF met = {} THEN 0 ELSE CHOOSE i \in met : \A j \in met : i <= j

\* The bytes before the delimiter, and the buffer after it.
UsedByDelim(ioc, delim) == SubSeq(ioc.buf, ioc.offset + 1, DelimAt(ioc, delim) - 1)

\* iocache_use_delim, when the delimiter is there.
iocache_use_delim(ioc, delim) ==
    iocache_use_size(ioc, DelimAt(ioc, delim) - 1 - ioc.offset + Len(delim))
=============================================================================
