---------------------------- MODULE PriorityQueue ----------------------------
(***************************************************************************)
(* The queue of timed events: the binary heap of lib/prqueue.c with the    *)
(* positions it keeps in its elements, under the operations of             *)
(* lib/squeue.c and of adjust_check_scheduling (base/events.c), which      *)
(* borrows the elements for a second heap.                                 *)
(*                                                                         *)
(* Every turn of the two loops of the heap is a step.  A priority stands   *)
(* for a time of the day, the array grows as it has to, and what is read   *)
(* of it are the cells below size; cell 0 is not used.                     *)
(***************************************************************************)
EXTENDS Integers

CONSTANTS
    Events,         \* the squeue_events that can be allocated
    Priorities,
    NoEvent, Busy

ASSUME PriorityQueueConstants ==
    Priorities \subseteq Nat /\ NoEvent \notin Events /\ Busy \notin Events /\ Busy # NoEvent

Unqueued == -1      \* the priority of an event that is not allocated
Stale == 0          \* a position that was overwritten, or is not set

VARIABLES
    heap,           \* q->d
    size,           \* q->size: one more than there are events
    pri, pos,       \* of each event
    mode,           \* which loop runs, if one does
    moving, hole    \* moving_node and i in that loop

queueVars == <<heap, size, pri, pos, mode, moving, hole>>

InQueue == {e \in Events : pri[e] # Unqueued}
Cells == 1..size - 1

QueueInit ==
    /\ heap = [k \in {} |-> NoEvent] /\ size = 1
    /\ pri = [e \in Events |-> Unqueued] /\ pos = [e \in Events |-> Stale]
    /\ mode = "idle" /\ moving = NoEvent /\ hole = 0

-----------------------------------------------------------------------------
\* The loops.

\* sq_cmp_pri.
After(p, q) == p > q

parent(k) == k \div 2

Rises == hole > 1 /\ After(pri[heap[parent(hole)]], pri[moving])

\* The child whose turn is first, or 0.
maxchild(k) ==
    LET left == 2 * k
        right == 2 * k + 1
    IN IF left >= size THEN 0
       ELSE IF right < size /\ After(pri[heap[left]], pri[heap[right]]) THEN right
       ELSE left

Sinks == LET c == maxchild(hole) IN c # 0 /\ After(pri[moving], pri[heap[c]])

\* One turn: what is in cell k fills the hole, and leaves one.
Turn(k) ==
    /\ heap' = [heap EXCEPT ![hole] = heap[k]]
    /\ pos' = [pos EXCEPT ![heap[k]] = hole]
    /\ hole' = k
    /\ UNCHANGED <<size, pri, mode, moving>>

bubble_up == mode = "up" /\ Rises /\ Turn(parent(hole))

percolate_down == mode = "down" /\ Sinks /\ Turn(maxchild(hole))

\* The end of either loop.
Place ==
    /\ (mode = "up" /\ ~Rises) \/ (mode = "down" /\ ~Sinks)
    /\ heap' = [heap EXCEPT ![hole] = moving]
    /\ pos' = [pos EXCEPT ![moving] = hole]
    /\ mode' = "idle" /\ moving' = NoEvent /\ hole' = 0
    /\ UNCHANGED <<size, pri>>

-----------------------------------------------------------------------------
\* The operations.

\* squeue_add_tv and prqueue_insert.
prqueue_insert(e, p) ==
    /\ mode = "idle" /\ e \notin InQueue
    /\ heap' = [k \in 1..size |-> IF k = size THEN e ELSE heap[k]]
    /\ size' = size + 1
    /\ pri' = [pri EXCEPT ![e] = p]
    /\ mode' = "up" /\ moving' = e /\ hole' = size
    /\ UNCHANGED pos

\* squeue_change_priority_tv and prqueue_change_priority.
prqueue_change_priority(e, p) ==
    /\ mode = "idle" /\ e \in InQueue
    /\ pri' = [pri EXCEPT ![e] = p]
    /\ mode' = IF After(pri[e], p) THEN "up" ELSE "down"
    /\ moving' = e /\ hole' = pos[e]
    /\ UNCHANGED <<heap, size, pos>>

\* The last element takes the place of e in cell k, and loop begins.  e is freed.
\* (Where e is the last itself, the loop only writes to the cell it leaves.)
Replaced(e, k, loop) ==
    LET last == heap[size - 1]
    IN /\ heap' = [j \in 1..size - 2 |-> IF j = k THEN last ELSE heap[j]]
       /\ size' = size - 1
       /\ pri' = [pri EXCEPT ![e] = Unqueued]
       /\ pos' = [pos EXCEPT ![e] = Stale]
       /\ IF e = last THEN UNCHANGED <<mode, moving, hole>>
                      ELSE mode' = loop /\ moving' = last /\ hole' = k

\* Mutation of LoopAfterRemoval: the last element can only sink.
AlwaysDown(e) == "down"

LoopAfterRemoval(e) == IF After(pri[e], pri[heap[size - 1]]) THEN "up" ELSE "down"

\* squeue_remove and prqueue_remove.
prqueue_remove(e) ==
    /\ mode = "idle" /\ e \in InQueue
    /\ Replaced(e, pos[e], LoopAfterRemoval(e))

\* squeue_pop and prqueue_pop.
prqueue_pop ==
    /\ mode = "idle" /\ size > 1
    /\ Replaced(heap[1], 1, "down")

\* adjust_check_scheduling copies the heap and pops from the copy, which moves
\* the positions of the events both of them hold...
PopDuplicate ==
    /\ mode = "idle" /\ size > 1
    /\ mode' = "renumber"
    /\ pos' = [e \in Events |-> Stale]
    /\ UNCHANGED <<heap, size, pri, moving, hole>>

\* Mutation of Renumbered: the first cell is skipped.
RenumberedFromTwo ==
    [e \in Events |-> IF \E k \in Cells \ {1} : heap[k] = e
                      THEN CHOOSE k \in Cells : heap[k] = e ELSE pos[e]]

Renumbered ==
    [e \in Events |-> IF \E k \in Cells : heap[k] = e
                      THEN CHOOSE k \in Cells : heap[k] = e ELSE pos[e]]

\* ... and puts them right before it returns or changes a priority
\* (prqueue_change_priority, for as many events as it likes).
Renumber ==
    /\ mode = "renumber"
    /\ pos' = Renumbered
    /\ mode' = "idle"
    /\ UNCHANGED <<heap, size, pri, moving, hole>>

-----------------------------------------------------------------------------
QueueNext ==
    \/ \E e \in Events, p \in Priorities : prqueue_insert(e, p) \/ prqueue_change_priority(e, p)
    \/ \E e \in Events : prqueue_remove(e)
    \/ prqueue_pop
    \/ bubble_up \/ percolate_down \/ Place
    \/ PopDuplicate \/ Renumber

QueueSpec == QueueInit /\ [][QueueNext]_queueVars

-----------------------------------------------------------------------------
\* Properties.

\* Every variable has its type.
QueueTypeOK ==
    /\ size \in Nat \ {0}
    /\ heap \in [Cells -> Events]
    /\ pri \in [Events -> Priorities \cup {Unqueued}]
    /\ pos \in [Events -> Nat]
    /\ mode \in {"idle", "renumber", "up", "down"}
    /\ IF mode \in {"up", "down"} THEN moving \in Events /\ hole \in Cells
                                  ELSE moving = NoEvent /\ hole = 0

\* Every queued event is in the heap, once, and between operations knows where:
\* squeue_remove and squeue_change_priority_tv go by the position alone, after
\* any number of other events moved through that cell.
PositionsAgree ==
    mode = "idle" =>
        /\ \A e \in InQueue : pos[e] \in Cells /\ heap[pos[e]] = e
        /\ \A k \in Cells : heap[k] \in InQueue /\ pos[heap[k]] = k

QueueContract == INSTANCE EventQueueContract WITH
    at <- pri,
    head <- IF mode \in {"up", "down"} THEN Busy ELSE IF size = 1 THEN NoEvent ELSE heap[1]

\* The head of the queue is an event that nothing comes before, whatever was
\* inserted, moved and removed (prqueue_peek, prqueue_pop).
ImplementsQueueContract == QueueContract!Spec
=============================================================================
