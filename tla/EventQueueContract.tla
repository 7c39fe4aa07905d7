-------------------------- MODULE EventQueueContract --------------------------
(***************************************************************************)
(* What the event queue promises the event loop of the master and of the   *)
(* workers: whatever is added, moved or removed, in any order, the head of *)
(* the queue is an event that nothing in the queue comes before.           *)
(***************************************************************************)
EXTENDS Integers

CONSTANTS
    Events,
    Priorities,
    Unqueued,   \* instead of a priority: the event is not in the queue
    NoEvent,    \* instead of a head: the queue is empty
    Busy        \* instead of a head: an operation is under way

VARIABLES
    at,         \* the priority of each event
    head

vars == <<at, head>>

Queued == {e \in Events : at[e] # Unqueued}

Settled ==
    \/ head = NoEvent /\ Queued = {}
    \/ head \in Queued /\ \A e \in Queued : at[head] <= at[e]

Init == at = [e \in Events |-> Unqueued] /\ head = NoEvent

\* An operation is under way, or over.
Shown == head' = Busy \/ Settled'

Add(e, p) == e \notin Queued /\ at' = [at EXCEPT ![e] = p] /\ Shown
Move(e, p) == e \in Queued /\ at' = [at EXCEPT ![e] = p] /\ Shown
Remove(e) == e \in Queued /\ at' = [at EXCEPT ![e] = Unqueued] /\ Shown
Settle == head = Busy /\ Shown /\ UNCHANGED at

Next ==
    \/ \E e \in Events, p \in Priorities : head # Busy /\ (Add(e, p) \/ Move(e, p))
    \/ \E e \in Events : head # Busy /\ Remove(e)
    \/ Settle

Spec == Init /\ [][Next]_vars
=============================================================================
