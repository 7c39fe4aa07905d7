--------------------------- MODULE DowntimeContract ---------------------------
(***************************************************************************)
(* What scheduled downtime promises: a downtime waits, is in effect and is *)
(* over, in this order; what is over does not come back; an object is in   *)
(* downtime while some downtime of it is in effect; and what ends or is    *)
(* cancelled takes along whatever it triggered.                            *)
(***************************************************************************)
CONSTANTS
    Objects,    \* hosts and services
    Ids,        \* downtime ids
    NoTrigger

Nothing == [object |-> "none", trigger |-> NoTrigger]

VARIABLES
    status,     \* of each downtime
    about,      \* the object it is for and the downtime that triggers it
    down        \* is the object in downtime

vars == <<status, about, down>>

Status == {"unused", "waiting", "in effect", "over"}

Init ==
    /\ status = [d \in Ids |-> "unused"]
    /\ about = [d \in Ids |-> Nothing]
    /\ down = [o \in Objects |-> FALSE]

Current == {d \in Ids : status[d] \in {"waiting", "in effect"}}

\* What others see of it.
DownAgrees ==
    down' = [o \in Objects |->
                \E d \in Ids : status'[d] = "in effect" /\ about'[d].object = o]

Schedule(d, o, t) ==
    /\ status[d] = "unused"
    /\ status' = [status EXCEPT ![d] = "waiting"]
    /\ about' = [about EXCEPT ![d] = [object |-> o, trigger |-> t]]
    /\ UNCHANGED down

Begin(S) ==
    /\ \A d \in S : status[d] = "waiting"
    /\ status' = [d \in Ids |-> IF d \in S THEN "in effect" ELSE status[d]]
    /\ DownAgrees
    /\ UNCHANGED about

\* Those of S are over.
Over(S) ==
    /\ status' = [d \in Ids |-> IF d \in S THEN "over" ELSE status[d]]
    /\ about' = [d \in Ids |-> IF d \in S THEN Nothing ELSE about[d]]
    /\ DownAgrees

End(S) ==
    /\ S \subseteq Current
    /\ \A d \in Current : about[d].trigger \in S => d \in S
    /\ Over(S)

Expire(S) ==
    /\ \A d \in S : status[d] = "waiting"
    /\ Over(S)

\* Those of K are scheduled again, and have to begin again.
Restart(K) ==
    /\ K \subseteq Current
    /\ status' = [d \in Ids |-> IF d \in K THEN "waiting"
                                ELSE IF d \in Current THEN "over" ELSE status[d]]
    /\ about' = [d \in Ids |-> IF d \in Current \ K THEN Nothing ELSE about[d]]
    /\ down' = [o \in Objects |-> FALSE]

Next ==
    \/ \E d \in Ids, o \in Objects, t \in Ids \cup {NoTrigger} : Schedule(d, o, t)
    \/ \E S \in SUBSET Ids : Begin(S) \/ End(S) \/ Expire(S) \/ Restart(S)

Spec == Init /\ [][Next]_vars
=============================================================================
