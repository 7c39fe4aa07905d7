------------------------------- MODULE Downtime -------------------------------
(***************************************************************************)
(* Scheduled downtime (common/downtime.c): fixed, flexible and triggered   *)
(* downtimes, the timed events that start, end and expire them, the depth  *)
(* and the count of pending flexible downtimes in each object, and what a  *)
(* restart keeps of them (xdata/xrddefault.c).                             *)
(*                                                                         *)
(* Notifications, comments and logs about downtime are left out.  The      *)
(* clock stops at MaxTime, which is after every window: what is due later  *)
(* is due then.                                                            *)
(***************************************************************************)
EXTENDS Integers, FiniteSets

CONSTANTS
    Hosts, Services,
    Requests,       \* what can be asked for: [fixed, start_time, end_time, duration]
    MaxDowntimes,   \* bound: downtimes scheduled
    MaxRestarts,    \* bound
    MaxTime         \* bound: see above

Objects == Hosts \cup Services
Ids == 1..MaxDowntimes
Times == 0..MaxTime
Unset == -1         \* flex_downtime_start before it is known

ASSUME DowntimeConstants ==
    /\ MaxDowntimes \in Nat /\ MaxRestarts \in Nat /\ MaxTime \in Nat
    /\ Requests \subseteq [fixed : BOOLEAN, start_time : Times, end_time : Times, duration : Nat \ {0}]
    /\ \A r \in Requests : r.start_time < r.end_time /\ r.end_time < MaxTime

VARIABLES
    downtime,                   \* scheduled_downtime_list by id
    next_downtime_id,
    scheduled_downtime_depth,   \* of each object
    pending_flex_downtime,      \* of each object
    problem,                    \* the objects whose current_state is not OK or UP
    queue,                      \* the events about downtimes
    now,
    restarts                    \* how many so far

counters == <<scheduled_downtime_depth, pending_flex_downtime>>
vars == <<downtime, next_downtime_id, counters, problem, queue, now, restarts>>

NoTrigger == 0
Gone == [object |-> "none"]
Live == {d \in Ids : downtime[d] # Gone}

Downtimes ==
    [object : Objects, fixed : BOOLEAN, start_time : Times, end_time : Times, duration : Nat \ {0},
     triggered_by : Ids \cup {NoTrigger}, flex_downtime_start : Times \cup {Unset},
     is_in_effect : BOOLEAN, incremented_pending_downtime : BOOLEAN,
     start_event : BOOLEAN,                     \* does the pointer point to an event
     stop_event : {"none", "expire", "end"}]    \* what the pointer points to

Events == [kind : {"start", "end", "expire"}, id : Ids, at : Times]

Init ==
    /\ downtime = [d \in Ids |-> Gone] /\ next_downtime_id = 1
    /\ scheduled_downtime_depth = [o \in Objects |-> 0]
    /\ pending_flex_downtime = [o \in Objects |-> 0]
    /\ problem = {} /\ queue = {} /\ now = 0 /\ restarts = 0

-----------------------------------------------------------------------------
\* Helpers.

\* schedule_new_event: an event of the past is due now (squeue_add_tv).
Event(kind, d, at) ==
    [kind |-> kind, id |-> d, at |-> IF at < now THEN now ELSE IF at > MaxTime THEN MaxTime ELSE at]

InEffect == {d \in Live : downtime[d].is_in_effect}

\* Those of S that are for object o.
For(o, S) == {d \in S : downtime[d].object = o}

Counted(S) == {d \in S : downtime[d].incremented_pending_downtime}

\* The members of among that a recursion over what a downtime triggered
\* visits when it begins with each of D.
TriggeredFrom(D, among) ==
    {d \in among : \A S \in SUBSET among :
        D \cap among \subseteq S /\ (\A e \in among : downtime[e].triggered_by \in S => e \in S)
            => d \in S}

\* Mutation of Lowered: a counter that is lowered at all is cleared.
Cleared(k, n) == IF n > 0 THEN 0 ELSE k

\* A counter that is lowered n times where it is not zero.
Lowered(k, n) == IF k > n THEN k - n ELSE 0

-----------------------------------------------------------------------------
\* Registering.

\* Is an event scheduled to start the downtime.  triggering: its trigger is in
\* effect.
StartsByEvent(r, was, triggering) ==
    \/ was
    \/ r.fixed /\ r.triggered_by = NoTrigger
    \/ ~r.fixed /\ r.start_time <= now /\ now <= r.end_time /\ r.object \in problem
    \/ triggering

\* register_downtime: the entry.  was: it was in effect before the restart.
Registered(r, was, triggering) ==
    LET starts == StartsByEvent(r, was, triggering)
    IN [r EXCEPT !.is_in_effect = FALSE,
                 !.incremented_pending_downtime = ~r.fixed /\ ~was,
                 !.flex_downtime_start = IF starts /\ ~r.fixed /\ @ = Unset THEN now ELSE @,
                 !.start_event = starts,
                 !.stop_event = IF ~r.fixed /\ ~was THEN "expire" ELSE "none"]

\* Mutation of RegistrationEvents: nothing is scheduled in case it never starts.
OnlyStartEvents(d, r) ==
    {e \in {Event("start", d, IF r.fixed THEN r.start_time ELSE r.flex_downtime_start)} : r.start_event}

\* register_downtime: the events, for the registered entry.
RegistrationEvents(d, r) ==
    {e \in {Event("start", d, IF r.fixed THEN r.start_time ELSE r.flex_downtime_start),
            Event("expire", d, r.end_time + 1)} :
        \/ e.kind = "start" /\ r.start_event
        \/ e.kind = "expire" /\ r.stop_event = "expire"}

\* cmd_schedule_downtime, schedule_downtime and downtime_add.
schedule_downtime(o, request, trigger) ==
    LET d == next_downtime_id
        r == Registered([object |-> o, fixed |-> request.fixed,
                         start_time |-> request.start_time, end_time |-> request.end_time,
                         duration |-> request.duration, triggered_by |-> trigger,
                         flex_downtime_start |-> Unset, is_in_effect |-> FALSE,
                         incremented_pending_downtime |-> FALSE,
                         start_event |-> FALSE, stop_event |-> "none"],
                        FALSE, trigger \in InEffect)
    IN /\ d \in Ids /\ request.end_time > now
       /\ trigger \in Live \cup {NoTrigger}
       /\ downtime' = [downtime EXCEPT ![d] = r]
       /\ next_downtime_id' = d + 1
       /\ queue' = queue \cup RegistrationEvents(d, r)
       /\ pending_flex_downtime' =
              [pending_flex_downtime EXCEPT ![o] = IF r.incremented_pending_downtime THEN @ + 1 ELSE @]
       /\ UNCHANGED <<scheduled_downtime_depth, problem, now, restarts>>

-----------------------------------------------------------------------------
\* Starting.

\* Mutation of Startable: those in effect are started again.
StartableAgain == Live

\* handle_scheduled_downtime_start returns for what is in effect.
Startable == Live \ InEffect

\* The entry of downtime d, before being r, when those of S start.
Started(d, S, r) ==
    IF d \notin S THEN r
    ELSE [r EXCEPT !.is_in_effect = TRUE,
                   !.flex_downtime_start = IF ~r.fixed /\ @ = Unset THEN now ELSE @,
                   !.stop_event = "end"]

EndTime(r) == IF r.fixed THEN r.end_time ELSE r.flex_downtime_start + r.duration

\* handle_scheduled_downtime_start for each of D; before is the list when it is
\* called, and run the event that called it.
handle_scheduled_downtime_start(D, before, run) ==
    LET S == TriggeredFrom(D, Startable)
        after == [d \in Ids |-> Started(d, S, before[d])]
    IN /\ downtime' = after
       /\ queue' = (queue \ run) \cup {Event("end", d, EndTime(after[d])) : d \in S}
       /\ scheduled_downtime_depth' =
              [o \in Objects |-> scheduled_downtime_depth[o] + Cardinality(For(o, S))]
       /\ UNCHANGED <<next_downtime_id, pending_flex_downtime, now, restarts>>

\* Mutation of StartEventTaken: the entry still points to the event.
StartEventKept(d) == downtime

\* handle_scheduled_downtime_start_by_id forgets the event, which is freed.
StartEventTaken(d) == [downtime EXCEPT ![d].start_event = FALSE]

\* The flexible downtimes of o that check_pending_flex_host_downtime and
\* check_pending_flex_service_downtime start.
PendingFlex(o) ==
    {d \in For(o, Startable) :
        /\ ~downtime[d].fixed
        /\ downtime[d].start_time <= now /\ now <= downtime[d].end_time}

\* A result that changes the state of o or its type, after which its state is a
\* problem or not.  A downtime that starts here first is given the time of its
\* start; which ones do, and which another triggers, is up to the list's order.
StateChange(o, bad) ==
    LET looked == bad /\ (o \in Services => pending_flex_downtime[o] > 0)
        C == IF looked THEN PendingFlex(o) ELSE {}
    IN /\ problem' = IF bad THEN problem \cup {o} ELSE problem \ {o}
       /\ \E first \in SUBSET C :
              /\ C \subseteq TriggeredFrom(first, Startable)
              /\ handle_scheduled_downtime_start(first,
                     [d \in Ids |-> IF d \in first THEN [downtime[d] EXCEPT !.flex_downtime_start = now]
                                    ELSE downtime[d]],
                     {})

-----------------------------------------------------------------------------
\* Ending.

\* Without the entries of S.
Deleted(S) == [d \in Ids |-> IF d \in S THEN Gone ELSE downtime[d]]

\* Mutation of EndedWith: what it triggered is forgotten.
EndedAlone(D) == D

\* What ends, or is cancelled, with D.
EndedWith(D) == TriggeredFrom(D, Live)

\* The depth of o when those of S are over.
DepthWithout(o, S) ==
    Lowered(scheduled_downtime_depth[o], Cardinality(For(o, S \cap InEffect)))

\* handle_scheduled_downtime_end.
handle_scheduled_downtime_end(d, run) ==
    LET S == EndedWith({d})
    IN /\ downtime' = Deleted(S)
       /\ queue' = queue \ run
       /\ scheduled_downtime_depth' = [o \in Objects |-> DepthWithout(o, S)]
       /\ pending_flex_downtime' =
              [o \in Objects |-> Lowered(pending_flex_downtime[o], Cardinality(For(o, Counted(S))))]
       /\ UNCHANGED <<next_downtime_id, problem, now, restarts>>

\* The events unschedule_downtime removes.
PointedTo(S) ==
    {e \in queue : /\ e.id \in S
                   /\ \/ e.kind = "start" /\ downtime[e.id].start_event
                      \/ e.kind = downtime[e.id].stop_event}

\* unschedule_downtime, for one downtime or those that match a filter
\* (delete_downtime_by_hostname_service_description_start_time_comment).
unschedule_downtime(D) ==
    LET S == EndedWith(D)
    IN /\ D # {} /\ D \subseteq Live
       /\ downtime' = Deleted(S)
       /\ queue' = queue \ PointedTo(S)
       /\ scheduled_downtime_depth' = [o \in Objects |-> DepthWithout(o, S)]
       /\ pending_flex_downtime' =
              [o \in Objects |-> pending_flex_downtime[o] - Cardinality(For(o, Counted(S)))]
       /\ UNCHANGED <<next_downtime_id, problem, now, restarts>>

\* Mutation of Expired: whatever is past its window.
ExpiredRegardless == {d \in Live : downtime[d].end_time <= now}

Expired == {d \in Startable : downtime[d].end_time <= now}

\* check_for_expired_downtime: neither the counters nor the events change.
check_for_expired_downtime(run) ==
    /\ downtime' = Deleted(Expired)
    /\ queue' = queue \ run
    /\ UNCHANGED <<next_downtime_id, counters, problem, now, restarts>>

-----------------------------------------------------------------------------
\* The event loop.

Due == {e \in queue : e.at <= now /\ \A f \in queue : e.at <= f.at}

\* handle_timed_event.
handle_timed_event(e) ==
    \/ /\ e.kind = "start" /\ e.id \in Live
       /\ handle_scheduled_downtime_start({e.id}, StartEventTaken(e.id), {e})
       /\ UNCHANGED problem
    \/ /\ e.kind = "end" /\ e.id \in Live
       /\ handle_scheduled_downtime_end(e.id, {e})
    \/ /\ e.kind = "expire"
       /\ check_for_expired_downtime({e})
    \/ /\ e.kind # "expire" /\ e.id \notin Live
       /\ queue' = queue \ {e}
       /\ UNCHANGED <<downtime, next_downtime_id, counters, problem, now, restarts>>

RunEvent == \E e \in Due : handle_timed_event(e)

Tick ==
    /\ now < MaxTime
    /\ now' = now + 1
    /\ UNCHANGED <<downtime, next_downtime_id, counters, problem, queue, restarts>>

-----------------------------------------------------------------------------
\* Restarting.

\* downtime_compar: is d saved before f, or may it be.
SavedBefore(d, f) ==
    LET untriggered(e) == downtime[e].triggered_by = NoTrigger
    IN \/ downtime[d].start_time < downtime[f].start_time
       \/ downtime[d].start_time = downtime[f].start_time /\ untriggered(d) /\ ~untriggered(f)

\* Is K what a restart can leave of the list: a triggered downtime that is read
\* before its trigger is refused (downtime_add), and what compares equal is in
\* the order of its ids until a restart has reversed it.
Kept(K) ==
    /\ K \subseteq Live
    /\ \A d \in Live : LET t == downtime[d].triggered_by IN
           /\ t = NoTrigger => d \in K
           /\ t \in K /\ ~SavedBefore(d, t) /\ (SavedBefore(t, d) \/ restarts = 0) => d \in K
           /\ t # NoTrigger /\ d \in K => t \in K /\ ~SavedBefore(d, t)

\* xrddefault_save_state_information and xrddefault_read_state_information: a
\* downtime is registered when it is read, with no other in effect.  The depth
\* and the count of the objects begin at 0.
Restart ==
    \E K \in SUBSET Live :
        LET read == [d \in Ids |-> IF d \in K
                                   THEN Registered(downtime[d], downtime[d].is_in_effect, FALSE)
                                   ELSE Gone]
        IN /\ restarts < MaxRestarts /\ Kept(K)
           /\ downtime' = read
           /\ queue' = UNION {RegistrationEvents(d, read[d]) : d \in K}
           /\ scheduled_downtime_depth' = [o \in Objects |-> 0]
           /\ pending_flex_downtime' =
                  [o \in Objects |-> Cardinality({d \in K : /\ read[d].object = o
                                                            /\ read[d].incremented_pending_downtime})]
           /\ restarts' = restarts + 1
           /\ UNCHANGED <<next_downtime_id, problem, now>>

-----------------------------------------------------------------------------
Next ==
    \/ \E o \in Objects, request \in Requests, trigger \in Ids \cup {NoTrigger} :
           schedule_downtime(o, request, trigger)
    \/ \E D \in SUBSET Ids : unschedule_downtime(D)
    \/ \E o \in Objects, bad \in BOOLEAN : StateChange(o, bad)
    \/ RunEvent
    \/ Tick
    \/ Restart

Spec == Init /\ [][Next]_vars

\* Time passes, and the event loop runs what is due.
FairSpec == Spec /\ WF_vars(Tick) /\ WF_vars(RunEvent)

-----------------------------------------------------------------------------
\* Properties.

\* Every variable has its type, and only downtimes that were scheduled are
\* listed, with triggers that are older than they are (register_downtime,
\* downtime_add).
TypeOK ==
    /\ downtime \in [Ids -> Downtimes \cup {Gone}]
    /\ \A d \in Live : d < next_downtime_id /\ downtime[d].triggered_by < d
    /\ next_downtime_id \in 1..MaxDowntimes + 1
    /\ scheduled_downtime_depth \in [Objects -> Nat]
    /\ pending_flex_downtime \in [Objects -> Nat]
    /\ problem \subseteq Objects
    /\ queue \subseteq Events
    /\ now \in Times /\ restarts \in 0..MaxRestarts

\* The depth of an object is the number of its downtimes in effect, after any
\* starts, ends, cancellations and restarts.  Notifications and dependencies
\* ask only for the depth, and a host whose depth were 0 at the end of a
\* downtime would make handle_scheduled_downtime_end look at svc, which is NULL.
DepthAgrees ==
    \A o \in Objects : scheduled_downtime_depth[o] = Cardinality(For(o, InEffect))

\* An entry points to events that are still in the queue, so that
\* unschedule_downtime frees no event twice; and what is in effect has the event
\* that ends it.
EventsStand ==
    \A d \in Live :
        /\ downtime[d].start_event => \E e \in queue : e.kind = "start" /\ e.id = d
        /\ downtime[d].stop_event = "expire" => \E e \in queue : e.kind = "expire" /\ e.id = d
        /\ downtime[d].stop_event = "end" => \E e \in queue : e.kind = "end" /\ e.id = d
        /\ downtime[d].is_in_effect <=> downtime[d].stop_event = "end"

\* A flexible downtime that may still start is counted by its object, or its
\* start is scheduled: results look for a flexible downtime of a service only
\* when the count is not 0 (checks.c:913).
PendingCovers ==
    /\ \A o \in Objects : pending_flex_downtime[o] >= Cardinality(For(o, Counted(Live)))
    /\ \A d \in Startable : downtime[d].fixed \/ downtime[d].start_event
                            \/ downtime[d].incremented_pending_downtime

\* An event takes a downtime in effect that nothing triggered from the list only
\* when its time has come: "The expire event will NOT cancel a downtime event
\* that is in effect" (register_downtime).
RunsItsTime ==
    [][RunEvent =>
          \A d \in InEffect :
              downtime'[d] = Gone /\ downtime[d].triggered_by = NoTrigger
                  => now = MaxTime \/ EndTime(downtime[d]) <= now]_vars

Contract == INSTANCE DowntimeContract WITH
    status <- [d \in Ids |-> IF d \in InEffect THEN "in effect"
                             ELSE IF d \in Live THEN "waiting"
                             ELSE IF d < next_downtime_id THEN "over" ELSE "unused"],
    about <- [d \in Ids |-> IF d \in Live
                            THEN [object |-> downtime[d].object,
                                  trigger |-> downtime[d].triggered_by]
                            ELSE [object |-> "none", trigger |-> NoTrigger]],
    down <- [o \in Objects |-> scheduled_downtime_depth[o] > 0]

\* Downtimes keep the contract: they wait, are in effect and are over, the depth
\* says which objects are in downtime, and what ends takes along what it
\* triggered (handle_scheduled_downtime_end, unschedule_downtime).
ImplementsContract == Contract!Spec

\* A downtime that nothing has to trigger is over in the end, whether it started
\* or not (the end and expire events).
DowntimesEnd ==
    \A d \in Ids :
        (d \in Live /\ (downtime[d].triggered_by = NoTrigger \/ ~downtime[d].fixed)) ~> d \notin Live
=============================================================================
