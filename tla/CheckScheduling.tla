---------------------------- MODULE CheckScheduling ----------------------------
(***************************************************************************)
(* When services are checked: the check events in the queue, the loop that *)
(* runs them (base/events.c), and what schedules the next check: results,  *)
(* commands, and the sweeps for orphaned and stale services                *)
(* (base/checks.c).                                                        *)
(*                                                                         *)
(* Times are what is left until the event is due.  Results matter here for *)
(* what they schedule only; what they do to the state of the service is in *)
(* ServiceStatus.  ORPHAN_CHECK and DEPENDENCY_CHECK are tested nowhere    *)
(* once the check is scheduled and count as no option.  Checks are         *)
(* executed globally, no broker module overrides them and load control is  *)
(* off.                                                                    *)
(***************************************************************************)
EXTENDS Integers, FiniteSets

CONSTANTS
    Services,
    Regular,            \* services with a check_interval
    Forced,             \* services that get forced checks, and are enabled or disabled, by command
    Passive,            \* services with accept_passive_checks
    FreshnessChecked,   \* services with check_freshness and a freshness_threshold
    Obstacles,          \* what may keep a check from being made, see Reasons
    CheckOrphans,       \* check_orphaned_services
    MayLose,            \* may all workers die
    MaxParallel,        \* max_parallel_service_checks, 0 for no limit
    MaxDelay,           \* bound: how far in the future checks are scheduled
    MaxInFlight,        \* bound: checks of one service in flight
    MaxCounted          \* bound: no check is lost while more are counted as running

NoService == "no service"
Reasons == {"period", "dependency", "host"}

ASSUME SchedulingConstants ==
    /\ IsFiniteSet(Services) /\ NoService \notin Services
    /\ Regular \subseteq Services /\ Forced \subseteq Services /\ Passive \subseteq Services
    /\ FreshnessChecked \subseteq Services /\ Obstacles \subseteq Reasons
    /\ CheckOrphans \in BOOLEAN /\ MayLose \in BOOLEAN
    /\ MaxParallel \in Nat /\ MaxDelay \in Nat \ {0} /\ MaxInFlight \in Nat \ {0}
    /\ MaxCounted \in Nat

VARIABLES
    event,              \* next_check_event of each service: time left, event_options
    current_event,      \* the service whose event the loop peeked at
    event_runtime,      \* time left of that event, as the loop sees it
    check_options, should_be_scheduled, checks_enabled, is_executing, is_being_freshened,
    currently_running_service_checks,
    inflight,           \* checks the workers have, by service and options
    stale,              \* services whose last result is too old
    obstacles,          \* per service, what is in the way of a check
    workers             \* is there a worker

loopVars == <<current_event, event_runtime>>
svcVars == <<should_be_scheduled, checks_enabled, is_executing, is_being_freshened>>
envVars == <<stale, obstacles, workers>>
vars == <<event, loopVars, check_options, svcVars, currently_running_service_checks, inflight, envVars>>

\* CHECK_OPTION_NONE, _FORCE_EXECUTION, and _FORCE_EXECUTION | _FRESHNESS_CHECK.
Options == {"none", "force", "freshness"}
Forces(options) == options # "none"

Delays == 0..MaxDelay
NoEvent == [due |-> -1, options |-> "none"]
Events == [due : Delays, options : Options]

TypeOK ==
    /\ event \in [Services -> Events \cup {NoEvent}]
    /\ current_event \in Services \cup {NoService} /\ event_runtime \in Delays
    /\ check_options \in [Services -> Options]
    /\ should_be_scheduled \in [Services -> BOOLEAN]
    /\ checks_enabled \in [Services -> BOOLEAN]
    /\ is_executing \in [Services -> BOOLEAN]
    /\ is_being_freshened \in [Services -> BOOLEAN]
    /\ currently_running_service_checks \in Nat
    /\ inflight \in [Services -> [Options -> 0..MaxInFlight]]
    /\ stale \in [Services -> BOOLEAN]
    /\ obstacles \in [Services -> SUBSET Obstacles]
    /\ workers \in BOOLEAN

\* init_timing_loop: the checks are spread; a forced check may be left from
\* before a restart.
Init ==
    /\ event \in [Services -> Events \cup {NoEvent}]
    /\ \A s \in Services : /\ event[s] # NoEvent <=> s \in Regular
                           /\ event[s].options \in {"none"} \cup {"force" : f \in Forced \cap {s}}
    /\ current_event = NoService /\ event_runtime = 0
    /\ check_options = [s \in Services |-> event[s].options]
    /\ should_be_scheduled = [s \in Services |-> s \in Regular]
    /\ checks_enabled = [s \in Services |-> TRUE]
    /\ is_executing = [s \in Services |-> FALSE]
    /\ is_being_freshened = [s \in Services |-> FALSE]
    /\ currently_running_service_checks = 0
    /\ inflight = [s \in Services |-> [o \in Options |-> 0]]
    /\ stale = [s \in Services |-> FALSE]
    /\ obstacles = [s \in Services |-> {}]
    /\ workers = TRUE

-----------------------------------------------------------------------------
\* The queue.

\* Mutation of Kept: the earlier one wins.
KeptIfEarlier(old, at, options) == at >= old.due

\* Does the event in the queue win over a new request.
Kept(old, at, options) ==
    IF Forces(old.options) THEN ~(Forces(options) /\ at < old.due)
    ELSE ~Forces(options) /\ at >= old.due

\* schedule_service_check: the event afterwards.
schedule_service_check(old, at, options, enabled) ==
    IF \/ ~enabled /\ ~Forces(options)
       \/ old # NoEvent /\ Kept(old, at, options)
    THEN old ELSE [due |-> at, options |-> options]

\* The new events and the check options they bring.
Scheduled(new) ==
    /\ event' = new
    /\ check_options' = [s \in Services |-> IF new[s] = event[s] THEN check_options[s] ELSE new[s].options]

\* Mutation of StillCurrent: remove_event does not look at current_event.
AlwaysCurrent(new) == TRUE

\* remove_event: an event taken out of the queue is not the current one any more.
StillCurrent(new) == current_event # NoService => new[current_event] = event[current_event]

\* Scheduled by input that is handled while the loop polls.
Polled(new) ==
    /\ Scheduled(new)
    /\ current_event' = IF StillCurrent(new) THEN current_event ELSE NoService
    /\ event_runtime' = IF StillCurrent(new) THEN event_runtime ELSE 0

LoopFree == current_event' = NoService /\ event_runtime' = 0

\* The loop has no check event at hand that is due.
Between == current_event = NoService \/ event_runtime > 0

\* event_execution_loop, up to the poll: the first event of the queue.
Peek(s) ==
    /\ Between
    /\ event[s] # NoEvent
    /\ \A t \in Services : event[t] # NoEvent => event[s].due <= event[t].due
    /\ current_event' = s /\ event_runtime' = event[s].due
    /\ UNCHANGED <<event, check_options, svcVars, currently_running_service_checks, inflight, envVars>>

-----------------------------------------------------------------------------
\* Running the current event.

\* should_run_event: too many checks are running.
AtLimit(s) ==
    /\ ~Forces(check_options[s])
    /\ MaxParallel # 0 /\ currently_running_service_checks >= MaxParallel

\* should_run_event moves the event.
Nudge(s) ==
    /\ current_event = s /\ event_runtime = 0 /\ AtLimit(s)
    /\ \E d \in Delays : event' = [event EXCEPT ![s].due = d]
    /\ LoopFree
    /\ UNCHANGED <<check_options, svcVars, currently_running_service_checks, inflight, envVars>>

\* check_service_check_viability.
check_service_check_viability(s, options) ==
    /\ ~Forces(options) => checks_enabled[s] /\ obstacles[s] \cap {"period", "dependency"} = {}
    /\ "host" \notin obstacles[s]

\* run_async_service_check: the check goes to a worker.
StartCheck(s) ==
    LET o == event[s].options
    IN /\ current_event = s /\ event_runtime = 0 /\ ~AtLimit(s)
       /\ check_service_check_viability(s, o) /\ workers
       /\ inflight[s][o] < MaxInFlight
       /\ event' = [event EXCEPT ![s] = NoEvent]
       /\ check_options' = [check_options EXCEPT ![s] = "none"]
       /\ is_executing' = [is_executing EXCEPT ![s] = TRUE]
       /\ currently_running_service_checks' = currently_running_service_checks + 1
       /\ inflight' = [inflight EXCEPT ![s][o] = @ + 1]
       /\ LoopFree
       /\ UNCHANGED <<should_be_scheduled, checks_enabled, is_being_freshened, envVars>>

\* Mutation of AfterRefusal: the check is left to whoever refused it.
Abandoned(s, d) == NoEvent

\* run_scheduled_service_check: the event after a check that was not made.
AfterRefusal(s, d) ==
    IF should_be_scheduled[s]
    THEN schedule_service_check(NoEvent, d, event[s].options, checks_enabled[s])
    ELSE NoEvent

RefuseCheck(s) ==
    LET viable == check_service_check_viability(s, event[s].options)
    IN /\ current_event = s /\ event_runtime = 0 /\ ~AtLimit(s)
       /\ ~(viable /\ workers)
       /\ \E d \in 1..MaxDelay :
             /\ event' = [event EXCEPT ![s] = AfterRefusal(s, d)]
             /\ check_options' = [check_options EXCEPT ![s] =
                                     IF AfterRefusal(s, d) # NoEvent THEN event[s].options
                                     ELSE IF viable THEN "none" ELSE @]
       /\ LoopFree
       /\ UNCHANGED <<svcVars, currently_running_service_checks, inflight, envVars>>

-----------------------------------------------------------------------------
\* Results.

\* The rescheduling part of handle_async_service_check_result.  settled: the
\* service is OK or in a hard state.
Reschedule(s, wanted, settled, d) ==
    LET again == wanted /\ checks_enabled[s] /\ (s \in Regular \/ ~settled)
    IN /\ should_be_scheduled' = [should_be_scheduled EXCEPT ![s] = again]
       /\ Polled([event EXCEPT ![s] = IF again THEN schedule_service_check(@, d, "none", TRUE) ELSE @])

Decremented(k, n) == IF k > n THEN k - n ELSE 0

\* service_fresh_check.
Freshened(s, options) == is_being_freshened[s] /\ ~(options = "freshness" /\ stale[s])

\* The result of a check that a worker made, perhaps one taken for lost.
ActiveResult(s, options, settled, d) ==
    /\ inflight[s][options] > 0
    /\ inflight' = [inflight EXCEPT ![s][options] = @ - 1]
    /\ currently_running_service_checks' = Decremented(currently_running_service_checks, 1)
    /\ is_executing' = [is_executing EXCEPT ![s] = FALSE]
    /\ is_being_freshened' = [is_being_freshened EXCEPT ![s] = Freshened(s, options)]
    /\ stale' = [stale EXCEPT ![s] = FALSE]
    /\ Reschedule(s, TRUE, settled, d)
    /\ UNCHANGED <<checks_enabled, obstacles, workers>>

\* process_passive_service_check.  changed: the state or its type.
PassiveResult(s, changed, settled, d) ==
    /\ s \in Passive
    /\ stale' = [stale EXCEPT ![s] = FALSE]
    /\ Reschedule(s, changed, settled, d)
    /\ UNCHANGED <<checks_enabled, is_executing, is_being_freshened,
                   currently_running_service_checks, inflight, obstacles, workers>>

-----------------------------------------------------------------------------
\* Commands and requests.

\* cmd_schedule_check, propagation to masters of dependencies.
RequestCheck(s, at, options) ==
    /\ options = "force" => s \in Forced
    /\ Polled([event EXCEPT ![s] = schedule_service_check(@, at, options, checks_enabled[s])])
    /\ UNCHANGED <<svcVars, currently_running_service_checks, inflight, envVars>>

disable_service_checks(s) ==
    /\ s \in Forced /\ checks_enabled[s]
    /\ checks_enabled' = [checks_enabled EXCEPT ![s] = FALSE]
    /\ should_be_scheduled' = [should_be_scheduled EXCEPT ![s] = FALSE]
    /\ UNCHANGED <<event, loopVars, check_options, is_executing, is_being_freshened,
                   currently_running_service_checks, inflight, envVars>>

enable_service_checks(s, at) ==
    /\ ~checks_enabled[s]
    /\ at > 0 => "period" \in obstacles[s]
    /\ checks_enabled' = [checks_enabled EXCEPT ![s] = TRUE]
    /\ should_be_scheduled' = [should_be_scheduled EXCEPT ![s] = s \in Regular]
    /\ Polled([event EXCEPT ![s] = IF s \in Regular THEN schedule_service_check(@, at, "none", TRUE) ELSE @])
    /\ UNCHANGED <<is_executing, is_being_freshened, currently_running_service_checks, inflight, envVars>>

-----------------------------------------------------------------------------
\* Sweeps.

\* Mutation of AfterOrphan: the flag is cleared and nothing scheduled.
NotRescheduled(s) == event[s]

AfterOrphan(s) == schedule_service_check(event[s], 0, "none", checks_enabled[s])

\* check_for_orphaned_services: late is the set of services whose result should
\* have come in.
check_for_orphaned_services(late) ==
    /\ CheckOrphans /\ Between
    /\ late # {} /\ \A s \in late : is_executing[s]
    /\ currently_running_service_checks' = Decremented(currently_running_service_checks, Cardinality(late))
    /\ is_executing' = [s \in Services |-> is_executing[s] /\ s \notin late]
    /\ Scheduled([s \in Services |-> IF s \in late THEN AfterOrphan(s) ELSE event[s]])
    /\ LoopFree
    /\ UNCHANGED <<should_be_scheduled, checks_enabled, is_being_freshened, inflight, envVars>>

\* The services the freshness sweep acts on.
Freshen == {s \in FreshnessChecked :
               /\ ~is_executing[s] /\ ~is_being_freshened[s] /\ stale[s]
               /\ checks_enabled[s] \/ s \in Passive
               /\ "period" \notin obstacles[s]}

check_service_result_freshness ==
    /\ Between /\ Freshen # {}
    /\ is_being_freshened' = [s \in Services |-> is_being_freshened[s] \/ s \in Freshen]
    /\ Scheduled([s \in Services |-> IF s \in Freshen
                                     THEN schedule_service_check(event[s], 0, "freshness", checks_enabled[s])
                                     ELSE event[s]])
    /\ LoopFree
    /\ UNCHANGED <<should_be_scheduled, checks_enabled, is_executing,
                   currently_running_service_checks, inflight, envVars>>

-----------------------------------------------------------------------------
\* The environment.

Rest == UNCHANGED <<check_options, svcVars, currently_running_service_checks>>

Elapsed(due) == IF due > 0 THEN due - 1 ELSE due

\* The clock.
Tick ==
    /\ \E s \in Services : event[s].due > 0
    /\ event' = [s \in Services |-> [event[s] EXCEPT !.due = Elapsed(@)]]
    /\ event_runtime' = Elapsed(event_runtime)
    /\ Rest /\ UNCHANGED <<current_event, inflight, envVars>>

GoesStale(s) ==
    /\ s \in FreshnessChecked /\ ~stale[s]
    /\ stale' = [stale EXCEPT ![s] = TRUE]
    /\ Rest /\ UNCHANGED <<event, loopVars, inflight, obstacles, workers>>

ObstacleChanges(s, why) ==
    /\ obstacles' = [obstacles EXCEPT ![s] = IF why \in @ THEN @ \ {why} ELSE @ \cup {why}]
    /\ Rest /\ UNCHANGED <<event, loopVars, inflight, stale, workers>>

\* The last worker dies, or one registers.
WorkersChange ==
    /\ MayLose
    /\ workers' = ~workers
    /\ Rest /\ UNCHANGED <<event, loopVars, inflight, stale, obstacles>>

\* A job no worker is left for is destroyed.
LoseCheck(s, options) ==
    /\ ~workers /\ inflight[s][options] > 0
    /\ currently_running_service_checks <= MaxCounted
    /\ inflight' = [inflight EXCEPT ![s][options] = @ - 1]
    /\ Rest /\ UNCHANGED <<event, loopVars, envVars>>

Next ==
    \/ \E s \in Services : Peek(s) \/ Nudge(s) \/ StartCheck(s) \/ RefuseCheck(s)
    \/ \E s \in Services, options \in Options, settled \in BOOLEAN, d \in Delays :
          ActiveResult(s, options, settled, d)
    \/ \E s \in Services, changed \in BOOLEAN, settled \in BOOLEAN, d \in Delays :
          PassiveResult(s, changed, settled, d)
    \/ \E s \in Services, at \in Delays, options \in {"none", "force"} : RequestCheck(s, at, options)
    \/ \E s \in Services : disable_service_checks(s)
    \/ \E s \in Services, at \in Delays : enable_service_checks(s, at)
    \/ \E late \in SUBSET Services : check_for_orphaned_services(late)
    \/ check_service_result_freshness
    \/ Tick
    \/ \E s \in Services : GoesStale(s)
    \/ \E s \in Services, why \in Obstacles : ObstacleChanges(s, why)
    \/ WorkersChange
    \/ \E s \in Services, options \in Options : LoseCheck(s, options)

Spec == Init /\ [][Next]_vars

-----------------------------------------------------------------------------
\* Properties.

InFlight(s, forced) == \E o \in Options : inflight[s][o] > 0 /\ (forced => Forces(o))

\* A service that should be scheduled is on its way to a check: it has an event
\* in the queue, or a check out whose result, or whose loss, schedules the next
\* one (run_scheduled_service_check, handle_async_service_check_result and the
\* orphan sweep together).
NoServiceForgotten ==
    \A s \in Services : should_be_scheduled[s] => event[s] # NoEvent \/ is_executing[s]

\* The event the loop runs after the poll is the one it peeked at before, with
\* the time it compared: whatever the poll rescheduled is not current any more
\* (remove_event).
PeekedEventStands ==
    current_event # NoService =>
        event[current_event] # NoEvent /\ event[current_event].due = event_runtime

\* "Host state not UP, so service check will not be performed - will be
\* rescheduled as normal." (base/checks.c): a regular service leaves the queue
\* only to be checked.
RefusedChecksReturn ==
    [][\A s \in Regular : checks_enabled[s] /\ event[s] # NoEvent /\ event'[s] = NoEvent
                              => inflight'[s] # inflight[s]]_vars

-----------------------------------------------------------------------------
RunEvent(s) == Nudge(s) \/ StartCheck(s) \/ RefuseCheck(s)
Answer(s) == \E options \in Options, settled \in BOOLEAN, d \in Delays : ActiveResult(s, options, settled, d)
Orphaned == {s \in Services : is_executing[s] /\ ~InFlight(s, FALSE)}

\* The queue is in order of time, so an event is overtaken by finitely many
\* others; workers answer, at the timeout if need be; and the orphan sweep, a
\* recurring event, comes round.
Fairness ==
    /\ WF_vars(Tick)
    /\ \A s \in Services : SF_vars(Peek(s)) /\ WF_vars(RunEvent(s)) /\ WF_vars(Answer(s))
    /\ SF_vars(check_for_orphaned_services(Orphaned))

FairSpec == Spec /\ Fairness

Clear(s) == workers /\ obstacles[s] = {}

\* A service that should be scheduled is checked again and again, whatever was
\* lost, disabled or refused before, unless the limit stops it or something is
\* in the way.
ChecksGoOn ==
    CheckOrphans => \A s \in Services :
        <>[](should_be_scheduled[s] /\ Clear(s) /\ ~AtLimit(s)) => []<>InFlight(s, FALSE)

\* A forced check is made, whatever else is requested, and whether or not the
\* limit is reached, the check period is over or active checks are disabled.
ForcedChecksAreMade ==
    \A s \in Services :
        Forces(event[s].options) ~> InFlight(s, TRUE) \/ ~workers \/ "host" \in obstacles[s]
=============================================================================
