---------------------------- MODULE SchedulingProofs ----------------------------
(***************************************************************************)
(* What CheckScheduling and TimePeriod promise, for any number of services *)
(* and any configuration.                                                  *)
(*                                                                         *)
(* Of the schedule: types, that no service is forgotten, that the loop     *)
(* runs the event it peeked at, and that, where no passive results are     *)
(* accepted, a refused check returns to the queue.  Of the time periods,   *)
(* whatever their ranges, exceptions and exclusions: that the next valid   *)
(* time is valid and the first that is, that a check which is moved stays  *)
(* within its period, and that an exception is for the days it names.      *)
(***************************************************************************)
EXTENDS CheckScheduling, TimePeriod, SequenceTheorems, FiniteSetTheorems, WellFoundedInduction,
        TLAPS

MaybeEvents == Events \cup {NoEvent}

\* What is scheduled is enabled, and without passive results what is regular
\* and enabled is scheduled.
FlagsAgree ==
    /\ \A s \in Services : should_be_scheduled[s] => checks_enabled[s]
    /\ Passive = {} => \A s \in Regular : checks_enabled[s] => should_be_scheduled[s]

IInv == TypeOK /\ FlagsAgree /\ NoServiceForgotten /\ PeekedEventStands

\* No event leaves the queue.
EventsStay == \A t \in Services : event[t] # NoEvent => event'[t] # NoEvent

-----------------------------------------------------------------------------
\* schedule_service_check yields an event of the queue, and one that is there
\* unless it refuses the request and there was none before.
LEMMA ScheduleYields ==
    ASSUME NEW old \in MaybeEvents, NEW at \in Delays, NEW options \in Options, NEW enabled \in BOOLEAN
    PROVE  /\ schedule_service_check(old, at, options, enabled) \in MaybeEvents
           /\ enabled \/ Forces(options) \/ old # NoEvent
                => schedule_service_check(old, at, options, enabled) # NoEvent
<1>1. [due |-> at, options |-> options] \in Events
  BY DEF Events
<1>2. [due |-> at, options |-> options] # NoEvent
  <2>1. at # -1
    BY SchedulingConstants DEF Delays
  <2>. QED  BY <2>1 DEF NoEvent
<1>. QED  BY <1>1, <1>2 DEF schedule_service_check, MaybeEvents

\* The counter never goes below zero.
LEMMA DecrementedType ==
    ASSUME NEW k \in Nat, NEW n \in Nat
    PROVE  Decremented(k, n) \in Nat
BY DEF Decremented

\* An event taken from the queue is an event with a time that is not over.
LEMMA EventFields ==
    ASSUME NEW e \in MaybeEvents, e # NoEvent
    PROVE  e \in Events /\ e.due \in Delays /\ e.options \in Options
BY DEF MaybeEvents, Events

\* Scheduling keeps the types of the queue.
LEMMA ScheduledTypes ==
    ASSUME TypeOK, NEW new \in [Services -> MaybeEvents], Scheduled(new)
    PROVE  event' \in [Services -> MaybeEvents] /\ check_options' \in [Services -> Options]
<1>1. ASSUME NEW s \in Services
      PROVE  (IF new[s] = event[s] THEN check_options[s] ELSE new[s].options) \in Options
  <2>1. check_options[s] \in Options /\ event[s] \in MaybeEvents /\ new[s] \in MaybeEvents
    BY DEF TypeOK, MaybeEvents
  <2>2. NoEvent.options \in Options
    BY DEF NoEvent, Options
  <2>. QED  BY <2>1, <2>2, EventFields
<1>. QED  BY <1>1 DEF Scheduled

\* What is scheduled while the loop polls takes the current event away, or
\* leaves it alone.
LEMMA PolledKeeps ==
    ASSUME IInv, NEW new \in [Services -> MaybeEvents], Polled(new)
    PROVE  /\ event' = new
           /\ event' \in [Services -> MaybeEvents] /\ check_options' \in [Services -> Options]
           /\ current_event' \in Services \cup {NoService} /\ event_runtime' \in Delays
           /\ PeekedEventStands'
<1>1. event' = new /\ Scheduled(new)
  BY DEF Polled, Scheduled
<1>2. event' \in [Services -> MaybeEvents] /\ check_options' \in [Services -> Options]
  BY <1>1, ScheduledTypes DEF IInv
<1>3. 0 \in Delays
  BY SchedulingConstants DEF Delays
<1>4. CASE StillCurrent(new)
  <2>1. current_event' = current_event /\ event_runtime' = event_runtime
    BY <1>4 DEF Polled
  <2>2. current_event # NoService => event'[current_event] = event[current_event]
    BY <1>1, <1>4 DEF StillCurrent
  <2>. QED  BY <1>1, <1>2, <2>1, <2>2 DEF IInv, TypeOK, PeekedEventStands
<1>5. CASE ~StillCurrent(new)
  <2>1. current_event' = NoService /\ event_runtime' = 0
    BY <1>5 DEF Polled
  <2>. QED  BY <1>1, <1>2, <1>3, <2>1 DEF PeekedEventStands
<1>. QED  BY <1>4, <1>5

\* A loop without a current event.
LEMMA LoopFreeKeeps ==
    ASSUME LoopFree
    PROVE  /\ current_event' \in Services \cup {NoService} /\ event_runtime' \in Delays
           /\ PeekedEventStands'
<1>1. 0 \in Delays
  BY SchedulingConstants DEF Delays
<1>. QED  BY <1>1 DEF LoopFree, PeekedEventStands

-----------------------------------------------------------------------------
\* The initial states.
LEMMA InitIInv ==
    ASSUME Init
    PROVE  IInv
<1>1. TypeOK
  <2>1. event \in [Services -> MaybeEvents]
    BY DEF Init, MaybeEvents
  <2>2. check_options \in [Services -> Options]
    <3>1. ASSUME NEW s \in Services
          PROVE  event[s].options \in Options
      BY DEF Init, Options
    <3>. QED  BY <3>1 DEF Init
  <2>3. 0 \in Delays /\ 0 \in 0..MaxInFlight
    BY SchedulingConstants DEF Delays
  <2>4. inflight \in [Services -> [Options -> 0..MaxInFlight]]
    BY <2>3 DEF Init
  <2>. QED  BY <2>1, <2>2, <2>3, <2>4 DEF Init, TypeOK, MaybeEvents
<1>2. FlagsAgree /\ NoServiceForgotten /\ PeekedEventStands
  BY SchedulingConstants DEF Init, FlagsAgree, NoServiceForgotten, PeekedEventStands
<1>. QED  BY <1>1, <1>2 DEF IInv

-----------------------------------------------------------------------------
\* The steps of the loop.

\* The loop takes the first event of the queue in hand.
LEMMA PeekKeeps ==
    ASSUME IInv, NEW s \in Services, Peek(s)
    PROVE  IInv' /\ EventsStay
<1>1. event' = event /\ current_event' = s /\ event_runtime' = event[s].due /\ event[s] # NoEvent
  BY DEF Peek
<1>2. event[s] \in MaybeEvents
  BY DEF IInv, TypeOK, MaybeEvents
<1>3. event[s].due \in Delays
  BY <1>1, <1>2, EventFields
<1>4. UNCHANGED <<check_options, svcVars, currently_running_service_checks, inflight, envVars>>
  BY DEF Peek
<1>5. TypeOK'
  BY <1>1, <1>3, <1>4 DEF IInv, TypeOK, svcVars, envVars
<1>6. FlagsAgree' /\ NoServiceForgotten'
  BY <1>1, <1>4 DEF IInv, FlagsAgree, NoServiceForgotten, svcVars
<1>7. PeekedEventStands'
  BY <1>1 DEF PeekedEventStands
<1>. QED  BY <1>1, <1>5, <1>6, <1>7 DEF IInv, EventsStay

\* An event that is nudged stays in the queue.
LEMMA NudgeKeeps ==
    ASSUME IInv, NEW s \in Services, Nudge(s)
    PROVE  IInv' /\ EventsStay
<1>1. PICK d \in Delays : event' = [event EXCEPT ![s].due = d]
  BY DEF Nudge
<1>2. UNCHANGED <<check_options, svcVars, currently_running_service_checks, inflight, envVars>> /\ LoopFree
  BY DEF Nudge
<1>3. event[s] # NoEvent
  <2>1. current_event = s /\ s # NoService
    BY SchedulingConstants DEF Nudge
  <2>. QED  BY <2>1 DEF IInv, PeekedEventStands
<1>4. event \in [Services -> MaybeEvents]
  BY DEF IInv, TypeOK, MaybeEvents
<1>5. event[s] \in Events
  BY <1>3, <1>4, EventFields
<1>6. [event[s] EXCEPT !.due = d] \in Events
  BY <1>5 DEF Events
<1>7. [event[s] EXCEPT !.due = d] # NoEvent
  BY <1>5, <1>6, SchedulingConstants DEF Events, NoEvent, Delays
<1>8. event' = [event EXCEPT ![s] = [event[s] EXCEPT !.due = d]]
  BY <1>1
<1>9. event' \in [Services -> MaybeEvents]
  BY <1>4, <1>6, <1>8 DEF MaybeEvents
<1>10. TypeOK'
  BY <1>2, <1>9, LoopFreeKeeps DEF IInv, TypeOK, svcVars, envVars, MaybeEvents
<1>11. FlagsAgree'
  BY <1>2 DEF IInv, FlagsAgree, svcVars
<1>12. NoServiceForgotten'
  BY <1>2, <1>4, <1>7, <1>8 DEF IInv, NoServiceForgotten, svcVars
<1>13. EventsStay
  BY <1>4, <1>7, <1>8 DEF EventsStay
<1>. QED  BY <1>2, <1>10, <1>11, <1>12, <1>13, LoopFreeKeeps DEF IInv

\* A check that goes to a worker leaves the queue as the service is marked as
\* executing.
LEMMA StartCheckKeeps ==
    ASSUME IInv, NEW s \in Services, StartCheck(s)
    PROVE  IInv'
<1>. DEFINE o == event[s].options
<1>1. event' = [event EXCEPT ![s] = NoEvent]
  BY DEF StartCheck
<1>2. check_options' = [check_options EXCEPT ![s] = "none"]
  BY DEF StartCheck
<1>3. is_executing' = [is_executing EXCEPT ![s] = TRUE]
  BY DEF StartCheck
<1>4. /\ currently_running_service_checks' = currently_running_service_checks + 1
      /\ inflight' = [inflight EXCEPT ![s][o] = @ + 1]
      /\ inflight[s][o] < MaxInFlight
  BY DEF StartCheck
<1>5. LoopFree /\ UNCHANGED <<should_be_scheduled, checks_enabled, is_being_freshened, envVars>>
  BY DEF StartCheck
<1>6. event \in [Services -> MaybeEvents]
  BY DEF IInv, TypeOK, MaybeEvents
<1>7. o \in Options
  <2>1. NoEvent.options \in Options
    BY DEF NoEvent, Options
  <2>. QED  BY <1>6, <2>1, EventFields
<1>8. event' \in [Services -> MaybeEvents]
  BY <1>1, <1>6 DEF MaybeEvents
<1>9. inflight' \in [Services -> [Options -> 0..MaxInFlight]]
  <2>. HIDE DEF o
  <2>1. inflight \in [Services -> [Options -> 0..MaxInFlight]]
    BY DEF IInv, TypeOK
  <2>2. inflight[s][o] \in 0..MaxInFlight
    BY <1>7, <2>1
  <2>3. inflight[s][o] + 1 \in 0..MaxInFlight
    BY <1>4, <2>2, SchedulingConstants
  <2>4. [inflight[s] EXCEPT ![o] = inflight[s][o] + 1] \in [Options -> 0..MaxInFlight]
    BY <2>1, <2>3
  <2>5. inflight' = [inflight EXCEPT ![s] = [inflight[s] EXCEPT ![o] = inflight[s][o] + 1]]
    BY <1>4
  <2>. QED  BY <2>1, <2>4, <2>5
<1>10. TypeOK'
  <2>1. check_options' \in [Services -> Options]
    BY <1>2 DEF IInv, TypeOK, Options
  <2>2. is_executing' \in [Services -> BOOLEAN]
    BY <1>3 DEF IInv, TypeOK
  <2>3. currently_running_service_checks' \in Nat
    BY <1>4 DEF IInv, TypeOK
  <2>. QED  BY <1>5, <1>8, <1>9, <2>1, <2>2, <2>3, LoopFreeKeeps DEF IInv, TypeOK, envVars, MaybeEvents
<1>11. FlagsAgree'
  BY <1>5 DEF IInv, FlagsAgree
<1>12. NoServiceForgotten'
  <2>1. is_executing \in [Services -> BOOLEAN]
    BY DEF IInv, TypeOK
  <2>. QED  BY <1>1, <1>3, <1>5, <1>6, <2>1 DEF IInv, NoServiceForgotten
<1>. QED  BY <1>5, <1>10, <1>11, <1>12, LoopFreeKeeps DEF IInv

\* A check that was refused is back in the queue if the service should be scheduled.
LEMMA RefusalReturns ==
    ASSUME IInv, NEW s \in Services, NEW d \in 1..MaxDelay
    PROVE  /\ AfterRefusal(s, d) \in MaybeEvents
           /\ should_be_scheduled[s] => AfterRefusal(s, d) # NoEvent
           /\ event[s].options \in Options
<1>1. event[s] \in MaybeEvents /\ checks_enabled[s] \in BOOLEAN /\ NoEvent \in MaybeEvents
  BY DEF IInv, TypeOK, MaybeEvents
<1>2. event[s].options \in Options
  <2>1. NoEvent.options \in Options
    BY DEF NoEvent, Options
  <2>. QED  BY <1>1, <2>1, EventFields
<1>3. d \in Delays
  BY SchedulingConstants DEF Delays
<1>4. should_be_scheduled[s] => checks_enabled[s]
  BY DEF IInv, FlagsAgree
<1>5. /\ schedule_service_check(NoEvent, d, event[s].options, checks_enabled[s]) \in MaybeEvents
      /\ checks_enabled[s] => schedule_service_check(NoEvent, d, event[s].options, checks_enabled[s]) # NoEvent
  BY <1>1, <1>2, <1>3, ScheduleYields
<1>. QED  BY <1>1, <1>2, <1>4, <1>5 DEF AfterRefusal

\* A check that is not made.
LEMMA RefuseCheckKeeps ==
    ASSUME IInv, NEW s \in Services, RefuseCheck(s)
    PROVE  IInv'
<1>. DEFINE viable == check_service_check_viability(s, event[s].options)
<1>1. PICK d \in 1..MaxDelay :
        /\ event' = [event EXCEPT ![s] = AfterRefusal(s, d)]
        /\ check_options' = [check_options EXCEPT ![s] =
                                IF AfterRefusal(s, d) # NoEvent THEN event[s].options
                                ELSE IF viable THEN "none" ELSE @]
  BY DEF RefuseCheck
<1>2. LoopFree /\ UNCHANGED <<svcVars, currently_running_service_checks, inflight, envVars>>
  BY DEF RefuseCheck
<1>3. event \in [Services -> MaybeEvents]
  BY DEF IInv, TypeOK, MaybeEvents
<1>4. event' \in [Services -> MaybeEvents]
  BY <1>1, <1>3, RefusalReturns
<1>5. check_options' \in [Services -> Options]
  <2>. DEFINE new == IF AfterRefusal(s, d) # NoEvent THEN event[s].options
                     ELSE IF viable THEN "none" ELSE check_options[s]
  <2>1. new \in Options
    BY RefusalReturns DEF IInv, TypeOK, Options
  <2>2. check_options' = [check_options EXCEPT ![s] = new]
    BY <1>1
  <2>3. check_options \in [Services -> Options]
    BY DEF IInv, TypeOK
  <2>. HIDE DEF new
  <2>. QED  BY <2>1, <2>2, <2>3
<1>6. TypeOK'
  BY <1>2, <1>4, <1>5, LoopFreeKeeps DEF IInv, TypeOK, svcVars, envVars, MaybeEvents
<1>7. FlagsAgree'
  BY <1>2 DEF IInv, FlagsAgree, svcVars
<1>8. NoServiceForgotten'
  BY <1>1, <1>2, <1>3, RefusalReturns DEF IInv, NoServiceForgotten, svcVars
<1>. QED  BY <1>2, <1>6, <1>7, <1>8, LoopFreeKeeps DEF IInv

-----------------------------------------------------------------------------
\* Results and commands.

\* A result or a command that schedules one service: the queue keeps its types
\* and no event is lost.
LEMMA OneScheduled ==
    ASSUME IInv, NEW s \in Services, NEW at \in Delays, NEW options \in Options, NEW enabled \in BOOLEAN,
           NEW asked \in BOOLEAN,
           Polled([event EXCEPT ![s] = IF asked THEN schedule_service_check(@, at, options, enabled) ELSE @])
    PROVE  /\ event' \in [Services -> MaybeEvents] /\ check_options' \in [Services -> Options]
           /\ current_event' \in Services \cup {NoService} /\ event_runtime' \in Delays
           /\ PeekedEventStands'
           /\ \A t \in Services : event[t] # NoEvent => event'[t] # NoEvent
           /\ asked /\ (enabled \/ Forces(options)) => event'[s] # NoEvent
<1>. DEFINE one == IF asked THEN schedule_service_check(event[s], at, options, enabled) ELSE event[s]
            new == [event EXCEPT ![s] = one]
<1>1. event \in [Services -> MaybeEvents]
  BY DEF IInv, TypeOK, MaybeEvents
<1>2. /\ one \in MaybeEvents
      /\ event[s] # NoEvent => one # NoEvent
      /\ asked /\ (enabled \/ Forces(options)) => one # NoEvent
  BY <1>1, ScheduleYields
<1>3. Polled(new)
  OBVIOUS
<1>. HIDE DEF one
<1>4. new \in [Services -> MaybeEvents]
  BY <1>1, <1>2
<1>5. new[s] = one /\ \A t \in Services : t # s => new[t] = event[t]
  BY <1>1
<1>. HIDE DEF new
<1>6. /\ event' = new /\ event' \in [Services -> MaybeEvents] /\ check_options' \in [Services -> Options]
      /\ current_event' \in Services \cup {NoService} /\ event_runtime' \in Delays
      /\ PeekedEventStands'
  BY <1>3, <1>4, PolledKeeps
<1>. QED  BY <1>2, <1>5, <1>6

\* A result reschedules what should be scheduled.
LEMMA RescheduleKeeps ==
    ASSUME IInv, NEW s \in Services, NEW wanted \in BOOLEAN, NEW settled \in BOOLEAN, NEW d \in Delays,
           Reschedule(s, wanted, settled, d)
    PROVE  /\ event' \in [Services -> MaybeEvents] /\ check_options' \in [Services -> Options]
           /\ current_event' \in Services \cup {NoService} /\ event_runtime' \in Delays
           /\ should_be_scheduled' \in [Services -> BOOLEAN]
           /\ PeekedEventStands'
           /\ \A t \in Services : event[t] # NoEvent => event'[t] # NoEvent
           /\ \A t \in Services : t # s => should_be_scheduled'[t] = should_be_scheduled[t]
           /\ should_be_scheduled'[s] => checks_enabled[s] /\ event'[s] # NoEvent
           /\ wanted /\ s \in Regular /\ checks_enabled[s] => should_be_scheduled'[s]
<1>. DEFINE again == wanted /\ checks_enabled[s] /\ (s \in Regular \/ ~settled)
<1>1. should_be_scheduled \in [Services -> BOOLEAN] /\ checks_enabled[s] \in BOOLEAN
  BY DEF IInv, TypeOK
<1>2. again \in BOOLEAN /\ TRUE \in BOOLEAN /\ "none" \in Options
  BY <1>1 DEF Options
<1>3. should_be_scheduled' = [should_be_scheduled EXCEPT ![s] = again]
  BY DEF Reschedule
<1>4. Polled([event EXCEPT ![s] = IF again THEN schedule_service_check(@, d, "none", TRUE) ELSE @])
  BY DEF Reschedule
<1>5. again => checks_enabled[s]
  OBVIOUS
<1>6. wanted /\ s \in Regular /\ checks_enabled[s] => again
  OBVIOUS
<1>. HIDE DEF again
<1>7. /\ event' \in [Services -> MaybeEvents] /\ check_options' \in [Services -> Options]
      /\ current_event' \in Services \cup {NoService} /\ event_runtime' \in Delays
      /\ PeekedEventStands'
      /\ \A t \in Services : event[t] # NoEvent => event'[t] # NoEvent
      /\ again => event'[s] # NoEvent
  BY <1>2, <1>4, OneScheduled
<1>8. /\ should_be_scheduled' \in [Services -> BOOLEAN]
      /\ should_be_scheduled'[s] = again
      /\ \A t \in Services : t # s => should_be_scheduled'[t] = should_be_scheduled[t]
  BY <1>1, <1>2, <1>3
<1>. QED  BY <1>5, <1>6, <1>7, <1>8

\* The result of a check marks the service as not executing, and reschedules it.
LEMMA ActiveResultKeeps ==
    ASSUME IInv, NEW s \in Services, NEW options \in Options, NEW settled \in BOOLEAN, NEW d \in Delays,
           ActiveResult(s, options, settled, d)
    PROVE  IInv' /\ EventsStay
<1>1. Reschedule(s, TRUE, settled, d) /\ TRUE \in BOOLEAN
  BY DEF ActiveResult
<1>2. inflight' = [inflight EXCEPT ![s][options] = @ - 1] /\ inflight[s][options] > 0
  BY DEF ActiveResult
<1>3. currently_running_service_checks' = Decremented(currently_running_service_checks, 1)
  BY DEF ActiveResult
<1>4. is_executing' = [is_executing EXCEPT ![s] = FALSE]
  BY DEF ActiveResult
<1>5. is_being_freshened' = [is_being_freshened EXCEPT ![s] = Freshened(s, options)]
  BY DEF ActiveResult
<1>6. stale' = [stale EXCEPT ![s] = FALSE] /\ UNCHANGED <<checks_enabled, obstacles, workers>>
  BY DEF ActiveResult
<1>7. inflight' \in [Services -> [Options -> 0..MaxInFlight]]
  <2>1. inflight \in [Services -> [Options -> 0..MaxInFlight]]
    BY DEF IInv, TypeOK
  <2>2. inflight[s][options] - 1 \in 0..MaxInFlight
    BY <1>2, <2>1, SchedulingConstants
  <2>3. [inflight[s] EXCEPT ![options] = inflight[s][options] - 1] \in [Options -> 0..MaxInFlight]
    BY <2>1, <2>2
  <2>4. inflight' = [inflight EXCEPT ![s] = [inflight[s] EXCEPT ![options] = inflight[s][options] - 1]]
    BY <1>2
  <2>. QED  BY <2>1, <2>3, <2>4
<1>8. currently_running_service_checks' \in Nat
  BY <1>3, DecrementedType DEF IInv, TypeOK
<1>9. is_executing' \in [Services -> BOOLEAN]
  BY <1>4 DEF IInv, TypeOK
<1>10. is_being_freshened' \in [Services -> BOOLEAN]
  <2>1. Freshened(s, options) \in BOOLEAN
    BY DEF Freshened
  <2>. QED  BY <1>5, <2>1 DEF IInv, TypeOK
<1>11. stale' \in [Services -> BOOLEAN]
  BY <1>6 DEF IInv, TypeOK
<1>12. TypeOK'
  BY <1>1, <1>6, <1>7, <1>8, <1>9, <1>10, <1>11, RescheduleKeeps DEF IInv, TypeOK, MaybeEvents
<1>13. FlagsAgree'
  BY <1>1, <1>6, RescheduleKeeps, SchedulingConstants DEF IInv, FlagsAgree
<1>14. NoServiceForgotten'
  <2>1. \A t \in Services : t # s => is_executing'[t] = is_executing[t]
    BY <1>4 DEF IInv, TypeOK
  <2>. QED  BY <1>1, <2>1, RescheduleKeeps DEF IInv, NoServiceForgotten
<1>. QED  BY <1>1, <1>12, <1>13, <1>14, RescheduleKeeps DEF IInv, EventsStay

\* A passive result schedules what it marks as scheduled.
LEMMA PassiveResultKeeps ==
    ASSUME IInv, NEW s \in Services, NEW changed \in BOOLEAN, NEW settled \in BOOLEAN, NEW d \in Delays,
           PassiveResult(s, changed, settled, d)
    PROVE  IInv' /\ EventsStay
<1>1. Reschedule(s, changed, settled, d) /\ s \in Passive
  BY DEF PassiveResult
<1>2. stale' = [stale EXCEPT ![s] = FALSE]
  BY DEF PassiveResult
<1>3. UNCHANGED <<checks_enabled, is_executing, is_being_freshened,
                  currently_running_service_checks, inflight, obstacles, workers>>
  BY DEF PassiveResult
<1>4. stale' \in [Services -> BOOLEAN]
  BY <1>2 DEF IInv, TypeOK
<1>5. TypeOK'
  BY <1>1, <1>3, <1>4, RescheduleKeeps DEF IInv, TypeOK, MaybeEvents
<1>6. FlagsAgree'
  BY <1>1, <1>3, RescheduleKeeps DEF IInv, FlagsAgree
<1>7. NoServiceForgotten'
  BY <1>1, <1>3, RescheduleKeeps DEF IInv, NoServiceForgotten
<1>. QED  BY <1>1, <1>5, <1>6, <1>7, RescheduleKeeps DEF IInv, EventsStay

\* A request replaces an event at most.
LEMMA RequestCheckKeeps ==
    ASSUME IInv, NEW s \in Services, NEW at \in Delays, NEW options \in {"none", "force"},
           RequestCheck(s, at, options)
    PROVE  IInv' /\ EventsStay
<1>1. UNCHANGED <<svcVars, currently_running_service_checks, inflight, envVars>>
  BY DEF RequestCheck
<1>2. checks_enabled[s] \in BOOLEAN /\ options \in Options /\ TRUE \in BOOLEAN
  BY DEF IInv, TypeOK, Options
<1>3. Polled([event EXCEPT ![s] = IF TRUE THEN schedule_service_check(@, at, options, checks_enabled[s]) ELSE @])
  BY DEF RequestCheck
<1>4. /\ event' \in [Services -> MaybeEvents] /\ check_options' \in [Services -> Options]
      /\ current_event' \in Services \cup {NoService} /\ event_runtime' \in Delays
      /\ PeekedEventStands'
      /\ \A t \in Services : event[t] # NoEvent => event'[t] # NoEvent
  BY <1>2, <1>3, OneScheduled
<1>5. TypeOK'
  BY <1>1, <1>4 DEF IInv, TypeOK, svcVars, envVars, MaybeEvents
<1>6. FlagsAgree' /\ NoServiceForgotten'
  BY <1>1, <1>4 DEF IInv, FlagsAgree, NoServiceForgotten, svcVars
<1>. QED  BY <1>4, <1>5, <1>6 DEF IInv, EventsStay

\* What is disabled should not be scheduled.
LEMMA DisableKeeps ==
    ASSUME IInv, NEW s \in Services, disable_service_checks(s)
    PROVE  IInv' /\ EventsStay
<1>1. checks_enabled' = [checks_enabled EXCEPT ![s] = FALSE]
  BY DEF disable_service_checks
<1>2. should_be_scheduled' = [should_be_scheduled EXCEPT ![s] = FALSE]
  BY DEF disable_service_checks
<1>3. UNCHANGED <<event, loopVars, check_options, is_executing, is_being_freshened,
                  currently_running_service_checks, inflight, envVars>>
  BY DEF disable_service_checks
<1>4. checks_enabled' \in [Services -> BOOLEAN] /\ should_be_scheduled' \in [Services -> BOOLEAN]
  BY <1>1, <1>2 DEF IInv, TypeOK
<1>5. TypeOK'
  BY <1>3, <1>4 DEF IInv, TypeOK, loopVars, envVars
<1>6. FlagsAgree'
  BY <1>1, <1>2, SchedulingConstants DEF IInv, TypeOK, FlagsAgree
<1>7. NoServiceForgotten' /\ PeekedEventStands'
  BY <1>2, <1>3 DEF IInv, TypeOK, NoServiceForgotten, PeekedEventStands, loopVars
<1>. QED  BY <1>3, <1>5, <1>6, <1>7 DEF IInv, EventsStay

\* What is enabled is scheduled.
LEMMA EnableKeeps ==
    ASSUME IInv, NEW s \in Services, NEW at \in Delays, enable_service_checks(s, at)
    PROVE  IInv' /\ EventsStay
<1>. DEFINE regular == s \in Regular
<1>1. checks_enabled' = [checks_enabled EXCEPT ![s] = TRUE]
  BY DEF enable_service_checks
<1>2. should_be_scheduled' = [should_be_scheduled EXCEPT ![s] = regular]
  BY DEF enable_service_checks
<1>3. UNCHANGED <<is_executing, is_being_freshened, currently_running_service_checks, inflight, envVars>>
  BY DEF enable_service_checks
<1>4. Polled([event EXCEPT ![s] = IF regular THEN schedule_service_check(@, at, "none", TRUE) ELSE @])
  BY DEF enable_service_checks
<1>5. regular \in BOOLEAN /\ TRUE \in BOOLEAN /\ "none" \in Options
  BY DEF Options
<1>6. regular <=> s \in Regular
  OBVIOUS
<1>. HIDE DEF regular
<1>7. /\ event' \in [Services -> MaybeEvents] /\ check_options' \in [Services -> Options]
      /\ current_event' \in Services \cup {NoService} /\ event_runtime' \in Delays
      /\ PeekedEventStands'
      /\ \A t \in Services : event[t] # NoEvent => event'[t] # NoEvent
      /\ regular => event'[s] # NoEvent
  BY <1>4, <1>5, OneScheduled
<1>8. /\ checks_enabled' \in [Services -> BOOLEAN] /\ checks_enabled'[s]
      /\ \A t \in Services : t # s => checks_enabled'[t] = checks_enabled[t]
  BY <1>1 DEF IInv, TypeOK
<1>9. /\ should_be_scheduled' \in [Services -> BOOLEAN] /\ should_be_scheduled'[s] = regular
      /\ \A t \in Services : t # s => should_be_scheduled'[t] = should_be_scheduled[t]
  BY <1>2, <1>5 DEF IInv, TypeOK
<1>10. TypeOK'
  BY <1>3, <1>7, <1>8, <1>9 DEF IInv, TypeOK, envVars, MaybeEvents
<1>11. FlagsAgree'
  BY <1>6, <1>8, <1>9, SchedulingConstants DEF IInv, FlagsAgree
<1>12. NoServiceForgotten'
  BY <1>3, <1>7, <1>9 DEF IInv, NoServiceForgotten
<1>. QED  BY <1>7, <1>10, <1>11, <1>12 DEF IInv, EventsStay
-----------------------------------------------------------------------------
\* Sweeps.

\* A sweep takes some services for executing no longer only when it schedules
\* them again.
LEMMA OrphansKeep ==
    ASSUME IInv, NEW late \in SUBSET Services, check_for_orphaned_services(late)
    PROVE  IInv' /\ EventsStay
<1>. DEFINE new == [s \in Services |-> IF s \in late THEN AfterOrphan(s) ELSE event[s]]
<1>1. currently_running_service_checks' = Decremented(currently_running_service_checks, Cardinality(late))
  BY DEF check_for_orphaned_services
<1>2. is_executing' = [s \in Services |-> is_executing[s] /\ s \notin late]
  BY DEF check_for_orphaned_services
<1>3. Scheduled(new)
  BY DEF check_for_orphaned_services
<1>4. LoopFree /\ UNCHANGED <<should_be_scheduled, checks_enabled, is_being_freshened, inflight, envVars>>
  BY DEF check_for_orphaned_services
<1>5. ASSUME NEW s \in Services
      PROVE  /\ AfterOrphan(s) \in MaybeEvents /\ event[s] \in MaybeEvents
             /\ event[s] # NoEvent \/ checks_enabled[s] => AfterOrphan(s) # NoEvent
  <2>1. event[s] \in MaybeEvents /\ checks_enabled[s] \in BOOLEAN /\ 0 \in Delays /\ "none" \in Options
    BY SchedulingConstants DEF IInv, TypeOK, MaybeEvents, Delays, Options
  <2>2. /\ schedule_service_check(event[s], 0, "none", checks_enabled[s]) \in MaybeEvents
        /\ event[s] # NoEvent \/ checks_enabled[s]
             => schedule_service_check(event[s], 0, "none", checks_enabled[s]) # NoEvent
    BY <2>1, ScheduleYields
  <2>. QED  BY <2>1, <2>2 DEF AfterOrphan
<1>6. new \in [Services -> MaybeEvents]
  BY <1>5
<1>7. event' = new
  BY <1>3 DEF Scheduled
<1>8. event' \in [Services -> MaybeEvents] /\ check_options' \in [Services -> Options]
  <2>. HIDE DEF new
  <2>. QED  BY <1>3, <1>6, ScheduledTypes DEF IInv
<1>9. currently_running_service_checks' \in Nat
  <2>1. IsFiniteSet(late)
    BY FS_Subset, SchedulingConstants
  <2>2. Cardinality(late) \in Nat
    BY <2>1, FS_CardinalityType
  <2>. QED  BY <1>1, <2>2, DecrementedType DEF IInv, TypeOK
<1>10. is_executing' \in [Services -> BOOLEAN]
  BY <1>2
<1>11. TypeOK'
  BY <1>4, <1>8, <1>9, <1>10, LoopFreeKeeps DEF IInv, TypeOK, envVars, MaybeEvents
<1>12. FlagsAgree'
  BY <1>4 DEF IInv, FlagsAgree
<1>13. NoServiceForgotten'
  <2>1. ASSUME NEW s \in Services, should_be_scheduled[s]
        PROVE  event'[s] # NoEvent \/ is_executing'[s]
    <3>1. CASE s \in late
      <4>1. checks_enabled[s]
        BY <2>1 DEF IInv, FlagsAgree
      <4>2. event'[s] = AfterOrphan(s)
        BY <1>7, <3>1
      <4>. QED  BY <1>5, <4>1, <4>2
    <3>2. CASE s \notin late
      <4>1. event'[s] = event[s] /\ is_executing'[s] = is_executing[s]
        BY <1>2, <1>7, <3>2 DEF IInv, TypeOK
      <4>. QED  BY <2>1, <4>1 DEF IInv, NoServiceForgotten
    <3>. QED  BY <3>1, <3>2
  <2>. QED  BY <1>4, <2>1 DEF NoServiceForgotten
<1>14. EventsStay
  BY <1>5, <1>7 DEF EventsStay
<1>. QED  BY <1>4, <1>11, <1>12, <1>13, <1>14, LoopFreeKeeps DEF IInv

\* The freshness sweep takes no event away.
LEMMA FreshnessKeeps ==
    ASSUME IInv, check_service_result_freshness
    PROVE  IInv' /\ EventsStay
<1>. DEFINE new == [s \in Services |-> IF s \in Freshen
                                       THEN schedule_service_check(event[s], 0, "freshness", checks_enabled[s])
                                       ELSE event[s]]
<1>1. is_being_freshened' = [s \in Services |-> is_being_freshened[s] \/ s \in Freshen]
  BY DEF check_service_result_freshness
<1>2. Scheduled(new)
  BY DEF check_service_result_freshness
<1>3. LoopFree /\ UNCHANGED <<should_be_scheduled, checks_enabled, is_executing,
                              currently_running_service_checks, inflight, envVars>>
  BY DEF check_service_result_freshness
<1>4. ASSUME NEW s \in Services
      PROVE  /\ event[s] \in MaybeEvents
             /\ schedule_service_check(event[s], 0, "freshness", checks_enabled[s]) \in MaybeEvents
             /\ schedule_service_check(event[s], 0, "freshness", checks_enabled[s]) # NoEvent
  <2>1. event[s] \in MaybeEvents /\ checks_enabled[s] \in BOOLEAN /\ 0 \in Delays /\ "freshness" \in Options
    BY SchedulingConstants DEF IInv, TypeOK, MaybeEvents, Delays, Options
  <2>. QED  BY <2>1, ScheduleYields DEF Forces
<1>5. new \in [Services -> MaybeEvents]
  BY <1>4
<1>6. event' = new
  BY <1>2 DEF Scheduled
<1>7. event' \in [Services -> MaybeEvents] /\ check_options' \in [Services -> Options]
  <2>. HIDE DEF new
  <2>. QED  BY <1>2, <1>5, ScheduledTypes DEF IInv
<1>8. is_being_freshened' \in [Services -> BOOLEAN]
  BY <1>1
<1>9. TypeOK'
  BY <1>3, <1>7, <1>8, LoopFreeKeeps DEF IInv, TypeOK, envVars, MaybeEvents
<1>10. FlagsAgree'
  BY <1>3 DEF IInv, FlagsAgree
<1>11. EventsStay
  BY <1>4, <1>6 DEF EventsStay
<1>12. NoServiceForgotten'
  BY <1>3, <1>11 DEF IInv, EventsStay, NoServiceForgotten
<1>. QED  BY <1>3, <1>9, <1>10, <1>11, <1>12, LoopFreeKeeps DEF IInv

-----------------------------------------------------------------------------
\* The environment.

\* The clock moves the events and what the loop knows of them together.
LEMMA TickKeeps ==
    ASSUME IInv, Tick
    PROVE  IInv' /\ EventsStay
<1>1. event' = [s \in Services |-> [event[s] EXCEPT !.due = Elapsed(@)]]
  BY DEF Tick
<1>2. event_runtime' = Elapsed(event_runtime) /\ current_event' = current_event
  BY DEF Tick
<1>3. UNCHANGED <<check_options, svcVars, currently_running_service_checks, inflight, envVars>>
  BY DEF Tick, Rest
<1>4. ASSUME NEW d \in Delays
      PROVE  Elapsed(d) \in Delays
  BY SchedulingConstants DEF Elapsed, Delays
<1>5. ASSUME NEW s \in Services
      PROVE  event'[s] \in MaybeEvents /\ (event'[s] = NoEvent <=> event[s] = NoEvent)
  <2>1. event'[s] = [event[s] EXCEPT !.due = Elapsed(event[s].due)]
    BY <1>1
  <2>2. CASE event[s] = NoEvent
    <3>1. Elapsed(-1) = -1
      BY DEF Elapsed
    <3>. QED  BY <2>1, <2>2, <3>1 DEF NoEvent, MaybeEvents
  <2>3. CASE event[s] # NoEvent
    <3>1. event[s] \in Events /\ event[s].due \in Delays
      BY <2>3, EventFields DEF IInv, TypeOK, MaybeEvents
    <3>2. Elapsed(event[s].due) \in Delays
      BY <1>4, <3>1
    <3>3. event'[s] \in Events /\ event'[s].due \in Delays
      BY <2>1, <3>1, <3>2 DEF Events
    <3>4. event'[s] # NoEvent
      BY <3>3, SchedulingConstants DEF NoEvent, Delays
    <3>. QED  BY <2>3, <3>3, <3>4 DEF MaybeEvents
  <2>. QED  BY <2>2, <2>3
<1>6. event' \in [Services -> MaybeEvents]
  BY <1>1, <1>5
<1>7. TypeOK'
  BY <1>2, <1>3, <1>4, <1>6 DEF IInv, TypeOK, svcVars, envVars, MaybeEvents
<1>8. FlagsAgree'
  BY <1>3 DEF IInv, FlagsAgree, svcVars
<1>9. NoServiceForgotten'
  BY <1>3, <1>5 DEF IInv, NoServiceForgotten, svcVars
<1>10. PeekedEventStands'
  <2>1. ASSUME current_event # NoService
        PROVE  event'[current_event] # NoEvent /\ event'[current_event].due = Elapsed(event_runtime)
    <3>1. current_event \in Services
      BY <2>1 DEF IInv, TypeOK
    <3>2. event[current_event] # NoEvent /\ event[current_event].due = event_runtime
      BY <2>1 DEF IInv, PeekedEventStands
    <3>3. event[current_event] \in Events
      BY <3>1, <3>2, EventFields DEF IInv, TypeOK, MaybeEvents
    <3>4. event'[current_event] = [event[current_event] EXCEPT !.due = Elapsed(event[current_event].due)]
      BY <1>1, <3>1
    <3>5. event'[current_event].due = Elapsed(event[current_event].due)
      BY <3>3, <3>4 DEF Events
    <3>. QED  BY <1>5, <3>1, <3>2, <3>5
  <2>. QED  BY <1>2, <2>1 DEF PeekedEventStands
<1>. QED  BY <1>5, <1>7, <1>8, <1>9, <1>10 DEF IInv, EventsStay

\* What happens outside touches neither the queue nor the flags.
LEMMA OutsideKeeps ==
    ASSUME IInv,
           UNCHANGED <<event, loopVars, check_options, svcVars, currently_running_service_checks>>,
           inflight' \in [Services -> [Options -> 0..MaxInFlight]],
           stale' \in [Services -> BOOLEAN], obstacles' \in [Services -> SUBSET Obstacles],
           workers' \in BOOLEAN
    PROVE  IInv' /\ EventsStay
<1>1. TypeOK'
  BY DEF IInv, TypeOK, loopVars, svcVars
<1>2. FlagsAgree' /\ NoServiceForgotten' /\ PeekedEventStands'
  BY DEF IInv, FlagsAgree, NoServiceForgotten, PeekedEventStands, loopVars, svcVars
<1>. QED  BY <1>1, <1>2 DEF IInv, EventsStay

\* The last result of a service gets too old.
LEMMA GoesStaleKeeps ==
    ASSUME IInv, NEW s \in Services, GoesStale(s)
    PROVE  IInv' /\ EventsStay
<1>1. stale' = [stale EXCEPT ![s] = TRUE]
  BY DEF GoesStale
<1>2. /\ UNCHANGED <<event, loopVars, check_options, svcVars, currently_running_service_checks>>
      /\ UNCHANGED <<inflight, obstacles, workers>>
  BY DEF GoesStale, Rest
<1>3. stale' \in [Services -> BOOLEAN]
  BY <1>1 DEF IInv, TypeOK
<1>. QED  BY <1>2, <1>3, OutsideKeeps DEF IInv, TypeOK

\* A period begins or ends, a host goes down or comes up.
LEMMA ObstacleKeeps ==
    ASSUME IInv, NEW s \in Services, NEW why \in Obstacles, ObstacleChanges(s, why)
    PROVE  IInv' /\ EventsStay
<1>. DEFINE changed == IF why \in obstacles[s] THEN obstacles[s] \ {why} ELSE obstacles[s] \cup {why}
<1>1. obstacles' = [obstacles EXCEPT ![s] = changed]
  BY DEF ObstacleChanges
<1>2. /\ UNCHANGED <<event, loopVars, check_options, svcVars, currently_running_service_checks>>
      /\ UNCHANGED <<inflight, stale, workers>>
  BY DEF ObstacleChanges, Rest
<1>3. changed \in SUBSET Obstacles
  BY DEF IInv, TypeOK
<1>. HIDE DEF changed
<1>4. obstacles' \in [Services -> SUBSET Obstacles]
  BY <1>1, <1>3 DEF IInv, TypeOK
<1>. QED  BY <1>2, <1>4, OutsideKeeps DEF IInv, TypeOK

\* Workers die or register.
LEMMA WorkersKeep ==
    ASSUME IInv, WorkersChange
    PROVE  IInv' /\ EventsStay
<1>1. workers' = ~workers
  BY DEF WorkersChange
<1>2. /\ UNCHANGED <<event, loopVars, check_options, svcVars, currently_running_service_checks>>
      /\ UNCHANGED <<inflight, stale, obstacles>>
  BY DEF WorkersChange, Rest
<1>3. workers' \in BOOLEAN
  BY <1>1 DEF IInv, TypeOK
<1>. QED  BY <1>2, <1>3, OutsideKeeps DEF IInv, TypeOK

\* A check is lost with its worker.
LEMMA LoseCheckKeeps ==
    ASSUME IInv, NEW s \in Services, NEW options \in Options, LoseCheck(s, options)
    PROVE  IInv' /\ EventsStay
<1>1. inflight' = [inflight EXCEPT ![s][options] = @ - 1] /\ inflight[s][options] > 0
  BY DEF LoseCheck
<1>2. /\ UNCHANGED <<event, loopVars, check_options, svcVars, currently_running_service_checks>>
      /\ UNCHANGED envVars
  BY DEF LoseCheck, Rest
<1>3. inflight' \in [Services -> [Options -> 0..MaxInFlight]]
  <2>1. inflight \in [Services -> [Options -> 0..MaxInFlight]]
    BY DEF IInv, TypeOK
  <2>2. inflight[s][options] - 1 \in 0..MaxInFlight
    BY <1>1, <2>1, SchedulingConstants
  <2>3. [inflight[s] EXCEPT ![options] = inflight[s][options] - 1] \in [Options -> 0..MaxInFlight]
    BY <2>1, <2>2
  <2>4. inflight' = [inflight EXCEPT ![s] = [inflight[s] EXCEPT ![options] = inflight[s][options] - 1]]
    BY <1>1
  <2>. QED  BY <2>1, <2>3, <2>4
<1>. QED  BY <1>2, <1>3, OutsideKeeps DEF IInv, TypeOK, envVars

-----------------------------------------------------------------------------
\* The steps together.

\* A check of a regular and enabled service that is not made returns to the
\* queue, unless passive results have marked the service as unscheduled.
LEMMA RefuseReturns ==
    ASSUME IInv, Passive = {}, NEW s \in Services, RefuseCheck(s)
    PROVE  \A t \in Regular : checks_enabled[t] /\ event[t] # NoEvent => event'[t] # NoEvent
<1>1. PICK d \in 1..MaxDelay : event' = [event EXCEPT ![s] = AfterRefusal(s, d)]
  BY DEF RefuseCheck
<1>2. event \in [Services -> MaybeEvents]
  BY DEF IInv, TypeOK, MaybeEvents
<1>3. s \in Regular /\ checks_enabled[s] => AfterRefusal(s, d) # NoEvent
  BY RefusalReturns DEF IInv, FlagsAgree
<1>. QED  BY <1>1, <1>2, <1>3, SchedulingConstants

\* An event that a check takes out of the queue is that of the check.
LEMMA StartTakesItsEvent ==
    ASSUME IInv, NEW s \in Services, StartCheck(s)
    PROVE  \A t \in Services : event[t] # NoEvent /\ event'[t] = NoEvent => inflight'[t] # inflight[t]
<1>. DEFINE o == event[s].options
<1>1. event' = [event EXCEPT ![s] = NoEvent] /\ inflight' = [inflight EXCEPT ![s][o] = @ + 1]
  BY DEF StartCheck
<1>2. event \in [Services -> MaybeEvents] /\ inflight \in [Services -> [Options -> 0..MaxInFlight]]
  BY DEF IInv, TypeOK, MaybeEvents
<1>3. o \in Options
  <2>1. NoEvent.options \in Options
    BY DEF NoEvent, Options
  <2>. QED  BY <1>2, <2>1, EventFields
<1>. HIDE DEF o
<1>4. inflight'[s][o] = inflight[s][o] + 1 /\ inflight[s][o] \in Nat
  BY <1>1, <1>2, <1>3, SchedulingConstants
<1>5. inflight'[s] # inflight[s]
  BY <1>4
<1>. QED  BY <1>1, <1>2, <1>5

\* Every step keeps the invariant, and takes no event out of the queue but to
\* start or to refuse its check.
LEMMA NextKeeps ==
    ASSUME IInv, Next
    PROVE  IInv' /\ (EventsStay \/ \E s \in Services : StartCheck(s) \/ RefuseCheck(s))
<1>1. ASSUME NEW s \in Services, Peek(s) \/ Nudge(s) \/ StartCheck(s) \/ RefuseCheck(s)
      PROVE  IInv' /\ (EventsStay \/ \E t \in Services : StartCheck(t) \/ RefuseCheck(t))
  BY <1>1, PeekKeeps, NudgeKeeps, StartCheckKeeps, RefuseCheckKeeps
<1>2. ASSUME NEW s \in Services, NEW options \in Options, NEW settled \in BOOLEAN, NEW d \in Delays,
             ActiveResult(s, options, settled, d)
      PROVE  IInv' /\ EventsStay
  BY <1>2, ActiveResultKeeps
<1>3. ASSUME NEW s \in Services, NEW changed \in BOOLEAN, NEW settled \in BOOLEAN, NEW d \in Delays,
             PassiveResult(s, changed, settled, d)
      PROVE  IInv' /\ EventsStay
  BY <1>3, PassiveResultKeeps
<1>4. ASSUME NEW s \in Services, NEW at \in Delays, NEW options \in {"none", "force"},
             RequestCheck(s, at, options)
      PROVE  IInv' /\ EventsStay
  BY <1>4, RequestCheckKeeps
<1>5. ASSUME NEW s \in Services, disable_service_checks(s)
      PROVE  IInv' /\ EventsStay
  BY <1>5, DisableKeeps
<1>6. ASSUME NEW s \in Services, NEW at \in Delays, enable_service_checks(s, at)
      PROVE  IInv' /\ EventsStay
  BY <1>6, EnableKeeps
<1>7. ASSUME NEW late \in SUBSET Services, check_for_orphaned_services(late)
      PROVE  IInv' /\ EventsStay
  BY <1>7, OrphansKeep
<1>8. CASE check_service_result_freshness
  BY <1>8, FreshnessKeeps
<1>9. CASE Tick
  BY <1>9, TickKeeps
<1>10. ASSUME NEW s \in Services, GoesStale(s)
       PROVE  IInv' /\ EventsStay
  BY <1>10, GoesStaleKeeps
<1>11. ASSUME NEW s \in Services, NEW why \in Obstacles, ObstacleChanges(s, why)
       PROVE  IInv' /\ EventsStay
  BY <1>11, ObstacleKeeps
<1>12. CASE WorkersChange
  BY <1>12, WorkersKeep
<1>13. ASSUME NEW s \in Services, NEW options \in Options, LoseCheck(s, options)
       PROVE  IInv' /\ EventsStay
  BY <1>13, LoseCheckKeeps
<1>. QED  BY <1>1, <1>2, <1>3, <1>4, <1>5, <1>6, <1>7, <1>8, <1>9, <1>10, <1>11, <1>12, <1>13 DEF Next

-----------------------------------------------------------------------------
\* The theorems.

\* The inductive invariant of the scheduler (base/events.c, base/checks.c).
THEOREM SchedulingInvariant == Spec => []IInv
<1>1. Init => IInv
  BY InitIInv
<1>2. IInv /\ [Next]_vars => IInv'
  <2>1. CASE Next
    BY <2>1, NextKeeps
  <2>2. CASE UNCHANGED vars
    BY <2>2 DEF vars, loopVars, svcVars, envVars, IInv, TypeOK, FlagsAgree, NoServiceForgotten, PeekedEventStands
  <2>. QED  BY <2>1, <2>2
<1>. QED  BY <1>1, <1>2, PTL DEF Spec

\* The queue and the flags of the services keep their types, and the counter of
\* running checks does not go below zero (base/checks.c, objects.h).
THEOREM SchedulingTypesCorrect == Spec => []TypeOK
<1>1. IInv => TypeOK
  BY DEF IInv
<1>. QED  BY <1>1, SchedulingInvariant, PTL

\* A service that should be scheduled has an event or a check out, in whatever
\* order results, commands, losses and sweeps come.
THEOREM SchedulingNoServiceForgotten == Spec => []NoServiceForgotten
<1>1. IInv => NoServiceForgotten
  BY DEF IInv
<1>. QED  BY <1>1, SchedulingInvariant, PTL

\* The loop never runs an event that the poll took away or moved
\* (event_execution_loop, remove_event).
THEOREM SchedulingPeekedEventStands == Spec => []PeekedEventStands
<1>1. IInv => PeekedEventStands
  BY DEF IInv
<1>. QED  BY <1>1, SchedulingInvariant, PTL

\* Where no passive results are accepted, "rescheduled as normal"
\* (base/checks.c) is true: a regular service leaves the queue only to be
\* checked.
THEOREM RefusedReturnWithoutPassive ==
    ASSUME Passive = {}
    PROVE  Spec => RefusedChecksReturn
<1>1. IInv /\ [Next]_vars
        => [\A s \in Regular : checks_enabled[s] /\ event[s] # NoEvent /\ event'[s] = NoEvent
                                 => inflight'[s] # inflight[s]]_vars
  <2>. SUFFICES ASSUME IInv, Next
                PROVE  \A s \in Regular : checks_enabled[s] /\ event[s] # NoEvent /\ event'[s] = NoEvent
                                            => inflight'[s] # inflight[s]
    OBVIOUS
  <2>1. CASE EventsStay
    BY <2>1, SchedulingConstants DEF EventsStay
  <2>2. ASSUME NEW s \in Services, StartCheck(s)
        PROVE  \A t \in Services : event[t] # NoEvent /\ event'[t] = NoEvent => inflight'[t] # inflight[t]
    BY <2>2, StartTakesItsEvent
  <2>3. ASSUME NEW s \in Services, RefuseCheck(s)
        PROVE  \A t \in Regular : checks_enabled[t] /\ event[t] # NoEvent => event'[t] # NoEvent
    BY <2>3, RefuseReturns
  <2>. QED  BY <2>1, <2>2, <2>3, NextKeeps, SchedulingConstants
<1>. QED  BY <1>1, SchedulingInvariant, PTL DEF Spec, RefusedChecksReturn


-----------------------------------------------------------------------------
\* Loops.

\* Of a set of naturals that is not empty, one is the least.
LEMMA Least ==
    ASSUME NEW T \in SUBSET Nat, T # {}
    PROVE  \E m \in T : \A k \in T : m <= k
  <1>1. PICK m \in T : \A k \in T : ~(<<k, m>> \in OpToRel(<, Nat))
    BY WFMin, NatLessThanWellFounded, Zenon
  <1>2. \A k \in T : ~(k < m)
    BY <1>1, Zenon DEF OpToRel
  <1>3. m \in Nat /\ \A k \in T : k \in Nat
    OBVIOUS
  <1> QED BY <1>2, <1>3

\* What holds before a loop and is kept by its turns holds after each.
LEMMA Induction ==
    ASSUME NEW N \in Nat, NEW G \in SUBSET (0..N), 0 \in G,
           \A n \in 1..N : n - 1 \in G => n \in G
    PROVE  \A n \in 0..N : n \in G
  <1> DEFINE Bad == (0..N) \ G
  <1>1. SUFFICES ASSUME Bad # {} PROVE FALSE
    OBVIOUS
  <1>2. Bad \in SUBSET Nat
    OBVIOUS
  <1>3. PICK k \in Bad : \A m \in Bad : k <= m
    <2> HIDE DEF Bad
    <2> QED BY <1>1, <1>2, Least
  <1>4. k \in 1..N /\ k - 1 \in 0..N /\ k - 1 \notin Bad
    BY <1>3
  <1> QED BY <1>4

\* A loop of N turns, the nth of which turns v into step[n][v].
LEMMA LoopExists ==
    ASSUME NEW V, NEW base \in V, NEW N \in Nat, NEW step \in [1..N -> [V -> V]]
    PROVE  \E f \in [0..N -> V] : f[0] = base /\ \A n \in 1..N : f[n] = step[n][f[n - 1]]
  <1> DEFINE Upto(k, f) == f[0] = base /\ \A n \in 1..k : f[n] = step[n][f[n - 1]]
             Good(k) == \E f \in [0..k -> V] : Upto(k, f)
             G == {k \in 0..N : Good(k)}
  <1>1. Good(0)
    <2>1. [n \in 0..0 |-> base] \in [0..0 -> V]
      OBVIOUS
    <2>2. Upto(0, [n \in 0..0 |-> base])
      OBVIOUS
    <2> QED BY <2>1, <2>2
  <1>2. ASSUME NEW k \in 1..N, Good(k - 1) PROVE Good(k)
    <2>1. PICK f \in [0..(k - 1) -> V] : Upto(k - 1, f)
      BY <1>2
    <2> DEFINE g == [n \in 0..k |-> IF n < k THEN f[n] ELSE step[k][f[k - 1]]]
    <2>2. step[k][f[k - 1]] \in V
      OBVIOUS
    <2>3. g \in [0..k -> V]
      BY <2>2
    <2>4. g[0] = base /\ \A n \in 1..k : g[n] = step[n][g[n - 1]]
      BY <2>1
    <2> QED BY <2>3, <2>4
  <1>3. Good(N)
    <2> HIDE DEF Good
    <2>1. G \in SUBSET (0..N) /\ 0 \in G /\ \A n \in 1..N : n - 1 \in G => n \in G
      BY <1>1, <1>2
    <2> HIDE DEF G
    <2>2. \A n \in 0..N : n \in G
      BY <2>1, Induction
    <2>3. N \in G
      BY <2>2
    <2> QED BY <2>3 DEF G
  <1> QED BY <1>3

-----------------------------------------------------------------------------
\* The clock.

LEMMA Clock ==
    /\ Minute \in Nat /\ Hour \in Nat /\ Day \in Nat /\ DayReach \in Nat
    /\ 0 < Minute /\ Minute < Hour /\ Hour < Day /\ Day - Hour < DayReach /\ DayReach < Day
    /\ DstStart \in Nat /\ DstEnd \in Nat /\ DstStart < DstEnd
    /\ FirstTime \in Nat /\ LastTime \in Nat /\ CheckWindow \in Nat
    /\ MaxDepth \in Nat /\ 12 < MaxDepth
  BY TimePeriodConstants

\* A day has its midnight before it and is Day long, counted in the offset of a
\* time of it.
LEMMA DayOfTime ==
    ASSUME NEW t \in Int
    PROVE  /\ LocalDay(t) \in Int /\ Midnight(t) \in Int
           /\ Offset(t) \in {0, Hour} /\ Offset(t) \in Nat
           /\ Midnight(t) = LocalDay(t) * Day - Offset(t)
           /\ Midnight(t) <= t /\ t < Midnight(t) + Day
  <1>1. Offset(t) \in Nat /\ Offset(t) \in {0, Hour} /\ Day \in Nat /\ 0 < Day
    BY Clock DEF Offset
  <1> DEFINE n == t + Offset(t)
  <1>2. n \in Int
    BY <1>1
  <1>3. PICK q \in Int : q = n \div Day /\ q * Day <= n /\ n < q * Day + Day
    <2> HIDE DEF n
    <2> QED BY <1>1, <1>2
  <1>4. LocalDay(t) = q
    BY <1>3 DEF LocalDay
  <1>5. Midnight(t) = q * Day - Offset(t)
    BY <1>4 DEF Midnight
  <1>6. q * Day \in Int
    BY <1>1
  <1>7. Midnight(t) \in Int /\ Midnight(t) <= t /\ t < Midnight(t) + Day
    BY <1>1, <1>3, <1>5, <1>6
  <1> QED BY <1>1, <1>4, <1>5, <1>7

\* And a time in that span has the same day, if it has the same offset.
LEMMA SameDay ==
    ASSUME NEW t \in Int, NEW u \in Int, Offset(u) = Offset(t),
           Midnight(t) <= u, u < Midnight(t) + Day
    PROVE  LocalDay(u) = LocalDay(t) /\ Midnight(u) = Midnight(t)
  <1> DEFINE D == LocalDay(t)
             n == u + Offset(u)
  <1>1. D \in Int /\ n \in Int /\ D * Day <= n /\ n < D * Day + Day /\ Day \in Nat /\ 0 < Day
    BY DayOfTime, Clock
  <1>2. n \div Day = D
    <2> HIDE DEF n, D
    <2> QED BY <1>1
  <1>3. LocalDay(u) = D
    BY <1>2 DEF LocalDay
  <1> QED BY <1>3 DEF Midnight

\* A later time with no less an offset is not on an earlier day.
LEMMA LaterDay ==
    ASSUME NEW t \in Int, NEW u \in Int, t + Offset(t) <= u + Offset(u)
    PROVE  LocalDay(t) <= LocalDay(u)
  <1> DEFINE C == LocalDay(t)
             D == LocalDay(u)
  <1>1. /\ C \in Int /\ D \in Int /\ Day \in Nat /\ 0 < Day
        /\ C * Day <= t + Offset(t) /\ u + Offset(u) < D * Day + Day
        /\ t + Offset(t) \in Int /\ u + Offset(u) \in Int
    BY DayOfTime, Clock
  <1>2. C * Day < (D + 1) * Day
    <2> HIDE DEF C, D
    <2> QED BY <1>1
  <1>3. C < D + 1
    <2> HIDE DEF C, D
    <2> QED BY <1>1, <1>2
  <1> QED BY <1>1, <1>3

\* Days follow each other, also when the clock is put back.
LEMMA DaysInOrder ==
    ASSUME NEW t \in Int, NEW u \in Int, t <= u
    PROVE  LocalDay(t) <= LocalDay(u)
  <1>1. DstStart \in Int /\ DstEnd \in Int /\ DstStart < DstEnd /\ Hour \in Nat
    BY Clock
  <1>2. CASE Offset(t) <= Offset(u)
    <2>1. t + Offset(t) <= u + Offset(u)
      BY <1>2, DayOfTime, Clock
    <2> QED BY <2>1, LaterDay
  <1>3. CASE ~(Offset(t) <= Offset(u))
    <2>1. is_dst_time(t) /\ ~is_dst_time(u) /\ Offset(t) = Hour /\ Offset(u) = 0
      BY <1>1, <1>3 DEF Offset
    <2>2. t <= DstEnd - 1 /\ DstEnd <= u /\ is_dst_time(DstEnd - 1) /\ ~is_dst_time(DstEnd)
      BY <1>1, <2>1 DEF is_dst_time
    <2>3. Offset(DstEnd - 1) = Hour /\ Offset(DstEnd) = 0
      BY <2>2 DEF Offset
    <2>4. LocalDay(t) <= LocalDay(DstEnd - 1)
      BY <1>1, <2>1, <2>2, <2>3, LaterDay
    <2>5. LocalDay(DstEnd) <= LocalDay(u)
      BY <1>1, <2>1, <2>2, <2>3, LaterDay
    <2>6. LocalDay(DstEnd) = LocalDay(DstEnd - 1)
      BY ClockChanges
    <2> QED BY <1>1, <2>4, <2>5, <2>6, DayOfTime
  <1> QED BY <1>2, <1>3

\* On a day when the clock is not changed all times have the same offset.
LEMMA OrdinaryDay ==
    ASSUME NEW t \in Int, NEW u \in Int, Ordinary(t), Midnight(t) <= u, u < Midnight(t) + Day
    PROVE  Offset(u) = Offset(t) /\ LocalDay(u) = LocalDay(t) /\ Midnight(u) = Midnight(t)
  <1>1. /\ DstStart \in Int /\ DstEnd \in Int /\ DstStart < DstEnd /\ DstStart - 1 \in Int
        /\ DstEnd - 1 \in Int /\ Hour \in Nat /\ 0 < Hour
        /\ Midnight(t) \in Int /\ Midnight(t) <= t /\ t < Midnight(t) + Day /\ Day \in Nat
    BY Clock, DayOfTime
  <1>2. /\ LocalDay(DstStart - 1) = LocalDay(DstStart)
        /\ LocalDay(DstEnd - 1) = LocalDay(DstEnd)
    BY ClockChanges
  <1>3. LocalDay(t) # LocalDay(DstStart) /\ LocalDay(t) # LocalDay(DstEnd)
    BY DEF Ordinary
  <1>4. ASSUME NEW v \in Int, v \in {DstStart - 1, DstStart, DstEnd - 1, DstEnd},
               Midnight(t) <= v, v < Midnight(t) + Day
        PROVE  Offset(v) # Offset(t)
    <2>1. LocalDay(v) # LocalDay(t)
      BY <1>2, <1>3, <1>4
    <2> QED BY <1>4, <2>1, SameDay
  <1>5. /\ Offset(DstStart - 1) = 0 /\ Offset(DstStart) = Hour
        /\ Offset(DstEnd - 1) = Hour /\ Offset(DstEnd) = 0
    BY <1>1 DEF Offset, is_dst_time
  <1>6. ASSUME Offset(u) # Offset(t) PROVE FALSE
    <2>1. CASE is_dst_time(t) /\ ~is_dst_time(u)
      <3>1. Offset(t) = Hour
        BY <2>1 DEF Offset
      <3>2. CASE u < DstStart
        <4>1. Midnight(t) <= DstStart /\ DstStart < Midnight(t) + Day
          BY <1>1, <2>1, <3>2 DEF is_dst_time
        <4> QED BY <1>1, <1>4, <1>5, <3>1, <4>1
      <3>3. CASE DstEnd <= u
        <4>1. Midnight(t) <= DstEnd - 1 /\ DstEnd - 1 < Midnight(t) + Day
          BY <1>1, <2>1, <3>3 DEF is_dst_time
        <4> QED BY <1>1, <1>4, <1>5, <3>1, <4>1
      <3> QED BY <1>1, <2>1, <3>2, <3>3 DEF is_dst_time
    <2>2. CASE ~is_dst_time(t) /\ is_dst_time(u)
      <3>1. Offset(t) = 0
        BY <2>2 DEF Offset
      <3>2. CASE t < DstStart
        <4>1. Midnight(t) <= DstStart - 1 /\ DstStart - 1 < Midnight(t) + Day
          BY <1>1, <2>2, <3>2 DEF is_dst_time
        <4> QED BY <1>1, <1>4, <1>5, <3>1, <4>1
      <3>3. CASE DstEnd <= t
        <4>1. Midnight(t) <= DstEnd /\ DstEnd < Midnight(t) + Day
          BY <1>1, <2>2, <3>3 DEF is_dst_time
        <4> QED BY <1>1, <1>4, <1>5, <3>1, <4>1
      <3> QED BY <1>1, <2>2, <3>2, <3>3 DEF is_dst_time
    <2>3. is_dst_time(t) # is_dst_time(u)
      BY <1>6 DEF Offset
    <2> QED BY <2>1, <2>2, <2>3 DEF is_dst_time
  <1>7. Offset(u) = Offset(t)
    BY <1>6
  <1> QED BY <1>7, SameDay

\* A midnight is before both of two times of the same day and offset or before
\* neither, unless the clock was put forward on that day.
LEMMA StartOfDay ==
    ASSUME NEW d \in Int
    PROVE  /\ StartOf(d) \in Int /\ StartOf(d) \in {d * Day, d * Day - Hour}
           /\ StartOf(d) = d * Day - Hour <=> is_dst_time(d * Day - Hour)
  <1>1. d * Day \in Int /\ Hour \in Nat /\ 0 < Hour
    BY Clock
  <1> QED BY <1>1 DEF StartOf

LEMMA DaysApart ==
    ASSUME NEW c \in Int, NEW d \in Int, c < d
    PROVE  c * Day + Day <= d * Day
  <1>1. Day \in Nat
    BY Clock
  <1> QED BY <1>1

LEMMA StartsBeforeBoth ==
    ASSUME NEW t \in Int, NEW u \in Int, NEW d \in Int, t <= u,
           LocalDay(u) = LocalDay(t), Offset(u) = Offset(t), LocalDay(t) # LocalDay(DstStart),
           StartOf(d) <= u
    PROVE  StartOf(d) <= t
  <1> DEFINE D == LocalDay(t)
             s == d * Day
             m == D * Day
  <1>1. /\ D \in Int /\ s \in Int /\ m \in Int /\ Hour \in Nat /\ 0 < Hour /\ Hour < Day /\ Day \in Nat
        /\ Offset(t) \in {0, Hour} /\ m - Offset(t) <= t /\ u < m + Day - Offset(t)
        /\ DstStart \in Int /\ DstEnd \in Int /\ DstStart < DstEnd
    <2>1. Midnight(t) = m - Offset(t) /\ Midnight(t) <= t
      BY DayOfTime
    <2>2. Midnight(u) = m - Offset(t) /\ u < Midnight(u) + Day
      BY DayOfTime
    <2>3. m \in Int /\ s \in Int
      BY Clock, DayOfTime
    <2> QED BY <2>1, <2>2, <2>3, Clock, DayOfTime
  <1>2. /\ d < D => s + Day <= m
        /\ D < d => m + Day <= s
        /\ d = D => s = m
        /\ d = D + 1 => s = m + Day
        /\ D + 1 < d => m + Day + Day <= s
    <2>1. D + 1 \in Int /\ (D + 1) * Day = m + Day
      BY Clock, DayOfTime
    <2>2. D + 1 < d => (D + 1) * Day + Day <= s
      BY <2>1, DaysApart
    <2> QED BY <1>1, <2>1, <2>2, DaysApart
  <1>3. StartOf(d) \in {s, s - Hour} /\ (StartOf(d) = s - Hour <=> is_dst_time(s - Hour))
    BY StartOfDay
  <1>4. SUFFICES ASSUME t < StartOf(d) PROVE FALSE
    BY <1>1, <1>3
  <1>5. is_dst_time(t) <=> is_dst_time(u)
    BY <1>1 DEF Offset
  <1>6. CASE is_dst_time(t)
    <2>1. Offset(t) = Hour
      BY <1>6 DEF Offset
    <2>2. StartOf(d) = s /\ d = D
      <3> HIDE DEF s, m, D
      <3> QED BY <1>1, <1>2, <1>3, <1>4, <2>1
    <2>3. ~is_dst_time(m - Hour) /\ m - Hour <= t
      BY <1>1, <1>3, <2>1, <2>2
    <2>4. m - Hour < DstStart /\ DstStart <= t
      BY <1>1, <1>6, <2>3 DEF is_dst_time
    <2>5. Offset(DstStart) = Hour /\ Midnight(t) <= DstStart /\ DstStart < Midnight(t) + Day
      <3>1. Midnight(t) = m - Hour /\ Midnight(t) \in Int /\ t < Midnight(t) + Day
        BY <2>1, DayOfTime
      <3>2. Offset(DstStart) = Hour
        BY <1>1 DEF Offset, is_dst_time
      <3> HIDE DEF m
      <3> QED BY <1>1, <2>4, <3>1, <3>2
    <2>6. LocalDay(DstStart) = LocalDay(t)
      BY <1>1, <2>1, <2>5, SameDay
    <2> QED BY <2>6
  <1>7. CASE ~is_dst_time(t)
    <2>1. Offset(t) = 0
      BY <1>7 DEF Offset
    <2>2. StartOf(d) = s - Hour /\ s = m + Day
      <3> HIDE DEF s, m, D
      <3> QED BY <1>1, <1>2, <1>3, <1>4, <2>1
    <2>3. is_dst_time(s - Hour) /\ t < s - Hour /\ s - Hour <= u
      BY <1>3, <1>4, <2>2
    <2>4. t < DstStart /\ DstEnd <= u
      BY <1>1, <1>5, <1>7, <2>3 DEF is_dst_time
    <2>5. Offset(DstStart - 1) = 0 /\ t <= DstStart - 1 /\ DstStart - 1 < u
      BY <1>1, <2>4 DEF Offset, is_dst_time
    <2>6. Midnight(t) <= DstStart - 1 /\ DstStart - 1 < Midnight(t) + Day
      <3>1. Midnight(t) = m /\ Midnight(t) <= t
        BY <1>1, <2>1, DayOfTime
      <3> QED BY <1>1, <2>1, <2>5, <3>1
    <2>7. LocalDay(DstStart - 1) = LocalDay(t)
      BY <1>1, <2>1, <2>5, <2>6, SameDay
    <2>8. LocalDay(DstStart) = LocalDay(DstStart - 1)
      BY ClockChanges
    <2> QED BY <2>7, <2>8
  <1> QED BY <1>6, <1>7

-----------------------------------------------------------------------------
\* The calendar.

LEMMA MonthTable ==
    /\ Len(MonthStarts) \in Nat /\ Len(MonthStarts) > 2 /\ Months = 0..(Len(MonthStarts) - 2)
    /\ \A i \in 1..Len(MonthStarts) : MonthStarts[i] \in Nat
    /\ \A i \in 2..Len(MonthStarts) :
          MonthStarts[i - 1] + 7 <= MonthStarts[i] /\ MonthStarts[i] <= MonthStarts[i - 1] + 31
    /\ MonthStarts[1] = 0 /\ YearDays = MonthStarts[Len(MonthStarts)]
  <1>1. MonthStarts \in Seq(Nat) /\ Len(MonthStarts) > 2 /\ MonthStarts[1] = 0
    BY TimePeriodConstants
  <1>2. Len(MonthStarts) \in Nat /\ \A i \in 1..Len(MonthStarts) : MonthStarts[i] \in Nat
    BY <1>1, ElementOfSeq, LenProperties
  <1>3. \A i \in 2..Len(MonthStarts) : MonthStarts[i] - MonthStarts[i - 1] \in 7..31
    BY TimePeriodConstants
  <1>4. ASSUME NEW i \in 2..Len(MonthStarts)
        PROVE  MonthStarts[i - 1] + 7 <= MonthStarts[i] /\ MonthStarts[i] <= MonthStarts[i - 1] + 31
    <2>1. i \in 1..Len(MonthStarts) /\ i - 1 \in 1..Len(MonthStarts)
      BY <1>2
    <2>2. MonthStarts[i] - MonthStarts[i - 1] \in 7..31
      BY <1>3
    <2> DEFINE a == MonthStarts[i - 1]
               b == MonthStarts[i]
    <2>3. a \in Nat /\ b \in Nat /\ b - a \in 7..31
      BY <1>2, <2>1, <2>2
    <2> HIDE DEF a, b
    <2>4. a + 7 <= b /\ b <= a + 31
      BY <2>3
    <2> QED BY <2>4 DEF a, b
  <1> QED BY <1>1, <1>2, <1>4 DEF Months, YearDays

LEMMA MonthsInOrder ==
    ASSUME NEW i \in 1..Len(MonthStarts), NEW j \in 1..Len(MonthStarts), i < j
    PROVE  MonthStarts[i] + 7 <= MonthStarts[j]
  <1> DEFINE N == Len(MonthStarts) - i - 1
             G == {n \in 0..N : MonthStarts[i] + 7 <= MonthStarts[i + 1 + n]}
  <1>1. Len(MonthStarts) \in Nat /\ N \in Nat /\ i + 1 \in 2..Len(MonthStarts) /\ i \in Nat
    BY MonthTable
  <1>2. 0 \in G
    <2> DEFINE k == i + 1
    <2>1. k \in 2..Len(MonthStarts) /\ k - 1 = i /\ i + 1 + 0 = k /\ 0 \in 0..N
      BY <1>1
    <2>2. MonthStarts[k - 1] + 7 <= MonthStarts[k]
      BY <2>1, MonthTable
    <2> HIDE DEF k, N
    <2> QED BY <2>1, <2>2
  <1>3. ASSUME NEW n \in 1..N, n - 1 \in G PROVE n \in G
    <2> DEFINE k == i + 1 + n
    <2>1. k \in 2..Len(MonthStarts) /\ k - 1 = i + 1 + (n - 1) /\ k - 1 \in 1..Len(MonthStarts)
      BY <1>1
    <2>2. MonthStarts[i] + 7 <= MonthStarts[k - 1]
      BY <1>3, <2>1
    <2>3. MonthStarts[k - 1] + 7 <= MonthStarts[k] /\ MonthStarts[k - 1] \in Nat /\ MonthStarts[k] \in Nat
      BY <2>1, MonthTable
    <2>4. MonthStarts[i] \in Nat
      BY MonthTable
    <2>5. MonthStarts[i] + 7 <= MonthStarts[k]
      <3> HIDE DEF k
      <3> QED BY <2>2, <2>3, <2>4
    <2> QED BY <2>5
  <1>4. \A n \in 0..N : n \in G
    <2>1. G \in SUBSET (0..N)
      OBVIOUS
    <2> HIDE DEF G, N
    <2> QED BY <1>1, <1>2, <1>3, <2>1, Induction
  <1>5. j - i - 1 \in 0..N /\ i + 1 + (j - i - 1) = j
    BY <1>1
  <1>6. j - i - 1 \in G
    <2> HIDE DEF G, N
    <2> QED BY <1>4, <1>5
  <1> QED BY <1>5, <1>6

LEMMA YearIsLong ==
    /\ YearDays \in Nat /\ 35 < YearDays
    /\ \A i \in 1..Len(MonthStarts) : MonthStarts[i] <= YearDays
  <1>1. Len(MonthStarts) \in Nat /\ Len(MonthStarts) > 2 /\ YearDays = MonthStarts[Len(MonthStarts)]
    BY MonthTable
  <1>2. Len(MonthStarts) \in 1..Len(MonthStarts)
    BY <1>1
  <1>3. YearDays \in Nat
    BY <1>1, <1>2, MonthTable
  <1>4. 35 < YearDays
    BY <1>1, TimePeriodConstants
  <1>5. ASSUME NEW i \in 1..Len(MonthStarts) PROVE MonthStarts[i] <= YearDays
    <2>1. CASE i = Len(MonthStarts)
      BY <1>1, <1>3, <2>1
    <2>2. CASE i # Len(MonthStarts)
      <3>1. i < Len(MonthStarts) /\ MonthStarts[i] \in Nat
        BY <1>1, <2>2, MonthTable
      <3>2. MonthStarts[i] + 7 <= YearDays
        BY <1>1, <1>2, <3>1, MonthsInOrder
      <3> QED BY <1>3, <3>1, <3>2
    <2> QED BY <2>1, <2>2
  <1> QED BY <1>3, <1>4, <1>5

\* The days of a month of a year.
MonthHas(year, month, day) ==
    /\ year * YearDays + MonthStarts[month + 1] <= day
    /\ day < year * YearDays + MonthStarts[month + 2]

\* A day is in one month of one year only.
LEMMA InOneMonth ==
    ASSUME NEW year \in Int, NEW month \in Months, NEW day \in Int, MonthHas(year, month, day)
    PROVE  YearOf(day) = year /\ MonthOf(day) = month
  <1> DEFINE r == day % YearDays
             P(m) == r \in MonthStarts[m + 1]..MonthStarts[m + 2] - 1
             L == Len(MonthStarts)
  <1>1. YearDays \in Nat /\ 0 < YearDays /\ month \in Nat /\ L \in Nat
    BY YearIsLong, MonthTable
  <1>2. month + 1 \in 1..L /\ month + 2 \in 1..L
    BY <1>1, MonthTable
  <1>3. /\ MonthStarts[month + 1] \in Nat /\ MonthStarts[month + 2] \in Nat
        /\ MonthStarts[month + 2] <= YearDays
    BY <1>2, MonthTable, YearIsLong
  <1> DEFINE a == MonthStarts[month + 1]
             b == MonthStarts[month + 2]
  <1>4. /\ day \div YearDays = year
        /\ r = day - year * YearDays
    <2>1. year * YearDays + a <= day /\ day < year * YearDays + b /\ a \in Nat /\ b \in Nat /\ b <= YearDays
      BY <1>3 DEF MonthHas
    <2> HIDE DEF a, b
    <2>2. year * YearDays <= day /\ day < year * YearDays + YearDays
      BY <1>1, <2>1
    <2>3. day \div YearDays = year
      BY <1>1, <2>2
    <2>4. day % YearDays = day - year * YearDays
      BY <1>1, <2>2, <2>3
    <2> QED BY <2>3, <2>4
  <1>5. P(month) /\ r \in Int
    <2>1. a <= r /\ r < b /\ r \in Int /\ a \in Nat /\ b \in Nat
      <3> HIDE DEF r
      <3> QED BY <1>1, <1>3, <1>4 DEF MonthHas
    <2> HIDE DEF r
    <2> QED BY <2>1
  <1>6. ASSUME NEW m \in Months, P(m) PROVE m = month
    <2>1. m \in Nat /\ m + 1 \in 1..L /\ m + 2 \in 1..L
      BY <1>1, MonthTable
    <2>2. \A i \in {m + 1, m + 2, month + 1, month + 2} : MonthStarts[i] \in Nat
      BY <1>2, <2>1, MonthTable
    <2>3. /\ r < MonthStarts[m + 2] /\ MonthStarts[m + 1] <= r
          /\ r < MonthStarts[month + 2] /\ MonthStarts[month + 1] <= r
      <3> HIDE DEF r
      <3> QED BY <1>5, <1>6, <2>2
    <2>4. CASE m < month
      <3>1. MonthStarts[m + 2] <= MonthStarts[month + 1]
        <4>1. CASE m + 2 = month + 1
          BY <2>2, <4>1
        <4>2. CASE m + 2 # month + 1
          <5>1. m + 2 < month + 1
            BY <1>1, <2>1, <2>4, <4>2
          <5>2. MonthStarts[m + 2] + 7 <= MonthStarts[month + 1]
            BY <1>2, <2>1, <5>1, MonthsInOrder
          <5> QED BY <2>2, <5>2
        <4> QED BY <4>1, <4>2
      <3> HIDE DEF r
      <3> QED BY <1>5, <2>2, <2>3, <3>1
    <2>5. CASE month < m
      <3>1. MonthStarts[month + 2] <= MonthStarts[m + 1]
        <4>1. CASE month + 2 = m + 1
          BY <2>2, <4>1
        <4>2. CASE month + 2 # m + 1
          <5>1. month + 2 < m + 1
            BY <1>1, <2>1, <2>5, <4>2
          <5>2. MonthStarts[month + 2] + 7 <= MonthStarts[m + 1]
            BY <1>2, <2>1, <5>1, MonthsInOrder
          <5> QED BY <2>2, <5>2
        <4> QED BY <4>1, <4>2
      <3> HIDE DEF r
      <3> QED BY <1>5, <2>2, <2>3, <3>1
    <2> QED BY <1>1, <2>1, <2>4, <2>5
  <1>7. MonthOf(day) = month
    <2>1. MonthOf(day) = CHOOSE m \in Months : P(m)
      BY DEF MonthOf
    <2> HIDE DEF P
    <2> QED BY <1>5, <1>6, <2>1
  <1> QED BY <1>4, <1>7 DEF YearOf

\* And each is in one.
LEMMA InSomeMonth ==
    ASSUME NEW day \in Int
    PROVE  /\ YearOf(day) \in Int /\ MonthOf(day) \in Months
           /\ MonthHas(YearOf(day), MonthOf(day), day)
  <1> DEFINE y == day \div YearDays
             r == day - y * YearDays
             L == Len(MonthStarts)
             T == {i \in 2..L : r < MonthStarts[i]}
  <1>1. /\ y \in Int /\ r \in Int /\ 0 <= r /\ r < YearDays
    <2>1. YearDays \in Nat /\ 0 < YearDays
      BY YearIsLong
    <2>2. y \in Int /\ y * YearDays <= day /\ day < y * YearDays + YearDays
      BY <2>1
    <2> HIDE DEF y
    <2> QED BY <2>1, <2>2
  <1>2. L \in Nat /\ 2 < L /\ MonthStarts[L] = YearDays /\ L \in 2..L
    BY MonthTable
  <1> HIDE DEF r
  <1>3. L \in T /\ T \in SUBSET Nat
    BY <1>1, <1>2
  <1>4. PICK i \in T : \A k \in T : i <= k
    <2> HIDE DEF T
    <2> QED BY <1>3, Least
  <1>5. i \in 2..L /\ r < MonthStarts[i] /\ i - 1 \in 1..L
    BY <1>2, <1>4
  <1>6. MonthStarts[i - 1] <= r
    <2>1. CASE i = 2
      <3>1. MonthStarts[i - 1] = 0
        BY <2>1, MonthTable
      <3> QED BY <1>1, <3>1
    <2>2. CASE i # 2
      <3>1. i - 1 \in 2..L /\ ~(i <= i - 1)
        BY <1>2, <1>5, <2>2
      <3>2. i - 1 \notin T
        BY <1>4, <3>1
      <3>3. MonthStarts[i - 1] \in Nat
        BY <1>5, MonthTable
      <3> QED BY <1>1, <3>1, <3>2, <3>3
    <2> QED BY <2>1, <2>2
  <1> DEFINE m == i - 2
  <1>7. m \in Months /\ m + 1 = i - 1 /\ m + 2 = i
    BY <1>2, <1>5, MonthTable
  <1>8. /\ MonthStarts[m + 1] \in Nat /\ MonthStarts[m + 2] \in Nat
        /\ MonthStarts[m + 1] <= r /\ r < MonthStarts[m + 2]
    <2>1. MonthStarts[i - 1] \in Nat /\ MonthStarts[i] \in Nat
      BY <1>5, MonthTable
    <2> HIDE DEF m
    <2> QED BY <1>5, <1>6, <1>7, <2>1
  <1>9. MonthHas(y, m, day)
    <2>1. r = day - y * YearDays /\ y * YearDays \in Int
      BY <1>1, YearIsLong DEF r
    <2> HIDE DEF y, m
    <2> QED BY <1>1, <1>8, <2>1 DEF MonthHas
  <1>10. YearOf(day) = y /\ MonthOf(day) = m
    <2> HIDE DEF y, m
    <2> QED BY <1>1, <1>7, <1>9, InOneMonth
  <1> QED BY <1>1, <1>7, <1>9, <1>10

\* The nth day of a month is in it.
LEMMA DaysOfMonth ==
    ASSUME NEW year \in Int, NEW month \in Months
    PROVE  /\ MonthLength(month) \in 7..31
           /\ \A d \in Int : DayOf(year, month, d) \in Int
           /\ \A d \in Int : DayOf(year, month, d) = DayOf(year, month, 1) + d - 1
           /\ \A d \in 1..MonthLength(month) : MonthHas(year, month, DayOf(year, month, d))
           /\ \A day \in Int : MonthHas(year, month, day)
                 => \E d \in 1..MonthLength(month) : day = DayOf(year, month, d)
  <1> DEFINE b == year * YearDays
             s == MonthStarts[month + 1]
             e == MonthStarts[month + 2]
  <1>1. b \in Int /\ s \in Nat /\ e \in Nat /\ s + 7 <= e /\ e <= s + 31
    <2>1. month \in Nat /\ month + 1 \in 1..Len(MonthStarts) /\ month + 2 \in 2..Len(MonthStarts)
          /\ month + 2 \in 1..Len(MonthStarts)
      BY MonthTable
    <2>2. (month + 2) - 1 = month + 1
      BY <2>1
    <2> DEFINE k == month + 2
    <2>3. MonthStarts[k - 1] + 7 <= MonthStarts[k] /\ MonthStarts[k] <= MonthStarts[k - 1] + 31
      <3>1. k \in 2..Len(MonthStarts)
        BY <2>1
      <3> HIDE DEF k
      <3> QED BY <3>1, MonthTable
    <2>4. MonthStarts[k - 1] = s /\ MonthStarts[k] = e
      BY <2>2
    <2>5. s \in Nat /\ e \in Nat
      BY <2>1, MonthTable
    <2> HIDE DEF k, s, e
    <2> QED BY <2>3, <2>4, <2>5, YearIsLong
  <1>2. MonthLength(month) = e - s
    BY DEF MonthLength
  <1>3. \A d \in Int : DayOf(year, month, d) = b + s + d - 1
    BY DEF DayOf
  <1>4. \A day \in Int : MonthHas(year, month, day) <=> b + s <= day /\ day < b + e
    BY DEF MonthHas
  <1> HIDE DEF b, s, e
  <1>5. MonthLength(month) \in 7..31
    BY <1>1, <1>2
  <1>6. \A d \in Int : DayOf(year, month, d) \in Int
    BY <1>1, <1>3
  <1>7. \A d \in 1..MonthLength(month) : MonthHas(year, month, DayOf(year, month, d))
    BY <1>1, <1>2, <1>3, <1>4
  <1>8. ASSUME NEW day \in Int, MonthHas(year, month, day)
        PROVE  \E d \in 1..MonthLength(month) : day = DayOf(year, month, d)
    <2>1. day - b - s + 1 \in 1..MonthLength(month)
      BY <1>1, <1>2, <1>4, <1>8
    <2> QED BY <1>1, <1>3, <2>1
  <1>9. \A d \in Int : DayOf(year, month, d) = DayOf(year, month, 1) + d - 1
    BY <1>1, <1>3
  <1> QED BY <1>5, <1>6, <1>7, <1>8, <1>9

\* The first instance of a weekday is among the first seven days, and the last
\* among the last seven.
LEMMA WeekDays ==
    ASSUME NEW year \in Int, NEW month \in Months, NEW weekday \in 0..6
    PROVE  /\ FirstInstance(year, month, weekday) \in Int
           /\ LastInstance(year, month, weekday) \in Int
           /\ \E i \in 1..7 : FirstInstance(year, month, weekday) = DayOf(year, month, i)
           /\ \E k \in 0..4 :
                 /\ LastInstance(year, month, weekday) = FirstInstance(year, month, weekday) + 7 * k
                 /\ MonthHas(year, month, LastInstance(year, month, weekday))
                 /\ ~MonthHas(year, month, LastInstance(year, month, weekday) + 7)
  <1> DEFINE f == FirstInstance(year, month, weekday)
             one == DayOf(year, month, 1)
             W == {k \in 0..4 : MonthOf(f + 7 * k) = month}
  <1>1. one \in Int
    BY DaysOfMonth
  <1>2. PICK w \in 0..6 : f = one + w
    <2>1. (weekday - WeekDayOf(one)) % 7 \in 0..6
      <3> HIDE DEF one
      <3>1. WeekDayOf(one) \in Int
        BY <1>1 DEF WeekDayOf
      <3> QED BY <3>1
    <2> QED BY <2>1 DEF FirstInstance
  <1>3. f \in Int /\ f = DayOf(year, month, w + 1) /\ w + 1 \in 1..7
    <2> HIDE DEF f
    <2> QED BY <1>1, <1>2, DaysOfMonth
  <1>4. w + 1 \in 1..MonthLength(month) /\ MonthHas(year, month, f)
    <2>1. MonthLength(month) \in 7..31
      BY DaysOfMonth
    <2>2. w + 1 \in 1..MonthLength(month)
      BY <2>1
    <2> HIDE DEF f
    <2> QED BY <1>3, <2>2, DaysOfMonth
  <1> HIDE DEF f
  <1>5. 0 \in W /\ W \subseteq 0..4
    <2>1. MonthOf(f) = month
      BY <1>3, <1>4, InOneMonth
    <2>2. f + 7 * 0 = f
      BY <1>3
    <2> QED BY <2>1, <2>2
  <1>6. PICK k \in W : \A j \in W : k >= j
    <2> DEFINE T == {n \in 0..4 : 4 - n \in W}
    <2>1. T \in SUBSET Nat /\ 4 \in T
      <3> HIDE DEF W
      <3>1. 4 - 4 \in W
        BY <1>5
      <3> QED BY <3>1
    <2>2. PICK m \in T : \A n \in T : m <= n
      <3> HIDE DEF T
      <3> QED BY <2>1, Least
    <2> HIDE DEF W
    <2>3. 4 - m \in W /\ m \in 0..4
      BY <2>2
    <2>4. ASSUME NEW j \in W PROVE 4 - m >= j
      <3>1. j \in 0..4 /\ 4 - j \in 0..4 /\ 4 - (4 - j) = j
        BY <1>5
      <3>2. 4 - j \in T
        BY <3>1
      <3> QED BY <2>2, <2>3, <3>1, <3>2
    <2> QED BY <2>3, <2>4
  <1>7. Max(W) \in W /\ \A j \in W : Max(W) >= j
    <2> HIDE DEF W
    <2> QED BY <1>6 DEF Max
  <1>8. LastInstance(year, month, weekday) = f + 7 * Max(W)
    BY DEF LastInstance, f
  <1> DEFINE K == Max(W)
             l == f + 7 * K
  <1>9. K \in 0..4 /\ MonthOf(l) = month /\ l \in Int
    <2>1. K \in 0..4 /\ MonthOf(l) = month
      BY <1>7
    <2>2. K \in Int
      BY <2>1
    <2> HIDE DEF K
    <2> QED BY <1>3, <2>1, <2>2
  <1>10. \A j \in 0..4 : j > K => MonthOf(f + 7 * j) # month
    <2>1. \A j \in W : K >= j
      BY <1>7
    <2> HIDE DEF K
    <2> QED BY <1>9, <2>1
  <1>11. LastInstance(year, month, weekday) = l
    BY <1>8
  <1> HIDE DEF K, W
  <1>12. one <= l /\ l < one + 35
    BY <1>1, <1>2, <1>9
  <1>13. MonthHas(year, month, l)
    <2> DEFINE y == YearOf(l)
               b == year * YearDays
               c == y * YearDays
               s == MonthStarts[month + 1]
               e == MonthStarts[month + 2]
    <2>1. MonthHas(y, month, l) /\ y \in Int
      BY <1>9, InSomeMonth
    <2>2. one = b + s /\ s \in Nat /\ e \in Nat /\ s <= YearDays /\ e <= YearDays
      <3>1. month + 1 \in 1..Len(MonthStarts) /\ month + 2 \in 1..Len(MonthStarts)
        BY MonthTable
      <3>2. s \in Nat /\ e \in Nat /\ s <= YearDays /\ e <= YearDays
        BY <3>1, MonthTable, YearIsLong
      <3>3. b \in Int
        BY YearIsLong
      <3>4. one = b + s + 1 - 1
        BY DEF DayOf
      <3> HIDE DEF b, s, e
      <3> QED BY <3>2, <3>3, <3>4
    <2>3. c + s <= l /\ l < c + e
      BY <2>1 DEF MonthHas
    <2>4. /\ b \in Int /\ c \in Int /\ YearDays \in Nat /\ 35 < YearDays
          /\ year < y => b + YearDays <= c
          /\ y < year => c + YearDays <= b
      <3> HIDE DEF y
      <3> QED BY <2>1, YearIsLong
    <2>5. ~(year < y) /\ ~(y < year)
      <3> HIDE DEF b, c, s, e, y, l
      <3> QED BY <1>9, <1>12, <2>2, <2>3, <2>4
    <2>6. y = year
      <3> HIDE DEF y
      <3> QED BY <2>1, <2>5
    <2> QED BY <2>1, <2>6
  <1>14. ~MonthHas(year, month, l + 7)
    <2>1. SUFFICES ASSUME MonthHas(year, month, l + 7) PROVE FALSE
      OBVIOUS
    <2>2. l + 7 \in Int
      BY <1>9
    <2>3. MonthOf(l + 7) = month
      BY <2>1, <2>2, InOneMonth
    <2>4. PICK d \in 1..MonthLength(month) : l + 7 = DayOf(year, month, d)
      BY <2>1, <2>2, DaysOfMonth
    <2>5. l + 7 = one + d - 1 /\ d \in Int /\ d <= 31
      <3>1. MonthLength(month) \in 7..31
        BY DaysOfMonth
      <3>2. d \in Int /\ d <= 31
        BY <3>1
      <3>3. DayOf(year, month, d) = one + d - 1
        BY <3>2, DaysOfMonth
      <3> QED BY <2>4, <3>2, <3>3
    <2>6. K + 1 \in 0..4 /\ K + 1 > K /\ f + 7 * (K + 1) = l + 7
      BY <1>1, <1>2, <1>3, <1>9, <2>5
    <2> QED BY <1>10, <2>3, <2>6
  <1> HIDE DEF l
  <1>15. \E i \in 1..7 : FirstInstance(year, month, weekday) = DayOf(year, month, i)
    BY <1>3 DEF f
  <1>16. LastInstance(year, month, weekday) = FirstInstance(year, month, weekday) + 7 * K
    BY <1>11 DEF f, l
  <1>17. FirstInstance(year, month, weekday) \in Int
    BY <1>3 DEF f
  <1> QED BY <1>9, <1>11, <1>13, <1>14, <1>15, <1>16, <1>17

LEMMA FiveTypes ==
    ToSet(Types) = {"calendar date", "month date", "month day", "month week day", "week day"}
  <1>1. Len(Types) = 5 /\ DOMAIN Types = 1..Len(Types)
    BY DEF Types
  <1>2. DOMAIN Types = {1, 2, 3, 4, 5}
    BY <1>1
  <1>3. ToSet(Types) = {Types[1], Types[2], Types[3], Types[4], Types[5]}
    BY <1>2 DEF ToSet
  <1> QED BY <1>3 DEF Types

\* An exception starts and ends at the midnight of some day.
LEMMA DatesAreStarts ==
    ASSUME NEW type \in ToSet(Types), NEW d \in DateOf(type), NEW year \in Int, NEW mon \in Months,
           NEW s \in TimeOf(type, d, year, mon)
    PROVE  \E day \in Int : s = StartOf(day)
  <1>1. type \in {"calendar date", "month date", "month day", "month week day", "week day"}
    BY FiveTypes
  <1>2. \A m \in Months, n \in Int, y \in Int : DayOf(y, m, n) \in Int
    BY DaysOfMonth
  <1>3. ASSUME NEW y \in Int, NEW m \in Months, NEW n \in Int,
               s \in calculate_time_from_day_of_month(y, m, n)
        PROVE  \E day \in Int : s = StartOf(day)
    <2> DEFINE k == IF n > 0 THEN n ELSE MonthLength(m) + (IF n < -30 THEN -30 ELSE n + 1)
    <2>1. k \in Int
      <3>1. MonthLength(m) \in 7..31
        BY DaysOfMonth
      <3> QED BY <3>1
    <2>2. s = StartOf(DayOf(y, m, k))
      BY <1>3 DEF calculate_time_from_day_of_month, InMonth
    <2> HIDE DEF k
    <2> QED BY <1>2, <2>1, <2>2
  <1>4. ASSUME NEW y \in Int, NEW m \in Months, NEW w \in 0..6, NEW n \in Int,
               s \in calculate_time_from_weekday_of_month(y, m, w, n)
        PROVE  \E day \in Int : s = StartOf(day)
    <2> DEFINE k == IF n > 0 THEN FirstInstance(y, m, w) + 7 * ((IF n > 5 THEN 5 ELSE n) - 1)
                    ELSE LastInstance(y, m, w) + 7 * ((IF n < -5 THEN -5 ELSE n) + 1)
    <2>1. k \in Int
      <3>1. FirstInstance(y, m, w) \in Int /\ LastInstance(y, m, w) \in Int
        BY WeekDays
      <3> QED BY <3>1
    <2>2. s = StartOf(k)
      BY <1>4 DEF calculate_time_from_weekday_of_month, InMonth
    <2> HIDE DEF k
    <2> QED BY <2>1, <2>2
  <1>5. CASE type = "calendar date"
    <2>1. d \in [year : Int, mon : Months, mday : Int]
      BY <1>5 DEF DateOf
    <2>2. s = StartOf(DayOf(d.year, d.mon, d.mday))
      BY <1>5 DEF TimeOf
    <2> QED BY <1>2, <2>1, <2>2
  <1>6. CASE type = "month date"
    <2>1. d \in [mon : Months, mday : Int]
      BY <1>6 DEF DateOf
    <2>2. s \in calculate_time_from_day_of_month(year, d.mon, d.mday)
      BY <1>6 DEF TimeOf
    <2> QED BY <1>3, <2>1, <2>2
  <1>7. CASE type = "month day"
    <2>1. d \in [mon : Months, mday : Int]
      BY <1>7 DEF DateOf
    <2>2. s \in calculate_time_from_day_of_month(year, mon, d.mday)
      BY <1>7 DEF TimeOf
    <2> QED BY <1>3, <2>1, <2>2
  <1>8. CASE type = "month week day"
    <2>1. d \in [mon : Months, wday : 0..6, offset : Int]
      BY <1>8 DEF DateOf
    <2>2. s \in calculate_time_from_weekday_of_month(year, d.mon, d.wday, d.offset)
      BY <1>8 DEF TimeOf
    <2> QED BY <1>4, <2>1, <2>2
  <1>9. CASE type = "week day"
    <2>1. d \in [mon : Months, wday : 0..6, offset : Int]
      BY <1>9 DEF DateOf
    <2>2. s \in calculate_time_from_weekday_of_month(year, mon, d.wday, d.offset)
      BY <1>9 DEF TimeOf
    <2> QED BY <1>4, <2>1, <2>2
  <1> QED BY <1>1, <1>5, <1>6, <1>7, <1>8, <1>9

LEMMA Daterange ==
    ASSUME NEW x \in Dateranges
    PROVE  /\ x.type \in ToSet(Types) /\ x.skip \in Int /\ x.times \in Seq(Timeranges)
           /\ x.start \in DateOf(x.type) /\ x.end \in DateOf(x.type)
  <1>1. PICK type \in {"calendar date", "month date", "month day", "month week day", "week day"} :
            x \in DaterangesOf(type)
    BY DEF Dateranges
  <1>2. type \in ToSet(Types)
    BY FiveTypes
  <1> QED BY <1>1, <1>2 DEF DaterangesOf

\* Two times of a day that have the same offset.
SameSpan(t, u) == LocalDay(u) = LocalDay(t) /\ Offset(u) = Offset(t)

\* An exception matches both or neither.
LEMMA SameMatch ==
    ASSUME NEW t \in Int, NEW u \in Int, t <= u, SameSpan(t, u), LocalDay(t) # LocalDay(DstStart),
           NEW x \in Dateranges
    PROVE  Matches(x, t) <=> Matches(x, u)
  <1> DEFINE year == YearOf(LocalDay(t))
             mon == MonthOf(LocalDay(t))
  <1>1. LocalDay(u) = LocalDay(t) /\ Midnight(u) = Midnight(t) /\ LocalDay(t) \in Int
    BY DayOfTime DEF SameSpan, Midnight
  <1>2. year \in Int /\ mon \in Months
    BY <1>1, InSomeMonth
  <1>3. ASSUME NEW start \in TimeOf(x.type, x.start, year, mon)
        PROVE  start <= t <=> start <= u
    <2>1. PICK day \in Int : start = StartOf(day)
      <3> HIDE DEF year, mon
      <3>1. x.type \in ToSet(Types) /\ x.start \in DateOf(x.type)
        BY Daterange
      <3> QED BY <1>2, <1>3, <3>1, DatesAreStarts
    <2>2. StartOf(day) \in Int
      BY StartOfDay
    <2>3. StartOf(day) <= u => StartOf(day) <= t
      BY StartsBeforeBoth DEF SameSpan
    <2> QED BY <2>1, <2>2, <2>3
  <1>4. /\ YearOf(LocalDay(u)) = year /\ MonthOf(LocalDay(u)) = mon
    BY <1>1
  <1> DEFINE Match(v, midnight) ==
                 \E start \in TimeOf(x.type, x.start, year, mon) :
                 \E end \in EndTimes(x, start, year, mon) :
                     \/ x.skip <= 1 /\ InRange(midnight, start, end)
                     \/ /\ x.skip > 1 /\ start <= v
                        /\ (get_dst_shift(start, midnight) + midnight - start) \div Day % x.skip = 0
                        /\ InRange(midnight, midnight, SkipEnd(x, end, midnight))
  <1>5. Matches(x, t) <=> Match(t, Midnight(t))
    BY Zenon DEF Matches
  <1>6. Matches(x, u) <=> Match(u, Midnight(t))
    <2>1. Matches(x, u) <=> Match(u, Midnight(u))
      BY <1>4, Zenon DEF Matches
    <2> QED BY <1>1, <2>1, Zenon
  <1>7. Match(t, Midnight(t)) <=> Match(u, Midnight(t))
    <2> HIDE DEF year, mon
    <2> QED BY <1>3, Zenon
  <1> QED BY <1>5, <1>6, <1>7

-----------------------------------------------------------------------------
\* What days an exception is for.

\* The clock is not changed about a midnight.
LEMMA NoChangeAtMidnight ==
    ASSUME NEW s \in Int
    PROVE  /\ ~(s * Day - Hour < DstStart /\ DstStart <= s * Day)
           /\ ~(s * Day - Hour < DstEnd /\ DstEnd < s * Day)
  <1>1. /\ DstStart \in Int /\ DstEnd \in Int /\ DstStart - 1 \in Int /\ DstEnd - 1 \in Int
        /\ DstStart < DstEnd /\ Hour \in Nat /\ 0 < Hour /\ Day \in Nat
    BY Clock
  <1>2. /\ Offset(DstStart - 1) = 0 /\ Offset(DstStart) = Hour
        /\ Offset(DstEnd - 1) = Hour /\ Offset(DstEnd) = 0
    BY <1>1 DEF Offset, is_dst_time
  <1>3. /\ LocalDay(DstStart - 1) = LocalDay(DstStart)
        /\ LocalDay(DstEnd - 1) = LocalDay(DstEnd)
    BY ClockChanges
  <1> DEFINE b == LocalDay(DstStart)
             c == LocalDay(DstEnd)
             at == s * Day
             bt == b * Day
             ct == c * Day
  <1>4. /\ b \in Int /\ c \in Int /\ at \in Int /\ bt \in Int /\ ct \in Int
        /\ bt <= DstStart - 1 /\ DstStart < bt - Hour + Day
        /\ ct <= DstEnd /\ DstEnd - 1 < ct - Hour + Day
    <2>1. b \in Int /\ c \in Int
      BY <1>1, DayOfTime
    <2>2. Midnight(DstStart - 1) = bt - 0 /\ Midnight(DstStart) = bt - Hour
      BY <1>1, <1>2, <1>3, DayOfTime
    <2>3. Midnight(DstEnd - 1) = ct - Hour /\ Midnight(DstEnd) = ct - 0
      BY <1>1, <1>2, <1>3, DayOfTime
    <2>4. /\ Midnight(DstStart - 1) <= DstStart - 1 /\ DstStart < Midnight(DstStart) + Day
          /\ Midnight(DstEnd) <= DstEnd /\ DstEnd - 1 < Midnight(DstEnd - 1) + Day
      BY <1>1, DayOfTime
    <2>5. at \in Int /\ bt \in Int /\ ct \in Int
      <3> HIDE DEF b, c
      <3> QED BY <1>1, <2>1
    <2> HIDE DEF b, c, at, bt, ct
    <2> QED BY <1>1, <2>1, <2>2, <2>3, <2>4, <2>5
  <1>5. /\ s <= b => at <= bt
        /\ b < s => bt + Day <= at
        /\ s <= c => at <= ct
        /\ c < s => ct + Day <= at
    <2> HIDE DEF b, c
    <2>1. /\ s < b => at + Day <= bt
          /\ b < s => bt + Day <= at
          /\ s < c => at + Day <= ct
          /\ c < s => ct + Day <= at
      BY <1>4, DaysApart
    <2>2. (s = b => at = bt) /\ (s = c => at = ct)
      OBVIOUS
    <2> HIDE DEF at, bt, ct
    <2> QED BY <1>1, <1>4, <2>1, <2>2
  <1> HIDE DEF b, c, at, bt, ct
  <1>6. ~(at - Hour < DstStart /\ DstStart <= at) /\ ~(at - Hour < DstEnd /\ DstEnd < at)
    BY <1>1, <1>4, <1>5
  <1> QED BY <1>6 DEF at

\* A time is of a day or of a later one from the start of the day on.
LEMMA FromStart ==
    ASSUME NEW s \in Int, NEW t \in Int
    PROVE  StartOf(s) <= t <=> s <= LocalDay(t)
  <1> DEFINE D == LocalDay(t)
             o == Offset(t)
             at == s * Day
             dt == D * Day
  <1>1. /\ DstStart \in Int /\ DstEnd \in Int /\ DstStart < DstEnd
        /\ Hour \in Nat /\ 0 < Hour /\ Day \in Nat
    BY Clock
  <1>2. /\ D \in Int /\ o \in {0, Hour} /\ at \in Int /\ dt \in Int
        /\ dt <= t + o /\ t + o < dt + Day
    <2>1. D \in Int /\ o \in {0, Hour}
      BY DayOfTime
    <2>2. Midnight(t) = dt - o /\ Midnight(t) <= t /\ t < Midnight(t) + Day
      BY DayOfTime
    <2>3. at \in Int /\ dt \in Int
      <3> HIDE DEF D
      <3> QED BY <1>1, <2>1
    <2> HIDE DEF D, o, at, dt
    <2> QED BY <1>1, <2>1, <2>2, <2>3
  <1>3. /\ o = Hour <=> DstStart <= t /\ t < DstEnd
        /\ o = 0 <=> ~(DstStart <= t /\ t < DstEnd)
    BY <1>1 DEF Offset, is_dst_time
  <1>4. \/ StartOf(s) = at - Hour /\ DstStart <= at - Hour /\ at - Hour < DstEnd
        \/ StartOf(s) = at /\ ~(DstStart <= at - Hour /\ at - Hour < DstEnd)
    BY DEF StartOf, is_dst_time
  <1>5. ~(at - Hour < DstStart /\ DstStart <= at) /\ ~(at - Hour < DstEnd /\ DstEnd < at)
    BY NoChangeAtMidnight
  <1>6. (s <= D => at <= dt) /\ (D < s => dt + Day <= at)
    <2> HIDE DEF D
    <2>1. (s < D => at + Day <= dt) /\ (D < s => dt + Day <= at) /\ (s = D => at = dt)
      BY <1>2, DaysApart
    <2> HIDE DEF at, dt
    <2> QED BY <1>1, <1>2, <2>1
  <1> HIDE DEF D, o, at, dt
  <1>7. ASSUME s <= D PROVE StartOf(s) <= t
    BY <1>1, <1>2, <1>3, <1>4, <1>5, <1>6, <1>7
  <1>8. ASSUME D < s PROVE ~(StartOf(s) <= t)
    BY <1>1, <1>2, <1>3, <1>4, <1>5, <1>6, <1>8
  <1>9. StartOf(s) <= t <=> s <= D
    BY <1>2, <1>7, <1>8
  <1> QED BY <1>9 DEF D

\* The start of a day is its midnight.
LEMMA MidnightOfStart ==
    ASSUME NEW s \in Int
    PROVE  StartOf(s) + Offset(StartOf(s)) = s * Day /\ LocalDay(StartOf(s)) = s
  <1> DEFINE u == StartOf(s)
             at == s * Day
             c == LocalDay(u)
             ct == c * Day
  <1>1. /\ DstStart \in Int /\ DstEnd \in Int /\ DstStart < DstEnd
        /\ Hour \in Nat /\ 0 < Hour /\ Day \in Nat /\ at \in Int /\ u \in Int
    BY Clock, StartOfDay
  <1>2. u + Offset(u) = at
    <2>1. \/ u = at - Hour /\ DstStart <= at - Hour /\ at - Hour < DstEnd
          \/ u = at /\ ~(DstStart <= at - Hour /\ at - Hour < DstEnd)
      BY DEF StartOf, is_dst_time
    <2>2. ~(at - Hour < DstStart /\ DstStart <= at)
      BY NoChangeAtMidnight
    <2>3. /\ DstStart <= u /\ u < DstEnd => Offset(u) = Hour
          /\ ~(DstStart <= u /\ u < DstEnd) => Offset(u) = 0
      BY DEF Offset, is_dst_time
    <2> HIDE DEF u, at
    <2> QED BY <1>1, <2>1, <2>2, <2>3
  <1>3. /\ c \in Int /\ ct \in Int /\ ct <= at /\ at < ct + Day
    <2>1. c \in Int /\ Offset(u) \in Nat
      <3> HIDE DEF u
      <3> QED BY <1>1, DayOfTime
    <2>2. Midnight(u) = ct - Offset(u) /\ Midnight(u) <= u /\ u < Midnight(u) + Day
      <3> HIDE DEF u
      <3> QED BY <1>1, DayOfTime
    <2>3. ct \in Int
      <3> HIDE DEF c
      <3> QED BY <1>1, <2>1
    <2> HIDE DEF u, at, c, ct
    <2> QED BY <1>1, <1>2, <2>1, <2>2, <2>3
  <1>4. (s < c => at + Day <= ct) /\ (c < s => ct + Day <= at)
    <2> HIDE DEF c
    <2> QED BY <1>3, DaysApart
  <1>5. c = s
    <2> HIDE DEF c, ct, at
    <2> QED BY <1>1, <1>3, <1>4
  <1> QED BY <1>2, <1>5

\* On a day when the clock is not changed, that is the midnight of each time.
LEMMA OrdinaryStart ==
    ASSUME NEW t \in Int, Ordinary(t)
    PROVE  StartOf(LocalDay(t)) = Midnight(t)
  <1> DEFINE D == LocalDay(t)
             u == StartOf(D)
             at == D * Day
  <1>1. D \in Int /\ Offset(t) \in {0, Hour} /\ Midnight(t) = at - Offset(t)
    BY DayOfTime
  <1>2. Hour \in Nat /\ 0 < Hour /\ Day \in Nat /\ Hour < Day /\ at \in Int /\ u \in Int
    <2> HIDE DEF D
    <2> QED BY <1>1, Clock, StartOfDay
  <1>3. u + Offset(u) = at /\ LocalDay(u) = D
    <2> HIDE DEF D
    <2> QED BY <1>1, MidnightOfStart
  <1>4. Ordinary(u)
    BY <1>3 DEF Ordinary
  <1>5. Offset(u) \in {0, Hour} /\ Midnight(u) = at - Offset(u)
    <2> HIDE DEF u
    <2> QED BY <1>2, <1>3, DayOfTime
  <1> HIDE DEF u, at
  <1>6. /\ Midnight(t) <= at /\ at < Midnight(t) + Day
        /\ Midnight(u) <= at /\ at < Midnight(u) + Day
    BY <1>1, <1>2, <1>5
  <1>7. Offset(at) = Offset(t) /\ Offset(at) = Offset(u)
    BY <1>2, <1>4, <1>6, OrdinaryDay
  <1>8. u = Midnight(t)
    BY <1>1, <1>2, <1>3, <1>5, <1>7
  <1> QED BY <1>8 DEF u

\* How many of every q-th day from f there are.
LEMMA CountEvery ==
    ASSUME NEW f \in Int, NEW q \in {1, 7}, NEW a \in Int, NEW b \in Int, a <= b
    PROVE  Cardinality({f + q * j : j \in a..b}) = b - a + 1
  <1> DEFINE T == {f + q * j : j \in a..b}
             g == [j \in a..b |-> f + q * j]
  <1>1. \A i, j \in a..b : f + q * i = f + q * j => i = j
    OBVIOUS
  <1>2. g \in Injection(a..b, T)
    <2>1. g \in [a..b -> T]
      OBVIOUS
    <2>2. \A i, j \in a..b : g[i] = g[j] => i = j
      BY <1>1
    <2> HIDE DEF g, T
    <2> QED BY <2>1, <2>2 DEF Injection, IsInjective
  <1>3. g \in Surjection(a..b, T)
    <2>1. g \in [a..b -> T]
      OBVIOUS
    <2>2. \A y \in T : \E j \in a..b : g[j] = y
      OBVIOUS
    <2> HIDE DEF g, T
    <2> QED BY <2>1, <2>2 DEF Surjection
  <1>4. ExistsBijection(a..b, T)
    <2> HIDE DEF g, T
    <2> QED BY <1>2, <1>3 DEF ExistsBijection, Bijection
  <1>5. IsFiniteSet(a..b) /\ Cardinality(a..b) = b - a + 1
    BY FS_Interval
  <1> HIDE DEF T
  <1>6. Cardinality(T) = b - a + 1
    BY <1>4, <1>5, FS_Bijection
  <1> QED BY <1>6 DEF T

\* Which of every q-th day the nth one is, from the first and from the last.
LEMMA NthOfEvery ==
    ASSUME NEW f \in Int, NEW q \in {1, 7}, NEW K \in Nat, NEW n \in Int
    PROVE  /\ 1 <= n /\ n <= K + 1 => Nth({f + q * k : k \in 0..K}, n) = {f + q * (n - 1)}
           /\ -(K + 1) <= n /\ n <= -1 => Nth({f + q * k : k \in 0..K}, n) = {f + q * (K + n + 1)}
           /\ n = 0 \/ n > K + 1 \/ n < -(K + 1) => Nth({f + q * k : k \in 0..K}, n) = {}
  <1> DEFINE at == [k \in 0..K |-> f + q * k]
             S == {at[k] : k \in 0..K}
             upTo(day) == Cardinality({d \in S : d <= day})
             from(day) == Cardinality({d \in S : d >= day})
             Ks == {j \in 0..K : n \in {j + 1, -(K - j + 1)}}
  <1>1. {f + q * k : k \in 0..K} = S
    OBVIOUS
  <1>2. /\ \A i, j \in 0..K : at[i] <= at[j] <=> i <= j
        /\ \A i, j \in 0..K : at[i] >= at[j] <=> i >= j
    OBVIOUS
  <1>3. \A a \in 0..K, b \in 0..K : a <= b => Cardinality({at[j] : j \in a..b}) = b - a + 1
    <2>1. SUFFICES ASSUME NEW a \in 0..K, NEW b \in 0..K, a <= b
                   PROVE  Cardinality({at[j] : j \in a..b}) = b - a + 1
      OBVIOUS
    <2>2. {at[j] : j \in a..b} = {f + q * j : j \in a..b}
      <3>1. \A j \in a..b : at[j] = f + q * j
        OBVIOUS
      <3> HIDE DEF at
      <3> QED BY <3>1
    <2>3. Cardinality({f + q * j : j \in a..b}) = b - a + 1
      <3>1. a \in Int /\ b \in Int
        OBVIOUS
      <3> HIDE DEF at, S, Ks
      <3> QED BY <2>1, <3>1, CountEvery, ZenonT(60)
    <2> HIDE DEF at
    <2> QED BY <2>2, <2>3, Zenon
  <1> HIDE DEF at
  <1>4. ASSUME NEW k \in 0..K
        PROVE  upTo(at[k]) = k + 1 /\ from(at[k]) = K - k + 1
    <2>1. \A j : j \in 0..k <=> j \in 0..K /\ j <= k
      OBVIOUS
    <2>2. \A j : j \in k..K <=> j \in 0..K /\ j >= k
      OBVIOUS
    <2>3. {d \in S : d <= at[k]} = {at[j] : j \in 0..k}
      <3>1. ASSUME NEW d \in S, d <= at[k] PROVE \E j \in 0..k : d = at[j]
        <4>1. PICK j \in 0..K : d = at[j]
          OBVIOUS
        <4>2. j \in 0..k
          BY <1>2, <2>1, <3>1, <4>1
        <4> QED BY <4>1, <4>2, Zenon
      <3>2. ASSUME NEW j \in 0..k PROVE at[j] \in S /\ at[j] <= at[k]
        <4>1. j \in 0..K /\ j <= k
          BY <2>1, Zenon
        <4> QED BY <1>2, <4>1
      <3> HIDE DEF S
      <3> QED BY <3>1, <3>2, Zenon
    <2>4. {d \in S : d >= at[k]} = {at[j] : j \in k..K}
      <3>1. ASSUME NEW d \in S, d >= at[k] PROVE \E j \in k..K : d = at[j]
        <4>1. PICK j \in 0..K : d = at[j]
          OBVIOUS
        <4>2. j \in k..K
          BY <1>2, <2>2, <3>1, <4>1
        <4> QED BY <4>1, <4>2, Zenon
      <3>2. ASSUME NEW j \in k..K PROVE at[j] \in S /\ at[j] >= at[k]
        <4>1. j \in 0..K /\ j >= k
          BY <2>2, Zenon
        <4> QED BY <1>2, <4>1
      <3> HIDE DEF S
      <3> QED BY <3>1, <3>2, Zenon
    <2>5. /\ Cardinality({at[j] : j \in 0..k}) = k - 0 + 1
          /\ Cardinality({at[j] : j \in k..K}) = K - k + 1
      <3>1. 0 \in 0..K /\ K \in 0..K /\ 0 <= k /\ k <= K
        OBVIOUS
      <3> QED BY <1>3, <3>1, Zenon
    <2> HIDE DEF S
    <2>6. k - 0 + 1 = k + 1
      OBVIOUS
    <2> HIDE DEF S
    <2>7. upTo(at[k]) = k - 0 + 1 /\ from(at[k]) = K - k + 1
      BY <2>3, <2>4, <2>5, Zenon
    <2> QED BY <2>6, <2>7, Zenon
  <1>5. Nth(S, n) = {day \in S : n \in {upTo(day), -from(day)}}
    BY DEF Nth
  <1> HIDE DEF upTo, from
  <1>6. Nth(S, n) = {at[k] : k \in Ks}
    BY <1>4, <1>5
  <1>7. /\ 1 <= n /\ n <= K + 1 => Ks = {n - 1} /\ n - 1 \in 0..K
        /\ -(K + 1) <= n /\ n <= -1 => Ks = {K + n + 1} /\ K + n + 1 \in 0..K
        /\ n = 0 \/ n > K + 1 \/ n < -(K + 1) => Ks = {}
    OBVIOUS
  <1>8. \A k \in 0..K : at[k] = f + q * k
    BY DEF at
  <1> HIDE DEF Ks, S
  <1>9. /\ 1 <= n /\ n <= K + 1 => Nth(S, n) = {f + q * (n - 1)}
        /\ -(K + 1) <= n /\ n <= -1 => Nth(S, n) = {f + q * (K + n + 1)}
        /\ n = 0 \/ n > K + 1 \/ n < -(K + 1) => Nth(S, n) = {}
    BY <1>6, <1>7, <1>8
  <1> QED BY <1>1, <1>9

\* Times that are the starts of days, of at most one.
AreStarts(times, days) ==
    \/ times = {} /\ days = {}
    \/ \E day \in Int : times = {StartOf(day)} /\ days = {day}

\* The days of a month follow on from the first.
LEMMA MonthSpan ==
    ASSUME NEW year \in Int, NEW month \in Months, NEW day \in Int
    PROVE  MonthHas(year, month, day)
               <=> DayOf(year, month, 1) <= day /\ day < DayOf(year, month, 1) + MonthLength(month)
  <1> DEFINE one == DayOf(year, month, 1)
             L == MonthLength(month)
             b == year * YearDays
             s == MonthStarts[month + 1]
             e == MonthStarts[month + 2]
  <1>1. month + 1 \in 1..Len(MonthStarts) /\ month + 2 \in 1..Len(MonthStarts)
    BY MonthTable
  <1>2. b \in Int /\ s \in Nat /\ e \in Nat
    BY <1>1, MonthTable, YearIsLong
  <1>3. one = b + s + 1 - 1 /\ L = e - s
    BY DEF DayOf, MonthLength
  <1>4. MonthHas(year, month, day) <=> b + s <= day /\ day < b + e
    BY DEF MonthHas
  <1> HIDE DEF b, s, e, one, L
  <1>5. MonthHas(year, month, day) <=> one <= day /\ day < one + L
    BY <1>2, <1>3, <1>4
  <1> QED BY <1>5 DEF one, L

\* A month has its days, and no others that are not further away than five weeks.
LEMMA NearMonth ==
    ASSUME NEW year \in Int, NEW month \in Months, NEW day \in Int,
           DayOf(year, month, 1) + MonthLength(month) - 35 <= day, day < DayOf(year, month, 1) + 35
    PROVE  /\ DayOf(year, month, 1) <= day /\ day < DayOf(year, month, 1) + MonthLength(month)
                 => InMonth(day, month) = {StartOf(day)}
           /\ ~(DayOf(year, month, 1) <= day /\ day < DayOf(year, month, 1) + MonthLength(month))
                 => InMonth(day, month) = {}
  <1> DEFINE y == YearOf(day)
             one == DayOf(year, month, 1)
             L == MonthLength(month)
             b == year * YearDays
             c == y * YearDays
             s == MonthStarts[month + 1]
             e == MonthStarts[month + 2]
  <1>1. /\ b \in Int /\ s \in Nat /\ e \in Nat /\ s <= YearDays /\ e <= YearDays /\ s <= e
        /\ YearDays \in Nat /\ 35 < YearDays
    <2>1. month + 1 \in 1..Len(MonthStarts) /\ month + 2 \in 2..Len(MonthStarts)
      BY MonthTable
    <2>2. month + 2 \in 1..Len(MonthStarts) /\ month + 2 - 1 = month + 1
      BY <2>1, MonthTable
    <2>3. s \in Nat /\ e \in Nat /\ s + 7 <= e /\ s <= YearDays /\ e <= YearDays
      BY <2>1, <2>2, MonthTable, YearIsLong
    <2>4. b \in Int /\ YearDays \in Nat /\ 35 < YearDays
      BY YearIsLong
    <2> HIDE DEF b, s, e
    <2> QED BY <2>3, <2>4
  <1>2. one = b + s /\ L = e - s
    <2>1. one = b + s + 1 - 1 /\ L = e - s
      BY DEF DayOf, MonthLength
    <2> HIDE DEF b, s, e, one, L
    <2> QED BY <1>1, <2>1
  <1>3. one <= day /\ day < one + L <=> MonthHas(year, month, day)
    BY MonthSpan
  <1>4. ASSUME MonthHas(year, month, day) PROVE MonthOf(day) = month
    BY <1>4, InOneMonth
  <1>5. ASSUME MonthOf(day) = month PROVE MonthHas(year, month, day)
    <2>1. MonthHas(y, month, day) /\ y \in Int
      BY <1>5, InSomeMonth
    <2>2. c + s <= day /\ day < c + e
      BY <2>1 DEF MonthHas
    <2>3. /\ c \in Int
          /\ year < y => b + YearDays <= c
          /\ y < year => c + YearDays <= b
      <3> HIDE DEF y
      <3> QED BY <2>1, YearIsLong
    <2>4. one + L - 35 <= day /\ day < one + 35
      OBVIOUS
    <2>5. ~(year < y) /\ ~(y < year)
      <3> HIDE DEF b, c, s, e, y, one, L
      <3> QED BY <1>1, <1>2, <2>2, <2>3, <2>4
    <2>6. y = year
      <3> HIDE DEF y
      <3> QED BY <2>1, <2>5
    <2> QED BY <2>1, <2>6
  <1>6. one <= day /\ day < one + L <=> MonthOf(day) = month
    BY <1>3, <1>4, <1>5, Zenon
  <1> QED BY <1>6, Zenon DEF InMonth

\* The nth day of a month, or from its end.
LEMMA DayNamed ==
    ASSUME NEW year \in Int, NEW month \in Months, NEW n \in (-31..31) \ {0}
    PROVE  AreStarts(calculate_time_from_day_of_month(year, month, n), Nth(DaysOf(year, month), n))
  <1> DEFINE one == DayOf(year, month, 1)
             L == MonthLength(month)
             K == L - 1
             day == IF n > 0 THEN one + n - 1 ELSE one + L + n
  <1>1. one \in Int /\ L \in 7..31 /\ K \in Nat
    <2>1. one \in Int /\ L \in 7..31
      BY DaysOfMonth
    <2> HIDE DEF one, L
    <2> QED BY <2>1
  <1>2. calculate_time_from_day_of_month(year, month, n) = InMonth(day, month)
    <2> DEFINE mday == IF n > 0 THEN n ELSE L + (IF n < -30 THEN -30 ELSE n + 1)
    <2>1. calculate_time_from_day_of_month(year, month, n) = InMonth(DayOf(year, month, mday), month)
      BY DEF calculate_time_from_day_of_month
    <2>2. mday \in Int /\ one + mday - 1 = day
      <3> HIDE DEF one, L
      <3> QED BY <1>1
    <2>3. DayOf(year, month, mday) = one + mday - 1
      <3> HIDE DEF mday
      <3> QED BY <2>2, DaysOfMonth
    <2> HIDE DEF mday, day
    <2> QED BY <2>1, <2>2, <2>3
  <1>3. DaysOf(year, month) = {one + 1 * k : k \in 0..K}
    <2>1. DayOf(year, month, L) = one + L - 1
      <3>1. L \in Int
        BY <1>1
      <3> HIDE DEF L
      <3> QED BY <3>1, DaysOfMonth
    <2>2. one..(one + L - 1) = {one + 1 * k : k \in 0..K}
      <3> HIDE DEF one, L
      <3>1. \A d \in one..(one + L - 1) : d - one \in 0..K /\ d = one + 1 * (d - one)
        BY <1>1
      <3>2. \A k \in 0..K : one + 1 * k \in one..(one + L - 1)
        BY <1>1
      <3> QED BY <3>1, <3>2
    <2> QED BY <2>1, <2>2, Zenon DEF DaysOf
  <1>4. day \in Int /\ one + L - 35 <= day /\ day < one + 35
    <2> HIDE DEF one, L
    <2> QED BY <1>1
  <1>5. /\ 1 <= n /\ n <= K + 1 => Nth(DaysOf(year, month), n) = {one + 1 * (n - 1)}
        /\ -(K + 1) <= n /\ n <= -1 => Nth(DaysOf(year, month), n) = {one + 1 * (K + n + 1)}
        /\ n = 0 \/ n > K + 1 \/ n < -(K + 1) => Nth(DaysOf(year, month), n) = {}
    <2>1. n \in Int
      OBVIOUS
    <2> HIDE DEF one, K
    <2>2. /\ 1 <= n /\ n <= K + 1 => Nth({one + 1 * k : k \in 0..K}, n) = {one + 1 * (n - 1)}
          /\ -(K + 1) <= n /\ n <= -1
                => Nth({one + 1 * k : k \in 0..K}, n) = {one + 1 * (K + n + 1)}
          /\ n = 0 \/ n > K + 1 \/ n < -(K + 1) => Nth({one + 1 * k : k \in 0..K}, n) = {}
      <3>1. 1 \in {1, 7} /\ one \in Int /\ K \in Nat
        BY <1>1
      <3> QED BY <2>1, <3>1, NthOfEvery, Zenon
    <2> QED BY <1>3, <2>2, Zenon
  <1>6. /\ one <= day /\ day < one + L => InMonth(day, month) = {StartOf(day)}
        /\ ~(one <= day /\ day < one + L) => InMonth(day, month) = {}
    <2> HIDE DEF day
    <2> QED BY <1>4, NearMonth, Zenon
  <1> DEFINE days == Nth(DaysOf(year, month), n)
  <1>7. /\ one <= day /\ day < one + L => days = {day}
        /\ ~(one <= day /\ day < one + L) => days = {}
    <2>1. /\ 1 <= n /\ n <= K + 1 => days = {one + 1 * (n - 1)}
          /\ -(K + 1) <= n /\ n <= -1 => days = {one + 1 * (K + n + 1)}
          /\ n = 0 \/ n > K + 1 \/ n < -(K + 1) => days = {}
      BY <1>5
    <2> HIDE DEF one, L, days
    <2>2. CASE n > 0
      BY <1>1, <2>1, <2>2
    <2>3. CASE n < 0
      BY <1>1, <2>1, <2>3
    <2> QED BY <2>2, <2>3
  <1> HIDE DEF one, L, day, days
  <1>8. AreStarts(InMonth(day, month), days)
    BY <1>4, <1>6, <1>7, Zenon DEF AreStarts
  <1> QED BY <1>2, <1>8 DEF days

\* The days of earlier years are earlier.
LEMMA EarlierYear ==
    ASSUME NEW day \in Int, NEW later \in Int, YearOf(day) < YearOf(later)
    PROVE  day < later
  <1> DEFINE Y == YearDays
             y == day \div Y
             z == later \div Y
             b == y * Y
             c == z * Y
  <1>1. Y \in Nat /\ 0 < Y /\ y < z
    BY YearIsLong DEF YearOf
  <1>2. y \in Int /\ z \in Int /\ b \in Int /\ c \in Int /\ day < b + Y /\ c <= later
    <2> HIDE DEF Y
    <2> QED BY <1>1
  <1>3. b + Y <= c
    <2> HIDE DEF Y, y, z
    <2> QED BY <1>1, <1>2
  <1> HIDE DEF Y, y, z, b, c
  <1> QED BY <1>1, <1>2, <1>3

\* The days of a month of a year.
LEMMA DaysOfYear ==
    ASSUME NEW year \in Int, NEW month \in Months, NEW day \in DaysOf(year, month)
    PROVE  day \in Int /\ YearOf(day) = year
  <1> DEFINE one == DayOf(year, month, 1)
             L == MonthLength(month)
  <1>1. one \in Int /\ L \in 7..31 /\ DayOf(year, month, L) = one + L - 1
    <2>1. one \in Int /\ L \in 7..31
      BY DaysOfMonth
    <2>2. L \in Int => DayOf(year, month, L) = one + L - 1
      <3> HIDE DEF L
      <3> QED BY DaysOfMonth
    <2> QED BY <2>1, <2>2
  <1>2. day \in one..(one + L - 1)
    BY <1>1 DEF DaysOf
  <1>3. day \in Int /\ one <= day /\ day < one + L
    <2> HIDE DEF one, L
    <2> QED BY <1>1, <1>2
  <1>4. MonthHas(year, month, day)
    BY <1>3, MonthSpan
  <1> QED BY <1>3, <1>4, InOneMonth

\* Each month has a last day.
LEMMA LastDay ==
    ASSUME NEW year \in Int, NEW month \in Months
    PROVE  \E day \in DaysOf(year, month) :
               /\ Nth(DaysOf(year, month), -1) = {day}
               /\ calculate_time_from_day_of_month(year, month, -1) = {StartOf(day)}
  <1> DEFINE days == DaysOf(year, month)
             day == DayOf(year, month, MonthLength(month))
             one == DayOf(year, month, 1)
             L == MonthLength(month)
  <1>1. one \in Int /\ L \in 7..31 /\ day = one + L - 1
    <2>1. one \in Int /\ L \in 7..31
      BY DaysOfMonth
    <2>2. L \in Int => DayOf(year, month, L) = one + L - 1
      <3> HIDE DEF L
      <3> QED BY DaysOfMonth
    <2> QED BY <2>1, <2>2
  <1>2. days = one..day
    BY DEF DaysOf
  <1>3. day \in days /\ \A d \in days : d <= day /\ d \in Int
    <2> HIDE DEF one, L, day, days
    <2> QED BY <1>1, <1>2
  <1>4. day \in Nth(days, -1)
    <2>1. {d \in days : d >= day} = {day}
      <3> HIDE DEF one, L, day, days
      <3> QED BY <1>3
    <2>2. Cardinality({d \in days : d >= day}) = 1
      BY <2>1, FS_Singleton
    <2>3. -Cardinality({d \in days : d >= day}) = -1
      <3> HIDE DEF days, day
      <3> QED BY <2>2
    <2> HIDE DEF days, day
    <2> QED BY <1>3, <2>3, Zenon DEF Nth
  <1>5. AreStarts(calculate_time_from_day_of_month(year, month, -1), Nth(days, -1))
    <2>1. -1 \in (-31..31) \ {0}
      OBVIOUS
    <2> QED BY <2>1, DayNamed
  <1> HIDE DEF days, day
  <1>6. PICK e \in Int : /\ calculate_time_from_day_of_month(year, month, -1) = {StartOf(e)}
                         /\ Nth(days, -1) = {e}
    BY <1>4, <1>5 DEF AreStarts
  <1>7. e = day
    BY <1>4, <1>6
  <1> QED BY <1>3, <1>6, <1>7 DEF days

\* The nth of a weekday in a month, or from its end.
LEMMA WeekdayNamed ==
    ASSUME NEW year \in Int, NEW month \in Months, NEW weekday \in 0..6, NEW n \in (-5..5) \ {0}
    PROVE  AreStarts(calculate_time_from_weekday_of_month(year, month, weekday, n),
                  Nth({x \in DaysOf(year, month) : WeekDayOf(x) = weekday}, n))
  <1> DEFINE one == DayOf(year, month, 1)
             L == MonthLength(month)
             f == FirstInstance(year, month, weekday)
             l == LastInstance(year, month, weekday)
             S == {x \in DaysOf(year, month) : WeekDayOf(x) = weekday}
  <1>1. one \in Int /\ L \in Int /\ L \in 7..31
    BY DaysOfMonth
  <1>2. PICK K \in 0..4 : /\ l = f + 7 * K /\ MonthHas(year, month, l)
                          /\ ~MonthHas(year, month, l + 7)
    BY WeekDays
  <1>3. f \in Int /\ l \in Int /\ f % 7 = weekday /\ one <= f /\ f <= one + 6
    <2>1. f \in Int /\ l \in Int
      BY WeekDays
    <2>2. f = one + ((weekday - (one % 7)) % 7)
      BY DEF FirstInstance, WeekDayOf
    <2> HIDE DEF f, l, one
    <2>3. f % 7 = weekday /\ one <= f /\ f <= one + 6
      BY <1>1, <2>1, <2>2
    <2> QED BY <2>1, <2>3
  <1>4. \A day \in Int : MonthHas(year, month, day) <=> one <= day /\ day < one + L
    BY MonthSpan
  <1>5. /\ one <= l /\ l < one + L /\ one + L <= l + 7
    <2>1. (one <= l /\ l < one + L) /\ ~(one <= l + 7 /\ l + 7 < one + L)
      <3>1. l + 7 \in Int
        BY <1>3
      <3> QED BY <1>2, <1>3, <1>4, <3>1, Zenon
    <2> HIDE DEF one, L, l
    <2> QED BY <1>1, <1>3, <2>1
  <1>6. S = {f + 7 * k : k \in 0..K}
    <2>1. DaysOf(year, month) = one..(one + L - 1)
      <3>1. DayOf(year, month, L) = one + L - 1
        <4> HIDE DEF L
        <4> QED BY <1>1, DaysOfMonth
      <3> QED BY <3>1, Zenon DEF DaysOf
    <2>2. \A x : x \in S <=> x \in one..(one + L - 1) /\ x % 7 = weekday
      <3> HIDE DEF one, L
      <3> QED BY <2>1, Zenon DEF WeekDayOf
    <2> HIDE DEF S, one, L, f, l
    <2>3. ASSUME NEW x \in S PROVE \E k \in 0..K : x = f + 7 * k
      <3>1. x \in Int /\ one <= x /\ x < one + L /\ x % 7 = weekday
        BY <1>1, <2>2
      <3>2. (x - f) % 7 = 0
        BY <1>3, <3>1
      <3> DEFINE k == (x - f) \div 7
      <3>3. k \in Int /\ x = f + 7 * k
        BY <1>3, <3>1, <3>2
      <3> HIDE DEF k
      <3>4. k \in 0..K
        BY <1>1, <1>2, <1>3, <1>5, <3>1, <3>3
      <3> QED BY <3>3, <3>4
    <2>4. ASSUME NEW k \in 0..K PROVE f + 7 * k \in S
      <3>1. f + 7 * k \in one..(one + L - 1)
        BY <1>1, <1>2, <1>3, <1>5
      <3>2. (f + 7 * k) % 7 = weekday
        BY <1>2, <1>3
      <3> QED BY <2>2, <3>1, <3>2
    <2> QED BY <2>3, <2>4
  <1> DEFINE day == IF n > 0 THEN f + 7 * (n - 1) ELSE l + 7 * (n + 1)
             days == Nth(S, n)
  <1>7. calculate_time_from_weekday_of_month(year, month, weekday, n) = InMonth(day, month)
    <2> DEFINE there == IF n > 0 THEN f + 7 * ((IF n > 5 THEN 5 ELSE n) - 1)
                        ELSE l + 7 * ((IF n < -5 THEN -5 ELSE n) + 1)
    <2>1. calculate_time_from_weekday_of_month(year, month, weekday, n) = InMonth(there, month)
      BY DEF calculate_time_from_weekday_of_month
    <2>2. there = day
      <3> HIDE DEF f, l
      <3> QED OBVIOUS
    <2> QED BY <2>1, <2>2
  <1>8. day \in Int /\ one + L - 35 <= day /\ day < one + 35
    <2> HIDE DEF one, L, f, l
    <2> QED BY <1>1, <1>3, <1>5
  <1>9. /\ one <= day /\ day < one + L => InMonth(day, month) = {StartOf(day)}
        /\ ~(one <= day /\ day < one + L) => InMonth(day, month) = {}
    <2> HIDE DEF day
    <2> QED BY <1>8, NearMonth, Zenon
  <1>10. /\ 1 <= n /\ n <= K + 1 => days = {f + 7 * (n - 1)}
         /\ -(K + 1) <= n /\ n <= -1 => days = {f + 7 * (K + n + 1)}
         /\ n = 0 \/ n > K + 1 \/ n < -(K + 1) => days = {}
    <2>1. n \in Int /\ 7 \in {1, 7} /\ K \in Nat
      OBVIOUS
    <2> HIDE DEF f, S
    <2>2. /\ 1 <= n /\ n <= K + 1 => Nth({f + 7 * k : k \in 0..K}, n) = {f + 7 * (n - 1)}
          /\ -(K + 1) <= n /\ n <= -1
                => Nth({f + 7 * k : k \in 0..K}, n) = {f + 7 * (K + n + 1)}
          /\ n = 0 \/ n > K + 1 \/ n < -(K + 1) => Nth({f + 7 * k : k \in 0..K}, n) = {}
      BY <1>3, <2>1, NthOfEvery, Zenon
    <2> QED BY <1>6, <2>2, Zenon
  <1>11. /\ one <= day /\ day < one + L => days = {day}
         /\ ~(one <= day /\ day < one + L) => days = {}
    <2> HIDE DEF one, L, f, l, days
    <2>1. CASE n > 0
      BY <1>1, <1>2, <1>3, <1>5, <1>10, <2>1
    <2>2. CASE n < 0
      BY <1>1, <1>2, <1>3, <1>5, <1>10, <2>2
    <2> QED BY <2>1, <2>2
  <1> HIDE DEF one, L, f, l, S, day, days
  <1>12. AreStarts(InMonth(day, month), days)
    BY <1>8, <1>9, <1>11, Zenon DEF AreStarts
  <1> QED BY <1>7, <1>12 DEF days, S

\* The nth of some days of a month, or the last of the month.
NthOrLast(days, n, month) == IF Nth(days, n) = {} /\ n > 0 THEN Nth(month, -1) ELSE Nth(days, n)

\* Those of a weekday.
OfWeekday(days, weekday) == {x \in days : WeekDayOf(x) = weekday}

\* The days that a date names for a start and for an end.
Starting(type, d, year, mon) == Named(type, d, year, mon, FALSE)
Ending(type, d, year, mon) == Named(type, d, year, mon, type # "calendar date")

\* The days of a month that a date is among, and which of them it is.
NamedFrom(type, d, year, mon, days) ==
    /\ type = "calendar date" => days = DaysOf(d.year, d.mon)
    /\ type \in {"month date", "month week day"} => days = DaysOf(year, d.mon)
    /\ type \in {"month day", "week day"} => days = DaysOf(year, mon)
    /\ type \in WeekdayTypes
          => /\ Starting(type, d, year, mon) =
                   Nth(OfWeekday(days, d.wday), d.offset)
             /\ Ending(type, d, year, mon) =
                   NthOrLast(OfWeekday(days, d.wday), d.offset, days)
    /\ type \notin WeekdayTypes
          => /\ Starting(type, d, year, mon) = Nth(days, d.mday)
             /\ type # "calendar date"
                   => Ending(type, d, year, mon) = NthOrLast(days, d.mday, days)
    /\ Starting(type, d, year, mon) # {}
          => Ending(type, d, year, mon) = Starting(type, d, year, mon)

\* There are some.
LEMMA NamedIn ==
    ASSUME NEW type, NEW d, NEW year, NEW mon
    PROVE  \E days : NamedFrom(type, d, year, mon, days)
  <1> DEFINE days == DaysOf(IF type = "calendar date" THEN d.year ELSE year,
                            IF type \in {"month day", "week day"} THEN mon ELSE d.mon)
  <1>1. /\ Starting(type, d, year, mon) = UNION {NamedAmong(type, d, ds, FALSE) : ds \in {days}}
        /\ Ending(type, d, year, mon) =
               UNION {NamedAmong(type, d, ds, type # "calendar date") : ds \in {days}}
    BY DEF Starting, Ending, Named
  <1> DEFINE first == NamedAmong(type, d, days, FALSE)
             last == NamedAmong(type, d, days, type # "calendar date")
  <1>2. Starting(type, d, year, mon) = first /\ Ending(type, d, year, mon) = last
    <2> HIDE DEF days
    <2>1. /\ UNION {NamedAmong(type, d, ds, FALSE) : ds \in {days}} = first
          /\ UNION {NamedAmong(type, d, ds, type # "calendar date") : ds \in {days}} = last
      OBVIOUS
    <2> QED BY <1>1, <2>1, Zenon
  <1>3. /\ type = "calendar date" => days = DaysOf(d.year, d.mon)
        /\ type \in {"month date", "month week day"} => days = DaysOf(year, d.mon)
        /\ type \in {"month day", "week day"} => days = DaysOf(year, mon)
    OBVIOUS
  <1> HIDE DEF days
  <1>4. type \in WeekdayTypes
           => /\ first = Nth(OfWeekday(days, d.wday), d.offset)
              /\ last = NthOrLast(OfWeekday(days, d.wday), d.offset, days)
    BY Zenon DEF NamedAmong, NthOrLast, OfWeekday, WeekdayTypes
  <1>5. type \notin WeekdayTypes
           => /\ first = Nth(days, d.mday)
              /\ type # "calendar date" => last = NthOrLast(days, d.mday, days)
    BY Zenon DEF NamedAmong, NthOrLast
  <1>6. first # {} => last = first
    BY Zenon DEF NamedAmong
  <1> HIDE DEF first, last
  <1>7. NamedFrom(type, d, year, mon, days)
    BY <1>2, <1>3, <1>4, <1>5, <1>6, Zenon DEF NamedFrom
  <1> QED BY <1>7, Zenon

\* The code and the calendar agree on the day that a start is for.
LEMMA StartNamed ==
    ASSUME NEW type \in ToSet(Types), NEW d \in DateOf(type), Countable(type, d),
           NEW year \in Int, NEW mon \in Months
    PROVE  AreStarts(TimeOf(type, d, year, mon), Starting(type, d, year, mon))
  <1>1. type \in {"calendar date", "month date", "month day", "month week day", "week day"}
    BY FiveTypes
  <1>2. PICK days : NamedFrom(type, d, year, mon, days)
    BY NamedIn
  <1>3. CASE type = "calendar date"
    <2>1. d.year \in Int /\ d.mon \in Months /\ d.mday \in Int /\ d.mday \in 1..MonthLength(d.mon)
      <3>1. d \in [year : Int, mon : Months, mday : Int]
        BY <1>3 DEF DateOf
      <3>2. d.mday \in 1..MonthLength(d.mon)
        BY <1>3 DEF Countable, WeekdayTypes
      <3> QED BY <3>1, <3>2
    <2>2. MonthLength(d.mon) \in 7..31
      BY <2>1, DaysOfMonth
    <2>3. d.mday \in (-31..31) \ {0} /\ d.mday > 0
      BY <2>1, <2>2
    <2> DEFINE day == DayOf(d.year, d.mon, d.mday)
    <2>4. day \in Int /\ MonthHas(d.year, d.mon, day)
      BY <2>1, DaysOfMonth
    <2>5. MonthOf(day) = d.mon
      <3> HIDE DEF day
      <3> QED BY <2>1, <2>4, InOneMonth
    <2>6. calculate_time_from_day_of_month(d.year, d.mon, d.mday) = {StartOf(day)}
      BY <2>3, <2>5 DEF calculate_time_from_day_of_month, InMonth
    <2>7. TimeOf(type, d, year, mon) = {StartOf(day)}
      BY <1>3 DEF TimeOf
    <2>8. Starting(type, d, year, mon) = Nth(DaysOf(d.year, d.mon), d.mday)
      BY <1>2, <1>3 DEF NamedFrom, WeekdayTypes
    <2> HIDE DEF day
    <2> QED BY <2>1, <2>3, <2>6, <2>7, <2>8, DayNamed
  <1>4. CASE type = "month date"
    <2>1. d.mon \in Months /\ d.mday \in (-31..31) \ {0}
      <3>1. d \in [mon : Months, mday : Int]
        BY <1>4 DEF DateOf
      <3>2. d.mday \in (-31..31) \ {0}
        BY <1>4 DEF Countable, WeekdayTypes
      <3> QED BY <3>1, <3>2
    <2>2. TimeOf(type, d, year, mon) = calculate_time_from_day_of_month(year, d.mon, d.mday)
      BY <1>4 DEF TimeOf
    <2>3. Starting(type, d, year, mon) = Nth(DaysOf(year, d.mon), d.mday)
      BY <1>2, <1>4 DEF NamedFrom, WeekdayTypes
    <2> QED BY <2>1, <2>2, <2>3, DayNamed
  <1>5. CASE type = "month day"
    <2>1. d.mday \in (-31..31) \ {0}
      <3>1. d \in [mon : Months, mday : Int]
        BY <1>5 DEF DateOf
      <3>2. d.mday \in (-31..31) \ {0}
        BY <1>5 DEF Countable, WeekdayTypes
      <3> QED BY <3>1, <3>2
    <2>2. TimeOf(type, d, year, mon) = calculate_time_from_day_of_month(year, mon, d.mday)
      BY <1>5 DEF TimeOf
    <2>3. Starting(type, d, year, mon) = Nth(DaysOf(year, mon), d.mday)
      BY <1>2, <1>5 DEF NamedFrom, WeekdayTypes
    <2> QED BY <2>1, <2>2, <2>3, DayNamed
  <1>6. CASE type = "month week day"
    <2>1. d.mon \in Months /\ d.wday \in 0..6 /\ d.offset \in (-5..5) \ {0}
      <3>1. d \in [mon : Months, wday : 0..6, offset : Int]
        BY <1>6 DEF DateOf
      <3>2. d.offset \in (-5..5) \ {0}
        BY <1>6 DEF Countable, WeekdayTypes
      <3> QED BY <3>1, <3>2
    <2>2. TimeOf(type, d, year, mon) =
              calculate_time_from_weekday_of_month(year, d.mon, d.wday, d.offset)
      BY <1>6 DEF TimeOf
    <2>3. Starting(type, d, year, mon) = Nth(OfWeekday(DaysOf(year, d.mon), d.wday), d.offset)
      BY <1>2, <1>6 DEF NamedFrom, WeekdayTypes
    <2> QED BY <2>1, <2>2, <2>3, WeekdayNamed DEF OfWeekday
  <1>7. CASE type = "week day"
    <2>1. d.wday \in 0..6 /\ d.offset \in (-5..5) \ {0}
      <3>1. d \in [mon : Months, wday : 0..6, offset : Int]
        BY <1>7 DEF DateOf
      <3>2. d.offset \in (-5..5) \ {0}
        BY <1>7 DEF Countable, WeekdayTypes
      <3> QED BY <3>1, <3>2
    <2>2. TimeOf(type, d, year, mon) =
              calculate_time_from_weekday_of_month(year, mon, d.wday, d.offset)
      BY <1>7 DEF TimeOf
    <2>3. Starting(type, d, year, mon) = Nth(OfWeekday(DaysOf(year, mon), d.wday), d.offset)
      BY <1>2, <1>7 DEF NamedFrom, WeekdayTypes
    <2> QED BY <2>1, <2>2, <2>3, WeekdayNamed DEF OfWeekday
  <1> QED BY <1>1, <1>3, <1>4, <1>5, <1>6, <1>7

\* So they do on an end, unless that is in the next year; in the same year it is not
\* before the start.
LEMMA EndNamed ==
    ASSUME NEW x \in Dateranges, Countable(x.type, x.end), NEW start \in Int,
           NEW year \in Int, NEW mon \in Months, EndYear(x, start, year, mon) = year
    PROVE  /\ AreStarts(EndTimes(x, start, year, mon), Ending(x.type, x.end, year, mon))
           /\ x.type \in Yearly => \E end \in EndTimes(x, start, year, mon) : ~(end < start)
  <1> DEFINE T == TimeOf(x.type, x.end, year, mon)
             slipped == SlippedTo(x, year, year, mon)
             first == Starting(x.type, x.end, year, mon)
             last == Ending(x.type, x.end, year, mon)
             ends == EndTimes(x, start, year, mon)
  <1>1. x.type \in ToSet(Types) /\ x.end \in DateOf(x.type)
    BY Daterange
  <1>2. AreStarts(T, first)
    BY <1>1, StartNamed
  <1>3. PICK days : NamedFrom(x.type, x.end, year, mon, days)
    BY NamedIn
  <1>4. ends = IF T # {} THEN T ELSE slipped
    <2> DEFINE end(y) == IF TimeOf(x.type, x.end, y, mon) # {} THEN TimeOf(x.type, x.end, y, mon)
                         ELSE SlippedTo(x, y, year, mon)
    <2>1. ends = UNION {end(y) : y \in {year}}
      BY DEF EndTimes
    <2>2. UNION {end(y) : y \in {year}} = end(year)
      <3> HIDE DEF end
      <3> QED OBVIOUS
    <2> QED BY <2>1, <2>2
  <1>5. x.type \in Yearly => \E end \in T : ~(end < start)
    <2>1. ASSUME x.type \in Yearly, \A end \in T : end < start PROVE FALSE
      <3>1. EndYear(x, start, year, mon) = year + 1
        BY <2>1 DEF EndYear
      <3> QED BY <3>1
    <2> QED BY <2>1
  <1>6. CASE T # {}
    <2>1. first # {}
      BY <1>2, <1>6 DEF AreStarts
    <2>2. last = first
      BY <1>3, <2>1 DEF NamedFrom
    <2>3. ends = T
      BY <1>4, <1>6
    <2> QED BY <1>2, <1>5, <2>2, <2>3
  <1>7. CASE T = {}
    <2>1. first = {} /\ ends = slipped
      <3> HIDE DEF T, first, ends, slipped
      <3> QED BY <1>2, <1>4, <1>7 DEF AreStarts
    <2>2. x.type \notin Yearly
      BY <1>5, <1>7
    <2>3. x.type # "calendar date"
      BY <1>7 DEF TimeOf
    <2>4. x.type \in {"month day", "week day"}
      BY <1>1, <2>2, <2>3, FiveTypes DEF Yearly
    <2>5. days = DaysOf(year, mon)
      BY <1>3, <2>4 DEF NamedFrom
    <2>6. AreStarts(calculate_time_from_day_of_month(year, mon, -1), Nth(DaysOf(year, mon), -1))
      <3>1. -1 \in (-31..31) \ {0}
        OBVIOUS
      <3> QED BY <3>1, DayNamed
    <2>7. CASE x.type = "month day"
      <3>1. x.end.mday \in (-31..31) \ {0}
        BY <2>7 DEF Countable, WeekdayTypes
      <3>2. first = Nth(days, x.end.mday) /\ last = NthOrLast(days, x.end.mday, days)
        BY <1>3, <2>7 DEF NamedFrom, WeekdayTypes
      <3>3. last = IF x.end.mday > 0 THEN Nth(days, -1) ELSE {}
        BY <2>1, <3>2 DEF NthOrLast
      <3>4. slipped = IF x.end.mday >= 0 THEN calculate_time_from_day_of_month(year, mon, -1) ELSE {}
        BY <2>7 DEF SlippedTo
      <3> HIDE DEF last, slipped, ends
      <3>5. CASE x.end.mday > 0
        <4>1. /\ slipped = calculate_time_from_day_of_month(year, mon, -1)
              /\ last = Nth(DaysOf(year, mon), -1)
          BY <2>5, <3>1, <3>3, <3>4, <3>5
        <4> QED BY <2>1, <2>2, <2>6, <4>1 DEF last, ends
      <3>6. CASE ~(x.end.mday > 0)
        <4>1. slipped = {} /\ last = {}
          BY <3>1, <3>3, <3>4, <3>6
        <4> QED BY <2>1, <2>2, <4>1 DEF AreStarts, last, ends
      <3> QED BY <3>5, <3>6
    <2>8. CASE x.type = "week day"
      <3>1. x.end.offset \in (-5..5) \ {0}
        BY <2>8 DEF Countable, WeekdayTypes
      <3>2. /\ first = Nth(OfWeekday(days, x.end.wday), x.end.offset)
            /\ last = NthOrLast(OfWeekday(days, x.end.wday), x.end.offset, days)
        BY <1>3, <2>8 DEF NamedFrom, WeekdayTypes
      <3>3. last = IF x.end.offset > 0 THEN Nth(days, -1) ELSE {}
        BY <2>1, <3>2 DEF NthOrLast
      <3>4. slipped = IF x.end.offset >= 0 THEN calculate_time_from_day_of_month(year, mon, -1) ELSE {}
        BY <2>8 DEF SlippedTo
      <3> HIDE DEF last, slipped, ends
      <3>5. CASE x.end.offset > 0
        <4>1. /\ slipped = calculate_time_from_day_of_month(year, mon, -1)
              /\ last = Nth(DaysOf(year, mon), -1)
          BY <2>5, <3>1, <3>3, <3>4, <3>5
        <4> QED BY <2>1, <2>2, <2>6, <4>1 DEF last, ends
      <3>6. CASE ~(x.end.offset > 0)
        <4>1. slipped = {} /\ last = {}
          BY <3>1, <3>3, <3>4, <3>6
        <4> QED BY <2>1, <2>2, <4>1 DEF AreStarts, last, ends
      <3> QED BY <3>5, <3>6
    <2> QED BY <2>4, <2>7, <2>8
  <1> QED BY <1>6, <1>7

\* The number of a yearly one.
Number(type, d) == IF type = "month date" THEN d.mday ELSE d.offset

\* What a yearly exception names is the nth of some days of a month of the year, or
\* for an end the last of the month.
LEMMA NamedYearly ==
    ASSUME NEW type \in Yearly, NEW d \in DateOf(type), NEW year, NEW mon
    PROVE  /\ d.mon \in Months /\ Number(type, d) \in Int
           /\ \E among \in SUBSET DaysOf(year, d.mon) :
                  /\ Starting(type, d, year, mon) = Nth(among, Number(type, d))
                  /\ Ending(type, d, year, mon) =
                         NthOrLast(among, Number(type, d), DaysOf(year, d.mon))
           /\ Starting(type, d, year, mon) # {}
                  => Ending(type, d, year, mon) = Starting(type, d, year, mon)
  <1> DEFINE days == DaysOf(year, d.mon)
             first == Starting(type, d, year, mon)
             last == Ending(type, d, year, mon)
  <1>1. PICK named : NamedFrom(type, d, year, mon, named)
    BY NamedIn
  <1>2. CASE type = "month date"
    <2>1. d \in [mon : Months, mday : Int]
      BY <1>2 DEF DateOf
    <2>2. named = days
      BY <1>1, <1>2 DEF NamedFrom
    <2>3. Number(type, d) = d.mday
      BY <1>2 DEF Number
    <2>4. first = Nth(days, d.mday) /\ last = NthOrLast(days, d.mday, days)
      BY <1>1, <1>2, <2>2 DEF NamedFrom, WeekdayTypes
    <2>5. first # {} => last = first
      BY <1>1 DEF NamedFrom
    <2> HIDE DEF days, first, last
    <2> QED BY <2>1, <2>3, <2>4, <2>5 DEF days, first, last
  <1>3. CASE type = "month week day"
    <2>1. d \in [mon : Months, wday : 0..6, offset : Int]
      BY <1>3 DEF DateOf
    <2>2. named = days
      BY <1>1, <1>3 DEF NamedFrom
    <2>3. Number(type, d) = d.offset
      BY <1>3 DEF Number
    <2> DEFINE among == OfWeekday(days, d.wday)
    <2>4. first = Nth(among, d.offset) /\ last = NthOrLast(among, d.offset, days)
      BY <1>1, <1>3, <2>2 DEF NamedFrom, WeekdayTypes
    <2>5. first # {} => last = first
      BY <1>1 DEF NamedFrom
    <2>6. among \in SUBSET days
      BY DEF OfWeekday
    <2> HIDE DEF days, first, last, among
    <2> QED BY <2>1, <2>3, <2>4, <2>5, <2>6 DEF days, first, last
  <1> QED BY <1>2, <1>3 DEF Yearly

\* So it is in the year.
LEMMA NamedInYear ==
    ASSUME NEW type \in Yearly, NEW d \in DateOf(type), NEW year \in Int, NEW mon \in Months
    PROVE  /\ \A s \in Starting(type, d, year, mon) : s \in Int /\ YearOf(s) = year
           /\ \A e \in Ending(type, d, year, mon) : e \in Int /\ YearOf(e) = year
  <1> DEFINE days == DaysOf(year, d.mon)
             n == Number(type, d)
  <1>1. PICK among \in SUBSET days : /\ Starting(type, d, year, mon) = Nth(among, n)
                                     /\ Ending(type, d, year, mon) = NthOrLast(among, n, days)
    BY NamedYearly
  <1>2. \A day \in days : day \in Int /\ YearOf(day) = year
    BY NamedYearly, DaysOfYear
  <1> HIDE DEF days, n
  <1>3. Nth(among, n) \subseteq days /\ Nth(days, -1) \subseteq days
    BY DEF Nth
  <1>4. NthOrLast(among, n, days) \subseteq days
    BY <1>3 DEF NthOrLast
  <1> QED BY <1>1, <1>2, <1>3, <1>4

\* An end that is named is named in each year when it is one of a number that its
\* month has not.
LEMMA NamedEachYear ==
    ASSUME NEW type \in Yearly, NEW d \in DateOf(type), NEW year \in Int, NEW other \in Int,
           NEW mon \in Months,
           Starting(type, d, year, mon) = {}, Ending(type, d, year, mon) # {}
    PROVE  /\ Ending(type, d, other, mon) # {}
           /\ \E e \in Int : Ending(type, d, year, mon) = {e}
  <1> DEFINE n == Number(type, d)
             last(y) == Nth(DaysOf(y, d.mon), -1)
  <1>1. \A y \in Int : \E e \in Int : last(y) = {e}
    BY NamedYearly, LastDay, DaysOfYear
  <1>2. n > 0 /\ Ending(type, d, year, mon) = last(year)
    <2>1. PICK among : /\ Starting(type, d, year, mon) = Nth(among, n)
                       /\ Ending(type, d, year, mon) = NthOrLast(among, n, DaysOf(year, d.mon))
      BY NamedYearly
    <2> HIDE DEF n
    <2> QED BY <2>1 DEF NthOrLast
  <1>3. Ending(type, d, other, mon) # {}
    <2>1. PICK among : Ending(type, d, other, mon) = NthOrLast(among, n, DaysOf(other, d.mon))
      BY NamedYearly
    <2>2. last(other) # {}
      <3> HIDE DEF last
      <3> QED BY <1>1
    <2> HIDE DEF n
    <2> QED BY <1>2, <2>1, <2>2 DEF NthOrLast
  <1> QED BY <1>1, <1>2, <1>3

\* An end in the next year is there when the calendar has it, and not in the year
\* from the start on.
IsNextYear(x, s, year, mon) ==
    LET ends == EndTimes(x, StartOf(s), year, mon)
        strict == Starting(x.type, x.end, year, mon)
        last == Ending(x.type, x.end, year, mon)
        next_year == Ending(x.type, x.end, year + 1, mon)
    IN /\ x.type \in Yearly
       /\ \/ ends = {} /\ next_year = {}
          \/ next_year # {} /\ \E e \in Int : ends = {StartOf(e)} /\ YearOf(e) = year + 1
       /\ \/ strict = {} /\ (last = {} \/ (next_year # {} /\ \E e \in Int : last = {e}))
          \/ \E e \in Int : strict = {e} /\ last = {e} /\ e < s

LEMMA EndNextYear ==
    ASSUME NEW x \in Dateranges, Countable(x.type, x.end), NEW s \in Int,
           NEW year \in Int, NEW mon \in Months, EndYear(x, StartOf(s), year, mon) # year
    PROVE  IsNextYear(x, s, year, mon)
  <1> DEFINE start == StartOf(s)
             ends == EndTimes(x, start, year, mon)
             T(y) == TimeOf(x.type, x.end, y, mon)
             First(y) == Starting(x.type, x.end, y, mon)
             Final(y) == Ending(x.type, x.end, y, mon)
             slipped == SlippedTo(x, year + 1, year, mon)
  <1>1. x.type \in ToSet(Types) /\ x.end \in DateOf(x.type)
    BY Daterange
  <1>2. /\ x.type \in Yearly /\ EndYear(x, start, year, mon) = year + 1
        /\ \A end \in T(year) : end < start
    BY DEF EndYear
  <1>3. year + 1 \in Int
    OBVIOUS
  <1>4. AreStarts(T(year), First(year)) /\ AreStarts(T(year + 1), First(year + 1))
    BY <1>1, <1>3, StartNamed
  <1>5. ends = IF T(year + 1) # {} THEN T(year + 1) ELSE slipped
    <2> DEFINE end(y) == IF T(y) # {} THEN T(y) ELSE SlippedTo(x, y, year, mon)
    <2>1. ends = UNION {end(y) : y \in {year + 1}}
      BY <1>2 DEF EndTimes
    <2>2. UNION {end(y) : y \in {year + 1}} = end(year + 1)
      <3> HIDE DEF end
      <3> QED OBVIOUS
    <2> QED BY <2>1, <2>2
  <1>6. \A y \in Int : First(y) # {} => Final(y) = First(y)
    BY <1>1, <1>2, NamedYearly
  <1>7. \A y \in Int : \A e \in First(y) : YearOf(e) = y
    BY <1>1, <1>2, NamedInYear
  <1>8. \/ First(year) = {} /\ (Final(year) = {} \/ (Final(year + 1) # {} /\ \E e \in Int : Final(year) = {e}))
        \/ \E e \in Int : First(year) = {e} /\ Final(year) = {e} /\ e < s
    <2>1. CASE First(year) = {}
      BY <1>1, <1>2, <1>3, <2>1, NamedEachYear
    <2>2. CASE First(year) # {}
      <3>1. PICK e \in Int : T(year) = {StartOf(e)} /\ First(year) = {e}
        <4> HIDE DEF T, First
        <4> QED BY <1>4, <2>2 DEF AreStarts
      <3>2. Final(year) = {e}
        <4> HIDE DEF First, Final
        <4> QED BY <1>6, <2>2, <3>1
      <3>3. StartOf(e) < start
        <4> HIDE DEF T, start
        <4> QED BY <1>2, <3>1
      <3>4. ~(s <= e)
        <4>1. LocalDay(StartOf(e)) = e /\ StartOf(e) \in Int /\ start \in Int
          BY MidnightOfStart, StartOfDay
        <4>2. ~(start <= StartOf(e))
          <5> HIDE DEF start
          <5> QED BY <3>3, <4>1
        <4> QED BY <4>1, <4>2, FromStart
      <3>5. e < s
        BY <3>4
      <3> QED BY <3>1, <3>2, <3>5
    <2> QED BY <2>1, <2>2
  <1>9. \/ ends = {} /\ Final(year + 1) = {}
        \/ Final(year + 1) # {} /\ \E e \in Int : ends = {StartOf(e)} /\ YearOf(e) = year + 1
    <2>1. CASE T(year + 1) # {}
      <3>1. PICK e \in Int : T(year + 1) = {StartOf(e)} /\ First(year + 1) = {e}
        <4> HIDE DEF T, First
        <4> QED BY <1>4, <2>1 DEF AreStarts
      <3>2. Final(year + 1) # {} /\ YearOf(e) = year + 1
        <4>1. e \in First(year + 1)
          BY <3>1
        <4> HIDE DEF First, Final
        <4> QED BY <1>3, <1>6, <1>7, <4>1
      <3>3. ends = {StartOf(e)}
        <4> HIDE DEF ends, T
        <4> QED BY <1>5, <2>1, <3>1
      <3> QED BY <3>2, <3>3
    <2>2. CASE T(year + 1) = {}
      <3>1. First(year + 1) = {} /\ ends = slipped
        <4> HIDE DEF ends, T, First, slipped
        <4> QED BY <1>4, <1>5, <2>2 DEF AreStarts
      <3> DEFINE days == DaysOf(year + 1, x.end.mon)
                 number == Number(x.type, x.end)
                 of == IF x.type = "month date" THEN x.end.mon ELSE mon
                 last_day == calculate_time_from_day_of_month(year + 1, of, -1)
      <3>2. x.end.mon \in Months /\ number \in Int
        BY <1>1, <1>2, NamedYearly
      <3>3. of \in Months /\ Nth(days, -1) # {}
        BY <1>3, <3>2, LastDay
      <3>4. number \in Int /\ number # 0
        <4>1. x.type = "month date" => x.end.mday # 0
          BY DEF Countable, WeekdayTypes
        <4>2. x.type = "month week day" => x.end.offset # 0
          BY DEF Countable, WeekdayTypes
        <4> QED BY <1>2, <3>2, <4>1, <4>2 DEF Number, Yearly
      <3>5. slipped = IF number >= 0 THEN last_day ELSE {}
        BY <1>2 DEF SlippedTo, Yearly, Number
      <3>6. Final(year + 1) = IF number > 0 THEN Nth(days, -1) ELSE {}
        <4>1. PICK among \in SUBSET days : /\ First(year + 1) = Nth(among, number)
                                           /\ Final(year + 1) = NthOrLast(among, number, days)
          BY <1>1, <1>2, NamedYearly, Zenon
        <4> HIDE DEF First, Final, number, days
        <4> QED BY <3>1, <4>1 DEF NthOrLast
      <3>7. \E e \in Int : last_day = {StartOf(e)} /\ YearOf(e) = year + 1
        <4>1. PICK e \in DaysOf(year + 1, of) : last_day = {StartOf(e)}
          BY <1>3, <3>3, LastDay
        <4>2. e \in Int /\ YearOf(e) = year + 1
          <5> HIDE DEF of
          <5> QED BY <1>3, <3>3, DaysOfYear
        <4> QED BY <4>1, <4>2
      <3> HIDE DEF Final, number, last_day, slipped, ends, days
      <3>8. CASE number > 0
        <4>1. number >= 0
          BY <3>4, <3>8
        <4>2. slipped = last_day
          BY <3>5, <4>1, Zenon
        <4>3. Final(year + 1) # {}
          BY <3>3, <3>6, <3>8, Zenon
        <4> QED BY <3>1, <3>7, <4>2, <4>3, Zenon
      <3>9. CASE ~(number > 0)
        BY <3>1, <3>4, <3>5, <3>6, <3>9
      <3> QED BY <3>8, <3>9
    <2> QED BY <2>1, <2>2
  <1> QED BY <1>2, <1>8, <1>9 DEF IsNextYear

\* On a day when the clock is not changed, the code compares times as it would days,
\* and counts the days between them.
LEMMA OrdinaryComparisons ==
    ASSUME NEW t \in Int, Ordinary(t), NEW s \in Int
    PROVE  /\ Midnight(t) + DayReach >= StartOf(s) <=> s <= LocalDay(t)
           /\ Midnight(t) <= StartOf(s) <=> LocalDay(t) <= s
           /\ (get_dst_shift(StartOf(s), Midnight(t)) + Midnight(t) - StartOf(s)) \div Day
                  = LocalDay(t) - s
  <1> DEFINE D == LocalDay(t)
             mid == Midnight(t)
             u == StartOf(s)
             reach == mid + DayReach
             at == s * Day
             dt == D * Day
  <1>1. /\ Hour \in Nat /\ Day \in Nat /\ 0 < Day /\ DayReach \in Nat /\ DayReach < Day
        /\ D \in Int /\ mid \in Int /\ u \in Int /\ reach \in Int
    <2>1. Hour \in Nat /\ Day \in Nat /\ 0 < Day /\ DayReach \in Nat /\ DayReach < Day
      BY Clock
    <2>2. D \in Int /\ mid \in Int /\ u \in Int
      BY DayOfTime, StartOfDay
    <2>3. reach \in Int
      <3> HIDE DEF mid
      <3> QED BY <2>1, <2>2
    <2> QED BY <2>1, <2>2, <2>3
  <1>2. StartOf(D) = mid
    BY OrdinaryStart
  <1>3. LocalDay(reach) = D
    <2>1. mid <= reach /\ reach < mid + Day
      <3> HIDE DEF mid
      <3> QED BY <1>1
    <2> HIDE DEF reach
    <2> QED BY <1>1, <2>1, OrdinaryDay
  <1>4. u <= reach <=> s <= D
    <2> HIDE DEF reach, D
    <2> QED BY <1>1, <1>3, FromStart
  <1>5. mid <= u <=> D <= s
    <2>1. LocalDay(u) = s
      BY MidnightOfStart
    <2>2. StartOf(D) <= u <=> D <= LocalDay(u)
      <3> HIDE DEF D, u
      <3> QED BY <1>1, FromStart
    <2> HIDE DEF D, u, mid
    <2> QED BY <1>2, <2>1, <2>2
  <1>6. Offset(mid) + mid = dt /\ Offset(u) + u = at
    <2>1. u + Offset(u) = at
      BY MidnightOfStart
    <2>2. StartOf(D) + Offset(StartOf(D)) = dt
      <3> HIDE DEF D
      <3> QED BY <1>1, MidnightOfStart
    <2>3. mid + Offset(mid) = dt
      <3> HIDE DEF D, mid, dt
      <3> QED BY <1>2, <2>2
    <2>4. Offset(mid) \in Int /\ Offset(u) \in Int
      <3> HIDE DEF mid, u
      <3> QED BY <1>1, DayOfTime
    <2> HIDE DEF mid, u, at, dt
    <2> QED BY <1>1, <2>1, <2>3, <2>4
  <1>7. get_dst_shift(u, mid) + mid - u = (D - s) * Day
    <2>1. get_dst_shift(u, mid) = Offset(mid) - Offset(u)
      BY DEF get_dst_shift
    <2>2. Offset(mid) \in Int /\ Offset(u) \in Int
      <3> HIDE DEF mid, u
      <3> QED BY <1>1, DayOfTime
    <2> DEFINE apart == (D - s) * Day
    <2>3. apart = dt - at /\ dt \in Int /\ at \in Int
      <3> HIDE DEF D
      <3> QED BY <1>1
    <2> HIDE DEF mid, u, at, dt, D, apart
    <2>4. get_dst_shift(u, mid) + mid - u = apart
      BY <1>1, <1>6, <2>1, <2>2, <2>3
    <2> QED BY <2>4 DEF apart
  <1>8. ((D - s) * Day) \div Day = D - s
    <2> DEFINE k == D - s
    <2>1. k \in Int
      <3> HIDE DEF D
      <3> QED BY <1>1
    <2> HIDE DEF k
    <2>2. (k * Day) \div Day = k
      BY <1>1, <2>1
    <2> QED BY <2>2 DEF k
  <1>9. mid + DayReach >= u <=> s <= D
    <2>1. reach >= u <=> u <= reach
      <3> HIDE DEF u, reach
      <3> QED BY <1>1
    <2> QED BY <1>4, <2>1
  <1> QED BY <1>5, <1>7, <1>8, <1>9

\* An exception matches on the days that it names when its end is in the same year.
LEMMA MatchNamedInYear ==
    ASSUME NEW t \in Int, Ordinary(t), NEW x \in Dateranges,
           Countable(x.type, x.start), Countable(x.type, x.end),
           \A start \in TimeOf(x.type, x.start, YearOf(LocalDay(t)), MonthOf(LocalDay(t))) :
               EndYear(x, start, YearOf(LocalDay(t)), MonthOf(LocalDay(t))) = YearOf(LocalDay(t))
    PROVE  NamesItsDays(x, t) /\ MissesItsEnd(x, t)
  <1> DEFINE D == LocalDay(t)
             year == YearOf(D)
             mon == MonthOf(D)
             mid == Midnight(t)
             S == TimeOf(x.type, x.start, year, mon)
             F == Starting(x.type, x.start, year, mon)
             T == Ending(x.type, x.end, year, mon)
             Match(start, end) ==
                 \/ x.skip <= 1 /\ InRange(mid, start, end)
                 \/ /\ x.skip > 1 /\ start <= t
                    /\ (get_dst_shift(start, mid) + mid - start) \div Day % x.skip = 0
                    /\ InRange(mid, mid, SkipEnd(x, end, mid))
             From(y, m) == Named(x.type, x.start, y, m, FALSE)
             To(y, m) == Named(x.type, x.end, y, m, x.type # "calendar date")
             Within(y, z, m) == \E s \in From(y, m), e \in To(z, m) : s <= D /\ D <= e
             Other(y, m) == Within(y, y + 1, m) \/ Within(y - 1, y, m)
             wraps == \E s \in F, e \in T : e < s
             single == x.skip > 1 /\ x.type = "calendar date" /\ SingleDay(x)
  <1>1. /\ x.type \in ToSet(Types) /\ x.start \in DateOf(x.type) /\ x.end \in DateOf(x.type)
        /\ x.skip \in Int /\ D \in Int /\ mid \in Int /\ DayReach \in Nat
    BY Daterange, DayOfTime, Clock
  <1>2. year \in Int /\ mon \in Months
    <2> HIDE DEF D
    <2> QED BY <1>1, InSomeMonth
  <1>3. AreStarts(S, F)
    <2> HIDE DEF year, mon
    <2> QED BY <1>1, <1>2, StartNamed
  <1>4. Matches(x, t) <=> \E start \in S : \E end \in EndTimes(x, start, year, mon) : Match(start, end)
    BY Zenon DEF Matches
  <1>5. InDays(x, D) <=> \/ \E s \in F, e \in T : s <= D /\ D <= e
                         \/ wraps /\ x.type \in Yearly /\ Other(year, mon)
                         \/ wraps /\ x.type \notin Yearly /\ \E s \in F, e \in T : s <= D \/ D <= e
                         \/ single /\ \E s \in F : s <= D
    <2> DEFINE Wraps(y, m) == \E s \in From(y, m), e \in To(y, m) : e < s
               InDaysOf(y, m) ==
                   \/ Within(y, y, m)
                   \/ Wraps(y, m) /\ x.type \in Yearly /\ Other(y, m)
                   \/ Wraps(y, m) /\ x.type \notin Yearly
                          /\ \E s \in From(y, m), e \in To(y, m) : s <= D \/ D <= e
                   \/ x.skip > 1 /\ x.type = "calendar date" /\ SingleDay(x)
                          /\ \E s \in From(y, m) : s <= D
    <2>1. InDays(x, D) <=> \E y \in {YearOf(D)}, m \in {MonthOf(D)} : InDaysOf(y, m)
      <3> HIDE DEF D
      <3> QED BY Zenon DEF InDays
    <2>2. InDays(x, D) <=> InDaysOf(year, mon)
      <3> HIDE DEF InDaysOf, D
      <3> QED BY <2>1
    <2>3. F = From(year, mon) /\ T = To(year, mon)
      BY DEF Starting, Ending
    <2> HIDE DEF From, To, F, T, Other, D, year, mon
    <2> QED BY <2>2, <2>3, Zenon
  <1>6. OnSkipDay(x, D) <=> (x.skip > 1 => \E s \in F : s <= D /\ (D - s) % x.skip = 0)
    BY Zenon DEF OnSkipDay, Starting
  <1>7. \A start \in S : EndYear(x, start, year, mon) = year
    OBVIOUS
  <1>10. /\ Starts(x, D) = F /\ Ends(x, D, x.type # "calendar date") = T
         /\ x.type \in Yearly => Ends(x, D, TRUE) = T
         /\ Ends(x, D, FALSE) = Starting(x.type, x.end, year, mon)
    <2>1. /\ Starts(x, D) = F /\ Ends(x, D, x.type # "calendar date") = T
          /\ Ends(x, D, FALSE) = Starting(x.type, x.end, year, mon)
      BY Zenon DEF Starts, Ends, Starting, Ending
    <2>2. x.type \in Yearly => (x.type # "calendar date") = TRUE
      BY DEF Yearly
    <2> QED BY <2>1, <2>2, Zenon
  <1>11. /\ AfterNewYear(x, D) <=> x.type \in Yearly /\ \E s \in F, e \in T : e < s /\ D <= e
         /\ AfterEnd(x, D) <=> \E s \in F, e \in T : s <= e /\ e < D
         /\ HasBegun(x, D) <=> \E s \in F : s <= D
         /\ AfterSlippedEnd(x, D) => x.type \in Yearly /\ Starting(x.type, x.end, year, mon) = {}
    <2> HIDE DEF D, F, T, year, mon
    <2>1. AfterNewYear(x, D) <=> x.type \in Yearly /\ \E s \in F, e \in T : e < s /\ D <= e
      BY <1>10, Zenon DEF AfterNewYear
    <2>2. AfterEnd(x, D) <=> \E s \in F, e \in T : s <= e /\ e < D
      BY <1>10, Zenon DEF AfterEnd
    <2>3. HasBegun(x, D) <=> \E s \in F : s <= D
      BY <1>10, Zenon DEF HasBegun
    <2>4. AfterSlippedEnd(x, D) => x.type \in Yearly /\ Starting(x.type, x.end, year, mon) = {}
      BY <1>10, Zenon DEF AfterSlippedEnd
    <2> QED BY <2>1, <2>2, <2>3, <2>4
  <1> HIDE DEF Match, Other
  <1>8. CASE S = {} /\ F = {}
    <2>1. ~Matches(x, t) /\ ~InDays(x, D)
      <3> HIDE DEF S, F, T, year, mon
      <3> QED BY <1>4, <1>5, <1>8, Zenon
    <2>2. ~AfterNewYear(x, D) /\ ~HasBegun(x, D) /\ ~AfterEnd(x, D)
      <3> HIDE DEF S, F, T, D, year, mon
      <3> QED BY <1>8, <1>11, Zenon
    <2> QED BY <2>1, <2>2, Zenon DEF NamesItsDays, MissesItsEnd
  <1>9. CASE \E s \in Int : S = {StartOf(s)} /\ F = {s}
    <2>1. PICK s \in Int : S = {StartOf(s)} /\ F = {s}
      BY <1>9
    <2> DEFINE start == StartOf(s)
               ends == EndTimes(x, start, year, mon)
    <2>2. start \in Int /\ EndYear(x, start, year, mon) = year
      <3> HIDE DEF S, year, mon
      <3> QED BY <1>7, <2>1, StartOfDay
    <2>3. AreStarts(ends, T) /\ (x.type \in Yearly => \E end \in ends : ~(end < start))
      <3> HIDE DEF start, year, mon
      <3> QED BY <1>2, <2>2, EndNamed
    <2>4. Matches(x, t) <=> \E end \in ends : Match(start, end)
      <3> HIDE DEF S, year, mon
      <3> QED BY <1>4, <2>1, Zenon
    <2>5. OnSkipDay(x, D) <=> (x.skip > 1 => s <= D /\ (D - s) % x.skip = 0)
      <3> HIDE DEF F, D
      <3> QED BY <1>6, <2>1
    <2>8. ~AfterSlippedEnd(x, D)
      <3>1. SUFFICES ASSUME AfterSlippedEnd(x, D) PROVE FALSE
        OBVIOUS
      <3> HIDE DEF S, F, T, D, start, ends, year, mon
      <3>2. x.type \in Yearly /\ Starting(x.type, x.end, year, mon) = {}
        BY <1>11, <3>1
      <3>3. AreStarts(TimeOf(x.type, x.end, year, mon), Starting(x.type, x.end, year, mon))
        BY <1>1, <1>2, StartNamed
      <3>4. TimeOf(x.type, x.end, year, mon) = {}
        BY <3>2, <3>3 DEF AreStarts
      <3>5. EndYear(x, start, year, mon) = year + 1
        BY <3>2, <3>4 DEF EndYear
      <3> QED BY <1>2, <2>2, <3>5
    <2>6. CASE ends = {} /\ T = {}
      <3>1. ~single
        <4>1. SUFFICES ASSUME single PROVE FALSE
          OBVIOUS
        <4>2. PICK days : NamedFrom(x.type, x.start, year, mon, days)
          BY NamedIn
        <4>3. x.start = x.end
          BY <4>1 DEF SingleDay
        <4>4. Ending(x.type, x.start, year, mon) = F
          BY <2>1, <4>2 DEF NamedFrom
        <4>5. T = F
          BY <4>3, <4>4
        <4> QED BY <2>1, <2>6, <4>5
      <3>2. ~Matches(x, t) /\ ~InDays(x, D)
        <4> HIDE DEF F, T, ends, single, start
        <4> QED BY <1>5, <2>4, <2>6, <3>1, Zenon
      <3>3. ~AfterNewYear(x, D) /\ ~AfterEnd(x, D)
        <4> HIDE DEF F, T, D, ends, single, start, year, mon
        <4> QED BY <1>11, <2>6, Zenon
      <3> QED BY <2>8, <3>2, <3>3, Zenon DEF NamesItsDays, MissesItsEnd
    <2>7. CASE \E e \in Int : ends = {StartOf(e)} /\ T = {e}
      <3>1. PICK e \in Int : ends = {StartOf(e)} /\ T = {e}
        BY <2>7
      <3> DEFINE end == StartOf(e)
                 apart == (get_dst_shift(start, mid) + mid - start) \div Day
                 last == SkipEnd(x, end, mid)
      <3>2. end \in Int
        BY StartOfDay
      <3>3. /\ mid + DayReach >= start <=> s <= D
            /\ mid <= end <=> D <= e
            /\ apart = D - s
        BY OrdinaryComparisons
      <3>4. start <= t <=> s <= D
        BY FromStart
      <3>5. start <= end <=> s <= e
        <4>1. LocalDay(end) = e
          BY MidnightOfStart
        <4> HIDE DEF end
        <4> QED BY <3>2, <4>1, FromStart
      <3>6. x.type \in Yearly => s <= e
        <4> HIDE DEF start, end, ends
        <4> QED BY <2>2, <2>3, <3>1, <3>2, <3>5 DEF end
      <3>7. InRange(mid, mid, last)
        <4>1. last \in Int
          BY <1>1, <3>2 DEF SkipEnd
        <4> HIDE DEF mid, last
        <4> QED BY <1>1, <4>1 DEF InRange
      <3>8. Matches(x, t) <=> Match(start, end)
        <4> HIDE DEF start, ends
        <4> QED BY <2>4, <3>1, Zenon
      <3>9. InRange(mid, start, end) <=> (s <= D /\ D <= e) \/ (e < s /\ (s <= D \/ D <= e))
        <4> HIDE DEF mid, start, end, D
        <4> QED BY <1>1, <2>2, <3>2, <3>3, <3>5 DEF InRange
      <3>10. Match(start, end) <=>
                 \/ x.skip <= 1 /\ ((s <= D /\ D <= e) \/ (e < s /\ (s <= D \/ D <= e)))
                 \/ x.skip > 1 /\ s <= D /\ (D - s) % x.skip = 0
        <4>1. Match(start, end) <=> \/ x.skip <= 1 /\ InRange(mid, start, end)
                                    \/ /\ x.skip > 1 /\ start <= t
                                       /\ apart % x.skip = 0
                                       /\ InRange(mid, mid, last)
          BY DEF Match
        <4> HIDE DEF mid, start, end, D, apart, last
        <4> QED BY <3>3, <3>4, <3>7, <3>9, <4>1, Zenon
      <3>11. InDays(x, D) <=> \/ s <= D /\ D <= e
                              \/ e < s /\ x.type \in Yearly /\ Other(year, mon)
                              \/ e < s /\ x.type \notin Yearly /\ (s <= D \/ D <= e)
                              \/ single /\ s <= D
        <4> HIDE DEF F, T, D, single
        <4> QED BY <1>5, <2>1, <3>1
      <3>12. ~(e < s /\ x.type \in Yearly)
        BY <3>6
      <3>13. single => x.skip > 1
        OBVIOUS
      <3>17. ~AfterNewYear(x, D) /\ (AfterEnd(x, D) <=> s <= e /\ e < D)
        <4> HIDE DEF F, T, D, year, mon
        <4> QED BY <1>11, <2>1, <3>1, <3>12
      <3>18. s <= D => (s <= D /\ D <= e) \/ e < s \/ (s <= e /\ e < D)
        <4>1. s \in Int /\ e \in Int /\ D \in Int
          BY <1>1
        <4> HIDE DEF D
        <4> QED BY <4>1
      <3> HIDE DEF D, start, end, single
      <3>14. x.skip <= 1 <=> ~(x.skip > 1)
        BY <1>1
      <3>15. CASE x.skip > 1
        <4>1. Matches(x, t) <=> OnSkipDay(x, D)
          BY <2>5, <3>8, <3>10, <3>14, <3>15, Zenon
        <4>2. OnSkipDay(x, D) => InDays(x, D) \/ AfterEnd(x, D)
          BY <2>5, <3>11, <3>12, <3>15, <3>17, <3>18, Zenon
        <4> QED BY <2>8, <3>15, <3>17, <4>1, <4>2, Zenon DEF D, NamesItsDays, MissesItsEnd
      <3>16. CASE ~(x.skip > 1)
        <4>1. Matches(x, t) <=> InDays(x, D) /\ OnSkipDay(x, D)
          BY <2>5, <3>8, <3>10, <3>11, <3>12, <3>13, <3>14, <3>16, Zenon
        <4> QED BY <2>8, <3>16, <3>17, <4>1, Zenon DEF D, NamesItsDays, MissesItsEnd
      <3> QED BY <3>15, <3>16
    <2> QED BY <2>3, <2>6, <2>7 DEF AreStarts
  <1> QED BY <1>3, <1>8, <1>9 DEF AreStarts

\* An end that is in the next year, of an exception at a time.
LEMMA NextYearParts ==
    ASSUME NEW t \in Int, NEW x \in Dateranges,
           Countable(x.type, x.end),
           NEW s \in Int,
           EndYear(x, StartOf(s), YearOf(LocalDay(t)), MonthOf(LocalDay(t))) # YearOf(LocalDay(t))
    PROVE  /\ LocalDay(t) \in Int /\ Midnight(t) \in Int /\ DayReach \in Nat /\ x.skip \in Int
           /\ StartOf(s) \in Int /\ x.end \in DateOf(x.type)
           /\ YearOf(LocalDay(t)) \in Int /\ MonthOf(LocalDay(t)) \in Months
           /\ IsNextYear(x, s, YearOf(LocalDay(t)), MonthOf(LocalDay(t)))
  <1>1. /\ LocalDay(t) \in Int /\ Midnight(t) \in Int /\ DayReach \in Nat /\ x.skip \in Int
        /\ StartOf(s) \in Int /\ x.end \in DateOf(x.type)
    BY Daterange, DayOfTime, Clock, StartOfDay
  <1>2. YearOf(LocalDay(t)) \in Int /\ MonthOf(LocalDay(t)) \in Months
    BY <1>1, InSomeMonth
  <1> QED BY <1>1, <1>2, EndNextYear

\* When the end of an exception is in the next year, the days from the start on match.
LEMMA MatchNextYear ==
    ASSUME NEW t \in Int, Ordinary(t), NEW x \in Dateranges,
           Countable(x.type, x.start), Countable(x.type, x.end),
           NEW s \in Int,
           TimeOf(x.type, x.start, YearOf(LocalDay(t)), MonthOf(LocalDay(t))) = {StartOf(s)},
           Starting(x.type, x.start, YearOf(LocalDay(t)), MonthOf(LocalDay(t))) = {s},
           EndYear(x, StartOf(s), YearOf(LocalDay(t)), MonthOf(LocalDay(t))) # YearOf(LocalDay(t))
    PROVE  /\ Matches(x, t) <=> HasBegun(x, LocalDay(t)) /\ OnSkipDay(x, LocalDay(t))
                                    /\ EndsNextYear(x, LocalDay(t))
           /\ HasBegun(x, LocalDay(t)) <=> s <= LocalDay(t)
           /\ EndsNextYear(x, LocalDay(t)) <=>
                  Ending(x.type, x.end, YearOf(LocalDay(t)) + 1, MonthOf(LocalDay(t))) # {}
  <1> DEFINE D == LocalDay(t)
             year == YearOf(D)
             mon == MonthOf(D)
             mid == Midnight(t)
             start == StartOf(s)
             ends == EndTimes(x, start, year, mon)
             From(y) == Starting(x.type, x.start, y, mon)
             To(y) == Ending(x.type, x.end, y, mon)
             First == Starting(x.type, x.end, year, mon)
             skips == x.skip > 1 => (D - s) % x.skip = 0
  <1>1. /\ D \in Int /\ mid \in Int /\ DayReach \in Nat /\ year \in Int /\ mon \in Months
        /\ x.skip \in Int /\ start \in Int /\ x.end \in DateOf(x.type)
    BY NextYearParts
  <1>2. /\ x.type \in Yearly
        /\ \/ ends = {} /\ To(year + 1) = {}
           \/ To(year + 1) # {} /\ \E e \in Int : ends = {StartOf(e)} /\ YearOf(e) = year + 1
        /\ \/ First = {} /\ (To(year) = {} \/ (To(year + 1) # {} /\ \E e \in Int : To(year) = {e}))
           \/ \E e \in Int : First = {e} /\ To(year) = {e} /\ e < s
    <2>1. IsNextYear(x, s, year, mon)
      BY NextYearParts, Zenon
    <2> QED BY <2>1 DEF IsNextYear
  <1>3. x.type # "calendar date"
    BY <1>2 DEF Yearly
  <1>4. From(year) = {s}
    OBVIOUS
  <1>8. OnSkipDay(x, D) <=> (x.skip > 1 => s <= D /\ (D - s) % x.skip = 0)
    <2>1. OnSkipDay(x, D) <=> (x.skip > 1 => \E f \in From(year) : f <= D /\ (D - f) % x.skip = 0)
      BY Zenon DEF OnSkipDay, Starting
    <2> HIDE DEF D, From, year
    <2> QED BY <1>4, <2>1
  <1>9. Matches(x, t) <=> s <= D /\ skips /\ ends # {}
    <2> DEFINE apart == (get_dst_shift(start, mid) + mid - start) \div Day
               Match(end) ==
                   \/ x.skip <= 1 /\ InRange(mid, start, end)
                   \/ /\ x.skip > 1 /\ start <= t /\ apart % x.skip = 0
                      /\ InRange(mid, mid, SkipEnd(x, end, mid))
    <2>1. Matches(x, t) <=> \E end \in ends : Match(end)
      <3> DEFINE From_ == TimeOf(x.type, x.start, year, mon)
                 Match_(from, end) ==
                     \/ x.skip <= 1 /\ InRange(mid, from, end)
                     \/ /\ x.skip > 1 /\ from <= t
                        /\ (get_dst_shift(from, mid) + mid - from) \div Day % x.skip = 0
                        /\ InRange(mid, mid, SkipEnd(x, end, mid))
      <3>1. Matches(x, t) <=> \E from \in From_ : \E end \in EndTimes(x, from, year, mon) :
                                  Match_(from, end)
        BY Zenon DEF Matches
      <3>2. From_ = {start}
        OBVIOUS
      <3>3. \A end : Match_(start, end) <=> Match(end)
        OBVIOUS
      <3> HIDE DEF From_, Match_, Match, year, mon
      <3> QED BY <3>1, <3>2, <3>3, Zenon
    <2>2. /\ mid + DayReach >= start <=> s <= D
          /\ apart = D - s
          /\ start <= t <=> s <= D
      BY OrdinaryComparisons, FromStart
    <2>3. ASSUME NEW later \in Int, YearOf(later) = year + 1
          PROVE  Match(StartOf(later)) <=> s <= D /\ skips
      <3> DEFINE end == StartOf(later)
      <3>1. D < later
        <4>1. YearOf(D) < YearOf(later)
          <5> HIDE DEF D
          <5> QED BY <1>1, <2>3
        <4> HIDE DEF D
        <4> QED BY <1>1, <4>1, EarlierYear
      <3>2. /\ end \in Int
            /\ mid <= end <=> D <= later
        BY StartOfDay, OrdinaryComparisons
      <3>3. mid <= end
        <4> HIDE DEF mid, end, D
        <4> QED BY <1>1, <3>1, <3>2
      <3>4. SkipEnd(x, end, mid) = end
        BY <1>3 DEF SkipEnd
      <3>5. s < later
        <4>1. YearOf(s) = year /\ year < year + 1
          <5>1. s \in Starting(x.type, x.start, year, mon) /\ x.start \in DateOf(x.type)
            BY Daterange
          <5> HIDE DEF year, mon
          <5> QED BY <1>1, <1>2, <5>1, NamedInYear
        <4> HIDE DEF year
        <4> QED BY <2>3, <4>1, EarlierYear
      <3>6. start <= end
        <4>1. LocalDay(end) = later /\ s <= later
          BY <3>5, MidnightOfStart
        <4> HIDE DEF end
        <4> QED BY <3>2, <4>1, FromStart
      <3>7. InRange(mid, start, end) <=> s <= D
        <4> HIDE DEF mid, start, end, D
        <4> QED BY <1>1, <2>2, <3>2, <3>3, <3>6 DEF InRange
      <3>8. InRange(mid, mid, end)
        <4> HIDE DEF mid, end
        <4> QED BY <1>1, <3>2, <3>3 DEF InRange
      <3>9. x.skip <= 1 <=> ~(x.skip > 1)
        BY <1>1
      <3> HIDE DEF mid, start, end, D, apart
      <3> QED BY <2>2, <3>4, <3>7, <3>8, <3>9, Zenon DEF end
    <2> HIDE DEF D, ends, To, year, Match, skips
    <2> QED BY <1>2, <2>1, <2>3, Zenon
  <1>10. ends # {} <=> To(year + 1) # {}
    <2> HIDE DEF ends, To, year
    <2> QED BY <1>2
  <1>5. HasBegun(x, D) <=> s <= D
    <2>1. HasBegun(x, D) <=> \E f \in From(year) : f <= D
      BY Zenon DEF HasBegun, Starts, Starting
    <2> HIDE DEF D, From, year
    <2> QED BY <1>4, <2>1
  <1>6. EndsNextYear(x, D) <=> To(year + 1) # {}
    <2>1. (x.type # "calendar date") = TRUE
      BY <1>3
    <2> QED BY <2>1, Zenon DEF EndsNextYear, Ending
  <1> HIDE DEF ends, To
  <1>7. Matches(x, t) <=> HasBegun(x, D) /\ OnSkipDay(x, D) /\ EndsNextYear(x, D)
    <2> HIDE DEF D, year
    <2> QED BY <1>5, <1>6, <1>8, <1>9, <1>10, Zenon DEF D
  <1> QED BY <1>5, <1>6, <1>7, Zenon DEF To

\* So the days after an end that this year has, or has not, do as well.
LEMMA MissedNextYear ==
    ASSUME NEW t \in Int, Ordinary(t), NEW x \in Dateranges,
           Countable(x.type, x.start), Countable(x.type, x.end),
           NEW s \in Int,
           TimeOf(x.type, x.start, YearOf(LocalDay(t)), MonthOf(LocalDay(t))) = {StartOf(s)},
           Starting(x.type, x.start, YearOf(LocalDay(t)), MonthOf(LocalDay(t))) = {s},
           EndYear(x, StartOf(s), YearOf(LocalDay(t)), MonthOf(LocalDay(t))) # YearOf(LocalDay(t))
    PROVE  MissesItsEnd(x, t)
  <1> DEFINE D == LocalDay(t)
             year == YearOf(D)
             mon == MonthOf(D)
             mid == Midnight(t)
             start == StartOf(s)
             ends == EndTimes(x, start, year, mon)
             From(y) == Starting(x.type, x.start, y, mon)
             To(y) == Ending(x.type, x.end, y, mon)
             First == Starting(x.type, x.end, year, mon)
  <1>1. /\ D \in Int /\ mid \in Int /\ DayReach \in Nat /\ year \in Int /\ mon \in Months
        /\ x.skip \in Int /\ start \in Int /\ x.end \in DateOf(x.type)
    BY NextYearParts
  <1>2. /\ x.type \in Yearly
        /\ \/ ends = {} /\ To(year + 1) = {}
           \/ To(year + 1) # {} /\ \E e \in Int : ends = {StartOf(e)} /\ YearOf(e) = year + 1
        /\ \/ First = {} /\ (To(year) = {} \/ (To(year + 1) # {} /\ \E e \in Int : To(year) = {e}))
           \/ \E e \in Int : First = {e} /\ To(year) = {e} /\ e < s
    <2>1. IsNextYear(x, s, year, mon)
      BY NextYearParts, Zenon
    <2> QED BY <2>1 DEF IsNextYear
  <1>3. x.type # "calendar date"
    BY <1>2 DEF Yearly
  <1>4. From(year) = {s}
    OBVIOUS
  <1>5. /\ Matches(x, t) <=> HasBegun(x, D) /\ OnSkipDay(x, D) /\ EndsNextYear(x, D)
        /\ HasBegun(x, D) <=> s <= D
        /\ EndsNextYear(x, D) <=> To(year + 1) # {}
    BY MatchNextYear, Zenon
  <1>6. /\ Starts(x, D) = {s} /\ Ends(x, D, TRUE) = To(year)
        /\ Ends(x, D, x.type # "calendar date") = To(year)
    BY <1>3, Zenon DEF Starts, Ends, Starting, Ending
  <1>7. AfterNewYear(x, D) => ~(s <= D)
    <2> HIDE DEF D, To, year
    <2>1. \A e \in To(year) : e \in Int
      BY <1>2
    <2>2. AfterNewYear(x, D) => \E e \in To(year) : e < s /\ D <= e
      BY <1>6 DEF AfterNewYear
    <2> QED BY <1>1, <2>1, <2>2
  <1>8. AfterEnd(x, D) => HasBegun(x, D) /\ EndsNextYear(x, D)
    <2> HIDE DEF D, To, year
    <2>1. AfterEnd(x, D) => \E e \in To(year) : s <= e /\ e < D
      BY <1>6 DEF AfterEnd
    <2>2. ASSUME NEW e \in To(year), s <= e, e < D PROVE s <= D /\ To(year + 1) # {}
      <3>1. e \in Int /\ (To(year + 1) # {} \/ e < s)
        BY <1>2, <2>2
      <3> QED BY <1>1, <2>2, <3>1
    <2> QED BY <1>5, <2>1, <2>2
  <1> HIDE DEF D, To, year
  <1> QED BY <1>5, <1>7, <1>8, Zenon DEF MissesItsEnd, D

\* So it does when its end is in the next year, before new year and unless the end of
\* this year slipped and is over.
LEMMA MatchNamedNextYear ==
    ASSUME NEW t \in Int, Ordinary(t), NEW x \in Dateranges,
           Countable(x.type, x.start), Countable(x.type, x.end),
           NEW s \in Int,
           TimeOf(x.type, x.start, YearOf(LocalDay(t)), MonthOf(LocalDay(t))) = {StartOf(s)},
           Starting(x.type, x.start, YearOf(LocalDay(t)), MonthOf(LocalDay(t))) = {s},
           EndYear(x, StartOf(s), YearOf(LocalDay(t)), MonthOf(LocalDay(t))) # YearOf(LocalDay(t)),
           ~AfterNewYear(x, LocalDay(t)), ~AfterSlippedEnd(x, LocalDay(t))
    PROVE  Matches(x, t) <=> InDays(x, LocalDay(t)) /\ OnSkipDay(x, LocalDay(t))
  <1> DEFINE D == LocalDay(t)
             year == YearOf(D)
             mon == MonthOf(D)
             mid == Midnight(t)
             start == StartOf(s)
             ends == EndTimes(x, start, year, mon)
             From(y) == Starting(x.type, x.start, y, mon)
             To(y) == Ending(x.type, x.end, y, mon)
             First == Starting(x.type, x.end, year, mon)
             Within(y, z) == \E f \in From(y), e \in To(z) : f <= D /\ D <= e
  <1>1. /\ D \in Int /\ mid \in Int /\ DayReach \in Nat /\ year \in Int /\ mon \in Months
        /\ x.skip \in Int /\ start \in Int /\ x.end \in DateOf(x.type)
    BY NextYearParts
  <1>2. /\ x.type \in Yearly
        /\ \/ ends = {} /\ To(year + 1) = {}
           \/ To(year + 1) # {} /\ \E e \in Int : ends = {StartOf(e)} /\ YearOf(e) = year + 1
        /\ \/ First = {} /\ (To(year) = {} \/ (To(year + 1) # {} /\ \E e \in Int : To(year) = {e}))
           \/ \E e \in Int : First = {e} /\ To(year) = {e} /\ e < s
    <2>1. IsNextYear(x, s, year, mon)
      BY NextYearParts, Zenon
    <2> QED BY <2>1 DEF IsNextYear
  <1>3. x.type # "calendar date"
    BY <1>2 DEF Yearly
  <1>4. From(year) = {s}
    OBVIOUS
  <1>5. PICK e \in Int : /\ To(year) = {e}
                         /\ \/ e < s /\ e < D
                            \/ s <= e /\ D <= e /\ To(year + 1) # {}
    <2>1. /\ Starts(x, D) = {s} /\ Ends(x, D, TRUE) = To(year) /\ Ends(x, D, FALSE) = First
      BY <1>3, Zenon DEF Starts, Ends, Starting, Ending
    <2>2. \A f \in To(year) : ~(f < s /\ D <= f)
      <3> HIDE DEF D, To, year
      <3> QED BY <1>2, <2>1 DEF AfterNewYear, D
    <2>3. First = {} => \E f \in To(year) : ~(s <= f /\ f < D)
      <3> HIDE DEF D, To, year, First
      <3> QED BY <1>2, <2>1 DEF AfterSlippedEnd, D
    <2> HIDE DEF D, To, year, First
    <2>4. CASE First = {} /\ To(year + 1) # {} /\ \E f \in Int : To(year) = {f}
      BY <1>1, <2>2, <2>3, <2>4
    <2>5. CASE \E f \in Int : To(year) = {f} /\ f < s
      BY <1>1, <2>2, <2>5
    <2> QED BY <1>2, <2>3, <2>4, <2>5
  <1>6. \A f \in To(year + 1) : f \in Int /\ D < f
    <2>1. \A f \in To(year + 1) : f \in Int /\ YearOf(f) = year + 1
      <3>1. year + 1 \in Int
        BY <1>1
      <3> HIDE DEF year, mon
      <3> QED BY <1>1, <1>2, <3>1, NamedInYear
    <2>2. \A f \in To(year + 1) : YearOf(D) < YearOf(f)
      <3> HIDE DEF D, To
      <3> QED BY <1>1, <2>1
    <2> HIDE DEF D, To, year
    <2> QED BY <1>1, <2>1, <2>2, EarlierYear
  <1>7. InDays(x, D) <=> s <= D /\ To(year + 1) # {}
    <2> DEFINE Wraps == \E f \in From(year), g \in To(year) : g < f
    <2>1. InDays(x, D) <=> \/ Within(year, year)
                           \/ Wraps /\ (Within(year, year + 1) \/ Within(year - 1, year))
      <3> DEFINE From_(y, m) == Named(x.type, x.start, y, m, FALSE)
                 To_(y, m) == Named(x.type, x.end, y, m, x.type # "calendar date")
                 Within_(y, z, m) == \E f \in From_(y, m), e_ \in To_(z, m) : f <= D /\ D <= e_
                 Wraps_(y, m) == \E f \in From_(y, m), g \in To_(y, m) : g < f
                 InDaysOf(y, m) ==
                     \/ Within_(y, y, m)
                     \/ Wraps_(y, m) /\ x.type \in Yearly
                            /\ (Within_(y, y + 1, m) \/ Within_(y - 1, y, m))
                     \/ Wraps_(y, m) /\ x.type \notin Yearly
                            /\ \E f \in From_(y, m), g \in To_(y, m) : f <= D \/ D <= g
                     \/ x.skip > 1 /\ x.type = "calendar date" /\ SingleDay(x)
                            /\ \E f \in From_(y, m) : f <= D
      <3>1. InDays(x, D) <=> \E y \in {YearOf(D)}, m \in {MonthOf(D)} : InDaysOf(y, m)
        <4> HIDE DEF D
        <4> QED BY Zenon DEF InDays
      <3>2. InDays(x, D) <=> InDaysOf(year, mon)
        <4> HIDE DEF InDaysOf, D
        <4> QED BY <3>1
      <3>3. InDaysOf(year, mon) <=> \/ Within_(year, year, mon)
                                    \/ /\ Wraps_(year, mon)
                                       /\ \/ Within_(year, year + 1, mon)
                                          \/ Within_(year - 1, year, mon)
        <4> HIDE DEF Within_, Wraps_, year, mon
        <4> QED BY <1>2, <1>3
      <3>4. /\ \A y, z \in Int : Within_(y, z, mon) <=> Within(y, z)
            /\ Wraps_(year, mon) <=> Wraps
        <4> HIDE DEF D, mon
        <4> QED BY Zenon DEF Starting, Ending
      <3>5. year - 1 \in Int /\ year + 1 \in Int
        BY <1>1
      <3> HIDE DEF D, year, mon, Within, Within_, Wraps, Wraps_, InDaysOf
      <3> QED BY <1>1, <3>2, <3>3, <3>4, <3>5, Zenon DEF D
    <2>2. Within(year, year) <=> s <= D /\ D <= e
      <3> HIDE DEF D, To, From, year
      <3> QED BY <1>5, <1>4
    <2>3. Within(year, year + 1) <=> s <= D /\ To(year + 1) # {}
      <3>1. \A f \in To(year + 1) : D <= f
        <4> HIDE DEF D, To, year
        <4> QED BY <1>1, <1>6
      <3> HIDE DEF D, To, From, year
      <3> QED BY <1>4, <3>1, Zenon
    <2>4. Within(year - 1, year) => D <= e
      <3> HIDE DEF D, To, From, year
      <3> QED BY <1>5
    <2>5. Wraps <=> e < s
      <3> HIDE DEF D, To, From, year
      <3> QED BY <1>5, <1>4
    <2> HIDE DEF D, To, From, year, Within, Wraps
    <2>6. CASE e < s /\ e < D
      <3>1. ~(D <= e)
        BY <1>1, <2>6
      <3> QED BY <2>1, <2>2, <2>3, <2>4, <2>5, <2>6, <3>1, Zenon DEF D
    <2>7. CASE s <= e /\ D <= e /\ To(year + 1) # {}
      <3>1. ~(e < s)
        BY <1>1, <2>7
      <3> QED BY <2>1, <2>2, <2>3, <2>4, <2>5, <2>7, <3>1, Zenon DEF D
    <2> QED BY <1>5, <2>6, <2>7
  <1>8. /\ Matches(x, t) <=> HasBegun(x, D) /\ OnSkipDay(x, D) /\ EndsNextYear(x, D)
        /\ HasBegun(x, D) <=> s <= D
        /\ EndsNextYear(x, D) <=> To(year + 1) # {}
    BY MatchNextYear, Zenon
  <1> HIDE DEF D, To, year
  <1> QED BY <1>7, <1>8, Zenon DEF D

\* An exception matches on the days that it names, but after the ends it misses.
LEMMA MatchNamed ==
    ASSUME NEW t \in Int, Ordinary(t), NEW x \in Dateranges,
           Countable(x.type, x.start), Countable(x.type, x.end)
    PROVE  NamesItsDays(x, t) /\ MissesItsEnd(x, t)
  <1> DEFINE year == YearOf(LocalDay(t))
             mon == MonthOf(LocalDay(t))
             S == TimeOf(x.type, x.start, year, mon)
             F == Starting(x.type, x.start, year, mon)
  <1>1. CASE \A start \in S : EndYear(x, start, year, mon) = year
    BY <1>1, MatchNamedInYear, Zenon
  <1>2. CASE \E start \in S : EndYear(x, start, year, mon) # year
    <2>1. x.type \in ToSet(Types) /\ x.start \in DateOf(x.type) /\ year \in Int /\ mon \in Months
      BY Daterange, DayOfTime, InSomeMonth
    <2>2. AreStarts(S, F)
      <3> HIDE DEF year, mon
      <3> QED BY <2>1, StartNamed
    <2>3. PICK s \in Int : S = {StartOf(s)} /\ F = {s}
      <3> HIDE DEF S, F, year, mon
      <3> QED BY <1>2, <2>2 DEF AreStarts
    <2>4. EndYear(x, StartOf(s), year, mon) # year
      <3> HIDE DEF S, year, mon
      <3> QED BY <1>2, <2>3
    <2>5. MissesItsEnd(x, t)
      BY <2>3, <2>4, MissedNextYear, Zenon
    <2>6. \/ AfterNewYear(x, LocalDay(t)) \/ AfterSlippedEnd(x, LocalDay(t))
          \/ Matches(x, t) <=> InDays(x, LocalDay(t)) /\ OnSkipDay(x, LocalDay(t))
      BY <2>3, <2>4, MatchNamedNextYear, Zenon
    <2> QED BY <2>5, <2>6, Zenon DEF NamesItsDays
  <1> QED BY <1>1, <1>2, Zenon

-----------------------------------------------------------------------------
\* Ranges.

LEMMA PeriodParts ==
    ASSUME NEW tp \in Periods
    PROVE  /\ timeperiod[tp].days \in [0..6 -> Seq(Timeranges)]
           /\ timeperiod[tp].exceptions \in Seq(Dateranges)
           /\ Exclusions(tp) \in Seq(Periods)
  BY PeriodsAssumption DEF Exclusions

LEMMA MatchingRanges ==
    ASSUME NEW t \in Int, NEW tp \in Periods
    PROVE  /\ matching_timerange(t, tp) \in Seq(Timeranges)
           /\ matching_timerange(t, tp) \in
                 {timeperiod[tp].days[w] : w \in 0..6}
                     \cup {x.times : x \in ToSet(timeperiod[tp].exceptions)}
  <1> DEFINE exceptions == timeperiod[tp].exceptions
             M == {i \in DOMAIN exceptions : Matches(exceptions[i], t)}
  <1>1. exceptions \in Seq(Dateranges) /\ timeperiod[tp].days \in [0..6 -> Seq(Timeranges)]
    BY PeriodParts
  <1>2. CASE M = {}
    <2>1. matching_timerange(t, tp) = timeperiod[tp].days[WeekDayOf(LocalDay(t))]
      BY <1>2 DEF matching_timerange
    <2>2. WeekDayOf(LocalDay(t)) \in 0..6
      <3> DEFINE D == LocalDay(t)
      <3>1. D \in Int
        BY DayOfTime
      <3> HIDE DEF D
      <3>2. D % 7 \in 0..6
        BY <3>1
      <3> QED BY <3>2 DEF D, WeekDayOf
    <2> QED BY <1>1, <2>1, <2>2
  <1>3. CASE M # {}
    <2>1. matching_timerange(t, tp) = exceptions[Min(M)].times
      BY <1>3 DEF matching_timerange
    <2>2. M \in SUBSET Nat
      <3>1. DOMAIN exceptions = 1..Len(exceptions) /\ Len(exceptions) \in Nat
        BY <1>1, LenProperties
      <3> HIDE DEF exceptions
      <3> QED BY <3>1
    <2>3. Min(M) \in M
      <3> HIDE DEF M
      <3>1. PICK m \in M : \A k \in M : m <= k
        BY <1>3, <2>2, Least
      <3> QED BY <3>1 DEF Min
    <2>4. Min(M) \in DOMAIN exceptions
      BY <2>3
    <2>5. exceptions[Min(M)] \in Dateranges /\ exceptions[Min(M)] \in ToSet(exceptions)
      <3> HIDE DEF M, exceptions
      <3>1. DOMAIN exceptions = 1..Len(exceptions)
        BY <1>1
      <3> QED BY <1>1, <2>4, <3>1, ElementOfSeq DEF ToSet
    <2> HIDE DEF M
    <2> QED BY <2>1, <2>5, Daterange
  <1> QED BY <1>2, <1>3

LEMMA RangesTyped ==
    ASSUME NEW t \in Int, NEW tp \in Periods
    PROVE  /\ Ranges(t, tp) \subseteq Timeranges /\ RangesLeft(t, tp) \subseteq Ranges(t, tp)
           /\ ToSet(matching_timerange(t, tp)) \subseteq Timeranges
           /\ \A r \in Timeranges : r.start \in Nat /\ r.end \in Nat /\ r.start <= Day /\ r.end <= Day
  <1>1. ToSet(matching_timerange(t, tp)) \subseteq Timeranges
    <2>1. matching_timerange(t, tp) \in Seq(Timeranges)
      BY MatchingRanges
    <2> QED BY <2>1 DEF ToSet
  <1>2. \A r \in Timeranges : r.start \in Nat /\ r.end \in Nat /\ r.start <= Day /\ r.end <= Day
    BY Clock DEF Timeranges
  <1> QED BY <1>1, <1>2 DEF Ranges, RangesLeft

\* In such a span the ranges are the same.
LEMMA SameRanges ==
    ASSUME NEW t \in Int, NEW u \in Int, t <= u, SameSpan(t, u), LocalDay(t) # LocalDay(DstStart),
           NEW tp \in Periods
    PROVE  /\ matching_timerange(u, tp) = matching_timerange(t, tp)
           /\ Ranges(u, tp) = Ranges(t, tp)
  <1> DEFINE exceptions == timeperiod[tp].exceptions
             M(v) == {i \in DOMAIN exceptions : Matches(exceptions[i], v)}
  <1>1. ASSUME NEW i \in DOMAIN exceptions PROVE exceptions[i] \in Dateranges
    BY PeriodParts
  <1>2. M(u) = M(t)
    BY <1>1, SameMatch
  <1>3. LocalDay(u) = LocalDay(t)
    BY DEF SameSpan
  <1>4. matching_timerange(u, tp) = matching_timerange(t, tp)
    BY <1>2, <1>3, Zenon DEF matching_timerange
  <1> QED BY <1>4 DEF Ranges

\* The least of a set of integers that are not below some bound.
LEMMA LeastOf ==
    ASSUME NEW T \in SUBSET Int, T # {}, NEW b \in Int, \A k \in T : b <= k
    PROVE  Min(T) \in T /\ \A k \in T : Min(T) <= k
  <1> DEFINE U == {n \in Nat : n + b \in T}
  <1>1. U \in SUBSET Nat /\ U # {}
    <2>1. PICK k \in T : TRUE
      OBVIOUS
    <2>2. k - b \in Nat /\ (k - b) + b = k
      BY <2>1
    <2>3. k - b \in U
      BY <2>2
    <2> QED BY <2>3
  <1>2. PICK m \in U : \A n \in U : m <= n
    <2> HIDE DEF U
    <2> QED BY <1>1, Least
  <1>3. m \in Nat /\ m + b \in T
    BY <1>2
  <1>4. ASSUME NEW k \in T PROVE m + b <= k
    <2>1. k - b \in Nat /\ (k - b) + b = k
      OBVIOUS
    <2>2. k - b \in U
      BY <2>1
    <2>3. m <= k - b
      BY <1>2, <2>2
    <2> QED BY <1>3, <2>1, <2>3
  <1> QED BY <1>3, <1>4 DEF Min

\* What is left of a day begins with a range that is now, or the next.
LEMMA EarliestIs ==
    ASSUME NEW t \in Nat, NEW tp \in Periods, RangesLeft(t, tp) # {}
    PROVE  /\ EarliestOfDay(t, tp) \in Nat /\ t <= EarliestOfDay(t, tp)
           /\ \E r \in RangesLeft(t, tp) :
                 /\ Midnight(t) + r.start <= EarliestOfDay(t, tp)
                 /\ t < EarliestOfDay(t, tp) => EarliestOfDay(t, tp) = Midnight(t) + r.start
                 /\ \A q \in RangesLeft(t, tp) : Midnight(t) + r.start <= Midnight(t) + q.start
  <1> DEFINE m == Midnight(t)
             S == {m + r.start : r \in RangesLeft(t, tp)}
  <1>1. m \in Int
    BY DayOfTime
  <1>2. \A r \in RangesLeft(t, tp) : r.start \in Nat
    BY RangesTyped
  <1>3. S \in SUBSET Int /\ S # {} /\ \A k \in S : m <= k
    <2> HIDE DEF m
    <2> QED BY <1>1, <1>2
  <1>4. Min(S) \in S /\ \A k \in S : Min(S) <= k
    <2> HIDE DEF S
    <2> QED BY <1>1, <1>3, LeastOf
  <1>5. PICK r \in RangesLeft(t, tp) : Min(S) = m + r.start
    <2>1. \A s \in S : \E r \in RangesLeft(t, tp) : s = m + r.start
      OBVIOUS
    <2> HIDE DEF S
    <2> QED BY <1>4, <2>1
  <1>6. EarliestOfDay(t, tp) = Max({t, Min(S)})
    BY DEF EarliestOfDay
  <1>7. \A q \in RangesLeft(t, tp) : m + r.start <= m + q.start
    <2>1. \A q \in RangesLeft(t, tp) : m + q.start \in S
      OBVIOUS
    <2> HIDE DEF S
    <2> QED BY <1>4, <1>5, <2>1
  <1>8. m + r.start \in Int
    BY <1>1, <1>2
  <1> HIDE DEF m, S
  <1>9. Max({t, m + r.start}) = IF t >= m + r.start THEN t ELSE m + r.start
    <2> DEFINE k == m + r.start
    <2>1. k \in Int
      BY <1>8
    <2> HIDE DEF k
    <2> QED BY <2>1 DEF Max
  <1>10. EarliestOfDay(t, tp) = IF t >= m + r.start THEN t ELSE m + r.start
    BY <1>5, <1>6, <1>9
  <1>11. /\ EarliestOfDay(t, tp) \in Nat /\ t <= EarliestOfDay(t, tp)
         /\ m + r.start <= EarliestOfDay(t, tp)
         /\ t < EarliestOfDay(t, tp) => EarliestOfDay(t, tp) = m + r.start
    BY <1>8, <1>10
  <1> QED BY <1>7, <1>11 DEF m

\* Each range is passed in turn.
LEMMA PastIs ==
    ASSUME NEW t \in Nat, NEW tp \in Periods
    PROVE  \E past \in [0..Len(matching_timerange(t, tp)) -> Nat] :
              /\ past[0] = t /\ PastRanges(t, tp) = past[Len(matching_timerange(t, tp))]
              /\ \A i \in 1..Len(matching_timerange(t, tp)) :
                    past[i] = PastRange(past[i - 1], matching_timerange(t, tp)[i], Midnight(t))
  <1> DEFINE ranges == matching_timerange(t, tp)
             N == Len(ranges)
             m == Midnight(t)
             Of(v, i) == PastRange(v, ranges[i], m)
             Eq(f) == f = [i \in 0..N |-> IF i = 0 THEN t ELSE Of(f[i - 1], i)]
             step == [i \in 1..N |-> [v \in Nat |-> Of(v, i)]]
             past == CHOOSE f : Eq(f)
  <1>1. N \in Nat /\ \A i \in 1..N : ranges[i] \in Timeranges
    <2>1. ranges \in Seq(Timeranges)
      BY MatchingRanges
    <2> HIDE DEF ranges
    <2> QED BY <2>1, LenProperties, ElementOfSeq
  <1>2. m \in Int
    BY DayOfTime
  <1>3. ASSUME NEW v \in Nat, NEW i \in 1..N PROVE Of(v, i) \in Nat
    <2>1. ranges[i].start \in Nat /\ ranges[i].end \in Nat /\ Minute \in Nat
      BY <1>1, RangesTyped, Clock
    <2> HIDE DEF m, ranges
    <2>2. m + ranges[i].end > v => m + ranges[i].end + Minute \in Nat
      BY <1>2, <2>1
    <2> QED BY <2>2 DEF PastRange
  <1>4. PICK f \in [0..N -> Nat] : f[0] = t /\ \A i \in 1..N : f[i] = step[i][f[i - 1]]
    <2>1. step \in [1..N -> [Nat -> Nat]]
      <3> HIDE DEF Of, N
      <3> QED BY <1>3
    <2> DEFINE V == Nat
               first == t
    <2>2. N \in Nat
      BY <1>1
    <2>3. first \in V
      OBVIOUS
    <2>4. step \in [1..N -> [V -> V]]
      BY <2>1
    <2> HIDE DEF step, N, V, first
    <2>5. \E f \in [0..N -> V] : f[0] = first /\ \A n \in 1..N : f[n] = step[n][f[n - 1]]
      BY <2>2, <2>3, <2>4, LoopExists
    <2> QED BY <2>5 DEF V, first
  <1>5. \A i \in 1..N : f[i] = Of(f[i - 1], i)
    <2>1. \A i \in 1..N : i - 1 \in 0..N /\ f[i - 1] \in Nat
      <3> HIDE DEF N, step
      <3> QED BY <1>1, <1>4
    <2>2. \A i \in 1..N, v \in Nat : step[i][v] = Of(v, i)
      <3> HIDE DEF N, Of
      <3> QED OBVIOUS
    <2> HIDE DEF step, Of, N
    <2> QED BY <1>4, <2>1, <2>2
  <1>6. Eq(f)
    <2> HIDE DEF step, Of, N
    <2> QED BY <1>1, <1>4, <1>5
  <1>7. Eq(past)
    <2> HIDE DEF Eq
    <2> QED BY <1>6
  <1>8. PastRanges(t, tp) = past[N]
    BY DEF PastRanges
  <1>9. past = [i \in 0..N |-> IF i = 0 THEN t ELSE Of(past[i - 1], i)]
    BY <1>7
  <1> HIDE DEF past
  <1>10. past[0] = t /\ \A i \in 1..N : past[i] = Of(past[i - 1], i)
    <2>1. 0 \in 0..N /\ \A i \in 1..N : i \in 0..N /\ i # 0
      BY <1>1
    <2> HIDE DEF Of, N
    <2> QED BY <1>9, <2>1
  <1> DEFINE G == {i \in 0..N : past[i] \in Nat}
  <1>11. G \in SUBSET (0..N) /\ 0 \in G /\ \A i \in 1..N : i - 1 \in G => i \in G
    <2> HIDE DEF Of, N
    <2>1. 0 \in G
      BY <1>1, <1>10
    <2>2. ASSUME NEW i \in 1..N, i - 1 \in G PROVE i \in G
      <3>1. past[i - 1] \in Nat /\ i \in 0..N
        BY <1>1, <2>2
      <3>2. past[i] \in Nat
        BY <1>3, <1>10, <3>1
      <3> QED BY <3>1, <3>2
    <2> QED BY <2>1, <2>2
  <1>12. \A i \in 0..N : past[i] \in Nat
    <2>1. \A i \in 0..N : i \in G
      <3> HIDE DEF G, N
      <3> QED BY <1>1, <1>11, Induction
    <2> QED BY <2>1
  <1>13. past \in [0..N -> Nat]
    <2> HIDE DEF Of, N
    <2> QED BY <1>9, <1>12
  <1> QED BY <1>8, <1>10, <1>13

\* Times for times and periods.
TimesOf == [Periods -> [Nat -> Nat]]

\* Each exclusion moves the time on.
LEMMA AfterIs ==
    ASSUME NEW invalid \in TimesOf, NEW e \in Nat, NEW tp \in Periods
    PROVE  \E after \in [0..Len(Exclusions(tp)) -> Nat] :
              /\ after[0] = e /\ AfterExclusions(invalid, e, tp) = after[Len(Exclusions(tp))]
              /\ \A i \in 1..Len(Exclusions(tp)) :
                    after[i] = invalid[Exclusions(tp)[i]][after[i - 1]]
  <1> DEFINE list == Exclusions(tp)
             N == Len(list)
             Of(v, i) == invalid[list[i]][v]
             Eq(f) == f = [i \in 0..N |-> IF i = 0 THEN e ELSE Of(f[i - 1], i)]
             step == [i \in 1..N |-> [v \in Nat |-> Of(v, i)]]
             after == CHOOSE f : Eq(f)
  <1>1. N \in Nat /\ \A i \in 1..N : list[i] \in Periods
    <2>1. list \in Seq(Periods)
      BY PeriodParts
    <2> HIDE DEF list
    <2> QED BY <2>1, LenProperties, ElementOfSeq
  <1>2. ASSUME NEW v \in Nat, NEW i \in 1..N PROVE Of(v, i) \in Nat
    <2> HIDE DEF list
    <2> QED BY <1>1 DEF TimesOf
  <1>3. PICK f \in [0..N -> Nat] : f[0] = e /\ \A i \in 1..N : f[i] = step[i][f[i - 1]]
    <2> DEFINE V == Nat
               first == e
    <2>1. N \in Nat
      BY <1>1
    <2>2. first \in V
      OBVIOUS
    <2>3. step \in [1..N -> [V -> V]]
      <3> HIDE DEF Of, N
      <3> QED BY <1>2
    <2> HIDE DEF step, N, V, first
    <2>4. \E f \in [0..N -> V] : f[0] = first /\ \A n \in 1..N : f[n] = step[n][f[n - 1]]
      BY <2>1, <2>2, <2>3, LoopExists
    <2> QED BY <2>4 DEF V, first
  <1>4. \A i \in 1..N : f[i] = Of(f[i - 1], i)
    <2>1. \A i \in 1..N : i - 1 \in 0..N /\ f[i - 1] \in Nat
      <3> HIDE DEF N, step
      <3> QED BY <1>1, <1>3
    <2>2. \A i \in 1..N, v \in Nat : step[i][v] = Of(v, i)
      <3> HIDE DEF N, Of
      <3> QED OBVIOUS
    <2> HIDE DEF step, Of, N
    <2> QED BY <1>3, <2>1, <2>2
  <1>5. Eq(f)
    <2> HIDE DEF step, Of, N
    <2> QED BY <1>1, <1>3, <1>4
  <1>6. Eq(after)
    <2> HIDE DEF Eq
    <2> QED BY <1>5
  <1>7. AfterExclusions(invalid, e, tp) = after[N]
    BY Zenon DEF AfterExclusions
  <1>8. after = [i \in 0..N |-> IF i = 0 THEN e ELSE Of(after[i - 1], i)]
    BY <1>6
  <1> HIDE DEF after
  <1>9. after[0] = e /\ \A i \in 1..N : after[i] = Of(after[i - 1], i)
    <2>1. 0 \in 0..N /\ \A i \in 1..N : i \in 0..N /\ i # 0
      BY <1>1
    <2> HIDE DEF Of, N
    <2> QED BY <1>8, <2>1
  <1> DEFINE G == {i \in 0..N : after[i] \in Nat}
  <1>10. G \in SUBSET (0..N) /\ 0 \in G /\ \A i \in 1..N : i - 1 \in G => i \in G
    <2> HIDE DEF Of, N
    <2>1. 0 \in G
      BY <1>1, <1>9
    <2>2. ASSUME NEW i \in 1..N, i - 1 \in G PROVE i \in G
      <3>1. after[i - 1] \in Nat /\ i \in 0..N
        BY <1>1, <2>2
      <3>2. after[i] \in Nat
        BY <1>2, <1>9, <3>1
      <3> QED BY <3>1, <3>2
    <2> QED BY <2>1, <2>2
  <1>11. \A i \in 0..N : after[i] \in Nat
    <2>1. \A i \in 0..N : i \in G
      <3> HIDE DEF G, N
      <3> QED BY <1>1, <1>10, Induction
    <2> QED BY <2>1
  <1>12. after \in [0..N -> Nat]
    <2> HIDE DEF Of, N
    <2> QED BY <1>8, <1>11
  <1> QED BY <1>7, <1>9, <1>12

\* A turn gives a time.
LEMMA ValidTurnTyped ==
    ASSUME NEW invalid \in TimesOf, NEW tp \in Periods
    PROVE  ValidTurn(invalid, tp) \in [Nat -> Nat]
  <1>1. ASSUME NEW t \in Nat PROVE Midnight(t) + Day \in Nat
    <2> DEFINE m == Midnight(t)
    <2>1. m \in Int /\ t < m + Day /\ Day \in Nat
      BY DayOfTime, Clock
    <2> HIDE DEF m
    <2>2. m + Day \in Nat
      BY <2>1
    <2> QED BY <2>2 DEF m
  <1>2. ASSUME NEW t \in Nat, RangesLeft(t, tp) # {}
        PROVE  AfterExclusions(invalid, EarliestOfDay(t, tp), tp) \in Nat
    <2> DEFINE e == EarliestOfDay(t, tp)
               N == Len(Exclusions(tp))
    <2>1. e \in Nat
      BY <1>2, EarliestIs
    <2> HIDE DEF e
    <2>2. PICK after \in [0..N -> Nat] : AfterExclusions(invalid, e, tp) = after[N]
      BY <2>1, AfterIs
    <2>3. N \in 0..N
      <3>1. Exclusions(tp) \in Seq(Periods)
        BY PeriodParts
      <3>2. N \in Nat
        BY <3>1, LenProperties
      <3> HIDE DEF N
      <3> QED BY <3>2
    <2> HIDE DEF N
    <2>4. AfterExclusions(invalid, e, tp) \in Nat
      BY <2>2, <2>3
    <2> QED BY <2>4 DEF e
  <1> DEFINE Of(t) == IF RangesLeft(t, tp) = {} THEN Midnight(t) + Day
                      ELSE AfterExclusions(invalid, EarliestOfDay(t, tp), tp)
  <1>3. ValidTurn(invalid, tp) = [t \in Nat |-> Of(t)]
    BY DEF ValidTurn
  <1>4. ASSUME NEW t \in Nat PROVE Of(t) \in Nat
    <2>1. CASE RangesLeft(t, tp) = {}
      BY <1>1, <2>1
    <2>2. CASE RangesLeft(t, tp) # {}
      BY <1>2, <2>2
    <2> QED BY <2>1, <2>2
  <1> HIDE DEF Of
  <1> QED BY <1>3, <1>4

LEMMA InvalidTurnTyped ==
    ASSUME NEW valid \in TimesOf, NEW tp \in Periods
    PROVE  /\ InvalidTurn(valid, tp) \in [Nat -> Nat]
           /\ Exclusions(tp) = <<>> => \A t \in Nat : InvalidTurn(valid, tp)[t] = PastRanges(t, tp)
  <1> DEFINE Of(t) == {PastRanges(t, tp)} \cup {valid[x][t] + Minute : x \in ToSet(Exclusions(tp))}
  <1>1. ASSUME NEW t \in Nat PROVE PastRanges(t, tp) \in Nat
    <2> DEFINE ranges == matching_timerange(t, tp)
               N == Len(ranges)
    <2>1. N \in 0..N
      <3>0. t \in Int
        OBVIOUS
      <3>1. ranges \in Seq(Timeranges)
        BY <3>0, MatchingRanges, Zenon
      <3> HIDE DEF ranges
      <3>2. N \in Nat
        BY <3>1, LenProperties
      <3> HIDE DEF N
      <3> QED BY <3>2
    <2>2. PICK past \in [0..N -> Nat] : PastRanges(t, tp) = past[N]
      BY PastIs
    <2> HIDE DEF N
    <2> QED BY <2>1, <2>2
  <1>2. \A x \in ToSet(Exclusions(tp)) : x \in Periods
    <2>1. Exclusions(tp) \in Seq(Periods)
      BY PeriodParts
    <2> QED BY <2>1 DEF ToSet
  <1>3. ASSUME NEW t \in Nat PROVE Of(t) \in SUBSET Nat /\ Of(t) # {}
    <2>1. ASSUME NEW x \in ToSet(Exclusions(tp)) PROVE valid[x][t] + Minute \in Nat
      <3> DEFINE v == valid[x][t]
      <3>1. v \in Nat /\ Minute \in Nat
        BY <1>2, Clock DEF TimesOf
      <3> HIDE DEF v
      <3>2. v + Minute \in Nat
        BY <3>1
      <3> QED BY <3>2 DEF v
    <2> QED BY <1>1, <2>1
  <1>4. ASSUME NEW t \in Nat PROVE Min(Of(t)) \in Nat
    <2> DEFINE T == Of(t)
    <2>1. T \in SUBSET Nat /\ T # {}
      BY <1>3
    <2> HIDE DEF T
    <2>2. T \in SUBSET Int /\ \A k \in T : 0 <= k
      BY <2>1
    <2>3. Min(T) \in T
      BY <2>1, <2>2, LeastOf
    <2>4. Min(T) \in Nat
      BY <2>1, <2>3
    <2> QED BY <2>4 DEF T
  <1>5. InvalidTurn(valid, tp) = [t \in Nat |-> Min(Of(t))]
    BY DEF InvalidTurn
  <1>6. ASSUME Exclusions(tp) = <<>>, NEW t \in Nat PROVE Min(Of(t)) = PastRanges(t, tp)
    <2>1. ToSet(Exclusions(tp)) = {}
      <3>1. DOMAIN Exclusions(tp) = {}
        BY <1>6
      <3> QED BY <3>1 DEF ToSet
    <2>2. Of(t) = {PastRanges(t, tp)}
      BY <2>1
    <2> HIDE DEF Of
    <2> DEFINE p == PastRanges(t, tp)
    <2>3. Of(t) = {p} /\ p \in Nat
      BY <1>1, <2>2
    <2> HIDE DEF p
    <2>4. Min({p}) = p
      BY <2>3 DEF Min
    <2> QED BY <2>3, <2>4 DEF p
  <1> HIDE DEF Of
  <1> QED BY <1>4, <1>5, <1>6, Zenon

\* A loop of MaxDepth turns that are all the same.
LEMMA TurnsExist ==
    ASSUME NEW V, NEW first \in V, NEW F \in [V -> V]
    PROVE  \E f \in [0..MaxDepth -> V] :
              f[0] = first /\ \A n \in 1..MaxDepth : f[n] = F[f[n - 1]]
  <1> DEFINE N == MaxDepth
             step == [n \in 1..N |-> F]
  <1>1. N \in Nat
    BY Clock
  <1>2. step \in [1..N -> [V -> V]]
    OBVIOUS
  <1>3. \A n \in 1..N : step[n] = F
    OBVIOUS
  <1> HIDE DEF step, N
  <1>4. PICK f \in [0..N -> V] : f[0] = first /\ \A n \in 1..N : f[n] = step[n][f[n - 1]]
    BY <1>1, <1>2, LoopExists
  <1> QED BY <1>3, <1>4 DEF N

\* The times after each turn, up to one that changes nothing.
LEMMA SettledIs ==
    ASSUME NEW turn \in [Nat -> Nat], NEW pref \in Nat
    PROVE  \E at \in [0..MaxDepth -> Nat] :
              /\ at[0] = pref /\ \A n \in 1..MaxDepth : at[n] = turn[at[n - 1]]
              /\ Settled(turn, pref) =
                    IF at[MaxDepth - 1] = at[MaxDepth - 2] THEN at[MaxDepth - 1] ELSE pref
  <1> DEFINE N == MaxDepth
             V == [time : Nat, turns : Nat, settled : BOOLEAN]
             first == [time |-> pref, turns |-> 0, settled |-> FALSE]
             Of(v) == TakeTurn(turn, v)
             Eq(f) == f = [n \in 0..N |-> IF n = 0 THEN first ELSE Of(f[n - 1])]
             F == [v \in V |-> Of(v)]
             loop == CHOOSE f : Eq(f)
  <1>1. N \in Nat /\ 12 < N
    BY Clock
  <1>2. \A v \in V : Of(v) \in V
    BY DEF TakeTurn
  <1>3. first \in V
    OBVIOUS
  <1>4. PICK f \in [0..N -> V] : f[0] = first /\ \A n \in 1..N : f[n] = F[f[n - 1]]
    <2>1. F \in [V -> V]
      <3> HIDE DEF Of, V
      <3> QED BY <1>2
    <2> HIDE DEF F, V, first
    <2> QED BY <1>3, <2>1, TurnsExist, SMTT(30)
  <1>5. \A n \in 1..N : f[n] = Of(f[n - 1])
    <2>1. \A n \in 1..N : n - 1 \in 0..N
      BY <1>1
    <2>2. \A n \in 1..N : f[n - 1] \in V
      <3> HIDE DEF V
      <3> QED BY <2>1
    <2>3. \A v \in V : F[v] = Of(v)
      <3> HIDE DEF Of, V
      <3> QED OBVIOUS
    <2> HIDE DEF F, Of, N, V, first
    <2> QED BY <1>4, <2>2, <2>3
  <1>6. Eq(f)
    <2>1. f = [n \in 0..N |-> f[n]] /\ f[0] = first
      <3> HIDE DEF V, F, first
      <3> QED BY <1>4
    <2>2. \A n \in 0..N : n # 0 => n \in 1..N
      BY <1>1
    <2> HIDE DEF N, Of, first
    <2> QED BY <1>5, <2>1, <2>2
  <1>7. Eq(loop)
    <2> HIDE DEF Eq
    <2> QED BY <1>6
  <1>8. Settled(turn, pref) = IF loop[N].turns = N THEN pref ELSE loop[N].time
    BY DEF Settled
  <1>9. loop = [n \in 0..N |-> IF n = 0 THEN first ELSE Of(loop[n - 1])]
    BY <1>7
  <1> HIDE DEF loop
  <1>10. loop[0] = first /\ \A n \in 1..N : loop[n] = Of(loop[n - 1])
    <2>1. 0 \in 0..N /\ \A n \in 1..N : n \in 0..N /\ n # 0
      BY <1>1
    <2> HIDE DEF Of, N, first
    <2> QED BY <1>9, <2>1
  <1> DEFINE G == {n \in 0..N : /\ loop[n] \in V /\ loop[n].turns <= n
                                /\ ~loop[n].settled => loop[n].turns = n
                                /\ loop[n].settled => /\ n > 0
                                                      /\ turn[loop[n].time] = loop[n].time
                                                      /\ loop[n - 1].time = loop[n].time
                                /\ n > 0 => /\ loop[n].time = turn[loop[n - 1].time]
                                            /\ loop[n].time = loop[n - 1].time => loop[n].settled}
  <1>11. 0 \in G
    <2>1. loop[0] = first /\ 0 \in 0..N /\ ~(0 > 0)
      BY <1>1, <1>10
    <2>2. loop[0] \in V /\ loop[0].turns = 0 /\ ~loop[0].settled
      BY <2>1
    <2> HIDE DEF N, V, first
    <2> QED BY <2>1, <2>2
  <1>12. ASSUME NEW n \in 1..N, n - 1 \in G PROVE n \in G
    <2> DEFINE v == loop[n - 1]
    <2>1. /\ v \in V /\ v.turns <= n - 1 /\ (~v.settled => v.turns = n - 1)
          /\ v.settled => turn[v.time] = v.time
      <3> HIDE DEF N, V
      <3> QED BY <1>12
    <2>2. loop[n] = Of(v)
      BY <1>10
    <2>3. Of(v) \in V
      <3> HIDE DEF Of, V
      <3> QED BY <1>2, <2>1
    <2> HIDE DEF v
    <2>4. n \in 0..N /\ n \in Nat /\ n > 0
      <3> HIDE DEF N
      <3> QED BY <1>1
    <2>5. CASE v.settled
      <3>1. loop[n] = v
        BY <2>2, <2>5 DEF TakeTurn
      <3>2. v.turns <= n /\ v.turns \in Nat
        BY <2>1, <2>4
      <3>3. loop[n - 1].time = v.time
        BY DEF v
      <3> HIDE DEF V, N
      <3> QED BY <2>1, <2>4, <2>5, <3>1, <3>2, <3>3
    <2>6. CASE ~v.settled
      <3>1. /\ loop[n].time = turn[v.time] /\ loop[n].turns = v.turns + 1
            /\ loop[n].settled = (turn[v.time] = v.time)
        BY <2>2, <2>6 DEF TakeTurn
      <3>2. loop[n].turns = n
        BY <2>1, <2>4, <2>6, <3>1
      <3>3. loop[n - 1].time = v.time
        BY DEF v
      <3>4. loop[n] \in V
        BY <2>2, <2>3
      <3>5. loop[n].settled => turn[loop[n].time] = loop[n].time /\ loop[n - 1].time = loop[n].time
        BY <3>1, <3>3
      <3>6. loop[n].time = loop[n - 1].time => loop[n].settled
        BY <3>1, <3>3
      <3>7. loop[n].time = turn[loop[n - 1].time]
        BY <3>1, <3>3
      <3>8. loop[n].turns <= n
        BY <2>4, <3>2
      <3> HIDE DEF V, N, Of
      <3> QED BY <2>4, <3>2, <3>4, <3>5, <3>6, <3>7, <3>8
    <2> QED BY <2>5, <2>6
  <1>13. \A n \in 0..N : n \in G
    <2>1. G \in SUBSET (0..N) /\ 0 \in G /\ \A n \in 1..N : n - 1 \in G => n \in G
      BY <1>11, <1>12
    <2> HIDE DEF G, N
    <2> QED BY <1>1, <2>1, Induction
  <1> DEFINE at == [n \in 0..N |-> loop[n].time]
             M == N - 1
  <1>14. \A n \in 1..N : n - 1 \in 0..N /\ n \in 0..N /\ n > 0
    BY <1>1
  <1>15. at \in [0..N -> Nat]
    <2>1. \A n \in 0..N : loop[n].time \in Nat
      BY <1>13
    <2> HIDE DEF N
    <2> QED BY <2>1
  <1>16. at[0] = pref /\ \A n \in 1..N : at[n] = turn[at[n - 1]]
    <2>1. \A n \in 1..N : loop[n].time = turn[loop[n - 1].time]
      BY <1>13, <1>14
    <2>2. loop[0].time = pref /\ 0 \in 0..N
      BY <1>1, <1>10
    <2> HIDE DEF N, first
    <2> QED BY <1>14, <2>1, <2>2
  <1>17. M \in 0..N /\ M > 0 /\ M - 1 \in 0..N /\ M - 1 = N - 2 /\ N \in 1..N /\ N \in 0..N /\ M < N
    BY <1>1
  <1>18. loop[M].settled <=> at[M] = at[M - 1]
    <2>1. M \in G
      BY <1>13, <1>17
    <2>2. at[M] = loop[M].time /\ at[M - 1] = loop[M - 1].time
      BY <1>17
    <2> HIDE DEF N, V, M, at
    <2> QED BY <1>17, <2>1, <2>2
  <1>19. loop[N] = Of(loop[M])
    BY <1>10, <1>17
  <1>20. loop[M] \in V /\ loop[M].turns <= M /\ (~loop[M].settled => loop[M].turns = M)
    <2>1. M \in G
      BY <1>13, <1>17
    <2> HIDE DEF N, V, M
    <2> QED BY <2>1
  <1>21. CASE loop[M].settled
    <2>1. loop[N] = loop[M]
      BY <1>19, <1>21 DEF TakeTurn
    <2>2. loop[M].turns \in Nat
      BY <1>20
    <2>3. loop[N].turns # N
      <3> DEFINE a == loop[M].turns
      <3>1. a \in Nat /\ a <= M /\ loop[N].turns = a
        BY <1>20, <2>1, <2>2
      <3> HIDE DEF a
      <3>2. a # N
        BY <1>1, <3>1
      <3> QED BY <3>1, <3>2
    <2>4. Settled(turn, pref) = at[M] /\ at[M] = at[M - 1]
      <3> HIDE DEF N, M
      <3> QED BY <1>8, <1>17, <1>18, <1>21, <2>1, <2>3
    <2> HIDE DEF at
    <2> QED BY <1>15, <1>16, <1>17, <2>4
  <1>22. CASE ~loop[M].settled
    <2>1. loop[N].turns = loop[M].turns + 1
      BY <1>19, <1>22 DEF TakeTurn
    <2>2. loop[N].turns = N
      <3>1. loop[M].turns = M /\ M + 1 = N
        BY <1>1, <1>20, <1>22
      <3> QED BY <2>1, <3>1
    <2>3. Settled(turn, pref) = pref /\ at[M] # at[M - 1]
      <3> HIDE DEF N, M, at
      <3> QED BY <1>8, <1>18, <1>22, <2>2
    <2> HIDE DEF at
    <2> QED BY <1>15, <1>16, <1>17, <2>3
  <1> QED BY <1>21, <1>22

-----------------------------------------------------------------------------
\* The answers for a period follow from those for its exclusions.

LEMMA ChainLength ==
    /\ MaxChain \in Nat
    /\ \A tp \in Periods : MaxChain >= 1
    /\ \A tp, x \in Periods : tp # x => MaxChain >= 2
  <1>1. IsFiniteSet(Periods)
    BY PeriodsAssumption
  <1>2. MaxChain \in Nat
    BY <1>1, FS_CardinalityType DEF MaxChain
  <1>3. ASSUME NEW tp \in Periods PROVE MaxChain >= 1
    <2>1. MaxChain # 0
      BY <1>1, FS_EmptySet DEF MaxChain
    <2> QED BY <1>2, <2>1
  <1>4. ASSUME NEW tp \in Periods, NEW x \in Periods, tp # x PROVE MaxChain >= 2
    <2> DEFINE T == Periods \ {tp}
    <2>1. IsFiniteSet(T) /\ Cardinality(T) = MaxChain - 1
      BY <1>1, FS_RemoveElement DEF MaxChain
    <2>2. T # {}
      BY <1>4
    <2>3. Cardinality(T) # 0
      <3> HIDE DEF T
      <3> QED BY <2>1, <2>2, FS_EmptySet
    <2> HIDE DEF T
    <2> QED BY <1>2, <1>3, <2>1, <2>3
  <1> QED BY <1>2, <1>3, <1>4

LEMMA CheckedIs ==
    \A n \in 1..MaxChain : checked[n] = CheckedGiven(checked[n - 1])
  <1> DEFINE N == MaxChain
             V == [Periods -> [Nat -> BOOLEAN]]
             first == [tp \in Periods |-> [t \in Nat |-> FALSE]]
             Of(v) == CheckedGiven(v)
             Eq(f) == f = [n \in 0..N |-> IF n = 0 THEN first ELSE Of(f[n - 1])]
             step == [n \in 1..N |-> [v \in V |-> Of(v)]]
  <1>1. N \in Nat
    BY ChainLength
  <1>2. \A v \in V : Of(v) \in V
    BY DEF CheckedGiven
  <1>3. first \in V
    OBVIOUS
  <1>4. PICK f \in [0..N -> V] : f[0] = first /\ \A n \in 1..N : f[n] = step[n][f[n - 1]]
    <2>1. step \in [1..N -> [V -> V]]
      <3> HIDE DEF Of, N, V
      <3> QED BY <1>2
    <2> HIDE DEF step, N, V, first
    <2> QED BY <1>1, <1>3, <2>1, LoopExists
  <1>5. \A n \in 1..N : f[n] = Of(f[n - 1])
    <2>1. \A n \in 1..N : n - 1 \in 0..N /\ f[n - 1] \in V
      <3> HIDE DEF N, step, V
      <3> QED BY <1>1, <1>4
    <2>2. \A n \in 1..N, v \in V : step[n][v] = Of(v)
      <3> HIDE DEF N, Of, V
      <3> QED OBVIOUS
    <2> HIDE DEF step, Of, N, V, first
    <2> QED BY <1>4, <2>1, <2>2
  <1>6. Eq(f)
    <2>1. f = [n \in 0..N |-> f[n]] /\ f[0] = first
      <3> HIDE DEF V, step, first
      <3> QED BY <1>4
    <2>2. \A n \in 0..N : n # 0 => n \in 1..N
      BY <1>1
    <2> HIDE DEF N, Of, first
    <2> QED BY <1>5, <2>1, <2>2
  <1>7. checked = CHOOSE g : Eq(g)
    BY DEF checked
  <1>8. Eq(checked)
    <2> HIDE DEF Eq
    <2> QED BY <1>6, <1>7
  <1>9. \A n \in 1..N : n \in 0..N /\ n # 0
    BY <1>1
  <1> HIDE DEF N, Of, first
  <1> QED BY <1>8, <1>9 DEF N, Of

\* Without exclusions a time is within a period when it is in one of its ranges.
LEMMA CheckedWithout ==
    ASSUME NEW n \in 1..MaxChain, NEW t \in Nat, NEW tp \in Periods, Exclusions(tp) = <<>>
    PROVE  checked[n][tp][t] <=> \E r \in ToSet(matching_timerange(t, tp)) : IsIn(t, r)
  <1>1. checked[n] = CheckedGiven(checked[n - 1])
    BY CheckedIs
  <1>2. ToSet(Exclusions(tp)) = {}
    BY DEF ToSet
  <1> DEFINE was == checked[n - 1]
  <1>3. CheckedGiven(was)[tp][t] <=> \E r \in ToSet(matching_timerange(t, tp)) : IsIn(t, r)
    <2> HIDE DEF was
    <2> QED BY <1>2 DEF CheckedGiven
  <1> QED BY <1>1, <1>3

LEMMA AnswersAre ==
    /\ \A n \in 0..MaxChain : answers[n] \in [valid : TimesOf, invalid : TimesOf]
    /\ \A n \in 1..MaxChain : answers[n] = Answers(answers[n - 1])
  <1> DEFINE N == MaxChain
             V == [valid : TimesOf, invalid : TimesOf]
             first == [valid |-> [tp \in Periods |-> [t \in Nat |-> t]],
                       invalid |-> [tp \in Periods |-> [t \in Nat |-> t]]]
             Of(v) == Answers(v)
             Eq(f) == f = [n \in 0..N |-> IF n = 0 THEN first ELSE Of(f[n - 1])]
             step == [n \in 1..N |-> [v \in V |-> Of(v)]]
  <1>1. N \in Nat
    BY ChainLength
  <1>2. ASSUME NEW turn \in [Nat -> Nat], NEW pref \in Nat PROVE Settled(turn, pref) \in Nat
    <2>1. PICK at \in [0..MaxDepth -> Nat] :
              Settled(turn, pref) =
                  IF at[MaxDepth - 1] = at[MaxDepth - 2] THEN at[MaxDepth - 1] ELSE pref
      BY SettledIs
    <2>2. MaxDepth - 1 \in 0..MaxDepth
      BY Clock
    <2> QED BY <2>1, <2>2
  <1>3. ASSUME NEW v \in V PROVE Of(v) \in V
    <2>1. v.valid \in TimesOf /\ v.invalid \in TimesOf
      OBVIOUS
    <2> DEFINE a == [tp \in Periods |-> [pref \in Nat |-> Settled(ValidTurn(v.invalid, tp), pref)]]
               b == [tp \in Periods |-> [pref \in Nat |-> Settled(InvalidTurn(v.valid, tp), pref)]]
    <2>2. a \in TimesOf
      <3>1. \A pref \in Nat, tp \in Periods : Settled(ValidTurn(v.invalid, tp), pref) \in Nat
        BY <1>2, <2>1, ValidTurnTyped
      <3> QED BY <3>1 DEF TimesOf
    <2>3. b \in TimesOf
      <3>1. \A pref \in Nat, tp \in Periods : Settled(InvalidTurn(v.valid, tp), pref) \in Nat
        BY <1>2, <2>1, InvalidTurnTyped
      <3> QED BY <3>1 DEF TimesOf
    <2>4. Of(v) = [valid |-> a, invalid |-> b]
      BY DEF Answers
    <2> HIDE DEF a, b, Of
    <2> QED BY <2>2, <2>3, <2>4
  <1>4. first \in V
    BY DEF TimesOf
  <1>5. PICK f \in [0..N -> V] : f[0] = first /\ \A n \in 1..N : f[n] = step[n][f[n - 1]]
    <2>1. step \in [1..N -> [V -> V]]
      <3> HIDE DEF Of, N, V
      <3> QED BY <1>3
    <2> HIDE DEF step, N, V, first
    <2> QED BY <1>1, <1>4, <2>1, LoopExists
  <1>6. \A n \in 1..N : f[n] = Of(f[n - 1])
    <2>1. \A n \in 1..N : n - 1 \in 0..N /\ f[n - 1] \in V
      <3> HIDE DEF N, step, V
      <3> QED BY <1>1, <1>5
    <2>2. \A n \in 1..N, v \in V : step[n][v] = Of(v)
      <3> HIDE DEF N, Of, V
      <3> QED OBVIOUS
    <2> HIDE DEF step, Of, N, V, first
    <2> QED BY <1>5, <2>1, <2>2
  <1>7. Eq(f)
    <2>1. f = [n \in 0..N |-> f[n]] /\ f[0] = first
      <3> HIDE DEF V, step, first
      <3> QED BY <1>5
    <2>2. \A n \in 0..N : n # 0 => n \in 1..N
      BY <1>1
    <2> HIDE DEF N, Of, first
    <2> QED BY <1>6, <2>1, <2>2
  <1>8. answers = CHOOSE g : Eq(g)
    BY DEF answers
  <1>9. Eq(answers)
    <2> HIDE DEF Eq
    <2> QED BY <1>7, <1>8
  <1> HIDE DEF Of, first
  <1>10. answers[0] = first /\ \A n \in 1..N : answers[n] = Of(answers[n - 1])
    <2>1. 0 \in 0..N /\ \A n \in 1..N : n \in 0..N /\ n # 0
      BY <1>1
    <2> HIDE DEF N
    <2> QED BY <1>9, <2>1
  <1> DEFINE G == {n \in 0..N : answers[n] \in V}
  <1>11. 0 \in G
    <2> HIDE DEF N, V
    <2> QED BY <1>1, <1>4, <1>10
  <1>12. ASSUME NEW n \in 1..N, n - 1 \in G PROVE n \in G
    <2>1. n \in 0..N
      BY <1>1
    <2> HIDE DEF N, V
    <2> QED BY <1>3, <1>10, <1>12, <2>1
  <1>13. \A n \in 0..N : answers[n] \in V
    <2>1. G \in SUBSET (0..N) /\ 0 \in G
      BY <1>11
    <2>2. \A n \in 0..N : n \in G
      <3> HIDE DEF G, N
      <3> QED BY <1>1, <1>12, <2>1, Induction
    <2> QED BY <2>2
  <1> QED BY <1>10, <1>13 DEF Of

-----------------------------------------------------------------------------
\* The next valid time, without exclusions.

\* A time is in a range that is not 00:00-00:00.
InOne(t, tp) == \E r \in Ranges(t, tp) : IsIn(t, r)

\* The day and, after it, the hour that comes twice.
DaysAndHour(t) == LocalDay(t) + IF t >= DstEnd THEN 1 ELSE 0

\* Later on the same day the offset is the same, unless the clock is put back.
LEMMA RestOfDay ==
    ASSUME NEW t \in Int, NEW u \in Int, t <= u, u < Midnight(t) + Day,
           LocalDay(t) # LocalDay(DstStart)
    PROVE  /\ LocalDay(u) = LocalDay(t)
           /\ \/ SameSpan(t, u)
              \/ /\ t < DstEnd /\ DstEnd <= u
                 /\ SameSpan(t, DstEnd - 1) /\ SameSpan(DstEnd, u)
                 /\ LocalDay(t) = LocalDay(DstEnd)
                 /\ Midnight(DstEnd) = Midnight(t) + Hour
  <1>1. /\ Hour \in Nat /\ 0 < Hour /\ Day \in Nat /\ DstStart \in Int /\ DstEnd \in Int
        /\ DstStart - 1 \in Int /\ DstEnd - 1 \in Int /\ DstStart < DstEnd
    BY Clock
  <1>2. /\ Midnight(t) \in Int /\ Midnight(t) <= t /\ LocalDay(t) \in Int
        /\ Midnight(t) = LocalDay(t) * Day - Offset(t)
    BY DayOfTime
  <1>3. CASE Offset(u) = Offset(t)
    <2>1. Midnight(t) <= u
      BY <1>2
    <2>2. LocalDay(u) = LocalDay(t)
      BY <1>3, <2>1, SameDay
    <2> QED BY <1>3, <2>2 DEF SameSpan
  <1>4. CASE is_dst_time(t) /\ ~is_dst_time(u)
    <2>1. t <= DstEnd - 1 /\ DstEnd <= u
      BY <1>1, <1>4 DEF is_dst_time
    <2>2. Offset(t) = Hour /\ Offset(u) = 0 /\ Offset(DstEnd - 1) = Hour /\ Offset(DstEnd) = 0
      BY <1>1, <1>4 DEF Offset, is_dst_time
    <2>3. LocalDay(DstEnd - 1) = LocalDay(t)
      <3>1. Midnight(t) <= DstEnd - 1 /\ DstEnd - 1 < Midnight(t) + Day
        BY <1>1, <1>2, <2>1
      <3> QED BY <1>1, <2>2, <3>1, SameDay
    <2>4. LocalDay(DstEnd) = LocalDay(t)
      BY <2>3, ClockChanges
    <2>5. Midnight(DstEnd) = LocalDay(t) * Day - 0
      BY <2>2, <2>4 DEF Midnight
    <2>6. Midnight(DstEnd) = Midnight(t) + Hour /\ Midnight(DstEnd) \in Int
      <3> DEFINE m == LocalDay(t) * Day
      <3>1. m \in Int /\ Midnight(t) = m - Hour /\ Midnight(DstEnd) = m - 0
        BY <1>1, <1>2, <2>2, <2>5
      <3> HIDE DEF m
      <3> QED BY <1>1, <3>1
    <2>7. Midnight(DstEnd) <= DstEnd
      BY <1>1, DayOfTime
    <2>8. LocalDay(u) = LocalDay(DstEnd)
      <3>1. Midnight(DstEnd) <= u /\ u < Midnight(DstEnd) + Day
        BY <1>1, <1>2, <2>1, <2>6, <2>7
      <3> QED BY <1>1, <2>2, <3>1, SameDay
    <2>9. t < DstEnd
      BY <1>1, <2>1
    <2> QED BY <2>1, <2>2, <2>3, <2>4, <2>6, <2>8, <2>9 DEF SameSpan
  <1>5. CASE ~is_dst_time(t) /\ is_dst_time(u)
    <2>1. t <= DstStart - 1 /\ DstStart <= u
      BY <1>1, <1>5 DEF is_dst_time
    <2>2. Offset(t) = 0 /\ Offset(DstStart - 1) = 0
      BY <1>1, <1>5 DEF Offset, is_dst_time
    <2>3. LocalDay(DstStart - 1) = LocalDay(t)
      <3>1. Midnight(t) <= DstStart - 1 /\ DstStart - 1 < Midnight(t) + Day
        BY <1>1, <1>2, <2>1
      <3> QED BY <1>1, <2>2, <3>1, SameDay
    <2>4. LocalDay(DstStart) = LocalDay(DstStart - 1)
      BY ClockChanges
    <2> QED BY <2>3, <2>4
  <1>6. is_dst_time(t) = is_dst_time(u) => Offset(u) = Offset(t)
    BY DEF Offset
  <1> QED BY <1>3, <1>4, <1>5, <1>6 DEF is_dst_time

LEMMA ValidIs ==
    ASSUME period \in Periods, Excluded = {}, NEW t \in Nat
    PROVE  Valid(t) <=> InOne(t, period)
  <1>1. Exclusions(period) = <<>>
    <2>1. Exclusions(period) \in Seq(Periods)
      BY PeriodParts
    <2>2. ToSet(Exclusions(period)) = {}
      BY DEF Excluded
    <2>3. DOMAIN Exclusions(period) = {}
      BY <2>2 DEF ToSet
    <2> QED BY <2>1, <2>3
  <1>2. MaxChain \in 1..MaxChain
    BY ChainLength
  <1>3. check_time_against_period(t, period)
            <=> \E r \in ToSet(matching_timerange(t, period)) : IsIn(t, r)
    BY <1>1, <1>2, CheckedWithout DEF check_time_against_period
  <1>4. Ranges(t, period) \subseteq ToSet(matching_timerange(t, period))
    BY DEF Ranges
  <1> QED BY <1>3, <1>4 DEF Valid, InOne

LEMMA NoExclusions ==
    ASSUME NEW tp \in Periods, ToSet(Exclusions(tp)) = {}
    PROVE  Exclusions(tp) = <<>>
  <1>1. Exclusions(tp) \in Seq(Periods)
    BY PeriodParts
  <1>2. DOMAIN Exclusions(tp) = {}
    BY DEF ToSet
  <1> QED BY <1>1, <1>2

LEMMA AfterNone ==
    ASSUME NEW invalid \in TimesOf, NEW e \in Nat, NEW tp \in Periods
    PROVE  Exclusions(tp) = <<>> => AfterExclusions(invalid, e, tp) = e
  <1> DEFINE N == Len(Exclusions(tp))
  <1>1. PICK after \in [0..N -> Nat] :
            /\ after[0] = e /\ AfterExclusions(invalid, e, tp) = after[N]
            /\ \A i \in 1..N : after[i] = invalid[Exclusions(tp)[i]][after[i - 1]]
    BY AfterIs
  <1>2. ASSUME Exclusions(tp) = <<>> PROVE N = 0
    BY <1>2
  <1> QED BY <1>1, <1>2

\* The first time from t on that is in a range of its day, or the next day.
FirstOfDay(t, tp) == IF RangesLeft(t, tp) = {} THEN Midnight(t) + Day ELSE EarliestOfDay(t, tp)

LEMMA ValidTurnIs ==
    ASSUME NEW invalid \in TimesOf, NEW tp \in Periods, Exclusions(tp) = <<>>, NEW t \in Nat
    PROVE  ValidTurn(invalid, tp)[t] = FirstOfDay(t, tp)
  <1>1. ASSUME RangesLeft(t, tp) # {}
        PROVE  AfterExclusions(invalid, EarliestOfDay(t, tp), tp) = EarliestOfDay(t, tp)
    <2>1. EarliestOfDay(t, tp) \in Nat
      BY <1>1, EarliestIs
    <2> QED BY <2>1, AfterNone
  <1> QED BY <1>1 DEF ValidTurn, FirstOfDay

\* That is not before t, nor after the day, and is t if that is in a range.
LEMMA FirstIs ==
    ASSUME NEW tp \in Periods, NEW t \in Nat
    PROVE  /\ FirstOfDay(t, tp) \in Nat /\ t <= FirstOfDay(t, tp)
           /\ FirstOfDay(t, tp) <= Midnight(t) + Day
           /\ FirstOfDay(t, tp) = t <=> InOne(t, tp)
  <1> DEFINE m == Midnight(t)
             turned == FirstOfDay(t, tp)
  <1>1. m \in Int /\ m <= t /\ t < m + Day /\ Day \in Nat
    BY DayOfTime, Clock
  <1>2. \A r \in Ranges(t, tp) : r.start \in Nat /\ r.end \in Nat /\ r.start <= Day
    BY RangesTyped
  <1>3. turned = IF RangesLeft(t, tp) = {} THEN m + Day ELSE EarliestOfDay(t, tp)
    BY DEF FirstOfDay
  <1>4. CASE RangesLeft(t, tp) = {}
    <2>1. ~InOne(t, tp)
      BY <1>4 DEF RangesLeft, InOne, IsIn
    <2>2. turned = m + Day
      BY <1>3, <1>4
    <2> HIDE DEF m, turned
    <2>3. turned \in Nat /\ t <= turned /\ turned <= m + Day /\ turned # t
      BY <1>1, <2>2
    <2> QED BY <2>1, <2>3 DEF m, turned
  <1>5. CASE RangesLeft(t, tp) # {}
    <2> DEFINE e == EarliestOfDay(t, tp)
    <2>1. turned = e
      BY <1>3, <1>5
    <2>2. e \in Nat /\ t <= e
      BY <1>5, EarliestIs
    <2>3. PICK r \in RangesLeft(t, tp) :
              /\ m + r.start <= e /\ (t < e => e = m + r.start)
              /\ \A q \in RangesLeft(t, tp) : m + r.start <= m + q.start
      BY <1>5, EarliestIs
    <2> HIDE DEF e, turned
    <2>4. r \in Ranges(t, tp) /\ m + r.end >= t /\ r.start \in Nat /\ r.start <= Day
      BY <1>2 DEF RangesLeft
    <2>5. e <= m + Day
      <3> HIDE DEF m
      <3> QED BY <1>1, <2>2, <2>3, <2>4
    <2>6. ASSUME e = t PROVE InOne(t, tp)
      <3>1. IsIn(t, r)
        BY <2>3, <2>4, <2>6 DEF IsIn
      <3> QED BY <2>4, <3>1 DEF InOne
    <2>7. ASSUME InOne(t, tp) PROVE e = t
      <3>1. PICK q \in Ranges(t, tp) : m + q.start <= t /\ t <= m + q.end
        BY <2>7 DEF InOne, IsIn
      <3>2. q \in RangesLeft(t, tp)
        BY <1>1, <1>2, <3>1 DEF RangesLeft
      <3>3. m + r.start <= m + q.start /\ q.start \in Nat
        BY <1>2, <2>3, <3>1, <3>2
      <3> HIDE DEF m
      <3> QED BY <1>1, <2>2, <2>3, <2>4, <3>1, <3>3
    <2>8. turned \in Nat /\ t <= turned /\ turned <= m + Day /\ (turned = t <=> InOne(t, tp))
      BY <2>1, <2>2, <2>5, <2>6, <2>7
    <2> QED BY <2>8 DEF turned
  <1> QED BY <1>4, <1>5

\* Before it no time is in a range.
LEMMA NoneBeforeFirst ==
    ASSUME period \in Periods,
           NEW t \in Nat, NEW u \in Nat, LocalDay(t) # LocalDay(DstStart),
           LocalDay(t) # LocalDay(DstEnd) \/ ~DiffersWhenPutBack,
           t <= u, u < FirstOfDay(t, period)
    PROVE  ~InOne(u, period)
  <1> DEFINE m == Midnight(t)
             turned == FirstOfDay(t, period)
  <1>2. turned <= m + Day
    BY FirstIs
  <1>3. /\ m \in Int /\ Day \in Nat /\ Hour \in Nat /\ 0 < Hour /\ DstEnd \in Nat /\ turned \in Int
        /\ DstEnd - 1 \in Int
    <2>1. turned \in Nat
      BY FirstIs
    <2>2. m \in Int
      BY DayOfTime
    <2> HIDE DEF turned, m
    <2> QED BY <2>1, <2>2, Clock
  <1>4. u < m + Day
    <2>1. u < turned
      OBVIOUS
    <2> HIDE DEF turned, m
    <2> QED BY <1>2, <1>3, <2>1
  <1>5. SUFFICES ASSUME NEW q \in Ranges(u, period), IsIn(u, q) PROVE FALSE
    BY DEF InOne
  <1>6. q.start \in Nat /\ q.end \in Nat
    BY RangesTyped
  <1>7. Midnight(u) \in Int /\ Midnight(u) + q.start <= u /\ u <= Midnight(u) + q.end
    BY <1>5, DayOfTime DEF IsIn
  <1>8. q \in Ranges(t, period) /\ m + q.end >= t /\ m + q.start <= u
    <2>1. CASE SameSpan(t, u)
      <3>1. Ranges(u, period) = Ranges(t, period)
        BY <2>1, SameRanges
      <3>2. Midnight(u) = m
        BY <2>1 DEF SameSpan, Midnight
      <3> HIDE DEF m
      <3> QED BY <1>3, <1>6, <1>7, <3>1, <3>2
    <2>2. CASE ~SameSpan(t, u)
      <3>1. /\ t < DstEnd /\ DstEnd <= u
            /\ SameSpan(t, DstEnd - 1) /\ SameSpan(DstEnd, u)
            /\ LocalDay(t) = LocalDay(DstEnd) /\ Midnight(DstEnd) = m + Hour
        BY <1>4, <2>2, RestOfDay
      <3>2. Ranges(DstEnd, period) = Ranges(u, period) /\ Midnight(u) = Midnight(DstEnd)
        <4>1. LocalDay(DstEnd) # LocalDay(DstStart)
          BY <3>1
        <4>2. Ranges(u, period) = Ranges(DstEnd, period)
          BY <1>3, <3>1, <4>1, SameRanges
        <4> QED BY <3>1, <4>2 DEF SameSpan, Midnight
      <3>3. Ranges(DstEnd - 1, period) = Ranges(t, period) /\ Midnight(DstEnd - 1) = m
        <4>1. t <= DstEnd - 1
          BY <1>3, <3>1
        <4>2. Ranges(DstEnd - 1, period) = Ranges(t, period)
          BY <1>3, <3>1, <4>1, SameRanges
        <4> QED BY <3>1, <4>2 DEF SameSpan, Midnight
      <3>4. ~DiffersWhenPutBack
        BY <3>1
      <3>5. Ranges(DstEnd - 1, period) = Ranges(DstEnd, period)
        BY <3>4 DEF DiffersWhenPutBack
      <3>6. ~(Midnight(DstEnd - 1) + q.end < DstEnd - 1 /\ DstEnd <= Midnight(DstEnd) + q.end)
        <4>1. q \in Ranges(DstEnd, period)
          BY <3>2
        <4> QED BY <3>4, <4>1 DEF DiffersWhenPutBack
      <3>7. DstEnd <= Midnight(DstEnd) + q.end
        <4> HIDE DEF m
        <4> QED BY <1>3, <1>6, <1>7, <3>1, <3>2
      <3>8. ~(m + q.end < DstEnd - 1)
        BY <3>3, <3>6, <3>7
      <3>9. m + Hour + q.start <= u
        BY <1>7, <3>1, <3>2
      <3>10. q \in Ranges(t, period)
        BY <3>2, <3>3, <3>5
      <3>11. m + q.end >= t /\ m + q.start <= u
        <4> HIDE DEF m
        <4> QED BY <1>3, <1>6, <3>1, <3>8, <3>9
      <3> QED BY <3>10, <3>11
    <2> QED BY <2>1, <2>2
  <1>9. q \in RangesLeft(t, period)
    BY <1>8 DEF RangesLeft
  <1>10. turned = EarliestOfDay(t, period)
    BY <1>9 DEF FirstOfDay
  <1>11. PICK r \in RangesLeft(t, period) :
             /\ m + r.start <= turned /\ (t < turned => turned = m + r.start)
             /\ \A p \in RangesLeft(t, period) : m + r.start <= m + p.start
    BY <1>9, <1>10, EarliestIs
  <1>12. u < turned /\ m + r.start <= m + q.start
    BY <1>9, <1>11
  <1>13. r.start \in Nat
    BY RangesTyped DEF RangesLeft
  <1> HIDE DEF m, turned
  <1> QED BY <1>3, <1>6, <1>8, <1>11, <1>12, <1>13

LEMMA MatchingForward ==
    ASSUME NEW tp \in Periods, Forward(tp), NEW t \in Int, NEW r \in Ranges(t, tp)
    PROVE  r.start <= r.end
  <1>1. r \in ToSet(matching_timerange(t, tp))
    BY DEF Ranges
  <1>2. CASE \E w \in 0..6 : matching_timerange(t, tp) = timeperiod[tp].days[w]
    BY <1>1, <1>2 DEF Forward
  <1>3. CASE \E x \in ToSet(timeperiod[tp].exceptions) : matching_timerange(t, tp) = x.times
    BY <1>1, <1>3 DEF Forward
  <1>4. matching_timerange(t, tp) \in
            {timeperiod[tp].days[w] : w \in 0..6}
                \cup {x.times : x \in ToSet(timeperiod[tp].exceptions)}
    BY MatchingRanges
  <1> QED BY <1>2, <1>3, <1>4

\* If no range is at that time either, it is over a day, or the hour that comes twice.
LEMMA TurnOverDay ==
    ASSUME NEW tp \in Periods, Forward(tp),
           NEW t \in Nat, LocalDay(t) # LocalDay(DstStart), ~InOne(t, tp),
           ~InOne(FirstOfDay(t, tp), tp)
    PROVE  DaysAndHour(t) + 1 <= DaysAndHour(FirstOfDay(t, tp))
  <1> DEFINE m == Midnight(t)
             D == LocalDay(t)
             u == FirstOfDay(t, tp)
             E == LocalDay(u)
  <1>1. u \in Nat /\ t <= u /\ u # t /\ u <= m + Day
    BY FirstIs
  <1>2. /\ D \in Int /\ m \in Int /\ m <= t /\ t < m + Day /\ Day \in Nat /\ 0 < Day
        /\ DstEnd \in Int /\ Hour \in Nat
    BY DayOfTime, Clock
  <1>3. u = IF RangesLeft(t, tp) = {} THEN m + Day ELSE EarliestOfDay(t, tp)
    BY DEF FirstOfDay
  <1> HIDE DEF u
  <1>4. E \in Int /\ D <= E
    BY <1>1, DayOfTime, DaysInOrder
  <1>5. ASSUME t < DstEnd, DstEnd <= u PROVE DaysAndHour(t) + 1 <= DaysAndHour(u)
    <2>1. DaysAndHour(t) = D /\ DaysAndHour(u) = E + 1
      <3> HIDE DEF D, E
      <3>1. ~(t >= DstEnd) /\ u >= DstEnd
        BY <1>1, <1>2, <1>5
      <3>2. D + 0 = D
        BY <1>2
      <3> QED BY <3>1, <3>2 DEF DaysAndHour, D, E
    <2> HIDE DEF D, E
    <2> QED BY <1>2, <1>4, <2>1
  <1>6. ASSUME D + 1 <= E PROVE DaysAndHour(t) + 1 <= DaysAndHour(u)
    <2>1. t >= DstEnd => u >= DstEnd
      BY <1>1, <1>2
    <2>2. /\ DaysAndHour(t) = D + IF t >= DstEnd THEN 1 ELSE 0
          /\ DaysAndHour(u) = E + IF u >= DstEnd THEN 1 ELSE 0
      BY DEF DaysAndHour
    <2> HIDE DEF D, E
    <2> QED BY <1>2, <1>4, <1>6, <2>1, <2>2
  <1>7. CASE u < m + Day
    <2>1. RangesLeft(t, tp) # {} /\ u = EarliestOfDay(t, tp)
      <3> HIDE DEF m
      <3> QED BY <1>1, <1>2, <1>3, <1>7
    <2>2. PICK r \in RangesLeft(t, tp) : t < u => u = m + r.start
      BY <2>1, EarliestIs
    <2>3. u = m + r.start /\ r \in Ranges(t, tp) /\ r.start \in Nat /\ r.end \in Nat
      BY <1>1, <2>2, RangesTyped DEF RangesLeft
    <2>4. r.start <= r.end
      BY <2>3, MatchingForward
    <2>5. ~SameSpan(t, u)
      <3>1. SUFFICES ASSUME SameSpan(t, u) PROVE FALSE
        OBVIOUS
      <3>2. Ranges(u, tp) = Ranges(t, tp)
        BY <1>1, <3>1, SameRanges
      <3>3. Midnight(u) = m
        BY <3>1 DEF SameSpan, Midnight
      <3>4. IsIn(u, r)
        <4>1. m + r.start <= u /\ u <= m + r.end
          <5> HIDE DEF m
          <5> QED BY <1>2, <2>3, <2>4
        <4> QED BY <3>3, <4>1 DEF IsIn
      <3>5. InOne(u, tp)
        BY <2>3, <3>2, <3>4 DEF InOne
      <3> QED BY <3>5 DEF u
    <2>6. t < DstEnd /\ DstEnd <= u
      BY <1>1, <1>7, <2>5, RestOfDay
    <2> QED BY <1>5, <2>6 DEF u
  <1>8. CASE u = m + Day
    <2>1. m = D * Day - Offset(t) /\ Offset(t) \in {0, Hour} /\ Offset(u) \in {0, Hour}
      <3>1. t \in Int /\ u \in Int
        BY <1>1
      <3> QED BY <3>1, DayOfTime, Zenon
    <2>2. CASE Offset(t) <= Offset(u)
      <3>1. /\ u + Offset(u) \in Int /\ u + Offset(u) < E * Day + Day
            /\ D * Day + Day <= u + Offset(u)
        <4>1. u < Midnight(u) + Day /\ Midnight(u) = E * Day - Offset(u)
          BY <1>1, DayOfTime
        <4>2. Offset(t) \in Int /\ Offset(u) \in Int
          BY <1>2, <2>1
        <4> DEFINE a == D * Day
                   b == E * Day
                   o == Offset(t)
                   p == Offset(u)
        <4>3. a \in Int /\ b \in Int /\ o \in Int /\ p \in Int /\ o <= p
          BY <1>2, <1>4, <2>2, <4>2
        <4>4. u < b - p + Day /\ u = a - o + Day
          BY <1>8, <2>1, <4>1
        <4> HIDE DEF a, b, o, p
        <4>5. u + p \in Int /\ u + p < b + Day /\ a + Day <= u + p
          BY <1>1, <1>2, <4>3, <4>4
        <4> QED BY <4>5 DEF a, b, p
      <3>2. ~(E <= D)
        <4>1. SUFFICES ASSUME E <= D PROVE FALSE
          OBVIOUS
        <4>2. E = D
          <5> HIDE DEF D, E
          <5> QED BY <1>2, <1>4, <4>1
        <4> DEFINE a == D * Day
        <4>3. a \in Int /\ E * Day = a
          BY <1>2, <4>2
        <4> HIDE DEF a, E
        <4>4. u + Offset(u) < a + Day /\ a + Day <= u + Offset(u)
          BY <3>1, <4>3 DEF a
        <4> QED BY <1>2, <3>1, <4>3, <4>4
      <3>3. D + 1 <= E
        <4> HIDE DEF D, E
        <4> QED BY <1>2, <1>4, <3>2
      <3> QED BY <1>6, <3>3 DEF u
    <2>3. CASE ~(Offset(t) <= Offset(u))
      <3>1. Offset(t) = Hour /\ Offset(u) = 0 /\ Hour # 0
        BY <1>2, <2>1, <2>3
      <3>2. is_dst_time(t) /\ ~is_dst_time(u)
        BY <3>1 DEF Offset
      <3>3. DstStart \in Int /\ t < DstEnd /\ DstEnd <= u
        BY <1>1, <1>2, <3>2, Clock DEF is_dst_time
      <3> QED BY <1>5, <3>3 DEF u
    <2> QED BY <2>2, <2>3
  <1>9. u < m + Day \/ u = m + Day
    <2> HIDE DEF m
    <2> QED BY <1>1, <1>2
  <1> QED BY <1>7, <1>8, <1>9

\* So many of them are more than 8 days.
LEMMA ManyDaysAfter ==
    ASSUME NEW t \in Nat, NEW u \in Nat, DaysAndHour(t) + 11 <= DaysAndHour(u)
    PROVE  t + 8 * Day < u
  <1> DEFINE D == LocalDay(t)
             E == LocalDay(u)
             a == D * Day
             b == E * Day
  <1>1. D \in Int /\ E \in Int /\ Day \in Nat /\ Hour \in Nat /\ Hour < Day
    BY DayOfTime, Clock
  <1>2. D + 10 <= E
    <2>1. /\ DaysAndHour(t) = D + IF t >= DstEnd THEN 1 ELSE 0
          /\ DaysAndHour(u) = E + IF u >= DstEnd THEN 1 ELSE 0
      BY DEF DaysAndHour
    <2> HIDE DEF D, E
    <2> QED BY <1>1, <2>1
  <1>3. a + 10 * Day <= b /\ a \in Int /\ b \in Int
    <2> HIDE DEF D, E
    <2>1. (E - D) * Day >= 10 * Day /\ (E - D) * Day = E * Day - D * Day
      BY <1>1, <1>2
    <2> QED BY <1>1, <2>1
  <1>4. b - Offset(u) <= u /\ t < a - Offset(t) + Day
    BY DayOfTime
  <1>5. Offset(t) \in {0, Hour} /\ Offset(u) \in {0, Hour}
    BY DayOfTime
  <1> HIDE DEF a, b
  <1> QED BY <1>1, <1>3, <1>4, <1>5

\* After a turn that changes nothing the others do not either.
LEMMA StaysSettled ==
    ASSUME NEW turn \in [Nat -> Nat], NEW at \in [0..MaxDepth -> Nat],
           \A n \in 1..MaxDepth : at[n] = turn[at[n - 1]],
           NEW M \in 1..MaxDepth, NEW n \in 1..M, at[n] = at[n - 1]
    PROVE  at[M] = at[M - 1]
  <1> DEFINE N == M - n
             G == {k \in 0..N : at[n + k] = at[n + k - 1]}
  <1>1. N \in Nat /\ n \in Nat /\ M \in Nat /\ MaxDepth \in Nat /\ M <= MaxDepth /\ 1 <= n
    BY Clock
  <1>2. 0 \in G
    <2>1. n + 0 = n /\ 0 \in 0..N
      BY <1>1
    <2> HIDE DEF N
    <2> QED BY <2>1
  <1>3. ASSUME NEW k \in 1..N, k - 1 \in G PROVE k \in G
    <2> DEFINE j == n + k
    <2>1. /\ j \in 1..MaxDepth /\ j - 1 \in 1..MaxDepth /\ n + (k - 1) = j - 1 /\ k \in 0..N
          /\ n + (k - 1) - 1 = (j - 1) - 1
      BY <1>1
    <2>2. at[j - 1] = at[(j - 1) - 1]
      BY <1>3, <2>1
    <2>3. at[j] = turn[at[j - 1]] /\ at[j - 1] = turn[at[(j - 1) - 1]]
      <3> HIDE DEF j
      <3> QED BY <2>1
    <2>4. at[j] = at[j - 1]
      BY <2>2, <2>3
    <2> QED BY <2>1, <2>4
  <1>4. N \in G
    <2>1. G \in SUBSET (0..N) /\ N \in 0..N
      BY <1>1
    <2> HIDE DEF G, N
    <2>2. \A k \in 0..N : k \in G
      BY <1>1, <1>2, <1>3, <2>1, Induction
    <2> QED BY <2>1, <2>2
  <1>5. n + N = M
    BY <1>1
  <1> QED BY <1>4, <1>5

LEMMA NextValidIs ==
    ASSUME NEW pref \in Nat, NEW tp \in Periods, Exclusions(tp) = <<>>
    PROVE  \E invalid \in TimesOf :
              next_valid_time(pref, tp) = Settled(ValidTurn(invalid, tp), pref)
  <1>1. MaxChain \in 1..MaxChain /\ MaxChain - 1 \in 0..MaxChain
    BY ChainLength
  <1>2. /\ answers[MaxChain] = Answers(answers[MaxChain - 1])
        /\ answers[MaxChain - 1] \in [valid : TimesOf, invalid : TimesOf]
    BY <1>1, AnswersAre
  <1>3. answers[MaxChain - 1].invalid \in TimesOf
    BY <1>2
  <1> DEFINE below == answers[MaxChain - 1]
  <1>4. next_valid_time(pref, tp) = Answers(below).valid[tp][pref]
    BY <1>2 DEF next_valid_time
  <1>5. Answers(below).valid[tp][pref] = Settled(ValidTurn(below.invalid, tp), pref)
    <2> HIDE DEF below
    <2> QED BY DEF Answers
  <1> QED BY <1>3, <1>4, <1>5

\* A day of the times from a to b that is not among those of a change of the clock.
LEMMA DaysBetween ==
    ASSUME NEW a \in Int, NEW b \in Int, NEW t \in Int, a <= t, t <= b,
           NEW change \in Int, LocalDay(change) \notin LocalDay(a)..LocalDay(b)
    PROVE  LocalDay(t) # LocalDay(change)
  <1>1. LocalDay(a) <= LocalDay(t) /\ LocalDay(t) <= LocalDay(b)
    BY DaysInOrder
  <1>2. LocalDay(a) \in Int /\ LocalDay(b) \in Int /\ LocalDay(t) \in Int
    BY DayOfTime
  <1>3. LocalDay(t) \in LocalDay(a)..LocalDay(b)
    BY <1>1, <1>2
  <1> QED BY <1>3

LEMMA EarliestIsNext ==
    ASSUME period \in Periods, now \in Nat, next = next_valid_time(now, period)
    PROVE  NextIsEarliest
  <1>1. SUFFICES ASSUME Excluded = {}, GaveUp({}) => Forward(period), NotOn(DstStart, {}),
                        NotOn(DstEnd, {}) \/ ~DiffersWhenPutBack
                 PROVE  IsNext({})
    BY DEF NextIsEarliest
  <1>2. Exclusions(period) = <<>>
    BY <1>1, NoExclusions DEF Excluded
  <1>3. PICK invalid \in TimesOf : next = Settled(ValidTurn(invalid, period), now)
    BY <1>2, NextValidIs
  <1> DEFINE turn == ValidTurn(invalid, period)
             M == MaxDepth - 1
             H == LookedTo({})
  <1>4. turn \in [Nat -> Nat] /\ \A t \in Nat : turn[t] = FirstOfDay(t, period)
    BY <1>2, ValidTurnTyped, ValidTurnIs
  <1>5. PICK at \in [0..MaxDepth -> Nat] :
            /\ at[0] = now /\ \A n \in 1..MaxDepth : at[n] = turn[at[n - 1]]
            /\ Settled(turn, now) = IF at[MaxDepth - 1] = at[MaxDepth - 2] THEN at[MaxDepth - 1] ELSE now
    <2> HIDE DEF turn
    <2> QED BY <1>4, SettledIs
  <1>6. /\ MaxDepth \in Nat /\ M \in Nat /\ M \in 1..MaxDepth /\ M - 1 = MaxDepth - 2 /\ 12 <= M
        /\ M \in 0..MaxDepth /\ Day \in Nat /\ DstStart \in Int /\ DstEnd \in Int /\ M <= MaxDepth
    BY Clock
  <1>7. \A n \in 1..M : n \in 1..MaxDepth /\ n \in 0..MaxDepth /\ n - 1 \in 0..MaxDepth /\ n - 1 \in 0..M
    BY <1>6
  <1>8. next = IF at[M] = at[M - 1] THEN at[M] ELSE now
    BY <1>3, <1>5, <1>6
  <1>9. \A t \in Nat : Valid(t) <=> InOne(t, period)
    BY <1>1, ValidIs
  <1>10. \A n \in 1..M : /\ at[n - 1] \in Nat /\ at[n] \in Nat /\ at[n] = turn[at[n - 1]]
                         /\ at[n - 1] <= at[n]
                         /\ at[n] = at[n - 1] <=> InOne(at[n - 1], period)
    <2> TAKE n \in 1..M
    <2>1. at[n - 1] \in Nat /\ at[n] \in Nat /\ at[n] = turn[at[n - 1]]
      <3> HIDE DEF turn, M
      <3> QED BY <1>5, <1>7
    <2>2. /\ at[n - 1] <= turn[at[n - 1]]
          /\ turn[at[n - 1]] = at[n - 1] <=> InOne(at[n - 1], period)
      BY <1>4, <2>1, FirstIs
    <2> HIDE DEF turn
    <2> QED BY <2>1, <2>2
  <1>11. \A n \in 0..M : at[n] \in Nat /\ now <= at[n]
    <2> DEFINE G == {n \in 0..M : at[n] \in Nat /\ now <= at[n]}
    <2>1. 0 \in G
      <3>1. 0 \in 0..M
        BY <1>6
      <3> HIDE DEF M
      <3> QED BY <1>5, <3>1
    <2>2. ASSUME NEW n \in 1..M, n - 1 \in G PROVE n \in G
      <3>1. n \in 0..M /\ at[n - 1] \in Nat /\ at[n] \in Nat /\ at[n - 1] <= at[n] /\ now <= at[n - 1]
        BY <1>6, <1>10, <2>2
      <3>2. now <= at[n]
        BY <3>1
      <3> HIDE DEF M
      <3> QED BY <3>1, <3>2
    <2>3. \A n \in 0..M : n \in G
      <3>1. G \in SUBSET (0..M)
        OBVIOUS
      <3> HIDE DEF G, M
      <3> QED BY <1>6, <2>1, <2>2, <3>1, Induction
    <2> QED BY <2>3
  <1>12. ASSUME NEW n \in 0..M, at[n] = at[n + 1], n < M PROVE at[M] = at[M - 1]
    <2> DEFINE k == n + 1
    <2>1. k \in 1..M /\ k - 1 = n
      BY <1>6, <1>12
    <2>2. at[k] = at[k - 1]
      BY <1>12, <2>1
    <2> HIDE DEF turn, M, k
    <2> QED BY <1>4, <1>5, <1>6, <2>1, <2>2, StaysSettled
  <1>13. ASSUME NEW t \in Nat, now <= t, t <= H, H \in Int
         PROVE  /\ LocalDay(t) # LocalDay(DstStart)
                /\ LocalDay(t) # LocalDay(DstEnd) \/ ~DiffersWhenPutBack
    <2>1. LocalDay(t) # LocalDay(DstStart)
      <3>1. LocalDay(DstStart) \notin LocalDay(now)..LocalDay(H)
        BY <1>1 DEF NotOn
      <3> HIDE DEF H
      <3> QED BY <1>6, <1>13, <3>1, DaysBetween
    <2>2. ASSUME NotOn(DstEnd, {}) PROVE LocalDay(t) # LocalDay(DstEnd)
      <3>1. LocalDay(DstEnd) \notin LocalDay(now)..LocalDay(H)
        BY <2>2 DEF NotOn
      <3> HIDE DEF H
      <3> QED BY <1>6, <1>13, <3>1, DaysBetween
    <2> QED BY <1>1, <2>1, <2>2
  <1>14. ASSUME H \in Int
         PROVE  \A n \in 0..M : \A u \in now..(at[n] - 1) : u < H => ~InOne(u, period)
    <2> DEFINE G == {n \in 0..M : \A u \in now..(at[n] - 1) : u < H => ~InOne(u, period)}
    <2>1. 0 \in G
      <3>1. 0 \in 0..M
        BY <1>6
      <3>2. now..(at[0] - 1) = {}
        BY <1>5
      <3> HIDE DEF M
      <3> QED BY <3>1, <3>2
    <2>2. ASSUME NEW n \in 1..M, n - 1 \in G PROVE n \in G
      <3>1. n \in 0..M
        BY <1>6
      <3>2. \A u \in now..(at[n - 1] - 1) : u < H => ~InOne(u, period)
        BY <2>2
      <3>3. ASSUME NEW u \in now..(at[n] - 1), u < H PROVE ~InOne(u, period)
        <4>1. /\ at[n - 1] \in Nat /\ at[n] \in Nat /\ at[n] = turn[at[n - 1]] /\ at[n - 1] <= at[n]
              /\ now <= at[n - 1] /\ u \in Nat
          BY <1>7, <1>10, <1>11
        <4>2. CASE u <= at[n - 1] - 1
          <5>1. u \in now..(at[n - 1] - 1)
            BY <4>1, <4>2
          <5> QED BY <3>2, <3>3, <5>1
        <4>3. CASE at[n - 1] <= u
          <5> DEFINE t == at[n - 1]
          <5>1. t \in Nat /\ t <= u /\ now <= t /\ u < turn[t]
            <6>1. u < at[n]
              BY <4>1
            <6> HIDE DEF turn
            <6> QED BY <4>1, <4>3, <6>1
          <5> HIDE DEF t, H
          <5>2. t <= H
            BY <1>14, <3>3, <4>1, <5>1
          <5>3. /\ LocalDay(t) # LocalDay(DstStart)
                /\ LocalDay(t) # LocalDay(DstEnd) \/ ~DiffersWhenPutBack
            BY <1>13, <1>14, <5>1, <5>2
          <5> QED BY <1>4, <4>1, <5>1, <5>3, NoneBeforeFirst
        <4> QED BY <4>1, <4>2, <4>3
      <3> HIDE DEF M
      <3> QED BY <3>1, <3>3
    <2>3. \A n \in 0..M : n \in G
      <3>1. G \in SUBSET (0..M)
        OBVIOUS
      <3> HIDE DEF G, M
      <3> QED BY <1>6, <2>1, <2>2, <3>1, Induction
    <2> QED BY <2>3
  <1>15. CASE at[M] = at[M - 1]
    <2>1. next = at[M] /\ next \in Nat /\ now <= next
      BY <1>6, <1>8, <1>11, <1>15
    <2>2. Valid(next)
      <3>1. InOne(at[M - 1], period)
        BY <1>6, <1>10, <1>15
      <3> QED BY <1>9, <1>15, <2>1, <3>1
    <2>3. ~GaveUp({})
      BY <2>2 DEF GaveUp
    <2>4. H = next
      BY <2>3 DEF LookedTo
    <2>5. \A t \in now..(H - 1) : ~Valid(t)
      <3> TAKE t \in now..(H - 1)
      <3>1. t \in now..(at[M] - 1) /\ t < H /\ t \in Nat /\ H \in Int
        BY <2>1, <2>4
      <3>2. ~InOne(t, period)
        <4>1. M \in 0..M
          BY <1>6
        <4> QED BY <1>14, <3>1, <4>1
      <3> QED BY <1>9, <3>1, <3>2
    <2> QED BY <2>1, <2>2, <2>5 DEF IsNext
  <1>16. CASE at[M] # at[M - 1]
    <2>1. next = now
      BY <1>8, <1>16
    <2>2. \A n \in 0..M : n < M => ~InOne(at[n], period) /\ at[n] # at[n + 1]
      <3> TAKE n \in 0..M
      <3> HAVE n < M
      <3>1. n + 1 \in 1..M /\ (n + 1) - 1 = n
        BY <1>6
      <3>2. at[n] # at[n + 1]
        <4> HIDE DEF M
        <4> QED BY <1>12, <1>16
      <3>3. at[n + 1] = at[n] <=> InOne(at[n], period)
        <4> HIDE DEF M
        <4> QED BY <1>10, <3>1
      <3> QED BY <3>2, <3>3
    <2>3. ~Valid(now)
      <3>1. 0 \in 0..M /\ 0 < M
        BY <1>6
      <3>2. ~InOne(at[0], period)
        <4> HIDE DEF M
        <4> QED BY <2>2, <3>1
      <3> QED BY <1>5, <1>9, <3>2
    <2>4. GaveUp({})
      BY <2>1, <2>3 DEF GaveUp
    <2>5. H = now + 8 * Day /\ H \in Nat
      BY <1>6, <2>4 DEF LookedTo
    <2>6. Forward(period)
      BY <1>1, <2>4
    <2> DEFINE L == M - 1
    <2>7. L \in Nat /\ 11 <= L /\ \A n \in 0..L : n \in 0..M /\ n < M
      BY <1>6
    <2>8. H <= at[M]
      <3>1. SUFFICES ASSUME at[M] < H PROVE FALSE
        <4>1. at[M] \in Nat
          BY <1>6, <1>11
        <4> HIDE DEF H, M
        <4> QED BY <2>5, <4>1
      <3>2. \A n \in 0..L : at[n] <= at[M]
        <4> DEFINE G == {k \in 0..M : at[M - k] <= at[M]}
        <4>1. 0 \in G
          <5>1. M - 0 = M /\ 0 \in 0..M /\ at[M] \in Nat
            BY <1>6, <1>11
          <5> HIDE DEF M
          <5> QED BY <5>1
        <4>2. ASSUME NEW k \in 1..M, k - 1 \in G PROVE k \in G
          <5> DEFINE j == M - (k - 1)
          <5>1. j \in 1..M /\ j - 1 = M - k /\ k \in 0..M
            BY <1>6
          <5>2. at[j] <= at[M]
            BY <4>2
          <5>3. at[j - 1] \in Nat /\ at[j] \in Nat /\ at[j - 1] <= at[j] /\ at[M] \in Nat
            <6> HIDE DEF j, M
            <6>1. M \in 0..M
              BY <1>6
            <6> QED BY <1>10, <1>11, <5>1, <6>1
          <5>4. at[j - 1] <= at[M]
            <6> HIDE DEF j, M
            <6> QED BY <5>2, <5>3
          <5> QED BY <5>1, <5>4
        <4>3. \A k \in 0..M : k \in G
          <5>1. G \in SUBSET (0..M)
            OBVIOUS
          <5> HIDE DEF G, M
          <5> QED BY <1>6, <4>1, <4>2, <5>1, Induction
        <4>4. ASSUME NEW n \in 0..L PROVE at[n] <= at[M]
          <5>1. M - n \in 0..M /\ M - (M - n) = n
            BY <1>6, <2>7
          <5>2. M - n \in G
            <6> HIDE DEF G, M
            <6> QED BY <4>3, <5>1
          <5> QED BY <5>1, <5>2
        <4> QED BY <4>4
      <3>3. ASSUME NEW n \in 1..L
            PROVE  DaysAndHour(at[n - 1]) + 1 <= DaysAndHour(at[n])
        <4> DEFINE t == at[n - 1]
        <4>1. n \in 1..M /\ n - 1 \in 0..L /\ n \in 0..L /\ n - 1 \in 0..M
          BY <1>6
        <4>2. t \in Nat /\ at[n] = turn[t] /\ now <= t
          BY <1>10, <1>11, <4>1
        <4>3. ~InOne(t, period) /\ ~InOne(at[n], period)
          <5> HIDE DEF L, M
          <5> QED BY <2>2, <2>7, <4>1
        <4>4. t <= H
          <5>1. t <= at[M] /\ at[M] \in Nat
            BY <1>6, <1>11, <3>2, <4>1
          <5> HIDE DEF t, M, H
          <5> QED BY <2>5, <3>1, <4>2, <5>1
        <4>5. LocalDay(t) # LocalDay(DstStart)
          <5> HIDE DEF t, H
          <5> QED BY <1>13, <2>5, <4>2, <4>4
        <4>6. ~InOne(turn[t], period)
          BY <4>2, <4>3
        <4> HIDE DEF t
        <4>7. DaysAndHour(t) + 1 <= DaysAndHour(turn[t])
          BY <1>4, <2>6, <4>2, <4>3, <4>5, <4>6, TurnOverDay
        <4> QED BY <4>2, <4>7 DEF t
      <3> DEFINE F(n) == DaysAndHour(at[n])
                 G == {n \in 0..L : F(0) + n <= F(n)}
      <3>4. \A n \in 0..L : F(n) \in Int
        <4> TAKE n \in 0..L
        <4>1. at[n] \in Int
          BY <1>11, <2>7
        <4>2. LocalDay(at[n]) \in Int
          BY <4>1, DayOfTime
        <4> QED BY <4>2 DEF DaysAndHour
      <3>5. 0 \in G
        <4>1. 0 \in 0..L /\ F(0) \in Int
          BY <2>7, <3>4
        <4> HIDE DEF F, L
        <4> QED BY <4>1
      <3>6. ASSUME NEW n \in 1..L, n - 1 \in G PROVE n \in G
        <4>1. n \in 0..L /\ n - 1 \in 0..L /\ 0 \in 0..L /\ n \in Int
          BY <2>7
        <4>2. F(0) \in Int /\ F(n - 1) \in Int /\ F(n) \in Int /\ F(n - 1) + 1 <= F(n)
          BY <3>3, <3>4, <4>1
        <4>3. F(0) + (n - 1) <= F(n - 1)
          BY <3>6
        <4> HIDE DEF F, L
        <4>4. F(0) + n <= F(n)
          BY <4>1, <4>2, <4>3
        <4> QED BY <4>1, <4>4
      <3>7. L \in G
        <4>1. G \in SUBSET (0..L) /\ L \in 0..L
          BY <2>7
        <4> HIDE DEF G, L
        <4> QED BY <2>7, <3>5, <3>6, <4>1, Induction
      <3>8. F(0) + 11 <= F(L)
        <4>1. F(0) + L <= F(L) /\ F(0) \in Int /\ F(L) \in Int
          <5>1. 0 \in 0..L /\ L \in 0..L
            BY <2>7
          <5> HIDE DEF F, L
          <5> QED BY <3>4, <3>7, <5>1
        <4> HIDE DEF F, L
        <4> QED BY <2>7, <4>1
      <3>9. at[L] \in Nat /\ at[L] <= at[M] /\ at[0] = now /\ at[M] \in Nat
        <4>1. L \in 0..L /\ M \in 0..M
          BY <1>6, <2>7
        <4> HIDE DEF L, M
        <4> QED BY <1>5, <1>11, <2>7, <3>2, <4>1
      <3>10. now + 8 * Day < at[L]
        <4>1. DaysAndHour(now) + 11 <= DaysAndHour(at[L])
          BY <3>8, <3>9
        <4> HIDE DEF L
        <4> QED BY <3>9, <4>1, ManyDaysAfter
      <3> HIDE DEF L, M, H
      <3> QED BY <1>6, <2>5, <3>1, <3>9, <3>10
    <2>9. \A t \in now..(H - 1) : ~Valid(t)
      <3> TAKE t \in now..(H - 1)
      <3>1. at[M] \in Nat
        BY <1>6, <1>11
      <3>2. t \in now..(at[M] - 1) /\ t < H /\ t \in Nat /\ H \in Int
        <4> HIDE DEF H, M
        <4> QED BY <2>5, <2>8, <3>1
      <3>3. ~InOne(t, period)
        <4>1. M \in 0..M
          BY <1>6
        <4> HIDE DEF H, M
        <4> QED BY <1>14, <3>2, <4>1
      <3> QED BY <1>9, <3>2, <3>3
    <2> QED BY <2>1, <2>4, <2>9 DEF IsNext
  <1> QED BY <1>15, <1>16

-----------------------------------------------------------------------------
\* The next invalid time, and where a check is moved to.

\* A time is in a range, or less than a minute after one.
Good(t, tp) == InOne(t, tp) \/ JustOver(t, tp)

\* All the times from the start to before e that are not after w are.
GoodFrom(start, e, w, tp) == \A u \in start..(e - 1) : u <= w => Good(u, tp)

\* To go past a range is to go past good times.
LEMMA PastKeepsGood ==
    ASSUME NEW tp \in Periods, NEW start \in Nat, NEW t \in Nat, NEW w \in Nat,
           start <= t, \A v \in start..w : Ordinary(v), NEW e \in Nat, t <= e,
           GoodFrom(start, e, w, tp), NEW r \in ToSet(matching_timerange(t, tp))
    PROVE  /\ PastRange(e, r, Midnight(t)) \in Nat /\ e <= PastRange(e, r, Midnight(t))
           /\ GoodFrom(start, PastRange(e, r, Midnight(t)), w, tp)
           /\ PastRange(e, r, Midnight(t)) # e => PastRange(e, r, Midnight(t)) > e + Minute
           /\ IsIn(e, r) /\ Midnight(e) = Midnight(t) /\ Midnight(t) + r.end # e
                  => PastRange(e, r, Midnight(t)) # e
  <1> DEFINE m == Midnight(t)
             x == m + r.end
             turned == PastRange(e, r, m)
  <1>1. /\ m \in Int /\ t < m + Day /\ Day \in Nat /\ Minute \in Nat /\ 0 < Minute
        /\ r.start \in Nat /\ r.end \in Nat /\ r.end <= Day /\ m <= t
    BY DayOfTime, Clock, RangesTyped
  <1>2. CASE ~(m + r.start <= e /\ x > e)
    <2>1. turned = e
      BY <1>2 DEF PastRange
    <2>2. IsIn(e, r) /\ Midnight(e) = m => x = e
      <3> HIDE DEF m
      <3> QED BY <1>1, <1>2 DEF IsIn
    <2> HIDE DEF turned
    <2> QED BY <2>1, <2>2 DEF turned
  <1>3. CASE m + r.start <= e /\ x > e
    <2>1. turned = x + Minute
      BY <1>3 DEF PastRange
    <2>2. x \in Int /\ x <= m + Day /\ r.end # 0 /\ m + r.start <= e /\ x > e
      <3> HIDE DEF m
      <3> QED BY <1>1, <1>3
    <2>3. r \in Ranges(t, tp)
      BY <2>2 DEF Ranges
    <2> HIDE DEF turned, x
    <2>4. turned \in Nat /\ e <= turned /\ turned > e + Minute
      BY <1>1, <2>1, <2>2
    <2>5. ASSUME NEW u \in start..(turned - 1), u <= w PROVE Good(u, tp)
      <3>1. u \in Nat /\ start <= u /\ u < x + Minute
        BY <1>1, <2>1, <2>2, <2>4
      <3>2. CASE u < e
        <4>1. u \in start..(e - 1)
          BY <3>1, <3>2
        <4> QED BY <2>5, <4>1 DEF GoodFrom
      <3>3. CASE e <= u
        <4>1. t \in start..w
          BY <2>5, <3>1, <3>3
        <4>2. Ordinary(t)
          BY <4>1
        <4>3. LocalDay(t) # LocalDay(DstStart)
          BY <4>2 DEF Ordinary
        <4>4. CASE u <= x /\ u < m + Day
          <5>1. m <= u
            <6> HIDE DEF m
            <6> QED BY <1>1, <3>1, <3>3
          <5>2. SameSpan(t, u) /\ Midnight(u) = m
            BY <3>1, <4>2, <4>4, <5>1, OrdinaryDay DEF SameSpan
          <5>3. Ranges(u, tp) = Ranges(t, tp)
            <6>1. t <= u
              BY <3>1, <3>3
            <6> QED BY <3>1, <4>3, <5>2, <6>1, SameRanges
          <5>4. IsIn(u, r)
            <6>1. m + r.start <= u
              <7> HIDE DEF m
              <7> QED BY <1>1, <2>2, <3>1, <3>3
            <6> QED BY <4>4, <5>2, <6>1 DEF IsIn, x
          <5>5. InOne(u, tp)
            BY <2>3, <5>3, <5>4 DEF InOne
          <5> QED BY <5>5 DEF Good
        <4>5. CASE ~(u <= x /\ u < m + Day)
          <5>1. x <= u
            <6> HIDE DEF m
            <6> QED BY <1>1, <2>2, <3>1, <4>5
          <5> DEFINE z == x - 1
          <5>2. z \in Int /\ t <= z /\ m <= z /\ z < m + Day
            <6> HIDE DEF m
            <6> QED BY <1>1, <2>2
          <5> HIDE DEF z
          <5>3. SameSpan(t, z) /\ Midnight(z) = m
            BY <4>2, <5>2, OrdinaryDay DEF SameSpan
          <5>4. matching_timerange(z, tp) = matching_timerange(t, tp)
            BY <4>3, <5>2, <5>3, SameRanges
          <5>5. Midnight(z) + r.end = x
            BY <5>3 DEF x
          <5>6. AtEnd(x, tp)
            <6>1. z \in {x - 1, x}
              BY DEF z
            <6>2. r \in ToSet(matching_timerange(z, tp))
              BY <5>4
            <6> QED BY <5>5, <6>1, <6>2 DEF AtEnd
          <5>7. x \in (u - Minute + 1)..u
            BY <1>1, <2>2, <3>1, <5>1
          <5> QED BY <5>6, <5>7 DEF Good, JustOver
        <4> QED BY <4>4, <4>5
      <3> QED BY <3>1, <3>2, <3>3
    <2>6. GoodFrom(start, turned, w, tp)
      BY <2>5 DEF GoodFrom
    <2>7. turned # e
      BY <1>1, <2>4
    <2> QED BY <2>4, <2>6, <2>7 DEF turned
  <1> QED BY <1>2, <1>3

\* So it is with all the ranges of a day, and from within one something is passed.
LEMMA PastRangesKeepGood ==
    ASSUME NEW tp \in Periods, NEW start \in Nat, NEW t \in Nat, NEW w \in Nat,
           start <= t, \A v \in start..w : Ordinary(v), GoodFrom(start, t, w, tp)
    PROVE  /\ PastRanges(t, tp) \in Nat
           /\ GoodFrom(start, PastRanges(t, tp), w, tp)
           /\ PastRanges(t, tp) = t \/ PastRanges(t, tp) > t + Minute
           /\ InOne(t, tp) /\ ~AtEnd(t, tp) => PastRanges(t, tp) # t
  <1> DEFINE ranges == matching_timerange(t, tp)
             N == Len(ranges)
             m == Midnight(t)
  <1>1. PICK past \in [0..N -> Nat] :
            /\ past[0] = t /\ PastRanges(t, tp) = past[N]
            /\ \A i \in 1..N : past[i] = PastRange(past[i - 1], ranges[i], m)
    BY PastIs
  <1>2. N \in Nat /\ ToSet(ranges) = {ranges[i] : i \in 1..N}
    <2>1. t \in Int
      OBVIOUS
    <2>2. ranges \in Seq(Timeranges)
      BY <2>1, MatchingRanges, Zenon
    <2> HIDE DEF ranges
    <2>3. N \in Nat /\ DOMAIN ranges = 1..N
      BY <2>2, LenProperties
    <2> QED BY <2>3 DEF ToSet
  <1>3. Minute \in Nat /\ 0 < Minute
    BY Clock
  <1> DEFINE J(v) == v = t \/ v > t + Minute
             In(i) == IsIn(t, ranges[i]) /\ m + ranges[i].end # t
             G == {i \in 0..N : /\ past[i] \in Nat /\ t <= past[i] /\ J(past[i])
                                /\ GoodFrom(start, past[i], w, tp)
                                /\ (\E j \in 1..i : In(j)) => past[i] # t}
  <1>4. 0 \in G
    <2>1. 0 \in 0..N /\ ~\E j \in 1..0 : In(j)
      BY <1>2
    <2> HIDE DEF N, In
    <2> QED BY <1>1, <2>1
  <1>5. ASSUME NEW i \in 1..N, i - 1 \in G PROVE i \in G
    <2> DEFINE e == past[i - 1]
               r == ranges[i]
               turned == PastRange(e, r, m)
    <2>1. i \in 0..N /\ i \in Int
      BY <1>2
    <2>2. /\ e \in Nat /\ t <= e /\ J(e) /\ GoodFrom(start, e, w, tp)
          /\ (\E j \in 1..(i - 1) : In(j)) => e # t
      <3> HIDE DEF J, In, N
      <3> QED BY <1>5
    <2>3. r \in ToSet(ranges)
      <3> HIDE DEF N, ranges
      <3> QED BY <1>2
    <2>4. past[i] = turned
      BY <1>1
    <2>5. /\ turned \in Nat /\ e <= turned /\ GoodFrom(start, turned, w, tp)
          /\ turned # e => turned > e + Minute
          /\ IsIn(e, r) /\ Midnight(e) = m /\ m + r.end # e => turned # e
      <3> HIDE DEF e, r
      <3> QED BY <2>2, <2>3, PastKeepsGood
    <2>6. e = t /\ In(i) => turned # t
      BY <2>5
    <2> HIDE DEF e, r, turned
    <2>7. t <= turned /\ J(turned)
      BY <1>3, <2>2, <2>5
    <2>8. ASSUME NEW j \in 1..i, In(j) PROVE turned # t
      <3>1. CASE j = i
        <4>1. In(i)
          BY <2>8, <3>1
        <4>2. e # t => turned # t
          BY <1>3, <2>2, <2>5
        <4> QED BY <2>6, <4>1, <4>2
      <3>2. CASE j # i
        <4>1. j \in 1..(i - 1)
          BY <2>1, <3>2
        <4>2. e # t
          <5> HIDE DEF In
          <5> QED BY <2>2, <2>8, <4>1
        <4> QED BY <1>3, <2>2, <2>5, <4>2
      <3> QED BY <3>1, <3>2
    <2> HIDE DEF J, In, N
    <2> QED BY <2>1, <2>4, <2>5, <2>7, <2>8
  <1>6. N \in G
    <2>1. G \in SUBSET (0..N) /\ N \in 0..N
      BY <1>2
    <2> HIDE DEF G, N
    <2>2. \A i \in 0..N : i \in G
      BY <1>2, <1>4, <1>5, <2>1, Induction
    <2> QED BY <2>1, <2>2
  <1>7. ASSUME InOne(t, tp), ~AtEnd(t, tp) PROVE \E j \in 1..N : In(j)
    <2>1. PICK q \in Ranges(t, tp) : IsIn(t, q)
      BY <1>7 DEF InOne
    <2>2. q \in ToSet(ranges)
      BY <2>1 DEF Ranges
    <2>3. m + q.end # t
      <3>1. t \in {t - 1, t}
        OBVIOUS
      <3> QED BY <1>7, <2>2, <3>1 DEF AtEnd
    <2>4. PICK j \in 1..N : q = ranges[j]
      <3> HIDE DEF ranges, N
      <3> QED BY <1>2, <2>2
    <2> QED BY <2>1, <2>3, <2>4
  <1> HIDE DEF J, In, N
  <1>8. /\ past[N] \in Nat /\ J(past[N]) /\ GoodFrom(start, past[N], w, tp)
        /\ (\E j \in 1..N : In(j)) => past[N] # t
    BY <1>6
  <1> QED BY <1>1, <1>7, <1>8 DEF J

LEMMA NextInvalidIs ==
    ASSUME NEW pref \in Nat, NEW tp \in Periods
    PROVE  \E valid \in TimesOf :
              next_invalid_time(pref, tp) = Settled(InvalidTurn(valid, tp), pref)
  <1>1. MaxChain \in 1..MaxChain /\ MaxChain - 1 \in 0..MaxChain
    BY ChainLength
  <1>2. /\ answers[MaxChain] = Answers(answers[MaxChain - 1])
        /\ answers[MaxChain - 1] \in [valid : TimesOf, invalid : TimesOf]
    BY <1>1, AnswersAre
  <1>3. answers[MaxChain - 1].valid \in TimesOf
    BY <1>2
  <1> DEFINE below == answers[MaxChain - 1]
  <1>4. next_invalid_time(pref, tp) = Answers(below).invalid[tp][pref]
    BY <1>2 DEF next_invalid_time
  <1>5. Answers(below).invalid[tp][pref] = Settled(InvalidTurn(below.valid, tp), pref)
    <2> HIDE DEF below
    <2> QED BY DEF Answers
  <1> QED BY <1>3, <1>4, <1>5

LEMMA MovedStaysWithin ==
    ASSUME period \in Periods, now \in Nat,
           moved = reschedule_within_timeperiod(now, period, CheckWindow),
           CheckWindow <= (MaxDepth - 2) * Minute
    PROVE  MovedWithinPeriod
  <1>1. SUFFICES ASSUME Excluded = {}, Valid(now), ~AtEnd(now, period),
                        \A t \in moved : Ordinary(t),
                        NEW w \in moved
                 PROVE  Valid(w) \/ JustOver(w, period)
    BY DEF MovedWithinPeriod
  <1>2. Exclusions(period) = <<>>
    BY <1>1, NoExclusions DEF Excluded
  <1>3. PICK valid \in TimesOf : next_invalid_time(now, period) = Settled(InvalidTurn(valid, period), now)
    BY NextInvalidIs
  <1> DEFINE turn == InvalidTurn(valid, period)
             M == MaxDepth - 1
             invalid == next_invalid_time(now, period)
             nudge == invalid - Minute - now
             W == IF nudge <= 0 \/ nudge > CheckWindow THEN CheckWindow ELSE nudge
  <1>4. turn \in [Nat -> Nat] /\ \A t \in Nat : turn[t] = PastRanges(t, period)
    BY <1>2, InvalidTurnTyped
  <1>5. PICK at \in [0..MaxDepth -> Nat] :
            /\ at[0] = now /\ \A n \in 1..MaxDepth : at[n] = turn[at[n - 1]]
            /\ Settled(turn, now) = IF at[MaxDepth - 1] = at[MaxDepth - 2] THEN at[MaxDepth - 1] ELSE now
    <2> HIDE DEF turn
    <2> QED BY <1>4, SettledIs
  <1>6. /\ MaxDepth \in Nat /\ M \in Nat /\ M \in 1..MaxDepth /\ M - 1 = MaxDepth - 2 /\ 12 <= M
        /\ M \in 0..M /\ Minute \in Nat /\ 0 < Minute /\ CheckWindow \in Nat /\ M <= MaxDepth
    BY Clock
  <1>7. invalid = IF at[M] = at[M - 1] THEN at[M] ELSE now
    BY <1>3, <1>5, <1>6
  <1>8. \A n \in 0..M : at[n] \in Nat
    BY <1>6
  <1>9. moved = {now + n : n \in 0..W}
    BY DEF reschedule_within_timeperiod, Nudges
  <1>10. W \in Nat /\ invalid \in Nat
    <2>1. invalid \in Nat
      <3> HIDE DEF invalid, M
      <3> QED BY <1>6, <1>7, <1>8
    <2> HIDE DEF invalid
    <2> QED BY <1>6, <2>1
  <1>11. PICK k \in 0..W : w = now + k
    <2> HIDE DEF W
    <2> QED BY <1>1, <1>9
  <1>12. w \in Nat /\ now <= w /\ w <= now + W
    <2> HIDE DEF W
    <2> QED BY <1>10, <1>11
  <1>13. \A v \in now..w : Ordinary(v)
    <2> TAKE v \in now..w
    <2>1. v - now \in 0..W /\ v = now + (v - now)
      <3> HIDE DEF W
      <3> QED BY <1>10, <1>12
    <2>2. v \in moved
      <3> HIDE DEF W
      <3> QED BY <1>9, <2>1
    <2> QED BY <1>1, <2>2
  <1> HIDE DEF turn, invalid
  <1> DEFINE G == {n \in 0..M : now <= at[n] /\ GoodFrom(now, at[n], w, period)}
  <1>14. 0 \in G
    <2>1. now..(now - 1) = {} /\ 0 \in 0..M
      BY <1>6
    <2> HIDE DEF M
    <2> QED BY <1>5, <2>1 DEF GoodFrom
  <1>15. ASSUME NEW n \in 1..M, n - 1 \in G
         PROVE  n \in G /\ (at[n] = at[n - 1] \/ at[n] > at[n - 1] + Minute)
    <2>1. n \in 0..M /\ n - 1 \in 0..M /\ n \in 1..MaxDepth
      BY <1>6
    <2> DEFINE t == at[n - 1]
    <2>2. t \in Nat /\ now <= t /\ GoodFrom(now, t, w, period)
      <3> HIDE DEF M
      <3> QED BY <1>8, <1>15, <2>1
    <2>3. at[n] = PastRanges(t, period)
      <3>1. at[n] = turn[t]
        BY <1>5, <2>1
      <3> HIDE DEF t
      <3> QED BY <1>4, <2>2, <3>1
    <2> HIDE DEF t
    <2>4. /\ PastRanges(t, period) \in Nat /\ GoodFrom(now, PastRanges(t, period), w, period)
          /\ PastRanges(t, period) = t \/ PastRanges(t, period) > t + Minute
      BY <1>1, <1>12, <1>13, <2>2, PastRangesKeepGood
    <2>5. now <= at[n] /\ (at[n] = t \/ at[n] > t + Minute) /\ GoodFrom(now, at[n], w, period)
      BY <1>6, <2>2, <2>3, <2>4
    <2> HIDE DEF M
    <2> QED BY <2>1, <2>5 DEF t
  <1>16. \A n \in 0..M : n \in G
    <2>1. G \in SUBSET (0..M)
      OBVIOUS
    <2> HIDE DEF G, M
    <2> QED BY <1>6, <1>14, <1>15, <2>1, Induction
  <1>17. \A n \in 1..M : at[n] = at[n - 1] \/ at[n] > at[n - 1] + Minute
    <2>1. \A n \in 1..M : n - 1 \in 0..M
      BY <1>6
    <2> HIDE DEF G, M
    <2> QED BY <1>15, <1>16, <2>1
  <1>18. SUFFICES w < at[M]
    <2>1. GoodFrom(now, at[M], w, period) /\ at[M] \in Nat
      <3> HIDE DEF M
      <3> QED BY <1>6, <1>8, <1>16
    <2>2. w < at[M] => w \in now..(at[M] - 1) /\ w <= w
      <3> HIDE DEF M
      <3> QED BY <1>12, <2>1
    <2>3. w < at[M] => Good(w, period)
      BY <2>1, <2>2 DEF GoodFrom
    <2> QED BY <1>1, <1>12, <2>3, ValidIs DEF Good
  <1>19. at[M] > now + Minute /\ at[M] \in Nat
    <2>1. 1 \in 1..M /\ 1 - 1 = 0 /\ 1 \in 1..MaxDepth /\ 1 \in 0..M
      BY <1>6
    <2>2. at[1] = PastRanges(now, period)
      <3>1. at[1] = turn[at[0]]
        BY <1>5, <2>1
      <3> QED BY <1>4, <1>5, <3>1
    <2>3. PastRanges(now, period) > now + Minute
      <3>1. GoodFrom(now, now, w, period)
        <4>1. now..(now - 1) = {}
          OBVIOUS
        <4> QED BY <4>1 DEF GoodFrom
      <3>2. now <= now
        OBVIOUS
      <3>3. InOne(now, period)
        BY <1>1, ValidIs
      <3>4. /\ PastRanges(now, period) = now \/ PastRanges(now, period) > now + Minute
            /\ PastRanges(now, period) # now
        BY <1>1, <1>12, <1>13, <3>1, <3>2, <3>3, PastRangesKeepGood
      <3> QED BY <3>4
    <2> DEFINE L == {n \in 0..(M - 1) : at[n + 1] > now + Minute}
    <2>4. 0 \in L
      <3>1. 0 + 1 = 1 /\ 0 \in 0..(M - 1)
        BY <1>6
      <3> HIDE DEF M
      <3> QED BY <2>2, <2>3, <3>1
    <2>5. ASSUME NEW n \in 1..(M - 1), n - 1 \in L PROVE n \in L
      <3> DEFINE j == n + 1
      <3>1. j \in 1..M /\ j - 1 = n /\ (n - 1) + 1 = n /\ n \in 0..(M - 1) /\ j \in 0..M /\ n \in 0..M
        BY <1>6
      <3>2. at[n] > now + Minute
        BY <2>5, <3>1
      <3>3. (at[j] = at[n] \/ at[j] > at[n] + Minute) /\ at[j] \in Nat /\ at[n] \in Nat
        <4> HIDE DEF j, M
        <4> QED BY <1>8, <1>17, <3>1
      <3>4. at[j] > now + Minute
        <4> HIDE DEF j
        <4> QED BY <1>6, <3>2, <3>3
      <3> QED BY <3>1, <3>4
    <2>6. M - 1 \in L
      <3> DEFINE N == M - 1
      <3>1. N \in Nat /\ L \in SUBSET (0..N) /\ N \in 0..N /\ 0 \in L
            /\ \A n \in 1..N : n - 1 \in L => n \in L
        BY <1>6, <2>4, <2>5
      <3> HIDE DEF L, N
      <3>2. \A n \in 0..N : n \in L
        BY <3>1, Induction
      <3>3. N \in L
        BY <3>1, <3>2
      <3> QED BY <3>3 DEF N
    <2>7. (M - 1) + 1 = M /\ at[M] \in Nat
      BY <1>6, <1>8
    <2>8. at[M] > now + Minute
      BY <2>6, <2>7
    <2> HIDE DEF M, L
    <2> QED BY <2>7, <2>8
  <1>20. CASE at[M] = at[M - 1]
    <2>1. invalid = at[M]
      BY <1>7, <1>20
    <2>2. W <= nudge
      <3> HIDE DEF M
      <3> QED BY <1>6, <1>10, <1>19, <2>1
    <2> QED BY <1>6, <1>10, <1>12, <2>1, <2>2
  <1>21. CASE at[M] # at[M - 1]
    <2>1. invalid = now
      BY <1>7, <1>21
    <2>2. W = CheckWindow
      BY <1>6, <2>1
    <2>3. \A n \in 1..M : at[n] > at[n - 1] + Minute
      <3> TAKE n \in 1..M
      <3>1. at[n] # at[n - 1]
        <4> HIDE DEF M
        <4> QED BY <1>4, <1>5, <1>6, <1>21, StaysSettled
      <3> HIDE DEF M
      <3> QED BY <1>17, <3>1
    <2> DEFINE L == {n \in 0..M : at[n] >= now + n * Minute}
    <2>4. 0 \in L
      <3>1. 0 \in 0..M /\ now + 0 * Minute = now
        BY <1>6
      <3> HIDE DEF M
      <3> QED BY <1>5, <3>1
    <2>5. ASSUME NEW n \in 1..M, n - 1 \in L PROVE n \in L
      <3> DEFINE a == (n - 1) * Minute
                 b == n * Minute
      <3>1. n \in 0..M /\ n - 1 \in 0..M /\ n \in Int /\ n - 1 \in Int
        BY <1>6
      <3>2. a \in Int /\ b = a + Minute
        BY <1>6, <3>1
      <3>3. at[n - 1] >= now + a /\ at[n] > at[n - 1] + Minute /\ at[n] \in Nat /\ at[n - 1] \in Nat
        <4> HIDE DEF M
        <4> QED BY <1>8, <2>3, <2>5, <3>1
      <3> HIDE DEF a, b
      <3>4. at[n] >= now + b
        BY <1>6, <3>2, <3>3
      <3> QED BY <3>1, <3>4 DEF b
    <2>6. M \in L
      <3>1. M \in Nat /\ L \in SUBSET (0..M) /\ M \in 0..M /\ 0 \in L
            /\ \A n \in 1..M : n - 1 \in L => n \in L
        BY <1>6, <2>4, <2>5
      <3> HIDE DEF L, M
      <3>2. \A n \in 0..M : n \in L
        BY <3>1, Induction
      <3> QED BY <3>1, <3>2
    <2> DEFINE a == (MaxDepth - 2) * Minute
               b == M * Minute
    <2>7. a \in Int /\ b = a + Minute
      BY <1>6
    <2>8. at[M] >= now + b /\ at[M] \in Nat
      BY <1>6, <1>8, <2>6
    <2>9. CheckWindow <= a
      OBVIOUS
    <2> HIDE DEF a, b, M, W
    <2> QED BY <1>6, <1>12, <2>2, <2>7, <2>8, <2>9
  <1> QED BY <1>20, <1>21

-----------------------------------------------------------------------------
\* The next valid time, with exclusions that have none themselves.

\* To go past the ranges of a day is not to go back.
LEMMA PastIsLater ==
    ASSUME NEW tp \in Periods, NEW t \in Nat
    PROVE  PastRanges(t, tp) \in Nat /\ t <= PastRanges(t, tp)
  <1> DEFINE ranges == matching_timerange(t, tp)
             N == Len(ranges)
             m == Midnight(t)
  <1>1. PICK past \in [0..N -> Nat] :
            /\ past[0] = t /\ PastRanges(t, tp) = past[N]
            /\ \A i \in 1..N : past[i] = PastRange(past[i - 1], ranges[i], m)
    BY PastIs
  <1>2. N \in Nat /\ \A i \in 1..N : ranges[i] \in ToSet(ranges)
    <2>1. t \in Int
      OBVIOUS
    <2>2. ranges \in Seq(Timeranges)
      BY <2>1, MatchingRanges, Zenon
    <2> HIDE DEF ranges
    <2>3. N \in Nat /\ DOMAIN ranges = 1..N
      BY <2>2, LenProperties
    <2> QED BY <2>3 DEF ToSet
  <1>3. m \in Int /\ Minute \in Nat
    BY DayOfTime, Clock
  <1> DEFINE G == {i \in 0..N : t <= past[i]}
  <1>4. 0 \in G
    <2>1. 0 \in 0..N
      BY <1>2
    <2> HIDE DEF N
    <2> QED BY <1>1, <2>1
  <1>5. ASSUME NEW i \in 1..N, i - 1 \in G PROVE i \in G
    <2> DEFINE e == past[i - 1]
               x == m + ranges[i].end
    <2>1. i \in 0..N /\ e \in Nat /\ t <= e /\ past[i] \in Nat
      <3> HIDE DEF N
      <3> QED BY <1>2, <1>5
    <2>2. past[i] = e \/ (x > e /\ past[i] = x + Minute)
      BY <1>1 DEF PastRange
    <2>3. x \in Int
      <3>1. ranges[i].end \in Nat
        BY <1>2, RangesTyped
      <3> HIDE DEF m, ranges
      <3> QED BY <1>3, <3>1
    <2> HIDE DEF e, x, N
    <2>4. t <= past[i]
      BY <1>3, <2>1, <2>2, <2>3
    <2> QED BY <2>1, <2>4
  <1>6. N \in G
    <2>1. G \in SUBSET (0..N) /\ N \in 0..N
      BY <1>2
    <2> HIDE DEF G, N
    <2>2. \A i \in 0..N : i \in G
      BY <1>2, <1>4, <1>5, <2>1, Induction
    <2> QED BY <2>1, <2>2
  <1>7. N \in 0..N
    BY <1>2
  <1> HIDE DEF N
  <1> QED BY <1>1, <1>6, <1>7

\* At every depth the next invalid time is found in the same way when there are no
\* exclusions; it is not before the time asked about, and to go there is to go past
\* good times.
LEMMA InvalidWithout ==
    ASSUME NEW n \in 1..MaxChain, NEW x \in Periods, NEW e \in Nat, Exclusions(x) = <<>>
    PROVE  /\ answers[n].invalid[x][e] = next_invalid_time(e, x)
           /\ next_invalid_time(e, x) \in Nat /\ e <= next_invalid_time(e, x)
           /\ \A w \in Nat : (\A v \in e..w : Ordinary(v))
                                 => GoodFrom(e, next_invalid_time(e, x), w, x)
  <1> DEFINE turn == [t \in Nat |-> PastRanges(t, x)]
             M == MaxDepth - 1
             it == next_invalid_time(e, x)
  <1>1. ASSUME NEW k \in 1..MaxChain PROVE answers[k].invalid[x][e] = Settled(turn, e)
    <2>1. k - 1 \in 0..MaxChain
      BY ChainLength
    <2> DEFINE below == answers[k - 1]
    <2>2. answers[k] = Answers(below) /\ below.valid \in TimesOf
      <3>1. below \in [valid : TimesOf, invalid : TimesOf]
        BY <2>1, AnswersAre
      <3>2. answers[k] = Answers(below)
        BY AnswersAre
      <3> HIDE DEF below
      <3> QED BY <3>1, <3>2
    <2> HIDE DEF below
    <2>3. Answers(below).invalid[x][e] = Settled(InvalidTurn(below.valid, x), e)
      BY DEF Answers
    <2>4. InvalidTurn(below.valid, x) = turn
      <3> DEFINE f == InvalidTurn(below.valid, x)
      <3>1. f \in [Nat -> Nat] /\ \A t \in Nat : f[t] = PastRanges(t, x)
        BY <2>2, InvalidTurnTyped
      <3> HIDE DEF f
      <3>2. f = turn
        BY <3>1
      <3> QED BY <3>2 DEF f
    <2> HIDE DEF turn
    <2> QED BY <2>2, <2>3, <2>4
  <1>2. turn \in [Nat -> Nat] /\ \A t \in Nat : turn[t] = PastRanges(t, x) /\ t <= turn[t]
    BY PastIsLater
  <1>3. it = Settled(turn, e) /\ answers[n].invalid[x][e] = it
    <2>1. MaxChain \in 1..MaxChain
      BY ChainLength
    <2> HIDE DEF turn
    <2> QED BY <1>1, <2>1 DEF next_invalid_time
  <1> HIDE DEF turn
  <1>4. PICK at \in [0..MaxDepth -> Nat] :
            /\ at[0] = e /\ \A k \in 1..MaxDepth : at[k] = turn[at[k - 1]]
            /\ Settled(turn, e) = IF at[MaxDepth - 1] = at[MaxDepth - 2] THEN at[MaxDepth - 1] ELSE e
    BY <1>2, SettledIs
  <1>5. /\ MaxDepth \in Nat /\ M \in Nat /\ M \in 0..M /\ 0 \in 0..M /\ M <= MaxDepth
        /\ \A k \in 1..M : k \in 1..MaxDepth /\ k \in 0..M /\ k - 1 \in 0..M
    BY Clock
  <1>6. \A k \in 0..M : at[k] \in Nat
    BY <1>5
  <1>7. \A k \in 1..M : at[k] = PastRanges(at[k - 1], x) /\ at[k - 1] <= at[k]
    <2> TAKE k \in 1..M
    <2>1. at[k] = turn[at[k - 1]] /\ at[k - 1] \in Nat
      <3> HIDE DEF M
      <3> QED BY <1>4, <1>5, <1>6
    <2> QED BY <1>2, <2>1
  <1>8. it \in {at[M], e}
    BY <1>3, <1>4
  <1> HIDE DEF it
  <1>9. \A k \in 0..M : e <= at[k]
    <2> DEFINE G == {k \in 0..M : e <= at[k]}
    <2>1. 0 \in G
      <3> HIDE DEF M
      <3> QED BY <1>4, <1>5
    <2>2. ASSUME NEW k \in 1..M, k - 1 \in G PROVE k \in G
      <3>1. k \in 0..M /\ at[k - 1] \in Nat /\ at[k] \in Nat /\ at[k - 1] <= at[k] /\ e <= at[k - 1]
        <4> HIDE DEF M
        <4> QED BY <1>5, <1>6, <1>7, <2>2
      <3>2. e <= at[k]
        BY <3>1
      <3> HIDE DEF M
      <3> QED BY <3>1, <3>2
    <2>3. \A k \in 0..M : k \in G
      <3>1. G \in SUBSET (0..M)
        OBVIOUS
      <3> HIDE DEF G, M
      <3> QED BY <1>5, <2>1, <2>2, <3>1, Induction
    <2> QED BY <2>3
  <1>10. it \in Nat /\ e <= it
    <2>1. at[M] \in Nat /\ e <= at[M]
      <3> HIDE DEF M
      <3> QED BY <1>5, <1>6, <1>9
    <2> HIDE DEF M
    <2> QED BY <1>8, <2>1
  <1>11. ASSUME NEW w \in Nat, \A v \in e..w : Ordinary(v) PROVE GoodFrom(e, it, w, x)
    <2> DEFINE G == {k \in 0..M : GoodFrom(e, at[k], w, x)}
    <2>1. e..(e - 1) = {}
      OBVIOUS
    <2>2. 0 \in G
      <3> HIDE DEF M
      <3> QED BY <1>4, <1>5, <2>1 DEF GoodFrom
    <2>3. ASSUME NEW k \in 1..M, k - 1 \in G PROVE k \in G
      <3> DEFINE t == at[k - 1]
      <3>1. k \in 0..M /\ t \in Nat /\ e <= t /\ GoodFrom(e, t, w, x) /\ at[k] = PastRanges(t, x)
        <4> HIDE DEF M
        <4> QED BY <1>5, <1>6, <1>7, <1>9, <2>3
      <3> HIDE DEF t
      <3>2. GoodFrom(e, PastRanges(t, x), w, x)
        BY <1>11, <3>1, PastRangesKeepGood
      <3> HIDE DEF M
      <3> QED BY <3>1, <3>2
    <2>4. \A k \in 0..M : k \in G
      <3>1. G \in SUBSET (0..M)
        OBVIOUS
      <3> HIDE DEF G, M
      <3> QED BY <1>5, <2>2, <2>3, <3>1, Induction
    <2>5. GoodFrom(e, at[M], w, x)
      <3> HIDE DEF M
      <3> QED BY <1>5, <2>4
    <2>6. GoodFrom(e, e, w, x)
      BY <2>1 DEF GoodFrom
    <2> HIDE DEF M
    <2> QED BY <1>8, <2>5, <2>6
  <1> QED BY <1>3, <1>10, <1>11 DEF it

\* No period is excluded from itself, as it has an exclusion and that has none.
LEMMA ExclusionsAre ==
    ASSUME period \in Periods, NEW x \in Excluded, Exclusions(x) = <<>>
    PROVE  x \in Periods /\ MaxChain - 1 \in 1..MaxChain /\ MaxChain \in 1..MaxChain
  <1>1. Exclusions(period) \in Seq(Periods)
    BY PeriodParts
  <1>2. PICK i \in DOMAIN Exclusions(period) : x = Exclusions(period)[i]
    BY DEF Excluded, ToSet
  <1>3. x \in Periods
    BY <1>1, <1>2
  <1>4. x # period
    <2>1. DOMAIN Exclusions(x) = {}
      OBVIOUS
    <2> QED BY <1>2, <2>1
  <1>5. MaxChain \in Nat /\ MaxChain >= 2
    BY <1>3, <1>4, ChainLength
  <1> QED BY <1>3, <1>5

\* A time is within the period when it is in one of its ranges and of no exclusion's.
LEMMA CheckedWith ==
    ASSUME period \in Periods, \A x \in Excluded : Exclusions(x) = <<>>, NEW t \in Nat
    PROVE  /\ \A x \in Excluded : check_time_against_period(t, x)
                  <=> \E r \in ToSet(matching_timerange(t, x)) : IsIn(t, r)
           /\ check_time_against_period(t, period)
                  <=> /\ \A x \in Excluded : ~check_time_against_period(t, x)
                      /\ \E r \in ToSet(matching_timerange(t, period)) : IsIn(t, r)
  <1> DEFINE was == checked[MaxChain - 1]
             In(x) == \E r \in ToSet(matching_timerange(t, x)) : IsIn(t, r)
  <1>1. ASSUME NEW x \in Excluded
        PROVE  (checked[MaxChain][x][t] <=> In(x)) /\ (was[x][t] <=> In(x))
    <2>1. Exclusions(x) = <<>>
      OBVIOUS
    <2>2. x \in Periods /\ MaxChain - 1 \in 1..MaxChain /\ MaxChain \in 1..MaxChain
      BY <2>1, ExclusionsAre
    <2> QED BY <2>1, <2>2, CheckedWithout
  <1>2. checked[MaxChain] = CheckedGiven(was)
    <2>1. MaxChain \in 1..MaxChain
      BY ChainLength
    <2> QED BY <2>1, CheckedIs
  <1> HIDE DEF was
  <1>3. CheckedGiven(was)[period][t] <=> (\A x \in Excluded : ~was[x][t]) /\ In(period)
    BY DEF CheckedGiven, Excluded
  <1> HIDE DEF In
  <1>4. \A x \in Excluded : check_time_against_period(t, x) <=> In(x)
    BY <1>1 DEF check_time_against_period
  <1>5. check_time_against_period(t, period)
            <=> (\A x \in Excluded : ~check_time_against_period(t, x)) /\ In(period)
    BY <1>1, <1>2, <1>3 DEF check_time_against_period
  <1> QED BY <1>4, <1>5 DEF In

\* A valid time that is good for an exclusion is one just after it.
LEMMA GoodForExclusion ==
    ASSUME period \in Periods, \A x \in Excluded : Exclusions(x) = <<>>,
           NEW t \in Nat, NEW x \in Excluded, Good(t, x), Valid(t)
    PROVE  t \in JustAfterExclusion
  <1>1. ~check_time_against_period(t, x)
    BY CheckedWith DEF Valid
  <1>2. ~InOne(t, x)
    <2>1. Ranges(t, x) \subseteq ToSet(matching_timerange(t, x))
      BY DEF Ranges
    <2> QED BY <1>1, <2>1, CheckedWith DEF InOne
  <1>3. JustOver(t, x)
    BY <1>2 DEF Good
  <1> QED BY <1>3 DEF JustAfterExclusion

\* A turn of _get_next_valid_time does not go back, nor past a valid time, those just
\* after an exclusion apart; it changes nothing only in a range, and when no exclusion
\* moves the time.
LEMMA TurnSkips ==
    ASSUME period \in Periods, \A x \in Excluded : Exclusions(x) = <<>>,
           NEW t \in Nat, NEW v \in Nat, v = ValidTurn(answers[MaxChain - 1].invalid, period)[t]
    PROVE  /\ t <= v
           /\ v = t => InOne(t, period) /\ \A x \in Excluded : next_invalid_time(t, x) = t
           /\ \A w \in Nat : (\A u \in t..w : Ordinary(u))
                  => \A u \in t..(v - 1) : u <= w /\ Valid(u) => u \in JustAfterExclusion
  <1> DEFINE invalid == answers[MaxChain - 1].invalid
             e == FirstOfDay(t, period)
             list == Exclusions(period)
             N == Len(list)
  <1>1. invalid \in TimesOf
    <2>1. MaxChain - 1 \in 0..MaxChain
      BY ChainLength
    <2>2. answers[MaxChain - 1] \in [valid : TimesOf, invalid : TimesOf]
      BY <2>1, AnswersAre
    <2> QED BY <2>2
  <1>2. e \in Nat /\ t <= e /\ (e = t <=> InOne(t, period))
    BY FirstIs
  <1>3. ASSUME NEW w \in Nat, \A u \in t..w : Ordinary(u), NEW u \in t..(e - 1), u <= w
        PROVE  ~Valid(u)
    <2>1. t \in t..w /\ u \in Nat /\ t <= u /\ u < e
      <3> HIDE DEF e
      <3> QED BY <1>2, <1>3
    <2>2. Ordinary(t)
      BY <1>3, <2>1
    <2>3. ~InOne(u, period)
      BY <2>1, <2>2, NoneBeforeFirst DEF Ordinary
    <2> QED BY <2>3 DEF Valid, InOne
  <1>4. CASE RangesLeft(t, period) = {}
    <2>1. v = Midnight(t) + Day
      <3> HIDE DEF invalid
      <3>1. v = ValidTurn(invalid, period)[t]
        BY DEF invalid
      <3> QED BY <1>4, <3>1 DEF ValidTurn
    <2>2. v = e
      BY <1>4, <2>1 DEF FirstOfDay
    <2>3. t # v
      <3> DEFINE m == Midnight(t)
      <3>1. m \in Int /\ t < m + Day /\ Day \in Nat /\ v = m + Day
        BY <2>1, DayOfTime, Clock
      <3> HIDE DEF m
      <3> QED BY <3>1
    <2>4. \A w \in Nat : (\A u \in t..w : Ordinary(u))
              => \A u \in t..(v - 1) : u <= w /\ Valid(u) => u \in JustAfterExclusion
      <3> HIDE DEF e
      <3> QED BY <1>3, <2>2
    <2> HIDE DEF e
    <2> QED BY <1>2, <2>2, <2>3, <2>4
  <1>5. CASE RangesLeft(t, period) # {}
    <2>1. v = AfterExclusions(invalid, e, period)
      <3>1. e = EarliestOfDay(t, period)
        BY <1>5 DEF FirstOfDay
      <3>2. v = ValidTurn(invalid, period)[t]
        OBVIOUS
      <3> HIDE DEF invalid, e
      <3> QED BY <1>5, <3>1, <3>2 DEF ValidTurn
    <2> HIDE DEF e
    <2>2. PICK after \in [0..N -> Nat] :
              /\ after[0] = e /\ AfterExclusions(invalid, e, period) = after[N]
              /\ \A i \in 1..N : after[i] = invalid[list[i]][after[i - 1]]
      <3> HIDE DEF invalid
      <3>1. period \in Periods /\ e \in Nat
        BY <1>2
      <3> QED BY <1>1, <3>1, AfterIs, ZenonT(60)
    <2>3. N \in Nat /\ ToSet(list) = {list[i] : i \in 1..N}
      <3>1. list \in Seq(Periods)
        BY PeriodParts
      <3> HIDE DEF list
      <3>2. N \in Nat /\ DOMAIN list = 1..N
        BY <3>1, LenProperties
      <3> QED BY <3>2 DEF ToSet
    <2>4. \A i \in 1..N : list[i] \in Excluded
      <3> HIDE DEF N
      <3> QED BY <2>3 DEF Excluded
    <2>5. ASSUME NEW i \in 1..N
          PROVE  /\ after[i - 1] \in Nat /\ after[i] \in Nat
                 /\ after[i] = next_invalid_time(after[i - 1], list[i])
                 /\ after[i - 1] <= after[i]
                 /\ \A w \in Nat : (\A u \in after[i - 1]..w : Ordinary(u))
                        => GoodFrom(after[i - 1], after[i], w, list[i])
      <3> DEFINE x == list[i]
                 a == after[i - 1]
      <3>1. x \in Excluded
        BY <2>4
      <3>2. a \in Nat /\ after[i] = invalid[x][a]
        <4>1. i - 1 \in 0..N
          BY <2>3
        <4> HIDE DEF N, invalid
        <4> QED BY <2>2, <4>1
      <3> HIDE DEF a, x
      <3>3. Exclusions(x) = <<>>
        BY <3>1
      <3>4. x \in Periods /\ MaxChain - 1 \in 1..MaxChain
        BY <3>1, <3>3, ExclusionsAre
      <3>5. /\ answers[MaxChain - 1].invalid[x][a] = next_invalid_time(a, x)
            /\ next_invalid_time(a, x) \in Nat /\ a <= next_invalid_time(a, x)
            /\ \A w \in Nat : (\A u \in a..w : Ordinary(u))
                                  => GoodFrom(a, next_invalid_time(a, x), w, x)
        BY <3>2, <3>3, <3>4, InvalidWithout
      <3>6. after[i] = next_invalid_time(a, x)
        BY <3>2, <3>5
      <3> QED BY <3>2, <3>5, <3>6 DEF a, x
    <2> HIDE DEF invalid
    <2>6. 0 \in 0..N /\ N \in 0..N /\ \A i \in 0..N : after[i] \in Nat
      BY <2>2, <2>3
    <2>7. \A i \in 0..N : e <= after[i]
      <3> DEFINE G == {i \in 0..N : e <= after[i]}
      <3>1. 0 \in G
        BY <1>2, <2>2, <2>6
      <3>2. ASSUME NEW i \in 1..N, i - 1 \in G PROVE i \in G
        <4>1. i \in 0..N /\ e <= after[i - 1]
          BY <2>3, <3>2
        <4>2. after[i - 1] \in Nat /\ after[i] \in Nat /\ after[i - 1] <= after[i]
          BY <2>5
        <4>3. e <= after[i]
          <5> HIDE DEF N
          <5> QED BY <1>2, <4>1, <4>2
        <4> QED BY <4>1, <4>3
      <3>3. G \in SUBSET (0..N)
        OBVIOUS
      <3> HIDE DEF G, N
      <3>4. \A i \in 0..N : i \in G
        BY <2>3, <3>1, <3>2, <3>3, Induction
      <3> QED BY <3>4 DEF G
    <2>8. v = after[N] /\ e <= v
      BY <2>1, <2>2, <2>6, <2>7
    <2>9. ASSUME v = t
          PROVE  InOne(t, period) /\ \A x \in Excluded : next_invalid_time(t, x) = t
      <3>1. e = t
        BY <1>2, <2>8, <2>9
      <3> DEFINE G == {k \in 0..N : after[N - k] = t}
      <3>2. 0 \in G
        <4>1. N - 0 = N
          BY <2>3
        <4> HIDE DEF N
        <4> QED BY <2>6, <2>8, <2>9, <4>1
      <3>3. ASSUME NEW k \in 1..N, k - 1 \in G PROVE k \in G
        <4> DEFINE i == N - (k - 1)
        <4>1. i \in 1..N /\ N - k = i - 1 /\ k \in 0..N /\ i - 1 \in 0..N
          BY <2>3
        <4>2. after[i] = t
          BY <3>3
        <4>3. after[i - 1] = t
          <5> HIDE DEF i, N
          <5>1. e <= after[i - 1]
            BY <2>7, <4>1
          <5>2. after[i - 1] \in Nat /\ after[i - 1] <= after[i]
            BY <2>5, <4>1
          <5> QED BY <3>1, <4>2, <5>1, <5>2
        <4> QED BY <4>1, <4>3
      <3>4. \A k \in 0..N : k \in G
        <4>1. G \in SUBSET (0..N)
          OBVIOUS
        <4> HIDE DEF G, N
        <4> QED BY <2>3, <3>2, <3>3, <4>1, Induction
      <3>5. ASSUME NEW i \in 0..N PROVE after[i] = t
        <4>1. N - i \in 0..N /\ N - (N - i) = i
          BY <2>3
        <4>2. N - i \in G
          <5> HIDE DEF G, N
          <5> QED BY <3>4, <4>1
        <4> QED BY <4>1, <4>2
      <3>6. ASSUME NEW x \in Excluded PROVE next_invalid_time(t, x) = t
        <4>1. PICK i \in 1..N : x = list[i]
          <5> HIDE DEF N
          <5> QED BY <2>3 DEF Excluded
        <4>2. i \in 0..N /\ i - 1 \in 0..N
          BY <2>3
        <4> HIDE DEF N, list
        <4> QED BY <2>5, <3>5, <4>1, <4>2
      <3> QED BY <1>2, <3>1, <3>6
    <2>10. ASSUME NEW w \in Nat, \A u \in t..w : Ordinary(u)
           PROVE  \A u \in t..(v - 1) : u <= w /\ Valid(u) => u \in JustAfterExclusion
      <3> DEFINE Skips(a) == \A u \in t..(a - 1) : u <= w /\ Valid(u) => u \in JustAfterExclusion
                 G == {i \in 0..N : Skips(after[i])}
      <3>1. 0 \in G
        <4>1. Skips(e)
          BY <1>3, <2>10
        <4> HIDE DEF N, Skips
        <4> QED BY <2>2, <2>6, <4>1
      <3>2. ASSUME NEW i \in 1..N, i - 1 \in G PROVE i \in G
        <4> DEFINE a == after[i - 1]
                   b == after[i]
        <4>1. i \in 0..N /\ i - 1 \in 0..N
          BY <2>3
        <4>2. Skips(a)
          BY <3>2
        <4>3. a \in Nat /\ b \in Nat /\ a <= b /\ e <= a
          BY <2>5, <2>7, <4>1
        <4>4. \A u \in a..w : Ordinary(u)
          <5> HIDE DEF a
          <5> QED BY <1>2, <2>10, <4>3
        <4>5. GoodFrom(a, b, w, list[i])
          BY <2>5, <4>4
        <4> HIDE DEF a, b
        <4>6. ASSUME NEW u \in t..(b - 1), u <= w, Valid(u) PROVE u \in JustAfterExclusion
          <5>1. u \in Nat
            OBVIOUS
          <5>2. CASE u < a
            <6>1. u \in t..(a - 1)
              BY <4>3, <5>1, <5>2
            <6> QED BY <4>2, <4>6, <6>1
          <5>3. CASE a <= u
            <6>1. u \in a..(b - 1)
              BY <4>3, <5>1, <5>3
            <6>2. Good(u, list[i])
              BY <4>5, <4>6, <6>1 DEF GoodFrom
            <6>3. list[i] \in Excluded
              BY <2>4
            <6> HIDE DEF list
            <6> QED BY <4>6, <5>1, <6>2, <6>3, GoodForExclusion
          <5> QED BY <4>3, <5>1, <5>2, <5>3
        <4>7. Skips(b)
          BY <4>6
        <4> HIDE DEF Skips, N
        <4> QED BY <4>1, <4>7 DEF b
      <3>3. \A i \in 0..N : i \in G
        <4>1. G \in SUBSET (0..N)
          OBVIOUS
        <4> HIDE DEF G, N
        <4> QED BY <2>3, <3>1, <3>2, <4>1, Induction
      <3>4. Skips(after[N])
        <4> HIDE DEF N, Skips
        <4> QED BY <2>6, <3>3
      <3> QED BY <2>8, <3>4
    <2> HIDE DEF N
    <2> QED BY <1>2, <2>8, <2>9, <2>10
  <1> QED BY <1>4, <1>5

\* The exclusion goes on from next, as far as is looked.
NoEndFound(x) ==
    check_time_against_period(next, x) /\ ~AtEnd(next, x) /\ next_invalid_time(next, x) = next

LEMMA ExcludedIsSkipped ==
    ASSUME period \in Periods, now \in Nat, next = next_valid_time(now, period),
           ~GaveUp(JustAfterExclusion), \A x \in Excluded : ~NoEndFound(x)
    PROVE  ExclusionsHold
  <1>1. SUFFICES ASSUME NotOn(DstStart, JustAfterExclusion), NotOn(DstEnd, JustAfterExclusion),
                        \A x \in Excluded : Exclusions(x) = <<>>
                 PROVE  IsNext(JustAfterExclusion)
    BY DEF ExclusionsHold
  <1> DEFINE invalid == answers[MaxChain - 1].invalid
             turn == ValidTurn(invalid, period)
             M == MaxDepth - 1
  <1>2. LookedTo(JustAfterExclusion) = next
    BY DEF LookedTo
  <1>3. invalid \in TimesOf /\ next = Settled(turn, now)
    <2>1. MaxChain \in 1..MaxChain /\ MaxChain - 1 \in 0..MaxChain
      BY ChainLength
    <2> DEFINE below == answers[MaxChain - 1]
    <2>2. answers[MaxChain] = Answers(below) /\ below \in [valid : TimesOf, invalid : TimesOf]
      BY <2>1, AnswersAre
    <2>3. next = Answers(below).valid[period][now]
      BY <2>2 DEF next_valid_time
    <2>4. Answers(below).valid[period][now] = Settled(ValidTurn(below.invalid, period), now)
      <3> HIDE DEF below
      <3> QED BY DEF Answers
    <2> QED BY <2>2, <2>3, <2>4
  <1>4. turn \in [Nat -> Nat]
    <2> HIDE DEF invalid
    <2> QED BY <1>3, ValidTurnTyped
  <1>5. PICK at \in [0..MaxDepth -> Nat] :
            /\ at[0] = now /\ \A n \in 1..MaxDepth : at[n] = turn[at[n - 1]]
            /\ Settled(turn, now) = IF at[MaxDepth - 1] = at[MaxDepth - 2] THEN at[MaxDepth - 1] ELSE now
    <2> HIDE DEF turn
    <2> QED BY <1>4, SettledIs
  <1>6. /\ MaxDepth \in Nat /\ M \in Nat /\ M \in 1..M /\ M - 1 = MaxDepth - 2 /\ 0 \in 0..M /\ M \in 0..M
        /\ M - 1 \in 0..M /\ M <= MaxDepth /\ DstStart \in Int /\ DstEnd \in Int
        /\ \A n \in 1..M : n \in 1..MaxDepth /\ n \in 0..M /\ n - 1 \in 0..M
    BY Clock
  <1>7. \A n \in 0..M : at[n] \in Nat
    BY <1>6
  <1>8. next = IF at[M] = at[M - 1] THEN at[M] ELSE now
    BY <1>3, <1>5, <1>6
  <1>9. \A n \in 1..M : at[n] = turn[at[n - 1]] /\ at[n - 1] \in Nat /\ at[n] \in Nat
    <2> HIDE DEF M, turn
    <2> QED BY <1>5, <1>6, <1>7
  <1>10. ASSUME NEW n \in 1..M
         PROVE  /\ at[n - 1] <= at[n]
                /\ at[n] = at[n - 1]
                      => InOne(at[n - 1], period)
                            /\ \A x \in Excluded : next_invalid_time(at[n - 1], x) = at[n - 1]
                /\ \A w \in Nat : (\A u \in at[n - 1]..w : Ordinary(u))
                      => \A u \in at[n - 1]..(at[n] - 1) :
                            u <= w /\ Valid(u) => u \in JustAfterExclusion
    <2> DEFINE t == at[n - 1]
               v == at[n]
    <2>1. t \in Nat /\ v \in Nat /\ v = ValidTurn(answers[MaxChain - 1].invalid, period)[t]
      BY <1>9
    <2> HIDE DEF t, v
    <2>2. /\ t <= v
          /\ v = t => InOne(t, period) /\ \A x \in Excluded : next_invalid_time(t, x) = t
          /\ \A w \in Nat : (\A u \in t..w : Ordinary(u))
                 => \A u \in t..(v - 1) : u <= w /\ Valid(u) => u \in JustAfterExclusion
      BY <1>1, <2>1, TurnSkips
    <2> QED BY <2>2 DEF t, v
  <1> HIDE DEF turn, invalid
  <1>11. CASE at[M] # at[M - 1]
    <2>1. next = now
      BY <1>8, <1>11
    <2>2. Valid(next) \/ next \in JustAfterExclusion
      BY <2>1 DEF GaveUp
    <2>3. now..(next - 1) = {}
      BY <2>1
    <2> QED BY <1>2, <2>1, <2>2, <2>3 DEF IsNext
  <1>12. CASE at[M] = at[M - 1]
    <2>1. next = at[M] /\ next \in Nat
      <3> HIDE DEF M
      <3> QED BY <1>6, <1>7, <1>8, <1>12
    <2>2. \A n \in 0..M : now <= at[n]
      <3> DEFINE G == {n \in 0..M : now <= at[n]}
      <3>1. 0 \in G
        <4> HIDE DEF M
        <4> QED BY <1>5, <1>6
      <3>2. ASSUME NEW n \in 1..M, n - 1 \in G PROVE n \in G
        <4>1. /\ n \in 0..M /\ at[n - 1] \in Nat /\ at[n] \in Nat /\ at[n - 1] <= at[n]
              /\ now <= at[n - 1]
          <5> HIDE DEF M
          <5> QED BY <1>6, <1>9, <1>10, <3>2
        <4>2. now <= at[n]
          BY <4>1
        <4> HIDE DEF M
        <4> QED BY <4>1, <4>2
      <3>3. G \in SUBSET (0..M)
        OBVIOUS
      <3> HIDE DEF G, M
      <3>4. \A n \in 0..M : n \in G
        BY <1>6, <3>1, <3>2, <3>3, Induction
      <3> QED BY <3>4 DEF G
    <2>3. now <= next
      <3> HIDE DEF M
      <3> QED BY <1>6, <2>1, <2>2
    <2>4. ASSUME NEW u \in now..next PROVE Ordinary(u)
      <3>1. u \in Int /\ now <= u /\ u <= next /\ now \in Int /\ next \in Int
        BY <2>1
      <3>2. /\ LocalDay(DstStart) \notin LocalDay(now)..LocalDay(next)
            /\ LocalDay(DstEnd) \notin LocalDay(now)..LocalDay(next)
        BY <1>1, <1>2 DEF NotOn
      <3>3. LocalDay(u) # LocalDay(DstStart) /\ LocalDay(u) # LocalDay(DstEnd)
        BY <1>6, <3>1, <3>2, DaysBetween
      <3> QED BY <3>3 DEF Ordinary
    <2> DEFINE Skips(a) == \A u \in now..(a - 1) : u <= next /\ Valid(u) => u \in JustAfterExclusion
               G == {n \in 0..M : Skips(at[n])}
    <2>5. 0 \in G
      <3>1. now..(now - 1) = {}
        OBVIOUS
      <3>2. Skips(at[0])
        BY <1>5, <3>1
      <3> HIDE DEF M, Skips
      <3> QED BY <1>6, <3>2
    <2>6. ASSUME NEW n \in 1..M, n - 1 \in G PROVE n \in G
      <3> DEFINE t == at[n - 1]
                 v == at[n]
      <3>1. Skips(t) /\ n \in 0..M
        BY <1>6, <2>6
      <3>2. t \in Nat /\ v \in Nat /\ now <= t
        <4> HIDE DEF M
        <4> QED BY <1>6, <1>9, <2>2
      <3>3. \A u \in t..(v - 1) : u <= next /\ Valid(u) => u \in JustAfterExclusion
        <4>1. \A u \in t..next : u \in now..next
          <5> HIDE DEF t
          <5> QED BY <2>1, <3>2
        <4>2. \A u \in t..next : Ordinary(u)
          <5> HIDE DEF t
          <5> QED BY <2>4, <4>1
        <4> HIDE DEF M
        <4> QED BY <1>10, <2>1, <4>2
      <3> HIDE DEF t, v
      <3>4. ASSUME NEW u \in now..(v - 1), u <= next, Valid(u) PROVE u \in JustAfterExclusion
        <4>1. CASE u < t
          <5>1. u \in now..(t - 1)
            BY <3>2, <4>1
          <5> QED BY <3>1, <3>4, <5>1
        <4>2. CASE t <= u
          <5>1. u \in t..(v - 1)
            BY <3>2, <4>2
          <5> QED BY <3>3, <3>4, <5>1
        <4> QED BY <3>2, <4>1, <4>2
      <3>5. Skips(v)
        BY <3>4
      <3> HIDE DEF Skips, M
      <3> QED BY <3>1, <3>5 DEF v
    <2>7. Skips(next)
      <3>1. G \in SUBSET (0..M)
        OBVIOUS
      <3>2. \A n \in 0..M : n \in G
        <4> HIDE DEF G, M
        <4> QED BY <1>6, <2>5, <2>6, <3>1, Induction
      <3> HIDE DEF Skips, M
      <3> QED BY <1>6, <2>1, <3>2
    <2>8. \A u \in now..(next - 1) : Valid(u) => u \in JustAfterExclusion
      <3> TAKE u \in now..(next - 1)
      <3>1. u <= next
        BY <2>1
      <3> QED BY <2>7, <3>1
    <2>9. InOne(next, period) /\ \A x \in Excluded : next_invalid_time(next, x) = next
      <3> HIDE DEF M
      <3> QED BY <1>6, <1>10, <1>12, <2>1
    <2>10. ASSUME NEW x \in Excluded, check_time_against_period(next, x)
           PROVE  next \in JustAfterExclusion
      <3>1. AtEnd(next, x)
        BY <2>9, <2>10 DEF NoEndFound
      <3>2. next \in (next - Minute + 1)..next
        BY <2>1, Clock
      <3>3. JustOver(next, x)
        BY <3>1, <3>2 DEF JustOver
      <3> QED BY <2>1, <3>3 DEF JustAfterExclusion
    <2>11. ASSUME \A x \in Excluded : ~check_time_against_period(next, x) PROVE Valid(next)
      <3>1. PICK r \in Ranges(next, period) : IsIn(next, r)
        BY <2>9 DEF InOne
      <3>2. r \in ToSet(matching_timerange(next, period))
        BY <3>1 DEF Ranges
      <3>3. check_time_against_period(next, period)
        BY <1>1, <2>1, <2>11, <3>1, <3>2, CheckedWith
      <3> QED BY <3>1, <3>3 DEF Valid
    <2>12. Valid(next) \/ next \in JustAfterExclusion
      BY <2>10, <2>11
    <2> QED BY <1>2, <2>3, <2>8, <2>12 DEF IsNext
  <1> QED BY <1>11, <1>12

-----------------------------------------------------------------------------
\* Theorems.

\* What is asked, and the answers.
Asked ==
    /\ period \in Periods /\ now \in Nat
    /\ next = next_valid_time(now, period)
    /\ moved = reschedule_within_timeperiod(now, period, CheckWindow)

LEMMA AlwaysAsked == PeriodSpec => []Asked
  <1>1. PeriodInit => Asked
    BY Clock DEF PeriodInit, Asked
  <1>2. Asked /\ [PeriodNext]_periodVars => Asked'
    <2>1. SUFFICES ASSUME Asked, [PeriodNext]_periodVars PROVE Asked'
      OBVIOUS
    <2>2. CASE PeriodNext
      <3>1. now' = now + 1 /\ period' = period /\ now + 1 \in Nat
        BY <2>1, <2>2 DEF PeriodNext, Ask, Asked
      <3>2. /\ next' = next_valid_time(now', period')
            /\ moved' = reschedule_within_timeperiod(now', period', CheckWindow)
        BY <2>2, <3>1, Zenon DEF PeriodNext, Ask
      <3> QED BY <2>1, <3>1, <3>2 DEF Asked
    <2>3. CASE UNCHANGED periodVars
      BY <2>1, <2>3 DEF periodVars, Asked
    <2> QED BY <2>1, <2>2, <2>3
  <1> QED BY <1>1, <1>2, PTL DEF PeriodSpec

\* The next valid time is not before the time asked about, valid, and the first that
\* is, unless the clock is changed on the way (_get_next_valid_time,
\* check_time_against_period).
THEOREM NextValidTimeIsEarliest == PeriodSpec => []NextIsEarliest
  <1>1. Asked => NextIsEarliest
    BY EarliestIsNext DEF Asked
  <1> QED BY <1>1, AlwaysAsked, PTL

\* A check that is moved to somewhere in its window stays within its period, or comes
\* less than a minute after a range (reschedule_within_timeperiod), when the window is
\* not longer than the turns of _get_next_invalid_time go at least.
THEOREM MovedChecksStayWithin ==
    ASSUME CheckWindow <= (MaxDepth - 2) * Minute
    PROVE  PeriodSpec => []MovedWithinPeriod
  <1>1. Asked => MovedWithinPeriod
    BY MovedStaysWithin DEF Asked
  <1> QED BY <1>1, AlwaysAsked, PTL

\* When something was found, and no exclusion goes on from it without an end of it
\* being found, the next valid time is not before the time asked about, is valid and
\* is the first that is, the times just after an excluded range apart
\* (_get_next_valid_time, _get_next_invalid_time).
THEOREM ExclusionsAreSkipped ==
    PeriodSpec => [](GaveUp(JustAfterExclusion) \/ (\E x \in Excluded : NoEndFound(x))
                         \/ ExclusionsHold)
  <1>1. Asked => GaveUp(JustAfterExclusion) \/ (\E x \in Excluded : NoEndFound(x))
                     \/ ExclusionsHold
    BY ExcludedIsSkipped DEF Asked
  <1> QED BY <1>1, AlwaysAsked, PTL

\* The exceptions that are counted.
LEMMA CountedExceptions ==
    ASSUME Asked, NEW x \in Counted
    PROVE  NamesItsDays(x, now) /\ MissesItsEnd(x, now)
  <1>1. now \in Int /\ timeperiod[period].exceptions \in Seq(Dateranges)
    BY PeriodParts DEF Asked
  <1>2. /\ x \in Dateranges /\ Ordinary(now)
        /\ Countable(x.type, x.start) /\ Countable(x.type, x.end)
    <2>1. /\ x \in ToSet(timeperiod[period].exceptions) /\ Ordinary(now)
          /\ Countable(x.type, x.start) /\ Countable(x.type, x.end)
      BY Zenon DEF Counted
    <2> QED BY <1>1, <2>1 DEF ToSet
  <1> QED BY <1>1, <1>2, MatchNamed, Zenon

\* On every day whose dates are counted an exception matches when it names the day, or
\* as MissesItsEnd says after new year, after an end that slipped past its month and, for
\* every nth day, after the end, whatever the calendar and the exceptions
\* (calculate_time_from_day_of_month, calculate_time_from_weekday_of_month,
\* _get_matching_timerange).
THEOREM ExceptionsAreForTheirDays == PeriodSpec => []ExceptionsNameDays
  <1>1. Asked => ExceptionsNameDays
    BY CountedExceptions, Zenon DEF ExceptionsNameDays
  <1> QED BY <1>1, AlwaysAsked, PTL
=============================================================================
