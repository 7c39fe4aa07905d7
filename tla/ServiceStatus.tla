---------------------------- MODULE ServiceStatus ----------------------------
(***************************************************************************)
(* One service: what a check result does to its state, attempt number,     *)
(* problem id and acknowledgement (base/checks.c), and which notifications *)
(* follow (base/notifications.c, base/flapping.c).  Its host, the parents  *)
(* of the service, what suppresses notifications and the clock are its     *)
(* environment.                                                            *)
(*                                                                         *)
(* What flap detection decides is an input (its ring of states is not      *)
(* here), times are reduced to "is it too early", and no flexible downtime *)
(* is pending.  Notifications are enabled globally.  The host changes at   *)
(* any time, so the host checks a result asks for need no action.          *)
(***************************************************************************)
EXTENDS Integers, FiniteSets

CONSTANTS
    Codes,                  \* return codes of plugins
    TimeoutState,           \* service_check_timeout_state
    InitialState,           \* initial_state
    MaxAttempts,            \* max_attempts
    Volatile,               \* is_volatile
    NotifyOn,               \* notification_options, the states among them
    NotifyFlapping,         \* notification_options has OPT_FLAPPING
    NotificationInterval,   \* notification_interval
    Escalated,              \* the notification intervals of its escalations
    Delayed,                \* first_notification_delay > 0
    HostChecks,             \* execute_host_checks
    Parents,                \* services that are its parents
    MayMiss,                \* may no contact be notified
    MayBlock,               \* may a broker module block a notification
    MayFlap,                \* may the service start flapping
    Suppressions,           \* what may suppress notifications, see Reasons
    MaxProblems,            \* bound: problem ids given out
    MaxNumber               \* bound: current_notification_number stays there

States == 0..3
OK == 0
CRITICAL == 2
Reasons == {"downtime", "outside period", "disabled", "dependency failed", "no good parents"}

ASSUME ServiceConstants ==
    /\ Codes \subseteq Int
    /\ TimeoutState \in States /\ InitialState \in States
    /\ MaxAttempts \in Nat \ {0}
    /\ Volatile \in BOOLEAN /\ NotifyFlapping \in BOOLEAN /\ Delayed \in BOOLEAN
    /\ HostChecks \in BOOLEAN /\ MayMiss \in BOOLEAN /\ MayBlock \in BOOLEAN
    /\ MayFlap \in BOOLEAN
    /\ NotifyOn \subseteq States /\ NotificationInterval \in Nat /\ Escalated \subseteq Nat
    /\ Suppressions \subseteq Reasons
    /\ MaxProblems \in Nat /\ MaxNumber \in Nat \ {0}

VARIABLES
    current_state, state_type, current_attempt, last_hard_state,
    host_problem_at_last_check,
    current_problem_id, next_problem_id,
    problem_has_been_acknowledged, acknowledgement_type,
    is_flapping, check_flapping_recovery_notification,
    ntf,        \* notifications: number, notified_on, no_more_notifications,
                \* waiting (now < next_notification); and, as history: what the
                \* last step sent; was a problem sent since the last recovery; was
                \* a recovery ever sent without; was this state reported
    early,      \* now < last_hard_state_change + first_notification_delay
    handled,    \* did the last step ask for the event handler
    hst,        \* the host: up, in a hard state, checked before
    parents,    \* current_state of each parent
    suppress    \* what suppresses notifications at the moment

stateVars == <<current_state, state_type, current_attempt, last_hard_state,
               host_problem_at_last_check, current_problem_id, next_problem_id, early>>
ackVars == <<problem_has_been_acknowledged, acknowledgement_type>>
flapVars == <<is_flapping, check_flapping_recovery_notification>>
envVars == <<parents, suppress>>
vars == <<stateVars, ackVars, flapVars, ntf, handled, hst, envVars>>

Kinds == {"NORMAL", "RECOVERY", "ACKNOWLEDGEMENT", "FLAPPING"}
Hosts == [up : BOOLEAN, hard : BOOLEAN, checked : BOOLEAN]
Intervals == {NotificationInterval} \cup Escalated

\* Passive results carry a state (commands.c maps other codes to UNKNOWN) and
\* are never timed out.
Results == {cr \in [passive : BOOLEAN, early_timeout : BOOLEAN, exited_ok : BOOLEAN, code : Codes] :
               cr.passive => cr.code \in States /\ ~cr.early_timeout /\ cr.exited_ok}

TypeOK ==
    /\ current_state \in States /\ last_hard_state \in States
    /\ state_type \in {"SOFT", "HARD"}
    /\ current_attempt \in 1..MaxAttempts
    /\ host_problem_at_last_check \in BOOLEAN
    /\ current_problem_id \in 0..MaxProblems /\ next_problem_id \in 1..(MaxProblems + 1)
    /\ problem_has_been_acknowledged \in BOOLEAN
    /\ acknowledgement_type \in {"NONE", "NORMAL", "STICKY"}
    /\ is_flapping \in BOOLEAN /\ check_flapping_recovery_notification \in BOOLEAN
    /\ ntf \in [number : 0..MaxNumber, notified_on : SUBSET States, no_more : BOOLEAN,
                waiting : BOOLEAN, sent : SUBSET Kinds, alerted : BOOLEAN,
                unprompted : BOOLEAN, reported : BOOLEAN]
    /\ early \in BOOLEAN
    /\ handled \in BOOLEAN
    /\ hst \in Hosts
    /\ parents \in [Parents -> {OK, CRITICAL}] /\ suppress \subseteq Suppressions

Init ==
    /\ current_state = InitialState /\ last_hard_state = InitialState
    /\ state_type = "HARD"
    /\ current_attempt = IF InitialState = OK THEN 1 ELSE MaxAttempts
    /\ host_problem_at_last_check = FALSE
    /\ current_problem_id = 0 /\ next_problem_id = 1
    /\ problem_has_been_acknowledged = FALSE /\ acknowledgement_type = "NONE"
    /\ is_flapping = FALSE /\ check_flapping_recovery_notification = FALSE
    /\ ntf = [number |-> 0, notified_on |-> {}, no_more |-> FALSE, waiting |-> FALSE,
              sent |-> {}, alerted |-> FALSE, unprompted |-> FALSE, reported |-> FALSE]
    /\ early = Delayed
    /\ handled = FALSE
    /\ hst \in {h \in Hosts : ~h.checked /\ h.hard}
    /\ parents \in [Parents -> {OK}] /\ suppress = {}

-----------------------------------------------------------------------------
\* Notifications.

\* Lines 384-398: the parents counted as bad are OK ones with a nonzero state.
bad_parents == Cardinality({p \in Parents : parents[p] = OK /\ parents[p] # 0})

\* check_service_notification_viability.  o holds the service as it is at the
\* time of the call, n its notification state.
check_service_notification_viability(n, kind, o) ==
    /\ Parents # {} => bad_parents # Cardinality(Parents)
    /\ "outside period" \notin suppress /\ "disabled" \notin suppress
    /\ kind = "FLAPPING" => NotifyFlapping /\ "downtime" \notin suppress
    /\ kind = "ACKNOWLEDGEMENT" => o.state # OK
    /\ kind \in {"NORMAL", "RECOVERY"} =>
          /\ o.type = "HARD" /\ ~o.acked
          /\ "dependency failed" \notin suppress
          /\ o.state \in NotifyOn
          /\ o.state = OK => n.notified_on # {}
          /\ ~(kind = "NORMAL" /\ n.number = 0 /\ o.state # OK /\ o.early)
          /\ ~o.flapping /\ "downtime" \notin suppress /\ ~n.no_more
          /\ hst.up \/ ~hst.hard
          /\ "no good parents" \notin suppress
          /\ ~n.waiting \/ Volatile

Saturated(k) == IF k > MaxNumber THEN MaxNumber ELSE k

\* Mutation of Sent: a recovery leaves the states notified on.
SentForever(n, kind, o, interval) ==
    [n EXCEPT !.number = IF kind = "NORMAL" THEN Saturated(@ + 1) ELSE 0,
              !.notified_on = IF kind = "NORMAL" THEN @ \cup {o.state} ELSE @,
              !.no_more = (interval = 0 /\ ~Volatile),
              !.waiting = (interval > 0),
              !.sent = @ \cup {kind},
              !.alerted = (kind = "NORMAL"),
              !.unprompted = @ \/ (kind = "RECOVERY" /\ ~n.alerted),
              !.reported = @ \/ kind = "NORMAL"]

\* service_notification, someone was notified of a problem or a recovery.
Sent(n, kind, o, interval) ==
    [n EXCEPT !.number = IF kind = "NORMAL" THEN Saturated(@ + 1) ELSE 0,
              !.notified_on = IF kind = "NORMAL" THEN @ \cup {o.state} ELSE {},
              !.no_more = (interval = 0 /\ ~Volatile),
              !.waiting = (interval > 0),
              !.sent = @ \cup {kind},
              !.alerted = (kind = "NORMAL"),
              !.unprompted = @ \/ (kind = "RECOVERY" /\ ~n.alerted),
              !.reported = @ \/ kind = "NORMAL"]

\* service_notification, not viable: a recovery no one wants is forgotten, a
\* problem outside the period waits for it to start, and with an interval of
\* zero the end of downtime must find the way free.
Unsent(n, kind) ==
    LET unwanted == kind = "RECOVERY" /\ OK \notin NotifyOn
    IN [n EXCEPT !.number = IF unwanted THEN 0 ELSE @,
                 !.notified_on = IF unwanted THEN {} ELSE @,
                 !.waiting = IF NotificationInterval = 0 /\ "downtime" \in suppress THEN FALSE
                             ELSE @ \/ (kind = "NORMAL" /\ "outside period" \in suppress)]

\* The outcomes of service_notification.  A broker module may block it, after
\* the number was raised; and no contact may want it.
service_notification(n, kind, o) ==
    IF ~check_service_notification_viability(n, kind, o) THEN {Unsent(n, kind)}
    ELSE {[n EXCEPT !.number = IF kind = "NORMAL" THEN Saturated(@ + 1) ELSE @] : b \in {MayBlock} \ {FALSE}}
         \cup {n : m \in {MayMiss} \ {FALSE}}
         \cup (IF kind \in {"NORMAL", "RECOVERY"}
               THEN {Sent(n, kind, o, i) : i \in Intervals}
               ELSE {[n EXCEPT !.sent = @ \cup {kind}]})

Quiet == [ntf EXCEPT !.sent = {}]

-----------------------------------------------------------------------------
\* Check results.

get_service_check_return_code(cr) ==
    CASE cr.passive -> cr.code
      [] ~cr.passive /\ cr.early_timeout -> TimeoutState
      [] ~cr.passive /\ ~cr.early_timeout /\ (~cr.exited_ok \/ cr.code \notin States) -> CRITICAL
      [] OTHER -> cr.code

ReturnCodes == {get_service_check_return_code(cr) : cr \in Results}

\* Lines 1477-1498.
NextAttempt(last, cur, type, change, attempt) ==
    IF type = "HARD" THEN attempt
    ELSE IF last # OK /\ attempt < MaxAttempts THEN attempt + 1
    ELSE IF change /\ cur # OK THEN 1 ELSE attempt

\* Mutation of AtMax: one attempt too many.
AtMaxLate(attempt, cur, lastHard, type) ==
    /\ attempt > MaxAttempts
    /\ cur # lastHard \/ (type = "SOFT" /\ cur # OK)

\* Lines 1500-1501: the last attempt failed.
AtMax(attempt, cur, lastHard, type) ==
    /\ attempt >= MaxAttempts
    /\ cur # lastHard \/ (type = "SOFT" /\ cur # OK)

\* handle_async_service_check_result up to the notification: the new state as
\* a function of the state found.
Outcome(cur) ==
    LET last == current_state
        \* lines 1248-1346
        hostProblem == IF cur = OK THEN host_problem_at_last_check \/ (hst.checked /\ ~hst.up)
                       ELSE ~hst.up
        attempt0 == IF cur # OK /\ hst.up /\ host_problem_at_last_check /\ state_type = "SOFT"
                    THEN 1 ELSE current_attempt
        \* lines 1350-1358: the host is not up
        forced == ~hst.up /\ last_hard_state # cur
        type1 == IF forced THEN "HARD" ELSE state_type
        attempt1 == IF forced THEN MaxAttempts ELSE attempt0
        lastHard1 == IF forced THEN cur ELSE last_hard_state
        \* lines 1372-1474
        recovery == last # OK /\ cur = OK
        type2 == IF last = OK /\ cur = OK THEN "HARD"
                 ELSE IF last = OK /\ ~hostProblem /\ ~forced THEN "SOFT" ELSE type1
        attempt2 == IF last = OK \/ (recovery /\ type1 = "HARD") THEN 1 ELSE attempt1
        change == cur # last \/ (cur = OK /\ type2 = "SOFT")
        \* lines 1477-1512
        attempt3 == NextAttempt(last, cur, type2, change, attempt2)
        atMax == AtMax(attempt3, cur, lastHard1, type2)
        hardChange == forced \/ (recovery /\ type1 = "HARD") \/ atMax
    IN [hostProblem |-> hostProblem, change |-> change, hardChange |-> hardChange, attempt |-> attempt3,
        type |-> IF hardChange THEN "HARD" ELSE IF change THEN "SOFT" ELSE type2,
        lastHard |-> IF hardChange THEN cur ELSE lastHard1,
        notify |-> \/ recovery /\ type1 = "HARD"
                   \/ last # OK /\ cur # OK /\ type1 = "HARD" /\ ~hostProblem
                   \/ atMax,
        handle |-> (last # OK /\ (cur = OK \/ type1 = "SOFT")) \/ (last = OK /\ cur # OK)]

\* service_state_or_hard_state_type_change: has anything changed.
Moved(r) == r.change \/ r.hardChange

\* Mutation of Reset: the suppression option stays.
ResetTimes(n) == [n EXCEPT !.waiting = FALSE, !.reported = FALSE]

\* The same function: notification times and the suppression option are reset.
Reset(n) == [n EXCEPT !.no_more = FALSE, !.waiting = FALSE, !.reported = FALSE]

\* Mutation of AckAfter: every acknowledgement ends with the state.
AckNeverSticky(cur, r) ==
    IF r.change THEN [acked |-> FALSE, type |-> "NONE"]
    ELSE [acked |-> problem_has_been_acknowledged, type |-> acknowledgement_type]

\* The same function: the acknowledgement survives a
\* change if it is sticky and the service is still not OK, or if only the
\* type of the state changes.
AckAfter(cur, r) ==
    IF /\ Moved(r)
       /\ \/ acknowledgement_type = "NORMAL" /\ (r.change \/ ~r.hardChange)
          \/ acknowledgement_type = "STICKY" /\ cur = OK
    THEN [acked |-> FALSE, type |-> "NONE"]
    ELSE [acked |-> problem_has_been_acknowledged, type |-> acknowledgement_type]

\* Mutation of ProblemAfter: every change of the state is a new problem.
ProblemPerState(cur, r) ==
    IF ~r.change THEN current_problem_id ELSE IF cur = OK THEN 0 ELSE next_problem_id

\* The same function, and lines 1575-1581: a new problem gets a new id.
ProblemAfter(cur, r) ==
    IF ~r.change THEN current_problem_id
    ELSE IF cur = OK THEN 0
    ELSE IF current_state = OK THEN next_problem_id ELSE current_problem_id

\* check_for_service_flapping, set_service_flap and clear_service_flap: the
\* outcomes, each a flapping state and a notification state.
Flap(n, o) ==
    LET same  == [flapping |-> is_flapping, recovery |-> check_flapping_recovery_notification,
                  ntf |-> n]
        started == [o EXCEPT !.flapping = TRUE]
        stopped == [o EXCEPT !.flapping = FALSE]
        start == {[flapping |-> TRUE, recovery |-> n.number > 0, ntf |-> m] :
                     m \in service_notification(n, "FLAPPING", started)}
        told == service_notification(n, "FLAPPING", stopped)
        stop == {[flapping |-> FALSE, recovery |-> FALSE, ntf |-> m] : m \in
                    IF check_flapping_recovery_notification /\ o.state = OK
                    THEN UNION {service_notification(m, "RECOVERY", stopped) : m \in told}
                    ELSE told}
        disabled == [flapping |-> FALSE, recovery |-> FALSE, ntf |-> n]
    IN IF ~MayFlap \/ (o.type = "SOFT" /\ o.state # OK) THEN {same}
       ELSE {same} \cup (IF is_flapping THEN stop \cup {disabled} ELSE start)

\* Mutation of Owed: the recovery is tried once.
OwedOnce(n, cur, r) == n.notified_on # {} /\ cur = OK /\ r.type = "HARD" /\ r.change

\* Line 1596: a recovery notification was not sent yet.
Owed(n, cur, r) == n.notified_on # {} /\ cur = OK /\ r.type = "HARD"

\* handle_async_service_check_result, for a result whose return code is cur.
HandleResult(cur) ==
    \E r \in {Outcome(cur)} :
    LET ack == AckAfter(cur, r)
        recovered == cur = OK /\ r.change
        o == [state |-> cur, type |-> r.type, acked |-> ack.acked, flapping |-> is_flapping,
              early |-> IF r.hardChange THEN Delayed ELSE early]
        n == IF Moved(r) THEN Reset(Quiet) ELSE Quiet
        volatile == Volatile /\ cur # OK /\ r.type = "HARD"
    IN /\ cur # OK /\ current_state = OK => next_problem_id <= MaxProblems
       /\ current_state' = cur
       /\ state_type' = IF recovered THEN "HARD" ELSE r.type
       /\ current_attempt' = IF recovered THEN 1 ELSE r.attempt
       /\ last_hard_state' = IF recovered THEN OK ELSE r.lastHard
       /\ host_problem_at_last_check' = (r.hostProblem /\ ~(recovered /\ r.hardChange))
       /\ current_problem_id' = ProblemAfter(cur, r)
       /\ next_problem_id' = next_problem_id + (IF r.change /\ current_state = OK THEN 1 ELSE 0)
       /\ problem_has_been_acknowledged' = ack.acked /\ acknowledgement_type' = ack.type
       /\ early' = IF recovered THEN Delayed ELSE o.early
       /\ handled' = (Moved(r) \/ volatile \/ r.handle)
       \* lines 1327-1338: a host never checked is taken as checked
       /\ hst' = [hst EXCEPT !.checked = @ \/ /\ cur # OK /\ ~hst.up
                                              /\ ~HostChecks \/ cur = current_state]
       /\ UNCHANGED envVars
       /\ \E f \in Flap(n, o) :
             LET owed == Owed(f.ntf, cur, r)
             IN /\ is_flapping' = f.flapping
                /\ check_flapping_recovery_notification' = f.recovery
                /\ ntf' \in IF r.notify \/ volatile \/ owed
                            THEN service_notification(f.ntf, IF owed THEN "RECOVERY" ELSE "NORMAL",
                                                      [o EXCEPT !.flapping = f.flapping])
                            ELSE {f.ntf}

-----------------------------------------------------------------------------
\* External commands.

Now == [state |-> current_state, type |-> state_type, acked |-> problem_has_been_acknowledged,
        flapping |-> is_flapping, early |-> early]

acknowledge_service_problem(type, notify) ==
    /\ current_state # OK
    /\ ntf' \in IF notify THEN service_notification(Quiet, "ACKNOWLEDGEMENT", Now) ELSE {Quiet}
    /\ problem_has_been_acknowledged' = TRUE
    /\ acknowledgement_type' = type
    /\ handled' = FALSE
    /\ UNCHANGED <<stateVars, flapVars, hst, envVars>>

remove_service_acknowledgement ==
    /\ problem_has_been_acknowledged' = FALSE
    /\ ntf' = Quiet /\ handled' = FALSE
    /\ UNCHANGED <<stateVars, acknowledgement_type, flapVars, hst, envVars>>

-----------------------------------------------------------------------------
\* The environment.

Rest == UNCHANGED <<current_state, state_type, current_attempt, last_hard_state,
                    host_problem_at_last_check, current_problem_id, next_problem_id,
                    ackVars, flapVars>>

\* A result of a host check was processed.
HostChecked ==
    /\ hst' \in {h \in Hosts : h.checked}
    /\ ntf' = Quiet /\ handled' = FALSE
    /\ Rest /\ UNCHANGED <<early, envVars>>

ParentChanges(p, s) ==
    /\ parents' = [parents EXCEPT ![p] = s]
    /\ ntf' = Quiet /\ handled' = FALSE
    /\ Rest /\ UNCHANGED <<early, hst, suppress>>

\* Downtime, the period, a dependency, the command file, or the parents of the
\* host: none of them is up.
SuppressionChanges(why) ==
    /\ suppress' = IF why \in suppress THEN suppress \ {why} ELSE suppress \cup {why}
    /\ ntf' = Quiet /\ handled' = FALSE
    /\ Rest /\ UNCHANGED <<early, hst, parents>>

\* next_notification, or the end of the first delay, is reached.
TimePasses ==
    /\ \/ ntf.waiting /\ ntf' = [Quiet EXCEPT !.waiting = FALSE] /\ UNCHANGED early
       \/ early /\ early' = FALSE /\ ntf' = Quiet
    /\ handled' = FALSE
    /\ Rest /\ UNCHANGED <<hst, envVars>>

Next ==
    \/ \E cur \in ReturnCodes : HandleResult(cur)
    \/ \E type \in {"NORMAL", "STICKY"}, notify \in BOOLEAN : acknowledge_service_problem(type, notify)
    \/ remove_service_acknowledgement
    \/ HostChecked
    \/ \E p \in Parents, s \in {OK, CRITICAL} : ParentChanges(p, s)
    \/ \E why \in Suppressions : SuppressionChanges(why)
    \/ TimePasses

Spec == Init /\ [][Next]_vars

-----------------------------------------------------------------------------
\* Properties.

\* A service that is OK has nothing left of an outage: no soft state, no
\* attempts, no problem id, no acknowledgement (the end of
\* handle_async_service_check_result against its early assignments).
OKIsSettled ==
    current_state = OK =>
        /\ state_type = "HARD" /\ current_attempt = 1 /\ last_hard_state = OK
        /\ current_problem_id = 0 /\ ~problem_has_been_acknowledged

\* A soft state is a problem with attempts left, so that no problem stays soft
\* for ever; a hard one is what last_hard_state says.
TypesAgree ==
    /\ state_type = "SOFT" => current_state # OK /\ current_attempt < MaxAttempts
    /\ state_type = "HARD" => last_hard_state = current_state

\* A service that starts OK has a problem id exactly during an outage.
ProblemHasId ==
    InitialState = OK => (current_state # OK <=> current_problem_id # 0)

\* State, type, attempt, last hard state, problem id and acknowledgement agree
\* with each other after any sequence of results, host states and commands: no
\* branch of handle_async_service_check_result leaves one of them behind.
StatesAgree == OKIsSettled /\ TypesAgree /\ ProblemHasId

\* One outage has one problem id, whatever problem states it passes through,
\* and no two outages share one.
OutageKeepsItsId ==
    [][/\ current_state # OK /\ current_state' # OK => current_problem_id' = current_problem_id
       /\ current_state = OK /\ current_state' # OK => current_problem_id' >= next_problem_id]_vars

\* A recovery notification follows a problem notification, and only one does,
\* whether the handler or the end of flapping sends it.
RecoveriesAnswerProblems == ~ntf.unprompted

\* The number of notifications and the states notified on agree about whether
\* someone was told of the current problem.
NumberAgrees == ntf.number > 0 <=> ntf.notified_on # {}

\* An acknowledged problem is not notified about again; only an acknowledgement
\* that is not sticky gives way, and only to another state.
AcknowledgementSilences ==
    [][problem_has_been_acknowledged /\ "NORMAL" \in ntf'.sent =>
          acknowledgement_type = "NORMAL" /\ current_state' # current_state]_vars

\* The event handler sees every change of the state or of its type.
EventHandlerSeesChanges ==
    [][current_state' # current_state \/ state_type' # state_type => handled']_vars

-----------------------------------------------------------------------------
\* A result that finds the service in the state it reports, and flapping as it is.
Repeats ==
    /\ UNCHANGED <<current_state, is_flapping, envVars>>
    /\ \E cur \in ReturnCodes : cur = current_state /\ HandleResult(cur)

\* While the state stays, results keep coming that repeat it; and time passes.
\* (Fairness of HandleResult itself would ask for results that change something.)
Fairness == WF_vars(Repeats) /\ WF_vars(TimePasses)

FairSpec == Spec /\ Fairness

Calm == hst.up /\ suppress = {} /\ ~is_flapping /\ ~problem_has_been_acknowledged

\* A problem that stays, on a host that is up and with nothing in the way, is
\* reported in the end: it turns hard, the first delay ends, and what earlier
\* outages, downtime or the period left in the notification state stops nothing.
ProblemsAreReported ==
    (  /\ <>[](Calm /\ current_state \in NotifyOn \ {OK})
       /\ <>[][current_state' = current_state]_vars)
        => <>[](ntf.reported)

\* A recovery that is owed is sent, or known to be unwanted, in the end.
RecoveriesAreSent ==
    <>[](Calm /\ current_state = OK) => <>[](ntf.notified_on = {})
=============================================================================
