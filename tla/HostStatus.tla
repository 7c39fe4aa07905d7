------------------------------ MODULE HostStatus ------------------------------
(***************************************************************************)
(* One host: what a check result does to its state, attempt number,        *)
(* problem id and acknowledgement (base/checks.c), and which notifications *)
(* follow (base/notifications.c, base/flapping.c).  Its parents, what      *)
(* suppresses notifications and the clock are its environment.             *)
(*                                                                         *)
(* Hosts differ from services (ServiceStatus) in more than names: states   *)
(* are translated to DOWN or UNREACHABLE by the parents, passive results   *)
(* may be hard at once, and a soft recovery stays soft until the next      *)
(* result.  The abstractions are those of ServiceStatus; the checks of     *)
(* parents and children that a result asks for are not here.               *)
(***************************************************************************)
EXTENDS Integers

CONSTANTS
    Codes,                  \* return codes of plugins
    Aggressive,             \* use_aggressive_host_checking
    HasCommand,             \* check_command is not NULL
    Passive,                \* are passive results accepted
    PassiveSoft,            \* the settings of passive_host_checks_are_soft to look at
    TranslatePassive,       \* translate_passive_host_checks
    InitialState,           \* initial_state
    MaxAttempts,            \* max_attempts
    Parents,                \* the parent hosts
    NotifyOn,               \* notification_options, the states among them
    NotifyFlapping,         \* notification_options has OPT_FLAPPING
    Intervals,              \* notification_interval and those of the escalations
    Delayed,                \* first_notification_delay > 0
    MayMiss,                \* may no contact be notified
    MayBlock,               \* may a broker module block a notification
    MayFlap,                \* may the host start flapping
    Suppressions,           \* what may suppress notifications, see Reasons
    MaxProblems,            \* bound: problem ids given out
    MaxNumber               \* bound: current_notification_number stays there

UP == 0
DOWN == 1
UNREACHABLE == 2
States == {UP, DOWN, UNREACHABLE}
WARNING == 1
Reasons == {"downtime", "outside period", "disabled", "dependency failed"}

ASSUME HostConstants ==
    /\ Codes \subseteq Int
    /\ Aggressive \in BOOLEAN /\ HasCommand \in BOOLEAN /\ Passive \in BOOLEAN
    /\ PassiveSoft \subseteq BOOLEAN /\ TranslatePassive \in BOOLEAN
    /\ InitialState \in States
    /\ MaxAttempts \in Nat \ {0}
    /\ NotifyOn \subseteq States /\ NotifyFlapping \in BOOLEAN
    /\ Intervals \subseteq Nat /\ Delayed \in BOOLEAN
    /\ MayMiss \in BOOLEAN /\ MayBlock \in BOOLEAN /\ MayFlap \in BOOLEAN
    /\ Suppressions \subseteq Reasons
    /\ MaxProblems \in Nat /\ MaxNumber \in Nat \ {0}

VARIABLES
    passive_host_checks_are_soft,   \* read at the start
    current_state, state_type, current_attempt, last_hard_state,
    current_problem_id, next_problem_id,
    problem_has_been_acknowledged, acknowledgement_type,
    is_flapping, check_flapping_recovery_notification,
    ntf,        \* notifications, as in ServiceStatus
    early,      \* now < last_hard_state_change + first_notification_delay
    up,         \* the parents that are up
    suppress    \* what suppresses notifications at the moment

stateVars == <<current_state, state_type, current_attempt, last_hard_state,
               current_problem_id, next_problem_id, early>>
ackVars == <<problem_has_been_acknowledged, acknowledgement_type>>
flapVars == <<is_flapping, check_flapping_recovery_notification>>
envVars == <<up, suppress, passive_host_checks_are_soft>>
vars == <<stateVars, ackVars, flapVars, ntf, envVars>>

Kinds == {"NORMAL", "RECOVERY", "ACKNOWLEDGEMENT", "FLAPPING"}

\* Passive results carry a host state (commands.c ignores others).
Results == {cr \in [passive : BOOLEAN, early_timeout : BOOLEAN, exited_ok : BOOLEAN, code : Codes] :
               cr.passive => Passive /\ cr.code \in States /\ ~cr.early_timeout /\ cr.exited_ok}

TypeOK ==
    /\ current_state \in States /\ last_hard_state \in States
    /\ state_type \in {"SOFT", "HARD"}
    /\ current_attempt \in 1..MaxAttempts
    /\ current_problem_id \in 0..MaxProblems /\ next_problem_id \in 1..(MaxProblems + 1)
    /\ problem_has_been_acknowledged \in BOOLEAN
    /\ acknowledgement_type \in {"NONE", "NORMAL", "STICKY"}
    /\ is_flapping \in BOOLEAN /\ check_flapping_recovery_notification \in BOOLEAN
    /\ ntf \in [number : 0..MaxNumber, notified_on : SUBSET States, no_more : BOOLEAN,
                waiting : BOOLEAN, sent : SUBSET Kinds, alerted : BOOLEAN,
                unprompted : BOOLEAN, reported : BOOLEAN]
    /\ early \in BOOLEAN
    /\ up \subseteq Parents /\ suppress \subseteq Suppressions
    /\ passive_host_checks_are_soft \in PassiveSoft

Init ==
    /\ current_state = InitialState /\ last_hard_state = InitialState
    /\ state_type = "HARD"
    /\ current_attempt = IF InitialState = UP THEN 1 ELSE MaxAttempts
    /\ current_problem_id = 0 /\ next_problem_id = 1
    /\ problem_has_been_acknowledged = FALSE /\ acknowledgement_type = "NONE"
    /\ is_flapping = FALSE /\ check_flapping_recovery_notification = FALSE
    /\ ntf = [number |-> 0, notified_on |-> {}, no_more |-> FALSE, waiting |-> FALSE,
              sent |-> {}, alerted |-> FALSE, unprompted |-> FALSE, reported |-> FALSE]
    /\ early = Delayed
    /\ up \in SUBSET Parents /\ suppress = {}
    /\ passive_host_checks_are_soft \in PassiveSoft

-----------------------------------------------------------------------------
\* Notifications.

check_host_notification_viability(n, kind, o) ==
    /\ "outside period" \notin suppress /\ "disabled" \notin suppress
    /\ kind = "FLAPPING" => NotifyFlapping /\ "downtime" \notin suppress
    /\ kind = "ACKNOWLEDGEMENT" => o.state # UP
    /\ kind \in {"NORMAL", "RECOVERY"} =>
          /\ o.type = "HARD" /\ ~o.acked
          /\ "dependency failed" \notin suppress
          /\ o.state \in NotifyOn
          /\ o.state = UP => n.notified_on # {}
          /\ ~(kind = "NORMAL" /\ n.number = 0 /\ o.state # UP /\ o.early)
          /\ ~o.flapping /\ "downtime" \notin suppress /\ ~n.no_more /\ ~n.waiting

Saturated(k) == IF k > MaxNumber THEN MaxNumber ELSE k

\* Mutation of Sent: a recovery leaves the states notified on.
SentForever(n, kind, o, interval) ==
    [n EXCEPT !.number = IF kind = "NORMAL" THEN Saturated(@ + 1) ELSE 0,
              !.notified_on = IF kind = "NORMAL" THEN @ \cup {o.state} ELSE @,
              !.waiting = (interval > 0),
              !.sent = @ \cup {kind},
              !.alerted = (kind = "NORMAL"),
              !.unprompted = @ \/ (kind = "RECOVERY" /\ ~n.alerted),
              !.reported = @ \/ kind = "NORMAL"]

\* host_notification, someone was notified of a problem or a recovery.
Sent(n, kind, o, interval) ==
    [n EXCEPT !.number = IF kind = "NORMAL" THEN Saturated(@ + 1) ELSE 0,
              !.notified_on = IF kind = "NORMAL" THEN @ \cup {o.state} ELSE {},
              !.no_more = (interval = 0),
              !.waiting = (interval > 0),
              !.sent = @ \cup {kind},
              !.alerted = (kind = "NORMAL"),
              !.unprompted = @ \/ (kind = "RECOVERY" /\ ~n.alerted),
              !.reported = @ \/ kind = "NORMAL"]

\* host_notification, not viable.
Unsent(n, kind) ==
    LET unwanted == kind = "RECOVERY" /\ UP \notin NotifyOn
    IN [n EXCEPT !.number = IF unwanted THEN 0 ELSE @,
                 !.notified_on = IF unwanted THEN {} ELSE @,
                 !.waiting = @ \/ (kind = "NORMAL" /\ "outside period" \in suppress)]

\* The outcomes of host_notification.
host_notification(n, kind, o) ==
    IF ~check_host_notification_viability(n, kind, o) THEN {Unsent(n, kind)}
    ELSE {[n EXCEPT !.number = IF kind = "NORMAL" THEN Saturated(@ + 1) ELSE @] : b \in {MayBlock} \ {FALSE}}
         \cup {n : m \in {MayMiss} \ {FALSE}}
         \cup (IF kind \in {"NORMAL", "RECOVERY"}
               THEN {Sent(n, kind, o, i) : i \in Intervals}
               ELSE {[n EXCEPT !.sent = @ \cup {kind}]})

Quiet == [ntf EXCEPT !.sent = {}]

-----------------------------------------------------------------------------
\* Check results.

\* The state a plugin reported, before the parents are looked at.
get_host_check_return_code(cr) ==
    LET rc == IF cr.early_timeout \/ ~cr.exited_ok \/ cr.code \notin 0..3 THEN UNREACHABLE
              ELSE cr.code
    IN IF cr.passive THEN cr.code
       ELSE IF ~HasCommand \/ (~Aggressive /\ rc = WARNING) \/ rc = UP THEN UP ELSE DOWN

ReturnCodes == {[passive |-> cr.passive, state |-> get_host_check_return_code(cr)] : cr \in Results}

\* determine_host_reachability
determine_host_reachability(res) ==
    IF res.passive /\ res.state = UNREACHABLE THEN UNREACHABLE
    ELSE IF Parents = {} \/ up # {} THEN DOWN ELSE UNREACHABLE

\* Lines 2385-2391.
Translated(res) ==
    IF res.state # UP /\ (~res.passive \/ TranslatePassive) THEN determine_host_reachability(res)
    ELSE res.state

\* Lines 2401-2418.
NextAttempt(last, cur, type, change, attempt) ==
    IF type = "HARD" THEN attempt
    ELSE IF last # UP /\ cur # UP /\ attempt < MaxAttempts THEN attempt + 1
    ELSE IF change \/ cur = UP THEN 1
    ELSE IF attempt < MaxAttempts THEN attempt + 1 ELSE attempt

\* Mutation of AtMax: one attempt too many.
AtMaxLate(attempt, cur) == attempt > MaxAttempts /\ cur # last_hard_state

\* Line 2420: the last attempt failed.
AtMax(attempt, cur) == attempt >= MaxAttempts /\ cur # last_hard_state

\* handle_async_host_check_result up to the notification, and
\* host_state_or_hard_state_type_change with its treatment of passive results:
\* the new state as a function of the state found.
Outcome(res) ==
    LET last == current_state
        cur == Translated(res)
        recovered == last # UP /\ cur = UP /\ state_type = "HARD"
        type1 == IF last # UP THEN state_type ELSE IF cur = UP THEN "HARD" ELSE "SOFT"
        attempt1 == IF last = UP \/ recovered THEN 1 ELSE current_attempt
        change == cur # last \/ (cur = UP /\ type1 = "SOFT")
        attempt2 == NextAttempt(last, cur, type1, change, attempt1)
        passiveHard == res.passive /\ ~passive_host_checks_are_soft
        hardChange == recovered \/ AtMax(attempt2, cur) \/ (passiveHard /\ change)
    IN [state |-> cur, change |-> change, hardChange |-> hardChange,
        attempt |-> IF passiveHard /\ change THEN 1 ELSE attempt2,
        type |-> IF hardChange THEN "HARD" ELSE IF change THEN "SOFT"
                 ELSE IF passiveHard THEN "HARD" ELSE type1,
        lastHard |-> IF hardChange THEN cur ELSE last_hard_state,
        notify |-> hardChange \/ (last # UP /\ cur # UP /\ state_type = "HARD")]

\* Mutation of Reset: the suppression option stays.
ResetTimes(n) == [n EXCEPT !.waiting = FALSE, !.reported = FALSE]

\* host_state_or_hard_state_type_change: times and the suppression option.
Reset(n) == [n EXCEPT !.no_more = FALSE, !.waiting = FALSE, !.reported = FALSE]

\* The same function: the acknowledgement.
AckAfter(r) ==
    IF /\ r.change \/ r.hardChange
       /\ \/ acknowledgement_type = "NORMAL" /\ (r.change \/ ~r.hardChange)
          \/ acknowledgement_type = "STICKY" /\ r.state = UP
    THEN [acked |-> FALSE, type |-> "NONE"]
    ELSE [acked |-> problem_has_been_acknowledged, type |-> acknowledgement_type]

\* The same function: a change from UP starts a problem, any other ends it.
ProblemAfter(r) ==
    IF ~r.change THEN current_problem_id
    ELSE IF current_state = UP THEN next_problem_id ELSE 0

\* check_for_host_flapping, set_host_flap and clear_host_flap: the outcomes.
Flap(n, o) ==
    LET same  == [flapping |-> is_flapping, recovery |-> check_flapping_recovery_notification,
                  ntf |-> n]
        started == [o EXCEPT !.flapping = TRUE]
        stopped == [o EXCEPT !.flapping = FALSE]
        start == {[flapping |-> TRUE, recovery |-> n.number > 0, ntf |-> m] :
                     m \in host_notification(n, "FLAPPING", started)}
        told == host_notification(n, "FLAPPING", stopped)
        stop == {[flapping |-> FALSE, recovery |-> FALSE, ntf |-> m] : m \in
                    IF check_flapping_recovery_notification /\ o.state = UP
                    THEN UNION {host_notification(m, "RECOVERY", stopped) : m \in told}
                    ELSE told}
        disabled == [flapping |-> FALSE, recovery |-> FALSE, ntf |-> n]
    IN IF ~MayFlap THEN {same}
       ELSE {same} \cup (IF is_flapping THEN stop \cup {disabled} ELSE start)

\* Mutation of Owed: the recovery is tried once.
OwedOnce(n, r) == n.notified_on # {} /\ r.state = UP /\ r.type = "HARD" /\ r.change

\* Line 2488: a recovery notification was not sent yet.
Owed(n, r) == n.notified_on # {} /\ r.state = UP /\ r.type = "HARD"

\* handle_async_host_check_result.
HandleResult(res) ==
    \E r \in {Outcome(res)} :
    LET ack == AckAfter(r)
        o == [state |-> r.state, type |-> r.type, acked |-> ack.acked, flapping |-> is_flapping,
              early |-> IF r.hardChange THEN Delayed ELSE early]
        n == IF r.change \/ r.hardChange THEN Reset(Quiet) ELSE Quiet
    IN /\ r.change /\ current_state = UP => next_problem_id <= MaxProblems
       /\ current_state' = r.state
       /\ state_type' = r.type
       /\ current_attempt' = r.attempt
       /\ last_hard_state' = r.lastHard
       /\ current_problem_id' = ProblemAfter(r)
       /\ next_problem_id' = next_problem_id + (IF r.change /\ current_state = UP THEN 1 ELSE 0)
       /\ problem_has_been_acknowledged' = ack.acked /\ acknowledgement_type' = ack.type
       /\ early' = o.early
       /\ UNCHANGED envVars
       /\ \E f \in Flap(n, o) :
             LET owed == Owed(f.ntf, r)
             IN /\ is_flapping' = f.flapping
                /\ check_flapping_recovery_notification' = f.recovery
                /\ ntf' \in IF r.notify \/ owed
                            THEN host_notification(f.ntf, IF owed THEN "RECOVERY" ELSE "NORMAL",
                                                   [o EXCEPT !.flapping = f.flapping])
                            ELSE {f.ntf}

-----------------------------------------------------------------------------
\* External commands.

Now == [state |-> current_state, type |-> state_type, acked |-> problem_has_been_acknowledged,
        flapping |-> is_flapping, early |-> early]

acknowledge_host_problem(type, notify) ==
    /\ current_state # UP
    /\ ntf' \in IF notify THEN host_notification(Quiet, "ACKNOWLEDGEMENT", Now) ELSE {Quiet}
    /\ problem_has_been_acknowledged' = TRUE
    /\ acknowledgement_type' = type
    /\ UNCHANGED <<stateVars, flapVars, envVars>>

remove_host_acknowledgement ==
    /\ problem_has_been_acknowledged' = FALSE
    /\ ntf' = Quiet
    /\ UNCHANGED <<stateVars, acknowledgement_type, flapVars, envVars>>

\* handle_async_service_check_result, lines 1327-1342: a service that stays in
\* its problem state on a host that is not up.
RenotifiedByService ==
    /\ current_state # UP
    /\ ntf' \in host_notification(Quiet, "NORMAL", Now)
    /\ UNCHANGED <<stateVars, ackVars, flapVars, envVars>>

-----------------------------------------------------------------------------
\* The environment.

Same == /\ UNCHANGED <<current_state, state_type, current_attempt, last_hard_state,
                       current_problem_id, next_problem_id>>
        /\ UNCHANGED <<ackVars, flapVars, passive_host_checks_are_soft>>

ParentChanges(p) ==
    /\ up' = IF p \in up THEN up \ {p} ELSE up \cup {p}
    /\ ntf' = Quiet
    /\ Same /\ UNCHANGED <<early, suppress>>

\* Downtime, the period, a dependency or the command file.
SuppressionChanges(why) ==
    /\ suppress' = IF why \in suppress THEN suppress \ {why} ELSE suppress \cup {why}
    /\ ntf' = Quiet
    /\ Same /\ UNCHANGED <<early, up>>

\* next_notification, or the end of the first delay, is reached.
TimePasses ==
    /\ \/ ntf.waiting /\ ntf' = [Quiet EXCEPT !.waiting = FALSE] /\ UNCHANGED early
       \/ early /\ early' = FALSE /\ ntf' = Quiet
    /\ Same /\ UNCHANGED <<up, suppress>>

Next ==
    \/ \E res \in ReturnCodes : HandleResult(res)
    \/ \E type \in {"NORMAL", "STICKY"}, notify \in BOOLEAN : acknowledge_host_problem(type, notify)
    \/ remove_host_acknowledgement
    \/ RenotifiedByService
    \/ \E p \in Parents : ParentChanges(p)
    \/ \E why \in Suppressions : SuppressionChanges(why)
    \/ TimePasses

Spec == Init /\ [][Next]_vars

-----------------------------------------------------------------------------
\* Properties.

\* A host that is UP has nothing left of an outage but, after a soft recovery,
\* the type: no attempts, no problem id, no acknowledgement.
UpIsSettled ==
    current_state = UP =>
        current_attempt = 1 /\ current_problem_id = 0 /\ ~problem_has_been_acknowledged

\* Unless passive results are hard, a soft problem has attempts left and follows
\* an UP host, and a hard state is what last_hard_state says, reached with the
\* last attempt.
HostTypesAgree ==
    (~Passive \/ passive_host_checks_are_soft) =>
        /\ state_type = "SOFT" => last_hard_state = UP
        /\ state_type = "SOFT" /\ current_state # UP => current_attempt < MaxAttempts
        /\ state_type = "HARD" => last_hard_state = current_state
        /\ state_type = "HARD" /\ current_state # UP => current_attempt = MaxAttempts

\* State, type, attempt, last hard state, problem id and acknowledgement agree
\* with each other after any sequence of results: no path through
\* handle_async_host_check_result leaves one of them behind.
HostStatesAgree == UpIsSettled /\ HostTypesAgree

\* A recovery notification follows a problem notification, and only one does,
\* whether the handler or the end of flapping sends it.
HostRecoveriesAnswer == ~ntf.unprompted

\* The number of notifications and the states notified on agree about whether
\* someone was told of the current problem.
HostNumberAgrees == ntf.number > 0 <=> ntf.notified_on # {}

\* An acknowledged problem is not notified about again; only an acknowledgement
\* that is not sticky gives way, and only to another state.
HostAcknowledgementSilences ==
    [][problem_has_been_acknowledged /\ "NORMAL" \in ntf'.sent =>
          acknowledgement_type = "NORMAL" /\ current_state' # current_state]_vars

-----------------------------------------------------------------------------
\* A result that leads to the state the host is in, flapping as it is.
Repeats ==
    /\ UNCHANGED <<current_state, is_flapping, envVars>>
    /\ \E res \in ReturnCodes :
          Translated(res) = current_state /\ HandleResult(res)

\* While the state stays, results keep coming that repeat it; and time passes.
Fairness == WF_vars(Repeats) /\ WF_vars(TimePasses)

FairSpec == Spec /\ Fairness

Calm == suppress = {} /\ ~is_flapping /\ ~problem_has_been_acknowledged

\* A problem that stays, with nothing in the way, is reported in the end, unless
\* passive results are hard.
HostProblemsAreReported ==
    (  /\ <>[](Calm /\ current_state \in NotifyOn \ {UP} /\ (~Passive \/ passive_host_checks_are_soft))
       /\ <>[][current_state' = current_state]_vars)
        => <>[](ntf.reported)

\* A recovery that is owed is sent, or known to be unwanted, in the end.
HostRecoveriesAreSent ==
    <>[](Calm /\ current_state = UP) => <>[](ntf.notified_on = {})
=============================================================================
