------------------------------ MODULE Retention ------------------------------
(***************************************************************************)
(* Comments (common/comments.c, xdata/xcddefault.c) and what a restart     *)
(* keeps of them and of their objects (xdata/xrddefault.c): the retention  *)
(* file is written when the daemon stops and from time to time, either may *)
(* fail, and is read entry by entry when it starts, perhaps under another  *)
(* configuration.                                                          *)
(*                                                                         *)
(* An object stands for what entries of a host or a service have in        *)
(* common.  flap_detection_enabled stands for the attributes that are      *)
(* flags, check_period for those that name another object: each of these   *)
(* is a name, which is retained, and a pointer, which is what the daemon   *)
(* uses.  The percentage of state changes is an input.  Program state is   *)
(* retained (use_retained_program_state, the default), without masks; the  *)
(* loop that looks for an unused comment id then never turns, as every id  *)
(* is below the next one (CommentsAgree).                                  *)
(***************************************************************************)
EXTENDS Naturals

CONSTANTS
    Objects, Periods,
    HostOf,                     \* the host of a service, a host itself of a host
    Configurations,             \* what the configuration files may say
    Downtimes,                  \* ids of downtimes
    LargeInstallationTweaks,    \* use_large_installation_tweaks
    MaxId, MaxSteps             \* bounds: comments made, steps while running

Entries == {"user", "downtime", "flapping", "acknowledgement"}
Marks == {"flap_detection", "check_period"}     \* of modified_attributes
Percentages == {"low", "between", "high"}       \* against the two thresholds

Settings ==
    [present : SUBSET Objects, periods : SUBSET Periods,
     retain_status : [Objects -> BOOLEAN], retain_nonstatus : [Objects -> BOOLEAN],
     flap_detection : [Objects -> BOOLEAN], check_period : [Objects -> Periods]]

ASSUME RetentionConstants ==
    /\ HostOf \in [Objects -> Objects]
    /\ Configurations \subseteq Settings
    /\ \A conf \in Configurations : \A o \in conf.present :
           HostOf[o] \in conf.present /\ conf.check_period[o] \in conf.periods
    /\ LargeInstallationTweaks \in BOOLEAN
    /\ MaxId \in Nat /\ MaxSteps \in Nat

Status ==
    [problem : BOOLEAN,                     \* current_state is not OK or UP
     acknowledged : BOOLEAN, acknowledgement_type : {"none", "normal", "sticky"},
     is_flapping : BOOLEAN, flapping_comment_id : Nat,
     flap_detection_enabled : BOOLEAN,
     check_period : Periods,                \* the name
     check_period_ptr : Periods,            \* the period checks are scheduled in;
                                            \* not written to the file
     modified : SUBSET Marks]

Comments == [id : Nat, object : Objects, entry : Entries, persistent : BOOLEAN]
Scheduled == [id : Downtimes, object : Objects, comment_id : Nat]

\* What the daemon remembers, and what it writes to the file.
Memories ==
    [present : SUBSET Objects, status : [Objects -> Status],
     comments : SUBSET Comments, downtimes : SUBSET Scheduled, next_comment_id : Nat]

VARIABLES
    phase,          \* "running", "loading" or "down"
    config,         \* the configuration in force
    sigrestart,     \* is the load that of a SIGHUP
    memory,         \* lists, ids and objects
    file,           \* what the retention file holds
    todo,           \* the entries of the file that are still to be read
    stopped,        \* history: memory and configuration at an orderly stop,
                    \* until they are loaded
    steps           \* how many so far

vars == <<phase, config, sigrestart, memory, file, todo, stopped, steps>>

Nothing == [objects |-> {}, comments |-> {}, downtimes |-> {}]
EntriesOf(f) == [objects |-> f.present, comments |-> f.comments, downtimes |-> f.downtimes]

\* An object as the configuration describes it.
Configured(conf, o) ==
    [problem |-> FALSE, acknowledged |-> FALSE, acknowledgement_type |-> "none",
     is_flapping |-> FALSE, flapping_comment_id |-> 0,
     flap_detection_enabled |-> conf.flap_detection[o],
     check_period |-> conf.check_period[o], check_period_ptr |-> conf.check_period[o],
     modified |-> {}]

\* Mutant: ids begin anew.
FreshWithoutIds(conf, f) ==
    [present |-> conf.present, status |-> [o \in Objects |-> Configured(conf, o)],
     comments |-> {}, downtimes |-> {}, next_comment_id |-> 0]

\* Memory after the program entry of the file was read; a file that does not
\* exist has none, and ids begin at 0.
Fresh(conf, f) ==
    [present |-> conf.present, status |-> [o \in Objects |-> Configured(conf, o)],
     comments |-> {}, downtimes |-> {}, next_comment_id |-> f.next_comment_id]

Init ==
    \E conf \in Configurations :
        /\ phase = "down" /\ config = conf /\ sigrestart = FALSE
        /\ memory = [Fresh(conf, [next_comment_id |-> 0]) EXCEPT !.present = {}]
        /\ file = memory
        /\ todo = Nothing /\ stopped = {} /\ steps = 0

-----------------------------------------------------------------------------
\* Comments, as operators from memory to memory.

AddComment(m, o, entry, persistent) ==
    [m EXCEPT !.comments = @ \cup {[id |-> m.next_comment_id, object |-> o,
                                    entry |-> entry, persistent |-> persistent]},
              !.next_comment_id = @ + 1]

DeleteComment(m, id) == [m EXCEPT !.comments = {c \in @ : c.id # id}]

DeleteAllComments(m, o) == [m EXCEPT !.comments = {c \in @ : c.object # o}]

DeleteAcknowledgementComments(m, o) ==
    [m EXCEPT !.comments =
        {c \in @ : ~(c.object = o /\ c.entry = "acknowledgement" /\ ~c.persistent)}]

WithStatus(m, o, s) == [m EXCEPT !.status[o] = s]

-----------------------------------------------------------------------------
\* Flapping, as far as comments go.

SetFlap(m, o) ==
    IF m.status[o].flapping_comment_id = 0
    THEN WithStatus(AddComment(m, o, "flapping", FALSE), o,
             [m.status[o] EXCEPT !.is_flapping = TRUE, !.flapping_comment_id = m.next_comment_id])
    ELSE WithStatus(m, o, [m.status[o] EXCEPT !.is_flapping = TRUE])

ClearFlap(m, o) ==
    WithStatus(DeleteComment(m, m.status[o].flapping_comment_id), o,
        [m.status[o] EXCEPT !.is_flapping = FALSE, !.flapping_comment_id = 0])

CheckForFlapping(m, o, percentage) ==
    LET s == m.status[o]
    IN  CASE ~s.flap_detection_enabled /\ s.is_flapping -> ClearFlap(m, o)
          [] s.flap_detection_enabled /\ percentage = "high" /\ ~s.is_flapping -> SetFlap(m, o)
          [] s.flap_detection_enabled /\ percentage = "low" /\ s.is_flapping -> ClearFlap(m, o)
          [] OTHER -> m

-----------------------------------------------------------------------------
\* Steps of a running daemon that change what is remembered.

Running(m) ==
    /\ phase = "running"
    /\ steps < MaxSteps /\ m.next_comment_id <= MaxId
    /\ memory' = m
    /\ steps' = steps + 1
    /\ UNCHANGED <<phase, config, sigrestart, file, todo, stopped>>

\* A result changes the state and with it, perhaps, the acknowledgement; the
\* percentages of a service and of its host are computed anew.  That a soft
\* problem of a service is not counted is among the choices ("between").
HandleResult(o) ==
    \E problem, state_change \in BOOLEAN, p, q \in Percentages :
        LET s == memory.status[o]
            ends == state_change /\ \/ s.acknowledgement_type = "normal"
                                    \/ s.acknowledgement_type = "sticky" /\ ~problem
            checked == IF ends
                       THEN WithStatus(DeleteAcknowledgementComments(memory, o), o,
                                [s EXCEPT !.problem = problem, !.acknowledged = FALSE,
                                          !.acknowledgement_type = "none"])
                       ELSE WithStatus(memory, o, [s EXCEPT !.problem = problem])
        IN  /\ problem # s.problem => state_change
            /\ ~problem /\ ~s.problem => ~state_change
            /\ HostOf[o] = o => q = "between"
            /\ Running(CheckForFlapping(CheckForFlapping(checked, o, p), HostOf[o], q))

AcknowledgeProblem(o) ==
    \E type \in {"normal", "sticky"}, persistent \in BOOLEAN :
        /\ memory.status[o].problem
        /\ Running(WithStatus(AddComment(memory, o, "acknowledgement", persistent), o,
               [memory.status[o] EXCEPT !.acknowledged = TRUE, !.acknowledgement_type = type]))

\* The type of the acknowledgement stays.
RemoveAcknowledgement(o) ==
    Running(WithStatus(DeleteAcknowledgementComments(memory, o), o,
        [memory.status[o] EXCEPT !.acknowledged = FALSE]))

CmdAddComment(o) ==
    \E persistent \in BOOLEAN : Running(AddComment(memory, o, "user", persistent))

CmdDeleteComment == \E c \in memory.comments : Running(DeleteComment(memory, c.id))

CmdDeleteAllComments(o) == Running(DeleteAllComments(memory, o))

EnableFlapDetection(o) ==
    \E p \in Percentages :
        /\ ~memory.status[o].flap_detection_enabled
        /\ Running(CheckForFlapping(WithStatus(memory, o,
               [memory.status[o] EXCEPT !.flap_detection_enabled = TRUE,
                                        !.modified = @ \cup {"flap_detection"}]), o, p))

\* Mutant: the attribute is not marked as modified.
DisableFlapDetectionUnmarked(o) ==
    LET disabled == WithStatus(memory, o,
                        [memory.status[o] EXCEPT !.flap_detection_enabled = FALSE])
    IN  /\ memory.status[o].flap_detection_enabled
        /\ Running(IF memory.status[o].is_flapping THEN ClearFlap(disabled, o) ELSE disabled)

DisableFlapDetection(o) ==
    LET disabled == WithStatus(memory, o, [memory.status[o] EXCEPT
                        !.flap_detection_enabled = FALSE, !.modified = @ \cup {"flap_detection"}])
    IN  /\ memory.status[o].flap_detection_enabled
        /\ Running(IF memory.status[o].is_flapping THEN ClearFlap(disabled, o) ELSE disabled)

ClearFlappingState(o) ==
    /\ memory.status[o].flap_detection_enabled
    /\ Running(ClearFlap(memory, o))

ChangeCheckPeriod(o) ==
    \E period \in config.periods :
        Running(WithStatus(memory, o, [memory.status[o] EXCEPT
            !.check_period = period, !.check_period_ptr = period,
            !.modified = @ \cup {"check_period"}]))

\* A downtime of an object that is not configured gets no comment, and stays.
RegisterDowntime(m, id, o) ==
    IF o \in m.present
    THEN [AddComment(m, o, "downtime", FALSE) EXCEPT
              !.downtimes = @ \cup {[id |-> id, object |-> o, comment_id |-> m.next_comment_id]}]
    ELSE [m EXCEPT !.downtimes = @ \cup {[id |-> id, object |-> o, comment_id |-> 0]}]

ScheduleDowntime(o) ==
    \E id \in Downtimes :
        /\ \A d \in memory.downtimes : d.id # id
        /\ Running(RegisterDowntime(memory, id, o))

\* It was cancelled, has ended or has expired.
DeleteDowntime ==
    \E d \in memory.downtimes :
        Running([DeleteComment(memory, d.comment_id) EXCEPT !.downtimes = @ \ {d}])

-----------------------------------------------------------------------------
\* Saving and stopping.

\* The file changes as a whole, by a rename, or not at all.
SaveStateInformation ==
    /\ phase = "running" /\ steps < MaxSteps /\ file # memory
    /\ file' = memory
    /\ steps' = steps + 1
    /\ UNCHANGED <<phase, config, sigrestart, memory, todo, stopped>>

\* The file is read from the beginning; on a first start there is none.
Begin(conf, f, sighup) ==
    /\ phase' = "loading" /\ config' = conf /\ sigrestart' = sighup
    /\ memory' = Fresh(conf, f)
    /\ todo' = EntriesOf(f)

\* SIGHUP: nobody looks at whether the save succeeds.
Restart ==
    \E conf \in Configurations, saved \in BOOLEAN :
        /\ phase = "running" /\ steps < MaxSteps
        /\ file' = IF saved THEN memory ELSE file
        /\ stopped' = IF saved THEN {[memory |-> memory, config |-> config]} ELSE {}
        /\ Begin(conf, file', TRUE)
        /\ steps' = steps + 1

Shutdown ==
    \E saved \in BOOLEAN :
        /\ phase = "running" /\ steps < MaxSteps
        /\ file' = IF saved THEN memory ELSE file
        /\ stopped' = IF saved THEN {[memory |-> memory, config |-> config]} ELSE {}
        /\ phase' = "down"
        /\ steps' = steps + 1
        /\ UNCHANGED <<config, sigrestart, memory, todo>>

Crash ==
    /\ phase # "down" /\ steps < MaxSteps
    /\ phase' = "down" /\ todo' = Nothing
    /\ stopped' = IF phase = "loading" THEN stopped ELSE {}
    /\ steps' = steps + 1
    /\ UNCHANGED <<config, sigrestart, memory, file>>

Start ==
    \E conf \in Configurations :
        /\ phase = "down"
        /\ Begin(conf, file, FALSE)
        /\ UNCHANGED <<file, stopped, steps>>

-----------------------------------------------------------------------------
\* Loading: the entries of the objects, then of comments, then of downtimes.

\* What is not status is only looked at if the line was not taken for status,
\* and every line is if status is not retained: so values need both.  The
\* pointer was set before, when the configuration was verified, and stays.
Restored(conf, s, o) ==
    LET status == conf.retain_status[o]
        both == status /\ conf.retain_nonstatus[o]
        lost == both /\ "check_period" \in s.modified /\ s.check_period \notin conf.periods
    IN  [problem |-> status /\ s.problem,
         acknowledged |-> both /\ s.acknowledged,
         acknowledgement_type |-> IF both THEN s.acknowledgement_type ELSE "none",
         is_flapping |-> LargeInstallationTweaks /\ status /\ s.is_flapping,
         flapping_comment_id |-> IF status /\ sigrestart THEN s.flapping_comment_id ELSE 0,
         flap_detection_enabled |->
             IF both /\ "flap_detection" \in s.modified THEN s.flap_detection_enabled
                                                        ELSE conf.flap_detection[o],
         check_period |->
             IF both /\ "check_period" \in s.modified /\ ~lost THEN s.check_period
                                                               ELSE conf.check_period[o],
         check_period_ptr |-> conf.check_period[o],
         modified |-> IF ~conf.retain_nonstatus[o] THEN {}
                      ELSE IF lost THEN s.modified \ {"check_period"} ELSE s.modified]

\* The history of an object without retained status has no changes in it.
LoadObject(o, p) ==
    LET restored == WithStatus(memory, o, Restored(config, file.status[o], o))
    IN  /\ phase = "loading" /\ o \in todo.objects
        /\ ~config.retain_status[o] => p = "low"
        /\ memory' = IF o \notin config.present THEN memory
                      ELSE IF LargeInstallationTweaks THEN restored
                      ELSE CheckForFlapping(restored, o, p)
        /\ todo' = [todo EXCEPT !.objects = @ \ {o}]
        /\ UNCHANGED <<phase, config, sigrestart, file, stopped, steps>>

Keeps(c) ==
    /\ c.object \in config.present
    /\ IF c.entry = "acknowledgement"
       THEN c.persistent \/ memory.status[c.object].acknowledged
       ELSE c.persistent \/ (sigrestart /\ c.entry # "downtime")

LoadComment(c) ==
    /\ phase = "loading" /\ todo.objects = {} /\ c \in todo.comments
    /\ memory' = IF Keeps(c) THEN [memory EXCEPT !.comments = @ \cup {c}] ELSE memory
    /\ todo' = [todo EXCEPT !.comments = @ \ {c}]
    /\ UNCHANGED <<phase, config, sigrestart, file, stopped, steps>>

\* Its comment was dropped, and it gets a new one.
LoadDowntime(d) ==
    /\ phase = "loading" /\ todo.objects = {} /\ todo.comments = {} /\ d \in todo.downtimes
    /\ memory' = RegisterDowntime(memory, d.id, d.object)
    /\ todo' = [todo EXCEPT !.downtimes = @ \ {d}]
    /\ UNCHANGED <<phase, config, sigrestart, file, stopped, steps>>

\* Without a file ids begin at 1.
FinishLoad ==
    /\ phase = "loading" /\ todo = Nothing
    /\ phase' = "running" /\ sigrestart' = FALSE /\ stopped' = {}
    /\ memory' = [memory EXCEPT !.next_comment_id = IF @ = 0 THEN 1 ELSE @]
    /\ UNCHANGED <<config, file, todo, steps>>

-----------------------------------------------------------------------------
Next ==
    \/ \E o \in memory.present :
           \/ HandleResult(o) \/ AcknowledgeProblem(o) \/ RemoveAcknowledgement(o)
           \/ CmdAddComment(o) \/ CmdDeleteAllComments(o)
           \/ EnableFlapDetection(o) \/ DisableFlapDetection(o) \/ ClearFlappingState(o)
           \/ ChangeCheckPeriod(o) \/ ScheduleDowntime(o)
    \/ CmdDeleteComment \/ DeleteDowntime
    \/ SaveStateInformation \/ Restart \/ Shutdown \/ Crash \/ Start
    \/ \E o \in Objects, p \in Percentages : LoadObject(o, p)
    \/ \E c \in todo.comments : LoadComment(c)
    \/ \E d \in todo.downtimes : LoadDowntime(d)
    \/ FinishLoad

Spec == Init /\ [][Next]_vars

-----------------------------------------------------------------------------
TypeOK ==
    /\ phase \in {"running", "loading", "down"}
    /\ config \in Configurations
    /\ sigrestart \in BOOLEAN
    /\ memory \in Memories
    /\ file \in Memories
    /\ todo \in [objects : SUBSET Objects, comments : SUBSET Comments,
                 downtimes : SUBSET Scheduled]
    /\ stopped \subseteq [memory : Memories, config : Configurations]
    /\ steps \in Nat

\* Ids name one comment each.
IdsAgree(m) == \A c, d \in m.comments : c.id = d.id => c = d

\* An id kept for a flapping comment or for that of a downtime is of such a
\* comment on the same object, or of none: what is deleted is "the comment we
\* added earlier" (flapping.c) even if somebody deleted that one first.
OwnersAgree(m) ==
    /\ \A o \in Objects : m.status[o].flapping_comment_id # 0 =>
           \A c \in m.comments : c.id = m.status[o].flapping_comment_id =>
               c.object = o /\ c.entry = "flapping"
    /\ \A d \in m.downtimes : d.comment_id # 0 =>
           \A c \in m.comments : c.id = d.comment_id => c.object = d.object /\ c.entry = "downtime"

\* A comment that goes with an acknowledgement is not there without it.
AcknowledgementsAgree(m) ==
    \A c \in m.comments :
        c.entry = "acknowledgement" /\ ~c.persistent => m.status[c.object].acknowledged

\* Whatever is deleted, saved, not saved, loaded or reconfigured between: ids
\* name one comment, that of their owner, and the comment of an acknowledgement
\* goes with it.
CommentsAgree == IdsAgree(memory) /\ OwnersAgree(memory) /\ AcknowledgementsAgree(memory)

\* After an orderly stop and the load that follows it, perhaps under another
\* configuration, the objects that still retain their information have their
\* acknowledgements; a flag that was not as configured is as it was, and so is
\* a name, if what it names exists; but what is in force is what the
\* configuration names, whatever the name says.  Persistent comments are there
\* whatever the object retains.
ChangesAreKept ==
    phase = "loading" /\ todo = Nothing =>
        \A before \in stopped :
            /\ \A c \in before.memory.comments :
                   c.persistent /\ c.object \in config.present => c \in memory.comments
            /\ \A o \in before.memory.present \cap config.present :
                   LET was == before.memory.status[o]
                       is == memory.status[o]
                   IN  config.retain_status[o] /\ config.retain_nonstatus[o] =>
                           /\ is.acknowledged = was.acknowledged
                           /\ was.flap_detection_enabled # before.config.flap_detection[o] =>
                                  is.flap_detection_enabled = was.flap_detection_enabled
                           /\ was.check_period # before.config.check_period[o]
                              /\ was.check_period \in config.periods =>
                                  is.check_period = was.check_period
                           /\ is.check_period_ptr = config.check_period[o]

=============================================================================
