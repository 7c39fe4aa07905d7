------------------------------- MODULE Worker -------------------------------
(***************************************************************************)
(* One worker process of Nagios Core (lib/worker.c): it takes commands     *)
(* from the master, runs each in a child process, answers the master when  *)
(* the child exits or its time is up, and goes on trying to reap a child   *)
(* that outlives its kill.                                                 *)
(*                                                                         *)
(* Time is kept as one countdown per job: timer[j] is the number of ticks  *)
(* until the entry of j in the scheduling queue is due, and -1 once that   *)
(* moment has passed.  For a job in time it is the distance to             *)
(* start + timeout, for a stale job the distance to the next reap attempt; *)
(* the state space is therefore finite without a bound on the clock.       *)
(*                                                                         *)
(* The process ends when it finds that the master has closed the socket:   *)
(* it reads end-of-file once the commands still in the socket are read, or *)
(* one of its writes fails with EPIPE (SIGPIPE is ignored), whichever it   *)
(* comes to first.                                                         *)
(***************************************************************************)
EXTENDS Integers, FiniteSets, Sequences

CONSTANTS
    Jobs,         \* the commands the master will ever send to this worker
    JobTimeout,   \* ticks each command may run (timeout, in its request)
    FirstRetry,   \* ticks to the first reap attempt after a kill (250 ms)
    StaleRetry    \* ticks between later reap attempts (5 s)

ASSUME JobsFinite == IsFiniteSet(Jobs)
ASSUME WorkerTimes == /\ JobTimeout \in [Jobs -> Nat \ {0}]
                      /\ FirstRetry \in Nat
                      /\ StaleRetry \in Nat

VARIABLES
    \* the worker process
    pc,           \* where enter_worker's loop is
    cp,           \* the child_process structs: absent, in time, stale, freed,
                  \* or still allocated when the process exits
    timer,        \* the scheduling queue sq, as countdowns
    fdsOpen,      \* is the job's stdout or stderr still registered in iobs
    running_jobs,
    reapable,     \* SIGCHLDs counted and not yet consumed by reap_jobs
    \* its environment
    socket,       \* "closed" once the master has closed its end
    inbox,        \* commands in the socket that the worker has not read
    child,        \* the child processes, as the kernel sees them
    outbox        \* every response written to the master, in order

workerVars == <<pc, cp, timer, fdsOpen, running_jobs, reapable>>
vars == <<pc, cp, timer, fdsOpen, running_jobs, reapable,
          socket, inbox, child, outbox>>

\* How the process ends: exit(), or the SIGKILL it sends to itself.
Ended == {"exited", "killed"}

\* error_code of a response: 0 is a child that exited, ETIME a timeout,
\* "error_msg" a command that could not be started
Reasons == {"ok", "ETIME", "error_msg"}

ChildStates == {"none", "running", "stuck", "dying", "zombie", "gone"}

Queued == {j \in Jobs : cp[j] \in {"intime", "ESTALE"}}
Answered == {outbox[i].job : i \in DOMAIN outbox}

TypeOK ==
    /\ pc \in {"timeouts", "poll", "reap"} \cup Ended
    /\ cp \in [Jobs -> {"none", "intime", "ESTALE", "freed", "abandoned"}]
    /\ timer \in [Jobs -> Nat \cup {-1}]
    /\ fdsOpen \in [Jobs -> BOOLEAN]
    /\ running_jobs \in Int
    /\ reapable \in Nat /\ (pc = "reap" => reapable > 0)
    /\ socket \in {"open", "closed"}
    /\ inbox \subseteq Jobs
    /\ child \in [Jobs -> ChildStates]
    /\ outbox \in Seq([job : Jobs, reason : Reasons])

Init ==
    /\ pc = "timeouts"
    /\ cp = [j \in Jobs |-> "none"]
    /\ timer = [j \in Jobs |-> -1]
    /\ fdsOpen = [j \in Jobs |-> FALSE]
    /\ running_jobs = 0
    /\ reapable = 0
    /\ socket = "open"
    /\ inbox = {}
    /\ child = [j \in Jobs |-> "none"]
    /\ outbox = <<>>

-----------------------------------------------------------------------------
\* The functions of worker.c that every path shares.  Each one is an action
\* fragment: what it says about a job's struct and its response.

\* finish_job: answer the master and give up the job's descriptors.  If the
\* master is gone the write fails and the process ends (WriteFails).
finish_job(j, reason) ==
    /\ socket = "open"
    /\ outbox' = Append(outbox, [job |-> j, reason |-> reason])
    /\ fdsOpen' = [fdsOpen EXCEPT ![j] = FALSE]

\* destroy_job: out of the queue, off the count, freed.
destroy_job(j) ==
    /\ cp' = [cp EXCEPT ![j] = "freed"]
    /\ timer' = [timer EXCEPT ![j] = -1]
    /\ running_jobs' = running_jobs - 1

\* What waitpid(pid, WNOHANG) finds: only a zombie can be reaped.
Reapable(j) == child[j] = "zombie"
WaitPid(j)  == child' = [child EXCEPT ![j] = "gone"]

\* check_completion, when the child turns out to have exited.
check_completion(j) ==
    /\ Reapable(j)
    /\ WaitPid(j)
    /\ finish_job(j, "ok")
    /\ destroy_job(j)

-----------------------------------------------------------------------------
\* The loop of enter_worker, first part: the queue is walked from its head
\* until a job is found whose time is not up.

Heads == {j \in Queued : \A k \in Queued : timer[j] <= timer[k]}

\* Mutation of TimeoutsDone: a job whose time is up does not stop the poll.
TimeoutsDoneAnyway ==
    /\ pc = "timeouts"
    /\ pc' = "poll"
    /\ UNCHANGED <<cp, timer, fdsOpen, running_jobs, reapable,
                   socket, inbox, child, outbox>>

\* Nothing runs, or the job at the head still has time: go and poll.
TimeoutsDone ==
    /\ pc = "timeouts"
    /\ \/ running_jobs = 0
       \/ Queued = {}
       \/ \E j \in Heads : cp[j] = "intime" /\ timer[j] >= 0
    /\ pc' = "poll"
    /\ UNCHANGED <<cp, timer, fdsOpen, running_jobs, reapable,
                   socket, inbox, child, outbox>>

\* kill_job(ETIME), the child already dead: check_completion answers for it.
CompletedAtTimeout(j) ==
    /\ pc = "timeouts" /\ running_jobs # 0
    /\ j \in Heads /\ cp[j] = "intime" /\ timer[j] < 0
    /\ check_completion(j)
    /\ UNCHANGED <<pc, reapable, socket, inbox>>

\* kill_job(ETIME), the SIGKILL took effect before waitpid looked.
KilledAtTimeout(j) ==
    /\ pc = "timeouts" /\ running_jobs # 0
    /\ j \in Heads /\ cp[j] = "intime" /\ timer[j] < 0
    /\ child[j] = "running"
    /\ WaitPid(j)
    /\ finish_job(j, "ETIME")
    /\ destroy_job(j)
    /\ reapable' \in {reapable, reapable + 1}
    /\ UNCHANGED <<pc, socket, inbox>>

\* kill_job(ETIME), the child still there after the SIGKILL: the timeout is
\* reported at once and the struct stays behind, stale, for another attempt.
StaleAtTimeout(j) ==
    /\ pc = "timeouts" /\ running_jobs # 0
    /\ j \in Heads /\ cp[j] = "intime" /\ timer[j] < 0
    /\ child[j] \in {"running", "stuck"}
    /\ child' = [child EXCEPT ![j] = IF @ = "running" THEN "dying" ELSE @]
    /\ cp' = [cp EXCEPT ![j] = "ESTALE"]
    /\ timer' = [timer EXCEPT ![j] = FirstRetry]
    /\ finish_job(j, "ETIME")
    /\ UNCHANGED <<pc, running_jobs, reapable, socket, inbox>>

\* kill_job(ESTALE) on a due attempt: the dormant child is reaped.  The master
\* gets a line for its log (wlog), which is no response.
DormantReaped(j) ==
    /\ pc = "timeouts" /\ running_jobs # 0
    /\ j \in Heads /\ cp[j] = "ESTALE" /\ timer[j] < 0
    /\ Reapable(j) /\ socket = "open"
    /\ WaitPid(j)
    /\ destroy_job(j)
    /\ UNCHANGED <<pc, fdsOpen, reapable, socket, inbox, outbox>>

\* kill_job(ESTALE) in vain: try again later.
StillDormant(j) ==
    /\ pc = "timeouts" /\ running_jobs # 0
    /\ j \in Heads /\ cp[j] = "ESTALE" /\ timer[j] < 0
    /\ child[j] \in {"stuck", "dying"} /\ socket = "open"
    /\ timer' = [timer EXCEPT ![j] = StaleRetry]
    /\ UNCHANGED <<pc, cp, fdsOpen, running_jobs, reapable,
                   socket, inbox, child, outbox>>

\* A stale job at the head whose attempt is not due changes nothing: the loop
\* takes another turn without polling, so there is no action for it.

-----------------------------------------------------------------------------
\* Second part: iobroker_poll and the handlers it calls.

\* receive_command, one message: spawn_job starts the child ...
SpawnJob(j) ==
    /\ pc = "poll" /\ j \in inbox
    /\ inbox' = inbox \ {j}
    /\ cp' = [cp EXCEPT ![j] = "intime"]
    /\ timer' = [timer EXCEPT ![j] = JobTimeout[j]]
    /\ running_jobs' = running_jobs + 1
    /\ child' = [child EXCEPT ![j] = "running"]
    /\ fdsOpen' = [fdsOpen EXCEPT ![j] = TRUE]
    /\ UNCHANGED <<pc, reapable, socket, outbox>>

\* ... or fails to, and tells the master so (job_error).
SpawnFailed(j) ==
    /\ pc = "poll" /\ j \in inbox /\ socket = "open"
    /\ inbox' = inbox \ {j}
    /\ outbox' = Append(outbox, [job |-> j, reason |-> "error_msg"])
    /\ cp' = [cp EXCEPT ![j] = "freed"]
    /\ UNCHANGED <<pc, timer, fdsOpen, running_jobs, reapable, socket, child>>

\* gather_output reads end-of-file on the last descriptor and the child is
\* found dead: the response goes out before SIGCHLD is looked at.
OutputClosed(j) ==
    /\ pc = "poll" /\ fdsOpen[j]
    /\ check_completion(j)
    /\ UNCHANGED <<pc, reapable, socket, inbox>>

\* gather_output reads end-of-file from a child that lives on without output.
OutputClosedEarly(j) ==
    /\ pc = "poll" /\ fdsOpen[j]
    /\ child[j] \in {"running", "stuck"}
    /\ fdsOpen' = [fdsOpen EXCEPT ![j] = FALSE]
    /\ UNCHANGED <<pc, cp, timer, running_jobs, reapable, socket, inbox, child, outbox>>

\* The poll returns: on a descriptor, its timeout or a signal.
PollDone ==
    /\ pc = "poll"
    /\ pc' = IF reapable > 0 THEN "reap" ELSE "timeouts"
    /\ UNCHANGED <<cp, timer, fdsOpen, running_jobs, reapable,
                   socket, inbox, child, outbox>>

-----------------------------------------------------------------------------
\* Third part: reap_jobs, one turn of its loop at a time.

\* Mutation of ReapChild: a stale job is answered for a second time.
ReapChildAnswersStale(j) ==
    /\ pc = "reap" /\ Reapable(j)
    /\ WaitPid(j)
    /\ finish_job(j, "ok")
    /\ destroy_job(j)
    /\ reapable' = reapable - 1
    /\ pc' = IF reapable = 1 THEN "timeouts" ELSE "reap"
    /\ UNCHANGED <<socket, inbox>>

\* waitpid(-1) hands over a dead child: answer for it unless that was done
\* when it went stale.
ReapChild(j) ==
    /\ pc = "reap" /\ Reapable(j)
    /\ WaitPid(j)
    /\ IF cp[j] # "ESTALE" THEN finish_job(j, "ok") ELSE UNCHANGED <<outbox, fdsOpen>>
    /\ destroy_job(j)
    /\ reapable' = reapable - 1
    /\ pc' = IF reapable = 1 THEN "timeouts" ELSE "reap"
    /\ UNCHANGED <<socket, inbox>>

\* waitpid(-1) finds no dead child: the count was wrong, and is dropped.
NothingToReap ==
    /\ pc = "reap" /\ \A j \in Jobs : ~Reapable(j)
    /\ reapable' = 0
    /\ pc' = "timeouts"
    /\ UNCHANGED <<cp, timer, fdsOpen, running_jobs, socket, inbox, child, outbox>>

-----------------------------------------------------------------------------
\* The end of the process.

\* Mutation of exit_worker: only the jobs in time are killed.
exit_workerInTimeOnly(end, killed) ==
    /\ pc' = end
    /\ cp' = [j \in Jobs |-> IF j \in Queued THEN "abandoned" ELSE cp[j]]
    /\ child' = [j \in Jobs |->
                   IF j \in killed /\ cp[j] = "intime" /\ child[j] # "stuck"
                   THEN "gone" ELSE child[j]]
    /\ UNCHANGED <<timer, fdsOpen, running_jobs, reapable, socket, inbox, outbox>>

\* The queue is popped in the order of its times and the process group of each
\* entry killed: killed are the jobs whose turn comes before the process ends.
exit_worker(end, killed) ==
    /\ pc' = end
    /\ cp' = [j \in Jobs |-> IF j \in Queued THEN "abandoned" ELSE cp[j]]
    /\ child' = [j \in Jobs |-> IF j \in killed /\ child[j] # "stuck"
                               THEN "gone" ELSE child[j]]
    /\ UNCHANGED <<timer, fdsOpen, running_jobs, reapable, socket, inbox, outbox>>

\* receive_command reads end-of-file, every command sent having been read.
ReadsEof ==
    /\ pc = "poll" /\ socket = "closed" /\ inbox = {}
    /\ exit_worker("exited", Queued)

\* What is written about a job that runs: its response, and a log line when its
\* time is up or when an attempt to reap it is made.
WritesAbout(j) ==
    \/ pc = "timeouts" /\ running_jobs # 0 /\ j \in Heads /\ timer[j] < 0
    \/ pc = "poll" /\ fdsOpen[j] /\ Reapable(j)
    \/ pc = "reap" /\ Reapable(j) /\ cp[j] # "ESTALE"

\* wlog or finish_job finds the socket closed.
WriteFails(j) ==
    /\ socket = "closed" /\ WritesAbout(j)
    /\ exit_worker("exited", Queued)

\* job_error finds the socket closed, about a command that has no struct in the
\* queue yet (spawn_job could not parse it) ...
RefusalFails(j) ==
    /\ pc = "poll" /\ j \in inbox /\ socket = "closed"
    /\ exit_worker("exited", Queued)

\* ... or about one that start_cmd could not start.  Its struct is in the queue
\* with pid 0: when its turn comes, kill(-0, SIGKILL) reaches the process group
\* of the worker itself, and the jobs behind it are not killed.
RefusalKillsItself(j) ==
    /\ pc = "poll" /\ j \in inbox /\ socket = "closed"
    /\ \E ties \in SUBSET {k \in Queued : timer[k] = JobTimeout[j]} :
          exit_worker("killed", {k \in Queued : timer[k] < JobTimeout[j]} \cup ties)

Exited == pc \in Ended /\ UNCHANGED vars

-----------------------------------------------------------------------------
\* The environment: the master, the clock and the kernel.

MasterSends(j) ==
    /\ cp[j] = "none" /\ j \notin inbox /\ socket = "open"
    /\ inbox' = inbox \cup {j}
    /\ UNCHANGED <<workerVars, socket, child, outbox>>

\* The master exits, or drops this worker: it closes the socket.
MasterCloses ==
    /\ socket = "open"
    /\ socket' = "closed"
    /\ UNCHANGED <<workerVars, inbox, child, outbox>>

Tick ==
    /\ pc \notin Ended
    /\ \E j \in Queued : timer[j] >= 0
    /\ timer' = [j \in Jobs |-> IF timer[j] < 0 THEN -1 ELSE timer[j] - 1]
    /\ UNCHANGED <<pc, cp, fdsOpen, running_jobs, reapable,
                   socket, inbox, child, outbox>>

\* The child ends and SIGCHLD is delivered.  The handler's increment is lost
\* when the signal merges with one that is counted already, or when it races
\* the unlocked updates of reap_jobs.
ChildExits(j) ==
    /\ child[j] \in {"running", "dying", "stuck"} /\ pc \notin Ended
    /\ child' = [child EXCEPT ![j] = "zombie"]
    /\ \/ reapable' = reapable + 1
       \/ (reapable > 0 \/ pc = "reap") /\ reapable' = reapable
    /\ UNCHANGED <<pc, cp, timer, fdsOpen, running_jobs, socket, inbox, outbox>>

\* The child enters uninterruptible sleep, where SIGKILL does not reach it.
ChildSticks(j) ==
    /\ child[j] = "running" /\ pc \notin Ended
    /\ child' = [child EXCEPT ![j] = "stuck"]
    /\ UNCHANGED <<workerVars, socket, inbox, outbox>>

-----------------------------------------------------------------------------
\* What the loop does with a job whose time is up.
TimedOut(j) == CompletedAtTimeout(j) \/ KilledAtTimeout(j) \/ StaleAtTimeout(j)
RetryReap(j) == DormantReaped(j) \/ StillDormant(j)
ReceiveCommand(j) == SpawnJob(j) \/ SpawnFailed(j)
GatherOutput(j) == OutputClosed(j) \/ OutputClosedEarly(j)
Loop == TimeoutsDone \/ PollDone \/ NothingToReap \/ \E j \in Jobs : ReapChild(j)
Ends(j) == WriteFails(j) \/ RefusalFails(j) \/ RefusalKillsItself(j)
Environment(j) == MasterSends(j) \/ ChildExits(j) \/ ChildSticks(j)

Next ==
    \/ Loop \/ ReadsEof \/ Exited \/ Tick \/ MasterCloses
    \/ \E j \in Jobs : \/ TimedOut(j) \/ RetryReap(j)
                       \/ ReceiveCommand(j) \/ GatherOutput(j)
                       \/ Ends(j) \/ Environment(j)

Spec == Init /\ [][Next]_vars

\* The process keeps running its loop and the clock keeps running.  The
\* per-job conjuncts are what the order of the scheduling queue gives: the
\* entry that is overdue the longest is at the head; a readable socket is
\* reported by every poll, hence the strong fairness, of end-of-file too.
\* Nothing is assumed of the children: one may run, or be stuck, for ever; nor
\* of the master.
Fairness ==
    /\ WF_vars(Tick) /\ WF_vars(Loop) /\ SF_vars(ReadsEof)
    /\ \A j \in Jobs : /\ WF_vars(TimedOut(j)) /\ WF_vars(RetryReap(j))
                      /\ SF_vars(ReceiveCommand(j)) /\ WF_vars(WriteFails(j))

FairSpec == Spec /\ Fairness

-----------------------------------------------------------------------------
\* The contract this process implements.

StatusOf(j) ==
    IF j \in Answered THEN "answered"
    ELSE IF j \in inbox THEN "sent"
    ELSE IF cp[j] \in {"intime", "abandoned"} THEN "taken"
    ELSE "idle"

status == [j \in Jobs |-> StatusOf(j)]

Contract == INSTANCE JobContract WITH answers <- outbox

\* Every step of the process is a step of JobContract or invisible to the
\* master: the four ways a job can end (end-of-file, SIGCHLD, timeout, failed
\* start) look the same from outside, and the attempts to reap a stale child
\* do not show at all.
ImplementsContract == Contract!CSpec

-----------------------------------------------------------------------------
\* Safety.

\* The master hears of a job exactly once, and the worker forgets the job only
\* afterwards: a job has its one response from the moment it goes stale or is
\* destroyed and none before, whichever of end-of-file, SIGCHLD, the timeout
\* and the later reap attempts gets there first (finish_job's four callers).
OneAnswerThenForget ==
    /\ \A i, k \in DOMAIN outbox : outbox[i].job = outbox[k].job => i = k
    /\ \A j \in Jobs : cp[j] # "abandoned" =>
          (j \in Answered <=> cp[j] \in {"ESTALE", "freed"})

\* What a struct, its child and its descriptors know of each other.  Above all
\* a struct is freed only when its child is no longer the worker's to wait for
\* (destroy_job never leaves a child running unwatched or a zombie behind), and
\* a descriptor whose handler would answer for the job is open only while no
\* answer has been given.
StructMatchesChild ==
    \A j \in Jobs :
        /\ cp[j] = "none"      => child[j] = "none"
        /\ cp[j] = "intime"    => child[j] \in {"running", "stuck", "zombie"}
        /\ cp[j] = "ESTALE"    => child[j] \in {"dying", "stuck", "zombie"}
        /\ cp[j] = "freed"     => child[j] \in {"none", "gone"}
        /\ cp[j] = "abandoned" => pc = "killed" \/ child[j] \in {"gone", "stuck"}
        /\ fdsOpen[j] => cp[j] \in {"intime", "abandoned"}
        /\ j \in inbox => cp[j] = "none"
        /\ pc \in Ended => cp[j] \notin {"intime", "ESTALE"}
        /\ cp[j] = "abandoned" => pc \in Ended

\* The counter that decides whether the queue is looked at agrees with the
\* queue; finish_job logs "running_jobs(%d) != squeue_size(sq)" otherwise.
QueueCountAgrees ==
    pc \notin Ended => running_jobs = Cardinality(Queued)

\* A child that outlives its worker though a signal would have reached it.
Survives(j) == child[j] \notin {"none", "gone", "stuck"}

\* Which children are left when the worker ends, whichever of its reads and
\* writes finds the master gone: none, unless the worker killed itself over a
\* command it had not started yet, and then only children whose entry in the
\* queue is due no earlier than that command's would have been (exit_worker
\* pops the queue in order, so the queue must hold every job with a child).
SurvivorsAreDueLater ==
    /\ pc = "exited" => ~ \E k \in Jobs : Survives(k)
    /\ pc = "killed" => \E j \in inbox : \A k \in Jobs :
                            Survives(k) => timer[k] >= JobTimeout[j]

\* Liveness.

\* Every job the worker has taken is answered, even if its child never ends
\* and even while another child cannot be killed, unless the master goes away
\* and the worker with it.
TakenJobsAnswered ==
    \A j \in Jobs : cp[j] = "intime" ~> (j \in Answered \/ pc \in Ended)

=============================================================================
