----------------------------- MODULE WorkerPool -----------------------------
(***************************************************************************)
(* The master's side of the worker protocol (base/workers.c): workers      *)
(* register, jobs are handed to them in turn, their responses are matched  *)
(* with the jobs by number, and the jobs of a worker whose connection      *)
(* breaks are given to another one.                                        *)
(*                                                                         *)
(* A worker is the contract of module JobContract: it answers a job it was *)
(* sent at most once, in any order, and may die at any moment.             *)
(***************************************************************************)
EXTENDS Integers, FiniteSets, Sequences

CONSTANTS
    Workers,     \* worker processes that may ever connect
    Jobs,        \* the jobs the master will ever create
    Commands,    \* plugin names
    Global,      \* names the list of workers without a plugin of their own
    NoWorker,    \* a NULL worker pointer
    Plugins,     \* [Workers -> Seq(Commands)], the plugin= arguments, in order
    CommandOf,   \* [Jobs -> Commands]
    IsCallback,  \* [Jobs -> BOOLEAN], WPJOB_CALLBACK or any other type
    UIntSize,    \* 2^w, the range of an unsigned int
    MayRestart   \* is the master restarted (SIGHUP) in this instance

ASSUME PoolConstants ==
    /\ Global \notin Commands /\ NoWorker \notin Workers
    /\ Plugins \in [Workers -> Seq(Commands)]
    /\ \A w \in Workers : \A i, k \in DOMAIN Plugins[w] :
          Plugins[w][i] = Plugins[w][k] => i = k
    /\ CommandOf \in [Jobs -> Commands]
    /\ IsCallback \in [Jobs -> BOOLEAN]
    /\ UIntSize \in Nat \ {0} /\ MayRestart \in BOOLEAN
    /\ IsFiniteSet(Jobs) /\ IsFiniteSet(Workers)

VARIABLES
    \* the master
    lists,        \* struct wproc_list: the global one and one per plugin
    idx,          \* the round-robin index of each list
    jobs,         \* [Workers -> SUBSET Jobs], the job table of each worker
    job_index,    \* the next job number of each worker
    jobs_running, \* struct wproc_worker.jobs_running
    loadctl,      \* loadctl.jobs_running
    online,       \* wproc_num_workers_online
    job,          \* the job structs: not made yet, refused (no worker), choked
                  \* (the write failed; both give the caller ERROR), live, freed
    jobWp,        \* job->wp
    jobId,        \* job->id
    calls,        \* how often a job's callback ran
    delivered,    \* [Jobs -> Seq(Jobs)], whose results each job was given
    breaking,     \* the worker handle_worker_result is taking apart
    pending,      \* its jobs, still to be reassigned
    \* the workers
    worker,       \* not connected, up, dead but not noticed, removed
    sent,         \* requests a worker has not answered
    answers       \* responses the master has not read

masterVars == <<lists, idx, jobs, job_index, jobs_running, loadctl, online, job, jobWp,
                jobId, calls, delivered, breaking, pending>>
vars == <<lists, idx, jobs, job_index, jobs_running, loadctl, online, job, jobWp, jobId,
          calls, delivered, breaking, pending, worker, sent, answers>>

ListKeys == Commands \cup {Global}
Messages == [id : Nat, job : Jobs]
UInt == 0..(UIntSize - 1)

TypeOK ==
    /\ lists \in [ListKeys -> Seq(Workers)]
    /\ idx \in [ListKeys -> Nat]
    /\ jobs \in [Workers -> SUBSET Jobs]
    /\ job_index \in [Workers -> Nat]
    /\ jobs_running \in [Workers -> Int]
    /\ loadctl \in UInt
    /\ online \in Int
    /\ job \in [Jobs -> {"none", "refused", "choked", "live", "freed"}]
    /\ jobWp \in [Jobs -> Workers \cup {NoWorker}]
    /\ jobId \in [Jobs -> Nat]
    /\ calls \in [Jobs -> Nat]
    /\ delivered \in [Jobs -> Seq(Jobs)]
    /\ breaking \in Workers \cup {NoWorker}
    /\ pending \subseteq Jobs
    /\ worker \in [Workers -> {"new", "up", "down", "removed"}]
    /\ sent \in [Workers -> SUBSET Messages]
    /\ answers \in [Workers -> SUBSET Messages]

Init ==
    /\ lists = [k \in ListKeys |-> <<>>]
    /\ idx = [k \in ListKeys |-> 0]
    /\ jobs = [w \in Workers |-> {}]
    /\ job_index = [w \in Workers |-> 0]
    /\ jobs_running = [w \in Workers |-> 0]
    /\ loadctl = 0
    /\ online = 0
    /\ job = [j \in Jobs |-> "none"]
    /\ jobWp = [j \in Jobs |-> NoWorker]
    /\ jobId = [j \in Jobs |-> 0]
    /\ calls = [j \in Jobs |-> 0]
    /\ delivered = [j \in Jobs |-> <<>>]
    /\ breaking = NoWorker
    /\ pending = {}
    /\ worker = [w \in Workers |-> "new"]
    /\ sent = [w \in Workers |-> {}]
    /\ answers = [w \in Workers |-> {}]

-----------------------------------------------------------------------------

\* Unsigned arithmetic.
Inc(n) == (n + 1) % UIntSize
Dec(n) == (n - 1) % UIntSize

\* The list a command is run from, and the worker whose turn it is.  A plugin
\* list exists only while it is not empty (remove_worker).
get_wproc_list(c) == IF lists[c] # <<>> THEN c ELSE Global

get_worker(c) ==
    LET k == get_wproc_list(c)
    IN IF lists[k] = <<>> THEN NoWorker
       ELSE lists[k][(idx[k] % Len(lists[k])) + 1]

\* What get_worker leaves behind.
TakeTurn(c) == idx' = [idx EXCEPT ![get_wproc_list(c)] = @ + 1]

\* The list a worker is removed from: the one of its last plugin.
wp_list(w) == IF Plugins[w] = <<>> THEN Global ELSE Plugins[w][Len(Plugins[w])]

Elements(s) == {s[i] : i \in DOMAIN s}
Without(s, w) ==
    LET i == CHOOSE n \in DOMAIN s : s[n] = w
    IN IF w \in Elements(s)
       THEN [k \in 1..(Len(s) - 1) |-> IF k < i THEN s[k] ELSE s[k + 1]]
       ELSE s

\* Mutation of get_job: off by one.
get_jobNext(w, id) == {j \in jobs[w] : jobId[j] = id + 1}

\* The number of jobs in a worker's table with a given number is at most one;
\* get_job takes it out.
get_job(w, id) == {j \in jobs[w] : jobId[j] = id}

\* Mutation of CallbacksAfterDestroy: callbacks are not told of a lost job.
CallbacksUntold(js) == calls

\* run_job_callback leaves no callback to run again, so destroy_job calls it
\* with NULL only if no result was delivered.
CallbacksAfterDestroy(js) ==
    [j \in Jobs |-> IF j \in js /\ IsCallback[j] /\ calls[j] = 0 THEN 1 ELSE calls[j]]

Idle == breaking = NoWorker

-----------------------------------------------------------------------------
\* register_worker: into the list of each of its plugins, or the global one.
\* A plugin list made anew starts counting turns from zero.
register_worker(w) ==
    LET keys == IF Plugins[w] = <<>> THEN {Global} ELSE Elements(Plugins[w])
    IN /\ Idle /\ worker[w] = "new"
       /\ worker' = [worker EXCEPT ![w] = "up"]
       /\ lists' = [k \in ListKeys |-> IF k \in keys THEN Append(lists[k], w) ELSE lists[k]]
       /\ idx' = [k \in ListKeys |-> IF k \in keys \ {Global} /\ lists[k] = <<>>
                                     THEN 0 ELSE idx[k]]
       /\ online' = online + 1
       /\ UNCHANGED <<jobs, job_index, jobs_running, loadctl, job, jobWp, jobId, calls,
                      delivered, breaking, pending, sent, answers>>

\* Mutation of Written: the job is not added to the load.
WrittenUncounted(j, w) ==
    /\ sent' = [sent EXCEPT ![w] = @ \cup {[id |-> job_index[w], job |-> j]}]
    /\ jobs_running' = [jobs_running EXCEPT ![w] = @ + 1]
    /\ job' = [job EXCEPT ![j] = "live"]
    /\ UNCHANGED <<loadctl, calls>>

\* wproc_run_job, the request written: only now are the counters raised.
Written(j, w) ==
    /\ sent' = [sent EXCEPT ![w] = @ \cup {[id |-> job_index[w], job |-> j]}]
    /\ jobs_running' = [jobs_running EXCEPT ![w] = @ + 1]
    /\ loadctl' = Inc(loadctl)
    /\ job' = [job EXCEPT ![j] = "live"]
    /\ UNCHANGED calls

\* wproc_run_job, the worker is gone: destroy_job lowers the counters.
Choked(j, w, end) ==
    /\ jobs_running' = [jobs_running EXCEPT ![w] = @ - 1]
    /\ loadctl' = Dec(loadctl)
    /\ job' = [job EXCEPT ![j] = end]
    /\ calls' = CallbacksAfterDestroy({j})
    /\ UNCHANGED sent

\* Mutation of Assign: get_job_id does not count.
AssignSameNumber(j, w) ==
    /\ TakeTurn(CommandOf[j])
    /\ jobWp' = [jobWp EXCEPT ![j] = w]
    /\ jobId' = [jobId EXCEPT ![j] = job_index[w]]
    /\ UNCHANGED job_index

\* The number and the worker a job gets (create_job, fo_reassign_wproc_job).
Assign(j, w) ==
    /\ TakeTurn(CommandOf[j])
    /\ jobWp' = [jobWp EXCEPT ![j] = w]
    /\ jobId' = [jobId EXCEPT ![j] = job_index[w]]
    /\ job_index' = [job_index EXCEPT ![w] = @ + 1]

\* create_job finds no worker: the caller gets ERROR.
create_jobFails(j) ==
    /\ Idle /\ job[j] = "none"
    /\ get_worker(CommandOf[j]) = NoWorker
    /\ job' = [job EXCEPT ![j] = "refused"]
    /\ UNCHANGED <<lists, idx, jobs, job_index, jobs_running, loadctl, online, jobWp, jobId,
                   calls, delivered, breaking, pending, worker, sent, answers>>

\* create_job enters the job in the worker's table, wproc_run_job sends it ...
create_job(j) ==
    LET w == get_worker(CommandOf[j])
    IN /\ Idle /\ job[j] = "none"
       /\ w # NoWorker
       /\ worker[w] = "up"
       /\ Assign(j, w)
       /\ jobs' = [jobs EXCEPT ![w] = @ \cup {j}]
       /\ Written(j, w)
       /\ UNCHANGED <<lists, online, delivered, breaking, pending, worker, answers>>

\* Mutation of create_jobChoked: destroy_job leaves the job in the table.
create_jobChokedTabled(j) ==
    LET w == get_worker(CommandOf[j])
    IN /\ Idle /\ job[j] = "none"
       /\ w # NoWorker
       /\ worker[w] # "up"
       /\ Assign(j, w)
       /\ jobs' = [jobs EXCEPT ![w] = @ \cup {j}]
       /\ Choked(j, w, "choked")
       /\ UNCHANGED <<lists, online, delivered, breaking, pending, worker, answers>>

\* ... or takes it out again because the write failed.
create_jobChoked(j) ==
    LET w == get_worker(CommandOf[j])
    IN /\ Idle /\ job[j] = "none"
       /\ w # NoWorker
       /\ worker[w] # "up"
       /\ Assign(j, w)
       /\ Choked(j, w, "choked")
       /\ UNCHANGED <<lists, jobs, online, delivered, breaking, pending, worker, answers>>

-----------------------------------------------------------------------------
\* handle_worker_result, a response whose number is in the table: the result
\* goes to the job's owner and the job is destroyed.
ResultHandled(w, m) ==
    \E j \in get_job(w, m.id) :
        /\ Idle /\ m \in answers[w]
        /\ answers' = [answers EXCEPT ![w] = @ \ {m}]
        /\ jobs' = [jobs EXCEPT ![w] = @ \ {j}]
        /\ delivered' = [delivered EXCEPT ![j] = Append(@, m.job)]
        /\ calls' = [calls EXCEPT ![j] = IF IsCallback[j] /\ @ = 0 THEN 1 ELSE @]
        /\ job' = [job EXCEPT ![j] = "freed"]
        /\ jobs_running' = [jobs_running EXCEPT ![w] = @ - 1]
        /\ loadctl' = Dec(loadctl)
        /\ UNCHANGED <<lists, idx, job_index, online, jobWp, jobId, breaking, pending,
                       worker, sent>>

\* handle_worker_result, "Job with id doesn't exist": the response is dropped.
ResultUnknown(w, m) ==
    /\ Idle /\ m \in answers[w]
    /\ get_job(w, m.id) = {}
    /\ answers' = [answers EXCEPT ![w] = @ \ {m}]
    /\ UNCHANGED <<masterVars, worker, sent>>

\* handle_worker_result reads end-of-file: the worker leaves its list and its
\* table is emptied for reassignment.
SocketBroken(w) ==
    /\ Idle /\ worker[w] = "down" /\ answers[w] = {}
    /\ online' = online - 1
    /\ lists' = [lists EXCEPT ![wp_list(w)] = Without(@, w)]
    /\ breaking' = w
    /\ pending' = jobs[w]
    /\ jobs' = [jobs EXCEPT ![w] = {}]
    /\ UNCHANGED <<idx, job_index, jobs_running, loadctl, job, jobWp, jobId, calls, delivered,
                   worker, sent, answers>>

\* fo_reassign_wproc_job: the job gets a new worker and number and is sent
\* there.  It is not entered in that worker's table.
Reassign(j) ==
    LET w == get_worker(CommandOf[j])
    IN /\ breaking # NoWorker /\ j \in pending
       /\ w # NoWorker
       /\ pending' = pending \ {j}
       /\ Assign(j, w)
       /\ IF worker[w] = "up" THEN Written(j, w) ELSE Choked(j, w, "freed")
       /\ UNCHANGED <<lists, jobs, online, delivered, breaking, worker, answers>>

\* fo_reassign_wproc_job without a worker left: logged, and nothing else.
ReassignFails(j) ==
    /\ breaking # NoWorker /\ j \in pending
    /\ get_worker(CommandOf[j]) = NoWorker
    /\ pending' = pending \ {j}
    /\ jobWp' = [jobWp EXCEPT ![j] = NoWorker]
    /\ UNCHANGED <<lists, idx, jobs, job_index, jobs_running, loadctl, online, job, jobId, calls,
                   delivered, breaking, worker, sent, answers>>

\* wproc_destroy ends the handling of a broken socket.
wproc_destroy ==
    /\ breaking # NoWorker /\ pending = {}
    /\ worker' = [worker EXCEPT ![breaking] = "removed"]
    /\ breaking' = NoWorker
    /\ UNCHANGED <<lists, idx, jobs, job_index, jobs_running, loadctl, online, job, jobWp, jobId,
                   calls, delivered, pending, sent, answers>>

\* free_worker_memory, at a restart: every worker in a list is destroyed with
\* the jobs of its table, and the process loop resets the count of workers.
Listed == UNION {Elements(lists[k]) : k \in ListKeys}
Lost == UNION {jobs[w] : w \in Listed}
free_worker_memory ==
    /\ MayRestart /\ Idle /\ Listed # {}
    /\ worker' = [w \in Workers |-> IF w \in Listed THEN "removed" ELSE worker[w]]
    /\ sent' = [w \in Workers |-> IF w \in Listed THEN {} ELSE sent[w]]
    /\ answers' = [w \in Workers |-> IF w \in Listed THEN {} ELSE answers[w]]
    /\ lists' = [k \in ListKeys |-> <<>>]
    /\ idx' = [k \in ListKeys |-> 0]
    /\ jobs' = [w \in Workers |-> IF w \in Listed THEN {} ELSE jobs[w]]
    /\ job' = [j \in Jobs |-> IF j \in Lost THEN "freed" ELSE job[j]]
    /\ calls' = CallbacksAfterDestroy(Lost)
    /\ jobs_running' = [w \in Workers |->
                          IF w \in Listed THEN jobs_running[w] - Cardinality(jobs[w])
                          ELSE jobs_running[w]]
    /\ loadctl' = (loadctl - Cardinality(Lost)) % UIntSize
    /\ online' = 0
    /\ UNCHANGED <<job_index, jobWp, jobId, delivered, breaking, pending>>

-----------------------------------------------------------------------------
\* The workers: one answers any of its requests, or dies.  What it has written
\* before it dies is still read by the master; its requests are lost.
WorkerAnswers(w, m) ==
    /\ worker[w] = "up" /\ m \in sent[w]
    /\ sent' = [sent EXCEPT ![w] = @ \ {m}]
    /\ answers' = [answers EXCEPT ![w] = @ \cup {m}]
    /\ UNCHANGED <<masterVars, worker>>

WorkerDies(w) ==
    /\ worker[w] = "up"
    /\ worker' = [worker EXCEPT ![w] = "down"]
    /\ sent' = [sent EXCEPT ![w] = {}]
    /\ UNCHANGED <<masterVars, answers>>

-----------------------------------------------------------------------------
Submit(j) == create_job(j) \/ create_jobFails(j) \/ create_jobChoked(j)
Reassigning(j) == Reassign(j) \/ ReassignFails(j)
HandleResult(w) == \E m \in answers[w] : ResultHandled(w, m) \/ ResultUnknown(w, m)
Answer(w) == \E m \in sent[w] : WorkerAnswers(w, m)

\* Every job has been handed out and every worker has come and gone.
Finished ==
    /\ Idle
    /\ \A j \in Jobs : job[j] # "none"
    /\ \A w \in Workers : worker[w] = "removed"
    /\ UNCHANGED vars

Next ==
    \/ \E j \in Jobs : Submit(j) \/ Reassigning(j)
    \/ \E w \in Workers : \/ register_worker(w) \/ HandleResult(w) \/ SocketBroken(w)
                          \/ Answer(w) \/ WorkerDies(w)
    \/ wproc_destroy \/ free_worker_memory \/ Finished

Spec == Init /\ [][Next]_vars

\* The master polls its sockets and finishes what it has begun; a worker that
\* lives answers (TakenJobsAnswered of module Worker).
Fairness ==
    /\ WF_vars(wproc_destroy)
    /\ \A w \in Workers : WF_vars(HandleResult(w)) /\ WF_vars(Answer(w)) /\ WF_vars(SocketBroken(w))
    /\ \A j \in Jobs : WF_vars(Reassigning(j))

FairSpec == Spec /\ Fairness

-----------------------------------------------------------------------------
\* Safety.

Tabled == UNION {jobs[w] : w \in Workers}
RequestOf(j) == [id |-> jobId[j], job |-> j]

\* A job is given a result at most once, and it is its own: the numbers that
\* responses are matched by are never ambiguous, although each worker counts
\* its own, reassigned jobs use up numbers without being in a table, and late
\* responses of a dead worker are still read (handle_worker_result, get_job).
ResultsReachTheirJob == \A j \in Jobs : delivered[j] \in {<<>>, <<j>>}

\* While a worker is up every job in its table is one it was sent and will
\* answer, or has answered: no entry waits for a response that cannot come.
\* When the worker is gone its table is empty.
TablesMatchRequests ==
    \A w \in Workers :
        /\ \A j \in jobs[w] :
              /\ job[j] = "live" /\ jobWp[j] = w
              /\ worker[w] = "up" => RequestOf(j) \in sent[w] \cup answers[w]
        /\ worker[w] = "removed" => jobs[w] = {}

\* Numbers are unambiguous on each worker: no two requests or responses, and no
\* two jobs of the table, share one, and the entry of a number is the job that
\* was sent under it (get_job_id).
NumbersUnambiguous ==
    \A w \in Workers :
        /\ \A m \in sent[w] \cup answers[w] : m.id < job_index[w]
        /\ \A m, n \in sent[w] \cup answers[w] : m.id = n.id => m = n
        /\ \A j \in jobs[w] : jobId[j] < job_index[w]
        /\ \A j, k \in jobs[w] : jobId[j] = jobId[k] => j = k
        /\ \A j \in jobs[w] : \A m \in sent[w] \cup answers[w] : m.id = jobId[j] => m.job = j

\* A callback runs exactly once before its job is freed, with the result or,
\* if there is none (failed write, restart), with NULL to clean up.
CallbacksRunOnce ==
    \A j \in Jobs : calls[j] = IF IsCallback[j] /\ job[j] \in {"freed", "choked"} THEN 1 ELSE 0

\* What loadctl.jobs_running really counts.  A job in a table, or about to be
\* reassigned, counts once.  A job that was reassigned is in no table, is never
\* destroyed and counts twice; one for which no worker was left counts once,
\* for ever.  A job whose first write failed counts minus one.  The count of
\* workers, in contrast, is exact.
Stranded(w) == {j \in Jobs \ (Tabled \cup pending) : job[j] = "live" /\ (jobWp[j] = NoWorker) = w}
LoadAccounting ==
    /\ loadctl = (Cardinality(Tabled \cup pending) + 2 * Cardinality(Stranded(FALSE))
                  + Cardinality(Stranded(TRUE))
                  - Cardinality({j \in Jobs : job[j] = "choked"})) % UIntSize
    /\ online = Cardinality({w \in Workers : worker[w] \in {"up", "down"}} \ {breaking})

\* Liveness.

\* A job in the table of a worker that stays up gets its result.
TabledJobsFinish ==
    \A w \in Workers, j \in Jobs :
        (worker[w] = "up" /\ j \in jobs[w]) ~> (delivered[j] # <<>> \/ worker[w] # "up")

=============================================================================
