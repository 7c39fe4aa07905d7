# Nagios Core in TLA+

A verification project kept beside the source of Nagios Core: TLA+ modules for
the parts of the daemon whose correctness depends on the order of events, TLC
configurations that check them on small instances, and TLAPS proofs of the main
results for every value of the constants. Paths below are relative to `src/`.

## 1. The system and its parts

Nagios Core is one single-threaded master process, a set of worker processes
that run plugins for it, and short-lived plugin children. The master runs an
event loop (`base/events.c`): it takes the earliest timed event, polls its
sockets until the event is due, runs it, and reschedules it.

| part | state | operations | talks to |
|---|---|---|---|
| worker process (`lib/worker.c`) | child structs, scheduling queue of timeouts, SIGCHLD count | take command, spawn, gather output, reap, kill at timeout, retry a stale child, exit | master over a socket, children by signals and pipes |
| worker pool (`base/workers.c`, `lib/fanout.c`) | worker lists, round-robin index, one job table per worker, load control counters | register, create job, run job, handle result, handle a broken socket (reassign), destroy | workers, check results, notifications, event handlers |
| event queue and loop (`base/events.c`, `lib/squeue.c`, `lib/prqueue.c`) | queue of timed events, current event | add, remove, reschedule, run, nudge, smooth the schedule, compensate for clock changes | everything that is scheduled |
| check scheduling (`base/checks.c`) | next check, options, event, executing flag, running counter, freshness flag | schedule, run, viability, orphan and freshness sweeps | event queue, worker pool, result handling |
| service and host results (`base/checks.c`) | state, state type, attempt, last hard state, problem ids, acknowledgement | handle result (active or passive), reachability, propagate to parents and children | notifications, event handlers, flapping, scheduling |
| notifications (`base/notifications.c`) | notification number, suppression flags, next notification | viability filters, escalation, contact filters, send | downtime, dependencies, workers |
| flapping (`base/flapping.c`) | ring of 21 states, percentage, flag | update history, start, stop | notifications, comments |
| downtime (`common/downtime.c`) | list of downtimes, nesting depth, flexible pending depth | schedule, start, end, cancel, check pending flexible, expire | comments, events, notifications |
| comments (`common/comments.c`) | list and hash of comments | add, delete, delete acknowledgements, expire | everything that annotates an object |
| external commands (`base/commands.c`, `lib/iocache.c`) | a worker process with the command file, its buffer and the master's | read the pipe, pass the bytes on, cut into lines, dispatch about 170 commands, launch the worker again | all of the above |
| event handlers (`base/sehandlers.c`) | none of its own | obsess, handle state events | worker pool |
| retention (`base/sretention.c`, `xdata/xrddefault.c`) | retention file | save, load with the modified-attribute rules | all object state |
| broker (`base/broker.c`, `base/nebmods.c`) | module list, callback lists by priority | load, unload, register, deregister, make callbacks | every event source |
| query handler and NERD (`base/query-handler.c`, `base/nerd.c`) | handlers, channels, subscriptions | register, query, subscribe, broadcast | sockets |
| time periods (`base/utils.c`) | weekdays, exceptions and exclusions of each period | match a time, next valid and invalid time, move a check into a period | check scheduling, notifications |
| library (`lib/*.c`) | heaps, hashes, bitmaps, buffers, socket set | pure data structures | all parts |
| objects and configuration (`common/objects.c`, `base/config.c`, `xdata/xodtemplate.c`) | object graph | parse, resolve templates, pre-flight checks | start-up |
| macros, logging, status data, performance data, CGIs, tools | text | formatting, file output | administrators |

### Behaviours that are hard, and what makes each part correct

The master is single-threaded, so its difficulty is not preemption. It is the
order in which results, commands, timeouts, deaths of workers and timed events
are handled, and state that one handler reads and another wrote long before.

- **Worker process.** End-of-file on a pipe, SIGCHLD, a timeout and a later
  attempt to reap a killed child can each be the first to notice that a job is
  over; signals merge; a child may be impossible to kill; the master may be gone
  at any read or write. Correct: one answer per job, everything taken is answered,
  and no child outlives its worker.
- **Worker pool.** Workers die between any two steps, also while their jobs are
  being given to others; writes fail; the master is restarted with jobs in
  flight. Correct: a result reaches its own job once, tables match what was
  sent, callbacks run once, counters return to zero.
- **Results.** Long sequences of legal results, active and passive, with hosts
  and parents that change in between. Correct: state, state type, attempt, last
  hard state, problem ids and acknowledgement agree.
- **Notifications.** Filters postpone a notification, and something else must
  send it later. Correct: a problem that stays is reported once nothing is in
  the way, a recovery is announced exactly when a problem was, an acknowledged
  problem is silent.
- **Check scheduling and the event loop.** One event slot per service is shared
  by results, commands and sweeps; the loop holds on to an event while it polls;
  checks are refused, lost and come back late. Correct: a service that should be
  checked is, again and again; the loop runs the event it looked at; forced
  checks are made.
- **Event queue.** A heap whose events store their own position, so that one can
  be removed from the middle; smoothing empties a copy of the heap that shares
  those events. Correct: every event is where it says it is whenever someone may
  ask, and the head is an earliest one.
- **Downtime.** A downtime is reached by its start event, its end event, the
  expire event of another, a state change, its trigger, a command and a restart.
  Correct: the depth of an object is the number of its downtimes in effect, no
  event is used after it ran, and every downtime leaves the list in the end.
- **Comments and retention.** Objects and comments refer to each other by id,
  and what a restart restores depends on the order of the file, the marks of
  what was changed, and a configuration that may be another by then. Correct:
  an id names one comment, that of the object that refers to it; what was
  changed and is retained is there after an orderly stop.
- **Broker, NERD and query handler.** Callbacks change the list they are called
  from. Correct: a module that was unloaded is not called, and a channel with
  subscribers is called for an event, and once only.
- **Command file.** A stream of bytes through a pipe, two buffers and a socket,
  cut anywhere. Correct: every line written is processed once, whole, in order,
  without anyone having to write another.
- **Time periods.** A calendar with months of unequal length, days of 23 and 25
  hours, and periods that exclude periods. Correct: the next valid time is valid
  and none before it is.

`PROJECT.json` lists every hazard at its line.

## 2. Modules

| module | models | its state in the code |
|---|---|---|
| `JobContract` | what a worker promises: a job is sent, taken or refused, and answered once | abstract |
| `Worker` | `lib/worker.c` | `cp` are the `child_process` structs, `timer` the scheduling queue `sq` as time left, `fdsOpen` the registered descriptors, `running_jobs` and `reapable` as in the code; `socket`, `inbox`, `outbox`, `child` are the socket and the kernel |
| `WorkerPool` | `base/workers.c`, `lib/fanout.c` | `lists` and `idx` are the `wproc_list`s, `jobs`, `job_index`, `jobs_running` the fields of `wproc_worker`, `loadctl` is `loadctl.jobs_running`, `job`, `jobWp`, `jobId` the `wproc_job`s; `breaking` and `pending` are the loop of `handle_worker_result` over the jobs of a dead worker; `sent`, `answers` are the sockets |
| `ServiceStatus` | results of a service, with notifications, flapping and acknowledgement | the fields of `struct service` by name; `ntf` gathers those notifications use, with three history fields |
| `HostStatus` | the same for a host, with reachability and passive results that are soft or hard | the fields of `struct host` |
| `CheckScheduling` | when services are checked | `event` is `next_check_event` as time left and options, `current_event` and `event_runtime` the loop's, the flags by name, `currently_running_service_checks`, `inflight` what the workers have |
| `EventQueueContract` | events are added, moved and removed, and between operations the head is one that nothing comes before | abstract |
| `PriorityQueue` | `lib/prqueue.c`, and the copy that `adjust_check_scheduling` empties | `heap`, `size` are `q->d` and `q->size`, `pri` and `pos` what each event stores; `mode`, `moving` and `hole` are the local variables of `bubble_up` and `percolate_down`, one step for each turn of their loops |
| `DowntimeContract` | when a downtime is waiting, in effect, over or gone | abstract |
| `Downtime` | `common/downtime.c`, and its part of `xdata/xdddefault.c` and `xrddefault.c` | `downtime` is `scheduled_downtime_list` by id, with the fields by name; `scheduled_downtime_depth` and `pending_flex_downtime` those of the objects; `queue` the timed events about downtimes; `now` the time |
| `Retention` | comments, and what saving, restarting and loading keep | `memory` is the objects with their marks and the comments, `file` the retention file, `todo` the entries still to be read, `config` the configuration of this run of the program; `stopped` is a history variable: what an orderly stop left behind |
| `EventBroker` | `base/nebmods.c`, `base/nerd.c`, `base/query-handler.c` | `neb_callback_list`, `subscriptions` of the channels, the turns of the walk over a list as a function, `peer` the sockets, `qh_running` as in the code |
| `IOCache` | `lib/iocache.c` as operators | a record of `buf`, `offset` and `bufsize`; `ioc_buflen` is the length of `buf` |
| `CommandContract` | lines written are processed once, in order | abstract |
| `CommandFile` | the way of a command from the pipe to the dispatcher in `base/commands.c` | `fifo` the pipe, `worker_ioc` and `master_ioc` the two buffers, `socket` what lies between, `ends` who holds the worker's end of it; `processed` is a history variable |
| `TimePeriod` | the functions about `struct timeperiod` in `base/utils.c`, as operators over a scaled calendar | `period`, `now` the question asked, `next` and `moved` the answers |

`MCWorker`, `MCWorkerPool`, `MCPriorityQueue`, `MCDowntime`, `MCRetention`, `MCEventBroker`,
`MCCommandFile` and `MCTimePeriod` define what an instance needs that a
configuration file cannot say; the other modules are checked as they are.
`WorkerPoolProofs`, `ServiceStatusProofs`, `HostStatusProofs`, `DowntimeProofs`
and `RetentionProofs` hold the theorems of the modules they are named for,
`LibraryProofs` those of `Worker` and `PriorityQueue` (both under `lib/`),
`InterfaceProofs` those of `EventBroker` and `CommandFile`, through which others
reach into the daemon, and `SchedulingProofs` those of `CheckScheduling` and
`TimePeriod`, which together say when a check is made. Where two modules are
proved about in one, the operators of one of them carry its name
(`QueueInit`, `QueueSpec`, `BrokerInit`, `BrokerSpec`).

Four modules implement an abstract specification, each by a refinement mapping
under the name `ImplementsContract` (`ImplementsQueueContract` in `PriorityQueue`):

- `Worker` implements `JobContract`; the mapping reads the status of a job off
  its struct and its response. `WorkerPool` relies on that contract: its
  external actions `WorkerAnswers` and `WorkerDies` let a worker do what the
  contract allows, and die. `CheckScheduling` in turn relies on the pool for no
  more than that a check given to it is answered, or is lost when no worker is
  left.
- `PriorityQueue` implements `EventQueueContract`: while a loop
  turns the contract sees a busy head, and between operations the first cell. `CheckScheduling` and
  `Downtime` take an earliest event from a set, which is that contract.
- `Downtime` implements `DowntimeContract`: an entry of the list with its flags
  and its events is one of four stages.
- `CommandFile` implements `CommandContract`: what is pending is the
  concatenation of the buffers, the socket and the pipe. A worker that dies
  drops what it holds, which the contract allows only then.

`ServiceStatus` and `HostStatus` take results as input, and to each of them the
other kind of object is an environment that changes at any time. `Retention`
and `Downtime` divide a restart: which entries are kept, in which order, is in
the first; what registering them does to depths and events is in the second.

Each action is a whole handler. `HandleResult` of `ServiceStatus` is
`handle_async_service_check_result` from the return code to the notification;
`StartCheck` and `RefuseCheck` are `run_scheduled_service_check` with and
without success. The splitting points are those where the process lets others
act: the poll, the system calls whose outcome others decide, a write that fails,
a callback into a module, and, while a file is loaded, the end of each entry,
which is where the order of the file shows. `PriorityQueue` alone is cut finer,
loop turn by loop turn, because its invariant is that of the loops.

Where it can be, time is what is left of a timer, so that the state space is
finite without a bound on the clock. `Downtime` and `TimePeriod` compare absolute
times and have a clock that ends.

## 3. Runs

| run | what it asks | distinct states | result |
|---|---|---|---|
| `worker` | does the worker keep its contract, which children survive it, are taken jobs answered | 7,665 | holds |
| `pool` | do results reach their job, do tables match what was sent, do callbacks run once, what does the load counter count, do tabled jobs finish | 22,033 | holds |
| `service_status` | do state, type, attempt, ids and acknowledgement agree, do recoveries answer problems, are problems reported and recoveries sent | 249,040 | holds |
| `host_status` | the same questions of a host | 61,080 | holds |
| `scheduling` | is no service forgotten, does the peeked event stand, do checks go on, are forced checks made | 100,896 | holds |
| `event_queue` | do positions agree, is the head an earliest event | 56,931 | holds |
| `downtime` | is the depth a count, do events stand, are flexible downtimes looked for and run their time, does it keep its contract, do downtimes end | 43,060 | holds |
| `retention` | do comments, ids and acknowledgements agree, which changes are kept, and which period is in force | 738,666 | holds |
| `broker` | are unloaded modules silent, is no channel called twice for an event, what is lost when something is deregistered | 125,476 | holds |
| `command_file` | are lines processed once, whole and in order, do they arrive | 20,720 | holds |
| `command_death` | is a command file worker that died replaced | | violated |
| `timeperiod` | do exceptions name the days they should, what does the code do after the ends it misses, is the next valid time the earliest, do exclusions hold, do moved checks stay in their period | 8,091 | holds |

Every property of a passing run has a mutant, an operator beside the definition
it changes (`ReapChildAnswersStale` beside `ReapChild`, `Abandoned` beside
`AfterRefusal`, `FreshWithoutIds` beside `Fresh`): the property fails when the
mutant takes the definition's place. The type invariants are theorems, not part
of the runs; that of `TimePeriod` only says what the variables are.

### Bounds, and why they are enough

- `worker`: two jobs, timeouts of 1 and 2, first retry at once, later retries every
  tick. The races are between the ends of one job; the second job is there to hold
  the head of the queue, to merge signals and to be in the way. Both orders of
  timeout and exit happen with these timeouts, and so do both orders of the two jobs
  in the queue that `exit_worker` empties. The master can close the socket at any
  moment.
- `pool`: two workers for everything and one for a plugin, two jobs of which
  one is a callback and one needs the plugin, one restart. One worker dies, a
  second takes its jobs and can die in turn while it is given them, and a third
  is left. Unsigned ints are 16 values wide, so that a counter lowered once too
  often is out of reach of any legal value.
- `service_status`: OK and CRITICAL, UNKNOWN from timeouts, and three attempts,
  so that there is a soft problem between the first and the last; two outages,
  the second being where what the first left behind shows; an interval of 1 that
  an escalation lowers to 0, a first delay, contacts that may all be missed, a
  service with a parent, and two things that suppress: downtime, and a host of which
  no parent is UP (`base/notifications.c:617-631`), which lets other notifications
  through than downtime does. The notification number stays at 1, which is all that
  is tested (zero or not).
- `host_status`: two attempts, two outages, one parent, and
  `passive_host_checks_are_soft` in both settings.
- `scheduling`: one service, which is forced, passive, freshness-checked and
  disabled by command, a limit of one check, delays of 0 or 1, at most two
  checks in flight. Services meet in the counter and the order of the queue
  only; a limit of one and a count of 2 make the counter matter to a single
  service, and the safety theorems cover any number of services.
  `MaxCounted` keeps the count of lost checks finite: without it the counter
  grows with every two checks of a service that are lost together.
- `event_queue`: seven events of four priorities. With fewer than six, what
  takes the place of a removed event never has to rise. The events are
  interchangeable and only safety is asked, so they are symmetric.
- `downtime`: a host and a service, two downtimes, one fixed from 1 to 2 and one
  flexible with a window from 0 to 1 that lasts 2 from where it starts, either of
  which may trigger the other; one restart; the clock goes to 3. The flexible one
  can start at the last moment, outlast the fixed one, or never start.
- `retention`: a host and a service, three configurations (all is retained; other
  defaults and a period gone; the service dropped and status not retained), ids
  below 3 for comments made while the program runs (a load may make more), one
  downtime, and four steps that count commands, results, saves, stops and
  crashes: two things are changed, the program stops, and one thing is changed
  after it. `LargeInstallationTweaks` is FALSE; the proofs cover both.
- `broker`: one module with two priorities beside the channels, two types of
  events, two channels of which one listens to both types, two sockets, at most
  three entries in a list, two connections counted and one subscription of each
  socket to a channel. A walk over a list has at most five turns (`MaxTurns`): the
  three entries, and two that the module registers again from inside its callback.
  In each turn a channel broadcasts, with sends that may fail, or the module
  returns, cancels the event, deregisters its callback or registers it once more.
- `command_file`: lines of two and of four bytes, buffers that begin with 2, so
  that one line has to grow them, a socket of 3 and a pipe of 5, so that no
  boundary falls together with another, eight bytes in all and two deaths.
- `timeperiod`: a day of five hours of two units, a year of three months of 15, 13
  and 14 days, the same every year, and 31 periods for every kind of exception,
  weekday and exclusion, ranges overnight and of length zero, asked from time 600 to
  860: 26 days of the last two months of a year and the first days of the next, with
  both clock changes (at 634 and 744, away from midnight). `MaxDepth` is the
  `max_depth` of the code, scaled; checks are moved by up to 4, more than the shortest
  ranges last. Ranges over the end of a year and ends that slip past a month are among
  the periods: `ExceptionsNameDays` says of which days the code gets them right, and
  what it does on the others, so that no day of them is left out.
  `ExceptionsNameDays` compares with a definition that counts the days of the
  calendar; `NextIsEarliest` and `ExclusionsHold` with the validity of every
  time from the one asked about to the answer, or for eight days when there is
  none.

Deadlock is checked in the runs of workers, pool, status, scheduling and event
queue. It is off where the model really stops: `downtime` and `timeperiod` end
with their time, `retention` with its steps, `broker` where the walk over a list
reads the entry of a subscriber that was cancelled during its own callback, and
the command file when there is no worker, so that nobody can write.

### Fairness

- `Worker`: weak fairness of the loop, the clock, the timeout of each job and
  its retries, and of finding at a write that the master is gone: the loop is
  sequential and takes the entries of the queue in order of time. Strong fairness of
  `ReceiveCommand` and of reading end-of-file: `poll` reports a readable socket every
  time it is reached. Nothing is assumed of children, or of the master.
- `WorkerPool`: the master polls, so what is readable is handled and a broken
  socket noticed, and goes on with a loop or a restart it began; a living worker
  answers, which is what `Worker` shows of taken jobs.
- `ServiceStatus`, `HostStatus`: results go on coming (which is what `ChecksGoOn`
  shows for regular checks) and times of notifications pass. Only results that
  repeat the present state are assumed, so nothing is reported because a state
  was made to change.
- `CheckScheduling`: weak fairness of the clock and of running the current
  event; strong fairness of peeking at each event, since the queue is in order
  of time and others overtake an event finitely often; workers answer, at the
  timeout at the latest; the orphan sweep is a recurring event and comes round.
- `Downtime`: weak fairness of the clock and of running events that are due. No
  command, state change or restart is assumed.
- `CommandFile`: weak fairness of the loop of the worker and of the master's
  reading. Nobody is assumed to write.
- `PriorityQueue`, `Retention`, `EventBroker` and `TimePeriod` promise safety
  only.

## 4. Disagreements found

**A command file worker that dies is not replaced** (`base/commands.c:267`, run
`command_death`). The master keeps its copy of the worker's end of the socket
pair, so it never reads an end of file and never comes to "Command file worker
seems to have died. Respawning" (`base/commands.c:153`).

The six that follow are in properties that hold, as those say what the code does where
it does not do what its comments or the documentation say.

**A worker can leave children behind** (`lib/worker.c:678`). When the master
has closed the socket, each read and each write of the worker ends it (SIGPIPE is ignored, `base/utils.c:1656`, so a write fails with EPIPE), and
`exit_worker` kills what is in the queue. A command that `start_cmd` could not start
is refused before its struct, which has pid 0, is taken out of the queue again: if it
is that write that fails, `kill(-0, SIGKILL)` (`lib/worker.c:72`) hits the process
group of the worker itself, and the children that are due later run on. "We must kill
our children" (`lib/worker.c:50`). `SurvivorsAreDueLater` says which children are left
then, and that there is no other way for a child to survive.

**A changed check period is restored by name only** (`xdata/xrddefault.c:1159`, `:1447`).
The command sets the name and the pointer (`base/commands.c:3523-3525`). A restart
resolves the name of the configuration before the file is loaded (`base/nagios.c:739`,
`:794`), the load sets the name, and the event loop goes by the pointer
(`base/events.c:130`, `:177`, `:368`): the configured period is in force again, under
the name of the changed one. `ChangesAreKept` says both.

**A deregistered callback takes the others with it** (`base/nebmods.c:494`).
The head of a list is taken for its only item, so all that is behind it is lost; a
channel that still has subscribers is not registered again when others subscribe
(`base/nerd.c:134`). `ChannelsCalledUntilLost` says what is lost, when and for how
long, and that nothing is called twice.

**A yearly range stops at new year** (`base/utils.c:1032`). "advance a
year if necessary: august 2 - february 5" (`:1030`) advances the end; in January the
start is looked for in the new year, and is to come.

**A yearly end that slips past its month goes on to the end of the year**
(`base/utils.c:1031`). The end is time 0 then, which is before any
start, so the year is advanced before the end is set to the last day of the month
("use last day of month as end date", `:1076`): February 5 - February 30 matches until
December 31.

**Every nth day goes on after the end of the range** (`base/utils.c:1130`). The
start is replaced by the day itself, which after the end makes the range look like one
over the end of a month or a year (`:1147`), although only a "skipping range [that] has
no end" (`:1132`) should go on.

`ExceptionsNameDays` states these three (`MissesItsEnd`), for month dates and month
weekdays alike; an end that a year does not have at all, such as the fifth monday
from the end of a month with four, is taken from the next year in the same way.

Seen while modelling, and stated by the models as the code has it:

*Worker, pool, scheduling*

- With a child that cannot be killed at the head of the queue the worker's loop
  never polls again (`lib/worker.c:819`). Jobs already taken are still answered
  at their timeouts (`TakenJobsAnswered`), new commands are not read.
- `loadctl.jobs_running` is lowered for a job whose write failed and which was
  never counted, and raised twice for one that is reassigned
  (`base/workers.c:1194`, `:712`). `LoadAccounting` states what it does count.
- A worker registered for two plugins stays in the first list when it is gone
  (`base/workers.c:982`).
- `max_jobs` of a registering worker sizes its hash table and limits nothing
  (`base/workers.c:995`, `docs/workers.dox:86`).
- The loss of the last worker is tested for before it is taken out of the list,
  so it is not logged (`base/workers.c:743`).
- A refused check is not rescheduled after a passive result
  (`base/checks.c:821`). `RefusedReturnWithoutPassive` proves that passive
  results are what it takes.
- A freshness check whose result comes when the service is fresh again leaves
  `is_being_freshened` set, and the sweep skips the service from then on
  (`base/checks.c:752`, `:2098`); "discarding" the result only ends this helper.
- The count of running checks leaks when two checks of one service are lost,
  because the sweep takes off one, and is one too low after the late result of
  an orphan (`base/checks.c:681`, `:2042`).
- The load average is declared (`include/nagios.h:251`) and tested, but not
  sampled (`base/workers.c:169`).

*Results and notifications*

- Bad parents of a service silence nothing (`base/notifications.c:391`).
- A host can fail its last attempt and stay soft (`base/checks.c:2420`), after a
  passive result that was hard at once.
- A broker module that cancels a notification leaves the number raised
  (`base/notifications.c:142`; the comment at `:324` covers the other path).
- A host that is down does not always make a service problem hard
  (`base/checks.c:1350`, comment above it).
- The problem id of a host is cleared when it goes from DOWN to UNREACHABLE
  (`base/checks.c:972-976`).
- `hst->current_attempt == HOST_UP` (`base/checks.c:2483`) compares an attempt
  with a state, without effect.

*Downtime*

- A fixed downtime triggered by a flexible one that never starts stays in the
  list for ever; `DowntimesEnd` is about the others.
- `pending_flex_downtime` is not lowered when a downtime expires. It is only
  compared with 0, and `PendingCovers` says that it never counts too few.
- `schedule_downtime` does not look at whether the downtime could be added or
  registered; one that never started is announced as ended when it expires.
- A flexible downtime in effect past its window, restored by a restart, can be
  swept by an overdue expire event of another before its own start event runs.
- A chain of triggered downtimes with equal start times is dropped at a second
  restart, because the order in the list turns round.
- `else if (svc->...)` (`common/downtime.c:735`) is reached for a host whose
  depth is 0, where `svc` is NULL; `DowntimeDepthAgrees` proves that there is none.

*Comments and retention*

- With `retain_status_information` 0 and `retain_nonstatus_information` 1 nothing
  is restored, although the second is set, because every line is taken for a
  status directive (`xdata/xrddefault.c:1100`, `:1388`;
  `sample-config/template-object/templates.cfg.in:56-57`); the marks of what was
  changed are kept.
- Masks of services are read from those of hosts (`xdata/xrddefault.c:522-526`).
- Enabling what is enabled already sets no mark, so the command is lost when the
  configured default becomes the other.
- `is_flapping` is not restored, but `flapping_comment_id` is, after SIGHUP: with
  a percentage between the thresholds the comment stays with no object flapping.
- Without `use_retained_program_state` comment ids begin at 0 again, and "the
  comment we added earlier" that is deleted may be another's. The mutant
  `FreshWithoutIds` shows it.
- `CMD_READ_STATE_INFORMATION` adds all comments and downtimes of the file once
  more (`base/commands.c:989`).
- A save that fails at a restart is not noticed, and the file of an earlier save
  is read (`base/nagios.c:874`). `ChangesAreKept` is about saves that succeed.
- The expiry of a comment is not scheduled again when it is restored, and one
  that is due at this second is not expired. No caller asks for expiry.

*Broker, NERD and query handler*

- `UnloadedAreSilent` holds although a deregistration may drop the whole list.
- A subscriber that a send fails for is cancelled within the callback, which
  frees the list entry that `neb_make_callbacks` holds, if it was the last of its
  channel; the model lets the walk go on or the process crash.
- Subscriptions outlive a connection that the peer closed, and go to whoever has
  its socket number next; `nerd_broadcast` ends at the first subscriber whose
  socket is full.
- `qh_running` is not lowered when a connection ends in any other way than by the
  peer (`base/query-handler.c:176`), so it counts too many, never too few.
- A query without `@` or `#` is an error, where `docs/queryhandlers.dox:60` says
  that an at-sign is understood.

*Command file*

- A write of the worker that a signal interrupts loses what it had left
  (`base/commands.c:229`, a `@todo`). The model's worker gets no such signal.
- Half a line of a dead worker is dropped with the old buffer, and so is what the
  pipe held, unless a client keeps it open.

*Time periods*

- The last day put in the place of a weekday that a month does not have is that
  of the wrong month, for ranges from one month to another.
- A date that is not on the calendar is what `mktime` makes of it: 31 February is
  in March (`base/utils.c:991`). A day before -31 counts as -31 (`:1490`), a weekday
  beyond the fifth, from either end, as the fifth (`:1531`, `:1566`).
- On days when the clock changes, midnight and the difference of days are off by
  the shift, and when midnight is before the start of a skip interval the
  unsigned difference wraps.
- A day that is excluded by 00:00-00:00 is valid at midnight itself, and the last
  minute of a range is both valid and invalid, so a check moved from there can
  leave its period.
- When the clock is put back, a range that ends in the hour that comes twice is
  over after the first time (`base/utils.c:1327`), so its second time is skipped.
  The last day of an exception is over after the first time too: the midnight
  that is compared with its end (`:1147`) is then an hour later.
- When the clock is put forward, the midnight of the day, and so each of its
  ranges, lies an hour earlier from then on: a range that begins after the change
  is seen an hour late from before it, and its first hour is skipped.
- A range that ends before it starts, as 22:00-06:00, is never valid, yet a
  search stops at its start first (`base/utils.c:1327` to `:1332`), which costs a
  turn of the `max_depth`.
- The "first invalid minute" (`base/utils.c:1390`) is a minute after the end of a
  range (`:1248`). After a range that ends at 24:00 it is 00:01: a check can be
  moved to the midnight that is not in its period any more, and an exclusion until
  24:00 takes the first minute of the next day too.
- An exclusion without an end uses up `max_depth`, and is then ignored: the answer
  is the preferred time (`base/utils.c:1270`). So does one that is made of more
  adjacent ranges than that, and a period of as many: a check in it is moved by up
  to the whole window (`:1398`).
- The search for the first invalid time does not stop at a time that an exclusion
  of the exclusion gives back, but goes on from there a minute at a time
  (`base/utils.c:1262`): what it gives back is skipped (`MCTimePeriod`'s `nested`
  is valid at 605, and the answer at 603 is 607).

`NextIsEarliest`, `ExclusionsHold` and `MovedWithinPeriod` name these cases as
exceptions, and hold in all others; `ExceptionsNameDays` says what happens after the
ends that are missed.

*Event queue*

- Events of the same time are not run in the order they were added, although
  `lib/squeue.c:147` speaks of "FIFO ordering": the priority takes the
  microseconds of the moment of adding, which begin again every second.

## 5. Proofs

Each theorem holds for every value of the constants that its module's ASSUME
allows: any set of jobs, workers, services, downtimes, events and configurations,
any timeouts, any number of attempts, any flags. In every proof module the
invariant is called after its module or `IInv`, and its theorem comes first;
types, safety and refinement follow from it.

- **`LibraryProofs`, worker.** The invariant joins the types with three relations: a
  struct against its child, a struct against its responses, `running_jobs`
  against the size of the queue. `WorkerSurvivors` follows from the first, for each of
  the reads and writes that can end the process: what has a child is in the queue. `WorkerAnswersOnce` is not inductive alone:
  that a job is answered once needs to know that a stale struct has an answer
  and one in time has none. `WorkerImplementsContract` maps each step to a step
  of `JobContract` or to a stutter from that invariant.
- **`WorkerPoolProofs`.** A result reaches its job because numbers are
  unambiguous per worker: the numbers in a worker's requests, responses and
  table are below `job_index` and each belongs to one job. `PoolTablesMatch`
  and `PoolDeliversRightly` follow from where a job's state says it is;
  `PoolCallbacksRunOnce` from the same, as each end of a job is also the only
  place that counts a callback. `PoolLoadAccounting` says exactly what
  `jobs_running` counts, modulo the width of the counter, which takes more than
  the property: while the table of a broken worker is being emptied the counter
  is off by the jobs that are in hand, so the invariant says which those are
  (`PendingInHand`), and that every worker but the broken one is in the list the
  count of workers is taken from (`UpListed`).
- **`ServiceStatusProofs`, `HostStatusProofs`.** The invariants add `AckAgrees`
  (an acknowledgement has a type) and `NtfInv` (the number and the states
  notified on agree, and the history fields say no recovery went out unasked).
  The notification functions keep `NtfInv` whatever they are called for, a lemma
  each, so the action proofs treat them as one step. `ServiceNumberAgrees` needs
  `~MayBlock`: with a broker module that cancels notifications it is false.
- **`SchedulingProofs`, schedule.** `NoServiceForgotten` is not inductive: a refused
  check and a swept orphan return to the queue only if the service is enabled.
  `FlagsAgree` adds that what should be scheduled is enabled, and, without
  passive results, that what is regular and enabled should be scheduled. The
  latter gives `RefusedReturnWithoutPassive`.
- **`DowntimeProofs`.** The invariant joins the depth as a count, the entries and
  their events, the pending count, and `EventsInTime`: an end event belongs to a
  downtime in effect and comes when its time is over, an expire event when the
  window is. The recursion over triggered downtimes is the least set closed under
  triggering (`TriggeredFrom`); lemmas say what it contains, and the counting
  lemmas what the depth becomes when such a set starts or ends.
  `DowntimeImplementsContract` adds that what remains is triggered by nothing
  that went.
- **`LibraryProofs`, priority queue.** Between turns of a loop the heap is ordered
  everywhere but at the hole, where the moving event belongs, and that is not
  enough: the next turn needs that the children of the hole are not earlier than
  its parent (`OrderedAcross`). Positions are right at every cell but the hole
  (`Known`), and no event has two cells (`OneCellEach`). That the head is an
  earliest event is shown without induction over the tree, which is out of reach:
  of the cells that came before the first one, the lowest would have a parent
  that did too.
- **`RetentionProofs`.** Ids in memory and in the file are below the next id, and
  what is added while the file is read has ids that the file does not use, since
  the next id is read first. `StopsAgree` ties the history to the file; while
  loading, what is in memory came from the file in its order, and what is not as
  configured is marked. `RetentionChangesAreKept` follows at the end of the load.
- **`InterfaceProofs`, broker.** The walk over a list of callbacks is a function on
  the number of turns, and an invariant of its turns is shown by induction on them. In
  a turn a module may register or deregister its own callback for this type of event,
  or cancel the event, and NERD may cancel subscribers and with them callbacks;
  modules are loaded and unloaded between events. Three things have to be kept
  together: only loaded modules and channels are in the lists, a channel is registered
  once per type with subscribers and never without, and the connections counted are at
  least those in use. Each operation, `neb_deregister_callback` that drops what it
  should not and `nerd_cancel_subscriber` in the middle of a walk included, keeps them.
  For `BrokerChannelsCalledUntilLost` each operation is followed against the channels
  that were in the lists before it (`Kept`): none is added but by a subscription, and
  when one that has subscribers is gone, so are all others of that list.
- **`InterfaceProofs`, command file.** The buffers of `lib/iocache.c` have a lemma
  per operation about what is left in them: a read appends what it takes to the
  contents, moved and grown or not; a use takes it from the front; a scan finds
  the first newline. The loop of `command_input_handler` takes everything up to
  the last newline, by induction on its turns. With these every step of `CommandFile`
  is one of `CommandContract` on the concatenation of the buffers, the socket and
  the pipe. The invariant adds that the master never holds a whole line between
  calls (a line left over would arrive only with the next read), and that the
  master always holds its copy of the worker's end of the socket: the branch for a
  dead worker is never taken, which is the disagreement of section 4 for every
  value of the constants.

- **`SchedulingProofs`, time periods.** The state is the question and the answers
  to it (`Asked`), and everything is in the functions that answer: a loop of
  turns (`Settled`) whose turns ask the same of the exclusions. `checked` and
  `answers` are functions on the depth of exclusions, which is bounded by the
  number of periods since no exclusion is circular (`base/config.c:2183`), and
  lemmas give the times after each turn as a sequence, the calendar as days that
  follow each other also when the clock is changed, and the days of months.
  `NextValidTimeIsEarliest`: a turn skips no valid time (`NoneBeforeFirst`), one
  that changes nothing is at a valid time, and one that changes something but is
  not at a valid time after it leaves a day behind, or the hour that comes twice
  (`TurnOverDay`), so that giving up means to have looked at eight days at least.
  `ExclusionsAreSkipped`: to leave an exclusion is to pass times that are in it or
  less than a minute after a range of it (`InvalidWithout`), so a turn skips none
  that is valid otherwise (`TurnSkips`), and it changes nothing only where no
  exclusion moves the time on. It states `ExclusionsHold` for every answer that
  was found: how many turns a search takes depends on how many ranges there are
  in a day, so that it looks at eight days before it gives up is true of the
  instance only, as is that the end of every exclusion is found in time.
  `MovedChecksStayWithin` needs a window no longer than 298 minutes, the
  `(MaxDepth - 2) * Minute` of its assumption: each turn goes on by more than a
  minute, and a longer search is given up.
  `ExceptionsAreForTheirDays`: on a day without a change of the clock, to compare
  times is to compare days (`OrdinaryComparisons`), and what the code computes, with
  its guesses past the end of a month and steps back, is the day that is the nth of
  its kind by counting those before it (`DayNamed`, `WeekdayNamed`, `EndNamed`, from
  `NthOfEvery`), for months of 7 to 31 days; no month of the code's calendar has
  fewer than 28. An end that was advanced to the next year (`EndNextYear`) is later than
  every day of this one, so until new year the range is the days from the start on, as
  it should be unless the end of this year had only slipped (`MatchNamedNextYear`).
  The same comparisons give what the code does on the days after the ends it misses,
  for every calendar and exception (`MatchNextYear`, `MissedNextYear`).

Type invariants are proved for all of these but `TimePeriod`, whose variables are
what `Asked` says (`WorkerTypes`, `PoolTypes`,
`ServiceTypesCorrect`, `HostTypesCorrect`, `SchedulingTypesCorrect`, `QueueTypes`,
`DowntimeTypes`, `RetentionTypes`, `BrokerTypes`, `CommandTypes`).

Loops of unbounded length are functions defined by recursion on the number of
turns, and the number is fixed before the loop: the length of the list that is
walked, the newlines in the buffer. `LoopExists` shows that such a function exists
and has its type, from the library's facts about well-founded recursion on the
naturals, and `Induction` that a set of numbers with 0 that is closed under the next turn has
all of them; both speak of sets, not of operators, so that they can be cited.

Only model-checked: the liveness properties, which are outside the prover's
reach, as is ENABLED. Every other property of the runs is
stated by a theorem, `ExclusionsHold` for the answers that were found and
`MovedWithinPeriod` for the windows given above. The assumptions on time
periods are those of the configuration (ranges within a day, dates with a month,
no circular exclusions), a clock that is not changed over midnight
(`ClockChanges`), and a `MaxDepth` of more than 12, where the code has 300.

## 6. What is not modelled

- The text of requests, responses, commands, macros and files, and all logging.
- In `ServiceStatus` and `HostStatus`: flap detection (start and stop are
  choices), contacts (someone is notified or no one is), the checks of other
  objects a result asks for, obsessing and performance data. `MayBlock` is
  FALSE in the runs. The return codes of passive results are valid states, as
  the command checks; those from check result files are taken raw by the code.
- In `CheckScheduling`: the time computed for the next check (a choice), host
  checks, the other events of the queue, compensation of clock changes, load
  control, checks made or overridden by broker modules.
- In `WorkerPool`: starting the workers and the bounded socket buffers. A worker
  registered for several plugins is destroyed once at a restart.
- In `PriorityQueue`: the growth of the array, and priorities computed from times
  (`squeue` lifts what is past to now). Compensation of clock changes is a
  sequence of the same removals and insertions.
- In `Downtime`: notifications and comments, and propagation of a request to the
  children of a host or the members of a group, which is one request each.
- In `Retention`: expiry of comments, program attributes, contacts, the masks,
  `use_retained_program_state` 0, and the command that reads the file while the
  program runs.
- In `EventBroker`: callbacks that load or unload modules, register for another type
  of event, deregister a callback of another module or cause an event themselves, so
  that one walk runs inside another; the data structures given to callbacks, `dlopen` and version
  checks, and the built-in queries that answer with text.
- In `CommandFile`: a worker interrupted by signals, and `iocache_add`, which
  nothing in the daemon calls.
- In `TimePeriod`: zones with more than one change each way, and years of
  different length.
- Dependencies are one suppression reason: their evaluation walks a graph that
  does not change. Configuration, templates and objects are read once, before
  anything runs. Macros, logs, status files, performance data and the CGIs are
  text that no decision of the daemon depends on, and most of the repository's
  lines. `PROJECT.json` gives the reason for each component.

## 7. What is left

1. `HostScheduling`: checks of hosts beside those of services, with the guard on
   `is_executing` (`base/checks.c:3127`), checks on demand and the cache horizon.
   Composes with `CheckScheduling` over the one queue.
2. `LoadControl`: `wproc_can_spawn`, back-off and ramp, over the counter of
   `WorkerPool`.
3. `Flapping`: the ring of states as a function, checked against a reference
   definition, in place of the choice in the status modules.
4. `SocketBuffers`: master and worker with bounded sockets, for the hazard at
   `lib/nwrite.h:44`.
5. Program attributes and masks in `Retention`, and clock changes over
   `PriorityQueue`.
