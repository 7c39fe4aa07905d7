-------------------------- MODULE WorkerPoolProofs --------------------------
(***************************************************************************)
(* Proofs about WorkerPool for any finite sets of workers and jobs, any    *)
(* registration for plugins and any width of the counters.                 *)
(*                                                                         *)
(* That a result reaches its own job (ResultsReachTheirJob) follows from   *)
(* the numbers being unambiguous (NumbersUnambiguous), which in turn needs *)
(* that a number, once given out by a worker, is below its job_index for   *)
(* ever, and that a job changes its number only while it is in no table.   *)
(***************************************************************************)
EXTENDS WorkerPool, FiniteSetTheorems, SequenceTheorems, TLAPS

\* A worker that has not registered, or is being taken apart, has no jobs: with
\* this TablesMatchRequests survives registration and wproc_destroy.
TablesInv ==
    /\ TablesMatchRequests
    /\ \A w \in Workers : worker[w] = "new" \/ breaking = w => jobs[w] = {}

\* A job in a table is live and knows its worker, one waiting to be reassigned
\* is live and in no table, and a result was given only to a job that is freed.
JobsWellPlaced ==
    /\ \A w \in Workers : \A j \in jobs[w] : job[j] = "live" /\ jobWp[j] = w
    /\ \A j \in pending : job[j] = "live" /\ \A w \in Workers : j \notin jobs[w]
    /\ \A j \in Jobs : job[j] # "freed" => delivered[j] = <<>>

PoolInv ==
    /\ TypeOK
    /\ NumbersUnambiguous
    /\ JobsWellPlaced
    /\ TablesInv
    /\ ResultsReachTheirJob

-----------------------------------------------------------------------------
\* Facts about the helpers.
LEMMA ModType == ASSUME NEW x \in Int PROVE x % UIntSize \in UInt
  BY PoolConstants DEF UInt

LEMMA GetWorkerType ==
    ASSUME TypeOK, NEW c \in Commands
    PROVE  /\ get_worker(c) \in Workers \cup {NoWorker}
           /\ get_wproc_list(c) \in ListKeys
  <1>1. get_wproc_list(c) \in ListKeys
    BY DEF get_wproc_list, ListKeys
  <1> DEFINE k == get_wproc_list(c)
  <1>2. lists[k] \in Seq(Workers) /\ idx[k] \in Nat
    BY <1>1 DEF TypeOK
  <1>3. CASE lists[k] = <<>>
    BY <1>1, <1>3 DEF get_worker
  <1>4. CASE lists[k] # <<>>
    <2>1. Len(lists[k]) \in Nat \ {0}
      BY <1>2, <1>4
    <2>2. (idx[k] % Len(lists[k])) + 1 \in 1..Len(lists[k])
      BY <1>2, <2>1
    <2>3. lists[k][(idx[k] % Len(lists[k])) + 1] \in Workers
      BY <1>2, <2>2
    <2> QED BY <1>1, <1>4, <2>3 DEF get_worker
  <1> QED BY <1>3, <1>4

LEMMA WithoutType ==
    ASSUME NEW s \in Seq(Workers), NEW w \in Workers
    PROVE  Without(s, w) \in Seq(Workers)
  <1> DEFINE i == CHOOSE n \in DOMAIN s : s[n] = w
             t == [k \in 1..(Len(s) - 1) |-> IF k < i THEN s[k] ELSE s[k + 1]]
  <1>1. CASE w \in Elements(s)
    <2>1. i \in 1..Len(s)
      BY <1>1 DEF Elements
    <2>2. \A k \in 1..(Len(s) - 1) : t[k] \in Workers
      BY <2>1
    <2>3. Len(s) - 1 \in Nat
      BY <2>1
    <2>4. t \in Seq(Workers)
      BY <2>2, <2>3, IsASeq
    <2> QED BY <1>1, <2>4 DEF Without
  <1>2. CASE w \notin Elements(s)
    BY <1>2 DEF Without
  <1> QED BY <1>1, <1>2

LEMMA WpListType ==
    ASSUME NEW w \in Workers PROVE wp_list(w) \in ListKeys
  <1>1. Plugins[w] \in Seq(Commands)
    BY PoolConstants
  <1> QED BY <1>1 DEF wp_list, ListKeys

\* create_job and fo_reassign_wproc_job number a job alike.
LEMMA AssignType ==
    ASSUME TypeOK, NEW j \in Jobs, NEW w \in Workers, Assign(j, w)
    PROVE  /\ idx' \in [ListKeys -> Nat]
           /\ jobWp' \in [Jobs -> Workers \cup {NoWorker}]
           /\ jobId' \in [Jobs -> Nat]
           /\ job_index' \in [Workers -> Nat]
  <1>1. CommandOf[j] \in Commands
    BY PoolConstants
  <1>2. get_wproc_list(CommandOf[j]) \in ListKeys
    BY <1>1, GetWorkerType
  <1> QED BY <1>2 DEF Assign, TakeTurn, TypeOK

LEMMA WrittenType ==
    ASSUME TypeOK, NEW j \in Jobs, NEW w \in Workers, Written(j, w)
    PROVE  /\ sent' \in [Workers -> SUBSET Messages]
           /\ jobs_running' \in [Workers -> Int]
           /\ loadctl' \in UInt
           /\ job' \in [Jobs -> {"none", "refused", "choked", "live", "freed"}]
           /\ calls' \in [Jobs -> Nat]
  <1>1. loadctl + 1 \in Int
    BY DEF TypeOK, UInt
  <1>2. loadctl' \in UInt
    BY <1>1, ModType DEF Written, Inc
  <1>3. [id |-> job_index[w], job |-> j] \in Messages
    BY DEF TypeOK, Messages
  <1> QED BY <1>2, <1>3 DEF Written, TypeOK

LEMMA DestroyedType ==
    ASSUME TypeOK, NEW js \in SUBSET Jobs
    PROVE  CallbacksAfterDestroy(js) \in [Jobs -> Nat]
  BY DEF CallbacksAfterDestroy, TypeOK

LEMMA ChokedType ==
    ASSUME TypeOK, NEW j \in Jobs, NEW w \in Workers,
           NEW end \in {"choked", "freed"}, Choked(j, w, end)
    PROVE  /\ sent' \in [Workers -> SUBSET Messages]
           /\ jobs_running' \in [Workers -> Int]
           /\ loadctl' \in UInt
           /\ job' \in [Jobs -> {"none", "refused", "choked", "live", "freed"}]
           /\ calls' \in [Jobs -> Nat]
  <1>1. loadctl - 1 \in Int
    BY DEF TypeOK, UInt
  <1>2. loadctl' \in UInt
    BY <1>1, ModType DEF Choked, Dec
  <1>3. calls' \in [Jobs -> Nat]
    BY DestroyedType DEF Choked
  <1>4. /\ sent' \in [Workers -> SUBSET Messages]
        /\ jobs_running' \in [Workers -> Int]
    BY DEF Choked, TypeOK
  <1>5. job' \in [Jobs -> {"none", "refused", "choked", "live", "freed"}]
    BY DEF Choked, TypeOK
  <1> QED BY <1>2, <1>3, <1>4, <1>5

-----------------------------------------------------------------------------
\* Types.
LEMMA InitTypeOK == Init => TypeOK
  <1> SUFFICES ASSUME Init PROVE TypeOK
    OBVIOUS
  <1>1. /\ lists \in [ListKeys -> Seq(Workers)]
        /\ delivered \in [Jobs -> Seq(Jobs)]
    BY DEF Init
  <1>2. /\ sent \in [Workers -> SUBSET Messages]
        /\ answers \in [Workers -> SUBSET Messages]
        /\ jobs \in [Workers -> SUBSET Jobs]
    BY DEF Init
  <1>3. loadctl \in UInt
    BY PoolConstants DEF Init, UInt
  <1>4. /\ idx \in [ListKeys -> Nat]
        /\ job_index \in [Workers -> Nat]
        /\ jobs_running \in [Workers -> Int]
        /\ online \in Int
    BY DEF Init
  <1>5. /\ job \in [Jobs -> {"none", "refused", "choked", "live", "freed"}]
        /\ jobWp \in [Jobs -> Workers \cup {NoWorker}]
        /\ jobId \in [Jobs -> Nat]
        /\ calls \in [Jobs -> Nat]
    BY DEF Init
  <1>6. /\ breaking \in Workers \cup {NoWorker}
        /\ pending \subseteq Jobs
        /\ worker \in [Workers -> {"new", "up", "down", "removed"}]
    BY DEF Init
  <1> QED BY <1>1, <1>2, <1>3, <1>4, <1>5, <1>6 DEF TypeOK

LEMMA RestartType == ASSUME TypeOK, free_worker_memory PROVE TypeOK'
  <1>1. Listed \subseteq Workers
    BY DEF TypeOK, Elements, Listed
  <1>2. Lost \subseteq Jobs
    BY <1>1 DEF TypeOK, Lost
  <1>3. \A S \in SUBSET Jobs : Cardinality(S) \in Nat
    BY PoolConstants, FS_Subset, FS_CardinalityType
  <1>4. loadctl' \in UInt
    <2>1. loadctl' = (loadctl - Cardinality(Lost)) % UIntSize
      BY DEF free_worker_memory
    <2>2. loadctl - Cardinality(Lost) \in Int
      <3>1. Cardinality(Lost) \in Nat
        BY <1>2, <1>3
      <3>2. loadctl \in Int
        BY DEF TypeOK, UInt
      <3> QED BY <3>1, <3>2
    <2> QED BY <2>1, <2>2, ModType
  <1>5. jobs_running' \in [Workers -> Int]
    <2>1. jobs_running' = [w \in Workers |-> IF w \in Listed
                             THEN jobs_running[w] - Cardinality(jobs[w]) ELSE jobs_running[w]]
      BY DEF free_worker_memory
    <2>2. \A w \in Workers : jobs[w] \in SUBSET Jobs /\ jobs_running[w] \in Int
      BY DEF TypeOK
    <2>3. \A w \in Workers : jobs_running[w] - Cardinality(jobs[w]) \in Int
      BY <2>2, <1>3
    <2> QED BY <2>1, <2>2, <2>3
  <1>6. calls' \in [Jobs -> Nat]
    <2>1. calls' = CallbacksAfterDestroy(Lost)
      BY DEF free_worker_memory
    <2> QED BY <2>1, <1>2, DestroyedType
  <1>7. /\ worker' \in [Workers -> {"new", "up", "down", "removed"}]
        /\ sent' \in [Workers -> SUBSET Messages]
        /\ answers' \in [Workers -> SUBSET Messages]
    BY DEF free_worker_memory, TypeOK
  <1>8. /\ lists' \in [ListKeys -> Seq(Workers)]
        /\ idx' \in [ListKeys -> Nat]
        /\ jobs' \in [Workers -> SUBSET Jobs]
        /\ job' \in [Jobs -> {"none", "refused", "choked", "live", "freed"}]
        /\ online' \in Int
    BY DEF free_worker_memory, TypeOK
  <1>9. UNCHANGED <<job_index, jobWp, jobId, delivered, breaking, pending>>
    BY DEF free_worker_memory
  <1> QED BY <1>4, <1>5, <1>6, <1>7, <1>8, <1>9 DEF TypeOK

LEMMA NextTypeOK == TypeOK /\ [Next]_vars => TypeOK'
  <1> SUFFICES ASSUME TypeOK, [Next]_vars PROVE TypeOK'
    OBVIOUS
  <1>1. ASSUME NEW j \in Jobs, Submit(j) PROVE TypeOK'
    <2> DEFINE w == get_worker(CommandOf[j])
    <2>0. w \in Workers \cup {NoWorker}
      BY PoolConstants, GetWorkerType
    <2> HIDE DEF w
    <2>1. CASE create_job(j)
      <3>1. Assign(j, w) /\ Written(j, w) /\ w \in Workers
        BY <2>0, <2>1 DEF create_job, w
      <3>2. jobs' \in [Workers -> SUBSET Jobs]
        BY <2>1, <3>1 DEF create_job, TypeOK, w
      <3> QED BY <2>1, <3>1, <3>2, AssignType, WrittenType DEF create_job, TypeOK
    <2>2. CASE create_jobFails(j)
      BY <2>2 DEF create_jobFails, TypeOK
    <2>3. CASE create_jobChoked(j)
      <3>1. Assign(j, w) /\ Choked(j, w, "choked") /\ w \in Workers
        BY <2>0, <2>3 DEF create_jobChoked, w
      <3> QED BY <2>3, <3>1, AssignType, ChokedType DEF create_jobChoked, TypeOK
    <2> QED BY <1>1, <2>1, <2>2, <2>3 DEF Submit
  <1>2. ASSUME NEW j \in Jobs, Reassigning(j) PROVE TypeOK'
    <2> DEFINE w == get_worker(CommandOf[j])
    <2>0. w \in Workers \cup {NoWorker}
      BY PoolConstants, GetWorkerType
    <2> HIDE DEF w
    <2>1. CASE Reassign(j)
      <3>1. Assign(j, w) /\ w \in Workers /\ (Written(j, w) \/ Choked(j, w, "freed"))
        BY <2>0, <2>1 DEF Reassign, w
      <3> QED BY <2>1, <3>1, AssignType, WrittenType, ChokedType DEF Reassign, TypeOK
    <2>2. CASE ReassignFails(j)
      BY <2>2 DEF ReassignFails, TypeOK
    <2> QED BY <1>2, <2>1, <2>2 DEF Reassigning
  <1>3. ASSUME NEW w \in Workers, register_worker(w) PROVE TypeOK'
    <2>1. lists' \in [ListKeys -> Seq(Workers)]
      BY <1>3 DEF register_worker, TypeOK
    <2>2. idx' \in [ListKeys -> Nat]
      BY <1>3 DEF register_worker, TypeOK
    <2> QED BY <1>3, <2>1, <2>2 DEF register_worker, TypeOK
  <1>4. ASSUME NEW w \in Workers, HandleResult(w) PROVE TypeOK'
    <2>1. PICK m \in answers[w] : ResultHandled(w, m) \/ ResultUnknown(w, m)
      BY <1>4 DEF HandleResult
    <2>2. CASE ResultHandled(w, m)
      <3>1. PICK j \in get_job(w, m.id) :
              /\ answers' = [answers EXCEPT ![w] = @ \ {m}]
              /\ jobs' = [jobs EXCEPT ![w] = @ \ {j}]
              /\ delivered' = [delivered EXCEPT ![j] = Append(@, m.job)]
              /\ calls' = [calls EXCEPT ![j] = IF IsCallback[j] /\ @ = 0 THEN 1 ELSE @]
              /\ job' = [job EXCEPT ![j] = "freed"]
              /\ jobs_running' = [jobs_running EXCEPT ![w] = @ - 1]
              /\ loadctl' = Dec(loadctl)
              /\ UNCHANGED <<lists, idx, job_index, online, jobWp, jobId, breaking, pending,
                             worker, sent>>
        BY <2>2 DEF ResultHandled
      <3>2. j \in Jobs /\ m \in Messages /\ m.job \in Jobs
        BY DEF get_job, TypeOK, Messages
      <3>3. loadctl' \in UInt
        <4>1. loadctl - 1 \in Int
          BY DEF TypeOK, UInt
        <4> QED BY <3>1, <4>1, ModType DEF Dec
      <3>4. delivered' \in [Jobs -> Seq(Jobs)]
        BY <3>1, <3>2 DEF TypeOK
      <3>5. calls' \in [Jobs -> Nat]
        BY <3>1, <3>2 DEF TypeOK
      <3>6. /\ answers' \in [Workers -> SUBSET Messages]
            /\ jobs' \in [Workers -> SUBSET Jobs]
            /\ jobs_running' \in [Workers -> Int]
            /\ job' \in [Jobs -> {"none", "refused", "choked", "live", "freed"}]
        BY <3>1, <3>2 DEF TypeOK
      <3> QED BY <3>1, <3>3, <3>4, <3>5, <3>6 DEF TypeOK
    <2>3. CASE ResultUnknown(w, m)
      BY <2>3 DEF ResultUnknown, TypeOK, masterVars
    <2> QED BY <2>1, <2>2, <2>3
  <1>5. ASSUME NEW w \in Workers, SocketBroken(w) PROVE TypeOK'
    <2>1. lists' \in [ListKeys -> Seq(Workers)]
      <3>1. wp_list(w) \in ListKeys
        BY WpListType
      <3>2. lists[wp_list(w)] \in Seq(Workers)
        BY <3>1 DEF TypeOK
      <3>3. Without(lists[wp_list(w)], w) \in Seq(Workers)
        BY <3>2, WithoutType
      <3> QED BY <1>5, <3>1, <3>3 DEF SocketBroken, TypeOK
    <2> QED BY <1>5, <2>1 DEF SocketBroken, TypeOK
  <1>6. ASSUME NEW w \in Workers, Answer(w) PROVE TypeOK'
    <2>1. PICK m \in sent[w] : WorkerAnswers(w, m)
      BY <1>6 DEF Answer
    <2> QED BY <2>1 DEF WorkerAnswers, masterVars, TypeOK
  <1>7. ASSUME NEW w \in Workers, WorkerDies(w) PROVE TypeOK'
    BY <1>7 DEF WorkerDies, masterVars, TypeOK
  <1>8. CASE wproc_destroy
    BY <1>8 DEF wproc_destroy, TypeOK
  <1>9. CASE free_worker_memory
    BY <1>9, RestartType
  <1>10. CASE Finished \/ UNCHANGED vars
    BY <1>10 DEF Finished, vars, TypeOK
  <1> QED BY <1>1, <1>2, <1>3, <1>4, <1>5, <1>6, <1>7, <1>8, <1>9, <1>10 DEF Next

-----------------------------------------------------------------------------
\* What the actions share.
Unplaced(j) == \A w \in Workers : j \notin jobs[w]
Request(j, w) == [id |-> job_index[w], job |-> j]

\* A new job, and one that waits to be reassigned, is in no table.
LEMMA NewJobUnplaced ==
    ASSUME JobsWellPlaced, NEW j \in Jobs, job[j] = "none" \/ j \in pending
    PROVE  Unplaced(j)
  BY DEF JobsWellPlaced, Unplaced

\* Where create_job, wproc_run_job and fo_reassign_wproc_job leave a job.
LEMMA SubmitCases ==
    ASSUME TypeOK, NEW j \in Jobs, Submit(j)
    PROVE  \/ /\ create_jobFails(j)
           \/ \E w \in Workers :
                /\ Assign(j, w) /\ job[j] = "none" /\ worker[w] = "up"
                /\ Written(j, w) /\ jobs' = [jobs EXCEPT ![w] = @ \cup {j}]
                /\ breaking = NoWorker
                /\ UNCHANGED <<delivered, breaking, pending, worker, answers>>
           \/ \E w \in Workers :
                /\ Assign(j, w) /\ job[j] = "none" /\ worker[w] # "up"
                /\ Choked(j, w, "choked") /\ UNCHANGED jobs
                /\ UNCHANGED <<delivered, breaking, pending, worker, answers>>
  <1> DEFINE w == get_worker(CommandOf[j])
  <1>0. w \in Workers \cup {NoWorker}
    BY PoolConstants, GetWorkerType
  <1>1. CASE create_job(j)
    BY <1>0, <1>1 DEF create_job, Idle
  <1>2. CASE create_jobChoked(j)
    BY <1>0, <1>2 DEF create_jobChoked
  <1> QED BY <1>1, <1>2 DEF Submit

LEMMA ReassignCases ==
    ASSUME TypeOK, NEW j \in Jobs, Reassigning(j)
    PROVE  /\ j \in pending
           /\ pending' = pending \ {j}
           /\ UNCHANGED <<jobs, delivered, breaking, worker, answers>>
           /\ \/ /\ jobWp' = [jobWp EXCEPT ![j] = NoWorker]
                 /\ UNCHANGED <<job, jobId, job_index, sent>>
              \/ \E w \in Workers : Assign(j, w) /\ (Written(j, w) \/ Choked(j, w, "freed"))
  <1> DEFINE w == get_worker(CommandOf[j])
  <1>0. w \in Workers \cup {NoWorker}
    BY PoolConstants, GetWorkerType
  <1>1. CASE Reassign(j)
    BY <1>0, <1>1 DEF Reassign
  <1>2. CASE ReassignFails(j)
    BY <1>2 DEF ReassignFails
  <1> QED BY <1>1, <1>2 DEF Reassigning

LEMMA ResultCases ==
    ASSUME NEW w \in Workers, HandleResult(w)
    PROVE  /\ UNCHANGED <<job_index, jobId, jobWp, breaking, pending, worker, sent>>
           /\ \E m \in answers[w] :
                /\ answers' = [answers EXCEPT ![w] = @ \ {m}]
                /\ \/ /\ get_job(w, m.id) = {}
                      /\ UNCHANGED <<jobs, job, delivered>>
                   \/ \E j \in get_job(w, m.id) :
                        /\ jobs' = [jobs EXCEPT ![w] = @ \ {j}]
                        /\ delivered' = [delivered EXCEPT ![j] = Append(@, m.job)]
                        /\ job' = [job EXCEPT ![j] = "freed"]
  <1>1. PICK m \in answers[w] : ResultHandled(w, m) \/ ResultUnknown(w, m)
    BY DEF HandleResult
  <1>2. CASE ResultHandled(w, m)
    BY <1>2 DEF ResultHandled
  <1>3. CASE ResultUnknown(w, m)
    BY <1>3 DEF ResultUnknown, masterVars
  <1> QED BY <1>1, <1>2, <1>3

LEMMA WorkerCases ==
    ASSUME NEW w \in Workers, Answer(w) \/ WorkerDies(w)
    PROVE  /\ UNCHANGED masterVars
           /\ \/ /\ UNCHANGED worker
                 /\ \E m \in sent[w] : /\ sent' = [sent EXCEPT ![w] = @ \ {m}]
                                       /\ answers' = [answers EXCEPT ![w] = @ \cup {m}]
              \/ /\ sent' = [sent EXCEPT ![w] = {}]
                 /\ answers' = answers
                 /\ worker' = [worker EXCEPT ![w] = "down"]
  <1>1. CASE Answer(w)
    <2>1. PICK m \in sent[w] : WorkerAnswers(w, m)
      BY <1>1 DEF Answer
    <2> QED BY <2>1 DEF WorkerAnswers
  <1>2. CASE WorkerDies(w)
    BY <1>2 DEF WorkerDies
  <1> QED BY <1>1, <1>2

-----------------------------------------------------------------------------
\* Numbers.
LEMMA NumbersShrink ==
    ASSUME NumbersUnambiguous, UNCHANGED <<job_index, jobId>>,
           \A w \in Workers : /\ sent'[w] \cup answers'[w] \subseteq sent[w] \cup answers[w]
                              /\ jobs'[w] \subseteq jobs[w]
    PROVE  NumbersUnambiguous'
  BY DEF NumbersUnambiguous

LEMMA NumbersAssign ==
    ASSUME TypeOK, NumbersUnambiguous, NEW j \in Jobs, NEW w \in Workers,
           Unplaced(j), Assign(j, w), answers' = answers,
           \/ sent' = sent /\ jobs' = jobs
           \/ /\ sent' = [sent EXCEPT ![w] = @ \cup {Request(j, w)}]
              /\ jobs' = jobs \/ jobs' = [jobs EXCEPT ![w] = @ \cup {j}]
    PROVE  NumbersUnambiguous'
  <1>1. /\ job_index'[w] = job_index[w] + 1
        /\ \A v \in Workers \ {w} : job_index'[v] = job_index[v]
        /\ jobId'[j] = job_index[w]
        /\ \A k \in Jobs \ {j} : jobId'[k] = jobId[k]
        /\ \A v \in Workers : job_index[v] \in Nat
        /\ \A v \in Workers : jobs[v] \subseteq Jobs
        /\ \A k \in Jobs : jobId[k] \in Nat
        /\ \A v \in Workers : \A m \in sent[v] \cup answers[v] : m.id \in Nat
    BY DEF Assign, TypeOK, Messages
  <1>2. \A v \in Workers : \A m \in sent'[v] \cup answers'[v] :
            m \in sent[v] \cup answers[v] \/ (v = w /\ m = Request(j, w))
    BY DEF TypeOK
  <1>3. \A v \in Workers : \A k \in jobs'[v] :
            \/ k \in jobs[v]
            \/ v = w /\ k = j
    BY DEF TypeOK
  <1>4. Request(j, w).id = job_index[w] /\ Request(j, w).job = j
    BY DEF Request
  <1>5. SUFFICES ASSUME NEW v \in Workers
                 PROVE  /\ \A m \in sent'[v] \cup answers'[v] : m.id < job_index'[v]
                        /\ \A m, n \in sent'[v] \cup answers'[v] : m.id = n.id => m = n
                        /\ \A k \in jobs'[v] : jobId'[k] < job_index'[v]
                        /\ \A k, l \in jobs'[v] : jobId'[k] = jobId'[l] => k = l
                        /\ \A k \in jobs'[v] : \A m \in sent'[v] \cup answers'[v] :
                              m.id = jobId'[k] => m.job = k
    BY DEF NumbersUnambiguous
  <1>6. /\ \A m \in sent[v] \cup answers[v] : m.id < job_index[v]
        /\ \A m, n \in sent[v] \cup answers[v] : m.id = n.id => m = n
        /\ \A k \in jobs[v] : jobId[k] < job_index[v]
        /\ \A k, l \in jobs[v] : jobId[k] = jobId[l] => k = l
        /\ \A k \in jobs[v] : \A m \in sent[v] \cup answers[v] : m.id = jobId[k] => m.job = k
        /\ \A k \in jobs[v] : k # j
    BY DEF NumbersUnambiguous, Unplaced
  <1>7. CASE v # w
    BY <1>1, <1>2, <1>3, <1>6, <1>7
  <1>8. CASE v = w
    <2>1. \A k \in jobs[w] : jobId'[k] = jobId[k]
      BY <1>1, <1>6, <1>8
    <2>2. \A m \in sent'[v] \cup answers'[v] : m.id < job_index'[v]
      BY <1>1, <1>2, <1>4, <1>6, <1>8
    <2>3. \A m, n \in sent'[v] \cup answers'[v] : m.id = n.id => m = n
      BY <1>1, <1>2, <1>4, <1>6, <1>8
    <2>4. \A k \in jobs'[v] : jobId'[k] < job_index'[v]
      BY <1>1, <1>3, <1>6, <1>8, <2>1
    <2>5. \A k, l \in jobs'[v] : jobId'[k] = jobId'[l] => k = l
      BY <1>1, <1>3, <1>6, <1>8, <2>1
    <2>6. \A k \in jobs'[v] : \A m \in sent'[v] \cup answers'[v] :
              m.id = jobId'[k] => m.job = k
      BY <1>1, <1>2, <1>3, <1>4, <1>6, <1>8, <2>1
    <2> QED BY <2>2, <2>3, <2>4, <2>5, <2>6
  <1> QED BY <1>7, <1>8

LEMMA NextNumbers ==
    ASSUME TypeOK, NumbersUnambiguous, JobsWellPlaced, [Next]_vars
    PROVE  NumbersUnambiguous'
  <1>1. ASSUME NEW j \in Jobs, Submit(j) PROVE NumbersUnambiguous'
    <2>1. CASE create_jobFails(j)
      BY <2>1, NumbersShrink DEF create_jobFails
    <2>2. ASSUME NEW w \in Workers, Assign(j, w), job[j] = "none", UNCHANGED answers,
                 \/ Written(j, w) /\ jobs' = [jobs EXCEPT ![w] = @ \cup {j}]
                 \/ Choked(j, w, "choked") /\ UNCHANGED jobs
          PROVE  NumbersUnambiguous'
      BY <2>2, NewJobUnplaced, NumbersAssign DEF Written, Choked, Request
    <2> QED BY <1>1, <2>1, <2>2, SubmitCases
  <1>2. ASSUME NEW j \in Jobs, Reassigning(j) PROVE NumbersUnambiguous'
    <2>1. Unplaced(j)
      BY <1>2, ReassignCases, NewJobUnplaced
    <2>2. ASSUME NEW w \in Workers, Assign(j, w), UNCHANGED <<jobs, answers>>,
                 Written(j, w) \/ Choked(j, w, "freed")
          PROVE  NumbersUnambiguous'
      BY <2>1, <2>2, NumbersAssign DEF Written, Choked, Request
    <2>3. ASSUME UNCHANGED <<jobs, answers, jobId, job_index, sent>> PROVE NumbersUnambiguous'
      BY <2>3, NumbersShrink
    <2> QED BY <1>2, <2>2, <2>3, ReassignCases
  <1>3. ASSUME NEW w \in Workers, register_worker(w) PROVE NumbersUnambiguous'
    BY <1>3, NumbersShrink DEF register_worker
  <1>4. ASSUME NEW w \in Workers, HandleResult(w) PROVE NumbersUnambiguous'
    <2>1. /\ UNCHANGED <<job_index, jobId, sent>>
          /\ \A v \in Workers : answers'[v] \subseteq answers[v] /\ jobs'[v] \subseteq jobs[v]
      <3>1. PICK m \in answers[w] :
              /\ answers' = [answers EXCEPT ![w] = @ \ {m}]
              /\ jobs' = jobs \/ \E j : jobs' = [jobs EXCEPT ![w] = @ \ {j}]
        BY <1>4, ResultCases
      <3>2. \A v \in Workers : jobs'[v] \subseteq jobs[v]
        BY <3>1 DEF TypeOK
      <3>3. \A v \in Workers : answers'[v] \subseteq answers[v]
        BY <3>1 DEF TypeOK
      <3> QED BY <1>4, <3>2, <3>3, ResultCases
    <2> QED BY <2>1, NumbersShrink
  <1>5. ASSUME NEW w \in Workers, SocketBroken(w) PROVE NumbersUnambiguous'
    <2>1. UNCHANGED <<job_index, jobId, sent, answers>>
          /\ \A v \in Workers : jobs'[v] \subseteq jobs[v]
      BY <1>5 DEF SocketBroken, TypeOK
    <2> QED BY <2>1, NumbersShrink
  <1>6. ASSUME NEW w \in Workers, Answer(w) \/ WorkerDies(w) PROVE NumbersUnambiguous'
    <2>0. UNCHANGED masterVars
      BY <1>6, WorkerCases
    <2>1. \A v \in Workers : sent'[v] \cup answers'[v] \subseteq sent[v] \cup answers[v]
      <3>0. sent \in [Workers -> SUBSET Messages] /\ answers \in [Workers -> SUBSET Messages]
        BY DEF TypeOK
      <3>1. CASE \E m \in sent[w] : /\ sent' = [sent EXCEPT ![w] = @ \ {m}]
                                    /\ answers' = [answers EXCEPT ![w] = @ \cup {m}]
        BY <3>0, <3>1
      <3>2. CASE sent' = [sent EXCEPT ![w] = {}] /\ answers' = answers
        BY <3>0, <3>2
      <3> QED BY <1>6, <3>1, <3>2, WorkerCases
    <2> QED BY <2>0, <2>1, NumbersShrink DEF masterVars
  <1>7. CASE wproc_destroy \/ Finished \/ UNCHANGED vars
    BY <1>7, NumbersShrink DEF wproc_destroy, Finished, vars
  <1>8. CASE free_worker_memory
    <2>1. /\ UNCHANGED <<job_index, jobId>>
          /\ \A v \in Workers : /\ sent'[v] \subseteq sent[v]
                                 /\ answers'[v] \subseteq answers[v]
                                 /\ jobs'[v] \subseteq jobs[v]
      BY <1>8 DEF free_worker_memory
    <2> QED BY <2>1, NumbersShrink
  <1> QED BY <1>1, <1>2, <1>3, <1>4, <1>5, <1>6, <1>7, <1>8 DEF Next

-----------------------------------------------------------------------------
\* Places.
LEMMA NextPlaces ==
    ASSUME TypeOK, JobsWellPlaced, [Next]_vars
    PROVE  JobsWellPlaced'
  <1>0. /\ \A w \in Workers : jobs[w] \subseteq Jobs
        /\ \A w \in Workers : \A j \in jobs[w] : job[j] = "live" /\ jobWp[j] = w
        /\ \A j \in pending : j \in Jobs /\ job[j] = "live" /\ \A w \in Workers : j \notin jobs[w]
        /\ \A j \in Jobs : job[j] # "freed" => delivered[j] = <<>>
    BY DEF JobsWellPlaced, TypeOK
  <1>1. ASSUME NEW j \in Jobs, Submit(j) PROVE JobsWellPlaced'
    <2>1. CASE create_jobFails(j)
      BY <2>1, <1>0 DEF create_jobFails, JobsWellPlaced, TypeOK
    <2>2. ASSUME NEW w \in Workers, Assign(j, w), job[j] = "none", Written(j, w),
                 jobs' = [jobs EXCEPT ![w] = @ \cup {j}], UNCHANGED <<delivered, pending>>
          PROVE  JobsWellPlaced'
      <3>1. /\ job'[j] = "live" /\ jobWp'[j] = w
            /\ \A k \in Jobs \ {j} : job'[k] = job[k] /\ jobWp'[k] = jobWp[k]
        BY <2>2 DEF Assign, Written, TypeOK
      <3>2. \A v \in Workers : \A k \in jobs'[v] : k \in jobs[v] \/ (v = w /\ k = j)
        BY <2>2 DEF TypeOK
      <3> QED BY <1>0, <2>2, <3>1, <3>2 DEF JobsWellPlaced
    <2>3. ASSUME NEW w \in Workers, Assign(j, w), job[j] = "none", Choked(j, w, "choked"),
                 UNCHANGED <<jobs, delivered, pending>>
          PROVE  JobsWellPlaced'
      <3>1. /\ job'[j] = "choked"
            /\ \A k \in Jobs \ {j} : job'[k] = job[k] /\ jobWp'[k] = jobWp[k]
        BY <2>3 DEF Assign, Choked, TypeOK
      <3> QED BY <1>0, <2>3, <3>1 DEF JobsWellPlaced
    <2> QED BY <1>1, <2>1, <2>2, <2>3, SubmitCases
  <1>2. ASSUME NEW j \in Jobs, Reassigning(j) PROVE JobsWellPlaced'
    <2>1. /\ j \in pending /\ pending' = pending \ {j}
          /\ UNCHANGED <<jobs, delivered>>
      BY <1>2, ReassignCases
    <2>2. /\ job'[j] \in {"live", "freed"}
          /\ \A k \in Jobs \ {j} : job'[k] = job[k] /\ jobWp'[k] = jobWp[k]
      <3>1. CASE jobWp' = [jobWp EXCEPT ![j] = NoWorker] /\ job' = job
        BY <1>0, <2>1, <3>1 DEF TypeOK
      <3>2. ASSUME NEW w \in Workers, Assign(j, w), Written(j, w) \/ Choked(j, w, "freed")
            PROVE  /\ job'[j] \in {"live", "freed"}
                   /\ \A k \in Jobs \ {j} : job'[k] = job[k] /\ jobWp'[k] = jobWp[k]
        BY <3>2 DEF Assign, Written, Choked, TypeOK
      <3> QED BY <1>2, <3>1, <3>2, ReassignCases
    <2> QED BY <1>0, <2>1, <2>2 DEF JobsWellPlaced
  <1>3. ASSUME NEW w \in Workers, register_worker(w) PROVE JobsWellPlaced'
    BY <1>3, <1>0 DEF register_worker, JobsWellPlaced
  <1>4. ASSUME NEW w \in Workers, HandleResult(w) PROVE JobsWellPlaced'
    <2>1. UNCHANGED <<jobWp, pending>>
      BY <1>4, ResultCases
    <2>2. CASE UNCHANGED <<jobs, job, delivered>>
      BY <1>0, <2>1, <2>2 DEF JobsWellPlaced
    <2>3. ASSUME NEW m, NEW j \in jobs[w], jobs' = [jobs EXCEPT ![w] = @ \ {j}],
                 delivered' = [delivered EXCEPT ![j] = Append(@, m.job)],
                 job' = [job EXCEPT ![j] = "freed"]
          PROVE  JobsWellPlaced'
      <3>1. /\ job'[j] = "freed"
            /\ \A k \in Jobs \ {j} : job'[k] = job[k] /\ delivered'[k] = delivered[k]
        BY <1>0, <2>3 DEF TypeOK
      <3>2. \A v \in Workers : \A k \in jobs'[v] : k \in jobs[v] /\ k # j
        BY <1>0, <2>3 DEF TypeOK
      <3>3. \A k \in pending : k # j
        BY <1>0
      <3>4. /\ \A v \in Workers : \A k \in jobs'[v] : job'[k] = "live" /\ jobWp'[k] = v
            /\ \A k \in pending' : job'[k] = "live" /\ \A v \in Workers : k \notin jobs'[v]
        BY <1>0, <2>1, <3>1, <3>2, <3>3
      <3>5. \A k \in Jobs : job'[k] # "freed" => delivered'[k] = <<>>
        BY <1>0, <3>1
      <3> QED BY <3>4, <3>5 DEF JobsWellPlaced
    <2> QED BY <1>4, <2>2, <2>3, ResultCases DEF get_job
  <1>5. ASSUME NEW w \in Workers, SocketBroken(w) PROVE JobsWellPlaced'
    <2>1. /\ UNCHANGED <<job, jobWp, delivered>> /\ pending' = jobs[w]
          /\ \A v \in Workers : jobs'[v] \subseteq jobs[v] /\ (v = w => jobs'[v] = {})
      BY <1>5 DEF SocketBroken, TypeOK
    <2> QED BY <1>0, <2>1 DEF JobsWellPlaced
  <1>6. ASSUME NEW w \in Workers, Answer(w) \/ WorkerDies(w) PROVE JobsWellPlaced'
    BY <1>0, <1>6, WorkerCases DEF masterVars, JobsWellPlaced
  <1>7. CASE wproc_destroy \/ Finished \/ UNCHANGED vars
    BY <1>0, <1>7 DEF wproc_destroy, Finished, vars, JobsWellPlaced
  <1>8. CASE free_worker_memory
    <2>1. UNCHANGED <<jobWp, delivered, pending>>
      BY <1>8 DEF free_worker_memory
    <2>2. \A v \in Workers : jobs'[v] = IF v \in Listed THEN {} ELSE jobs[v]
      BY <1>8 DEF free_worker_memory
    <2>3. \A k \in Jobs : job'[k] = IF k \in Lost THEN "freed" ELSE job[k]
      BY <1>8 DEF free_worker_memory
    <2>4. Listed \subseteq Workers
      BY DEF TypeOK, Elements, Listed
    <2>5. \A k \in Lost : \E v \in Listed : k \in jobs[v]
      BY DEF Lost
    <2>6. \A v \in Workers : \A k \in jobs'[v] : k \in jobs[v] /\ k \notin Lost
      BY <1>0, <2>2, <2>4, <2>5
    <2>7. \A k \in pending : k \notin Lost
      BY <1>0, <2>4, <2>5
    <2> QED BY <1>0, <2>1, <2>3, <2>6, <2>7 DEF JobsWellPlaced
  <1> QED BY <1>1, <1>2, <1>3, <1>4, <1>5, <1>6, <1>7, <1>8 DEF Next

-----------------------------------------------------------------------------
\* Tables.
LEMMA TablesShrink ==
    ASSUME TablesInv,
           \A w \in Workers :
              /\ jobs'[w] \subseteq jobs[w]
              /\ \A j \in jobs'[w] : /\ job'[j] = job[j] /\ jobWp'[j] = jobWp[j]
                                     /\ jobId'[j] = jobId[j]
                                     /\ RequestOf(j) \in sent[w] \cup answers[w]
                                           => RequestOf(j) \in sent'[w] \cup answers'[w]
              /\ \/ jobs'[w] = {}
                 \/ worker'[w] = worker[w] /\ breaking' # w
    PROVE  TablesInv'
  <1>1. \A w \in Workers : \A j \in jobs'[w] : RequestOf(j)' = RequestOf(j)
    BY DEF RequestOf
  <1>2. \A w \in Workers : \A j \in jobs'[w] :
           /\ job'[j] = "live" /\ jobWp'[j] = w
           /\ worker'[w] = "up" => RequestOf(j)' \in sent'[w] \cup answers'[w]
    BY <1>1 DEF TablesInv, TablesMatchRequests
  <1>3. \A w \in Workers : (worker'[w] = "removed" \/ worker'[w] = "new" \/ breaking' = w)
                              => jobs'[w] = {}
    BY DEF TablesInv, TablesMatchRequests
  <1> QED BY <1>2, <1>3 DEF TablesInv, TablesMatchRequests

LEMMA NextTables ==
    ASSUME TypeOK, NumbersUnambiguous, JobsWellPlaced, TablesInv, [Next]_vars
    PROVE  TablesInv'
  <1>0. /\ \A w \in Workers : jobs[w] \subseteq Jobs
        /\ \A w \in Workers : worker[w] = "new" \/ breaking = w => jobs[w] = {}
        /\ \A w \in Workers : worker[w] = "removed" => jobs[w] = {}
    BY DEF TypeOK, TablesInv, TablesMatchRequests
  <1>1. ASSUME NEW j \in Jobs, Submit(j) PROVE TablesInv'
    <2>1. CASE create_jobFails(j)
      <3>1. Unplaced(j)
        BY <2>1, NewJobUnplaced DEF create_jobFails
      <3>2. \A k \in Jobs \ {j} : job'[k] = job[k]
        BY <2>1 DEF create_jobFails, TypeOK
      <3>3. UNCHANGED <<jobs, jobWp, jobId, sent, answers, worker, breaking>>
        BY <2>1 DEF create_jobFails
      <3> QED BY <1>0, <3>1, <3>2, <3>3, TablesShrink DEF Unplaced
    <2>2. ASSUME NEW w \in Workers, Assign(j, w), job[j] = "none", worker[w] = "up",
                 breaking = NoWorker, Written(j, w), jobs' = [jobs EXCEPT ![w] = @ \cup {j}],
                 UNCHANGED <<breaking, worker, answers>>
          PROVE  TablesInv'
      <3>1. Unplaced(j)
        BY <2>2, NewJobUnplaced
      <3>2. /\ job'[j] = "live" /\ jobWp'[j] = w /\ jobId'[j] = job_index[w]
            /\ \A k \in Jobs \ {j} :
                 job'[k] = job[k] /\ jobWp'[k] = jobWp[k] /\ jobId'[k] = jobId[k]
        BY <2>2 DEF Assign, Written, TypeOK
      <3>3. /\ \A v \in Workers : sent[v] \subseteq sent'[v]
            /\ [id |-> job_index[w], job |-> j] \in sent'[w]
        BY <2>2 DEF Written, TypeOK
      <3>4. \A v \in Workers : \A k \in jobs'[v] :
               (k \in jobs[v] /\ k # j) \/ (v = w /\ k = j)
        <4>1. jobs \in [Workers -> SUBSET Jobs]
          BY DEF TypeOK
        <4>2. \A v \in Workers : \A k \in jobs'[v] : k \in jobs[v] \/ (v = w /\ k = j)
          <5>1. jobs' = [jobs EXCEPT ![w] = @ \cup {j}]
            BY <2>2
          <5> QED BY <4>1, <5>1
        <4> QED BY <3>1, <4>2 DEF Unplaced
      <3>5. \A v \in Workers \ {w} : jobs'[v] = jobs[v]
        BY <2>2 DEF TypeOK
      <3>6. \A v \in Workers : \A k \in jobs'[v] :
              /\ job'[k] = "live" /\ jobWp'[k] = v
              /\ worker'[v] = "up" => RequestOf(k)' \in sent'[v] \cup answers'[v]
        BY <1>0, <2>2, <3>2, <3>3, <3>4 DEF RequestOf, TablesInv, TablesMatchRequests
      <3>7. \A v \in Workers : worker'[v] \in {"removed", "new"} \/ breaking' = v => jobs'[v] = {}
        BY <1>0, <2>2, <3>5, PoolConstants
      <3> QED BY <3>6, <3>7 DEF TablesInv, TablesMatchRequests
    <2>3. ASSUME NEW w \in Workers, Assign(j, w), job[j] = "none", Choked(j, w, "choked"),
                 UNCHANGED <<jobs, breaking, worker, answers>>
          PROVE  TablesInv'
      <3>1. Unplaced(j)
        BY <2>3, NewJobUnplaced
      <3>2. /\ \A k \in Jobs \ {j} :
                 job'[k] = job[k] /\ jobWp'[k] = jobWp[k] /\ jobId'[k] = jobId[k]
            /\ sent' = sent
        BY <2>3 DEF Assign, Choked, TypeOK
      <3> QED BY <1>0, <2>3, <3>1, <3>2, TablesShrink DEF Unplaced
    <2> QED BY <1>1, <2>1, <2>2, <2>3, SubmitCases
  <1>2. ASSUME NEW j \in Jobs, Reassigning(j) PROVE TablesInv'
    <2>1. UNCHANGED <<jobs, breaking, worker, answers>> /\ Unplaced(j)
      BY <1>2, ReassignCases, NewJobUnplaced
    <2>2. /\ \A k \in Jobs \ {j} :
               job'[k] = job[k] /\ jobWp'[k] = jobWp[k] /\ jobId'[k] = jobId[k]
          /\ \A v \in Workers : sent[v] \subseteq sent'[v]
      <3>1. CASE jobWp' = [jobWp EXCEPT ![j] = NoWorker] /\ UNCHANGED <<job, jobId, sent>>
        BY <3>1 DEF TypeOK
      <3>2. ASSUME NEW w \in Workers, Assign(j, w), Written(j, w) \/ Choked(j, w, "freed")
            PROVE  /\ \A k \in Jobs \ {j} :
                        job'[k] = job[k] /\ jobWp'[k] = jobWp[k] /\ jobId'[k] = jobId[k]
                   /\ \A v \in Workers : sent[v] \subseteq sent'[v]
        <4>1. \A v \in Workers : sent[v] \subseteq sent'[v]
          <5>1. sent' = sent \/ \E m : sent' = [sent EXCEPT ![w] = @ \cup {m}]
            BY <3>2 DEF Written, Choked
          <5>2. sent \in [Workers -> SUBSET Messages]
            BY DEF TypeOK
          <5> QED BY <5>1, <5>2
        <4>2. \A k \in Jobs \ {j} : job'[k] = job[k]
          BY <3>2 DEF Written, Choked, TypeOK
        <4>3. \A k \in Jobs \ {j} : jobWp'[k] = jobWp[k] /\ jobId'[k] = jobId[k]
          BY <3>2 DEF Assign, TypeOK
        <4> QED BY <4>1, <4>2, <4>3
      <3> QED BY <1>2, <3>1, <3>2, ReassignCases
    <2> QED BY <1>0, <2>1, <2>2, TablesShrink DEF Unplaced
  <1>3. ASSUME NEW w \in Workers, register_worker(w) PROVE TablesInv'
    <2>1. /\ UNCHANGED <<jobs, job, jobWp, jobId, sent, answers, breaking>>
          /\ worker[w] = "new" /\ \A v \in Workers \ {w} : worker'[v] = worker[v]
      BY <1>3 DEF register_worker, TypeOK
    <2> QED BY <1>0, <2>1, TablesShrink
  <1>4. ASSUME NEW w \in Workers, HandleResult(w) PROVE TablesInv'
    <2>1. UNCHANGED <<jobId, jobWp, breaking, worker, sent>>
      BY <1>4, ResultCases
    <2>2. PICK m \in answers[w] :
            /\ answers' = [answers EXCEPT ![w] = @ \ {m}]
            /\ \/ /\ get_job(w, m.id) = {}
                  /\ UNCHANGED <<jobs, job, delivered>>
               \/ \E j \in get_job(w, m.id) :
                    /\ jobs' = [jobs EXCEPT ![w] = @ \ {j}]
                    /\ job' = [job EXCEPT ![j] = "freed"]
      BY <1>4, ResultCases
    <2>3. /\ \A v \in Workers \ {w} : answers'[v] = answers[v]
          /\ answers'[w] = answers[w] \ {m}
      BY <2>2 DEF TypeOK
    <2>4. CASE get_job(w, m.id) = {} /\ UNCHANGED <<jobs, job>>
      <3>1. \A j \in jobs[w] : RequestOf(j) # m
        BY <2>4 DEF get_job, RequestOf
      <3> QED BY <1>0, <2>1, <2>3, <2>4, <3>1, TablesShrink
    <2>5. ASSUME NEW j \in get_job(w, m.id), jobs' = [jobs EXCEPT ![w] = @ \ {j}],
                 job' = [job EXCEPT ![j] = "freed"]
          PROVE  TablesInv'
      <3>1. j \in jobs[w] /\ jobId[j] = m.id
        BY DEF get_job
      <3>2. \A k \in jobs[w] \ {j} : RequestOf(k) # m
        BY <3>1 DEF RequestOf, NumbersUnambiguous
      <3>3. \A k \in Jobs \ {j} : job'[k] = job[k]
        BY <1>0, <2>5, <3>1 DEF TypeOK
      <3>4. /\ jobs'[w] = jobs[w] \ {j}
            /\ \A v \in Workers \ {w} : jobs'[v] = jobs[v] /\ j \notin jobs[v]
        BY <2>5, <3>1 DEF TypeOK, JobsWellPlaced
      <3> QED BY <1>0, <2>1, <2>3, <3>2, <3>3, <3>4, TablesShrink
    <2> QED BY <2>2, <2>4, <2>5
  <1>5. ASSUME NEW w \in Workers, SocketBroken(w) PROVE TablesInv'
    <2>1. /\ UNCHANGED <<job, jobWp, jobId, sent, answers, worker>>
          /\ jobs'[w] = {} /\ breaking' = w
          /\ \A v \in Workers \ {w} : jobs'[v] = jobs[v]
      BY <1>5 DEF SocketBroken, TypeOK
    <2> QED BY <2>1, TablesShrink
  <1>6. ASSUME NEW w \in Workers, Answer(w) \/ WorkerDies(w) PROVE TablesInv'
    <2>1. UNCHANGED <<jobs, job, jobWp, jobId, breaking>>
      BY <1>6, WorkerCases DEF masterVars
    <2>2. sent \in [Workers -> SUBSET Messages] /\ answers \in [Workers -> SUBSET Messages]
      BY DEF TypeOK
    <2>3. ASSUME NEW m \in sent[w], sent' = [sent EXCEPT ![w] = @ \ {m}],
                 answers' = [answers EXCEPT ![w] = @ \cup {m}], UNCHANGED worker
          PROVE  TablesInv'
      <3>1. \A v \in Workers : sent'[v] \cup answers'[v] = sent[v] \cup answers[v]
        BY <2>2, <2>3
      <3> QED BY <1>0, <2>1, <2>3, <3>1, TablesShrink
    <2>4. ASSUME sent' = [sent EXCEPT ![w] = {}], answers' = answers,
                 worker' = [worker EXCEPT ![w] = "down"]
          PROVE  TablesInv'
      <3>1. /\ worker'[w] = "down"
            /\ \A v \in Workers \ {w} : worker'[v] = worker[v] /\ sent'[v] = sent[v]
        BY <2>4 DEF TypeOK
      <3>2. \A v \in Workers : \A k \in jobs'[v] :
              /\ job'[k] = "live" /\ jobWp'[k] = v
              /\ worker'[v] = "up" => RequestOf(k)' \in sent'[v] \cup answers'[v]
        BY <2>1, <2>4, <3>1 DEF RequestOf, TablesInv, TablesMatchRequests
      <3>3. \A v \in Workers : worker'[v] \in {"removed", "new"} \/ breaking' = v => jobs'[v] = {}
        BY <1>0, <2>1, <3>1
      <3> QED BY <3>2, <3>3 DEF TablesInv, TablesMatchRequests
    <2> QED BY <1>6, <2>3, <2>4, WorkerCases
  <1>7. CASE wproc_destroy
    <2>1. /\ UNCHANGED <<jobs, job, jobWp, jobId, sent, answers>>
          /\ breaking' = NoWorker
          /\ \A v \in Workers : v # breaking => worker'[v] = worker[v]
      BY <1>7 DEF wproc_destroy, TypeOK
    <2> QED BY <1>0, <2>1, TablesShrink, PoolConstants
  <1>8. CASE free_worker_memory
    <2>1. UNCHANGED <<jobWp, jobId, breaking>>
      BY <1>8 DEF free_worker_memory
    <2>2. \A v \in Workers :
            IF v \in Listed THEN jobs'[v] = {}
            ELSE /\ jobs'[v] = jobs[v] /\ worker'[v] = worker[v]
                 /\ sent'[v] = sent[v] /\ answers'[v] = answers[v]
      BY <1>8 DEF free_worker_memory
    <2>3. \A k \in Jobs : k \notin Lost => job'[k] = job[k]
      BY <1>8 DEF free_worker_memory
    <2>4. \A v \in Workers : \A k \in jobs'[v] : k \notin Lost
      <3>1. Listed \subseteq Workers
        BY DEF TypeOK, Elements, Listed
      <3>2. \A k \in Lost : \E v \in Listed : k \in jobs[v]
        BY DEF Lost
      <3> QED BY <2>2, <3>1, <3>2 DEF JobsWellPlaced
    <2> QED BY <1>0, <2>1, <2>2, <2>3, <2>4, TablesShrink
  <1>9. CASE Finished \/ UNCHANGED vars
    <2>1. UNCHANGED <<jobs, job, jobWp, jobId, sent, answers, worker, breaking>>
      BY <1>9 DEF Finished, vars
    <2> QED BY <1>0, <2>1, TablesShrink
  <1> QED BY <1>1, <1>2, <1>3, <1>4, <1>5, <1>6, <1>7, <1>8, <1>9 DEF Next

-----------------------------------------------------------------------------
\* Results.
LEMMA NextResults ==
    ASSUME TypeOK, NumbersUnambiguous, JobsWellPlaced, ResultsReachTheirJob, [Next]_vars
    PROVE  ResultsReachTheirJob'
  <1>1. ASSUME UNCHANGED delivered PROVE ResultsReachTheirJob'
    BY <1>1 DEF ResultsReachTheirJob
  <1>2. ASSUME NEW w \in Workers, HandleResult(w) PROVE ResultsReachTheirJob'
    <2>1. PICK m \in answers[w] :
            \/ UNCHANGED delivered
            \/ \E j \in get_job(w, m.id) : delivered' = [delivered EXCEPT ![j] = Append(@, m.job)]
      BY <1>2, ResultCases
    <2>2. ASSUME NEW j \in get_job(w, m.id), delivered' = [delivered EXCEPT ![j] = Append(@, m.job)]
          PROVE  ResultsReachTheirJob'
      <3>1. j \in jobs[w] /\ jobId[j] = m.id /\ j \in Jobs
        BY DEF get_job, TypeOK
      <3>2. m.job = j
        BY <3>1 DEF NumbersUnambiguous
      <3>3. delivered[j] = <<>>
        BY <3>1 DEF JobsWellPlaced
      <3>4. delivered'[j] = <<j>> /\ \A k \in Jobs \ {j} : delivered'[k] = delivered[k]
        BY <2>2, <3>1, <3>2, <3>3 DEF TypeOK
      <3> QED BY <3>4 DEF ResultsReachTheirJob
    <2> QED BY <1>1, <2>1, <2>2
  <1>3. ASSUME NEW j \in Jobs, Submit(j) \/ Reassigning(j) PROVE UNCHANGED delivered
    BY <1>3, SubmitCases, ReassignCases DEF create_jobFails
  <1>4. ASSUME NEW w \in Workers, Answer(w) \/ WorkerDies(w) PROVE UNCHANGED delivered
    BY <1>4, WorkerCases DEF masterVars
  <1>5. ASSUME NEW w \in Workers, register_worker(w) \/ SocketBroken(w) PROVE UNCHANGED delivered
    BY <1>5 DEF register_worker, SocketBroken
  <1>6. CASE wproc_destroy \/ free_worker_memory \/ Finished \/ UNCHANGED vars
    BY <1>6, <1>1 DEF wproc_destroy, free_worker_memory, Finished, vars
  <1> QED BY <1>1, <1>2, <1>3, <1>4, <1>5, <1>6 DEF Next

-----------------------------------------------------------------------------
\* Callbacks.

\* The callbacks of every other job stay as they are, and this one's agrees
\* with what became of the job.
LEMMA CallbacksStep ==
    ASSUME CallbacksRunOnce, NEW j \in Jobs,
           \A k \in Jobs \ {j} : job'[k] = job[k] /\ calls'[k] = calls[k],
           calls'[j] = IF IsCallback[j] /\ job'[j] \in {"freed", "choked"} THEN 1 ELSE 0
    PROVE  CallbacksRunOnce'
  BY DEF CallbacksRunOnce

\* The request was written: the job lives and nothing is called.
LEMMA CallbacksWritten ==
    ASSUME TypeOK, CallbacksRunOnce, NEW j \in Jobs, NEW w \in Workers,
           job[j] \in {"none", "live"}, Written(j, w)
    PROVE  CallbacksRunOnce'
  <1>1. job' = [job EXCEPT ![j] = "live"] /\ calls' = calls
    BY DEF Written
  <1>2. job'[j] = "live" /\ \A k \in Jobs \ {j} : job'[k] = job[k]
    BY <1>1 DEF TypeOK
  <1>3. calls[j] = 0
    BY DEF CallbacksRunOnce
  <1> QED BY <1>1, <1>2, <1>3, CallbacksStep

\* The write failed: destroy_job calls back with NULL.
LEMMA CallbacksChoked ==
    ASSUME TypeOK, CallbacksRunOnce, NEW j \in Jobs, NEW w \in Workers,
           job[j] \in {"none", "live"}, NEW end \in {"choked", "freed"}, Choked(j, w, end)
    PROVE  CallbacksRunOnce'
  <1>1. job' = [job EXCEPT ![j] = end] /\ calls' = CallbacksAfterDestroy({j})
    BY DEF Choked
  <1>2. job'[j] = end /\ \A k \in Jobs \ {j} : job'[k] = job[k]
    BY <1>1 DEF TypeOK
  <1>3. calls[j] = 0
    BY DEF CallbacksRunOnce
  <1>4. /\ calls'[j] = IF IsCallback[j] THEN 1 ELSE 0
        /\ \A k \in Jobs \ {j} : calls'[k] = calls[k]
    BY <1>1, <1>3 DEF CallbacksAfterDestroy
  <1> QED BY <1>2, <1>4, CallbacksStep

LEMMA NextCallbacks ==
    ASSUME TypeOK, JobsWellPlaced, CallbacksRunOnce, [Next]_vars
    PROVE  CallbacksRunOnce'
  <1>1. ASSUME NEW j \in Jobs, Submit(j) PROVE CallbacksRunOnce'
    <2>1. CASE create_jobFails(j)
      <3>1. job' = [job EXCEPT ![j] = "refused"] /\ calls' = calls /\ job[j] = "none"
        BY <2>1 DEF create_jobFails
      <3>2. job'[j] = "refused" /\ \A k \in Jobs \ {j} : job'[k] = job[k]
        BY <3>1 DEF TypeOK
      <3>3. calls[j] = 0
        BY <3>1 DEF CallbacksRunOnce
      <3> QED BY <3>1, <3>2, <3>3, CallbacksStep
    <2> QED BY <1>1, <2>1, SubmitCases, CallbacksWritten, CallbacksChoked
  <1>2. ASSUME NEW j \in Jobs, Reassigning(j) PROVE CallbacksRunOnce'
    <2>1. CASE ReassignFails(j)
      BY <2>1 DEF ReassignFails, CallbacksRunOnce
    <2>2. CASE Reassign(j)
      <3>1. PICK w \in Workers : Written(j, w) \/ Choked(j, w, "freed")
        BY <2>2, GetWorkerType, PoolConstants DEF Reassign
      <3>2. job[j] = "live"
        BY <2>2 DEF Reassign, JobsWellPlaced
      <3> QED BY <3>1, <3>2, CallbacksWritten, CallbacksChoked
    <2> QED BY <1>2, <2>1, <2>2 DEF Reassigning
  <1>3. ASSUME NEW w \in Workers, HandleResult(w) PROVE CallbacksRunOnce'
    <2>1. PICK m \in answers[w] : ResultHandled(w, m) \/ ResultUnknown(w, m)
      BY <1>3 DEF HandleResult
    <2>2. CASE ResultUnknown(w, m)
      BY <2>2 DEF ResultUnknown, masterVars, CallbacksRunOnce
    <2>3. CASE ResultHandled(w, m)
      <3>1. PICK j \in jobs[w] :
              /\ calls' = [calls EXCEPT ![j] = IF IsCallback[j] /\ @ = 0 THEN 1 ELSE @]
              /\ job' = [job EXCEPT ![j] = "freed"]
        BY <2>3 DEF ResultHandled, get_job
      <3>2. j \in Jobs /\ job[j] = "live"
        BY DEF JobsWellPlaced, TypeOK
      <3>3. job'[j] = "freed" /\ \A k \in Jobs \ {j} : job'[k] = job[k]
        BY <3>1, <3>2 DEF TypeOK
      <3>4. calls[j] = 0
        BY <3>2 DEF CallbacksRunOnce
      <3>5. /\ calls'[j] = IF IsCallback[j] THEN 1 ELSE 0
            /\ \A k \in Jobs \ {j} : calls'[k] = calls[k]
        BY <3>1, <3>2, <3>4 DEF TypeOK
      <3> QED BY <3>2, <3>3, <3>5, CallbacksStep
    <2> QED BY <2>1, <2>2, <2>3
  <1>4. CASE free_worker_memory
    <2>1. /\ \A k \in Jobs : job'[k] = IF k \in Lost THEN "freed" ELSE job[k]
          /\ calls' = CallbacksAfterDestroy(Lost)
      BY <1>4 DEF free_worker_memory
    <2>2. \A k \in Lost : job[k] = "live"
      BY DEF Lost, Listed, Elements, TypeOK, JobsWellPlaced
    <2>3. \A k \in Jobs : calls'[k] = IF k \in Lost /\ IsCallback[k] THEN 1 ELSE calls[k]
      BY <2>1, <2>2 DEF CallbacksAfterDestroy, CallbacksRunOnce
    <2> QED BY <2>1, <2>2, <2>3 DEF CallbacksRunOnce
  <1>5. ASSUME NEW w \in Workers, register_worker(w) \/ SocketBroken(w) PROVE CallbacksRunOnce'
    BY <1>5 DEF register_worker, SocketBroken, CallbacksRunOnce
  <1>6. ASSUME NEW w \in Workers, Answer(w) \/ WorkerDies(w) PROVE CallbacksRunOnce'
    BY <1>6, WorkerCases DEF masterVars, CallbacksRunOnce
  <1>7. CASE wproc_destroy \/ Finished \/ UNCHANGED vars
    BY <1>7 DEF wproc_destroy, Finished, vars, CallbacksRunOnce
  <1> QED BY <1>1, <1>2, <1>3, <1>4, <1>5, <1>6, <1>7 DEF Next

-----------------------------------------------------------------------------
LEMMA InitPoolInv == Init => PoolInv
  <1> SUFFICES ASSUME Init PROVE PoolInv
    OBVIOUS
  <1>1. NumbersUnambiguous
    BY DEF Init, NumbersUnambiguous
  <1>2. JobsWellPlaced
    BY DEF Init, JobsWellPlaced
  <1>3. TablesInv
    BY DEF Init, TablesInv, TablesMatchRequests
  <1>4. ResultsReachTheirJob
    BY DEF Init, ResultsReachTheirJob
  <1> QED BY <1>1, <1>2, <1>3, <1>4, InitTypeOK DEF PoolInv

\* The inductive invariant of the master's side: numbers are unambiguous, every
\* job is where its state says, and the tables match what workers were sent.
THEOREM PoolInvariant == Spec => []PoolInv
  <1>1. PoolInv /\ [Next]_vars => PoolInv'
    BY NextTypeOK, NextNumbers, NextPlaces, NextTables, NextResults DEF PoolInv
  <1> QED BY InitPoolInv, <1>1, PTL DEF Spec

\* Responses are matched with jobs by a number that is never ambiguous
\* (get_job_id, get_job), so no job is ever given another job's result, or two.
THEOREM PoolDeliversRightly == Spec => [](NumbersUnambiguous /\ ResultsReachTheirJob)
  <1>1. PoolInv => NumbersUnambiguous /\ ResultsReachTheirJob
    BY DEF PoolInv
  <1> QED BY PoolInvariant, <1>1, PTL

\* A job in the table of a worker that is up is one the worker has or has
\* answered, and a destroyed worker leaves no job behind in its table
\* (create_job, handle_worker_result, wproc_destroy, free_worker_memory).
THEOREM PoolTablesMatch == Spec => []TablesMatchRequests
  <1>1. PoolInv => TablesMatchRequests
    BY DEF PoolInv, TablesInv
  <1> QED BY PoolInvariant, <1>1, PTL

\* Types, for any number of workers, jobs and plugins (base/workers.c).
THEOREM PoolTypes == Spec => []TypeOK
  <1>1. PoolInv => TypeOK
    BY DEF PoolInv
  <1> QED BY PoolInvariant, <1>1, PTL

\* However a job ends, by its result, by a write that fails, at once or when it
\* is given to another worker, or at a restart, its callback has then run once,
\* and it has not run before (run_job_callback, destroy_job).
THEOREM PoolCallbacksRunOnce == Spec => []CallbacksRunOnce
  <1>1. Init => CallbacksRunOnce
    BY DEF Init, CallbacksRunOnce
  <1>2. PoolInv /\ CallbacksRunOnce /\ [Next]_vars => CallbacksRunOnce'
    BY NextCallbacks DEF PoolInv
  <1> QED BY PoolInvariant, <1>1, <1>2, PTL DEF Spec
-----------------------------------------------------------------------------
\* The counters.  LoadAccounting in four counts of jobs, and what it needs
\* besides: a connected worker is in a list (free_worker_memory resets the count
\* of workers and destroys the listed ones), and no job waits for reassignment
\* while no worker is being taken apart.
InHand == Tabled \cup pending
Doubled == {j \in Jobs \ InHand : job[j] = "live" /\ jobWp[j] # NoWorker}
Leftover == {j \in Jobs \ InHand : job[j] = "live" /\ jobWp[j] = NoWorker}
Unsent == {j \in Jobs : job[j] = "choked"}
Load == Cardinality(InHand) + 2 * Cardinality(Doubled) + Cardinality(Leftover)
          - Cardinality(Unsent)
LoadExact == loadctl = Load % UIntSize

Connected == {w \in Workers : worker[w] \in {"up", "down"}} \ {breaking}
OnlineExact == online = Cardinality(Connected)
UpListed == \A w \in Connected : w \in Listed
PendingInHand == breaking = NoWorker => pending = {}

LoadInv == LoadExact /\ OnlineExact /\ UpListed /\ PendingInHand

\* A number added to a remainder.
LEMMA RemainderUnique ==
    ASSUME NEW n \in Nat \ {0}, NEW q \in Int, NEW r \in 0..(n - 1)
    PROVE  (q * n + r) % n = r
  OBVIOUS

LEMMA Division ==
    ASSUME NEW n \in Nat \ {0}, NEW x \in Int
    PROVE  \E q \in Int, r \in 0..(n - 1) : x = q * n + r /\ x % n = r
  <1>1. x \div n \in Int /\ x % n \in 0..(n - 1)
    OBVIOUS
  <1>2. x = (x \div n) * n + (x % n)
    OBVIOUS
  <1> QED BY <1>1, <1>2

LEMMA RemainderAdd ==
    ASSUME NEW n \in Nat \ {0}, NEW x \in Int, NEW d \in Int
    PROVE  ((x % n) + d) % n = (x + d) % n
  <1>1. PICK q \in Int, r \in 0..(n - 1) : x = q * n + r /\ x % n = r
    BY Division
  <1>2. PICK p \in Int, s \in 0..(n - 1) : r + d = p * n + s /\ (r + d) % n = s
    <2>1. r + d \in Int
      OBVIOUS
    <2> QED BY <2>1, Division
  <1>3. x + d = (q + p) * n + s
    BY <1>1, <1>2
  <1>4. q + p \in Int
    OBVIOUS
  <1>5. ((q + p) * n + s) % n = s
    BY <1>4, RemainderUnique
  <1> QED BY <1>1, <1>2, <1>3, <1>5

\* Counts of jobs.
LEMMA CountType ==
    ASSUME NEW S \in SUBSET Jobs PROVE IsFiniteSet(S) /\ Cardinality(S) \in Nat
  BY PoolConstants, FS_Subset, FS_CardinalityType

LEMMA CountWith ==
    ASSUME NEW S \in SUBSET Jobs, NEW j \in Jobs \ S
    PROVE  Cardinality(S \cup {j}) = Cardinality(S) + 1
  BY CountType, FS_AddElement

LEMMA CountWithout ==
    ASSUME NEW S \in SUBSET Jobs, NEW j \in S
    PROVE  Cardinality(S \ {j}) = Cardinality(S) - 1
  BY CountType, FS_RemoveElement

LEMMA LoadSets ==
    ASSUME TypeOK
    PROVE  /\ InHand \in SUBSET Jobs /\ Cardinality(InHand) \in Nat
           /\ Doubled \in SUBSET Jobs /\ Cardinality(Doubled) \in Nat
           /\ Leftover \in SUBSET Jobs /\ Cardinality(Leftover) \in Nat
           /\ Unsent \in SUBSET Jobs /\ Cardinality(Unsent) \in Nat
  <1>1. /\ InHand \in SUBSET Jobs
        /\ Doubled \in SUBSET Jobs
        /\ Leftover \in SUBSET Jobs
        /\ Unsent \in SUBSET Jobs
    BY DEF TypeOK, InHand, Tabled, Doubled, Leftover, Unsent
  <1> QED BY <1>1, CountType

\* The counter follows the load.
LEMMA LoadFollows ==
    ASSUME TypeOK, LoadExact, NEW d \in Int, Load' = Load + d,
           loadctl' = (loadctl + d) % UIntSize
    PROVE  LoadExact'
  <1>1. Load \in Int
    BY LoadSets DEF Load
  <1>2. ((Load % UIntSize) + d) % UIntSize = (Load + d) % UIntSize
    BY <1>1, PoolConstants, RemainderAdd
  <1> QED BY <1>2 DEF LoadExact

LEMMA LoadSame ==
    ASSUME LoadExact, UNCHANGED <<InHand, Doubled, Leftover, Unsent, loadctl>>
    PROVE  LoadExact'
  BY DEF LoadExact, Load

LEMMA LoadUnchanged ==
    ASSUME LoadExact, UNCHANGED <<jobs, pending, job, jobWp, loadctl>>
    PROVE  LoadExact'
  BY LoadSame DEF InHand, Tabled, Doubled, Leftover, Unsent

\* A job written for the first time joins the table; one whose first write
\* failed was never in it.
LEMMA LoadSubmit ==
    ASSUME TypeOK, JobsWellPlaced, LoadExact, NEW j \in Jobs, Submit(j)
    PROVE  LoadExact'
  <1>1. CASE create_jobFails(j)
    <2>1. UNCHANGED <<jobs, pending, jobWp, loadctl>>
      BY <1>1 DEF create_jobFails
    <2>2. job[j] = "none" /\ job' = [job EXCEPT ![j] = "refused"]
      BY <1>1 DEF create_jobFails
    <2>3. \A k \in Jobs : /\ job'[k] = "live" <=> job[k] = "live"
                          /\ job'[k] = "choked" <=> job[k] = "choked"
      BY <2>2 DEF TypeOK
    <2>4. UNCHANGED InHand
      BY <2>1 DEF InHand, Tabled
    <2>5. UNCHANGED <<Doubled, Leftover, Unsent>>
      BY <2>1, <2>3, <2>4 DEF Doubled, Leftover, Unsent
    <2> QED BY <2>1, <2>4, <2>5, LoadSame
  <1>2. ASSUME NEW w \in Workers, Assign(j, w), job[j] = "none", UNCHANGED pending,
               Written(j, w), jobs' = [jobs EXCEPT ![w] = @ \cup {j}]
        PROVE  LoadExact'
    <2>1. job' = [job EXCEPT ![j] = "live"] /\ jobWp' = [jobWp EXCEPT ![j] = w]
      BY <1>2 DEF Written, Assign
    <2>2. j \notin InHand
      BY <1>2 DEF JobsWellPlaced, InHand, Tabled
    <2>3. InHand' = InHand \cup {j}
      BY <1>2 DEF TypeOK, InHand, Tabled
    <2>4. \A k \in Jobs \ {j} : job'[k] = job[k] /\ jobWp'[k] = jobWp[k]
      BY <2>1 DEF TypeOK
    <2>5. job[j] = "none" /\ job'[j] = "live"
      BY <1>2, <2>1 DEF TypeOK
    <2>6. UNCHANGED Doubled
      BY <2>3, <2>4, <2>5 DEF Doubled
    <2>7. UNCHANGED Leftover
      BY <2>3, <2>4, <2>5 DEF Leftover
    <2>8. UNCHANGED Unsent
      BY <2>4, <2>5 DEF Unsent
    <2>9. Cardinality(InHand') = Cardinality(InHand) + 1
      BY <2>2, <2>3, LoadSets, CountWith
    <2>10. Load' = Load + 1
      BY <2>6, <2>7, <2>8, <2>9, LoadSets DEF Load
    <2>11. loadctl' = (loadctl + 1) % UIntSize
      BY <1>2 DEF Written, Inc
    <2> QED BY <2>10, <2>11, LoadFollows
  <1>3. ASSUME NEW w \in Workers, Assign(j, w), job[j] = "none", UNCHANGED <<jobs, pending>>,
               Choked(j, w, "choked")
        PROVE  LoadExact'
    <2>1. job' = [job EXCEPT ![j] = "choked"] /\ jobWp' = [jobWp EXCEPT ![j] = w]
      BY <1>3 DEF Choked, Assign
    <2>2. UNCHANGED InHand
      BY <1>3 DEF InHand, Tabled
    <2>3. \A k \in Jobs \ {j} : job'[k] = job[k] /\ jobWp'[k] = jobWp[k]
      BY <2>1 DEF TypeOK
    <2>4. job[j] = "none" /\ job'[j] = "choked"
      BY <1>3, <2>1 DEF TypeOK
    <2>5. UNCHANGED Doubled
      BY <2>2, <2>3, <2>4 DEF Doubled
    <2>6. UNCHANGED Leftover
      BY <2>2, <2>3, <2>4 DEF Leftover
    <2>7. j \notin Unsent /\ Unsent' = Unsent \cup {j}
      BY <2>3, <2>4 DEF Unsent
    <2>8. Cardinality(Unsent') = Cardinality(Unsent) + 1
      BY <2>7, LoadSets, CountWith
    <2>9. Load' = Load + (-1)
      BY <2>2, <2>5, <2>6, <2>8, LoadSets DEF Load
    <2>10. loadctl' = (loadctl + (-1)) % UIntSize
      BY <1>3 DEF Choked, Dec, TypeOK, UInt
    <2> QED BY <2>9, <2>10, LoadFollows
  <1> QED BY <1>1, <1>2, <1>3, SubmitCases

\* A job that was reassigned is in no table any more: it counts twice if it was
\* written, still counts once if no worker was left, and not at all if the write
\* failed.
LEMMA LoadReassign ==
    ASSUME TypeOK, JobsWellPlaced, LoadExact, NEW j \in Jobs, Reassigning(j)
    PROVE  LoadExact'
  <1>1. j \in pending /\ pending' = pending \ {j} /\ UNCHANGED jobs
    BY ReassignCases
  <1>2. j \in InHand /\ InHand' = InHand \ {j}
    BY <1>1 DEF JobsWellPlaced, InHand, Tabled
  <1>3. Cardinality(InHand') = Cardinality(InHand) - 1
    BY <1>2, LoadSets, CountWithout
  <1>4. job[j] = "live"
    BY <1>1 DEF JobsWellPlaced
  <1>5. j \notin Doubled /\ j \notin Leftover /\ j \notin Unsent
    BY <1>2, <1>4 DEF Doubled, Leftover, Unsent
  <1>6. ASSUME NEW w \in Workers, Assign(j, w), Written(j, w) PROVE LoadExact'
    <2>1. job' = [job EXCEPT ![j] = "live"] /\ jobWp' = [jobWp EXCEPT ![j] = w]
      BY <1>6 DEF Written, Assign
    <2>2. \A k \in Jobs \ {j} : job'[k] = job[k] /\ jobWp'[k] = jobWp[k]
      BY <2>1 DEF TypeOK
    <2>3. job'[j] = "live" /\ jobWp'[j] # NoWorker
      BY <2>1, PoolConstants DEF TypeOK
    <2>4. Doubled' = Doubled \cup {j}
      BY <1>2, <2>2, <2>3 DEF Doubled
    <2>5. UNCHANGED Leftover
      BY <1>2, <1>5, <2>2, <2>3 DEF Leftover
    <2>6. UNCHANGED Unsent
      BY <1>4, <2>2, <2>3 DEF Unsent
    <2>7. Cardinality(Doubled') = Cardinality(Doubled) + 1
      BY <1>5, <2>4, LoadSets, CountWith
    <2>8. Load' = Load + 1
      BY <1>3, <2>5, <2>6, <2>7, LoadSets DEF Load
    <2>9. loadctl' = (loadctl + 1) % UIntSize
      BY <1>6 DEF Written, Inc
    <2> QED BY <2>8, <2>9, LoadFollows
  <1>7. ASSUME NEW w \in Workers, Assign(j, w), Choked(j, w, "freed") PROVE LoadExact'
    <2>1. job' = [job EXCEPT ![j] = "freed"] /\ jobWp' = [jobWp EXCEPT ![j] = w]
      BY <1>7 DEF Choked, Assign
    <2>2. \A k \in Jobs \ {j} : job'[k] = job[k] /\ jobWp'[k] = jobWp[k]
      BY <2>1 DEF TypeOK
    <2>3. job'[j] = "freed"
      BY <2>1 DEF TypeOK
    <2>4. UNCHANGED Doubled
      BY <1>2, <1>5, <2>2, <2>3 DEF Doubled
    <2>5. UNCHANGED Leftover
      BY <1>2, <1>5, <2>2, <2>3 DEF Leftover
    <2>6. UNCHANGED Unsent
      BY <1>5, <2>2, <2>3 DEF Unsent
    <2>7. Load' = Load + (-1)
      BY <1>3, <2>4, <2>5, <2>6, LoadSets DEF Load
    <2>8. loadctl' = (loadctl + (-1)) % UIntSize
      BY <1>7 DEF Choked, Dec, TypeOK, UInt
    <2> QED BY <2>7, <2>8, LoadFollows
  <1>8. CASE ReassignFails(j)
    <2>1. UNCHANGED <<job, loadctl>> /\ jobWp' = [jobWp EXCEPT ![j] = NoWorker]
      BY <1>8 DEF ReassignFails
    <2>2. \A k \in Jobs \ {j} : job'[k] = job[k] /\ jobWp'[k] = jobWp[k]
      BY <2>1 DEF TypeOK
    <2>3. job'[j] = "live" /\ jobWp'[j] = NoWorker
      BY <1>4, <2>1 DEF TypeOK
    <2>4. UNCHANGED Doubled
      BY <1>2, <1>5, <2>2, <2>3 DEF Doubled
    <2>5. Leftover' = Leftover \cup {j}
      BY <1>2, <2>2, <2>3 DEF Leftover
    <2>6. UNCHANGED Unsent
      BY <2>1 DEF Unsent
    <2>7. Cardinality(Leftover') = Cardinality(Leftover) + 1
      BY <1>5, <2>5, LoadSets, CountWith
    <2>8. Load' = Load
      BY <1>3, <2>4, <2>6, <2>7, LoadSets DEF Load
    <2> QED BY <2>1, <2>8 DEF LoadExact
  <1>9. CASE Reassign(j)
    <2> DEFINE w == get_worker(CommandOf[j])
    <2>1. w \in Workers
      BY <1>9, PoolConstants, GetWorkerType DEF Reassign
    <2>2. Assign(j, w) /\ (Written(j, w) \/ Choked(j, w, "freed"))
      BY <1>9 DEF Reassign
    <2> QED BY <1>6, <1>7, <2>1, <2>2
  <1> QED BY <1>8, <1>9 DEF Reassigning

\* A job that is given its result leaves the table.
LEMMA LoadResult ==
    ASSUME TypeOK, JobsWellPlaced, LoadExact, NEW w \in Workers, HandleResult(w)
    PROVE  LoadExact'
  <1>1. PICK m \in answers[w] : ResultHandled(w, m) \/ ResultUnknown(w, m)
    BY DEF HandleResult
  <1>2. CASE ResultUnknown(w, m)
    BY <1>2, LoadUnchanged DEF ResultUnknown, masterVars
  <1>3. CASE ResultHandled(w, m)
    <2>1. PICK j \in get_job(w, m.id) :
            /\ jobs' = [jobs EXCEPT ![w] = @ \ {j}]
            /\ job' = [job EXCEPT ![j] = "freed"]
            /\ loadctl' = Dec(loadctl)
            /\ UNCHANGED <<jobWp, pending>>
      BY <1>3 DEF ResultHandled
    <2>2. j \in jobs[w] /\ j \in Jobs
      BY DEF get_job, TypeOK
    <2>3. job[j] = "live" /\ jobWp[j] = w /\ j \notin pending
      BY <2>2 DEF JobsWellPlaced
    <2>4. \A v \in Workers : j \in jobs[v] => v = w
      BY <2>3 DEF JobsWellPlaced
    <2>5. j \in InHand /\ InHand' = InHand \ {j}
      BY <2>1, <2>2, <2>3, <2>4 DEF TypeOK, InHand, Tabled
    <2>6. \A k \in Jobs \ {j} : job'[k] = job[k]
      BY <2>1 DEF TypeOK
    <2>7. job'[j] = "freed"
      BY <2>1, <2>2 DEF TypeOK
    <2>8. UNCHANGED Doubled
      BY <2>1, <2>5, <2>6, <2>7 DEF Doubled
    <2>9. UNCHANGED Leftover
      BY <2>1, <2>5, <2>6, <2>7 DEF Leftover
    <2>10. UNCHANGED Unsent
      BY <2>3, <2>6, <2>7 DEF Unsent
    <2>11. Cardinality(InHand') = Cardinality(InHand) - 1
      BY <2>5, LoadSets, CountWithout
    <2>12. Load' = Load + (-1)
      BY <2>8, <2>9, <2>10, <2>11, LoadSets DEF Load
    <2>13. loadctl' = (loadctl + (-1)) % UIntSize
      BY <2>1 DEF Dec, TypeOK, UInt
    <2> QED BY <2>12, <2>13, LoadFollows
  <1> QED BY <1>1, <1>2, <1>3

\* The jobs of a broken worker change hands.
LEMMA LoadBroken ==
    ASSUME TypeOK, LoadExact, PendingInHand, NEW w \in Workers, SocketBroken(w)
    PROVE  LoadExact'
  <1>1. /\ pending = {} /\ pending' = jobs[w] /\ jobs' = [jobs EXCEPT ![w] = {}]
        /\ UNCHANGED <<job, jobWp, loadctl>>
    BY DEF PendingInHand, SocketBroken, Idle
  <1>2. UNCHANGED InHand
    <2>1. \A v \in Workers : jobs'[v] = IF v = w THEN {} ELSE jobs[v]
      BY <1>1 DEF TypeOK
    <2>2. InHand' \subseteq InHand
      BY <1>1, <2>1 DEF InHand, Tabled
    <2>3. InHand \subseteq InHand'
      BY <1>1, <2>1 DEF InHand, Tabled
    <2> QED BY <2>2, <2>3
  <1>3. UNCHANGED <<Doubled, Leftover, Unsent>>
    BY <1>1, <1>2 DEF Doubled, Leftover, Unsent
  <1> QED BY <1>1, <1>2, <1>3, LoadSame

\* A restart destroys the jobs of every table with their workers.
LEMMA LoadRestart ==
    ASSUME TypeOK, JobsWellPlaced, LoadExact, PendingInHand, free_worker_memory
    PROVE  LoadExact'
  <1>1. /\ pending = {} /\ pending' = {} /\ jobWp' = jobWp
        /\ jobs' = [w \in Workers |-> IF w \in Listed THEN {} ELSE jobs[w]]
        /\ job' = [j \in Jobs |-> IF j \in Lost THEN "freed" ELSE job[j]]
        /\ loadctl' = (loadctl - Cardinality(Lost)) % UIntSize
    BY DEF PendingInHand, free_worker_memory, Idle
  <1>2. Listed \subseteq Workers
    BY DEF TypeOK, Elements, Listed
  <1>3. Lost \in SUBSET Jobs /\ Lost \subseteq InHand
    BY <1>2 DEF TypeOK, Lost, InHand, Tabled
  <1>4. \A j \in Lost : job[j] = "live"
    BY <1>2 DEF Lost, JobsWellPlaced
  <1>5. InHand' = InHand \ Lost
    <2>1. \A v \in Workers : jobs'[v] = IF v \in Listed THEN {} ELSE jobs[v]
      BY <1>1
    <2>2. InHand = Tabled /\ InHand' = Tabled'
      BY <1>1 DEF InHand
    <2>3. Tabled' \subseteq Tabled \ Lost
      <3> SUFFICES ASSUME NEW v \in Workers, NEW j \in jobs'[v]
                   PROVE  j \in Tabled \ Lost
        BY DEF Tabled
      <3>1. v \notin Listed /\ j \in jobs[v]
        BY <2>1
      <3>2. \A u \in Workers : j \in jobs[u] => u = v
        BY <3>1 DEF JobsWellPlaced
      <3>3. j \notin Lost
        BY <1>2, <3>1, <3>2 DEF Lost
      <3> QED BY <3>1, <3>3 DEF Tabled
    <2>4. Tabled \ Lost \subseteq Tabled'
      <3> SUFFICES ASSUME NEW v \in Workers, NEW j \in jobs[v], j \notin Lost
                   PROVE  j \in Tabled'
        BY DEF Tabled
      <3>1. v \notin Listed
        BY DEF Lost
      <3> QED BY <2>1, <3>1 DEF Tabled
    <2> QED BY <2>2, <2>3, <2>4
  <1>6. \A j \in Jobs : job'[j] = IF j \in Lost THEN "freed" ELSE job[j]
    BY <1>1
  <1>7. UNCHANGED Doubled
    BY <1>1, <1>3, <1>5, <1>6 DEF Doubled
  <1>8. UNCHANGED Leftover
    BY <1>1, <1>3, <1>5, <1>6 DEF Leftover
  <1>9. UNCHANGED Unsent
    BY <1>4, <1>6 DEF Unsent
  <1>10. Cardinality(InHand') = Cardinality(InHand) - Cardinality(Lost)
    <2> DEFINE rest == InHand \ Lost
    <2>1. rest \in SUBSET Jobs /\ InHand = rest \cup Lost /\ rest \cap Lost = {}
      BY <1>3, LoadSets
    <2>2. /\ IsFiniteSet(rest) /\ Cardinality(rest) \in Nat
          /\ IsFiniteSet(Lost) /\ Cardinality(Lost) \in Nat
      BY <1>3, <2>1, CountType
    <2>3. Cardinality(rest \cap Lost) = 0
      BY <2>1, FS_EmptySet
    <2> HIDE DEF rest
    <2>4. Cardinality(rest \cup Lost)
            = Cardinality(rest) + Cardinality(Lost) - Cardinality(rest \cap Lost)
      BY <2>2, FS_Union
    <2>5. Cardinality(InHand) = Cardinality(rest) + Cardinality(Lost)
      BY <2>1, <2>2, <2>3, <2>4
    <2> QED BY <1>5, <2>2, <2>5 DEF rest
  <1>11. Cardinality(Lost) \in Nat
    BY <1>3, CountType
  <1>12. Load' = Load + (-Cardinality(Lost))
    BY <1>7, <1>8, <1>9, <1>10, <1>11, LoadSets DEF Load
  <1>13. loadctl' = (loadctl + (-Cardinality(Lost))) % UIntSize
    BY <1>1, <1>11 DEF TypeOK, UInt
  <1>14. -Cardinality(Lost) \in Int
    BY <1>11
  <1> QED BY <1>12, <1>13, <1>14, LoadFollows

LEMMA NextLoad ==
    ASSUME TypeOK, JobsWellPlaced, LoadExact, PendingInHand, [Next]_vars
    PROVE  LoadExact'
  <1>1. ASSUME NEW w \in Workers, register_worker(w) PROVE LoadExact'
    BY <1>1, LoadUnchanged DEF register_worker
  <1>2. ASSUME NEW w \in Workers, Answer(w) \/ WorkerDies(w) PROVE LoadExact'
    BY <1>2, WorkerCases, LoadUnchanged DEF masterVars
  <1>3. CASE wproc_destroy \/ Finished \/ UNCHANGED vars
    BY <1>3, LoadUnchanged DEF wproc_destroy, Finished, vars
  <1> QED BY <1>1, <1>2, <1>3, LoadSubmit, LoadReassign, LoadResult, LoadBroken, LoadRestart
          DEF Next

\* The jobs of a worker are pending only while it is taken apart.
LEMMA NextPending ==
    ASSUME PendingInHand, [Next]_vars PROVE PendingInHand'
  <1>1. ASSUME NEW j \in Jobs, Submit(j) PROVE PendingInHand'
    BY <1>1 DEF Submit, create_job, create_jobFails, create_jobChoked, PendingInHand
  <1>2. ASSUME NEW j \in Jobs, Reassigning(j) PROVE PendingInHand'
    BY <1>2 DEF Reassigning, Reassign, ReassignFails, PendingInHand
  <1>3. ASSUME NEW w \in Workers, register_worker(w) PROVE PendingInHand'
    BY <1>3 DEF register_worker, PendingInHand
  <1>4. ASSUME NEW w \in Workers, HandleResult(w) PROVE PendingInHand'
    BY <1>4, ResultCases DEF PendingInHand
  <1>5. ASSUME NEW w \in Workers, SocketBroken(w) PROVE PendingInHand'
    BY <1>5, PoolConstants DEF SocketBroken, PendingInHand
  <1>6. ASSUME NEW w \in Workers, Answer(w) \/ WorkerDies(w) PROVE PendingInHand'
    BY <1>6, WorkerCases DEF masterVars, PendingInHand
  <1>7. CASE wproc_destroy \/ free_worker_memory \/ Finished \/ UNCHANGED vars
    BY <1>7 DEF wproc_destroy, free_worker_memory, Finished, vars, PendingInHand
  <1> QED BY <1>1, <1>2, <1>3, <1>4, <1>5, <1>6, <1>7 DEF Next

\* The workers that neither registration nor a broken socket is about.
LEMMA ConnectedSame ==
    ASSUME UNCHANGED <<worker, breaking>> PROVE Connected' = Connected
  BY DEF Connected

LEMMA OthersConnected ==
    ASSUME TypeOK, NEW j \in Jobs, Submit(j) \/ Reassigning(j)
    PROVE  UNCHANGED <<lists, online, worker, breaking>>
  <1>1. CASE Submit(j)
    BY <1>1 DEF Submit, create_job, create_jobFails, create_jobChoked
  <1>2. CASE Reassigning(j)
    BY <1>2 DEF Reassigning, Reassign, ReassignFails
  <1> QED BY <1>1, <1>2

LEMMA ResultConnected ==
    ASSUME NEW w \in Workers, HandleResult(w)
    PROVE  UNCHANGED <<lists, online, worker, breaking>>
  BY DEF HandleResult, ResultHandled, ResultUnknown, masterVars

LEMMA ConnectedType ==
    Connected \in SUBSET Workers /\ IsFiniteSet(Connected) /\ Cardinality(Connected) \in Nat
  <1>1. Connected \in SUBSET Workers
    BY DEF Connected
  <1> QED BY <1>1, PoolConstants, FS_Subset, FS_CardinalityType

\* The count of workers is exact through registration, deaths, broken sockets
\* and restarts.
LEMMA NextOnline ==
    ASSUME TypeOK, OnlineExact, UpListed, [Next]_vars
    PROVE  OnlineExact'
  <1>1. ASSUME UNCHANGED <<online, worker, breaking>> PROVE OnlineExact'
    BY <1>1, ConnectedSame DEF OnlineExact
  <1>2. ASSUME NEW j \in Jobs, Submit(j) \/ Reassigning(j) PROVE OnlineExact'
    BY <1>1, <1>2, OthersConnected
  <1>3. ASSUME NEW w \in Workers, register_worker(w) PROVE OnlineExact'
    <2>1. /\ breaking = NoWorker /\ breaking' = NoWorker /\ worker[w] = "new"
          /\ worker' = [worker EXCEPT ![w] = "up"] /\ online' = online + 1
      BY <1>3 DEF register_worker, Idle
    <2>2. w \notin Connected
      BY <2>1 DEF Connected
    <2>3. Connected' = Connected \cup {w}
      BY <2>1, PoolConstants DEF TypeOK, Connected
    <2>4. Cardinality(Connected \cup {w}) = Cardinality(Connected) + 1
      BY <2>2, ConnectedType, FS_AddElement
    <2> QED BY <2>1, <2>3, <2>4 DEF OnlineExact
  <1>4. ASSUME NEW w \in Workers, HandleResult(w) PROVE OnlineExact'
    BY <1>1, <1>4, ResultConnected
  <1>5. ASSUME NEW w \in Workers, SocketBroken(w) PROVE OnlineExact'
    <2>1. /\ breaking = NoWorker /\ breaking' = w /\ worker[w] = "down"
          /\ worker' = worker /\ online' = online - 1
      BY <1>5 DEF SocketBroken, Idle
    <2>2. w \in Connected /\ Connected' = Connected \ {w}
      BY <2>1, PoolConstants DEF Connected
    <2>3. Cardinality(Connected \ {w}) = Cardinality(Connected) - 1
      BY <2>2, ConnectedType, FS_RemoveElement
    <2> QED BY <2>1, <2>2, <2>3 DEF OnlineExact
  <1>6. ASSUME NEW w \in Workers, Answer(w) PROVE OnlineExact'
    BY <1>1, <1>6 DEF Answer, WorkerAnswers, masterVars
  <1>7. ASSUME NEW w \in Workers, WorkerDies(w) PROVE OnlineExact'
    <2>1. /\ worker[w] = "up" /\ worker' = [worker EXCEPT ![w] = "down"]
          /\ UNCHANGED <<online, breaking>>
      BY <1>7 DEF WorkerDies, masterVars
    <2>2. Connected' = Connected
      BY <2>1 DEF TypeOK, Connected
    <2> QED BY <2>1, <2>2 DEF OnlineExact
  <1>8. CASE wproc_destroy
    <2>1. /\ breaking # NoWorker /\ breaking' = NoWorker /\ online' = online
          /\ worker' = [worker EXCEPT ![breaking] = "removed"]
      BY <1>8 DEF wproc_destroy
    <2>2. Connected' = Connected
      BY <2>1, PoolConstants DEF TypeOK, Connected
    <2> QED BY <2>1, <2>2 DEF OnlineExact
  <1>9. CASE free_worker_memory
    <2>1. /\ worker' = [w \in Workers |-> IF w \in Listed THEN "removed" ELSE worker[w]]
          /\ online' = 0 /\ UNCHANGED breaking
      BY <1>9 DEF free_worker_memory
    <2>2. Connected' = {}
      BY <2>1 DEF UpListed, Connected
    <2> QED BY <2>1, <2>2, FS_EmptySet DEF OnlineExact
  <1>10. CASE Finished \/ UNCHANGED vars
    BY <1>1, <1>10 DEF Finished, vars
  <1> QED BY <1>2, <1>3, <1>4, <1>5, <1>6, <1>7, <1>8, <1>9, <1>10 DEF Next

\* Taking one worker out of a list keeps the others.
LEMMA WithoutKeeps ==
    ASSUME NEW s \in Seq(Workers), NEW w \in Workers, NEW v \in Elements(s), v # w
    PROVE  v \in Elements(Without(s, w))
  <1> DEFINE i == CHOOSE n \in DOMAIN s : s[n] = w
             t == [k \in 1..(Len(s) - 1) |-> IF k < i THEN s[k] ELSE s[k + 1]]
  <1>1. CASE w \in Elements(s)
    <2>1. i \in 1..Len(s) /\ s[i] = w
      BY <1>1 DEF Elements
    <2> HIDE DEF i
    <2>2. PICK n \in 1..Len(s) : s[n] = v
      BY DEF Elements
    <2>3. n # i
      BY <2>1, <2>2
    <2>4. CASE n < i
      <3>1. n \in 1..(Len(s) - 1) /\ t[n] = v
        BY <2>1, <2>2, <2>4
      <3>2. Without(s, w) = t
        BY <1>1 DEF Without, i
      <3> QED BY <3>1, <3>2 DEF Elements
    <2>5. CASE n > i
      <3>1. n - 1 \in 1..(Len(s) - 1) /\ t[n - 1] = v
        BY <2>1, <2>2, <2>5
      <3>2. Without(s, w) = t
        BY <1>1 DEF Without, i
      <3> QED BY <3>1, <3>2 DEF Elements
    <2> QED BY <2>1, <2>2, <2>3, <2>4, <2>5
  <1>2. CASE w \notin Elements(s)
    BY <1>2 DEF Without
  <1> QED BY <1>1, <1>2

\* A connected worker is in a list: registration puts it there, and only its own
\* broken socket or a restart takes it out.
LEMMA NextListed ==
    ASSUME TypeOK, UpListed, [Next]_vars PROVE UpListed'
  <1>1. ASSUME Listed \subseteq Listed', Connected' \subseteq Connected PROVE UpListed'
    BY <1>1 DEF UpListed
  <1>2. ASSUME UNCHANGED lists, Connected' \subseteq Connected PROVE UpListed'
    BY <1>1, <1>2 DEF Listed
  <1>3. ASSUME NEW j \in Jobs, Submit(j) \/ Reassigning(j) PROVE UpListed'
    BY <1>2, <1>3, OthersConnected, ConnectedSame
  <1>4. ASSUME NEW w \in Workers, register_worker(w) PROVE UpListed'
    <2> DEFINE keys == IF Plugins[w] = <<>> THEN {Global} ELSE Elements(Plugins[w])
    <2>1. /\ worker' = [worker EXCEPT ![w] = "up"] /\ breaking' = breaking
          /\ lists' = [k \in ListKeys |-> IF k \in keys THEN Append(lists[k], w) ELSE lists[k]]
      BY <1>4 DEF register_worker
    <2>2. PICK key \in ListKeys : key \in keys
      <3>1. Plugins[w] \in Seq(Commands)
        BY PoolConstants
      <3>2. CASE Plugins[w] = <<>>
        BY <3>2 DEF ListKeys
      <3>3. CASE Plugins[w] # <<>>
        <4>1. 1 \in DOMAIN Plugins[w] /\ Plugins[w][1] \in Commands
          BY <3>1, <3>3
        <4>2. Plugins[w][1] \in keys
          BY <3>3, <4>1 DEF Elements
        <4> QED BY <4>1, <4>2 DEF ListKeys
      <3> QED BY <3>2, <3>3
    <2> HIDE DEF keys
    <2>3. \A k \in ListKeys : lists[k] \in Seq(Workers)
      BY DEF TypeOK
    <2>4. \A k \in ListKeys : Elements(lists[k]) \subseteq Elements(lists'[k])
      <3> SUFFICES ASSUME NEW k \in ListKeys PROVE Elements(lists[k]) \subseteq Elements(lists'[k])
        OBVIOUS
      <3>1. CASE k \in keys
        <4>1. lists'[k] = Append(lists[k], w)
          BY <2>1, <3>1
        <4>2. \A n \in 1..Len(lists[k]) : n \in 1..Len(lists'[k]) /\ lists'[k][n] = lists[k][n]
          BY <2>3, <4>1
        <4>3. DOMAIN lists[k] = 1..Len(lists[k]) /\ DOMAIN lists'[k] = 1..Len(lists'[k])
          BY <2>3, <4>1
        <4> QED BY <4>2, <4>3 DEF Elements
      <3>2. CASE k \notin keys
        BY <2>1, <3>2
      <3> QED BY <3>1, <3>2
    <2>5. w \in Elements(lists'[key])
      <3>1. lists'[key] = Append(lists[key], w)
        BY <2>1, <2>2
      <3>2. Len(lists[key]) + 1 \in DOMAIN lists'[key] /\ lists'[key][Len(lists[key]) + 1] = w
        BY <2>3, <3>1
      <3> QED BY <3>2 DEF Elements
    <2>6. Listed \subseteq Listed' /\ w \in Listed'
      BY <2>4, <2>5 DEF Listed
    <2>7. Connected' \subseteq Connected \cup {w}
      BY <2>1 DEF TypeOK, Connected
    <2> QED BY <2>6, <2>7 DEF UpListed
  <1>5. ASSUME NEW w \in Workers, HandleResult(w) PROVE UpListed'
    BY <1>2, <1>5, ResultConnected, ConnectedSame
  <1>6. ASSUME NEW w \in Workers, SocketBroken(w) PROVE UpListed'
    <2>1. /\ breaking = NoWorker /\ breaking' = w /\ worker' = worker
          /\ lists' = [lists EXCEPT ![wp_list(w)] = Without(@, w)]
      BY <1>6 DEF SocketBroken, Idle
    <2>2. Connected' \subseteq Connected \ {w}
      BY <2>1, PoolConstants DEF Connected
    <2>3. ASSUME NEW v \in Connected' PROVE v \in Listed'
      <3>1. v \in Listed /\ v # w
        BY <2>2 DEF UpListed
      <3>2. PICK k \in ListKeys : v \in Elements(lists[k])
        BY <3>1 DEF Listed
      <3>3. lists[k] \in Seq(Workers)
        BY DEF TypeOK
      <3>4. v \in Elements(Without(lists[k], w))
        BY <3>1, <3>2, <3>3, WithoutKeeps
      <3>5. lists'[k] = Without(lists[k], w) \/ lists'[k] = lists[k]
        BY <2>1 DEF TypeOK
      <3>6. v \in Elements(lists'[k])
        BY <3>2, <3>4, <3>5
      <3> QED BY <3>6 DEF Listed
    <2> QED BY <2>3 DEF UpListed
  <1>7. ASSUME NEW w \in Workers, Answer(w) PROVE UpListed'
    BY <1>2, <1>7, ConnectedSame DEF Answer, WorkerAnswers, masterVars
  <1>8. ASSUME NEW w \in Workers, WorkerDies(w) PROVE UpListed'
    <2>1. /\ worker[w] = "up" /\ worker' = [worker EXCEPT ![w] = "down"]
          /\ UNCHANGED <<lists, breaking>>
      BY <1>8 DEF WorkerDies, masterVars
    <2>2. Connected' \subseteq Connected
      BY <2>1 DEF TypeOK, Connected
    <2> QED BY <1>2, <2>1, <2>2
  <1>9. CASE wproc_destroy
    <2>1. /\ breaking # NoWorker /\ breaking' = NoWorker /\ lists' = lists
          /\ worker' = [worker EXCEPT ![breaking] = "removed"]
      BY <1>9 DEF wproc_destroy
    <2>2. Connected' \subseteq Connected
      BY <2>1, PoolConstants DEF TypeOK, Connected
    <2> QED BY <1>2, <2>1, <2>2
  <1>10. CASE free_worker_memory
    <2>1. /\ worker' = [w \in Workers |-> IF w \in Listed THEN "removed" ELSE worker[w]]
          /\ UNCHANGED breaking
      BY <1>10 DEF free_worker_memory
    <2>2. Connected' = {}
      BY <2>1 DEF UpListed, Connected
    <2> QED BY <2>2 DEF UpListed
  <1>11. CASE Finished \/ UNCHANGED vars
    BY <1>2, <1>11, ConnectedSame DEF Finished, vars
  <1> QED BY <1>3, <1>4, <1>5, <1>6, <1>7, <1>8, <1>9, <1>10, <1>11 DEF Next

LEMMA InitLoadInv == Init => LoadInv
  <1> SUFFICES ASSUME Init PROVE LoadInv
    OBVIOUS
  <1>1. InHand = {} /\ Doubled = {} /\ Leftover = {} /\ Unsent = {}
    BY DEF Init, InHand, Tabled, Doubled, Leftover, Unsent
  <1>2. Load = 0
    BY <1>1, FS_EmptySet DEF Load
  <1>3. 0 % UIntSize = 0
    <2>1. 0 * UIntSize + 0 = 0 /\ 0 \in 0..(UIntSize - 1)
      BY PoolConstants
    <2> QED BY <2>1, PoolConstants, RemainderUnique
  <1>4. LoadExact
    BY <1>2, <1>3 DEF Init, LoadExact
  <1>5. Connected = {}
    BY DEF Init, Connected
  <1>6. OnlineExact
    BY <1>5, FS_EmptySet DEF Init, OnlineExact
  <1> QED BY <1>4, <1>5, <1>6 DEF Init, LoadInv, UpListed, PendingInHand

\* What loadctl.jobs_running counts at any moment, whatever the width of the
\* counter: a job given to another worker counts twice from then on, one left
\* without a worker once, a failed write minus one; and
\* wproc_num_workers_online counts the connected workers (create_job,
\* wproc_run_job, destroy_job, fo_reassign_wproc_job, free_worker_memory).
THEOREM PoolLoadAccounting == Spec => []LoadAccounting
  <1>1. PoolInv /\ LoadInv /\ [Next]_vars => LoadInv'
    BY NextLoad, NextOnline, NextListed, NextPending DEF PoolInv, LoadInv
  <1>2. LoadInv => LoadAccounting
    <2> SUFFICES ASSUME LoadInv PROVE LoadAccounting
      OBVIOUS
    <2>1. Stranded(FALSE) = Doubled
      BY DEF Stranded, Doubled, InHand
    <2>2. Stranded(TRUE) = Leftover
      BY DEF Stranded, Leftover, InHand
    <2> QED BY <2>1, <2>2 DEF LoadInv, LoadExact, Load, InHand, Unsent, OnlineExact, Connected,
                              LoadAccounting
  <1> QED BY InitLoadInv, PoolInvariant, <1>1, <1>2, PTL DEF Spec
=============================================================================
