---------------------------- MODULE LibraryProofs ----------------------------
(***************************************************************************)
(* Proofs about the two parts of lib/ that hold state of their own: the    *)
(* worker process (module Worker), for any finite set of jobs and any      *)
(* timeouts, and the queue of timed events (module PriorityQueue), for any *)
(* events and priorities.                                                  *)
(*                                                                         *)
(* The inductive invariant of Worker is the conjunction of TypeOK, the     *)
(* relation between structs and children (StructMatchesChild), the         *)
(* relation between structs and responses (OneAnswerThenForget) and the    *)
(* agreement of the counter with the queue (QueueCountAgrees).             *)
(* OneAnswerThenForget alone is not inductive: that reap_jobs and          *)
(* gather_output find an unanswered job needs to know which jobs have a    *)
(* child and open descriptors.                                             *)
(*                                                                         *)
(* While a loop of PriorityQueue runs, the event it moves is taken to be   *)
(* in the hole; the heap is then in order but for that one event, which    *)
(* may come too late for its parent (mode "up") or for its children (mode  *)
(* "down").                                                                *)
(***************************************************************************)
EXTENDS Worker, PriorityQueue, FiniteSetTheorems, SequenceTheorems, WellFoundedInduction, TLAPS

WorkerInv == TypeOK /\ StructMatchesChild /\ OneAnswerThenForget /\ QueueCountAgrees

-----------------------------------------------------------------------------
\* Writing one more response adds its job to the answered ones, and keeps the
\* responses of distinct jobs apart if the job had none.
LEMMA AppendAnswer ==
    ASSUME TypeOK, NEW j \in Jobs, NEW r \in Reasons,
           outbox' = Append(outbox, [job |-> j, reason |-> r])
    PROVE  /\ outbox' \in Seq([job : Jobs, reason : Reasons])
           /\ Answered' = Answered \cup {j}
           /\ (/\ j \notin Answered
               /\ \A i, k \in DOMAIN outbox : outbox[i].job = outbox[k].job => i = k)
              => \A i, k \in DOMAIN outbox' : outbox'[i].job = outbox'[k].job => i = k
  <1> DEFINE e == [job |-> j, reason |-> r]
  <1>1. /\ outbox' \in Seq([job : Jobs, reason : Reasons])
        /\ DOMAIN outbox = 1..Len(outbox)
        /\ Len(outbox) \in Nat
        /\ DOMAIN outbox' = 1..(Len(outbox) + 1)
        /\ \A i \in DOMAIN outbox : outbox'[i] = outbox[i]
        /\ outbox'[Len(outbox) + 1] = e
    BY DEF TypeOK
  <1>2. e.job = j
    OBVIOUS
  <1> HIDE DEF e
  <1>3. Answered' = Answered \cup {j}
    BY <1>1, <1>2 DEF Answered
  <1>4. ASSUME j \notin Answered,
               \A i, k \in DOMAIN outbox : outbox[i].job = outbox[k].job => i = k
        PROVE  \A i, k \in DOMAIN outbox' : outbox'[i].job = outbox'[k].job => i = k
    BY <1>1, <1>2, <1>4 DEF Answered
  <1> QED BY <1>1, <1>3, <1>4

\* The queue is finite, and an entry added or removed changes its size by one.
LEMMA QueueFinite == IsFiniteSet(Queued) /\ Cardinality(Queued) \in Nat
  BY JobsFinite, FS_Subset, FS_CardinalityType DEF Queued

\* Every way the process ends is exit_worker: in full, or until it kills itself.
LEMMA EndSteps ==
    ASSUME ReadsEof \/ \E j \in Jobs : Ends(j)
    PROVE  /\ pc \notin Ended
           /\ \/ exit_worker("exited", Queued)
              \/ \E j \in inbox, killed \in SUBSET Queued :
                    /\ exit_worker("killed", killed)
                    /\ \A k \in Queued \ killed : ~(timer[k] < JobTimeout[j])
  <1>1. CASE ReadsEof
    BY <1>1 DEF ReadsEof, Ended
  <1>2. ASSUME NEW j \in Jobs, WriteFails(j) \/ RefusalFails(j)
        PROVE  pc \notin Ended /\ exit_worker("exited", Queued)
    BY <1>2 DEF WriteFails, WritesAbout, RefusalFails, Ended
  <1>3. ASSUME NEW j \in Jobs, RefusalKillsItself(j)
        PROVE  /\ pc \notin Ended /\ j \in inbox
               /\ \E killed \in SUBSET Queued :
                    /\ exit_worker("killed", killed)
                    /\ \A k \in Queued \ killed : ~(timer[k] < JobTimeout[j])
    BY <1>3 DEF RefusalKillsItself, Ended
  <1> QED BY <1>1, <1>2, <1>3 DEF Ends

-----------------------------------------------------------------------------
\* Types.
LEMMA FinishType ==
    ASSUME TypeOK, NEW j \in Jobs, NEW r \in Reasons, finish_job(j, r)
    PROVE  /\ outbox' \in Seq([job : Jobs, reason : Reasons])
           /\ fdsOpen' \in [Jobs -> BOOLEAN]
  <1>1. outbox' \in Seq([job : Jobs, reason : Reasons])
    BY AppendAnswer DEF finish_job
  <1>2. fdsOpen' \in [Jobs -> BOOLEAN]
    BY DEF finish_job, TypeOK
  <1> QED BY <1>1, <1>2

LEMMA DestroyType ==
    ASSUME TypeOK, NEW j \in Jobs, destroy_job(j)
    PROVE  /\ cp' \in [Jobs -> {"none", "intime", "ESTALE", "freed", "abandoned"}]
           /\ timer' \in [Jobs -> Nat \cup {-1}]
           /\ running_jobs' \in Int
  BY DEF destroy_job, TypeOK

LEMMA WaitPidType ==
    ASSUME TypeOK, NEW j \in Jobs, WaitPid(j)
    PROVE  child' \in [Jobs -> ChildStates]
  BY DEF WaitPid, TypeOK, ChildStates

LEMMA InitTypeOK == Init => TypeOK
  BY DEF Init, TypeOK, ChildStates, Reasons, Ended

LEMMA NextTypeOK == TypeOK /\ [Next]_vars => TypeOK'
  <1> SUFFICES ASSUME TypeOK, [Next]_vars PROVE TypeOK'
    OBVIOUS
  <1> USE WorkerTimes DEF Ended
  <1>1. CASE Loop
    <2>1. CASE TimeoutsDone \/ PollDone \/ NothingToReap
      BY <2>1 DEF TypeOK, TimeoutsDone, PollDone, NothingToReap
    <2>2. ASSUME NEW j \in Jobs, ReapChild(j) PROVE TypeOK'
      <3>1. /\ outbox' \in Seq([job : Jobs, reason : Reasons])
            /\ fdsOpen' \in [Jobs -> BOOLEAN]
        <4>1. CASE cp[j] # "ESTALE"
          BY <2>2, <4>1, FinishType DEF ReapChild, Reasons
        <4>2. CASE cp[j] = "ESTALE"
          BY <2>2, <4>2 DEF ReapChild, TypeOK
        <4> QED BY <4>1, <4>2
      <3> QED BY <2>2, <3>1, DestroyType, WaitPidType DEF TypeOK, ReapChild
    <2> QED BY <1>1, <2>1, <2>2 DEF Loop
  <1>2. CASE Exited \/ Tick \/ MasterCloses
    BY <1>2 DEF TypeOK, Exited, Tick, MasterCloses, vars, workerVars, ChildStates
  <1>5. ASSUME NEW end \in Ended, NEW killed \in SUBSET Jobs, exit_worker(end, killed)
        PROVE  TypeOK'
    BY <1>5 DEF TypeOK, exit_worker, ChildStates
  <1>6. CASE ReadsEof \/ \E j \in Jobs : Ends(j)
    BY <1>5, <1>6, EndSteps DEF Queued
  <1>3. ASSUME NEW j \in Jobs,
               TimedOut(j) \/ RetryReap(j) \/ ReceiveCommand(j) \/ GatherOutput(j) \/ Environment(j)
        PROVE TypeOK'
    <2>1. CASE CompletedAtTimeout(j) \/ OutputClosed(j)
      <3>1. check_completion(j) /\ UNCHANGED <<pc, reapable, socket, inbox>>
        BY <2>1 DEF CompletedAtTimeout, OutputClosed
      <3> QED BY <3>1, FinishType, DestroyType, WaitPidType DEF TypeOK, check_completion, Reasons
    <2>2. CASE KilledAtTimeout(j)
      <3>1. /\ outbox' \in Seq([job : Jobs, reason : Reasons])
            /\ fdsOpen' \in [Jobs -> BOOLEAN]
        BY <2>2, FinishType DEF KilledAtTimeout, Reasons
      <3> QED BY <2>2, <3>1, DestroyType, WaitPidType DEF TypeOK, KilledAtTimeout
    <2>3. CASE StaleAtTimeout(j)
      <3>1. /\ outbox' \in Seq([job : Jobs, reason : Reasons])
            /\ fdsOpen' \in [Jobs -> BOOLEAN]
        BY <2>3, FinishType DEF StaleAtTimeout, Reasons
      <3>2. /\ child' \in [Jobs -> ChildStates]
            /\ cp' \in [Jobs -> {"none", "intime", "ESTALE", "freed", "abandoned"}]
            /\ timer' \in [Jobs -> Nat \cup {-1}]
        BY <2>3 DEF TypeOK, StaleAtTimeout, ChildStates
      <3> QED BY <2>3, <3>1, <3>2 DEF TypeOK, StaleAtTimeout
    <2>8. CASE DormantReaped(j)
      BY <2>8, DestroyType, WaitPidType DEF TypeOK, DormantReaped
    <2>9. CASE StillDormant(j)
      BY <2>9 DEF TypeOK, StillDormant
    <2>4. CASE SpawnJob(j)
      BY <2>4 DEF TypeOK, SpawnJob, ChildStates
    <2>5. CASE SpawnFailed(j)
      <3>1. outbox' \in Seq([job : Jobs, reason : Reasons])
        BY <2>5, AppendAnswer DEF SpawnFailed, Reasons
      <3> QED BY <2>5, <3>1 DEF TypeOK, SpawnFailed
    <2>6. CASE OutputClosedEarly(j)
      BY <2>6 DEF TypeOK, OutputClosedEarly
    <2>7. CASE Environment(j)
      <3>1. CASE MasterSends(j)
        BY <3>1 DEF TypeOK, MasterSends, workerVars
      <3>2. CASE ChildExits(j)
        BY <3>2 DEF TypeOK, ChildExits, ChildStates
      <3>3. CASE ChildSticks(j)
        BY <3>3 DEF TypeOK, ChildSticks, workerVars, ChildStates
      <3> QED BY <2>7, <3>1, <3>2, <3>3 DEF Environment
    <2> QED BY <1>3, <2>1, <2>2, <2>3, <2>4, <2>5, <2>6, <2>7, <2>8, <2>9
            DEF TimedOut, RetryReap, ReceiveCommand, GatherOutput
  <1>4. CASE UNCHANGED vars
    BY <1>4 DEF TypeOK, vars
  <1> QED BY <1>1, <1>2, <1>3, <1>4, <1>6 DEF Next

-----------------------------------------------------------------------------
\* Structs and children.  An action on one job leaves the others alone, so each
\* case is about the job acted on, except for the two that touch every job.
LEMMA InitStruct == Init => StructMatchesChild
  BY DEF Init, StructMatchesChild, Ended

LEMMA NextStruct == TypeOK /\ StructMatchesChild /\ [Next]_vars => StructMatchesChild'
  <1> SUFFICES ASSUME TypeOK, StructMatchesChild, [Next]_vars
               PROVE StructMatchesChild'
    OBVIOUS
  <1> USE DEF Ended
  <1>1. CASE Loop
    <2>1. CASE TimeoutsDone \/ PollDone \/ NothingToReap
      BY <2>1 DEF StructMatchesChild, TimeoutsDone, PollDone, NothingToReap
    <2>2. ASSUME NEW j \in Jobs, ReapChild(j) PROVE StructMatchesChild'
      <3>1. CASE cp[j] # "ESTALE"
        BY <2>2, <3>1 DEF TypeOK, StructMatchesChild, ReapChild, Reapable, WaitPid, finish_job, destroy_job
      <3>2. CASE cp[j] = "ESTALE"
        BY <2>2, <3>2 DEF TypeOK, StructMatchesChild, ReapChild, Reapable, WaitPid, destroy_job
      <3> QED BY <3>1, <3>2
    <2> QED BY <1>1, <2>1, <2>2 DEF Loop
  <1>2. ASSUME NEW end \in Ended, NEW killed \in SUBSET Queued, exit_worker(end, killed),
               pc \notin Ended, end = "killed" \/ killed = Queued
        PROVE  StructMatchesChild'
    BY <1>2 DEF TypeOK, StructMatchesChild, exit_worker, Queued
  <1>5. CASE ReadsEof \/ \E j \in Jobs : Ends(j)
    BY <1>2, <1>5, EndSteps DEF Ended
  <1>3. CASE Exited \/ Tick \/ MasterCloses \/ UNCHANGED vars
    BY <1>3 DEF StructMatchesChild, Exited, Tick, MasterCloses, vars, workerVars
  <1>4. ASSUME NEW j \in Jobs,
               TimedOut(j) \/ RetryReap(j) \/ ReceiveCommand(j) \/ GatherOutput(j) \/ Environment(j)
        PROVE StructMatchesChild'
    <2> USE DEF TypeOK, StructMatchesChild
    <2>1. CASE CompletedAtTimeout(j) \/ OutputClosed(j)
      <3>1. check_completion(j) /\ UNCHANGED <<pc, reapable, inbox>>
        BY <2>1 DEF CompletedAtTimeout, OutputClosed
      <3>2. pc \notin Ended
        BY <2>1 DEF CompletedAtTimeout, OutputClosed
      <3> QED BY <3>1, <3>2 DEF check_completion, Reapable, WaitPid, finish_job, destroy_job
    <2>2. CASE KilledAtTimeout(j)
      BY <2>2 DEF KilledAtTimeout, WaitPid, finish_job, destroy_job
    <2>3. CASE StaleAtTimeout(j)
      BY <2>3 DEF StaleAtTimeout, finish_job
    <2>4. CASE DormantReaped(j)
      BY <2>4 DEF DormantReaped, WaitPid, destroy_job
    <2>5. CASE StillDormant(j)
      BY <2>5 DEF StillDormant
    <2>6. CASE SpawnJob(j)
      BY <2>6 DEF SpawnJob
    <2>7. CASE SpawnFailed(j)
      BY <2>7 DEF SpawnFailed
    <2>8. CASE OutputClosedEarly(j)
      BY <2>8 DEF OutputClosedEarly
    <2>9. CASE Environment(j)
      BY <2>9 DEF Environment, MasterSends, ChildExits, ChildSticks, workerVars
    <2> QED BY <1>4, <2>1, <2>2, <2>3, <2>4, <2>5, <2>6, <2>7, <2>8, <2>9
            DEF TimedOut, RetryReap, ReceiveCommand, GatherOutput
  <1> QED BY <1>1, <1>3, <1>4, <1>5 DEF Next

-----------------------------------------------------------------------------
\* Responses.  A step that answers finds the job unanswered and leaves it stale
\* or freed; any other step leaves the responses alone and moves no struct
\* between the answered and the unanswered states.
LEMMA InitAnswers == Init => OneAnswerThenForget
  BY DEF Init, OneAnswerThenForget, Answered

LEMMA AnsweringStep ==
    ASSUME TypeOK, OneAnswerThenForget, NEW j \in Jobs, NEW r \in Reasons,
           outbox' = Append(outbox, [job |-> j, reason |-> r]),
           cp[j] \in {"none", "intime"},
           NEW v \in {"ESTALE", "freed"}, cp' = [cp EXCEPT ![j] = v]
    PROVE  OneAnswerThenForget'
  <1>1. j \notin Answered
    BY DEF OneAnswerThenForget
  <1>2. Answered' = Answered \cup {j}
    BY AppendAnswer
  <1>3. \A i, k \in DOMAIN outbox' : outbox'[i].job = outbox'[k].job => i = k
    BY <1>1, AppendAnswer DEF OneAnswerThenForget
  <1>4. \A k \in Jobs : cp'[k] # "abandoned" =>
            (k \in Answered' <=> cp'[k] \in {"ESTALE", "freed"})
    BY <1>2 DEF OneAnswerThenForget, TypeOK
  <1> QED BY <1>3, <1>4 DEF OneAnswerThenForget

LEMMA SilentStep ==
    ASSUME TypeOK, OneAnswerThenForget, UNCHANGED outbox,
           \A j \in Jobs : \/ cp'[j] = cp[j]
                           \/ cp'[j] = "abandoned"
                           \/ cp[j] = "none" /\ cp'[j] = "intime"
                           \/ cp[j] = "ESTALE" /\ cp'[j] = "freed"
    PROVE  OneAnswerThenForget'
  <1>1. Answered' = Answered
    BY DEF Answered
  <1> QED BY <1>1 DEF OneAnswerThenForget

LEMMA NextAnswers ==
    TypeOK /\ StructMatchesChild /\ OneAnswerThenForget /\ [Next]_vars => OneAnswerThenForget'
  <1> SUFFICES ASSUME TypeOK, StructMatchesChild, OneAnswerThenForget, [Next]_vars
               PROVE OneAnswerThenForget'
    OBVIOUS
  <1> USE DEF Ended
  <1>1. CASE Loop
    <2>1. CASE TimeoutsDone \/ PollDone \/ NothingToReap
      BY <2>1, SilentStep DEF TimeoutsDone, PollDone, NothingToReap
    <2>2. ASSUME NEW j \in Jobs, ReapChild(j) PROVE OneAnswerThenForget'
      <3>1. CASE cp[j] # "ESTALE"
        <4>1. cp[j] = "intime"
          BY <2>2, <3>1 DEF TypeOK, StructMatchesChild, ReapChild, Reapable
        <4> QED BY <2>2, <3>1, <4>1, AnsweringStep DEF ReapChild, finish_job, destroy_job, Reasons
      <3>2. CASE cp[j] = "ESTALE"
        <4>1. UNCHANGED outbox /\ cp' = [cp EXCEPT ![j] = "freed"]
          BY <2>2, <3>2 DEF ReapChild, destroy_job
        <4> QED BY <4>1, <3>2, SilentStep DEF TypeOK
      <3> QED BY <3>1, <3>2
    <2> QED BY <1>1, <2>1, <2>2 DEF Loop
  <1>2. CASE Exited \/ Tick \/ MasterCloses \/ UNCHANGED vars
    BY <1>2, SilentStep DEF Exited, Tick, MasterCloses, vars, workerVars
  <1>4. ASSUME NEW end, NEW killed, exit_worker(end, killed) PROVE OneAnswerThenForget'
    BY <1>4, SilentStep DEF exit_worker
  <1>3. ASSUME NEW j \in Jobs,
               TimedOut(j) \/ RetryReap(j) \/ ReceiveCommand(j) \/ GatherOutput(j) \/ Environment(j)
        PROVE OneAnswerThenForget'
    <2>1. CASE CompletedAtTimeout(j) \/ OutputClosed(j)
      <3>1. check_completion(j) /\ cp[j] = "intime"
        BY <2>1 DEF CompletedAtTimeout, OutputClosed, StructMatchesChild
      <3> QED BY <3>1, AnsweringStep DEF check_completion, finish_job, destroy_job, Reasons
    <2>2. CASE KilledAtTimeout(j)
      BY <2>2, AnsweringStep DEF KilledAtTimeout, finish_job, destroy_job, Reasons
    <2>3. CASE StaleAtTimeout(j)
      BY <2>3, AnsweringStep DEF StaleAtTimeout, finish_job, Reasons
    <2>4. CASE DormantReaped(j)
      BY <2>4, SilentStep DEF DormantReaped, destroy_job, TypeOK
    <2>5. CASE StillDormant(j) \/ OutputClosedEarly(j) \/ Environment(j)
      BY <2>5, SilentStep DEF StillDormant, OutputClosedEarly, Environment, MasterSends, ChildExits, ChildSticks, workerVars
    <2>6. CASE SpawnJob(j)
      <3>1. UNCHANGED outbox /\ cp' = [cp EXCEPT ![j] = "intime"] /\ cp[j] = "none"
        BY <2>6 DEF SpawnJob, StructMatchesChild
      <3> QED BY <3>1, SilentStep DEF TypeOK
    <2>7. CASE SpawnFailed(j)
      <3>1. cp[j] = "none"
        BY <2>7 DEF SpawnFailed, StructMatchesChild
      <3> QED BY <2>7, <3>1, AnsweringStep DEF SpawnFailed, Reasons
    <2> QED BY <1>3, <2>1, <2>2, <2>3, <2>4, <2>5, <2>6, <2>7
            DEF TimedOut, RetryReap, ReceiveCommand, GatherOutput
  <1> QED BY <1>1, <1>2, <1>3, <1>4, EndSteps DEF Next

-----------------------------------------------------------------------------
\* The counter.
LEMMA InitCount == Init => QueueCountAgrees
  <1> SUFFICES ASSUME Init PROVE QueueCountAgrees
    OBVIOUS
  <1>1. Queued = {}
    BY DEF Init, Queued
  <1> QED BY <1>1, FS_EmptySet DEF Init, QueueCountAgrees

\* A step that neither queues nor frees a job keeps the count right ...
LEMMA SameQueue ==
    ASSUME QueueCountAgrees, pc' \in Ended \/ (pc \notin Ended /\ Queued' = Queued),
           pc' \notin Ended => UNCHANGED running_jobs
    PROVE  QueueCountAgrees'
  BY DEF QueueCountAgrees

\* ... and so does one that destroys a queued job.
LEMMA DestroyCount ==
    ASSUME TypeOK, QueueCountAgrees, NEW j \in Queued, destroy_job(j), pc \notin Ended
    PROVE  QueueCountAgrees'
  <1>1. Queued' = Queued \ {j}
    BY DEF Queued, destroy_job, TypeOK
  <1>2. Cardinality(Queued') = Cardinality(Queued) - 1
    BY <1>1, QueueFinite, FS_RemoveElement
  <1> QED BY <1>2, QueueFinite DEF QueueCountAgrees, destroy_job

LEMMA NextCount ==
    TypeOK /\ StructMatchesChild /\ QueueCountAgrees /\ [Next]_vars => QueueCountAgrees'
  <1> SUFFICES ASSUME TypeOK, StructMatchesChild, QueueCountAgrees, [Next]_vars
               PROVE QueueCountAgrees'
    OBVIOUS
  <1> USE DEF Ended
  <1>1. CASE Loop
    <2>1. CASE TimeoutsDone \/ PollDone \/ NothingToReap
      BY <2>1, SameQueue DEF TimeoutsDone, PollDone, NothingToReap, Queued
    <2>2. ASSUME NEW j \in Jobs, ReapChild(j) PROVE QueueCountAgrees'
      <3>1. j \in Queued
        BY <2>2 DEF TypeOK, StructMatchesChild, ReapChild, Reapable, Queued
      <3> QED BY <2>2, <3>1, DestroyCount DEF ReapChild
    <2> QED BY <1>1, <2>1, <2>2 DEF Loop
  <1>2. ASSUME NEW end \in Ended, NEW killed, exit_worker(end, killed)
        PROVE  QueueCountAgrees'
    BY <1>2 DEF exit_worker, QueueCountAgrees
  <1>3. CASE Exited \/ Tick \/ MasterCloses \/ UNCHANGED vars
    <2>1. UNCHANGED <<pc, cp, running_jobs>>
      BY <1>3 DEF Exited, Tick, MasterCloses, vars, workerVars
    <2> QED BY <2>1 DEF QueueCountAgrees, Queued
  <1>4. ASSUME NEW j \in Jobs,
               TimedOut(j) \/ RetryReap(j) \/ ReceiveCommand(j) \/ GatherOutput(j) \/ Environment(j)
        PROVE QueueCountAgrees'
    <2>1. CASE CompletedAtTimeout(j) \/ OutputClosed(j)
      <3>1. check_completion(j) /\ pc \notin Ended /\ j \in Queued
        BY <2>1 DEF CompletedAtTimeout, OutputClosed, StructMatchesChild, Queued
      <3> QED BY <3>1, DestroyCount DEF check_completion
    <2>2. CASE KilledAtTimeout(j)
      BY <2>2, DestroyCount DEF KilledAtTimeout, Queued
    <2>3. CASE StaleAtTimeout(j)
      <3>1. Queued' = Queued
        BY <2>3 DEF StaleAtTimeout, Queued, TypeOK
      <3> QED BY <2>3, <3>1, SameQueue DEF StaleAtTimeout
    <2>4. CASE DormantReaped(j)
      BY <2>4, DestroyCount DEF DormantReaped, Queued
    <2>5. CASE StillDormant(j) \/ OutputClosedEarly(j) \/ Environment(j)
      <3>1. UNCHANGED <<pc, cp, running_jobs>>
        BY <2>5 DEF StillDormant, OutputClosedEarly, Environment, MasterSends, ChildExits, ChildSticks, workerVars
      <3> QED BY <3>1 DEF QueueCountAgrees, Queued
    <2>6. CASE SpawnJob(j)
      <3>1. j \notin Queued /\ Queued' = Queued \cup {j}
        BY <2>6 DEF SpawnJob, Queued, TypeOK, StructMatchesChild
      <3>2. Cardinality(Queued') = Cardinality(Queued) + 1
        BY <3>1, QueueFinite, FS_AddElement
      <3> QED BY <2>6, <3>2 DEF SpawnJob, QueueCountAgrees
    <2>7. CASE SpawnFailed(j)
      <3>1. Queued' = Queued
        BY <2>7 DEF SpawnFailed, Queued, TypeOK, StructMatchesChild
      <3> QED BY <2>7, <3>1, SameQueue DEF SpawnFailed
    <2> QED BY <1>4, <2>1, <2>2, <2>3, <2>4, <2>5, <2>6, <2>7
            DEF TimedOut, RetryReap, ReceiveCommand, GatherOutput
  <1> QED BY <1>1, <1>2, <1>3, <1>4, EndSteps DEF Next

-----------------------------------------------------------------------------
\* Survivors.  Only the end of the process makes any, once.
LEMMA NextSurvivors ==
    TypeOK /\ StructMatchesChild /\ SurvivorsAreDueLater /\ [Next]_vars
    => SurvivorsAreDueLater'
  <1> SUFFICES ASSUME TypeOK, StructMatchesChild, SurvivorsAreDueLater, [Next]_vars
               PROVE  SurvivorsAreDueLater'
    OBVIOUS
  <1> USE DEF Ended
  <1>1. CASE ReadsEof \/ \E j \in Jobs : Ends(j)
    <2>1. CASE exit_worker("exited", Queued) /\ pc \notin Ended
      BY <2>1 DEF exit_worker, SurvivorsAreDueLater, Survives, TypeOK, StructMatchesChild, Queued
    <2>2. ASSUME NEW j \in inbox, NEW killed \in SUBSET Queued, exit_worker("killed", killed),
                 \A k \in Queued \ killed : ~(timer[k] < JobTimeout[j]), pc \notin Ended
          PROVE  SurvivorsAreDueLater'
      <3>1. ASSUME NEW k \in Jobs, Survives(k)' PROVE timer'[k] >= JobTimeout[j]
        <4>1. k \in Queued \ killed
          BY <2>2, <3>1 DEF exit_worker, Survives, TypeOK, StructMatchesChild, Queued
        <4>2. timer'[k] = timer[k] /\ timer[k] \in Int /\ JobTimeout[j] \in Int
          BY <2>2, WorkerTimes DEF exit_worker, TypeOK
        <4> QED BY <2>2, <4>1, <4>2
      <3> QED BY <2>2, <3>1 DEF exit_worker, SurvivorsAreDueLater
    <2> QED BY <1>1, <2>1, <2>2, EndSteps
  <1>2. CASE pc \notin Ended /\ ~(ReadsEof \/ \E j \in Jobs : Ends(j))
    <2>1. pc' \notin Ended
      BY <1>2 DEF Next, Loop, TimeoutsDone, PollDone, NothingToReap, ReapChild, Exited, Tick,
                  MasterCloses, vars, workerVars, TimedOut, CompletedAtTimeout,
                  KilledAtTimeout, StaleAtTimeout, RetryReap, DormantReaped, StillDormant,
                  ReceiveCommand, SpawnJob, SpawnFailed, GatherOutput, OutputClosed,
                  OutputClosedEarly, Environment, MasterSends, ChildExits, ChildSticks
    <2> QED BY <2>1 DEF SurvivorsAreDueLater, Ended
  <1>3. CASE pc \in Ended
    <2>1. UNCHANGED <<pc, timer, child>> /\ inbox \subseteq inbox'
      BY <1>3, EndSteps
         DEF Next, Loop, TimeoutsDone, PollDone, NothingToReap, ReapChild, Exited, Tick,
                  MasterCloses, vars, workerVars, TimedOut, CompletedAtTimeout,
                  KilledAtTimeout, StaleAtTimeout, RetryReap, DormantReaped, StillDormant,
                  ReceiveCommand, SpawnJob, SpawnFailed, GatherOutput, OutputClosed,
                  OutputClosedEarly, Environment, MasterSends, ChildExits, ChildSticks
    <2> QED BY <2>1 DEF SurvivorsAreDueLater, Survives
  <1> QED BY <1>1, <1>2, <1>3

-----------------------------------------------------------------------------
\* The invariant holds in every reachable state.
THEOREM WorkerInvariant == Spec => []WorkerInv
  <1>1. Init => WorkerInv
    BY InitTypeOK, InitStruct, InitAnswers, InitCount DEF WorkerInv
  <1>2. WorkerInv /\ [Next]_vars => WorkerInv'
    BY NextTypeOK, NextStruct, NextAnswers, NextCount DEF WorkerInv
  <1> QED BY <1>1, <1>2, PTL DEF Spec

\* Whatever the order in which end-of-file, SIGCHLD, the timeout and the reap
\* attempts of a stale child arrive, each job has exactly one response once the
\* worker has stopped caring for it, and none before (finish_job's callers).
THEOREM WorkerAnswersOnce == Spec => []OneAnswerThenForget
  BY WorkerInvariant, PTL DEF WorkerInv

\* destroy_job never frees the struct of a child that still has to be waited
\* for, and running_jobs is the length of the scheduling queue.
THEOREM WorkerKeepsTrack == Spec => [](StructMatchesChild /\ QueueCountAgrees)
  BY WorkerInvariant, PTL DEF WorkerInv

\* Types, for any number of jobs and any timeout (lib/worker.c): reapable is never
\* lowered below zero, and reap_jobs runs only while it is positive.
THEOREM WorkerTypes == Spec => []TypeOK
  BY WorkerInvariant, PTL DEF WorkerInv

\* Whichever read or write finds the master gone, exit_worker leaves no child
\* behind that a signal can reach, except those whose time would be up after
\* that of a command whose refusal could not be written: over such a command,
\* which has no pid yet, the worker kills itself before it comes to them.
THEOREM WorkerSurvivors == Spec => []SurvivorsAreDueLater
  <1>1. Init => SurvivorsAreDueLater
    BY DEF Init, SurvivorsAreDueLater
  <1>2. WorkerInv /\ SurvivorsAreDueLater /\ [Next]_vars => SurvivorsAreDueLater'
    BY NextSurvivors DEF WorkerInv
  <1> QED BY <1>1, <1>2, WorkerInvariant, PTL DEF Spec

-----------------------------------------------------------------------------
\* Refinement.  The mapping looks at one job at a time: each step is shown to
\* change the status of one job the way the contract allows, or of none.

\* A step that answers a job is the contract's Answer.
LEMMA AnswerRefines ==
    ASSUME WorkerInv, NEW j \in Jobs, NEW r \in Reasons,
           outbox' = Append(outbox, [job |-> j, reason |-> r]),
           StatusOf(j) = IF r = "error_msg" THEN "sent" ELSE "taken",
           inbox' \in {inbox, inbox \ {j}},
           \A k \in Jobs \ {j} : cp'[k] = cp[k]
    PROVE  Contract!CNext
  <1>1. Answered' = Answered \cup {j}
    BY AppendAnswer DEF WorkerInv
  <1>2. status' = [status EXCEPT ![j] = "answered"]
    <2>1. \A k \in Jobs \ {j} : StatusOf(k)' = StatusOf(k)
      BY <1>1 DEF StatusOf
    <2>2. StatusOf(j)' = "answered"
      BY <1>1 DEF StatusOf
    <2> QED BY <2>1, <2>2 DEF status
  <1>3. Contract!Answer(j)
    BY <1>2 DEF Contract!Answer, status
  <1> QED BY <1>3 DEF Contract!CNext

\* A step the master cannot see is a stuttering step.
LEMMA SilentRefines ==
    ASSUME UNCHANGED outbox, \A k \in Jobs : StatusOf(k)' = StatusOf(k)
    PROVE  UNCHANGED Contract!cvars
  BY DEF Contract!cvars, status

LEMMA NextRefines ==
    ASSUME WorkerInv, [Next]_vars
    PROVE  [Contract!CNext]_(Contract!cvars)
  <1> USE DEF WorkerInv, Ended
  <1>1. CASE Loop
    <2>1. CASE TimeoutsDone \/ PollDone \/ NothingToReap
      <3>1. UNCHANGED <<outbox, inbox, cp>>
        BY <2>1 DEF TimeoutsDone, PollDone, NothingToReap
      <3>2. \A k \in Jobs : StatusOf(k)' = StatusOf(k)
        BY <3>1 DEF StatusOf, Answered
      <3> QED BY <3>1, <3>2, SilentRefines
    <2>2. ASSUME NEW j \in Jobs, ReapChild(j) PROVE [Contract!CNext]_(Contract!cvars)
      <3>1. cp' = [cp EXCEPT ![j] = "freed"] /\ inbox' = inbox
        BY <2>2 DEF ReapChild, destroy_job
      <3>2. CASE cp[j] # "ESTALE"
        <4>1. cp[j] = "intime"
          BY <2>2, <3>2 DEF TypeOK, StructMatchesChild, ReapChild, Reapable
        <4>2. StatusOf(j) = "taken"
          BY <4>1 DEF StatusOf, StructMatchesChild, OneAnswerThenForget
        <4>3. outbox' = Append(outbox, [job |-> j, reason |-> "ok"])
          BY <2>2, <3>2 DEF ReapChild, finish_job
        <4> QED BY <3>1, <4>2, <4>3, AnswerRefines DEF TypeOK, Reasons
      <3>3. CASE cp[j] = "ESTALE"
        <4>1. UNCHANGED outbox
          BY <2>2, <3>3 DEF ReapChild
        <4>2. \A k \in Jobs : StatusOf(k)' = StatusOf(k)
          BY <3>1, <3>3, <4>1 DEF StatusOf, Answered, TypeOK
        <4> QED BY <4>1, <4>2, SilentRefines
      <3> QED BY <3>2, <3>3
    <2> QED BY <1>1, <2>1, <2>2 DEF Loop
  <1>2. ASSUME NEW end, NEW killed, exit_worker(end, killed)
        PROVE  [Contract!CNext]_(Contract!cvars)
    <2>1. /\ UNCHANGED <<outbox, inbox>>
          /\ \A k \in Jobs : cp'[k] = IF k \in Queued THEN "abandoned" ELSE cp[k]
      BY <1>2 DEF exit_worker
    <2>2. \A k \in Jobs : StatusOf(k)' = StatusOf(k)
      BY <1>2, <2>1 DEF exit_worker, StatusOf, Answered, Queued, TypeOK, OneAnswerThenForget
    <2> QED BY <2>1, <2>2, SilentRefines
  <1>3. CASE Exited \/ Tick \/ MasterCloses \/ UNCHANGED vars
    <2>1. UNCHANGED <<outbox, inbox, cp>>
      BY <1>3 DEF Exited, Tick, MasterCloses, vars, workerVars
    <2>2. \A k \in Jobs : StatusOf(k)' = StatusOf(k)
      BY <2>1 DEF StatusOf, Answered
    <2> QED BY <2>1, <2>2, SilentRefines
  <1>4. ASSUME NEW j \in Jobs,
               TimedOut(j) \/ RetryReap(j) \/ ReceiveCommand(j) \/ GatherOutput(j) \/ Environment(j)
        PROVE [Contract!CNext]_(Contract!cvars)
    <2>0. /\ cp[j] = "intime" => StatusOf(j) = "taken"
          /\ j \in inbox => StatusOf(j) = "sent"
      BY DEF StatusOf, StructMatchesChild, OneAnswerThenForget
    <2>1. CASE CompletedAtTimeout(j) \/ OutputClosed(j)
      <3>1. check_completion(j) /\ cp[j] = "intime" /\ inbox' = inbox
        BY <2>1 DEF CompletedAtTimeout, OutputClosed, StructMatchesChild
      <3> QED BY <2>0, <3>1, AnswerRefines
              DEF check_completion, finish_job, destroy_job, Reasons, TypeOK
    <2>2. CASE KilledAtTimeout(j)
      BY <2>0, <2>2, AnswerRefines
         DEF KilledAtTimeout, finish_job, destroy_job, Reasons, TypeOK
    <2>3. CASE StaleAtTimeout(j)
      BY <2>0, <2>3, AnswerRefines DEF StaleAtTimeout, finish_job, Reasons, TypeOK
    <2>4. CASE DormantReaped(j)
      <3>1. UNCHANGED <<outbox, inbox>> /\ cp' = [cp EXCEPT ![j] = "freed"] /\ cp[j] = "ESTALE"
        BY <2>4 DEF DormantReaped, destroy_job
      <3>2. \A k \in Jobs : StatusOf(k)' = StatusOf(k)
        BY <3>1 DEF StatusOf, Answered, TypeOK
      <3> QED BY <3>1, <3>2, SilentRefines
    <2>5. CASE StillDormant(j) \/ OutputClosedEarly(j) \/ ChildExits(j) \/ ChildSticks(j)
      <3>1. UNCHANGED <<outbox, inbox, cp>>
        BY <2>5 DEF StillDormant, OutputClosedEarly, ChildExits, ChildSticks, workerVars
      <3>2. \A k \in Jobs : StatusOf(k)' = StatusOf(k)
        BY <3>1 DEF StatusOf, Answered
      <3> QED BY <3>1, <3>2, SilentRefines
    <2>6. CASE SpawnJob(j)
      <3>1. UNCHANGED outbox /\ cp' = [cp EXCEPT ![j] = "intime"] /\ inbox' = inbox \ {j}
        BY <2>6 DEF SpawnJob
      <3>2. Answered' = Answered
        BY <3>1 DEF Answered
      <3>3. StatusOf(j) = "sent" /\ j \notin Answered
        BY <2>0, <2>6 DEF SpawnJob, StatusOf
      <3>4. StatusOf(j)' = "taken" /\ \A k \in Jobs \ {j} : StatusOf(k)' = StatusOf(k)
        BY <3>1, <3>2, <3>3 DEF StatusOf, TypeOK
      <3>5. Contract!Take(j)
        BY <3>1, <3>3, <3>4 DEF Contract!Take, status
      <3> QED BY <3>5 DEF Contract!CNext
    <2>7. CASE SpawnFailed(j)
      BY <2>0, <2>7, AnswerRefines DEF SpawnFailed, Reasons, TypeOK
    <2>8. CASE MasterSends(j)
      <3>1. UNCHANGED <<outbox, cp>> /\ inbox' = inbox \cup {j}
        BY <2>8 DEF MasterSends, workerVars
      <3>2. Answered' = Answered
        BY <3>1 DEF Answered
      <3>3. StatusOf(j) = "idle" /\ j \notin Answered
        BY <2>8 DEF MasterSends, StatusOf, OneAnswerThenForget
      <3>4. StatusOf(j)' = "sent" /\ \A k \in Jobs \ {j} : StatusOf(k)' = StatusOf(k)
        BY <3>1, <3>2, <3>3 DEF StatusOf
      <3>5. Contract!Send(j)
        BY <3>1, <3>3, <3>4 DEF Contract!Send, status
      <3> QED BY <3>5 DEF Contract!CNext
    <2> QED BY <1>4, <2>1, <2>2, <2>3, <2>4, <2>5, <2>6, <2>7, <2>8
            DEF TimedOut, RetryReap, ReceiveCommand, GatherOutput, Environment
  <1> QED BY <1>1, <1>2, <1>3, <1>4, EndSteps DEF Next

\* The worker process implements the contract the master relies on: seen from
\* the socket, every job is sent, taken and answered once, or refused once.
THEOREM WorkerImplementsContract == Spec => ImplementsContract
  <1>1. Init => Contract!CInit
    BY DEF Init, Contract!CInit, status, StatusOf, Answered
  <1>2. WorkerInv /\ [Next]_vars => [Contract!CNext]_(Contract!cvars)
    BY NextRefines
  <1> QED BY <1>1, <1>2, WorkerInvariant, PTL DEF Spec, ImplementsContract, Contract!CSpec

-----------------------------------------------------------------------------
\* The event of cell k, the one under way included.
Node(k) == IF hole = k THEN moving ELSE heap[k]

\* The cells and the queued events correspond.
OneCellEach ==
    /\ \A k \in Cells : Node(k) \in InQueue
    /\ \A j, k \in Cells : Node(j) = Node(k) => j = k
    /\ \A e \in InQueue : \E k \in Cells : Node(k) = e

\* Every event that is not under way knows its cell.
Known == mode # "renumber" => \A k \in Cells \ {hole} : pos[Node(k)] = k

\* No event comes after its children, but for the one under way.
Ordered ==
    \A k \in Cells \ {1} :
        \/ mode = "up" /\ k = hole
        \/ mode = "down" /\ parent(k) = hole
        \/ pri[Node(parent(k))] <= pri[Node(k)]

\* What is above the hole comes before what is below it.
OrderedAcross ==
    hole > 1 => \A k \in Cells \ {1} :
                    parent(k) = hole => pri[Node(parent(hole))] <= pri[Node(k)]

QueueInv == QueueTypeOK /\ OneCellEach /\ Known /\ Ordered /\ OrderedAcross

-----------------------------------------------------------------------------
\* Parents and children (prqueue.c: parent, left and right).
LEMMA Parents ==
    ASSUME NEW k \in Nat, k > 1
    PROVE  /\ parent(k) \in Nat /\ parent(k) >= 1 /\ parent(k) < k
           /\ \A j \in Nat : parent(k) = j <=> (k = 2 * j \/ k = 2 * j + 1)
  BY SMT DEF parent

\* The priorities of queued events can be compared (sq_cmp_pri).
LEMMA Comparable ==
    ASSUME QueueTypeOK, NEW e \in InQueue
    PROVE  e \in Events /\ pri[e] \in Nat
  BY PriorityQueueConstants DEF QueueTypeOK, InQueue

\* Where no loop runs, the cells hold their events and there is no hole in them.
LEMMA NoHole ==
    ASSUME QueueTypeOK, mode \notin {"up", "down"}
    PROVE  hole = 0 /\ \A k \in Cells : Node(k) = heap[k]
  BY DEF QueueTypeOK, Node, Cells

\* The invariant holds at the start (squeue_create).
LEMMA InitEstablishes == ASSUME QueueInit PROVE QueueInv
  <1>1. Cells = {} BY DEF QueueInit, Cells
  <1>2. InQueue = {} BY DEF QueueInit, InQueue
  <1>3. QueueTypeOK BY <1>1 DEF QueueInit, QueueTypeOK, Unqueued, Stale
  <1> QED BY <1>1, <1>2, <1>3 DEF QueueInit, QueueInv, OneCellEach, Known, Ordered, OrderedAcross

\* One turn of a loop swaps the event under way with that of another cell, which
\* is told its new one (prqueue_bubble_up and percolate_down).
LEMMA TurnSwaps ==
    ASSUME QueueInv, mode \in {"up", "down"}, NEW k \in Cells, k # hole, Turn(k)
    PROVE  /\ QueueTypeOK' /\ OneCellEach' /\ Known'
           /\ Cells' = Cells /\ InQueue' = InQueue /\ pri' = pri /\ mode' = mode /\ hole' = k
           /\ Node(k)' = moving /\ Node(hole) = moving
           /\ \A j \in Cells : j = hole => Node(j)' = heap[k]
           /\ \A j \in Cells \ {hole, k} : Node(j)' = Node(j)
  <1>1. QueueTypeOK /\ hole \in Cells /\ moving \in Events /\ size \in Nat BY DEF QueueInv, QueueTypeOK
  <1>2. size' = size /\ pri' = pri /\ mode' = mode /\ moving' = moving /\ hole' = k
    BY DEF Turn
  <1>3. Cells' = Cells /\ InQueue' = InQueue BY <1>2 DEF Cells, InQueue
  <1>4. heap' = [heap EXCEPT ![hole] = heap[k]] /\ pos' = [pos EXCEPT ![heap[k]] = hole]
    BY DEF Turn
  <1>5. heap[k] \in Events BY <1>1 DEF QueueTypeOK
  <1>6. \A j \in Cells : heap'[j] = IF j = hole THEN heap[k] ELSE heap[j]
    BY <1>1, <1>4 DEF QueueTypeOK
  <1>7. \A e \in Events : pos'[e] = IF e = heap[k] THEN hole ELSE pos[e]
    BY <1>1, <1>4 DEF QueueTypeOK
  <1>8. QueueTypeOK'
    <2>1. heap' \in [Cells' -> Events] BY <1>1, <1>3, <1>4, <1>5 DEF QueueTypeOK
    <2>2. pos' \in [Events -> Nat] BY <1>1, <1>4 DEF QueueTypeOK, Cells
    <2> QED BY <1>1, <1>2, <1>3, <2>1, <2>2 DEF QueueTypeOK
  <1>9. Node(k)' = moving /\ Node(hole) = moving BY <1>2 DEF Node
  <1>10. \A j \in Cells : j = hole => Node(j)' = heap[k] BY <1>2, <1>6 DEF Node
  <1>11. \A j \in Cells \ {hole, k} : Node(j)' = Node(j) BY <1>2, <1>6 DEF Node
  <1>12. Node(k) = heap[k] BY DEF Node
  <1>13. OneCellEach'
    <2>1. OneCellEach BY DEF QueueInv
    <2>2. \A j \in Cells : Node(j)' \in InQueue
      BY <1>1, <1>9, <1>10, <1>11, <1>12, <2>1 DEF OneCellEach
    <2>3. \A i, j \in Cells : Node(i)' = Node(j)' => i = j
      BY <1>1, <1>9, <1>10, <1>11, <1>12, <2>1 DEF OneCellEach
    <2>4. \A e \in InQueue : \E j \in Cells : Node(j)' = e
      <3>1. SUFFICES ASSUME NEW e \in InQueue PROVE \E j \in Cells : Node(j)' = e OBVIOUS
      <3>2. PICK i \in Cells : Node(i) = e BY <2>1 DEF OneCellEach
      <3> QED BY <1>1, <1>9, <1>10, <1>11, <1>12, <3>2
    <2> QED BY <1>3, <2>2, <2>3, <2>4 DEF OneCellEach
  <1>14. Known'
    <2>1. SUFFICES ASSUME NEW j \in Cells, j # k PROVE pos'[Node(j)'] = j
      BY <1>2, <1>3 DEF Known
    <2>2. CASE j = hole BY <1>5, <1>7, <1>10, <2>2
    <2>3. CASE j # hole
      <3>1. Node(j)' = Node(j) BY <1>11, <2>1, <2>3
      <3>2. Node(j) \in Events /\ Node(j) # heap[k]
        BY <1>12, <2>1 DEF QueueInv, OneCellEach, InQueue
      <3>3. pos[Node(j)] = j BY <2>3 DEF QueueInv, Known
      <3> QED BY <1>7, <3>1, <3>2, <3>3
    <2> QED BY <2>2, <2>3
  <1> QED BY <1>2, <1>3, <1>8, <1>9, <1>10, <1>11, <1>13, <1>14

\* A turn of prqueue_bubble_up: the event under way is before its parent, and so
\* before everything that was below that parent.
LEMMA RiseKeeps == ASSUME QueueInv, bubble_up PROVE QueueInv'
  <1>1. QueueTypeOK /\ hole \in Cells /\ size \in Nat /\ mode = "up" /\ hole > 1
    BY DEF QueueInv, QueueTypeOK, bubble_up, Rises
  <1>2. PICK p \in Cells \ {hole} : p = parent(hole) /\ p \in Nat
    BY <1>1, Parents DEF Cells
  <1>3. Turn(p) /\ pri[heap[p]] > pri[moving] BY <1>2 DEF bubble_up, Rises, After
  <1>4. /\ QueueTypeOK' /\ OneCellEach' /\ Known'
        /\ Cells' = Cells /\ InQueue' = InQueue /\ pri' = pri /\ mode' = "up" /\ hole' = p
    BY <1>1, <1>2, <1>3, TurnSwaps
  <1>5. /\ Node(p)' = moving /\ Node(hole) = moving
        /\ \A j \in Cells : j = hole => Node(j)' = heap[p]
        /\ \A j \in Cells \ {hole, p} : Node(j)' = Node(j)
    BY <1>1, <1>2, <1>3, TurnSwaps
  <1>6. \A j \in Cells : pri[Node(j)] \in Nat
    BY <1>1, Comparable DEF QueueInv, OneCellEach
  <1>7. Node(p) = heap[p] BY <1>2 DEF Node
  <1>8. \A j \in Cells \ {1} : parent(j) \in Cells /\ parent(j) # j /\ j \in Nat
    BY <1>1, Parents DEF Cells
  <1>9. \A j \in Cells \ {1} : j # hole /\ parent(j) = p => pri[heap[p]] <= pri[Node(j)]
    BY <1>1, <1>2, <1>7 DEF QueueInv, Ordered
  <1>10. \A j \in Cells \ {1} : parent(j) = hole => pri[heap[p]] <= pri[Node(j)]
    BY <1>1, <1>2, <1>7 DEF QueueInv, OrderedAcross
  <1>11. Ordered'
    <2>1. SUFFICES ASSUME NEW j \in Cells, j # 1, j # p
                   PROVE  pri[Node(parent(j))'] <= pri[Node(j)']
      BY <1>4 DEF Ordered
    <2>2. parent(j) \in Cells /\ parent(j) # j BY <1>8, <2>1
    <2>3. CASE j = hole
      <3>1. parent(j) = p BY <1>2, <2>3
      <3>2. Node(j)' = heap[p] /\ Node(parent(j))' = moving BY <1>5, <2>1, <2>3, <3>1
      <3>3. pri[heap[p]] \in Nat /\ pri[moving] \in Nat BY <1>1, <1>2, <1>5, <1>6, <1>7
      <3> QED BY <1>3, <3>2, <3>3
    <2>4. CASE j # hole /\ parent(j) = hole
      <3>1. Node(j)' = Node(j) /\ Node(parent(j))' = heap[p] BY <1>5, <2>1, <2>2, <2>4
      <3> QED BY <1>10, <2>1, <2>4, <3>1
    <2>5. CASE j # hole /\ parent(j) = p
      <3>1. Node(j)' = Node(j) /\ Node(parent(j))' = moving BY <1>5, <2>1, <2>5
      <3>2. pri[heap[p]] \in Nat /\ pri[moving] \in Nat /\ pri[Node(j)] \in Nat
        BY <1>1, <1>2, <1>5, <1>6, <1>7, <2>1
      <3> QED BY <1>3, <1>9, <2>1, <2>5, <3>1, <3>2
    <2>6. CASE j # hole /\ parent(j) # hole /\ parent(j) # p
      <3>1. Node(j)' = Node(j) /\ Node(parent(j))' = Node(parent(j)) BY <1>5, <2>1, <2>2, <2>6
      <3>2. pri[Node(parent(j))] <= pri[Node(j)] BY <1>1, <2>1, <2>6 DEF QueueInv, Ordered
      <3> QED BY <3>1, <3>2
    <2> QED BY <2>3, <2>4, <2>5, <2>6
  <1>12. OrderedAcross'
    <2>1. SUFFICES ASSUME p > 1, NEW j \in Cells, j # 1, parent(j) = p
                   PROVE  pri[Node(parent(p))'] <= pri[Node(j)']
      BY <1>4 DEF OrderedAcross
    <2>2. parent(p) \in Cells /\ parent(p) # p /\ parent(p) # hole
      BY <1>1, <1>2, <2>1, Parents DEF Cells
    <2>3. Node(parent(p))' = Node(parent(p)) BY <1>5, <2>2
    <2>4. pri[Node(parent(p))] <= pri[heap[p]]
      BY <1>1, <1>2, <1>7, <2>1, <2>2 DEF QueueInv, Ordered
    <2>5. pri[heap[p]] <= pri[Node(j)']
      <3>1. CASE j = hole
        BY <1>2, <1>5, <1>6, <1>7, <3>1
      <3>2. CASE j # hole
        <4>1. j # p BY <1>8, <2>1
        <4>2. Node(j)' = Node(j) BY <1>5, <3>2, <4>1
        <4> QED BY <1>9, <2>1, <3>2, <4>2
      <3> QED BY <3>1, <3>2
    <2>6. pri[Node(parent(p))] \in Nat /\ pri[heap[p]] \in Nat /\ pri[Node(j)'] \in Nat
      <3>1. Node(j)' \in InQueue BY <1>4 DEF OneCellEach
      <3> QED BY <1>1, <1>2, <1>6, <1>7, <2>2, <3>1, Comparable
    <2> QED BY <2>3, <2>4, <2>5, <2>6
  <1> QED BY <1>4, <1>11, <1>12 DEF QueueInv

\* A turn of percolate_down: the first of the children, which comes before its
\* sibling and before the event under way, takes the hole.
LEMMA SinkKeeps == ASSUME QueueInv, percolate_down PROVE QueueInv'
  <1>1. QueueTypeOK /\ hole \in Cells /\ hole \in Nat /\ hole > 0 /\ size \in Nat /\ mode = "down"
    BY DEF QueueInv, QueueTypeOK, percolate_down, Cells
  <1>2. PICK k \in Cells \ {1} : k = maxchild(hole) /\ parent(k) = hole /\ k # hole /\ k \in Nat
    <2>1. maxchild(hole) \in Cells \ {1} /\ maxchild(hole) \in Nat
          /\ (maxchild(hole) = 2 * hole \/ maxchild(hole) = 2 * hole + 1)
      BY <1>1 DEF percolate_down, Sinks, maxchild, Cells
    <2> QED BY <1>1, <2>1, Parents
  <1>3. Turn(k) /\ pri[moving] > pri[heap[k]]
    BY <1>2 DEF percolate_down, Sinks, After
  <1>4. /\ QueueTypeOK' /\ OneCellEach' /\ Known'
        /\ Cells' = Cells /\ InQueue' = InQueue /\ pri' = pri /\ mode' = "down" /\ hole' = k
    BY <1>1, <1>2, <1>3, TurnSwaps
  <1>5. /\ Node(k)' = moving /\ Node(hole) = moving
        /\ \A j \in Cells : j = hole => Node(j)' = heap[k]
        /\ \A j \in Cells \ {hole, k} : Node(j)' = Node(j)
    BY <1>1, <1>2, <1>3, TurnSwaps
  <1>6. \A j \in Cells : pri[Node(j)] \in Nat
    BY <1>1, Comparable DEF QueueInv, OneCellEach
  <1>7. Node(k) = heap[k] BY <1>2 DEF Node
  <1>8. \A j \in Cells \ {1} : parent(j) \in Cells /\ parent(j) # j /\ j \in Nat
    BY <1>1, Parents DEF Cells
  <1>9. \A j \in Cells \ {1} : parent(j) = hole => pri[heap[k]] <= pri[Node(j)]
    <2>1. SUFFICES ASSUME NEW j \in Cells, j # 1, parent(j) = hole
                   PROVE  pri[heap[k]] <= pri[Node(j)]
      OBVIOUS
    <2>2. j = 2 * hole \/ j = 2 * hole + 1 BY <1>1, <1>8, <2>1, Parents DEF Cells
    <2>3. j # hole /\ Node(j) = heap[j] BY <1>8, <2>1 DEF Node
    <2>4. pri[heap[k]] \in Nat /\ pri[heap[j]] \in Nat BY <1>2, <1>6, <1>7, <2>3
    <2> QED BY <1>1, <1>2, <2>1, <2>2, <2>3, <2>4 DEF maxchild, After, Cells
  <1>10. Ordered'
    <2>1. SUFFICES ASSUME NEW j \in Cells, j # 1, parent(j) # k
                   PROVE  pri[Node(parent(j))'] <= pri[Node(j)']
      BY <1>4 DEF Ordered
    <2>2. parent(j) \in Cells /\ parent(j) # j BY <1>8, <2>1
    <2>3. CASE j = hole
      <3>1. parent(j) # hole /\ parent(j) # k BY <2>1, <2>2, <2>3
      <3>2. Node(j)' = heap[k] /\ Node(parent(j))' = Node(parent(j)) BY <1>5, <2>2, <2>3, <3>1
      <3>3. hole > 1 BY <1>1, <2>1, <2>3
      <3>4. pri[Node(parent(hole))] <= pri[Node(k)] BY <1>2, <3>3 DEF QueueInv, OrderedAcross
      <3> QED BY <1>7, <2>3, <3>2, <3>4
    <2>4. CASE j = k
      <3>1. Node(j)' = moving /\ Node(parent(j))' = heap[k] BY <1>2, <1>5, <2>2, <2>4
      <3>2. pri[heap[k]] \in Nat /\ pri[moving] \in Nat BY <1>1, <1>2, <1>5, <1>6, <1>7
      <3> QED BY <1>3, <3>1, <3>2
    <2>5. CASE j # hole /\ j # k /\ parent(j) = hole
      <3>1. Node(j)' = Node(j) /\ Node(parent(j))' = heap[k] BY <1>5, <2>1, <2>2, <2>5
      <3> QED BY <1>9, <2>1, <2>5, <3>1
    <2>6. CASE j # hole /\ j # k /\ parent(j) # hole
      <3>1. Node(j)' = Node(j) /\ Node(parent(j))' = Node(parent(j)) BY <1>5, <2>1, <2>2, <2>6
      <3>2. pri[Node(parent(j))] <= pri[Node(j)] BY <1>1, <2>1, <2>6 DEF QueueInv, Ordered
      <3> QED BY <3>1, <3>2
    <2> QED BY <2>3, <2>4, <2>5, <2>6
  <1>11. OrderedAcross'
    <2>1. SUFFICES ASSUME NEW j \in Cells, j # 1, parent(j) = k
                   PROVE  pri[Node(parent(k))'] <= pri[Node(j)']
      BY <1>4 DEF OrderedAcross
    <2>2. j # k /\ j # hole /\ k # hole
      <3>1. j > k /\ k > hole BY <1>1, <1>2, <1>8, <2>1, Parents DEF Cells
      <3> QED BY <1>1, <1>2, <1>8, <2>1, <3>1
    <2>3. Node(j)' = Node(j) /\ Node(parent(k))' = heap[k] BY <1>1, <1>2, <1>5, <2>1, <2>2
    <2>4. pri[Node(k)] <= pri[Node(j)] BY <1>1, <2>1, <2>2 DEF QueueInv, Ordered
    <2> QED BY <1>7, <2>3, <2>4
  <1> QED BY <1>4, <1>10, <1>11 DEF QueueInv

\* The end of a loop fills the hole with the event that goes there.
LEMMA PlaceKeeps == ASSUME QueueInv, Place PROVE QueueInv'
  <1>1. QueueTypeOK /\ hole \in Cells /\ hole \in Nat /\ hole > 0 /\ size \in Nat /\ moving \in Events
        /\ mode \in {"up", "down"}
    BY DEF QueueInv, QueueTypeOK, Place, Cells
  <1>2. size' = size /\ pri' = pri /\ mode' = "idle" /\ moving' = NoEvent /\ hole' = 0
        /\ heap' = [heap EXCEPT ![hole] = moving] /\ pos' = [pos EXCEPT ![moving] = hole]
    BY DEF Place
  <1>3. Cells' = Cells /\ InQueue' = InQueue BY <1>2 DEF Cells, InQueue
  <1>4. \A k \in Cells : Node(k)' = Node(k)
    BY <1>1, <1>2 DEF Node, Cells, QueueTypeOK
  <1>5. QueueTypeOK'
    <2>1. heap' \in [Cells' -> Events] /\ pos' \in [Events -> Nat] BY <1>1, <1>2, <1>3 DEF QueueTypeOK
    <2> QED BY <1>1, <1>2, <2>1 DEF QueueTypeOK
  <1>6. OneCellEach' BY <1>3, <1>4 DEF QueueInv, OneCellEach
  <1>7. Known'
    <2>1. SUFFICES ASSUME NEW k \in Cells PROVE pos'[Node(k)] = k
      BY <1>3, <1>4 DEF Known
    <2>2. Node(k) \in Events BY DEF QueueInv, OneCellEach, InQueue
    <2>3. CASE k = hole
      <3>1. Node(k) = moving BY <2>3 DEF Node
      <3> QED BY <1>1, <1>2, <2>3, <3>1 DEF QueueTypeOK
    <2>4. CASE k # hole
      <3>1. Node(hole) = moving BY DEF Node
      <3>2. Node(k) # moving BY <1>1, <2>4, <3>1 DEF QueueInv, OneCellEach
      <3>3. pos[Node(k)] = k BY <1>1, <2>4 DEF QueueInv, Known
      <3> QED BY <1>1, <1>2, <2>2, <3>2, <3>3 DEF QueueTypeOK
    <2> QED BY <2>3, <2>4
  <1>8. Ordered'
    <2>1. SUFFICES ASSUME NEW k \in Cells, k # 1
                   PROVE  pri[Node(parent(k))] <= pri[Node(k)]
      <3>1. \A k \in Cells \ {1} : parent(k) \in Cells BY <1>1, Parents DEF Cells
      <3> QED BY <1>2, <1>3, <1>4, <3>1 DEF Ordered
    <2>2. /\ k \in Nat /\ k > 1 /\ parent(k) \in Cells /\ parent(k) # k
          /\ parent(k) = hole => (k = 2 * hole \/ k = 2 * hole + 1)
      BY <1>1, <2>1, Parents DEF Cells
    <2>3. pri[Node(k)] \in Nat /\ pri[Node(parent(k))] \in Nat
      BY <1>1, <2>2, Comparable DEF QueueInv, OneCellEach
    <2>4. CASE mode = "up" /\ k = hole
      <3>1. ~Rises BY <2>4 DEF Place
      <3>2. Node(k) = moving /\ Node(parent(k)) = heap[parent(k)] BY <2>2, <2>4 DEF Node
      <3> QED BY <2>2, <2>3, <2>4, <3>1, <3>2 DEF Rises, After
    <2>5. CASE mode = "down" /\ parent(k) = hole
      <3>1. ~Sinks BY <2>5 DEF Place
      <3>2. Node(k) = heap[k] /\ Node(hole) = moving BY <2>2, <2>5 DEF Node
      <3>3. maxchild(hole) \in Cells /\ maxchild(hole) \in Nat /\ maxchild(hole) > 1
            /\ parent(maxchild(hole)) = hole
        <4>1. maxchild(hole) \in Cells /\ maxchild(hole) \in Nat /\ maxchild(hole) > 1
              /\ (maxchild(hole) = 2 * hole \/ maxchild(hole) = 2 * hole + 1)
          BY <1>1, <2>2, <2>5 DEF maxchild, Cells
        <4> QED BY <1>1, <4>1, Parents
      <3>4. maxchild(hole) # hole BY <1>1, <3>3, Parents
      <3>5. pri[heap[maxchild(hole)]] \in Nat /\ pri[heap[maxchild(hole)]] >= pri[moving]
        <4>1. pri[heap[maxchild(hole)]] \in Nat
          <5>1. PICK c \in Cells : c = maxchild(hole) BY <3>3
          <5>2. Node(c) = heap[c] BY <3>4, <5>1 DEF Node
          <5> QED BY <1>1, <5>1, <5>2, Comparable DEF QueueInv, OneCellEach
        <4>2. pri[moving] \in Nat BY <2>3, <2>5, <3>2
        <4> QED BY <3>1, <3>3, <4>1, <4>2 DEF Sinks, After
      <3>6. pri[heap[k]] >= pri[heap[maxchild(hole)]]
        BY <1>1, <2>1, <2>2, <2>3, <2>5, <3>2, <3>5 DEF maxchild, After, Cells
      <3> QED BY <2>3, <2>5, <3>2, <3>5, <3>6
    <2>6. CASE ~(mode = "up" /\ k = hole) /\ ~(mode = "down" /\ parent(k) = hole)
      BY <2>1, <2>6 DEF QueueInv, Ordered
    <2> QED BY <2>4, <2>5, <2>6
  <1>9. OrderedAcross' BY <1>2 DEF OrderedAcross
  <1> QED BY <1>5, <1>6, <1>7, <1>8, <1>9 DEF QueueInv

-----------------------------------------------------------------------------
\* The operations.

\* A new event begins in a cell with nothing below it (prqueue_insert).
LEMMA InsertKeeps ==
    ASSUME QueueInv, NEW e \in Events, NEW p \in Priorities, prqueue_insert(e, p)
    PROVE  QueueInv'
  <1>1. /\ QueueTypeOK /\ mode = "idle" /\ e \notin InQueue /\ size \in Nat /\ size > 0
        /\ p \in Nat /\ p # Unqueued
    BY PriorityQueueConstants DEF QueueInv, QueueTypeOK, prqueue_insert, Unqueued
  <1>2. /\ size' = size + 1 /\ mode' = "up" /\ moving' = e /\ hole' = size /\ pos' = pos
        /\ heap' = [k \in 1..size |-> IF k = size THEN e ELSE heap[k]]
        /\ pri' = [pri EXCEPT ![e] = p]
    BY DEF prqueue_insert
  <1>3. Cells = 1..(size - 1) /\ Cells' = 1..size /\ Cells' = Cells \cup {size} /\ size \notin Cells
    BY <1>1, <1>2 DEF Cells
  <1>4. pri'[e] = p /\ \A d \in Events : d # e => pri'[d] = pri[d]
    BY <1>1, <1>2 DEF QueueTypeOK
  <1>5. InQueue' = InQueue \cup {e} BY <1>1, <1>4 DEF InQueue
  <1>6. \A k \in Cells : Node(k) = heap[k] BY <1>1, NoHole
  <1>7. /\ \A k \in Cells : Node(k)' = Node(k)
        /\ \A k \in Cells' : k = size => Node(k)' = e
    BY <1>2, <1>3, <1>6 DEF Node
  <1>8. QueueTypeOK'
    <2>1. heap' \in [Cells' -> Events] BY <1>1, <1>2, <1>3 DEF QueueTypeOK
    <2>2. pri' \in [Events -> Priorities \cup {Unqueued}] BY <1>1, <1>2 DEF QueueTypeOK
    <2> QED BY <1>1, <1>2, <1>3, <2>1, <2>2 DEF QueueTypeOK
  <1>9. \A k \in Cells : Node(k) \in InQueue /\ Node(k) # e BY <1>1 DEF QueueInv, OneCellEach
  <1>10. OneCellEach'
    <2>1. \A k \in Cells' : Node(k)' \in InQueue' BY <1>3, <1>5, <1>7, <1>9
    <2>2. \A j, k \in Cells' : Node(j)' = Node(k)' => j = k
      BY <1>3, <1>7, <1>9 DEF QueueInv, OneCellEach
    <2>3. \A d \in InQueue' : \E k \in Cells' : Node(k)' = d
      BY <1>3, <1>5, <1>7 DEF QueueInv, OneCellEach
    <2> QED BY <2>1, <2>2, <2>3 DEF OneCellEach
  <1>11. Known'
    <2>1. \A k \in Cells : pos[Node(k)] = k
      <3>1. hole \notin Cells BY <1>1 DEF Cells, QueueTypeOK
      <3> QED BY <1>1, <3>1 DEF QueueInv, Known
    <2> QED BY <1>2, <1>3, <1>7, <2>1 DEF Known
  <1>12. \A k \in Cells \ {1} : parent(k) \in Cells /\ parent(k) # size
    BY <1>1, <1>3, Parents
  <1>13. Ordered'
    <2>1. SUFFICES ASSUME NEW k \in Cells, k # 1
                   PROVE  pri'[Node(parent(k))'] <= pri'[Node(k)']
      BY <1>2, <1>3 DEF Ordered
    <2>2. Node(parent(k))' = Node(parent(k)) /\ Node(k)' = Node(k) BY <1>7, <1>12, <2>1
    <2>3. pri[Node(parent(k))] <= pri[Node(k)] BY <1>1, <2>1 DEF QueueInv, Ordered
    <2>4. pri'[Node(parent(k))] = pri[Node(parent(k))] /\ pri'[Node(k)] = pri[Node(k)]
      BY <1>4, <1>9, <1>12, <2>1 DEF InQueue
    <2> QED BY <2>2, <2>3, <2>4
  <1>14. OrderedAcross'
    <2>1. \A k \in Cells' \ {1} : parent(k) # size BY <1>1, <1>3, Parents
    <2> QED BY <1>2, <2>1 DEF OrderedAcross
  <1> QED BY <1>8, <1>10, <1>11, <1>13, <1>14 DEF QueueInv

\* An event that gets a new priority is out of order with its parent or with its
\* children, but not with both (prqueue_change_priority).
LEMMA ChangeKeeps ==
    ASSUME QueueInv, NEW e \in Events, NEW p \in Priorities, prqueue_change_priority(e, p)
    PROVE  QueueInv'
  <1>1. QueueTypeOK /\ mode = "idle" /\ e \in InQueue /\ size \in Nat /\ p \in Nat /\ p # Unqueued
    BY PriorityQueueConstants DEF QueueInv, QueueTypeOK, prqueue_change_priority, Unqueued
  <1>2. /\ size' = size /\ moving' = e /\ hole' = pos[e] /\ pos' = pos /\ heap' = heap
        /\ pri' = [pri EXCEPT ![e] = p]
        /\ mode' = IF pri[e] > p THEN "up" ELSE "down"
    BY DEF prqueue_change_priority, After
  <1>3. Cells' = Cells /\ Cells \subseteq Nat BY <1>1, <1>2 DEF Cells
  <1>4. pri'[e] = p /\ \A d \in Events : d # e => pri'[d] = pri[d]
    BY <1>1, <1>2 DEF QueueTypeOK
  <1>5. InQueue' = InQueue BY <1>1, <1>4 DEF InQueue
  <1>6. (\A k \in Cells : Node(k) = heap[k]) /\ hole \notin Cells BY <1>1, NoHole DEF Cells
  <1>7. PICK q \in Cells : heap[q] = e /\ q = pos[e]
    <2>1. PICK q \in Cells : Node(q) = e BY <1>1 DEF QueueInv, OneCellEach
    <2>2. pos[Node(q)] = q BY <1>1, <1>6, <2>1 DEF QueueInv, Known
    <2> QED BY <1>6, <2>1, <2>2
  <1>8. \A k \in Cells : Node(k)' = Node(k) /\ (Node(k) = e <=> k = q)
    <2>1. \A k \in Cells : Node(k) = e <=> k = q BY <1>6, <1>7 DEF QueueInv, OneCellEach
    <2>2. \A k \in Cells : Node(k)' = Node(k) BY <1>2, <1>6, <1>7 DEF Node
    <2> QED BY <2>1, <2>2
  <1>9. QueueTypeOK'
    <2>1. pri' \in [Events -> Priorities \cup {Unqueued}] BY <1>1, <1>2 DEF QueueTypeOK
    <2> QED BY <1>1, <1>2, <1>3, <1>7, <2>1 DEF QueueTypeOK
  <1>10. OneCellEach' BY <1>3, <1>5, <1>8 DEF QueueInv, OneCellEach
  <1>11. Known'
    <2>1. \A k \in Cells : pos[Node(k)] = k BY <1>1, <1>6 DEF QueueInv, Known
    <2> QED BY <1>2, <1>3, <1>8, <2>1 DEF Known
  <1>12. \A k \in Cells \ {1} : parent(k) \in Cells /\ parent(k) # k
    BY <1>1, Parents DEF Cells
  <1>13. \A k \in Cells \ {1} : pri[Node(parent(k))] <= pri[Node(k)]
    BY <1>1 DEF QueueInv, Ordered
  <1>14. \A k \in Cells : pri[Node(k)] \in Nat
    BY <1>1, Comparable DEF QueueInv, OneCellEach
  <1>15. \A k \in Cells : pri'[Node(k)] = IF k = q THEN p ELSE pri[Node(k)]
    BY <1>4, <1>8 DEF QueueInv, OneCellEach, InQueue
  <1>16. Ordered'
    <2>1. SUFFICES ASSUME NEW k \in Cells, k # 1,
                          ~(mode' = "up" /\ k = q), ~(mode' = "down" /\ parent(k) = q)
                   PROVE  pri'[Node(parent(k))] <= pri'[Node(k)]
      BY <1>2, <1>3, <1>7, <1>8, <1>12 DEF Ordered
    <2>2. /\ pri[Node(parent(k))] <= pri[Node(k)]
          /\ pri[Node(parent(k))] \in Nat /\ pri[Node(k)] \in Nat /\ parent(k) # k
          /\ pri'[Node(k)] = IF k = q THEN p ELSE pri[Node(k)]
          /\ pri'[Node(parent(k))] = IF parent(k) = q THEN p ELSE pri[Node(parent(k))]
      BY <1>12, <1>13, <1>14, <1>15, <2>1
    <2>3. Node(q) = e BY <1>6, <1>7
    <2>4. k = q => pri[Node(k)] = pri[e] BY <2>3
    <2>5. parent(k) = q => pri[Node(parent(k))] = pri[e] BY <2>3
    <2> QED BY <1>1, <1>2, <2>1, <2>2, <2>4, <2>5
  <1>17. OrderedAcross'
    <2>1. SUFFICES ASSUME q > 1, NEW k \in Cells, k # 1, parent(k) = q
                   PROVE  pri'[Node(parent(q))] <= pri'[Node(k)]
      <3>1. q > 1 => parent(q) \in Cells BY <1>3, <1>12
      <3> QED BY <1>2, <1>3, <1>7, <1>8, <3>1 DEF OrderedAcross
    <2>2. k # q /\ parent(q) # q /\ parent(q) \in Cells BY <1>3, <1>12, <2>1
    <2>3. pri[Node(parent(q))] <= pri[Node(q)] /\ pri[Node(q)] <= pri[Node(k)]
      BY <1>3, <1>13, <2>1
    <2>4. pri[Node(parent(q))] \in Nat /\ pri[Node(q)] \in Nat /\ pri[Node(k)] \in Nat
      BY <1>14, <2>1, <2>2
    <2> QED BY <1>15, <2>1, <2>2, <2>3, <2>4
  <1> QED BY <1>9, <1>10, <1>11, <1>16, <1>17 DEF QueueInv

\* The last event takes the place of a removed one: it can be too early for the
\* parent there only if it comes before the removed one (prqueue_remove,
\* prqueue_pop).
LEMMA ReplacedKeeps ==
    ASSUME QueueInv, mode = "idle", NEW e \in InQueue, NEW q \in Cells, heap[q] = e,
           NEW loop \in {"up", "down"}, Replaced(e, q, loop),
           loop = "up" => pri[e] > pri[heap[size - 1]],
           loop = "down" => q = 1 \/ pri[e] <= pri[heap[size - 1]]
    PROVE  QueueInv'
  <1>1. QueueTypeOK /\ size \in Nat /\ size > 1 /\ e \in Events /\ size - 1 \in Cells
    <2>1. q \in 1..(size - 1) BY DEF Cells
    <2> QED BY <2>1 DEF QueueInv, QueueTypeOK, InQueue, Cells
  <1>2. PICK z \in Cells : z = size - 1 BY <1>1
  <1>3. PICK last \in Events : last = heap[z] BY <1>1 DEF QueueTypeOK
  <1>4. /\ size' = z
        /\ heap' = [j \in 1..(size - 2) |-> IF j = q THEN last ELSE heap[j]]
        /\ pri' = [pri EXCEPT ![e] = Unqueued] /\ pos' = [pos EXCEPT ![e] = Stale]
        /\ e = last => mode' = mode /\ moving' = moving /\ hole' = hole
        /\ e # last => mode' = loop /\ moving' = last /\ hole' = q
    BY <1>2, <1>3 DEF Replaced
  <1>5. Cells = 1..z /\ Cells' = 1..(z - 1) /\ Cells' = Cells \ {z} /\ Cells \subseteq Nat /\ z \in Nat
    BY <1>1, <1>2, <1>4 DEF Cells
  <1>6. (\A k \in Cells : Node(k) = heap[k]) /\ hole = 0 /\ moving = NoEvent
    BY <1>1, NoHole DEF QueueTypeOK
  <1>7. /\ \A k \in Cells : heap[k] \in InQueue
        /\ \A j, k \in Cells : heap[j] = heap[k] => j = k
        /\ \A d \in InQueue : \E k \in Cells : heap[k] = d
    BY <1>6 DEF QueueInv, OneCellEach
  <1>8. (e = last <=> q = z) BY <1>2, <1>3, <1>7
  <1>9. \A d \in Events : pri'[d] = IF d = e THEN Unqueued ELSE pri[d]
    BY <1>1, <1>4 DEF QueueTypeOK
  <1>10. InQueue' = InQueue \ {e} BY <1>9 DEF InQueue
  <1>11. \A k \in Cells' : Node(k)' = IF k = q THEN last ELSE heap[k]
    <2>1. \A k \in Cells' : heap'[k] = IF k = q THEN last ELSE heap[k]
      BY <1>1, <1>2, <1>4, <1>5
    <2> QED BY <1>4, <1>5, <1>6, <1>8, <2>1 DEF Node
  <1>12. QueueTypeOK'
    <2>1. heap' \in [Cells' -> Events]
      <3>1. 1..(size - 2) = Cells' BY <1>1, <1>2, <1>5
      <3>2. \A j \in Cells' : heap[j] \in Events BY <1>5, <1>7 DEF InQueue
      <3> QED BY <1>3, <1>4, <3>1, <3>2
    <2>2. pri' \in [Events -> Priorities \cup {Unqueued}] BY <1>1, <1>4 DEF QueueTypeOK
    <2>3. pos' \in [Events -> Nat] BY <1>1, <1>4 DEF QueueTypeOK, Stale
    <2>4. size' \in Nat \ {0} BY <1>2, <1>4, <1>5
    <2>5. CASE e = last
      <3>1. mode' = "idle" /\ moving' = NoEvent /\ hole' = 0 BY <1>4, <1>6, <2>5
      <3> QED BY <2>1, <2>2, <2>3, <2>4, <3>1 DEF QueueTypeOK
    <2>6. CASE e # last
      <3>1. mode' \in {"up", "down"} /\ moving' \in Events /\ hole' \in Cells'
        BY <1>3, <1>4, <1>5, <1>8, <2>6
      <3> QED BY <2>1, <2>2, <2>3, <2>4, <3>1 DEF QueueTypeOK
    <2> QED BY <2>5, <2>6
  <1>13. OneCellEach'
    <2>1. \A k \in Cells' : Node(k)' \in InQueue'
      <3>1. \A k \in Cells' : k # q => heap[k] # e BY <1>5, <1>7
      <3>2. q \in Cells' => last # e BY <1>5, <1>8
      <3> QED BY <1>2, <1>3, <1>5, <1>7, <1>10, <1>11, <3>1, <3>2
    <2>2. \A j, k \in Cells' : Node(j)' = Node(k)' => j = k
      BY <1>2, <1>3, <1>5, <1>7, <1>11
    <2>3. \A d \in InQueue' : \E k \in Cells' : Node(k)' = d
      <3>1. SUFFICES ASSUME NEW d \in InQueue, d # e PROVE \E k \in Cells' : Node(k)' = d
        BY <1>10
      <3>2. PICK k \in Cells : heap[k] = d BY <1>7
      <3>3. k # q BY <3>1, <3>2
      <3>4. CASE k # z BY <1>5, <1>11, <3>2, <3>3, <3>4
      <3>5. CASE k = z
        <4>1. d = last /\ q \in Cells' BY <1>3, <1>5, <3>2, <3>3, <3>5
        <4> QED BY <1>11, <4>1
      <3> QED BY <3>4, <3>5
    <2> QED BY <2>1, <2>2, <2>3 DEF OneCellEach
  <1>14. Known'
    <2>1. SUFFICES ASSUME NEW k \in Cells', k # hole' PROVE pos'[Node(k)'] = k
      BY DEF Known
    <2>2. k # q /\ k \in Cells
      <3>1. CASE e = last BY <1>5, <1>8, <3>1
      <3>2. CASE e # last BY <1>4, <1>5, <2>1, <3>2
      <3> QED BY <3>1, <3>2
    <2>3. Node(k)' = heap[k] /\ heap[k] # e /\ heap[k] \in Events
      BY <1>7, <1>11, <2>2 DEF InQueue
    <2>4. pos[heap[k]] = k
      <3>1. hole \notin Cells BY <1>5, <1>6 DEF Cells
      <3> QED BY <1>6, <2>2, <3>1 DEF QueueInv, Known
    <2> QED BY <1>1, <1>4, <2>3, <2>4 DEF QueueTypeOK
  <1>15. \A k \in Cells : pri[heap[k]] \in Nat BY <1>1, <1>7, Comparable
  <1>16. \A k \in Cells \ {1} : pri[heap[parent(k)]] <= pri[heap[k]]
    <2>1. \A k \in Cells \ {1} : parent(k) \in Cells BY <1>1, Parents DEF Cells
    <2> QED BY <1>6, <2>1 DEF QueueInv, Ordered
  <1>17. \A k \in Cells' \ {1} : parent(k) \in Cells' /\ parent(k) # k
    BY <1>5, Parents
  <1>18. \A k \in Cells' : pri'[Node(k)'] = IF k = q THEN pri[last] ELSE pri[heap[k]]
    <2>1. \A k \in Cells' : Node(k)' \in Events /\ Node(k)' # e
      BY <1>10, <1>13 DEF OneCellEach, InQueue
    <2> QED BY <1>9, <1>11, <2>1
  <1>19. pri[last] \in Nat /\ pri[e] \in Nat /\ last = heap[size - 1]
    BY <1>2, <1>3, <1>15
  <1>20. \A k \in Cells' \ {1} : parent(k) = q => pri[e] <= pri[heap[k]] BY <1>5, <1>16
  <1>21. q # 1 => parent(q) \in Cells /\ parent(q) # q /\ pri[heap[parent(q)]] <= pri[e]
    BY <1>5, <1>16, Parents
  <1>22. Ordered'
    <2>1. SUFFICES ASSUME NEW k \in Cells', k # 1,
                          ~(mode' = "up" /\ k = hole'), ~(mode' = "down" /\ parent(k) = hole')
                   PROVE  pri'[Node(parent(k))'] <= pri'[Node(k)']
      BY DEF Ordered
    <2>2. /\ pri'[Node(k)'] = IF k = q THEN pri[last] ELSE pri[heap[k]]
          /\ pri'[Node(parent(k))'] = IF parent(k) = q THEN pri[last] ELSE pri[heap[parent(k)]]
      <3>1. PICK i \in Cells' : i = parent(k) BY <1>17, <2>1
      <3>2. Node(parent(k))' = Node(i)' BY <3>1
      <3> QED BY <1>18, <2>1, <3>1, <3>2
    <2>3. pri[heap[parent(k)]] <= pri[heap[k]] /\ parent(k) # k BY <1>5, <1>16, <1>17, <2>1
    <2>4. CASE e = last
      <3>1. k # q /\ parent(k) # q BY <1>5, <1>8, <1>17, <2>1, <2>4
      <3> QED BY <2>2, <2>3, <3>1
    <2>5. CASE e # last
      <3>1. ~(loop = "up" /\ k = q) /\ ~(loop = "down" /\ parent(k) = q) BY <1>4, <2>1, <2>5
      <3>2. pri[heap[k]] \in Nat /\ pri[heap[parent(k)]] \in Nat BY <1>5, <1>15, <1>17, <2>1
      <3>3. CASE k = q
        <4>1. pri[e] <= pri[last] BY <1>19, <2>1, <3>1, <3>3
        <4>2. pri[heap[parent(k)]] <= pri[e] BY <1>21, <2>1, <3>3
        <4> QED BY <1>19, <2>2, <2>3, <3>2, <3>3, <4>1, <4>2
      <3>4. CASE parent(k) = q
        <4>1. pri[last] < pri[e] BY <1>19, <3>1, <3>4
        <4>2. pri[e] <= pri[heap[k]] BY <1>20, <2>1, <3>4
        <4> QED BY <1>19, <2>2, <2>3, <3>2, <3>4, <4>1, <4>2
      <3>5. CASE k # q /\ parent(k) # q BY <2>2, <2>3, <3>5
      <3> QED BY <3>3, <3>4, <3>5
    <2> QED BY <2>4, <2>5
  <1>23. OrderedAcross'
    <2>1. hole' > 1 => hole' = q /\ q \in Cells' /\ q # 1 /\ q > 1
      BY <1>4, <1>5, <1>6, <1>8
    <2>2. SUFFICES ASSUME hole' = q, q \in Cells', q # 1,
                          NEW k \in Cells', k # 1, parent(k) = q
                   PROVE  pri'[Node(parent(q))'] <= pri'[Node(k)']
      BY <2>1 DEF OrderedAcross
    <2>3. PICK i \in Cells' : i = parent(q) /\ i # q BY <1>17, <2>2
    <2>4. Node(parent(q))' = Node(i)' BY <2>3
    <2>5. k # q BY <1>17, <2>2
    <2>6. pri'[Node(k)'] = pri[heap[k]] /\ pri'[Node(i)'] = pri[heap[i]]
      BY <1>18, <2>2, <2>3, <2>5
    <2>7. pri[heap[i]] <= pri[e] /\ pri[e] <= pri[heap[k]]
      BY <1>20, <1>21, <2>2, <2>3
    <2>8. pri[heap[i]] \in Nat /\ pri[heap[k]] \in Nat BY <1>5, <1>15, <2>2, <2>3
    <2> QED BY <1>19, <2>4, <2>6, <2>7, <2>8
  <1> QED BY <1>12, <1>13, <1>14, <1>22, <1>23 DEF QueueInv

\* The cell an event knows is the one it is in (prqueue_remove goes by pos).
LEMMA CellOf ==
    ASSUME QueueInv, mode = "idle", NEW e \in InQueue
    PROVE  pos[e] \in Cells /\ heap[pos[e]] = e
  <1>1. (\A k \in Cells : Node(k) = heap[k]) /\ hole \notin Cells
    <2>1. hole = 0 BY NoHole DEF QueueInv
    <2> QED BY <2>1, NoHole DEF QueueInv, Cells
  <1>2. PICK k \in Cells : Node(k) = e BY DEF QueueInv, OneCellEach
  <1>3. pos[e] = k BY <1>1, <1>2 DEF QueueInv, Known
  <1> QED BY <1>1, <1>2, <1>3

\* prqueue_remove.
LEMMA RemoveKeeps == ASSUME QueueInv, NEW e \in Events, prqueue_remove(e) PROVE QueueInv'
  <1>1. mode = "idle" /\ e \in InQueue /\ Replaced(e, pos[e], LoopAfterRemoval(e))
    BY DEF prqueue_remove
  <1>2. PICK q \in Cells : q = pos[e] /\ heap[q] = e BY <1>1, CellOf
  <1>3. PICK loop \in {"up", "down"} : loop = LoopAfterRemoval(e) BY DEF LoopAfterRemoval
  <1>4. Replaced(e, q, loop) BY <1>1, <1>2, <1>3 DEF Replaced
  <1>5. pri[e] \in Nat /\ pri[heap[size - 1]] \in Nat
    <2>1. size - 1 \in Cells /\ QueueTypeOK
      <3>1. q \in 1..(size - 1) /\ QueueTypeOK BY DEF Cells, QueueInv
      <3> QED BY <3>1 DEF QueueTypeOK, Cells
    <2>2. heap[size - 1] \in InQueue BY <1>1, <2>1, NoHole DEF QueueInv, OneCellEach
    <2> QED BY <1>1, <2>1, <2>2, Comparable
  <1>6. loop = "up" => pri[e] > pri[heap[size - 1]] BY <1>3 DEF LoopAfterRemoval, After
  <1>7. loop = "down" => pri[e] <= pri[heap[size - 1]]
    BY <1>3, <1>5 DEF LoopAfterRemoval, After
  <1> QED BY <1>1, <1>2, <1>4, <1>6, <1>7, ReplacedKeeps

\* prqueue_pop.
LEMMA PopKeeps == ASSUME QueueInv, prqueue_pop PROVE QueueInv'
  <1>1. mode = "idle" /\ size > 1 /\ Replaced(heap[1], 1, "down") /\ QueueTypeOK
    BY DEF prqueue_pop, QueueInv
  <1>2. 1 \in Cells BY <1>1 DEF QueueTypeOK, Cells
  <1>3. PICK e \in InQueue : e = heap[1] BY <1>1, <1>2, NoHole DEF QueueInv, OneCellEach
  <1>4. Replaced(e, 1, "down") BY <1>1, <1>3 DEF Replaced
  <1> QED BY <1>1, <1>2, <1>3, <1>4, ReplacedKeeps

\* Popping from the copy disturbs the positions alone (adjust_check_scheduling).
LEMMA DuplicateKeeps == ASSUME QueueInv, PopDuplicate PROVE QueueInv'
  <1>1. /\ QueueTypeOK /\ mode = "idle" /\ mode' = "renumber" /\ pos' \in [Events -> Nat]
        /\ heap' = heap /\ size' = size /\ pri' = pri /\ moving' = moving /\ hole' = hole
    BY DEF QueueInv, PopDuplicate, Stale
  <1>2. Cells' = Cells /\ InQueue' = InQueue /\ \A k \in Cells : Node(k)' = Node(k)
    BY <1>1 DEF Cells, InQueue, Node
  <1>3. QueueTypeOK' BY <1>1, <1>2 DEF QueueTypeOK
  <1>4. OneCellEach' BY <1>2 DEF QueueInv, OneCellEach
  <1>5. Known' BY <1>1 DEF Known
  <1>6. hole = 0 BY <1>1, NoHole
  <1>7. \A k \in Cells \ {1} : parent(k) \in Cells BY <1>1, Parents DEF Cells, QueueTypeOK
  <1>8. Ordered' BY <1>1, <1>2, <1>7 DEF QueueInv, Ordered
  <1>9. OrderedAcross' BY <1>1, <1>6 DEF OrderedAcross
  <1> QED BY <1>3, <1>4, <1>5, <1>8, <1>9 DEF QueueInv

\* ... and they are put right from the heap itself.
LEMMA RenumberKeeps == ASSUME QueueInv, Renumber PROVE QueueInv'
  <1>1. /\ QueueTypeOK /\ mode = "renumber" /\ mode' = "idle" /\ pos' = Renumbered
        /\ heap' = heap /\ size' = size /\ pri' = pri /\ moving' = moving /\ hole' = hole
    BY DEF QueueInv, Renumber
  <1>2. Cells' = Cells /\ InQueue' = InQueue /\ \A k \in Cells : Node(k)' = Node(k)
    BY <1>1 DEF Cells, InQueue, Node
  <1>3. hole = 0 /\ Cells \subseteq Nat /\ \A k \in Cells : Node(k) = heap[k]
    BY <1>1, NoHole DEF Cells, QueueTypeOK
  <1>4. \A k \in Cells : heap[k] \in Events /\ \A j \in Cells : heap[j] = heap[k] => j = k
    BY <1>3 DEF QueueInv, OneCellEach, InQueue
  <1>5. \A k \in Cells : pos'[heap[k]] = k
    <2>1. SUFFICES ASSUME NEW k \in Cells PROVE Renumbered[heap[k]] = k BY <1>1
    <2>2. Renumbered[heap[k]] = CHOOSE j \in Cells : heap[j] = heap[k]
      BY <1>4 DEF Renumbered
    <2> QED BY <1>4, <2>2
  <1>6. QueueTypeOK'
    <2>1. pos' \in [Events -> Nat]
      <3>1. SUFFICES ASSUME NEW e \in Events PROVE Renumbered[e] \in Nat
        BY <1>1 DEF Renumbered
      <3>2. CASE \E k \in Cells : heap[k] = e BY <1>3, <3>2 DEF Renumbered
      <3>3. CASE ~\E k \in Cells : heap[k] = e BY <1>1, <3>3 DEF Renumbered, QueueTypeOK
      <3> QED BY <3>2, <3>3
    <2> QED BY <1>1, <1>2, <2>1 DEF QueueTypeOK
  <1>7. OneCellEach' BY <1>2 DEF QueueInv, OneCellEach
  <1>8. Known' BY <1>2, <1>3, <1>5 DEF Known
  <1>9. \A k \in Cells \ {1} : parent(k) \in Cells BY <1>1, Parents DEF Cells, QueueTypeOK
  <1>10. Ordered' BY <1>1, <1>2, <1>9 DEF QueueInv, Ordered
  <1>11. OrderedAcross' BY <1>1, <1>3 DEF OrderedAcross
  <1> QED BY <1>6, <1>7, <1>8, <1>10, <1>11 DEF QueueInv

\* Every step keeps the invariant.
LEMMA NextKeeps == ASSUME QueueInv, [QueueNext]_queueVars PROVE QueueInv'
  <1>1. CASE UNCHANGED queueVars
    <2>1. UNCHANGED <<Cells, InQueue>> /\ \A k \in Cells : Node(k)' = Node(k)
      BY <1>1 DEF queueVars, Cells, InQueue, Node
    <2>2. QueueTypeOK' BY <1>1 DEF QueueInv, queueVars, QueueTypeOK, Cells
    <2>3. OneCellEach' BY <2>1 DEF QueueInv, OneCellEach
    <2>4. Known' BY <1>1, <2>1 DEF QueueInv, Known, queueVars
    <2>5. \A k \in Cells \ {1} : parent(k) \in Cells BY Parents DEF QueueInv, Cells, QueueTypeOK
    <2>6. Ordered' BY <1>1, <2>1, <2>5 DEF QueueInv, Ordered, queueVars
    <2>7. OrderedAcross'
      <3>1. hole > 1 => hole \in Cells \ {1} BY DEF QueueInv, QueueTypeOK
      <3>2. hole' = hole /\ pri' = pri BY <1>1 DEF queueVars
      <3>3. hole > 1 => Node(parent(hole))' = Node(parent(hole)) BY <1>1 DEF Node, queueVars
      <3> QED BY <2>1, <3>1, <3>2, <3>3 DEF QueueInv, OrderedAcross
    <2> QED BY <2>2, <2>3, <2>4, <2>6, <2>7 DEF QueueInv
  <1>2. CASE \E e \in Events, p \in Priorities : prqueue_insert(e, p) \/ prqueue_change_priority(e, p)
    BY <1>2, InsertKeeps, ChangeKeeps
  <1>3. CASE \E e \in Events : prqueue_remove(e) BY <1>3, RemoveKeeps
  <1>4. CASE prqueue_pop BY <1>4, PopKeeps
  <1>5. CASE bubble_up BY <1>5, RiseKeeps
  <1>6. CASE percolate_down BY <1>6, SinkKeeps
  <1>7. CASE Place BY <1>7, PlaceKeeps
  <1>8. CASE PopDuplicate BY <1>8, DuplicateKeeps
  <1>9. CASE Renumber BY <1>9, RenumberKeeps
  <1> QED BY <1>1, <1>2, <1>3, <1>4, <1>5, <1>6, <1>7, <1>8, <1>9 DEF QueueNext

-----------------------------------------------------------------------------
\* The invariant: the heap is in order but for the event under way, every queued
\* event has one cell, and those that are not under way know theirs (prqueue.c).
THEOREM QueueInvariant == QueueSpec => []QueueInv
  <1>1. QueueInit => QueueInv BY InitEstablishes
  <1>2. QueueInv /\ [QueueNext]_queueVars => QueueInv' BY NextKeeps
  <1> QED BY <1>1, <1>2, PTL DEF QueueSpec

\* Types, for any events and priorities (lib/prqueue.h).
THEOREM QueueTypes == QueueSpec => []QueueTypeOK
  <1>1. QueueInv => QueueTypeOK BY DEF QueueInv
  <1> QED BY <1>1, QueueInvariant, PTL

\* Between operations every queued event knows its cell, and no cell holds
\* anything else: squeue_remove and squeue_change_priority_tv take the right one.
THEOREM QueuePositionsAgree == QueueSpec => []PositionsAgree
  <1>1. QueueInv => PositionsAgree
    <2>1. SUFFICES ASSUME QueueInv, mode = "idle"
                   PROVE  /\ \A e \in InQueue : pos[e] \in Cells /\ heap[pos[e]] = e
                          /\ \A k \in Cells : heap[k] \in InQueue /\ pos[heap[k]] = k
      BY DEF PositionsAgree
    <2>2. hole \notin Cells /\ \A k \in Cells : Node(k) = heap[k]
      <3>1. hole = 0 BY <2>1, NoHole DEF QueueInv
      <3> QED BY <2>1, <3>1, NoHole DEF QueueInv, Cells
    <2>3. \A k \in Cells : heap[k] \in InQueue /\ pos[heap[k]] = k
      BY <2>1, <2>2 DEF QueueInv, OneCellEach, Known
    <2> QED BY <2>1, <2>3, CellOf
  <1> QED BY <1>1, QueueInvariant, PTL

-----------------------------------------------------------------------------
\* Refinement.

\* Of a set of naturals that is not empty, one is the least.
LEMMA Least ==
    ASSUME NEW T \in SUBSET Nat, T # {}
    PROVE  \E m \in T : \A k \in T : m <= k
  <1>1. PICK m \in T : \A k \in T : ~(<<k, m>> \in OpToRel(<, Nat))
    BY WFMin, NatLessThanWellFounded, Zenon
  <1>2. \A k \in T : ~(k < m) BY <1>1, Zenon DEF OpToRel
  <1>3. m \in Nat /\ \A k \in T : k \in Nat OBVIOUS
  <1> QED BY <1>2, <1>3

\* Where no loop runs nothing comes before the first cell: of the cells that did,
\* the lowest would come before its parent (prqueue_peek, prqueue_pop).
LEMMA RootIsFirst ==
    ASSUME QueueInv, mode \notin {"up", "down"}
    PROVE  \A k \in Cells : pri[heap[1]] <= pri[heap[k]]
  <1> DEFINE T == {k \in Cells : ~(pri[heap[1]] <= pri[heap[k]])}
  <1>1. QueueTypeOK /\ size \in Nat /\ \A k \in Cells : Node(k) = heap[k]
    BY NoHole DEF QueueInv, QueueTypeOK
  <1>2. SUFFICES ASSUME T # {} PROVE FALSE OBVIOUS
  <1>3. T \in SUBSET Nat BY DEF Cells
  <1> HIDE DEF T
  <1>4. PICK m \in T : \A k \in T : m <= k BY <1>2, <1>3, Least
  <1>5. m \in Cells /\ m \in Nat /\ ~(pri[heap[1]] <= pri[heap[m]])
    BY <1>3, <1>4 DEF T
  <1>6. \A k \in Cells : pri[heap[k]] \in Nat BY <1>1, Comparable DEF QueueInv, OneCellEach
  <1>7. m > 1 /\ 1 \in Cells
    <2>1. m >= 1 /\ 1 \in Cells BY <1>1, <1>5 DEF Cells
    <2>2. m # 1 BY <1>5, <1>6, <2>1
    <2> QED BY <1>5, <2>1, <2>2
  <1>8. parent(m) \in Cells /\ parent(m) < m /\ parent(m) \in Nat
    BY <1>1, <1>5, <1>7, Parents DEF Cells
  <1>9. pri[heap[1]] <= pri[heap[parent(m)]] BY <1>4, <1>5, <1>8 DEF T
  <1>10. pri[heap[parent(m)]] <= pri[heap[m]] BY <1>1, <1>5, <1>7, <1>8 DEF QueueInv, Ordered
  <1> QED BY <1>5, <1>6, <1>7, <1>8, <1>9, <1>10

\* The head that the contract sees.
SeenHead == IF mode \in {"up", "down"} THEN Busy ELSE IF size = 1 THEN NoEvent ELSE heap[1]

\* Where no loop runs, that head is settled.
HeadSettled == mode \notin {"up", "down"} => QueueContract!Settled

\* prqueue_peek returns an event that nothing in the queue comes before.
LEMMA HeadSettles == QueueInv => HeadSettled
  <1>1. SUFFICES ASSUME QueueInv, mode \notin {"up", "down"} PROVE QueueContract!Settled
    BY DEF HeadSettled
  <1>2. QueueTypeOK /\ size \in Nat /\ size >= 1 /\ \A k \in Cells : Node(k) = heap[k]
    BY <1>1, NoHole DEF QueueInv, QueueTypeOK
  <1>3. /\ \A k \in Cells : heap[k] \in InQueue
        /\ \A e \in InQueue : \E k \in Cells : heap[k] = e
    BY <1>1, <1>2 DEF QueueInv, OneCellEach
  <1>4. CASE size = 1
    <2>1. Cells = {} BY <1>4 DEF Cells
    <2> QED BY <1>1, <1>3, <1>4, <2>1 DEF QueueContract!Settled, QueueContract!Queued, InQueue
  <1>5. CASE size > 1
    <2>1. 1 \in Cells BY <1>2, <1>5 DEF Cells
    <2>2. \A e \in InQueue : pri[heap[1]] <= pri[e] BY <1>1, <1>3, RootIsFirst
    <2> QED BY <1>1, <1>3, <1>5, <2>1, <2>2 DEF QueueContract!Settled, QueueContract!Queued, InQueue
  <1> QED BY <1>2, <1>4, <1>5

\* The queue starts as the contract does.
LEMMA InitImplements == ASSUME QueueInit PROVE QueueContract!Init
  BY DEF QueueInit, QueueContract!Init

\* After a step, an operation is under way or the head is settled.
LEMMA ShownAfter == ASSUME HeadSettled' PROVE QueueContract!Shown
  <1>1. CASE mode' \in {"up", "down"} BY <1>1 DEF QueueContract!Shown
  <1>2. CASE mode' \notin {"up", "down"} BY <1>2 DEF HeadSettled, QueueContract!Shown
  <1> QED BY <1>1, <1>2

\* Every operation is one of the contract's, every end of a loop settles, and the
\* turns between are not seen (squeue.c, prqueue.c).
LEMMA StepsImplement ==
    ASSUME QueueInv, HeadSettled', [QueueNext]_queueVars
    PROVE  [QueueContract!Next]_(QueueContract!vars)
  <1>1. QueueContract!Shown BY ShownAfter
  <1>2. mode = "idle" /\ QueueTypeOK => SeenHead # Busy
    <2>1. ASSUME mode = "idle", QueueTypeOK PROVE SeenHead # Busy
      <3>1. CASE size = 1 BY <2>1, <3>1, PriorityQueueConstants DEF SeenHead
      <3>2. CASE size # 1
        <4>1. 1 \in Cells BY <2>1, <3>2 DEF QueueTypeOK, Cells
        <4>2. heap[1] \in Events BY <2>1, <4>1 DEF QueueTypeOK
        <4> QED BY <2>1, <3>2, <4>2, PriorityQueueConstants DEF SeenHead
      <3> QED BY <3>1, <3>2
    <2> QED BY <2>1
  <1>3. QueueTypeOK BY DEF QueueInv
  <1>4. ASSUME NEW e \in Events, NEW p \in Priorities, prqueue_insert(e, p) PROVE QueueContract!Next
    <2>1. QueueContract!Add(e, p)
      BY <1>1, <1>4 DEF prqueue_insert, QueueContract!Add, QueueContract!Queued, InQueue
    <2> QED BY <1>2, <1>3, <1>4, <2>1 DEF QueueContract!Next, SeenHead, prqueue_insert
  <1>5. ASSUME NEW e \in Events, NEW p \in Priorities, prqueue_change_priority(e, p)
        PROVE  QueueContract!Next
    <2>1. QueueContract!Move(e, p)
      BY <1>1, <1>5 DEF prqueue_change_priority, QueueContract!Move, QueueContract!Queued, InQueue
    <2> QED BY <1>2, <1>3, <1>5, <2>1 DEF QueueContract!Next, SeenHead, prqueue_change_priority
  <1>6. ASSUME NEW e \in Events, prqueue_remove(e) PROVE QueueContract!Next
    <2>1. QueueContract!Remove(e)
      BY <1>1, <1>6 DEF prqueue_remove, Replaced, QueueContract!Remove, QueueContract!Queued, InQueue
    <2> QED BY <1>2, <1>3, <1>6, <2>1 DEF QueueContract!Next, SeenHead, prqueue_remove
  <1>7. ASSUME prqueue_pop PROVE QueueContract!Next
    <2>1. 1 \in Cells /\ mode = "idle" BY <1>3, <1>7 DEF prqueue_pop, QueueTypeOK, Cells
    <2>2. heap[1] \in InQueue BY <1>3, <2>1, NoHole DEF QueueInv, OneCellEach
    <2>3. PICK e \in Events : e = heap[1] /\ e \in InQueue BY <2>2 DEF InQueue
    <2>4. QueueContract!Remove(e)
      BY <1>1, <1>7, <2>3 DEF prqueue_pop, Replaced, QueueContract!Remove, QueueContract!Queued, InQueue
    <2> QED BY <1>2, <1>3, <2>1, <2>4 DEF QueueContract!Next, SeenHead
  <1>8. ASSUME bubble_up \/ percolate_down PROVE UNCHANGED QueueContract!vars
    BY <1>8 DEF bubble_up, percolate_down, Turn, QueueContract!vars
  <1>9. ASSUME Place PROVE QueueContract!Next
    <2>1. QueueContract!Settle BY <1>1, <1>9 DEF Place, QueueContract!Settle
    <2> QED BY <2>1 DEF QueueContract!Next
  <1>10. ASSUME PopDuplicate \/ Renumber PROVE UNCHANGED QueueContract!vars
    BY <1>10 DEF PopDuplicate, Renumber, QueueContract!vars
  <1>11. ASSUME UNCHANGED queueVars PROVE UNCHANGED QueueContract!vars BY <1>11 DEF queueVars, QueueContract!vars
  <1> QED BY <1>4, <1>5, <1>6, <1>7, <1>8, <1>9, <1>10, <1>11 DEF QueueNext

\* The queue keeps its contract, for any events and priorities: whatever is
\* added, moved and removed, in any order, the event that is popped next is one
\* that nothing comes before.
THEOREM QueueImplementsContract == QueueSpec => ImplementsQueueContract
  <1>1. QueueInit => QueueContract!Init BY InitImplements
  <1>2. QueueInv /\ HeadSettled' /\ [QueueNext]_queueVars => [QueueContract!Next]_(QueueContract!vars)
    BY StepsImplement
  <1> QED BY <1>1, <1>2, HeadSettles, QueueInvariant, PTL DEF QueueSpec, ImplementsQueueContract, QueueContract!Spec
=============================================================================
