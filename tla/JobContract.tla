---------------------------- MODULE JobContract ----------------------------
(***************************************************************************)
(* What a worker promises the master, whatever happens inside it: a job    *)
(* that was sent is taken or refused, a job that was taken is answered, and *)
(* no job is ever answered twice or without having been sent.  The worker  *)
(* process of lib/worker.c (module Worker) implements this contract, and   *)
(* the master of base/workers.c (module WorkerPool) relies on nothing else. *)
(***************************************************************************)
EXTENDS Sequences

CONSTANTS Jobs, Reasons

VARIABLES
    status,   \* how far each job has come
    answers   \* the responses, in the order in which they were written

cvars == <<status, answers>>

CInit ==
    /\ status = [j \in Jobs |-> "idle"]
    /\ answers = <<>>

Send(j) ==
    /\ status[j] = "idle"
    /\ status' = [status EXCEPT ![j] = "sent"]
    /\ UNCHANGED answers

Take(j) ==
    /\ status[j] = "sent"
    /\ status' = [status EXCEPT ![j] = "taken"]
    /\ UNCHANGED answers

\* A job is refused ("error_msg") or, once taken, answered with any other reason.
Answer(j) ==
    \E r \in Reasons :
        /\ status[j] = IF r = "error_msg" THEN "sent" ELSE "taken"
        /\ status' = [status EXCEPT ![j] = "answered"]
        /\ answers' = Append(answers, [job |-> j, reason |-> r])

CNext == \E j \in Jobs : Send(j) \/ Take(j) \/ Answer(j)

CSpec == CInit /\ [][CNext]_cvars
=============================================================================
