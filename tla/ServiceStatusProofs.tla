------------------------ MODULE ServiceStatusProofs ------------------------
(***************************************************************************)
(* Proofs about ServiceStatus, for every number of attempts, every set of  *)
(* return codes and every notification setting.                            *)
(*                                                                         *)
(* The state part (IInv) is inductive with the acknowledgement agreeing    *)
(* with its type.  The notification part (NtfInv) is about the record ntf  *)
(* alone, and is preserved by service_notification whatever the state is.  *)
(***************************************************************************)
EXTENDS ServiceStatus, TLAPS

Types == {"SOFT", "HARD"}
AckTypes == {"NONE", "NORMAL", "STICKY"}
NtfType == [number : 0..MaxNumber, notified_on : SUBSET States, no_more : BOOLEAN,
            waiting : BOOLEAN, sent : SUBSET Kinds, alerted : BOOLEAN,
            unprompted : BOOLEAN, reported : BOOLEAN]

\* An acknowledgement has a type.  Without it AckAfter could keep one.
AckAgrees == problem_has_been_acknowledged => acknowledgement_type # "NONE"

\* The notification state on its own: the number and the states notified on
\* agree, and a recovery is only owed after a problem was sent.
NtfInv(n) ==
    /\ n \in NtfType
    /\ n.notified_on # {} => n.alerted
    /\ ~n.unprompted
    /\ ~MayBlock => (n.number > 0 <=> n.notified_on # {})

IInv == TypeOK /\ OKIsSettled /\ TypesAgree /\ ProblemHasId /\ AckAgrees /\ NtfInv(ntf)

-----------------------------------------------------------------------------
\* Every return code is a state, whatever plugins exit with.
LEMMA ReturnCodesAreStates == ReturnCodes \subseteq States
<1>1. SUFFICES ASSUME NEW cr \in Results
               PROVE  get_service_check_return_code(cr) \in States
  BY <1>1 DEF ReturnCodes
<1>2. cr.passive \in BOOLEAN /\ cr.early_timeout \in BOOLEAN /\ cr.exited_ok \in BOOLEAN
  BY DEF Results
<1>3. cr.passive => cr.code \in States
  BY DEF Results
<1>4. TimeoutState \in States
  BY ServiceConstants
<1> QED
  BY <1>2, <1>3, <1>4 DEF get_service_check_return_code, States, CRITICAL

\* What a result makes of the state, from any state the invariant allows.
LEMMA OutcomeFacts ==
    ASSUME IInv, NEW cur \in States,
           NEW r, r = Outcome(cur)
    PROVE  /\ r.hostProblem \in BOOLEAN /\ r.change \in BOOLEAN /\ r.hardChange \in BOOLEAN
           /\ r.notify \in BOOLEAN /\ r.handle \in BOOLEAN
           /\ r.attempt \in 1..MaxAttempts /\ r.type \in Types /\ r.lastHard \in States
           /\ cur # current_state => r.change
           /\ r.change => cur # current_state
           /\ cur = OK /\ current_state = OK =>
                 r.type = "HARD" /\ r.attempt = 1 /\ r.lastHard = OK
           /\ r.type = "SOFT" /\ cur # OK => r.attempt < MaxAttempts
           /\ r.type = "HARD" => r.lastHard = cur
           /\ r.type # state_type => r.change \/ r.hardChange
<1>1. /\ current_state \in 0..3 /\ last_hard_state \in 0..3 /\ state_type \in Types
      /\ current_attempt \in 1..MaxAttempts /\ cur \in 0..3 /\ OK = 0
      /\ host_problem_at_last_check \in BOOLEAN /\ hst.up \in BOOLEAN /\ hst.checked \in BOOLEAN
      /\ MaxAttempts \in Nat /\ MaxAttempts > 0
  BY ServiceConstants DEF IInv, TypeOK, States, Hosts, Types, OK
<1>2. /\ current_state = OK => state_type = "HARD" /\ current_attempt = 1 /\ last_hard_state = OK
      /\ state_type = "SOFT" => current_state # OK /\ current_attempt < MaxAttempts
      /\ state_type = "HARD" => last_hard_state = current_state
  BY DEF IInv, OKIsSettled, TypesAgree
<1> DEFINE hostProblem == IF cur = OK THEN host_problem_at_last_check \/ (hst.checked /\ ~hst.up)
                          ELSE ~hst.up
           attempt0 == IF cur # OK /\ hst.up /\ host_problem_at_last_check /\ state_type = "SOFT"
                       THEN 1 ELSE current_attempt
           forced == ~hst.up /\ last_hard_state # cur
           type1 == IF forced THEN "HARD" ELSE state_type
           attempt1 == IF forced THEN MaxAttempts ELSE attempt0
           lastHard1 == IF forced THEN cur ELSE last_hard_state
           recovery == current_state # OK /\ cur = OK
           type2 == IF current_state = OK /\ cur = OK THEN "HARD"
                    ELSE IF current_state = OK /\ ~hostProblem /\ ~forced THEN "SOFT" ELSE type1
           attempt2 == IF current_state = OK \/ (recovery /\ type1 = "HARD") THEN 1 ELSE attempt1
           change == cur # current_state \/ (cur = OK /\ type2 = "SOFT")
           attempt3 == NextAttempt(current_state, cur, type2, change, attempt2)
           atMax == AtMax(attempt3, cur, lastHard1, type2)
           hardChange == forced \/ (recovery /\ type1 = "HARD") \/ atMax
<1>3. /\ r.hostProblem = hostProblem /\ r.change = change /\ r.hardChange = hardChange
      /\ r.attempt = attempt3
      /\ r.type = IF hardChange THEN "HARD" ELSE IF change THEN "SOFT" ELSE type2
      /\ r.lastHard = IF hardChange THEN cur ELSE lastHard1
      /\ r.notify \in BOOLEAN /\ r.handle \in BOOLEAN
  BY DEF Outcome
<1>4. attempt1 \in 1..MaxAttempts /\ type1 \in Types /\ lastHard1 \in 0..3
  BY <1>1 DEF Types
<1>5. attempt2 \in 1..MaxAttempts /\ type2 \in Types
  BY <1>1, <1>4 DEF Types
<1>6. change <=> cur # current_state
  BY <1>1, <1>2 DEF Types
<1>7. attempt3 \in 1..MaxAttempts
  BY <1>1, <1>5 DEF NextAttempt
<1>8. hostProblem \in BOOLEAN /\ change \in BOOLEAN /\ hardChange \in BOOLEAN
  BY <1>1 DEF AtMax
<1>9. type2 = "HARD" /\ ~forced => last_hard_state = current_state
  BY <1>1, <1>2 DEF Types
<1>10. cur = OK /\ current_state = OK => type2 = "HARD" /\ attempt3 = 1 /\ lastHard1 = OK
  BY <1>1, <1>2 DEF NextAttempt
<1>11. type2 # state_type => change \/ hardChange
  BY <1>1, <1>2, <1>6
<1>12. ~atMax /\ (type2 = "SOFT" \/ cur # lastHard1) /\ cur # OK => attempt3 < MaxAttempts
  BY <1>1, <1>7 DEF AtMax
<1> HIDE DEF hostProblem, forced, type1, type2, attempt1, attempt2, attempt3, change, atMax, recovery
<1>13. r.type = "SOFT" /\ cur # OK => r.attempt < MaxAttempts
  BY <1>1, <1>3, <1>5, <1>6, <1>9, <1>12 DEF Types
<1>14. r.type = "HARD" => r.lastHard = cur
  BY <1>1, <1>3, <1>5, <1>6, <1>9, <1>12 DEF Types
<1> QED
  BY <1>1, <1>3, <1>4, <1>5, <1>6, <1>7, <1>8, <1>10, <1>11, <1>13, <1>14 DEF Types, States

-----------------------------------------------------------------------------
Update(n, number, on, no_more, waiting, sent, alerted, unprompted, reported) ==
    [n EXCEPT !.number = number, !.notified_on = on, !.no_more = no_more,
              !.waiting = waiting, !.sent = sent, !.alerted = alerted,
              !.unprompted = unprompted, !.reported = reported]

\* Assigning every field of the notification state keeps its type.
LEMMA UpdateFacts ==
    ASSUME NEW n \in NtfType, NEW number \in 0..MaxNumber, NEW on \in SUBSET States,
           NEW no_more \in BOOLEAN, NEW waiting \in BOOLEAN, NEW sent \in SUBSET Kinds,
           NEW alerted \in BOOLEAN, NEW unprompted \in BOOLEAN, NEW reported \in BOOLEAN,
           NEW m, m = Update(n, number, on, no_more, waiting, sent, alerted, unprompted, reported)
    PROVE  /\ m \in NtfType
           /\ m.number = number /\ m.notified_on = on
           /\ m.alerted = alerted /\ m.unprompted = unprompted
<1> DEFINE u == [n EXCEPT !.number = number, !.notified_on = on, !.no_more = no_more,
                          !.waiting = waiting, !.sent = sent, !.alerted = alerted,
                          !.unprompted = unprompted, !.reported = reported]
<1>1. u \in NtfType
  BY DEF NtfType
<1>2. /\ u.number = number /\ u.notified_on = on
      /\ u.alerted = alerted /\ u.unprompted = unprompted
  BY DEF NtfType
<1>3. m = u
  BY DEF Update
<1> HIDE DEF u
<1> QED
  BY <1>1, <1>2, <1>3

\* Whatever becomes of a notification, the notification state stays consistent,
\* provided that recoveries are only announced for an OK state.
LEMMA NotificationKeepsNtfInv ==
    ASSUME NEW n, NtfInv(n), NEW kind \in Kinds, NEW o,
           o.state \in States, kind = "RECOVERY" => o.state = OK,
           NEW m \in service_notification(n, kind, o)
    PROVE  NtfInv(m)
<1>1. MaxNumber \in Nat /\ MaxNumber > 0 /\ MayBlock \in BOOLEAN
  BY ServiceConstants
<1>2. n \in NtfType
  BY DEF NtfInv
<1>3. /\ n.number \in 0..MaxNumber /\ n.notified_on \subseteq States /\ n.sent \subseteq Kinds
      /\ n.waiting \in BOOLEAN /\ n.alerted \in BOOLEAN /\ n.unprompted \in BOOLEAN
      /\ n.reported \in BOOLEAN
  BY <1>2 DEF NtfType
<1>4. Saturated(n.number + 1) \in 1..MaxNumber
  BY <1>1, <1>3 DEF Saturated
<1>5. CASE m = Unsent(n, kind)
  <2> DEFINE unwanted == kind = "RECOVERY" /\ OK \notin NotifyOn
             number == IF unwanted THEN 0 ELSE n.number
             on == IF unwanted THEN {} ELSE n.notified_on
             waiting == IF NotificationInterval = 0 /\ "downtime" \in suppress THEN FALSE
                        ELSE n.waiting \/ (kind = "NORMAL" /\ "outside period" \in suppress)
  <2>1. number \in 0..MaxNumber /\ on \in SUBSET States /\ waiting \in BOOLEAN
    <3>1. number \in 0..MaxNumber
      BY <1>1, <1>3
    <3>2. on \in SUBSET States
      BY <1>3
    <3>3. waiting \in BOOLEAN
      BY <1>3, Zenon
    <3> QED
      BY <3>1, <3>2, <3>3
  <2>2. m = [n EXCEPT !.number = number, !.notified_on = on, !.waiting = waiting]
    <3>1. Unsent(n, kind) = [n EXCEPT !.number = number, !.notified_on = on, !.waiting = waiting]
      BY Zenon DEF Unsent
    <3> QED
      BY <1>5, <3>1
  <2>3. /\ on # {} => n.notified_on # {}
        /\ ~MayBlock => (number > 0 <=> on # {})
    BY DEF NtfInv
  <2> HIDE DEF number, on, waiting
  <2>4. m \in NtfType
    BY <1>2, <2>1, <2>2 DEF NtfType
  <2>5. m.number = number /\ m.notified_on = on /\ m.alerted = n.alerted /\ m.unprompted = n.unprompted
    BY <1>2, <2>2 DEF NtfType
  <2> QED
    BY <2>3, <2>4, <2>5 DEF NtfInv
<1>6. CASE /\ MayBlock
           /\ m = [n EXCEPT !.number = IF kind = "NORMAL" THEN Saturated(@ + 1) ELSE @]
  <2>1. (IF kind = "NORMAL" THEN Saturated(n.number + 1) ELSE n.number) \in 0..MaxNumber
    BY <1>1, <1>3, <1>4
  <2> QED
    BY <1>2, <1>6, <2>1 DEF NtfInv, NtfType
<1>7. ASSUME NEW i \in Intervals, m = Sent(n, kind, o, i),
             kind \in {"NORMAL", "RECOVERY"},
             check_service_notification_viability(n, kind, o)
      PROVE  NtfInv(m)
  <2> DEFINE number == IF kind = "NORMAL" THEN Saturated(n.number + 1) ELSE 0
             on == IF kind = "NORMAL" THEN n.notified_on \cup {o.state} ELSE {}
             no_more == (i = 0 /\ ~Volatile)
             waiting == (i > 0)
             sent == n.sent \cup {kind}
             alerted == (kind = "NORMAL")
             unprompted == (n.unprompted \/ (kind = "RECOVERY" /\ ~n.alerted))
             reported == (n.reported \/ kind = "NORMAL")
  <2>1. kind = "RECOVERY" => n.notified_on # {}
    BY <1>7 DEF check_service_notification_viability
  <2>2. /\ number \in 0..MaxNumber /\ on \in SUBSET States /\ sent \in SUBSET Kinds
        /\ no_more \in BOOLEAN /\ waiting \in BOOLEAN /\ alerted \in BOOLEAN
        /\ unprompted \in BOOLEAN /\ reported \in BOOLEAN
    BY <1>1, <1>3, <1>4
  <2>3. m = Update(n, number, on, no_more, waiting, sent, alerted, unprompted, reported)
    BY <1>7 DEF Sent, Update
  <2>4. /\ on # {} => alerted
        /\ ~unprompted
        /\ number > 0 <=> on # {}
    BY <1>1, <1>4, <1>7, <2>1 DEF NtfInv
  <2> HIDE DEF number, on, no_more, waiting, sent, alerted, unprompted, reported
  <2>5. /\ m \in NtfType
        /\ m.number = number /\ m.notified_on = on
        /\ m.alerted = alerted /\ m.unprompted = unprompted
    BY <1>2, <2>2, <2>3, UpdateFacts
  <2> QED
    BY <2>4, <2>5 DEF NtfInv
<1>8. CASE m = [n EXCEPT !.sent = @ \cup {kind}]
  BY <1>2, <1>8 DEF NtfInv, NtfType
<1>9. \/ m = Unsent(n, kind)
      \/ /\ MayBlock
         /\ m = [n EXCEPT !.number = IF kind = "NORMAL" THEN Saturated(@ + 1) ELSE @]
      \/ m = n
      \/ /\ kind \in {"NORMAL", "RECOVERY"} /\ check_service_notification_viability(n, kind, o)
         /\ \E i \in Intervals : m = Sent(n, kind, o, i)
      \/ m = [n EXCEPT !.sent = @ \cup {kind}]
  BY <1>1 DEF service_notification
<1> QED
  BY <1>5, <1>6, <1>7, <1>8, <1>9

\* What flap detection does keeps the notification state consistent.
LEMMA FlapKeepsNtfInv ==
    ASSUME NEW n, NtfInv(n), NEW o, o.state \in States,
           o = [state |-> o.state, type |-> o.type, acked |-> o.acked,
                flapping |-> o.flapping, early |-> o.early],
           is_flapping \in BOOLEAN, check_flapping_recovery_notification \in BOOLEAN,
           NEW f \in Flap(n, o)
    PROVE  NtfInv(f.ntf) /\ f.flapping \in BOOLEAN /\ f.recovery \in BOOLEAN
<1> DEFINE started == [o EXCEPT !.flapping = TRUE]
           stopped == [o EXCEPT !.flapping = FALSE]
<1>1. started.state = o.state /\ stopped.state = o.state
  OBVIOUS
<1>2. "FLAPPING" \in Kinds /\ "RECOVERY" \in Kinds
  BY DEF Kinds
<1>3. \A m \in service_notification(n, "FLAPPING", started) : NtfInv(m)
  BY <1>1, <1>2, NotificationKeepsNtfInv
<1>4. \A m \in service_notification(n, "FLAPPING", stopped) : NtfInv(m)
  BY <1>1, <1>2, NotificationKeepsNtfInv
<1>5. ASSUME o.state = OK, NEW m \in service_notification(n, "FLAPPING", stopped),
             NEW l \in service_notification(m, "RECOVERY", stopped)
      PROVE  NtfInv(l)
  BY <1>1, <1>2, <1>4, <1>5, NotificationKeepsNtfInv
<1>6. (n.number > 0) \in BOOLEAN
  OBVIOUS
<1> HIDE DEF started, stopped
<1>7. CASE f = [flapping |-> is_flapping,
                recovery |-> check_flapping_recovery_notification, ntf |-> n]
  BY <1>7
<1>8. CASE f = [flapping |-> FALSE, recovery |-> FALSE, ntf |-> n]
  BY <1>8
<1>9. ASSUME NEW m \in service_notification(n, "FLAPPING", started),
             f = [flapping |-> TRUE, recovery |-> n.number > 0, ntf |-> m]
      PROVE  NtfInv(f.ntf) /\ f.flapping \in BOOLEAN /\ f.recovery \in BOOLEAN
  BY <1>3, <1>6, <1>9
<1>10. ASSUME NEW m, NtfInv(m), f = [flapping |-> FALSE, recovery |-> FALSE, ntf |-> m]
       PROVE  NtfInv(f.ntf) /\ f.flapping \in BOOLEAN /\ f.recovery \in BOOLEAN
  BY <1>10
<1>11. \/ f = [flapping |-> is_flapping,
               recovery |-> check_flapping_recovery_notification, ntf |-> n]
       \/ f = [flapping |-> FALSE, recovery |-> FALSE, ntf |-> n]
       \/ \E m \in service_notification(n, "FLAPPING", started) :
             f = [flapping |-> TRUE, recovery |-> n.number > 0, ntf |-> m]
       \/ \E m \in service_notification(n, "FLAPPING", stopped) :
             f = [flapping |-> FALSE, recovery |-> FALSE, ntf |-> m]
       \/ /\ o.state = OK
          /\ \E m \in service_notification(n, "FLAPPING", stopped) :
                \E l \in service_notification(m, "RECOVERY", stopped) :
                   f = [flapping |-> FALSE, recovery |-> FALSE, ntf |-> l]
  BY DEF Flap, started, stopped
<1> QED
  BY <1>4, <1>5, <1>7, <1>8, <1>9, <1>10, <1>11

-----------------------------------------------------------------------------
\* The typed part of the state, in the form the provers use it.
LEMMA TypeFacts ==
    ASSUME IInv
    PROVE  /\ current_state \in 0..3 /\ last_hard_state \in 0..3 /\ state_type \in Types
           /\ current_attempt \in 1..MaxAttempts /\ host_problem_at_last_check \in BOOLEAN
           /\ current_problem_id \in 0..MaxProblems /\ next_problem_id \in 1..(MaxProblems + 1)
           /\ problem_has_been_acknowledged \in BOOLEAN /\ acknowledgement_type \in AckTypes
           /\ is_flapping \in BOOLEAN /\ check_flapping_recovery_notification \in BOOLEAN
           /\ ntf \in NtfType /\ NtfInv(ntf) /\ early \in BOOLEAN /\ hst \in Hosts
           /\ MaxAttempts \in Nat /\ MaxAttempts > 0 /\ MaxProblems \in Nat /\ Delayed \in BOOLEAN
  BY ServiceConstants DEF IInv, TypeOK, States, Types, AckTypes, NtfType

\* Forgetting what the last step sent, and what a change of state resets,
\* leaves the notification state consistent.
LEMMA QuietAndReset ==
    ASSUME NEW n, NtfInv(n)
    PROVE  NtfInv([n EXCEPT !.sent = {}]) /\ NtfInv(Reset(n)) /\ NtfInv([n EXCEPT !.sent = {}, !.waiting = FALSE])
<1>1. n \in NtfType
  BY DEF NtfInv
<1> QED
  BY <1>1 DEF NtfInv, NtfType, Reset

\* The acknowledgement after a result.
LEMMA AckFacts ==
    ASSUME IInv, NEW cur \in States, NEW r, r = Outcome(cur)
    PROVE  /\ AckAfter(cur, r).acked \in BOOLEAN /\ AckAfter(cur, r).type \in AckTypes
           /\ AckAfter(cur, r).acked => AckAfter(cur, r).type # "NONE"
           /\ cur = OK => ~AckAfter(cur, r).acked
           /\ problem_has_been_acknowledged /\ ~AckAfter(cur, r).acked /\ cur # OK =>
                 acknowledgement_type = "NORMAL" /\ cur # current_state
<1>1. /\ problem_has_been_acknowledged \in BOOLEAN /\ acknowledgement_type \in AckTypes
      /\ problem_has_been_acknowledged => acknowledgement_type # "NONE"
      /\ current_state = OK => ~problem_has_been_acknowledged
  BY TypeFacts DEF IInv, AckAgrees, OKIsSettled
<1>2. /\ cur # current_state => r.change
      /\ r.change => cur # current_state
  BY OutcomeFacts
<1> QED
  BY <1>1, <1>2 DEF AckAfter, Moved, AckTypes

-----------------------------------------------------------------------------
\* A result, taken apart: the equations of HandleResult with the outcome, the
\* acknowledgement and the flapping state named.
LEMMA ResultFacts ==
    ASSUME NEW cur, HandleResult(cur)
    PROVE  \E r \in {Outcome(cur)}, ack \in {AckAfter(cur, Outcome(cur))} :
              /\ current_state' = cur
              /\ state_type' = IF cur = OK /\ r.change THEN "HARD" ELSE r.type
              /\ current_attempt' = IF cur = OK /\ r.change THEN 1 ELSE r.attempt
              /\ last_hard_state' = IF cur = OK /\ r.change THEN OK ELSE r.lastHard
              /\ host_problem_at_last_check' = (r.hostProblem /\ ~((cur = OK /\ r.change) /\ r.hardChange))
              /\ current_problem_id' = ProblemAfter(cur, r)
              /\ next_problem_id' = next_problem_id + (IF r.change /\ current_state = OK THEN 1 ELSE 0)
              /\ cur # OK /\ current_state = OK => next_problem_id <= MaxProblems
              /\ problem_has_been_acknowledged' = ack.acked
              /\ acknowledgement_type' = ack.type
              /\ early' \in {Delayed, early}
              /\ parents' = parents /\ suppress' = suppress
  BY DEF HandleResult, envVars
\* A result keeps the state part of the invariant; one outage keeps its id, and
\* the event handler is asked for when the state or its type changes.
LEMMA ResultKeepsState ==
    ASSUME IInv, NEW cur \in States, HandleResult(cur)
    PROVE  /\ current_state' \in States /\ last_hard_state' \in States /\ state_type' \in Types
           /\ current_attempt' \in 1..MaxAttempts /\ host_problem_at_last_check' \in BOOLEAN
           /\ current_problem_id' \in 0..MaxProblems /\ next_problem_id' \in 1..(MaxProblems + 1)
           /\ problem_has_been_acknowledged' \in BOOLEAN /\ acknowledgement_type' \in AckTypes
           /\ early' \in BOOLEAN
           /\ OKIsSettled' /\ TypesAgree' /\ ProblemHasId' /\ AckAgrees'
           /\ current_state # OK /\ current_state' # OK => current_problem_id' = current_problem_id
           /\ current_state = OK /\ current_state' # OK => current_problem_id' >= next_problem_id
<1> DEFINE r == Outcome(cur)
           ack == AckAfter(cur, r)
           recovered == cur = OK /\ r.change
<1>1. /\ current_state' = cur
      /\ state_type' = IF recovered THEN "HARD" ELSE r.type
      /\ current_attempt' = IF recovered THEN 1 ELSE r.attempt
      /\ last_hard_state' = IF recovered THEN OK ELSE r.lastHard
      /\ host_problem_at_last_check' = (r.hostProblem /\ ~(recovered /\ r.hardChange))
      /\ current_problem_id' = ProblemAfter(cur, r)
      /\ next_problem_id' = next_problem_id + (IF r.change /\ current_state = OK THEN 1 ELSE 0)
      /\ cur # OK /\ current_state = OK => next_problem_id <= MaxProblems
      /\ problem_has_been_acknowledged' = ack.acked
      /\ acknowledgement_type' = ack.type
      /\ early' \in {Delayed, early}
  BY ResultFacts
<1>2. /\ r.hostProblem \in BOOLEAN /\ r.hardChange \in BOOLEAN
      /\ r.attempt \in 1..MaxAttempts /\ r.type \in Types /\ r.lastHard \in States
      /\ r.change <=> cur # current_state
      /\ cur = OK /\ current_state = OK => r.type = "HARD" /\ r.attempt = 1 /\ r.lastHard = OK
      /\ r.type = "SOFT" /\ cur # OK => r.attempt < MaxAttempts
      /\ r.type = "HARD" => r.lastHard = cur
  BY OutcomeFacts
<1>3. /\ ack.acked \in BOOLEAN /\ ack.type \in AckTypes
      /\ ack.acked => ack.type # "NONE"
      /\ cur = OK => ~ack.acked
  BY AckFacts
<1>4. cur \in 0..3 /\ OK = 0
  BY DEF States, OK
<1> HIDE DEF r, ack
<1>5. /\ current_state' \in States /\ last_hard_state' \in States /\ state_type' \in Types
      /\ current_attempt' \in 1..MaxAttempts
  BY <1>1, <1>2, <1>4, TypeFacts DEF Types, States
<1>6. host_problem_at_last_check' \in BOOLEAN /\ early' \in BOOLEAN
      /\ problem_has_been_acknowledged' \in BOOLEAN /\ acknowledgement_type' \in AckTypes
  BY <1>1, <1>2, <1>3, TypeFacts
<1>7. current_state = OK => current_problem_id = 0
  BY DEF IInv, OKIsSettled
<1>8. /\ current_problem_id' = IF cur = current_state THEN current_problem_id
                               ELSE IF cur = OK THEN 0
                               ELSE IF current_state = OK THEN next_problem_id ELSE current_problem_id
      /\ next_problem_id' = next_problem_id + (IF cur # current_state /\ current_state = OK THEN 1 ELSE 0)
  BY <1>1, <1>2 DEF ProblemAfter
<1>9. /\ current_problem_id' \in 0..MaxProblems /\ next_problem_id' \in 1..(MaxProblems + 1)
      /\ current_state # OK /\ current_state' # OK => current_problem_id' = current_problem_id
      /\ current_state = OK /\ current_state' # OK => current_problem_id' >= next_problem_id
      /\ cur = OK => current_problem_id' = 0
  BY <1>1, <1>4, <1>7, <1>8, TypeFacts
<1>10. OKIsSettled'
  BY <1>1, <1>2, <1>3, <1>9 DEF OKIsSettled
<1>11. TypesAgree'
  BY <1>1, <1>2 DEF TypesAgree, Types
<1>12. ProblemHasId'
  BY <1>1, <1>7, <1>8, <1>9, TypeFacts DEF IInv, ProblemHasId
<1>13. AckAgrees'
  BY <1>1, <1>3 DEF AckAgrees
<1> QED
  BY <1>5, <1>6, <1>9, <1>10, <1>11, <1>12, <1>13

\* A problem is announced only by a notification about one, in a hard state that
\* is not acknowledged; and an OK state only if someone was told of a problem.
LEMMA NotificationSends ==
    ASSUME NEW n \in NtfType, NEW kind, NEW o, NEW m \in service_notification(n, kind, o),
           "NORMAL" \in m.sent
    PROVE  \/ "NORMAL" \in n.sent
           \/ /\ kind = "NORMAL" /\ o.type = "HARD" /\ ~o.acked
              /\ o.state = OK => n.notified_on # {}
<1>1. CASE kind \in {"NORMAL", "RECOVERY"} /\ \E i \in Intervals : m = Sent(n, kind, o, i)
  <2>1. PICK i \in Intervals : m = Sent(n, kind, o, i)
    BY <1>1
  <2>2. m.sent = n.sent \cup {kind}
    BY <2>1 DEF Sent, NtfType
  <2>3. CASE "NORMAL" \notin n.sent
    <3>1. kind = "NORMAL"
      BY <2>2, <2>3
    <3>2. CASE check_service_notification_viability(n, kind, o)
      BY <3>1, <3>2 DEF check_service_notification_viability
    <3>3. CASE ~check_service_notification_viability(n, kind, o)
      <4>1. m = Unsent(n, kind)
        BY <3>3 DEF service_notification
      <4> QED
        BY <2>3, <4>1 DEF Unsent, NtfType
    <3> QED
      BY <3>2, <3>3
  <2> QED
    BY <2>3
<1>2. CASE m = Unsent(n, kind) \/ m = n \/ m = [n EXCEPT !.number = IF kind = "NORMAL" THEN Saturated(@ + 1) ELSE @]
  BY <1>2 DEF Unsent, NtfType
<1>3. CASE kind \notin {"NORMAL", "RECOVERY"} /\ m = [n EXCEPT !.sent = @ \cup {kind}]
  BY <1>3 DEF NtfType
<1> QED
  BY <1>1, <1>2, <1>3 DEF service_notification
\* Flap detection announces flapping or a recovery, never a problem.
LEMMA FlapSends ==
    ASSUME NEW n, NtfInv(n), n.sent = {}, NEW o, o.state \in States,
           o = [state |-> o.state, type |-> o.type, acked |-> o.acked,
                flapping |-> o.flapping, early |-> o.early],
           NEW f \in Flap(n, o)
    PROVE  "NORMAL" \notin f.ntf.sent
<1> DEFINE started == [o EXCEPT !.flapping = TRUE]
           stopped == [o EXCEPT !.flapping = FALSE]
<1>1. n \in NtfType
  BY DEF NtfInv
<1>2. started.state = o.state /\ stopped.state = o.state
  OBVIOUS
<1>3. "FLAPPING" \in Kinds /\ "RECOVERY" \in Kinds
  BY DEF Kinds
<1>4. \A m \in service_notification(n, "FLAPPING", started) : "NORMAL" \notin m.sent
  BY <1>1, NotificationSends
<1>5. \A m \in service_notification(n, "FLAPPING", stopped) : "NORMAL" \notin m.sent /\ m \in NtfType
  BY <1>1, <1>2, <1>3, NotificationSends, NotificationKeepsNtfInv DEF NtfInv
<1>6. ASSUME NEW m \in service_notification(n, "FLAPPING", stopped),
             NEW l \in service_notification(m, "RECOVERY", stopped)
      PROVE  "NORMAL" \notin l.sent
  <2>1. "NORMAL" \notin m.sent /\ m \in NtfType
    BY <1>5
  <2> QED
    BY <1>6, <2>1, NotificationSends
<1> HIDE DEF started, stopped
<1>7. \/ f = [flapping |-> is_flapping,
              recovery |-> check_flapping_recovery_notification, ntf |-> n]
      \/ f = [flapping |-> FALSE, recovery |-> FALSE, ntf |-> n]
      \/ \E m \in service_notification(n, "FLAPPING", started) :
            f = [flapping |-> TRUE, recovery |-> n.number > 0, ntf |-> m]
      \/ \E m \in service_notification(n, "FLAPPING", stopped) :
            f = [flapping |-> FALSE, recovery |-> FALSE, ntf |-> m]
      \/ \E m \in service_notification(n, "FLAPPING", stopped) :
            \E l \in service_notification(m, "RECOVERY", stopped) :
               f = [flapping |-> FALSE, recovery |-> FALSE, ntf |-> l]
  BY DEF Flap, started, stopped
<1> QED
  BY <1>4, <1>5, <1>6, <1>7

\* The notifications that follow a result: consistent, and about a problem that
\* was acknowledged only if the acknowledgement gave way to another state.
LEMMA ResultKeepsNtf ==
    ASSUME IInv, NEW cur \in States, HandleResult(cur)
    PROVE  /\ NtfInv(ntf)'
           /\ is_flapping' \in BOOLEAN /\ check_flapping_recovery_notification' \in BOOLEAN
           /\ problem_has_been_acknowledged /\ "NORMAL" \in ntf'.sent =>
                 acknowledgement_type = "NORMAL" /\ current_state' # current_state
<1>0. PICK r \in {Outcome(cur)} :
         LET ack == AckAfter(cur, r)
             o == [state |-> cur, type |-> r.type, acked |-> ack.acked, flapping |-> is_flapping,
                   early |-> IF r.hardChange THEN Delayed ELSE early]
             n == IF Moved(r) THEN Reset(Quiet) ELSE Quiet
             volatile == Volatile /\ cur # OK /\ r.type = "HARD"
         IN \E f \in Flap(n, o) :
               LET owed == Owed(f.ntf, cur, r)
               IN /\ is_flapping' = f.flapping
                  /\ check_flapping_recovery_notification' = f.recovery
                  /\ ntf' \in IF r.notify \/ volatile \/ owed
                              THEN service_notification(f.ntf, IF owed THEN "RECOVERY" ELSE "NORMAL",
                                                        [o EXCEPT !.flapping = f.flapping])
                              ELSE {f.ntf}
  BY Zenon DEF HandleResult
<1> DEFINE ack == AckAfter(cur, r)
           o == [state |-> cur, type |-> r.type, acked |-> ack.acked, flapping |-> is_flapping,
                 early |-> IF r.hardChange THEN Delayed ELSE early]
           n == IF Moved(r) THEN Reset(Quiet) ELSE Quiet
           volatile == Volatile /\ cur # OK /\ r.type = "HARD"
<1>1. \E f \in Flap(n, o) :
         /\ is_flapping' = f.flapping
         /\ check_flapping_recovery_notification' = f.recovery
         /\ ntf' \in IF r.notify \/ volatile \/ Owed(f.ntf, cur, r)
                     THEN service_notification(f.ntf, IF Owed(f.ntf, cur, r) THEN "RECOVERY" ELSE "NORMAL",
                                               [o EXCEPT !.flapping = f.flapping])
                     ELSE {f.ntf}
  BY <1>0, Zenon
<1>2. NtfInv(n) /\ n.sent = {}
  <2>1. NtfInv(Quiet) /\ Quiet.sent = {}
    BY TypeFacts, QuietAndReset DEF Quiet, NtfType
  <2>2. NtfInv(Reset(Quiet)) /\ Reset(Quiet).sent = {}
    BY <2>1, QuietAndReset DEF Reset, NtfInv, NtfType
  <2> QED
    BY <2>1, <2>2
<1>3. /\ o.state = cur /\ o.type = r.type /\ o.acked = ack.acked
      /\ o = [state |-> o.state, type |-> o.type, acked |-> o.acked,
              flapping |-> o.flapping, early |-> o.early]
  OBVIOUS
<1>4. /\ problem_has_been_acknowledged /\ ~ack.acked /\ cur # OK =>
            acknowledgement_type = "NORMAL" /\ cur # current_state
  BY AckFacts
<1> HIDE DEF ack, n, o
<1>5. PICK f \in Flap(n, o) :
         /\ is_flapping' = f.flapping
         /\ check_flapping_recovery_notification' = f.recovery
         /\ ntf' \in IF r.notify \/ volatile \/ Owed(f.ntf, cur, r)
                     THEN service_notification(f.ntf, IF Owed(f.ntf, cur, r) THEN "RECOVERY" ELSE "NORMAL",
                                               [o EXCEPT !.flapping = f.flapping])
                     ELSE {f.ntf}
  BY <1>1
<1>6. NtfInv(f.ntf) /\ f.flapping \in BOOLEAN /\ f.recovery \in BOOLEAN
  BY <1>2, <1>3, TypeFacts, FlapKeepsNtfInv
<1>7. "NORMAL" \notin f.ntf.sent
  BY <1>2, <1>3, FlapSends
<1> DEFINE now == [o EXCEPT !.flapping = f.flapping]
           owed == Owed(f.ntf, cur, r)
<1>8. now.state = cur /\ now.type = r.type /\ now.acked = ack.acked
  BY <1>3
<1>9. current_state' = cur
  BY ResultFacts
<1> HIDE DEF now, volatile
<1>10. CASE ntf' = f.ntf
  BY <1>5, <1>6, <1>7, <1>10 DEF NtfInv
<1>11. ASSUME owed, ntf' \in service_notification(f.ntf, "RECOVERY", now)
       PROVE  NtfInv(ntf') /\ "NORMAL" \notin ntf'.sent
  <2>1. cur = OK /\ "RECOVERY" \in Kinds
    BY <1>11 DEF Owed, Kinds
  <2>2. NtfInv(ntf')
    BY <1>6, <1>8, <1>11, <2>1, NotificationKeepsNtfInv
  <2>3. "NORMAL" \notin ntf'.sent
    BY <1>6, <1>7, <1>11, NotificationSends DEF NtfInv
  <2> QED
    BY <2>2, <2>3
<1>12. ASSUME ~owed, ntf' \in service_notification(f.ntf, "NORMAL", now)
       PROVE  NtfInv(ntf') /\ ("NORMAL" \in ntf'.sent => ~ack.acked /\ cur # OK)
  <2>1. "NORMAL" \in Kinds
    BY DEF Kinds
  <2>2. NtfInv(ntf')
    BY <1>6, <1>8, <1>12, <2>1, NotificationKeepsNtfInv
  <2>3. "NORMAL" \in ntf'.sent =>
           /\ r.type = "HARD" /\ ~ack.acked
           /\ cur = OK => f.ntf.notified_on # {}
    BY <1>6, <1>7, <1>8, <1>12, NotificationSends DEF NtfInv
  <2> QED
    BY <1>12, <2>2, <2>3 DEF Owed
<1>13. \/ ntf' = f.ntf
       \/ owed /\ ntf' \in service_notification(f.ntf, "RECOVERY", now)
       \/ ~owed /\ ntf' \in service_notification(f.ntf, "NORMAL", now)
  BY <1>5 DEF now
<1>14. NtfInv(ntf') /\ ("NORMAL" \in ntf'.sent => ~ack.acked /\ cur # OK)
  BY <1>6, <1>7, <1>11, <1>12, <1>13
<1>15. NtfInv(ntf)'
  BY <1>14 DEF NtfInv
<1> QED
  BY <1>4, <1>5, <1>6, <1>9, <1>14, <1>15
-----------------------------------------------------------------------------
\* The action properties of ServiceStatus, as actions.
KeepsId ==
    /\ current_state # OK /\ current_state' # OK => current_problem_id' = current_problem_id
    /\ current_state = OK /\ current_state' # OK => current_problem_id' >= next_problem_id

KeepsSilence ==
    problem_has_been_acknowledged /\ "NORMAL" \in ntf'.sent =>
        acknowledgement_type = "NORMAL" /\ current_state' # current_state

HandlerSees ==
    current_state' # current_state \/ state_type' # state_type => handled'

\* The initial states satisfy the invariant.
LEMMA InitIInv == Init => IInv
<1> SUFFICES ASSUME Init PROVE IInv
  OBVIOUS
<1>1. /\ current_state = InitialState /\ last_hard_state = InitialState /\ state_type = "HARD"
      /\ current_attempt = IF InitialState = OK THEN 1 ELSE MaxAttempts
      /\ host_problem_at_last_check = FALSE /\ current_problem_id = 0 /\ next_problem_id = 1
      /\ problem_has_been_acknowledged = FALSE /\ acknowledgement_type = "NONE"
      /\ is_flapping = FALSE /\ check_flapping_recovery_notification = FALSE
      /\ early = Delayed /\ handled = FALSE /\ suppress = {}
  BY DEF Init
<1>2. InitialState \in States /\ MaxAttempts \in Nat /\ MaxAttempts > 0 /\ MaxProblems \in Nat
      /\ MaxNumber \in Nat /\ Delayed \in BOOLEAN
  BY ServiceConstants
<1>3. hst \in Hosts /\ parents \in [Parents -> {OK, CRITICAL}]
  BY DEF Init, Hosts
<1>4. ntf = [number |-> 0, notified_on |-> {}, no_more |-> FALSE, waiting |-> FALSE,
             sent |-> {}, alerted |-> FALSE, unprompted |-> FALSE, reported |-> FALSE]
  BY DEF Init
<1>5. NtfInv(ntf)
  BY <1>2, <1>4 DEF NtfInv, NtfType
<1>6. ntf \in NtfType
  BY <1>5 DEF NtfInv
<1>7. handled \in BOOLEAN
  BY <1>1
<1>8. TypeOK
  <2>1. /\ current_state \in States /\ last_hard_state \in States
        /\ state_type \in {"SOFT", "HARD"} /\ current_attempt \in 1..MaxAttempts
    BY <1>1, <1>2
  <2>2. /\ host_problem_at_last_check \in BOOLEAN /\ early \in BOOLEAN
        /\ is_flapping \in BOOLEAN /\ check_flapping_recovery_notification \in BOOLEAN
        /\ problem_has_been_acknowledged \in BOOLEAN
        /\ acknowledgement_type \in {"NONE", "NORMAL", "STICKY"}
    BY <1>1, <1>2
  <2>3. /\ current_problem_id \in 0..MaxProblems /\ next_problem_id \in 1..(MaxProblems + 1)
        /\ suppress \subseteq Suppressions
    BY <1>1, <1>2
  <2> QED
    BY <1>3, <1>6, <1>7, <2>1, <2>2, <2>3 DEF TypeOK, NtfType
<1> QED
  BY <1>1, <1>5, <1>8 DEF IInv, OKIsSettled, TypesAgree, ProblemHasId, AckAgrees

\* Every step keeps the invariant, the id of the outage and the silence an
\* acknowledgement asks for.
LEMMA NextIInv ==
    ASSUME IInv, [Next]_vars
    PROVE  IInv' /\ (vars' # vars => KeepsId /\ KeepsSilence)
<1>1. NtfInv(ntf) /\ ntf \in NtfType /\ NtfInv(Quiet) /\ Quiet.sent = {}
  BY TypeFacts, QuietAndReset DEF Quiet, NtfType
<1>2. hst \in Hosts /\ parents \in [Parents -> {OK, CRITICAL}] /\ suppress \in SUBSET Suppressions
      /\ handled \in BOOLEAN
  BY DEF IInv, TypeOK
<1>3. ASSUME NEW cur \in ReturnCodes, HandleResult(cur)
      PROVE  IInv' /\ KeepsId /\ KeepsSilence
  <2>1. cur \in States
    BY ReturnCodesAreStates
  <2>2. NtfInv(ntf)' /\ ntf' \in NtfType
    BY <1>3, <2>1, ResultKeepsNtf DEF NtfInv
  <2>3. /\ is_flapping' \in BOOLEAN /\ check_flapping_recovery_notification' \in BOOLEAN
        /\ KeepsSilence
    BY <1>3, <2>1, ResultKeepsNtf DEF KeepsSilence
  <2>4. /\ current_state' \in States /\ last_hard_state' \in States /\ state_type' \in Types
        /\ current_attempt' \in 1..MaxAttempts /\ host_problem_at_last_check' \in BOOLEAN
        /\ current_problem_id' \in 0..MaxProblems /\ next_problem_id' \in 1..(MaxProblems + 1)
        /\ problem_has_been_acknowledged' \in BOOLEAN /\ acknowledgement_type' \in AckTypes
        /\ early' \in BOOLEAN
        /\ OKIsSettled' /\ TypesAgree' /\ ProblemHasId' /\ AckAgrees' /\ KeepsId
    BY <1>3, <2>1, ResultKeepsState DEF KeepsId
  <2>5. parents' = parents /\ suppress' = suppress
    BY <1>3, ResultFacts
  <2>6. handled' \in BOOLEAN
    <3>1. PICK r \in {Outcome(cur)} :
             handled' = (\/ Moved(r) \/ (Volatile /\ cur # OK /\ r.type = "HARD")
                         \/ r.handle)
      BY <1>3, Zenon DEF HandleResult
    <3> QED
      BY <3>1
  <2>7. hst' \in Hosts
    BY <1>2, <1>3 DEF HandleResult, Hosts
  <2>8. TypeOK'
    BY <1>2, <2>2, <2>3, <2>4, <2>5, <2>6, <2>7 DEF TypeOK, NtfType, Types, AckTypes
  <2> QED
    BY <2>2, <2>3, <2>4, <2>8 DEF IInv
<1>4. ASSUME NEW type \in {"NORMAL", "STICKY"}, NEW notify \in BOOLEAN,
             acknowledge_service_problem(type, notify)
      PROVE  IInv' /\ KeepsId /\ KeepsSilence
  <2>1. /\ current_state # OK
        /\ ntf' \in IF notify THEN service_notification(Quiet, "ACKNOWLEDGEMENT", Now) ELSE {Quiet}
        /\ problem_has_been_acknowledged' = TRUE /\ acknowledgement_type' = type /\ handled' = FALSE
        /\ UNCHANGED <<stateVars, flapVars, hst, envVars>>
    BY <1>4 DEF acknowledge_service_problem
  <2>2. Now.state \in States /\ "ACKNOWLEDGEMENT" \in Kinds
    BY TypeFacts DEF Now, States, Kinds
  <2>3. CASE ntf' = Quiet
    <3>1. NtfInv(ntf)' /\ "NORMAL" \notin ntf'.sent
      BY <1>1, <2>3 DEF NtfInv
    <3> QED
      BY <1>2, <2>1, <3>1 DEF IInv, TypeOK, OKIsSettled, TypesAgree, ProblemHasId, AckAgrees,
         KeepsId, KeepsSilence, stateVars, flapVars, envVars, NtfInv, NtfType
  <2>4. CASE ntf' \in service_notification(Quiet, "ACKNOWLEDGEMENT", Now)
    <3>1. NtfInv(ntf')
      BY <1>1, <2>2, <2>4, NotificationKeepsNtfInv
    <3>2. "NORMAL" \notin ntf'.sent
      BY <1>1, <2>4, NotificationSends DEF NtfInv
    <3>3. NtfInv(ntf)'
      BY <3>1 DEF NtfInv
    <3> QED
      BY <1>2, <2>1, <3>2, <3>3 DEF IInv, TypeOK, OKIsSettled, TypesAgree, ProblemHasId, AckAgrees,
         KeepsId, KeepsSilence, stateVars, flapVars, envVars, NtfInv, NtfType
  <2> QED
    BY <2>1, <2>3, <2>4
<1>5. ASSUME remove_service_acknowledgement
      PROVE  IInv' /\ KeepsId /\ KeepsSilence
  <2>1. /\ ntf' = Quiet /\ handled' = FALSE /\ problem_has_been_acknowledged' = FALSE
        /\ UNCHANGED <<stateVars, acknowledgement_type, flapVars, hst, envVars>>
    BY <1>5 DEF remove_service_acknowledgement
  <2>2. NtfInv(ntf)' /\ "NORMAL" \notin ntf'.sent
    BY <1>1, <2>1 DEF NtfInv
  <2> QED
    BY <1>2, <2>1, <2>2 DEF IInv, TypeOK, OKIsSettled, TypesAgree, ProblemHasId, AckAgrees,
       KeepsId, KeepsSilence, stateVars, flapVars, envVars, NtfInv, NtfType
<1>6. ASSUME Rest, ntf' \in {Quiet, [Quiet EXCEPT !.waiting = FALSE]}, handled' = FALSE,
             early' \in BOOLEAN, hst' \in Hosts, parents' \in [Parents -> {OK, CRITICAL}],
             suppress' \in SUBSET Suppressions
      PROVE  IInv' /\ KeepsId /\ KeepsSilence
  <2>1. NtfInv([Quiet EXCEPT !.waiting = FALSE]) /\ [Quiet EXCEPT !.waiting = FALSE].sent = {}
    <3>1. [Quiet EXCEPT !.waiting = FALSE] = [ntf EXCEPT !.sent = {}, !.waiting = FALSE]
      BY <1>1 DEF Quiet, NtfType
    <3>2. [ntf EXCEPT !.sent = {}, !.waiting = FALSE].sent = {}
      BY <1>1 DEF NtfType
    <3> QED
      BY <1>1, <3>1, <3>2, QuietAndReset
  <2>2. NtfInv(ntf') /\ ntf'.sent = {}
    BY <1>1, <1>6, <2>1
  <2>3. NtfInv(ntf)' /\ ntf' \in NtfType
    BY <2>2 DEF NtfInv
  <2>4. UNCHANGED <<current_state, state_type, current_attempt, last_hard_state,
                    host_problem_at_last_check, current_problem_id, next_problem_id,
                    problem_has_been_acknowledged, acknowledgement_type,
                    is_flapping, check_flapping_recovery_notification>>
    BY <1>6 DEF Rest, ackVars, flapVars
  <2>5. handled' \in BOOLEAN
    BY <1>6
  <2>6. TypeOK'
    BY <1>6, <2>3, <2>4, <2>5 DEF IInv, TypeOK, NtfType
  <2> QED
    BY <2>2, <2>3, <2>4, <2>6 DEF IInv, OKIsSettled, TypesAgree, ProblemHasId, AckAgrees,
       KeepsId, KeepsSilence
<1>7. ASSUME HostChecked
      PROVE  IInv' /\ KeepsId /\ KeepsSilence
  BY <1>2, <1>6, <1>7, TypeFacts DEF HostChecked, envVars
<1>8. ASSUME NEW p \in Parents, NEW s \in {OK, CRITICAL}, ParentChanges(p, s)
      PROVE  IInv' /\ KeepsId /\ KeepsSilence
  <2>1. parents' \in [Parents -> {OK, CRITICAL}]
    BY <1>2, <1>8 DEF ParentChanges
  <2> QED
    BY <1>2, <1>6, <1>8, <2>1, TypeFacts DEF ParentChanges
<1>9. ASSUME NEW why \in Suppressions, SuppressionChanges(why)
      PROVE  IInv' /\ KeepsId /\ KeepsSilence
  <2>1. suppress' \in SUBSET Suppressions
    BY <1>2, <1>9 DEF SuppressionChanges
  <2> QED
    BY <1>2, <1>6, <1>9, <2>1, TypeFacts DEF SuppressionChanges
<1>10. ASSUME TimePasses
       PROVE  IInv' /\ KeepsId /\ KeepsSilence
  <2>1. /\ ntf' \in {Quiet, [Quiet EXCEPT !.waiting = FALSE]} /\ early' \in BOOLEAN
        /\ handled' = FALSE /\ Rest /\ UNCHANGED <<hst, envVars>>
    BY <1>10, TypeFacts DEF TimePasses
  <2> QED
    BY <1>2, <1>6, <2>1 DEF envVars
<1>11. CASE UNCHANGED vars
  <2>1. NtfInv(ntf)'
    BY <1>1, <1>11 DEF vars, NtfInv
  <2> QED
    BY <1>11, <2>1 DEF IInv, TypeOK, OKIsSettled, TypesAgree, ProblemHasId, AckAgrees,
       vars, stateVars, ackVars, flapVars, envVars
<1> QED
  BY <1>3, <1>4, <1>5, <1>7, <1>8, <1>9, <1>10, <1>11 DEF Next

-----------------------------------------------------------------------------
\* The inductive invariant holds.
THEOREM ServiceInvariant == Spec => []IInv
<1>1. IInv /\ [Next]_vars => IInv'
  BY NextIInv
<1> QED
  BY InitIInv, <1>1, PTL DEF Spec
\* A result that changes the state or its type asks for the event handler; no
\* other step changes them.
LEMMA NextHandlerSees ==
    ASSUME IInv, Next
    PROVE  HandlerSees
<1>1. ASSUME NEW cur \in ReturnCodes, HandleResult(cur)
      PROVE  HandlerSees
  <2>1. cur \in States
    BY ReturnCodesAreStates
  <2>2. PICK r \in {Outcome(cur)} :
           /\ handled' = (\/ Moved(r) \/ (Volatile /\ cur # OK /\ r.type = "HARD")
                           \/ r.handle)
           /\ current_state' = cur
           /\ state_type' = IF cur = OK /\ r.change THEN "HARD" ELSE r.type
    BY <1>1, Zenon DEF HandleResult
  <2>3. /\ cur # current_state => r.change
        /\ r.type # state_type => r.change \/ r.hardChange
    BY <2>1, OutcomeFacts
  <2>4. current_state' # current_state \/ state_type' # state_type => Moved(r)
    BY <2>2, <2>3 DEF Moved
  <2> QED
    BY <2>2, <2>4 DEF HandlerSees
<1>2. ASSUME UNCHANGED <<current_state, state_type>>
      PROVE  HandlerSees
  BY <1>2 DEF HandlerSees
<1> QED
  BY <1>1, <1>2 DEF Next, acknowledge_service_problem, remove_service_acknowledgement,
     HostChecked, ParentChanges, SuppressionChanges, TimePasses, Rest, stateVars

\* The type invariant: attempts stay within max_attempts, ids and numbers in range.
THEOREM ServiceTypesCorrect == Spec => []TypeOK
  BY ServiceInvariant, PTL DEF IInv

\* Whatever results, host states and commands came before, a service that is OK
\* has nothing left of an outage, no problem is soft with all its attempts made,
\* and there is a problem id exactly during an outage.
THEOREM ServiceStatesAgree == Spec => []StatesAgree
<1>1. IInv => StatesAgree
  BY DEF IInv, StatesAgree
<1> QED
  BY ServiceInvariant, <1>1, PTL

\* No recovery is announced twice, or without a problem.
THEOREM ServiceRecoveriesAnswer == Spec => []RecoveriesAnswerProblems
<1>1. IInv => RecoveriesAnswerProblems
  BY DEF IInv, NtfInv, RecoveriesAnswerProblems
<1> QED
  BY ServiceInvariant, <1>1, PTL

\* Unless a broker module cancels notifications, the number and the states
\* notified on agree.
THEOREM ServiceNumberAgrees == ASSUME ~MayBlock PROVE Spec => []NumberAgrees
<1>1. IInv => NumberAgrees
  BY DEF IInv, NtfInv, NumberAgrees
<1> QED
  BY ServiceInvariant, <1>1, PTL

\* One outage, one problem id.
THEOREM ServiceOutageKeepsItsId == Spec => OutageKeepsItsId
<1>1. IInv /\ [Next]_vars => [KeepsId]_vars
  BY NextIInv
<1>2. Spec => [][KeepsId]_vars
  BY ServiceInvariant, <1>1, PTL DEF Spec
<1> QED
  BY <1>2 DEF KeepsId, OutageKeepsItsId

\* An acknowledged problem is not notified about again.
THEOREM ServiceAcknowledgementSilences == Spec => AcknowledgementSilences
<1>1. IInv /\ [Next]_vars => [KeepsSilence]_vars
  BY NextIInv
<1>2. Spec => [][KeepsSilence]_vars
  BY ServiceInvariant, <1>1, PTL DEF Spec
<1> QED
  BY <1>2 DEF KeepsSilence, AcknowledgementSilences

\* The event handler is asked for at every change.
THEOREM ServiceEventHandlerSees == Spec => EventHandlerSeesChanges
<1>1. IInv /\ [Next]_vars => [HandlerSees]_vars
  BY NextHandlerSees
<1>2. Spec => [][HandlerSees]_vars
  BY ServiceInvariant, <1>1, PTL DEF Spec
<1> QED
  BY <1>2 DEF HandlerSees, EventHandlerSeesChanges
=============================================================================
