-------------------------- MODULE HostStatusProofs --------------------------
(***************************************************************************)
(* Proofs about HostStatus, for every number of attempts, every set of     *)
(* parents and return codes, and every notification setting.               *)
(*                                                                         *)
(* The argument is that of ServiceStatusProofs; what differs is the        *)
(* outcome of a result, with states translated by the parents, passive     *)
(* results that are hard at once and recoveries that stay soft.            *)
(***************************************************************************)
EXTENDS HostStatus, TLAPS

Types == {"SOFT", "HARD"}
AckTypes == {"NONE", "NORMAL", "STICKY"}
NtfType == [number : 0..MaxNumber, notified_on : SUBSET States, no_more : BOOLEAN,
            waiting : BOOLEAN, sent : SUBSET Kinds, alerted : BOOLEAN,
            unprompted : BOOLEAN, reported : BOOLEAN]

\* An acknowledgement has a type.  Without it AckAfter could keep one.
AckAgrees == problem_has_been_acknowledged => acknowledgement_type # "NONE"

\* The notification state on its own: the number and the states notified on
\* agree, and a recovery is only owed after a problem was sent.
NtfInv(n) ==
    /\ n \in NtfType
    /\ n.notified_on # {} => n.alerted
    /\ ~n.unprompted
    /\ ~MayBlock => (n.number > 0 <=> n.notified_on # {})

IInv == TypeOK /\ UpIsSettled /\ HostTypesAgree /\ AckAgrees /\ NtfInv(ntf)

-----------------------------------------------------------------------------
\* A result leads to a state, and is passive only if passive results are accepted.
LEMMA ResultsAreStates ==
    ASSUME NEW res \in ReturnCodes
    PROVE  /\ Translated(res) \in States /\ res.passive \in BOOLEAN
           /\ res.passive => Passive
<1>1. PICK cr \in Results :
         res = [passive |-> cr.passive, state |-> get_host_check_return_code(cr)]
  BY DEF ReturnCodes
<1>2. cr.passive \in BOOLEAN /\ (cr.passive => Passive /\ cr.code \in States)
  BY DEF Results
<1>3. res.passive = cr.passive /\ res.state = get_host_check_return_code(cr)
  BY <1>1
<1>4. res.state \in States
  BY <1>2, <1>3 DEF get_host_check_return_code, States, UP, DOWN, UNREACHABLE
<1>5. determine_host_reachability(res) \in States
  BY DEF determine_host_reachability, States
<1> QED
  BY <1>2, <1>3, <1>4, <1>5 DEF Translated

\* What a result makes of the state, from any state the invariant allows.
LEMMA OutcomeFacts ==
    ASSUME IInv, NEW res \in ReturnCodes, NEW r, r = Outcome(res)
    PROVE  /\ r.state \in States /\ r.hardChange \in BOOLEAN /\ r.change \in BOOLEAN
           /\ r.notify \in BOOLEAN
           /\ r.attempt \in 1..MaxAttempts /\ r.type \in Types /\ r.lastHard \in States
           /\ r.change <=> r.state # current_state
           /\ r.state = UP => r.attempt = 1
           /\ (~Passive \/ passive_host_checks_are_soft) =>
                 /\ r.type = "SOFT" => r.lastHard = UP
                 /\ r.type = "SOFT" /\ r.state # UP => r.attempt < MaxAttempts
                 /\ r.type = "HARD" => r.lastHard = r.state
                 /\ r.type = "HARD" /\ r.state # UP => r.attempt = MaxAttempts
<1> DEFINE cur == Translated(res)
           recovered == current_state # UP /\ cur = UP /\ state_type = "HARD"
           type1 == IF current_state # UP THEN state_type ELSE IF cur = UP THEN "HARD" ELSE "SOFT"
           attempt1 == IF current_state = UP \/ recovered THEN 1 ELSE current_attempt
           change == cur # current_state \/ (cur = UP /\ type1 = "SOFT")
           attempt2 == NextAttempt(current_state, cur, type1, change, attempt1)
           passiveHard == res.passive /\ ~passive_host_checks_are_soft
           hardChange == recovered \/ AtMax(attempt2, cur) \/ (passiveHard /\ change)
           soft == ~Passive \/ passive_host_checks_are_soft
<1>1. /\ current_state \in 0..2 /\ last_hard_state \in 0..2 /\ state_type \in Types
      /\ current_attempt \in 1..MaxAttempts /\ UP = 0
      /\ MaxAttempts \in Nat /\ MaxAttempts > 0
  BY HostConstants DEF IInv, TypeOK, States, Types, UP, DOWN, UNREACHABLE
<1>2. /\ cur \in 0..2 /\ res.passive \in BOOLEAN /\ (res.passive => Passive)
  BY ResultsAreStates DEF States, UP, DOWN, UNREACHABLE
<1>3. /\ current_state = UP => current_attempt = 1
      /\ soft => /\ state_type = "SOFT" => last_hard_state = UP
                 /\ state_type = "SOFT" /\ current_state # UP => current_attempt < MaxAttempts
                 /\ state_type = "HARD" => last_hard_state = current_state
                 /\ state_type = "HARD" /\ current_state # UP => current_attempt = MaxAttempts
  BY DEF IInv, UpIsSettled, HostTypesAgree
<1>4. /\ r.state = cur /\ r.change = change /\ r.hardChange = hardChange
      /\ r.attempt = IF passiveHard /\ change THEN 1 ELSE attempt2
      /\ r.type = IF hardChange THEN "HARD" ELSE IF change THEN "SOFT"
                  ELSE IF passiveHard THEN "HARD" ELSE type1
      /\ r.lastHard = IF hardChange THEN cur ELSE last_hard_state
      /\ r.notify \in BOOLEAN
  BY DEF Outcome
<1> HIDE DEF cur
<1>5. type1 \in Types /\ attempt1 \in 1..MaxAttempts
  BY <1>1 DEF Types
<1>6. change <=> cur # current_state
  BY <1>1 DEF Types
<1>7. attempt2 \in 1..MaxAttempts
  BY <1>1, <1>5 DEF NextAttempt
<1>8. change \in BOOLEAN /\ hardChange \in BOOLEAN
  BY <1>1 DEF AtMax
<1>9. cur = UP => attempt2 = 1
  BY <1>1, <1>3, <1>5, <1>6 DEF NextAttempt, Types
<1>10. soft => ~passiveHard
  BY <1>2
<1>11. ASSUME soft, ~hardChange
       PROVE  /\ r.type = "SOFT" => last_hard_state = UP
              /\ r.type = "SOFT" /\ cur # UP => attempt2 < MaxAttempts
              /\ r.type = "HARD" => last_hard_state = cur
              /\ r.type = "HARD" /\ cur # UP => attempt2 = MaxAttempts
  BY <1>1, <1>2, <1>3, <1>4, <1>6, <1>7, <1>10, <1>11 DEF NextAttempt, AtMax, Types
<1>12. ASSUME soft, hardChange, cur # UP
       PROVE  attempt2 = MaxAttempts
  BY <1>1, <1>2, <1>7, <1>10, <1>12 DEF AtMax
<1> HIDE DEF type1, attempt2, change, hardChange, passiveHard, recovered, soft
<1>13. r.state = UP => r.attempt = 1
  BY <1>4, <1>9
<1>14. /\ r.state \in States /\ r.hardChange \in BOOLEAN /\ r.change \in BOOLEAN
       /\ r.attempt \in 1..MaxAttempts /\ r.type \in Types /\ r.lastHard \in States
  BY <1>1, <1>2, <1>4, <1>5, <1>7, <1>8 DEF Types, States, UP, DOWN, UNREACHABLE
<1>15. soft => /\ r.type = "SOFT" => r.lastHard = UP
               /\ r.type = "SOFT" /\ r.state # UP => r.attempt < MaxAttempts
               /\ r.type = "HARD" => r.lastHard = r.state
               /\ r.type = "HARD" /\ r.state # UP => r.attempt = MaxAttempts
  BY <1>4, <1>10, <1>11, <1>12
<1> QED
  BY <1>4, <1>6, <1>13, <1>14, <1>15 DEF soft

-----------------------------------------------------------------------------
Update(n, number, on, no_more, waiting, sent, alerted, unprompted, reported) ==
    [n EXCEPT !.number = number, !.notified_on = on, !.no_more = no_more,
              !.waiting = waiting, !.sent = sent, !.alerted = alerted,
              !.unprompted = unprompted, !.reported = reported]

\* Assigning every field of the notification state keeps its type.
LEMMA UpdateFacts ==
    ASSUME NEW n \in NtfType, NEW number \in 0..MaxNumber, NEW on \in SUBSET States,
           NEW no_more \in BOOLEAN, NEW waiting \in BOOLEAN, NEW sent \in SUBSET Kinds,
           NEW alerted \in BOOLEAN, NEW unprompted \in BOOLEAN, NEW reported \in BOOLEAN,
           NEW m, m = Update(n, number, on, no_more, waiting, sent, alerted, unprompted, reported)
    PROVE  /\ m \in NtfType
           /\ m.number = number /\ m.notified_on = on
           /\ m.alerted = alerted /\ m.unprompted = unprompted
<1> DEFINE u == [n EXCEPT !.number = number, !.notified_on = on, !.no_more = no_more,
                          !.waiting = waiting, !.sent = sent, !.alerted = alerted,
                          !.unprompted = unprompted, !.reported = reported]
<1>1. u \in NtfType
  BY DEF NtfType
<1>2. /\ u.number = number /\ u.notified_on = on
      /\ u.alerted = alerted /\ u.unprompted = unprompted
  BY DEF NtfType
<1>3. m = u
  BY DEF Update
<1> HIDE DEF u
<1> QED
  BY <1>1, <1>2, <1>3

\* Whatever becomes of a notification, the notification state stays consistent,
\* provided that recoveries are only announced for a host that is UP.
LEMMA NotificationKeepsNtfInv ==
    ASSUME NEW n, NtfInv(n), NEW kind \in Kinds, NEW o,
           o.state \in States, kind = "RECOVERY" => o.state = UP,
           NEW m \in host_notification(n, kind, o)
    PROVE  NtfInv(m)
<1>1. MaxNumber \in Nat /\ MaxNumber > 0 /\ MayBlock \in BOOLEAN
  BY HostConstants
<1>2. n \in NtfType
  BY DEF NtfInv
<1>3. /\ n.number \in 0..MaxNumber /\ n.notified_on \subseteq States /\ n.sent \subseteq Kinds
      /\ n.waiting \in BOOLEAN /\ n.alerted \in BOOLEAN /\ n.unprompted \in BOOLEAN
      /\ n.reported \in BOOLEAN
  BY <1>2 DEF NtfType
<1>4. Saturated(n.number + 1) \in 1..MaxNumber
  BY <1>1, <1>3 DEF Saturated
<1>5. CASE m = Unsent(n, kind)
  <2> DEFINE unwanted == kind = "RECOVERY" /\ UP \notin NotifyOn
             number == IF unwanted THEN 0 ELSE n.number
             on == IF unwanted THEN {} ELSE n.notified_on
             waiting == n.waiting \/ (kind = "NORMAL" /\ "outside period" \in suppress)
  <2>1. number \in 0..MaxNumber /\ on \in SUBSET States /\ waiting \in BOOLEAN
    <3>1. number \in 0..MaxNumber
      BY <1>1, <1>3
    <3>2. on \in SUBSET States
      BY <1>3
    <3>3. waiting \in BOOLEAN
      BY <1>3, Zenon
    <3> QED
      BY <3>1, <3>2, <3>3
  <2>2. m = [n EXCEPT !.number = number, !.notified_on = on, !.waiting = waiting]
    <3>1. Unsent(n, kind) = [n EXCEPT !.number = number, !.notified_on = on, !.waiting = waiting]
      BY Zenon DEF Unsent
    <3> QED
      BY <1>5, <3>1
  <2>3. /\ on # {} => n.notified_on # {}
        /\ ~MayBlock => (number > 0 <=> on # {})
    BY DEF NtfInv
  <2> HIDE DEF number, on, waiting
  <2>4. m \in NtfType
    BY <1>2, <2>1, <2>2 DEF NtfType
  <2>5. m.number = number /\ m.notified_on = on /\ m.alerted = n.alerted /\ m.unprompted = n.unprompted
    BY <1>2, <2>2 DEF NtfType
  <2> QED
    BY <2>3, <2>4, <2>5 DEF NtfInv
<1>6. CASE /\ MayBlock
           /\ m = [n EXCEPT !.number = IF kind = "NORMAL" THEN Saturated(@ + 1) ELSE @]
  <2>1. (IF kind = "NORMAL" THEN Saturated(n.number + 1) ELSE n.number) \in 0..MaxNumber
    BY <1>1, <1>3, <1>4
  <2> QED
    BY <1>2, <1>6, <2>1 DEF NtfInv, NtfType
<1>7. ASSUME NEW i \in Intervals, m = Sent(n, kind, o, i),
             kind \in {"NORMAL", "RECOVERY"},
             check_host_notification_viability(n, kind, o)
      PROVE  NtfInv(m)
  <2> DEFINE number == IF kind = "NORMAL" THEN Saturated(n.number + 1) ELSE 0
             on == IF kind = "NORMAL" THEN n.notified_on \cup {o.state} ELSE {}
             no_more == (i = 0)
             waiting == (i > 0)
             sent == n.sent \cup {kind}
             alerted == (kind = "NORMAL")
             unprompted == (n.unprompted \/ (kind = "RECOVERY" /\ ~n.alerted))
             reported == (n.reported \/ kind = "NORMAL")
  <2>1. kind = "RECOVERY" => n.notified_on # {}
    BY <1>7 DEF check_host_notification_viability
  <2>2. /\ number \in 0..MaxNumber /\ on \in SUBSET States /\ sent \in SUBSET Kinds
        /\ no_more \in BOOLEAN /\ waiting \in BOOLEAN /\ alerted \in BOOLEAN
        /\ unprompted \in BOOLEAN /\ reported \in BOOLEAN
    BY <1>1, <1>3, <1>4
  <2>3. m = Update(n, number, on, no_more, waiting, sent, alerted, unprompted, reported)
    BY <1>7 DEF Sent, Update
  <2>4. /\ on # {} => alerted
        /\ ~unprompted
        /\ number > 0 <=> on # {}
    BY <1>1, <1>4, <1>7, <2>1 DEF NtfInv
  <2> HIDE DEF number, on, no_more, waiting, sent, alerted, unprompted, reported
  <2>5. /\ m \in NtfType
        /\ m.number = number /\ m.notified_on = on
        /\ m.alerted = alerted /\ m.unprompted = unprompted
    BY <1>2, <2>2, <2>3, UpdateFacts
  <2> QED
    BY <2>4, <2>5 DEF NtfInv
<1>8. CASE m = [n EXCEPT !.sent = @ \cup {kind}]
  BY <1>2, <1>8 DEF NtfInv, NtfType
<1>9. \/ m = Unsent(n, kind)
      \/ /\ MayBlock
         /\ m = [n EXCEPT !.number = IF kind = "NORMAL" THEN Saturated(@ + 1) ELSE @]
      \/ m = n
      \/ /\ kind \in {"NORMAL", "RECOVERY"} /\ check_host_notification_viability(n, kind, o)
         /\ \E i \in Intervals : m = Sent(n, kind, o, i)
      \/ m = [n EXCEPT !.sent = @ \cup {kind}]
  BY <1>1 DEF host_notification
<1> QED
  BY <1>5, <1>6, <1>7, <1>8, <1>9

\* What flap detection does keeps the notification state consistent.
LEMMA FlapKeepsNtfInv ==
    ASSUME NEW n, NtfInv(n), NEW o, o.state \in States,
           o = [state |-> o.state, type |-> o.type, acked |-> o.acked,
                flapping |-> o.flapping, early |-> o.early],
           is_flapping \in BOOLEAN, check_flapping_recovery_notification \in BOOLEAN,
           NEW f \in Flap(n, o)
    PROVE  NtfInv(f.ntf) /\ f.flapping \in BOOLEAN /\ f.recovery \in BOOLEAN
<1> DEFINE started == [o EXCEPT !.flapping = TRUE]
           stopped == [o EXCEPT !.flapping = FALSE]
<1>1. started.state = o.state /\ stopped.state = o.state
  OBVIOUS
<1>2. "FLAPPING" \in Kinds /\ "RECOVERY" \in Kinds
  BY DEF Kinds
<1>3. \A m \in host_notification(n, "FLAPPING", started) : NtfInv(m)
  BY <1>1, <1>2, NotificationKeepsNtfInv
<1>4. \A m \in host_notification(n, "FLAPPING", stopped) : NtfInv(m)
  BY <1>1, <1>2, NotificationKeepsNtfInv
<1>5. ASSUME o.state = UP, NEW m \in host_notification(n, "FLAPPING", stopped),
             NEW l \in host_notification(m, "RECOVERY", stopped)
      PROVE  NtfInv(l)
  BY <1>1, <1>2, <1>4, <1>5, NotificationKeepsNtfInv
<1>6. (n.number > 0) \in BOOLEAN
  OBVIOUS
<1> HIDE DEF started, stopped
<1>7. CASE f = [flapping |-> is_flapping,
                recovery |-> check_flapping_recovery_notification, ntf |-> n]
  BY <1>7
<1>8. CASE f = [flapping |-> FALSE, recovery |-> FALSE, ntf |-> n]
  BY <1>8
<1>9. ASSUME NEW m \in host_notification(n, "FLAPPING", started),
             f = [flapping |-> TRUE, recovery |-> n.number > 0, ntf |-> m]
      PROVE  NtfInv(f.ntf) /\ f.flapping \in BOOLEAN /\ f.recovery \in BOOLEAN
  BY <1>3, <1>6, <1>9
<1>10. ASSUME NEW m, NtfInv(m), f = [flapping |-> FALSE, recovery |-> FALSE, ntf |-> m]
       PROVE  NtfInv(f.ntf) /\ f.flapping \in BOOLEAN /\ f.recovery \in BOOLEAN
  BY <1>10
<1>11. \/ f = [flapping |-> is_flapping,
               recovery |-> check_flapping_recovery_notification, ntf |-> n]
       \/ f = [flapping |-> FALSE, recovery |-> FALSE, ntf |-> n]
       \/ \E m \in host_notification(n, "FLAPPING", started) :
             f = [flapping |-> TRUE, recovery |-> n.number > 0, ntf |-> m]
       \/ \E m \in host_notification(n, "FLAPPING", stopped) :
             f = [flapping |-> FALSE, recovery |-> FALSE, ntf |-> m]
       \/ /\ o.state = UP
          /\ \E m \in host_notification(n, "FLAPPING", stopped) :
                \E l \in host_notification(m, "RECOVERY", stopped) :
                   f = [flapping |-> FALSE, recovery |-> FALSE, ntf |-> l]
  BY DEF Flap, started, stopped
<1> QED
  BY <1>4, <1>5, <1>7, <1>8, <1>9, <1>10, <1>11

-----------------------------------------------------------------------------
\* The typed part of the state, in the form the provers use it.
LEMMA TypeFacts ==
    ASSUME IInv
    PROVE  /\ current_state \in 0..2 /\ last_hard_state \in 0..2 /\ state_type \in Types
           /\ current_attempt \in 1..MaxAttempts
           /\ current_problem_id \in 0..MaxProblems /\ next_problem_id \in 1..(MaxProblems + 1)
           /\ problem_has_been_acknowledged \in BOOLEAN /\ acknowledgement_type \in AckTypes
           /\ is_flapping \in BOOLEAN /\ check_flapping_recovery_notification \in BOOLEAN
           /\ ntf \in NtfType /\ NtfInv(ntf) /\ early \in BOOLEAN
           /\ MaxAttempts \in Nat /\ MaxAttempts > 0 /\ MaxProblems \in Nat /\ Delayed \in BOOLEAN
  BY HostConstants DEF IInv, TypeOK, States, Types, AckTypes, NtfType, UP, DOWN, UNREACHABLE

\* Forgetting what the last step sent, and what a change of state resets,
\* leaves the notification state consistent.
LEMMA QuietAndReset ==
    ASSUME NEW n, NtfInv(n)
    PROVE  NtfInv([n EXCEPT !.sent = {}]) /\ NtfInv(Reset(n)) /\ NtfInv([n EXCEPT !.sent = {}, !.waiting = FALSE])
<1>1. n \in NtfType
  BY DEF NtfInv
<1> QED
  BY <1>1 DEF NtfInv, NtfType, Reset

\* The acknowledgement after a result.
LEMMA AckFacts ==
    ASSUME IInv, NEW res \in ReturnCodes, NEW r, r = Outcome(res)
    PROVE  /\ AckAfter(r).acked \in BOOLEAN /\ AckAfter(r).type \in AckTypes
           /\ AckAfter(r).acked => AckAfter(r).type # "NONE"
           /\ r.state = UP => ~AckAfter(r).acked
           /\ problem_has_been_acknowledged /\ ~AckAfter(r).acked /\ r.state # UP =>
                 acknowledgement_type = "NORMAL" /\ r.state # current_state
<1>1. /\ problem_has_been_acknowledged \in BOOLEAN /\ acknowledgement_type \in AckTypes
      /\ problem_has_been_acknowledged => acknowledgement_type # "NONE"
      /\ current_state = UP => ~problem_has_been_acknowledged
  BY TypeFacts DEF IInv, AckAgrees, UpIsSettled
<1>2. r.change <=> r.state # current_state
  BY OutcomeFacts
<1> QED
  BY <1>1, <1>2 DEF AckAfter, AckTypes

-----------------------------------------------------------------------------
\* A result, taken apart: the equations of HandleResult with the outcome and
\* the acknowledgement named.
LEMMA ResultFacts ==
    ASSUME NEW res, HandleResult(res)
    PROVE  \E r \in {Outcome(res)}, ack \in {AckAfter(Outcome(res))} :
              /\ current_state' = r.state /\ state_type' = r.type
              /\ current_attempt' = r.attempt /\ last_hard_state' = r.lastHard
              /\ current_problem_id' = ProblemAfter(r)
              /\ next_problem_id' = next_problem_id + (IF r.change /\ current_state = UP THEN 1 ELSE 0)
              /\ r.change /\ current_state = UP => next_problem_id <= MaxProblems
              /\ problem_has_been_acknowledged' = ack.acked
              /\ acknowledgement_type' = ack.type
              /\ early' \in {Delayed, early}
              /\ UNCHANGED envVars
  BY DEF HandleResult

\* A result keeps the state part of the invariant.
LEMMA ResultKeepsState ==
    ASSUME IInv, NEW res \in ReturnCodes, HandleResult(res)
    PROVE  /\ current_state' \in States /\ last_hard_state' \in States /\ state_type' \in Types
           /\ current_attempt' \in 1..MaxAttempts
           /\ current_problem_id' \in 0..MaxProblems /\ next_problem_id' \in 1..(MaxProblems + 1)
           /\ problem_has_been_acknowledged' \in BOOLEAN /\ acknowledgement_type' \in AckTypes
           /\ early' \in BOOLEAN
           /\ UpIsSettled' /\ HostTypesAgree' /\ AckAgrees'
<1> DEFINE r == Outcome(res)
           ack == AckAfter(r)
<1>1. /\ current_state' = r.state /\ state_type' = r.type
      /\ current_attempt' = r.attempt /\ last_hard_state' = r.lastHard
      /\ current_problem_id' = ProblemAfter(r)
      /\ next_problem_id' = next_problem_id + (IF r.change /\ current_state = UP THEN 1 ELSE 0)
      /\ r.change /\ current_state = UP => next_problem_id <= MaxProblems
      /\ problem_has_been_acknowledged' = ack.acked
      /\ acknowledgement_type' = ack.type
      /\ early' \in {Delayed, early}
      /\ UNCHANGED envVars
  BY ResultFacts
<1>2. /\ r.state \in States
      /\ r.attempt \in 1..MaxAttempts /\ r.type \in Types /\ r.lastHard \in States
      /\ r.change <=> r.state # current_state
      /\ r.state = UP => r.attempt = 1
      /\ (~Passive \/ passive_host_checks_are_soft) =>
            /\ r.type = "SOFT" => r.lastHard = UP
            /\ r.type = "SOFT" /\ r.state # UP => r.attempt < MaxAttempts
            /\ r.type = "HARD" => r.lastHard = r.state
            /\ r.type = "HARD" /\ r.state # UP => r.attempt = MaxAttempts
  BY OutcomeFacts
<1>3. /\ ack.acked \in BOOLEAN /\ ack.type \in AckTypes
      /\ ack.acked => ack.type # "NONE"
      /\ r.state = UP => ~ack.acked
  BY AckFacts
<1> HIDE DEF r, ack
<1>4. current_state = UP => current_problem_id = 0
  BY DEF IInv, UpIsSettled
<1>5. current_problem_id' = IF r.state = current_state THEN current_problem_id
                            ELSE IF current_state = UP THEN next_problem_id ELSE 0
  BY <1>1, <1>2 DEF ProblemAfter
<1>6. /\ current_problem_id' \in 0..MaxProblems /\ next_problem_id' \in 1..(MaxProblems + 1)
      /\ r.state = UP => current_problem_id' = 0
  BY <1>1, <1>2, <1>4, <1>5, TypeFacts
<1>7. UpIsSettled'
  BY <1>1, <1>2, <1>3, <1>6 DEF UpIsSettled
<1>8. HostTypesAgree'
  BY <1>1, <1>2 DEF HostTypesAgree, envVars
<1>9. AckAgrees'
  BY <1>1, <1>3 DEF AckAgrees
<1>10. early' \in BOOLEAN
  BY <1>1, TypeFacts
<1> QED
  BY <1>1, <1>2, <1>3, <1>6, <1>7, <1>8, <1>9, <1>10

\* A problem is announced only by a notification about one, in a hard state that
\* is not acknowledged; and an UP state only if someone was told of a problem.
LEMMA NotificationSends ==
    ASSUME NEW n \in NtfType, NEW kind, NEW o, NEW m \in host_notification(n, kind, o),
           "NORMAL" \in m.sent
    PROVE  \/ "NORMAL" \in n.sent
           \/ /\ kind = "NORMAL" /\ o.type = "HARD" /\ ~o.acked
              /\ o.state = UP => n.notified_on # {}
<1>1. CASE kind \in {"NORMAL", "RECOVERY"} /\ \E i \in Intervals : m = Sent(n, kind, o, i)
  <2>1. PICK i \in Intervals : m = Sent(n, kind, o, i)
    BY <1>1
  <2>2. m.sent = n.sent \cup {kind}
    BY <2>1 DEF Sent, NtfType
  <2>3. CASE "NORMAL" \notin n.sent
    <3>1. kind = "NORMAL"
      BY <2>2, <2>3
    <3>2. CASE check_host_notification_viability(n, kind, o)
      BY <3>1, <3>2 DEF check_host_notification_viability
    <3>3. CASE ~check_host_notification_viability(n, kind, o)
      <4>1. m = Unsent(n, kind)
        BY <3>3 DEF host_notification
      <4> QED
        BY <2>3, <4>1 DEF Unsent, NtfType
    <3> QED
      BY <3>2, <3>3
  <2> QED
    BY <2>3
<1>2. CASE m = Unsent(n, kind) \/ m = n \/ m = [n EXCEPT !.number = IF kind = "NORMAL" THEN Saturated(@ + 1) ELSE @]
  BY <1>2 DEF Unsent, NtfType
<1>3. CASE kind \notin {"NORMAL", "RECOVERY"} /\ m = [n EXCEPT !.sent = @ \cup {kind}]
  BY <1>3 DEF NtfType
<1> QED
  BY <1>1, <1>2, <1>3 DEF host_notification
\* Flap detection announces flapping or a recovery, never a problem.
LEMMA FlapSends ==
    ASSUME NEW n, NtfInv(n), n.sent = {}, NEW o, o.state \in States,
           o = [state |-> o.state, type |-> o.type, acked |-> o.acked,
                flapping |-> o.flapping, early |-> o.early],
           NEW f \in Flap(n, o)
    PROVE  "NORMAL" \notin f.ntf.sent
<1> DEFINE started == [o EXCEPT !.flapping = TRUE]
           stopped == [o EXCEPT !.flapping = FALSE]
<1>1. n \in NtfType
  BY DEF NtfInv
<1>2. started.state = o.state /\ stopped.state = o.state
  OBVIOUS
<1>3. "FLAPPING" \in Kinds /\ "RECOVERY" \in Kinds
  BY DEF Kinds
<1>4. \A m \in host_notification(n, "FLAPPING", started) : "NORMAL" \notin m.sent
  BY <1>1, NotificationSends
<1>5. \A m \in host_notification(n, "FLAPPING", stopped) : "NORMAL" \notin m.sent /\ m \in NtfType
  BY <1>1, <1>2, <1>3, NotificationSends, NotificationKeepsNtfInv DEF NtfInv
<1>6. ASSUME NEW m \in host_notification(n, "FLAPPING", stopped),
             NEW l \in host_notification(m, "RECOVERY", stopped)
      PROVE  "NORMAL" \notin l.sent
  <2>1. "NORMAL" \notin m.sent /\ m \in NtfType
    BY <1>5
  <2> QED
    BY <1>6, <2>1, NotificationSends
<1> HIDE DEF started, stopped
<1>7. \/ f = [flapping |-> is_flapping,
              recovery |-> check_flapping_recovery_notification, ntf |-> n]
      \/ f = [flapping |-> FALSE, recovery |-> FALSE, ntf |-> n]
      \/ \E m \in host_notification(n, "FLAPPING", started) :
            f = [flapping |-> TRUE, recovery |-> n.number > 0, ntf |-> m]
      \/ \E m \in host_notification(n, "FLAPPING", stopped) :
            f = [flapping |-> FALSE, recovery |-> FALSE, ntf |-> m]
      \/ \E m \in host_notification(n, "FLAPPING", stopped) :
            \E l \in host_notification(m, "RECOVERY", stopped) :
               f = [flapping |-> FALSE, recovery |-> FALSE, ntf |-> l]
  BY DEF Flap, started, stopped
<1> QED
  BY <1>4, <1>5, <1>6, <1>7

\* The notifications that follow a result: consistent, and about a problem that
\* was acknowledged only if the acknowledgement gave way to another state.
LEMMA ResultKeepsNtf ==
    ASSUME IInv, NEW res \in ReturnCodes, HandleResult(res)
    PROVE  /\ NtfInv(ntf)'
           /\ is_flapping' \in BOOLEAN /\ check_flapping_recovery_notification' \in BOOLEAN
           /\ problem_has_been_acknowledged /\ "NORMAL" \in ntf'.sent =>
                 acknowledgement_type = "NORMAL" /\ current_state' # current_state
<1>0. PICK r \in {Outcome(res)} :
         LET ack == AckAfter(r)
             o == [state |-> r.state, type |-> r.type, acked |-> ack.acked, flapping |-> is_flapping,
                   early |-> IF r.hardChange THEN Delayed ELSE early]
             n == IF r.change \/ r.hardChange THEN Reset(Quiet) ELSE Quiet
         IN \E f \in Flap(n, o) :
               LET owed == Owed(f.ntf, r)
               IN /\ is_flapping' = f.flapping
                  /\ check_flapping_recovery_notification' = f.recovery
                  /\ ntf' \in IF r.notify \/ owed
                              THEN host_notification(f.ntf, IF owed THEN "RECOVERY" ELSE "NORMAL",
                                                        [o EXCEPT !.flapping = f.flapping])
                              ELSE {f.ntf}
  BY Zenon DEF HandleResult
<1> DEFINE ack == AckAfter(r)
           o == [state |-> r.state, type |-> r.type, acked |-> ack.acked, flapping |-> is_flapping,
                 early |-> IF r.hardChange THEN Delayed ELSE early]
           n == IF r.change \/ r.hardChange THEN Reset(Quiet) ELSE Quiet
<1>st. r.state \in States
  BY OutcomeFacts
<1>1. \E f \in Flap(n, o) :
         /\ is_flapping' = f.flapping
         /\ check_flapping_recovery_notification' = f.recovery
         /\ ntf' \in IF r.notify \/ Owed(f.ntf, r)
                     THEN host_notification(f.ntf, IF Owed(f.ntf, r) THEN "RECOVERY" ELSE "NORMAL",
                                               [o EXCEPT !.flapping = f.flapping])
                     ELSE {f.ntf}
  BY <1>0, Zenon
<1>2. NtfInv(n) /\ n.sent = {}
  <2>1. NtfInv(Quiet) /\ Quiet.sent = {}
    BY TypeFacts, QuietAndReset DEF Quiet, NtfType
  <2>2. NtfInv(Reset(Quiet)) /\ Reset(Quiet).sent = {}
    BY <2>1, QuietAndReset DEF Reset, NtfInv, NtfType
  <2> QED
    BY <2>1, <2>2
<1>3. /\ o.state = r.state /\ o.type = r.type /\ o.acked = ack.acked
      /\ o = [state |-> o.state, type |-> o.type, acked |-> o.acked,
              flapping |-> o.flapping, early |-> o.early]
  OBVIOUS
<1>4. /\ problem_has_been_acknowledged /\ ~ack.acked /\ r.state # UP =>
            acknowledgement_type = "NORMAL" /\ r.state # current_state
  BY AckFacts
<1> HIDE DEF ack, n, o
<1>5. PICK f \in Flap(n, o) :
         /\ is_flapping' = f.flapping
         /\ check_flapping_recovery_notification' = f.recovery
         /\ ntf' \in IF r.notify \/ Owed(f.ntf, r)
                     THEN host_notification(f.ntf, IF Owed(f.ntf, r) THEN "RECOVERY" ELSE "NORMAL",
                                               [o EXCEPT !.flapping = f.flapping])
                     ELSE {f.ntf}
  BY <1>1
<1>6. NtfInv(f.ntf) /\ f.flapping \in BOOLEAN /\ f.recovery \in BOOLEAN
  BY <1>2, <1>3, <1>st, TypeFacts, FlapKeepsNtfInv
<1>7. "NORMAL" \notin f.ntf.sent
  BY <1>2, <1>3, <1>st, FlapSends
<1> DEFINE now == [o EXCEPT !.flapping = f.flapping]
           owed == Owed(f.ntf, r)
<1>8. now.state = r.state /\ now.type = r.type /\ now.acked = ack.acked
  BY <1>3
<1>9. current_state' = r.state
  BY ResultFacts
<1> HIDE DEF now
<1>10. CASE ntf' = f.ntf
  BY <1>5, <1>6, <1>7, <1>10 DEF NtfInv
<1>11. ASSUME owed, ntf' \in host_notification(f.ntf, "RECOVERY", now)
       PROVE  NtfInv(ntf') /\ "NORMAL" \notin ntf'.sent
  <2>1. r.state = UP /\ "RECOVERY" \in Kinds
    BY <1>11 DEF Owed, Kinds
  <2>2. NtfInv(ntf')
    BY <1>6, <1>8, <1>11, <1>st, <2>1, NotificationKeepsNtfInv
  <2>3. "NORMAL" \notin ntf'.sent
    BY <1>6, <1>7, <1>11, NotificationSends DEF NtfInv
  <2> QED
    BY <2>2, <2>3
<1>12. ASSUME ~owed, ntf' \in host_notification(f.ntf, "NORMAL", now)
       PROVE  NtfInv(ntf') /\ ("NORMAL" \in ntf'.sent => ~ack.acked /\ r.state # UP)
  <2>1. "NORMAL" \in Kinds
    BY DEF Kinds
  <2>2. NtfInv(ntf')
    BY <1>6, <1>8, <1>12, <1>st, <2>1, NotificationKeepsNtfInv
  <2>3. "NORMAL" \in ntf'.sent =>
           /\ r.type = "HARD" /\ ~ack.acked
           /\ r.state = UP => f.ntf.notified_on # {}
    BY <1>6, <1>7, <1>8, <1>12, NotificationSends DEF NtfInv
  <2> QED
    BY <1>12, <2>2, <2>3 DEF Owed
<1>13. \/ ntf' = f.ntf
       \/ owed /\ ntf' \in host_notification(f.ntf, "RECOVERY", now)
       \/ ~owed /\ ntf' \in host_notification(f.ntf, "NORMAL", now)
  BY <1>5 DEF now
<1>14. NtfInv(ntf') /\ ("NORMAL" \in ntf'.sent => ~ack.acked /\ r.state # UP)
  BY <1>6, <1>7, <1>11, <1>12, <1>13
<1>15. NtfInv(ntf)'
  BY <1>14 DEF NtfInv
<1> QED
  BY <1>4, <1>5, <1>6, <1>9, <1>14, <1>15

-----------------------------------------------------------------------------
\* The action property of HostStatus, as an action.
KeepsSilence ==
    problem_has_been_acknowledged /\ "NORMAL" \in ntf'.sent =>
        acknowledgement_type = "NORMAL" /\ current_state' # current_state

\* The initial states satisfy the invariant.
LEMMA InitIInv == Init => IInv
<1> SUFFICES ASSUME Init PROVE IInv
  OBVIOUS
<1>1. /\ current_state = InitialState /\ last_hard_state = InitialState /\ state_type = "HARD"
      /\ current_attempt = IF InitialState = UP THEN 1 ELSE MaxAttempts
      /\ current_problem_id = 0 /\ next_problem_id = 1
      /\ problem_has_been_acknowledged = FALSE /\ acknowledgement_type = "NONE"
      /\ is_flapping = FALSE /\ check_flapping_recovery_notification = FALSE
      /\ early = Delayed /\ suppress = {}
  BY DEF Init
<1>2. InitialState \in States /\ MaxAttempts \in Nat /\ MaxAttempts > 0 /\ MaxProblems \in Nat
      /\ MaxNumber \in Nat /\ Delayed \in BOOLEAN
  BY HostConstants
<1>3. up \in SUBSET Parents /\ passive_host_checks_are_soft \in PassiveSoft
  BY DEF Init
<1>4. ntf = [number |-> 0, notified_on |-> {}, no_more |-> FALSE, waiting |-> FALSE,
             sent |-> {}, alerted |-> FALSE, unprompted |-> FALSE, reported |-> FALSE]
  BY DEF Init
<1>5. NtfInv(ntf)
  BY <1>2, <1>4 DEF NtfInv, NtfType
<1>6. ntf \in NtfType
  BY <1>5 DEF NtfInv
<1>7. TypeOK
  <2>1. /\ current_state \in States /\ last_hard_state \in States
        /\ state_type \in {"SOFT", "HARD"} /\ current_attempt \in 1..MaxAttempts
    BY <1>1, <1>2
  <2>2. /\ early \in BOOLEAN
        /\ is_flapping \in BOOLEAN /\ check_flapping_recovery_notification \in BOOLEAN
        /\ problem_has_been_acknowledged \in BOOLEAN
        /\ acknowledgement_type \in {"NONE", "NORMAL", "STICKY"}
    BY <1>1, <1>2
  <2>3. /\ current_problem_id \in 0..MaxProblems /\ next_problem_id \in 1..(MaxProblems + 1)
        /\ suppress \subseteq Suppressions
    BY <1>1, <1>2
  <2> QED
    BY <1>3, <1>6, <2>1, <2>2, <2>3 DEF TypeOK, NtfType
<1> QED
  BY <1>1, <1>5, <1>7 DEF IInv, UpIsSettled, HostTypesAgree, AckAgrees

\* Every step keeps the invariant, and the silence an acknowledgement asks for.
LEMMA NextIInv ==
    ASSUME IInv, [Next]_vars
    PROVE  IInv' /\ (vars' # vars => KeepsSilence)
<1>1. NtfInv(ntf) /\ ntf \in NtfType /\ NtfInv(Quiet) /\ Quiet.sent = {}
  BY TypeFacts, QuietAndReset DEF Quiet, NtfType
<1>2. up \in SUBSET Parents /\ suppress \in SUBSET Suppressions
      /\ passive_host_checks_are_soft \in PassiveSoft
  BY DEF IInv, TypeOK
<1>3. ASSUME NEW res \in ReturnCodes, HandleResult(res)
      PROVE  IInv' /\ KeepsSilence
  <2>1. NtfInv(ntf)' /\ ntf' \in NtfType
    BY <1>3, ResultKeepsNtf DEF NtfInv
  <2>2. /\ is_flapping' \in BOOLEAN /\ check_flapping_recovery_notification' \in BOOLEAN
        /\ KeepsSilence
    BY <1>3, ResultKeepsNtf DEF KeepsSilence
  <2>3. /\ current_state' \in States /\ last_hard_state' \in States /\ state_type' \in Types
        /\ current_attempt' \in 1..MaxAttempts
        /\ current_problem_id' \in 0..MaxProblems /\ next_problem_id' \in 1..(MaxProblems + 1)
        /\ problem_has_been_acknowledged' \in BOOLEAN /\ acknowledgement_type' \in AckTypes
        /\ early' \in BOOLEAN
        /\ UpIsSettled' /\ HostTypesAgree' /\ AckAgrees'
    BY <1>3, ResultKeepsState
  <2>4. UNCHANGED envVars
    BY <1>3, ResultFacts
  <2>5. TypeOK'
    BY <1>2, <2>1, <2>2, <2>3, <2>4 DEF TypeOK, NtfType, Types, AckTypes, envVars
  <2> QED
    BY <2>1, <2>2, <2>3, <2>5 DEF IInv
\* The commands and the environment leave the state alone.
<1>4. ASSUME UNCHANGED <<current_state, state_type, current_attempt, last_hard_state,
                         current_problem_id, next_problem_id, flapVars,
                         passive_host_checks_are_soft>>,
             NtfInv(ntf'),
             problem_has_been_acknowledged' \in BOOLEAN, acknowledgement_type' \in AckTypes,
             AckAgrees', current_state = UP => ~problem_has_been_acknowledged',
             early' \in BOOLEAN, up' \in SUBSET Parents, suppress' \in SUBSET Suppressions
      PROVE  IInv'
  <2>1. NtfInv(ntf)' /\ ntf' \in NtfType
    BY <1>4 DEF NtfInv
  <2>2. TypeOK'
    BY <1>2, <1>4, <2>1 DEF IInv, TypeOK, NtfType, AckTypes, flapVars
  <2> QED
    BY <1>4, <2>1, <2>2 DEF IInv, UpIsSettled, HostTypesAgree
<1>5. /\ problem_has_been_acknowledged \in BOOLEAN /\ acknowledgement_type \in AckTypes
      /\ AckAgrees /\ (current_state = UP => ~problem_has_been_acknowledged) /\ early \in BOOLEAN
  BY TypeFacts DEF IInv, UpIsSettled
<1>6. Now.state \in States /\ Now.acked = problem_has_been_acknowledged
      /\ "ACKNOWLEDGEMENT" \in Kinds /\ "NORMAL" \in Kinds
  BY TypeFacts DEF Now, States, UP, DOWN, UNREACHABLE, Kinds
<1>7. ASSUME NEW type \in {"NORMAL", "STICKY"}, NEW notify \in BOOLEAN,
             acknowledge_host_problem(type, notify)
      PROVE  IInv' /\ KeepsSilence
  <2>1. /\ current_state # UP
        /\ ntf' \in IF notify THEN host_notification(Quiet, "ACKNOWLEDGEMENT", Now) ELSE {Quiet}
        /\ problem_has_been_acknowledged' = TRUE /\ acknowledgement_type' = type
        /\ UNCHANGED <<stateVars, flapVars, envVars>>
    BY <1>7 DEF acknowledge_host_problem
  <2>2. ntf' = Quiet \/ ntf' \in host_notification(Quiet, "ACKNOWLEDGEMENT", Now)
    BY <2>1
  <2>3. NtfInv(ntf')
    BY <1>1, <1>6, <2>2, NotificationKeepsNtfInv
  <2>4. "NORMAL" \notin ntf'.sent
    BY <1>1, <2>2, NotificationSends DEF NtfInv
  <2>5. IInv'
    BY <1>2, <1>4, <1>5, <2>1, <2>3 DEF stateVars, envVars, AckAgrees, AckTypes
  <2> QED
    BY <2>4, <2>5 DEF KeepsSilence
<1>8. ASSUME remove_host_acknowledgement
      PROVE  IInv' /\ KeepsSilence
  <2>1. /\ problem_has_been_acknowledged' = FALSE /\ ntf' = Quiet
        /\ UNCHANGED <<stateVars, acknowledgement_type, flapVars, envVars>>
    BY <1>8 DEF remove_host_acknowledgement
  <2>2. IInv'
    BY <1>1, <1>2, <1>4, <1>5, <2>1 DEF stateVars, envVars, AckAgrees
  <2> QED
    BY <1>1, <2>1, <2>2 DEF KeepsSilence
<1>9. ASSUME RenotifiedByService
      PROVE  IInv' /\ KeepsSilence
  <2>1. /\ ntf' \in host_notification(Quiet, "NORMAL", Now)
        /\ UNCHANGED <<stateVars, ackVars, flapVars, envVars>>
    BY <1>9 DEF RenotifiedByService
  <2>2. NtfInv(ntf')
    BY <1>1, <1>6, <2>1, NotificationKeepsNtfInv
  <2>3. "NORMAL" \in ntf'.sent => ~problem_has_been_acknowledged
    BY <1>1, <1>6, <2>1, NotificationSends DEF NtfInv
  <2>4. IInv'
    BY <1>2, <1>4, <1>5, <2>1, <2>2 DEF stateVars, ackVars, envVars, AckAgrees
  <2> QED
    BY <2>3, <2>4 DEF KeepsSilence
<1>10. ASSUME Same, ntf' \in {Quiet, [Quiet EXCEPT !.waiting = FALSE]}, early' \in BOOLEAN,
              up' \in SUBSET Parents, suppress' \in SUBSET Suppressions
       PROVE  IInv' /\ KeepsSilence
  <2>1. NtfInv([Quiet EXCEPT !.waiting = FALSE]) /\ [Quiet EXCEPT !.waiting = FALSE].sent = {}
    <3>1. [Quiet EXCEPT !.waiting = FALSE] = [ntf EXCEPT !.sent = {}, !.waiting = FALSE]
      BY <1>1 DEF Quiet, NtfType
    <3>2. [ntf EXCEPT !.sent = {}, !.waiting = FALSE].sent = {}
      BY <1>1 DEF NtfType
    <3> QED
      BY <1>1, <3>1, <3>2, QuietAndReset
  <2>2. NtfInv(ntf') /\ ntf'.sent = {}
    BY <1>1, <1>10, <2>1
  <2>3. IInv'
    BY <1>4, <1>5, <1>10, <2>2 DEF Same, ackVars, AckAgrees
  <2> QED
    BY <2>2, <2>3 DEF KeepsSilence
<1>11. ASSUME NEW p \in Parents, ParentChanges(p)
       PROVE  IInv' /\ KeepsSilence
  <2>1. up' \in SUBSET Parents
    BY <1>2, <1>11 DEF ParentChanges
  <2> QED
    BY <1>2, <1>5, <1>10, <1>11, <2>1 DEF ParentChanges
<1>12. ASSUME NEW why \in Suppressions, SuppressionChanges(why)
       PROVE  IInv' /\ KeepsSilence
  <2>1. suppress' \in SUBSET Suppressions
    BY <1>2, <1>12 DEF SuppressionChanges
  <2> QED
    BY <1>2, <1>5, <1>10, <1>12, <2>1 DEF SuppressionChanges
<1>13. ASSUME TimePasses
       PROVE  IInv' /\ KeepsSilence
  <2>1. /\ ntf' \in {Quiet, [Quiet EXCEPT !.waiting = FALSE]} /\ early' \in BOOLEAN
        /\ Same /\ UNCHANGED <<up, suppress>>
    BY <1>5, <1>13 DEF TimePasses
  <2> QED
    BY <1>2, <1>10, <2>1
<1>14. CASE UNCHANGED vars
  <2>1. NtfInv(ntf')
    BY <1>1, <1>14 DEF vars
  <2> QED
    BY <1>2, <1>4, <1>5, <1>14, <2>1 DEF vars, stateVars, ackVars, envVars, AckAgrees
<1> QED
  BY <1>3, <1>7, <1>8, <1>9, <1>11, <1>12, <1>13, <1>14 DEF Next

-----------------------------------------------------------------------------
\* The inductive invariant holds.
THEOREM HostInvariant == Spec => []IInv
<1>1. IInv /\ [Next]_vars => IInv'
  BY NextIInv
<1> QED
  BY InitIInv, <1>1, PTL DEF Spec

\* The type invariant: attempts stay within max_attempts, ids and numbers in range.
THEOREM HostTypesCorrect == Spec => []TypeOK
  BY HostInvariant, PTL DEF IInv

\* A host that is UP has no attempt, problem id or acknowledgement left, and
\* unless passive results are hard, state, type, attempt and last hard state agree.
THEOREM HostStatesAgreeAlways == Spec => []HostStatesAgree
<1>1. IInv => HostStatesAgree
  BY DEF IInv, HostStatesAgree
<1> QED
  BY HostInvariant, <1>1, PTL

\* No recovery is announced twice, or without a problem.
THEOREM HostRecoveriesAnswerAlways == Spec => []HostRecoveriesAnswer
<1>1. IInv => HostRecoveriesAnswer
  BY DEF IInv, NtfInv, HostRecoveriesAnswer
<1> QED
  BY HostInvariant, <1>1, PTL

\* Unless a broker module cancels notifications, the number and the states
\* notified on agree.
THEOREM HostNumberAgreesAlways == ASSUME ~MayBlock PROVE Spec => []HostNumberAgrees
<1>1. IInv => HostNumberAgrees
  BY DEF IInv, NtfInv, HostNumberAgrees
<1> QED
  BY HostInvariant, <1>1, PTL

\* An acknowledged problem is not notified about again, by results or by the
\* services of the host.
THEOREM HostAcknowledgementSilencesAlways == Spec => HostAcknowledgementSilences
<1>1. IInv /\ [Next]_vars => [KeepsSilence]_vars
  BY NextIInv
<1>2. Spec => [][KeepsSilence]_vars
  BY HostInvariant, <1>1, PTL DEF Spec
<1> QED
  BY <1>2 DEF KeepsSilence, HostAcknowledgementSilences
=============================================================================
