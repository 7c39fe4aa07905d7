------------------------------ MODULE TimePeriod ------------------------------
(***************************************************************************)
(* Time periods (base/utils.c): is a time within a period, and when is the *)
(* next that is.  A period has ranges for each day of the week, exceptions *)
(* for dates, and periods that are excluded from it.                       *)
(*                                                                         *)
(* Time is counted in UTC.  The calendar and the clock are scaled down; of *)
(* the zone there is the shift to daylight saving time and back.           *)
(***************************************************************************)
EXTENDS Integers, Sequences, FiniteSets, FiniteSetsExt, SequencesExt

CONSTANTS
    Minute, Hour, Day,  \* 60, 3600 and 86400 seconds
    DayReach,           \* 84800 seconds
    MonthStarts,        \* the days before each month of a year, and before the next year
    DstStart, DstEnd,   \* daylight saving time, once
    MaxDepth,           \* max_depth
    timeperiod,         \* the periods, by name: [days, exceptions, exclusions]
    FirstTime, LastTime,\* the times that are asked about
    CheckWindow         \* the window for rescheduling

ASSUME TimePeriodConstants ==
    /\ Minute \in Nat /\ Hour \in Nat /\ Day \in Nat /\ DayReach \in Nat
    /\ 0 < Minute /\ Minute < Hour /\ Hour < Day
    /\ Day - Hour < DayReach /\ DayReach < Day
    /\ MonthStarts \in Seq(Nat) /\ Len(MonthStarts) > 2 /\ MonthStarts[1] = 0
    /\ \A m \in 2..Len(MonthStarts) : MonthStarts[m] - MonthStarts[m - 1] \in 7..31
    /\ 35 < MonthStarts[Len(MonthStarts)]
    /\ DstStart \in Nat /\ DstEnd \in Nat /\ DstStart < DstEnd
    /\ FirstTime \in Nat /\ LastTime \in Nat /\ CheckWindow \in Nat
    /\ MaxDepth \in Nat /\ 12 < MaxDepth

VARIABLES
    period,     \* the period that is asked about
    now,        \* the time that is asked about
    next,       \* the next valid time
    moved       \* the times to which a check may be moved

periodVars == <<period, now, next, moved>>

Periods == DOMAIN timeperiod

-----------------------------------------------------------------------------
\* The calendar: years and months are counted from 0, days of the month from 1.

Months == 0..Len(MonthStarts) - 2
YearDays == MonthStarts[Len(MonthStarts)]
MonthLength(month) == MonthStarts[month + 2] - MonthStarts[month + 1]

\* mktime: also of a day that its month does not have.
DayOf(year, month, mday) == year * YearDays + MonthStarts[month + 1] + mday - 1

YearOf(day) == day \div YearDays
MonthOf(day) ==
    CHOOSE month \in Months : day % YearDays \in MonthStarts[month + 1]..MonthStarts[month + 2] - 1
WeekDayOf(day) == day % 7

\* localtime: tm_isdst, and the day.
is_dst_time(t) == DstStart <= t /\ t < DstEnd
Offset(t) == IF is_dst_time(t) THEN Hour ELSE 0
LocalDay(t) == (t + Offset(t)) \div Day

\* mktime of 00:00 with the tm_isdst that localtime left.
Midnight(t) == LocalDay(t) * Day - Offset(t)

\* mktime of 00:00 with a tm_isdst of -1.
StartOf(day) == IF is_dst_time(day * Day - Hour) THEN day * Day - Hour ELSE day * Day

get_dst_shift(start, end) == Offset(end) - Offset(start)

\* The clock is not changed over midnight, so not to another day.
ASSUME ClockChanges ==
    \A change \in {DstStart, DstEnd} : LocalDay(change) = LocalDay(change - 1)

\* The time of a day that has to be in a month; none when it is not.
InMonth(day, month) == IF MonthOf(day) = month THEN {StartOf(day)} ELSE {}

calculate_time_from_day_of_month(year, month, monthday) ==
    InMonth(DayOf(year, month,
                  IF monthday > 0 THEN monthday
                  ELSE MonthLength(month) + (IF monthday < -30 THEN -30 ELSE monthday + 1)), month)

\* The first and the last instance of a weekday in a month.
FirstInstance(year, month, weekday) ==
    DayOf(year, month, 1) + ((weekday - WeekDayOf(DayOf(year, month, 1))) % 7)
LastInstance(year, month, weekday) ==
    FirstInstance(year, month, weekday)
        + 7 * Max({k \in 0..4 : MonthOf(FirstInstance(year, month, weekday) + 7 * k) = month})

calculate_time_from_weekday_of_month(year, month, weekday, offset) ==
    InMonth(IF offset > 0
            THEN FirstInstance(year, month, weekday) + 7 * ((IF offset > 5 THEN 5 ELSE offset) - 1)
            ELSE LastInstance(year, month, weekday) + 7 * ((IF offset < -5 THEN -5 ELSE offset) + 1),
            month)

-----------------------------------------------------------------------------
\* Which ranges of a period are for a day.

Types == <<"calendar date", "month date", "month day", "month week day", "week day">>
Yearly == {"month date", "month week day"}

\* What an exception has for a start or an end, and is made of.
DateOf(type) ==
    CASE type = "calendar date"  -> [year : Int, mon : Months, mday : Int]
      [] type = "month date"     -> [mon : Months, mday : Int]
      [] type = "month day"      -> [mon : Months, mday : Int]
      [] type = "month week day" -> [mon : Months, wday : 0..6, offset : Int]
      [] type = "week day"       -> [mon : Months, wday : 0..6, offset : Int]

Timeranges == [start : 0..Day, end : 0..Day]
DaterangesOf(type) ==
    [type : {type}, start : DateOf(type), end : DateOf(type), skip : Int, times : Seq(Timeranges)]
Dateranges ==
    DaterangesOf("calendar date") \cup DaterangesOf("month date") \cup DaterangesOf("month day")
        \cup DaterangesOf("month week day") \cup DaterangesOf("week day")

\* add_timerange_to_timeperiod, add_exception_to_timeperiod, add_exclusion_to_timeperiod
ASSUME PeriodsAssumption ==
    /\ IsFiniteSet(Periods)
    /\ \A tp \in Periods : /\ timeperiod[tp].days \in [0..6 -> Seq(Timeranges)]
                           /\ timeperiod[tp].exceptions \in Seq(Dateranges)
                           /\ timeperiod[tp].exclusions \in Seq(Periods)

\* The start or the end of an exception, in a year and the month of the test time.
TimeOf(type, d, year, test_mon) ==
    CASE type = "calendar date"  -> {StartOf(DayOf(d.year, d.mon, d.mday))}
      [] type = "month date"     -> calculate_time_from_day_of_month(year, d.mon, d.mday)
      [] type = "month day"      -> calculate_time_from_day_of_month(year, test_mon, d.mday)
      [] type = "month week day" -> calculate_time_from_weekday_of_month(year, d.mon, d.wday, d.offset)
      [] type = "week day"       -> calculate_time_from_weekday_of_month(year, test_mon, d.wday, d.offset)

\* Mutation of EndYear: the year is never advanced.
SameYear(x, start, year, mon) == year

\* "advance a year if necessary: august 2 - february 5", also for an end that is
\* not in its month.
EndYear(x, start, year, mon) ==
    IF x.type \in Yearly /\ \A end \in TimeOf(x.type, x.end, year, mon) : end < start
    THEN year + 1 ELSE year

\* The last day of a month, for an end that slipped past it.
SlippedTo(x, end_year, year, mon) ==
    CASE x.type = "month date" /\ x.end.mday >= 0 ->
             calculate_time_from_day_of_month(end_year, x.end.mon, -1)
      [] x.type = "month day" /\ x.end.mday >= 0 -> calculate_time_from_day_of_month(year, mon, -1)
      [] x.type = "month week day" /\ x.end.offset >= 0 ->
             calculate_time_from_day_of_month(end_year, mon, -1)
      [] x.type = "week day" /\ x.end.offset >= 0 -> calculate_time_from_day_of_month(year, mon, -1)
      [] OTHER -> {}

EndTimes(x, start, year, mon) ==
    UNION {IF TimeOf(x.type, x.end, end_year, mon) # {} THEN TimeOf(x.type, x.end, end_year, mon)
           ELSE SlippedTo(x, end_year, year, mon) : end_year \in {EndYear(x, start, year, mon)}}

\* is_daterange_single_day
SingleDay(x) == x.start = x.end

\* Is the day that is at midnight within the days of a range, or of those that
\* come over the end of a month or a year.
InRange(midnight, start, end) ==
    \/ midnight + DayReach >= start /\ (midnight <= end \/ start > end)
    \/ midnight <= end /\ start > end

\* Is every nth day counted on from the start, or from one time a single day.
SkipEnd(x, end, midnight) == IF x.type = "calendar date" /\ SingleDay(x) THEN midnight ELSE end

\* Is a time within the days of an exception.  When midnight is before the start
\* the days are -1: there the code's unsigned difference wraps.
Matches(x, t) ==
    LET year == YearOf(LocalDay(t))
        mon == MonthOf(LocalDay(t))
    IN \E midnight \in {Midnight(t)} :
       \E start \in TimeOf(x.type, x.start, year, mon) :
       \E end \in EndTimes(x, start, year, mon) :
           \/ x.skip <= 1 /\ InRange(midnight, start, end)
           \/ /\ x.skip > 1 /\ start <= t
              /\ (get_dst_shift(start, midnight) + midnight - start) \div Day % x.skip = 0
              /\ InRange(midnight, midnight, SkipEnd(x, end, midnight))

\* _get_matching_timerange: those of the first exception that matches, or of the weekday.
matching_timerange(t, tp) ==
    LET exceptions == timeperiod[tp].exceptions
        matching == {i \in DOMAIN exceptions : Matches(exceptions[i], t)}
    IN IF matching = {} THEN timeperiod[tp].days[WeekDayOf(LocalDay(t))]
       ELSE exceptions[Min(matching)].times

\* Exclusions of exclusions are followed down: no chain of them is circular
\* (pre_flight_circular_check), so none is longer than this.
MaxChain == Cardinality(Periods)
Exclusions(tp) == timeperiod[tp].exclusions

IsIn(t, r) == Midnight(t) + r.start <= t /\ t <= Midnight(t) + r.end

CheckedGiven(excluded) ==
    [tp \in Periods |-> [t \in Nat |->
        /\ \A x \in ToSet(Exclusions(tp)) : ~excluded[x][t]
        /\ \E r \in ToSet(matching_timerange(t, tp)) : IsIn(t, r)]]

checked[n \in 0..MaxChain] ==
    IF n = 0 THEN [tp \in Periods |-> [t \in Nat |-> FALSE]] ELSE CheckedGiven(checked[n - 1])

check_time_against_period(t, tp) == checked[MaxChain][tp][t]

-----------------------------------------------------------------------------
\* When a time is within a period next, and when it is not.

\* "ranges with start/end of zero mean exclude this day"
Ranges(t, tp) == {r \in ToSet(matching_timerange(t, tp)) : r.start # 0 \/ r.end # 0}

\* Mutation of RangesLeft: a range that ends at the time itself is out of bounds.
RangesBefore(t, tp) == {r \in Ranges(t, tp) : Midnight(t) + r.end > t}

\* The ranges of the day that are not over.
RangesLeft(t, tp) == {r \in Ranges(t, tp) : Midnight(t) + r.end >= t}

\* The loop of _get_next_valid_time over the ranges of a day with one left.
EarliestOfDay(t, tp) == Max({t, Min({Midnight(t) + r.start : r \in RangesLeft(t, tp)})})

\* The loop of _get_next_invalid_time over the ranges of a day, in their order;
\* a range with start and end of zero is not left, as none is entered.
PastRange(e, r, midnight) ==
    IF midnight + r.start <= e /\ midnight + r.end > e THEN midnight + r.end + Minute ELSE e

PastRanges(t, tp) ==
    LET ranges == matching_timerange(t, tp)
        past[i \in 0..Len(ranges)] ==
            IF i = 0 THEN t ELSE PastRange(past[i - 1], ranges[i], Midnight(t))
    IN past[Len(ranges)]

\* Mutation of AfterExclusions: each exclusion is asked about the same time.
AfterTheLast(invalid, e, tp) ==
    IF Exclusions(tp) = <<>> THEN e ELSE invalid[Last(Exclusions(tp))][e]

\* Each exclusion moves the time out of it.
AfterExclusions(invalid, e, tp) ==
    LET after[i \in 0..Len(Exclusions(tp))] ==
            IF i = 0 THEN e ELSE invalid[Exclusions(tp)[i]][after[i - 1]]
    IN after[Len(Exclusions(tp))]

\* A turn of the loop of _get_next_valid_time.
ValidTurn(invalid, tp) ==
    [t \in Nat |-> IF RangesLeft(t, tp) = {} THEN Midnight(t) + Day
                   ELSE AfterExclusions(invalid, EarliestOfDay(t, tp), tp)]

\* A turn of the loop of _get_next_invalid_time.
InvalidTurn(valid, tp) ==
    [t \in Nat |-> Min({PastRanges(t, tp)}
                           \cup {valid[x][t] + Minute : x \in ToSet(Exclusions(tp))})]

\* The loops take turns until one changes nothing.
TakeTurn(turn, was) ==
    IF was.settled THEN was
    ELSE [time |-> turn[was.time], turns |-> was.turns + 1, settled |-> turn[was.time] = was.time]

\* When max_depth of them are used up the answer is the time asked about.
Settled(turn, pref) ==
    LET loop[n \in 0..MaxDepth] ==
            IF n = 0 THEN [time |-> pref, turns |-> 0, settled |-> FALSE]
            ELSE TakeTurn(turn, loop[n - 1])
    IN IF loop[MaxDepth].turns = MaxDepth THEN pref ELSE loop[MaxDepth].time

\* The answers for periods, given those for their exclusions.
Answers(below) ==
    [valid |-> [tp \in Periods |-> [pref \in Nat |-> Settled(ValidTurn(below.invalid, tp), pref)]],
     invalid |-> [tp \in Periods |-> [pref \in Nat |-> Settled(InvalidTurn(below.valid, tp), pref)]]]

answers[n \in 0..MaxChain] ==
    IF n = 0 THEN [valid |-> [tp \in Periods |-> [t \in Nat |-> t]],
                   invalid |-> [tp \in Periods |-> [t \in Nat |-> t]]]
    ELSE Answers(answers[n - 1])

\* _get_next_valid_time, _get_next_invalid_time
next_valid_time(pref, tp) == answers[MaxChain].valid[tp][pref]
next_invalid_time(pref, tp) == answers[MaxChain].invalid[tp][pref]

\* Mutation of Nudges: the first invalid minute is included.
NudgesUpToInvalid(nudge, check_window) ==
    0..(IF nudge + Minute <= 0 \/ nudge + Minute > check_window THEN check_window ELSE nudge + Minute)

\* By how much a check may be moved, when that is the last valid minute.
Nudges(nudge, check_window) ==
    0..(IF nudge <= 0 \/ nudge > check_window THEN check_window ELSE nudge)

\* reschedule_within_timeperiod: the times it may choose.
reschedule_within_timeperiod(start, tp, check_window) ==
    {start + n : n \in Nudges(next_invalid_time(start, tp) - Minute - start, check_window)}

-----------------------------------------------------------------------------
\* Each period is asked about at each time.

Ask(t) ==
    /\ now' = t
    /\ next' = next_valid_time(t, period)
    /\ moved' = reschedule_within_timeperiod(t, period, CheckWindow)
    /\ UNCHANGED period

PeriodInit ==
    /\ period \in Periods
    /\ now = FirstTime
    /\ next = next_valid_time(FirstTime, period)
    /\ moved = reschedule_within_timeperiod(FirstTime, period, CheckWindow)

PeriodNext == now < LastTime /\ Ask(now + 1)

PeriodSpec == PeriodInit /\ [][PeriodNext]_periodVars

-----------------------------------------------------------------------------
\* What days an exception names, by the calendar alone.

DaysOf(year, month) == DayOf(year, month, 1)..DayOf(year, month, MonthLength(month))

\* The nth of some days, or the nth from their end.
Nth(days, n) ==
    {day \in days : n \in {Cardinality({d \in days : d <= day}), -Cardinality({d \in days : d >= day})}}

WeekdayTypes == {"month week day", "week day"}

\* The day that d names among those of a month, as a set of at most one; last: or
\* the last of them, where a month has not so many.
NamedAmong(type, d, days, last) ==
    LET number == IF type \in WeekdayTypes THEN d.offset ELSE d.mday
        named == Nth(IF type \in WeekdayTypes THEN {x \in days : WeekDayOf(x) = d.wday} ELSE days,
                     number)
    IN IF named = {} /\ last /\ number > 0 THEN Nth(days, -1) ELSE named

Named(type, d, year, month, last) ==
    UNION {NamedAmong(type, d, days, last) :
           days \in {DaysOf(IF type = "calendar date" THEN d.year ELSE year,
                            IF type \in {"month day", "week day"} THEN month ELSE d.mon)}}

\* Is day from the start to the end of an exception.
InDays(x, day) ==
    \E year \in {YearOf(day)}, month \in {MonthOf(day)} :
        LET From(y) == Named(x.type, x.start, y, month, FALSE)
            To(y) == Named(x.type, x.end, y, month, x.type # "calendar date")
            Within(y, z) == \E s \in From(y), e \in To(z) : s <= day /\ day <= e
            wraps == \E s \in From(year), e \in To(year) : e < s
        IN \/ Within(year, year)
           \/ wraps /\ x.type \in Yearly /\ (Within(year, year + 1) \/ Within(year - 1, year))
           \/ wraps /\ x.type \notin Yearly /\ \E s \in From(year), e \in To(year) : s <= day \/ day <= e
           \/ x.skip > 1 /\ x.type = "calendar date" /\ SingleDay(x) /\ \E s \in From(year) : s <= day

\* Is day one of every so many from the start.
OnSkipDay(x, day) ==
    x.skip > 1 => \E s \in Named(x.type, x.start, YearOf(day), MonthOf(day), FALSE) :
                      s <= day /\ (day - s) % x.skip = 0

\* The days of a start and of an end, by the year and the month of a day.
Starts(x, day) == Named(x.type, x.start, YearOf(day), MonthOf(day), FALSE)
Ends(x, day, last) == Named(x.type, x.end, YearOf(day), MonthOf(day), last)

\* A day of a range that has come over new year.
AfterNewYear(x, day) ==
    x.type \in Yearly /\ \E s \in Starts(x, day), e \in Ends(x, day, TRUE) : e < s /\ day <= e

\* A day after the month that the end of a range has slipped past, or of a year that
\* has no such end.
AfterSlippedEnd(x, day) ==
    /\ x.type \in Yearly /\ Ends(x, day, FALSE) = {}
    /\ \A s \in Starts(x, day), e \in Ends(x, day, TRUE) : s <= e /\ e < day

\* A range has begun, is over, and has an end in the year to come.
HasBegun(x, day) == \E s \in Starts(x, day) : s <= day
AfterEnd(x, day) ==
    \E s \in Starts(x, day), e \in Ends(x, day, x.type # "calendar date") : s <= e /\ e < day
EndsNextYear(x, day) == Named(x.type, x.end, YearOf(day) + 1, MonthOf(day), TRUE) # {}

\* A date that is on the calendar, or a number that some month has days for.
Countable(type, d) ==
    CASE type = "calendar date" -> d.mday \in 1..MonthLength(d.mon)
      [] type \in {"month date", "month day"} -> d.mday \in (-31..31) \ {0}
      [] type \in WeekdayTypes -> d.offset \in (-5..5) \ {0}

-----------------------------------------------------------------------------
\* Properties.

\* The clock is not changed today.
Ordinary(t) == LocalDay(t) \notin {LocalDay(DstStart), LocalDay(DstEnd)}

Excluded == ToSet(Exclusions(period))

\* Valid, and not only as the midnight of a day that 00:00-00:00 is to exclude.
Valid(t) == check_time_against_period(t, period) /\ \E r \in Ranges(t, period) : IsIn(t, r)

\* t is the last minute of a range, which may be the midnight after its day.
AtEnd(t, tp) ==
    \E u \in {t - 1, t} : \E r \in ToSet(matching_timerange(u, tp)) : Midnight(u) + r.end = t

\* t is that, or less than a minute later.
JustOver(t, tp) == \E u \in (t - Minute + 1)..t : AtEnd(u, tp)

\* The answer is the time asked about, but neither valid nor one that may be
\* taken for it: nothing was found.
GaveUp(either) == next = now /\ ~Valid(now) /\ now \notin either

\* The times that were looked at, at least.
LookedTo(either) == IF GaveUp(either) THEN now + 8 * Day ELSE next

\* None of them is on the day of a change of the clock.
NotOn(change, either) == LocalDay(change) \notin LocalDay(now)..LocalDay(LookedTo(either))

\* Is next the first valid time from now on, if there is one, the times apart
\* that may be taken for either.
IsNext(either) ==
    /\ now <= next
    /\ \A t \in now..LookedTo(either) - 1 : Valid(t) => t \in either
    /\ GaveUp(either) \/ Valid(next) \/ next \in either

\* The exceptions whose days are counted, on a day when the clock is not changed.
Counted == {x \in ToSet(timeperiod[period].exceptions) :
                Ordinary(now) /\ Countable(x.type, x.start) /\ Countable(x.type, x.end)}

\* An exception is for the days it names, up to an end that the code misses: days and
\* weekdays counted from either end of a month, over the end of a month and until new
\* year, ends that slip past a month until that is over, every nth day until the end.
NamesItsDays(x, t) ==
    LET day == LocalDay(t)
    IN \/ AfterNewYear(x, day) \/ AfterSlippedEnd(x, day)
       \/ Matches(x, t) <=> InDays(x, day) /\ OnSkipDay(x, day)
       \/ x.skip > 1 /\ AfterEnd(x, day)

\* What the code does after the ends it misses.  "advance a year if necessary: august 2 -
\* february 5" is for the end alone, so from new year on the start is the august to come,
\* and no day matches.  An end that its month does not have is no time yet when it is
\* compared with the start, so that of the next year is taken, although "use last day of
\* month as end date".  And every nth day matches after the end as well, not only "if
\* skipping range has no end": the day is put in place of the start, and an end before it
\* looks like that of a range over the end of a month.
MissesItsEnd(x, t) ==
    LET day == LocalDay(t)
    IN /\ AfterNewYear(x, day) => ~Matches(x, t)
       /\ AfterSlippedEnd(x, day) =>
              (Matches(x, t) <=> OnSkipDay(x, day) /\ HasBegun(x, day) /\ EndsNextYear(x, day))
       /\ x.skip > 1 /\ AfterEnd(x, day) => (Matches(x, t) <=> OnSkipDay(x, day))

\* On which days an exception matches: those it names, and after an end that is missed
\* those that MissesItsEnd says, so that each day is told (calculate_time_from_day_of_
\* month, calculate_time_from_weekday_of_month, _get_matching_timerange).  Not so on days
\* when the clock is changed, and for a date or a number that no month has.
ExceptionsNameDays == \A x \in Counted : NamesItsDays(x, now) /\ MissesItsEnd(x, now)

\* When the clock is put back, an hour comes twice: a range is over after the
\* first time, and not yet over after the second.  Other ranges may match then, as
\* the last day of an exception is over when its midnight is.
DiffersWhenPutBack ==
    \/ Ranges(DstEnd - 1, period) # Ranges(DstEnd, period)
    \/ \E r \in Ranges(DstEnd, period) :
           Midnight(DstEnd - 1) + r.end < DstEnd - 1 /\ DstEnd <= Midnight(DstEnd) + r.end

\* Ranges do not end before they start.  Each that does, as 22:00-06:00, costs a turn.
Forward(tp) ==
    \A r \in UNION ({ToSet(timeperiod[tp].days[w]) : w \in 0..6}
                        \cup {ToSet(x.times) : x \in ToSet(timeperiod[tp].exceptions)}) :
        r.start <= r.end

\* The next valid time is not before the time asked about, valid, and the first
\* that is (_get_next_valid_time, check_time_against_period), except when the
\* clock is put forward before then or later that day, or put back to where the
\* ranges are others.
NextIsEarliest ==
    /\ Excluded = {} /\ (GaveUp({}) => Forward(period))
    /\ NotOn(DstStart, {}) /\ (NotOn(DstEnd, {}) \/ ~DiffersWhenPutBack)
    => IsNext({})

\* Is some exclusion valid for as long as one looks.
ExcludedForever ==
    \E x \in Excluded : \A u \in now..now + 8 * Day : check_time_against_period(u, x)

\* The times just after an excluded range, which may be taken for valid or, when
\* it ends at midnight, for excluded.
JustAfterExclusion == {t \in Nat : \E x \in Excluded : JustOver(t, x)}

\* So it is with exclusions that have none themselves, where the clock is not
\* changed, except just after an excluded range, and that an exclusion without an
\* end is ignored (_get_next_valid_time, _get_next_invalid_time).
ExclusionsHold ==
    /\ NotOn(DstStart, JustAfterExclusion) /\ NotOn(DstEnd, JustAfterExclusion)
    /\ ~ExcludedForever /\ \A x \in Excluded : Exclusions(x) = <<>>
    => IsNext(JustAfterExclusion)

\* A check that is moved to somewhere in its window stays within its period, or
\* comes less than a minute after a range, where the next begins a minute later or
\* the day is over (reschedule_within_timeperiod), except from the end of a range
\* and when the clock is changed.
MovedWithinPeriod ==
    Excluded = {} /\ Valid(now) /\ ~AtEnd(now, period) /\ (\A t \in moved : Ordinary(t))
        => \A t \in moved : Valid(t) \/ JustOver(t, period)
=============================================================================
