----------------------------- MODULE MCTimePeriod -----------------------------
(* Small instances of TimePeriod: a day of five hours, a year of three months. *)
EXTENDS TimePeriod

MCMonthStarts == <<0, 15, 28, 42>>

Hours(from, to) == [start |-> from, end |-> to]
Daily(ranges) == [weekday \in 0..6 |-> ranges]
Weekly(days) == [days |-> days, exceptions |-> <<>>, exclusions |-> <<>>]

Always == Weekly(Daily(<<Hours(0, 10)>>))
Office == Weekly(Daily(<<Hours(3, 7)>>))
Split == Weekly(Daily(<<Hours(0, 2), Hours(5, 10)>>))
Lunch == Weekly(Daily(<<Hours(5, 6)>>))
Early == Weekly(Daily(<<Hours(2, 4)>>))
Late == Weekly(Daily(<<Hours(6, 10)>>))
Overnight == Weekly(Daily(<<Hours(8, 3)>>))
Morning == Weekly(Daily(<<Hours(0, 0), Hours(4, 6)>>))
OneDay == Weekly([weekday \in 0..6 |-> IF weekday = 3 THEN <<Hours(2, 5)>> ELSE <<>>])

Excluding(tp, excluded) == [tp EXCEPT !.exclusions = excluded]

\* Office hours, and other ranges on the days of an exception.
Except(type, start, end, skip, ranges) ==
    [Office EXCEPT !.exceptions =
         <<[type |-> type, start |-> start, end |-> end, skip |-> skip, times |-> ranges]>>]

On(year, mon, mday) == [year |-> year, mon |-> mon, mday |-> mday]
Date(mon, mday) == [mon |-> mon, mday |-> mday]
The(mon, wday, offset) == [mon |-> mon, wday |-> wday, offset |-> offset]
Evening == <<Hours(8, 9)>>

MCTimeperiod ==
    [never |-> Weekly(Daily(<<>>)), always |-> Always, office |-> Office, split |-> Split,
     lunch |-> Lunch, early |-> Early, late |-> Late, one_day |-> OneDay,
     overnight |-> Overnight, morning |-> Morning,
     always_without_lunch |-> Excluding(Always, <<"lunch">>),
     office_without_lunch |-> Excluding(Office, <<"lunch">>),
     split_without_day |-> Excluding(Split, <<"one_day">>),
     split_without_two |-> Excluding(Split, <<"lunch", "one_day">>),
     always_without_late |-> Excluding(Always, <<"late">>),
     office_without_always |-> Excluding(Office, <<"always">>),
     nothing_left |-> Excluding(Always, <<"always">>),
     nested |-> Excluding(Always, <<"office_without_lunch">>),
     holidays |-> Except("calendar date", On(1, 1, 10), On(1, 2, 2), 0, <<>>),
     third_days |-> Except("calendar date", On(1, 1, 7), On(1, 1, 7), 3, Evening),
     put_forward |-> [Except("calendar date", On(1, 1, 7), On(1, 1, 7), 0, <<Hours(5, 6)>>)
                          EXCEPT !.days = Daily(<<>>)],
     put_back |-> Except("calendar date", On(1, 2, 4), On(1, 2, 5), 0, Evening),
     slipped |-> Except("month date", Date(1, 5), Date(1, 20), 0, Evening),
     new_year |-> Except("month date", Date(2, 13), Date(0, 4), 0, Evening),
     other_days |-> Except("month date", Date(1, 4), Date(2, 6), 2, Evening),
     month_ends |-> Except("month day", Date(0, 12), Date(0, 3), 0, <<>>),
     last_days |-> Except("month day", Date(0, -3), Date(0, -1), 0, Evening),
     first_weekday |-> Except("month week day", The(1, 1, 1), The(1, 2, 3), 0, Evening),
     last_weekdays |-> Except("month week day", The(2, 2, -1), The(2, 5, -1), 0, Evening),
     second_weeks |-> Except("week day", The(0, 2, 2), The(0, 2, 3), 0, Evening),
     first_sundays |-> Except("week day", The(0, 0, 1), The(0, 0, 2), 0, <<Hours(0, 0)>>)]
=============================================================================
