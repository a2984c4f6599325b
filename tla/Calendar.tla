------------------------------ MODULE Calendar -------------------------------
(***************************************************************************)
(* Days of the calendar (src/lib/time.ts, month-grid.ts, jp-holidays.ts).  *)
(* A day is its number, 1970-01-01 being day 0: the strings yyyy-MM-dd of  *)
(* the code are in the same order.  A month is the number of months since  *)
(* January of year 0.  An instant is a number of hours since 1970-01-01    *)
(* 00:00 UTC; the shops' zone is Offset hours ahead.                       *)
(***************************************************************************)
EXTENDS Integers, FiniteSets, Sums

CONSTANT
    Offset          \* hours from UTC to the zone of the shops (Asia/Tokyo: 9)

HoursPerDay == 24

YearOf(m) == m \div 12

Leap(y) == (y % 4 = 0 /\ y % 100 # 0) \/ y % 400 = 0

MonthNumber(y, i) == 12 * y + i - 1

\* daysInMonth
DaysInMonth(m) ==
    LET i == (m % 12) + 1 IN
    IF i = 2 THEN (IF Leap(YearOf(m)) THEN 29 ELSE 28)
    ELSE IF i \in {4, 6, 9, 11} THEN 30 ELSE 31

LeapDaysBefore(y) == (y - 1) \div 4 - (y - 1) \div 100 + (y - 1) \div 400

DaysBefore(m) == Total([i \in m - (m % 12)..m - 1 |-> DaysInMonth(i)])

\* monthFirst: the first day of a month
MonthFirst(m) ==
    365 * (YearOf(m) - 1970) + LeapDaysBefore(YearOf(m)) - LeapDaysBefore(1970) + DaysBefore(m)

Day(y, i, d) == MonthFirst(MonthNumber(y, i)) + d - 1

MonthOfDay(n) ==
    CHOOSE m \in MonthNumber(1970 + n \div 366, 1)..MonthNumber(1970 + n \div 365, 12) :
      MonthFirst(m) <= n /\ n < MonthFirst(m + 1)

\* isoDateDayOfWeek: 0 is Sunday
Dow(n) == (n + 4) % 7

\* monthFirstAdd: months are counted through, so no day 31 is looked for in February
MonthFirstAdd(n, k) == MonthFirst(MonthOfDay(n) + k)

\* weekStart: back to Monday
WeekStart(n) == n + (IF Dow(n) = 0 THEN -6 ELSE 1 - Dow(n))

\* monthGrid: whole weeks from Monday to Sunday around a month
GridDays(n) ==
    LET m == MonthOfDay(n) IN
    WeekStart(MonthFirst(m))..WeekStart(MonthFirst(m + 1) - 1) + 6

(***************************************************************************)
(* Instants and days                                                       *)
(***************************************************************************)

\* zonedDateString
DayOfInstant(t) == (t + Offset) \div HoursPerDay

\* zonedDateMinutesToUtc, in hours; more than a day's worth of hours runs on
InstantOf(n, h) == (n + h \div HoursPerDay) * HoursPerDay + (h % HoursPerDay) - Offset

\* getUTCDay of an instant
UtcDow(t) == Dow(t \div HoursPerDay)

(***************************************************************************)
(* National holidays                                                       *)
(***************************************************************************)
NthMonday(y, i, nth) ==
    LET first == Day(y, i, 1) IN first + ((8 - Dow(first)) % 7) + 7 * (nth - 1)

\* the approximations of the two equinoxes, in ten-thousandths of a day
VernalDay(y) == (208431 + (242194 * (y - 1980)) \div 100 ) \div 10000 - (y - 1980) \div 4
AutumnalDay(y) == (232488 + (242194 * (y - 1980)) \div 100) \div 10000 - (y - 1980) \div 4

\* FIXED, HAPPY_MONDAY and the equinoxes
Base(y) ==
    {Day(y, f[1], f[2]) : f \in {<<1, 1>>, <<2, 11>>, <<2, 23>>, <<4, 29>>, <<5, 3>>, <<5, 4>>,
                                 <<5, 5>>, <<8, 11>>, <<11, 3>>, <<11, 23>>}}
    \cup {NthMonday(y, h[1], h[2]) : h \in {<<1, 2>>, <<7, 3>>, <<9, 3>>, <<10, 2>>}}
    \cup {Day(y, 3, VernalDay(y)), Day(y, 9, AutumnalDay(y))}

\* a day between two holidays is one, unless it is a Sunday
Bridges(y) ==
    LET base == Base(y) IN
    {n + 1 : n \in {b \in base : b + 2 \in base /\ b + 1 \notin base /\ Dow(b + 1) # 0}}

\* a holiday on a Sunday is given back on the first day that is none; the days
\* given back count as holidays for the next one
Substitutes(y) ==
    LET sundays == {b \in Base(y) : Dow(b) = 0}
        off == Base(y) \cup Bridges(y)
        back[n \in sundays] ==
            LET taken == off \cup {back[p] : p \in {q \in sundays : q < n}} IN
            CHOOSE d \in n + 1 .. n + 14 : d \notin taken /\ \A e \in n + 1 .. d - 1 : e \in taken
    IN  {back[n] : n \in sundays}

HolidaysOf(y) == Base(y) \cup Bridges(y) \cup Substitutes(y)

\* isJpHoliday
IsHoliday(n) == n \in HolidaysOf(YearOf(MonthOfDay(n)))

\* jpHolidaysInRange
HolidaysInRange(from, to) ==
    LET years == YearOf(MonthOfDay(from))..YearOf(MonthOfDay(to))
    IN  {n \in UNION {HolidaysOf(y) : y \in years} : from <= n /\ n < to}

\* jpHolidaysFrom: the next few, of four years
HolidaysFrom(n, limit) ==
    LET near == {d \in UNION {HolidaysOf(y) : y \in YearOf(MonthOfDay(n))..YearOf(MonthOfDay(n)) + 3}
                  : d >= n}
    IN  {d \in near : Cardinality({e \in near : e < d}) < limit}
=============================================================================
