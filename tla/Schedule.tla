------------------------------ MODULE Schedule -------------------------------
(***************************************************************************)
(* The schedule page (src/app/admin/schedule/page.tsx): the owner moves    *)
(* between the boards of a day, a week and a month by links.  A page is    *)
(* asked for by its address [view, date, staff]; date is NoDate when it is *)
(* absent.  day, or days[d], is what resolveDayShifts made of a day        *)
(* (Hours), active the staff on the list.  Colours, widths and the legend  *)
(* are left out.                                                           *)
(***************************************************************************)
EXTENDS Board

CONSTANT NoDate

\* hrefFor: the conditions are kept from link to link
Href(view, date, staff) == [view |-> view, date |-> date, staff |-> staff]

\* SchedulePage: today without a date, everybody for a name that is not on the list
Opened(at, today, active) ==
    [at EXCEPT !.date = IF @ = NoDate THEN today ELSE @, !.staff = Resolved(active, @)]

\* ViewToggle
ViewToggle(at) == {Href(v, at.date, at.staff) : v \in {"day", "week", "month"}}

\* prevDate and nextDate of the boards
Turned(at, k) ==
    [at EXCEPT !.date = CASE at.view = "day"   -> @ + k
                          [] at.view = "week"  -> WeekStart(@) + 7 * k
                          [] at.view = "month" -> MonthFirstAdd(@, k)]

IsCurrent(at, today) ==
    CASE at.view = "day"   -> at.date = today
      [] at.view = "week"  -> today \in WeekDays(at.date)
      [] at.view = "month" -> MonthOfDay(today) = MonthOfDay(at.date)

\* DateNav: the way back to today is there when today is not shown
DateNav(at, today) ==
    {Turned(at, -1), Turned(at, 1)}
      \cup IF IsCurrent(at, today) THEN {} ELSE {[at EXCEPT !.date = NoDate]}

\* StaffFilter: nothing to choose from with one name
StaffFilter(at, active) ==
    IF Cardinality(active) <= 1 THEN {}
    ELSE {Href(at.view, at.date, s) : s \in active \cup {Unassigned}}

\* closedLabel: why there are no open hours
ClosedLabel(day) == IF day.open = {} THEN {day.status} ELSE {}

\* the hours under a name; {} reads "off"
HoursOf(day, staff, active) == IF staff \in active THEN day.shifts[staff] ELSE {}

(***************************************************************************)
(* The boards                                                              *)
(***************************************************************************)

\* DayBoard: "closed" alone only when nobody is to come; a closed day with bookings is
\* drawn under a notice
DayBoard(at, day, bookings, active) ==
    LET shown == OnBoard(bookings, at.date, at.date + 1, at.staff)
        selected == Selected(active, at.staff)
        lanes == Lanes(shown, selected)
    IN  IF day.open = {} /\ shown = {}
        THEN [closed |-> TRUE, notice |-> ClosedLabel(day), lanes |-> <<>>]
        ELSE [closed |-> FALSE, notice |-> ClosedLabel(day),
              lanes |-> [l \in DOMAIN lanes |->
                           [hours |-> HoursOf(day, l, selected), blocks |-> lanes[l],
                            inactive |-> l \notin selected \cup {Unassigned}]]]

DayLink(at, d) == Href("day", d, at.staff)

\* WeekBoard: one row for each of the staff, "off" when there are no hours
WeekBoard(at, days, bookings, active) ==
    LET from == WeekStart(at.date)
        shown == OnBoard(bookings, from, from + 7, at.staff)
        selected == Selected(active, at.staff)
        rows == WeekRows(shown, selected, at.date)
    IN  [x \in DOMAIN rows |->
           LET hours == HoursOf(days[x[2]], x[1], selected)
           IN  [hours |-> hours, badge |-> rows[x], link |-> DayLink(at, x[2]),
                off |-> IF hours # {} THEN {}
                        ELSE IF x[1] \notin selected THEN {"inactive"}
                        ELSE IF days[x[2]].open = {} THEN ClosedLabel(days[x[2]])
                        ELSE {"off"}]]

\* MonthBoard: the hours of the one asked for, else how many work
MonthBoard(at, days, bookings, active) ==
    LET grid == GridDays(at.date)
        selected == Selected(active, at.staff)
        shown == OnBoard(bookings, Min(grid), Max(grid) + 1, at.staff)
        cells == MonthCells(shown, at.date)
    IN  [total |-> MonthTotal(cells, at.date),
         cells |-> [d \in grid |->
            [badge |-> cells[d], link |-> DayLink(at, d), closed |-> ClosedLabel(days[d]),
             hours |-> IF at.staff = Unassigned THEN {} ELSE days[d].shifts[at.staff],
             working |-> Cardinality({s \in selected : days[d].shifts[s] # {}})]]]
=============================================================================
