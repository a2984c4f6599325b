-------------------------------- MODULE Board --------------------------------
(***************************************************************************)
(* What the owner reads of the bookings: the boards of a day, a week and a *)
(* month, the reports and the lists (src/server/services/                  *)
(* merchant-service.ts, src/lib/schedule-layout.ts).  Everything here is   *)
(* computed from the rows and changes nothing.                             *)
(*                                                                         *)
(* A booking is a record [id, staff, customer, start, end, status, price,  *)
(* fee, items], items being rows [svc, start, price]; staff and customer   *)
(* are Unassigned and NoCustomer when null; svc is the menu, each with a   *)
(* name of its own (the report groups by name, merchant-service.ts:361).   *)
(* Times are instants of Calendar;                                         *)
(* MinuteOf is the time of day on the shop's clock.                        *)
(***************************************************************************)
EXTENDS Hours

CONSTANTS Unassigned, NoCustomer,
          MinBlock      \* the least length a booking is drawn with (15 minutes)

MinuteOf(t) == (t + Offset) % HoursPerDay

Drawn == {"CONFIRMED", "COMPLETED", "PENDING"}
Counted == {"CONFIRMED", "COMPLETED"}

StartsIn(bookings, from, to) ==
    {b \in bookings : InstantOf(from, 0) <= b.start /\ b.start < InstantOf(to, 0)}

OfOne(bookings, only) == IF only = Unassigned THEN bookings ELSE {b \in bookings : b.staff = only}

OnBoard(bookings, from, to, only) ==
    {b \in OfOne(StartsIn(bookings, from, to), only) : b.status \in Drawn}

\* loadBoardStaff: a name that is not on the list of active staff does not filter
Resolved(activeStaff, asked) == IF asked \in activeStaff THEN asked ELSE Unassigned

Selected(activeStaff, asked) == IF asked \in activeStaff THEN {asked} ELSE activeStaff

\* a bug to be caught: bookings of staff who have left are on no lane
OrphansForgotten(shown, selected) == {}

\* loadInactiveStaffFor: staff of these bookings who are not on the list
Orphans(shown, selected) == {b.staff : b \in shown} \ (selected \cup {Unassigned})

(***************************************************************************)
(* getDaySchedule                                                          *)
(***************************************************************************)
Block(b) ==
    [id |-> b.id, start |-> MinuteOf(b.start),
     end |-> MinuteOf(b.start) + Max({MinBlock, b.end - b.start})]

Lanes(shown, selected) ==
    LET unassigned == IF \E b \in shown : b.staff = Unassigned THEN {Unassigned} ELSE {} IN
    [lane \in selected \cup Orphans(shown, selected) \cup unassigned |->
       {Block(b) : b \in {x \in shown : x.staff = lane}}]

\* the hours drawn take in the opening, the shifts and the bookings, to the full hour
\* (Grain), and some hours when there is nothing
Timeline(open, shifts, shown, Grain, Default) ==
    LET all == open \cup UNION {shifts[s] : s \in DOMAIN shifts} \cup {Block(b) : b \in shown}
        from == Min({s.start : s \in all})
        to == Max({s.end : s \in all})
        first == (from \div Grain) * Grain
        last == ((to + Grain - 1) \div Grain) * Grain
    IN  IF all = {} THEN Default
        ELSE Span(first, IF last <= first THEN first + Grain ELSE last)

\* assignTracks: in order of time, each block on the first track that is free
NextTrack(laid, block) ==
    LET free == {k \in DOMAIN laid.ends : laid.ends[k] <= block.start}
        k == IF free = {} THEN Len(laid.ends) + 1 ELSE Min(free)
    IN  [ends |-> IF free = {} THEN Append(laid.ends, block.end)
                  ELSE [laid.ends EXCEPT ![k] = block.end],
         tracks |-> laid.tracks \cup {<<block, k>>}]

AssignTracks(blocks) ==
    Sq!FoldLeft(NextTrack, [ends |-> <<>>, tracks |-> {}],
             Sq!SetToSortSeq(blocks, LAMBDA a, b : \/ a.start < b.start
                                                   \/ a.start = b.start /\ a.end < b.end))

TrackCount(laid) == Max({1, Len(laid.ends)})

(***************************************************************************)
(* getWeekSchedule, getMonthSchedule                                       *)
(***************************************************************************)
WeekDays(date) == WeekStart(date)..WeekStart(date) + 6

\* bookings without staff are on no row of the week
WeekRows(shown, selected, date) ==
    [row \in (selected \cup Orphans(shown, selected)) \X WeekDays(date) |->
       Cardinality({b \in shown : b.staff = row[1] /\ DayOfInstant(b.start) = row[2]})]

MonthCells(shown, date) ==
    [d \in GridDays(date) |-> Cardinality({b \in shown : DayOfInstant(b.start) = d})]

\* totalBookings: days of the neighbouring months are drawn and not counted
MonthTotal(cells, date) ==
    LET m == MonthOfDay(date)
        inMonth == MonthFirst(m)..MonthFirst(m + 1) - 1
    IN  Total([d \in DOMAIN cells \cap inMonth |-> cells[d]])

(***************************************************************************)
(* What has been earned: realizedRevenueFilter                             *)
(***************************************************************************)

\* visits made, and those booked whose time has come
Realized(b, now) == b.status = "COMPLETED" \/ (b.status = "CONFIRMED" /\ b.start < now)

RealizedIn(bookings, from, to, now) ==
    {b \in StartsIn(bookings, from, to) : Realized(b, now)}

Revenue(bookings) == Total([b \in bookings |-> b.price])

\* getDashboardStats
Dashboard(bookings, today, now) ==
    [todayCount |-> Cardinality({b \in StartsIn(bookings, today, today + 1) : b.status \in Counted}),
     upcoming |-> Cardinality({b \in bookings : b.status = "CONFIRMED" /\ b.start >= now}),
     todayRevenue |-> Revenue(RealizedIn(bookings, today, today + 1, now))]

\* getBookingTrend: the last days, today included
Trend(bookings, today, days, now) ==
    LET all == RealizedIn(bookings, today - (days - 1), today + 1, now) IN
    [d \in today - (days - 1)..today |->
       LET that == {b \in all : DayOfInstant(b.start) = d}
       IN  [count |-> Cardinality(that), revenue |-> Revenue(that)]]

\* getStatusBreakdown
StatusBreakdown(bookings, since) ==
    LET all == {b \in bookings : b.start >= since} IN
    [s \in {b.status : b \in all} |-> Cardinality({b \in all : b.status = s})]

\* monthBounds
MonthBounds(m) == [from |-> MonthFirst(m), to |-> MonthFirst(m + 1)]

\* the menus of a month, from the items that start in it: price and visits
ByMenu(bookings, bounds, now) ==
    LET rows == {r \in UNION {{b} \X b.items : b \in {x \in bookings : Realized(x, now)}} :
                   /\ InstantOf(bounds.from, 0) <= r[2].start
                   /\ r[2].start < InstantOf(bounds.to, 0)}
    IN  [v \in {r[2].svc : r \in rows} |->
           LET those == {r \in rows : r[2].svc = v}
           IN  [count |-> Cardinality({r[1].id : r \in those}),
                revenue |-> Total([r \in those |-> r[2].price])]]

\* getMonthlyReport
MonthlyReport(bookings, m, today, now) ==
    LET bounds == MonthBounds(m)
        earned == RealizedIn(bookings, bounds.from, bounds.to, now)
        customers == {b.customer : b \in earned} \ {NoCustomer}
        returning == {c \in customers : \E b \in bookings :
                        /\ b.customer = c /\ b.status \in Counted
                        /\ b.start < InstantOf(bounds.from, 0)}
        part(S) == [count |-> Cardinality(S), revenue |-> Revenue(S),
                    nomination |-> Cardinality({b \in S : b.fee > 0})]
    IN  [total |-> part(earned),
         daily |-> [d \in bounds.from..bounds.to - 1 |->
                      part({b \in earned : DayOfInstant(b.start) = d})],
         byStaff |-> [s \in {b.staff : b \in earned} |-> part({b \in earned : b.staff = s})],
         byMenu |-> ByMenu(bookings, bounds, now),
         newCustomers |-> Cardinality(customers \ returning),
         repeatCustomers |-> Cardinality(returning),
         hasNext |-> m + 1 <= MonthOfDay(today)]

(***************************************************************************)
(* Customers                                                               *)
(***************************************************************************)

\* getCustomerDetail: visits are bookings whose time has come
Visits(bookings, c, now) ==
    {b \in bookings : b.customer = c /\ b.status \in Counted /\ b.start < now}

CustomerStats(bookings, c, now) ==
    LET visits == Visits(bookings, c, now)
        next == {b \in bookings : b.customer = c /\ b.status = "CONFIRMED" /\ b.start >= now}
    IN  [count |-> Cardinality(visits), spent |-> Revenue(visits),
         first |-> {b \in visits : \A v \in visits : b.start <= v.start},
         last  |-> {b \in visits : \A v \in visits : v.start <= b.start},
         next  |-> {b \in next : \A v \in next : b.start <= v.start}]

\* getDormantCustomers: not seen for long, and not coming
Dormant(bookings, customers, days, now) ==
    {c \in customers :
       LET visits == Visits(bookings, c, now) IN
       /\ visits # {}
       /\ \A b \in visits : b.start < now - days * HoursPerDay
       /\ ~ \E b \in bookings : b.customer = c /\ b.status = "CONFIRMED" /\ b.start >= now}

\* getBookingsForExport
Exported(bookings, m) == StartsIn(bookings, MonthBounds(m).from, MonthBounds(m).to)
=============================================================================
