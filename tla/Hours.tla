-------------------------------- MODULE Hours --------------------------------
(***************************************************************************)
(* When a shop is open and who works (src/domain/booking/business-hours.ts *)
(* and schedules.ts, the loaders of booking-repository.ts), and what the   *)
(* owner's board shows of it (merchant-service.ts, resolveDayShifts).      *)
(*                                                                         *)
(* db is what the owner saved of one shop:                                 *)
(*   hours     rows [dow, open, close]                                     *)
(*   specials  at most one row [date, type, times] a date; times holds one *)
(*             span, or none when openMinute or closeMinute is null        *)
(*   closeOn   closeOnNationalHolidays                                     *)
(*   shifts    rows [staff, type, dow or date, start, end, isWorking]; on  *)
(*             a day off start and end are equal                           *)
(* A date is a day number of Calendar, a time of day is in minutes (any    *)
(* unit) from midnight, as in the rows.                                    *)
(***************************************************************************)
EXTENDS Calendar, Sequences

Sq == INSTANCE SequencesExt

Span(a, b) == [start |-> a, end |-> b]

Joins(last, next) == next.start <= last.end

\* spans that overlap or meet become one, the earlier first
JoinNext(joined, next) ==
    IF joined # <<>> /\ Joins(Sq!Last(joined), next)
    THEN [joined EXCEPT ![Len(joined)].end = Max({@, next.end})]
    ELSE Append(joined, next)

Joined(spans) ==
    Sq!ToSet(Sq!FoldLeft(JoinNext, <<>>, Sq!SetToSortSeq(spans, LAMBDA a, b : a.start < b.start)))

Proper(spans) == {s \in spans : s.end > s.start}

(***************************************************************************)
(* loadDayContext for one date, loadRangeContext for the dates from..to    *)
(***************************************************************************)
RowOf(specials, date) == {s \in specials : s.date = date}

DayContext(db, date, staffIds) ==
    [special |-> RowOf(db.specials, date),
     holiday |-> IsHoliday(date),
     shifts  |-> {r \in db.shifts : /\ r.staff \in staffIds
                                    /\ r.type = "RECURRING" \/ r.date = date}]

RangeContext(db, from, to, staffIds) ==
    [specials  |-> [d \in from..to - 1 |-> RowOf(db.specials, d)],
     holidays  |-> HolidaysInRange(from, to),
     recurring |-> {r \in db.shifts : r.staff \in staffIds /\ r.type = "RECURRING"},
     overrides |-> [d \in from..to - 1 |->
                      {r \in db.shifts : /\ r.staff \in staffIds
                                         /\ r.type = "OVERRIDE" /\ r.date = d}]]

\* one day of a range, in the shape of a day's context
DayOfRange(range, date) ==
    [special |-> range.specials[date],
     holiday |-> date \in range.holidays,
     shifts  |-> range.recurring \cup range.overrides[date]]

(***************************************************************************)
(* resolveOpenIntervalsForDate: a special day, else a holiday, else the    *)
(* hours of the weekday                                                    *)
(***************************************************************************)
Closed(status) == [status |-> status, spans |-> {}]

ResolvedDay(db, ctx, date) ==
    LET special == UNION {s.times : s \in ctx.special}
        regular == Proper({Span(h.open, h.close) : h \in {r \in db.hours : r.dow = Dow(date)}})
    IN  IF \E s \in ctx.special : s.type = "CLOSED" THEN Closed("TEMP_CLOSED")
        ELSE IF special # {} THEN [status |-> "SPECIAL_OPEN", spans |-> special]
        ELSE IF ctx.holiday /\ db.closeOn THEN Closed("HOLIDAY_CLOSED")
        ELSE IF regular = {} THEN Closed("REGULAR_CLOSED")
        ELSE [status |-> "OPEN", spans |-> Joined(regular)]

\* resolveStaffWorkingIntervals: rows for the date itself replace those of the weekday
WorkingIntervals(ctx, staff, date) ==
    LET overrides == {r \in ctx.shifts : r.staff = staff /\ r.type = "OVERRIDE" /\ r.date = date}
        recurring == {r \in ctx.shifts : r.staff = staff /\ r.type = "RECURRING"
                                                          /\ r.dow = Dow(date)}
        rows == IF overrides # {} THEN overrides ELSE recurring
    IN  Joined(Proper({Span(r.start, r.end) : r \in {q \in rows : q.isWorking}}))

\* a bug to be caught: the shifts are shown whatever the opening hours
ShiftsAnyHour(open, work) == work

\* the part of the shifts that lies within the opening hours
ShiftsWithin(open, work) ==
    Proper({Span(Max({w.start, o.start}), Min({w.end, o.end})) : w \in work, o \in open})

\* resolveDayShifts
DayShifts(db, range, date, staffIds) ==
    LET ctx == DayOfRange(range, date)
        day == ResolvedDay(db, ctx, date)
    IN  [status |-> day.status, open |-> day.spans,
         shifts |-> [s \in staffIds |->
                       IF day.spans = {} THEN {}
                       ELSE ShiftsWithin(day.spans, WorkingIntervals(ctx, s, date))]]

(***************************************************************************)
(* merchant-mutation-service.ts: the warning of addSpecialDay              *)
(***************************************************************************)

\* hasStaffOnDuty takes the weekday of the midnight that begins the date in Japan, in UTC
DutyDow(date) == UtcDow(InstantOf(date, 0))

HasStaffOnDuty(db, bookable, date) ==
    \E s \in bookable :
      LET overrides == {r \in db.shifts : r.staff = s /\ r.type = "OVERRIDE" /\ r.date = date}
          recurring == {r \in db.shifts : r.staff = s /\ r.type = "RECURRING"
                                                       /\ r.dow = DutyDow(date)}
          rows == IF overrides # {} THEN overrides ELSE recurring
      IN  \E r \in rows : r.isWorking
=============================================================================
