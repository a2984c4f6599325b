--------------------------- MODULE MCAvailability ----------------------------
(***************************************************************************)
(* What customers and the owner see, on bounded inputs.  A history is one  *)
(* of these (focus):                                                       *)
(*   slot   a start asked for, against every set of at most MaxRows rows   *)
(*          of other bookings, built one row at a time                     *)
(*   cart   services put into a cart one by one: price, length, free times *)
(*   hours  one day of one shop: hours, special days, holidays, shifts     *)
(*   board  bookings at the edge of a month, made one by one: the owner's  *)
(*          boards and reports                                             *)
(*   page   the booking page (Wizard)                                      *)
(*   form   a form that moves or makes a booking (SlotForm)                *)
(***************************************************************************)
EXTENDS Slot, Quote, Pages, TLC

CONSTANTS s1, s2, NoCustomer, guest

VARIABLES focus,
          cart,     \* cart: the services asked for, in order
          nominee,  \* cart: the nomination
          db,       \* hours: what the owner saved
          date,     \* hours, cart, board: the day looked at
          bookings, \* board: the shop's bookings
          lookedAt  \* board: the moment, and the staff asked for

cartVars  == <<cart, nominee>>
boardVars == <<bookings, lookedAt>>
pageVars  == wvars

Brd == INSTANCE Schedule WITH Offset <- 9, Unassigned <- NoStaff, MinBlock <- 2, NoDate <- -1

Str == INSTANCE Storefront WITH Offset <- 9, NoticeDays <- 20, MostNotices <- 2, LastMinute <- 5

MCMarks == {[d \in 0..2 |-> IF d = 0 THEN "CLOSED" ELSE "OPEN"]}
MCForms == {[name |-> TRUE, contact |-> c] : c \in BOOLEAN}
MCDoes  == {<<s1, "cut">>}

MCFormMenus == [m \in {"cut"} |-> {s1}]

(***************************************************************************)
(* focus slot                                                              *)
(***************************************************************************)
Part(v, segs, before, after, cap) ==
  [svc |-> v, segments |-> segs, before |-> before, after |-> after, capacity |-> cap]
Seg(o, d)  == [offset |-> o, dur |-> d]
Span(a, b) == [start |-> a, end |-> b]

Wash  == Part("wash", {Seg(0, 2)}, 0, 0, 1)
Color == Part("color", {Seg(0, 1), Seg(2, 1)}, 1, 1, 2)

MCChains == {<<Wash>>, <<Color>>, <<Wash, Color>>, <<Color, Wash>>}
MCSlotRules == [shopCapacity |-> 2, staffCapacity |-> 1, slotInterval |-> 2,
                leadTime |-> 1, windowDays |-> 1]
MCDuty == s1 :> {Span(0, 4), Span(5, 10)} @@ s2 :> {Span(2, 9)}
MCOpen == {Span(0, 5), Span(5, 10)}

MCQueries ==
  [at : {1, 2, 4, 5}, parts : MCChains, staff : {NoStaff, s1}, candidates : {{s1, s2}},
   needsStaff : BOOLEAN, enforce : {TRUE}, now : {1}]

MCRows ==
  {[booking |-> b, start |-> t, end |-> t + d, svc |-> v, staff |-> s] :
     b \in 1..MaxRows, t \in {-1, 1, 2, 5, 6}, d \in {1, 3}, v \in {"wash", "color"},
     s \in {NoStaff, s1}}

(***************************************************************************)
(* focus cart: a menu on two days                                          *)
(***************************************************************************)
Service(price, sale, dur, segs, after, opts, staff, needs) ==
  [active |-> TRUE, dur |-> dur, segments |-> segs, before |-> 0, after |-> after,
   price |-> price, sale |-> sale, capacity |-> 1, slotInterval |-> 1,
   needsStaff |-> needs, staff |-> staff, options |-> opts]
Extra(id, price, more) == [id |-> id, price |-> price, extra |-> more, active |-> TRUE]

MCMenu == "cut"  :> Service(40, 30, 2, {}, 1, {Extra("care", 5, 1)}, {s1, s2}, TRUE)
       @@ "perm" :> Service(70, NoSale, 4, {Seg(0, 1), Seg(3, 1)}, 2, {Extra("gloss", 0, 0)},
                            {s1}, TRUE)
       @@ "tea"  :> Service(8, NoSale, 1, {}, 0, {}, {}, FALSE)

MCRules == {[scope |-> "SHOP", of |-> "shop", max |-> 2, slotInterval |-> 2,
             windowDays |-> 1, leadTime |-> 1, deadline |-> 1],
            [scope |-> "SERVICE", of |-> "tea", max |-> 1, slotInterval |-> 2,
             windowDays |-> 0, leadTime |-> 3, deadline |-> 2]}
Fee(s) == IF s = s1 THEN 6 ELSE 0

(***************************************************************************)
(* focus hours: two Mondays, one the substitute of a Sunday's holiday      *)
(***************************************************************************)
Equinox == Brd!Day(2027, 3, 22)
Plain   == Brd!Day(2027, 3, 15)
Monday  == 1

Saved(hours, special, closeOn, recurring, overrides, d) ==
  [hours    |-> {[dow |-> Monday, open |-> h[1], close |-> h[2]] : h \in hours}
                \cup {[dow |-> 2, open |-> 1, close |-> 6]},
   specials |-> {[date |-> d, type |-> x[1], times |-> x[2]] : x \in special}
                \cup {[date |-> d + 1, type |-> "CLOSED", times |-> {}]},
   closeOn  |-> closeOn,
   shifts   |-> {[staff |-> s1, type |-> "RECURRING", dow |-> Monday, date |-> 0,
                  start |-> r[1], end |-> r[2], isWorking |-> TRUE] : r \in recurring}
                \cup {[staff |-> s1, type |-> "OVERRIDE", dow |-> 7, date |-> d,
                       start |-> o[1], end |-> o[2], isWorking |-> o[1] < o[2]] : o \in overrides}]

Databases(d) ==
  {Saved(h, x, c, r, o, d) :
     h \in {{}, {<<1, 3>>}, {<<2, 4>>}, {<<1, 3>>, <<3, 5>>}, {<<1, 3>>, <<2, 4>>}},
     x \in {{}, {<<"CLOSED", {}>>}, {<<"SPECIAL_OPEN", {Span(2, 6)}>>}, {<<"MODIFIED_HOURS", {Span(1, 3)}>>}},
     c \in BOOLEAN, r \in {{}, {<<1, 4>>}, {<<2, 3>>}, {<<1, 4>>, <<4, 6>>}, {<<1, 4>>, <<2, 3>>}},
     o \in {{}, {<<0, 0>>}, {<<2, 5>>}, {<<0, 0>>, <<2, 5>>}}}

Week(d) == Brd!RangeContext(db, Brd!WeekStart(d), Brd!WeekStart(d) + 7, {s1, s2})
Alone(d) == Brd!DayContext(db, d, {s1, s2})

(***************************************************************************)
(* focus board: around the end of February 2027, a Sunday                  *)
(***************************************************************************)
Eve == Brd!Day(2027, 2, 28)
Midnight == Brd!InstantOf(Eve, 24)

Made(n) ==
  {[id |-> n, staff |-> s, customer |-> c[1], start |-> t, end |-> t + c[2], status |-> c[3],
    price |-> 10 * n, fee |-> 0, items |-> {[svc |-> "cut", start |-> t, price |-> 10 * n]}] :
     s \in {s1, s2, NoStaff}, t \in {Midnight - 2, Midnight - 1, Midnight},
     c \in {<<guest, 1, "CONFIRMED">>, <<guest, 3, "CONFIRMED">>, <<guest, 1, "COMPLETED">>,
            <<NoCustomer, 1, "COMPLETED">>, <<guest, 1, "CANCELLED">>}}

Active == {s1}   \* s2 has left

\* the shop's hours, closed on Sundays and on one Tuesday; s1 works short days, not on Mondays
BoardHours ==
  [hours    |-> [dow : 1..6, open : {9}, close : {18}],
   specials |-> {[date |-> Eve + 2, type |-> "CLOSED", times |-> {}]}, closeOn |-> TRUE,
   shifts   |-> {[staff |-> s1, type |-> "RECURRING", dow |-> w, date |-> 0, start |-> 8,
                  end |-> 15, isWorking |-> TRUE] : w \in {0, 2, 3, 4, 5, 6}}]

\* the days of a read of from..to
DaysRead(from, to) ==
  LET range == Brd!RangeContext(BoardHours, from, to + 1, {s1})
  IN  [d \in from..to |-> Brd!DayShifts(BoardHours, range, d, {s1})]

\* each day by its own read, and those of the weeks and the months around the two dates
DayReads   == [d \in Eve - 7..Eve + 8 |-> DaysRead(d, d)[d]]
WeekReads  == [d \in {Eve, Eve + 1} |-> DaysRead(Brd!WeekStart(d), Brd!WeekStart(d) + 6)]
MonthReads == [d \in {Eve, Eve + 1} |-> DaysRead(Least(Brd!GridDays(d)), Greatest(Brd!GridDays(d)))]

(***************************************************************************)
(* The histories                                                           *)
(***************************************************************************)
SavedPlain == Saved({<<1, 3>>, <<3, 5>>, <<7, 13>>}, {}, TRUE, {<<1, 4>>, <<4, 12>>}, {}, Plain)

Init ==
  /\ focus \in {"slot", "cart", "hours", "board", "page", "form"}
  /\ SlotInit /\ (focus = "slot" <=> query # NoStart)
  /\ date \in (CASE focus = "board" -> {Eve, Eve + 1} [] focus = "cart" -> {Plain, Plain + 1}
                 [] OTHER -> {Plain, Equinox})
  /\ db \in (CASE focus = "hours" -> Databases(date) [] focus = "cart" -> {SavedPlain}
               [] OTHER -> {0})
  /\ cart = <<>> /\ nominee \in (IF focus = "cart" THEN {s1, NoStaff} ELSE {NoStaff})
  /\ bookings = {}
  /\ lookedAt \in (IF focus = "board" THEN {[now |-> Midnight - 1, asked |-> a] : a \in {s1, s2}}
                    ELSE {0})
  /\ PagesInit
  /\ focus # "form" => form.kind = "new" /\ form.day = 1
  /\ focus \notin {"board", "cart", "hours"} => date = Plain

ReadRow == AddRow /\ UNCHANGED <<focus, cartVars, db, date, boardVars, pageVars, formVars>>

AddService ==
  /\ focus = "cart" /\ Len(cart) < 2
  /\ \E v \in DOMAIN MCMenu : \E picked \in SUBSET {o.id : o \in MCMenu[v].options} :
       cart' = Append(cart, [svc |-> v, options |-> picked])
  /\ UNCHANGED <<focus, slotVars, nominee, db, date, boardVars, pageVars, formVars>>

AddBooking ==
  /\ focus = "board" /\ Cardinality(bookings) < MaxRows
  /\ \E b \in Made(Cardinality(bookings) + 1) :
       /\ \A x \in bookings : x.start <= b.start
       /\ bookings' = bookings \cup {b}
  /\ UNCHANGED <<focus, slotVars, cartVars, db, date, lookedAt, pageVars, formVars>>

Browse == focus = "page" /\ WizardNext
          /\ UNCHANGED <<focus, slotVars, cartVars, db, date, boardVars, formVars>>

FillIn == focus = "form" /\ FormNext
          /\ UNCHANGED <<focus, slotVars, cartVars, db, date, boardVars, pageVars>>

Next == ReadRow \/ AddService \/ AddBooking \/ Browse \/ FillIn

vars == <<focus, slotVars, cartVars, db, date, boardVars, pageVars, formVars>>

Spec == Init /\ [][Next]_vars

(***************************************************************************)
(* Carts: instants are days of DayLen from Plain                           *)
(***************************************************************************)
Shifted(spans, d) == {Span(x.start + (d - Plain) * DayLen, x.end + (d - Plain) * DayLen) : x \in spans}

Taken == {[booking |-> 1, start |-> DayLen - 2, end |-> DayLen + 1, svc |-> "cut", staff |-> s1]}

OpenOn(ctx, d) == Shifted(Brd!ResolvedDay(db, ctx, d).spans, d)
DutyOn(ctx, d) == [s \in {s1, s2} |-> Shifted(Brd!WorkingIntervals(ctx, s, d), d)]

\* homepage and booking page of every shop there can be
Pages ==
  LET switch == [enabled : BOOLEAN, about : {TRUE}, menu : BOOLEAN, staff : BOOLEAN,
                 gallery : BOOLEAN, address : BOOLEAN, pictures : {{}, {1}}]
  IN  [published : BOOLEAN, booking : BOOLEAN, address : {{"prefecture", "city", "street"}},
       profile : {{}} \cup {{p} : p \in switch}]

\* a homepage that can be read has a way to book exactly when the booking page can be opened,
\* its links lead to sections it has, a hidden address is on neither page, and its menu has
\* the prices of the booking page
PagesAgree ==
  /\ \A shop \in Pages :
       LET menu == [MCMenu EXCEPT !["tea"].active = FALSE]
           hp == Str!Homepage(shop, SavedPlain, date, menu, {s1})
           books == Str!BookingPage(shop, menu, {s1})
       IN  /\ Str!HomepageOpen(shop) => (Str!BookLinks(hp) # {} <=> Str!BookingPageOpen(shop))
           /\ Str!Anchors(hp) = Str!Sections(hp)
           /\ Str!AddressLine(hp) = {} => "street" \notin books.address
           /\ "menu" \in Str!Sections(hp) => hp.services = books.services
           /\ \A v \in books.services : books.staff[v] = ServiceStaff(menu[v], {s1})
  /\ \A v \in DOMAIN MCMenu :
       LET one == <<[svc |-> v, options |-> {}]>>
           range == Str!PriceRange({EffectivePrice(MCMenu[u]) : u \in DOMAIN MCMenu})
       IN  Least(range) <= PagePrice(MCMenu, one, 0) /\ PagePrice(MCMenu, one, 0) <= Greatest(range)

(* What the booking page shows of a cart is what the server makes of it:   *)
(* the price and the minutes added up in the browser (totals) are those of *)
(* loadComboContext and createBooking, and the mark of a day, computed     *)
(* from one read of the month (getDateAvailabilitySummary), is one of free *)
(* times exactly when that day's own read (getDayAvailability) lists one.  *)
(* A service in separate segments lasts as long as its form says here.     *)
(* Before anything is in the cart, the pages of the shop agree.            *)
QuotedAsShown ==
  /\ focus = "cart" /\ cart = <<>> /\ nominee = s1 => PagesAgree
  /\ focus = "cart" /\ ComboAccepted(MCMenu, cart) =>
    LET combo == Combo(MCMenu, cart, MCRules, nominee, {s1, s2}, 99)
        list(ctx) == DaySlots(combo, nominee, TRUE, 2, DutyOn(ctx, date), OpenOn(ctx, date), Taken)
        week == Brd!DayOfRange(Week(date), date)
        times == list(Alone(date))
    IN  /\ TotalPrice(MCMenu, cart, 1, Fee(nominee)) = PagePrice(MCMenu, cart, Fee(nominee))
        /\ PageMinutes(MCMenu, cart) = ChainDuration(combo.parts)
        /\ Mark(list(week), OpenOn(week, date)) \in {"FEW", "OPEN"}
             <=> \E at \in DOMAIN times : times[at] = "OK"

(***************************************************************************)
(* Hours                                                                   *)
(***************************************************************************)

\* by the rows as they were saved
OpenAt(t) ==
  LET special == {x \in db.specials : x.date = date}
  IN  IF \E x \in special : x.type = "CLOSED" THEN FALSE
      ELSE IF \E x \in special : x.times # {}
      THEN \E x \in special : \E o \in x.times : o.start <= t /\ t < o.end
      ELSE /\ ~(db.closeOn /\ date = Equinox)
           /\ \E h \in db.hours : h.dow = Monday /\ h.open <= t /\ t < h.close

AtWork(t) ==
  LET own == {r \in db.shifts : r.type = "OVERRIDE"}
  IN  \E r \in IF own # {} THEN own ELSE db.shifts :
        r.isWorking /\ r.start <= t /\ t < r.end

Visit(t, d) ==
  [at |-> t, parts |-> <<Part("cut", {Seg(0, d)}, 0, 0, 1)>>, staff |-> s1,
   candidates |-> {s1}, needsStaff |-> TRUE, enforce |-> FALSE, now |-> 0]

NoLimits == [shopCapacity |-> 1, staffCapacity |-> 1, slotInterval |-> 1,
             leadTime |-> 0, windowDays |-> 0]

\* what the homepage says of a time on this day, and what search engines are told
SaidOnPage(hp, t) ==
  LET said == {n \in Str!Notices(hp) : n.date = date}
      spans == IF said # {} THEN UNION {n.times : n \in said} ELSE Str!GroupHours(hp.hours)[Monday]
  IN  /\ \A n \in said : ~n.closed
      /\ said = {} /\ hp.closeOn => ~Brd!IsHoliday(date)
      /\ \E o \in spans : o.start <= t /\ t < o.end

SaidToSearch(hp, t) ==
  LET special == {x \in Str!LdSpecial(hp) : x.date = date}
  IN  IF special # {} THEN \E x \in special : \E o \in x.spans : o.start <= t /\ t < o.end
      ELSE /\ ~(Str!LdHolidaysClosed(hp) /\ Brd!IsHoliday(date))
           /\ \E w \in Str!LdWeek(hp) : Monday \in w.days /\ w.opens <= t /\ t < w.closes

HomepageTellsTruth ==
  \A today \in {date - 3, date} :
    LET shop == [published |-> TRUE, booking |-> TRUE, address |-> {}, profile |-> {}]
        hp == Str!Homepage(shop, db, today, <<>>, {})
    IN  \A t \in 0..6 : /\ SaidOnPage(hp, t) <=> OpenAt(t)
                       /\ t < 5 => (SaidToSearch(hp, t) <=> OpenAt(t))

(* The owner's board does not lie: a stretch of time lies within one of    *)
(* the shifts it draws (resolveDayShifts, from the week's read) exactly    *)
(* when the shop is open and the staff member at work in every minute of   *)
(* it by the rows saved, and exactly when a visit of that length is        *)
(* offered to customers at that time (getDayAvailability, from the day's   *)
(* own read); the list of coming holidays begins with this day exactly     *)
(* when it is one; and the shop's homepage, and what it tells search       *)
(* engines, has the same opening hours (to the last minute of the day).    *)
BoardTellsTruth ==
  focus = "hours" =>
    LET drawn == Brd!DayShifts(db, Week(date), date, {s1}).shifts[s1]
        alone == Alone(date)
        open == Brd!ResolvedDay(db, alone, date).spans
        duty == [s \in {s1} |-> Brd!WorkingIntervals(alone, s, date)]
    IN  /\ date \in Brd!HolidaysFrom(date, 1) <=> alone.holiday
        /\ HomepageTellsTruth
        /\ \A t \in 0..6 : \A e \in t + 1..7 :
          LET shown == \E x \in drawn : x.start <= t /\ e <= x.end
          IN  /\ shown <=> \A m \in t..e - 1 : OpenAt(m) /\ AtWork(m)
              /\ shown <=> Verdict(Visit(t, e - t), NoLimits, duty, open, {}) = "OK"

(* hasStaffOnDuty tells whether anybody works on a date                    *)
(* (merchant-mutation-service.ts: "returns whether there is staff who      *)
(* works even one minute on that calendar day").                           *)
DutyWarningIsRight ==
  focus = "hours" =>
    (Brd!HasStaffOnDuty(db, {s1}, date) <=> Brd!WorkingIntervals(Alone(date), s1, date) # {})

(***************************************************************************)
(* Boards                                                                  *)
(***************************************************************************)
Month    == Brd!MonthOfDay(date)
Grid     == Brd!GridDays(date)
Only     == Brd!Resolved(Active, lookedAt.asked)
Selected == Brd!Selected(Active, lookedAt.asked)
Shown(from, to) == Brd!OnBoard(bookings, from, to, Only)
WeekShown  == Shown(Brd!WeekStart(date), Brd!WeekStart(date) + 7)
MonthShown == Shown(Least(Grid), Greatest(Grid) + 1)
Report     == Brd!MonthlyReport(bookings, Month, date, lookedAt.now)

\* on one lane of the day, in the hours drawn
OnOneLane(shown, lanes) ==
  LET hours == Brd!Timeline({Span(9, 18)}, [s \in Selected |-> {}], shown, 2, Span(10, 19))
  IN  \A b \in shown : \E l \in DOMAIN lanes :
        /\ \A k \in DOMAIN lanes : Brd!Block(b) \in lanes[k] <=> k = l
        /\ hours.start <= Brd!Block(b).start /\ Brd!Block(b).end <= hours.end

\* none behind another, on no more tracks than bookings meet at one moment
OwnTrack(blocks) ==
  LET laid == Brd!AssignTracks(blocks)
      meet(x, y) == x.start < y.end /\ y.start < x.end
  IN  /\ {x[1] : x \in laid.tracks} = blocks
      /\ \A x, y \in laid.tracks : x[2] = y[2] => x = y \/ ~meet(x[1], y[1])
      /\ Brd!TrackCount(laid) =
           Greatest({1} \cup {Cardinality({y \in blocks : y.start <= x.start /\ x.start < y.end})
                                : x \in blocks})

\* the week's rows and the bookings without staff are the month's, and the month is exported
WeekInMonth ==
  LET rows  == Brd!WeekRows(WeekShown, Selected, date)
      cells == Brd!MonthCells(MonthShown, date)
  IN  /\ \A d \in Brd!WeekDays(date) \cap Grid :
           cells[d] = Total([s \in {r[1] : r \in DOMAIN rows} |-> rows[<<s, d>>]])
             + Cardinality({b \in WeekShown : b.staff = NoStaff /\ Brd!DayOfInstant(b.start) = d})
      /\ Brd!MonthTotal(cells, date) = Cardinality(Brd!Exported(MonthShown, Month))

\* by day, by staff and by menu, on the dashboard and in the trend
SameSums ==
  LET trend == Brd!Trend(bookings, date, 3, lookedAt.now)
      by(part, field) == Total([x \in DOMAIN part |-> part[x][field]])
  IN  /\ \A field \in {"count", "revenue"} :
           /\ \A part \in {Report.daily, Report.byStaff} : Report.total[field] = by(part, field)
           /\ Report.total[field] = by(Report.byMenu, field)
           /\ \A d \in DOMAIN trend \cap DOMAIN Report.daily :
                trend[d][field] = Report.daily[d][field]
      /\ trend[date].revenue = Brd!Dashboard(bookings, date, lookedAt.now).todayRevenue
      /\ Total(Brd!StatusBreakdown(bookings, Midnight - 9)) = Cardinality(bookings)

\* each customer new or returning; one that has gone quiet has been and is not coming
CustomersAgree ==
  LET stats == Brd!CustomerStats(bookings, guest, lookedAt.now)
      seen  == {b.customer : b \in Brd!RealizedIn(bookings, Brd!MonthFirst(Month),
                                                  Brd!MonthFirst(Month + 1), lookedAt.now)}
  IN  /\ Report.newCustomers + Report.repeatCustomers = Cardinality(seen \ {NoCustomer})
      /\ guest \in Brd!Dormant(bookings, {guest}, 0, lookedAt.now)
           <=> stats.count > 0 /\ stats.next = {}
      /\ stats.count = 1 => stats.first = stats.last

At(view) == Brd!Opened([view |-> view, date |-> date, staff |-> lookedAt.asked], 0, Active)

Drawn(board) == UNION {board.lanes[l].blocks : l \in DOMAIN board.lanes}

DayReached(link) == {Brd!DayBoard(link, DayReads[link.date], bookings, Active)}

\* every number on a week's board leads to a day that draws as many bookings, with the same
\* hours under the names, also on a day that is closed
WeekLeads ==
  \A week \in {Brd!WeekBoard(At("week"), WeekReads[date], bookings, Active)} :
    \A x \in DOMAIN week : \A board \in DayReached(week[x].link) :
      /\ board.closed => week[x].badge = 0
      /\ ~board.closed /\ x[1] \in DOMAIN board.lanes =>
           /\ week[x].badge = Cardinality(board.lanes[x[1]].blocks)
           /\ week[x].hours = board.lanes[x[1]].hours
      /\ ~board.closed /\ week[x].badge > 0 => x[1] \in DOMAIN board.lanes
      /\ board.notice # {} => week[x].off \in {board.notice, {"inactive"}}

\* so does every number on a month's board
MonthLeads ==
  \A month \in {Brd!MonthBoard(At("month"), MonthReads[date], bookings, Active)} :
    \A d \in {Eve, Eve + 1, Eve + 2, date} \cap DOMAIN month.cells :
      \A c \in {month.cells[d]} : \A board \in DayReached(c.link) :
        /\ c.badge = Cardinality(Drawn(board))
        /\ c.closed = board.notice
        /\ ~board.closed => c.working =
             Cardinality({l \in DOMAIN board.lanes : board.lanes[l].hours # {}})
        /\ c.link.staff # NoStaff /\ ~board.closed => c.hours = board.lanes[c.link.staff].hours

\* turning back after turning on, the choice of a view, a name or a date lead where they say
LinksLead ==
  /\ Brd!Opened(Brd!DayLink(At("week"), date), 0, Active) = At("day")
  /\ bookings = {} => \A view \in {"day", "week", "month"} : \A at \in {At(view)} :
       /\ Brd!IsCurrent(Brd!Turned(Brd!Turned(at, 1), -1), date)
       /\ ~Brd!IsCurrent(Brd!Turned(at, -1), date)
       /\ \A to \in Brd!DateNav(at, date + 40) \cup Brd!ViewToggle(at)
                       \cup Brd!StaffFilter(at, {s1, s2}) :
            to.date = -1 => Brd!IsCurrent(Brd!Opened(to, date + 40, Active), date + 40)

NumbersLead == WeekLeads /\ MonthLeads /\ LinksLead

(* Every booking of a day is drawn once and none behind another; the week, *)
(* the month and the export hold the same bookings; the month's report,    *)
(* the trend and the dashboard come to the same sums (by menu for visits   *)
(* of one service and one person, as these are); each customer is new or   *)
(* returning, and dormant exactly if the customer's page says so.          *)
CountedOnce ==
  focus = "board" =>
    LET shown == Shown(date, date + 1)
        lanes == Brd!Lanes(shown, Selected)
    IN  /\ OnOneLane(shown, lanes)
        /\ \A l \in DOMAIN lanes : OwnTrack(lanes[l])
        /\ WeekInMonth
        /\ NumbersLead
        /\ SameSums
        /\ CustomersAgree
=============================================================================
