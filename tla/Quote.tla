-------------------------------- MODULE Quote --------------------------------
(***************************************************************************)
(* What a set of services costs and how long it takes: the server's side   *)
(* (booking-service.ts, booking-repository.ts, rules.ts) and the sums the  *)
(* booking page shows (booking-wizard.tsx), and the mark a day gets.       *)
(*                                                                         *)
(* menu[v] is a row of services with what hangs on it:                     *)
(*   [active, dur, segments, before, after, price, sale, capacity,         *)
(*    slotInterval, needsStaff, staff, options]                            *)
(* where sale is NoSale when null, segments is {} when null, staff are     *)
(* those who do it, options is a set of rows [id, price, extra, active].   *)
(* An item of a request is [svc, options] with the ids of its options.     *)
(***************************************************************************)
EXTENDS Availability, Sums

NoSale == -1

Least(S)    == Min(S)
Greatest(S) == Max(S)

(***************************************************************************)
(* One service                                                             *)
(***************************************************************************)

\* parseSegments
Segments(s) == IF s.segments # {} THEN s.segments ELSE {[offset |-> 0, dur |-> s.dur]}

\* a bug to be caught: the sale is forgotten on one side
EffectivePriceFull(s) == s.price

\* loadServiceContext: the sale price is the price
EffectivePrice(s) == IF s.sale # NoSale THEN s.sale ELSE s.price

\* bookable staff who do the service
ServiceStaff(s, bookable) == s.staff \cap bookable

\* pickRule
RuleFor(rules, scope, id) == {r \in rules : r.scope = scope /\ r.of = id}

DefaultRules == [slotInterval |-> 15, windowDays |-> 30, leadTime |-> 2, deadline |-> 24]

\* the value of the first of the rows that there is
FirstOf(first, then, default, field) ==
    LET value(rows) == (CHOOSE r \in rows : TRUE)[field] IN
    IF first # {} THEN value(first) ELSE IF then # {} THEN value(then) ELSE default

\* resolveRules with resolveBookingRules: the service's row, then the shop's
ResolveRules(rules, v, s, staff, shopFallback) ==
    LET shop == RuleFor(rules, "SHOP", "shop")
        service == RuleFor(rules, "SERVICE", v)
        own == IF staff = NoStaff THEN {} ELSE RuleFor(rules, "STAFF", staff)
        pick(field) == FirstOf(service, shop, DefaultRules[field], field)
    IN  [slotInterval  |-> FirstOf(service, {}, s.slotInterval, "slotInterval"),
         windowDays    |-> pick("windowDays"),
         leadTime      |-> pick("leadTime"),
         deadline      |-> pick("deadline"),
         shopCapacity  |-> FirstOf(shop, {}, shopFallback, "max"),
         serviceCapacity |-> FirstOf(service, {}, s.capacity, "max"),
         staffCapacity |-> FirstOf(own, {}, 1, "max")]

\* mergeRules: the strictest of each
MergeRules(list) ==
    LET all(field) == {list[i][field] : i \in DOMAIN list} IN
    [slotInterval  |-> Greatest(all("slotInterval")),
     windowDays    |-> Least(all("windowDays")),
     leadTime      |-> Greatest(all("leadTime")),
     deadline      |-> Greatest(all("deadline")),
     shopCapacity  |-> Least(all("shopCapacity")),
     serviceCapacity |-> Least(all("serviceCapacity")),
     staffCapacity |-> Least(all("staffCapacity"))]

(***************************************************************************)
(* loadComboContext                                                        *)
(***************************************************************************)
AskedOptions(items) == UNION {items[i].options : i \in DOMAIN items}

\* loadSelectedOptions: whichever item names it, an option goes to its own service
OptionsOf(menu, items, v) == {o \in menu[v].options : o.active /\ o.id \in AskedOptions(items)}

KnownOptions(menu, items) ==
    UNION {{o.id : o \in OptionsOf(menu, items, items[i].svc)} : i \in DOMAIN items}

\* no service twice, all of them open, no option of another service
ComboAccepted(menu, items) ==
    /\ items # <<>>
    /\ \A i, j \in DOMAIN items : i # j => items[i].svc # items[j].svc
    /\ \A i \in DOMAIN items : menu[items[i].svc].active
    /\ AskedOptions(items) \subseteq KnownOptions(menu, items)

Subtotal(menu, items, v) ==
    EffectivePrice(menu[v]) + Total([o \in OptionsOf(menu, items, v) |-> o.price])

Combo(menu, items, rules, staff, bookable, shopFallback) ==
    LET n == DOMAIN items
        svc(i) == menu[items[i].svc]
        own == [i \in n |-> ResolveRules(rules, items[i].svc, svc(i), staff, shopFallback)]
        extra(i) == Total([o \in OptionsOf(menu, items, items[i].svc) |-> o.extra])
    IN  [parts |-> [i \in n |->
                      [svc |-> items[i].svc,
                       segments |-> WithExtraMinutes(Segments(svc(i)), extra(i)),
                       before |-> svc(i).before, after |-> svc(i).after,
                       capacity |-> own[i].serviceCapacity]],
         candidates |-> {s \in bookable : \A i \in n : s \in ServiceStaff(svc(i), bookable)},
         needsStaff |-> \E i \in n : svc(i).needsStaff,
         rules |-> MergeRules(own)]

\* createBooking: the services for each person, and the fee of a nomination once
TotalPrice(menu, items, party, fee) ==
    party * Total([i \in DOMAIN items |-> Subtotal(menu, items, items[i].svc)]) + fee

(***************************************************************************)
(* booking-wizard.tsx, totals                                              *)
(***************************************************************************)
Picked(s, item) == {o \in s.options : o.id \in item.options}

PageMinutes(menu, items) ==
    Total([i \in DOMAIN items |->
        LET s == menu[items[i].svc] IN
        s.dur + Total([o \in Picked(s, items[i]) |-> o.extra])
              + (IF i < Len(items) THEN s.after ELSE 0)])

PagePrice(menu, items, fee) ==
    fee + Total([i \in DOMAIN items |->
        LET s == menu[items[i].svc] IN
        (IF s.sale # NoSale THEN s.sale ELSE s.price)
        + Total([o \in Picked(s, items[i]) |-> o.price])])

(***************************************************************************)
(* getDayAvailability: the times of a day, each with its verdict           *)
(***************************************************************************)
SlotQuery(combo, at, staff, enforce, now) ==
    [at |-> at, parts |-> combo.parts, staff |-> staff,
     candidates |-> IF combo.needsStaff THEN combo.candidates ELSE {},
     needsStaff |-> combo.needsStaff, enforce |-> enforce, now |-> now]

StartsOf(combo, open) ==
    UNION {CandidateStarts(o, combo.rules.slotInterval, ChainDuration(combo.parts)) : o \in open}

DaySlots(combo, staff, enforce, now, duty, open, occupied) ==
    [at \in StartsOf(combo, open) |->
       Verdict(SlotQuery(combo, at, staff, enforce, now), combo.rules, duty, open, occupied)]

FewThreshold == 3

\* getDateAvailabilitySummary: closed, not open for booking yet, full, few left, open
Mark(slots, open) ==
    LET free == {at \in DOMAIN slots : slots[at] = "OK"} IN
    IF open = {} THEN "CLOSED"
    ELSE IF /\ DOMAIN slots # {}
            /\ \A at \in DOMAIN slots : slots[at] = "BOOKING_WINDOW_EXCEEDED"
         THEN "BEYOND_WINDOW"
    ELSE IF free = {} THEN "FULL"
    ELSE IF Cardinality(free) <= FewThreshold THEN "FEW" ELSE "OPEN"
=============================================================================
