------------------------------- MODULE Metrics -------------------------------
(***************************************************************************)
(* The figures of the business, drawn from the tenants' rows and the       *)
(* ledger that Billing writes (src/server/services/                        *)
(* business-metrics-service.ts, src/app/platform/metrics/page.tsx).        *)
(*                                                                         *)
(* A shop is [row, exempt, ledger], an entry of its ledger [type, amount,  *)
(* at].  None of the figures is made up: one that cannot be measured is    *)
(* None.                                                                   *)
(***************************************************************************)
EXTENDS Billing

CONSTANTS
  MonthDays,    \* days of a month
  MonthsShown,  \* months of cash shown (12)
  YearDays,     \* days looked back for them (365)
  SpanDays      \* days of the figures of a span (30)

(* The months shown lie within the days looked back for them.              *)
MetricsAssumption ==
  /\ MonthDays \in Nat \ {0} /\ MonthsShown \in Nat \ {0} /\ SpanDays \in Nat
  /\ YearDays \in Nat /\ YearDays >= MonthDays * (MonthsShown - 1)

ASSUME MetricsAssumption

PAYING_STATUSES == {"active", "past_due"}
PriceOf(plan)   == IF plan = None THEN 0 ELSE 1
MonthOf(day)    == day \div MonthDays
MonthStart(day) == MonthDays * MonthOf(day)

Billable(shops) == {s \in shops : ~ s.exempt}
PayingOf(shops) == {s \in Billable(shops) : s.row.status \in PAYING_STATUSES}

CurrentMrr(shops) == Total([s \in PayingOf(shops) |-> PriceOf(s.row.plan)])

PlanDistribution(shops) ==
  {[plan |-> plan,
    customers |-> Cardinality({s \in PayingOf(shops) : s.row.plan = plan}),
    mrr |-> CurrentMrr({s \in shops : s.row.plan = plan})] :
     plan \in {s.row.plan : s \in PayingOf(shops)}}

TrialingOf(shops, day) ==
  {s \in Billable(shops) :
     s.row.status = "trialing" \/ (s.row.status = "none" /\ TrialEnd > day)}

(* Entries of the billed shops, with the shop they are of.                 *)
EntriesOf(shops, types) ==
  UNION {{[shop |-> s, entry |-> e] : e \in {e \in s.ledger : e.type \in types}} :
           s \in Billable(shops)}

ShopsWith(shops, type, days) ==
  {x.shop : x \in {x \in EntriesOf(shops, {type}) : x.entry.at \in days}}

(* The cash of each month: what came in less what was paid back.  A year   *)
(* back from today is in the month before the first of those shown.        *)
RecentMonths(day) == (MonthOf(day) - MonthsShown + 1)..MonthOf(day)

MonthlyRevenue(shops, day) ==
  LET cash == {x \in EntriesOf(shops, {"PAYMENT_SUCCEEDED", "PAYMENT_REFUNDED"}) :
                 x.entry.at >= MonthStart(day - YearDays)}
      Of(m) == {x \in cash : MonthOf(x.entry.at) = m}
  IN [m \in RecentMonths(day) \cup {MonthOf(x.entry.at) : x \in cash} |->
        [net |-> Total([x \in Of(m) |-> x.entry.amount]),
         payments |-> Cardinality({x \in Of(m) : x.entry.type = "PAYMENT_SUCCEEDED"})]]

NewIn(shops, days)     == ShopsWith(shops, "SUBSCRIPTION_CREATED", days)
ChurnedIn(shops, days) == ShopsWith(shops, "SUBSCRIPTION_CANCELED", days)

Rate(part, whole) == IF whole = {} THEN None ELSE <<Cardinality(part), Cardinality(whole)>>

Before(day) == 0..(day - SpanDays - 1)
Since(day)  == {d \in (day - SpanDays)..day : d >= 0}

ChurnRate(shops, day) ==
  Rate(ChurnedIn(shops, Since(day)),
       NewIn(shops, Before(day)) \ ChurnedIn(shops, Before(day)))

TrialConversion(shops, day) ==
  LET started == ShopsWith(shops, "TRIAL_STARTED", 0..day)
  IN Rate(started \cap NewIn(shops, 0..day), started)

(* computeLifetimeMonths, in days: the first contract to the last end.     *)
DaysOf(s, type) == {e.at : e \in {e \in s.ledger : e.type = type}}
LifetimeOf(s)   == Max(DaysOf(s, "SUBSCRIPTION_CANCELED")) - Min(DaysOf(s, "SUBSCRIPTION_CREATED"))
Lifetimes(shops) ==
  {s \in Billable(shops) :
     /\ DaysOf(s, "SUBSCRIPTION_CANCELED") # {} /\ DaysOf(s, "SUBSCRIPTION_CREATED") # {}
     /\ LifetimeOf(s) >= 0}

Ltv(shops) ==
  IF Lifetimes(shops) = {} \/ CurrentMrr(shops) = 0 THEN None
  ELSE (CurrentMrr(shops) * Total([s \in Lifetimes(shops) |-> LifetimeOf(s)]))
         \div (Cardinality(PayingOf(shops)) * Cardinality(Lifetimes(shops)))

(* What the page shows.                                                    *)
MetricsPage(shops, day) ==
  LET revenue == MonthlyRevenue(shops, day) IN
    [mrr |-> CurrentMrr(shops), paying |-> Cardinality(PayingOf(shops)),
     trialing |-> Cardinality(TrialingOf(shops, day)),
     new |-> Cardinality(NewIn(shops, Since(day))),
     lost |-> Cardinality(ChurnedIn(shops, Since(day))),
     churn |-> ChurnRate(shops, day), conversion |-> TrialConversion(shops, day),
     ltv |-> Ltv(shops), plans |-> PlanDistribution(shops),
     cash |-> revenue, cashShown |-> \E m \in DOMAIN revenue : revenue[m].net # 0]
-----------------------------------------------------------------------------
(* The tenant, and one that is exempt and has the same history.            *)
DayOfEntry(key) ==
  IF key[1] = "trial" THEN 0
  ELSE IF key[1] = "event" THEN events[key[2]].at
  ELSE (CHOOSE e \in {events[n] : n \in DOMAIN events} :
          e.type = "refunded" /\ e.sub = key[2] /\ e.until = key[3]).at

Dated == {[type |-> e.type, amount |-> e.amount, key |-> e.key,
           at |-> DayOfEntry(e.key)] : e \in ledger}

TheShops == {[row |-> tenant, exempt |-> exempt, ledger |-> Dated] : exempt \in BOOLEAN}

(* What Stripe sent of a type: the days, and how many in a month.          *)
At(type) == {events[n].at : n \in {n \in DOMAIN events : events[n].type = type}}
InMonth(type, m) ==
  Cardinality({n \in DOMAIN events : events[n].type = type /\ MonthOf(events[n].at) = m})

(* Payments of renewals Stripe took in a month.                            *)
TakenIn(m) == Cardinality({d \in taken : MonthOf(d) = m})

(* Once Stripe has got its answers and no entry was lost, the figures tell *)
(* what happened at Stripe: the income of the month is that of the running *)
(* contract, the cash of each month shown is what Stripe took less what it *)
(* paid back that month, and a shop is called new, converted or lost only  *)
(* if a contract of it began or ended in those days.  Who is exempt is in  *)
(* none of them.  The cash holds of an endpoint that asks for one of the   *)
(* two invoice events: a payment counts once for each of them, so twice    *)
(* with both and, as with the events the route recommends, never.          *)
MetricsTrue ==
  Quiet /\ cut = {} /\ mishaps = {} =>
    LET figures == MetricsPage(TheShops, now)
        running == Created # {} /\ Newest.status \in PAYING_STATUSES
        Paid(m) == scope.invoices * TakenIn(m)
        Net(m)  == Paid(m) - InMonth("refunded", m)
        recent  == {d \in Since(now) : d > 0}
    IN /\ figures.mrr = (IF running THEN PriceOf(Newest.plan) ELSE 0)
       /\ Total([p \in figures.plans |-> p.mrr]) = figures.mrr
       /\ figures.paying + figures.trialing <= 1
       /\ RecentMonths(now) \subseteq DOMAIN figures.cash
       /\ \A m \in DOMAIN figures.cash :
            figures.cash[m] = [net |-> Net(m), payments |-> Paid(m)]
       /\ ~ figures.cashShown => \A m \in RecentMonths(now) : Net(m) = 0
       /\ figures.new > 0 => recent \cap At("created") # {}
       /\ figures.lost > 0 => recent \cap At("deleted") # {}
       /\ figures.ltv # None => running /\ \E s \in Lifetimes(TheShops) : figures.ltv = LifetimeOf(s)
       /\ Created = {} => figures.conversion = <<0, 1>>

(* The money of the ledger and of the figures drawn from it.               *)
MoneyAddsUp == RefundsAddUp /\ MetricsTrue
=============================================================================
