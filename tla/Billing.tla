------------------------------- MODULE Billing -------------------------------
(***************************************************************************)
(* What a salon owes and may use: billing-service.ts, stripe.ts, the       *)
(* webhook route and the notices of billing-notification-service.ts.       *)
(* Stripe holds the truth; the row of the tenant is a mirror that only     *)
(* webhooks write.  Stripe delivers every event at least once, in any      *)
(* order, several at a time, and delivers it again when no 2xx comes back. *)
(*                                                                         *)
(* One tenant: no statement of the code touches two.  Stripe is external;  *)
(* it does what the code expects of it.  Two acts of people never fall in  *)
(* one second, the events of one act always do.                            *)
(***************************************************************************)
EXTENDS SubStatus, Integers, FiniteSets, Sequences, FiniteSetsExt, Sums

CONSTANTS
  Subs,       \* subscriptions Stripe may create, 1..n in order of creation
  Plans,      \* plans on sale
  Hooks,      \* webhook requests at work at once
  TrialEnd,   \* last day of the local trial
  Period,     \* days one payment buys
  MailDays,   \* days before the end of the trial a mail announces it
  Scopes,     \* bounds of the histories followed: [hooks, acts, days, faults,
              \* invoices], requests at work at once, kinds of acts at Stripe,
              \* days, failed requests and repeated deliveries together, and how
              \* many of invoice.paid and invoice.payment_succeeded, which both
              \* tell of one payment, the endpoint is registered for
  None        \* null

VARIABLES
  scope,      \* the bounds of this history, and the events Stripe is asked for
  now,        \* the day, also the second of an event
  tenant,     \* [sub, status, plan, until, lastAt, state] of the row
  contract,   \* status of the row of subscriptions, by subscription
  ledger,     \* billing_events: [key, type, amount]
  notices,    \* billing rows of notification_jobs: <<template, dedupeKey>>
  stripe,     \* Stripe's subscriptions: [status, plan, until]
  events,     \* what Stripe sends, in order of creation
  taken,      \* the days Stripe took the payment of a renewal
  acked,      \* events some delivery of which was answered 2xx
  hook,       \* [pc, event, row] of each webhook request
  faults,     \* faults so far
  mishaps,    \* history: what went wrong that the code does not make good
  cut         \* history: events answered without an entry, or whose handler failed
              \* after it wrote the row

rows   == <<scope, tenant, contract, ledger, notices>>
atStripe == <<stripe, events, taken>>
history == <<mishaps, cut>>
vars == <<now, rows, atStripe, acked, hook, faults, history>>

BillingAssumption ==
  /\ IsFiniteSet(Subs) /\ Subs = 1..Cardinality(Subs)
  /\ TrialEnd \in Nat /\ Period \in Nat
  /\ \A b \in Scopes : b.hooks \subseteq Hooks /\ b.days \in Nat /\ b.faults \in Nat
                     /\ b.invoices \in 0..2
  /\ MailDays \subseteq Nat \ {0}
  /\ Plans # {} /\ None \notin Subs \cup Plans

ASSUME BillingAssumption

NoSub == [status |-> "none", plan |-> None, until |-> 0]
Suffers(name, cond) == mishaps' = IF cond THEN mishaps \cup {name} ELSE mishaps
Paying  == {s \in Subs : stripe[s].status \in ALLOWED_SUB_STATUSES}
Created == {s \in Subs : stripe[s].status # "none"}
Going   == {s \in Created : stripe[s].status \notin DEAD_SUB_STATUSES}

-----------------------------------------------------------------------------
(* evaluateBillingAccess: may the back office be used at instant t?        *)

Subscribed(row) == row.status \in ALLOWED_SUB_STATUSES

(* Mutant: the grace after a cancellation is forgotten.                    *)
InGraceNever(row, t) == FALSE

InGrace(row, t) == row.status = "canceled" /\ row.until > t

TrialActive(t) == t <= TrialEnd

Allowed(row, t) == Subscribed(row) \/ InGrace(row, t) \/ TrialActive(t)

-----------------------------------------------------------------------------
(* Stripe, and the people who use it.                                      *)

Event(type, s, status, plan, until) ==
  [type |-> type, sub |-> s, at |-> now', status |-> status, plan |-> plan,
   until |-> until]

(* An act is the first thing that happens on a new day.                    *)
Act(kind) == kind \in scope.acts /\ now < scope.days /\ now' = now + 1
Emit(new) == events' = events \o new

Alter(s, status, plan, until) ==
  stripe' = [stripe EXCEPT ![s].status = status, ![s].plan = plan, ![s].until = until]

Updated(s) ==
  Event("updated", s, stripe'[s].status, stripe'[s].plan, stripe'[s].until)

(* The owner pays on a checkout page: three events of one second.          *)
Subscribe(plan) ==
  /\ Act("subscribe")
  /\ Created # Subs
  /\ LET s == Cardinality(Created) + 1 IN
       /\ Alter(s, "active", plan, now' + Period)
       /\ Emit(<<Event("created", s, "incomplete", plan, now' + Period),
                 Event("completed", s, "none", plan, 0), Updated(s)>>)
  /\ Suffers("doubled", Going # {})
  /\ UNCHANGED <<rows, taken, acked, hook, faults, cut>>

(* Renewals that succeed, or fail, or fail for the last time; a change of  *)
(* plan in the portal.  A payment is told by an event of each type asked   *)
(* for, with an id of its own.                                             *)
Invoiced(s, result) ==
  IF result # "active" THEN <<Event("failed", s, "none", None, 0)>>
  ELSE [i \in 1..scope.invoices |-> Event("paid", s, "none", None, 0)]

Renew(s, result) ==
  /\ Act("renew")
  /\ s \in Going
  /\ result = "past_due" => s \in Paying
  /\ result = "unpaid" => stripe[s].status = "past_due"
  /\ Alter(s, result, stripe[s].plan,
           IF result = "active" THEN now' + Period ELSE stripe[s].until)
  /\ taken' = IF result = "active" THEN taken \cup {now'} ELSE taken
  /\ Emit(Invoiced(s, result) \o <<Updated(s)>>)
  /\ UNCHANGED <<rows, acked, hook, faults, history>>

ChangePlan(s, plan) ==
  /\ Act("plan")
  /\ s \in Paying /\ plan # stripe[s].plan
  /\ Alter(s, stripe[s].status, plan, stripe[s].until)
  /\ Emit(<<Updated(s)>>)
  /\ UNCHANGED <<rows, taken, acked, hook, faults, history>>

Cancel(s) ==
  /\ Act("cancel")
  /\ s \in Going
  /\ Alter(s, "canceled", stripe[s].plan, stripe[s].until)
  /\ Emit(<<Event("deleted", s, "canceled", stripe[s].plan, stripe[s].until)>>)
  /\ UNCHANGED <<rows, taken, acked, hook, faults, history>>

(* A refund of one unit; the event carries every refund of the charge.     *)
Refunds(s) == Cardinality({n \in DOMAIN events :
                             events[n].type = "refunded" /\ events[n].sub = s})
Refund(s) ==
  /\ Act("refund")
  /\ s \in Created
  /\ UNCHANGED stripe
  /\ Emit(<<Event("refunded", s, "none", None, Refunds(s) + 1)>>)
  /\ UNCHANGED <<rows, taken, acked, hook, faults, history>>

-----------------------------------------------------------------------------
(* Mutant: one row per type is entered, whatever the event.                *)
EnteredOnce(key, type, amount) ==
  IF \E e \in ledger : e.type = type THEN ledger
  ELSE ledger \cup {[key |-> key, type |-> type, amount |-> amount]}

(* recordBillingEvent: one row per key, a second one is swallowed.         *)
Entered(key, type, amount) ==
  IF \E e \in ledger : e.key = key THEN ledger
  ELSE ledger \cup {[key |-> key, type |-> type, amount |-> amount]}

(* enqueueBillingNotice: one row per template and key.                     *)
Noticed(template, key) == notices \cup {<<template, key>>}

(* sweepTrialNotices: who has no subscription is told of the end.          *)
TrialTemplate(daysLeft) ==
  IF daysLeft < 0 THEN "TRIAL_ENDED" ELSE "TRIAL_ENDING"
TrialSweep ==
  LET daysLeft == TrialEnd - now IN
    /\ ~ Subscribed(tenant)
    /\ daysLeft \in MailDays \/ daysLeft < 0
    /\ notices' = Noticed(TrialTemplate(daysLeft), <<"trial", daysLeft < 0, TrialEnd>>)
    /\ UNCHANGED <<scope, now, tenant, contract, ledger, atStripe, acked, hook,
                   faults, history>>

-----------------------------------------------------------------------------
(* The webhook route: processStripeEvent.                                  *)

IdleHook == [pc |-> "idle", event |-> 0, row |-> None]
Ev(h)    == events[hook[h].event]
Key(h)   == <<"event", hook[h].event>>
AtPc(h, pc) == hook[h].pc = pc
(* On to the ledger; of the row only the plan is looked at again.          *)
GoesOn(h) ==
  hook' = [hook EXCEPT ![h].pc = "record",
             ![h].row = IF @ = None THEN None ELSE [plan |-> @.plan]]
Answers(h) ==
  /\ acked' = acked \cup {hook[h].event}
  /\ hook' = [hook EXCEPT ![h] = IdleHook]

(* A delivery, and the row findTenantForSubscription reads.  A repeated    *)
(* delivery of an answered event counts as a fault.                        *)
Deliver(h, n) ==
  /\ AtPc(h, "idle") /\ h \in scope.hooks
  /\ n \in acked => faults < scope.faults
  /\ faults' = IF n \in acked THEN faults + 1 ELSE faults
  /\ hook' = [hook EXCEPT ![h] =
       [pc |-> "write", event |-> n,
        row |-> IF events[n].type \in {"completed", "refunded"} THEN None ELSE tenant]]
  /\ UNCHANGED <<now, rows, atStripe, acked, history>>

IsStaleEvent(row, e) == e.at < row.lastAt

(* Mutant: the guard against events of the same second is dropped.         *)
IsRegressiveNever(row, e) == FALSE

(* Events of one second must not take access away.                         *)
IsRegressiveSameSecond(row, e) ==
  /\ e.at <= row.lastAt
  /\ Subscribed(row)
  /\ e.status \notin ALLOWED_SUB_STATUSES

Superseded(row, e) ==
  e.type = "deleted" /\ row.sub # None /\ row.sub # e.sub

Applies(row, e) ==
  /\ ~ IsStaleEvent(row, e)
  /\ ~ Superseded(row, e)
  /\ e.type # "deleted" => ~ IsRegressiveSameSecond(row, e)

(* Another request holds a row it read before this write.                  *)
Crossed(h) ==
  \E g \in Hooks \ {h} : AtPc(g, "write") /\ Ev(g).type \notin {"completed", "refunded"}

(* syncSubscription up to the update of the row.                           *)
SyncWrite(h) ==
  /\ AtPc(h, "write") /\ Ev(h).type \in {"created", "updated", "deleted"}
  /\ LET e == Ev(h) IN
       \/ /\ ~ Applies(hook[h].row, e)
          /\ Answers(h)
          /\ mishaps' = mishaps \cup {m \in {"ignored", "softened"} :
               IF m = "ignored" THEN Superseded(hook[h].row, e) /\ e.sub = Cardinality(Created)
               ELSE e.status = "unpaid" /\ ~ IsStaleEvent(hook[h].row, e)}
          /\ UNCHANGED tenant
       \/ /\ Applies(hook[h].row, e)
          /\ tenant' = [tenant EXCEPT
               !.sub = e.sub, !.status = e.status,
               !.until = e.until, !.plan = e.plan, !.lastAt = e.at,
               !.state = IF e.type = "deleted" THEN "CANCELLED"
                         ELSE IF e.status \in ALLOWED_SUB_STATUSES THEN "ACTIVE" ELSE @]
          /\ Suffers("overlapped", Crossed(h))
          /\ GoesOn(h)
          /\ UNCHANGED acked
  /\ UNCHANGED <<scope, now, contract, ledger, notices, atStripe, faults, cut>>

HistoryStatus(status) ==
  CASE status = "active" -> "ACTIVE"
    [] status = "trialing" -> "TRIALING"
    [] status \in DEAD_SUB_STATUSES -> "CANCELLED"
    [] OTHER -> "PAST_DUE"

LedgerType(row, e) ==
  CASE e.type = "deleted" -> "SUBSCRIPTION_CANCELED"
    [] e.type = "created" -> "SUBSCRIPTION_CREATED"
    [] e.type = "updated" /\ row.plan # None /\ row.plan # e.plan -> "PLAN_CHANGED"
    [] OTHER -> "SUBSCRIPTION_UPDATED"

(* The ledger becomes new; a write that fails is logged and forgotten.     *)
Enters(h, new, kept) ==
  /\ ledger' = IF kept THEN new ELSE ledger
  /\ kept \/ faults < scope.faults
  /\ faults' = IF kept THEN faults ELSE faults + 1
  /\ cut' = IF kept THEN cut ELSE cut \cup {hook[h].event}

(* The history row, the ledger and, for a cancellation, the mail.          *)
SyncRecord(h, kept) ==
  /\ AtPc(h, "record") /\ Ev(h).type \in {"created", "updated", "deleted"}
  /\ contract' = [contract EXCEPT ![Ev(h).sub] = HistoryStatus(Ev(h).status)]
  /\ Enters(h, Entered(Key(h), LedgerType(hook[h].row, Ev(h)), 0), kept)
  /\ notices' = IF Ev(h).type = "deleted" THEN Noticed("CANCELED", Key(h)) ELSE notices
  /\ Answers(h)
  /\ UNCHANGED <<scope, now, tenant, atStripe, mishaps>>

(* checkout.session.completed: the subscription is written                 *)
(* whatever the row holds, a missing status becomes incomplete.            *)
Checkout(h) ==
  /\ AtPc(h, "write") /\ Ev(h).type = "completed"
  /\ tenant' = [tenant EXCEPT !.sub = Ev(h).sub]
  /\ mishaps' = mishaps \cup {m \in {"overlapped", "rewound"} :
       IF m = "overlapped" THEN Crossed(h)
       ELSE tenant.sub \notin {None, Ev(h).sub} /\ Ev(h).at < tenant.lastAt}
  /\ GoesOn(h)
  /\ UNCHANGED <<scope, now, contract, ledger, notices, atStripe, acked, faults, cut>>

CheckoutStatus(h) ==
  /\ AtPc(h, "record") /\ Ev(h).type = "completed"
  /\ tenant' = [tenant EXCEPT !.status = IF @ = "none" THEN "incomplete" ELSE @]
  /\ Suffers("overlapped", Crossed(h))
  /\ Answers(h)
  /\ UNCHANGED <<scope, now, contract, ledger, notices, atStripe, faults, cut>>

(* invoice.paid and invoice.payment_succeeded: each enters the money, the  *)
(* ledger knows the event and not the payment; and the all-clear after a   *)
(* failed payment.                                                         *)
InvoicePaid(h, kept) ==
  /\ AtPc(h, "write") /\ Ev(h).type = "paid"
  /\ Enters(h, Entered(Key(h), "PAYMENT_SUCCEEDED", 1), kept)
  /\ notices' = IF hook[h].row.status = "past_due"
                THEN Noticed("RECOVERED", Key(h)) ELSE notices
  /\ Answers(h)
  /\ UNCHANGED <<scope, now, tenant, contract, atStripe, mishaps>>

(* invoice.payment_failed: only who is subscribed becomes past_due.        *)
Dunned(row, e) ==
  ~ IsStaleEvent(row, e) /\ Subscribed(row)

InvoiceFailed(h) ==
  /\ AtPc(h, "write") /\ Ev(h).type = "failed"
  /\ \/ /\ Dunned(hook[h].row, Ev(h))
        /\ tenant' = [tenant EXCEPT !.status = "past_due", !.lastAt = Ev(h).at]
        /\ Suffers("overlapped", Crossed(h))
        /\ GoesOn(h)
        /\ UNCHANGED acked
     \/ /\ ~ Dunned(hook[h].row, Ev(h))
        /\ Answers(h)
        /\ UNCHANGED <<tenant, mishaps>>
  /\ UNCHANGED <<scope, now, contract, ledger, notices, atStripe, faults, cut>>

InvoiceFailedRecord(h, kept) ==
  /\ AtPc(h, "record") /\ Ev(h).type = "failed"
  /\ Enters(h, Entered(Key(h), "PAYMENT_FAILED", 0), kept)
  /\ notices' = Noticed("PAYMENT_FAILED", Key(h))
  /\ Answers(h)
  /\ UNCHANGED <<scope, now, tenant, contract, atStripe, mishaps>>

(* Mutant: the running total the event carries is entered.                 *)
RefundRowsTotal(e) ==
  {[key |-> <<"refund", e.sub, e.until>>, type |-> "PAYMENT_REFUNDED",
    amount |-> -(e.until)]}

(* charge.refunded: one negative row per refund the charge lists.          *)
RefundRows(e) ==
  {[key |-> <<"refund", e.sub, k>>, type |-> "PAYMENT_REFUNDED", amount |-> -1] :
     k \in 1..e.until}

ChargeRefunded(h, kept) ==
  /\ AtPc(h, "write") /\ Ev(h).type = "refunded"
  /\ Enters(h, ledger \cup RefundRows(Ev(h)), kept)
  /\ Answers(h)
  /\ UNCHANGED <<scope, now, tenant, contract, notices, atStripe, mishaps>>

(* A request dies or a statement of it fails: 500, and Stripe tries again. *)
HookFails(h) ==
  /\ hook[h].pc # "idle"
  /\ faults < scope.faults
  /\ faults' = faults + 1
  /\ cut' = IF AtPc(h, "record") THEN cut \cup {hook[h].event} ELSE cut
  /\ hook' = [hook EXCEPT ![h] = IdleHook]
  /\ UNCHANGED <<now, rows, atStripe, acked, mishaps>>

Tick ==
  /\ now < scope.days
  /\ now' = now + 1
  /\ UNCHANGED <<rows, atStripe, acked, hook, faults, history>>

-----------------------------------------------------------------------------
Init ==
  /\ now = 1
  /\ tenant = [sub |-> None, status |-> "none", plan |-> None,
               until |-> 0, lastAt |-> 0, state |-> "ACTIVE"]
  /\ contract = [s \in Subs |-> "none"]
  /\ ledger = {[key |-> <<"trial", 0>>, type |-> "TRIAL_STARTED", amount |-> 0]}
  /\ notices = {}
  /\ stripe = [s \in Subs |-> NoSub]
  /\ events = <<>> /\ taken = {} /\ acked = {}
  /\ hook = [h \in Hooks |-> IdleHook]
  /\ faults = 0
  /\ mishaps = {} /\ cut = {}
  /\ scope \in Scopes

StripeActs ==
  \/ \E plan \in Plans : Subscribe(plan)
  \/ \E s \in Subs, result \in {"active", "past_due", "unpaid"} : Renew(s, result)
  \/ \E s \in Subs, plan \in Plans : ChangePlan(s, plan)
  \/ \E s \in Subs : Cancel(s) \/ Refund(s)

HookStep(h) ==
  \/ SyncWrite(h) \/ Checkout(h) \/ CheckoutStatus(h) \/ InvoiceFailed(h)
  \/ \E kept \in BOOLEAN :
       SyncRecord(h, kept) \/ InvoicePaid(h, kept) \/ InvoiceFailedRecord(h, kept)
         \/ ChargeRefunded(h, kept)

Next ==
  \/ StripeActs
  \/ \E h \in Hooks, n \in DOMAIN events : Deliver(h, n)
  \/ \E h \in Hooks : HookStep(h) \/ HookFails(h)
  \/ TrialSweep
  \/ Tick

Spec == Init /\ [][Next]_vars
-----------------------------------------------------------------------------
(* Every event has been answered and no request is at work.                *)
Quiet == acked = DOMAIN events /\ \A h \in Hooks : AtPc(h, "idle")

(* Excused: requests wrote across each other, an old checkout event put an *)
(* old subscription back, two subscriptions were paid for at once, or the  *)
(* end of the newest was taken for the end of an old one.  The last        *)
(* failure of a payment may be "softened": the news that Stripe gave up is *)
(* dropped when it is of the second of that failure, and access stays.     *)
Excused == mishaps \ {"softened"} # {}

Newest == stripe[Cardinality(Created)]

(* Whatever the order of delivery, the repeats and the failed attempts:    *)
(* once Stripe has got its answers the row tells what Stripe knows of the  *)
(* newest subscription.  One that was given up for unpaid leaves the state *)
(* of the tenant as it was, and what it was depends on the order.          *)
MirrorFaithful ==
  Quiet /\ Created # {} /\ mishaps = {} =>
    /\ tenant.sub = Cardinality(Created)
    /\ tenant.status = Newest.status /\ tenant.plan = Newest.plan
    /\ tenant.until = Newest.until
    /\ Newest.status # "unpaid" =>
         tenant.state = IF Newest.status = "canceled" THEN "CANCELLED" ELSE "ACTIVE"

(* What is promised: access during the trial, while a subscription is paid *)
(* for or a payment is being retried, and after a cancellation to the end  *)
(* of the paid period.  The row has room for one subscription: the time    *)
(* left of one that was cancelled ends when the next takes its place.      *)
Promised ==
  \/ now <= TrialEnd \/ Paying # {}
  \/ Created # {} /\ Newest.status = "canceled" /\ Newest.until > now

AccessKept == Quiet /\ ~ Excused /\ Promised => Allowed(tenant, now)

(* A change that reached the row is in the ledger when Stripe has its      *)
(* answer, unless the request that wrote it failed before the ledger: its  *)
(* repetition may find the event stale by then and leave it out.           *)
Entries(n) == {e \in ledger : e.key = <<"event", n>>}
LedgerComplete ==
  \A n \in acked \ cut :
    /\ events[n].at = tenant.lastAt /\ events[n].type \in {"updated", "deleted"}
    /\ mishaps \cap {"overlapped", "softened"} = {}
    /\ \A h \in Hooks : hook[h].event # n
    => Entries(n) # {}

(* In every order, with repeats: what the ledger says was paid back is     *)
(* never more than Stripe paid back, and all of it once Stripe is answered *)
(* and no entry was lost.                                                  *)
RefundSum == Total([e \in {e \in ledger : e.type = "PAYMENT_REFUNDED"} |-> e.amount])
RefundsMade == Cardinality({n \in DOMAIN events : events[n].type = "refunded"})
RefundsAddUp ==
  /\ RefundSum + RefundsMade >= 0
  /\ Quiet /\ (\A n \in cut : events[n].type # "refunded") => RefundSum + RefundsMade = 0
=============================================================================
