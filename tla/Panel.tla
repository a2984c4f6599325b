-------------------------------- MODULE Panel --------------------------------
(***************************************************************************)
(* What the contract page offers (src/app/admin/billing/page.tsx,          *)
(* src/components/admin/billing-panel.tsx) for the row that Billing keeps, *)
(* and the days of the free trial as the page, the gate, the mails and     *)
(* Stripe count them (src/lib/trial-period.ts).                            *)
(*                                                                         *)
(* An instant is a half of a day, since the trial ends at the time of day  *)
(* of the sign-up; a shop is [configured, exempt], Stripe being set up or  *)
(* not and the merchant being billed or not.                               *)
(***************************************************************************)
EXTENDS Billing

Halves == 0..1
Instant(day, half) == 2 * day + half
DayOf(t) == t \div 2

(* Mutant: the trial ends at the time of day of the sign-up.               *)
TrialExpiresAtOnTheHour(ends) == ends

(* The trial lasts to the end of the day it ends on.                       *)
TrialExpiresAt(ends) == Instant(DayOf(ends) + 1, 0)

TrialDaysLeft(ends, t) == DayOf(ends) - DayOf(t)
IsTrialActive(ends, t) == TrialExpiresAt(ends) > t

(* Days handed over to Stripe, rounded up.                                 *)
StripeTrialDays(ends, t) ==
  IF IsTrialActive(ends, t) THEN (TrialExpiresAt(ends) - t + 1) \div 2 ELSE 0

(* 0 is shown as "to the end of today".                                    *)
TrialRemainingLabel(daysLeft) == Max({daysLeft, 0})

(* evaluateBillingAccess with all its states.                              *)
GateState(shop, row, ends, t) ==
  IF ~ shop.configured THEN "DORMANT"
  ELSE IF shop.exempt THEN "EXEMPT"
  ELSE IF Subscribed(row) THEN "SUBSCRIBED"
  ELSE IF InGrace(row, DayOf(t)) THEN "CANCELED_GRACE"
  ELSE IF IsTrialActive(ends, t) THEN "TRIAL"
  ELSE "LOCKED"

-----------------------------------------------------------------------------
(* The panel.  Who has paid for a subscription is known to Stripe.         *)

HasPaymentAccount == Created # {}

ShowPlans(state, canManage, result) ==
  canManage /\ result # "success" /\ state \in {"TRIAL", "LOCKED", "CANCELED_GRACE"}

ShowPortal(state, canManage) ==
  canManage /\ HasPaymentAccount /\ state \in {"SUBSCRIBED", "LOCKED"}

LockTitle(status) ==
  CASE status \in {"past_due", "unpaid"} -> "payment unconfirmed"
    [] status = "canceled"               -> "contract ended"
    [] status = "incomplete_expired"     -> "application unfinished"
    [] OTHER                             -> "trial ended"

LockAdvice(status, canManage) ==
  IF ~ canManage THEN "ask the owner"
  ELSE IF status \in {"unpaid", "past_due"} THEN "portal" ELSE "plans"

(* The buttons: a plan to apply for, and Stripe's portal.                  *)
PlanCards(state, canManage, result) ==
  IF ShowPlans(state, canManage, result) THEN Plans ELSE {}

Steps(state, canManage, result) ==
  {step \in {"plans", "portal"} :
     IF step = "plans" THEN PlanCards(state, canManage, result) # {}
     ELSE ShowPortal(state, canManage)}

(* startCheckout is not refused, and the portal has something to be paid.  *)
Accepted(row) ==
  /\ ~ Subscribed(row)
  /\ row.sub = None \/ row.status \in DEAD_SUB_STATUSES
  /\ Going = {}

Restores(step) == IF step = "plans" THEN Accepted(tenant) ELSE Going # {}

Results == {None, "success", "canceled"}
-----------------------------------------------------------------------------
(* Once Stripe has got its answers, an owner who is locked out is offered  *)
(* a step that ends it and the text names that step and the reason         *)
(* (billing-panel.tsx:260, the button that was missing to those who could  *)
(* not pay); the gate says the same as the page, whatever the hour.  All   *)
(* who count the days of the trial agree: the page shows none left over    *)
(* that the gate refuses, and Stripe is given neither less than what is    *)
(* left nor a day more.                                                    *)
TrialCountedOnce(ends, t) ==
  /\ IsTrialActive(ends, t) <=> TrialActive(DayOf(t))
  /\ IsTrialActive(ends, t) =>
       /\ t + 2 * TrialRemainingLabel(TrialDaysLeft(ends, t)) < TrialExpiresAt(ends)
       /\ t + 2 * StripeTrialDays(ends, t) - TrialExpiresAt(ends) \in 0..1
  /\ ~ IsTrialActive(ends, t) => StripeTrialDays(ends, t) = 0

LockedFindsAWayOut(state) ==
  state = "LOCKED" =>
    /\ \A result \in Results \ {"success"} :
         /\ \E step \in Steps(state, TRUE, result) : Restores(step)
         /\ LockAdvice(tenant.status, TRUE) \in
              {step \in Steps(state, TRUE, result) : Restores(step)}
    /\ (LockTitle(tenant.status) = "trial ended") <=> (Created = {})

NoDeadEnd ==
  \A half, since \in Halves :
    LET t     == Instant(now, half)
        ends  == Instant(TrialEnd, since)
        state == GateState([configured |-> TRUE, exempt |-> FALSE], tenant, ends, t)
    IN /\ (state # "LOCKED") <=> Allowed(tenant, now)
       /\ TrialCountedOnce(ends, t)
       /\ Quiet /\ ~ Excused => LockedFindsAWayOut(state)
=============================================================================
