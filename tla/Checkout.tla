------------------------------ MODULE Checkout ------------------------------
(***************************************************************************)
(* How a salon comes to a subscription: startCheckout and                  *)
(* ensureStripeCustomer of billing-service.ts and the calls of stripe.ts   *)
(* they make.  Several people of a tenant may apply at once, pages stay    *)
(* open, and the row of the tenant learns of a payment only when a webhook *)
(* writes it, at any later moment or never: what the row says of the       *)
(* subscription is module Billing's, but the webhooks write the customer   *)
(* too, and that is a matter of this module.                               *)
(*                                                                         *)
(* Stripe is external.  What it answers about a customer it has lost is an *)
(* error or an empty list: both happen here.                               *)
(***************************************************************************)
EXTENDS SubStatus, Integers, FiniteSets

CONSTANTS
  Visits,     \* requests at work at once
  Prices,     \* plans on sale
  Customers,  \* customers Stripe may create, 1..n
  Payments,   \* subscriptions Stripe may create, 1..n
  Buckets,    \* spans of ten minutes, 1..n
  Nothing     \* null

VARIABLES
  bucket,     \* the span of ten minutes it is
  customer,   \* stripeCustomerId of the tenant
  mirror,     \* [sub, status] of the tenant
  known,      \* customers Stripe has made
  gone,       \* and those it has lost
  paid,       \* Stripe's subscriptions: [customer, status]
  pages,      \* checkout pages: [price, bucket, customer, asked, again, used]
  visit,      \* [pc, price, customer, asked, again] of each request
  returned    \* history: customers a webhook put where another or none was

cvars == <<bucket, customer, mirror, known, gone, paid, pages, visit, returned>>

CheckoutAssumption ==
  /\ IsFiniteSet(Customers) /\ IsFiniteSet(Payments)
  /\ Customers = 1..Cardinality(Customers) /\ Payments = 1..Cardinality(Payments)
  /\ Buckets = 1..Cardinality(Buckets) /\ Nothing \notin Customers \cup Payments

ASSUME CheckoutAssumption

Made == {s \in Payments : paid[s].status # "none"}
Live(c) == {s \in Made : paid[s].customer = c /\ paid[s].status \notin DEAD_SUB_STATUSES}

-----------------------------------------------------------------------------
IdleVisit == [pc |-> "idle", price |-> Nothing, customer |-> Nothing, asked |-> 0,
              again |-> FALSE]
VisitAt(v, pc) == visit[v].pc = pc
Asks(v, r) == visit' = [visit EXCEPT ![v] = r]
Gives(v)   == Asks(v, IdleVisit)

(* The two guards on the mirror: subscribed, or a subscription still open. *)
MayApply(row) ==
  /\ row.status \notin ALLOWED_SUB_STATUSES
  /\ row.sub = Nothing \/ row.status \in DEAD_SUB_STATUSES

StartCheckout(v, price) ==
  /\ VisitAt(v, "idle")
  /\ MayApply(mirror)
  /\ Asks(v, [IdleVisit EXCEPT !.pc = "ensure", !.price = price])
  /\ UNCHANGED <<bucket, customer, mirror, known, gone, paid, pages, returned>>

(* ensureStripeCustomer: the stored customer, or a new one at Stripe.      *)
EnsureCustomer(v) ==
  /\ VisitAt(v, "ensure")
  /\ \/ /\ customer # Nothing
        /\ Asks(v, [visit[v] EXCEPT !.pc = "list", !.customer = customer])
        /\ UNCHANGED known
     \/ /\ customer = Nothing /\ known # Customers
        /\ known' = known \cup {Cardinality(known) + 1}
        /\ Asks(v, [visit[v] EXCEPT !.pc = "claim", !.customer = Cardinality(known) + 1])
  /\ UNCHANGED <<bucket, customer, mirror, gone, paid, pages, returned>>

(* Mutant: the new customer is stored over the one another request stored. *)
ClaimCustomerAlways(v) ==
  /\ VisitAt(v, "claim")
  /\ customer' = visit[v].customer
  /\ Asks(v, [visit[v] EXCEPT !.pc = "list"])
  /\ UNCHANGED <<bucket, mirror, known, gone, paid, pages, returned>>

(* The customer is stored where none is; the loser takes the winner's.     *)
ClaimCustomer(v) ==
  /\ VisitAt(v, "claim")
  /\ customer' = IF customer = Nothing THEN visit[v].customer ELSE customer
  /\ Asks(v, [visit[v] EXCEPT !.pc = "list", !.customer = customer'])
  /\ UNCHANGED <<bucket, mirror, known, gone, paid, pages, returned>>

(* Mutant: the mirror is trusted, Stripe is not asked.                     *)
ListLiveNot(v) ==
  /\ VisitAt(v, "list")
  /\ Asks(v, [visit[v] EXCEPT !.pc = "open", !.asked = Cardinality(Made)])
  /\ UNCHANGED <<bucket, customer, mirror, known, gone, paid, pages, returned>>

(* listLiveSubscriptions: refused when one is live; the second attempt     *)
(* with a fresh customer goes straight to the page.                        *)
ListLive(v) ==
  /\ VisitAt(v, "list")
  /\ \/ /\ ~ visit[v].again /\ Live(visit[v].customer) = {}
        /\ Asks(v, [visit[v] EXCEPT !.pc = "open", !.asked = Cardinality(Made)])
     \/ /\ visit[v].again
        /\ Asks(v, [visit[v] EXCEPT !.pc = "open"])
     \/ /\ ~ visit[v].again
        /\ Live(visit[v].customer) # {} \/ visit[v].customer \in gone
        /\ Gives(v)
  /\ UNCHANGED <<bucket, customer, mirror, known, gone, paid, pages, returned>>

(* The page a key stands for: one for a plan and ten minutes.              *)
Same(price) == {p \in pages : p.price = price /\ p.bucket = bucket}

(* createCheckoutSession.                                                  *)
OpenPage(v) ==
  /\ VisitAt(v, "open") /\ visit[v].customer \notin gone
  /\ pages' = IF Same(visit[v].price) # {} THEN pages
              ELSE pages \cup {[price |-> visit[v].price, bucket |-> bucket, used |-> FALSE,
                                customer |-> visit[v].customer, asked |-> visit[v].asked,
                                again |-> visit[v].again]}
  /\ Gives(v)
  /\ UNCHANGED <<bucket, customer, mirror, known, gone, paid, returned>>

(* A customer Stripe has lost is forgotten and made anew, once.            *)
Heal(v) ==
  /\ VisitAt(v, "open") /\ visit[v].customer \in gone
  /\ \/ /\ ~ visit[v].again
        /\ customer' = Nothing
        /\ Asks(v, [visit[v] EXCEPT !.pc = "ensure", !.again = TRUE])
     \/ /\ visit[v].again
        /\ Gives(v)
        /\ UNCHANGED customer
  /\ UNCHANGED <<bucket, mirror, known, gone, paid, pages, returned>>

(* A request dies; a customer it made at Stripe stays unused.              *)
Dies(v) ==
  /\ ~ VisitAt(v, "idle")
  /\ Gives(v)
  /\ UNCHANGED <<bucket, customer, mirror, known, gone, paid, pages, returned>>

-----------------------------------------------------------------------------
(* At Stripe: the owner pays on an open page, a subscription ends, the     *)
(* operator deletes a customer, with it what runs on it.                   *)
CompletePage(p) ==
  /\ p \in pages /\ ~ p.used /\ p.customer \notin gone /\ Made # Payments
  /\ LET s == Cardinality(Made) + 1 IN
       paid' = [paid EXCEPT ![s] = [customer |-> p.customer, status |-> "active"]]
  /\ pages' = (pages \ {p}) \cup {[p EXCEPT !.used = TRUE]}
  /\ UNCHANGED <<bucket, customer, mirror, known, gone, visit, returned>>

EndSubscription(s) ==
  /\ s \in Made /\ paid[s].status = "active"
  /\ paid' = [paid EXCEPT ![s].status = "canceled"]
  /\ UNCHANGED <<bucket, customer, mirror, known, gone, pages, visit, returned>>

LoseCustomer(c) ==
  /\ c \in known \ gone /\ gone = {}
  /\ gone' = gone \cup {c}
  /\ paid' = [s \in Payments |->
       IF s \in Live(c) THEN [paid[s] EXCEPT !.status = "canceled"] ELSE paid[s]]
  /\ UNCHANGED <<bucket, customer, mirror, known, pages, visit, returned>>

(* A webhook writes subscription and customer, whatever the row held.      *)
WritesCustomer(c) ==
  /\ customer' = c
  /\ returned' = IF c = customer THEN returned ELSE returned \cup {c}
  /\ UNCHANGED <<bucket, known, gone, paid, pages, visit>>

(* customer.subscription.*, of today or of before the end; the end of a    *)
(* subscription is applied where it is the row's.                          *)
Sync(s) ==
  /\ s \in Made
  /\ \E status \in {"active", paid[s].status} :
       /\ status = "canceled" => mirror.sub \in {Nothing, s}
       /\ mirror' = [sub |-> s, status |-> status]
  /\ WritesCustomer(paid[s].customer)

(* checkout.session.completed: a status that is there stays.               *)
Completed(s) ==
  /\ s \in Made
  /\ mirror' = [sub |-> s, status |-> IF mirror.status = "none" THEN "incomplete"
                                     ELSE mirror.status]
  /\ WritesCustomer(paid[s].customer)

TenMinutes ==
  /\ bucket + 1 \in Buckets
  /\ bucket' = bucket + 1
  /\ UNCHANGED <<customer, mirror, known, gone, paid, pages, visit, returned>>

-----------------------------------------------------------------------------
CheckoutInit ==
  /\ bucket = 1
  /\ customer = Nothing
  /\ mirror = [sub |-> Nothing, status |-> "none"]
  /\ known = {} /\ gone = {}
  /\ paid = [s \in Payments |-> [customer |-> Nothing, status |-> "none"]]
  /\ pages = {}
  /\ visit = [v \in Visits |-> IdleVisit]
  /\ returned = {}

CheckoutNext ==
  \/ \E v \in Visits, price \in Prices : StartCheckout(v, price)
  \/ \E v \in Visits :
       EnsureCustomer(v) \/ ClaimCustomer(v) \/ ListLive(v) \/ OpenPage(v) \/ Heal(v) \/ Dies(v)
  \/ \E p \in pages : CompletePage(p)
  \/ \E s \in Payments : EndSubscription(s) \/ Sync(s) \/ Completed(s)
  \/ \E c \in Customers : LoseCustomer(c)
  \/ TenMinutes

CheckoutSpec == CheckoutInit /\ [][CheckoutNext]_cvars
-----------------------------------------------------------------------------
(* Requests that race to make the customer of a tenant agree on one: as    *)
(* long as Stripe loses none, every page and so every subscription is the  *)
(* stored customer's.                                                      *)
OneCustomer == gone = {} => \A p \in pages : p.customer = customer

(* A customer who pays gets a second subscription only from a page that    *)
(* was asked for before the first was there: once one is live, and however *)
(* late the webhooks are, no new page is opened for that customer.  One    *)
(* request may: it found its customer lost, began again without asking     *)
(* Stripe a second time, and meanwhile a webhook had put another customer  *)
(* in the row.                                                             *)
SecondOnlyFromOlderPage ==
  [][\A p \in pages : CompletePage(p) =>
       \/ \A s \in Live(p.customer) : s > p.asked
       \/ p.again /\ p.customer \in returned]_cvars

=============================================================================
