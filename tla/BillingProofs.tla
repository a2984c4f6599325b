---------------------------- MODULE BillingProofs ----------------------------
(***************************************************************************)
(* The mirror, the gate and the ledger, for any number of subscriptions,   *)
(* requests, days, events and faults.  Events of one second are of one act *)
(* at Stripe (OneAct); the last event that tells a status tells what       *)
(* Stripe knows of the newest subscription (StripeOK).  From the moment    *)
(* that event is written to the row, or is answered, no other event        *)
(* changes what the row shows of it (RowOK), and what reached the row is   *)
(* in the ledger, on its way there, or known to be lost (LedgerOK).        *)
(*                                                                         *)
(* From there the contract page, which shows the row (Panel), the figures  *)
(* drawn from the ledger (Metrics), and, beside it, the pages of checkout. *)
(***************************************************************************)
EXTENDS Panel, Metrics, Checkout, OccupancyProofs, FiniteSetTheorems, SequenceTheorems, TLAPS

RowStatus == {"none", "incomplete", "active", "past_due", "unpaid", "canceled"}
TenantRow == [sub : Subs \cup {None}, status : RowStatus, plan : Plans \cup {None},
              until : Nat, lastAt : Nat, state : {"ACTIVE", "CANCELLED"}]

(* Types of events: those that tell the status, those that may write the   *)
(* row, and the rest.                                                      *)
Telling  == {"updated", "deleted"}
Writing  == Telling \cup {"created", "completed", "failed"}
Reading  == Writing \cup {"paid", "refunded"}
EventRow == [type : Reading, sub : Subs, at : Nat, status : RowStatus,
             plan : Plans \cup {None}, until : Nat]

HookRow == [pc : {"idle", "write", "record"}, event : Nat,
            row : TenantRow \cup {None} \cup [plan : Plans \cup {None}]]

StripeRow == [status : RowStatus, plan : Plans \cup {None}, until : Nat]

BillingType ==
  /\ now \in Nat /\ scope.invoices \in Nat
  /\ tenant \in TenantRow
  /\ stripe \in [Subs -> StripeRow]
  /\ events \in Seq(EventRow) /\ acked \subseteq DOMAIN events
  /\ hook \in [Hooks -> HookRow]
  /\ \A h \in Hooks : ~ AtPc(h, "idle") => hook[h].event \in DOMAIN events

-----------------------------------------------------------------------------
(* What Stripe sends                                                       *)

(* Two events of one second are of one act.                                *)
OneAct(m, n) ==
  LET e == events[m]  f == events[n] IN
  e.at = f.at =>
    /\ e.sub = f.sub
    /\ e.type \in Telling /\ f.type \in Telling => m = n
    /\ f.type = "deleted" => m = n
    /\ e.type = "created" /\ f.type = "updated" => f.status = "active"
    /\ e.type = "failed" /\ f.type = "updated" => f.status \in {"past_due", "unpaid"}

WellSent(e, t) ==
  /\ e.at <= t
  /\ e.type = "created" => e.status = "incomplete"
  /\ e.type = "updated" => e.status \in {"active", "past_due", "unpaid"}
  /\ e.type = "deleted" => e.status = "canceled"

EventsOK ==
  /\ \A n \in DOMAIN events : WellSent(events[n], now)
  /\ \A m, n \in DOMAIN events : OneAct(m, n)

(* The last event that tells a status.                                     *)
Latest(n) ==
  /\ n \in DOMAIN events /\ events[n].type \in Telling
  /\ \A m \in DOMAIN events : events[m].type \in Writing => events[m].at <= events[n].at

(* Subscriptions are made one after the other; while no two were paid for  *)
(* at once only the newest can go on, and the last event tells its state.  *)
StripeOK ==
  /\ Created = 1..Cardinality(Created)
  /\ "doubled" \notin mishaps =>
       /\ Going \subseteq {Cardinality(Created)}
       /\ Created # {} => \E n \in DOMAIN events : Latest(n)
       /\ \A n \in DOMAIN events : Latest(n) =>
            /\ Created # {} /\ events[n].sub = Cardinality(Created)
            /\ events[n].status = Newest.status
            /\ events[n].plan = Newest.plan /\ events[n].until = Newest.until

-----------------------------------------------------------------------------
(* What the row has of it                                                  *)

ReadsRow(h) == Ev(h).type \notin {"completed", "refunded"}

(* No request holds a row that has been written since it read it.          *)
FreshRows ==
  "overlapped" \notin mishaps =>
    \A h \in Hooks : AtPc(h, "write") /\ ReadsRow(h) => hook[h].row = tenant

AtRecord(n) == \E h \in Hooks : AtPc(h, "record") /\ hook[h].event = n

Told(n) == n \in acked \/ AtRecord(n)

Shows(e) ==
  /\ tenant.sub = e.sub /\ tenant.status = e.status
  /\ tenant.plan = e.plan /\ tenant.until = e.until /\ tenant.lastAt = e.at
  /\ e.status # "unpaid" =>
       tenant.state = IF e.status = "canceled" THEN "CANCELLED" ELSE "ACTIVE"

RowOK ==
  /\ tenant.lastAt # 0 =>
       \E n \in DOMAIN events : events[n].type \in Writing /\ events[n].at = tenant.lastAt
  /\ FreshRows
  /\ mishaps \subseteq {"softened"} => \A n \in DOMAIN events :
       /\ Latest(n) /\ Told(n)
       /\ events[n].status = "unpaid" => mishaps = {}
       => Shows(events[n])

(* The ledger has an entry, or will have, or has lost it.                  *)
Accounted(n) == Entries(n) # {} \/ n \in cut \/ AtRecord(n)

LedgerOK ==
  mishaps \cap {"overlapped", "softened"} = {} =>
    \A n \in DOMAIN events :
      /\ events[n].type = "deleted" /\ events[n].at = tenant.lastAt => Accounted(n)
      /\ events[n].type = "updated" /\ n \in acked =>
           Accounted(n) \/ events[n].at < tenant.lastAt

BillingInv == BillingType /\ EventsOK /\ StripeOK /\ RowOK /\ LedgerOK

-----------------------------------------------------------------------------
(* An act at Stripe                                                        *)

LEMMA Appended ==
  ASSUME NEW new \in Seq(EventRow), events \in Seq(EventRow), events' = events \o new
  PROVE  /\ events' \in Seq(EventRow)
         /\ DOMAIN events \subseteq DOMAIN events'
         /\ \A n \in DOMAIN events : events'[n] = events[n]
         /\ \A n \in DOMAIN events' \ DOMAIN events :
              \E k \in DOMAIN new : n = Len(events) + k /\ events'[n] = new[k]
         /\ \A k \in DOMAIN new : /\ Len(events) + k \in DOMAIN events' \ DOMAIN events
                                  /\ events'[Len(events) + k] = new[k]
<1>1. /\ Len(events) \in Nat /\ DOMAIN events = 1..Len(events)
      /\ Len(new) \in Nat /\ DOMAIN new = 1..Len(new)
  BY LenProperties
<1>2. /\ events' \in Seq(EventRow) /\ DOMAIN events' = 1..(Len(events) + Len(new))
      /\ \A i \in 1..(Len(events) + Len(new)) :
           events'[i] = IF i <= Len(events) THEN events[i] ELSE new[i - Len(events)]
  BY <1>1, ConcatProperties, LenProperties
<1>3. ASSUME NEW n \in DOMAIN events' \ DOMAIN events
      PROVE  \E k \in DOMAIN new : n = Len(events) + k /\ events'[n] = new[k]
  <2>1. n - Len(events) \in DOMAIN new /\ n = Len(events) + (n - Len(events))
    BY <1>1, <1>2
  <2> QED
    BY <1>1, <1>2, <2>1
<1> QED
  BY <1>1, <1>2, <1>3

(* What may be sent together.                                              *)
GoTogether(new, m, n) ==
  LET e == new[m]  f == new[n] IN
  /\ e.sub = f.sub
  /\ e.type \in Telling /\ f.type \in Telling => m = n
  /\ f.type = "deleted" => m = n
  /\ e.type = "created" /\ f.type = "updated" => f.status = "active"
  /\ e.type = "failed" /\ f.type = "updated" => f.status \in {"past_due", "unpaid"}

(* The state of s at Stripe becomes r, and an event tells it.              *)
Changes(s, new) ==
  /\ stripe' \in [Subs -> StripeRow] /\ \A o \in Subs \ {s} : stripe'[o] = stripe[o]
  /\ stripe'[s].status \notin {"none", "incomplete"}
  /\ \A k \in DOMAIN new : new[k].type # "refunded"
  /\ \E k \in DOMAIN new :
       /\ new[k].type \in Telling /\ new[k].status = stripe'[s].status
       /\ new[k].plan = stripe'[s].plan /\ new[k].until = stripe'[s].until
  /\ \/ s \in Going /\ mishaps' = mishaps
     \/ /\ s = Cardinality(Created) + 1 /\ stripe[s].status = "none"
        /\ Suffers("doubled", Going # {})

(* A refund is told by its number among those of s.                        *)
Repays(s, new) ==
  /\ UNCHANGED <<stripe, mishaps>> /\ s \in Created
  /\ \E e \in EventRow : new = <<e>> /\ e.type = "refunded" /\ e.until = Refunds(s) + 1
  /\ \A k \in DOMAIN new : new[k].type \notin Writing

(* The payments among what is sent: those of the day, or none.             *)
Bills(new) ==
  \/ /\ taken' = taken \cup {now'}
     /\ {k \in DOMAIN new : new[k].type = "paid"} = 1..scope.invoices
  \/ taken' = taken /\ \A k \in DOMAIN new : new[k].type # "paid"

Acted(s, new) ==
  /\ s \in Subs /\ new \in Seq(EventRow)
  /\ now' = now + 1 /\ events' = events \o new
  /\ UNCHANGED <<rows, acked, hook, cut>>
  /\ \A k \in DOMAIN new : new[k].sub = s /\ new[k].at = now' /\ WellSent(new[k], now')
  /\ \A k, l \in DOMAIN new : GoTogether(new, k, l)
  /\ Repays(s, new) \/ Changes(s, new)
  /\ Bills(new)

LEMMA OneIsSent ==
  ASSUME NEW a \in EventRow
  PROVE  <<a>> \in Seq(EventRow) /\ DOMAIN <<a>> = {1} /\ <<a>>[1] = a
  OBVIOUS

LEMMA ThreeAreSent ==
  ASSUME NEW a \in EventRow, NEW b \in EventRow, NEW c \in EventRow
  PROVE  /\ <<a, b, c>> \in Seq(EventRow) /\ DOMAIN <<a, b, c>> = {1, 2, 3}
         /\ <<a, b, c>>[1] = a /\ <<a, b, c>>[2] = b /\ <<a, b, c>>[3] = c
  OBVIOUS

LEMMA Altered ==
  ASSUME BillingType, NEW s \in Subs, NEW status \in RowStatus,
         NEW plan \in Plans \cup {None}, NEW until \in Nat, Alter(s, status, plan, until)
  PROVE  /\ stripe' \in [Subs -> StripeRow] /\ \A o \in Subs \ {s} : stripe'[o] = stripe[o]
         /\ stripe'[s].status = status /\ stripe'[s].plan = plan /\ stripe'[s].until = until
  BY DEF BillingType, StripeRow, Alter

LEMMA CountCreated ==
  ASSUME StripeOK
  PROVE  /\ Cardinality(Created) \in Nat /\ IsFiniteSet(Created)
         /\ \A s \in Subs : s \in Nat \ {0}
         /\ Created # Subs => /\ Cardinality(Created) + 1 \in Subs
                             /\ Cardinality(Created) + 1 \notin Created
<1>1. IsFiniteSet(Created) /\ Cardinality(Created) \in Nat /\ Cardinality(Subs) \in Nat
  BY BillingAssumption, FS_Subset, FS_CardinalityType DEF BillingAssumption, Created
<1>2. /\ Subs = 1..Cardinality(Subs) /\ Created = 1..Cardinality(Created)
      /\ Created \subseteq Subs
  BY BillingAssumption DEF BillingAssumption, StripeOK, Created
<1>3. ASSUME Created # Subs
      PROVE  Cardinality(Created) + 1 \in Subs /\ Cardinality(Created) + 1 \notin Created
  <2> DEFINE c == Cardinality(Created)  n == Cardinality(Subs)
  <2>1. c \in Nat /\ n \in Nat /\ Subs = 1..n /\ Created = 1..c /\ 1..c \subseteq 1..n
    BY <1>1, <1>2
  <2> HIDE DEF c, n
  <2>2. c < n
    BY <1>3, <2>1
  <2> QED
    BY <2>1, <2>2 DEF c
<1> QED
  BY <1>1, <1>2, <1>3

LEMMA SubscribeActs ==
  ASSUME BillingType, StripeOK, NEW plan \in Plans, Subscribe(plan)
  PROVE  \E s \in Subs : \E new \in Seq(EventRow) : Acted(s, new)
<1> DEFINE s == Cardinality(Created) + 1
           a == Event("created", s, "incomplete", plan, now' + Period)
           b == Event("completed", s, "none", plan, 0)
           c == Updated(s)
<1>1. s \in Subs /\ s \notin Created
  BY CountCreated DEF Subscribe
<1>2. now' = now + 1 /\ now' \in Nat /\ now' + Period \in Nat
  BY BillingAssumption DEF BillingAssumption, Subscribe, Act, BillingType
<1>3. /\ stripe' \in [Subs -> StripeRow] /\ \A o \in Subs \ {s} : stripe'[o] = stripe[o]
      /\ stripe'[s].status = "active" /\ stripe'[s].plan = plan
      /\ stripe'[s].until = now' + Period
  <2>1. Alter(s, "active", plan, now' + Period)
    BY DEF Subscribe
  <2> HIDE DEF s
  <2> QED
    BY <1>1, <1>2, <2>1, Altered DEF RowStatus
<1>4. events' = events \o <<a, b, c>>
  BY DEF Subscribe, Emit
<1> HIDE DEF s
<1>5. /\ a \in EventRow /\ b \in EventRow /\ c \in EventRow
      /\ a.type = "created" /\ b.type = "completed" /\ c.type = "updated"
      /\ a.sub = s /\ b.sub = s /\ c.sub = s /\ a.at = now' /\ b.at = now' /\ c.at = now'
      /\ a.status = "incomplete" /\ c.status = "active"
      /\ c.plan = plan /\ c.until = now' + Period
  BY <1>1, <1>2, <1>3
     DEF Event, Updated, EventRow, Reading, Writing, Telling, RowStatus, StripeRow
<1> HIDE DEF a, b, c
<1>6. /\ <<a, b, c>> \in Seq(EventRow)
      /\ \A k \in DOMAIN <<a, b, c>> : /\ <<a, b, c>>[k].sub = s /\ <<a, b, c>>[k].at = now'
                                       /\ WellSent(<<a, b, c>>[k], now')
      /\ \A k, l \in DOMAIN <<a, b, c>> : GoTogether(<<a, b, c>>, k, l)
  BY <1>2, <1>5, ThreeAreSent DEF GoTogether, WellSent, Telling
<1>7. Changes(s, <<a, b, c>>)
  <2>1. 3 \in DOMAIN <<a, b, c>> /\ <<a, b, c>>[3] = c
    BY <1>5, ThreeAreSent
  <2>2. stripe[s].status = "none" /\ Suffers("doubled", Going # {})
    BY <1>1 DEF Subscribe, Created
  <2> QED
    BY <1>3, <1>5, <2>1, <2>2, ThreeAreSent DEF Changes, Telling, s
<1>8. Bills(<<a, b, c>>)
  BY <1>5, ThreeAreSent DEF Bills, Subscribe
<1> QED
  BY <1>1, <1>2, <1>4, <1>6, <1>7, <1>8 DEF Acted, Subscribe

(* What is told of a payment, and the news of the subscription after it.   *)
LEMMA Followed ==
  ASSUME NEW told \in Seq(EventRow), NEW c \in EventRow
  PROVE  /\ told \o <<c>> \in Seq(EventRow) /\ Len(told) \in Nat
         /\ DOMAIN told = 1..Len(told)
         /\ DOMAIN (told \o <<c>>) = 1..(Len(told) + 1)
         /\ \A k \in 1..Len(told) : (told \o <<c>>)[k] = told[k]
         /\ (told \o <<c>>)[Len(told) + 1] = c
<1>1. <<c>> \in Seq(EventRow) /\ Len(<<c>>) = 1 /\ <<c>>[1] = c
  OBVIOUS
<1>2. Len(told) \in Nat /\ DOMAIN told = 1..Len(told)
  BY LenProperties
<1> QED
  BY <1>1, <1>2, ConcatProperties, LenProperties

LEMMA ToldOfPayment ==
  ASSUME BillingType, NEW s \in Subs, NEW result \in {"active", "past_due", "unpaid"},
         now' \in Nat
  PROVE  LET told == Invoiced(s, result) IN
         /\ told \in Seq(EventRow)
         /\ \A k \in DOMAIN told : /\ told[k].sub = s /\ told[k].at = now'
                                    /\ told[k].type = IF result = "active" THEN "paid" ELSE "failed"
         /\ result = "active" => Len(told) = scope.invoices
<1> DEFINE Of(type) == Event(type, s, "none", None, 0)
           told == Invoiced(s, result)
<1>1. \A type \in {"paid", "failed"} : /\ Of(type) \in EventRow /\ Of(type).type = type
                                       /\ Of(type).sub = s /\ Of(type).at = now'
  BY DEF Event, EventRow, Reading, Writing, Telling, RowStatus
<1> HIDE DEF Of
<1>2. CASE result # "active"
  <2>1. told = <<Of("failed")>>
    BY <1>2 DEF Invoiced, Of
  <2>2. told \in Seq(EventRow) /\ DOMAIN told = {1} /\ told[1] = Of("failed")
    BY <1>1, <2>1, OneIsSent
  <2> QED
    BY <1>1, <1>2, <2>2
<1>3. CASE result = "active"
  <2>0. scope.invoices \in Nat
    BY DEF BillingType
  <2>1. told = [i \in 1..scope.invoices |-> Of("paid")]
    BY <1>3 DEF Invoiced, Of
  <2>2. /\ told \in Seq(EventRow) /\ Len(told) = scope.invoices
        /\ DOMAIN told = 1..scope.invoices /\ \A k \in DOMAIN told : told[k] = Of("paid")
    BY <1>1, <2>0, <2>1
  <2> QED
    BY <1>1, <1>3, <2>2
<1> QED
  BY <1>2, <1>3

LEMMA RenewActs ==
  ASSUME BillingType, NEW s \in Subs, NEW result \in {"active", "past_due", "unpaid"},
         Renew(s, result)
  PROVE  \E new \in Seq(EventRow) : Acted(s, new)
<1> DEFINE told  == Invoiced(s, result)
           until == IF result = "active" THEN now' + Period ELSE stripe[s].until
           c     == Updated(s)
           new   == told \o <<c>>
           n     == Len(told)
<1>1. now' = now + 1 /\ now' \in Nat /\ until \in Nat /\ s \in Going
      /\ stripe[s].plan \in Plans \cup {None}
  BY BillingAssumption DEF BillingAssumption, Renew, Act, BillingType, StripeRow
<1>2. /\ told \in Seq(EventRow)
      /\ \A k \in DOMAIN told : /\ told[k].sub = s /\ told[k].at = now'
                                 /\ told[k].type = IF result = "active" THEN "paid" ELSE "failed"
      /\ result = "active" => n = scope.invoices
  BY <1>1, ToldOfPayment
<1>3. /\ Alter(s, result, stripe[s].plan, until) /\ events' = events \o new
      /\ UNCHANGED <<rows, acked, hook, faults, history>>
      /\ taken' = IF result = "active" THEN taken \cup {now'} ELSE taken
  BY DEF Renew, Emit
<1> HIDE DEF told, until
<1>4. /\ stripe' \in [Subs -> StripeRow] /\ \A o \in Subs \ {s} : stripe'[o] = stripe[o]
      /\ stripe'[s].status = result /\ stripe'[s].until = until
      /\ stripe'[s].plan = stripe[s].plan
  <2>1. result \in RowStatus /\ Alter(s, result, stripe[s].plan, until)
    BY <1>3 DEF RowStatus
  <2> HIDE DEF c, new, n
  <2> QED
    BY <1>1, <2>1, Altered
<1>5. /\ c \in EventRow /\ c.type = "updated" /\ c.sub = s /\ c.at = now'
      /\ c.status = result /\ c.until = until /\ c.plan = stripe[s].plan
  BY <1>1, <1>4 DEF Event, Updated, EventRow, Reading, Writing, Telling, RowStatus
<1> HIDE DEF c
<1>6. /\ new \in Seq(EventRow) /\ n \in Nat /\ DOMAIN new = 1..(n + 1)
      /\ \A k \in 1..n : /\ new[k].sub = s /\ new[k].at = now'
                          /\ new[k].type = IF result = "active" THEN "paid" ELSE "failed"
      /\ new[n + 1] = c
  BY <1>2, <1>5, Followed
<1> HIDE DEF new, n
<1>7. \A k \in DOMAIN new : k \in 1..n \/ k = n + 1
  BY <1>6
<1>8. /\ \A k \in DOMAIN new : new[k].sub = s /\ new[k].at = now' /\ WellSent(new[k], now')
      /\ \A k, l \in DOMAIN new : GoTogether(new, k, l)
  BY <1>1, <1>5, <1>6, <1>7 DEF GoTogether, WellSent, Telling
<1>9. Changes(s, new)
  <2>1. n + 1 \in DOMAIN new
    BY <1>6
  <2>2. \A k \in DOMAIN new : new[k].type # "refunded"
    BY <1>5, <1>6, <1>7
  <2> QED
    BY <1>1, <1>3, <1>4, <1>5, <1>6, <2>1, <2>2 DEF Changes, Telling, history
<1>10. Bills(new)
  <2>1. CASE result = "active"
    <3>1. {k \in DOMAIN new : new[k].type = "paid"} = 1..n
      BY <1>5, <1>6, <1>7, <2>1
    <3> QED
      BY <1>2, <1>3, <2>1, <3>1 DEF Bills, n
  <2>2. CASE result # "active"
    <3>1. \A k \in DOMAIN new : new[k].type # "paid"
      BY <1>5, <1>6, <1>7, <2>2
    <3> QED
      BY <1>3, <2>2, <3>1 DEF Bills
  <2> QED
    BY <2>1, <2>2
<1> QED
  BY <1>1, <1>3, <1>6, <1>8, <1>9, <1>10 DEF Acted, history

LEMMA OneActs ==
  ASSUME BillingType, NEW s \in Subs, s \in Going, NEW c \in EventRow,
         NEW status \in {"active", "past_due", "canceled"},
         NEW plan \in Plans \cup {None}, NEW until \in Nat,
         Alter(s, status, plan, until), Emit(<<c>>),
         c.sub = s, c.at = now', c.status = status, c.plan = plan, c.until = until,
         c.type = IF status = "canceled" THEN "deleted" ELSE "updated",
         now' = now + 1, UNCHANGED <<rows, taken, acked, hook, faults, history>>
  PROVE  \E new \in Seq(EventRow) : Acted(s, new)
<1>1. /\ stripe' \in [Subs -> StripeRow] /\ \A o \in Subs \ {s} : stripe'[o] = stripe[o]
      /\ stripe'[s].status = status /\ stripe'[s].until = until /\ stripe'[s].plan = plan
  <2>1. status \in RowStatus
    BY DEF RowStatus
  <2> QED
    BY <2>1, Altered
<1>2. events' = events \o <<c>> /\ mishaps' = mishaps /\ UNCHANGED cut
  BY DEF Emit, history
<1>3. /\ <<c>> \in Seq(EventRow)
      /\ \A k \in DOMAIN <<c>> : /\ <<c>>[k].sub = s /\ <<c>>[k].at = now'
                                 /\ WellSent(<<c>>[k], now')
      /\ \A k, l \in DOMAIN <<c>> : GoTogether(<<c>>, k, l)
  <2>1. now' \in Nat
    BY DEF BillingType
  <2> QED
    BY <2>1, OneIsSent DEF GoTogether, WellSent, Telling
<1>4. Changes(s, <<c>>)
  <2>1. 1 \in DOMAIN <<c>> /\ <<c>>[1] = c
    BY OneIsSent
  <2> QED
    BY <1>1, <1>2, <2>1, OneIsSent DEF Changes, Telling
<1>5. Bills(<<c>>)
  BY OneIsSent DEF Bills
<1> QED
  BY <1>2, <1>3, <1>4, <1>5 DEF Acted

LEMMA ChangePlanActs ==
  ASSUME BillingType, NEW s \in Subs, NEW plan \in Plans, ChangePlan(s, plan)
  PROVE  \E new \in Seq(EventRow) : Acted(s, new)
<1> DEFINE c == Updated(s)
<1>1. /\ now' = now + 1 /\ now' \in Nat /\ stripe[s].until \in Nat
      /\ stripe[s].status \in {"active", "past_due"} /\ s \in Going
  BY DEF ChangePlan, Act, BillingType, StripeRow, RowStatus, Paying, ALLOWED_SUB_STATUSES,
         Going, Created, DEAD_SUB_STATUSES
<1>2. /\ Alter(s, stripe[s].status, plan, stripe[s].until) /\ Emit(<<c>>)
      /\ UNCHANGED <<rows, taken, acked, hook, faults, history>>
  BY DEF ChangePlan
<1>3. /\ stripe' \in [Subs -> StripeRow] /\ stripe'[s].status = stripe[s].status
      /\ stripe'[s].until = stripe[s].until /\ stripe'[s].plan = plan
  BY <1>1, <1>2, Altered DEF RowStatus
<1>4. /\ c \in EventRow /\ c.type = "updated" /\ c.sub = s /\ c.at = now'
      /\ c.status = stripe[s].status /\ c.until = stripe[s].until /\ c.plan = plan
  BY <1>1, <1>3 DEF Event, Updated, EventRow, Reading, Writing, Telling, RowStatus
<1> HIDE DEF c
<1> QED
  BY <1>1, <1>2, <1>4, OneActs

LEMMA CancelActs ==
  ASSUME BillingType, NEW s \in Subs, Cancel(s)
  PROVE  \E new \in Seq(EventRow) : Acted(s, new)
<1> DEFINE c == Event("deleted", s, "canceled", stripe[s].plan, stripe[s].until)
<1>1. /\ now' = now + 1 /\ now' \in Nat /\ stripe[s].until \in Nat /\ s \in Going
      /\ stripe[s].plan \in Plans \cup {None}
  BY DEF Cancel, Act, BillingType, StripeRow
<1>2. /\ Alter(s, "canceled", stripe[s].plan, stripe[s].until) /\ Emit(<<c>>)
      /\ UNCHANGED <<rows, taken, acked, hook, faults, history>>
  BY DEF Cancel
<1>3. /\ c \in EventRow /\ c.type = "deleted" /\ c.sub = s /\ c.at = now'
      /\ c.status = "canceled" /\ c.until = stripe[s].until /\ c.plan = stripe[s].plan
  BY <1>1 DEF Event, EventRow, Reading, Writing, Telling, RowStatus
<1> HIDE DEF c
<1> QED
  BY <1>1, <1>2, <1>3, OneActs

LEMMA RefundActs ==
  ASSUME BillingType, NEW s \in Subs, Refund(s)
  PROVE  \E new \in Seq(EventRow) : Acted(s, new)
<1> DEFINE c == Event("refunded", s, "none", None, Refunds(s) + 1)
<1>1. now' = now + 1 /\ now' \in Nat
  BY DEF Refund, Act, BillingType
<1>2. Refunds(s) \in Nat
  <2>1. IsFiniteSet(DOMAIN events)
    BY LenProperties, FS_Interval DEF BillingType
  <2> QED
    BY <2>1, FS_Subset, FS_CardinalityType DEF Refunds
<1>3. /\ events' = events \o <<c>> /\ mishaps' = mishaps
      /\ UNCHANGED <<rows, taken, acked, hook, cut, stripe>> /\ s \in Created
  BY DEF Refund, Emit, history
<1>4. /\ c \in EventRow /\ c.type = "refunded" /\ c.sub = s /\ c.at = now'
      /\ c.until = Refunds(s) + 1
  BY <1>1, <1>2 DEF Event, EventRow, Reading, Writing, Telling, RowStatus
<1> HIDE DEF c
<1>5. /\ <<c>> \in Seq(EventRow)
      /\ \A k \in DOMAIN <<c>> : /\ <<c>>[k].sub = s /\ <<c>>[k].at = now'
                                 /\ WellSent(<<c>>[k], now') /\ <<c>>[k].type \notin Writing
      /\ \A k, l \in DOMAIN <<c>> : GoTogether(<<c>>, k, l)
  BY <1>1, <1>4, OneIsSent DEF GoTogether, WellSent, Telling, Writing
<1>6. Repays(s, <<c>>)
  BY <1>3, <1>4, <1>5 DEF Repays
<1>7. Bills(<<c>>)
  BY <1>3, <1>4, OneIsSent DEF Bills
<1> QED
  BY <1>1, <1>3, <1>5, <1>6, <1>7 DEF Acted

LEMMA AnActIsActed ==
  ASSUME BillingType, StripeOK, StripeActs
  PROVE  \E s \in Subs : \E new \in Seq(EventRow) : Acted(s, new)
  BY SubscribeActs, RenewActs, ChangePlanActs, CancelActs, RefundActs DEF StripeActs

LEMMA EventsAreRows ==
  ASSUME NEW es \in Seq(EventRow)
  PROVE  /\ \A n \in DOMAIN es : es[n] \in EventRow /\ es[n].at \in Nat
         /\ DOMAIN es = 1..Len(es) /\ Len(es) \in Nat
<1>1. DOMAIN es = 1..Len(es) /\ Len(es) \in Nat
  BY LenProperties
<1>2. \A n \in DOMAIN es : es[n] \in EventRow
  BY <1>1, ElementOfSeq
<1> QED
  BY <1>1, <1>2 DEF EventRow

(* What an act leaves of the events that were there, and what it adds.     *)
LEMMA ActEvents ==
  ASSUME BillingType, EventsOK, NEW s, NEW new, Acted(s, new)
  PROVE  /\ events' \in Seq(EventRow) /\ DOMAIN events \subseteq DOMAIN events'
         /\ \A n \in DOMAIN events : /\ events'[n] = events[n] /\ events[n].at <= now
                                      /\ events[n].at \in Nat
         /\ \A n \in DOMAIN events' \ DOMAIN events :
              \E k \in DOMAIN new : n = Len(events) + k /\ events'[n] = new[k]
         /\ \A k \in DOMAIN new : /\ Len(events) + k \in DOMAIN events' \ DOMAIN events
                                  /\ events'[Len(events) + k] = new[k]
         /\ \A k \in DOMAIN new : new[k].at = now + 1 /\ new[k].sub = s
         /\ now \in Nat /\ now' = now + 1
  BY Appended, EventsAreRows DEF BillingType, EventsOK, WellSent, Acted

LEMMA ActType ==
  ASSUME BillingType, EventsOK, NEW s, NEW new, Acted(s, new)
  PROVE  BillingType'
<1>1. stripe' \in [Subs -> StripeRow]
  BY DEF Acted, Repays, Changes, BillingType
<1> QED
  BY <1>1, ActEvents DEF BillingType, Acted, rows, AtPc

LEMMA ActEventsOK ==
  ASSUME BillingType, EventsOK, NEW s, NEW new, Acted(s, new)
  PROVE  EventsOK'
<1>1. ASSUME NEW n \in DOMAIN events' PROVE WellSent(events'[n], now')
  <2>1. CASE n \in DOMAIN events
    <3>1. WellSent(events[n], now) /\ events[n].at \in Nat
      BY <2>1, ActEvents DEF EventsOK
    <3> QED
      BY <2>1, <3>1, ActEvents DEF WellSent
  <2>2. CASE n \notin DOMAIN events
    BY <1>1, <2>2, ActEvents DEF Acted
  <2> QED
    BY <2>1, <2>2
<1>2. ASSUME NEW m \in DOMAIN events', NEW n \in DOMAIN events' PROVE OneAct(m, n)'
  <2>1. CASE m \in DOMAIN events /\ n \in DOMAIN events
    BY <2>1, ActEvents DEF EventsOK, OneAct
  <2>2. ASSUME NEW i \in DOMAIN events, NEW j \in DOMAIN events' \ DOMAIN events
        PROVE  events'[i].at # events'[j].at
    BY ActEvents
  <2>3. CASE m \notin DOMAIN events /\ n \notin DOMAIN events
    <3>1. PICK k \in DOMAIN new : m = Len(events) + k /\ events'[m] = new[k]
      BY <1>2, <2>3, ActEvents
    <3>2. PICK l \in DOMAIN new : n = Len(events) + l /\ events'[n] = new[l]
      BY <1>2, <2>3, ActEvents
    <3>3. GoTogether(new, k, l)
      BY DEF Acted
    <3> QED
      BY <3>1, <3>2, <3>3 DEF GoTogether, OneAct
  <2> QED
    BY <1>2, <2>1, <2>2, <2>3 DEF OneAct
<1> QED
  BY <1>1, <1>2 DEF EventsOK

(* The last event after an act that changes a subscription is the act's.   *)
LEMMA ActIsLatest ==
  ASSUME BillingType, EventsOK, NEW s, NEW new, Acted(s, new), Changes(s, new)
  PROVE  /\ \E n \in DOMAIN events' : Latest(n)'
         /\ \A n \in DOMAIN events' : Latest(n)' =>
              /\ n \notin DOMAIN events /\ events'[n].sub = s
              /\ events'[n].status = stripe'[s].status
              /\ events'[n].plan = stripe'[s].plan /\ events'[n].until = stripe'[s].until
<1>1. PICK k \in DOMAIN new :
        /\ new[k].type \in Telling /\ new[k].status = stripe'[s].status
        /\ new[k].plan = stripe'[s].plan /\ new[k].until = stripe'[s].until
  BY DEF Changes
<1>2. PICK n0 \in DOMAIN events' \ DOMAIN events :
        n0 = Len(events) + k /\ events'[n0] = new[k]
  BY <1>1, ActEvents
<1>3. \A m \in DOMAIN events' : events'[m].at \in Nat /\ events'[m].at <= now + 1
  BY ActEvents
<1>4. Latest(n0)'
  BY <1>1, <1>2, <1>3, ActEvents DEF Latest
<1>5. ASSUME NEW n \in DOMAIN events', Latest(n)' PROVE n = n0
  <2>1. events'[n].at >= now + 1
    BY <1>1, <1>2, <1>5, ActEvents DEF Latest, Writing
  <2>2. n \notin DOMAIN events
    BY <1>3, <2>1, ActEvents
  <2>3. PICK l \in DOMAIN new : n = Len(events) + l /\ events'[n] = new[l]
    BY <2>2, ActEvents
  <2>4. new[l].type \in Telling /\ GoTogether(new, k, l)
    BY <1>5, <2>3 DEF Latest, Acted, Repays
  <2> QED
    BY <1>1, <1>2, <2>3, <2>4 DEF GoTogether
<1> QED
  BY <1>1, <1>2, <1>4, <1>5, ActEvents

(* The last event is as before when nothing was written that tells.        *)
LEMMA ActKeepsLatest ==
  ASSUME BillingType, EventsOK, NEW s, NEW new, Acted(s, new),
         \A k \in DOMAIN new : new[k].type \notin Writing
  PROVE  \A n : Latest(n)' <=> Latest(n)
<1>1. \A n \in DOMAIN events' \ DOMAIN events : events'[n].type \notin Writing
  BY ActEvents
<1> QED
  BY <1>1, ActEvents DEF Latest, Writing

LEMMA ActStripeOK ==
  ASSUME BillingType, EventsOK, StripeOK, NEW s, NEW new, Acted(s, new)
  PROVE  StripeOK'
<1> DEFINE c == Cardinality(Created)
<1>c. c \in Nat /\ IsFiniteSet(Created) /\ s \in Subs
  BY CountCreated DEF Acted
<1>1. CASE Repays(s, new)
  <2>0. UNCHANGED <<stripe, mishaps>> /\ \A k \in DOMAIN new : new[k].type \notin Writing
    BY <1>1 DEF Repays
  <2>1. Created' = Created /\ Going' = Going /\ Newest' = Newest
    BY <2>0 DEF Created, Going, Newest
  <2>2. \A n : Latest(n)' <=> Latest(n)
    BY <2>0, ActKeepsLatest
  <2>3. \A n : Latest(n) =>
          n \in DOMAIN events /\ n \in DOMAIN events' /\ events'[n] = events[n]
    BY ActEvents DEF Latest
  <2> QED
    BY <2>0, <2>1, <2>2, <2>3 DEF StripeOK
<1>2. CASE Changes(s, new) /\ s \in Going /\ mishaps' = mishaps
  <2>1. Created' = Created /\ Going' \subseteq Going
    BY <1>2 DEF Changes, Created, Going
  <2>2. ASSUME "doubled" \notin mishaps
        PROVE  s = c /\ Going' \subseteq {c}
    BY <1>2, <2>1, <2>2 DEF StripeOK
  <2> HIDE DEF c
  <2>3. Created' # {} /\ Cardinality(Created)' = c /\ Created' = 1..c
    BY <1>2, <2>1 DEF Going, StripeOK, c
  <2>4. "doubled" \notin mishaps => Newest' = stripe'[s]
    BY <2>2, <2>3 DEF Newest
  <2> QED
    BY <1>2, <2>2, <2>3, <2>4, ActIsLatest DEF StripeOK
<1>3. CASE /\ Changes(s, new) /\ s = c + 1 /\ stripe[s].status = "none"
           /\ Suffers("doubled", Going # {})
  <2>1. Created' = Created \cup {s} /\ s \notin Created /\ Going' \subseteq Going \cup {s}
    BY <1>3, <1>c DEF Changes, Created, Going
  <2>2. Cardinality(Created') = c + 1
    BY <1>c, <2>1, FS_AddElement
  <2>3. Created' = 1..(c + 1)
    <3>1. Created = 1..c
      BY DEF StripeOK
    <3> HIDE DEF c
    <3> QED
      BY <1>3, <1>c, <2>1, <3>1
  <2>4. "doubled" \notin mishaps' => Going = {} /\ "doubled" \notin mishaps
    BY <1>3 DEF Suffers
  <2>5. Cardinality(Created)' = s /\ Newest' = stripe'[s]
    BY <1>3, <2>2 DEF Newest
  <2> QED
    BY <1>3, <2>1, <2>3, <2>4, <2>5, ActIsLatest DEF StripeOK
<1> QED
  BY <1>1, <1>2, <1>3 DEF Acted, Changes

LEMMA ActRowOK ==
  ASSUME BillingType, EventsOK, RowOK, NEW s, NEW new, Acted(s, new)
  PROVE  RowOK'
<1>1. /\ tenant' = tenant /\ hook' = hook /\ acked' = acked
      /\ mishaps' = mishaps \/ mishaps' = mishaps \cup {"doubled"}
  BY DEF Acted, Repays, rows, Changes, Suffers
<1>2. \A h \in Hooks : ~ AtPc(h, "idle") =>
        hook[h].event \in DOMAIN events /\ Ev(h)' = Ev(h)
  BY <1>1, ActEvents DEF BillingType, Ev
<1>3. tenant'.lastAt # 0 => \E n \in DOMAIN events' :
        events'[n].type \in Writing /\ events'[n].at = tenant'.lastAt
  BY <1>1, ActEvents DEF RowOK
<1>4. FreshRows'
  <2>1. "overlapped" \notin mishaps' => "overlapped" \notin mishaps
    BY <1>1
  <2>2. \A h \in Hooks : AtPc(h, "write")' => AtPc(h, "write") /\ ~ AtPc(h, "idle")
    BY <1>1 DEF AtPc
  <2> QED
    BY <1>1, <1>2, <2>1, <2>2 DEF FreshRows, RowOK, ReadsRow
<1>5. ASSUME mishaps' \subseteq {"softened"}, NEW n \in DOMAIN events', Latest(n)', Told(n)',
             (events'[n].status = "unpaid" => mishaps' = {})
      PROVE  Shows(events[n])'
  <2>1. mishaps' = mishaps
    BY <1>1, <1>5
  <2>2. Told(n) /\ n \in DOMAIN events
    BY <1>1, <1>2, <1>5 DEF Told, AtRecord, AtPc, BillingType
  <2>3. ~ Changes(s, new)
    BY <1>5, <2>2, ActIsLatest
  <2>4. Latest(n)
    BY <1>5, <2>3, ActKeepsLatest DEF Acted, Repays
  <2>5. Shows(events[n])
    BY <1>5, <2>1, <2>2, <2>4, ActEvents DEF RowOK
  <2> QED
    BY <1>1, <2>2, <2>5, ActEvents DEF Shows
<1> QED
  BY <1>3, <1>4, <1>5 DEF RowOK

LEMMA LastAtIsPast ==
  ASSUME BillingType, EventsOK, RowOK
  PROVE  tenant.lastAt \in Nat /\ tenant.lastAt <= now
  BY DEF BillingType, EventsOK, RowOK, WellSent, TenantRow

LEMMA ActLedgerOK ==
  ASSUME BillingType, EventsOK, RowOK, LedgerOK, NEW s, NEW new, Acted(s, new)
  PROVE  LedgerOK'
<1>1. /\ tenant' = tenant /\ hook' = hook /\ acked' = acked /\ ledger' = ledger /\ cut' = cut
      /\ mishaps' = mishaps \/ mishaps' = mishaps \cup {"doubled"}
  BY DEF Acted, Repays, rows, Changes, Suffers
<1>2. \A n : Accounted(n)' <=> Accounted(n)
  BY <1>1 DEF Accounted, Entries, AtRecord, AtPc
<1>3. \A n \in DOMAIN events' \ DOMAIN events :
        events'[n].at # tenant'.lastAt /\ n \notin acked'
  BY <1>1, ActEvents, LastAtIsPast DEF BillingType
<1> QED
  BY <1>1, <1>2, <1>3, ActEvents DEF LedgerOK

LEMMA ActKeeps ==
  ASSUME BillingInv, StripeActs
  PROVE  BillingInv'
<1>1. PICK s \in Subs : \E new \in Seq(EventRow) : Acted(s, new)
  BY AnActIsActed DEF BillingInv
<1>2. PICK new \in Seq(EventRow) : Acted(s, new)
  BY <1>1
<1> QED
  BY <1>2, ActType, ActEventsOK, ActStripeOK, ActRowOK, ActLedgerOK DEF BillingInv

-----------------------------------------------------------------------------
(* A step of a request                                                     *)

(* What every step of request h does and does not.                         *)
Touches(h) ==
  /\ UNCHANGED <<scope, now, events, stripe>>
  /\ hook' \in [Hooks -> HookRow] /\ \A g \in Hooks \ {h} : hook'[g] = hook[g]
  /\ AtPc(h, "idle")' \/ hook'[h].event \in DOMAIN events
  /\ AtPc(h, "write")' /\ ReadsRow(h)' => hook'[h].row = tenant'
  /\ tenant' \in TenantRow /\ acked' \subseteq DOMAIN events
  /\ tenant' # tenant /\ Crossed(h) => "overlapped" \in mishaps'
  /\ mishaps \subseteq mishaps' /\ cut \subseteq cut' /\ ledger \subseteq ledger'

(* A step that leaves the row alone, and nothing untold or unaccounted.    *)
Passes(h) ==
  /\ Touches(h) /\ tenant' = tenant
  /\ \A m \in DOMAIN events : events[m].type \in Telling =>
       /\ Told(m)' => Told(m)
       /\ Accounted(m) => Accounted(m)'
       /\ m \in acked' => m \in acked \/ Accounted(m)'

(* Request h moves on with its event, or is through with it.               *)
Records(h) ==
  /\ hook' \in [Hooks -> HookRow] /\ \A g \in Hooks \ {h} : hook'[g] = hook[g]
  /\ AtPc(h, "record")' /\ hook'[h].event = hook[h].event /\ acked' = acked

Rests(h) ==
  /\ hook' \in [Hooks -> HookRow] /\ \A g \in Hooks \ {h} : hook'[g] = hook[g]
  /\ AtPc(h, "idle")'

LEMMA HookAtRecord ==
  ASSUME NEW x \in HookRow, NEW w \in TenantRow \cup {None} \cup [plan : Plans \cup {None}]
  PROVE  /\ [x EXCEPT !.pc = "record", !.row = w] \in HookRow
         /\ [x EXCEPT !.pc = "record", !.row = w].pc = "record"
         /\ [x EXCEPT !.pc = "record", !.row = w].event = x.event
  BY DEF HookRow

LEMMA OnItGoes ==
  ASSUME BillingType, NEW h \in Hooks, GoesOn(h), acked' = acked
  PROVE  Records(h)
<1> DEFINE w == IF hook[h].row = None THEN None ELSE [plan |-> hook[h].row.plan]
<1>1. hook[h] \in HookRow /\ hook \in [Hooks -> HookRow]
  BY DEF BillingType
<1>2. w \in TenantRow \cup {None} \cup [plan : Plans \cup {None}]
  BY <1>1 DEF HookRow, TenantRow
<1>3. hook' = [hook EXCEPT ![h] = [hook[h] EXCEPT !.pc = "record", !.row = w]]
  BY <1>1 DEF GoesOn, HookRow
<1> HIDE DEF w
<1>4. hook'[h] = [hook[h] EXCEPT !.pc = "record", !.row = w]
  BY <1>1, <1>3
<1> QED
  BY <1>1, <1>2, <1>3, <1>4, HookAtRecord DEF Records, AtPc

LEMMA ItRests ==
  ASSUME BillingType, NEW h \in Hooks, hook' = [hook EXCEPT ![h] = IdleHook]
  PROVE  Rests(h)
<1>1. IdleHook \in HookRow /\ IdleHook.pc = "idle"
  BY DEF IdleHook, HookRow
<1> QED
  BY <1>1 DEF Rests, AtPc, BillingType

(* Who is at the ledger after a step.                                      *)
LEMMA AtRecordAfter ==
  ASSUME BillingType, NEW h \in Hooks, NEW m
  PROVE  /\ Records(h) => (AtRecord(m)' <=> AtRecord(m) \/ m = hook[h].event)
         /\ Rests(h) /\ ~ AtPc(h, "record") => (AtRecord(m)' <=> AtRecord(m))
         /\ Rests(h) /\ m # hook[h].event => (AtRecord(m)' <=> AtRecord(m))
         /\ Rests(h) => (AtRecord(m)' => AtRecord(m))
  BY DEF Records, Rests, AtRecord, AtPc

LEMMA TouchKeeps ==
  ASSUME BillingType, EventsOK, StripeOK, RowOK, NEW h \in Hooks, Touches(h)
  PROVE  BillingType' /\ EventsOK' /\ StripeOK' /\ FreshRows'
<1>1. BillingType'
  BY DEF BillingType, Touches, AtPc
<1>2. EventsOK'
  BY DEF EventsOK, Touches, OneAct
<1>3. StripeOK'
  <2>1. /\ Created' = Created /\ Going' = Going /\ Newest' = Newest
        /\ \A n : Latest(n)' <=> Latest(n)
    BY DEF Touches, Created, Going, Newest, Latest
  <2>2. "doubled" \notin mishaps' => "doubled" \notin mishaps
    BY DEF Touches
  <2> QED
    BY <2>1, <2>2 DEF StripeOK, Touches
<1>4. ASSUME "overlapped" \notin mishaps', NEW g \in Hooks, AtPc(g, "write")', ReadsRow(g)'
      PROVE  hook'[g].row = tenant'
  <2>1. CASE g = h
    BY <1>4, <2>1 DEF Touches
  <2>2. CASE g # h
    <3>1. hook'[g] = hook[g] /\ AtPc(g, "write") /\ ReadsRow(g)
      BY <1>4, <2>2 DEF Touches, AtPc, ReadsRow, Ev
    <3>2. hook[g].row = tenant
      BY <1>4, <3>1 DEF RowOK, FreshRows, Touches
    <3>3. Crossed(h)
      BY <2>2, <3>1 DEF Crossed, ReadsRow
    <3> QED
      BY <1>4, <3>1, <3>2, <3>3 DEF Touches
  <2> QED
    BY <2>1, <2>2
<1> QED
  BY <1>1, <1>2, <1>3, <1>4 DEF FreshRows

LEMMA PassKeeps ==
  ASSUME BillingInv, NEW h \in Hooks, Passes(h)
  PROVE  BillingInv'
<1>1. Touches(h) /\ tenant' = tenant /\ events' = events /\ mishaps \subseteq mishaps'
      /\ \A n : Latest(n)' <=> Latest(n)
  BY DEF Passes, Touches, Latest
<1>2. BillingType' /\ EventsOK' /\ StripeOK' /\ FreshRows'
  BY <1>1, TouchKeeps DEF BillingInv
<1>3. \A n \in DOMAIN events : Shows(events[n])' <=> Shows(events[n])
  BY <1>1 DEF Shows
<1>4. mishaps' \subseteq {"softened"} => mishaps \subseteq {"softened"}
  BY <1>1
<1>5. mishaps' = {} => mishaps = {}
  BY <1>1
<1>6. \A n \in DOMAIN events : Latest(n) /\ Told(n)' => Told(n)
  BY DEF Passes, Latest
<1>7. RowOK'
  BY <1>1, <1>2, <1>3, <1>4, <1>5, <1>6 DEF RowOK, BillingInv
<1>8. mishaps' \cap {"overlapped", "softened"} = {} =>
        mishaps \cap {"overlapped", "softened"} = {}
  BY <1>1
<1>9. LedgerOK'
  BY <1>1, <1>8 DEF LedgerOK, BillingInv, Passes, Telling
<1> QED
  BY <1>2, <1>7, <1>9 DEF BillingInv

(* What is entered stays, and an event that is entered is accounted for.   *)
LEMMA EnteredKeeps ==
  ASSUME NEW key, NEW type, NEW amount
  PROVE  /\ ledger \subseteq Entered(key, type, amount)
         /\ \E e \in Entered(key, type, amount) : e.key = key
<1> DEFINE e0 == [key |-> key, type |-> type, amount |-> amount]
<1>1. CASE \E e \in ledger : e.key = key
  BY <1>1 DEF Entered
<1>2. CASE ~ \E e \in ledger : e.key = key
  <2>1. Entered(key, type, amount) = ledger \cup {e0} /\ e0.key = key
    BY <1>2 DEF Entered
  <2> QED
    BY <2>1
<1> QED
  BY <1>1, <1>2

LEMMA MoreIsAccounted ==
  ASSUME NEW m, ledger \subseteq ledger', cut \subseteq cut', AtRecord(m) => AtRecord(m)',
         Accounted(m)
  PROVE  Accounted(m)'
  BY DEF Accounted, Entries

LEMMA DeliverPasses ==
  ASSUME BillingInv, NEW h \in Hooks, NEW n \in DOMAIN events, Deliver(h, n)
  PROVE  Passes(h)
<1> DEFINE w == IF events[n].type \in {"completed", "refunded"} THEN None ELSE tenant
           r == [pc |-> "write", event |-> n, row |-> w]
<1>0. BillingType /\ hook \in [Hooks -> HookRow]
  BY DEF BillingInv, BillingType
<1>1. r \in HookRow
  <2>1. w \in TenantRow \cup {None} /\ n \in Nat
    BY <1>0, LenProperties DEF BillingType
  <2> QED
    BY <2>1 DEF HookRow
<1>2. /\ hook' = [hook EXCEPT ![h] = r] /\ hook[h].pc = "idle"
      /\ UNCHANGED <<now, rows, atStripe, acked, history>>
  BY DEF Deliver, AtPc
<1>3. /\ r.pc = "write" /\ r.event = n
      /\ events[n].type \notin {"completed", "refunded"} => r.row = tenant
  OBVIOUS
<1> HIDE DEF r, w
<1>4. hook'[h] = r /\ hook' \in [Hooks -> HookRow] /\ \A g \in Hooks \ {h} : hook'[g] = hook[g]
  BY <1>0, <1>1, <1>2
<1>5. \A m : AtRecord(m)' <=> AtRecord(m)
  BY <1>2, <1>3, <1>4 DEF AtRecord, AtPc
<1>6. /\ UNCHANGED <<scope, now, events, stripe, tenant, acked, mishaps, cut, ledger>>
  BY <1>2 DEF rows, atStripe, history
<1>7. Touches(h)
  BY <1>0, <1>3, <1>4, <1>6 DEF Touches, AtPc, ReadsRow, Ev, BillingType
<1>8. \A m : (Told(m)' => Told(m)) /\ (Accounted(m) => Accounted(m)')
  BY <1>5, <1>6 DEF Told, Accounted, Entries
<1> QED
  BY <1>6, <1>7, <1>8 DEF Passes

LEMMA FailPasses ==
  ASSUME BillingInv, NEW h \in Hooks, HookFails(h)
  PROVE  Passes(h)
<1>0. BillingType
  BY DEF BillingInv
<1>1. Rests(h)
  BY <1>0, ItRests DEF HookFails
<1>2. UNCHANGED <<scope, now, events, stripe, tenant, acked, mishaps, ledger>> /\ cut \subseteq cut'
  BY DEF HookFails, rows, atStripe
<1>3. Touches(h)
  BY <1>0, <1>1, <1>2 DEF Touches, Rests, AtPc, BillingType
<1>4. \A m : Told(m)' => Told(m)
  BY <1>0, <1>1, <1>2, AtRecordAfter DEF Told
<1>5. \A m : Accounted(m) => Accounted(m)'
  <2>1. CASE AtPc(h, "record")
    <3>1. hook[h].event \in cut'
      BY <2>1 DEF HookFails
    <3> QED
      BY <1>0, <1>1, <1>2, <3>1, AtRecordAfter DEF Accounted, Entries
  <2>2. CASE ~ AtPc(h, "record")
    BY <1>0, <1>1, <1>2, <2>2, AtRecordAfter DEF Accounted, Entries
  <2> QED
    BY <2>1, <2>2
<1> QED
  BY <1>2, <1>3, <1>4, <1>5 DEF Passes

(* The ledger of an event, and the answer: what it is answered with is in  *)
(* the ledger, or lost with notice.                                        *)
LEMMA AnswerPasses ==
  ASSUME BillingInv, NEW h \in Hooks, ~ AtPc(h, "idle"), Answers(h),
         NEW n, n = hook[h].event, UNCHANGED <<scope, now, events, stripe, tenant>>,
         mishaps \subseteq mishaps', cut \subseteq cut', ledger \subseteq ledger',
         \/ AtPc(h, "record") /\ (Entries(n)' # {} \/ n \in cut')
         \/ Ev(h).type \notin Telling
  PROVE  Passes(h)
<1>0. BillingType /\ n \in DOMAIN events
  BY DEF BillingInv, BillingType
<1>1. Rests(h) /\ acked' = acked \cup {n}
  BY <1>0, ItRests DEF Answers
<1>2. Touches(h)
  BY <1>0, <1>1 DEF Touches, Rests, AtPc, BillingType
<1>3. ASSUME NEW m \in DOMAIN events, events[m].type \in Telling
      PROVE  /\ Told(m)' => Told(m)
             /\ Accounted(m) => Accounted(m)'
             /\ m \in acked' => m \in acked \/ Accounted(m)'
  <2>1. CASE m = n
    <3>1. AtPc(h, "record") /\ (Entries(n)' # {} \/ n \in cut')
      BY <1>3, <2>1 DEF Ev
    <3> QED
      BY <1>0, <2>1, <3>1 DEF Told, AtRecord, Accounted
  <2>2. CASE m # n
    BY <1>0, <1>1, <2>2, AtRecordAfter, MoreIsAccounted DEF Told
  <2> QED
    BY <2>1, <2>2
<1> QED
  BY <1>2, <1>3 DEF Passes

LEMMA EntersKeeps ==
  ASSUME NEW h \in Hooks, NEW kept \in BOOLEAN, NEW new, ledger \subseteq new,
         NEW n, n = hook[h].event, Enters(h, new, kept)
  PROVE  /\ ledger \subseteq ledger' /\ cut \subseteq cut'
         /\ (\E e \in new : e.key = Key(h)) =>
              Entries(n)' # {} \/ n \in cut'
<1>1. CASE kept
  BY <1>1 DEF Enters, Entries, Key
<1>2. CASE ~ kept
  BY <1>2 DEF Enters
<1> QED
  BY <1>1, <1>2

LEMMA RecordPasses ==
  ASSUME BillingInv, NEW h \in Hooks, NEW kept \in BOOLEAN,
         \/ SyncRecord(h, kept) \/ InvoicePaid(h, kept)
         \/ InvoiceFailedRecord(h, kept) \/ ChargeRefunded(h, kept)
  PROVE  Passes(h)
<1>1. CASE SyncRecord(h, kept)
  <2> DEFINE new == Entered(Key(h), LedgerType(hook[h].row, Ev(h)), 0)
  <2>1. Enters(h, new, kept) /\ ledger \subseteq new /\ \E e \in new : e.key = Key(h)
    BY <1>1, EnteredKeeps DEF SyncRecord
  <2> HIDE DEF new
  <2>2. PICK n : n = hook[h].event
    OBVIOUS
  <2>3. ledger \subseteq ledger' /\ cut \subseteq cut' /\ (Entries(n)' # {} \/ n \in cut')
    BY <2>1, <2>2, EntersKeeps
  <2> QED
    BY <1>1, <2>2, <2>3, AnswerPasses DEF SyncRecord, AtPc, atStripe
<1>2. CASE InvoicePaid(h, kept)
  <2> DEFINE new == Entered(Key(h), "PAYMENT_SUCCEEDED", 1)
  <2>1. Enters(h, new, kept) /\ ledger \subseteq new
    BY <1>2, EnteredKeeps DEF InvoicePaid
  <2> HIDE DEF new
  <2>2. ledger \subseteq ledger' /\ cut \subseteq cut'
    BY <2>1, EntersKeeps
  <2> QED
    BY <1>2, <2>2, AnswerPasses DEF InvoicePaid, AtPc, atStripe, Telling
<1>3. CASE InvoiceFailedRecord(h, kept)
  <2> DEFINE new == Entered(Key(h), "PAYMENT_FAILED", 0)
  <2>1. Enters(h, new, kept) /\ ledger \subseteq new
    BY <1>3, EnteredKeeps DEF InvoiceFailedRecord
  <2> HIDE DEF new
  <2>2. ledger \subseteq ledger' /\ cut \subseteq cut'
    BY <2>1, EntersKeeps
  <2> QED
    BY <1>3, <2>2, AnswerPasses DEF InvoiceFailedRecord, AtPc, atStripe, Telling
<1>4. CASE ChargeRefunded(h, kept)
  <2> DEFINE new == ledger \cup RefundRows(Ev(h))
  <2>1. Enters(h, new, kept) /\ ledger \subseteq new
    BY <1>4 DEF ChargeRefunded
  <2> HIDE DEF new
  <2>2. ledger \subseteq ledger' /\ cut \subseteq cut'
    BY <2>1, EntersKeeps
  <2> QED
    BY <1>4, <2>2, AnswerPasses DEF ChargeRefunded, AtPc, atStripe, Telling
<1> QED
  BY <1>1, <1>2, <1>3, <1>4

(* The steps that write the row, or answer an event it does not take, are  *)
(* judged on what the row shows and what the ledger has after them.        *)
LEMMA TouchIsJudged ==
  ASSUME BillingInv, NEW h \in Hooks, Touches(h),
         tenant'.lastAt = tenant.lastAt
           \/ \E n \in DOMAIN events :
                events[n].type \in Writing /\ events[n].at = tenant'.lastAt,
         \A m \in DOMAIN events :
           /\ mishaps' \subseteq {"softened"} /\ Latest(m) /\ Told(m)'
           /\ events[m].status = "unpaid" => mishaps' = {}
           => Shows(events[m])',
         \A m \in DOMAIN events : mishaps' \cap {"overlapped", "softened"} = {} =>
           /\ events[m].type = "deleted" /\ events[m].at = tenant'.lastAt => Accounted(m)'
           /\ events[m].type = "updated" /\ m \in acked' =>
                Accounted(m)' \/ events[m].at < tenant'.lastAt
  PROVE  BillingInv'
<1>1. events' = events /\ \A n : Latest(n)' <=> Latest(n)
  BY DEF Touches, Latest
<1>2. BillingType' /\ EventsOK' /\ StripeOK' /\ FreshRows'
  BY TouchKeeps DEF BillingInv
<1>3. RowOK'
  BY <1>1, <1>2 DEF RowOK, BillingInv
<1>4. LedgerOK'
  BY <1>1 DEF LedgerOK
<1> QED
  BY <1>2, <1>3, <1>4 DEF BillingInv

(* The facts about the event in hand and the last one that tells.          *)
LEMMA InHand ==
  ASSUME BillingInv, NEW h \in Hooks, ~ AtPc(h, "idle")
  PROVE  /\ hook[h].event \in DOMAIN events /\ Ev(h) \in EventRow /\ Ev(h).at \in Nat
         /\ WellSent(Ev(h), now) /\ tenant \in TenantRow /\ tenant.lastAt \in Nat
         /\ "overlapped" \notin mishaps /\ AtPc(h, "write") /\ ReadsRow(h)
              => hook[h].row = tenant
         /\ \A m \in DOMAIN events :
              /\ events[m] \in EventRow /\ events[m].at \in Nat /\ WellSent(events[m], now)
              /\ OneAct(m, hook[h].event) /\ OneAct(hook[h].event, m)
              /\ Latest(m) => /\ tenant.lastAt <= events[m].at
                              /\ Ev(h).type \in Writing => Ev(h).at <= events[m].at
<1>1. BillingType /\ EventsOK /\ FreshRows /\ hook[h].event \in DOMAIN events
  BY DEF BillingInv, BillingType, RowOK
<1>2. \A m \in DOMAIN events : events[m] \in EventRow /\ events[m].at \in Nat
  BY <1>1, EventsAreRows DEF BillingType
<1>3. tenant \in TenantRow /\ tenant.lastAt \in Nat
  BY <1>1 DEF BillingType, TenantRow
<1>4. ASSUME NEW m \in DOMAIN events, Latest(m)
      PROVE  /\ tenant.lastAt <= events[m].at
             /\ Ev(h).type \in Writing => Ev(h).at <= events[m].at
  <2>1. tenant.lastAt = 0 \/ tenant.lastAt <= events[m].at
    BY <1>4 DEF BillingInv, RowOK, Latest
  <2> QED
    BY <1>1, <1>2, <1>4, <2>1 DEF Latest, Ev
<1> QED
  BY <1>1, <1>2, <1>3, <1>4 DEF EventsOK, FreshRows, Ev

(* An event that does not apply and is answered: of the last one only the  *)
(* softened end, and of one that does not come too late for the row.       *)
LEMMA UnappliedIsTold ==
  ASSUME BillingInv, NEW h \in Hooks, AtPc(h, "write"),
         Ev(h).type \in {"created", "updated", "deleted"}, ~ Applies(hook[h].row, Ev(h)),
         "overlapped" \notin mishaps
  PROVE  /\ Ev(h).type = "updated" => Ev(h).at < tenant.lastAt \/ Ev(h).status = "unpaid"
         /\ Latest(hook[h].event) => \/ Superseded(tenant, Ev(h))
                                    \/ Ev(h).status = "unpaid"
<1> DEFINE e == Ev(h)
<1>1. hook[h].row = tenant /\ e.at \in Nat /\ tenant.lastAt \in Nat /\ WellSent(e, now)
  BY InHand DEF ReadsRow, AtPc
<1>2. IsStaleEvent(tenant, e) <=> e.at < tenant.lastAt
  BY DEF IsStaleEvent
<1>3. e.type = "updated" => ~ Superseded(tenant, e)
  BY DEF Superseded
<1>4. e.type \in Telling /\ IsRegressiveSameSecond(tenant, e) /\ e.type # "deleted"
        => e.status = "unpaid"
  BY <1>1 DEF IsRegressiveSameSecond, WellSent, Telling, ALLOWED_SUB_STATUSES
<1>5. Latest(hook[h].event) => ~ IsStaleEvent(tenant, e) /\ e.type \in Telling
  BY <1>1, InHand DEF IsStaleEvent, Latest, Ev, AtPc
<1> HIDE DEF e
<1> QED
  BY <1>1, <1>2, <1>3, <1>4, <1>5 DEF Applies, Telling, e

LEMMA UnappliedKeeps ==
  ASSUME BillingInv, NEW h \in Hooks, SyncWrite(h), ~ Applies(hook[h].row, Ev(h))
  PROVE  BillingInv'
<1> DEFINE e == Ev(h)
<1>0. BillingType /\ AtPc(h, "write") /\ ~ AtPc(h, "idle") /\ ~ AtPc(h, "record")
  BY DEF BillingInv, SyncWrite, AtPc
<1>1. /\ Answers(h) /\ UNCHANGED <<scope, now, events, stripe, tenant, ledger, cut>>
      /\ mishaps' = mishaps \cup {m \in {"ignored", "softened"} :
               IF m = "ignored" THEN Superseded(hook[h].row, e) /\ e.sub = Cardinality(Created)
               ELSE e.status = "unpaid" /\ ~ IsStaleEvent(hook[h].row, e)}
      /\ e.type \in {"created", "updated", "deleted"}
  BY DEF SyncWrite, atStripe
<1>n. PICK n \in DOMAIN events : n = hook[h].event
  BY <1>0 DEF BillingType
<1>2. Rests(h) /\ acked' = acked \cup {n}
  BY <1>0, <1>1, <1>n, ItRests DEF Answers
<1>3. Touches(h)
  BY <1>0, <1>1, <1>2, <1>n DEF Touches, Rests, AtPc, BillingType
<1>4. \A m : AtRecord(m)' <=> AtRecord(m)
  BY <1>0, <1>2, AtRecordAfter
<1>5. \A m : (Accounted(m)' <=> Accounted(m)) /\ (m # n => (Told(m)' <=> Told(m)))
  BY <1>1, <1>2, <1>4 DEF Accounted, Entries, Told
<1>6. "overlapped" \notin mishaps' => "overlapped" \notin mishaps /\ hook[h].row = tenant
  BY <1>0, <1>1, InHand DEF ReadsRow
<1>7. ASSUME NEW m \in DOMAIN events, mishaps' \subseteq {"softened"}, Latest(m), Told(m)',
             (events[m].status = "unpaid" => mishaps' = {})
      PROVE  Shows(events[m])'
  <2>1. mishaps \subseteq {"softened"} /\ (events[m].status = "unpaid" => mishaps = {})
    BY <1>1, <1>7
  <2>2. CASE m # n
    <3>1. Shows(events[m])
      BY <1>5, <1>7, <2>1, <2>2 DEF BillingInv, RowOK
    <3> QED
      BY <1>1, <3>1 DEF Shows
  <2>3. CASE m = n
    <3>1. events[m] = e
      BY <1>n, <2>3 DEF Ev
    <3>2. e.sub = Cardinality(Created)
      BY <1>7, <2>1, <3>1 DEF BillingInv, StripeOK
    <3>3. ~ Superseded(tenant, e)
      BY <1>1, <1>6, <1>7, <3>2
    <3>4. e.status = "unpaid"
      BY <1>0, <1>1, <1>6, <1>7, <1>n, <2>3, <3>3, UnappliedIsTold
    <3>5. ~ IsStaleEvent(tenant, e)
      BY <1>0, <1>7, <1>n, <2>3, InHand DEF IsStaleEvent, Latest, Ev, Writing
    <3> QED
      BY <1>1, <1>6, <1>7, <3>1, <3>4, <3>5
  <2> QED
    BY <2>2, <2>3
<1>8. ASSUME NEW m \in DOMAIN events, mishaps' \cap {"overlapped", "softened"} = {}
      PROVE  /\ events[m].type = "deleted" /\ events[m].at = tenant'.lastAt => Accounted(m)'
             /\ events[m].type = "updated" /\ m \in acked' =>
                  Accounted(m)' \/ events[m].at < tenant'.lastAt
  <2>1. mishaps \cap {"overlapped", "softened"} = {}
    BY <1>1, <1>8
  <2>2. (m # n \/ m \in acked) /\ m \in acked' => m \in acked
    BY <1>2
  <2>3. CASE m = n /\ events[m].type = "updated"
    <3>1. e = events[m]
      BY <1>n, <2>3 DEF Ev
    <3>2. e.at < tenant.lastAt \/ e.status = "unpaid"
      BY <1>0, <1>1, <2>1, <2>3, <3>1, UnappliedIsTold
    <3>3. e.status = "unpaid" => IsStaleEvent(tenant, e)
      BY <1>1, <1>6, <1>8
    <3> QED
      BY <1>1, <2>3, <3>1, <3>2, <3>3 DEF IsStaleEvent
  <2> QED
    BY <1>1, <1>2, <1>5, <2>1, <2>3 DEF BillingInv, LedgerOK
<1> HIDE DEF e
<1> QED
  BY <1>1, <1>3, <1>7, <1>8, TouchIsJudged

(* A write that keeps what the last event says, and never goes back.       *)
LEMMA WriteKeeps ==
  ASSUME BillingInv, NEW h \in Hooks, Touches(h), Records(h), ~ AtPc(h, "idle"),
         NEW n \in DOMAIN events, n = hook[h].event, events[n].type \in Writing,
         ledger' = ledger, cut' = cut,
         tenant'.lastAt = tenant.lastAt \/ tenant'.lastAt = events[n].at,
         tenant.lastAt <= tenant'.lastAt \/ "overlapped" \in mishaps,
         \A m \in DOMAIN events :
           mishaps' \subseteq {"softened"} /\ Latest(m) /\ Shows(events[m]) /\ m # n
           => Shows(events[m])',
         mishaps' \subseteq {"softened"} /\ Latest(n) => Shows(events[n])'
  PROVE  BillingInv'
<1>1. BillingType /\ mishaps \subseteq mishaps' /\ events' = events
  BY DEF BillingInv, Touches
<1>2. \A m : AtRecord(m)' <=> AtRecord(m) \/ m = n
  BY <1>1, AtRecordAfter
<1>3. acked' = acked
  BY DEF Records
<1>4. \A m : /\ Told(m)' => Told(m) \/ m = n
             /\ Accounted(m)' <=> Accounted(m) \/ m = n
  BY <1>2, <1>3 DEF Told, Accounted, Entries
<1>5. ASSUME NEW m \in DOMAIN events, mishaps' \subseteq {"softened"}, Latest(m), Told(m)',
             (events[m].status = "unpaid" => mishaps' = {})
      PROVE  Shows(events[m])'
  <2>1. m # n => Told(m) /\ Shows(events[m])
    BY <1>1, <1>4, <1>5 DEF BillingInv, RowOK
  <2> QED
    BY <1>5, <2>1
<1>6. ASSUME NEW m \in DOMAIN events, mishaps' \cap {"overlapped", "softened"} = {}
      PROVE  /\ events[m].type = "deleted" /\ events[m].at = tenant'.lastAt => Accounted(m)'
             /\ events[m].type = "updated" /\ m \in acked' =>
                  Accounted(m)' \/ events[m].at < tenant'.lastAt
  <2>1. /\ mishaps \cap {"overlapped", "softened"} = {}
        /\ "overlapped" \notin mishaps
    BY <1>1, <1>6
  <2>2. /\ events[m].type = "deleted" /\ events[m].at = tenant.lastAt => Accounted(m)
        /\ events[m].type = "updated" /\ m \in acked =>
             Accounted(m) \/ events[m].at < tenant.lastAt
    BY <2>1 DEF BillingInv, LedgerOK
  <2>3. events[m].type = "deleted" /\ events[m].at = events[n].at => m = n
    BY DEF BillingInv, EventsOK, OneAct
  <2>4. /\ events[m].at \in Nat /\ tenant.lastAt \in Nat /\ tenant'.lastAt \in Nat
    BY InHand DEF Touches, TenantRow
  <2> QED
    BY <1>3, <1>4, <2>1, <2>2, <2>3, <2>4
<1> QED
  BY <1>1, <1>5, <1>6, TouchIsJudged

LEMMA AppliedKeeps ==
  ASSUME BillingInv, NEW h \in Hooks, SyncWrite(h), Applies(hook[h].row, Ev(h))
  PROVE  BillingInv'
<1>0. BillingType /\ AtPc(h, "write") /\ ~ AtPc(h, "idle")
  BY DEF BillingInv, SyncWrite, AtPc
<1>n. PICK n \in DOMAIN events : n = hook[h].event
  BY <1>0 DEF BillingType
<1> DEFINE e == events[n]
<1>1. /\ e = Ev(h) /\ e.type \in {"created", "updated", "deleted"} /\ ReadsRow(h)
      /\ e \in EventRow /\ WellSent(e, now) /\ tenant \in TenantRow
      /\ "overlapped" \notin mishaps => hook[h].row = tenant
  BY <1>0, <1>n, InHand DEF SyncWrite, Ev, ReadsRow
<1>2. /\ tenant' = [tenant EXCEPT
               !.sub = e.sub, !.status = e.status,
               !.until = e.until, !.plan = e.plan, !.lastAt = e.at,
               !.state = IF e.type = "deleted" THEN "CANCELLED"
                         ELSE IF e.status \in ALLOWED_SUB_STATUSES THEN "ACTIVE" ELSE @]
      /\ Suffers("overlapped", Crossed(h)) /\ GoesOn(h)
      /\ UNCHANGED <<scope, now, events, stripe, acked, ledger, cut>>
  BY <1>1 DEF SyncWrite, atStripe
<1> HIDE DEF e
<1>3. /\ tenant' \in TenantRow /\ tenant'.sub = e.sub /\ tenant'.status = e.status
      /\ tenant'.until = e.until /\ tenant'.plan = e.plan /\ tenant'.lastAt = e.at
      /\ tenant'.state = IF e.type = "deleted" THEN "CANCELLED"
                         ELSE IF e.status \in ALLOWED_SUB_STATUSES THEN "ACTIVE"
                         ELSE tenant.state
  BY <1>1, <1>2 DEF TenantRow, EventRow
<1>4. Records(h) /\ mishaps \subseteq mishaps' /\ (Crossed(h) => "overlapped" \in mishaps')
  BY <1>0, <1>2, OnItGoes DEF Suffers
<1>5. Touches(h)
  BY <1>0, <1>2, <1>3, <1>4 DEF Touches, Records, AtPc, BillingType
<1>6. "overlapped" \notin mishaps => tenant.lastAt <= e.at
  BY <1>1, <1>2 DEF Applies, IsStaleEvent, TenantRow, EventRow
<1>7. e.type \in Telling => Shows(events[n])'
  BY <1>1, <1>2, <1>3 DEF Shows, WellSent, Telling, ALLOWED_SUB_STATUSES, e
<1>8. ASSUME NEW m \in DOMAIN events, mishaps' \subseteq {"softened"}, Latest(m),
             Shows(events[m]), m # n
      PROVE  FALSE
  <2>1. hook[h].row = tenant /\ tenant.lastAt <= e.at
    BY <1>1, <1>4, <1>6, <1>8
  <2>2. e.at = events[m].at /\ e.at = tenant.lastAt
    <3>1. e.type \in Writing /\ e.at \in Nat /\ tenant.lastAt \in Nat
      BY <1>0, <1>1, InHand DEF Writing, Telling
    <3>2. e.at <= events[m].at
      BY <1>0, <1>1, <1>8, <3>1, InHand
    <3> QED
      BY <1>8, <2>1, <3>1, <3>2 DEF Shows
  <2>3. OneAct(n, m) /\ WellSent(events[m], now) /\ events[m].type \in Telling
    BY <1>0, <1>8, <1>n, InHand DEF Latest
  <2>4. e.type = "created" /\ events[m].status = "active" /\ e.status = "incomplete"
    BY <1>1, <1>8, <2>2, <2>3 DEF OneAct, Telling, WellSent, e
  <2>5. IsRegressiveSameSecond(tenant, e)
    BY <1>1, <1>8, <2>2, <2>4 DEF IsRegressiveSameSecond, Subscribed, Shows,
       ALLOWED_SUB_STATUSES, TenantRow
  <2> QED
    BY <1>1, <2>1, <2>4, <2>5 DEF Applies
<1>9. e.type \in Writing /\ (Latest(n) => e.type \in Telling)
  BY <1>1 DEF Writing, Telling, Latest, e
<1> QED
  BY <1>0, <1>2, <1>3, <1>4, <1>5, <1>6, <1>7, <1>8, <1>9, <1>n, WriteKeeps DEF e

LEMMA CheckoutKeeps ==
  ASSUME BillingInv, NEW h \in Hooks, Checkout(h)
  PROVE  BillingInv'
<1>0. BillingType /\ AtPc(h, "write") /\ ~ AtPc(h, "idle")
  BY DEF BillingInv, Checkout, AtPc
<1>n. PICK n \in DOMAIN events : n = hook[h].event
  BY <1>0 DEF BillingType
<1> DEFINE e == events[n]
<1>1. e = Ev(h) /\ e.type = "completed" /\ e \in EventRow /\ tenant \in TenantRow
  BY <1>0, <1>n, InHand DEF Checkout, Ev
<1>2. /\ tenant' = [tenant EXCEPT !.sub = e.sub]
      /\ mishaps' = mishaps \cup {m \in {"overlapped", "rewound"} :
           IF m = "overlapped" THEN Crossed(h)
           ELSE tenant.sub \notin {None, e.sub} /\ e.at < tenant.lastAt}
      /\ GoesOn(h) /\ UNCHANGED <<scope, now, events, stripe, acked, ledger, cut>>
  BY <1>1 DEF Checkout, atStripe
<1> HIDE DEF e
<1>3. tenant' \in TenantRow /\ tenant'.lastAt = tenant.lastAt
  BY <1>1, <1>2 DEF TenantRow, EventRow
<1>4. Records(h) /\ mishaps \subseteq mishaps' /\ (Crossed(h) => "overlapped" \in mishaps')
  BY <1>0, <1>2, OnItGoes
<1>5. Touches(h)
  BY <1>0, <1>2, <1>3, <1>4 DEF Touches, Records, AtPc, BillingType
<1>6. ASSUME NEW m \in DOMAIN events, mishaps' \subseteq {"softened"}, Latest(m),
             Shows(events[m])
      PROVE  Shows(events[m])'
  <2>1. tenant.sub = events[m].sub /\ events[m].sub # None /\ tenant.lastAt = events[m].at
    BY <1>0, <1>6, InHand, BillingAssumption DEF Shows, EventRow, BillingAssumption
  <2>2. e.sub # tenant.sub => e.at >= tenant.lastAt
    BY <1>1, <1>2, <1>6, <2>1 DEF EventRow, TenantRow
  <2>3. e.at <= events[m].at /\ OneAct(n, m)
    BY <1>0, <1>1, <1>6, <1>n, InHand DEF Writing
  <2>4. e.sub = tenant.sub
    BY <1>1, <2>1, <2>2, <2>3 DEF OneAct, EventRow, TenantRow, e
  <2>5. tenant' = tenant
    BY <1>1, <1>2, <2>4 DEF TenantRow
  <2> QED
    BY <1>2, <1>6, <2>5 DEF Shows
<1>7. e.type \in Writing /\ ~ Latest(n) /\ tenant.lastAt <= tenant'.lastAt
  BY <1>1, <1>3 DEF Writing, Telling, Latest, TenantRow, e
<1> QED
  BY <1>0, <1>2, <1>3, <1>4, <1>5, <1>6, <1>7, <1>n, WriteKeeps DEF e

LEMMA DunnedKeeps ==
  ASSUME BillingInv, NEW h \in Hooks, InvoiceFailed(h), Dunned(hook[h].row, Ev(h))
  PROVE  BillingInv'
<1>0. BillingType /\ AtPc(h, "write") /\ ~ AtPc(h, "idle")
  BY DEF BillingInv, InvoiceFailed, AtPc
<1>n. PICK n \in DOMAIN events : n = hook[h].event
  BY <1>0 DEF BillingType
<1> DEFINE e == events[n]
<1>1. /\ e = Ev(h) /\ e.type = "failed" /\ e \in EventRow /\ tenant \in TenantRow
      /\ "overlapped" \notin mishaps => hook[h].row = tenant
  BY <1>0, <1>n, InHand DEF InvoiceFailed, Ev, ReadsRow
<1>2. /\ tenant' = [tenant EXCEPT !.status = "past_due", !.lastAt = e.at]
      /\ Suffers("overlapped", Crossed(h)) /\ GoesOn(h)
      /\ UNCHANGED <<scope, now, events, stripe, acked, ledger, cut>>
  BY <1>1 DEF InvoiceFailed, atStripe
<1> HIDE DEF e
<1>3. /\ tenant' \in TenantRow /\ tenant'.lastAt = e.at /\ tenant'.status = "past_due"
      /\ tenant'.sub = tenant.sub /\ tenant'.plan = tenant.plan
      /\ tenant'.until = tenant.until /\ tenant'.state = tenant.state
  BY <1>1, <1>2 DEF TenantRow, EventRow, RowStatus
<1>4. Records(h) /\ mishaps \subseteq mishaps' /\ (Crossed(h) => "overlapped" \in mishaps')
  BY <1>0, <1>2, OnItGoes DEF Suffers
<1>5. Touches(h)
  BY <1>0, <1>2, <1>3, <1>4 DEF Touches, Records, AtPc, BillingType
<1>6. "overlapped" \notin mishaps => tenant.lastAt <= e.at /\ Subscribed(tenant)
  BY <1>1 DEF Dunned, IsStaleEvent, TenantRow, EventRow
<1>7. ASSUME NEW m \in DOMAIN events, mishaps' \subseteq {"softened"}, Latest(m),
             Shows(events[m])
      PROVE  Shows(events[m])'
  <2>1. tenant.lastAt <= e.at /\ Subscribed(tenant)
    BY <1>4, <1>6, <1>7
  <2>2. /\ e.at <= events[m].at /\ OneAct(n, m) /\ events[m].type \in Telling
        /\ WellSent(events[m], now)
    BY <1>0, <1>1, <1>7, <1>n, InHand DEF Writing, Latest
  <2>3. tenant.lastAt = events[m].at /\ events[m].status = tenant.status
    BY <1>7 DEF Shows
  <2>4. e.at = events[m].at
    BY <1>1, <2>1, <2>2, <2>3 DEF EventRow, TenantRow
  <2>5. events[m].type = "updated" /\ events[m].status = "past_due"
    BY <1>1, <2>1, <2>2, <2>3, <2>4 DEF OneAct, Telling, Subscribed, ALLOWED_SUB_STATUSES, e
  <2> QED
    BY <1>2, <1>3, <1>7, <2>4, <2>5 DEF Shows
<1>8. e.type \in Writing /\ ~ Latest(n)
  BY <1>1 DEF Writing, Telling, Latest, e
<1> QED
  BY <1>0, <1>2, <1>3, <1>4, <1>5, <1>6, <1>7, <1>8, <1>n, WriteKeeps DEF e

LEMMA CheckoutStatusKeeps ==
  ASSUME BillingInv, NEW h \in Hooks, CheckoutStatus(h)
  PROVE  BillingInv'
<1>0. BillingType /\ AtPc(h, "record") /\ ~ AtPc(h, "idle")
  BY DEF BillingInv, CheckoutStatus, AtPc
<1>n. PICK n \in DOMAIN events : n = hook[h].event
  BY <1>0 DEF BillingType
<1>1. events[n] = Ev(h) /\ events[n].type = "completed" /\ tenant \in TenantRow
  BY <1>0, <1>n, InHand DEF CheckoutStatus, Ev
<1>2. /\ tenant' = [tenant EXCEPT !.status = IF @ = "none" THEN "incomplete" ELSE @]
      /\ Suffers("overlapped", Crossed(h)) /\ acked' = acked \cup {n}
      /\ hook' = [hook EXCEPT ![h] = IdleHook]
      /\ UNCHANGED <<scope, now, events, stripe, ledger, cut>>
  BY <1>n DEF CheckoutStatus, atStripe, Answers
<1>3. /\ tenant' \in TenantRow /\ tenant'.lastAt = tenant.lastAt
      /\ tenant.status # "none" => tenant' = tenant
  BY <1>1, <1>2 DEF TenantRow, RowStatus
<1>4. Rests(h) /\ mishaps \subseteq mishaps' /\ (Crossed(h) => "overlapped" \in mishaps')
  BY <1>0, <1>2, ItRests DEF Suffers
<1>5. Touches(h)
  BY <1>0, <1>2, <1>3, <1>4 DEF Touches, Rests, AtPc, BillingType
<1>6. \A m : m # n => (Told(m)' <=> Told(m)) /\ (Accounted(m)' <=> Accounted(m))
  BY <1>0, <1>2, <1>4, <1>n, AtRecordAfter DEF Told, Accounted, Entries
<1>7. ASSUME NEW m \in DOMAIN events, mishaps' \subseteq {"softened"}, Latest(m), Told(m)',
             (events[m].status = "unpaid" => mishaps' = {})
      PROVE  Shows(events[m])'
  <2>1. m # n /\ WellSent(events[m], now) /\ events[m].type \in Telling
    BY <1>0, <1>1, <1>7, InHand DEF Latest, Telling
  <2>2. Shows(events[m])
    BY <1>4, <1>6, <1>7, <2>1 DEF BillingInv, RowOK
  <2>3. tenant.status # "none"
    BY <2>1, <2>2 DEF Shows, WellSent, Telling
  <2> QED
    BY <1>2, <1>3, <2>2, <2>3 DEF Shows
<1>8. ASSUME NEW m \in DOMAIN events, mishaps' \cap {"overlapped", "softened"} = {}
      PROVE  /\ events[m].type = "deleted" /\ events[m].at = tenant'.lastAt => Accounted(m)'
             /\ events[m].type = "updated" /\ m \in acked' =>
                  Accounted(m)' \/ events[m].at < tenant'.lastAt
  <2>1. mishaps \cap {"overlapped", "softened"} = {}
    BY <1>4, <1>8
  <2> QED
    BY <1>1, <1>2, <1>3, <1>6, <2>1 DEF BillingInv, LedgerOK
<1> QED
  BY <1>3, <1>5, <1>7, <1>8, TouchIsJudged

LEMMA HookKeeps ==
  ASSUME BillingInv, NEW h \in Hooks, HookStep(h)
  PROVE  BillingInv'
<1>1. CASE SyncWrite(h)
  BY <1>1, UnappliedKeeps, AppliedKeeps
<1>2. CASE Checkout(h) \/ CheckoutStatus(h)
  BY <1>2, CheckoutKeeps, CheckoutStatusKeeps
<1>3. CASE InvoiceFailed(h)
  <2>1. CASE ~ Dunned(hook[h].row, Ev(h))
    <3>1. /\ Answers(h) /\ Ev(h).type \notin Telling /\ ~ AtPc(h, "idle")
          /\ UNCHANGED <<scope, now, events, stripe, tenant, mishaps, cut, ledger>>
      BY <1>3, <2>1 DEF InvoiceFailed, atStripe, Telling, AtPc
    <3> QED
      BY <3>1, AnswerPasses, PassKeeps
  <2> QED
    BY <1>3, <2>1, DunnedKeeps
<1>4. CASE \E kept \in BOOLEAN :
        \/ SyncRecord(h, kept) \/ InvoicePaid(h, kept)
        \/ InvoiceFailedRecord(h, kept) \/ ChargeRefunded(h, kept)
  BY <1>4, RecordPasses, PassKeeps
<1> QED
  BY <1>1, <1>2, <1>3, <1>4 DEF HookStep

(* A day passes, a mail goes out, or nothing happens.                      *)
LEMMA TimeKeeps ==
  ASSUME BillingInv, now' \in Nat, now <= now',
         UNCHANGED <<scope, tenant, stripe, events, acked, hook, ledger, history>>
  PROVE  BillingInv'
<1>1. UNCHANGED <<mishaps, cut>>
  BY DEF history
<1>2. /\ \A n : /\ Latest(n)' <=> Latest(n)
                /\ AtRecord(n)' <=> AtRecord(n)
                /\ Told(n)' <=> Told(n)
                /\ Accounted(n)' <=> Accounted(n)
      /\ Created' = Created /\ Going' = Going /\ Newest' = Newest
  BY <1>1 DEF Latest, AtRecord, AtPc, Told, Accounted, Entries, Created, Going, Newest
<1>3. BillingType'
  BY DEF BillingInv, BillingType, AtPc
<1>4. EventsOK'
  <2>1. ASSUME NEW n \in DOMAIN events, WellSent(events[n], now)
        PROVE  WellSent(events[n], now')
    <3>1. events[n].at \in Nat /\ now \in Nat
      BY EventsAreRows DEF BillingInv, BillingType
    <3> QED
      BY <2>1, <3>1 DEF WellSent
  <2> QED
    BY <2>1 DEF BillingInv, EventsOK, OneAct
<1>5. StripeOK'
  BY <1>1, <1>2 DEF BillingInv, StripeOK
<1>6. RowOK'
  BY <1>1, <1>2 DEF BillingInv, RowOK, FreshRows, ReadsRow, Ev, AtPc, Shows
<1>7. LedgerOK'
  BY <1>1, <1>2 DEF BillingInv, LedgerOK
<1> QED
  BY <1>3, <1>4, <1>5, <1>6, <1>7 DEF BillingInv

LEMMA InitBilling ==
  ASSUME Init
  PROVE  BillingInv
<1>1. BillingType
  <2>1. IdleHook \in HookRow /\ IdleHook.pc = "idle"
    BY DEF IdleHook, HookRow
  <2>2. NoSub \in StripeRow
    BY DEF NoSub, StripeRow, RowStatus
  <2>3. <<>> \in Seq(EventRow) /\ DOMAIN <<>> = {}
    BY EmptySeq
  <2>4. tenant \in TenantRow
    BY DEF Init, TenantRow, RowStatus
  <2>5. scope.invoices \in Nat
    BY BillingAssumption DEF Init, BillingAssumption
  <2> QED
    BY <2>1, <2>2, <2>3, <2>4, <2>5 DEF Init, BillingType, AtPc
<1>2. DOMAIN events = {} /\ tenant.lastAt = 0 /\ mishaps = {} /\ Created = {}
  BY DEF Init, Created, NoSub
<1>3. EventsOK
  BY <1>2 DEF EventsOK
<1>4. StripeOK
  <2>1. Cardinality(Created) = 0 /\ 1..0 = {}
    BY <1>2, FS_EmptySet
  <2> QED
    BY <1>2, <2>1 DEF StripeOK, Going
<1>5. RowOK
  BY <1>2 DEF RowOK, FreshRows, Init, IdleHook, AtPc
<1>6. LedgerOK
  BY <1>2 DEF LedgerOK
<1> QED
  BY <1>1, <1>3, <1>4, <1>5, <1>6 DEF BillingInv

LEMMA NextKeeps ==
  ASSUME BillingInv, [Next]_vars
  PROVE  BillingInv'
<1>0. now \in Nat
  BY DEF BillingInv, BillingType
<1>1. CASE StripeActs
  BY <1>1, ActKeeps
<1>2. CASE \E h \in Hooks, n \in DOMAIN events : Deliver(h, n)
  BY <1>2, DeliverPasses, PassKeeps
<1>3. CASE \E h \in Hooks : HookStep(h) \/ HookFails(h)
  BY <1>3, HookKeeps, FailPasses, PassKeeps
<1>4. CASE TrialSweep
  BY <1>0, <1>4, TimeKeeps DEF TrialSweep, atStripe
<1>5. CASE Tick
  BY <1>0, <1>5, TimeKeeps DEF Tick, rows, atStripe
<1>6. CASE UNCHANGED vars
  BY <1>0, <1>6, TimeKeeps DEF vars, rows, atStripe
<1> QED
  BY <1>1, <1>2, <1>3, <1>4, <1>5, <1>6 DEF Next

(* In every history, mishaps included: what Stripe sends, what the row has *)
(* of it and what the ledger has of that stay related as BillingInv says,  *)
(* across every statement of processStripeEvent.                           *)
THEOREM MirrorInvariant == Spec => []BillingInv
  BY InitBilling, NextKeeps, PTL DEF Spec

(* When Stripe has its answers the last event has been shown.              *)
LEMMA QuietShows ==
  ASSUME BillingInv, Quiet, Created # {}, mishaps \subseteq {"softened"},
         Newest.status = "unpaid" => mishaps = {}
  PROVE  /\ Cardinality(Created) \in Nat
         /\ tenant.sub = Cardinality(Created) /\ tenant.status = Newest.status
         /\ tenant.plan = Newest.plan /\ tenant.until = Newest.until
         /\ Newest.status # "unpaid" =>
              tenant.state = IF Newest.status = "canceled" THEN "CANCELLED" ELSE "ACTIVE"
<1>1. PICK n \in DOMAIN events : Latest(n)
  BY DEF BillingInv, StripeOK
<1>2. /\ events[n].sub = Cardinality(Created) /\ events[n].status = Newest.status
      /\ events[n].plan = Newest.plan /\ events[n].until = Newest.until
  BY <1>1 DEF BillingInv, StripeOK
<1>3. Shows(events[n])
  BY <1>1, <1>2 DEF BillingInv, RowOK, Quiet, Told
<1> QED
  BY <1>2, <1>3, CountCreated DEF Shows, BillingInv

(* The row tells what Stripe knows of the newest subscription as soon as   *)
(* every event has had its answer, whatever the order of the deliveries,   *)
(* the repeats and the failed attempts (syncSubscription, handleCheckout-  *)
(* Completed, handleInvoiceFailed), in a history without mishap.           *)
THEOREM RowFollowsStripe == Spec => []MirrorFaithful
<1>1. BillingInv => MirrorFaithful
  BY QuietShows DEF MirrorFaithful
<1> QED
  BY <1>1, MirrorInvariant, PTL

(* Who is owed access has it: evaluateBillingAccess lets the tenant in     *)
(* during the trial, while a subscription is paid for or a payment is      *)
(* retried, and to the end of the paid period after a cancellation.        *)
THEOREM AccessIsKept == Spec => []AccessKept
<1>1. ASSUME BillingInv, Quiet, ~ Excused, Promised
      PROVE  Allowed(tenant, now)
  <2>1. mishaps \subseteq {"softened"}
    BY <1>1 DEF Excused
  <2>2. CASE now <= TrialEnd
    BY <2>2 DEF Allowed, TrialActive
  <2>3. CASE Paying # {}
    <3>1. PICK s \in Subs : stripe[s].status \in ALLOWED_SUB_STATUSES
      BY <2>3 DEF Paying
    <3>2. s \in Created /\ s \in Going
      BY <3>1 DEF Created, Going, ALLOWED_SUB_STATUSES, DEAD_SUB_STATUSES
    <3>3. Newest.status \in ALLOWED_SUB_STATUSES
      BY <1>1, <2>1, <3>1, <3>2 DEF BillingInv, StripeOK, Newest
    <3>4. tenant.status = Newest.status
      BY <1>1, <2>1, <3>2, <3>3, QuietShows DEF ALLOWED_SUB_STATUSES
    <3> QED
      BY <3>3, <3>4 DEF Allowed, Subscribed
  <2>4. CASE Created # {} /\ Newest.status = "canceled" /\ Newest.until > now
    BY <1>1, <2>1, <2>4, QuietShows DEF Allowed, InGrace
  <2> QED
    BY <1>1, <2>2, <2>3, <2>4 DEF Promised
<1>2. BillingInv => AccessKept
  BY <1>1 DEF AccessKept
<1> QED
  BY <1>2, MirrorInvariant, PTL

(* A change that reached the row is in the ledger once it is answered,     *)
(* unless its request failed between the two (recordBillingEvent).         *)
THEOREM ChangesAreEntered == Spec => []LedgerComplete
<1>1. ASSUME BillingInv, NEW n \in acked \ cut,
             events[n].at = tenant.lastAt, events[n].type \in {"updated", "deleted"},
             mishaps \cap {"overlapped", "softened"} = {},
             \A h \in Hooks : hook[h].event # n
      PROVE  Entries(n) # {}
  <2>1. n \in DOMAIN events /\ tenant.lastAt \in Nat
    BY <1>1 DEF BillingInv, BillingType, TenantRow
  <2>2. Accounted(n)
    BY <1>1, <2>1 DEF BillingInv, LedgerOK
  <2> QED
    BY <1>1, <2>2 DEF Accounted, AtRecord
<1>2. BillingInv => LedgerComplete
  BY <1>1 DEF LedgerComplete
<1> QED
  BY <1>2, MirrorInvariant, PTL

-----------------------------------------------------------------------------
(* The contract page.  An event is of a subscription that was made, and    *)
(* before the first one nobody has written to the row (FirstOK).  When     *)
(* Stripe gave up a payment and the last event that says so has been seen, *)
(* the row is of that second: it says so too, or still lets the tenant in, *)
(* for the news of the failure itself came first (UnpaidOK).               *)
FirstOK ==
  /\ \A n \in DOMAIN events : events[n].sub \in Created
  /\ Created = {} => tenant.sub = None /\ tenant.status = "none"

UnpaidOK ==
  mishaps \subseteq {"softened"} => \A n \in DOMAIN events :
    Latest(n) /\ Told(n) /\ events[n].status = "unpaid" =>
      /\ tenant.lastAt = events[n].at
      /\ tenant.status \in ALLOWED_SUB_STATUSES \cup {"unpaid"}

PanelInv == BillingInv /\ FirstOK /\ UnpaidOK

LEMMA ActKeepsPanel ==
  ASSUME PanelInv, StripeActs
  PROVE  FirstOK' /\ UnpaidOK'
<1>0. BillingType /\ EventsOK /\ StripeOK
  BY DEF PanelInv, BillingInv
<1>1. PICK s \in Subs : \E new \in Seq(EventRow) : Acted(s, new)
  BY <1>0, AnActIsActed
<1>2. PICK new \in Seq(EventRow) : Acted(s, new)
  BY <1>1
<1>3. /\ tenant' = tenant /\ hook' = hook /\ acked' = acked
      /\ mishaps' = mishaps \/ mishaps' = mishaps \cup {"doubled"}
  BY <1>2 DEF Acted, Repays, rows, Changes, Suffers
<1>4. s \in Created' /\ Created \subseteq Created'
  BY <1>2 DEF Acted, Repays, Changes, Created
<1>5. ASSUME NEW n \in DOMAIN events' PROVE events'[n].sub \in Created'
  <2>1. CASE n \in DOMAIN events
    BY <1>0, <1>2, <1>4, <2>1, ActEvents DEF PanelInv, FirstOK
  <2>2. CASE n \notin DOMAIN events
    BY <1>0, <1>2, <1>4, <1>5, <2>2, ActEvents
  <2> QED
    BY <2>1, <2>2
<1>6. FirstOK'
  BY <1>4, <1>5 DEF FirstOK
<1>7. ASSUME mishaps' \subseteq {"softened"}, NEW n \in DOMAIN events', Latest(n)', Told(n)',
             events'[n].status = "unpaid"
      PROVE  /\ tenant'.lastAt = events'[n].at
             /\ tenant'.status \in ALLOWED_SUB_STATUSES \cup {"unpaid"}
  <2>1. mishaps \subseteq {"softened"}
    BY <1>3, <1>7
  <2>2. \A h \in Hooks : AtPc(h, "record") => hook[h].event \in DOMAIN events
    BY <1>0 DEF BillingType, AtPc
  <2>3. Told(n) /\ n \in DOMAIN events
    BY <1>0, <1>3, <1>7, <2>2 DEF Told, AtRecord, AtPc, BillingType
  <2>4. ~ Changes(s, new)
    BY <1>0, <1>2, <1>7, <2>3, ActIsLatest
  <2>5. Latest(n)
    BY <1>0, <1>2, <1>7, <2>4, ActKeepsLatest DEF Acted, Repays
  <2>6. events'[n] = events[n]
    BY <1>0, <1>2, <2>3, ActEvents
  <2> QED
    BY <1>3, <1>7, <2>1, <2>3, <2>5, <2>6 DEF PanelInv, UnpaidOK
<1> QED
  BY <1>6, <1>7 DEF UnpaidOK

(* A request has an event in hand, so that some subscription was made.     *)
LEMMA TouchKeepsFirst ==
  ASSUME PanelInv, NEW h \in Hooks, Touches(h), tenant' = tenant \/ ~ AtPc(h, "idle")
  PROVE  FirstOK'
<1>1. Created' = Created /\ events' = events
  BY DEF Touches, Created
<1>2. ~ AtPc(h, "idle") => Created # {}
  BY DEF PanelInv, FirstOK, BillingInv, BillingType
<1> QED
  BY <1>1, <1>2 DEF PanelInv, FirstOK

LEMMA PassKeepsPanel ==
  ASSUME PanelInv, NEW h \in Hooks, Passes(h)
  PROVE  FirstOK' /\ UnpaidOK'
<1>1. FirstOK'
  BY TouchKeepsFirst DEF Passes
<1>2. tenant' = tenant /\ events' = events /\ mishaps \subseteq mishaps'
      /\ \A n : Latest(n)' <=> Latest(n)
  BY DEF Passes, Touches, Latest
<1>3. \A n \in DOMAIN events : Latest(n) /\ Told(n)' => Told(n)
  BY DEF Passes, Latest
<1>4. mishaps' \subseteq {"softened"} => mishaps \subseteq {"softened"}
  BY <1>2
<1> QED
  BY <1>1, <1>2, <1>3, <1>4 DEF PanelInv, UnpaidOK

(* What the write or the answer of a request must show of the last event,  *)
(* of others than the one in hand what held before.                        *)
LEMMA UnpaidIsJudged ==
  ASSUME PanelInv, NEW h \in Hooks, Touches(h), ~ AtPc(h, "idle"),
         NEW n, n = hook[h].event,
         \A m : m # n /\ Told(m)' => Told(m),
         \A m \in DOMAIN events :
           /\ mishaps' \subseteq {"softened"} /\ Latest(m) /\ events[m].status = "unpaid"
           /\ m = n \/ ( /\ tenant.lastAt = events[m].at
                         /\ tenant.status \in ALLOWED_SUB_STATUSES \cup {"unpaid"})
           /\ Told(m)'
           => /\ tenant'.lastAt = events[m].at
              /\ tenant'.status \in ALLOWED_SUB_STATUSES \cup {"unpaid"}
  PROVE  FirstOK' /\ UnpaidOK'
<1>1. FirstOK'
  BY TouchKeepsFirst
<1>2. events' = events /\ mishaps \subseteq mishaps' /\ \A m : Latest(m)' <=> Latest(m)
  BY DEF Touches, Latest
<1>3. mishaps' \subseteq {"softened"} => mishaps \subseteq {"softened"}
  BY <1>2
<1>4. ASSUME NEW m \in DOMAIN events, mishaps' \subseteq {"softened"}, Latest(m), Told(m)',
             events[m].status = "unpaid", m # n
      PROVE  /\ tenant.lastAt = events[m].at
             /\ tenant.status \in ALLOWED_SUB_STATUSES \cup {"unpaid"}
  <2>1. Told(m)
    BY <1>4
  <2> QED
    BY <1>3, <1>4, <2>1 DEF PanelInv, UnpaidOK
<1>5. ASSUME NEW m \in DOMAIN events, mishaps' \subseteq {"softened"}, Latest(m), Told(m)',
             events[m].status = "unpaid"
      PROVE  /\ tenant'.lastAt = events[m].at
             /\ tenant'.status \in ALLOWED_SUB_STATUSES \cup {"unpaid"}
  BY <1>4, <1>5
<1> QED
  BY <1>1, <1>2, <1>5 DEF UnpaidOK

LEMMA GoingOnTouches ==
  ASSUME BillingInv, NEW h \in Hooks, ~ AtPc(h, "idle"), GoesOn(h), tenant' \in TenantRow,
         UNCHANGED <<scope, now, events, stripe, acked, ledger, cut>>, mishaps \subseteq mishaps',
         Crossed(h) => "overlapped" \in mishaps'
  PROVE  Touches(h) /\ \A m : m # hook[h].event /\ Told(m)' => Told(m)
<1>0. BillingType
  BY DEF BillingInv
<1>1. Records(h)
  BY <1>0, OnItGoes
<1>2. Touches(h)
  BY <1>0, <1>1 DEF Touches, Records, AtPc, BillingType
<1> QED
  BY <1>0, <1>1, <1>2, AtRecordAfter DEF Told

LEMMA AnswerTouches ==
  ASSUME BillingInv, NEW h \in Hooks, ~ AtPc(h, "idle"), Answers(h), tenant' \in TenantRow,
         UNCHANGED <<scope, now, events, stripe, ledger, cut>>, mishaps \subseteq mishaps',
         tenant' # tenant /\ Crossed(h) => "overlapped" \in mishaps'
  PROVE  Touches(h) /\ \A m : m # hook[h].event /\ Told(m)' => Told(m)
<1>0. BillingType
  BY DEF BillingInv
<1>1. Rests(h) /\ acked' = acked \cup {hook[h].event}
  BY <1>0, ItRests DEF Answers
<1>2. Touches(h)
  BY <1>0, <1>1 DEF Touches, Rests, AtPc, BillingType
<1> QED
  BY <1>0, <1>1, <1>2, AtRecordAfter DEF Told

(* The news that Stripe gave up is not taken: then the row is of that      *)
(* second and lets the tenant in.                                          *)
LEMMA UnappliedKeepsPanel ==
  ASSUME PanelInv, NEW h \in Hooks, SyncWrite(h), ~ Applies(hook[h].row, Ev(h))
  PROVE  FirstOK' /\ UnpaidOK'
<1>0. BillingInv /\ AtPc(h, "write") /\ ~ AtPc(h, "idle") /\ ReadsRow(h)
  BY DEF PanelInv, SyncWrite, AtPc, ReadsRow
<1>n. PICK n : n = hook[h].event
  OBVIOUS
<1>1. /\ Answers(h) /\ UNCHANGED <<scope, now, events, stripe, tenant, ledger, cut>>
      /\ mishaps \subseteq mishaps' /\ tenant \in TenantRow
  BY <1>0 DEF SyncWrite, atStripe, BillingInv, BillingType
<1>2. Touches(h) /\ \A m : m # n /\ Told(m)' => Told(m)
  BY <1>0, <1>1, <1>n, AnswerTouches
<1>3. ASSUME NEW m \in DOMAIN events, mishaps' \subseteq {"softened"}, Latest(m),
             events[m].status = "unpaid", m = n
      PROVE  /\ tenant.lastAt = events[m].at
             /\ tenant.status \in ALLOWED_SUB_STATUSES \cup {"unpaid"}
  <2>1. events[m] = Ev(h) /\ "overlapped" \notin mishaps
    BY <1>1, <1>3, <1>n DEF Ev
  <2>2. /\ hook[h].row = tenant /\ tenant.lastAt \in Nat /\ events[m].at \in Nat
        /\ tenant.lastAt <= events[m].at /\ WellSent(events[m], now)
    BY <1>0, <1>3, <2>1, InHand
  <2>3. ~ IsStaleEvent(tenant, events[m]) /\ ~ Superseded(tenant, events[m])
    BY <1>3, <2>2 DEF IsStaleEvent, Superseded, WellSent
  <2>4. IsRegressiveSameSecond(tenant, events[m])
    BY <2>1, <2>2, <2>3 DEF Applies
  <2> QED
    BY <2>2, <2>4 DEF IsRegressiveSameSecond, Subscribed
<1> QED
  BY <1>0, <1>1, <1>2, <1>3, <1>n, UnpaidIsJudged

(* Whichever event is written after that news, if one is, says the same.   *)
LEMMA AppliedKeepsPanel ==
  ASSUME PanelInv, NEW h \in Hooks, SyncWrite(h), Applies(hook[h].row, Ev(h))
  PROVE  FirstOK' /\ UnpaidOK'
<1>0. /\ BillingInv /\ AtPc(h, "write") /\ ~ AtPc(h, "idle") /\ ReadsRow(h)
      /\ Ev(h).type \in Writing
  BY DEF PanelInv, SyncWrite, AtPc, ReadsRow, Writing, Telling
<1>n. PICK n : n = hook[h].event
  OBVIOUS
<1> DEFINE e == Ev(h)
<1>1. /\ n \in DOMAIN events /\ e = events[n] /\ e \in EventRow /\ e.at \in Nat
      /\ WellSent(e, now) /\ tenant \in TenantRow /\ tenant.lastAt \in Nat
      /\ "overlapped" \notin mishaps => hook[h].row = tenant
  BY <1>0, <1>n, InHand DEF Ev
<1>2. /\ tenant' = [tenant EXCEPT
               !.sub = e.sub, !.status = e.status,
               !.until = e.until, !.plan = e.plan, !.lastAt = e.at,
               !.state = IF e.type = "deleted" THEN "CANCELLED"
                         ELSE IF e.status \in ALLOWED_SUB_STATUSES THEN "ACTIVE" ELSE @]
      /\ Suffers("overlapped", Crossed(h)) /\ GoesOn(h)
      /\ UNCHANGED <<scope, now, events, stripe, acked, ledger, cut>>
  BY DEF SyncWrite, atStripe
<1> HIDE DEF e
<1>3. tenant' \in TenantRow /\ tenant'.status = e.status /\ tenant'.lastAt = e.at
  BY <1>1, <1>2 DEF TenantRow, EventRow
<1>4. mishaps \subseteq mishaps' /\ (Crossed(h) => "overlapped" \in mishaps')
  BY <1>2 DEF Suffers
<1>5. Touches(h) /\ \A m : m # n /\ Told(m)' => Told(m)
  BY <1>0, <1>2, <1>3, <1>4, <1>n, GoingOnTouches
<1>6. ASSUME NEW m \in DOMAIN events, mishaps' \subseteq {"softened"}, Latest(m),
             events[m].status = "unpaid",
             m = n \/ tenant.lastAt = events[m].at
      PROVE  tenant'.lastAt = events[m].at /\ tenant'.status = "unpaid"
  <2>1. CASE m = n
    BY <1>1, <1>3, <1>6, <2>1
  <2>2. CASE m # n
    <3>1. "overlapped" \notin mishaps
      BY <1>4, <1>6
    <3>2. ~ IsStaleEvent(tenant, e)
      BY <1>1, <3>1 DEF Applies, e
    <3>3. e.at = events[m].at
      <4>1. e.at <= events[m].at
        BY <1>0, <1>6, InHand DEF e
      <4> QED
        BY <1>1, <1>6, <2>2, <3>2, <4>1 DEF IsStaleEvent
    <3>4. OneAct(n, m) /\ WellSent(events[m], now) /\ events[m].type \in Telling
      BY <1>0, <1>6, <1>n, InHand DEF Latest
    <3>5. events[m].type = "updated" /\ e.type \in {"created", "updated", "deleted"}
      BY <1>6, <3>4 DEF WellSent, Telling, SyncWrite, e
    <3>6. FALSE
      BY <1>1, <1>6, <2>2, <3>3, <3>4, <3>5 DEF OneAct, Telling
    <3> QED
      BY <3>6
  <2> QED
    BY <2>1, <2>2
<1> QED
  BY <1>0, <1>5, <1>6, <1>n, UnpaidIsJudged

(* checkout.session.completed leaves both alone, but for a row that tells  *)
(* nothing yet; a failed payment leaves the tenant in.                     *)
LEMMA OtherWritesKeepPanel ==
  ASSUME PanelInv, NEW h \in Hooks,
         \/ Checkout(h) \/ CheckoutStatus(h)
         \/ InvoiceFailed(h) /\ Dunned(hook[h].row, Ev(h))
  PROVE  FirstOK' /\ UnpaidOK'
<1>0. BillingInv /\ ~ AtPc(h, "idle")
  BY DEF PanelInv, Checkout, CheckoutStatus, InvoiceFailed, AtPc
<1>n. PICK n : n = hook[h].event
  OBVIOUS
<1> DEFINE e == Ev(h)
<1>1. /\ e = events[n] /\ e \in EventRow /\ e.at \in Nat
      /\ tenant \in TenantRow /\ tenant.lastAt \in Nat
      /\ Latest(n) => e.type \in Telling
  BY <1>0, <1>n, InHand DEF Ev, Latest
<1> HIDE DEF e
<1>2. CASE Checkout(h)
  <2>1. /\ tenant' = [tenant EXCEPT !.sub = e.sub] /\ e.type = "completed" /\ GoesOn(h)
        /\ UNCHANGED <<scope, now, events, stripe, acked, ledger, cut>>
        /\ mishaps \subseteq mishaps' /\ (Crossed(h) => "overlapped" \in mishaps')
    BY <1>2 DEF Checkout, atStripe, e
  <2>2. /\ tenant' \in TenantRow /\ tenant'.status = tenant.status
        /\ tenant'.lastAt = tenant.lastAt
    BY <1>1, <2>1 DEF TenantRow, EventRow
  <2>3. Touches(h) /\ \A m : m # n /\ Told(m)' => Told(m)
    BY <1>0, <1>n, <2>1, <2>2, GoingOnTouches
  <2>4. ~ Latest(n)
    BY <1>1, <2>1 DEF Telling
  <2> QED
    BY <1>0, <1>n, <2>2, <2>3, <2>4, UnpaidIsJudged
<1>3. CASE CheckoutStatus(h)
  <2>1. /\ tenant' = [tenant EXCEPT !.status = IF @ = "none" THEN "incomplete" ELSE @]
        /\ e.type = "completed" /\ Answers(h) /\ Suffers("overlapped", Crossed(h))
        /\ UNCHANGED <<scope, now, events, stripe, ledger, cut>>
    BY <1>3 DEF CheckoutStatus, atStripe, e
  <2>2. /\ tenant' \in TenantRow /\ tenant'.lastAt = tenant.lastAt
        /\ tenant.status # "none" => tenant'.status = tenant.status
    BY <1>1, <2>1 DEF TenantRow, RowStatus
  <2>3. Touches(h) /\ \A m : m # n /\ Told(m)' => Told(m)
    BY <1>0, <1>n, <2>1, <2>2, AnswerTouches DEF Suffers
  <2>4. ~ Latest(n)
    BY <1>1, <2>1 DEF Telling
  <2> QED
    BY <1>0, <1>n, <2>2, <2>3, <2>4, UnpaidIsJudged DEF ALLOWED_SUB_STATUSES
<1>4. CASE InvoiceFailed(h) /\ Dunned(hook[h].row, Ev(h))
  <2>1. /\ tenant' = [tenant EXCEPT !.status = "past_due", !.lastAt = e.at] /\ GoesOn(h)
        /\ Suffers("overlapped", Crossed(h)) /\ e.type = "failed" /\ AtPc(h, "write")
        /\ UNCHANGED <<scope, now, events, stripe, acked, ledger, cut>>
    BY <1>4 DEF InvoiceFailed, atStripe, e
  <2>2. tenant' \in TenantRow /\ tenant'.status = "past_due" /\ tenant'.lastAt = e.at
    BY <1>1, <2>1 DEF TenantRow, RowStatus
  <2>3. Touches(h) /\ mishaps \subseteq mishaps' /\ \A m : m # n /\ Told(m)' => Told(m)
    BY <1>0, <1>n, <2>1, <2>2, GoingOnTouches DEF Suffers
  <2>4. ~ Latest(n)
    BY <1>1, <2>1 DEF Telling
  <2>5. ASSUME NEW m \in DOMAIN events, mishaps' \subseteq {"softened"}, Latest(m),
               tenant.lastAt = events[m].at
        PROVE  tenant'.lastAt = events[m].at
    <3>1. hook[h].row = tenant
      BY <1>0, <2>1, <2>3, <2>5, InHand DEF ReadsRow, e
    <3>2. ~ IsStaleEvent(tenant, e)
      BY <1>4, <3>1 DEF Dunned, e
    <3>3. e.at <= events[m].at
      BY <1>0, <2>1, <2>5, InHand DEF Writing, e
    <3> QED
      BY <1>1, <2>2, <2>5, <3>2, <3>3 DEF IsStaleEvent
  <2> QED
    BY <1>0, <1>n, <2>2, <2>3, <2>4, <2>5, UnpaidIsJudged DEF ALLOWED_SUB_STATUSES
<1> QED
  BY <1>2, <1>3, <1>4

LEMMA PanelKept == PanelInv /\ [Next]_vars => PanelInv'
<1> SUFFICES ASSUME PanelInv, [Next]_vars PROVE FirstOK' /\ UnpaidOK'
  BY NextKeeps DEF PanelInv
<1>0. BillingInv
  BY DEF PanelInv
<1>1. CASE StripeActs
  BY <1>1, ActKeepsPanel
<1>2. CASE \E h \in Hooks, n \in DOMAIN events : Deliver(h, n)
  BY <1>0, <1>2, DeliverPasses, PassKeepsPanel
<1>3. ASSUME NEW h \in Hooks, HookStep(h) PROVE FirstOK' /\ UnpaidOK'
  <2>1. CASE SyncWrite(h)
    BY <2>1, UnappliedKeepsPanel, AppliedKeepsPanel
  <2>2. CASE Checkout(h) \/ CheckoutStatus(h)
    BY <2>2, OtherWritesKeepPanel
  <2>3. CASE InvoiceFailed(h)
    <3>1. CASE ~ Dunned(hook[h].row, Ev(h))
      <4>1. /\ Answers(h) /\ Ev(h).type \notin Telling /\ ~ AtPc(h, "idle")
            /\ UNCHANGED <<scope, now, events, stripe, tenant, mishaps, cut, ledger>>
        BY <2>3, <3>1 DEF InvoiceFailed, atStripe, Telling, AtPc
      <4> QED
        BY <1>0, <4>1, AnswerPasses, PassKeepsPanel
    <3> QED
      BY <2>3, <3>1, OtherWritesKeepPanel
  <2>4. CASE \E kept \in BOOLEAN :
          \/ SyncRecord(h, kept) \/ InvoicePaid(h, kept)
          \/ InvoiceFailedRecord(h, kept) \/ ChargeRefunded(h, kept)
    BY <1>0, <2>4, RecordPasses, PassKeepsPanel
  <2> QED
    BY <1>3, <2>1, <2>2, <2>3, <2>4 DEF HookStep
<1>4. CASE \E h \in Hooks : HookFails(h)
  BY <1>0, <1>4, FailPasses, PassKeepsPanel
<1>5. CASE UNCHANGED <<tenant, stripe, events, acked, hook, history>>
  <2>1. \A n : (Latest(n)' <=> Latest(n)) /\ (Told(n)' <=> Told(n))
    BY <1>5 DEF Latest, Told, AtRecord, AtPc
  <2>2. Created' = Created /\ mishaps' = mishaps
    BY <1>5 DEF Created, history
  <2> QED
    BY <1>5, <2>1, <2>2 DEF PanelInv, FirstOK, UnpaidOK
<1>6. TrialSweep \/ Tick \/ UNCHANGED vars =>
        UNCHANGED <<tenant, stripe, events, acked, hook, history>>
  BY DEF TrialSweep, Tick, vars, rows, atStripe
<1> QED
  BY <1>1, <1>2, <1>3, <1>4, <1>5, <1>6 DEF Next

LEMMA PanelStart == Init => PanelInv
<1> SUFFICES ASSUME Init PROVE FirstOK /\ UnpaidOK
  BY InitBilling DEF PanelInv
<1>1. DOMAIN events = {} /\ tenant.sub = None /\ tenant.status = "none"
  BY DEF Init
<1> QED
  BY <1>1 DEF FirstOK, UnpaidOK, Latest

-----------------------------------------------------------------------------
(* The gate, and the days of the trial as all who count them count them.   *)
LEMMA TrialIsCountedOnce ==
  ASSUME NEW day \in Nat, NEW half \in Halves, NEW since \in Halves
  PROVE  LET t == Instant(day, half)  ends == Instant(TrialEnd, since) IN
         /\ DayOf(t) = day
         /\ IsTrialActive(ends, t) <=> day <= TrialEnd
         /\ TrialCountedOnce(ends, t)
<1> DEFINE t == Instant(day, half)  ends == Instant(TrialEnd, since)
<1>0. TrialEnd \in Nat
  BY BillingAssumption DEF BillingAssumption
<1>1. DayOf(t) = day /\ DayOf(ends) = TrialEnd
  BY <1>0 DEF DayOf, Instant, Halves
<1>2. TrialExpiresAt(ends) = 2 * TrialEnd + 2 /\ t = 2 * day + half /\ half \in {0, 1}
  BY <1>0, <1>1 DEF TrialExpiresAt, Instant, Halves
<1>3. IsTrialActive(ends, t) <=> day <= TrialEnd
  BY <1>0, <1>2 DEF IsTrialActive
<1>4. TrialActive(DayOf(t)) <=> day <= TrialEnd
  BY <1>1 DEF TrialActive
<1>5. TrialDaysLeft(ends, t) = TrialEnd - day
  BY <1>1 DEF TrialDaysLeft
<1>6. ASSUME day <= TrialEnd
      PROVE  /\ t + 2 * TrialRemainingLabel(TrialDaysLeft(ends, t)) < TrialExpiresAt(ends)
             /\ t + 2 * StripeTrialDays(ends, t) - TrialExpiresAt(ends) \in 0..1
  <2>1. TrialRemainingLabel(TrialEnd - day) = TrialEnd - day
    BY <1>0, <1>6 DEF TrialRemainingLabel, Max
  <2> HIDE DEF t, ends
  <2>2. StripeTrialDays(ends, t) = (TrialExpiresAt(ends) - t + 1) \div 2
    BY <1>3, <1>6 DEF StripeTrialDays
  <2>3. \A a \in Int : (2 * a + (1 - half)) \div 2 = a
    BY <1>2
  <2>4. PICK a \in Int : a = TrialEnd + 1 - day
    BY <1>0
  <2>5. TrialExpiresAt(ends) - t + 1 = 2 * a + (1 - half)
    BY <1>0, <1>2, <2>4
  <2>6. StripeTrialDays(ends, t) = TrialEnd + 1 - day
    BY <2>2, <2>3, <2>4, <2>5
  <2> QED
    BY <1>0, <1>2, <1>5, <1>6, <2>1, <2>6
<1>7. ~ IsTrialActive(ends, t) => StripeTrialDays(ends, t) = 0
  BY DEF StripeTrialDays
<1> HIDE DEF t, ends
<1>8. TrialCountedOnce(ends, t)
  BY <1>3, <1>4, <1>6, <1>7 DEF TrialCountedOnce
<1> QED
  BY <1>1, <1>3, <1>8 DEF t, ends

(* What the row tells of a tenant who is locked out, once Stripe has its   *)
(* answers: nothing was ever bought, the contract ended, or it was given   *)
(* up and can still be paid.                                               *)
LEMMA WhoIsLockedOut ==
  ASSUME PanelInv, Quiet, ~ Excused, ~ Subscribed(tenant)
  PROVE  \/ Created = {} /\ Going = {} /\ tenant.sub = None /\ tenant.status = "none"
         \/ Created # {} /\ Going = {} /\ tenant.status = "canceled"
         \/ Created # {} /\ Going # {} /\ tenant.status = "unpaid"
<1>0. BillingInv /\ mishaps \subseteq {"softened"} /\ Cardinality(Created) \in Nat
  BY CountCreated DEF PanelInv, BillingInv, Excused
<1>1. CASE Created = {}
  BY <1>1 DEF PanelInv, FirstOK, Going
<1>2. CASE Created # {}
  <2>1. PICK n \in DOMAIN events : Latest(n)
    BY <1>0, <1>2 DEF BillingInv, StripeOK
  <2>2. events[n].status = Newest.status /\ Told(n) /\ WellSent(events[n], now)
    BY <1>0, <2>1 DEF BillingInv, StripeOK, EventsOK, Quiet, Told
  <2>3. Newest.status \in {"active", "past_due", "unpaid", "canceled"}
    BY <2>1, <2>2 DEF WellSent, Latest, Telling
  <2>4. Cardinality(Created) \in Created
    BY <1>0, <1>2 DEF BillingInv, StripeOK
  <2>5. Going \subseteq {Cardinality(Created)}
    BY <1>0 DEF BillingInv, StripeOK
  <2>6. CASE Newest.status = "unpaid"
    <3>1. tenant.status \in ALLOWED_SUB_STATUSES \cup {"unpaid"}
      BY <1>0, <2>1, <2>2, <2>6 DEF PanelInv, UnpaidOK
    <3>2. Cardinality(Created) \in Going
      BY <2>4, <2>6 DEF Going, Newest, DEAD_SUB_STATUSES
    <3> QED
      BY <1>2, <3>1, <3>2 DEF Subscribed
  <2>7. CASE Newest.status # "unpaid"
    <3>1. tenant.status = Newest.status
      BY <1>0, <1>2, <2>7, QuietShows
    <3>2. tenant.status = "canceled"
      BY <2>3, <2>7, <3>1 DEF Subscribed, ALLOWED_SUB_STATUSES
    <3>3. Going = {}
      BY <2>5, <3>1, <3>2 DEF Going, Newest, DEAD_SUB_STATUSES
    <3> QED
      BY <1>2, <3>2, <3>3
  <2> QED
    BY <2>6, <2>7
<1> QED
  BY <1>1, <1>2

(* The contract page has no dead end: an owner whom the gate locks out is  *)
(* offered a button that ends it, and is told of that one and of why, once *)
(* Stripe has its answers; the gate says what evaluateBillingAccess says,  *)
(* at every hour, and all count the days of the trial alike.               *)
THEOREM NobodyIsStuck == Spec => []NoDeadEnd
<1>1. ASSUME PanelInv, NEW half \in Halves, NEW since \in Halves,
             NEW shop, shop = [configured |-> TRUE, exempt |-> FALSE],
             NEW t, t = Instant(now, half), NEW ends, ends = Instant(TrialEnd, since),
             NEW state, state = GateState(shop, tenant, ends, t)
      PROVE  /\ (state # "LOCKED") <=> Allowed(tenant, now)
             /\ TrialCountedOnce(ends, t)
             /\ Quiet /\ ~ Excused => LockedFindsAWayOut(state)
  <2>1. now \in Nat
    BY <1>1 DEF PanelInv, BillingInv, BillingType
  <2>2. DayOf(t) = now /\ (IsTrialActive(ends, t) <=> now <= TrialEnd)
        /\ TrialCountedOnce(ends, t)
    BY <1>1, <2>1, TrialIsCountedOnce
  <2>3. /\ (state # "LOCKED") <=> Allowed(tenant, now)
        /\ state = "LOCKED" => ~ Subscribed(tenant)
    BY <1>1, <2>2 DEF GateState, Allowed, TrialActive
  <2>4. ASSUME Quiet, ~ Excused, state = "LOCKED" PROVE LockedFindsAWayOut(state)
    <3>0. Plans # {}
      BY BillingAssumption DEF BillingAssumption
    <3>1. ~ Subscribed(tenant)
      BY <2>3, <2>4
    <3>2. ASSUME NEW result \in Results \ {"success"}
          PROVE  /\ "plans" \in Steps(state, TRUE, result)
                 /\ Created # {} => "portal" \in Steps(state, TRUE, result)
      BY <2>4, <3>0, <3>2
         DEF Steps, PlanCards, ShowPlans, ShowPortal, HasPaymentAccount
    <3>3. CASE tenant.status = "unpaid" /\ Going # {} /\ Created # {}
      BY <3>2, <3>3 DEF LockedFindsAWayOut, LockAdvice, LockTitle, Restores
    <3>4. CASE tenant.status = "canceled" /\ Going = {} /\ Created # {}
      <4>1. Restores("plans")
        BY <3>1, <3>4 DEF Restores, Accepted, DEAD_SUB_STATUSES
      <4> QED
        BY <3>2, <3>4, <4>1 DEF LockedFindsAWayOut, LockAdvice, LockTitle
    <3>5. CASE tenant.status = "none" /\ tenant.sub = None /\ Going = {} /\ Created = {}
      <4>1. Restores("plans")
        BY <3>1, <3>5 DEF Restores, Accepted
      <4> QED
        BY <3>2, <3>5, <4>1 DEF LockedFindsAWayOut, LockAdvice, LockTitle
    <3> QED
      BY <1>1, <2>4, <3>1, <3>3, <3>4, <3>5, WhoIsLockedOut
  <2>5. ASSUME state # "LOCKED" PROVE LockedFindsAWayOut(state)
    BY <2>5, Zenon DEF LockedFindsAWayOut
  <2> QED
    BY <2>2, <2>3, <2>4, <2>5
<1>2. PanelInv => NoDeadEnd
  BY <1>1 DEF NoDeadEnd
<1> QED
  BY <1>2, PanelStart, PanelKept, PTL DEF Spec

-----------------------------------------------------------------------------
(* The money.  An entry of the ledger is the trial's, that of an event, or *)
(* that of one refund; Stripe numbers the refunds of a subscription, and   *)
(* every event that was answered and not cut short has its row.            *)
EntryTypes(type) ==
  CASE type = "created" -> {"SUBSCRIPTION_CREATED"}
    [] type = "updated" -> {"PLAN_CHANGED", "SUBSCRIPTION_UPDATED"}
    [] type = "deleted" -> {"SUBSCRIPTION_CANCELED"}
    [] type = "paid"    -> {"PAYMENT_SUCCEEDED"}
    [] type = "failed"  -> {"PAYMENT_FAILED"}
    [] OTHER            -> {}

TrialRow == [key |-> <<"trial", 0>>, type |-> "TRIAL_STARTED", amount |-> 0]

EventEntry(n, type) ==
  [key |-> <<"event", n>>, type |-> type,
   amount |-> IF events[n].type = "paid" THEN 1 ELSE 0]

RefundEntry(n) ==
  [key |-> <<"refund", events[n].sub, events[n].until>>, type |-> "PAYMENT_REFUNDED",
   amount |-> -1]

Repaid == {n \in DOMAIN events : events[n].type = "refunded"}

RepaidOf(s) == {n \in DOMAIN events : events[n].type = "refunded" /\ events[n].sub = s}

LedgerRow(e) ==
  \/ e = TrialRow
  \/ \E n \in DOMAIN events : \E type \in EntryTypes(events[n].type) : e = EventEntry(n, type)
  \/ \E n \in Repaid : e = RefundEntry(n)

(* What Stripe says it took or paid back with event n.                     *)
MoneyIn(n) ==
  /\ events[n].type = "paid" => EventEntry(n, "PAYMENT_SUCCEEDED") \in ledger
  /\ events[n].type = "refunded" => RefundEntry(n) \in ledger

SameRefund(m, n) ==
  events[m].sub = events[n].sub /\ events[m].until = events[n].until

RefundsNumbered ==
  /\ \A m, n \in Repaid : SameRefund(m, n) => m = n
  /\ \A n \in Repaid : events[n].until \in 1..Refunds(events[n].sub)
  /\ \A s \in Subs : \A k \in 1..Refunds(s) :
       \E n \in Repaid : events[n].sub = s /\ events[n].until = k

RowsOK ==
  /\ TrialRow \in ledger /\ \A e \in ledger : LedgerRow(e)
  /\ \A n \in acked \ cut : MoneyIn(n)
  /\ \A n \in DOMAIN events : events[n].at > 0

(* Each payment was told by as many events as Stripe was asked for.        *)
PaidIn(m) == {n \in DOMAIN events : events[n].type = "paid" /\ MonthOf(events[n].at) = m}
DaysIn(m) == {d \in taken : MonthOf(d) = m}
CashTold ==
  /\ IsFiniteSet(taken) /\ \A d \in taken : d \in Nat /\ d <= now
  /\ \A m : Cardinality(PaidIn(m)) = scope.invoices * Cardinality(DaysIn(m))

MoneyInv == PanelInv /\ RowsOK /\ RefundsNumbered /\ CashTold

LEMMA RepaidIsFinite ==
  ASSUME BillingType
  PROVE  /\ IsFiniteSet(DOMAIN events) /\ IsFiniteSet(Repaid)
         /\ \A s : IsFiniteSet(RepaidOf(s)) /\ Refunds(s) \in Nat
<1>1. IsFiniteSet(DOMAIN events)
  BY LenProperties, FS_Interval DEF BillingType
<1>2. IsFiniteSet(Repaid) /\ \A s : IsFiniteSet(RepaidOf(s))
  BY <1>1, FS_Subset DEF Repaid, RepaidOf
<1>3. \A s : Refunds(s) \in Nat
  BY <1>2, FS_CardinalityType DEF Refunds, RepaidOf
<1> QED
  BY <1>1, <1>2, <1>3

(* An act of Stripe adds at most one refund, and gives it the next number. *)
LEMMA ActNumbers ==
  ASSUME BillingType, EventsOK, RefundsNumbered, NEW s, NEW new, Acted(s, new)
  PROVE  RefundsNumbered'
<1>0. BillingType' /\ s \in Subs
  BY ActType DEF Acted
<1>1. CASE Changes(s, new)
  <2>1. \A n \in DOMAIN events' \ DOMAIN events : events'[n].type # "refunded"
    BY <1>1, ActEvents DEF Changes
  <2>2. Repaid' = Repaid /\ \A n \in Repaid : events'[n] = events[n]
    BY <2>1, ActEvents DEF Repaid
  <2>3. \A o : RepaidOf(o)' = RepaidOf(o)
    BY <2>1, ActEvents DEF RepaidOf
  <2>4. \A o : Refunds(o)' = Refunds(o)
    BY <2>3 DEF Refunds, RepaidOf
  <2> QED
    BY <2>2, <2>4 DEF RefundsNumbered, SameRefund
<1>2. CASE Repays(s, new)
  <2>1. PICK c \in EventRow :
          new = <<c>> /\ c.type = "refunded" /\ c.until = Refunds(s) + 1
    BY <1>2 DEF Repays
  <2>2. PICK m : m = Len(events) + 1
    OBVIOUS
  <2>3. DOMAIN new = {1} /\ new[1] = c
    BY <2>1, OneIsSent
  <2>4. /\ m \in DOMAIN events' \ DOMAIN events /\ events'[m] = c /\ c.sub = s
        /\ DOMAIN events' = DOMAIN events \cup {m}
        /\ \A n \in DOMAIN events : events'[n] = events[n]
    <3>1. 1 \in DOMAIN new /\ \A k \in DOMAIN new : k = 1
      BY <2>3
    <3>2. m \in DOMAIN events' \ DOMAIN events /\ events'[m] = c /\ c.sub = s
      BY <2>2, <2>3, <3>1, ActEvents
    <3>3. \A n \in DOMAIN events' \ DOMAIN events : n = m
      BY <2>2, <3>1, ActEvents
    <3>4. DOMAIN events \subseteq DOMAIN events' /\ \A n \in DOMAIN events : events'[n] = events[n]
      BY ActEvents
    <3> QED
      BY <3>2, <3>3, <3>4
  <2>5. Repaid' = Repaid \cup {m} /\ m \notin Repaid
    BY <2>1, <2>4 DEF Repaid
  <2>6. \A n \in Repaid : events'[n] = events[n] /\ n # m
    BY <2>4, <2>5 DEF Repaid
  <2>7. ASSUME NEW o, o # s PROVE Refunds(o)' = Refunds(o)
    <3>1. RepaidOf(o)' = RepaidOf(o)
      BY <2>4, <2>7 DEF RepaidOf
    <3> QED
      BY <3>1 DEF Refunds, RepaidOf
  <2>8. Refunds(s)' = Refunds(s) + 1
    <3>1. RepaidOf(s)' = RepaidOf(s) \cup {m} /\ m \notin RepaidOf(s)
      BY <2>1, <2>4 DEF RepaidOf
    <3>2. IsFiniteSet(RepaidOf(s))
      BY RepaidIsFinite
    <3>3. Refunds(s) = Cardinality(RepaidOf(s)) /\ Refunds(s)' = Cardinality(RepaidOf(s)')
      BY DEF Refunds, RepaidOf
    <3> QED
      BY <3>1, <3>2, <3>3, FS_AddElement
  <2>9. \A o : Refunds(o) \in Nat
    BY RepaidIsFinite
  <2>10. ASSUME NEW n \in Repaid PROVE ~ SameRefund(m, n)' /\ ~ SameRefund(n, m)'
    <3>1. events[n].sub = s => events[n].until # Refunds(s) + 1
      BY <2>9 DEF RefundsNumbered
    <3> QED
      BY <2>1, <2>4, <2>6, <3>1 DEF SameRefund
  <2>11. \A i, j \in Repaid' : SameRefund(i, j)' => i = j
    BY <2>5, <2>6, <2>10 DEF RefundsNumbered, SameRefund
  <2>12. ASSUME NEW n \in Repaid' PROVE events'[n].until \in 1..Refunds(events[n].sub)'
    <3>1. CASE n = m
      BY <2>1, <2>4, <2>8, <2>9, <3>1
    <3>2. CASE n \in Repaid /\ events[n].sub = s
      BY <2>6, <2>8, <2>9, <3>2 DEF RefundsNumbered
    <3>3. CASE n \in Repaid /\ events[n].sub # s
      BY <2>6, <2>7, <3>3 DEF RefundsNumbered
    <3> QED
      BY <2>5, <3>1, <3>2, <3>3
  <2>13. ASSUME NEW o \in Subs, NEW k \in 1..Refunds(o)'
         PROVE  \E n \in Repaid' : events'[n].sub = o /\ events'[n].until = k
    <3>1. CASE k \in 1..Refunds(o)
      <4>1. PICK n \in Repaid : events[n].sub = o /\ events[n].until = k
        BY <3>1 DEF RefundsNumbered
      <4> QED
        BY <2>5, <2>6, <4>1
    <3>2. CASE k \notin 1..Refunds(o)
      <4>1. o = s /\ k = Refunds(s) + 1
        BY <2>7, <2>8, <2>9, <2>13, <3>2
      <4> QED
        BY <2>1, <2>4, <2>5, <4>1
    <3> QED
      BY <3>1, <3>2
  <2> QED
    BY <2>11, <2>12, <2>13 DEF RefundsNumbered
<1> QED
  BY <1>1, <1>2 DEF Acted

LEMMA ActRows ==
  ASSUME BillingType, EventsOK, RowsOK, NEW s, NEW new, Acted(s, new)
  PROVE  RowsOK'
<1>1. ledger' = ledger /\ acked' = acked /\ cut' = cut
  BY DEF Acted, rows
<1>2. /\ DOMAIN events \subseteq DOMAIN events' /\ Repaid \subseteq Repaid'
      /\ \A n \in DOMAIN events : events'[n] = events[n]
  BY ActEvents DEF Repaid
<1>3. ASSUME NEW n \in DOMAIN events
      PROVE  /\ \A type : EventEntry(n, type)' = EventEntry(n, type)
             /\ RefundEntry(n)' = RefundEntry(n)
  BY <1>2 DEF EventEntry, RefundEntry
<1>4. ASSUME NEW e, LedgerRow(e) PROVE LedgerRow(e)'
  <2>1. CASE \E n \in DOMAIN events :
               \E type \in EntryTypes(events[n].type) : e = EventEntry(n, type)
    BY <1>2, <1>3, <2>1 DEF LedgerRow
  <2>2. CASE \E n \in Repaid : e = RefundEntry(n)
    BY <1>2, <1>3, <2>2 DEF LedgerRow, Repaid
  <2> QED
    BY <1>4, <2>1, <2>2 DEF LedgerRow
<1>5. \A n \in acked \ cut : n \in DOMAIN events /\ MoneyIn(n)
  BY DEF RowsOK, BillingType
<1>6. \A n \in acked \ cut : MoneyIn(n)'
  BY <1>1, <1>2, <1>3, <1>5 DEF MoneyIn
<1>7. \A n \in DOMAIN events' : events'[n].at > 0
  BY <1>2, ActEvents DEF RowsOK
<1> QED
  BY <1>1, <1>4, <1>6, <1>7 DEF RowsOK

(* A step of a request enters rows of its event, and all of them when it   *)
(* answers, or cuts the event short.                                       *)
Books ==
  /\ events' = events /\ ledger \subseteq ledger' /\ cut \subseteq cut'
  /\ \A e \in ledger' \ ledger : LedgerRow(e)
  /\ \A n \in acked' \ acked : n \in cut' \/ MoneyIn(n)'

LEMMA BooksKeep ==
  ASSUME BillingType, MoneyInv, Books
  PROVE  RowsOK' /\ RefundsNumbered'
<1>1. /\ Repaid' = Repaid /\ \A n, type : EventEntry(n, type)' = EventEntry(n, type)
      /\ \A n : RefundEntry(n)' = RefundEntry(n) /\ Refunds(n)' = Refunds(n)
  BY DEF Books, Repaid, EventEntry, RefundEntry, Refunds
<1>2. \A e : LedgerRow(e)' <=> LedgerRow(e)
  BY <1>1 DEF LedgerRow, Books
<1>3. \A n \in acked' \ cut' : MoneyIn(n)'
  <2> SUFFICES ASSUME NEW n \in acked' \ cut' PROVE MoneyIn(n)'
    OBVIOUS
  <2>1. CASE n \in acked
    <3>1. MoneyIn(n)
      BY <2>1 DEF MoneyInv, RowsOK, Books
    <3> QED
      BY <1>1, <3>1 DEF MoneyIn, Books
  <2>2. CASE n \notin acked
    BY <2>2 DEF Books
  <2> QED
    BY <2>1, <2>2
<1>4. RefundsNumbered'
  BY <1>1 DEF MoneyInv, RefundsNumbered, SameRefund, Books
<1> QED
  BY <1>2, <1>3, <1>4 DEF MoneyInv, RowsOK, Books

(* The row of an event, entered unless it is there.                        *)
LEMMA EventIsBooked ==
  ASSUME MoneyInv, NEW n \in DOMAIN events, NEW type \in EntryTypes(events[n].type),
         NEW amount, amount = IF events[n].type = "paid" THEN 1 ELSE 0,
         NEW new, new = Entered(<<"event", n>>, type, amount)
  PROVE  /\ ledger \subseteq new /\ \A e \in new \ ledger : LedgerRow(e)
         /\ events[n].type = "paid" => EventEntry(n, "PAYMENT_SUCCEEDED") \in new
<1>1. EventEntry(n, type) = [key |-> <<"event", n>>, type |-> type, amount |-> amount]
  BY DEF EventEntry
<1>2. LedgerRow(EventEntry(n, type))
  BY DEF LedgerRow
<1>3. CASE \E e \in ledger : e.key = <<"event", n>>
  <2>1. new = ledger
    BY <1>3 DEF Entered
  <2>2. PICK e \in ledger : e.key = <<"event", n>>
    BY <1>3
  <2>3. LedgerRow(e)
    BY DEF MoneyInv, RowsOK
  <2>4. e # TrialRow /\ \A m : e # RefundEntry(m)
    BY <2>2 DEF TrialRow, RefundEntry
  <2>5. PICK m \in DOMAIN events : \E t \in EntryTypes(events[m].type) : e = EventEntry(m, t)
    BY <2>3, <2>4 DEF LedgerRow
  <2>6. m = n
    BY <2>2, <2>5 DEF EventEntry
  <2>7. events[n].type = "paid" => EventEntry(n, "PAYMENT_SUCCEEDED") \in ledger
    BY <2>5, <2>6 DEF EntryTypes
  <2> QED
    BY <2>1, <2>7
<1>4. CASE ~ \E e \in ledger : e.key = <<"event", n>>
  <2>1. new = ledger \cup {EventEntry(n, type)}
    BY <1>1, <1>4 DEF Entered
  <2>2. events[n].type = "paid" => type = "PAYMENT_SUCCEEDED"
    BY DEF EntryTypes
  <2> QED
    BY <1>2, <2>1, <2>2
<1> QED
  BY <1>3, <1>4

(* An answer, with what it enters: kept, or lost with notice.              *)
LEMMA AnswerBooks ==
  ASSUME MoneyInv, NEW h \in Hooks, ~ AtPc(h, "idle"), NEW n, n = hook[h].event,
         Answers(h), events' = events, NEW new, NEW kept \in BOOLEAN, Enters(h, new, kept),
         ledger \subseteq new, \A e \in new \ ledger : LedgerRow(e),
         events[n].type = "paid" => EventEntry(n, "PAYMENT_SUCCEEDED") \in new,
         events[n].type = "refunded" => RefundEntry(n) \in new
  PROVE  Books
<1>1. acked' = acked \cup {n}
  BY DEF Answers
<1>2. CASE kept
  <2>1. ledger' = new /\ cut' = cut
    BY <1>2 DEF Enters
  <2>2. MoneyIn(n)'
    BY <2>1 DEF MoneyIn, EventEntry, RefundEntry
  <2> QED
    BY <1>1, <2>1, <2>2 DEF Books
<1>3. CASE ~ kept
  <2>1. ledger' = ledger /\ cut' = cut \cup {n}
    BY <1>3 DEF Enters
  <2> QED
    BY <1>1, <2>1 DEF Books
<1> QED
  BY <1>2, <1>3

LEMMA RecordBooks ==
  ASSUME MoneyInv, NEW h \in Hooks, NEW kept \in BOOLEAN,
         \/ SyncRecord(h, kept) \/ InvoicePaid(h, kept) \/ InvoiceFailedRecord(h, kept)
  PROVE  Books
<1>0. /\ ~ AtPc(h, "idle") /\ Answers(h) /\ events' = events
      /\ Ev(h).type \in {"created", "updated", "deleted", "paid", "failed"}
  BY DEF SyncRecord, InvoicePaid, InvoiceFailedRecord, AtPc, atStripe
<1>n. PICK n \in DOMAIN events : n = hook[h].event
  BY <1>0 DEF MoneyInv, PanelInv, BillingInv, BillingType
<1>1. events[n] = Ev(h) /\ Key(h) = <<"event", n>>
  BY <1>n DEF Ev, Key
<1>2. PICK type \in EntryTypes(events[n].type), amount \in {0, 1} :
        /\ Enters(h, Entered(Key(h), type, amount), kept)
        /\ amount = IF events[n].type = "paid" THEN 1 ELSE 0
  <2>1. CASE SyncRecord(h, kept)
    <3>1. /\ Enters(h, Entered(Key(h), LedgerType(hook[h].row, Ev(h)), 0), kept)
          /\ Ev(h).type \in {"created", "updated", "deleted"}
      BY <2>1 DEF SyncRecord
    <3>2. LedgerType(hook[h].row, Ev(h)) \in EntryTypes(Ev(h).type)
      BY <3>1 DEF LedgerType, EntryTypes
    <3> QED
      BY <1>1, <3>1, <3>2
  <2>2. CASE InvoicePaid(h, kept)
    <3>1. /\ Enters(h, Entered(Key(h), "PAYMENT_SUCCEEDED", 1), kept)
          /\ Ev(h).type = "paid"
      BY <2>2 DEF InvoicePaid
    <3>2. "PAYMENT_SUCCEEDED" \in EntryTypes(Ev(h).type)
      BY <3>1 DEF EntryTypes
    <3> QED
      BY <1>1, <3>1, <3>2
  <2>3. CASE InvoiceFailedRecord(h, kept)
    <3>1. /\ Enters(h, Entered(Key(h), "PAYMENT_FAILED", 0), kept)
          /\ Ev(h).type = "failed"
      BY <2>3 DEF InvoiceFailedRecord
    <3>2. "PAYMENT_FAILED" \in EntryTypes(Ev(h).type)
      BY <3>1 DEF EntryTypes
    <3> QED
      BY <1>1, <3>1, <3>2
  <2> QED
    BY <2>1, <2>2, <2>3
<1>3. PICK new : new = Entered(<<"event", n>>, type, amount)
  OBVIOUS
<1>4. /\ ledger \subseteq new /\ \A e \in new \ ledger : LedgerRow(e)
      /\ events[n].type = "paid" => EventEntry(n, "PAYMENT_SUCCEEDED") \in new
  BY <1>2, <1>3, EventIsBooked
<1> QED
  BY <1>0, <1>1, <1>2, <1>3, <1>4, <1>n, AnswerBooks

(* charge.refunded lists the refunds of the charge up to that one: each is *)
(* an event's.                                                             *)
LEMMA RefundBooks ==
  ASSUME MoneyInv, NEW h \in Hooks, NEW kept \in BOOLEAN, ChargeRefunded(h, kept)
  PROVE  Books
<1>0. /\ ~ AtPc(h, "idle") /\ Answers(h) /\ events' = events /\ Ev(h).type = "refunded"
      /\ Enters(h, ledger \cup RefundRows(Ev(h)), kept)
  BY DEF ChargeRefunded, AtPc, atStripe
<1>n. PICK n \in DOMAIN events : n = hook[h].event
  BY <1>0 DEF MoneyInv, PanelInv, BillingInv, BillingType
<1>1. events[n] = Ev(h) /\ n \in Repaid
  BY <1>0, <1>n DEF Ev, Repaid
<1>2. BillingType /\ events[n].sub \in Subs
  BY EventsAreRows DEF MoneyInv, PanelInv, BillingInv, BillingType, EventRow
<1>3. events[n].until \in 1..Refunds(events[n].sub) /\ Refunds(events[n].sub) \in Nat
  BY <1>1, <1>2, RepaidIsFinite DEF MoneyInv, RefundsNumbered
<1>4. ASSUME NEW e \in RefundRows(Ev(h)) PROVE LedgerRow(e)
  <2>1. PICK k \in 1..events[n].until :
          e = [key |-> <<"refund", events[n].sub, k>>, type |-> "PAYMENT_REFUNDED",
               amount |-> -1]
    BY <1>1, <1>4 DEF RefundRows
  <2>2. k \in 1..Refunds(events[n].sub)
    BY <1>3, <2>1
  <2>3. PICK m \in Repaid : events[m].sub = events[n].sub /\ events[m].until = k
    BY <1>2, <2>2 DEF MoneyInv, RefundsNumbered
  <2>4. e = RefundEntry(m)
    BY <2>1, <2>3 DEF RefundEntry
  <2> QED
    BY <2>3, <2>4 DEF LedgerRow
<1>5. RefundEntry(n) \in RefundRows(Ev(h))
  <2>1. events[n].until \in 1..events[n].until
    BY <1>3
  <2> QED
    BY <1>1, <2>1 DEF RefundEntry, RefundRows
<1>6. PICK new : new = ledger \cup RefundRows(Ev(h))
  OBVIOUS
<1>7. /\ ledger \subseteq new /\ \A e \in new \ ledger : LedgerRow(e)
      /\ RefundEntry(n) \in new /\ Enters(h, new, kept)
      /\ events[n].type # "paid"
  BY <1>0, <1>1, <1>4, <1>5, <1>6
<1> QED
  BY <1>0, <1>7, <1>n, AnswerBooks

(* The other steps enter nothing, and the events they answer are not of    *)
(* money.                                                                  *)
LEMMA OtherBooks ==
  ASSUME MoneyInv, NEW h \in Hooks,
         SyncWrite(h) \/ Checkout(h) \/ CheckoutStatus(h) \/ InvoiceFailed(h)
  PROVE  Books
<1>n. PICK n : n = hook[h].event
  OBVIOUS
<1>1. /\ events' = events /\ ledger' = ledger /\ cut' = cut
      /\ events[n].type \notin {"paid", "refunded"}
      /\ acked' = acked \/ acked' = acked \cup {n}
  BY <1>n DEF SyncWrite, Checkout, CheckoutStatus, InvoiceFailed, Answers, atStripe, Ev
<1>2. MoneyIn(n)'
  BY <1>1 DEF MoneyIn
<1> QED
  BY <1>1, <1>2 DEF Books

(* A payment adds its day to those of its month, and its events to those   *)
(* of the month.                                                           *)
LEMMA ActTells ==
  ASSUME BillingType, EventsOK, CashTold, NEW s, NEW new, Acted(s, new)
  PROVE  CashTold'
<1> DEFINE last == Len(events)
           fresh == {last + k : k \in {k \in DOMAIN new : new[k].type = "paid"}}
<1>0. /\ now \in Nat /\ now' = now + 1 /\ last \in Nat /\ DOMAIN events = 1..last
      /\ scope.invoices \in Nat /\ scope' = scope /\ Bills(new)
  BY ActEvents, LenProperties DEF BillingType, Acted, rows
<1>1. \A m : /\ IsFiniteSet(PaidIn(m)) /\ Cardinality(PaidIn(m)) \in Nat
             /\ IsFiniteSet(DaysIn(m)) /\ Cardinality(DaysIn(m)) \in Nat
  <2>1. IsFiniteSet(DOMAIN events) /\ IsFiniteSet(taken)
    BY RepaidIsFinite DEF CashTold
  <2> QED
    BY <2>1, FS_Subset, FS_CardinalityType DEF PaidIn, DaysIn
<1>2. ASSUME NEW m
      PROVE  PaidIn(m)' = PaidIn(m) \cup (IF MonthOf(now') = m THEN fresh ELSE {})
  <2>1. ASSUME NEW n \in PaidIn(m)'
        PROVE  n \in PaidIn(m) \cup (IF MonthOf(now') = m THEN fresh ELSE {})
    <3>1. CASE n \in DOMAIN events
      <4>1. events'[n] = events[n]
        BY <3>1, ActEvents
      <4> QED
        BY <2>1, <3>1, <4>1 DEF PaidIn, MonthOf
    <3>2. CASE n \notin DOMAIN events
      <4>1. PICK k \in DOMAIN new : n = last + k /\ events'[n] = new[k]
        BY <2>1, <3>2, ActEvents DEF PaidIn
      <4>2. new[k].at = now'
        BY ActEvents
      <4> QED
        BY <2>1, <4>1, <4>2 DEF PaidIn, MonthOf
    <3> QED
      BY <3>1, <3>2
  <2>2. ASSUME NEW n \in PaidIn(m) PROVE n \in PaidIn(m)'
    <3>1. n \in DOMAIN events' /\ events'[n] = events[n]
      BY <2>2, ActEvents DEF PaidIn
    <3> QED
      BY <2>2, <3>1 DEF PaidIn, MonthOf
  <2>3. ASSUME NEW n \in fresh, MonthOf(now') = m PROVE n \in PaidIn(m)'
    <3>1. PICK k \in DOMAIN new : n = last + k /\ new[k].type = "paid"
      OBVIOUS
    <3>2. n \in DOMAIN events' /\ events'[n] = new[k] /\ new[k].at = now'
      BY <3>1, ActEvents
    <3> QED
      BY <2>3, <3>1, <3>2 DEF PaidIn, MonthOf
  <2> HIDE DEF fresh
  <2> QED
    BY <2>1, <2>2, <2>3
<1>3. \A m : fresh \cap PaidIn(m) = {}
  BY <1>0, ActEvents DEF PaidIn
<1>4. CASE taken' = taken /\ \A k \in DOMAIN new : new[k].type # "paid"
  <2>1. fresh = {}
    BY <1>4
  <2>2. \A m : PaidIn(m)' = PaidIn(m) /\ DaysIn(m)' = DaysIn(m)
    BY <1>2, <1>4, <2>1 DEF DaysIn, MonthOf
  <2> QED
    BY <1>0, <1>4, <2>2 DEF CashTold
<1>5. CASE /\ taken' = taken \cup {now'}
           /\ {k \in DOMAIN new : new[k].type = "paid"} = 1..scope.invoices
  <2>1. fresh = (last + 1)..(last + scope.invoices)
    <3>1. fresh = {last + k : k \in 1..scope.invoices}
      BY <1>5
    <3> HIDE DEF last, fresh
    <3>2. ASSUME NEW i \in (last + 1)..(last + scope.invoices)
          PROVE  i - last \in 1..scope.invoices /\ i = last + (i - last)
      BY <1>0
    <3>3. ASSUME NEW k \in 1..scope.invoices PROVE last + k \in (last + 1)..(last + scope.invoices)
      BY <1>0
    <3>4. fresh \subseteq (last + 1)..(last + scope.invoices)
      BY <3>1, <3>3
    <3>5. (last + 1)..(last + scope.invoices) \subseteq fresh
      BY <3>1, <3>2
    <3> QED
      BY <3>4, <3>5
  <2>2. IsFiniteSet(fresh) /\ Cardinality(fresh) = scope.invoices
    <3>1. last + 1 \in Int /\ last + scope.invoices \in Int
      BY <1>0
    <3> HIDE DEF last, fresh
    <3>2. IsFiniteSet(fresh) /\ Cardinality(fresh) =
            IF last + 1 > last + scope.invoices THEN 0
            ELSE (last + scope.invoices) - (last + 1) + 1
      BY <2>1, <3>1, FS_Interval
    <3> QED
      BY <1>0, <3>2
  <2>3. IsFiniteSet(taken') /\ \A d \in taken' : d \in Nat /\ d <= now'
    <3>1. IsFiniteSet(taken')
      BY <1>5, FS_AddElement DEF CashTold
    <3> QED
      BY <1>0, <1>5, <3>1 DEF CashTold
  <2>4. ASSUME NEW m
        PROVE  (Cardinality(PaidIn(m)) = scope.invoices * Cardinality(DaysIn(m)))'
    <3>0. Cardinality(PaidIn(m)) = scope.invoices * Cardinality(DaysIn(m))
      BY DEF CashTold
    <3>1. CASE MonthOf(now') = m
      <4>1. PaidIn(m)' = PaidIn(m) \cup fresh /\ fresh \cap PaidIn(m) = {}
        BY <1>2, <1>3, <3>1
      <4>2. DaysIn(m)' = DaysIn(m) \cup {now'} /\ now' \notin DaysIn(m)
        BY <1>0, <1>5, <3>1 DEF DaysIn, CashTold, MonthOf
      <4> HIDE DEF fresh
      <4>3. Cardinality(PaidIn(m)') = Cardinality(PaidIn(m)) + scope.invoices
        <5>1. PaidIn(m) \cap fresh = {}
          BY <4>1
        <5>2. Cardinality(PaidIn(m) \cup fresh) =
                Cardinality(PaidIn(m)) + Cardinality(fresh) - Cardinality(PaidIn(m) \cap fresh)
          BY <1>1, <2>2, FS_Union
        <5>3. Cardinality(PaidIn(m) \cap fresh) = 0
          BY <5>1, FS_EmptySet
        <5> QED
          BY <1>0, <1>1, <2>2, <4>1, <5>2, <5>3
      <4>4. Cardinality(DaysIn(m)') = Cardinality(DaysIn(m)) + 1
        BY <1>1, <4>2, FS_AddElement
      <4>5. \A c, i \in Nat : i * (c + 1) = i * c + i
        OBVIOUS
      <4>6. scope.invoices * (Cardinality(DaysIn(m)) + 1) =
              scope.invoices * Cardinality(DaysIn(m)) + scope.invoices
        BY <1>0, <1>1, <4>5
      <4> QED
        BY <1>0, <3>0, <4>3, <4>4, <4>6
    <3>2. CASE MonthOf(now') # m
      <4>1. PaidIn(m)' = PaidIn(m)
        BY <1>2, <3>2
      <4>2. DaysIn(m)' = DaysIn(m)
        BY <1>5, <3>2 DEF DaysIn, MonthOf
      <4> QED
        BY <1>0, <3>0, <4>1, <4>2
    <3> QED
      BY <3>1, <3>2
  <2> QED
    BY <2>3, <2>4 DEF CashTold
<1> QED
  BY <1>0, <1>4, <1>5 DEF Bills

LEMMA OthersTell ==
  ASSUME BillingType, now <= now', now' \in Nat, CashTold, UNCHANGED <<scope, events, taken>>
  PROVE  CashTold'
<1>1. \A m : PaidIn(m)' = PaidIn(m) /\ DaysIn(m)' = DaysIn(m)
  BY DEF PaidIn, DaysIn, MonthOf
<1>2. \A d \in taken : d \in Nat /\ d <= now'
  BY DEF BillingType, CashTold
<1> QED
  BY <1>1, <1>2 DEF CashTold

LEMMA MoneyKept == MoneyInv /\ [Next]_vars => MoneyInv'
<1> SUFFICES ASSUME MoneyInv, [Next]_vars PROVE RowsOK' /\ RefundsNumbered' /\ CashTold'
  BY PanelKept DEF MoneyInv
<1>0. BillingType /\ EventsOK /\ StripeOK
  BY DEF MoneyInv, PanelInv, BillingInv
<1>1. CASE StripeActs
  <2>1. PICK s \in Subs : \E new \in Seq(EventRow) : Acted(s, new)
    BY <1>0, <1>1, AnActIsActed
  <2>2. PICK new \in Seq(EventRow) : Acted(s, new)
    BY <2>1
  <2> QED
    BY <1>0, <2>2, ActRows, ActNumbers, ActTells DEF MoneyInv
<1>2. CASE \E h \in Hooks : HookStep(h)
  <2>1. PICK h \in Hooks : HookStep(h)
    BY <1>2
  <2>2. Books
    BY <2>1, RecordBooks, RefundBooks, OtherBooks DEF HookStep
  <2>3. UNCHANGED <<now, scope, events, taken>>
    BY <2>1 DEF HookStep, SyncWrite, Checkout, CheckoutStatus, InvoiceFailed, SyncRecord,
               InvoicePaid, InvoiceFailedRecord, ChargeRefunded, atStripe
  <2>4. CashTold'
    BY <1>0, <2>3, OthersTell DEF MoneyInv, BillingType
  <2> QED
    BY <1>0, <2>2, <2>4, BooksKeep
<1> DEFINE Rest == /\ UNCHANGED <<scope, taken, ledger, events, acked>> /\ cut \subseteq cut'
                   /\ now' \in Nat /\ now <= now'
<1>n. now \in Nat
  BY <1>0 DEF BillingType
<1>3. CASE Rest
  <2>1. Books
    BY <1>3 DEF Books
  <2>2. CashTold'
    BY <1>0, <1>3, OthersTell DEF MoneyInv
  <2> QED
    BY <1>0, <2>1, <2>2, BooksKeep
<1>4. \A h \in Hooks : HookFails(h) => Rest
  BY <1>n DEF HookFails, rows, atStripe
<1>5. \A h \in Hooks : \A n \in DOMAIN events : Deliver(h, n) => Rest
  BY <1>n DEF Deliver, rows, atStripe, history
<1>6. TrialSweep \/ Tick \/ UNCHANGED vars => Rest
  BY <1>n DEF TrialSweep, Tick, vars, rows, atStripe, history
<1> QED
  BY <1>1, <1>2, <1>3, <1>4, <1>5, <1>6 DEF Next

LEMMA MoneyStart == Init => MoneyInv
<1> SUFFICES ASSUME Init PROVE RowsOK /\ RefundsNumbered /\ CashTold
  BY PanelStart DEF MoneyInv
<1>1. DOMAIN events = {} /\ acked = {} /\ ledger = {TrialRow}
  BY DEF Init, TrialRow
<1>2. Repaid = {} /\ BillingType
  BY <1>1, InitBilling DEF Repaid, BillingInv
<1>3. ASSUME NEW s PROVE Refunds(s) = 0
  <2>1. RepaidOf(s) = {} /\ Refunds(s) = Cardinality(RepaidOf(s))
    BY <1>1 DEF RepaidOf, Refunds
  <2> QED
    BY <2>1, FS_EmptySet
<1>4. CashTold
  <2>1. taken = {} /\ scope.invoices \in Nat
    BY <1>2 DEF Init, BillingType
  <2>2. \A m : PaidIn(m) = {} /\ DaysIn(m) = {}
    BY <1>1, <2>1 DEF PaidIn, DaysIn
  <2> QED
    BY <2>1, <2>2, FS_EmptySet DEF CashTold
<1> QED
  BY <1>1, <1>2, <1>3, <1>4 DEF RowsOK, LedgerRow, RefundsNumbered

LEMMA ImageCount ==
  ASSUME NEW S, IsFiniteSet(S), NEW F, F \in [S -> {F[x] : x \in S}],
         \A x, y \in S : F[x] = F[y] => x = y
  PROVE  /\ IsFiniteSet({F[x] : x \in S}) /\ Cardinality({F[x] : x \in S}) = Cardinality(S)
<1> DEFINE T == {F[x] : x \in S}
<1>1. F \in Bijection(S, T)
  BY Zenon DEF Bijection, Injection, Surjection, IsInjective
<1> HIDE DEF T
<1>2. ExistsBijection(S, T)
  BY <1>1 DEF ExistsBijection
<1>3. IsFiniteSet(T) /\ Cardinality(T) = Cardinality(S)
  BY <1>2, FS_Bijection
<1> QED
  BY <1>3 DEF T

(* What the ledger has of the refunds is one row for each it knows of.     *)
LEMMA RefundsCounted ==
  ASSUME MoneyInv
  PROVE  RefundsAddUp
<1> DEFINE R == {e \in ledger : e.type = "PAYMENT_REFUNDED"}
           X == {n \in Repaid : RefundEntry(n) \in ledger}
           F == [n \in X |-> RefundEntry(n)]
           f == [e \in R |-> e.amount]
<1>0. /\ IsFiniteSet(Repaid) /\ X \subseteq Repaid /\ Cardinality(Repaid) \in Nat
      /\ RefundsMade = Cardinality(Repaid)
  <2>1. IsFiniteSet(Repaid)
    BY RepaidIsFinite DEF MoneyInv, PanelInv, BillingInv
  <2> QED
    BY <2>1, FS_CardinalityType DEF RefundsMade, Repaid
<1>1. \A e \in ledger : e.type = "PAYMENT_REFUNDED" <=> \E n \in Repaid : e = RefundEntry(n)
  <2>1. ASSUME NEW e \in ledger, e.type = "PAYMENT_REFUNDED"
        PROVE  \E n \in Repaid : e = RefundEntry(n)
    <3>1. LedgerRow(e) /\ e # TrialRow
      BY <2>1 DEF MoneyInv, RowsOK, TrialRow
    <3>2. \A n, type : type \in EntryTypes(events[n].type) => e # EventEntry(n, type)
      BY <2>1 DEF EventEntry, EntryTypes
    <3> QED
      BY <3>1, <3>2 DEF LedgerRow
  <2> QED
    BY <2>1 DEF RefundEntry
<1>2. \A m, n \in X : RefundEntry(m) = RefundEntry(n) => m = n
  <2> SUFFICES ASSUME NEW m \in X, NEW n \in X, RefundEntry(m) = RefundEntry(n) PROVE m = n
    OBVIOUS
  <2>1. RefundEntry(m).key = RefundEntry(n).key
    OBVIOUS
  <2>2. SameRefund(m, n)
    BY <2>1 DEF RefundEntry, SameRefund
  <2> QED
    BY <2>2 DEF MoneyInv, RefundsNumbered
<1>3. R = {F[n] : n \in X}
  BY <1>1
<1>4. \A e \in R : e.amount = -1
  BY <1>1 DEF RefundEntry
<1>5. IsFiniteSet(X) /\ Cardinality(X) <= Cardinality(Repaid)
  BY <1>0, FS_Subset
<1>6. IsFiniteSet(R) /\ Cardinality(R) = Cardinality(X)
  <2>1. /\ F \in [X -> {F[n] : n \in X}]
        /\ \A m, n \in X : F[m] = F[n] => m = n
    BY <1>2
  <2> HIDE DEF F
  <2> QED
    BY <1>3, <1>5, <2>1, ImageCount
<1>7. RefundSum = 0 - Cardinality(R)
  <2>1. DOMAIN f = R /\ \A e \in R : f[e] = -1
    BY <1>4
  <2>2. {e \in R : f[e] = 1} = {} /\ {e \in R : f[e] = -1} = R
    BY <2>1
  <2>3. RefundSum = Total(f)
    BY DEF RefundSum
  <2> HIDE DEF f, R
  <2>4. Total(f) = Cardinality({e \in R : f[e] = 1}) - Cardinality({e \in R : f[e] = -1})
    BY <1>6, <2>1, TotalOfOnes
  <2> QED
    BY <2>2, <2>3, <2>4, FS_EmptySet
<1>8. ASSUME Quiet, \A n \in cut : events[n].type # "refunded" PROVE X = Repaid
  <2>1. ASSUME NEW n \in Repaid PROVE RefundEntry(n) \in ledger
    <3>1. n \in acked \ cut /\ events[n].type = "refunded"
      BY <1>8 DEF Quiet, Repaid
    <3> QED
      BY <3>1 DEF MoneyInv, RowsOK, MoneyIn
  <2> QED
    BY <2>1
<1>9. Cardinality(X) \in Nat
  BY <1>5, FS_CardinalityType
<1> HIDE DEF R, X, F, f
<1> QED
  BY <1>0, <1>5, <1>6, <1>7, <1>8, <1>9 DEF RefundsAddUp

-----------------------------------------------------------------------------
(* The figures, once Stripe has its answers and nothing was lost.          *)
(* An entry is of the day of its event.                                    *)
LEMMA DaysOfEntries ==
  ASSUME MoneyInv
  PROVE  /\ DayOfEntry(TrialRow.key) = 0
         /\ \A n \in DOMAIN events : \A type : DayOfEntry(EventEntry(n, type).key) = events[n].at
         /\ \A n \in Repaid : DayOfEntry(RefundEntry(n).key) = events[n].at
<1>1. DayOfEntry(TrialRow.key) = 0
  BY DEF DayOfEntry, TrialRow
<1>2. ASSUME NEW n \in DOMAIN events, NEW type
      PROVE  DayOfEntry(EventEntry(n, type).key) = events[n].at
  BY DEF DayOfEntry, EventEntry
<1>3. ASSUME NEW n \in Repaid
      PROVE  DayOfEntry(RefundEntry(n).key) = events[n].at
  <2> DEFINE P(e) == e.type = "refunded" /\ e.sub = events[n].sub /\ e.until = events[n].until
             S    == {events[m] : m \in DOMAIN events}
  <2>1. DayOfEntry(RefundEntry(n).key) = (CHOOSE e \in S : P(e)).at
    BY DEF DayOfEntry, RefundEntry
  <2>2. events[n] \in S /\ P(events[n])
    BY DEF Repaid
  <2>3. ASSUME NEW e \in S, P(e) PROVE e = events[n]
    <3>1. PICK m \in DOMAIN events : e = events[m]
      OBVIOUS
    <3>2. m \in Repaid /\ SameRefund(m, n)
      BY <2>3, <3>1 DEF Repaid, SameRefund
    <3> QED
      BY <3>1, <3>2 DEF MoneyInv, RefundsNumbered
  <2> HIDE DEF P, S
  <2>4. (CHOOSE e \in S : P(e)) = events[n]
    BY <2>2, <2>3
  <2> QED
    BY <2>1, <2>4
<1> QED
  BY <1>1, <1>2, <1>3

(* The one shop that counts, and its entries with their days.              *)
TheShop == [row |-> tenant, exempt |-> FALSE, ledger |-> Dated]

OnDay(e, day) == [type |-> e.type, amount |-> e.amount, key |-> e.key, at |-> day]

LEMMA OneShop ==
  /\ Billable(TheShops) = {TheShop} /\ TheShop.row = tenant /\ TheShop.ledger = Dated
  /\ TheShop \in TheShops /\ \A s \in TheShops : s.row = tenant
  /\ \A types : EntriesOf(TheShops, types) =
       {[shop |-> TheShop, entry |-> e] : e \in {e \in Dated : e.type \in types}}
<1> DEFINE shop(b) == [row |-> tenant, exempt |-> b, ledger |-> Dated]
<1>a. TheShops = {shop(TRUE), shop(FALSE)} /\ TheShop = shop(FALSE)
  BY DEF TheShops, TheShop
<1>b. \A b \in BOOLEAN : shop(b).exempt = b /\ shop(b).row = tenant /\ shop(b).ledger = Dated
  OBVIOUS
<1> HIDE DEF shop
<1>1. Billable(TheShops) = {TheShop}
  BY <1>a, <1>b DEF Billable
<1>2. TheShop.row = tenant /\ TheShop.ledger = Dated
  BY <1>a, <1>b
<1>3. TheShop \in TheShops /\ \A s \in TheShops : s.row = tenant
  BY <1>a, <1>b
<1>4. ASSUME NEW types
      PROVE  EntriesOf(TheShops, types) =
               {[shop |-> TheShop, entry |-> e] : e \in {e \in Dated : e.type \in types}}
  BY <1>1, <1>2 DEF EntriesOf
<1> QED
  BY <1>1, <1>2, <1>3, <1>4

LEMMA DatedEntries ==
  ASSUME MoneyInv
  PROVE  /\ OnDay(TrialRow, 0) \in Dated
         /\ \A d \in Dated :
              \/ d = OnDay(TrialRow, 0)
              \/ \E n \in DOMAIN events : \E type \in EntryTypes(events[n].type) :
                   d = OnDay(EventEntry(n, type), events[n].at)
              \/ \E n \in Repaid : d = OnDay(RefundEntry(n), events[n].at)
         /\ \A n \in DOMAIN events : \A type :
              EventEntry(n, type) \in ledger => OnDay(EventEntry(n, type), events[n].at) \in Dated
         /\ \A n \in Repaid :
              RefundEntry(n) \in ledger => OnDay(RefundEntry(n), events[n].at) \in Dated
<1>1. Dated = {OnDay(e, DayOfEntry(e.key)) : e \in ledger}
  BY DEF Dated, OnDay
<1>2. TrialRow \in ledger /\ \A e \in ledger : LedgerRow(e)
  BY DEF MoneyInv, RowsOK
<1>3. ASSUME NEW d \in Dated
      PROVE  \/ d = OnDay(TrialRow, 0)
             \/ \E n \in DOMAIN events : \E type \in EntryTypes(events[n].type) :
                  d = OnDay(EventEntry(n, type), events[n].at)
             \/ \E n \in Repaid : d = OnDay(RefundEntry(n), events[n].at)
  <2>1. PICK e \in ledger : d = OnDay(e, DayOfEntry(e.key))
    BY <1>1
  <2> QED
    BY <1>2, <2>1, DaysOfEntries DEF LedgerRow
<1> QED
  BY <1>1, <1>2, <1>3, DaysOfEntries

-----------------------------------------------------------------------------
(* Contracts that begin and end                                            *)
LEMMA EventsOfEntries ==
  ASSUME MoneyInv, NEW x,
         x \in EntriesOf(TheShops, {"SUBSCRIPTION_CREATED"})
           \/ x \in EntriesOf(TheShops, {"SUBSCRIPTION_CANCELED"})
  PROVE  /\ x.shop = TheShop /\ x.entry.at > 0
         /\ x.entry.type = "SUBSCRIPTION_CREATED" => x.entry.at \in At("created")
         /\ x.entry.type = "SUBSCRIPTION_CANCELED" => x.entry.at \in At("deleted")
<1>1. PICK d \in Dated : /\ x = [shop |-> TheShop, entry |-> d]
                         /\ d.type \in {"SUBSCRIPTION_CREATED", "SUBSCRIPTION_CANCELED"}
  BY OneShop
<1>2. PICK n \in DOMAIN events :
        \E type \in EntryTypes(events[n].type) : d = OnDay(EventEntry(n, type), events[n].at)
  <2>1. d # OnDay(TrialRow, 0) /\ \A n : d # OnDay(RefundEntry(n), events[n].at)
    BY <1>1 DEF OnDay, TrialRow, RefundEntry
  <2> QED
    BY <2>1, DatedEntries
<1>6. PICK type \in EntryTypes(events[n].type) : d = OnDay(EventEntry(n, type), events[n].at)
  BY <1>2
<1>3. d.at = events[n].at /\ d.type = type /\ events[n].at > 0
  BY <1>6 DEF OnDay, EventEntry, MoneyInv, RowsOK
<1>4. /\ type = "SUBSCRIPTION_CREATED" => events[n].type = "created"
      /\ type = "SUBSCRIPTION_CANCELED" => events[n].type = "deleted"
  BY <1>6 DEF EntryTypes
<1> QED
  BY <1>1, <1>3, <1>4 DEF At

LEMMA NewAndLost ==
  ASSUME MoneyInv
  PROVE  LET recent == {d \in Since(now) : d > 0} IN
         /\ Cardinality(NewIn(TheShops, Since(now))) > 0 => recent \cap At("created") # {}
         /\ Cardinality(ChurnedIn(TheShops, Since(now))) > 0 => recent \cap At("deleted") # {}
<1>1. Cardinality({}) = 0
  BY FS_EmptySet
<1>2. ASSUME NewIn(TheShops, Since(now)) # {}
      PROVE  {d \in Since(now) : d > 0} \cap At("created") # {}
  <2>1. PICK x \in EntriesOf(TheShops, {"SUBSCRIPTION_CREATED"}) : x.entry.at \in Since(now)
    BY <1>2 DEF NewIn, ShopsWith
  <2>2. x.entry.type = "SUBSCRIPTION_CREATED"
    BY <2>1, OneShop
  <2> QED
    BY <2>1, <2>2, EventsOfEntries
<1>3. ASSUME ChurnedIn(TheShops, Since(now)) # {}
      PROVE  {d \in Since(now) : d > 0} \cap At("deleted") # {}
  <2>1. PICK x \in EntriesOf(TheShops, {"SUBSCRIPTION_CANCELED"}) : x.entry.at \in Since(now)
    BY <1>3 DEF ChurnedIn, ShopsWith
  <2>2. x.entry.type = "SUBSCRIPTION_CANCELED"
    BY <2>1, OneShop
  <2> QED
    BY <2>1, <2>2, EventsOfEntries
<1>4. Cardinality(NewIn(TheShops, Since(now))) > 0 => NewIn(TheShops, Since(now)) # {}
  BY <1>1
<1>5. Cardinality(ChurnedIn(TheShops, Since(now))) > 0 => ChurnedIn(TheShops, Since(now)) # {}
  BY <1>1
<1> QED
  BY <1>2, <1>3, <1>4, <1>5, Zenon

(* Who never bought anything is on trial and not converted.                *)
LEMMA NobodyConverted ==
  ASSUME MoneyInv, Created = {}
  PROVE  TrialConversion(TheShops, now) = <<0, 1>>
<1>1. DOMAIN events = {}
  BY DEF MoneyInv, PanelInv, FirstOK
<1>2. NewIn(TheShops, 0..now) = {}
  <2>1. At("created") = {}
    BY <1>1 DEF At
  <2>2. ASSUME NEW x \in EntriesOf(TheShops, {"SUBSCRIPTION_CREATED"}) PROVE FALSE
    <3>1. x.entry.type = "SUBSCRIPTION_CREATED"
      BY OneShop
    <3> QED
      BY <2>1, <3>1, EventsOfEntries
  <2> QED
    BY <2>2 DEF NewIn, ShopsWith
<1>3. ShopsWith(TheShops, "TRIAL_STARTED", 0..now) = {TheShop}
  <2>1. PICK x : x = [shop |-> TheShop, entry |-> OnDay(TrialRow, 0)]
    OBVIOUS
  <2>2. OnDay(TrialRow, 0) \in Dated /\ OnDay(TrialRow, 0).type = "TRIAL_STARTED"
        /\ OnDay(TrialRow, 0).at = 0
    BY DatedEntries DEF OnDay, TrialRow
  <2>3. x \in EntriesOf(TheShops, {"TRIAL_STARTED"}) /\ x.entry.at = 0 /\ x.shop = TheShop
    BY <2>1, <2>2, OneShop
  <2>4. \A y \in EntriesOf(TheShops, {"TRIAL_STARTED"}) : y.shop = TheShop
    BY OneShop
  <2>5. 0 \in 0..now
    BY DEF MoneyInv, PanelInv, BillingInv, BillingType
  <2> QED
    BY <2>3, <2>4, <2>5 DEF ShopsWith
<1>4. Cardinality({}) = 0 /\ Cardinality({TheShop}) = 1
  BY FS_EmptySet, FS_Singleton
<1> QED
  BY <1>2, <1>3, <1>4 DEF TrialConversion, Rate

-----------------------------------------------------------------------------
(* Who pays                                                                *)
Running == Created # {} /\ Newest.status \in PAYING_STATUSES

LEMMA WhoPays ==
  ASSUME MoneyInv, Quiet, mishaps = {}
  PROVE  /\ Running => PayingOf(TheShops) = {TheShop} /\ tenant.plan = Newest.plan
         /\ ~ Running => PayingOf(TheShops) = {}
<1>1. Created = {} => tenant.status = "none"
  BY DEF MoneyInv, PanelInv, FirstOK
<1>2. Created # {} => tenant.status = Newest.status /\ tenant.plan = Newest.plan
  BY QuietShows DEF MoneyInv, PanelInv
<1>3. Running <=> tenant.status \in PAYING_STATUSES
  BY <1>1, <1>2 DEF Running, PAYING_STATUSES
<1>4. PayingOf(TheShops) = {s \in {TheShop} : s.row.status \in PAYING_STATUSES}
  BY OneShop DEF PayingOf
<1> QED
  BY <1>2, <1>3, <1>4, OneShop DEF Running

LEMMA MonthlyIncome ==
  ASSUME NEW shops
  PROVE  /\ PayingOf(shops) = {} => CurrentMrr(shops) = 0
         /\ PayingOf(shops) = {TheShop} => CurrentMrr(shops) = PriceOf(tenant.plan)
<1> DEFINE f == [s \in PayingOf(shops) |-> PriceOf(s.row.plan)]
<1>1. DOMAIN f = PayingOf(shops) /\ CurrentMrr(shops) = Total(f)
  BY DEF CurrentMrr
<1>2. PayingOf(shops) = {TheShop} => f[TheShop] = PriceOf(tenant.plan)
  BY OneShop
<1>3. PriceOf(tenant.plan) \in Int
  BY DEF PriceOf
<1> HIDE DEF f
<1>4. CASE PayingOf(shops) = {}
  BY <1>1, <1>4, TotalOfNone
<1>5. CASE PayingOf(shops) = {TheShop}
  BY <1>1, <1>2, <1>3, <1>5, TotalOfOne
<1> QED
  BY <1>4, <1>5

LEMMA Income ==
  ASSUME MoneyInv, Quiet, mishaps = {}
  PROVE  CurrentMrr(TheShops) = (IF Running THEN PriceOf(Newest.plan) ELSE 0)
BY WhoPays, MonthlyIncome

(* The plans of those who pay make up the income.                          *)
LEMMA IncomeOfPlans ==
  ASSUME MoneyInv, Quiet, mishaps = {}
  PROVE  Total([p \in PlanDistribution(TheShops) |-> p.mrr]) = CurrentMrr(TheShops)
<1> DEFINE f == [p \in PlanDistribution(TheShops) |-> p.mrr]
           Of(plan) == [plan |-> plan,
                        customers |-> Cardinality({s \in PayingOf(TheShops) : s.row.plan = plan}),
                        mrr |-> CurrentMrr({s \in TheShops : s.row.plan = plan})]
<1> SUFFICES Total(f) = CurrentMrr(TheShops)
  OBVIOUS
<1>1. PlanDistribution(TheShops) = {Of(plan) : plan \in {s.row.plan : s \in PayingOf(TheShops)}}
  BY DEF PlanDistribution
<1>2. CASE PayingOf(TheShops) = {}
  <2>1. DOMAIN f = {}
    BY <1>1, <1>2
  <2> HIDE DEF f
  <2> QED
    BY <1>2, <2>1, TotalOfNone, MonthlyIncome
<1>3. CASE PayingOf(TheShops) = {TheShop}
  <2>1. {s.row.plan : s \in PayingOf(TheShops)} = {tenant.plan}
    BY <1>3, OneShop
  <2>2. DOMAIN f = {Of(tenant.plan)}
    BY <1>1, <2>1
  <2>3. {s \in TheShops : s.row.plan = tenant.plan} = TheShops
    BY OneShop
  <2>4. f[Of(tenant.plan)] = CurrentMrr(TheShops)
    BY <2>2, <2>3
  <2>5. CurrentMrr(TheShops) \in Int
    BY <1>3, MonthlyIncome DEF PriceOf
  <2> HIDE DEF f, Of
  <2> QED
    BY <2>2, <2>4, <2>5, TotalOfOne
<1> QED
  BY <1>2, <1>3, WhoPays

LEMMA PaysOrTries ==
  ASSUME MoneyInv, Quiet, mishaps = {}
  PROVE  Cardinality(PayingOf(TheShops)) + Cardinality(TrialingOf(TheShops, now)) <= 1
<1>1. Cardinality({}) = 0 /\ Cardinality({TheShop}) = 1
  BY FS_EmptySet, FS_Singleton
<1>2. TrialingOf(TheShops, now) = {} \/ TrialingOf(TheShops, now) = {TheShop}
  BY OneShop DEF TrialingOf
<1>3. PayingOf(TheShops) = {TheShop} => TrialingOf(TheShops, now) = {}
  BY OneShop DEF PayingOf, TrialingOf, PAYING_STATUSES
<1>4. PayingOf(TheShops) = {} \/ PayingOf(TheShops) = {TheShop}
  BY WhoPays
<1> HIDE DEF TheShop
<1> QED
  BY <1>1, <1>2, <1>3, <1>4

-----------------------------------------------------------------------------
(* What a shop was worth                                                   *)
LEMMA DaysOfContracts ==
  ASSUME MoneyInv, NEW type \in {"SUBSCRIPTION_CREATED", "SUBSCRIPTION_CANCELED"},
         NEW day \in DaysOf(TheShop, type)
  PROVE  day \in Nat /\ day <= now
<1>1. PICK e \in TheShop.ledger : e.type = type /\ day = e.at
  BY DEF DaysOf
<1>2. PICK x : x = [shop |-> TheShop, entry |-> e]
  OBVIOUS
<1>3. e \in Dated
  BY <1>1, OneShop
<1>4. x \in EntriesOf(TheShops, {type}) /\ x.entry = e
  BY <1>1, <1>2, <1>3, OneShop
<1>5. day \in At("created") \/ day \in At("deleted")
  BY <1>1, <1>4, EventsOfEntries
<1>6. PICK n \in DOMAIN events : day = events[n].at
  BY <1>5 DEF At
<1>7. events \in Seq(EventRow)
  BY DEF MoneyInv, PanelInv, BillingInv, BillingType
<1>8. events[n] \in EventRow
  BY <1>7
<1>9. events[n].at <= now
  BY DEF MoneyInv, PanelInv, BillingInv, EventsOK, WellSent
<1> QED
  BY <1>6, <1>8, <1>9 DEF EventRow

LEMMA LifetimeIsWhole ==
  ASSUME MoneyInv, DaysOf(TheShop, "SUBSCRIPTION_CANCELED") # {},
         DaysOf(TheShop, "SUBSCRIPTION_CREATED") # {}
  PROVE  LifetimeOf(TheShop) \in Int
<1> DEFINE C == DaysOf(TheShop, "SUBSCRIPTION_CANCELED")
           B == DaysOf(TheShop, "SUBSCRIPTION_CREATED")
<1>1. C \in SUBSET Nat /\ B \in SUBSET Nat /\ (\A x \in C : x <= now) /\ now \in Nat
  BY DaysOfContracts DEF MoneyInv, PanelInv, BillingInv, BillingType
<1>2. LifetimeOf(TheShop) = Max(C) - Min(B)
  BY DEF LifetimeOf
<1> HIDE DEF C, B
<1>3. C # {} /\ B # {}
  BY DEF C, B
<1>6. \A x \in C \cup B : x \in Int
  BY <1>1
<1>4. Max(C) \in Int
  <2>1. \E m \in C : \A x \in C : x <= m
    <3>1. C \in SUBSET Int /\ now \in Int
      BY <1>1
    <3> QED
      BY <1>1, <1>3, <3>1, GreatestBelow
  <2>2. \E m \in C : \A x \in C : m >= x
    BY <1>1, <2>1
  <2>3. Max(C) \in C
    BY <2>2, Zenon DEF Max
  <2> QED
    BY <1>6, <2>3
<1>5. Min(B) \in Int
  <2>1. \E m \in B : \A x \in B : m <= x
    BY <1>1, <1>3, LeastNatural
  <2>2. Min(B) \in B
    BY <2>1, Zenon DEF Min
  <2> QED
    BY <1>6, <2>2
<1> QED
  BY <1>2, <1>4, <1>5

LEMMA Worth ==
  ASSUME MoneyInv, Quiet, mishaps = {}, Ltv(TheShops) # None
  PROVE  Running /\ \E s \in Lifetimes(TheShops) : Ltv(TheShops) = LifetimeOf(s)
<1> DEFINE f == [s \in Lifetimes(TheShops) |-> LifetimeOf(s)]
           mrr == CurrentMrr(TheShops)
           life == LifetimeOf(TheShop)
<1>1. Lifetimes(TheShops) # {} /\ mrr # 0
      /\ Ltv(TheShops) = (mrr * Total(f))
                           \div (Cardinality(PayingOf(TheShops)) * Cardinality(Lifetimes(TheShops)))
  BY DEF Ltv
<1>2. Running /\ mrr = 1
  BY <1>1, Income DEF PriceOf
<1>3. Lifetimes(TheShops) = {TheShop} /\ life \in Int
  <2>1. Lifetimes(TheShops) \subseteq {TheShop}
    BY OneShop DEF Lifetimes
  <2>2. TheShop \in Lifetimes(TheShops)
    BY <1>1, <2>1
  <2> QED
    BY <2>1, <2>2, LifetimeIsWhole DEF Lifetimes
<1>4. Total(f) = life
  <2>1. DOMAIN f = {TheShop} /\ f[TheShop] = life
    BY <1>3
  <2> HIDE DEF f, life
  <2> QED
    BY <1>3, <2>1, TotalOfOne
<1>5. Cardinality(PayingOf(TheShops)) = 1 /\ Cardinality(Lifetimes(TheShops)) = 1
  BY <1>2, <1>3, WhoPays, FS_Singleton
<1>6. Ltv(TheShops) = (1 * life) \div (1 * 1)
  BY <1>1, <1>2, <1>4, <1>5
<1> HIDE DEF life
<1>7. Ltv(TheShops) = life
  BY <1>3, <1>6
<1> QED
  BY <1>2, <1>3, <1>7 DEF life

-----------------------------------------------------------------------------
(* The cash of the months                                                  *)
LEMMA DivBounds ==
  ASSUME NEW d \in Nat \ {0}, NEW a \in Int
  PROVE  /\ a \div d \in Int
         /\ d * (a \div d) <= a /\ a < d * (a \div d) + d
OBVIOUS

LEMMA Multiples ==
  ASSUME NEW d \in Nat \ {0}, NEW a \in Int, NEW b \in Int
  PROVE  /\ a <= b => d * a <= d * b
         /\ d * a < d * b + d => a <= b
OBVIOUS

(* The days looked back for reach to the first of the months shown.        *)
LEMMA MonthsReach ==
  ASSUME NEW t \in Nat, NEW day \in Int, MonthOf(day) \in RecentMonths(t)
  PROVE  day >= MonthStart(t - YearDays)
<1> DEFINE q == (t - YearDays) \div MonthDays
           m == day \div MonthDays
           c == t \div MonthDays
           k == MonthsShown - 1
<1>0. MonthDays \in Nat \ {0} /\ k \in Nat /\ YearDays \in Nat /\ YearDays >= MonthDays * k
      /\ MonthsShown \in Nat
  BY MetricsAssumption DEF MetricsAssumption
<1>1. q \in Int /\ MonthDays * q <= t - YearDays
  BY <1>0, DivBounds
<1>2. m \in Int /\ MonthDays * m <= day
  BY <1>0, DivBounds
<1>3. c \in Int /\ t < MonthDays * c + MonthDays
  BY <1>0, DivBounds
<1>4. c - k <= m
  BY <1>0, <1>2, <1>3 DEF RecentMonths, MonthOf
<1>5. MonthStart(t - YearDays) = MonthDays * q
  BY DEF MonthStart, MonthOf
<1> HIDE DEF q, m, c, k
<1>6. q <= c - k
  <2>1. MonthDays * (c - k) = MonthDays * c - MonthDays * k
    BY <1>0, <1>3
  <2>2. MonthDays * q \in Int /\ MonthDays * c \in Int /\ MonthDays * k \in Int
    BY <1>0, <1>1, <1>3
  <2>3. MonthDays * q < MonthDays * (c - k) + MonthDays
    BY <1>0, <1>1, <1>3, <2>1, <2>2
  <2> QED
    BY <1>0, <1>1, <1>3, <2>3, Multiples
<1>7. MonthDays * q <= MonthDays * m
  BY <1>0, <1>1, <1>2, <1>3, <1>4, <1>6, Multiples
<1>8. MonthDays * q \in Int /\ MonthDays * m \in Int
  BY <1>0, <1>1, <1>2
<1> QED
  BY <1>2, <1>5, <1>7, <1>8

(* Nor does the look back cut a month in two.                              *)
LEMMA MonthsWhole ==
  ASSUME NEW day \in Int, NEW other \in Int, NEW from \in Int,
         MonthOf(day) = MonthOf(other), day >= MonthStart(from)
  PROVE  other >= MonthStart(from)
<1> DEFINE q == from \div MonthDays
           m == day \div MonthDays
<1>0. MonthDays \in Nat \ {0}
  BY MetricsAssumption DEF MetricsAssumption
<1>1. q \in Int
  BY <1>0, DivBounds
<1>2. m \in Int /\ day < MonthDays * m + MonthDays
  BY <1>0, DivBounds
<1>3. m = other \div MonthDays
  BY DEF MonthOf
<1>4. MonthDays * m <= other
  BY <1>0, <1>3, DivBounds
<1>5. MonthStart(from) = MonthDays * q
  BY DEF MonthStart, MonthOf
<1> HIDE DEF q, m
<1>6. MonthDays * q \in Int /\ MonthDays * m \in Int
  BY <1>0, <1>1, <1>2
<1>7. q <= m
  <2>1. MonthDays * q < MonthDays * m + MonthDays
    BY <1>0, <1>2, <1>5, <1>6
  <2> QED
    BY <1>0, <1>1, <1>2, <2>1, Multiples
<1>8. MonthDays * q <= MonthDays * m
  BY <1>0, <1>1, <1>2, <1>7, Multiples
<1> QED
  BY <1>4, <1>5, <1>6, <1>8

(* The entries of what Stripe took, and of what it paid back.              *)
PaidOut == {n \in DOMAIN events : events[n].type = "paid"}

TakenRow(n) ==
  [shop |-> TheShop, entry |-> OnDay(EventEntry(n, "PAYMENT_SUCCEEDED"), events[n].at)]
GivenRow(n) == [shop |-> TheShop, entry |-> OnDay(RefundEntry(n), events[n].at)]

CashTypes == {"PAYMENT_SUCCEEDED", "PAYMENT_REFUNDED"}

LEMMA CashRows ==
  ASSUME MoneyInv
  PROVE  /\ \A n \in PaidOut : /\ TakenRow(n).entry.at = events[n].at
                               /\ TakenRow(n).entry.type = "PAYMENT_SUCCEEDED"
                               /\ TakenRow(n).entry.amount = 1
         /\ \A n \in Repaid : /\ GivenRow(n).entry.at = events[n].at
                              /\ GivenRow(n).entry.type = "PAYMENT_REFUNDED"
                              /\ GivenRow(n).entry.amount = -1
         /\ \A m, n \in PaidOut : TakenRow(m) = TakenRow(n) => m = n
         /\ \A m, n \in Repaid : GivenRow(m) = GivenRow(n) => m = n
<1>1. ASSUME NEW n \in PaidOut
      PROVE  /\ TakenRow(n).entry.at = events[n].at
             /\ TakenRow(n).entry.type = "PAYMENT_SUCCEEDED"
             /\ TakenRow(n).entry.amount = 1 /\ TakenRow(n).entry.key = <<"event", n>>
  BY DEF TakenRow, OnDay, EventEntry, PaidOut
<1>2. ASSUME NEW n \in Repaid
      PROVE  /\ GivenRow(n).entry.at = events[n].at
             /\ GivenRow(n).entry.type = "PAYMENT_REFUNDED"
             /\ GivenRow(n).entry.amount = -1
             /\ GivenRow(n).entry.key = <<"refund", events[n].sub, events[n].until>>
  BY DEF GivenRow, OnDay, RefundEntry
<1>3. ASSUME NEW m \in PaidOut, NEW n \in PaidOut, TakenRow(m) = TakenRow(n) PROVE m = n
  <2>1. <<"event", m>> = <<"event", n>>
    BY <1>1, <1>3
  <2> QED
    BY <2>1
<1>4. ASSUME NEW m \in Repaid, NEW n \in Repaid, GivenRow(m) = GivenRow(n) PROVE m = n
  <2>1. <<"refund", events[m].sub, events[m].until>> = <<"refund", events[n].sub, events[n].until>>
    BY <1>2, <1>4
  <2>2. SameRefund(m, n)
    BY <2>1 DEF SameRefund
  <2> QED
    BY <2>2 DEF MoneyInv, RefundsNumbered
<1> QED
  BY <1>1, <1>2, <1>3, <1>4

LEMMA CashIsStripes ==
  ASSUME MoneyInv, Quiet, cut = {}
  PROVE  EntriesOf(TheShops, CashTypes) =
           {TakenRow(n) : n \in PaidOut} \cup {GivenRow(n) : n \in Repaid}
<1>0. EntriesOf(TheShops, CashTypes) =
        {[shop |-> TheShop, entry |-> e] : e \in {e \in Dated : e.type \in CashTypes}}
  BY OneShop
<1>1. ASSUME NEW x \in EntriesOf(TheShops, CashTypes)
      PROVE  (\E n \in PaidOut : x = TakenRow(n)) \/ \E n \in Repaid : x = GivenRow(n)
  <2>1. PICK d \in Dated : d.type \in CashTypes /\ x = [shop |-> TheShop, entry |-> d]
    BY <1>0
  <2>2. d # OnDay(TrialRow, 0)
    BY <2>1 DEF OnDay, TrialRow, CashTypes
  <2>3. CASE \E n \in DOMAIN events : \E type \in EntryTypes(events[n].type) :
               d = OnDay(EventEntry(n, type), events[n].at)
    <3>1. PICK n \in DOMAIN events : \E type \in EntryTypes(events[n].type) :
                 d = OnDay(EventEntry(n, type), events[n].at)
      BY <2>3
    <3>2. PICK type \in EntryTypes(events[n].type) : d = OnDay(EventEntry(n, type), events[n].at)
      BY <3>1
    <3>3. d.type = type
      BY <3>2 DEF OnDay, EventEntry
    <3>4. type = "PAYMENT_SUCCEEDED" /\ n \in PaidOut
      BY <2>1, <3>2, <3>3 DEF CashTypes, EntryTypes, PaidOut
    <3> QED
      BY <2>1, <3>2, <3>4 DEF TakenRow
  <2>4. CASE \E n \in Repaid : d = OnDay(RefundEntry(n), events[n].at)
    BY <2>1, <2>4 DEF GivenRow
  <2> QED
    BY <2>2, <2>3, <2>4, DatedEntries
<1>2. \A n \in DOMAIN events : MoneyIn(n)
  BY DEF MoneyInv, RowsOK, Quiet
<1>3. ASSUME NEW n \in PaidOut PROVE TakenRow(n) \in EntriesOf(TheShops, CashTypes)
  <2>1. EventEntry(n, "PAYMENT_SUCCEEDED") \in ledger /\ n \in DOMAIN events
    BY <1>2 DEF MoneyIn, PaidOut
  <2>2. PICK d : d = OnDay(EventEntry(n, "PAYMENT_SUCCEEDED"), events[n].at)
    OBVIOUS
  <2>3. d \in Dated
    BY <2>1, <2>2, DatedEntries
  <2>4. d.type \in CashTypes
    BY <2>2 DEF OnDay, EventEntry, CashTypes
  <2> QED
    BY <1>0, <2>2, <2>3, <2>4 DEF TakenRow
<1>4. ASSUME NEW n \in Repaid PROVE GivenRow(n) \in EntriesOf(TheShops, CashTypes)
  <2>1. RefundEntry(n) \in ledger
    BY <1>2 DEF MoneyIn, Repaid
  <2>2. PICK d : d = OnDay(RefundEntry(n), events[n].at)
    OBVIOUS
  <2>3. d \in Dated
    BY <2>1, <2>2, DatedEntries
  <2>4. d.type \in CashTypes
    BY <2>2 DEF OnDay, RefundEntry, CashTypes
  <2> QED
    BY <1>0, <2>2, <2>3, <2>4 DEF GivenRow
<1> QED
  BY <1>1, <1>3, <1>4

(* The cash looked at, and that of a month.                                *)
CashLooked ==
  {x \in EntriesOf(TheShops, CashTypes) : x.entry.at >= MonthStart(now - YearDays)}
CashOf(m) == {x \in CashLooked : MonthOf(x.entry.at) = m}

LEMMA RevenueOf ==
  /\ DOMAIN MonthlyRevenue(TheShops, now) =
       RecentMonths(now) \cup {MonthOf(x.entry.at) : x \in CashLooked}
  /\ \A m \in DOMAIN MonthlyRevenue(TheShops, now) :
       MonthlyRevenue(TheShops, now)[m] =
         [net |-> Total([x \in CashOf(m) |-> x.entry.amount]),
          payments |-> Cardinality({x \in CashOf(m) : x.entry.type = "PAYMENT_SUCCEEDED"})]
<1> DEFINE months == RecentMonths(now) \cup {MonthOf(x.entry.at) : x \in CashLooked}
           value(m) == [net |-> Total([x \in CashOf(m) |-> x.entry.amount]),
                        payments |-> Cardinality({x \in CashOf(m) :
                                                    x.entry.type = "PAYMENT_SUCCEEDED"})]
<1>1. MonthlyRevenue(TheShops, now) = [m \in months |-> value(m)]
  BY Zenon DEF MonthlyRevenue, CashOf, CashLooked, CashTypes
<1> HIDE DEF months, value
<1>2. /\ DOMAIN MonthlyRevenue(TheShops, now) = months
      /\ \A m \in DOMAIN MonthlyRevenue(TheShops, now) :
           MonthlyRevenue(TheShops, now)[m] = value(m)
  BY <1>1
<1> QED
  BY <1>2 DEF months, value

LEMMA CashOfMonth ==
  ASSUME MoneyInv, Quiet, cut = {}, NEW m \in DOMAIN MonthlyRevenue(TheShops, now)
  PROVE  MonthlyRevenue(TheShops, now)[m] =
           [net |-> InMonth("paid", m) - InMonth("refunded", m), payments |-> InMonth("paid", m)]
<1> DEFINE P == {n \in PaidOut : MonthOf(events[n].at) = m}
           R == {n \in Repaid : MonthOf(events[n].at) = m}
           F == [n \in P |-> TakenRow(n)]
           G == [n \in R |-> GivenRow(n)]
           T == {F[n] : n \in P}
           V == {G[n] : n \in R}
           f == [x \in CashOf(m) |-> x.entry.amount]
<1>0. now \in Nat /\ \A n \in DOMAIN events : events[n].at \in Int
  <2>1. events \in Seq(EventRow) /\ now \in Nat
    BY DEF MoneyInv, PanelInv, BillingInv, BillingType
  <2>2. \A n \in DOMAIN events : events[n] \in EventRow
    BY <2>1
  <2> QED
    BY <2>1, <2>2 DEF EventRow
<1>1. ASSUME NEW n \in PaidOut \cup Repaid, MonthOf(events[n].at) = m
      PROVE  events[n].at >= MonthStart(now - YearDays)
  <2>0. n \in DOMAIN events /\ events[n].at \in Int
    BY <1>0 DEF PaidOut, Repaid
  <2>1. CASE m \in RecentMonths(now)
    BY <1>0, <1>1, <2>0, <2>1, MonthsReach
  <2>2. CASE \E x \in CashLooked : m = MonthOf(x.entry.at)
    <3>1. PICK x \in CashLooked : m = MonthOf(x.entry.at)
      BY <2>2
    <3>2. x \in EntriesOf(TheShops, CashTypes) /\ x.entry.at >= MonthStart(now - YearDays)
      BY DEF CashLooked
    <3>3. PICK k \in DOMAIN events : x.entry.at = events[k].at
      BY <3>2, CashIsStripes, CashRows DEF PaidOut, Repaid
    <3>4. now - YearDays \in Int
      BY <1>0, MetricsAssumption DEF MetricsAssumption
    <3> QED
      BY <1>0, <1>1, <2>0, <3>1, <3>2, <3>3, <3>4, MonthsWhole
  <2> QED
    BY <2>1, <2>2, RevenueOf
<1>2. CashOf(m) = T \cup V
  <2>1. ASSUME NEW x \in CashOf(m) PROVE x \in T \cup V
    <3>1. x \in EntriesOf(TheShops, CashTypes) /\ MonthOf(x.entry.at) = m
      BY DEF CashOf, CashLooked
    <3>2. CASE \E n \in PaidOut : x = TakenRow(n)
      <4>1. PICK n \in PaidOut : x = TakenRow(n)
        BY <3>2
      <4>2. n \in P
        BY <3>1, <4>1, CashRows
      <4> QED
        BY <4>1, <4>2
    <3>3. CASE \E n \in Repaid : x = GivenRow(n)
      <4>1. PICK n \in Repaid : x = GivenRow(n)
        BY <3>3
      <4>2. n \in R
        BY <3>1, <4>1, CashRows
      <4> QED
        BY <4>1, <4>2
    <3> QED
      BY <3>1, <3>2, <3>3, CashIsStripes
  <2>2. ASSUME NEW n \in P PROVE TakenRow(n) \in CashOf(m)
    BY <1>1, CashIsStripes, CashRows DEF CashOf, CashLooked
  <2>3. ASSUME NEW n \in R PROVE GivenRow(n) \in CashOf(m)
    BY <1>1, CashIsStripes, CashRows DEF CashOf, CashLooked
  <2> QED
    BY <2>1, <2>2, <2>3
<1>3. IsFiniteSet(P) /\ IsFiniteSet(R)
  <2>1. IsFiniteSet(DOMAIN events)
    BY RepaidIsFinite DEF MoneyInv, PanelInv, BillingInv
  <2>2. P \subseteq DOMAIN events /\ R \subseteq DOMAIN events
    BY DEF PaidOut, Repaid
  <2> QED
    BY <2>1, <2>2, FS_Subset
<1>4. Cardinality(P) = InMonth("paid", m) /\ Cardinality(R) = InMonth("refunded", m)
  <2>1. /\ P = {n \in DOMAIN events : events[n].type = "paid" /\ MonthOf(events[n].at) = m}
        /\ R = {n \in DOMAIN events : events[n].type = "refunded" /\ MonthOf(events[n].at) = m}
    BY DEF PaidOut, Repaid
  <2> QED
    BY <2>1 DEF InMonth
<1>5. IsFiniteSet(T) /\ Cardinality(T) = Cardinality(P)
  <2>1. F \in [P -> {F[n] : n \in P}] /\ \A k, n \in P : F[k] = F[n] => k = n
    BY CashRows
  <2> HIDE DEF F, P
  <2> QED
    BY <1>3, <2>1, ImageCount
<1>6. IsFiniteSet(V) /\ Cardinality(V) = Cardinality(R)
  <2>1. G \in [R -> {G[n] : n \in R}] /\ \A k, n \in R : G[k] = G[n] => k = n
    BY CashRows
  <2> HIDE DEF G, R
  <2> QED
    BY <1>3, <2>1, ImageCount
<1>7. /\ \A x \in T : x.entry.amount = 1 /\ x.entry.type = "PAYMENT_SUCCEEDED"
      /\ \A x \in V : x.entry.amount = -1 /\ x.entry.type = "PAYMENT_REFUNDED"
  BY CashRows
<1>8. DOMAIN f = T \cup V /\ \A x \in T \cup V : f[x] = x.entry.amount
  BY <1>2
<1> HIDE DEF T, V, f, P, R
<1>9. {x \in CashOf(m) : x.entry.type = "PAYMENT_SUCCEEDED"} = T
  BY <1>2, <1>7
<1>10. /\ {x \in DOMAIN f : f[x] = 1} = T /\ {x \in DOMAIN f : f[x] = -1} = V
       /\ \A x \in DOMAIN f : f[x] \in {-1, 0, 1}
  BY <1>7, <1>8
<1>11. Total(f) = Cardinality(T) - Cardinality(V)
  <2>1. IsFiniteSet(DOMAIN f)
    BY <1>5, <1>6, <1>8, FS_Union
  <2>2. Total(f) = Cardinality({x \in DOMAIN f : f[x] = 1})
                     - Cardinality({x \in DOMAIN f : f[x] = -1})
    BY <1>10, <2>1, TotalOfOnes
  <2> QED
    BY <1>10, <2>2
<1>12. MonthlyRevenue(TheShops, now)[m] =
         [net |-> Total([x \in CashOf(m) |-> x.entry.amount]),
          payments |-> Cardinality({x \in CashOf(m) : x.entry.type = "PAYMENT_SUCCEEDED"})]
  BY RevenueOf, Zenon
<1>13. Total([x \in CashOf(m) |-> x.entry.amount]) = Cardinality(P) - Cardinality(R)
  BY <1>5, <1>6, <1>11 DEF f
<1> QED
  BY <1>4, <1>5, <1>9, <1>12, <1>13

(* The figures of the page, each on its own.                               *)
LEMMA FiguresHold ==
  ASSUME MoneyInv
  PROVE  MetricsTrue
<1> SUFFICES ASSUME Quiet, cut = {}, mishaps = {} PROVE MetricsTrue
  BY DEF MetricsTrue
<1> DEFINE figures == MetricsPage(TheShops, now)
           Paid(m) == scope.invoices * TakenIn(m)
           Net(m) == Paid(m) - InMonth("refunded", m)
           recent == {d \in Since(now) : d > 0}
<1>0. /\ figures.mrr = CurrentMrr(TheShops)
      /\ figures.paying = Cardinality(PayingOf(TheShops))
      /\ figures.trialing = Cardinality(TrialingOf(TheShops, now))
      /\ figures.new = Cardinality(NewIn(TheShops, Since(now)))
      /\ figures.lost = Cardinality(ChurnedIn(TheShops, Since(now)))
      /\ figures.conversion = TrialConversion(TheShops, now)
      /\ figures.ltv = Ltv(TheShops)
      /\ figures.plans = PlanDistribution(TheShops)
      /\ figures.cash = MonthlyRevenue(TheShops, now)
      /\ figures.cashShown <=> \E m \in DOMAIN MonthlyRevenue(TheShops, now) :
                                 MonthlyRevenue(TheShops, now)[m].net # 0
  BY DEF MetricsPage
<1> HIDE DEF figures
<1>1. figures.mrr = (IF Running THEN PriceOf(Newest.plan) ELSE 0)
  BY <1>0, Income
<1>2. Total([p \in figures.plans |-> p.mrr]) = figures.mrr
  BY <1>0, IncomeOfPlans
<1>3. figures.paying + figures.trialing <= 1
  BY <1>0, PaysOrTries
<1>4. RecentMonths(now) \subseteq DOMAIN figures.cash
  BY <1>0, RevenueOf
<1>5. \A m \in DOMAIN figures.cash :
        figures.cash[m] = [net |-> Net(m), payments |-> Paid(m)]
  <2>1. \A m : InMonth("paid", m) = Paid(m)
    BY DEF MoneyInv, CashTold, PaidIn, DaysIn, InMonth, TakenIn
  <2> HIDE DEF Paid
  <2> QED
    BY <1>0, <2>1, CashOfMonth
<1>6. ~ figures.cashShown => \A m \in RecentMonths(now) : Net(m) = 0
  <2>1. ASSUME NEW m \in DOMAIN figures.cash PROVE figures.cash[m].net = Net(m)
    <3>1. figures.cash[m] = [net |-> Net(m), payments |-> Paid(m)]
      BY <1>5
    <3> HIDE DEF Net
    <3> QED
      BY <3>1
  <2> HIDE DEF Net
  <2> QED
    BY <1>0, <1>4, <2>1
<1>7. /\ figures.new > 0 => recent \cap At("created") # {}
      /\ figures.lost > 0 => recent \cap At("deleted") # {}
  BY <1>0, NewAndLost
<1>8. figures.ltv # None => Running /\ \E s \in Lifetimes(TheShops) : figures.ltv = LifetimeOf(s)
  BY <1>0, Worth
<1>9. Created = {} => figures.conversion = <<0, 1>>
  BY <1>0, NobodyConverted
<1> QED
  BY <1>1, <1>2, <1>3, <1>4, <1>5, <1>6, <1>7, <1>8, <1>9, Zenon
  DEF MetricsTrue, Running, figures

(* What the ledger says was paid back is never more than Stripe paid back, *)
(* and all of it once Stripe has its answers; and the figures of the       *)
(* business then tell what happened at Stripe, in whatever order its news  *)
(* came and however often (recordEvent and handleChargeRefunded of         *)
(* billing-service.ts, business-metrics-service.ts).                       *)
THEOREM LedgerTellsMoney == Spec => []MoneyAddsUp
<1>1. MoneyInv => MoneyAddsUp
  BY RefundsCounted, FiguresHold DEF MoneyAddsUp
<1> QED
  BY <1>1, MoneyStart, MoneyKept, PTL DEF Spec

(***************************************************************************)
(* Checkout.  A tenant has one customer at Stripe, and a second            *)
(* subscription only by a page asked for before the first was there: for   *)
(* any number of requests and pages at once, and however late the webhooks *)
(* are.                                                                    *)
(***************************************************************************)

PageRow  == [price : Prices \cup {Nothing}, bucket : Nat, customer : Customers,
             asked : Nat, again : BOOLEAN, used : BOOLEAN]
PaidRow  == [customer : Customers \cup {Nothing}, status : {"none", "active", "canceled"}]
VisitRow == [pc : {"idle", "ensure", "claim", "list", "open"}, price : Prices \cup {Nothing},
             customer : Customers \cup {Nothing}, asked : Nat, again : BOOLEAN]

CheckoutType ==
  /\ bucket \in Nat /\ customer \in known \cup {Nothing}
  /\ known \subseteq Customers /\ gone \subseteq known
  /\ paid \in [Payments -> PaidRow] /\ pages \subseteq PageRow
  /\ visit \in [Visits -> VisitRow]
  /\ \A s \in Made : paid[s].customer \in known

(* What Stripe makes is numbered without gaps.                             *)
Numbered(S) == Cardinality(S) \in Nat /\ S = 1..Cardinality(S)

Holding == {"claim", "list", "open"}

(* A customer that was never stored has no page and no subscription.       *)
Fresh(c) ==
  /\ customer # c /\ \A p \in pages : p.customer # c
  /\ \A s \in Made : paid[s].customer # c

(* What is live for c was made when n subscriptions were there.            *)
After(c, n) == n <= Cardinality(Made) /\ \A s \in Live(c) : s > n

(* What the program counter of a request says of what it holds: one that   *)
(* starts again holds on to the number it was told the first time, and     *)
(* whichever customer is stored by then is younger, or a webhook put it    *)
(* there.                                                                  *)
VisitOK(r) ==
  /\ r.pc \in Holding => r.customer \in known
  /\ r.asked <= Cardinality(Made)
  /\ r.pc = "claim" => Fresh(r.customer)
  /\ r.pc \in {"list", "open"} /\ gone = {} => r.customer = customer
  /\ r.again /\ r.pc \in {"ensure", "claim"} => After(customer, r.asked) \/ customer \in returned
  /\ (r.again /\ r.pc = "list") \/ r.pc = "open" =>
       After(r.customer, r.asked) \/ (r.again /\ r.customer \in returned)

PageOK(p) ==
  /\ p.customer \in known /\ (gone = {} => p.customer = customer)
  /\ After(p.customer, p.asked) \/ (p.again /\ p.customer \in returned)

(* A new customer is held by the request that made it alone.               *)
Alone ==
  \A v, w \in Visits : v # w /\ VisitAt(v, "claim") /\ visit[w].pc \in Holding =>
    visit[v].customer # visit[w].customer

(* Who has a subscription has a page.                                      *)
Bought == \A s \in Made : \E p \in pages : p.customer = paid[s].customer

CheckoutInv ==
  /\ CheckoutType /\ Numbered(known) /\ Numbered(Made) /\ Bought
  /\ \A v \in Visits : VisitOK(visit[v])
  /\ \A p \in pages : PageOK(p)
  /\ Alone

-----------------------------------------------------------------------------
LEMMA OneMore ==
  ASSUME NEW S, Numbered(S), NEW T, IsFiniteSet(T), T = 1..Cardinality(T), S \subseteq T, S # T
  PROVE  /\ Cardinality(S) + 1 \in T \ S
         /\ Numbered(S \cup {Cardinality(S) + 1})
         /\ Cardinality(S \cup {Cardinality(S) + 1}) = Cardinality(S) + 1
<1> DEFINE n == Cardinality(S)  m == Cardinality(T)
<1>1. n \in Nat /\ S = 1..n
  BY DEF Numbered
<1>5. m \in Nat /\ T = 1..m
  BY FS_CardinalityType
<1> HIDE DEF n, m
<1>2. n + 1 \in T \ S
  BY <1>1, <1>5
<1>3. S \cup {n + 1} = 1..(n + 1)
  BY <1>1
<1>4. Cardinality(1..(n + 1)) = n + 1
  BY <1>1, FS_Interval
<1>6. Cardinality(S \cup {n + 1}) = n + 1 /\ Numbered(S \cup {n + 1})
  <2>1. ASSUME NEW U, U = 1..(n + 1) PROVE Cardinality(U) = n + 1 /\ Numbered(U)
    <3>1. Cardinality(U) = n + 1 /\ n + 1 \in Nat
      BY <1>1, <1>4, <2>1
    <3> QED
      BY <2>1, <3>1, Zenon DEF Numbered
  <2> QED
    BY <1>3, <2>1, Zenon
<1> QED
  BY <1>2, <1>6 DEF n

LEMMA NoCustomer ==
  ASSUME CheckoutInv
  PROVE  /\ Nothing \notin known /\ \A n \in Nat : n <= Cardinality(Made) => After(Nothing, n)
         /\ \A c : Fresh(c) => Live(c) = {}
  BY CheckoutAssumption DEF CheckoutAssumption, CheckoutInv, CheckoutType, After, Live, Fresh

Others(v) == {visit[w] : w \in Visits \ {v}}

(* A request goes on: what it must leave true of the others.               *)
LEMMA VisitTurns ==
  ASSUME CheckoutInv, NEW v \in Visits, NEW r \in VisitRow, Asks(v, r),
         UNCHANGED <<paid, gone, returned>>, pages \subseteq pages', known \subseteq known', known' \subseteq Customers,
         Numbered(known)', customer' \in known' \cup {Nothing}, bucket' \in Nat,
         pages' \subseteq PageRow, \A p \in pages' : PageOK(p)', VisitOK(r)',
         \A q \in Others(v) :
           /\ q.pc = "claim" => Fresh(q.customer)'
           /\ q.pc \in {"list", "open"} /\ gone = {} => q.customer = customer'
           /\ q.again /\ q.pc \in {"ensure", "claim"} => (After(customer, q.asked) \/ customer \in returned)'
           /\ q.pc = "claim" /\ r.pc \in Holding => r.customer # q.customer
           /\ r.pc = "claim" /\ q.pc \in Holding => r.customer # q.customer
  PROVE  CheckoutInv'
<1>1. /\ visit' \in [Visits -> VisitRow] /\ visit'[v] = r
      /\ \A w \in Visits \ {v} : visit'[w] = visit[w]
  BY DEF CheckoutInv, CheckoutType, Asks
<1>2. Made' = Made /\ \A c : Live(c)' = Live(c)
  BY DEF Made, Live
<1>3. CheckoutType'
  BY <1>1, <1>2 DEF CheckoutInv, CheckoutType
<1>4. Numbered(Made)'
  BY <1>2 DEF CheckoutInv, Numbered
<1>5. \A c, n : After(c, n)' <=> After(c, n)
  BY <1>2 DEF After
<1>6. ASSUME NEW w \in Visits PROVE VisitOK(visit[w])'
  <2>1. CASE w = v
    <3>1. visit'[w] = r
      BY <1>1, <2>1
    <3> QED
      BY <3>1 DEF VisitOK
  <2>2. CASE w # v
    <3>1. PICK q : q = visit[w] /\ q \in Others(v) /\ VisitOK(q) /\ visit'[w] = q
      BY <1>1, <2>2 DEF Others, CheckoutInv
    <3>2. /\ q.pc = "claim" => Fresh(q.customer)'
          /\ q.pc \in {"list", "open"} /\ gone = {} => q.customer = customer'
          /\ q.again /\ q.pc \in {"ensure", "claim"} => (After(customer, q.asked) \/ customer \in returned)'
      BY <3>1
    <3>3. VisitOK(q) /\ Made' = Made
      BY <1>2, <3>1
    <3> QED
      BY <1>5, <3>1, <3>2, <3>3 DEF VisitOK
  <2> QED
    BY <2>1, <2>2
<1>7. Alone'
  <2>1. \A w \in Visits \ {v} : visit[w] \in Others(v)
    BY DEF Others
  <2> QED
    BY <1>1, <2>1 DEF CheckoutInv, Alone, VisitAt
<1>8. Bought'
  BY <1>2 DEF CheckoutInv, Bought
<1> QED
  BY <1>3, <1>4, <1>6, <1>7, <1>8 DEF CheckoutInv

(* What the others hold is not what v holds, while one of them is new.     *)
LEMMA OthersApart ==
  ASSUME CheckoutInv, NEW v \in Visits
  PROVE  /\ VisitOK(visit[v]) /\ visit[v] \in VisitRow
         /\ \A q \in Others(v) :
              /\ VisitOK(q) /\ q \in VisitRow
              /\ q.pc = "claim" /\ visit[v].pc \in Holding => visit[v].customer # q.customer
              /\ visit[v].pc = "claim" /\ q.pc \in Holding => visit[v].customer # q.customer
<1>1. \A w \in Visits : VisitOK(visit[w]) /\ visit[w] \in VisitRow
  BY DEF CheckoutInv, CheckoutType
<1> QED
  BY <1>1 DEF Others, CheckoutInv, Alone, VisitAt

(* The tables stay as they are.                                            *)
LEMMA OnlyVisit ==
  ASSUME CheckoutInv, NEW v \in Visits, NEW r \in VisitRow, Asks(v, r), VisitOK(r),
         UNCHANGED <<bucket, customer, known, gone, paid, pages, returned>>, r.pc # "claim",
         r.pc \in Holding => \/ r.customer = customer
                             \/ visit[v].pc \in Holding /\ r.customer = visit[v].customer
  PROVE  CheckoutInv'
<1>1. /\ \A c : Fresh(c)' <=> Fresh(c)
      /\ \A c, n : After(c, n)' <=> After(c, n)
      /\ Made' = Made
  BY DEF Fresh, After, Made, Live
<1>2. VisitOK(r)' /\ \A p \in pages' : PageOK(p)'
  BY <1>1 DEF VisitOK, PageOK, CheckoutInv
<1>3. /\ known' = known /\ Numbered(known)' /\ known \subseteq Customers /\ bucket' \in Nat
      /\ customer' \in known' \cup {Nothing} /\ pages' \subseteq PageRow
  BY DEF CheckoutInv, CheckoutType, Numbered
<1>4. ASSUME NEW q \in Others(v)
      PROVE  /\ q.pc = "claim" => Fresh(q.customer)'
             /\ q.pc \in {"list", "open"} /\ gone = {} => q.customer = customer'
             /\ q.again /\ q.pc \in {"ensure", "claim"} => (After(customer, q.asked) \/ customer \in returned)'
             /\ q.pc = "claim" /\ r.pc \in Holding => r.customer # q.customer
             /\ r.pc = "claim" /\ q.pc \in Holding => r.customer # q.customer
  <2>1. /\ VisitOK(q)
        /\ q.pc = "claim" /\ visit[v].pc \in Holding => visit[v].customer # q.customer
    BY OthersApart
  <2> QED
    BY <1>1, <2>1 DEF VisitOK, Fresh
<1> QED
  BY <1>2, <1>3, <1>4, VisitTurns

LEMMA VisitsKept ==
  ASSUME CheckoutInv, NEW v \in Visits,
         \/ \E price \in Prices : StartCheckout(v, price)
         \/ EnsureCustomer(v) \/ ClaimCustomer(v) \/ ListLive(v) \/ OpenPage(v)
         \/ Heal(v) \/ Dies(v)
  PROVE  CheckoutInv'
<1> DEFINE o == visit[v]  n == Cardinality(Made)
<1>0. /\ o \in VisitRow /\ VisitOK(o) /\ CheckoutType /\ n \in Nat /\ Numbered(known)
      /\ Nothing \notin Customers /\ o.customer \in Customers \cup {Nothing} /\ o.asked \in Nat
      /\ \A p \in pages : PageOK(p)
  BY OthersApart, CheckoutAssumption
     DEF CheckoutInv, Numbered, CheckoutAssumption, VisitRow
<1>1. IdleVisit \in VisitRow /\ VisitOK(IdleVisit) /\ IdleVisit.pc = "idle"
  BY <1>0 DEF IdleVisit, VisitRow, VisitOK, Holding
<1>2. CASE Gives(v) /\ UNCHANGED <<bucket, customer, known, gone, paid, pages, returned>>
  BY <1>1, <1>2, OnlyVisit DEF Gives, Holding
<1>3. ASSUME NEW price \in Prices, StartCheckout(v, price) PROVE CheckoutInv'
  <2> DEFINE r == [IdleVisit EXCEPT !.pc = "ensure", !.price = price]
  <2>1. Asks(v, r) /\ UNCHANGED <<bucket, customer, known, gone, paid, pages, returned>>
    BY <1>3 DEF StartCheckout
  <2>2. r \in VisitRow /\ r.pc = "ensure" /\ VisitOK(r)
    <3>1. IdleVisit.asked = 0 /\ IdleVisit.again = FALSE
      BY DEF IdleVisit
    <3>2. r \in VisitRow /\ r.pc = "ensure" /\ r.asked = 0 /\ r.again = FALSE
      BY <1>1, <3>1 DEF VisitRow
    <3> QED
      BY <1>0, <3>2 DEF VisitOK, Holding
  <2> HIDE DEF r
  <2> QED
    BY <2>1, <2>2, OnlyVisit DEF Holding
<1>4. CASE EnsureCustomer(v) /\ customer # Nothing
  <2> DEFINE r == [o EXCEPT !.pc = "list", !.customer = customer]
  <2>1. /\ Asks(v, r) /\ UNCHANGED <<bucket, customer, known, gone, paid, pages, returned>>
        /\ o.pc = "ensure"
    BY <1>4 DEF EnsureCustomer, VisitAt
  <2>2. customer \in known /\ customer \in Customers
    BY <1>0, <1>4 DEF CheckoutType
  <2>3. /\ r \in VisitRow /\ r.pc = "list" /\ r.customer = customer /\ r.asked = o.asked
        /\ r.again = o.again
    BY <1>0, <2>2 DEF VisitRow
  <2> HIDE DEF r
  <2>4. VisitOK(r)
    BY <1>0, <2>1, <2>2, <2>3 DEF VisitOK
  <2> QED
    BY <2>1, <2>3, <2>4, OnlyVisit
<1>5. CASE EnsureCustomer(v) /\ customer = Nothing
  <2>1. PICK c, r :
          /\ c = Cardinality(known) + 1 /\ r = [o EXCEPT !.pc = "claim", !.customer = c]
          /\ Asks(v, r) /\ UNCHANGED <<bucket, customer, mirror, gone, paid, pages, returned>>
          /\ o.pc = "ensure" /\ known' = known \cup {c} /\ known # Customers
    BY <1>5 DEF EnsureCustomer, VisitAt
  <2>2. c \in Customers \ known /\ Numbered(known)'
    BY <1>0, <2>1, OneMore, CheckoutAssumption DEF CheckoutAssumption, CheckoutType
  <2>3. /\ r \in VisitRow /\ r.pc = "claim" /\ r.customer = c /\ r.asked = o.asked
        /\ r.again = o.again
    BY <1>0, <2>1, <2>2 DEF VisitRow
  <2>4. /\ \A d : Fresh(d)' <=> Fresh(d)
        /\ \A d, k : After(d, k)' <=> After(d, k)
        /\ Made' = Made
    BY <2>1 DEF Fresh, After, Made, Live
  <2>5. Fresh(c)
    BY <1>0, <2>2 DEF Fresh, CheckoutType, PageOK
  <2>6. VisitOK(r)'
    BY <1>0, <2>1, <2>3, <2>4, <2>5 DEF VisitOK, Holding
  <2>7. \A p \in pages' : PageOK(p)'
    BY <1>0, <2>1, <2>4 DEF PageOK
  <2>8. /\ known' \subseteq Customers /\ bucket' \in Nat /\ pages' \subseteq PageRow
        /\ customer' \in known' \cup {Nothing}
    BY <1>0, <2>1, <2>2 DEF CheckoutType
  <2>9. ASSUME NEW q \in Others(v)
        PROVE  /\ q.pc = "claim" => Fresh(q.customer)'
               /\ q.pc \in {"list", "open"} /\ gone = {} => q.customer = customer'
               /\ q.again /\ q.pc \in {"ensure", "claim"} => (After(customer, q.asked) \/ customer \in returned)'
               /\ q.pc \in Holding => r.customer # q.customer
    <3>1. VisitOK(q)
      BY OthersApart
    <3> QED
      BY <2>1, <2>2, <2>3, <2>4, <3>1 DEF VisitOK, Holding
  <2> QED
    BY <2>1, <2>2, <2>3, <2>6, <2>7, <2>8, <2>9, VisitTurns DEF Holding
<1>6. ASSUME VisitAt(v, "claim"), customer = Nothing, ClaimCustomer(v) PROVE CheckoutInv'
  <2>1. PICK r :
          /\ r = [o EXCEPT !.pc = "list", !.customer = o.customer]
          /\ Asks(v, r) /\ customer' = o.customer
          /\ UNCHANGED <<bucket, mirror, known, gone, paid, pages, returned>>
    BY <1>6 DEF ClaimCustomer
  <2>2. /\ r \in VisitRow /\ r.pc = "list" /\ r.customer = o.customer /\ r.asked = o.asked
        /\ r.again = o.again
    BY <1>0, <2>1 DEF VisitRow
  <2>3. o.pc = "claim" /\ o.customer \in known /\ Fresh(o.customer) /\ Live(o.customer) = {}
    BY <1>0, <1>6, NoCustomer DEF VisitAt, VisitOK, Holding
  <2>4. /\ \A d, k : After(d, k)' <=> After(d, k)
        /\ Made' = Made
    BY <2>1 DEF After, Made, Live
  <2>5. VisitOK(r)'
    BY <1>0, <2>1, <2>2, <2>3, <2>4 DEF VisitOK, After, Holding
  <2>6. \A p \in pages' : PageOK(p)'
    BY <1>0, <1>6, <2>1, <2>4 DEF PageOK, CheckoutType
  <2>7. /\ known' \subseteq Customers /\ bucket' \in Nat /\ pages' \subseteq PageRow
        /\ customer' \in known' \cup {Nothing} /\ known' = known /\ Numbered(known)'
    BY <1>0, <2>1, <2>3 DEF CheckoutType, Numbered
  <2>8. ASSUME NEW q \in Others(v)
        PROVE  /\ q.pc = "claim" => Fresh(q.customer)'
               /\ q.pc \in {"list", "open"} /\ gone = {} => q.customer = customer'
               /\ q.again /\ q.pc \in {"ensure", "claim"} => (After(customer, q.asked) \/ customer \in returned)'
               /\ q.pc = "claim" /\ r.pc \in Holding => r.customer # q.customer
    <3>1. /\ VisitOK(q) /\ (q.pc \in Holding => o.customer # q.customer)
          /\ q.asked <= n
      BY <2>3, OthersApart DEF VisitOK
    <3>2. Nothing \notin known
      BY NoCustomer
    <3> QED
      BY <1>6, <2>1, <2>2, <2>3, <2>4, <3>1, <3>2 DEF VisitOK, Fresh, Holding, After
  <2> QED
    BY <2>1, <2>2, <2>5, <2>6, <2>7, <2>8, VisitTurns
<1>7. ASSUME VisitAt(v, "claim"), customer # Nothing, ClaimCustomer(v) PROVE CheckoutInv'
  <2> DEFINE r == [o EXCEPT !.pc = "list", !.customer = customer]
  <2>1. /\ Asks(v, r) /\ UNCHANGED <<bucket, customer, known, gone, paid, pages, returned>>
        /\ o.pc = "claim"
    BY <1>7 DEF ClaimCustomer, VisitAt
  <2>2. customer \in known /\ customer \in Customers
    BY <1>0, <1>7 DEF CheckoutType
  <2>3. /\ r \in VisitRow /\ r.pc = "list" /\ r.customer = customer /\ r.asked = o.asked
        /\ r.again = o.again
    BY <1>0, <2>2 DEF VisitRow
  <2> HIDE DEF r
  <2>4. VisitOK(r)
    BY <1>0, <2>1, <2>2, <2>3 DEF VisitOK
  <2> QED
    BY <2>1, <2>3, <2>4, OnlyVisit
<1>8. CASE ListLive(v) /\ visit' # [visit EXCEPT ![v] = IdleVisit]
  <2>1. /\ o.pc = "list" /\ UNCHANGED <<bucket, customer, known, gone, paid, pages, returned>>
        /\ \/ Live(o.customer) = {} /\ Asks(v, [o EXCEPT !.pc = "open", !.asked = n])
           \/ o.again /\ Asks(v, [o EXCEPT !.pc = "open"])
    BY <1>8 DEF ListLive, VisitAt, Gives, Asks
  <2>2. PICK k \in {n, o.asked} : /\ Asks(v, [o EXCEPT !.pc = "open", !.asked = k])
                                  /\ Live(o.customer) = {} \/ (o.again /\ k = o.asked)
    BY <1>0, <2>1 DEF VisitRow
  <2> DEFINE r == [o EXCEPT !.pc = "open", !.asked = k]
  <2>3. /\ r \in VisitRow /\ r.pc = "open" /\ r.customer = o.customer /\ r.asked = k
        /\ r.again = o.again
    BY <1>0, <2>2 DEF VisitRow
  <2>4. Asks(v, r)
    BY <2>2
  <2> HIDE DEF r
  <2>5. After(o.customer, k) \/ (o.again /\ o.customer \in returned)
    BY <1>0, <2>1, <2>2 DEF VisitOK, After
  <2>6. VisitOK(r)
    BY <1>0, <2>1, <2>3, <2>5 DEF VisitOK, Holding, After
  <2> QED
    BY <2>1, <2>3, <2>4, <2>6, OnlyVisit DEF Holding
<1>9. CASE OpenPage(v) /\ Same(o.price) = {}
  <2>1. PICK p : /\ p = [price |-> o.price, bucket |-> bucket, used |-> FALSE,
                         customer |-> o.customer, asked |-> o.asked, again |-> o.again]
                 /\ pages' = pages \cup {p} /\ Asks(v, IdleVisit)
                 /\ UNCHANGED <<bucket, customer, mirror, known, gone, paid, returned>>
    BY <1>9 DEF OpenPage, Gives
  <2>2. /\ o.pc = "open" /\ o.customer \in known
        /\ After(o.customer, o.asked) \/ (o.again /\ o.customer \in returned)
        /\ (gone = {} => o.customer = customer)
    BY <1>0, <1>9 DEF OpenPage, VisitAt, VisitOK, Holding
  <2>3. p \in PageRow /\ p.customer = o.customer /\ p.asked = o.asked /\ p.again = o.again
    <3>1. o.customer \in Customers /\ bucket \in Nat
      BY <1>0, <2>2 DEF CheckoutType
    <3>2. o.price \in Prices \cup {Nothing} /\ o.asked \in Nat /\ o.again \in BOOLEAN
      BY <1>0 DEF VisitRow
    <3> QED
      BY <2>1, <3>1, <3>2 DEF PageRow
  <2>4. /\ \A d, k : After(d, k)' <=> After(d, k)
        /\ Made' = Made
    BY <2>1 DEF After, Made, Live
  <2>5. VisitOK(IdleVisit)'
    BY <1>0, <2>4 DEF VisitOK, IdleVisit, Holding
  <2>6. \A d \in pages' : PageOK(d)'
    BY <1>0, <2>1, <2>2, <2>3, <2>4 DEF PageOK
  <2>7. /\ known' = known /\ known' \subseteq Customers /\ bucket' \in Nat /\ pages' \subseteq PageRow
        /\ customer' \in known' \cup {Nothing} /\ Numbered(known)'
    BY <1>0, <2>1, <2>3 DEF CheckoutType, Numbered
  <2>8. ASSUME NEW q \in Others(v)
        PROVE  /\ q.pc = "claim" => Fresh(q.customer)'
               /\ q.pc \in {"list", "open"} /\ gone = {} => q.customer = customer'
               /\ q.again /\ q.pc \in {"ensure", "claim"} => (After(customer, q.asked) \/ customer \in returned)'
    <3>1. VisitOK(q) /\ (q.pc = "claim" => o.customer # q.customer)
      BY <2>2, OthersApart DEF Holding
    <3> QED
      BY <2>1, <2>3, <2>4, <3>1 DEF VisitOK, Fresh
  <2> QED
    BY <1>1, <2>1, <2>5, <2>6, <2>7, <2>8, VisitTurns DEF Holding
<1>10. CASE Heal(v) /\ ~ o.again
  <2>1. PICK r :
          /\ r = [o EXCEPT !.pc = "ensure", !.again = TRUE]
          /\ Asks(v, r) /\ customer' = Nothing
          /\ UNCHANGED <<bucket, mirror, known, gone, paid, pages, returned>> /\ gone # {}
    BY <1>10 DEF Heal
  <2>2. /\ r \in VisitRow /\ r.pc = "ensure" /\ r.asked = o.asked
    BY <1>0, <2>1 DEF VisitRow
  <2>3. /\ \A k \in Nat : k <= n => After(Nothing, k)
        /\ Nothing \notin known /\ o.asked <= n
    BY <1>0, NoCustomer DEF VisitOK
  <2>4. /\ \A d, k : After(d, k)' <=> After(d, k)
        /\ Made' = Made
    BY <2>1 DEF After, Made, Live
  <2>5. VisitOK(r)'
    BY <1>0, <2>1, <2>2, <2>3, <2>4 DEF VisitOK, Holding
  <2>6. \A p \in pages' : PageOK(p)'
    BY <1>0, <2>1, <2>4 DEF PageOK
  <2>7. /\ known' = known /\ known' \subseteq Customers /\ bucket' \in Nat /\ pages' \subseteq PageRow
        /\ customer' \in known' \cup {Nothing} /\ Numbered(known)'
    BY <1>0, <2>1 DEF CheckoutType, Numbered
  <2>8. ASSUME NEW q \in Others(v)
        PROVE  /\ q.pc = "claim" => Fresh(q.customer)'
               /\ q.pc \in {"list", "open"} /\ gone = {} => q.customer = customer'
               /\ q.again /\ q.pc \in {"ensure", "claim"} => (After(customer, q.asked) \/ customer \in returned)'
    <3>1. VisitOK(q) /\ q \in VisitRow /\ q.asked \in Nat
      BY OthersApart DEF VisitRow
    <3> QED
      BY <2>1, <2>3, <2>4, <3>1 DEF VisitOK, Fresh, Holding
  <2> QED
    BY <2>1, <2>2, <2>5, <2>6, <2>7, <2>8, VisitTurns DEF Holding
<1>11. CASE ListLive(v) /\ visit' = [visit EXCEPT ![v] = IdleVisit]
  BY <1>2, <1>11 DEF ListLive, Gives, Asks
<1>12. CASE OpenPage(v) /\ Same(o.price) # {}
  BY <1>2, <1>12 DEF OpenPage
<1>13. CASE Heal(v) /\ o.again
  BY <1>2, <1>13 DEF Heal
<1>14. CASE Dies(v)
  BY <1>2, <1>14 DEF Dies
<1>15. ClaimCustomer(v) => VisitAt(v, "claim")
  BY DEF ClaimCustomer
<1> QED
  BY <1>3, <1>4, <1>5, <1>6, <1>7, <1>8, <1>9, <1>10, <1>11, <1>12, <1>13, <1>14, <1>15

-----------------------------------------------------------------------------
(* At Stripe.  No subscription of the past comes alive; a new one has the  *)
(* next number.                                                            *)
LEMMA StripeTurns ==
  ASSUME CheckoutInv, UNCHANGED <<bucket, customer, known, visit, returned>>,
         gone \subseteq gone', gone' \subseteq known,
         paid' \in [Payments -> PaidRow], pages' \subseteq PageRow,
         Numbered(Made)', Made \subseteq Made',
         \A s \in Made' : paid'[s].customer \in known,
         \A s \in Made : paid'[s].customer = paid[s].customer,
         \A s \in Made' \ Made : s > Cardinality(Made)
                                 /\ \E p \in pages : p.customer = paid'[s].customer,
         \A c : Live(c)' \cap Made \subseteq Live(c),
         \A p \in pages' : \E q \in pages :
           p.customer = q.customer /\ p.asked = q.asked /\ p.again = q.again,
         \A p \in pages : \E q \in pages' : q.customer = p.customer
  PROVE  CheckoutInv'
<1> DEFINE n == Cardinality(Made)
<1>1. n \in Nat /\ Cardinality(Made') \in Nat /\ n <= Cardinality(Made')
  <2>1. Numbered(Made) /\ Numbered(Made)'
    BY DEF CheckoutInv
  <2>2. Made = 1..n /\ n \in Nat /\ Made' = 1..Cardinality(Made') /\ Cardinality(Made') \in Nat
    BY <2>1 DEF Numbered
  <2>3. CASE n = 0
    BY <2>2, <2>3
  <2>4. CASE n # 0
    <3>1. n \in Made'
      BY <2>2, <2>4
    <3> QED
      BY <2>2, <3>1
  <2> QED
    BY <2>3, <2>4
<1>2. \A c : \A k \in Nat : After(c, k) => After(c, k)'
  <2> SUFFICES ASSUME NEW c, NEW k \in Nat, After(c, k) PROVE After(c, k)'
    OBVIOUS
  <2>1. ASSUME NEW s \in Live(c)' PROVE s > k
    <3>1. CASE s \in Made
      BY <2>1, <3>1 DEF After
    <3>2. CASE s \notin Made
      <4>1. s \in Made' /\ s > n /\ k <= n /\ s \in Nat
        BY <2>1, <3>2, <1>1 DEF Live, After, CheckoutInv, Numbered
      <4> QED
        BY <1>1, <4>1
    <3> QED
      BY <3>1, <3>2
  <2>2. k <= Cardinality(Made')
    BY <1>1 DEF After
  <2> QED
    BY <2>1, <2>2 DEF After
<1>3. \A c : Fresh(c) => Fresh(c)'
  <2> SUFFICES ASSUME NEW c, Fresh(c) PROVE Fresh(c)'
    OBVIOUS
  <2>1. \A s \in Made' : paid'[s].customer # c
    BY DEF Fresh
  <2> QED
    BY <2>1 DEF Fresh
<1>4. CheckoutType'
  BY DEF CheckoutInv, CheckoutType
<1>5. ASSUME NEW v \in Visits PROVE VisitOK(visit[v])'
  <2>1. PICK r : r = visit[v] /\ r \in VisitRow /\ VisitOK(r) /\ visit'[v] = r /\ r.asked \in Nat
    BY DEF CheckoutInv, CheckoutType, VisitRow
  <2>2. r.asked <= Cardinality(Made')
    BY <1>1, <2>1 DEF VisitOK
  <2>3. VisitOK(r)'
    BY <1>2, <1>3, <2>1, <2>2 DEF VisitOK
  <2> QED
    BY <2>1, <2>3 DEF VisitOK
<1>6. ASSUME NEW p \in pages' PROVE PageOK(p)'
  <2>1. PICK q \in pages : p.customer = q.customer /\ p.asked = q.asked /\ p.again = q.again
    BY <1>6
  <2>2. PageOK(q) /\ q.asked \in Nat
    BY DEF CheckoutInv, CheckoutType, PageRow
  <2> QED
    BY <1>2, <2>1, <2>2 DEF PageOK
<1>7. Alone' /\ Numbered(known)'
  BY DEF CheckoutInv, Alone, VisitAt, Numbered
<1>8. Bought'
  <2> SUFFICES ASSUME NEW s \in Made' PROVE \E p \in pages' : p.customer = paid'[s].customer
    BY DEF Bought
  <2>1. \E p \in pages : p.customer = paid'[s].customer
    BY DEF CheckoutInv, Bought
  <2> QED
    BY <2>1
<1> QED
  BY <1>4, <1>5, <1>6, <1>7, <1>8 DEF CheckoutInv

LEMMA CompletesKept ==
  ASSUME CheckoutInv, NEW p \in pages, CompletePage(p)
  PROVE  CheckoutInv'
<1>1. PICK s : s = Cardinality(Made) + 1
  OBVIOUS
<1>2. PICK u : u = [p EXCEPT !.used = TRUE]
  OBVIOUS
<1>3. /\ paid' = [paid EXCEPT ![s] = [customer |-> p.customer, status |-> "active"]]
      /\ pages' = (pages \ {p}) \cup {u} /\ Made # Payments
      /\ UNCHANGED <<bucket, customer, mirror, known, gone, visit, returned>>
  BY <1>1, <1>2 DEF CompletePage
<1>4. /\ s \in Payments \ Made /\ Numbered(Made \cup {s}) /\ Made \subseteq Payments
      /\ s > Cardinality(Made)
  <2>1. Numbered(Made) /\ Made \subseteq Payments /\ Cardinality(Made) \in Nat
    BY DEF CheckoutInv, Made, Numbered
  <2>2. IsFiniteSet(Payments) /\ Payments = 1..Cardinality(Payments)
    BY CheckoutAssumption DEF CheckoutAssumption
  <2>3. /\ Cardinality(Made) + 1 \in Payments \ Made
        /\ Numbered(Made \cup {Cardinality(Made) + 1})
    BY <1>3, <2>1, <2>2, OneMore
  <2>4. s > Cardinality(Made)
    BY <1>1, <2>1
  <2> QED
    BY <1>1, <2>1, <2>3, <2>4
<1>5. p \in PageRow /\ p.customer \in known /\ p.customer \in Customers /\ CheckoutType
  BY DEF CheckoutInv, CheckoutType, PageOK
<1>6. u \in PageRow /\ u.customer = p.customer /\ u.asked = p.asked /\ u.again = p.again
  BY <1>2, <1>5 DEF PageRow
<1>7. /\ paid' \in [Payments -> PaidRow] /\ paid'[s].status = "active"
      /\ paid'[s].customer = p.customer
      /\ \A t \in Payments \ {s} : paid'[t] = paid[t]
  <2>1. [customer |-> p.customer, status |-> "active"] \in PaidRow
    BY <1>5 DEF PaidRow
  <2> QED
    BY <1>3, <1>4, <1>5, <2>1 DEF CheckoutType
<1>8. Made' = Made \cup {s}
  BY <1>4, <1>7 DEF Made
<1>9. Numbered(Made)'
  BY <1>4, <1>8 DEF Numbered
<1>10. \A c : Live(c)' \cap Made \subseteq Live(c)
  BY <1>4, <1>7 DEF Live, Made
<1>11. /\ \A t \in Made' : paid'[t].customer \in known
       /\ \A t \in Made : paid'[t].customer = paid[t].customer
       /\ \A t \in Made' \ Made : t > Cardinality(Made)
                                 /\ \E q \in pages : q.customer = paid'[t].customer
  BY <1>4, <1>5, <1>7, <1>8 DEF CheckoutType
<1>12. /\ pages' \subseteq PageRow
       /\ \A d \in pages' : \E q \in pages :
            d.customer = q.customer /\ d.asked = q.asked /\ d.again = q.again
       /\ \A d \in pages : \E q \in pages' : q.customer = d.customer
  BY <1>3, <1>5, <1>6 DEF CheckoutType
<1>13. gone \subseteq gone' /\ gone' \subseteq known /\ Made \subseteq Made'
  BY <1>3, <1>5, <1>8 DEF CheckoutType
<1> QED
  BY <1>3, <1>7, <1>9, <1>10, <1>11, <1>12, <1>13, StripeTurns

(* A subscription is over, or all those of a lost customer are.            *)
LEMMA EndsKept ==
  ASSUME CheckoutInv, \/ \E s \in Payments : EndSubscription(s)
                      \/ \E c \in Customers : LoseCustomer(c)
  PROVE  CheckoutInv'
<1>0. CheckoutType
  BY DEF CheckoutInv
<1>1. /\ UNCHANGED <<bucket, customer, known, pages, visit, returned>>
      /\ gone \subseteq gone' /\ gone' \subseteq known
  BY <1>0 DEF EndSubscription, LoseCustomer, CheckoutType
<1>2. /\ paid' \in [Payments -> PaidRow]
      /\ \A s \in Payments :
           \/ paid'[s] = paid[s]
           \/ /\ s \in Made /\ paid'[s].customer = paid[s].customer
              /\ paid'[s].status = "canceled"
  <2>1. ASSUME NEW s \in Payments, NEW r, r = [paid[s] EXCEPT !.status = "canceled"]
        PROVE  r \in PaidRow /\ r.customer = paid[s].customer /\ r.status = "canceled"
    BY <1>0, <2>1 DEF CheckoutType, PaidRow
  <2>2. CASE \E s \in Payments : EndSubscription(s)
    <3>1. PICK s \in Payments : EndSubscription(s)
      BY <2>2
    <3>2. PICK r : r = [paid[s] EXCEPT !.status = "canceled"]
      OBVIOUS
    <3>3. paid' = [paid EXCEPT ![s] = r] /\ s \in Made
      BY <3>1, <3>2 DEF EndSubscription
    <3>4. r \in PaidRow /\ r.customer = paid[s].customer /\ r.status = "canceled"
      BY <2>1, <3>2
    <3> QED
      BY <1>0, <3>3, <3>4 DEF CheckoutType
  <2>3. CASE \E c \in Customers : LoseCustomer(c)
    <3>1. PICK c \in Customers : LoseCustomer(c)
      BY <2>3
    <3>2. paid' = [s \in Payments |->
            IF s \in Live(c) THEN [paid[s] EXCEPT !.status = "canceled"] ELSE paid[s]]
      BY <3>1 DEF LoseCustomer
    <3>3. ASSUME NEW s \in Payments
          PROVE  /\ paid'[s] \in PaidRow
                 /\ \/ paid'[s] = paid[s]
                    \/ /\ s \in Made /\ paid'[s].customer = paid[s].customer
                       /\ paid'[s].status = "canceled"
      <4>1. CASE s \in Live(c)
        <5>1. PICK r : r = [paid[s] EXCEPT !.status = "canceled"]
          OBVIOUS
        <5>2. paid'[s] = r /\ s \in Made
          BY <3>2, <4>1, <5>1 DEF Live
        <5> QED
          BY <2>1, <5>1, <5>2
      <4>2. CASE s \notin Live(c)
        BY <1>0, <3>2, <4>2 DEF CheckoutType
      <4> QED
        BY <4>1, <4>2
    <3> QED
      BY <3>2, <3>3
  <2> QED
    BY <2>2, <2>3
<1>3. Made' = Made
  BY <1>2 DEF Made
<1>4. \A c : Live(c)' \cap Made \subseteq Live(c)
  BY <1>2 DEF Live, Made, DEAD_SUB_STATUSES
<1>5. Numbered(Made)'
  BY <1>3 DEF Numbered, CheckoutInv
<1>6. /\ \A s \in Made' : paid'[s].customer \in known
      /\ \A s \in Made : paid'[s].customer = paid[s].customer
  BY <1>0, <1>2, <1>3 DEF CheckoutType, Made
<1>7. /\ pages' \subseteq PageRow
      /\ \A p \in pages' : \E q \in pages :
            p.customer = q.customer /\ p.asked = q.asked /\ p.again = q.again
      /\ \A p \in pages : \E q \in pages' : q.customer = p.customer
  BY <1>0, <1>1 DEF CheckoutType
<1> QED
  BY <1>1, <1>2, <1>3, <1>4, <1>5, <1>6, <1>7, StripeTurns

(* The clock and the status in the row are no part of it; a customer that  *)
(* a webhook writes has a page, and was not there before if it comes back. *)
LEMMA OthersKept ==
  ASSUME CheckoutInv, UNCHANGED <<known, gone, paid, pages, visit>>, bucket' \in Nat,
         \/ UNCHANGED <<customer, returned>>
         \/ \E s \in Made : /\ customer' = paid[s].customer
                           /\ returned' = IF customer' = customer THEN returned
                                          ELSE returned \cup {customer'}
  PROVE  CheckoutInv'
<1>1. /\ Made' = Made /\ returned \subseteq returned'
      /\ \A c, k : After(c, k) => After(c, k)'
  BY DEF Made, After, Live
<1>2. \/ customer' = customer
      \/ (\E s \in Made : customer' = paid[s].customer) /\ customer' \in returned'
  OBVIOUS
<1>3. gone = {} => customer' = customer
  <2>1. CASE customer' # customer
    <3>1. PICK s \in Made : customer' = paid[s].customer
      BY <1>2, <2>1
    <3>2. PICK p \in pages : p.customer = paid[s].customer
      BY DEF CheckoutInv, Bought
    <3> QED
      BY <3>1, <3>2 DEF CheckoutInv, PageOK
  <2> QED
    BY <2>1
<1>4. \A c : Fresh(c) => Fresh(c)'
  BY <1>1, <1>2 DEF Fresh
<1>5. CheckoutType' /\ Numbered(known)' /\ Numbered(Made)' /\ Alone' /\ Bought'
  BY <1>1, <1>2 DEF CheckoutInv, CheckoutType, Numbered, Alone, VisitAt, Bought
<1>6. \A k : After(customer, k) \/ customer \in returned =>
              (After(customer, k) \/ customer \in returned)'
  BY <1>1, <1>2 DEF After
<1>7. ASSUME NEW v \in Visits PROVE VisitOK(visit[v])'
  <2>1. PICK r : r = visit[v] /\ visit'[v] = r /\ VisitOK(r)
    BY DEF CheckoutInv
  <2>2. VisitOK(r)'
    BY <1>1, <1>3, <1>4, <1>6, <2>1 DEF VisitOK
  <2> QED
    BY <2>1, <2>2
<1>8. \A p \in pages' : PageOK(p)'
  BY <1>1, <1>3 DEF CheckoutInv, PageOK
<1> QED
  BY <1>5, <1>7, <1>8 DEF CheckoutInv

LEMMA CheckoutStart == CheckoutInit => CheckoutInv
<1> SUFFICES ASSUME CheckoutInit PROVE CheckoutInv
  OBVIOUS
<1>1. Made = {} /\ known = {} /\ pages = {} /\ gone = {} /\ customer = Nothing /\ Bought
  BY DEF CheckoutInit, Made, Bought
<1>2. Cardinality({}) = 0 /\ {} = 1..0
  BY FS_EmptySet
<1>3. Numbered(Made) /\ Numbered(known) /\ Cardinality(Made) = 0
  BY <1>1, <1>2 DEF Numbered
<1>4. IdleVisit \in VisitRow /\ IdleVisit.pc = "idle" /\ IdleVisit.asked = 0
  BY DEF IdleVisit, VisitRow
<1>5. \A v \in Visits : visit[v] = IdleVisit
  BY DEF CheckoutInit
<1>6. \A v \in Visits : VisitOK(visit[v])
  BY <1>3, <1>4, <1>5 DEF VisitOK, Holding
<1>7. Alone
  BY <1>4, <1>5 DEF Alone, VisitAt
<1>8. CheckoutType
  <2>1. paid \in [Payments -> PaidRow]
    BY DEF CheckoutInit, PaidRow
  <2>2. visit \in [Visits -> VisitRow]
    BY <1>4 DEF CheckoutInit
  <2> QED
    BY <1>1, <2>1, <2>2 DEF CheckoutInit, CheckoutType
<1> QED
  BY <1>1, <1>3, <1>6, <1>7, <1>8 DEF CheckoutInv

LEMMA CheckoutKept == CheckoutInv /\ [CheckoutNext]_cvars => CheckoutInv'
<1> SUFFICES ASSUME CheckoutInv, [CheckoutNext]_cvars PROVE CheckoutInv'
  OBVIOUS
<1>0. bucket \in Nat
  BY DEF CheckoutInv, CheckoutType
<1>1. CASE \E v \in Visits, price \in Prices : StartCheckout(v, price)
  BY <1>1, VisitsKept
<1>2. CASE \E v \in Visits :
             EnsureCustomer(v) \/ ClaimCustomer(v) \/ ListLive(v) \/ OpenPage(v)
             \/ Heal(v) \/ Dies(v)
  BY <1>2, VisitsKept
<1>3. CASE \E p \in pages : CompletePage(p)
  BY <1>3, CompletesKept
<1>4. CASE \E s \in Payments : EndSubscription(s) \/ Sync(s) \/ Completed(s)
  <2>1. CASE \E s \in Payments : EndSubscription(s)
    BY <2>1, EndsKept
  <2>2. CASE \E s \in Payments : Sync(s) \/ Completed(s)
    BY <1>0, <2>2, OthersKept DEF Sync, Completed, WritesCustomer
  <2> QED
    BY <1>4, <2>1, <2>2
<1>5. CASE \E c \in Customers : LoseCustomer(c)
  BY <1>5, EndsKept
<1>6. CASE TenMinutes
  BY <1>0, <1>6, OthersKept DEF TenMinutes
<1>7. CASE UNCHANGED cvars
  BY <1>0, <1>7, OthersKept DEF cvars
<1> QED
  BY <1>1, <1>2, <1>3, <1>4, <1>5, <1>6, <1>7 DEF CheckoutNext

-----------------------------------------------------------------------------
(* Requests that race in ensureStripeCustomer agree on one customer: while *)
(* Stripe loses none, every checkout page is the stored customer's.        *)
THEOREM CustomerIsOne == CheckoutSpec => []OneCustomer
<1>1. CheckoutInv => OneCustomer
  BY DEF CheckoutInv, PageOK, OneCustomer
<1> QED
  BY <1>1, CheckoutStart, CheckoutKept, PTL DEF CheckoutSpec

(* listLiveSubscriptions asks Stripe and not the mirror: whoever completes *)
(* a page while a subscription of the same customer is live asked for that *)
(* page before the subscription was made, however late the webhooks are;   *)
(* or he began again with a new customer, which startCheckout does not ask *)
(* Stripe about, and a webhook had put that one in the row.                *)
THEOREM SecondIsOlder == CheckoutSpec => SecondOnlyFromOlderPage
<1>1. CheckoutInv =>
        [\A p \in pages : CompletePage(p) =>
           \/ \A s \in Live(p.customer) : s > p.asked
           \/ p.again /\ p.customer \in returned]_cvars
  BY DEF CheckoutInv, PageOK, After
<1> QED
  BY <1>1, CheckoutStart, CheckoutKept, PTL DEF CheckoutSpec, SecondOnlyFromOlderPage
=============================================================================
