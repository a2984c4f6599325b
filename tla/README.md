# yoyaku: a specification

TLA+ modules, TLC configurations and TLAPS proofs about `yoyaku`, a booking
system for salons: a Next.js application over PostgreSQL (Prisma), with a worker
that sends notifications and billing through Stripe. The specification follows
the code under `src/src` (the application) and `src/prisma` (schema, migrations)
and uses documents, comments and tests only to know what is promised.

## 1. The system

| Part | Code | State | Operations |
|---|---|---|---|
| Occupancy, capacity | `domain/booking/occupancy.ts`, `capacity.ts` | none | the intervals a visit keeps busy; peak overlap |
| Availability, rules | `domain/booking/availability.ts`, `rules.ts` | none | the starts of a day, each free or refused for a reason |
| Opening hours, shifts, calendar | `business-hours.ts`, `schedules.ts`, `lib/time.ts`, `lib/jp-holidays.ts` | rows the owner saves | open intervals of a date, working intervals of the staff, holidays |
| Booking service and administration | `booking-service.ts`, `booking-admin-service.ts`, `booking-repository.ts` | `bookings`, `booking_items`, `customers`, `booking_events`, `notification_jobs`, advisory lock | create, reschedule, cancel, change of status |
| Database defences | migration `booking_anti_oversell` | `booking_items.active` | exclusion constraint, trigger on status, unique key |
| Notification outbox | `notification-service.ts`, `queue/worker.ts` | `notification_jobs` | sweep, claim, check, send, record, reclaim, retry |
| Recipients, LINE link | `notification-recipient-service.ts`, `api/line/webhook` | recipients, link codes | add, remove, issue and consume a code, unfollow |
| Billing | `server/billing/*`, `api/stripe/webhook` | the tenant's mirror of its subscription, ledger of events | checkout, webhook events, gate, trial notices |
| Merchant administration | `merchant-mutation-service.ts`, `shop-slug-guard.ts` | staff, menus, shops, slugs, weekly tables | forms, plan limits, slug history |
| Accounts | `signup-service.ts`, `login-security.ts`, `password-service.ts`, `session-loader.ts`, `platform-mutation-service.ts` | users, links, one-time codes, session epochs | sign up, sign in, suspend, reset |
| Boards and reports | `merchant-service.ts`, `lib/schedule-layout.ts`, `admin/schedule/page.tsx` | none | day, week and month boards, dashboard, monthly report, customer card |
| Homepage | `shop-homepage-service.ts`, `storefront.tsx`, `homepage-form.tsx`, `uploads.ts` | profile row, picture files | show, edit, upload, save |
| Business figures | `business-metrics-service.ts`, `platform/metrics/page.tsx` | none | revenue, churn, conversion, lifetime |
| Booking page, forms | `booking-wizard.tsx`, `customer-reschedule.tsx`, `reschedule-form.tsx`, `admin-booking-form.tsx` | React state and refs | choose, read times, submit |
| Pages, permissions, actions | `middleware.ts`, `authorize.ts`, `rbac`, `admin/layout.tsx`, `shop-switcher.tsx`, `server/actions/*` | cookie of the chosen shop | open a page, switch the shop, save |
| The rest | audit log, postal code lookup, public API routes, validation, UI parts | | section 6 |

**How they interact.** A request handler calls one service function. The service
works on rows; nothing in memory is shared between requests. Bookings are made in
one READ COMMITTED transaction that takes the advisory lock of (shop, local day of
the start), reads the occupied items, asks the pure domain functions for a
verdict, writes and commits. Notifications are rows written in that transaction;
a worker sweeps them every ten seconds. A change of `bookings.status` fires a
trigger that switches `booking_items.active`, the column the recount and the
exclusion constraint look at. Stripe and LINE post to webhooks, at least once and
in any order. Pages of the browser read through the services, keep what they read
in React state, and write it back by server actions that check the permission and
the shop again.

**What is hard.** Requests interleave at every statement; what was read before a
lock, an await or a render is stale when it is used; locks do not cover what the
data covers (a day of the start, not of the occupancy); workers and requests die
between two steps; webhooks come late, twice and out of order; answers to the
browser come late or never and are asked for again; two computations of one
figure (server and page, day read and range read, gate and page) may disagree.
PROJECT.json lists 40 such hazards, each at its line.

## 2. The modules

| Module | Models | Uses |
|---|---|---|
| `Occupancy`, `Capacity` | the interval arithmetic, the where clause of `loadOccupiedOverlapping` | |
| `Availability` | the verdict on one start, `rules.ts` | Occupancy, Capacity |
| `Slot` | one start asked for, against the rows other bookings have | Availability |
| `Quote` | prices, lengths and rules of a set of services: server and page; the mark of a day | Availability |
| `Booking` | the three booking services, status changes, locks, trigger, constraints | Availability; implements BookingLedger |
| `BookingLedger` | what the service promises, without concurrency | |
| `Outbox` | the life of a notification: written, moved, voided, swept, claimed, checked, sent, recorded, retried, reclaimed | |
| `Calendar`, `Hours` | days, months, holidays; opening hours and shifts of a day, alone and in a range | |
| `Sums` | the sum of finitely many numbers, used by Quote, Calendar, Board, Billing and Metrics | |
| `Board`, `Schedule` | boards, reports and lists; the pages and links between boards | Hours, Calendar |
| `Storefront` | homepage, booking entrance, structured data for search engines | Hours, menus of Quote |
| `Wizard` | the booking page with its effects and late answers | |
| `SlotForm` | the three forms that ask for a day's free times | |
| `Pages` | the booking page and a form side by side, and what both promise | Wizard, SlotForm |
| `Billing` | webhooks against the tenant's mirror, the ledger and the gate | |
| `Checkout` | opening a checkout page: customer, live subscription, page | |
| `SubStatus` | the sets of subscription statuses Billing and Checkout share | |
| `Panel`, `Metrics` | the contract page; the figures drawn from the ledger | Billing |
| `Merchant` | staff and the plan's limit, menus, slugs, tables saved as a whole | |
| `Accounts` | sign-up, sign-in, lock, one-time code, sessions, passwords | |
| `Recipients` | who hears of a shop's bookings | |
| `Homepage` | forms, uploads and saves of the homepage's pictures | |
| `Console` | permissions, pages, links, buttons, the shop chosen in tabs | |
| `MC*` | small instances for TLC | |
| `*Proofs` | theorems about the module they are named for (`OccupancyProofs`: Capacity and Sums too; `BillingProofs`: Billing, Panel, Metrics and Checkout; `MerchantProofs`: Merchant, Console and Board; `SalonProofs`: Recipients, Accounts, Homepage; `CustomerProofs`: Slot, Quote, Hours, Wizard, SlotForm); `LedgerProofs` builds on `BookingProofs`; `BookingProofs`, `CustomerProofs`, `BillingProofs` and `MerchantProofs` on `OccupancyProofs` | |

Modules that have no variables (Occupancy, Capacity, Availability, Quote,
Calendar, Hours, Board, Schedule, Storefront, Panel, Metrics) are functions of
the rows; MCAvailability and MCBilling check them against reference definitions.

### Booking

Time is an integer; a day has `DayLen` units. `row`, `items`, `active`, `cards`,
`events`, `jobs` are the tables, reduced to the fields the properties tell apart.
`lock` and `rowLock` are the advisory and the row locks. For every request
(`Call`) `pc`, `req`, `target`, `seen`, `plan`, `clock`, `reply` are the local
variables of the service function. A function is cut where another call can come
in between with an effect:

| Function | Actions |
|---|---|
| `createBooking` | `BeginCreate` (replay lookup), `AdmitCreate` (quota, nominated staff), `AcquireDay`, `Decide` (recount, verdict, staff, customer lookup), `CommitCreate` (inserts, constraints, replay after P2002) |
| `rescheduleBooking` | `BeginReschedule`, `AcquireDay` (of the new day), `LockRow` (`SELECT … FOR UPDATE`, second look), `Decide`, `CommitReschedule` |
| `cancelBooking`, `updateBookingStatus` | `BeginCancel`, `CommitCancel`; `BeginStatus`, `CommitStatus` |
| any of them | `Abort`: a timeout, crash or deadlock victim; everything the transaction wrote is gone |
| `processNotificationJob`, `retryFailedNotification` | `Work`: `ClaimJob`, `CheckJob`, `SendJob`, `JobFails`, `RetryJob` on one row of `jobs` |

What a transaction writes becomes visible at its commit, so its writes form one
action; its reads are separate ones, because at READ COMMITTED each statement sees
the newest committed data. The trigger is part of `WriteStatus`. One shop, one
month of quota; hours, rules and menus are constants during a behaviour; a
service appears once in a menu; no booking is created PENDING, as in the code.

The worker and the operator change rows of `jobs` while the calls run: those in
`Reached`, because a row nobody touches says nothing more in each state. The calls
void rows that are PENDING and no others; what they find claimed or failed, and so
leave, is noted in `overtaken`: an error, a reclaim or the operator's retry puts it
back, and `NoStaleNotice` and `ReminderMatchesStart` except exactly these rows.
`Outbox` has the whole life of such a row: sweeps, batches, back-off, crashes.

### Outbox

`job` is `notification_jobs` with relative time: a row knows how long it still
waits and how old its claim is, `Tick` moves all of them and the bookings' starts.
`sweep[w]` is one run of `sweepPendingNotifications` with the ids still to do;
sweeps overlap because `setInterval` does not wait for the last one and several
processes may run. One action per statement: `List` (reclaim and select), `Read`,
`Claim` (`updateMany where PENDING`), `Check`, `Dispatch`, `Record`. Faults:
`Crash`, `StatementFails`, a provider that takes a message and reports an error.
`Reschedule` and `Die` are what the booking services do to the rows. `Tick` waits
for a claim that is `Patience` old: the clients' timeouts are shorter than the
five minutes of the reclaim. The words of a message and the BullMQ consumer
(nothing feeds it) are left out.

### Billing, Checkout, Panel, Metrics

`stripe` is what Stripe knows, `events` what it sends, each delivered until some
delivery is answered 2xx (`acked`), by several requests (`hook`) at once. A request
is cut between its read of the tenant, its write (`SyncWrite`, `Checkout`,
`InvoiceFailed`) and its ledger entry (`SyncRecord`, …); `HookFails` may end it
anywhere. `now` is both the day and the second of an event: events of one act share
a second. A payment is told by an event of each invoice type the endpoint is
registered for (`scope.invoices`: none, one or both of `invoice.paid` and
`invoice.payment_succeeded`), while `taken` holds the days Stripe was paid.
`mishaps` notes what the code does not make good (two requests writing across each
other, an old checkout event, two subscriptions paid at once); the properties name
exactly those they except. `Checkout` covers `startCheckout` and
`ensureStripeCustomer` with several visitors, pages left open, and a mirror that
learns of payments late; a webhook writes the customer too (`WritesCustomer`;
`returned` are those it put back), and a page remembers whether it was asked for by
a request that began again (`again`). Stripe is external: it does what the code
expects of it.

### Back office

`Merchant` has a request record per clerk (`req`): what it read, before it writes.
`crossed` notes what two requests wrote on old reads of each other; it is an
exception of `WithinPlan`, `SlugNeverReused` and `OneFormPerTable`, because the code
takes no lock there. `regiven` are the shops the platform set up with an address of
somebody else's past (`createTenant` never asks the guard, section 5), with nobody
racing: `SlugNeverReused` does not hold of them and says so. In `Accounts` every
process works statement by statement and may die at each; that a link, code or lock
expires is an action. `Ask` is any request of a session: `getSessionUser` judges by
the row, or by the token when the row cannot be read. `late` are the ended sessions
that were let in, and whether the row could be read. `Recipients` handles the events
of one post in turn and posts beside each other. `Homepage` has forms, uploads in
batches, and saves in three steps (read old row, write, delete files). `Console` is
the navigation: `Hop` is one redirect, `LinksOf` and `OfferedOn` what a page shows,
`DemandOf` the permission and the shop each server action demands, `exportBookings`
the route of the bookings' file, which asks for itself and has no gate, `tabs` what
each tab has loaded, shows and would send, `cookie` the shop all tabs share.

### Browser

`Wizard` runs `Render` after every action: the effects of `booking-wizard.tsx` in
their order (drop a nomination, move to an open day, forget the key). Reads carry
the number they were started with; answers come in any order or not at all, a
request the page has given up on may still reach the server. `SlotForm` has one
list at a time, whose answer is taken whatever the fields say by then. `Pages` puts
the two beside each other; `ShownForSelection` is what both promise.

## 3. What TLC checks

| Run | Distinct states | Properties |
|---|---|---|
| `availability` | 1 411 324 | `PeakIsMaximum`, `OfferedMeansItFits`, `WindowReadIsEnough`, `QuotedAsShown`, `BoardTellsTruth`, `CountedOnce`, `ShownForSelection`, `KeyNamesOneIntent` |
| `booking_capacity` | 427 759 | `TypeOK`, `NoOverbooking`, `NoGhostOccupancy`, `NoStaleNotice`, `ReminderMatchesStart`, `MovesOnlyWhileLive` |
| `booking_staff` | 143 500 | `StaffNeverDoubleBooked`, `KeyNamesOneBooking`, `ItemsMatchRow`, `LedgerSpec` |
| `booking_liveness` | 27 308 | `EveryCallAnswered` |
| `outbox` | 471 293 | `OneHolder`, `TwiceOnlyAfterLoss`, `EveryJobSettles`, `DeadBookingQuiet`, `ReminderInTime` |
| `billing` | 4 578 066 | `MirrorFaithful`, `AccessKept`, `LedgerComplete`, `MoneyAddsUp`, `NoDeadEnd`, `OneCustomer`, `SecondOnlyFromOlderPage` |
| `salon` | 1 921 642 | `ConsoleHolds`, `LockedAfterEnough`, `SignupWhole`, `EndedStayEnded`, `WithinPlan`, `SlugNeverReused`, `OneFormPerTable`, `BackOnlyByFreshCode`, `ImagesKept` |
| `late_slots`, `revived_overbooks`, `midnight_overbooks`, `two_customer_cards`, `weekday_warning` | | the disagreements of section 5 |

Three runs hold several subjects: a history has a *focus* and moves only the
variables of that subject, so the state spaces add up instead of multiplying. The
subjects meet only in values the other merely reads.

*What the runs show and why the bounds are enough.*
- **availability.** Focus `slot`: 64 queries (chains of one and two services,
  buffers, gaps, with and without nomination) against every set of two rows; the
  peak is compared with the count at every instant, the offer with everything it
  must satisfy. Two rows are the least at which a sum of overlaps and a peak
  differ. Focus `cart`: services added one by one; the server's price and length
  against the page's, the mark of a day in the month against that day's own list,
  and the homepage against the booking page for every combination of switches.
  Focus `hours`: every combination of five tables of hours, four special days,
  holidays on and off, shifts and overrides, on a plain Monday and on one that is
  a substitute holiday. Focus `board`: two bookings across midnight at the end of
  a month, so that day, week and month read different ranges and must count alike;
  every link of a board leads to the board its number was counted for. Focus
  `page` and `form`: two reads in flight, two posts, four edits; with two reads
  answers can come in the wrong order, with two posts a resend can overtake.
- **booking_capacity, booking_staff.** Every conflict of the code is between two
  calls over one booking or slot; the third call is the one that takes advantage.
  Capacities 1 and 2 are the smallest at which "full" and "one left" differ, two
  days give two locks. In booking_capacity the worker and the operator reach the
  reminder of the booking there is and the confirmation of the first call, so that
  each of the two properties meets a row taken up, failed and put back. The clock
  stands still (`MaxNow = 0`): it only changes which refusals occur; the liveness
  run moves it. `LedgerSpec` is a refinement: every commit is a `Place`, `Move` or
  `Free` of the calendar that fits at that moment, or a stutter, so each placement
  was legal *when it took effect*.
- **outbox.** One booking, one move, a cancellation, two overlapping sweeps of one
  row each, one fault. Two sweeps are what a claim has to keep apart; a batch of
  one row makes a failing row compete with the others at once. The theorems of
  section 4 lift the safety part to every bound.
- **billing.** Four scopes: four days without faults, three days with two faults,
  three days with two requests at once, three days without invoice events. The endpoint
  takes one invoice event, both or none (the last is what `stripe/webhook/route.ts:3`
  recommends), so that each case is met. Two subscriptions, two plans: the second
  subscription is what an event of the first can be mistaken for. A period, a month
  and the trial are two days long each. Days are halves in `Panel` because a trial
  ends at the time of day it began.
- **salon.** Two requests at once everywhere; three slugs and two shops (a rename, a
  return and a competitor); limits of two. Mishaps are limited to one. Two tabs and
  three turns: a switch in one tab, then a refresh and a save in the other, on pages
  with a form of the shop, of no shop and of a record of another shop (a booking),
  and the file of bookings. The permission tables are checked for every role and
  page.

*Fairness.* `Booking!FairSpec` adds `WF(Continue(c))`: Node and PostgreSQL go on
executing a request in flight; nobody is obliged to send one and nothing is
obliged to abort. Weak fairness is enough for the locks because PostgreSQL queues
the waiters and each call is sent once. `Outbox!FairSpec` adds `WF(Tick)` (time
passes) and `WF(Sweep(w))` (the timer goes on starting sweeps and a sweep at work
goes on); crashes and failed statements are never obliged to happen. No other
liveness is stated: what waits for a person or for Stripe may wait for ever.

*Deadlock* is checked where the code must not stop (booking, outbox). The bounded
subjects of the other runs stop at their bounds.

## 4. What is proved

TLAPS checks the theorems for every value of the constants, under the assumptions
the modules name; TLC evaluates these in every run of the module. In Booking they
are `NamesAssumption`, `MenuAssumption`, `RequestAssumption`, `SeedAssumption` (the
rows a behaviour starts with are rows the database takes: live items of a staff
member do not meet, and a key is unique, `schema.prisma:857`) and
`CapacityAssumption`; `OutboxAssumption`, `MerchantAssumption`, `BillingAssumption`,
`CheckoutAssumption`, `AccountsAssumption` and `HomepageAssumption` say that names
are distinct, sets of rows finite and bounds numbers, and that there is a plan on
sale. `MetricsAssumption`: a month and the number of months shown are positive, and
the 365 days looked back reach the first of the twelve months (at most 11 * 31 days
before this one). `ConsoleAssumption`: roles are those of the code, and everybody
has a shop to see: a membership is made with the owner or with a login of a shop's
staff, and no shop is ever taken away. `SlotAssumption`: instants are integers,
limits natural numbers, a row has a length, a chain is well-formed and has a menu
once (`booking-service.ts:150`).

- `OccupancyProofs`: **PeakBoundsEveryInstant** (Capacity): move back from the
  instant to the latest candidate not after it; whatever covers the instant covers
  that candidate. **ChainWithinWindow**: the cursor is a recursive function; that it
  satisfies its equation and is monotone is shown by a smallest counterexample
  (`FiniteRecursion`, `StepwiseMonotone`). `DurationIsServiceTime`: the loop that
  adds up a chain's length and the one that lays it out end at the same time; both
  are recursive functions, so the second gives a solution of the first's equation
  and a smallest counterexample shows that there is no other. Sums: `Total` adds in an
  order of its own choosing, one element after the other. That there is one such sum
  and only one (`SumsExist`, `AddsUpOnce`), that any element may be the last
  (`TotalRemoves`) and that the parts of a set sum up to the whole (`TotalSplits`)
  is shown by a smallest set without it; the proofs of Billing, Quote and Board cite it.
- `BookingProofs`: **TypeCorrect**, **GhostFree**, **MovesAreLive**, **StaffSafe**.
  Types alone are not inductive, so `CallOK` says what a program counter implies:
  the request is an accepted one, a call that is not done has created no booking,
  and a reschedule between `LockRow` and its commit holds the row lock of a *live*
  booking. A step of one call is described by `Frame`, from which the rest of
  `CallOK` follows for the other calls at once; `CalendarSteps` sums up the commits
  in three shapes (`Placed`, `Moved`, `Restated`). `StaffExclusive` strengthens
  `StaffNeverDoubleBooked` to intervals, which is what the database compares.
  There too: **CapacitySafe**, `Spec => [](ClosesInTime => NoOverbooking)`.
  `ClosesInTime` says that no visit on offer occupies, buffers included, anything
  beyond the day it starts on; `midnight_overbooks` is a shop without it. (1) A
  call past `AcquireDay` holds the lock of the day of its start (`HoldsLock`);
  (2) the recount in `Decide` reads every row that can matter (`ChainWithinWindow`),
  each booking at an instant has a row of its own there (`RowsCount`), the peak
  bounds every instant, so there is room wherever the new items lie
  (`OfferedFits`); (3) until the commit nobody else adds a booking to that day
  (`Gain`, `RoomKept`); (4) the commit adds one booking where there was room
  (`PlannedFits`).
- `LedgerProofs`, five theorems about what the rows say to each other.
  **ItemsFollowRow**: the plan a call makes in `Decide` is still the right one at
  its commit, because neither its request nor the row it holds changes in between.
  **OneBookingPerKey**: needs `KeysUnique` (the unique key) and that what a call has
  answered, or found at its first lookup, stays true (`AnsweredByKey`).
  **NoNoticeIsStale**, **ReminderFollowsStart**: what is waiting is not enough, for
  a row in the worker's hands or given up may wait again. `Notices` speaks of every
  row that waits or may (`Waits`) and was not overtaken (`Binding`): what a booking
  finds waiting when it dies or moves is voided, what it does not find waiting is in
  `overtaken`, and no step of the worker makes a settled row wait (`Settles`). A
  reschedule posts only under the row lock of a live booking. **CalendarIsLedger**:
  under `ClosesInTime`, as in `CapacitySafe`, the service implements
  `BookingLedger`. The calendar of the ledger is read off the rows; each commit is
  one step of it, each other step none. That the step *fits* is what `PlannedFits`
  and `StaffExclusive` give; that a freed booking never returns is why a revived one
  is off the ledger.
- `OutboxProofs`: **NoSharedRow**, **NoTracedDuplicate**, **DeadStaysQuiet**,
  **RemindersInTime**, for any number of bookings, sweeps, moves and faults, any
  limits and back-off. None of the four is inductive; `OutboxInv` adds what links
  them: a row in hand is PROCESSING and too young to be reclaimed (`HeldOK`: this
  is where `Patience <= ReclaimAfter` is needed); rows of moves to come and of a
  cancellation to come are not written yet, and whatever a sweep has listed is
  (`RowsOK`); a delivery with a trace is recorded or about to be (`TraceOK`); what
  is past the check of a booking that died is in `flying` (`QuietOK`); and a
  reminder not overtaken that is waiting still has at most as long to wait as its
  visit has until `Lead` before it, and one that is listed, in hand or failed is
  due already (`TimeOK`). A statement of a sweep is described by `WorkShape`, of
  which each action is an instance; `WorkInv` then needs one proof for all of them.
- `SalonProofs`, for any number of people, requests, links, forms and pictures.
  **OffStaysOff**: `ReadIsFresh` says what the statement misses, that a post which
  has read a code row and not yet consumed it is about a pair not taken off the list
  since. **SignupIsWhole**: at most one opener has claimed a link and not yet given
  it a tenant (`ClaimsOK`), the owner it has made is nobody else's (`OwnersOK`), and
  a claimed link without a tenant is in somebody's hands or a mishap (`HeldOK`).
  **SessionsStayEnded**: epochs only grow, and an ended session has one below its
  user's (`SessionsOK`), so no request that could read the row let one in
  (`NoneLate`); for those that could not, nothing is claimed. **LocksOnTime**: for
  everyone nobody counted from an old row, the counter is the streak, and the lock
  comes when it is full (`CountsOK`). **ImagesStay**: what a form as new as the row
  holds is on the disk and no save has it still to delete, unless it is second hand
  (`FormOK`); a picture never published is in one form at most (`OneForm`); one
  published and no longer shown is about to be deleted or left behind (`Noted`).
- `MerchantProofs`: **AddressesStay**, **TablesAreWhole**, **PlanIsKept** (an action
  property), for any number of staff, shops, tables and requests. A request keeps
  what it read, so what it checked is a fact about the request alone (`Asked`) that
  nobody else's step can disturb. If the state it writes to is still what it read,
  the check holds there too; if not, `crossed` says so. The history of addresses is
  not enough for `AddressesStay`, because a shop need have no row in it for the
  address it has now: `Traced` says which shops ever had an address, and that of two
  one was set up there by the platform (`regiven`). Of Console:
  **ConsoleKeepsPromises**, for any persons, shops, tabs and visited pages. What a
  tab would send is a fact about the tab (`TabOK`: the values of its form are of its
  own shop or its row's; while no other choice is outstanding its shop is the one
  the switcher names), so a save is judged on its tab alone (`SavedOK`). That every
  offered way opens speaks of tables: what a person may do is one of four ranks
  (`RanksOfRoles`, `GuardedBelow`), and with the rank known each redirect is one of
  a few; a chain of them ends after three hops (`ChainsEnd`). Of the file of
  bookings the theorem says the opposite of a gate: shut or not, it is answered. Of
  Board, for any finite set of bookings with whole prices, any staff and any whole
  `Offset`: **ReportAddsUp** and **SameOnEveryPage** (the days, the staff, the trend
  and the dashboard tell one sum; a customer is new or returning; a booking has one
  status), **OnOneLaneEach** (ids are unique), **WeekIsOfMonth** (the week's rows
  and the bookings of nobody are the month's cells, and the month's total counts no
  day of its neighbours), **DormantAreGone**. A start belongs to the day whose
  midnights it lies between (`StartsInDays`); the rest is `TotalSplits`, by day, by
  staff or by status (`CountSplits`, `RevenueSplits`). `WeekIsOfMonth` takes from
  its reader that the date has a month (`MonthOfDay` finds one for the dates of the
  runs).
- `BillingProofs`: **RowFollowsStripe**, **AccessIsKept**, **ChangesAreEntered**,
  from **MirrorInvariant**, for any number of subscriptions, requests, days, events
  and faults. Events of one second come from one act at Stripe (`OneAct`), so they
  have a last one that tells a status, and it tells what Stripe knows of the newest
  subscription (`StripeOK`). From the moment that event is written or answered no
  other event changes what the row shows of it (`RowOK`): an older one is regressive
  by time, one of the same second by `IsRegressiveSameSecond`, one of another
  subscription by the id in the row. What reached the row is entered, at its ledger
  step, or in `cut` (`Accounted`). Every act of Stripe is an instance of `Acted`,
  every statement of a request one of `Touches` or `Passes`, so that the invariant
  has one proof for each shape. Of Panel: **NobodyIsStuck**. `MirrorInvariant` tells
  what the row shows of the last event that tells; a way out also needs that nobody
  wrote to the row before the first subscription (`FirstOK`) and that a payment
  Stripe gave up is shown, or the failure before it is, which keeps access
  (`UnpaidOK`). Of Metrics: **LedgerTellsMoney**. `RowsOK`: an entry is that of the
  trial, of one event or of one refund, and every event answered and not cut short
  has its entry; `RefundsNumbered`: Stripe
  numbers the refunds of a charge without gaps, so the cumulative lists the webhook
  gets overlap in what is entered already. A sum over a finite set does not depend
  on the order its function takes (`AddsUpOnce`), and one over {-1, 0, 1} is the
  difference of two cardinalities (`TotalOfOnes`), which a bijection between entries
  and events carries over to Stripe. The look-back reaches the first month shown and
  cuts no month in two (`MonthsReach`, `MonthsWhole`). A month has as many
  paid events as payments times `scope.invoices` (`CashTold`). Of Checkout:
  **CustomerIsOne**, **SecondIsOlder** (an action property), for any number of
  requests, pages, plans and customers. Customers and subscriptions are numbered in
  the order Stripe makes them (`Numbered`), so that "made after I asked" is an
  inequality: `After(c, n)` says that whatever lives for c is younger than the n-th
  subscription. Every open page has it of its own customer, from the answer of
  `listLiveSubscriptions` on; a request that starts again with a fresh customer has
  not asked a second time, and needs that a customer never stored has neither page
  nor subscription (`Fresh`) and is held by one request alone (`Alone`), unless a
  webhook has put its customer back meanwhile: such a page is the exception
  (`again`, `returned`).
- `CustomerProofs`. Of Slot: **PeakAlwaysMaximum**, **OfferedAlwaysFits**,
  **WindowAlwaysEnough**, for any rows, shifts, opening hours, limits and chains. The
  peak is reached at a start of an interval and bounds every instant, so a limit
  above it leaves room everywhere (`RoomAtEachInstant`); each interval of the visit
  belongs to one service of it; closing time is met by `DurationIsServiceTime`. A row
  outside the window covers no instant of the visit, for the shop, for a service or
  for a staff member alike (`WindowPeak`).
  Of Quote: **PriceIsAsShown**, **MinutesAreAsShown**, for any menu, rules and cart. The
  menu is one the forms and the database take (`MenuOK`): an option is of one service
  and adds no negative price or length (`lib/validation/admin.ts:36`), segments do not
  meet and end with the service (`:102`), and no buffer before is ever written
  (`schema.prisma:604`). The server finds the options of a service by all the ids of the
  request, the page item by item: with options of one service that is the same
  (`SameOptions`). A longer last segment is still the last (`ExtraLengthens`), and
  the cursor of a chain is the sum of what lies before it (`DurationIsSum`).
  Of Hours: **DrawnIsOffered**: a stretch of time lies in what `resolveDayShifts` draws
  exactly when it lies in a shift and in an opening (`DrawnIsBoth`), and a visit has a
  length (`VisitHasLength`). `MarkIsOfList` and `DayOfRangeIsDay` are the lemmas behind
  the marks of the month: a mark promises free times exactly when the list has one, and
  a day of the range's read is the day's own read once both know its holidays alike.
  Of Pages: **TimesAreOfSelection**, **KeyIsIntent**, for any menus, staff, days,
  answers, and any number of reads and posts on their way. The answer that will be
  taken is to the question the page asks (`ShowInv`); the effects of a render leave a
  page in order, because a nomination is dropped only where the time is gone already
  (`EffectsKeep`). The key at hand is that of the requests sent since the last edit
  (`KeyInv`), and keys are numbered without gaps, so a new one is new. In a form the
  list, the choice and the search on its way are those of the fields until a field
  changes under the search (`FormInv`).

**What the statements except.** Where the code lets two steps cross and no document
forbids the result, the property names the crossing and holds of the rest: it does not
catch that crossing and does not claim to. `overtaken` (NoStaleNotice,
ReminderMatchesStart, ReminderInTime), `flying` (DeadBookingQuiet), the mishaps of
Billing (MirrorFaithful, AccessKept), `stale` (LockedAfterEnough), `mishap` (the last
clause of SignupWhole), `crossed` (WithinPlan, OneFormPerTable, SlugNeverReused),
`again` with `returned` (SecondOnlyFromOlderPage). The hazards in PROJECT.json say so
at each.

**What the proofs found.** Two properties of Billing held within the bounds of the
run and not beyond; a directed run showed each counterexample. `MirrorFaithful`
demanded a tenant state for `unpaid` too, but `billing-service.ts:464` leaves the
state as it was, and what it was depends on the history: the property now speaks
of the other statuses. `AccessKept` promised access to the end of *every* period
ever paid, but the row has room for one subscription: who cancels with time left,
subscribes again and cancels again has the end of the newest period only. The
property now promises that. `LedgerComplete` became stronger: the exception for
events of an older subscription was not needed. `SeedAssumption` lacked the
unique key, and `MerchantAssumption` that there are finitely many rows.
`ConsoleHolds` demanded that a save goes to the shop the switcher names, which is
false of the page of a booking: it takes a booking of any shop of the person and
saves to the booking's own; no visited page of the run had been of that kind. The
property now excepts that page and the run visits it. `NoDeadEnd` needs a plan on
sale: without one `BillingPanel` has no button.

**Only model-checked**, and why:
- `EveryCallAnswered`, `EveryJobSettles`: liveness and ENABLED are outside the prover.
- `QuotedAsShown`, `BoardTellsTruth`, `CountedOnce`, as they stand: they speak of the
  tables written out in MCAvailability. Their main parts are the theorems on Quote,
  Hours and Board above, for any tables. What is left to TLC folds over a sorted
  sequence, and induction over data is outside the prover: `Joined`, which makes one
  opening of two that meet, `AssignTracks`, the hours a timeline draws; so do the
  holidays, each of which depends on the one before; and the menus of the report,
  whose sum is the total only for visits of one menu, without a fee, in one month.
- `TimesOfTheFields` and the other properties of section 5 are violated.

## 5. Where the code and its documents disagree

1. **A revived booking can overbook** (`revived_overbooks`). `updateBookingStatus`
   and `cancelBooking` check the transition on a row they read without a lock and
   then update by id. A COMPLETED written over a CANCELLED or NO_SHOW makes the
   trigger activate the items again, whatever has been sold since. Staff stay
   exclusive: the constraint rejects that revival (`StaffSafe`).
2. **Midnight** (`midnight_overbooks`). The lock is that of the start's day; with a
   closing time at 24:00 and a buffer after, two starts on two days overlap under
   two locks.
3. **Two customer records** (`two_customer_cards`). Find-then-create of the
   customer is not serialised across days.
4. **Late free times** (`late_slots`). The three forms of `SlotForm` take the
   answer of a search whatever the fields say by then; the booking page does not.
5. **The weekday of a special day** (`weekday_warning`). `hasStaffOnDuty` takes the
   weekday of a local midnight in UTC, the day before.

Five more are shown by the models but have no run of their own; the properties that
meet them state what the code does.

6. **An address given away may come back to a stranger.** `shop-slug-guard.ts:2-11`
   forbids that another shop gets an address a shop gave up, whatever the tenant;
   `createTenant` (`platform-mutation-service.ts:19`) looks only at the shops there
   are, so the first shop of a new tenant may get it. `SlugNeverReused` excepts
   exactly these shops (`regiven`); without that exception TLC shows it at once: a
   shop is renamed, and the platform sets a tenant up at the old address.
7. **A session that was ended works while the database cannot be asked.** The
   `catch` of `authorize.ts:30-34` returns the token's user; its comment speaks of
   callers outside a request only, but an error of the database comes there too.
   `EndedStayEnded` excepts the requests that met one.
8. **The second listing is skipped.** `billing-service.ts:195-203` says Stripe is
   asked before a page is opened, because a second subscription cannot be undone. A
   request that finds its customer lost (`:222-227`) sets the column to null and
   opens a page for whatever customer is there then, without asking; a webhook
   (`:473`, `:591`) may have put back one with a live subscription.
   `SecondOnlyFromOlderPage` excepts such a page.
9. **Cash twice or never.** `:613-614` enters a payment for `invoice.paid` and for
   `invoice.payment_succeeded`, two events of one payment with two ids, and the
   ledger tells repeats by the id: an endpoint registered for both counts each
   payment twice (and may send the mail of a recovered payment twice). The events
   recommended at `stripe/webhook/route.ts:3` and `docs/BILLING-stripe.md:24` hold
   neither and no refund: then the ledger has no money in it, although
   `PROGRESS.md:303` says that what was received stays in the database.
   `MoneyAddsUp` counts by `scope.invoices`.
10. **The file of bookings is not behind the gate.** `admin/layout.tsx:9-11` says each
   page asks the gate; `admin/export/bookings/route.ts:40-46` does not, so a locked-out
   owner still gets the file. `EveryWayOpens` says that.

### Observed while modelling

Behaviours the models contain or that were met on the way; no document states
otherwise, so no run is about them.

- Booking page: the last page names the current choices, not the booked ones, if
  they were edited during the submit; the confirmation is empty when a late answer
  clears the chosen time. The owner's booking form sends no idempotency key and
  stays disabled after a call that got lost.
- `SlotForm`: after a list was searched again the choice can be of the old list
  while the label names the new day.
- Homepage: an upload for the gallery brings back a picture removed meanwhile, and
  after a save its file is gone; two forms' saves can leave the published page
  pointing at a deleted file, or a file nobody points at. Both are exceptions of
  `ImagesKept`. `public-shop-service.ts` keeps the prefecture of an address the
  homepage hides.
- Boards: two blocks of a quarter of an hour may overlap by some pixels; the week
  board says there is no staff when only unassigned bookings exist.
- Billing: an 'unpaid' of the same second as the last failure is dropped
  (`softened` in `Billing`). A `created` that arrives after an `updated` of the same
  second enters no SUBSCRIPTION_CREATED, so new, converted and lifetime count one
  too few; a customer who returns is not in the churn base, so churn can pass
  100 %; 'incomplete' and 'unpaid' tenants are in no category; a trial is counted
  by the exact time while the gate runs to the end of the day; the page says "no
  payments yet" when each month nets to nothing. The gate stops pages, not the
  actions behind them.
- Switching shops: detail pages send the selected shop, so after a switch every
  save there is refused; forms without a key keep what they loaded; a switch in
  another tab leaves a switcher that names the old shop, which then cannot be
  chosen. The page of a booking shows and changes a booking of one shop under the
  name of another. The settings form and the rules form write the same rule: the older
  form puts back the older capacity.

## 6. Not modelled

- **Postal code lookup.** Fills three fields the owner still sees from an outside
  service. An early answer may come after a later one; the hazard is listed.
- **Audit log.** Appended after the work, a failure is swallowed, nothing reads it
  but one list.
- **Public API routes.** Parse, limit the rate, call modelled services; the mapping
  of errors to status codes is left out.
- **Validation, formatting, UI parts.** Checks of one input or the look of one; the
  models take inputs that have passed them. Wording of mails and LINE messages,
  colours, layout, the recoding of pictures likewise.
- **The checklist before a shop opens, lists that only select columns, usage
  report, memo of a customer card**: reads, or one row written by one form.
- **The database's connection pool** (`booking-service.ts:1086` reads through the
  global client inside a transaction): size and time limits belong to the client,
  whose code is not here.
- **The second layer in front of `/platform`** (address list, basic
  authentication): two conditions on one request, without state.
- The internals of Prisma, PostgreSQL, Redis, LINE and Stripe beyond what the code
  relies on.

Partly modelled: the quota is that of one month; `Merchant` leaves out the memo;
`Platform administration` its lists; boards their column lists. `Board` takes a
menu to be its name: the report groups by name, and two menus of one name would be
one line of it. Five hazards have no property; PROJECT.json says why for each.

## 7. The plan

Every safety invariant and action property of a module with state that TLC checks is
a theorem, and so are the main parts of what `MCAvailability` compares. Left:
`Booking` composed with `Outbox`: the rows `Booking` voids and posts are the ones
`Outbox` sweeps; `Booking` lets the worker and the operator at some rows, one
statement each, but its sweeps have no batches, back-off or crashes. And runs of
their own for the disagreements 6 to 10 of section 5.
