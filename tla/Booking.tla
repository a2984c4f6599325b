------------------------------- MODULE Booking -------------------------------
(***************************************************************************)
(* The booking service of one shop: createBooking, rescheduleBooking,      *)
(* cancelBooking (booking-service.ts) and updateBookingStatus              *)
(* (booking-admin-service.ts) running concurrently over PostgreSQL at READ *)
(* COMMITTED, with the advisory lock on (shop, local day), the row lock of *)
(* a reschedule, and the database's own defences (anti_oversell migration: *)
(* the exclusion constraint on staff, the unique idempotency key, the      *)
(* trigger that keeps booking_items.active in step with bookings.status).  *)
(*                                                                         *)
(* A call is one request to a service.  It goes through the statements of  *)
(* the service function that other calls can come between; what a          *)
(* transaction writes becomes visible in its Commit action.  A booking is  *)
(* named by the call that creates it, or is a seed that was there before.  *)
(* Beside the calls a worker sends what waits in notification_jobs.        *)
(***************************************************************************)
EXTENDS Availability

CONSTANTS
  Call,          \* requests handled in a behaviour
  Seed,          \* bookings present at the start
  SeedRequest,   \* [Seed -> create request], its staff the one assigned
  Request,       \* the requests a client or an admin may send
  None,          \* no call, no booking, no key, no contact
  KeepStaff,     \* newStaffId = undefined in a reschedule
  Staff,
  Instant,       \* the instants looked at
  Menu,          \* service chains on offer
  Parts,         \* [Menu -> Seq(part)]
  NeedsStaff,    \* menus with a service that requires staff
  Qualified,     \* [Menu -> SUBSET Staff]: who can do every service of it
  Open,          \* [days -> set of opening intervals]
  Duty,          \* [Staff -> set of working intervals]
  Rules,         \* merged ResolvedBookingRules
  Deadline,      \* cancellationDeadlineHours
  ReminderLead,  \* REMINDER_LEAD_MS
  MaxPerMonth,   \* maxBookingsPerMonth of the plan
  Reached,       \* bound: the jobs a worker gets to, pairs of writer and kind
  MaxNow         \* bound of the clock

VARIABLES
  row,      \* bookings: status, startAt, staffId
  items,    \* booking_items of each booking
  active,   \* booking_items.active, the same for all items of a booking
  cards,    \* customer records per contact
  events,   \* booking_events
  jobs,     \* notification_jobs, by the call that wrote them and their kind
  lock,     \* holder of the advisory lock of each day
  rowLock,  \* holder of SELECT ... FOR UPDATE on each booking
  pc, req, target,
  seen,     \* the row a call read before it took any lock
  plan,     \* what a call has decided to write
  clock,    \* its "now"
  reply,    \* what it answered
  now,
  revived,  \* history: bookings a stale status change brought back to life
  overtaken \* history: jobs no longer waiting, and not settled, when their
            \* booking moved or died

db    == <<row, items, active, cards, events, jobs, revived, overtaken>>
locks == <<lock, rowLock>>
local == <<req, target, seen, plan, clock>>
vars  == <<row, items, active, cards, events, jobs, lock, rowLock, pc, req,
           target, seen, plan, clock, reply, now, revived, overtaken>>

-----------------------------------------------------------------------------
(* Values                                                                  *)

Booking == Call \cup Seed
Day     == {DayOf(t) : t \in Instant}

Live     == {"PENDING", "CONFIRMED"}
Dead     == {"CANCELLED", "NO_SHOW"}     \* the trigger frees the items
Terminal == Dead \cup {"COMPLETED"}
Status   == Live \cup Terminal

AllowedTransitions ==
  [s \in Status |->
     CASE s = "PENDING"   -> {"CONFIRMED", "CANCELLED"}
       [] s = "CONFIRMED" -> {"COMPLETED", "NO_SHOW", "CANCELLED"}
       [] OTHER           -> {}]

JobKind   == {"CONFIRMED", "REMINDER", "RESCHEDULED", "CANCELLED", "MANAGER"}

(* A row is PROCESSING from its claim on; SENDING is one past the check.   *)
Underway  == {"PROCESSING", "SENDING", "FAILED"}
JobStatus == {"NONE", "PENDING", "CANCELLED", "SENT"} \cup Underway

NoRow    == [status |-> "NONE", start |-> 0, staff |-> NoStaff]
NoReq    == [op |-> "none"]
NoPlan   == [staff |-> NoStaff, items |-> {}, card |-> FALSE]
NoReply  == [kind |-> "NONE", booking |-> None]
NoJobs   == [k \in JobKind |-> "NONE"]

Reason  == {"OUTSIDE_BUSINESS_HOURS", "LEAD_TIME_VIOLATION", "SLOT_FULL",
            "BOOKING_WINDOW_EXCEEDED", "STAFF_UNAVAILABLE", "QUOTA_EXCEEDED",
            "INVALID_BOOKING_STATE", "CANCELLATION_DEADLINE_PASSED", "ERROR"}
Success == {"OK", "REPLAY", "UNCHANGED"}

Offered == UNION {{Parts[m][i] : i \in 1..Len(Parts[m])} : m \in Menu}

(* Service.capacity, and the capacity rule of a service.                   *)
CapacityOf ==
  [v \in {p.svc : p \in Offered} |->
     (CHOOSE p \in Offered : p.svc = v).capacity]

Contact == {r.contact : r \in {x \in Request : x.op = "create"}}
           \cup {SeedRequest[b].contact : b \in Seed}

(* What the callers have validated before a service function is called.    *)
CreateAccepted(r) ==
  /\ r.op = "create" /\ r.menu \in Menu /\ r.start \in Instant
  /\ r.staff \in Staff \cup {NoStaff}

Accepted(r) ==
  \/ CreateAccepted(r)
  \/ /\ r.op = "reschedule" /\ r.start \in Instant
     /\ r.staff \in Staff \cup {NoStaff, KeepStaff}
  \/ r.op = "cancel"
  \/ r.op = "status" /\ r.to \in Status

ASSUME NamesAssumption ==
  /\ IsFiniteSet(Call) /\ IsFiniteSet(Seed) /\ Call \cap Seed = {}
  /\ None \notin Call \cup Seed
  /\ NoStaff \notin Staff /\ KeepStaff \notin Staff \cup {NoStaff}

ASSUME MenuAssumption ==
  \A m \in Menu : WellFormedChain(Parts[m]) /\ Qualified[m] \subseteq Staff

ASSUME RequestAssumption ==
  /\ Instant \subseteq Int
  /\ \A r \in Request : Accepted(r)
  /\ \A b \in Seed : CreateAccepted(SeedRequest[b])

(* The create request behind a booking: its menu, key, source and contact. *)
Made(b) == IF b \in Seed THEN SeedRequest[b] ELSE req[b]

(* The booking the jobs written by b (a call, or a seed) are about.        *)
About(b) == IF b \in Seed THEN b ELSE target[b]

Exists(b) == row[b].status # "NONE"

Holds(b, t) == \E iv \in items[b] : Covers(iv, t)

HoldsFor(b, v, t) == \E iv \in items[b] : iv.svc = v /\ Covers(iv, t)

Overlap(x, y) == x.start < y.end /\ y.start < x.end

SeedItems(b) ==
  ChainIntervals(SeedRequest[b].start, Parts[SeedRequest[b].menu], SeedRequest[b].staff)

(* The database the calls find keeps its unique key and its exclusion      *)
(* constraint.                                                             *)
ASSUME SeedAssumption ==
  \A b, o \in Seed : b # o =>
    /\ SeedRequest[b].key = None \/ SeedRequest[b].key # SeedRequest[o].key
    /\ \A x \in SeedItems(b), y \in SeedItems(o) :
         x.staff # y.staff \/ x.staff = NoStaff \/ ~Overlap(x, y)

(* A service has one capacity, in whichever menu it is; the bookings found *)
(* fit in the shop and in their services.                                  *)
ASSUME CapacityAssumption ==
  /\ Rules.shopCapacity \in Int
  /\ \A p, q \in Offered : p.svc = q.svc => p.capacity = q.capacity
  /\ \A t \in Instant :
       /\ Cardinality({b \in Seed : Within(SeedItems(b), t)}) <= Rules.shopCapacity
       /\ \A v \in DOMAIN CapacityOf :
            Cardinality({b \in Seed : Within(OfService(SeedItems(b), v), t)})
              <= CapacityOf[v]

(* EXCLUDE USING gist on the active items that name a staff member.        *)
StaffClash(b, its) ==
  \E o \in Booking \ {b} : active[o] /\
    \E x \in items[o], y \in its :
      x.staff = y.staff /\ x.staff # NoStaff /\ Overlap(x, y)

(* Mutant: the index leaves out the bookings that no longer occupy.        *)
KeyHolders_PartialIndex(key) ==
  {b \in Booking : /\ row[b].status \notin Dead \cup {"NONE"}
                   /\ key # None /\ Made(b).key = key}

(* findFirst / unique on idempotencyKey *)
KeyHolders(key) ==
  {b \in Booking : Exists(b) /\ key # None /\ Made(b).key = key}

(* assertPublicBookingQuota, with the grace of GRACE_RATIO = 1.1           *)
PublicCount ==
  Cardinality({b \in Booking : Exists(b) /\ Made(b).source = "PUBLIC"})

WithinQuota ==
  \/ MaxPerMonth <= 0
  \/ PublicCount < MaxPerMonth
  \/ PublicCount < (MaxPerMonth * 11) \div 10

(* loadOccupiedOverlapping, in a transaction that has deleted the items of *)
(* booking b: rows are told apart by their booking.                        *)
Occupied(b, from, to) ==
  UNION {{[booking |-> o, start |-> iv.start, end |-> iv.end,
           svc |-> iv.svc, staff |-> iv.staff] : iv \in Touching(items[o], from, to)}
         : o \in {x \in Booking \ {b} : active[x]}}

-----------------------------------------------------------------------------
(* Steps shared by the service functions                                   *)

(* Mutant: the advisory lock is the session's, not the transaction's.      *)
Release_RowOnly(c) ==
  /\ rowLock' = [b \in Booking |-> IF rowLock[b] = c THEN None ELSE rowLock[b]]
  /\ UNCHANGED lock

Release(c) ==
  /\ lock' = [d \in Day |-> IF lock[d] = c THEN None ELSE lock[d]]
  /\ rowLock' = [b \in Booking |-> IF rowLock[b] = c THEN None ELSE rowLock[b]]

Answer(c, kind, b) ==
  /\ pc' = [pc EXCEPT ![c] = "done"]
  /\ reply' = [reply EXCEPT ![c] = [kind |-> kind, booking |-> b]]
  /\ Release(c)

Proceed(c, label) ==
  /\ pc' = [pc EXCEPT ![c] = label]
  /\ UNCHANGED <<reply, lock, rowLock>>

(* Mutant: a failed call hands back the booking it was about to write.     *)
Refuse_NamesBooking(c, reason) == Answer(c, reason, target[c]) /\ UNCHANGED db

(* The transaction fails: nothing it wrote remains.                        *)
Refuse(c, reason) == Answer(c, reason, None) /\ UNCHANGED db

Begin(c, r, b) ==
  /\ pc[c] = "idle"
  /\ req' = [req EXCEPT ![c] = r]
  /\ target' = [target EXCEPT ![c] = b]
  /\ clock' = [clock EXCEPT ![c] = now]
  /\ UNCHANGED <<now, plan>>

Log(b, type, from, to) ==
  events' = [events EXCEPT ![b] = Append(@, [type |-> type, from |-> from, to |-> to])]

(* Mutant: only the jobs the booking was created with are voided.          *)
Voids_FirstOnly(o, k, b, kinds) ==
  o = b /\ k \in kinds /\ jobs[o][k] = "PENDING"

(* The where clause of the updateMany that cancels waiting jobs.           *)
Voids(o, k, b, kinds) ==
  About(o) = b /\ k \in kinds /\ jobs[o][k] = "PENDING"

(* What it would have voided and no longer finds waiting.                  *)
Escapes(o, k, b, kinds) ==
  About(o) = b /\ k \in kinds /\ jobs[o][k] \in Underway

(* That updateMany on booking b, and the inserts of call c.                *)
PostJobs(c, b, voided, posted) ==
  /\ jobs' = [o \in Booking |-> [k \in JobKind |->
                IF o = c THEN (IF k \in posted THEN "PENDING" ELSE "NONE")
                ELSE IF Voids(o, k, b, voided) THEN "CANCELLED" ELSE jobs[o][k]]]
  /\ overtaken' = overtaken \cup
       {j \in Booking \X JobKind : Escapes(j[1], j[2], b, voided)}

(* reminderAt > now, when there is somebody to send the reminder to        *)
Reminds(c, b) ==
  IF Made(b).contact # None /\ req[c].start - ReminderLead > clock[c]
  THEN {"REMINDER"} ELSE {}

(* Mutant: the trigger knows of CANCELLED only.                            *)
ActiveAfter_NoShowForgotten(b, to) ==
  IF row[b].status = to THEN active[b] ELSE to # "CANCELLED"

(* The trigger: on a change of status the items follow it.                 *)
ActiveAfter(b, to) ==
  IF row[b].status = to THEN active[b] ELSE to \notin Dead

(* Mutant: only a live status is thought to occupy again.                  *)
Reactivates_LiveOnly(b, to) == ~active[b] /\ to \in Live

Reactivates(b, to) == ~active[b] /\ ActiveAfter(b, to)

WriteStatus(b, to) ==
  /\ row' = [row EXCEPT ![b].status = to]
  /\ active' = [active EXCEPT ![b] = ActiveAfter(b, to)]
  /\ revived' = IF row[b].status \in Dead /\ to \notin Dead
                THEN revived \cup {b} ELSE revived
  /\ UNCHANGED <<items, cards>>

-----------------------------------------------------------------------------
(* createBooking                                                           *)

(* The replay lookup, outside the transaction.                             *)
BeginCreate(c, r) ==
  /\ r.op = "create"
  /\ Begin(c, r, c)
  /\ UNCHANGED seen
  /\ \/ /\ KeyHolders(r.key) = {}
        /\ Proceed(c, "admission")
     \/ \E b \in KeyHolders(r.key) : Answer(c, "REPLAY", b)
  /\ UNCHANGED db

(* The staff member asked for: undefined keeps the one read at the start.  *)
AskedStaff(c) ==
  IF req[c].staff = KeepStaff THEN seen[c].staff ELSE req[c].staff

CannotServe(staff, menu) ==
  staff # NoStaff /\ menu \in NeedsStaff /\ staff \notin Qualified[menu]

(* The monthly quota, then loadComboContext and the check of the nominated *)
(* staff member, all before the lock.                                      *)
AdmitCreate(c) ==
  /\ pc[c] = "admission"
  /\ IF req[c].source = "PUBLIC" /\ ~WithinQuota
     THEN Refuse(c, "QUOTA_EXCEEDED")
     ELSE IF CannotServe(req[c].staff, req[c].menu)
     THEN Refuse(c, "STAFF_UNAVAILABLE")
     ELSE Proceed(c, "locking") /\ UNCHANGED db
  /\ UNCHANGED <<local, now>>

(* Mutant: the day is not locked.                                          *)
AcquireDay_NoLock(c) ==
  /\ pc[c] = "locking"
  /\ pc' = [pc EXCEPT ![c] = IF req[c].op = "create" THEN "decide" ELSE "rowlock"]
  /\ UNCHANGED <<db, lock, rowLock, local, reply, now>>

(* acquireBookingLock: the local day of the (new) start.                   *)
AcquireDay(c) ==
  LET d == DayOf(req[c].start)
  IN  /\ pc[c] = "locking"
      /\ lock[d] = None
      /\ lock' = [lock EXCEPT ![d] = c]
      /\ pc' = [pc EXCEPT ![c] = IF req[c].op = "create" THEN "decide" ELSE "rowlock"]
      /\ UNCHANGED <<db, rowLock, local, reply, now>>

(* The query of both computeAvailability calls; only an admin is free of   *)
(* the time rules.                                                         *)
Query(c, menu) ==
  [at |-> req[c].start, parts |-> Parts[menu], staff |-> AskedStaff(c),
   candidates |-> IF menu \in NeedsStaff THEN Qualified[menu] ELSE {},
   needsStaff |-> menu \in NeedsStaff,
   enforce |-> IF req[c].op = "create" THEN req[c].source # "ADMIN"
               ELSE req[c].actor # "USER",
   now |-> clock[c]]

(* staffIdReq, or the first free candidate (the query has no ORDER BY).    *)
Assignable(c, query, occupied) ==
  IF query.staff # NoStaff \/ ~query.needsStaff THEN {query.staff}
  ELSE FindAvailableStaff(query, Rules, Duty, occupied)

(* Under the lock: the occupied items are read again, the slot judged, the *)
(* staff member assigned, and for a new booking the customer looked up.    *)
Decide(c) ==
  LET b        == target[c]
      query    == Query(c, Made(b).menu)
      occupied == Occupied(b, ChainOccupiedStart(query.at, query.parts),
                           ChainOccupiedEnd(query.at, query.parts))
      verdict  == Verdict(query, Rules, Duty, Open[DayOf(query.at)], occupied)
      contact  == Made(b).contact
  IN  /\ pc[c] = "decide"
      /\ IF verdict # "OK"
         THEN Refuse(c, verdict) /\ UNCHANGED plan
         ELSE /\ \E s \in Assignable(c, query, occupied) :
                   plan' = [plan EXCEPT ![c] =
                     [staff |-> s,
                      items |-> ChainIntervals(query.at, query.parts, s),
                      card  |-> contact = None \/ cards[contact] = 0]]
              /\ Proceed(c, "commit")
              /\ UNCHANGED db
      /\ UNCHANGED <<req, target, seen, clock, now>>

(* The inserts and the commit.  The unique key is hit before the items are *)
(* inserted; on P2002 the existing booking is looked up and returned.      *)
CommitCreate(c) ==
  /\ pc[c] = "commit"
  /\ req[c].op = "create"
  /\ IF KeyHolders(req[c].key) # {}
     THEN \E b \in KeyHolders(req[c].key) : Answer(c, "REPLAY", b) /\ UNCHANGED db
     ELSE IF StaffClash(c, plan[c].items)
     THEN Refuse(c, "SLOT_FULL")
     ELSE /\ row' = [row EXCEPT ![c] = [status |-> "CONFIRMED",
                                        start |-> req[c].start,
                                        staff |-> plan[c].staff]]
          /\ items' = [items EXCEPT ![c] = plan[c].items]
          /\ active' = [active EXCEPT ![c] = TRUE]
          /\ cards' = IF req[c].contact # None /\ plan[c].card
                      THEN [cards EXCEPT ![req[c].contact] = @ + 1] ELSE cards
          /\ Log(c, "CREATED", "NONE", "CONFIRMED")
          /\ PostJobs(c, c, {}, {"CONFIRMED", "MANAGER"} \cup Reminds(c, c))
          /\ Answer(c, "OK", c)
          /\ UNCHANGED revived
  /\ UNCHANGED <<local, now>>

-----------------------------------------------------------------------------
(* rescheduleBooking                                                       *)

BeginReschedule(c, r, b) ==
  /\ r.op = "reschedule"
  /\ Exists(b)
  /\ Begin(c, r, b)
  /\ seen' = [seen EXCEPT ![c] = row[b]]
  /\ LET staff == IF r.staff = KeepStaff THEN row[b].staff ELSE r.staff
     IN  IF row[b].status \notin Live
         THEN Answer(c, "INVALID_BOOKING_STATE", None)
         ELSE IF r.actor = "CUSTOMER" /\ ~IsCancellable(row[b].start, now, Deadline)
         THEN Answer(c, "CANCELLATION_DEADLINE_PASSED", None)
         ELSE IF CannotServe(staff, Made(b).menu)
         THEN Answer(c, "STAFF_UNAVAILABLE", None)
         ELSE Proceed(c, "locking")
  /\ UNCHANGED db

(* Mutant: the row is locked, its status is not looked at again.           *)
LockRow_NoRecheck(c) ==
  /\ pc[c] = "rowlock"
  /\ rowLock[target[c]] = None
  /\ rowLock' = [rowLock EXCEPT ![target[c]] = c]
  /\ pc' = [pc EXCEPT ![c] = "decide"]
  /\ UNCHANGED <<db, lock, reply, local, now>>

(* SELECT status ... FOR UPDATE, and the second look at the status.        *)
LockRow(c) ==
  /\ pc[c] = "rowlock"
  /\ rowLock[target[c]] = None
  /\ IF row[target[c]].status \in Live
     THEN /\ rowLock' = [rowLock EXCEPT ![target[c]] = c]
          /\ pc' = [pc EXCEPT ![c] = "decide"]
          /\ UNCHANGED <<db, lock, reply>>
     ELSE Refuse(c, "INVALID_BOOKING_STATE")
  /\ UNCHANGED <<local, now>>

(* Mutant: the booking keeps the staff member it had.                      *)
MovedRow_StaffKept(c, b) == [row[b] EXCEPT !.start = req[c].start]

MovedRow(c, b) ==
  [status |-> row[b].status, start |-> req[c].start, staff |-> plan[c].staff]

(* Mutant: the reminder of the old start stays.                            *)
Superseded_None == {}

(* The jobs of the old start that a reschedule voids.                      *)
Superseded == {"REMINDER"}

CommitReschedule(c) ==
  LET b == target[c]
  IN  /\ pc[c] = "commit"
      /\ req[c].op = "reschedule"
      /\ IF StaffClash(b, plan[c].items)
         THEN Refuse(c, "SLOT_FULL")
         ELSE /\ row' = [row EXCEPT ![b] = MovedRow(c, b)]
              /\ items' = [items EXCEPT ![b] = plan[c].items]
              /\ active' = [active EXCEPT ![b] = TRUE]
              /\ Log(b, "RESCHEDULED", seen[c].status, seen[c].status)
              /\ PostJobs(c, b, Superseded,
                          {"MANAGER"} \cup Reminds(c, b) \cup
                          (IF Made(b).contact # None THEN {"RESCHEDULED"} ELSE {}))
              /\ Answer(c, "OK", b)
              /\ UNCHANGED <<cards, revived>>
      /\ UNCHANGED <<local, now>>

-----------------------------------------------------------------------------
(* cancelBooking                                                           *)

BeginCancel(c, r, b) ==
  /\ r.op = "cancel"
  /\ Exists(b)
  /\ Begin(c, r, b)
  /\ seen' = [seen EXCEPT ![c] = row[b]]
  /\ IF row[b].status \notin Live
     THEN Answer(c, "INVALID_BOOKING_STATE", None)
     ELSE IF ~IsCancellable(row[b].start, now, Deadline)
     THEN Answer(c, "CANCELLATION_DEADLINE_PASSED", None)
     ELSE Proceed(c, "write")
  /\ UNCHANGED db

(* The UPDATE names only the id: it waits for the row lock and then writes *)
(* whatever the status has become.                                         *)
CommitCancel(c) ==
  LET b == target[c]
  IN  /\ pc[c] = "write"
      /\ req[c].op = "cancel"
      /\ rowLock[b] = None
      /\ WriteStatus(b, "CANCELLED")
      /\ Log(b, "CANCELLED", seen[c].status, "CANCELLED")
      /\ PostJobs(c, b, JobKind, {"CANCELLED", "MANAGER"})
      /\ Answer(c, "OK", b)
      /\ UNCHANGED <<local, now>>

-----------------------------------------------------------------------------
(* updateBookingStatus                                                     *)

BeginStatus(c, r, b) ==
  /\ r.op = "status"
  /\ Exists(b)
  /\ Begin(c, r, b)
  /\ seen' = [seen EXCEPT ![c] = row[b]]
  /\ IF row[b].status = r.to
     THEN Answer(c, "UNCHANGED", b)
     ELSE IF r.to \notin AllowedTransitions[row[b].status]
     THEN Answer(c, "INVALID_BOOKING_STATE", None)
     ELSE Proceed(c, "write")
  /\ UNCHANGED db

EventType(to) == IF to \in Live THEN "CONFIRMED" ELSE to

(* As in cancelBooking the UPDATE is unconditional.  When the trigger has  *)
(* to activate items again the exclusion constraint may reject them.       *)
CommitStatus(c) ==
  LET b  == target[c]
      to == req[c].to
  IN  /\ pc[c] = "write"
      /\ req[c].op = "status"
      /\ rowLock[b] = None
      /\ IF Reactivates(b, to) /\ StaffClash(b, items[b])
         THEN Refuse(c, "ERROR")
         ELSE /\ WriteStatus(b, to)
              /\ Log(b, EventType(to), seen[c].status, to)
              /\ PostJobs(c, b, IF to \in Dead THEN JobKind ELSE {},
                          IF to = "CANCELLED" THEN {"CANCELLED"} ELSE {})
              /\ Answer(c, "OK", b)
      /\ UNCHANGED <<local, now>>

-----------------------------------------------------------------------------
(* The worker and the operator (notification-service.ts; Outbox has them   *)
(* with their sweeps): what becomes of a row after the booking wrote it.   *)

Announces(o, k) ==
  \/ k \in {"CONFIRMED", "REMINDER", "RESCHEDULED"}
  \/ k = "MANAGER" /\ (o \in Seed \/ req[o].op # "cancel")

(* The start a job was written for.                                        *)
WrittenFor(o) == Made(o).start

SetJob(o, k, from, to) ==
  /\ jobs[o][k] \in from
  /\ \E status \in to : jobs' = [jobs EXCEPT ![o][k] = status]
  /\ UNCHANGED <<row, items, active, cards, events, revived, overtaken,
                 locks, local, pc, reply, now>>

(* The row is due, and claimed.                                            *)
ClaimJob(o, k) ==
  /\ k = "REMINDER" => WrittenFor(o) - ReminderLead <= now
  /\ SetJob(o, k, {"PENDING"}, {"PROCESSING"})

(* The check right before the message goes out.                            *)
StaleAtDispatch(o, k) ==
  /\ Announces(o, k)
  /\ \/ row[About(o)].status \in Dead
     \/ k = "REMINDER" /\ row[About(o)].start <= now

CheckJob(o, k) ==
  SetJob(o, k, {"PROCESSING"}, {IF StaleAtDispatch(o, k) THEN "CANCELLED" ELSE "SENDING"})

SendJob(o, k) == SetJob(o, k, {"SENDING"}, {"SENT"})

(* An error waits for the next attempt or gives up; a claim whose worker   *)
(* died is taken back.                                                     *)
JobFails(o, k) == SetJob(o, k, {"PROCESSING", "SENDING"}, {"PENDING", "FAILED"})

(* retryFailedNotification.                                                *)
RetryJob(o, k) == SetJob(o, k, {"FAILED"}, {"PENDING"})

Work(o, k) ==
  /\ <<o, k>> \in Reached
  /\ ClaimJob(o, k) \/ CheckJob(o, k) \/ SendJob(o, k) \/ JobFails(o, k) \/ RetryJob(o, k)

-----------------------------------------------------------------------------
(* The transaction is lost: a timeout, a crash, a deadlock victim.         *)
Abort(c) ==
  /\ pc[c] \notin {"idle", "done"}
  /\ Refuse(c, "ERROR")
  /\ UNCHANGED <<local, now>>

Tick ==
  /\ now < MaxNow
  /\ now' = now + 1
  /\ UNCHANGED <<db, locks, local, pc, reply>>

(* Every request has been answered or was never sent.                      *)
Rest ==
  /\ \A c \in Call : pc[c] \in {"idle", "done"}
  /\ UNCHANGED vars

Init ==
  /\ row = [b \in Booking |->
              IF b \in Seed
              THEN [status |-> "CONFIRMED", start |-> SeedRequest[b].start,
                    staff |-> SeedRequest[b].staff]
              ELSE NoRow]
  /\ items = [b \in Booking |-> IF b \in Seed THEN SeedItems(b) ELSE {}]
  /\ active = [b \in Booking |-> b \in Seed]
  /\ cards = [k \in Contact |->
                IF \E b \in Seed : SeedRequest[b].contact = k THEN 1 ELSE 0]
  /\ events = [b \in Booking |->
                 IF b \in Seed
                 THEN <<[type |-> "CREATED", from |-> "NONE", to |-> "CONFIRMED"]>>
                 ELSE <<>>]
  /\ jobs = [b \in Booking |->
               IF b \in Seed
               THEN [NoJobs EXCEPT !["CONFIRMED"] = "SENT", !["MANAGER"] = "SENT",
                                   !["REMINDER"] = "PENDING"]
               ELSE NoJobs]
  /\ lock = [d \in Day |-> None]
  /\ rowLock = [b \in Booking |-> None]
  /\ pc = [c \in Call |-> "idle"]
  /\ req = [c \in Call |-> NoReq]
  /\ target = [c \in Call |-> None]
  /\ seen = [c \in Call |-> NoRow]
  /\ plan = [c \in Call |-> NoPlan]
  /\ clock = [c \in Call |-> 0]
  /\ reply = [c \in Call |-> NoReply]
  /\ now = 0
  /\ revived = {} /\ overtaken = {}

Start(c) ==
  \E r \in Request :
    \/ BeginCreate(c, r)
    \/ \E b \in Booking : \/ BeginReschedule(c, r, b)
                          \/ BeginCancel(c, r, b)
                          \/ BeginStatus(c, r, b)

Continue(c) ==
  \/ AdmitCreate(c)
  \/ AcquireDay(c)
  \/ LockRow(c)
  \/ Decide(c)
  \/ CommitCreate(c)
  \/ CommitReschedule(c)
  \/ CommitCancel(c)
  \/ CommitStatus(c)

Next ==
  \/ \E c \in Call : Start(c) \/ Continue(c) \/ Abort(c)
  \/ \E o \in Booking, k \in JobKind : Work(o, k)
  \/ Tick
  \/ Rest

Spec == Init /\ [][Next]_vars

(* A call in flight runs on: Node and PostgreSQL keep executing it.        *)
FairSpec == Spec /\ \A c \in Call : WF_vars(Continue(c))

-----------------------------------------------------------------------------
(* Properties                                                              *)

Row == [status : Status \cup {"NONE"}, start : Int, staff : Staff \cup {NoStaff}]
Label == {"idle", "admission", "locking", "rowlock", "decide", "commit", "write", "done"}
Interval == [start : Int, end : Int, svc : DOMAIN CapacityOf, staff : Staff \cup {NoStaff}]
Plan == [staff : Staff \cup {NoStaff}, items : SUBSET Interval, card : BOOLEAN]
Event == [type : Status \cup {"CREATED", "RESCHEDULED"},
          from : Status \cup {"NONE"}, to : Status]

Reply == [kind : Success, booking : Booking]
         \cup [kind : Reason \cup {"NONE"}, booking : {None}]

DbType ==
  /\ row \in [Booking -> Row]
  /\ items \in [Booking -> SUBSET Interval]
  /\ active \in [Booking -> BOOLEAN]
  /\ cards \in [Contact -> Nat]
  /\ events \in [Booking -> Seq(Event)]
  /\ jobs \in [Booking -> [JobKind -> JobStatus]]
  /\ revived \in SUBSET Booking
  /\ overtaken \subseteq Booking \X JobKind

LockType ==
  /\ lock \in [Day -> Call \cup {None}]
  /\ rowLock \in [Booking -> Call \cup {None}]

InputType ==
  /\ req \in [Call -> Request \cup {NoReq}]
  /\ target \in [Call -> Booking \cup {None}]
  /\ seen \in [Call -> Row]
  /\ clock \in [Call -> Nat]
  /\ now \in Nat

ProgressType ==
  /\ pc \in [Call -> Label]
  /\ plan \in [Call -> Plan]
  /\ reply \in [Call -> Reply]

(* Every variable keeps its type; only a call that succeeds names a        *)
(* booking in its answer.                                                  *)
TypeOK == DbType /\ LockType /\ InputType /\ ProgressType

InUse(B, t) == {b \in B : active[b] /\ Holds(b, t)}

InUseFor(B, v, t) == {b \in B : active[b] /\ HoldsFor(b, v, t)}

CapacityKept(B) ==
  \A t \in Instant :
    /\ Cardinality(InUse(B, t)) <= Rules.shopCapacity
    /\ \A v \in DOMAIN CapacityOf : Cardinality(InUseFor(B, v, t)) <= CapacityOf[v]

(* At no instant do more bookings hold the shop, or one of its services,   *)
(* than its capacity allows, whatever calls run at the same time.  It      *)
(* speaks of the bookings no stale status change has brought back to life; *)
(* RevivedIncluded drops that exception.                                   *)
NoOverbooking == CapacityKept(Booking \ revived)

(* The shop for which one lock per day is enough: a visit that is offered  *)
(* occupies, with its buffers, nothing beyond the day on which it starts.  *)
Starting  == {r \in Request : r.op \in {"create", "reschedule"}}
MenuAsked == {r.menu : r \in {x \in Request : x.op = "create"}}
             \cup {SeedRequest[b].menu : b \in Seed}

ClosesInTime ==
  \A r \in Starting, m \in MenuAsked, s \in Staff \cup {NoStaff} :
    (\E o \in Open[DayOf(r.start)] :
       r.start \in CandidateStarts(o, Rules.slotInterval, ChainDuration(Parts[m])))
    => \A t \in Instant :
         Within(ChainIntervals(r.start, Parts[m], s), t) => DayOf(t) = DayOf(r.start)

Serves(b, s, t) ==
  active[b] /\ \E iv \in items[b] : iv.staff = s /\ Covers(iv, t)

(* No staff member serves two bookings at the same time: not after moves   *)
(* across days, and not when a stale status change revives a booking whose *)
(* slot was given to somebody else.                                        *)
StaffNeverDoubleBooked ==
  \A s \in Staff, t \in Instant : \A b, o \in Booking :
    Serves(b, s, t) /\ Serves(o, s, t) => b = o

(* The items of a booking occupy the calendar exactly while the booking is *)
(* neither cancelled nor a no-show: no ghost occupancy, however a          *)
(* reschedule and a cancellation interleave.                               *)
NoGhostOccupancy ==
  \A b \in Booking : active[b] <=> row[b].status \notin Dead \cup {"NONE"}

(* The occupied intervals are those of the start and the staff member the  *)
(* booking shows, also after concurrent reschedules.                       *)
ItemsMatchRow ==
  \A b \in Booking : Exists(b) =>
    items[b] = ChainIntervals(row[b].start, Parts[Made(b).menu], row[b].staff)

(* Requests with one idempotency key are answered with one booking.        *)
KeyNamesOneBooking ==
  \A c, d \in Call :
    /\ req[c].op = "create" /\ req[d].op = "create"
    /\ req[c].key = req[d].key /\ req[c].key # None
    /\ reply[c].kind \in Success /\ reply[d].kind \in Success
    => reply[c].booking = reply[d].booking

(* Once a booking is cancelled or a no-show nothing waits in the outbox    *)
(* that announces it, confirms it or reminds of it, except what had been   *)
(* claimed or given up by then: an error, a reclaim or the operator's      *)
(* retry puts such a row back (Outbox!DeadBookingQuiet: it is not sent).   *)
NoStaleNotice ==
  \A o \in Booking, k \in JobKind :
    jobs[o][k] = "PENDING" /\ Announces(o, k) /\ <<o, k>> \notin overtaken =>
      row[About(o)].status \notin Dead

(* A booking has at most one reminder waiting, and it is the one that was  *)
(* computed for the start the booking has now; again with the exception of *)
(* a reminder that was claimed or given up when the booking moved.         *)
ReminderMatchesStart ==
  \A o \in Booking :
    jobs[o]["REMINDER"] = "PENDING" /\ <<o, "REMINDER">> \notin overtaken =>
      /\ row[About(o)].start = WrittenFor(o)
      /\ \A p \in Booking :
           /\ jobs[p]["REMINDER"] = "PENDING" /\ <<p, "REMINDER">> \notin overtaken
           /\ About(p) = About(o)
           => p = o

(* A booking moves only while it is confirmed or pending: a reschedule     *)
(* never moves one that a concurrent call cancelled or completed.          *)
MovesOnlyWhileLive ==
  [][\A b \in Booking : Exists(b) /\ items'[b] # items[b] => row[b].status \in Live]_vars

(* Every request that was sent is answered: the advisory lock, the row     *)
(* lock and the waits between them never leave a call stuck.               *)
EveryCallAnswered == \A c \in Call : pc[c] # "idle" ~> pc[c] = "done"

(* Seen through the calendar alone the calls happen one at a time: each    *)
(* create or reschedule that succeeds places its booking where it fits at  *)
(* that moment, each cancellation or no-show frees one, and a freed        *)
(* booking stays free (a revived one is left out, as in NoOverbooking).    *)
OnCalendar(b) == active[b] /\ b \notin revived

Cells(b) ==
  UNION {{[at |-> t, svc |-> iv.svc, staff |-> iv.staff] :
            t \in {x \in Instant : Covers(iv, x)}} : iv \in items[b]}

Ledger == INSTANCE BookingLedger WITH
  Id        <- Booking,
  Nobody    <- NoStaff,
  ShopLimit <- Rules.shopCapacity,
  SvcLimit  <- CapacityOf,
  phase     <- [b \in Booking |-> IF ~Exists(b) THEN "new"
                                  ELSE IF OnCalendar(b) THEN "held" ELSE "gone"],
  calendar  <- [b \in Booking |-> IF OnCalendar(b) THEN Cells(b) ELSE {}]

LedgerSpec == Ledger!Spec

(* Documented, and not kept by the code.                                   *)

(* Capacity is kept whatever happens, bookings included whose CANCELLED or *)
(* NO_SHOW a COMPLETED decided on an older read has overwritten.           *)
RevivedIncluded == CapacityKept(Booking)

(* A contact has one customer record.                                      *)
OneCardPerContact == \A k \in DOMAIN cards : k = None \/ cards[k] <= 1
=============================================================================
