------------------------------- MODULE Outbox -------------------------------
(***************************************************************************)
(* The notification outbox: notification-service.ts and queue/worker.ts.   *)
(* Bookings write rows of notification_jobs in their own transactions;     *)
(* every ten seconds a worker sweeps the rows that are due.  Sweeps        *)
(* overlap: several processes run one, and a slow sweep is still at work   *)
(* when the timer starts the next.  Workers crash, statements fail, a      *)
(* provider may take a message and fail to say so.                         *)
(*                                                                         *)
(* Time is relative: a row knows how long it still waits and how old its   *)
(* claim is, so that time is unbounded and the states are finite.          *)
(***************************************************************************)
EXTENDS Integers, FiniteSets, Sequences, SequencesExt

CONSTANTS
  Bookings,       \* bookings that announce themselves
  Kinds,          \* templates followed, of those a booking posts
  Owners,         \* notices to the owner of a shop, about no booking
  Sweeps,         \* sweeps that may be at work at once
  Addressless,    \* jobs whose recipient is empty
  Lead,           \* a reminder is due this long before the start
  Starts,         \* how far ahead a visit may begin (booked or moved to)
  MaxMoves,       \* bound: reschedules of a booking
  MaxAttempts,    \* maxAttempts, 9 in the schema
  BackoffCap,     \* longest back-off, 30 minutes in the code
  ReclaimAfter,   \* a claim older than this is taken back, 5 minutes
  Patience,       \* a live worker settles a claim within this time
  Limit,          \* rows of one sweep, 50 in the code
  MaxFaults       \* bound: faults, and retries by the operator, together

VARIABLES
  booking,   \* [live, until]: is it live, and how long until it starts
  moves,     \* reschedules of each booking so far
  job,       \* notification_jobs
  sweep,     \* [pc, todo, attempts] of each sweep; Head(todo) is its job
  faults,    \* crashes, failed statements, lost answers, operator retries
  traced,    \* history: deliveries of a job, less those that left no trace
  flying,    \* history: jobs past the freshness check when the booking died
  overtaken  \* history: reminders a reschedule met PROCESSING or FAILED

history == <<traced, flying, overtaken>>
vars == <<booking, moves, job, sweep, faults, history>>

Template == {"CONFIRMED", "REMINDER", "RESCHEDULED", "CANCELLED"}

(* One row of each kind for every time a booking was written.              *)
Notices == [about : Bookings, move : 0..MaxMoves, kind : Kinds]
Jobs    == Notices \cup Owners

Settled == {"SENT", "CANCELLED", "FAILED"}
NoJob   == [status |-> "NONE", attempts |-> 0, wait |-> 0, age |-> 0]
Waiting(d) == [status |-> "PENDING", attempts |-> 0, wait |-> d, age |-> 0]
Closed(r, status) ==
  [status |-> status, attempts |-> r.attempts, wait |-> 0, age |-> 0]
AtRest  == [pc |-> "idle", todo |-> <<>>, attempts |-> 0]

OutboxAssumption ==
  /\ Lead \in Nat /\ MaxMoves \in Nat /\ MaxFaults \in Nat
  /\ BackoffCap \in Nat /\ ReclaimAfter \in Nat /\ Patience \in 0..ReclaimAfter
  /\ MaxAttempts \in Nat \ {0} /\ Limit \in Nat \ {0}
  /\ Starts \subseteq Nat \ {0} /\ Starts # {}
  /\ Kinds \subseteq Template
  /\ IsFiniteSet(Jobs)
  /\ \A o \in Owners : o \notin [about : Bookings, move : Nat, kind : Template]
  /\ Addressless \subseteq {j \in Notices : j.kind \in {"CONFIRMED", "CANCELLED"}}

ASSUME OutboxAssumption

(* Waiting time and age stop mattering beyond these.                       *)
Overdue == -1
Stale   == ReclaimAfter + 1

Cur(w)      == Head(sweep[w].todo)
HasBooking(j) == j \in Notices
Kind(j)     == IF HasBooking(j) THEN j.kind ELSE "OWNER"

-----------------------------------------------------------------------------
(* What the booking service writes.                                        *)

Notice(b, m, k) == [about |-> b, move |-> m, kind |-> k]

(* A reminder is written only when it is due in the future.                *)
ReminderOf(b, m, start) ==
  IF start > Lead THEN {Notice(b, m, "REMINDER")} ELSE {}

Posted(j, start) ==
  Waiting(IF j.kind = "REMINDER" THEN start - Lead ELSE 0)

(* updateMany status PENDING -> CANCELLED, then the new rows.              *)
Write(void, post, start) ==
  job' = [j \in Jobs |->
            IF j \in post THEN Posted(j, start)
            ELSE IF j \in void /\ job[j].status = "PENDING"
            THEN Closed(job[j], "CANCELLED")
            ELSE job[j]]

NoticesOf(b)   == {j \in Notices : j.about = b}
RemindersOf(b) == {j \in NoticesOf(b) : j.kind = "REMINDER"}

(* Jobs some sweep has already found fresh and is about to send.           *)
PastCheck == {Cur(w) : w \in {v \in Sweeps : sweep[v].pc = "send"}}

(* Mutant: the reminder of the old start is left waiting.                  *)
RescheduleKeepsReminder(b, start) ==
  /\ booking[b].live
  /\ moves[b] < MaxMoves
  /\ moves' = [moves EXCEPT ![b] = @ + 1]
  /\ booking' = [booking EXCEPT ![b].until = start]
  /\ Write({}, {Notice(b, moves'[b], "RESCHEDULED")} \cup ReminderOf(b, moves'[b], start),
           start)
  /\ UNCHANGED <<sweep, faults, history>>

(* rescheduleBooking: the waiting reminders are voided, the change and a   *)
(* reminder of the new start are posted.                                   *)
Reschedule(b, start) ==
  /\ booking[b].live
  /\ moves[b] < MaxMoves
  /\ moves' = [moves EXCEPT ![b] = @ + 1]
  /\ booking' = [booking EXCEPT ![b].until = start]
  /\ Write(RemindersOf(b),
           {Notice(b, moves'[b], "RESCHEDULED")} \cup ReminderOf(b, moves'[b], start),
           start)
  /\ overtaken' = overtaken \cup
       {j \in RemindersOf(b) : job[j].status \in {"PROCESSING", "FAILED"}}
  /\ UNCHANGED <<sweep, faults, traced, flying>>

(* cancelBooking and updateBookingStatus: every waiting job of the booking *)
(* is voided; a cancellation, unlike a no-show, is announced.              *)
Die(b, announced) ==
  /\ booking[b].live
  /\ booking' = [booking EXCEPT ![b].live = FALSE]
  /\ Write(NoticesOf(b),
           IF announced THEN {Notice(b, moves[b], "CANCELLED")} ELSE {}, 0)
  /\ flying' = flying \cup (PastCheck \cap NoticesOf(b))
  /\ UNCHANGED <<moves, sweep, faults, traced, overtaken>>

(* Mutant: the button also works on a message that went out.               *)
RetrySent(j) ==
  /\ job[j].status \in {"FAILED", "SENT"}
  /\ faults < MaxFaults
  /\ faults' = faults + 1
  /\ job' = [job EXCEPT ![j] = Waiting(0)]
  /\ UNCHANGED <<booking, moves, sweep, history>>

(* retryFailedNotification: the button on the list of failed messages.     *)
RetryFailed(j) ==
  /\ job[j].status = "FAILED"
  /\ faults < MaxFaults
  /\ faults' = faults + 1
  /\ job' = [job EXCEPT ![j] = Waiting(0)]
  /\ UNCHANGED <<booking, moves, sweep, history>>

-----------------------------------------------------------------------------
(* sweepPendingNotifications and, for each row, processNotificationJob.    *)

Goto(w, pc)  == sweep' = [sweep EXCEPT ![w].pc = pc]
Leave(w, status) == job' = [job EXCEPT ![Cur(w)] = Closed(@, status)]

(* On to the next row of the sweep, or to rest until the timer fires.      *)
Advance(w) ==
  sweep' = [sweep EXCEPT ![w] =
              IF Len(@.todo) = 1 THEN AtRest
              ELSE [pc |-> "read", todo |-> Tail(@.todo), attempts |-> 0]]

(* Mutant: nothing is taken back.                                          *)
ReclaimedNone == job

(* Rows left in PROCESSING by a crash go back to PENDING.                  *)
Reclaimed ==
  [j \in Jobs |->
     IF job[j].status = "PROCESSING" /\ job[j].age > ReclaimAfter
     THEN [status |-> "PENDING", attempts |-> job[j].attempts, wait |-> job[j].wait, age |-> 0]
     ELSE job[j]]

(* The Limit rows of rows that are due the longest, oldest first.          *)
Batches(rows) ==
  LET due == {j \in Jobs : rows[j].status = "PENDING" /\ rows[j].wait <= 0}
      sorted(q) == \A i, k \in DOMAIN q : i < k => rows[q[i]].wait <= rows[q[k]].wait
  IN  {SubSeq(q, 1, IF Len(q) < Limit THEN Len(q) ELSE Limit) :
         q \in {r \in SetToSeqs(due) : sorted(r)}}

(* The two statements a sweep begins with; with nothing due it ends here.  *)
List(w) ==
  /\ sweep[w].pc = "idle"
  /\ job' = Reclaimed
  /\ \E q \in Batches(Reclaimed) :
       sweep' = [sweep EXCEPT ![w] =
                   IF q = <<>> THEN AtRest
                   ELSE [pc |-> "read", todo |-> q, attempts |-> 0]]
  /\ UNCHANGED <<booking, moves, faults, history>>

(* findUnique: the copy whose attempts the failure path will count from.   *)
Read(w) ==
  /\ sweep[w].pc = "read"
  /\ \/ /\ job[Cur(w)].status \in {"SENT", "CANCELLED"}
        /\ Advance(w)
     \/ /\ job[Cur(w)].status \notin {"SENT", "CANCELLED"}
        /\ sweep' = [sweep EXCEPT ![w] =
                        [pc |-> "claim", todo |-> @.todo, attempts |-> job[Cur(w)].attempts]]
  /\ UNCHANGED <<booking, moves, job, faults, history>>

Claimed(r) ==
  [status |-> "PROCESSING", attempts |-> r.attempts, wait |-> r.wait, age |-> 0]

(* Mutant: update where the id is, whatever the status has become.         *)
ClaimAnyway(w) ==
  /\ sweep[w].pc = "claim"
  /\ job' = [job EXCEPT ![Cur(w)] = Claimed(@)]
  /\ Goto(w, "check")
  /\ UNCHANGED <<booking, moves, faults, history>>

(* updateMany where PENDING: one of the overlapping sweeps wins.           *)
Claim(w) ==
  /\ sweep[w].pc = "claim"
  /\ \/ /\ job[Cur(w)].status = "PENDING"
        /\ job' = [job EXCEPT ![Cur(w)] = Claimed(@)]
        /\ Goto(w, "check")
     \/ /\ job[Cur(w)].status # "PENDING"
        /\ Advance(w)
        /\ UNCHANGED job
  /\ UNCHANGED <<booking, moves, faults, history>>

(* Mutant: only a reminder of a visit that has begun is held back.         *)
ReminderPastOnly(j) ==
  HasBooking(j) /\ Kind(j) = "REMINDER" /\ booking[j.about].until = 0

(* The freshness check before a message goes out.                          *)
StaleAtDispatch(j) ==
  /\ HasBooking(j) /\ Kind(j) # "CANCELLED"
  /\ \/ ~ booking[j.about].live
     \/ Kind(j) = "REMINDER" /\ booking[j.about].until = 0

Check(w) ==
  /\ sweep[w].pc = "check"
  /\ \/ /\ StaleAtDispatch(Cur(w))
        /\ Leave(w, "CANCELLED")
        /\ Advance(w)
     \/ /\ ~ StaleAtDispatch(Cur(w)) /\ Cur(w) \in Addressless
        /\ Leave(w, "SENT")
        /\ Advance(w)
     \/ /\ ~ StaleAtDispatch(Cur(w)) /\ Cur(w) \notin Addressless
        /\ Goto(w, "send")
        /\ UNCHANGED job
  /\ UNCHANGED <<booking, moves, faults, history>>

(* Minutes to wait after the n-th failure: 2, 4, 8, 16, 30, 30 ...         *)
Backoff(n) == IF 2 ^ n \in 0..BackoffCap THEN 2 ^ n ELSE BackoffCap

(* The catch block: attempts are counted from the copy read before the     *)
(* claim; the last one gives up for good.                                  *)
Fail(w) ==
  LET attempts == sweep[w].attempts + 1 IN
    /\ job' = [job EXCEPT ![Cur(w)] =
                 IF attempts >= MaxAttempts
                 THEN [status |-> "FAILED", attempts |-> attempts, wait |-> 0, age |-> 0]
                 ELSE [status |-> "PENDING", attempts |-> attempts,
                       wait |-> Backoff(attempts), age |-> 0]]
    /\ Advance(w)

(* dispatch: the provider takes the message or not; an error may also be   *)
(* reported for a message that was taken (a timeout of the answer).        *)
Dispatch(w, taken, acknowledged) ==
  /\ sweep[w].pc = "send"
  /\ acknowledged => taken
  /\ taken /\ ~ acknowledged => faults < MaxFaults
  /\ faults' = IF taken /\ ~ acknowledged THEN faults + 1 ELSE faults
  /\ \/ /\ acknowledged
        /\ traced' = [traced EXCEPT ![Cur(w)] = @ + 1]
        /\ Goto(w, "record")
        /\ UNCHANGED job
     \/ /\ ~ acknowledged
        /\ Fail(w)
        /\ UNCHANGED traced
  /\ UNCHANGED <<booking, moves, flying, overtaken>>

Record(w) ==
  /\ sweep[w].pc = "record"
  /\ job' = [job EXCEPT ![Cur(w)] =
               [status |-> "SENT", attempts |-> @.attempts + 1, wait |-> 0, age |-> 0]]
  /\ Advance(w)
  /\ UNCHANGED <<booking, moves, faults, history>>

Untraced(w) ==
  IF sweep[w].pc = "record" THEN [traced EXCEPT ![Cur(w)] = @ - 1] ELSE traced

(* A statement inside the try fails: the row is treated as a failed send.  *)
StatementFails(w) ==
  /\ sweep[w].pc \in {"check", "record"}
  /\ faults < MaxFaults
  /\ faults' = faults + 1
  /\ traced' = Untraced(w)
  /\ Fail(w)
  /\ UNCHANGED <<booking, moves, flying, overtaken>>

(* The process dies, or a statement outside the try (or inside the catch)  *)
(* fails: the sweep is over, its claim stays in PROCESSING.                *)
Crash(w) ==
  /\ sweep[w].pc # "idle"
  /\ faults < MaxFaults
  /\ faults' = faults + 1
  /\ traced' = Untraced(w)
  /\ sweep' = [sweep EXCEPT ![w] = AtRest]
  /\ UNCHANGED <<booking, moves, job, flying, overtaken>>

Sweep(w) ==
  \/ List(w) \/ Read(w) \/ Claim(w) \/ Check(w)
  \/ \E taken, acknowledged \in BOOLEAN : Dispatch(w, taken, acknowledged)
  \/ Record(w)

-----------------------------------------------------------------------------
(* Time.  A live worker is done with a claim within Patience: the timeouts *)
(* of the mail and LINE clients are shorter than the reclaim window.       *)

Holding(w) == sweep[w].pc \in {"check", "send", "record"}

Older(r) ==
  [status   |-> r.status,
   attempts |-> r.attempts,
   wait     |-> IF r.wait = Overdue THEN r.wait ELSE r.wait - 1,
   age      |-> IF r.status = "PENDING" \/ r.age = Stale THEN r.age ELSE r.age + 1]

Tick ==
  /\ \A w \in Sweeps : Holding(w) => job[Cur(w)].age < Patience
  /\ booking' = [b \in Bookings |->
       [booking[b] EXCEPT !.until = IF @ = 0 THEN 0 ELSE @ - 1]]
  /\ job' = [j \in Jobs |->
       IF job[j].status \in {"PENDING", "PROCESSING"} THEN Older(job[j]) ELSE job[j]]
  /\ UNCHANGED <<moves, sweep, faults, history>>

-----------------------------------------------------------------------------
(* createBooking has committed, enqueueBillingNotice has committed.        *)
Init ==
  /\ booking \in [Bookings -> [live : {TRUE}, until : Starts]]
  /\ moves = [b \in Bookings |-> 0]
  /\ job = [j \in Jobs |->
              IF ~ HasBooking(j) THEN Waiting(0)
              ELSE IF j \in {Notice(j.about, 0, "CONFIRMED")}
                            \cup ReminderOf(j.about, 0, booking[j.about].until)
              THEN Posted(j, booking[j.about].until)
              ELSE NoJob]
  /\ sweep = [w \in Sweeps |-> AtRest]
  /\ faults = 0
  /\ traced = [j \in Jobs |-> 0] /\ flying = {} /\ overtaken = {}

Next ==
  \/ \E b \in Bookings, s \in Starts : Reschedule(b, s)
  \/ \E b \in Bookings, announced \in BOOLEAN : Die(b, announced)
  \/ \E j \in Jobs : RetryFailed(j)
  \/ \E w \in Sweeps : Sweep(w) \/ StatementFails(w) \/ Crash(w)
  \/ Tick

Spec == Init /\ [][Next]_vars

(* The timer goes on starting sweeps, a sweep at work goes on, time passes. *)
FairSpec == Spec /\ WF_vars(Tick) /\ \A w \in Sweeps : WF_vars(Sweep(w))

-----------------------------------------------------------------------------
(* Types: every row, sweep and counter keeps its form.                     *)
Row == [status : {"NONE", "PENDING", "PROCESSING"} \cup Settled,
        attempts : Nat, wait : Int, age : Nat]

Work == [pc : {"idle", "read", "claim", "check", "send", "record"},
         todo : Seq(Jobs), attempts : Nat]

TypeOK ==
  /\ booking \in [Bookings -> [live : BOOLEAN, until : Nat]]
  /\ moves \in [Bookings -> Nat]
  /\ job \in [Jobs -> Row]
  /\ sweep \in [Sweeps -> Work]
  /\ \A w \in Sweeps : (sweep[w].pc = "idle") <=> (sweep[w].todo = <<>>)
  /\ faults \in Nat
  /\ traced \in [Jobs -> Int] /\ flying \subseteq Jobs /\ overtaken \subseteq Jobs

(* Overlapping sweeps and reclaims notwithstanding, a row is in the hands  *)
(* of one sweep at a time, and stays PROCESSING while it is.               *)
OneHolder ==
  \A w \in Sweeps : Holding(w) =>
    /\ job[Cur(w)].status = "PROCESSING"
    /\ \A v \in Sweeps \ {w} : Holding(v) => Cur(v) # Cur(w)

(* A recipient gets a message twice only if the trace of an earlier        *)
(* delivery was lost: by a crash or a failed write after the send, or by   *)
(* a provider that took the message and reported an error.                 *)
TwiceOnlyAfterLoss == \A j \in Jobs : traced[j] <= 1

Sends(w) == \E taken, acknowledged \in BOOLEAN :
              taken /\ Dispatch(w, taken, acknowledged)
Sent(j)  == \E w \in Sweeps : sweep[w].pc = "send" /\ Cur(w) = j /\ Sends(w)

(* Once a booking is dead its confirmations and reminders stay silent,     *)
(* also those a crash, a retry or the operator brings back; only one that  *)
(* had passed the freshness check when the booking died may still go out.  *)
DeadBookingQuiet ==
  [][\A j \in Notices :
       Sent(j) /\ j.kind # "CANCELLED" /\ ~ booking[j.about].live => j \in flying]_vars

(* A reminder goes out within Lead of the start the visit has now, never   *)
(* at the time of a start that was moved; the exception is a reminder that *)
(* was being processed, or had failed and is sent again by the operator:   *)
(* the reschedule voids the waiting ones only.                             *)
ReminderInTime ==
  [][\A j \in Notices :
       Sent(j) /\ j.kind = "REMINDER" =>
         booking[j.about].until <= Lead \/ j \in overtaken]_vars

(* Every message is sent, called off or given up in the end, whatever      *)
(* crashes; a full batch of failing rows does not starve the others.       *)
EveryJobSettles ==
  \A j \in Jobs : job[j].status = "PENDING" ~> job[j].status \in Settled
=============================================================================
