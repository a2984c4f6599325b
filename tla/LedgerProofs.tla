---------------------------- MODULE LedgerProofs ----------------------------
(***************************************************************************)
(* What the rows of a booking have to do with one another, and with the    *)
(* calendar the shop looks at: its items are those of its start and staff, *)
(* its key names it alone, its notices are about the state it is in, and   *)
(* the calls, which run concurrently, place, move and free bookings as if  *)
(* one at a time (BookingLedger).                                          *)
(***************************************************************************)
EXTENDS BookingProofs

(* The commits, with the jobs they write.                                  *)
Created(c) ==
  /\ Placed(c) /\ target[c] = c /\ KeyHolders(req[c].key) = {}
  /\ \E posted : PostJobs(c, c, {}, posted)

Rescheduled(c) ==
  /\ Moved(c, target[c])
  /\ \E posted : PostJobs(c, target[c], Superseded, posted)

Changed(c, to) ==
  /\ pc[c] = "write" /\ pc'[c] = "done" /\ Restated(target[c], to)
  /\ \E voided, posted :
       /\ PostJobs(c, target[c], voided, posted)
       /\ to \in Dead => voided = JobKind
       /\ posted \subseteq {"CANCELLED", "MANAGER"}
       /\ "MANAGER" \in posted => req[c].op = "cancel"

(* A job that waits to be sent, or may be put back to wait.                *)
Waits(o, k) == jobs[o][k] \in {"PENDING"} \cup Underway

(* A step that writes no booking starts no job.                            *)
Settles ==
  /\ UNCHANGED visits /\ overtaken' = overtaken
  /\ \A o \in Booking, k \in JobKind : Waits(o, k)' => Waits(o, k)

(* What a call has told its client, and what became of its request.        *)
Replied(c) ==
  \/ UNCHANGED reply /\ pc'[c] # "done"
  \/ \E kind : kind \notin Success /\ Answer(c, kind, None) /\ UNCHANGED db
  \/ /\ req'[c].op = "create" /\ UNCHANGED db
     /\ \E b \in KeyHolders(req'[c].key) : Answer(c, "REPLAY", b)
  \/ req[c].op = "create" /\ Created(c) /\ Answer(c, "OK", c)
  \/ req'[c].op # "create" /\ \E kind, b : Answer(c, kind, b)

LEMMA RefusalFails ==
  ASSUME NEW reason \in Reason
  PROVE  reason \notin Success
  BY DEF Reason, Success

LEMMA CommitShapes ==
  ASSUME TypeOK, CallOK, NEW c \in Call
  PROVE  /\ CommitCreate(c) =>
              \/ \E reason : reason \notin Success /\ Refuse(c, reason)
              \/ /\ UNCHANGED db
                 /\ \E b \in KeyHolders(req[c].key) : Answer(c, "REPLAY", b)
              \/ Created(c) /\ Answer(c, "OK", c)
         /\ CommitReschedule(c) =>
              \/ \E reason : reason \notin Success /\ Refuse(c, reason)
              \/ Rescheduled(c) /\ Answer(c, "OK", target[c])
         /\ CommitCancel(c) =>
              Changed(c, "CANCELLED") /\ Answer(c, "OK", target[c])
         /\ CommitStatus(c) =>
              \/ \E reason : reason \notin Success /\ Refuse(c, reason)
              \/ Changed(c, req[c].to) /\ Answer(c, "OK", target[c])
<1>0. /\ "SLOT_FULL" \notin Success /\ "ERROR" \notin Success
      /\ \A kind, b : Answer(c, kind, b) => pc'[c] = "done"
  BY DEF Success, Answer, TypeOK, ProgressType
<1>1. ASSUME CommitCreate(c)
      PROVE  \/ \E reason : reason \notin Success /\ Refuse(c, reason)
             \/ /\ UNCHANGED db
                /\ \E b \in KeyHolders(req[c].key) : Answer(c, "REPLAY", b)
             \/ Created(c) /\ Answer(c, "OK", c)
  <2>1. /\ pc[c] = "commit" /\ req[c].op = "create" /\ ~Exists(c)
        /\ target[c] = c
    BY <1>1 DEF CommitCreate, CallOK, OneCallOK
  <2>2. CASE KeyHolders(req[c].key) # {}
    BY <1>1, <2>2 DEF CommitCreate
  <2>3. CASE KeyHolders(req[c].key) = {} /\ ~StaffClash(c, plan[c].items)
    <3>1. /\ row' = [row EXCEPT ![c] = [status |-> "CONFIRMED",
                                        start |-> req[c].start,
                                        staff |-> plan[c].staff]]
          /\ items' = [items EXCEPT ![c] = plan[c].items]
          /\ active' = [active EXCEPT ![c] = TRUE]
          /\ revived' = revived
          /\ PostJobs(c, c, {}, {"CONFIRMED", "MANAGER"} \cup Reminds(c, c))
          /\ Answer(c, "OK", c)
      BY <1>1, <2>3 DEF CommitCreate
    <3>2. Placed(c)
      BY <1>0, <2>1, <2>3, <3>1 DEF Placed
    <3> QED
      BY <2>1, <2>3, <3>1, <3>2 DEF Created
  <2>4. CASE KeyHolders(req[c].key) = {} /\ StaffClash(c, plan[c].items)
    BY <1>0, <1>1, <2>4 DEF CommitCreate
  <2> QED
    BY <2>2, <2>3, <2>4
<1>2. ASSUME CommitReschedule(c)
      PROVE  \/ \E reason : reason \notin Success /\ Refuse(c, reason)
             \/ Rescheduled(c) /\ Answer(c, "OK", target[c])
  <2>1. /\ pc[c] = "commit" /\ req[c].op = "reschedule"
        /\ target[c] \in Booking /\ row[target[c]].status \in Live
    BY <1>2 DEF CommitReschedule, CallOK, OneCallOK
  <2>2. CASE StaffClash(target[c], plan[c].items)
    BY <1>0, <1>2, <2>2 DEF CommitReschedule
  <2>3. CASE ~StaffClash(target[c], plan[c].items)
    <3>1. /\ row' = [row EXCEPT ![target[c]] = MovedRow(c, target[c])]
          /\ items' = [items EXCEPT ![target[c]] = plan[c].items]
          /\ active' = [active EXCEPT ![target[c]] = TRUE]
          /\ revived' = revived
          /\ \E posted : PostJobs(c, target[c], Superseded, posted)
          /\ Answer(c, "OK", target[c])
      BY <1>2, <2>3 DEF CommitReschedule
    <3>2. Moved(c, target[c])
      BY <1>0, <2>1, <2>3, <3>1 DEF Moved
    <3> QED
      BY <3>1, <3>2 DEF Rescheduled
  <2> QED
    BY <2>2, <2>3
<1>3. ASSUME CommitCancel(c)
      PROVE  Changed(c, "CANCELLED") /\ Answer(c, "OK", target[c])
  <2>1. /\ pc[c] = "write" /\ req[c].op = "cancel"
        /\ WriteStatus(target[c], "CANCELLED")
        /\ PostJobs(c, target[c], JobKind, {"CANCELLED", "MANAGER"})
        /\ Answer(c, "OK", target[c])
    BY <1>3 DEF CommitCancel
  <2>2. target[c] \in Booking /\ Exists(target[c]) /\ "CANCELLED" \in Status
    BY <2>1 DEF CallOK, OneCallOK, Status, Terminal, Dead
  <2>3. ~Reactivates(target[c], "CANCELLED")
    BY DEF Reactivates, ActiveAfter, Dead
  <2>4. Restated(target[c], "CANCELLED")
    BY <2>1, <2>2, <2>3 DEF Restated
  <2> QED
    BY <1>0, <2>1, <2>4 DEF Changed
<1>4. ASSUME CommitStatus(c)
      PROVE  \/ \E reason : reason \notin Success /\ Refuse(c, reason)
             \/ Changed(c, req[c].to) /\ Answer(c, "OK", target[c])
  <2> DEFINE to == req[c].to
             b  == target[c]
             voided == IF to \in Dead THEN JobKind ELSE {}
             posted == IF to = "CANCELLED" THEN {"CANCELLED"} ELSE {}
  <2>1. pc[c] = "write" /\ req[c].op = "status"
    BY <1>4 DEF CommitStatus
  <2>2. b \in Booking /\ Exists(b) /\ to \in Status
    BY <2>1, RequestOf DEF CallOK, OneCallOK, Accepted, CreateAccepted
  <2>3. CASE Reactivates(b, to) /\ StaffClash(b, items[b])
    BY <1>0, <1>4, <2>3 DEF CommitStatus
  <2>4. CASE ~(Reactivates(b, to) /\ StaffClash(b, items[b]))
    <3>1. WriteStatus(b, to) /\ PostJobs(c, b, voided, posted) /\ Answer(c, "OK", b)
      BY <1>4, <2>4 DEF CommitStatus
    <3>2. Restated(b, to)
      BY <2>2, <2>4, <3>1 DEF Restated
    <3>3. /\ to \in Dead => voided = JobKind
          /\ posted \subseteq {"CANCELLED", "MANAGER"} /\ "MANAGER" \notin posted
      OBVIOUS
    <3> QED
      BY <1>0, <2>1, <3>1, <3>2, <3>3 DEF Changed
  <2> QED
    BY <2>3, <2>4
<1> QED
  BY <1>1, <1>2, <1>3, <1>4

(* CalendarSteps, with the jobs.                                           *)
LEMMA RecordSteps ==
  ASSUME TypeOK, CallOK, [Next]_vars
  PROVE  \/ Settles
         \/ \E c \in Call : Created(c) \/ Rescheduled(c)
         \/ \E c \in Call, to \in Status : Changed(c, to)
<1>1. \A c \in Call : \A kind : Refuse(c, kind) => UNCHANGED db
  BY DEF Refuse
<1>2. \A c \in Call : \A to : Changed(c, to) => to \in Status
  BY DEF Changed, Restated
<1>3. CASE UNCHANGED db
  BY <1>3 DEF Settles, db, visits, Waits
<1>4. ASSUME NEW o \in Booking, NEW k \in JobKind, Work(o, k) PROVE Settles
  <2>1. UNCHANGED visits /\ overtaken' = overtaken /\ Waits(o, k)
    BY <1>4, WorkSets DEF visits, Waits
  <2>2. PICK status \in JobStatus : jobs' = [jobs EXCEPT ![o][k] = status]
    BY <1>4, WorkSets
  <2>3. ASSUME NEW p \in Booking, NEW l \in JobKind, p # o \/ l # k
        PROVE  jobs'[p][l] = jobs[p][l]
    <3> HIDE DEF JobKind
    <3> QED
      BY <2>2, <2>3 DEF TypeOK, DbType
  <2> QED
    BY <2>1, <2>3 DEF Settles, Waits
<1> QED
  BY <1>1, <1>2, <1>3, <1>4, QuietOrCommit, CommitShapes

LEMMA DecideReason ==
  ASSUME NEW c \in Call, Decide(c)
  PROVE  Proceed(c, "commit") \/ \E reason \in Reason : Refuse(c, reason)
<1> DEFINE query    == Query(c, Made(target[c]).menu)
           occupied == Occupied(target[c], ChainOccupiedStart(query.at, query.parts),
                                ChainOccupiedEnd(query.at, query.parts))
           verdict  == Verdict(query, Rules, Duty, Open[DayOf(query.at)], occupied)
<1>1. verdict \in Reason \cup {"OK"}
  BY Zenon DEF Verdict, Reason
<1>2. \/ verdict # "OK" /\ Refuse(c, verdict)
      \/ Proceed(c, "commit")
  BY DEF Decide
<1> HIDE DEF verdict
<1> QED
  BY <1>1, <1>2

LEMMA StepReplied ==
  ASSUME TypeOK, CallOK, NEW c \in Call, Start(c) \/ Continue(c) \/ Abort(c)
  PROVE  Replied(c)
<1>1. \A label : label # "done" /\ Proceed(c, label) => UNCHANGED reply /\ pc'[c] # "done"
  BY DEF Proceed, TypeOK, ProgressType
<1>2. \A reason \in Reason : Refuse(c, reason) => Replied(c)
  BY RefusalFails DEF Refuse, Replied
<1>3. CASE Start(c)
  <2>0. PICK r \in Request, b \in Booking \cup {c} :
              \/ BeginCreate(c, r) /\ b = c
              \/ BeginReschedule(c, r, b)
              \/ BeginCancel(c, r, b)
              \/ BeginStatus(c, r, b)
    BY <1>3 DEF Start
  <2>1. Begin(c, r, b) /\ UNCHANGED db
    BY <2>0 DEF BeginCreate, BeginReschedule, BeginCancel, BeginStatus
  <2>2. req'[c] = r
    BY <2>1 DEF Begin, TypeOK, InputType
  <2>3. CASE BeginCreate(c, r)
    BY <1>1, <2>1, <2>2, <2>3 DEF BeginCreate, Replied
  <2>4. CASE r.op # "create"
    <3>1. \/ \E label : label # "done" /\ Proceed(c, label)
          \/ \E kind, o : Answer(c, kind, o)
      BY <2>0, <2>4 DEF BeginCreate, BeginReschedule, BeginCancel, BeginStatus
    <3> QED
      BY <1>1, <2>2, <2>4, <3>1 DEF Replied
  <2> QED
    BY <2>0, <2>3, <2>4 DEF BeginReschedule, BeginCancel, BeginStatus
<1>4. CASE AdmitCreate(c) \/ AcquireDay(c) \/ LockRow(c) \/ Decide(c) \/ Abort(c)
  <2>1. CASE AdmitCreate(c) \/ Abort(c)
    <3>1. \/ Proceed(c, "locking")
          \/ \E reason \in {"QUOTA_EXCEEDED", "STAFF_UNAVAILABLE", "ERROR"} :
               Refuse(c, reason)
      BY <2>1 DEF AdmitCreate, Abort
    <3>2. {"QUOTA_EXCEEDED", "STAFF_UNAVAILABLE", "ERROR"} \subseteq Reason
      BY DEF Reason
    <3> QED
      BY <1>1, <1>2, <3>1, <3>2 DEF Replied
  <2>2. CASE AcquireDay(c)
    <3>1. UNCHANGED reply /\ pc'[c] # "done"
      BY <2>2 DEF AcquireDay, TypeOK, ProgressType
    <3> QED
      BY <3>1 DEF Replied
  <2>3. CASE LockRow(c)
    <3>1. \/ Refuse(c, "INVALID_BOOKING_STATE")
          \/ pc' = [pc EXCEPT ![c] = "decide"] /\ UNCHANGED reply
      BY <2>3 DEF LockRow
    <3> QED
      BY <1>2, <3>1 DEF Replied, TypeOK, ProgressType, Reason
  <2>4. CASE Decide(c)
    <3>1. Proceed(c, "commit") \/ \E reason \in Reason : Refuse(c, reason)
      BY <2>4, DecideReason
    <3> QED
      BY <1>1, <1>2, <3>1 DEF Replied
  <2> QED
    BY <1>4, <2>1, <2>2, <2>3, <2>4
<1>5. CASE CommitCreate(c) \/ CommitReschedule(c) \/ CommitCancel(c) \/ CommitStatus(c)
  <2>1. /\ UNCHANGED req
        /\ CommitCreate(c) => req[c].op = "create"
        /\ ~CommitCreate(c) => req[c].op # "create"
    BY <1>5 DEF CommitCreate, CommitReschedule, CommitCancel, CommitStatus, local
  <2>2. \A reason : reason \notin Success /\ Refuse(c, reason) => Replied(c)
    BY DEF Refuse, Replied
  <2> QED
    BY <1>5, <2>1, <2>2, CommitShapes DEF Replied
<1> QED
  BY <1>3, <1>4, <1>5 DEF Continue

-----------------------------------------------------------------------------
(* What stays                                                              *)

LEMMA OthersReply ==
  ASSUME TypeOK, NEW c \in Call, Replied(c), NEW d \in Call \ {c}
  PROVE  reply'[d] = reply[d]
  BY DEF Replied, Created, Answer, TypeOK, ProgressType

(* A request, and the booking it is about, do not change once the call has *)
(* begun; an answer does not change once it is given.                      *)
LEMMA Stays ==
  ASSUME TypeOK, CallOK, [Next]_vars
  PROVE  /\ \A c \in Call : pc[c] # "idle" =>
              pc'[c] # "idle" /\ req'[c] = req[c] /\ target'[c] = target[c]
         /\ \A c \in Call : pc[c] = "done" => pc'[c] = "done" /\ reply'[c] = reply[c]
         /\ \A b \in Booking : Exists(b) => Exists(b)' /\ Made(b)' = Made(b)
<1>1. ASSUME NEW c \in Call, Start(c) \/ Continue(c) \/ Abort(c)
      PROVE  /\ \A d \in Call : pc[d] # "idle" =>
                  pc'[d] # "idle" /\ req'[d] = req[d] /\ target'[d] = target[d]
             /\ \A d \in Call : pc[d] = "done" => pc'[d] = "done" /\ reply'[d] = reply[d]
             /\ \A b \in Booking : Exists(b) => Exists(b)'
  <2>1. Frame(c) /\ Replied(c)
    BY <1>1, CallFrame, StepReplied
  <2>2. pc[c] # "done" /\ pc'[c] # "idle"
    <3>1. pc[c] # "done"
      BY <1>1 DEF Start, Continue, Abort, BeginCreate, BeginReschedule, BeginCancel,
                  BeginStatus, Begin, AdmitCreate, AcquireDay, LockRow, Decide,
                  CommitCreate, CommitReschedule, CommitCancel, CommitStatus
    <3>2. \A kind, b : Answer(c, kind, b) => pc'[c] = "done"
      BY DEF Answer, TypeOK, ProgressType
    <3>3. \A label : Proceed(c, label) => pc'[c] = label
      BY DEF Proceed, TypeOK, ProgressType
    <3>4. CASE Start(c)
      <4>1. \/ \E label \in {"admission", "locking", "write"} : Proceed(c, label)
            \/ \E kind, b : Answer(c, kind, b)
        BY <3>4 DEF Start, BeginCreate, BeginReschedule, BeginCancel, BeginStatus
      <4> QED
        BY <3>1, <3>2, <3>3, <4>1
    <3>5. CASE AdmitCreate(c) \/ Decide(c) \/ Abort(c)
      BY <3>1, <3>2, <3>3, <3>5 DEF AdmitCreate, Decide, Abort, Refuse
    <3>6. CASE AcquireDay(c)
      BY <3>1, <3>6 DEF AcquireDay, TypeOK, ProgressType
    <3>7. CASE LockRow(c)
      BY <3>1, <3>2, <3>7 DEF LockRow, Refuse, TypeOK, ProgressType
    <3>8. CASE CommitCreate(c) \/ CommitReschedule(c) \/ CommitCancel(c) \/ CommitStatus(c)
      BY <3>1, <3>2, <3>8 DEF CommitCreate, CommitReschedule, CommitCancel, CommitStatus,
                              Refuse
    <3> QED
      BY <1>1, <3>1, <3>4, <3>5, <3>6, <3>7, <3>8 DEF Continue
  <2> QED
    BY <2>1, <2>2, OthersReply DEF Frame
<1>2. ASSUME UNCHANGED <<pc, req, target, reply, row>>
      PROVE  /\ \A d \in Call : pc[d] # "idle" =>
                  pc'[d] # "idle" /\ req'[d] = req[d] /\ target'[d] = target[d]
             /\ \A d \in Call : pc[d] = "done" => pc'[d] = "done" /\ reply'[d] = reply[d]
             /\ \A b \in Booking : Exists(b) => Exists(b)'
  BY <1>2 DEF Exists
<1>3. /\ \A c \in Call : pc[c] # "idle" =>
           pc'[c] # "idle" /\ req'[c] = req[c] /\ target'[c] = target[c]
      /\ \A c \in Call : pc[c] = "done" => pc'[c] = "done" /\ reply'[c] = reply[c]
      /\ \A b \in Booking : Exists(b) => Exists(b)'
  <2>1. CASE \E c \in Call : Start(c) \/ Continue(c) \/ Abort(c)
    BY <1>1, <2>1
  <2>2. CASE UNCHANGED <<pc, req, target, reply, row>>
    BY <1>2, <2>2
  <2> QED
    BY <2>1, <2>2, WorkSets DEF Next, Rest, Tick, vars, db, local
<1>4. ASSUME NEW b \in Booking, Exists(b) PROVE Made(b)' = Made(b)
  <2>1. b \notin Seed => b \in Call /\ pc[b] # "idle"
    BY <1>4 DEF Booking, CallOK, OneCallOK
  <2> QED
    BY <1>3, <2>1 DEF Made
<1> QED
  BY <1>3, <1>4

-----------------------------------------------------------------------------
(* The items are those of the row                                          *)

PlanMatches(c) ==
  pc[c] = "commit" =>
    plan[c].items = ChainIntervals(req[c].start, Parts[Made(target[c]).menu], plan[c].staff)

Matching == ItemsMatchRow /\ \A c \in Call : PlanMatches(c)

LEMMA DecidePlan ==
  ASSUME TypeOK, CallOK, NEW c \in Call, Decide(c), Proceed(c, "commit")
  PROVE  plan'[c].items = ChainIntervals(req[c].start, Parts[Made(target[c]).menu],
                                         plan'[c].staff)
<1> DEFINE b        == target[c]
           query    == Query(c, Made(b).menu)
           occupied == Occupied(b, ChainOccupiedStart(query.at, query.parts),
                                ChainOccupiedEnd(query.at, query.parts))
           verdict  == Verdict(query, Rules, Duty, Open[DayOf(query.at)], occupied)
<1>1. verdict = "OK"
  <2>1. verdict = "OK" \/ \E kind : Refuse(c, kind)
    BY DEF Decide
  <2>2. ~ \E kind : Refuse(c, kind)
    BY DEF Refuse, Answer, Proceed, TypeOK, ProgressType
  <2> QED
    BY <2>1, <2>2
<1>2. \E s, card :
        plan' = [plan EXCEPT ![c] =
                   [staff |-> s, items |-> ChainIntervals(query.at, query.parts, s),
                    card |-> card]]
  <2>1. IF verdict # "OK" THEN Refuse(c, verdict) /\ UNCHANGED plan
        ELSE \E s \in Assignable(c, query, occupied) :
               plan' = [plan EXCEPT ![c] =
                 [staff |-> s, items |-> ChainIntervals(query.at, query.parts, s),
                  card |-> Made(b).contact = None \/ cards[Made(b).contact] = 0]]
    BY DEF Decide
  <2> HIDE DEF verdict, query, occupied
  <2> QED
    BY <1>1, <2>1
<1>3. query.at = req[c].start /\ query.parts = Parts[Made(b).menu]
  BY DEF Query
<1> HIDE DEF query, b
<1>4. plan'[c].items = ChainIntervals(query.at, query.parts, plan'[c].staff)
  BY <1>2 DEF TypeOK, ProgressType
<1> QED
  BY <1>3, <1>4 DEF b

LEMMA StepPlanMatches ==
  ASSUME TypeOK, CallOK, [Next]_vars, NEW d \in Call, PlanMatches(d)
  PROVE  PlanMatches(d)'
<1> SUFFICES ASSUME pc'[d] = "commit"
             PROVE  plan'[d].items = ChainIntervals(req'[d].start,
                                       Parts[Made(target[d])'.menu], plan'[d].staff)
  BY DEF PlanMatches
<1>1. ASSUME pc[d] \in {"decide", "commit"}
      PROVE  /\ req'[d] = req[d] /\ target'[d] = target[d]
             /\ Made(target[d])' = Made(target[d])
  <2>1. req'[d] = req[d] /\ target'[d] = target[d]
    BY <1>1, Stays
  <2>2. CASE Exists(target[d])
    BY <1>1, <2>1, <2>2, Stays DEF CallOK, OneCallOK, Made
  <2>3. CASE target[d] = d
    BY <2>1, <2>3, NamesAssumption DEF Made
  <2> QED
    BY <1>1, <2>1, <2>2, <2>3 DEF CallOK, OneCallOK
<1>2. CASE pc[d] = "commit" /\ plan'[d] = plan[d]
  BY <1>1, <1>2 DEF PlanMatches
<1>3. CASE Decide(d) /\ Proceed(d, "commit")
  <2>1. pc[d] = "decide"
    BY <1>3 DEF Decide
  <2> QED
    BY <1>1, <1>3, <2>1, DecidePlan
<1>4. ASSUME NEW c \in Call, Start(c) \/ Continue(c) \/ Abort(c)
      PROVE  (pc[d] = "commit" /\ plan'[d] = plan[d]) \/ (Decide(d) /\ Proceed(d, "commit"))
  <2>1. CASE d # c
    BY <1>4, <2>1, CallFrame, LocksKept DEF Frame
  <2>2. CASE d = c
    BY <1>4, <2>2, OwnPath
  <2> QED
    BY <2>1, <2>2
<1>5. CASE UNCHANGED <<pc, plan>>
  BY <1>2, <1>5
<1> QED
  BY <1>2, <1>3, <1>4, <1>5, WorkSets DEF Next, Rest, Tick, vars, local

Written(c, status) ==
  [status |-> status, start |-> req[c].start, staff |-> plan[c].staff]

LEMMA StepItems ==
  ASSUME TypeOK, CallOK, Matching, [Next]_vars
  PROVE  ItemsMatchRow'
<1>1. row \in [Booking -> Row] /\ items \in [Booking -> SUBSET Interval]
  BY DEF TypeOK, DbType
<1>2. CASE Settles
  BY <1>2, Stays DEF Settles, visits, Matching, ItemsMatchRow, Exists
<1>3. ASSUME NEW c \in Call, NEW b \in Booking, b = target[c], pc[c] = "commit",
             Made(b)' = Made(b), NEW status,
             row' = [row EXCEPT ![b] = Written(c, status)],
             items' = [items EXCEPT ![b] = plan[c].items]
      PROVE  ItemsMatchRow'
  <2>1. /\ row'[b].start = req[c].start /\ row'[b].staff = plan[c].staff
        /\ items'[b] = plan[c].items
    BY <1>1, <1>3 DEF Written
  <2>2. items'[b] = ChainIntervals(row'[b].start, Parts[Made(b)'.menu], row'[b].staff)
    BY <1>3, <2>1 DEF Matching, PlanMatches
  <2>3. ASSUME NEW o \in Booking \ {b}, Exists(o)'
        PROVE  items'[o] = ChainIntervals(row'[o].start, Parts[Made(o)'.menu], row'[o].staff)
    <3>1. row'[o] = row[o] /\ items'[o] = items[o] /\ Exists(o)
      BY <1>1, <1>3, <2>3 DEF Exists
    <3> QED
      BY <3>1, Stays DEF Matching, ItemsMatchRow
  <2> QED
    BY <2>2, <2>3 DEF ItemsMatchRow
<1>4. ASSUME NEW c \in Call, Created(c) PROVE ItemsMatchRow'
  <2>1. /\ c \in Booking /\ target[c] = c /\ pc[c] = "commit"
        /\ row' = [row EXCEPT ![c] = Written(c, "CONFIRMED")]
        /\ items' = [items EXCEPT ![c] = plan[c].items]
    BY <1>4 DEF Created, Placed, Booking, Written
  <2>2. Made(c)' = Made(c)
    BY <2>1, Stays, NamesAssumption DEF Made
  <2> QED
    BY <1>3, <2>1, <2>2
<1>5. ASSUME NEW c \in Call, Rescheduled(c) PROVE ItemsMatchRow'
  <2>1. PICK b \in Booking : b = target[c]
    BY <1>5 DEF Rescheduled, Moved
  <2>2. /\ pc[c] = "commit" /\ row[b].status \in Live
        /\ row' = [row EXCEPT ![b] = Written(c, row[b].status)]
        /\ items' = [items EXCEPT ![b] = plan[c].items]
    BY <1>5, <2>1 DEF Rescheduled, Moved, MovedRow, Written
  <2>3. Made(b)' = Made(b)
    BY <2>2, Stays DEF Exists, Live
  <2> QED
    BY <1>3, <2>1, <2>2, <2>3
<1>6. ASSUME NEW c \in Call, NEW to \in Status, Changed(c, to) PROVE ItemsMatchRow'
  <2> DEFINE b == target[c]
  <2>1. b \in Booking /\ Exists(b) /\ row' = [row EXCEPT ![b].status = to] /\ items' = items
    BY <1>6 DEF Changed, Restated, WriteStatus
  <2>2. \A o \in Booking : row'[o].start = row[o].start /\ row'[o].staff = row[o].staff
    BY <1>1, <2>1 DEF Row
  <2>3. \A o \in Booking : Exists(o)' => Exists(o)
    BY <1>1, <2>1 DEF Exists
  <2> QED
    BY <2>1, <2>2, <2>3, Stays DEF Matching, ItemsMatchRow
<1> QED
  BY <1>2, <1>4, <1>5, <1>6, RecordSteps

LEMMA InitMatching == Init => Matching
<1> SUFFICES ASSUME Init PROVE Matching
  OBVIOUS
<1>1. ASSUME NEW b \in Booking, Exists(b)
      PROVE  items[b] = ChainIntervals(row[b].start, Parts[Made(b).menu], row[b].staff)
  <2>1. b \in Seed
    BY <1>1 DEF Init, Exists, NoRow
  <2>2. /\ row[b].start = SeedRequest[b].start /\ row[b].staff = SeedRequest[b].staff
        /\ items[b] = SeedItems(b) /\ Made(b) = SeedRequest[b]
    BY <2>1 DEF Init, Made
  <2> QED
    BY <2>2 DEF SeedItems
<1>2. \A c \in Call : pc[c] = "idle"
  BY DEF Init
<1> QED
  BY <1>1, <1>2 DEF Matching, ItemsMatchRow, PlanMatches

(***************************************************************************)
(* The intervals a booking occupies are those of the start and the staff   *)
(* member its row shows.  Both are written in one commit, but the plan is  *)
(* made in an earlier step: what the call decided is what it commits,      *)
(* because neither its request nor the booking it is about changes.        *)
(***************************************************************************)
THEOREM ItemsFollowRow == Spec => []ItemsMatchRow
<1>1. Init => TypeOK /\ CallOK /\ Matching
  BY InitType, InitCall, InitMatching
<1>2. TypeOK /\ CallOK /\ Matching /\ [Next]_vars => (TypeOK /\ CallOK /\ Matching)'
  BY StepType, StepCall, StepItems, StepPlanMatches DEF Matching
<1>3. Matching => ItemsMatchRow
  BY DEF Matching
<1> QED
  BY <1>1, <1>2, <1>3, PTL DEF Spec
-----------------------------------------------------------------------------
(* One key, one booking                                                    *)

KeysUnique ==
  \A b, o \in Booking :
    Exists(b) /\ Exists(o) /\ Made(b).key # None /\ Made(b).key = Made(o).key => b = o

(* A create that succeeded has answered with a booking of its own key.     *)
AnsweredByKey(c) ==
  /\ pc[c] # "done" => reply[c].kind = "NONE"
  /\ req[c].op = "create" /\ reply[c].kind \in Success =>
       /\ reply[c].booking \in Booking /\ Exists(reply[c].booking)
       /\ Made(reply[c].booking).key = req[c].key

Keyed == KeysUnique /\ \A c \in Call : AnsweredByKey(c)

LEMMA StepKeysUnique ==
  ASSUME TypeOK, CallOK, KeysUnique, [Next]_vars
  PROVE  KeysUnique'
<1> SUFFICES ASSUME NEW b \in Booking, NEW o \in Booking, Exists(b)', Exists(o)',
                    Made(b)'.key # None, Made(b)'.key = Made(o)'.key
             PROVE  b = o
  BY DEF KeysUnique
<1>1. row \in [Booking -> Row]
  BY DEF TypeOK, DbType
<1>2. CASE Exists(b) /\ Exists(o)
  BY <1>2, Stays DEF KeysUnique
<1>3. ASSUME NEW x \in Booking, NEW y \in Booking, ~Exists(x), Exists(x)', Exists(y)',
             Made(x)'.key # None, Made(x)'.key = Made(y)'.key
      PROVE  x = y
  <2>1. PICK c \in Call : Created(c) /\ x = c
    <3>1. CASE Settles
      BY <1>3, <3>1 DEF Settles, visits, Exists
    <3>2. ASSUME NEW c \in Call, Created(c) PROVE x = c
      BY <1>1, <1>3, <3>2 DEF Created, Placed, Exists
    <3>3. ASSUME NEW c \in Call, Rescheduled(c) PROVE FALSE
      BY <1>1, <1>3, <3>3 DEF Rescheduled, Moved, MovedRow, Exists
    <3>4. ASSUME NEW c \in Call, NEW to, Changed(c, to) PROVE FALSE
      BY <1>1, <1>3, <3>4 DEF Changed, Restated, WriteStatus, Exists
    <3> QED
      BY <3>1, <3>2, <3>3, <3>4, RecordSteps
  <2>2. KeyHolders(req[c].key) = {} /\ pc[c] = "commit"
    BY <2>1 DEF Created, Placed
  <2>3. Made(x)' = req[c]
    BY <2>1, <2>2, Stays, NamesAssumption DEF Made
  <2>4. CASE y # x
    <3>1. Exists(y)
      BY <1>1, <1>3, <2>1, <2>4 DEF Created, Placed, Exists
    <3>2. y \in KeyHolders(req[c].key)
      BY <1>3, <2>3, <3>1, Stays DEF KeyHolders
    <3> QED
      BY <2>2, <3>2
  <2> QED
    BY <2>4
<1> QED
  BY <1>2, <1>3

LEMMA StepAnswered ==
  ASSUME TypeOK, CallOK, [Next]_vars, NEW d \in Call, AnsweredByKey(d)
  PROVE  AnsweredByKey(d)'
<1>1. CASE reply'[d] = reply[d] /\ pc[d] = "done"
  <2>1. pc'[d] = "done" /\ req'[d] = req[d]
    BY <1>1, Stays
  <2>2. req[d].op = "create" /\ reply[d].kind \in Success =>
          /\ Exists(reply[d].booking)'
          /\ Made(reply[d].booking)'.key = req[d].key
    <3> SUFFICES ASSUME req[d].op = "create" /\ reply[d].kind \in Success,
                        NEW b, b = reply[d].booking
                 PROVE  Exists(b)' /\ Made(b)'.key = req[d].key
      BY <1>1 DEF Exists, Made
    <3>1. b \in Booking /\ Exists(b) /\ Made(b).key = req[d].key
      BY DEF AnsweredByKey
    <3> QED
      BY <3>1, Stays
  <2> QED
    BY <1>1, <2>1, <2>2 DEF AnsweredByKey
<1>2. CASE reply'[d] = reply[d] /\ pc[d] # "done" /\ pc'[d] # "done"
  BY <1>2 DEF AnsweredByKey, Success
<1>3. ASSUME Start(d) \/ Continue(d) \/ Abort(d)
      PROVE  AnsweredByKey(d)'
  <2>1. Replied(d)
    BY <1>3, StepReplied
  <2>2. \A kind, b : Answer(d, kind, b) => /\ pc'[d] = "done"
                                           /\ reply'[d].kind = kind /\ reply'[d].booking = b
    BY DEF Answer, TypeOK, ProgressType
  <2>3. ASSUME NEW kind, kind \notin Success, Answer(d, kind, None) PROVE AnsweredByKey(d)'
    BY <2>2, <2>3 DEF AnsweredByKey
  <2>4. CASE req'[d].op # "create" /\ \E kind, b : Answer(d, kind, b)
    BY <2>2, <2>4 DEF AnsweredByKey
  <2>5. ASSUME NEW b \in KeyHolders(req'[d].key), Answer(d, "REPLAY", b)
        PROVE  AnsweredByKey(d)'
    <3>1. b \in Booking /\ Exists(b) /\ Made(b).key = req'[d].key
      BY <2>5 DEF KeyHolders
    <3>2. Exists(b)' /\ Made(b)'.key = req'[d].key
      BY <3>1, Stays
    <3>3. pc'[d] = "done" /\ reply'[d].booking = b
      BY <2>2, <2>5
    <3> QED
      BY <3>1, <3>2, <3>3 DEF AnsweredByKey, Exists, Made
  <2>6. CASE Created(d) /\ Answer(d, "OK", d)
    <3>1. d \in Booking /\ pc[d] = "commit" /\ row'[d].status = "CONFIRMED"
      BY <2>6 DEF Created, Placed, Booking, TypeOK, DbType
    <3>2. Made(d)' = req'[d]
      BY NamesAssumption DEF Made
    <3>3. pc'[d] = "done" /\ reply'[d].booking = d
      BY <2>2, <2>6
    <3> QED
      BY <3>1, <3>2, <3>3 DEF AnsweredByKey, Exists, Made
  <2>7. CASE UNCHANGED reply /\ pc'[d] # "done"
    BY <1>2, <2>7, Stays
  <2> QED
    BY <2>1, <2>3, <2>4, <2>5, <2>6, <2>7 DEF Replied
<1>4. ASSUME NEW c \in Call, Start(c) \/ Continue(c) \/ Abort(c)
      PROVE  AnsweredByKey(d)'
  <2>1. CASE d # c
    <3>1. pc'[d] = pc[d] /\ reply'[d] = reply[d]
      BY <1>4, <2>1, CallFrame, StepReplied, OthersReply DEF Frame
    <3> QED
      BY <1>1, <1>2, <3>1
  <2> QED
    BY <1>3, <1>4, <2>1
<1>5. CASE UNCHANGED <<pc, reply>>
  BY <1>1, <1>2, <1>5
<1> QED
  BY <1>4, <1>5, WorkSets DEF Next, Rest, Tick, vars

LEMMA InitKeyed == Init => Keyed
<1> SUFFICES ASSUME Init PROVE Keyed
  OBVIOUS
<1>1. KeysUnique
  <2>1. \A b \in Booking : Exists(b) => b \in Seed /\ Made(b) = SeedRequest[b]
    BY DEF Init, Exists, NoRow, Made
  <2> QED
    BY <2>1, SeedAssumption DEF KeysUnique
<1>2. \A c \in Call : AnsweredByKey(c)
  BY DEF Init, AnsweredByKey, NoReply, Success
<1> QED
  BY <1>1, <1>2 DEF Keyed

(***************************************************************************)
(* Requests with one idempotency key are answered with one booking, at     *)
(* whichever of the two lookups, or at the insert, they meet it.           *)
(***************************************************************************)
THEOREM OneBookingPerKey == Spec => []KeyNamesOneBooking
<1>1. Init => TypeOK /\ CallOK /\ Keyed
  BY InitType, InitCall, InitKeyed
<1>2. TypeOK /\ CallOK /\ Keyed /\ [Next]_vars => (TypeOK /\ CallOK /\ Keyed)'
  BY StepType, StepCall, StepKeysUnique, StepAnswered DEF Keyed
<1>3. Keyed => KeyNamesOneBooking
  BY DEF Keyed, KeysUnique, AnsweredByKey, KeyNamesOneBooking
<1> QED
  BY <1>1, <1>2, <1>3, PTL DEF Spec

-----------------------------------------------------------------------------
(* The notices that wait                                                   *)

(* A job was written by a call that is done, or with a seed, and is about  *)
(* a booking there is.                                                     *)
Posted(o) ==
  \A k \in JobKind : Waits(o, k) =>
    /\ o \in Seed \/ pc[o] = "done"
    /\ About(o) \in Booking /\ Exists(About(o))

(* The two properties, of jobs that wait or may be put back: what a        *)
(* booking no longer finds waiting when it moves or dies is overtaken.     *)
Binding(o, k) == Waits(o, k) /\ <<o, k>> \notin overtaken

NothingStale ==
  \A o \in Booking, k \in JobKind :
    Binding(o, k) /\ Announces(o, k) => row[About(o)].status \notin Dead

OneReminder ==
  \A o \in Booking : Binding(o, "REMINDER") =>
    /\ row[About(o)].start = Made(o).start
    /\ \A p \in Booking : Binding(p, "REMINDER") /\ About(p) = About(o) => p = o

Notices == (\A o \in Booking : Posted(o)) /\ NothingStale /\ OneReminder

(* What waits, and what binds, after PostJobs.                             *)
LEMMA JobsPosted ==
  ASSUME NEW c \in Call, NEW b, NEW voided, NEW posted, PostJobs(c, b, voided, posted),
         NEW o \in Booking, NEW k \in JobKind, Waits(o, k)'
  PROVE  \/ o = c /\ k \in posted
         \/ /\ o # c /\ Waits(o, k)
            /\ Binding(o, k)' => Binding(o, k) /\ ~(About(o) = b /\ k \in voided)
<1>1. jobs'[o][k] = IF o = c THEN (IF k \in posted THEN "PENDING" ELSE "NONE")
                    ELSE IF Voids(o, k, b, voided) THEN "CANCELLED" ELSE jobs[o][k]
  BY DEF PostJobs
<1>2. CASE o = c
  BY <1>1, <1>2 DEF Waits, Underway
<1>3. CASE o # c
  <2>1. ~Voids(o, k, b, voided) /\ jobs'[o][k] = jobs[o][k]
    BY <1>1, <1>3 DEF Waits, Underway
  <2>2. Escapes(o, k, b, voided) => <<o, k>> \in overtaken'
    BY DEF PostJobs
  <2>3. <<o, k>> \in overtaken => <<o, k>> \in overtaken'
    BY DEF PostJobs
  <2>4. Waits(o, k)
    BY <2>1 DEF Waits
  <2> QED
    BY <1>3, <2>1, <2>2, <2>3, <2>4 DEF Waits, Binding, Voids, Escapes
<1> QED
  BY <1>2, <1>3

(* What the writer of a waiting job knows does not change any more.        *)
LEMMA WriterKept ==
  ASSUME TypeOK, CallOK, [Next]_vars, NEW o \in Booking, o \in Seed \/ pc[o] = "done"
  PROVE  /\ About(o)' = About(o) /\ Made(o)' = Made(o)
         /\ o \in Seed \/ pc'[o] = "done"
         /\ \A k : Announces(o, k)' = Announces(o, k)
<1>1. CASE o \in Seed
  BY <1>1 DEF About, Made, Announces
<1>2. CASE o \notin Seed
  <2>1. o \in Call /\ pc[o] = "done"
    BY <1>2 DEF Booking
  <2>2. pc'[o] = "done" /\ req'[o] = req[o] /\ target'[o] = target[o]
    BY <2>1, Stays
  <2> QED
    BY <1>2, <2>2 DEF About, Made, Announces
<1> QED
  BY <1>1, <1>2

(* A commit of c about booking b: a booking that ends voids all it finds   *)
(* waiting, one that moves voids the reminder, and a reminder is written   *)
(* for the start the row now has.                                          *)
LEMMA NoticesWrite ==
  ASSUME TypeOK, CallOK, Notices, [Next]_vars,
         NEW c \in Call, NEW b \in Booking, NEW voided, NEW posted,
         PostJobs(c, b, voided, posted),
         pc'[c] = "done", target'[c] = b, Exists(b)',
         \A o \in Booking \ {b} : row'[o] = row[o],
         row'[b].status \in Dead =>
           voided = JobKind /\ \A k \in posted : ~Announces(c, k)',
         row'[b].start = row[b].start \/ "REMINDER" \in voided \/ ~Exists(b),
         "REMINDER" \in posted =>
           /\ row'[b].start = req'[c].start
           /\ "REMINDER" \in voided \/ ~Exists(b)
  PROVE  Notices'
<1> DEFINE Old(o, k) == /\ o # c /\ Waits(o, k)
                        /\ Binding(o, k)' =>
                             Binding(o, k) /\ ~(About(o) = b /\ k \in voided)
<1>1. /\ \A o \in Booking, k \in JobKind :
           Waits(o, k)' => (o = c /\ k \in posted) \/ Old(o, k)
      /\ \A o, k : Binding(o, k)' => Waits(o, k)'
  BY JobsPosted DEF Binding
<1>2. /\ About(c)' = b /\ Made(c)' = req'[c] /\ c \in Booking /\ c \notin Seed
  BY NamesAssumption DEF About, Made, Booking
<1>3. ASSUME NEW o \in Booking, NEW k \in JobKind, Old(o, k)
      PROVE  /\ About(o)' = About(o) /\ Made(o)' = Made(o)
             /\ Announces(o, k)' = Announces(o, k)
             /\ o \in Seed \/ pc'[o] = "done"
             /\ About(o) \in Booking /\ Exists(About(o))
  BY <1>3, WriterKept DEF Notices, Posted
<1>4. ASSUME NEW o \in Booking PROVE Posted(o)'
  <2> SUFFICES ASSUME NEW k \in JobKind, Waits(o, k)'
               PROVE  /\ o \in Seed \/ pc'[o] = "done"
                      /\ About(o)' \in Booking /\ Exists(About(o))'
    BY DEF Posted
  <2>1. CASE o = c
    BY <1>2, <2>1 DEF Exists
  <2>2. CASE Old(o, k)
    <3>1. PICK a \in Booking : a = About(o) /\ Exists(a)
      BY <1>3, <2>2
    <3>2. Exists(a)' /\ About(o)' = a
      BY <1>3, <2>2, <3>1, Stays
    <3> QED
      BY <1>3, <2>2, <3>2 DEF Exists
  <2> QED
    BY <1>1, <2>1, <2>2
<1>5. ASSUME NEW o \in Booking, NEW k \in JobKind, Binding(o, k)', Announces(o, k)'
      PROVE  row'[About(o)'].status \notin Dead
  <2>1. CASE o = c /\ k \in posted
    BY <1>2, <1>5, <2>1
  <2>2. CASE Old(o, k)
    <3>1. row[About(o)].status \notin Dead /\ About(o)' = About(o) /\ About(o) \in Booking
      BY <1>3, <1>5, <2>2 DEF Notices, NothingStale
    <3> QED
      BY <1>5, <2>2, <3>1
  <2> QED
    BY <1>1, <1>5, <2>1, <2>2
<1>6. "REMINDER" \in JobKind
  BY DEF JobKind
<1>7. ASSUME NEW o \in Booking, Binding(o, "REMINDER")'
      PROVE  row'[About(o)'].start = Made(o)'.start
  <2>1. CASE o = c /\ "REMINDER" \in posted
    BY <1>2, <2>1
  <2>2. CASE Old(o, "REMINDER")
    <3>1. /\ row[About(o)].start = Made(o).start
          /\ About(o)' = About(o) /\ Made(o)' = Made(o)
          /\ About(o) \in Booking /\ Exists(About(o))
      BY <1>3, <1>6, <1>7, <2>2 DEF Notices, OneReminder
    <3> QED
      BY <1>7, <2>2, <3>1
  <2> QED
    BY <1>1, <1>6, <1>7, <2>1, <2>2
<1>8. ASSUME NEW o \in Booking, NEW p \in Booking,
             Binding(o, "REMINDER")', Binding(p, "REMINDER")',
             About(p)' = About(o)', o # c
      PROVE  p = o
  <2>1. Old(o, "REMINDER")
    BY <1>1, <1>6, <1>8
  <2>2. CASE Old(p, "REMINDER")
    BY <1>3, <1>6, <1>8, <2>1, <2>2 DEF Notices, OneReminder
  <2>3. CASE p = c /\ "REMINDER" \in posted
    <3>1. About(o) = b /\ Exists(b)
      BY <1>2, <1>3, <1>6, <1>8, <2>1, <2>3
    <3> QED
      BY <1>8, <2>1, <2>3, <3>1
  <2> QED
    BY <1>1, <1>6, <1>8, <2>2, <2>3
<1>9. NothingStale'
  BY <1>5 DEF NothingStale
<1>10. OneReminder'
  <2> SUFFICES ASSUME NEW o \in Booking, NEW p \in Booking,
                      Binding(o, "REMINDER")'
               PROVE  /\ row'[About(o)'].start = Made(o)'.start
                      /\ Binding(p, "REMINDER")' /\ About(p)' = About(o)' => p = o
    BY DEF OneReminder
  <2>1. row'[About(o)'].start = Made(o)'.start
    BY <1>7
  <2>2. ASSUME Binding(p, "REMINDER")', About(p)' = About(o)', p # o PROVE FALSE
    <3>1. CASE o # c
      BY <1>8, <2>2, <3>1
    <3>2. CASE p # c
      BY <1>8, <2>2, <3>2
    <3> QED
      BY <2>2, <3>1, <3>2
  <2> QED
    BY <2>1, <2>2
<1> QED
  BY <1>4, <1>9, <1>10 DEF Notices

LEMMA StepNotices ==
  ASSUME TypeOK, CallOK, Notices, [Next]_vars
  PROVE  Notices'
<1>1. row \in [Booking -> Row]
  BY DEF TypeOK, DbType
<1>2. CASE Settles
  <2>1. /\ row' = row
        /\ \A o \in Booking, k \in JobKind :
             (Waits(o, k)' => Waits(o, k)) /\ (Binding(o, k)' => Binding(o, k))
    BY <1>2 DEF Settles, visits, Binding
  <2>2. ASSUME NEW o \in Booking, NEW k \in JobKind, Waits(o, k)
        PROVE  /\ About(o)' = About(o) /\ Made(o)' = Made(o)
               /\ Announces(o, k)' = Announces(o, k)
               /\ o \in Seed \/ pc'[o] = "done"
               /\ About(o) \in Booking /\ Exists(About(o))
    BY <2>2, WriterKept DEF Notices, Posted
  <2>3. "REMINDER" \in JobKind
    BY DEF JobKind
  <2>4. \A o \in Booking : Posted(o)'
    BY <2>1, <2>2 DEF Posted, Exists
  <2>5. NothingStale'
    BY <2>1, <2>2 DEF Notices, NothingStale, Binding
  <2>6. OneReminder'
    BY <2>1, <2>2, <2>3 DEF Notices, OneReminder, Binding
  <2> QED
    BY <2>4, <2>5, <2>6 DEF Notices
<1>3. ASSUME NEW c \in Call, Created(c) PROVE Notices'
  <2>1. PICK posted : PostJobs(c, c, {}, posted)
    BY <1>3 DEF Created
  <2>2. /\ c \in Booking /\ target[c] = c /\ pc[c] = "commit" /\ pc'[c] = "done" /\ ~Exists(c)
        /\ row' = [row EXCEPT ![c] = [status |-> "CONFIRMED", start |-> req[c].start,
                                      staff |-> plan[c].staff]]
    BY <1>3 DEF Created, Placed, Booking
  <2>3. target'[c] = c /\ req'[c] = req[c]
    BY <2>2, Stays
  <2>4. /\ row'[c].status = "CONFIRMED" /\ row'[c].start = req[c].start
        /\ \A o \in Booking \ {c} : row'[o] = row[o]
    BY <1>1, <2>2
  <2>5. Exists(c)' /\ row'[c].status \notin Dead
    BY <2>4 DEF Exists, Dead
  <2> QED
    BY <2>1, <2>2, <2>3, <2>4, <2>5, NoticesWrite
<1>4. ASSUME NEW c \in Call, Rescheduled(c) PROVE Notices'
  <2>1. PICK b \in Booking : b = target[c]
    BY <1>4 DEF Rescheduled, Moved
  <2>2. PICK posted : PostJobs(c, b, Superseded, posted)
    BY <1>4, <2>1 DEF Rescheduled
  <2>3. /\ pc[c] = "commit" /\ pc'[c] = "done" /\ row[b].status \in Live
        /\ row' = [row EXCEPT ![b] = MovedRow(c, b)]
    BY <1>4, <2>1 DEF Rescheduled, Moved
  <2>4. target'[c] = b /\ req'[c] = req[c]
    BY <2>1, <2>3, Stays
  <2>5. /\ row'[b].status = row[b].status /\ row'[b].start = req[c].start
        /\ \A o \in Booking \ {b} : row'[o] = row[o]
    BY <1>1, <2>3 DEF MovedRow
  <2>6. Exists(b)' /\ row'[b].status \notin Dead
    BY <2>3, <2>5 DEF Exists, Dead, Live
  <2>7. "REMINDER" \in Superseded
    BY DEF Superseded
  <2> QED
    BY <2>2, <2>3, <2>4, <2>5, <2>6, <2>7, NoticesWrite
<1>5. ASSUME NEW c \in Call, NEW to \in Status, Changed(c, to) PROVE Notices'
  <2>1. PICK b \in Booking : b = target[c]
    BY <1>5 DEF Changed, Restated
  <2>2. PICK voided, posted :
          /\ PostJobs(c, b, voided, posted)
          /\ to \in Dead => voided = JobKind
          /\ posted \subseteq {"CANCELLED", "MANAGER"}
          /\ "MANAGER" \in posted => req[c].op = "cancel"
    BY <1>5, <2>1 DEF Changed
  <2>3. /\ pc[c] = "write" /\ Exists(b) /\ row' = [row EXCEPT ![b].status = to]
    BY <1>5, <2>1 DEF Changed, Restated, WriteStatus
  <2>4. target'[c] = b /\ req'[c] = req[c]
    BY <2>1, <2>3, Stays
  <2>5. /\ row'[b].status = to /\ row'[b].start = row[b].start
        /\ \A o \in Booking \ {b} : row'[o] = row[o]
    BY <1>1, <2>3 DEF Row
  <2>6. Exists(b)' /\ "REMINDER" \notin posted
    BY <2>2, <2>3, Stays
  <2>7. pc'[c] = "done"
    BY <1>5 DEF Changed
  <2>8. \A k \in posted : ~Announces(c, k)'
    BY <2>2, <2>4, NamesAssumption DEF Announces
  <2> QED
    BY <2>2, <2>4, <2>5, <2>6, <2>7, <2>8, NoticesWrite
<1> QED
  BY <1>2, <1>3, <1>4, <1>5, RecordSteps

LEMMA InitNotices == Init => Notices
<1> SUFFICES ASSUME Init PROVE Notices
  OBVIOUS
<1>1. \A o \in Booking : (\E k \in JobKind : Waits(o, k)) => o \in Seed
  BY DEF Init, NoJobs, Waits, Underway
<1>2. \A o \in Seed : /\ row[o].status = "CONFIRMED" /\ row[o].start = SeedRequest[o].start
                       /\ About(o) = o /\ Made(o) = SeedRequest[o] /\ o \in Booking
  BY DEF Init, About, Made, Booking
<1>3. "REMINDER" \in JobKind
  BY DEF JobKind
<1>4. \A o \in Booking : Posted(o)
  BY <1>1, <1>2 DEF Posted, Exists
<1>5. NothingStale
  BY <1>1, <1>2 DEF NothingStale, Binding, Dead
<1>6. OneReminder
  BY <1>1, <1>2, <1>3 DEF OneReminder, Binding
<1> QED
  BY <1>4, <1>5, <1>6 DEF Notices

LEMMA NoticesKept == Spec => []Notices
<1>1. Init => TypeOK /\ CallOK /\ Notices
  BY InitType, InitCall, InitNotices
<1>2. TypeOK /\ CallOK /\ Notices /\ [Next]_vars => (TypeOK /\ CallOK /\ Notices)'
  BY StepType, StepCall, StepNotices
<1> QED
  BY <1>1, <1>2, PTL DEF Spec

(***************************************************************************)
(* Once a booking is cancelled or a no-show nothing waits that announces   *)
(* it, not even what a reschedule wrote that began before, except what the *)
(* worker had claimed or given up by then.  The invariant is about the     *)
(* jobs under way as well: the worker and the operator put them back.      *)
(***************************************************************************)
THEOREM NoNoticeIsStale == Spec => []NoStaleNotice
<1>1. Notices => NoStaleNotice
  BY DEF Notices, NothingStale, NoStaleNotice, Binding, Waits
<1> QED
  BY <1>1, NoticesKept, PTL

(***************************************************************************)
(* A booking has one reminder waiting, computed for the start it has now,  *)
(* beside those claimed or given up when it moved.                         *)
(***************************************************************************)
THEOREM ReminderFollowsStart == Spec => []ReminderMatchesStart
<1>1. Notices => ReminderMatchesStart
  BY DEF Notices, OneReminder, ReminderMatchesStart, Binding, Waits, WrittenFor
<1> QED
  BY <1>1, NoticesKept, PTL

-----------------------------------------------------------------------------
(* The calendar is a ledger                                                *)

(* The two variables of BookingLedger, booking by booking.                 *)
PhaseOf(b) == IF ~Exists(b) THEN "new" ELSE IF OnCalendar(b) THEN "held" ELSE "gone"
CellsOf(b) == IF OnCalendar(b) THEN Cells(b) ELSE {}

LEMMA CellsAre ==
  ASSUME NEW b \in Booking, NEW x
  PROVE  x \in Cells(b) <=>
           \E iv \in items[b], t \in Instant :
             Covers(iv, t) /\ x = [at |-> t, svc |-> iv.svc, staff |-> iv.staff]
<1> DEFINE of(iv) == {[at |-> t, svc |-> iv.svc, staff |-> iv.staff] :
                        t \in {i \in Instant : Covers(iv, i)}}
<1>1. Cells(b) = UNION {of(iv) : iv \in items[b]}
  BY DEF Cells
<1>2. ASSUME NEW iv
      PROVE  x \in of(iv) <=> \E t \in Instant :
               Covers(iv, t) /\ x = [at |-> t, svc |-> iv.svc, staff |-> iv.staff]
  OBVIOUS
<1> HIDE DEF of
<1> QED
  BY <1>1, <1>2

LEMMA CellsAfter ==
  ASSUME NEW b \in Booking, NEW x \in Cells(b)'
  PROVE  \E iv \in items'[b], t \in Instant :
           Covers(iv, t) /\ x = [at |-> t, svc |-> iv.svc, staff |-> iv.staff]
  BY DEF Cells

(* Counting in the ledger is counting here: FiniteSets is instantiated     *)
(* with it.                                                                *)
LEMMA SameCount ==
  ASSUME NEW S
  PROVE  Ledger!Cardinality(S) = Cardinality(S)
<1>1. \A T : Ledger!IsFiniteSet(T) = IsFiniteSet(T)
  BY Zenon DEF Ledger!IsFiniteSet, IsFiniteSet
<1> QED
  BY <1>1, Zenon DEF Ledger!Cardinality, Cardinality, Ledger!IsFiniteSet, IsFiniteSet

LEMMA FitsWhen ==
  ASSUME NEW b, NEW cells,
         \A x \in cells : Cardinality(Ledger!HoldersAt(x.at) \ {b}) < Rules.shopCapacity,
         \A x \in cells :
           Cardinality(Ledger!HoldersFor(x.at, x.svc) \ {b}) < CapacityOf[x.svc],
         \A x \in cells : x.staff # NoStaff => Ledger!Serving(x.at, x.staff) \subseteq {b}
  PROVE  Ledger!Fits(b, cells)
<1>1. \A x \in cells : Ledger!Cardinality(Ledger!HoldersAt(x.at) \ {b}) < Rules.shopCapacity
  BY SameCount
<1>2. \A x \in cells :
        Ledger!Cardinality(Ledger!HoldersFor(x.at, x.svc) \ {b}) < CapacityOf[x.svc]
  BY SameCount
<1> QED
  BY <1>1, <1>2, Zenon DEF Ledger!Fits

(* What the ledger counts is what the capacity rules count.                *)
LEMMA LedgerCounts ==
  ASSUME TypeOK, NEW b \in Booking, NEW t \in Instant
  PROVE  /\ Ledger!HoldersAt(t) \ {b}
              = Using(Booking \ (revived \cup {b}), DOMAIN CapacityOf, t)
         /\ \A v : Ledger!HoldersFor(t, v) \ {b} = Using(Booking \ (revived \cup {b}), {v}, t)
         /\ \A s, o : o \in Ledger!Serving(t, s) =>
              o \in Booking /\ OnCalendar(o) /\ \E iv \in items[o] : iv.staff = s /\ Covers(iv, t)
<1>1. \A o \in Booking : \A iv \in items[o] : iv.svc \in DOMAIN CapacityOf
  BY DEF TypeOK, DbType, Interval
<1>2. ASSUME NEW o \in Booking
      PROVE  /\ (\E x \in CellsOf(o) : x.at = t)
                <=> OnCalendar(o) /\ \E iv \in items[o] : Covers(iv, t)
             /\ \A v : (\E x \in CellsOf(o) : x.at = t /\ x.svc = v)
                <=> OnCalendar(o) /\ \E iv \in items[o] : iv.svc = v /\ Covers(iv, t)
             /\ \A s : (\E x \in CellsOf(o) : x.at = t /\ x.staff = s)
                <=> OnCalendar(o) /\ \E iv \in items[o] : iv.staff = s /\ Covers(iv, t)
  <2>1. OnCalendar(o) => CellsOf(o) = Cells(o)
    BY DEF CellsOf
  <2>2. ~OnCalendar(o) => CellsOf(o) = {}
    BY DEF CellsOf
  <2>3. ASSUME NEW x \in Cells(o)
        PROVE  \E iv \in items[o] :
                 iv.svc = x.svc /\ iv.staff = x.staff /\ Covers(iv, x.at)
    BY CellsAre
  <2>4. ASSUME NEW iv \in items[o], Covers(iv, t)
        PROVE  \E x \in Cells(o) : x.at = t /\ x.svc = iv.svc /\ x.staff = iv.staff
    <3> DEFINE x == [at |-> t, svc |-> iv.svc, staff |-> iv.staff]
    <3>1. x \in Cells(o)
      BY <2>4, CellsAre
    <3> QED
      BY <3>1
  <2> QED
    BY <2>1, <2>2, <2>3, <2>4
<1>3. /\ Ledger!HoldersAt(t) = {o \in Booking : \E x \in CellsOf(o) : x.at = t}
      /\ \A v : Ledger!HoldersFor(t, v)
                  = {o \in Booking : \E x \in CellsOf(o) : x.at = t /\ x.svc = v}
      /\ \A s : Ledger!Serving(t, s)
                  = {o \in Booking : \E x \in CellsOf(o) : x.at = t /\ x.staff = s}
  BY DEF Ledger!HoldersAt, Ledger!HoldersFor, Ledger!Serving, CellsOf
<1>4. Ledger!HoldersAt(t) \ {b}
        = Using(Booking \ (revived \cup {b}), DOMAIN CapacityOf, t)
  BY <1>1, <1>2, <1>3 DEF Using, OnCalendar
<1>5. ASSUME NEW v
      PROVE  Ledger!HoldersFor(t, v) \ {b} = Using(Booking \ (revived \cup {b}), {v}, t)
  BY <1>2, <1>3 DEF Using, OnCalendar
<1>6. ASSUME NEW s, NEW o, o \in Ledger!Serving(t, s)
      PROVE  o \in Booking /\ OnCalendar(o) /\ \E iv \in items[o] : iv.staff = s /\ Covers(iv, t)
  BY <1>2, <1>3, <1>6
<1> QED
  BY <1>4, <1>5, <1>6

(* A visit fits in the ledger when it leaves every scope room for one more *)
(* booking and clashes with nobody's.                                      *)
LEMMA LedgerFits ==
  ASSUME TypeOK, NEW b \in Booking, NEW its \in SUBSET Interval, ~StaffClash(b, its),
         \A l \in Limits, t \in Instant :
           (\E iv \in its : iv.svc \in l.scope /\ Covers(iv, t)) =>
             Cardinality(Using(Booking \ (revived \cup {b}), l.scope, t)) < l.limit,
         NEW cells,
         \A x \in cells : \E iv \in its, t \in Instant :
           Covers(iv, t) /\ x = [at |-> t, svc |-> iv.svc, staff |-> iv.staff]
  PROVE  Ledger!Fits(b, cells)
<1>1. ASSUME NEW x \in cells
      PROVE  /\ Cardinality(Ledger!HoldersAt(x.at) \ {b}) < Rules.shopCapacity
             /\ Cardinality(Ledger!HoldersFor(x.at, x.svc) \ {b}) < CapacityOf[x.svc]
             /\ x.staff # NoStaff => Ledger!Serving(x.at, x.staff) \subseteq {b}
  <2>1. PICK iv \in its, t \in Instant :
          Covers(iv, t) /\ x = [at |-> t, svc |-> iv.svc, staff |-> iv.staff]
    OBVIOUS
  <2>2. x.at = t /\ x.svc = iv.svc /\ x.staff = iv.staff /\ iv.svc \in DOMAIN CapacityOf
    BY <2>1 DEF Interval
  <2>3. Cardinality(Ledger!HoldersAt(t) \ {b}) < Rules.shopCapacity
    <3> DEFINE l == [scope |-> DOMAIN CapacityOf, limit |-> Rules.shopCapacity]
    <3>1. l \in Limits /\ iv.svc \in l.scope
      BY <2>2 DEF Limits
    <3>2. Cardinality(Using(Booking \ (revived \cup {b}), l.scope, t)) < l.limit
      BY <2>1, <3>1
    <3> QED
      BY <3>2, LedgerCounts
  <2>4. Cardinality(Ledger!HoldersFor(t, iv.svc) \ {b}) < CapacityOf[iv.svc]
    <3> DEFINE l == [scope |-> {iv.svc}, limit |-> CapacityOf[iv.svc]]
    <3>1. l \in Limits /\ iv.svc \in l.scope
      BY <2>2 DEF Limits
    <3>2. Cardinality(Using(Booking \ (revived \cup {b}), l.scope, t)) < l.limit
      BY <2>1, <3>1
    <3> QED
      BY <3>2, LedgerCounts
  <2>5. ASSUME iv.staff # NoStaff, NEW o \in Ledger!Serving(t, iv.staff), o # b PROVE FALSE
    <3>1. PICK y \in items[o] : y.staff = iv.staff /\ Covers(y, t)
      BY <2>5, LedgerCounts
    <3>2. o \in Booking /\ active[o]
      BY <2>5, LedgerCounts DEF OnCalendar
    <3>3. y \in Interval /\ iv \in Interval /\ t \in Int
      BY <3>1, <3>2, RequestAssumption DEF TypeOK, DbType
    <3>4. Overlap(y, iv)
      BY <2>1, <3>1, <3>3 DEF Overlap, Covers, Interval
    <3> QED
      BY <2>5, <3>1, <3>2, <3>4 DEF StaffClash
  <2> QED
    BY <2>2, <2>3, <2>4, <2>5
<1> QED
  BY <1>1, FitsWhen

(* A revived booking is one that was there.                                *)
RevivedExist == \A b \in revived : b \in Booking /\ Exists(b)

LEMMA StepRevived ==
  ASSUME TypeOK, CallOK, RevivedExist, [Next]_vars
  PROVE  RevivedExist'
<1>1. CASE UNCHANGED visits
  BY <1>1 DEF visits, RevivedExist, Exists
<1>2. ASSUME revived' = revived PROVE RevivedExist'
  BY <1>2, Stays DEF RevivedExist
<1>3. ASSUME NEW b \in Booking, NEW to \in Status, Restated(b, to) PROVE RevivedExist'
  <2>1. revived' \subseteq revived \cup {b} /\ Exists(b)
    BY <1>3 DEF Restated, WriteStatus
  <2> QED
    BY <2>1, Stays DEF RevivedExist
<1> QED
  BY <1>1, <1>2, <1>3, CalendarSteps DEF Placed, Moved

LEMMA LedgerStutter ==
  ASSUME \A b \in Booking : PhaseOf(b)' = PhaseOf(b) /\ CellsOf(b)' = CellsOf(b)
  PROVE  UNCHANGED Ledger!vars
  BY DEF Ledger!vars, PhaseOf, CellsOf

(* The commit of a create places the booking, the commit of a reschedule   *)
(* moves it, or moves nothing that is on the calendar.                     *)
LEMMA LedgerWrite ==
  ASSUME TypeOK, CallOK, NoGhostOccupancy, CapacityInv, RevivedExist, [Next]_vars,
         NEW c \in Call, NEW b \in Booking, b = target[c], pc[c] = "commit",
         ~StaffClash(b, plan[c].items),
         items' = [items EXCEPT ![b] = plan[c].items],
         active' = [active EXCEPT ![b] = TRUE], revived' = revived,
         \A o \in Booking \ {b} : row'[o] = row[o], Exists(b)',
         Exists(b) => active[b]
  PROVE  [Ledger!Next]_(Ledger!vars)
<1>1. plan[c].items \in SUBSET Interval /\ active'[b] /\ items'[b] = plan[c].items
  BY DEF TypeOK, DbType, ProgressType, Plan
<1>2. ASSUME NEW o \in Booking \ {b}
      PROVE  PhaseOf(o)' = PhaseOf(o) /\ CellsOf(o)' = CellsOf(o)
  <2>1. row'[o] = row[o] /\ active'[o] = active[o] /\ items'[o] = items[o]
    BY DEF TypeOK, DbType
  <2> QED
    BY <2>1 DEF PhaseOf, CellsOf, Exists, OnCalendar, Cells
<1>3. CASE b \in revived
  <2>1. Exists(b) /\ Exists(b)' /\ ~OnCalendar(b) /\ ~OnCalendar(b)'
    BY <1>3 DEF RevivedExist, OnCalendar
  <2>2. PhaseOf(b)' = PhaseOf(b) /\ CellsOf(b)' = CellsOf(b)
    BY <2>1 DEF PhaseOf, CellsOf
  <2> QED
    BY <1>2, <2>2, LedgerStutter
<1>4. CASE b \notin revived
  <2>1. OnCalendar(b)' /\ CellsOf(b)' = Cells(b)' /\ PhaseOf(b)' = "held"
    BY <1>1, <1>4 DEF OnCalendar, CellsOf, PhaseOf
  <2>2. Ledger!Fits(b, CellsOf(b)')
    <3>1. Room(c)
      BY DEF CapacityInv, Prepared
    <3>2. \A x \in CellsOf(b)' : \E iv \in plan[c].items, t \in Instant :
            Covers(iv, t) /\ x = [at |-> t, svc |-> iv.svc, staff |-> iv.staff]
      BY <1>1, <2>1, CellsAfter
    <3> QED
      BY <1>1, <3>1, <3>2, LedgerFits DEF Room
  <2>3. CASE Exists(b)
    <3>1. PhaseOf(b) = "held"
      BY <1>4, <2>3 DEF PhaseOf, OnCalendar
    <3>2. Ledger!Move(b)
      BY <1>2, <2>1, <2>2, <3>1 DEF Ledger!Move, Ledger!OnlyChanges, PhaseOf, CellsOf
    <3> QED
      BY <3>2 DEF Ledger!Next
  <2>4. CASE ~Exists(b)
    <3>1. PhaseOf(b) = "new"
      BY <2>4 DEF PhaseOf
    <3>2. Ledger!Place(b)
      BY <1>2, <2>1, <2>2, <3>1 DEF Ledger!Place, Ledger!OnlyChanges, PhaseOf, CellsOf
    <3> QED
      BY <3>2 DEF Ledger!Next
  <2> QED
    BY <2>3, <2>4
<1> QED
  BY <1>3, <1>4

(* A status write takes its booking off the calendar or leaves the         *)
(* calendar as it is: it never puts one on it.                             *)
LEMMA LedgerStatus ==
  ASSUME TypeOK, CallOK, NoGhostOccupancy, [Next]_vars,
         NEW b \in Booking, NEW to \in Status, Restated(b, to)
  PROVE  [Ledger!Next]_(Ledger!vars)
<1>1. /\ row' = [row EXCEPT ![b].status = to] /\ items' = items
      /\ active' = [active EXCEPT ![b] = ActiveAfter(b, to)]
      /\ Exists(b) /\ Exists(b)'
  BY Stays DEF Restated, WriteStatus
<1>2. /\ revived \subseteq revived'
      /\ revived' \subseteq revived \cup {b}
      /\ row[b].status \notin Dead => revived' = revived
      /\ row[b].status \in Dead /\ to \notin Dead => b \in revived'
  BY DEF Restated, WriteStatus
<1>3. row'[b].status = to
  BY <1>1 DEF TypeOK, DbType
<1>4. /\ active[b] <=> row[b].status \notin Dead
      /\ active'[b] <=> to \notin Dead
  <2>1. NoGhostOccupancy'
    BY StepGhost
  <2> QED
    BY <1>1, <1>3, <2>1 DEF NoGhostOccupancy, Exists
<1>5. OnCalendar(b)' <=> OnCalendar(b) /\ to \notin Dead
  BY <1>2, <1>4 DEF OnCalendar
<1>6. ASSUME NEW o \in Booking \ {b}
      PROVE  PhaseOf(o)' = PhaseOf(o) /\ CellsOf(o)' = CellsOf(o)
  <2>1. row'[o] = row[o] /\ active'[o] = active[o] /\ items'[o] = items[o]
    BY <1>1 DEF TypeOK, DbType
  <2>2. OnCalendar(o)' = OnCalendar(o)
    BY <1>2, <2>1 DEF OnCalendar
  <2> QED
    BY <2>1, <2>2 DEF PhaseOf, CellsOf, Exists, Cells
<1>7. CASE OnCalendar(b) /\ to \in Dead
  <2>1. PhaseOf(b) = "held" /\ PhaseOf(b)' = "gone" /\ CellsOf(b)' = {}
    BY <1>1, <1>5, <1>7 DEF PhaseOf, CellsOf
  <2>2. Ledger!Free(b)
    BY <1>6, <2>1 DEF Ledger!Free, PhaseOf, CellsOf
  <2> QED
    BY <2>2 DEF Ledger!Next
<1>8. CASE OnCalendar(b)' <=> OnCalendar(b)
  <2>1. PhaseOf(b)' = PhaseOf(b) /\ CellsOf(b)' = CellsOf(b)
    BY <1>1, <1>8 DEF PhaseOf, CellsOf, Cells
  <2> QED
    BY <1>6, <2>1, LedgerStutter
<1> QED
  BY <1>5, <1>7, <1>8

LEMMA LedgerStep ==
  ASSUME TypeOK, CallOK, NoGhostOccupancy, CapacityInv, RevivedExist, [Next]_vars
  PROVE  [Ledger!Next]_(Ledger!vars)
<1>1. CASE UNCHANGED visits
  <2>1. \A b \in Booking : PhaseOf(b)' = PhaseOf(b) /\ CellsOf(b)' = CellsOf(b)
    BY <1>1 DEF visits, PhaseOf, CellsOf, Cells, OnCalendar, Exists
  <2> QED
    BY <2>1, LedgerStutter
<1>2. ASSUME NEW c \in Call, Placed(c) PROVE [Ledger!Next]_(Ledger!vars)
  <2>1. c \in Booking /\ c = target[c]
    BY <1>2 DEF Placed, CallOK, OneCallOK, Booking
  <2>2. Exists(c)' /\ \A o \in Booking \ {c} : row'[o] = row[o]
    BY <1>2, <2>1 DEF Placed, Exists, TypeOK, DbType
  <2> QED
    BY <1>2, <2>1, <2>2, LedgerWrite DEF Placed
<1>3. ASSUME NEW c \in Call, NEW b, Moved(c, b) PROVE [Ledger!Next]_(Ledger!vars)
  <2>1. b \in Booking /\ b = target[c] /\ row[b].status \in Live
    BY <1>3 DEF Moved
  <2>2. active[b]
    BY <2>1 DEF NoGhostOccupancy, Live, Dead
  <2>3. Exists(b)' /\ \A o \in Booking \ {b} : row'[o] = row[o]
    <3>1. Exists(b)
      BY <2>1 DEF Exists, Live
    <3> QED
      BY <1>3, <2>1, <3>1, Stays DEF Moved, TypeOK, DbType
  <2>4. /\ pc[c] = "commit" /\ ~StaffClash(b, plan[c].items)
        /\ items' = [items EXCEPT ![b] = plan[c].items]
        /\ active' = [active EXCEPT ![b] = TRUE] /\ revived' = revived
    BY <1>3 DEF Moved
  <2> QED
    BY <2>1, <2>2, <2>3, <2>4, LedgerWrite
<1> QED
  BY <1>1, <1>2, <1>3, CalendarSteps, LedgerStatus

(* The bookings found are a ledger: each fits among the others.            *)
LEMMA LedgerInit ==
  ASSUME Init
  PROVE  Ledger!Init
<1>1. TypeOK /\ CapacityInv
  BY InitType, InitCapacity
<1>2. \A b \in Booking : /\ Exists(b) <=> b \in Seed
                         /\ OnCalendar(b) <=> b \in Seed
  BY DEF Init, Exists, OnCalendar, NoRow
<1>3. ASSUME NEW b \in Booking
      PROVE  /\ PhaseOf(b) \in {"new", "held"}
             /\ PhaseOf(b) = "new" => CellsOf(b) = {}
  BY <1>2 DEF PhaseOf, CellsOf
<1>4. ASSUME NEW b \in Booking, PhaseOf(b) # "new" PROVE Ledger!Fits(b, CellsOf(b))
  <2>1. b \in Seed /\ OnCalendar(b) /\ CellsOf(b) = Cells(b) /\ active[b]
    BY <1>2, <1>4 DEF PhaseOf, CellsOf, OnCalendar
  <2>2. items[b] \in SUBSET Interval
    BY <1>1 DEF TypeOK, DbType
  <2>3. ~StaffClash(b, items[b])
    <3>1. StaffExclusive
      BY InitExclusive
    <3> QED
      BY <2>1, <3>1 DEF StaffExclusive
  <2>4. ASSUME NEW l \in Limits, NEW t \in Instant,
               NEW iv \in items[b], iv.svc \in l.scope, Covers(iv, t)
        PROVE  Cardinality(Using(Booking \ (revived \cup {b}), l.scope, t)) < l.limit
    <3> DEFINE all == Using(Booking \ revived, l.scope, t)
               rest == Using(Booking \ (revived \cup {b}), l.scope, t)
    <3>1. Cardinality(all) <= l.limit
      BY <1>1 DEF CapacityInv, Kept
    <3>2. b \in all /\ rest = all \ {b} /\ all \subseteq Booking
      BY <2>1, <2>4 DEF Using, OnCalendar
    <3>3. IsFiniteSet(all)
      BY <3>2, BookingFinite, FS_Subset
    <3> HIDE DEF all, rest
    <3>4. Cardinality(rest) = Cardinality(all) - 1 /\ Cardinality(all) \in Nat
      BY <3>2, <3>3, FS_RemoveElement, FS_CardinalityType
    <3> USE DEF all, rest
    <3> QED
      BY <3>1, <3>4, LimitType
  <2>5. \A x \in Cells(b) : \E iv \in items[b], t \in Instant :
          Covers(iv, t) /\ x = [at |-> t, svc |-> iv.svc, staff |-> iv.staff]
    BY CellsAre
  <2> QED
    BY <1>1, <2>1, <2>2, <2>3, <2>4, <2>5, LedgerFits
<1> QED
  BY <1>3, <1>4 DEF Ledger!Init, PhaseOf, CellsOf

(***************************************************************************)
(* The booking service implements the ledger: however its calls interleave *)
(* each step of it, seen through the calendar, places, moves or frees one  *)
(* booking, which fits at that moment, or changes nothing; a booking that  *)
(* is gone never comes back (a revived one is off the ledger).  In a shop  *)
(* whose visits end on the day they start, as in CapacitySafe.             *)
(***************************************************************************)
THEOREM CalendarIsLedger == ClosesInTime => (Spec => LedgerSpec)
<1> SUFFICES ASSUME ClosesInTime PROVE Spec => LedgerSpec
  OBVIOUS
<1> DEFINE Inv == /\ TypeOK /\ CallOK /\ NoGhostOccupancy
                  /\ CapacityInv /\ RevivedExist
<1>1. Init => Inv /\ Ledger!Init
  <2>1. Init => RevivedExist
    BY DEF Init, RevivedExist
  <2> QED
    BY <2>1, InitType, InitCall, InitGhost, InitCapacity, LedgerInit
<1>2. Inv /\ [Next]_vars => Inv'
  BY StepType, StepCall, StepGhost, StepCapacity, StepRevived
<1>3. Inv /\ [Next]_vars => [Ledger!Next]_(Ledger!vars)
  BY LedgerStep
<1> HIDE DEF Inv
<1> QED
  BY <1>1, <1>2, <1>3, PTL DEF Spec, LedgerSpec, Ledger!Spec
=============================================================================
