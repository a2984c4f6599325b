---------------------------- MODULE BookingProofs ----------------------------
(***************************************************************************)
(* Theorems about the booking service, for any number of calls, bookings,  *)
(* staff members, services and instants.                                   *)
(***************************************************************************)
EXTENDS Booking, OccupancyProofs, SequenceTheorems

(* What the program counter of a call says of its request, its booking and *)
(* the row lock it holds.                                                  *)
OneCallOK(c) ==
  /\ pc[c] # "idle" => req[c] \in Request /\ target[c] \in Booking
  /\ pc[c] \in {"admission", "locking", "rowlock", "decide", "commit"} =>
       \/ req[c].op = "create" /\ target[c] = c
       \/ req[c].op = "reschedule" /\ Exists(target[c])
  /\ pc[c] = "admission" => req[c].op = "create"
  /\ pc[c] = "rowlock" => req[c].op = "reschedule"
  /\ pc[c] = "write" => req[c].op \in {"cancel", "status"} /\ Exists(target[c])
  /\ pc[c] # "idle" /\ req[c].op # "create" => seen[c].status \in Status
  /\ pc[c] # "done" => ~Exists(c)
  /\ pc[c] \in {"decide", "commit"} /\ req[c].op = "reschedule" =>
       rowLock[target[c]] = c /\ row[target[c]].status \in Live

CallOK ==
  /\ \A b \in Booking : Exists(b) => CreateAccepted(Made(b))
  /\ \A c \in Call : OneCallOK(c)

(* Made(b) of a call that has begun is an accepted create request.         *)
LEMMA MadeOfTarget ==
  ASSUME TypeOK, CallOK, NEW c \in Call,
         pc[c] \in {"admission", "locking", "rowlock", "decide", "commit"}
  PROVE  target[c] \in Booking /\ CreateAccepted(Made(target[c]))
<1>1. req[c] \in Request /\ target[c] \in Booking
  BY DEF CallOK, OneCallOK
<1>2. CASE req[c].op = "create" /\ target[c] = c
  <2>1. Accepted(req[c]) /\ c \notin Seed
    BY <1>1, RequestAssumption, NamesAssumption
  <2> QED
    BY <1>1, <1>2, <2>1 DEF Accepted, CreateAccepted, Made
<1>3. CASE req[c].op = "reschedule" /\ Exists(target[c])
  BY <1>1, <1>3 DEF CallOK, OneCallOK
<1> QED
  BY <1>2, <1>3 DEF CallOK, OneCallOK

(* Answering, going on and failing keep the types of what they touch.      *)
LEMMA AnswerType ==
  ASSUME LockType, ProgressType, NEW c \in Call, NEW kind, NEW b,
         [kind |-> kind, booking |-> b] \in Reply, Answer(c, kind, b)
  PROVE  /\ LockType'
         /\ pc' \in [Call -> Label] /\ reply' \in [Call -> Reply]
<1>1. LockType'
  BY DEF Answer, Release, LockType
<1>2. pc' \in [Call -> Label]
  BY DEF Answer, ProgressType, Label
<1>3. reply' \in [Call -> Reply]
  <2> HIDE DEF Reply
  <2> QED
    BY DEF Answer, ProgressType
<1> QED
  BY <1>1, <1>2, <1>3

LEMMA RefuseType ==
  ASSUME DbType, LockType, ProgressType, NEW c \in Call, NEW reason \in Reason,
         Refuse(c, reason)
  PROVE  /\ DbType' /\ LockType'
         /\ pc' \in [Call -> Label] /\ reply' \in [Call -> Reply]
<1>1. [kind |-> reason, booking |-> None] \in Reply
  BY DEF Reply
<1>2. DbType'
  BY DEF Refuse, db, DbType
<1> QED
  BY <1>1, <1>2, AnswerType DEF Refuse

(* What a call plans to write is well typed.                               *)
LEMMA ItemsType ==
  ASSUME NEW m \in Menu, NEW at \in Instant, NEW s \in Staff \cup {NoStaff}
  PROVE  ChainIntervals(at, Parts[m], s) \in SUBSET Interval
<1>1. WellFormedChain(Parts[m]) /\ at \in Int
  BY MenuAssumption, RequestAssumption
<1>2. ASSUME NEW iv \in ChainIntervals(at, Parts[m], s) PROVE iv \in Interval
  <2>1. /\ iv.start \in Int /\ iv.end \in Int /\ iv.staff = s
        /\ iv = [start |-> iv.start, end |-> iv.end, svc |-> iv.svc, staff |-> s]
    BY <1>1, ChainWithinWindow
  <2>2. PICK i \in 1..Len(Parts[m]) : iv.svc = Parts[m][i].svc
    BY <1>1, ChainWithinWindow
  <2>3. iv.svc \in DOMAIN CapacityOf
    <3>1. Parts[m][i] \in Offered
      BY DEF Offered
    <3> QED
      BY <2>2, <3>1 DEF CapacityOf
  <2> QED
    BY <2>1, <2>3 DEF Interval
<1> QED
  BY <1>2

(* The staff member a query names, and any the assignment may pick.        *)
LEMMA AssignableType ==
  ASSUME TypeOK, CallOK, NEW c \in Call, pc[c] = "decide", NEW occupied
  PROVE  Assignable(c, Query(c, Made(target[c]).menu), occupied)
           \subseteq Staff \cup {NoStaff}
<1> DEFINE menu == Made(target[c]).menu
           query == Query(c, menu)
<1>1. menu \in Menu
  BY MadeOfTarget DEF CreateAccepted
<1>2. query.staff \in Staff \cup {NoStaff}
  <2>1. req[c] \in Request /\ Accepted(req[c])
    BY RequestAssumption DEF CallOK, OneCallOK
  <2>2. req[c].op \in {"create", "reschedule"}
    BY DEF CallOK, OneCallOK
  <2>3. req[c].staff \in Staff \cup {NoStaff, KeepStaff}
    BY <2>1, <2>2 DEF Accepted, CreateAccepted
  <2>4. seen[c].staff \in Staff \cup {NoStaff}
    BY DEF TypeOK, InputType, Row
  <2> QED
    BY <2>3, <2>4 DEF Query, AskedStaff
<1>3. query.candidates \subseteq Staff
  BY <1>1, MenuAssumption DEF Query
<1>4. FindAvailableStaff(query, Rules, Duty, occupied) \subseteq query.candidates
  BY DEF FindAvailableStaff
<1> HIDE DEF query
<1> QED
  BY <1>2, <1>3, <1>4 DEF Assignable, query, menu

LEMMA BeginType ==
  ASSUME TypeOK, NEW c \in Call, NEW r \in Request, NEW b \in Booking,
         Begin(c, r, b)
  PROVE  /\ req' \in [Call -> Request \cup {NoReq}]
         /\ target' \in [Call -> Booking \cup {None}]
         /\ clock' \in [Call -> Nat] /\ now' \in Nat
         /\ plan' \in [Call -> Plan]
  BY DEF Begin, TypeOK, InputType, ProgressType

LEMMA ProceedType ==
  ASSUME LockType, ProgressType, NEW c \in Call, NEW label \in Label, Proceed(c, label)
  PROVE  LockType' /\ pc' \in [Call -> Label] /\ reply' \in [Call -> Reply]
  BY DEF Proceed, LockType, ProgressType

LEMMA DbUnchangedType ==
  ASSUME DbType, UNCHANGED db
  PROVE  DbType'
  BY DEF db, DbType

LEMMA LocalUnchangedType ==
  ASSUME TypeOK, UNCHANGED <<local, now>>
  PROVE  InputType' /\ plan' \in [Call -> Plan]
  BY DEF TypeOK, InputType, ProgressType, local

(* createBooking keeps the types.                                          *)
LEMMA BeginCreateType ==
  ASSUME TypeOK, NEW c \in Call, NEW r \in Request, BeginCreate(c, r)
  PROVE  TypeOK'
<1>1. c \in Booking
  BY DEF Booking
<1>2. DbType'
  BY DbUnchangedType DEF BeginCreate, TypeOK
<1>3. InputType' /\ plan' \in [Call -> Plan]
  BY <1>1, BeginType DEF BeginCreate, InputType, TypeOK
<1>4. LockType' /\ pc' \in [Call -> Label] /\ reply' \in [Call -> Reply]
  <2>1. CASE Proceed(c, "admission")
    BY <2>1, ProceedType DEF TypeOK, Label
  <2>2. ASSUME NEW b \in KeyHolders(r.key), Answer(c, "REPLAY", b)
        PROVE  <1>4!:
    <3>1. [kind |-> "REPLAY", booking |-> b] \in Reply
      BY DEF KeyHolders, Reply, Success
    <3> QED
      BY <2>2, <3>1, AnswerType DEF TypeOK
  <2> QED
    BY <2>1, <2>2 DEF BeginCreate
<1> QED
  BY <1>2, <1>3, <1>4 DEF TypeOK, ProgressType

LEMMA AdmitCreateType ==
  ASSUME TypeOK, NEW c \in Call, AdmitCreate(c)
  PROVE  TypeOK'
<1>1. InputType' /\ plan' \in [Call -> Plan]
  BY LocalUnchangedType DEF AdmitCreate
<1>2. DbType' /\ LockType' /\ pc' \in [Call -> Label] /\ reply' \in [Call -> Reply]
  <2>1. CASE Proceed(c, "locking") /\ UNCHANGED db
    BY <2>1, ProceedType, DbUnchangedType DEF TypeOK, Label
  <2>2. CASE Refuse(c, "QUOTA_EXCEEDED") \/ Refuse(c, "STAFF_UNAVAILABLE")
    BY <2>2, RefuseType DEF TypeOK, Reason
  <2> QED
    BY <2>1, <2>2 DEF AdmitCreate
<1> QED
  BY <1>1, <1>2 DEF TypeOK, ProgressType

LEMMA AcquireDayType ==
  ASSUME TypeOK, NEW c \in Call, AcquireDay(c)
  PROVE  TypeOK'
<1>1. InputType' /\ plan' \in [Call -> Plan]
  BY LocalUnchangedType DEF AcquireDay
<1>2. DbType'
  BY DbUnchangedType DEF AcquireDay, TypeOK
<1>3. LockType' /\ pc' \in [Call -> Label] /\ reply' \in [Call -> Reply]
  BY DEF AcquireDay, TypeOK, LockType, ProgressType, Label
<1> QED
  BY <1>1, <1>2, <1>3 DEF TypeOK, ProgressType

LEMMA DecideType ==
  ASSUME TypeOK, CallOK, NEW c \in Call, Decide(c)
  PROVE  TypeOK'
<1> DEFINE b        == target[c]
           query    == Query(c, Made(b).menu)
           occupied == Occupied(b, ChainOccupiedStart(query.at, query.parts),
                                ChainOccupiedEnd(query.at, query.parts))
           verdict  == Verdict(query, Rules, Duty, Open[DayOf(query.at)], occupied)
<1>1. InputType'
  BY DEF Decide, TypeOK, InputType
<1>2. CASE verdict # "OK" /\ Refuse(c, verdict) /\ UNCHANGED plan
  <2>1. verdict \in Reason
    BY <1>2, Zenon DEF Verdict, Reason
  <2> HIDE DEF verdict
  <2> QED
    BY <1>1, <1>2, <2>1, RefuseType DEF TypeOK, ProgressType
<1>3. ASSUME NEW s \in Assignable(c, query, occupied), NEW card \in BOOLEAN,
             plan' = [plan EXCEPT ![c] =
                        [staff |-> s,
                         items |-> ChainIntervals(query.at, query.parts, s),
                         card  |-> card]],
             Proceed(c, "commit"), UNCHANGED db
      PROVE  TypeOK'
  <2>1. s \in Staff \cup {NoStaff}
    BY <1>3, AssignableType DEF Decide
  <2>2. ChainIntervals(query.at, query.parts, s) \in SUBSET Interval
    <3>1. Made(b).menu \in Menu
      BY MadeOfTarget DEF Decide, CreateAccepted
    <3>2. query.at \in Instant
      <4>1. req[c] \in Request /\ req[c].op \in {"create", "reschedule"}
        BY DEF CallOK, OneCallOK, Decide
      <4> QED
        BY <4>1, RequestAssumption DEF Accepted, CreateAccepted, Query
    <3>3. query.parts = Parts[Made(b).menu]
      BY DEF Query
    <3> HIDE DEF query
    <3> QED
      BY <2>1, <3>1, <3>2, <3>3, ItemsType
  <2>3. plan' \in [Call -> Plan]
    <3> HIDE DEF query, occupied
    <3> QED
      BY <1>3, <2>1, <2>2 DEF TypeOK, ProgressType, Plan
  <2> QED
    BY <1>1, <1>3, <2>3, ProceedType, DbUnchangedType DEF TypeOK, ProgressType, Label
<1> QED
  <2>1. (Made(b).contact = None \/ cards[Made(b).contact] = 0) \in BOOLEAN
    OBVIOUS
  <2> QED
    BY <1>2, <1>3, <2>1 DEF Decide

(* The event log, the outbox and a written status keep their types.        *)
LEMMA LogType ==
  ASSUME DbType, NEW b \in Booking, NEW type, NEW from, NEW to,
         [type |-> type, from |-> from, to |-> to] \in Event,
         Log(b, type, from, to)
  PROVE  events' \in [Booking -> Seq(Event)]
<1> HIDE DEF Event
<1>1. Append(events[b], [type |-> type, from |-> from, to |-> to]) \in Seq(Event)
  BY AppendProperties DEF DbType
<1> QED
  BY <1>1 DEF Log, DbType

LEMMA PostJobsType ==
  ASSUME DbType, NEW c \in Call, NEW b \in Booking, NEW voided, NEW posted,
         PostJobs(c, b, voided, posted)
  PROVE  /\ jobs' \in [Booking -> [JobKind -> JobStatus]]
         /\ overtaken' \subseteq Booking \X JobKind
<1> HIDE DEF JobKind
<1>1. jobs' \in [Booking -> [JobKind -> JobStatus]]
  BY DEF PostJobs, DbType, JobStatus
<1>2. overtaken' \subseteq Booking \X JobKind
  BY DEF PostJobs, DbType
<1> QED
  BY <1>1, <1>2

(* The worker and the operator set the state of one job, and nothing else. *)
visits == <<row, items, active, cards, events, revived>>

LEMMA WorkSets ==
  ASSUME NEW o \in Booking, NEW k \in JobKind, Work(o, k)
  PROVE  /\ UNCHANGED <<row, items, active, cards, events, revived, overtaken, lock,
                       rowLock, req, target, seen, plan, clock, pc, reply, now>>
         /\ \E status \in JobStatus : jobs' = [jobs EXCEPT ![o][k] = status]
         /\ jobs[o][k] \in {"PENDING"} \cup Underway
<1>1. \A from \in SUBSET JobStatus, to \in SUBSET JobStatus : SetJob(o, k, from, to) =>
        /\ UNCHANGED <<row, items, active, cards, events, revived, overtaken, lock,
                      rowLock, req, target, seen, plan, clock, pc, reply, now>>
        /\ \E status \in JobStatus : jobs' = [jobs EXCEPT ![o][k] = status]
        /\ jobs[o][k] \in from
  BY DEF SetJob, locks, local
<1>2. \E from \in SUBSET ({"PENDING"} \cup Underway), to \in SUBSET JobStatus :
        SetJob(o, k, from, to)
  BY DEF Work, ClaimJob, CheckJob, SendJob, JobFails, RetryJob, JobStatus, Underway
<1> QED
  BY <1>1, <1>2 DEF JobStatus

LEMMA WriteStatusType ==
  ASSUME DbType, NEW b \in Booking, NEW to \in Status, WriteStatus(b, to)
  PROVE  /\ row' \in [Booking -> Row] /\ items' \in [Booking -> SUBSET Interval]
         /\ active' \in [Booking -> BOOLEAN] /\ cards' \in [Contact -> Nat]
         /\ revived' \in SUBSET Booking
<1>1. row' \in [Booking -> Row]
  BY DEF WriteStatus, DbType, Row
<1>2. active' \in [Booking -> BOOLEAN]
  BY DEF WriteStatus, DbType, ActiveAfter
<1>3. revived' \in SUBSET Booking
  BY DEF WriteStatus, DbType
<1> QED
  BY <1>1, <1>2, <1>3 DEF WriteStatus, DbType

LEMMA RequestOf ==
  ASSUME CallOK, NEW c \in Call, pc[c] # "idle"
  PROVE  /\ req[c] \in Request /\ Accepted(req[c]) /\ target[c] \in Booking
  BY RequestAssumption DEF CallOK, OneCallOK

LEMMA CountedUp ==
  ASSUME NEW S, NEW f \in [S -> Nat], NEW k
  PROVE  [f EXCEPT ![k] = @ + 1] \in [S -> Nat]
<1>1. CASE k \in S
  <2>1. f[k] + 1 \in Nat
    BY <1>1
  <2> QED
    BY <2>1
<1>2. CASE k \notin S
  <2>1. [f EXCEPT ![k] = @ + 1] = f
    BY <1>2
  <2> QED
    BY <2>1
<1> QED
  BY <1>1, <1>2

LEMMA CommitCreateType ==
  ASSUME TypeOK, CallOK, NEW c \in Call, CommitCreate(c)
  PROVE  TypeOK'
<1>1. InputType' /\ plan' \in [Call -> Plan]
  BY LocalUnchangedType DEF CommitCreate
<1>2. c \in Booking
  BY DEF Booking
<1>3. ASSUME NEW b \in KeyHolders(req[c].key), Answer(c, "REPLAY", b), UNCHANGED db
      PROVE  DbType' /\ LockType' /\ pc' \in [Call -> Label] /\ reply' \in [Call -> Reply]
  <2>1. [kind |-> "REPLAY", booking |-> b] \in Reply
    BY DEF KeyHolders, Reply, Success
  <2> QED
    BY <1>3, <2>1, AnswerType, DbUnchangedType DEF TypeOK
<1>4. ASSUME Refuse(c, "SLOT_FULL")
      PROVE  DbType' /\ LockType' /\ pc' \in [Call -> Label] /\ reply' \in [Call -> Reply]
  BY <1>4, RefuseType DEF TypeOK, Reason
<1>5. ASSUME row' = [row EXCEPT ![c] = [status |-> "CONFIRMED",
                                        start |-> req[c].start,
                                        staff |-> plan[c].staff]],
             items' = [items EXCEPT ![c] = plan[c].items],
             active' = [active EXCEPT ![c] = TRUE],
             cards' = IF req[c].contact # None /\ plan[c].card
                      THEN [cards EXCEPT ![req[c].contact] = @ + 1] ELSE cards,
             Log(c, "CREATED", "NONE", "CONFIRMED"),
             PostJobs(c, c, {}, {"CONFIRMED", "MANAGER"} \cup Reminds(c, c)),
             Answer(c, "OK", c), UNCHANGED revived
      PROVE  DbType' /\ LockType' /\ pc' \in [Call -> Label] /\ reply' \in [Call -> Reply]
  <2>1. req[c].start \in Int
    BY RequestOf, RequestAssumption DEF CommitCreate, Accepted, CreateAccepted
  <2>2. plan[c] \in Plan
    BY DEF TypeOK, ProgressType
  <2>3. row' \in [Booking -> Row]
    BY <1>2, <1>5, <2>1, <2>2 DEF TypeOK, DbType, Row, Plan, Status, Live
  <2>4. items' \in [Booking -> SUBSET Interval]
    BY <1>5, <2>2 DEF TypeOK, DbType, Plan
  <2>5. active' \in [Booking -> BOOLEAN] /\ revived' \in SUBSET Booking
    BY <1>5 DEF TypeOK, DbType
  <2>6. cards' \in [Contact -> Nat]
    <3>1. cards \in [Contact -> Nat]
      BY DEF TypeOK, DbType
    <3>2. CASE cards' = cards
      BY <3>1, <3>2
    <3>3. CASE cards' = [cards EXCEPT ![req[c].contact] = @ + 1]
      BY <3>1, <3>3, CountedUp
    <3> QED
      BY <1>5, <3>2, <3>3
  <2>7. [type |-> "CREATED", from |-> "NONE", to |-> "CONFIRMED"] \in Event
    BY DEF Event, Status, Live
  <2>8. events' \in [Booking -> Seq(Event)]
    BY <1>2, <1>5, <2>7, LogType DEF TypeOK
  <2>9. /\ jobs' \in [Booking -> [JobKind -> JobStatus]]
        /\ overtaken' \subseteq Booking \X JobKind
    BY <1>2, <1>5, PostJobsType DEF TypeOK
  <2>10. [kind |-> "OK", booking |-> c] \in Reply
    BY <1>2 DEF Reply, Success
  <2> QED
    BY <1>5, <2>3, <2>4, <2>5, <2>6, <2>8, <2>9, <2>10, AnswerType DEF TypeOK, DbType
<1>6. DbType' /\ LockType' /\ pc' \in [Call -> Label] /\ reply' \in [Call -> Reply]
  BY <1>3, <1>4, <1>5 DEF CommitCreate
<1> QED
  BY <1>1, <1>6 DEF TypeOK, ProgressType

(* A first step that only reads: it answers or goes on, and remembers the row. *)
LEMMA FirstStepType ==
  ASSUME TypeOK, NEW c \in Call, NEW r \in Request, NEW b \in Booking,
         Begin(c, r, b), seen' = [seen EXCEPT ![c] = row[b]], UNCHANGED db,
         \/ \E label \in Label : Proceed(c, label)
         \/ \E reason \in Reason : Answer(c, reason, None)
         \/ Answer(c, "UNCHANGED", b)
  PROVE  TypeOK'
<1>1. DbType'
  BY DbUnchangedType DEF TypeOK
<1>2. InputType' /\ plan' \in [Call -> Plan]
  <2>1. seen' \in [Call -> Row]
    BY DEF TypeOK, DbType, InputType
  <2> QED
    BY <2>1, BeginType DEF InputType
<1>3. LockType' /\ pc' \in [Call -> Label] /\ reply' \in [Call -> Reply]
  <2>1. CASE \E label \in Label : Proceed(c, label)
    BY <2>1, ProceedType DEF TypeOK
  <2>2. ASSUME NEW reason \in Reason, Answer(c, reason, None)
        PROVE  <1>3!:
    <3>1. [kind |-> reason, booking |-> None] \in Reply
      BY DEF Reply
    <3> QED
      BY <2>2, <3>1, AnswerType DEF TypeOK
  <2>3. CASE Answer(c, "UNCHANGED", b)
    <3>1. [kind |-> "UNCHANGED", booking |-> b] \in Reply
      BY DEF Reply, Success
    <3> QED
      BY <2>3, <3>1, AnswerType DEF TypeOK
  <2> QED
    BY <2>1, <2>2, <2>3
<1> QED
  BY <1>1, <1>2, <1>3 DEF TypeOK, ProgressType

LEMMA BeginRescheduleType ==
  ASSUME TypeOK, NEW c \in Call, NEW r \in Request, NEW b \in Booking,
         BeginReschedule(c, r, b)
  PROVE  TypeOK'
<1>1. \/ \E label \in Label : Proceed(c, label)
      \/ \E reason \in Reason : Answer(c, reason, None)
  BY DEF BeginReschedule, Label, Reason
<1> QED
  BY <1>1, FirstStepType DEF BeginReschedule

LEMMA BeginCancelType ==
  ASSUME TypeOK, NEW c \in Call, NEW r \in Request, NEW b \in Booking,
         BeginCancel(c, r, b)
  PROVE  TypeOK'
<1>1. \/ \E label \in Label : Proceed(c, label)
      \/ \E reason \in Reason : Answer(c, reason, None)
  BY DEF BeginCancel, Label, Reason
<1> QED
  BY <1>1, FirstStepType DEF BeginCancel

LEMMA BeginStatusType ==
  ASSUME TypeOK, NEW c \in Call, NEW r \in Request, NEW b \in Booking,
         BeginStatus(c, r, b)
  PROVE  TypeOK'
<1>1. \/ \E label \in Label : Proceed(c, label)
      \/ \E reason \in Reason : Answer(c, reason, None)
      \/ Answer(c, "UNCHANGED", b)
  BY DEF BeginStatus, Label, Reason
<1> QED
  BY <1>1, FirstStepType DEF BeginStatus

LEMMA LockRowType ==
  ASSUME TypeOK, NEW c \in Call, LockRow(c)
  PROVE  TypeOK'
<1>1. InputType' /\ plan' \in [Call -> Plan]
  BY LocalUnchangedType DEF LockRow
<1>2. DbType' /\ LockType' /\ pc' \in [Call -> Label] /\ reply' \in [Call -> Reply]
  <2>1. CASE Refuse(c, "INVALID_BOOKING_STATE")
    BY <2>1, RefuseType DEF TypeOK, Reason
  <2>2. CASE /\ rowLock' = [rowLock EXCEPT ![target[c]] = c]
             /\ pc' = [pc EXCEPT ![c] = "decide"]
             /\ UNCHANGED <<db, lock, reply>>
    <3>1. DbType'
      BY <2>2, DbUnchangedType DEF TypeOK
    <3>2. rowLock' \in [Booking -> Call \cup {None}]
      BY <2>2 DEF TypeOK, LockType
    <3>3. lock' \in [Day -> Call \cup {None}]
      BY <2>2 DEF TypeOK, LockType
    <3>4. pc' \in [Call -> Label] /\ reply' \in [Call -> Reply]
      BY <2>2 DEF TypeOK, ProgressType, Label
    <3> QED
      BY <3>1, <3>2, <3>3, <3>4 DEF LockType
  <2> QED
    BY <2>1, <2>2 DEF LockRow
<1> QED
  BY <1>1, <1>2 DEF TypeOK, ProgressType

LEMMA CommitRescheduleType ==
  ASSUME TypeOK, CallOK, NEW c \in Call, CommitReschedule(c)
  PROVE  TypeOK'
<1> DEFINE b == target[c]
<1>0. pc[c] = "commit" /\ req[c].op = "reschedule"
  BY DEF CommitReschedule
<1>1. InputType' /\ plan' \in [Call -> Plan]
  BY LocalUnchangedType DEF CommitReschedule
<1>2. b \in Booking /\ Exists(b) /\ c \in Booking
  BY <1>0 DEF CallOK, OneCallOK, Booking
<1>3. CASE Refuse(c, "SLOT_FULL")
  BY <1>1, <1>3, RefuseType DEF TypeOK, Reason, ProgressType
<1>4. ASSUME row' = [row EXCEPT ![b] = MovedRow(c, b)],
             items' = [items EXCEPT ![b] = plan[c].items],
             active' = [active EXCEPT ![b] = TRUE],
             NEW posted, PostJobs(c, b, Superseded, posted),
             Log(b, "RESCHEDULED", seen[c].status, seen[c].status),
             Answer(c, "OK", b), UNCHANGED <<cards, revived>>,
             seen[c].status \in Status
      PROVE  TypeOK'
  <2>1. req[c].start \in Int
    BY <1>0, RequestOf, RequestAssumption DEF Accepted, CreateAccepted
  <2>2. plan[c] \in Plan
    BY DEF TypeOK, ProgressType
  <2>3. MovedRow(c, b) \in Row
    BY <1>2, <2>1, <2>2 DEF TypeOK, DbType, Row, Plan, MovedRow
  <2>4. row' \in [Booking -> Row]
    BY <1>4, <2>3 DEF TypeOK, DbType
  <2>5. items' \in [Booking -> SUBSET Interval]
    BY <1>4, <2>2 DEF TypeOK, DbType, Plan
  <2>6. /\ active' \in [Booking -> BOOLEAN] /\ revived' \in SUBSET Booking
        /\ cards' \in [Contact -> Nat]
    BY <1>4 DEF TypeOK, DbType
  <2>7. [type |-> "RESCHEDULED", from |-> seen[c].status, to |-> seen[c].status] \in Event
    BY <1>4 DEF Event
  <2>8. events' \in [Booking -> Seq(Event)]
    BY <1>2, <1>4, <2>7, LogType DEF TypeOK
  <2>9. /\ jobs' \in [Booking -> [JobKind -> JobStatus]]
        /\ overtaken' \subseteq Booking \X JobKind
    BY <1>2, <1>4, PostJobsType DEF TypeOK
  <2>10. [kind |-> "OK", booking |-> b] \in Reply
    BY <1>2 DEF Reply, Success
  <2> QED
    BY <1>1, <1>4, <2>4, <2>5, <2>6, <2>8, <2>9, <2>10, AnswerType
       DEF TypeOK, DbType, ProgressType
<1>5. seen[c].status \in Status
  BY <1>0 DEF CallOK, OneCallOK
<1> QED
  BY <1>3, <1>4, <1>5 DEF CommitReschedule

LEMMA CommitCancelType ==
  ASSUME TypeOK, CallOK, NEW c \in Call, CommitCancel(c)
  PROVE  TypeOK'
<1> DEFINE b == target[c]
<1>1. InputType' /\ plan' \in [Call -> Plan]
  BY LocalUnchangedType DEF CommitCancel
<1>2. /\ pc[c] = "write" /\ req[c].op = "cancel"
      /\ WriteStatus(b, "CANCELLED")
      /\ Log(b, "CANCELLED", seen[c].status, "CANCELLED")
      /\ PostJobs(c, b, JobKind, {"CANCELLED", "MANAGER"})
      /\ Answer(c, "OK", b)
  BY DEF CommitCancel
<1>3. b \in Booking /\ seen[c].status \in Status /\ c \in Booking
  BY <1>2 DEF CallOK, OneCallOK, Booking
<1>4. "CANCELLED" \in Status
  BY DEF Status, Terminal, Dead
<1>5. [type |-> "CANCELLED", from |-> seen[c].status, to |-> "CANCELLED"] \in Event
  BY <1>3, <1>4 DEF Event
<1>6. [kind |-> "OK", booking |-> b] \in Reply
  BY <1>3 DEF Reply, Success
<1>7. DbType'
  BY <1>2, <1>3, <1>4, <1>5, WriteStatusType, LogType, PostJobsType DEF TypeOK, DbType
<1> QED
  BY <1>1, <1>2, <1>6, <1>7, AnswerType DEF TypeOK, ProgressType

LEMMA CommitStatusType ==
  ASSUME TypeOK, CallOK, NEW c \in Call, CommitStatus(c)
  PROVE  TypeOK'
<1> DEFINE b  == target[c]
           to == req[c].to
<1>1. InputType' /\ plan' \in [Call -> Plan]
  BY LocalUnchangedType DEF CommitStatus
<1>2. pc[c] = "write" /\ req[c].op = "status"
  BY DEF CommitStatus
<1>3. b \in Booking /\ seen[c].status \in Status /\ c \in Booking /\ to \in Status
  BY <1>2, RequestOf DEF CallOK, OneCallOK, Booking, Accepted, CreateAccepted
<1>4. CASE Refuse(c, "ERROR")
  BY <1>1, <1>4, RefuseType DEF TypeOK, Reason, ProgressType
<1>5. ASSUME WriteStatus(b, to), Log(b, EventType(to), seen[c].status, to),
             NEW voided, NEW posted, PostJobs(c, b, voided, posted), Answer(c, "OK", b)
      PROVE  TypeOK'
  <2>1. [type |-> EventType(to), from |-> seen[c].status, to |-> to] \in Event
    BY <1>3 DEF Event, EventType, Status, Live
  <2>2. [kind |-> "OK", booking |-> b] \in Reply
    BY <1>3 DEF Reply, Success
  <2>3. DbType'
    BY <1>3, <1>5, <2>1, WriteStatusType, LogType, PostJobsType DEF TypeOK, DbType
  <2> QED
    BY <1>1, <1>5, <2>2, <2>3, AnswerType DEF TypeOK, ProgressType
<1> QED
  BY <1>4, <1>5 DEF CommitStatus

LEMMA StepType ==
  ASSUME TypeOK, CallOK, [Next]_vars
  PROVE  TypeOK'
<1>1. ASSUME NEW c \in Call, Start(c) PROVE TypeOK'
  BY <1>1, BeginCreateType, BeginRescheduleType, BeginCancelType, BeginStatusType
     DEF Start
<1>2. ASSUME NEW c \in Call, Continue(c) PROVE TypeOK'
  BY <1>2, AdmitCreateType, AcquireDayType, LockRowType, DecideType, CommitCreateType,
     CommitRescheduleType, CommitCancelType, CommitStatusType DEF Continue
<1>3. ASSUME NEW c \in Call, Abort(c) PROVE TypeOK'
  BY <1>3, RefuseType, LocalUnchangedType DEF Abort, TypeOK, ProgressType, Reason
<1>4. CASE Tick
  <2>1. DbType'
    BY <1>4, DbUnchangedType DEF TypeOK, Tick
  <2> QED
    BY <1>4, <2>1 DEF Tick, TypeOK, LockType, InputType, ProgressType, locks, local
<1>5. CASE UNCHANGED vars
  <2>1. DbType'
    BY <1>5, DbUnchangedType DEF TypeOK, vars, db
  <2> QED
    BY <1>5, <2>1 DEF vars, TypeOK, LockType, InputType, ProgressType
<1>6. ASSUME NEW o \in Booking, NEW k \in JobKind, Work(o, k) PROVE TypeOK'
  <2>1. jobs' \in [Booking -> [JobKind -> JobStatus]]
    <3>1. PICK status \in JobStatus : jobs' = [jobs EXCEPT ![o][k] = status]
      BY <1>6, WorkSets
    <3> HIDE DEF JobStatus, JobKind
    <3> QED
      BY <3>1 DEF TypeOK, DbType
  <2>2. UNCHANGED <<row, items, active, cards, events, revived, overtaken, lock,
                    rowLock, req, target, seen, plan, clock, pc, reply, now>>
    BY <1>6, WorkSets
  <2> QED
    BY <2>1, <2>2 DEF TypeOK, DbType, LockType, InputType, ProgressType
<1> QED
  BY <1>1, <1>2, <1>3, <1>4, <1>5, <1>6 DEF Next, Rest

(* The shop as it is found at the start.                                   *)
LEMMA InitType == Init => TypeOK
<1> SUFFICES ASSUME Init PROVE TypeOK
  OBVIOUS
<1>1. row \in [Booking -> Row]
  <2>1. ASSUME NEW b \in Seed
        PROVE  [status |-> "CONFIRMED", start |-> SeedRequest[b].start,
                staff |-> SeedRequest[b].staff] \in Row
    BY RequestAssumption DEF Row, Status, Live, CreateAccepted
  <2>2. NoRow \in Row
    BY DEF Row, NoRow
  <2> HIDE DEF Row
  <2> QED
    BY <2>1, <2>2 DEF Init
<1>2. items \in [Booking -> SUBSET Interval]
  <2>1. ASSUME NEW b \in Seed PROVE SeedItems(b) \in SUBSET Interval
    BY RequestAssumption, ItemsType DEF CreateAccepted, SeedItems
  <2>2. {} \in SUBSET Interval
    OBVIOUS
  <2> HIDE DEF Interval
  <2> QED
    BY <2>1, <2>2 DEF Init
<1>3. /\ active \in [Booking -> BOOLEAN] /\ revived \in SUBSET Booking
      /\ overtaken \subseteq Booking \X JobKind
  BY DEF Init
<1>4. cards \in [Contact -> Nat]
  BY DEF Init
<1>5. events \in [Booking -> Seq(Event)]
  <2>1. [type |-> "CREATED", from |-> "NONE", to |-> "CONFIRMED"] \in Event
    BY DEF Event, Status, Live
  <2> HIDE DEF Event
  <2> QED
    BY <2>1 DEF Init
<1>6. jobs \in [Booking -> [JobKind -> JobStatus]]
  <2>1. NoJobs \in [JobKind -> JobStatus]
    BY DEF NoJobs, JobStatus
  <2>2. [NoJobs EXCEPT !["CONFIRMED"] = "SENT", !["MANAGER"] = "SENT",
                       !["REMINDER"] = "PENDING"] \in [JobKind -> JobStatus]
    BY <2>1 DEF JobStatus
  <2> QED
    BY <2>1, <2>2 DEF Init
<1>7. LockType
  BY DEF Init, LockType
<1>8. InputType
  BY DEF Init, InputType, NoRow, Row
<1>9. ProgressType
  BY DEF Init, ProgressType, Label, NoPlan, Plan, NoReply, Reply
<1> QED
  BY <1>1, <1>2, <1>3, <1>4, <1>5, <1>6, <1>7, <1>8, <1>9 DEF TypeOK, DbType

(* CallOK starts true, and every step keeps it: a booking that exists goes *)
(* on existing, and a request is not changed once its call has begun.      *)
LEMMA InitCall == Init => CallOK
<1> SUFFICES ASSUME Init PROVE CallOK
  OBVIOUS
<1>1. ASSUME NEW b \in Booking, Exists(b) PROVE CreateAccepted(Made(b))
  BY <1>1, RequestAssumption DEF Init, Exists, NoRow, Made
<1>2. \A c \in Call : pc[c] = "idle" /\ ~Exists(c)
  BY NamesAssumption DEF Init, Exists, NoRow, Booking
<1> QED
  BY <1>1, <1>2 DEF CallOK, OneCallOK

(* What a step of call c leaves alone: the other calls, the rows they have *)
(* locked, and the bookings there are, up to the one it creates.           *)
Frame(c) ==
  /\ \A d \in Call \ {c} : /\ pc'[d] = pc[d] /\ req'[d] = req[d]
                           /\ target'[d] = target[d] /\ seen'[d] = seen[d]
  /\ pc[c] # "idle" => req'[c] = req[c] /\ target'[c] = target[c] /\ seen'[c] = seen[c]
  /\ \A b \in Booking : Exists(b) => Exists(b)'
  /\ \A b \in Booking : Exists(b)' /\ ~Exists(b) =>
       b = c /\ pc'[c] = "done" /\ pc[c] = "commit" /\ req[c].op = "create"
  /\ \A b \in Booking, d \in Call \ {c} :
       rowLock[b] = d /\ Exists(b) =>
         rowLock'[b] = d /\ row'[b].status = row[b].status

(* A step that writes nothing to the database.                             *)
LEMMA QuietFrame ==
  ASSUME TypeOK, NEW c \in Call, NEW label, UNCHANGED db,
         pc' = [pc EXCEPT ![c] = label],
         \A d \in Call \ {c} : /\ req'[d] = req[d] /\ target'[d] = target[d]
                               /\ seen'[d] = seen[d],
         pc[c] # "idle" => UNCHANGED <<req, target, seen>>,
         \A b \in Booking, d \in Call \ {c} : rowLock[b] = d => rowLock'[b] = d
  PROVE  Frame(c)
<1>1. row' = row
  BY DEF db
<1>2. \A d \in Call \ {c} : pc'[d] = pc[d]
  BY DEF TypeOK, ProgressType
<1> QED
  BY <1>1, <1>2 DEF Frame, Exists

LEMMA ReleaseKeeps ==
  ASSUME TypeOK, NEW c \in Call, Release(c)
  PROVE  /\ \A b \in Booking, d \in Call \ {c} : rowLock[b] = d => rowLock'[b] = d
         /\ \A b \in Booking : rowLock'[b] # c
  BY NamesAssumption DEF Release

LEMMA BeginFrame ==
  ASSUME TypeOK, NEW c \in Call, NEW r, NEW b, Begin(c, r, b), UNCHANGED db,
         seen' = [seen EXCEPT ![c] = row[b]] \/ UNCHANGED seen,
         \/ \E label : Proceed(c, label)
         \/ \E kind, o : Answer(c, kind, o)
  PROVE  Frame(c)
<1>1. pc[c] = "idle"
  BY DEF Begin
<1>2. \A d \in Call \ {c} : /\ req'[d] = req[d] /\ target'[d] = target[d]
                            /\ seen'[d] = seen[d]
  BY DEF Begin, TypeOK, InputType
<1>3. CASE \E label : Proceed(c, label)
  BY <1>1, <1>2, <1>3, QuietFrame DEF Proceed
<1>4. CASE \E kind, o : Answer(c, kind, o)
  BY <1>1, <1>2, <1>4, QuietFrame, ReleaseKeeps DEF Answer
<1> QED
  BY <1>3, <1>4

LEMMA RefuseFrame ==
  ASSUME TypeOK, NEW c \in Call, NEW kind, NEW b, Answer(c, kind, b), UNCHANGED db,
         UNCHANGED <<req, target, seen>>
  PROVE  Frame(c)
  BY QuietFrame, ReleaseKeeps DEF Answer

LEMMA ProceedFrame ==
  ASSUME TypeOK, NEW c \in Call, NEW label, Proceed(c, label), UNCHANGED db,
         UNCHANGED <<req, target, seen>>
  PROVE  Frame(c)
  BY QuietFrame DEF Proceed

LEMMA ReadingFrame ==
  ASSUME TypeOK, CallOK, NEW c \in Call,
         AdmitCreate(c) \/ AcquireDay(c) \/ LockRow(c) \/ Decide(c) \/ Abort(c)
  PROVE  Frame(c)
<1>1. CASE AdmitCreate(c)
  BY <1>1, RefuseFrame, ProceedFrame DEF AdmitCreate, Refuse, local
<1>2. CASE AcquireDay(c)
  <2>1. /\ UNCHANGED db /\ UNCHANGED <<req, target, seen, rowLock>>
        /\ \E label : pc' = [pc EXCEPT ![c] = label]
    BY <1>2 DEF AcquireDay, local
  <2> QED
    BY <2>1, QuietFrame
<1>3. CASE LockRow(c)
  <2>1. UNCHANGED <<req, target, seen>>
    BY <1>3 DEF LockRow, local
  <2>2. CASE Refuse(c, "INVALID_BOOKING_STATE")
    BY <2>1, <2>2, RefuseFrame DEF Refuse
  <2>3. CASE ~Refuse(c, "INVALID_BOOKING_STATE")
    <3>1. /\ rowLock[target[c]] = None /\ UNCHANGED db
          /\ rowLock' = [rowLock EXCEPT ![target[c]] = c]
          /\ pc' = [pc EXCEPT ![c] = "decide"]
      BY <1>3, <2>3 DEF LockRow
    <3>2. \A b \in Booking, d \in Call \ {c} : rowLock[b] = d => rowLock'[b] = d
      BY <3>1, NamesAssumption DEF TypeOK, LockType
    <3> QED
      BY <2>1, <3>1, <3>2, QuietFrame
  <2> QED
    BY <2>2, <2>3
<1>4. CASE Decide(c)
  <2>1. UNCHANGED <<req, target, seen, db>> /\
        ((\E kind : Answer(c, kind, None)) \/ Proceed(c, "commit"))
    BY <1>4 DEF Decide, Refuse
  <2> QED
    BY <2>1, RefuseFrame, ProceedFrame
<1>5. CASE Abort(c)
  BY <1>5, RefuseFrame DEF Abort, Refuse, local
<1> QED
  BY <1>1, <1>2, <1>3, <1>4, <1>5

(* A step that answers and writes one row.                                 *)
LEMMA WritingFrame ==
  ASSUME TypeOK, NEW c \in Call, NEW b \in Booking, NEW kind, NEW o,
         Answer(c, kind, o), UNCHANGED <<req, target, seen>>,
         \A x \in Booking \ {b} : row'[x] = row[x],
         row'[b].status \in Status,
         \/ row'[b].status = row[b].status /\ Exists(b)
         \/ rowLock[b] = None /\ Exists(b)
         \/ ~Exists(b) /\ b = c /\ pc[c] = "commit" /\ req[c].op = "create"
  PROVE  Frame(c)
<1>1. "NONE" \notin Status
  BY DEF Status, Live, Terminal, Dead
<1>2. \A d \in Call \ {c} : pc'[d] = pc[d]
  BY DEF Answer, TypeOK, ProgressType
<1>3. pc'[c] = "done"
  BY DEF Answer, TypeOK, ProgressType
<1>4. \A x \in Booking, d \in Call \ {c} : rowLock[x] = d => rowLock'[x] = d
  BY ReleaseKeeps DEF Answer
<1>5. \A x \in Booking : Exists(x) => Exists(x)'
  BY <1>1 DEF Exists
<1>6. \A x \in Booking : Exists(x)' /\ ~Exists(x) =>
        x = c /\ pc[c] = "commit" /\ req[c].op = "create"
  BY <1>1 DEF Exists
<1>7. \A x \in Booking, d \in Call \ {c} :
        rowLock[x] = d /\ Exists(x) => row'[x].status = row[x].status
  BY NamesAssumption
<1> QED
  BY <1>2, <1>3, <1>4, <1>5, <1>6, <1>7 DEF Frame

LEMMA WrittenStatus ==
  ASSUME TypeOK, NEW b \in Booking, NEW to, WriteStatus(b, to)
  PROVE  /\ row'[b].status = to
         /\ \A x \in Booking \ {b} : row'[x] = row[x]
         /\ active' = [active EXCEPT ![b] = ActiveAfter(b, to)]
         /\ items' = items
<1>1. row' = [row EXCEPT ![b].status = to]
  BY DEF WriteStatus
<1>2. row \in [Booking -> Row]
  BY DEF TypeOK, DbType
<1>3. \A x \in Booking \ {b} : row'[x] = row[x]
  BY <1>1, <1>2
<1>4. row'[b].status = to
  BY <1>1, <1>2 DEF Row
<1> QED
  BY <1>3, <1>4 DEF WriteStatus

LEMMA CommitFrame ==
  ASSUME TypeOK, CallOK, NEW c \in Call,
         CommitCreate(c) \/ CommitReschedule(c) \/ CommitCancel(c) \/ CommitStatus(c)
  PROVE  Frame(c)
<1>1. row \in [Booking -> Row] /\ c \in Booking
  BY DEF TypeOK, DbType, Booking
<1>2. CASE CommitCreate(c)
  <2>1. pc[c] = "commit" /\ req[c].op = "create" /\ UNCHANGED <<req, target, seen>>
    BY <1>2 DEF CommitCreate, local
  <2>2. CASE UNCHANGED db /\ \E kind, b : Answer(c, kind, b)
    BY <2>1, <2>2, RefuseFrame
  <2>3. CASE /\ Answer(c, "OK", c)
             /\ row' = [row EXCEPT ![c] = [status |-> "CONFIRMED",
                                           start |-> req[c].start,
                                           staff |-> plan[c].staff]]
    <3>1. ~Exists(c)
      BY <2>1 DEF CallOK, OneCallOK
    <3>2. row'[c].status \in Status /\ \A x \in Booking \ {c} : row'[x] = row[x]
      BY <1>1, <2>3 DEF Status, Live
    <3> QED
      BY <1>1, <2>1, <2>3, <3>1, <3>2, WritingFrame
  <2> QED
    BY <1>2, <2>2, <2>3 DEF CommitCreate, Refuse
<1>3. CASE CommitReschedule(c)
  <2>1. pc[c] = "commit" /\ req[c].op = "reschedule" /\ UNCHANGED <<req, target, seen>>
    BY <1>3 DEF CommitReschedule, local
  <2>2. target[c] \in Booking /\ Exists(target[c]) /\ row[target[c]].status \in Status
    BY <2>1 DEF CallOK, OneCallOK, Status
  <2>3. CASE Refuse(c, "SLOT_FULL")
    BY <2>1, <2>3, RefuseFrame DEF Refuse
  <2>4. CASE /\ Answer(c, "OK", target[c])
             /\ row' = [row EXCEPT ![target[c]] = MovedRow(c, target[c])]
    <3>1. /\ row'[target[c]].status = row[target[c]].status
          /\ \A x \in Booking \ {target[c]} : row'[x] = row[x]
      BY <1>1, <2>2, <2>4 DEF MovedRow
    <3> QED
      BY <2>1, <2>2, <2>4, <3>1, WritingFrame
  <2> QED
    BY <1>3, <2>3, <2>4 DEF CommitReschedule
<1>4. CASE CommitCancel(c)
  <2>1. /\ pc[c] = "write" /\ UNCHANGED <<req, target, seen>>
        /\ rowLock[target[c]] = None /\ WriteStatus(target[c], "CANCELLED")
        /\ Answer(c, "OK", target[c])
    BY <1>4 DEF CommitCancel, local
  <2>2. target[c] \in Booking /\ Exists(target[c]) /\ "CANCELLED" \in Status
    BY <2>1 DEF CallOK, OneCallOK, Status, Terminal, Dead
  <2> QED
    BY <2>1, <2>2, WrittenStatus, WritingFrame
<1>5. CASE CommitStatus(c)
  <2>1. /\ pc[c] = "write" /\ UNCHANGED <<req, target, seen>>
        /\ rowLock[target[c]] = None /\ req[c].op = "status"
    BY <1>5 DEF CommitStatus, local
  <2>2. target[c] \in Booking /\ Exists(target[c]) /\ req[c].to \in Status
    BY <2>1, RequestOf DEF CallOK, OneCallOK, Accepted, CreateAccepted
  <2>3. CASE Refuse(c, "ERROR")
    BY <2>1, <2>3, RefuseFrame DEF Refuse
  <2>4. CASE WriteStatus(target[c], req[c].to) /\ Answer(c, "OK", target[c])
    BY <2>1, <2>2, <2>4, WrittenStatus, WritingFrame
  <2> QED
    BY <1>5, <2>3, <2>4 DEF CommitStatus
<1> QED
  BY <1>2, <1>3, <1>4, <1>5

LEMMA CallFrame ==
  ASSUME TypeOK, CallOK, NEW c \in Call, Start(c) \/ Continue(c) \/ Abort(c)
  PROVE  Frame(c)
<1>1. ASSUME NEW r \in Request,
             \/ BeginCreate(c, r)
             \/ \E b \in Booking : \/ BeginReschedule(c, r, b)
                                   \/ BeginCancel(c, r, b)
                                   \/ BeginStatus(c, r, b)
      PROVE  Frame(c)
  <2>1. CASE BeginCreate(c, r)
    BY <2>1, BeginFrame DEF BeginCreate
  <2>2. ASSUME NEW b \in Booking, BeginReschedule(c, r, b) PROVE Frame(c)
    BY <2>2, BeginFrame DEF BeginReschedule
  <2>3. ASSUME NEW b \in Booking, BeginCancel(c, r, b) PROVE Frame(c)
    BY <2>3, BeginFrame DEF BeginCancel
  <2>4. ASSUME NEW b \in Booking, BeginStatus(c, r, b) PROVE Frame(c)
    BY <2>4, BeginFrame DEF BeginStatus
  <2> QED
    BY <1>1, <2>1, <2>2, <2>3, <2>4
<1> QED
  BY <1>1, ReadingFrame, CommitFrame DEF Start, Continue

(* The other calls keep what they knew.                                    *)
LEMMA OthersKeep ==
  ASSUME TypeOK, CallOK, NEW c \in Call, Frame(c), NEW d \in Call \ {c}
  PROVE  OneCallOK(d)'
<1>1. OneCallOK(d) /\ d \in Booking
  BY DEF CallOK, Booking
<1>2. /\ pc'[d] = pc[d] /\ req'[d] = req[d] /\ target'[d] = target[d]
      /\ seen'[d] = seen[d]
  BY DEF Frame
<1>3. \A b \in Booking : Exists(b) => Exists(b)'
  BY DEF Frame
<1>4. pc[d] # "done" => ~Exists(d)'
  BY <1>1 DEF Frame, OneCallOK
<1>5. pc[d] \in {"decide", "commit"} /\ req[d].op = "reschedule" =>
        rowLock'[target[d]] = d /\ row'[target[d]].status \in Live
  <2> SUFFICES ASSUME pc[d] \in {"decide", "commit"}, req[d].op = "reschedule"
               PROVE  rowLock'[target[d]] = d /\ row'[target[d]].status \in Live
    OBVIOUS
  <2>1. /\ target[d] \in Booking /\ rowLock[target[d]] = d
        /\ row[target[d]].status \in Live /\ Exists(target[d])
    BY <1>1 DEF OneCallOK
  <2> QED
    BY <2>1 DEF Frame
<1> QED
  BY <1>1, <1>2, <1>3, <1>4, <1>5 DEF OneCallOK

(* So do the bookings.                                                     *)
LEMMA MadeKeep ==
  ASSUME TypeOK, CallOK, NEW c \in Call, Frame(c), NEW b \in Booking, Exists(b)'
  PROVE  CreateAccepted(Made(b))'
<1>1. CASE b \in Seed
  BY <1>1, RequestAssumption DEF Made, CreateAccepted
<1>2. CASE b \notin Seed
  <2>1. b \in Call
    BY <1>2 DEF Booking
  <2>2. CASE Exists(b)
    <3>1. pc[b] # "idle" /\ CreateAccepted(req[b])
      BY <1>2, <2>1, <2>2 DEF CallOK, OneCallOK, Made
    <3>2. req'[b] = req[b]
      BY <2>1, <3>1 DEF Frame
    <3> QED
      BY <1>2, <3>1, <3>2 DEF Made, CreateAccepted
  <2>3. CASE ~Exists(b)
    <3>1. b = c /\ pc[c] = "commit" /\ req[c].op = "create"
      BY <2>3 DEF Frame
    <3>2. CreateAccepted(req[c]) /\ req'[c] = req[c]
      BY <3>1, RequestOf DEF Frame, Accepted
    <3> QED
      BY <1>2, <3>1, <3>2 DEF Made, CreateAccepted
  <2> QED
    BY <2>2, <2>3
<1> QED
  BY <1>1, <1>2

(* A call that has just been answered.                                     *)
LEMMA AnsweredKeeps ==
  ASSUME TypeOK, CallOK, NEW c \in Call, Frame(c), NEW kind, NEW o,
         Answer(c, kind, o), req'[c] \in Request, target'[c] \in Booking,
         req'[c].op # "create" => seen'[c].status \in Status
  PROVE  OneCallOK(c)'
<1>1. pc'[c] = "done"
  BY DEF Answer, TypeOK, ProgressType
<1> QED
  BY <1>1 DEF OneCallOK

LEMMA ExistingStatus ==
  ASSUME TypeOK, NEW b \in Booking
  PROVE  Exists(b) <=> row[b].status \in Status
  BY DEF TypeOK, DbType, Row, Exists, Status, Live, Terminal, Dead

(* The first step of a call.                                               *)
LEMMA StartKeeps ==
  ASSUME TypeOK, CallOK, NEW c \in Call, Start(c)
  PROVE  OneCallOK(c)'
<1>1. Frame(c)
  BY CallFrame
<1> SUFFICES ASSUME NEW r \in Request, NEW b \in Booking,
                    \/ BeginCreate(c, r) /\ b = c
                    \/ BeginReschedule(c, r, b)
                    \/ BeginCancel(c, r, b)
                    \/ BeginStatus(c, r, b)
             PROVE  OneCallOK(c)'
  BY DEF Start, Booking
<1>2. Begin(c, r, b) /\ UNCHANGED db
  BY DEF BeginCreate, BeginReschedule, BeginCancel, BeginStatus
<1>3. pc[c] = "idle" /\ req'[c] = r /\ target'[c] = b /\ row' = row
  BY <1>2 DEF Begin, TypeOK, InputType, db
<1>4. ~Exists(c)' /\ Exists(b)' = Exists(b)
  BY <1>3 DEF CallOK, OneCallOK, Exists
<1>5. r.op # "create" => seen'[c].status \in Status
  <2>1. r.op # "create" => Exists(b) /\ seen' = [seen EXCEPT ![c] = row[b]]
    BY DEF BeginCreate, BeginReschedule, BeginCancel, BeginStatus
  <2> QED
    BY <2>1, ExistingStatus DEF TypeOK, InputType
<1>6. CASE \E kind, o : Answer(c, kind, o)
  BY <1>1, <1>3, <1>5, <1>6, AnsweredKeeps
<1>7. CASE BeginCreate(c, r) /\ b = c /\ Proceed(c, "admission")
  <2>1. pc'[c] = "admission" /\ r.op = "create"
    BY <1>7 DEF BeginCreate, Proceed, TypeOK, ProgressType
  <2> QED
    BY <1>3, <1>4, <1>7, <2>1 DEF OneCallOK
<1>8. CASE BeginReschedule(c, r, b) /\ Proceed(c, "locking")
  <2>1. pc'[c] = "locking" /\ r.op = "reschedule" /\ Exists(b)
    BY <1>8 DEF BeginReschedule, Proceed, TypeOK, ProgressType
  <2> QED
    BY <1>3, <1>4, <1>5, <2>1 DEF OneCallOK
<1>9. CASE (BeginCancel(c, r, b) \/ BeginStatus(c, r, b)) /\ Proceed(c, "write")
  <2>1. pc'[c] = "write" /\ r.op \in {"cancel", "status"} /\ Exists(b)
    BY <1>9 DEF BeginCancel, BeginStatus, Proceed, TypeOK, ProgressType
  <2> QED
    BY <1>3, <1>4, <1>5, <2>1 DEF OneCallOK
<1> QED
  BY <1>6, <1>7, <1>8, <1>9 DEF BeginCreate, BeginReschedule, BeginCancel, BeginStatus

(* The later steps.                                                        *)
LEMMA ContinueKeeps ==
  ASSUME TypeOK, CallOK, NEW c \in Call, Continue(c) \/ Abort(c)
  PROVE  OneCallOK(c)'
<1>1. Frame(c)
  BY CallFrame
<1>2. pc[c] # "idle" /\ pc[c] # "done"
  BY DEF Continue, Abort, AdmitCreate, AcquireDay, LockRow, Decide, CommitCreate,
         CommitReschedule, CommitCancel, CommitStatus
<1>3. /\ req'[c] = req[c] /\ target'[c] = target[c] /\ seen'[c] = seen[c]
      /\ req[c] \in Request /\ target[c] \in Booking /\ ~Exists(c)
      /\ req[c].op # "create" => seen[c].status \in Status
  BY <1>1, <1>2 DEF Frame, CallOK, OneCallOK
<1>4. CASE \E kind, o : Answer(c, kind, o)
  BY <1>1, <1>3, <1>4, AnsweredKeeps
<1>5. CASE AdmitCreate(c) /\ Proceed(c, "locking") /\ UNCHANGED db
  <2>1. pc'[c] = "locking" /\ row' = row /\ pc[c] = "admission"
    BY <1>5 DEF AdmitCreate, Proceed, TypeOK, ProgressType, db
  <2> QED
    BY <1>3, <2>1 DEF CallOK, OneCallOK, Exists
<1>6. CASE AcquireDay(c)
  <2>1. /\ pc[c] = "locking" /\ row' = row
        /\ pc'[c] = IF req[c].op = "create" THEN "decide" ELSE "rowlock"
    BY <1>6 DEF AcquireDay, TypeOK, ProgressType, db
  <2> QED
    BY <1>3, <2>1 DEF CallOK, OneCallOK, Exists
<1>7. CASE LockRow(c) /\ ~Refuse(c, "INVALID_BOOKING_STATE")
  <2>1. /\ pc[c] = "rowlock" /\ row' = row /\ row[target[c]].status \in Live
        /\ rowLock' = [rowLock EXCEPT ![target[c]] = c]
        /\ pc' = [pc EXCEPT ![c] = "decide"]
    BY <1>7 DEF LockRow, db
  <2>2. pc'[c] = "decide" /\ rowLock'[target[c]] = c
    BY <1>3, <2>1 DEF TypeOK, ProgressType, LockType
  <2> QED
    BY <1>3, <2>1, <2>2 DEF CallOK, OneCallOK, Exists
<1>8. CASE Decide(c) /\ Proceed(c, "commit") /\ UNCHANGED db
  <2>1. pc'[c] = "commit" /\ row' = row /\ pc[c] = "decide" /\ rowLock' = rowLock
    BY <1>8 DEF Decide, Proceed, TypeOK, ProgressType, db
  <2> QED
    BY <1>3, <2>1 DEF CallOK, OneCallOK, Exists
<1>9. \/ \E kind, o : Answer(c, kind, o)
      \/ AdmitCreate(c) /\ Proceed(c, "locking") /\ UNCHANGED db
      \/ AcquireDay(c)
      \/ LockRow(c) /\ ~Refuse(c, "INVALID_BOOKING_STATE")
      \/ Decide(c) /\ Proceed(c, "commit") /\ UNCHANGED db
  <2>1. \A kind : Refuse(c, kind) => \E k, o : Answer(c, k, o)
    BY DEF Refuse
  <2>2. CASE CommitCreate(c)
    BY <2>1, <2>2 DEF CommitCreate
  <2>3. CASE CommitReschedule(c)
    BY <2>1, <2>3 DEF CommitReschedule
  <2>4. CASE CommitCancel(c) \/ CommitStatus(c) \/ Abort(c)
    BY <2>1, <2>4 DEF CommitCancel, CommitStatus, Abort
  <2>5. CASE AdmitCreate(c) \/ Decide(c)
    BY <2>1, <2>5 DEF AdmitCreate, Decide
  <2>6. CASE LockRow(c)
    BY <2>1, <2>6 DEF LockRow
  <2> QED
    BY <2>2, <2>3, <2>4, <2>5, <2>6 DEF Continue
<1> QED
  BY <1>4, <1>5, <1>6, <1>7, <1>8, <1>9

LEMMA StepCall ==
  ASSUME TypeOK, CallOK, [Next]_vars
  PROVE  CallOK'
<1>1. ASSUME NEW c \in Call, Start(c) \/ Continue(c) \/ Abort(c)
      PROVE  CallOK'
  <2>1. Frame(c)
    BY <1>1, CallFrame
  <2>2. \A b \in Booking : Exists(b)' => CreateAccepted(Made(b))'
    BY <2>1, MadeKeep
  <2>3. OneCallOK(c)'
    BY <1>1, StartKeeps, ContinueKeeps
  <2>4. \A d \in Call \ {c} : OneCallOK(d)'
    BY <2>1, OthersKeep
  <2> QED
    BY <2>2, <2>3, <2>4 DEF CallOK
<1>2. CASE UNCHANGED <<row, rowLock, pc, req, target, seen>>
  BY <1>2 DEF CallOK, OneCallOK, Exists, Made, CreateAccepted
<1>3. CASE Tick
  BY <1>2, <1>3 DEF Tick, db, locks, local
<1>4. CASE UNCHANGED vars
  BY <1>2, <1>4 DEF vars
<1>5. CASE \E o \in Booking, k \in JobKind : Work(o, k)
  BY <1>2, <1>5, WorkSets
<1> QED
  BY <1>1, <1>3, <1>4, <1>5 DEF Next, Rest

(***************************************************************************)
(* Every variable keeps its type, and only a call that succeeds names a    *)
(* booking, for whatever requests, bookings, staff, menus and rules.       *)
(***************************************************************************)
THEOREM TypeCorrect == Spec => []TypeOK
<1>1. Init => TypeOK /\ CallOK
  BY InitType, InitCall
<1>2. TypeOK /\ CallOK /\ [Next]_vars => (TypeOK /\ CallOK)'
  BY StepType, StepCall
<1> QED
  BY <1>1, <1>2, PTL DEF Spec

-----------------------------------------------------------------------------
(* Occupancy follows the status                                            *)

(* Only a commit and the worker write the database.                        *)
LEMMA QuietOrCommit ==
  ASSUME [Next]_vars
  PROVE  \/ UNCHANGED db
         \/ \E o \in Booking, k \in JobKind : Work(o, k)
         \/ \E c \in Call : \/ CommitCreate(c) \/ CommitReschedule(c)
                            \/ CommitCancel(c) \/ CommitStatus(c)
<1>1. ASSUME NEW c \in Call, Start(c) PROVE UNCHANGED db
  BY <1>1 DEF Start, BeginCreate, BeginReschedule, BeginCancel, BeginStatus
<1>2. ASSUME NEW c \in Call,
             AdmitCreate(c) \/ AcquireDay(c) \/ LockRow(c) \/ Decide(c) \/ Abort(c)
      PROVE  UNCHANGED db
  <2>1. \A kind : Refuse(c, kind) => UNCHANGED db
    BY DEF Refuse
  <2>2. CASE AdmitCreate(c) \/ Abort(c)
    BY <2>1, <2>2 DEF AdmitCreate, Abort
  <2>3. CASE AcquireDay(c)
    BY <2>3 DEF AcquireDay, db
  <2>4. CASE LockRow(c)
    BY <2>1, <2>4 DEF LockRow, db
  <2>5. CASE Decide(c)
    BY <2>1, <2>5 DEF Decide
  <2> QED
    BY <1>2, <2>2, <2>3, <2>4, <2>5
<1>3. Tick \/ UNCHANGED vars => UNCHANGED db
  BY DEF Tick, vars, db
<1> QED
  BY <1>1, <1>2, <1>3 DEF Next, Rest, Continue

(* What a create, a reschedule and a change of status do to the calendar,  *)
(* when they do not fail.                                                  *)
Placed(c) ==
  /\ pc[c] = "commit" /\ req[c].op = "create" /\ ~Exists(c)
  /\ pc'[c] = "done"
  /\ row' = [row EXCEPT ![c] = [status |-> "CONFIRMED", start |-> req[c].start,
                                staff |-> plan[c].staff]]
  /\ items' = [items EXCEPT ![c] = plan[c].items]
  /\ active' = [active EXCEPT ![c] = TRUE]
  /\ revived' = revived
  /\ ~StaffClash(c, plan[c].items)

Moved(c, b) ==
  /\ pc[c] = "commit" /\ req[c].op = "reschedule" /\ pc'[c] = "done"
  /\ b = target[c] /\ b \in Booking /\ row[b].status \in Live
  /\ row' = [row EXCEPT ![b] = MovedRow(c, b)]
  /\ items' = [items EXCEPT ![b] = plan[c].items]
  /\ active' = [active EXCEPT ![b] = TRUE]
  /\ revived' = revived
  /\ ~StaffClash(b, plan[c].items)

Restated(b, to) ==
  /\ b \in Booking /\ Exists(b) /\ to \in Status
  /\ WriteStatus(b, to)
  /\ Reactivates(b, to) => ~StaffClash(b, items[b])

LEMMA CalendarSteps ==
  ASSUME TypeOK, CallOK, [Next]_vars
  PROVE  \/ UNCHANGED visits
         \/ \E c \in Call : Placed(c) \/ Moved(c, target[c])
         \/ \E b \in Booking, to \in Status : Restated(b, to)
<1>0. /\ \A c \in Call : \A kind, b : Answer(c, kind, b) => pc'[c] = "done"
      /\ UNCHANGED db => UNCHANGED visits
  BY DEF Answer, TypeOK, ProgressType, db, visits
<1>1. ASSUME NEW c \in Call, CommitCreate(c)
      PROVE  UNCHANGED db \/ Placed(c)
  <2>1. pc[c] = "commit" /\ req[c].op = "create" /\ ~Exists(c)
    BY <1>1 DEF CommitCreate, CallOK, OneCallOK
  <2> QED
    BY <1>0, <1>1, <2>1 DEF CommitCreate, Refuse, Placed
<1>2. ASSUME NEW c \in Call, CommitReschedule(c)
      PROVE  UNCHANGED db \/ Moved(c, target[c])
  <2>1. pc[c] = "commit" /\ req[c].op = "reschedule"
    BY <1>2 DEF CommitReschedule
  <2>2. target[c] \in Booking /\ row[target[c]].status \in Live
    BY <2>1 DEF CallOK, OneCallOK
  <2> QED
    BY <1>0, <1>2, <2>1, <2>2 DEF CommitReschedule, Refuse, Moved
<1>3. ASSUME NEW c \in Call, CommitCancel(c)
      PROVE  \E b \in Booking, to \in Status : Restated(b, to)
  <2>1. pc[c] = "write" /\ WriteStatus(target[c], "CANCELLED")
    BY <1>3 DEF CommitCancel
  <2>2. target[c] \in Booking /\ Exists(target[c]) /\ "CANCELLED" \in Status
    BY <2>1 DEF CallOK, OneCallOK, Status, Terminal, Dead
  <2>3. ~Reactivates(target[c], "CANCELLED")
    BY DEF Reactivates, ActiveAfter, Dead
  <2>4. Restated(target[c], "CANCELLED")
    BY <2>1, <2>2, <2>3 DEF Restated
  <2> QED
    BY <2>2, <2>4
<1>4. ASSUME NEW c \in Call, CommitStatus(c)
      PROVE  UNCHANGED db \/ \E b \in Booking, to \in Status : Restated(b, to)
  <2>1. pc[c] = "write" /\ req[c].op = "status"
    BY <1>4 DEF CommitStatus
  <2>2. target[c] \in Booking /\ Exists(target[c]) /\ req[c].to \in Status
    BY <2>1, RequestOf DEF CallOK, OneCallOK, Accepted, CreateAccepted
  <2>3. UNCHANGED db \/ Restated(target[c], req[c].to)
    BY <1>4, <2>2 DEF CommitStatus, Refuse, Restated
  <2> QED
    BY <2>2, <2>3
<1>5. ASSUME NEW o \in Booking, NEW k \in JobKind, Work(o, k) PROVE UNCHANGED visits
  BY <1>5, WorkSets DEF visits
<1> QED
  BY <1>0, <1>1, <1>2, <1>3, <1>4, <1>5, QuietOrCommit

(***************************************************************************)
(* A booking is on the calendar exactly while it is neither cancelled nor  *)
(* a no-show.  The reschedule writes active = TRUE without looking: it is  *)
(* safe because of CallOK, the row lock it took after the second look at   *)
(* the status keeps that status live until its commit.                     *)
(***************************************************************************)
LEMMA StepGhost ==
  ASSUME TypeOK, CallOK, NoGhostOccupancy, [Next]_vars
  PROVE  NoGhostOccupancy'
<1>1. active \in [Booking -> BOOLEAN] /\ row \in [Booking -> Row]
  BY DEF TypeOK, DbType
<1>2. \A s \in Live : s \notin Dead \cup {"NONE"}
  BY DEF Live, Dead
<1>3. CASE UNCHANGED visits
  BY <1>3 DEF visits, NoGhostOccupancy
<1>4. ASSUME NEW c \in Call, Placed(c) PROVE NoGhostOccupancy'
  <2>1. c \in Booking
    BY DEF Booking
  <2>2. active'[c] /\ row'[c].status = "CONFIRMED"
    BY <1>1, <1>4, <2>1 DEF Placed
  <2>3. \A b \in Booking \ {c} : active'[b] = active[b] /\ row'[b] = row[b]
    BY <1>1, <1>4 DEF Placed
  <2> QED
    BY <1>2, <2>2, <2>3 DEF NoGhostOccupancy, Live
<1>5. ASSUME NEW c \in Call, NEW b, Moved(c, b) PROVE NoGhostOccupancy'
  <2>1. b \in Booking /\ row[b].status \in Live
    BY <1>5 DEF Moved
  <2>2. active'[b] /\ row'[b].status = row[b].status
    BY <1>1, <1>5, <2>1 DEF Moved, MovedRow
  <2>3. \A o \in Booking \ {b} : active'[o] = active[o] /\ row'[o] = row[o]
    BY <1>1, <1>5 DEF Moved
  <2> QED
    BY <1>2, <2>1, <2>2, <2>3 DEF NoGhostOccupancy
<1>6. ASSUME NEW b \in Booking, NEW to \in Status, Restated(b, to)
      PROVE  NoGhostOccupancy'
  <2>1. /\ row'[b].status = to /\ \A x \in Booking \ {b} : row'[x] = row[x]
        /\ active' = [active EXCEPT ![b] = ActiveAfter(b, to)]
    BY <1>6, WrittenStatus DEF Restated
  <2>2. active'[b] = ActiveAfter(b, to)
    BY <1>1, <2>1
  <2>3. \A o \in Booking \ {b} : active'[o] = active[o]
    BY <1>1, <2>1
  <2>4. to # "NONE"
    BY DEF Status, Live, Terminal, Dead
  <2>5. ActiveAfter(b, to) <=> to \notin Dead \cup {"NONE"}
    BY <2>4 DEF ActiveAfter, NoGhostOccupancy
  <2> QED
    BY <2>1, <2>2, <2>3, <2>5 DEF NoGhostOccupancy
<1> QED
  BY <1>3, <1>4, <1>5, <1>6, CalendarSteps

LEMMA InitGhost == Init => NoGhostOccupancy
<1> SUFFICES ASSUME Init, NEW b \in Booking
             PROVE  active[b] <=> row[b].status \notin Dead \cup {"NONE"}
  BY DEF NoGhostOccupancy
<1>1. active = [o \in Booking |-> o \in Seed]
  BY DEF Init
<1>2. CASE b \in Seed
  <2>1. row[b].status = "CONFIRMED" /\ active[b]
    BY <1>1, <1>2 DEF Init
  <2> QED
    BY <2>1 DEF Dead
<1>3. CASE b \notin Seed
  <2>1. row[b].status = "NONE" /\ ~active[b]
    BY <1>1, <1>3 DEF Init, NoRow
  <2> QED
    BY <2>1
<1> QED
  BY <1>2, <1>3

(***************************************************************************)
(* No ghost occupancy: from the first state on, and by StepGhost.          *)
(***************************************************************************)
THEOREM GhostFree == Spec => []NoGhostOccupancy
<1>1. Init => NoGhostOccupancy
  BY InitGhost
<1>2. Init => TypeOK /\ CallOK
  BY InitType, InitCall
<1>3. /\ TypeOK /\ CallOK /\ NoGhostOccupancy /\ [Next]_vars
      => (TypeOK /\ CallOK /\ NoGhostOccupancy)'
  BY StepType, StepCall, StepGhost
<1> QED
  BY <1>1, <1>2, <1>3, PTL DEF Spec

(* The items of a booking change only while it is confirmed or pending,    *)
(* however its reschedules and status changes interleave.                  *)
THEOREM MovesAreLive == Spec => MovesOnlyWhileLive
<1>1. ASSUME TypeOK, CallOK, [Next]_vars
      PROVE  [\A b \in Booking : Exists(b) /\ items'[b] # items[b] =>
                row[b].status \in Live]_vars
  <2> SUFFICES ASSUME NEW b \in Booking, Exists(b), items'[b] # items[b]
               PROVE  row[b].status \in Live
    OBVIOUS
  <2>1. items \in [Booking -> SUBSET Interval]
    BY <1>1 DEF TypeOK, DbType
  <2>2. ~UNCHANGED visits
    BY DEF visits
  <2>3. ASSUME NEW c \in Call, Placed(c) PROVE FALSE
    BY <2>1, <2>3 DEF Placed
  <2>4. ASSUME NEW o, NEW to, Restated(o, to) PROVE FALSE
    BY <2>4 DEF Restated, WriteStatus
  <2>5. PICK c \in Call : Moved(c, target[c])
    BY <1>1, <2>2, <2>3, <2>4, CalendarSteps
  <2> QED
    BY <2>1, <2>5 DEF Moved
<1>2. Init => TypeOK /\ CallOK
  BY InitType, InitCall
<1>3. TypeOK /\ CallOK /\ [Next]_vars => (TypeOK /\ CallOK)'
  BY StepType, StepCall
<1> QED
  BY <1>1, <1>2, <1>3, PTL DEF Spec, MovesOnlyWhileLive

-----------------------------------------------------------------------------
(* No staff member is double booked                                        *)

(* What the exclusion constraint enforces: between any two bookings, not   *)
(* only between the one that is written and the others.                    *)
StaffExclusive == \A b \in Booking : active[b] => ~StaffClash(b, items[b])

(* Writing one booking whose items clash with nobody's keeps it so.        *)
LEMMA ExclusiveWrite ==
  ASSUME TypeOK, StaffExclusive, NEW b \in Booking,
         \A o \in Booking \ {b} : active'[o] = active[o] /\ items'[o] = items[o],
         active'[b] => ~StaffClash(b, items'[b])
  PROVE  StaffExclusive'
<1> SUFFICES ASSUME NEW o \in Booking, active'[o],
                    NEW p \in Booking \ {o}, active'[p],
                    NEW x \in items'[p], NEW y \in items'[o],
                    x.staff = y.staff, x.staff # NoStaff, Overlap(x, y)
             PROVE  FALSE
  BY DEF StaffExclusive, StaffClash, Overlap
<1>1. CASE o = b
  BY <1>1 DEF StaffClash
<1>2. CASE p = b
  <2>1. Overlap(y, x) /\ y.staff = x.staff /\ y.staff # NoStaff
    BY DEF Overlap
  <2>2. active[o] /\ y \in items[o] /\ o # b
    BY <1>2
  <2> QED
    BY <1>2, <2>1, <2>2 DEF StaffClash
<1>3. CASE o # b /\ p # b
  BY <1>3 DEF StaffExclusive, StaffClash
<1> QED
  BY <1>1, <1>2, <1>3

LEMMA StepExclusive ==
  ASSUME TypeOK, CallOK, StaffExclusive, [Next]_vars
  PROVE  StaffExclusive'
<1>1. active \in [Booking -> BOOLEAN] /\ items \in [Booking -> SUBSET Interval]
  BY DEF TypeOK, DbType
<1>2. CASE UNCHANGED visits
  BY <1>2 DEF visits, StaffExclusive, StaffClash
<1>3. ASSUME NEW c \in Call, Placed(c) PROVE StaffExclusive'
  <2>1. c \in Booking
    BY DEF Booking
  <2>2. items'[c] = plan[c].items /\ ~StaffClash(c, plan[c].items)
    BY <1>1, <1>3, <2>1 DEF Placed
  <2>3. \A o \in Booking \ {c} : active'[o] = active[o] /\ items'[o] = items[o]
    BY <1>1, <1>3 DEF Placed
  <2> QED
    BY <2>1, <2>2, <2>3, ExclusiveWrite
<1>4. ASSUME NEW c \in Call, Moved(c, target[c]) PROVE StaffExclusive'
  <2> DEFINE b == target[c]
  <2>1. b \in Booking
    BY <1>4 DEF Moved
  <2>2. items'[b] = plan[c].items /\ ~StaffClash(b, plan[c].items)
    BY <1>1, <1>4, <2>1 DEF Moved
  <2>3. \A o \in Booking \ {b} : active'[o] = active[o] /\ items'[o] = items[o]
    BY <1>1, <1>4 DEF Moved
  <2> HIDE DEF b
  <2> QED
    BY <2>1, <2>2, <2>3, ExclusiveWrite
<1>5. ASSUME NEW b \in Booking, NEW to \in Status, Restated(b, to)
      PROVE  StaffExclusive'
  <2>1. active' = [active EXCEPT ![b] = ActiveAfter(b, to)] /\ items' = items
    BY <1>5, WrittenStatus DEF Restated
  <2>2. \A o \in Booking \ {b} : active'[o] = active[o] /\ items'[o] = items[o]
    BY <1>1, <2>1
  <2>3. active'[b] = ActiveAfter(b, to)
    BY <1>1, <2>1
  <2>4. active'[b] => ~StaffClash(b, items[b])
    BY <1>5, <2>3 DEF Restated, Reactivates, StaffExclusive
  <2> QED
    BY <2>1, <2>2, <2>4, ExclusiveWrite
<1> QED
  BY <1>2, <1>3, <1>4, <1>5, CalendarSteps

LEMMA InitExclusive == Init => StaffExclusive
<1> SUFFICES ASSUME Init, NEW b \in Booking, active[b] PROVE ~StaffClash(b, items[b])
  BY DEF StaffExclusive
<1>1. \A o \in Booking : active[o] => o \in Seed /\ items[o] = SeedItems(o)
  BY DEF Init
<1> QED
  BY <1>1, SeedAssumption DEF StaffClash

(***************************************************************************)
(* No staff member ever serves two bookings at once.  The test of each     *)
(* commit compares one booking with the others; that no two of the others  *)
(* clash is the invariant StaffExclusive, and it covers the revival of a   *)
(* booking by a stale change of status.                                    *)
(***************************************************************************)
THEOREM StaffSafe == Spec => []StaffNeverDoubleBooked
<1>1. Init => TypeOK /\ CallOK
  BY InitType, InitCall
<1>2. Init => StaffExclusive
  BY InitExclusive
<1>3. /\ TypeOK /\ CallOK /\ StaffExclusive /\ [Next]_vars
      => (TypeOK /\ CallOK /\ StaffExclusive)'
  BY StepType, StepCall, StepExclusive
<1>4. TypeOK /\ StaffExclusive => StaffNeverDoubleBooked
  <2> SUFFICES ASSUME TypeOK, StaffExclusive,
                      NEW s \in Staff, NEW t \in Instant,
                      NEW b \in Booking, NEW o \in Booking,
                      Serves(b, s, t), Serves(o, s, t), b # o
               PROVE  FALSE
    BY DEF StaffNeverDoubleBooked
  <2>1. PICK x \in items[o] : x.staff = s /\ Covers(x, t)
    BY DEF Serves
  <2>2. PICK y \in items[b] : y.staff = s /\ Covers(y, t)
    BY DEF Serves
  <2>3. /\ t \in Int /\ x.start \in Int /\ x.end \in Int
        /\ y.start \in Int /\ y.end \in Int
    <3>1. x \in Interval /\ y \in Interval
      BY <2>1, <2>2 DEF TypeOK, DbType
    <3> QED
      BY <3>1, RequestAssumption DEF Interval
  <2>4. Overlap(x, y)
    BY <2>1, <2>2, <2>3 DEF Covers, Overlap
  <2>5. s # NoStaff
    BY NamesAssumption
  <2> QED
    BY <2>1, <2>2, <2>4, <2>5 DEF StaffExclusive, StaffClash, Serves
<1> QED
  BY <1>1, <1>2, <1>3, <1>4, PTL DEF Spec

-----------------------------------------------------------------------------
(* The shop and its services are never overbooked when visits end on the   *)
(* day they start (ClosesInTime).  Between the decision of a call and its  *)
(* commit, the day it writes to is locked: nobody else can put a booking   *)
(* there (Gain, LockKept), so the room the decision found (DecideRoom) is  *)
(* still there (RoomKept).                                                 *)

(* The shop and each service are counted alike: the bookings that hold an  *)
(* instant with an item of one of the services of a scope, and the limit.  *)
Limits ==
  {[scope |-> DOMAIN CapacityOf, limit |-> Rules.shopCapacity]}
  \cup {[scope |-> {v}, limit |-> CapacityOf[v]] : v \in DOMAIN CapacityOf}

Using(B, V, t) ==
  {b \in B : active[b] /\ \E iv \in items[b] : iv.svc \in V /\ Covers(iv, t)}

Kept(B) ==
  \A l \in Limits, t \in Instant : Cardinality(Using(B, l.scope, t)) <= l.limit

(* What a call about to commit can rely on: its items lie on the day it    *)
(* has locked, and wherever they lie one more booking fits.                *)
OnItsDay(c) ==
  \A t \in Instant : Within(plan[c].items, t) => DayOf(t) = DayOf(req[c].start)

Room(c) ==
  \A l \in Limits, t \in Instant :
    (\E iv \in plan[c].items : iv.svc \in l.scope /\ Covers(iv, t)) =>
      Cardinality(Using(Booking \ (revived \cup {target[c]}), l.scope, t)) < l.limit

HoldsLock(c) ==
  pc[c] \in {"rowlock", "decide", "commit"} => lock[DayOf(req[c].start)] = c

Prepared(c) ==
  pc[c] = "commit" => IsFiniteSet(plan[c].items) /\ OnItsDay(c) /\ Room(c)

ItemsFinite == \A b \in Booking : IsFiniteSet(items[b])

CapacityInv ==
  /\ ItemsFinite
  /\ Kept(Booking \ revived)
  /\ \A c \in Call : HoldsLock(c) /\ Prepared(c)

-----------------------------------------------------------------------------
(* Counting                                                                *)

LEMMA BookingFinite == IsFiniteSet(Booking)
  BY NamesAssumption, FS_Union DEF Booking

LEMMA LimitType ==
  ASSUME NEW l \in Limits
  PROVE  l.limit \in Int
<1>1. ASSUME NEW v \in DOMAIN CapacityOf PROVE CapacityOf[v] \in Int
  <2>1. PICK p \in Offered : p.svc = v
    BY DEF CapacityOf
  <2> DEFINE q == CHOOSE x \in Offered : x.svc = v
  <2>2. q \in Offered /\ CapacityOf[v] = q.capacity
    BY <2>1, Zenon DEF CapacityOf
  <2>3. PICK m \in Menu : \E i \in 1..Len(Parts[m]) : q = Parts[m][i]
    BY <2>2 DEF Offered
  <2>4. WellFormed(q)
    BY <2>3, MenuAssumption DEF WellFormedChain
  <2> HIDE DEF q
  <2> QED
    BY <2>2, <2>4 DEF WellFormed
<1> QED
  BY <1>1, CapacityAssumption DEF Limits

(* More bookings hold no less.                                             *)
LEMMA UsingGrows ==
  ASSUME NEW S \in SUBSET Booking, NEW T \in SUBSET S
  PROVE  /\ IsFiniteSet(S) /\ IsFiniteSet(T)
         /\ Cardinality(S) \in Nat /\ Cardinality(T) \in Nat
         /\ Cardinality(T) <= Cardinality(S)
  BY BookingFinite, FS_Subset, FS_CardinalityType

(* The rows a call reads in the window of its visit.  Each booking that    *)
(* holds an instant of the window has a row there.                         *)
LEMMA RowsRead ==
  ASSUME TypeOK, ItemsFinite, NEW b \in Booking, NEW from \in Int, NEW to \in Int
  PROVE  /\ IsFiniteSet(Occupied(b, from, to))
         /\ Timed(Occupied(b, from, to))
         /\ \A x \in Occupied(b, from, to) : x.svc \in DOMAIN CapacityOf
<1> DEFINE Others == {x \in Booking \ {b} : active[x]}
           row_(o, iv) == [booking |-> o, start |-> iv.start, end |-> iv.end,
                           svc |-> iv.svc, staff |-> iv.staff]
           Rows(o) == {row_(o, iv) : iv \in Touching(items[o], from, to)}
           All == {Rows(o) : o \in Others}
<1>1. Occupied(b, from, to) = UNION All
  BY DEF Occupied
<1>2. ASSUME NEW o \in Others PROVE IsFiniteSet(Rows(o))
  <2>1. IsFiniteSet(Touching(items[o], from, to))
    <3>1. Touching(items[o], from, to) \in SUBSET items[o]
      BY DEF Touching
    <3> QED
      BY <3>1, FS_Subset DEF ItemsFinite
  <2> DEFINE f == [iv \in Touching(items[o], from, to) |-> row_(o, iv)]
  <2>2. f \in Surjection(Touching(items[o], from, to), Rows(o))
    BY DEF Surjection
  <2> HIDE DEF f, Rows
  <2> QED
    BY <2>1, <2>2, FS_Surjection
<1>3. IsFiniteSet(All)
  <2>1. IsFiniteSet(Others)
    BY UsingGrows
  <2> DEFINE f == [o \in Others |-> Rows(o)]
  <2>2. f \in Surjection(Others, All)
    <3> HIDE DEF Rows
    <3> QED
      BY DEF Surjection
  <2> HIDE DEF f, All
  <2> QED
    BY <2>1, <2>2, FS_Surjection
<1>4. IsFiniteSet(UNION All)
  <2>1. \A T \in All : IsFiniteSet(T)
    BY <1>2
  <2> HIDE DEF All
  <2> QED
    BY <1>3, <2>1, FS_UNION
<1>5. ASSUME NEW x \in Occupied(b, from, to)
      PROVE  x.start \in Int /\ x.end \in Int /\ x.svc \in DOMAIN CapacityOf
  <2>1. PICK o \in Others : \E iv \in items[o] : x = row_(o, iv)
    BY DEF Occupied, Touching
  <2>2. PICK iv \in items[o] : x = row_(o, iv)
    BY <2>1
  <2>3. iv \in Interval
    BY <2>2 DEF TypeOK, DbType
  <2> QED
    BY <2>2, <2>3 DEF Interval
<1> QED
  BY <1>1, <1>4, <1>5 DEF Timed

LEMMA RowsCount ==
  ASSUME TypeOK, ItemsFinite, NEW b \in Booking, NEW from \in Int, NEW to \in Int,
         NEW t \in Int, from <= t, t < to, NEW V, NEW rows,
         rows = {x \in Occupied(b, from, to) : x.svc \in V}
  PROVE  Cardinality(Using(Booking \ (revived \cup {b}), V, t)) <= CountCovering(rows, t)
<1> DEFINE S == Using(Booking \ (revived \cup {b}), V, t)
           T == {x \in rows : Covers(x, t)}
           held(o) == CHOOSE iv \in items[o] : iv.svc \in V /\ Covers(iv, t)
           row_(o) == [booking |-> o, start |-> held(o).start, end |-> held(o).end,
                       svc |-> held(o).svc, staff |-> held(o).staff]
           f == [o \in S |-> row_(o)]
<1>1. ASSUME NEW o \in S PROVE row_(o) \in T
  <2>1. o \in Booking \ {b} /\ active[o]
    BY DEF Using
  <2>2. held(o) \in items[o] /\ held(o).svc \in V /\ Covers(held(o), t)
    BY Zenon DEF Using
  <2> HIDE DEF held
  <2>3. held(o).start \in Int /\ held(o).end \in Int
    BY <2>1, <2>2 DEF TypeOK, DbType, Interval
  <2>4. held(o) \in Touching(items[o], from, to)
    BY <2>2, <2>3 DEF Touching, Covers
  <2>5. row_(o) \in Occupied(b, from, to)
    BY <2>1, <2>4 DEF Occupied
  <2> QED
    BY <2>2, <2>5 DEF Covers
<1>2. \A o, p \in S : row_(o) = row_(p) => o = p
  <2> HIDE DEF held, S
  <2> QED
    OBVIOUS
<1>3. f \in Injection(S, T)
  <2> HIDE DEF S, T, row_
  <2> QED
    BY <1>1, <1>2 DEF Injection, IsInjective
<1>4. IsFiniteSet(T)
  <2>1. T \in SUBSET Occupied(b, from, to)
    OBVIOUS
  <2> QED
    BY <2>1, RowsRead, FS_Subset
<1> HIDE DEF f, S, T
<1>5. Cardinality(S) <= Cardinality(T)
  BY <1>3, <1>4, FS_Injection
<1> QED
  BY <1>5 DEF CountCovering, S, T

-----------------------------------------------------------------------------
(* The visit of a call                                                     *)

(* What a visit occupies does not depend on who serves it.                 *)
LEMMA StaffIndependent ==
  ASSUME NEW at, NEW part, NEW s, NEW q,
         NEW iv \in ServiceIntervals(at, part, s), NEW t, Covers(iv, t)
  PROVE  iv.svc = part.svc /\ Within(ServiceIntervals(at, part, q), t)
<1> DEFINE first == FirstSegment(part.segments)
           last  == LastSegment(part.segments)
           of(g, x) == [start |-> at + g.offset - (IF g = first THEN part.before ELSE 0),
                        end   |-> at + g.offset + g.dur
                                  + (IF g = last THEN part.after ELSE 0),
                        svc   |-> part.svc,
                        staff |-> x]
<1>1. PICK g \in part.segments : iv = of(g, s)
  BY DEF ServiceIntervals
<1>2. of(g, q) \in ServiceIntervals(at, part, q)
  BY DEF ServiceIntervals
<1>3. of(g, q).start = iv.start /\ of(g, q).end = iv.end /\ iv.svc = part.svc
  BY <1>1
<1> HIDE DEF of
<1> QED
  BY <1>2, <1>3 DEF Within, Covers

LEMMA VisitFinite ==
  ASSUME NEW parts, WellFormedChain(parts), NEW at, NEW s
  PROVE  IsFiniteSet(ChainIntervals(at, parts, s))
<1> DEFINE n == Len(parts)
           of(i) == ServiceIntervals(ChainCursor(at, parts)[i], parts[i], s)
           All == {of(i) : i \in 1..n}
<1>1. n \in Nat /\ \A i \in 1..n : WellFormed(parts[i])
  BY DEF WellFormedChain
<1>2. ASSUME NEW i \in 1..n PROVE IsFiniteSet(of(i))
  <2> DEFINE at_(g) == [start |-> ChainCursor(at, parts)[i] + g.offset
                           - (IF g = FirstSegment(parts[i].segments)
                              THEN parts[i].before ELSE 0),
                        end   |-> ChainCursor(at, parts)[i] + g.offset + g.dur
                           + (IF g = LastSegment(parts[i].segments)
                              THEN parts[i].after ELSE 0),
                        svc   |-> parts[i].svc,
                        staff |-> s]
             f == [g \in parts[i].segments |-> at_(g)]
  <2>1. of(i) = {at_(g) : g \in parts[i].segments}
    BY DEF ServiceIntervals
  <2>2. f \in Surjection(parts[i].segments, of(i))
    <3> HIDE DEF at_, of
    <3> QED
      BY <2>1 DEF Surjection
  <2>3. IsFiniteSet(parts[i].segments)
    BY <1>1 DEF WellFormed
  <2> HIDE DEF f, of
  <2> QED
    BY <2>2, <2>3, FS_Surjection
<1>3. IsFiniteSet(All)
  <2> DEFINE f == [i \in 1..n |-> of(i)]
  <2>1. f \in Surjection(1..n, All)
    <3> HIDE DEF of
    <3> QED
      BY DEF Surjection
  <2>2. IsFiniteSet(1..n)
    BY <1>1, FS_Interval
  <2> HIDE DEF f, All
  <2> QED
    BY <2>1, <2>2, FS_Surjection
<1>4. \A T \in All : IsFiniteSet(T)
  BY <1>2
<1>5. ChainIntervals(at, parts, s) = UNION All
  BY DEF ChainIntervals
<1> HIDE DEF All
<1> QED
  BY <1>3, <1>4, <1>5, FS_UNION

(* A visit that is said to fit leaves every instant it occupies room for   *)
(* one more booking, in the shop and in the service.                       *)
LEMMA OfferedFits ==
  ASSUME TypeOK, ItemsFinite, NEW b \in Booking, NEW query,
         NEW m \in Menu, query.parts = Parts[m], query.at \in Instant,
         NEW from, from = ChainOccupiedStart(query.at, query.parts),
         NEW to, to = ChainOccupiedEnd(query.at, query.parts),
         NEW occupied, occupied = Occupied(b, from, to),
         ShopRemains(query, Rules, occupied), ServicesRemain(query, occupied),
         NEW s \in Staff \cup {NoStaff},
         NEW iv \in ChainIntervals(query.at, query.parts, s),
         NEW t \in Instant, Covers(iv, t),
         NEW l \in Limits, iv.svc \in l.scope
  PROVE  Cardinality(Using(Booking \ (revived \cup {b}), l.scope, t)) < l.limit
<1> DEFINE used == Cardinality(Using(Booking \ (revived \cup {b}), l.scope, t))
           cursor == ChainCursor(query.at, query.parts)
           n == Len(query.parts)
           rows == {x \in occupied : x.svc \in l.scope}
<1>1. WellFormedChain(query.parts) /\ query.at \in Int /\ t \in Int
  BY MenuAssumption, RequestAssumption
<1>2. /\ iv.start \in Int /\ iv.end \in Int
      /\ from <= iv.start /\ iv.end <= to
  BY <1>1, ChainWithinWindow
<1>3. from \in Int /\ to \in Int
  <2> n \in 1..n /\ 1 \in 1..n
    BY <1>1 DEF WellFormedChain
  <2>1. cursor[n] \in Int
    BY <1>1, CursorFollowsChain
  <2>2. WellFormed(query.parts[n]) /\ WellFormed(query.parts[1])
    BY <1>1 DEF WellFormedChain
  <2> HIDE DEF n, cursor
  <2>3. OccupiedEnd(cursor[n], query.parts[n]) \in Int
    BY <2>1, <2>2, ServiceEndType
  <2>4. query.at + FirstSegment(query.parts[1].segments).offset - query.parts[1].before \in Int
    BY <1>1, <2>2, ServiceEndType
  <2> QED
    BY <2>3, <2>4 DEF ChainOccupiedStart, ChainOccupiedEnd, n, cursor
<1>4. used <= CountCovering(rows, t) /\ used \in Nat
  <2>1. from <= t /\ t < to
    BY <1>1, <1>2, <1>3 DEF Covers
  <2>2. used <= CountCovering(rows, t)
    <3> HIDE DEF rows
    <3> rows = {x \in Occupied(b, from, to) : x.svc \in l.scope}
      BY DEF rows
    <3> QED
      BY <1>1, <1>3, <2>1, RowsCount
  <2>3. Using(Booking \ (revived \cup {b}), l.scope, t) \in SUBSET Booking
    BY DEF Using
  <2> QED
    BY <2>2, <2>3, UsingGrows
<1>5. /\ IsFiniteSet(occupied) /\ Timed(occupied)
      /\ IsFiniteSet(rows) /\ Timed(rows)
      /\ \A x \in occupied : x.svc \in DOMAIN CapacityOf
      /\ CountCovering(rows, t) \in Nat
  <2>1. /\ IsFiniteSet(occupied) /\ Timed(occupied)
        /\ \A x \in occupied : x.svc \in DOMAIN CapacityOf
    BY <1>3, RowsRead
  <2>2. rows \in SUBSET occupied
    OBVIOUS
  <2>3. IsFiniteSet(rows) /\ Timed(rows)
    BY <2>1, <2>2, FS_Subset DEF Timed
  <2> HIDE DEF rows
  <2> QED
    BY <2>1, <2>3, CountType
<1>6. PICK i \in 1..n : iv \in ServiceIntervals(cursor[i], query.parts[i], s)
  BY DEF ChainIntervals
<1> DEFINE mine == ServiceIntervals(cursor[i], query.parts[i], query.staff)
           visit == ChainIntervals(query.at, query.parts, query.staff)
<1>7. iv.svc = query.parts[i].svc /\ Within(mine, t) /\ Within(visit, t)
  <2>1. iv.svc = query.parts[i].svc /\ Within(mine, t)
    <3> HIDE DEF cursor
    <3> QED
      BY <1>6, StaffIndependent
  <2>2. mine \subseteq visit
    BY DEF ChainIntervals
  <2> QED
    BY <2>1, <2>2 DEF Within
<1>8. Timed(visit) /\ Timed(mine)
  <2>1. Timed(visit)
    BY <1>1, ChainWithinWindow DEF Timed
  <2>2. mine \subseteq visit
    BY DEF ChainIntervals
  <2> HIDE DEF mine, visit
  <2> QED
    BY <2>1, <2>2 DEF Timed
<1> HIDE DEF mine, visit, rows, used
<1>9. CASE l = [scope |-> DOMAIN CapacityOf, limit |-> Rules.shopCapacity]
  <2>1. rows = occupied
    BY <1>5, <1>9 DEF rows
  <2>2. /\ CountCovering(occupied, t) <= PeakOverlap(occupied, visit)
        /\ PeakOverlap(occupied, visit) \in Int
    BY <1>1, <1>5, <1>7, <1>8, PeakBoundsEveryInstant
  <2>3. Rules.shopCapacity - PeakOverlap(occupied, visit) > 0
    BY DEF ShopRemains, RemainingCapacity, visit
  <2>4. l.limit = Rules.shopCapacity /\ Rules.shopCapacity \in Int
    BY <1>9, CapacityAssumption
  <2>5. used < l.limit
    BY <1>4, <1>5, <2>1, <2>2, <2>3, <2>4
  <2> QED
    BY <2>5 DEF used
<1>10. ASSUME NEW v \in DOMAIN CapacityOf,
              l = [scope |-> {v}, limit |-> CapacityOf[v]]
       PROVE  used < l.limit
  <2>1. v = query.parts[i].svc
    BY <1>7, <1>10
  <2>2. rows = OfService(occupied, v)
    BY <1>10 DEF rows, OfService
  <2>3. query.parts[i].capacity - PeakOverlap(rows, mine) > 0
    BY <2>1, <2>2 DEF ServicesRemain, RemainingCapacity, mine
  <2>4. /\ CountCovering(rows, t) <= PeakOverlap(rows, mine)
        /\ PeakOverlap(rows, mine) \in Int
    BY <1>1, <1>5, <1>7, <1>8, PeakBoundsEveryInstant
  <2>5. CapacityOf[v] = query.parts[i].capacity
    <3>1. query.parts[i] \in Offered
      BY DEF Offered
    <3>2. CapacityOf[v] = (CHOOSE p \in Offered : p.svc = v).capacity
      BY Zenon DEF CapacityOf
    <3>3. (CHOOSE p \in Offered : p.svc = v) \in Offered
          /\ (CHOOSE p \in Offered : p.svc = v).svc = v
      BY <2>1, <3>1, Zenon
    <3> QED
      BY <2>1, <3>1, <3>2, <3>3, CapacityAssumption
  <2>6. l.limit = query.parts[i].capacity /\ l.limit \in Int
    BY <1>10, <2>5, LimitType
  <2> QED
    BY <1>4, <1>5, <2>3, <2>4, <2>6
<1> QED
  BY <1>9, <1>10 DEF Limits, used

-----------------------------------------------------------------------------
(* The lock of the day                                                     *)

(* What a step of call c leaves to the others, besides Frame.              *)
LEMMA LocksKept ==
  ASSUME TypeOK, NEW c \in Call, Start(c) \/ Continue(c) \/ Abort(c),
         NEW d \in Call \ {c}
  PROVE  /\ plan'[d] = plan[d]
         /\ \A x \in Day : lock[x] = d => lock'[x] = d
<1>1. \A kind, b : Answer(c, kind, b) => \A x \in Day : lock[x] = d => lock'[x] = d
  BY DEF Answer, Release
<1>2. \A kind : Refuse(c, kind) => \A x \in Day : lock[x] = d => lock'[x] = d
  BY <1>1 DEF Refuse
<1>3. \A label : Proceed(c, label) => lock' = lock
  BY DEF Proceed
<1>4. plan \in [Call -> Plan] /\ lock \in [Day -> Call \cup {None}]
  BY DEF TypeOK, ProgressType, LockType
<1>5. CASE Start(c)
  <2>1. UNCHANGED plan
    BY <1>5 DEF Start, Begin, BeginCreate, BeginReschedule, BeginCancel, BeginStatus
  <2>2. (\E label : Proceed(c, label)) \/ (\E kind, b : Answer(c, kind, b))
    BY <1>5 DEF Start, BeginCreate, BeginReschedule, BeginCancel, BeginStatus
  <2> QED
    BY <1>1, <1>3, <2>1, <2>2
<1>6. CASE AdmitCreate(c)
  <2>1. UNCHANGED plan
    BY <1>6 DEF AdmitCreate, local
  <2> QED
    BY <1>2, <1>3, <1>6, <2>1 DEF AdmitCreate
<1>7. CASE AcquireDay(c)
  <2>1. /\ UNCHANGED plan /\ lock[DayOf(req[c].start)] = None
        /\ lock' = [lock EXCEPT ![DayOf(req[c].start)] = c]
    BY <1>7 DEF AcquireDay, local
  <2>2. d # None
    BY NamesAssumption
  <2> QED
    BY <1>4, <2>1, <2>2
<1>8. CASE LockRow(c)
  <2>1. UNCHANGED plan /\ (lock' = lock \/ Refuse(c, "INVALID_BOOKING_STATE"))
    BY <1>8 DEF LockRow, local
  <2> QED
    BY <1>2, <2>1
<1>9. CASE Decide(c)
  <2>1. plan' = plan \/ \E p : plan' = [plan EXCEPT ![c] = p]
    BY <1>9 DEF Decide
  <2>2. Proceed(c, "commit") \/ \E kind : Refuse(c, kind)
    BY <1>9 DEF Decide
  <2> QED
    BY <1>2, <1>3, <1>4, <2>1, <2>2
<1>10. CASE CommitCreate(c) \/ CommitReschedule(c) \/ CommitCancel(c)
            \/ CommitStatus(c) \/ Abort(c)
  <2>1. UNCHANGED plan
    BY <1>10 DEF CommitCreate, CommitReschedule, CommitCancel, CommitStatus, Abort, local
  <2>2. (\E kind, b : Answer(c, kind, b)) \/ (\E kind : Refuse(c, kind))
    BY <1>10 DEF CommitCreate, CommitReschedule, CommitCancel, CommitStatus, Abort
  <2> QED
    BY <1>1, <1>2, <2>1, <2>2
<1> QED
  BY <1>5, <1>6, <1>7, <1>8, <1>9, <1>10 DEF Continue

(* The start a call asks for, when it takes the path through the lock.     *)
LEMMA StartOf ==
  ASSUME CallOK, NEW c \in Call,
         pc[c] \in {"admission", "locking", "rowlock", "decide", "commit"}
  PROVE  /\ req[c] \in Starting /\ req[c].start \in Instant
         /\ DayOf(req[c].start) \in Day
<1>1. req[c] \in Request /\ req[c].op \in {"create", "reschedule"}
  BY DEF CallOK, OneCallOK
<1>2. req[c].start \in Instant
  BY <1>1, RequestAssumption DEF Accepted, CreateAccepted
<1> QED
  BY <1>1, <1>2 DEF Starting, Day

(* Where a step of call c leads when it ends on the locked path: the day   *)
(* was taken now or before.                                                *)
LEMMA OwnPath ==
  ASSUME TypeOK, CallOK, NEW c \in Call, Start(c) \/ Continue(c) \/ Abort(c),
         pc'[c] \in {"rowlock", "decide", "commit"}
  PROVE  \/ AcquireDay(c) /\ pc'[c] # "commit"
         \/ LockRow(c) /\ lock' = lock /\ pc[c] = "rowlock" /\ pc'[c] # "commit"
         \/ Decide(c) /\ lock' = lock /\ pc[c] = "decide" /\ UNCHANGED db
              /\ Proceed(c, "commit")
<1>1. ~ \E kind, b : Answer(c, kind, b)
  BY DEF Answer, TypeOK, ProgressType
<1>2. ~ \E kind : Refuse(c, kind)
  BY <1>1 DEF Refuse
<1>3. \A label : Proceed(c, label) => pc'[c] = label
  BY DEF Proceed, TypeOK, ProgressType
<1>4. ~ Start(c)
  BY <1>1, <1>3 DEF Start, BeginCreate, BeginReschedule, BeginCancel, BeginStatus
<1>5. ~ AdmitCreate(c)
  BY <1>2, <1>3 DEF AdmitCreate
<1>6. ~ (CommitCreate(c) \/ CommitReschedule(c) \/ CommitCancel(c)
         \/ CommitStatus(c) \/ Abort(c))
  BY <1>1, <1>2 DEF CommitCreate, CommitReschedule, CommitCancel, CommitStatus, Abort
<1>7. CASE AcquireDay(c)
  <2>1. pc'[c] # "commit"
    BY <1>7 DEF AcquireDay, TypeOK, ProgressType
  <2> QED
    BY <1>7, <2>1
<1>8. CASE LockRow(c)
  <2>1. /\ pc[c] = "rowlock" /\ pc' = [pc EXCEPT ![c] = "decide"] /\ lock' = lock
    BY <1>2, <1>8 DEF LockRow
  <2> QED
    BY <1>8, <2>1 DEF TypeOK, ProgressType
<1>9. CASE Decide(c)
  <2>1. Proceed(c, "commit") /\ UNCHANGED db /\ pc[c] = "decide"
    BY <1>2, <1>9 DEF Decide
  <2> QED
    BY <1>9, <2>1 DEF Proceed
<1> QED
  BY <1>4, <1>5, <1>6, <1>7, <1>8, <1>9 DEF Continue

LEMMA StepHoldsLock ==
  ASSUME TypeOK, CallOK, \A d \in Call : HoldsLock(d), [Next]_vars,
         NEW d \in Call
  PROVE  HoldsLock(d)'
<1>1. ASSUME NEW c \in Call, Start(c) \/ Continue(c) \/ Abort(c) PROVE HoldsLock(d)'
  <2>1. Frame(c)
    BY <1>1, CallFrame
  <2>2. CASE d # c
    <3>1. pc'[d] = pc[d] /\ req'[d] = req[d]
      BY <2>1, <2>2 DEF Frame
    <3> QED
      BY <1>1, <2>2, <3>1, LocksKept, StartOf DEF HoldsLock
  <2>3. CASE d = c /\ pc'[c] \in {"rowlock", "decide", "commit"}
    <3>1. \/ AcquireDay(c)
          \/ lock' = lock /\ pc[c] \in {"rowlock", "decide"}
      BY <1>1, <2>3, OwnPath
    <3>2. CASE AcquireDay(c)
      <4>1. /\ pc[c] = "locking" /\ req' = req
            /\ lock' = [lock EXCEPT ![DayOf(req[c].start)] = c]
        BY <3>2 DEF AcquireDay, local
      <4>2. DayOf(req[c].start) \in Day
        BY <4>1, StartOf
      <4> QED
        BY <2>3, <4>1, <4>2 DEF HoldsLock, TypeOK, LockType
    <3>3. CASE lock' = lock /\ pc[c] \in {"rowlock", "decide"}
      <4>1. req'[c] = req[c]
        BY <2>1, <3>3 DEF Frame
      <4> QED
        BY <2>3, <3>3, <4>1 DEF HoldsLock
    <3> QED
      BY <3>1, <3>2, <3>3
  <2> QED
    BY <2>2, <2>3 DEF HoldsLock
<1>2. CASE UNCHANGED <<lock, pc, req>>
  BY <1>2 DEF HoldsLock
<1> QED
  BY <1>1, <1>2, WorkSets DEF Next, Rest, Tick, vars, locks, local

-----------------------------------------------------------------------------
(* What a step adds to the calendar                                        *)

(* The bookings of S hold nothing after the step that they did not hold.   *)
NothingNew(S) ==
  \A b \in S \ revived' : active'[b] => active[b] /\ items'[b] = items[b]

LEMMA RevivedGrows ==
  ASSUME [Next]_vars
  PROVE  revived \subseteq revived'
<1>1. CASE UNCHANGED db \/ \E o \in Booking, k \in JobKind : Work(o, k)
  BY <1>1, WorkSets DEF db
<1>2. ASSUME NEW c \in Call, CommitCreate(c) \/ CommitReschedule(c)
      PROVE  revived' = revived
  <2>1. \A kind : Refuse(c, kind) => revived' = revived
    BY DEF Refuse, db
  <2>2. UNCHANGED db => revived' = revived
    BY DEF db
  <2> QED
    BY <1>2, <2>1, <2>2 DEF CommitCreate, CommitReschedule
<1>3. ASSUME NEW c \in Call, CommitCancel(c) \/ CommitStatus(c)
      PROVE  revived \subseteq revived'
  <2>1. \A kind : Refuse(c, kind) => revived' = revived
    BY DEF Refuse, db
  <2>2. \A b, to : WriteStatus(b, to) => revived \subseteq revived'
    BY DEF WriteStatus
  <2> QED
    BY <1>3, <2>1, <2>2 DEF CommitCancel, CommitStatus
<1> QED
  BY <1>1, <1>2, <1>3, QuietOrCommit

(* A step adds nothing, or it is the commit of a call that writes its plan *)
(* for the booking it is about.  A status change that makes items active   *)
(* again adds the booking to revived.                                      *)
LEMMA Gain ==
  ASSUME TypeOK, CallOK, NoGhostOccupancy, [Next]_vars
  PROVE  \/ NothingNew(Booking) /\ items' = items
         \/ \E c \in Call : /\ pc[c] = "commit" /\ pc'[c] = "done"
                            /\ target[c] \in Booking
                            /\ items' = [items EXCEPT ![target[c]] = plan[c].items]
                            /\ NothingNew(Booking \ {target[c]})
<1>1. active \in [Booking -> BOOLEAN] /\ items \in [Booking -> SUBSET Interval]
  BY DEF TypeOK, DbType
<1>2. CASE UNCHANGED visits
  BY <1>2 DEF visits, NothingNew
<1>3. ASSUME NEW c \in Call, Placed(c)
      PROVE  /\ pc[c] = "commit" /\ pc'[c] = "done" /\ target[c] \in Booking
             /\ items' = [items EXCEPT ![target[c]] = plan[c].items]
             /\ NothingNew(Booking \ {target[c]})
  <2>1. pc[c] = "commit" /\ target[c] = c /\ c \in Booking /\ pc'[c] = "done"
    BY <1>3 DEF Placed, CallOK, OneCallOK, Booking
  <2> QED
    BY <1>1, <1>3, <2>1 DEF Placed, NothingNew
<1>4. ASSUME NEW c \in Call, Moved(c, target[c])
      PROVE  /\ pc[c] = "commit" /\ pc'[c] = "done" /\ target[c] \in Booking
             /\ items' = [items EXCEPT ![target[c]] = plan[c].items]
             /\ NothingNew(Booking \ {target[c]})
  BY <1>1, <1>4 DEF Moved, NothingNew
<1>5. ASSUME NEW b \in Booking, NEW to \in Status, Restated(b, to)
      PROVE  NothingNew(Booking) /\ items' = items
  <2>1. /\ active' = [active EXCEPT ![b] = ActiveAfter(b, to)] /\ items' = items
    BY <1>5, WrittenStatus DEF Restated
  <2>2. \A o \in Booking \ {b} : active'[o] = active[o]
    BY <1>1, <2>1
  <2>3. active'[b] = ActiveAfter(b, to)
    BY <1>1, <2>1
  <2>4. ASSUME b \notin revived', active'[b] PROVE active[b]
    <3> SUFFICES ASSUME ~active[b] PROVE FALSE
      OBVIOUS
    <3>1. row[b].status # to /\ to \notin Dead
      BY <2>3, <2>4 DEF ActiveAfter
    <3>2. row[b].status \in Dead
      BY <1>5 DEF NoGhostOccupancy, Restated, Exists
    <3> QED
      BY <1>5, <2>4, <3>1, <3>2 DEF Restated, WriteStatus
  <2> QED
    BY <2>1, <2>2, <2>4 DEF NothingNew
<1> QED
  BY <1>2, <1>3, <1>4, <1>5, CalendarSteps

(* The commit of a call puts its booking where its plan lies, where there  *)
(* was room: no scope holds more than its limit.                           *)
LEMMA PlannedFits ==
  ASSUME TypeOK, ItemsFinite, Kept(Booking \ revived), revived \subseteq revived',
         NEW c \in Call, target[c] \in Booking, Room(c),
         items' = [items EXCEPT ![target[c]] = plan[c].items],
         NothingNew(Booking \ {target[c]}),
         NEW l \in Limits, NEW t \in Instant
  PROVE  Cardinality(Using(Booking \ revived, l.scope, t)') <= l.limit
<1> DEFINE b == target[c]
           New == Using(Booking \ revived, l.scope, t)'
           Others == Using(Booking \ (revived \cup {b}), l.scope, t)
           Old == Using(Booking \ revived, l.scope, t)
<1>1. New \subseteq Others \cup {b}
  BY DEF NothingNew, Using
<1>2. New \in SUBSET Booking /\ Old \in SUBSET Booking /\ Others \in SUBSET Old
  BY DEF Using
<1>3. items'[b] = plan[c].items
  BY DEF TypeOK, DbType
<1>4. l.limit \in Int
  BY LimitType
<1>5. CASE b \notin New
  <2>1. New \in SUBSET Old
    BY <1>1, <1>2, <1>5
  <2>2. Cardinality(Old) <= l.limit
    BY DEF Kept
  <2> HIDE DEF New, Old
  <2>3. /\ Cardinality(New) <= Cardinality(Old)
        /\ Cardinality(New) \in Nat /\ Cardinality(Old) \in Nat
    BY <1>2, <2>1, UsingGrows
  <2>4. Cardinality(New) <= l.limit
    BY <1>4, <2>2, <2>3
  <2> QED
    BY <2>4 DEF New
<1>6. CASE b \in New
  <2>1. \E iv \in plan[c].items : iv.svc \in l.scope /\ Covers(iv, t)
    BY <1>3, <1>6 DEF Using
  <2>2. Cardinality(Others) < l.limit
    BY <2>1 DEF Room
  <2>3. b \notin Others
    BY DEF Using
  <2> HIDE DEF New, Old, Others, b
  <2>4. IsFiniteSet(Others) /\ Cardinality(Others) \in Nat
    BY <1>2, UsingGrows
  <2>5. /\ IsFiniteSet(Others \cup {b})
        /\ Cardinality(Others \cup {b}) = Cardinality(Others) + 1
    BY <2>3, <2>4, FS_AddElement
  <2>6. Cardinality(New) <= Cardinality(Others \cup {b}) /\ Cardinality(New) \in Nat
    BY <1>1, <1>2, <2>5, FS_Subset, UsingGrows
  <2>7. Cardinality(New) <= l.limit
    BY <1>4, <2>2, <2>4, <2>5, <2>6
  <2> QED
    BY <2>7 DEF New
<1> QED
  BY <1>5, <1>6

-----------------------------------------------------------------------------
(* Room found under the lock stays until the commit                        *)

LEMMA MenuOfTarget ==
  ASSUME TypeOK, CallOK, NEW c \in Call, pc[c] = "decide"
  PROVE  /\ target[c] \in Booking /\ Made(target[c]).menu \in Menu
         /\ Made(target[c]).menu \in MenuAsked
<1>1. target[c] \in Booking /\ CreateAccepted(Made(target[c]))
  BY MadeOfTarget
<1>2. CASE target[c] \in Seed
  BY <1>1, <1>2 DEF Made, MenuAsked, CreateAccepted
<1>3. CASE target[c] \notin Seed
  <2>1. target[c] \in Call /\ Made(target[c]) = req[target[c]]
    BY <1>1, <1>3 DEF Booking, Made
  <2>2. pc[target[c]] # "idle"
    BY <2>1 DEF CallOK, OneCallOK
  <2>3. req[target[c]] \in Request
    BY <2>1, <2>2 DEF CallOK, OneCallOK
  <2> QED
    BY <1>1, <2>1, <2>3 DEF MenuAsked, CreateAccepted
<1> QED
  BY <1>2, <1>3

LEMMA VerdictOK ==
  ASSUME NEW query, NEW rules, NEW duty, NEW open, NEW occupied,
         Verdict(query, rules, duty, open, occupied) = "OK"
  PROVE  /\ IsOffered(query, rules, open) /\ ShopRemains(query, rules, occupied)
         /\ ServicesRemain(query, occupied)
<1> DEFINE offered == IsOffered(query, rules, open)
           early   == query.enforce /\ ~SatisfiesLeadTime(query.at, query.now, rules.leadTime)
           late    == query.enforce /\ ~WithinBookingWindow(query.at, query.now, rules.windowDays)
           nobody  == NobodyWorks(query, duty)
           fits    == /\ ShopRemains(query, rules, occupied)
                      /\ ServicesRemain(query, occupied)
                      /\ StaffRemains(query, rules, duty, occupied)
<1>1. (IF ~offered THEN "OUTSIDE_BUSINESS_HOURS"
       ELSE IF early THEN "LEAD_TIME_VIOLATION"
       ELSE IF late THEN "BOOKING_WINDOW_EXCEEDED"
       ELSE IF nobody THEN "STAFF_UNAVAILABLE"
       ELSE IF fits THEN "OK" ELSE "SLOT_FULL") = "OK"
  BY Zenon DEF Verdict
<1>2. offered /\ fits
  <2> HIDE DEF offered, early, late, nobody, fits
  <2> QED
    BY <1>1
<1> QED
  BY <1>2

LEMMA DecideRoom ==
  ASSUME TypeOK, CallOK, ItemsFinite, ClosesInTime,
         NEW c \in Call, Decide(c), Proceed(c, "commit"), UNCHANGED db
  PROVE  Prepared(c)'
<1> DEFINE b        == target[c]
           menu     == Made(b).menu
           query    == Query(c, menu)
           from     == ChainOccupiedStart(query.at, query.parts)
           to       == ChainOccupiedEnd(query.at, query.parts)
           occupied == Occupied(b, from, to)
           verdict  == Verdict(query, Rules, Duty, Open[DayOf(query.at)], occupied)
<1>1. pc[c] = "decide" /\ UNCHANGED <<req, target>>
  BY DEF Decide
<1>2. /\ b \in Booking /\ menu \in Menu /\ menu \in MenuAsked
      /\ req[c] \in Starting /\ req[c].start \in Instant
  BY <1>1, MenuOfTarget, StartOf
<1>3. query.at = req[c].start /\ query.parts = Parts[menu]
  BY DEF Query
<1>4. verdict = "OK" /\ \E s \in Assignable(c, query, occupied) :
        /\ plan'[c].items = ChainIntervals(query.at, query.parts, s)
  <2>1. verdict = "OK" \/ \E kind : Refuse(c, kind)
    BY DEF Decide
  <2>2. ~ \E kind : Refuse(c, kind)
    BY DEF Refuse, Answer, Proceed, TypeOK, ProgressType
  <2>3. verdict = "OK"
    BY <2>1, <2>2
  <2>4. \E s \in Assignable(c, query, occupied) : \E card :
          plan' = [plan EXCEPT ![c] =
                     [staff |-> s, items |-> ChainIntervals(query.at, query.parts, s),
                      card |-> card]]
    <3>1. IF verdict # "OK" THEN Refuse(c, verdict) /\ UNCHANGED plan
          ELSE \E s \in Assignable(c, query, occupied) :
                 plan' = [plan EXCEPT ![c] =
                   [staff |-> s, items |-> ChainIntervals(query.at, query.parts, s),
                    card |-> Made(b).contact = None \/ cards[Made(b).contact] = 0]]
      BY DEF Decide
    <3> HIDE DEF verdict, query, occupied
    <3> QED
      BY <2>3, <3>1
  <2> HIDE DEF verdict, query, occupied
  <2> QED
    BY <2>3, <2>4 DEF TypeOK, ProgressType
<1>5. /\ IsOffered(query, Rules, Open[DayOf(query.at)])
      /\ ShopRemains(query, Rules, occupied) /\ ServicesRemain(query, occupied)
  <2> HIDE DEF query, occupied
  <2> QED
    BY <1>4, VerdictOK
<1>6. PICK s \in Assignable(c, query, occupied) :
        plan'[c].items = ChainIntervals(query.at, query.parts, s)
  BY <1>4
<1>7. s \in Staff \cup {NoStaff}
  BY <1>1, AssignableType
<1> HIDE DEF query, occupied, from, to, menu, b
<1>8. IsFiniteSet(plan'[c].items)
  BY <1>2, <1>3, <1>6, MenuAssumption, VisitFinite
<1>9. OnItsDay(c)'
  <2>1. \A t \in Instant : Within(ChainIntervals(req[c].start, Parts[menu], s), t)
          => DayOf(t) = DayOf(req[c].start)
    BY <1>2, <1>3, <1>5, <1>7 DEF ClosesInTime, IsOffered
  <2> QED
    BY <1>1, <1>3, <1>6, <2>1 DEF OnItsDay
<1>10. Room(c)'
  <2> SUFFICES ASSUME NEW l \in Limits, NEW t \in Instant,
                      NEW iv \in plan'[c].items, iv.svc \in l.scope, Covers(iv, t)
               PROVE  Cardinality(Using(Booking \ (revived \cup {b}), l.scope, t)) < l.limit
    BY <1>1 DEF Room, Using, db, b
  <2>1. query.at \in Instant
    BY <1>2, <1>3
  <2>2. /\ from = ChainOccupiedStart(query.at, query.parts)
        /\ to = ChainOccupiedEnd(query.at, query.parts)
        /\ occupied = Occupied(b, from, to)
    BY DEF occupied, from, to
  <2>3. iv \in ChainIntervals(query.at, query.parts, s)
    BY <1>6
  <2>4. query.parts = Parts[menu] /\ menu \in Menu /\ b \in Booking
    BY <1>2, <1>3
  <2> QED
    BY <1>5, <1>7, <2>1, <2>2, <2>3, <2>4, OfferedFits
<1> QED
  BY <1>8, <1>9, <1>10 DEF Prepared

LEMMA RoomKept ==
  ASSUME TypeOK, CallOK, NoGhostOccupancy, CapacityInv, [Next]_vars,
         NEW d \in Call, pc[d] = "commit", pc'[d] = "commit",
         plan'[d] = plan[d], req'[d] = req[d], target'[d] = target[d]
  PROVE  Prepared(d)'
<1>1. OnItsDay(d) /\ Room(d) /\ IsFiniteSet(plan[d].items)
  BY DEF CapacityInv, Prepared
<1>2. OnItsDay(d)'
  BY <1>1 DEF OnItsDay
<1>3. ASSUME NEW l \in Limits, NEW t \in Instant,
             NEW iv \in plan[d].items, iv.svc \in l.scope, Covers(iv, t)
      PROVE  Cardinality(Using(Booking \ (revived \cup {target[d]}), l.scope, t)') < l.limit
  <2> DEFINE New == Using(Booking \ (revived \cup {target[d]}), l.scope, t)'
             Old == Using(Booking \ (revived \cup {target[d]}), l.scope, t)
  <2>1. revived \subseteq revived'
    BY RevivedGrows
  <2>2. New \in SUBSET Old
    <3>1. CASE NothingNew(Booking)
      BY <2>1, <3>1 DEF NothingNew, Using
    <3>2. ASSUME NEW e \in Call, pc[e] = "commit", pc'[e] = "done",
                 target[e] \in Booking,
                 items' = [items EXCEPT ![target[e]] = plan[e].items],
                 NothingNew(Booking \ {target[e]})
          PROVE  New \in SUBSET Old
      <4>1. DayOf(req[e].start) # DayOf(req[d].start)
        BY <3>2 DEF CapacityInv, HoldsLock
      <4>2. DayOf(t) = DayOf(req[d].start)
        BY <1>1, <1>3 DEF OnItsDay, Within
      <4>3. ~ Within(plan[e].items, t)
        BY <3>2, <4>1, <4>2 DEF CapacityInv, Prepared, OnItsDay
      <4>4. items'[target[e]] = plan[e].items
        BY <3>2 DEF TypeOK, DbType
      <4>5. target[e] \notin New
        BY <4>3, <4>4 DEF Using, Within
      <4>6. \A b \in New : b # target[e] => b \in Old
        BY <2>1, <3>2 DEF NothingNew, Using
      <4> QED
        BY <4>5, <4>6
    <3> QED
      BY <3>1, <3>2, Gain
  <2>3. Old \in SUBSET Booking
    BY DEF Using
  <2>4. Cardinality(Old) < l.limit
    BY <1>1, <1>3 DEF Room
  <2>5. l.limit \in Int
    BY LimitType
  <2> HIDE DEF New, Old
  <2>6. /\ Cardinality(New) <= Cardinality(Old)
        /\ Cardinality(New) \in Nat /\ Cardinality(Old) \in Nat
    BY <2>2, <2>3, UsingGrows
  <2>7. Cardinality(New) < l.limit
    BY <2>4, <2>5, <2>6
  <2> QED
    BY <2>7 DEF New
<1>4. Room(d)'
  BY <1>3 DEF Room, Using
<1> QED
  BY <1>1, <1>2, <1>4 DEF Prepared

LEMMA StepPrepared ==
  ASSUME TypeOK, CallOK, NoGhostOccupancy, CapacityInv, ClosesInTime, [Next]_vars,
         NEW d \in Call
  PROVE  Prepared(d)'
<1> SUFFICES ASSUME pc'[d] = "commit" PROVE Prepared(d)'
  BY DEF Prepared
<1>1. ASSUME NEW c \in Call, Start(c) \/ Continue(c) \/ Abort(c) PROVE Prepared(d)'
  <2>1. CASE d # c
    <3>1. pc'[d] = pc[d] /\ req'[d] = req[d] /\ target'[d] = target[d]
      BY <1>1, <2>1, CallFrame DEF Frame
    <3>2. plan'[d] = plan[d]
      BY <1>1, <2>1, LocksKept
    <3> QED
      BY <3>1, <3>2, RoomKept
  <2>2. CASE d = c
    <3>1. Decide(c) /\ UNCHANGED db /\ Proceed(c, "commit")
      BY <1>1, <2>2, OwnPath
    <3> QED
      BY <2>2, <3>1, DecideRoom DEF CapacityInv
  <2> QED
    BY <2>1, <2>2
<1>2. CASE UNCHANGED <<pc, plan, req, target>>
  BY <1>2, RoomKept
<1> QED
  BY <1>1, <1>2, WorkSets DEF Next, Rest, Tick, vars, local

LEMMA StepKept ==
  ASSUME TypeOK, CallOK, NoGhostOccupancy, CapacityInv, [Next]_vars
  PROVE  ItemsFinite' /\ Kept(Booking \ revived)'
<1>1. revived \subseteq revived'
  BY RevivedGrows
<1>2. CASE NothingNew(Booking) /\ items' = items
  <2>1. ItemsFinite'
    BY <1>2 DEF CapacityInv, ItemsFinite
  <2>2. ASSUME NEW l \in Limits, NEW t \in Instant
        PROVE  Cardinality(Using(Booking \ revived, l.scope, t)') <= l.limit
    <3> DEFINE New == Using(Booking \ revived, l.scope, t)'
               Old == Using(Booking \ revived, l.scope, t)
    <3>1. New \in SUBSET Old /\ Old \in SUBSET Booking
      BY <1>1, <1>2 DEF NothingNew, Using
    <3>2. Cardinality(Old) <= l.limit
      BY DEF CapacityInv, Kept
    <3>3. l.limit \in Int
      BY LimitType
    <3> HIDE DEF New, Old
    <3>4. /\ Cardinality(New) <= Cardinality(Old)
          /\ Cardinality(New) \in Nat /\ Cardinality(Old) \in Nat
      BY <3>1, UsingGrows
    <3>5. Cardinality(New) <= l.limit
      BY <3>2, <3>3, <3>4
    <3> QED
      BY <3>5 DEF New
  <2> QED
    BY <2>1, <2>2 DEF Kept, Using
<1>3. ASSUME NEW c \in Call, pc[c] = "commit", target[c] \in Booking,
             items' = [items EXCEPT ![target[c]] = plan[c].items],
             NothingNew(Booking \ {target[c]})
      PROVE  ItemsFinite' /\ Kept(Booking \ revived)'
  <2>1. Room(c) /\ IsFiniteSet(plan[c].items)
    BY <1>3 DEF CapacityInv, Prepared
  <2>2. ItemsFinite'
    BY <1>3, <2>1 DEF CapacityInv, ItemsFinite, TypeOK, DbType
  <2>3. \A l \in Limits, t \in Instant :
          Cardinality(Using(Booking \ revived, l.scope, t)') <= l.limit
    BY <1>1, <1>3, <2>1, PlannedFits DEF CapacityInv
  <2> QED
    BY <2>2, <2>3 DEF Kept, Using
<1> QED
  BY <1>2, <1>3, Gain

LEMMA InitCapacity == Init => CapacityInv
<1> SUFFICES ASSUME Init PROVE CapacityInv
  OBVIOUS
<1>1. ItemsFinite
  <2>1. ASSUME NEW b \in Seed PROVE IsFiniteSet(SeedItems(b))
    BY RequestAssumption, MenuAssumption, VisitFinite DEF SeedItems, CreateAccepted
  <2> QED
    BY <2>1, FS_EmptySet DEF Init, ItemsFinite
<1>2. \A c \in Call : HoldsLock(c) /\ Prepared(c)
  BY DEF Init, HoldsLock, Prepared
<1>3. ASSUME NEW l \in Limits, NEW t \in Instant
      PROVE  Cardinality(Using(Booking \ revived, l.scope, t)) <= l.limit
  <2>1. \A b \in Booking : active[b] => b \in Seed /\ items[b] = SeedItems(b)
    BY DEF Init
  <2>2. \A b \in Seed : b \in Booking /\ active[b] /\ items[b] = SeedItems(b)
    BY DEF Init, Booking
  <2>3. revived = {}
    BY DEF Init
  <2>4. CASE l = [scope |-> DOMAIN CapacityOf, limit |-> Rules.shopCapacity]
    <3>0. \A b \in Seed : SeedItems(b) \in SUBSET Interval
      BY RequestAssumption, ItemsType DEF CreateAccepted, SeedItems
    <3>1. \A b \in Seed : \A iv \in SeedItems(b) : iv.svc \in DOMAIN CapacityOf
      BY <3>0 DEF Interval
    <3>2. Using(Booking \ revived, l.scope, t) = {b \in Seed : Within(SeedItems(b), t)}
      BY <2>1, <2>2, <2>3, <2>4, <3>1 DEF Using, Within
    <3> QED
      BY <2>4, <3>2, CapacityAssumption
  <2>5. ASSUME NEW v \in DOMAIN CapacityOf,
               l = [scope |-> {v}, limit |-> CapacityOf[v]]
        PROVE  Cardinality(Using(Booking \ revived, l.scope, t)) <= l.limit
    <3>1. Using(Booking \ revived, l.scope, t)
            = {b \in Seed : Within(OfService(SeedItems(b), v), t)}
      BY <2>1, <2>2, <2>3, <2>5 DEF Using, Within, OfService
    <3> QED
      BY <2>5, <3>1, CapacityAssumption
  <2> QED
    BY <2>4, <2>5 DEF Limits
<1> QED
  BY <1>1, <1>2, <1>3 DEF CapacityInv, Kept

(* The counts of the property are those of the two kinds of scope.         *)
LEMMA KeptIsCapacity ==
  ASSUME TypeOK, Kept(Booking \ revived)
  PROVE  NoOverbooking
<1> SUFFICES ASSUME NEW t \in Instant
             PROVE  /\ Cardinality(InUse(Booking \ revived, t)) <= Rules.shopCapacity
                    /\ \A v \in DOMAIN CapacityOf :
                         Cardinality(InUseFor(Booking \ revived, v, t)) <= CapacityOf[v]
  BY DEF NoOverbooking, CapacityKept
<1>1. Cardinality(InUse(Booking \ revived, t)) <= Rules.shopCapacity
  <2> DEFINE l == [scope |-> DOMAIN CapacityOf, limit |-> Rules.shopCapacity]
  <2>1. l \in Limits
    BY DEF Limits
  <2>2. \A b \in Booking : \A iv \in items[b] : iv.svc \in DOMAIN CapacityOf
    BY DEF TypeOK, DbType, Interval
  <2>3. InUse(Booking \ revived, t) = Using(Booking \ revived, l.scope, t)
    BY <2>2 DEF InUse, Using, Holds
  <2>4. Cardinality(Using(Booking \ revived, l.scope, t)) <= l.limit
    BY <2>1 DEF Kept
  <2> QED
    BY <2>3, <2>4
<1>2. ASSUME NEW v \in DOMAIN CapacityOf
      PROVE  Cardinality(InUseFor(Booking \ revived, v, t)) <= CapacityOf[v]
  <2> DEFINE l == [scope |-> {v}, limit |-> CapacityOf[v]]
  <2>1. l \in Limits
    BY DEF Limits
  <2>2. InUseFor(Booking \ revived, v, t) = Using(Booking \ revived, l.scope, t)
    BY DEF InUseFor, Using, HoldsFor
  <2>3. Cardinality(Using(Booking \ revived, l.scope, t)) <= l.limit
    BY <2>1 DEF Kept
  <2> QED
    BY <2>2, <2>3
<1> QED
  BY <1>1, <1>2

LEMMA StepCapacity ==
  ASSUME TypeOK, CallOK, NoGhostOccupancy, CapacityInv, ClosesInTime, [Next]_vars
  PROVE  CapacityInv'
<1>1. \A d \in Call : HoldsLock(d)'
  BY StepHoldsLock DEF CapacityInv
<1>2. \A d \in Call : Prepared(d)'
  BY StepPrepared
<1>3. ItemsFinite' /\ Kept(Booking \ revived)'
  BY StepKept
<1> QED
  BY <1>1, <1>2, <1>3 DEF CapacityInv

(***************************************************************************)
(* No instant is overbooked, in the shop or in a service, whatever calls   *)
(* run at the same time, in a shop whose visits end on the day they start. *)
(* The bookings that a stale status change brought back to life are not    *)
(* counted: what the code does with them is a finding.                     *)
(***************************************************************************)
THEOREM CapacitySafe == Spec => [](ClosesInTime => NoOverbooking)
<1> DEFINE Inv == ClosesInTime => CapacityInv
<1>1. Init => TypeOK /\ CallOK /\ NoGhostOccupancy /\ Inv
  BY InitType, InitCall, InitGhost, InitCapacity
<1>2. /\ TypeOK /\ CallOK /\ NoGhostOccupancy /\ Inv /\ [Next]_vars
      => (TypeOK /\ CallOK /\ NoGhostOccupancy /\ Inv)'
  <2> SUFFICES ASSUME TypeOK, CallOK, NoGhostOccupancy, Inv, [Next]_vars
               PROVE  (TypeOK /\ CallOK /\ NoGhostOccupancy /\ Inv)'
    OBVIOUS
  <2>1. TypeOK' /\ CallOK' /\ NoGhostOccupancy'
    BY StepType, StepCall, StepGhost
  <2>2. ClosesInTime => CapacityInv'
    BY StepCapacity
  <2>3. ClosesInTime' => ClosesInTime
    BY DEF ClosesInTime
  <2> QED
    BY <2>1, <2>2, <2>3
<1>3. TypeOK /\ Inv => (ClosesInTime => NoOverbooking)
  BY KeptIsCapacity DEF CapacityInv
<1> QED
  BY <1>1, <1>2, <1>3, PTL DEF Spec
=============================================================================
