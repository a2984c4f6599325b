---------------------------- MODULE OutboxProofs ----------------------------
(***************************************************************************)
(* Theorems about the outbox, for any number of bookings, sweeps, moves    *)
(* and faults, any limits, back-off and reclaim window.                    *)
(***************************************************************************)
EXTENDS Outbox, SequenceTheorems, FiniteSetTheorems, TLAPS

(* A row in the hands of a sweep is PROCESSING, not old enough to be       *)
(* reclaimed, and in no other hands.                                       *)
HeldOK(w) ==
  Holding(w) =>
    /\ job[Cur(w)].status = "PROCESSING"
    /\ job[Cur(w)].age <= ReclaimAfter
    /\ \A v \in Sweeps \ {w} : Holding(v) => Cur(v) # Cur(w)

(* Rows not written yet: of a later move, of a cancellation to come.       *)
Unwritten(j) ==
  /\ j \in Notices
  /\ \/ j.move > moves[j.about]
     \/ booking[j.about].live /\ j.kind = "CANCELLED"

Listed(w) == {sweep[w].todo[i] : i \in 1..Len(sweep[w].todo)}

RowsOK ==
  /\ \A j \in Jobs : Unwritten(j) => job[j].status = "NONE"
  /\ \A w \in Sweeps : \A j \in Listed(w) : job[j].status # "NONE"

(* A delivery that left its trace is recorded, or about to be.             *)
TraceOK ==
  /\ \A j \in Jobs : traced[j] \in {0, 1}
  /\ \A j \in Jobs : traced[j] = 1 =>
       \/ job[j].status = "SENT"
       \/ \E w \in Sweeps : sweep[w].pc = "record" /\ Cur(w) = j
  /\ \A w \in Sweeps : sweep[w].pc = "record" => traced[Cur(w)] = 1

(* A row past the freshness check of a booking that died since.            *)
QuietOK(w) ==
  /\ sweep[w].pc = "send" /\ Cur(w) \in Notices
  /\ Cur(w).kind # "CANCELLED" /\ ~booking[Cur(w).about].live
  => Cur(w) \in flying

(* A reminder of the present start, or of an old one that was overtaken.   *)
Due(j) == booking[j.about].until <= Lead

TimeOK(j) ==
  j \in Notices /\ j.kind = "REMINDER" /\ j \notin overtaken =>
    /\ job[j].status \in {"PROCESSING", "FAILED"} => Due(j)
    /\ job[j].status = "PENDING" =>
         /\ job[j].wait >= 0 => booking[j.about].until <= Lead + job[j].wait
         /\ job[j].wait < 0 => Due(j)
         /\ (\E w \in Sweeps : j \in Listed(w)) => Due(j)

OutboxInv ==
  /\ TypeOK
  /\ \A w \in Sweeps : HeldOK(w) /\ QuietOK(w)
  /\ RowsOK /\ TraceOK
  /\ \A j \in Jobs : TimeOK(j)

(***************************************************************************)
(* Sweeps                                                                  *)
(***************************************************************************)

LEMMA CurIsJob ==
  ASSUME TypeOK, NEW w \in Sweeps, sweep[w].pc # "idle"
  PROVE  /\ Cur(w) \in Jobs
         /\ Cur(w) \in Listed(w)
         /\ Tail(sweep[w].todo) \in Seq(Jobs)
         /\ \A i \in 1..Len(Tail(sweep[w].todo)) : Tail(sweep[w].todo)[i] \in Listed(w)
         /\ Len(sweep[w].todo) = 1 <=> Tail(sweep[w].todo) = <<>>
<1> DEFINE q == sweep[w].todo
<1>1. q \in Seq(Jobs) /\ q # <<>>
  BY DEF TypeOK, Work
<1> HIDE DEF q
<1>2. Len(q) \in Nat \ {0} /\ Head(q) = q[1] /\ Head(q) \in Jobs
  BY <1>1
<1>3. Tail(q) \in Seq(Jobs) /\ Len(Tail(q)) = Len(q) - 1
  BY <1>1, HeadTailProperties
<1>4. \A i \in 1..Len(Tail(q)) : Tail(q)[i] = q[i + 1] /\ i + 1 \in 1..Len(q)
  BY <1>1, <1>2, <1>3, HeadTailProperties
<1>5. Len(q) = 1 <=> Tail(q) = <<>>
  <2>1. Tail(q) # <<>> => Len(Tail(q)) \in Nat \ {0}
    BY <1>3, EmptySeq
  <2>2. Tail(q) = <<>> => Len(Tail(q)) = 0
    BY EmptySeq
  <2> QED
    BY <1>2, <1>3, <2>1, <2>2
<1> QED
  BY <1>2, <1>3, <1>4, <1>5 DEF q, Cur, Listed

LEMMA ListedAreJobs ==
  ASSUME TypeOK, NEW w \in Sweeps, NEW j \in Listed(w)
  PROVE  j \in Jobs
<1>1. sweep[w].todo \in Seq(Jobs)
  BY DEF TypeOK, Work
<1>2. PICK i \in 1..Len(sweep[w].todo) : j = sweep[w].todo[i]
  BY DEF Listed
<1> QED
  BY <1>1, <1>2, ElementOfSeq

SweepType ==
  /\ sweep \in [Sweeps -> Work]
  /\ \A v \in Sweeps : (sweep[v].pc = "idle") <=> (sweep[v].todo = <<>>)

LEMMA AdvanceKeeps ==
  ASSUME TypeOK, NEW w \in Sweeps, sweep[w].pc # "idle", Advance(w)
  PROVE  /\ SweepType'
         /\ \A v \in Sweeps \ {w} : sweep'[v] = sweep[v]
         /\ sweep'[w].pc \in {"idle", "read"}
         /\ \A v \in Sweeps : Listed(v)' \subseteq Listed(v)
<1> DEFINE new == IF Len(sweep[w].todo) = 1 THEN AtRest
                  ELSE [pc |-> "read", todo |-> Tail(sweep[w].todo), attempts |-> 0]
<1>1. sweep' = [sweep EXCEPT ![w] = new]
  BY DEF Advance
<1>2. /\ new \in Work /\ new.pc \in {"idle", "read"}
      /\ (new.pc = "idle") <=> (new.todo = <<>>)
  BY CurIsJob DEF AtRest, Work
<1>3. \A i \in 1..Len(new.todo) : new.todo[i] \in Listed(w)
  BY CurIsJob, EmptySeq DEF AtRest
<1> HIDE DEF new
<1>4. /\ sweep' \in [Sweeps -> Work] /\ sweep'[w] = new
      /\ \A v \in Sweeps \ {w} : sweep'[v] = sweep[v]
  BY <1>1, <1>2 DEF TypeOK
<1>5. SweepType'
  BY <1>2, <1>4 DEF SweepType, TypeOK
<1>6. ASSUME NEW v \in Sweeps PROVE Listed(v)' \subseteq Listed(v)
  BY <1>3, <1>4 DEF Listed
<1> QED
  BY <1>2, <1>4, <1>5, <1>6

LEMMA GotoKeeps ==
  ASSUME TypeOK, NEW w \in Sweeps, sweep[w].pc # "idle",
         NEW pc \in {"claim", "check", "send", "record"}, NEW n \in Nat,
         sweep' = [sweep EXCEPT ![w] = [pc |-> pc, todo |-> sweep[w].todo, attempts |-> n]]
  PROVE  /\ SweepType'
         /\ \A v \in Sweeps \ {w} : sweep'[v] = sweep[v]
         /\ sweep'[w].pc = pc /\ Cur(w)' = Cur(w)
         /\ \A v \in Sweeps : Listed(v)' \subseteq Listed(v)
<1>1. [pc |-> pc, todo |-> sweep[w].todo, attempts |-> n] \in Work
  BY DEF TypeOK, Work
<1>2. /\ sweep'[w] = [pc |-> pc, todo |-> sweep[w].todo, attempts |-> n]
      /\ \A v \in Sweeps \ {w} : sweep'[v] = sweep[v]
      /\ sweep' \in [Sweeps -> Work]
  BY <1>1 DEF TypeOK
<1>3. SweepType'
  BY <1>2 DEF SweepType, TypeOK
<1> QED
  BY <1>2, <1>3 DEF Cur, Listed

(***************************************************************************)
(* One statement of a sweep: what it may change.                           *)
(***************************************************************************)

RowTaken(j) == job[j].status = "PENDING" /\ job'[j].status = "PROCESSING" /\ job'[j].age = 0

RowLeft(j) == /\ job'[j].status \in {"PENDING", "FAILED", "SENT", "CANCELLED"}
              /\ job'[j].status = "PENDING" => job'[j].wait >= 0

\* the row in hand
RowStep(w) ==
  \/ job'[Cur(w)] = job[Cur(w)]
  \/ RowTaken(Cur(w))
  \/ Holding(w) /\ ~Holding(w)' /\ RowLeft(Cur(w))

\* what a sweep holds afterwards, it held or has claimed
HoldStep(w) ==
  Holding(w)' =>
    /\ Cur(w)' = Cur(w)
    /\ \/ RowTaken(Cur(w))
       \/ Holding(w) /\ job'[Cur(w)] = job[Cur(w)]
    /\ sweep'[w].pc = "send" => ~StaleAtDispatch(Cur(w))

TraceStep(w) ==
  /\ \A k \in Jobs \ {Cur(w)} : traced'[k] = traced[k]
  /\ \/ /\ sweep[w].pc = "send" /\ sweep'[w].pc = "record"
        /\ traced'[Cur(w)] = traced[Cur(w)] + 1
     \/ /\ sweep[w].pc = "record" /\ sweep'[w].pc # "record"
        /\ traced'[Cur(w)] = traced[Cur(w)] - 1
     \/ /\ sweep[w].pc = "record" /\ sweep'[w].pc # "record"
        /\ traced' = traced /\ job'[Cur(w)].status = "SENT"
     \/ /\ sweep[w].pc # "record" /\ sweep'[w].pc # "record"
        /\ traced' = traced

WorkShape(w) ==
  /\ sweep[w].pc # "idle"
  /\ UNCHANGED <<booking, moves, flying, overtaken>>
  /\ job' \in [Jobs -> Row] /\ SweepType' /\ faults' \in Nat /\ traced' \in [Jobs -> Int]
  /\ \A k \in Jobs \ {Cur(w)} : job'[k] = job[k]
  /\ \A v \in Sweeps \ {w} : sweep'[v] = sweep[v]
  /\ \A v \in Sweeps : Listed(v)' \subseteq Listed(v)
  /\ RowStep(w) /\ HoldStep(w) /\ TraceStep(w)

\* a row written anew
LEMMA RowWritten ==
  ASSUME TypeOK, NEW j \in Jobs, NEW r \in Row, job' = [job EXCEPT ![j] = r]
  PROVE  /\ job' \in [Jobs -> Row] /\ job'[j] = r
         /\ \A k \in Jobs \ {j} : job'[k] = job[k]
<1> HIDE DEF Row
<1> QED
  BY DEF TypeOK

LEMMA LeaveKeeps ==
  ASSUME TypeOK, NEW w \in Sweeps, sweep[w].pc # "idle",
         NEW status \in {"SENT", "CANCELLED"}, Leave(w, status)
  PROVE  /\ job' \in [Jobs -> Row] /\ job'[Cur(w)].status = status
         /\ \A k \in Jobs \ {Cur(w)} : job'[k] = job[k]
<1> DEFINE r == Closed(job[Cur(w)], status)
<1>1. Cur(w) \in Jobs /\ job[Cur(w)] \in Row
  BY CurIsJob DEF TypeOK
<1>2. r \in Row /\ r.status = status
  BY <1>1 DEF Closed, Row, Settled
<1>3. job' = [job EXCEPT ![Cur(w)] = r]
  BY DEF Leave
<1> HIDE DEF r
<1> QED
  BY <1>1, <1>2, <1>3, RowWritten

LEMMA FailKeeps ==
  ASSUME TypeOK, NEW w \in Sweeps, sweep[w].pc # "idle", Fail(w)
  PROVE  /\ job' \in [Jobs -> Row] /\ RowLeft(Cur(w))
         /\ \A k \in Jobs \ {Cur(w)} : job'[k] = job[k]
         /\ Advance(w)
<1> DEFINE n == sweep[w].attempts + 1
           r == IF n >= MaxAttempts
                THEN [status |-> "FAILED", attempts |-> n, wait |-> 0, age |-> 0]
                ELSE [status |-> "PENDING", attempts |-> n, wait |-> Backoff(n), age |-> 0]
<1>1. Cur(w) \in Jobs /\ n \in Nat
  BY CurIsJob DEF TypeOK, Work
<1>2. job' = [job EXCEPT ![Cur(w)] = r] /\ Advance(w)
  BY DEF Fail
<1> HIDE DEF n
<1>3. Backoff(n) \in Nat
  <2> DEFINE x == 2 ^ n
  <2>1. Backoff(n) = IF x \in 0..BackoffCap THEN x ELSE BackoffCap
    BY DEF Backoff
  <2> HIDE DEF x
  <2> QED
    BY <2>1, OutboxAssumption DEF OutboxAssumption
<1>4. r \in Row /\ r.status \in {"FAILED", "PENDING"} /\ r.wait >= 0
  BY <1>1, <1>3 DEF Row, Settled
<1> HIDE DEF r
<1> QED
  BY <1>1, <1>2, <1>4, RowWritten DEF RowLeft

LEMMA ClaimKeeps ==
  ASSUME TypeOK, NEW w \in Sweeps, sweep[w].pc # "idle", job[Cur(w)].status = "PENDING",
         job' = [job EXCEPT ![Cur(w)] = Claimed(@)]
  PROVE  /\ job' \in [Jobs -> Row] /\ RowTaken(Cur(w))
         /\ \A k \in Jobs \ {Cur(w)} : job'[k] = job[k]
<1> DEFINE r == Claimed(job[Cur(w)])
<1>1. Cur(w) \in Jobs /\ job[Cur(w)] \in Row
  BY CurIsJob DEF TypeOK
<1>2. r \in Row /\ r.status = "PROCESSING" /\ r.age = 0
  BY <1>1 DEF Row, Claimed
<1>3. job' = [job EXCEPT ![Cur(w)] = r]
  OBVIOUS
<1> HIDE DEF r
<1> QED
  BY <1>1, <1>2, <1>3, RowWritten DEF RowTaken

\* Goto writes the record of GotoKeeps
LEMMA GotoWritten ==
  ASSUME TypeOK, NEW w \in Sweeps, sweep[w].pc # "idle",
         NEW pc \in {"claim", "check", "send", "record"}, Goto(w, pc)
  PROVE  /\ SweepType'
         /\ \A v \in Sweeps \ {w} : sweep'[v] = sweep[v]
         /\ sweep'[w].pc = pc /\ Cur(w)' = Cur(w)
         /\ \A v \in Sweeps : Listed(v)' \subseteq Listed(v)
<1>1. sweep[w] \in Work
  BY DEF TypeOK
<1>2. [sweep[w] EXCEPT !.pc = pc] =
        [pc |-> pc, todo |-> sweep[w].todo, attempts |-> sweep[w].attempts]
  BY <1>1 DEF Work
<1>3. sweep' = [sweep EXCEPT ![w] = [pc |-> pc, todo |-> sweep[w].todo,
                                     attempts |-> sweep[w].attempts]]
  BY <1>2 DEF Goto
<1>4. sweep[w].attempts \in Nat
  BY <1>1 DEF Work
<1> QED
  BY <1>3, <1>4, GotoKeeps

(* Read, Claim, Check, Dispatch, Record, a failing statement and a crash   *)
(* have the shape of WorkShape.                                            *)
LEMMA ReadShape ==
  ASSUME TypeOK, NEW w \in Sweeps, Read(w)
  PROVE  WorkShape(w)
<1>1. /\ sweep[w].pc = "read" /\ sweep[w].pc # "idle"
      /\ UNCHANGED <<booking, moves, job, faults, traced, flying, overtaken>>
  BY DEF Read, history
<1>2. CASE Advance(w)
  <2>1. /\ SweepType' /\ sweep'[w].pc \in {"idle", "read"}
        /\ \A v \in Sweeps \ {w} : sweep'[v] = sweep[v]
        /\ \A v \in Sweeps : Listed(v)' \subseteq Listed(v)
    BY <1>1, <1>2, AdvanceKeeps
  <2> QED
    BY <1>1, <2>1 DEF WorkShape, RowStep, HoldStep, TraceStep, Holding, TypeOK
<1>3. CASE sweep' = [sweep EXCEPT ![w] = [pc |-> "claim", todo |-> @.todo,
                                           attempts |-> job[Cur(w)].attempts]]
  <2>1. job[Cur(w)].attempts \in Nat
    BY <1>1, CurIsJob DEF TypeOK, Row
  <2> DEFINE n == job[Cur(w)].attempts
  <2>2. sweep' = [sweep EXCEPT ![w] = [pc |-> "claim", todo |-> sweep[w].todo, attempts |-> n]]
    BY <1>3
  <2> HIDE DEF n
  <2>3. /\ SweepType' /\ sweep'[w].pc = "claim"
        /\ \A v \in Sweeps \ {w} : sweep'[v] = sweep[v]
        /\ \A v \in Sweeps : Listed(v)' \subseteq Listed(v)
    BY <1>1, <2>1, <2>2, GotoKeeps DEF n
  <2> QED
    BY <1>1, <2>3 DEF WorkShape, RowStep, HoldStep, TraceStep, Holding, TypeOK
<1> QED
  BY <1>2, <1>3 DEF Read

LEMMA ClaimShape ==
  ASSUME TypeOK, NEW w \in Sweeps, Claim(w)
  PROVE  WorkShape(w)
<1>1. /\ sweep[w].pc = "claim" /\ sweep[w].pc # "idle"
      /\ UNCHANGED <<booking, moves, faults, traced, flying, overtaken>>
  BY DEF Claim, history
<1>2. CASE /\ job[Cur(w)].status = "PENDING"
           /\ job' = [job EXCEPT ![Cur(w)] = Claimed(@)]
           /\ Goto(w, "check")
  <2>1. /\ SweepType' /\ sweep'[w].pc = "check" /\ Cur(w)' = Cur(w)
        /\ \A v \in Sweeps \ {w} : sweep'[v] = sweep[v]
        /\ \A v \in Sweeps : Listed(v)' \subseteq Listed(v)
    BY <1>1, <1>2, GotoWritten
  <2>2. /\ job' \in [Jobs -> Row] /\ RowTaken(Cur(w))
        /\ \A k \in Jobs \ {Cur(w)} : job'[k] = job[k]
    BY <1>1, <1>2, ClaimKeeps
  <2>3. RowStep(w) /\ HoldStep(w)
    <3>1. RowStep(w)
      BY <2>2 DEF RowStep
    <3>2. sweep'[w].pc # "send"
      BY <2>1
    <3>3. HoldStep(w)
      BY <2>1, <2>2, <3>2 DEF HoldStep
    <3> QED
      BY <3>1, <3>3
  <2>4. TraceStep(w)
    BY <1>1, <2>1 DEF TraceStep
  <2> QED
    BY <1>1, <2>1, <2>2, <2>3, <2>4 DEF WorkShape, TypeOK
<1>3. CASE Advance(w) /\ UNCHANGED job
  <2>1. /\ SweepType' /\ sweep'[w].pc \in {"idle", "read"}
        /\ \A v \in Sweeps \ {w} : sweep'[v] = sweep[v]
        /\ \A v \in Sweeps : Listed(v)' \subseteq Listed(v)
    BY <1>1, <1>3, AdvanceKeeps
  <2> QED
    BY <1>1, <1>3, <2>1 DEF WorkShape, RowStep, HoldStep, TraceStep, Holding, TypeOK
<1> QED
  BY <1>2, <1>3 DEF Claim

LEMMA CheckShape ==
  ASSUME TypeOK, NEW w \in Sweeps, Check(w)
  PROVE  WorkShape(w)
<1>1. /\ sweep[w].pc = "check" /\ sweep[w].pc # "idle"
      /\ UNCHANGED <<booking, moves, faults, traced, flying, overtaken>>
  BY DEF Check, history
<1>2. ASSUME NEW status \in {"SENT", "CANCELLED"}, Leave(w, status), Advance(w)
      PROVE  WorkShape(w)
  <2>1. /\ SweepType' /\ sweep'[w].pc \in {"idle", "read"}
        /\ \A v \in Sweeps \ {w} : sweep'[v] = sweep[v]
        /\ \A v \in Sweeps : Listed(v)' \subseteq Listed(v)
    BY <1>1, <1>2, AdvanceKeeps
  <2>2. /\ job' \in [Jobs -> Row] /\ job'[Cur(w)].status = status
        /\ \A k \in Jobs \ {Cur(w)} : job'[k] = job[k]
    BY <1>1, <1>2, LeaveKeeps
  <2> QED
    BY <1>1, <2>1, <2>2
       DEF WorkShape, RowStep, RowLeft, HoldStep, TraceStep, Holding, TypeOK
<1>3. CASE ~StaleAtDispatch(Cur(w)) /\ Goto(w, "send") /\ UNCHANGED job
  <2>1. /\ SweepType' /\ sweep'[w].pc = "send" /\ Cur(w)' = Cur(w)
        /\ \A v \in Sweeps \ {w} : sweep'[v] = sweep[v]
        /\ \A v \in Sweeps : Listed(v)' \subseteq Listed(v)
    BY <1>1, <1>3, GotoWritten
  <2> QED
    BY <1>1, <1>3, <2>1 DEF WorkShape, RowStep, HoldStep, TraceStep, Holding, TypeOK
<1> QED
  BY <1>2, <1>3 DEF Check

LEMMA DispatchShape ==
  ASSUME TypeOK, NEW w \in Sweeps, NEW taken \in BOOLEAN, NEW acknowledged \in BOOLEAN,
         Dispatch(w, taken, acknowledged)
  PROVE  WorkShape(w)
<1>1. /\ sweep[w].pc = "send" /\ sweep[w].pc # "idle" /\ Cur(w) \in Jobs
      /\ UNCHANGED <<booking, moves, flying, overtaken>> /\ faults' \in Nat
  <2>1. sweep[w].pc = "send"
    BY DEF Dispatch
  <2>2. faults' \in Nat /\ UNCHANGED <<booking, moves, flying, overtaken>>
    BY DEF Dispatch, TypeOK
  <2> QED
    BY <2>1, <2>2, CurIsJob
<1>2. CASE /\ traced' = [traced EXCEPT ![Cur(w)] = @ + 1]
           /\ Goto(w, "record") /\ UNCHANGED job
  <2>1. /\ SweepType' /\ sweep'[w].pc = "record" /\ Cur(w)' = Cur(w)
        /\ \A v \in Sweeps \ {w} : sweep'[v] = sweep[v]
        /\ \A v \in Sweeps : Listed(v)' \subseteq Listed(v)
    BY <1>1, <1>2, GotoWritten
  <2>2. /\ traced' \in [Jobs -> Int] /\ traced'[Cur(w)] = traced[Cur(w)] + 1
        /\ \A k \in Jobs \ {Cur(w)} : traced'[k] = traced[k]
    BY <1>1, <1>2 DEF TypeOK
  <2> QED
    BY <1>1, <1>2, <2>1, <2>2 DEF WorkShape, RowStep, HoldStep, TraceStep, Holding, TypeOK
<1>3. CASE Fail(w) /\ UNCHANGED traced
  <2>1. /\ job' \in [Jobs -> Row] /\ RowLeft(Cur(w))
        /\ \A k \in Jobs \ {Cur(w)} : job'[k] = job[k]
        /\ Advance(w)
    BY <1>1, <1>3, FailKeeps
  <2>2. /\ SweepType' /\ sweep'[w].pc \in {"idle", "read"}
        /\ \A v \in Sweeps \ {w} : sweep'[v] = sweep[v]
        /\ \A v \in Sweeps : Listed(v)' \subseteq Listed(v)
    BY <1>1, <2>1, AdvanceKeeps
  <2> QED
    BY <1>1, <1>3, <2>1, <2>2 DEF WorkShape, RowStep, HoldStep, TraceStep, Holding, TypeOK
<1> QED
  BY <1>2, <1>3 DEF Dispatch

LEMMA RecordShape ==
  ASSUME TypeOK, NEW w \in Sweeps, Record(w)
  PROVE  WorkShape(w)
<1> DEFINE r == [status |-> "SENT", attempts |-> job[Cur(w)].attempts + 1, wait |-> 0, age |-> 0]
<1>1. /\ sweep[w].pc = "record" /\ sweep[w].pc # "idle" /\ Advance(w)
      /\ UNCHANGED <<booking, moves, faults, traced, flying, overtaken>>
      /\ job' = [job EXCEPT ![Cur(w)] = r]
  BY DEF Record, history
<1>2. Cur(w) \in Jobs /\ job[Cur(w)] \in Row
  BY <1>1, CurIsJob DEF TypeOK
<1>3. r \in Row /\ r.status = "SENT"
  BY <1>2 DEF Row, Settled
<1> HIDE DEF r
<1>4. /\ job' \in [Jobs -> Row] /\ job'[Cur(w)].status = "SENT"
      /\ \A k \in Jobs \ {Cur(w)} : job'[k] = job[k]
  BY <1>1, <1>2, <1>3, RowWritten
<1>5. /\ SweepType' /\ sweep'[w].pc \in {"idle", "read"}
      /\ \A v \in Sweeps \ {w} : sweep'[v] = sweep[v]
      /\ \A v \in Sweeps : Listed(v)' \subseteq Listed(v)
  BY <1>1, AdvanceKeeps
<1> QED
  BY <1>1, <1>4, <1>5
     DEF WorkShape, RowStep, RowLeft, HoldStep, TraceStep, Holding, TypeOK

\* the trace is lost when the sweep was about to record it
LEMMA UntracedKeeps ==
  ASSUME TypeOK, NEW w \in Sweeps, sweep[w].pc # "idle", traced' = Untraced(w),
         sweep'[w].pc \in {"idle", "read"}
  PROVE  traced' \in [Jobs -> Int] /\ TraceStep(w)
<1>1. Cur(w) \in Jobs
  BY CurIsJob
<1>2. CASE sweep[w].pc = "record"
  <2>1. traced' = [traced EXCEPT ![Cur(w)] = @ - 1]
    BY <1>2 DEF Untraced
  <2> QED
    BY <1>1, <1>2, <2>1 DEF TraceStep, TypeOK
<1>3. CASE sweep[w].pc # "record"
  BY <1>3 DEF Untraced, TraceStep, TypeOK
<1> QED
  BY <1>2, <1>3

LEMMA StatementFailsShape ==
  ASSUME TypeOK, NEW w \in Sweeps, StatementFails(w)
  PROVE  WorkShape(w)
<1>1. /\ sweep[w].pc \in {"check", "record"} /\ sweep[w].pc # "idle" /\ Fail(w)
      /\ UNCHANGED <<booking, moves, flying, overtaken>> /\ faults' \in Nat
      /\ traced' = Untraced(w)
  BY DEF StatementFails, TypeOK
<1>2. /\ job' \in [Jobs -> Row] /\ RowLeft(Cur(w))
      /\ \A k \in Jobs \ {Cur(w)} : job'[k] = job[k]
      /\ Advance(w)
  BY <1>1, FailKeeps
<1>3. /\ SweepType' /\ sweep'[w].pc \in {"idle", "read"}
      /\ \A v \in Sweeps \ {w} : sweep'[v] = sweep[v]
      /\ \A v \in Sweeps : Listed(v)' \subseteq Listed(v)
  BY <1>1, <1>2, AdvanceKeeps
<1>4. traced' \in [Jobs -> Int] /\ TraceStep(w)
  BY <1>1, <1>3, UntracedKeeps
<1>5. RowStep(w) /\ HoldStep(w)
  BY <1>1, <1>2, <1>3 DEF RowStep, HoldStep, Holding
<1> QED
  BY <1>1, <1>2, <1>3, <1>4, <1>5 DEF WorkShape

LEMMA CrashShape ==
  ASSUME TypeOK, NEW w \in Sweeps, Crash(w)
  PROVE  WorkShape(w)
<1>1. /\ sweep[w].pc # "idle"
      /\ UNCHANGED <<booking, moves, job, flying, overtaken>> /\ faults' \in Nat
      /\ traced' = Untraced(w) /\ sweep' = [sweep EXCEPT ![w] = AtRest]
  BY DEF Crash, TypeOK
<1>2. AtRest \in Work /\ AtRest.pc = "idle" /\ AtRest.todo = <<>>
  BY EmptySeq DEF AtRest, Work
<1>3. /\ sweep' \in [Sweeps -> Work] /\ sweep'[w] = AtRest
      /\ \A v \in Sweeps \ {w} : sweep'[v] = sweep[v]
  BY <1>1, <1>2 DEF TypeOK
<1>4. SweepType'
  BY <1>2, <1>3 DEF SweepType, TypeOK
<1>5. Len(AtRest.todo) = 0
  BY EmptySeq DEF AtRest
<1>6. \A v \in Sweeps : Listed(v)' \subseteq Listed(v)
  BY <1>3, <1>5 DEF Listed
<1>7. traced' \in [Jobs -> Int] /\ TraceStep(w)
  BY <1>1, <1>2, <1>3, UntracedKeeps
<1>8. RowStep(w) /\ HoldStep(w)
  BY <1>1, <1>2, <1>3 DEF RowStep, HoldStep, Holding
<1> QED
  BY <1>1, <1>3, <1>4, <1>6, <1>7, <1>8 DEF WorkShape, TypeOK

LEMMA EveryWorkShape ==
  ASSUME TypeOK, NEW w \in Sweeps,
         \/ Read(w) \/ Claim(w) \/ Check(w) \/ Record(w)
         \/ \E taken, acknowledged \in BOOLEAN : Dispatch(w, taken, acknowledged)
         \/ StatementFails(w) \/ Crash(w)
  PROVE  WorkShape(w)
BY ReadShape, ClaimShape, CheckShape, DispatchShape, RecordShape, StatementFailsShape,
   CrashShape

(***************************************************************************)
(* A statement of a sweep keeps the invariant.                             *)
(***************************************************************************)

LEMMA WorkInv ==
  ASSUME OutboxInv, NEW w \in Sweeps, WorkShape(w)
  PROVE  OutboxInv'
<1> DEFINE c == Cur(w)
<1>1. /\ c \in Jobs /\ c \in Listed(w) /\ sweep[w].pc # "idle"
      /\ \A v \in Sweeps : sweep[v].pc # "idle" => Cur(v) \in Jobs /\ Cur(v) \in Listed(v)
  BY CurIsJob DEF OutboxInv, WorkShape
<1>2. /\ UNCHANGED <<booking, moves, flying, overtaken>>
      /\ job' \in [Jobs -> Row] /\ SweepType' /\ faults' \in Nat /\ traced' \in [Jobs -> Int]
      /\ \A k \in Jobs \ {c} : job'[k] = job[k]
      /\ \A v \in Sweeps \ {w} : sweep'[v] = sweep[v]
      /\ \A v \in Sweeps : Listed(v)' \subseteq Listed(v)
  BY DEF WorkShape
<1>3. RowStep(w) /\ HoldStep(w) /\ TraceStep(w)
  BY DEF WorkShape
<1>4. Holding(w) => job[c].status = "PROCESSING"
  BY DEF OutboxInv, HeldOK
<1>5. \A v \in Sweeps \ {w} : Holding(v)' <=> Holding(v)
  BY <1>2 DEF Holding
<1>6. \A v \in Sweeps \ {w} : Cur(v)' = Cur(v)
  BY <1>2 DEF Cur
<1>7. TypeOK'
  BY <1>2 DEF OutboxInv, TypeOK, SweepType
<1>8. \A v \in Sweeps \ {w} : Holding(v) => Cur(v) # c \/ job'[c] = job[c]
  <2> SUFFICES ASSUME NEW v \in Sweeps \ {w}, Holding(v), Cur(v) = c
               PROVE  job'[c] = job[c]
    OBVIOUS
  <2>1. job[c].status = "PROCESSING" /\ ~Holding(w)
    BY DEF OutboxInv, HeldOK
  <2> QED
    BY <1>3, <2>1 DEF RowStep, RowTaken
<1>9. ASSUME NEW v \in Sweeps PROVE HeldOK(v)'
  <2> SUFFICES ASSUME Holding(v)'
               PROVE  /\ job'[Cur(v)'].status = "PROCESSING"
                      /\ job'[Cur(v)'].age <= ReclaimAfter
                      /\ \A u \in Sweeps \ {v} : Holding(u)' => Cur(u)' # Cur(v)'
    BY DEF HeldOK
  <2>1. CASE v = w
    <3>1. /\ Cur(w)' = c
          /\ \/ RowTaken(c)
             \/ Holding(w) /\ job'[c] = job[c]
      BY <1>3, <2>1 DEF HoldStep
    <3>2. job'[c].status = "PROCESSING" /\ job'[c].age <= ReclaimAfter
      BY <3>1, OutboxAssumption DEF RowTaken, OutboxInv, HeldOK, OutboxAssumption
    <3>3. \A u \in Sweeps \ {w} : Holding(u) => Cur(u) # c
      BY <3>1 DEF RowTaken, OutboxInv, HeldOK
    <3> QED
      BY <1>5, <1>6, <2>1, <3>1, <3>2, <3>3
  <2>2. CASE v # w
    <3>1. Holding(v) /\ Cur(v)' = Cur(v) /\ Cur(v) \in Jobs
      BY <1>1, <1>5, <1>6, <2>2 DEF Holding
    <3>2. job'[Cur(v)] = job[Cur(v)]
      BY <1>2, <1>8, <2>2, <3>1
    <3>3. HeldOK(v)
      BY DEF OutboxInv
    <3>4. \A u \in Sweeps \ {v, w} : Holding(u)' => Cur(u)' # Cur(v)
      BY <1>5, <1>6, <3>1, <3>3 DEF HeldOK
    <3>5. Holding(w)' => Cur(w)' # Cur(v)
      <4> SUFFICES ASSUME Holding(w)', Cur(w)' = Cur(v) PROVE FALSE
        OBVIOUS
      <4>1. Cur(v) = c /\ (RowTaken(c) \/ Holding(w))
        BY <1>3 DEF HoldStep
      <4> QED
        BY <2>2, <3>1, <3>3, <4>1 DEF HeldOK, RowTaken
    <3> QED
      BY <3>1, <3>2, <3>3, <3>4, <3>5 DEF HeldOK
  <2> QED
    BY <2>1, <2>2
<1>10. ASSUME NEW v \in Sweeps PROVE QuietOK(v)'
  <2>1. CASE v # w
    BY <1>2, <1>6, <2>1 DEF OutboxInv, QuietOK
  <2>2. CASE v = w
    <3>1. sweep'[w].pc = "send" => Cur(w)' = c /\ ~StaleAtDispatch(c)
      BY <1>3 DEF HoldStep, Holding
    <3> QED
      BY <1>2, <2>2, <3>1 DEF QuietOK, StaleAtDispatch, HasBooking, Kind
  <2> QED
    BY <2>1, <2>2
<1>11. RowsOK'
  <2>1. job[c].status # "NONE"
    BY <1>1 DEF OutboxInv, RowsOK
  <2>2. job'[c].status # "NONE"
    BY <1>3, <2>1 DEF RowStep, RowTaken, RowLeft
  <2>3. \A j \in Jobs : Unwritten(j)' <=> Unwritten(j)
    BY <1>2 DEF Unwritten
  <2>4. \A j \in Jobs : Unwritten(j)' => job'[j].status = "NONE"
    BY <1>2, <2>1, <2>3 DEF OutboxInv, RowsOK
  <2>5. \A v \in Sweeps : \A j \in Listed(v)' : job'[j].status # "NONE"
    <3> SUFFICES ASSUME NEW v \in Sweeps, NEW j \in Listed(v)'
                 PROVE  job'[j].status # "NONE"
      OBVIOUS
    <3>1. j \in Listed(v) /\ j \in Jobs
      BY <1>2, ListedAreJobs DEF OutboxInv
    <3> QED
      BY <1>2, <2>2, <3>1 DEF OutboxInv, RowsOK
  <2> QED
    BY <2>4, <2>5 DEF RowsOK
<1>12. \A k \in Jobs : job[k].status = "SENT" => job'[k].status = "SENT"
  <2>1. job[c].status = "SENT" => job'[c] = job[c]
    BY <1>3, <1>4 DEF RowStep, RowTaken
  <2> QED
    BY <1>2, <2>1
<1>13. TraceOK'
  <2>1. \A j \in Jobs : traced'[j] \in {0, 1}
    <3>1. sweep[w].pc = "send" => traced[c] = 0
      <4> SUFFICES ASSUME sweep[w].pc = "send", traced[c] = 1 PROVE FALSE
        BY <1>1 DEF OutboxInv, TraceOK
      <4>1. job[c].status = "PROCESSING"
        BY <1>4 DEF Holding
      <4>2. PICK v \in Sweeps : sweep[v].pc = "record" /\ Cur(v) = c
        BY <1>1, <4>1 DEF OutboxInv, TraceOK
      <4> QED
        BY <4>2 DEF OutboxInv, HeldOK, Holding
    <3>2. sweep[w].pc = "record" => traced[c] = 1
      BY DEF OutboxInv, TraceOK
    <3>3. traced'[c] \in {0, 1}
      BY <1>1, <1>3, <3>1, <3>2 DEF TraceStep, OutboxInv, TraceOK
    <3> QED
      BY <1>3, <3>3 DEF TraceStep, OutboxInv, TraceOK
  <2>2. ASSUME NEW j \in Jobs, traced'[j] = 1
        PROVE  \/ job'[j].status = "SENT"
               \/ \E v \in Sweeps : sweep'[v].pc = "record" /\ Cur(v)' = j
    <3>1. CASE j # c
      <4>1. traced[j] = 1
        BY <1>3, <2>2, <3>1 DEF TraceStep
      <4>2. CASE job[j].status = "SENT"
        BY <1>12, <4>2
      <4>3. CASE \E v \in Sweeps : sweep[v].pc = "record" /\ Cur(v) = j
        <5>1. PICK v \in Sweeps : sweep[v].pc = "record" /\ Cur(v) = j
          BY <4>3
        <5>2. v # w
          BY <3>1, <5>1
        <5> QED
          BY <1>2, <1>6, <5>1, <5>2
      <4> QED
        BY <4>1, <4>2, <4>3 DEF OutboxInv, TraceOK
    <3>2. CASE j = c /\ sweep'[w].pc = "record"
      BY <1>3, <3>2 DEF HoldStep, Holding
    <3>3. CASE j = c /\ sweep'[w].pc # "record"
      <4>1. CASE sweep[w].pc = "record"
        <5>1. traced[c] = 1
          BY <4>1 DEF OutboxInv, TraceOK
        <5>2. traced' # traced => traced'[c] = traced[c] - 1
          BY <1>3, <3>3, <4>1 DEF TraceStep
        <5>3. traced' = traced
          BY <2>2, <3>3, <5>1, <5>2
        <5>4. traced' = traced => traced'[c] # traced[c] - 1
          BY <5>1
        <5> QED
          BY <1>3, <3>3, <4>1, <5>3, <5>4 DEF TraceStep
      <4>2. CASE sweep[w].pc # "record"
        <5>1. traced[c] = 1
          BY <1>3, <2>2, <3>3, <4>2 DEF TraceStep
        <5>2. CASE job[c].status = "SENT"
          BY <1>1, <1>12, <3>3, <5>2
        <5>3. CASE \E v \in Sweeps : sweep[v].pc = "record" /\ Cur(v) = c
          <6>1. PICK v \in Sweeps : sweep[v].pc = "record" /\ Cur(v) = c
            BY <5>3
          <6>2. v # w
            BY <4>2, <6>1
          <6> QED
            BY <1>2, <1>6, <3>3, <6>1, <6>2
        <5> QED
          BY <1>1, <5>1, <5>2, <5>3 DEF OutboxInv, TraceOK
      <4> QED
        BY <4>1, <4>2
    <3> QED
      BY <3>1, <3>2, <3>3
  <2>3. ASSUME NEW v \in Sweeps, sweep'[v].pc = "record" PROVE traced'[Cur(v)'] = 1
    <3>1. CASE v = w
      <4>1. Cur(w)' = c
        BY <1>3, <2>3, <3>1 DEF HoldStep, Holding
      <4>2. traced'[c] = traced[c] + 1 /\ sweep[w].pc = "send"
        BY <1>3, <2>3, <3>1 DEF TraceStep
      <4>3. traced[c] \in {0, 1} /\ traced'[c] \in {0, 1}
        BY <1>1, <2>1 DEF OutboxInv, TraceOK
      <4> QED
        BY <3>1, <4>1, <4>2, <4>3
    <3>2. CASE v # w
      <4>1. sweep[v].pc = "record" /\ Cur(v)' = Cur(v) /\ Holding(v)
        BY <1>2, <1>6, <2>3, <3>2 DEF Holding
      <4>2. Cur(v) = c => ~Holding(w)
        BY <3>2, <4>1 DEF OutboxInv, HeldOK
      <4>3. traced[Cur(v)] = 1 /\ Cur(v) \in Jobs
        BY <1>1, <4>1 DEF OutboxInv, TraceOK
      <4>4. traced'[Cur(v)] = traced[Cur(v)]
        BY <1>3, <4>2, <4>3 DEF TraceStep, Holding
      <4> QED
        BY <4>1, <4>3, <4>4
    <3> QED
      BY <3>1, <3>2
  <2> QED
    BY <2>1, <2>2, <2>3 DEF TraceOK
<1>14. ASSUME NEW j \in Jobs PROVE TimeOK(j)'
  <2> SUFFICES ASSUME j \in Notices, j.kind = "REMINDER", j \notin overtaken
               PROVE  /\ job'[j].status \in {"PROCESSING", "FAILED"} => Due(j)
                      /\ job'[j].status = "PENDING" =>
                           /\ job'[j].wait >= 0 => booking[j.about].until <= Lead + job'[j].wait
                           /\ job'[j].wait < 0 => Due(j)
                           /\ (\E v \in Sweeps : j \in Listed(v)') => Due(j)
    BY <1>2 DEF TimeOK, Due
  <2>1. /\ job[j].status \in {"PROCESSING", "FAILED"} => Due(j)
        /\ job[j].status = "PENDING" =>
             /\ job[j].wait >= 0 => booking[j.about].until <= Lead + job[j].wait
             /\ job[j].wait < 0 => Due(j)
             /\ (\E v \in Sweeps : j \in Listed(v)) => Due(j)
    BY DEF OutboxInv, TimeOK
  <2>2. (\E v \in Sweeps : j \in Listed(v)') => \E v \in Sweeps : j \in Listed(v)
    BY <1>2
  <2>3. CASE job'[j] = job[j]
    BY <2>1, <2>2, <2>3
  <2>4. CASE j = c /\ RowTaken(c)
    <3>1. Due(j)
      BY <1>1, <2>1, <2>4 DEF RowTaken
    <3> QED
      BY <2>4, <3>1 DEF RowTaken
  <2>5. CASE j = c /\ Holding(w) /\ RowLeft(c)
    <3>1. Due(j)
      BY <1>4, <2>1, <2>5
    <3>2. booking[j.about].until \in Nat /\ job'[j].wait \in Int
      BY <1>2 DEF OutboxInv, TypeOK, Notices, Row
    <3>3. job'[j].wait >= 0 => booking[j.about].until <= Lead + job'[j].wait
      BY <3>1, <3>2, OutboxAssumption DEF Due, OutboxAssumption
    <3> QED
      BY <3>1, <3>3
  <2> QED
    BY <1>2, <1>3, <2>3, <2>4, <2>5 DEF RowStep
<1> QED
  BY <1>7, <1>9, <1>10, <1>11, <1>13, <1>14 DEF OutboxInv

(***************************************************************************)
(* The booking service and the operator keep it.                           *)
(***************************************************************************)

LEMMA WriteKeeps ==
  ASSUME TypeOK, NEW void, NEW post, NEW start \in Int, Write(void, post, start)
  PROVE  /\ job' \in [Jobs -> Row]
         /\ \A j \in Jobs :
              IF j \in post THEN job'[j] = Posted(j, start)
              ELSE IF j \in void /\ job[j].status = "PENDING" THEN job'[j].status = "CANCELLED"
              ELSE job'[j] = job[j]
<1>1. ASSUME NEW j \in Jobs PROVE Posted(j, start) \in Row
  BY OutboxAssumption DEF Posted, Waiting, Row, Settled, OutboxAssumption
<1>2. ASSUME NEW j \in Jobs
      PROVE  /\ Closed(job[j], "CANCELLED") \in Row
             /\ Closed(job[j], "CANCELLED").status = "CANCELLED"
  <2>1. job[j] \in Row
    BY DEF TypeOK
  <2> QED
    BY <2>1 DEF Closed, Row, Settled
<1> QED
  BY <1>1, <1>2 DEF Write, TypeOK

\* with the sweeps at a stand, rows in hand and rows that are SENT unchanged
LEMMA SweepsStand ==
  ASSUME OutboxInv, UNCHANGED <<sweep, traced>>, TypeOK',
         \A j \in Jobs : job[j].status \in {"PROCESSING", "SENT"} => job'[j] = job[j],
         \A j \in Jobs : job[j].status # "NONE" => job'[j].status # "NONE",
         \A j \in Jobs : Unwritten(j)' => job'[j].status = "NONE"
  PROVE  (\A w \in Sweeps : HeldOK(w))' /\ RowsOK' /\ TraceOK'
<1>1. ASSUME NEW w \in Sweeps PROVE HeldOK(w)'
  <2>1. CASE Holding(w)
    <3>1. HeldOK(w) /\ Cur(w) \in Jobs
      BY <2>1, CurIsJob DEF OutboxInv, Holding
    <3>2. job'[Cur(w)] = job[Cur(w)]
      BY <2>1, <3>1 DEF HeldOK
    <3> QED
      BY <3>1, <3>2 DEF HeldOK, Holding, Cur
  <2>2. CASE ~Holding(w)
    BY <2>2 DEF HeldOK, Holding
  <2> QED
    BY <2>1, <2>2
<1>2. TraceOK'
  <2>1. \A j \in Jobs : job[j].status = "SENT" => job'[j].status = "SENT"
    OBVIOUS
  <2>2. \A w \in Sweeps : Cur(w)' = Cur(w) /\ sweep'[w].pc = sweep[w].pc
    BY DEF Cur
  <2>3. traced' = traced
    OBVIOUS
  <2>4. \A j \in Jobs : traced'[j] = 1 =>
          \/ job'[j].status = "SENT"
          \/ \E w \in Sweeps : sweep'[w].pc = "record" /\ Cur(w)' = j
    BY <2>1, <2>2, <2>3 DEF OutboxInv, TraceOK
  <2> QED
    BY <2>2, <2>3, <2>4 DEF OutboxInv, TraceOK
<1>3. RowsOK'
  <2>1. ASSUME NEW w \in Sweeps, NEW j \in Listed(w)' PROVE job'[j].status # "NONE"
    <3>1. j \in Listed(w)
      BY DEF Listed
    <3> QED
      BY <3>1, ListedAreJobs DEF OutboxInv, RowsOK
  <2> QED
    BY <2>1 DEF RowsOK
<1> QED
  BY <1>1, <1>2, <1>3

LEMMA PostedIsNotice ==
  ASSUME NEW b \in Bookings, NEW m \in Nat, NEW k \in Template, Notice(b, m, k) \in Jobs
  PROVE  Notice(b, m, k) \in Notices
BY OutboxAssumption DEF OutboxAssumption, Jobs, Notice

LEMMA RescheduleInv ==
  ASSUME OutboxInv, NEW b \in Bookings, NEW start \in Starts, Reschedule(b, start)
  PROVE  OutboxInv'
<1> DEFINE m == moves[b] + 1
           post == {Notice(b, m, "RESCHEDULED")} \cup ReminderOf(b, m, start)
<1>1. start \in Nat /\ Lead \in Nat
  BY OutboxAssumption DEF OutboxAssumption
<1>2. /\ moves' = [moves EXCEPT ![b] = m] /\ moves'[b] = m
      /\ booking[b].live /\ booking' = [booking EXCEPT ![b].until = start]
      /\ Write(RemindersOf(b), post, start)
      /\ overtaken' = overtaken \cup
           {j \in RemindersOf(b) : job[j].status \in {"PROCESSING", "FAILED"}}
      /\ UNCHANGED <<sweep, faults, traced, flying>>
  BY DEF Reschedule, OutboxInv, TypeOK
<1>3. /\ booking' \in [Bookings -> [live : BOOLEAN, until : Nat]]
      /\ \A x \in Bookings : booking'[x].live = booking[x].live
      /\ \A x \in Bookings \ {b} : booking'[x] = booking[x]
      /\ booking'[b].until = start
  BY <1>1, <1>2 DEF OutboxInv, TypeOK
<1>4. /\ moves' \in [Bookings -> Nat]
      /\ \A x \in Bookings \ {b} : moves'[x] = moves[x]
  BY <1>2 DEF OutboxInv, TypeOK
<1>5. ASSUME NEW j \in Jobs, j \in post
      PROVE  /\ j \in Notices /\ j.about = b /\ j.move = m /\ job[j].status = "NONE"
             /\ j.kind \in {"REMINDER", "RESCHEDULED"}
             /\ j.kind = "REMINDER" => start > Lead
  <2>1. j.about = b /\ j.move = m /\ j.kind \in {"REMINDER", "RESCHEDULED"}
    BY <1>5 DEF Notice, ReminderOf
  <2>2. j.kind = "REMINDER" => start > Lead
    BY <1>5 DEF Notice, ReminderOf
  <2>3. j \in Notices
    <3>1. m \in Nat /\ "RESCHEDULED" \in Template /\ "REMINDER" \in Template
      BY <1>2 DEF OutboxInv, TypeOK, Template
    <3>2. CASE j = Notice(b, m, "RESCHEDULED")
      BY <3>1, <3>2, PostedIsNotice
    <3>3. CASE j = Notice(b, m, "REMINDER")
      BY <3>1, <3>3, PostedIsNotice
    <3> QED
      BY <1>5, <3>2, <3>3 DEF ReminderOf
  <2>4. m > moves[b]
    BY <1>2 DEF OutboxInv, TypeOK
  <2> QED
    BY <2>1, <2>2, <2>3, <2>4 DEF OutboxInv, RowsOK, Unwritten
<1> HIDE DEF post
<1>6. /\ job' \in [Jobs -> Row]
      /\ \A j \in Jobs :
           IF j \in post THEN job'[j] = Posted(j, start)
           ELSE IF j \in RemindersOf(b) /\ job[j].status = "PENDING"
                THEN job'[j].status = "CANCELLED"
           ELSE job'[j] = job[j]
  BY <1>1, <1>2, WriteKeeps DEF OutboxInv
<1>7. \A j \in Jobs \cap post :
        /\ job'[j].status = "PENDING"
        /\ job'[j].wait = IF j.kind = "REMINDER" THEN start - Lead ELSE 0
  BY <1>6 DEF Posted, Waiting
<1>8. TypeOK'
  <2>1. overtaken' \subseteq Jobs
    BY <1>2 DEF RemindersOf, NoticesOf, Jobs, OutboxInv, TypeOK
  <2> QED
    BY <1>2, <1>3, <1>4, <1>6, <2>1 DEF OutboxInv, TypeOK
<1>9. \A j \in Jobs : Unwritten(j)' => Unwritten(j) /\ j \notin post
  <2> SUFFICES ASSUME NEW j \in Jobs, Unwritten(j)' PROVE Unwritten(j) /\ j \notin post
    OBVIOUS
  <2>1. j \in Notices /\ j.about \in Bookings /\ j.move \in Nat
    BY DEF Unwritten, Notices, OutboxInv, TypeOK
  <2>2. CASE j.about = b
    BY <1>2, <1>3, <1>5, <2>1, <2>2 DEF Unwritten, OutboxInv, TypeOK
  <2>3. CASE j.about # b
    BY <1>3, <1>4, <1>5, <2>1, <2>3 DEF Unwritten
  <2> QED
    BY <2>2, <2>3
<1>10. (\A w \in Sweeps : HeldOK(w))' /\ RowsOK' /\ TraceOK'
  <2>1. \A j \in Jobs : job[j].status \in {"PROCESSING", "SENT"} => job'[j] = job[j]
    BY <1>5, <1>6
  <2>2. \A j \in Jobs : job[j].status # "NONE" => job'[j].status # "NONE"
    BY <1>5, <1>6
  <2>3. \A j \in Jobs : Unwritten(j)' => job'[j].status = "NONE"
    BY <1>6, <1>9 DEF OutboxInv, RowsOK
  <2> QED
    BY <1>2, <1>8, <2>1, <2>2, <2>3, SweepsStand
<1>11. ASSUME NEW w \in Sweeps PROVE QuietOK(w)'
  <2>1. sweep[w].pc = "send" /\ Cur(w) \in Notices => Cur(w).about \in Bookings
    BY DEF Notices
  <2> QED
    BY <1>2, <1>3, <2>1 DEF OutboxInv, QuietOK, Cur
<1>12. ASSUME NEW j \in Jobs PROVE TimeOK(j)'
  <2> SUFFICES ASSUME j \in Notices, j.kind = "REMINDER", j \notin overtaken'
               PROVE  TimeOK(j)'
    BY DEF TimeOK
  <2>1. TimeOK(j) /\ j \notin overtaken /\ j.about \in Bookings
    BY <1>2 DEF OutboxInv, Notices
  <2>2. CASE j \in post
    <3>1. job'[j].status = "PENDING" /\ job'[j].wait = start - Lead /\ start > Lead
      BY <1>5, <1>7, <2>2
    <3>2. j.about = b /\ booking'[b].until = start
      BY <1>3, <1>5, <2>2
    <3>3. \A w \in Sweeps : j \notin Listed(w)'
      BY <1>2, <1>5, <2>2 DEF Listed, OutboxInv, RowsOK
    <3> QED
      BY <1>1, <3>1, <3>2, <3>3 DEF TimeOK
  <2>3. CASE j \notin post /\ j.about = b
    <3>1. j \in RemindersOf(b)
      BY <2>3 DEF RemindersOf, NoticesOf
    <3>2. job[j].status \notin {"PROCESSING", "FAILED"}
      BY <1>2, <3>1
    <3>3. job'[j].status \notin {"PROCESSING", "FAILED", "PENDING"}
      BY <1>6, <2>3, <3>1, <3>2
    <3> QED
      BY <3>3 DEF TimeOK
  <2>4. CASE j \notin post /\ j.about # b
    <3>1. job'[j] = job[j] /\ booking'[j.about] = booking[j.about]
      BY <1>3, <1>6, <2>1, <2>4 DEF RemindersOf, NoticesOf
    <3>2. \A w \in Sweeps : Listed(w)' = Listed(w)
      BY <1>2 DEF Listed
    <3> QED
      BY <2>1, <3>1, <3>2 DEF TimeOK, Due
  <2> QED
    BY <2>2, <2>3, <2>4
<1> QED
  BY <1>8, <1>10, <1>11, <1>12 DEF OutboxInv

LEMMA DieInv ==
  ASSUME OutboxInv, NEW b \in Bookings, NEW announced \in BOOLEAN, Die(b, announced)
  PROVE  OutboxInv'
<1> DEFINE m == moves[b]
           post == IF announced THEN {Notice(b, m, "CANCELLED")} ELSE {}
<1>1. /\ booking[b].live /\ booking' = [booking EXCEPT ![b].live = FALSE]
      /\ Write(NoticesOf(b), post, 0)
      /\ flying' = flying \cup (PastCheck \cap NoticesOf(b))
      /\ m \in Nat
      /\ UNCHANGED <<moves, sweep, faults, traced, overtaken>>
  BY DEF Die, OutboxInv, TypeOK
<1>2. /\ booking' \in [Bookings -> [live : BOOLEAN, until : Nat]]
      /\ \A x \in Bookings : booking'[x].until = booking[x].until
      /\ \A x \in Bookings : booking'[x].live => booking[x].live
      /\ \A x \in Bookings \ {b} : booking'[x] = booking[x]
  BY <1>1 DEF OutboxInv, TypeOK
<1>3. ASSUME NEW j \in Jobs, j \in post
      PROVE  /\ j \in Notices /\ j.about = b /\ j.move = m /\ j.kind = "CANCELLED"
             /\ job[j].status = "NONE"
  <2>1. j = Notice(b, m, "CANCELLED") /\ "CANCELLED" \in Template
    BY <1>3 DEF Template
  <2>2. j \in Notices
    BY <1>1, <2>1, PostedIsNotice
  <2>3. j.about = b /\ j.move = m /\ j.kind = "CANCELLED"
    BY <2>1 DEF Notice
  <2> QED
    BY <1>1, <2>2, <2>3 DEF OutboxInv, RowsOK, Unwritten
<1> HIDE DEF post
<1>4. /\ job' \in [Jobs -> Row]
      /\ \A j \in Jobs :
           IF j \in post THEN job'[j] = Posted(j, 0)
           ELSE IF j \in NoticesOf(b) /\ job[j].status = "PENDING"
                THEN job'[j].status = "CANCELLED"
           ELSE job'[j] = job[j]
  BY <1>1, WriteKeeps DEF OutboxInv
<1>5. TypeOK'
  <2>1. flying' \subseteq Jobs
    BY <1>1 DEF NoticesOf, Jobs, OutboxInv, TypeOK
  <2> QED
    BY <1>1, <1>2, <1>4, <2>1 DEF OutboxInv, TypeOK
<1>6. \A j \in Jobs : Unwritten(j)' => Unwritten(j) /\ j \notin post
  <2> SUFFICES ASSUME NEW j \in Jobs, Unwritten(j)' PROVE Unwritten(j) /\ j \notin post
    OBVIOUS
  <2>1. j \in Notices /\ j.about \in Bookings /\ j.move \in Nat
    BY DEF Unwritten, Notices, OutboxInv, TypeOK
  <2>2. Unwritten(j)
    BY <1>1, <1>2, <2>1 DEF Unwritten
  <2>3. ~booking'[b].live
    BY <1>1 DEF OutboxInv, TypeOK
  <2>4. j \notin post
    BY <1>1, <1>3, <2>1, <2>3 DEF Unwritten
  <2> QED
    BY <2>2, <2>4
<1>7. (\A w \in Sweeps : HeldOK(w))' /\ RowsOK' /\ TraceOK'
  <2>1. \A j \in Jobs : job[j].status \in {"PROCESSING", "SENT"} => job'[j] = job[j]
    BY <1>3, <1>4
  <2>2. \A j \in Jobs : job[j].status # "NONE" => job'[j].status # "NONE"
    BY <1>3, <1>4
  <2>3. \A j \in Jobs : Unwritten(j)' => job'[j].status = "NONE"
    BY <1>4, <1>6 DEF OutboxInv, RowsOK
  <2> QED
    BY <1>1, <1>5, <2>1, <2>2, <2>3, SweepsStand
<1>8. ASSUME NEW w \in Sweeps PROVE QuietOK(w)'
  <2> SUFFICES ASSUME sweep[w].pc = "send", Cur(w) \in Notices, Cur(w).kind # "CANCELLED",
                      ~booking'[Cur(w).about].live
               PROVE  Cur(w) \in flying'
    BY <1>1 DEF QuietOK, Cur
  <2>1. CASE Cur(w).about = b
    BY <1>1, <2>1 DEF PastCheck, NoticesOf
  <2>2. CASE Cur(w).about # b
    <3>1. booking'[Cur(w).about] = booking[Cur(w).about]
      BY <1>2, <2>2 DEF Notices
    <3> QED
      BY <1>1, <3>1 DEF OutboxInv, QuietOK
  <2> QED
    BY <2>1, <2>2
<1>9. ASSUME NEW j \in Jobs PROVE TimeOK(j)'
  <2> SUFFICES ASSUME j \in Notices, j.kind = "REMINDER", j \notin overtaken'
               PROVE  TimeOK(j)'
    BY DEF TimeOK
  <2>1. TimeOK(j) /\ j \notin overtaken /\ j.about \in Bookings
    BY <1>1 DEF OutboxInv, Notices
  <2>2. j \notin post
    BY <1>3
  <2>3. job'[j].status = "CANCELLED" \/ job'[j] = job[j]
    BY <1>4, <2>2
  <2>4. \A w \in Sweeps : Listed(w)' = Listed(w)
    BY <1>1 DEF Listed
  <2>5. booking'[j.about].until = booking[j.about].until
    BY <1>2, <2>1
  <2> QED
    BY <2>1, <2>3, <2>4, <2>5 DEF TimeOK, Due
<1> QED
  BY <1>5, <1>7, <1>8, <1>9 DEF OutboxInv

LEMMA RetryFailedInv ==
  ASSUME OutboxInv, NEW o \in Jobs, RetryFailed(o)
  PROVE  OutboxInv'
<1>1. /\ job[o].status = "FAILED" /\ job' = [job EXCEPT ![o] = Waiting(0)]
      /\ faults' = faults + 1 /\ UNCHANGED <<booking, moves, sweep, traced, flying, overtaken>>
  BY DEF RetryFailed, history
<1>2. Waiting(0) \in Row /\ Waiting(0).status = "PENDING" /\ Waiting(0).wait = 0
  BY DEF Waiting, Row
<1>3. /\ job' \in [Jobs -> Row] /\ job'[o] = Waiting(0)
      /\ \A j \in Jobs \ {o} : job'[j] = job[j]
  BY <1>1, <1>2 DEF OutboxInv, TypeOK
<1>4. TypeOK'
  BY <1>1, <1>3 DEF OutboxInv, TypeOK
<1>5. (\A w \in Sweeps : HeldOK(w))' /\ RowsOK' /\ TraceOK'
  <2>1. \A j \in Jobs : job[j].status \in {"PROCESSING", "SENT"} => job'[j] = job[j]
    BY <1>1, <1>3
  <2>2. \A j \in Jobs : job[j].status # "NONE" => job'[j].status # "NONE"
    BY <1>1, <1>2, <1>3
  <2>3. \A j \in Jobs : Unwritten(j)' => job'[j].status = "NONE"
    <3>1. \A j \in Jobs : Unwritten(j)' => Unwritten(j)
      BY <1>1 DEF Unwritten
    <3> QED
      BY <1>1, <1>3, <3>1 DEF OutboxInv, RowsOK
  <2> QED
    BY <1>1, <1>4, <2>1, <2>2, <2>3, SweepsStand
<1>6. ASSUME NEW w \in Sweeps PROVE QuietOK(w)'
  BY <1>1 DEF OutboxInv, QuietOK, Cur
<1>7. ASSUME NEW j \in Jobs PROVE TimeOK(j)'
  <2> SUFFICES ASSUME j \in Notices, j.kind = "REMINDER", j \notin overtaken'
               PROVE  TimeOK(j)'
    BY DEF TimeOK
  <2>1. TimeOK(j) /\ j \notin overtaken /\ j.about \in Bookings
    BY <1>1 DEF OutboxInv, Notices
  <2>2. \A w \in Sweeps : Listed(w)' = Listed(w)
    BY <1>1 DEF Listed
  <2>3. CASE j = o
    <3>1. Due(j)
      BY <1>1, <2>1, <2>3 DEF TimeOK
    <3>2. booking'[j.about].until <= Lead + job'[j].wait
      BY <1>1, <1>2, <1>3, <2>1, <2>3, <3>1, OutboxAssumption
      DEF Due, OutboxAssumption, OutboxInv, TypeOK
    <3>3. job'[j].status = "PENDING" /\ job'[j].wait = 0
      BY <1>2, <1>3, <2>3
    <3> QED
      BY <1>1, <3>1, <3>2, <3>3 DEF TimeOK, Due
  <2>4. CASE j # o
    BY <1>1, <1>3, <2>1, <2>2, <2>4 DEF TimeOK, Due
  <2> QED
    BY <2>3, <2>4
<1> QED
  BY <1>4, <1>5, <1>6, <1>7 DEF OutboxInv

(***************************************************************************)
(* Time keeps it: a live worker settles its claim before it is reclaimed,  *)
(* and a reminder's wait runs down with the time to the start.             *)
(***************************************************************************)

LEMMA TickInv ==
  ASSUME OutboxInv, Tick
  PROVE  OutboxInv'
<1>1. /\ \A w \in Sweeps : Holding(w) => job[Cur(w)].age < Patience
      /\ UNCHANGED <<moves, sweep, faults, traced, flying, overtaken>>
  BY DEF Tick, history
<1>2. /\ booking' \in [Bookings -> [live : BOOLEAN, until : Nat]]
      /\ \A b \in Bookings : booking'[b].live = booking[b].live
      /\ \A b \in Bookings :
           booking'[b].until = IF booking[b].until = 0 THEN 0 ELSE booking[b].until - 1
  <2> SUFFICES ASSUME NEW b \in Bookings
               PROVE  /\ booking'[b] \in [live : BOOLEAN, until : Nat]
                      /\ booking'[b].live = booking[b].live
                      /\ booking'[b].until = IF booking[b].until = 0 THEN 0
                                             ELSE booking[b].until - 1
    BY DEF Tick
  <2>1. booking[b] \in [live : BOOLEAN, until : Nat]
    BY DEF OutboxInv, TypeOK
  <2>2. booking'[b] = [booking[b] EXCEPT !.until = IF @ = 0 THEN 0 ELSE @ - 1]
    BY DEF Tick
  <2> QED
    BY <2>1, <2>2
<1>3. /\ Stale \in Nat /\ Overdue = -1 /\ ReclaimAfter \in Nat /\ Lead \in Nat
      /\ Patience \in 0..ReclaimAfter
  BY OutboxAssumption DEF OutboxAssumption, Stale, Overdue
<1>4. ASSUME NEW j \in Jobs
      PROVE  /\ job'[j] \in Row /\ job'[j].status = job[j].status
             /\ job'[j].age = job[j].age \/ job'[j].age = job[j].age + 1
             /\ job[j].status = "PENDING" =>
                  job'[j].wait = IF job[j].wait = -1 THEN -1 ELSE job[j].wait - 1
             /\ job[j].status \in {"SENT", "NONE"} => job'[j] = job[j]
  <2>1. job[j] \in Row
    BY DEF OutboxInv, TypeOK
  <2>2. /\ Older(job[j]) \in Row /\ Older(job[j]).status = job[j].status
        /\ Older(job[j]).age = job[j].age \/ Older(job[j]).age = job[j].age + 1
        /\ Older(job[j]).wait = IF job[j].wait = -1 THEN -1 ELSE job[j].wait - 1
    BY <1>3, <2>1 DEF Older, Row
  <2>3. job'[j] = IF job[j].status \in {"PENDING", "PROCESSING"}
                  THEN Older(job[j]) ELSE job[j]
    BY DEF Tick
  <2> QED
    BY <2>1, <2>2, <2>3
<1>5. TypeOK'
  <2>1. job' \in [Jobs -> Row]
    BY <1>4 DEF Tick
  <2> QED
    BY <1>1, <1>2, <2>1 DEF OutboxInv, TypeOK
<1>6. ASSUME NEW w \in Sweeps PROVE HeldOK(w)' /\ QuietOK(w)'
  <2>1. \A v \in Sweeps : Cur(v)' = Cur(v) /\ (Holding(v)' <=> Holding(v))
    BY <1>1 DEF Cur, Holding
  <2>2. CASE Holding(w)
    <3>1. Cur(w) \in Jobs /\ HeldOK(w)
      BY <2>2, CurIsJob DEF OutboxInv, Holding
    <3>2. job[Cur(w)].age \in Nat /\ job[Cur(w)].age < Patience
      BY <1>1, <2>2, <3>1 DEF OutboxInv, TypeOK, Row
    <3>3. job'[Cur(w)].age <= ReclaimAfter /\ job'[Cur(w)].status = "PROCESSING"
      BY <1>3, <1>4, <2>2, <3>1, <3>2 DEF HeldOK
    <3>4. HeldOK(w)'
      BY <2>1, <2>2, <3>1, <3>3 DEF HeldOK
    <3>5. Cur(w) \in Notices => booking'[Cur(w).about].live = booking[Cur(w).about].live
      BY <1>2 DEF Notices
    <3> QED
      BY <1>1, <2>1, <3>4, <3>5 DEF QuietOK, OutboxInv
  <2>3. CASE ~Holding(w)
    BY <1>1, <2>1, <2>3 DEF HeldOK, QuietOK, Holding
  <2> QED
    BY <2>2, <2>3
<1>7. RowsOK'
  <2>1. \A j \in Jobs : Unwritten(j)' => Unwritten(j)
    BY <1>1, <1>2 DEF Unwritten, Notices
  <2>2. \A w \in Sweeps : \A j \in Listed(w)' : j \in Listed(w) /\ j \in Jobs
    BY <1>1, ListedAreJobs DEF Listed, OutboxInv
  <2> QED
    BY <1>4, <2>1, <2>2 DEF OutboxInv, RowsOK
<1>8. TraceOK'
  <2>1. \A w \in Sweeps : Cur(w)' = Cur(w) /\ sweep'[w].pc = sweep[w].pc
    BY <1>1 DEF Cur
  <2>2. traced' = traced
    BY <1>1
  <2>3. \A j \in Jobs : job'[j].status = job[j].status
    BY <1>4
  <2>4. \A j \in Jobs : traced'[j] = 1 =>
          \/ job'[j].status = "SENT"
          \/ \E w \in Sweeps : sweep'[w].pc = "record" /\ Cur(w)' = j
    BY <2>1, <2>2, <2>3 DEF OutboxInv, TraceOK
  <2> QED
    BY <2>1, <2>2, <2>4 DEF OutboxInv, TraceOK
<1>9. ASSUME NEW j \in Jobs PROVE TimeOK(j)'
  <2> SUFFICES ASSUME j \in Notices, j.kind = "REMINDER", j \notin overtaken'
               PROVE  TimeOK(j)'
    BY DEF TimeOK
  <2> DEFINE u == booking[j.about].until
             v == booking'[j.about].until
  <2>1. TimeOK(j) /\ j \notin overtaken /\ j.about \in Bookings
    BY <1>1 DEF OutboxInv, Notices
  <2>2. u \in Nat /\ v = IF u = 0 THEN 0 ELSE u - 1
    BY <1>2, <2>1 DEF OutboxInv, TypeOK
  <2>3. \A w \in Sweeps : Listed(w)' = Listed(w)
    BY <1>1 DEF Listed
  <2>4. Due(j) => Due(j)'
    BY <1>3, <2>2 DEF Due
  <2>5. CASE job[j].status # "PENDING"
    BY <1>4, <2>1, <2>4, <2>5 DEF TimeOK
  <2>6. CASE job[j].status = "PENDING"
    <3>1. /\ job[j].wait >= 0 => u <= Lead + job[j].wait
          /\ job[j].wait < 0 => u <= Lead
          /\ (\E w \in Sweeps : j \in Listed(w)) => Due(j)
      BY <2>1, <2>6 DEF TimeOK, Due
    <3>2. job[j].wait \in Int /\ job'[j].wait = IF job[j].wait = -1 THEN -1 ELSE job[j].wait - 1
      BY <1>4, <2>6 DEF OutboxInv, TypeOK, Row
    <3>3. /\ job'[j].wait >= 0 => v <= Lead + job'[j].wait
          /\ job'[j].wait < 0 => v <= Lead
      BY <1>3, <2>2, <3>1, <3>2
    <3> QED
      BY <1>4, <2>3, <2>4, <2>6, <3>1, <3>3 DEF TimeOK, Due
  <2> QED
    BY <2>5, <2>6
<1> QED
  BY <1>5, <1>6, <1>7, <1>8, <1>9 DEF OutboxInv

(***************************************************************************)
(* The start of a sweep: no row in hand is reclaimed, what is listed is    *)
(* due.                                                                    *)
(***************************************************************************)

\* a batch holds rows that are due
LEMMA BatchIsDue ==
  ASSUME OutboxAssumption, NEW rows \in [Jobs -> Row], NEW q \in Batches(rows)
  PROVE  /\ q \in Seq(Jobs)
         /\ \A i \in 1..Len(q) : /\ rows[q[i]].status = "PENDING"
                                 /\ rows[q[i]].wait <= 0
<1> DEFINE due == {j \in Jobs : rows[j].status = "PENDING" /\ rows[j].wait <= 0}
<1>1. PICK r \in SetToSeqs(due) :
        q = SubSeq(r, 1, IF Len(r) < Limit THEN Len(r) ELSE Limit)
  BY DEF Batches
<1>2. IsFiniteSet(due)
  BY FS_Subset DEF OutboxAssumption
<1>3. Cardinality(due) \in Nat
  BY <1>2, FS_CardinalityType
<1>4. r \in [1..Cardinality(due) -> due]
  BY <1>1, <1>3 DEF SetToSeqs
<1>5. r \in Seq(due)
  <2> HIDE DEF due
  <2> QED
    BY <1>3, <1>4, SeqDef
<1> DEFINE n == IF Len(r) < Limit THEN Len(r) ELSE Limit
<1>6. Len(r) \in Nat /\ n \in 0..Len(r)
  BY <1>5 DEF OutboxAssumption
<1> HIDE DEF n, due
<1>7. q = SubSeq(r, 1, n)
  BY <1>1 DEF n
<1>8. q \in Seq(due)
  BY <1>5, <1>6, <1>7
<1>9. \A i \in 1..Len(q) : q[i] \in due
  BY <1>8
<1>10. due \subseteq Jobs
  BY DEF due
<1>11. q \in Seq(Jobs)
  BY <1>8, <1>10
<1> QED
  BY <1>9, <1>11 DEF due

LEMMA ListInv ==
  ASSUME OutboxInv, NEW w \in Sweeps, List(w)
  PROVE  OutboxInv'
<1>1. /\ sweep[w].pc = "idle" /\ job' = Reclaimed
      /\ UNCHANGED <<booking, moves, faults, traced, flying, overtaken>>
  BY DEF List, history
<1>2. ASSUME NEW j \in Jobs
      PROVE  /\ job'[j] \in Row
             /\ \/ job'[j] = job[j]
                \/ /\ job[j].status = "PROCESSING" /\ job[j].age > ReclaimAfter
                   /\ job'[j].status = "PENDING" /\ job'[j].wait = job[j].wait
  BY <1>1 DEF Reclaimed, OutboxInv, TypeOK, Row
<1>3. job' \in [Jobs -> Row]
  BY <1>1, <1>2 DEF Reclaimed
<1>4. PICK q \in Batches(job') :
        sweep' = [sweep EXCEPT ![w] = IF q = <<>> THEN AtRest
                                      ELSE [pc |-> "read", todo |-> q, attempts |-> 0]]
  BY <1>1 DEF List
<1>5. /\ q \in Seq(Jobs)
      /\ \A i \in 1..Len(q) : job'[q[i]].status = "PENDING" /\ job'[q[i]].wait <= 0
  BY <1>3, OutboxAssumption, BatchIsDue
<1> DEFINE new == IF q = <<>> THEN AtRest ELSE [pc |-> "read", todo |-> q, attempts |-> 0]
<1>6. /\ new \in Work /\ new.pc \in {"idle", "read"} /\ new.todo = q
      /\ (new.pc = "idle") <=> (new.todo = <<>>)
  BY <1>5 DEF AtRest, Work
<1> HIDE DEF new
<1>7. /\ sweep' \in [Sweeps -> Work] /\ sweep'[w] = new
      /\ \A v \in Sweeps \ {w} : sweep'[v] = sweep[v]
  BY <1>4, <1>6 DEF new, OutboxInv, TypeOK
<1>8. TypeOK'
  BY <1>1, <1>3, <1>6, <1>7 DEF OutboxInv, TypeOK
<1>9. /\ \A v \in Sweeps \ {w} : Listed(v)' = Listed(v) /\ Cur(v)' = Cur(v)
      /\ \A j \in Listed(w)' : job'[j].status = "PENDING" /\ job'[j].wait <= 0
  BY <1>5, <1>6, <1>7 DEF Listed, Cur
<1>10. \A v \in Sweeps : sweep'[v].pc \in {"check", "send", "record"} =>
         v # w /\ sweep'[v] = sweep[v] /\ Cur(v)' = Cur(v)
  BY <1>6, <1>7, <1>9
<1>11. ASSUME NEW v \in Sweeps PROVE HeldOK(v)' /\ QuietOK(v)'
  <2>1. CASE Holding(v)'
    <3>1. v # w /\ Holding(v) /\ Cur(v)' = Cur(v) /\ sweep'[v] = sweep[v]
      BY <1>10, <2>1 DEF Holding
    <3>2. Cur(v) \in Jobs /\ HeldOK(v) /\ QuietOK(v)
      BY <3>1, CurIsJob DEF OutboxInv, Holding
    <3>3. job[Cur(v)].age \in Nat /\ ReclaimAfter \in Nat
      BY <3>2, OutboxAssumption DEF OutboxInv, TypeOK, Row, OutboxAssumption
    <3>4. job'[Cur(v)] = job[Cur(v)]
      BY <1>2, <3>1, <3>2, <3>3 DEF HeldOK
    <3>5. \A x \in Sweeps \ {v} : Holding(x)' => Holding(x) /\ Cur(x)' = Cur(x)
      BY <1>10 DEF Holding
    <3> QED
      BY <1>1, <3>1, <3>2, <3>4, <3>5 DEF HeldOK, QuietOK
  <2>2. CASE ~Holding(v)'
    BY <2>2 DEF HeldOK, QuietOK, Holding
  <2> QED
    BY <2>1, <2>2
<1>12. RowsOK'
  <2>1. \A j \in Jobs : Unwritten(j)' => job'[j].status = "NONE"
    BY <1>1, <1>2 DEF Unwritten, OutboxInv, RowsOK
  <2>2. ASSUME NEW v \in Sweeps, NEW j \in Listed(v)' PROVE job'[j].status # "NONE"
    <3>1. CASE v = w
      BY <1>9, <2>2, <3>1
    <3>2. CASE v # w
      BY <1>2, <1>9, <2>2, <3>2, ListedAreJobs DEF OutboxInv, RowsOK
    <3> QED
      BY <3>1, <3>2
  <2> QED
    BY <2>1, <2>2 DEF RowsOK
<1>13. TraceOK'
  <2>1. \A j \in Jobs : job[j].status = "SENT" => job'[j].status = "SENT"
    BY <1>2
  <2>2. \A v \in Sweeps : sweep[v].pc = "record" => v # w
    BY <1>1
  <2>3. \A v \in Sweeps : sweep[v].pc = "record" <=> sweep'[v].pc = "record"
    BY <1>7, <1>10, <2>2
  <2>4. \A v \in Sweeps : sweep[v].pc = "record" => Cur(v)' = Cur(v)
    BY <1>9, <2>2
  <2>5. traced' = traced
    BY <1>1
  <2>6. \A j \in Jobs : traced'[j] = 1 =>
          \/ job'[j].status = "SENT"
          \/ \E v \in Sweeps : sweep'[v].pc = "record" /\ Cur(v)' = j
    BY <2>1, <2>3, <2>4, <2>5 DEF OutboxInv, TraceOK
  <2>7. \A v \in Sweeps : sweep'[v].pc = "record" => traced'[Cur(v)'] = 1
    BY <2>3, <2>4, <2>5 DEF OutboxInv, TraceOK
  <2> QED
    BY <2>5, <2>6, <2>7 DEF OutboxInv, TraceOK
<1>14. ASSUME NEW j \in Jobs PROVE TimeOK(j)'
  <2> SUFFICES ASSUME j \in Notices, j.kind = "REMINDER", j \notin overtaken'
               PROVE  TimeOK(j)'
    BY DEF TimeOK
  <2>1. TimeOK(j) /\ j \notin overtaken /\ Due(j)' = Due(j)
    BY <1>1 DEF OutboxInv, Due
  <2>2. booking[j.about].until \in Nat /\ job[j].wait \in Int /\ Lead \in Nat
    BY OutboxAssumption DEF Notices, OutboxInv, TypeOK, Row, OutboxAssumption
  <2>3. CASE job'[j] = job[j]
    <3>1. job[j].status = "PENDING" /\ job[j].wait <= 0 => Due(j)
      BY <2>1, <2>2 DEF TimeOK, Due
    <3>2. ASSUME job[j].status = "PENDING", NEW v \in Sweeps, j \in Listed(v)' PROVE Due(j)
      <4>1. CASE v = w
        BY <1>9, <2>3, <3>1, <3>2, <4>1
      <4>2. CASE v # w
        BY <1>9, <2>1, <3>2, <4>2 DEF TimeOK
      <4> QED
        BY <4>1, <4>2
    <3> QED
      BY <1>1, <2>1, <2>3, <3>2 DEF TimeOK, Due
  <2>4. CASE job'[j].status = "PENDING" /\ job'[j].wait = job[j].wait
             /\ job[j].status = "PROCESSING"
    <3>1. Due(j)
      BY <2>1, <2>4 DEF TimeOK
    <3>2. job'[j].wait >= 0 => booking[j.about].until <= Lead + job'[j].wait
      BY <2>2, <2>4, <3>1 DEF Due
    <3> QED
      BY <1>1, <2>1, <2>4, <3>1, <3>2 DEF TimeOK
  <2> QED
    BY <1>2, <2>3, <2>4
<1> QED
  BY <1>8, <1>11, <1>12, <1>13, <1>14 DEF OutboxInv

LEMMA InitInv == Init => OutboxInv
<1> SUFFICES ASSUME Init PROVE OutboxInv
  OBVIOUS
<1>1. /\ booking \in [Bookings -> [live : {TRUE}, until : Starts]]
      /\ moves = [b \in Bookings |-> 0] /\ sweep = [w \in Sweeps |-> AtRest]
      /\ faults = 0 /\ traced = [j \in Jobs |-> 0] /\ flying = {} /\ overtaken = {}
  BY DEF Init
<1>2. Starts \subseteq Nat /\ Lead \in Nat
  BY OutboxAssumption DEF OutboxAssumption
<1>3. ASSUME NEW j \in Notices
      PROVE  j.about \in Bookings /\ booking[j.about].until \in Nat /\ booking[j.about].live
  BY <1>1, <1>2 DEF Notices
<1>4. ASSUME NEW j \in Jobs
      PROVE  /\ job[j] \in Row /\ job[j].status \in {"NONE", "PENDING"}
             /\ j \in Notices /\ job[j].status = "PENDING" =>
                  /\ j.move = 0 /\ j.kind \in {"CONFIRMED", "REMINDER"}
                  /\ j.kind = "REMINDER" =>
                       job[j].wait = booking[j.about].until - Lead /\ job[j].wait > 0
  <2>1. CASE j \notin Notices
    <3>1. job[j] = Waiting(0)
      BY <2>1 DEF Init, HasBooking
    <3> QED
      BY <2>1, <3>1 DEF Waiting, Row
  <2>2. CASE j \in Notices
    <3> DEFINE u == booking[j.about].until
    <3>1. u \in Nat
      BY <1>3, <2>2
    <3>2. job[j] = IF j \in {Notice(j.about, 0, "CONFIRMED")} \cup ReminderOf(j.about, 0, u)
                   THEN Posted(j, u) ELSE NoJob
      BY <2>2 DEF Init, HasBooking
    <3>3. CASE j = Notice(j.about, 0, "CONFIRMED")
      <4>1. j.move = 0 /\ j.kind = "CONFIRMED"
        BY <3>3 DEF Notice
      <4>2. job[j] = Waiting(0)
        BY <3>2, <3>3, <4>1 DEF Posted
      <4> QED
        BY <4>1, <4>2 DEF Waiting, Row
    <3>4. CASE j \in ReminderOf(j.about, 0, u)
      <4>1. u > Lead /\ j.move = 0 /\ j.kind = "REMINDER"
        BY <3>4 DEF ReminderOf, Notice
      <4>2. job[j] = Waiting(u - Lead)
        BY <3>2, <3>4, <4>1 DEF Posted
      <4> QED
        BY <1>2, <3>1, <4>1, <4>2 DEF Waiting, Row
    <3>5. CASE j # Notice(j.about, 0, "CONFIRMED") /\ j \notin ReminderOf(j.about, 0, u)
      BY <3>2, <3>5 DEF NoJob, Row
    <3> QED
      BY <3>3, <3>4, <3>5
  <2> QED
    BY <2>1, <2>2
<1>5. TypeOK
  <2>1. job \in [Jobs -> Row]
    BY <1>4 DEF Init
  <2>2. AtRest \in Work /\ AtRest.pc = "idle" /\ AtRest.todo = <<>>
    <3>1. <<>> \in Seq(Jobs)
      BY EmptySeq
    <3> QED
      BY <3>1 DEF AtRest, Work
  <2>3. /\ sweep \in [Sweeps -> Work]
        /\ \A w \in Sweeps : (sweep[w].pc = "idle") <=> (sweep[w].todo = <<>>)
    <3> HIDE DEF AtRest
    <3> QED
      BY <1>1, <2>2
  <2>4. booking \in [Bookings -> [live : BOOLEAN, until : Nat]]
    <3>1. ASSUME NEW b \in Bookings PROVE booking[b] \in [live : BOOLEAN, until : Nat]
      BY <1>1, <1>2
    <3> QED
      BY <1>1, <3>1
  <2>5. moves \in [Bookings -> Nat] /\ faults \in Nat /\ traced \in [Jobs -> Int]
    BY <1>1
  <2> QED
    BY <1>1, <2>1, <2>3, <2>4, <2>5 DEF TypeOK
<1>6. ASSUME NEW w \in Sweeps
      PROVE  sweep[w].pc = "idle" /\ ~Holding(w) /\ Listed(w) = {}
  BY <1>1 DEF AtRest, Holding, Listed
<1>7. RowsOK
  <2>1. ASSUME NEW j \in Jobs, Unwritten(j) PROVE job[j].status = "NONE"
    <3>1. j \in Notices /\ (j.move > 0 \/ j.kind = "CANCELLED")
      BY <1>1, <1>3, <2>1 DEF Unwritten
    <3> QED
      BY <1>4, <3>1
  <2> QED
    BY <1>6, <2>1 DEF RowsOK
<1>8. TraceOK
  BY <1>1, <1>6 DEF TraceOK
<1>9. ASSUME NEW j \in Jobs PROVE TimeOK(j)
  <2> SUFFICES ASSUME j \in Notices, j.kind = "REMINDER" PROVE TimeOK(j)
    BY DEF TimeOK
  <2>1. CASE job[j].status = "PENDING"
    <3>1. job[j].wait = booking[j.about].until - Lead /\ job[j].wait > 0
      BY <1>4, <2>1
    <3>2. booking[j.about].until \in Nat
      BY <1>3
    <3> QED
      BY <1>2, <1>6, <2>1, <3>1, <3>2 DEF TimeOK
  <2>2. CASE job[j].status # "PENDING"
    BY <1>4, <2>2 DEF TimeOK
  <2> QED
    BY <2>1, <2>2
<1> QED
  BY <1>5, <1>6, <1>7, <1>8, <1>9 DEF OutboxInv, HeldOK, QuietOK, Holding

LEMMA StepInv == OutboxInv /\ [Next]_vars => OutboxInv'
<1> SUFFICES ASSUME OutboxInv, [Next]_vars PROVE OutboxInv'
  OBVIOUS
<1>1. ASSUME NEW b \in Bookings, NEW s \in Starts, Reschedule(b, s) PROVE OutboxInv'
  BY <1>1, RescheduleInv
<1>2. ASSUME NEW b \in Bookings, NEW announced \in BOOLEAN, Die(b, announced)
      PROVE  OutboxInv'
  BY <1>2, DieInv
<1>3. ASSUME NEW j \in Jobs, RetryFailed(j) PROVE OutboxInv'
  BY <1>3, RetryFailedInv
<1>4. ASSUME NEW w \in Sweeps, Sweep(w) \/ StatementFails(w) \/ Crash(w) PROVE OutboxInv'
  <2>1. CASE List(w)
    BY <2>1, ListInv
  <2>2. CASE ~List(w)
    <3>1. WorkShape(w)
      BY <1>4, <2>2, EveryWorkShape DEF Sweep, OutboxInv
    <3> QED
      BY <3>1, WorkInv
  <2> QED
    BY <2>1, <2>2
<1>5. CASE Tick
  BY <1>5, TickInv
<1>6. CASE UNCHANGED vars
  <2>1. UNCHANGED <<booking, moves, job, sweep, faults, traced, flying, overtaken>>
    BY <1>6 DEF vars, history
  <2>2. TypeOK' /\ RowsOK' /\ TraceOK'
    BY <2>1 DEF OutboxInv, TypeOK, RowsOK, TraceOK, Unwritten, Listed, Cur
  <2>3. ASSUME NEW w \in Sweeps PROVE HeldOK(w)' /\ QuietOK(w)'
    BY <2>1 DEF OutboxInv, HeldOK, QuietOK, Holding, Cur
  <2>4. ASSUME NEW j \in Jobs PROVE TimeOK(j)'
    BY <2>1 DEF OutboxInv, TimeOK, Due, Listed
  <2> QED
    BY <2>2, <2>3, <2>4 DEF OutboxInv
<1> QED
  BY <1>1, <1>2, <1>3, <1>4, <1>5, <1>6 DEF Next

(***************************************************************************)
(* Theorems                                                                *)
(***************************************************************************)

(* The inductive invariant holds in every reachable state.                 *)
THEOREM OutboxInvariant == Spec => []OutboxInv
BY InitInv, StepInv, PTL DEF Spec

(* Overlapping sweeps (worker.ts starts one every ten seconds, whatever    *)
(* became of the last) and reclaims of rows a crash left never put one row *)
(* in the hands of two.                                                    *)
THEOREM NoSharedRow == Spec => []OneHolder
<1>1. OutboxInv => OneHolder
  BY DEF OutboxInv, HeldOK, OneHolder
<1> QED
  BY <1>1, OutboxInvariant, PTL

(* processNotificationJob delivers a message a second time only after the  *)
(* trace of the first was lost.                                            *)
THEOREM NoTracedDuplicate == Spec => []TwiceOnlyAfterLoss
<1>1. OutboxInv => TwiceOnlyAfterLoss
  BY DEF OutboxInv, TraceOK, TwiceOnlyAfterLoss
<1> QED
  BY <1>1, OutboxInvariant, PTL

(* isStaleAtDispatch keeps a dead booking quiet: what goes out about it    *)
(* had passed the check before the booking died.                           *)
THEOREM DeadStaysQuiet == Spec => DeadBookingQuiet
<1>1. OutboxInv /\ [Next]_vars =>
        [\A j \in Notices :
           Sent(j) /\ j.kind # "CANCELLED" /\ ~booking[j.about].live => j \in flying]_vars
  BY DEF OutboxInv, QuietOK, Sent
<1> QED
  BY <1>1, OutboxInvariant, PTL DEF Spec, DeadBookingQuiet

(* A reminder goes out within Lead of the start its visit has now, unless  *)
(* the reschedule found it already taken up or given up.                   *)
THEOREM RemindersInTime == Spec => ReminderInTime
<1>1. OutboxInv /\ [Next]_vars =>
        [\A j \in Notices :
           Sent(j) /\ j.kind = "REMINDER" =>
             booking[j.about].until <= Lead \/ j \in overtaken]_vars
  <2> SUFFICES ASSUME OutboxInv, NEW j \in Notices, Sent(j), j.kind = "REMINDER",
                      j \notin overtaken
               PROVE  booking[j.about].until <= Lead
    OBVIOUS
  <2>1. job[j].status = "PROCESSING" /\ j \in Jobs
    BY DEF Sent, OutboxInv, HeldOK, Holding, Jobs
  <2> QED
    BY <2>1 DEF OutboxInv, TimeOK, Due
<1> QED
  BY <1>1, OutboxInvariant, PTL DEF Spec, ReminderInTime
=============================================================================
