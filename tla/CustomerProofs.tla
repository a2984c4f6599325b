--------------------------- MODULE CustomerProofs ---------------------------
(***************************************************************************)
(* What a customer is shown, for any rows, menus, staff, days and answers. *)
(* A start is offered only where there is room (Slot); what the pages show *)
(* is what they were asked for, however many reads and requests are on     *)
(* their way, and a key stands for one booking (Pages).  The price and the *)
(* minutes of a cart are those the server makes of it (Quote), and the     *)
(* shifts the owner is shown are the hours the customers are offered       *)
(* (Hours).                                                                *)
(***************************************************************************)
EXTENDS Slot, Quote, Hours, Pages, OccupancyProofs

(***************************************************************************)
(* The verdict on one start                                                *)
(***************************************************************************)

(* A count that is reached by some instant and passed by none.             *)
LEMMA PeakIsReached ==
  ASSUME NEW rows, IsFiniteSet(rows), Timed(rows), NEW segments, segments # {},
         \A s \in segments : s.start \in Int /\ s.end \in Int /\ s.start < s.end
  PROVE  PeakOverlap(rows, segments) = Max({CountCovering(rows, t) : t \in Instants(segments)})
<1> DEFINE P == PeakOverlap(rows, segments)
           C == CandidateInstants(rows, segments)
           Counts == {CountCovering(rows, t) : t \in C}
           All == {CountCovering(rows, t) : t \in Instants(segments)}
<1>1. \A t : t \in Instants(segments) <=> t \in Int /\ Within(segments, t)
  BY DEF Instants, Within, Covers
<1>2. C \subseteq Instants(segments) /\ C # {}
  <2>1. C \subseteq Int
    BY DEF CandidateInstants, Timed
  <2>2. PICK s \in segments : TRUE
    OBVIOUS
  <2>3. s.start \in C
    BY DEF CandidateInstants, Within, Covers
  <2> QED
    BY <1>1, <2>1, <2>3 DEF CandidateInstants
<1>3. /\ All \in SUBSET Int /\ Counts \in SUBSET All /\ Counts # {}
      /\ IsFiniteSet(All) /\ IsFiniteSet(Counts)
  <2>1. All \subseteq 0..Cardinality(rows) /\ Counts \subseteq All
    BY <1>2, CountType
  <2>2. IsFiniteSet(0..Cardinality(rows)) /\ Cardinality(rows) \in Nat
    BY FS_Interval, FS_CardinalityType
  <2>3. IsFiniteSet(All) /\ IsFiniteSet(Counts)
    BY <2>1, <2>2, FS_Subset
  <2> QED
    BY <1>2, <2>1, <2>2, <2>3
<1>4. P = Max(Counts)
  BY <1>2 DEF PeakOverlap
<1>5. P \in All /\ \A x \in All : x <= P
  <2>1. P \in Counts
    BY <1>3, <1>4, MaxIsGreatest
  <2>2. ASSUME NEW t \in Instants(segments) PROVE CountCovering(rows, t) <= P
    BY <1>1, PeakBoundsEveryInstant DEF Timed
  <2> QED
    BY <1>3, <2>1, <2>2
<1> HIDE DEF P, All
<1>6. Max(All) \in All /\ \A x \in All : x <= Max(All)
  BY <1>3, <1>5, MaxIsGreatest
<1>7. P \in Int /\ Max(All) \in Int
  BY <1>3, <1>5, <1>6
<1> QED
  BY <1>5, <1>6, <1>7 DEF P, All

(* Rows that do not touch the window of the segments do not count.         *)
LEMMA WindowPeak ==
  ASSUME NEW rows, \A r \in rows : r.start \in Int /\ r.end \in Int /\ r.start < r.end,
         NEW from \in Int, NEW to \in Int, NEW segments,
         \A s \in segments : s.start \in Int /\ s.end \in Int /\ from <= s.start /\ s.end <= to
  PROVE  PeakOverlap(Touching(rows, from, to), segments) = PeakOverlap(rows, segments)
<1> DEFINE near == Touching(rows, from, to)
<1>1. \A t : Within(segments, t) /\ t \in Int => from <= t /\ t < to
  BY DEF Within, Covers
<1>2. ASSUME NEW t \in Int, Within(segments, t)
      PROVE  CountCovering(near, t) = CountCovering(rows, t)
  <2>1. {r \in near : Covers(r, t)} = {r \in rows : Covers(r, t)}
    BY <1>1, <1>2 DEF Touching, Covers
  <2> QED
    BY <2>1 DEF CountCovering
<1>3. CandidateInstants(near, segments) = CandidateInstants(rows, segments)
      /\ CandidateInstants(rows, segments) \subseteq Int
  BY <1>1 DEF CandidateInstants, Touching
<1>4. {CountCovering(near, t) : t \in CandidateInstants(near, segments)}
        = {CountCovering(rows, t) : t \in CandidateInstants(rows, segments)}
  <2>1. \A t \in CandidateInstants(rows, segments) : t \in Int /\ Within(segments, t)
    BY <1>3 DEF CandidateInstants
  <2> QED
    BY <1>2, <1>3, <2>1
<1> QED
  BY <1>3, <1>4 DEF PeakOverlap

(* Rows of other bookings are added one at a time.                         *)
SlotInv ==
  /\ query \in Queries \cup {NoStart}
  /\ occupied \subseteq Rows /\ IsFiniteSet(occupied)

LEMMA SlotKept == SlotSpec => []SlotInv
<1>1. SlotInit => SlotInv
  BY FS_EmptySet DEF SlotInit, SlotInv
<1>2. SlotInv /\ [AddRow]_slotVars => SlotInv'
  <2> SUFFICES ASSUME SlotInv, [AddRow]_slotVars PROVE SlotInv'
    OBVIOUS
  <2>1. CASE AddRow
    <3>1. PICK r \in Rows : occupied' = occupied \cup {r}
      BY <2>1 DEF AddRow
    <3>2. IsFiniteSet(occupied \cup {r})
      BY FS_AddElement DEF SlotInv
    <3> QED
      BY <2>1, <3>1, <3>2 DEF AddRow, SlotInv
  <2>2. CASE UNCHANGED slotVars
    BY <2>2 DEF SlotInv, slotVars
  <2> QED
    BY <2>1, <2>2
<1> QED
  BY <1>1, <1>2, PTL DEF SlotSpec

(* What is asked for and what has been read.                               *)
LEMMA AskedForm ==
  ASSUME SlotInv, query # NoStart
  PROVE  /\ query.at \in Int /\ WellFormedChain(query.parts) /\ IsFiniteSet(occupied)
         /\ \A i, j \in 1..Len(query.parts) : query.parts[i].svc = query.parts[j].svc => i = j
         /\ \A r \in occupied : r.start \in Int /\ r.end \in Int /\ r.start < r.end
         /\ Asked # {}
         /\ \A iv \in Asked : iv.start \in Int /\ iv.end \in Int /\ iv.start < iv.end
<1>1. query \in Queries /\ occupied \subseteq Rows /\ IsFiniteSet(occupied)
  BY DEF SlotInv
<1>2. query.at \in Int /\ WellFormedChain(query.parts)
      /\ \A i, j \in 1..Len(query.parts) : query.parts[i].svc = query.parts[j].svc => i = j
  BY <1>1, SlotAssumption DEF SlotAssumption
<1>3. \A r \in occupied : r.start \in Int /\ r.end \in Int /\ r.start < r.end
  BY <1>1, SlotAssumption DEF SlotAssumption
<1> QED
  BY <1>1, <1>2, <1>3, IntervalsHaveLength DEF Asked

(* Counting where intervals start finds the most rows that meet anywhere   *)
(* in the visit (peakOverlap), for any rows and any chain.                 *)
THEOREM PeakAlwaysMaximum == SlotSpec => []PeakIsMaximum
<1>1. SlotInv => PeakIsMaximum
  <2> SUFFICES ASSUME SlotInv, query # NoStart
               PROVE  PeakOverlap(occupied, Asked)
                        = Max({CountCovering(occupied, t) : t \in Instants(Asked)})
    BY DEF PeakIsMaximum
  <2>1. Timed(occupied)
    BY AskedForm DEF Timed
  <2> QED
    BY <2>1, AskedForm, PeakIsReached
<1> QED
  BY <1>1, SlotKept, PTL

(* Reading only the rows that touch the window of the visit                *)
(* (loadOccupiedOverlapping) gives the verdict all rows would give.        *)
THEOREM WindowAlwaysEnough == SlotSpec => []WindowReadIsEnough
<1>1. SlotInv => WindowReadIsEnough
  <2> SUFFICES ASSUME SlotInv, query # NoStart PROVE WindowReadIsEnough
    BY DEF WindowReadIsEnough
  <2>1. PICK from, to : /\ from = ChainOccupiedStart(query.at, query.parts)
                        /\ to = ChainOccupiedEnd(query.at, query.parts)
    OBVIOUS
  <2>2. from \in Int /\ to \in Int
    BY <2>1, AskedForm, WindowType
  <2>3. \A iv \in Asked : iv.start \in Int /\ iv.end \in Int /\ from <= iv.start /\ iv.end <= to
    BY <2>1, AskedForm, ChainWithinWindow DEF Asked
  <2>4. PICK near : near = Touching(occupied, from, to)
    OBVIOUS
  <2>5. ASSUME NEW rows \in SUBSET occupied, NEW segments \in SUBSET Asked
        PROVE  PeakOverlap(Touching(rows, from, to), segments) = PeakOverlap(rows, segments)
    <3>1. \A r \in rows : r.start \in Int /\ r.end \in Int /\ r.start < r.end
      BY AskedForm
    <3> QED
      BY <2>2, <2>3, <3>1, WindowPeak
  <2>6. PeakOverlap(near, Asked) = PeakOverlap(occupied, Asked)
    BY <2>4, <2>5
  <2>7. ShopRemains(query, Rules, near) = ShopRemains(query, Rules, occupied)
    BY <2>6 DEF ShopRemains, RemainingCapacity, Asked
  <2>8. ServicesRemain(query, near) = ServicesRemain(query, occupied)
    <3>1. ASSUME NEW i \in 1..Len(query.parts)
          PROVE  RemainingCapacity(query.parts[i].capacity, OfService(near, query.parts[i].svc),
                   ServiceIntervals(ChainCursor(query.at, query.parts)[i], query.parts[i], query.staff))
               = RemainingCapacity(query.parts[i].capacity, OfService(occupied, query.parts[i].svc),
                   ServiceIntervals(ChainCursor(query.at, query.parts)[i], query.parts[i], query.staff))
      <4>1. PICK v, rows, segments :
              /\ v = query.parts[i].svc /\ rows = OfService(occupied, v)
              /\ segments = ServiceIntervals(ChainCursor(query.at, query.parts)[i],
                                             query.parts[i], query.staff)
        OBVIOUS
      <4>2. segments \in SUBSET Asked
        BY <4>1 DEF Asked, ChainIntervals
      <4>3. rows \in SUBSET occupied /\ OfService(near, v) = Touching(rows, from, to)
        BY <2>4, <4>1 DEF OfService, Touching
      <4>4. PeakOverlap(OfService(near, v), segments) = PeakOverlap(rows, segments)
        BY <2>5, <4>2, <4>3
      <4> QED
        BY <4>1, <4>4 DEF RemainingCapacity
    <3> QED
      BY <3>1 DEF ServicesRemain
  <2>9. ASSUME NEW s
        PROVE  PeakOverlap(OfStaff(near, s), Asked) = PeakOverlap(OfStaff(occupied, s), Asked)
    <3>1. PICK rows : rows = OfStaff(occupied, s)
      OBVIOUS
    <3>2. rows \in SUBSET occupied /\ OfStaff(near, s) = Touching(rows, from, to)
      BY <2>4, <3>1 DEF OfStaff, Touching
    <3> QED
      BY <2>5, <3>1, <3>2
  <2>10. FindAvailableStaff(query, Rules, Duty, near)
           = FindAvailableStaff(query, Rules, Duty, occupied)
    BY <2>9 DEF FindAvailableStaff, Asked
  <2>11. StaffRemains(query, Rules, Duty, near) = StaffRemains(query, Rules, Duty, occupied)
    <3>1. RemainingCapacity(Rules.staffCapacity, OfStaff(near, query.staff), Asked)
            = RemainingCapacity(Rules.staffCapacity, OfStaff(occupied, query.staff), Asked)
      BY <2>9 DEF RemainingCapacity
    <3> QED
      BY <2>10, <3>1 DEF StaffRemains, Asked
  <2>12. Verdict(query, Rules, Duty, Open, near) = Verdict(query, Rules, Duty, Open, occupied)
    BY <2>7, <2>8, <2>11, Zenon DEF Verdict
  <2> QED
    BY <2>1, <2>4, <2>12 DEF WindowReadIsEnough, Answer
<1> QED
  BY <1>1, SlotKept, PTL

(* Below the limit at its peak, below it at each instant.                  *)
LEMMA RoomAtEachInstant ==
  ASSUME NEW capacity \in Nat, NEW rows, IsFiniteSet(rows), Timed(rows),
         NEW segments, Timed(segments), RemainingCapacity(capacity, rows, segments) > 0,
         NEW t \in Int, Within(segments, t)
  PROVE  CountCovering(rows, t) < capacity
BY PeakBoundsEveryInstant, CountType DEF RemainingCapacity

(* A start for which the answer is OK leaves room at every instant of the  *)
(* visit, is served by somebody at work all along, and ends by closing     *)
(* time, whatever the chain, the rows, the shifts and the rules            *)
(* (computeAvailability).                                                  *)
THEOREM OfferedAlwaysFits == SlotSpec => []OfferedMeansItFits
<1>1. SlotInv => OfferedMeansItFits
  <2> SUFFICES ASSUME SlotInv, query # NoStart, Answer = "OK" PROVE OfferedMeansItFits
    BY DEF OfferedMeansItFits
  <2>1. /\ IsOffered(query, Rules, Open) /\ ShopRemains(query, Rules, occupied)
        /\ ServicesRemain(query, occupied) /\ StaffRemains(query, Rules, Duty, occupied)
    BY DEF Answer, Verdict
  <2>2. Timed(Asked) /\ Timed(occupied)
    BY AskedForm DEF Timed
  <2>3. Rules.shopCapacity \in Nat /\ Rules.staffCapacity \in Nat
        /\ \A i \in 1..Len(query.parts) : query.parts[i].capacity \in Nat
    BY AskedForm, SlotAssumption DEF SlotAssumption, WellFormedChain, WellFormed
  <2>4. ASSUME NEW t \in Instants(Asked) PROVE t \in Int /\ Within(Asked, t)
    BY AskedForm DEF Instants, Within, Covers
  <2>5. ASSUME NEW iv \in Asked, NEW t \in iv.start..(iv.end - 1)
        PROVE  /\ CountCovering(occupied, t) < Rules.shopCapacity
               /\ \A i \in 1..Len(query.parts) : query.parts[i].svc = iv.svc =>
                    CountCovering(OfService(occupied, iv.svc), t) < query.parts[i].capacity
    <3>1. t \in Int /\ Covers(iv, t)
      BY AskedForm DEF Covers
    <3>2. CountCovering(occupied, t) < Rules.shopCapacity
      <4>1. Within(Asked, t)
        BY <3>1 DEF Within
      <4>2. RemainingCapacity(Rules.shopCapacity, occupied, Asked) > 0
        BY <2>1 DEF ShopRemains, Asked
      <4> QED
        BY <2>2, <2>3, <3>1, <4>1, <4>2, AskedForm, RoomAtEachInstant
    <3>3. ASSUME NEW i \in 1..Len(query.parts), query.parts[i].svc = iv.svc
          PROVE  CountCovering(OfService(occupied, iv.svc), t) < query.parts[i].capacity
      <4>1. PICK c : c = ChainCursor(query.at, query.parts)
        OBVIOUS
      <4>2. PICK j \in 1..Len(query.parts) : iv \in ServiceIntervals(c[j], query.parts[j], query.staff)
        BY <4>1 DEF Asked, ChainIntervals
      <4>3. iv.svc = query.parts[j].svc
        BY <4>2 DEF ServiceIntervals
      <4>4. i = j
        BY <3>3, <4>3, AskedForm
      <4>5. PICK rows, segments :
              /\ rows = OfService(occupied, iv.svc)
              /\ segments = ServiceIntervals(c[i], query.parts[i], query.staff)
        OBVIOUS
      <4>6. segments \subseteq Asked /\ Within(segments, t)
        BY <3>1, <4>1, <4>2, <4>4, <4>5 DEF Within, Asked, ChainIntervals
      <4>7. rows \in SUBSET occupied
        BY <4>5 DEF OfService
      <4>8. Timed(segments) /\ Timed(rows) /\ IsFiniteSet(rows)
        BY <2>2, <4>6, <4>7, AskedForm, FS_Subset DEF Timed
      <4>9. RemainingCapacity(query.parts[i].capacity, rows, segments) > 0
        BY <2>1, <3>3, <4>1, <4>5 DEF ServicesRemain
      <4> QED
        BY <2>3, <3>1, <4>5, <4>6, <4>8, <4>9, RoomAtEachInstant
    <3> QED
      BY <3>2, <3>3
  <2>6. ASSUME NEW s, PeakOverlap(OfStaff(occupied, s), Asked) < Rules.staffCapacity,
               NEW t \in Instants(Asked)
        PROVE  CountCovering(OfStaff(occupied, s), t) < Rules.staffCapacity
    <3>1. PICK rows : rows = OfStaff(occupied, s)
      OBVIOUS
    <3>2. rows \in SUBSET occupied
      BY <3>1 DEF OfStaff
    <3>3. Timed(rows) /\ IsFiniteSet(rows)
      BY <2>2, <3>2, AskedForm, FS_Subset DEF Timed
    <3>4. CountCovering(rows, t) <= PeakOverlap(rows, Asked) /\ PeakOverlap(rows, Asked) \in Int
          /\ CountCovering(rows, t) \in Nat
      BY <2>2, <2>4, <3>3, PeakBoundsEveryInstant, CountType
    <3> QED
      BY <2>3, <2>6, <3>1, <3>4
  <2>7. ASSUME query.needsStaff \/ query.staff # NoStaff
        PROVE  \E s \in IF query.staff = NoStaff THEN query.candidates ELSE {query.staff} :
                 /\ IsWorkingDuring(Duty, s, query.at, ChainServiceEnd(query.at, query.parts))
                 /\ PeakOverlap(OfStaff(occupied, s), Asked) < Rules.staffCapacity
    <3>1. CASE query.staff # NoStaff
      <4>1. PICK peak : peak = PeakOverlap(OfStaff(occupied, query.staff), Asked)
        OBVIOUS
      <4>2. peak \in Int
        <5>1. PICK rows : rows = OfStaff(occupied, query.staff)
          OBVIOUS
        <5>2. rows \in SUBSET occupied
          BY <5>1 DEF OfStaff
        <5>3. Timed(rows) /\ IsFiniteSet(rows)
          BY <2>2, <5>2, AskedForm, FS_Subset DEF Timed
        <5>4. \E t \in Int : Within(Asked, t)
          BY AskedForm DEF Within, Covers
        <5> QED
          BY <2>2, <4>1, <5>1, <5>3, <5>4, PeakBoundsEveryInstant
      <4>3. Rules.staffCapacity - peak > 0
        BY <2>1, <3>1, <4>1 DEF StaffRemains, RemainingCapacity, Asked
      <4>4. IsWorkingDuring(Duty, query.staff, query.at, ChainServiceEnd(query.at, query.parts))
        BY <2>1, <3>1 DEF StaffRemains
      <4>5. peak < Rules.staffCapacity
        BY <2>3, <4>2, <4>3
      <4> QED
        BY <3>1, <4>1, <4>4, <4>5
    <3>2. CASE query.staff = NoStaff
      BY <2>1, <2>7, <3>2 DEF StaffRemains, FindAvailableStaff, Asked
    <3> QED
      BY <3>1, <3>2
  <2>8. \E o \in Open : o.start <= query.at /\ ChainServiceEnd(query.at, query.parts) <= o.end
    <3>1. PICK o \in Open :
            query.at \in CandidateStarts(o, Rules.slotInterval, ChainDuration(query.parts))
      BY <2>1 DEF IsOffered
    <3>2. query.at \in o.start..(o.end - ChainDuration(query.parts))
      BY <3>1 DEF CandidateStarts
    <3>3. o.start \in Int /\ o.end \in Int
      BY SlotAssumption DEF SlotAssumption
    <3>4. query.at \in Int /\ ChainDuration(query.parts) \in Int
          /\ ChainServiceEnd(query.at, query.parts) = query.at + ChainDuration(query.parts)
      BY AskedForm, DurationIsServiceTime
    <3> QED
      BY <3>2, <3>3, <3>4
  <2> QED
    BY <2>5, <2>6, <2>7, <2>8 DEF OfferedMeansItFits, IsWorkingDuring
<1> QED
  BY <1>1, SlotKept, PTL

(***************************************************************************)
(* The key of a request to book                                            *)
(***************************************************************************)

(* The keys used so far are numbered without gaps.                         *)
KeysNumbered == \E n \in Nat : Keys = 0..n

(* The key at hand is that of the requests made since the last edit, which *)
(* carry what the page still says; requests without an edit in between     *)
(* carry the same.                                                         *)
KeyInv ==
  /\ edits \in Nat /\ key \in Keys /\ KeysNumbered
  /\ posts \subseteq sent /\ booked \subseteq sent
  /\ \A r \in sent :
       /\ r.edits \in Nat /\ r.edits <= edits /\ r.key \in Nat \ {0}
       /\ r.edits = edits <=> r.key = key
       /\ r.edits = edits => r.content = Content(page)
  /\ \A q, r \in sent : /\ q.key = r.key <=> q.edits = r.edits
                        /\ q.edits = r.edits => q.content = r.content

(* Nothing is sent; an edit takes the key away, anything else keeps both.  *)
LEMMA PageTurns ==
  ASSUME KeyInv, sent' = sent, posts' \subseteq sent, booked' \subseteq sent,
         \/ Content(page)' = Content(page) /\ UNCHANGED <<key, edits>>
         \/ edits' = edits + 1 /\ key' = 0
  PROVE  KeyInv'
<1>1. KeysNumbered'
  BY DEF KeyInv, KeysNumbered, Keys
<1>4. Keys' = Keys /\ 0 \in Keys
  BY DEF Keys
<1>2. CASE Content(page)' = Content(page) /\ UNCHANGED <<key, edits>>
  BY <1>1, <1>2, <1>4 DEF KeyInv
<1>3. CASE edits' = edits + 1 /\ key' = 0
  BY <1>1, <1>3, <1>4 DEF KeyInv
<1> QED
  BY <1>2, <1>3

LEMMA SubmitKeepsKey ==
  ASSUME KeyInv, Submit
  PROVE  KeyInv'
<1>1. PICK k, r :
        /\ k = (IF key = 0 THEN NewKey ELSE key)
        /\ r = [n |-> Cardinality(sent) + 1, key |-> k, content |-> Content(page), edits |-> edits]
        /\ key' = k /\ sent' = sent \cup {r} /\ posts' = posts \cup {r}
        /\ UNCHANGED <<page, booked, edits>>
  BY DEF Submit
<1>2. PICK n \in Nat : Keys = 0..n
  BY DEF KeyInv, KeysNumbered
<1>3. NewKey = n + 1
  <2>1. n \in Keys /\ \A j \in Keys : j <= n
    BY <1>2
  <2>2. PICK m : m = CHOOSE i \in Keys : \A j \in Keys : j <= i
    OBVIOUS
  <2>3. m \in Keys /\ \A j \in Keys : j <= m
    BY <2>1, <2>2
  <2>4. m = n
    BY <1>2, <2>1, <2>3
  <2>5. NewKey = 1 + m
    BY <2>2, Zenon DEF NewKey
  <2> QED
    BY <2>4, <2>5
<1>4. r.key = k /\ r.edits = edits /\ r.content = Content(page) /\ Content(page)' = Content(page)
  BY <1>1 DEF Content
<1>5. Keys' = Keys \cup {k}
  BY <1>1, <1>4 DEF Keys
<1>6. /\ k \in Nat \ {0} /\ k \in Keys' /\ KeysNumbered'
      /\ \A q \in sent : /\ q.key = k <=> q.edits = edits
                         /\ q.edits = edits => q.content = Content(page)
  <2>1. CASE key = 0
    <3>1. k = n + 1 /\ \A q \in sent : q.key \in 0..n
      BY <1>1, <1>2, <1>3, <2>1 DEF Keys
    <3>2. \A q \in sent : q.edits # edits
      BY <2>1 DEF KeyInv
    <3>3. Keys' = 0..(n + 1)
      BY <1>2, <1>5, <3>1
    <3> QED
      BY <3>1, <3>2, <3>3 DEF KeysNumbered
  <2>2. CASE key # 0
    <3>1. k = key /\ key \in Keys
      BY <1>1, <2>2 DEF KeyInv
    <3>2. Keys' = Keys /\ KeysNumbered'
      BY <1>5, <3>1 DEF KeyInv, KeysNumbered
    <3>3. k \in Nat
      BY <1>2, <3>1
    <3> QED
      BY <2>2, <3>1, <3>2, <3>3 DEF KeyInv
  <2> QED
    BY <2>1, <2>2
<1>7. /\ edits' \in Nat /\ key' \in Keys' /\ posts' \subseteq sent' /\ booked' \subseteq sent'
      /\ edits' = edits /\ key' = k /\ edits \in Nat
  BY <1>1, <1>6 DEF KeyInv
<1>8. ASSUME NEW q \in sent'
      PROVE  /\ q.edits \in Nat /\ q.edits <= edits /\ q.key \in Nat \ {0}
             /\ q.edits = edits <=> q.key = k
             /\ q.edits = edits => q.content = Content(page)
  <2>1. CASE q = r
    BY <1>4, <1>6, <1>7, <2>1
  <2>2. CASE q \in sent
    BY <1>6, <2>2 DEF KeyInv
  <2> QED
    BY <1>1, <2>1, <2>2
<1>9. ASSUME NEW q \in sent', NEW s \in sent'
      PROVE  /\ q.key = s.key <=> q.edits = s.edits
             /\ q.edits = s.edits => q.content = s.content
  <2>1. CASE q \in sent /\ s \in sent
    BY <2>1 DEF KeyInv
  <2>2. CASE q = r \/ s = r
    BY <1>4, <1>8, <2>2
  <2> QED
    BY <1>1, <2>1, <2>2
<1> QED
  BY <1>4, <1>6, <1>7, <1>8, <1>9 DEF KeyInv

(* Whatever the page settles on, the key goes with an edit.                *)
LEMMA RenderKeepsKey ==
  ASSUME KeyInv, NEW p, Render(p), UNCHANGED <<posts, sent, booked>>
  PROVE  KeyInv'
<1>1. \/ Content(page)' = Content(page) /\ UNCHANGED <<key, edits>>
      \/ edits' = edits + 1 /\ key' = 0
  BY DEF Render, KeyAfter, Content
<1> QED
  BY <1>1, PageTurns DEF KeyInv
LEMMA KeyKept == KeyInv /\ [PagesNext]_<<wvars, formVars>> => KeyInv'
<1> SUFFICES ASSUME KeyInv, [PagesNext]_<<wvars, formVars>> PROVE KeyInv'
  OBVIOUS
<1> USE DEF Elsewhere
<1>1. CASE UNCHANGED wvars
  <2>1. Content(page)' = Content(page)
    BY <1>1 DEF wvars, Content
  <2> QED
    BY <1>1, <2>1, PageTurns DEF wvars, KeyInv
<1>2. CASE ServicePage
  BY <1>2, RenderKeepsKey DEF ServicePage, ToggleService, ToggleOption, ToDatetime, Goes
<1>3. CASE DatetimePage
  <2>1. CASE \E w \in Chairs \cup {None} : PickStaff(w)
    BY <2>1, RenderKeepsKey DEF PickStaff
  <2>2. CASE MonthCalendar
    BY <2>2, RenderKeepsKey DEF MonthCalendar, PickDay, PickMonth
  <2>3. CASE TimeList
    BY <2>3, RenderKeepsKey DEF TimeList, PickTime
  <2>4. CASE ToForm \/ Back("datetime", "service")
    BY <2>4, RenderKeepsKey DEF ToForm, Back, Goes
  <2> QED
    BY <1>3, <2>1, <2>2, <2>3, <2>4 DEF DatetimePage
<1>4. CASE FormPage
  BY <1>4, RenderKeepsKey DEF FormPage, TypeForm, ToConfirm, Back, Goes
<1>5. CASE ConfirmPage
  BY <1>5, RenderKeepsKey, SubmitKeepsKey DEF ConfirmPage, Back, Goes
<1>6. CASE DonePage
  BY <1>6, PageTurns DEF DonePage, ResetWizard, KeyInv
<1>7. CASE Answers
  <2>1. CASE ProfileArrives
    BY <2>1, RenderKeepsKey DEF ProfileArrives
  <2>2. ASSUME NEW f \in fetches, NEW free, SlotsAnswered(f, free) PROVE KeyInv'
    <3>1. \/ Content(page)' = Content(page) /\ UNCHANGED <<key, edits>>
          \/ edits' = edits + 1 /\ key' = 0
      BY <2>2 DEF SlotsAnswered, KeyAfter, Content
    <3> QED
      BY <2>2, <3>1, PageTurns DEF SlotsAnswered, KeyInv
  <2>3. ASSUME NEW g \in summaries, NEW marks, SummaryAnswered(g, marks) PROVE KeyInv'
    <3>1. \/ Content(page)' = Content(page) /\ UNCHANGED <<key, edits>>
          \/ edits' = edits + 1 /\ key' = 0
      BY <2>3 DEF SummaryAnswered, KeyAfter, Content
    <3> QED
      BY <2>3, <3>1, PageTurns DEF SummaryAnswered, KeyInv
  <2>4. CASE \/ \E f \in fetches : SlotsFailed(f)
             \/ \E g \in summaries : SummaryFailed(g)
             \/ PostFails
    <3>1. Content(page)' = Content(page) /\ UNCHANGED <<key, edits, sent, posts, booked>>
      BY <2>4 DEF SlotsFailed, SummaryFailed, PostFails, Content
    <3> QED
      BY <3>1, PageTurns DEF KeyInv
  <2>5. CASE PostSucceeds
    <3>1. Content(page)' = Content(page) /\ UNCHANGED <<key, edits, sent, posts, booked>>
      BY <2>5 DEF PostSucceeds, Content
    <3> QED
      BY <3>1, PageTurns DEF KeyInv
  <2> QED
    BY <1>7, <2>1, <2>2, <2>3, <2>4, <2>5 DEF Answers
<1>8. CASE Server
  <2>1. /\ Content(page)' = Content(page) /\ UNCHANGED <<key, edits, sent>>
        /\ posts' \subseteq posts /\ booked' \subseteq booked \cup posts
    BY <1>8 DEF Server, ServerHandles, Content
  <2> QED
    BY <2>1, PageTurns DEF KeyInv
<1> QED
  BY <1>1, <1>2, <1>3, <1>4, <1>5, <1>6, <1>7, <1>8 DEF PagesNext, WizardNext, wvars, formVars

(* A request made again after an error or a silence carries the key of the *)
(* first and asks for the same; after any change it carries another one:   *)
(* so the server never answers with a booking of something else.           *)
THEOREM KeyIsIntent == PagesSpec => []KeyNamesOneIntent
<1>1. PagesInit => KeyInv
  <2> SUFFICES ASSUME PagesInit PROVE KeyInv
    OBVIOUS
  <2>1. /\ edits = 0 /\ key = 0 /\ posts = {} /\ sent = {} /\ booked = {}
    BY DEF PagesInit, WizardInit
  <2>2. Keys = 0..0
    BY <2>1 DEF Keys
  <2> QED
    BY <2>1, <2>2 DEF KeyInv, KeysNumbered
<1>2. KeyInv => KeyNamesOneIntent
  BY DEF KeyInv, KeyNamesOneIntent
<1> QED
  BY <1>1, <1>2, KeyKept, PTL DEF PagesSpec
(***************************************************************************)
(* The times on the booking page                                           *)
(***************************************************************************)
IsPage(p) == p = [step |-> p.step, picked |-> p.picked, staff |-> p.staff, date |-> p.date,
                  month |-> p.month, slot |-> p.slot, marks |-> p.marks, form |-> p.form]

Able(p) == p.staff = None \/ p.staff \in Eligible(p.picked)

(* What a page says of itself: beyond the services one is chosen.          *)
PageOK(p) ==
  /\ IsPage(p)
  /\ p.step \in {"datetime", "form", "confirm"} => DOMAIN p.picked # {}
  /\ p.slot # NoSlot => p.slot.of = Query(p)

(* The answer that will be taken is to the question the page asks.         *)
ShowInv ==
  /\ PageOK(page) /\ Able(page) /\ seq \in Nat
  /\ \A f \in fetches : f.seq \in Nat /\ f.seq <= seq
  /\ page.step = "datetime" => \A f \in fetches : f.seq = seq => f.of = Query(page)
  /\ page.step = "datetime" /\ ~loading => slots.of = Query(page)

(* The effects leave the page in order: who can no longer be nominated is  *)
(* dropped, and whoever is moved to another day has no time yet.           *)
LEMMA EffectsKeep ==
  ASSUME NEW p, PageOK(p), Able(p) \/ p.slot = NoSlot
  PROVE  \A q : q = MovedToOpenDay(NominationKept(p)) =>
           /\ PageOK(q) /\ Able(q) /\ q.step = p.step
<1>1. PICK r : r = NominationKept(p)
  OBVIOUS
<1>2. PageOK(r) /\ Able(r) /\ r.step = p.step
  BY <1>1 DEF NominationKept, PageOK, Able, IsPage, Query
<1>3. ASSUME NEW q, q = MovedToOpenDay(r) PROVE PageOK(q) /\ Able(q) /\ q.step = r.step
  <2>1. PICK d : q = r \/ q = [r EXCEPT !.date = d, !.slot = NoSlot]
    BY <1>3 DEF MovedToOpenDay
  <2> QED
    BY <1>2, <2>1 DEF PageOK, Able, IsPage, Query
<1> QED
  BY <1>1, <1>2, <1>3

(* A page that asks anew shows nothing until it is answered.               *)
LEMMA RenderKeepsShown ==
  ASSUME ShowInv, NEW p, PageOK(p), Able(p) \/ p.slot = NoSlot,
         Render(p), UNCHANGED slots
  PROVE  ShowInv'
<1>1. PICK q : q = MovedToOpenDay(NominationKept(p))
  OBVIOUS
<1>2. PageOK(q) /\ Able(q)
  BY <1>1, EffectsKeep
<1>3. page' = q
  BY <1>1 DEF Render
<1>4. CASE /\ q.step = "datetime" /\ DOMAIN q.picked # {}
           /\ page.step # "datetime" \/ Query(q) # Query(page)
  <2>1. /\ seq' = seq + 1 /\ loading' = TRUE
        /\ fetches' = fetches \cup {[seq |-> seq + 1, of |-> Query(q)]}
    BY <1>1, <1>4 DEF Render
  <2> QED
    BY <1>2, <1>3, <2>1 DEF ShowInv
<1>5. CASE ~ (/\ q.step = "datetime" /\ DOMAIN q.picked # {}
              /\ page.step # "datetime" \/ Query(q) # Query(page))
  <2>1. UNCHANGED <<seq, loading, fetches>>
    BY <1>1, <1>5 DEF Render
  <2>2. q.step = "datetime" => page.step = "datetime" /\ Query(q) = Query(page)
    BY <1>2, <1>5 DEF PageOK
  <2> QED
    BY <1>2, <1>3, <2>1, <2>2 DEF ShowInv
<1> QED
  BY <1>4, <1>5

(* The page stays where it is, or gives up its time.                       *)
LEMMA SamePage ==
  ASSUME ShowInv, page' = page \/ page' = [page EXCEPT !.slot = NoSlot]
  PROVE  /\ PageOK(page)' /\ Able(page)' /\ Query(page') = Query(page)
         /\ page'.step = page.step
  BY DEF ShowInv, PageOK, Able, IsPage, Query

LEMMA ShownKept == ShowInv /\ [PagesNext]_<<wvars, formVars>> => ShowInv'
<1> SUFFICES ASSUME ShowInv, [PagesNext]_<<wvars, formVars>> PROVE ShowInv'
  OBVIOUS
<1>0. PageOK(page) /\ Able(page) /\ IsPage(page) /\ seq \in Nat
  BY DEF ShowInv, PageOK
<1>1. CASE UNCHANGED wvars
  BY <1>1 DEF wvars, ShowInv
<1>2. ASSUME NEW q, Render(Rechosen(q)), page.step = "service", UNCHANGED slots PROVE ShowInv'
  <2>1. PICK p : p = Rechosen(q)
    OBVIOUS
  <2>2. PageOK(p) /\ p.slot = NoSlot
    BY <1>0, <1>2, <2>1 DEF Rechosen, PageOK, IsPage
  <2> QED
    BY <1>2, <2>1, <2>2, RenderKeepsShown
<1>3. ASSUME NEW from, NEW to, Goes(from, to),
             to \in {"datetime", "form", "confirm"} => DOMAIN page.picked # {}
      PROVE  ShowInv'
  <2>1. PICK p : p = [page EXCEPT !.step = to]
    OBVIOUS
  <2>2. PageOK(p) /\ Able(p) /\ Render(p) /\ UNCHANGED slots
    BY <1>0, <1>3, <2>1 DEF PageOK, IsPage, Able, Goes, Query
  <2> QED
    BY <2>2, RenderKeepsShown
<1>4. CASE ServicePage
  BY <1>2, <1>3, <1>4 DEF ServicePage, ToggleService, ToggleOption, ToDatetime, Goes
<1>5. CASE DatetimePage
  <2>1. ASSUME NEW w, PickStaff(w) PROVE ShowInv'
    <3>1. PICK p : p = [page EXCEPT !.staff = w, !.slot = NoSlot]
      OBVIOUS
    <3>2. PageOK(p) /\ p.slot = NoSlot /\ Render(p) /\ UNCHANGED slots
      BY <1>0, <2>1, <3>1 DEF PageOK, IsPage, PickStaff
    <3> QED
      BY <3>2, RenderKeepsShown
  <2>2. ASSUME NEW d, PickDay(d) PROVE ShowInv'
    <3>1. PICK p : p = [page EXCEPT !.date = d, !.slot = NoSlot]
      OBVIOUS
    <3>2. PageOK(p) /\ p.slot = NoSlot /\ Render(p) /\ UNCHANGED slots
      BY <1>0, <2>2, <3>1 DEF PageOK, IsPage, PickDay
    <3> QED
      BY <3>2, RenderKeepsShown
  <2>3. ASSUME NEW m, PickMonth(m) PROVE ShowInv'
    <3>1. PICK p : p = [page EXCEPT !.month = m]
      OBVIOUS
    <3>2. PageOK(p) /\ Able(p) /\ Render(p) /\ UNCHANGED slots
      BY <1>0, <2>3, <3>1 DEF PageOK, IsPage, Able, PickMonth, Query
    <3> QED
      BY <3>2, RenderKeepsShown
  <2>4. ASSUME NEW t, PickTime(t) PROVE ShowInv'
    <3>1. PICK p : p = [page EXCEPT !.slot = [at |-> t, of |-> slots.of]]
      OBVIOUS
    <3>2. slots.of = Query(page) /\ Render(p) /\ UNCHANGED slots
      BY <2>4, <3>1 DEF ShowInv, PickTime
    <3>3. PageOK(p) /\ Able(p)
      BY <1>0, <3>1, <3>2 DEF PageOK, IsPage, Able, Query
    <3> QED
      BY <3>2, <3>3, RenderKeepsShown
  <2>5. CASE ToForm \/ Back("datetime", "service")
    BY <1>0, <1>3, <2>5 DEF ToForm, Back, Goes, PageOK
  <2> QED
    BY <1>5, <2>1, <2>2, <2>3, <2>4, <2>5 DEF DatetimePage, MonthCalendar, TimeList
<1>6. CASE FormPage
  <2>1. ASSUME NEW f, TypeForm(f) PROVE ShowInv'
    <3>1. PICK p : p = [page EXCEPT !.form = f]
      OBVIOUS
    <3>2. PageOK(p) /\ Able(p) /\ Render(p) /\ UNCHANGED slots
      BY <1>0, <2>1, <3>1 DEF PageOK, IsPage, Able, TypeForm, Query
    <3> QED
      BY <3>2, RenderKeepsShown
  <2>2. CASE ToConfirm \/ Back("form", "datetime")
    BY <1>0, <1>3, <2>2 DEF ToConfirm, Back, Goes, PageOK
  <2> QED
    BY <1>6, <2>1, <2>2 DEF FormPage
<1>7. CASE ConfirmPage
  <2>1. CASE Submit
    BY <2>1 DEF Submit, ShowInv
  <2>2. CASE Back("confirm", "form")
    BY <1>0, <1>3, <2>2 DEF Back, Goes, PageOK
  <2> QED
    BY <1>7, <2>1, <2>2 DEF ConfirmPage
<1>8. CASE DonePage
  <2>1. PICK p : /\ p = [Blank EXCEPT !.marks = page.marks, !.form.name = profile]
                 /\ page' = p /\ UNCHANGED <<seq, fetches>>
    BY <1>8 DEF DonePage, ResetWizard
  <2>2. PageOK(p) /\ Able(p) /\ p.step = "service"
    BY <2>1 DEF Blank, PageOK, IsPage, Able
  <2> QED
    BY <2>1, <2>2 DEF ShowInv
<1>9. CASE Answers
  <2>1. CASE ProfileArrives
    <3>1. PICK p : p = [page EXCEPT !.form.name = TRUE]
      OBVIOUS
    <3>2. PageOK(p) /\ Able(p) /\ Render(p) /\ UNCHANGED slots
      BY <1>0, <2>1, <3>1 DEF PageOK, IsPage, Able, ProfileArrives, Query
    <3> QED
      BY <3>2, RenderKeepsShown
  <2>2. ASSUME NEW f \in fetches, NEW free, SlotsAnswered(f, free) PROVE ShowInv'
    <3>1. /\ page' = page \/ page' = [page EXCEPT !.slot = NoSlot]
          /\ fetches' \subseteq fetches /\ seq' = seq
          /\ \/ f.seq = seq /\ slots' = [of |-> f.of, free |-> free]
             \/ UNCHANGED <<slots, loading, page>>
      BY <2>2 DEF SlotsAnswered, Takes
    <3> QED
      BY <3>1, SamePage DEF ShowInv
  <2>3. ASSUME NEW f \in fetches, SlotsFailed(f) PROVE ShowInv'
    <3>1. /\ page' = page /\ fetches' \subseteq fetches /\ seq' = seq
          /\ \/ f.seq = seq /\ slots' = [of |-> f.of, free |-> {}]
             \/ UNCHANGED <<slots, loading>>
      BY <2>3 DEF SlotsFailed, Takes
    <3> QED
      BY <3>1, SamePage DEF ShowInv
  <2>4. ASSUME NEW g \in summaries, NEW marks, SummaryAnswered(g, marks) PROVE ShowInv'
    <3>1. PICK r, p :
            /\ r = [page EXCEPT !.marks =
                     [d \in Days |-> IF MonthOf(d) = g.month THEN marks[d] ELSE @[d]]]
            /\ p = MovedToOpenDay(r) /\ page' = p /\ UNCHANGED slots
            /\ IF p.date # page.date
               THEN /\ seq' = seq + 1 /\ loading' = TRUE
                    /\ fetches' = fetches \cup {[seq |-> seq + 1, of |-> Query(p)]}
               ELSE UNCHANGED <<seq, loading, fetches>>
      BY <2>4 DEF SummaryAnswered
    <3>2. PageOK(r) /\ Able(r) /\ Query(r) = Query(page) /\ r.step = page.step
          /\ r.date = page.date
      BY <1>0, <3>1 DEF PageOK, IsPage, Able, Query
    <3>3. PICK d : p = r \/ p = [r EXCEPT !.date = d, !.slot = NoSlot]
      BY <3>1 DEF MovedToOpenDay
    <3>4. /\ PageOK(p) /\ Able(p) /\ p.step = page.step
          /\ p.date = page.date => Query(p) = Query(page)
      BY <3>2, <3>3 DEF PageOK, Able, IsPage, Query
    <3> QED
      BY <3>1, <3>4 DEF ShowInv
  <2>5. CASE PostSucceeds
    <3>1. PICK p : p = [page EXCEPT !.step = "done"] /\ page' = p
                   /\ UNCHANGED <<seq, fetches>>
      BY <2>5 DEF PostSucceeds
    <3>2. PageOK(p) /\ Able(p) /\ p.step = "done"
      BY <1>0, <3>1 DEF PageOK, IsPage, Able, Query
    <3> QED
      BY <3>1, <3>2 DEF ShowInv
  <2>6. CASE PostFails \/ \E g \in summaries : SummaryFailed(g)
    BY <2>6 DEF PostFails, SummaryFailed, ShowInv
  <2> QED
    BY <1>9, <2>1, <2>2, <2>3, <2>4, <2>5, <2>6 DEF Answers
<1>10. CASE Server
  BY <1>10 DEF Server, ServerHandles, ShowInv
<1> QED
  BY <1>1, <1>4, <1>5, <1>6, <1>7, <1>8, <1>9, <1>10 DEF PagesNext, WizardNext
(***************************************************************************)
(* The forms                                                               *)
(***************************************************************************)
IsForm(f) == f = [kind |-> f.kind, day |-> f.day, staff |-> f.staff, menu |-> f.menu,
                  list |-> f.list, label |-> f.label, choice |-> f.choice,
                  loading |-> f.loading, sending |-> f.sending, here |-> f.here]

(* The day written over a list that offers something is the list's.        *)
Labelled(f) == f.kind = "shop" /\ f.list # NoList /\ f.list.free # {} => f.label = f.list.of.day

(* The list, and the time chosen from it, are those of the fields.         *)
Fits(f) ==
  /\ f.list # NoList => f.list.of = Fields(f)
  /\ f.choice # NotChosen => /\ f.choice.of = Fields(f)
                             /\ f.kind = "shop" => f.label = f.choice.of.day

FormInv ==
  /\ IsForm(form) /\ Labelled(form)
  /\ ~raced => /\ Fits(form)
               /\ reading # NotReading => reading = Fields(form)
               /\ \A r \in asked :
                    /\ r.choice.of.staff = r.staff /\ r.choice.of.menu = r.menu
                    /\ r.kind = "shop" => r.label = r.choice.of.day

(* A field is changed: there is nothing shown, and what is being read was  *)
(* asked for before.                                                       *)
LEMMA ChangeKeeps ==
  ASSUME FormInv, NEW f, IsForm(f), Change(f)
  PROVE  FormInv'
<1>1. PICK g : g = [f EXCEPT !.list = NoList, !.label = NoList.day, !.choice = NotChosen]
  OBVIOUS
<1>2. form' = g /\ raced' = (raced \/ reading # NotReading) /\ UNCHANGED <<reading, asked>>
  BY <1>1 DEF Change, Cleared
<1>3. IsForm(g) /\ g.list = NoList /\ g.choice = NotChosen
  BY <1>1 DEF IsForm
<1> QED
  BY <1>2, <1>3 DEF FormInv, Labelled, Fits

LEMMA CommonKeeps ==
  ASSUME FormInv, Common
  PROVE  FormInv'
<1>0. IsForm(form) /\ Labelled(form)
  BY DEF FormInv
<1>1. ASSUME NEW d, ChangeDay(d) PROVE FormInv'
  <2>1. PICK f : f = [form EXCEPT !.day = d]
    OBVIOUS
  <2>2. IsForm(f) /\ Change(f)
    BY <1>0, <1>1, <2>1 DEF IsForm, ChangeDay
  <2> QED
    BY <2>2, ChangeKeeps
<1>2. CASE Search
  <2>1. PICK f : f = [form EXCEPT !.loading = TRUE, !.choice = NotChosen]
    OBVIOUS
  <2>2. IsForm(f) /\ Labelled(f) /\ Fields(f) = Fields(form) /\ f.choice = NotChosen
        /\ f.list = form.list
    BY <1>0, <2>1 DEF IsForm, Labelled, Fields
  <2>3. form' = f /\ reading' = Fields(form) /\ UNCHANGED <<asked, raced>>
    BY <1>2, <2>1 DEF Search
  <2> QED
    BY <2>2, <2>3 DEF FormInv, Fits
<1>3. ASSUME NEW t, Choose(t) PROVE FormInv'
  <2>1. PICK f : f = [form EXCEPT !.choice = [time |-> t, of |-> form.list.of]]
    OBVIOUS
  <2>2. /\ IsForm(f) /\ Fields(f) = Fields(form) /\ f.choice.of = form.list.of
        /\ f.list = form.list /\ f.kind = form.kind /\ f.label = form.label
    BY <1>0, <2>1 DEF IsForm, Fields
  <2>3. /\ form' = f /\ UNCHANGED <<reading, asked, raced>>
        /\ form.list # NoList /\ form.list.free # {}
    BY <1>3, <2>1 DEF Choose
  <2> QED
    BY <2>2, <2>3 DEF FormInv, Fits, Labelled
<1>4. CASE Send
  <2>1. PICK f : f = [form EXCEPT !.sending = TRUE]
    OBVIOUS
  <2>2. /\ IsForm(f) /\ Fields(f) = Fields(form) /\ f.choice = form.choice
        /\ f.list = form.list /\ f.kind = form.kind /\ f.label = form.label
    BY <1>0, <2>1 DEF IsForm, Fields
  <2>3. PICK r : /\ r = [kind |-> form.kind, choice |-> form.choice, staff |-> form.staff,
                         menu |-> form.menu, label |-> form.label]
                 /\ asked' = asked \cup {r}
    BY <1>4 DEF Send
  <2>4. form' = f /\ UNCHANGED <<reading, raced>> /\ form.choice # NotChosen
    BY <1>4, <2>1 DEF Send
  <2>5. Fits(form) => /\ r.choice.of.staff = r.staff /\ r.choice.of.menu = r.menu
                      /\ r.kind = "shop" => r.label = r.choice.of.day
    BY <2>3, <2>4 DEF Fits, Fields
  <2> QED
    BY <2>2, <2>3, <2>4, <2>5 DEF FormInv, Fits, Labelled
<1>5. ASSUME NEW free, ListArrives(free) PROVE FormInv'
  <2>1. PICK f, l :
          /\ l = [of |-> reading, free |-> free]
          /\ f = [form EXCEPT !.loading = FALSE, !.list = l,
                              !.label = IF form.kind = "shop" THEN reading.day ELSE @]
    OBVIOUS
  <2>2. /\ form' = f /\ reading' = NotReading /\ UNCHANGED <<asked, raced>>
        /\ reading # NotReading
    BY <1>5, <2>1 DEF ListArrives
  <2>3. /\ IsForm(f) /\ Fields(f) = Fields(form) /\ f.choice = form.choice
        /\ f.list.of = reading /\ f.kind = form.kind
        /\ f.kind = "shop" => f.label = reading.day
    BY <1>0, <2>1 DEF IsForm, Fields
  <2> QED
    BY <2>2, <2>3 DEF FormInv, Fits, Labelled
<1>6. CASE SearchFails
  <2>1. PICK f : f = [form EXCEPT !.loading = FALSE, !.list = [of |-> reading, free |-> {}]]
    OBVIOUS
  <2>2. /\ form' = f /\ reading' = NotReading /\ UNCHANGED <<asked, raced>>
        /\ reading # NotReading
    BY <1>6, <2>1 DEF SearchFails
  <2>3. /\ IsForm(f) /\ Fields(f) = Fields(form) /\ f.choice = form.choice
        /\ f.list.of = reading /\ f.list.free = {} /\ f.kind = form.kind
        /\ f.label = form.label
    BY <1>0, <2>1 DEF IsForm, Fields
  <2> QED
    BY <2>2, <2>3 DEF FormInv, Fits, Labelled
<1>7. ASSUME NEW f, f = [form EXCEPT !.here = FALSE] \/ f = [form EXCEPT !.sending = FALSE] \/ f = form,
             form' = f, reading' \in {reading, NotReading}, UNCHANGED <<asked, raced>>
      PROVE  FormInv'
  <2>1. /\ IsForm(f) /\ Fields(f) = Fields(form) /\ f.choice = form.choice
        /\ f.list = form.list /\ f.kind = form.kind /\ f.label = form.label
    BY <1>0, <1>7 DEF IsForm, Fields
  <2> QED
    BY <1>7, <2>1 DEF FormInv, Fits, Labelled
<1>8. ASSUME Granted, form.kind = "customer" PROVE FormInv'
  <2>1. PICK d \in FormDays : form' = Opened("customer", d)
    BY <1>8 DEF Granted
  <2>2. PICK f : f = Opened("customer", d)
    OBVIOUS
  <2>3. IsForm(f) /\ f.list = NoList /\ f.choice = NotChosen
    BY <2>2 DEF Opened, IsForm
  <2>4. form' = f /\ reading' = NotReading /\ UNCHANGED <<asked, raced>>
    BY <1>8, <2>1, <2>2 DEF Granted
  <2> QED
    BY <2>3, <2>4 DEF FormInv, Fits, Labelled
<1>9. CASE SearchLost \/ Refused \/ (Granted /\ form.kind # "customer")
  BY <1>7, <1>9 DEF SearchLost, Refused, Granted
<1> QED
  BY <1>1, <1>2, <1>3, <1>4, <1>5, <1>6, <1>8, <1>9 DEF Common

LEMMA FormKept == FormInv /\ [PagesNext]_<<wvars, formVars>> => FormInv'
<1> SUFFICES ASSUME FormInv, [PagesNext]_<<wvars, formVars>> PROVE FormInv'
  OBVIOUS
<1>0. IsForm(form)
  BY DEF FormInv
<1>1. CASE UNCHANGED formVars
  BY <1>1 DEF formVars, FormInv
<1>2. ASSUME NEW s, ChangeStaff(s) PROVE FormInv'
  <2>1. PICK f : f = [form EXCEPT !.staff = s]
    OBVIOUS
  <2>2. IsForm(f) /\ Change(f)
    BY <1>0, <1>2, <2>1 DEF IsForm, ChangeStaff
  <2> QED
    BY <2>2, ChangeKeeps
<1>3. ASSUME NEW m, ChangeMenu(m) PROVE FormInv'
  <2>1. PICK f : f = [form EXCEPT !.menu = m, !.staff = Nobody]
    OBVIOUS
  <2>2. IsForm(f) /\ Change(f)
    BY <1>0, <1>3, <2>1 DEF IsForm, ChangeMenu
  <2> QED
    BY <2>2, ChangeKeeps
<1>4. CASE Fold
  <2>1. PICK f : f = [form EXCEPT !.here = ~ @]
    OBVIOUS
  <2>2. /\ IsForm(f) /\ Fields(f) = Fields(form) /\ f.choice = form.choice
        /\ f.list = form.list /\ f.kind = form.kind /\ f.label = form.label
    BY <1>0, <2>1 DEF IsForm, Fields
  <2>3. form' = f /\ UNCHANGED <<reading, asked, raced>>
    BY <1>4, <2>1 DEF Fold
  <2> QED
    BY <2>2, <2>3 DEF FormInv, Fits, Labelled
<1> QED
  BY <1>1, <1>2, <1>3, <1>4, CommonKeeps
     DEF PagesNext, FormNext, CustomerForm, ShopForm, NewForm, wvars, formVars

(* Whatever the order of the answers, the times shown on the booking page  *)
(* and the one chosen are those of its services, nomination and day; and   *)
(* a form sends what its fields say, under the day it wrote, unless a      *)
(* field was changed while times were being read.                          *)
THEOREM TimesAreOfSelection == PagesSpec => []ShownForSelection
<1>1. PagesInit => ShowInv /\ FormInv
  <2> SUFFICES ASSUME PagesInit PROVE ShowInv /\ FormInv
    OBVIOUS
  <2>1. page = Blank /\ seq = 0 /\ fetches = {} /\ loading = FALSE
    BY DEF PagesInit, WizardInit
  <2>2. ShowInv
    BY <2>1 DEF ShowInv, PageOK, IsPage, Able, Blank
  <2>3. PICK k, d : form = Opened(k, d)
    BY DEF PagesInit, FormInit
  <2>4. IsForm(form) /\ form.list = NoList /\ form.choice = NotChosen
    BY <2>3 DEF Opened, IsForm
  <2>5. reading = NotReading /\ asked = {}
    BY DEF PagesInit, FormInit
  <2> QED
    BY <2>2, <2>4, <2>5 DEF FormInv, Labelled, Fits
<1>2. ShowInv /\ FormInv => ShownForSelection
  BY DEF ShowInv, PageOK, FormInv, Labelled, Fits, ShownForSelection, PageShowsSelection,
         AskedAsShown, TimesOfTheFields
<1> QED
  BY <1>1, <1>2, ShownKept, FormKept, PTL DEF PagesSpec

(***************************************************************************)
(* What a cart costs and how long it lasts                                 *)
(***************************************************************************)

(* A service as its form and the database take it: segments that do not    *)
(* meet and end with the service (lib/validation/admin.ts:102), no buffer  *)
(* before (nothing writes it, schema.prisma:604), no negative price and    *)
(* options that lengthen it or not (admin.ts:37).                          *)
ServiceOK(s) ==
  /\ s.price \in Nat /\ s.sale \in Nat \cup {NoSale} /\ s.capacity \in Nat
  /\ WellFormed([segments |-> Segments(s), before |-> 0, after |-> s.after, capacity |-> 0])
  /\ s.before = 0
  /\ s.dur = LastSegment(Segments(s)).offset + LastSegment(Segments(s)).dur
  /\ IsFiniteSet(s.options)
  /\ \A o \in s.options : o.price \in Nat /\ o.extra \in Nat

(* An option has its id to itself and is of one service.                   *)
MenuOK(menu) ==
  /\ \A v \in DOMAIN menu : ServiceOK(menu[v])
  /\ \A v, w \in DOMAIN menu : \A o \in menu[v].options, q \in menu[w].options :
       o.id = q.id => v = w /\ o = q

(* What the booking page can ask for: services of the menu, each with some *)
(* of its own options (optionsOf).                                         *)
CartOK(menu, items) ==
  /\ items \in Seq(Range(items))
  /\ \A i \in 1..Len(items) :
       /\ items[i].svc \in DOMAIN menu
       /\ items[i].options \subseteq {o.id : o \in menu[items[i].svc].options}

(* The server finds the options of a service by asking for all the ids of  *)
(* the request at once, the page goes from item to item.                   *)
LEMMA SameOptions ==
  ASSUME NEW menu, MenuOK(menu), NEW items, CartOK(menu, items), ComboAccepted(menu, items),
         NEW i \in DOMAIN items
  PROVE  OptionsOf(menu, items, items[i].svc) = Picked(menu[items[i].svc], items[i])
<1> DEFINE v == items[i].svc
<1>1. DOMAIN items = 1..Len(items)
  BY DEF CartOK
<1>2. ASSUME NEW o \in OptionsOf(menu, items, v)
      PROVE  o \in Picked(menu[v], items[i])
  <2>1. PICK j \in DOMAIN items : o.id \in items[j].options
    BY DEF OptionsOf, AskedOptions
  <2>2. PICK q \in menu[items[j].svc].options : q.id = o.id
    BY <1>1, <2>1 DEF CartOK
  <2>3. items[j].svc = v
    BY <1>1, <2>2 DEF CartOK, MenuOK, OptionsOf
  <2>4. j = i
    BY <2>3 DEF ComboAccepted
  <2> QED
    BY <2>1, <2>4 DEF OptionsOf, Picked
<1>3. ASSUME NEW o \in Picked(menu[v], items[i])
      PROVE  o \in OptionsOf(menu, items, v)
  <2>1. o \in menu[v].options /\ o.id \in AskedOptions(items)
    BY DEF Picked, AskedOptions
  <2>2. PICK j \in DOMAIN items : o.id \in {q.id : q \in OptionsOf(menu, items, items[j].svc)}
    BY <2>1 DEF ComboAccepted, KnownOptions
  <2>3. PICK q \in menu[items[j].svc].options : q.id = o.id /\ q.active
    BY <2>2 DEF OptionsOf
  <2>4. q = o
    BY <1>1, <2>1, <2>3 DEF CartOK, MenuOK
  <2> QED
    BY <2>1, <2>3, <2>4 DEF OptionsOf
<1> QED
  BY <1>2, <1>3

(* The price charged is the price shown: totals of booking-wizard.tsx adds *)
(* up what createBooking adds up, for every menu and every cart.           *)
THEOREM PriceIsAsShown ==
  ASSUME NEW menu, MenuOK(menu), NEW items, CartOK(menu, items), ComboAccepted(menu, items),
         NEW fee \in Nat
  PROVE  TotalPrice(menu, items, 1, fee) = PagePrice(menu, items, fee)
<1> DEFINE cost == [i \in DOMAIN items |-> Subtotal(menu, items, items[i].svc)]
<1>1. DOMAIN items = 1..Len(items) /\ Len(items) \in Nat
  BY DEF CartOK
<1>2. \A i \in DOMAIN items :
        cost[i] = (IF menu[items[i].svc].sale # NoSale THEN menu[items[i].svc].sale
                   ELSE menu[items[i].svc].price)
                  + Total([o \in Picked(menu[items[i].svc], items[i]) |-> o.price])
  BY SameOptions DEF Subtotal, EffectivePrice
<1>3. \A i \in DOMAIN items : cost[i] \in Int
  <2> SUFFICES ASSUME NEW i \in DOMAIN items PROVE cost[i] \in Int
    OBVIOUS
  <2>1. PICK s : s = menu[items[i].svc]
    OBVIOUS
  <2>2. ServiceOK(s)
    BY <1>1, <2>1 DEF CartOK, MenuOK
  <2> DEFINE price == [o \in Picked(s, items[i]) |-> o.price]
  <2>3. Whole(price)
    <3>1. IsFiniteSet(Picked(s, items[i])) /\ \A o \in Picked(s, items[i]) : o.price \in Int
      BY <2>2, FS_Subset DEF ServiceOK, Picked
    <3> QED
      BY <3>1 DEF Whole
  <2>4. Total(price) \in Int
    BY <2>3, TotalRemoves
  <2>5. (IF s.sale # NoSale THEN s.sale ELSE s.price) \in Int
    BY <2>2 DEF ServiceOK
  <2> QED
    BY <1>2, <2>1, <2>4, <2>5
<1>4. Whole(cost)
  BY <1>1, <1>3, FS_Interval DEF Whole
<1>5. Total(cost) \in Int
  BY <1>4, TotalRemoves
<1>6. TotalPrice(menu, items, 1, fee) = Total(cost) + fee
  BY <1>5 DEF TotalPrice
<1>7. PagePrice(menu, items, fee) = fee + Total(cost)
  <2>1. cost = [i \in DOMAIN items |->
                 (IF menu[items[i].svc].sale # NoSale THEN menu[items[i].svc].sale
                   ELSE menu[items[i].svc].price)
                  + Total([o \in Picked(menu[items[i].svc], items[i]) |-> o.price])]
    BY <1>2
  <2> HIDE DEF cost
  <2> QED
    BY <2>1, Zenon DEF PagePrice
<1> HIDE DEF cost
<1> QED
  BY <1>5, <1>6, <1>7

(* A longer last segment is still the last, and the service well-formed.   *)
LEMMA ExtraLengthens ==
  ASSUME NEW part, WellFormed(part), NEW extra \in Nat,
         NEW longer, longer.segments = WithExtraMinutes(part.segments, extra),
         longer.before = part.before, longer.after = part.after, longer.capacity \in Nat
  PROVE  /\ WellFormed(longer)
         /\ LastSegment(longer.segments).offset + LastSegment(longer.segments).dur
              = LastSegment(part.segments).offset + LastSegment(part.segments).dur + extra
<1>1. CASE extra <= 0
  BY <1>1, LastSegmentIsLast DEF WithExtraMinutes, WellFormed
<1>2. CASE extra > 0
  <2>1. PICK S, last : S = part.segments /\ last = LastSegment(S)
    OBVIOUS
  <2>2. /\ last \in S /\ S \subseteq [offset : Nat, dur : Nat \ {0}] /\ IsFiniteSet(S)
        /\ \A s \in S : s.offset <= last.offset
        /\ \A s, o \in S : s = o \/ s.offset + s.dur <= o.offset \/ o.offset + o.dur <= s.offset
    BY <2>1, LastSegmentIsLast DEF WellFormed
  <2>3. PICK new : new = [last EXCEPT !.dur = @ + extra]
    OBVIOUS
  <2>4. /\ new \in [offset : Nat, dur : Nat \ {0}] /\ new.offset = last.offset
        /\ new.dur = last.dur + extra
    BY <1>2, <2>2, <2>3
  <2>5. longer.segments = (S \ {last}) \cup {new}
    BY <1>2, <2>1, <2>3 DEF WithExtraMinutes
  <2>6. \A s \in S \ {last} : s.offset + s.dur <= last.offset /\ s.offset < last.offset
    BY <2>2
  <2>7. \A s, o \in longer.segments :
           s = o \/ s.offset + s.dur <= o.offset \/ o.offset + o.dur <= s.offset
    BY <2>2, <2>4, <2>5, <2>6
  <2>8. IsFiniteSet(longer.segments)
    BY <2>2, <2>5, FS_Subset, FS_AddElement
  <2>9. longer.segments # {} /\ longer.segments \subseteq [offset : Nat, dur : Nat \ {0}]
    BY <2>2, <2>4, <2>5
  <2>10. WellFormed(longer)
    BY <2>7, <2>8, <2>9 DEF WellFormed
  <2>11. LastSegment(longer.segments) = new
    <3>1. PICK l : l = LastSegment(longer.segments)
      OBVIOUS
    <3>2. l \in longer.segments /\ \A s \in longer.segments : s.offset <= l.offset
      BY <2>10, <3>1, LastSegmentIsLast
    <3>3. l = new
      BY <2>2, <2>4, <2>5, <2>6, <3>2
    <3> QED
      BY <3>1, <3>3
  <2> QED
    BY <2>1, <2>2, <2>4, <2>10, <2>11
<1> QED
  BY <1>1, <1>2

(* Without buffers before it, a chain lasts as long as the sum of its      *)
(* services and of the buffers between them.                               *)
LEMMA DurationIsSum ==
  ASSUME NEW parts, WellFormedChain(parts), \A i \in 1..Len(parts) : parts[i].before = 0,
         NEW each, Whole(each), DOMAIN each = 1..Len(parts),
         \A i \in 1..Len(parts) :
           each[i] = LastSegment(parts[i].segments).offset + LastSegment(parts[i].segments).dur
                       + (IF i < Len(parts) THEN parts[i].after ELSE 0)
  PROVE  ChainDuration(parts) = Total(each)
<1>1. PICK n, c : n = Len(parts) /\ c = ChainCursor(0, parts)
  OBVIOUS
<1>2. n \in Nat /\ n >= 1 /\ \A i \in 1..n : c[i] \in Int /\ WellFormed(parts[i])
  <2>1. c \in [1..n -> Int]
    BY <1>1, CursorFollowsChain
  <2> QED
    BY <1>1, <2>1 DEF WellFormedChain
<1>3. PICK length : length = [i \in 1..n |-> LastSegment(parts[i].segments).offset
                                              + LastSegment(parts[i].segments).dur]
  OBVIOUS
<1>4. \A i \in 1..n :
        /\ length[i] \in Int /\ parts[i].after \in Int
        /\ OccupiedEnd(c[i], parts[i]) = c[i] + length[i] + parts[i].after
        /\ ServiceEnd(c[i], parts[i]) = c[i] + length[i]
        /\ each[i] = length[i] + (IF i < n THEN parts[i].after ELSE 0)
  <2> SUFFICES ASSUME NEW i \in 1..n
               PROVE  /\ length[i] \in Int /\ parts[i].after \in Int
                      /\ OccupiedEnd(c[i], parts[i]) = c[i] + length[i] + parts[i].after
                      /\ ServiceEnd(c[i], parts[i]) = c[i] + length[i]
                      /\ each[i] = length[i] + (IF i < n THEN parts[i].after ELSE 0)
    OBVIOUS
  <2>1. PICK l : l = LastSegment(parts[i].segments)
    OBVIOUS
  <2>2. l \in [offset : Nat, dur : Nat \ {0}] /\ parts[i].after \in Nat
    BY <1>2, <2>1, LastSegmentIsLast DEF WellFormed
  <2>3. length[i] = l.offset + l.dur /\ l.offset \in Nat /\ l.dur \in Nat /\ c[i] \in Int
    BY <1>2, <1>3, <2>1, <2>2
  <2> QED
    BY <1>1, <2>1, <2>2, <2>3 DEF OccupiedEnd, ServiceEnd
<1>5. c[1] = 0 /\ \A i \in 2..n : c[i] = c[i - 1] + each[i - 1]
  <2>1. c[1] = 0 /\ \A i \in 2..n : c[i] = OccupiedEnd(c[i - 1], parts[i - 1]) + parts[i].before
    <3>1. 0 \in Int
      OBVIOUS
    <3> QED
      BY <1>1, <3>1, CursorFollowsChain
  <2> SUFFICES ASSUME NEW i \in 2..n PROVE c[i] = c[i - 1] + each[i - 1]
    BY <2>1
  <2>2. i - 1 \in 1..n /\ i \in 1..n /\ i - 1 < n
    BY <1>2
  <2>3. c[i] = OccupiedEnd(c[i - 1], parts[i - 1]) + 0
    BY <1>1, <2>1, <2>2
  <2>4. c[i - 1] \in Int
    BY <1>2, <2>2
  <2> QED
    BY <1>4, <2>2, <2>3, <2>4
<1> DEFINE Sum(i) == Total(Part(each, 1..(i - 1)))
<1>6. \A i \in 2..n : Sum(i) = Sum(i - 1) + each[i - 1] /\ Sum(i - 1) \in Int
  <2> SUFFICES ASSUME NEW i \in 2..n PROVE Sum(i) = Sum(i - 1) + each[i - 1] /\ Sum(i - 1) \in Int
    OBVIOUS
  <2>1. PICK f : f = Part(each, 1..(i - 1))
    OBVIOUS
  <2>2. 1..(i - 1) \in SUBSET DOMAIN each /\ 1..((i - 1) - 1) \in SUBSET DOMAIN each
    BY <1>1, <1>2
  <2>3. Whole(f) /\ DOMAIN f = 1..(i - 1)
    BY <2>1, <2>2, WholePart
  <2>4. i - 1 \in DOMAIN f /\ f[i - 1] = each[i - 1]
    BY <1>2, <2>1, <2>3 DEF Part
  <2>5. Part(f, DOMAIN f \ {i - 1}) = Part(each, 1..((i - 1) - 1))
    <3>1. (1..(i - 1)) \ {i - 1} = 1..((i - 1) - 1)
      BY <1>2
    <3>2. \A j \in 1..((i - 1) - 1) : f[j] = each[j]
      BY <1>2, <2>1 DEF Part
    <3> QED
      BY <2>3, <3>1, <3>2 DEF Part
  <2>6. Total(f) = f[i - 1] + Total(Part(f, DOMAIN f \ {i - 1}))
    BY <2>3, <2>4, TotalRemoves
  <2>7. Sum(i - 1) \in Int /\ each[i - 1] \in Int
    <3>1. Whole(Part(each, 1..((i - 1) - 1)))
      BY <2>2, WholePart
    <3>2. Sum(i - 1) \in Int
      BY <3>1, TotalRemoves
    <3>3. each \in [1..n -> Int] /\ i - 1 \in 1..n
      BY <1>1, <1>2 DEF Whole
    <3> QED
      BY <3>2, <3>3
  <2> QED
    BY <2>1, <2>4, <2>5, <2>6, <2>7
<1>7. Sum(1) = 0
  <2>1. DOMAIN Part(each, 1..(1 - 1)) = {}
    BY DEF Part
  <2> QED
    BY <2>1, TotalOfNone
<1> HIDE DEF Sum
<1>8. \A i \in 1..n : c[i] = Sum(i)
  <2> DEFINE Differ == {i \in 1..n : c[i] # Sum(i)}
  <2>1. SUFFICES ASSUME Differ # {} PROVE FALSE
    OBVIOUS
  <2>2. Differ \in SUBSET Nat
    OBVIOUS
  <2>3. PICK m \in Differ : \A x \in Differ : m <= x
    <3> HIDE DEF Differ
    <3> QED
      BY <2>1, <2>2, LeastNatural
  <2>4. m \in 2..n
    BY <1>2, <1>5, <1>7, <2>3
  <2>5. m - 1 \in 1..n /\ m - 1 \notin Differ
    BY <1>2, <2>3, <2>4
  <2>6. c[m - 1] = Sum(m - 1) /\ c[m - 1] \in Int /\ each[m - 1] \in Int
    BY <1>1, <1>2, <2>5 DEF Whole
  <2> QED
    BY <1>5, <1>6, <2>3, <2>4, <2>6
<1>9. Total(each) = each[n] + Sum(n)
  <2>1. (1..n) \ {n} = 1..(n - 1)
    BY <1>2
  <2> QED
    BY <1>1, <1>2, <2>1, TotalRemoves DEF Sum
<1>10. ChainDuration(parts) = ServiceEnd(c[n], parts[n])
  <2>1. /\ ChainDuration(parts) \in Int
        /\ ChainServiceEnd(0, parts) = 0 + ChainDuration(parts)
    BY DurationIsServiceTime
  <2> QED
    BY <1>1, <2>1 DEF ChainServiceEnd
<1>11. n \in 1..n /\ each[n] = length[n] /\ c[n] \in Int /\ length[n] \in Int
  BY <1>2, <1>4
<1> QED
  BY <1>4, <1>8, <1>9, <1>10, <1>11

(* The minutes shown are those the server blocks: totals of booking-       *)
(* wizard.tsx adds up what chainServiceDurationMin computes of the parts   *)
(* of loadComboContext, for every menu, every cart and any rules.          *)
THEOREM MinutesAreAsShown ==
  ASSUME NEW menu, MenuOK(menu), NEW items, CartOK(menu, items), ComboAccepted(menu, items),
         NEW rules, \A r \in rules : r.max \in Nat, NEW staff, NEW bookable, NEW cap
  PROVE  PageMinutes(menu, items)
           = ChainDuration(Combo(menu, items, rules, staff, bookable, cap).parts)
<1> DEFINE Svc(i) == menu[items[i].svc]
           Extra(i) == Total([o \in OptionsOf(menu, items, items[i].svc) |-> o.extra])
           Ruled(i) == ResolveRules(rules, items[i].svc, Svc(i), staff, cap)
           parts == [i \in DOMAIN items |->
                      [svc |-> items[i].svc,
                       segments |-> WithExtraMinutes(Segments(Svc(i)), Extra(i)),
                       before |-> Svc(i).before, after |-> Svc(i).after,
                       capacity |-> Ruled(i).serviceCapacity]]
           n == Len(items)
<1>1. Combo(menu, items, rules, staff, bookable, cap).parts
        = [i \in DOMAIN items |->
             [svc |-> items[i].svc,
              segments |-> WithExtraMinutes(Segments(Svc(i)), Extra(i)),
              before |-> Svc(i).before, after |-> Svc(i).after,
              capacity |-> [j \in DOMAIN items |-> Ruled(j)][i].serviceCapacity]]
  BY Zenon DEF Combo
<1>2. Combo(menu, items, rules, staff, bookable, cap).parts = parts
  <2> HIDE DEF Ruled, Extra, Svc
  <2> QED
    BY <1>1
<1>3. DOMAIN items = 1..n /\ n \in Nat /\ n # 0 /\ DOMAIN parts = 1..n /\ Len(parts) = n
  <2>1. DOMAIN items = 1..n /\ n \in Nat /\ n # 0
    BY DEF CartOK, ComboAccepted
  <2>2. DOMAIN parts = 1..n
    BY <2>1
  <2>3. parts \in Seq({parts[i] : i \in 1..n}) /\ Len(parts) = n
    <3> HIDE DEF Ruled, Extra, Svc
    <3> QED
      BY <2>1
  <2> QED
    BY <2>1, <2>2, <2>3
<1>4. ASSUME NEW i \in 1..n
      PROVE  /\ ServiceOK(Svc(i)) /\ Ruled(i).serviceCapacity \in Nat /\ Extra(i) \in Nat
             /\ Extra(i) = Total([o \in Picked(Svc(i), items[i]) |-> o.extra])
  <2>1. ServiceOK(Svc(i))
    BY DEF CartOK, MenuOK
  <2>2. Ruled(i).serviceCapacity \in Nat
    <3> DEFINE service == RuleFor(rules, "SERVICE", items[i].svc)
    <3>1. Ruled(i).serviceCapacity = FirstOf(service, {}, Svc(i).capacity, "max")
      BY DEF ResolveRules
    <3>2. service # {} => (CHOOSE r \in service : TRUE) \in rules
      BY DEF RuleFor
    <3>3. Svc(i).capacity \in Nat
      BY <2>1 DEF ServiceOK
    <3> HIDE DEF service, Svc
    <3> QED
      BY <3>1, <3>2, <3>3 DEF FirstOf
  <2>3. OptionsOf(menu, items, items[i].svc) = Picked(Svc(i), items[i])
    BY <1>3, SameOptions
  <2> DEFINE extra == [o \in Picked(Svc(i), items[i]) |-> o.extra]
  <2>4. Whole(extra) /\ \A o \in DOMAIN extra : extra[o] \in Nat
    <3>1. IsFiniteSet(Picked(Svc(i), items[i])) /\ \A o \in Picked(Svc(i), items[i]) : o.extra \in Nat
      BY <2>1, FS_Subset DEF ServiceOK, Picked
    <3> QED
      BY <3>1 DEF Whole
  <2>5. Total(extra) \in Nat
    <3> HIDE DEF extra
    <3> QED
      BY <2>4, TotalOfNats
  <2>6. Extra(i) = Total(extra)
    BY <2>3
  <2> QED
    BY <2>1, <2>2, <2>5, <2>6
<1>5. ASSUME NEW i \in 1..n
      PROVE  /\ WellFormed(parts[i]) /\ parts[i].before = 0 /\ parts[i].after = Svc(i).after
             /\ LastSegment(parts[i].segments).offset + LastSegment(parts[i].segments).dur
                  = Svc(i).dur + Extra(i)
  <2>1. PICK s, extra, capacity :
          s = Svc(i) /\ extra = Extra(i) /\ capacity = Ruled(i).serviceCapacity
    OBVIOUS
  <2>2. ServiceOK(s) /\ extra \in Nat /\ capacity \in Nat
    BY <1>4, <2>1
  <2>3. parts[i] = [svc |-> items[i].svc, segments |-> WithExtraMinutes(Segments(s), extra),
                    before |-> s.before, after |-> s.after, capacity |-> capacity]
    <3> HIDE DEF Svc, Extra, Ruled
    <3> QED
      BY <1>3, <2>1
  <2>4. PICK plain : plain = [segments |-> Segments(s), before |-> 0, after |-> s.after,
                              capacity |-> 0]
    OBVIOUS
  <2>5. WellFormed(plain) /\ s.before = 0
        /\ s.dur = LastSegment(Segments(s)).offset + LastSegment(Segments(s)).dur
    BY <2>2, <2>4 DEF ServiceOK
  <2>6. PICK part : part = parts[i]
    OBVIOUS
  <2>7. /\ part.segments = WithExtraMinutes(plain.segments, extra)
        /\ part.before = plain.before /\ part.after = plain.after /\ part.capacity \in Nat
    <3> HIDE DEF parts
    <3> QED
      BY <2>2, <2>3, <2>4, <2>5, <2>6
  <2>8. /\ WellFormed(part)
        /\ LastSegment(part.segments).offset + LastSegment(part.segments).dur
              = LastSegment(plain.segments).offset + LastSegment(plain.segments).dur + extra
    BY <2>2, <2>5, <2>7, ExtraLengthens
  <2>9. plain.segments = Segments(s) /\ plain.before = 0 /\ plain.after = s.after
    BY <2>4
  <2> HIDE DEF parts, Svc, Extra
  <2> QED
    BY <2>1, <2>5, <2>6, <2>7, <2>8, <2>9
<1> DEFINE each == [i \in DOMAIN items |->
                      Svc(i).dur + Total([o \in Picked(Svc(i), items[i]) |-> o.extra])
                        + (IF i < Len(items) THEN Svc(i).after ELSE 0)]
<1>6. PageMinutes(menu, items) = Total(each)
  BY Zenon DEF PageMinutes
<1>7. ASSUME NEW i \in 1..n
      PROVE  /\ each[i] = Svc(i).dur + Extra(i) + (IF i < n THEN Svc(i).after ELSE 0)
             /\ Svc(i).dur \in Nat /\ Svc(i).after \in Nat /\ each[i] \in Int
  <2>1. PICK s : s = Svc(i)
    OBVIOUS
  <2>2. PICK plain : plain = [segments |-> Segments(s), before |-> 0, after |-> s.after,
                              capacity |-> 0]
    OBVIOUS
  <2>3. /\ WellFormed(plain) /\ plain.segments = Segments(s) /\ plain.after = s.after
        /\ s.dur = LastSegment(Segments(s)).offset + LastSegment(Segments(s)).dur
    BY <1>4, <2>1, <2>2 DEF ServiceOK
  <2>4. LastSegment(Segments(s)) \in [offset : Nat, dur : Nat \ {0}] /\ s.after \in Nat
    BY <2>3, LastSegmentIsLast DEF WellFormed
  <2>5. s.dur \in Nat
    BY <2>3, <2>4
  <2>6. each[i] = Svc(i).dur + Extra(i) + (IF i < n THEN Svc(i).after ELSE 0)
    <3> HIDE DEF Svc, Extra
    <3> QED
      BY <1>3, <1>4
  <2>7. Extra(i) \in Nat
    BY <1>4
  <2> HIDE DEF Svc, Extra, each
  <2> QED
    BY <2>1, <2>4, <2>5, <2>6, <2>7
<1>8. Whole(each) /\ DOMAIN each = 1..Len(parts)
  <2>1. each = [i \in 1..n |-> each[i]]
    BY <1>3
  <2> HIDE DEF each, Svc, Extra
  <2> QED
    BY <1>3, <1>7, <2>1, FS_Interval DEF Whole
<1>9. \A i \in 1..Len(parts) :
        each[i] = LastSegment(parts[i].segments).offset + LastSegment(parts[i].segments).dur
                    + (IF i < Len(parts) THEN parts[i].after ELSE 0)
  <2> HIDE DEF each, parts, Svc, Extra
  <2> QED
    BY <1>3, <1>5, <1>7
<1>10. WellFormedChain(parts) /\ \A i \in 1..Len(parts) : parts[i].before = 0
  <2> HIDE DEF parts
  <2> QED
    BY <1>3, <1>5 DEF WellFormedChain
<1> HIDE DEF parts, each
<1>11. ChainDuration(parts) = Total(each)
  BY <1>8, <1>9, <1>10, DurationIsSum
<1> QED
  BY <1>2, <1>6, <1>11

(***************************************************************************)
(* What the owner sees and what is offered                                 *)
(***************************************************************************)
Spans(S) == \A s \in S : s.start \in Int /\ s.end \in Int

(* A stretch of time lies within a shift as it is drawn (resolveDayShifts) *)
(* when it lies within one shift and one opening.                          *)
LEMMA DrawnIsBoth ==
  ASSUME NEW open, NEW work, Spans(open), Spans(work), NEW from \in Int, NEW to \in Int, from < to
  PROVE  (\E x \in ShiftsWithin(open, work) : x.start <= from /\ to <= x.end)
           <=> /\ \E o \in open : o.start <= from /\ to <= o.end
               /\ \E w \in work : w.start <= from /\ to <= w.end
<1> DEFINE Cut(w, o) == Span(Max({w.start, o.start}), Min({w.end, o.end}))
<1>1. ASSUME NEW w \in work, NEW o \in open
      PROVE  /\ Cut(w, o).start \in {w.start, o.start} /\ Cut(w, o).end \in {w.end, o.end}
             /\ Cut(w, o).start >= w.start /\ Cut(w, o).start >= o.start
             /\ Cut(w, o).end <= w.end /\ Cut(w, o).end <= o.end
  BY DEF Spans, Span, Max, Min
<1>2. ShiftsWithin(open, work)
        = {x \in {Cut(w, o) : w \in work, o \in open} : x.end > x.start}
  BY DEF ShiftsWithin, Proper
<1> HIDE DEF Cut
<1>3. ASSUME NEW w \in work, NEW o \in open, Cut(w, o).start <= from, to <= Cut(w, o).end
      PROVE  o.start <= from /\ to <= o.end /\ w.start <= from /\ to <= w.end
  BY <1>1, <1>3 DEF Spans
<1>4. ASSUME NEW w \in work, NEW o \in open,
             o.start <= from, to <= o.end, w.start <= from, to <= w.end
      PROVE  Cut(w, o).start <= from /\ to <= Cut(w, o).end /\ Cut(w, o).end > Cut(w, o).start
  BY <1>1, <1>4 DEF Spans
<1>5. ASSUME NEW x \in ShiftsWithin(open, work)
      PROVE  \E w \in work, o \in open : x = Cut(w, o)
  BY <1>2
<1>6. ASSUME NEW w \in work, NEW o \in open, Cut(w, o).end > Cut(w, o).start
      PROVE  Cut(w, o) \in ShiftsWithin(open, work)
  BY <1>2, <1>6
<1> QED
  BY <1>3, <1>4, <1>5, <1>6

LEMMA VisitHasLength ==
  ASSUME NEW parts, WellFormedChain(parts), NEW at \in Int
  PROVE  ChainServiceEnd(at, parts) \in Int /\ at < ChainServiceEnd(at, parts)
<1>1. PICK n, c : n = Len(parts) /\ c = ChainCursor(at, parts)
  OBVIOUS
<1>2. /\ n \in Nat \ {0} /\ c \in [1..n -> Int] /\ c[1] = at
      /\ \A i \in 2..n : c[i] = OccupiedEnd(c[i - 1], parts[i - 1]) + parts[i].before
      /\ \A i \in 1..n : WellFormed(parts[i])
  BY <1>1, CursorFollowsChain DEF WellFormedChain
<1>3. \A i \in 1..n : /\ ServiceEnd(c[i], parts[i]) \in Int /\ c[i] < ServiceEnd(c[i], parts[i])
                      /\ parts[i].before \in Nat
                      /\ OccupiedEnd(c[i], parts[i]) \in Int /\ c[i] < OccupiedEnd(c[i], parts[i])
  <2> SUFFICES ASSUME NEW i \in 1..n
               PROVE  /\ ServiceEnd(c[i], parts[i]) \in Int /\ c[i] < ServiceEnd(c[i], parts[i])
                      /\ parts[i].before \in Nat
                      /\ OccupiedEnd(c[i], parts[i]) \in Int /\ c[i] < OccupiedEnd(c[i], parts[i])
    OBVIOUS
  <2>1. PICK l : l = LastSegment(parts[i].segments)
    OBVIOUS
  <2>2. l \in [offset : Nat, dur : Nat \ {0}] /\ parts[i].after \in Nat /\ parts[i].before \in Nat
    BY <1>2, <2>1, LastSegmentIsLast DEF WellFormed
  <2>3. l.offset \in Nat /\ l.dur \in Nat \ {0} /\ c[i] \in Int
    BY <1>2, <2>2
  <2> QED
    BY <2>1, <2>2, <2>3 DEF ServiceEnd, OccupiedEnd
<1>4. \A i \in 1..n : at <= c[i]
  <2> DEFINE Early == {i \in 1..n : ~(at <= c[i])}
  <2>1. SUFFICES ASSUME Early # {} PROVE FALSE
    OBVIOUS
  <2>2. Early \in SUBSET Nat
    OBVIOUS
  <2>3. PICK m \in Early : \A x \in Early : m <= x
    <3> HIDE DEF Early
    <3> QED
      BY <2>1, <2>2, LeastNatural
  <2>4. m \in 2..n
    BY <1>2, <2>3
  <2>5. m - 1 \in 1..n /\ m - 1 \notin Early /\ m \in 1..n
    BY <1>2, <2>3, <2>4
  <2>6. at <= c[m - 1]
    BY <2>5
  <2>7. c[m] = OccupiedEnd(c[m - 1], parts[m - 1]) + parts[m].before
    BY <1>2, <2>4
  <2>8. /\ OccupiedEnd(c[m - 1], parts[m - 1]) \in Int /\ parts[m].before \in Nat
        /\ c[m - 1] < OccupiedEnd(c[m - 1], parts[m - 1]) /\ c[m - 1] \in Int
    BY <1>2, <1>3, <2>5
  <2>9. at <= c[m]
    BY <2>6, <2>7, <2>8
  <2> QED
    BY <2>3, <2>9
<1>5. n \in 1..n
  BY <1>2
<1> QED
  BY <1>1, <1>2, <1>3, <1>4, <1>5 DEF ChainServiceEnd

Serving(q) == IF q.staff # NoStaff THEN {q.staff} ELSE q.candidates

DrawnFor(q, open, work) ==
  \E x \in ShiftsWithin(open, work) : x.start <= q.at /\ ChainServiceEnd(q.at, q.parts) <= x.end

(* The board does not lie: a visit is offered only within a shift that the *)
(* owner's board draws for somebody who may serve it, unless it needs      *)
(* nobody; and where one is drawn a visit is never refused for the hours   *)
(* or for want of staff, if every minute is a start (resolveDayShifts of   *)
(* merchant-service.ts against computeAvailability).                       *)
THEOREM DrawnIsOffered ==
  ASSUME NEW q, q.at \in Int, WellFormedChain(q.parts), NEW rules, NEW rows,
         NEW open, Spans(open), NEW duty, \A s \in Serving(q) : Spans(duty[s])
  PROVE  /\ Verdict(q, rules, duty, open, rows) \in {"OK", "SLOT_FULL"} =>
              \/ \E s \in Serving(q) : DrawnFor(q, open, duty[s])
              \/ Serving(q) = {} /\ ~q.needsStaff
         /\ rules.slotInterval = 1 /\ (\E s \in Serving(q) : DrawnFor(q, open, duty[s])) =>
              Verdict(q, rules, duty, open, rows)
                \notin {"OUTSIDE_BUSINESS_HOURS", "STAFF_UNAVAILABLE"}
<1>1. PICK end, length : end = ChainServiceEnd(q.at, q.parts) /\ length = ChainDuration(q.parts)
  OBVIOUS
<1>2. end \in Int /\ length \in Int /\ end = q.at + length /\ q.at < end
  BY <1>1, VisitHasLength, DurationIsServiceTime
<1>3. \A s \in Serving(q) :
        DrawnFor(q, open, duty[s])
          <=> /\ \E o \in open : o.start <= q.at /\ end <= o.end
              /\ IsWorkingDuring(duty, s, q.at, end)
  BY <1>1, <1>2, DrawnIsBoth DEF DrawnFor, IsWorkingDuring
<1>4. IsOffered(q, rules, open) => \E o \in open : o.start <= q.at /\ end <= o.end
  BY <1>1, <1>2 DEF IsOffered, CandidateStarts, Spans
<1>5. rules.slotInterval = 1 /\ (\E o \in open : o.start <= q.at /\ end <= o.end)
        => IsOffered(q, rules, open)
  <2> SUFFICES ASSUME rules.slotInterval = 1, NEW o \in open, o.start <= q.at, end <= o.end
               PROVE  IsOffered(q, rules, open)
    OBVIOUS
  <2>1. o.start \in Int /\ o.end \in Int
    BY DEF Spans
  <2>2. q.at \in o.start..(o.end - length)
    BY <1>2, <2>1
  <2>3. (q.at - o.start) % 1 = 0
    BY <2>1
  <2> QED
    BY <1>1, <2>2, <2>3 DEF IsOffered, CandidateStarts
<1>6. NobodyWorks(q, duty) <=>
        /\ \A s \in Serving(q) : ~IsWorkingDuring(duty, s, q.at, end)
        /\ Serving(q) # {} \/ q.needsStaff
  BY <1>1, Zenon DEF NobodyWorks, Serving
<1>7. /\ Verdict(q, rules, duty, open, rows) \in {"OK", "SLOT_FULL"}
           => IsOffered(q, rules, open) /\ ~NobodyWorks(q, duty)
      /\ IsOffered(q, rules, open) /\ ~NobodyWorks(q, duty)
           => Verdict(q, rules, duty, open, rows)
                \notin {"OUTSIDE_BUSINESS_HOURS", "STAFF_UNAVAILABLE"}
  BY DEF Verdict
<1> QED
  BY <1>3, <1>4, <1>5, <1>6, <1>7

(* A day of the week's or the month's read is that day read alone          *)
(* (loadRangeContext, loadDayContext), as far as both know the holidays.   *)
LEMMA DayOfRangeIsDay ==
  ASSUME NEW db, \A r \in db.shifts : r.type \in {"RECURRING", "OVERRIDE"},
         NEW from \in Int, NEW to \in Int, NEW date \in from..to - 1, NEW ids,
         date \in HolidaysInRange(from, to) <=> IsHoliday(date)
  PROVE  DayOfRange(RangeContext(db, from, to, ids), date) = DayContext(db, date, ids)
<1>1. {r \in db.shifts : r.staff \in ids /\ r.type = "RECURRING"}
        \cup {r \in db.shifts : r.staff \in ids /\ r.type = "OVERRIDE" /\ r.date = date}
        = {r \in db.shifts : r.staff \in ids /\ (r.type = "RECURRING" \/ r.date = date)}
  OBVIOUS
<1>2. (date \in HolidaysInRange(from, to)) = IsHoliday(date)
  BY DEF IsHoliday
<1> QED
  BY <1>1, <1>2 DEF DayOfRange, RangeContext, DayContext

(* The mark of a day in the month is one of free times exactly when the    *)
(* list of that day has one (getDateAvailabilitySummary, getDay-           *)
(* Availability).                                                          *)
LEMMA MarkIsOfList ==
  ASSUME NEW combo, NEW staff, NEW enforce, NEW now, NEW duty, NEW open, NEW occupied0
  PROVE  LET times == DaySlots(combo, staff, enforce, now, duty, open, occupied0)
         IN  Mark(times, open) \in {"FEW", "OPEN"} <=> \E at \in DOMAIN times : times[at] = "OK"
<1> DEFINE times == DaySlots(combo, staff, enforce, now, duty, open, occupied0)
<1>1. open = {} => DOMAIN times = {}
  BY DEF DaySlots, StartsOf
<1> HIDE DEF times
<1>2. Mark(times, open) \in {"FEW", "OPEN"} <=> \E at \in DOMAIN times : times[at] = "OK"
  BY <1>1 DEF Mark
<1> QED
  BY <1>2 DEF times
=============================================================================
