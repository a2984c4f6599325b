--------------------------- MODULE OccupancyProofs ---------------------------
(***************************************************************************)
(* The pure parts of a booking, for every value of the constants.  The     *)
(* capacity functions, for every collection of intervals: peakOverlap      *)
(* looks at finitely many instants and still bounds the number of rows     *)
(* that cover any instant of the new segments.  The shape of what a        *)
(* booking occupies, for every well-formed chain of services: a set of     *)
(* intervals of integers between the occupied start and the occupied end.  *)
(***************************************************************************)
EXTENDS Occupancy, Capacity, Sums, FiniteSetTheorems, WellFoundedInduction, TLAPS

-----------------------------------------------------------------------------
(* The capacity functions                                                  *)

(* A set of natural numbers has a least element.                           *)
LEMMA LeastNatural ==
  ASSUME NEW S \in SUBSET Nat, S # {}
  PROVE  \E m \in S : \A x \in S : m <= x
<1>1. PICK m \in S : \A y \in S : ~ (<<y, m>> \in OpToRel(<, Nat))
  BY WFMin, NatLessThanWellFounded
<1>2. ASSUME NEW x \in S PROVE m <= x
  <2>1. ~ (<<x, m>> \in OpToRel(<, Nat))
    BY <1>1
  <2>2. m \in Nat /\ x \in Nat
    OBVIOUS
  <2>3. ~ (x < m)
    BY <2>1, <2>2, Zenon DEF OpToRel
  <2> QED
    BY <2>2, <2>3
<1> QED
  BY <1>2

(* A set of integers with an upper bound has a greatest element.           *)
LEMMA GreatestBelow ==
  ASSUME NEW S \in SUBSET Int, S # {},
         NEW bound \in Int, \A x \in S : x <= bound
  PROVE  \E m \in S : \A x \in S : x <= m
<1> DEFINE Gap == {bound - x : x \in S}
<1>0. \A x \in S : x \in Int
  OBVIOUS
<1>1. Gap \in SUBSET Nat /\ Gap # {}
  <2>1. \A x \in S : bound - x \in Nat
    BY <1>0
  <2> QED
    BY <2>1
<1>2. PICK g \in Gap : \A y \in Gap : g <= y
  BY <1>1, LeastNatural
<1>3. PICK m \in S : g = bound - m
  BY <1>2
<1>4. \A x \in S : bound - m <= bound - x
  BY <1>2, <1>3
<1> QED
  BY <1>3, <1>4

(* A finite set of integers has a greatest element: the one with the most  *)
(* elements below it.                                                      *)
LEMMA FiniteGreatest ==
  ASSUME NEW S \in SUBSET Int, IsFiniteSet(S), S # {}
  PROVE  \E m \in S : \A x \in S : x <= m
<1> DEFINE Below(x) == {y \in S : y <= x}
           Ranks == {Cardinality(Below(x)) : x \in S}
<1>1. \A x \in S : /\ IsFiniteSet(Below(x))
                   /\ Cardinality(Below(x)) \in Nat
                   /\ Cardinality(Below(x)) <= Cardinality(S)
  BY FS_Subset, FS_CardinalityType
<1>2. Cardinality(S) \in Int
  BY FS_CardinalityType
<1>3. PICK r \in Ranks : \A y \in Ranks : y <= r
  <2>1. Ranks # {}
    OBVIOUS
  <2>2. \A y \in Ranks : y \in Int /\ y <= Cardinality(S)
    <3> HIDE DEF Below
    <3> QED
      BY <1>1
  <2> HIDE DEF Ranks
  <2> QED
    BY <2>1, <2>2, <1>2, GreatestBelow
<1>4. PICK m \in S : r = Cardinality(Below(m))
  BY <1>3
<1>5. ASSUME NEW x \in S, ~ (x <= m) PROVE FALSE
  <2>0. m < x /\ \A y \in S : y \in Int
    BY <1>5
  <2>1. Below(m) \cup {x} \in SUBSET Below(x)
    <3>1. \A y \in Below(m) : y \in Below(x)
      BY <2>0
    <3>2. x \in Below(x)
      BY <2>0
    <3> QED
      BY <3>1, <3>2
  <2>2. Cardinality(Below(m) \cup {x}) = Cardinality(Below(m)) + 1
    <3>1. x \notin Below(m)
      BY <1>5
    <3> QED
      BY <3>1, <1>1, FS_AddElement
  <2>3. Cardinality(Below(m) \cup {x}) <= Cardinality(Below(x))
    BY <2>1, <1>1, FS_Subset
  <2>4. Cardinality(Below(x)) <= Cardinality(Below(m))
    BY <1>3, <1>4
  <2> QED
    <3> HIDE DEF Below
    <3> QED
      BY <2>2, <2>3, <2>4, <1>1
<1> QED
  BY <1>5

(* Max is the greatest element of a finite set of integers.                *)
LEMMA MaxIsGreatest ==
  ASSUME NEW S \in SUBSET Int, IsFiniteSet(S), S # {}
  PROVE  Max(S) \in S /\ \A x \in S : x <= Max(S)
<1>1. \E m \in S : \A x \in S : m >= x
  BY FiniteGreatest
<1> QED
  BY <1>1, Zenon DEF Max

(* The number of rows covering an instant is a natural number.             *)
LEMMA CountType ==
  ASSUME NEW existing, IsFiniteSet(existing), NEW t
  PROVE  /\ CountCovering(existing, t) \in Nat
         /\ CountCovering(existing, t) \in 0..Cardinality(existing)
<1>1. {iv \in existing : Covers(iv, t)} \in SUBSET existing
  OBVIOUS
<1> QED
  BY <1>1, FS_Subset, FS_CardinalityType DEF CountCovering

Timed(intervals) == \A iv \in intervals : iv.start \in Int /\ iv.end \in Int

(* peakOverlap counts at the starts only, and no instant within the new    *)
(* segments is covered by more rows than it says.                          *)
THEOREM PeakBoundsEveryInstant ==
  ASSUME NEW existing, IsFiniteSet(existing), Timed(existing),
         NEW segments, Timed(segments),
         NEW t \in Int, Within(segments, t)
  PROVE  /\ PeakOverlap(existing, segments) \in Int
         /\ CountCovering(existing, t) <= PeakOverlap(existing, segments)
<1> DEFINE Covering == {e \in existing : Covers(e, t)}
           Counts == {CountCovering(existing, x) : x \in CandidateInstants(existing, segments)}
<1>1. PICK s \in segments : Covers(s, t)
  BY DEF Within
<1> DEFINE Starts == {e.start : e \in Covering} \cup {s.start}
<1>2. /\ \A x \in Starts : x \in Int /\ x <= t
      /\ Starts # {}
  BY <1>1 DEF Covers, Timed
<1>3. PICK u \in Starts : \A x \in Starts : x <= u
  <2> HIDE DEF Starts
  <2>1. Starts \in SUBSET Int
    BY <1>2
  <2> QED
    BY <2>1, <1>2, GreatestBelow
<1>4. u \in Int /\ u <= t
  BY <1>2, <1>3
<1>5. Covers(s, u)
  BY <1>1, <1>3, <1>4 DEF Covers, Timed
<1>6. u \in CandidateInstants(existing, segments)
  BY <1>1, <1>3, <1>5 DEF CandidateInstants, Within
<1>7. CountCovering(existing, t) <= CountCovering(existing, u)
  <2>1. \A e \in Covering : Covers(e, u)
    BY <1>3, <1>4 DEF Covers, Timed
  <2>2. Covering \in SUBSET {e \in existing : Covers(e, u)}
    BY <2>1
  <2>3. IsFiniteSet({e \in existing : Covers(e, u)})
    BY FS_Subset
  <2> QED
    BY <2>2, <2>3, FS_Subset DEF CountCovering
<1>8. CountCovering(existing, u) <= Max(Counts) /\ Max(Counts) \in Int
  <2>1. \A x \in Counts : x \in Int /\ x \in 0..Cardinality(existing)
    BY CountType
  <2>2. IsFiniteSet(0..Cardinality(existing))
    BY FS_Interval, FS_CardinalityType
  <2>3. IsFiniteSet(Counts)
    <3>1. Counts \in SUBSET (0..Cardinality(existing))
      BY <2>1
    <3> QED
      BY <3>1, <2>2, FS_Subset
  <2>4. CountCovering(existing, u) \in Counts
    BY <1>6
  <2> HIDE DEF Counts
  <2>5. Counts \in SUBSET Int
    BY <2>1
  <2> QED
    BY <2>3, <2>4, <2>5, MaxIsGreatest
<1>9. PeakOverlap(existing, segments) = Max(Counts)
  BY <1>6 DEF PeakOverlap
<1> HIDE DEF Counts
<1> QED
  BY <1>7, <1>8, <1>9, CountType

-----------------------------------------------------------------------------
(* What a booking occupies                                                 *)

(* The first segment is one of the segments and none starts before it.     *)
LEMMA FirstSegmentIsFirst ==
  ASSUME NEW part, WellFormed(part)
  PROVE  /\ FirstSegment(part.segments) \in part.segments
         /\ \A s \in part.segments : FirstSegment(part.segments).offset <= s.offset
<1> DEFINE Offsets == {s.offset : s \in part.segments}
<1>1. Offsets \in SUBSET Nat /\ Offsets # {}
  BY DEF WellFormed
<1>2. PICK m \in Offsets : \A x \in Offsets : m <= x
  BY <1>1, LeastNatural
<1>3. \E s \in part.segments : \A o \in part.segments : s.offset <= o.offset
  BY <1>2
<1> QED
  BY <1>3, Zenon DEF FirstSegment

(* The last segment is one of the segments and none starts after it.       *)
LEMMA LastSegmentIsLast ==
  ASSUME NEW part, WellFormed(part)
  PROVE  /\ LastSegment(part.segments) \in part.segments
         /\ \A s \in part.segments : s.offset <= LastSegment(part.segments).offset
<1> DEFINE Offsets == {s.offset : s \in part.segments}
           offset  == [s \in part.segments |-> s.offset]
<1>1. \A x \in Offsets : x \in Int
  BY DEF WellFormed
<1>2. Offsets # {}
  BY DEF WellFormed
<1>3. IsFiniteSet(Offsets)
  <2>1. offset \in Surjection(part.segments, Offsets)
    BY DEF Surjection
  <2> QED
    BY <2>1, FS_Surjection DEF WellFormed
<1>4. PICK m \in Offsets : \A x \in Offsets : x <= m
  <2> HIDE DEF Offsets
  <2>1. Offsets \in SUBSET Int
    BY <1>1
  <2> QED
    BY <2>1, <1>2, <1>3, FiniteGreatest
<1>5. \E s \in part.segments : \A o \in part.segments : o.offset <= s.offset
  BY <1>4
<1> QED
  BY <1>5, Zenon DEF LastSegment

(* The ends of one service, and the intervals between them.                *)
LEMMA ServiceEndType ==
  ASSUME NEW part, WellFormed(part), NEW at \in Int
  PROVE  /\ ServiceEnd(at, part) \in Int
         /\ OccupiedEnd(at, part) \in Int
         /\ at + FirstSegment(part.segments).offset - part.before \in Int
         /\ at + FirstSegment(part.segments).offset - part.before < OccupiedEnd(at, part)
<1>1. /\ FirstSegment(part.segments) \in [offset : Nat, dur : Nat \ {0}]
      /\ LastSegment(part.segments) \in [offset : Nat, dur : Nat \ {0}]
      /\ FirstSegment(part.segments).offset <= LastSegment(part.segments).offset
  BY FirstSegmentIsFirst, LastSegmentIsLast DEF WellFormed
<1> QED
  BY <1>1 DEF ServiceEnd, OccupiedEnd, WellFormed

LEMMA ServiceWithinWindow ==
  ASSUME NEW part, WellFormed(part), NEW at \in Int, NEW staff,
         NEW iv \in ServiceIntervals(at, part, staff)
  PROVE  /\ iv.start \in Int /\ iv.end \in Int
         /\ iv.svc = part.svc /\ iv.staff = staff
         /\ iv = [start |-> iv.start, end |-> iv.end, svc |-> part.svc, staff |-> staff]
         /\ at + FirstSegment(part.segments).offset - part.before <= iv.start
         /\ iv.end <= OccupiedEnd(at, part)
<1> DEFINE first == FirstSegment(part.segments)
           last  == LastSegment(part.segments)
<1>1. PICK s \in part.segments :
        iv = [start |-> at + s.offset - (IF s = first THEN part.before ELSE 0),
              end   |-> at + s.offset + s.dur + (IF s = last THEN part.after ELSE 0),
              svc   |-> part.svc,
              staff |-> staff]
  BY DEF ServiceIntervals
<1>2. /\ first \in part.segments /\ last \in part.segments
      /\ first.offset <= s.offset /\ s.offset <= last.offset
  BY FirstSegmentIsFirst, LastSegmentIsLast
<1>3. /\ \A o \in {s, first, last} : o.offset \in Nat /\ o.dur \in Nat /\ o.dur > 0
      /\ part.before \in Nat /\ part.after \in Nat
  BY <1>2 DEF WellFormed
<1>4. s = last \/ s.offset + s.dur <= last.offset
  BY <1>2, <1>3 DEF WellFormed
<1> HIDE DEF first, last
<1>5. iv.end <= at + last.offset + last.dur + part.after
  <2>1. CASE s = last
    BY <1>1, <1>3, <2>1
  <2>2. CASE s # last /\ s.offset + s.dur <= last.offset
    <3>1. iv.end = at + s.offset + s.dur
      BY <1>1, <1>3, <2>2
    <3> QED
      BY <3>1, <1>3, <2>2
  <2> QED
    BY <2>1, <2>2, <1>4
<1>6. at + first.offset - part.before <= iv.start
  BY <1>1, <1>2, <1>3
<1>7. iv.start \in Int /\ iv.end \in Int
  BY <1>1, <1>3
<1> QED
  BY <1>1, <1>5, <1>6, <1>7 DEF first, last, ServiceEnd, OccupiedEnd

(* A table of steps over 1..n can be followed from a first value: what the *)
(* loops over a chain rest on.                                             *)
LEMMA FiniteRecursion ==
  ASSUME NEW n \in Nat, NEW a \in Int, NEW step \in [1..n -> [Int -> Int]]
  PROVE  \E f \in [1..n -> Int] :
           \A i \in 1..n : f[i] = IF i = 1 THEN a ELSE step[i][f[i - 1]]
<1> DEFINE Follows(f, m) == \A i \in 1..m : f[i] = IF i = 1 THEN a ELSE step[i][f[i - 1]]
           Bad == {m \in 0..n : ~ \E f \in [1..m -> Int] : Follows(f, m)}
<1>1. CASE Bad = {}
  <2>1. n \in 0..n
    OBVIOUS
  <2> QED
    BY <1>1, <2>1
<1>2. CASE Bad # {}
  <2>1. Bad \in SUBSET Nat
    OBVIOUS
  <2>2. PICK m \in Bad : \A x \in Bad : m <= x
    <3> HIDE DEF Bad
    <3> QED
      BY <1>2, <2>1, LeastNatural
  <2>a. m \in Nat /\ m <= n /\ ~ \E f \in [1..m -> Int] : Follows(f, m)
    <3> HIDE DEF Follows
    <3> QED
      BY <2>2
  <2>3. m # 0
    <3>1. [i \in 1..0 |-> 0] \in [1..0 -> Int] /\ Follows([i \in 1..0 |-> 0], 0)
      OBVIOUS
    <3> QED
      BY <2>2, <3>1
  <2>4. m - 1 \in 0..n /\ m - 1 \notin Bad
    <3> HIDE DEF Bad
    <3> QED
      BY <2>2, <2>3, <2>a
  <2>5. PICK f \in [1..(m - 1) -> Int] : Follows(f, m - 1)
    BY <2>4
  <2> DEFINE g == [i \in 1..m |-> IF i < m THEN f[i]
                                  ELSE IF i = 1 THEN a ELSE step[i][f[i - 1]]]
  <2>6. g \in [1..m -> Int]
    <3>1. ASSUME NEW i \in 1..m PROVE g[i] \in Int
      <4>1. CASE i < m
        BY <4>1
      <4>2. CASE i = m /\ i = 1
        BY <4>2
      <4>3. CASE i = m /\ i # 1
        <5>1. i \in 1..n /\ i - 1 \in 1..(m - 1)
          BY <4>3, <2>a
        <5>2. f[i - 1] \in Int /\ step[i] \in [Int -> Int]
          BY <5>1
        <5> QED
          BY <4>3, <5>2
      <4> QED
        BY <4>1, <4>2, <4>3
    <3> QED
      BY <3>1
  <2>7. Follows(g, m)
    <3>1. ASSUME NEW i \in 1..m
          PROVE  g[i] = IF i = 1 THEN a ELSE step[i][g[i - 1]]
      <4>1. i # 1 => g[i - 1] = f[i - 1]
        BY <2>a
      <4>2. CASE i < m
        <5>1. i \in 1..(m - 1)
          BY <4>2, <2>a
        <5>2. f[i] = IF i = 1 THEN a ELSE step[i][f[i - 1]]
          BY <5>1, <2>5
        <5>3. g[i] = f[i]
          BY <4>2
        <5> HIDE DEF g
        <5> QED
          BY <4>1, <5>2, <5>3
      <4>3. CASE i = m
        BY <4>1, <4>3
      <4> QED
        BY <4>2, <4>3
    <3> QED
      BY <3>1
  <2> QED
    BY <2>a, <2>6, <2>7
<1> QED
  BY <1>1, <1>2

(* The cursor of computeChainOccupancy: the first service starts the       *)
(* visit, each other one after the occupation of the one before it and its *)
(* own buffer.                                                             *)
LEMMA CursorFollowsChain ==
  ASSUME NEW parts, WellFormedChain(parts), NEW at \in Int
  PROVE  /\ ChainCursor(at, parts) \in [1..Len(parts) -> Int]
         /\ ChainCursor(at, parts)[1] = at
         /\ \A i \in 2..Len(parts) :
              ChainCursor(at, parts)[i] =
                OccupiedEnd(ChainCursor(at, parts)[i - 1], parts[i - 1]) + parts[i].before
<1> DEFINE n == Len(parts)
           step == [i \in 1..n |-> [x \in Int |->
                      IF i = 1 THEN 0 ELSE OccupiedEnd(x, parts[i - 1]) + parts[i].before]]
           Cursor(c) == c = [i \in 1..n |->
                               IF i = 1 THEN at
                               ELSE OccupiedEnd(c[i - 1], parts[i - 1]) + parts[i].before]
<1>1. n \in Nat /\ n >= 1
  BY DEF WellFormedChain
<1>2. ASSUME NEW i \in 2..n, NEW x \in Int
      PROVE  OccupiedEnd(x, parts[i - 1]) + parts[i].before \in Int
  <2>1. WellFormed(parts[i - 1]) /\ WellFormed(parts[i])
    BY <1>1 DEF WellFormedChain
  <2>2. OccupiedEnd(x, parts[i - 1]) \in Int
    BY <2>1, ServiceEndType
  <2>3. parts[i].before \in Nat
    BY <2>1 DEF WellFormed
  <2> QED
    BY <2>2, <2>3
<1>3. step \in [1..n -> [Int -> Int]]
  <2> DEFINE next(i, x) == IF i = 1 THEN 0 ELSE OccupiedEnd(x, parts[i - 1]) + parts[i].before
  <2>1. ASSUME NEW i \in 1..n, NEW x \in Int PROVE next(i, x) \in Int
    <3>1. CASE i = 1
      BY <3>1
    <3>2. CASE i # 1
      <4>1. i \in 2..n
        BY <1>1, <3>2
      <4>2. OccupiedEnd(x, parts[i - 1]) + parts[i].before \in Int
        BY <1>2, <4>1
      <4> QED
        BY <3>2, <4>2
    <3> QED
      BY <3>1, <3>2
  <2>2. step = [i \in 1..n |-> [x \in Int |-> next(i, x)]]
    OBVIOUS
  <2> HIDE DEF next, step
  <2> QED
    BY <2>1, <2>2
<1>4. PICK f \in [1..n -> Int] :
        \A i \in 1..n : f[i] = IF i = 1 THEN at ELSE step[i][f[i - 1]]
  <2> HIDE DEF n, step
  <2> QED
    BY <1>1, <1>3, FiniteRecursion
<1>5. Cursor(f)
  <2>1. ASSUME NEW i \in 1..n
        PROVE  f[i] = IF i = 1 THEN at
                      ELSE OccupiedEnd(f[i - 1], parts[i - 1]) + parts[i].before
    <3>1. i # 1 => f[i - 1] \in Int
      BY <1>1
    <3> QED
      BY <1>4, <3>1
  <2> QED
    BY <2>1
<1>6. Cursor(ChainCursor(at, parts))
  <2>1. ChainCursor(at, parts) = CHOOSE c : Cursor(c)
    BY DEF ChainCursor
  <2> HIDE DEF Cursor
  <2> QED
    BY <1>5, <2>1, Zenon
<1> DEFINE c == ChainCursor(at, parts)
           Untyped == {i \in 1..n : c[i] \notin Int}
<1>7. \A i \in 1..n : c[i] = IF i = 1 THEN at
                            ELSE OccupiedEnd(c[i - 1], parts[i - 1]) + parts[i].before
  <2> DEFINE body(i) == IF i = 1 THEN at
                        ELSE OccupiedEnd(c[i - 1], parts[i - 1]) + parts[i].before
  <2>1. c = [i \in 1..n |-> body(i)]
    BY <1>6
  <2> SUFFICES \A i \in 1..n : c[i] = body(i)
    OBVIOUS
  <2> HIDE DEF body, c
  <2> QED
    BY <2>1
<1>8. \A i \in 1..n : c[i] \in Int
  <2>1. CASE Untyped = {}
    BY <2>1
  <2>2. CASE Untyped # {}
    <3>1. Untyped \in SUBSET Nat
      BY <1>1
    <3>2. PICK m \in Untyped : \A x \in Untyped : m <= x
      <4> HIDE DEF Untyped
      <4> QED
        BY <2>2, <3>1, LeastNatural
    <3>3. m \in 1..n /\ m # 1 /\ c[m] \notin Int
      <4> HIDE DEF c
      <4> QED
        BY <1>7, <3>2
    <3>4. m \in 2..n /\ m - 1 \in 1..n /\ m - 1 \notin Untyped
      <4> HIDE DEF Untyped
      <4> QED
        BY <1>1, <3>2, <3>3
    <3>5. c[m - 1] \in Int
      BY <3>4
    <3> HIDE DEF c
    <3> QED
      BY <1>2, <1>7, <3>3, <3>4, <3>5
  <2> QED
    BY <2>1, <2>2
<1>9. c \in [1..n -> Int]
  <2> DEFINE body(i) == IF i = 1 THEN at
                        ELSE OccupiedEnd(c[i - 1], parts[i - 1]) + parts[i].before
  <2>1. c = [i \in 1..n |-> c[i]]
    <3>1. c = [i \in 1..n |-> body(i)]
      BY <1>6
    <3> HIDE DEF body, c
    <3> QED
      BY <3>1
  <2> HIDE DEF c
  <2> QED
    BY <1>8, <2>1
<1> HIDE DEF c
<1>10. c[1] = at /\ \A i \in 2..n : c[i] = OccupiedEnd(c[i - 1], parts[i - 1]) + parts[i].before
  BY <1>1, <1>7
<1> QED
  BY <1>9, <1>10 DEF c

(* A sequence of integers that never falls from one index to the next      *)
(* never falls at all.                                                     *)
LEMMA StepwiseMonotone ==
  ASSUME NEW n \in Nat, NEW f \in [1..n -> Int],
         \A i \in 2..n : f[i - 1] <= f[i],
         NEW i \in 1..n, NEW j \in 1..n, i <= j
  PROVE  f[i] <= f[j]
<1> DEFINE Falls == {k \in i..n : f[k] < f[i]}
<1>1. CASE Falls = {}
  <2>0. j \notin Falls
    <3> HIDE DEF Falls
    <3> QED
      BY <1>1
  <2>1. j \in i..n /\ ~ (f[j] < f[i])
    BY <2>0
  <2>2. f[i] \in Int /\ f[j] \in Int
    OBVIOUS
  <2> QED
    BY <2>1, <2>2
<1>2. CASE Falls # {}
  <2>1. Falls \in SUBSET Nat
    OBVIOUS
  <2>2. PICK m \in Falls : \A x \in Falls : m <= x
    <3> HIDE DEF Falls
    <3> QED
      BY <1>2, <2>1, LeastNatural
  <2>3. m \in i..n /\ f[m] < f[i] /\ m # i
    BY <2>2
  <2>4. m - 1 \in i..n /\ m \in 2..n
    BY <2>3
  <2>5. m - 1 \notin Falls
    BY <2>2, <2>4
  <2> QED
    BY <2>3, <2>4, <2>5
<1> QED
  BY <1>1, <1>2

(* Every interval of a visit is typed, carries the staff member of the     *)
(* visit and lies between its occupied start and its occupied end: the     *)
(* window loadOccupiedOverlapping reads misses none of them.               *)
THEOREM ChainWithinWindow ==
  ASSUME NEW parts, WellFormedChain(parts), NEW at \in Int, NEW staff,
         NEW iv \in ChainIntervals(at, parts, staff)
  PROVE  /\ iv.start \in Int /\ iv.end \in Int
         /\ \E i \in 1..Len(parts) : iv.svc = parts[i].svc
         /\ iv.staff = staff
         /\ iv = [start |-> iv.start, end |-> iv.end, svc |-> iv.svc, staff |-> staff]
         /\ ChainOccupiedStart(at, parts) <= iv.start
         /\ iv.end <= ChainOccupiedEnd(at, parts)
<1> DEFINE n == Len(parts)
           c == ChainCursor(at, parts)
           opens  == [i \in 1..n |-> c[i] + FirstSegment(parts[i].segments).offset - parts[i].before]
           closes == [i \in 1..n |-> OccupiedEnd(c[i], parts[i])]
<1>1. n \in Nat /\ n >= 1 /\ \A i \in 1..n : WellFormed(parts[i])
  BY DEF WellFormedChain
<1>2. /\ c \in [1..n -> Int] /\ c[1] = at
      /\ \A i \in 2..n : c[i] = OccupiedEnd(c[i - 1], parts[i - 1]) + parts[i].before
  BY CursorFollowsChain
<1> HIDE DEF c, n
<1>3. \A i \in 1..n : opens[i] \in Int /\ closes[i] \in Int /\ opens[i] <= closes[i]
  <2> SUFFICES ASSUME NEW i \in 1..n
               PROVE  opens[i] \in Int /\ closes[i] \in Int /\ opens[i] <= closes[i]
    OBVIOUS
  <2>1. WellFormed(parts[i]) /\ c[i] \in Int
    BY <1>1, <1>2
  <2>2. /\ OccupiedEnd(c[i], parts[i]) \in Int
        /\ c[i] + FirstSegment(parts[i].segments).offset - parts[i].before \in Int
        /\ c[i] + FirstSegment(parts[i].segments).offset - parts[i].before
             < OccupiedEnd(c[i], parts[i])
    BY <2>1, ServiceEndType
  <2> QED
    BY <2>2
<1>4. \A i \in 2..n : closes[i - 1] <= opens[i]
  <2> SUFFICES ASSUME NEW i \in 2..n PROVE closes[i - 1] <= opens[i]
    OBVIOUS
  <2>1. i - 1 \in 1..n /\ i \in 1..n
    BY <1>1
  <2>2. c[i] = closes[i - 1] + parts[i].before
    BY <1>2, <2>1
  <2>3. FirstSegment(parts[i].segments).offset \in Nat
    <3>1. FirstSegment(parts[i].segments) \in [offset : Nat, dur : Nat \ {0}]
      BY <1>1, <2>1, FirstSegmentIsFirst DEF WellFormed
    <3> QED
      BY <3>1
  <2>4. parts[i].before \in Nat
    BY <1>1, <2>1 DEF WellFormed
  <2>5. opens[i] = c[i] + FirstSegment(parts[i].segments).offset - parts[i].before
    BY <2>1
  <2>6. closes[i - 1] \in Int
    BY <1>3, <2>1
  <2> HIDE DEF opens, closes
  <2> QED
    BY <2>2, <2>3, <2>4, <2>5, <2>6
<1>5. /\ opens \in [1..n -> Int] /\ closes \in [1..n -> Int]
  BY <1>3
<1>6. PICK i \in 1..n : iv \in ServiceIntervals(c[i], parts[i], staff)
  BY DEF ChainIntervals, c, n
<1>7. /\ iv.start \in Int /\ iv.end \in Int
      /\ iv.svc = parts[i].svc /\ iv.staff = staff
      /\ iv = [start |-> iv.start, end |-> iv.end, svc |-> iv.svc, staff |-> staff]
      /\ opens[i] <= iv.start /\ iv.end <= closes[i]
  BY <1>1, <1>2, <1>6, ServiceWithinWindow
<1>8. ChainOccupiedStart(at, parts) = opens[1] /\ ChainOccupiedEnd(at, parts) = closes[n]
  BY <1>1, <1>2 DEF ChainOccupiedStart, ChainOccupiedEnd, c, n
<1> HIDE DEF opens, closes
<1>9. opens[1] <= opens[i]
  <2>1. \A k \in 2..n : opens[k - 1] <= opens[k]
    <3> SUFFICES ASSUME NEW k \in 2..n PROVE opens[k - 1] <= opens[k]
      OBVIOUS
    <3>1. k - 1 \in 1..n /\ k \in 1..n
      BY <1>1
    <3> QED
      BY <1>3, <1>4, <3>1
  <2> QED
    <3>1. 1 \in 1..n /\ 1 <= i
      BY <1>1
    <3> QED
      BY <1>1, <1>5, <2>1, <3>1, StepwiseMonotone
<1>10. closes[i] <= closes[n]
  <2>1. \A k \in 2..n : closes[k - 1] <= closes[k]
    <3> SUFFICES ASSUME NEW k \in 2..n PROVE closes[k - 1] <= closes[k]
      OBVIOUS
    <3>1. k - 1 \in 1..n /\ k \in 1..n
      BY <1>1
    <3> QED
      BY <1>3, <1>4, <3>1
  <2> QED
    <3>1. n \in 1..n /\ i <= n
      BY <1>1
    <3> QED
      BY <1>1, <1>5, <2>1, <3>1, StepwiseMonotone
<1>11. 1 \in 1..n /\ n \in 1..n
  BY <1>1
<1>12. /\ ChainOccupiedStart(at, parts) <= iv.start
       /\ iv.end <= ChainOccupiedEnd(at, parts)
  BY <1>3, <1>7, <1>8, <1>9, <1>10, <1>11
<1> QED
  BY <1>7, <1>12 DEF n

(* Each interval a visit occupies has a length, and there is one.          *)
LEMMA ServiceIntervalsHaveLength ==
  ASSUME NEW part, WellFormed(part), NEW at \in Int, NEW staff
  PROVE  /\ ServiceIntervals(at, part, staff) # {}
         /\ \A iv \in ServiceIntervals(at, part, staff) :
              iv.start \in Int /\ iv.end \in Int /\ iv.start < iv.end
<1>1. part.segments # {} /\ part.before \in Nat /\ part.after \in Nat
      /\ \A s \in part.segments : s.offset \in Nat /\ s.dur \in Nat /\ s.dur > 0
  BY DEF WellFormed
<1>2. PICK first, last : first = FirstSegment(part.segments) /\ last = LastSegment(part.segments)
  OBVIOUS
<1>3. ServiceIntervals(at, part, staff) =
        {[start |-> at + s.offset - (IF s = first THEN part.before ELSE 0),
          end   |-> at + s.offset + s.dur + (IF s = last THEN part.after ELSE 0),
          svc   |-> part.svc, staff |-> staff] : s \in part.segments}
  BY <1>2 DEF ServiceIntervals
<1>4. ASSUME NEW s \in part.segments, NEW iv,
             iv = [start |-> at + s.offset - (IF s = first THEN part.before ELSE 0),
                   end   |-> at + s.offset + s.dur + (IF s = last THEN part.after ELSE 0),
                   svc   |-> part.svc, staff |-> staff]
      PROVE  iv.start \in Int /\ iv.end \in Int /\ iv.start < iv.end
  <2>1. s.offset \in Nat /\ s.dur \in Nat /\ s.dur > 0 /\ part.before \in Nat /\ part.after \in Nat
    BY <1>1
  <2>2. /\ iv.start = at + s.offset - (IF s = first THEN part.before ELSE 0)
        /\ iv.end = at + s.offset + s.dur + (IF s = last THEN part.after ELSE 0)
    BY <1>4
  <2> QED
    BY <2>1, <2>2
<1>5. ServiceIntervals(at, part, staff) # {}
  BY <1>1, <1>3
<1> QED
  BY <1>3, <1>4, <1>5

LEMMA IntervalsHaveLength ==
  ASSUME NEW parts, WellFormedChain(parts), NEW at \in Int, NEW staff
  PROVE  /\ ChainIntervals(at, parts, staff) # {}
         /\ \A iv \in ChainIntervals(at, parts, staff) :
              iv.start \in Int /\ iv.end \in Int /\ iv.start < iv.end
<1>1. PICK n, c : n = Len(parts) /\ c = ChainCursor(at, parts)
  OBVIOUS
<1>2. n \in Nat /\ n >= 1 /\ \A i \in 1..n : c[i] \in Int /\ WellFormed(parts[i])
  <2>1. c \in [1..n -> Int]
    BY <1>1, CursorFollowsChain
  <2> QED
    BY <1>1, <2>1 DEF WellFormedChain
<1>3. ChainIntervals(at, parts, staff)
        = UNION {ServiceIntervals(c[i], parts[i], staff) : i \in 1..n}
  BY <1>1 DEF ChainIntervals
<1>4. \A i \in 1..n :
        /\ ServiceIntervals(c[i], parts[i], staff) # {}
        /\ \A iv \in ServiceIntervals(c[i], parts[i], staff) :
             iv.start \in Int /\ iv.end \in Int /\ iv.start < iv.end
  BY <1>2, ServiceIntervalsHaveLength
<1>5. ServiceIntervals(c[1], parts[1], staff) # {} /\ 1 \in 1..n
  BY <1>2, <1>4
<1> QED
  BY <1>3, <1>4, <1>5

(* chainServiceDurationMin and computeChainOccupancy, two loops over the   *)
(* chain, agree on how long a visit takes.                                 *)
LEMMA DurationIsServiceTime ==
  ASSUME NEW parts, WellFormedChain(parts), NEW at \in Int
  PROVE  /\ ChainDuration(parts) \in Int
         /\ ChainServiceEnd(at, parts) = at + ChainDuration(parts)
<1>1. PICK n, c : n = Len(parts) /\ c = ChainCursor(at, parts)
  OBVIOUS
<1>2. n \in Nat /\ n >= 1 /\ \A i \in 1..n : c[i] \in Int /\ WellFormed(parts[i])
  <2>1. c \in [1..n -> Int]
    BY <1>1, CursorFollowsChain
  <2> QED
    BY <1>1, <2>1 DEF WellFormedChain
<1>3. c[1] = at /\ \A i \in 2..n : c[i] = OccupiedEnd(c[i - 1], parts[i - 1]) + parts[i].before
  BY <1>1, CursorFollowsChain
<1>4. PICK length : length = [i \in 1..n |-> LastSegment(parts[i].segments).offset
                                          + LastSegment(parts[i].segments).dur]
  OBVIOUS
<1>5. \A i \in 1..n : /\ length[i] \in Int /\ parts[i].after \in Int /\ parts[i].before \in Int
                      /\ ServiceEnd(c[i], parts[i]) = c[i] + length[i]
                      /\ OccupiedEnd(c[i], parts[i]) = c[i] + length[i] + parts[i].after
  <2> SUFFICES ASSUME NEW i \in 1..n
               PROVE  /\ length[i] \in Int /\ parts[i].after \in Int /\ parts[i].before \in Int
                      /\ ServiceEnd(c[i], parts[i]) = c[i] + length[i]
                      /\ OccupiedEnd(c[i], parts[i]) = c[i] + length[i] + parts[i].after
    OBVIOUS
  <2>1. LastSegment(parts[i].segments) \in [offset : Nat, dur : Nat \ {0}]
        /\ parts[i].after \in Nat /\ parts[i].before \in Nat
    BY <1>2, LastSegmentIsLast DEF WellFormed
  <2>2. PICK l : l = LastSegment(parts[i].segments)
    OBVIOUS
  <2>3. length[i] = l.offset + l.dur /\ l.offset \in Nat /\ l.dur \in Nat
    BY <1>4, <2>1, <2>2
  <2>4. c[i] \in Int
    BY <1>2
  <2> QED
    BY <2>1, <2>2, <2>3, <2>4 DEF ServiceEnd, OccupiedEnd
<1>6. PICK g : g = [i \in 1..n |-> c[i] + length[i] - at]
  OBVIOUS
<1>7. \A i \in 1..n : g[i] \in Int
  BY <1>2, <1>5, <1>6
<1>8. \A i \in 1..n : g[i] = (IF i = 1 THEN 0 ELSE g[i - 1] + parts[i - 1].after + parts[i].before)
                            + length[i]
  <2> SUFFICES ASSUME NEW i \in 1..n
               PROVE  g[i] = (IF i = 1 THEN 0 ELSE g[i - 1] + parts[i - 1].after + parts[i].before)
                               + length[i]
    OBVIOUS
  <2>1. CASE i = 1
    BY <1>2, <1>3, <1>5, <1>6, <2>1
  <2>2. CASE i # 1
    <3>1. i - 1 \in 1..n /\ i \in 2..n
      BY <1>2, <2>2
    <3>2. c[i] = c[i - 1] + length[i - 1] + parts[i - 1].after + parts[i].before
      BY <1>3, <1>5, <3>1
    <3>3. /\ g[i] = c[i] + length[i] - at
          /\ g[i - 1] = c[i - 1] + length[i - 1] - at
          /\ c[i] \in Int /\ c[i - 1] \in Int /\ length[i] \in Int /\ length[i - 1] \in Int
          /\ parts[i - 1].after \in Int /\ parts[i].before \in Int
      BY <1>2, <1>5, <1>6, <3>1
    <3> QED
      BY <2>2, <3>2, <3>3
  <2> QED
    BY <2>1, <2>2
<1> DEFINE next(end, i) == (IF i = 1 THEN 0 ELSE end[i - 1] + parts[i - 1].after + parts[i].before)
                             + LastSegment(parts[i].segments).offset
                             + LastSegment(parts[i].segments).dur
           Steps(end) == end = [i \in 1..n |-> next(end, i)]
<1>9. \A end : \A i \in 1..n : (\/ i = 1 \/ end[i - 1] \in Int)
        => next(end, i) = (IF i = 1 THEN 0 ELSE end[i - 1] + parts[i - 1].after + parts[i].before)
                             + length[i]
  <2> SUFFICES ASSUME NEW end, NEW i \in 1..n, i = 1 \/ end[i - 1] \in Int
               PROVE  next(end, i) =
                        (IF i = 1 THEN 0 ELSE end[i - 1] + parts[i - 1].after + parts[i].before)
                          + length[i]
    OBVIOUS
  <2>1. LastSegment(parts[i].segments).offset \in Nat /\ LastSegment(parts[i].segments).dur \in Nat
        /\ length[i] = LastSegment(parts[i].segments).offset + LastSegment(parts[i].segments).dur
    <3>1. LastSegment(parts[i].segments) \in [offset : Nat, dur : Nat \ {0}]
      BY <1>2, LastSegmentIsLast DEF WellFormed
    <3> QED
      BY <1>4, <3>1
  <2>2. i # 1 => parts[i - 1].after \in Int /\ parts[i].before \in Int
    <3>1. i # 1 => i - 1 \in 1..n
      BY <1>2
    <3> QED
      BY <1>5, <3>1
  <2>3. CASE i = 1
    BY <2>1, <2>3
  <2>4. CASE i # 1
    BY <2>1, <2>2, <2>4
  <2> QED
    BY <2>3, <2>4
<1>10. Steps(g)
  <2>1. \A i \in 1..n : g[i] = next(g, i)
    <3> SUFFICES ASSUME NEW i \in 1..n PROVE g[i] = next(g, i)
      OBVIOUS
    <3>1. i = 1 \/ g[i - 1] \in Int
      BY <1>2, <1>7
    <3> HIDE DEF next
    <3> QED
      BY <1>8, <1>9, <3>1
  <2>2. g = [i \in 1..n |-> g[i]]
    BY <1>6
  <2> HIDE DEF next
  <2> QED
    BY <2>1, <2>2
<1>11. PICK d : Steps(d) /\ ChainDuration(parts) = d[n]
  <2>1. PICK d : d = CHOOSE end : Steps(end)
    OBVIOUS
  <2>2. Steps(d)
    <3> HIDE DEF Steps
    <3> QED
      BY <1>10, <2>1, Zenon
  <2>3. ChainDuration(parts) = d[n]
    BY <1>1, <2>1 DEF ChainDuration
  <2> QED
    BY <2>2, <2>3
<1>12. \A i \in 1..n : d[i] = next(d, i)
  <2> HIDE DEF next
  <2> QED
    BY <1>11
<1> HIDE DEF next, Steps
<1>13. ASSUME NEW m \in 1..n, d[m] # g[m], \A x \in 1..n : d[x] # g[x] => m <= x PROVE FALSE
  <2>1. CASE m = 1
    BY <1>8, <1>9, <1>12, <1>13, <2>1
  <2>2. CASE m # 1
    <3>1. m - 1 \in 1..n /\ ~(m <= m - 1)
      BY <1>2, <2>2
    <3>2. d[m - 1] = g[m - 1] /\ g[m - 1] \in Int
      BY <1>7, <1>13, <3>1
    <3> QED
      BY <1>8, <1>9, <1>12, <1>13, <2>2, <3>2
  <2> QED
    BY <2>1, <2>2
<1>14. \A i \in 1..n : d[i] = g[i]
  <2> DEFINE Differ == {i \in 1..n : d[i] # g[i]}
  <2>1. CASE Differ = {}
    BY <2>1
  <2>2. CASE Differ # {}
    <3>1. Differ \in SUBSET Nat
      BY <1>2
    <3>2. PICK m \in Differ : \A x \in Differ : m <= x
      <4> HIDE DEF Differ
      <4> QED
        BY <2>2, <3>1, LeastNatural
    <3> QED
      BY <1>13, <3>2
  <2> QED
    BY <2>1, <2>2
<1>15. n \in 1..n /\ ChainDuration(parts) = c[n] + length[n] - at
  BY <1>2, <1>6, <1>11, <1>14
<1>16. ChainServiceEnd(at, parts) = c[n] + length[n] /\ c[n] \in Int /\ length[n] \in Int
  BY <1>1, <1>2, <1>5, <1>15 DEF ChainServiceEnd
<1> QED
  BY <1>15, <1>16

(* The window of a visit is one of integers.                               *)
LEMMA WindowType ==
  ASSUME NEW parts, WellFormedChain(parts), NEW at \in Int
  PROVE  ChainOccupiedStart(at, parts) \in Int /\ ChainOccupiedEnd(at, parts) \in Int
<1>1. PICK n, c : n = Len(parts) /\ c = ChainCursor(at, parts)
  OBVIOUS
<1>2. c \in [1..n -> Int]
  BY <1>1, CursorFollowsChain
<1>3. 1 \in 1..n /\ n \in 1..n /\ WellFormed(parts[1]) /\ WellFormed(parts[n]) /\ c[n] \in Int
  BY <1>1, <1>2 DEF WellFormedChain
<1> QED
  BY <1>1, <1>3, ServiceEndType DEF ChainOccupiedStart, ChainOccupiedEnd

-----------------------------------------------------------------------------
(* Sums                                                                    *)

(* Total adds one element after the other, in some order: whichever *)
(* function does so is the one it chooses.                                 *)
One(s) == CHOOSE x \in s : TRUE

(* g adds up f on every set.                                               *)
AddsUp(g, f) ==
  g = [s \in SUBSET DOMAIN f |-> IF s = {} THEN 0 ELSE f[One(s)] + g[s \ {One(s)}]]

LEMMA TotalAddsUp ==
  ASSUME NEW f, NEW g, AddsUp(g, f)
  PROVE  \E h : AddsUp(h, f) /\ Total(f) = h[DOMAIN f]
<1>1. Total(f) = (CHOOSE h : AddsUp(h, f))[DOMAIN f]
  BY Zenon DEF Total, MapThenSumSet, MapThenFoldSet, AddsUp, One
<1>2. AddsUp((CHOOSE h : AddsUp(h, f)), f)
  BY Zenon
<1> QED
  BY <1>1, <1>2, Zenon

(* There is one way to add up a finite set.                                *)
LEMMA AddsUpOnce ==
  ASSUME NEW f, IsFiniteSet(DOMAIN f), NEW g, AddsUp(g, f), NEW h, AddsUp(h, f)
  PROVE  g[DOMAIN f] = h[DOMAIN f]
<1> DEFINE Apart(n) == \E s \in SUBSET DOMAIN f : Cardinality(s) = n /\ g[s] # h[s]
<1>1. SUFFICES ASSUME g[DOMAIN f] # h[DOMAIN f] PROVE FALSE
  OBVIOUS
<1>2. \A s \in SUBSET DOMAIN f : IsFiniteSet(s) /\ Cardinality(s) \in Nat
  BY FS_Subset, FS_CardinalityType
<1>3. \A s \in SUBSET DOMAIN f :
        /\ g[s] = IF s = {} THEN 0 ELSE f[One(s)] + g[s \ {One(s)}]
        /\ h[s] = IF s = {} THEN 0 ELSE f[One(s)] + h[s \ {One(s)}]
  BY Zenon DEF AddsUp
<1>4. ASSUME NEW s \in SUBSET DOMAIN f, g[s] # h[s]
      PROVE  \E t \in SUBSET DOMAIN f : Cardinality(t) < Cardinality(s) /\ g[t] # h[t]
  <2>1. s # {}
    BY <1>3, <1>4
  <2>2. One(s) \in s
    BY <2>1 DEF One
  <2>3. g[s \ {One(s)}] # h[s \ {One(s)}]
    BY <1>3, <1>4, <2>1
  <2>4. Cardinality(s \ {One(s)}) = Cardinality(s) - 1
    BY <1>2, <2>2, FS_RemoveElement
  <2> QED
    BY <1>2, <2>3, <2>4
<1> DEFINE N == {n \in Nat : Apart(n)}
<1>5. N # {}
  BY <1>1, <1>2
<1>6. PICK n \in N : \A m \in N : n <= m
  BY <1>5, LeastNatural
<1> QED
  BY <1>2, <1>4, <1>6

LEMMA TotalIsThat ==
  ASSUME NEW f, IsFiniteSet(DOMAIN f), NEW g, AddsUp(g, f)
  PROVE  Total(f) = g[DOMAIN f]
  BY TotalAddsUp, AddsUpOnce, Zenon

(* A function on some of its domain.                                       *)
Part(f, s) == [x \in s |-> f[x]]

LEMMA AddsUpPart ==
  ASSUME NEW f, NEW g, AddsUp(g, f), NEW s \in SUBSET DOMAIN f
  PROVE  AddsUp([t \in SUBSET s |-> g[t]], Part(f, s))
<1> DEFINE p == Part(f, s)
           h == [t \in SUBSET s |-> g[t]]
<1>1. DOMAIN p = s /\ \A x \in s : p[x] = f[x]
  BY DEF Part
<1>2. ASSUME NEW t \in SUBSET s
      PROVE  h[t] = IF t = {} THEN 0 ELSE p[One(t)] + h[t \ {One(t)}]
  <2>1. g[t] = IF t = {} THEN 0 ELSE f[One(t)] + g[t \ {One(t)}]
    BY Zenon DEF AddsUp
  <2>2. t # {} => One(t) \in t
    BY DEF One
  <2>3. h[t] = g[t] /\ h[t \ {One(t)}] = g[t \ {One(t)}]
    OBVIOUS
  <2> HIDE DEF h, p
  <2> QED
    BY <1>1, <2>1, <2>2, <2>3
<1>3. h = [t \in SUBSET s |-> h[t]]
  OBVIOUS
<1> HIDE DEF h, p
<1>4. h = [t \in SUBSET DOMAIN p |-> IF t = {} THEN 0 ELSE p[One(t)] + h[t \ {One(t)}]]
  BY <1>1, <1>2, <1>3, Zenon
<1>5. AddsUp(h, p)
  BY <1>4, Zenon DEF AddsUp
<1> QED
  BY <1>5 DEF h, p

(* There is a way: a smallest part without one would get it from the part  *)
(* without one element.                                                    *)
LEMMA SumsExist ==
  ASSUME NEW f, IsFiniteSet(DOMAIN f)
  PROVE  \E g : AddsUp(g, f)
<1> DEFINE D == DOMAIN f
           Sum(s) == CHOOSE g : AddsUp(g, Part(f, s))
           Val(s) == Sum(s)[s]
           Has(s) == \E g : AddsUp(g, Part(f, s))
<1>1. \A s \in SUBSET D : IsFiniteSet(s) /\ Cardinality(s) \in Nat /\ DOMAIN Part(f, s) = s
  BY FS_Subset, FS_CardinalityType DEF Part
<1>2. ASSUME NEW s \in SUBSET D, Has(s), s # {}, Has(s \ {One(s)})
      PROVE  Val(s) = f[One(s)] + Val(s \ {One(s)})
  <2>1. PICK r : r = s \ {One(s)}
    OBVIOUS
  <2>2. One(s) \in s /\ r \in SUBSET s /\ r \in SUBSET D
    BY <1>2, <2>1 DEF One
  <2>3. AddsUp(Sum(s), Part(f, s)) /\ AddsUp(Sum(r), Part(f, r))
    BY <1>2, <2>1, Zenon
  <2>4. Part(Part(f, s), r) = Part(f, r)
    BY <2>2 DEF Part
  <2>5. AddsUp([t \in SUBSET r |-> Sum(s)[t]], Part(f, r))
    <3>1. r \in SUBSET DOMAIN Part(f, s)
      BY <1>1, <2>2
    <3> HIDE DEF Sum
    <3> QED
      BY <2>3, <2>4, <3>1, AddsUpPart
  <2>6. Sum(s)[r] = Val(r)
    <3>1. IsFiniteSet(DOMAIN Part(f, r)) /\ DOMAIN Part(f, r) = r
      BY <1>1, <2>2
    <3> HIDE DEF Sum
    <3>2. [t \in SUBSET r |-> Sum(s)[t]][r] = Sum(r)[r]
      BY <2>3, <2>5, <3>1, AddsUpOnce
    <3> QED
      BY <3>2
  <2>7. Sum(s)[s] = Part(f, s)[One(s)] + Sum(s)[r]
    <3> HIDE DEF Sum
    <3>1. \A t \in SUBSET DOMAIN Part(f, s) :
             Sum(s)[t] = IF t = {} THEN 0 ELSE Part(f, s)[One(t)] + Sum(s)[t \ {One(t)}]
      BY <2>3, Zenon DEF AddsUp
    <3> QED
      BY <1>1, <1>2, <2>1, <3>1
  <2>8. Part(f, s)[One(s)] = f[One(s)]
    BY <2>2 DEF Part
  <2> QED
    BY <2>1, <2>6, <2>7, <2>8
<1>3. Has({})
  <2>1. AddsUp([s \in SUBSET {} |-> 0], Part(f, {}))
    <3>1. DOMAIN Part(f, {}) = {}
      BY DEF Part
    <3>2. [s \in SUBSET {} |-> 0] = [s \in SUBSET {} |-> IF s = {} THEN 0 ELSE Part(f, {})[One(s)] + [t \in SUBSET {} |-> 0][s \ {One(s)}]]
      OBVIOUS
    <3> QED
      BY <3>1, <3>2, Zenon DEF AddsUp
  <2> QED
    BY <2>1
<1>4. \A s \in SUBSET D : Has(s) => (s = {} => Val(s) = 0)
  <2> SUFFICES ASSUME NEW s \in SUBSET D, Has(s), s = {} PROVE Val(s) = 0
    OBVIOUS
  <2>1. AddsUp(Sum(s), Part(f, s))
    BY Zenon
  <2> HIDE DEF Sum
  <2> QED
    BY <1>1, <2>1, Zenon DEF AddsUp
<1> HIDE DEF Has, Val
<1>5. ASSUME NEW s \in SUBSET D, \A r \in SUBSET D : Cardinality(r) < Cardinality(s) => Has(r)
      PROVE  Has(s)
  <2> DEFINE p == Part(f, s)
             h == [t \in SUBSET s |-> IF t = {} THEN 0 ELSE f[One(t)] + Val(t \ {One(t)})]
  <2>1. \A t \in SUBSET s : t # {} =>
          /\ One(t) \in t /\ t \ {One(t)} \in SUBSET s
          /\ Cardinality(t \ {One(t)}) < Cardinality(s)
    <3> SUFFICES ASSUME NEW t \in SUBSET s, t # {}
                 PROVE  /\ One(t) \in t /\ t \ {One(t)} \in SUBSET s
                        /\ Cardinality(t \ {One(t)}) < Cardinality(s)
      OBVIOUS
    <3>1. One(t) \in t
      BY DEF One
    <3>2. Cardinality(t) <= Cardinality(s) /\ IsFiniteSet(t) /\ Cardinality(t) \in Nat
      BY <1>1, FS_Subset
    <3>3. Cardinality(t \ {One(t)}) = Cardinality(t) - 1
      BY <3>1, <3>2, FS_RemoveElement
    <3> QED
      BY <1>1, <3>1, <3>2, <3>3
  <2>2. \A t \in SUBSET s : t # s => h[t] = Val(t)
    <3> SUFFICES ASSUME NEW t \in SUBSET s, t # s PROVE h[t] = Val(t)
      OBVIOUS
    <3>1. Cardinality(t) < Cardinality(s)
      BY <1>1, FS_Subset
    <3>2. Has(t) /\ (t # {} => Has(t \ {One(t)}))
      BY <1>5, <2>1, <3>1
    <3> QED
      BY <1>2, <1>4, <3>2
  <2>3. ASSUME NEW t \in SUBSET s
        PROVE  h[t] = IF t = {} THEN 0 ELSE p[One(t)] + h[t \ {One(t)}]
    <3>1. t # {} => h[t \ {One(t)}] = Val(t \ {One(t)})
      BY <2>1, <2>2
    <3>2. t # {} => p[One(t)] = f[One(t)]
      BY <2>1 DEF Part
    <3> HIDE DEF p
    <3> QED
      BY <3>1, <3>2
  <2>4. DOMAIN p = s /\ h = [t \in SUBSET s |-> h[t]]
    BY <1>1
  <2> HIDE DEF h, p
  <2>5. h = [t \in SUBSET DOMAIN p |-> IF t = {} THEN 0 ELSE p[One(t)] + h[t \ {One(t)}]]
    BY <2>3, <2>4, Zenon
  <2>6. AddsUp(h, p)
    BY <2>5, Zenon DEF AddsUp
  <2> QED
    BY <2>6 DEF Has, p
<1> DEFINE N == {n \in Nat : \E s \in SUBSET D : Cardinality(s) = n /\ ~ Has(s)}
<1>6. N = {}
  <2> SUFFICES ASSUME N # {} PROVE FALSE
    OBVIOUS
  <2>1. PICK n \in N : \A m \in N : n <= m
    BY LeastNatural
  <2>2. PICK s \in SUBSET D : Cardinality(s) = n /\ ~ Has(s)
    OBVIOUS
  <2>3. \A r \in SUBSET D : Cardinality(r) < Cardinality(s) => Has(r)
    BY <1>1, <2>1, <2>2
  <2> QED
    BY <1>5, <2>2, <2>3
<1>7. Has(D)
  BY <1>1, <1>6
<1>8. PICK g : AddsUp(g, Part(f, D))
  BY <1>7 DEF Has
<1>9. \A x \in DOMAIN f : Part(f, D)[x] = f[x]
  BY DEF Part
<1>10. DOMAIN Part(f, D) = DOMAIN f
  BY <1>1
<1>11. ASSUME NEW s \in SUBSET DOMAIN f
       PROVE  (IF s = {} THEN 0 ELSE Part(f, D)[One(s)] + g[s \ {One(s)}])
                = IF s = {} THEN 0 ELSE f[One(s)] + g[s \ {One(s)}]
  <2>1. s # {} => One(s) \in s
    BY DEF One
  <2> QED
    BY <1>9, <2>1
<1>12. g = [s \in SUBSET DOMAIN f |-> IF s = {} THEN 0 ELSE f[One(s)] + g[s \ {One(s)}]]
  <2>1. g = [s \in SUBSET DOMAIN f |-> IF s = {} THEN 0 ELSE Part(f, D)[One(s)] + g[s \ {One(s)}]]
    BY <1>8, <1>10, Zenon DEF AddsUp
  <2> QED
    BY <1>11, <2>1, Zenon
<1> QED
  BY <1>12, Zenon DEF AddsUp

(* Of ones, noughts and minus ones: how many there are.                    *)
Ones(f, s, v) == {x \in s : f[x] = v}

LEMMA TotalOfOnes ==
  ASSUME NEW f, IsFiniteSet(DOMAIN f), \A x \in DOMAIN f : f[x] \in {-1, 0, 1}
  PROVE  Total(f) = Cardinality({x \in DOMAIN f : f[x] = 1})
                      - Cardinality({x \in DOMAIN f : f[x] = -1})
<1> DEFINE D == DOMAIN f
           Count(s) == Cardinality(Ones(f, s, 1)) - Cardinality(Ones(f, s, -1))
           g == [s \in SUBSET D |-> Count(s)]
<1>1. ASSUME NEW s \in SUBSET D, s # {}
      PROVE  Count(s) = f[One(s)] + Count(s \ {One(s)})
  <2>1. PICK x : x = One(s)
    OBVIOUS
  <2>2. x \in s /\ x \in DOMAIN f
    BY <1>1, <2>1 DEF One
  <2>3. ASSUME NEW v \in {-1, 1}
        PROVE  /\ IsFiniteSet(Ones(f, s, v)) /\ Cardinality(Ones(f, s, v)) \in Nat
               /\ f[x] # v => Ones(f, s \ {x}, v) = Ones(f, s, v)
               /\ f[x] = v => Cardinality(Ones(f, s \ {x}, v)) = Cardinality(Ones(f, s, v)) - 1
    <3>1. IsFiniteSet(Ones(f, s, v)) /\ Cardinality(Ones(f, s, v)) \in Nat
      BY FS_Subset, FS_CardinalityType DEF Ones
    <3>2. f[x] # v => Ones(f, s \ {x}, v) = Ones(f, s, v)
      BY DEF Ones
    <3>3. f[x] = v => x \in Ones(f, s, v) /\ Ones(f, s \ {x}, v) = Ones(f, s, v) \ {x}
      BY <2>2 DEF Ones
    <3>4. PICK T : T = Ones(f, s, v)
      OBVIOUS
    <3>5. f[x] = v => Cardinality(T \ {x}) = Cardinality(T) - 1
      BY <3>1, <3>3, <3>4, FS_RemoveElement
    <3> QED
      BY <3>1, <3>2, <3>3, <3>4, <3>5
  <2>4. f[x] \in {-1, 0, 1}
    BY <2>2
  <2>5. Count(s) = f[x] + Count(s \ {x})
    BY <2>3, <2>4
  <2> QED
    BY <2>1, <2>5
<1>2. Count({}) = 0
  <2>1. Ones(f, {}, 1) = {} /\ Ones(f, {}, -1) = {}
    BY DEF Ones
  <2> QED
    BY <2>1, FS_EmptySet
<1>3. \A s \in SUBSET D : g[s] = Count(s)
  OBVIOUS
<1> HIDE DEF Count
<1>4. ASSUME NEW s \in SUBSET D
      PROVE  Count(s) = IF s = {} THEN 0 ELSE f[One(s)] + g[s \ {One(s)}]
  BY <1>1, <1>2, <1>3, <1>4
<1>5. g = [s \in SUBSET D |-> IF s = {} THEN 0 ELSE f[One(s)] + g[s \ {One(s)}]]
  BY <1>4, Zenon
<1>6. AddsUp(g, f)
  BY <1>5, Zenon DEF AddsUp
<1>7. D \in SUBSET D
  OBVIOUS
<1>8. Total(f) = Count(D)
  BY <1>3, <1>6, <1>7, TotalIsThat
<1> QED
  BY <1>8 DEF Count, Ones

LEMMA TotalOfOne ==
  ASSUME NEW f, NEW a, DOMAIN f = {a}, f[a] \in Int
  PROVE  Total(f) = f[a]
<1> DEFINE g == [s \in SUBSET DOMAIN f |-> IF s = {} THEN 0 ELSE f[a]]
<1>1. IsFiniteSet(DOMAIN f)
  BY FS_Singleton
<1>2. ASSUME NEW s \in SUBSET DOMAIN f
      PROVE  (IF s = {} THEN 0 ELSE f[a]) = IF s = {} THEN 0 ELSE f[One(s)] + g[s \ {One(s)}]
  <2>1. CASE s = {}
    BY <2>1
  <2>2. CASE s = {a}
    <3>1. One(s) = a
      BY <2>2 DEF One
    <3>2. s \ {One(s)} = {} /\ {} \in SUBSET DOMAIN f
      BY <2>2, <3>1
    <3>3. g[s \ {One(s)}] = 0 /\ f[One(s)] + 0 = f[a]
      BY <3>1, <3>2
    <3> HIDE DEF g
    <3> QED
      BY <2>2, <3>1, <3>3
  <2> QED
    BY <2>1, <2>2
<1>3. g = [s \in SUBSET DOMAIN f |-> IF s = {} THEN 0 ELSE f[One(s)] + g[s \ {One(s)}]]
  BY <1>2, Zenon
<1>4. AddsUp(g, f)
  BY <1>3, Zenon DEF AddsUp
<1>5. g[DOMAIN f] = f[a]
  OBVIOUS
<1> HIDE DEF g
<1> QED
  BY <1>1, <1>4, <1>5, TotalIsThat

(* What holds of no element, and of one element more, holds of all.        *)
LEMMA OneByOne ==
  ASSUME NEW D, IsFiniteSet(D), NEW P, {} \in P,
         \A s \in SUBSET D : \A x \in s : s \ {x} \in P => s \in P
  PROVE  D \in P
<1> DEFINE N == {n \in Nat : \E s \in SUBSET D : Cardinality(s) = n /\ s \notin P}
<1>1. \A s \in SUBSET D : IsFiniteSet(s) /\ Cardinality(s) \in Nat
  BY FS_Subset, FS_CardinalityType
<1>2. SUFFICES ASSUME N # {} PROVE FALSE
  BY <1>1
<1>3. PICK n \in N : \A m \in N : n <= m
  BY <1>2, LeastNatural
<1>4. PICK s \in SUBSET D : Cardinality(s) = n /\ s \notin P
  BY <1>3
<1>5. PICK x \in s : TRUE
  BY <1>4
<1>6. s \ {x} \in SUBSET D /\ Cardinality(s \ {x}) = Cardinality(s) - 1
  BY <1>1, FS_RemoveElement
<1> QED
  BY <1>1, <1>3, <1>4, <1>5, <1>6

LEMMA TotalOfNone ==
  ASSUME NEW f, DOMAIN f = {}
  PROVE  Total(f) = 0
<1>1. IsFiniteSet(DOMAIN f)
  BY FS_EmptySet
<1>2. PICK g : AddsUp(g, f)
  BY <1>1, SumsExist
<1>3. g[DOMAIN f] = 0
  BY <1>2, Zenon DEF AddsUp
<1> QED
  BY <1>1, <1>2, <1>3, TotalIsThat

LEMMA TotalOfPart ==
  ASSUME NEW f, IsFiniteSet(DOMAIN f), NEW g, AddsUp(g, f), NEW s \in SUBSET DOMAIN f
  PROVE  Total(Part(f, s)) = g[s]
<1>1. DOMAIN Part(f, s) = s /\ IsFiniteSet(s)
  BY FS_Subset DEF Part
<1>2. AddsUp([t \in SUBSET s |-> g[t]], Part(f, s))
  BY AddsUpPart
<1>3. Total(Part(f, s)) = [t \in SUBSET s |-> g[t]][s]
  BY <1>1, <1>2, TotalIsThat
<1> QED
  BY <1>3

Whole(f) == IsFiniteSet(DOMAIN f) /\ f \in [DOMAIN f -> Int]

(* The order does not matter: any element may be the last.                 *)
LEMMA TotalRemoves ==
  ASSUME NEW f, Whole(f)
  PROVE  /\ Total(f) \in Int
         /\ \A x \in DOMAIN f : Total(f) = f[x] + Total(Part(f, DOMAIN f \ {x}))
<1> DEFINE D == DOMAIN f
<1>1. PICK g : AddsUp(g, f)
  BY SumsExist DEF Whole
<1> DEFINE P == {s \in SUBSET D : g[s] \in Int /\ \A x \in s : g[s] = f[x] + g[s \ {x}]}
<1>2. \A s \in SUBSET D : g[s] = IF s = {} THEN 0 ELSE f[One(s)] + g[s \ {One(s)}]
  BY <1>1, Zenon DEF AddsUp
<1> DEFINE N == {n \in Nat : \E s \in SUBSET D : Cardinality(s) = n /\ s \notin P}
<1>3. \A s \in SUBSET D : IsFiniteSet(s) /\ Cardinality(s) \in Nat
  BY FS_Subset, FS_CardinalityType DEF Whole
<1>4. ASSUME NEW s \in SUBSET D, \A r \in SUBSET D : Cardinality(r) < Cardinality(s) => r \in P
      PROVE  s \in P
  <2>1. CASE s = {}
    <3>1. g[s] = 0
      BY <1>2, <2>1
    <3> QED
      BY <2>1, <3>1
  <2>2. CASE s # {}
    <3>1. PICK c \in s : c = One(s)
      BY <2>2 DEF One
    <3>2. \A x \in s : s \ {x} \in SUBSET D /\ Cardinality(s \ {x}) = Cardinality(s) - 1
      BY <1>3, FS_RemoveElement
    <3>3. \A x \in s : s \ {x} \in P
      BY <1>3, <1>4, <3>2
    <3>4. g[s] = f[c] + g[s \ {c}]
      BY <1>2, <2>2, <3>1
    <3>5. f[c] \in Int /\ g[s \ {c}] \in Int
      BY <3>3 DEF Whole
    <3>6. ASSUME NEW x \in s, x # c
          PROVE  g[s] = f[x] + g[s \ {x}]
      <4>1. PICK r : r = s \ {c, x}
        OBVIOUS
      <4>2. (s \ {c}) \ {x} = r /\ (s \ {x}) \ {c} = r /\ x \in s \ {c} /\ c \in s \ {x}
        BY <3>6, <4>1
      <4>3. g[s \ {c}] = f[x] + g[r] /\ g[s \ {x}] = f[c] + g[r]
        BY <3>3, <4>2
      <4>4. r \in P
        <5>1. Cardinality(r) < Cardinality(s)
          <6>1. IsFiniteSet(s \ {c}) /\ x \in s \ {c}
            BY <1>3, <3>2, <4>2
          <6>2. Cardinality((s \ {c}) \ {x}) = Cardinality(s \ {c}) - 1
            BY <6>1, FS_RemoveElement
          <6>3. Cardinality(r) = Cardinality(s \ {c}) - 1
            BY <4>2, <6>2
          <6> QED
            BY <1>3, <3>2, <6>3
        <5> QED
          BY <1>4, <4>1, <5>1
      <4>5. f[x] \in Int /\ g[r] \in Int
        BY <4>4 DEF Whole
      <4> QED
        BY <3>4, <3>5, <4>3, <4>5
    <3>7. g[s] \in Int
      BY <3>4, <3>5
    <3> QED
      BY <3>4, <3>6, <3>7
  <2> QED
    BY <2>1, <2>2
<1>5. N = {}
  <2> SUFFICES ASSUME N # {} PROVE FALSE
    OBVIOUS
  <2>1. PICK n \in N : \A m \in N : n <= m
    BY LeastNatural
  <2>2. PICK s \in SUBSET D : Cardinality(s) = n /\ s \notin P
    OBVIOUS
  <2>3. \A r \in SUBSET D : Cardinality(r) < Cardinality(s) => r \in P
    BY <1>3, <2>1, <2>2
  <2> QED
    BY <1>4, <2>2, <2>3
<1>6. D \in P
  BY <1>3, <1>5
<1>7. Total(f) = g[D]
  BY <1>1, TotalIsThat DEF Whole
<1>8. \A x \in D : Total(Part(f, D \ {x})) = g[D \ {x}]
  <2> SUFFICES ASSUME NEW x \in D PROVE Total(Part(f, D \ {x})) = g[D \ {x}]
    OBVIOUS
  <2>1. D \ {x} \in SUBSET DOMAIN f
    OBVIOUS
  <2> QED
    BY <1>1, <2>1, TotalOfPart DEF Whole
<1> QED
  BY <1>6, <1>7, <1>8

LEMMA WholePart ==
  ASSUME NEW f, Whole(f), NEW s \in SUBSET DOMAIN f
  PROVE  Whole(Part(f, s)) /\ DOMAIN Part(f, s) = s
  BY FS_Subset DEF Whole, Part

LEMMA TotalOfNats ==
  ASSUME NEW f, Whole(f), \A x \in DOMAIN f : f[x] \in Nat
  PROVE  Total(f) \in Nat
<1> DEFINE P == {s \in SUBSET DOMAIN f : Total(Part(f, s)) \in Nat}
<1>1. {} \in P
  <2>1. Total(Part(f, {})) = 0
    BY TotalOfNone DEF Part
  <2> QED
    BY <2>1
<1>2. ASSUME NEW s \in SUBSET DOMAIN f, NEW x \in s, s \ {x} \in P
      PROVE  s \in P
  <2>1. Part(f, s)[x] = f[x] /\ Part(Part(f, s), s \ {x}) = Part(f, s \ {x})
    BY DEF Part
  <2>2. Total(Part(f, s)) = f[x] + Total(Part(f, s \ {x}))
    BY <2>1, WholePart, TotalRemoves
  <2> QED
    BY <1>2, <2>2
<1>3. DOMAIN f \in P
  <2> HIDE DEF P
  <2> QED
    BY <1>1, <1>2, OneByOne DEF Whole
<1>4. Part(f, DOMAIN f) = f
  BY DEF Part, Whole
<1> QED
  BY <1>3, <1>4

(* Sums of the parts of a set, each element in the part named by p.        *)
LEMMA TotalSplits ==
  ASSUME NEW f, Whole(f), NEW K, IsFiniteSet(K), NEW p, \A x \in DOMAIN f : p[x] \in K
  PROVE  Total(f) = Total([k \in K |-> Total(Part(f, {x \in DOMAIN f : p[x] = k}))])
<1> DEFINE D == DOMAIN f
           G(s) == [k \in K |-> Total(Part(f, {x \in s : p[x] = k}))]
           P == {s \in SUBSET D : Total(Part(f, s)) = Total(G(s))}
<1>1. \A s \in SUBSET D : Whole(G(s)) /\ DOMAIN G(s) = K
  <2>1. \A s \in SUBSET D : Total(Part(f, s)) \in Int
    BY WholePart, TotalRemoves
  <2>2. \A s \in SUBSET D : \A k : {x \in s : p[x] = k} \in SUBSET D
    OBVIOUS
  <2> QED
    BY <2>1, <2>2 DEF Whole
<1>2. {} \in P
  <2>1. \A k \in K : {x \in {} : p[x] = k} = {}
    OBVIOUS
  <2>2. Total(Part(f, {})) = 0
    BY TotalOfNone DEF Part
  <2>3. \A k \in K : G({})[k] = 0
    BY <2>1, <2>2
  <2>4. Total(G({})) = 0
    <3> DEFINE z == G({})
    <3>1. DOMAIN z = K /\ \A k \in K : z[k] = 0
      BY <2>3
    <3> HIDE DEF z
    <3>2. {k \in DOMAIN z : z[k] = 1} = {} /\ {k \in DOMAIN z : z[k] = -1} = {}
      BY <3>1
    <3>3. Total(z) = Cardinality({}) - Cardinality({})
      BY <3>1, <3>2, TotalOfOnes
    <3>4. Total(z) = 0
      BY <3>3, FS_EmptySet
    <3> QED
      BY <3>4 DEF z
  <2> QED
    BY <2>2, <2>4
<1>3. ASSUME NEW s \in SUBSET D, NEW x \in s, s \ {x} \in P
      PROVE  s \in P
  <2>1. PICK r : r = s \ {x}
    OBVIOUS
  <2>2. PICK k : k = p[x]
    OBVIOUS
  <2>3. k \in K /\ r \in SUBSET D
    BY <2>1, <2>2
  <2>4. f[x] \in Int
    BY DEF Whole
  <2>5. Total(Part(f, s)) = f[x] + Total(Part(f, r))
    <3>1. Part(f, s)[x] = f[x] /\ Part(Part(f, s), s \ {x}) = Part(f, r)
      BY <2>1 DEF Part
    <3> QED
      BY <2>1, <3>1, WholePart, TotalRemoves
  <2>6. \A j \in K \ {k} : G(s)[j] = G(r)[j]
    <3>1. \A j \in K \ {k} : {y \in s : p[y] = j} = {y \in r : p[y] = j}
      BY <2>1, <2>2
    <3> QED
      BY <3>1
  <2>7. G(s)[k] = f[x] + G(r)[k]
    <3>1. PICK t : t = {y \in s : p[y] = k}
      OBVIOUS
    <3>2. x \in t /\ t \in SUBSET D /\ t \ {x} = {y \in r : p[y] = k}
      BY <2>1, <2>2, <3>1
    <3>3. Part(f, t)[x] = f[x] /\ Part(Part(f, t), t \ {x}) = Part(f, t \ {x})
      BY <3>2 DEF Part
    <3>4. Total(Part(f, t)) = f[x] + Total(Part(f, t \ {x}))
      BY <3>2, <3>3, WholePart, TotalRemoves
    <3> QED
      BY <2>3, <3>1, <3>2, <3>4
  <2>8. PICK a, b : a = G(s) /\ b = G(r)
    OBVIOUS
  <2>9. Whole(a) /\ Whole(b) /\ DOMAIN a = K /\ DOMAIN b = K
    BY <1>1, <2>3, <2>8
  <2>10. Part(a, K \ {k}) = Part(b, K \ {k})
    <3> HIDE DEF G
    <3> QED
      BY <2>6, <2>8 DEF Part
  <2>11. Total(a) = a[k] + Total(Part(a, K \ {k})) /\ Total(b) = b[k] + Total(Part(b, K \ {k}))
    BY <2>3, <2>9, TotalRemoves
  <2>12. Total(Part(b, K \ {k})) \in Int /\ b[k] \in Int
    BY <2>3, <2>9, WholePart, TotalRemoves DEF Whole
  <2>13. a[k] = f[x] + b[k]
    <3> HIDE DEF G
    <3> QED
      BY <2>7, <2>8
  <2>14. Total(b) = Total(Part(f, r))
    <3> HIDE DEF G
    <3> QED
      BY <1>3, <2>1, <2>8
  <2>15. Total(Part(f, s)) = Total(a)
    BY <2>4, <2>5, <2>10, <2>11, <2>12, <2>13, <2>14
  <2> HIDE DEF G
  <2> QED
    BY <2>8, <2>15
<1> HIDE DEF G
<1>4. D \in P
  <2> HIDE DEF P
  <2> QED
    BY <1>2, <1>3, OneByOne DEF Whole
<1>5. Part(f, D) = f
  BY DEF Part, Whole
<1> QED
  BY <1>4, <1>5 DEF G
=============================================================================
