------------------------------ MODULE Capacity -------------------------------
(***************************************************************************)
(* src/domain/booking/capacity.ts: how many of a collection of half-open   *)
(* intervals [start, end) overlap at once.  An interval is a record with   *)
(* fields start and end and, for the items of bookings, enough other       *)
(* fields to tell two rows apart, so that a set stands for the array.      *)
(***************************************************************************)
EXTENDS Integers, FiniteSets, FiniteSetsExt

Covers(iv, t) == iv.start <= t /\ t < iv.end

CountCovering(intervals, t) == Cardinality({iv \in intervals : Covers(iv, t)})

Within(segments, t) == \E s \in segments : Covers(s, t)

(* Mutant: the peak is looked for where the new segments start, only.      *)
CandidateInstants_OwnStarts(existing, segments) ==
  {t \in {s.start : s \in segments} : Within(segments, t)}

(* The instants peakOverlap evaluates: the starts of the new segments and  *)
(* the starts of existing intervals that fall inside them.                 *)
CandidateInstants(existing, segments) ==
  {t \in {s.start : s \in segments} \cup {e.start : e \in existing}
     : Within(segments, t)}

PeakOverlap(existing, segments) ==
  IF CandidateInstants(existing, segments) = {} THEN 0
  ELSE Max({CountCovering(existing, t)
              : t \in CandidateInstants(existing, segments)})

RemainingCapacity(capacity, existing, segments) ==
  capacity - PeakOverlap(existing, segments)

(* loadOccupiedOverlapping: the rows that touch the window [from, to).     *)
Touching(rows, from, to) == {x \in rows : x.start < to /\ x.end > from}

OfStaff(occupied, staff) == {o \in occupied : o.staff = staff}

OfService(occupied, svc) == {o \in occupied : o.svc = svc}
=============================================================================
