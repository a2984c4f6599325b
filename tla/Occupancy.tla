------------------------------ MODULE Occupancy ------------------------------
(***************************************************************************)
(* src/domain/booking/occupancy.ts: the intervals of time a booking keeps  *)
(* busy.  A part (ChainPart) is one service of the booking: a set of       *)
(* segments [offset, dur] measured from the start of the service, a buffer *)
(* before and after, and the capacity of the service.  The code sorts the  *)
(* segments by offset only to know the first and the last one, so a set    *)
(* stands for the array.  Time is an integer number of minutes (any unit). *)
(***************************************************************************)
EXTENDS Integers, Sequences, FiniteSets

(* What the service form accepts (serviceFormSchema): at least one segment, *)
(* no two that overlap, no negative buffer.                                *)
WellFormed(part) ==
  /\ part.segments # {} /\ IsFiniteSet(part.segments)
  /\ part.segments \subseteq [offset : Nat, dur : Nat \ {0}]
  /\ \A s, o \in part.segments :
       s = o \/ s.offset + s.dur <= o.offset \/ o.offset + o.dur <= s.offset
  /\ part.before \in Nat /\ part.after \in Nat /\ part.capacity \in Nat

(* A chain of services, as a non-empty sequence of well-formed parts.      *)
WellFormedChain(parts) ==
  /\ Len(parts) \in Nat \ {0}
  /\ \A i \in 1..Len(parts) : WellFormed(parts[i])

FirstSegment(segments) ==
  CHOOSE s \in segments : \A o \in segments : s.offset <= o.offset

LastSegment(segments) ==
  CHOOSE s \in segments : \A o \in segments : o.offset <= s.offset

(* applyExtraMinutes: the options of a service lengthen its last segment. *)
WithExtraMinutes(segments, extra) ==
  IF extra <= 0 THEN segments
  ELSE LET last == LastSegment(segments)
       IN  (segments \ {last}) \cup {[last EXCEPT !.dur = @ + extra]}

ServiceEnd(at, part) ==
  LET last == LastSegment(part.segments) IN at + last.offset + last.dur

OccupiedEnd(at, part) == ServiceEnd(at, part) + part.after

(* computeServiceOccupancy: one interval per segment, the buffers added at *)
(* the two ends only; the gaps between segments are not occupied.          *)
ServiceIntervals(at, part, staff) ==
  LET first == FirstSegment(part.segments)
      last  == LastSegment(part.segments)
  IN  {[start |-> at + s.offset - (IF s = first THEN part.before ELSE 0),
        end   |-> at + s.offset + s.dur + (IF s = last THEN part.after ELSE 0),
        svc   |-> part.svc,
        staff |-> staff] : s \in part.segments}

(* The cursor of computeChainOccupancy: the start of the i-th service.     *)
ChainCursor(at, parts) ==
  LET cursor[i \in 1..Len(parts)] ==
        IF i = 1 THEN at
        ELSE OccupiedEnd(cursor[i - 1], parts[i - 1]) + parts[i].before
  IN  cursor

ChainIntervals(at, parts, staff) ==
  UNION {ServiceIntervals(ChainCursor(at, parts)[i], parts[i], staff)
           : i \in 1..Len(parts)}

ChainServiceEnd(at, parts) ==
  ServiceEnd(ChainCursor(at, parts)[Len(parts)], parts[Len(parts)])

ChainOccupiedStart(at, parts) ==
  at + FirstSegment(parts[1].segments).offset - parts[1].before

(* Mutant: the buffer after the last service is forgotten.                 *)
ChainOccupiedEnd_NoBuffer(at, parts) == ChainServiceEnd(at, parts)

ChainOccupiedEnd(at, parts) ==
  OccupiedEnd(ChainCursor(at, parts)[Len(parts)], parts[Len(parts)])

(* chainServiceDurationMin: a second loop over the chain, in offsets from  *)
(* zero; the slots of a day are generated from it.                         *)
ChainDuration(parts) ==
  LET end[i \in 1..Len(parts)] ==
        (IF i = 1 THEN 0
         ELSE end[i - 1] + parts[i - 1].after + parts[i].before)
        + LastSegment(parts[i].segments).offset + LastSegment(parts[i].segments).dur
  IN  end[Len(parts)]
=============================================================================
