-------------------------------- MODULE Slot --------------------------------
(***************************************************************************)
(* One start asked for (computeAvailability, and the recount in a          *)
(* transaction), against the rows of other bookings that have been read:   *)
(* what the verdict of module Availability promises, whatever rows there   *)
(* are.                                                                    *)
(***************************************************************************)
EXTENDS Availability

CONSTANTS
  Queries,  \* starts that may be asked for, as records of module Availability
  Rows,     \* rows other bookings may have
  MaxRows,  \* bound: rows
  Rules, Duty, Open, \* of the day, as in module Availability
  NoStart   \* nothing is asked

VARIABLES
  query,    \* the start asked for
  occupied  \* the rows of the other bookings

slotVars == <<query, occupied>>

(* A menu is in a chain once (booking-service.ts:150), a row has a length. *)
SlotAssumption ==
  /\ NoStart \notin Queries
  /\ \A q \in Queries :
       /\ q.at \in Int /\ WellFormedChain(q.parts)
       /\ \A i, j \in 1..Len(q.parts) : q.parts[i].svc = q.parts[j].svc => i = j
  /\ \A r \in Rows : r.start \in Int /\ r.end \in Int /\ r.start < r.end
  /\ \A o \in Open : o.start \in Int /\ o.end \in Int
  /\ Rules.shopCapacity \in Nat /\ Rules.staffCapacity \in Nat

ASSUME SlotAssumption

SlotInit == query \in Queries \cup {NoStart} /\ occupied = {}

AddRow ==
  /\ query # NoStart /\ Cardinality(occupied) < MaxRows
  /\ \E r \in Rows : occupied' = occupied \cup {r}
  /\ UNCHANGED query

SlotSpec == SlotInit /\ [][AddRow]_slotVars
-----------------------------------------------------------------------------
Asked  == ChainIntervals(query.at, query.parts, query.staff)
Answer == Verdict(query, Rules, Duty, Open, occupied)

Instants(segments) == UNION {s.start..(s.end - 1) : s \in segments}

(* peakOverlap looks at the starts of intervals only; no other instant of  *)
(* the new segments is covered by more rows.                               *)
PeakIsMaximum ==
  query # NoStart =>
    PeakOverlap(occupied, Asked) = Max({CountCovering(occupied, t) : t \in Instants(Asked)})

(* A slot that is offered can be taken: with it no instant has more rows   *)
(* than the shop or a service of the chain allows; a staff member who must *)
(* serve is at work from the start to the end and has room at each instant *)
(* of it; and the visit is over before closing (the starts are generated   *)
(* from the length that chainServiceDurationMin adds up, the end comes     *)
(* from another loop).                                                     *)
OfferedMeansItFits ==
  query # NoStart /\ Answer = "OK" =>
    /\ \A iv \in Asked : \A t \in iv.start..(iv.end - 1) :
         /\ CountCovering(occupied, t) < Rules.shopCapacity
         /\ \A i \in 1..Len(query.parts) : query.parts[i].svc = iv.svc =>
              CountCovering(OfService(occupied, iv.svc), t) < query.parts[i].capacity
    /\ query.needsStaff \/ query.staff # NoStaff =>
         \E s \in IF query.staff = NoStaff THEN query.candidates ELSE {query.staff} :
           /\ \E w \in Duty[s] : /\ w.start <= query.at
                                 /\ ChainServiceEnd(query.at, query.parts) <= w.end
           /\ \A t \in Instants(Asked) :
                CountCovering(OfStaff(occupied, s), t) < Rules.staffCapacity
    /\ \E o \in Open : o.start <= query.at /\ ChainServiceEnd(query.at, query.parts) <= o.end

(* The rows loadOccupiedOverlapping leaves unread, those outside the       *)
(* window of the chain, cannot change the verdict.                         *)
WindowReadIsEnough ==
  query # NoStart =>
    Answer = Verdict(query, Rules, Duty, Open,
                     Touching(occupied, ChainOccupiedStart(query.at, query.parts),
                              ChainOccupiedEnd(query.at, query.parts)))
=============================================================================
