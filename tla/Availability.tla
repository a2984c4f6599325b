---------------------------- MODULE Availability -----------------------------
(***************************************************************************)
(* src/domain/booking/availability.ts and rules.ts: whether a start of     *)
(* a service chain can be booked, and if not, for which reason.            *)
(*                                                                         *)
(* A query is a record                                                     *)
(*   [at, parts, staff, candidates, needsStaff, enforce, now]              *)
(* with staff = NoStaff when the customer leaves the choice to the shop;   *)
(* rules is the merged ResolvedBookingRules; duty[s] is the set of working *)
(* intervals of s, open the set of opening intervals of the day, occupied  *)
(* the active items read from the database.                                *)
(***************************************************************************)
EXTENDS Occupancy, Capacity

CONSTANTS NoStaff,   \* staffId = null
          DayLen     \* length of a calendar day of the shop

DayOf(t) == t \div DayLen

(* isWithinBookingWindow, satisfiesLeadTime and isCancellable *)
WithinBookingWindow(at, now, days) ==
  at >= now /\ DayOf(at) - DayOf(now) <= days

SatisfiesLeadTime(at, now, lead) == at - now >= lead

IsCancellable(at, now, deadline) == at - now >= deadline

IsWorkingDuring(duty, staff, from, to) ==
  \E w \in duty[staff] : w.start <= from /\ to <= w.end

CandidateStarts(open, step, duration) ==
  {t \in open.start..(open.end - duration) : (t - open.start) % step = 0}

FindAvailableStaff(query, rules, duty, occupied) ==
  {s \in query.candidates :
     /\ IsWorkingDuring(duty, s, query.at, ChainServiceEnd(query.at, query.parts))
     /\ PeakOverlap(OfStaff(occupied, s),
                    ChainIntervals(query.at, query.parts, query.staff))
          < rules.staffCapacity}

(* staffRemaining > 0 *)
StaffRemains(query, rules, duty, occupied) ==
  IF query.staff # NoStaff
  THEN /\ IsWorkingDuring(duty, query.staff, query.at,
                          ChainServiceEnd(query.at, query.parts))
       /\ RemainingCapacity(rules.staffCapacity, OfStaff(occupied, query.staff),
                            ChainIntervals(query.at, query.parts, query.staff)) > 0
  ELSE \/ FindAvailableStaff(query, rules, duty, occupied) # {}
       \/ query.candidates = {} /\ ~query.needsStaff

(* staffReasonFail: nobody who could do it works then. *)
NobodyWorks(query, duty) ==
  LET working(s) == IsWorkingDuring(duty, s, query.at,
                                    ChainServiceEnd(query.at, query.parts))
  IN  IF query.staff # NoStaff THEN ~working(query.staff)
      ELSE /\ query.candidates # {} \/ query.needsStaff
           /\ \A s \in query.candidates : ~working(s)

(* Mutant: one booking more than the capacity.                             *)
ShopRemains_OffByOne(query, rules, occupied) ==
  RemainingCapacity(rules.shopCapacity, occupied,
                    ChainIntervals(query.at, query.parts, query.staff)) >= 0

ShopRemains(query, rules, occupied) ==
  RemainingCapacity(rules.shopCapacity, occupied,
                    ChainIntervals(query.at, query.parts, query.staff)) > 0

(* Mutant: only the last service of the chain is looked at.                *)
ServicesRemain_LastOnly(query, occupied) ==
  LET n == Len(query.parts)
  IN  RemainingCapacity(query.parts[n].capacity,
                        OfService(occupied, query.parts[n].svc),
                        ServiceIntervals(ChainCursor(query.at, query.parts)[n],
                                         query.parts[n], query.staff)) > 0

(* Every service of the chain against its own items and its own capacity.  *)
ServicesRemain(query, occupied) ==
  \A i \in 1..Len(query.parts) :
    RemainingCapacity(
      query.parts[i].capacity,
      OfService(occupied, query.parts[i].svc),
      ServiceIntervals(ChainCursor(query.at, query.parts)[i],
                       query.parts[i], query.staff)) > 0

IsOffered(query, rules, open) ==
  \E o \in open :
    query.at \in CandidateStarts(o, rules.slotInterval, ChainDuration(query.parts))

(* The slot of computeAvailability that starts at query.at, as the reason  *)
(* the booking service throws, or "OK".                                    *)
Verdict(query, rules, duty, open, occupied) ==
  IF ~IsOffered(query, rules, open) THEN "OUTSIDE_BUSINESS_HOURS"
  ELSE IF query.enforce /\ ~SatisfiesLeadTime(query.at, query.now, rules.leadTime)
       THEN "LEAD_TIME_VIOLATION"
  ELSE IF query.enforce /\ ~WithinBookingWindow(query.at, query.now, rules.windowDays)
       THEN "BOOKING_WINDOW_EXCEEDED"
  ELSE IF NobodyWorks(query, duty) THEN "STAFF_UNAVAILABLE"
  ELSE IF /\ ShopRemains(query, rules, occupied)
          /\ ServicesRemain(query, occupied)
          /\ StaffRemains(query, rules, duty, occupied)
       THEN "OK"
  ELSE "SLOT_FULL"
=============================================================================
