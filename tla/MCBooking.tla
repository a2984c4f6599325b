------------------------------ MODULE MCBooking ------------------------------
(***************************************************************************)
(* Small shops for the booking service.  A day is 4 units of time; day 0   *)
(* is 0..3, day 1 is 4..7.                                                 *)
(***************************************************************************)
EXTENDS Booking

CONSTANTS c1, c2, c3, s1, s2, k1, ann, bob

Part(v, segs, after, cap) ==
  [svc |-> v, segments |-> segs, before |-> 0, after |-> after, capacity |-> cap]
Seg(o, d) == [offset |-> o, dur |-> d]

Span(a, b) == [start |-> a, end |-> b]

Create(m, at, staff, key, source, contact) ==
  [op |-> "create", menu |-> m, start |-> at, staff |-> staff, key |-> key,
   source |-> source, contact |-> contact]
Move(at, staff, actor) ==
  [op |-> "reschedule", start |-> at, staff |-> staff, actor |-> actor]
Cancel == [op |-> "cancel"]
SetStatus(to) == [op |-> "status", to |-> to]

MCInstant == 0..7
MCOpen    == [d \in 0..1 |-> {Span(4 * d, 4 * d + 4)}]
MCRules   == [shopCapacity |-> 2, staffCapacity |-> 1, slotInterval |-> 1,
              leadTime |-> 0, windowDays |-> 1]
MCDuty    == [s \in Staff |-> {Span(0, 4), Span(4, 8)}]

(* "wash" needs nobody; "color" has a gap between its two segments; the    *)
(* "combo" chains both; "perm" is cleaned up after for two units.           *)
MCMenu  == {"wash", "color", "combo", "perm"}
Wash    == Part("wash", {Seg(0, 2)}, 0, 1)
Color   == Part("color", {Seg(0, 1), Seg(2, 1)}, 1, 2)
MCParts == [m \in MCMenu |-> CASE m = "wash"  -> <<Wash>>
                               [] m = "color" -> <<Color>>
                               [] m = "perm"  -> <<Part("perm", {Seg(0, 1)}, 2, 1)>>
                               [] OTHER       -> <<Part("wash", {Seg(0, 1)}, 0, 1),
                                                   Part("color", {Seg(0, 1)}, 1, 2)>>]
MCNeedsStaff == {"color", "combo"}
MCQualified  == [m \in MCMenu |-> IF m \in MCNeedsStaff THEN Staff ELSE {}]

(* Capacity: no staff involved, one seed, three calls that fight over      *)
(* overlapping starts on the same day and move, cancel or close bookings.  *)
CapacityRequests ==
  {Create("wash", 0, NoStaff, None, "PUBLIC", ann),
   Create("wash", 1, NoStaff, None, "ADMIN", None),
   Move(2, KeepStaff, "CUSTOMER"), Move(5, KeepStaff, "USER"),
   Cancel, SetStatus("CANCELLED"), SetStatus("COMPLETED"), SetStatus("NO_SHOW")}
CapacityReached == {<<b, "REMINDER">> : b \in Seed} \cup {<<c1, "CONFIRMED">>}
CapacitySeeds == [b \in Seed |-> Create("wash", 0, NoStaff, None, "PUBLIC", ann)]

(* Staff: two people, a nominated and a free choice of staff, a resent     *)
(* request with its key, moves within the day and to the next one.         *)
StaffRequests ==
  {Create("color", 0, s1, k1, "PUBLIC", ann),
   Create("combo", 0, NoStaff, None, "PUBLIC", ann),
   Create("color", 4, NoStaff, None, "ADMIN", None),
   Move(0, NoStaff, "CUSTOMER"), Move(4, KeepStaff, "USER"),
   Cancel, SetStatus("COMPLETED")}
StaffSeeds == [b \in Seed |-> Create("color", 4, s1, None, "ADMIN", ann)]
StaffRules == [MCRules EXCEPT !.windowDays = 0]

(* Liveness: the clock advances, so that deadlines pass in mid-flight.      *)
LivenessRequests ==
  {Create("wash", 2, NoStaff, None, "PUBLIC", None),
   Move(2, KeepStaff, "CUSTOMER"), Cancel, SetStatus("NO_SHOW")}

(* Midnight: a shop open round the clock, two starts on two days.           *)
MidnightRequests ==
  {Create("perm", 3, NoStaff, None, "PUBLIC", ann),
   Create("perm", 4, NoStaff, None, "PUBLIC", bob)}

(* Cards: one new customer books two days at once.                          *)
CardRequests ==
  {Create("wash", 2, NoStaff, None, "PUBLIC", bob),
   Create("wash", 4, NoStaff, None, "PUBLIC", bob)}
=============================================================================
