---------------------------- MODULE BookingLedger ----------------------------
(***************************************************************************)
(* What the booking service promises, with the concurrency taken away: a   *)
(* calendar on which bookings are placed, moved and freed one at a time,   *)
(* each placement fitting at the moment it takes effect.  A booking holds  *)
(* cells [at, svc, staff]: an instant of time for a service, by a staff    *)
(* member or by Nobody.                                                    *)
(***************************************************************************)
EXTENDS Integers, FiniteSets

CONSTANTS Id,         \* bookings
          Nobody,     \* the staff of a cell that needs none
          ShopLimit,  \* bookings the shop takes at one instant
          SvcLimit    \* [services -> bookings the service takes at one instant]

VARIABLES phase,      \* "new", then "held", then "gone"
          calendar    \* the cells each booking holds

vars == <<phase, calendar>>

HoldersAt(t) == {b \in Id : \E x \in calendar[b] : x.at = t}

HoldersFor(t, v) == {b \in Id : \E x \in calendar[b] : x.at = t /\ x.svc = v}

Serving(t, s) == {b \in Id : \E x \in calendar[b] : x.at = t /\ x.staff = s}

Fits(b, cells) ==
  \A c \in cells :
    /\ Cardinality(HoldersAt(c.at) \ {b}) < ShopLimit
    /\ Cardinality(HoldersFor(c.at, c.svc) \ {b}) < SvcLimit[c.svc]
    /\ c.staff # Nobody => Serving(c.at, c.staff) \subseteq {b}

OnlyChanges(b) ==
  /\ \A o \in Id \ {b} : calendar'[o] = calendar[o]
  /\ DOMAIN calendar' = Id

Init ==
  /\ phase \in [Id -> {"new", "held"}]
  /\ DOMAIN calendar = Id
  /\ \A b \in Id : IF phase[b] = "new" THEN calendar[b] = {}
                   ELSE Fits(b, calendar[b])

Place(b) ==
  /\ phase[b] = "new"
  /\ Fits(b, calendar'[b])
  /\ OnlyChanges(b)
  /\ phase' = [phase EXCEPT ![b] = "held"]

Move(b) ==
  /\ phase[b] = "held"
  /\ Fits(b, calendar'[b])
  /\ OnlyChanges(b)
  /\ UNCHANGED phase

Free(b) ==
  /\ phase[b] = "held"
  /\ phase' = [phase EXCEPT ![b] = "gone"]
  /\ calendar' = [calendar EXCEPT ![b] = {}]

Next == \E b \in Id : Place(b) \/ Move(b) \/ Free(b)

Spec == Init /\ [][Next]_vars
=============================================================================
