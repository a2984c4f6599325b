------------------------------ MODULE MCOutbox ------------------------------
(***************************************************************************)
(* One salon visit, one notice to an owner, two overlapping sweeps.        *)
(***************************************************************************)
EXTENDS Outbox

CONSTANT b1

MCBookings == {b1}

(* A visit booked by mail and cancelled by the customer: no recipient.     *)
MCAddressless == {[about |-> b1, move |-> 0, kind |-> "CANCELLED"]}
=============================================================================
