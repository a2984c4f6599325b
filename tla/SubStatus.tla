----------------------------- MODULE SubStatus -----------------------------
(***************************************************************************)
(* The statuses of a subscription the billing service decides by           *)
(* (billing-service.ts).                                                   *)
(***************************************************************************)

\* the tenant may come in
ALLOWED_SUB_STATUSES == {"active", "trialing", "past_due"}

\* the subscription will not be charged again
DEAD_SUB_STATUSES == {"canceled", "incomplete_expired"}
=============================================================================
