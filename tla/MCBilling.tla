----------------------------- MODULE MCBilling -----------------------------
(***************************************************************************)
(* Billing and Checkout on small instances, one after the other in a run:  *)
(* a history is either of the webhooks (focus "row") or of the checkout    *)
(* pages (focus "page").  The two meet in the row of the tenant, which     *)
(* Checkout sees only as something the webhooks bring up to date.          *)
(***************************************************************************)
EXTENDS Panel, Metrics, Checkout, TLC

CONSTANTS h1, h2

VARIABLE focus

\* the plans on sale differ in nothing
MCSymmetry == Permutations(Plans)

MCSubs == 1..2
MCCustomers == 1..3
MCBuckets == 1..2

AllActs == {"subscribe", "renew", "plan", "cancel", "refund"}
MCScopes == {
  [hooks |-> {h1}, acts |-> AllActs, days |-> 4, faults |-> 0, invoices |-> 1],
  [hooks |-> {h1}, acts |-> AllActs, days |-> 3, faults |-> 2, invoices |-> 2],
  [hooks |-> {h1, h2}, acts |-> AllActs, days |-> 3, faults |-> 0, invoices |-> 1],
  [hooks |-> {h1}, acts |-> AllActs, days |-> 3, faults |-> 0, invoices |-> 0]}

MCInit ==
  /\ Init /\ CheckoutInit
  /\ focus \in {"row", "page"}
  /\ focus = "page" => scope = CHOOSE b \in MCScopes : b.days = 4

MCNext ==
  \/ focus = "row" /\ Next /\ UNCHANGED <<focus, cvars>>
  \/ focus = "page" /\ CheckoutNext /\ UNCHANGED <<focus, vars>>

MCSpec == MCInit /\ [][MCNext]_<<focus, vars, cvars>>
=============================================================================
