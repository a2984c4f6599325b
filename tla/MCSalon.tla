------------------------------ MODULE MCSalon ------------------------------
(***************************************************************************)
(* The administration of a salon on small instances: a history is of the   *)
(* merchant's forms (focus "forms"), of accounts ("accounts"), of who      *)
(* hears of bookings ("notice"), of the homepage's pictures ("pictures")   *)
(* or of the pages in the tabs of a browser ("console").  They meet only   *)
(* in values the others read, so a history needs only one.                 *)
(***************************************************************************)
EXTENDS Merchant, Accounts, Recipients, Homepage, Console

VARIABLE focus

MCPair == 1..2
MCSpans == {<<1, 3>>, <<2, 4>>, <<3, 5>>}
MCChores == {{"staff"}, {"menu"}, {"slug", "tenant"}, {"tables"}}
MCFlows == {{"signup"}, {"login", "plain"}, {"admin", "reset", "plain"}}

MCFields == {{"gallery"}, {"hero"}}

Member(role, salon) == [role |-> role, shop |-> salon]
OfTenant(member) == [platform |-> FALSE, tenant |-> TRUE, memberships |-> {member}]
MCPersons ==
  {OfTenant(Member("TENANT_OWNER", Absent)), OfTenant(Member("SHOP_MANAGER", 1)),
   OfTenant(Member("SHOP_STAFF", 2)),
   [platform |-> TRUE, tenant |-> FALSE, memberships |-> {Member("PLATFORM_ADMIN", Absent)}]}

MCInit ==
  /\ focus \in {"forms", "accounts", "notice", "pictures", "console"}
  /\ Init /\ AccountsInit /\ RecipientsInit /\ HomepageInit /\ ConsoleInit
  /\ shop[1].slug = CHOOSE slug \in Slugs : TRUE   \* which one makes no difference
  /\ focus # "forms" => chores = {"menu"}
  /\ focus # "accounts" => flows = {"signup"}
  /\ focus # "console" => person = Guest
  /\ focus # "pictures" => fields = {"hero"} /\ made = 0

MCNext ==
  \/ focus = "forms" /\ Next /\ UNCHANGED <<focus, avars, rvars, homeVars, consoleVars>>
  \/ focus = "accounts" /\ AccountsNext /\ UNCHANGED <<focus, mvars, rvars, homeVars, consoleVars>>
  \/ focus = "notice" /\ RecipientsNext
     /\ UNCHANGED <<focus, mvars, avars, homeVars, consoleVars>>
  \/ focus = "pictures" /\ HomepageNext
     /\ UNCHANGED <<focus, mvars, avars, rvars, consoleVars>>
  \/ focus = "console" /\ ConsoleNext
     /\ UNCHANGED <<focus, mvars, avars, rvars, homeVars>>

MCSpec == MCInit /\ [][MCNext]_<<focus, mvars, avars, rvars, homeVars, consoleVars>>
=============================================================================
