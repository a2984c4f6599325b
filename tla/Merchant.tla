------------------------------ MODULE Merchant ------------------------------
(***************************************************************************)
(* The back office of a tenant: merchant-mutation-service.ts and           *)
(* shop-slug-guard.ts, entered through the actions of admin-actions.ts.    *)
(* Staff and the limit of the plan, menus and their options, shops and     *)
(* their public addresses, and the tables saved as a whole: opening hours, *)
(* shifts, absences.  Each request reads, decides, and writes in a         *)
(* transaction of its own under READ COMMITTED; several owners and tabs    *)
(* are at work at once.                                                    *)
(***************************************************************************)
EXTENDS Integers, FiniteSets

CONSTANTS
  Staff,       \* rows of staff that may be made, 1..n
  Shops,       \* shops that may be made, 1..n
  Slugs,       \* public addresses
  Caps,        \* seats a form may say
  Options,     \* rows of options that may be made, 1..n
  Spans,       \* opening and working times a form may hold: <<from, to>>
  Clerks,      \* requests at work at once
  MaxSaves,    \* bound: whole-table saves in a history
  Chores,      \* bound: what happens in a history, a set of sets
  Nil          \* null

VARIABLES
  chores,      \* what happens in this history
  plan,        \* [staff, shops] the plan allows
  staff,       \* staff: [status, deleted, bookable, shifts given]
  shop,        \* shops: [slug, cap, rule], slug Nil when there is none
  retired,     \* shop_slug_history: the shop that gave a slug up, or Nil
  menu,        \* one service: [state, requiresStaff, assigned]
  option,      \* service_options of it: "none", "live" or "gone"
  rows,        \* business_hours and staff_schedules: [from, to, by]
  special,     \* special_business_days of one date: its type, or Nil
  saves,       \* whole-table saves so far
  req,         \* [op, arg, seen] of each request
  crossed,     \* history: what two requests changed on old reads
  held,        \* history: the shops that ever had a slug
  regiven      \* history: shops set up by the platform at a slug that was given up

mvars == <<chores, plan, staff, shop, retired, menu, option, rows, special, saves, req,
           crossed, held, regiven>>
staffVars == <<staff, menu, option>>
shopVars  == <<shop, retired, held, regiven>>
tableVars == <<rows, special, saves>>

MerchantAssumption ==
  /\ IsFiniteSet(Staff) /\ IsFiniteSet(Shops) /\ 1 \in Shops
  /\ Staff = 1..Cardinality(Staff) /\ Shops = 1..Cardinality(Shops)
  /\ Options = 1..Cardinality(Options) /\ MaxSaves \in Nat
  /\ \A s \in Spans : s[1] \in Nat /\ s[2] \in Nat
  /\ Nil \notin Slugs \cup Shops

ASSUME MerchantAssumption

Tables == {"hours", "shifts", "override"}
NoStaff == [status |-> "none", deleted |-> FALSE, bookable |-> FALSE, shifts |-> FALSE]
Idle == [op |-> "idle", arg |-> Nil, seen |-> Nil]

On(w, op) == req[w].op = op
Arg(w)    == req[w].arg
Takes(w, op, arg, seen) ==
  req' = [req EXCEPT ![w] = [op |-> op, arg |-> arg, seen |-> seen]]
Ends(w) == req' = [req EXCEPT ![w] = Idle]
Hired   == {s \in Staff : staff[s].status # "none" /\ ~ staff[s].deleted}
OnDuty  == {s \in Hired : staff[s].status = "ACTIVE"}
Running == {x \in Shops : shop[x].slug # Nil}
NextOf(all, used) == {n \in all : n \notin used /\ \A k \in all \ used : n <= k}

-----------------------------------------------------------------------------
(* Staff.                                                                  *)

(* Mutant: one too many fits.                                              *)
QuotaOffByOne(count, max) == count <= max

(* assertStaffQuota: only who is active takes a place.                     *)
QuotaLeft(count, max) == count < max

StaffSeen == [active |-> OnDuty, max |-> plan.staff]
MayBecomeActive == QuotaLeft(Cardinality(OnDuty), plan.staff)
StaffCrossed(w) ==
  crossed' = IF req[w].seen = StaffSeen THEN crossed ELSE crossed \cup {"staff"}

AskCreateStaff(w, status) ==
  /\ On(w, "idle") /\ "staff" \in chores
  /\ status = "ACTIVE" => MayBecomeActive
  /\ Takes(w, "createStaff", status, StaffSeen)
  /\ UNCHANGED <<chores, plan, staffVars, shopVars, tableVars, crossed>>

(* The row, its services and, from the opening hours, its first shifts.    *)
CreateStaff(w) ==
  /\ On(w, "createStaff")
  /\ \E s \in NextOf(Staff, {x \in Staff : staff[x].status # "none"}) :
       \E bookable, skilled \in BOOLEAN :
         /\ staff' = [staff EXCEPT ![s] =
              [status |-> Arg(w), deleted |-> FALSE, bookable |-> bookable,
               shifts |-> rows["hours"] # {}]]
         /\ menu' = IF skilled /\ menu.state = "live"
                    THEN [menu EXCEPT !.assigned = @ \cup {s}] ELSE menu
  /\ StaffCrossed(w)
  /\ Ends(w)
  /\ UNCHANGED <<chores, plan, option, shopVars, tableVars>>

(* updateStaff: coming back takes a place, staying does not.               *)
AskUpdateStaff(w, s, status) ==
  /\ On(w, "idle") /\ "staff" \in chores
  /\ s \in Hired
  /\ staff[s].status # "ACTIVE" /\ status = "ACTIVE" => MayBecomeActive
  /\ Takes(w, "updateStaff", <<s, status>>, StaffSeen)
  /\ UNCHANGED <<chores, plan, staffVars, shopVars, tableVars, crossed>>

(* By its id alone: the row may have been deleted in between.              *)
UpdateStaff(w) ==
  /\ On(w, "updateStaff")
  /\ LET s == Arg(w)[1] IN
       /\ \E bookable, skilled \in BOOLEAN :
            /\ staff' = [staff EXCEPT ![s] =
                 [@ EXCEPT !.status = Arg(w)[2], !.bookable = bookable]]
            /\ menu' = [menu EXCEPT !.assigned =
                 IF skilled /\ menu.state = "live" THEN @ \cup {s} ELSE @ \ {s}]
  /\ StaffCrossed(w)
  /\ Ends(w)
  /\ UNCHANGED <<chores, plan, option, shopVars, tableVars>>

(* softDeleteStaff; the login is shut in module Accounts.                  *)
SoftDeleteStaff(s) ==
  /\ "staff" \in chores /\ s \in Hired
  /\ staff' = [staff EXCEPT ![s] =
       [@ EXCEPT !.deleted = TRUE, !.status = "INACTIVE", !.bookable = FALSE]]
  /\ UNCHANGED <<chores, plan, menu, option, shopVars, tableVars, req, crossed>>

(* The plan of the tenant changes: a webhook or the operator.              *)
ChangePlan(max) ==
  /\ "staff" \in chores
  /\ plan' = [plan EXCEPT !.staff = max]
  /\ UNCHANGED <<chores, staffVars, shopVars, tableVars, req, crossed>>

-----------------------------------------------------------------------------
(* Menus.                                                                  *)

(* assertStaffSelectionUsable: nobody chosen though somebody could be.     *)
SelectionUsable(requires, chosen) ==
  requires /\ chosen = {} => \A s \in OnDuty : ~ staff[s].bookable

(* createService and updateService: the check, then all the rows.  What    *)
(* the page listed when it was opened is what the form sends back.         *)
AskSaveService(w, requires, chosen, kept) ==
  /\ On(w, "idle") /\ "menu" \in chores
  /\ menu.state \in {"none", "live"}
  /\ menu.state = "none" => kept = {}
  /\ \A o \in kept : option[o] = "live"
  /\ SelectionUsable(requires, chosen)
  /\ Takes(w, "saveService", <<requires, chosen, kept>>, Nil)
  /\ UNCHANGED <<chores, plan, staffVars, shopVars, tableVars, crossed>>

Live == {o \in Options : option[o] = "live"}

(* syncServiceOptions: listed rows stay, a listed row that is gone is made *)
(* anew, every other row goes.                                             *)
SyncOptions(kept, new) ==
  LET again == Cardinality(kept \ Live) + new
      free  == {o \in Options : option[o] = "none"} IN
    /\ again <= Cardinality(free)
    /\ \E made \in SUBSET free :
         /\ Cardinality(made) = again
         /\ \A o \in made, p \in free \ made : o < p
         /\ option' = [o \in Options |->
              CASE o \in made -> "live"
                [] o \in Live \ kept -> "gone"
                [] OTHER -> option[o]]

SaveService(w) ==
  /\ On(w, "saveService")
  /\ LET requires == Arg(w)[1]  chosen == Arg(w)[2]  kept == Arg(w)[3] IN
       /\ menu' = [state |-> IF menu.state = "none" THEN "live" ELSE menu.state,
                   requiresStaff |-> requires, assigned |-> chosen \cap Hired]
       /\ \E new \in 0..1 : SyncOptions(kept, new)
  /\ Ends(w)
  /\ UNCHANGED <<chores, plan, staff, shopVars, tableVars, crossed>>

SoftDeleteService ==
  /\ "menu" \in chores /\ menu.state = "live"
  /\ menu' = [menu EXCEPT !.state = "gone"]
  /\ UNCHANGED <<chores, plan, staff, option, shopVars, tableVars, req, crossed>>

-----------------------------------------------------------------------------
(* Shops and their addresses.                                              *)

(* Mutant: the addresses others gave up are not looked at.                 *)
SlugLiveOnly(slug, self) == \A x \in Running \ {self} : shop[x].slug # slug

(* assertShopSlugAvailable: nobody else has it, nobody else ever gave it   *)
(* up.                                                                     *)
SlugAvailable(slug, self) ==
  /\ \A x \in Running \ {self} : shop[x].slug # slug
  /\ retired[slug] \in {Nil, self}

SlugSeen == <<shop, retired>>
SlugCrossed(w) ==
  crossed' = IF req[w].seen = SlugSeen THEN crossed ELSE crossed \cup {"slug"}

(* createShop, its checks.                                                 *)
AskCreateShop(w, slug) ==
  /\ On(w, "idle") /\ "slug" \in chores
  /\ SlugAvailable(slug, Nil)
  /\ Cardinality(Running) < plan.shops
  /\ Takes(w, "createShop", slug, SlugSeen)
  /\ UNCHANGED <<chores, plan, staffVars, shopVars, tableVars, crossed>>

Opens(x, slug) ==
  /\ shop' = [shop EXCEPT ![x] = [slug |-> slug, cap |-> 1, rule |-> 1]]
  /\ held' = [held EXCEPT ![slug] = @ \cup {x}]

(* The unique index of the addresses has the last word.                    *)
CreateShop(w) ==
  /\ On(w, "createShop")
  /\ \/ /\ SlugLiveOnly(Arg(w), Nil)
        /\ \E x \in NextOf(Shops, Running) : Opens(x, Arg(w))
        /\ SlugCrossed(w)
     \/ ~ SlugLiveOnly(Arg(w), Nil) /\ UNCHANGED <<shop, held, crossed>>
  /\ Ends(w)
  /\ UNCHANGED <<chores, plan, staffVars, retired, regiven, tableVars>>

(* createTenant of the platform looks at the live addresses only.          *)
TenantShop(slug) ==
  /\ "tenant" \in chores
  /\ SlugLiveOnly(slug, Nil)
  /\ \E x \in NextOf(Shops, Running) :
       /\ Opens(x, slug)
       /\ regiven' = IF retired[slug] = Nil THEN regiven ELSE regiven \cup {<<x, slug>>}
  /\ UNCHANGED <<chores, plan, staffVars, retired, tableVars, req, crossed>>

(* updateShopSettings: the address is looked at when it changes; the limit *)
(* of the shop goes to the settings and to the rule, together.             *)
AskUpdateShop(w, x, slug, cap) ==
  /\ On(w, "idle") /\ "slug" \in chores
  /\ x \in Running
  /\ slug # shop[x].slug => SlugAvailable(slug, x)
  /\ Takes(w, "updateShop", <<x, shop[x].slug, slug, cap>>, SlugSeen)
  /\ UNCHANGED <<chores, plan, staffVars, shopVars, tableVars, crossed>>

(* recordSlugChange: the one given up is written down, the one taken back  *)
(* is struck out.                                                          *)
RecordSlugChange(x, from, to) ==
  retired' = [s \in Slugs |-> CASE s = from -> x
                                [] s # from /\ s = to /\ retired[s] = x -> Nil
                                [] OTHER -> retired[s]]

UpdateShop(w) ==
  /\ On(w, "updateShop")
  /\ LET x == Arg(w)[1]  from == Arg(w)[2]  to == Arg(w)[3]  cap == Arg(w)[4] IN
       \/ /\ SlugLiveOnly(to, x)
          /\ IF from # to THEN RecordSlugChange(x, from, to) ELSE UNCHANGED retired
          /\ shop' = [shop EXCEPT ![x] = [slug |-> to, cap |-> cap, rule |-> cap]]
          /\ held' = [held EXCEPT ![to] = @ \cup {x}]
          /\ SlugCrossed(w)
          /\ UNCHANGED regiven
       \/ ~ SlugLiveOnly(to, x) /\ UNCHANGED <<shopVars, crossed>>
  /\ Ends(w)
  /\ UNCHANGED <<chores, plan, staffVars, tableVars>>

(* updateCapacityRule writes the rule, the settings keep their copy.       *)
UpdateCapacityRule(x, cap) ==
  /\ "slug" \in chores /\ x \in Running
  /\ shop' = [shop EXCEPT ![x].rule = cap]
  /\ UNCHANGED <<chores, plan, staffVars, retired, held, regiven, tableVars, req, crossed>>

-----------------------------------------------------------------------------
(* Tables saved as a whole.                                                *)

Meets(a, b) == a[1] < b[2] /\ b[1] < a[2]

(* A form the schema lets through: no time is empty, none meets another;   *)
(* an absence or a changed day is one row.                                 *)
GoodForm(table, form) ==
  /\ \A s \in form : s[1] < s[2]
  /\ \A s, t \in form : s # t => ~ Meets(s, t)
  /\ table = "override" => Cardinality(form) = 1

(* replaceBusinessHours, replaceStaffRecurringSchedule, addStaffOverride:  *)
(* the delete takes the rows its statement sees; it waits for another save *)
(* to commit, but what that save inserted it does not see.                 *)
BeginSave(w, table, form) ==
  /\ On(w, "idle") /\ "tables" \in chores /\ saves < MaxSaves
  /\ GoodForm(table, form)
  /\ saves' = saves + 1
  /\ Takes(w, "save", <<table, form, saves'>>, rows[table])
  /\ UNCHANGED <<chores, plan, staffVars, shopVars, rows, special, crossed>>

(* Mutant: the new rows are added to the old ones.                         *)
SavedAdded(old, seen, new) == old \cup new

Saved(old, seen, new) == (old \ seen) \cup new

CommitSave(w) ==
  /\ On(w, "save")
  /\ LET table == Arg(w)[1]
         new == {[from |-> s[1], to |-> s[2], by |-> Arg(w)[3]] : s \in Arg(w)[2]} IN
       /\ rows' = [rows EXCEPT ![table] = Saved(@, req[w].seen, new)]
       /\ crossed' = IF rows[table] = req[w].seen THEN crossed ELSE crossed \cup {table}
  /\ Ends(w)
  /\ UNCHANGED <<chores, plan, staffVars, shopVars, special, saves>>

DeleteOverride(row) ==
  /\ "tables" \in chores /\ row \in rows["override"]
  /\ rows' = [rows EXCEPT !["override"] = @ \ {row}]
  /\ UNCHANGED <<chores, plan, staffVars, shopVars, special, saves, req, crossed>>

(* addSpecialDay is one upsert on shop and date; deleteSpecialDay.         *)
AddSpecialDay(type) ==
  /\ "tables" \in chores
  /\ special' = type
  /\ UNCHANGED <<chores, plan, staffVars, shopVars, rows, saves, req, crossed>>

DeleteSpecialDay ==
  /\ special # Nil
  /\ special' = Nil
  /\ UNCHANGED <<chores, plan, staffVars, shopVars, rows, saves, req, crossed>>

(* A request dies before its transaction commits.                          *)
Dies(w) ==
  /\ ~ On(w, "idle")
  /\ Ends(w)
  /\ UNCHANGED <<chores, plan, staffVars, shopVars, tableVars, crossed>>

-----------------------------------------------------------------------------
Init ==
  /\ chores \in Chores
  /\ plan = [staff |-> 1, shops |-> Cardinality(Shops)]
  /\ staff = [s \in Staff |-> NoStaff]
  /\ \E slug \in Slugs :
       /\ shop = [x \in Shops |-> IF x = 1 THEN [slug |-> slug, cap |-> 1, rule |-> 1]
                                  ELSE [slug |-> Nil, cap |-> 0, rule |-> 0]]
       /\ held = [s \in Slugs |-> IF s = slug THEN {1} ELSE {}]
  /\ retired = [s \in Slugs |-> Nil]
  /\ menu = [state |-> "none", requiresStaff |-> FALSE, assigned |-> {}]
  /\ option = [o \in Options |-> "none"]
  /\ rows = [t \in Tables |-> {}] /\ special = Nil /\ saves = 0
  /\ req = [w \in Clerks |-> Idle]
  /\ crossed = {} /\ regiven = {}

StaffNext ==
  \/ \E w \in Clerks, status \in {"ACTIVE", "INACTIVE"} :
       AskCreateStaff(w, status) \/ \E s \in Staff : AskUpdateStaff(w, s, status)
  \/ \E w \in Clerks : CreateStaff(w) \/ UpdateStaff(w)
  \/ \E s \in Staff : SoftDeleteStaff(s)
  \/ \E max \in 1..2 : ChangePlan(max)

MenuNext ==
  \/ \E w \in Clerks, requires \in BOOLEAN :
       \E chosen \in SUBSET Hired, kept \in SUBSET Options :
         AskSaveService(w, requires, chosen, kept)
  \/ \E w \in Clerks : SaveService(w)
  \/ SoftDeleteService

ShopNext ==
  \/ \E w \in Clerks, slug \in Slugs : AskCreateShop(w, slug)
  \/ \E w \in Clerks, x \in Shops, slug \in Slugs, cap \in Caps : AskUpdateShop(w, x, slug, cap)
  \/ \E w \in Clerks : CreateShop(w) \/ UpdateShop(w)
  \/ \E slug \in Slugs : TenantShop(slug)
  \/ \E x \in Shops, cap \in Caps : UpdateCapacityRule(x, cap)

TableNext ==
  \/ \E w \in Clerks, table \in Tables, form \in SUBSET Spans : BeginSave(w, table, form)
  \/ \E w \in Clerks : CommitSave(w)
  \/ \E row \in rows["override"] : DeleteOverride(row)
  \/ \E type \in {"CLOSED", "SPECIAL_OPEN", "MODIFIED_HOURS"} : AddSpecialDay(type)
  \/ DeleteSpecialDay

Next == StaffNext \/ MenuNext \/ ShopNext \/ TableNext \/ \E w \in Clerks : Dies(w)

Spec == Init /\ [][Next]_mvars
-----------------------------------------------------------------------------
(* Nobody becomes active beyond the limit of the plan, in whatever order   *)
(* staff is made, sent away, brought back and deleted and the plan changes *)
(* (a place two requests counted at once is the exception).                *)
WithinPlan ==
  [][Cardinality(OnDuty') > Cardinality(OnDuty) /\ "staff" \notin crossed' =>
       Cardinality(OnDuty') <= plan.staff]_mvars

(* An address that once led to a shop is given to no other shop: the       *)
(* promise of shop-slug-guard.ts, after any number of renames and returns  *)
(* (requests that crossed excepted).  It does not hold of the shops the    *)
(* platform sets up: createTenant never asks the guard (regiven); and not  *)
(* even such a shop opens the address to a third one.                      *)
SlugNeverReused ==
  "slug" \notin crossed =>
    \A s \in Slugs : Cardinality({x \in held[s] : <<x, s>> \notin regiven}) <= 1

(* What a table holds is what one form said: times of two saves never lie  *)
(* side by side, so none of them meet (saves that crossed excepted).       *)
OneFormPerTable ==
  \A t \in Tables \ crossed : \A a, b \in rows[t] :
    /\ a.by = b.by
    /\ a # b => ~ Meets(<<a.from, a.to>>, <<b.from, b.to>>)
=============================================================================
