---------------------------- MODULE MerchantProofs ----------------------------
(***************************************************************************)
(* What holds of the back office for any number of staff, shops, addresses *)
(* and requests at once.  Each property has the same obstacle: a request   *)
(* decides on what it read and writes later.  A request keeps what it read *)
(* (req[w].seen), so what it decided is a fact about the request alone     *)
(* (Asked), which no other request can disturb; a write on an old read is  *)
(* written down in crossed.                                                *)
(*                                                                         *)
(* Then the pages from which the requests come, for any persons, shops and *)
(* tabs: what a tab saves, and what its page offers.                       *)
(*                                                                         *)
(* Last what the owner reads there of the bookings (Board), for any        *)
(* bookings, staff and dates: boards, figures and lists agree.             *)
(***************************************************************************)
EXTENDS Merchant, Console, Board, OccupancyProofs, FiniteSetTheorems, TLAPS

Statuses == {"ACTIVE", "INACTIVE"}
Row      == [from : Nat, to : Nat, by : Nat]
StaffRow == [status : Statuses \cup {"none"}, deleted : BOOLEAN,
             bookable : BOOLEAN, shifts : BOOLEAN]

MerchantType ==
  /\ plan \in [staff : Int, shops : {Cardinality(Shops)}]
  /\ staff \in [Staff -> StaffRow]
  /\ shop \in [Shops -> [slug : Slugs \cup {Nil}, cap : Caps \cup {0, 1},
                         rule : Caps \cup {0, 1}]]
  /\ retired \in [Slugs -> Shops \cup {Nil}]
  /\ held \in [Slugs -> SUBSET Shops] /\ regiven \subseteq Shops \X Slugs
  /\ rows \in [Tables -> SUBSET Row] /\ saves \in Nat
  /\ req = [w \in Clerks |-> req[w]]
  /\ crossed \subseteq {"staff", "slug"} \cup Tables

(* The address is nobody else's, in the shops and the history of sh, re.   *)
FreeIn(sh, re, slug, self) ==
  /\ \A x \in Shops \ {self} : sh[x].slug # slug
  /\ re[slug] \in {Nil, self}

(* What a request has checked, on what it read.                            *)
AskedStaff(r) ==
  /\ r.op = "createStaff" =>
       /\ r.arg \in Statuses
       /\ r.arg = "ACTIVE" => QuotaLeft(Cardinality(r.seen.active), r.seen.max)
  /\ r.op = "updateStaff" =>
       /\ r.arg[1] \in Staff /\ r.arg[2] \in Statuses
       /\ r.arg[2] = "ACTIVE" /\ r.arg[1] \notin r.seen.active =>
            QuotaLeft(Cardinality(r.seen.active), r.seen.max)

AskedShop(r) ==
  /\ r.op = "createShop" =>
       r.arg \in Slugs /\ FreeIn(r.seen[1], r.seen[2], r.arg, Nil)
  /\ r.op = "updateShop" =>
       /\ r.arg[1] \in Shops /\ r.arg[2] \in Slugs /\ r.arg[3] \in Slugs /\ r.arg[4] \in Caps
       /\ r.arg[2] = r.seen[1][r.arg[1]].slug
       /\ r.arg[3] # r.arg[2] => FreeIn(r.seen[1], r.seen[2], r.arg[3], r.arg[1])

AskedSave(r) ==
  r.op = "save" => /\ r.arg[1] \in Tables /\ r.arg[2] \in SUBSET Spans /\ r.arg[3] \in Nat
                   /\ GoodForm(r.arg[1], r.arg[2])

Checked(r) == AskedStaff(r) /\ AskedShop(r) /\ AskedSave(r)

Asked == \A w \in Clerks : Checked(req[w])

(* A step leaves the requests alone or gives one of them something new,    *)
(* checked, to do.                                                         *)
OneAsks ==
  req' = req \/ \E w \in Clerks : \E r : req' = [req EXCEPT ![w] = r] /\ Checked(r)

-----------------------------------------------------------------------------
(* Types, and what each request has checked                                *)

LEMMA IdleAsks == Checked(Idle)
  BY DEF Checked, AskedStaff, AskedShop, AskedSave, Idle

LEMMA AskStaffAsks ==
  ASSUME MerchantType, NEW w \in Clerks, NEW status \in Statuses,
         AskCreateStaff(w, status) \/ \E s \in Staff : AskUpdateStaff(w, s, status)
  PROVE  \E r : req' = [req EXCEPT ![w] = r] /\ Checked(r)
<1>1. CASE AskCreateStaff(w, status)
  <2> DEFINE r == [op |-> "createStaff", arg |-> status, seen |-> StaffSeen]
  <2>1. req' = [req EXCEPT ![w] = r] /\ (status = "ACTIVE" => MayBecomeActive)
    BY <1>1 DEF AskCreateStaff, Takes
  <2>2. AskedStaff(r)
    BY <2>1 DEF AskedStaff, MayBecomeActive, StaffSeen
  <2>3. AskedShop(r) /\ AskedSave(r)
    BY DEF AskedShop, AskedSave
  <2> QED
    BY <2>1, <2>2, <2>3 DEF Checked
<1>2. ASSUME NEW s \in Staff, AskUpdateStaff(w, s, status)
      PROVE  \E r : req' = [req EXCEPT ![w] = r] /\ Checked(r)
  <2> DEFINE r == [op |-> "updateStaff", arg |-> <<s, status>>, seen |-> StaffSeen]
  <2>1. req' = [req EXCEPT ![w] = r]
    BY <1>2 DEF AskUpdateStaff, Takes
  <2>2. status = "ACTIVE" /\ s \notin OnDuty => MayBecomeActive
    BY <1>2 DEF AskUpdateStaff, OnDuty
  <2>3. AskedStaff(r)
    BY <2>2 DEF AskedStaff, MayBecomeActive, StaffSeen
  <2>4. AskedShop(r) /\ AskedSave(r)
    BY DEF AskedShop, AskedSave
  <2> QED
    BY <2>1, <2>3, <2>4 DEF Checked
<1> QED
  BY <1>1, <1>2

LEMMA SlugIsFree ==
  ASSUME MerchantType, NEW slug \in Slugs, NEW self, SlugAvailable(slug, self)
  PROVE  FreeIn(shop, retired, slug, self)
<1>1. slug # Nil
  BY MerchantAssumption DEF MerchantAssumption
<1>2. \A x \in Shops : shop[x].slug = Nil \/ x \in Running
  BY DEF Running
<1> QED
  BY <1>1, <1>2 DEF SlugAvailable, FreeIn

LEMMA AskShopAsks ==
  ASSUME MerchantType, NEW w \in Clerks, NEW slug \in Slugs,
         \/ AskCreateShop(w, slug)
         \/ \E x \in Shops, cap \in Caps : AskUpdateShop(w, x, slug, cap)
  PROVE  \E r : req' = [req EXCEPT ![w] = r] /\ Checked(r)
<1>1. CASE AskCreateShop(w, slug)
  <2> DEFINE r == [op |-> "createShop", arg |-> slug, seen |-> SlugSeen]
  <2>1. req' = [req EXCEPT ![w] = r] /\ FreeIn(shop, retired, slug, Nil)
    BY <1>1, SlugIsFree DEF AskCreateShop, Takes
  <2>2. AskedShop(r)
    BY <2>1 DEF AskedShop, SlugSeen
  <2>3. AskedStaff(r) /\ AskedSave(r)
    BY DEF AskedStaff, AskedSave
  <2> QED
    BY <2>1, <2>2, <2>3 DEF Checked
<1>2. ASSUME NEW x \in Shops, NEW cap \in Caps, AskUpdateShop(w, x, slug, cap)
      PROVE  \E r : req' = [req EXCEPT ![w] = r] /\ Checked(r)
  <2> DEFINE r == [op |-> "updateShop", arg |-> <<x, shop[x].slug, slug, cap>>,
                   seen |-> SlugSeen]
  <2>1. /\ req' = [req EXCEPT ![w] = r] /\ x \in Running
        /\ slug # shop[x].slug => FreeIn(shop, retired, slug, x)
    BY <1>2, SlugIsFree DEF AskUpdateShop, Takes
  <2>2. shop[x].slug \in Slugs
    BY <2>1 DEF Running, MerchantType
  <2>3. AskedShop(r)
    BY <2>1, <2>2 DEF AskedShop, SlugSeen
  <2>4. AskedStaff(r) /\ AskedSave(r)
    BY DEF AskedStaff, AskedSave
  <2> QED
    BY <2>1, <2>3, <2>4 DEF Checked
<1> QED
  BY <1>1, <1>2

LEMMA BeginSaveAsks ==
  ASSUME MerchantType, NEW w \in Clerks, NEW table \in Tables, NEW form \in SUBSET Spans,
         BeginSave(w, table, form)
  PROVE  \E r : req' = [req EXCEPT ![w] = r] /\ Checked(r)
<1> DEFINE r == [op |-> "save", arg |-> <<table, form, saves'>>, seen |-> rows[table]]
<1>1. req' = [req EXCEPT ![w] = r] /\ saves' \in Nat /\ GoodForm(table, form)
  BY DEF BeginSave, Takes, MerchantType
<1>2. AskedSave(r)
  BY <1>1 DEF AskedSave
<1>3. AskedStaff(r) /\ AskedShop(r)
  BY DEF AskedStaff, AskedShop
<1> QED
  BY <1>1, <1>2, <1>3 DEF Checked

LEMMA ReqSteps ==
  ASSUME MerchantType, [Next]_mvars
  PROVE  OneAsks
<1>1. ASSUME NEW w \in Clerks, Ends(w) PROVE OneAsks
  BY <1>1, IdleAsks DEF Ends, OneAsks
<1>2. CASE UNCHANGED mvars
  BY <1>2 DEF mvars, OneAsks
<1>3. CASE StaffNext
  <2>1. ASSUME NEW w \in Clerks, NEW status \in Statuses,
               AskCreateStaff(w, status) \/ \E s \in Staff : AskUpdateStaff(w, s, status)
        PROVE  OneAsks
    BY <2>1, AskStaffAsks DEF OneAsks
  <2>2. ASSUME NEW w \in Clerks, CreateStaff(w) \/ UpdateStaff(w) PROVE OneAsks
    BY <1>1, <2>2 DEF CreateStaff, UpdateStaff
  <2>3. ASSUME (\E s \in Staff : SoftDeleteStaff(s)) \/ \E max \in 1..2 : ChangePlan(max)
        PROVE  OneAsks
    BY <2>3 DEF OneAsks, SoftDeleteStaff, ChangePlan
  <2> QED
    BY <1>3, <2>1, <2>2, <2>3 DEF StaffNext, Statuses
<1>4. CASE MenuNext
  <2>1. ASSUME NEW w \in Clerks, NEW requires, NEW chosen, NEW kept,
               AskSaveService(w, requires, chosen, kept)
        PROVE  OneAsks
    <3> DEFINE r == [op |-> "saveService", arg |-> <<requires, chosen, kept>>, seen |-> Nil]
    <3>1. req' = [req EXCEPT ![w] = r]
      BY <2>1 DEF AskSaveService, Takes
    <3>2. Checked(r)
      BY DEF Checked, AskedStaff, AskedShop, AskedSave
    <3> QED
      BY <3>1, <3>2 DEF OneAsks
  <2>2. ASSUME NEW w \in Clerks, SaveService(w) PROVE OneAsks
    BY <1>1, <2>2 DEF SaveService
  <2> QED
    BY <1>4, <2>1, <2>2 DEF OneAsks, MenuNext, SoftDeleteService
<1>5. CASE ShopNext
  <2>1. ASSUME NEW w \in Clerks, NEW slug \in Slugs,
               \/ AskCreateShop(w, slug)
               \/ \E x \in Shops, cap \in Caps : AskUpdateShop(w, x, slug, cap)
        PROVE  OneAsks
    BY <2>1, AskShopAsks DEF OneAsks
  <2>2. ASSUME NEW w \in Clerks, CreateShop(w) \/ UpdateShop(w) PROVE OneAsks
    BY <1>1, <2>2 DEF CreateShop, UpdateShop
  <2>3. ASSUME \/ \E slug \in Slugs : TenantShop(slug)
               \/ \E x \in Shops, cap \in Caps : UpdateCapacityRule(x, cap)
        PROVE  OneAsks
    BY <2>3 DEF OneAsks, TenantShop, UpdateCapacityRule
  <2> QED
    BY <1>5, <2>1, <2>2, <2>3 DEF ShopNext
<1>6. CASE TableNext
  <2>1. ASSUME NEW w \in Clerks, NEW table \in Tables, NEW form \in SUBSET Spans,
               BeginSave(w, table, form)
        PROVE  OneAsks
    BY <2>1, BeginSaveAsks DEF OneAsks
  <2>2. ASSUME NEW w \in Clerks, CommitSave(w) PROVE OneAsks
    BY <1>1, <2>2 DEF CommitSave
  <2>3. ASSUME \/ \E row \in rows["override"] : DeleteOverride(row)
               \/ \E type \in {"CLOSED", "SPECIAL_OPEN", "MODIFIED_HOURS"} : AddSpecialDay(type)
               \/ DeleteSpecialDay
        PROVE  OneAsks
    BY <2>3 DEF OneAsks, DeleteOverride, AddSpecialDay, DeleteSpecialDay
  <2> QED
    BY <1>6, <2>1, <2>2, <2>3 DEF TableNext
<1>7. ASSUME NEW w \in Clerks, Dies(w) PROVE OneAsks
  BY <1>1, <1>7 DEF Dies
<1> QED
  BY <1>2, <1>3, <1>4, <1>5, <1>6, <1>7 DEF Next

LEMMA StepAsked ==
  ASSUME MerchantType, Asked, OneAsks
  PROVE  Asked'
<1>1. CASE req' = req
  BY <1>1 DEF Asked
<1>2. ASSUME NEW w \in Clerks, NEW r, req' = [req EXCEPT ![w] = r], Checked(r)
      PROVE  Asked'
  <2>1. \A v \in Clerks : req'[v] = req[v] \/ req'[v] = r
    BY <1>2 DEF MerchantType
  <2> QED
    BY <1>2, <2>1 DEF Asked
<1> QED
  BY <1>1, <1>2 DEF OneAsks

LEMMA NextOfIsOne ==
  ASSUME NEW all, NEW used, NEW n \in NextOf(all, used)
  PROVE  n \in all /\ n \notin used
  BY DEF NextOf

LEMMA StaffRowKept ==
  ASSUME NEW r \in StaffRow, NEW status \in Statuses, NEW b \in BOOLEAN, NEW d \in BOOLEAN
  PROVE  /\ [r EXCEPT !.status = status, !.bookable = b] \in StaffRow
         /\ [r EXCEPT !.deleted = d, !.status = status, !.bookable = b] \in StaffRow
  BY DEF StaffRow

(* The fields a staff step writes.                                         *)
LEMMA StaffRows ==
  ASSUME MerchantType, Asked, StaffNext
  PROVE  /\ staff' = staff \/ \E s \in Staff, r \in StaffRow :
                               staff' = [staff EXCEPT ![s] = r]
         /\ plan' = plan \/ \E max \in Int : plan' = [plan EXCEPT !.staff = max]
         /\ crossed' \in {crossed, crossed \cup {"staff"}}
         /\ UNCHANGED <<shopVars, tableVars>>
<1>1. ASSUME NEW w \in Clerks, NEW status,
             AskCreateStaff(w, status) \/ \E s \in Staff : AskUpdateStaff(w, s, status)
      PROVE  UNCHANGED <<plan, staff, crossed, shopVars, tableVars>>
  BY <1>1 DEF AskCreateStaff, AskUpdateStaff, staffVars
<1>2. ASSUME NEW w \in Clerks, CreateStaff(w)
      PROVE  /\ \E s \in Staff, r \in StaffRow :
                   staff' = [staff EXCEPT ![s] = r]
             /\ crossed' \in {crossed, crossed \cup {"staff"}}
             /\ UNCHANGED <<plan, shopVars, tableVars>>
  <2>1. PICK s \in Staff, bookable \in BOOLEAN : staff' = [staff EXCEPT ![s] =
              [status |-> Arg(w), deleted |-> FALSE, bookable |-> bookable,
               shifts |-> rows["hours"] # {}]]
    BY <1>2, NextOfIsOne DEF CreateStaff
  <2>2. Arg(w) \in Statuses
    BY <1>2 DEF CreateStaff, Asked, Checked, AskedStaff, On, Arg
  <2> DEFINE r == [status |-> Arg(w), deleted |-> FALSE, bookable |-> bookable,
                   shifts |-> rows["hours"] # {}]
  <2>3. r \in StaffRow
    BY <2>2 DEF StaffRow
  <2> QED
    BY <1>2, <2>1, <2>3 DEF CreateStaff, StaffCrossed
<1>3. ASSUME NEW w \in Clerks, UpdateStaff(w)
      PROVE  /\ \E s \in Staff, r \in StaffRow :
                   staff' = [staff EXCEPT ![s] = r]
             /\ crossed' \in {crossed, crossed \cup {"staff"}}
             /\ UNCHANGED <<plan, shopVars, tableVars>>
  <2> DEFINE s == Arg(w)[1]
  <2>1. s \in Staff /\ Arg(w)[2] \in Statuses
    BY <1>3 DEF UpdateStaff, Asked, Checked, AskedStaff, On, Arg
  <2>2. PICK bookable \in BOOLEAN : staff' = [staff EXCEPT ![s] =
                 [@ EXCEPT !.status = Arg(w)[2], !.bookable = bookable]]
    BY <1>3 DEF UpdateStaff
  <2>3. [staff[s] EXCEPT !.status = Arg(w)[2], !.bookable = bookable] \in
          StaffRow
    BY <2>1, StaffRowKept DEF MerchantType
  <2> QED
    BY <1>3, <2>1, <2>2, <2>3 DEF UpdateStaff, StaffCrossed
<1>4. ASSUME NEW s \in Staff, SoftDeleteStaff(s)
      PROVE  /\ \E r \in StaffRow :
                   staff' = [staff EXCEPT ![s] = r]
             /\ UNCHANGED <<plan, crossed, shopVars, tableVars>>
  <2>1. [staff[s] EXCEPT !.deleted = TRUE, !.status = "INACTIVE", !.bookable = FALSE] \in
          StaffRow
    BY StaffRowKept DEF MerchantType, Statuses
  <2> QED
    BY <1>4, <2>1 DEF SoftDeleteStaff
<1>5. ASSUME NEW max \in 1..2, ChangePlan(max)
      PROVE  /\ max \in Int /\ plan' = [plan EXCEPT !.staff = max]
             /\ UNCHANGED <<staff, crossed, shopVars, tableVars>>
  BY <1>5 DEF ChangePlan, staffVars
<1> QED
  BY <1>1, <1>2, <1>3, <1>4, <1>5 DEF StaffNext

(* What a step on the shops does to an address: nothing, a shop opens at   *)
(* it, a shop moves to it, or the limit of a shop changes.                 *)
Moves(x, from, to, cap) ==
  /\ x \in Shops /\ from \in Slugs /\ to \in Slugs /\ cap \in Caps
  /\ shop' = [shop EXCEPT ![x] = [slug |-> to, cap |-> cap, rule |-> cap]]
  /\ held' = [held EXCEPT ![to] = @ \cup {x}]
  /\ IF from # to THEN RecordSlugChange(x, from, to) ELSE UNCHANGED retired

LEMMA ShopRows ==
  ASSUME MerchantType, Asked, ShopNext
  PROVE  /\ \/ UNCHANGED shopVars
            \/ /\ \E x \in Shops \ Running, slug \in Slugs :
                    /\ Opens(x, slug)
                    /\ \/ "slug" \in crossed'
                       \/ FreeIn(shop, retired, slug, Nil)
                       \/ <<x, slug>> \in regiven'
               /\ UNCHANGED retired
            \/ \E x \in Shops, from \in Slugs, to \in Slugs, cap \in Caps :
                 /\ Moves(x, from, to, cap)
                 /\ \/ "slug" \in crossed'
                    \/ from = shop[x].slug /\ (to # from => FreeIn(shop, retired, to, x))
            \/ /\ \E x \in Running, cap \in Caps : shop' = [shop EXCEPT ![x].rule = cap]
               /\ UNCHANGED <<held, retired>>
         /\ crossed \subseteq crossed' /\ crossed' \subseteq crossed \cup {"slug"}
         /\ regiven \subseteq regiven' /\ regiven' \subseteq Shops \X Slugs
         /\ UNCHANGED <<plan, staffVars, tableVars>>
<1> DEFINE Same == UNCHANGED <<plan, staffVars, tableVars>>
           Grows == /\ crossed \subseteq crossed' /\ crossed' \subseteq crossed \cup {"slug"}
                    /\ regiven \subseteq regiven' /\ regiven' \subseteq Shops \X Slugs
<1>0. regiven \subseteq Shops \X Slugs
  BY DEF MerchantType
<1>1. ASSUME NEW w \in Clerks, NEW slug \in Slugs,
             \/ AskCreateShop(w, slug)
             \/ \E x \in Shops, cap \in Caps : AskUpdateShop(w, x, slug, cap)
      PROVE  Same /\ Grows /\ UNCHANGED shopVars
  BY <1>0, <1>1 DEF AskCreateShop, AskUpdateShop, shopVars
<1>2. ASSUME NEW w \in Clerks, CreateShop(w)
      PROVE  /\ Same /\ Grows
             /\ \/ UNCHANGED shopVars
                \/ /\ \E x \in Shops \ Running, slug \in Slugs :
                        /\ Opens(x, slug)
                        /\ "slug" \in crossed' \/ FreeIn(shop, retired, slug, Nil)
                   /\ UNCHANGED retired
  <2>1. Same /\ UNCHANGED <<retired, regiven>>
    BY <1>2 DEF CreateShop
  <2>2. CASE UNCHANGED <<shop, held, crossed>>
    BY <1>0, <2>1, <2>2 DEF shopVars
  <2>3. ASSUME NEW x \in NextOf(Shops, Running), Opens(x, Arg(w)), SlugCrossed(w)
        PROVE  /\ Grows
               /\ \E y \in Shops \ Running, slug \in Slugs :
                     Opens(y, slug) /\ ("slug" \in crossed' \/ FreeIn(shop, retired, slug, Nil))
    <3>1. x \in Shops \ Running
      BY <2>3, NextOfIsOne
    <3>2. Arg(w) \in Slugs /\ FreeIn(req[w].seen[1], req[w].seen[2], Arg(w), Nil)
      BY <1>2 DEF CreateShop, Asked, Checked, AskedShop, On, Arg
    <3>3. CASE req[w].seen = SlugSeen
      <4>1. FreeIn(shop, retired, Arg(w), Nil)
        BY <3>2, <3>3 DEF SlugSeen
      <4> QED
        BY <1>0, <2>1, <2>3, <3>1, <3>2, <3>3, <4>1 DEF SlugCrossed
    <3>4. CASE req[w].seen # SlugSeen
      BY <1>0, <2>1, <2>3, <3>1, <3>2, <3>4 DEF SlugCrossed
    <3> QED
      BY <3>3, <3>4
  <2> QED
    BY <1>2, <2>1, <2>2, <2>3 DEF CreateShop
<1>3. ASSUME NEW w \in Clerks, UpdateShop(w)
      PROVE  /\ Same /\ Grows
             /\ \/ UNCHANGED shopVars
                \/ \E x \in Shops, from \in Slugs, to \in Slugs, cap \in Caps :
                     /\ Moves(x, from, to, cap)
                     /\ \/ "slug" \in crossed'
                        \/ from = shop[x].slug /\ (to # from => FreeIn(shop, retired, to, x))
  <2> DEFINE x == Arg(w)[1]  from == Arg(w)[2]  to == Arg(w)[3]  cap == Arg(w)[4]
  <2>1. /\ x \in Shops /\ from \in Slugs /\ to \in Slugs /\ cap \in Caps
        /\ from = req[w].seen[1][x].slug
        /\ to # from => FreeIn(req[w].seen[1], req[w].seen[2], to, x)
    BY <1>3 DEF UpdateShop, Asked, Checked, AskedShop, On, Arg
  <2>2. Same
    BY <1>3 DEF UpdateShop
  <2>3. CASE UNCHANGED <<shopVars, crossed>>
    BY <1>0, <2>2, <2>3 DEF shopVars
  <2>4. CASE ~ UNCHANGED <<shopVars, crossed>>
    <3>1. Moves(x, from, to, cap) /\ SlugCrossed(w) /\ UNCHANGED regiven
      BY <1>3, <2>1, <2>4 DEF UpdateShop, Moves
    <3> HIDE DEF x, from, to, cap
    <3>2. CASE req[w].seen = SlugSeen
      <4>1. from = shop[x].slug /\ (to # from => FreeIn(shop, retired, to, x))
        BY <2>1, <3>2 DEF SlugSeen
      <4> QED
        BY <1>0, <2>1, <2>2, <3>1, <3>2, <4>1 DEF SlugCrossed
    <3>3. CASE req[w].seen # SlugSeen
      BY <1>0, <2>1, <2>2, <3>1, <3>3 DEF SlugCrossed
    <3> QED
      BY <3>2, <3>3
  <2> QED
    BY <2>3, <2>4
<1>4. ASSUME NEW slug \in Slugs, TenantShop(slug)
      PROVE  /\ Same /\ Grows /\ UNCHANGED retired
             /\ \E x \in Shops \ Running :
                  /\ Opens(x, slug)
                  /\ FreeIn(shop, retired, slug, Nil) \/ <<x, slug>> \in regiven'
  <2>1. PICK x \in Shops \ Running :
          /\ Opens(x, slug)
          /\ regiven' = IF retired[slug] = Nil THEN regiven ELSE regiven \cup {<<x, slug>>}
    BY <1>4, NextOfIsOne DEF TenantShop
  <2>2. Same /\ Grows /\ UNCHANGED retired
    BY <1>0, <1>4, <2>1 DEF TenantShop
  <2>4. retired[slug] = Nil => FreeIn(shop, retired, slug, Nil)
    <3>1. SlugAvailable(slug, Nil) <=> SlugLiveOnly(slug, Nil) /\ retired[slug] \in {Nil}
      BY DEF SlugAvailable, SlugLiveOnly
    <3> QED
      BY <1>4, <3>1, SlugIsFree DEF TenantShop
  <2> QED
    BY <2>1, <2>2, <2>4
<1>5. ASSUME NEW x \in Shops, NEW cap \in Caps, UpdateCapacityRule(x, cap)
      PROVE  /\ Same /\ Grows /\ UNCHANGED <<held, retired>>
             /\ x \in Running /\ shop' = [shop EXCEPT ![x].rule = cap]
  BY <1>0, <1>5 DEF UpdateCapacityRule
<1> HIDE DEF Same, Grows
<1>6. Same /\ Grows
  BY <1>1, <1>2, <1>3, <1>4, <1>5 DEF ShopNext
<1> QED
  BY <1>1, <1>2, <1>3, <1>4, <1>5, <1>6 DEF ShopNext, Same, Grows

(* What the rows of a table become: less, or those of one form besides     *)
(* what an old read left behind.                                           *)
Written(form, by) == {[from |-> s[1], to |-> s[2], by |-> by] : s \in form}

LEMMA TableRows ==
  ASSUME MerchantType, Asked, TableNext
  PROVE  /\ \/ rows' = rows
            \/ \E t \in Tables : \E less \in SUBSET rows[t] : rows' = [rows EXCEPT ![t] = less]
            \/ \E t \in Tables, form \in SUBSET Spans, by \in Nat : \E left \in SUBSET rows[t] :
                 /\ GoodForm(t, form) /\ (t \in crossed' \/ left = {})
                 /\ rows' = [rows EXCEPT ![t] = left \cup Written(form, by)]
         /\ saves' \in Nat
         /\ crossed \subseteq crossed' /\ crossed' \subseteq crossed \cup Tables
         /\ UNCHANGED <<plan, staffVars, shopVars>>
<1> DEFINE Same == /\ saves' \in Nat /\ UNCHANGED <<plan, staffVars, shopVars>>
                   /\ crossed \subseteq crossed' /\ crossed' \subseteq crossed \cup Tables
<1>1. ASSUME NEW w, NEW table, NEW form, BeginSave(w, table, form)
      PROVE  Same /\ rows' = rows
  BY <1>1 DEF BeginSave, MerchantType
<1>2. ASSUME NEW w \in Clerks, CommitSave(w)
      PROVE  /\ Same
             /\ \E t \in Tables, form \in SUBSET Spans, by \in Nat : \E left \in SUBSET rows[t] :
                 /\ GoodForm(t, form) /\ (t \in crossed' \/ left = {})
                 /\ rows' = [rows EXCEPT ![t] = left \cup Written(form, by)]
  <2> DEFINE t == Arg(w)[1]  form == Arg(w)[2]  by == Arg(w)[3]
             left == rows[t] \ req[w].seen
  <2>1. t \in Tables /\ form \in SUBSET Spans /\ by \in Nat /\ GoodForm(t, form)
    BY <1>2 DEF CommitSave, Asked, Checked, AskedSave, On, Arg
  <2>2. rows' = [rows EXCEPT ![t] = left \cup Written(form, by)]
    BY <1>2, <2>1 DEF CommitSave, Saved, Written, MerchantType
  <2>3. crossed' = IF rows[t] = req[w].seen THEN crossed ELSE crossed \cup {t}
    BY <1>2 DEF CommitSave
  <2>4. t \in crossed' \/ left = {}
    BY <2>3
  <2>5. Same
    BY <1>2, <2>1, <2>3 DEF CommitSave, MerchantType
  <2> QED
    BY <2>1, <2>2, <2>4, <2>5
<1>3. ASSUME NEW row \in rows["override"], DeleteOverride(row)
      PROVE  Same /\ rows' = [rows EXCEPT !["override"] = rows["override"] \ {row}]
  BY <1>3 DEF DeleteOverride, MerchantType, Tables
<1>4. ASSUME NEW type, AddSpecialDay(type) \/ DeleteSpecialDay
      PROVE  Same /\ rows' = rows
  BY <1>4 DEF AddSpecialDay, DeleteSpecialDay, MerchantType
<1> HIDE DEF Same
<1>5. Same
  BY <1>1, <1>2, <1>3, <1>4 DEF TableNext
<1>6. "override" \in Tables /\ \A row : rows["override"] \ {row} \in SUBSET rows["override"]
  BY DEF Tables
<1>7. \/ rows' = rows
      \/ \E t \in Tables : \E less \in SUBSET rows[t] : rows' = [rows EXCEPT ![t] = less]
      \/ \E t \in Tables, form \in SUBSET Spans, by \in Nat : \E left \in SUBSET rows[t] :
           /\ GoodForm(t, form) /\ (t \in crossed' \/ left = {})
           /\ rows' = [rows EXCEPT ![t] = left \cup Written(form, by)]
  BY <1>1, <1>2, <1>3, <1>4, <1>6 DEF TableNext
<1> QED
  BY <1>5, <1>7 DEF Same

LEMMA OtherRows ==
  ASSUME MenuNext \/ UNCHANGED mvars \/ \E w \in Clerks : Dies(w)
  PROVE  UNCHANGED <<plan, staff, shopVars, tableVars, crossed>>
<1>1. CASE MenuNext
  BY <1>1 DEF MenuNext, AskSaveService, SaveService, SoftDeleteService, staffVars
<1>2. CASE UNCHANGED mvars
  BY <1>2 DEF mvars, shopVars, tableVars
<1>3. CASE \E w \in Clerks : Dies(w)
  BY <1>3 DEF Dies, staffVars
<1> QED
  BY <1>1, <1>2, <1>3

LEMMA InitMerchant == Init => MerchantType /\ Asked
<1> SUFFICES ASSUME Init PROVE MerchantType /\ Asked
  OBVIOUS
<1>1. /\ plan \in [staff : Int, shops : {Cardinality(Shops)}] /\ saves \in Nat
      /\ crossed = {} /\ regiven = {}
  BY DEF Init
<1>2. staff \in [Staff -> StaffRow]
  BY DEF Init, NoStaff, StaffRow
<1>3. PICK slug \in Slugs :
        /\ shop = [x \in Shops |-> IF x = 1 THEN [slug |-> slug, cap |-> 1, rule |-> 1]
                                   ELSE [slug |-> Nil, cap |-> 0, rule |-> 0]]
        /\ held = [s \in Slugs |-> IF s = slug THEN {1} ELSE {}]
  BY DEF Init
<1>4. 1 \in Shops
  BY MerchantAssumption DEF MerchantAssumption
<1>5. /\ held \in [Slugs -> SUBSET Shops]
      /\ shop \in [Shops -> [slug : Slugs \cup {Nil}, cap : Caps \cup {0, 1},
                             rule : Caps \cup {0, 1}]]
  BY <1>3, <1>4
<1>6. retired \in [Slugs -> Shops \cup {Nil}] /\ rows \in [Tables -> SUBSET Row]
  BY DEF Init
<1>7. req = [w \in Clerks |-> req[w]] /\ \A w \in Clerks : req[w] = Idle
  BY DEF Init
<1> QED
  BY <1>1, <1>2, <1>5, <1>6, <1>7, IdleAsks DEF MerchantType, Asked

LEMMA StepMerchant ==
  ASSUME MerchantType, Asked, [Next]_mvars
  PROVE  MerchantType' /\ Asked'
<1>1. OneAsks
  BY ReqSteps
<1>2. Asked'
  BY <1>1, StepAsked
<1>3. req' = [w \in Clerks |-> req'[w]]
  BY <1>1 DEF OneAsks, MerchantType
<1>4. CASE StaffNext
  <2>1. staff' \in [Staff -> StaffRow]
    BY <1>4, StaffRows DEF MerchantType
  <2>2. plan' \in [staff : Int, shops : {Cardinality(Shops)}]
    BY <1>4, StaffRows DEF MerchantType
  <2> QED
    BY <1>2, <1>3, <1>4, <2>1, <2>2, StaffRows DEF MerchantType, shopVars, tableVars
<1>5. CASE ShopNext
  <2> DEFINE Shapes == /\ shop' \in [Shops -> [slug : Slugs \cup {Nil}, cap : Caps \cup {0, 1},
                                           rule : Caps \cup {0, 1}]]
                       /\ held' \in [Slugs -> SUBSET Shops]
                       /\ retired' \in [Slugs -> Shops \cup {Nil}]
  <2>1. ASSUME UNCHANGED shopVars PROVE Shapes
    BY <2>1 DEF MerchantType, shopVars
  <2>2. ASSUME NEW x \in Shops, NEW slug \in Slugs, Opens(x, slug), UNCHANGED retired PROVE Shapes
    BY <2>2 DEF MerchantType, Opens
  <2>3. ASSUME NEW x \in Shops, NEW from \in Slugs, NEW to \in Slugs, NEW cap \in Caps,
               Moves(x, from, to, cap)
        PROVE  Shapes
    BY <2>3 DEF MerchantType, Moves, RecordSlugChange
  <2>4. ASSUME NEW x \in Running, NEW cap \in Caps, shop' = [shop EXCEPT ![x].rule = cap],
               UNCHANGED <<held, retired>>
        PROVE  Shapes
    BY <2>4 DEF MerchantType, Running
  <2> HIDE DEF Shapes
  <2>5. Shapes
    BY <1>5, <2>1, <2>2, <2>3, <2>4, ShopRows
  <2> QED
    BY <1>2, <1>3, <1>5, <2>5, ShopRows DEF MerchantType, staffVars, tableVars, Shapes
<1>6. CASE TableNext
  <2>1. \A form \in SUBSET Spans, by \in Nat : Written(form, by) \subseteq Row
    BY MerchantAssumption DEF MerchantAssumption, Written, Row
  <2>2. rows' \in [Tables -> SUBSET Row]
    BY <1>6, <2>1, TableRows DEF MerchantType
  <2> QED
    BY <1>2, <1>3, <1>6, <2>2, TableRows DEF MerchantType, staffVars, shopVars
<1>7. CASE UNCHANGED <<plan, staff, shopVars, tableVars, crossed>>
  BY <1>2, <1>3, <1>7 DEF MerchantType, shopVars, tableVars
<1> QED
  BY <1>4, <1>5, <1>6, <1>7, OtherRows DEF Next

-----------------------------------------------------------------------------
(* Addresses                                                               *)

(* A shop has had the address it has; whoever else had it was put there    *)
(* by the platform; and an address that was somebody's is a shop's still,  *)
(* or was given up by one that had it.                                     *)
Traced ==
  "slug" \notin crossed =>
    /\ \A s \in Slugs : \A x, y \in held[s] : x = y \/ {<<x, s>>, <<y, s>>} \cap regiven # {}
    /\ \A x \in Running : x \in held[shop[x].slug]
    /\ \A s \in Slugs : held[s] # {} => \/ \E x \in Shops : shop[x].slug = s
                                         \/ retired[s] \in held[s]

(* The address was nobody's, or the shop's own.                            *)
LEMMA FreeIsNew ==
  ASSUME MerchantType, Traced, "slug" \notin crossed, NEW slug \in Slugs, NEW self,
         FreeIn(shop, retired, slug, self)
  PROVE  held[slug] = {} \/ self \in held[slug]
<1>1. CASE \E x \in Shops : shop[x].slug = slug
  <2>1. PICK x \in Shops : shop[x].slug = slug
    BY <1>1
  <2>2. x = self /\ x \in Running
    BY <2>1, MerchantAssumption DEF FreeIn, Running, MerchantAssumption
  <2> QED
    BY <2>1, <2>2 DEF Traced
<1>2. CASE retired[slug] \in held[slug]
  <2>1. retired[slug] # Nil
    BY <1>2, MerchantAssumption DEF MerchantAssumption, MerchantType
  <2> QED
    BY <1>2, <2>1 DEF FreeIn
<1> QED
  BY <1>1, <1>2 DEF Traced

LEMMA OpensTraced ==
  ASSUME MerchantType, Traced, "slug" \notin crossed, crossed' = crossed,
         NEW x \in Shops \ Running, NEW slug \in Slugs, Opens(x, slug), UNCHANGED retired,
         regiven \subseteq regiven',
         FreeIn(shop, retired, slug, Nil) \/ <<x, slug>> \in regiven'
  PROVE  Traced'
<1>1. held[slug] = {} \/ <<x, slug>> \in regiven'
  BY FreeIsNew, MerchantAssumption DEF MerchantAssumption, MerchantType
<1>2. /\ shop'[x].slug = slug /\ held'[slug] = held[slug] \cup {x}
      /\ \A y \in Shops \ {x} : shop'[y] = shop[y]
      /\ \A s \in Slugs \ {slug} : held'[s] = held[s]
  BY DEF Opens, MerchantType
<1>3. \A s \in Slugs : shop[x].slug # s
  BY MerchantAssumption DEF MerchantAssumption, Running
<1>4. ASSUME NEW s \in Slugs, NEW y \in held'[s], NEW z \in held'[s], y # z
      PROVE  {<<y, s>>, <<z, s>>} \cap regiven' # {}
  <2>1. CASE y \in held[s] /\ z \in held[s]
    BY <1>4, <2>1 DEF Traced
  <2>2. CASE ~ (y \in held[s] /\ z \in held[s])
    BY <1>1, <1>2, <1>4, <2>2
  <2> QED
    BY <2>1, <2>2
<1>5. ASSUME NEW y \in Shops, shop'[y].slug # Nil PROVE y \in held'[shop'[y].slug]
  <2>1. CASE y = x
    BY <1>2, <2>1
  <2>2. CASE y # x
    <3>1. y \in Running /\ shop'[y] = shop[y] /\ shop[y].slug \in Slugs
      BY <1>2, <1>5, <2>2 DEF Running, MerchantType
    <3>2. y \in held[shop[y].slug]
      BY <3>1 DEF Traced
    <3> QED
      BY <1>2, <3>1, <3>2
  <2> QED
    BY <2>1, <2>2
<1>6. ASSUME NEW s \in Slugs, held'[s] # {}
      PROVE  (\E y \in Shops : shop'[y].slug = s) \/ retired'[s] \in held'[s]
  <2>1. CASE s = slug
    BY <1>2, <2>1
  <2>2. CASE s # slug
    <3>1. held'[s] = held[s] /\ retired'[s] = retired[s]
      BY <1>2, <2>2
    <3>2. ASSUME NEW y \in Shops, shop[y].slug = s PROVE shop'[y].slug = s
      BY <1>2, <1>3, <3>2
    <3> QED
      BY <1>6, <3>1, <3>2 DEF Traced
  <2> QED
    BY <2>1, <2>2
<1> QED
  BY <1>4, <1>5, <1>6 DEF Traced, Running

LEMMA MovesTraced ==
  ASSUME MerchantType, Traced, "slug" \notin crossed, crossed' = crossed,
         NEW x \in Shops, NEW from \in Slugs, NEW to \in Slugs, NEW cap \in Caps,
         Moves(x, from, to, cap), from = shop[x].slug, regiven \subseteq regiven',
         to # from => FreeIn(shop, retired, to, x)
  PROVE  Traced'
<1>1. x \in held[from]
  BY MerchantAssumption DEF MerchantAssumption, MerchantType, Traced, Running
<1>2. held[to] = {} \/ x \in held[to]
  BY <1>1, FreeIsNew
<1>3. /\ shop'[x].slug = to /\ held'[to] = held[to] \cup {x}
      /\ \A y \in Shops \ {x} : shop'[y] = shop[y]
      /\ \A s \in Slugs \ {to} : held'[s] = held[s]
  BY DEF Moves, MerchantType
<1>4. to # from => /\ retired'[from] = x
                   /\ \A s \in Slugs \ {from, to} : retired'[s] = retired[s]
  BY DEF Moves, RecordSlugChange, MerchantType
<1>5. to = from => retired' = retired
  BY DEF Moves
<1>6. ASSUME NEW s \in Slugs, NEW y \in held'[s], NEW z \in held'[s], y # z
      PROVE  {<<y, s>>, <<z, s>>} \cap regiven' # {}
  <2>1. y \in held[s] /\ z \in held[s]
    BY <1>2, <1>3, <1>6
  <2> QED
    BY <1>6, <2>1 DEF Traced
<1>7. ASSUME NEW y \in Shops, shop'[y].slug # Nil PROVE y \in held'[shop'[y].slug]
  <2>1. CASE y = x
    BY <1>3, <2>1
  <2>2. CASE y # x
    <3>1. y \in Running /\ shop'[y] = shop[y] /\ shop[y].slug \in Slugs
      BY <1>3, <1>7, <2>2 DEF Running, MerchantType
    <3>2. y \in held[shop[y].slug]
      BY <3>1 DEF Traced
    <3> QED
      BY <1>3, <3>1, <3>2
  <2> QED
    BY <2>1, <2>2
<1>8. ASSUME NEW s \in Slugs, held'[s] # {}
      PROVE  (\E y \in Shops : shop'[y].slug = s) \/ retired'[s] \in held'[s]
  <2>1. CASE s = to
    BY <1>3, <2>1
  <2>2. CASE s # to /\ s = from
    BY <1>1, <1>3, <1>4, <2>2
  <2>3. CASE s # to /\ s # from
    <3>1. held'[s] = held[s] /\ retired'[s] = retired[s]
      BY <1>3, <1>4, <1>5, <2>3
    <3>2. ASSUME NEW y \in Shops, shop[y].slug = s PROVE shop'[y].slug = s
      BY <1>3, <2>3, <3>2
    <3> QED
      BY <1>8, <3>1, <3>2 DEF Traced
  <2> QED
    BY <2>1, <2>2, <2>3
<1> QED
  BY <1>6, <1>7, <1>8 DEF Traced, Running

LEMMA StepTraced ==
  ASSUME MerchantType, Asked, Traced, [Next]_mvars
  PROVE  Traced'
<1>1. CASE crossed' = crossed \/ "slug" \in crossed'
  <2> SUFFICES ASSUME "slug" \notin crossed', crossed' = crossed, "slug" \notin crossed
               PROVE  Traced'
    BY <1>1 DEF Traced
  <2>1. CASE ShopNext
    <3>1. ASSUME NEW x \in Running, NEW cap \in Caps, shop' = [shop EXCEPT ![x].rule = cap],
                 UNCHANGED <<held, retired>>
          PROVE  Traced'
      <4>1. \A y \in Shops : shop'[y].slug = shop[y].slug
        BY <3>1 DEF MerchantType, Running
      <4>2. regiven \subseteq regiven'
        BY <2>1, ShopRows
      <4>3. Running' = Running
        BY <4>1 DEF Running
      <4> QED
        BY <3>1, <4>1, <4>2, <4>3 DEF Traced, Running
    <3>2. UNCHANGED shopVars => Traced'
      BY DEF shopVars, Traced, Running
    <3> QED
      BY <2>1, <3>1, <3>2, ShopRows, OpensTraced, MovesTraced
  <2>2. CASE UNCHANGED shopVars
    BY <2>2 DEF shopVars, Traced, Running
  <2> QED
    BY <2>1, <2>2, StaffRows, TableRows, OtherRows DEF Next
<1>2. CASE crossed' # crossed /\ "slug" \notin crossed'
  <2>1. "slug" \notin crossed /\ UNCHANGED shopVars
    BY <1>2, StaffRows, ShopRows, TableRows, OtherRows DEF Next
  <2> QED
    BY <2>1 DEF shopVars, Traced, Running
<1> QED
  BY <1>1, <1>2

LEMMA InitTraced == Init => Traced
<1> SUFFICES ASSUME Init PROVE Traced
  OBVIOUS
<1>1. PICK slug \in Slugs :
        /\ shop = [x \in Shops |-> IF x = 1 THEN [slug |-> slug, cap |-> 1, rule |-> 1]
                                   ELSE [slug |-> Nil, cap |-> 0, rule |-> 0]]
        /\ held = [s \in Slugs |-> IF s = slug THEN {1} ELSE {}]
  BY DEF Init
<1>2. 1 \in Shops /\ Nil \notin Slugs
  BY MerchantAssumption DEF MerchantAssumption
<1>3. \A x \in Shops : shop[x].slug = IF x = 1 THEN slug ELSE Nil
  BY <1>1
<1> QED
  BY <1>1, <1>2, <1>3 DEF Traced, Running

(***************************************************************************)
(* An address is given to no second shop, but by the platform: whatever it *)
(* is renamed to and back, by however many requests, for every number of   *)
(* shops.  The history of addresses alone does not give it: a shop need    *)
(* have no row in it for the address it has now (Traced).                  *)
(***************************************************************************)
THEOREM AddressesStay == Spec => []SlugNeverReused
<1>1. Init => MerchantType /\ Asked /\ Traced
  BY InitMerchant, InitTraced
<1>2. MerchantType /\ Asked /\ Traced /\ [Next]_mvars => (MerchantType /\ Asked /\ Traced)'
  BY StepMerchant, StepTraced
<1>3. MerchantType /\ Traced => SlugNeverReused
  <2> SUFFICES ASSUME MerchantType, Traced, "slug" \notin crossed, NEW s \in Slugs
               PROVE  Cardinality({x \in held[s] : <<x, s>> \notin regiven}) <= 1
    BY DEF SlugNeverReused
  <2> DEFINE Asking == {x \in held[s] : <<x, s>> \notin regiven}
  <2>1. Asking = {} => Cardinality(Asking) <= 1
    <3> HIDE DEF Asking
    <3> QED
      BY FS_EmptySet
  <2>2. ASSUME NEW x \in Asking PROVE Cardinality(Asking) <= 1
    <3>1. \A y \in Asking : y = x
      BY <2>2 DEF Traced
    <3>2. Asking = {x}
      BY <2>2, <3>1
    <3> HIDE DEF Asking
    <3> QED
      BY <3>2, FS_Singleton
  <2>3. Cardinality(Asking) <= 1
    BY <2>1, <2>2
  <2> QED
    BY <2>3
<1> QED
  BY <1>1, <1>2, <1>3, PTL DEF Spec

-----------------------------------------------------------------------------
(* Tables saved as a whole                                                 *)

LEMMA FormIsOne ==
  ASSUME NEW table, NEW form, GoodForm(table, form), NEW by,
         NEW a \in Written(form, by), NEW b \in Written(form, by)
  PROVE  /\ a.by = b.by
         /\ a # b => ~ Meets(<<a.from, a.to>>, <<b.from, b.to>>)
<1>1. PICK s \in form : a = [from |-> s[1], to |-> s[2], by |-> by]
  BY DEF Written
<1>2. PICK t \in form : b = [from |-> t[1], to |-> t[2], by |-> by]
  BY DEF Written
<1>3. a # b => ~ Meets(s, t)
  BY <1>1, <1>2 DEF GoodForm
<1> QED
  BY <1>1, <1>2, <1>3 DEF Meets

LEMMA StepOneForm ==
  ASSUME MerchantType, Asked, OneFormPerTable, [Next]_mvars
  PROVE  OneFormPerTable'
<1>1. ASSUME crossed \subseteq crossed', rows' = rows PROVE OneFormPerTable'
  BY <1>1 DEF OneFormPerTable
<1>2. CASE TableNext
  <2>1. crossed \subseteq crossed'
    BY <1>2, TableRows
  <2>2. ASSUME NEW t \in Tables, NEW less \in SUBSET rows[t], rows' = [rows EXCEPT ![t] = less]
        PROVE  OneFormPerTable'
    <3>1. \A u \in Tables : rows'[u] \subseteq rows[u]
      BY <2>2 DEF MerchantType
    <3> QED
      BY <2>1, <3>1 DEF OneFormPerTable
  <2>3. ASSUME NEW t \in Tables, NEW form \in SUBSET Spans, NEW by \in Nat,
               NEW left \in SUBSET rows[t], GoodForm(t, form), t \in crossed' \/ left = {},
               rows' = [rows EXCEPT ![t] = left \cup Written(form, by)]
        PROVE  OneFormPerTable'
    <3>1. \A u \in Tables \ {t} : rows'[u] = rows[u]
      BY <2>3 DEF MerchantType
    <3>2. t \notin crossed' => rows'[t] = Written(form, by)
      BY <2>3 DEF MerchantType
    <3>3. ASSUME NEW u \in Tables \ crossed', NEW a \in rows'[u], NEW b \in rows'[u]
          PROVE  /\ a.by = b.by
                 /\ a # b => ~ Meets(<<a.from, a.to>>, <<b.from, b.to>>)
      <4>1. CASE u = t
        BY <2>3, <3>2, <3>3, <4>1, FormIsOne
      <4>2. CASE u # t
        <5>1. u \in Tables \ crossed /\ a \in rows[u] /\ b \in rows[u]
          BY <2>1, <3>1, <3>3, <4>2
        <5> QED
          BY <5>1 DEF OneFormPerTable
      <4> QED
        BY <4>1, <4>2
    <3> QED
      BY <3>3 DEF OneFormPerTable
  <2> QED
    BY <1>1, <1>2, <2>1, <2>2, <2>3, TableRows
<1>3. CASE ~ TableNext
  <2>1. crossed \subseteq crossed' /\ rows' = rows
    BY <1>3, StaffRows, ShopRows, OtherRows DEF Next, tableVars
  <2> QED
    BY <1>1, <2>1
<1> QED
  BY <1>2, <1>3

(***************************************************************************)
(* The opening hours, the shifts and the absences that are read are always *)
(* those of one form, so none of them meet.                                *)
(***************************************************************************)
THEOREM TablesAreWhole == Spec => []OneFormPerTable
<1>1. Init => MerchantType /\ Asked /\ OneFormPerTable
  <2>1. Init => OneFormPerTable
    BY DEF Init, OneFormPerTable
  <2> QED
    BY <2>1, InitMerchant
<1>2. MerchantType /\ Asked /\ OneFormPerTable /\ [Next]_mvars
      => (MerchantType /\ Asked /\ OneFormPerTable)'
  BY StepMerchant, StepOneForm
<1> QED
  BY <1>1, <1>2, PTL DEF Spec

-----------------------------------------------------------------------------
(* The plan                                                                *)

LEMMA OnDutyFinite ==
  /\ IsFiniteSet(OnDuty) /\ Cardinality(OnDuty) \in Nat
  /\ IsFiniteSet(OnDuty') /\ Cardinality(OnDuty') \in Nat
<1>1. OnDuty \subseteq Staff /\ OnDuty' \subseteq Staff /\ IsFiniteSet(Staff)
  BY MerchantAssumption DEF MerchantAssumption, OnDuty, Hired
<1> QED
  BY <1>1, FS_Subset, FS_CardinalityType

LEMMA NotMore ==
  ASSUME OnDuty' \subseteq OnDuty
  PROVE  ~ (Cardinality(OnDuty') > Cardinality(OnDuty))
  BY OnDutyFinite, FS_Subset

(* One more than those a request counted still fits.                       *)
LEMMA OneMoreFits ==
  ASSUME MerchantType, NEW w \in Clerks, StaffCrossed(w), "staff" \notin crossed',
         QuotaLeft(Cardinality(req[w].seen.active), req[w].seen.max),
         NEW s, OnDuty' \subseteq OnDuty \cup {s}
  PROVE  Cardinality(OnDuty') <= plan.staff
<1>1. req[w].seen = StaffSeen
  BY DEF StaffCrossed
<1>2. Cardinality(OnDuty) < plan.staff /\ plan.staff \in Int
  BY <1>1 DEF StaffSeen, QuotaLeft, MerchantType
<1>3. IsFiniteSet(OnDuty \cup {s}) /\ Cardinality(OnDuty \cup {s}) <= Cardinality(OnDuty) + 1
  BY OnDutyFinite, FS_AddElement
<1>4. Cardinality(OnDuty') <= Cardinality(OnDuty \cup {s}) /\ Cardinality(OnDuty \cup {s}) \in Nat
  BY <1>3, FS_Subset, FS_CardinalityType
<1> QED
  BY <1>2, <1>3, <1>4, OnDutyFinite

LEMMA StepWithinPlan ==
  ASSUME MerchantType, Asked, [Next]_mvars,
         Cardinality(OnDuty') > Cardinality(OnDuty), "staff" \notin crossed'
  PROVE  Cardinality(OnDuty') <= plan.staff
<1>1. staff' # staff
  BY NotMore DEF OnDuty, Hired
<1>2. ASSUME NEW w \in Clerks, CreateStaff(w) PROVE Cardinality(OnDuty') <= plan.staff
  <2>1. PICK s \in Staff, bookable \in BOOLEAN : staff' = [staff EXCEPT ![s] =
              [status |-> Arg(w), deleted |-> FALSE, bookable |-> bookable,
               shifts |-> rows["hours"] # {}]]
    BY <1>2, NextOfIsOne DEF CreateStaff
  <2>2. OnDuty' \subseteq OnDuty \cup {s} /\ (Arg(w) # "ACTIVE" => OnDuty' \subseteq OnDuty)
    BY <2>1 DEF OnDuty, Hired, MerchantType
  <2>3. Arg(w) = "ACTIVE"
    BY <2>2, NotMore
  <2>4. QuotaLeft(Cardinality(req[w].seen.active), req[w].seen.max)
    BY <1>2, <2>3 DEF CreateStaff, Asked, Checked, AskedStaff, On, Arg
  <2> QED
    BY <1>2, <2>2, <2>4, OneMoreFits DEF CreateStaff
<1>3. ASSUME NEW w \in Clerks, UpdateStaff(w) PROVE Cardinality(OnDuty') <= plan.staff
  <2>1. PICK s \in Staff, status \in Statuses : s = Arg(w)[1] /\ status = Arg(w)[2]
    BY <1>3 DEF UpdateStaff, Asked, Checked, AskedStaff, On, Arg
  <2>2. PICK bookable \in BOOLEAN : staff' = [staff EXCEPT ![s] =
                 [staff[s] EXCEPT !.status = status, !.bookable = bookable]]
    BY <1>3, <2>1 DEF UpdateStaff
  <2>3. /\ \A o \in Staff \ {s} : staff'[o] = staff[o]
        /\ staff'[s].status = status /\ staff'[s].deleted = staff[s].deleted
    BY <2>2 DEF MerchantType, StaffRow
  <2>4. /\ OnDuty' \subseteq OnDuty \cup {s}
        /\ status # "ACTIVE" \/ s \in OnDuty => OnDuty' \subseteq OnDuty
    BY <2>3 DEF OnDuty, Hired
  <2>5. status = "ACTIVE" /\ s \notin OnDuty
    BY <2>4, NotMore
  <2>6. req[w].seen.active = OnDuty
    BY <1>3 DEF UpdateStaff, StaffCrossed, StaffSeen
  <2>7. QuotaLeft(Cardinality(req[w].seen.active), req[w].seen.max)
    <3>1. req[w].op = "updateStaff" /\ req[w].arg[1] = s /\ req[w].arg[2] = status
      BY <1>3, <2>1 DEF UpdateStaff, On, Arg
    <3> QED
      BY <2>5, <2>6, <3>1 DEF Asked, Checked, AskedStaff
  <2> QED
    BY <1>3, <2>4, <2>7, OneMoreFits DEF UpdateStaff
<1>4. ASSUME NEW s \in Staff, SoftDeleteStaff(s) PROVE FALSE
  <2>1. \A o \in Staff \ {s} : staff'[o] = staff[o]
    BY <1>4 DEF SoftDeleteStaff, MerchantType
  <2>2. staff'[s].deleted
    BY <1>4 DEF SoftDeleteStaff, MerchantType, StaffRow
  <2>3. OnDuty' \subseteq OnDuty
    BY <2>1, <2>2 DEF OnDuty, Hired
  <2> QED
    BY <2>3, NotMore
<1>5. StaffNext
  BY <1>1, ShopRows, TableRows, OtherRows DEF Next, staffVars
<1> QED
  BY <1>1, <1>2, <1>3, <1>4, <1>5
     DEF StaffNext, AskCreateStaff, AskUpdateStaff, ChangePlan, staffVars

(***************************************************************************)
(* Nobody becomes active beyond the plan, for any number of staff and of   *)
(* requests.                                                               *)
(***************************************************************************)
THEOREM PlanIsKept == Spec => WithinPlan
<1>1. Init => MerchantType /\ Asked
  BY InitMerchant
<1>2. MerchantType /\ Asked /\ [Next]_mvars => (MerchantType /\ Asked)'
  BY StepMerchant
<1>3. MerchantType /\ Asked /\ [Next]_mvars
      => [Cardinality(OnDuty') > Cardinality(OnDuty) /\ "staff" \notin crossed' =>
            Cardinality(OnDuty') <= plan.staff]_mvars
  BY StepWithinPlan
<1> QED
  BY <1>1, <1>2, <1>3, PTL DEF Spec, WithinPlan

-----------------------------------------------------------------------------
(* The console.  A request leads to a page its sender may open, so a tab   *)
(* of the administration always has somebody it was rendered for; and what *)
(* its form holds is of the shop, or of the record, it is about.           *)

LEMMA PersonsAre ==
  ASSUME NEW p \in Persons
  PROVE  /\ p # Guest /\ p.platform \in BOOLEAN /\ p.tenant \in BOOLEAN
         /\ VisibleShops(p) # {} /\ VisibleShops(p) \subseteq Branches
         /\ \A m \in p.memberships : m.role \in DOMAIN SYSTEM_ROLES
BY ConsoleAssumption DEF ConsoleAssumption, VisibleShops

LEMMA PrimaryIsVisible ==
  ASSUME NEW p \in Persons, NEW chosen
  PROVE  PrimaryShop(p, chosen) \in VisibleShops(p) /\ PrimaryShop(p, chosen) \in Branches
<1>1. VisibleShops(p) # {} /\ VisibleShops(p) \subseteq Branches /\ Branches \subseteq Nat
  BY PersonsAre, ConsoleAssumption DEF ConsoleAssumption
<1>2. PICK least \in VisibleShops(p) : \A o \in VisibleShops(p) : least <= o
  BY <1>1, LeastNatural
<1>3. Oldest(VisibleShops(p)) \in VisibleShops(p)
  BY <1>2 DEF Oldest
<1> QED
  BY <1>1, <1>3 DEF PrimaryShop

(* The pages a redirect may lead to.                                       *)
LEMMA PageSets ==
  /\ {"home", "schedule", "billing", "bookingDetail"} \cup RowPages \subseteq TenantPages
  /\ "platform" \in PlatformPages
  /\ PlatformPages \cap TenantPages = {} /\ "login" \notin PlatformPages \cup TenantPages
  /\ Pages = TenantPages \cup PlatformPages \cup Files \cup {"login"} /\ "refused" \notin Pages
  /\ Files \cap (TenantPages \cup PlatformPages \cup {"login"}) = {}
  /\ "notFound" \notin TenantPages /\ Absent \notin Branches
<1>1. "notFound" \notin TenantPages /\ "login" \notin TenantPages
  BY DEF TenantPages, OWNER_ONLY
<1>2. {"home", "schedule", "billing", "bookingDetail"} \cup RowPages \subseteq TenantPages
  BY DEF TenantPages, OWNER_ONLY, RowPages, Files
<1>3. PlatformPages \cap TenantPages = {}
  BY DEF TenantPages, OWNER_ONLY, PlatformPages
<1>4. "platform" \in PlatformPages /\ "login" \notin PlatformPages
  BY DEF PlatformPages
<1>5. Files \cap (TenantPages \cup PlatformPages \cup {"login"}) = {}
  BY DEF Files, TenantPages, PlatformPages
<1>6. "refused" \notin TenantPages \cup PlatformPages \cup Files \cup {"login"}
  BY DEF Files, TenantPages, OWNER_ONLY, PlatformPages
<1> QED
  BY <1>1, <1>2, <1>3, <1>4, <1>5, <1>6, ConsoleAssumption DEF Pages, ConsoleAssumption

(* A request leads to a page, a file, or a refusal.                        *)
Answered == Pages \cup {"refused"}

LEMMA HopLeads ==
  ASSUME NEW p \in Persons \cup {Guest}, NEW shut, NEW page \in Answered
  PROVE  /\ Hop(p, shut, page) \in Answered
         /\ p = Guest /\ page # "refused" => Hop(p, shut, page) = "login"
<1>1. CASE page \in {"login", "refused"}
  BY <1>1, PageSets DEF Hop, Answered
<1>2. CASE page \notin {"login", "refused"} /\ p = Guest
  BY <1>2, PageSets DEF Hop, Answered
<1>3. CASE p # Guest /\ page \in PlatformPages
  <2>1. Hop(p, shut, page) = requirePlatformAdmin(p, page)
    BY <1>3, PageSets DEF Hop
  <2> QED
    BY <1>3, <2>1, PageSets DEF requirePlatformAdmin, Answered
<1>4. CASE p # Guest /\ page \in TenantPages
  <2>1. Hop(p, shut, page) = IF Guarded(p, page) THEN "schedule" ELSE requireTenantUser(p, shut, page)
    BY <1>4, PageSets DEF Hop
  <2>2. requireTenantUser(p, shut, page) \in Pages
    <3>1. p.platform \in BOOLEAN /\ p.tenant \in BOOLEAN
      BY <1>4, PersonsAre
    <3> QED
      BY <1>4, <3>1, PageSets DEF requireTenantUser
  <2> QED
    BY <1>4, <2>1, <2>2, PageSets DEF Answered
<1>5. CASE p # Guest /\ page \in Files
  <2>1. Hop(p, shut, page) = IF Guarded(p, page) THEN "schedule" ELSE exportBookings(p, page)
    BY <1>5, PageSets DEF Hop
  <2> QED
    BY <1>5, <2>1, PageSets DEF exportBookings, Answered
<1> QED
  BY <1>1, <1>2, <1>3, <1>4, <1>5, PageSets DEF Answered

LEMMA LandLeads ==
  ASSUME NEW p \in Persons \cup {Guest}, NEW shut, NEW page \in Pages
  PROVE  Land(p, shut, page) \in Answered /\ (p = Guest => Land(p, shut, page) = "login")
<1>0. page \in Answered /\ page # "refused" /\ "login" # "refused"
  BY PageSets DEF Answered
<1>1. PICK a \in Answered : a = Hop(p, shut, page)
  BY <1>0, HopLeads
<1>2. PICK b \in Answered : b = Hop(p, shut, a)
  BY HopLeads
<1>3. PICK c \in Answered : c = Hop(p, shut, b)
  BY HopLeads
<1>4. Land(p, shut, page) = Hop(p, shut, c)
  BY <1>1, <1>2, <1>3 DEF Land
<1> QED
  BY <1>0, <1>1, <1>2, <1>3, <1>4, HopLeads

-----------------------------------------------------------------------------
(* The tabs                                                                *)
Maybe == Branches \cup {Absent}

TabRow == [page : Answered \cup {"notFound"}, user : Persons \cup {Guest}, header : Maybe,
           shop : Maybe, row : Maybe, held : Maybe, seen : SUBSET Branches, behind : BOOLEAN]

(* A form holds what it loaded; a tab that is not behind is of the one who *)
(* is signed in and the shop chosen.                                       *)
TabOK(tab) ==
  InConsole(tab) =>
    /\ tab.user \in Persons /\ tab.shop \in Branches
    /\ tab.held = Loaded(tab.page, tab.shop, tab.row)
    /\ tab.page \in RowPages => tab.row \in Maybe
    /\ ~tab.behind =>
         /\ person \in Persons /\ tab.header = PrimaryShop(person, cookie)
         /\ tab.shop = tab.header /\ tab.seen \subseteq {tab.header}

SavedOK ==
  saved # Absent =>
    /\ saved.held \in {Absent, saved.to}
    /\ saved.shown \in {Absent, saved.to} \/ saved.page = "bookingDetail"

ConsoleInv ==
  /\ person \in Persons \cup {Guest}
  /\ tabs \in [Tabs -> TabRow] /\ \A t \in Tabs : TabOK(tabs[t])
  /\ SavedOK

(* A tab as a request of somebody makes it.                                *)
Fresh(tab, p, row) ==
  /\ tab \in TabRow /\ tab.behind = FALSE /\ tab.seen = {}
  /\ InConsole(tab) =>
       /\ p \in Persons /\ tab.user = p
       /\ tab.header = PrimaryShop(p, cookie) /\ tab.shop = tab.header
       /\ tab.row = (IF tab.page \in RowPages THEN row ELSE Absent)
       /\ tab.held = Loaded(tab.page, tab.shop, row)

LEMMA LoadedIsShop ==
  ASSUME NEW page, NEW salon \in Branches, NEW row \in Maybe
  PROVE  /\ Loaded(page, salon, row) \in Maybe
         /\ Loaded(page, salon, IF page \in RowPages THEN row ELSE Absent) = Loaded(page, salon, row)
BY DEF Loaded, Maybe

LEMMA RenderedIsFresh ==
  ASSUME NEW p \in Persons \cup {Guest}, NEW page \in Answered, NEW row \in Maybe,
         p = Guest => page = "login"
  PROVE  /\ Fresh(Rendered(p, page, row), p, row)
         /\ InConsole(Rendered(p, page, row)) => Rendered(p, page, row).page = page
<1>1. CASE page \notin TenantPages
  <2>1. Rendered(p, page, row) = BlankPage(page)
    BY <1>1 DEF Rendered
  <2>2. BlankPage(page) \in TabRow /\ BlankPage(page).behind = FALSE /\ BlankPage(page).seen = {}
        /\ BlankPage(page).page = page
    BY DEF BlankPage, TabRow, Maybe
  <2>3. ~ InConsole(BlankPage(page))
    BY <1>1, <2>2, PageSets DEF InConsole
  <2> QED
    BY <2>1, <2>2, <2>3 DEF Fresh
<1>2. CASE page \in TenantPages
  <2>1. p \in Persons /\ page \in TenantPages
    BY <1>2, PageSets
  <2>2. PICK salon \in Branches : salon = PrimaryShop(p, cookie)
    BY <2>1, PrimaryIsVisible
  <2>3. PICK shown : shown = (IF Found(p, page, row) THEN page ELSE "notFound")
    OBVIOUS
  <2>4. PICK kept : kept = Loaded(shown, salon, row)
    OBVIOUS
  <2>5. kept \in Maybe /\ shown \in Answered \cup {"notFound"}
    BY <2>3, <2>4, LoadedIsShop
  <2>6. PICK r : r = [page |-> shown, user |-> p, header |-> salon, shop |-> salon,
                      row |-> IF page \in RowPages THEN row ELSE Absent, held |-> kept,
                      seen |-> {}, behind |-> FALSE]
    OBVIOUS
  <2>7. Rendered(p, page, row) = r
    <3>1. Rendered(p, page, row) =
            [BlankPage(shown) EXCEPT !.user = p, !.header = salon, !.shop = salon,
               !.row = IF page \in RowPages THEN row ELSE Absent, !.held = kept]
      BY <1>2, <2>2, <2>3, <2>4, Zenon DEF Rendered
    <3> QED
      BY <2>6, <3>1 DEF BlankPage
  <2>8. r \in TabRow
    BY <2>1, <2>5, <2>6 DEF TabRow, Maybe
  <2>9. InConsole(r) => shown = page
    BY <2>3, <2>6, PageSets DEF InConsole
  <2>10. InConsole(r) => /\ r.row = (IF r.page \in RowPages THEN row ELSE Absent)
                         /\ r.held = Loaded(r.page, r.shop, row)
    BY <2>4, <2>6, <2>9
  <2>11. /\ r.behind = FALSE /\ r.seen = {} /\ r.user = p /\ r.header = PrimaryShop(p, cookie)
         /\ r.shop = r.header /\ r.page = shown
    BY <2>2, <2>6
  <2> QED
    BY <2>1, <2>7, <2>8, <2>9, <2>10, <2>11 DEF Fresh
<1> QED
  BY <1>1, <1>2

(* It is in order for whom it was rendered.                                *)
LEMMA FreshIsOK ==
  ASSUME NEW tab, NEW p, NEW row \in Maybe, Fresh(tab, p, row)
  PROVE  person = p => TabOK(tab)
<1> SUFFICES ASSUME person = p, InConsole(tab) PROVE TabOK(tab)
  BY DEF TabOK
<1>1. p \in Persons /\ tab.user = p /\ tab.header = PrimaryShop(p, cookie) /\ tab.shop = tab.header
      /\ tab.row = (IF tab.page \in RowPages THEN row ELSE Absent)
      /\ tab.held = Loaded(tab.page, tab.shop, row) /\ tab.seen = {}
  BY DEF Fresh
<1>2. tab.shop \in Branches
  BY <1>1, PrimaryIsVisible
<1>3. tab.held = Loaded(tab.page, tab.shop, tab.row)
  BY <1>1, <1>2, LoadedIsShop
<1> QED
  BY <1>1, <1>2, <1>3 DEF TabOK


-----------------------------------------------------------------------------
(* What the tables say                                                     *)
LEMMA EachDemand ==
  ASSUME NEW table \in Demands, NEW action \in DOMAIN table,
         \A t \in Demands : action \in DOMAIN t => t = table
  PROVE  DemandOf(action) = table[action]
<1>1. {t \in Demands : action \in DOMAIN t} = {table}
  OBVIOUS
<1>2. {t[action] : t \in {t \in Demands : action \in DOMAIN t}} = {table[action]}
  BY <1>1
<1> QED
  BY <1>2 DEF DemandOf

LEMMA DemandNames ==
  /\ DOMAIN STAFF_ACTIONS = {"createStaff", "updateStaff", "deleteStaff", "setStaffLogin",
       "disableStaffLogin", "createService", "updateService", "deleteService"}
  /\ DOMAIN SHOP_ACTIONS = {"updateShopSettings", "updateHomepage", "addSpecialDay",
       "deleteSpecialDay", "updateCapacityRule", "replaceStaffSchedule", "addStaffOverride",
       "deleteStaffOverride", "createShop", "updateCustomerNote", "replaceBusinessHours"}
  /\ DOMAIN BOOKING_ACTIONS = {"cancelBooking", "updateBookingStatus", "rescheduleAvailability",
       "rescheduleBooking"}
  /\ DOMAIN DESK_ACTIONS = {"adminAvailability", "adminCreateBooking"}
  /\ DOMAIN NOTIFICATION_ACTIONS = {"addEmailRecipient", "removeRecipient", "startLineLink",
       "retryFailedNotification"}
  /\ DOMAIN BILLING_ACTIONS = {"startCheckout", "openBillingPortal"}
  /\ DOMAIN PLATFORM_ACTIONS = {"createTenant", "setUserStatus", "resetUserPassword",
       "updatePlan", "setBillingExempt"}
  /\ DOMAIN UPLOADS = {"uploadImage"}
BY DEF STAFF_ACTIONS, SHOP_ACTIONS, BOOKING_ACTIONS, DESK_ACTIONS, NOTIFICATION_ACTIONS,
       BILLING_ACTIONS, PLATFORM_ACTIONS, UPLOADS

LEMMA EachAction ==
  /\ \A a \in DOMAIN STAFF_ACTIONS : DemandOf(a) = STAFF_ACTIONS[a]
  /\ \A a \in DOMAIN SHOP_ACTIONS : DemandOf(a) = SHOP_ACTIONS[a]
  /\ \A a \in DOMAIN BOOKING_ACTIONS : DemandOf(a) = BOOKING_ACTIONS[a]
  /\ \A a \in DOMAIN DESK_ACTIONS : DemandOf(a) = DESK_ACTIONS[a]
  /\ \A a \in DOMAIN NOTIFICATION_ACTIONS : DemandOf(a) = NOTIFICATION_ACTIONS[a]
  /\ \A a \in DOMAIN BILLING_ACTIONS : DemandOf(a) = BILLING_ACTIONS[a]
  /\ \A a \in DOMAIN PLATFORM_ACTIONS : DemandOf(a) = PLATFORM_ACTIONS[a]
  /\ \A a \in DOMAIN UPLOADS : DemandOf(a) = UPLOADS[a]
<1>1. \A t \in Demands : \/ t = STAFF_ACTIONS \/ t = SHOP_ACTIONS \/ t = BOOKING_ACTIONS
                         \/ t = DESK_ACTIONS \/ t = NOTIFICATION_ACTIONS \/ t = BILLING_ACTIONS
                         \/ t = PLATFORM_ACTIONS \/ t = UPLOADS
  BY DEF Demands
<1>2. /\ STAFF_ACTIONS \in Demands /\ SHOP_ACTIONS \in Demands /\ BOOKING_ACTIONS \in Demands
      /\ DESK_ACTIONS \in Demands /\ NOTIFICATION_ACTIONS \in Demands
      /\ BILLING_ACTIONS \in Demands /\ PLATFORM_ACTIONS \in Demands /\ UPLOADS \in Demands
  BY DEF Demands
<1>3. ASSUME NEW table \in Demands, NEW a \in DOMAIN table PROVE DemandOf(a) = table[a]
  <2>1. ASSUME NEW t \in Demands, a \in DOMAIN t PROVE t = table
    BY <1>1, <1>3, <2>1, DemandNames
  <2> QED
    BY <2>1, EachDemand
<1> QED
  BY <1>2, <1>3

(* The buttons of a page are those of the one table it is in.              *)
LEMMA ButtonPages ==
  ASSUME NEW p
  PROVE  /\ DOMAIN BookingButtons = {"bookingNew", "bookingDetail"}
         /\ DOMAIN StaffButtons = {"staffNew", "staffDetail", "staffShifts", "serviceNew",
                                   "serviceDetail"}
         /\ DOMAIN ShopButtons = {"hours", "calendar", "rules", "homepage", "notifications",
                                  "settings", "shopNew"}
         /\ DOMAIN OwnerButtons(p) = {"customer", "billing"}
         /\ DOMAIN PlatformButtons = {"tenantNew", "tenantDetail", "planDetail", "users"}
BY DEF BookingButtons, StaffButtons, ShopButtons, OwnerButtons, PlatformButtons

LEMMA ButtonsOf ==
  ASSUME NEW p, NEW page, NEW action \in OfferedOn(p, page)
  PROVE  \/ page \in DOMAIN BookingButtons /\ action \in BookingButtons[page]
         \/ page \in DOMAIN StaffButtons /\ action \in StaffButtons[page]
         \/ page \in DOMAIN ShopButtons /\ action \in ShopButtons[page]
         \/ page \in DOMAIN OwnerButtons(p) /\ action \in OwnerButtons(p)[page]
         \/ page \in DOMAIN PlatformButtons /\ action \in PlatformButtons[page]
<1>1. PICK t \in {BookingButtons, StaffButtons, ShopButtons, OwnerButtons(p), PlatformButtons} :
        page \in DOMAIN t /\ action \in t[page]
  BY DEF OfferedOn, Of
<1> QED
  BY <1>1

(* A page of a record of the staff or the menu sends the shop.             *)
LEMMA RowsAreSent ==
  ASSUME NEW p, NEW page \in RowPages \ {"bookingDetail"}, NEW action \in OfferedOn(p, page)
  PROVE  DemandOf(action).on = "sent"
<1>1. page \in {"staffDetail", "staffShifts", "serviceDetail"}
  BY DEF RowPages
<1>2. action \in StaffButtons[page]
  BY <1>1, ButtonsOf, ButtonPages
<1>3. action \in DOMAIN STAFF_ACTIONS \cup {"replaceStaffSchedule", "addStaffOverride",
                                            "deleteStaffOverride"}
  BY <1>1, <1>2, DemandNames DEF StaffButtons
<1>4. CASE action \in DOMAIN STAFF_ACTIONS
  <2>1. STAFF_ACTIONS[action].on = "sent"
    BY <1>4 DEF STAFF_ACTIONS, Demand
  <2> QED
    BY <1>4, <2>1, EachAction
<1>5. CASE action \in {"replaceStaffSchedule", "addStaffOverride", "deleteStaffOverride"}
  <2>1. action \in DOMAIN SHOP_ACTIONS /\ SHOP_ACTIONS[action].on = "sent"
    BY <1>5 DEF SHOP_ACTIONS, Demand
  <2> QED
    BY <2>1, EachAction
<1> QED
  BY <1>3, <1>4, <1>5


-----------------------------------------------------------------------------
(* What a step does to the tabs                                            *)
LEMMA OneTabAnew ==
  ASSUME ConsoleInv, person' = person, cookie' = cookie, NEW t \in Tabs, NEW tab \in TabRow,
         TabOK(tab), tabs' = [tabs EXCEPT ![t] = tab]
  PROVE  tabs' \in [Tabs -> TabRow] /\ \A u \in Tabs : TabOK(tabs[u])'
<1>1. tabs' \in [Tabs -> TabRow]
  BY DEF ConsoleInv
<1>2. ASSUME NEW u \in Tabs PROVE TabOK(tabs[u])'
  <2>1. TabOK(tabs[u]) /\ (u = t => tabs'[u] = tab) /\ (u # t => tabs'[u] = tabs[u])
    BY DEF ConsoleInv
  <2> QED
    BY <2>1 DEF TabOK
<1> QED
  BY <1>1, <1>2

LEMMA EnterKeeps ==
  ASSUME ConsoleInv, NEW t \in Tabs, Visited \subseteq Pages, Enter(t)
  PROVE  ConsoleInv'
<1>1. PICK page \in Visited \cup {"home"}, row \in Branches :
        tabs' = [tabs EXCEPT ![t] = Shown(tabs[t], Rendered(person, Land(person, locked, page), row))]
  BY DEF Enter, ConsoleInv
<1>2. page \in Pages /\ row \in Maybe /\ person \in Persons \cup {Guest}
  BY PageSets DEF Maybe, ConsoleInv
<1>3. PICK anew : anew = Rendered(person, Land(person, locked, page), row)
  OBVIOUS
<1>4. Fresh(anew, person, row)
  BY <1>2, <1>3, LandLeads, RenderedIsFresh
<1>s. PICK tab : tab = Shown(tabs[t], anew)
  OBVIOUS
<1>5. tab \in TabRow /\ TabOK(tab)
  BY <1>2, <1>4, <1>s, FreshIsOK DEF Fresh, Shown, ConsoleInv
<1>6. UNCHANGED <<person, cookie, saved>>
  BY DEF Enter
<1>7. tabs' \in [Tabs -> TabRow] /\ \A u \in Tabs : TabOK(tabs[u])'
  BY <1>1, <1>3, <1>5, <1>6, <1>s, OneTabAnew
<1> QED
  BY <1>6, <1>7 DEF ConsoleInv, SavedOK

(* A page under the layout of an earlier one.                              *)
LEMMA FollowKeeps ==
  ASSUME ConsoleInv, NEW t \in Tabs, Visited \subseteq Pages, Follow(t)
  PROVE  ConsoleInv'
<1>0. InConsole(tabs[t]) /\ UNCHANGED <<person, cookie, saved>>
  BY DEF Follow
<1>1. PICK old : old = tabs[t]
  OBVIOUS
<1>2. /\ old \in TabRow /\ TabOK(old) /\ InConsole(old)
      /\ old.user \in Persons /\ old.shop \in Branches
  BY <1>0, <1>1 DEF ConsoleInv, TabOK
<1>3. PICK page \in Visited :
        \E salon \in {Rendered(person, Land(person, locked, page),
                               IF old.row = Absent THEN old.shop ELSE old.row).shop}
                       \cup (IF Land(person, locked, page) = page THEN old.seen ELSE {}) :
          tabs' = [tabs EXCEPT ![t] =
            IF ~InConsole(Rendered(person, Land(person, locked, page),
                                   IF old.row = Absent THEN old.shop ELSE old.row))
            THEN Shown(old, Rendered(person, Land(person, locked, page),
                                     IF old.row = Absent THEN old.shop ELSE old.row))
            ELSE [Rendered(person, Land(person, locked, page),
                           IF old.row = Absent THEN old.shop ELSE old.row)
                    EXCEPT !.user = old.user, !.header = old.header, !.shop = salon,
                      !.held = Loaded(Rendered(person, Land(person, locked, page),
                                               IF old.row = Absent THEN old.shop ELSE old.row).page,
                                      salon, IF old.row = Absent THEN old.shop ELSE old.row),
                      !.seen = old.seen \cup {salon}, !.behind = old.behind]]
  BY <1>1, Zenon DEF Follow
<1>4. PICK row : row = (IF old.row = Absent THEN old.shop ELSE old.row)
  OBVIOUS
<1>5. row \in Maybe /\ person \in Persons \cup {Guest} /\ page \in Pages
  BY <1>2, <1>4 DEF TabRow, Maybe, ConsoleInv
<1>6. PICK anew : anew = Rendered(person, Land(person, locked, page), row)
  OBVIOUS
<1>7. Fresh(anew, person, row)
  BY <1>5, <1>6, LandLeads, RenderedIsFresh
<1>8. PICK salon \in {anew.shop} \cup old.seen :
        tabs' = [tabs EXCEPT ![t] =
          IF ~InConsole(anew) THEN Shown(old, anew)
          ELSE [anew EXCEPT !.user = old.user, !.header = old.header, !.shop = salon,
                  !.held = Loaded(anew.page, salon, row),
                  !.seen = old.seen \cup {salon}, !.behind = old.behind]]
  BY <1>3, <1>4, <1>6, Zenon
<1>9. CASE ~InConsole(anew)
  <2>1. PICK tab : tab = Shown(old, anew)
    OBVIOUS
  <2>2. tab \in TabRow /\ TabOK(tab) /\ tabs' = [tabs EXCEPT ![t] = tab]
    BY <1>2, <1>7, <1>8, <1>9, <2>1 DEF Fresh, TabOK, Shown
  <2>3. tabs' \in [Tabs -> TabRow] /\ \A u \in Tabs : TabOK(tabs[u])'
    BY <1>0, <2>2, OneTabAnew
  <2> QED
    BY <1>0, <2>3 DEF ConsoleInv, SavedOK
<1>10. CASE InConsole(anew)
  <2>1. /\ anew \in TabRow /\ person \in Persons /\ anew.header = PrimaryShop(person, cookie)
        /\ anew.shop = anew.header
        /\ anew.row = (IF anew.page \in RowPages THEN row ELSE Absent)
    BY <1>7, <1>10 DEF Fresh
  <2>2. salon \in Branches
    BY <1>2, <2>1, PrimaryIsVisible DEF TabRow
  <2>3. PICK kept : kept = Loaded(anew.page, salon, row)
    OBVIOUS
  <2>4. kept \in Maybe /\ kept = Loaded(anew.page, salon, anew.row)
    BY <1>5, <2>1, <2>2, <2>3, LoadedIsShop
  <2>5. PICK tab : tab = [page |-> anew.page, user |-> old.user, header |-> old.header,
                          shop |-> salon, row |-> anew.row, held |-> kept,
                          seen |-> old.seen \cup {salon}, behind |-> old.behind]
    OBVIOUS
  <2>6. tab = [anew EXCEPT !.user = old.user, !.header = old.header, !.shop = salon,
                 !.held = kept, !.seen = old.seen \cup {salon}, !.behind = old.behind]
    <3>1. PICK new : new = [anew EXCEPT !.user = old.user, !.header = old.header, !.shop = salon,
                               !.held = kept, !.seen = old.seen \cup {salon},
                               !.behind = old.behind]
      OBVIOUS
    <3>2. DOMAIN anew = {"page", "user", "header", "shop", "row", "held", "seen", "behind"}
      BY <2>1 DEF TabRow
    <3>3. new = [x \in DOMAIN new |-> new[x]]
      BY <3>1
    <3>4. DOMAIN new = {"page", "user", "header", "shop", "row", "held", "seen", "behind"}
      BY <3>1, <3>2
    <3>5. /\ new.page = anew.page /\ new.user = old.user /\ new.header = old.header
          /\ new.shop = salon /\ new.row = anew.row /\ new.held = kept
          /\ new.seen = old.seen \cup {salon} /\ new.behind = old.behind
      BY <3>1, <3>2
    <3>6. new = tab
      BY <2>5, <3>3, <3>4, <3>5
    <3> QED
      BY <3>1, <3>6
  <2>7. tabs' = [tabs EXCEPT ![t] = tab]
    BY <1>8, <1>10, <2>3, <2>6
  <2>8. tab \in TabRow
    BY <1>2, <2>1, <2>2, <2>4, <2>5 DEF TabRow, Maybe
  <2>9. ~old.behind => salon = old.header /\ old.seen \cup {salon} \subseteq {old.header}
    BY <1>2, <1>8, <2>1 DEF TabOK
  <2>10. TabOK(tab)
    BY <1>2, <2>1, <2>2, <2>4, <2>5, <2>9 DEF TabOK, TabRow
  <2>11. tabs' \in [Tabs -> TabRow] /\ \A u \in Tabs : TabOK(tabs[u])'
    BY <1>0, <2>7, <2>8, <2>10, OneTabAnew
  <2> QED
    BY <1>0, <2>11 DEF ConsoleInv, SavedOK
<1> QED
  BY <1>9, <1>10

(* The other tabs fall behind.                                             *)
LEMMA BehindIsOK ==
  ASSUME NEW all \in [Tabs -> TabRow], NEW but, NEW t \in Tabs \ but,
         \/ TabOK(all[t])
         \/ InConsole(all[t]) => /\ all[t].user \in Persons /\ all[t].shop \in Branches
                                 /\ all[t].held = Loaded(all[t].page, all[t].shop, all[t].row)
  PROVE  /\ Behind(all, but)[t] \in TabRow
         /\ TabOK(Behind(all, but)[t])'
<1>1. PICK old : old = all[t]
  OBVIOUS
<1>2. old \in TabRow /\ Behind(all, but)[t] = [old EXCEPT !.behind = TRUE]
  BY <1>1 DEF Behind
<1>3. PICK tab : tab = [page |-> old.page, user |-> old.user, header |-> old.header,
                        shop |-> old.shop, row |-> old.row, held |-> old.held,
                        seen |-> old.seen, behind |-> TRUE]
  OBVIOUS
<1>4. Behind(all, but)[t] = tab
  BY <1>2, <1>3 DEF TabRow
<1>5. tab \in TabRow
  BY <1>2, <1>3 DEF TabRow
<1>6. InConsole(old) => /\ old.user \in Persons /\ old.shop \in Branches
                        /\ old.held = Loaded(old.page, old.shop, old.row)
  BY <1>1 DEF TabOK
<1>7. TabOK(tab)'
  BY <1>2, <1>3, <1>6 DEF TabOK, InConsole, TabRow
<1> QED
  BY <1>4, <1>5, <1>7

LEMMA SelectKeeps ==
  ASSUME ConsoleInv, NEW t \in Tabs, Select(t)
  PROVE  ConsoleInv'
<1>1. tabs' = Behind(tabs, {}) /\ UNCHANGED <<person, saved>>
  BY DEF Select
<1>2. PICK all \in [Tabs -> TabRow] : all = tabs
  BY DEF ConsoleInv
<1>3. \A u \in Tabs : TabOK(all[u])
  BY <1>2 DEF ConsoleInv
<1>4. \A u \in Tabs : Behind(all, {})[u] \in TabRow /\ TabOK(Behind(all, {})[u])'
  BY <1>3, BehindIsOK
<1>5. tabs' = Behind(all, {})
  BY <1>1, <1>2
<1>6. tabs' \in [Tabs -> TabRow] /\ \A u \in Tabs : TabOK(tabs[u])'
  BY <1>4, <1>5 DEF Behind
<1> QED
  BY <1>1, <1>6 DEF ConsoleInv, SavedOK

(* A page that comes again for whoever is signed in by now.                *)
LEMMA RefreshedIsOK ==
  ASSUME ConsoleInv, NEW tab \in TabRow, TabOK(tab), InConsole(tab)
  PROVE  Refreshed(person, tab) \in TabRow /\ TabOK(Refreshed(person, tab))
<1>1. PICK anew : anew = Rendered(person, Land(person, locked, tab.page), tab.row)
  OBVIOUS
<1>2. tab.row \in Maybe /\ tab.page \in Pages /\ person \in Persons \cup {Guest}
      /\ tab.held \in Maybe /\ tab.held = Loaded(tab.page, tab.shop, tab.row)
  BY PageSets DEF TabRow, InConsole, ConsoleInv, TabOK
<1>3. Fresh(anew, person, tab.row)
  BY <1>1, <1>2, LandLeads, RenderedIsFresh
<1>4. anew \in TabRow /\ TabOK(anew)
  BY <1>2, <1>3, FreshIsOK DEF Fresh
<1>5. CASE anew.page # tab.page \/ (Remounts(anew.page) /\ anew.shop # tab.shop)
  <2>1. Refreshed(person, tab) = anew
    BY <1>1, <1>5, Zenon DEF Refreshed
  <2> QED
    BY <1>4, <2>1
<1>6. CASE ~ (anew.page # tab.page \/ (Remounts(anew.page) /\ anew.shop # tab.shop))
  <2>1. Refreshed(person, tab) = [anew EXCEPT !.held = tab.held]
    BY <1>1, <1>6, Zenon DEF Refreshed
  <2>2. InConsole(anew) /\ anew.page = tab.page
    BY <1>6 DEF InConsole
  <2>3. /\ person \in Persons /\ anew.user = person /\ anew.shop \in Branches
        /\ anew.row = (IF anew.page \in RowPages THEN tab.row ELSE Absent)
    BY <1>3, <1>4, <2>2 DEF Fresh, TabOK
  <2>4. tab.held = Loaded(anew.page, anew.shop, anew.row)
    BY <1>2, <1>6, <2>2, <2>3 DEF Loaded, Remounts
  <2>5. [anew EXCEPT !.held = tab.held] = anew
    <3>1. anew.held = tab.held
      BY <1>4, <2>2, <2>4 DEF TabOK
    <3> QED
      BY <1>4, <3>1 DEF TabRow
  <2> QED
    BY <1>4, <2>1, <2>5
<1> QED
  BY <1>5, <1>6

LEMMA RefreshKeeps ==
  ASSUME ConsoleInv, NEW t \in Tabs, Refresh(t)
  PROVE  ConsoleInv'
<1>1. /\ InConsole(tabs[t]) /\ tabs' = [tabs EXCEPT ![t] = Refreshed(person, tabs[t])]
      /\ UNCHANGED <<person, cookie, saved>>
  BY DEF Refresh
<1>2. PICK tab : tab = Refreshed(person, tabs[t])
  OBVIOUS
<1>3. tabs[t] \in TabRow /\ TabOK(tabs[t])
  BY DEF ConsoleInv
<1>4. tab \in TabRow /\ TabOK(tab)
  BY <1>1, <1>2, <1>3, RefreshedIsOK
<1>5. tabs' \in [Tabs -> TabRow] /\ \A u \in Tabs : TabOK(tabs[u])'
  BY <1>1, <1>2, <1>4, OneTabAnew
<1> QED
  BY <1>1, <1>5 DEF ConsoleInv, SavedOK

(* What is saved goes to the shop, or the record, the form was loaded of.  *)
LEMMA PressKeeps ==
  ASSUME ConsoleInv, NEW t \in Tabs, Press(t)
  PROVE  ConsoleInv'
<1>1. PICK tab : tab = tabs[t]
  OBVIOUS
<1>2. tab \in TabRow /\ TabOK(tab) /\ InConsole(tab)
  BY <1>1 DEF ConsoleInv, Press
<1>3. tabs' = [tabs EXCEPT ![t] = Refreshed(person, tab)] /\ UNCHANGED <<person, cookie>>
  BY <1>1 DEF Press
<1>4. PICK action \in OfferedOn(tab.user, tab.page) :
        /\ Accepted(person, tab, action)
        /\ saved' = [page |-> tab.page, held |-> tab.held,
                     shown |-> IF tab.behind THEN Absent ELSE tab.header,
                     to |-> IF tab.page \in RowPages THEN tab.row ELSE tab.shop]
  BY <1>1, Zenon DEF Press
<1>5. PICK to : to = (IF tab.page \in RowPages THEN tab.row ELSE tab.shop)
  OBVIOUS
<1>6. tab.held \in {Absent, to}
  BY <1>2, <1>5 DEF TabOK, Loaded
<1>7. tab.behind \/ tab.header = to \/ tab.page = "bookingDetail"
  <2>1. CASE tab.page \in RowPages \ {"bookingDetail"}
    <3>1. DemandOf(action).on = "sent"
      BY <2>1, RowsAreSent
    <3>2. tab.row = tab.shop
      BY <1>4, <2>1, <3>1 DEF Accepted
    <3> QED
      BY <1>2, <1>5, <2>1, <3>2 DEF TabOK
  <2>2. CASE tab.page \notin RowPages
    BY <1>2, <1>5, <2>2 DEF TabOK
  <2> QED
    BY <2>1, <2>2
<1>8. SavedOK'
  BY <1>4, <1>5, <1>6, <1>7 DEF SavedOK
<1>9. PICK anew : anew = Refreshed(person, tab)
  OBVIOUS
<1>10. tabs' \in [Tabs -> TabRow] /\ \A u \in Tabs : TabOK(tabs[u])'
  BY <1>2, <1>3, <1>9, RefreshedIsOK, OneTabAnew
<1> QED
  BY <1>3, <1>8, <1>10 DEF ConsoleInv

(* Somebody else is signed in, and every other tab is of an earlier time.  *)
LEMMA AllBehindBut ==
  ASSUME ConsoleInv, cookie' = cookie, NEW t \in Tabs, NEW tab \in TabRow,
         TabOK(tab)', tabs' = Behind([tabs EXCEPT ![t] = tab], {t})
  PROVE  tabs' \in [Tabs -> TabRow] /\ \A u \in Tabs : TabOK(tabs[u])'
<1>1. PICK all : all = [tabs EXCEPT ![t] = tab]
  OBVIOUS
<1>2. /\ all \in [Tabs -> TabRow] /\ all[t] = tab
      /\ \A u \in Tabs \ {t} : all[u] = tabs[u] /\ TabOK(all[u])
  BY <1>1 DEF ConsoleInv
<1>3. \A u \in Tabs \ {t} : Behind(all, {t})[u] \in TabRow /\ TabOK(Behind(all, {t})[u])'
  BY <1>2, BehindIsOK
<1>4. tabs' = Behind(all, {t}) /\ Behind(all, {t})[t] = tab
  BY <1>1, <1>2 DEF Behind
<1>5. \A u \in Tabs : tabs'[u] \in TabRow /\ TabOK(tabs[u])'
  BY <1>3, <1>4
<1> QED
  BY <1>4, <1>5 DEF Behind

LEMMA LogInKeeps ==
  ASSUME ConsoleInv, NEW t \in Tabs, Visited \subseteq Pages, LogIn(t)
  PROVE  ConsoleInv'
<1>1. PICK p \in Persons, page \in ((Visited \cap (TenantPages \cup Files)) \ RowPages) \cup {"home"} :
        /\ person' = p
        /\ tabs' = Behind([tabs EXCEPT ![t] =
                     Shown(tabs[t], Rendered(p, Land(p, locked, page), Absent))], {t})
  BY DEF LogIn, ConsoleInv
<1>2. UNCHANGED <<cookie, saved>>
  BY DEF LogIn
<1>3. PICK anew : anew = Rendered(p, Land(p, locked, page), Absent)
  OBVIOUS
<1>4. page \in Pages /\ Absent \in Maybe /\ p # Guest
  BY PageSets, PersonsAre DEF Maybe
<1>5. Fresh(anew, p, Absent)
  BY <1>3, <1>4, LandLeads, RenderedIsFresh
<1>s. PICK tab : tab = Shown(tabs[t], anew)
  OBVIOUS
<1>0. ~InConsole(tabs[t])
  BY PageSets DEF LogIn, InConsole
<1>6. tab \in TabRow
  BY <1>5, <1>s DEF Fresh, Shown, ConsoleInv
<1>7. TabOK(tab)'
  <2> SUFFICES ASSUME InConsole(tab) PROVE TabOK(tab)'
    BY DEF TabOK, InConsole
  <2>0. tab = anew
    BY <1>0, <1>s DEF Shown
  <2>1. tab.user = p /\ tab.header = PrimaryShop(p, cookie) /\ tab.shop = tab.header
        /\ tab.row = (IF tab.page \in RowPages THEN Absent ELSE Absent)
        /\ tab.held = Loaded(tab.page, tab.shop, Absent) /\ tab.seen = {}
    BY <1>5, <2>0 DEF Fresh
  <2>2. tab.shop \in Branches /\ PrimaryShop(p, cookie)' = PrimaryShop(p, cookie)
    BY <1>2, <2>1, PrimaryIsVisible DEF PrimaryShop
  <2> QED
    BY <1>1, <1>2, <1>6, <2>1, <2>2 DEF TabOK, TabRow
<1>8. tabs' \in [Tabs -> TabRow] /\ \A u \in Tabs : TabOK(tabs[u])'
  BY <1>1, <1>2, <1>3, <1>6, <1>7, <1>s, AllBehindBut
<1> QED
  BY <1>1, <1>2, <1>8 DEF ConsoleInv, SavedOK

LEMMA LogOutKeeps ==
  ASSUME ConsoleInv, NEW t \in Tabs, LogOut(t)
  PROVE  ConsoleInv'
<1>1. /\ person' = Guest /\ UNCHANGED <<cookie, saved>>
      /\ tabs' = Behind([tabs EXCEPT ![t] = BlankPage("login")], {t})
  BY DEF LogOut
<1>2. PICK tab : tab = BlankPage("login")
  OBVIOUS
<1>3. tab \in TabRow /\ ~InConsole(tab)
  BY <1>2, PageSets DEF TabRow, BlankPage, Maybe, InConsole, Answered
<1>4. TabOK(tab)'
  BY <1>3 DEF TabOK, InConsole
<1>5. tabs' \in [Tabs -> TabRow] /\ \A u \in Tabs : TabOK(tabs[u])'
  BY <1>1, <1>2, <1>3, <1>4, AllBehindBut
<1> QED
  BY <1>1, <1>5 DEF ConsoleInv, SavedOK

LEMMA ConsoleStart == ConsoleInit => ConsoleInv
<1> SUFFICES ASSUME ConsoleInit PROVE ConsoleInv
  OBVIOUS
<1>1. PICK tab : tab = BlankPage("login")
  OBVIOUS
<1>2. tab \in TabRow /\ ~InConsole(tab)
  BY <1>1, PageSets DEF TabRow, BlankPage, Maybe, InConsole, Answered
<1>3. tabs = [t \in Tabs |-> tab] /\ saved = Absent /\ person \in Persons \cup {Guest}
  BY <1>1 DEF ConsoleInit
<1> QED
  BY <1>2, <1>3 DEF ConsoleInv, TabOK, SavedOK

LEMMA ConsoleKept == ConsoleInv /\ [ConsoleNext]_consoleVars => ConsoleInv'
<1> SUFFICES ASSUME ConsoleInv, [ConsoleNext]_consoleVars PROVE ConsoleInv'
  OBVIOUS
<1>0. Visited \subseteq Pages
  BY ConsoleAssumption DEF ConsoleAssumption
<1>1. ASSUME NEW t \in Tabs, Enter(t) \/ Follow(t) PROVE ConsoleInv'
  BY <1>0, <1>1, EnterKeeps, FollowKeeps
<1>2. ASSUME NEW t \in Tabs, Select(t) \/ Refresh(t) \/ Press(t) PROVE ConsoleInv'
  BY <1>2, SelectKeeps, RefreshKeeps, PressKeeps
<1>3. ASSUME NEW t \in Tabs, LogIn(t) \/ LogOut(t) PROVE ConsoleInv'
  BY <1>0, <1>3, LogInKeeps, LogOutKeeps
<1>4. CASE Gate \/ UNCHANGED consoleVars
  <2>1. UNCHANGED <<person, cookie, tabs, saved>>
    BY <1>4 DEF Gate, consoleVars
  <2> QED
    BY <2>1 DEF ConsoleInv, SavedOK, TabOK
<1> QED
  BY <1>1, <1>2, <1>3, <1>4 DEF ConsoleNext

LEMMA WhatIsShown == ConsoleInv => SavedWhereShown
<1> SUFFICES ASSUME ConsoleInv PROVE SavedWhereShown
  OBVIOUS
<1>1. ASSUME NEW t \in Tabs, InConsole(tabs[t]), ~tabs[t].behind
      PROVE  tabs[t].header = tabs[t].shop /\ tabs[t].header \in VisibleShops(person)
  BY <1>1, PrimaryIsVisible DEF ConsoleInv, TabOK
<1> QED
  BY <1>1 DEF SavedWhereShown, ConsoleInv, SavedOK

-----------------------------------------------------------------------------
(* Who may open what.  Permissions come in ranks: everybody has those of   *)
(* the staff, whoever has one of a manager's beyond them has all of a      *)
(* manager's, and so for the owner's.                                      *)
LEMMA RanksOfRoles ==
  ASSUME NEW role \in DOMAIN SYSTEM_ROLES, NEW perms, perms = SYSTEM_ROLES[role].perms
  PROVE  /\ SHOP_STAFF_PERMS \subseteq perms /\ perms \subseteq ALL_PERMISSIONS
         /\ (\E x \in SHOP_MANAGER_PERMS \ SHOP_STAFF_PERMS : x \in perms)
              => SHOP_MANAGER_PERMS \subseteq perms
         /\ (\E x \in {"shop:create", "audit:read"} : x \in perms)
              => TENANT_OWNER_PERMS \subseteq perms
<1>1. perms \in {ALL_PERMISSIONS, TENANT_OWNER_PERMS, SHOP_MANAGER_PERMS, SHOP_STAFF_PERMS}
  BY DEF SYSTEM_ROLES
<1>2. /\ SHOP_STAFF_PERMS \subseteq SHOP_MANAGER_PERMS /\ SHOP_MANAGER_PERMS \subseteq TENANT_OWNER_PERMS
      /\ TENANT_OWNER_PERMS \subseteq ALL_PERMISSIONS
  BY DEF SHOP_MANAGER_PERMS, TENANT_OWNER_PERMS, ALL_PERMISSIONS
<1>3. {"shop:create", "audit:read"} \cap SHOP_MANAGER_PERMS = {}
  BY DEF SHOP_MANAGER_PERMS, SHOP_STAFF_PERMS
<1> QED
  BY <1>1, <1>2, <1>3

LEMMA Ranks ==
  ASSUME NEW p \in Persons
  PROVE  /\ SHOP_STAFF_PERMS \subseteq Perms(p)
         /\ p.platform => ALL_PERMISSIONS \subseteq Perms(p)
         /\ (\E x \in SHOP_MANAGER_PERMS \ SHOP_STAFF_PERMS : x \in Perms(p))
              => SHOP_MANAGER_PERMS \subseteq Perms(p)
         /\ (\E x \in {"shop:create", "audit:read"} : x \in Perms(p))
              => TENANT_OWNER_PERMS \subseteq Perms(p)
<1>0. /\ SHOP_STAFF_PERMS \subseteq SHOP_MANAGER_PERMS /\ SHOP_MANAGER_PERMS \subseteq TENANT_OWNER_PERMS
      /\ TENANT_OWNER_PERMS \subseteq ALL_PERMISSIONS
  BY DEF SHOP_MANAGER_PERMS, TENANT_OWNER_PERMS, ALL_PERMISSIONS
<1>1. \A x : x \in Perms(p) <=> \/ \E m \in p.memberships : x \in SYSTEM_ROLES[m.role].perms
                                \/ p.platform /\ x \in ALL_PERMISSIONS
  BY PersonsAre DEF Perms
<1>2. CASE p.platform
  BY <1>0, <1>1, <1>2
<1>3. CASE ~p.platform
  <2>1. p.memberships # {}
    <3>1. SUFFICES ASSUME p.memberships = {} PROVE FALSE
      OBVIOUS
    <3>2. ~TenantWide(p) /\ ShopScopes(p) = {}
      BY <1>3, <3>1 DEF TenantWide, ShopScopes
    <3> QED
      BY <3>2, PersonsAre DEF VisibleShops
  <2>2. PICK any \in p.memberships : TRUE
    BY <2>1
  <2>3. ASSUME NEW m \in p.memberships
        PROVE  SYSTEM_ROLES[m.role].perms \subseteq Perms(p) /\ m.role \in DOMAIN SYSTEM_ROLES
    BY <1>1, PersonsAre
  <2>4. SHOP_STAFF_PERMS \subseteq Perms(p)
    BY <2>2, <2>3, RanksOfRoles
  <2>5. ASSUME NEW x \in SHOP_MANAGER_PERMS \ SHOP_STAFF_PERMS, x \in Perms(p)
        PROVE  SHOP_MANAGER_PERMS \subseteq Perms(p)
    <3>1. PICK m \in p.memberships : x \in SYSTEM_ROLES[m.role].perms
      BY <1>1, <1>3, <2>5
    <3>2. SHOP_MANAGER_PERMS \subseteq SYSTEM_ROLES[m.role].perms
      BY <2>3, <3>1, RanksOfRoles
    <3> QED
      BY <2>3, <3>2
  <2>6. ASSUME NEW x \in {"shop:create", "audit:read"}, x \in Perms(p)
        PROVE  TENANT_OWNER_PERMS \subseteq Perms(p)
    <3>1. PICK m \in p.memberships : x \in SYSTEM_ROLES[m.role].perms
      BY <1>1, <1>3, <2>6
    <3>2. TENANT_OWNER_PERMS \subseteq SYSTEM_ROLES[m.role].perms
      BY <2>3, <3>1, RanksOfRoles
    <3> QED
      BY <2>3, <3>2
  <2> QED
    BY <1>3, <2>4, <2>5, <2>6
<1> QED
  BY <1>2, <1>3, PersonsAre

Managed == {"home"} \cup (DOMAIN OWNER_ONLY \ {"logs", "shopNew"})
Owned == {"logs", "shopNew"}
Free == TenantPages \ (Managed \cup Owned)

LEMMA OpenPerms ==
  /\ \A page \in Managed \ {"home"} : OWNER_ONLY[page] \in SHOP_MANAGER_PERMS \ SHOP_STAFF_PERMS
  /\ \A page \in Owned : OWNER_ONLY[page] \in {"shop:create", "audit:read"}
  /\ Owned \subseteq DOMAIN OWNER_ONLY /\ "home" \notin DOMAIN OWNER_ONLY
  /\ "analytics:read" \in SHOP_MANAGER_PERMS \ SHOP_STAFF_PERMS
  /\ {"shop:create", "audit:read"} \cup SHOP_MANAGER_PERMS \subseteq TENANT_OWNER_PERMS
  /\ TENANT_OWNER_PERMS \subseteq ALL_PERMISSIONS
<1>1. \A page \in Managed \ {"home"} : OWNER_ONLY[page] \in {"shop:update", "staff:write",
        "service:write", "schedule:write", "analytics:read"}
  BY DEF Managed, OWNER_ONLY
<1>2. {"shop:update", "staff:write", "service:write", "schedule:write", "customer:write",
       "analytics:read"} \subseteq SHOP_MANAGER_PERMS \ SHOP_STAFF_PERMS
  BY DEF SHOP_MANAGER_PERMS, SHOP_STAFF_PERMS
<1>3. /\ \A page \in Owned : OWNER_ONLY[page] \in {"shop:create", "audit:read"}
      /\ Owned \subseteq DOMAIN OWNER_ONLY /\ "home" \notin DOMAIN OWNER_ONLY
  BY DEF Owned, OWNER_ONLY
<1> QED
  BY <1>1, <1>2, <1>3 DEF TENANT_OWNER_PERMS, ALL_PERMISSIONS

(* A page is guarded from all below its rank.                              *)
LEMMA GuardedBelow ==
  ASSUME NEW p \in Persons
  PROVE  /\ \A page \in Free : ~Guarded(p, page)
         /\ \A page \in Managed : ~Guarded(p, page) <=> SHOP_MANAGER_PERMS \subseteq Perms(p)
         /\ \A page \in Owned : ~Guarded(p, page) <=> TENANT_OWNER_PERMS \subseteq Perms(p)
<1>1. \A page \in Free : page # "home" /\ page \notin DOMAIN OWNER_ONLY
  BY DEF Free, Managed, Owned
<1>2. ASSUME NEW page \in Managed
      PROVE  ~Guarded(p, page) <=> SHOP_MANAGER_PERMS \subseteq Perms(p)
  <2>1. CASE page = "home"
    BY <2>1, Ranks, OpenPerms DEF Guarded
  <2>2. CASE page # "home"
    BY <2>2, Ranks, OpenPerms DEF Guarded, Managed
  <2> QED
    BY <2>1, <2>2
<1>3. ASSUME NEW page \in Owned
      PROVE  ~Guarded(p, page) <=> TENANT_OWNER_PERMS \subseteq Perms(p)
  BY Ranks, OpenPerms DEF Guarded
<1> QED
  BY <1>1, <1>2, <1>3 DEF Guarded

(* What a request for each kind of page leads to.                          *)
LEMMA HopOf ==
  ASSUME NEW p \in Persons, NEW shut \in BOOLEAN
  PROVE  /\ Hop(p, shut, "login") = "login"
         /\ \A page \in PlatformPages : Hop(p, shut, page) = IF p.platform THEN page ELSE "home"
         /\ \A page \in TenantPages : Hop(p, shut, page) =
              IF Guarded(p, page) THEN "schedule"
              ELSE IF p.tenant THEN IF shut THEN "billing" ELSE page
              ELSE IF p.platform THEN "platform" ELSE "login"
         /\ Hop(p, shut, "refused") = "refused"
         /\ \A page \in Files : Hop(p, shut, page) =
              IF Guarded(p, page) THEN "schedule" ELSE IF p.tenant THEN page ELSE "refused"
<1>1. p # Guest /\ p.platform \in BOOLEAN /\ p.tenant \in BOOLEAN
  BY PersonsAre
<1>2. Hop(p, shut, "login") = "login" /\ Hop(p, shut, "refused") = "refused"
  BY PageSets DEF Hop
<1>3. ASSUME NEW page \in PlatformPages
      PROVE  Hop(p, shut, page) = IF p.platform THEN page ELSE "home"
  <2>1. page \notin {"login", "refused"} /\ page \notin TenantPages \cup Files
    BY PageSets
  <2> QED
    BY <1>1, <2>1 DEF Hop, requirePlatformAdmin
<1>4. ASSUME NEW page \in TenantPages
      PROVE  Hop(p, shut, page) =
               IF Guarded(p, page) THEN "schedule"
               ELSE IF p.tenant THEN IF shut THEN "billing" ELSE page
               ELSE IF p.platform THEN "platform" ELSE "login"
  <2>1. page \notin {"login", "refused"} /\ page \notin PlatformPages \cup Files
    BY PageSets
  <2>2. Hop(p, shut, page) = IF Guarded(p, page) THEN "schedule" ELSE requireTenantUser(p, shut, page)
    BY <1>1, <2>1 DEF Hop
  <2>3. requireTenantUser(p, shut, page) =
          IF p.tenant THEN IF shut THEN "billing" ELSE page
          ELSE IF p.platform THEN "platform" ELSE "login"
    <3>1. CASE p.tenant /\ shut /\ page # "billing"
      BY <3>1 DEF requireTenantUser
    <3>2. CASE p.tenant /\ ~(shut /\ page # "billing")
      BY <3>2 DEF requireTenantUser
    <3>3. CASE ~p.tenant
      BY <1>1, <3>3 DEF requireTenantUser
    <3> QED
      BY <1>1, <3>1, <3>2, <3>3
  <2> QED
    BY <2>2, <2>3
<1>5. ASSUME NEW page \in Files
      PROVE  Hop(p, shut, page) =
               IF Guarded(p, page) THEN "schedule" ELSE IF p.tenant THEN page ELSE "refused"
  <2>1. page \notin {"login", "refused"} /\ page \notin PlatformPages \cup TenantPages
    BY PageSets
  <2>2. Hop(p, shut, page) = IF Guarded(p, page) THEN "schedule" ELSE exportBookings(p, page)
    BY <1>1, <2>1 DEF Hop
  <2>3. ~Guarded(p, page) => hasPermission(p, "analytics:read")
    <3>1. page \in Managed
      BY DEF Files, Managed, OWNER_ONLY
    <3> QED
      BY <3>1, GuardedBelow, OpenPerms DEF hasPermission
  <2> QED
    BY <2>2, <2>3 DEF exportBookings
<1> QED
  BY <1>2, <1>3, <1>4, <1>5

(* The longest chain of redirects: a page of the platform, the dashboard,  *)
(* the schedule, and from there the contract or the sign-in.               *)
LEMMA ChainsEnd ==
  ASSUME NEW p \in Persons, NEW shut \in BOOLEAN, NEW page \in Pages
  PROVE  /\ Hop(p, shut, Land(p, shut, page)) = Land(p, shut, page)
         /\ shut /\ p.tenant /\ page \in TenantPages => Land(p, shut, page) = "billing"
         /\ p.tenant /\ page \in Files => Land(p, shut, page) \in {page, Land(p, shut, "schedule")}
<1> DEFINE Led(at) == Hop(p, shut, at)
           Stays(at) == Led(at) = at
<1>0. {"schedule", "billing", "home"} \subseteq TenantPages /\ {"schedule", "billing"} \subseteq Free
  <2>1. {"schedule", "billing"} \cap (Managed \cup Owned) = {}
    BY DEF Managed, Owned, OWNER_ONLY
  <2> QED
    BY <2>1, PageSets DEF Free
<1>1. ~Guarded(p, "schedule") /\ ~Guarded(p, "billing")
  BY <1>0, GuardedBelow
<1>2. Stays("login") /\ (p.platform => Stays("platform"))
  BY HopOf, PageSets
<1>3. p.tenant => Stays("billing")
  BY <1>0, <1>1, HopOf
<1>4. Stays(Led("schedule")) /\ (p.tenant /\ shut => Led("schedule") = "billing")
  <2>1. Led("schedule") = IF p.tenant THEN IF shut THEN "billing" ELSE "schedule"
                         ELSE IF p.platform THEN "platform" ELSE "login"
    BY <1>0, <1>1, HopOf
  <2> QED
    BY <1>2, <1>3, <2>1
<1>5. ASSUME NEW at \in TenantPages
      PROVE  /\ Led(at) = "schedule" \/ Stays(Led(at))
             /\ p.tenant /\ shut => Led(at) \in {"schedule", "billing"}
  <2>1. Led(at) = IF Guarded(p, at) THEN "schedule"
                 ELSE IF p.tenant THEN IF shut THEN "billing" ELSE at
                 ELSE IF p.platform THEN "platform" ELSE "login"
    BY HopOf
  <2>2. CASE ~Guarded(p, at) /\ p.tenant /\ ~shut
    BY <2>1, <2>2
  <2> QED
    BY <1>2, <1>3, <2>1, <2>2
<1>6. ASSUME NEW at \in PlatformPages PROVE Stays(at) \/ Led(at) = "home"
  BY HopOf
<1>7. /\ Land(p, shut, page) = Led(Led(Led(Led(page))))
      /\ Land(p, shut, "schedule") = Led(Led(Led(Led("schedule"))))
  BY DEF Land
<1>f. ASSUME NEW file \in Files
      PROVE  /\ Led(file) = "schedule" \/ Stays(Led(file))
             /\ p.tenant => Led(file) \in {"schedule", file}
  <2>1. Led(file) = IF Guarded(p, file) THEN "schedule" ELSE IF p.tenant THEN file ELSE "refused"
    BY HopOf
  <2>2. Stays("refused")
    BY HopOf
  <2> QED
    BY <2>1, <2>2
<1> HIDE DEF Led
<1>8. CASE page = "login"
  <2>1. page \notin TenantPages /\ page \notin Files
    BY <1>8, PageSets
  <2> QED
    BY <1>2, <1>7, <1>8, <2>1 DEF Led
<1>11. CASE page \in Files
  <2>1. page \notin TenantPages
    BY <1>11, PageSets
  <2>2. CASE Led(page) = "schedule"
    BY <1>4, <1>7, <2>1, <2>2 DEF Led
  <2>3. CASE Led(page) # "schedule"
    <3>1. Stays(Led(page)) /\ (p.tenant => Led(page) = page)
      BY <1>11, <1>f, <2>3
    <3> QED
      BY <1>7, <2>1, <3>1 DEF Led
  <2> QED
    BY <2>2, <2>3
<1>9. CASE page \in TenantPages
  <2>0. page \notin Files
    BY <1>9, PageSets
  <2>1. CASE Led(page) = "schedule"
    BY <1>4, <1>7, <2>0, <2>1 DEF Led
  <2>2. CASE Led(page) # "schedule"
    <3>1. Stays(Led(page)) /\ (p.tenant /\ shut => Led(page) \in {"schedule", "billing"})
      BY <1>5, <1>9, <2>2
    <3> QED
      BY <1>7, <2>0, <2>2, <3>1 DEF Led
  <2> QED
    BY <2>1, <2>2
<1>10. CASE page \in PlatformPages
  <2>1. page \notin TenantPages /\ page \notin Files
    BY <1>10, PageSets
  <2>2. CASE Stays(page)
    BY <1>7, <2>1, <2>2 DEF Led
  <2>3. CASE Led(page) = "home"
    <3>1. Led("home") = "schedule" \/ Stays(Led("home"))
      BY <1>0, <1>5
    <3> QED
      BY <1>4, <1>7, <2>1, <2>3, <3>1 DEF Led
  <2> QED
    BY <1>6, <1>10, <2>2, <2>3
<1>12. page = "login" \/ page \in Files \/ page \in TenantPages \/ page \in PlatformPages
  BY PageSets
<1> QED
  BY <1>8, <1>9, <1>10, <1>11, <1>12

(* The pages of a tenant and its file.                                     *)
Inner == TenantPages \cup Files

LEMMA EveryRank == Free \cup Managed \cup Owned = Inner
<1>1. Managed \cup Owned \subseteq Inner
  BY OpenPerms, PageSets DEF Managed, TenantPages, Inner
<1>2. Files \subseteq Managed
  BY DEF Files, Managed, OWNER_ONLY
<1> QED
  BY <1>1, <1>2 DEF Free, Inner

(* A page is open when a request for it stays there.                       *)
OpenTo(p) == {page \in Pages : Hop(p, FALSE, page) = page}

LEMMA OpenPages ==
  ASSUME NEW p \in Persons
  PROVE  /\ p.platform => PlatformPages \subseteq OpenTo(p)
         /\ \A page \in PlatformPages : page \in OpenTo(p) => p.platform
         /\ \A page \in Inner : page \in OpenTo(p) => p.tenant /\ ~Guarded(p, page)
         /\ p.tenant => /\ Free \subseteq OpenTo(p)
                        /\ SHOP_MANAGER_PERMS \subseteq Perms(p) => Managed \subseteq OpenTo(p)
                        /\ TENANT_OWNER_PERMS \subseteq Perms(p) => Owned \subseteq OpenTo(p)
<1>1. p.platform \in BOOLEAN /\ p.tenant \in BOOLEAN
  BY PersonsAre
<1>2. /\ "home" \notin PlatformPages /\ "platform" \notin TenantPages /\ "login" \notin TenantPages
      /\ "schedule" \in Free
  <2>1. "schedule" \notin Managed \cup Owned
    BY DEF Managed, Owned, OWNER_ONLY
  <2> QED
    BY <2>1, PageSets DEF Free
<1>4. ASSUME NEW page \in PlatformPages
      PROVE  page \in OpenTo(p) <=> p.platform
  <2>1. page \in Pages /\ page # "home"
    BY <1>2, PageSets
  <2>2. Hop(p, FALSE, page) = IF p.platform THEN page ELSE "home"
    BY HopOf
  <2> QED
    BY <2>1, <2>2 DEF OpenTo
<1>5. ASSUME NEW page \in TenantPages
      PROVE  page \in OpenTo(p) <=> p.tenant /\ ~Guarded(p, page)
  <2>1. page \in Pages /\ page # "login" /\ page # "platform"
    BY <1>2, PageSets
  <2>2. Hop(p, FALSE, page) = IF Guarded(p, page) THEN "schedule" ELSE IF p.tenant THEN page
                              ELSE IF p.platform THEN "platform" ELSE "login"
    BY HopOf
  <2>3. Guarded(p, page) => page # "schedule"
    BY <1>2, GuardedBelow
  <2> QED
    BY <1>1, <2>1, <2>2, <2>3 DEF OpenTo
<1>6. ASSUME NEW page \in Files
      PROVE  page \in OpenTo(p) <=> p.tenant /\ ~Guarded(p, page)
  <2>1. page \in Pages /\ page # "refused" /\ page # "schedule"
    BY PageSets
  <2>2. Hop(p, FALSE, page) = IF Guarded(p, page) THEN "schedule" ELSE IF p.tenant THEN page
                              ELSE "refused"
    BY HopOf
  <2> QED
    BY <1>1, <2>1, <2>2 DEF OpenTo
<1> QED
  BY <1>4, <1>5, <1>6, GuardedBelow, EveryRank DEF Inner

(* What the menus offer.                                                   *)
LEMMA MenusOpen ==
  ASSUME NEW p \in Persons
  PROVE  /\ PLATFORM_NAV \subseteq PlatformPages
         /\ MerchantNav(p) \cup If("shop:create" \in Perms(p), {"shopNew"}) \subseteq
              Free \cup {page \in Managed : SHOP_MANAGER_PERMS \subseteq Perms(p)}
                   \cup {page \in Owned : TENANT_OWNER_PERMS \subseteq Perms(p)}
<1>1. PLATFORM_NAV \subseteq PlatformPages
  BY DEF PLATFORM_NAV, PlatformPages
<1>2. ASSUME NEW item \in MerchantNav(p)
      PROVE  \/ item \in Free
             \/ item \in Managed /\ SHOP_MANAGER_PERMS \subseteq Perms(p)
             \/ item \in Owned /\ TENANT_OWNER_PERMS \subseteq Perms(p)
  <2>1. item \in TenantPages
    BY DEF MerchantNav, MERCHANT_NAV, TenantPages, OWNER_ONLY, Files
  <2>2. item \in DOMAIN NavPerm => NavPerm[item] \in Perms(p)
    BY DEF MerchantNav
  <2>3. CASE item \in Managed
    <3>1. item \in DOMAIN NavPerm /\ NavPerm[item] \in SHOP_MANAGER_PERMS \ SHOP_STAFF_PERMS
      <4>1. item \in DOMAIN NavPerm /\ item # "billing"
        BY <2>3 DEF NavPerm, Managed, OWNER_ONLY
      <4>2. NavPerm[item] = IF item = "home" THEN "analytics:read" ELSE OWNER_ONLY[item]
        BY <4>1 DEF NavPerm
      <4> QED
        BY <2>3, <4>1, <4>2, OpenPerms
    <3> QED
      BY <2>2, <2>3, <3>1, Ranks
  <2>4. CASE item \in Owned
    <3>1. item \in DOMAIN NavPerm /\ item # "billing" /\ item # "home"
      BY <2>4, OpenPerms DEF NavPerm, Owned
    <3>2. NavPerm[item] = OWNER_ONLY[item]
      BY <3>1 DEF NavPerm
    <3> QED
      BY <2>2, <2>4, <3>1, <3>2, OpenPerms, Ranks
  <2> QED
    BY <2>1, <2>3, <2>4 DEF Free
<1>3. "shop:create" \in Perms(p) => TENANT_OWNER_PERMS \subseteq Perms(p)
  BY Ranks
<1> QED
  BY <1>1, <1>2, <1>3 DEF If, Owned

(* What the pages link to, table by table.                                 *)
LEMMA RankOfPages ==
  /\ {"bookings", "bookingNew", "bookingDetail", "schedule", "customers", "customer", "billing"}
       = Free
  /\ Managed = {"home", "settings", "homepage", "preview", "qr", "notifications", "staff",
                "staffNew", "staffDetail", "staffShifts", "services", "serviceNew",
                "serviceDetail", "hours", "rules", "calendar", "reports", "export", "dormant"}
<1>1. Managed = {"home", "settings", "homepage", "preview", "qr", "notifications", "staff",
                "staffNew", "staffDetail", "staffShifts", "services", "serviceNew",
                "serviceDetail", "hours", "rules", "calendar", "reports", "export", "dormant"}
  BY DEF Managed, OWNER_ONLY
<1>2. DOMAIN OWNER_ONLY \cup {"home"} = Managed \cup Owned
  BY DEF Managed, Owned, OWNER_ONLY
<1>3. {"bookings", "bookingNew", "bookingDetail", "schedule", "customers", "customer", "billing"}
        \cap (Managed \cup Owned) = {}
  BY <1>1 DEF Owned
<1> QED
  BY <1>1, <1>2, <1>3 DEF Free, TenantPages

LEMMA LinksGo ==
  ASSUME NEW p \in Persons, NEW page, NEW link \in LinksIn(p, page)
  PROVE  \/ page \in PlatformPages /\ link \in PlatformPages
         \/ page \in Inner /\ link \in Free
         \/ page \in Managed \cup Owned /\ link \in Managed
         \/ page \in Free /\ link \in Managed /\ hasPermission(p, "analytics:read")
<1>1. PICK t \in {BookingLinks, CustomerLinks(p), StaffLinks, ServiceLinks, ShopLinks, HomeLinks,
                  PlatformLinks} : page \in DOMAIN t /\ link \in t[page]
  BY DEF LinksIn, Of
<1>2. Free \cup Managed \cup Owned \subseteq Inner
  BY EveryRank
<1>3. CASE t = BookingLinks
  <2>1. page \in Free /\ link \in Free
    BY <1>1, <1>3, RankOfPages DEF BookingLinks
  <2> QED
    BY <1>2, <2>1
<1>4. CASE t = CustomerLinks(p)
  <2>1. page \in {"customers", "customer", "dormant"}
    BY <1>1, <1>4 DEF CustomerLinks
  <2>2. CASE page = "customers"
    <3>1. link \in {"customer"} \cup If(hasPermission(p, "analytics:read"), {"dormant"})
      BY <1>1, <1>4, <2>2 DEF CustomerLinks
    <3>2. link = "customer" \/ (link = "dormant" /\ hasPermission(p, "analytics:read"))
      BY <3>1 DEF If
    <3> QED
      BY <1>2, <2>2, <3>2, RankOfPages
  <2>3. CASE page = "customer"
    <3>1. link \in {"customers", "bookingDetail"}
      BY <1>1, <1>4, <2>3 DEF CustomerLinks
    <3> QED
      BY <1>2, <2>3, <3>1, RankOfPages
  <2>4. CASE page = "dormant"
    <3>1. link \in {"dormant", "customers", "customer"}
      BY <1>1, <1>4, <2>4 DEF CustomerLinks
    <3> QED
      BY <1>2, <2>4, <3>1, RankOfPages
  <2> QED
    BY <2>1, <2>2, <2>3, <2>4
<1>5. CASE t = StaffLinks
  <2>1. page \in Managed /\ link \in Managed \cup Free
    BY <1>1, <1>5, RankOfPages DEF StaffLinks
  <2> QED
    BY <1>2, <2>1
<1>6. CASE t = ServiceLinks
  <2>1. page \in Managed /\ link \in Managed
    BY <1>1, <1>6, RankOfPages DEF ServiceLinks
  <2> QED
    BY <2>1
<1>7. CASE t = ShopLinks
  <2>1. page \in Managed \cup Owned /\ link \in Managed \cup Free
    BY <1>1, <1>7, RankOfPages DEF ShopLinks, Owned
  <2> QED
    BY <1>2, <2>1
<1>8. CASE t = HomeLinks
  <2>1. page \in Managed /\ link \in Managed \cup Free
    BY <1>1, <1>8, RankOfPages DEF HomeLinks
  <2> QED
    BY <1>2, <2>1
<1>9. CASE t = PlatformLinks
  <2>1. page \in PlatformPages /\ link \in PlatformPages
    BY <1>1, <1>9 DEF PlatformLinks, PlatformPages
  <2> QED
    BY <2>1
<1> QED
  BY <1>1, <1>3, <1>4, <1>5, <1>6, <1>7, <1>8, <1>9


(* What the buttons demand.                                                *)
LEMMA ButtonsServe ==
  ASSUME NEW p \in Persons, NEW page, NEW action \in OfferedOn(p, page)
  PROVE  \/ page \in PlatformPages
         \/ page \in TenantPages /\ DemandOf(action).perm \in SHOP_STAFF_PERMS
         \/ page \in Managed /\ DemandOf(action).perm \in SHOP_MANAGER_PERMS
         \/ page \in Owned /\ DemandOf(action).perm \in TENANT_OWNER_PERMS
         \/ hasPermission(p, DemandOf(action).perm)
<1>1. CASE page \in DOMAIN BookingButtons /\ action \in BookingButtons[page]
  <2>1. page \in Free
    BY <1>1, ButtonPages, RankOfPages
  <2>2. action \in DOMAIN DESK_ACTIONS \/ action \in DOMAIN BOOKING_ACTIONS
    BY <1>1, ButtonPages DEF BookingButtons
  <2>3. \A a \in DOMAIN DESK_ACTIONS : DESK_ACTIONS[a].perm \in {"booking:read", "booking:create"}
    BY DEF DESK_ACTIONS, Demand
  <2>4. \A a \in DOMAIN BOOKING_ACTIONS :
          BOOKING_ACTIONS[a].perm \in {"booking:cancel", "booking:update"}
    BY DEF BOOKING_ACTIONS, Demand
  <2>5. DemandOf(action).perm \in {"booking:read", "booking:create", "booking:cancel",
                                   "booking:update"}
    BY <2>2, <2>3, <2>4, EachAction
  <2> QED
    BY <2>1, <2>5 DEF SHOP_STAFF_PERMS, Free
<1>2. CASE page \in DOMAIN StaffButtons /\ action \in StaffButtons[page]
  <2>1. page \in Managed
    BY <1>2, ButtonPages, RankOfPages
  <2>2. action \in DOMAIN STAFF_ACTIONS \/ action \in {"replaceStaffSchedule", "addStaffOverride",
                                                       "deleteStaffOverride"}
    BY <1>2, ButtonPages, DemandNames DEF StaffButtons
  <2>3. \A a \in DOMAIN STAFF_ACTIONS : STAFF_ACTIONS[a].perm \in {"staff:write", "service:write"}
    BY DEF STAFF_ACTIONS, Demand
  <2>4. \A a \in {"replaceStaffSchedule", "addStaffOverride", "deleteStaffOverride"} :
          a \in DOMAIN SHOP_ACTIONS /\ SHOP_ACTIONS[a].perm = "staff:write"
    BY DEF SHOP_ACTIONS, Demand
  <2>5. DemandOf(action).perm \in {"staff:write", "service:write"}
    BY <2>2, <2>3, <2>4, EachAction
  <2> QED
    BY <2>1, <2>5 DEF SHOP_MANAGER_PERMS
<1>3. CASE page \in DOMAIN ShopButtons /\ action \in ShopButtons[page]
  <2>1. CASE page = "shopNew"
    <3>1. action = "createShop"
      BY <1>3, <2>1 DEF ShopButtons
    <3>2. "createShop" \in DOMAIN SHOP_ACTIONS /\ SHOP_ACTIONS["createShop"].perm = "shop:create"
      BY DEF SHOP_ACTIONS, Demand
    <3> QED
      BY <2>1, <3>1, <3>2, EachAction, OpenPerms DEF Owned
  <2>2. CASE page = "notifications"
    <3>1. action \in DOMAIN NOTIFICATION_ACTIONS
      BY <1>3, <2>2 DEF ShopButtons
    <3>2. \A a \in DOMAIN NOTIFICATION_ACTIONS : NOTIFICATION_ACTIONS[a].perm = "shop:update"
      BY DEF NOTIFICATION_ACTIONS, Demand
    <3>3. DemandOf(action).perm = "shop:update"
      BY <3>1, <3>2, EachAction
    <3> QED
      BY <2>2, <3>3, RankOfPages DEF SHOP_MANAGER_PERMS
  <2>3. CASE page \notin {"shopNew", "notifications"}
    <3>1. page \in Managed
      BY <1>3, <2>3, ButtonPages, RankOfPages
    <3>2. \/ action = "uploadImage"
          \/ action \in {"replaceBusinessHours", "addSpecialDay", "deleteSpecialDay",
                         "updateCapacityRule", "updateHomepage", "updateShopSettings"}
      BY <1>3, <2>3, ButtonPages DEF ShopButtons
    <3>3. "uploadImage" \in DOMAIN UPLOADS /\ UPLOADS["uploadImage"].perm = "shop:update"
      BY DEF UPLOADS, Demand
    <3>4. \A a \in {"replaceBusinessHours", "addSpecialDay", "deleteSpecialDay",
                    "updateCapacityRule", "updateHomepage", "updateShopSettings"} :
            a \in DOMAIN SHOP_ACTIONS /\ SHOP_ACTIONS[a].perm \in {"schedule:write", "shop:update"}
      BY DEF SHOP_ACTIONS, Demand
    <3>5. DemandOf(action).perm \in {"schedule:write", "shop:update"}
      BY <3>2, <3>3, <3>4, EachAction
    <3> QED
      BY <3>1, <3>5 DEF SHOP_MANAGER_PERMS
  <2> QED
    BY <2>1, <2>2, <2>3
<1>4. CASE page \in DOMAIN OwnerButtons(p) /\ action \in OwnerButtons(p)[page]
  <2>1. CASE page = "customer"
    <3>1. action \in If(hasPermission(p, "customer:write"), {"updateCustomerNote"})
      BY <1>4, <2>1 DEF OwnerButtons
    <3>2. action = "updateCustomerNote" /\ hasPermission(p, "customer:write")
      BY <3>1 DEF If
    <3>3. /\ "updateCustomerNote" \in DOMAIN SHOP_ACTIONS
          /\ SHOP_ACTIONS["updateCustomerNote"].perm = "customer:write"
      BY DEF SHOP_ACTIONS, Demand
    <3> QED
      BY <3>2, <3>3, EachAction
  <2>2. CASE page = "billing"
    <3>1. action \in If(hasPermission(p, "shop:create"), DOMAIN BILLING_ACTIONS)
      BY <1>4, <2>2 DEF OwnerButtons
    <3>2. action \in DOMAIN BILLING_ACTIONS /\ hasPermission(p, "shop:create")
      BY <3>1 DEF If
    <3>3. \A a \in DOMAIN BILLING_ACTIONS : BILLING_ACTIONS[a].perm = "shop:create"
      BY DEF BILLING_ACTIONS, Demand
    <3> QED
      BY <3>2, <3>3, EachAction
  <2> QED
    BY <1>4, <2>1, <2>2, ButtonPages
<1>5. CASE page \in DOMAIN PlatformButtons
  BY <1>5, ButtonPages DEF PlatformPages
<1> QED
  BY <1>1, <1>2, <1>3, <1>4, <1>5, ButtonsOf

(* What is offered on an open page is open.                                *)
LEMMA OffersOpen ==
  ASSUME NEW p \in Persons, NEW page \in OpenTo(p)
  PROVE  /\ LinksOf(p, page) \subseteq OpenTo(p)
         /\ \A action \in OfferedOn(p, page) : hasPermission(p, DemandOf(action).perm)
<1>1. page \in Pages /\ p.platform \in BOOLEAN /\ p.tenant \in BOOLEAN
  BY PersonsAre DEF OpenTo
<1>2. /\ Free \cup Managed \cup Owned = Inner /\ Inner \cap PlatformPages = {}
      /\ TenantPages \subseteq Inner
  BY EveryRank, PageSets DEF Inner
<1>3. page \in PlatformPages => p.platform
  BY OpenPages
<1>4. page \in Inner => /\ p.tenant
                        /\ page \in Managed => SHOP_MANAGER_PERMS \subseteq Perms(p)
                        /\ page \in Owned => TENANT_OWNER_PERMS \subseteq Perms(p)
  BY OpenPages, GuardedBelow
<1>5. SHOP_MANAGER_PERMS \subseteq TENANT_OWNER_PERMS /\ TENANT_OWNER_PERMS \subseteq ALL_PERMISSIONS
  BY OpenPerms
<1>6. ASSUME NEW link \in LinksIn(p, page) PROVE link \in OpenTo(p)
  <2>1. CASE page \in PlatformPages /\ link \in PlatformPages
    BY <1>3, <2>1, OpenPages
  <2>2. CASE page \in Inner /\ link \in Free
    BY <1>2, <1>4, <2>2, OpenPages
  <2>3. CASE page \in Managed \cup Owned /\ link \in Managed
    BY <1>2, <1>4, <1>5, <2>3, OpenPages
  <2>4. CASE page \in Free /\ link \in Managed /\ hasPermission(p, "analytics:read")
    <3>1. SHOP_MANAGER_PERMS \subseteq Perms(p)
      BY <1>5, <2>4, Ranks, OpenPerms DEF hasPermission
    <3> QED
      BY <1>2, <1>4, <2>4, <3>1, OpenPages
  <2> QED
    BY <2>1, <2>2, <2>3, <2>4, LinksGo
<1>7. ASSUME NEW link \in LinksOf(p, page) PROVE link \in OpenTo(p)
  <2>1. CASE link \in LinksIn(p, page)
    BY <1>6, <2>1
  <2>2. CASE link \notin LinksIn(p, page) /\ page \in PlatformPages
    <3>1. link \in PLATFORM_NAV
      BY <1>2, <2>2 DEF LinksOf
    <3> QED
      BY <1>3, <2>2, <3>1, MenusOpen, OpenPages
  <2>3. CASE link \notin LinksIn(p, page) /\ page \in TenantPages
    <3>1. page \notin PlatformPages
      BY <1>2, <2>3
    <3>2. link \in MerchantNav(p) \cup If("shop:create" \in Perms(p), {"shopNew"})
      BY <2>3, <3>1 DEF LinksOf
    <3> QED
      BY <1>2, <1>4, <2>3, <3>2, MenusOpen, OpenPages
  <2>4. CASE link \notin LinksIn(p, page) /\ page \notin PlatformPages \cup TenantPages
    BY <2>4 DEF LinksOf
  <2> QED
    BY <2>1, <2>2, <2>3, <2>4
<1>8. ASSUME NEW action \in OfferedOn(p, page) PROVE hasPermission(p, DemandOf(action).perm)
  <2>1. CASE page \in PlatformPages
    BY <1>3, <2>1 DEF hasPermission
  <2>2. CASE page \in TenantPages /\ DemandOf(action).perm \in SHOP_STAFF_PERMS
    BY <2>2, Ranks DEF hasPermission
  <2>3. CASE page \in Managed /\ DemandOf(action).perm \in SHOP_MANAGER_PERMS
    BY <1>2, <1>4, <2>3 DEF hasPermission
  <2>4. CASE page \in Owned /\ DemandOf(action).perm \in TENANT_OWNER_PERMS
    BY <1>2, <1>4, <2>4 DEF hasPermission
  <2> QED
    BY <2>1, <2>2, <2>3, <2>4, ButtonsServe
<1> QED
  BY <1>7, <1>8

LEMMA WaysOpen == EveryWayOpens
<1> SUFFICES ASSUME NEW p \in Persons, NEW page \in Pages
             PROVE  /\ \A shut \in BOOLEAN :
                         /\ Hop(p, shut, Land(p, shut, page)) = Land(p, shut, page)
                         /\ shut /\ p.tenant /\ page \in TenantPages
                              => Land(p, shut, page) = "billing"
                         /\ p.tenant /\ page \in Files
                              => Land(p, shut, page) \in {page, Land(p, shut, "schedule")}
                    /\ Land(p, FALSE, page) = page => OpenToThem(p, page)
  BY DEF EveryWayOpens
<1>1. \A shut \in BOOLEAN :
        /\ Hop(p, shut, Land(p, shut, page)) = Land(p, shut, page)
        /\ shut /\ p.tenant /\ page \in TenantPages => Land(p, shut, page) = "billing"
        /\ p.tenant /\ page \in Files => Land(p, shut, page) \in {page, Land(p, shut, "schedule")}
  BY ChainsEnd
<1>2. ASSUME Land(p, FALSE, page) = page PROVE OpenToThem(p, page)
  <2>1. page \in OpenTo(p)
    BY <1>1, <1>2 DEF OpenTo
  <2>2. ASSUME NEW link \in LinksOf(p, page) PROVE Land(p, FALSE, link) = link
    <3>1. Hop(p, FALSE, link) = link
      BY <2>1, OffersOpen DEF OpenTo
    <3> QED
      BY <3>1 DEF Land
  <2> QED
    BY <2>1, <2>2, OffersOpen DEF OpenToThem
<1> QED
  BY <1>1, <1>2

(* Whoever works in the administration, in however many tabs, is shown the *)
(* shop of his save, saves only what was loaded from it, and is offered    *)
(* only what is open to him (console: shop-switcher.tsx, middleware.ts).   *)
THEOREM ConsoleKeepsPromises == ConsoleSpec => []ConsoleHolds
<1>1. ConsoleInv => ConsoleHolds
  BY WhatIsShown, WaysOpen DEF ConsoleHolds
<1> QED
  BY <1>1, ConsoleStart, ConsoleKept, PTL DEF ConsoleSpec

-----------------------------------------------------------------------------
(* The owner's figures                                                     *)

(* Bookings as the rows have them: finitely many, each with a start and a  *)
(* price in whole units.                                                   *)
BookingsOK(S) == IsFiniteSet(S) /\ \A b \in S : b.start \in Int /\ b.price \in Int

(* Finitely many have finitely many values.                                *)
LEMMA FinitelyMany ==
  ASSUME NEW f, IsFiniteSet(DOMAIN f)
  PROVE  IsFiniteSet({f[x] : x \in DOMAIN f})
<1>1. PICK T, g : T = {f[x] : x \in DOMAIN f} /\ g = [x \in DOMAIN f |-> f[x]]
  OBVIOUS
<1>2. g \in Surjection(DOMAIN f, T)
  BY <1>1 DEF Surjection
<1> QED
  BY <1>1, <1>2, FS_Surjection

(* A day of the shop is what lies between its two midnights.               *)
LEMMA StartsInDays ==
  ASSUME Offset \in Int, NEW from \in Int, NEW to \in Int, NEW t \in Int
  PROVE  /\ DayOfInstant(t) \in Int
         /\ InstantOf(from, 0) <= t /\ t < InstantOf(to, 0) <=> DayOfInstant(t) \in from..to - 1
<1>1. \A n \in Int : InstantOf(n, 0) = n * 24 - Offset
  BY DEF InstantOf, HoursPerDay
<1>2. DayOfInstant(t) = (t + Offset) \div 24
  BY DEF DayOfInstant, HoursPerDay
<1> QED
  BY <1>1, <1>2

LEMMA MonthFirstType ==
  ASSUME NEW m \in Int
  PROVE  MonthFirst(m) \in Int
<1> DEFINE days == [i \in m - (m % 12)..m - 1 |-> DaysInMonth(i)]
<1>1. Whole(days)
  <2>1. \A i \in Int : DaysInMonth(i) \in Int
    BY DEF DaysInMonth
  <2>2. m - (m % 12) \in Int /\ m - 1 \in Int
    OBVIOUS
  <2>3. IsFiniteSet(m - (m % 12)..m - 1)
    BY <2>2, FS_Interval
  <2> QED
    BY <2>1, <2>3 DEF Whole
<1>2. DaysBefore(m) \in Int
  <2> HIDE DEF days
  <2>1. Total(days) \in Int
    BY <1>1, TotalRemoves
  <2> QED
    BY <2>1 DEF DaysBefore, days
<1>3. \A y \in Int : LeapDaysBefore(y) \in Int
  BY DEF LeapDaysBefore
<1>4. YearOf(m) \in Int /\ LeapDaysBefore(YearOf(m)) \in Int /\ LeapDaysBefore(1970) \in Int
  BY <1>3 DEF YearOf
<1> QED
  BY <1>2, <1>4 DEF MonthFirst

(* Counted and earned by the parts of a set, p naming the part of each.    *)
LEMMA CountSplits ==
  ASSUME NEW S, IsFiniteSet(S), NEW K, IsFiniteSet(K), NEW p, \A b \in S : p[b] \in K,
         NEW each, each = [k \in K |-> each[k]],
         \A k \in K : each[k] = Cardinality({b \in S : p[b] = k})
  PROVE  Cardinality(S) = Total(each)
<1> DEFINE ones(T) == [b \in T |-> 1]
<1>1. ASSUME NEW T \in SUBSET S
      PROVE  Total(ones(T)) = Cardinality(T)
  <2>1. PICK f : f = ones(T)
    OBVIOUS
  <2>2. DOMAIN f = T /\ IsFiniteSet(T) /\ \A x \in T : f[x] = 1
    BY <2>1, FS_Subset
  <2>3. {x \in DOMAIN f : f[x] = 1} = T /\ {x \in DOMAIN f : f[x] = -1} = {}
    BY <2>2
  <2>4. Total(f) = Cardinality(T) - Cardinality({})
    BY <2>2, <2>3, TotalOfOnes
  <2>5. Cardinality({}) = 0 /\ Cardinality(T) \in Int
    BY <2>2, FS_EmptySet, FS_CardinalityType
  <2> QED
    BY <2>1, <2>4, <2>5
<1>2. \A k \in K : Part(ones(S), {b \in S : p[b] = k}) = ones({b \in S : p[b] = k})
  BY DEF Part
<1>3. Whole(ones(S)) /\ DOMAIN ones(S) = S
  BY DEF Whole
<1>4. Total(ones(S)) = Total([k \in K |-> Total(Part(ones(S), {b \in S : p[b] = k}))])
  <2>1. PICK f : f = ones(S)
    OBVIOUS
  <2>2. Whole(f) /\ DOMAIN f = S
    BY <1>3, <2>1
  <2>3. Total(f) = Total([k \in K |-> Total(Part(f, {x \in DOMAIN f : p[x] = k}))])
    BY <2>2, TotalSplits
  <2> HIDE DEF ones
  <2> QED
    BY <2>1, <2>2, <2>3
<1>5. \A k \in K : Total(Part(ones(S), {b \in S : p[b] = k})) = Cardinality({b \in S : p[b] = k})
  <2> SUFFICES ASSUME NEW k \in K
               PROVE  Total(Part(ones(S), {b \in S : p[b] = k})) = Cardinality({b \in S : p[b] = k})
    OBVIOUS
  <2>1. {b \in S : p[b] = k} \in SUBSET S
    OBVIOUS
  <2> HIDE DEF ones
  <2> QED
    BY <1>1, <1>2, <2>1
<1> HIDE DEF ones
<1>6. [k \in K |-> Total(Part(ones(S), {b \in S : p[b] = k}))]
        = each
  BY <1>5
<1>7. S \in SUBSET S
  OBVIOUS
<1> QED
  BY <1>1, <1>4, <1>6, <1>7

LEMMA RevenueSplits ==
  ASSUME NEW S, BookingsOK(S), NEW K, IsFiniteSet(K), NEW p, \A b \in S : p[b] \in K,
         NEW each, each = [k \in K |-> each[k]],
         \A k \in K : each[k] = Revenue({b \in S : p[b] = k})
  PROVE  Revenue(S) = Total(each)
<1>1. PICK f : f = [b \in S |-> b.price]
  OBVIOUS
<1>2. Whole(f) /\ DOMAIN f = S /\ \A b \in S : f[b] = b.price
  BY <1>1 DEF Whole, BookingsOK
<1>3. Total(f) = Total([k \in K |-> Total(Part(f, {x \in DOMAIN f : p[x] = k}))])
  BY <1>2, TotalSplits
<1>4. \A k \in K : Part(f, {x \in DOMAIN f : p[x] = k})
                     = [b \in {x \in S : p[x] = k} |-> b.price]
  BY <1>2 DEF Part
<1>5. \A k \in K : Total(Part(f, {x \in DOMAIN f : p[x] = k})) = Revenue({b \in S : p[b] = k})
  BY <1>4 DEF Revenue
<1>6. [k \in K |-> Total(Part(f, {x \in DOMAIN f : p[x] = k}))]
        = each
  BY <1>5
<1> QED
  BY <1>1, <1>3, <1>6 DEF Revenue

(* The days of a stretch, or the staff of some bookings, make it up: in    *)
(* visits, in money and in nominations.                                    *)
Figures(S) ==
  [count |-> Cardinality(S), revenue |-> Revenue(S),
   nomination |-> Cardinality({b \in S : b.fee > 0})]

FiguresOf == {"count", "revenue", "nomination"}

LEMMA FiguresSplit ==
  ASSUME NEW S, BookingsOK(S), NEW K, IsFiniteSet(K), NEW p, \A b \in S : p[b] \in K,
         NEW field \in FiguresOf, NEW each, each = [k \in K |-> each[k]],
         \A k \in K : each[k] = Figures({b \in S : p[b] = k})[field]
  PROVE  Figures(S)[field] = Total(each)
<1>1. IsFiniteSet(S)
  BY DEF BookingsOK
<1>2. CASE field = "count"
  BY <1>1, <1>2, CountSplits DEF Figures
<1>3. CASE field = "revenue"
  BY <1>3, RevenueSplits DEF Figures
<1>4. CASE field = "nomination"
  <2>1. PICK N : N = {b \in S : b.fee > 0}
    OBVIOUS
  <2>2. IsFiniteSet(N) /\ N \subseteq S
    BY <1>1, <2>1, FS_Subset
  <2>3. \A k \in K : each[k] = Cardinality({b \in N : p[b] = k})
    <3>1. \A k \in K : {b \in {x \in S : p[x] = k} : b.fee > 0} = {b \in N : p[b] = k}
      BY <2>1
    <3> QED
      BY <1>4, <3>1 DEF Figures
  <2>4. Cardinality(N) = Total(each)
    BY <2>2, <2>3, CountSplits
  <2> QED
    BY <1>4, <2>1, <2>4 DEF Figures
<1> QED
  BY <1>2, <1>3, <1>4 DEF FiguresOf

LEMMA RealizedInDays ==
  ASSUME Offset \in Int, NEW bookings, BookingsOK(bookings), NEW from \in Int, NEW to \in Int, NEW now
  PROVE  /\ RealizedIn(bookings, from, to, now)
              = {b \in bookings : Realized(b, now) /\ DayOfInstant(b.start) \in from..to - 1}
         /\ BookingsOK(RealizedIn(bookings, from, to, now))
<1>1. \A b \in bookings :
        InstantOf(from, 0) <= b.start /\ b.start < InstantOf(to, 0)
          <=> DayOfInstant(b.start) \in from..to - 1
  BY StartsInDays DEF BookingsOK
<1>2. RealizedIn(bookings, from, to, now)
        = {b \in bookings : Realized(b, now) /\ DayOfInstant(b.start) \in from..to - 1}
  BY <1>1 DEF RealizedIn, StartsIn
<1> QED
  BY <1>2, FS_Subset DEF BookingsOK

(* In the report of a month (getMonthlyReport) the days make up the total, *)
(* and so do the staff, those who have left and bookings of nobody         *)
(* included; every customer who came is new or returning, and none is      *)
(* both.                                                                   *)
THEOREM ReportAddsUp ==
  ASSUME Offset \in Int, NEW bookings, BookingsOK(bookings), NEW m \in Int, NEW today, NEW now
  PROVE  LET report == MonthlyReport(bookings, m, today, now)
         IN  /\ \A field \in FiguresOf :
                  /\ report.total[field]
                       = Total([d \in DOMAIN report.daily |-> report.daily[d][field]])
                  /\ report.total[field]
                       = Total([s \in DOMAIN report.byStaff |-> report.byStaff[s][field]])
             /\ report.newCustomers + report.repeatCustomers
                  = Cardinality({b.customer :
                      b \in RealizedIn(bookings, MonthFirst(m), MonthFirst(m + 1), now)}
                                \ {NoCustomer})
<1>1. PICK report : report = MonthlyReport(bookings, m, today, now)
  OBVIOUS
<1>2. PICK from, to : from = MonthFirst(m) /\ to = MonthFirst(m + 1)
  OBVIOUS
<1>3. from \in Int /\ to \in Int
  BY <1>2, MonthFirstType
<1>4. PICK earned : earned = RealizedIn(bookings, from, to, now)
  OBVIOUS
<1>5. BookingsOK(earned) /\ \A b \in earned : DayOfInstant(b.start) \in from..to - 1
  BY <1>3, <1>4, RealizedInDays
<1>6. /\ report.total = Figures(earned)
      /\ report.daily = [d \in from..to - 1 |->
                           Figures({b \in earned : DayOfInstant(b.start) = d})]
      /\ report.byStaff = [s \in {b.staff : b \in earned} |-> Figures({b \in earned : b.staff = s})]
  BY <1>1, <1>2, <1>4 DEF MonthlyReport, MonthBounds, Figures
<1>7. ASSUME NEW field \in FiguresOf
      PROVE  report.total[field] = Total([d \in DOMAIN report.daily |-> report.daily[d][field]])
  <2>1. PICK p : p = [b \in earned |-> DayOfInstant(b.start)]
    OBVIOUS
  <2>2. \A b \in earned : p[b] \in from..to - 1
    BY <1>5, <2>1
  <2>3. report.daily = [d \in from..to - 1 |-> Figures({b \in earned : p[b] = d})]
    <3>1. \A d : {b \in earned : DayOfInstant(b.start) = d} = {b \in earned : p[b] = d}
      BY <2>1
    <3> QED
      BY <1>6, <3>1
  <2>4. IsFiniteSet(from..to - 1)
    BY <1>3, FS_Interval
  <2>5. PICK each : each = [d \in DOMAIN report.daily |-> report.daily[d][field]]
    OBVIOUS
  <2>6. /\ each = [d \in from..to - 1 |-> each[d]]
        /\ \A d \in from..to - 1 : each[d] = Figures({b \in earned : p[b] = d})[field]
    BY <2>3, <2>5
  <2>7. PICK K : K = from..to - 1
    OBVIOUS
  <2>8. /\ IsFiniteSet(K) /\ \A b \in earned : p[b] \in K
        /\ each = [d \in K |-> each[d]]
        /\ \A d \in K : each[d] = Figures({b \in earned : p[b] = d})[field]
    BY <2>2, <2>4, <2>6, <2>7
  <2>9. Figures(earned)[field] = Total(each)
    BY <1>5, <2>8, FiguresSplit
  <2> QED
    BY <1>6, <2>5, <2>9
<1>8. ASSUME NEW field \in FiguresOf
      PROVE  report.total[field] = Total([s \in DOMAIN report.byStaff |-> report.byStaff[s][field]])
  <2>1. PICK p, K : p = [b \in earned |-> b.staff] /\ K = {b.staff : b \in earned}
    OBVIOUS
  <2>2. \A b \in earned : p[b] \in K
    BY <2>1
  <2>3. report.byStaff = [s \in K |-> Figures({b \in earned : p[b] = s})]
    <3>1. \A s : {b \in earned : b.staff = s} = {b \in earned : p[b] = s}
      BY <2>1
    <3> QED
      BY <1>6, <2>1, <3>1
  <2>4. IsFiniteSet(K)
    <3>1. DOMAIN p = earned /\ K = {p[b] : b \in DOMAIN p} /\ IsFiniteSet(earned)
      BY <1>5, <2>1 DEF BookingsOK
    <3> QED
      BY <3>1, FinitelyMany
  <2>5. PICK each : each = [k \in DOMAIN report.byStaff |-> report.byStaff[k][field]]
    OBVIOUS
  <2>6. /\ each = [k \in K |-> each[k]]
        /\ \A k \in K : each[k] = Figures({b \in earned : p[b] = k})[field]
    BY <2>3, <2>5
  <2>7. Figures(earned)[field] = Total(each)
    BY <1>5, <2>2, <2>4, <2>6, FiguresSplit
  <2> QED
    BY <1>6, <2>5, <2>7
<1>9. report.newCustomers + report.repeatCustomers
        = Cardinality({b.customer : b \in earned} \ {NoCustomer})
  <2>1. PICK customers : customers = {b.customer : b \in earned} \ {NoCustomer}
    OBVIOUS
  <2>2. PICK returning :
          returning = {c \in customers : \E b \in bookings :
                         /\ b.customer = c /\ b.status \in Counted
                         /\ b.start < InstantOf(from, 0)}
    OBVIOUS
  <2>3. /\ report.newCustomers = Cardinality(customers \ returning)
        /\ report.repeatCustomers = Cardinality(returning)
    BY <1>1, <1>2, <1>4, <2>1, <2>2 DEF MonthlyReport, MonthBounds
  <2>4. IsFiniteSet(customers)
    <3>1. PICK p : p = [b \in earned |-> b.customer]
      OBVIOUS
    <3>2. /\ DOMAIN p = earned /\ IsFiniteSet(earned)
          /\ {b.customer : b \in earned} = {p[b] : b \in DOMAIN p}
      BY <1>5, <3>1 DEF BookingsOK
    <3>3. IsFiniteSet({b.customer : b \in earned})
      BY <3>2, FinitelyMany
    <3> QED
      BY <2>1, <3>3, FS_Subset
  <2>5. returning \subseteq customers /\ IsFiniteSet(returning)
    BY <2>2, <2>4, FS_Subset
  <2>6. Cardinality(customers \ returning) = Cardinality(customers) - Cardinality(returning)
    <3>1. customers \cap returning = returning
      BY <2>5
    <3> QED
      BY <2>4, <3>1, FS_Difference
  <2>7. Cardinality(customers) \in Nat /\ Cardinality(returning) \in Nat
    BY <2>4, <2>5, FS_CardinalityType
  <2> QED
    BY <2>1, <2>3, <2>6, <2>7
<1> QED
  BY <1>1, <1>2, <1>4, <1>7, <1>8, <1>9

(* A day has the same visits and the same money in the trend, in the       *)
(* report of its month and on the dashboard (getBookingTrend,              *)
(* getMonthlyReport, getDashboardStats), and every booking since a date is *)
(* under one status (getStatusBreakdown).                                  *)
THEOREM SameOnEveryPage ==
  ASSUME Offset \in Int, NEW bookings, BookingsOK(bookings), NEW m \in Int, NEW today \in Int,
         NEW days \in Nat \ {0}, NEW now, NEW since
  PROVE  LET trend  == Trend(bookings, today, days, now)
             report == MonthlyReport(bookings, m, today, now)
             by     == StatusBreakdown(bookings, since)
         IN  /\ \A d \in DOMAIN trend \cap DOMAIN report.daily :
                  /\ trend[d].count = report.daily[d].count
                  /\ trend[d].revenue = report.daily[d].revenue
             /\ trend[today].revenue = Dashboard(bookings, today, now).todayRevenue
             /\ Total(by) = Cardinality({b \in bookings : b.start >= since})
<1> DEFINE trend  == Trend(bookings, today, days, now)
           report == MonthlyReport(bookings, m, today, now)
           by     == StatusBreakdown(bookings, since)
           Seen(d)  == {b \in bookings : Realized(b, now) /\ DayOfInstant(b.start) = d}
           first  == today - (days - 1)
<1>1. \A b \in bookings : DayOfInstant(b.start) \in Int
  BY StartsInDays DEF BookingsOK
<1>2. /\ DOMAIN trend = first..today
      /\ \A d \in first..today : trend[d] = [count |-> Cardinality(Seen(d)), revenue |-> Revenue(Seen(d))]
  <2>1. first \in Int /\ today + 1 \in Int /\ (today + 1) - 1 = today
    OBVIOUS
  <2>2. PICK all : all = RealizedIn(bookings, first, today + 1, now)
    OBVIOUS
  <2>3. all = {b \in bookings : Realized(b, now) /\ DayOfInstant(b.start) \in first..today}
    BY <2>1, <2>2, RealizedInDays
  <2>4. \A d \in first..today : {b \in all : DayOfInstant(b.start) = d} = Seen(d)
    BY <2>3
  <2>5. trend = [d \in first..today |->
                   LET that == {b \in all : DayOfInstant(b.start) = d}
                   IN  [count |-> Cardinality(that), revenue |-> Revenue(that)]]
    BY <2>2 DEF Trend
  <2> QED
    BY <2>4, <2>5
<1>3. \A d \in DOMAIN report.daily :
        report.daily[d].count = Cardinality(Seen(d)) /\ report.daily[d].revenue = Revenue(Seen(d))
  <2>1. PICK from, to : from = MonthFirst(m) /\ to = MonthFirst(m + 1)
    OBVIOUS
  <2>2. from \in Int /\ to \in Int
    BY <2>1, MonthFirstType
  <2>3. PICK earned : earned = RealizedIn(bookings, from, to, now)
    OBVIOUS
  <2>4. earned = {b \in bookings : Realized(b, now) /\ DayOfInstant(b.start) \in from..to - 1}
    BY <2>2, <2>3, RealizedInDays
  <2>5. \A d \in from..to - 1 : {b \in earned : DayOfInstant(b.start) = d} = Seen(d)
    BY <2>4
  <2>6. report.daily = [d \in from..to - 1 |->
                          Figures({b \in earned : DayOfInstant(b.start) = d})]
    BY <2>1, <2>3 DEF MonthlyReport, MonthBounds, Figures
  <2> QED
    BY <2>5, <2>6 DEF Figures
<1>4. Dashboard(bookings, today, now).todayRevenue = Revenue(Seen(today))
  <2>1. RealizedIn(bookings, today, today + 1, now)
          = {b \in bookings : Realized(b, now) /\ DayOfInstant(b.start) \in today..(today + 1) - 1}
    BY RealizedInDays
  <2>2. today..(today + 1) - 1 = {today}
    OBVIOUS
  <2>3. RealizedIn(bookings, today, today + 1, now) = Seen(today)
    BY <2>1, <2>2
  <2> QED
    BY <2>3 DEF Dashboard
<1>5. today \in first..today
  OBVIOUS
<1>6. Total(by) = Cardinality({b \in bookings : b.start >= since})
  <2>1. PICK all, p, K : /\ all = {b \in bookings : b.start >= since}
                         /\ p = [b \in all |-> b.status] /\ K = {b.status : b \in all}
    OBVIOUS
  <2>2. IsFiniteSet(all)
    BY <2>1, FS_Subset DEF BookingsOK
  <2>3. IsFiniteSet(K) /\ \A b \in all : p[b] \in K
    <3>1. DOMAIN p = all /\ K = {p[b] : b \in DOMAIN p}
      BY <2>1
    <3> QED
      BY <2>2, <3>1, FinitelyMany
  <2>4. by = [s \in K |-> Cardinality({b \in all : p[b] = s})]
    <3>1. \A s : {b \in all : b.status = s} = {b \in all : p[b] = s}
      BY <2>1
    <3> QED
      BY <2>1, <3>1 DEF StatusBreakdown
  <2> HIDE DEF by
  <2>5. by = [s \in K |-> by[s]] /\ \A s \in K : by[s] = Cardinality({b \in all : p[b] = s})
    BY <2>4
  <2>6. Cardinality(all) = Total(by)
    BY <2>2, <2>3, <2>5, CountSplits
  <2> QED
    BY <2>1, <2>6
<1> HIDE DEF trend, report, by, Seen
<1>7. ASSUME NEW d \in DOMAIN trend \cap DOMAIN report.daily
      PROVE  trend[d].count = report.daily[d].count /\ trend[d].revenue = report.daily[d].revenue
  BY <1>2, <1>3
<1>8. trend[today].revenue = Dashboard(bookings, today, now).todayRevenue
  BY <1>2, <1>4, <1>5
<1>9. /\ \A d \in DOMAIN trend \cap DOMAIN report.daily :
           trend[d].count = report.daily[d].count /\ trend[d].revenue = report.daily[d].revenue
      /\ trend[today].revenue = Dashboard(bookings, today, now).todayRevenue
      /\ Total(by) = Cardinality({b \in bookings : b.start >= since})
  BY <1>6, <1>7, <1>8
<1> QED
  BY <1>9 DEF trend, report, by

(* Every booking of a day's board is on one lane and on no other: that of  *)
(* its staff, of those who have left, or of nobody (getDaySchedule).       *)
THEOREM OnOneLaneEach ==
  ASSUME NEW shown, \A b, c \in shown : b.id = c.id => b = c, NEW selected
  PROVE  LET lanes == Lanes(shown, selected)
         IN  \A b \in shown : /\ b.staff \in DOMAIN lanes
                              /\ \A l \in DOMAIN lanes : Block(b) \in lanes[l] <=> l = b.staff
<1>1. PICK lanes : lanes = Lanes(shown, selected)
  OBVIOUS
<1>2. PICK D : D = selected \cup Orphans(shown, selected)
                     \cup (IF \E b \in shown : b.staff = Unassigned THEN {Unassigned} ELSE {})
  OBVIOUS
<1>3. DOMAIN lanes = D /\ \A l \in D : lanes[l] = {Block(b) : b \in {x \in shown : x.staff = l}}
  BY <1>1, <1>2 DEF Lanes
<1>4. ASSUME NEW b \in shown
      PROVE  b.staff \in D
  BY <1>2 DEF Orphans
<1>5. ASSUME NEW b \in shown, NEW l \in D
      PROVE  Block(b) \in lanes[l] <=> l = b.staff
  <2>1. \A c \in shown : Block(c) = Block(b) => c = b
    BY DEF Block
  <2> QED
    BY <1>3, <2>1
<1> QED
  BY <1>1, <1>3, <1>4, <1>5

(* What was read for some days and shown.                                  *)
LEMMA ShownOnDay ==
  ASSUME Offset \in Int, NEW bookings, BookingsOK(bookings), NEW from \in Int, NEW to \in Int, NEW only
  PROVE  /\ BookingsOK(OnBoard(bookings, from, to, only))
         /\ \A b \in OnBoard(bookings, from, to, only) : DayOfInstant(b.start) \in from..to - 1
         /\ \A d \in from..to - 1 :
              {b \in OnBoard(bookings, from, to, only) : DayOfInstant(b.start) = d}
                = {b \in OfOne(bookings, only) : b.status \in Drawn /\ DayOfInstant(b.start) = d}
<1>1. \A b \in bookings :
        InstantOf(from, 0) <= b.start /\ b.start < InstantOf(to, 0)
          <=> DayOfInstant(b.start) \in from..to - 1
  BY StartsInDays DEF BookingsOK
<1>2. OnBoard(bookings, from, to, only)
        = {b \in OfOne(bookings, only) : b.status \in Drawn /\ DayOfInstant(b.start) \in from..to - 1}
  BY <1>1 DEF OnBoard, OfOne, StartsIn
<1>3. OnBoard(bookings, from, to, only) \subseteq bookings
  BY <1>2 DEF OfOne
<1>4. BookingsOK(OnBoard(bookings, from, to, only))
  BY <1>3, FS_Subset DEF BookingsOK
<1> QED
  BY <1>2, <1>4

(* The grid of a month takes in its days and whole weeks.                  *)
LEMMA GridHoldsMonth ==
  ASSUME NEW date, NEW m \in Int, MonthOfDay(date) = m
  PROVE  \E first, last \in Int :
           /\ GridDays(date) = first..last
           /\ MonthFirst(m)..MonthFirst(m + 1) - 1 \subseteq first..last
<1>1. PICK a, z \in Int : a = MonthFirst(m) /\ z = MonthFirst(m + 1) - 1
  BY MonthFirstType
<1>2. \A n \in Int : WeekStart(n) \in Int /\ WeekStart(n) <= n /\ n <= WeekStart(n) + 6
  <2> SUFFICES ASSUME NEW n \in Int
               PROVE  WeekStart(n) \in Int /\ WeekStart(n) <= n /\ n <= WeekStart(n) + 6
    OBVIOUS
  <2>1. Dow(n) \in 0..6
    BY DEF Dow
  <2> QED
    BY <2>1 DEF WeekStart
<1>3. GridDays(date) = WeekStart(a)..WeekStart(z) + 6
  BY <1>1 DEF GridDays
<1>4. WeekStart(a) \in Int /\ WeekStart(z) + 6 \in Int /\ WeekStart(a) <= a /\ z <= WeekStart(z) + 6
  BY <1>1, <1>2
<1>5. MonthFirst(m)..MonthFirst(m + 1) - 1 = a..z
  BY <1>1
<1>6. a..z \subseteq WeekStart(a)..(WeekStart(z) + 6)
  BY <1>1, <1>4
<1> QED
  BY <1>3, <1>4, <1>5, <1>6

(* The boards agree, whoever is asked for: a cell of the month is the sum  *)
(* of that day's rows of the week and of the bookings of nobody, which are *)
(* on no row (getWeekSchedule, getMonthSchedule); and the total over the   *)
(* month is the number of its bookings on the board, however many the      *)
(* days of its neighbours have.                                            *)
THEOREM WeekIsOfMonth ==
  ASSUME Offset \in Int, NEW bookings, BookingsOK(bookings), NEW active, IsFiniteSet(active),
         Unassigned \notin active, NEW asked,
         NEW date \in Int, NEW m \in Int, MonthOfDay(date) = m,
         NEW first \in Int, NEW last \in Int, GridDays(date) = first..last
  PROVE  LET only  == Resolved(active, asked)
             week  == OnBoard(bookings, WeekStart(date), WeekStart(date) + 7, only)
             month == OnBoard(bookings, first, last + 1, only)
             team == Selected(active, asked)
             lines  == WeekRows(week, team, date)
             cells == MonthCells(month, date)
         IN  /\ \A d \in WeekDays(date) \cap GridDays(date) :
                  cells[d] = Total([s \in team \cup Orphans(week, team) |-> lines[<<s, d>>]])
                    + Cardinality({b \in week : b.staff = Unassigned /\ DayOfInstant(b.start) = d})
             /\ MonthTotal(cells, date) = Cardinality(Exported(month, m))
<1>1. PICK only, team : only = Resolved(active, asked) /\ team = Selected(active, asked)
  OBVIOUS
<1>2. PICK start : start = WeekStart(date)
  OBVIOUS
<1>3. start \in Int
  <2>1. Dow(date) \in 0..6
    BY DEF Dow
  <2> QED
    BY <1>2, <2>1 DEF WeekStart
<1>4. PICK week, month : /\ week = OnBoard(bookings, start, start + 7, only)
                         /\ month = OnBoard(bookings, first, last + 1, only)
  OBVIOUS
<1>5. PICK ThatDay : ThatDay = [d \in Int |-> {b \in OfOne(bookings, only) :
                                       b.status \in Drawn /\ DayOfInstant(b.start) = d}]
  OBVIOUS
<1>6. /\ BookingsOK(week) /\ \A b \in week : DayOfInstant(b.start) \in start..start + 6
      /\ \A d \in start..start + 6 : {b \in week : DayOfInstant(b.start) = d} = ThatDay[d]
  <2>1. start + 7 \in Int /\ (start + 7) - 1 = start + 6
    BY <1>3
  <2> QED
    BY <1>3, <1>4, <1>5, <2>1, ShownOnDay
<1>7. /\ BookingsOK(month) /\ \A b \in month : DayOfInstant(b.start) \in first..last
      /\ \A d \in first..last : {b \in month : DayOfInstant(b.start) = d} = ThatDay[d]
  <2>1. last + 1 \in Int /\ (last + 1) - 1 = last
    OBVIOUS
  <2> QED
    BY <1>4, <1>5, <2>1, ShownOnDay
<1>8. PICK lines, cells, K : /\ lines = WeekRows(week, team, date)
                            /\ cells = MonthCells(month, date)
                            /\ K = team \cup Orphans(week, team)
  OBVIOUS
<1>9. /\ DOMAIN cells = first..last /\ \A d \in first..last : cells[d] = Cardinality(ThatDay[d])
      /\ cells = [d \in first..last |-> cells[d]]
  BY <1>7, <1>8 DEF MonthCells
<1>10. IsFiniteSet(K) /\ Unassigned \notin K /\ \A b \in week : b.staff \in K \cup {Unassigned}
  <2>1. IsFiniteSet(team) /\ Unassigned \notin team
    <3>1. team \subseteq active
      BY <1>1 DEF Selected
    <3> QED
      BY <3>1, FS_Subset
  <2>2. PICK p : p = [b \in week |-> b.staff]
    OBVIOUS
  <2>3. /\ DOMAIN p = week /\ IsFiniteSet(week) /\ {b.staff : b \in week} = {p[b] : b \in DOMAIN p}
    BY <1>6, <2>2 DEF BookingsOK
  <2>4. IsFiniteSet({b.staff : b \in week})
    BY <2>3, FinitelyMany
  <2>5. IsFiniteSet(Orphans(week, team)) /\ Unassigned \notin Orphans(week, team)
    BY <2>4, FS_Subset DEF Orphans
  <2>6. \A b \in week : b.staff \in K \cup {Unassigned}
    BY <1>8 DEF Orphans
  <2> QED
    BY <1>8, <2>1, <2>5, <2>6, FS_Union
<1>11. ASSUME NEW d \in WeekDays(date) \cap GridDays(date)
       PROVE  cells[d] = Total([s \in K |-> lines[<<s, d>>]])
                + Cardinality({b \in week : b.staff = Unassigned /\ DayOfInstant(b.start) = d})
  <2>1. d \in start..start + 6 /\ d \in first..last
    BY <1>2 DEF WeekDays
  <2>2. PICK S : S = {b \in week : DayOfInstant(b.start) = d}
    OBVIOUS
  <2>3. IsFiniteSet(S) /\ cells[d] = Cardinality(S)
    <3>1. IsFiniteSet(S)
      BY <1>6, <2>2, FS_Subset DEF BookingsOK
    <3> QED
      BY <1>6, <1>9, <2>1, <2>2, <3>1
  <2>4. PICK p, L : p = [b \in S |-> b.staff] /\ L = K \cup {Unassigned}
    OBVIOUS
  <2>5. PICK each : each = [k \in L |-> Cardinality({b \in S : p[b] = k})]
    OBVIOUS
  <2>6. /\ IsFiniteSet(L) /\ \A b \in S : p[b] \in L
        /\ DOMAIN each = L /\ each = [k \in L |-> each[k]]
        /\ \A k \in L : each[k] = Cardinality({b \in S : p[b] = k})
    BY <1>10, <2>2, <2>4, <2>5, FS_AddElement
  <2>7. Cardinality(S) = Total(each)
    BY <2>3, <2>6, CountSplits
  <2>8. Whole(each)
    <3>1. \A k \in L : each[k] \in Nat
      <4>1. \A k : {b \in S : p[b] = k} \subseteq S
        OBVIOUS
      <4>2. \A k : IsFiniteSet({b \in S : p[b] = k})
        BY <2>3, <4>1, FS_Subset
      <4> QED
        BY <2>6, <4>2, FS_CardinalityType
    <3> QED
      BY <2>6, <3>1 DEF Whole
  <2>9. Total(each) = each[Unassigned] + Total(Part(each, L \ {Unassigned}))
        /\ each[Unassigned] \in Int /\ Total(Part(each, L \ {Unassigned})) \in Int
    <3>1. Unassigned \in DOMAIN each /\ L \ {Unassigned} \in SUBSET DOMAIN each
      BY <2>4, <2>6
    <3>2. Whole(Part(each, L \ {Unassigned}))
      BY <2>8, <3>1, WholePart
    <3>3. each[Unassigned] \in Int
      BY <2>8, <3>1 DEF Whole
    <3> QED
      BY <2>6, <2>8, <3>1, <3>2, <3>3, TotalRemoves
  <2>10. L \ {Unassigned} = K
    BY <1>10, <2>4
  <2>11. \A k \in K : lines[<<k, d>>] = each[k]
    <3>1. \A k \in K : {b \in S : p[b] = k} = {b \in week : b.staff = k /\ DayOfInstant(b.start) = d}
      BY <2>2, <2>4
    <3>2. \A k \in K : lines[<<k, d>>]
                         = Cardinality({b \in week : b.staff = k /\ DayOfInstant(b.start) = d})
      <4>1. lines = [row \in K \X WeekDays(date) |->
                      Cardinality({b \in week : b.staff = row[1] /\ DayOfInstant(b.start) = row[2]})]
        BY <1>8 DEF WeekRows
      <4>2. \A k \in K : <<k, d>> \in K \X WeekDays(date)
        OBVIOUS
      <4> QED
        BY <4>1, <4>2
    <3> QED
      BY <2>4, <2>6, <3>1, <3>2
  <2>12. Part(each, K) = [s \in K |-> lines[<<s, d>>]]
    BY <2>11 DEF Part
  <2>13. each[Unassigned]
           = Cardinality({b \in week : b.staff = Unassigned /\ DayOfInstant(b.start) = d})
    <3>1. {b \in S : p[b] = Unassigned}
            = {b \in week : b.staff = Unassigned /\ DayOfInstant(b.start) = d}
      BY <2>2, <2>4
    <3> QED
      BY <2>4, <2>6, <3>1
  <2>14. cells[d] = Total(Part(each, K)) + each[Unassigned]
    <3>1. PICK a, t : a = each[Unassigned] /\ t = Total(Part(each, L \ {Unassigned}))
      OBVIOUS
    <3>2. Total(Part(each, K)) = t
      BY <2>10, <3>1
    <3>3. a \in Int /\ t \in Int /\ cells[d] = a + t
      BY <2>3, <2>7, <2>9, <3>1
    <3>4. cells[d] = t + a
      BY <3>3
    <3> QED
      BY <3>1, <3>2, <3>4
  <2> QED
    BY <2>12, <2>13, <2>14, Zenon
<1>12. MonthTotal(cells, date) = Cardinality(Exported(month, m))
  <2>1. PICK from, to : from = MonthFirst(m) /\ to = MonthFirst(m + 1)
    OBVIOUS
  <2>2. from \in Int /\ to \in Int /\ from..to - 1 \subseteq first..last
    <3>1. from..to - 1 \subseteq GridDays(date)
      BY <2>1, GridHoldsMonth
    <3> QED
      BY <2>1, <3>1, MonthFirstType
  <2>3. PICK S : S = Exported(month, m)
    OBVIOUS
  <2>4. S = {b \in month : DayOfInstant(b.start) \in from..to - 1}
    <3>1. \A b \in month :
            InstantOf(from, 0) <= b.start /\ b.start < InstantOf(to, 0)
              <=> DayOfInstant(b.start) \in from..to - 1
      BY <1>7, <2>2, StartsInDays DEF BookingsOK
    <3> QED
      BY <2>1, <2>3, <3>1 DEF Exported, MonthBounds, StartsIn
  <2>5. IsFiniteSet(S)
    BY <1>7, <2>4, FS_Subset DEF BookingsOK
  <2>6. PICK p, K0 : p = [b \in S |-> DayOfInstant(b.start)] /\ K0 = from..to - 1
    OBVIOUS
  <2>7. PICK each : each = [d \in K0 |-> cells[d]]
    OBVIOUS
  <2>8. \A d \in K0 : {b \in S : p[b] = d} = ThatDay[d]
    <3>1. \A d \in K0 : {b \in S : p[b] = d} = {b \in month : DayOfInstant(b.start) = d}
      BY <2>4, <2>6
    <3> QED
      BY <1>7, <2>2, <2>6, <3>1
  <2>9. \A d \in K0 : each[d] = Cardinality({b \in S : p[b] = d})
    BY <1>9, <2>2, <2>6, <2>7, <2>8
  <2>10. IsFiniteSet(K0) /\ (\A b \in S : p[b] \in K0) /\ each = [d \in K0 |-> each[d]]
    BY <2>2, <2>4, <2>6, <2>7, FS_Interval
  <2>11. Cardinality(S) = Total(each)
    BY <2>5, <2>9, <2>10, CountSplits
  <2>12. MonthTotal(cells, date) = Total(each)
    <3>1. DOMAIN cells \cap (from..to - 1) = K0
      BY <1>9, <2>2, <2>6
    <3> QED
      BY <2>1, <2>7, <3>1 DEF MonthTotal
  <2> QED
    BY <2>3, <2>11, <2>12
<1> QED
  BY <1>1, <1>2, <1>4, <1>8, <1>11, <1>12

(* Customers are on the list of those who have not come for long only when *)
(* they have come once and are not coming again, as their own page says    *)
(* (getDormantCustomers, getCustomerDetail), and one visit is the first    *)
(* and the last.                                                           *)
THEOREM DormantAreGone ==
  ASSUME NEW bookings, BookingsOK(bookings), NEW customers, NEW c \in customers,
         NEW days \in Nat, NEW now \in Int
  PROVE  LET stats == CustomerStats(bookings, c, now)
         IN  /\ c \in Dormant(bookings, customers, days, now) => stats.count > 0 /\ stats.next = {}
             /\ stats.count > 0 /\ stats.next = {} => c \in Dormant(bookings, customers, 0, now)
             /\ stats.count = 1 => stats.first = stats.last
<1>1. PICK stats, visits, next :
        /\ stats = CustomerStats(bookings, c, now) /\ visits = Visits(bookings, c, now)
        /\ next = {b \in bookings : b.customer = c /\ b.status = "CONFIRMED" /\ b.start >= now}
  OBVIOUS
<1>2. /\ stats.count = Cardinality(visits)
      /\ stats.first = {b \in visits : \A v \in visits : b.start <= v.start}
      /\ stats.last = {b \in visits : \A v \in visits : v.start <= b.start}
      /\ stats.next = {b \in next : \A v \in next : b.start <= v.start}
  BY <1>1 DEF CustomerStats
<1>3. /\ IsFiniteSet(visits) /\ IsFiniteSet(next)
      /\ \A b \in visits \cup next : b.start \in Int
  BY <1>1, FS_Subset DEF BookingsOK, Visits
<1>4. stats.count \in Nat /\ (stats.count > 0 <=> visits # {})
  BY <1>2, <1>3, FS_CardinalityType, FS_EmptySet
<1>5. stats.next = {} <=> next = {}
  <2>1. ASSUME next # {} PROVE stats.next # {}
    <3>1. PICK p : p = [b \in next |-> -b.start]
      OBVIOUS
    <3>2. DOMAIN p = next /\ \A b \in next : p[b] = -b.start /\ p[b] \in Int
      BY <1>3, <3>1
    <3>3. PICK T : T = {p[b] : b \in DOMAIN p}
      OBVIOUS
    <3>4. IsFiniteSet(T) /\ T # {} /\ T \in SUBSET Int
      BY <1>3, <2>1, <3>2, <3>3, FinitelyMany
    <3>5. PICK t \in T : \A u \in T : u <= t
      BY <3>4, FiniteGreatest
    <3>6. PICK b \in next : p[b] = t
      BY <3>2, <3>3
    <3>7. \A v \in next : b.start <= v.start
      <4> SUFFICES ASSUME NEW v \in next PROVE b.start <= v.start
        OBVIOUS
      <4>1. p[v] <= p[b]
        BY <3>2, <3>3, <3>5, <3>6
      <4> QED
        BY <1>3, <3>2, <4>1
    <3> QED
      BY <1>2, <3>7
  <2> QED
    BY <1>2, <2>1
<1>6. c \in Dormant(bookings, customers, days, now) => visits # {} /\ next = {}
  BY <1>1 DEF Dormant
<1>7. visits # {} /\ next = {} => c \in Dormant(bookings, customers, 0, now)
  <2>1. \A b \in visits : b.start < now - 0 * HoursPerDay
    BY <1>1, <1>3 DEF Visits, HoursPerDay
  <2> QED
    BY <1>1, <2>1 DEF Dormant
<1>8. stats.count = 1 => stats.first = stats.last
  <2>1. stats.count = 1 => \E b : visits = {b}
    BY <1>2, <1>3, FS_Singleton
  <2> QED
    BY <1>2, <1>3, <2>1
<1> QED
  BY <1>1, <1>4, <1>5, <1>6, <1>7, <1>8
=============================================================================
