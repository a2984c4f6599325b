------------------------------- MODULE Console -------------------------------
(***************************************************************************)
(* The administration as its users meet it: who may open which page        *)
(* (src/middleware.ts, src/server/auth/authorize.ts), what the pages and   *)
(* the menu offer, what the server actions demand (src/server/actions),    *)
(* and the shop all of them are about, chosen in a switcher                *)
(* (src/components/admin/shop-switcher.tsx) and kept in a cookie that the  *)
(* tabs of a browser share.                                                *)
(*                                                                         *)
(* A person is [platform, tenant, memberships]; a membership [role, shop]  *)
(* is of the whole tenant without a shop.  A page of one record is of the  *)
(* record's own shop, its row.                                             *)
(***************************************************************************)
EXTENDS Naturals

CONSTANTS Branches,  \* the shops of the tenant, numbered as they were created
          Tabs, Persons,
          Visited,   \* a bound: the pages that the histories are about
          MaxTurns,  \* a bound of sign-ins and sign-outs, of shops chosen, of locks
          Guest,     \* nobody is signed in
          Absent     \* null

VARIABLES person,    \* who is signed in, or Guest
          locked,    \* the billing gate is shut
          cookie,    \* SELECTED_SHOP_COOKIE, or Absent
          tabs, turns,
          saved      \* the latest save: [page, held, shown, to], or Absent

consoleVars == <<person, locked, cookie, tabs, turns, saved>>
-----------------------------------------------------------------------------
(* Roles and permissions                                                   *)

PLATFORM_PERMS == {"platform:tenant", "platform:plan", "platform:user", "platform:config",
                   "platform:audit"}

SHOP_STAFF_PERMS == {"shop:read", "staff:read", "service:read", "schedule:read", "booking:read",
                     "booking:create", "booking:update", "booking:cancel", "customer:read"}

SHOP_MANAGER_PERMS == SHOP_STAFF_PERMS \cup
  {"shop:update", "staff:write", "service:write", "schedule:write", "customer:write",
   "analytics:read"}

TENANT_OWNER_PERMS == SHOP_MANAGER_PERMS \cup {"shop:create", "audit:read"}

ALL_PERMISSIONS == TENANT_OWNER_PERMS \cup PLATFORM_PERMS

SYSTEM_ROLES ==
  [PLATFORM_ADMIN |-> [scope |-> "PLATFORM", perms |-> ALL_PERMISSIONS],
   TENANT_OWNER   |-> [scope |-> "TENANT",   perms |-> TENANT_OWNER_PERMS],
   SHOP_MANAGER   |-> [scope |-> "SHOP",     perms |-> SHOP_MANAGER_PERMS],
   SHOP_STAFF     |-> [scope |-> "SHOP",     perms |-> SHOP_STAFF_PERMS]]

\* buildAuthContext
Perms(p) ==
  UNION ({SYSTEM_ROLES[m.role].perms : m \in p.memberships}
         \cup (IF p.platform THEN {ALL_PERMISSIONS} ELSE {}))

ShopScopes(p) == {m.shop : m \in p.memberships} \ {Absent}

TenantWide(p) ==
  \/ p.platform
  \/ \E m \in p.memberships : m.shop = Absent /\ SYSTEM_ROLES[m.role].scope \in {"TENANT", "PLATFORM"}

hasPermission(p, perm) == p.platform \/ perm \in Perms(p)

canAccessShop(p, salon) == TenantWide(p) \/ salon \in ShopScopes(p)
-----------------------------------------------------------------------------
(* Pages                                                                   *)

RowPages == {"staffDetail", "staffShifts", "serviceDetail", "bookingDetail"}

PlatformPages == {"platform", "metrics", "tenants", "tenantNew", "tenantDetail", "plans",
                  "planDetail", "users", "audit", "config"}

\* the path of each entry stands for the pages below it too
OWNER_ONLY ==
  [settings |-> "shop:update", homepage |-> "shop:update", preview |-> "shop:update",
   qr |-> "shop:update", notifications |-> "shop:update",
   staff |-> "staff:write", staffNew |-> "staff:write", staffDetail |-> "staff:write",
   staffShifts |-> "staff:write",
   services |-> "service:write", serviceNew |-> "service:write", serviceDetail |-> "service:write",
   hours |-> "schedule:write", rules |-> "schedule:write", calendar |-> "schedule:write",
   reports |-> "analytics:read", export |-> "analytics:read", dormant |-> "analytics:read",
   logs |-> "audit:read", shopNew |-> "shop:create"]

\* what a route answers without a page
Files == {"export"}

TenantPages == (DOMAIN OWNER_ONLY \ Files) \cup
  {"home", "bookings", "bookingNew", "bookingDetail", "schedule", "customers", "customer",
   "billing"}

Pages == TenantPages \cup PlatformPages \cup Files \cup {"login"}

\* middleware.ts: the dashboard is of those who may see its figures
Guarded(p, page) ==
  /\ ~p.platform
  /\ \/ page = "home" /\ "analytics:read" \notin Perms(p)
     \/ page \in DOMAIN OWNER_ONLY /\ OWNER_ONLY[page] \notin Perms(p)

requirePlatformAdmin(p, page) == IF p.platform THEN page ELSE "home"

requireTenantUser(p, shut, page) ==
  CASE ~p.tenant /\ ~p.platform   -> "login"
    [] ~p.tenant /\ p.platform    -> "platform"
    [] p.tenant /\ shut /\ page # "billing" -> "billing"
    [] OTHER                      -> page

\* the route of the file asks for itself, and has no gate: the file, or 401 or 403
exportBookings(p, file) ==
  IF p.tenant /\ hasPermission(p, "analytics:read") THEN file ELSE "refused"

\* where one request leads: the middleware, then the page or the route
Hop(p, shut, page) ==
  CASE page \in {"login", "refused"} -> page
    [] page \notin {"login", "refused"} /\ p = Guest -> "login"
    [] p # Guest /\ page \in PlatformPages -> requirePlatformAdmin(p, page)
    [] p # Guest /\ page \in TenantPages   ->
         IF Guarded(p, page) THEN "schedule" ELSE requireTenantUser(p, shut, page)
    [] p # Guest /\ page \in Files ->
         IF Guarded(p, page) THEN "schedule" ELSE exportBookings(p, page)

\* the redirects a browser follows
Land(p, shut, page) ==
  LET On(at) == Hop(p, shut, at) IN On(On(On(On(page))))

\* a page of a record of another shop is not found
Found(p, page, row) == page \in RowPages => canAccessShop(p, row)

-----------------------------------------------------------------------------
(* What is offered                                                         *)

MERCHANT_NAV == {"home", "bookings", "schedule", "reports", "customers", "staff", "services",
                 "hours", "calendar", "rules", "logs", "homepage", "qr", "notifications",
                 "settings", "billing"}

NavPerm ==
  [item \in {"billing", "home"} \cup DOMAIN OWNER_ONLY |->
     CASE item = "billing" -> "shop:create" [] item = "home" -> "analytics:read"
       [] OTHER -> OWNER_ONLY[item]]

\* the items without a permission are for everybody
MerchantNav(p) ==
  {item \in MERCHANT_NAV : item \in DOMAIN NavPerm => NavPerm[item] \in Perms(p)}

PLATFORM_NAV == {"platform", "metrics", "tenants", "plans", "users", "audit", "config"}

If(condition, links) == IF condition THEN links ELSE {}

\* what the tables have of a page
Of(tables, page) == UNION {t[page] : t \in {t \in tables : page \in DOMAIN t}}

\* the links and pushes in the pages
BookingLinks ==
  [bookings |-> {"bookings", "bookingNew", "bookingDetail"},
   bookingNew |-> {"bookings", "bookingDetail"}, bookingDetail |-> {"bookings"},
   schedule |-> {"schedule", "bookingDetail"}]

CustomerLinks(p) ==
  [customers |-> {"customer"} \cup If(hasPermission(p, "analytics:read"), {"dormant"}),
   customer |-> {"customers", "bookingDetail"}, dormant |-> {"dormant", "customers", "customer"}]

StaffLinks ==
  [staff |-> {"staffNew", "staffDetail", "staffShifts", "schedule"}, staffNew |-> {"staff"},
   staffDetail |-> {"staff", "staffShifts", "schedule"}, staffShifts |-> {"staffDetail", "schedule"}]

ServiceLinks ==
  [services |-> {"serviceNew", "serviceDetail"},
   serviceNew |-> {"services", "staffNew"}, serviceDetail |-> {"services", "staffNew"}]

ShopLinks ==
  [calendar |-> {"hours"}, homepage |-> {"preview"}, preview |-> {"homepage"}, qr |-> {"settings"},
   settings |-> {"qr"}, notifications |-> {"bookingDetail"}, reports |-> {"reports", "export"},
   shopNew |-> {"home"}]

\* the dashboard: its bookings of today, and what is missing before the shop can open
HomeLinks == [home |-> {"bookings", "hours", "services", "staff", "settings"}]

PlatformLinks ==
  [plans |-> {"planDetail"}, planDetail |-> {"plans"}, tenants |-> {"tenantNew", "tenantDetail"},
   tenantNew |-> {"tenants"}, tenantDetail |-> {"tenants"}]

LinksIn(p, page) ==
  Of({BookingLinks, CustomerLinks(p), StaffLinks, ServiceLinks, ShopLinks, HomeLinks,
      PlatformLinks}, page)

\* with the menu of the layout, and the switcher's last item
LinksOf(p, page) ==
  LinksIn(p, page) \cup
  CASE page \in PlatformPages -> PLATFORM_NAV
    [] page \in TenantPages   -> MerchantNav(p) \cup If("shop:create" \in Perms(p), {"shopNew"})
    [] OTHER                  -> {}

\* server actions: the permission, and whether the shop that must be accessible is the
\* one the page sends, the record's own, or none
Demand(perm, on) == [perm |-> perm, on |-> on]

STAFF_ACTIONS ==
  [createStaff |-> Demand("staff:write", "sent"), updateStaff |-> Demand("staff:write", "sent"),
   deleteStaff |-> Demand("staff:write", "sent"), setStaffLogin |-> Demand("staff:write", "sent"),
   disableStaffLogin |-> Demand("staff:write", "sent"),
   createService |-> Demand("service:write", "sent"),
   updateService |-> Demand("service:write", "sent"),
   deleteService |-> Demand("service:write", "sent")]

SHOP_ACTIONS ==
  [updateShopSettings |-> Demand("shop:update", "sent"),
   updateHomepage |-> Demand("shop:update", "sent"),
   addSpecialDay |-> Demand("schedule:write", "sent"),
   deleteSpecialDay |-> Demand("schedule:write", "sent"),
   updateCapacityRule |-> Demand("schedule:write", "sent"),
   replaceStaffSchedule |-> Demand("staff:write", "sent"),
   addStaffOverride |-> Demand("staff:write", "sent"),
   deleteStaffOverride |-> Demand("staff:write", "sent"),
   createShop |-> Demand("shop:create", "none"),
   updateCustomerNote |-> Demand("customer:write", "none"),
   replaceBusinessHours |-> Demand("schedule:write", "sent")]

BOOKING_ACTIONS ==
  [cancelBooking |-> Demand("booking:cancel", "record"),
   updateBookingStatus |-> Demand("booking:update", "record"),
   rescheduleAvailability |-> Demand("booking:update", "record"),
   rescheduleBooking |-> Demand("booking:update", "record")]

DESK_ACTIONS ==
  [adminAvailability |-> Demand("booking:read", "sent"),
   adminCreateBooking |-> Demand("booking:create", "sent")]

NOTIFICATION_ACTIONS ==
  [addEmailRecipient |-> Demand("shop:update", "sent"),
   removeRecipient |-> Demand("shop:update", "sent"),
   startLineLink |-> Demand("shop:update", "sent"),
   retryFailedNotification |-> Demand("shop:update", "sent")]

BILLING_ACTIONS ==
  [startCheckout |-> Demand("shop:create", "none"), openBillingPortal |-> Demand("shop:create", "none")]

PLATFORM_ACTIONS ==
  [createTenant |-> Demand("platform:tenant", "none"), setUserStatus |-> Demand("platform:user", "none"),
   resetUserPassword |-> Demand("platform:user", "none"), updatePlan |-> Demand("platform:plan", "none"),
   setBillingExempt |-> Demand("platform:tenant", "none")]

\* the picture of a homepage is sent to /api/uploads
UPLOADS == [uploadImage |-> Demand("shop:update", "sent")]

Demands ==
  {STAFF_ACTIONS, SHOP_ACTIONS, BOOKING_ACTIONS, DESK_ACTIONS, NOTIFICATION_ACTIONS,
   BILLING_ACTIONS, PLATFORM_ACTIONS, UPLOADS}

\* no two have the same name
DemandOf(action) == CHOOSE demand \in {t[action] : t \in {t \in Demands : action \in DOMAIN t}} : TRUE

\* the buttons of a page
BookingButtons ==
  [bookingNew |-> DOMAIN DESK_ACTIONS, bookingDetail |-> DOMAIN BOOKING_ACTIONS]

StaffButtons ==
  [staffNew |-> {"createStaff"},
   staffDetail |-> {"updateStaff", "deleteStaff", "setStaffLogin", "disableStaffLogin"},
   staffShifts |-> {"replaceStaffSchedule", "addStaffOverride", "deleteStaffOverride"},
   serviceNew |-> {"createService"}, serviceDetail |-> {"updateService", "deleteService"}]

ShopButtons ==
  [hours |-> {"replaceBusinessHours"}, calendar |-> {"addSpecialDay", "deleteSpecialDay"},
   rules |-> {"updateCapacityRule"}, homepage |-> {"updateHomepage", "uploadImage"},
   notifications |-> DOMAIN NOTIFICATION_ACTIONS, settings |-> {"updateShopSettings"},
   shopNew |-> {"createShop"}]

OwnerButtons(p) ==
  [customer |-> If(hasPermission(p, "customer:write"), {"updateCustomerNote"}),
   billing |-> If(hasPermission(p, "shop:create"), DOMAIN BILLING_ACTIONS)]

PlatformButtons ==
  [tenantNew |-> {"createTenant"}, tenantDetail |-> {"setBillingExempt"},
   planDetail |-> {"updatePlan"}, users |-> {"setUserStatus", "resetUserPassword"}]

OfferedOn(p, page) ==
  Of({BookingButtons, StaffButtons, ShopButtons, OwnerButtons(p), PlatformButtons}, page)

-----------------------------------------------------------------------------
(* The shop that is chosen                                                 *)

Oldest(salons) == CHOOSE s \in salons : \A o \in salons : s <= o

VisibleShops(p) == IF TenantWide(p) THEN Branches ELSE Branches \cap ShopScopes(p)

\* getPrimaryShop: whoever has no shop of his own falls back to all of them
PrimaryShop(p, chosen) ==
  LET scoped == IF VisibleShops(p) = {} THEN Branches ELSE VisibleShops(p)
  IN IF chosen \in scoped THEN chosen ELSE Oldest(scoped)

(* A person is of a shop of the tenant, or of all of them: a membership is *)
(* made with the owner or with a login of the staff of a shop, and no shop *)
(* is taken away.                                                          *)
ConsoleAssumption ==
  /\ Branches \subseteq Nat /\ Branches # {} /\ Absent \notin Branches /\ Visited \subseteq Pages
  /\ \A p \in Persons :
       /\ p # Guest /\ p.platform \in BOOLEAN /\ p.tenant \in BOOLEAN
       /\ \A m \in p.memberships : m.role \in DOMAIN SYSTEM_ROLES
       /\ VisibleShops(p) # {}

ASSUME ConsoleAssumption

\* forms that are mounted anew when the page comes back for another shop (key={shop.id}, or
\* a list keyed by its rows); the others keep what was typed, and load nothing of the shop
RemountsNever(page) == FALSE

Remounts(page) == page \in {"settings", "homepage", "hours", "rules"}

\* the shop whose values a form starts from
Loaded(page, salon, row) ==
  IF page \in RowPages THEN row
  ELSE IF page \in {"settings", "homepage", "hours", "rules"} THEN salon ELSE Absent

\* a tab: the page and whom it was rendered for, the shop the switcher names, the one the page
\* is about, its row, the shop its form starts from, the shops of earlier pages, and whether
\* another choice was made since
BlankPage(page) == [page |-> page, user |-> Guest, header |-> Absent, shop |-> Absent, row |-> Absent,
                held |-> Absent, seen |-> {}, behind |-> FALSE]

\* a tab after a document, layout included, has been rendered for a request
Rendered(p, page, row) ==
  LET salon == PrimaryShop(p, cookie)
      shown == IF Found(p, page, row) THEN page ELSE "notFound"
  IN IF page \notin TenantPages THEN BlankPage(page)
     ELSE [BlankPage(shown) EXCEPT !.user = p, !.header = salon, !.shop = salon,
             !.row = IF page \in RowPages THEN row ELSE Absent, !.held = Loaded(shown, salon, row)]

InConsole(tab) == tab.page \in TenantPages

\* the page of a tab comes again with its layout: router.refresh, or the answer of an action
Refreshed(p, tab) ==
  LET anew == Rendered(p, Land(p, locked, tab.page), tab.row)
  IN IF anew.page # tab.page \/ (Remounts(anew.page) /\ anew.shop # tab.shop) THEN anew
     ELSE [anew EXCEPT !.held = tab.held]

\* what the other tabs show may be of an earlier choice, or of another person
Behind(all, but) == [t \in Tabs |-> IF t \in but THEN all[t] ELSE [all[t] EXCEPT !.behind = TRUE]]

ConsoleInit ==
  /\ person \in Persons \cup {Guest}
  /\ locked = FALSE /\ cookie = Absent /\ turns = 0 /\ saved = Absent
  /\ tabs = [t \in Tabs |-> BlankPage("login")]

\* a file is saved, and the tab shows what it showed
Shown(tab, anew) == IF anew.page \in Files THEN tab ELSE anew

Turn == turns < MaxTurns /\ turns' = turns + 1

\* an address is entered, or a page loaded again: any page, of any record
Enter(t) ==
  \E page \in Visited \cup {"home"}, row \in Branches :
    /\ tabs' = [tabs EXCEPT ![t] = Shown(@, Rendered(person, Land(person, locked, page), row))]
    /\ UNCHANGED <<person, locked, cookie, turns, saved>>

\* a link of the page or the menu; the layout stays, and the page is rendered now or, for a
\* while, taken from what this tab was given before; a list shows the records of its shop
Follow(t) ==
  LET tab == tabs[t] IN
  /\ InConsole(tab)
  /\ \E page \in LinksOf(tab.user, tab.page) \cap Visited :
       LET land == Land(person, locked, page)
           row  == IF tab.row = Absent THEN tab.shop ELSE tab.row
           anew == Rendered(person, land, row)
       IN \E salon \in {anew.shop} \cup (IF land = page THEN tab.seen ELSE {}) :
            tabs' = [tabs EXCEPT ![t] =
              IF ~InConsole(anew) THEN Shown(tab, anew)
              ELSE [anew EXCEPT !.user = tab.user, !.header = tab.header, !.shop = salon,
                      !.held = Loaded(anew.page, salon, row),
                      !.seen = tab.seen \cup {salon}, !.behind = tab.behind]]
  /\ UNCHANGED <<person, locked, cookie, turns, saved>>

\* switchTo and selectShopAction; the answer comes to this tab when it is refreshed
Select(t) ==
  /\ person # Guest /\ InConsole(tabs[t]) /\ person.tenant /\ Turn
  /\ \E salon \in VisibleShops(tabs[t].user) \ {tabs[t].header} :
       /\ canAccessShop(person, salon)
       /\ cookie' = salon
  /\ tabs' = Behind(tabs, {})
  /\ UNCHANGED <<person, locked, saved>>

Refresh(t) ==
  /\ InConsole(tabs[t])
  /\ tabs' = [tabs EXCEPT ![t] = Refreshed(person, tabs[t])]
  /\ UNCHANGED <<person, locked, cookie, turns, saved>>

\* authz and the service, which looks a record up in the shop that the page sends
Accepted(p, tab, action) ==
  /\ p # Guest /\ hasPermission(p, DemandOf(action).perm) /\ p.tenant
  /\ CASE DemandOf(action).on = "sent"   -> canAccessShop(p, tab.shop)
       [] DemandOf(action).on = "record" -> canAccessShop(p, tab.row)
       [] OTHER                         -> TRUE
  /\ (tab.page \in RowPages /\ DemandOf(action).on = "sent") => tab.row = tab.shop

\* runAction: a refusal changes nothing; writeAudit lets the work stand when it fails
Press(t) ==
  LET tab == tabs[t] IN
  /\ InConsole(tab)
  /\ \E action \in OfferedOn(tab.user, tab.page) :
       /\ Accepted(person, tab, action)
       /\ saved' = [page |-> tab.page, held |-> tab.held,
                    shown |-> IF tab.behind THEN Absent ELSE tab.header,
                    to |-> IF tab.page \in RowPages THEN tab.row ELSE tab.shop]
  /\ tabs' = [tabs EXCEPT ![t] = Refreshed(person, tab)]
  /\ UNCHANGED <<person, locked, cookie, turns>>

\* LoginForm: to the page first asked for, or the dashboard
LogIn(t) ==
  /\ tabs[t].page = "login" /\ Turn
  /\ \E p \in Persons, page \in ((Visited \cap (TenantPages \cup Files)) \ RowPages) \cup {"home"} :
       /\ person' = p
       /\ tabs' = Behind([tabs EXCEPT ![t] =
                    Shown(@, Rendered(p, Land(p, locked, page), Absent))], {t})
  /\ UNCHANGED <<locked, cookie, saved>>

\* logoutAction; the cookie of the shop stays
LogOut(t) ==
  /\ InConsole(tabs[t]) \/ tabs[t].page = "platform"
  /\ Turn
  /\ person' = Guest
  /\ tabs' = Behind([tabs EXCEPT ![t] = BlankPage("login")], {t})
  /\ UNCHANGED <<locked, cookie, saved>>

\* the trial ends, or the contract is paid for
Gate ==
  /\ Turn
  /\ locked' = ~locked
  /\ UNCHANGED <<person, cookie, tabs, saved>>

ConsoleNext ==
  \/ \E t \in Tabs : \/ Enter(t) \/ Follow(t) \/ Select(t) \/ Refresh(t) \/ Press(t)
                     \/ LogIn(t) \/ LogOut(t)
  \/ Gate

ConsoleSpec == ConsoleInit /\ [][ConsoleNext]_consoleVars
-----------------------------------------------------------------------------
(* Values are saved only to the shop they were loaded from and the one the *)
(* page names, whatever is chosen meanwhile in this tab or another         *)
(* (settings/page.tsx:37: "prevents that after switching, the old shop's   *)
(* values are saved over the new shop's"); a tab that is not behind names  *)
(* the shop its page is about, one of the person's own.  Only the page of  *)
(* a booking takes a booking of any of the person's shops, whatever shop   *)
(* the switcher names.                                                     *)
SavedWhereShown ==
  /\ saved # Absent =>
       /\ saved.held \in {Absent, saved.to}
       /\ saved.shown \in {Absent, saved.to} \/ saved.page = "bookingDetail"
  /\ \A t \in Tabs : InConsole(tabs[t]) /\ ~tabs[t].behind =>
       /\ tabs[t].header = tabs[t].shop
       /\ tabs[t].header \in VisibleShops(person)

(* No chain of redirects goes round; whatever a page or the menu offers is *)
(* open to the one it is offered to, and so are its buttons, unless the    *)
(* gate leads to the contract, which is always open                        *)
(* (admin/layout.tsx:9-11).  The file of bookings is not behind the gate:  *)
(* who is of a tenant gets it, shut or not, or is led where the schedule   *)
(* leads; its route refuses only who has no tenant, for the middleware and *)
(* the route ask for the same permission.                                  *)
OpenToThem(p, page) ==
  /\ \A link \in LinksOf(p, page) : Land(p, FALSE, link) = link
  /\ \A action \in OfferedOn(p, page) : hasPermission(p, DemandOf(action).perm)

EveryWayOpens ==
  \A p \in Persons, page \in Pages :
    /\ \A shut \in BOOLEAN : LET land == Land(p, shut, page) IN
         /\ Hop(p, shut, land) = land
         /\ shut /\ p.tenant /\ page \in TenantPages => land = "billing"
         /\ p.tenant /\ page \in Files => land \in {page, Land(p, shut, "schedule")}
    /\ Land(p, FALSE, page) = page => OpenToThem(p, page)

(* The two promises of the administration's pages.                         *)
ConsoleHolds == SavedWhereShown /\ EveryWayOpens
=============================================================================
