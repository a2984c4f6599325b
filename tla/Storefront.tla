----------------------------- MODULE Storefront ------------------------------
(***************************************************************************)
(* What everybody may read of a shop: its homepage                         *)
(* (src/server/services/shop-homepage-service.ts, src/lib/homepage-seo.ts, *)
(* src/components/homepage/storefront.tsx) and the head of its booking     *)
(* page (public-shop-service.ts).                                          *)
(*                                                                         *)
(* A shop is [published, booking, address, profile]; address is the set of *)
(* its lines {"prefecture", "city", "street"}, profile {} or the one       *)
(* record [enabled, about, menu, staff, gallery, address], the last four   *)
(* being the switches of the owner's form and the pictures a set of keys.  *)
(* A menu is one of Quote; opening hours are those of Hours, times of day  *)
(* in its unit.                                                            *)
(***************************************************************************)
EXTENDS Hours

CONSTANTS NoticeDays,     \* how far the notices look (60)
          MostNotices,    \* how many are shown (8)
          LastMinute      \* the last minute of a day that is a time for schema.org (23:59)

(***************************************************************************)
(* Who is shown                                                            *)
(***************************************************************************)

\* getPublicHomepage: published, and the homepage switched on; else not found
HomepageOpen(shop) == shop.published /\ \E p \in shop.profile : p.enabled

\* getPublicShop, resolveShopIds
BookingPageOpen(shop) == shop.published /\ shop.booking

\* a service is offered while it is active
Offered(menu) == {v \in DOMAIN menu : menu[v].active}

\* getPublicShop: without a profile the address is shown
BookingPage(shop, menu, bookable) ==
    [address  |-> IF \E p \in shop.profile : ~p.address THEN shop.address \ {"city", "street"}
                  ELSE shop.address,
     services |-> Offered(menu),
     staff    |-> [v \in Offered(menu) |-> menu[v].staff \cap bookable]]

\* buildHomepage with EMPTY_PROFILE for a preview of a shop without one
EmptyProfile == [enabled |-> FALSE, about |-> FALSE, menu |-> TRUE, staff |-> TRUE,
                 gallery |-> TRUE, address |-> TRUE, pictures |-> {}]

ProfileOf(shop) == IF shop.profile = {} THEN EmptyProfile ELSE CHOOSE p \in shop.profile : TRUE

Coming(specials, today) == {s \in specials : today <= s.date /\ s.date < today + NoticeDays}

Homepage(shop, db, today, menu, bookable) ==
    LET p == ProfileOf(shop) IN
    [profile  |-> p,
     address  |-> IF p.address THEN shop.address ELSE {},
     booking  |-> shop.booking,
     hours    |-> db.hours,
     closeOn  |-> db.closeOn,
     specials |-> Coming(db.specials, today),
     holidays |-> IF db.closeOn THEN HolidaysInRange(today, today + NoticeDays) ELSE {},
     services |-> IF p.menu THEN Offered(menu) ELSE {},
     staff    |-> IF p.staff THEN bookable ELSE {}]

(***************************************************************************)
(* Storefront                                                              *)
(***************************************************************************)

\* the sections of the page, and the links to them at its head, each with conditions of its own
Sections(hp) ==
    {"access"} \cup {x \in {"about", "menu", "staff", "gallery"} :
       CASE x = "about"   -> hp.profile.about
         [] x = "menu"    -> hp.profile.menu /\ hp.services # {}
         [] x = "staff"   -> hp.profile.staff /\ hp.staff # {}
         [] x = "gallery" -> hp.profile.gallery /\ hp.profile.pictures # {}}

Anchors(hp) ==
    (IF hp.profile.about THEN {"about"} ELSE {})
      \cup (IF hp.profile.menu /\ hp.services # {} THEN {"menu"} ELSE {})
      \cup (IF hp.profile.staff /\ hp.staff # {} THEN {"staff"} ELSE {})
      \cup (IF hp.profile.gallery /\ hp.profile.pictures # {} THEN {"gallery"} ELSE {})
      \cup {"access"}

\* addressLine, on the hero, under "access", for the map, in the footer and for search engines
AddressLine(hp) == hp.address

\* header, hero, menu and footer
BookLinks(hp) ==
    IF ~hp.booking THEN {}
    ELSE {"header", "hero", "footer"} \cup (Sections(hp) \cap {"menu"})

\* notices: special days, and holidays without a row of their own; the first few
AllNotices(hp) ==
    {[date |-> s.date, closed |-> s.type = "CLOSED", times |-> s.times] : s \in hp.specials}
      \cup {[date |-> d, closed |-> TRUE, times |-> {}] :
              d \in hp.holidays \ {s.date : s \in hp.specials}}

Notices(hp) ==
    LET all == AllNotices(hp)
    IN  {n \in all : Cardinality({m \in all : m.date < n.date}) < MostNotices}

\* groupHours: each weekday with its rows, "closed" without
GroupHours(hours) == [w \in 0..6 |-> {Span(h.open, h.close) : h \in {r \in hours : r.dow = w}}]

(***************************************************************************)
(* buildJsonLd: what search engines are told                               *)
(***************************************************************************)

\* 24:00 is no time there
LdTime(t) == Min({t, LastMinute})

\* openingHoursSpecification: the weekdays of each pair of times, and the holidays
LdWeek(hp) ==
    LET times == {<<LdTime(h.open), LdTime(h.close)>> : h \in hp.hours}
    IN  {[days |-> {h.dow : h \in {r \in hp.hours : <<LdTime(r.open), LdTime(r.close)>> = x}},
          opens |-> x[1], closes |-> x[2]] : x \in times}

LdHolidaysClosed(hp) == hp.closeOn

\* specialOpeningHoursSpecification: from 0 to 0 is closed
LdSpecial(hp) ==
    {[date |-> s.date,
      spans |-> IF s.type = "CLOSED" THEN {Span(0, 0)}
                ELSE {Span(LdTime(x.start), LdTime(x.end)) : x \in s.times}] : s \in hp.specials}

\* priceRange: reduced prices first, none of nothing
PriceRange(prices) ==
    LET asked == {p \in prices : p > 0}
    IN  IF asked = {} THEN {} ELSE {Min(asked), Max(asked)}
=============================================================================
