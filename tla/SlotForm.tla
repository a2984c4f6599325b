------------------------------ MODULE SlotForm ------------------------------
(***************************************************************************)
(* The three forms that ask for a day's free times and then for one of     *)
(* them:                                                                   *)
(*   "customer"  a customer moves a visit (customer-reschedule.tsx)        *)
(*   "shop"      the shop moves it, to any of its staff                    *)
(*               (reschedule-form.tsx)                                     *)
(*   "new"       the shop books for somebody on the telephone              *)
(*               (admin-booking-form.tsx)                                  *)
(* A change of day, staff or menu throws the list away; one list at a time *)
(* is asked for; its fields stay open meanwhile, and the answer is taken   *)
(* whatever they say by then.                                              *)
(***************************************************************************)
EXTENDS Naturals, FiniteSets

CONSTANTS
    FormDays,       \* days the forms may name
    FormStaff,      \* the shop's staff
    FormMenus,      \* the shop's services, each mapped to who can do it; needs staff if nonempty
    FormTimes,      \* times of day
    MaxAsked        \* bound: requests made

VARIABLES
    form,           \* the fields, the list, the choice
    reading,        \* the free times asked for, or NotReading
    asked,          \* history: what the server was asked to book or move to
    raced           \* history: a field was changed while times were being read

formVars == <<form, reading, asked, raced>>

Nobody == "anyone"

NoMenu == "no menu"

NoList == [day |-> "no list"]

NotChosen == [time |-> "not chosen"]

NotReading == [day |-> "not reading"]

Kinds == {"customer", "shop", "new"}

\* what the free times depend on; a customer keeps the visit's staff and services
Fields(f) == [day |-> f.day, staff |-> f.staff, menu |-> f.menu]

\* the form with nothing read yet; the customer's is folded up
Opened(kind, day) ==
    [kind |-> kind, day |-> day, staff |-> Nobody, menu |-> NoMenu, list |-> NoList,
     label |-> NoList.day, choice |-> NotChosen,
     loading |-> FALSE, sending |-> FALSE, here |-> kind # "customer"]

FormInit ==
    /\ \E kind \in Kinds, day \in FormDays : form = Opened(kind, day)
    /\ reading = NotReading /\ asked = {} /\ raced = FALSE

\* the customer unfolds the form, and folds it up unless a request is on its way
Fold ==
    /\ form.kind = "customer" /\ ~form.sending
    /\ form' = [form EXCEPT !.here = ~@]
    /\ UNCHANGED <<reading, asked, raced>>

\* the new value of a field, the list and the choice thrown away
Cleared(f) == [f EXCEPT !.list = NoList, !.label = NoList.day, !.choice = NotChosen]

Change(f) ==
    /\ form.here /\ form' = Cleared(f)
    /\ raced' = (raced \/ reading # NotReading)
    /\ UNCHANGED <<reading, asked>>

ChangeDay(d) == d # form.day /\ Change([form EXCEPT !.day = d])

\* everyone when the shop moves a visit, those who do the menu when it books one
StaffOffered ==
    CASE form.kind = "shop" -> FormStaff
      [] form.kind = "new" /\ form.menu # NoMenu -> FormMenus[form.menu]
      [] OTHER -> {}

ChangeStaff(s) ==
    /\ s # form.staff /\ StaffOffered # {} /\ s \in StaffOffered \cup {Nobody}
    /\ Change([form EXCEPT !.staff = s])

\* another menu goes back to anyone
ChangeMenu(m) ==
    /\ form.kind = "new" /\ m # form.menu
    /\ Change([form EXCEPT !.menu = m, !.staff = Nobody])

\* the list stays until the answer; the choice does not
Search ==
    /\ form.here /\ ~form.loading
    /\ form.kind = "new" => form.menu # NoMenu
    /\ form' = [form EXCEPT !.loading = TRUE, !.choice = NotChosen]
    /\ reading' = Fields(form)
    /\ UNCHANGED <<asked, raced>>

\* the shop's form notes the day that was searched
ListArrives(free) ==
    /\ reading # NotReading
    /\ form' = [form EXCEPT !.loading = FALSE, !.list = [of |-> reading, free |-> free],
                            !.label = IF form.kind = "shop" THEN reading.day ELSE @]
    /\ reading' = NotReading
    /\ UNCHANGED <<asked, raced>>

\* refused by the server, or for the customer not answered: an empty list
SearchFails ==
    /\ reading # NotReading
    /\ form' = [form EXCEPT !.loading = FALSE, !.list = [of |-> reading, free |-> {}]]
    /\ reading' = NotReading
    /\ UNCHANGED <<asked, raced>>

\* no answer to a call of the shop: moving ends on the error page; booking waits for ever
SearchLost ==
    /\ reading # NotReading /\ form.kind # "customer"
    /\ form' = IF form.kind = "shop" THEN [form EXCEPT !.here = FALSE] ELSE form
    /\ reading' = NotReading
    /\ UNCHANGED <<asked, raced>>

Choose(t) ==
    /\ form.here /\ form.list # NoList /\ t \in form.list.free
    /\ form' = [form EXCEPT !.choice = [time |-> t, of |-> form.list.of]]
    /\ UNCHANGED <<reading, asked, raced>>

\* the instant chosen, with the staff and the menu of the fields now
Send ==
    /\ form.here /\ form.choice # NotChosen /\ ~form.sending
    /\ Cardinality(asked) < MaxAsked
    /\ asked' = asked \cup {[kind |-> form.kind, choice |-> form.choice,
                             staff |-> form.staff, menu |-> form.menu, label |-> form.label]}
    /\ form' = [form EXCEPT !.sending = TRUE]
    /\ UNCHANGED <<reading, raced>>

\* the customer's page is loaded again, the shop goes to its booking, or stays in the form
Granted ==
    /\ form.sending
    /\ \/ /\ form.kind = "customer"
          /\ \E d \in FormDays : form' = Opened("customer", d)
          /\ reading' = NotReading
       \/ form.kind = "shop" /\ form' = [form EXCEPT !.sending = FALSE] /\ UNCHANGED reading
       \/ form.kind = "new" /\ form' = [form EXCEPT !.here = FALSE] /\ UNCHANGED reading
    /\ UNCHANGED <<asked, raced>>

\* refused; to a customer no answer is the same
Refused ==
    /\ form.sending
    /\ form' = [form EXCEPT !.sending = FALSE]
    /\ UNCHANGED <<reading, asked, raced>>

\* the buttons the three forms have in common, and the answers
Common ==
    \/ \E d \in FormDays : ChangeDay(d)
    \/ Search
    \/ \E t \in FormTimes : Choose(t)
    \/ Send
    \/ \E free \in SUBSET FormTimes : ListArrives(free)
    \/ SearchFails \/ SearchLost
    \/ Granted \/ Refused

CustomerForm == form.kind = "customer" /\ (Fold \/ Common)

ShopForm ==
    /\ form.kind = "shop"
    /\ Common \/ \E s \in FormStaff \cup {Nobody} : ChangeStaff(s)

NewForm ==
    /\ form.kind = "new"
    /\ \/ Common
       \/ \E s \in FormStaff \cup {Nobody} : ChangeStaff(s)
       \/ \E m \in DOMAIN FormMenus \cup {NoMenu} : ChangeMenu(m)

FormNext == CustomerForm \/ ShopForm \/ NewForm

FormSpec == FormInit /\ [][FormNext]_formVars

(***************************************************************************)
(* The times that can be pressed are those of the day, the staff and the   *)
(* menu in the fields (customer-reschedule.tsx:80, "if the slots of the    *)
(* former date stay after a change of date, the visit is moved to a wrong  *)
(* day"; reschedule-form.tsx:57, "the screen does not let it happen").     *)
(***************************************************************************)
TimesOfTheFields == form.choice # NotChosen => form.choice.of = Fields(form)

(***************************************************************************)
(* What holds however searches, failures and changes come: the day the     *)
(* shop's form writes over the times is the day they were read for, and    *)
(* unless a field was changed while times were being read, what is asked   *)
(* of the server is what the fields say, under the day written.            *)
(***************************************************************************)
AskedAsShown ==
    /\ form.kind = "shop" /\ form.list # NoList /\ form.list.free # {} =>
         form.label = form.list.of.day
    /\ ~raced => /\ TimesOfTheFields
                 /\ \A r \in asked :
                      /\ r.choice.of.staff = r.staff /\ r.choice.of.menu = r.menu
                      /\ r.kind = "shop" => r.label = r.choice.of.day
=============================================================================
