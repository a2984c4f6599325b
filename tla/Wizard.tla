------------------------------- MODULE Wizard -------------------------------
(***************************************************************************)
(* The booking page a customer walks through (booking-wizard.tsx): menus,  *)
(* date and time, personal details, confirmation.  Its effects (React runs *)
(* them after every render) read the free times, read the marks of the     *)
(* month, drop a nomination no longer possible, move to a day that is      *)
(* free, and forget the idempotency key when what would be booked changes. *)
(* Answers come whenever they come, in any order, or not at all; a request *)
(* to book that the page has given up on may still arrive.                 *)
(***************************************************************************)
EXTENDS Naturals, FiniteSets

CONSTANTS
    Menus,          \* the shop's services
    Extras,         \* the options a service may have, of its own
    Chairs,         \* the shop's staff
    Does,           \* pairs <<staff, service>>: who can do what
    Forms,          \* the details the customer may type, name and contact
    Times,          \* starts of the day's slots
    PerMonth,       \* days of a month
    LastDay,        \* the last day of the months shown (today is day 0)
    MarkSets,       \* what the server may say of the days, at one moment or another
    MonthsAhead,    \* MAX_MONTHS_AHEAD: months the calendar opens beyond this one
    MaxServices,    \* MAX_SERVICES
    MaxEdits,       \* bound: changes of what would be booked
    MaxFetches,     \* bound: reads of the free times
    MaxReads,       \* bound: reads of a month's marks on their way at once
    MaxPosts        \* bound: requests to book

VARIABLES
    page,           \* what the customer has chosen and sees
    slots,          \* the free times shown, and what they were asked for
    loading,        \* loadingSlots
    seq,            \* fetchSeqRef.current
    fetches,        \* reads of the free times not answered yet
    summaries,      \* reads of the month's marks not answered yet
    profile,        \* lineProfile # null
    key,            \* idempotencyKeyRef.current, 0 for null
    waiting,        \* the request the page waits for (submittingRef), or NoPost
    posts,          \* requests on their way to the server
    sent,           \* history: every request ever made
    booked,         \* the server's bookings, at most one a key
    edits           \* history: changes of what would be booked

wvars == <<page, slots, loading, seq, fetches, summaries, profile, key,
           waiting, posts, sent, booked, edits>>

None == "none"

NoPost == [n |-> 0]

NoSlot == [at |-> None]

NoQuery == [date |-> None]

Today == 0

Days == 0..LastDay

MonthOf(d) == d \div PerMonth

\* the free times of one selection on one day
Query(p) == [picked |-> p.picked, staff |-> p.staff, date |-> p.date]

\* what a request to book carries
Content(p) == [picked |-> p.picked, staff |-> p.staff, slot |-> p.slot, form |-> p.form]

Blank == [step |-> "service", picked |-> [m \in {} |-> {}], staff |-> None,
          date |-> Today, month |-> MonthOf(Today), slot |-> NoSlot,
          marks |-> [d \in Days |-> "unknown"],
          form |-> [name |-> FALSE, contact |-> FALSE]]

WizardInit ==
    /\ page = Blank
    /\ slots = [of |-> NoQuery, free |-> {}]
    /\ loading = FALSE /\ seq = 0 /\ fetches = {} /\ summaries = {}
    /\ profile = FALSE /\ key = 0 /\ waiting = NoPost
    /\ posts = {} /\ sent = {} /\ booked = {} /\ edits = 0

(***************************************************************************)
(* After every render                                                      *)
(***************************************************************************)

\* eligibleStaff: who can do all of the services chosen
Eligible(picked) ==
    IF DOMAIN picked = {} THEN {}
    ELSE {w \in Chairs : \A m \in DOMAIN picked : <<w, m>> \in Does}

\* a nomination that is no longer possible goes back to "anyone"
NominationKept(p) ==
    IF p.staff = None \/ p.staff \in Eligible(p.picked) THEN p ELSE [p EXCEPT !.staff = None]

OpenIn(p) == {d \in Days : MonthOf(d) = p.month /\ d >= Today /\ p.marks[d] = "OPEN"}

\* a chosen day that is full or closed gives way to the month's first free one
MovedToOpenDay(p) ==
    IF /\ p.step = "datetime" /\ MonthOf(p.date) = p.month
       /\ p.marks[p.date] = "CLOSED" /\ OpenIn(p) # {}
    THEN [p EXCEPT !.date = CHOOSE d \in OpenIn(p) : \A e \in OpenIn(p) : d <= e,
                   !.slot = NoSlot]
    ELSE p

\* a bug to be caught: the key outlives a change of what it stands for
KeyKeptOverEdit(p) == key

\* the key is forgotten when a service, the nomination, the time or the form changes
KeyAfter(p) == IF Content(p) = Content(page) THEN key ELSE 0

\* the page settles on p: effects run, and reads are sent for what p shows
Render(p0) ==
    LET p == MovedToOpenDay(NominationKept(p0))
        fresh == p.step = "datetime" /\ DOMAIN p.picked # {}
    IN
    /\ page' = p
    /\ key' = KeyAfter(p)
    /\ edits' = IF Content(p) = Content(page) THEN edits ELSE edits + 1
    /\ IF fresh /\ (page.step # "datetime" \/ Query(p) # Query(page))
       THEN /\ seq < MaxFetches
            /\ seq' = seq + 1 /\ loading' = TRUE
            /\ fetches' = fetches \cup {[seq |-> seq + 1, of |-> Query(p)]}
       ELSE UNCHANGED <<seq, loading, fetches>>
    /\ IF fresh /\ \/ page.step # "datetime" \/ p.month # page.month
                   \/ <<p.picked, p.staff>> # <<page.picked, page.staff>>
       THEN /\ Cardinality(summaries) < MaxReads
            /\ summaries' = summaries \cup
                  {[month |-> p.month, of |-> <<p.picked, p.staff>>]}
       ELSE UNCHANGED summaries

Elsewhere == UNCHANGED <<profile, waiting, posts, sent, booked>>

(***************************************************************************)
(* The customer                                                            *)
(***************************************************************************)
Editable == edits < MaxEdits

\* the page of services: choosing one clears the time and the marks
Rechosen(picked) ==
    [page EXCEPT !.picked = picked, !.slot = NoSlot, !.marks = Blank.marks]

ToggleService(m) ==
    /\ Editable /\ page.step = "service"
    /\ LET D == DOMAIN page.picked IN
       Render(Rechosen(IF m \in D THEN [x \in D \ {m} |-> page.picked[x]]
                       ELSE IF Cardinality(D) >= MaxServices THEN page.picked
                       ELSE [x \in D \cup {m} |-> IF x = m THEN {} ELSE page.picked[x]]))
    /\ UNCHANGED slots /\ Elsewhere

ToggleOption(m, x) ==
    /\ Editable /\ page.step = "service" /\ m \in DOMAIN page.picked
    /\ Render(Rechosen([page.picked EXCEPT ![m] = (@ \ {x}) \cup ({x} \ @)]))
    /\ UNCHANGED slots /\ Elsewhere

\* the buttons that lead on and back; a request to book does not disable them
Goes(from, to) ==
    /\ page.step = from
    /\ Render([page EXCEPT !.step = to])
    /\ UNCHANGED slots /\ Elsewhere

ToDatetime == DOMAIN page.picked # {} /\ Goes("service", "datetime")

ToForm == page.slot # NoSlot /\ Goes("datetime", "form")

\* goToConfirm: a name, and an address or a number unless LINE knows the customer
ToConfirm ==
    /\ page.form.name /\ (profile \/ page.form.contact)
    /\ Goes("form", "confirm")

Back(from, to) == Goes(from, to)

PickStaff(w) ==
    /\ Editable /\ page.step = "datetime" /\ w \in Eligible(page.picked) \cup {None}
    /\ Render([page EXCEPT !.staff = w, !.slot = NoSlot])
    /\ UNCHANGED slots /\ Elsewhere

PickDay(d) ==
    /\ Editable /\ page.step = "datetime"
    /\ MonthOf(d) = page.month /\ d >= Today /\ page.marks[d] # "CLOSED"
    /\ Render([page EXCEPT !.date = d, !.slot = NoSlot])
    /\ UNCHANGED slots /\ Elsewhere

PickMonth(m) ==
    /\ page.step = "datetime" /\ m \in 0..MonthsAhead
    /\ m \in {page.month - 1, page.month + 1}
    /\ Render([page EXCEPT !.month = m])
    /\ UNCHANGED slots /\ Elsewhere

\* a free time; what the list was asked for is kept with it
PickTime(t) ==
    /\ Editable /\ page.step = "datetime" /\ ~loading /\ t \in slots.free
    /\ Render([page EXCEPT !.slot = [at |-> t, of |-> slots.of]])
    /\ UNCHANGED slots /\ Elsewhere

\* the page of details; on LINE the name is LINE's
TypeForm(f) ==
    /\ Editable /\ page.step = "form" /\ f # page.form
    /\ profile => f.name = page.form.name
    /\ Render([page EXCEPT !.form = f])
    /\ UNCHANGED slots /\ Elsewhere

\* liff.getProfile answers: the name is filled in if there is none yet
ProfileArrives ==
    /\ ~profile /\ profile' = TRUE
    /\ Render([page EXCEPT !.form.name = TRUE])
    /\ UNCHANGED <<slots, waiting, posts, sent, booked>>

(***************************************************************************)
(* What the page has asked for                                             *)
(***************************************************************************)

\* a bug to be caught: a late answer is taken for the present one
TakesAny(f) == TRUE

\* the sequence guard: only the last read's answer is taken
Takes(f) == f.seq = seq

\* the free times; a time chosen before that is gone is given up, on any page
SlotsAnswered(f, free) ==
    /\ fetches' = fetches \ {f}
    /\ IF Takes(f)
       THEN /\ slots' = [of |-> f.of, free |-> free] /\ loading' = FALSE
            /\ page' = IF page.slot # NoSlot /\ page.slot.at \notin free
                       THEN [page EXCEPT !.slot = NoSlot] ELSE page
            /\ key' = KeyAfter(page')
            /\ edits' = IF Content(page') = Content(page) THEN edits ELSE edits + 1
       ELSE UNCHANGED <<slots, loading, page, key, edits>>
    /\ UNCHANGED <<seq, summaries>> /\ Elsewhere

\* no answer: an empty list and an error
SlotsFailed(f) ==
    /\ fetches' = fetches \ {f}
    /\ IF Takes(f) THEN slots' = [of |-> f.of, free |-> {}] /\ loading' = FALSE
       ELSE UNCHANGED <<slots, loading>>
    /\ UNCHANGED <<page, seq, summaries, key, edits>> /\ Elsewhere

\* the marks of a month are laid over those there, whatever they were read for
SummaryAnswered(g, marks) ==
    LET p == MovedToOpenDay([page EXCEPT !.marks =
                 [d \in Days |-> IF MonthOf(d) = g.month THEN marks[d] ELSE @[d]]])
        moved == p.date # page.date
    IN
    /\ page' = p
    /\ key' = KeyAfter(p)
    /\ edits' = IF Content(p) = Content(page) THEN edits ELSE edits + 1
    /\ summaries' = summaries \ {g}
    /\ IF moved THEN /\ seq < MaxFetches
                     /\ seq' = seq + 1 /\ loading' = TRUE
                     /\ fetches' = fetches \cup {[seq |-> seq + 1, of |-> Query(p)]}
       ELSE UNCHANGED <<seq, loading, fetches>>
    /\ UNCHANGED slots /\ Elsewhere

SummaryFailed(g) ==
    /\ summaries' = summaries \ {g}
    /\ UNCHANGED <<page, slots, loading, seq, fetches, key, edits>> /\ Elsewhere

(***************************************************************************)
(* Booking                                                                 *)
(***************************************************************************)
Keys == {r.key : r \in sent} \cup {0}

NewKey == 1 + CHOOSE k \in Keys : \A j \in Keys : j <= k

\* submit: nothing without a time; one request at a time; the key made when there is none
Submit ==
    /\ page.step = "confirm" /\ page.slot # NoSlot /\ waiting = NoPost
    /\ Cardinality(sent) < MaxPosts
    /\ LET k == IF key = 0 THEN NewKey ELSE key
           r == [n |-> Cardinality(sent) + 1, key |-> k,
                 content |-> Content(page), edits |-> edits]
       IN /\ key' = k /\ waiting' = r
          /\ posts' = posts \cup {r} /\ sent' = sent \cup {r}
    /\ UNCHANGED <<page, slots, loading, seq, fetches, summaries, profile, booked, edits>>

\* the server's booking of a key, if it has made one
Replayed(r) == {b \in booked : b.key = r.key}

\* the server (external to the page) books or refuses, once per key
ServerHandles(r, takes) ==
    /\ r \in posts /\ posts' = posts \ {r}
    /\ booked' = IF takes /\ Replayed(r) = {} THEN booked \cup {r} ELSE booked
    /\ UNCHANGED <<page, slots, loading, seq, fetches, summaries, profile, key,
                   waiting, sent, edits>>

\* the answer is a booking: the last page
PostSucceeds ==
    /\ waiting # NoPost /\ waiting \notin posts /\ Replayed(waiting) # {}
    /\ page' = [page EXCEPT !.step = "done"]
    /\ UNCHANGED <<slots, loading, seq, fetches, summaries, profile, key,
                   waiting, posts, sent, booked, edits>>

\* an error, or no answer at all: the key is kept, the button works again
PostFails ==
    /\ waiting # NoPost /\ page.step # "done"
    /\ waiting' = NoPost
    /\ UNCHANGED <<page, slots, loading, seq, fetches, summaries, profile, key,
                   posts, sent, booked, edits>>

\* resetWizard: another booking, under another key; the marks stay as they were
ResetWizard ==
    /\ page.step = "done" /\ Editable
    /\ page' = [Blank EXCEPT !.marks = page.marks, !.form.name = profile]
    /\ slots' = [of |-> NoQuery, free |-> {}]
    /\ waiting' = NoPost /\ key' = 0 /\ edits' = edits + 1
    /\ UNCHANGED <<loading, seq, fetches, summaries, profile, posts, sent, booked>>

(***************************************************************************)
(* The pages, and what comes from outside                                  *)
(***************************************************************************)

\* the menus with their extras, and the bar that leads on
ServicePage ==
    \/ \E m \in Menus : ToggleService(m)
    \/ \E m \in Menus, x \in Extras : ToggleOption(m, x)
    \/ ToDatetime

\* the month: its days, the months before and after, and the way out of a full one
MonthCalendar ==
    \/ \E d \in Days : PickDay(d)
    \/ \E m \in 0..MonthsAhead : PickMonth(m)

\* the day's times: none while they are read, and those taken cannot be pressed
TimeList == \E t \in Times : PickTime(t)

DatetimePage ==
    \/ \E w \in Chairs \cup {None} : PickStaff(w)
    \/ MonthCalendar \/ TimeList
    \/ ToForm \/ Back("datetime", "service")

FormPage ==
    \/ \E f \in Forms : TypeForm(f)
    \/ ToConfirm \/ Back("form", "datetime")

\* blank, its buttons gone, when the time has been given up meanwhile
ConfirmPage == page.slot # NoSlot /\ (Submit \/ Back("confirm", "form"))

DonePage == ResetWizard

Answers ==
    \/ ProfileArrives
    \/ \E f \in fetches : SlotsFailed(f) \/ \E free \in SUBSET Times : SlotsAnswered(f, free)
    \/ \E g \in summaries : SummaryFailed(g)
    \/ \E g \in summaries, marks \in MarkSets : SummaryAnswered(g, marks)
    \/ PostSucceeds \/ PostFails

Server == \E r \in posts, takes \in BOOLEAN : ServerHandles(r, takes)

WizardNext ==
    \/ ServicePage \/ DatetimePage \/ FormPage \/ ConfirmPage \/ DonePage
    \/ Answers \/ Server

WizardSpec == WizardInit /\ [][WizardNext]_wvars

(***************************************************************************)
(* The times on the page, and the time chosen, are those of the services,  *)
(* the nomination and the day on the page, however late and out of order   *)
(* the answers come (booking-wizard.tsx: fetchSeqRef, and every change of  *)
(* the selection gives the time up).                                       *)
(***************************************************************************)
PageShowsSelection ==
    /\ page.step = "datetime" /\ ~loading => slots.of = Query(page)
    /\ page.slot # NoSlot => page.slot.of = Query(page)

(***************************************************************************)
(* A key stands for one version of what is booked: a request made again    *)
(* after an error carries the same key, so the server books it once; after *)
(* any change it carries another, so the server never answers with a       *)
(* booking of something else (booking-wizard.tsx: the effect that forgets  *)
(* the key, submit, resetWizard).                                          *)
(***************************************************************************)
KeyNamesOneIntent ==
    /\ \A q, r \in sent : q.key = r.key <=> q.edits = r.edits
    /\ \A r \in sent, b \in booked : b.key = r.key => b.content = r.content
=============================================================================
