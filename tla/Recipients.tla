----------------------------- MODULE Recipients -----------------------------
(***************************************************************************)
(* Who hears of a shop's bookings: e-mail addresses the shop enters, and   *)
(* LINE users who send the official account a code issued in the           *)
(* administration (notification-recipient-service.ts).  LINE posts the     *)
(* users' events to app/api/line/webhook/route.ts, several to a post; the  *)
(* events of one post are handled in turn, posts run beside each other,    *)
(* and an event that throws is logged and dropped: LINE always gets 200.   *)
(***************************************************************************)
EXTENDS Naturals, Sequences, FiniteSets

CONSTANTS
    Salons,         \* shops
    Mails,          \* e-mail addresses
    Users,          \* LINE users
    Codes,          \* the codes genCode can draw
    Posts,          \* posts of the webhook in hand at once
    MaxEvents       \* bound: the events LINE posts altogether

VARIABLES
    recipients,     \* <<shop, address>> -> "none", "active" or "off" (active = false)
    codes,          \* line_link_codes
    posts,          \* the events of a post still to handle
    found,          \* the code row a post's first event has read, or NoCode
    sent,           \* the events posted so far
    away            \* history: pairs removed or blocked with no fresh code read since

rvars == <<recipients, codes, posts, found, sent, away>>

NoCode == [shop |-> "none"]

Pairs == Salons \X (Mails \cup Users)

Event == [type : {"message"}, user : Users, code : Codes]
           \cup [type : {"unfollow"}, user : Users]

Codex == [shop : Salons, consumed : BOOLEAN, expired : BOOLEAN] \cup {NoCode}

RecipientsTypeOK ==
    /\ recipients \in [Pairs -> {"none", "active", "off"}]
    /\ codes \in [Codes -> Codex]
    /\ posts \in [Posts -> Seq(Event)]
    /\ found \in [Posts -> Codex]
    /\ sent \in Nat
    /\ away \subseteq Pairs

RecipientsInit ==
    /\ recipients = [a \in Pairs |-> "none"]
    /\ codes = [c \in Codes |-> NoCode]
    /\ posts = [p \in Posts |-> <<>>]
    /\ found = [p \in Posts |-> NoCode]
    /\ sent = 0
    /\ away = {}

\* getActiveRecipients: the addresses a booking's notice goes to
ActiveRecipients(s) == {a \in Mails \cup Users : recipients[<<s, a>>] = "active"}

(***************************************************************************)
(* The administration                                                      *)
(***************************************************************************)

\* addEmailRecipient: upsert, active at once
AddEmailRecipient(s, m) ==
    /\ recipients' = [recipients EXCEPT ![<<s, m>>] = "active"]
    /\ away' = away \ {<<s, m>>}
    /\ UNCHANGED <<codes, posts, found, sent>>

\* the messages already past their read of a code for this pair
InHand(a) ==
    \E p \in Posts : /\ found[p] # NoCode
                     /\ <<found[p].shop, Head(posts[p]).user>> = a

\* removeRecipient: the row goes, with no mark that it was ever there
RemoveRecipient(a) ==
    /\ recipients[a] # "none"
    /\ recipients' = [recipients EXCEPT ![a] = "none"]
    /\ away' = IF InHand(a) THEN away ELSE away \cup {a}
    /\ UNCHANGED <<codes, posts, found, sent>>

\* createLineLinkCode: a code no row has, good for thirty minutes
CreateLineLinkCode(s, c) ==
    /\ codes[c] = NoCode
    /\ codes' = [codes EXCEPT ![c] =
                    [shop |-> s, consumed |-> FALSE, expired |-> FALSE]]
    /\ UNCHANGED <<recipients, posts, found, sent, away>>

\* the thirty minutes of a code run out
CodeExpires(c) ==
    /\ codes[c] # NoCode /\ ~codes[c].expired
    /\ codes' = [codes EXCEPT ![c].expired = TRUE]
    /\ UNCHANGED <<recipients, posts, found, sent, away>>

(***************************************************************************)
(* The webhook                                                             *)
(***************************************************************************)

\* LINE posts what its users did: one event, or two together
Deliver(p, events) ==
    /\ posts[p] = <<>> /\ sent + Len(events) <= MaxEvents
    /\ posts' = [posts EXCEPT ![p] = events]
    /\ sent' = sent + Len(events)
    /\ UNCHANGED <<recipients, codes, found, away>>

\* a bug to be caught: the read forgets consumedAt
RedeemableAgain(c) == codes[c] # NoCode /\ ~codes[c].expired

\* consumeLineLinkCode's findFirst asks for a code unconsumed and unexpired
Redeemable(c) == codes[c] # NoCode /\ ~codes[c].consumed /\ ~codes[c].expired

Message(p) == posts[p] # <<>> /\ Head(posts[p]).type = "message"

\* the event is done with, whether or not it succeeded
NextEvent(p) ==
    /\ posts' = [posts EXCEPT ![p] = Tail(@)]
    /\ found' = [found EXCEPT ![p] = NoCode]

\* a message that is a code: the row is read outside any transaction
FindCode(p) ==
    /\ Message(p) /\ found[p] = NoCode
    /\ LET c == Head(posts[p]).code IN
       IF Redeemable(c)
       THEN /\ found' = [found EXCEPT ![p] = codes[c]]
            /\ away' = IF codes[c].consumed THEN away
                       ELSE away \ {<<codes[c].shop, Head(posts[p]).user>>}
            /\ UNCHANGED posts
       ELSE NextEvent(p) /\ UNCHANGED away
    /\ UNCHANGED <<recipients, codes, sent>>

\* the transaction: the recipient upserted active, consumedAt set whatever it was
ConsumeLineLinkCode(p) ==
    /\ found[p] # NoCode
    /\ recipients' = [recipients EXCEPT
                        ![<<found[p].shop, Head(posts[p]).user>>] = "active"]
    /\ codes' = [codes EXCEPT ![Head(posts[p]).code].consumed = TRUE]
    /\ NextEvent(p)
    /\ UNCHANGED <<sent, away>>

\* deactivateLineUser: every shop's row of the user
Deactivated(u) ==
    [a \in Pairs |-> IF a[2] = u /\ recipients[a] = "active" THEN "off" ELSE recipients[a]]

\* unfollow: the user has blocked the account
Unfollow(p) ==
    /\ posts[p] # <<>> /\ Head(posts[p]).type = "unfollow"
    /\ LET u == Head(posts[p]).user IN
       /\ recipients' = Deactivated(u)
       /\ away' = away \cup {a \in Salons \X {u} : ~InHand(a)}
    /\ NextEvent(p)
    /\ UNCHANGED <<codes, sent>>

\* handleEvent throws: nothing of a transaction stays, the next event goes on
EventFails(p) ==
    /\ posts[p] # <<>>
    /\ NextEvent(p)
    /\ UNCHANGED <<recipients, codes, sent, away>>

RecipientsNext ==
    \/ \E s \in Salons, m \in Mails : AddEmailRecipient(s, m)
    \/ \E a \in Pairs : RemoveRecipient(a)
    \/ \E s \in Salons, c \in Codes : CreateLineLinkCode(s, c)
    \/ \E c \in Codes : CodeExpires(c)
    \/ \E p \in Posts, e \in Event : Deliver(p, <<e>>)
    \/ \E p \in Posts, e, f \in Event : Deliver(p, <<e, f>>)
    \/ \E p \in Posts : \/ FindCode(p) \/ ConsumeLineLinkCode(p)
                        \/ Unfollow(p) \/ EventFails(p)

RecipientsSpec == RecipientsInit /\ [][RecipientsNext]_rvars

(***************************************************************************)
(* Who was taken off a shop's list, by the shop or by blocking the         *)
(* account, hears of its bookings again only through a code read while     *)
(* still unused: an old code in the chat never brings the address back.    *)
(* (notification-recipient-service.ts: removeRecipient keeps no mark, and  *)
(* consumeLineLinkCode upserts active = true whatever was there before.)   *)
(***************************************************************************)
BackOnlyByFreshCode ==
    \A s \in Salons : \A a \in ActiveRecipients(s) : <<s, a>> \notin away
=============================================================================
