----------------------------- MODULE SalonProofs -----------------------------
(***************************************************************************)
(* The administration of a salon, for any people, requests, links, codes   *)
(* and posts, and for every limit: a sign-up link makes one tenant however *)
(* often it is opened, an ended session never comes back, the lock comes   *)
(* with the wrong password that makes the number full, nobody who was      *)
(* taken off a shop's list comes back by an old code, and the pictures of  *)
(* the homepage are on the disk as long as it shows them and no longer.    *)
(***************************************************************************)
EXTENDS Recipients, Accounts, Homepage, SequenceTheorems, FiniteSetTheorems, TLAPS

-----------------------------------------------------------------------------
(* Recipients                                                              *)

Address(p) == <<found[p].shop, Head(posts[p]).user>>

(* A post that holds a code it has read is at the message that sent it,    *)
(* and its pair was not taken off the list since.                          *)
ReadIsFresh ==
  \A p \in Posts : found[p] # NoCode =>
    /\ Message(p)
    /\ Address(p) \in Pairs \ away

ListInv ==
  /\ RecipientsTypeOK
  /\ ReadIsFresh
  /\ \A a \in Pairs : recipients[a] = "active" => a \notin away

(* The event at the head of a post, and what is left after it.             *)
LEMMA HeadIsEvent ==
  ASSUME RecipientsTypeOK, NEW p \in Posts, posts[p] # <<>>
  PROVE  /\ Head(posts[p]) \in Event
         /\ Tail(posts[p]) \in Seq(Event)
<1>1. posts[p] \in Seq(Event)
  BY DEF RecipientsTypeOK
<1> QED
  BY <1>1, HeadTailProperties

LEMMA MessageOfUser ==
  ASSUME RecipientsTypeOK, NEW p \in Posts, Message(p)
  PROVE  /\ Head(posts[p]).user \in Users
         /\ Head(posts[p]).code \in Codes
<1>1. Head(posts[p]) \in Event /\ Head(posts[p]).type = "message"
  BY HeadIsEvent DEF Message
<1> QED
  BY <1>1 DEF Event

(* Being done with an event keeps the types, and what the other posts have *)
(* read.                                                                   *)
LEMMA NextEventKeeps ==
  ASSUME RecipientsTypeOK, NEW p \in Posts, posts[p] # <<>>, NextEvent(p)
  PROVE  /\ posts' \in [Posts -> Seq(Event)]
         /\ found' \in [Posts -> Codex]
         /\ found'[p] = NoCode
         /\ \A q \in Posts \ {p} : found'[q] = found[q] /\ posts'[q] = posts[q]
<1>1. Tail(posts[p]) \in Seq(Event)
  BY HeadIsEvent
<1> QED
  BY <1>1 DEF NextEvent, RecipientsTypeOK, Codex

LEMMA OthersStillFresh ==
  ASSUME ListInv, NEW p \in Posts, posts[p] # <<>>, NextEvent(p),
         \A q \in Posts \ {p} : found[q] # NoCode => Address(q) \notin away'
  PROVE  ReadIsFresh'
<1>1. /\ found'[p] = NoCode
      /\ \A q \in Posts \ {p} : found'[q] = found[q] /\ posts'[q] = posts[q]
  BY NextEventKeeps DEF ListInv
<1> SUFFICES ASSUME NEW q \in Posts, found'[q] # NoCode
             PROVE  Message(q)' /\ (Address(q) \in Pairs \ away)'
  BY DEF ReadIsFresh
<1>2. q # p /\ found[q] # NoCode /\ found'[q] = found[q] /\ posts'[q] = posts[q]
  BY <1>1
<1>3. Message(q) /\ Address(q) \in Pairs /\ Address(q) \notin away'
  BY <1>2 DEF ListInv, ReadIsFresh
<1> QED
  BY <1>2, <1>3 DEF Message, Address

LEMMA ListInit == RecipientsInit => ListInv
<1> SUFFICES ASSUME RecipientsInit PROVE ListInv
  OBVIOUS
<1>1. <<>> \in Seq(Event)
  BY EmptySeq
<1> QED
  BY <1>1 DEF RecipientsInit, ListInv, RecipientsTypeOK, ReadIsFresh, Codex

LEMMA ListStep == ListInv /\ [RecipientsNext]_rvars => ListInv'
<1> SUFFICES ASSUME ListInv, [RecipientsNext]_rvars PROVE ListInv'
  OBVIOUS
<1> USE DEF ListInv
<1>1. ASSUME NEW s \in Salons, NEW m \in Mails, AddEmailRecipient(s, m)
      PROVE  ListInv'
  <2>1. <<s, m>> \in Pairs
    BY DEF Pairs
  <2>2. RecipientsTypeOK'
    BY <1>1, <2>1 DEF AddEmailRecipient, RecipientsTypeOK
  <2>3. ReadIsFresh'
    BY <1>1 DEF AddEmailRecipient, ReadIsFresh, Message, Address
  <2> QED
    BY <1>1, <2>1, <2>2, <2>3 DEF AddEmailRecipient, RecipientsTypeOK
<1>2. ASSUME NEW a \in Pairs, RemoveRecipient(a) PROVE ListInv'
  <2>1. RecipientsTypeOK'
    BY <1>2 DEF RemoveRecipient, RecipientsTypeOK
  <2>2. \A p \in Posts : found[p] # NoCode => Address(p) \notin away'
    BY <1>2 DEF RemoveRecipient, ReadIsFresh, InHand, Address
  <2>3. ReadIsFresh'
    BY <1>2, <2>2 DEF RemoveRecipient, ReadIsFresh, Message, Address
  <2> QED
    BY <1>2, <2>1, <2>3 DEF RemoveRecipient, RecipientsTypeOK
<1>3. ASSUME NEW s \in Salons, NEW c \in Codes, CreateLineLinkCode(s, c)
      PROVE  ListInv'
  BY <1>3 DEF CreateLineLinkCode, RecipientsTypeOK, Codex, ReadIsFresh, Message, Address
<1>4. ASSUME NEW c \in Codes, CodeExpires(c) PROVE ListInv'
  <2>1. codes[c] \in [shop : Salons, consumed : BOOLEAN, expired : BOOLEAN]
    BY <1>4 DEF CodeExpires, RecipientsTypeOK, Codex
  <2>2. [codes[c] EXCEPT !.expired = TRUE] \in Codex
    BY <2>1 DEF Codex
  <2>3. codes' \in [Codes -> Codex]
    BY <1>4, <2>2 DEF CodeExpires, RecipientsTypeOK
  <2> QED
    BY <1>4, <2>3 DEF CodeExpires, RecipientsTypeOK, ReadIsFresh, Message, Address
<1>5. ASSUME NEW p \in Posts, NEW events \in Seq(Event), Deliver(p, events)
      PROVE  ListInv'
  <2>1. Len(events) \in Nat
    BY LenProperties
  <2>2. RecipientsTypeOK'
    BY <1>5, <2>1 DEF Deliver, RecipientsTypeOK
  <2>3. \A q \in Posts : found[q] # NoCode => posts'[q] = posts[q]
    BY <1>5 DEF Deliver, RecipientsTypeOK, ReadIsFresh, Message
  <2>4. ReadIsFresh'
    BY <1>5, <2>3 DEF Deliver, ReadIsFresh, Message, Address
  <2> QED
    BY <1>5, <2>2, <2>4 DEF Deliver
<1>6. ASSUME NEW p \in Posts, FindCode(p) PROVE ListInv'
  <2> DEFINE c == Head(posts[p]).code
             a == <<codes[c].shop, Head(posts[p]).user>>
  <2>1. posts[p] # <<>> /\ c \in Codes /\ Head(posts[p]).user \in Users
    BY <1>6, MessageOfUser DEF FindCode, Message
  <2>2. CASE Redeemable(c)
    <3>1. codes[c] \in Codex /\ codes[c] # NoCode
      BY <2>1, <2>2 DEF Redeemable, RecipientsTypeOK
    <3>2. a \in Pairs /\ ~codes[c].consumed
      BY <2>1, <2>2, <3>1 DEF Codex, Pairs, Redeemable
    <3>3. /\ found' = [found EXCEPT ![p] = codes[c]]
          /\ away' = away \ {a}
          /\ UNCHANGED <<posts, recipients, codes, sent>>
      BY <1>6, <2>2, <3>2 DEF FindCode
    <3> HIDE DEF c, a
    <3>4. RecipientsTypeOK'
      BY <3>1, <3>3 DEF RecipientsTypeOK
    <3>5. ASSUME NEW q \in Posts, found'[q] # NoCode
          PROVE  Message(q)' /\ (Address(q) \in Pairs \ away)'
      <4>1. CASE q = p
        <5>1. Message(p)
          BY <1>6 DEF FindCode
        <5>2. found'[p] = codes[c]
          BY <3>3 DEF RecipientsTypeOK
        <5>3. Address(p)' = a
          BY <3>3, <5>2 DEF Address, a
        <5> QED
          BY <3>2, <3>3, <4>1, <5>1, <5>3 DEF Message
      <4>2. CASE q # p
        BY <3>3, <3>5, <4>2 DEF ReadIsFresh, Message, Address, RecipientsTypeOK
      <4> QED
        BY <4>1, <4>2
    <3>6. ReadIsFresh'
      BY <3>5 DEF ReadIsFresh
    <3> QED
      BY <3>3, <3>4, <3>6
  <2>3. CASE ~Redeemable(c)
    <3>1. NextEvent(p) /\ UNCHANGED <<away, recipients, codes, sent>>
      BY <1>6, <2>3 DEF FindCode
    <3>2. RecipientsTypeOK'
      BY <2>1, <3>1, NextEventKeeps DEF RecipientsTypeOK
    <3>3. ReadIsFresh'
      BY <2>1, <3>1, OthersStillFresh DEF ReadIsFresh
    <3> QED
      BY <3>1, <3>2, <3>3
  <2> QED
    BY <2>2, <2>3
<1>7. ASSUME NEW p \in Posts, ConsumeLineLinkCode(p) PROVE ListInv'
  <2> DEFINE c == Head(posts[p]).code
             a == Address(p)
  <2>1. /\ Message(p) /\ posts[p] # <<>>
        /\ a \in Pairs \ away
    BY <1>7 DEF ConsumeLineLinkCode, ReadIsFresh, Message
  <2>2. /\ recipients' = [recipients EXCEPT ![a] = "active"]
        /\ codes' = [codes EXCEPT ![c].consumed = TRUE]
        /\ NextEvent(p) /\ UNCHANGED <<sent, away>>
    BY <1>7 DEF ConsumeLineLinkCode, Address
  <2> HIDE DEF a
  <2>3. codes' \in [Codes -> Codex]
    <3>1. c \in Codes
      BY <2>1, MessageOfUser
    <3> HIDE DEF c
    <3>2. codes[c] \in Codex
      BY <3>1 DEF RecipientsTypeOK
    <3>3. [codes[c] EXCEPT !.consumed = TRUE] \in Codex
      BY <3>2 DEF Codex, NoCode
    <3> QED
      BY <2>2, <3>1, <3>3 DEF RecipientsTypeOK
  <2>4. RecipientsTypeOK'
    BY <2>1, <2>2, <2>3, NextEventKeeps DEF RecipientsTypeOK
  <2>5. ReadIsFresh'
    BY <2>1, <2>2, OthersStillFresh DEF ReadIsFresh
  <2> QED
    BY <2>1, <2>2, <2>4, <2>5 DEF RecipientsTypeOK
<1>8. ASSUME NEW p \in Posts, Unfollow(p) PROVE ListInv'
  <2> DEFINE u == Head(posts[p]).user
  <2>1. posts[p] # <<>> /\ NextEvent(p) /\ UNCHANGED <<codes, sent>>
        /\ recipients' = Deactivated(u)
        /\ away' = away \cup {a \in Salons \X {u} : ~InHand(a)}
    BY <1>8 DEF Unfollow
  <2>2. u \in Users
    <3>1. Head(posts[p]) \in Event /\ Head(posts[p]).type = "unfollow"
      BY <1>8, HeadIsEvent DEF Unfollow
    <3> QED
      BY <3>1 DEF Event
  <2> HIDE DEF u
  <2>3. Salons \X {u} \subseteq Pairs
    BY <2>2 DEF Pairs
  <2>4. RecipientsTypeOK'
    <3>1. recipients' \in [Pairs -> {"none", "active", "off"}]
      BY <2>1 DEF Deactivated, RecipientsTypeOK
    <3> QED
      BY <2>1, <2>3, <3>1, NextEventKeeps DEF RecipientsTypeOK
  <2>5. ReadIsFresh'
    <3>1. \A q \in Posts : found[q] # NoCode => Address(q) \notin away'
      BY <2>1 DEF ReadIsFresh, InHand, Address
    <3> QED
      BY <2>1, <3>1, OthersStillFresh
  <2>6. \A a \in Pairs : recipients'[a] = "active" => a \notin away'
    <3> SUFFICES ASSUME NEW a \in Pairs, recipients'[a] = "active" PROVE a \notin away'
      OBVIOUS
    <3>1. recipients[a] = "active" /\ a[2] # u
      BY <2>1 DEF Deactivated
    <3> QED
      BY <2>1, <3>1
  <2> QED
    BY <2>4, <2>5, <2>6
<1>9. ASSUME NEW p \in Posts, EventFails(p) PROVE ListInv'
  <2>1. posts[p] # <<>> /\ NextEvent(p) /\ UNCHANGED <<recipients, codes, sent, away>>
    BY <1>9 DEF EventFails
  <2>2. RecipientsTypeOK'
    BY <2>1, NextEventKeeps DEF RecipientsTypeOK
  <2>3. ReadIsFresh'
    BY <2>1, OthersStillFresh DEF ReadIsFresh
  <2> QED
    BY <2>1, <2>2, <2>3
<1>10. CASE UNCHANGED rvars
  BY <1>10 DEF rvars, RecipientsTypeOK, ReadIsFresh, Message, Address
<1>11. \A e, f \in Event : <<e>> \in Seq(Event) /\ <<e, f>> \in Seq(Event)
  OBVIOUS
<1> QED
  BY <1>1, <1>2, <1>3, <1>4, <1>5, <1>6, <1>7, <1>8, <1>9, <1>10, <1>11 DEF RecipientsNext

(* Types hold, and who was taken off the list hears of the shop's bookings *)
(* again only through a code read while still unused.                      *)
THEOREM OffStaysOff ==
  RecipientsSpec => [](RecipientsTypeOK /\ BackOnlyByFreshCode)
<1>1. ListInv => RecipientsTypeOK /\ BackOnlyByFreshCode
  BY DEF ListInv, BackOnlyByFreshCode, ActiveRecipients, Pairs
<1> QED
  BY <1>1, ListInit, ListStep, PTL DEF RecipientsSpec

-----------------------------------------------------------------------------
(* Accounts: what the tables and the requests hold                         *)

UserRow == [status : {"none", "ACTIVE", "SUSPENDED"}, epoch : Nat,
            pwd : {"none", "random", "chosen", "issued"}, failed : Nat, locked : BOOLEAN,
            otp : {"none", "new", "old", "void"}, tries : Nat, owner : BOOLEAN]
SignupRow == [email : Emails \cup {Nobody}, state : {"none", "unsent", "sent", "expired"},
              consumed : BOOLEAN, tenant : BOOLEAN]
TokenRow == [user : Emails \cup {Nobody}, state : {"none", "open", "expired", "used"}]

\* the steps of a sign-up with the claim of its link, of a login, of a reset
Founding == {"create", "password", "link", "undo"}
Entering == {"wrong", "code", "usecode", "wrongcode", "success", "session"}
Seen == UserRow \cup (SUBSET Links) \cup {Nobody}
TaskRow == [pc : {"idle", "mail", "claim", "newtoken", "reset"} \cup Founding \cup Entering,
            about : Emails \cup {Nobody}, link : Links \cup {0},
            seen : Seen]

AccountsType ==
  /\ user \in [Emails -> UserRow] /\ signup \in [Links -> SignupRow]
  /\ token \in [Links -> TokenRow] /\ task \in [Workers -> TaskRow]
  /\ session \subseteq [user : Emails, epoch : Nat] /\ ended \subseteq session
  /\ mishap \in Nat
  /\ \A l \in Links : /\ signup[l].state # "none" => signup[l].email \in Emails
                      /\ token[l].state \in {"open", "expired"} => token[l].user \in Emails
  /\ \A w \in Workers :
       /\ ~ At(w, "idle") => Person(w) \in Emails
       /\ task[w].pc \in {"mail", "claim", "reset"} \cup Founding => task[w].link \in Links
       /\ task[w].pc \in Entering => There(Person(w))
       /\ task[w].pc \in {"wrong", "code"} => task[w].seen \in UserRow
       /\ At(w, "newtoken") => task[w].seen \in SUBSET Links

-----------------------------------------------------------------------------
(* A write of one user.                                                    *)
SameStanding(x, r) ==
  x \in UserRow /\ x.status = r.status /\ x.epoch = r.epoch /\ x.pwd = r.pwd
SameCount(x, r) == x.failed = r.failed /\ x.locked = r.locked

LEMMA PasswordRow ==
  ASSUME NEW r \in UserRow, NEW p \in {"chosen", "issued"}, NEW x,
         x \in {[r EXCEPT !.pwd = p], [r EXCEPT !.status = "ACTIVE", !.pwd = p]}
  PROVE  /\ x \in UserRow /\ x.status \in {r.status, "ACTIVE"} /\ x.epoch = r.epoch
         /\ x.pwd = p /\ SameCount(x, r)
  BY DEF UserRow, SameCount

LEMMA ShutRow ==
  ASSUME NEW r \in UserRow, NEW p \in {"chosen", "issued"}, NEW x,
         x \in {[Shut(r) EXCEPT !.pwd = p], [Shut(r) EXCEPT !.status = "SUSPENDED"]}
  PROVE  /\ x \in UserRow /\ x.status \in {r.status, "SUSPENDED"} /\ x.epoch = r.epoch + 1
         /\ x.pwd \in {r.pwd, p} /\ SameCount(x, r)
<1>1. /\ Shut(r) \in UserRow /\ Shut(r).status = r.status /\ Shut(r).epoch = r.epoch + 1
      /\ Shut(r).pwd = r.pwd /\ SameCount(Shut(r), r)
  BY DEF UserRow, SameCount, Shut
<1> QED
  BY <1>1 DEF UserRow, SameCount

LEMMA ActiveRow ==
  ASSUME NEW r \in UserRow
  PROVE  LET x == [r EXCEPT !.status = "ACTIVE"] IN
         /\ x \in UserRow /\ x.status = "ACTIVE" /\ x.epoch = r.epoch
         /\ x.pwd = r.pwd /\ SameCount(x, r)
  BY DEF UserRow, SameCount

LEMMA CountRow ==
  ASSUME NEW r \in UserRow, NEW n \in Nat, NEW b \in BOOLEAN, NEW x,
         x \in {[r EXCEPT !.failed = n, !.locked = b],
                [r EXCEPT !.failed = n, !.locked = b, !.otp = "none", !.tries = 0]}
  PROVE  SameStanding(x, r) /\ x.failed = n /\ x.locked = b
<1>1. CASE x = [r EXCEPT !.failed = n, !.locked = b]
  BY <1>1 DEF UserRow, SameStanding
<1>2. CASE x = [r EXCEPT !.failed = n, !.locked = b, !.otp = "none", !.tries = 0]
  BY <1>2 DEF UserRow, SameStanding
<1> QED
  BY <1>1, <1>2

LEMMA CodeRow ==
  ASSUME NEW r \in UserRow, NEW o \in {"none", "new", "old", "void"}, NEW n \in Nat, NEW x,
         x \in {[r EXCEPT !.otp = o, !.tries = n], [r EXCEPT !.otp = o], [r EXCEPT !.tries = n]}
  PROVE  SameStanding(x, r) /\ SameCount(x, r)
  BY DEF UserRow, SameStanding, SameCount

(* What a user keeps: an account is never taken away, its epoch only       *)
(* grows, and a password once chosen is never a throw-away one again.      *)
Lasts(e) ==
  There(e) => /\ There(e)' /\ user[e].epoch <= user'[e].epoch
              /\ user[e].pwd # "random" => user'[e].pwd # "random"

(* Who counts the failures of e, or starts the count anew.                 *)
Counting(e) ==
  \/ \E w \in Workers : Person(w) = e /\ (WrongPassword(w) \/ LoginSuccess(w))
  \/ LockEnds(e)

(* A new user, with nothing counted.                                       *)
Enters(e) == ~ There(e) /\ SameCount(user'[e], NoUser)

Keeps(e, r) ==
  /\ e \in Emails /\ r \in UserRow /\ user' = [user EXCEPT ![e] = r]
  /\ There(e) => r.status # "none"
  /\ user[e].epoch <= r.epoch
  /\ user[e].pwd # "random" => r.pwd # "random"
  /\ SameCount(r, user[e]) \/ Counting(e)

LEMMA UsersLast ==
  ASSUME AccountsType, [AccountsNext]_avars
  PROVE  /\ user' \in [Emails -> UserRow]
         /\ \A e \in Emails : Lasts(e)
         /\ \A e \in Emails : SameCount(user'[e], user[e]) \/ Counting(e) \/ Enters(e)
<1>0. /\ user \in [Emails -> UserRow]
      /\ \A e \in Emails : user[e] \in UserRow /\ user[e].epoch \in Nat
                           /\ user[e].epoch + 1 \in Nat /\ user[e].tries + 1 \in Nat
      /\ \A w \in Workers : ~ At(w, "idle") => Person(w) \in Emails
      /\ \A w \in Workers : ~ At(w, "idle") => user[Person(w)] \in UserRow
  BY DEF AccountsType, UserRow
<1>a. ASSUME UNCHANGED user
      PROVE  /\ user' \in [Emails -> UserRow] /\ \A e \in Emails : Lasts(e)
             /\ \A e \in Emails : SameCount(user'[e], user[e])
  BY <1>0, <1>a DEF Lasts, There, SameCount
<1>b. ASSUME NEW e, NEW r, Keeps(e, r)
      PROVE  /\ user' \in [Emails -> UserRow] /\ \A p \in Emails : Lasts(p)
             /\ \A p \in Emails : SameCount(user'[p], user[p]) \/ Counting(p)
  <2>1. user' \in [Emails -> UserRow] /\ user'[e] = r /\ \A p \in Emails \ {e} : user'[p] = user[p]
    BY <1>0, <1>b DEF Keeps
  <2>2. Lasts(e) /\ (SameCount(user'[e], user[e]) \/ Counting(e))
    <3>0. /\ There(e) => r.status # "none"
          /\ user[e].epoch <= r.epoch
          /\ user[e].pwd # "random" => r.pwd # "random"
      BY <1>b, Zenon DEF Keeps
    <3>1. Lasts(e)
      BY <2>1, <3>0 DEF Lasts, There
    <3>2. SameCount(user'[e], user[e]) \/ Counting(e)
      BY <1>b, <2>1, Zenon DEF Keeps
    <3> QED
      BY <3>1, <3>2
  <2>3. \A p \in Emails \ {e} : Lasts(p) /\ SameCount(user'[p], user[p])
    BY <1>0, <2>1 DEF Lasts, There, SameCount
  <2> QED
    BY <2>1, <2>2, <2>3
<1>c. ASSUME NEW e, NEW r, e \in Emails, r \in UserRow, SameCount(r, NoUser),
             user' = [user EXCEPT ![e] = r], ~ There(e)
      PROVE  /\ user' \in [Emails -> UserRow] /\ \A p \in Emails : Lasts(p)
             /\ \A p \in Emails : SameCount(user'[p], user[p]) \/ Enters(p)
  BY <1>0, <1>c DEF Lasts, There, SameCount, Enters
<1>1. CASE \E w \in Workers : CreateTenant(w)
  <2>1. PICK w \in Workers : CreateTenant(w)
    BY <1>1
  <2>2. LET r == [NoUser EXCEPT !.status = "ACTIVE", !.pwd = "random", !.owner = TRUE] IN
        r \in UserRow /\ SameCount(r, NoUser)
    BY DEF NoUser, UserRow, SameCount
  <2> QED
    BY <1>0, <1>a, <1>c, <2>1, <2>2 DEF CreateTenant, At
<1>2. CASE \E w \in Workers : SignupPassword(w)
  <2>1. PICK w \in Workers : SignupPassword(w)
    BY <1>2
  <2> DEFINE e == Person(w)  r == [user[e] EXCEPT !.pwd = "chosen"]
  <2>2. e \in Emails /\ user' = [user EXCEPT ![e] = r] /\ user[e] \in UserRow
    BY <1>0, <2>1 DEF SignupPassword, At
  <2> HIDE DEF e
  <2>3. /\ r \in UserRow /\ r.status \in {user[e].status, "ACTIVE"}
        /\ r.epoch = user[e].epoch /\ r.pwd = "chosen" /\ SameCount(r, user[e])
    BY <2>2, PasswordRow
  <2> HIDE DEF r
  <2>4. Keeps(e, r)
    BY <1>0, <2>2, <2>3 DEF Keeps, There
  <2> QED
    BY <1>b, <2>4
<1>3. CASE \E w \in Workers : WrongPassword(w)
  <2>1. PICK w \in Workers : WrongPassword(w)
    BY <1>3
  <2> DEFINE e == Person(w)  next == task[w].seen.failed + 1
             n == IF Locks(next) THEN 0 ELSE next
             b == user[e].locked \/ Locks(next)
             r == [user[e] EXCEPT !.failed = n, !.locked = b]
  <2>2. e \in Emails /\ user' = [user EXCEPT ![e] = r] /\ user[e] \in UserRow
    BY <1>0, <2>1 DEF WrongPassword, At
  <2>3. n \in Nat /\ b \in BOOLEAN
    BY <2>1, <2>2 DEF WrongPassword, AccountsType, UserRow, At, Locks
  <2> HIDE DEF e, n, b
  <2>4. SameStanding(r, user[e])
    BY <2>2, <2>3, CountRow
  <2> HIDE DEF r
  <2>5. Counting(e)
    BY <2>1 DEF Counting, e
  <2>6. Keeps(e, r)
    BY <1>0, <2>2, <2>4, <2>5 DEF Keeps, There, SameStanding
  <2> QED
    BY <1>b, <2>6
<1>4. CASE \E w \in Workers : LoginSuccess(w)
  <2>1. PICK w \in Workers : LoginSuccess(w)
    BY <1>4
  <2> DEFINE e == Person(w)
             r == [user[e] EXCEPT !.failed = 0, !.locked = FALSE, !.otp = "none", !.tries = 0]
  <2>2. e \in Emails /\ user' = [user EXCEPT ![e] = r] /\ user[e] \in UserRow
    BY <1>0, <2>1 DEF LoginSuccess, At
  <2>3. Counting(e)
    BY <2>1 DEF Counting
  <2> HIDE DEF e
  <2>4. SameStanding(r, user[e])
    BY <2>2, CountRow
  <2> HIDE DEF r
  <2>5. Keeps(e, r)
    BY <1>0, <2>2, <2>3, <2>4 DEF Keeps, There, SameStanding
  <2> QED
    BY <1>b, <2>5
<1>5. CASE \E w \in Workers : IssueCode(w) \/ WrongCode(w) \/ UseCode(w)
  <2>1. PICK w \in Workers : IssueCode(w) \/ WrongCode(w) \/ UseCode(w)
    BY <1>5
  <2> DEFINE e == Person(w)
  <2>2. e \in Emails /\ user[e] \in UserRow /\ user[e].tries + 1 \in Nat
    BY <1>0, <2>1 DEF IssueCode, WrongCode, UseCode, At
  <2>3. \/ UNCHANGED user
        \/ user' = [user EXCEPT ![e] = [user[e] EXCEPT !.otp = "new", !.tries = 0]]
        \/ user' = [user EXCEPT ![e] = [user[e] EXCEPT !.otp = "none", !.tries = 0]]
        \/ user' = [user EXCEPT ![e] = [user[e] EXCEPT !.tries = user[e].tries + 1]]
    BY <1>0, <2>1, <2>2 DEF IssueCode, WrongCode, UseCode, UserRow
  <2> HIDE DEF e
  <2>4. UNCHANGED user \/ \E r : Keeps(e, r)
    <3>1. ASSUME NEW r, SameStanding(r, user[e]) /\ SameCount(r, user[e]),
                 user' = [user EXCEPT ![e] = r]
          PROVE  Keeps(e, r)
      BY <1>0, <2>2, <3>1 DEF Keeps, SameStanding, There
    <3> QED
      BY <2>2, <2>3, <3>1, CodeRow
  <2> QED
    BY <1>a, <1>b, <2>4
<1>6. CASE \E e \in Emails : CodeAges(e)
  <2>1. PICK e \in Emails : CodeAges(e)
    BY <1>6
  <2>2. PICK o \in {"old", "void"} : user' = [user EXCEPT ![e] = [user[e] EXCEPT !.otp = o]]
    BY <1>0, <2>1 DEF CodeAges, UserRow
  <2> DEFINE r == [user[e] EXCEPT !.otp = o]
  <2>3. SameStanding(r, user[e]) /\ SameCount(r, user[e])
    BY <1>0, CodeRow
  <2> HIDE DEF r
  <2>4. Keeps(e, r)
    BY <1>0, <2>2, <2>3 DEF Keeps, There, SameStanding, r
  <2> QED
    BY <1>b, <2>4
<1>7. CASE \E e \in Emails : LockEnds(e)
  <2>1. PICK e \in Emails : LockEnds(e)
    BY <1>7
  <2> DEFINE r == [user[e] EXCEPT !.locked = FALSE]
  <2>2. SameStanding(r, user[e])
    BY <1>0 DEF SameStanding, UserRow
  <2>3. user' = [user EXCEPT ![e] = r] /\ Counting(e)
    BY <2>1 DEF LockEnds, Counting
  <2> HIDE DEF r
  <2>4. Keeps(e, r)
    BY <1>0, <2>2, <2>3 DEF Keeps, There, SameStanding
  <2> QED
    BY <1>b, <2>4
<1>8. CASE \E e \in Emails : Activate(e) \/ SetStaffLogin(e)
  <2>1. PICK e \in Emails : Activate(e) \/ SetStaffLogin(e)
    BY <1>8
  <2>2. PICK r \in {[user[e] EXCEPT !.status = "ACTIVE"],
                     [user[e] EXCEPT !.status = "ACTIVE", !.pwd = "chosen"]} :
          user' = [user EXCEPT ![e] = r]
    BY <2>1 DEF Activate, SetStaffLogin
  <2>3. /\ r \in UserRow /\ r.status \in {user[e].status, "ACTIVE"}
        /\ r.epoch = user[e].epoch
        /\ r.pwd \in {user[e].pwd, "chosen"} /\ SameCount(r, user[e])
    <3>1. CASE r = [user[e] EXCEPT !.status = "ACTIVE"]
      BY <1>0, <3>1, ActiveRow
    <3>2. CASE r = [user[e] EXCEPT !.status = "ACTIVE", !.pwd = "chosen"]
      BY <1>0, <3>2, PasswordRow
    <3> QED
      BY <2>2, <3>1, <3>2
  <2>4. Keeps(e, r)
    BY <1>0, <2>2, <2>3 DEF Keeps, There
  <2> QED
    BY <1>b, <2>4
<1>9. CASE \E e \in Emails : Suspend(e) \/ AdminReset(e)
  <2>1. PICK e \in Emails : Suspend(e) \/ AdminReset(e)
    BY <1>9
  <2>2. PICK r \in {[Shut(user[e]) EXCEPT !.status = "SUSPENDED"],
                     [Shut(user[e]) EXCEPT !.pwd = "issued"]} :
          user' = [user EXCEPT ![e] = r]
    BY <1>0, <2>1 DEF Suspend, AdminReset, NewPassword
  <2>3. /\ r \in UserRow /\ r.status \in {user[e].status, "SUSPENDED"}
        /\ r.epoch = user[e].epoch + 1
        /\ r.pwd \in {user[e].pwd, "issued"} /\ SameCount(r, user[e])
    BY <1>0, <2>2, ShutRow
  <2>4. Keeps(e, r)
    BY <1>0, <2>2, <2>3 DEF Keeps, There
  <2> QED
    BY <1>b, <2>4
<1>10. CASE \E w \in Workers : ResetPassword(w)
  <2>1. PICK w \in Workers : ResetPassword(w)
    BY <1>10
  <2> DEFINE e == Person(w)  r == [Shut(user[e]) EXCEPT !.pwd = "chosen"]
  <2>2. e \in Emails /\ user' = [user EXCEPT ![e] = r] /\ user[e] \in UserRow
    BY <1>0, <2>1 DEF ResetPassword, NewPassword, At
  <2> HIDE DEF e
  <2>3. /\ r \in UserRow /\ r.status \in {user[e].status, "SUSPENDED"}
        /\ r.epoch = user[e].epoch + 1
        /\ r.pwd \in {user[e].pwd, "chosen"} /\ SameCount(r, user[e])
    BY <2>2, ShutRow
  <2> HIDE DEF r
  <2>4. Keeps(e, r)
    BY <1>0, <2>2, <2>3 DEF Keeps, There
  <2> QED
    BY <1>b, <2>4
<1>11. CASE UNCHANGED user
  BY <1>a, <1>11
<1> QED
  BY <1>1, <1>2, <1>3, <1>4, <1>5, <1>6, <1>7, <1>8, <1>9, <1>10, <1>11
     DEF AccountsNext, SignupStep, LoginStep, avars, UserUnchanged, Ask, RequestSignup, MailSignup,
         VerifySignup, ClaimLink, SignupLinked, SignupFails, SignupUndo, LinkExpires,
         SignIn, SignInPlain, OpenSession, RequestReset, NewToken, OpenReset, TaskDies

-----------------------------------------------------------------------------
(* Sign-up                                                                 *)

Known(l) == signup[l].state \in {"sent", "expired"} /\ signup[l].email \in Emails

(* What a step of a sign-up implies of the link it works on.               *)
LinksOK ==
  /\ \A l \in Links : signup[l].consumed => Known(l)
  /\ \A l \in Links : signup[l].tenant => signup[l].consumed
  /\ \A w \in Workers : task[w].pc \in {"mail", "claim"} \cup Founding =>
       /\ task[w].link \in Links /\ signup[task[w].link].email = Person(w)
       /\ At(w, "mail") => signup[task[w].link].state = "unsent"
       /\ ~ At(w, "mail") => Known(task[w].link)

(* A claimed link is in the hands of one opener, who has no tenant yet.    *)
ClaimsOK ==
  /\ \A w \in Workers : task[w].pc \in Founding =>
       signup[task[w].link].consumed /\ ~ signup[task[w].link].tenant
  /\ \A v, w \in Workers :
       task[v].pc \in Founding \cup {"mail"} /\ task[w].pc \in Founding \cup {"mail"} =>
         (task[v].link = task[w].link => v = w)

(* The owner an opener has made is nobody else's, and has a password of    *)
(* its own before the tenant is linked.                                    *)
Made(w) == task[w].pc \in {"password", "link"}
OwnersOK ==
  /\ \A w \in Workers : Made(w) => There(Person(w))
  /\ \A w \in Workers : At(w, "link") => user[Person(w)].pwd # "random"
  /\ \A v, w \in Workers : Made(v) /\ Made(w) /\ Person(v) = Person(w) => v = w
  /\ \A l \in Links : signup[l].tenant =>
       There(signup[l].email) /\ user[signup[l].email].pwd # "random"
  /\ \A l \in Links, w \in Workers : signup[l].tenant /\ Made(w) => Person(w) # signup[l].email
  /\ \A k, l \in Links :
       signup[k].tenant /\ signup[l].tenant /\ signup[k].email = signup[l].email => k = l

HeldOK ==
  \A l \in Links : mishap = 0 /\ signup[l].consumed /\ ~ signup[l].tenant =>
    \E w \in Workers : task[w].pc \in Founding /\ task[w].link = l

SignupOK == LinksOK /\ ClaimsOK /\ OwnersOK /\ HeldOK

(* A step that is none of a sign-up.                                       *)
LEMMA OthersKeepSignup ==
  ASSUME AccountsType, SignupOK, \A e \in Emails : Lasts(e), UNCHANGED signup,
         mishap' \in {mishap, mishap + 1},
         \A v \in Workers : \/ task'[v] = task[v]
                           \/ /\ task[v].pc \notin {"mail", "claim"} \cup Founding
                              /\ task'[v].pc \notin {"mail", "claim"} \cup Founding
  PROVE  SignupOK'
<1>1. LinksOK'
  BY DEF SignupOK, LinksOK, Known, At, Person
<1>2. ClaimsOK'
  BY DEF SignupOK, ClaimsOK, Founding
<1>3. \A e \in Emails : There(e) => There(e)' /\ (user[e].pwd # "random" => user'[e].pwd # "random")
  BY DEF Lasts
<1>4. OwnersOK'
  BY <1>3 DEF SignupOK, LinksOK, Known, OwnersOK, Made, Person, At, There, Founding
<1>5. mishap' = 0 => mishap = 0
  BY DEF AccountsType
<1>6. HeldOK'
  BY <1>5 DEF SignupOK, HeldOK
<1> QED
  BY <1>1, <1>2, <1>4, <1>6 DEF SignupOK

-----------------------------------------------------------------------------
LEMMA SeenRows ==
  /\ UserRow \subseteq Seen /\ SUBSET Links \subseteq Seen /\ Nobody \in Seen
  /\ IdleTask \in TaskRow
<1>1. UserRow \subseteq Seen /\ SUBSET Links \subseteq Seen /\ Nobody \in Seen
  BY DEF Seen
<1> QED
  BY <1>1 DEF IdleTask, TaskRow

(* One request goes on: what it is at afterwards.                          *)
Turns(w, x) ==
  /\ task' \in [Workers -> TaskRow] /\ task'[w] = x
  /\ \A v \in Workers \ {w} : task'[v] = task[v]

LEMMA TaskAfter ==
  ASSUME AccountsType, NEW w \in Workers
  PROVE  /\ \A pc, e, l, seen :
              /\ Does(w, pc, e, l, seen) /\ [pc |-> pc, about |-> e, link |-> l, seen |-> seen] \in TaskRow
              => Turns(w, [pc |-> pc, about |-> e, link |-> l, seen |-> seen])
         /\ \A pc : Goes(w, pc) /\ pc \in Founding \cup Entering =>
              Turns(w, [pc |-> pc, about |-> task[w].about, link |-> task[w].link,
                        seen |-> task[w].seen])
         /\ Done(w) => Turns(w, IdleTask)
<1>1. task \in [Workers -> TaskRow] /\ IdleTask \in TaskRow
  BY SeenRows DEF AccountsType
<1>2. ASSUME NEW pc, NEW e, NEW l, NEW seen, Does(w, pc, e, l, seen),
             [pc |-> pc, about |-> e, link |-> l, seen |-> seen] \in TaskRow
      PROVE  Turns(w, [pc |-> pc, about |-> e, link |-> l, seen |-> seen])
  BY <1>1, <1>2 DEF Does, Turns
<1>3. ASSUME NEW pc \in Founding \cup Entering, Goes(w, pc)
      PROVE  Turns(w, [pc |-> pc, about |-> task[w].about, link |-> task[w].link,
                       seen |-> task[w].seen])
  <2> DEFINE x == [pc |-> pc, about |-> task[w].about, link |-> task[w].link,
                   seen |-> task[w].seen]
  <2>1. x \in TaskRow /\ [task[w] EXCEPT !.pc = pc] = x
    BY <1>1 DEF TaskRow
  <2>2. task' = [task EXCEPT ![w] = x]
    BY <1>3, <2>1 DEF Goes
  <2> HIDE DEF x
  <2>3. Turns(w, x)
    BY <1>1, <2>1, <2>2 DEF Turns
  <2> QED
    BY <2>3 DEF x
<1>4. Done(w) => Turns(w, IdleTask)
  BY <1>1 DEF Done, Turns
<1> QED
  BY <1>2, <1>3, <1>4

(* The step of one request.                                                *)
TaskOK(x) ==
  /\ x.pc # "idle" => x.about \in Emails
  /\ x.pc \in {"mail", "claim", "reset"} \cup Founding => x.link \in Links
  /\ x.pc \in Entering => There(x.about)
  /\ x.pc \in {"wrong", "code"} => x.seen \in UserRow
  /\ x.pc = "newtoken" => x.seen \in SUBSET Links

LEMMA TasksTurn ==
  ASSUME AccountsType, [AccountsNext]_avars
  PROVE  \/ UNCHANGED task
         \/ \E w \in Workers, x \in TaskRow : Turns(w, x) /\ TaskOK(x)
<1>0. /\ task \in [Workers -> TaskRow] /\ user \in [Emails -> UserRow]
      /\ \A w \in Workers : TaskOK(task[w])
      /\ \A w \in Workers : ~ At(w, "idle") => Person(w) \in Emails
      /\ \A l \in Links : /\ signup[l].state # "none" => signup[l].email \in Emails
                          /\ token[l].state \in {"open", "expired"} => token[l].user \in Emails
  BY DEF AccountsType, TaskOK, At, Person
<1>1. CASE \E w \in Workers : task[w].pc # "idle" /\ Done(w)
  <2>1. PICK w \in Workers : Done(w)
    BY <1>1
  <2>2. Turns(w, IdleTask)
    BY <2>1, TaskAfter
  <2>3. IdleTask \in TaskRow
    BY SeenRows
  <2>4. TaskOK(IdleTask)
    BY DEF TaskOK, IdleTask, Founding, Entering
  <2> QED
    BY <2>2, <2>3, <2>4
<1>2. CASE \E w \in Workers, pc \in Founding :
             Goes(w, pc) /\ task[w].pc \in {"claim"} \cup Founding
  <2>1. PICK w \in Workers, pc \in Founding :
             Goes(w, pc) /\ task[w].pc \in {"claim"} \cup Founding
    BY <1>2
  <2> DEFINE x == [pc |-> pc, about |-> task[w].about, link |-> task[w].link,
                   seen |-> task[w].seen]
  <2>2. Turns(w, x)
    BY <2>1, TaskAfter
  <2>3. x \in TaskRow
    BY <1>0 DEF TaskRow
  <2>4. TaskOK(x)
    BY <1>0, <2>1 DEF TaskOK, Founding, Entering
  <2> QED
    BY <2>2, <2>3, <2>4
<1>3. CASE \E w \in Workers, pc \in {"success", "session"} :
             Goes(w, pc) /\ task[w].pc \in Entering
  <2>1. PICK w \in Workers, pc \in {"success", "session"} :
             Goes(w, pc) /\ task[w].pc \in Entering
    BY <1>3
  <2> DEFINE x == [pc |-> pc, about |-> task[w].about, link |-> task[w].link,
                   seen |-> task[w].seen]
  <2>2. Turns(w, x)
    BY <2>1, TaskAfter DEF Entering
  <2>3. x \in TaskRow
    BY <1>0 DEF TaskRow, Entering
  <2>4. TaskOK(x)
    BY <1>0, <2>1 DEF TaskOK, Founding, Entering
  <2> QED
    BY <2>2, <2>3, <2>4
<1>4. CASE \E w \in Workers, e \in Emails, l \in Links, pc \in {"mail", "claim", "reset"} :
             Does(w, pc, e, l, Nobody)
  <2>1. PICK w \in Workers, e \in Emails, l \in Links, pc \in {"mail", "claim", "reset"} :
             Does(w, pc, e, l, Nobody)
    BY <1>4
  <2> DEFINE x == [pc |-> pc, about |-> e, link |-> l, seen |-> Nobody]
  <2>2. x \in TaskRow
    BY SeenRows DEF TaskRow
  <2>3. Turns(w, x)
    BY <2>1, <2>2, TaskAfter
  <2>4. TaskOK(x)
    BY DEF TaskOK, Founding, Entering
  <2> QED
    BY <2>2, <2>3, <2>4
<1>5. CASE \E w \in Workers, e \in Emails, pc \in Entering :
             Does(w, pc, e, 0, user[e]) /\ Active(e)
  <2>1. PICK w \in Workers, e \in Emails, pc \in Entering :
             Does(w, pc, e, 0, user[e]) /\ Active(e)
    BY <1>5
  <2> DEFINE x == [pc |-> pc, about |-> e, link |-> 0, seen |-> user[e]]
  <2>2. x \in TaskRow
    BY <1>0, SeenRows DEF TaskRow, Entering
  <2>3. Turns(w, x)
    BY <2>1, <2>2, TaskAfter
  <2>4. TaskOK(x)
    BY <1>0, <2>1 DEF TaskOK, Founding, Entering, There, Active
  <2> QED
    BY <2>2, <2>3, <2>4
<1>6. CASE \E w \in Workers, e \in Emails : Does(w, "newtoken", e, 0, Open(e))
  <2>1. PICK w \in Workers, e \in Emails : Does(w, "newtoken", e, 0, Open(e))
    BY <1>6
  <2> DEFINE x == [pc |-> "newtoken", about |-> e, link |-> 0, seen |-> Open(e)]
  <2>2. Open(e) \in SUBSET Links
    BY DEF Open
  <2> HIDE DEF Open
  <2>3. x \in TaskRow
    BY <2>2, SeenRows DEF TaskRow
  <2>4. Turns(w, x)
    BY <2>1, <2>3, TaskAfter
  <2>5. TaskOK(x)
    BY <2>2 DEF TaskOK, Founding, Entering
  <2> QED
    BY <2>3, <2>4, <2>5
<1>7. ASSUME NEW w \in Workers, SignupStep(w) \/ LoginStep(w) \/ NewToken(w)
                                 \/ ResetPassword(w) \/ TaskDies(w)
      PROVE  \/ task[w].pc # "idle" /\ Done(w)
             \/ \E pc \in Founding : Goes(w, pc) /\ task[w].pc \in {"claim"} \cup Founding
             \/ \E pc \in {"success", "session"} : Goes(w, pc) /\ task[w].pc \in Entering
  <2>1. CASE SignupStep(w)
    BY <2>1 DEF SignupStep, MailSignup, ClaimLink, CreateTenant, SignupPassword,
                SignupLinked, SignupFails, SignupUndo, At, Founding
  <2>2. CASE LoginStep(w) \/ NewToken(w) \/ ResetPassword(w) \/ TaskDies(w)
    BY <2>2 DEF LoginStep, WrongPassword, IssueCode, WrongCode, UseCode, LoginSuccess,
                OpenSession, NewToken, ResetPassword, TaskDies, At, Entering
  <2> QED
    BY <1>7, <2>1, <2>2
<1>8. ASSUME NEW w \in Workers, NEW e \in Emails,
             RequestSignup(w, e) \/ SignIn(w, e) \/ SignInPlain(w, e) \/ RequestReset(w, e)
      PROVE  \/ \E l \in Links : Does(w, "mail", e, l, Nobody)
             \/ \E pc \in Entering : Does(w, pc, e, 0, user[e]) /\ Active(e)
             \/ Does(w, "newtoken", e, 0, Open(e))
  BY <1>8, Zenon DEF RequestSignup, SignIn, SignInPlain, RequestReset, Fresh, Entering
<1>9. ASSUME NEW w \in Workers, NEW l \in Links, VerifySignup(w, l) \/ OpenReset(w, l)
      PROVE  \E e \in Emails, pc \in {"claim", "reset"} : Does(w, pc, e, l, Nobody)
  BY <1>0, <1>9 DEF VerifySignup, OpenReset
<1>10. CASE \/ \E l \in Links : LinkExpires(l)
            \/ \E e \in Emails : CodeAges(e) \/ LockEnds(e) \/ Suspend(e) \/ Activate(e)
                                   \/ SetStaffLogin(e) \/ AdminReset(e)
            \/ \E s \in session : Ask(s)
            \/ UNCHANGED avars
  BY <1>10, Zenon DEF Ask, LinkExpires, CodeAges, LockEnds, Suspend, Activate, SetStaffLogin,
                      AdminReset, avars
<1>11. CASE \E w \in Workers : SignupStep(w) \/ LoginStep(w) \/ NewToken(w)
                                 \/ ResetPassword(w) \/ TaskDies(w)
  BY <1>1, <1>2, <1>3, <1>7, <1>11
<1>12. CASE \E w \in Workers, e \in Emails :
         RequestSignup(w, e) \/ SignIn(w, e) \/ SignInPlain(w, e) \/ RequestReset(w, e)
  BY <1>4, <1>5, <1>6, <1>8, <1>12
<1>13. CASE \E w \in Workers, l \in Links : VerifySignup(w, l) \/ OpenReset(w, l)
  BY <1>4, <1>9, <1>13
<1> QED
  BY <1>10, <1>11, <1>12, <1>13, Zenon DEF AccountsNext

(* One request for a sign-up changes.                                      *)
Rewrites(l, email, state, consumed, tenant) ==
  /\ signup' \in [Links -> SignupRow]
  /\ signup'[l].email = email /\ signup'[l].state = state
  /\ (signup'[l].consumed <=> consumed) /\ (signup'[l].tenant <=> tenant)
  /\ \A k \in Links \ {l} : signup'[k] = signup[k]

LEMMA Rewritten ==
  ASSUME signup \in [Links -> SignupRow], NEW l \in Links
  PROVE  /\ \A e \in Emails :
              signup' = [signup EXCEPT ![l] =
                [email |-> e, state |-> "unsent", consumed |-> FALSE, tenant |-> FALSE]]
              => Rewrites(l, e, "unsent", FALSE, FALSE)
         /\ signup' = [signup EXCEPT ![l] = NoRequest] => Rewrites(l, Nobody, "none", FALSE, FALSE)
         /\ \A s \in {"sent", "expired"} :
              signup' = [signup EXCEPT ![l] = [@ EXCEPT !.state = s]]
              => Rewrites(l, signup[l].email, s, signup[l].consumed, signup[l].tenant)
         /\ \A b \in BOOLEAN :
              signup' = [signup EXCEPT ![l].consumed = b]
              => Rewrites(l, signup[l].email, signup[l].state, b, signup[l].tenant)
         /\ signup' = [signup EXCEPT ![l].tenant = TRUE]
              => Rewrites(l, signup[l].email, signup[l].state, signup[l].consumed, TRUE)
<1>1. ASSUME NEW r \in SignupRow, signup' = [signup EXCEPT ![l] = r]
      PROVE  Rewrites(l, r.email, r.state, r.consumed, r.tenant)
  BY <1>1 DEF Rewrites
<1>2. ASSUME NEW e \in Emails, signup' = [signup EXCEPT ![l] =
               [email |-> e, state |-> "unsent", consumed |-> FALSE, tenant |-> FALSE]]
      PROVE  Rewrites(l, e, "unsent", FALSE, FALSE)
  <2>1. [email |-> e, state |-> "unsent", consumed |-> FALSE, tenant |-> FALSE] \in SignupRow
    BY DEF SignupRow
  <2> QED
    BY <1>1, <1>2, <2>1
<1>3. ASSUME signup' = [signup EXCEPT ![l] = NoRequest]
      PROVE  Rewrites(l, Nobody, "none", FALSE, FALSE)
  <2>1. NoRequest \in SignupRow
    BY DEF SignupRow, NoRequest
  <2> QED
    BY <1>1, <1>3, <2>1 DEF NoRequest
<1>4. ASSUME NEW s \in {"sent", "expired"}, signup' = [signup EXCEPT ![l] = [@ EXCEPT !.state = s]]
      PROVE  Rewrites(l, signup[l].email, s, signup[l].consumed, signup[l].tenant)
  <2> DEFINE r == [signup[l] EXCEPT !.state = s]
  <2>1. /\ r \in SignupRow /\ r.email = signup[l].email /\ r.state = s
        /\ r.consumed = signup[l].consumed /\ r.tenant = signup[l].tenant
    BY DEF SignupRow
  <2>2. signup' = [signup EXCEPT ![l] = r]
    BY <1>4
  <2> HIDE DEF r
  <2> QED
    BY <1>1, <2>1, <2>2
<1>5. ASSUME NEW b \in BOOLEAN, signup' = [signup EXCEPT ![l].consumed = b]
      PROVE  Rewrites(l, signup[l].email, signup[l].state, b, signup[l].tenant)
  <2> DEFINE r == [signup[l] EXCEPT !.consumed = b]
  <2>1. /\ r \in SignupRow /\ r.email = signup[l].email /\ r.state = signup[l].state
        /\ r.consumed = b /\ r.tenant = signup[l].tenant
    BY DEF SignupRow
  <2>2. signup' = [signup EXCEPT ![l] = r]
    BY <1>5
  <2> HIDE DEF r
  <2> QED
    BY <1>1, <2>1, <2>2
<1>6. ASSUME signup' = [signup EXCEPT ![l].tenant = TRUE]
      PROVE  Rewrites(l, signup[l].email, signup[l].state, signup[l].consumed, TRUE)
  <2> DEFINE r == [signup[l] EXCEPT !.tenant = TRUE]
  <2>1. /\ r \in SignupRow /\ r.email = signup[l].email /\ r.state = signup[l].state
        /\ r.consumed = signup[l].consumed /\ r.tenant = TRUE
    BY DEF SignupRow
  <2>2. signup' = [signup EXCEPT ![l] = r]
    BY <1>6
  <2> HIDE DEF r
  <2> QED
    BY <1>1, <2>1, <2>2
<1> QED
  BY <1>2, <1>3, <1>4, <1>5, <1>6

(* The statements of a sign-up, as changes of one request and one task.    *)
Step(w, l, pc) ==
  /\ task' \in [Workers -> TaskRow] /\ task'[w].pc = pc
  /\ pc # "idle" => task'[w].link = l /\ task'[w].about = task[w].about
  /\ \A v \in Workers \ {w} : task'[v] = task[v]

Asks(w, l, e) ==
  /\ At(w, "idle") /\ signup[l].state = "none" /\ ~ There(e)
  /\ Rewrites(l, e, "unsent", FALSE, FALSE)
  /\ Turns(w, [pc |-> "mail", about |-> e, link |-> l, seen |-> Nobody])
  /\ UNCHANGED <<user, mishap>>

MailsOut(w, l) ==
  /\ At(w, "mail") /\ l = task[w].link /\ Step(w, l, "idle") /\ UNCHANGED user
  /\ \/ /\ Rewrites(l, signup[l].email, "sent", signup[l].consumed, signup[l].tenant)
        /\ UNCHANGED mishap
     \/ Rewrites(l, Nobody, "none", FALSE, FALSE) /\ mishap' = mishap + 1

Visits(w, l) ==
  /\ At(w, "idle") /\ signup[l].state = "sent"
  /\ Turns(w, [pc |-> "claim", about |-> signup[l].email, link |-> l, seen |-> Nobody])
  /\ UNCHANGED <<user, signup, mishap>>

Claims(w, l) ==
  /\ At(w, "claim") /\ l = task[w].link /\ UNCHANGED <<user, mishap>>
  /\ IF signup[l].consumed
       THEN UNCHANGED signup /\ Step(w, l, "idle")
       ELSE /\ Rewrites(l, signup[l].email, signup[l].state, TRUE, signup[l].tenant)
            /\ Step(w, l, "create")

Founds(w, l) ==
  /\ l = task[w].link /\ UNCHANGED <<signup, mishap>>
  /\ \/ At(w, "create") /\ There(Person(w)) /\ Step(w, l, "undo") /\ UNCHANGED user
     \/ /\ At(w, "create") /\ ~ There(Person(w)) /\ There(Person(w))'
        /\ Step(w, l, "password")
     \/ At(w, "password") /\ user'[Person(w)].pwd # "random" /\ Step(w, l, "link")

Finishes(w, l) ==
  /\ At(w, "link") /\ l = task[w].link /\ Step(w, l, "idle") /\ UNCHANGED <<user, mishap>>
  /\ Rewrites(l, signup[l].email, signup[l].state, signup[l].consumed, TRUE)

GivesUp(w, l) ==
  /\ task[w].pc \in Founding /\ l = task[w].link /\ UNCHANGED user
  /\ \/ Step(w, l, "undo") /\ UNCHANGED signup /\ mishap' = mishap + 1
     \/ /\ At(w, "undo") /\ Step(w, l, "idle") /\ UNCHANGED mishap
        /\ Rewrites(l, signup[l].email, signup[l].state,
                    signup[l].consumed /\ signup[l].tenant, signup[l].tenant)

Dies(w) == /\ Step(w, 0, "idle") /\ UNCHANGED <<user, signup>> /\ mishap' = mishap + 1

Expires(l) ==
  /\ signup[l].state = "sent" /\ UNCHANGED <<user, task, mishap>>
  /\ Rewrites(l, signup[l].email, "expired", signup[l].consumed, signup[l].tenant)

Apart == {"idle", "newtoken", "reset"} \cup Entering
Elsewhere ==
  /\ UNCHANGED signup /\ mishap' \in {mishap, mishap + 1}
  /\ \A v \in Workers : task'[v] = task[v] \/ (task[v].pc \in Apart /\ task'[v].pc \in Apart)

LEMMA SignupShapes ==
  ASSUME AccountsType, [AccountsNext]_avars
  PROVE  \/ Elsewhere
         \/ \E w \in Workers, l \in Links :
              \/ \E e \in Emails : Asks(w, l, e)
              \/ MailsOut(w, l) \/ Visits(w, l) \/ Claims(w, l) \/ Founds(w, l) \/ Finishes(w, l)
              \/ GivesUp(w, l)
         \/ \E w \in Workers : Dies(w)
         \/ \E l \in Links : Expires(l)
<1>0. /\ task \in [Workers -> TaskRow] /\ user \in [Emails -> UserRow]
      /\ signup \in [Links -> SignupRow]
      /\ \A l \in Links : signup[l].state # "none" => signup[l].email \in Emails
      /\ \A w \in Workers : task[w].pc \in {"mail", "claim"} \cup Founding =>
           task[w].link \in Links /\ task[w].about \in Emails
  BY DEF AccountsType, At, Person, Founding
<1>a. ASSUME NEW w \in Workers, Done(w)
      PROVE  \A l : Step(w, l, "idle")
  BY <1>a, TaskAfter, SeenRows DEF Turns, Step, IdleTask
<1>b. ASSUME NEW w \in Workers, NEW pc \in Founding, Goes(w, pc)
      PROVE  \A l : l = task[w].link => Step(w, l, pc)
  <2> DEFINE x == [pc |-> pc, about |-> task[w].about, link |-> task[w].link,
                   seen |-> task[w].seen]
  <2>1. Turns(w, x)
    BY <1>b, TaskAfter
  <2>2. x.pc = pc /\ x.about = task[w].about /\ x.link = task[w].link
    OBVIOUS
  <2> HIDE DEF x
  <2> QED
    BY <2>1, <2>2 DEF Turns, Step
<1>c. ASSUME NEW w \in Workers, NEW pc \in {"mail", "claim"}, NEW e \in Emails, NEW l \in Links,
             Does(w, pc, e, l, Nobody)
      PROVE  Turns(w, [pc |-> pc, about |-> e, link |-> l, seen |-> Nobody])
  <2>1. [pc |-> pc, about |-> e, link |-> l, seen |-> Nobody] \in TaskRow
    BY SeenRows DEF TaskRow
  <2> QED
    BY <1>c, <2>1, TaskAfter
<1>1. ASSUME NEW w \in Workers, NEW e \in Emails, RequestSignup(w, e)
      PROVE  \E l \in Links : Asks(w, l, e)
  BY <1>0, <1>1, <1>c, Rewritten DEF RequestSignup, Asks, Fresh, UserUnchanged
<1>2. ASSUME NEW w \in Workers, MailSignup(w)
      PROVE  \E l \in Links : MailsOut(w, l)
  <2>1. task[w].link \in Links
    BY <1>0, <1>2 DEF MailSignup, At
  <2>2. CASE /\ signup' = [signup EXCEPT ![task[w].link] = [@ EXCEPT !.state = "sent"]]
             /\ UNCHANGED mishap
    BY <1>0, <1>2, <1>a, <2>1, <2>2, Rewritten DEF MailSignup, MailsOut, UserUnchanged
  <2>3. CASE signup' = [signup EXCEPT ![task[w].link] = NoRequest] /\ mishap' = mishap + 1
    BY <1>0, <1>2, <1>a, <2>1, <2>3, Rewritten DEF MailSignup, MailsOut, UserUnchanged
  <2> QED
    BY <1>2, <2>2, <2>3 DEF MailSignup
<1>3. ASSUME NEW w \in Workers, NEW l \in Links, VerifySignup(w, l)
      PROVE  Visits(w, l)
  BY <1>0, <1>3, <1>c DEF VerifySignup, Visits, UserUnchanged
<1>4. ASSUME NEW w \in Workers, ClaimLink(w)
      PROVE  \E l \in Links : Claims(w, l)
  BY <1>0, <1>4, <1>a, <1>b, Rewritten DEF ClaimLink, Claims, UserUnchanged, At, Founding
<1>5. ASSUME NEW w \in Workers, CreateTenant(w) \/ SignupPassword(w)
      PROVE  \E l \in Links : Founds(w, l)
  <2>1. task[w].link \in Links /\ Person(w) \in Emails
    BY <1>0, <1>5 DEF CreateTenant, SignupPassword, At, Founding, Person
  <2>2. CASE CreateTenant(w) /\ There(Person(w))
    BY <1>b, <2>1, <2>2 DEF CreateTenant, Founds, Founding
  <2>3. CASE CreateTenant(w) /\ ~ There(Person(w))
    <3>1. There(Person(w))'
      BY <1>0, <2>1, <2>3, <1>b DEF CreateTenant, There, NoUser, Person, Step, Founding
    <3> QED
      BY <1>b, <2>1, <2>3, <3>1 DEF CreateTenant, Founds, Founding
  <2>4. CASE SignupPassword(w)
    <3>1. user'[Person(w)].pwd = "chosen"
      BY <1>0, <2>1, <2>4 DEF SignupPassword, UserRow
    <3> QED
      BY <1>b, <2>1, <2>4, <3>1 DEF SignupPassword, Founds, Founding
  <2> QED
    BY <1>5, <2>2, <2>3, <2>4
<1>6. ASSUME NEW w \in Workers, SignupLinked(w)
      PROVE  \E l \in Links : Finishes(w, l)
  BY <1>0, <1>6, <1>a, Rewritten DEF SignupLinked, Finishes, UserUnchanged, At, Founding
<1>7. ASSUME NEW w \in Workers, SignupFails(w) \/ SignupUndo(w)
      PROVE  \E l \in Links : GivesUp(w, l)
  <2>1. task[w].link \in Links /\ task[w].pc \in Founding
    BY <1>0, <1>7 DEF SignupFails, SignupUndo, At, Founding
  <2>2. CASE SignupFails(w)
    BY <1>b, <2>1, <2>2 DEF SignupFails, GivesUp, UserUnchanged, Founding
  <2>3. CASE SignupUndo(w)
    <3> DEFINE l == task[w].link  b == signup[l].consumed /\ signup[l].tenant
    <3>1. b \in BOOLEAN /\ signup' = [signup EXCEPT ![l].consumed = b]
      BY <1>0, <2>1, <2>3 DEF SignupUndo, SignupRow
    <3>2. Rewrites(l, signup[l].email, signup[l].state, b, signup[l].tenant)
      BY <1>0, <2>1, <3>1, Rewritten
    <3> QED
      BY <1>a, <2>1, <2>3, <3>2 DEF SignupUndo, GivesUp, UserUnchanged
  <2> QED
    BY <1>7, <2>2, <2>3
<1>8. ASSUME NEW w \in Workers, TaskDies(w)
      PROVE  Dies(w)
  BY <1>8, <1>a DEF TaskDies, Dies, UserUnchanged
<1>9. ASSUME NEW l \in Links, LinkExpires(l)
      PROVE  Elsewhere \/ Expires(l)
  BY <1>0, <1>9, Rewritten DEF LinkExpires, Elsewhere, Expires, UserUnchanged
<1>10. ASSUME NEW w \in Workers, NEW e \in Emails,
              SignIn(w, e) \/ SignInPlain(w, e) \/ RequestReset(w, e)
       PROVE  Elsewhere
  BY <1>0, <1>10 DEF SignIn, SignInPlain, RequestReset, Does, At, Elsewhere, Apart, Entering
<1>11. ASSUME NEW w \in Workers, NEW l \in Links, OpenReset(w, l)
       PROVE  Elsewhere
  BY <1>0, <1>11 DEF OpenReset, Does, At, Elsewhere, Apart
<1>12. ASSUME NEW w \in Workers, LoginStep(w) \/ NewToken(w) \/ ResetPassword(w)
       PROVE  Elsewhere
  <2>1. UNCHANGED <<signup, mishap>> /\ task[w].pc \in Apart
    BY <1>12 DEF LoginStep, NewToken, ResetPassword, WrongPassword, IssueCode, WrongCode,
                 UseCode, LoginSuccess, OpenSession, At, Apart, Entering
  <2>2. Done(w) \/ Goes(w, "success") \/ Goes(w, "session")
    BY <1>12 DEF LoginStep, NewToken, ResetPassword, WrongPassword, IssueCode, WrongCode,
                 UseCode, LoginSuccess, OpenSession
  <2>3. ASSUME NEW pc \in {"success", "session"}, Goes(w, pc)
        PROVE  \E x : Turns(w, x) /\ x.pc = pc
    <3> DEFINE x == [pc |-> pc, about |-> task[w].about, link |-> task[w].link,
                     seen |-> task[w].seen]
    <3>1. Turns(w, x) /\ x.pc = pc
      BY <2>3, TaskAfter DEF Entering
    <3> QED
      BY <3>1
  <2>4. Done(w) => \E x : Turns(w, x) /\ x.pc = "idle"
    BY TaskAfter DEF IdleTask
  <2> QED
    BY <2>1, <2>2, <2>3, <2>4 DEF Turns, Elsewhere, Apart, Entering
<1>13. CASE \E e \in Emails : CodeAges(e) \/ LockEnds(e) \/ Suspend(e) \/ Activate(e)
                                \/ SetStaffLogin(e) \/ AdminReset(e)
  BY <1>13 DEF CodeAges, LockEnds, Suspend, Activate, SetStaffLogin, AdminReset, Elsewhere
<1>14. CASE UNCHANGED avars
  BY <1>14 DEF avars, Elsewhere
<1>15. CASE \E w \in Workers : SignupStep(w) \/ LoginStep(w) \/ NewToken(w)
                                 \/ ResetPassword(w) \/ TaskDies(w)
  BY <1>2, <1>4, <1>5, <1>6, <1>7, <1>8, <1>12, <1>15 DEF SignupStep
<1>16. CASE \E w \in Workers, e \in Emails :
         RequestSignup(w, e) \/ SignIn(w, e) \/ SignInPlain(w, e) \/ RequestReset(w, e)
  BY <1>1, <1>10, <1>16
<1>17. CASE \E w \in Workers, l \in Links : VerifySignup(w, l) \/ OpenReset(w, l)
  BY <1>3, <1>11, <1>17
<1>18. CASE \E s \in session : Ask(s)
  BY <1>18 DEF Ask, Elsewhere
<1> QED
  BY <1>9, <1>13, <1>14, <1>15, <1>16, <1>17, <1>18, Zenon DEF AccountsNext


(* Who is done with a request leaves the claims of the others as they are. *)
LEMMA LeavesClaims ==
  ASSUME SignupOK, NEW w \in Workers, NEW l, Step(w, l, "idle"),
         \A k \in Links \ {l} : signup'[k] = signup[k],
         \A v \in Workers \ {w} : task[v].link # l \/ task[v].pc \notin {"mail"} \cup Founding
  PROVE  ClaimsOK'
<1>1. \A v \in Workers : task'[v].pc \in Founding \cup {"mail"} =>
        /\ v # w /\ task'[v] = task[v] /\ task[v].pc \in Founding \cup {"mail"}
        /\ task[v].link # l /\ task[v].link \in Links
        /\ signup'[task[v].link] = signup[task[v].link]
  BY DEF Step, SignupOK, LinksOK, Founding
<1>2. \A v \in Workers : task'[v].pc \in Founding =>
        signup'[task'[v].link].consumed /\ ~ signup'[task'[v].link].tenant
  BY <1>1 DEF SignupOK, ClaimsOK
<1>3. ASSUME NEW u \in Workers, NEW v \in Workers,
             task'[u].pc \in Founding \cup {"mail"}, task'[v].pc \in Founding \cup {"mail"},
             task'[u].link = task'[v].link
      PROVE  u = v
  BY <1>1, <1>3 DEF SignupOK, ClaimsOK
<1> QED
  BY <1>2, <1>3 DEF ClaimsOK, Founding

LEMMA SignupStepKeeps ==
  ASSUME AccountsType, SignupOK, \A e \in Emails : Lasts(e), mishap' \in Nat,
         NEW w \in Workers, NEW l \in Links,
         \/ \E e \in Emails : Asks(w, l, e)
         \/ MailsOut(w, l) \/ Visits(w, l) \/ Claims(w, l) \/ Founds(w, l) \/ Finishes(w, l)
         \/ GivesUp(w, l)
  PROVE  SignupOK'
<1>0. /\ \A e \in Emails : There(e) => There(e)' /\ (user[e].pwd # "random" => user'[e].pwd # "random")
      /\ \A v \in Workers : task[v].pc \in {"mail", "claim"} \cup Founding => Person(v) \in Emails
      /\ \A k \in Links : signup[k].consumed => signup[k].email \in Emails
  BY DEF Lasts, SignupOK, LinksOK, Known, AccountsType, At, Person, Founding
<1>1. CASE \E e \in Emails : Asks(w, l, e)
  <2>1. PICK e \in Emails : Asks(w, l, e)
    BY <1>1
  <2>2. LinksOK' /\ ClaimsOK'
    BY <2>1 DEF Asks, Rewrites, Turns, SignupOK, LinksOK, ClaimsOK, Known, At, Person, Founding
  <2>3. OwnersOK'
    BY <1>0, <2>1 DEF Asks, Rewrites, Turns, SignupOK, LinksOK, OwnersOK, Made, There, Known, At, Person, Founding
  <2>4. HeldOK'
    BY <2>1 DEF Asks, Rewrites, Turns, SignupOK, LinksOK, HeldOK, At, Founding
  <2> QED
    BY <2>2, <2>3, <2>4 DEF SignupOK
<1>2. CASE MailsOut(w, l)
  <2>1. ~ signup[l].consumed /\ ~ signup[l].tenant /\ signup[l].state = "unsent"
    BY <1>2 DEF MailsOut, SignupOK, LinksOK, Known, At, Founding
  <2>2. LinksOK' /\ ClaimsOK'
    <3>0. \A k \in Links \ {l} : signup'[k] = signup[k]
      BY <1>2 DEF MailsOut, Rewrites
    <3>1. \A v \in Workers \ {w} : task[v].link # l \/ task[v].pc \notin {"mail", "claim"} \cup Founding
      BY <1>2, <2>1 DEF MailsOut, SignupOK, LinksOK, ClaimsOK, Known, At, Founding
    <3>2. CASE Rewrites(l, Nobody, "none", FALSE, FALSE)
      <4>1. LinksOK'
        BY <1>2, <2>1, <3>1, <3>2 DEF MailsOut, Rewrites, Step, SignupOK, LinksOK, ClaimsOK, Known, At, Person, Founding
      <4>2. ClaimsOK'
        BY <1>2, <3>1, <3>0, LeavesClaims DEF MailsOut
      <4> QED
        BY <4>1, <4>2
    <3>3. CASE Rewrites(l, signup[l].email, "sent", signup[l].consumed, signup[l].tenant)
      <4>1. LinksOK'
        BY <1>2, <2>1, <3>1, <3>3 DEF MailsOut, Rewrites, Step, SignupOK, LinksOK, ClaimsOK, Known, At, Person, Founding
      <4>2. ClaimsOK'
        BY <1>2, <3>1, <3>0, LeavesClaims DEF MailsOut
      <4> QED
        BY <4>1, <4>2
    <3> QED
      BY <1>2, <3>2, <3>3 DEF MailsOut
  <2>3. OwnersOK'
    BY <1>0, <1>2, <2>1 DEF MailsOut, Rewrites, Step, SignupOK, LinksOK, OwnersOK, Made, There, Known, At, Person, Founding
  <2>4. HeldOK'
    BY <1>2, <2>1 DEF MailsOut, Rewrites, Step, SignupOK, LinksOK, HeldOK, At, Founding, AccountsType
  <2> QED
    BY <2>2, <2>3, <2>4 DEF SignupOK
<1>3. CASE Visits(w, l)
  <2>2. LinksOK' /\ ClaimsOK'
    BY <1>0, <1>3 DEF Visits, Turns, SignupOK, LinksOK, ClaimsOK, Known, At, Person, Founding, AccountsType
  <2>3. OwnersOK'
    BY <1>0, <1>3 DEF Visits, Turns, SignupOK, LinksOK, OwnersOK, Made, There, Known, At, Person, Founding
  <2>4. HeldOK'
    BY <1>3 DEF Visits, Turns, SignupOK, LinksOK, HeldOK, At, Founding
  <2> QED
    BY <2>2, <2>3, <2>4 DEF SignupOK
<1>4. CASE Claims(w, l)
  <2>2. LinksOK' /\ ClaimsOK'
    BY <1>0, <1>4 DEF Claims, Rewrites, Step, SignupOK, LinksOK, ClaimsOK, Known, At, Person, Founding
  <2>3. OwnersOK'
    BY <1>0, <1>4 DEF Claims, Rewrites, Step, SignupOK, LinksOK, OwnersOK, Made, There, Known, At, Person, Founding
  <2>4. HeldOK'
    BY <1>4 DEF Claims, Rewrites, Step, SignupOK, LinksOK, HeldOK, At, Founding
  <2> QED
    BY <2>2, <2>3, <2>4 DEF SignupOK
<1>5. CASE Founds(w, l)
  <2>2. LinksOK' /\ ClaimsOK'
    BY <1>0, <1>5 DEF Founds, Step, SignupOK, LinksOK, ClaimsOK, Known, At, Person, Founding
  <2>3. OwnersOK'
    BY <1>0, <1>5 DEF Founds, Step, SignupOK, LinksOK, ClaimsOK, OwnersOK, Made, There, Known, At, Person, Founding
  <2>4. HeldOK'
    BY <1>5 DEF Founds, Step, SignupOK, LinksOK, HeldOK, At, Founding
  <2> QED
    BY <2>2, <2>3, <2>4 DEF SignupOK
<1>6. CASE Finishes(w, l)
  <2>1. /\ signup[l].consumed
        /\ \A v \in Workers \ {w} : task[v].link # l \/ task[v].pc \notin {"mail"} \cup Founding
    BY <1>6 DEF Finishes, SignupOK, ClaimsOK, At, Founding
  <2>2. LinksOK' /\ ClaimsOK'
    <3>1. LinksOK'
      BY <1>6, <2>1 DEF Finishes, Rewrites, Step, SignupOK, LinksOK, ClaimsOK, Known, At, Person, Founding
    <3>2. ClaimsOK'
      BY <1>6, <2>1, LeavesClaims DEF Finishes, Rewrites
    <3> QED
      BY <3>1, <3>2
  <2>3. OwnersOK'
    BY <1>0, <1>6 DEF Finishes, Rewrites, Step, SignupOK, LinksOK, ClaimsOK, OwnersOK, Made, There, Known, At, Person, Founding
  <2>4. HeldOK'
    BY <1>6 DEF Finishes, Rewrites, Step, SignupOK, LinksOK, ClaimsOK, HeldOK, At, Founding
  <2> QED
    BY <2>2, <2>3, <2>4 DEF SignupOK
<1>7. CASE GivesUp(w, l)
  <2>1. /\ ~ signup[l].tenant
        /\ \A v \in Workers \ {w} : task[v].link # l \/ task[v].pc \notin {"mail"} \cup Founding
    BY <1>7 DEF GivesUp, SignupOK, ClaimsOK, Founding
  <2>9. ASSUME NEW c, NEW d, Rewrites(l, signup[l].email, signup[l].state, c /\ signup[l].tenant, signup[l].tenant)
        PROVE  Rewrites(l, signup[l].email, signup[l].state, FALSE, FALSE)
    BY <2>1, <2>9 DEF Rewrites
  <2>2. LinksOK' /\ ClaimsOK'
    <3>1. CASE Step(w, l, "undo") /\ UNCHANGED signup
      <4>1. LinksOK'
        BY <1>7, <2>1, <3>1 DEF GivesUp, Step, SignupOK, LinksOK, ClaimsOK, Known, At, Person, Founding
      <4>2. ClaimsOK'
        BY <1>7, <2>1, <3>1 DEF GivesUp, Step, SignupOK, LinksOK, ClaimsOK, Known, At, Person, Founding
      <4> QED
        BY <4>1, <4>2
    <3>2. CASE Step(w, l, "idle") /\ Rewrites(l, signup[l].email, signup[l].state, FALSE, FALSE)
      <4>1. LinksOK'
        BY <1>7, <2>1, <3>2 DEF GivesUp, Rewrites, Step, SignupOK, LinksOK, ClaimsOK, Known, At, Person, Founding
      <4>2. ClaimsOK'
        BY <2>1, <3>2, LeavesClaims DEF Rewrites
      <4> QED
        BY <4>1, <4>2
    <3> QED
      BY <1>7, <2>1, <2>9, <3>1, <3>2 DEF GivesUp
  <2>3. OwnersOK'
    BY <1>0, <1>7 DEF GivesUp, Rewrites, Step, SignupOK, LinksOK, ClaimsOK, OwnersOK, Made, There, Known, At, Person, Founding
  <2>4. HeldOK'
    BY <1>7, <2>9 DEF GivesUp, Rewrites, Step, SignupOK, HeldOK, At, Founding, AccountsType
  <2> QED
    BY <2>2, <2>3, <2>4 DEF SignupOK
<1> QED
  BY <1>1, <1>2, <1>3, <1>4, <1>5, <1>6, <1>7

LEMMA SignupKept ==
  ASSUME AccountsType, SignupOK, [AccountsNext]_avars
  PROVE  /\ SignupOK'
         /\ signup' \in [Links -> SignupRow] /\ mishap' \in Nat
         /\ \A l \in Links : signup'[l].state # "none" => signup'[l].email \in Emails
<1>0. /\ \A e \in Emails : Lasts(e)
      /\ signup \in [Links -> SignupRow] /\ mishap \in Nat /\ mishap + 1 \in Nat
      /\ \A l \in Links : signup[l].state # "none" => signup[l].email \in Emails
  BY UsersLast DEF AccountsType
<1>1. CASE Elsewhere
  <2>1. \A v \in Workers : \/ task'[v] = task[v]
                          \/ /\ task[v].pc \notin {"mail", "claim"} \cup Founding
                             /\ task'[v].pc \notin {"mail", "claim"} \cup Founding
    BY <1>1 DEF Elsewhere, Apart, Entering, Founding
  <2>2. UNCHANGED signup /\ mishap' \in {mishap, mishap + 1}
    BY <1>1 DEF Elsewhere
  <2> QED
    BY <1>0, <2>1, <2>2, OthersKeepSignup
<1>2. ASSUME NEW w \in Workers, NEW l \in Links,
             \/ \E e \in Emails : Asks(w, l, e)
             \/ MailsOut(w, l) \/ Visits(w, l) \/ Claims(w, l) \/ Founds(w, l) \/ Finishes(w, l)
             \/ GivesUp(w, l)
      PROVE  /\ SignupOK'
             /\ signup' \in [Links -> SignupRow] /\ mishap' \in Nat
             /\ \A k \in Links : signup'[k].state # "none" => signup'[k].email \in Emails
  <2>1. mishap' \in Nat
    BY <1>0, <1>2 DEF Asks, MailsOut, Visits, Claims, Founds, Finishes, GivesUp
  <2>2. SignupOK'
    BY <1>0, <1>2, <2>1, SignupStepKeeps
  <2>3. At(w, "mail") /\ l = task[w].link => signup[l].email \in Emails
    BY <1>0 DEF SignupOK, LinksOK, At
  <2>4. /\ signup' \in [Links -> SignupRow]
        /\ \A k \in Links : signup'[k].state # "none" => signup'[k].email \in Emails
    BY <1>0, <1>2, <2>3 DEF Asks, MailsOut, Visits, Claims, Founds, Finishes, GivesUp, Rewrites
  <2> QED
    BY <2>1, <2>2, <2>4
<1>3. ASSUME NEW w \in Workers, Dies(w)
      PROVE  SignupOK' /\ UNCHANGED signup /\ mishap' \in Nat
  <2>1. /\ mishap' \in Nat /\ mishap' # 0 /\ UNCHANGED <<user, signup>>
        /\ task'[w].pc = "idle" /\ \A v \in Workers \ {w} : task'[v] = task[v]
    BY <1>0, <1>3 DEF Dies, Step
  <2>2. LinksOK'
    BY <2>1 DEF SignupOK, LinksOK, Known, At, Person, Founding
  <2>3. ClaimsOK'
    BY <2>1 DEF SignupOK, ClaimsOK, Founding
  <2>4. OwnersOK'
    BY <2>1 DEF SignupOK, OwnersOK, Made, Person, At, There
  <2>5. HeldOK'
    BY <2>1 DEF HeldOK
  <2> QED
    BY <2>1, <2>2, <2>3, <2>4, <2>5 DEF SignupOK
<1>4. ASSUME NEW l \in Links, Expires(l)
      PROVE  /\ SignupOK' /\ signup' \in [Links -> SignupRow] /\ mishap' \in Nat
             /\ \A k \in Links : signup'[k].state # "none" => signup'[k].email \in Emails
  <2>1. LinksOK' /\ ClaimsOK'
    BY <1>4 DEF Expires, Rewrites, SignupOK, LinksOK, ClaimsOK, Known, At, Person, Founding
  <2>2. OwnersOK' /\ HeldOK'
    BY <1>4 DEF Expires, Rewrites, SignupOK, LinksOK, OwnersOK, HeldOK, Made, Person, At, There, Founding
  <2>3. /\ signup' \in [Links -> SignupRow] /\ mishap' \in Nat
        /\ \A k \in Links : signup'[k].state # "none" => signup'[k].email \in Emails
    BY <1>0, <1>4 DEF Expires, Rewrites
  <2> QED
    BY <2>1, <2>2, <2>3 DEF SignupOK
<1> QED
  BY <1>0, <1>1, <1>2, <1>3, <1>4, SignupShapes DEF Elsewhere

-----------------------------------------------------------------------------
(* Sessions, links and counters                                            *)

LEMMA TokensKept ==
  ASSUME AccountsType, [AccountsNext]_avars
  PROVE  /\ token' \in [Links -> TokenRow]
         /\ \A l \in Links : token'[l].state \in {"open", "expired"} => token'[l].user \in Emails
<1>0. /\ token \in [Links -> TokenRow]
      /\ \A l \in Links : token[l].state \in {"open", "expired"} => token[l].user \in Emails
      /\ \A w \in Workers : At(w, "newtoken") => Person(w) \in Emails
  BY DEF AccountsType, At
<1> DEFINE Good(t) == /\ t \in [Links -> TokenRow]
                      /\ \A l \in Links : t[l].state \in {"open", "expired"} => t[l].user \in Emails
<1>1. ASSUME NEW open
      PROVE  Good(Voided(open))
  <2>1. \A l \in Links : LET r == [token[l] EXCEPT !.state = "used"] IN
          r \in TokenRow /\ r.state = "used"
    BY <1>0 DEF TokenRow
  <2> QED
    BY <1>0, <2>1 DEF Voided
<1>2. CASE \E w \in Workers : NewToken(w)
  <2>1. PICK w \in Workers : NewToken(w)
    BY <1>2
  <2> DEFINE t == Voided(task[w].seen)  r == [user |-> Person(w), state |-> "open"]
  <2>2. r \in TokenRow /\ Person(w) \in Emails
    BY <1>0, <2>1 DEF NewToken, TokenRow
  <2>3. Good(t) /\ \E l \in Links : token' = [t EXCEPT ![l] = r]
    BY <1>1, <2>1 DEF NewToken, Fresh
  <2>4. r.user \in Emails
    BY <2>2
  <2> HIDE DEF t, r
  <2> QED
    BY <2>2, <2>3, <2>4
<1>3. CASE \E l \in Links : LinkExpires(l)
  <2>1. PICK l \in Links : LinkExpires(l)
    BY <1>3
  <2> DEFINE r == [token[l] EXCEPT !.state = "expired"]
  <2>2. r \in TokenRow /\ r.user = token[l].user
    BY <1>0 DEF TokenRow
  <2>3. UNCHANGED token \/ (token[l].state = "open" /\ token' = [token EXCEPT ![l] = r])
    BY <2>1 DEF LinkExpires
  <2> HIDE DEF r
  <2> QED
    BY <1>0, <2>2, <2>3
<1>4. CASE \/ \E w \in Workers : ResetPassword(w)
           \/ \E e \in Emails : AdminReset(e)
  BY <1>1, <1>4 DEF ResetPassword, AdminReset, NewPassword
<1>5. CASE UNCHANGED token
  BY <1>0, <1>5
<1>6. ASSUME NEW w \in Workers, SignupStep(w) \/ LoginStep(w) \/ TaskDies(w)
      PROVE  UNCHANGED token
  BY <1>6 DEF SignupStep, LoginStep, MailSignup, ClaimLink, CreateTenant, SignupPassword,
              SignupLinked, SignupFails, SignupUndo, WrongPassword, IssueCode, WrongCode, UseCode,
              LoginSuccess, OpenSession, TaskDies
<1>7. ASSUME NEW w \in Workers, NEW e \in Emails,
             RequestSignup(w, e) \/ SignIn(w, e) \/ SignInPlain(w, e) \/ RequestReset(w, e)
      PROVE  UNCHANGED token
  BY <1>7 DEF RequestSignup, SignIn, SignInPlain, RequestReset
<1>8. ASSUME NEW w \in Workers, NEW l \in Links, VerifySignup(w, l) \/ OpenReset(w, l)
      PROVE  UNCHANGED token
  BY <1>8 DEF VerifySignup, OpenReset
<1>9. ASSUME NEW e \in Emails,
             CodeAges(e) \/ LockEnds(e) \/ Suspend(e) \/ Activate(e) \/ SetStaffLogin(e)
      PROVE  UNCHANGED token
  BY <1>9 DEF CodeAges, LockEnds, Suspend, Activate, SetStaffLogin
<1>10. CASE UNCHANGED avars
  BY <1>5, <1>10 DEF avars
<1>11. CASE \E s \in session : Ask(s)
  BY <1>5, <1>11 DEF Ask
<1> QED
  BY <1>2, <1>3, <1>4, <1>5, <1>6, <1>7, <1>8, <1>9, <1>10, <1>11 DEF AccountsNext

(* A session is no younger than its user, one that was ended is older, and *)
(* nobody who read its user let it in.                                     *)
NoneLate == \A s : <<s, TRUE>> \notin late
SessionsOK ==
  /\ \A s \in session : There(s.user) /\ s.epoch <= user[s.user].epoch
  /\ \A s \in ended : s.epoch < user[s.user].epoch
  /\ NoneLate

LEMMA SessionsKept ==
  ASSUME AccountsType, SessionsOK, [AccountsNext]_avars
  PROVE  SessionsOK' /\ session' \subseteq [user : Emails, epoch : Nat] /\ ended' \subseteq session'
<1>0. /\ \A e \in Emails : /\ Lasts(e) /\ user[e].epoch \in Nat /\ user'[e].epoch \in Nat
                           /\ user[e] \in UserRow
      /\ user \in [Emails -> UserRow]
      /\ session \subseteq [user : Emails, epoch : Nat] /\ ended \subseteq session
      /\ \A w \in Workers : ~ At(w, "idle") => Person(w) \in Emails
      /\ \A s \in session : s.user \in Emails /\ s.epoch \in Nat
  BY UsersLast DEF AccountsType, UserRow
<1>a. UNCHANGED late => NoneLate'
  BY DEF SessionsOK, NoneLate
<1>1. CASE UNCHANGED <<session, ended, late>>
  BY <1>0, <1>1, <1>a DEF SessionsOK, Lasts, There
<1>2. CASE \E w \in Workers : OpenSession(w)
  <2>1. PICK w \in Workers : OpenSession(w)
    BY <1>2
  <2> DEFINE x == [user |-> Person(w), epoch |-> user[Person(w)].epoch]
  <2>2. Person(w) \in Emails /\ UNCHANGED <<user, ended, late>>
    BY <1>0, <2>1 DEF OpenSession, At
  <2>3. \/ UNCHANGED session
        \/ There(x.user) /\ x.epoch = user[x.user].epoch /\ session' = session \cup {x}
    BY <2>1, <2>2 DEF OpenSession, Active, There
  <2>4. x \in [user : Emails, epoch : Nat]
    BY <1>0, <2>2
  <2> HIDE DEF x
  <2> QED
    BY <1>0, <1>a, <2>2, <2>3, <2>4 DEF SessionsOK, There
<1>3. ASSUME NEW e \in Emails, EndsSessions(e), UNCHANGED <<session, late>>,
             \E r : r.epoch = user[e].epoch + 1 /\ user' = [user EXCEPT ![e] = r]
      PROVE  SessionsOK' /\ UNCHANGED session /\ ended' \subseteq session'
  <2>1. user'[e].epoch = user[e].epoch + 1
    BY <1>0, <1>3
  <2>2. \A s \in ended' : s \in ended \/ (s \in session /\ s.user = e)
    BY <1>3 DEF EndsSessions
  <2>3. \A s \in session : There(s.user)' /\ s.epoch <= user'[s.user].epoch
    BY <1>0 DEF SessionsOK, Lasts
  <2>4. \A s \in ended' : s.epoch < user'[s.user].epoch
    BY <1>0, <2>1, <2>2 DEF SessionsOK, Lasts
  <2>5. ended' \subseteq session'
    BY <1>0, <1>3, <2>2
  <2> QED
    BY <1>3, <1>a, <2>3, <2>4, <2>5 DEF SessionsOK, There
<1>4. ASSUME NEW e \in Emails, Suspend(e) \/ NewPassword(e, "chosen") \/ NewPassword(e, "issued")
      PROVE  EndsSessions(e) /\ \E r : r.epoch = user[e].epoch + 1 /\ user' = [user EXCEPT ![e] = r]
  <2>1. PICK r \in {[Shut(user[e]) EXCEPT !.status = "SUSPENDED"],
                    [Shut(user[e]) EXCEPT !.pwd = "chosen"], [Shut(user[e]) EXCEPT !.pwd = "issued"]} :
          user' = [user EXCEPT ![e] = r]
    BY <1>0, <1>4 DEF Suspend, NewPassword
  <2>2. r.epoch = user[e].epoch + 1
    BY <1>0, <2>1, ShutRow
  <2> QED
    BY <1>4, <2>1, <2>2 DEF Suspend, NewPassword
<1>5. CASE \E e \in Emails : Suspend(e) \/ AdminReset(e)
  BY <1>0, <1>3, <1>4, <1>5 DEF AdminReset, Suspend
<1>6. CASE \E w \in Workers : ResetPassword(w)
  BY <1>0, <1>3, <1>4, <1>6 DEF ResetPassword, At
<1>7. ASSUME NEW w \in Workers,
             SignupStep(w) \/ WrongPassword(w) \/ IssueCode(w) \/ WrongCode(w) \/ UseCode(w)
             \/ LoginSuccess(w) \/ NewToken(w) \/ TaskDies(w)
      PROVE  UNCHANGED <<session, ended, late>>
  BY <1>7 DEF SignupStep, MailSignup, ClaimLink, CreateTenant, SignupPassword, SignupLinked,
              SignupFails, SignupUndo, WrongPassword, IssueCode, WrongCode, UseCode,
              LoginSuccess, NewToken, TaskDies, UserUnchanged
<1>8. ASSUME NEW w \in Workers, NEW e \in Emails,
             RequestSignup(w, e) \/ SignIn(w, e) \/ SignInPlain(w, e) \/ RequestReset(w, e)
      PROVE  UNCHANGED <<session, ended, late>>
  BY <1>8 DEF RequestSignup, SignIn, SignInPlain, RequestReset, UserUnchanged
<1>9. ASSUME NEW l \in Links, LinkExpires(l) \/ \E w \in Workers : VerifySignup(w, l) \/ OpenReset(w, l)
      PROVE  UNCHANGED <<session, ended, late>>
  BY <1>9 DEF LinkExpires, VerifySignup, OpenReset, UserUnchanged
<1>10. ASSUME NEW e \in Emails, CodeAges(e) \/ LockEnds(e) \/ Activate(e) \/ SetStaffLogin(e)
      PROVE  UNCHANGED <<session, ended, late>>
  BY <1>10 DEF CodeAges, LockEnds, Activate, SetStaffLogin
<1>11. CASE UNCHANGED avars
  BY <1>1, <1>11 DEF avars
<1>12. CASE \E w \in Workers : LoginStep(w)
  BY <1>0, <1>1, <1>2, <1>7, <1>12 DEF LoginStep
<1>13. CASE \E s \in session : Ask(s)
  <2>1. PICK s \in session : Ask(s)
    BY <1>13
  <2>2. PICK readable \in BOOLEAN :
          /\ Admits(s, readable)
          /\ late' = IF s \in ended THEN late \cup {<<s, readable>>} ELSE late
    BY <2>1 DEF Ask
  <2>3. UNCHANGED <<user, session, ended>>
    BY <2>1 DEF Ask, UserUnchanged
  <2>4. s \in ended => ~ Usable(s)
    BY <1>0 DEF SessionsOK, Usable
  <2>5. s \in ended => ~ readable
    BY <2>2, <2>4 DEF Admits
  <2>6. NoneLate'
    BY <2>2, <2>5 DEF SessionsOK, NoneLate
  <2> QED
    BY <1>0, <2>3, <2>6 DEF SessionsOK, There
<1> QED
  BY <1>0, <1>1, <1>5, <1>6, <1>7, <1>8, <1>9, <1>10, <1>11, <1>12, <1>13 DEF AccountsNext

(* What the counter and the lock of e say of its streak.                   *)
CountOK(e) ==
  /\ ~ There(e) => streak[e] = 0 /\ user[e].failed = 0 /\ ~ user[e].locked
  /\ e \notin stale =>
       IF user[e].locked
         THEN streak[e] >= MaxFailed /\ user[e].failed = 0
         ELSE streak[e] < MaxFailed /\ user[e].failed = streak[e]

CountsOK == streak \in [Emails -> Nat] /\ \A e \in Emails : CountOK(e)

LEMMA CountsKept ==
  ASSUME AccountsType, CountsOK, [AccountsNext]_avars
  PROVE  CountsOK'
<1>0. /\ \A e \in Emails : Lasts(e) /\ user[e] \in UserRow /\ user[e].failed \in Nat
      /\ user \in [Emails -> UserRow] /\ streak \in [Emails -> Nat]
      /\ \A w \in Workers : task[w].pc \in Entering => There(Person(w)) /\ Person(w) \in Emails
      /\ \A w \in Workers : At(w, "wrong") => task[w].seen \in UserRow
      /\ MaxFailed \in Nat /\ MaxFailed > 0
  BY UsersLast, AccountsAssumption DEF AccountsType, CountsOK, AccountsAssumption, UserRow, At, Entering
<1>1. ASSUME NEW e \in Emails, NEW k \in Nat, NEW r, There(e), SameStanding(r, user[e]),
             user' = [user EXCEPT ![e] = r], streak' = [streak EXCEPT ![e] = k],
             stale' = stale \/ stale' = stale \cup {e},
             e \notin stale' =>
               IF r.locked THEN k >= MaxFailed /\ r.failed = 0
                           ELSE k < MaxFailed /\ r.failed = k
      PROVE  CountsOK'
  <2>1. /\ user'[e] = r /\ streak'[e] = k /\ streak' \in [Emails -> Nat]
        /\ \A p \in Emails \ {e} : user'[p] = user[p] /\ streak'[p] = streak[p]
    BY <1>0, <1>1
  <2>2. There(e)' /\ \A p \in Emails \ {e} : p \notin stale' => p \notin stale
    BY <1>0, <1>1 DEF Lasts
  <2>3. CountOK(e)'
    BY <1>1, <2>1, <2>2 DEF CountOK
  <2>4. \A p \in Emails \ {e} : CountOK(p)'
    BY <2>1, <2>2 DEF CountsOK, CountOK, There
  <2> QED
    BY <2>1, <2>3, <2>4 DEF CountsOK
<1>2. CASE \E w \in Workers : WrongPassword(w)
  <2>1. PICK w \in Workers, e \in Emails : WrongPassword(w) /\ e = Person(w)
    BY <1>0, <1>2 DEF WrongPassword, At, Entering
  <2> DEFINE next == task[w].seen.failed + 1
             n == IF Locks(next) THEN 0 ELSE next
             b == user[e].locked \/ Locks(next)
             r == [user[e] EXCEPT !.failed = n, !.locked = b]
             k == streak[e] + 1
  <2>2. /\ There(e) /\ task[w].seen.failed \in Nat
        /\ user' = [user EXCEPT ![e] = r] /\ streak' = [streak EXCEPT ![e] = k]
        /\ stale' = stale \/ stale' = stale \cup {e}
        /\ e \notin stale' => task[w].seen.failed = user[e].failed /\ ~ user[e].locked /\ e \notin stale
    BY <1>0, <2>1 DEF WrongPassword, At, Entering, UserRow
  <2>3. n \in Nat /\ b \in BOOLEAN /\ k \in Nat
    BY <1>0, <2>2 DEF Locks, UserRow
  <2>4. e \notin stale' => IF b THEN k >= MaxFailed /\ n = 0 ELSE k < MaxFailed /\ n = k
    BY <1>0, <2>2 DEF CountsOK, CountOK, Locks
  <2> HIDE DEF n, b, k
  <2>5. SameStanding(r, user[e]) /\ r.failed = n /\ r.locked = b
    <3>1. user[e] \in UserRow
      BY <1>0
    <3> QED
      BY <2>3, <3>1 DEF UserRow, SameStanding
  <2> HIDE DEF r
  <2> QED
    BY <1>1, <2>2, <2>3, <2>4, <2>5
<1>3. CASE \E w \in Workers : LoginSuccess(w)
  <2>1. PICK w \in Workers, e \in Emails : LoginSuccess(w) /\ e = Person(w)
    BY <1>0, <1>3 DEF LoginSuccess, At, Entering
  <2> DEFINE r == [user[e] EXCEPT !.failed = 0, !.locked = FALSE, !.otp = "none", !.tries = 0]
  <2>2. /\ There(e) /\ user' = [user EXCEPT ![e] = r]
        /\ streak' = [streak EXCEPT ![e] = 0] /\ stale' = stale
    BY <1>0, <2>1 DEF LoginSuccess, At, Entering
  <2>3. SameStanding(r, user[e]) /\ r.failed = 0 /\ r.locked = FALSE
    BY <1>0, CountRow
  <2> HIDE DEF r
  <2>4. ~ r.locked /\ 0 \in Nat /\ 0 < MaxFailed
    BY <1>0, <2>3
  <2> QED
    BY <1>1, <2>2, <2>3, <2>4
<1>4. CASE \E e \in Emails : LockEnds(e)
  <2>1. PICK e \in Emails : LockEnds(e)
    BY <1>4
  <2> DEFINE r == [user[e] EXCEPT !.locked = FALSE]
  <2>2. /\ There(e) /\ user' = [user EXCEPT ![e] = r] /\ streak' = [streak EXCEPT ![e] = 0]
        /\ stale' = stale /\ (e \notin stale => user[e].failed = 0)
    BY <2>1 DEF LockEnds, CountsOK, CountOK
  <2>3. SameStanding(r, user[e]) /\ r.failed = user[e].failed /\ r.locked = FALSE
    BY <1>0 DEF SameStanding, UserRow
  <2> HIDE DEF r
  <2> QED
    BY <1>0, <1>1, <2>2, <2>3
<1>5. ASSUME UNCHANGED <<streak, stale>>, \A e \in Emails : ~ Counting(e)
      PROVE  CountsOK'
  <2>1. \A e \in Emails : SameCount(user'[e], user[e]) \/ Enters(e)
    BY <1>5, UsersLast
  <2>2. \A e \in Emails : CountOK(e)'
    BY <1>0, <1>5, <2>1 DEF CountsOK, CountOK, SameCount, Enters, NoUser, Lasts
  <2> QED
    BY <1>0, <1>5, <2>2 DEF CountsOK
<1>6. CASE \A e \in Emails : ~ Counting(e)
  <2>1. ASSUME NEW w \in Workers, SignupStep(w) \/ NewToken(w) \/ ResetPassword(w) \/ TaskDies(w)
        PROVE  UNCHANGED <<streak, stale>>
    BY <2>1 DEF SignupStep, MailSignup, ClaimLink, CreateTenant, SignupPassword, SignupLinked,
                SignupFails, SignupUndo, NewToken, ResetPassword, TaskDies, UserUnchanged
  <2>2. ASSUME NEW w \in Workers, LoginStep(w)
        PROVE  UNCHANGED <<streak, stale>>
    <3>1. ~ WrongPassword(w) /\ ~ LoginSuccess(w)
      BY <1>0, <1>6 DEF Counting, WrongPassword, LoginSuccess, At, Entering
    <3> QED
      BY <2>2, <3>1 DEF LoginStep, IssueCode, WrongCode, UseCode, OpenSession
  <2>3. ASSUME NEW w \in Workers, NEW e \in Emails,
               RequestSignup(w, e) \/ SignIn(w, e) \/ SignInPlain(w, e) \/ RequestReset(w, e)
        PROVE  UNCHANGED <<streak, stale>>
    BY <2>3 DEF RequestSignup, SignIn, SignInPlain, RequestReset, UserUnchanged
  <2>4. ASSUME NEW l \in Links,
               LinkExpires(l) \/ \E w \in Workers : VerifySignup(w, l) \/ OpenReset(w, l)
        PROVE  UNCHANGED <<streak, stale>>
    BY <2>4 DEF LinkExpires, VerifySignup, OpenReset, UserUnchanged
  <2>5. ASSUME NEW e \in Emails,
               \/ CodeAges(e) \/ LockEnds(e) \/ Suspend(e) \/ Activate(e)
               \/ SetStaffLogin(e) \/ AdminReset(e)
        PROVE  UNCHANGED <<streak, stale>>
    BY <1>6, <2>5 DEF Counting, CodeAges, Suspend, Activate, SetStaffLogin, AdminReset
  <2>6. (\E s \in session : Ask(s)) => UNCHANGED <<streak, stale>>
    BY DEF Ask, UserUnchanged
  <2> QED
    BY <1>5, <1>6, <2>1, <2>2, <2>3, <2>4, <2>5, <2>6 DEF AccountsNext, avars
<1> QED
  BY <1>0, <1>2, <1>3, <1>4, <1>6 DEF Counting

-----------------------------------------------------------------------------
AccountsInv == AccountsType /\ SignupOK /\ SessionsOK

LEMMA AccountsStart == AccountsInit => AccountsInv /\ CountsOK
<1> SUFFICES ASSUME AccountsInit PROVE AccountsInv /\ CountsOK
  OBVIOUS
<1>1. /\ \A e \in Emails : user[e] \in {NoUser, Owner}
      /\ signup = [l \in Links |-> NoRequest] /\ token = [l \in Links |-> NoToken]
      /\ task = [w \in Workers |-> IdleTask] /\ session = {} /\ ended = {} /\ late = {}
      /\ mishap = 0
      /\ streak = [e \in Emails |-> 0] /\ stale = {}
  BY DEF AccountsInit
<1>2. /\ NoUser \in UserRow /\ Owner \in UserRow /\ NoRequest \in SignupRow /\ NoToken \in TokenRow
      /\ \A r \in {NoUser, Owner} : r.failed = 0 /\ r.locked = FALSE
  <2>1. NoUser \in UserRow /\ Owner \in UserRow
    BY DEF NoUser, Owner, UserRow
  <2>2. NoRequest \in SignupRow /\ NoToken \in TokenRow
    BY DEF NoRequest, NoToken, SignupRow, TokenRow
  <2>3. NoUser.failed = 0 /\ NoUser.locked = FALSE /\ Owner.failed = 0 /\ Owner.locked = FALSE
    BY DEF NoUser, Owner
  <2> QED
    BY <2>1, <2>2, <2>3
<1>3. user \in [Emails -> UserRow]
  BY <1>2 DEF AccountsInit
<1>4. AccountsType
  BY <1>1, <1>2, <1>3, SeenRows DEF AccountsType, At, Person, NoRequest, NoToken, IdleTask, Founding, Entering
<1>5. SignupOK
  BY <1>1 DEF SignupOK, LinksOK, ClaimsOK, OwnersOK, HeldOK, Made, At, Person, NoRequest, IdleTask, Founding
<1>6. SessionsOK
  BY <1>1 DEF SessionsOK, NoneLate
<1>7. CountsOK
  BY <1>1, <1>2, AccountsAssumption DEF CountsOK, CountOK, AccountsAssumption
<1> QED
  BY <1>4, <1>5, <1>6, <1>7 DEF AccountsInv

LEMMA AccountsStep ==
  ASSUME AccountsInv, [AccountsNext]_avars
  PROVE  AccountsInv'
<1>0. AccountsType /\ SignupOK /\ SessionsOK
  BY DEF AccountsInv
<1>1. user' \in [Emails -> UserRow] /\ \A e \in Emails : Lasts(e)
  BY <1>0, UsersLast
<1>2. /\ SignupOK' /\ signup' \in [Links -> SignupRow] /\ mishap' \in Nat
      /\ \A l \in Links : signup'[l].state # "none" => signup'[l].email \in Emails
  BY <1>0, SignupKept
<1>3. /\ token' \in [Links -> TokenRow]
      /\ \A l \in Links : token'[l].state \in {"open", "expired"} => token'[l].user \in Emails
  BY <1>0, TokensKept
<1>4. SessionsOK' /\ session' \subseteq [user : Emails, epoch : Nat] /\ ended' \subseteq session'
  BY <1>0, SessionsKept
<1>5. task \in [Workers -> TaskRow] /\ \A w \in Workers : TaskOK(task[w])
  BY <1>0 DEF AccountsType, TaskOK, At, Person
<1>6. task' \in [Workers -> TaskRow] /\ \A w \in Workers : TaskOK(task[w]) \/ TaskOK(task'[w])
  BY <1>0, <1>5, TasksTurn DEF Turns
<1>7. \A w \in Workers : TaskOK(task'[w])
  BY <1>0, <1>5, TasksTurn DEF Turns
<1>8. /\ \A w \in Workers : ~ At(w, "idle")' => Person(w)' \in Emails
      /\ \A w \in Workers : task'[w].pc \in {"mail", "claim", "reset"} \cup Founding =>
           task'[w].link \in Links
      /\ \A w \in Workers : task'[w].pc \in Entering => There(Person(w))'
      /\ \A w \in Workers : task'[w].pc \in {"wrong", "code"} => task'[w].seen \in UserRow
      /\ \A w \in Workers : At(w, "newtoken")' => task'[w].seen \in SUBSET Links
  <2>1. \A w \in Workers : task'[w].pc \in Entering => task'[w].about \in Emails /\ There(task'[w].about)
    BY <1>7 DEF TaskOK, Entering
  <2>2. \A w \in Workers : task'[w].pc \in Entering => There(Person(w))'
    BY <1>1, <2>1 DEF Lasts, There, Person
  <2> QED
    BY <1>7, <2>2 DEF TaskOK, At, Person
<1> QED
  BY <1>1, <1>2, <1>3, <1>4, <1>6, <1>8 DEF AccountsInv, AccountsType

LEMMA AccountsKept == AccountsSpec => [](AccountsInv /\ CountsOK)
<1>1. AccountsInit => AccountsInv /\ CountsOK
  BY AccountsStart
<1>2. AccountsInv /\ CountsOK /\ [AccountsNext]_avars => (AccountsInv /\ CountsOK)'
  <2> SUFFICES ASSUME AccountsInv, CountsOK, [AccountsNext]_avars PROVE AccountsInv' /\ CountsOK'
    OBVIOUS
  <2>1. AccountsInv'
    BY AccountsStep
  <2>2. CountsOK'
    BY CountsKept DEF AccountsInv
  <2> QED
    BY <2>1, <2>2
<1> QED
  BY <1>1, <1>2, PTL DEF AccountsSpec

(* A sign-up link opened however often and by however many makes one       *)
(* tenant, whose owner has the password of the form; only a death or an    *)
(* error between two statements leaves a request claimed without one.      *)
THEOREM SignupIsWhole == AccountsSpec => []SignupWhole
<1>1. AccountsInv => SignupWhole
  <2> SUFFICES ASSUME AccountsInv PROVE SignupWhole
    OBVIOUS
  <2>1. ASSUME NEW l \in Links, mishap = 0, signup[l].consumed, \A w \in Workers : task[w].link # l
        PROVE  signup[l].tenant /\ user[signup[l].email].pwd # "random"
    <3>1. signup[l].tenant
      BY <2>1 DEF AccountsInv, SignupOK, HeldOK
    <3> QED
      BY <3>1 DEF AccountsInv, SignupOK, OwnersOK
  <2> QED
    BY <2>1 DEF SignupWhole, AccountsInv, SignupOK, LinksOK, OwnersOK
<1> QED
  BY <1>1, AccountsKept, PTL

(* A session that was ended by a suspension or a new password stays ended, *)
(* whatever is done to the user afterwards: epochs only grow.  No request  *)
(* of it is let in by a database that can be asked; that one which could   *)
(* not is let in is what getSessionUser does, and the statement says so.   *)
THEOREM SessionsStayEnded == AccountsSpec => []EndedStayEnded
<1>1. AccountsInv => EndedStayEnded
  <2> SUFFICES ASSUME AccountsInv, NEW s \in ended PROVE ~ Usable(s) /\ <<s, TRUE>> \notin late
    BY DEF EndedStayEnded
  <2>1. s.user \in Emails /\ s.epoch \in Nat /\ user[s.user].epoch \in Nat
    BY DEF AccountsInv, AccountsType, UserRow
  <2>2. s.epoch < user[s.user].epoch
    BY DEF AccountsInv, SessionsOK
  <2>3. ~ Usable(s)
    BY <2>1, <2>2 DEF Usable
  <2>4. <<s, TRUE>> \notin late
    BY DEF AccountsInv, SessionsOK, NoneLate
  <2> QED
    BY <2>3, <2>4
<1> QED
  BY <1>1, AccountsKept, PTL

(* For every limit and any number of people and requests at once: the lock *)
(* comes with the wrong password that makes the number full.               *)
THEOREM LocksOnTime == AccountsSpec => []LockedAfterEnough
<1>1. CountsOK => LockedAfterEnough
  BY AccountsAssumption DEF CountsOK, CountOK, LockedAfterEnough, AccountsAssumption
<1> QED
  BY <1>1, AccountsKept, PTL

-----------------------------------------------------------------------------
(* Homepage                                                                *)

Editor == [shown : Picture, asOf : Nat, heroBusy : BOOLEAN,
           batch : Batch \cup {Blank}, save : Save \cup {Blank}]

HomeType ==
  /\ made \in Nat /\ writes \in Nat
  /\ files \subseteq 1..made /\ shownOnce \subseteq 1..made
  /\ profile \in Picture \cup {Blank} /\ editors \in [Editors -> Editor]

(* The keys an open form x can still bring to the page, and those its save *)
(* has yet to delete.                                                      *)
Unsaved(x) == x.save # Blank /\ x.save.step \in {"asked", "read"}
Written(x) == x.save # Blank /\ x.save.step = "written"
Shown(x)   == PicturesOf(x.shown)
Base(x)    == IF x.batch = Blank THEN {} ELSE x.batch.base
Coming(x)  == IF x.batch = Blank THEN {} ELSE x.batch.keys
Values(x)  == IF Unsaved(x) THEN PicturesOf(x.save.values) ELSE {}
Holds(x)   == Shown(x) \cup Base(x) \cup Coming(x) \cup Values(x)
Gone(x)    == IF Written(x) THEN Unreferenced(x.save) ELSE {}

Published  == PicturesOf(RowOr(profile))
Pending    == UNION {Gone(editors[e]) : e \in Editors}
Safe       == (files \ Pending) \cup secondHand
Unseen     == files \ shownOnce

(* What a form holds is on the disk to stay, or known to be second hand,   *)
(* if the form is as new as the row; what it got since its save was sent   *)
(* was never published; a save knows only keys that were.                  *)
FormOK(x) ==
  /\ Holds(x) \subseteq 1..made
  /\ Coming(x) \subseteq Unseen /\ Coming(x) \cap (Shown(x) \cup Values(x)) = {}
  /\ x.asOf <= writes
  /\ x.asOf = writes => Shown(x) \cup Values(x) \subseteq Safe
  /\ Unsaved(x) => Shown(x) \ Values(x) \subseteq secondHand \cup Unseen
  /\ x.save # Blank => PicturesOf(x.save.prev) \subseteq shownOnce

(* A key that was never published is in one form.                          *)
OneForm == \A e, f \in Editors : e # f =>
             Holds(editors[e]) \cap Holds(editors[f]) \subseteq shownOnce

Noted == \A k \in (shownOnce \cap files) \ Published : k \in leftBehind \cup Pending

HomeInv ==
  /\ HomeType /\ \A e \in Editors : FormOK(editors[e])
  /\ OneForm /\ Noted
  /\ Published \subseteq Safe /\ Published \subseteq shownOnce

-----------------------------------------------------------------------------
LEMMA GoneIsOld ==
  ASSUME \A e \in Editors : FormOK(editors[e])
  PROVE  Pending \subseteq shownOnce
<1>1. \A e \in Editors : Gone(editors[e]) \subseteq shownOnce
  BY DEF FormOK, Gone, Written, Unreferenced
<1> QED
  BY <1>1 DEF Pending

(* One form becomes x.                                                     *)
Edits(e, x) == editors' = [editors EXCEPT ![e] = x]

(* Nothing, or one file, was uploaded.                                     *)
Uploads == UNCHANGED <<files, made>> \/ (made' = NewKey /\ files' = files \cup {NewKey})

(* A step of one form that neither publishes nor deletes.                  *)
LEMMA FormKeeps ==
  ASSUME HomeInv, NEW e \in Editors, NEW x \in Editor, Edits(e, x), Uploads,
         UNCHANGED <<profile, writes, shownOnce, leftBehind>>,
         secondHand \subseteq secondHand',
         Holds(x) \subseteq Holds(editors[e]) \cup shownOnce \cup (files' \ files),
         Coming(x) \subseteq files' \ shownOnce,
         Coming(x) \cap (Shown(x) \cup Values(x)) = {},
         x.asOf <= writes,
         x.asOf = writes => Shown(x) \cup Values(x) \subseteq Safe \cup secondHand' \cup (files' \ files),
         Unsaved(x) => Shown(x) \ Values(x) \subseteq secondHand' \cup (files' \ shownOnce),
         x.save # Blank => PicturesOf(x.save.prev) \subseteq shownOnce,
         Gone(x) = Gone(editors[e])
  PROVE  HomeInv'
<1>0. /\ HomeType /\ Pending \subseteq shownOnce /\ shownOnce \subseteq 1..made
      /\ files \subseteq 1..made /\ made \in Nat /\ editors \in [Editors -> Editor]
  BY GoneIsOld DEF HomeInv, HomeType
<1>1. /\ editors' \in [Editors -> Editor] /\ editors'[e] = x
      /\ \A f \in Editors \ {e} : editors'[f] = editors[f]
  BY <1>0 DEF Edits
<1>2. /\ files \subseteq files' /\ made' \in Nat /\ 1..made \subseteq 1..made'
      /\ files' \ files \subseteq 1..made' /\ (files' \ files) \cap (1..made) = {}
  BY <1>0 DEF Uploads, NewKey
<1>3. HomeType'
  BY <1>0, <1>1, <1>2 DEF HomeType
<1>4. Pending' = Pending
  <2>1. \A f \in Editors : Gone(editors'[f]) = Gone(editors[f])
    BY <1>1
  <2> QED
    BY <2>1 DEF Pending, Gone, Written
<1>5. /\ Safe \subseteq Safe' /\ files' \ files \subseteq Safe' /\ secondHand' \subseteq Safe'
      /\ Unseen \subseteq Unseen' /\ Unseen' = files' \ shownOnce
  BY <1>0, <1>2, <1>4 DEF Safe, Unseen
<1>6. ASSUME NEW f \in Editors \ {e} PROVE FormOK(editors[f])'
  <2> DEFINE y == editors[f]
  <2>1. FormOK(y) /\ editors'[f] = y
    BY <1>1 DEF HomeInv
  <2> HIDE DEF y
  <2> QED
    BY <1>2, <1>5, <2>1 DEF FormOK
<1>7. Holds(x) \subseteq 1..made'
  <2>1. Holds(editors[e]) \subseteq 1..made
    BY DEF HomeInv, FormOK
  <2> QED
    BY <1>0, <1>2, <2>1
<1>8. FormOK(editors[e])'
  BY <1>1, <1>5, <1>7 DEF FormOK
<1>9. OneForm'
  <2>1. \A f \in Editors \ {e} : Holds(x) \cap Holds(editors[f]) \subseteq shownOnce
    <3>1. \A f \in Editors \ {e} : Holds(editors[e]) \cap Holds(editors[f]) \subseteq shownOnce
      BY DEF HomeInv, OneForm
    <3>2. \A f \in Editors : Holds(editors[f]) \subseteq 1..made
      BY DEF HomeInv, FormOK
    <3> QED
      BY <1>2, <3>1, <3>2
  <2> QED
    BY <1>1, <2>1 DEF HomeInv, OneForm
<1>10. Noted'
  BY <1>0, <1>2, <1>4 DEF HomeInv, Noted, Published
<1> QED
  BY <1>3, <1>5, <1>6, <1>8, <1>9, <1>10 DEF HomeInv, Published

-----------------------------------------------------------------------------
(* A step that changes what a form shows or has under way, and not its     *)
(* save.                                                                   *)
LEMMA EditKeeps ==
  ASSUME HomeInv, NEW e \in Editors, NEW x \in Editor, Edits(e, x), Uploads,
         UNCHANGED <<profile, writes, shownOnce, leftBehind>>,
         secondHand \subseteq secondHand',
         x.asOf = editors[e].asOf, x.save = editors[e].save,
         Shown(x) \subseteq Shown(editors[e]) \cup Coming(editors[e]) \cup secondHand'
                              \cup (files' \ files),
         Shown(x) \cup Base(x) \cup Coming(x) \subseteq Holds(editors[e]) \cup (files' \ files),
         Coming(x) \subseteq Coming(editors[e]) \cup (files' \ files),
         Coming(x) \cap Shown(x) = {}
  PROVE  HomeInv'
<1> DEFINE o == editors[e]
<1>0. /\ FormOK(o) /\ Pending \subseteq shownOnce
      /\ files \subseteq 1..made /\ made \in Nat /\ shownOnce \subseteq 1..made
  BY GoneIsOld DEF HomeInv, HomeType
<1>1. files \subseteq files' /\ (files' \ files) \cap (1..made) = {}
  BY <1>0 DEF Uploads, NewKey
<1>2. Values(x) = Values(o) /\ Gone(x) = Gone(o) /\ (Unsaved(x) <=> Unsaved(o))
  BY DEF Values, Gone, Unsaved, Written
<1>3. /\ Coming(o) \subseteq files \ shownOnce /\ Values(o) \subseteq 1..made
      /\ Coming(o) \cap (Shown(o) \cup Values(o)) = {} /\ Unseen \subseteq Safe
  BY <1>0 DEF FormOK, Holds, Unseen, Safe
<1>4. Holds(x) \subseteq Holds(o) \cup (files' \ files)
  BY <1>2 DEF Holds
<1>5. Coming(x) \subseteq files' \ shownOnce /\ Coming(x) \cap (Shown(x) \cup Values(x)) = {}
  BY <1>0, <1>1, <1>2, <1>3
<1>6. x.asOf <= writes /\ (x.save # Blank => PicturesOf(x.save.prev) \subseteq shownOnce)
  BY <1>0 DEF FormOK
<1>7. ASSUME x.asOf = writes
      PROVE  Shown(x) \cup Values(x) \subseteq Safe \cup secondHand' \cup (files' \ files)
  <2>1. Shown(o) \cup Values(o) \cup Coming(o) \subseteq Safe
    BY <1>0, <1>3, <1>7 DEF FormOK, Unseen
  <2> QED
    BY <1>2, <2>1
<1>8. ASSUME Unsaved(x) PROVE Shown(x) \ Values(x) \subseteq secondHand' \cup (files' \ shownOnce)
  <2>1. Shown(o) \ Values(o) \subseteq secondHand \cup (files \ shownOnce)
    BY <1>0, <1>2, <1>8 DEF FormOK, Unseen
  <2> QED
    BY <1>0, <1>1, <1>2, <1>3, <2>1
<1> HIDE DEF o
<1> QED
  BY <1>2, <1>4, <1>5, <1>6, <1>7, <1>8, FormKeeps DEF o

(* What a form shows or has under way.                                     *)
LEMMA EditsKept ==
  ASSUME HomeInv, NEW e \in Editors,
         \/ PickHero(e) \/ HeroArrives(e) \/ UploadFails(e) \/ RemoveHero(e)
         \/ PickGallery(e) \/ NextOfBatch(e) \/ BatchDone(e) \/ RemovePicture(e)
  PROVE  HomeInv'
<1> DEFINE o == editors[e]
<1>0. /\ o \in Editor /\ FormOK(o) /\ made \in Nat /\ NewKey \in Nat /\ NewKey \notin 1..made
      /\ files \subseteq 1..made
  BY DEF HomeInv, HomeType, NewKey
<1>1. /\ o.shown \in Picture /\ (o.batch # Blank => o.batch \in Batch)
      /\ Blank \notin Nat \cup Batch
  BY <1>0, HomepageAssumption DEF Editor, HomepageAssumption
<1>2. o.shown.gallery \subseteq Nat /\ Holds(o) \subseteq 1..made
  BY <1>0, <1>1 DEF FormOK, Picture
<1> DEFINE With(p, busy, batch) == [o EXCEPT !.shown = p, !.heroBusy = busy, !.batch = batch]
<1>4. ASSUME NEW p \in Picture, NEW busy \in BOOLEAN, NEW batch \in Batch \cup {Blank},
             Edits(e, With(p, busy, batch)), Uploads,
             UNCHANGED <<profile, writes, shownOnce, leftBehind>>,
             secondHand \subseteq secondHand',
             LET keys == IF batch = Blank THEN {} ELSE batch.keys
                 base == IF batch = Blank THEN {} ELSE batch.base IN
             /\ PicturesOf(p) \subseteq Shown(o) \cup Coming(o) \cup secondHand' \cup (files' \ files)
             /\ PicturesOf(p) \cup base \cup keys \subseteq Holds(o) \cup (files' \ files)
             /\ keys \subseteq Coming(o) \cup (files' \ files)
             /\ keys \cap PicturesOf(p) = {}
      PROVE  HomeInv'
  <2> DEFINE x == With(p, busy, batch)
  <2>1. /\ x \in Editor /\ x.asOf = o.asOf /\ x.save = o.save
        /\ x.shown = p /\ x.batch = batch
    BY <1>0, <1>4 DEF Editor
  <2>2. Edits(e, x)
    BY <1>4
  <2> HIDE DEF x
  <2>3. /\ Shown(x) = PicturesOf(p)
        /\ Coming(x) = (IF batch = Blank THEN {} ELSE batch.keys)
        /\ Base(x) = (IF batch = Blank THEN {} ELSE batch.base)
    BY <2>1 DEF Shown, Coming, Base
  <2> QED
    BY <1>4, <2>1, <2>2, <2>3, EditKeeps
<1> HIDE DEF With
<1>5. /\ Shown(o) = o.shown.gallery \cup ({o.shown.hero} \ {Blank})
      /\ Coming(o) \cap Shown(o) = {} /\ Shown(o) \subseteq Holds(o)
      /\ Coming(o) \subseteq Holds(o) /\ Base(o) \subseteq Holds(o)
  BY <1>0 DEF FormOK, Shown, PicturesOf, Holds
<1> DEFINE keys == Coming(o)  base == Base(o)
<1>6. /\ keys = (IF o.batch = Blank THEN {} ELSE o.batch.keys)
      /\ base = (IF o.batch = Blank THEN {} ELSE o.batch.base)
      /\ o.batch \in Batch \cup {Blank} /\ o.heroBusy \in BOOLEAN
  BY <1>0 DEF Coming, Base, Editor
<1>7. CASE PickHero(e)
  <2>1. Edits(e, With(o.shown, TRUE, o.batch)) /\ OnlyForm
    BY <1>0, <1>7 DEF PickHero, Edits, With, HomeInv, HomeType, Editor
  <2>2. Uploads /\ UNCHANGED <<profile, writes, shownOnce, leftBehind, secondHand>>
    BY <2>1 DEF OnlyForm, Uploads
  <2>3. PicturesOf(o.shown) = Shown(o)
    BY DEF Shown
  <2> QED
    BY <1>1, <1>4, <1>5, <1>6, <2>1, <2>2, <2>3
<1>8. CASE RemoveHero(e)
  <2> DEFINE p == [o.shown EXCEPT !.hero = Blank]
  <2>1. Edits(e, With(p, o.heroBusy, o.batch)) /\ OnlyForm
    BY <1>0, <1>8 DEF RemoveHero, Edits, With, HomeInv, HomeType, Editor
  <2>2. p \in Picture /\ PicturesOf(p) = o.shown.gallery
    BY <1>1 DEF Picture, PicturesOf
  <2> HIDE DEF p
  <2> QED
    BY <1>1, <1>4, <1>5, <1>6, <2>1, <2>2 DEF OnlyForm, Uploads
<1>9. CASE RemovePicture(e)
  <2>1. PICK k \in o.shown.gallery :
          editors' = [editors EXCEPT ![e].shown.gallery = o.shown.gallery \ {k}]
    BY <1>0, <1>9 DEF RemovePicture, HomeInv, HomeType
  <2> DEFINE p == [o.shown EXCEPT !.gallery = o.shown.gallery \ {k}]
  <2>2. Edits(e, With(p, o.heroBusy, o.batch)) /\ OnlyForm
    BY <1>0, <1>9, <2>1 DEF RemovePicture, Edits, With, HomeInv, HomeType, Editor
  <2>3. p \in Picture /\ PicturesOf(p) \subseteq Shown(o)
    BY <1>1, <1>5 DEF Picture, PicturesOf
  <2>4. Uploads /\ UNCHANGED <<profile, writes, shownOnce, leftBehind, secondHand>>
    BY <2>2 DEF OnlyForm, Uploads
  <2> HIDE DEF p
  <2> QED
    BY <1>1, <1>4, <1>5, <1>6, <2>2, <2>3, <2>4
<1>10. CASE HeroArrives(e)
  <2> DEFINE p == [o.shown EXCEPT !.hero = NewKey]
  <2>1. Edits(e, With(p, FALSE, o.batch)) /\ Stored /\ OnlyUpload
    BY <1>0, <1>10 DEF HeroArrives, Edits, With, HomeInv, HomeType, Editor
  <2>2. p \in Picture /\ PicturesOf(p) \subseteq o.shown.gallery \cup {NewKey}
    BY <1>0, <1>1 DEF Picture, PicturesOf
  <2>3. Uploads /\ UNCHANGED <<profile, writes, shownOnce, leftBehind, secondHand>>
        /\ files' \ files = {NewKey}
    BY <1>0, <2>1 DEF OnlyUpload, Uploads, Stored
  <2>4. /\ PicturesOf(p) \subseteq Shown(o) \cup {NewKey}
        /\ keys \cap PicturesOf(p) = {}
    BY <1>0, <1>2, <1>5, <2>2
  <2>5. /\ PicturesOf(p) \subseteq Shown(o) \cup (files' \ files)
        /\ PicturesOf(p) \cup base \cup keys \subseteq Holds(o) \cup (files' \ files)
        /\ secondHand \subseteq secondHand'
    BY <1>5, <2>3, <2>4
  <2> HIDE DEF p
  <2> QED
    BY <1>4, <1>6, <2>1, <2>2, <2>3, <2>4, <2>5
<1>11. CASE UploadFails(e)
  <2>1. \/ Edits(e, With(o.shown, FALSE, o.batch))
        \/ Edits(e, With(o.shown, o.heroBusy, Blank))
    BY <1>0, <1>11 DEF UploadFails, Edits, With, HomeInv, HomeType, Editor
  <2>2. Uploads /\ UNCHANGED <<profile, writes, shownOnce, leftBehind, secondHand>>
    BY <1>11 DEF UploadFails, OnlyUpload, Uploads, Stored
  <2>3. PicturesOf(o.shown) = Shown(o)
    BY DEF Shown
  <2>4. CASE Edits(e, With(o.shown, FALSE, o.batch))
    BY <1>1, <1>4, <1>5, <1>6, <2>2, <2>3, <2>4
  <2>5. CASE Edits(e, With(o.shown, o.heroBusy, Blank))
    BY <1>1, <1>4, <1>5, <1>6, <2>2, <2>3, <2>5
  <2> QED
    BY <2>1, <2>4, <2>5
<1>12. CASE PickGallery(e)
  <2>1. o.batch = Blank /\ OnlyForm
    BY <1>12 DEF PickGallery
  <2>2. PICK n \in 1..MaxGallery - Cardinality(o.shown.gallery) :
          editors' = [editors EXCEPT ![e].batch =
                        [base |-> o.shown.gallery, keys |-> {}, left |-> n]]
    BY <1>12 DEF PickGallery
  <2>3. n \in Nat
    <3>1. o.shown.gallery \subseteq 1..made
      BY <1>2, <1>5, <1>1 DEF Picture
    <3>2. IsFiniteSet(1..made)
      BY <1>0, FS_Interval
    <3>3. Cardinality(o.shown.gallery) \in Nat
      BY <3>1, <3>2, FS_Subset, FS_CardinalityType
    <3> QED
      BY <3>3, HomepageAssumption DEF HomepageAssumption
  <2> DEFINE batch == [base |-> o.shown.gallery, keys |-> {}, left |-> n]
  <2>4. Edits(e, With(o.shown, o.heroBusy, batch))
    BY <1>0, <2>2 DEF Edits, With, HomeInv, HomeType, Editor
  <2>5. /\ batch \in Batch /\ batch.base = o.shown.gallery /\ batch.keys = {}
        /\ batch # Blank
    BY <1>1, <1>2, <2>3 DEF Batch
  <2>6. Uploads /\ UNCHANGED <<profile, writes, shownOnce, leftBehind, secondHand>>
    BY <2>1 DEF OnlyForm, Uploads
  <2>7. PicturesOf(o.shown) = Shown(o)
    BY DEF Shown
  <2> HIDE DEF batch
  <2> QED
    BY <1>1, <1>4, <1>5, <1>6, <2>4, <2>5, <2>6, <2>7
<1>13. CASE NextOfBatch(e)
  <2> DEFINE batch == [o.batch EXCEPT !.keys = keys \cup {NewKey}, !.left = o.batch.left - 1]
  <2>1. o.batch # Blank /\ o.batch.left > 0 /\ Stored /\ OnlyUpload
    BY <1>13 DEF NextOfBatch
  <2>2. Edits(e, With(o.shown, o.heroBusy, batch))
    BY <1>0, <1>6, <1>13, <2>1 DEF NextOfBatch, Edits, With, HomeInv, HomeType, Editor
  <2>3. keys \subseteq Nat
    BY <1>2, <1>5
  <2>4. /\ batch \in Batch /\ batch # Blank
        /\ batch.base = base /\ batch.keys = keys \cup {NewKey}
    <3> DEFINE b == o.batch
    <3>1. /\ b \in Batch /\ base = b.base /\ b.left > 0
          /\ keys \cup {NewKey} \in SUBSET Nat
      BY <1>0, <1>6, <2>1, <2>3
    <3>a. /\ b.left - 1 \in Nat /\ b.base \in SUBSET Nat
          /\ b = [base |-> b.base, keys |-> b.keys, left |-> b.left]
      BY <3>1 DEF Batch
    <3>2. batch = [b EXCEPT !.keys = keys \cup {NewKey}, !.left = b.left - 1]
      OBVIOUS
    <3> HIDE DEF b, batch, keys, base
    <3>3. batch \in Batch /\ batch.base = b.base /\ batch.keys = keys \cup {NewKey}
      BY <3>1, <3>a, <3>2 DEF Batch
    <3> QED
      BY <1>1, <3>1, <3>3
  <2>5. Uploads /\ UNCHANGED <<profile, writes, shownOnce, leftBehind, secondHand>>
        /\ files' \ files = {NewKey}
    BY <1>0, <2>1 DEF OnlyUpload, Uploads, Stored
  <2>6. PicturesOf(o.shown) = Shown(o) /\ NewKey \notin Shown(o)
    BY <1>0, <1>2, <1>5 DEF Shown
  <2> HIDE DEF batch
  <2> QED
    BY <1>1, <1>4, <1>5, <1>6, <2>2, <2>4, <2>5, <2>6
<1>14. CASE BatchDone(e)
  <2> DEFINE p == [o.shown EXCEPT !.gallery = base \cup keys]
  <2>1. o.batch # Blank /\ UNCHANGED <<files, made, profile, writes, shownOnce, leftBehind>>
        /\ secondHand' = secondHand \cup (base \ o.shown.gallery)
    BY <1>6, <1>14 DEF BatchDone
  <2>2. Edits(e, With(p, o.heroBusy, Blank))
    BY <1>0, <1>6, <1>14, <2>1 DEF BatchDone, Edits, With, HomeInv, HomeType, Editor
  <2>3. p \in Picture /\ PicturesOf(p) \subseteq base \cup keys \cup Shown(o)
    <3>1. base \cup keys \subseteq Nat
      BY <1>2, <1>5
    <3> QED
      BY <1>1, <1>5, <3>1 DEF Picture, PicturesOf
  <2>4. Uploads
    BY <2>1 DEF Uploads
  <2> HIDE DEF p
  <2> QED
    BY <1>1, <1>4, <1>5, <1>6, <2>1, <2>2, <2>3, <2>4
<1> QED
  BY <1>7, <1>8, <1>9, <1>10, <1>11, <1>12, <1>13, <1>14
-----------------------------------------------------------------------------
(* A row and a form, as pictures.                                          *)
LEMMA RowShown ==
  ASSUME HomeType
  PROVE  /\ RowOr(profile) \in Picture /\ NoPictures \in Picture
         /\ PicturesOf(NoPictures) = {}
         /\ \A p \in Picture : RowOr(p) = p
<1>1. NoPictures \in Picture /\ PicturesOf(NoPictures) = {}
  BY DEF NoPictures, Picture, PicturesOf
<1>2. \A p \in Picture : RowOr(p) = p
  BY HomepageAssumption DEF RowOr, HomepageAssumption
<1> QED
  BY <1>1, <1>2 DEF HomeType, RowOr

(* The page is loaded, a save begins, reads, or fails.                     *)
LEMMA CallsKept ==
  ASSUME HomeInv, NEW e \in Editors, Load(e) \/ Submit(e) \/ SaveReads(e) \/ SaveFails(e)
  PROVE  HomeInv'
<1> DEFINE o == editors[e]
<1>0. /\ o \in Editor /\ FormOK(o) /\ HomeType /\ shownOnce \subseteq 1..made
      /\ Published \subseteq Safe /\ Published \subseteq shownOnce
  BY DEF HomeInv, HomeType
<1>1. /\ o.shown \in Picture /\ o.asOf \in Nat /\ o.heroBusy \in BOOLEAN
      /\ o.batch \in Batch \cup {Blank} /\ (o.save # Blank => o.save \in Save)
      /\ Blank \notin Save /\ writes \in Nat
  BY <1>0, HomepageAssumption DEF Editor, HomepageAssumption, HomeType
<1>2. /\ Uploads /\ UNCHANGED <<profile, writes, shownOnce, leftBehind>>
      /\ secondHand' = secondHand /\ files' = files
  BY DEF Load, Submit, SaveReads, SaveFails, OnlyForm, Uploads
<1>3. CASE Load(e)
  <2> DEFINE x == Form(profile, writes)
  <2>1. o.save = Blank /\ Edits(e, x)
    BY <1>3 DEF Load, Edits
  <2>2. /\ x.shown = RowOr(profile) /\ x.asOf = writes /\ x.batch = Blank /\ x.save = Blank
        /\ x \in Editor
    BY <1>0, <1>1, RowShown DEF Form, Editor
  <2> HIDE DEF x
  <2>3. /\ Shown(x) = Published /\ Base(x) = {} /\ Coming(x) = {} /\ Values(x) = {}
        /\ Gone(x) = {} /\ ~ Unsaved(x) /\ Holds(x) = Published /\ Gone(o) = {}
    BY <2>1, <2>2 DEF Shown, Published, Base, Coming, Values, Gone, Unsaved, Written, Holds
  <2>4. /\ Holds(x) \subseteq Holds(o) \cup shownOnce \cup (files' \ files)
        /\ Shown(x) \cup Values(x) \subseteq Safe /\ x.asOf <= writes
        /\ Coming(x) \subseteq files' \ shownOnce /\ Coming(x) \cap (Shown(x) \cup Values(x)) = {}
    BY <1>0, <1>1, <2>2, <2>3
  <2> HIDE DEF o
  <2> QED
    BY <1>2, <2>1, <2>2, <2>3, <2>4, FormKeeps DEF o
<1> DEFINE Saving(s) == [o EXCEPT !.save = s]
<1>4. ASSUME NEW s \in Save \cup {Blank}, Edits(e, Saving(s)),
             s # Blank => /\ PicturesOf(s.prev) \subseteq shownOnce
                          /\ PicturesOf(s.values) \subseteq Shown(o) \cup Values(o)
                          /\ Shown(o) \ PicturesOf(s.values) \subseteq secondHand \cup Unseen
                          /\ s.step \in {"asked", "read"},
             ~ Written(o)
      PROVE  HomeInv'
  <2> DEFINE x == Saving(s)
  <2>1. /\ x \in Editor /\ x.shown = o.shown /\ x.asOf = o.asOf /\ x.batch = o.batch
        /\ x.save = s
    BY <1>0, <1>4 DEF Editor
  <2>2. Edits(e, x)
    BY <1>4
  <2> HIDE DEF x, Saving
  <2>3. /\ Shown(x) = Shown(o) /\ Base(x) = Base(o) /\ Coming(x) = Coming(o)
        /\ Unsaved(x) => Values(x) = PicturesOf(s.values) /\ s # Blank
        /\ ~ Unsaved(x) => Values(x) = {}
        /\ Gone(x) = {} /\ Gone(o) = {}
    BY <1>4, <2>1 DEF Shown, Base, Coming, Values, Unsaved, Gone, Written
  <2>4. Values(x) \subseteq Shown(o) \cup Values(o)
    BY <1>4, <2>3
  <2>5. Holds(x) \subseteq Holds(o)
    BY <2>3, <2>4 DEF Holds
  <2>6. /\ Coming(x) \subseteq files' \ shownOnce /\ Coming(x) \cap (Shown(x) \cup Values(x)) = {}
        /\ x.asOf <= writes
        /\ x.asOf = writes => Shown(x) \cup Values(x) \subseteq Safe
    BY <1>0, <1>2, <2>1, <2>3, <2>4 DEF FormOK, Unseen
  <2>7. Unsaved(x) => Shown(x) \ Values(x) \subseteq secondHand' \cup (files' \ shownOnce)
    BY <1>2, <1>4, <2>3 DEF Unseen
  <2> HIDE DEF o
  <2> QED
    BY <1>2, <1>4, <2>1, <2>2, <2>3, <2>5, <2>6, <2>7, FormKeeps DEF o
<1> HIDE DEF Saving
<1>5. CASE Submit(e)
  <2> DEFINE s == [step |-> "asked", values |-> o.shown, prev |-> NoPictures]
  <2>1. Edits(e, Saving(s)) /\ ~ Written(o)
    BY <1>0, <1>5 DEF Submit, Edits, Saving, Written, HomeType
  <2>2. /\ s \in Save /\ s.step = "asked" /\ PicturesOf(s.values) = Shown(o)
        /\ PicturesOf(s.prev) = {}
    BY <1>0, <1>1, RowShown DEF Save, Shown
  <2> HIDE DEF s
  <2> QED
    BY <1>4, <2>1, <2>2
<1>6. CASE SaveReads(e)
  <2> DEFINE s == [o.save EXCEPT !.step = "read", !.prev = RowOr(profile)]
  <2>1. o.save # Blank /\ o.save.step = "asked" /\ o.save \in Save
    BY <1>1, <1>6 DEF SaveReads
  <2>2. Edits(e, Saving(s)) /\ ~ Written(o)
    BY <1>0, <1>6, <2>1 DEF SaveReads, Edits, Saving, Written, HomeType, Editor
  <2>3. /\ s \in Save /\ s.step = "read" /\ s.values = o.save.values
        /\ PicturesOf(s.prev) = Published
    BY <1>0, <2>1, RowShown DEF Save, Published
  <2>4. Unsaved(o) /\ Values(o) = PicturesOf(s.values)
    BY <2>1, <2>3 DEF Unsaved, Values
  <2> HIDE DEF s
  <2> QED
    BY <1>0, <1>4, <2>2, <2>3, <2>4 DEF FormOK
<1>7. CASE SaveFails(e)
  <2>1. Edits(e, Saving(Blank)) /\ ~ Written(o)
    BY <1>0, <1>7 DEF SaveFails, Edits, Saving, Written, HomeType
  <2> QED
    BY <1>4, <2>1
<1> QED
  BY <1>3, <1>5, <1>6, <1>7

(* A save reaches the row: only now its pictures are published.            *)
LEMMA SaveWritesKept ==
  ASSUME HomeInv, NEW e \in Editors, SaveWrites(e)
  PROVE  HomeInv'
<1> DEFINE o == editors[e]  s == o.save  P == PicturesOf(s.values)  x == editors'[e]
<1>0. /\ o \in Editor /\ FormOK(o) /\ HomeType /\ shownOnce \subseteq 1..made
      /\ Published \subseteq Safe /\ Published \subseteq shownOnce
      /\ Pending \subseteq shownOnce
  BY GoneIsOld DEF HomeInv, HomeType
<1>1. s # Blank /\ s.step = "read" /\ s \in Save /\ writes \in Nat
  BY <1>0 DEF SaveWrites, Editor, HomeType
<1>2. /\ editors' \in [Editors -> Editor] /\ x \in Editor
      /\ \A f \in Editors \ {e} : editors'[f] = editors[f]
      /\ x.shown = o.shown /\ x.batch = o.batch /\ x.asOf = writes + 1
      /\ x.save = [s EXCEPT !.step = "written"]
  <2> DEFINE t == [s EXCEPT !.step = "written"]
             y == [o EXCEPT !.save = t, !.asOf = writes + 1]
  <2>1. editors' = [editors EXCEPT ![e] = y]
    BY <1>0, <1>1 DEF SaveWrites, HomeType, Editor
  <2>2. t \in Save \cup {Blank} /\ writes + 1 \in Nat
    BY <1>1 DEF Save
  <2> HIDE DEF t, s, o
  <2>3. /\ y \in Editor /\ y.shown = o.shown /\ y.batch = o.batch /\ y.asOf = writes + 1
        /\ y.save = t
    BY <1>0, <2>2 DEF Editor
  <2> HIDE DEF y
  <2> QED
    BY <1>0, <2>1, <2>3 DEF HomeType, t
<1>3. /\ x.save # Blank /\ x.save.step = "written" /\ x.save.values = s.values
      /\ x.save.prev = s.prev
  BY <1>1, <1>2, HomepageAssumption DEF Save, HomepageAssumption, Editor
<1>4. /\ profile' = s.values /\ s.values \in Picture /\ writes' = writes + 1
      /\ shownOnce' = shownOnce \cup P /\ files' = files /\ made' = made
      /\ secondHand' = secondHand \cup (IF o.asOf = writes THEN {} ELSE P)
      /\ leftBehind' = leftBehind \cup (IF s.prev = RowOr(profile) THEN {} ELSE Published)
      /\ Published' = P
  BY <1>0, <1>1, RowShown DEF SaveWrites, Save, Published, RowOr
<1>5. /\ Shown(x) = Shown(o) /\ Base(x) = Base(o) /\ Coming(x) = Coming(o)
      /\ Values(x) = {} /\ ~ Unsaved(x) /\ Values(o) = P /\ Unsaved(o)
      /\ Gone(o) = {} /\ Gone(x) = PicturesOf(s.prev) \ P /\ PicturesOf(s.prev) \subseteq shownOnce
  <2>1. Unreferenced(x.save) = PicturesOf(s.prev) \ P
    BY <1>3 DEF Unreferenced, Keep
  <2>2. PicturesOf(s.prev) \subseteq shownOnce
    BY <1>0, <1>1 DEF FormOK
  <2> QED
    BY <1>1, <1>2, <1>3, <2>1, <2>2
       DEF Shown, Base, Coming, Values, Unsaved, Gone, Written
<1> HIDE DEF P, x, s
<1>6. \A f \in Editors : FormOK(editors[f])
  BY DEF HomeInv
<1>7. /\ Pending' \subseteq shownOnce /\ Pending \subseteq Pending' /\ Gone(x) \subseteq Pending'
      /\ Pending' \subseteq Pending \cup Gone(x)
  <2>1. \A f \in Editors : Gone(editors'[f]) = IF f = e THEN Gone(x) ELSE Gone(editors[f])
    BY <1>2 DEF x
  <2>2. Pending' = UNION {Gone(editors'[f]) : f \in Editors}
    BY DEF Pending, Gone, Written
  <2> QED
    BY <1>0, <1>5, <2>1, <2>2 DEF Pending
<1>8. /\ P \subseteq 1..made /\ HomeType'
  <2>1. P \subseteq 1..made
    BY <1>0, <1>5 DEF FormOK, Holds
  <2> QED
    BY <1>0, <1>1, <1>2, <1>4, <2>1 DEF HomeType
<1>9. P \subseteq Safe'
  <2>1. CASE o.asOf = writes
    <3>1. P \subseteq (files \ Pending) \cup secondHand
      BY <1>0, <1>5, <2>1 DEF FormOK, Safe
    <3> QED
      BY <1>4, <1>5, <1>7, <3>1 DEF Safe
  <2>2. CASE o.asOf # writes
    BY <1>4, <2>2 DEF Safe
  <2> QED
    BY <2>1, <2>2
<1>10. ASSUME NEW f \in Editors PROVE Coming(editors[f]) \cap P = {}
  <2>1. Coming(editors[f]) \cap shownOnce = {}
    BY <1>6 DEF FormOK, Unseen
  <2>2. CASE f = e
    BY <1>0, <1>5, <2>2 DEF FormOK
  <2>3. CASE f # e
    <3>1. Holds(editors[f]) \cap Holds(o) \subseteq shownOnce
      BY <2>3 DEF HomeInv, OneForm
    <3> QED
      BY <1>5, <2>1, <3>1 DEF Holds
  <2> QED
    BY <2>2, <2>3
<1>11. Unseen' = Unseen \ P
  BY <1>4 DEF Unseen
<1>12. ASSUME NEW f \in Editors \ {e} PROVE FormOK(editors[f])'
  <2> DEFINE y == editors[f]
  <2>1. FormOK(y) /\ editors'[f] = y /\ y.asOf \in Nat
    BY <1>0, <1>2, <1>6 DEF HomeType, Editor
  <2>2. Holds(y) \cap P \subseteq shownOnce
    <3>1. Holds(y) \cap Holds(o) \subseteq shownOnce
      BY DEF HomeInv, OneForm
    <3> QED
      BY <1>5, <3>1 DEF Holds
  <2>3. Coming(y) \subseteq Unseen \ P /\ y.asOf <= writes + 1 /\ y.asOf # writes + 1
    BY <1>1, <1>10, <2>1 DEF FormOK
  <2>4. Unsaved(y) => Shown(y) \ Values(y) \subseteq secondHand' \cup (Unseen \ P)
    <3>1. SUFFICES ASSUME Unsaved(y), NEW k \in Shown(y) \ Values(y), k \notin secondHand
                   PROVE  k \in Unseen \ P
      BY <1>4
    <3>2. k \in Unseen /\ k \in Holds(y)
      BY <2>1, <3>1 DEF FormOK, Holds
    <3> QED
      BY <2>2, <3>2 DEF Unseen
  <2> HIDE DEF y
  <2> QED
    BY <1>4, <1>11, <2>1, <2>3, <2>4 DEF FormOK
<1>13. Holds(x) \subseteq Holds(o) /\ editors'[e] = x
  BY <1>5 DEF Holds, x
<1>14. FormOK(editors[e])'
  <2>1. Holds(x) \subseteq 1..made /\ Coming(x) \subseteq Unseen \ P
        /\ Coming(x) \cap (Shown(x) \cup Values(x)) = {}
    BY <1>0, <1>5, <1>10, <1>13 DEF FormOK
  <2>2. Shown(x) \subseteq Safe'
    <3>1. SUFFICES ASSUME NEW k \in Shown(o), k \notin P, k \notin secondHand PROVE k \in Safe'
      BY <1>4, <1>5, <1>9 DEF Safe
    <3>2. k \in files \ shownOnce
      BY <1>0, <1>5, <3>1 DEF FormOK, Unseen
    <3> QED
      BY <1>4, <1>7, <3>2 DEF Safe
  <2>3. x.save # Blank => PicturesOf(x.save.prev) \subseteq shownOnce'
    BY <1>3, <1>4, <1>5
  <2>4. /\ x.asOf = writes' /\ x.asOf <= writes' /\ Values(x) = {} /\ ~ Unsaved(x)
        /\ made' = made /\ Unseen' = Unseen \ P /\ editors'[e] = x
    BY <1>1, <1>2, <1>4, <1>5, <1>11, <1>13
  <2> QED
    BY <2>1, <2>2, <2>3, <2>4 DEF FormOK
<1>15. OneForm'
  <2>1. \A f \in Editors \ {e} : Holds(x) \cap Holds(editors[f]) \subseteq shownOnce
    BY <1>13 DEF HomeInv, OneForm
  <2> QED
    BY <1>2, <1>4, <1>13, <2>1 DEF HomeInv, OneForm
<1>16. Noted'
  <2> SUFFICES ASSUME NEW k \in (shownOnce' \cap files') \ P PROVE k \in leftBehind' \cup Pending'
    BY <1>4 DEF Noted
  <2>1. k \in shownOnce \cap files
    BY <1>4
  <2>2. CASE k \in Published
    <3>1. CASE s.prev = RowOr(profile)
      <4>1. k \in Gone(x)
        BY <1>5, <2>2, <3>1 DEF Published
      <4> QED
        BY <1>7, <4>1
    <3>2. CASE s.prev # RowOr(profile)
      BY <1>4, <2>2, <3>2
    <3> QED
      BY <3>1, <3>2
  <2>3. CASE k \notin Published
    BY <1>4, <1>7, <2>1, <2>3 DEF HomeInv, Noted
  <2> QED
    BY <2>2, <2>3
<1> QED
  BY <1>4, <1>8, <1>9, <1>12, <1>14, <1>15, <1>16 DEF HomeInv

(* Its files are deleted, but for one that could not be.                   *)
LEMMA SaveDeletesKept ==
  ASSUME HomeInv, NEW e \in Editors, SaveDeletes(e)
  PROVE  HomeInv'
<1> DEFINE o == editors[e]  s == o.save  x == [o EXCEPT !.save = Blank]
<1>0. /\ o \in Editor /\ FormOK(o) /\ HomeType /\ Pending \subseteq shownOnce
      /\ \A f \in Editors : FormOK(editors[f])
  BY GoneIsOld DEF HomeInv, HomeType
<1>1. /\ s # Blank /\ s.step = "written" /\ editors' = [editors EXCEPT ![e] = x]
      /\ UNCHANGED <<fields, made, profile, writes, shownOnce, secondHand>>
  BY <1>0 DEF SaveDeletes, HomeType
<1>2. PICK gone \in SUBSET Unreferenced(s) :
        /\ files' = files \ gone
        /\ leftBehind' = leftBehind \cup (Unreferenced(s) \ gone)
  BY DEF SaveDeletes
<1>3. /\ x \in Editor /\ x.shown = o.shown /\ x.batch = o.batch /\ x.asOf = o.asOf
      /\ x.save = Blank
  BY <1>0 DEF Editor
<1>4. Gone(o) = Unreferenced(s) /\ ~ Unsaved(o)
  BY <1>1 DEF Gone, Written, Unsaved
<1> HIDE DEF x, s
<1>5. /\ Shown(x) = Shown(o) /\ Holds(x) = Holds(o) /\ Coming(x) = Coming(o)
      /\ Values(x) = Values(o) /\ ~ Unsaved(x) /\ Gone(x) = {}
  BY <1>3, <1>4 DEF Shown, Holds, Base, Coming, Values, Unsaved, Gone, Written
<1>6. /\ editors' \in [Editors -> Editor] /\ editors'[e] = x
      /\ \A f \in Editors \ {e} : editors'[f] = editors[f]
  BY <1>0, <1>1, <1>3 DEF HomeType
<1>7. Pending \subseteq Pending' \cup Gone(o) /\ Pending' \subseteq Pending /\ Gone(o) \subseteq Pending
  <2>1. Pending' = UNION {Gone(editors'[f]) : f \in Editors}
    BY DEF Pending, Gone, Written
  <2>2. \A f \in Editors : Gone(editors'[f]) = IF f = e THEN {} ELSE Gone(editors[f])
    BY <1>5, <1>6
  <2> QED
    BY <2>1, <2>2 DEF Pending
<1>8. Safe \subseteq Safe' /\ Unseen' = Unseen
  BY <1>0, <1>1, <1>2, <1>4, <1>7 DEF Safe, Unseen
<1>9. HomeType'
  BY <1>0, <1>1, <1>2, <1>6 DEF HomeType
<1>10. ASSUME NEW f \in Editors \ {e} PROVE FormOK(editors[f])'
  <2> DEFINE y == editors[f]
  <2>1. FormOK(y) /\ editors'[f] = y
    BY <1>0, <1>6
  <2> HIDE DEF y
  <2> QED
    BY <1>1, <1>8, <2>1 DEF FormOK
<1>11. FormOK(editors[e])'
  BY <1>0, <1>1, <1>3, <1>5, <1>6, <1>8 DEF FormOK
<1>12. OneForm'
  BY <1>1, <1>5, <1>6 DEF HomeInv, OneForm
<1>13. Noted' /\ Published' = Published
  BY <1>1, <1>2, <1>4, <1>7 DEF HomeInv, Noted, Published
<1> QED
  BY <1>1, <1>8, <1>9, <1>10, <1>11, <1>12, <1>13 DEF HomeInv

-----------------------------------------------------------------------------
LEMMA HomeStart == HomepageInit => HomeInv
<1> SUFFICES ASSUME HomepageInit PROVE HomeInv
  OBVIOUS
<1> DEFINE x == Form(profile, 0)
<1>1. /\ profile \in Picture \cup {Blank} /\ PicturesOf(RowOr(profile)) = files /\ files = 1..made
      /\ made \in {0, 1} /\ writes = 0 /\ shownOnce = files
  <2>1. CASE made = 0
    <3>1. RowOr(profile) = NoPictures /\ files = {}
      BY <2>1 DEF HomepageInit, RowOr
    <3> QED
      BY <2>1, <3>1 DEF HomepageInit, NoPictures, PicturesOf
  <2>2. CASE made = 1
    <3> DEFINE p == [hero |-> Blank, gallery |-> {1}]
    <3>1. p \in Picture /\ PicturesOf(p) = {1} /\ profile = p /\ files = {1}
      BY <2>2 DEF HomepageInit, Picture, PicturesOf
    <3> HIDE DEF p
    <3>2. RowOr(profile) = p
      BY <3>1, HomepageAssumption DEF RowOr, HomepageAssumption
    <3> QED
      BY <2>2, <3>1, <3>2 DEF HomepageInit
  <2> QED
    BY <2>1, <2>2 DEF HomepageInit
<1>2. RowOr(profile) \in Picture
  BY <1>1 DEF RowOr, NoPictures, Picture
<1>3. /\ x \in Editor /\ x.shown = RowOr(profile) /\ x.batch = Blank /\ x.asOf = 0 /\ x.save = Blank
      /\ \A e \in Editors : editors[e] = x
  BY <1>2 DEF HomepageInit, Form, Editor
<1>4. HomeType
  <2>1. editors \in [Editors -> Editor]
    BY <1>3 DEF HomepageInit
  <2> QED
    BY <1>1, <2>1 DEF HomeType
<1> HIDE DEF x
<1>5. /\ Shown(x) = files /\ Base(x) = {} /\ Coming(x) = {} /\ Values(x) = {}
      /\ ~ Unsaved(x) /\ Gone(x) = {} /\ Holds(x) = files
  BY <1>1, <1>3 DEF Shown, Base, Coming, Values, Unsaved, Gone, Written, Holds
<1>6. Pending = {}
  BY <1>3, <1>5 DEF Pending
<1>7. FormOK(x)
  BY <1>1, <1>3, <1>5, <1>6 DEF FormOK, Safe, Unseen
<1> QED
  BY <1>1, <1>3, <1>4, <1>5, <1>6, <1>7 DEF HomeInv, OneForm, Noted, Published, Safe

(* For any editors, uploads, batches and saves, crossing as they may: what *)
(* the page shows is there, and what it no longer shows is deleted, unless *)
(* one of the exceptions named was met.                                    *)
THEOREM ImagesStay == HomepageSpec => []ImagesKept
<1>1. HomeInv /\ [HomepageNext]_homeVars => HomeInv'
  <2> SUFFICES ASSUME HomeInv, [HomepageNext]_homeVars PROVE HomeInv'
    OBVIOUS
  <2>1. CASE UNCHANGED homeVars
    BY <2>1 DEF homeVars, HomeInv, HomeType, FormOK, OneForm, Noted, Published, Safe, Unseen, Pending
  <2>2. CASE HomepageNext
    BY <2>2, EditsKept, CallsKept, SaveWritesKept, SaveDeletesKept DEF HomepageNext
  <2> QED
    BY <2>1, <2>2
<1>2. HomeInv => ImagesKept
  BY DEF HomeInv, Published, Safe, Noted, Pending, Gone, Written, ImagesKept
<1> QED
  BY <1>1, <1>2, HomeStart, PTL DEF HomepageSpec
=============================================================================
