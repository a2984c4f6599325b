------------------------------ MODULE Accounts ------------------------------
(***************************************************************************)
(* Who may come in: the self-serve sign-up (signup-service.ts), tenants    *)
(* and the status of users (platform-mutation-service.ts), the login with  *)
(* its counter, its lock and its one-time code (login-security.ts), the    *)
(* sessions (session-loader.ts, authorize.ts), the passwords               *)
(* (password-service.ts) and the logins of staff                           *)
(* (merchant-mutation-service.ts).                                         *)
(*                                                                         *)
(* A person is an e-mail address, the unique key of users.  Every process  *)
(* works statement by statement, several at once, and may die or meet an   *)
(* error at each.  Instants are not counted: that a link, a code or a lock *)
(* runs out is an action that may come at any time.                        *)
(***************************************************************************)
EXTENDS Integers, FiniteSets

CONSTANTS
  Emails,      \* people
  Links,       \* sign-up requests and reset tokens that may be made, 1..n
  Workers,     \* requests at work at once
  MaxFailed,   \* MAX_FAILED_LOGINS
  OtpAttempts, \* OTP_MAX_ATTEMPTS
  PerHour,     \* MAX_PER_EMAIL_PER_HOUR
  MaxSessions, \* bound: sessions opened
  MaxMishaps,  \* bound: requests that die or meet an error
  MaxEpoch,    \* bound: times a user is shut out
  Flows,       \* bound: what happens in a history, a set of sets of flows
  Nobody       \* null

VARIABLES
  flows,       \* what happens in this history
  signup,      \* signup_requests by link: [email, state, consumed, tenant]
  user,        \* users: [status, epoch, pwd, failed, locked, otp, tries, owner]
  trials,      \* tenants whose trial is in the ledger
  token,       \* password_reset_tokens by link: [user, state]
  session,     \* sessions opened: [user, epoch]
  task,        \* [pc, about, link, seen] of each request
  mishap,      \* requests that died or met an error
  ended,       \* history: sessions whose user was shut out since
  streak,      \* history: wrong passwords since the last success or lock
  late,        \* history: requests of ended sessions let in all the same,
               \* <<session, whether the row could be read>>
  stale        \* history: people whose counter was written from an old row

avars == <<flows, signup, user, trials, token, session, task, mishap, ended, late, streak,
           stale>>

AccountsAssumption ==
  /\ Links = 1..Cardinality(Links)
  /\ MaxFailed \in Nat \ {0} /\ OtpAttempts \in Nat \ {0} /\ PerHour \in Nat
  /\ MaxSessions \in Nat /\ MaxMishaps \in Nat /\ Nobody \notin Emails

ASSUME AccountsAssumption

NoRequest == [email |-> Nobody, state |-> "none", consumed |-> FALSE, tenant |-> FALSE]
NoToken   == [user |-> Nobody, state |-> "none"]
NoUser    == [status |-> "none", epoch |-> 0, pwd |-> "none", failed |-> 0,
              locked |-> FALSE, otp |-> "none", tries |-> 0, owner |-> FALSE]
IdleTask  == [pc |-> "idle", about |-> Nobody, link |-> 0, seen |-> Nobody]

There(e)  == user[e].status # "none"
Active(e) == user[e].status = "ACTIVE"
At(w, pc) == task[w].pc = pc
Person(w) == task[w].about
Goes(w, pc) == task' = [task EXCEPT ![w].pc = pc]
Does(w, pc, about, link, seen) ==
  task' = [task EXCEPT ![w] = [pc |-> pc, about |-> about, link |-> link, seen |-> seen]]
Done(w) == task' = [task EXCEPT ![w] = IdleTask]
UserUnchanged == UNCHANGED <<user, session, ended, streak, stale>>

-----------------------------------------------------------------------------
(* requestSignup: the limit counts the requests of the last hour; who has  *)
(* an account only gets a notice.                                          *)
Recent(e) == {l \in Links : signup[l].state # "none" /\ signup[l].email = e}
Fresh(rows) == {l \in Links : rows[l].state = "none"}
RequestSignup(w, e) ==
  /\ At(w, "idle") /\ "signup" \in flows
  /\ Cardinality(Recent(e)) < PerHour /\ ~ There(e)
  /\ \E l \in Fresh(signup) :
       /\ \A k \in Fresh(signup) : l <= k
       /\ signup' = [signup EXCEPT ![l] =
            [email |-> e, state |-> "unsent", consumed |-> FALSE, tenant |-> FALSE]]
       /\ Does(w, "mail", e, l, Nobody)
  /\ UserUnchanged
  /\ UNCHANGED <<flows, late, trials, token, mishap>>

(* The mail goes out, or the request is withdrawn.                         *)
MailSignup(w) ==
  /\ At(w, "mail")
  /\ \E sent \in BOOLEAN :
       /\ ~ sent => mishap < MaxMishaps
       /\ mishap' = IF sent THEN mishap ELSE mishap + 1
       /\ signup' = [signup EXCEPT ![task[w].link] =
            IF sent THEN [@ EXCEPT !.state = "sent"] ELSE NoRequest]
  /\ Done(w)
  /\ UserUnchanged
  /\ UNCHANGED <<flows, late, trials, token>>

(* verifySignup: the checks, then the claim that only one opener wins.     *)
VerifySignup(w, l) ==
  /\ At(w, "idle")
  /\ signup[l].state = "sent" /\ ~ signup[l].consumed /\ ~ There(signup[l].email)
  /\ Does(w, "claim", signup[l].email, l, Nobody)
  /\ UserUnchanged
  /\ UNCHANGED <<flows, late, signup, trials, token, mishap>>

(* Mutant: the claim does not look whether another opener has it.          *)
ClaimLinkAnyway(w) ==
  /\ At(w, "claim")
  /\ signup' = [signup EXCEPT ![task[w].link].consumed = TRUE]
  /\ Goes(w, "create")
  /\ UserUnchanged
  /\ UNCHANGED <<flows, late, trials, token, mishap>>

ClaimLink(w) ==
  /\ At(w, "claim")
  /\ IF signup[task[w].link].consumed
       THEN Done(w) /\ UNCHANGED signup
       ELSE /\ signup' = [signup EXCEPT ![task[w].link].consumed = TRUE]
            /\ Goes(w, "create")
  /\ UserUnchanged
  /\ UNCHANGED <<flows, late, trials, token, mishap>>

(* createTenant: tenant, shop, rules, owner and membership in one          *)
(* transaction the unique e-mail may refuse; then, if it can be, the entry *)
(* of the trial.  The owner's password is a throw-away one.                *)
CreateTenant(w) ==
  /\ At(w, "create")
  /\ IF There(Person(w))
       THEN Goes(w, "undo") /\ UNCHANGED <<user, trials>>
       ELSE /\ user' = [user EXCEPT ![Person(w)] =
                 [NoUser EXCEPT !.status = "ACTIVE", !.pwd = "random", !.owner = TRUE]]
            /\ trials' \in {trials, trials \cup {Person(w)}}
            /\ Goes(w, "password")
  /\ UNCHANGED <<flows, late, signup, token, session, mishap, ended, streak, stale>>

(* The password of the form takes its place, and the request gets its      *)
(* tenant.                                                                 *)
SignupPassword(w) ==
  /\ At(w, "password")
  /\ user' = [user EXCEPT ![Person(w)].pwd = "chosen"]
  /\ Goes(w, "link")
  /\ UNCHANGED <<flows, late, signup, trials, token, session, mishap, ended, streak, stale>>

SignupLinked(w) ==
  /\ At(w, "link")
  /\ signup' = [signup EXCEPT ![task[w].link].tenant = TRUE]
  /\ Done(w)
  /\ UserUnchanged
  /\ UNCHANGED <<flows, late, trials, token, mishap>>

(* An error of a statement after the claim: the claim is given back.       *)
SignupFails(w) ==
  /\ task[w].pc \in {"create", "password", "link"}
  /\ mishap < MaxMishaps /\ mishap' = mishap + 1
  /\ Goes(w, "undo")
  /\ UserUnchanged
  /\ UNCHANGED <<flows, late, signup, trials, token>>

SignupUndo(w) ==
  /\ At(w, "undo")
  /\ signup' = [signup EXCEPT ![task[w].link].consumed = @ /\ signup[task[w].link].tenant]
  /\ Done(w)
  /\ UserUnchanged
  /\ UNCHANGED <<flows, late, trials, token, mishap>>

(* A link of either kind runs out.                                         *)
LinkExpires(l) ==
  /\ \/ /\ signup[l].state = "sent"
        /\ signup' = [signup EXCEPT ![l].state = "expired"]
        /\ UNCHANGED token
     \/ /\ token[l].state = "open"
        /\ token' = [token EXCEPT ![l].state = "expired"]
        /\ UNCHANGED signup
  /\ UserUnchanged
  /\ UNCHANGED <<flows, late, trials, task, mishap>>

-----------------------------------------------------------------------------
(* The login.  The row is read once; what follows works on what was read.  *)

SignIn(w, e) ==
  /\ At(w, "idle") /\ "login" \in flows
  /\ Active(e) /\ ~ user[e].locked /\ Cardinality(session) < MaxSessions
  /\ \E pc \in {"wrong", "code", "usecode", "wrongcode"} :
       /\ pc \in {"usecode", "wrongcode"} =>
            user[e].otp \in {"new", "old"} /\ user[e].tries < OtpAttempts
       /\ pc = "wrong" => streak[e] < MaxFailed
       /\ Does(w, pc, e, 0, user[e])
  /\ UserUnchanged
  /\ UNCHANGED <<flows, late, signup, trials, token, mishap>>

(* Two-factor login is off for the installation or for the user.           *)
SignInPlain(w, e) ==
  /\ At(w, "idle") /\ "plain" \in flows
  /\ Active(e) /\ ~ user[e].locked /\ Cardinality(session) < MaxSessions
  /\ Does(w, "success", e, 0, user[e])
  /\ UserUnchanged
  /\ UNCHANGED <<flows, late, signup, trials, token, mishap>>

(* Mutant: locked one wrong password too soon.                             *)
LocksEarly(count) == count + 1 >= MaxFailed

Locks(count) == count >= MaxFailed

(* registerLoginFailure.                                                   *)
WrongPassword(w) ==
  /\ At(w, "wrong")
  /\ LET next == task[w].seen.failed + 1
         e == Person(w) IN
       /\ user' = [user EXCEPT ![e].failed = IF Locks(next) THEN 0 ELSE next,
                               ![e].locked = @ \/ Locks(next)]
       /\ streak' = [streak EXCEPT ![e] = @ + 1]
       /\ stale' = IF task[w].seen.failed = user[e].failed /\ ~ user[e].locked
                   THEN stale ELSE stale \cup {e}
  /\ Done(w)
  /\ UNCHANGED <<flows, late, signup, trials, token, session, mishap, ended>>

(* issueLoginOtp: a code made less than two minutes ago is not replaced.   *)
IssueCode(w) ==
  /\ At(w, "code")
  /\ user' = IF task[w].seen.otp = "new" THEN user
             ELSE [user EXCEPT ![Person(w)].otp = "new", ![Person(w)].tries = 0]
  /\ Done(w)
  /\ UNCHANGED <<flows, late, signup, trials, token, session, mishap, ended, streak, stale>>

WrongCode(w) ==
  /\ At(w, "wrongcode")
  /\ user' = [user EXCEPT ![Person(w)].tries = @ + 1]
  /\ Done(w)
  /\ UNCHANGED <<flows, late, signup, trials, token, session, mishap, ended, streak, stale>>

UseCode(w) ==
  /\ At(w, "usecode")
  /\ user' = [user EXCEPT ![Person(w)].otp = "none", ![Person(w)].tries = 0]
  /\ Goes(w, "success")
  /\ UNCHANGED <<flows, late, signup, trials, token, session, mishap, ended, streak, stale>>

(* registerLoginSuccess, then buildSessionUserById reads the row again.    *)
LoginSuccess(w) ==
  /\ At(w, "success")
  /\ user' = [user EXCEPT ![Person(w)] =
       [@ EXCEPT !.failed = 0, !.locked = FALSE, !.otp = "none", !.tries = 0]]
  /\ streak' = [streak EXCEPT ![Person(w)] = 0]
  /\ Goes(w, "session")
  /\ UNCHANGED <<flows, late, signup, trials, token, session, mishap, ended, stale>>

OpenSession(w) ==
  /\ At(w, "session")
  /\ session' = IF Active(Person(w))
                THEN session \cup {[user |-> Person(w), epoch |-> user[Person(w)].epoch]}
                ELSE session
  /\ Done(w)
  /\ UNCHANGED <<flows, late, signup, user, trials, token, mishap, ended, streak, stale>>

(* A code ages: replaceable after two minutes, void after ten.  A lock     *)
(* ends.                                                                   *)
CodeAges(e) ==
  /\ user[e].otp \in {"new", "old"}
  /\ user' = [user EXCEPT ![e].otp = IF @ = "new" THEN "old" ELSE "void"]
  /\ UNCHANGED <<flows, late, signup, trials, token, session, task, mishap, ended, streak, stale>>

LockEnds(e) ==
  /\ user[e].locked
  /\ user' = [user EXCEPT ![e].locked = FALSE]
  /\ streak' = [streak EXCEPT ![e] = 0]
  /\ UNCHANGED <<flows, late, signup, trials, token, session, task, mishap, ended, stale>>

(* getSessionUser: every request asks the row again, and believes its      *)
(* token when the row cannot be read.                                      *)
Usable(s) == user[s.user].status = "ACTIVE" /\ user[s.user].epoch = s.epoch

Admits(s, readable) == readable => Usable(s)

Ask(s) ==
  /\ "admin" \in flows
  /\ \E readable \in BOOLEAN :
       /\ Admits(s, readable)
       /\ ~ readable => mishap < MaxMishaps
       /\ mishap' = IF readable THEN mishap ELSE mishap + 1
       /\ late' = IF s \in ended THEN late \cup {<<s, readable>>} ELSE late
  /\ UserUnchanged
  /\ UNCHANGED <<flows, signup, trials, token, task>>

-----------------------------------------------------------------------------
(* Users shut out and let in again.                                        *)

(* Mutant: the status is set, the sessions are forgotten.                  *)
ShutNot(row) == row

(* sessionEpoch is moved on.                                               *)
Shut(row) == [row EXCEPT !.epoch = @ + 1]

EndsSessions(e) == ended' = ended \cup {s \in session : s.user = e}

(* setUserStatus SUSPENDED, disableStaffLogin, softDeleteStaff.            *)
Suspend(e) ==
  /\ "admin" \in flows
  /\ There(e) /\ user[e].epoch < MaxEpoch
  /\ user' = [user EXCEPT ![e] = [Shut(@) EXCEPT !.status = "SUSPENDED"]]
  /\ EndsSessions(e)
  /\ UNCHANGED <<flows, late, signup, trials, token, session, task, mishap, streak, stale>>

(* setUserStatus ACTIVE.                                                   *)
Activate(e) ==
  /\ "admin" \in flows
  /\ There(e)
  /\ user' = [user EXCEPT ![e].status = "ACTIVE"]
  /\ UNCHANGED <<flows, late, signup, trials, token, session, task, mishap, ended, streak, stale>>

(* setStaffLogin makes the user of a member of staff or sets its password  *)
(* and status anew; the sessions it has stay.                              *)
SetStaffLogin(e) ==
  /\ "admin" \in flows
  /\ ~ user[e].owner
  /\ user' = [user EXCEPT ![e] =
       [@ EXCEPT !.status = "ACTIVE", !.pwd = "chosen"]]
  /\ UNCHANGED <<flows, late, signup, trials, token, session, task, mishap, ended, streak, stale>>

-----------------------------------------------------------------------------
(* Passwords.                                                              *)

Open(e) == {l \in Links : token[l].user = e /\ token[l].state \in {"open", "expired"}}
Voided(open) ==
  [l \in Links |-> IF l \in open THEN [token[l] EXCEPT !.state = "used"] ELSE token[l]]

(* requestPasswordReset: the links it sees are voided, a new one is made.  *)
RequestReset(w, e) ==
  /\ At(w, "idle") /\ "reset" \in flows
  /\ Active(e) /\ Fresh(token) # {}
  /\ Does(w, "newtoken", e, 0, Open(e))
  /\ UserUnchanged
  /\ UNCHANGED <<flows, late, signup, trials, token, mishap>>

NewToken(w) ==
  /\ At(w, "newtoken")
  /\ \E l \in Fresh(token) :
       /\ \A k \in Fresh(token) : l <= k
       /\ token' = [Voided(task[w].seen) EXCEPT ![l] =
                      [user |-> Person(w), state |-> "open"]]
  /\ Done(w)
  /\ UserUnchanged
  /\ UNCHANGED <<flows, late, signup, trials, mishap>>

(* resetPasswordWithToken: the link is looked at, then password, epoch and *)
(* every open link of the user change together.                            *)
OpenReset(w, l) ==
  /\ At(w, "idle")
  /\ token[l].state = "open"
  /\ Does(w, "reset", token[l].user, l, Nobody)
  /\ UserUnchanged
  /\ UNCHANGED <<flows, late, signup, trials, token, mishap>>

NewPassword(e, pwd) ==
  /\ user[e].epoch < MaxEpoch
  /\ user' = [user EXCEPT ![e] = [Shut(@) EXCEPT !.pwd = pwd]]
  /\ token' = Voided(Open(e))
  /\ EndsSessions(e)

ResetPassword(w) ==
  /\ At(w, "reset")
  /\ NewPassword(Person(w), "chosen")
  /\ Done(w)
  /\ UNCHANGED <<flows, late, signup, trials, session, mishap, streak, stale>>

AdminReset(e) ==
  /\ "admin" \in flows /\ There(e)
  /\ NewPassword(e, "issued")
  /\ UNCHANGED <<flows, late, signup, trials, session, task, mishap, streak, stale>>

(* A process dies between two statements.                                  *)
TaskDies(w) ==
  /\ ~ At(w, "idle")
  /\ mishap < MaxMishaps /\ mishap' = mishap + 1
  /\ Done(w)
  /\ UserUnchanged
  /\ UNCHANGED <<flows, late, signup, trials, token>>

-----------------------------------------------------------------------------
(* A history starts with nobody, or with owners who have an account.       *)
Owner == [NoUser EXCEPT !.status = "ACTIVE", !.pwd = "chosen", !.owner = TRUE]
AccountsInit ==
  /\ flows \in Flows
  /\ signup = [l \in Links |-> NoRequest]
  /\ \/ user = [e \in Emails |-> NoUser]
     \/ "signup" \notin flows /\ user = [e \in Emails |-> Owner]
  /\ trials = {} /\ session = {} /\ ended = {} /\ late = {} /\ mishap = 0
  /\ token = [l \in Links |-> NoToken]
  /\ task = [w \in Workers |-> IdleTask]
  /\ streak = [e \in Emails |-> 0] /\ stale = {}

SignupStep(w) ==
  \/ MailSignup(w) \/ ClaimLink(w) \/ CreateTenant(w) \/ SignupPassword(w)
  \/ SignupLinked(w) \/ SignupFails(w) \/ SignupUndo(w)

LoginStep(w) ==
  \/ WrongPassword(w) \/ IssueCode(w) \/ WrongCode(w) \/ UseCode(w)
  \/ LoginSuccess(w) \/ OpenSession(w)

AccountsNext ==
  \/ \E w \in Workers, e \in Emails :
       RequestSignup(w, e) \/ SignIn(w, e) \/ SignInPlain(w, e) \/ RequestReset(w, e)
  \/ \E w \in Workers, l \in Links : VerifySignup(w, l) \/ OpenReset(w, l)
  \/ \E w \in Workers : SignupStep(w) \/ LoginStep(w) \/ NewToken(w) \/ ResetPassword(w)
                          \/ TaskDies(w)
  \/ \E l \in Links : LinkExpires(l)
  \/ \E e \in Emails : CodeAges(e) \/ LockEnds(e) \/ Suspend(e) \/ Activate(e)
                         \/ SetStaffLogin(e) \/ AdminReset(e)
  \/ \E s \in session : Ask(s)

AccountsSpec == AccountsInit /\ [][AccountsNext]_avars
-----------------------------------------------------------------------------
(* However often and by however many a sign-up link is opened, and however *)
(* many requests one address has open: a request with a tenant is consumed *)
(* for good, a tenant belongs to one request, and as long as nothing       *)
(* failed or died a consumed request ends in a tenant whose owner's        *)
(* password is not the throw-away one.                                     *)
SignupWhole ==
  /\ \A l \in Links : signup[l].tenant => signup[l].consumed
  /\ \A k, l \in Links :
       signup[k].tenant /\ signup[l].tenant /\ signup[k].email = signup[l].email => k = l
  /\ \A l \in Links :
       mishap = 0 /\ signup[l].consumed /\ (\A w \in Workers : task[w].link # l) =>
         signup[l].tenant /\ user[signup[l].email].pwd # "random"

(* Who was suspended, or whose password was reset, is logged out at once   *)
(* and everywhere, and no later activation brings a session back: no       *)
(* request of it is let in again, except one that came while the database  *)
(* could not be asked.                                                     *)
EndedStayEnded == \A s \in ended : ~ Usable(s) /\ <<s, TRUE>> \notin late

(* The lock comes with the wrong password that makes the number full, not  *)
(* earlier and not later: two requests that count at once, each from the   *)
(* row it read, are the one exception.                                     *)
LockedAfterEnough ==
  \A e \in Emails \ stale : user[e].locked <=> streak[e] >= MaxFailed

=============================================================================
