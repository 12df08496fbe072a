-------------------------------- MODULE Access --------------------------------
(***************************************************************************)
(* One user's way in: the password step, the forced password change, the   *)
(* enrolment of an authenticator, its verification, the sessions, and what *)
(* an administrator does to the account meanwhile (routes/login.py,        *)
(* twofa.py, user.py, admin_users.py and the services under them, with     *)
(* pages/Login.tsx and SecuritySettings.tsx on the other side).            *)
(*                                                                         *)
(* Every handler runs on the event loop without an await, so two handlers  *)
(* do not interleave; but each is a list of statements that commit one by  *)
(* one, and any of them may fail.  A handler is therefore the sequence of  *)
(* database states its statements leave (`commits'), and a request that    *)
(* goes wrong keeps a prefix of it.                                        *)
(*                                                                         *)
(* All statements are keyed by the user's id: one user stands for all.     *)
(* Devices are browsers (a browser shares its cookie between its tabs).    *)
(* Pre-authentication tokens are random, so the row of a token no page     *)
(* holds can never be named again: pre[d] is the row of the token that     *)
(* device d holds.  The rate limiter, the event log and the 30 days of a   *)
(* session are left out.                                                   *)
(***************************************************************************)
EXTENDS Naturals, Sequences, FiniteSets, SequencesExt

CONSTANTS Devices,      \* browsers of the user
          Secrets,      \* authenticator secrets: a finite pool, reused once nobody holds one
          None,         \* no row, no value
          Lost,         \* owner of a session whose token reached nobody
          MaxFailures,  \* max_failures, the limit of the attempt counter (10 in the code)
          MaxSlips,     \* bound on typing errors, expiries and failing requests
          MaxAdmin      \* bound on the administrator's operations

VARIABLES db,      \* [user: row or None, pre: purpose of each device's token, session: holders of session rows]
          page,    \* per device: [step, from, secret]; from is where a failed enrolment returns to
          app,     \* the secrets in the user's authenticator
          streak,  \* wrong passwords since the last accepted one, as the person counts them
           slips, admin

vars == <<db, page, app, streak, slips, admin>>

Purposes == {"change_password", "setup_totp", "setup_totp_enable", "verify_totp"}
Steps == {"password", "change_password", "setup", "setup_totp_qr", "verify_totp", "in", "closed"}
Rows == [pwd: {None, "temp", "own", "other"}, locked: BOOLEAN, attempts: Nat, force: BOOLEAN,
         secret: Secrets \cup {None}, pending: Secrets \cup {None}, last: {"never", "now", "past"},
         uses: Nat]   \* uses is history: codes accepted in this window
Pages == [step: Steps, from: Steps, secret: Secrets \cup {None}]

\* The pool has a secret left when every page and the pending enrolment hold one.
ASSUME AccessAssumption ==
    /\ MaxFailures \in Nat \ {0} /\ MaxSlips \in Nat /\ MaxAdmin \in Nat
    /\ Lost \notin Devices /\ None \notin Secrets \cup Purposes \cup Rows \cup Pages
    /\ \A shown \in [Devices -> Secrets \cup {None}] : \A pending \in Secrets \cup {None} :
          \E x \in Secrets : x # pending /\ \A d \in Devices : shown[d] # x

NewRow == [pwd |-> None, locked |-> FALSE, attempts |-> 0, force |-> TRUE,
           secret |-> None, pending |-> None, last |-> "never", uses |-> 0]
PasswordStep == [step |-> "password", from |-> "password", secret |-> None]
At(d, step) == [page[d] EXCEPT !.step = step]

(***************************************************************************)
(* Statements: what one of them makes of a database state s.               *)
(***************************************************************************)
Set(s, field, value) == [s EXCEPT !.user[field] = value]
CreatePreAuth(s, d, purpose) == [s EXCEPT !.pre[d] = purpose]
ConsumePreAuth(s, d) == [s EXCEPT !.pre[d] = None]
OpenSession(s, d) == [s EXCEPT !.session = @ \cup {d}]
RemoveAllTokens(s) == [s EXCEPT !.session = {}]
StorePassword(s, p) == [s EXCEPT !.user.pwd = p, !.user.attempts = 0]
SetUserPassword(s, p) == Set(StorePassword(s, p), "force", FALSE)
KnownPassword(s) == Set(s, "attempts", 0)
OtherPassword(s) == IF s.user.pwd = "own" THEN "other" ELSE "own"

Configured(s) == s.user.secret # None

\* verify_totp_code: the second use of a window is refused.
AcceptsCode_NoReplayCheck(s, right) == right
AcceptsCode(s, right) == right /\ s.user.last # "now"
UseWindow(s) == [s EXCEPT !.user.last = "now", !.user.uses = @ + 1]

\* The new secret waits as pending until a code confirms it.
StorePending(s, x) == Set(s, "pending", x)

\* A secret nobody holds: pyotp.random_base32 never repeats one.
Fresh(s) == CHOOSE x \in Secrets :
    x \notin {s.user.secret, s.user.pending} \cup app \cup {page[d].secret : d \in Devices}

\* Both password changes end every session before they store the new hash.
Replace_StoreFirst(s, row) == <<[s EXCEPT !.user = row], [s EXCEPT !.user = row, !.session = {}]>>
Replace(s, row) == <<RemoveAllTokens(s), [RemoveAllTokens(s) EXCEPT !.user = row]>>

(***************************************************************************)
(* The handlers: [commits: the states their statements leave, one by one;  *)
(* answer: the page after a good answer, or None when they refuse].        *)
(***************************************************************************)
Reply(commits, answer) == [commits |-> commits, answer |-> answer]
Refuse(commits) == Reply(commits, None)

NextStep_PendingIsConfigured(s) == IF s.user.force THEN "change_password"
               ELSE IF Configured(s) \/ s.user.pending # None THEN "verify_totp" ELSE "setup_totp"
NextStep(s) == IF s.user.force THEN "change_password"
               ELSE IF Configured(s) THEN "verify_totp" ELSE "setup_totp"
\* The page asks for an enrolment at once; it shows the QR code only when it has one.
Towards(d, next) == IF next = "setup_totp" THEN [At(d, "setup") EXCEPT !.from = page[d].step]
                    ELSE At(d, next)

\* MySQL evaluates SET from left to right: the condition of the lock adds one to a counter
\* that this failure has raised already, and holds one failure before MaxFailures.
LoginWithPassword(d, right) ==
    LET u == db.user
        failed == [db EXCEPT !.user.attempts = @ + 1,
                             !.user.locked = @ \/ u.attempts + 2 >= MaxFailures]
        known == KnownPassword(db)
    IN  IF u = None THEN Refuse(<<>>)
        ELSE IF u.locked \/ u.pwd = None THEN Refuse(<<>>)
        ELSE IF ~right THEN Refuse(<<failed>>)
        ELSE Reply(<<known, CreatePreAuth(known, d, NextStep(db))>>, Towards(d, NextStep(db)))

\* POST /login/verify-2fa: the token is consumed before the code is looked at.
Verify2fa(d, right) ==
    LET consumed == ConsumePreAuth(db, d)
        used == UseWindow(consumed)
    IN  IF db.pre[d] # "verify_totp" THEN Refuse(<<>>)
        ELSE IF db.user.secret = None \/ ~AcceptsCode(consumed, right) THEN Refuse(<<consumed>>)
        ELSE Reply(<<consumed, used, OpenSession(used, d)>>, At(d, "in"))

\* POST /2fa/setup
SetupTotp(d) ==
    LET consumed == ConsumePreAuth(db, d)
        stored == StorePending(consumed, Fresh(db))
    IN  IF db.pre[d] # "setup_totp" THEN Refuse(<<>>)
        ELSE IF Configured(db) THEN Refuse(<<consumed>>)
        ELSE Reply(<<consumed, stored, CreatePreAuth(stored, d, "setup_totp_enable")>>,
                   [At(d, "setup_totp_qr") EXCEPT !.secret = Fresh(db)])

\* POST /2fa/enable: the code of the secret on the page against the pending one.
EnableTotp(d, right) ==
    LET consumed == ConsumePreAuth(db, d)
        pending == db.user.pending
        used == UseWindow(consumed)
        enabled == [used EXCEPT !.user.secret = pending, !.user.pending = None, !.user.force = FALSE]
    IN  IF db.pre[d] # "setup_totp_enable" THEN Refuse(<<>>)
        ELSE IF pending = None \/ ~AcceptsCode(consumed, right /\ page[d].secret = pending)
        THEN Refuse(<<consumed>>)
        ELSE Reply(<<consumed, used, enabled, OpenSession(enabled, d)>>, At(d, "in"))

\* POST /user/change-password/preauth; a weak password is refused after the token is consumed.
ChangePasswordPreauth(d, strong) ==
    LET consumed == ConsumePreAuth(db, d)
        changed == Replace(consumed, SetUserPassword(consumed, OtherPassword(db)).user)
    IN  IF db.pre[d] # "change_password" THEN Refuse(<<>>)
        ELSE IF ~strong THEN Refuse(<<consumed>>)
        ELSE IF Configured(db)
        THEN Reply(<<consumed>> \o changed \o <<OpenSession(Last(changed), d)>>, At(d, "in"))
        ELSE Reply(<<consumed>> \o changed \o <<CreatePreAuth(Last(changed), d, "setup_totp")>>,
                   Towards(d, "setup_totp"))

\* POST /user/change-password, from a session, with the current password and a code.
ChangePassword(d, right, strong) ==
    LET used == UseWindow(db)
        changed == Replace(used, StorePassword(used, OtherPassword(db)).user)
    IN  IF d \notin db.session \/ db.user.secret = None \/ ~AcceptsCode(db, right) THEN Refuse(<<>>)
        ELSE IF ~strong THEN Refuse(<<used>>)
        ELSE Reply(<<used>> \o changed \o <<OpenSession(Last(changed), d)>>, At(d, "in"))

(***************************************************************************)
(* The administrator's handlers.  A token row refers to its user and keeps *)
(* it from being deleted; pre-authentication tokens go with their user.    *)
(***************************************************************************)
Gone(s) == [s EXCEPT !.user = None, !.pre = [d \in Devices |-> None]]

CreateUser(strong) ==
    LET inserted == [db EXCEPT !.user = NewRow]
    IN  IF db.user # None THEN <<>>
        ELSE IF strong THEN <<inserted, SetUserPassword(inserted, "temp")>> ELSE <<inserted, Gone(inserted)>>

\* The dialog sends locked and force_pwd_reset as its list showed them, stale or changed.
UpdateUser(locked, force, temp) ==
    LET flagged == [db EXCEPT !.user.locked = locked, !.user.force = force]
        ended == IF locked THEN RemoveAllTokens(flagged) ELSE flagged
        stored == SetUserPassword(ended, "temp")
    IN  IF db.user = None THEN <<>>
        ELSE <<flagged, ended>> \o (IF temp THEN <<stored, Set(stored, "force", TRUE)>> ELSE <<>>)

DeleteUser == IF db.user = None \/ db.session # {} THEN <<>> ELSE <<Gone(db)>>

Reset2fa ==
    LET cleared == [db EXCEPT !.user.secret = None, !.user.pending = None,
                              !.user.last = "never", !.user.uses = 0]
    IN  IF db.user = None THEN <<>> ELSE <<cleared, RemoveAllTokens(cleared)>>

-------------------------------------------------------------------------------
Init ==
    /\ db = [user |-> [NewRow EXCEPT !.pwd = "temp", !.force = FALSE],
             pre |-> [d \in Devices |-> None], session |-> {}]
    /\ page = [d \in Devices |-> PasswordStep]
    /\ app = {} /\ streak = 0 /\ slips = 0 /\ admin = 0

\* The authenticator keeps what its user scans; entries nothing knows any more are forgotten.
Scan == LET shown == {page'[d].secret : d \in Devices} \ {None}
        IN  app' = {x \in app \cup shown : \/ x \in shown
                                           \/ db'.user # None /\ x \in {db'.user.secret, db'.user.pending}}
Slip == slips < MaxSlips /\ slips' = slips + 1

\* What a refused or unanswered request leaves on the page.
Refused(d) == IF page[d].step = "setup" THEN At(d, page[d].from) ELSE page[d]
\* A page that gives up an enrolment drops its token.
Dropped(s, d) == IF page[d].step = "setup" THEN ConsumePreAuth(s, d) ELSE s
\* The last statement of a good answer creates a token: without the answer nobody holds it.
Unanswered(s, d) ==
    [s EXCEPT !.pre[d] = None, !.session = IF d \in @ THEN (@ \ {d}) \cup {Lost} ELSE @]

(***************************************************************************)
(* A request of device d: answered, refused, or failing after a prefix of  *)
(* its statements or in the answer, which counts as a slip.                *)
(***************************************************************************)
Request(d, reply) ==
    LET states == <<db>> \o reply.commits
        whole == Last(states)
        good == reply.answer # None
    IN  /\ \/ /\ db' = IF good THEN whole ELSE Dropped(whole, d)
              /\ page' = [page EXCEPT ![d] = IF good THEN reply.answer ELSE Refused(d)]
              /\ UNCHANGED slips
           \/ /\ Slip
              /\ \/ \E n \in 1..(Len(states) - 1) : db' = Dropped(states[n], d)
                 \/ good /\ db' = Unanswered(whole, d)
              /\ page' = [page EXCEPT ![d] = Refused(d)]
        /\ Scan /\ UNCHANGED admin

(***************************************************************************)
(* The person at device d.                                                 *)
(***************************************************************************)
Password(d) ==
    /\ page[d].step = "password"
    /\ Request(d, LoginWithPassword(d, TRUE))
    /\ streak' = IF page'[d].step # "password" THEN 0 ELSE streak

Enrol(d) == page[d].step = "setup" /\ Request(d, SetupTotp(d)) /\ UNCHANGED streak

EnterCode(d) ==
    /\ \/ page[d].step = "verify_totp" /\ Request(d, Verify2fa(d, db.user # None /\ db.user.secret \in app))
       \/ page[d].step = "setup_totp_qr" /\ Request(d, EnableTotp(d, TRUE))
    /\ UNCHANGED streak

ChooseStrong(d) ==
    /\ page[d].step = "change_password"
    /\ Request(d, ChangePasswordPreauth(d, TRUE))
    /\ UNCHANGED streak

\* Back, or loading the page again, once its token is dead.
Restart(d) ==
    /\ page[d].step \in {"verify_totp", "change_password", "setup_totp_qr"}
    /\ db.pre[d] = None
    /\ page' = [page EXCEPT ![d] = PasswordStep]
    /\ UNCHANGED <<db, streak, slips, admin>> /\ Scan

\* A session that is gone sends the browser back to the login page.
Unauthorized(d) ==
    /\ page[d].step = "in" /\ d \notin db.session
    /\ page' = [page EXCEPT ![d] = PasswordStep]
    /\ UNCHANGED <<db, streak, slips, admin>> /\ Scan

\* Slips of the person: a wrong password, a wrong code, a password the server finds weak.
WrongPassword(d) ==
    /\ Slip /\ page[d].step = "password"
    /\ db' = Last(<<db>> \o LoginWithPassword(d, FALSE).commits)
    /\ streak' = IF db.user # None THEN streak + 1 ELSE streak
    /\ UNCHANGED <<page, app, admin>>

Mistake(d) ==
    /\ Slip
    /\ \/ page[d].step = "verify_totp" /\ db' = Last(<<db>> \o Verify2fa(d, FALSE).commits)
       \/ page[d].step = "setup_totp_qr" /\ db' = Last(<<db>> \o EnableTotp(d, FALSE).commits)
       \/ page[d].step = "change_password" /\ db' = Last(<<db>> \o ChangePasswordPreauth(d, FALSE).commits)
       \/ page[d].step = "in" /\ db' = Last(<<db>> \o ChangePassword(d, TRUE, FALSE).commits)
    /\ UNCHANGED <<page, app, streak, admin>>

Logout(d) ==
    /\ page[d].step = "in"
    /\ db' = [db EXCEPT !.session = @ \ {d}]
    /\ page' = [page EXCEPT ![d] = PasswordStep]
    /\ Scan /\ UNCHANGED <<streak, slips, admin>>

ChangeOwnPassword(d) ==
    /\ page[d].step = "in" /\ d \in db.session /\ db.user.secret \in app
    /\ Request(d, ChangePassword(d, TRUE, TRUE))
    /\ UNCHANGED streak

Close(d) ==
    /\ page[d].step \notin {"in", "closed"}
    /\ page' = [page EXCEPT ![d] = [PasswordStep EXCEPT !.step = "closed"]]
    /\ db' = ConsumePreAuth(db, d)
    /\ Scan /\ UNCHANGED <<streak, slips, admin>>

(***************************************************************************)
(* Time and the administrator.                                             *)
(***************************************************************************)
Expire(d) ==
    /\ Slip /\ db.pre[d] # None
    /\ db' = ConsumePreAuth(db, d)
    /\ UNCHANGED <<page, app, streak, admin>>

NextWindow ==
    /\ db.user # None /\ db.user.last = "now"
    /\ db' = [db EXCEPT !.user.last = "past", !.user.uses = 0]
    /\ UNCHANGED <<page, app, streak, slips, admin>>

Admin ==
    /\ admin < MaxAdmin /\ admin' = admin + 1
    /\ \E commits \in {CreateUser(strong) : strong \in BOOLEAN} \cup {DeleteUser, Reset2fa}
            \cup {UpdateUser(l, f, t) : l, f, t \in BOOLEAN} :
         \/ db' = Last(<<db>> \o commits) /\ UNCHANGED slips
         \/ Slip /\ \E n \in 1..Len(commits) : db' = (<<db>> \o commits)[n]
    /\ UNCHANGED <<page, streak>> /\ Scan

UserStep(d) == Password(d) \/ Enrol(d) \/ EnterCode(d) \/ ChooseStrong(d) \/ Restart(d) \/ Unauthorized(d)
Next == \/ \E d \in Devices : \/ UserStep(d) \/ WrongPassword(d) \/ Mistake(d) \/ Logout(d)
                              \/ ChangeOwnPassword(d) \/ Close(d) \/ Expire(d)
        \/ NextWindow \/ Admin

Spec == /\ Init /\ [][Next]_vars
        /\ \A d \in Devices : WF_vars(UserStep(d))
        /\ WF_vars(NextWindow)

-------------------------------------------------------------------------------
\* Type invariant, with the foreign keys: a token row has its user.
TypeOK ==
    /\ db \in [user : Rows \cup {None}, pre : [Devices -> Purposes \cup {None}],
               session : SUBSET (Devices \cup {Lost})]
    /\ page \in [Devices -> Pages]
    /\ app \subseteq Secrets /\ streak \in Nat /\ slips \in 0..MaxSlips /\ admin \in 0..MaxAdmin
    /\ db.user = None => db.session = {} /\ \A d \in Devices : db.pre[d] = None

\* At most one code is accepted in a window of 30 s, from whatever page and for whatever
\* purpose, also when the statements after the check fail (totp_manager.py:31-56).
WindowOnce == db.user # None => db.user.uses <= 1

\* Nobody is enrolled with a secret their authenticator never saw, although the enrolments of
\* two devices overwrite each other's pending secret and answers get lost (twofa.py:47-109).
EnrolledSecretIsScanned == db.user # None => db.user.secret \in app \cup {None}

\* A user's second factor is sound: one code per window, from a secret that the person holds.
CodesAreSound == TypeOK /\ WindowOnce /\ EnrolledSecretIsScanned

\* A login locks the account only after MaxFailures - 1 wrong passwords since the last accepted
\* one, over all devices and requests that failed half way (password_authenticator.py:115-152).
\* One fewer than the parameter's name says: see LoginWithPassword.
LockIsEarned ==
    [][admin' = admin /\ db.user # None /\ db'.user # None /\ ~db.user.locked /\ db'.user.locked
       => streak' + 1 >= MaxFailures]_vars

\* A session row appears only for a user who has an authenticator configured at that moment,
\* however the administrator's reset falls between the steps of a login.
SessionsAreEnrolled ==
    [][db'.session \subseteq db.session \/ db'.user.secret # None]_vars

\* Once the person's new password is stored, no session from before is left, whichever
\* statement of the change fails (routes/user.py:55-77 and :103-121).
ChangeEndsSessions ==
    [][db.user # None /\ db'.user # None /\ db'.user.pwd \in {"own", "other"} /\ db'.user.pwd # db.user.pwd
       => db'.session = {} \/ \E d \in Devices : db'.session \subseteq {d, Lost} /\ Cardinality(db'.session) = 1
                                               /\ (page'[d].step = "in" \/ db'.session = {Lost})]_vars

\* A session stands for both factors as they are now, and not for an earlier password.
SessionsAreCurrent == SessionsAreEnrolled /\ ChangeEndsSessions

\* A person who knows the password gets in on a device, whatever went wrong before, once the
\* account stays as it is and their other browsers are closed (pages/Login.tsx:98-235).
CanLogIn == db.user # None /\ ~db.user.locked /\ db.user.pwd # None
IsIn(d) == page[d].step = "in" /\ d \in db.session
LoginSucceeds ==
    \A d \in Devices :
        <>[](CanLogIn /\ page[d].step # "closed" /\ \A e \in Devices \ {d} : page[e].step = "closed")
            => []<>IsIn(d)

\* A person who holds the password and the authenticator is not locked out by ordinary errors, and gets in.
PersonGetsIn == LockIsEarned /\ LoginSucceeds
===============================================================================
