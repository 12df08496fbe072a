---------------------------- MODULE Access_proofs ----------------------------
(***************************************************************************)
(* The codes of Access are sound, its sessions are current, and its locks  *)
(* are earned, for any number of devices, failures, slips and operations   *)
(* of the administrator.                                                   *)
(*                                                                         *)
(* A request may stop after any of its commits, so what is proved of it is *)
(* proved of every commit: the statements keep a database Sound, the reply *)
(* of each handler is good (GoodReply), and so is whatever a failing or    *)
(* unanswered request leaves (RequestIsSound).  The invariant AccessInv    *)
(* says that a row counts no more wrong passwords than were entered, that  *)
(* what the pages show and the row knows is what the authenticator has,    *)
(* and that the device of a session shows the page behind the login.       *)
(***************************************************************************)
EXTENDS Access, FiniteSetTheorems, TLAPS

Dbs == [user : Rows \cup {None}, pre : [Devices -> Purposes \cup {None}],
        session : SUBSET (Devices \cup {Lost})]

\* A user's row: one code in a window; as many wrong passwords counted as were
\* entered; no secret but one that the person holds.
RowOK(u) ==
    /\ u.uses <= 1 /\ (u.last # "now" => u.uses = 0)
    /\ u.attempts <= streak
    /\ u.secret \in app \cup {None}

\* A token has its user.
Sound(s) ==
    /\ s \in Dbs
    /\ s.user = None => s.session = {} /\ \A d \in Devices : s.pre[d] = None
    /\ s.user # None => RowOK(s.user)

-----------------------------------------------------------------------------
(* The statements                                                          *)

LEMMA NoneIsNothing ==
    /\ None \notin Secrets /\ None \notin Purposes /\ None \notin Rows /\ None \notin Pages
  BY AccessAssumption

LEMMA RowFields ==
    ASSUME NEW s \in Dbs, NEW u \in Rows
    PROVE  LET t == [s EXCEPT !.user = u] IN
           t \in Dbs /\ t.user = u /\ t.pre = s.pre /\ t.session = s.session
  BY DEF Dbs

LEMMA PreFields ==
    ASSUME NEW s \in Dbs, NEW d \in Devices, NEW p \in Purposes \cup {None}
    PROVE  LET t == [s EXCEPT !.pre[d] = p] IN
           t \in Dbs /\ t.user = s.user /\ t.pre = [s.pre EXCEPT ![d] = p] /\ t.session = s.session
  BY DEF Dbs

LEMMA SessionFields ==
    ASSUME NEW s \in Dbs, NEW S \in SUBSET (Devices \cup {Lost})
    PROVE  LET t == [s EXCEPT !.session = S] IN
           t \in Dbs /\ t.user = s.user /\ t.pre = s.pre /\ t.session = S
  BY DEF Dbs

\* A statement about a user's row that leaves password, lock and secret alone.
SameAccount(s, t) ==
    /\ t.user # None /\ t.session = s.session
    /\ t.user.pwd = s.user.pwd /\ t.user.locked = s.user.locked /\ t.user.secret = s.user.secret

LEMMA ConsumeIsSound ==
    ASSUME NEW s, Sound(s), NEW d \in Devices
    PROVE  LET t == ConsumePreAuth(s, d) IN
           Sound(t) /\ t.user = s.user /\ t.session = s.session /\ t.pre[d] = None
<1> DEFINE t == ConsumePreAuth(s, d)
<1>1. t \in Dbs /\ t.user = s.user /\ t.pre = [s.pre EXCEPT ![d] = None] /\ t.session = s.session
  BY PreFields DEF ConsumePreAuth, Sound
<1>2. s.pre \in [Devices -> Purposes \cup {None}]
  BY DEF Sound, Dbs
<1> HIDE DEF t
<1>3. t.pre[d] = None /\ \A e \in Devices : s.pre[e] = None => t.pre[e] = None
  BY <1>1, <1>2
<1>4. Sound(t)
  BY <1>1, <1>3 DEF Sound
<1> QED
  BY <1>1, <1>3, <1>4 DEF t

LEMMA CreateIsSound ==
    ASSUME NEW s, Sound(s), s.user # None, NEW d \in Devices, NEW p \in Purposes
    PROVE  LET t == CreatePreAuth(s, d, p) IN
           Sound(t) /\ t.user = s.user /\ t.session = s.session
<1> DEFINE t == CreatePreAuth(s, d, p)
<1>1. t \in Dbs /\ t.user = s.user /\ t.session = s.session
  BY PreFields DEF CreatePreAuth, Sound
<1> HIDE DEF t
<1>2. Sound(t)
  BY <1>1 DEF Sound
<1> QED
  BY <1>1, <1>2 DEF t

LEMMA OpenIsSound ==
    ASSUME NEW s, Sound(s), s.user # None, NEW d \in Devices
    PROVE  LET t == OpenSession(s, d) IN
           Sound(t) /\ t.user = s.user /\ t.session = s.session \cup {d}
<1> DEFINE t == OpenSession(s, d)
           S == s.session \cup {d}
<1>0. S \in SUBSET (Devices \cup {Lost}) /\ s \in Dbs
  BY DEF Sound, Dbs
<1>1. t = [s EXCEPT !.session = S]
  BY DEF OpenSession
<1> HIDE DEF S
<1>2. t \in Dbs /\ t.user = s.user /\ t.session = S
  BY ONLY <1>0, <1>1, SessionFields
<1> HIDE DEF t
<1>3. Sound(t)
  BY <1>2 DEF Sound
<1> QED
  BY <1>2, <1>3 DEF t, S

LEMMA RemoveIsSound ==
    ASSUME NEW s, Sound(s)
    PROVE  LET t == RemoveAllTokens(s) IN
           Sound(t) /\ t.user = s.user /\ t.session = {} /\ t.pre = s.pre
<1> DEFINE t == RemoveAllTokens(s)
<1>1. t \in Dbs /\ t.user = s.user /\ t.session = {} /\ t.pre = s.pre
  BY SessionFields DEF RemoveAllTokens, Sound
<1> HIDE DEF t
<1>2. Sound(t)
  BY <1>1 DEF Sound
<1> QED
  BY <1>1, <1>2 DEF t

\* A new row of the user.
LEMMA RowIsSound ==
    ASSUME NEW s, Sound(s), NEW u \in Rows, RowOK(u)
    PROVE  LET t == [s EXCEPT !.user = u] IN
           Sound(t) /\ t.user = u /\ t.session = s.session /\ t.user # None /\ t.pre = s.pre
<1> DEFINE t == [s EXCEPT !.user = u]
<1>1. t \in Dbs /\ t.user = u /\ t.session = s.session /\ t.pre = s.pre
  BY RowFields DEF Sound
<1> HIDE DEF t
<1>2. t.user # None
  BY <1>1, NoneIsNothing
<1>3. Sound(t)
  BY <1>1, <1>2 DEF Sound
<1> QED
  BY <1>1, <1>2, <1>3 DEF t

LEMMA KnownIsSound ==
    ASSUME NEW s, Sound(s), s.user # None, streak \in Nat
    PROVE  LET t == KnownPassword(s) IN Sound(t) /\ SameAccount(s, t) /\ t.user.attempts = 0
<1> DEFINE u == [s.user EXCEPT !.attempts = 0]
<1>1. s.user \in Rows /\ RowOK(s.user) /\ s \in Dbs
  BY DEF Sound, Dbs
<1>2. u \in Rows /\ RowOK(u) /\ u.pwd = s.user.pwd /\ u.locked = s.user.locked /\ u.secret = s.user.secret
      /\ u.attempts = 0
  BY <1>1 DEF Rows, RowOK
<1>3. KnownPassword(s) = [s EXCEPT !.user = u]
  BY <1>1 DEF KnownPassword, Set, Dbs, Rows
<1> HIDE DEF u
<1> QED
  BY <1>2, <1>3, RowIsSound DEF SameAccount

LEMMA UseIsSound ==
    ASSUME NEW s, Sound(s), s.user # None, s.user.last # "now"
    PROVE  LET t == UseWindow(s) IN Sound(t) /\ SameAccount(s, t) /\ t.user.attempts = s.user.attempts
                                    /\ t.user.pending = s.user.pending
<1> DEFINE u == [s.user EXCEPT !.last = "now", !.uses = 1]
<1>1. s.user \in Rows /\ RowOK(s.user) /\ s \in Dbs
  BY DEF Sound, Dbs
<1>a. s.user.uses = 0 /\ s.user.uses + 1 = 1
  BY <1>1 DEF RowOK
<1>b. u \in Rows /\ u.pwd = s.user.pwd /\ u.locked = s.user.locked /\ u.secret = s.user.secret
      /\ u.attempts = s.user.attempts /\ u.pending = s.user.pending /\ u.last = "now" /\ u.uses = 1
  BY <1>1 DEF Rows
<1>c. RowOK(u)
  BY <1>1, <1>b DEF RowOK
<1>2. u \in Rows /\ RowOK(u) /\ u.pwd = s.user.pwd /\ u.locked = s.user.locked /\ u.secret = s.user.secret
      /\ u.attempts = s.user.attempts /\ u.pending = s.user.pending
  BY <1>b, <1>c
<1>3. UseWindow(s) = [s EXCEPT !.user = u]
  BY <1>1, <1>a DEF UseWindow, Dbs, Rows
<1> HIDE DEF u
<1> QED
  BY <1>2, <1>3, RowIsSound DEF SameAccount

LEMMA PendingIsSound ==
    ASSUME NEW s, Sound(s), s.user # None, NEW x \in Secrets
    PROVE  LET t == StorePending(s, x) IN Sound(t) /\ SameAccount(s, t)
<1> DEFINE u == [s.user EXCEPT !.pending = x]
<1>1. s.user \in Rows /\ RowOK(s.user) /\ s \in Dbs
  BY DEF Sound, Dbs
<1>2. u \in Rows /\ RowOK(u) /\ u.pwd = s.user.pwd /\ u.locked = s.user.locked /\ u.secret = s.user.secret
  BY <1>1 DEF Rows, RowOK
<1>3. StorePending(s, x) = [s EXCEPT !.user = u]
  BY <1>1 DEF StorePending, Set, Dbs, Rows
<1> HIDE DEF u
<1> QED
  BY <1>2, <1>3, RowIsSound DEF SameAccount

\* The row of a new password.
LEMMA StoredIsSound ==
    ASSUME NEW s, Sound(s), s.user # None, NEW p \in {"temp", "own", "other"}, streak \in Nat
    PROVE  /\ LET u == StorePassword(s, p).user IN
              u \in Rows /\ RowOK(u) /\ u.pwd = p /\ u.locked = s.user.locked /\ u.secret = s.user.secret
           /\ LET u == SetUserPassword(s, p).user IN
              u \in Rows /\ RowOK(u) /\ u.pwd = p /\ u.locked = s.user.locked /\ u.secret = s.user.secret
           /\ SetUserPassword(s, p) = [s EXCEPT !.user = SetUserPassword(s, p).user]
<1>1. s.user \in Rows /\ RowOK(s.user) /\ s \in Dbs
  BY DEF Sound, Dbs
<1> DEFINE u == [s.user EXCEPT !.pwd = p, !.attempts = 0]
           v == [u EXCEPT !.force = FALSE]
<1>a. /\ u \in Rows /\ u.pwd = p /\ u.attempts = 0 /\ u.locked = s.user.locked
      /\ u.secret = s.user.secret /\ u.last = s.user.last /\ u.uses = s.user.uses
  BY <1>1 DEF Rows
<1>2. u \in Rows /\ RowOK(u) /\ u.pwd = p /\ u.locked = s.user.locked /\ u.secret = s.user.secret
  BY <1>1, <1>a DEF RowOK
<1> HIDE DEF u
<1>b. /\ v \in Rows /\ v.pwd = p /\ v.attempts = 0 /\ v.locked = s.user.locked
      /\ v.secret = s.user.secret /\ v.last = s.user.last /\ v.uses = s.user.uses
  BY <1>a DEF Rows
<1>3. v \in Rows /\ RowOK(v) /\ v.pwd = p /\ v.locked = s.user.locked /\ v.secret = s.user.secret
  BY <1>1, <1>b DEF RowOK
<1> USE DEF u
<1>4. StorePassword(s, p) = [s EXCEPT !.user = u]
  BY <1>1 DEF StorePassword, Dbs, Rows
<1>5. SetUserPassword(s, p) = [s EXCEPT !.user = v]
  BY <1>1 DEF SetUserPassword, Set, StorePassword, Dbs, Rows
<1> HIDE DEF u, v
<1>6. StorePassword(s, p).user = u /\ SetUserPassword(s, p).user = v
  BY <1>1, <1>2, <1>3, <1>4, <1>5, RowFields
<1> QED
  BY <1>2, <1>3, <1>5, <1>6

-----------------------------------------------------------------------------
(* Sequences of commits                                                    *)

LEMMA Joined ==
    ASSUME NEW S, NEW p \in Seq(S), NEW q \in Seq(S)
    PROVE  /\ p \o q \in Seq(S) /\ Len(p \o q) = Len(p) + Len(q)
           /\ \A i \in 1..Len(p) : (p \o q)[i] = p[i]
           /\ \A i \in 1..Len(q) : (p \o q)[Len(p) + i] = q[i]
  OBVIOUS

LEMMA FourInARow ==
    ASSUME NEW S, NEW a \in S, NEW x \in S, NEW y \in S, NEW z \in S
    PROVE  <<a>> \o <<x, y>> \o <<z>> = <<a, x, y, z>>
<1> DEFINE p == <<a>>
           q == <<x, y>>
           r == <<z>>
           w == <<a, x, y, z>>
<1>a. p \in Seq(S)
  OBVIOUS
<1>b. q \in Seq(S)
  OBVIOUS
<1>c. r \in Seq(S)
  OBVIOUS
<1>d. w \in Seq(S)
  OBVIOUS
<1>1. Len(p) = 1 /\ p[1] = a
  OBVIOUS
<1>2. Len(q) = 2 /\ q[1] = x /\ q[2] = y
  OBVIOUS
<1>3. Len(r) = 1 /\ r[1] = z
  OBVIOUS
<1>4. Len(w) = 4 /\ w[1] = a /\ w[2] = x /\ w[3] = y /\ w[4] = z
  OBVIOUS
<1> HIDE DEF p, q, r, w
<1>5. /\ p \o q \in Seq(S) /\ Len(p \o q) = Len(p) + Len(q)
      /\ \A i \in 1..Len(p) : (p \o q)[i] = p[i]
      /\ \A i \in 1..Len(q) : (p \o q)[Len(p) + i] = q[i]
  BY ONLY <1>a, <1>b, Joined
<1> DEFINE s == p \o q
<1>6. Len(s) = 3 /\ s[1] = a /\ s[2] = x /\ s[3] = y
  <2> HIDE DEF s
  <2>1. /\ s \in Seq(S) /\ Len(s) = Len(p) + Len(q)
        /\ \A i \in 1..Len(p) : s[i] = p[i]
        /\ \A i \in 1..Len(q) : s[Len(p) + i] = q[i]
    BY <1>5 DEF s
  <2>2. 1 \in 1..Len(p) /\ 1 \in 1..Len(q) /\ 2 \in 1..Len(q) /\ Len(p) + 1 = 2 /\ Len(p) + 2 = 3
    BY <1>1, <1>2
  <2> QED
    BY <1>1, <1>2, <2>1, <2>2
<1>e. s \in Seq(S)
  BY <1>5
<1> HIDE DEF s
<1> DEFINE t == s \o r
<1>7. /\ t \in Seq(S) /\ Len(t) = Len(s) + Len(r)
      /\ \A i \in 1..Len(s) : t[i] = s[i]
      /\ \A i \in 1..Len(r) : t[Len(s) + i] = r[i]
  BY ONLY <1>c, <1>e, Joined
<1> HIDE DEF t
<1>8. Len(t) = 4 /\ t[1] = a /\ t[2] = x /\ t[3] = y /\ t[4] = z
  <2>1. 1 \in 1..Len(s) /\ 2 \in 1..Len(s) /\ 3 \in 1..Len(s) /\ 1 \in 1..Len(r) /\ Len(s) + 1 = 4
    BY <1>3, <1>6
  <2> QED
    BY <1>3, <1>6, <1>7, <2>1
<1>f. t \in Seq(S)
  BY <1>7
<1>9. t = w
  BY ONLY <1>d, <1>f, <1>4, <1>8
<1> QED
  BY <1>9 DEF p, q, r, s, t, w

\* The database before and after each statement.
LEMMA States ==
    ASSUME NEW S, NEW e \in S, NEW c \in Seq(S)
    PROVE  LET t == <<e>> \o c IN
           /\ Len(t) = Len(c) + 1 /\ t[1] = e /\ Last(t) = t[Len(c) + 1] /\ Len(c) \in Nat
           /\ \A n \in 1..Len(c) : t[n + 1] = c[n]
<1> DEFINE p == <<e>>
           t == p \o c
<1>a. p \in Seq(S)
  OBVIOUS
<1>b. c \in Seq(S)
  OBVIOUS
<1>1. Len(p) = 1 /\ p[1] = e /\ Len(c) \in Nat
  OBVIOUS
<1> HIDE DEF p
<1>2. /\ Len(t) = Len(p) + Len(c) 
      /\ \A i \in 1..Len(p) : t[i] = p[i]
      /\ \A i \in 1..Len(c) : t[Len(p) + i] = c[i]
  BY ONLY <1>a, <1>b, Joined
<1> HIDE DEF t
<1>3. Len(t) = Len(c) + 1 /\ t[1] = e /\ \A n \in 1..Len(c) : t[n + 1] = c[n]
  BY <1>1, <1>2
<1>4. Last(t) = t[Len(c) + 1]
  BY <1>3 DEF Last
<1> QED
  BY <1>1, <1>3, <1>4 DEF p, t

-----------------------------------------------------------------------------
(* The replies                                                             *)

\* What a request of device d may leave in the database.
Left(d, s) ==
    /\ Sound(s)
    /\ s.session \subseteq db.session \cup {d}
    /\ s.session \subseteq db.session \/ s.user.secret # None
    /\ s.user # None => /\ db.user # None
                        /\ s.user.locked => db.user.locked
                        /\ s.user.pwd # db.user.pwd => s.session \subseteq {d}

\* Its session is the last thing a request opens, and the answer says so.
GoodReply(d, r) ==
    /\ r.answer \in Pages \cup {None} /\ r.commits \in Seq(Dbs)
    /\ \A n \in 1..Len(r.commits) :
          /\ Left(d, r.commits[n])
          /\ \/ r.commits[n].session \subseteq db.session
             \/ n = Len(r.commits) /\ r.answer # None /\ r.answer.step = "in"

Quiet(d, s) == Left(d, s) /\ s.session \subseteq db.session
Opens(d, s, answer) == Left(d, s) /\ (s.session \subseteq db.session \/ (answer # None /\ answer.step = "in"))

LEMMA ReplyOfNone ==
    ASSUME NEW d, NEW r, r = Refuse(<<>>)
    PROVE  GoodReply(d, r)
  BY DEF GoodReply, Refuse, Reply

LEMMA ReplyOfOne ==
    ASSUME NEW d, NEW a, Quiet(d, a), NEW r, r = Refuse(<<a>>)
    PROVE  GoodReply(d, r)
<1>1. a \in Dbs
  BY DEF Quiet, Left, Sound
<1> QED
  BY <1>1 DEF GoodReply, Refuse, Reply, Quiet

LEMMA ReplyOfTwo ==
    ASSUME NEW d, NEW a, NEW b, NEW answer \in Pages \cup {None}, Quiet(d, a), Opens(d, b, answer),
           NEW r, r = Reply(<<a, b>>, answer)
    PROVE  GoodReply(d, r)
<1>1. a \in Dbs /\ b \in Dbs
  BY DEF Quiet, Opens, Left, Sound
<1>2. r.commits = <<a, b>> /\ r.answer = answer
  BY DEF Reply
<1>3. Len(<<a, b>>) = 2 /\ <<a, b>>[1] = a /\ <<a, b>>[2] = b /\ <<a, b>> \in Seq(Dbs)
  BY <1>1
<1>4. 1..2 = {1, 2}
  OBVIOUS
<1> QED
  BY <1>2, <1>3, <1>4 DEF GoodReply, Quiet, Opens

LEMMA ReplyOfThree ==
    ASSUME NEW d, NEW a, NEW b, NEW c, NEW answer \in Pages \cup {None},
           Quiet(d, a), Quiet(d, b), Opens(d, c, answer),
           NEW r, r = Reply(<<a, b, c>>, answer)
    PROVE  GoodReply(d, r)
<1>1. a \in Dbs /\ b \in Dbs /\ c \in Dbs
  BY DEF Quiet, Opens, Left, Sound
<1>2. r.commits = <<a, b, c>> /\ r.answer = answer
  BY DEF Reply
<1>3. Len(<<a, b, c>>) = 3 /\ <<a, b, c>>[1] = a /\ <<a, b, c>>[2] = b /\ <<a, b, c>>[3] = c
      /\ <<a, b, c>> \in Seq(Dbs)
  BY <1>1
<1>4. 1..3 = {1, 2, 3}
  OBVIOUS
<1> QED
  BY <1>2, <1>3, <1>4 DEF GoodReply, Quiet, Opens

LEMMA ReplyOfFour ==
    ASSUME NEW d, NEW a, NEW b, NEW c, NEW e, NEW answer \in Pages \cup {None},
           Quiet(d, a), Quiet(d, b), Quiet(d, c), Opens(d, e, answer),
           NEW r, r = Reply(<<a, b, c, e>>, answer)
    PROVE  GoodReply(d, r)
<1>1. a \in Dbs /\ b \in Dbs /\ c \in Dbs /\ e \in Dbs
  BY DEF Quiet, Opens, Left, Sound
<1>2. r.commits = <<a, b, c, e>> /\ r.answer = answer
  BY DEF Reply
<1>3. /\ Len(<<a, b, c, e>>) = 4 /\ <<a, b, c, e>>[1] = a /\ <<a, b, c, e>>[2] = b
      /\ <<a, b, c, e>>[3] = c /\ <<a, b, c, e>>[4] = e /\ <<a, b, c, e>> \in Seq(Dbs)
  BY <1>1
<1>4. 1..4 = {1, 2, 3, 4}
  OBVIOUS
<1> QED
  BY <1>2, <1>3, <1>4 DEF GoodReply, Quiet, Opens

LEMMA PageFields ==
    ASSUME NEW d \in Devices, page \in [Devices -> Pages], NEW step \in Steps
    PROVE  /\ At(d, step) \in Pages /\ At(d, step).step = step
           /\ Towards(d, "setup_totp") \in Pages /\ Towards(d, "setup_totp").step = "setup"
           /\ \A x \in Secrets : [At(d, step) EXCEPT !.secret = x] \in Pages
                                 /\ [At(d, step) EXCEPT !.secret = x].step = step
           /\ step # "setup_totp" => Towards(d, step) = At(d, step)
<1>1. page[d] \in Pages /\ "setup" \in Steps
  BY DEF Steps
<1>2. \A s \in Steps : At(d, s) \in Pages /\ At(d, s).step = s
  BY <1>1 DEF At, Pages
<1>3. page[d].step \in Steps
  BY <1>1 DEF Pages
<1>4. Towards(d, "setup_totp") = [At(d, "setup") EXCEPT !.from = page[d].step]
  BY DEF Towards
<1> DEFINE q == At(d, "setup")
<1>5. q \in Pages /\ q.step = "setup"
  BY <1>1, <1>2
<1> HIDE DEF q
<1>6. [q EXCEPT !.from = page[d].step] \in Pages /\ [q EXCEPT !.from = page[d].step].step = "setup"
  BY <1>3, <1>5 DEF Pages
<1>7. \A x \in Secrets : [At(d, step) EXCEPT !.secret = x] \in Pages
                         /\ [At(d, step) EXCEPT !.secret = x].step = step
  <2> DEFINE v == At(d, step)
  <2>1. v \in Pages /\ v.step = step
    BY <1>2
  <2> HIDE DEF v
  <2>2. \A x \in Secrets : [v EXCEPT !.secret = x] \in Pages /\ [v EXCEPT !.secret = x].step = step
    BY <2>1 DEF Pages
  <2> QED
    BY <2>2 DEF v
<1>8. step # "setup_totp" => Towards(d, step) = At(d, step)
  BY DEF Towards
<1> QED
  BY <1>2, <1>4, <1>6, <1>7, <1>8 DEF q

LEMMA EndOfTwo ==
    ASSUME NEW S, NEW s \in S, NEW a \in S, NEW b \in S
    PROVE  Last(<<s>> \o <<a, b>>) = b
<1> DEFINE c == <<a, b>>
<1>1. Len(c) = 2 /\ c[2] = b
  OBVIOUS
<1>2. c \in Seq(S)
  OBVIOUS
<1> HIDE DEF c
<1>3. 2 \in 1..Len(c) /\ Len(c) + 1 = 3 /\ 2 + 1 = 3
  BY <1>1
<1>4. /\ Last(<<s>> \o c) = (<<s>> \o c)[Len(c) + 1]
      /\ \A n \in 1..Len(c) : (<<s>> \o c)[n + 1] = c[n]
  BY ONLY s \in S, <1>2, States
<1>5. Last(<<s>> \o c) = b
  BY <1>1, <1>3, <1>4
<1> QED
  BY <1>5 DEF c

LEMMA EndOfFour ==
    ASSUME NEW S, NEW s \in S, NEW a \in S, NEW x \in S, NEW y \in S, NEW e \in S
    PROVE  Last(<<s>> \o <<a, x, y, e>>) = e
<1> DEFINE c == <<a, x, y, e>>
<1>1. Len(c) = 4 /\ c[4] = e
  OBVIOUS
<1>2. c \in Seq(S)
  OBVIOUS
<1> HIDE DEF c
<1>3. 4 \in 1..Len(c) /\ Len(c) + 1 = 5 /\ 4 + 1 = 5
  BY <1>1
<1>4. /\ Last(<<s>> \o c) = (<<s>> \o c)[Len(c) + 1]
      /\ \A n \in 1..Len(c) : (<<s>> \o c)[n + 1] = c[n]
  BY ONLY s \in S, <1>2, States
<1>5. Last(<<s>> \o c) = e
  BY <1>1, <1>3, <1>4
<1> QED
  BY <1>5 DEF c

\* The password, known: the row of the token names the step that comes next.
LEMMA GoodLogin ==
    ASSUME Sound(db), streak \in Nat, page \in [Devices -> Pages], NEW d \in Devices
    PROVE  LET r == LoginWithPassword(d, TRUE) IN
           /\ GoodReply(d, r)
           /\ r.answer # None => Last(<<db>> \o r.commits).user.attempts = 0
<1> DEFINE r == LoginWithPassword(d, TRUE)
           k == KnownPassword(db)
           c == CreatePreAuth(k, d, NextStep(db))
           answer == Towards(d, NextStep(db))
<1>1. r = Refuse(<<>>) \/ (db.user # None /\ r = Reply(<<k, c>>, answer))
  BY DEF LoginWithPassword
<1>2. CASE r = Refuse(<<>>)
  <2>1. GoodReply(d, r)
    BY <1>2, ReplyOfNone
  <2> HIDE DEF r
  <2>2. r.answer = None
    BY <1>2 DEF Refuse, Reply
  <2> QED
    BY <2>1, <2>2 DEF r
<1>3. CASE db.user # None /\ r = Reply(<<k, c>>, answer)
  <2>1. Sound(k) /\ SameAccount(db, k) /\ k.user # None /\ k.user.attempts = 0
    BY <1>3, KnownIsSound DEF SameAccount
  <2>2. NextStep(db) \in {"change_password", "verify_totp", "setup_totp"}
    BY DEF NextStep
  <2>3. NextStep(db) \in Purposes
    BY <2>2 DEF Purposes
  <2>4. answer \in Pages
    BY <2>2, PageFields DEF Steps
  <2> HIDE DEF k, answer
  <2>5. Sound(c) /\ c.user = k.user /\ c.session = k.session
    BY <2>1, <2>3, CreateIsSound
  <2> HIDE DEF c
  <2>6. Quiet(d, k) /\ Opens(d, c, answer)
    BY <1>3, <2>1, <2>5 DEF Quiet, Opens, Left, SameAccount
  <2> HIDE DEF r
  <2>7. GoodReply(d, r)
    BY <1>3, <2>4, <2>6, ReplyOfTwo
  <2>8. r.commits = <<k, c>>
    BY <1>3 DEF Reply
  <2>9. db \in Dbs /\ k \in Dbs /\ c \in Dbs
    BY <2>1, <2>5 DEF Sound
  <2>10. Last(<<db>> \o <<k, c>>) = c
    BY ONLY <2>9, EndOfTwo
  <2>11. Last(<<db>> \o r.commits).user.attempts = 0
    BY <2>1, <2>5, <2>8, <2>10
  <2> QED
    BY <2>7, <2>11 DEF r
<1> QED
  BY <1>1, <1>2, <1>3

LEMMA GoodVerify ==
    ASSUME Sound(db), page \in [Devices -> Pages], NEW d \in Devices, NEW right \in BOOLEAN
    PROVE  GoodReply(d, Verify2fa(d, right))
<1> DEFINE r == Verify2fa(d, right)
           a == ConsumePreAuth(db, d)
           b == UseWindow(a)
           c == OpenSession(b, d)
           answer == At(d, "in")
<1>1. \/ r = Refuse(<<>>)
      \/ db.pre[d] = "verify_totp" /\ r = Refuse(<<a>>)
      \/ /\ db.pre[d] = "verify_totp" /\ db.user.secret # None /\ a.user.last # "now"
         /\ r = Reply(<<a, b, c>>, answer)
  BY DEF Verify2fa, AcceptsCode
<1>2. CASE r = Refuse(<<>>)
  BY <1>2, ReplyOfNone
<1>3. db.pre[d] = "verify_totp" => db.user # None
  BY NoneIsNothing DEF Sound, Purposes
<1>4. Sound(a) /\ a.user = db.user /\ a.session = db.session
  BY ConsumeIsSound
<1> HIDE DEF a
<1>5. Quiet(d, a)
  BY <1>4 DEF Quiet, Left
<1>6. CASE r = Refuse(<<a>>)
  BY <1>5, <1>6, ReplyOfOne
<1>7. CASE db.pre[d] = "verify_totp" /\ db.user.secret # None /\ a.user.last # "now"
           /\ r = Reply(<<a, b, c>>, answer)
  <2>1. Sound(b) /\ SameAccount(a, b) /\ b.user # None
    BY <1>3, <1>4, <1>7, UseIsSound DEF SameAccount
  <2> HIDE DEF b
  <2>2. Sound(c) /\ c.user = b.user /\ c.session = b.session \cup {d}
    BY <2>1, OpenIsSound
  <2>3. answer \in Pages /\ answer.step = "in" /\ answer # None
    BY PageFields, NoneIsNothing DEF Steps
  <2> HIDE DEF c, answer
  <2>4. Quiet(d, b)
    BY <1>3, <1>4, <1>7, <2>1 DEF Quiet, Left, SameAccount
  <2>5. Opens(d, c, answer)
    BY <1>3, <1>4, <1>7, <2>1, <2>2, <2>3 DEF Opens, Left, SameAccount
  <2> QED
    BY <1>5, <1>7, <2>3, <2>4, <2>5, ReplyOfThree
<1> QED
  BY <1>1, <1>2, <1>6, <1>7

\* The authenticator has what the pages show, and nothing but that and what the row has.
Scanned ==
    /\ \A d \in Devices : page[d].secret \in app \cup {None}
    /\ app \subseteq {page[d].secret : d \in Devices} \cup
                     (IF db.user = None THEN {} ELSE {db.user.secret, db.user.pending})

\* While no secret is confirmed the pool has one that nobody holds.
LEMMA FreshIsSecret ==
    ASSUME Sound(db), db.user # None, db.user.secret = None, Scanned, page \in [Devices -> Pages]
    PROVE  Fresh(db) \in Secrets
<1> DEFINE shown == [d \in Devices |-> page[d].secret]
<1>1. shown \in [Devices -> Secrets \cup {None}]
  BY DEF Pages
<1>2. db.user.pending \in Secrets \cup {None}
  BY DEF Sound, Dbs, Rows
<1>3. PICK x \in Secrets : x # db.user.pending /\ \A d \in Devices : shown[d] # x
  BY ONLY <1>1, <1>2, AccessAssumption
<1>4. \A d \in Devices : page[d].secret # x
  BY <1>3
<1>5. x # None
  BY NoneIsNothing
<1>6. x \notin app
  BY <1>3, <1>4, <1>5 DEF Scanned
<1>7. x \notin {db.user.secret, db.user.pending} \cup app \cup {page[d].secret : d \in Devices}
  BY <1>3, <1>4, <1>5, <1>6
<1> QED
  BY <1>7 DEF Fresh

LEMMA GoodSetup ==
    ASSUME Sound(db), Scanned, page \in [Devices -> Pages], NEW d \in Devices
    PROVE  GoodReply(d, SetupTotp(d))
<1> DEFINE r == SetupTotp(d)
           x == Fresh(db)
           a == ConsumePreAuth(db, d)
           b == StorePending(a, x)
           c == CreatePreAuth(b, d, "setup_totp_enable")
           answer == [At(d, "setup_totp_qr") EXCEPT !.secret = x]
<1>1. \/ r = Refuse(<<>>)
      \/ r = Refuse(<<a>>)
      \/ /\ db.pre[d] = "setup_totp" /\ db.user.secret = None
         /\ r = Reply(<<a, b, c>>, answer)
  BY DEF SetupTotp, Configured
<1>2. CASE r = Refuse(<<>>)
  BY <1>2, ReplyOfNone
<1>3. db.pre[d] = "setup_totp" => db.user # None
  BY NoneIsNothing DEF Sound, Purposes
<1>4. Sound(a) /\ a.user = db.user /\ a.session = db.session
  BY ConsumeIsSound
<1> HIDE DEF a
<1>5. Quiet(d, a)
  BY <1>4 DEF Quiet, Left
<1>6. CASE r = Refuse(<<a>>)
  BY <1>5, <1>6, ReplyOfOne
<1>7. CASE db.pre[d] = "setup_totp" /\ db.user.secret = None /\ r = Reply(<<a, b, c>>, answer)
  <2>0. x \in Secrets
    BY <1>3, <1>7, FreshIsSecret
  <2> HIDE DEF x
  <2>1. Sound(b) /\ SameAccount(a, b) /\ b.user # None
    BY <1>3, <1>4, <1>7, <2>0, PendingIsSound DEF SameAccount
  <2> HIDE DEF b
  <2>2. Sound(c) /\ c.user = b.user /\ c.session = b.session
    BY <2>1, CreateIsSound DEF Purposes
  <2>3. answer \in Pages
    BY <2>0, PageFields DEF Steps
  <2> HIDE DEF c, answer
  <2>4. Quiet(d, b)
    BY <1>3, <1>4, <1>7, <2>1 DEF Quiet, Left, SameAccount
  <2>5. Opens(d, c, answer)
    BY <1>3, <1>4, <1>7, <2>1, <2>2 DEF Opens, Left, SameAccount
  <2> QED
    BY <1>5, <1>7, <2>3, <2>4, <2>5, ReplyOfThree
<1> QED
  BY <1>1, <1>2, <1>6, <1>7

\* The confirmed secret is the one on the page, which the authenticator has.
LEMMA GoodEnable ==
    ASSUME Sound(db), Scanned, page \in [Devices -> Pages], NEW d \in Devices, NEW right \in BOOLEAN
    PROVE  GoodReply(d, EnableTotp(d, right))
<1> DEFINE r == EnableTotp(d, right)
           p == db.user.pending
           a == ConsumePreAuth(db, d)
           b == UseWindow(a)
           c == [b EXCEPT !.user.secret = p, !.user.pending = None, !.user.force = FALSE]
           e == OpenSession(c, d)
           answer == At(d, "in")
<1>1. \/ r = Refuse(<<>>)
      \/ r = Refuse(<<a>>)
      \/ /\ db.pre[d] = "setup_totp_enable" /\ p # None /\ page[d].secret = p /\ a.user.last # "now"
         /\ r = Reply(<<a, b, c, e>>, answer)
  BY DEF EnableTotp, AcceptsCode
<1>2. CASE r = Refuse(<<>>)
  BY <1>2, ReplyOfNone
<1>3. db.pre[d] = "setup_totp_enable" => db.user # None
  BY NoneIsNothing DEF Sound, Purposes
<1>4. Sound(a) /\ a.user = db.user /\ a.session = db.session
  BY ConsumeIsSound
<1> HIDE DEF a
<1>5. Quiet(d, a)
  BY <1>4 DEF Quiet, Left
<1>6. CASE r = Refuse(<<a>>)
  BY <1>5, <1>6, ReplyOfOne
<1>7. CASE db.pre[d] = "setup_totp_enable" /\ p # None /\ page[d].secret = p /\ a.user.last # "now"
           /\ r = Reply(<<a, b, c, e>>, answer)
  <2>1. Sound(b) /\ SameAccount(a, b) /\ b.user # None
    BY <1>3, <1>4, <1>7, UseIsSound DEF SameAccount
  <2>2. p \in app /\ p \in Secrets
    BY <1>3, <1>7 DEF Scanned, Sound, Dbs, Rows
  <2> HIDE DEF b, p
  <2>3. b \in Dbs /\ b.user \in Rows /\ RowOK(b.user)
    BY <2>1 DEF Sound, Dbs
  <2> DEFINE u == [b.user EXCEPT !.secret = p, !.pending = None, !.force = FALSE]
  <2>4. c = [b EXCEPT !.user = u]
    BY <2>3 DEF Dbs, Rows
  <2>5. /\ u \in Rows /\ u.pwd = b.user.pwd /\ u.locked = b.user.locked /\ u.secret = p
        /\ u.uses = b.user.uses /\ u.last = b.user.last /\ u.attempts = b.user.attempts
    BY <2>2, <2>3 DEF Rows
  <2> HIDE DEF u
  <2>6. RowOK(u)
    BY <2>2, <2>3, <2>5 DEF RowOK
  <2> HIDE DEF c
  <2>7. Sound(c) /\ c.user = u /\ c.session = b.session /\ c.user # None
    BY <2>1, <2>4, <2>5, <2>6, RowIsSound
  <2>8. Sound(e) /\ e.user = c.user /\ e.session = c.session \cup {d}
    BY <2>7, OpenIsSound
  <2>9. answer \in Pages /\ answer.step = "in" /\ answer # None
    BY PageFields, NoneIsNothing DEF Steps
  <2> HIDE DEF e, answer
  <2>10. Quiet(d, b)
    BY <1>3, <1>4, <1>7, <2>1 DEF Quiet, Left, SameAccount
  <2>11. Quiet(d, c)
    BY <1>3, <1>4, <1>7, <2>1, <2>5, <2>7 DEF Quiet, Left, SameAccount
  <2>12. p # None
    BY <2>2, NoneIsNothing
  <2>13. Opens(d, e, answer)
    BY <1>3, <1>4, <1>7, <2>1, <2>5, <2>7, <2>8, <2>9, <2>12 DEF Opens, Left, SameAccount
  <2> QED
    BY <1>5, <1>7, <2>9, <2>10, <2>11, <2>13, ReplyOfFour
<1> QED
  BY <1>1, <1>2, <1>6, <1>7

\* The two commits of a password change: no session, and then the new password.
LEMMA ReplaceIsSound ==
    ASSUME NEW s, Sound(s), s.user # None, NEW u \in Rows, RowOK(u)
    PROVE  LET x == RemoveAllTokens(s)
               y == [RemoveAllTokens(s) EXCEPT !.user = u] IN
           /\ Replace(s, u) = <<x, y>>
           /\ Last(Replace(s, u)) = y
           /\ Sound(x) /\ x.user = s.user /\ x.session = {}
           /\ Sound(y) /\ y.user = u /\ y.session = {} /\ y.user # None
<1> DEFINE x == RemoveAllTokens(s)
           y == [RemoveAllTokens(s) EXCEPT !.user = u]
<1>1. Replace(s, u) = <<x, y>>
  BY DEF Replace
<1>2. Sound(x) /\ x.user = s.user /\ x.session = {}
  BY RemoveIsSound
<1>3. y = [x EXCEPT !.user = u]
  OBVIOUS
<1> HIDE DEF x, y
<1>4. Sound(y) /\ y.user = u /\ y.session = {} /\ y.user # None
  BY <1>2, <1>3, RowIsSound
<1>5. Last(<<x, y>>) = y
  BY DEF Last
<1> QED
  BY <1>1, <1>2, <1>4, <1>5 DEF x, y

LEMMA GoodPreauthChange ==
    ASSUME Sound(db), streak \in Nat, page \in [Devices -> Pages], NEW d \in Devices,
           NEW strong \in BOOLEAN
    PROVE  GoodReply(d, ChangePasswordPreauth(d, strong))
<1> DEFINE r == ChangePasswordPreauth(d, strong)
           a == ConsumePreAuth(db, d)
           u == SetUserPassword(a, OtherPassword(db)).user
           changed == Replace(a, u)
           x == RemoveAllTokens(a)
           y == [RemoveAllTokens(a) EXCEPT !.user = u]
           e == OpenSession(y, d)
           f == CreatePreAuth(y, d, "setup_totp")
           answer == At(d, "in")
           towards == Towards(d, "setup_totp")
<1>1. \/ r = Refuse(<<>>)
      \/ r = Refuse(<<a>>)
      \/ /\ db.pre[d] = "change_password" /\ db.user.secret # None
         /\ r = Reply(<<a>> \o changed \o <<OpenSession(Last(changed), d)>>, answer)
      \/ /\ db.pre[d] = "change_password" /\ db.user.secret = None
         /\ r = Reply(<<a>> \o changed \o <<CreatePreAuth(Last(changed), d, "setup_totp")>>, towards)
  BY DEF ChangePasswordPreauth, Configured
<1>2. CASE r = Refuse(<<>>)
  BY <1>2, ReplyOfNone
<1>3. db.pre[d] = "change_password" => db.user # None
  BY NoneIsNothing DEF Sound, Purposes
<1>4. Sound(a) /\ a.user = db.user /\ a.session = db.session
  BY ConsumeIsSound
<1> HIDE DEF a
<1>5. Quiet(d, a)
  BY <1>4 DEF Quiet, Left
<1>6. CASE r = Refuse(<<a>>)
  BY <1>5, <1>6, ReplyOfOne
<1>7. CASE db.pre[d] = "change_password" /\ r # Refuse(<<>>) /\ r # Refuse(<<a>>)
  <2>1. OtherPassword(db) \in {"own", "other"}
    BY DEF OtherPassword
  <2>2. u \in Rows /\ RowOK(u) /\ u.locked = db.user.locked /\ u.secret = db.user.secret
    BY <1>3, <1>4, <1>7, <2>1, StoredIsSound
  <2> HIDE DEF u
  <2>3. /\ changed = <<x, y>> /\ Last(changed) = y
        /\ Sound(x) /\ x.user = db.user /\ x.session = {}
        /\ Sound(y) /\ y.user = u /\ y.session = {} /\ y.user # None
    BY <1>3, <1>4, <1>7, <2>2, ReplaceIsSound
  <2> HIDE DEF changed, x, y
  <2>4. Quiet(d, x) /\ Quiet(d, y)
    BY <1>3, <1>7, <2>2, <2>3 DEF Quiet, Left
  <2>5. /\ Sound(e) /\ e.user = u /\ e.session = {d}
        /\ Sound(f) /\ f.user = u /\ f.session = {}
    BY <2>3, OpenIsSound, CreateIsSound DEF Purposes
  <2>6. answer \in Pages /\ answer.step = "in" /\ answer # None /\ towards \in Pages
    BY PageFields, NoneIsNothing DEF Steps
  <2> HIDE DEF e, f, answer, towards
  <2>7. \A z : <<a>> \o <<x, y>> \o <<z>> = <<a, x, y, z>>
    <3> TAKE z
    <3> QED
      BY ONLY FourInARow, a \in {a, x, y, z}, x \in {a, x, y, z}, y \in {a, x, y, z}, z \in {a, x, y, z}
  <2>8. CASE db.user.secret # None
            /\ r = Reply(<<a>> \o changed \o <<OpenSession(Last(changed), d)>>, answer)
    <3>1. r = Reply(<<a, x, y, e>>, answer)
      BY <2>3, <2>7, <2>8 DEF e
    <3>2. Opens(d, e, answer)
      BY <1>3, <1>7, <2>2, <2>3, <2>5, <2>6, <2>8 DEF Opens, Left
    <3> QED
      BY <1>5, <2>4, <2>6, <3>1, <3>2, ReplyOfFour
  <2>9. CASE r = Reply(<<a>> \o changed \o <<CreatePreAuth(Last(changed), d, "setup_totp")>>, towards)
    <3>1. r = Reply(<<a, x, y, f>>, towards)
      BY <2>3, <2>7, <2>9 DEF f
    <3>2. Opens(d, f, towards)
      BY <1>3, <1>7, <2>2, <2>3, <2>5 DEF Opens, Left
    <3> QED
      BY <1>5, <2>4, <2>6, <3>1, <3>2, ReplyOfFour
  <2> QED
    BY <1>1, <1>7, <2>8, <2>9
<1> QED
  BY <1>1, <1>2, <1>6, <1>7

LEMMA GoodChange ==
    ASSUME Sound(db), streak \in Nat, page \in [Devices -> Pages], NEW d \in Devices,
           NEW right \in BOOLEAN, NEW strong \in BOOLEAN
    PROVE  LET r == ChangePassword(d, right, strong) IN
           /\ GoodReply(d, r)
           /\ r.answer # None => /\ r.answer.step = "in"
                                /\ Last(<<db>> \o r.commits).user.secret # None
<1> DEFINE r == ChangePassword(d, right, strong)
           a == UseWindow(db)
           u == StorePassword(a, OtherPassword(db)).user
           changed == Replace(a, u)
           x == RemoveAllTokens(a)
           y == [RemoveAllTokens(a) EXCEPT !.user = u]
           e == OpenSession(y, d)
           answer == At(d, "in")
<1>1. \/ r = Refuse(<<>>)
      \/ /\ d \in db.session /\ db.user.secret # None /\ db.user.last # "now"
         /\ \/ r = Refuse(<<a>>)
            \/ r = Reply(<<a>> \o changed \o <<OpenSession(Last(changed), d)>>, answer)
  BY DEF ChangePassword, AcceptsCode
<1> DEFINE Goal == /\ GoodReply(d, r)
                   /\ r.answer # None => /\ r.answer.step = "in"
                                        /\ Last(<<db>> \o r.commits).user.secret # None
<1>2. ASSUME r = Refuse(<<>>) PROVE Goal
  <2>1. GoodReply(d, r)
    BY <1>2, ReplyOfNone
  <2>2. r.answer = None
    BY <1>2 DEF Refuse, Reply
  <2> QED
    BY <2>1, <2>2
<1>3. ASSUME d \in db.session, db.user.secret # None, db.user.last # "now", r # Refuse(<<>>)
      PROVE  Goal
  <2>0. db.user # None
    BY <1>3 DEF Sound
  <2>1. OtherPassword(db) \in {"own", "other"}
    BY DEF OtherPassword
  <2>2. Sound(a) /\ SameAccount(db, a) /\ a.user # None
    BY <1>3, <2>0, UseIsSound DEF SameAccount
  <2> HIDE DEF a
  <2>3. u \in Rows /\ RowOK(u) /\ u.locked = db.user.locked /\ u.secret = db.user.secret
    BY <2>1, <2>2, StoredIsSound DEF SameAccount
  <2> HIDE DEF u
  <2>4. /\ changed = <<x, y>> /\ Last(changed) = y
        /\ Sound(x) /\ x.user = a.user /\ x.session = {}
        /\ Sound(y) /\ y.user = u /\ y.session = {} /\ y.user # None
    BY <2>2, <2>3, ReplaceIsSound
  <2> HIDE DEF changed, x, y
  <2>5. Quiet(d, a) /\ Quiet(d, x) /\ Quiet(d, y)
    BY <2>0, <2>2, <2>3, <2>4 DEF Quiet, Left, SameAccount
  <2>6. Sound(e) /\ e.user = u /\ e.session = {d}
    BY <2>4, OpenIsSound
  <2>7. answer \in Pages /\ answer.step = "in" /\ answer # None
    BY PageFields, NoneIsNothing DEF Steps
  <2> HIDE DEF e, answer, r
  <2>8. ASSUME r = Refuse(<<a>>) PROVE Goal
    <3>1. GoodReply(d, r)
      BY <2>5, <2>8, ReplyOfOne
    <3>2. r.answer = None
      BY <2>8 DEF Refuse, Reply
    <3> QED
      BY <3>1, <3>2
  <2>9. ASSUME r = Reply(<<a>> \o changed \o <<OpenSession(Last(changed), d)>>, answer)
        PROVE  Goal
    <3>1. <<a>> \o <<x, y>> \o <<e>> = <<a, x, y, e>>
      BY ONLY FourInARow, a \in {a, x, y, e}, x \in {a, x, y, e}, y \in {a, x, y, e}, e \in {a, x, y, e}
    <3>2. r = Reply(<<a, x, y, e>>, answer)
      BY <2>4, <2>9, <3>1 DEF e
    <3>3. Opens(d, e, answer)
      BY <1>3, <2>0, <2>2, <2>3, <2>6, <2>7 DEF Opens, Left, SameAccount
    <3>4. GoodReply(d, r)
      BY <2>5, <2>7, <3>2, <3>3, ReplyOfFour
    <3>5. r.commits = <<a, x, y, e>> /\ r.answer = answer
      BY <3>2 DEF Reply
    <3>6. db \in Dbs /\ a \in Dbs /\ x \in Dbs /\ y \in Dbs /\ e \in Dbs
      BY <2>2, <2>4, <2>6 DEF Sound
    <3>7. Last(<<db>> \o <<a, x, y, e>>) = e
      BY ONLY <3>6, EndOfFour
    <3>8. Last(<<db>> \o r.commits).user.secret # None
      BY <1>3, <2>3, <2>6, <3>5, <3>7
    <3> QED
      BY <2>7, <3>4, <3>5, <3>8
  <2> HIDE DEF Goal
  <2>10. \/ r = Refuse(<<a>>)
         \/ r = Reply(<<a>> \o changed \o <<OpenSession(Last(changed), d)>>, answer)
    BY <1>1, <1>3 DEF r
  <2> QED
    BY <2>8, <2>9, <2>10 DEF r
<1> HIDE DEF Goal
<1>4. Goal
  BY <1>1, <1>2, <1>3
<1> QED
  BY <1>4 DEF Goal
-----------------------------------------------------------------------------
(* The invariant                                                           *)

HolderIsIn == \A d \in Devices : d \in db.session => page[d].step = "in"

AccessInv ==
    /\ Sound(db) /\ Scanned /\ HolderIsIn
    /\ page \in [Devices -> Pages] /\ app \subseteq Secrets
    /\ streak \in Nat /\ slips \in 0..MaxSlips /\ admin \in 0..MaxAdmin

\* What a step may do: the bodies of the three action properties.
EnrolledStep == db'.session \subseteq db.session \/ db'.user.secret # None
ChangeStep ==
    db.user # None /\ db'.user # None /\ db'.user.pwd \in {"own", "other"} /\ db'.user.pwd # db.user.pwd
       => db'.session = {} \/ \E d \in Devices : db'.session \subseteq {d, Lost} /\ Cardinality(db'.session) = 1
                                               /\ (page'[d].step = "in" \/ db'.session = {Lost})
LockStep == admin' = admin /\ db.user # None /\ db'.user # None /\ ~db.user.locked /\ db'.user.locked
               => streak' + 1 >= MaxFailures

\* What is scanned, and what is forgotten: the authenticator keeps the user's secret.
LEMMA Scanning ==
    ASSUME page' \in [Devices -> Pages], app \subseteq Secrets, Sound(db'), Scan
    PROVE  /\ app' \subseteq Secrets /\ Scanned'
           /\ db'.user # None => db'.user.secret \in app' \cup {None}
<1> DEFINE shown == {page'[d].secret : d \in Devices} \ {None}
<1>1. app' = {x \in app \cup shown : \/ x \in shown
                                     \/ db'.user # None /\ x \in {db'.user.secret, db'.user.pending}}
  BY DEF Scan
<1>2. \A d \in Devices : page'[d].secret \in Secrets \cup {None}
  BY DEF Pages
<1>3. \A d \in Devices : page'[d].secret \in shown \cup {None}
  OBVIOUS
<1>4. shown \subseteq Secrets /\ shown \subseteq {page'[d].secret : d \in Devices}
  BY <1>2
<1>5. db'.user # None => db'.user.secret \in app \cup {None}
  BY DEF Sound, RowOK
<1> HIDE DEF shown
<1>6. app' \subseteq Secrets
  BY <1>1, <1>4
<1>7. db'.user # None => db'.user.secret \in app' \cup {None}
  BY <1>1, <1>5
<1>8. \A d \in Devices : page'[d].secret \in app' \cup {None}
  BY <1>1, <1>3
<1>9. \A x \in app' : x \in {page'[d].secret : d \in Devices} \cup
                            (IF db'.user = None THEN {} ELSE {db'.user.secret, db'.user.pending})
  BY <1>1, <1>4
<1>10. Scanned'
  BY <1>8, <1>9 DEF Scanned
<1> QED
  BY <1>6, <1>7, <1>10

\* The same row, against the authenticator and the count of the next state.
LEMMA SoundNext ==
    ASSUME Sound(db'), streak' \in Nat,
           db'.user # None => db'.user.secret \in app' \cup {None} /\ db'.user.attempts <= streak'
    PROVE  Sound(db)'
  BY DEF Sound, RowOK

LEMMA DroppedIsSound ==
    ASSUME NEW s, Sound(s), NEW d \in Devices
    PROVE  LET t == Dropped(s, d) IN Sound(t) /\ t.user = s.user /\ t.session = s.session
<1>1. CASE page[d].step = "setup"
  BY <1>1, ConsumeIsSound DEF Dropped
<1>2. CASE page[d].step # "setup"
  BY <1>2 DEF Dropped
<1> QED
  BY <1>1, <1>2

LEMMA UnansweredIsSound ==
    ASSUME NEW s, Sound(s), NEW d \in Devices
    PROVE  LET t == Unanswered(s, d) IN
           /\ Sound(t) /\ t.user = s.user
           /\ t.session = IF d \in s.session THEN (s.session \ {d}) \cup {Lost} ELSE s.session
<1> DEFINE S == IF d \in s.session THEN (s.session \ {d}) \cup {Lost} ELSE s.session
           u == ConsumePreAuth(s, d)
           t == [u EXCEPT !.session = S]
<1>1. Sound(u) /\ u.user = s.user /\ u.session = s.session /\ u.pre[d] = None
  BY ConsumeIsSound
<1>2. S \in SUBSET (Devices \cup {Lost}) /\ (s.session = {} => S = {})
  BY DEF Sound, Dbs
<1>3. Unanswered(s, d) = t
  BY DEF Unanswered, ConsumePreAuth, Sound, Dbs
<1> HIDE DEF u, S
<1>4. t \in Dbs /\ t.user = u.user /\ t.pre = u.pre /\ t.session = S
  BY <1>1, <1>2, SessionFields DEF Sound
<1> HIDE DEF t
<1>5. Sound(t)
  BY <1>1, <1>2, <1>4 DEF Sound
<1> QED
  BY <1>1, <1>3, <1>4, <1>5 DEF S

\* What a request may do, before the counts of its step are compared.
RequestPromise ==
    /\ Sound(db') /\ page' \in [Devices -> Pages] /\ HolderIsIn' /\ EnrolledStep /\ ChangeStep
    /\ db'.user # None => db.user # None /\ (db'.user.locked => db.user.locked)

\* At most its own session is left when a request has changed the password.
LEMMA ChangedAlone ==
    ASSUME HolderIsIn', NEW d \in Devices,
           db'.user # None /\ db'.user.pwd # db.user.pwd => db'.session \subseteq {d}
    PROVE  ChangeStep
<1>1. ASSUME db'.session \subseteq {d}
      PROVE  db'.session = {} \/ (db'.session = {d} /\ page'[d].step = "in")
  BY <1>1 DEF HolderIsIn
<1>2. Cardinality({d}) = 1
  BY FS_Singleton
<1> QED
  BY <1>1, <1>2 DEF ChangeStep

\* Refused, or failing before its last statement.
LEMMA RequestFails ==
    ASSUME AccessInv, NEW d \in Devices, NEW s, Left(d, s), s.session \subseteq db.session,
           db' = Dropped(s, d), page' = [page EXCEPT ![d] = Refused(d)]
    PROVE  RequestPromise
<1>1. Sound(db') /\ db'.user = s.user /\ db'.session = s.session
  BY DroppedIsSound DEF Left
<1>2. page[d] \in Pages /\ page[d].from \in Steps
  BY DEF AccessInv, Pages
<1>3. At(d, page[d].from) \in Pages
  BY <1>2, PageFields DEF AccessInv
<1>4. Refused(d) \in Pages /\ (page[d].step = "in" => Refused(d) = page[d])
  BY <1>2, <1>3 DEF Refused
<1>5. page' \in [Devices -> Pages] /\ \A e \in Devices : page[e].step = "in" => page'[e] = page[e]
  BY <1>4 DEF AccessInv
<1>6. HolderIsIn'
  BY <1>1, <1>5 DEF AccessInv, HolderIsIn
<1>7. db'.user # None => /\ db.user # None /\ (db'.user.locked => db.user.locked)
                         /\ db'.user.pwd # db.user.pwd => db'.session \subseteq {d}
  BY <1>1 DEF Left
<1>8. ChangeStep
  BY <1>6, <1>7, ChangedAlone
<1>9. EnrolledStep
  BY <1>1 DEF EnrolledStep
<1> QED
  BY <1>1, <1>5, <1>6, <1>7, <1>8, <1>9 DEF RequestPromise

\* Answered: a session it opened has its page, which is in.
LEMMA RequestAnswers ==
    ASSUME AccessInv, NEW d \in Devices, NEW s, Left(d, s), NEW answer \in Pages,
           d \in s.session => answer.step = "in",
           db' = s, page' = [page EXCEPT ![d] = answer]
    PROVE  RequestPromise
<1>1. page' \in [Devices -> Pages] /\ page'[d] = answer /\ \A e \in Devices \ {d} : page'[e] = page[e]
  BY DEF AccessInv
<1>2. HolderIsIn'
  BY <1>1 DEF AccessInv, HolderIsIn, Left
<1>3. db'.user # None => /\ db.user # None /\ (db'.user.locked => db.user.locked)
                         /\ db'.user.pwd # db.user.pwd => db'.session \subseteq {d}
  BY DEF Left
<1>4. ChangeStep
  BY <1>2, <1>3, ChangedAlone
<1>5. EnrolledStep
  BY DEF EnrolledStep, Left
<1> QED
  BY <1>1, <1>2, <1>3, <1>4, <1>5 DEF RequestPromise, Left

\* Answered in vain: a session it opened belongs to nobody.
LEMMA RequestGetsLost ==
    ASSUME AccessInv, NEW d \in Devices, NEW s, Left(d, s),
           d \in db.session => s.user.secret # None,
           db' = Unanswered(s, d), page' = [page EXCEPT ![d] = Refused(d)]
    PROVE  RequestPromise
<1>1. /\ Sound(db') /\ db'.user = s.user
      /\ db'.session = IF d \in s.session THEN (s.session \ {d}) \cup {Lost} ELSE s.session
  BY UnansweredIsSound DEF Left
<1>2. page[d] \in Pages /\ page[d].from \in Steps
  BY DEF AccessInv, Pages
<1>3. At(d, page[d].from) \in Pages
  BY <1>2, PageFields DEF AccessInv
<1>4. Refused(d) \in Pages
  BY <1>2, <1>3 DEF Refused
<1>5. page' \in [Devices -> Pages] /\ \A e \in Devices \ {d} : page'[e] = page[e]
  BY <1>4 DEF AccessInv
<1>6. Lost \notin Devices
  BY AccessAssumption
<1>7. d \notin db'.session /\ db'.session \subseteq db.session \cup {Lost}
  BY <1>1, <1>6 DEF Left
<1>8. HolderIsIn'
  BY <1>5, <1>6, <1>7 DEF AccessInv, HolderIsIn
<1>9. db'.user # None => /\ db.user # None /\ (db'.user.locked => db.user.locked)
                         /\ db'.user.pwd # db.user.pwd => db'.session \subseteq {Lost}
  BY <1>1 DEF Left
<1>10. ChangeStep
  <2>1. Cardinality({Lost}) = 1
    BY FS_Singleton
  <2>2. db'.session \subseteq {Lost} => db'.session = {} \/ db'.session = {Lost}
    OBVIOUS
  <2> QED
    BY <1>9, <2>1, <2>2 DEF ChangeStep
<1>11. EnrolledStep
  BY <1>1 DEF EnrolledStep, Left
<1> QED
  BY <1>1, <1>5, <1>8, <1>9, <1>10, <1>11 DEF RequestPromise

LEMMA RequestIsSound ==
    ASSUME AccessInv, NEW d \in Devices, NEW r, GoodReply(d, r), Request(d, r),
           r.answer # None /\ d \in db.session => /\ r.answer.step = "in"
                                                  /\ Last(<<db>> \o r.commits).user.secret # None
    PROVE  /\ RequestPromise /\ slips' \in 0..MaxSlips /\ admin' = admin
           /\ \/ r.answer # None /\ db' = Last(<<db>> \o r.commits)
                 /\ page' = [page EXCEPT ![d] = r.answer]
              \/ page' = [page EXCEPT ![d] = Refused(d)]
<1> DEFINE c == r.commits
           t == <<db>> \o c
           whole == Last(t)
<1>1. c \in Seq(Dbs)
  BY DEF GoodReply
<1>2. db \in Dbs
  BY DEF AccessInv, Sound
<1>3. /\ Len(t) = Len(c) + 1 /\ t[1] = db /\ whole = t[Len(c) + 1] /\ Len(c) \in Nat
      /\ \A n \in 1..Len(c) : t[n + 1] = c[n]
  BY ONLY <1>1, <1>2, States
<1>4. Left(d, db)
  BY DEF Left, AccessInv
<1>5. \A n \in 1..Len(c) : /\ Left(d, c[n])
                           /\ \/ c[n].session \subseteq db.session
                              \/ n = Len(c) /\ r.answer # None /\ r.answer.step = "in"
  BY DEF GoodReply
<1>6. r.answer \in Pages \cup {None}
  BY DEF GoodReply
<1>7. slips' \in 0..MaxSlips /\ admin' = admin
  BY AccessAssumption DEF Request, Slip, AccessInv
<1>r. \/ r.answer # None /\ db' = whole /\ page' = [page EXCEPT ![d] = r.answer]
      \/ r.answer = None /\ db' = Dropped(whole, d) /\ page' = [page EXCEPT ![d] = Refused(d)]
      \/ /\ \E n \in 1..(Len(t) - 1) : db' = Dropped(t[n], d)
         /\ page' = [page EXCEPT ![d] = Refused(d)]
      \/ r.answer # None /\ db' = Unanswered(whole, d) /\ page' = [page EXCEPT ![d] = Refused(d)]
  BY DEF Request
<1> HIDE DEF c, t, whole
<1>8. \A n \in 1..(Len(c) + 1) :
          /\ Left(d, t[n])
          /\ t[n].session \subseteq db.session \/ (n = Len(c) + 1 /\ r.answer # None /\ r.answer.step = "in")
  <2> TAKE n \in 1..(Len(c) + 1)
  <2>1. n = 1 \/ (n - 1 \in 1..Len(c) /\ (n - 1) + 1 = n)
    BY <1>3
  <2>2. CASE n = 1
    BY <1>3, <1>4, <2>2
  <2>3. CASE n - 1 \in 1..Len(c) /\ (n - 1) + 1 = n
    <3>1. t[n] = c[n - 1]
      BY <1>3, <2>3
    <3>2. n - 1 = Len(c) => n = Len(c) + 1
      BY <1>3, <2>3
    <3> QED
      BY <1>5, <2>3, <3>1, <3>2
  <2> QED
    BY <2>1, <2>2, <2>3
<1>9. /\ Left(d, whole)
      /\ whole.session \subseteq db.session \/ (r.answer # None /\ r.answer.step = "in")
  <2>1. Len(c) + 1 \in 1..(Len(c) + 1)
    BY <1>3
  <2> QED
    BY <1>3, <1>8, <2>1
<1>10. \A n \in 1..(Len(t) - 1) : Left(d, t[n]) /\ t[n].session \subseteq db.session
  <2> TAKE n \in 1..(Len(t) - 1)
  <2>1. n \in 1..(Len(c) + 1) /\ n # Len(c) + 1
    BY <1>3
  <2> QED
    BY <1>8, <2>1
<1>11. r.answer # None /\ d \in db.session => r.answer.step = "in" /\ whole.user.secret # None
  BY DEF whole, t, c
<1>12. ASSUME r.answer # None, db' = whole, page' = [page EXCEPT ![d] = r.answer]
       PROVE  RequestPromise
  <2>1. r.answer \in Pages
    BY <1>6, <1>12
  <2>2. d \in whole.session => r.answer.step = "in"
    BY <1>9, <1>11, <1>12
  <2> QED
    BY ONLY AccessInv, d \in Devices, <1>9, <1>12, <2>1, <2>2, RequestAnswers
<1>13. ASSUME r.answer = None, db' = Dropped(whole, d), page' = [page EXCEPT ![d] = Refused(d)]
       PROVE  RequestPromise
  BY <1>9, <1>13, RequestFails
<1>14. ASSUME NEW n \in 1..(Len(t) - 1), db' = Dropped(t[n], d), page' = [page EXCEPT ![d] = Refused(d)]
       PROVE  RequestPromise
  BY <1>10, <1>14, RequestFails
<1>15. ASSUME r.answer # None, db' = Unanswered(whole, d), page' = [page EXCEPT ![d] = Refused(d)]
       PROVE  RequestPromise
  BY <1>9, <1>11, <1>15, RequestGetsLost
<1>16. RequestPromise
  BY <1>r, <1>12, <1>13, <1>14, <1>15
<1> QED
  BY <1>7, <1>16, <1>r DEF whole, t, c

-----------------------------------------------------------------------------
(* The steps                                                               *)

Promise == AccessInv' /\ EnrolledStep /\ ChangeStep /\ LockStep

LEMMA RequestKeepsPromise ==
    ASSUME AccessInv, RequestPromise, Scan, slips' \in 0..MaxSlips, admin' = admin,
           streak' \in Nat, db'.user # None => db'.user.attempts <= streak'
    PROVE  Promise
<1>1. app' \subseteq Secrets /\ Scanned' /\ (db'.user # None => db'.user.secret \in app' \cup {None})
  BY Scanning DEF RequestPromise, AccessInv
<1>2. Sound(db)'
  BY <1>1, SoundNext DEF RequestPromise
<1>3. LockStep
  BY DEF RequestPromise, LockStep
<1>4. admin' \in 0..MaxAdmin
  BY DEF AccessInv
<1> QED
  BY <1>1, <1>2, <1>3, <1>4 DEF Promise, RequestPromise, AccessInv

LEMMA PasswordStepKeeps ==
    ASSUME AccessInv, NEW d \in Devices, Password(d)
    PROVE  Promise
<1> DEFINE r == LoginWithPassword(d, TRUE)
<1>1. page[d].step = "password" /\ Request(d, r)
      /\ streak' = IF page'[d].step # "password" THEN 0 ELSE streak
  BY DEF Password
<1>2. GoodReply(d, r) /\ (r.answer # None => Last(<<db>> \o r.commits).user.attempts = 0)
  BY GoodLogin DEF AccessInv
<1>3. d \notin db.session
  BY <1>1 DEF AccessInv, HolderIsIn
<1> HIDE DEF r
<1>4. /\ RequestPromise /\ slips' \in 0..MaxSlips /\ admin' = admin
      /\ \/ r.answer # None /\ db' = Last(<<db>> \o r.commits)
            /\ page' = [page EXCEPT ![d] = r.answer]
         \/ page' = [page EXCEPT ![d] = Refused(d)]
  BY <1>1, <1>2, <1>3, RequestIsSound
<1>5. Scan
  BY <1>1 DEF Request
<1>6. streak' \in Nat
  BY <1>1 DEF AccessInv
<1>7. db'.user # None => db'.user.attempts <= streak'
  <2>1. CASE page'[d].step # "password"
    <3>1. page' # [page EXCEPT ![d] = Refused(d)]
      BY <1>1, <2>1 DEF Refused, AccessInv
    <3>2. db'.user.attempts = 0 /\ streak' = 0
      BY <1>1, <1>2, <1>4, <2>1, <3>1
    <3> QED
      BY <3>2
  <2>2. CASE page'[d].step = "password"
    BY <1>1, <1>4, <2>2 DEF RequestPromise, Sound, RowOK
  <2> QED
    BY <2>1, <2>2
<1> QED
  BY <1>4, <1>5, <1>6, <1>7, RequestKeepsPromise

\* A request that leaves the count of wrong passwords alone.
LEMMA QuietRequest ==
    ASSUME AccessInv, NEW d \in Devices, NEW r, GoodReply(d, r), Request(d, r), UNCHANGED streak,
           r.answer # None /\ d \in db.session => /\ r.answer.step = "in"
                                                  /\ Last(<<db>> \o r.commits).user.secret # None
    PROVE  Promise
<1>1. RequestPromise /\ slips' \in 0..MaxSlips /\ admin' = admin
  BY RequestIsSound
<1>2. Scan
  BY DEF Request
<1>3. streak' \in Nat /\ (db'.user # None => db'.user.attempts <= streak')
  BY <1>1 DEF RequestPromise, Sound, RowOK, AccessInv
<1> QED
  BY <1>1, <1>2, <1>3, RequestKeepsPromise

LEMMA EnrolKeeps ==
    ASSUME AccessInv, NEW d \in Devices, Enrol(d)
    PROVE  Promise
<1> DEFINE r == SetupTotp(d)
<1>1. page[d].step = "setup" /\ Request(d, r) /\ UNCHANGED streak
  BY DEF Enrol
<1>2. GoodReply(d, r)
  BY GoodSetup DEF AccessInv
<1>3. d \notin db.session
  BY <1>1 DEF AccessInv, HolderIsIn
<1> HIDE DEF r
<1> QED
  BY <1>1, <1>2, <1>3, QuietRequest

LEMMA EnterCodeKeeps ==
    ASSUME AccessInv, NEW d \in Devices, EnterCode(d)
    PROVE  Promise
<1> DEFINE right == db.user # None /\ db.user.secret \in app
           r == Verify2fa(d, right)
           q == EnableTotp(d, TRUE)
<1>1. /\ (page[d].step = "verify_totp" /\ Request(d, r)) \/ (page[d].step = "setup_totp_qr" /\ Request(d, q))
      /\ UNCHANGED streak
  BY DEF EnterCode
<1>2. GoodReply(d, r) /\ GoodReply(d, q)
  <2>1. right \in BOOLEAN
    OBVIOUS
  <2> HIDE DEF right
  <2> QED
    BY <2>1, GoodVerify, GoodEnable DEF AccessInv
<1>3. d \notin db.session
  BY <1>1 DEF AccessInv, HolderIsIn
<1> HIDE DEF r, q
<1> QED
  BY <1>1, <1>2, <1>3, QuietRequest

LEMMA ChooseStrongKeeps ==
    ASSUME AccessInv, NEW d \in Devices, ChooseStrong(d)
    PROVE  Promise
<1> DEFINE r == ChangePasswordPreauth(d, TRUE)
<1>1. page[d].step = "change_password" /\ Request(d, r) /\ UNCHANGED streak
  BY DEF ChooseStrong
<1>2. GoodReply(d, r)
  BY GoodPreauthChange DEF AccessInv
<1>3. d \notin db.session
  BY <1>1 DEF AccessInv, HolderIsIn
<1> HIDE DEF r
<1> QED
  BY <1>1, <1>2, <1>3, QuietRequest

LEMMA ChangeOwnPasswordKeeps ==
    ASSUME AccessInv, NEW d \in Devices, ChangeOwnPassword(d)
    PROVE  Promise
<1> DEFINE r == ChangePassword(d, TRUE, TRUE)
<1>1. Request(d, r) /\ UNCHANGED streak
  BY DEF ChangeOwnPassword
<1>2. /\ GoodReply(d, r)
      /\ r.answer # None => r.answer.step = "in" /\ Last(<<db>> \o r.commits).user.secret # None
  BY GoodChange DEF AccessInv
<1> HIDE DEF r
<1> QED
  BY <1>1, <1>2, QuietRequest

\* A page is left: its session, if it had one, is gone.
LEMMA LeavingKeeps ==
    ASSUME AccessInv, NEW d \in Devices, Sound(db'), db'.user = db.user,
           db'.session \subseteq db.session \ {d}, NEW q \in Pages,
           page' = [page EXCEPT ![d] = q], Scan, UNCHANGED <<streak, slips, admin>>
    PROVE  Promise
<1>1. page' \in [Devices -> Pages] /\ \A e \in Devices \ {d} : page'[e] = page[e]
  BY DEF AccessInv
<1>2. HolderIsIn'
  BY <1>1 DEF AccessInv, HolderIsIn
<1>3. RequestPromise
  BY <1>1, <1>2 DEF RequestPromise, EnrolledStep, ChangeStep
<1>4. streak' \in Nat /\ slips' \in 0..MaxSlips /\ (db'.user # None => db'.user.attempts <= streak')
  BY DEF AccessInv, Sound, RowOK
<1> QED
  BY <1>3, <1>4, RequestKeepsPromise

LEMMA PasswordPage ==
    PasswordStep \in Pages /\ [PasswordStep EXCEPT !.step = "closed"] \in Pages
  BY DEF PasswordStep, Pages, Steps

LEMMA RestartKeeps ==
    ASSUME AccessInv, NEW d \in Devices, Restart(d)
    PROVE  Promise
<1>1. d \notin db.session
  BY DEF Restart, AccessInv, HolderIsIn
<1>2. db' = db /\ page' = [page EXCEPT ![d] = PasswordStep] /\ Scan /\ UNCHANGED <<streak, slips, admin>>
  BY DEF Restart
<1>3. Sound(db') /\ db'.user = db.user /\ db'.session \subseteq db.session \ {d}
  BY <1>1, <1>2 DEF AccessInv
<1> QED
  BY <1>2, <1>3, PasswordPage, LeavingKeeps

LEMMA UnauthorizedKeeps ==
    ASSUME AccessInv, NEW d \in Devices, Unauthorized(d)
    PROVE  Promise
<1>1. db' = db /\ page' = [page EXCEPT ![d] = PasswordStep] /\ Scan /\ UNCHANGED <<streak, slips, admin>>
  BY DEF Unauthorized
<1>2. Sound(db') /\ db'.user = db.user /\ db'.session \subseteq db.session \ {d}
  BY <1>1 DEF Unauthorized, AccessInv
<1> QED
  BY <1>1, <1>2, PasswordPage, LeavingKeeps

LEMMA LogoutKeeps ==
    ASSUME AccessInv, NEW d \in Devices, Logout(d)
    PROVE  Promise
<1> DEFINE S == db.session \ {d}
           t == [db EXCEPT !.session = S]
<1>1. db' = t /\ page' = [page EXCEPT ![d] = PasswordStep] /\ Scan /\ UNCHANGED <<streak, slips, admin>>
  BY DEF Logout
<1>2. Sound(db) /\ db \in Dbs /\ S \in SUBSET (Devices \cup {Lost}) /\ (db.session = {} => S = {})
  BY DEF AccessInv, Sound, Dbs
<1>3. t \in Dbs /\ t.user = db.user /\ t.pre = db.pre /\ t.session = S
  BY <1>2, SessionFields
<1> HIDE DEF t
<1>4. Sound(t)
  BY <1>2, <1>3 DEF Sound
<1> QED
  BY <1>1, <1>3, <1>4, PasswordPage, LeavingKeeps

LEMMA CloseKeeps ==
    ASSUME AccessInv, NEW d \in Devices, Close(d)
    PROVE  Promise
<1> DEFINE t == ConsumePreAuth(db, d)
           q == [PasswordStep EXCEPT !.step = "closed"]
<1>1. db' = t /\ page' = [page EXCEPT ![d] = q] /\ Scan /\ UNCHANGED <<streak, slips, admin>>
  BY DEF Close
<1>2. Sound(t) /\ t.user = db.user /\ t.session = db.session
  BY ConsumeIsSound DEF AccessInv
<1>3. d \notin db.session
  BY DEF Close, AccessInv, HolderIsIn
<1>4. q \in Pages
  BY PasswordPage
<1> HIDE DEF t, q
<1> QED
  BY <1>1, <1>2, <1>3, <1>4, LeavingKeeps

\* A statement behind the pages: the row keeps its secrets and its password.
LEMMA BehindKeeps ==
    ASSUME AccessInv, Sound(db)', db'.session = db.session, (db'.user = None) = (db.user = None),
           db.user # None => /\ db'.user.secret = db.user.secret /\ db'.user.pending = db.user.pending
                             /\ db'.user.pwd = db.user.pwd,
           UNCHANGED <<page, app, admin>>, slips' \in 0..MaxSlips, streak' \in Nat, LockStep
    PROVE  Promise
<1>1. Scanned'
  BY DEF AccessInv, Scanned
<1>2. HolderIsIn'
  BY DEF AccessInv, HolderIsIn
<1>3. EnrolledStep /\ ChangeStep
  BY DEF EnrolledStep, ChangeStep
<1> QED
  BY <1>1, <1>2, <1>3 DEF Promise, AccessInv

LEMMA SlipCounts ==
    ASSUME AccessInv, Slip
    PROVE  slips' \in 0..MaxSlips
  BY AccessAssumption DEF AccessInv, Slip

LEMMA ExpireKeeps ==
    ASSUME AccessInv, NEW d \in Devices, Expire(d)
    PROVE  Promise
<1> DEFINE t == ConsumePreAuth(db, d)
<1>1. Slip /\ db' = t /\ UNCHANGED <<page, app, streak, admin>>
  BY DEF Expire
<1>2. Sound(t) /\ t.user = db.user /\ t.session = db.session
  BY ConsumeIsSound DEF AccessInv
<1> HIDE DEF t
<1>3. Sound(db)' /\ streak' \in Nat
  BY <1>1, <1>2 DEF Sound, RowOK, AccessInv
<1>4. LockStep
  BY <1>1, <1>2 DEF LockStep
<1> QED
  BY <1>1, <1>2, <1>3, <1>4, SlipCounts, BehindKeeps

LEMMA NextWindowKeeps ==
    ASSUME AccessInv, NextWindow
    PROVE  Promise
<1> DEFINE u == [db.user EXCEPT !.last = "past", !.uses = 0]
           t == [db EXCEPT !.user = u]
<1>1. Sound(db) /\ db.user # None /\ db.user \in Rows /\ RowOK(db.user) /\ db \in Dbs
  BY DEF AccessInv, NextWindow, Sound, Dbs
<1>2. db' = t /\ UNCHANGED <<page, app, streak, slips, admin>>
  BY <1>1 DEF NextWindow, Dbs, Rows
<1>3. /\ u \in Rows /\ u.uses = 0 /\ u.attempts = db.user.attempts /\ u.secret = db.user.secret
      /\ u.pending = db.user.pending /\ u.pwd = db.user.pwd /\ u.locked = db.user.locked
  BY <1>1 DEF Rows
<1> HIDE DEF u
<1>4. RowOK(u)
  BY <1>1, <1>3 DEF RowOK
<1>5. Sound(t) /\ t.user = u /\ t.session = db.session /\ t.user # None
  BY <1>1, <1>3, <1>4, RowIsSound
<1> HIDE DEF t
<1>6. Sound(db)' /\ streak' \in Nat /\ slips' \in 0..MaxSlips
  BY <1>2, <1>5 DEF Sound, RowOK, AccessInv
<1>7. LockStep
  BY <1>2, <1>3, <1>5 DEF LockStep
<1> QED
  BY <1>1, <1>2, <1>3, <1>5, <1>6, <1>7, BehindKeeps

LEMMA EndOfNone ==
    ASSUME NEW s
    PROVE  Last(<<s>> \o <<>>) = s
<1> DEFINE c == <<>>
<1>1. Len(c) = 0
  OBVIOUS
<1>2. c \in Seq({s}) /\ s \in {s}
  OBVIOUS
<1> HIDE DEF c
<1>3. (<<s>> \o c)[1] = s /\ Last(<<s>> \o c) = (<<s>> \o c)[Len(c) + 1]
  BY ONLY <1>2, States
<1>4. Len(c) + 1 = 1
  BY <1>1
<1> QED
  BY <1>3, <1>4 DEF c

LEMMA EndOfOne ==
    ASSUME NEW s, NEW a
    PROVE  Last(<<s>> \o <<a>>) = a
<1> DEFINE c == <<a>>
<1>1. Len(c) = 1 /\ c[1] = a
  OBVIOUS
<1>2. c \in Seq({s, a})
  OBVIOUS
<1> HIDE DEF c
<1>3. 1 \in 1..Len(c) /\ Len(c) + 1 = 2 /\ 1 + 1 = 2 /\ s \in {s, a}
  BY <1>1
<1>4. /\ Last(<<s>> \o c) = (<<s>> \o c)[Len(c) + 1]
      /\ \A n \in 1..Len(c) : (<<s>> \o c)[n + 1] = c[n]
  BY ONLY <1>2, <1>3, States
<1> QED
  BY <1>1, <1>3, <1>4 DEF c

\* One more wrong password; the row counts no more of them than were entered.
LEMMA WrongPasswordKeeps ==
    ASSUME AccessInv, NEW d \in Devices, WrongPassword(d)
    PROVE  Promise
<1> DEFINE r == LoginWithPassword(d, FALSE)
           n == db.user.attempts + 1
           l == db.user.locked \/ db.user.attempts + 2 >= MaxFailures
           u == [db.user EXCEPT !.attempts = n, !.locked = l]
           t == [db EXCEPT !.user = u]
           f == [db EXCEPT !.user.attempts = @ + 1,
                           !.user.locked = @ \/ db.user.attempts + 2 >= MaxFailures]
<1>1. /\ Slip /\ db' = Last(<<db>> \o r.commits) /\ UNCHANGED <<page, app, admin>>
      /\ streak' = IF db.user # None THEN streak + 1 ELSE streak
  BY DEF WrongPassword
<1>2. Sound(db) /\ streak \in Nat
  BY DEF AccessInv
<1>3. \/ r.commits = <<>>
      \/ db.user # None /\ ~db.user.locked /\ r.commits = <<f>>
  BY DEF LoginWithPassword, Refuse, Reply
<1> HIDE DEF r
<1>4. streak' \in Nat /\ streak <= streak'
  BY <1>1, <1>2
<1>5. ASSUME r.commits = <<>> PROVE Promise
  <2>1. db' = db
    BY <1>1, <1>5, EndOfNone
  <2>2. Sound(db)'
    BY <1>1, <1>2, <1>4, <2>1 DEF Sound, RowOK, Dbs, Rows
  <2>3. LockStep
    BY <2>1 DEF LockStep
  <2> QED
    BY <1>1, <1>4, <2>1, <2>2, <2>3, SlipCounts, BehindKeeps
<1>6. ASSUME db.user # None, ~db.user.locked, r.commits = <<f>> PROVE Promise
  <2>1. db \in Dbs /\ db.user \in Rows /\ RowOK(db.user)
    BY <1>2, <1>6 DEF Sound, Dbs
  <2>2. f = t
    BY <2>1 DEF Dbs, Rows
  <2> HIDE DEF f
  <2>3. db' = t
    BY <1>1, <1>6, <2>2, EndOfOne
  <2>4. MaxFailures \in Nat
    BY AccessAssumption
  <2>a. n \in Nat /\ l \in BOOLEAN /\ n = db.user.attempts + 1
    BY <2>1 DEF Rows
  <2>b. l => db.user.attempts + 2 >= MaxFailures
    BY <1>6
  <2> HIDE DEF n, l
  <2>5. /\ u \in Rows /\ u.attempts = n /\ u.locked = l
        /\ u.uses = db.user.uses /\ u.last = db.user.last /\ u.secret = db.user.secret
        /\ u.pending = db.user.pending /\ u.pwd = db.user.pwd
    BY <2>1, <2>a DEF Rows
  <2> HIDE DEF u
  <2>7. t \in Dbs /\ t.user = u /\ t.pre = db.pre /\ t.session = db.session
    BY <2>1, <2>5, RowFields
  <2> HIDE DEF t
  <2>8. u # None
    BY <2>5, NoneIsNothing
  <2>9. db.user.attempts \in Nat /\ db.user.attempts <= streak
    BY <2>1 DEF Rows, RowOK
  <2>10. u.attempts <= streak' /\ streak' = streak + 1
    BY <1>1, <1>2, <1>6, <2>a, <2>5, <2>9
  <2>11. RowOK(db.user)'
    BY <1>1, <2>1, <2>3, <2>5, <2>7, <2>10 DEF RowOK
  <2>12. Sound(db)'
    BY <2>3, <2>7, <2>8, <2>11 DEF Sound, Dbs
  <2>13. u.locked => streak' + 1 >= MaxFailures
    <3>1. db.user.attempts + 2 >= MaxFailures => (streak + 1) + 1 >= MaxFailures
      BY ONLY <1>2, <2>4, <2>9
    <3> QED
      BY <2>b, <2>5, <2>10, <3>1
  <2>14. LockStep
    BY <2>3, <2>7, <2>13 DEF LockStep
  <2> QED
    BY <1>1, <1>4, <1>6, <2>3, <2>5, <2>7, <2>8, <2>12, <2>14, SlipCounts, BehindKeeps
<1> QED
  BY <1>3, <1>5, <1>6

LEMMA MistakeKeeps ==
    ASSUME AccessInv, NEW d \in Devices, Mistake(d)
    PROVE  Promise
<1> DEFINE t == ConsumePreAuth(db, d)
           w == UseWindow(db)
<1>1. Slip /\ UNCHANGED <<page, app, streak, admin>>
  BY DEF Mistake
<1>2. Sound(db) /\ streak \in Nat
  BY DEF AccessInv
<1>3. \A c : c = <<>> \/ c = <<t>> \/ (c = <<w>> /\ d \in db.session /\ db.user.last # "now")
             => Last(<<db>> \o c) \in {db, t} \/ (Last(<<db>> \o c) = w /\ d \in db.session /\ db.user.last # "now")
  BY ONLY EndOfNone, EndOfOne
<1>4. LET c == Verify2fa(d, FALSE).commits IN c = <<>> \/ c = <<t>>
  BY DEF Verify2fa, AcceptsCode, Refuse, Reply
<1>5. LET c == EnableTotp(d, FALSE).commits IN c = <<>> \/ c = <<t>>
  BY DEF EnableTotp, AcceptsCode, Refuse, Reply
<1>6. LET c == ChangePasswordPreauth(d, FALSE).commits IN c = <<>> \/ c = <<t>>
  BY DEF ChangePasswordPreauth, Refuse, Reply
<1>7. LET c == ChangePassword(d, TRUE, FALSE).commits IN
      c = <<>> \/ (c = <<w>> /\ d \in db.session /\ db.user.last # "now")
  BY DEF ChangePassword, AcceptsCode, Refuse, Reply
<1> HIDE DEF t, w
<1>8. db' \in {db, t} \/ (db' = w /\ d \in db.session /\ db.user.last # "now")
  <2>1. \/ db' = Last(<<db>> \o Verify2fa(d, FALSE).commits)
        \/ db' = Last(<<db>> \o EnableTotp(d, FALSE).commits)
        \/ db' = Last(<<db>> \o ChangePasswordPreauth(d, FALSE).commits)
        \/ db' = Last(<<db>> \o ChangePassword(d, TRUE, FALSE).commits)
    BY DEF Mistake
  <2> QED
    BY ONLY <1>3, <1>4, <1>5, <1>6, <1>7, <2>1
<1>9. /\ Sound(db') /\ db'.session = db.session /\ (db'.user = None) = (db.user = None)
      /\ db.user # None => /\ db'.user.secret = db.user.secret /\ db'.user.pending = db.user.pending
                           /\ db'.user.pwd = db.user.pwd /\ db'.user.locked = db.user.locked
  <2>1. CASE db' = db
    BY <1>2, <2>1
  <2>2. CASE db' = t
    BY <1>2, <2>2, ConsumeIsSound DEF t
  <2>3. CASE db' = w /\ d \in db.session /\ db.user.last # "now"
    <3>1. db.user # None
      BY <1>2, <2>3 DEF Sound
    <3>2. Sound(w) /\ SameAccount(db, w) /\ w.user.pending = db.user.pending
      BY <1>2, <2>3, <3>1, UseIsSound DEF w
    <3> QED
      BY <2>3, <3>1, <3>2 DEF SameAccount
  <2> QED
    BY <1>8, <2>1, <2>2, <2>3
<1>10. Sound(db)' /\ streak' \in Nat
  BY <1>1, <1>2, <1>9 DEF Sound, RowOK
<1>11. LockStep
  BY <1>1, <1>9 DEF LockStep
<1> QED
  BY <1>1, <1>9, <1>10, <1>11, SlipCounts, BehindKeeps

-----------------------------------------------------------------------------
(* The administrator                                                       *)

\* What an operation of the administrator may leave: never the person's new password.
AdminLeft(s) ==
    /\ Sound(s) /\ s.session \subseteq db.session
    /\ s.user # None /\ db.user # None => s.user.pwd \in {db.user.pwd, "temp"}

AdminCommits(c) == c \in Seq(Dbs) /\ \A n \in 1..Len(c) : AdminLeft(c[n])

LEMMA NoCommits == AdminCommits(<<>>)
  BY DEF AdminCommits

LEMMA OneCommit ==
    ASSUME NEW a, AdminLeft(a)
    PROVE  AdminCommits(<<a>>)
<1>1. a \in Dbs
  BY DEF AdminLeft, Sound
<1> QED
  BY <1>1 DEF AdminCommits

LEMMA TwoCommits ==
    ASSUME NEW a, NEW b, AdminLeft(a), AdminLeft(b)
    PROVE  AdminCommits(<<a, b>>)
<1>1. a \in Dbs /\ b \in Dbs
  BY DEF AdminLeft, Sound
<1>2. Len(<<a, b>>) = 2 /\ <<a, b>>[1] = a /\ <<a, b>>[2] = b /\ <<a, b>> \in Seq(Dbs)
  BY <1>1
<1>3. 1..2 = {1, 2}
  OBVIOUS
<1> QED
  BY <1>2, <1>3 DEF AdminCommits

LEMMA MoreCommits ==
    ASSUME NEW c, NEW e, AdminCommits(c), AdminCommits(e)
    PROVE  AdminCommits(c \o e)
<1>1. c \in Seq(Dbs)
  BY DEF AdminCommits
<1>2. e \in Seq(Dbs)
  BY DEF AdminCommits
<1> DEFINE t == c \o e
<1>3. /\ t \in Seq(Dbs) /\ Len(t) = Len(c) + Len(e)
      /\ \A i \in 1..Len(c) : t[i] = c[i]
      /\ \A i \in 1..Len(e) : t[Len(c) + i] = e[i]
  BY ONLY <1>1, <1>2, Joined
<1>4. Len(c) \in Nat /\ Len(e) \in Nat
  BY <1>1, <1>2
<1> HIDE DEF t
<1>5. ASSUME NEW n \in 1..Len(t) PROVE AdminLeft(t[n])
  <2>1. n \in 1..Len(c) \/ (n - Len(c) \in 1..Len(e) /\ Len(c) + (n - Len(c)) = n)
    BY <1>3, <1>4
  <2>2. CASE n \in 1..Len(c)
    BY <1>3, <2>2 DEF AdminCommits
  <2>3. CASE n - Len(c) \in 1..Len(e) /\ Len(c) + (n - Len(c)) = n
    <3>1. t[n] = e[n - Len(c)]
      BY <1>3, <2>3
    <3> QED
      BY <2>3, <3>1 DEF AdminCommits
  <2> QED
    BY <2>1, <2>2, <2>3
<1> QED
  BY <1>3, <1>5 DEF AdminCommits, t

LEMMA GoneIsSound ==
    ASSUME NEW s, Sound(s), s.session = {}
    PROVE  LET t == Gone(s) IN Sound(t) /\ t.user = None /\ t.session = {}
<1> DEFINE t == Gone(s)
<1>1. s \in Dbs
  BY DEF Sound
<1>2. t \in Dbs /\ t.user = None /\ t.session = {} /\ t.pre = [d \in Devices |-> None]
  BY <1>1 DEF Gone, Dbs
<1> HIDE DEF t
<1>3. Sound(t)
  BY <1>2 DEF Sound
<1> QED
  BY <1>2, <1>3 DEF t

LEMMA CreateUserIsSound ==
    ASSUME Sound(db), streak \in Nat, NEW strong \in BOOLEAN
    PROVE  AdminCommits(CreateUser(strong))
<1> DEFINE a == [db EXCEPT !.user = NewRow]
           u == SetUserPassword(a, "temp").user
           b == SetUserPassword(a, "temp")
           g == Gone(a)
<1>1. \/ CreateUser(strong) = <<>>
      \/ db.user = None /\ (CreateUser(strong) = <<a, b>> \/ CreateUser(strong) = <<a, g>>)
  BY DEF CreateUser
<1>2. CASE db.user = None
  <2>1. NewRow \in Rows /\ RowOK(NewRow)
    BY DEF NewRow, Rows, RowOK
  <2>2. Sound(a) /\ a.session = {} /\ a.user # None
    BY <1>2, <2>1, RowIsSound DEF Sound
  <2> HIDE DEF a
  <2>3. u \in Rows /\ RowOK(u) /\ b = [a EXCEPT !.user = u]
    BY <2>2, StoredIsSound
  <2> HIDE DEF u, b
  <2>4. Sound(b) /\ b.session = {}
    BY <2>2, <2>3, RowIsSound
  <2>5. Sound(g) /\ g.session = {}
    BY <2>2, GoneIsSound
  <2> HIDE DEF g
  <2>6. AdminLeft(a) /\ AdminLeft(b) /\ AdminLeft(g)
    BY <1>2, <2>2, <2>4, <2>5 DEF AdminLeft
  <2> QED
    BY <1>1, <2>6, NoCommits, TwoCommits
<1> QED
  BY <1>1, <1>2, NoCommits

LEMMA DeleteUserIsSound ==
    ASSUME Sound(db)
    PROVE  AdminCommits(DeleteUser)
<1>1. DeleteUser = <<>> \/ (db.session = {} /\ DeleteUser = <<Gone(db)>>)
  BY DEF DeleteUser
<1>2. db.session = {} => AdminLeft(Gone(db))
  BY GoneIsSound DEF AdminLeft
<1> QED
  BY <1>1, <1>2, NoCommits, OneCommit

LEMMA Reset2faIsSound ==
    ASSUME Sound(db)
    PROVE  AdminCommits(Reset2fa)
<1> DEFINE u == [db.user EXCEPT !.secret = None, !.pending = None, !.last = "never", !.uses = 0]
           t == [db EXCEPT !.user = u]
           a == [db EXCEPT !.user.secret = None, !.user.pending = None, !.user.last = "never", !.user.uses = 0]
           b == RemoveAllTokens(a)
<1>1. Reset2fa = <<>> \/ (db.user # None /\ Reset2fa = <<a, b>>)
  BY DEF Reset2fa
<1>2. CASE db.user # None
  <2>1. db \in Dbs /\ db.user \in Rows /\ RowOK(db.user)
    BY <1>2 DEF Sound, Dbs
  <2>2. a = t
    BY <2>1 DEF Dbs, Rows
  <2>3. /\ u \in Rows /\ u.uses = 0 /\ u.secret = None /\ u.attempts = db.user.attempts
        /\ u.pwd = db.user.pwd
    BY <2>1 DEF Rows
  <2> HIDE DEF u
  <2>4. RowOK(u)
    BY <2>1, <2>3 DEF RowOK
  <2> HIDE DEF a
  <2>5. Sound(a) /\ a.user = u /\ a.session = db.session
    BY <2>2, <2>3, <2>4, RowIsSound
  <2>6. Sound(b) /\ b.user = u /\ b.session = {}
    BY <2>5, RemoveIsSound
  <2> HIDE DEF b
  <2>7. AdminLeft(a) /\ AdminLeft(b)
    BY <2>3, <2>5, <2>6 DEF AdminLeft
  <2> QED
    BY <1>1, <2>7, NoCommits, TwoCommits
<1> QED
  BY <1>1, <1>2, NoCommits

LEMMA UpdateUserIsSound ==
    ASSUME Sound(db), streak \in Nat, NEW locked \in BOOLEAN, NEW force \in BOOLEAN, NEW temp \in BOOLEAN
    PROVE  AdminCommits(UpdateUser(locked, force, temp))
<1> DEFINE u == [db.user EXCEPT !.locked = locked, !.force = force]
           t == [db EXCEPT !.user = u]
           a == [db EXCEPT !.user.locked = locked, !.user.force = force]
           b == IF locked THEN RemoveAllTokens(a) ELSE a
           v == SetUserPassword(b, "temp").user
           c == SetUserPassword(b, "temp")
           w == [v EXCEPT !.force = TRUE]
           e == Set(c, "force", TRUE)
           f == [c EXCEPT !.user = w]
           tail == IF temp THEN <<c, e>> ELSE <<>>
<1>1. UpdateUser(locked, force, temp) = <<>>
      \/ (db.user # None /\ UpdateUser(locked, force, temp) = <<a, b>> \o tail)
  BY DEF UpdateUser
<1>2. CASE db.user # None
  <2>1. db \in Dbs /\ db.user \in Rows /\ RowOK(db.user)
    BY <1>2 DEF Sound, Dbs
  <2>2. a = t
    BY <2>1 DEF Dbs, Rows
  <2>3. /\ u \in Rows /\ u.uses = db.user.uses /\ u.last = db.user.last /\ u.secret = db.user.secret
        /\ u.attempts = db.user.attempts /\ u.pwd = db.user.pwd
    BY <2>1 DEF Rows
  <2> HIDE DEF u
  <2>4. RowOK(u)
    BY <2>1, <2>3 DEF RowOK
  <2> HIDE DEF a
  <2>5. Sound(a) /\ a.user = u /\ a.session = db.session /\ a.user # None
    BY <2>2, <2>3, <2>4, RowIsSound
  <2>6. Sound(b) /\ b.user = u /\ b.session \subseteq db.session /\ b.user # None
    <3>1. CASE locked
      BY <2>5, <3>1, RemoveIsSound
    <3>2. CASE ~locked
      BY <2>5, <3>2
    <3> QED
      BY <3>1, <3>2
  <2> HIDE DEF b
  <2>7. v \in Rows /\ RowOK(v) /\ v.pwd = "temp" /\ c = [b EXCEPT !.user = v]
    BY <2>6, StoredIsSound
  <2> HIDE DEF v, c
  <2>8. Sound(c) /\ c.user = v /\ c.session = b.session /\ c.user # None
    BY <2>6, <2>7, RowIsSound
  <2>9. /\ w \in Rows /\ w.uses = v.uses /\ w.last = v.last /\ w.secret = v.secret
        /\ w.attempts = v.attempts /\ w.pwd = "temp"
    BY <2>7 DEF Rows
  <2>10. c \in Dbs
    BY <2>8 DEF Sound
  <2>11. e = f
    BY <2>7, <2>8, <2>10 DEF Set, Dbs, Rows
  <2> HIDE DEF w, e
  <2>12. RowOK(w)
    BY <2>7, <2>9 DEF RowOK
  <2>13. Sound(e) /\ e.user = w /\ e.session = c.session
    BY <2>8, <2>9, <2>11, <2>12, RowIsSound
  <2>14. AdminLeft(a) /\ AdminLeft(b) /\ AdminLeft(c) /\ AdminLeft(e)
    BY <2>3, <2>5, <2>6, <2>7, <2>8, <2>9, <2>13 DEF AdminLeft
  <2>15. AdminCommits(<<a, b>>) /\ AdminCommits(tail)
    <3>1. AdminCommits(<<a, b>>) /\ AdminCommits(<<c, e>>)
      BY <2>14, TwoCommits
    <3> QED
      BY <3>1, NoCommits
  <2> HIDE DEF tail
  <2> QED
    BY <1>1, <2>15, MoreCommits, NoCommits
<1> QED
  BY <1>1, <1>2, NoCommits

LEMMA AdminKeeps ==
    ASSUME AccessInv, Admin
    PROVE  Promise
<1>1. admin' = admin + 1 /\ admin < MaxAdmin /\ UNCHANGED <<page, streak>> /\ Scan
  BY DEF Admin
<1>2. Sound(db) /\ streak \in Nat /\ MaxSlips \in Nat /\ MaxAdmin \in Nat
  BY AccessAssumption DEF AccessInv
<1>3. PICK c \in {CreateUser(strong) : strong \in BOOLEAN} \cup {DeleteUser, Reset2fa}
                 \cup {UpdateUser(l, f, t) : l, f, t \in BOOLEAN} :
         \/ db' = Last(<<db>> \o c) /\ UNCHANGED slips
         \/ Slip /\ \E n \in 1..Len(c) : db' = (<<db>> \o c)[n]
  BY DEF Admin
<1>4. AdminCommits(c)
  BY <1>2, <1>3, CreateUserIsSound, DeleteUserIsSound, Reset2faIsSound, UpdateUserIsSound
<1> DEFINE t == <<db>> \o c
<1>5. c \in Seq(Dbs)
  BY <1>4 DEF AdminCommits
<1>6. db \in Dbs
  BY <1>2 DEF Sound
<1>7. /\ Len(t) = Len(c) + 1 /\ t[1] = db /\ Last(t) = t[Len(c) + 1] /\ Len(c) \in Nat
      /\ \A n \in 1..Len(c) : t[n + 1] = c[n]
  BY ONLY <1>5, <1>6, States
<1>8. AdminLeft(db)
  BY <1>2 DEF AdminLeft
<1>9. db' = Last(t) \/ \E n \in 1..Len(c) : db' = t[n]
  BY <1>3
<1> HIDE DEF t
<1>10. PICK n \in 1..(Len(c) + 1) : db' = t[n]
  <2>1. Len(c) + 1 \in 1..(Len(c) + 1) /\ \A n \in 1..Len(c) : n \in 1..(Len(c) + 1)
    BY <1>7
  <2> QED
    BY <1>7, <1>9, <2>1
<1>11. AdminLeft(t[n])
  <2>1. n = 1 \/ (n - 1 \in 1..Len(c) /\ (n - 1) + 1 = n)
    BY <1>7
  <2>2. CASE n = 1
    BY <1>7, <1>8, <2>2
  <2>3. CASE n - 1 \in 1..Len(c) /\ (n - 1) + 1 = n
    <3>1. t[n] = c[n - 1]
      BY <1>7, <2>3
    <3> QED
      BY <1>4, <2>3, <3>1 DEF AdminCommits
  <2> QED
    BY <2>1, <2>2, <2>3
<1>12. /\ Sound(db') /\ db'.session \subseteq db.session
       /\ db'.user # None /\ db.user # None => db'.user.pwd \in {db.user.pwd, "temp"}
  BY <1>10, <1>11 DEF AdminLeft
<1>13. page' \in [Devices -> Pages] /\ app \subseteq Secrets
  BY <1>1 DEF AccessInv
<1>14. app' \subseteq Secrets /\ Scanned' /\ (db'.user # None => db'.user.secret \in app' \cup {None})
  BY <1>1, <1>12, <1>13, Scanning
<1>15. streak' \in Nat /\ (db'.user # None => db'.user.attempts <= streak')
  BY <1>1, <1>2, <1>12 DEF Sound, RowOK
<1>16. Sound(db)'
  BY <1>12, <1>14, <1>15, SoundNext
<1>17. HolderIsIn'
  BY <1>1, <1>12 DEF AccessInv, HolderIsIn
<1>18. slips' \in 0..MaxSlips
  BY <1>3, SlipCounts DEF AccessInv
<1>19. admin' \in 0..MaxAdmin /\ admin' # admin
  BY <1>1, <1>2 DEF AccessInv
<1>20. EnrolledStep /\ ChangeStep /\ LockStep
  <2>1. ChangeStep
    BY <1>12 DEF ChangeStep
  <2> QED
    BY <1>12, <1>19, <2>1 DEF EnrolledStep, LockStep
<1> QED
  BY <1>13, <1>14, <1>15, <1>16, <1>17, <1>18, <1>19, <1>20 DEF Promise, AccessInv

-----------------------------------------------------------------------------
(* The theorems                                                            *)

LEMMA InitAccess == Init => AccessInv
<1> SUFFICES ASSUME Init PROVE AccessInv
  OBVIOUS
<1> DEFINE u == [NewRow EXCEPT !.pwd = "temp", !.force = FALSE]
           none == [d \in Devices |-> None]
<1>1. db = [user |-> u, pre |-> none, session |-> {}] /\ page = [d \in Devices |-> PasswordStep]
      /\ app = {} /\ streak = 0 /\ slips = 0 /\ admin = 0
  BY DEF Init
<1>2. u \in Rows /\ RowOK(u)
  <2>1. NewRow \in Rows /\ NewRow.attempts = 0 /\ NewRow.uses = 0 /\ NewRow.secret = None
    BY DEF NewRow, Rows
  <2>2. u \in Rows /\ u.attempts = 0 /\ u.uses = 0 /\ u.secret = None
    BY <2>1 DEF Rows
  <2>3. streak = 0
    BY <1>1
  <2> HIDE DEF u
  <2> QED
    BY ONLY <2>2, <2>3 DEF RowOK
<1>3. none \in [Devices -> Purposes \cup {None}] /\ \A d \in Devices : none[d] = None
  OBVIOUS
<1> HIDE DEF u, none
<1>4. db \in Dbs /\ db.user = u /\ db.session = {} /\ u # None
  BY <1>1, <1>2, <1>3, NoneIsNothing DEF Dbs
<1>5. Sound(db)
  BY <1>2, <1>4 DEF Sound
<1>6. Scanned
  BY <1>1 DEF Scanned, PasswordStep
<1>7. HolderIsIn /\ page \in [Devices -> Pages]
  BY <1>1, <1>4, PasswordPage DEF HolderIsIn
<1> QED
  BY <1>1, <1>5, <1>6, <1>7, AccessAssumption DEF AccessInv

LEMMA StutterKeeps ==
    ASSUME AccessInv, UNCHANGED vars
    PROVE  Promise
<1>1. AccessInv'
  BY DEF AccessInv, Sound, RowOK, Scanned, HolderIsIn, vars
<1> QED
  BY <1>1 DEF Promise, EnrolledStep, ChangeStep, LockStep, vars

LEMMA StepKeeps == AccessInv /\ [Next]_vars => Promise
<1> SUFFICES ASSUME AccessInv, [Next]_vars PROVE Promise
  OBVIOUS
<1>1. ASSUME NEW d \in Devices, UserStep(d) PROVE Promise
  BY <1>1, PasswordStepKeeps, EnrolKeeps, EnterCodeKeeps, ChooseStrongKeeps, RestartKeeps,
     UnauthorizedKeeps DEF UserStep
<1>2. ASSUME NEW d \in Devices,
             WrongPassword(d) \/ Mistake(d) \/ Logout(d) \/ ChangeOwnPassword(d) \/ Close(d) \/ Expire(d)
      PROVE  Promise
  BY <1>2, WrongPasswordKeeps, MistakeKeeps, LogoutKeeps, ChangeOwnPasswordKeeps, CloseKeeps, ExpireKeeps
<1>3. CASE NextWindow
  BY <1>3, NextWindowKeeps
<1>4. CASE Admin
  BY <1>4, AdminKeeps
<1>5. CASE UNCHANGED vars
  BY <1>5, StutterKeeps
<1> QED
  BY <1>1, <1>2, <1>3, <1>4, <1>5 DEF Next

THEOREM AccessHolds == Spec => []AccessInv
<1>1. AccessInv /\ [Next]_vars => AccessInv'
  BY StepKeeps DEF Promise
<1> QED
  BY <1>1, InitAccess, PTL DEF Spec

\* Whatever the order of the devices' requests, the statements that fail and
\* the answers that get lost: every table has its types and its foreign keys,
\* a window accepts one code (totp_manager.py:31-56), and a user is enrolled
\* only with a secret that their authenticator has seen (twofa.py:47-109).
THEOREM CodesAreAlwaysSound == Spec => []CodesAreSound
<1>1. AccessInv => CodesAreSound
  <2> SUFFICES ASSUME AccessInv PROVE CodesAreSound
    OBVIOUS
  <2>1. TypeOK
    BY DEF AccessInv, Sound, Dbs, TypeOK
  <2>2. WindowOnce /\ EnrolledSecretIsScanned
    BY DEF AccessInv, Sound, RowOK, WindowOnce, EnrolledSecretIsScanned
  <2> QED
    BY <2>1, <2>2 DEF CodesAreSound
<1> QED
  BY <1>1, AccessHolds, PTL

\* A session appears only for a user with an authenticator, and none from
\* before is left once the person's new password is stored
\* (routes/twofa.py, routes/user.py:55-77 and :103-121).
THEOREM SessionsAreAlwaysCurrent == Spec => SessionsAreCurrent
<1>1. AccessInv /\ [Next]_vars => [EnrolledStep]_vars /\ [ChangeStep]_vars
  BY StepKeeps DEF Promise
<1>2. Spec => [][EnrolledStep]_vars /\ [][ChangeStep]_vars
  BY <1>1, AccessHolds, PTL DEF Spec
<1> QED
  BY <1>2 DEF SessionsAreCurrent, SessionsAreEnrolled, ChangeEndsSessions, EnrolledStep, ChangeStep

\* The account locks only after MaxFailures - 1 wrong passwords since the last
\* accepted one, over all devices (password_authenticator.py:115-152).
THEOREM LocksAreEarned == Spec => LockIsEarned
<1>1. AccessInv /\ [Next]_vars => [LockStep]_vars
  BY StepKeeps DEF Promise
<1>2. Spec => [][LockStep]_vars
  BY <1>1, AccessHolds, PTL DEF Spec
<1> QED
  BY <1>2 DEF LockIsEarned, LockStep

=============================================================================
