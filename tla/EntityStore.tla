----------------------------- MODULE EntityStore -----------------------------
(***************************************************************************)
(* The entity intake (db_loaders/db_intake.py), the field-wise reconcilers *)
(* (extractors/reconcile_entities.py) and the soft merge of account rows   *)
(* (db_loaders/account_merge.py, migration V038) over MySQL.               *)
(*                                                                         *)
(* A session that is incorporated is one transaction: it reads a snapshot  *)
(* and its own writes, and its statements are executed on the rows that    *)
(* are there when it commits.  So a transaction keeps the tables it sees   *)
(* and the list of its statements, and Commit replays the list on the      *)
(* tables of the moment; the intake itself is one action per merge, match  *)
(* and stored entity.                                                      *)
(*                                                                         *)
(* What a row and a record say of an entity is a rec: a platform id pk, a  *)
(* platform, a mutable handle url and one scalar val that stands for name, *)
(* bio, caption, text and data; for media val is the size of the stored    *)
(* file and video its type.  None is SQL's NULL.                           *)
(***************************************************************************)
EXTENDS Naturals, SequencesExt

CONSTANTS
    None,       \* SQL NULL
    Workers,    \* 1..n: the server's job thread and command-line loaders
    Contents,   \* what a session's extraction may hold: by kind, sequences of [rec, refs]
    NumSessions,\* sessions are numbered in capture order
    Legacy,     \* tables an older release may have left behind
    TagNames,
    MaxRuns,    \* bound: incorporations in all
    MaxTags     \* bound: annotations

VARIABLES
    db,         \* [rows, arch, tags]: the committed tables
    tx,         \* each worker's open transaction
    content,    \* the extracted entities of each session; None: not extracted yet
    runs,       \* incorporations that were begun
    migrated,   \* V038 has been applied
    merged,     \* history: the merges on record in account_merge_log
    late        \* history: tags that were added while a transaction was open

vars == <<db, tx, content, runs, migrated, merged, late>>

Sessions == 1..NumSessions

-----------------------------------------------------------------------------
(* The registry of entity kinds: how a row of each is found again, whether *)
(* an entity without pk is skipped, whether new rows are inserted in one   *)
(* batch, and for each foreign key what happens when it is not resolved.   *)

Key(to, missing) == [to |-> to, missing |-> missing]

AccountKind == [match |-> "pk", keyed |-> FALSE, batch |-> TRUE, fk |-> <<>>]
PostKind == [match |-> "pk", keyed |-> TRUE, batch |-> TRUE,
             fk |-> [account |-> Key("accounts", "raise")]]
MediaKind == [match |-> "url", keyed |-> FALSE, batch |-> TRUE,
              fk |-> [post |-> Key("posts", "raise")]]
CommentKind == [match |-> "pk", keyed |-> FALSE, batch |-> TRUE,
                fk |-> [post |-> Key("posts", "drop"), account |-> Key("accounts", "null")]]
LikeKind == [match |-> "key", keyed |-> TRUE, batch |-> FALSE,
             fk |-> [post |-> Key("posts", "drop"), account |-> Key("accounts", "null")]]
TaggedKind == [match |-> "key", keyed |-> TRUE, batch |-> FALSE,
               fk |-> [tagged |-> Key("accounts", "null"), post |-> Key("posts", "null"),
                       media |-> Key("media", "null")]]
RelationKind == [match |-> "key", keyed |-> TRUE, batch |-> FALSE,
                 fk |-> [follower |-> Key("accounts", "raise"), followed |-> Key("accounts", "raise")]]

Kinds == [accounts |-> AccountKind, posts |-> PostKind, media |-> MediaKind, comments |-> CommentKind,
          likes |-> LikeKind, tagged_accounts |-> TaggedKind, account_relations |-> RelationKind]

\* entity_types: the kinds in the order in which a session's entities are taken in.
Order == <<"accounts", "posts", "media", "comments", "likes", "tagged_accounts", "account_relations">>

\* SIMPLE_FK_REPOINTS
AccountRoles == {"account", "tagged", "follower", "followed"}

-----------------------------------------------------------------------------
(* Reconciliation                                                          *)

\* reconcile_primitives
First(a, b) == IF a # None THEN a ELSE b

Larger(a, b) == a # None /\ (b = None \/ a > b)

\* reconcile_X(new, old): field by field, old wins where it has a value.
ReconcileFields(new, old) ==
    [pk |-> First(old.pk, new.pk), plat |-> old.plat, url |-> First(old.url, new.url),
     val |-> First(old.val, new.val), video |-> old.video]

\* Video beats image and brings its file name; the larger file wins.
ReconcileMedia(new, old) ==
    LET url == First(old.url, new.url) IN
    [pk |-> First(old.pk, new.pk), plat |-> old.plat,
     url |-> IF old.video # new.video THEN First((IF new.video THEN new ELSE old).url, url) ELSE url,
     val |-> IF Larger(new.val, old.val) THEN new.val ELSE First(old.val, new.val),
     video |-> old.video \/ new.video]

Reconcile(key, new, old) ==
    IF key = "media" THEN ReconcileMedia(new, old) ELSE ReconcileFields(new, old)

\* synthesize_from_archives: each record fills the gaps that those before it left.  The
\* sort is by a create_date that no entity has, so the records keep their order.
SynthesizeFromArchives(key, recs) ==
    LET sum[n \in 0..(Len(recs) - 1)] ==
            IF n = 0 THEN recs[1] ELSE Reconcile(key, recs[n + 1], sum[n - 1])
    IN sum[Len(recs) - 1]

\* A SELECT without ORDER BY returns the records in any order.
Orders(S) == {o \in [1..Cardinality(S) -> S] : Range(o) = S}

-----------------------------------------------------------------------------
(* Tables.  d is a database, or what a transaction sees: [rows, arch, tags]. *)

Row(kind, rec, ids, fk, into, count) ==
    [kind |-> kind, rec |-> rec, ids |-> ids, fk |-> fk, into |-> into, count |-> count]
Observed(kind, session, row, rec) == [kind |-> kind, session |-> session, row |-> row, rec |-> rec]

Live(d, i) == d.rows[i].into = None
RowsOf(d, key) == {i \in DOMAIN d.rows : d.rows[i].kind = key}
PostsOf(d, a) == {p \in RowsOf(d, "posts") : d.rows[p].fk.account = a}
ArchOf(d, i) == {a \in DOMAIN d.arch : d.arch[a].row = i}
OfSession(d, i, s) == {a \in ArchOf(d, i) : d.arch[a].session = s}

Put(f, i, x) == [j \in DOMAIN f \cup {i} |-> IF j = i THEN x ELSE f[j]]

\* The identifiers list; a null handle or pk is not recorded.
Ids(rec) == {<<"id", x>> : x \in {rec.pk} \ {None}} \cup {<<"url", x>> : x \in {rec.url} \ {None}}

\* The unique indexes.  An index entry is a platform and an identifier.
Unique(d) ==
    /\ \A key \in {"accounts", "posts", "comments"} : \A i, j \in RowsOf(d, key) :
          i # j /\ d.rows[i].rec.pk # None =>
             ~(d.rows[i].rec.pk = d.rows[j].rec.pk /\ d.rows[i].rec.plat = d.rows[j].rec.plat)
    /\ \A i, j \in RowsOf(d, "media") :
          i # j /\ d.rows[i].rec.url # None =>
             ~(d.rows[i].rec.url = d.rows[j].rec.url /\ d.rows[i].rec.plat = d.rows[j].rec.plat)
    /\ \A a, b \in DOMAIN d.arch :
          a # b => ~(d.arch[a].row = d.arch[b].row /\ d.arch[a].session = d.arch[b].session)

\* AUTO_INCREMENT: workers never draw the same id.
NextId(ids, w) ==
    LET N == Cardinality(Workers)
        mine == {i \in ids : i % N = w % N}
    IN IF mine = {} THEN w ELSE Max(mine) + N

-----------------------------------------------------------------------------
(* Statements, executed on tables d that may have changed since the        *)
(* transaction read them: they write the columns named and no others.      *)

\* Mutant: the duplicate keeps its columns.
Tombstone_Keeps(r, keeper) ==
    Row(r.kind, [pk |-> None, plat |-> r.rec.plat, url |-> r.rec.url, val |-> r.rec.val,
                 video |-> r.rec.video], r.ids, r.fk, keeper, 0)

\* What makes a row inert.  Its identifiers stay.
Tombstone(r, keeper) ==
    Row(r.kind, [pk |-> None, plat |-> r.rec.plat, url |-> None, val |-> None,
                 video |-> r.rec.video], r.ids, r.fk, keeper, 0)

\* The foreign keys and older tombstones of a merged account follow it.
Repoint(st, i) == IF i = st.gone THEN st.keeper ELSE i

RepointedPosts(st, d) == {p \in RowsOf(d, "posts") : Repoint(st, d.rows[p].fk.account) = st.keeper}

MergedRow(st, d, i) ==
    LET r == d.rows[i] IN
    IF i = st.gone THEN Tombstone(r, st.keeper)
    ELSE IF i = st.keeper
    THEN Row(r.kind, st.rec, st.ids, r.fk, Repoint(st, r.into), Cardinality(RepointedPosts(st, d)))
    ELSE Row(r.kind, r.rec, r.ids,
             [role \in DOMAIN r.fk |-> IF role \in AccountRoles THEN Repoint(st, r.fk[role])
                                       ELSE r.fk[role]],
             Repoint(st, r.into), r.count)

MovedArch(st, arch) ==
    [a \in DOMAIN arch \ st.dropped |->
        Observed(arch[a].kind, arch[a].session, IF a \in st.moved THEN st.keeper ELSE arch[a].row,
                 IF a \in DOMAIN st.filled THEN st.filled[a] ELSE arch[a].rec)]

\* The tags of the merged account are selected, then re-pointed one by one.
MovedTags(st, tags) == (tags \ {<<st.gone, t>> : t \in st.tags}) \cup {<<st.keeper, t>> : t \in st.tags}

\* post_count of the accounts that have a post in the session.
Recounted(st, d) ==
    LET touched == {d.rows[d.arch[a].row].fk.account :
                    a \in {b \in DOMAIN d.arch : /\ d.arch[b].session = st.session
                                                 /\ d.arch[b].kind = "posts"}}
    IN [i \in DOMAIN d.rows |->
            IF i \in touched
            THEN Row(d.rows[i].kind, d.rows[i].rec, d.rows[i].ids, d.rows[i].fk, d.rows[i].into,
                     Cardinality(PostsOf(d, i)))
            ELSE d.rows[i]]

\* store_X of a row that exists: kind, redirect and post_count are not written.
StoredRow(st, r) == Row(r.kind, st.rec, st.ids, st.fk, r.into, r.count)

Exec(st, d) ==
    CASE st.op = "insert" ->
            [rows |-> Put(d.rows, st.id, st.row), arch |-> Put(d.arch, st.aid, st.record), tags |-> d.tags]
      [] st.op = "store" ->
            [rows |-> Put(d.rows, st.id, StoredRow(st, d.rows[st.id])),
             arch |-> Put(d.arch, st.aid, st.record), tags |-> d.tags]
      [] st.op = "merge" ->
            [rows |-> [i \in DOMAIN d.rows |-> MergedRow(st, d, i)],
             arch |-> MovedArch(st, d.arch), tags |-> MovedTags(st, d.tags)]
      [] st.op = "recount" -> [rows |-> Recounted(st, d), arch |-> d.arch, tags |-> d.tags]

Replay(out, d) ==
    LET after[n \in 0..Len(out)] == IF n = 0 THEN d ELSE Exec(out[n], after[n - 1])
    IN after[Len(out)]

-----------------------------------------------------------------------------
(* Matching                                                                *)

ByPk(d, key, plat, pk) ==
    {i \in RowsOf(d, key) : pk # None /\ d.rows[i].rec.pk = pk /\ d.rows[i].rec.plat = plat}
ByUrl(d, key, plat, url) ==
    {i \in RowsOf(d, key) : url # None /\ d.rows[i].rec.url = url /\ d.rows[i].rec.plat = plat}

Least(S) == IF S = {} THEN None ELSE Min(S)

\* Mutant: a handle that changed hands still matches.
PkConflict_Never(d, i, pk) == FALSE

\* _pk_conflict: the handle changed hands.
PkConflict(d, i, pk) == pk # None /\ d.rows[i].rec.pk # None /\ d.rows[i].rec.pk # pk

\* batch_get_canonicals_url_and_id, batch_get_canonicals_id_only
Match(d, key, rec) ==
    LET byPk == Least(ByPk(d, key, rec.plat, rec.pk))
        byUrl == Least(ByUrl(d, key, rec.plat, rec.url))
    IN CASE Kinds[key].match = "pk" ->
              IF byPk # None THEN byPk
              ELSE IF byUrl # None /\ PkConflict(d, byUrl, rec.pk) THEN None ELSE byUrl
         [] Kinds[key].match = "url" -> First(byUrl, byPk)
         [] Kinds[key].match = "key" -> Least({i \in RowsOf(d, key) : d.rows[i].rec.pk = rec.pk})

\* The batch resolvers keep the last row of a handle, the per-row ones the first.
ResolveRef(d, key, role, o, batch) ==
    LET to == Kinds[key].fk[role].to
        byPk == ByPk(d, to, o.rec.plat, o.refs[role].pk)
        found == IF byPk # {} THEN byPk ELSE ByUrl(d, to, o.rec.plat, o.refs[role].url)
    IN IF found = {} THEN None ELSE IF batch THEN Max(found) ELSE Min(found)

Names(o, role) == o.refs[role].pk # None \/ o.refs[role].url # None

\* Entities without identity are skipped; comments and likes of unknown posts are dropped.
Admissible(d, key, o) ==
    /\ Kinds[key].keyed => o.rec.pk # None
    /\ \A role \in DOMAIN Kinds[key].fk :
          Kinds[key].fk[role].missing = "drop" /\ Names(o, role) =>
              ResolveRef(d, key, role, o, TRUE) # None

-----------------------------------------------------------------------------
(* Account merge                                                           *)

\* Mutant: the provenance of the merged row is dropped.
MoveArchives_Drop(d, keeper, gone) == [moved |-> {}, dropped |-> ArchOf(d, gone), filled |-> <<>>]

\* _repoint_account_archives: the keeper's record of a session is completed from the
\* merged row's, which goes; where the keeper has none the record moves.
MoveArchives(d, keeper, gone) ==
    LET moved == {a \in ArchOf(d, gone) : OfSession(d, keeper, d.arch[a].session) = {}}
        Same(b) == OfSession(d, gone, d.arch[b].session)
    IN [moved |-> moved,
        dropped |-> ArchOf(d, gone) \ moved,
        filled |-> [b \in {b \in ArchOf(d, keeper) : Same(b) # {}} |->
                       ReconcileFields(d.arch[Min(Same(b))].rec, d.arch[b].rec)]]

\* The most recently captured handle of the records of an account.
NewestHandle(arch, i) ==
    LET with == {a \in DOMAIN arch : arch[a].row = i /\ arch[a].rec.url # None}
        latest == {a \in with : \A b \in with : arch[a].session >= arch[b].session}
    IN IF with = {} THEN None ELSE arch[Max(latest)].rec.url

MergeRefused(d, keeper, gone) ==
    LET k == d.rows[keeper] m == d.rows[gone] IN
    \/ keeper = gone
    \/ k.into # None \/ m.into # None
    \/ k.rec.pk # None /\ m.rec.pk # None /\ k.rec.pk # m.rec.pk
    \/ k.rec.pk # None /\ k.rec.pk = m.rec.pk /\ k.rec.plat # None /\ m.rec.plat # None
       /\ k.rec.plat # m.rec.plat

\* merge_account_into: the statements of one merge, which nothing comes between.
MergeAccountInto(d, keeper, gone) ==
    LET k == d.rows[keeper] m == d.rows[gone]
        archives == MoveArchives(d, keeper, gone)
        newest == NewestHandle(MovedArch([keeper |-> keeper] @@ archives, d.arch), keeper)
        rec == [pk |-> First(k.rec.pk, m.rec.pk), plat |-> First(k.rec.plat, m.rec.plat),
                url |-> First(newest, First(k.rec.url, m.rec.url)),
                val |-> First(k.rec.val, m.rec.val), video |-> k.rec.video]
    IN [op |-> "merge", keeper |-> keeper, gone |-> gone,
        moved |-> archives.moved, dropped |-> archives.dropped, filled |-> archives.filled,
        rec |-> rec, ids |-> k.ids \cup m.ids \cup Ids(rec) \cup Ids(k.rec) \cup Ids(m.rec),
        tags |-> {t \in TagNames : <<gone, t>> \in d.tags}]

\* auto_merge_shadowed_stubs: an account seen with pk and handle proves that the
\* stub that holds the handle is the row that holds the pk.
ShadowedStubs(d, accounts) ==
    LET bound == {o \in {accounts[n].rec : n \in DOMAIN accounts} : o.pk # None /\ o.url # None}
        sure == {o \in bound : \A q \in bound : q.url = o.url /\ q.plat = o.plat => q.pk = o.pk}
        Stub(h, s) ==
          /\ h # s /\ Live(d, h) /\ Live(d, s) /\ d.rows[s].rec.pk = None
          /\ \E o \in sure : h \in ByPk(d, "accounts", o.plat, o.pk)
                             /\ s \in ByUrl(d, "accounts", o.plat, o.url)
    IN {p \in RowsOf(d, "accounts") \X RowsOf(d, "accounts") : Stub(p[1], p[2])}

\* V038: of the accounts that hold one pk the oldest row keeps it.
Duplicates(d) ==
    LET Same(i) == {j \in RowsOf(d, "accounts") : d.rows[i].rec.pk # None
                                                 /\ d.rows[j].rec.pk = d.rows[i].rec.pk}
    IN {p \in RowsOf(d, "accounts") \X RowsOf(d, "accounts") :
          p[1] < p[2] /\ {p[1], p[2]} \subseteq Same(p[1]) /\ \A h \in Same(p[1]) : h >= p[1]}

-----------------------------------------------------------------------------
(* The statements that store an entity                                     *)

Identifiers(key, rec) == IF key = "accounts" THEN Ids(rec) ELSE {}

\* Phase 3: a new canonical row and the session's record of it.
StoreNew(d, key, o, s, w) ==
    LET id == NextId(DOMAIN d.rows, w)
        fk == [role \in DOMAIN Kinds[key].fk |-> ResolveRef(d, key, role, o, Kinds[key].batch)]
    IN [op |-> "insert", id |-> id, row |-> Row(key, o.rec, Identifiers(key, o.rec), fk, None, 0),
        aid |-> NextId(DOMAIN d.arch, w), record |-> Observed(key, s, id, o.rec)]

Resolved(key, fk) == \A role \in DOMAIN fk : Kinds[key].fk[role].missing = "raise" => fk[role] # None

\* preserve_canonical_identifiers
PreserveIdentifiers(rec, old) ==
    [pk |-> First(old.pk, rec.pk), plat |-> rec.plat, url |-> First(rec.url, old.url),
     val |-> rec.val, video |-> rec.video]

\* Phase 4: the session's record is merged or added, then the canonical row is re-derived
\* from all records in the order they were read (again), where the first wins, or merged
\* with this one (first time), which wins.
StoreExisting(d, key, id, o, s, w, order) ==
    LET row == d.rows[id]
        prior == OfSession(d, id, s)
        again == prior # {}
        aid == IF again THEN Min(prior) ELSE NextId(DOMAIN d.arch, w)
        rec == IF again THEN Reconcile(key, o.rec, d.arch[aid].rec) ELSE o.rec
        derived == IF again
                   THEN SynthesizeFromArchives(key,
                            [n \in DOMAIN order |-> IF order[n] = aid THEN rec ELSE d.arch[order[n]].rec])
                   ELSE Reconcile(key, row.rec, rec)
    IN [op |-> "store", id |-> id, rec |-> PreserveIdentifiers(derived, row.rec),
        ids |-> IF key = "accounts" THEN row.ids \cup Ids(derived) ELSE row.ids,
        fk |-> [role \in DOMAIN Kinds[key].fk |->
                   First(row.fk[role], ResolveRef(d, key, role, o, FALSE))],
        aid |-> aid, record |-> Observed(key, s, id, rec)]

-----------------------------------------------------------------------------
(* Transactions                                                            *)

\* The rest of the kind that is being processed: stubs to merge, entities (by position)
\* to match, new ones, and what was found for existing rows, by row.
Work(kind, stubs, todo, new, hit) ==
    [kind |-> kind, stubs |-> stubs, todo |-> todo, new |-> new, hit |-> hit]
Done(work) == work.stubs = {} /\ work.todo = {} /\ work.new = {} /\ DOMAIN work.hit = {}

\* transaction_batch opens; REPEATABLE READ fixes what it will see.  Session 0 is V038.
Open(session, work) == [session |-> session, view |-> db, out |-> <<>>, log |-> {}, work |-> work]

\* No transaction is open.
Idle == [session |-> None]

Go(w, t) == tx' = [tx EXCEPT ![w] = t]

\* A step that only plans, and one that executes a statement.
Plan(w, work) ==
    Go(w, [session |-> tx[w].session, view |-> tx[w].view, out |-> tx[w].out, log |-> tx[w].log,
           work |-> work])
Execute(w, st, log, work) ==
    Go(w, [session |-> tx[w].session, view |-> Exec(st, tx[w].view), out |-> Append(tx[w].out, st),
           log |-> log, work |-> work])

Init ==
    /\ content = [s \in Sessions |-> None]
    /\ db \in Legacy
    /\ tx = [w \in Workers |-> Idle]
    /\ runs = 0
    /\ migrated = FALSE
    /\ merged = {}
    /\ late = {}

\* V038 runs while no loader does; two platforms with one pk stop it (V019 gave every
\* row its platform).
BeginDedupe(w) ==
    /\ ~migrated /\ \A v \in Workers : tx[v] = Idle
    /\ \A i, j \in RowsOf(db, "accounts") :
          db.rows[i].rec.pk # None /\ db.rows[i].rec.pk = db.rows[j].rec.pk =>
              db.rows[i].rec.plat = db.rows[j].rec.plat
    /\ Go(w, Open(0, Work(0, Duplicates(db), {}, {}, <<>>)))
    /\ UNCHANGED <<db, content, runs, migrated, merged, late>>

\* incorporate_structures_into_db.  An archive holds the same whenever it is extracted.
Begin(w, s) ==
    /\ migrated
    /\ tx[w] = Idle
    /\ runs < MaxRuns
    /\ Go(w, Open(s, Work(0, {}, {}, {}, <<>>)))
    /\ runs' = runs + 1
    /\ \E c \in IF content[s] = None THEN Contents ELSE {content[s]} :
          content' = [content EXCEPT ![s] = c]
    /\ UNCHANGED <<db, migrated, merged, late>>

EntitiesAt(t, n) == content[t.session][Order[n]]

\* The next entity kind that the session has; accounts prove stubs first.
OpenKind(w, n) ==
    LET t == tx[w] IN
    /\ t # Idle /\ t.session # 0 /\ Done(t.work)
    /\ n > t.work.kind /\ DOMAIN EntitiesAt(t, n) # {}
    /\ \A k \in DOMAIN Order : t.work.kind < k /\ k < n => DOMAIN EntitiesAt(t, k) = {}
    /\ Plan(w, Work(n, IF Order[n] = "accounts" THEN ShadowedStubs(t.view, EntitiesAt(t, n)) ELSE {},
                    DOMAIN EntitiesAt(t, n), {}, <<>>))
    /\ UNCHANGED <<db, content, runs, migrated, merged, late>>

\* merge_account_into.  A refusal raises and ends the transaction.
MergeOne(w, keeper, gone) ==
    LET t == tx[w] IN
    /\ t # Idle /\ <<keeper, gone>> \in t.work.stubs
    /\ ~MergeRefused(t.view, keeper, gone)
    /\ Execute(w, MergeAccountInto(t.view, keeper, gone), t.log \cup {<<keeper, gone>>},
               Work(t.work.kind, t.work.stubs \ {<<keeper, gone>>}, t.work.todo, {}, <<>>))
    /\ UNCHANGED <<db, content, runs, migrated, merged, late>>

\* Phase 1.  Entities that find the same row are collapsed, the later one winning.
Collapse(key, hit, id, o) ==
    Put(hit, id, [rec |-> IF id \in DOMAIN hit THEN Reconcile(key, hit[id].rec, o.rec) ELSE o.rec,
                  refs |-> o.refs])

MatchOne(w, n) ==
    LET t == tx[w]
        key == Order[t.work.kind]
        o == EntitiesAt(t, t.work.kind)[n]
        id == Match(t.view, key, o.rec)
        rest == t.work.todo \ {n}
    IN /\ t # Idle /\ t.work.stubs = {}
       /\ n \in t.work.todo /\ \A m \in t.work.todo : n <= m
       /\ \/ /\ ~Admissible(t.view, key, o)
             /\ Plan(w, Work(t.work.kind, {}, rest, t.work.new, t.work.hit))
          \/ /\ Admissible(t.view, key, o) /\ id = None
             /\ Plan(w, Work(t.work.kind, {}, rest, t.work.new \cup {n}, t.work.hit))
          \/ /\ Admissible(t.view, key, o) /\ id # None
             /\ Plan(w, Work(t.work.kind, {}, rest, t.work.new, Collapse(key, t.work.hit, id, o)))
       /\ UNCHANGED <<db, content, runs, migrated, merged, late>>

\* An unresolved foreign key that must be resolved raises and ends the transaction.
InsertNew(w, n) ==
    LET t == tx[w]
        st == StoreNew(t.view, Order[t.work.kind], EntitiesAt(t, t.work.kind)[n], t.session, w)
    IN /\ t # Idle /\ t.work.stubs = {} /\ t.work.todo = {}
       /\ n \in t.work.new /\ \A m \in t.work.new : n <= m
       /\ Resolved(Order[t.work.kind], st.row.fk)
       /\ Execute(w, st, t.log, Work(t.work.kind, {}, {}, t.work.new \ {n}, t.work.hit))
       /\ UNCHANGED <<db, content, runs, migrated, merged, late>>

StoreHit(w, id, order) ==
    LET t == tx[w] IN
    /\ t # Idle /\ t.work.stubs = {} /\ t.work.todo = {} /\ t.work.new = {}
    /\ id \in DOMAIN t.work.hit
    /\ order \in Orders(ArchOf(t.view, id))
    /\ Execute(w, StoreExisting(t.view, Order[t.work.kind], id, t.work.hit[id], t.session, w, order), t.log,
               Work(t.work.kind, {}, {}, {}, [i \in DOMAIN t.work.hit \ {id} |-> t.work.hit[i]]))
    /\ UNCHANGED <<db, content, runs, migrated, merged, late>>

End(w) ==
    /\ Go(w, Idle)
    /\ late' = IF \A v \in Workers \ {w} : tx[v] = Idle THEN {} ELSE late

\* All kinds are done and post_count is synchronised.  The rows a transaction writes are
\* locked until it ends, so a second writer's statements on them wait for its commit.
Commit(w) ==
    LET t == tx[w]
        recount == [op |-> "recount", session |-> t.session]
        d == Replay(IF t.session = 0 THEN t.out ELSE Append(t.out, recount), db)
    IN /\ t # Idle /\ Done(t.work)
       /\ t.session # 0 => \A k \in DOMAIN Order : k > t.work.kind => DOMAIN EntitiesAt(t, k) = {}
       /\ Unique(d)
       /\ db' = d
       /\ merged' = merged \cup t.log
       /\ migrated' = TRUE
       /\ End(w)
       /\ UNCHANGED <<content, runs>>

\* An exception of any statement, a refused merge, an unresolved foreign key, a
\* duplicate key or the death of the process: the whole transaction is undone.
Rollback(w) ==
    /\ tx[w] # Idle
    /\ End(w)
    /\ UNCHANGED <<db, content, runs, migrated, merged>>

\* annotate_account: INSERT IGNORE for the id in the request, redirected or not.
Annotate(a, t) ==
    /\ migrated
    /\ <<a, t>> \notin db.tags /\ Cardinality(db.tags) < MaxTags
    /\ db' = [rows |-> db.rows, arch |-> db.arch, tags |-> db.tags \cup {<<a, t>>}]
    /\ late' = IF \A w \in Workers : tx[w] = Idle THEN late ELSE late \cup {<<a, t>>}
    /\ UNCHANGED <<tx, content, runs, migrated, merged>>

Process(w) ==
    \/ BeginDedupe(w)
    \/ \E s \in Sessions : Begin(w, s)
    \/ \E n \in DOMAIN Order : OpenKind(w, n)
    \/ tx[w] # Idle /\ \E pair \in tx[w].work.stubs : MergeOne(w, pair[1], pair[2])
    \/ tx[w] # Idle /\ \E n \in tx[w].work.todo : MatchOne(w, n)
    \/ tx[w] # Idle /\ \E n \in tx[w].work.new : InsertNew(w, n)
    \/ tx[w] # Idle /\ \E id \in DOMAIN tx[w].work.hit :
          \E order \in Orders(ArchOf(tx[w].view, id)) : StoreHit(w, id, order)
    \/ Commit(w)
    \/ Rollback(w)

Next ==
    \/ \E w \in Workers : Process(w)
    \/ \E a \in RowsOf(db, "accounts"), t \in TagNames : Annotate(a, t)

Spec == Init /\ [][Next]_vars

(* Properties                                                              *)

\* Rows are of a known kind, and a resolved foreign key names a row of the table it is for.
RowsOK(d) ==
    /\ IsFiniteSet(DOMAIN d.rows) /\ \A i \in DOMAIN d.rows : i \in Nat
    /\ \A i \in DOMAIN d.rows :
          /\ d.rows[i].kind \in DOMAIN Kinds
          /\ DOMAIN d.rows[i].fk = DOMAIN Kinds[d.rows[i].kind].fk
          /\ \A role \in DOMAIN d.rows[i].fk :
                LET key == Kinds[d.rows[i].kind].fk[role] IN
                \/ d.rows[i].fk[role] \in RowsOf(d, key.to)
                \/ d.rows[i].fk[role] = None /\ key.missing # "raise"

\* A record names a row of its kind and a session, and every live row has a record.
ArchOK(d) ==
    /\ IsFiniteSet(DOMAIN d.arch) /\ \A a \in DOMAIN d.arch : a \in Nat
    /\ \A a \in DOMAIN d.arch : /\ d.arch[a].kind \in DOMAIN Kinds
                                /\ d.arch[a].row \in RowsOf(d, d.arch[a].kind)
                                /\ d.arch[a].session \in Sessions
    /\ \A i \in DOMAIN d.rows : Live(d, i) => ArchOf(d, i) # {}

TypeOK ==
    /\ RowsOK(db) /\ ArchOK(db)
    /\ db.tags \subseteq RowsOf(db, "accounts") \X TagNames
    /\ late \subseteq RowsOf(db, "accounts") \X TagNames
    /\ runs \in 0..MaxRuns /\ migrated \in BOOLEAN
    /\ \A w \in Workers : tx[w].session \in Sessions \cup {0, None}

\* A merged account is inert: no handle or pk by which a lookup could find it, no
\* provenance and no child row is left at it, and its redirect ends at a live row.
Inert(d) ==
    \A i \in DOMAIN d.rows : ~Live(d, i) =>
        /\ d.rows[i].kind = "accounts"
        /\ d.rows[i].rec.pk = None /\ d.rows[i].rec.url = None /\ d.rows[i].rec.val = None
        /\ ArchOf(d, i) = {}
        /\ d.rows[i].into \in RowsOf(d, "accounts") /\ Live(d, d.rows[i].into)
        /\ \A j \in DOMAIN d.rows : \A r \in DOMAIN d.rows[j].fk \cap AccountRoles :
              d.rows[j].fk[r] # i

TombstonesAreInert == Inert(db)

\* No canonical row mixes two identities: what was observed of it under a pk was
\* observed under one pk of one platform, the pk the row has.
OneIdentity(d) ==
    \A a \in DOMAIN d.arch :
        LET r == d.rows[d.arch[a].row].rec o == d.arch[a].rec IN
        d.arch[a].kind \in {"accounts", "posts"} =>
            r.plat = o.plat /\ (o.pk # None => r.pk = o.pk)

RowIsOneIdentity == OneIdentity(db)

\* post_count, which the search sorts by, is the number of the account's posts.
Counted(d, i) == d.rows[i].count = Cardinality(PostsOf(d, i))

CountsAgree == \A i \in RowsOf(db, "accounts") : Counted(db, i)

\* Every reference leads to a live row and every copy agrees with what it copies,
\* after any sessions and merges: rows, records, foreign keys, redirects, counts.
ReferencesAreSound == TypeOK /\ TombstonesAreInert /\ CountsAgree

\* A canonical row has a value that one of its records has, for media the largest file.
Synthesis(d, i) ==
    LET valued == {a \in ArchOf(d, i) : d.arch[a].rec.val # None}
        val == d.rows[i].rec.val
    IN IF valued = {} THEN val = None
       ELSE /\ \E a \in valued : val = d.arch[a].rec.val
            /\ d.rows[i].kind = "media" => \A a \in valued : d.arch[a].rec.val <= val

\* Whatever the order in which sessions came and came again, a canonical row that no
\* merge touched says what one of its records says and loses nothing they say.
CanonicalIsSynthesis ==
    \A i \in DOMAIN db.rows : (\A km \in merged : i \notin {km[1], km[2]}) => Synthesis(db, i)

\* A canonical row speaks of one identity and says what its records say.
CanonicalRowsAreRight == RowIsOneIdentity /\ CanonicalIsSynthesis

\* Deriving a row from its records gives what taking the sessions in one by one gave:
\* an incorporation that leaves every record as it was changes what no row says.
\* The code breaks it: README, section 7.
ReprocessingIsConsistent ==
    [][db'.arch = db.arch => \A i \in DOMAIN db.rows : db'.rows[i].rec.val = db.rows[i].rec.val]_db

\* resolve_account_redirect
Resolve(d, i) ==
    LET hop[n \in Nat] ==
            IF n = 0 THEN i
            ELSE LET j == hop[n - 1] IN IF Live(d, j) THEN j ELSE d.rows[j].into
    IN hop[Cardinality(DOMAIN d.rows)]

\* What a reader is shown under an account's number.
Shown(d, i) ==
    LET a == Resolve(d, i) IN
    d.rows[a].ids \cup {<<"session", d.arch[b].session>> : b \in ArchOf(d, a)}
        \cup {<<"post", p>> : p \in PostsOf(d, a)}
        \cup {<<"tag", t>> : t \in {u \in TagNames : <<a, u>> \in d.tags}}

\* The tables without the tags that came too late for the merge of their account: those
\* added after its transaction had begun.
Settled == [rows |-> db.rows, arch |-> db.arch, tags |-> {u \in db.tags : u \in late => Live(db', u[1])}]

\* An account number that was cited keeps showing what it showed: identifiers,
\* provenance, posts and tags are only ever added, through merges and reprocessing.
EvidenceOnlyGrows ==
    [][\A i \in RowsOf(db, "accounts") : Shown(Settled, i) \subseteq Shown(db', i)]_db

-----------------------------------------------------------------------------
(* Assumptions                                                             *)

\* SQL NULL is no value, and the size of a stored file is a number.
ContentsAssumption ==
    /\ None \notin Nat /\ NumSessions \in Nat /\ MaxRuns \in Nat
    /\ \A c \in Contents : \A n \in DOMAIN c.media : c.media[n].rec.val \in Nat \cup {None}
ASSUME ContentsAssumption

\* The older release kept its tables in order, but for the accounts it duplicated.
LegacyAssumption ==
    \A d \in Legacy :
        /\ d = [rows |-> d.rows, arch |-> d.arch, tags |-> d.tags]
        /\ RowsOK(d) /\ ArchOK(d) /\ OneIdentity(d)
        /\ d.tags \subseteq RowsOf(d, "accounts") \X TagNames
        /\ \A i \in DOMAIN d.rows : Live(d, i) /\ Counted(d, i) /\ Synthesis(d, i)
        /\ \A a \in DOMAIN d.arch : d.arch[a].kind = "media" => d.arch[a].rec.val \in Nat \cup {None}
ASSUME LegacyAssumption

=============================================================================
