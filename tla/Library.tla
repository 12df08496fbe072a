------------------------------ MODULE Library ------------------------------
(***************************************************************************)
(* The archive as its readers meet it: the entities that intake stored,    *)
(* who owns them, their tags (TagVocabulary), the share links that show a  *)
(* part of it to a visitor, and the queries that find entities again: the  *)
(* tag filter of the search page, the entity pages, the visitor's check,   *)
(* the community scores.  Accounts are merged by the incorporation thread  *)
(* and posts stored by it, between any two requests and between the rows   *)
(* of an import.                                                           *)
(***************************************************************************)
EXTENDS TagVocabulary, FiniteSetsExt

CONSTANTS
    Accounts, Posts, Media, PartIds, LinkIds,
    LocalMedia,      \* the media that have a file (local_url)
    Captures,        \* what sessions hold: [post, account, media]
    InitialTies,     \* the sets of ties the archive may start from
    MayMerge,        \* <<keeper, merged>> pairs identity allows
    HandNames,       \* the names typed into the tag pages, a bound
    Weight           \* DEFAULT_TIE_WEIGHTS, by kind of tie

ASSUME LibraryAssumption ==
    /\ None \notin Accounts \cup Posts
    /\ Captures \subseteq [post : Posts, account : Accounts, media : SUBSET Media]
    /\ \A w \in MayMerge : w \in Accounts \X Accounts /\ w[1] # w[2]

\* The kinds of tie between two accounts, and those of an account and something of another's.
AccountTies == {"follow", "suggested"}
TieKinds == AccountTies \cup {"like", "comment", "tagpost", "tagmedia"}
TieTargets(kind) == CASE kind \in AccountTies -> Accounts [] kind = "tagmedia" -> Media [] OTHER -> Posts

\* By default suggestions count for nothing, and every other tie for something.
ASSUME TiesAssumption ==
    /\ Weight \in [TieKinds -> Nat]
    /\ \A kind \in TieKinds : Weight[kind] = 0 <=> kind = "suggested"
    /\ \A s \in InitialTies : \A t \in s :
          /\ t = [kind |-> t.kind, from |-> t.from, at |-> t.at]
          /\ t.kind \in TieKinds /\ t.from \in Accounts /\ t.at \in TieTargets(t.kind)

VARIABLES
    postOwner,   \* post.account_id, None while the post is not stored
    mediaPost,   \* media.post_id
    mediaOwner,  \* media.account_id, copied from the post
    partOf,      \* media_part: id -> media
    mergedInto,  \* account.merged_into_account_id
    ties,        \* account_relation, post_like, comment, tagged_account: [kind, from, at]
    links        \* entity_share_link: id -> [entity, valid]

content == <<postOwner, mediaPost, mediaOwner, mergedInto, ties>>
vars == <<vocabVars, content, partOf, links>>

A(a) == <<"account", a>>
P(p) == <<"post", p>>
M(m) == <<"media", m>>
Part(q) == <<"media_part", q>>
Live == {a \in Accounts : mergedInto[a] = None}

Init ==
    /\ InitVocabulary
    /\ stored = {A(a) : a \in Accounts}
    /\ postOwner = [p \in Posts |-> None]
    /\ mediaPost = [m \in Media |-> None] /\ mediaOwner = [m \in Media |-> None]
    /\ partOf = <<>> /\ links = <<>>
    /\ mergedInto = [a \in Accounts |-> None]
    /\ ties \in InitialTies

-----------------------------------------------------------------------------
(* Intake and merges, in the incorporation thread.                         *)

\* resolve_account_redirect; merges keep the paths one step long.
Keeper(a) == IF mergedInto[a] = None THEN a ELSE mergedInto[a]

\* A session that holds a post and some of its media: a post keeps the owner it has, and the
\* media of the session take the owner of their post.
Intake(c) ==
    LET owner == IF postOwner[c.post] = None THEN Keeper(c.account) ELSE postOwner[c.post] IN
    /\ stored' = stored \cup {P(c.post)} \cup {M(m) : m \in c.media}
    /\ postOwner' = [postOwner EXCEPT ![c.post] = owner]
    /\ mediaPost' = [m \in Media |-> IF m \in c.media THEN c.post ELSE mediaPost[m]]
    /\ mediaOwner' = [m \in Media |-> IF m \in c.media THEN owner ELSE mediaOwner[m]]
    /\ UNCHANGED <<catalogue, edges, marks, job, requests, partOf, mergedInto, ties, links>>

Moved(f, k, g) == [x \in DOMAIN f |-> IF f[x] = g THEN k ELSE f[x]]

RepointMedia_Never(k, g) == mediaOwner
RepointMedia(k, g) == Moved(mediaOwner, k, g)

RepointLinks(k, g) ==
    [l \in DOMAIN links |-> IF links[l].entity = A(g) THEN [links[l] EXCEPT !.entity = A(k)]
                            ELSE links[l]]

RepointMarks_DropsTheMerged(k, g) == {x \in marks : x[1] # A(g)}
\* _repoint_account_tags: the tags of both, each once.
RepointMarks(k, g) == {IF x[1] = A(g) THEN <<A(k), x[2]>> ELSE x : x \in marks}

RepointTies_OneEnd(k, g) ==
    LET To(x) == IF x = g THEN k ELSE x IN {[t EXCEPT !.from = To(@)] : t \in ties}

RepointTies(k, g) ==
    LET To(x) == IF x = g THEN k ELSE x
    IN {[t EXCEPT !.from = To(@), !.at = IF t.kind \in AccountTies THEN To(@) ELSE @] : t \in ties}

\* merge_account_into, one transaction.
Merge(k, g) ==
    /\ {k, g} \subseteq Live
    /\ mergedInto' = [Moved(mergedInto, k, g) EXCEPT ![g] = k]
    /\ postOwner' = Moved(postOwner, k, g)
    /\ mediaOwner' = RepointMedia(k, g)
    /\ marks' = RepointMarks(k, g)
    /\ links' = RepointLinks(k, g)
    /\ ties' = RepointTies(k, g)
    /\ UNCHANGED <<catalogue, edges, stored, job, requests, mediaPost, partOf>>

-----------------------------------------------------------------------------
(* Media parts and share links.                                            *)

PartRequest ==
    /\ Request
    /\ UNCHANGED <<catalogue, edges, marks, job, content, links>>

InsertMediaPart(q, m) ==
    /\ PartRequest /\ q \notin DOMAIN partOf /\ M(m) \in stored
    /\ partOf' = Put(partOf, q, m)
    /\ stored' = stored \cup {Part(q)}

UpdateMediaPart(q, m) ==
    /\ PartRequest /\ q \in DOMAIN partOf /\ M(m) \in stored
    /\ partOf' = Put(partOf, q, m)
    /\ UNCHANGED stored

\* The foreign key of media_part_tag refuses the deletion of a part that has a tag.
DeleteMediaPart(q) ==
    /\ PartRequest /\ q \in DOMAIN partOf
    /\ \A k \in marks : k[1] # Part(q)
    /\ partOf' = Without(partOf, q)
    /\ stored' = stored \ {Part(q)}

LinkRequest ==
    /\ Request
    /\ UNCHANGED <<catalogue, edges, marks, stored, job, content, partOf>>

NewShareLink(e) ==
    /\ LinkRequest /\ e \in stored
    /\ \E l \in LinkIds :
        /\ l = Cardinality(DOMAIN links) + 1
        /\ links' = Put(links, l, [entity |-> e, valid |-> TRUE])

LinksOf(e) == {l \in DOMAIN links : links[l].entity = e}

\* get_existing_share_link: the routes of an entity act on its youngest link.
PatchShareLinkValidity(e, v) ==
    /\ LinkRequest /\ LinksOf(e) # {}
    /\ links' = [links EXCEPT ![LastOf(LinksOf(e))].valid = v]

Next ==
    \/ /\ UNCHANGED <<content, partOf, links>>
       /\ \/ \E n \in HandNames, a \in Affinities : PostTagType(n, a)
          \/ \E ty \in DOMAIN types, n \in HandNames, a \in Affinities : PutTagType(ty, n, a)
          \/ \E ty \in DOMAIN types : DelTagType(ty)
          \/ \E n \in HandNames, ty \in DOMAIN types \cup {None} : PostTag(n, ty)
          \/ \E t \in DOMAIN tags, n \in HandNames, ty \in DOMAIN types \cup {None} : PutTag(t, n, ty)
          \/ \E t \in DOMAIN tags : DelTag(t)
          \/ \E p, c \in DOMAIN tags : PostHierarchy(p, c)
          \/ \E e \in edges : DelHierarchy(e)
          \/ \E kind \in {"account", "post", "media"}, ts \in SUBSET TagIds :
                AnnotateBatch(kind, {e \in stored : e[1] = kind}, ts)
          \/ \E e \in stored, ts \in SUBSET DOMAIN tags : AnnotateEntity(e, ts)
          \/ \E k \in marks : RemoveEntityTag(k)
          \/ \E b \in TagBatches, create \in BOOLEAN : StartTagImport(b, create)
          \/ \E b \in MarkBatches : StartMarkImport(b)
          \/ \E s \in job.todo : ImportTagRow(s) \/ ImportLink(s) \/ ImportMark(s)
          \/ ImportAborts \/ ImportEnds
    \/ \E c \in Captures : Intake(c)
    \/ \E w \in MayMerge : Merge(w[1], w[2])
    \/ \E q \in PartIds, m \in Media : InsertMediaPart(q, m) \/ UpdateMediaPart(q, m)
    \/ \E q \in PartIds : DeleteMediaPart(q)
    \/ \E e \in stored : NewShareLink(e)
    \/ \E e \in stored, v \in BOOLEAN : PatchShareLinkValidity(e, v)

Spec == Init /\ [][Next]_vars

(* Retrieval.                                                              *)

Direct(kind, t) == {k[1][2] : k \in {x \in Carriers(t) : x[1][1] = kind}}

AllowedScopes ==
    [account |-> {"account", "post", "media"}, post |-> {"account", "post", "media"},
     media |-> {"account", "post", "media"}, media_part |-> {"media_part"}]

\* _SCOPE_BRANCHES: from the tagged entities of a scope to the entities of the kind searched.
Branch(kind, scope, t) ==
    LET tagged == Direct(scope, t) IN
    CASE kind = scope -> tagged
      [] kind = "account" /\ scope = "post"  -> {postOwner[p] : p \in tagged} \ {None}
      [] kind = "account" /\ scope = "media" -> {mediaOwner[m] : m \in tagged} \ {None}
      [] kind = "post" /\ scope = "media"    -> {mediaPost[m] : m \in tagged} \ {None}
      [] kind = "post" /\ scope = "account"  -> {p \in Posts : postOwner[p] \in tagged}
      [] kind = "media" /\ scope = "post"    -> {m \in Media : mediaPost[m] \in tagged}
      [] kind = "media" /\ scope = "account" -> {m \in Media : mediaOwner[m] \in tagged}

\* build_tag_filter_join: scopes the kind does not have are dropped, and its own is the default.
TagFilter(kind, ts, mode, requested) ==
    LET valid == requested \cap AllowedScopes[kind]
        scopes == IF valid = {} THEN {kind} ELSE valid
        hits == {UNION {Branch(kind, s, t) : s \in scopes} : t \in ts}
    IN IF mode = "any" THEN UNION hits ELSE {x \in UNION hits : \A h \in hits : x \in h}

\* What the searches list of what the filter matched: no tombstones, only media with a file,
\* and the parts of such media.
ListedAccounts(found) == found \cap Live
ListedPosts(found) == found
ListedMedia(found) == found \cap LocalMedia
ListedParts(found) == {q \in found : partOf[q] \in LocalMedia}

Search(kind, ts, mode, requested) ==
    LET found == TagFilter(kind, ts, mode, requested) IN
    CASE kind = "account" -> ListedAccounts(found)
      [] kind = "post" -> ListedPosts(found)
      [] kind = "media" -> ListedMedia(found)
      [] kind = "media_part" -> ListedParts(found)

\* get_enriched_account_by_id: the posts of the account and the media of those posts.
AccountPage(a) ==
    LET ps == {p \in Posts : postOwner[p] = a}
    IN {P(p) : p \in ps} \cup {M(m) : m \in {x \in Media : mediaPost[x] \in ps}}

\* check_share_permissions: the entity itself, or one below it by way of its post.
Shows(e, r) ==
    \/ e = r
    \/ LET m == IF r[1] = "media_part" THEN partOf[r[2]] ELSE r[2]
           p == IF r[1] = "post" THEN r[2] ELSE mediaPost[m]
       IN /\ r[1] # "account"
          /\ \/ e[1] = "account" /\ p # None /\ postOwner[p] = e[2]
             \/ e[1] = "post" /\ r[1] # "post" /\ p = e[2]
             \/ e[1] = "media" /\ r[1] = "media_part" /\ m = e[2]

Visible(l) == IF links[l].valid THEN {r \in stored : Shows(links[l].entity, r)} ELSE {}

\* _build_score_sql: the accounts at the two ends of a tie; a media tie ends at the owner the
\* media row names.
Ends(t) ==
    <<t.from, CASE t.kind \in AccountTies -> t.at
                [] t.kind = "tagmedia" -> mediaOwner[t.at]
                [] OTHER -> postOwner[t.at]>>

Ties(x, y) == {t \in ties : Ends(t) \in {<<x, y>>, <<y, x>>}}

\* compute_candidates: the strongest tie to each kernel member, summed over the kernel.
Score(c, kernel) ==
    MapThenSumSet(LAMBDA k : Max({0} \cup {Weight[t.kind] : t \in Ties(c, k)}), kernel \ {c})
Candidates(kernel, excluded) ==
    {c \in Accounts \ (kernel \cup excluded) : Score(c, kernel) > 0}

\* get_related_account_tag_stats: follow relations may lead back to the account itself, the
\* other branches leave it out.
Related(a) ==
    {c \in Accounts : \E t \in ties : /\ Ends(t) \in {<<a, c>>, <<c, a>>}
                                      /\ t.kind # "suggested"
                                      /\ c = a => t.kind = "follow"}

-----------------------------------------------------------------------------
(* What must hold.                                                         *)

TypeOK ==
    /\ VocabularyTypeOK
    /\ stored = {A(a) : a \in Accounts} \cup {P(p) : p \in {x \in Posts : postOwner[x] # None}}
                \cup {M(m) : m \in {x \in Media : mediaPost[x] # None}}
                \cup {Part(q) : q \in DOMAIN partOf}
    /\ \A p \in Posts : postOwner[p] \in Live \cup {None}
    /\ \A l \in DOMAIN links : links[l].entity \in stored \/ links[l].entity[1] = "media_part"

\* media.account_id is a copy that intake and merges must keep true: the account page reaches
\* media through posts, the search page and the community scores through the copy, and a
\* visitor's link is checked through posts; all find the same media.
ViewsAgree ==
    \A a \in Accounts :
        LET own == {m \in Media : mediaOwner[m] = a} IN
        /\ {r[2] : r \in {x \in AccountPage(a) : x[1] = "media"}} = own
        /\ {r[2] : r \in {x \in stored : x[1] = "media" /\ Shows(A(a), x)}} = own

\* A merge loses nothing that a tag search found: every result is still listed for the same
\* tags and scope, the merged account as its keeper.
MergeFindsAgain ==
    \A w \in MayMerge :
        mergedInto[w[2]] = None /\ mergedInto'[w[2]] = w[1] =>
            \A kind \in {"account", "post", "media"}, scope \in {"account", "post", "media"},
               ts \in {{t} : t \in DOMAIN tags} \cup {DOMAIN tags} :
                  {IF kind = "account" /\ x = w[2] THEN w[1] ELSE x :
                      x \in Search(kind, ts, "all", {scope})}
                  \subseteq Search(kind, ts, "all", {scope})'
MergeKeepsFindable == [][MergeFindsAgain]_vars

\* Deleting a tag changes the search results of no other tag: it is refused while the tag or one
\* below it is in use, or while it connects tags of the hierarchy.
DeletionFindsAgain ==
    \A gone \in DOMAIN tags \ DOMAIN tags', kind \in {"account", "post", "media", "media_part"} :
        \A t \in DOMAIN tags' :
            Search(kind, {t}, "any", {kind})' = Search(kind, {t}, "any", {kind})
DeletingKeepsFindable == [][DeletionFindsAgain]_vars

\* What a valid link shows its visitor, it still shows after a merge, except a merged account's
\* own row.
MergeShowsAgain ==
    mergedInto' # mergedInto =>
        \A l \in DOMAIN links : {r \in Visible(l) : r[1] # "account"} \subseteq Visible(l)'
SharedStaysShared == [][MergeShowsAgain]_vars

\* Marks and links name what is stored, and neither a merge nor the deletion of a tag takes
\* from a tag search or from a link's visitor what they could see.
NothingGetsLost == []TypeOK /\ MergeKeepsFindable /\ DeletingKeepsFindable /\ SharedStaysShared

\* The related-tags panel and the community page agree on who is related: the statistics count
\* the accounts that score against this one with the default weights, and at most itself more.
StatsMirrorCommunity ==
    \A a \in Accounts : Related(a) \ {a} = Candidates({a}, {})

\* A merge adds up the ties of two rows: any third account scores against the keeper what its
\* strongest tie to either was worth.
MergeJoinsTies ==
    [][\A w \in MayMerge :
          mergedInto[w[2]] = None /\ mergedInto'[w[2]] = w[1] =>
              \A c \in Accounts \ {w[1], w[2]} :
                  Score(c, {w[1]})' = Max({Score(c, {w[1]}), Score(c, {w[2]})})]_vars

\* The ties of an account are the same from all pages, and a merge adds them up.
TiesAreWhole == []StatsMirrorCommunity /\ MergeJoinsTies

=============================================================================
