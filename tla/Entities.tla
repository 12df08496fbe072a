------------------------------ MODULE Entities ------------------------------
(***************************************************************************)
(* From the responses of a HAR to entities: detection of structures by     *)
(* host (extractors/structures_extraction.py and the packages instagram    *)
(* and threads), their conversion, deduplication, nesting for the summary  *)
(* and attachment of local files (extractors/structures_to_entities.py).   *)
(*                                                                         *)
(* A response has parts, one per connection it carries (a timeline, story  *)
(* reels, comments, ...).  A part or an item that the models or the        *)
(* mappers choke on is marked broken.                                      *)
(***************************************************************************)
EXTENDS Acquisition

\* The results of Mapper for the members of seq, one after the other.
OfEach(seq, Mapper(_)) == FoldLeft(LAMBDA done, x : done \o Mapper(x), <<>>, seq)

-----------------------------------------------------------------------------
(* Detection                                                               *)

\* A page keeps the last blob of each kind.
LastOfKind(parts) ==
    SelectSeq([i \in DOMAIN parts |-> [part |-> parts[i], i |-> i]],
              LAMBDA x : ~\E j \in DOMAIN parts : j > x.i /\ parts[j].kind = x.part.kind)

Structure(type, parts) == IF parts = <<>> THEN <<>> ELSE <<[type |-> type, parts |-> parts]>>

Parsed(parts) == SelectSeq(parts, LAMBDA p : ~p.unparsable)

\* extract_structure_from_entry: at most one structure; a part that does not
\* parse is left out, except that API v1 gives the whole response up.
ExtractStructure(e) ==
    IF e.type # "structure" THEN <<>>
    ELSE IF e.host = "threads" THEN Structure("threads", Parsed(e.parts))
    ELSE IF e.host # "instagram" THEN <<>>
    ELSE IF e.path = "graphql" THEN Structure("graphql", Parsed(e.parts))
    ELSE IF e.path = "api_v1"
         THEN Structure("api_v1", IF Parsed(e.parts) = e.parts THEN e.parts ELSE <<>>)
    ELSE LET last == LastOfKind(Parsed(e.parts))
         IN Structure("page", [i \in DOMAIN last |-> last[i].part])

Structures(h) == OfEach(h.entries, ExtractStructure)

\* The items of the structures with their slides, for videos and photos.
MediaItems(structures) ==
    OfEach(structures, LAMBDA s : OfEach(s.parts, LAMBDA p : OfEach(p.items, LAMBDA x : <<x>> \o x.slides)))

-----------------------------------------------------------------------------
(* Conversion                                                              *)

NoAccount == [pk |-> None, name |-> None]

Entity(kind, plat, pk, url) ==
    [kind |-> kind, plat |-> plat, pk |-> pk, url |-> url, account |-> NoAccount,
     post |-> None, media |-> None, other |-> NoAccount, local |-> None]

Account(plat, a) == Entity("account", plat, a.pk, a.name)

\* _asset_url_from_item
AssetFile(x) ==
    IF x.versions # <<>> THEN x.versions[1].file
    ELSE IF x.dash # None THEN x.dash.file ELSE x.image

Medium(plat, x, post) == [Entity("media", plat, x.id, AssetFile(x)) EXCEPT !.post = post]

Tags(plat, users, post, media) ==
    OfEach(users, LAMBDA a :
        <<[Entity("tagged", plat, None, None) EXCEPT !.other = a, !.post = post, !.media = media],
          Account(plat, a)>>)

\* What every mapper of posts does: the author, the post under a URL of its
\* kind, its media and tags, and one more medium for every slide.
InstagramPost(item, section, tags, tagged) ==
    <<Account("instagram", item.user),
      [Entity("post", "instagram", item.pk, <<section, item.pk>>) EXCEPT !.account = item.user],
      Medium("instagram", item, item.pk)>>
    \o Tags("instagram", tags, item.pk, tagged)
    \o OfEach(item.slides, LAMBDA x :
         <<Medium("instagram", x, item.pk)>> \o Tags("instagram", x.tags, item.pk, AssetFile(x)))

Attributable(items) == SelectSeq(items, LAMBDA x : x.user # NoAccount /\ x.pk # None)

GraphqlProfileInfo(part) == <<Account("instagram", part.users[1])>>

\* A highlight and a user's own reel arrive alike; their URLs differ.
GraphqlReelsMedia(part) ==
    OfEach(part.items, LAMBDA x :
        InstagramPost(x, IF part.kind = "reels" THEN "s" ELSE "stories", <<>>, None))

GraphqlProfileTimeline(part) ==
    OfEach(Attributable(part.items), LAMBDA x : InstagramPost(x, "p", x.tags, None))

GraphqlClips(part) == OfEach(part.items, LAMBDA x : InstagramPost(x, "p", <<>>, None))

ApiV1MediaInfo(part) == OfEach(part.items, LAMBDA x : InstagramPost(x, "p", x.tags, None))

PagePosts(part) == OfEach(part.items, LAMBDA x : InstagramPost(x, "p", x.tags, AssetFile(x)))

PageTimelines(part) ==
    OfEach(Attributable(part.items), LAMBDA x : InstagramPost(x, "p", <<>>, None))

\* Mentions on stickers have a handle and no id.
Mentioned(x) == [t \in DOMAIN x.tags |-> [x.tags[t] EXCEPT !.pk = None]]

PageHighlightReels(part) ==
    OfEach(part.items, LAMBDA x : InstagramPost(x, "s", Mentioned(x), None))

\* The feed may hold several reels (items carry theirs): the first one counts.
PageStories(part) ==
    OfEach(SelectSeq(part.items, LAMBDA x : x.user = part.items[1].user),
            LAMBDA x : InstagramPost(x, "stories", Mentioned(x), None))

\* A comment, preceded by the account that made it where there is one.
Comment(part, u) ==
    [Entity("comment", "instagram", part.ids[u],
            IF part.post = None THEN None ELSE <<part.post, part.ids[u]>>)
        EXCEPT !.post = part.post, !.account = part.users[u]]

CommentBy(part, u) ==
    (IF part.users[u] = NoAccount THEN <<>> ELSE <<Account("instagram", part.users[u])>>)
    \o <<Comment(part, u)>>

Indices(seq) == [i \in DOMAIN seq |-> i]

GraphqlComments(part) == OfEach(Indices(part.users), LAMBDA u : CommentBy(part, u))

ApiV1Comments(part) == GraphqlComments(part)

\* A page makes an account of every comment, even one without a user.
PageComments(part) ==
    OfEach(Indices(part.users), LAMBDA u : <<Account("instagram", part.users[u]), Comment(part, u)>>)

GraphqlLikes(part) ==
    OfEach(part.users, LAMBDA a :
        <<[Entity("like", "instagram", None, None) EXCEPT !.post = part.post, !.account = a],
          Account("instagram", a)>>)

ApiV1Likes(part) == GraphqlLikes(part)

Relation(follower, followed) ==
    [Entity("relation", "instagram", None, None) EXCEPT !.account = follower, !.other = followed]

Subject(part) == [pk |-> part.subject, name |-> None]

GraphqlSuggestedAccounts(part) ==
    OfEach(part.users, LAMBDA a : <<Account("instagram", a), Relation(Subject(part), a)>>)

\* Followers point at the subject, everything else away from it.
ApiV1Friendships(part) ==
    OfEach(part.users, LAMBDA a :
        <<Account("instagram", a),
          IF part.kind = "followers" THEN Relation(a, Subject(part)) ELSE Relation(Subject(part), a)>>)

\* Threads: text-only posts have no media, a carousel only its slides.
ThreadsPosts(part) ==
    OfEach(part.items, LAMBDA item :
        LET own == SelectSeq(IF item.slides = <<>> THEN <<item>> ELSE item.slides,
                             LAMBDA x : AssetFile(x) # None)
        IN <<Account("threads", item.user),
             [Entity("post", "threads", item.pk,
                     IF item.user.name = None THEN None ELSE <<"threads", item.pk>>)
                EXCEPT !.account = item.user]>>
           \o [i \in DOMAIN own |-> Medium("threads", own[i], item.pk)])

ThreadsUsers(part) == OfEach(part.users, LAMBDA a : <<Account("threads", a)>>)

GraphqlPart(part) ==
    CASE part.kind \in {"reels", "user_reel"} -> GraphqlReelsMedia(part)
      [] part.kind = "stories" -> PageStories(part)
      [] part.kind = "posts" -> PagePosts(part)
      [] part.kind = "timeline" -> GraphqlProfileTimeline(part)
      [] part.kind = "clips" -> GraphqlClips(part)
      [] part.kind = "comments" -> GraphqlComments(part)
      [] part.kind = "likes" -> GraphqlLikes(part)
      [] part.kind = "suggested" -> GraphqlSuggestedAccounts(part)
      [] part.kind = "profile" -> GraphqlProfileInfo(part)

ApiV1Part(part) ==
    CASE part.kind = "info" -> ApiV1MediaInfo(part)
      [] part.kind = "comments" -> ApiV1Comments(part)
      [] part.kind = "likes" -> ApiV1Likes(part)
      [] part.kind \in {"followers", "following"} -> ApiV1Friendships(part)

PagePart(part) ==
    CASE part.kind = "posts" -> PagePosts(part)
      [] part.kind = "highlights" -> PageHighlightReels(part)
      [] part.kind \in {"reels", "user_reel"} -> GraphqlReelsMedia(part)
      [] part.kind = "stories" -> PageStories(part)
      [] part.kind = "comments" -> PageComments(part)
      [] part.kind = "timelines" -> PageTimelines(part)

PartEntities(type, part) ==
    CASE type = "graphql" -> GraphqlPart(part)
      [] type = "api_v1" -> ApiV1Part(part)
      [] type = "page" -> PagePart(part)
      [] type = "threads" -> ThreadsUsers(part) \o ThreadsPosts(part)

\* Mutant: a part that fails costs the whole structure.
ConvertStructure_AllOrNothing(s) ==
    IF \E i \in DOMAIN s.parts : s.parts[i].broken THEN <<>>
    ELSE OfEach(s.parts, LAMBDA p : PartEntities(s.type, p))

\* graphql_to_entities and threads_to_entities go on after a part that fails;
\* api_v1_to_entities and page_to_entities give the structure up, comments of
\* a page excepted.
ConvertStructure(s) ==
    LET whole(p) == ~p.broken
        fatal(p) == p.broken /\ ~(s.type = "page" /\ p.kind = "comments")
        good == SelectSeq(s.parts, whole)
    IN IF s.type \in {"api_v1", "page"} /\ \E i \in DOMAIN s.parts : fatal(s.parts[i]) THEN <<>>
       ELSE OfEach(good, LAMBDA p : PartEntities(s.type, p))

-----------------------------------------------------------------------------
(* Deduplication                                                           *)

\* deduplicate_entities: the identifiers of an entity, None where it has none.
KeysOf(e) ==
    LET id == IF e.pk = None THEN None ELSE <<"pk", e.plat, e.pk>>
        url == IF e.url = None THEN None ELSE <<"url", e.plat, e.url>>
        tag == IF e.other.name = None \/ (e.post = None /\ e.media = None) THEN None
               ELSE <<"tag", e.plat, e.other.name, e.post, e.media>>
    IN CASE e.kind \in {"account", "post", "media", "comment"} -> <<id, url>>
         [] e.kind = "tagged" -> <<id, tag>>
         [] OTHER -> <<id>>

Shares(keys, i, j) == \E k \in DOMAIN keys[i] : keys[i][k] # None /\ keys[i][k] = keys[j][k]

Unite(clusters, group) ==
    LET hit == {c \in clusters : c \cap group # {}} IN (clusters \ hit) \cup {UNION hit}

\* The entries that have one value of one key.
Groups(keys) ==
    {{j \in DOMAIN keys : keys[j][x[2]] = keys[x[1]][x[2]]} :
        x \in {y \in (DOMAIN keys) \X (1..2) : y[2] \in DOMAIN keys[y[1]] /\ keys[y[1]][y[2]] # None}}

\* deduplicate_list_by_multiple_keys: the entries of each value of each key
\* are united, with what they were united with before.
Clusters(keys) ==
    FoldSet(LAMBDA group, clusters : Unite(clusters, group), {{i} : i \in DOMAIN keys}, Groups(keys))

\* The later observation wins where it has a value.
Merged(older, newer) ==
    IF newer.kind \notin {"account", "post", "media"} THEN older
    ELSE [newer EXCEPT !.pk = Or(@, older.pk), !.url = Or(@, older.url), !.post = Or(@, older.post),
                       !.account = [pk |-> Or(@.pk, older.account.pk), name |-> Or(@.name, older.account.name)]]

\* Clusters in order of first appearance, each merged in order.
DedupKind(es) ==
    LET clusters == SetToSortSeq(Clusters([i \in DOMAIN es |-> KeysOf(es[i])]),
                                 LAMBDA c, d : Min(c) < Min(d))
        observed(c) == SetToSortSeq(c, <)
    IN [c \in DOMAIN clusters |->
        FoldLeft(LAMBDA acc, i : Merged(acc, es[i]), es[Min(clusters[c])], Tail(observed(clusters[c])))]

KindsInOrder == <<"account", "post", "media", "comment", "like", "relation", "tagged">>

OfKind(es, kind) == SelectSeq(es, LAMBDA e : e.kind = kind)

Deduplicate(es) ==
    OfEach(KindsInOrder, LAMBDA kind : DedupKind(OfKind(es, kind)))

-----------------------------------------------------------------------------
(* Attachment and nesting                                                  *)

\* local_files_map: every track and the full asset of a video, every photo.
LocalFilesMap(videos, photos, local) ==
    [f \in {x \in UNION {TrackFiles(videos[id]) \cup ({videos[id].full} \ {None}) :
                         id \in DOMAIN videos \cap DOMAIN local} : TRUE} |->
        local[CHOOSE id \in DOMAIN videos \cap DOMAIN local :
                f \in TrackFiles(videos[id]) \cup {videos[id].full}][1]]
    @@ [f \in DOMAIN photos \cap DOMAIN local |-> local[f][1]]

\* attach_media_to_entities
Attach(es, files) ==
    [i \in DOMAIN es |-> IF es[i].kind = "media" /\ es[i].url \in DOMAIN files
                         THEN [es[i] EXCEPT !.local = files[es[i].url]] ELSE es[i]]

\* _find_account of the summary: by handle first, then by id; the last one.
FindAccount(es, plat, a) ==
    LET byName == {i \in DOMAIN es : /\ es[i].kind = "account" /\ es[i].plat = plat
                                     /\ a.name # None /\ es[i].url = a.name}
        byPk == {i \in DOMAIN es : /\ es[i].kind = "account" /\ es[i].plat = plat
                                   /\ a.pk # None /\ es[i].pk = a.pk}
    IN IF byName # {} THEN Max(byName) ELSE IF byPk # {} THEN Max(byPk) ELSE None

PostOf(es, e) ==
    LET ps == {i \in DOMAIN es : /\ es[i].kind = "post" /\ es[i].plat = e.plat
                                 /\ e.post # None /\ es[i].pk = e.post}
    IN IF ps = {} THEN None ELSE Max(ps)

\* nest_entities_from_archive_session: the account or post each entity ends up
\* under.  None: posts and media are listed as orphans, the others dropped.
Nest(es) ==
    [i \in DOMAIN es |->
        LET e == es[i] IN
        CASE e.kind = "account" -> None
          [] e.kind = "post" -> FindAccount(es, e.plat, e.account)
          [] e.kind = "relation" -> Or(FindAccount(es, e.plat, e.account), FindAccount(es, e.plat, e.other))
          [] OTHER -> PostOf(es, e)]

\* har_data_to_entities up to the attachment.
HarDataToEntities(structures) ==
    Deduplicate(OfEach(structures, ConvertStructure))
=============================================================================
