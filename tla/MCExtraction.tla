---------------------------- MODULE MCExtraction ----------------------------
(***************************************************************************)
(* Small archives for Extraction.  Ann has the same id on Instagram and    *)
(* Threads.                                                                *)
(***************************************************************************)
EXTENDS Extraction

Ann == [pk |-> "1", name |-> "ann"]
Bob == [pk |-> "2", name |-> "bob"]

Url(file, id) == [file |-> file, id |-> id]
Seg(start, len) == [start |-> start, len |-> len]
VideoEntry(url, seg) == [type |-> "video", url |-> url, seg |-> seg]
ImageEntry(file, size) == [type |-> "image", url |-> Url(file, None), size |-> size]

Item(pk, user, versions, dash, image, slides) ==
    [pk |-> pk, id |-> pk, user |-> user, versions |-> versions, dash |-> dash,
     image |-> image, slides |-> slides, tags |-> <<>>]

Part(kind, items) ==
    [kind |-> kind, items |-> items, users |-> <<>>, ids |-> <<>>, post |-> None, subject |-> None,
     broken |-> FALSE, unparsable |-> FALSE]

Users(kind, users, post) == [Part(kind, <<>>) EXCEPT !.users = users, !.post = post,
                                 !.ids = [u \in DOMAIN users |-> users[u].name]]

Response(host, path, parts) == [type |-> "structure", host |-> host, path |-> path, parts |-> parts]

\* A reel played in two segments of a version whose URL has no id, with its
\* sound; the manifest knows the id.  A post on Threads shares ids with it.
Played ==
    [wacz |-> FALSE, entries |-> <<
        VideoEntry(Url("v1", None), Seg(2, 2)), VideoEntry(Url("a1", "x1"), Seg(0, 1)),
        VideoEntry(Url("v1", None), Seg(0, 2)), ImageEntry("i1", 1),
        Response("instagram", "graphql", <<
            Part("timeline", <<Item("p1", Ann, <<Url("v0", None), Url("v1", None)>>, Url("d1", "x1"), None, <<>>),
                               Item("p2", Ann, <<>>, None, "i1", <<Item("p3", Ann, <<>>, None, "i2", <<>>)>>)>>),
            [Users("comments", <<Bob>>, "p1") EXCEPT !.broken = TRUE]>>),
        Response("threads", "graphql", <<
            Part("post", <<Item("p1", Ann, <<>>, None, None, <<>>)>>)>>)>>]

\* Video requested without a body; a page whose handle-only sighting of Ann
\* links two observations of her; an API v1 answer that breaks off.
Requested ==
    [wacz |-> FALSE, entries |-> <<
        VideoEntry(Url("v3", "x3"), None),
        Response("instagram", "html", <<
            Part("posts", <<Item("p3", Ann, <<Url("v3", "x3")>>, None, "i3", <<>>)>>),
            Part("highlights", <<[Item("p6", Bob, <<>>, None, "i2", <<>>) EXCEPT !.tags = <<Ann>>]>>),
            Users("comments", <<[pk |-> None, name |-> "ann"]>>, "p3")>>),
        Response("threads", "page", <<Users("users", <<Ann>>, None)>>),
        Response("instagram", "api_v1", <<
            Part("info", <<Item("p4", Bob, <<>>, None, None, <<>>)>>),
            [Users("likes", <<Ann>>, "p4") EXCEPT !.broken = TRUE]>>)>>]

\* Unpacked from a WACZ: only the tail of one video was played.
Wacz ==
    [wacz |-> TRUE, entries |-> <<
        VideoEntry(Url("v1", "x1"), Seg(1, 2)), VideoEntry(Url("v4", "x4"), Seg(0, 1)),
        ImageEntry("i1", 1),
        Response("instagram", "api_v1", <<Users("followers", <<Bob>>, None)>>),
        Response("instagram", "graphql", <<
            Part("clips", <<Item("p1", Ann, <<Url("v1", "x1")>>, None, None, <<>>)>>),
            Part("user_reel", <<Item("p5", Bob, <<>>, None, "i1", <<>>)>>),
            Users("likes", <<Bob, Ann>>, "p1"), Users("suggested", <<Ann>>, None),
            Users("profile", <<Bob>>, None)>>)>>]

\* Two qualities of one reel were played, the better one later, and three of another.
Qualities ==
    [wacz |-> FALSE, entries |-> <<
        VideoEntry(Url("v3", "x1"), Seg(0, 1)), VideoEntry(Url("v1", "x1"), Seg(0, 4)),
        ImageEntry("i1", 1), ImageEntry("i1", 0),
        Response("instagram", "graphql", <<
            Part("clips", <<Item("p1", Ann, <<Url("v1", "x1"), Url("v3", "x1")>>, None, None, <<>>)>>)>>)>>]

ThreeQualities == [Qualities EXCEPT !.entries = Append(@, VideoEntry(Url("v4", "x1"), Seg(0, 1)))]

\* The same, in a WACZ.
WaczQualities == [ThreeQualities EXCEPT !.wacz = TRUE]

MCHars == {Played, Requested, Wacz, Qualities, ThreeQualities, WaczQualities}

Config(missing, full, highest, logged) ==
    [missing |-> missing, notInStructures |-> FALSE, unfetched |-> FALSE,
     fullTracks |-> full, highest |-> highest, onLogged |-> logged]

\* The archiver's form, the automated archiver's, the loader's, the two other
\* settings of on_logged_missing.
MCConfigs ==
    {Config(TRUE, TRUE, TRUE, "har_only"), Config(TRUE, FALSE, TRUE, "har_only"),
     Config(FALSE, FALSE, FALSE, "har_only"), Config(TRUE, FALSE, FALSE, "skip"),
     Config(TRUE, FALSE, TRUE, "redownload")}

MCFullSize == [f \in {"v0", "v1", "v3", "v4", "a1", "d1", "i1", "i2", "i3"} |->
                 IF f \in {"v0", "v1", "d1"} THEN 4 ELSE 1]

\* A response without a range is the whole file, longer than any segment.
MCSegmentLists ==
    UNION {[1..n -> [start : 0..2, len : 1..2]] : n \in 0..3} \cup {<<Seg(1, 2), Seg(None, 4)>>}

MCKeyLists == UNION {[1..n -> {<<a, b>> : a \in {None, "a", "b"}, b \in {None, "u", "v"}}] : n \in 0..3}
=============================================================================
