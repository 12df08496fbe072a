---------------------------- MODULE MCEntityStore ----------------------------
(***************************************************************************)
(* The instance of EntityStore that TLC checks: sessions over two profiles *)
(* that exchange a handle, and legacy tables with a duplicated pk.         *)
(***************************************************************************)
EXTENDS EntityStore

Rec(pk, plat, url, val) == [pk |-> pk, plat |-> plat, url |-> url, val |-> val, video |-> FALSE]
Entity(pk, plat, url, val, refs) == [rec |-> Rec(pk, plat, url, val), refs |-> refs]
Ref(pk, url) == [pk |-> pk, url |-> url]

Acc(pk, url, val) == Entity(pk, "instagram", url, val, <<>>)
Pst(pk, apk, aurl, val) == Entity(pk, "instagram", None, val, [account |-> Ref(apk, aurl)])
Med(url, ppk, size, video) ==
    [rec |-> [Rec(ppk, "instagram", url, size) EXCEPT !.video = video], refs |-> [post |-> Ref(ppk, None)]]

Nothing == [accounts |-> <<>>, posts |-> <<>>, media |-> <<>>, comments |-> <<>>,
            likes |-> <<>>, tagged_accounts |-> <<>>, account_relations |-> <<>>]

MCContents == {
    \* profile page
    [Nothing EXCEPT !.accounts = <<Acc("p1", "u1", 1)>>, !.posts = <<Pst("q1", "p1", None, 1)>>],
    \* a page that shows only the handle, with a post
    [Nothing EXCEPT !.accounts = <<Acc(None, "u1", None)>>, !.posts = <<Pst("q2", None, "u1", 2)>>],
    \* renamed
    [Nothing EXCEPT !.accounts = <<Acc("p1", "u2", 2)>>],
    \* the old handle now belongs to somebody else
    [Nothing EXCEPT !.accounts = <<Acc("p2", "u1", 4)>>, !.posts = <<Pst("q3", "p2", "u1", 3)>>],
    \* the same pk on the other platform
    [Nothing EXCEPT !.accounts = <<Entity("p1", "threads", "u1", 5, <<>>)>>],
    \* two observations that find one row, a post with a video and an image of it
    [Nothing EXCEPT !.accounts = <<Acc("p1", None, None), Acc(None, "u1", 6)>>,
                    !.posts = <<Pst("q1", "p1", None, None)>>,
                    !.media = <<Med("m1", "q1", 1, TRUE)>>,
                    !.comments = <<Entity("c1", "instagram", None, 1,
                                     [post |-> Ref("q1", None), account |-> Ref(None, "u1")])>>,
                    !.likes = <<Entity("l1", "instagram", None, None,
                                     [post |-> Ref("q9", None), account |-> Ref("p1", None)])>>],
    \* the new handle without its pk, beside the old one, with children
    [Nothing EXCEPT !.accounts = <<Acc(None, "u2", 3), Acc("p1", "u1", None)>>,
                    !.posts = <<Pst("q1", None, "u2", None)>>,
                    !.media = <<Med("m1", "q1", 2, FALSE)>>,
                    !.tagged_accounts = <<Entity("t1", "instagram", None, None,
                                     [tagged |-> Ref(None, "u2"), post |-> Ref("q1", None),
                                      media |-> Ref(None, "m1")])>>,
                    !.account_relations = <<Entity("r1", "instagram", None, None,
                                     [follower |-> Ref(None, "u2"), followed |-> Ref("p1", None)])>>]}

\* A handle that is seen without its pk, and a pk that turns out to have it.  In no
\* run: with Contents <- MCRaceContents, Legacy <- MCEmpty and Workers = {1, 2} a
\* tombstone is written to, see the README.
MCRaceContents == {
    [Nothing EXCEPT !.accounts = <<Acc(None, "u1", 1)>>],
    [Nothing EXCEPT !.accounts = <<Acc("p1", "u2", 2)>>],
    [Nothing EXCEPT !.accounts = <<Acc("p1", "u1", 3)>>]}

MCEmpty == {[rows |-> <<>>, arch |-> <<>>, tags |-> {}]}

Old(key, pk, url, fk, count) ==
    LET rec == Rec(pk, "instagram", url, None) IN Row(key, rec, Identifiers(key, rec), fk, None, count)
OldArch(key, row, s, pk, url) == Observed(key, s, row, Rec(pk, "instagram", url, None))

MCLegacy == {
    [rows |-> <<>>, arch |-> <<>>, tags |-> {}],
    [rows |-> <<Old("accounts", "p1", "u1", <<>>, 0), Old("accounts", "p1", "u2", <<>>, 1),
                Old("posts", "q1", None, [account |-> 2], 0)>>,
     arch |-> <<OldArch("accounts", 1, 1, "p1", "u1"), OldArch("accounts", 2, 1, "p1", "u2"),
                OldArch("posts", 3, 1, "q1", None)>>,
     tags |-> {<<2, "t">>}]}

=============================================================================
