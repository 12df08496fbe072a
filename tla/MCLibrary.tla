----------------------------- MODULE MCLibrary -----------------------------
(* A small archive: three accounts of which two are one profile, one post  *)
(* with two media, two types and three tags.                               *)
EXTENDS Library

MCFold == [s \in Spellings |-> IF s = "Place" THEN "place" ELSE s]

MCAffinities == {None, {"account"}}

Line(n, ty, ps) == [name |-> n, type |-> ty, parents |-> ps]

\* A chain of three, a file whose parents would close a cycle, with another spelling.
MCTagBatches ==
    {<<Line("site", None, <<"place">>), Line("place", "site", <<"area">>), Line("area", None, <<>>)>>,
     <<Line("place", None, <<"site">>), Line("site", None, <<"Place">>)>>}

MCMarkBatches ==
    {<<[entity |-> <<"account", "a2">>, tag |-> "place", type |-> None],
       [entity |-> <<"media", "m1">>, tag |-> "site", type |-> None]>>}

MCCaptures == {[post |-> "p1", account |-> "a2", media |-> {"m1", "m2"}]}

Tie(kind, from, at) == [kind |-> kind, from |-> from, at |-> at]

MCInitialTies ==
    {{Tie("suggested", "a1", "a3"), Tie("tagmedia", "a3", "m1"), Tie("follow", "a3", "a2"),
      Tie("like", "a3", "p1"), Tie("follow", "a1", "a2")}}

MCMayMerge == {<<"a1", "a2">>}

MCWeight == [follow |-> 1, suggested |-> 0, like |-> 1, comment |-> 1, tagpost |-> 1, tagmedia |-> 1]

=============================================================================
