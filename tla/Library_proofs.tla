--------------------------- MODULE Library_proofs ---------------------------
(***************************************************************************)
(* The tag hierarchy stays free of cycles; the three ways to an account's  *)
(* media agree; an import delivers its file and duplicates nothing;        *)
(* neither merges nor deletions take anything from a tag search or from a  *)
(* link's visitor; and merges add up the ties of accounts: whatever the    *)
(* requests, imports, sessions and merges, and for every number of tags,   *)
(* accounts, posts, media, ties and rows.                                  *)
(***************************************************************************)
EXTENDS Library, TLAPS, WellFoundedInduction

\* What a closed set shows: the descendants of a tag lie in each closed set that holds it.
LEMMA WithinClosed ==
    ASSUME NEW E, NEW t, NEW S \in SUBSET TagIds, t \in S, Closed(E, S)
    PROVE  Descendants(E, t) \subseteq S
  BY DEF Descendants

\* A tag that has not every tag below it has a closed set below it.
LEMMA DescendantsClosed ==
    ASSUME NEW E, NEW t, NEW x \in TagIds, x \notin Descendants(E, t)
    PROVE  /\ Descendants(E, t) \subseteq TagIds
           /\ t \in Descendants(E, t)
           /\ Closed(E, Descendants(E, t))
  <1> DEFINE D == Descendants(E, t)
  <1>1. PICK S \in SUBSET TagIds : t \in S /\ Closed(E, S)
    BY DEF Descendants
  <1>2. D \subseteq TagIds /\ t \in D
    BY <1>1 DEF Descendants
  <1>3. ASSUME NEW e \in E, e[1] \in D
        PROVE  e[2] \in D
    <2>1. \A T \in SUBSET TagIds : t \in T /\ Closed(E, T) => e[2] \in T
      BY <1>3 DEF Descendants, Closed
    <2>2. e[2] \in TagIds
      BY <1>1, <2>1
    <2> QED
      BY <2>1, <2>2 DEF Descendants
  <1> QED
    BY <1>2, <1>3 DEF Closed

Acyclic(E) == \A e \in E : e[1] \notin Descendants(E, e[2])

\* Fewer links leave fewer descendants.
LEMMA RemovingKeepsAcyclic ==
    ASSUME NEW E, NEW F \in SUBSET E, Acyclic(E)
    PROVE  Acyclic(F)
  <1> SUFFICES ASSUME NEW e \in F
               PROVE  e[1] \notin Descendants(F, e[2])
    BY DEF Acyclic
  <1>1. Descendants(F, e[2]) \subseteq Descendants(E, e[2])
    BY DEF Descendants, Closed
  <1> QED
    BY <1>1 DEF Acyclic

\* A link whose parent is not below its child closes no cycle.
LEMMA AddingKeepsAcyclic ==
    ASSUME NEW E, NEW p, NEW c, Acyclic(E), p \notin Descendants(E, c)
    PROVE  Acyclic(E \cup {<<p, c>>})
  <1> DEFINE F == E \cup {<<p, c>>}
  <1> SUFFICES ASSUME NEW e \in F, e[1] \in Descendants(F, e[2])
               PROVE  FALSE
    BY DEF Acyclic
  <1> DEFINE x == e[1]
             y == e[2]
  <1>0. x \in TagIds
    BY DEF Descendants
  <1>1. CASE p \notin TagIds
    <2>1. \A S \in SUBSET TagIds : Closed(E, S) => Closed(F, S)
      BY <1>1 DEF Closed
    <2>2. Descendants(F, y) \subseteq Descendants(E, y)
      BY <2>1 DEF Descendants
    <2>3. e \in E
      BY <1>0, <1>1
    <2> QED
      BY <2>2, <2>3 DEF Acyclic
  <1>2. CASE p \in TagIds
    <2> DEFINE C == Descendants(E, c)
               D == Descendants(E, y)
    <2>1. C \subseteq TagIds /\ c \in C /\ Closed(E, C) /\ p \notin C
      BY <1>2, DescendantsClosed
    <2>2. Closed(F, C)
      BY <2>1 DEF Closed
    <2>3. e \in E
      <3>1. CASE e = <<p, c>>
        BY <3>1, <2>1, <2>2, WithinClosed
      <3> QED
        BY <3>1
    <2>4. x \notin D
      BY <2>3 DEF Acyclic
    <2>5. D \subseteq TagIds /\ y \in D /\ Closed(E, D)
      BY <1>0, <2>4, DescendantsClosed
    <2>6. CASE p \notin D
      <3>1. Closed(F, D)
        BY <2>5, <2>6 DEF Closed
      <3> QED
        BY <3>1, <2>4, <2>5, WithinClosed
    <2>7. CASE p \in D
      <3>1. x \notin C
        <4>1. SUFFICES ASSUME x \in C PROVE FALSE
          OBVIOUS
        <4>2. y \in C
          BY <4>1, <2>1, <2>3 DEF Closed
        <4>3. D \subseteq C
          BY <4>2, <2>1, WithinClosed
        <4> QED
          BY <4>3, <2>1, <2>7
      <3>2. Closed(F, C \cup D)
        BY <2>1, <2>5 DEF Closed
      <3> QED
        BY <3>1, <3>2, <2>1, <2>4, <2>5, WithinClosed
    <2> QED
      BY <2>6, <2>7
  <1> QED
    BY <1>1, <1>2

\* Every step leaves the links alone, removes some, or adds one that was checked.
LEMMA LinksAreChecked ==
    ASSUME [Next]_vars
    PROVE  \/ edges' \subseteq edges
           \/ \E p, c : p \notin Descendants(edges, c) /\ edges' = edges \cup {<<p, c>>}
  <1> USE DEF vocabVars, catalogue, Edit
  <1>1. ASSUME NEW p, NEW c, PostHierarchy(p, c)
        PROVE  \E q, d : q \notin Descendants(edges, d) /\ edges' = edges \cup {<<q, d>>}
    BY <1>1 DEF PostHierarchy, WouldCreateCycle
  <1>2. ASSUME NEW s, ImportLink(s)
        PROVE  \/ edges' \subseteq edges
               \/ \E p, c : p \notin Descendants(edges, c) /\ edges' = edges \cup {<<p, c>>}
    BY <1>2 DEF ImportLink, WouldCreateCycle
  <1>3. ASSUME NEW e, DelHierarchy(e)
        PROVE  edges' \subseteq edges
    BY <1>3 DEF DelHierarchy
  <1>4. ASSUME \/ \E n \in HandNames, a \in Affinities : PostTagType(n, a)
               \/ \E ty \in DOMAIN types, n \in HandNames, a \in Affinities : PutTagType(ty, n, a)
               \/ \E ty \in DOMAIN types : DelTagType(ty)
               \/ \E n \in HandNames, ty \in DOMAIN types \cup {None} : PostTag(n, ty)
               \/ \E t \in DOMAIN tags, n \in HandNames, ty \in DOMAIN types \cup {None} : PutTag(t, n, ty)
               \/ \E t \in DOMAIN tags : DelTag(t)
        PROVE  edges' = edges
    BY <1>4 DEF PostTagType, PutTagType, DelTagType, PostTag, PutTag, DelTag
  <1>5. ASSUME \/ \E kind \in {"account", "post", "media"}, ts \in SUBSET TagIds :
                      AnnotateBatch(kind, {e \in stored : e[1] = kind}, ts)
               \/ \E e \in stored, ts \in SUBSET DOMAIN tags : AnnotateEntity(e, ts)
               \/ \E k \in marks : RemoveEntityTag(k)
        PROVE  edges' = edges
    BY <1>5 DEF AnnotateBatch, AnnotateEntity, RemoveEntityTag
  <1>6. ASSUME \/ \E b \in TagBatches, create \in BOOLEAN : StartTagImport(b, create)
               \/ \E b \in MarkBatches : StartMarkImport(b)
               \/ \E s \in job.todo : ImportTagRow(s) \/ ImportMark(s)
               \/ ImportAborts \/ ImportEnds
        PROVE  edges' = edges
    BY <1>6 DEF StartTagImport, StartMarkImport, StartImport, ImportTagRow, ImportMark,
                ImportAborts, ImportEnds
  <1>7. ASSUME \/ \E c \in Captures : Intake(c)
               \/ \E w \in MayMerge : Merge(w[1], w[2])
        PROVE  edges' = edges
    BY <1>7 DEF Intake, Merge
  <1>8. ASSUME \/ \E q \in PartIds, m \in Media : InsertMediaPart(q, m) \/ UpdateMediaPart(q, m)
               \/ \E q \in PartIds : DeleteMediaPart(q)
               \/ \E e \in stored : NewShareLink(e)
               \/ \E e \in stored, v \in BOOLEAN : PatchShareLinkValidity(e, v)
        PROVE  edges' = edges
    BY <1>8 DEF InsertMediaPart, UpdateMediaPart, DeleteMediaPart, NewShareLink,
                PatchShareLinkValidity, PartRequest, LinkRequest
  <1>9. CASE UNCHANGED vars
    BY <1>9 DEF vars
  <1>10. CASE Next
    BY <1>10, <1>1, <1>2, <1>3, <1>4, <1>5, <1>6, <1>7, <1>8 DEF Next
  <1> QED
    BY <1>9, <1>10

\* The recursive queries over the hierarchy always end: no sequence of hand edits, imports that
\* stop anywhere, and merges makes a tag its own descendant.
THEOREM AcyclicAlways == Spec => []HierarchyIsAcyclic
  <1>1. Init => HierarchyIsAcyclic
    BY DEF Init, InitVocabulary, HierarchyIsAcyclic
  <1>2. HierarchyIsAcyclic /\ [Next]_vars => HierarchyIsAcyclic'
    <2> SUFFICES ASSUME HierarchyIsAcyclic, [Next]_vars
                 PROVE  HierarchyIsAcyclic'
      OBVIOUS
    <2>1. Acyclic(edges)
      BY DEF Acyclic, HierarchyIsAcyclic
    <2>2. CASE edges' \subseteq edges
      <3>1. Acyclic(edges')
        BY <2>1, <2>2, RemovingKeepsAcyclic
      <3> QED
        BY <3>1 DEF Acyclic, HierarchyIsAcyclic
    <2>3. ASSUME NEW p, NEW c, p \notin Descendants(edges, c), edges' = edges \cup {<<p, c>>}
          PROVE  HierarchyIsAcyclic'
      <3>1. Acyclic(edges')
        BY <2>1, <2>3, AddingKeepsAcyclic
      <3> QED
        BY <3>1 DEF Acyclic, HierarchyIsAcyclic
    <2> QED
      BY <2>2, <2>3, LinksAreChecked
  <1> QED
    BY <1>1, <1>2, PTL DEF Spec

-----------------------------------------------------------------------------
(* Ownership.  ViewsAgree is not inductive: a session gives its media the  *)
(* owner the post has, so what is stored, what owns it and what is copied  *)
(* must be known together.                                                 *)

OwnershipTyped ==
    /\ postOwner \in [Posts -> Accounts \cup {None}]
    /\ mediaPost \in [Media -> Posts \cup {None}]
    /\ mediaOwner \in [Media -> Accounts \cup {None}]
    /\ mergedInto \in [Accounts -> Accounts \cup {None}]

CopyIsTrue ==
    \A m \in Media : /\ mediaPost[m] = None => mediaOwner[m] = None
                     /\ mediaPost[m] # None => /\ postOwner[mediaPost[m]] # None
                                               /\ mediaOwner[m] = postOwner[mediaPost[m]]

StoredMedia ==
    \A r : r \in stored /\ r[1] = "media" <=>
            \E m \in Media : r = M(m) /\ mediaPost[m] # None

Ownership == OwnershipTyped /\ CopyIsTrue /\ StoredMedia

LEMMA InitOwnership == Init => Ownership
  <1> SUFFICES ASSUME Init PROVE Ownership
    OBVIOUS
  <1>1. OwnershipTyped /\ CopyIsTrue
    BY DEF Init, OwnershipTyped, CopyIsTrue
  <1>2. StoredMedia
    BY DEF Init, StoredMedia, A, M
  <1> QED
    BY <1>1, <1>2 DEF Ownership

LEMMA IntakeKeepsOwnership ==
    ASSUME Ownership, NEW c \in Captures, Intake(c)
    PROVE  Ownership'
  <1> USE LibraryAssumption
  <1>0. c.post \in Posts /\ c.account \in Accounts /\ c.media \subseteq Media
    OBVIOUS
  <1> DEFINE owner == IF postOwner[c.post] = None THEN Keeper(c.account) ELSE postOwner[c.post]
  <1>1. owner \in Accounts
    BY <1>0 DEF Ownership, OwnershipTyped, Keeper
  <1>2. /\ stored' = stored \cup {P(c.post)} \cup {M(m) : m \in c.media}
        /\ postOwner' = [postOwner EXCEPT ![c.post] = owner]
        /\ mediaPost' = [m \in Media |-> IF m \in c.media THEN c.post ELSE mediaPost[m]]
        /\ mediaOwner' = [m \in Media |-> IF m \in c.media THEN owner ELSE mediaOwner[m]]
        /\ mergedInto' = mergedInto
    BY DEF Intake, content
  <1> HIDE DEF owner
  <1>3. OwnershipTyped'
    BY <1>0, <1>1, <1>2 DEF Ownership, OwnershipTyped
  <1>4. CopyIsTrue'
    <2> SUFFICES ASSUME NEW m \in Media
                 PROVE  /\ mediaPost'[m] = None => mediaOwner'[m] = None
                        /\ mediaPost'[m] # None => /\ postOwner'[mediaPost'[m]] # None
                                                   /\ mediaOwner'[m] = postOwner'[mediaPost'[m]]
      BY DEF CopyIsTrue
    <2>1. CASE m \in c.media
      BY <2>1, <1>0, <1>1, <1>2 DEF Ownership, OwnershipTyped
    <2>2. CASE m \notin c.media
      <3>1. mediaPost'[m] = mediaPost[m] /\ mediaOwner'[m] = mediaOwner[m]
        BY <2>2, <1>2
      <3>2. CASE mediaPost[m] = c.post
        <4>1. postOwner[c.post] # None /\ mediaOwner[m] = postOwner[c.post]
          BY <3>2, <1>0 DEF Ownership, CopyIsTrue
        <4>2. owner = postOwner[c.post]
          BY <4>1 DEF owner
        <4>3. postOwner'[c.post] = owner
          BY <1>0, <1>2 DEF Ownership, OwnershipTyped
        <4> QED
          BY <3>1, <3>2, <4>1, <4>2, <4>3, <1>0
      <3>3. CASE mediaPost[m] # c.post
        BY <3>1, <3>3, <1>2 DEF Ownership, OwnershipTyped, CopyIsTrue
      <3> QED
        BY <3>2, <3>3
    <2> QED
      BY <2>1, <2>2
  <1>5. StoredMedia'
    <2> SUFFICES ASSUME NEW r
                 PROVE  r \in stored' /\ r[1] = "media" <=>
                        \E m \in Media : r = M(m) /\ mediaPost'[m] # None
      BY DEF StoredMedia
    <2>1. r \in stored' /\ r[1] = "media" <=>
              (r \in stored /\ r[1] = "media") \/ \E m \in c.media : r = M(m)
      BY <1>2 DEF P, M
    <2>2. r \in stored /\ r[1] = "media" <=> \E m \in Media : r = M(m) /\ mediaPost[m] # None
      BY DEF Ownership, StoredMedia
    <2>3. \A m \in Media : mediaPost'[m] # None <=> m \in c.media \/ mediaPost[m] # None
      BY <1>0, <1>2
    <2> QED
      BY <2>1, <2>2, <2>3, <1>0
  <1> QED
    BY <1>3, <1>4, <1>5 DEF Ownership

LEMMA MergeKeepsOwnership ==
    ASSUME Ownership, NEW k \in Accounts, NEW g \in Accounts, Merge(k, g)
    PROVE  Ownership'
  <1> USE LibraryAssumption
  <1>1. /\ mergedInto' = [Moved(mergedInto, k, g) EXCEPT ![g] = k]
        /\ postOwner' = Moved(postOwner, k, g)
        /\ mediaOwner' = Moved(mediaOwner, k, g)
        /\ stored' = stored /\ mediaPost' = mediaPost
    BY DEF Merge, RepointMedia
  <1>2. OwnershipTyped'
    BY <1>1 DEF Ownership, OwnershipTyped, Moved
  <1>3. CopyIsTrue'
    BY <1>1 DEF Ownership, OwnershipTyped, CopyIsTrue, Moved
  <1>4. StoredMedia'
    BY <1>1 DEF Ownership, StoredMedia
  <1> QED
    BY <1>2, <1>3, <1>4 DEF Ownership

\* The requests of the readers own nothing: they add and remove media parts at most.
LEMMA RequestKeepsOwnership ==
    ASSUME Ownership, UNCHANGED content,
           \/ UNCHANGED stored
           \/ \E q : stored' = stored \cup {Part(q)} \/ stored' = stored \ {Part(q)}
    PROVE  Ownership'
  <1>1. OwnershipTyped' /\ CopyIsTrue'
    BY DEF Ownership, OwnershipTyped, CopyIsTrue, content
  <1>2. StoredMedia'
    <2>1. \A r : r \in stored' /\ r[1] = "media" <=> r \in stored /\ r[1] = "media"
      BY DEF Part
    <2> QED
      BY <2>1 DEF Ownership, StoredMedia, content
  <1> QED
    BY <1>1, <1>2 DEF Ownership

LEMMA OwnershipStep ==
    ASSUME Ownership, [Next]_vars
    PROVE  Ownership'
  <1> USE LibraryAssumption
  <1>1. ASSUME NEW c \in Captures, Intake(c)
        PROVE  Ownership'
    BY <1>1, IntakeKeepsOwnership
  <1>2. ASSUME NEW w \in MayMerge, Merge(w[1], w[2])
        PROVE  Ownership'
    BY <1>2, MergeKeepsOwnership
  <1>3. ASSUME NEW q \in PartIds,
               \/ \E m \in Media : InsertMediaPart(q, m) \/ UpdateMediaPart(q, m)
               \/ DeleteMediaPart(q)
        PROVE  Ownership'
    <2>1. /\ UNCHANGED content
          /\ \/ UNCHANGED stored
             \/ stored' = stored \cup {Part(q)} \/ stored' = stored \ {Part(q)}
      BY <1>3 DEF InsertMediaPart, UpdateMediaPart, DeleteMediaPart, PartRequest
    <2> QED
      BY <2>1, RequestKeepsOwnership
  <1>4. ASSUME \/ \E e \in stored : NewShareLink(e)
               \/ \E e \in stored, v \in BOOLEAN : PatchShareLinkValidity(e, v)
        PROVE  Ownership'
    <2>1. UNCHANGED <<content, stored>>
      BY <1>4 DEF NewShareLink, PatchShareLinkValidity, LinkRequest
    <2> QED
      BY <2>1, RequestKeepsOwnership
  <1>5. ASSUME UNCHANGED content,
               \/ \E n \in HandNames, a \in Affinities : PostTagType(n, a)
               \/ \E ty \in DOMAIN types, n \in HandNames, a \in Affinities : PutTagType(ty, n, a)
               \/ \E ty \in DOMAIN types : DelTagType(ty)
               \/ \E n \in HandNames, ty \in DOMAIN types \cup {None} : PostTag(n, ty)
               \/ \E t \in DOMAIN tags, n \in HandNames, ty \in DOMAIN types \cup {None} : PutTag(t, n, ty)
               \/ \E t \in DOMAIN tags : DelTag(t)
               \/ \E p, c \in DOMAIN tags : PostHierarchy(p, c)
               \/ \E e \in edges : DelHierarchy(e)
               \/ \E kind \in {"account", "post", "media"}, ts \in SUBSET TagIds :
                      AnnotateBatch(kind, {e \in stored : e[1] = kind}, ts)
               \/ \E e \in stored, ts \in SUBSET DOMAIN tags : AnnotateEntity(e, ts)
               \/ \E k \in marks : RemoveEntityTag(k)
        PROVE  Ownership'
    <2>1. UNCHANGED stored
      BY <1>5 DEF PostTagType, PutTagType, DelTagType, PostTag, PutTag, DelTag, PostHierarchy,
                  DelHierarchy, AnnotateBatch, AnnotateEntity, RemoveEntityTag, Edit
    <2> QED
      BY <1>5, <2>1, RequestKeepsOwnership
  <1>6. ASSUME UNCHANGED content,
               \/ \E b \in TagBatches, create \in BOOLEAN : StartTagImport(b, create)
               \/ \E b \in MarkBatches : StartMarkImport(b)
               \/ \E s \in job.todo : ImportTagRow(s) \/ ImportLink(s) \/ ImportMark(s)
               \/ ImportAborts \/ ImportEnds
        PROVE  Ownership'
    <2>1. UNCHANGED stored
      BY <1>6 DEF StartTagImport, StartMarkImport, StartImport, ImportTagRow, ImportLink,
                  ImportMark, ImportAborts, ImportEnds
    <2> QED
      BY <1>6, <2>1, RequestKeepsOwnership
  <1>7. CASE UNCHANGED vars
    <2>1. UNCHANGED <<content, stored>>
      BY <1>7 DEF vars, vocabVars
    <2> QED
      BY <2>1, RequestKeepsOwnership
  <1>8. CASE Next
    <2>1. UNCHANGED <<content, partOf, links>> => UNCHANGED content
      OBVIOUS
    <2> QED
      BY <2>1, <1>8, <1>1, <1>2, <1>3, <1>4, <1>5, <1>6 DEF Next
  <1> QED
    BY <1>7, <1>8

LEMMA OwnershipShowsMedia == Ownership => ViewsAgree
  <1> USE LibraryAssumption
  <1> SUFFICES ASSUME Ownership, NEW a \in Accounts
               PROVE  LET own == {m \in Media : mediaOwner[m] = a} IN
                      /\ {r[2] : r \in {x \in AccountPage(a) : x[1] = "media"}} = own
                      /\ {r[2] : r \in {x \in stored : x[1] = "media" /\ Shows(A(a), x)}} = own
    BY DEF ViewsAgree
  <1> DEFINE own == {m \in Media : mediaOwner[m] = a}
  <1>1. \A m \in Media : mediaOwner[m] = a <=>
                           mediaPost[m] \in Posts /\ postOwner[mediaPost[m]] = a
    BY DEF Ownership, OwnershipTyped, CopyIsTrue
  <1>2. {x \in AccountPage(a) : x[1] = "media"} = {M(m) : m \in own}
    BY <1>1 DEF AccountPage, P, M
  <1>3. \A m \in Media : Shows(A(a), M(m)) <=> mediaPost[m] # None /\ postOwner[mediaPost[m]] = a
    BY DEF Shows, A, M
  <1>4. {x \in stored : x[1] = "media" /\ Shows(A(a), x)} = {M(m) : m \in own}
    <2>1. \A x : x \in stored /\ x[1] = "media" <=> \E m \in Media : x = M(m) /\ mediaPost[m] # None
      BY DEF Ownership, StoredMedia
    <2>2. \A m \in Media : mediaPost[m] # None <=> mediaPost[m] \in Posts
      BY DEF Ownership, OwnershipTyped
    <2>3. \A x : (x \in stored /\ x[1] = "media") /\ Shows(A(a), x) <=> \E m \in own : x = M(m)
      <3>1. \A m \in Media : mediaPost[m] # None /\ Shows(A(a), M(m)) <=> m \in own
        BY <2>2, <1>1, <1>3
      <3> QED
        BY <2>1, <3>1
    <2> DEFINE Shown == {x \in stored : x[1] = "media" /\ Shows(A(a), x)}
    <2>4. \A x : x \in Shown <=> x \in {M(m) : m \in own}
      <3> HIDE DEF own
      <3> QED
        BY <2>3
    <2> QED
      BY <2>4
  <1>5. {r[2] : r \in {M(m) : m \in own}} = own
    <2> HIDE DEF own
    <2> DEFINE Ids == {r[2] : r \in {M(m) : m \in own}}
    <2>1. \A m : M(m)[2] = m
      BY DEF M
    <2>2. \A y \in Ids : y \in own
      BY <2>1
    <2>3. \A y \in own : y \in Ids
      BY <2>1
    <2> QED
      BY <2>2, <2>3
  <1> QED
    BY <1>2, <1>4, <1>5

\* In every archive, after any sessions and merges, the account page, the search page's copy of
\* the owner and a visitor's check reach the same media.
THEOREM ViewsAgreeAlways == Spec => []ViewsAgree
  <1>1. Ownership /\ [Next]_vars => Ownership'
    BY OwnershipStep
  <1> QED
    BY InitOwnership, <1>1, OwnershipShowsMedia, PTL DEF Spec
-----------------------------------------------------------------------------
(* The vocabulary and its imports.  The constraints of the schema are      *)
(* inductive only together with what an import carries from row to row:    *)
(* every id it reported is a tag as its row asks for, and every link whose *)
(* turn is over is made, or leads back to its own child.                   *)

Numbered ==
    /\ lastType \in 0 .. MaxTypeId /\ lastTag \in 0 .. MaxTagId
    /\ DOMAIN types \subseteq 1 .. lastType
    /\ DOMAIN tags \subseteq 1 .. lastTag

TypesAreKnown == \A t \in DOMAIN tags : KnownType(tags[t].type)
NamesAreUnique == \A t \in DOMAIN tags : NameFree(t, tags[t].name, tags[t].type)
LinksAmongTags == edges \subseteq (DOMAIN tags) \X (DOMAIN tags)
MarksOnStored == marks \subseteq stored \X (DOMAIN tags)

JobTyped ==
    job = [kind |-> job.kind, rows |-> job.rows, create |-> job.create, todo |-> job.todo,
           out |-> job.out]

ImportInOrder ==
    job.kind = "tags" =>
        /\ job.rows \in TagBatches
        /\ job.todo \subseteq RowSteps(job.rows) \cup LinkSteps(job.rows)
        /\ DOMAIN job.out = {i \in DOMAIN job.rows : <<i, 0>> \notin job.todo}
        /\ LinkSteps(job.rows) \subseteq job.todo \/ DOMAIN job.out = DOMAIN job.rows

RowIsTagged(i) ==
    LET t == job.out[i].id IN
    /\ t \in DOMAIN tags /\ Fold[tags[t].name] = Fold[job.rows[i].name]
    /\ (tags[t].type = None) = (job.rows[i].type = None)

RowsAreTagged == job.kind = "tags" => \A i \in DOMAIN job.out : LinksRow(i) => RowIsTagged(i)

\* The tag that the file itself defines for the parent of a link.
FileParent(l) == job.out[LastOf(BatchRows(job.rows[l[1]].parents[l[2]]))].id

LinkIsMade(l) ==
    LET t == job.out[l[1]].id IN
    LinksRow(l[1]) /\ BatchRows(job.rows[l[1]].parents[l[2]]) # {} =>
        <<FileParent(l), t>> \in edges \/ FileParent(l) \in Descendants(edges, t)

LinksAreMade == job.kind = "tags" => \A l \in LinkSteps(job.rows) \ job.todo : LinkIsMade(l)

Catalogued == Numbered /\ TypesAreKnown /\ NamesAreUnique
ImportIsSound == JobTyped /\ ImportInOrder /\ RowsAreTagged /\ LinksAreMade
VocabInv == Catalogued /\ LinksAmongTags /\ MarksOnStored /\ ImportIsSound

LEMMA InvGivesVocabulary == VocabInv => VocabularyTypeOK
  BY DEF VocabInv, Catalogued, Numbered, TypesAreKnown, NamesAreUnique, LinksAmongTags,
         MarksOnStored, VocabularyTypeOK

\* An import that is over has the turns of all its rows and links behind it.
LEMMA InvGivesDelivery == VocabInv => ImportDelivers
  <1> SUFFICES ASSUME VocabInv, job.kind = "tags", job.todo = {},
                      NEW i \in DOMAIN job.rows, job.out[i].status # "error"
               PROVE  LET t == job.out[i].id IN
                      /\ t \in DOMAIN tags /\ Fold[tags[t].name] = Fold[job.rows[i].name]
                      /\ (tags[t].type = None) = (job.rows[i].type = None)
                      /\ \A n \in {job.rows[i].parents[j] : j \in DOMAIN job.rows[i].parents} :
                            BatchRows(n) # {} =>
                                LET p == job.out[LastOf(BatchRows(n))].id IN
                                <<p, t>> \in edges \/ p \in Descendants(edges, t)
    BY DEF ImportDelivers
  <1> USE DEF VocabInv, ImportIsSound
  <1>1. RowIsTagged(i)
    BY DEF ImportInOrder, RowsAreTagged, LinksRow
  <1>2. ASSUME NEW j \in DOMAIN job.rows[i].parents, BatchRows(job.rows[i].parents[j]) # {}
        PROVE  LET p == job.out[LastOf(BatchRows(job.rows[i].parents[j]))].id
                   t == job.out[i].id
               IN <<p, t>> \in edges \/ p \in Descendants(edges, t)
    <2>1. <<i, j>> \in LinkSteps(job.rows) \ job.todo
      BY DEF LinkSteps
    <2>2. LinkIsMade(<<i, j>>)
      BY <2>1 DEF LinksAreMade
    <2> QED
      BY <1>2, <2>2 DEF LinkIsMade, FileParent, LinksRow
  <1> QED
    BY <1>1, <1>2 DEF RowIsTagged

LEMMA InitVocab == Init => VocabInv
  <1> SUFFICES ASSUME Init PROVE VocabInv
    OBVIOUS
  <1> USE VocabularyAssumption DEF Init, InitVocabulary, NoJob
  <1>1. Catalogued /\ LinksAmongTags /\ MarksOnStored
    BY DEF Catalogued, Numbered, TypesAreKnown, NamesAreUnique, LinksAmongTags, MarksOnStored
  <1>2. ImportIsSound
    BY DEF ImportIsSound, JobTyped, ImportInOrder, RowsAreTagged, LinksAreMade
  <1> QED
    BY <1>1, <1>2 DEF VocabInv

\* A row, or a new value of one, whose name is free among the others leaves all names unique.
LEMMA PutKeepsUnique ==
    ASSUME NamesAreUnique, NEW k, NEW n, NEW ty, NameFree(k, n, ty),
           tags' = Put(tags, k, [name |-> n, type |-> ty])
    PROVE  NamesAreUnique'
  <1> DEFINE row == [name |-> n, type |-> ty]
  <1>1. /\ DOMAIN tags' = DOMAIN tags \cup {k}
        /\ tags'[k].name = n /\ tags'[k].type = ty
        /\ \A t \in DOMAIN tags \ {k} : tags'[t] = tags[t]
    BY DEF Put
  <1> QED
    BY <1>1 DEF NamesAreUnique, NameFree

\* A tag that was checked before it was put into the table.
LEMMA PutKeepsCatalogue ==
    ASSUME Catalogued, NEW k \in 1 .. lastTag', NEW n, NEW ty, NameFree(k, n, ty),
           tags' = Put(tags, k, [name |-> n, type |-> ty]),
           lastTag' \in lastTag .. MaxTagId, lastType' \in lastType .. MaxTypeId,
           DOMAIN types \subseteq DOMAIN types', DOMAIN types' \subseteq 1 .. lastType',
           ty = None \/ ty \in DOMAIN types'
    PROVE  Catalogued'
  <1> USE VocabularyAssumption
  <1>1. /\ DOMAIN tags' = DOMAIN tags \cup {k}
        /\ tags'[k].type = ty
        /\ \A t \in DOMAIN tags \ {k} : tags'[t] = tags[t]
    BY DEF Put
  <1>2. Numbered'
    BY <1>1 DEF Catalogued, Numbered
  <1>3. TypesAreKnown'
    BY <1>1 DEF Catalogued, TypesAreKnown, KnownType
  <1>4. NamesAreUnique'
    BY PutKeepsUnique DEF Catalogued
  <1> QED
    BY <1>2, <1>3, <1>4 DEF Catalogued

\* Types may come and go as long as those in use stay.
LEMMA TypesKeepCatalogue ==
    ASSUME Catalogued, UNCHANGED <<tags, lastTag>>,
           lastType' \in lastType .. MaxTypeId, DOMAIN types' \subseteq 1 .. lastType',
           \A t \in DOMAIN tags : tags[t].type \in DOMAIN types => tags[t].type \in DOMAIN types'
    PROVE  Catalogued'
  <1> USE VocabularyAssumption
  <1>1. Numbered'
    BY DEF Catalogued, Numbered
  <1>2. TypesAreKnown'
    BY DEF Catalogued, TypesAreKnown, KnownType
  <1>3. NamesAreUnique'
    BY DEF Catalogued, NamesAreUnique, NameFree
  <1> QED
    BY <1>1, <1>2, <1>3 DEF Catalogued
\* A tag outside every mark and link can go.
LEMMA DelTagKeepsVocab ==
    ASSUME VocabInv, NEW t, DelTag(t)
    PROVE  VocabInv'
  <1> USE VocabularyAssumption
  <1>1. /\ job = NoJob /\ UNCHANGED <<job, stored, types, lastType, lastTag, edges, marks>>
        /\ t \in DOMAIN tags /\ Carriers(t) = {}
        /\ \A e \in edges : t \notin {e[1], e[2]}
    BY DEF DelTag, Edit, Request
  <1>2. /\ DOMAIN tags' = DOMAIN tags \ {t}
        /\ \A u \in DOMAIN tags' : tags'[u] = tags[u]
    BY DEF DelTag, Without
  <1>3. t \in TagIds
    BY <1>1 DEF VocabInv, Catalogued, Numbered, TagIds
  <1>4. \A k \in marks : k[2] # t
    <2>1. t \in Descendants(edges, t)
      BY <1>3 DEF Descendants
    <2> QED
      BY <1>1, <2>1 DEF Carriers
  <1>5. Catalogued'
    BY <1>1, <1>2 DEF VocabInv, Catalogued, Numbered, TypesAreKnown, NamesAreUnique, KnownType,
                      NameFree
  <1>6. LinksAmongTags'
    BY <1>1, <1>2 DEF VocabInv, LinksAmongTags
  <1>7. MarksOnStored'
    BY <1>1, <1>2, <1>4 DEF VocabInv, MarksOnStored
  <1>8. ImportIsSound'
    BY <1>1 DEF NoJob, ImportIsSound, JobTyped, ImportInOrder, RowsAreTagged, LinksAreMade
  <1> QED
    BY <1>5, <1>6, <1>7, <1>8 DEF VocabInv

\* The other requests on the catalogue.
LEMMA CatalogueRequestKeepsVocab ==
    ASSUME VocabInv,
           \/ \E n, a : PostTagType(n, a)
           \/ \E ty, n, a : PutTagType(ty, n, a)
           \/ \E ty : DelTagType(ty)
           \/ \E n, ty : PostTag(n, ty)
           \/ \E t, n, ty : PutTag(t, n, ty)
    PROVE  VocabInv'
  <1> USE VocabularyAssumption
  <1>1. job = NoJob /\ UNCHANGED <<job, stored, edges, marks>>
    BY DEF PostTagType, PutTagType, DelTagType, PostTag, PutTag, Edit, Request
  <1>2. Catalogued
    BY DEF VocabInv
  <1>3. ASSUME \/ \E n, a : PostTagType(n, a)
               \/ \E ty, n, a : PutTagType(ty, n, a)
               \/ \E ty : DelTagType(ty)
        PROVE  Catalogued' /\ DOMAIN tags \subseteq DOMAIN tags'
    <2>1. UNCHANGED <<tags, lastTag>>
      BY <1>3 DEF PostTagType, PutTagType, DelTagType
    <2>2. /\ lastType' \in lastType .. MaxTypeId
          /\ DOMAIN types' \subseteq 1 .. lastType'
      <3>1. lastType \in 0 .. MaxTypeId /\ DOMAIN types \subseteq 1 .. lastType
        BY <1>2 DEF Catalogued, Numbered
      <3>2. ASSUME NEW n, NEW a, PostTagType(n, a)
            PROVE  lastType' = lastType + 1 /\ lastType + 1 \in 1 .. MaxTypeId
                   /\ DOMAIN types' = DOMAIN types \cup {lastType + 1}
        BY <3>2 DEF PostTagType, Put, TypeIds
      <3>3. ASSUME NEW ty, NEW n, NEW a, PutTagType(ty, n, a) \/ DelTagType(ty)
            PROVE  lastType' = lastType /\ DOMAIN types' \subseteq DOMAIN types
        BY <3>3 DEF PutTagType, DelTagType, Without
      <3> QED
        BY <1>3, <3>1, <3>2, <3>3
    <2>3. \A t \in DOMAIN tags : tags[t].type \in DOMAIN types => tags[t].type \in DOMAIN types'
      BY <1>3 DEF PostTagType, PutTagType, DelTagType, Put, Without
    <2> QED
      BY <1>2, <2>1, <2>2, <2>3, TypesKeepCatalogue
  <1>4. ASSUME NEW n, NEW ty, PostTag(n, ty)
        PROVE  Catalogued' /\ DOMAIN tags \subseteq DOMAIN tags'
    <2>1. /\ lastTag + 1 \in TagIds /\ KnownType(ty) /\ NameFree(lastTag + 1, n, ty)
          /\ tags' = Put(tags, lastTag + 1, [name |-> n, type |-> ty])
          /\ lastTag' = lastTag + 1
          /\ UNCHANGED <<types, lastType>>
      BY <1>4 DEF PostTag
    <2>2. /\ lastTag + 1 \in 1 .. lastTag' /\ lastTag' \in lastTag .. MaxTagId
          /\ lastType' \in lastType .. MaxTypeId /\ DOMAIN types' \subseteq 1 .. lastType'
      BY <1>2, <2>1 DEF Catalogued, Numbered, TagIds
    <2>3. Catalogued'
      BY <1>2, <2>1, <2>2, PutKeepsCatalogue DEF KnownType
    <2> QED
      BY <2>1, <2>3 DEF Put
  <1>5. ASSUME NEW t, NEW n, NEW ty, PutTag(t, n, ty)
        PROVE  Catalogued' /\ DOMAIN tags \subseteq DOMAIN tags'
    <2>1. /\ t \in DOMAIN tags /\ KnownType(ty) /\ NameFree(t, n, ty)
          /\ tags' = [tags EXCEPT ![t] = [name |-> n, type |-> ty]]
          /\ UNCHANGED <<types, lastType, lastTag>>
      BY <1>5 DEF PutTag
    <2>2. tags' = Put(tags, t, [name |-> n, type |-> ty])
      <3>1. DOMAIN tags \cup {t} = DOMAIN tags
        BY <2>1
      <3> QED
        BY <2>1, <3>1 DEF Put
    <2>3. /\ t \in 1 .. lastTag' /\ lastTag' \in lastTag .. MaxTagId
          /\ lastType' \in lastType .. MaxTypeId /\ DOMAIN types' \subseteq 1 .. lastType'
      BY <1>2, <2>1 DEF Catalogued, Numbered
    <2>4. Catalogued'
      BY <1>2, <2>1, <2>2, <2>3, PutKeepsCatalogue DEF KnownType
    <2> QED
      BY <2>2, <2>4 DEF Put
  <1>6. Catalogued' /\ DOMAIN tags \subseteq DOMAIN tags'
    BY <1>3, <1>4, <1>5
  <1>7. LinksAmongTags' /\ MarksOnStored'
    BY <1>1, <1>6 DEF VocabInv, LinksAmongTags, MarksOnStored
  <1>8. ImportIsSound'
    BY <1>1 DEF NoJob, ImportIsSound, JobTyped, ImportInOrder, RowsAreTagged, LinksAreMade
  <1> QED
    BY <1>6, <1>7, <1>8 DEF VocabInv

\* Requests on the hierarchy and on the marks, outside any import.
LEMMA LinkAndMarkRequestsKeepVocab ==
    ASSUME VocabInv,
           \/ \E p, c \in DOMAIN tags : PostHierarchy(p, c)
           \/ \E e \in edges : DelHierarchy(e)
           \/ \E kind \in {"account", "post", "media"}, ts \in SUBSET TagIds :
                 AnnotateBatch(kind, {e \in stored : e[1] = kind}, ts)
           \/ \E e \in stored, ts \in SUBSET DOMAIN tags : AnnotateEntity(e, ts)
           \/ \E k \in marks : RemoveEntityTag(k)
    PROVE  VocabInv'
  <1>1. job = NoJob /\ UNCHANGED <<job, stored, catalogue>>
    BY DEF PostHierarchy, DelHierarchy, AnnotateBatch, AnnotateEntity, RemoveEntityTag, Edit,
           Request
  <1>2. Catalogued'
    BY <1>1 DEF VocabInv, catalogue, Catalogued, Numbered, TypesAreKnown, NamesAreUnique,
                KnownType, NameFree
  <1>3. LinksAmongTags'
    <2>1. /\ edges \subseteq (DOMAIN tags) \X (DOMAIN tags)
          /\ tags' = tags
      BY <1>1 DEF VocabInv, catalogue, LinksAmongTags
    <2>2. \/ edges' \subseteq edges
          \/ \E p, c \in DOMAIN tags : edges' = edges \cup {<<p, c>>}
      BY DEF PostHierarchy, DelHierarchy, AnnotateBatch, AnnotateEntity, RemoveEntityTag
    <2> QED
      BY <2>1, <2>2 DEF LinksAmongTags
  <1>4. MarksOnStored'
    BY <1>1 DEF VocabInv, catalogue, MarksOnStored, PostHierarchy, DelHierarchy, AnnotateBatch,
                AnnotateEntity, RemoveEntityTag
  <1>5. ImportIsSound'
    BY <1>1 DEF NoJob, ImportIsSound, JobTyped, ImportInOrder, RowsAreTagged, LinksAreMade
  <1> QED
    BY <1>2, <1>3, <1>4, <1>5 DEF VocabInv

\* A new import has everything before it; one that ends or breaks off leaves nothing to know.
LEMMA StartAndEndKeepVocab ==
    ASSUME VocabInv,
           \/ \E b \in TagBatches, create \in BOOLEAN : StartTagImport(b, create)
           \/ \E b \in MarkBatches : StartMarkImport(b)
           \/ ImportAborts \/ ImportEnds
    PROVE  VocabInv'
  <1>1. UNCHANGED <<catalogue, edges, stored, marks>>
    BY DEF StartTagImport, StartMarkImport, StartImport, ImportAborts, ImportEnds
  <1>2. Catalogued' /\ LinksAmongTags' /\ MarksOnStored'
    BY <1>1 DEF VocabInv, catalogue, Catalogued, Numbered, TypesAreKnown, NamesAreUnique,
                KnownType, NameFree, LinksAmongTags, MarksOnStored
  <1>3. ASSUME NEW b \in TagBatches, NEW create, StartTagImport(b, create)
        PROVE  ImportIsSound'
    <2>1. job' = [kind |-> "tags", rows |-> b, create |-> create,
                  todo |-> RowSteps(b) \cup LinkSteps(b), out |-> <<>>]
      BY <1>3 DEF StartTagImport, StartImport
    <2>2. JobTyped' /\ DOMAIN job'.out = {}
      BY <2>1 DEF JobTyped
    <2>3. ImportInOrder'
      BY <2>1, <2>2 DEF ImportInOrder, RowSteps
    <2>4. RowsAreTagged' /\ LinksAreMade'
      BY <2>1, <2>2 DEF RowsAreTagged, LinksAreMade
    <2> QED
      BY <2>2, <2>3, <2>4 DEF ImportIsSound
  <1>4. ASSUME \/ \E b \in MarkBatches : StartMarkImport(b)
               \/ ImportAborts \/ ImportEnds
        PROVE  ImportIsSound'
    BY <1>4 DEF StartMarkImport, StartImport, ImportAborts, ImportEnds, NoJob, ImportIsSound,
                JobTyped, ImportInOrder, RowsAreTagged, LinksAreMade
  <1> QED
    BY <1>2, <1>3, <1>4 DEF VocabInv
\* The last of a set of rows is one of them.
LEMMA HasLast ==
    ASSUME NEW n \in Nat, NEW S \in SUBSET (1 .. n), S # {}
    PROVE  LastOf(S) \in S
  <1> DEFINE R == {p \in Nat \X Nat : p[1] < p[2]}
             T == {b \in Nat : \A j \in S : j <= b}
  <1>1. IsWellFoundedOn(R, Nat)
    BY NatLessThanWellFounded DEF OpToRel
  <1>2. PICK b \in T : \A y \in T : ~ (<<y, b>> \in R)
    <2>1. n \in T
      OBVIOUS
    <2> HIDE DEF R
    <2>2. T \subseteq Nat /\ T # {}
      BY <2>1
    <2> HIDE DEF T
    <2> QED
      BY <1>1, <2>2, WFMin
  <1>3. b \in Nat /\ \A y \in T : ~ (y < b)
    BY <1>2
  <1>4. b \in S
    <2>1. SUFFICES ASSUME b \notin S PROVE FALSE
      OBVIOUS
    <2>2. \A j \in S : j <= b - 1
      BY <1>2, <2>1
    <2>3. PICK j \in S : TRUE
      OBVIOUS
    <2>4. b - 1 \in Nat
      BY <2>2, <2>3, <1>3
    <2>5. b - 1 \in T
      BY <2>2, <2>4
    <2> QED
      BY <2>5, <1>3
  <1>5. \E i \in S : \A j \in S : j <= i
    BY <1>2, <1>4
  <1> QED
    BY <1>5 DEF LastOf

\* A report is entered under its row, and nothing else of the import changes.
LEMMA ReportShape ==
    ASSUME JobTyped, NEW s, NEW status, NEW t, Report(s, status, t)
    PROVE  /\ JobTyped'
           /\ job'.kind = job.kind /\ job'.rows = job.rows
           /\ job'.todo = job.todo \ {s}
           /\ job'.out = Put(job.out, s[1], [status |-> status, id |-> t])
  BY DEF JobTyped, Report

LEMMA AdvanceShape ==
    ASSUME JobTyped, NEW s, Advance(s)
    PROVE  /\ JobTyped'
           /\ job'.kind = job.kind /\ job'.rows = job.rows
           /\ job'.todo = job.todo \ {s} /\ job'.out = job.out
  BY DEF JobTyped, Advance

\* The turns of rows and of links are told apart by their second number.
LEMMA TurnsOfAnImport ==
    ASSUME VocabInv, job.kind = "tags", NEW s \in job.todo
    PROVE  /\ s = <<s[1], s[2]>> /\ s[1] \in DOMAIN job.rows
           /\ s[2] = 0 => s \in RowSteps(job.rows)
           /\ s[2] # 0 => s \in LinkSteps(job.rows)
           /\ \A l \in LinkSteps(job.rows) : l[2] # 0
  <1> USE VocabularyAssumption
  <1>1. job.rows \in TagBatches /\ s \in RowSteps(job.rows) \cup LinkSteps(job.rows)
    BY DEF VocabInv, ImportIsSound, ImportInOrder
  <1>2. \A i \in DOMAIN job.rows : 0 \notin DOMAIN job.rows[i].parents
    <2> SUFFICES ASSUME NEW i \in DOMAIN job.rows
                 PROVE  0 \notin DOMAIN job.rows[i].parents
      OBVIOUS
    <2> DEFINE Lines == [name : Spellings, type : Spellings \cup {None},
                         parents : Seq(Spellings)]
    <2>1. job.rows \in Seq(Lines)
      BY <1>1
    <2>2. job.rows[i] \in Lines
      <3> HIDE DEF Lines
      <3> QED
        BY <2>1
    <2>3. job.rows[i].parents \in Seq(Spellings)
      BY <2>2
    <2> QED
      BY <2>3
  <1>3. \A l \in LinkSteps(job.rows) :
            l[2] # 0 /\ l = <<l[1], l[2]>> /\ l[1] \in DOMAIN job.rows
    BY <1>2 DEF LinkSteps
  <1>4. \A r \in RowSteps(job.rows) :
            r[2] = 0 /\ r = <<r[1], r[2]>> /\ r[1] \in DOMAIN job.rows
    BY DEF RowSteps
  <1> QED
    BY <1>1, <1>3, <1>4

\* A row that reports the tag it found or made, or an error, leaves the import sound: its links
\* are all still to come.
LEMMA RowReported ==
    ASSUME VocabInv, job.kind = "tags", NEW s \in job.todo, s[2] = 0,
           NEW status, NEW t, Report(s, status, t),
           DOMAIN tags \subseteq DOMAIN tags', \A u \in DOMAIN tags : tags'[u] = tags[u],
           status # "error" => /\ t \in DOMAIN tags'
                               /\ Fold[tags'[t].name] = Fold[Row(s).name]
                               /\ (tags'[t].type = None) = (Row(s).type = None)
    PROVE  ImportIsSound'
  <1> USE DEF VocabInv, ImportIsSound
  <1>1. /\ JobTyped'
        /\ job'.kind = "tags" /\ job'.rows = job.rows
        /\ job'.todo = job.todo \ {s}
        /\ job'.out = Put(job.out, s[1], [status |-> status, id |-> t])
    BY ReportShape
  <1>2. s = <<s[1], 0>> /\ s[1] \in DOMAIN job.rows /\ s \notin LinkSteps(job.rows)
    BY TurnsOfAnImport
  <1>3. /\ DOMAIN job'.out = DOMAIN job.out \cup {s[1]}
        /\ job'.out[s[1]] = [status |-> status, id |-> t]
        /\ \A i \in DOMAIN job.out \ {s[1]} : job'.out[i] = job.out[i]
    BY <1>1 DEF Put
  <1>4. s[1] \notin DOMAIN job.out /\ LinkSteps(job.rows) \subseteq job.todo
    BY <1>2 DEF ImportInOrder
  <1>5. LinkSteps(job.rows) \subseteq job'.todo
    BY <1>1, <1>2, <1>4
  <1>6. ImportInOrder'
    <2>1. DOMAIN job'.out = {i \in DOMAIN job.rows : <<i, 0>> \notin job'.todo}
      <3>1. DOMAIN job.out = {i \in DOMAIN job.rows : <<i, 0>> \notin job.todo}
        BY DEF ImportInOrder
      <3>2. \A i : <<i, 0>> = s <=> i = s[1]
        BY <1>2
      <3> QED
        BY <3>1, <3>2, <1>1, <1>2, <1>3
    <2> QED
      BY <2>1, <1>1, <1>5 DEF ImportInOrder
  <1>7. RowsAreTagged'
    <2> SUFFICES ASSUME NEW i \in DOMAIN job'.out, LinksRow(i)'
                 PROVE  RowIsTagged(i)'
      BY DEF RowsAreTagged
    <2>1. CASE i = s[1]
      <3>1. status # "error"
        BY <2>1, <1>3 DEF LinksRow
      <3> QED
        BY <2>1, <3>1, <1>1, <1>3 DEF RowIsTagged, Row
    <2>2. CASE i # s[1]
      <3>1. i \in DOMAIN job.out /\ job'.out[i] = job.out[i]
        BY <2>2, <1>3
      <3>2. RowIsTagged(i)
        BY <3>1 DEF RowsAreTagged, LinksRow
      <3> QED
        BY <3>1, <3>2, <1>1 DEF RowIsTagged
    <2> QED
      BY <2>1, <2>2
  <1>8. LinksAreMade'
    BY <1>1, <1>5 DEF LinksAreMade
  <1> QED
    BY <1>1, <1>6, <1>7, <1>8

\* The types a row may be given are known or the next one, and none only if it asks for none.
LEMMA TypesOfARow ==
    ASSUME Catalogued, NEW n, NEW ty \in RowTypes(n)
    PROVE  /\ n = None => ty = None
           /\ n # None => ty # None
           /\ ~ KnownType(ty) => ty = lastType + 1 /\ lastType + 1 \in TypeIds
  BY VocabularyAssumption DEF Catalogued, Numbered, RowTypes, TypesNamed, KnownType, TypeIds

LEMMA ImportTagRowKeepsVocab ==
    ASSUME VocabInv, NEW s \in job.todo, ImportTagRow(s)
    PROVE  VocabInv'
  <1> USE VocabularyAssumption
  <1>1. /\ job.kind = "tags" /\ s[2] = 0
        /\ UNCHANGED <<edges, stored, marks>>
    BY DEF ImportTagRow, Importing
  <1>2. Catalogued
    BY DEF VocabInv
  <1>3. SUFFICES /\ Catalogued'
                 /\ DOMAIN tags \subseteq DOMAIN tags'
                 /\ ImportIsSound'
    BY <1>1 DEF VocabInv, LinksAmongTags, MarksOnStored
  <1>4. CASE Report(s, "error", None) /\ UNCHANGED catalogue
    <2>1. Catalogued'
      BY <1>2, <1>4 DEF catalogue, Catalogued, Numbered, TypesAreKnown, NamesAreUnique,
                        KnownType, NameFree
    <2>2. tags' = tags
      BY <1>4 DEF catalogue
    <2>3. ImportIsSound'
      BY <2>2, <1>1, <1>4, RowReported
    <2> QED
      BY <2>1, <2>2, <2>3
  <1>5. ASSUME NEW ty \in RowTypes(Row(s).type),
               IF KnownType(ty) THEN UNCHANGED <<types, lastType>>
               ELSE /\ types' = Put(types, ty, [name |-> Row(s).type, affinity |-> None])
                    /\ lastType' = ty,
               UpsertTag(s, ty)
        PROVE  /\ Catalogued'
               /\ DOMAIN tags \subseteq DOMAIN tags'
               /\ ImportIsSound'
    <2>1. /\ (ty = None) = (Row(s).type = None)
          /\ ~ KnownType(ty) => ty = lastType + 1 /\ lastType + 1 \in TypeIds
      BY <1>2, TypesOfARow
    <2>2. /\ lastType' \in lastType .. MaxTypeId
          /\ DOMAIN types \subseteq DOMAIN types' /\ DOMAIN types' \subseteq 1 .. lastType'
          /\ ty = None \/ ty \in DOMAIN types'
      BY <1>2, <1>5, <2>1 DEF Catalogued, Numbered, KnownType, TypeIds, Put
    <2>3. ASSUME UNCHANGED <<tags, lastTag>>,
                 \/ Report(s, "error", None)
                 \/ \E t \in TagsNamed(Row(s).name, ty) : Report(s, "existing", t)
          PROVE  /\ Catalogued'
                 /\ DOMAIN tags \subseteq DOMAIN tags'
                 /\ ImportIsSound'
      <3>1. Catalogued'
        BY <1>2, <2>2, <2>3, TypesKeepCatalogue
      <3>2. CASE Report(s, "error", None)
        BY <3>1, <3>2, <2>3, <1>1, RowReported
      <3>3. ASSUME NEW t \in TagsNamed(Row(s).name, ty), Report(s, "existing", t)
            PROVE  ImportIsSound'
        BY <3>3, <2>1, <2>3, <1>1, RowReported DEF TagsNamed
      <3> QED
        BY <2>3, <3>1, <3>2, <3>3
    <2>4. ASSUME lastTag + 1 \in TagIds, NameFree(lastTag + 1, Row(s).name, ty),
                 tags' = Put(tags, lastTag + 1, [name |-> Row(s).name, type |-> ty]),
                 lastTag' = lastTag + 1,
                 Report(s, "created", lastTag + 1)
          PROVE  /\ Catalogued'
                 /\ DOMAIN tags \subseteq DOMAIN tags'
                 /\ ImportIsSound'
      <3>1. lastTag + 1 \in 1 .. lastTag' /\ lastTag' \in lastTag .. MaxTagId
        BY <1>2, <2>4 DEF Catalogued, Numbered, TagIds
      <3>2. Catalogued'
        BY <1>2, <2>2, <2>4, <3>1, PutKeepsCatalogue
      <3>3. lastTag + 1 \notin DOMAIN tags
        BY <1>2 DEF Catalogued, Numbered
      <3>4. /\ DOMAIN tags' = DOMAIN tags \cup {lastTag + 1}
            /\ tags'[lastTag + 1] = [name |-> Row(s).name, type |-> ty]
            /\ \A u \in DOMAIN tags : tags'[u] = tags[u]
        BY <2>4, <3>3 DEF Put
      <3>5. ImportIsSound'
        BY <3>4, <2>1, <2>4, <1>1, RowReported
      <3> QED
        BY <3>2, <3>4, <3>5
    <2> QED
      BY <1>5, <2>3, <2>4 DEF UpsertTag
  <1> QED
    BY <1>4, <1>5 DEF ImportTagRow
\* More links give more descendants.
LEMMA MoreLinksMoreDescendants ==
    ASSUME NEW E, NEW F, E \subseteq F, NEW t
    PROVE  Descendants(E, t) \subseteq Descendants(F, t)
  BY DEF Descendants, Closed

\* A parent is looked up among the tags the file made, and otherwise among all.
LEMMA ParentsAreTags ==
    ASSUME VocabInv, job.kind = "tags", NEW n
    PROVE  /\ Parents(n) \subseteq DOMAIN tags
           /\ BatchRows(n) # {} => Parents(n) = {job.out[LastOf(BatchRows(n))].id}
  <1> USE VocabularyAssumption DEF VocabInv, ImportIsSound
  <1>1. CASE BatchRows(n) # {}
    <2>1. job.rows \in Seq([name : Spellings, type : Spellings \cup {None},
                            parents : Seq(Spellings)])
      BY DEF ImportInOrder
    <2>2. Len(job.rows) \in Nat /\ DOMAIN job.rows = 1 .. Len(job.rows)
      BY <2>1
    <2>3. BatchRows(n) \subseteq 1 .. Len(job.rows)
      BY <2>2 DEF ImportInOrder, BatchRows
    <2>4. LastOf(BatchRows(n)) \in BatchRows(n)
      BY <1>1, <2>2, <2>3, HasLast
    <2>5. job.out[LastOf(BatchRows(n))].id \in DOMAIN tags
      BY <2>4 DEF BatchRows, LinksRow, RowsAreTagged, RowIsTagged
    <2> QED
      BY <1>1, <2>5 DEF Parents
  <1>2. CASE BatchRows(n) = {}
    BY <1>2 DEF Parents
  <1> QED
    BY <1>1, <1>2

LEMMA ImportLinkKeepsVocab ==
    ASSUME VocabInv, NEW s \in job.todo, ImportLink(s)
    PROVE  VocabInv'
  <1> DEFINE n == job.rows[s[1]].parents[s[2]]
             c == job.out[s[1]].id
  <1> USE DEF VocabInv, ImportIsSound
  <1>1. /\ job.kind = "tags" /\ s[2] # 0 /\ \A t \in job.todo \ {s} : Before(s, t)
        /\ Advance(s) /\ UNCHANGED <<catalogue, stored, marks>>
        /\ \/ ~ LinksRow(s[1]) \/ Parents(n) = {}
           \/ /\ LinksRow(s[1])
              /\ \E p \in Parents(n) : edges' = IF WouldCreateCycle(p, c) THEN edges
                                                ELSE edges \cup {<<p, c>>}
        /\ edges' = edges \/ LinksRow(s[1])
    BY DEF ImportLink, Importing, Row
  <1>2. /\ JobTyped' /\ job'.kind = "tags" /\ job'.rows = job.rows
        /\ job'.todo = job.todo \ {s} /\ job'.out = job.out
    BY <1>1, AdvanceShape
  <1>3. s = <<s[1], s[2]>> /\ s[1] \in DOMAIN job.rows /\ s \in LinkSteps(job.rows)
    BY <1>1, TurnsOfAnImport
  <1>4. ASSUME NEW i \in DOMAIN job.rows, <<i, 0>> \in job.todo
        PROVE  FALSE
    <2>1. <<i, 0>> # s
      BY <1>1
    <2> QED
      BY <1>1, <1>4, <2>1 DEF Before
  <1>5. DOMAIN job.out = DOMAIN job.rows
    BY <1>1, <1>4 DEF ImportInOrder
  <1>6. \/ edges' = edges
        \/ LinksRow(s[1]) /\ \E p \in Parents(n) : edges' = edges \cup {<<p, c>>}
    <2>1. CASE ~ LinksRow(s[1]) \/ Parents(n) = {}
      BY <2>1 DEF ImportLink, Importing, Row
    <2>2. CASE LinksRow(s[1]) /\ Parents(n) # {}
      BY <1>1, <2>2
    <2> QED
      BY <2>1, <2>2
  <1>7. LinksRow(s[1]) => c \in DOMAIN tags
    BY <1>1, <1>3, <1>5 DEF RowsAreTagged, RowIsTagged
  <1>8. Parents(n) \subseteq DOMAIN tags
    BY <1>1, ParentsAreTags
  <1>9. Catalogued' /\ MarksOnStored'
    BY <1>1 DEF catalogue, Catalogued, Numbered, TypesAreKnown, NamesAreUnique, KnownType,
                NameFree, MarksOnStored
  <1>10. LinksAmongTags'
    BY <1>1, <1>6, <1>7, <1>8 DEF catalogue, LinksAmongTags
  <1>11. ImportInOrder'
    <2>1. DOMAIN job.rows = {i \in DOMAIN job.rows : <<i, 0>> \notin job'.todo}
      BY <1>2, <1>4
    <2>2. job'.todo \subseteq RowSteps(job.rows) \cup LinkSteps(job.rows)
      BY <1>1, <1>2 DEF ImportInOrder
    <2>3. job.rows \in TagBatches
      BY <1>1 DEF ImportInOrder
    <2> QED
      BY <1>2, <1>5, <2>1, <2>2, <2>3 DEF ImportInOrder
  <1>12. RowsAreTagged'
    BY <1>1, <1>2 DEF RowsAreTagged, RowIsTagged, LinksRow, catalogue
  <1>13. LinksAreMade'
    <2> SUFFICES ASSUME NEW l \in LinkSteps(job.rows) \ job'.todo
                 PROVE  LinkIsMade(l)'
      BY <1>2 DEF LinksAreMade
    <2> DEFINE names == job.rows[l[1]].parents[l[2]]
               t == job.out[l[1]].id
    <2>1. BatchRows(names)' = BatchRows(names) /\ FileParent(l)' = FileParent(l)
      BY <1>2 DEF BatchRows, FileParent
    <2>2. edges \subseteq edges'
      BY <1>6
    <2>3. SUFFICES ASSUME LinksRow(l[1]), BatchRows(names) # {}
                   PROVE  \/ <<FileParent(l), t>> \in edges'
                          \/ FileParent(l) \in Descendants(edges', t)
      <3>1. LinksRow(l[1])' = LinksRow(l[1])
        BY <1>2 DEF LinksRow
      <3>2. job'.out[l[1]].id = t /\ job'.rows[l[1]].parents[l[2]] = names
        BY <1>2
      <3> QED
        BY <2>1, <3>1, <3>2 DEF LinkIsMade
    <2>4. CASE l # s
      <3>1. LinkIsMade(l)
        BY <2>4, <1>1, <1>2 DEF LinksAreMade
      <3>2. <<FileParent(l), t>> \in edges \/ FileParent(l) \in Descendants(edges, t)
        BY <3>1, <2>3 DEF LinkIsMade
      <3> QED
        BY <3>2, <2>2, MoreLinksMoreDescendants
    <2>5. CASE l = s
      <3>1. Parents(n) = {FileParent(s)}
        <4>1. BatchRows(n) # {}
          BY <2>3, <2>5
        <4>2. Parents(n) = {job.out[LastOf(BatchRows(n))].id}
          <5> HIDE DEF n, VocabInv
          <5>1. job.kind = "tags"
            BY <1>1
          <5> QED
            BY <4>1, <5>1, ParentsAreTags
        <4> QED
          BY <4>2 DEF FileParent
      <3>2. edges' = IF WouldCreateCycle(FileParent(s), c) THEN edges
                     ELSE edges \cup {<<FileParent(s), c>>}
        BY <3>1, <2>3, <2>5, <1>1
      <3>3. CASE WouldCreateCycle(FileParent(s), c)
        BY <3>2, <3>3, <2>5 DEF WouldCreateCycle
      <3> QED
        BY <3>2, <3>3, <2>5
    <2> QED
      BY <2>4, <2>5
  <1> QED
    BY <1>2, <1>9, <1>10, <1>11, <1>12, <1>13

LEMMA ImportMarkKeepsVocab ==
    ASSUME VocabInv, NEW s \in job.todo, ImportMark(s)
    PROVE  VocabInv'
  <1>1. /\ job.kind = "marks" /\ Advance(s)
        /\ UNCHANGED <<catalogue, edges, stored>>
        /\ \/ marks' = marks
           \/ /\ Row(s).entity \in stored
              /\ marks' = marks \cup ({Row(s).entity} \X ResolveTag(Row(s).tag, Row(s).type))
    BY DEF ImportMark, Importing
  <1>2. JobTyped' /\ job'.kind = "marks"
    BY <1>1, AdvanceShape DEF VocabInv, ImportIsSound
  <1>3. ImportIsSound'
    BY <1>2 DEF ImportIsSound, ImportInOrder, RowsAreTagged, LinksAreMade
  <1>4. Catalogued' /\ LinksAmongTags'
    BY <1>1 DEF VocabInv, catalogue, Catalogued, Numbered, TypesAreKnown, NamesAreUnique,
                KnownType, NameFree, LinksAmongTags
  <1>5. \A n, tn : ResolveTag(n, tn) \subseteq DOMAIN tags
    BY DEF ResolveTag
  <1>6. MarksOnStored'
    BY <1>1, <1>5 DEF VocabInv, MarksOnStored, catalogue
  <1> QED
    BY <1>3, <1>4, <1>6 DEF VocabInv

\* What leaves catalogue, hierarchy and import alone, and marks only what is stored.
LEMMA OthersKeepVocab ==
    ASSUME VocabInv, UNCHANGED <<catalogue, edges, job>>, MarksOnStored'
    PROVE  VocabInv'
  <1>1. Catalogued' /\ LinksAmongTags'
    BY DEF VocabInv, catalogue, Catalogued, Numbered, TypesAreKnown, NamesAreUnique, KnownType,
           NameFree, LinksAmongTags
  <1>2. JobTyped' /\ ImportInOrder' /\ RowsAreTagged'
    BY DEF VocabInv, ImportIsSound, JobTyped, ImportInOrder, RowsAreTagged, RowIsTagged, LinksRow,
           catalogue
  <1>3. LinksAreMade'
    <2>1. \A l : LinkIsMade(l)' = LinkIsMade(l)
      BY DEF LinkIsMade, LinksRow, FileParent, BatchRows
    <2> QED
      BY <2>1 DEF VocabInv, ImportIsSound, LinksAreMade
  <1> QED
    BY <1>1, <1>2, <1>3 DEF VocabInv, ImportIsSound
-----------------------------------------------------------------------------
(* The whole library: what is stored, who owns it and what refers to it.   *)

StoredIsKnown ==
    stored = {A(a) : a \in Accounts} \cup {P(p) : p \in {x \in Posts : postOwner[x] # None}}
             \cup {M(m) : m \in {x \in Media : mediaPost[x] # None}}
             \cup {Part(q) : q \in DOMAIN partOf}

OwnersAreLive ==
    /\ \A p \in Posts : postOwner[p] \in Live \cup {None}
    /\ \A a \in Accounts : mergedInto[a] \in Live \cup {None}

PartsAreOfMedia == \A q \in DOMAIN partOf : partOf[q] \in Media

LinksNameStored ==
    \A l \in DOMAIN links :
        /\ links[l] = [entity |-> links[l].entity, valid |-> links[l].valid]
        /\ links[l].entity \in stored \/ links[l].entity[1] = "media_part"

LibraryInv ==
    Ownership /\ VocabInv /\ StoredIsKnown /\ OwnersAreLive /\ PartsAreOfMedia /\ LinksNameStored

LEMMA InvGivesTypeOK == LibraryInv => TypeOK
  BY InvGivesVocabulary DEF LibraryInv, StoredIsKnown, OwnersAreLive, LinksNameStored, TypeOK

LEMMA InitLibrary == Init => LibraryInv
  <1> SUFFICES ASSUME Init PROVE LibraryInv
    OBVIOUS
  <1> USE LibraryAssumption
  <1>1. StoredIsKnown /\ OwnersAreLive /\ PartsAreOfMedia /\ LinksNameStored
    BY DEF Init, StoredIsKnown, OwnersAreLive, PartsAreOfMedia, LinksNameStored, Live
  <1> QED
    BY <1>1, InitOwnership, InitVocab DEF LibraryInv

LEMMA IntakeKeepsLibrary ==
    ASSUME LibraryInv, NEW c \in Captures, Intake(c)
    PROVE  LibraryInv'
  <1> USE LibraryAssumption
  <1>0. c.post \in Posts /\ c.account \in Accounts /\ c.media \subseteq Media
    OBVIOUS
  <1> DEFINE owner == IF postOwner[c.post] = None THEN Keeper(c.account) ELSE postOwner[c.post]
  <1>1. /\ stored' = stored \cup {P(c.post)} \cup {M(m) : m \in c.media}
        /\ postOwner' = [postOwner EXCEPT ![c.post] = owner]
        /\ mediaPost' = [m \in Media |-> IF m \in c.media THEN c.post ELSE mediaPost[m]]
        /\ UNCHANGED <<catalogue, edges, marks, job, partOf, mergedInto, links>>
    BY DEF Intake
  <1>2. owner \in Live /\ owner # None
    <2>1. CASE postOwner[c.post] = None
      BY <2>1, <1>0 DEF LibraryInv, OwnersAreLive, Keeper, Live
    <2>2. CASE postOwner[c.post] # None
      BY <2>2, <1>0 DEF LibraryInv, OwnersAreLive, Live
    <2> QED
      BY <2>1, <2>2
  <1> HIDE DEF owner
  <1>3. Ownership'
    BY IntakeKeepsOwnership DEF LibraryInv
  <1>4. VocabInv'
    <2>1. MarksOnStored'
      BY <1>1 DEF LibraryInv, VocabInv, MarksOnStored, catalogue
    <2> QED
      BY <1>1, <2>1, OthersKeepVocab DEF LibraryInv
  <1>5. StoredIsKnown'
    <2>1. {x \in Posts : postOwner'[x] # None} = {x \in Posts : postOwner[x] # None} \cup {c.post}
      BY <1>0, <1>1, <1>2 DEF LibraryInv, Ownership, OwnershipTyped
    <2>2. {x \in Media : mediaPost'[x] # None} = {x \in Media : mediaPost[x] # None} \cup c.media
      BY <1>0, <1>1
    <2> QED
      BY <1>1, <2>1, <2>2 DEF LibraryInv, StoredIsKnown
  <1>6. OwnersAreLive'
    BY <1>0, <1>1, <1>2 DEF LibraryInv, Ownership, OwnershipTyped, OwnersAreLive, Live
  <1>7. PartsAreOfMedia' /\ LinksNameStored'
    BY <1>1 DEF LibraryInv, PartsAreOfMedia, LinksNameStored
  <1> QED
    BY <1>3, <1>4, <1>5, <1>6, <1>7 DEF LibraryInv

\* What a merge does to the redirects: the keeper stays, the merged account leaves.
LEMMA MergeShape ==
    ASSUME LibraryInv, NEW w \in MayMerge, Merge(w[1], w[2])
    PROVE  /\ w[1] \in Accounts /\ w[2] \in Accounts /\ w[1] # w[2]
           /\ w[1] \in Live /\ w[2] \in Live
           /\ Live' = Live \ {w[2]}
           /\ mergedInto'[w[2]] = w[1]
           /\ \A a \in Accounts : a # w[2] =>
                 mergedInto'[a] = IF mergedInto[a] = w[2] THEN w[1] ELSE mergedInto[a]
           /\ \A p \in Posts : postOwner'[p] = IF postOwner[p] = w[2] THEN w[1] ELSE postOwner[p]
           /\ \A m \in Media :
                 mediaOwner'[m] = IF mediaOwner[m] = w[2] THEN w[1] ELSE mediaOwner[m]
  <1> USE LibraryAssumption
  <1>1. /\ w[1] \in Accounts /\ w[2] \in Accounts /\ w[1] # w[2]
        /\ w[1] \in Live /\ w[2] \in Live
    BY DEF Merge
  <1>2. /\ mergedInto' = [Moved(mergedInto, w[1], w[2]) EXCEPT ![w[2]] = w[1]]
        /\ postOwner' = Moved(postOwner, w[1], w[2])
        /\ mediaOwner' = Moved(mediaOwner, w[1], w[2])
    BY DEF Merge, RepointMedia
  <1>3. /\ DOMAIN mergedInto = Accounts /\ DOMAIN postOwner = Posts /\ DOMAIN mediaOwner = Media
    BY DEF LibraryInv, Ownership, OwnershipTyped
  <1>4. \A a \in Accounts :
            mergedInto'[a] = IF a = w[2] THEN w[1]
                             ELSE IF mergedInto[a] = w[2] THEN w[1] ELSE mergedInto[a]
    BY <1>1, <1>2, <1>3 DEF Moved
  <1>5. Live' = Live \ {w[2]}
    BY <1>1, <1>4 DEF Live
  <1> QED
    BY <1>1, <1>2, <1>3, <1>4, <1>5 DEF Moved

LEMMA MergeKeepsLibrary ==
    ASSUME LibraryInv, NEW w \in MayMerge, Merge(w[1], w[2])
    PROVE  LibraryInv'
  <1> USE LibraryAssumption
  <1> DEFINE k == w[1]
             g == w[2]
  <1>1. /\ k \in Accounts /\ g \in Accounts /\ k # g /\ k \in Live /\ g \in Live
        /\ Live' = Live \ {g}
        /\ mergedInto'[g] = k
        /\ \A a \in Accounts : a # g =>
              mergedInto'[a] = IF mergedInto[a] = g THEN k ELSE mergedInto[a]
        /\ \A p \in Posts : postOwner'[p] = IF postOwner[p] = g THEN k ELSE postOwner[p]
    BY MergeShape
  <1>2. /\ marks' = RepointMarks(k, g)
        /\ links' = RepointLinks(k, g)
        /\ UNCHANGED <<catalogue, edges, stored, job, mediaPost, partOf>>
    BY DEF Merge
  <1> HIDE DEF k, g
  <1>3. Ownership'
    BY <1>1, MergeKeepsOwnership DEF LibraryInv, k, g
  <1>4. A(k) \in stored
    BY <1>1 DEF LibraryInv, StoredIsKnown
  <1>5. VocabInv'
    <2>1. MarksOnStored'
      BY <1>2, <1>4 DEF LibraryInv, VocabInv, MarksOnStored, catalogue, RepointMarks
    <2> QED
      BY <1>2, <2>1, OthersKeepVocab DEF LibraryInv
  <1>6. StoredIsKnown'
    <2>1. {x \in Posts : postOwner'[x] # None} = {x \in Posts : postOwner[x] # None}
      BY <1>1
    <2> QED
      BY <1>2, <2>1 DEF LibraryInv, StoredIsKnown
  <1>7. OwnersAreLive'
    <2>1. \A p \in Posts : postOwner'[p] \in Live' \cup {None}
      BY <1>1 DEF LibraryInv, OwnersAreLive
    <2>2. \A a \in Accounts : mergedInto'[a] \in Live' \cup {None}
      BY <1>1 DEF LibraryInv, OwnersAreLive
    <2> QED
      BY <2>1, <2>2 DEF OwnersAreLive
  <1>8. PartsAreOfMedia'
    BY <1>2 DEF LibraryInv, PartsAreOfMedia
  <1>9. LinksNameStored'
    BY <1>2, <1>4 DEF LibraryInv, LinksNameStored, RepointLinks
  <1> QED
    BY <1>3, <1>5, <1>6, <1>7, <1>8, <1>9 DEF LibraryInv

LEMMA PartRequestKeepsLibrary ==
    ASSUME LibraryInv, NEW q \in PartIds,
           (\E m \in Media : InsertMediaPart(q, m) \/ UpdateMediaPart(q, m)) \/ DeleteMediaPart(q)
    PROVE  LibraryInv'
  <1>1. UNCHANGED <<catalogue, edges, marks, job, content, links>>
    BY DEF InsertMediaPart, UpdateMediaPart, DeleteMediaPart, PartRequest
  <1>2. /\ \/ UNCHANGED stored
           \/ stored' = stored \cup {Part(q)}
           \/ stored' = stored \ {Part(q)} /\ \A k \in marks : k[1] # Part(q)
    BY DEF InsertMediaPart, UpdateMediaPart, DeleteMediaPart
  <1>3. Ownership'
    BY <1>1, <1>2, RequestKeepsOwnership DEF LibraryInv
  <1>4. VocabInv'
    <2>1. MarksOnStored'
      BY <1>1, <1>2 DEF LibraryInv, VocabInv, MarksOnStored, catalogue
    <2> QED
      BY <1>1, <2>1, OthersKeepVocab DEF LibraryInv
  <1>5. \/ stored' = stored \cup {Part(q)} /\ DOMAIN partOf' = DOMAIN partOf \cup {q}
        \/ stored' = stored /\ DOMAIN partOf' = DOMAIN partOf
        \/ stored' = stored \ {Part(q)} /\ DOMAIN partOf' = DOMAIN partOf \ {q}
    BY DEF InsertMediaPart, UpdateMediaPart, DeleteMediaPart, Put, Without
  <1>6. StoredIsKnown'
    <2> DEFINE Rest == {A(a) : a \in Accounts} \cup {P(p) : p \in {x \in Posts : postOwner[x] # None}}
                       \cup {M(m) : m \in {x \in Media : mediaPost[x] # None}}
    <2>1. Part(q) \notin Rest
      BY DEF A, P, M, Part
    <2>2. \A r : Part(r) = Part(q) => r = q
      BY DEF Part
    <2>3. Rest' = Rest
      BY <1>1 DEF content
    <2>4. stored = Rest \cup {Part(r) : r \in DOMAIN partOf}
      BY DEF LibraryInv, StoredIsKnown
    <2> HIDE DEF Rest
    <2>5. stored' = Rest \cup {Part(r) : r \in DOMAIN partOf'}
      BY <1>5, <2>1, <2>2, <2>4
    <2> USE DEF Rest
    <2> QED
      BY <2>3, <2>5 DEF StoredIsKnown
  <1>7. PartsAreOfMedia'
    BY DEF LibraryInv, PartsAreOfMedia, InsertMediaPart, UpdateMediaPart, DeleteMediaPart, Put,
           Without
  <1>8. OwnersAreLive'
    BY <1>1 DEF LibraryInv, OwnersAreLive, Live, content
  <1>9. LinksNameStored'
    BY <1>1, <1>2 DEF LibraryInv, LinksNameStored, Part
  <1> QED
    BY <1>3, <1>4, <1>6, <1>7, <1>8, <1>9 DEF LibraryInv

LEMMA LinkRequestKeepsLibrary ==
    ASSUME LibraryInv, NEW e \in stored,
           NewShareLink(e) \/ \E v \in BOOLEAN : PatchShareLinkValidity(e, v)
    PROVE  LibraryInv'
  <1>1. UNCHANGED <<catalogue, edges, marks, stored, job, content, partOf>>
    BY DEF NewShareLink, PatchShareLinkValidity, LinkRequest
  <1>2. Ownership'
    BY <1>1, RequestKeepsOwnership DEF LibraryInv
  <1>3. VocabInv'
    BY <1>1, OthersKeepVocab DEF LibraryInv, VocabInv, MarksOnStored, catalogue
  <1>4. StoredIsKnown' /\ OwnersAreLive' /\ PartsAreOfMedia'
    BY <1>1 DEF LibraryInv, StoredIsKnown, OwnersAreLive, PartsAreOfMedia, Live, content
  <1>5. ASSUME NewShareLink(e)
        PROVE  LinksNameStored'
    <2>1. PICK n : links' = Put(links, n, [entity |-> e, valid |-> TRUE])
      BY <1>5 DEF NewShareLink
    <2>2. /\ DOMAIN links' = DOMAIN links \cup {n}
          /\ links'[n] = [entity |-> e, valid |-> TRUE]
          /\ \A l \in DOMAIN links \ {n} : links'[l] = links[l]
      BY <2>1 DEF Put
    <2>3. \A l \in DOMAIN links : links[l].entity \in stored' \/ links[l].entity[1] = "media_part"
      BY <1>1 DEF LibraryInv, LinksNameStored
    <2> QED
      BY <1>1, <2>2, <2>3 DEF LibraryInv, LinksNameStored
  <1>6. ASSUME NEW v \in BOOLEAN, PatchShareLinkValidity(e, v)
        PROVE  LinksNameStored'
    <2> DEFINE young == LastOf(LinksOf(e))
    <2>1. links' = [links EXCEPT ![young].valid = v]
      BY <1>6 DEF PatchShareLinkValidity
    <2> HIDE DEF young
    <2>2. \A l \in DOMAIN links :
              links[l] = [entity |-> links[l].entity, valid |-> links[l].valid]
      BY DEF LibraryInv, LinksNameStored
    <2>3. /\ DOMAIN links' = DOMAIN links
          /\ \A l \in DOMAIN links :
                links'[l] = [entity |-> links[l].entity,
                             valid |-> IF l = young THEN v ELSE links[l].valid]
      BY <2>1, <2>2
    <2> QED
      BY <1>1, <2>3 DEF LibraryInv, LinksNameStored
  <1> QED
    BY <1>2, <1>3, <1>4, <1>5, <1>6 DEF LibraryInv

\* Edits of the vocabulary touch nothing else.
LEMMA VocabularyKeepsLibrary ==
    ASSUME LibraryInv, VocabInv', UNCHANGED <<content, partOf, links, stored>>
    PROVE  LibraryInv'
  <1>1. Ownership'
    BY RequestKeepsOwnership DEF LibraryInv
  <1>2. StoredIsKnown' /\ OwnersAreLive' /\ PartsAreOfMedia' /\ LinksNameStored'
    BY DEF LibraryInv, StoredIsKnown, OwnersAreLive, PartsAreOfMedia, LinksNameStored, Live,
           content
  <1> QED
    BY <1>1, <1>2 DEF LibraryInv
\* The steps of the vocabulary, of which each leaves its invariant as it was.
LEMMA VocabularyStep ==
    ASSUME VocabInv,
           \/ \E n \in HandNames, a \in Affinities : PostTagType(n, a)
           \/ \E ty \in DOMAIN types, n \in HandNames, a \in Affinities : PutTagType(ty, n, a)
           \/ \E ty \in DOMAIN types : DelTagType(ty)
           \/ \E n \in HandNames, ty \in DOMAIN types \cup {None} : PostTag(n, ty)
           \/ \E t \in DOMAIN tags, n \in HandNames, ty \in DOMAIN types \cup {None} : PutTag(t, n, ty)
           \/ \E t \in DOMAIN tags : DelTag(t)
           \/ \E p, c \in DOMAIN tags : PostHierarchy(p, c)
           \/ \E e \in edges : DelHierarchy(e)
           \/ \E kind \in {"account", "post", "media"}, ts \in SUBSET TagIds :
                 AnnotateBatch(kind, {e \in stored : e[1] = kind}, ts)
           \/ \E e \in stored, ts \in SUBSET DOMAIN tags : AnnotateEntity(e, ts)
           \/ \E k \in marks : RemoveEntityTag(k)
           \/ \E b \in TagBatches, create \in BOOLEAN : StartTagImport(b, create)
           \/ \E b \in MarkBatches : StartMarkImport(b)
           \/ \E s \in job.todo : ImportTagRow(s) \/ ImportLink(s) \/ ImportMark(s)
           \/ ImportAborts \/ ImportEnds
    PROVE  VocabInv' /\ UNCHANGED stored
  <1>1. VocabInv'
    BY CatalogueRequestKeepsVocab, DelTagKeepsVocab, LinkAndMarkRequestsKeepVocab,
       StartAndEndKeepVocab, ImportTagRowKeepsVocab, ImportLinkKeepsVocab, ImportMarkKeepsVocab
  <1>2. UNCHANGED stored
    BY DEF PostTagType, PutTagType, DelTagType, PostTag, PutTag, DelTag, PostHierarchy,
           DelHierarchy, AnnotateBatch, AnnotateEntity, RemoveEntityTag, Edit, StartTagImport,
           StartMarkImport, StartImport, ImportTagRow, ImportLink, ImportMark, ImportAborts,
           ImportEnds
  <1> QED
    BY <1>1, <1>2

LEMMA LibraryStep ==
    ASSUME LibraryInv, [Next]_vars
    PROVE  LibraryInv'
  <1>1. ASSUME NEW c \in Captures, Intake(c)
        PROVE  LibraryInv'
    BY <1>1, IntakeKeepsLibrary
  <1>2. ASSUME NEW w \in MayMerge, Merge(w[1], w[2])
        PROVE  LibraryInv'
    BY <1>2, MergeKeepsLibrary
  <1>3. ASSUME NEW q \in PartIds,
               \/ \E m \in Media : InsertMediaPart(q, m) \/ UpdateMediaPart(q, m)
               \/ DeleteMediaPart(q)
        PROVE  LibraryInv'
    BY <1>3, PartRequestKeepsLibrary
  <1>4. ASSUME NEW e \in stored, NewShareLink(e) \/ \E v \in BOOLEAN : PatchShareLinkValidity(e, v)
        PROVE  LibraryInv'
    BY <1>4, LinkRequestKeepsLibrary
  <1>5. CASE UNCHANGED vars
    <2>1. UNCHANGED <<content, partOf, links, stored, catalogue, edges, job, marks>>
      BY <1>5 DEF vars, vocabVars, catalogue
    <2>2. MarksOnStored'
      BY <2>1 DEF LibraryInv, VocabInv, MarksOnStored, catalogue
    <2>3. VocabInv'
      BY <2>1, <2>2, OthersKeepVocab DEF LibraryInv
    <2> QED
      BY <2>1, <2>3, VocabularyKeepsLibrary
  <1>6. CASE Next
    <2>1. VocabInv
      BY DEF LibraryInv
    <2> QED
      BY <1>6, <1>1, <1>2, <1>3, <1>4, <2>1, VocabularyStep, VocabularyKeepsLibrary DEF Next
  <1> QED
    BY <1>5, <1>6

\* Only a merge moves a redirect.
LEMMA OnlyMergesRedirect ==
    ASSUME [Next]_vars
    PROVE  UNCHANGED mergedInto \/ \E w \in MayMerge : Merge(w[1], w[2])
  <1>1. CASE UNCHANGED vars
    BY <1>1 DEF vars, content
  <1>2. CASE Next
    <2>1. ASSUME UNCHANGED <<content, partOf, links>>
          PROVE  UNCHANGED mergedInto
      BY <2>1 DEF content
    <2>2. ASSUME NEW c \in Captures, Intake(c)
          PROVE  UNCHANGED mergedInto
      BY <2>2 DEF Intake
    <2>3. ASSUME \/ \E q \in PartIds, m \in Media : InsertMediaPart(q, m) \/ UpdateMediaPart(q, m)
                 \/ \E q \in PartIds : DeleteMediaPart(q)
                 \/ \E e \in stored : NewShareLink(e)
                 \/ \E e \in stored, v \in BOOLEAN : PatchShareLinkValidity(e, v)
          PROVE  UNCHANGED mergedInto
      BY <2>3 DEF InsertMediaPart, UpdateMediaPart, DeleteMediaPart, NewShareLink,
                  PatchShareLinkValidity, PartRequest, LinkRequest, content
    <2> QED
      BY <1>2, <2>1, <2>2, <2>3 DEF Next
  <1> QED
    BY <1>1, <1>2

\* Only DELETE of a tag takes one away.
LEMMA OnlyDeletionsRemoveTags ==
    ASSUME [Next]_vars
    PROVE  \/ DOMAIN tags \subseteq DOMAIN tags'
           \/ UNCHANGED <<content, partOf, edges, marks>>
  <1>1. CASE UNCHANGED vars
    BY <1>1 DEF vars, vocabVars
  <1>2. ASSUME NEW t, DelTag(t)
        PROVE  UNCHANGED <<edges, marks>>
    BY <1>2 DEF DelTag
  <1>3. ASSUME \/ \E n, a : PostTagType(n, a)
               \/ \E ty, n, a : PutTagType(ty, n, a)
               \/ \E ty : DelTagType(ty)
               \/ \E n, ty : PostTag(n, ty)
               \/ \E t, n, ty : PutTag(t, n, ty)
               \/ \E p, c : PostHierarchy(p, c)
               \/ \E e : DelHierarchy(e)
        PROVE  DOMAIN tags \subseteq DOMAIN tags'
    BY <1>3 DEF PostTagType, PutTagType, DelTagType, PostTag, PutTag, PostHierarchy,
                DelHierarchy, catalogue, Put
  <1>4. ASSUME \/ \E kind, es, ts : AnnotateBatch(kind, es, ts)
               \/ \E e, ts : AnnotateEntity(e, ts)
               \/ \E k : RemoveEntityTag(k)
               \/ \E b, create : StartTagImport(b, create)
               \/ \E b : StartMarkImport(b)
               \/ \E s : ImportLink(s) \/ ImportMark(s)
               \/ ImportAborts \/ ImportEnds
        PROVE  DOMAIN tags \subseteq DOMAIN tags'
    BY <1>4 DEF AnnotateBatch, AnnotateEntity, RemoveEntityTag, StartTagImport, StartMarkImport,
                StartImport, ImportLink, ImportMark, ImportAborts, ImportEnds, catalogue
  <1>5. ASSUME NEW s, ImportTagRow(s)
        PROVE  DOMAIN tags \subseteq DOMAIN tags'
    BY <1>5 DEF ImportTagRow, UpsertTag, catalogue, Put
  <1>6. ASSUME \/ \E c \in Captures : Intake(c)
               \/ \E w \in MayMerge : Merge(w[1], w[2])
               \/ \E q \in PartIds, m \in Media : InsertMediaPart(q, m) \/ UpdateMediaPart(q, m)
               \/ \E q \in PartIds : DeleteMediaPart(q)
               \/ \E e \in stored : NewShareLink(e)
               \/ \E e \in stored, v \in BOOLEAN : PatchShareLinkValidity(e, v)
        PROVE  DOMAIN tags \subseteq DOMAIN tags'
    BY <1>6 DEF Intake, Merge, InsertMediaPart, UpdateMediaPart, DeleteMediaPart, NewShareLink,
                PatchShareLinkValidity, PartRequest, LinkRequest, catalogue
  <1>7. CASE Next
    BY <1>7, <1>2, <1>3, <1>4, <1>5, <1>6 DEF Next
  <1> QED
    BY <1>1, <1>7
\* While an import runs, only its rows add to the catalogue: every request waits.
LEMMA OnlyRowsAdd ==
    ASSUME [Next]_vars, job.kind = "tags"
    PROVE  UNCHANGED <<types, tags>> \/ \E s \in job.todo : ImportTagRow(s)
  <1> USE DEF Request, Edit, NoJob, catalogue
  <1>1. CASE UNCHANGED vars
    BY <1>1 DEF vars, vocabVars
  <1>2. ASSUME \/ \E n, a : PostTagType(n, a)
               \/ \E ty, n, a : PutTagType(ty, n, a)
               \/ \E ty : DelTagType(ty)
               \/ \E n, ty : PostTag(n, ty)
               \/ \E t, n, ty : PutTag(t, n, ty)
               \/ \E t : DelTag(t)
               \/ \E p, c : PostHierarchy(p, c)
               \/ \E e : DelHierarchy(e)
        PROVE  FALSE
    <2>1. job = NoJob
      BY <1>2 DEF PostTagType, PutTagType, DelTagType, PostTag, PutTag, DelTag, PostHierarchy,
                  DelHierarchy
    <2> QED
      BY <2>1
  <1>3. ASSUME \/ \E kind, es, ts : AnnotateBatch(kind, es, ts)
               \/ \E e, ts : AnnotateEntity(e, ts)
               \/ \E k : RemoveEntityTag(k)
               \/ \E b, create : StartTagImport(b, create)
               \/ \E b : StartMarkImport(b)
               \/ \E s : ImportLink(s) \/ ImportMark(s)
               \/ ImportAborts \/ ImportEnds
        PROVE  UNCHANGED <<types, tags>>
    BY <1>3 DEF AnnotateBatch, AnnotateEntity, RemoveEntityTag, StartTagImport, StartMarkImport,
                StartImport, ImportLink, ImportMark, ImportAborts, ImportEnds
  <1>4. ASSUME \/ \E c \in Captures : Intake(c)
               \/ \E w \in MayMerge : Merge(w[1], w[2])
               \/ \E q \in PartIds, m \in Media : InsertMediaPart(q, m) \/ UpdateMediaPart(q, m)
               \/ \E q \in PartIds : DeleteMediaPart(q)
               \/ \E e \in stored : NewShareLink(e)
               \/ \E e \in stored, v \in BOOLEAN : PatchShareLinkValidity(e, v)
        PROVE  UNCHANGED <<types, tags>>
    BY <1>4 DEF Intake, Merge, InsertMediaPart, UpdateMediaPart, DeleteMediaPart, NewShareLink,
                PatchShareLinkValidity, PartRequest, LinkRequest
  <1>5. CASE Next
    BY <1>5, <1>2, <1>3, <1>4 DEF Next
  <1> QED
    BY <1>1, <1>5

\* A row makes a tag, or a type, only after it has looked for one of that name.
LEMMA RowsAddNew ==
    ASSUME Catalogued, NEW s \in job.todo, ImportTagRow(s)
    PROVE  ImportAddsNew
  <1>1. ASSUME NEW ty, UpsertTag(s, ty)
        PROVE  \A t \in DOMAIN tags' \ DOMAIN tags, u \in DOMAIN tags :
                  tags[u].type = tags'[t].type => Fold[tags[u].name] # Fold[tags'[t].name]
    BY <1>1 DEF UpsertTag, TagsNamed, Put
  <1>2. ASSUME NEW ty \in RowTypes(Row(s).type), ~ KnownType(ty),
               types' = Put(types, ty, [name |-> Row(s).type, affinity |-> None])
        PROVE  \A new \in DOMAIN types' \ DOMAIN types, o \in DOMAIN types :
                  Fold[types[o].name] # Fold[types'[new].name]
    <2>1. TypesNamed(Row(s).type) = {}
      BY <1>2 DEF RowTypes, TypesNamed, KnownType
    <2> QED
      BY <1>2, <2>1 DEF TypesNamed, Put
  <1>3. CASE UNCHANGED catalogue
    BY <1>3 DEF catalogue, ImportAddsNew
  <1>4. ASSUME NEW ty \in RowTypes(Row(s).type), UpsertTag(s, ty),
               IF KnownType(ty) THEN UNCHANGED <<types, lastType>>
               ELSE /\ types' = Put(types, ty, [name |-> Row(s).type, affinity |-> None])
                    /\ lastType' = ty
        PROVE  ImportAddsNew
    <2>1. CASE KnownType(ty)
      BY <1>1, <1>4, <2>1 DEF ImportAddsNew
    <2>2. CASE ~ KnownType(ty)
      BY <1>1, <1>2, <1>4, <2>2 DEF ImportAddsNew
    <2> QED
      BY <2>1, <2>2
  <1> QED
    BY <1>3, <1>4 DEF ImportTagRow

\* Every import that runs to its end has delivered its file, and none ever adds a second tag or
\* type of a name, however often one broke off before, whatever the file holds.
THEOREM ImportsAreExact == Spec => ImportIsExact
  <1>1. LibraryInv /\ [Next]_vars => LibraryInv'
    BY LibraryStep
  <1>2. LibraryInv => ImportDelivers
    BY InvGivesDelivery DEF LibraryInv
  <1>3. LibraryInv /\ [Next]_vars => [ImportAddsNew]_vocabVars
    <2> SUFFICES ASSUME LibraryInv, [Next]_vars, job.kind = "tags"
                 PROVE  ImportAddsNew
      BY DEF ImportAddsNew
    <2>1. CASE UNCHANGED <<types, tags>>
      BY <2>1 DEF ImportAddsNew
    <2>2. ASSUME NEW s \in job.todo, ImportTagRow(s)
          PROVE  ImportAddsNew
      BY <2>2, RowsAddNew DEF LibraryInv, VocabInv
    <2> QED
      BY <2>1, <2>2, OnlyRowsAdd
  <1> QED
    BY InitLibrary, <1>1, <1>2, <1>3, PTL DEF Spec, ImportIsExact, ImportNeverDuplicates
-----------------------------------------------------------------------------
(* What the readers find.                                                  *)

Kinds == {"account", "post", "media"}

\* The entities of each kind that may carry a mark.
RowsOf(kind) == CASE kind = "account" -> Accounts [] kind = "post" -> Posts [] kind = "media" -> Media

LEMMA DirectAreRows ==
    ASSUME LibraryInv, NEW kind \in Kinds, NEW t
    PROVE  /\ Direct(kind, t) \subseteq RowsOf(kind)
           /\ \A x \in Direct(kind, t) :
                 \E n \in Descendants(edges, t) : <<<<kind, x>>, n>> \in marks
  <1> SUFFICES ASSUME NEW x \in Direct(kind, t)
               PROVE  /\ x \in RowsOf(kind)
                      /\ \E n \in Descendants(edges, t) : <<<<kind, x>>, n>> \in marks
    OBVIOUS
  <1>1. PICK k \in marks : k[2] \in Descendants(edges, t) /\ k[1][1] = kind /\ k[1][2] = x
    BY DEF Direct, Carriers
  <1>2. k[1] \in stored /\ k = <<k[1], k[2]>>
    BY DEF LibraryInv, VocabInv, MarksOnStored
  <1>3. k[1] = <<kind, x>> /\ x \in RowsOf(kind)
    BY <1>1, <1>2 DEF LibraryInv, StoredIsKnown, Kinds, RowsOf, A, P, M, Part
  <1> QED
    BY <1>1, <1>2, <1>3

\* What all of a family of sets have in common.
LEMMA InAllOfThem ==
    ASSUME NEW ts, NEW f, NEW x
    PROVE  x \in {y \in UNION {f[t] : t \in ts} : \A h \in {f[t] : t \in ts} : y \in h} <=>
               ts # {} /\ \A t \in ts : x \in f[t]
  OBVIOUS

\* With one scope and every tag asked for, the filter is the intersection of its branches.
LEMMA FilterMeaning ==
    ASSUME NEW kind \in Kinds, NEW scope \in Kinds, NEW ts
    PROVE  /\ \A x : x \in TagFilter(kind, ts, "all", {scope}) <=>
                        ts # {} /\ \A t \in ts : x \in Branch(kind, scope, t)
           /\ \A x : x \in TagFilter(kind, ts, "all", {scope})' <=>
                        ts # {} /\ \A t \in ts : x \in Branch(kind, scope, t)'
  <1>1. {scope} \cap AllowedScopes[kind] = {scope}
    BY DEF Kinds, AllowedScopes
  <1>2. \A x : x \in TagFilter(kind, ts, "all", {scope}) <=>
                   ts # {} /\ \A t \in ts : x \in Branch(kind, scope, t)
    <2> DEFINE hits == {UNION {Branch(kind, s, t) : s \in {scope}} : t \in ts}
    <2>1. TagFilter(kind, ts, "all", {scope}) = {x \in UNION hits : \A h \in hits : x \in h}
      BY <1>1 DEF TagFilter
    <2> DEFINE f == [t \in ts |-> Branch(kind, scope, t)]
    <2>2. hits = {f[t] : t \in ts}
      OBVIOUS
    <2>3. \A t \in ts : f[t] = Branch(kind, scope, t)
      OBVIOUS
    <2> HIDE DEF hits, f
    <2>4. ASSUME NEW x
          PROVE  x \in TagFilter(kind, ts, "all", {scope}) <=>
                     ts # {} /\ \A t \in ts : x \in f[t]
      BY <2>1, <2>2, InAllOfThem
    <2> QED
      BY <2>3, <2>4
  <1>3. \A x : x \in TagFilter(kind, ts, "all", {scope})' <=>
                   ts # {} /\ \A t \in ts : x \in Branch(kind, scope, t)'
    <2> DEFINE hits == {UNION {Branch(kind, s, t)' : s \in {scope}} : t \in ts}
    <2>1. TagFilter(kind, ts, "all", {scope})' = {x \in UNION hits : \A h \in hits : x \in h}
      BY <1>1 DEF TagFilter
    <2> DEFINE f == [t \in ts |-> Branch(kind, scope, t)']
    <2>2. hits = {f[t] : t \in ts}
      OBVIOUS
    <2>3. \A t \in ts : f[t] = Branch(kind, scope, t)'
      OBVIOUS
    <2> HIDE DEF hits, f
    <2>4. ASSUME NEW x
          PROVE  x \in TagFilter(kind, ts, "all", {scope})' <=>
                     ts # {} /\ \A t \in ts : x \in f[t]
      BY <2>1, <2>2, InAllOfThem
    <2> QED
      BY <2>3, <2>4
  <1> QED
    BY <1>2, <1>3

\* Where a merge takes the rows of a kind.
To(w, kind, x) == IF kind = "account" /\ x = w[2] THEN w[1] ELSE x

\* A merge moves the marks of an account to its keeper and leaves the others.
LEMMA MergeMovesDirect ==
    ASSUME LibraryInv, NEW w \in MayMerge, Merge(w[1], w[2]), NEW kind \in Kinds, NEW t,
           NEW x \in Direct(kind, t)
    PROVE  To(w, kind, x) \in Direct(kind, t)'
  <1>1. PICK n \in Descendants(edges, t) : <<<<kind, x>>, n>> \in marks
    BY DirectAreRows
  <1>2. edges' = edges /\ marks' = RepointMarks(w[1], w[2])
    BY DEF Merge
  <1>3. <<<<kind, To(w, kind, x)>>, n>> \in marks'
    <2> DEFINE k == <<<<kind, x>>, n>>
    <2>1. (IF k[1] = A(w[2]) THEN <<A(w[1]), k[2]>> ELSE k) \in marks'
      BY <1>1, <1>2 DEF RepointMarks
    <2>2. k[1] = A(w[2]) <=> kind = "account" /\ x = w[2]
      BY DEF A
    <2> QED
      BY <2>1, <2>2 DEF To, A
  <1>4. <<<<kind, To(w, kind, x)>>, n>> \in Carriers(t)'
    BY <1>1, <1>2, <1>3 DEF Carriers
  <1> QED
    BY <1>4 DEF Direct

\* Each way from the tagged entities to the entities searched leads to the same place again.
LEMMA MergeMovesBranch ==
    ASSUME LibraryInv, NEW w \in MayMerge, Merge(w[1], w[2]),
           NEW kind \in Kinds, NEW scope \in Kinds, NEW t, NEW x \in Branch(kind, scope, t)
    PROVE  To(w, kind, x) \in Branch(kind, scope, t)'
  <1> USE LibraryAssumption
  <1> DEFINE To2(y) == To(w, "account", y)
  <1>1. /\ mediaPost' = mediaPost
        /\ \A p \in Posts : postOwner'[p] = To2(postOwner[p])
        /\ \A m \in Media : mediaOwner'[m] = To2(mediaOwner[m])
        /\ \A y : y # None => To2(y) # None
    BY MergeShape DEF Merge, To
  <1>2. \A s \in Kinds : /\ \A y \in Direct(s, t) : To(w, s, y) \in Direct(s, t)'
                         /\ Direct(s, t) \subseteq RowsOf(s)
    BY MergeMovesDirect, DirectAreRows
  <1>3. \A s \in {"post", "media"} : \A y : To(w, s, y) = y
    BY DEF To
  <1>4. CASE kind = scope
    BY <1>2, <1>4 DEF Branch
  <1>5. CASE kind = "account" /\ scope = "post"
    <2>1. PICK p \in Direct("post", t) : x = postOwner[p] /\ x # None
      BY <1>5 DEF Branch
    <2>2. p \in Direct("post", t)' /\ p \in Posts
      BY <1>2, <1>3 DEF Kinds, RowsOf
    <2> QED
      BY <2>1, <2>2, <1>1, <1>5 DEF Branch
  <1>6. CASE kind = "account" /\ scope = "media"
    <2>1. PICK m \in Direct("media", t) : x = mediaOwner[m] /\ x # None
      BY <1>6 DEF Branch
    <2>2. m \in Direct("media", t)' /\ m \in Media
      BY <1>2, <1>3 DEF Kinds, RowsOf
    <2> QED
      BY <2>1, <2>2, <1>1, <1>6 DEF Branch
  <1>7. CASE kind = "post" /\ scope = "media"
    <2>1. PICK m \in Direct("media", t) : x = mediaPost[m] /\ x # None
      BY <1>7 DEF Branch
    <2>2. m \in Direct("media", t)'
      BY <1>2, <1>3 DEF Kinds
    <2> QED
      BY <2>1, <2>2, <1>1, <1>3, <1>7 DEF Branch
  <1>8. CASE kind = "post" /\ scope = "account"
    <2>1. x \in Posts /\ postOwner[x] \in Direct("account", t)
      BY <1>8 DEF Branch
    <2>2. postOwner'[x] \in Direct("account", t)'
      BY <2>1, <1>1, <1>2 DEF Kinds
    <2> QED
      BY <2>1, <2>2, <1>3, <1>8 DEF Branch
  <1>9. CASE kind = "media" /\ scope = "post"
    <2>1. x \in Media /\ mediaPost[x] \in Direct("post", t)
      BY <1>9 DEF Branch
    <2>2. mediaPost'[x] \in Direct("post", t)'
      BY <2>1, <1>1, <1>2, <1>3 DEF Kinds
    <2> QED
      BY <2>1, <2>2, <1>3, <1>9 DEF Branch
  <1>10. CASE kind = "media" /\ scope = "account"
    <2>1. x \in Media /\ mediaOwner[x] \in Direct("account", t)
      BY <1>10 DEF Branch
    <2>2. mediaOwner'[x] \in Direct("account", t)'
      BY <2>1, <1>1, <1>2 DEF Kinds
    <2> QED
      BY <2>1, <2>2, <1>3, <1>10 DEF Branch
  <1> QED
    BY <1>4, <1>5, <1>6, <1>7, <1>8, <1>9, <1>10 DEF Kinds

LEMMA MergeIsFoundAgain ==
    ASSUME LibraryInv, NEW w \in MayMerge, Merge(w[1], w[2]),
           NEW kind \in Kinds, NEW scope \in Kinds, NEW ts,
           NEW x \in Search(kind, ts, "all", {scope})
    PROVE  To(w, kind, x) \in Search(kind, ts, "all", {scope})'
  <1> DEFINE found == TagFilter(kind, ts, "all", {scope})
  <1>1. x \in found
    BY DEF Search, ListedAccounts, ListedPosts, ListedMedia, Kinds
  <1>2. To(w, kind, x) \in TagFilter(kind, ts, "all", {scope})'
    <2>1. ts # {} /\ \A t \in ts : x \in Branch(kind, scope, t)
      BY <1>1, FilterMeaning
    <2>2. \A t \in ts : To(w, kind, x) \in Branch(kind, scope, t)'
      BY <2>1, MergeMovesBranch
    <2> QED
      BY <2>1, <2>2, FilterMeaning
  <1>3. CASE kind = "account"
    <2>1. x \in Live
      BY <1>3 DEF Search, ListedAccounts
    <2>2. To(w, kind, x) \in Live'
      BY <2>1, <1>3, MergeShape DEF To
    <2> QED
      BY <2>2, <1>2, <1>3 DEF Search, ListedAccounts
  <1>4. CASE kind = "post"
    BY <1>2, <1>4 DEF Search, ListedPosts
  <1>5. CASE kind = "media"
    <2>1. x \in LocalMedia /\ To(w, kind, x) = x
      BY <1>5 DEF Search, ListedMedia, To
    <2> QED
      BY <2>1, <1>2, <1>5 DEF Search, ListedMedia
  <1> QED
    BY <1>3, <1>4, <1>5 DEF Kinds

\* Searching for one tag on entities of a kind by their own tags finds the entities that carry
\* it or one below it.
LEMMA OwnTagFilter ==
    ASSUME NEW kind \in Kinds \cup {"media_part"}, NEW t
    PROVE  /\ TagFilter(kind, {t}, "any", {kind}) = Direct(kind, t)
           /\ TagFilter(kind, {t}, "any", {kind})' = Direct(kind, t)'
  <1>1. {kind} \cap AllowedScopes[kind] = {kind}
    BY DEF Kinds, AllowedScopes
  <1>2. Branch(kind, kind, t) = Direct(kind, t) /\ Branch(kind, kind, t)' = Direct(kind, t)'
    BY DEF Branch
  <1>3. TagFilter(kind, {t}, "any", {kind}) = Branch(kind, kind, t)
    BY <1>1 DEF TagFilter
  <1>4. TagFilter(kind, {t}, "any", {kind})' = Branch(kind, kind, t)'
    BY <1>1 DEF TagFilter
  <1> QED
    BY <1>2, <1>3, <1>4

\* Such a search reads hierarchy, marks, owners and parts, and not the tags' own rows.
LEMMA SearchReads ==
    ASSUME UNCHANGED <<content, partOf, edges, marks>>,
           NEW kind \in Kinds \cup {"media_part"}, NEW t
    PROVE  Search(kind, {t}, "any", {kind})' = Search(kind, {t}, "any", {kind})
  <1>1. Carriers(t)' = Carriers(t)
    BY DEF Carriers
  <1>2. Direct(kind, t)' = Direct(kind, t)
    BY <1>1 DEF Direct
  <1>3. TagFilter(kind, {t}, "any", {kind})' = TagFilter(kind, {t}, "any", {kind})
    BY <1>2, OwnTagFilter
  <1>4. Live' = Live
    BY DEF Live, content
  <1> QED
    BY <1>3, <1>4 DEF Search, ListedAccounts, ListedPosts, ListedMedia, ListedParts, Kinds
\* The post by which an entity below an account is reached.
PostOf(r) == IF r[1] = "post" THEN r[2]
             ELSE mediaPost[IF r[1] = "media_part" THEN partOf[r[2]] ELSE r[2]]

LEMMA PostOfStored ==
    ASSUME LibraryInv, NEW r \in stored, r[1] # "account"
    PROVE  PostOf(r) \in Posts \cup {None}
  <1>1. \A m \in Media : mediaPost[m] \in Posts \cup {None}
    BY DEF LibraryInv, Ownership, OwnershipTyped
  <1>2. \/ \E p \in Posts : r = P(p)
        \/ \E m \in Media : r = M(m)
        \/ \E q \in DOMAIN partOf : r = Part(q)
    BY DEF LibraryInv, StoredIsKnown, A
  <1> QED
    BY <1>1, <1>2 DEF LibraryInv, PartsAreOfMedia, PostOf, P, M, Part

\* What a link to an account or below it shows goes with the account into the merge.
LEMMA MergeIsShownAgain ==
    ASSUME LibraryInv, NEW w \in MayMerge, Merge(w[1], w[2]),
           NEW l \in DOMAIN links, NEW r \in Visible(l), r[1] # "account"
    PROVE  r \in Visible(l)'
  <1> USE LibraryAssumption
  <1> DEFINE e == links[l].entity
  <1>1. /\ links[l].valid /\ r \in stored /\ Shows(e, r)
    BY DEF Visible
  <1>2. /\ links' = RepointLinks(w[1], w[2])
        /\ UNCHANGED <<stored, mediaPost, partOf>>
    BY DEF Merge
  <1>3. /\ links[l] = [entity |-> e, valid |-> links[l].valid]
        /\ e \in stored \/ e[1] = "media_part"
    BY DEF LibraryInv, LinksNameStored
  <1>4. /\ links'[l].valid
        /\ e' = IF e = A(w[2]) THEN A(w[1]) ELSE e
    BY <1>1, <1>2, <1>3 DEF RepointLinks
  <1> HIDE DEF e
  <1>5. PostOf(r) \in Posts \cup {None} /\ PostOf(r)' = PostOf(r)
    BY <1>1, <1>2, PostOfStored DEF PostOf
  <1>6. \A g : g[1] # "account" => g # A(w[2])
    BY DEF A
  <1>7. CASE e = r
    <2>1. e' = r
      BY <1>4, <1>6, <1>7
    <2>2. Shows(e, r)'
      BY <2>1 DEF Shows
    <2> QED
      BY <2>2, <1>1, <1>2, <1>4 DEF Visible, e
  <1>8. CASE e[1] = "account" /\ PostOf(r) # None /\ postOwner[PostOf(r)] = e[2]
    <2>1. e = A(e[2])
      BY <1>3, <1>8 DEF LibraryInv, StoredIsKnown, A, P, M, Part
    <2>2. e'[1] = "account" /\ e'[2] = IF e[2] = w[2] THEN w[1] ELSE e[2]
      BY <2>1, <1>4, <1>8 DEF A
    <2>3. postOwner'[PostOf(r)] = e'[2]
      BY <2>2, <1>5, <1>8, MergeShape
    <2>4. e'[1] = "account" /\ PostOf(r)' # None /\ postOwner'[PostOf(r)'] = e'[2]
      BY <2>2, <2>3, <1>5, <1>8
    <2>5. Shows(e, r)'
      BY <2>4 DEF Shows, PostOf
    <2> QED
      BY <2>5, <1>1, <1>2, <1>4 DEF Visible, e
  <1>9. CASE \/ e[1] = "post" /\ r[1] # "post" /\ PostOf(r) = e[2]
             \/ e[1] = "media" /\ r[1] = "media_part" /\ partOf[r[2]] = e[2]
    <2>1. e' = e
      BY <1>4, <1>6, <1>9
    <2>2. \/ e'[1] = "post" /\ r[1] # "post" /\ PostOf(r)' = e'[2]
          \/ e'[1] = "media" /\ r[1] = "media_part" /\ partOf'[r[2]] = e'[2]
      BY <2>1, <1>2, <1>5, <1>9
    <2>3. Shows(e, r)'
      BY <2>2 DEF Shows, PostOf
    <2> QED
      BY <2>3, <1>1, <1>2, <1>4 DEF Visible, e
  <1>10. \/ e = r
         \/ e[1] = "account" /\ PostOf(r) # None /\ postOwner[PostOf(r)] = e[2]
         \/ e[1] = "post" /\ r[1] # "post" /\ PostOf(r) = e[2]
         \/ e[1] = "media" /\ r[1] = "media_part" /\ partOf[r[2]] = e[2]
    BY <1>1 DEF Shows, PostOf
  <1> QED
    BY <1>7, <1>8, <1>9, <1>10

\* Nothing that a tag search finds, or that a link shows, is lost to a merge or to the deletion
\* of a tag, in any archive and between the rows of any import; every mark and link names what
\* is stored.
THEOREM NothingIsEverLost == Spec => NothingGetsLost
  <1> USE LibraryAssumption
  <1>1. LibraryInv /\ [Next]_vars => LibraryInv'
    BY LibraryStep
  <1>2. LibraryInv => TypeOK
    BY InvGivesTypeOK
  <1>3. LibraryInv /\ [Next]_vars => [MergeFindsAgain]_vars
    <2> SUFFICES ASSUME LibraryInv, [Next]_vars, NEW w \in MayMerge,
                        mergedInto[w[2]] = None, mergedInto'[w[2]] = w[1],
                        NEW kind \in Kinds, NEW scope \in Kinds,
                        NEW ts, NEW x \in Search(kind, ts, "all", {scope})
                 PROVE  To(w, kind, x) \in Search(kind, ts, "all", {scope})'
      BY DEF MergeFindsAgain, Kinds, To
    <2>1. w[1] \in Accounts /\ w[2] \in Accounts
      OBVIOUS
    <2>2. PICK v \in MayMerge : Merge(v[1], v[2])
      BY <2>1, OnlyMergesRedirect
    <2>3. v[1] = w[1] /\ v[2] = w[2]
      BY <2>1, <2>2, MergeShape
    <2>4. Merge(w[1], w[2])
      BY <2>2, <2>3
    <2> QED
      BY <2>4, MergeIsFoundAgain
  <1>4. LibraryInv /\ [Next]_vars => [DeletionFindsAgain]_vars
    <2> SUFFICES ASSUME LibraryInv, [Next]_vars, NEW gone \in DOMAIN tags \ DOMAIN tags',
                        NEW kind \in Kinds \cup {"media_part"}, NEW t \in DOMAIN tags'
                 PROVE  Search(kind, {t}, "any", {kind})' = Search(kind, {t}, "any", {kind})
      BY DEF DeletionFindsAgain, Kinds
    <2> QED
      BY OnlyDeletionsRemoveTags, SearchReads
  <1>5. LibraryInv /\ [Next]_vars => [MergeShowsAgain]_vars
    <2> SUFFICES ASSUME LibraryInv, [Next]_vars, mergedInto' # mergedInto,
                        NEW l \in DOMAIN links, NEW r \in Visible(l), r[1] # "account"
                 PROVE  r \in Visible(l)'
      BY DEF MergeShowsAgain
    <2> QED
      BY OnlyMergesRedirect, MergeIsShownAgain
  <1> QED
    BY InitLibrary, <1>1, <1>2, <1>3, <1>4, <1>5, PTL
       DEF Spec, NothingGetsLost, MergeKeepsFindable, DeletingKeepsFindable, SharedStaysShared


-----------------------------------------------------------------------------
(* Ties.  A score is a maximum over the kinds of tie between two accounts, *)
(* and a merge unites the kinds.                                           *)

TiesTyped ==
    \A t \in ties :
        /\ t = [kind |-> t.kind, from |-> t.from, at |-> t.at]
        /\ t.kind \in TieKinds /\ t.from \in Accounts /\ t.at \in TieTargets(t.kind)

LEMMA InitTies == Init => TiesTyped
  BY TiesAssumption DEF Init, TiesTyped

\* A tie of the tables after a merge is one from before, with the merged account's ends moved.
MovedTie(w, t) ==
    [t EXCEPT !.from = To(w, "account", @),
              !.at = IF t.kind \in AccountTies THEN To(w, "account", @) ELSE @]

LEMMA MovedTies ==
    ASSUME TiesTyped, NEW w, NEW t \in ties, NEW u, u = MovedTie(w, t)
    PROVE  /\ u = [kind |-> u.kind, from |-> u.from, at |-> u.at]
           /\ u.kind = t.kind /\ u.from = To(w, "account", t.from)
           /\ u.at = IF t.kind \in AccountTies THEN To(w, "account", t.at) ELSE t.at
  <1>1. t = [kind |-> t.kind, from |-> t.from, at |-> t.at]
    BY DEF TiesTyped
  <1> QED
    BY <1>1 DEF MovedTie

LEMMA TiesOfMerge ==
    ASSUME NEW w \in MayMerge, Merge(w[1], w[2])
    PROVE  ties' = {MovedTie(w, t) : t \in ties}
  BY DEF Merge, RepointTies, MovedTie, To

LEMMA MergeKeepsTies ==
    ASSUME TiesTyped, NEW w \in MayMerge, Merge(w[1], w[2])
    PROVE  TiesTyped'
  <1>1. SUFFICES ASSUME NEW u \in ties'
                 PROVE  /\ u = [kind |-> u.kind, from |-> u.from, at |-> u.at]
                        /\ u.kind \in TieKinds /\ u.from \in Accounts /\ u.at \in TieTargets(u.kind)
    BY DEF TiesTyped
  <1>2. PICK t \in ties : u = MovedTie(w, t)
    BY TiesOfMerge
  <1>3. w[1] \in Accounts /\ w[2] \in Accounts
    BY LibraryAssumption
  <1>4. t.kind \in TieKinds /\ t.from \in Accounts /\ t.at \in TieTargets(t.kind)
    BY DEF TiesTyped
  <1>5. /\ u = [kind |-> u.kind, from |-> u.from, at |-> u.at]
        /\ u.kind = t.kind /\ u.from = To(w, "account", t.from)
        /\ u.at = IF t.kind \in AccountTies THEN To(w, "account", t.at) ELSE t.at
    BY <1>2, MovedTies
  <1>6. u.at \in TieTargets(u.kind)
    <2>1. CASE t.kind \in AccountTies
      <3>1. TieTargets(t.kind) = Accounts
        BY <2>1 DEF TieTargets, AccountTies
      <3> QED
        BY <1>3, <1>4, <1>5, <2>1, <3>1 DEF To
    <2>2. CASE t.kind \notin AccountTies
      BY <1>4, <1>5, <2>2
    <2> QED
      BY <2>1, <2>2
  <1> QED
    BY <1>3, <1>4, <1>5, <1>6 DEF To

\* Only intake and merges write the ties' tables, and a session of the model brings none.
LEMMA TiesStep == TiesTyped /\ [Next]_vars => TiesTyped'
  <1> SUFFICES ASSUME TiesTyped, [Next]_vars PROVE TiesTyped'
    OBVIOUS
  <1>1. ASSUME UNCHANGED ties PROVE TiesTyped'
    BY <1>1 DEF TiesTyped
  <1>2. CASE UNCHANGED vars
    BY <1>1, <1>2 DEF vars, content
  <1>3. CASE Next
    <2>1. ASSUME UNCHANGED <<content, partOf, links>> PROVE UNCHANGED ties
      BY <2>1 DEF content
    <2>2. ASSUME NEW c \in Captures, Intake(c) PROVE UNCHANGED ties
      BY <2>2 DEF Intake
    <2>3. ASSUME NEW w \in MayMerge, Merge(w[1], w[2]) PROVE TiesTyped'
      BY <2>3, MergeKeepsTies
    <2>4. ASSUME \/ \E q \in PartIds, m \in Media : InsertMediaPart(q, m) \/ UpdateMediaPart(q, m)
                 \/ \E q \in PartIds : DeleteMediaPart(q)
                 \/ \E e \in stored : NewShareLink(e)
                 \/ \E e \in stored, v \in BOOLEAN : PatchShareLinkValidity(e, v)
          PROVE  UNCHANGED ties
      BY <2>4 DEF InsertMediaPart, UpdateMediaPart, DeleteMediaPart, NewShareLink,
                  PatchShareLinkValidity, PartRequest, LinkRequest, content
    <2> QED
      BY <1>1, <1>3, <2>1, <2>2, <2>3, <2>4 DEF Next
  <1> QED
    BY <1>2, <1>3

\* The greatest weight of a set of kinds.
Strongest(ks) == Max({0} \cup {Weight[kind] : kind \in ks})

LEMMA StrongestIs ==
    ASSUME NEW ks \in SUBSET TieKinds
    PROVE  /\ Strongest(ks) \in Nat
           /\ \A kind \in ks : Weight[kind] <= Strongest(ks)
           /\ Strongest(ks) = 0 \/ \E kind \in ks : Strongest(ks) = Weight[kind]
  <1> DEFINE W == {0} \cup {Weight[kind] : kind \in ks}
  <1>1. /\ Weight["follow"] \in Nat /\ Weight["suggested"] \in Nat /\ Weight["like"] \in Nat
        /\ Weight["comment"] \in Nat /\ Weight["tagpost"] \in Nat /\ Weight["tagmedia"] \in Nat
    BY TiesAssumption DEF TieKinds, AccountTies
  <1>2. \E x \in W : \A y \in W : x >= y
    <2> DEFINE In(kind) == IF kind \in ks THEN Weight[kind] ELSE 0
    <2>1. W = {0, In("follow"), In("suggested"), In("like"), In("comment"), In("tagpost"), In("tagmedia")}
      BY DEF TieKinds, AccountTies
    <2>2. /\ In("follow") \in Nat /\ In("suggested") \in Nat /\ In("like") \in Nat
          /\ In("comment") \in Nat /\ In("tagpost") \in Nat /\ In("tagmedia") \in Nat
      BY <1>1
    <2> HIDE DEF In, W
    <2> QED
      BY <2>1, <2>2
  <1>3. Max(W) \in W /\ \A y \in W : Max(W) >= y
    BY <1>2 DEF Max
  <1>4. W \subseteq Nat
    BY TiesAssumption
  <1> QED
    BY <1>3, <1>4 DEF Strongest

LEMMA StrongestOfTwo ==
    ASSUME NEW ks \in SUBSET TieKinds, NEW ls \in SUBSET TieKinds
    PROVE  Strongest(ks \cup ls) = Max({Strongest(ks), Strongest(ls)})
  <1> DEFINE a == Strongest(ks)
             b == Strongest(ls)
             c == Strongest(ks \cup ls)
  <1>1. a \in Nat /\ b \in Nat /\ c \in Nat
    BY StrongestIs
  <1>2. a <= c
    BY <1>1, StrongestIs
  <1>3. b <= c
    BY <1>1, StrongestIs
  <1>4. c <= a \/ c <= b
    BY <1>1, StrongestIs
  <1> HIDE DEF a, b, c
  <1>5. c = Max({a, b})
    BY <1>1, <1>2, <1>3, <1>4 DEF Max
  <1> QED
    BY <1>5 DEF a, b, c

KindsBetween(x, y) == {t.kind : t \in Ties(x, y)}

LEMMA KindsAreKinds == ASSUME TiesTyped, NEW x, NEW y PROVE KindsBetween(x, y) \in SUBSET TieKinds
  BY DEF TiesTyped, KindsBetween, Ties

\* f sums what the members of S are to c, as MapThenSumSet defines it.
IsSum(f, c, S) ==
    f = [s \in SUBSET S |->
            IF s = {} THEN 0
            ELSE LET x == CHOOSE y \in s : TRUE
                 IN Max({0} \cup {Weight[t.kind] : t \in Ties(c, x)}) + f[s \ {x}]]

LEMMA ScoreIsSum ==
    ASSUME NEW c, NEW kernel
    PROVE  Score(c, kernel) = (CHOOSE f : IsSum(f, c, kernel \ {c}))[kernel \ {c}]
  BY DEF Score, MapThenSumSet, MapThenFoldSet, IsSum

\* With one account in the kernel the sum has one summand.
LEMMA ScoreIs ==
    ASSUME TiesTyped, NEW c, NEW a, c # a
    PROVE  Score(c, {a}) = Strongest(KindsBetween(c, a))
  <1> DEFINE s == Strongest(KindsBetween(c, a))
  <1>1. s \in Nat
    BY KindsAreKinds, StrongestIs
  <1>2. s = Max({0} \cup {Weight[t.kind] : t \in Ties(c, a)})
    <2>1. {Weight[kind] : kind \in KindsBetween(c, a)} = {Weight[t.kind] : t \in Ties(c, a)}
      BY DEF KindsBetween
    <2> QED
      BY <2>1 DEF Strongest
  <1>3. {a} \ {c} = {a}
    OBVIOUS
  <1> HIDE DEF s
  <1>4. \E f : IsSum(f, c, {a})
    <2> DEFINE f == [r \in SUBSET {a} |-> IF r = {} THEN 0 ELSE s]
    <2>1. ASSUME NEW r \in SUBSET {a}, r # {}
          PROVE  (CHOOSE y \in r : TRUE) = a /\ r \ {a} = {} /\ f[{}] = 0
      BY <2>1
    <2>2. IsSum(f, c, {a})
      <3>1. ASSUME NEW r \in SUBSET {a}, r # {}
            PROVE  LET x == CHOOSE y \in r : TRUE
                   IN Max({0} \cup {Weight[t.kind] : t \in Ties(c, x)}) + f[r \ {x}] = s
        <4>1. PICK x : x = (CHOOSE y \in r : TRUE)
          OBVIOUS
        <4>2. x = a /\ r \ {x} = {} /\ f[r \ {x}] = 0
          BY <2>1, <3>1, <4>1
        <4>3. Max({0} \cup {Weight[t.kind] : t \in Ties(c, x)}) = s
          BY <1>2, <4>2
        <4>4. Max({0} \cup {Weight[t.kind] : t \in Ties(c, x)}) + f[r \ {x}] = s
          BY <1>1, <4>2, <4>3
        <4> QED
          BY <4>1, <4>4
      <3> QED
        BY <3>1 DEF IsSum
    <2> HIDE DEF f
    <2> QED
      BY <2>2
  <1>5. ASSUME NEW f, IsSum(f, c, {a}) PROVE f[{a}] = s
    <2>1. f[{}] = 0
      BY <1>5 DEF IsSum
    <2>2. (CHOOSE y \in {a} : TRUE) = a /\ {a} \ {a} = {}
      OBVIOUS
    <2>3. f[{a}] = Max({0} \cup {Weight[t.kind] : t \in Ties(c, a)}) + f[{}]
      BY <1>5, <2>2 DEF IsSum
    <2> QED
      BY <1>1, <1>2, <2>1, <2>3
  <1>6. Score(c, {a}) = s
    BY <1>3, <1>4, <1>5, ScoreIsSum
  <1> QED
    BY <1>6 DEF s

LEMMA ScoresAre ==
    TiesTyped => \A x, y : x # y => Score(x, {y}) = Strongest(KindsBetween(x, y))
  BY ScoreIs

LEMMA TiesAgree == TiesTyped => StatsMirrorCommunity
  <1> SUFFICES ASSUME TiesTyped, NEW a \in Accounts
               PROVE  Related(a) \ {a} = Candidates({a}, {})
    BY DEF StatsMirrorCommunity
  <1>1. ASSUME NEW c \in Accounts, c # a
        PROVE  c \in Related(a) <=> Score(c, {a}) > 0
    <2> DEFINE ks == KindsBetween(c, a)
    <2>1. ks \in SUBSET TieKinds
      BY KindsAreKinds
    <2>2. c \in Related(a) <=> \E kind \in ks : kind # "suggested"
      BY <1>1 DEF Related, KindsBetween, Ties
    <2>3. Score(c, {a}) = Strongest(ks)
      BY <1>1, ScoreIs
    <2> HIDE DEF ks
    <2>4. \A kind \in ks : Weight[kind] \in Nat /\ (Weight[kind] = 0 <=> kind = "suggested")
      BY <2>1, TiesAssumption
    <2>5. Strongest(ks) > 0 <=> \E kind \in ks : kind # "suggested"
      BY <2>1, <2>4, StrongestIs
    <2> QED
      BY <2>2, <2>3, <2>5
  <1> QED
    BY <1>1 DEF Candidates, Related

\* After a merge the ends of a tie are where they were, the merged account's at its keeper.
LEMMA MergeMovesEnds ==
    ASSUME LibraryInv, TiesTyped, NEW w \in MayMerge, Merge(w[1], w[2]), NEW t \in ties, NEW u,
           u = MovedTie(w, t)
    PROVE  /\ u.kind = t.kind
           /\ Ends(u)' = <<To(w, "account", Ends(t)[1]), To(w, "account", Ends(t)[2])>>
  <1>1. t.kind \in TieKinds /\ t.from \in Accounts /\ t.at \in TieTargets(t.kind)
    BY DEF TiesTyped
  <1>2. /\ u.kind = t.kind /\ u.from = To(w, "account", t.from)
        /\ u.at = IF t.kind \in AccountTies THEN To(w, "account", t.at) ELSE t.at
    BY MovedTies
  <1>3. /\ \A p \in Posts : postOwner'[p] = IF postOwner[p] = w[2] THEN w[1] ELSE postOwner[p]
        /\ \A m \in Media : mediaOwner'[m] = IF mediaOwner[m] = w[2] THEN w[1] ELSE mediaOwner[m]
    BY MergeShape
  <1>4. CASE t.kind \in AccountTies
    <2>1. t.kind # "tagmedia"
      BY <1>4 DEF AccountTies
    <2> QED
      BY <1>2, <1>4, <2>1 DEF Ends
  <1>5. CASE t.kind = "tagmedia"
    <2>1. t.at \in Media /\ t.kind \notin AccountTies
      BY <1>1, <1>5 DEF TieTargets, AccountTies
    <2> QED
      BY <1>2, <1>3, <1>5, <2>1 DEF Ends, To
  <1>6. CASE t.kind \notin AccountTies /\ t.kind # "tagmedia"
    <2>1. t.at \in Posts
      BY <1>1, <1>6 DEF TieTargets
    <2> QED
      BY <1>2, <1>3, <1>6, <2>1 DEF Ends, To
  <1> QED
    BY <1>2, <1>4, <1>5, <1>6

LEMMA MergeJoinsKinds ==
    ASSUME LibraryInv, TiesTyped, NEW w \in MayMerge, Merge(w[1], w[2]),
           NEW c \in Accounts \ {w[1], w[2]}
    PROVE  KindsBetween(c, w[1])' = KindsBetween(c, w[1]) \cup KindsBetween(c, w[2])
  <1> DEFINE New(t) == MovedTie(w, t)
             Old(t) == t \in Ties(c, w[1]) \cup Ties(c, w[2])
  <1>1. ties' = {New(t) : t \in ties}
    BY TiesOfMerge
  <1>2. ASSUME NEW t \in ties
        PROVE  New(t).kind = t.kind /\ (New(t) \in Ties(c, w[1])' <=> Old(t))
    <2>1. PICK u : u = New(t)
      OBVIOUS
    <2>2. /\ u.kind = t.kind
          /\ Ends(u)' = <<To(w, "account", Ends(t)[1]), To(w, "account", Ends(t)[2])>>
      BY <2>1, MergeMovesEnds
    <2>3. u \in ties'
      BY <1>1, <2>1
    <2>4. PICK x, y : Ends(t) = <<x, y>>
      BY DEF Ends
    <2>5. /\ To(w, "account", x) = c <=> x = c
          /\ To(w, "account", y) = c <=> y = c
          /\ To(w, "account", x) = w[1] <=> x \in {w[1], w[2]}
          /\ To(w, "account", y) = w[1] <=> y \in {w[1], w[2]}
      BY DEF To
    <2>6. u \in Ties(c, w[1])' <=> Ends(u)' \in {<<c, w[1]>>, <<w[1], c>>}
      BY <2>3 DEF Ties
    <2>7. Old(t) <=> <<x, y>> \in {<<c, w[1]>>, <<w[1], c>>, <<c, w[2]>>, <<w[2], c>>}
      BY <2>4 DEF Ties
    <2>8. Ends(u)' = <<To(w, "account", x), To(w, "account", y)>>
      BY <2>2, <2>4
    <2> HIDE DEF New, Old
    <2> QED
      BY <2>1, <2>2, <2>5, <2>6, <2>7, <2>8
  <1>3. KindsBetween(c, w[1])' = {t.kind : t \in {x \in ties : Old(x)}}
    <2>1. Ties(c, w[1])' \subseteq ties'
      BY DEF Ties
    <2>2. KindsBetween(c, w[1])' = {u.kind : u \in Ties(c, w[1])'}
      BY DEF KindsBetween
    <2> HIDE DEF New, Old
    <2> QED
      BY <1>1, <1>2, <2>1, <2>2
  <1>4. Ties(c, w[1]) \subseteq ties /\ Ties(c, w[2]) \subseteq ties
    BY DEF Ties
  <1> QED
    BY <1>3, <1>4 DEF KindsBetween

\* The panel of an account and the community page agree on who is related, and a third account
\* scores against the keeper of a merge what its strongest tie to either row was worth.
THEOREM TiesStayWhole == Spec => TiesAreWhole
  <1>1. TiesTyped => StatsMirrorCommunity
    BY TiesAgree
  <1>2. LibraryInv /\ [Next]_vars => LibraryInv'
    BY LibraryStep
  <1>3. (TiesTyped => \A x, y : x # y => Score(x, {y}) = Strongest(KindsBetween(x, y)))'
    BY ScoresAre, PTL
  <1>4. LibraryInv /\ TiesTyped /\ TiesTyped' /\ [Next]_vars =>
           \A w \in MayMerge :
               mergedInto[w[2]] = None /\ mergedInto'[w[2]] = w[1] =>
                   \A c \in Accounts \ {w[1], w[2]} :
                       Score(c, {w[1]})' = Max({Score(c, {w[1]}), Score(c, {w[2]})})
    <2>1. SUFFICES ASSUME LibraryInv, TiesTyped, TiesTyped', [Next]_vars, NEW w \in MayMerge,
                        mergedInto[w[2]] = None, mergedInto'[w[2]] = w[1],
                        NEW c \in Accounts \ {w[1], w[2]}
                 PROVE  Score(c, {w[1]})' = Max({Score(c, {w[1]}), Score(c, {w[2]})})
      OBVIOUS
    <2>2. w[1] \in Accounts /\ w[2] \in Accounts /\ None \notin Accounts
      BY LibraryAssumption
    <2>3. PICK v \in MayMerge : Merge(v[1], v[2])
      BY <2>1, <2>2, OnlyMergesRedirect
    <2>4. v[1] = w[1] /\ v[2] = w[2]
      BY <2>1, <2>2, <2>3, MergeShape
    <2>5. Merge(w[1], w[2])
      BY <2>3, <2>4
    <2>6. KindsBetween(c, w[1])' = KindsBetween(c, w[1]) \cup KindsBetween(c, w[2])
      BY <2>1, <2>5, MergeJoinsKinds
    <2>7. \A x, y : x # y => Score(x, {y}) = Strongest(KindsBetween(x, y))
      BY <2>1, ScoreIs
    <2>8. Score(c, {w[1]})' = Strongest(KindsBetween(c, w[1])')
      BY <2>1, <1>3 DEF Strongest
    <2>9. KindsBetween(c, w[1]) \in SUBSET TieKinds /\ KindsBetween(c, w[2]) \in SUBSET TieKinds
      BY <2>1, KindsAreKinds
    <2> QED
      BY <2>1, <2>6, <2>7, <2>8, <2>9, StrongestOfTwo
  <1> QED
    BY <1>1, <1>2, <1>4, InitTies, InitLibrary, TiesStep, PTL DEF Spec, TiesAreWhole, MergeJoinsTies

=============================================================================
