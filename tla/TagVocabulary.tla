---------------------------- MODULE TagVocabulary ----------------------------
(***************************************************************************)
(* The tags of the archive: tag types, tags, the hierarchy between them,   *)
(* their assignment to entities (the four *_tag tables), and the two       *)
(* imports that fill them from a file.  Routes run to completion on the    *)
(* server's event loop, so no other request comes between the rows of an   *)
(* import; the incorporation thread may (Library merges accounts then),    *)
(* and a failing statement ends an import after any row, with the rows     *)
(* before it committed one by one.                                         *)
(***************************************************************************)
EXTENDS Naturals, FiniteSets, Sequences

CONSTANTS
    MaxTypeId, MaxTagId, \* bounds on the ids handed out
    Spellings,           \* names as people write them
    Fold,                \* Fold[s] is LOWER(TRIM(s)), also what the collation compares
    Affinities,          \* values of tag_type.entity_affinity: None or a set of kinds
    TagBatches,          \* files of the tag import: sequences of [name, type, parents]
    MarkBatches,         \* files of the annotation import: sequences of [entity, tag, type]
    None,                \* SQL NULL
    MaxRequests          \* bound on the requests that change something

\* auto_increment: an id is never handed out twice
TypeIds == 1 .. MaxTypeId
TagIds == 1 .. MaxTagId

ASSUME VocabularyAssumption ==
    /\ MaxTypeId \in Nat /\ MaxTagId \in Nat
    /\ None \notin TypeIds
    /\ DOMAIN Fold = Spellings
    /\ \A b \in TagBatches :
          b \in Seq([name : Spellings, type : Spellings \cup {None}, parents : Seq(Spellings)])

VARIABLES
    types, lastType,  \* tag_type: id -> [name, affinity]; the last id handed out
    tags, lastTag,    \* tag: id -> [name, type]
    edges,            \* tag_hierarchy: <<super, sub>>
    stored,           \* the entities that have a row: <<kind, id>>
    marks,            \* account_tag, post_tag, media_tag, media_part_tag: <<entity, tag>>
    job,              \* the import that is being executed
    requests          \* how many there were

vocabVars == <<types, lastType, tags, lastTag, edges, stored, marks, job, requests>>
catalogue == <<types, lastType, tags, lastTag>>

Put(f, k, v) == [x \in DOMAIN f \cup {k} |-> IF x = k THEN v ELSE f[x]]
Without(f, k) == [x \in DOMAIN f \ {k} |-> f[x]]

NoJob == [kind |-> "none", rows |-> <<>>, create |-> FALSE, todo |-> {}, out |-> <<>>]

InitVocabulary ==
    /\ types = <<>> /\ lastType = 0 /\ tags = <<>> /\ lastTag = 0
    /\ edges = {} /\ marks = {} /\ job = NoJob /\ requests = 0

-----------------------------------------------------------------------------
(* The hierarchy.  The recursive queries of the code collect what can be   *)
(* reached from a tag; here it is the least set that is closed.            *)

Closed(E, S) == \A e \in E : e[1] \in S => e[2] \in S

Descendants(E, t) ==
    {x \in TagIds : \A S \in SUBSET TagIds : t \in S /\ Closed(E, S) => x \in S}

WouldCreateCycle_Swapped(p, c) == c \in Descendants(edges, p)

\* would_create_cycle: a tag is its own descendant here, which is the equality test of the code.
WouldCreateCycle(p, c) == p \in Descendants(edges, c)

Carriers(t) == LET below == Descendants(edges, t) IN {k \in marks : k[2] \in below}

-----------------------------------------------------------------------------
(* The management routes.                                                  *)

Request == job = NoJob /\ requests < MaxRequests /\ requests' = requests + 1

Edit == Request /\ UNCHANGED <<job, stored>>

KnownType(ty) == ty = None \/ ty \in DOMAIN types

\* UNIQUE (name, tag_type_id): rows whose type is NULL never collide.
NameFree(t, n, ty) ==
    ty = None \/ \A u \in DOMAIN tags \ {t} :
                    ~ (tags[u].type = ty /\ Fold[tags[u].name] = Fold[n])

PostTagType(n, a) ==
    /\ Edit /\ lastType + 1 \in TypeIds
    /\ types' = Put(types, lastType + 1, [name |-> n, affinity |-> a])
    /\ lastType' = lastType + 1
    /\ UNCHANGED <<tags, lastTag, edges, marks>>

PutTagType(ty, n, a) ==
    /\ Edit /\ ty \in DOMAIN types
    /\ types' = [types EXCEPT ![ty] = [name |-> n, affinity |-> a]]
    /\ UNCHANGED <<lastType, tags, lastTag, edges, marks>>

\* A tag of the type refuses its deletion.
DelTagType(ty) ==
    /\ Edit /\ ty \in DOMAIN types
    /\ \A t \in DOMAIN tags : tags[t].type # ty
    /\ types' = Without(types, ty)
    /\ UNCHANGED <<lastType, tags, lastTag, edges, marks>>

PostTag(n, ty) ==
    /\ Edit /\ lastTag + 1 \in TagIds /\ KnownType(ty) /\ NameFree(lastTag + 1, n, ty)
    /\ tags' = Put(tags, lastTag + 1, [name |-> n, type |-> ty])
    /\ lastTag' = lastTag + 1
    /\ UNCHANGED <<types, lastType, edges, marks>>

PutTag(t, n, ty) ==
    /\ Edit /\ t \in DOMAIN tags /\ KnownType(ty) /\ NameFree(t, n, ty)
    /\ tags' = [tags EXCEPT ![t] = [name |-> n, type |-> ty]]
    /\ UNCHANGED <<types, lastType, lastTag, edges, marks>>

\* delete_tag counts the uses of the tag and of its descendants; then the foreign keys of
\* tag_hierarchy refuse a tag that still has a parent or a child.
DelTag(t) ==
    /\ Edit /\ t \in DOMAIN tags
    /\ Carriers(t) = {}
    /\ \A e \in edges : t \notin {e[1], e[2]}
    /\ tags' = Without(tags, t)
    /\ UNCHANGED <<types, lastType, lastTag, edges, marks>>

PostHierarchy(p, c) ==
    /\ Edit /\ {p, c} \subseteq DOMAIN tags
    /\ ~ WouldCreateCycle(p, c)
    /\ <<p, c>> \notin edges
    /\ edges' = edges \cup {<<p, c>>}
    /\ UNCHANGED <<catalogue, marks>>

DelHierarchy(e) ==
    /\ Edit /\ e \in edges
    /\ edges' = edges \ {e}
    /\ UNCHANGED <<catalogue, marks>>

-----------------------------------------------------------------------------
(* Annotations.  An entity is a pair <<kind, id>>.                         *)

AffinityKind(kind) == IF kind = "media_part" THEN "media" ELSE kind

\* validate_tags_entity_affinity looks only at the tags that exist and have a type.
Incompatible(ts, kind) ==
    {t \in ts \cap DOMAIN tags : /\ tags[t].type # None
                                 /\ types[tags[t].type].affinity # None
                                 /\ AffinityKind(kind) \notin types[tags[t].type].affinity}

\* One INSERT IGNORE per pair, each committed: a pair that exists or whose entity or tag does
\* not is passed over, and a batch that fails half way has done what a smaller one does.
AnnotateBatch(kind, es, ts) ==
    /\ Edit /\ Incompatible(ts, kind) = {}
    /\ marks' = marks \cup ((es \cap stored) \X (ts \cap DOMAIN tags))
    /\ UNCHANGED <<catalogue, edges>>

\* The list of an entity is replaced in one transaction, which a tag that is gone rolls back.
AnnotateEntity(e, ts) ==
    /\ Edit /\ e \in stored /\ Incompatible(ts, e[1]) = {}
    /\ ts \subseteq DOMAIN tags
    /\ marks' = {k \in marks : k[1] # e} \cup ({e} \X ts)
    /\ UNCHANGED <<catalogue, edges>>

RemoveEntityTag(k) ==
    /\ Edit /\ k \in marks
    /\ marks' = marks \ {k}
    /\ UNCHANGED <<catalogue, edges>>

-----------------------------------------------------------------------------
(* The tag import: one pass over the rows that finds or creates the tags,  *)
(* and one that links each to its parents.                                 *)

\* The steps of an import: <<i, 0>> is the turn of row i, <<i, j>> links it to its j-th parent.
RowSteps(b) == {<<i, 0>> : i \in DOMAIN b}
LinkSteps(b) == UNION {{<<i, j>> : j \in DOMAIN b[i].parents} : i \in DOMAIN b}

\* All rows come before all links.
Before(s, t) ==
    \/ s[2] = 0 /\ t[2] # 0
    \/ /\ s[2] = 0 <=> t[2] = 0
       /\ s[1] < t[1] \/ (s[1] = t[1] /\ s[2] < t[2])

StartImport(kind, b, create, todo) ==
    /\ Request
    /\ job' = [kind |-> kind, rows |-> b, create |-> create, todo |-> todo, out |-> <<>>]
    /\ UNCHANGED <<catalogue, edges, stored, marks>>

StartTagImport(b, create) == StartImport("tags", b, create, RowSteps(b) \cup LinkSteps(b))

Importing(kind, s) == job.kind = kind /\ \A t \in job.todo \ {s} : Before(s, t)
Row(s) == job.rows[s[1]]

Advance(s) == job' = [job EXCEPT !.todo = @ \ {s}]
Report(s, status, t) ==
    job' = [job EXCEPT !.todo = @ \ {s}, !.out = Put(@, s[1], [status |-> status, id |-> t])]

TypesNamed(n) == {ty \in DOMAIN types : Fold[types[ty].name] = Fold[n]}

\* The types a row may be given: get_tag_type_by_name takes any one of that name.
RowTypes(n) ==
    IF n = None THEN {None}
    ELSE IF TypesNamed(n) # {} THEN TypesNamed(n)
    ELSE IF job.create /\ lastType + 1 \in TypeIds THEN {lastType + 1} ELSE {}

\* Mutant: names are compared as they are written.
TagsNamed_Exact(n, ty) == {t \in DOMAIN tags : tags[t].type = ty /\ tags[t].name = n}

TagsNamed(n, ty) == {t \in DOMAIN tags : tags[t].type = ty /\ Fold[tags[t].name] = Fold[n]}

\* upsert_tag, whose failure is the only one an import survives: the row is reported and skipped.
UpsertTag(s, ty) ==
    LET n == Row(s).name IN
    \/ \E t \in TagsNamed(n, ty) : Report(s, "existing", t) /\ UNCHANGED <<tags, lastTag>>
    \/ /\ TagsNamed(n, ty) = {} /\ lastTag + 1 \in TagIds /\ NameFree(lastTag + 1, n, ty)
       /\ tags' = Put(tags, lastTag + 1, [name |-> n, type |-> ty])
       /\ lastTag' = lastTag + 1
       /\ Report(s, "created", lastTag + 1)
    \/ Report(s, "error", None) /\ UNCHANGED <<tags, lastTag>>

ImportTagRow(s) ==
    /\ Importing("tags", s) /\ s[2] = 0
    /\ \/ /\ RowTypes(Row(s).type) = {}
          /\ Report(s, "error", None) /\ UNCHANGED catalogue
       \/ \E ty \in RowTypes(Row(s).type) :
            /\ IF KnownType(ty) THEN UNCHANGED <<types, lastType>>
               ELSE /\ types' = Put(types, ty, [name |-> Row(s).type, affinity |-> None])
                    /\ lastType' = ty
            /\ UpsertTag(s, ty)
    /\ UNCHANGED <<edges, stored, marks, requests>>

\* tag_id_map: the last row of that exact name that found or made a tag.
BatchRows(n) == {i \in DOMAIN job.out : job.rows[i].name = n /\ job.out[i].status # "error"}
LastOf(S) == CHOOSE i \in S : \A j \in S : j <= i

\* The tags a parent's name may stand for: the batch first, then any tag of the database with
\* that name (two of different types: either).
Parents(n) ==
    IF BatchRows(n) # {} THEN {job.out[LastOf(BatchRows(n))].id}
    ELSE {t \in DOMAIN tags : Fold[tags[t].name] = Fold[n]}

LinksRow(i) == job.out[i].status # "error"

ImportLink(s) ==
    /\ Importing("tags", s) /\ s[2] # 0
    /\ LET found == Parents(Row(s).parents[s[2]]) IN
       \/ /\ ~ LinksRow(s[1]) \/ found = {}
          /\ UNCHANGED edges
       \/ /\ LinksRow(s[1])
          /\ \E p \in found :
                edges' = IF WouldCreateCycle(p, job.out[s[1]].id) THEN edges
                         ELSE edges \cup {<<p, job.out[s[1]].id>>}
    /\ Advance(s)
    /\ UNCHANGED <<catalogue, stored, marks, requests>>

-----------------------------------------------------------------------------
(* The annotation import.                                                  *)

StartMarkImport(b) == StartImport("marks", b, FALSE, RowSteps(b))

\* _resolve_tag: a name found twice is refused, with or without a type.
ResolveTag(n, tn) ==
    {t \in DOMAIN tags : /\ Fold[tags[t].name] = Fold[n]
                         /\ tn = None \/ (tags[t].type # None /\
                                          Fold[types[tags[t].type].name] = Fold[tn])}

ImportMark(s) ==
    /\ Importing("marks", s)
    /\ LET found == ResolveTag(Row(s).tag, Row(s).type) IN
       IF Row(s).entity \in stored /\ Cardinality(found) = 1
       THEN marks' = marks \cup ({Row(s).entity} \X found)
       ELSE UNCHANGED marks
    /\ Advance(s)
    /\ UNCHANGED <<catalogue, edges, stored, requests>>

\* A statement outside upsert_tag fails: the request ends there.
ImportAborts ==
    /\ job.todo # {}
    /\ job' = NoJob
    /\ UNCHANGED <<catalogue, edges, stored, marks, requests>>

ImportEnds ==
    /\ job.kind # "none" /\ job.todo = {}
    /\ job' = NoJob
    /\ UNCHANGED <<catalogue, edges, stored, marks, requests>>

-----------------------------------------------------------------------------
(* What must hold of the vocabulary.                                       *)

\* The constraints of the schema: every reference names a row, and typed names are unique.
VocabularyTypeOK ==
    /\ \A ty \in DOMAIN types : ty \in 1 .. lastType
    /\ \A t \in DOMAIN tags : t \in 1 .. lastTag /\ KnownType(tags[t].type)
                              /\ NameFree(t, tags[t].name, tags[t].type)
    /\ edges \subseteq (DOMAIN tags) \X (DOMAIN tags)
    /\ marks \subseteq stored \X (DOMAIN tags)

\* No tag is below itself, however links are made: by hand, or row by row from a file whose
\* parents were looked up by name.  The recursive queries of the search page, of the usage
\* counts and of the community page do not end on a cycle.
HierarchyIsAcyclic == \A e \in edges : e[1] \notin Descendants(edges, e[2])

\* A tag import that runs to its end has delivered its file, also when it is the repetition of
\* one that broke off: each row that is not reported as an error has its tag, under each parent
\* the file itself defines, unless that parent is below it.
ImportDelivers ==
    job.kind = "tags" /\ job.todo = {} =>
        \A i \in DOMAIN job.rows : job.out[i].status # "error" =>
            LET t == job.out[i].id IN
            /\ t \in DOMAIN tags /\ Fold[tags[t].name] = Fold[job.rows[i].name]
            /\ (tags[t].type = None) = (job.rows[i].type = None)
            /\ \A n \in {job.rows[i].parents[j] : j \in DOMAIN job.rows[i].parents} :
                  BatchRows(n) # {} =>
                      LET p == job.out[LastOf(BatchRows(n))].id IN
                      <<p, t>> \in edges \/ p \in Descendants(edges, t)

\* An import never adds a second tag of a name, letter case apart, to a type or to the untyped
\* tags, where no constraint of the table would refuse it; nor a second type of a name.
ImportAddsNew ==
    job.kind = "tags" =>
        /\ \A t \in DOMAIN tags' \ DOMAIN tags, u \in DOMAIN tags :
              tags[u].type = tags'[t].type => Fold[tags[u].name] # Fold[tags'[t].name]
        /\ \A ty \in DOMAIN types' \ DOMAIN types, o \in DOMAIN types :
              Fold[types[o].name] # Fold[types'[ty].name]
ImportNeverDuplicates == [][ImportAddsNew]_vocabVars

\* An import, repeated as often as it breaks off, adds its file and nothing else.
ImportIsExact == []ImportDelivers /\ ImportNeverDuplicates

=============================================================================
