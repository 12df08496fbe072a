----------------------------- MODULE Extraction -----------------------------
(***************************************************************************)
(* The extraction of an archive over its life: the archiver acquires the   *)
(* media and summarises the entities, the operator deletes what is not     *)
(* wanted, the loader and a resumed archiver extract again.  Composes      *)
(* Acquisition (the media and the log) with Entities (what is made of the  *)
(* structures).                                                            *)
(***************************************************************************)
EXTENDS Entities

CONSTANTS
    SegmentLists,   \* inputs Assemble is compared with its definition on
    KeyLists        \* inputs Clusters is compared with its definition on

\* What a HAR determines: extract_data_from_har finds the same every time.
Scans == [h \in Hars |->
    With(Structures(h), LAMBDA structures : With(MediaItems(structures), LAMBDA items :
        [items |-> items, videos |-> CombinedVideos(h, items), photos |-> CombinedPhotos(h, items),
         entities |-> HarDataToEntities(structures)]))]

Scan == Scans[har]

BeginExtraction == ~har.wacz /\ \E cfg \in Configs : Begin(cfg, Scan.videos, Scan.photos)

\* scan_wacz: a WACZ is unpacked whole on every parse, without a log, unless the files of
\* a video make it raise.
ScanWacz ==
    /\ run = None /\ runs < MaxRuns /\ har.wacz
    /\ \E o \in {x \in Outcomes({}) : ~x.cdn}, vs \in {HarVideos(har, Scan.items)},
          ps \in {HarPhotos(har)} :
         LET save(st, id) == IF st.raised THEN st ELSE SaveFetchedAsset(st.disk, vs[id], FALSE, o)
             start == [disk |-> disk, name |-> None, raised |-> FALSE]
             unpacked == FoldLeft(save, start, SetToSeq(DOMAIN vs))
             photo(f) == Name(f, "photo", None)
             photos == [n \in {photo(f) : f \in DOMAIN ps} |-> ps[n.id]]
         IN IF unpacked.raised THEN disk' = unpacked.disk /\ UNCHANGED linked
            ELSE /\ disk' = photos @@ unpacked.disk
                 /\ linked' = [id \in {v \in DOMAIN vs : save(start, v).name # None}
                                 |-> <<save(start, id).name>>]
                              @@ [f \in DOMAIN ps |-> <<photo(f)>>]
    /\ runs' = runs + 1
    /\ UNCHANGED <<har, log, run, deletes, curated, fetched, died>>

Next == BeginExtraction \/ ScanWacz \/ StepVideo \/ StepPhoto \/ Finish \/ Die \/ Delete

Spec == Init /\ [][Next]_acqVars

-----------------------------------------------------------------------------

\* The media the entities are attached to, after an extraction.
Extracted ==
    Attach(Scan.entities, LocalFilesMap(Scan.videos, Scan.photos, linked))

\* Type invariant: names on disk belong to assets of this HAR, whatever is
\* linked or logged too.
TypeOK ==
    LET assets == DOMAIN Scan.videos \cup DOMAIN Scan.photos IN
    /\ har \in Hars
    /\ \A n \in DOMAIN disk : n.id \in assets /\ disk[n] \in Nat
    /\ \A l \in log : DOMAIN l \subseteq assets
    /\ run # None => run.todo \subseteq assets /\ DOMAIN run.local \subseteq assets
    /\ DOMAIN linked \subseteq assets /\ curated \subseteq assets /\ fetched \subseteq assets
    /\ runs \in 0..MaxRuns /\ deletes \in 0..MaxDeletes

\* What the operator deleted is not fetched again, however often the archive is
\* extracted and whatever dies (VideoAcquisitionConfig: user deletions are sticky), as
\* long as the log that knows of it was not torn, the setting is the default and full
\* versions of fetched tracks are not asked for.
DeletionsStick ==
    [][\A a \in fetched' \ fetched :
          a \in curated => run.cfg.onLogged = "redownload" \/ run.cfg.fullTracks]_acqVars

\* Every file that the last extraction linked is in the saved log under its asset, where
\* there is a log, so that a later deletion of it can be recognised.
LogCoversLinks ==
    \A l \in log : \A id \in DOMAIN linked : id \in DOMAIN l /\ ToSet(linked[id]) \subseteq l[id].names

\* The browser fetched the first bytes of the item under some version's file name, with
\* or without a usable id.
Fetched(u) ==
    \E e \in ToSet(har.entries) : e.type = "video" /\ e.url.file = u.file /\ e.seg # None
                                  /\ SegStart(e.seg) = 0

Watched(x) == \E u \in ToSet(x.versions) : Fetched(u)

\* A file of the item's pictures is linked, not its sound alone.
StoredIn(local, files) ==
    LET vs == Scan.videos IN
    \E id \in DOMAIN local \cap DOMAIN vs : \E n \in ToSet(local[id]) :
        \/ n.form = "full" /\ vs[id].full \in files
        \/ n.form = "merged" /\ TrackFiles(vs[id]) \cap files # {}
        \/ n.form \in {"har_segments", "full_track"} /\ n.file \in files

\* The first extraction that may write ends, and nothing but the CDN failed it.
FirstExtractionEnds ==
    run # None /\ run' = None /\ run.todo = {} /\ run.smooth /\ run.cfg.missing /\ runs = 1

\* Of the tracks that were fetched the largest is kept ("keep track of the largest video
\* file"): a video of a structure whose first bytes are in the HAR is stored.
WatchedIsStored ==
    [][FirstExtractionEnds =>
       \A x \in ToSet(Scan.items) :
          Watched(x) => StoredIn(run.local, {u.file : u \in ToSet(x.versions)})]_acqVars

\* The asset of a file was fetched in one quality: one track of pictures, one of sound.
OneQuality(file) ==
    \A id \in DOMAIN Scan.videos : file \in TrackFiles(Scan.videos[id]) =>
        /\ Cardinality(TrackFiles(Scan.videos[id]) \cap Audio) <= 1
        /\ Cardinality(TrackFiles(Scan.videos[id]) \ Audio) <= 1

\* A video of a structure that was fetched in one quality, first bytes included, is
\* stored by the first extraction that may write, whatever the CDN answers and under
\* whichever of its names it was fetched.
OneQualityIsStored ==
    [][FirstExtractionEnds =>
       \A x \in ToSet(Scan.items) :
          (\E u \in ToSet(x.versions) : Fetched(u) /\ OneQuality(u.file)) =>
             StoredIn(run.local, {u.file : u \in ToSet(x.versions)})]_acqVars

\* The bytes of a reassembled track have no hole and leave nothing out that
\* could be had: they are the longest prefix the segments cover.
Covered(segs, n) ==
    \A b \in 0..(n - 1) : \E i \in DOMAIN segs :
        SegStart(segs[i]) <= b /\ b < SegStart(segs[i]) + segs[i].len

AssemblyIsLongestPrefix ==
    \A segs \in SegmentLists :
        /\ Covered(segs, Assemble(segs))
        /\ ~Covered(segs, Assemble(segs) + 1)

\* Two entries end in one cluster exactly when a chain of shared identifiers
\* leads from one to the other: no set closed under sharing separates them.
Closed(keys, S) ==
    \A i \in S, j \in DOMAIN keys :
        (\E k \in DOMAIN keys[i] : keys[i][k] # None /\ keys[i][k] = keys[j][k]) => j \in S

ClustersAreChains ==
    \A keys \in KeyLists : \A i, j \in DOMAIN keys :
        (\E c \in Clusters(keys) : {i, j} \subseteq c)
            <=> \A S \in SUBSET DOMAIN keys : Closed(keys, S) /\ i \in S => j \in S

\* In the summary a post stands under an account of its own platform and id,
\* although Instagram and Threads number users and posts alike.
PostsStandUnderAuthors ==
    runs = 0 =>
    \A es \in {Extracted} : \A at \in {Nest(es)} : \A i \in DOMAIN es :
        es[i].kind = "post" /\ es[i].account.pk # None =>
            /\ at[i] # None
            /\ es[at[i]].plat = es[i].plat /\ es[at[i]].pk = es[i].account.pk

\* What a GraphQL or Threads response holds is extracted although another part
\* of the response cannot be converted.
GoodPartsSurvive ==
    runs = 0 =>
    \A ss \in {Structures(har)}, es \in {Extracted} :
    \A s \in DOMAIN ss : \A p \in DOMAIN ss[s].parts :
        ss[s].type \in {"graphql", "threads"} /\ ~ss[s].parts[p].broken =>
            \A part \in {PartEntities(ss[s].type, ss[s].parts[p])} :
            \A e \in DOMAIN part : part[e].pk # None =>
                \E x \in DOMAIN es : /\ es[x].kind = part[e].kind /\ es[x].plat = part[e].plat
                                     /\ es[x].pk = part[e].pk

\* What an extraction computes and records is exact, whatever the archive: the assembly
\* of segments and the clustering of observations are what their reference definitions
\* say, and the log covers what was linked.
ExtractionIsExact == AssemblyIsLongestPrefix /\ ClustersAreChains /\ LogCoversLinks

\* A media entity is attached whenever an asset that bears its URL is linked,
\* and to a file of that asset.
LinkedIsAttached ==
    run = None =>
    LET vs == Scan.videos  es == OfKind(Extracted, "media") IN
    \A i \in DOMAIN es : \A id \in DOMAIN linked \cap DOMAIN vs :
        es[i].url \in TrackFiles(vs[id]) \cup {vs[id].full} => es[i].local = linked[id][1]

\* What is made of an archive is whole: every linked file is attached to the entity that
\* bears its URL, posts stand under their authors, and a broken part costs no other.
EntitiesAreWhole == TypeOK /\ LinkedIsAttached /\ PostsStandUnderAuthors /\ GoodPartsSurvive

-----------------------------------------------------------------------------
(* Assumptions                                                             *)

\* VideoAcquisitionConfig and PhotoAcquisitionConfig
ConfigsAssumption ==
    \A cfg \in Configs : cfg.onLogged \in {"har_only", "skip", "redownload"}
ASSUME ConfigsAssumption

\* SQL's and JSON's null is no number, and what comes without a range is the whole file.
SegmentsAssumption ==
    /\ None \notin Nat
    /\ \A segs \in SegmentLists :
          /\ segs = [i \in 1..Len(segs) |-> segs[i]] /\ Len(segs) \in Nat
          /\ \A i \in DOMAIN segs :
                /\ segs[i].start \in Nat \cup {None} /\ segs[i].len \in Nat
                /\ segs[i].start = None =>
                      \A j \in DOMAIN segs : SegStart(segs[j]) + segs[j].len <= segs[i].len
ASSUME SegmentsAssumption

\* The entries of a list are of one kind, which has one or two keys.
KeysAssumption ==
    \A keys \in KeyLists :
        /\ IsFiniteSet(DOMAIN keys)
        /\ \A i, j \in DOMAIN keys : DOMAIN keys[i] = DOMAIN keys[j] /\ DOMAIN keys[i] \subseteq 1..2
ASSUME KeysAssumption
=============================================================================
