----------------------------- MODULE Acquisition -----------------------------
(***************************************************************************)
(* The media of an archive (extractors/extract_videos.py, extract_photos.py*)
(* and the download log): what one extraction of archive.har finds, how it *)
(* names each asset, what it saves, downloads or leaves alone, and what    *)
(* the log remembers for the next extraction.                              *)
(*                                                                         *)
(* A URL is [file, id]: the name of the file, which is content-addressed,  *)
(* and the asset id its query carries (None where that cannot be decoded). *)
(* The bytes of a file are its length; a segment is [start, len] with      *)
(* start = None where neither the URL nor the headers state a range.       *)
(***************************************************************************)
EXTENDS Naturals, SequencesExt, FiniteSetsExt

CONSTANTS
    None,
    Hars,       \* the captured sessions, see Entities for their structures
    Configs,    \* acquisition settings an extraction may run with
    FullSize,   \* length of each file on the CDN
    Audio,      \* the files that are audio tracks
    MaxRuns,    \* bound: extractions of the archive
    MaxDeletes  \* bound: files the operator deletes

VARIABLES
    har,        \* the HAR of this archive
    disk,       \* videos/ and photos/: name of each file and its length
    log,        \* {l}: downloaded_media_log.json as saved; {}: absent or torn
    run,        \* the extraction in progress, or None
    linked,     \* local_files of each asset at the end of the last extraction
    runs, deletes,
    curated,    \* history: linked assets whose last file the operator deleted while there was a
                \* log, which no death has torn since
    fetched,    \* history: assets this extraction asked the CDN for
    died        \* bound: an extraction was killed before it saved the log

acqVars == <<har, disk, log, run, linked, runs, deletes, curated, fetched, died>>

Or(a, b) == IF a # None THEN a ELSE b

\* F(x) with x evaluated once, however often F mentions it.
With(x, F(_)) == CHOOSE r \in {F(y) : y \in {x}} : TRUE

-----------------------------------------------------------------------------
(* Video segments of the HAR                                               *)

Video(id) == [id |-> id, tracks |-> <<>>, full |-> None, requested |-> FALSE]

TrackFiles(v) == {v.tracks[i].file : i \in DOMAIN v.tracks}

\* A segment joins the track of its file, or opens one.
AddSegment(v, file, seg) ==
    IF file \in TrackFiles(v)
    THEN [v EXCEPT !.tracks = [i \in DOMAIN @ |->
            IF @[i].file = file THEN [@[i] EXCEPT !.segs = Append(@, seg)] ELSE @[i]]]
    ELSE [v EXCEPT !.tracks = Append(@, [file |-> file, segs |-> <<seg>>])]

\* accumulate_video_segment: by the id of the URL, else by its file name.
AccumulateVideoSegment(acc, e) ==
    LET part == IF e.url.id # None THEN "real" ELSE "fallback"
        key == Or(e.url.id, e.url.file)
        v == IF key \in DOMAIN acc[part] THEN acc[part][key] ELSE Video(key)
    IN [acc EXCEPT ![part] = (key :> AddSegment(v, e.url.file, e.seg)) @@ @,
                   !.names = IF e.url.id # None THEN (e.url.file :> e.url.id) @@ @ ELSE @]

\* The tracks of v move under the canonical id.
Rekey(dict, v, id) ==
    IF id \in DOMAIN dict
    THEN [dict EXCEPT ![id].tracks =
            @ \o SelectSeq(v.tracks, LAMBDA t : t.file \notin TrackFiles(dict[id]))]
    ELSE (id :> [v EXCEPT !.id = id]) @@ dict

\* The id of an item: its DASH manifest's, else its first URL's, else its pk.
CanonicalId(item, urls) ==
    Or(IF item.dash # None THEN item.dash.id ELSE None, Or(urls[1].id, item.pk))

\* _build_filename_xpv_map: every version of an item; the first item of a pk.
BuildFilenameXpvMap(items) ==
    FoldLeft(LAMBDA acc, item :
        IF item.versions = <<>> \/ item.pk \in acc.seen THEN acc
        ELSE [seen |-> acc.seen \cup {item.pk},
              map |-> acc.map @@ [f \in {u.file : u \in ToSet(item.versions)} |->
                                    CanonicalId(item, item.versions)]],
        [seen |-> {}, map |-> <<>>], items).map

\* reconcile_video_dicts
ReconcileVideoDicts(acc, items) ==
    LET names == acc.names @@ BuildFilenameXpvMap(items)
    IN FoldLeft(LAMBDA dict, f :
            Rekey(dict, acc.fallback[f], IF f \in DOMAIN names THEN names[f] ELSE f),
            acc.real, SetToSeq(DOMAIN acc.fallback))

\* _scan_har_once: the videos of the entries that have a body.
HarVideos(h, items) ==
    ReconcileVideoDicts(
        FoldLeft(AccumulateVideoSegment, [real |-> <<>>, fallback |-> <<>>, names |-> <<>>],
                 SelectSeq(h.entries, LAMBDA e : e.type = "video" /\ e.seg # None)), items)

\* extract_videos_from_structures: by pk, the last item of a pk counts.
StructureVideos(items) ==
    LET urls(item) == IF item.versions # <<>> THEN item.versions
                      ELSE IF item.dash # None THEN <<item.dash>> ELSE <<>>
        last == SelectSeq([i \in DOMAIN items |-> [item |-> items[i], i |-> i]],
                  LAMBDA x : /\ urls(x.item) # <<>>
                             /\ ~\E j \in DOMAIN items : /\ j > x.i /\ urls(items[j]) # <<>>
                                                         /\ items[j].pk = x.item.pk)
    IN FoldLeft(LAMBDA dict, x :
            LET id == CanonicalId(x.item, urls(x.item)) IN
            (id :> [Video(id) EXCEPT !.full = urls(x.item)[1].file]) @@ dict, <<>>, last)

\* _requested_xpvs_from_urls: a request counts without its body.
RequestedXpvs(h, names) ==
    LET urls == {e.url : e \in {x \in ToSet(h.entries) : x.type = "video"}}
    IN {IF u.file \in DOMAIN names THEN names[u.file] ELSE u.file : u \in urls}
        \cup ({u.id : u \in urls} \ {None})

\* Mutant: the entries keyed by file name are not looked up again.
CombinedVideos_NoRekey(h, items) ==
    LET hv == HarVideos(h, <<>>)  sv == StructureVideos(items)
    IN [id \in DOMAIN hv \cup DOMAIN sv |->
        IF id \in DOMAIN hv
        THEN [hv[id] EXCEPT !.full = IF id \in DOMAIN sv THEN sv[id].full ELSE @] ELSE sv[id]]

\* acquire_videos: HAR and structures under canonical ids, requests marked.
CombinedVideos(h, items) ==
    LET combine(names, hv, sv) ==
            LET moved == {f \in DOMAIN hv : f \in DOMAIN names /\ names[f] # f} IN
            With(FoldLeft(LAMBDA dict, f : Rekey(dict, hv[f], names[f]),
                          [id \in DOMAIN hv \ moved |-> hv[id]], SetToSeq(moved)), LAMBDA rekeyed :
                [id \in DOMAIN rekeyed \cup DOMAIN sv |->
                    [(IF id \in DOMAIN rekeyed THEN rekeyed[id] ELSE sv[id]) EXCEPT
                        !.full = IF id \in DOMAIN sv THEN sv[id].full ELSE @,
                        !.requested = id \in RequestedXpvs(h, names)]])
    IN With(BuildFilenameXpvMap(items), LAMBDA names :
           With(HarVideos(h, items), LAMBDA hv :
               With(StructureVideos(items), LAMBDA sv : combine(names, hv, sv))))

-----------------------------------------------------------------------------
(* Photos: the asset id is the file name                                   *)

\* The last body fetched for each image; a WACZ's empty ones do not count.
HarPhotos(h) ==
    FoldLeft(LAMBDA photos, e : (e.url.file :> e.size) @@ photos, <<>>,
             SelectSeq(h.entries, LAMBDA e : e.type = "image" /\ (h.wacz => e.size > 0)))

\* extract_photos_from_structures: the first candidate of every item.
StructurePhotos(items) == {x.image : x \in ToSet(items)} \ {None}

CombinedPhotos(h, items) ==
    LET hp == HarPhotos(h)  sp == StructurePhotos(items) IN
    [f \in DOMAIN hp \cup sp |-> [id |-> f, body |-> IF f \in DOMAIN hp THEN hp[f] ELSE None,
                                  full |-> IF f \in sp THEN f ELSE None]]

-----------------------------------------------------------------------------
(* Saving one video                                                        *)

Name(id, form, file) == [id |-> id, form |-> form, file |-> file]

Without(d, names) == [n \in DOMAIN d \ names |-> d[n]]

SegStart(s) == IF s.start = None THEN 0 ELSE s.start

\* Mutant: the data ends where the last segment ends.
Assemble_WithHoles(segs) ==
    Max({0} \cup {SegStart(segs[i]) + segs[i].len : i \in DOMAIN segs})

\* sort(key = the first byte)
Sorted(segs) ==
    LET order == CHOOSE p \in [DOMAIN segs -> DOMAIN segs] : \A i, j \in DOMAIN segs :
                    i < j => p[i] # p[j] /\ SegStart(segs[p[i]]) <= SegStart(segs[p[j]])
    IN [i \in DOMAIN segs |-> segs[order[i]]]

\* The bytes from 0 to the first gap; a segment without range is the file.
Assemble(segs) ==
    LET sorted == Sorted(segs)
        whole == {i \in DOMAIN segs : segs[i].start = None}
        end[n \in 0..Len(segs)] ==
            IF n = 0 THEN 0
            ELSE IF sorted[n].start <= end[n - 1]
                 THEN Max({end[n - 1], sorted[n].start + sorted[n].len})
                 ELSE end[n - 1]
    IN IF whole # {} THEN segs[Min(whole)].len ELSE end[Len(segs)]

\* One round of save_fetched_asset's loop.  st is [disk, audio, video, raised]: the files
\* and the track to keep of each kind.  A larger track takes the place of the one to keep
\* and is itself deleted; the size of the deleted file, asked for the next one, raises.
SaveTrack(st, id, track, form, bad) ==
    LET name == Name(id, form, track.file)
        size == IF form = "full_track" THEN FullSize[track.file] ELSE Assemble(track.segs)
        kind == IF track.file \in Audio THEN "audio" ELSE "video"
        best == st[kind]
        kept == (name :> size) @@ st.disk
    IN IF st.raised THEN st
       ELSE IF size = 0 \/ track.file \in bad THEN [st EXCEPT !.disk = Without(@, {name})]
       ELSE IF best = None THEN [st EXCEPT !.disk = kept, ![kind] = name]
       ELSE IF best \notin DOMAIN kept THEN [st EXCEPT !.disk = kept, !.raised = TRUE]
       ELSE IF size > kept[best] THEN [st EXCEPT !.disk = Without(kept, {name}), ![kind] = name]
       ELSE [st EXCEPT !.disk = kept]

\* save_fetched_asset.  o says what the network, ffmpeg and the disk do; the
\* answer is the new disk and the file to link, or None, or that it raised.
SaveFetchedAsset(d, v, download, o) ==
    LET form == IF download /\ o.cdn THEN "full_track" ELSE "har_segments"
        merged == Name(v.id, "merged", None)
        result(st) ==
            LET merges == o.merge /\ {st.audio, st.video} \subseteq DOMAIN st.disk
                after == IF merges THEN (merged :> st.disk[st.video] + st.disk[st.audio])
                                        @@ Without(st.disk, {st.audio, st.video})
                         ELSE st.disk
                best == IF merges THEN merged ELSE Or(st.video, st.audio)
            IN IF st.raised THEN [disk |-> st.disk, name |-> None, raised |-> TRUE]
               ELSE [disk |-> after, raised |-> FALSE,
                     name |-> IF best \in DOMAIN after /\ o.protect THEN best ELSE None]
    IN With(FoldLeft(LAMBDA s, t : SaveTrack(s, v.id, t, form, o.bad),
                     [disk |-> d, audio |-> None, video |-> None, raised |-> FALSE], v.tracks), result)

\* download_full_asset
DownloadFullAsset(d, v, o) ==
    LET name == Name(v.id, "full", None) IN
    IF v.full = None \/ ~o.cdn THEN [disk |-> d, name |-> None, raised |-> FALSE]
    ELSE [disk |-> (name :> FullSize[v.full]) @@ d, name |-> IF o.protect THEN name ELSE None,
          raised |-> FALSE]

\* get_existing_videos and the stems a video may have been saved under.
ExistingVideo(d, v) ==
    SelectSeq(<<Name(v.id, "merged", None), Name(v.id, "full", None)>>
        \o FlattenSeq([i \in DOMAIN v.tracks |->
             <<Name(v.id, "har_segments", v.tracks[i].file),
               Name(v.id, "full_track", v.tracks[i].file)>>]), LAMBDA n : n \in DOMAIN d)

\* get_existing_photos
ExistingPhoto(d, p) ==
    SelectSeq(<<Name(p.id, "photo_full", None), Name(p.id, "photo", None)>>, LAMBDA n : n \in DOMAIN d)

\* save_fetched_photo, download_full_asset of photos
SavePhoto(d, p, form, o) ==
    LET name == Name(p.id, form, None)
        size == IF form = "photo" THEN p.body ELSE FullSize[p.id]
    IN IF form = "photo_full" /\ ~o.cdn THEN [disk |-> d, name |-> None]
       ELSE [disk |-> (name :> size) @@ d, name |-> IF o.protect THEN name ELSE None]

-----------------------------------------------------------------------------
(* The download log                                                        *)

\* _matched_source, _photo_source
Source(name, full) ==
    CASE name.form \in {"full", "photo_full"} -> "full_asset"
      [] name.form = "har_segments" -> "har_segments"
      [] name.form = "full_track" -> "har_full_track"
      [] name.form = "photo" -> "har_image_bytes"
      [] OTHER -> IF full # None THEN "full_asset" ELSE "har_segments"

\* f with r for id.
Put(f, id, r) == [x \in DOMAIN f \cup {id} |-> IF x = id THEN r ELSE f[x]]

\* Mutant: an asset that is on record is not written again.
Upsert_OnlyNew(l, id, names, source) ==
    IF id \in DOMAIN l THEN l ELSE Put(l, id, [names |-> names, source |-> source])

\* _upsert: names are never forgotten.
Upsert(l, id, names, source) ==
    Put(l, id, [names |-> names \cup (IF id \in DOMAIN l THEN l[id].names ELSE {}), source |-> source])

\* load: no log, or one that cannot be parsed, is an empty one.
Load(l) == IF l = {} THEN <<>> ELSE CHOOSE x \in l : TRUE

-----------------------------------------------------------------------------
(* One extraction                                                          *)

Init ==
    /\ har \in Hars
    /\ disk = <<>> /\ log = {} /\ run = None /\ linked = <<>>
    /\ runs = 0 /\ deletes = 0
    /\ curated = {} /\ fetched = {} /\ died = FALSE

Fetches(a) == fetched' = fetched \cup {a}

\* The asset is stored under name: linked and logged.
Stored(id, name, full, o) ==
    run' = [run EXCEPT !.todo = @ \ {id},
                       !.smooth = run.smooth /\ o.merge /\ o.protect /\ o.bad = {},
                       !.local = IF name = None THEN @ ELSE Put(@, id, <<name>>),
                       !.log = IF name = None THEN @ ELSE Upsert(@, id, {name}, Source(name, full))]

Skip(id) == run' = [run EXCEPT !.todo = @ \ {id}] /\ UNCHANGED <<disk, fetched>>

\* extract_data_from_har up to the first asset: scan, log, files on disk.
Begin(cfg, vs, ps) ==
    LET video(id) == IF id \in DOMAIN vs THEN ExistingVideo(disk, vs[id]) ELSE <<>>
        photo(id) == IF id \in DOMAIN ps THEN ExistingPhoto(disk, ps[id]) ELSE <<>>
        found(id) == IF video(id) # <<>> THEN video(id) ELSE photo(id)
        assets == DOMAIN vs \cup DOMAIN ps
    IN /\ run = None /\ runs < MaxRuns
       /\ run' = [cfg |-> cfg, videos |-> vs, photos |-> ps, todo |-> assets, log |-> Load(log),
                  smooth |-> TRUE, local |-> [id \in {x \in assets : found(x) # <<>>} |-> found(id)]]
       /\ runs' = runs + 1 /\ fetched' = {}
       /\ UNCHANGED <<har, disk, log, linked, deletes, curated, died>>

\* A file on disk is linked and its log entry refreshed.
Refresh(id) ==
    LET x == IF id \in DOMAIN run.videos THEN run.videos[id] ELSE run.photos[id]
        names == run.local[id] IN
    /\ run' = [run EXCEPT !.todo = @ \ {id},
                          !.log = Upsert(@, id, ToSet(names), Source(names[1], x.full))]
    /\ UNCHANGED <<disk, fetched>>

Logged(id) == id \in DOMAIN run.log

\* skip_video
SkippedVideo(v) ==
    \/ ~run.cfg.notInStructures /\ v.full = None
    \/ ~run.cfg.unfetched /\ v.tracks = <<>> /\ ~v.requested

\* Mutant: a logged video whose file is gone is acquired like a new one.
HarOnly_Never(id) == FALSE

\* The operator deleted it: under the default policy only the HAR may serve.
HarOnly(id) == Logged(id) /\ run.cfg.onLogged = "har_only"

\* What a video was saved as goes to the log; asked: the CDN was asked for it.  What
\* save_fetched_asset raises ends the extraction, whose log is not saved.
Keep(v, saved, asked, o) ==
    /\ \/ saved.raised /\ run' = None
       \/ ~saved.raised /\ Stored(v.id, saved.name, v.full, o)
    /\ disk' = saved.disk
    /\ IF asked THEN Fetches(v.id) ELSE UNCHANGED fetched

\* The body of the loop over combined_videos.
AcquireVideo(v, o) ==
    LET online == run.cfg.fullTracks /\ v.tracks # <<>>
        fromHar(d) == SaveFetchedAsset(d, v, run.cfg.fullTracks, o)
    IN CASE v.id \in DOMAIN run.local -> Refresh(v.id)
         [] v.id \notin DOMAIN run.local /\ ~run.cfg.missing -> Skip(v.id)
         [] v.id \notin DOMAIN run.local /\ run.cfg.missing
              /\ Logged(v.id) /\ run.cfg.onLogged = "skip" -> Skip(v.id)
         [] v.id \notin DOMAIN run.local /\ run.cfg.missing /\ HarOnly(v.id) ->
              IF v.tracks = <<>> THEN Skip(v.id)
              ELSE \E saved \in {fromHar(disk)} : Keep(v, saved, online, o)
         [] OTHER ->
              IF SkippedVideo(v) THEN Skip(v.id)
              ELSE \E whole \in {IF run.cfg.highest THEN DownloadFullAsset(disk, v, o)
                                 ELSE [disk |-> disk, name |-> None, raised |-> FALSE]} :
                   \E saved \in {IF whole.name # None \/ v.tracks = <<>> THEN whole
                                 ELSE fromHar(whole.disk)} :
                       Keep(v, saved, online \/ (run.cfg.highest /\ v.full # None), o)

\* The body of the loop over the photos.
AcquirePhoto(p, o) ==
    LET bytes == SavePhoto(disk, p, "photo", o)
        whole == IF run.cfg.highest /\ p.full # None THEN SavePhoto(disk, p, "photo_full", o)
                 ELSE [disk |-> disk, name |-> None]
        saved == IF whole.name # None THEN whole
                 ELSE IF p.body = None THEN whole ELSE SavePhoto(whole.disk, p, "photo", o)
        skipped == \/ ~run.cfg.notInStructures /\ p.full = None
                   \/ ~run.cfg.unfetched /\ p.body = None
    IN CASE p.id \in DOMAIN run.local -> Refresh(p.id)
         [] p.id \notin DOMAIN run.local /\ ~run.cfg.missing -> Skip(p.id)
         [] p.id \notin DOMAIN run.local /\ run.cfg.missing
              /\ Logged(p.id) /\ run.cfg.onLogged = "skip" -> Skip(p.id)
         [] p.id \notin DOMAIN run.local /\ run.cfg.missing /\ HarOnly(p.id) ->
              IF p.body = None THEN Skip(p.id)
              ELSE Stored(p.id, bytes.name, p.full, o) /\ disk' = bytes.disk /\ UNCHANGED fetched
         [] OTHER ->
              IF skipped THEN Skip(p.id)
              ELSE /\ Stored(p.id, saved.name, p.full, o) /\ disk' = saved.disk
                   /\ IF run.cfg.highest /\ p.full # None THEN Fetches(p.id) ELSE UNCHANGED fetched

Outcomes(files) == [cdn : BOOLEAN, merge : BOOLEAN, protect : BOOLEAN, bad : SUBSET files]

Rest == UNCHANGED <<har, log, linked, runs, deletes, curated, died>>

StepVideo ==
    /\ run # None
    /\ \E id \in run.todo \cap DOMAIN run.videos :
         \E o \in Outcomes(TrackFiles(run.videos[id])) : AcquireVideo(run.videos[id], o)
    /\ Rest

\* Photos come after the videos.
StepPhoto ==
    /\ run # None /\ run.todo \cap DOMAIN run.videos = {}
    /\ \E id \in run.todo : \E o \in Outcomes({}) : AcquirePhoto(run.photos[id], o)
    /\ Rest

\* dl.save, once all assets are done.
Save == run.log

Finish ==
    /\ run # None /\ run.todo = {}
    /\ log' = {Save} /\ linked' = run.local /\ run' = None
    /\ UNCHANGED <<har, disk, runs, deletes, curated, fetched, died>>

\* The process is killed; the log is written in place and may be torn.
Die ==
    /\ run # None /\ ~died
    /\ run' = None /\ died' = TRUE
    /\ \/ UNCHANGED <<log, curated>>
       \/ log' = {} /\ curated' = {}
    /\ UNCHANGED <<har, disk, linked, runs, deletes, fetched>>

\* Between extractions the operator curates the archive by deleting files.
Delete ==
    /\ run = None /\ deletes < MaxDeletes
    /\ \E n \in DOMAIN disk :
         /\ disk' = Without(disk, {n})
         /\ curated' = IF \/ log = {} \/ n.id \notin DOMAIN linked
                          \/ \E m \in DOMAIN disk \ {n} : m.id = n.id
                       THEN curated ELSE curated \cup {n.id}
    /\ deletes' = deletes + 1
    /\ UNCHANGED <<har, log, run, linked, runs, fetched, died>>
=============================================================================
