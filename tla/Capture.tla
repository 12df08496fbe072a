------------------------------ MODULE Capture -------------------------------
(***************************************************************************)
(* One archive directory from the browser session to the sealed archive:   *)
(* archive.py records and post-processes it, resume_archive.py takes up a  *)
(* session that died, finalize_archive.py re-seals after more curation,    *)
(* utils/integrity protects, prunes and seals, verify.py checks.  Each     *)
(* program is a script of steps; it may be killed between any two of them, *)
(* and a step may fail the way its except clause, or its lack of one,      *)
(* decides.  What is acquired and extracted is in Acquisition, Entities.   *)
(***************************************************************************)
EXTENDS Naturals, FiniteSets

CONSTANTS
    Bodies,       \* response bodies the browser may attach to the HAR
    Media,        \* media assets the HAR leads to
    Shots,        \* frames of the screen that may be hashed
    MaxRuns,      \* programs started on the directory, the first included
    MaxCrashes,   \* programs killed
    MaxFaults     \* steps that fail, and dialogs that are cancelled

ASSUME CaptureAssumption ==
    /\ {MaxRuns, MaxCrashes, MaxFaults, Shots} \subseteq Nat /\ MaxRuns # 0
    /\ (Bodies \cup Media) \cap {"archive.har", "unmerged", "log", "recording", "frames"} = {}

VARIABLES
    ws,         \* har_workspace/: the HAR index and the attached bodies
    har,        \* archive.har: {} or {the set of bodies inlined in it}
    rec,        \* screen recording: the state of its file
    shots,      \* frames in frame_hashes.jsonl
    media,      \* assets in videos/ and photos/
    log,        \* downloaded_media_log.json: the assets on record
    manifest,   \* asset -> its .manifest.json: what it hashes, the run that made it, torn or not
    par2,       \* what the log's PAR2 files restore: {} or {the assets on record}
    meta,       \* metadata.json: {}, {torn} or {what it says}
    affidavit,  \* affidavit.txt, likewise
    seal,       \* manifests.json: {} or {the manifests it commits to}
    proc,       \* the program at work and its step
    runs, crashes, faults,
    captured,   \* history: bodies attached when the HAR was written
    done        \* history: the program that last ended without a failure

files == <<ws, har, rec, shots, media, log, manifest, par2, meta, affidavit, seal>>
vars == <<files, proc, runs, crashes, faults, captured, done>>

NoWs == [index |-> FALSE, bodies |-> {}]
Torn == [har |-> {}, rec |-> {}, torn |-> TRUE]   \* metadata or affidavit, cut off
Idle == [prog |-> "none", at |-> "none", path |-> "archive.har", clean |-> TRUE,
         har |-> {}, hand |-> {}]

Programs == {"archive", "resume", "finalize"}

First(prog) ==
    CASE prog = "archive" -> "record" [] prog = "resume" -> "merge" [] prog = "finalize" -> "read"

\* The steps of the programs, in order.  resume_archive.py merges before it asks
\* and ends with finalize_archive, as archive.py does when there is curation.
After(step) ==
    CASE step = "record" -> "dialog"
      [] step = "dialog" -> IF proc.prog = "archive" THEN "encode" ELSE "har"
      [] step = "encode" -> "encoded"
      [] step = "encoded" -> "video"
      [] step = "video" -> "frames"
      [] step = "frames" -> "merge"
      [] step = "merge" -> "replace"
      [] step = "replace" -> "clear"
      [] step = "clear" -> IF proc.prog = "archive" THEN "har" ELSE "dialog"
      [] step = "har" -> "metadata"
      [] step = "metadata" -> "affidavit"
      [] step = "affidavit" -> "prune"
      [] step = "prune" -> "acquire"
      [] step = "acquire" -> "save"
      [] step \in {"save", "read"} -> "curate"
      [] step = "curate" -> "prune_again"
      [] step = "prune_again" -> "save_again"
      [] step = "save_again" -> "log"
      [] step = "log" -> "seal"
      [] step = "seal" -> "end"

At(step) == proc.at = step

\* What a program does to its own record: go on with a step, or end.
Ends(p) ==
    /\ proc' = Idle
    /\ done' = IF p.clean THEN p.prog ELSE "none"
Goes(p, step) == IF step = "end" THEN Ends(p) ELSE proc' = [p EXCEPT !.at = step] /\ UNCHANGED done
GoesOn(p) == Goes(p, After(p.at))

Faulty == faults < MaxFaults /\ faults' = faults + 1
Fine == UNCHANGED faults
Unclean == [proc EXCEPT !.clean = FALSE]
Rest == UNCHANGED <<runs, crashes, captured>>

-----------------------------------------------------------------------------
(* Protecting a file                                                       *)

Present(a) ==
    \/ a = "archive.har" /\ har # {}
    \/ a = "unmerged" /\ ws.index
    \/ a = "log" /\ log # {}
    \/ a = "recording" /\ rec \in {"encoding", "mp4"}
    \/ a = "frames" /\ shots > 0
    \/ a \in media

Content(a) ==
    CASE a = "archive.har" -> UNION har
      [] a = "log" -> UNION log
      [] OTHER -> {}

\* write_manifest writes in place: a program killed meanwhile leaves it torn.
WriteManifest(a, torn) ==
    manifest' = [b \in DOMAIN manifest \cup {a} |->
                    IF b = a THEN [of |-> Content(a), run |-> runs, torn |-> torn] ELSE manifest[b]]

\* protect_file writes the PAR2 files, which may fail and then leaves those
\* that are there, and then the manifest.
Protected(a) ==
    /\ WriteManifest(a, FALSE)
    /\ par2' \in {par2, IF a = "log" THEN {Content(a)} ELSE par2}

\* A file that may or may not be there, its protection under an except clause
\* of its own.
ProtectStep(step, a) ==
    /\ At(step)
    /\ \/ Present(a) /\ Protected(a) /\ Fine /\ GoesOn(proc)
       \/ ~Present(a) /\ UNCHANGED <<manifest, par2>> /\ Fine /\ GoesOn(proc)
       \/ Present(a) /\ UNCHANGED <<manifest, par2>> /\ Faulty /\ GoesOn(Unclean)
    /\ UNCHANGED <<ws, har, rec, shots, media, log, meta, affidavit, seal>>

\* prune_orphan_sidecars of videos/ and photos/.
Orphans == {a \in DOMAIN manifest : a \in Media /\ a \notin media}
Without(f, S) == [x \in DOMAIN f \ S |-> f[x]]

-----------------------------------------------------------------------------
(* The session and archive.py                                              *)

Init ==
    /\ ws = NoWs /\ har = {} /\ rec \in {"none", "raw"} /\ shots = 0
    /\ media = {} /\ log = {} /\ manifest = <<>> /\ par2 = {}
    /\ meta = {} /\ affidavit = {} /\ seal = {}
    /\ proc = [Idle EXCEPT !.prog = "archive", !.at = "record", !.path = "unmerged"]
    /\ runs = 1 /\ crashes = 0 /\ faults = 0 /\ captured = {} /\ done = "none"

\* Playwright attaches a response body to the HAR.
Attach ==
    /\ At("record")
    /\ \E b \in Bodies \ ws.bodies : ws' = [ws EXCEPT !.bodies = @ \cup {b}]
    /\ UNCHANGED <<har, rec, shots, media, log, manifest, par2, meta, affidavit, seal>>
    /\ UNCHANGED <<proc, faults, done>> /\ Rest

\* screen_record adds a frame to the recording and its hash to frame_hashes.jsonl.
Shoot ==
    /\ At("record") /\ rec = "raw" /\ shots < Shots
    /\ shots' = shots + 1
    /\ UNCHANGED <<ws, har, rec, media, log, manifest, par2, meta, affidavit, seal>>
    /\ UNCHANGED <<proc, faults, done>> /\ Rest

\* context.close() writes the HAR index; its failure is only reported.
Close ==
    /\ At("record")
    /\ \/ ws' = [ws EXCEPT !.index = TRUE] /\ captured' = ws.bodies /\ Fine /\ GoesOn(proc)
       \/ UNCHANGED <<ws, captured>> /\ Faulty /\ GoesOn(Unclean)
    /\ UNCHANGED <<har, rec, shots, media, log, manifest, par2, meta, affidavit, seal>>
    /\ UNCHANGED <<runs, crashes>>

\* The finish dialog.  Cancelled, archive.py deletes the directory and
\* resume_archive.py stops.
Dialog ==
    /\ At("dialog") /\ Fine /\ GoesOn(proc)
    /\ UNCHANGED files /\ Rest

CancelArchive ==
    /\ At("dialog") /\ proc.prog = "archive"
    /\ Faulty /\ Ends(Unclean)
    /\ ws' = NoWs /\ rec' = "none" /\ shots' = 0 /\ captured' = {}
    /\ UNCHANGED <<har, media, log, manifest, par2, meta, affidavit, seal, runs, crashes>>

CancelResume ==
    /\ At("dialog") /\ proc.prog = "resume"
    /\ Faulty /\ Ends(Unclean)
    /\ UNCHANGED files /\ Rest

\* ffmpeg writes screen_recording.mp4 beside the raw file ...
Encode ==
    /\ At("encode")
    /\ rec' = IF rec = "raw" THEN "encoding" ELSE rec
    /\ Fine /\ GoesOn(proc)
    /\ UNCHANGED <<ws, har, shots, media, log, manifest, par2, meta, affidavit, seal>> /\ Rest

\* ... which is deleted, or takes its place when ffmpeg fails.
Encoded ==
    /\ At("encoded")
    /\ rec' = IF rec = "encoding" THEN "mp4" ELSE rec
    /\ Fine /\ GoesOn(proc)
    /\ UNCHANGED <<ws, har, shots, media, log, manifest, par2, meta, affidavit, seal>> /\ Rest

Video == ProtectStep("video", "recording") /\ Rest
Frames == ProtectStep("frames", "frames") /\ Rest

-----------------------------------------------------------------------------
(* merge_har_attachments; resume_archive.py's ensure_har_merged            *)

\* Where the merge is called an exception ends resume_archive.py, while
\* archive.py goes on with the unmerged HAR.
MergeFails ==
    /\ UNCHANGED <<ws, har, manifest, par2>>
    /\ IF proc.prog = "resume" THEN Ends(Unclean) ELSE Goes(Unclean, "har")

\* Mutant: a session without a workspace counts as lost.
StartMerge_Strict ==
    /\ At("merge")
    /\ \/ proc.prog = "resume" /\ har # {} /\ ws.index /\ Fine
          /\ Goes([proc EXCEPT !.path = "archive.har"], "dialog") /\ UNCHANGED har
       \/ har = {} /\ ws.index /\ Fine /\ GoesOn(proc) /\ UNCHANGED har
       \/ ~ws.index /\ Fine /\ MergeFails
       \/ ws.index /\ Faulty /\ MergeFails
    /\ UNCHANGED <<ws, rec, shots, media, log, manifest, par2, meta, affidavit, seal>> /\ Rest

\* Mutant: the bodies are inlined into archive.har itself, not a temporary file.
StartMerge_InPlace ==
    /\ At("merge")
    /\ \/ proc.prog = "resume" /\ har # {} /\ Fine
          /\ Goes([proc EXCEPT !.path = "archive.har"], "dialog") /\ UNCHANGED har
       \/ ~(proc.prog = "resume" /\ har # {}) /\ ws.index /\ Fine /\ GoesOn(proc) /\ har' = {{}}
       \/ ~(proc.prog = "resume" /\ har # {}) /\ ~ws.index /\ Fine /\ MergeFails
    /\ UNCHANGED <<ws, rec, shots, media, log, manifest, par2, meta, affidavit, seal>> /\ Rest

\* The bodies are inlined into a temporary file of the workspace.
StartMerge ==
    /\ At("merge")
    /\ \/ proc.prog = "resume" /\ har # {} /\ Fine
          /\ Goes([proc EXCEPT !.path = "archive.har"], "dialog") /\ UNCHANGED har
       \/ ~(proc.prog = "resume" /\ har # {}) /\ ws.index /\ Fine /\ GoesOn(proc) /\ UNCHANGED har
       \/ ~(proc.prog = "resume" /\ har # {}) /\ ~ws.index /\ Fine /\ MergeFails
       \/ ws.index /\ Faulty /\ MergeFails
    /\ UNCHANGED <<ws, rec, shots, media, log, manifest, par2, meta, affidavit, seal>> /\ Rest

\* os.replace
Replace ==
    /\ At("replace")
    /\ har' = {ws.bodies}
    /\ Fine /\ GoesOn(proc)
    /\ UNCHANGED <<ws, rec, shots, media, log, manifest, par2, meta, affidavit, seal>> /\ Rest

\* rmtree has deleted part of the workspace ...
ClearPart ==
    /\ At("clear") /\ ws # NoWs
    /\ ws' \in [index : {FALSE, ws.index}, bodies : SUBSET ws.bodies] \ {ws}
    /\ UNCHANGED <<har, rec, shots, media, log, manifest, par2, meta, affidavit, seal>>
    /\ UNCHANGED <<proc, faults, done>> /\ Rest

\* ... and then all of it, or raises.
Clear ==
    /\ At("clear")
    /\ \/ /\ ws' = NoWs
          /\ manifest' = Without(manifest, {"unmerged"}) /\ UNCHANGED par2
          /\ Fine /\ GoesOn([proc EXCEPT !.path = "archive.har"])
       \/ Faulty /\ MergeFails
    /\ UNCHANGED <<har, rec, shots, media, log, meta, affidavit, seal>> /\ Rest

-----------------------------------------------------------------------------
(* The record of the capture                                               *)

\* The HAR, merged or not; a missing one, or one that cannot be read, goes
\* unprotected.
ProtectHar ==
    /\ At("har")
    /\ \/ /\ Present(proc.path) /\ Protected(proc.path) /\ Fine
          /\ GoesOn([proc EXCEPT !.har = {[file |-> proc.path, of |-> Content(proc.path),
                                           run |-> runs]}])
       \/ /\ ~Present(proc.path) /\ Fine
          /\ UNCHANGED <<manifest, par2>> /\ GoesOn(Unclean)
       \/ /\ Present(proc.path) /\ Faulty
          /\ UNCHANGED <<manifest, par2>> /\ GoesOn(Unclean)
    /\ UNCHANGED <<ws, har, rec, shots, media, log, meta, affidavit, seal>> /\ Rest

\* metadata.video_integrity: of the file just protected, or, resumed, of the
\* manifest that is there and can be read.
VideoIntegrity ==
    IF "recording" \in DOMAIN manifest
    THEN {i \in {manifest["recording"].run} : ~manifest["recording"].torn} ELSE {}

Statement == [har |-> proc.har, rec |-> VideoIntegrity, torn |-> FALSE]

WriteMetadata ==
    /\ At("metadata")
    /\ meta' = {Statement}
    /\ Fine /\ GoesOn(proc)
    /\ UNCHANGED <<ws, har, rec, shots, media, log, manifest, par2, affidavit, seal>> /\ Rest

WriteAffidavit ==
    /\ At("affidavit")
    /\ affidavit' = {Statement}
    /\ Fine /\ GoesOn(proc)
    /\ UNCHANGED <<ws, har, rec, shots, media, log, manifest, par2, meta, seal>> /\ Rest

-----------------------------------------------------------------------------
(* generate_entities_summary                                               *)

\* Mutant: sidecars of deleted media stay.
Prune_Never ==
    /\ At("prune") \/ At("prune_again")
    /\ Fine /\ GoesOn(proc)
    /\ UNCHANGED files /\ Rest

\* Acquisition begins with the pruning.  From an unmerged HAR nothing can be
\* extracted: its bodies are not in it.
Prune ==
    /\ At("prune") \/ At("prune_again")
    /\ \/ /\ proc.path = "archive.har" /\ har # {}
          /\ manifest' = Without(manifest, Orphans) /\ UNCHANGED par2
          /\ Fine /\ GoesOn(proc)
       \/ /\ proc.path = "unmerged" /\ ws.index
          /\ UNCHANGED <<manifest, par2>> /\ Fine /\ GoesOn(proc)
    /\ UNCHANGED <<ws, har, rec, shots, media, log, meta, affidavit, seal>> /\ Rest

\* A medium that is not on disk is stored ...
Store ==
    /\ At("acquire") /\ proc.path = "archive.har" /\ proc.hand = {}
    /\ \E m \in Media \ media :
         /\ media' = media \cup {m}
         /\ proc' = [proc EXCEPT !.hand = {m}]
    /\ UNCHANGED <<ws, har, rec, shots, log, manifest, par2, meta, affidavit, seal>>
    /\ Fine /\ UNCHANGED done /\ Rest

\* ... and protected; a failure leaves it unprotected and out of the log.
ProtectMedium ==
    /\ At("acquire") /\ proc.hand # {}
    /\ \/ \E m \in proc.hand : Protected(m) /\ Fine /\ proc' = [proc EXCEPT !.hand = {}]
       \/ UNCHANGED <<manifest, par2>> /\ Faulty /\ proc' = [Unclean EXCEPT !.hand = {}]
    /\ UNCHANGED <<ws, har, rec, shots, media, log, meta, affidavit, seal, done>> /\ Rest

Acquired ==
    /\ At("acquire") /\ proc.hand = {}
    /\ Fine /\ GoesOn(proc)
    /\ UNCHANGED files /\ Rest

\* dl.save: what was on record and what is on disk; not beside an unmerged HAR.
\* A log cut off in the writing is read as an empty one.
SaveLog ==
    /\ At("save") \/ At("save_again")
    /\ log' = IF proc.path = "archive.har" THEN {(UNION log) \cup media} ELSE log
    /\ Fine /\ GoesOn(proc)
    /\ UNCHANGED <<ws, har, rec, shots, media, manifest, par2, meta, affidavit, seal>> /\ Rest

\* An exception anywhere in it.  archive.py and resume_archive.py catch it;
\* finalize_archive, which resume_archive.py ends with, does not.
SummaryFails ==
    /\ proc.at \in {"prune", "acquire", "save", "prune_again", "save_again"}
    /\ \/ Faulty
       \/ At("prune") /\ proc.path = "unmerged" /\ ~ws.index /\ Fine
       \/ At("prune_again") /\ proc.path = "unmerged" /\ ~ws.index /\ Fine
       \/ At("prune_again") /\ proc.path = "archive.har" /\ har = {} /\ Fine
    /\ LET p == [Unclean EXCEPT !.hand = {}] IN
       IF proc.at \in {"prune", "acquire", "save"} THEN Goes(p, "curate")
       ELSE IF proc.prog = "archive" THEN Goes(p, "log") ELSE Ends(p)
    /\ UNCHANGED files /\ Rest

-----------------------------------------------------------------------------
(* Curation and the seal                                                   *)

\* finalize_archive reads metadata.json; one that is torn ends it.
ReadMetadata ==
    /\ At("read") /\ Fine
    /\ IF meta = {Torn} THEN Ends(Unclean) ELSE GoesOn(proc)
    /\ UNCHANGED files /\ Rest

\* run_curation_pause, when it is asked for; without it archive.py has no
\* second summary.
Curate ==
    /\ At("curate") /\ Fine
    /\ \/ media' \in SUBSET media /\ GoesOn(proc)
       \/ UNCHANGED media
          /\ IF proc.prog = "archive" THEN Goes(proc, "log") ELSE GoesOn(proc)
    /\ UNCHANGED <<ws, har, rec, shots, log, manifest, par2, meta, affidavit, seal>> /\ Rest

ProtectLog == ProtectStep("log", "log") /\ Rest

\* seal_archive walks the directory for manifests and hashes them, unread.
Entry(a) == [asset |-> a, run |-> manifest[a].run, torn |-> manifest[a].torn]
Committed == {Entry(a) : a \in DOMAIN manifest}

Seal ==
    /\ At("seal")
    /\ \/ seal' = {Committed} /\ Fine /\ GoesOn(proc)
       \/ UNCHANGED seal /\ Faulty /\ GoesOn(Unclean)
    /\ UNCHANGED <<ws, har, rec, shots, media, log, manifest, par2, meta, affidavit>> /\ Rest

-----------------------------------------------------------------------------
(* Operators and crashes                                                   *)

Begin(prog) ==
    /\ proc = Idle /\ runs < MaxRuns
    /\ runs' = runs + 1 /\ done' = "none"
    /\ proc' = [Idle EXCEPT !.prog = prog, !.at = First(prog)]
    /\ UNCHANGED files /\ UNCHANGED <<crashes, faults, captured>>

\* The bound on the runs leaves one for every crash and fault still to come.
Chosen == runs + (MaxCrashes - crashes) + (MaxFaults - faults) < MaxRuns - 1

BeginResume == (har # {} \/ ws.index) /\ (seal = {} \/ Chosen) /\ Begin("resume")
BeginFinalize == har # {} /\ Chosen /\ Begin("finalize")

\* The operator deletes media by hand, whenever no program runs.
Delete ==
    /\ proc = Idle
    /\ \E m \in media : media' = media \ {m}
    /\ done' = "none"
    /\ UNCHANGED <<ws, har, rec, shots, log, manifest, par2, meta, affidavit, seal>>
    /\ UNCHANGED <<proc, faults>> /\ Rest

\* verify.py repairs a file that does not match its manifest, as far as PAR2
\* can; only the log can have changed.
Verify ==
    /\ proc = Idle /\ "log" \in DOMAIN manifest /\ par2 # {}
    /\ UNION log # manifest["log"].of
    /\ log' = par2
    /\ UNCHANGED <<ws, har, rec, shots, media, manifest, par2, meta, affidavit, seal>>
    /\ UNCHANGED <<proc, faults, done>> /\ Rest

\* What the program is protecting.
InProtection ==
    {a \in {"recording", "frames", "log", proc.path} \cup proc.hand :
        /\ Present(a)
        /\ \/ At("video") /\ a = "recording"
           \/ At("frames") /\ a = "frames"
           \/ At("log") /\ a = "log"
           \/ At("har") /\ a = proc.path
           \/ a \in proc.hand}

\* PAR2 files and the manifest behind them, each written or not or cut off.
Tear(a) ==
    /\ WriteManifest(a, TRUE) \/ UNCHANGED manifest
    /\ par2' \in {par2} \cup (IF a = "log" THEN {{}, {Content(a)}} ELSE {})

\* The program is killed, and what it was writing in place is torn.  A torn log
\* is as good as an empty one, a torn seal as good as none.
Crash ==
    /\ proc # Idle /\ crashes < MaxCrashes
    /\ crashes' = crashes + 1 /\ proc' = Idle /\ done' = "none"
    /\ meta' \in {meta} \cup (IF At("metadata") THEN {{Torn}} ELSE {})
    /\ affidavit' \in {affidavit} \cup (IF At("affidavit") THEN {{Torn}} ELSE {})
    /\ log' \in {log} \cup (IF (At("save") \/ At("save_again")) /\ proc.path = "archive.har"
                            THEN {{{}}} ELSE {})
    /\ seal' \in {seal} \cup (IF At("seal") THEN {{}} ELSE {})
    /\ UNCHANGED <<manifest, par2>> \/ \E a \in InProtection : Tear(a)
    /\ UNCHANGED <<ws, har, rec, shots, media, runs, faults, captured>>

Session == Attach \/ Shoot \/ Close
Finishing ==
    \/ Dialog \/ CancelArchive \/ CancelResume \/ Encode \/ Encoded \/ Video \/ Frames
    \/ StartMerge \/ Replace \/ ClearPart \/ Clear
    \/ ProtectHar \/ WriteMetadata \/ WriteAffidavit
    \/ Prune \/ Store \/ ProtectMedium \/ Acquired \/ SaveLog \/ SummaryFails
    \/ ReadMetadata \/ Curate \/ ProtectLog \/ Seal

Next ==
    \/ Session \/ Finishing \/ Crash
    \/ BeginResume \/ BeginFinalize \/ Delete \/ Verify

\* Programs go on by themselves, and the operator resumes what is unfinished.
Fairness ==
    /\ WF_vars(Session \/ Finishing)
    /\ WF_vars(seal = {} /\ BeginResume)

Spec == Init /\ [][Next]_vars /\ Fairness

(* Properties                                                              *)

Assets == {"archive.har", "unmerged", "log", "recording", "frames"} \cup Media
Contents == SUBSET (Bodies \cup Media)
Manifests == [of : Contents, run : 1..MaxRuns, torn : BOOLEAN]
Entries == [asset : Assets, run : 1..MaxRuns, torn : BOOLEAN]

FieldsOK ==
    /\ ws \in [index : BOOLEAN, bodies : SUBSET Bodies]
    /\ har \subseteq SUBSET Bodies /\ log \subseteq SUBSET Media
    /\ rec \in {"none", "raw", "encoding", "mp4"}
    /\ shots \in 0..Shots /\ media \subseteq Media
    /\ par2 \subseteq SUBSET Media /\ DOMAIN manifest \subseteq Assets
    /\ \A a \in DOMAIN manifest : manifest[a] \in Manifests
    /\ \A x \in meta \cup affidavit :
          /\ x.har \subseteq [file : {"archive.har", "unmerged"}, of : Contents, run : 1..MaxRuns]
          /\ x.rec \subseteq 1..MaxRuns /\ x.torn \in BOOLEAN
    /\ \A x \in seal : x \subseteq Entries
    /\ proc.prog \in Programs \cup {"none"} /\ done \in Programs \cup {"none"}
    /\ runs \in 1..MaxRuns /\ crashes \in 0..MaxCrashes /\ faults \in 0..MaxFaults
    /\ captured \subseteq Bodies

\* There is one of each paper, or none.
OneOfEach ==
    /\ Cardinality(har) <= 1 /\ Cardinality(log) <= 1
    /\ Cardinality(meta) <= 1 /\ Cardinality(affidavit) <= 1 /\ Cardinality(seal) <= 1

TypeOK == FieldsOK /\ OneOfEach

\* No crash and no failing step loses a body that was written to disk with the
\* HAR: it is in archive.har, or the workspace still has it and can be merged.
BodiesSurvive ==
    /\ captured \subseteq IF har # {} THEN UNION har ELSE ws.bodies
    /\ captured # {} => har # {} \/ ws.index

\* What a program that comes after one that died does not protect again: a manifest
\* torn by the death stays so, and the seal commits to it as it is.
NotAgain ==
    CASE done = "archive"  -> {}
      [] done = "resume"   -> Media \cup {"recording", "frames"}
      [] done = "finalize" -> Media \cup {"recording", "frames", "archive.har"}

\* Once a program has ended without a failure, whatever died before it, the seal
\* commits to the manifests that are there, their assets are there as they hash
\* them, and none is torn but those of NotAgain: never the log's, and the HAR's
\* only when no capture or resumption came to its end.  (A workspace that was only
\* partly deleted may keep the manifest of an unmerged HAR that is gone: see the README.)
SealIsTrue ==
    done # "none" =>
        /\ seal = {Committed}
        /\ \A a \in DOMAIN manifest \ {"unmerged"} :
              /\ Present(a) /\ manifest[a].of = Content(a)
              /\ manifest[a].torn => a \in NotAgain

\* metadata.json and the affidavit name the hash of the HAR that is there, and
\* after a whole capture or resumption whole manifests of the HAR and of the
\* recording that the seal commits to.
RecordIsTrue ==
    /\ \A x \in meta \cup affidavit : \A h \in x.har :
          h.file = "archive.har" => har = {h.of}
    /\ done \in {"archive", "resume"} =>
          /\ affidavit = meta
          /\ \A x \in meta :
                /\ \A h \in x.har :
                      [asset |-> "archive.har", run |-> h.run, torn |-> FALSE] \in UNION seal
                /\ \A r \in x.rec :
                      [asset |-> "recording", run |-> r, torn |-> FALSE] \in UNION seal
          /\ \E x \in meta : x.har # {}

\* Everything archive.py acquires without a failure is under the seal.
Covered == {a \in Assets \ {"unmerged"} : Present(a)} \subseteq {e.asset : e \in UNION seal}
CaptureIsCovered == done = "archive" => Covered /\ rec # "raw"

\* Seal, manifests, log, metadata and affidavit say the truth about each other and about the
\* assets whenever a program has come to its end, whatever died or failed before, but for the
\* manifests that a death tore and that nothing protects again.
PapersAreTrue == TypeOK /\ SealIsTrue /\ RecordIsTrue /\ CaptureIsCovered

\* resume_archive.py "picks up wherever [the crash] left off and finishes the job", "so
\* behaviour stays identical to a clean run" (resume_archive.py:5-9): every manifest it seals
\* can be read.
\* The code breaks it: README, section 7.
ResumedIsWhole == done = "resume" => \A a \in DOMAIN manifest : ~manifest[a].torn

\* A session whose HAR was written is sealed in the end, if the operator goes
\* on resuming it, unless he threw it away.
EventuallySealed == [](ws.index => <>(seal # {} \/ (ws = NoWs /\ har = {})))

=============================================================================
