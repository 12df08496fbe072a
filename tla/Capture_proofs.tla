--------------------------- MODULE Capture_proofs ---------------------------
(***************************************************************************)
(* Two theorems about the programs of Capture, for any bodies, media,      *)
(* frames, runs, crashes and faults: no crash and no failing step loses a  *)
(* body of the recorded HAR, and what the papers say is true whenever a    *)
(* program has come to its end without a failure.                          *)
(*                                                                         *)
(* The second rests on one invariant of seven parts, one per matter:       *)
(* types, which program is where, what manifests hash, what is recorded,   *)
(* what is pruned, what is covered, what is torn.  Recorded, pruned and    *)
(* covered only bind a program that has not failed, so a failing step has  *)
(* to keep the others alone (DirtyPromises), and each step is proved to    *)
(* keep all of them (Kept).                                                *)
(***************************************************************************)
EXTENDS Capture, FiniteSetTheorems, TLAPS

\* The steps of archive.py before it has replaced archive.har.
BeforeHar == {"record", "dialog", "encode", "encoded", "video", "frames", "merge"}

\* While there is no archive.har the workspace is whole; from the replacement on
\* archive.har has all that was captured.  The merge only starts on a whole
\* workspace, and the workspace is only deleted behind a replacement.
HarInv ==
    /\ har = {} => captured \subseteq ws.bodies /\ (captured # {} => ws.index)
    /\ har # {} => captured \subseteq UNION har
    /\ At("record") => captured = {} /\ proc.prog = "archive"
    /\ proc.at \in BeforeHar \cup {"replace", "clear"} => proc.prog \in {"archive", "resume"}
    /\ proc.prog = "archive" /\ proc.at \in BeforeHar => har = {}
    /\ At("replace") => captured \subseteq ws.bodies
    /\ At("clear") => har # {}

\* A record of a program at work.
IsProgram(p) == "prog" \in DOMAIN p /\ "at" \in DOMAIN p

\* What the typing of the workspace and of a program gives every step.
CaptureType ==
    /\ ws \in [index : BOOLEAN, bodies : SUBSET Bodies]
    /\ IsProgram(proc)
    /\ proc.prog \in Programs \cup {"none"}

CaptureInv == CaptureType /\ HarInv

\* Initially nothing is captured and there is no archive.har.
LEMMA InitCapture == Init => CaptureInv
  <1> SUFFICES ASSUME Init PROVE CaptureInv
    OBVIOUS
  <1>1. proc = [prog |-> "archive", at |-> "record", path |-> "unmerged", clean |-> TRUE,
                har |-> {}, hand |-> {}]
    BY DEF Init, Idle
  <1>2. CaptureType
    BY <1>1 DEF Init, CaptureType, IsProgram, NoWs, Programs
  <1>3. HarInv
    BY <1>1 DEF Init, HarInv, BeforeHar, At, NoWs
  <1> QED
    BY <1>2, <1>3 DEF CaptureInv

\* The program went on with a step, or ended.
Moved(step) ==
    /\ IsProgram(proc') /\ proc'.prog \in Programs \cup {"none"}
    /\ \/ proc'.prog = proc.prog /\ proc'.at = step
       \/ proc'.prog = "none" /\ proc'.at = "none"

\* A failure changes neither the program nor its step.
LEMMA UncleanProgram ==
  ASSUME IsProgram(proc)
  PROVE IsProgram(Unclean) /\ Unclean.prog = proc.prog /\ Unclean.at = proc.at
  BY DEF Unclean, IsProgram

\* What ending and going on do to a record that differs from proc only in what
\* it says of failures, files and media.
LEMMA EndsMoves ==
  ASSUME NEW p, NEW step, Ends(p)
  PROVE Moved(step)
  BY DEF Ends, Idle, Moved, IsProgram

LEMMA GoesMoves ==
  ASSUME proc.prog \in Programs \cup {"none"}, NEW p, IsProgram(p), p.prog = proc.prog,
         NEW step, Goes(p, step)
  PROVE Moved(step)
  <1>1. CASE step = "end"
    BY <1>1, EndsMoves DEF Goes
  <1>2. CASE step # "end"
    <2>1. proc' = [p EXCEPT !.at = step]
      BY <1>2 DEF Goes
    <2> QED
      BY <2>1 DEF Moved, IsProgram
  <1> QED
    BY <1>1, <1>2

LEMMA GoesOnMoves ==
  ASSUME proc.prog \in Programs \cup {"none"}, NEW p, IsProgram(p), p.prog = proc.prog,
         p.at = proc.at, GoesOn(p)
  PROVE Moved(After(proc.at))
  BY GoesMoves DEF GoesOn

\* A step that leaves workspace, archive.har and history alone, and at which
\* nothing new is required, keeps the invariant.
LEMMA Onward ==
  ASSUME CaptureInv, UNCHANGED <<ws, har, captured>>, NEW step, Moved(step),
         step \notin {"record", "replace", "clear"},
         step \in BeforeHar => proc.at \in BeforeHar \/ proc.prog = "resume"
  PROVE CaptureInv'
  BY DEF CaptureInv, CaptureType, HarInv, Moved, At, BeforeHar

\* The steps that touch none of the three.
LEMMA QuietSteps ==
  ASSUME CaptureInv, UNCHANGED <<ws, har, captured>>,
         GoesOn(proc) \/ GoesOn(Unclean),
         proc.at \in {"dialog", "encode", "encoded", "video", "frames", "har", "metadata",
                     "affidavit", "prune", "acquire", "save", "read", "curate",
                     "prune_again", "save_again", "log", "seal"}
  PROVE CaptureInv'
  <1>1. Moved(After(proc.at))
    BY UncleanProgram, GoesOnMoves DEF CaptureInv, CaptureType
  <1>2. After(proc.at) \notin {"record", "replace", "clear"}
    BY DEF After
  <1>3. After(proc.at) \in BeforeHar => proc.at \in BeforeHar
    BY DEF After, BeforeHar
  <1> QED
    BY <1>1, <1>2, <1>3, Onward

\* Every step keeps the invariant.
LEMMA StepCapture == CaptureInv /\ [Next]_vars => CaptureInv'
  <1> SUFFICES ASSUME CaptureInv, [Next]_vars PROVE CaptureInv'
    OBVIOUS
  <1>t. IsProgram(proc) /\ proc.prog \in Programs \cup {"none"}
    BY DEF CaptureInv, CaptureType
  <1>u. IsProgram(Unclean) /\ Unclean.prog = proc.prog /\ Unclean.at = proc.at
    BY <1>t, UncleanProgram
  <1> USE DEF At, Rest
  <1>1. ASSUME Dialog PROVE CaptureInv'
    BY <1>1, QuietSteps DEF Dialog, files
  <1>2. ASSUME Encode PROVE CaptureInv'
    BY <1>2, QuietSteps DEF Encode
  <1>3. ASSUME Encoded PROVE CaptureInv'
    BY <1>3, QuietSteps DEF Encoded
  <1>4. ASSUME Video PROVE CaptureInv'
    BY <1>4, QuietSteps DEF Video, ProtectStep
  <1>5. ASSUME Frames PROVE CaptureInv'
    BY <1>5, QuietSteps DEF Frames, ProtectStep
  <1>6. ASSUME WriteMetadata PROVE CaptureInv'
    BY <1>6, QuietSteps DEF WriteMetadata
  <1>7. ASSUME WriteAffidavit PROVE CaptureInv'
    BY <1>7, QuietSteps DEF WriteAffidavit
  <1>8. ASSUME Prune PROVE CaptureInv'
    BY <1>8, QuietSteps DEF Prune
  <1>9. ASSUME Acquired PROVE CaptureInv'
    BY <1>9, QuietSteps DEF Acquired, files
  <1>10. ASSUME SaveLog PROVE CaptureInv'
    BY <1>10, QuietSteps DEF SaveLog
  <1>11. ASSUME ProtectLog PROVE CaptureInv'
    BY <1>11, QuietSteps DEF ProtectLog, ProtectStep
  <1>12. ASSUME Seal PROVE CaptureInv'
    BY <1>12, QuietSteps DEF Seal
  <1>13. ASSUME Attach PROVE CaptureInv'
    BY <1>13 DEF Attach, CaptureInv, CaptureType, HarInv, BeforeHar
  <1>14. ASSUME Shoot PROVE CaptureInv'
    BY <1>14 DEF Shoot, CaptureInv, CaptureType, HarInv
  <1>15. ASSUME Delete PROVE CaptureInv'
    BY <1>15 DEF Delete, CaptureInv, CaptureType, HarInv
  <1>16. ASSUME Verify PROVE CaptureInv'
    BY <1>16 DEF Verify, CaptureInv, CaptureType, HarInv
  <1>17. ASSUME Close PROVE CaptureInv'
    <2>1. Moved("dialog")
      BY <1>17, <1>t, <1>u, GoesOnMoves DEF Close, After
    <2>2. CASE UNCHANGED <<ws, har, captured>>
      BY <1>17, <2>1, <2>2, Onward DEF Close, BeforeHar
    <2>3. CASE ws' = [ws EXCEPT !.index = TRUE] /\ captured' = ws.bodies /\ har' = har
      BY <1>17, <2>1, <2>3 DEF Close, CaptureInv, CaptureType, HarInv, Moved, BeforeHar
    <2> QED
      BY <1>17, <2>2, <2>3 DEF Close
  <1>18. ASSUME CancelArchive PROVE CaptureInv'
    <2>1. Moved("end")
      BY <1>18, EndsMoves DEF CancelArchive
    <2> QED
      BY <1>18, <2>1 DEF CancelArchive, NoWs, CaptureInv, CaptureType, HarInv, Moved, BeforeHar
  <1>19. ASSUME CancelResume PROVE CaptureInv'
    <2>1. Moved("end")
      BY <1>19, EndsMoves DEF CancelResume
    <2> QED
      BY <1>19, <2>1, Onward DEF CancelResume, files, BeforeHar
  <1>20. ASSUME StartMerge PROVE CaptureInv'
    <2>0. UNCHANGED <<ws, har, captured>> /\ proc.at = "merge"
      BY <1>20 DEF StartMerge, MergeFails
    <2>1. CASE GoesOn(proc) /\ ~(proc.prog = "resume" /\ har # {})
      <3>1. Moved("replace")
        BY <2>0, <2>1, <1>t, GoesOnMoves DEF After
      <3> QED
        BY <2>0, <2>1, <3>1 DEF CaptureInv, CaptureType, HarInv, Moved, BeforeHar
    <2>2. CASE MergeFails
      <3>1. CASE proc.prog = "resume"
        BY <2>0, <2>2, <3>1, EndsMoves, Onward DEF MergeFails, BeforeHar
      <3>2. CASE proc.prog # "resume"
        <4>1. Moved("har")
          BY <2>2, <3>2, <1>t, <1>u, GoesMoves DEF MergeFails
        <4> QED
          BY <2>0, <4>1, Onward DEF BeforeHar
      <3> QED
        BY <3>1, <3>2
    <2>3. CASE proc.prog = "resume" /\ Goes([proc EXCEPT !.path = "archive.har"], "dialog")
      <3>1. IsProgram([proc EXCEPT !.path = "archive.har"])
            /\ [proc EXCEPT !.path = "archive.har"].prog = proc.prog
        BY <1>t DEF IsProgram
      <3>2. Moved("dialog")
        BY <2>3, <3>1, <1>t, GoesMoves
      <3> QED
        BY <2>0, <2>3, <3>2, Onward DEF BeforeHar
    <2> QED
      BY <1>20, <2>1, <2>2, <2>3 DEF StartMerge
  <1>21. ASSUME Replace PROVE CaptureInv'
    <2>1. Moved("clear")
      BY <1>21, <1>t, GoesOnMoves DEF Replace, After
    <2> QED
      BY <1>21, <2>1 DEF Replace, CaptureInv, CaptureType, HarInv, Moved, BeforeHar
  <1>22. ASSUME ClearPart PROVE CaptureInv'
    <2>1. ws' \in [index : BOOLEAN, bodies : SUBSET Bodies]
      BY <1>22 DEF ClearPart, CaptureInv, CaptureType
    <2> QED
      BY <1>22, <2>1 DEF ClearPart, CaptureInv, CaptureType, HarInv, BeforeHar
  <1>23. ASSUME Clear PROVE CaptureInv'
    <2>0. proc.at = "clear" /\ har # {} /\ UNCHANGED <<har, captured>>
      BY <1>23 DEF Clear, CaptureInv, HarInv
    <2>1. CASE MergeFails
      <3>1. CASE proc.prog = "resume"
        BY <2>0, <2>1, <3>1, EndsMoves, Onward DEF MergeFails, BeforeHar
      <3>2. CASE proc.prog # "resume"
        <4>1. Moved("har")
          BY <2>1, <3>2, <1>t, <1>u, GoesMoves DEF MergeFails
        <4> QED
          BY <2>0, <2>1, <4>1, Onward DEF MergeFails, BeforeHar
      <3> QED
        BY <3>1, <3>2
    <2>2. CASE ws' = NoWs /\ GoesOn([proc EXCEPT !.path = "archive.har"])
      <3>1. /\ IsProgram([proc EXCEPT !.path = "archive.har"])
            /\ [proc EXCEPT !.path = "archive.har"].prog = proc.prog
            /\ [proc EXCEPT !.path = "archive.har"].at = proc.at
        BY <1>t DEF IsProgram
      <3>2. Moved(After("clear"))
        BY <2>0, <2>2, <3>1, <1>t, GoesOnMoves
      <3> QED
        BY <2>0, <2>2, <3>2 DEF After, NoWs, CaptureInv, CaptureType, HarInv, Moved, BeforeHar, Programs
    <2> QED
      BY <1>23, <2>1, <2>2 DEF Clear
  <1>24. ASSUME ProtectHar PROVE CaptureInv'
    <2>0. UNCHANGED <<ws, har, captured>> /\ proc.at = "har"
      BY <1>24 DEF ProtectHar
    <2> DEFINE p == [proc EXCEPT !.har = {[file |-> proc.path, of |-> Content(proc.path), run |-> runs]}]
    <2>1. IsProgram(p) /\ p.prog = proc.prog /\ p.at = proc.at
      BY <1>t DEF IsProgram
    <2>2. GoesOn(p) \/ GoesOn(Unclean)
      BY <1>24 DEF ProtectHar
    <2>3. Moved(After("har"))
      BY <2>0, <2>1, <2>2, <1>t, <1>u, GoesOnMoves
    <2>4. After("har") = "metadata"
      BY DEF After
    <2> QED
      BY <2>0, <2>3, <2>4, Onward DEF BeforeHar
  <1>25. ASSUME Store PROVE CaptureInv'
    <2>1. Moved("acquire")
      BY <1>25, <1>t DEF Store, Moved, IsProgram
    <2> QED
      BY <1>25, <2>1, Onward DEF Store, BeforeHar
  <1>26. ASSUME ProtectMedium PROVE CaptureInv'
    <2>1. Moved("acquire")
      BY <1>26, <1>t, <1>u DEF ProtectMedium, Moved, IsProgram
    <2> QED
      BY <1>26, <2>1, Onward DEF ProtectMedium, BeforeHar
  <1>27. ASSUME SummaryFails PROVE CaptureInv'
    <2> DEFINE p == [Unclean EXCEPT !.hand = {}]
    <2>1. IsProgram(p) /\ p.prog = proc.prog
      BY <1>u DEF IsProgram
    <2>2. Goes(p, "curate") \/ Goes(p, "log") \/ Ends(p)
      BY <1>27 DEF SummaryFails
    <2>3. Moved("curate") \/ Moved("log") \/ Moved("end")
      BY <2>1, <2>2, <1>t, GoesMoves, EndsMoves
    <2> QED
      BY <1>27, <2>3, Onward DEF SummaryFails, files, BeforeHar
  <1>28. ASSUME ReadMetadata PROVE CaptureInv'
    <2>1. CASE GoesOn(proc)
      BY <1>28, <2>1, QuietSteps DEF ReadMetadata, files
    <2>2. CASE Ends(Unclean)
      BY <1>28, <2>2, EndsMoves, Onward DEF ReadMetadata, files, BeforeHar
    <2> QED
      BY <1>28, <2>1, <2>2 DEF ReadMetadata
  <1>29. ASSUME Curate PROVE CaptureInv'
    <2>1. CASE GoesOn(proc)
      BY <1>29, <2>1, QuietSteps DEF Curate
    <2>2. CASE Goes(proc, "log")
      BY <1>29, <2>2, <1>t, GoesMoves, Onward DEF Curate, BeforeHar
    <2> QED
      BY <1>29, <2>1, <2>2 DEF Curate
  <1>30. ASSUME BeginResume PROVE CaptureInv'
    BY <1>30 DEF BeginResume, Begin, First, files, Idle, IsProgram, CaptureInv, CaptureType, HarInv, BeforeHar, Programs
  <1>31. ASSUME BeginFinalize PROVE CaptureInv'
    BY <1>31 DEF BeginFinalize, Begin, First, files, Idle, IsProgram, CaptureInv, CaptureType, HarInv, BeforeHar, Programs
  <1>32. ASSUME Crash PROVE CaptureInv'
    BY <1>32 DEF Crash, Idle, IsProgram, CaptureInv, CaptureType, HarInv, BeforeHar
  <1>33. ASSUME UNCHANGED vars PROVE CaptureInv'
    BY <1>33 DEF vars, files, CaptureInv, CaptureType, HarInv
  <1> QED
    BY <1>1, <1>2, <1>3, <1>4, <1>5, <1>6, <1>7, <1>8, <1>9, <1>10, <1>11, <1>12, <1>13, <1>14, <1>15, <1>16, <1>17, <1>18, <1>19, <1>20, <1>21, <1>22, <1>23, <1>24, <1>25, <1>26, <1>27, <1>28, <1>29, <1>30, <1>31, <1>32, <1>33 DEF Next, Session, Finishing

\* No recorded body is ever lost: invariant of Capture for every constant.
THEOREM BodiesAlwaysSurvive == Spec => []BodiesSurvive
  <1>1. CaptureInv => BodiesSurvive
    BY DEF CaptureInv, HarInv, BodiesSurvive
  <1> QED
    BY <1>1, InitCapture, StepCapture, PTL DEF Spec
-----------------------------------------------------------------------------
(* What the papers say                                                     *)

\* The steps of the programs from the protection of the HAR on.
FromHar == {"har", "metadata", "affidavit", "prune", "acquire", "save", "read", "curate",
            "prune_again", "save_again", "log", "seal"}
Steps == BeforeHar \cup {"replace", "clear", "none"} \cup FromHar

HarRecords == [file : {"archive.har", "unmerged"}, of : Contents, run : 1..MaxRuns]
Procs == [prog : Programs \cup {"none"}, at : Steps, path : {"archive.har", "unmerged"},
          clean : BOOLEAN, har : SUBSET HarRecords, hand : SUBSET Media]
AtMostOne(S) == \A x, y \in S : x = y

PaperType ==
    /\ proc \in Procs
    /\ FieldsOK
    /\ AtMostOne(har) /\ AtMostOne(log) /\ AtMostOne(par2)
    /\ AtMostOne(meta) /\ AtMostOne(affidavit) /\ AtMostOne(seal)

\* Which program is at which step.
ProgramInv ==
    /\ proc.prog = "none" <=> At("none")
    /\ At("none") => proc.path = "archive.har"
    /\ proc.prog # "none" => done = "none"
    /\ proc.at \in {"record", "encode", "encoded", "video", "frames"} => proc.prog = "archive"
    /\ At("read") => proc.prog = "finalize"
    /\ proc.prog = "finalize" =>
          proc.at \in {"read", "curate", "prune_again", "save_again", "log", "seal"}
    /\ proc.prog \in {"resume", "finalize"} => proc.path = "archive.har"
    /\ ~At("acquire") => proc.hand = {}
    /\ proc.hand \subseteq media /\ \A m, n \in proc.hand : m = n

\* A manifest is of an asset that is there, but for media that were deleted, and is
\* right but for the log's.  archive.har is written once.
ManifestInv ==
    /\ At("replace") => har = {}
    /\ proc.prog = "archive" /\ proc.at \in {"record", "dialog"} => DOMAIN manifest = {}
    /\ \A a \in DOMAIN manifest : a \in Media \cup {"unmerged"} \/ Present(a)
    /\ \A a \in DOMAIN manifest \ {"log"} : manifest[a].of = Content(a)
    /\ \A x \in meta \cup affidavit \cup {proc} : \A h \in x.har :
          h.file = "archive.har" => har = {h.of}

\* What a program without a failure has done when it comes to a step.
Capturing == proc.clean /\ proc.prog \in {"archive", "resume"}
HarIsRecorded ==
    /\ proc.har # {} /\ "archive.har" \in DOMAIN manifest /\ ~manifest["archive.har"].torn
    /\ \A h \in proc.har : h.run = manifest["archive.har"].run

RecordInv ==
    /\ proc.clean /\ proc.at \in FromHar => proc.path = "archive.har"
    /\ Capturing /\ proc.at \in FromHar \ {"har"} => HarIsRecorded
    /\ Capturing /\ At("affidavit") => meta = {Statement}
    /\ Capturing /\ proc.at \in FromHar \ {"har", "metadata", "affidavit"} =>
          /\ affidavit = meta /\ meta # {}
          /\ \A x \in meta : x.har = proc.har /\ x.rec = VideoIntegrity

Pruned ==
    \/ proc.at \in {"save_again", "log", "seal"}
    \/ proc.prog = "archive" /\ proc.at \in {"acquire", "save", "curate"}

SealInv ==
    /\ proc.clean /\ Pruned => Orphans = {}
    /\ proc.clean /\ At("seal") /\ log # {} =>
          "log" \in DOMAIN manifest /\ manifest["log"].of = UNION log /\ ~manifest["log"].torn

\* What archive.py has acquired and protected.
BeforeEncoded == {"record", "dialog", "encode"}
BeforeFrames == BeforeEncoded \cup {"encoded", "video"}
BeforeMerge == BeforeFrames \cup {"frames"}

CoverInv ==
    proc.clean /\ proc.prog = "archive" =>
        /\ media \subseteq DOMAIN manifest \cup proc.hand
        /\ proc.at \notin BeforeEncoded => rec # "raw"
        /\ proc.at \notin BeforeFrames /\ Present("recording") => "recording" \in DOMAIN manifest
        /\ proc.at \notin BeforeMerge /\ Present("frames") => "frames" \in DOMAIN manifest

\* archive.py is the first program on its directory: no other has torn a manifest.
WholeInv == proc.prog = "archive" => \A a \in DOMAIN manifest : ~manifest[a].torn

\* What is proved step by step; the seal's promises follow when a program ends.
WorkInv == ProgramInv /\ ManifestInv /\ RecordInv /\ SealInv /\ CoverInv /\ WholeInv
EndInv == SealIsTrue /\ RecordIsTrue /\ CaptureIsCovered
PapersInv == PaperType /\ HarInv /\ WorkInv /\ EndInv

\* A program p with another step, path, verdict, record or medium in hand.
SameProgram(p, q) ==
    /\ q \in Procs /\ q.prog = p.prog /\ q.har = p.har /\ q.hand = p.hand /\ q.path = p.path

LEMMA UncleanFields ==
    ASSUME proc \in Procs
    PROVE  SameProgram(proc, Unclean) /\ Unclean.at = proc.at /\ Unclean.clean = FALSE
  BY DEF Procs, Unclean, SameProgram

LEMMA StepFields ==
    ASSUME NEW p \in Procs, NEW step \in Steps
    PROVE  /\ SameProgram(p, [p EXCEPT !.at = step])
           /\ [p EXCEPT !.at = step].at = step /\ [p EXCEPT !.at = step].clean = p.clean
  BY DEF Procs, SameProgram

LEMMA PathFields ==
    ASSUME NEW p \in Procs
    PROVE  LET q == [p EXCEPT !.path = "archive.har"] IN
           /\ q \in Procs /\ q.prog = p.prog /\ q.at = p.at /\ q.clean = p.clean
           /\ q.har = p.har /\ q.hand = p.hand /\ q.path = "archive.har"
  BY DEF Procs

LEMMA HarFields ==
    ASSUME NEW p \in Procs, NEW h \in HarRecords
    PROVE  LET q == [p EXCEPT !.har = {h}] IN
           /\ q \in Procs /\ q.prog = p.prog /\ q.at = p.at /\ q.clean = p.clean
           /\ q.har = {h} /\ q.hand = p.hand /\ q.path = p.path
  BY DEF Procs

LEMMA HandFields ==
    ASSUME NEW p \in Procs, NEW S \in SUBSET Media
    PROVE  LET q == [p EXCEPT !.hand = S] IN
           /\ q \in Procs /\ q.prog = p.prog /\ q.at = p.at /\ q.clean = p.clean
           /\ q.har = p.har /\ q.hand = S /\ q.path = p.path
  BY DEF Procs

LEMMA IdleFields ==
    /\ Idle \in Procs /\ Idle.prog = "none" /\ Idle.at = "none" /\ Idle.path = "archive.har"
    /\ Idle.clean = TRUE /\ Idle.har = {} /\ Idle.hand = {}
  BY DEF Idle, Procs, Steps

\* Going on from p to a step that is no end.
LEMMA GoesFields ==
    ASSUME NEW p \in Procs, NEW step \in Steps, Goes(p, step)
    PROVE  /\ SameProgram(p, proc') /\ proc'.at = step /\ proc'.clean = p.clean
           /\ done' = done
<1>1. step # "end"
  BY DEF Steps, BeforeHar, FromHar
<1>2. proc' = [p EXCEPT !.at = step] /\ done' = done
  BY <1>1 DEF Goes
<1> QED
  BY ONLY <1>2, StepFields, p \in Procs, step \in Steps
\* The program goes on with another step; or it ends with a failure.
Went(step, clean) ==
    SameProgram(proc, proc') /\ proc'.at = step /\ proc'.clean = clean /\ done' = done
Over == proc' = Idle /\ done' = "none"

LEMMA GoesOnFields ==
    ASSUME proc \in Procs, After(proc.at) \in Steps
    PROVE  /\ GoesOn(proc) => Went(After(proc.at), proc.clean)
           /\ GoesOn(Unclean) => Went(After(proc.at), FALSE)
<1>1. ASSUME GoesOn(proc) PROVE Went(After(proc.at), proc.clean)
  BY <1>1, GoesFields DEF GoesOn, Went
<1>2. ASSUME GoesOn(Unclean) PROVE Went(After(proc.at), FALSE)
  <2> DEFINE p == Unclean
  <2>1. SameProgram(proc, p) /\ p.at = proc.at /\ p.clean = FALSE
    BY UncleanFields
  <2>2. Goes(p, After(p.at))
    BY <1>2 DEF GoesOn
  <2> HIDE DEF p
  <2>3. SameProgram(p, proc') /\ proc'.at = After(proc.at) /\ proc'.clean = FALSE /\ done' = done
    BY <2>1, <2>2, GoesFields DEF SameProgram
  <2> QED
    BY <2>1, <2>3 DEF Went, SameProgram
<1> QED
  BY <1>1, <1>2

LEMMA UncleanGoes ==
    ASSUME proc \in Procs, NEW step \in Steps, Goes(Unclean, step)
    PROVE  Went(step, FALSE)
<1> DEFINE p == Unclean
<1>1. SameProgram(proc, p) /\ p.clean = FALSE /\ Goes(p, step)
  BY UncleanFields
<1> HIDE DEF p
<1>2. SameProgram(p, proc') /\ proc'.at = step /\ proc'.clean = FALSE /\ done' = done
  BY <1>1, GoesFields DEF SameProgram
<1> QED
  BY <1>1, <1>2 DEF Went, SameProgram

LEMMA UncleanEnds ==
    ASSUME proc \in Procs, Ends(Unclean)
    PROVE  Over
  BY UncleanFields DEF Ends, Over

LEMMA MergeFailsFields ==
    ASSUME proc \in Procs, MergeFails
    PROVE  /\ UNCHANGED <<ws, har, manifest, par2>>
           /\ \/ Over
              \/ proc.prog # "resume" /\ Went("har", FALSE)
<1>1. "har" \in Steps
  BY DEF Steps, FromHar
<1>2. CASE proc.prog = "resume"
  BY <1>2, UncleanEnds DEF MergeFails
<1>3. CASE proc.prog # "resume"
  BY <1>1, <1>3, UncleanGoes DEF MergeFails
<1> QED
  BY <1>2, <1>3

LEMMA SummaryFailsFields ==
    ASSUME proc \in Procs, SummaryFails
    PROVE  \/ Over
           \/ /\ proc' \in Procs /\ proc'.prog = proc.prog /\ proc'.har = proc.har
              /\ proc'.path = proc.path /\ proc'.hand = {} /\ proc'.clean = FALSE
              /\ done' = done
              /\ \/ proc'.at = "curate"
                 \/ proc'.at = "log" /\ proc.prog = "archive"
<1> DEFINE u == Unclean
           p == [u EXCEPT !.hand = {}]
<1>1. SameProgram(proc, u) /\ u.clean = FALSE
  BY UncleanFields
<1>2. \/ Goes(p, "curate")
      \/ proc.prog = "archive" /\ Goes(p, "log")
      \/ Ends(p)
  <2>1. CASE proc.at \in {"prune", "acquire", "save"}
    BY <2>1 DEF SummaryFails
  <2>2. CASE proc.at \notin {"prune", "acquire", "save"} /\ proc.prog = "archive"
    BY <2>2 DEF SummaryFails
  <2>3. CASE proc.at \notin {"prune", "acquire", "save"} /\ proc.prog # "archive"
    BY <2>3 DEF SummaryFails
  <2> QED
    BY <2>1, <2>2, <2>3
<1> HIDE DEF u
<1>3. /\ p \in Procs /\ p.prog = proc.prog /\ p.clean = FALSE
      /\ p.har = proc.har /\ p.hand = {} /\ p.path = proc.path
  BY ONLY <1>1, HandFields DEF SameProgram
<1> HIDE DEF p
<1>4. "curate" \in Steps /\ "log" \in Steps
  BY DEF Steps, FromHar
<1>5. ASSUME NEW s \in {"curate", "log"}, Goes(p, s)
      PROVE  SameProgram(p, proc') /\ proc'.at = s /\ proc'.clean = FALSE /\ done' = done
  BY <1>3, <1>4, <1>5, GoesFields
<1>6. ASSUME Ends(p) PROVE Over
  BY <1>3, <1>6 DEF Ends, Over
<1> QED
  BY <1>2, <1>3, <1>5, <1>6 DEF SameProgram

\* What a step makes of the program's own record.
LEMMA ProcStep ==
    ASSUME PaperType, [Next]_vars
    PROVE  /\ proc' \in Procs /\ done' \in Programs \cup {"none"}
           /\ proc'.prog \in {proc.prog, "none", "resume", "finalize"}
<1> DEFINE Goal == /\ proc' \in Procs /\ done' \in Programs \cup {"none"}
                   /\ proc'.prog \in {proc.prog, "none", "resume", "finalize"}
<1>t. proc \in Procs /\ done \in Programs \cup {"none"}
  BY DEF PaperType, FieldsOK
<1>a. ASSUME NEW p \in Procs, p.prog = proc.prog, NEW step \in Steps \cup {"end"}, Goes(p, step)
      PROVE  Goal
  <2>1. CASE step = "end"
    BY <1>a, <2>1, IdleFields DEF Goes, Ends, Procs
  <2>2. CASE step \in Steps
    BY <1>a, <1>t, <2>2, GoesFields DEF SameProgram
  <2> QED
    BY <2>1, <2>2
<1>b. ASSUME NEW p \in Procs, p.prog = proc.prog, GoesOn(p), p.at # "none" PROVE Goal
  <2>1. After(p.at) \in Steps \cup {"end"}
    BY <1>b DEF Procs, Steps, BeforeHar, FromHar, After
  <2> QED
    BY <1>a, <1>b, <2>1 DEF GoesOn
<1>c. ASSUME GoesOn(proc) \/ GoesOn(Unclean), ~At("none") PROVE Goal
  BY <1>b, <1>c, <1>t, UncleanFields DEF At, SameProgram
<1>d. ASSUME Over PROVE Goal
  BY <1>d, IdleFields DEF Over
<1>e. ASSUME UNCHANGED <<proc, done>> PROVE Goal
  BY <1>e, <1>t
<1>f. ASSUME MergeFails PROVE Goal
  BY <1>f, <1>t, <1>d, MergeFailsFields DEF Went, SameProgram
<1>1. ASSUME Session \/ Dialog \/ CancelArchive \/ CancelResume \/ Encode \/ Encoded \/ Video \/ Frames
      PROVE  Goal
  BY <1>1, <1>c, <1>d, <1>e, <1>t, UncleanEnds
  DEF Session, Attach, Shoot, Close, Dialog, CancelArchive, CancelResume, Encode, Encoded, Video, Frames,
      ProtectStep, At
<1>2. ASSUME StartMerge PROVE Goal
  <2>1. "dialog" \in Steps
    BY DEF Steps, BeforeHar
  <2>2. ASSUME Goes([proc EXCEPT !.path = "archive.har"], "dialog") PROVE Goal
    BY <1>a, <1>t, <2>1, <2>2, PathFields
  <2> QED
    BY <1>2, <1>c, <1>f, <2>2 DEF StartMerge, At
<1>3. ASSUME Replace \/ ClearPart \/ WriteMetadata \/ WriteAffidavit \/ Prune \/ Acquired \/ SaveLog
      PROVE  Goal
  BY <1>3, <1>c, <1>e DEF Replace, ClearPart, WriteMetadata, WriteAffidavit, Prune, Acquired, SaveLog, At
<1>4. ASSUME Clear PROVE Goal
  <2>1. ASSUME GoesOn([proc EXCEPT !.path = "archive.har"]), proc.at = "clear" PROVE Goal
    BY <1>b, <1>t, <2>1, PathFields
  <2> QED
    BY <1>4, <1>f, <2>1 DEF Clear, At
<1>5. ASSUME ProtectHar PROVE Goal
  <2>1. CASE GoesOn(Unclean)
    BY <1>5, <1>c, <2>1 DEF ProtectHar, At
  <2> DEFINE h == [file |-> proc.path, of |-> Content(proc.path), run |-> runs]
  <2>2. CASE GoesOn([proc EXCEPT !.har = {h}])
    <3>1. h \in HarRecords
      <4>1. proc.path \in {"archive.har", "unmerged"} /\ runs \in 1 .. MaxRuns
        BY <1>t DEF Procs, PaperType, FieldsOK
      <4>2. Content(proc.path) \in Contents
        BY DEF Content, Contents, PaperType, FieldsOK
      <4> QED
        BY <4>1, <4>2 DEF HarRecords
    <3> HIDE DEF h
    <3>2. /\ [proc EXCEPT !.har = {h}] \in Procs /\ [proc EXCEPT !.har = {h}].at = proc.at
          /\ [proc EXCEPT !.har = {h}].prog = proc.prog
      BY ONLY <1>t, <3>1, HarFields
    <3> QED
      BY <1>5, <1>b, <2>2, <3>2 DEF ProtectHar, At
  <2> QED
    BY <1>5, <2>1, <2>2 DEF ProtectHar
<1>6. ASSUME Store PROVE Goal
  BY <1>6, <1>t, HandFields DEF Store
<1>7. ASSUME ProtectMedium PROVE Goal
  <2>1. Unclean \in Procs /\ Unclean.prog = proc.prog
    BY <1>t, UncleanFields DEF SameProgram
  <2>2. proc' = [proc EXCEPT !.hand = {}] \/ proc' = [Unclean EXCEPT !.hand = {}]
    BY <1>7 DEF ProtectMedium
  <2>3. ASSUME NEW p \in Procs, p.prog = proc.prog
        PROVE  [p EXCEPT !.hand = {}] \in Procs /\ [p EXCEPT !.hand = {}].prog = proc.prog
    BY <2>3, HandFields
  <2>4. proc' \in Procs /\ proc'.prog = proc.prog
    <3>1. CASE proc' = [proc EXCEPT !.hand = {}]
      BY <1>t, <2>3, <3>1
    <3>2. CASE proc' = [Unclean EXCEPT !.hand = {}]
      BY <2>1, <2>3, <3>2
    <3> QED
      BY <2>2, <3>1, <3>2
  <2> QED
    BY <1>7, <1>t, <2>4 DEF ProtectMedium
<1>8. ASSUME SummaryFails PROVE Goal
  BY <1>8, <1>d, <1>t, SummaryFailsFields
<1>9. ASSUME ReadMetadata \/ ProtectLog \/ Seal PROVE Goal
  BY <1>9, <1>c, <1>d, <1>t, UncleanEnds DEF ReadMetadata, ProtectLog, ProtectStep, Seal, At
<1>10. ASSUME Curate PROVE Goal
  BY <1>10, <1>a, <1>c, <1>t DEF Curate, At, Steps, FromHar
<1>11. ASSUME BeginResume \/ BeginFinalize PROVE Goal
  <2>1. \E prog \in {"resume", "finalize"} :
           proc' = [Idle EXCEPT !.prog = prog, !.at = First(prog)] /\ done' = "none"
    BY <1>11 DEF BeginResume, BeginFinalize, Begin
  <2>2. First("resume") = "merge" /\ First("finalize") = "read"
    BY DEF First
  <2> QED
    BY <2>1, <2>2 DEF Idle, Procs, Programs, Steps, BeforeHar, FromHar
<1>12. ASSUME Crash \/ Delete \/ Verify \/ UNCHANGED vars PROVE Goal
  BY <1>12, <1>t, <1>d DEF Crash, Delete, Verify, vars, Over
<1> HIDE DEF Goal
<1>13. Goal
  BY <1>1, <1>2, <1>3, <1>4, <1>5, <1>6, <1>7, <1>8, <1>9, <1>10, <1>11, <1>12 DEF Next, Finishing
<1> QED
  BY <1>13 DEF Goal
-----------------------------------------------------------------------------
(* Types                                                                   *)

\* The record written to a manifest, and the papers' statement, have their types.
LEMMA ContentType ==
    ASSUME PaperType, NEW a
    PROVE  Content(a) \in Contents /\ Content("log") \in SUBSET Media
  BY DEF PaperType, FieldsOK, Content, Contents

LEMMA PresentIsAsset ==
    ASSUME PaperType, NEW a, Present(a)
    PROVE  a \in Assets
  BY DEF PaperType, FieldsOK, Present, Assets

LEMMA WrittenType ==
    ASSUME PaperType, NEW a \in Assets, NEW torn \in BOOLEAN, WriteManifest(a, torn)
    PROVE  /\ DOMAIN manifest' = DOMAIN manifest \cup {a}
           /\ manifest'[a] = [of |-> Content(a), run |-> runs, torn |-> torn]
           /\ \A b \in DOMAIN manifest \ {a} : manifest'[b] = manifest[b]
           /\ DOMAIN manifest' \subseteq Assets
           /\ \A b \in DOMAIN manifest' : manifest'[b] \in Manifests
<1>1. /\ DOMAIN manifest' = DOMAIN manifest \cup {a}
      /\ manifest'[a] = [of |-> Content(a), run |-> runs, torn |-> torn]
      /\ \A b \in DOMAIN manifest \ {a} : manifest'[b] = manifest[b]
  BY DEF WriteManifest
<1>2. Content(a) \in Contents /\ runs \in 1..MaxRuns
  BY ContentType DEF PaperType, FieldsOK
<1>3. [of |-> Content(a), run |-> runs, torn |-> torn] \in Manifests
  BY <1>2 DEF Manifests
<1>4. DOMAIN manifest \subseteq Assets /\ \A b \in DOMAIN manifest : manifest[b] \in Manifests
  BY DEF PaperType, FieldsOK
<1> QED
  BY <1>1, <1>3, <1>4

LEMMA ProtectedType ==
    ASSUME PaperType, NEW a \in Assets, Protected(a)
    PROVE  /\ DOMAIN manifest' = DOMAIN manifest \cup {a}
           /\ manifest'[a] = [of |-> Content(a), run |-> runs, torn |-> FALSE]
           /\ \A b \in DOMAIN manifest \ {a} : manifest'[b] = manifest[b]
           /\ DOMAIN manifest' \subseteq Assets
           /\ \A b \in DOMAIN manifest' : manifest'[b] \in Manifests
           /\ par2' \subseteq SUBSET Media /\ AtMostOne(par2)'
<1>1. WriteManifest(a, FALSE)
  BY DEF Protected
<1>2. par2' \subseteq SUBSET Media /\ AtMostOne(par2)'
  BY ContentType DEF Protected, PaperType, FieldsOK, AtMostOne
<1> QED
  BY <1>1, <1>2, WrittenType

\* Removing manifests.
LEMMA WithoutType ==
    ASSUME PaperType, NEW S, manifest' = Without(manifest, S)
    PROVE  /\ DOMAIN manifest' = DOMAIN manifest \ S
           /\ \A b \in DOMAIN manifest' : manifest'[b] = manifest[b]
           /\ DOMAIN manifest' \subseteq Assets
           /\ \A b \in DOMAIN manifest' : manifest'[b] \in Manifests
  BY DEF Without, PaperType, FieldsOK

LEMMA FaultyType ==
    ASSUME PaperType, Faulty \/ Fine
    PROVE  faults' \in 0..MaxFaults
  BY CaptureAssumption DEF PaperType, FieldsOK, Faulty, Fine

\* What a paper may say.
PaperOK(x) ==
    /\ x.har \subseteq [file : {"archive.har", "unmerged"}, of : Contents, run : 1..MaxRuns]
    /\ x.rec \subseteq 1..MaxRuns /\ x.torn \in BOOLEAN

LEMMA StatementType ==
    ASSUME PaperType
    PROVE  PaperOK(Statement) /\ PaperOK(Torn)
<1>1. proc.har \subseteq [file : {"archive.har", "unmerged"}, of : Contents, run : 1..MaxRuns]
  BY DEF PaperType, Procs, HarRecords
<1>2. VideoIntegrity \subseteq 1..MaxRuns
  BY DEF VideoIntegrity, PaperType, FieldsOK, Manifests
<1> QED
  BY <1>1, <1>2 DEF PaperOK, Statement, Torn

LEMMA CommittedType ==
    ASSUME PaperType
    PROVE  Committed \subseteq Entries
  BY DEF Committed, Entry, Entries, Manifests, PaperType, FieldsOK

\* The files a step leaves alone keep their types.
Directory == <<ws, har, rec, shots, media, log>>
SideFiles == <<manifest, par2>>
Papers == <<meta, affidavit, seal>>

DirectoryOK ==
    /\ ws \in [index : BOOLEAN, bodies : SUBSET Bodies]
    /\ har \subseteq SUBSET Bodies /\ log \subseteq SUBSET Media
    /\ rec \in {"none", "raw", "encoding", "mp4"}
    /\ shots \in 0..Shots /\ media \subseteq Media
    /\ AtMostOne(har) /\ AtMostOne(log)
SideFilesOK ==
    /\ par2 \subseteq SUBSET Media /\ DOMAIN manifest \subseteq Assets
    /\ \A a \in DOMAIN manifest : manifest[a] \in Manifests
    /\ AtMostOne(par2)
PapersOK ==
    /\ \A x \in meta \cup affidavit : PaperOK(x)
    /\ \A x \in seal : x \subseteq Entries
    /\ AtMostOne(meta) /\ AtMostOne(affidavit) /\ AtMostOne(seal)
CountsOK ==
    /\ proc \in Procs /\ done \in Programs \cup {"none"}
    /\ runs \in 1..MaxRuns /\ crashes \in 0..MaxCrashes /\ faults \in 0..MaxFaults
    /\ captured \subseteq Bodies

LEMMA PaperTypeParts == PaperType <=> DirectoryOK /\ SideFilesOK /\ PapersOK /\ CountsOK
<1>1. ASSUME proc \in Procs PROVE proc.prog \in Programs \cup {"none"}
  BY <1>1 DEF Procs
<1> QED
  BY <1>1 DEF PaperType, FieldsOK, DirectoryOK, SideFilesOK, PapersOK, CountsOK, PaperOK, HarRecords

\* Every step keeps the types of what it counts ...
LEMMA CountsStep ==
    ASSUME PaperType, [Next]_vars
    PROVE  CountsOK'
<1>t. CountsOK /\ DirectoryOK /\ MaxRuns \in Nat /\ MaxCrashes \in Nat /\ MaxFaults \in Nat
  BY PaperTypeParts, CaptureAssumption
<1>1. proc' \in Procs /\ done' \in Programs \cup {"none"}
  BY ProcStep
<1>2. faults' \in 0..MaxFaults
  <2>1. UNCHANGED faults \/ Faulty
    <3> USE DEF Fine
    <3>1. ASSUME Session \/ Dialog \/ CancelArchive \/ CancelResume \/ Encode \/ Encoded \/ Video \/ Frames
                 \/ StartMerge \/ Replace \/ ClearPart \/ Clear
          PROVE  UNCHANGED faults \/ Faulty
      BY <3>1 DEF Session, Attach, Shoot, Close, Dialog, CancelArchive, CancelResume, Encode, Encoded,
                  Video, Frames, ProtectStep, StartMerge, Replace, ClearPart, Clear
    <3>2. ASSUME ProtectHar \/ WriteMetadata \/ WriteAffidavit \/ Prune \/ Store \/ ProtectMedium
                 \/ Acquired \/ SaveLog
          PROVE  UNCHANGED faults \/ Faulty
      BY <3>2 DEF ProtectHar, WriteMetadata, WriteAffidavit, Prune, Store, ProtectMedium, Acquired, SaveLog
    <3>3. ASSUME SummaryFails
          PROVE  UNCHANGED faults \/ Faulty
      BY <3>3 DEF SummaryFails
    <3>4. ASSUME ReadMetadata \/ Curate \/ ProtectLog \/ Seal
          PROVE  UNCHANGED faults \/ Faulty
      BY <3>4 DEF ReadMetadata, Curate, ProtectLog, ProtectStep, Seal
    <3>5. ASSUME Crash \/ BeginResume \/ BeginFinalize \/ Delete \/ Verify \/ UNCHANGED vars
          PROVE  UNCHANGED faults \/ Faulty
      BY <3>5 DEF Crash, BeginResume, BeginFinalize, Begin, Delete, Verify, vars
    <3> QED
      BY <3>1, <3>2, <3>3, <3>4, <3>5 DEF Next, Finishing
  <2> QED
    BY <1>t, <2>1, FaultyType DEF CountsOK
<1>3. /\ runs' = runs \/ (runs < MaxRuns /\ runs' = runs + 1)
      /\ crashes' = crashes \/ (crashes < MaxCrashes /\ crashes' = crashes + 1)
      /\ captured' = captured \/ captured' = ws.bodies \/ captured' = {}
  <2> DEFINE Goal == /\ runs' = runs \/ (runs < MaxRuns /\ runs' = runs + 1)
                     /\ crashes' = crashes \/ (crashes < MaxCrashes /\ crashes' = crashes + 1)
                     /\ captured' = captured \/ captured' = ws.bodies \/ captured' = {}
  <2>1. ASSUME Session \/ Dialog \/ CancelArchive \/ CancelResume \/ Encode \/ Encoded \/ Video \/ Frames
               \/ StartMerge \/ Replace \/ ClearPart \/ Clear
        PROVE  Goal
    BY <2>1 DEF Rest, Session, Attach, Shoot, Close, Dialog, CancelArchive, CancelResume, Encode, Encoded,
                Video, Frames, ProtectStep, StartMerge, Replace, ClearPart, Clear
  <2>2. ASSUME ProtectHar \/ WriteMetadata \/ WriteAffidavit \/ Prune \/ Store \/ ProtectMedium
               \/ Acquired \/ SaveLog
        PROVE  Goal
    BY <2>2 DEF Rest, ProtectHar, WriteMetadata, WriteAffidavit, Prune, Store, ProtectMedium, Acquired, SaveLog
  <2>3. ASSUME SummaryFails PROVE Goal
    BY <2>3 DEF SummaryFails, Rest
  <2>4. ASSUME ReadMetadata \/ Curate \/ ProtectLog \/ Seal PROVE Goal
    BY <2>4 DEF Rest, ReadMetadata, Curate, ProtectLog, ProtectStep, Seal
  <2>5. ASSUME Crash \/ BeginResume \/ BeginFinalize \/ Delete \/ Verify \/ UNCHANGED vars
        PROVE  Goal
    BY <2>5 DEF Rest, Crash, BeginResume, BeginFinalize, Begin, Delete, Verify, vars
  <2> HIDE DEF Goal
  <2>6. Goal
    BY <2>1, <2>2, <2>3, <2>4, <2>5 DEF Next, Finishing
  <2> QED
    BY <2>6 DEF Goal
<1>4. runs' \in 1..MaxRuns /\ crashes' \in 0..MaxCrashes
  BY ONLY <1>3, <1>t DEF CountsOK
<1>5. captured' \subseteq Bodies
  BY ONLY <1>3, <1>t DEF CountsOK, DirectoryOK
<1> QED
  BY <1>1, <1>2, <1>4, <1>5 DEF CountsOK

\* ... of the session's files, the HAR, the media and the log ...
LEMMA DirectoryStep ==
    ASSUME PaperType, [Next]_vars
    PROVE  DirectoryOK'
<1>t. DirectoryOK /\ SideFilesOK /\ Shots \in Nat
  BY PaperTypeParts, CaptureAssumption
<1>w. ws \in [index : BOOLEAN, bodies : SUBSET Bodies]
  BY <1>t DEF DirectoryOK
<1>n. NoWs \in [index : BOOLEAN, bodies : SUBSET Bodies]
  BY DEF NoWs
<1>m. media \in SUBSET Media /\ log \in SUBSET (SUBSET Media)
  BY <1>t DEF DirectoryOK
<1>0. ASSUME UNCHANGED Directory PROVE DirectoryOK'
  BY <1>0, <1>t DEF Directory, DirectoryOK, AtMostOne
<1>1. ASSUME Attach \/ Close \/ ClearPart PROVE DirectoryOK'
  <2>1. ws' \in [index : BOOLEAN, bodies : SUBSET Bodies]
    <3>1. ASSUME Attach PROVE ws' \in [index : BOOLEAN, bodies : SUBSET Bodies]
      BY <1>t, <3>1 DEF Attach, DirectoryOK
    <3>2. ASSUME Close PROVE ws' \in [index : BOOLEAN, bodies : SUBSET Bodies]
      <4>1. ws' = [ws EXCEPT !.index = TRUE] \/ ws' = ws
        BY <3>2 DEF Close
      <4> QED
        BY ONLY <1>w, <4>1
    <3>3. ASSUME ClearPart PROVE ws' \in [index : BOOLEAN, bodies : SUBSET Bodies]
      BY <1>t, <3>3 DEF ClearPart, DirectoryOK
    <3> QED
      BY <1>1, <3>1, <3>2, <3>3
  <2>2. UNCHANGED <<har, rec, shots, media, log>>
    BY <1>1 DEF Attach, Close, ClearPart
  <2> QED
    BY <2>1, <2>2, <1>t DEF DirectoryOK, AtMostOne
<1>2. ASSUME Shoot PROVE DirectoryOK'
  <2>1. shots' \in 0..Shots /\ shots + 1 \in 1..(Shots + 1)
    BY <1>2, <1>t DEF Shoot, DirectoryOK
  <2>2. rec' \in {"none", "raw", "encoding", "mp4"}
    BY <1>2, <1>t, <2>1 DEF Shoot, DirectoryOK
  <2> QED
    BY <1>2, <1>t, <2>1, <2>2 DEF Shoot, DirectoryOK, AtMostOne
<1>3. ASSUME CancelArchive \/ Encode \/ Encoded PROVE DirectoryOK'
  <2>1. rec' \in {"none", "raw", "encoding", "mp4"}
    BY <1>3, <1>t DEF CancelArchive, Encode, Encoded, DirectoryOK
  <2>2. shots' \in 0..Shots /\ ws' \in [index : BOOLEAN, bodies : SUBSET Bodies]
    <3>1. /\ shots' = 0 \/ shots' = shots
          /\ ws' = NoWs \/ ws' = ws
      BY <1>3 DEF CancelArchive, Encode, Encoded
    <3>2. shots' \in 0..Shots
      BY <1>t, <3>1 DEF DirectoryOK
    <3> QED
      BY ONLY <1>w, <1>n, <3>1, <3>2
  <2>3. UNCHANGED <<har, media, log>>
    BY <1>3 DEF CancelArchive, Encode, Encoded
  <2> QED
    BY <2>1, <2>2, <2>3, <1>t DEF DirectoryOK, AtMostOne
<1>4. ASSUME StartMerge PROVE DirectoryOK'
  <2>1. UNCHANGED Directory
    BY <1>4 DEF StartMerge, MergeFails, Directory
  <2> QED
    BY <2>1, <1>0
<1>5. ASSUME Replace PROVE DirectoryOK'
  BY <1>5, <1>t DEF Replace, DirectoryOK, AtMostOne
<1>6. ASSUME Clear PROVE DirectoryOK'
  <2>1. ws' \in [index : BOOLEAN, bodies : SUBSET Bodies]
    <3>1. ws' = NoWs \/ ws' = ws
      BY <1>6 DEF Clear, MergeFails
    <3> QED
      BY ONLY <1>w, <1>n, <3>1
  <2>2. UNCHANGED <<har, rec, shots, media, log>>
    BY <1>6 DEF Clear
  <2> QED
    BY <2>1, <2>2, <1>t DEF DirectoryOK, AtMostOne
<1>7. ASSUME Dialog \/ CancelResume \/ Video \/ Frames \/ ProtectHar \/ WriteMetadata \/ WriteAffidavit
             \/ Prune \/ ProtectMedium \/ Acquired \/ ReadMetadata \/ ProtectLog \/ Seal
      PROVE  DirectoryOK'
  <2>1. UNCHANGED Directory
    BY <1>7 DEF Directory, files, Dialog, CancelResume, Video, Frames, ProtectHar, WriteMetadata,
       WriteAffidavit, Prune, ProtectMedium, Acquired, ReadMetadata, ProtectLog, ProtectStep, Seal
  <2> QED
    BY <2>1, <1>0
<1>8. ASSUME SummaryFails PROVE DirectoryOK'
  BY <1>8, <1>0 DEF SummaryFails, files, Directory
<1>9. ASSUME Store \/ Curate \/ Delete PROVE DirectoryOK'
  BY <1>9, <1>t DEF Store, Curate, Delete, DirectoryOK, AtMostOne
<1>10. ASSUME SaveLog PROVE DirectoryOK'
  <2>1. (UNION log) \cup media \in SUBSET Media
    <3>1. ASSUME NEW a \in UNION log PROVE a \in Media
      <4>1. PICK S \in log : a \in S
        OBVIOUS
      <4> QED
        BY ONLY <4>1, <1>m
    <3> QED
      BY ONLY <1>m, <3>1
  <2>2. log' = {(UNION log) \cup media} \/ log' = log
    BY <1>10 DEF SaveLog
  <2>3. log' \subseteq SUBSET Media /\ AtMostOne(log)'
    BY <1>t, <2>1, <2>2 DEF DirectoryOK, AtMostOne
  <2>4. UNCHANGED <<ws, har, rec, shots, media>>
    BY <1>10 DEF SaveLog
  <2> QED
    BY <2>3, <2>4, <1>t DEF DirectoryOK, AtMostOne
<1>11. ASSUME Verify PROVE DirectoryOK'
  BY <1>11, <1>t DEF Verify, DirectoryOK, SideFilesOK, AtMostOne
<1>12. ASSUME BeginResume \/ BeginFinalize \/ UNCHANGED vars PROVE DirectoryOK'
  BY <1>12, <1>0 DEF BeginResume, BeginFinalize, Begin, vars, files, Directory
<1>13. ASSUME Crash PROVE DirectoryOK'
  <2>1. UNCHANGED <<ws, har, rec, shots, media>> /\ log' \in {log, {{}}}
    BY <1>13 DEF Crash
  <2>2. log' \subseteq SUBSET Media /\ AtMostOne(log)'
    BY <1>t, <2>1 DEF DirectoryOK, AtMostOne
  <2> QED
    BY <1>t, <2>1, <2>2 DEF DirectoryOK, AtMostOne
<1> QED
  BY <1>1, <1>2, <1>3, <1>4, <1>5, <1>6, <1>7, <1>8, <1>9, <1>10, <1>11, <1>12, <1>13
  DEF Next, Session, Finishing

\* ... of the manifests and the PAR2 files ...
LEMMA SideFilesStep ==
    ASSUME PaperType, [Next]_vars
    PROVE  SideFilesOK'
<1>t. SideFilesOK
  BY PaperTypeParts
<1>0. ASSUME UNCHANGED SideFiles PROVE SideFilesOK'
  BY <1>0, <1>t DEF SideFiles, SideFilesOK, AtMostOne
<1>a. ASSUME NEW a, Present(a), Protected(a) PROVE SideFilesOK'
  BY <1>a, PresentIsAsset, ProtectedType DEF SideFilesOK, AtMostOne
<1>b. ASSUME NEW S, manifest' = Without(manifest, S), par2' = par2 PROVE SideFilesOK'
  BY <1>b, <1>t, WithoutType DEF SideFilesOK, AtMostOne
<1>1. ASSUME Video \/ Frames \/ ProtectLog PROVE SideFilesOK'
  BY <1>1, <1>0, <1>a DEF Video, Frames, ProtectLog, ProtectStep, SideFiles
<1>2. ASSUME StartMerge PROVE SideFilesOK'
  BY <1>2, <1>0 DEF StartMerge, SideFiles
<1>3. ASSUME Clear PROVE SideFilesOK'
  BY <1>3, <1>0, <1>b DEF Clear, MergeFails, SideFiles
<1>4. ASSUME ProtectHar PROVE SideFilesOK'
  BY <1>4, <1>0, <1>a DEF ProtectHar, SideFiles
<1>5. ASSUME Prune PROVE SideFilesOK'
  BY <1>5, <1>0, <1>b DEF Prune, SideFiles
<1>6. ASSUME ProtectMedium PROVE SideFilesOK'
  <2>1. ASSUME NEW m \in proc.hand, Protected(m) PROVE SideFilesOK'
    <3>1. m \in Assets
      BY DEF PaperType, Procs, Assets
    <3> QED
      BY <2>1, <3>1, ProtectedType DEF SideFilesOK, AtMostOne
  <2> QED
    BY <1>6, <1>0, <2>1 DEF ProtectMedium, SideFiles
<1>7. ASSUME SummaryFails PROVE SideFilesOK'
  BY <1>7, <1>0 DEF SummaryFails, files, SideFiles
<1>8. ASSUME Session \/ Dialog \/ CancelArchive \/ CancelResume \/ Encode \/ Encoded \/ Replace \/ ClearPart
             \/ WriteMetadata \/ WriteAffidavit \/ Store \/ Acquired \/ SaveLog \/ ReadMetadata \/ Curate \/ Seal
      PROVE  SideFilesOK'
  <2>1. UNCHANGED SideFiles
    BY <1>8 DEF SideFiles, files, Session, Attach, Shoot, Close, Dialog, CancelArchive, CancelResume, Encode,
       Encoded, Replace, ClearPart, WriteMetadata, WriteAffidavit, Store, Acquired, SaveLog, ReadMetadata, Curate, Seal
  <2> QED
    BY <2>1, <1>0
<1>9. ASSUME BeginResume \/ BeginFinalize \/ Delete \/ Verify \/ UNCHANGED vars PROVE SideFilesOK'
  BY <1>9, <1>0 DEF BeginResume, BeginFinalize, Begin, Delete, Verify, vars, files, SideFiles
<1>10. ASSUME Crash PROVE SideFilesOK'
  <2>1. ASSUME NEW a, Present(a), Tear(a) PROVE SideFilesOK'
    <3>1. a \in Assets /\ Content("log") \in SUBSET Media
      BY <2>1, PresentIsAsset, ContentType
    <3>2. par2' \in {par2, {}, {Content("log")}}
      BY <2>1 DEF Tear
    <3>3. par2' \subseteq SUBSET Media /\ AtMostOne(par2)'
      BY <1>t, <3>1, <3>2 DEF SideFilesOK, AtMostOne
    <3>4. DOMAIN manifest' \subseteq Assets /\ \A b \in DOMAIN manifest' : manifest'[b] \in Manifests
      <4>1. CASE WriteManifest(a, TRUE)
        BY <3>1, <4>1, WrittenType
      <4>2. CASE UNCHANGED manifest
        BY <1>t, <4>2 DEF SideFilesOK
      <4> QED
        BY <2>1, <4>1, <4>2 DEF Tear
    <3> QED
      BY <3>3, <3>4 DEF SideFilesOK
  <2> QED
    BY <1>10, <1>0, <2>1 DEF Crash, InProtection, SideFiles
<1> QED
  BY <1>1, <1>2, <1>3, <1>4, <1>5, <1>6, <1>7, <1>8, <1>9, <1>10 DEF Next, Session, Finishing

\* ... and of metadata.json, the affidavit and the seal.
LEMMA PapersStep ==
    ASSUME PaperType, [Next]_vars
    PROVE  PapersOK'
<1>t. PapersOK
  BY PaperTypeParts
<1>0. ASSUME UNCHANGED Papers PROVE PapersOK'
  BY <1>0, <1>t DEF Papers, PapersOK, AtMostOne
<1>1. ASSUME WriteMetadata PROVE PapersOK'
  BY <1>1, <1>t, StatementType DEF WriteMetadata, PapersOK, AtMostOne
<1>2. ASSUME WriteAffidavit PROVE PapersOK'
  BY <1>2, <1>t, StatementType DEF WriteAffidavit, PapersOK, AtMostOne
<1>3. ASSUME Seal PROVE PapersOK'
  BY <1>3, <1>t, CommittedType DEF Seal, PapersOK, AtMostOne
<1>4. ASSUME Crash PROVE PapersOK'
  BY <1>4, <1>t, StatementType DEF Crash, PapersOK, AtMostOne
<1>5. ASSUME Session \/ Dialog \/ CancelArchive \/ CancelResume \/ Encode \/ Encoded \/ Video \/ Frames
             \/ StartMerge \/ Replace \/ ClearPart \/ Clear \/ ProtectHar
      PROVE  PapersOK'
  <2>1. UNCHANGED Papers
    BY <1>5 DEF Papers, files, Session, Attach, Shoot, Close, Dialog, CancelArchive, CancelResume, Encode, Encoded,
       Video, Frames, ProtectStep, StartMerge, Replace, ClearPart, Clear, ProtectHar
  <2> QED
    BY <2>1, <1>0
<1>6. ASSUME Prune \/ Store \/ ProtectMedium \/ Acquired \/ SaveLog \/ ReadMetadata \/ Curate \/ ProtectLog
      PROVE  PapersOK'
  <2>1. UNCHANGED Papers
    BY <1>6 DEF Papers, files, Prune, Store, ProtectMedium, Acquired, SaveLog, ReadMetadata, Curate,
       ProtectLog, ProtectStep
  <2> QED
    BY <2>1, <1>0
<1>7. ASSUME SummaryFails PROVE PapersOK'
  BY <1>7, <1>0 DEF SummaryFails, files, Papers
<1>8. ASSUME BeginResume \/ BeginFinalize \/ Delete \/ Verify \/ UNCHANGED vars PROVE PapersOK'
  BY <1>8, <1>0 DEF BeginResume, BeginFinalize, Begin, Delete, Verify, vars, files, Papers
<1> QED
  BY <1>1, <1>2, <1>3, <1>4, <1>5, <1>6, <1>7, <1>8 DEF Next, Session, Finishing

LEMMA PaperTypeStep == PaperType /\ [Next]_vars => PaperType'
<1> SUFFICES ASSUME PaperType, [Next]_vars PROVE PaperType'
  OBVIOUS
<1>1. (DirectoryOK /\ SideFilesOK /\ PapersOK /\ CountsOK)'
  BY DirectoryStep, SideFilesStep, PapersStep, CountsStep
<1> QED
  BY <1>1, PaperTypeParts, PTL
-----------------------------------------------------------------------------
(* A program that has failed promises nothing                              *)

Promises == RecordInv /\ SealInv /\ CoverInv /\ EndInv
Dirty == done = "none" /\ (~proc.clean \/ (proc.at = "none" /\ proc.prog = "none"))

\* While a program runs, and after one that failed, the papers promise no more
\* than that they name the HAR that is there.
LEMMA RunningEnd ==
    ASSUME (done = "none")', ManifestInv'
    PROVE  EndInv'
  BY DEF EndInv, SealIsTrue, RecordIsTrue, CaptureIsCovered, ManifestInv

LEMMA DirtyPromises ==
    ASSUME Dirty', ManifestInv'
    PROVE  Promises'
<1>1. EndInv'
  BY RunningEnd DEF Dirty
<1>2. "none" \notin FromHar
  BY DEF FromHar
<1>3. RecordInv' /\ SealInv' /\ CoverInv'
  BY <1>2 DEF Dirty, RecordInv, Capturing, SealInv, Pruned, CoverInv, At
<1> QED
  BY <1>1, <1>3 DEF Promises

LEMMA OverIsDirty ==
    ASSUME Over
    PROVE  Dirty' /\ ProgramInv'
  BY IdleFields DEF Over, Dirty, ProgramInv, At

\* Where the programs may go next.
MayGo(step) ==
    /\ step \notin {"none", "read"}
    /\ step \in {"record", "encode", "encoded", "video", "frames"} => proc.prog = "archive"
    /\ proc.prog = "finalize" =>
          step \in {"curate", "prune_again", "save_again", "log", "seal"}

LEMMA ProgramGoes ==
    ASSUME ProgramInv, ~At("none"), NEW step, MayGo(step),
           proc'.prog = proc.prog, proc'.at = step, proc'.hand = {},
           proc'.path \in {proc.path, "archive.har"}, done' = done
    PROVE  ProgramInv'
  BY DEF ProgramInv, At, MayGo

LEMMA AfterMayGo ==
    ASSUME PaperType, ProgramInv, ~At("none"), After(proc.at) # "end"
    PROVE  MayGo(After(proc.at)) /\ After(proc.at) \in Steps
<1>1. proc.at \in Steps /\ proc.prog \in {"archive", "resume", "finalize"}
  BY DEF PaperType, Procs, Programs, ProgramInv, At
<1>2. After(proc.at) \in Steps /\ After(proc.at) \notin {"none", "read"}
  <2>1. proc.at \in Steps \ {"none"}
    BY <1>1 DEF At
  <2>2. After(proc.at) \in Steps
    BY <2>1 DEF After, Steps, BeforeHar, FromHar
  <2>3. After(proc.at) \notin {"none", "read"}
    BY <2>1 DEF After, Steps, BeforeHar, FromHar
  <2> QED
    BY <2>2, <2>3
<1>3. After(proc.at) \in {"record", "encode", "encoded", "video", "frames"} => proc.prog = "archive"
  BY <1>1 DEF After, Steps, BeforeHar, FromHar, At, ProgramInv
<1>4. proc.prog = "finalize" =>
        After(proc.at) \in {"curate", "prune_again", "save_again", "log", "seal"}
  BY <1>1 DEF After, At, ProgramInv
<1> QED
  BY <1>2, <1>3, <1>4 DEF MayGo

\* Going on with the next step.
LEMMA Forward ==
    ASSUME PaperType, ProgramInv, ~At("none"), proc.hand = {}, After(proc.at) # "end",
           GoesOn(proc) \/ GoesOn(Unclean)
    PROVE  /\ ProgramInv' /\ (done = "none")'
           /\ proc' \in Procs /\ proc'.prog = proc.prog /\ proc'.har = proc.har
           /\ proc'.path = proc.path /\ proc'.hand = {} /\ proc'.at = After(proc.at)
           /\ GoesOn(proc) => proc'.clean = proc.clean
           /\ ~proc'.clean => Dirty'
           /\ GoesOn(Unclean) => Dirty'
<1>1. MayGo(After(proc.at)) /\ After(proc.at) \in Steps /\ proc \in Procs
  BY AfterMayGo DEF PaperType
<1>2. /\ proc' \in Procs /\ proc'.prog = proc.prog /\ proc'.har = proc.har
      /\ proc'.path = proc.path /\ proc'.hand = {} /\ proc'.at = After(proc.at) /\ done' = done
      /\ GoesOn(proc) => proc'.clean = proc.clean
      /\ GoesOn(Unclean) => ~proc'.clean
  BY <1>1, GoesOnFields DEF Went, SameProgram
<1>3. ProgramInv'
  BY <1>1, <1>2, ProgramGoes
<1>4. (done = "none")'
  BY <1>2 DEF ProgramInv, At, PaperType, Procs
<1> QED
  BY <1>2, <1>3, <1>4 DEF Dirty

\* A step that leaves the papers, the manifests and what they protect alone.
LEMMA ManifestKept ==
    ASSUME PaperType, ManifestInv, UNCHANGED <<har, shots, manifest, meta, affidavit>>,
           log' = log \/ log' # {},
           rec' = rec \/ rec' \in {"encoding", "mp4"},
           proc'.har \in {proc.har, {}},
           (At("replace") => har = {})',
           (proc.prog = "archive" /\ proc.at \in {"record", "dialog"} => DOMAIN manifest = {})'
    PROVE  ManifestInv'
<1>1. \A a : Present(a) => a \in Media \cup {"unmerged"} \/ Present(a)'
  <2>1. media \subseteq Media
    BY DEF PaperType, FieldsOK
  <2> QED
    BY <2>1 DEF Present
<1>2. \A a : a # "log" => Content(a)' = Content(a)
  BY DEF Content
<1>3. (\A a \in DOMAIN manifest : a \in Media \cup {"unmerged"} \/ Present(a))'
  BY <1>1 DEF ManifestInv
<1>4. (\A a \in DOMAIN manifest \ {"log"} : manifest[a].of = Content(a))'
  BY <1>2 DEF ManifestInv
<1>5. (\A x \in meta \cup affidavit \cup {proc} : \A h \in x.har :
          h.file = "archive.har" => har = {h.of})'
  BY DEF ManifestInv
<1> QED
  BY <1>3, <1>4, <1>5 DEF ManifestInv
\* A step that leaves the manifests of archive.har and the recording alone and is not the writing
\* of a statement keeps what is recorded; one that makes no orphan what is pruned;
\* one that stores nothing and removes no manifest what is covered.
InRecord == FromHar \ {"har", "metadata", "affidavit"}
StatedKept ==
    /\ "archive.har" \in DOMAIN manifest =>
          /\ "archive.har" \in (DOMAIN manifest)'
          /\ manifest'["archive.har"].run = manifest["archive.har"].run
          /\ manifest'["archive.har"].torn = manifest["archive.har"].torn
    /\ VideoIntegrity' = VideoIntegrity

LEMMA RecordKept ==
    ASSUME RecordInv, StatedKept, UNCHANGED <<meta, affidavit>>,
           proc'.prog = proc.prog, proc'.har = proc.har, proc'.clean = proc.clean,
           (proc.at \in FromHar)' => proc'.path = "archive.har" \/ (proc.at \in FromHar /\ proc'.path = proc.path),
           (proc.at \in FromHar \ {"har"})' => proc.at \in FromHar \ {"har"},
           (proc.at \in InRecord)' => proc.at \in InRecord,
           proc'.at # "affidavit"
    PROVE  RecordInv'
<1>1. (proc.clean /\ proc.at \in FromHar => proc.path = "archive.har")'
  BY DEF RecordInv
<1>2. (Capturing /\ proc.at \in FromHar \ {"har"} => HarIsRecorded)'
  BY DEF RecordInv, Capturing, HarIsRecorded, StatedKept
<1>3. (Capturing /\ proc.at \in FromHar \ {"har", "metadata", "affidavit"} =>
          /\ affidavit = meta /\ meta # {}
          /\ \A x \in meta : x.har = proc.har /\ x.rec = VideoIntegrity)'
  BY DEF RecordInv, Capturing, InRecord, StatedKept
<1> QED
  BY <1>1, <1>2, <1>3 DEF RecordInv, At

LEMMA SealKept ==
    ASSUME SealInv, proc'.clean = proc.clean, Pruned' => Pruned, Orphans' \subseteq Orphans,
           proc'.at # "seal"
    PROVE  SealInv'
  BY DEF SealInv, At

LEMMA CoverKept ==
    ASSUME CoverInv, proc'.clean = proc.clean, proc'.prog = proc.prog, UNCHANGED <<rec, shots>>,
           media' \subseteq media, media \cap DOMAIN manifest \subseteq (DOMAIN manifest)',
           proc.hand \subseteq proc'.hand,
           {"recording", "frames"} \cap DOMAIN manifest \subseteq (DOMAIN manifest)',
           (proc.at \notin BeforeEncoded)' => proc.at \notin BeforeEncoded,
           (proc.at \notin BeforeFrames)' => proc.at \notin BeforeFrames,
           (proc.at \notin BeforeMerge)' => proc.at \notin BeforeMerge
    PROVE  CoverInv'
  BY DEF CoverInv, Present
-----------------------------------------------------------------------------
(* The steps of the session                                                *)

Kept == ProgramInv' /\ ManifestInv' /\ Promises'

\* The dialog is answered, the recording is encoded.
LEMMA FilesSteps ==
    ASSUME PaperType, WorkInv, Dialog \/ Encode \/ Encoded
    PROVE  Kept
<1>1. /\ GoesOn(proc) /\ proc.at \in {"dialog", "encode", "encoded"}
      /\ UNCHANGED <<har, shots, media, log, manifest, meta, affidavit, seal>>
      /\ proc.at = "dialog" => rec' = rec
  BY DEF Dialog, Encode, Encoded, files, At
<1>2. After(proc.at) = CASE proc.at = "dialog" -> IF proc.prog = "archive" THEN "encode" ELSE "har"
                         [] proc.at = "encode" -> "encoded"
                         [] proc.at = "encoded" -> "video"
  BY <1>1 DEF After
<1>3. After(proc.at) # "end" /\ ~At("none") /\ proc.hand = {}
  BY <1>1, <1>2 DEF At, WorkInv, ProgramInv
<1>4. /\ ProgramInv' /\ (done = "none")'
      /\ proc'.prog = proc.prog /\ proc'.har = proc.har /\ proc'.path = proc.path
      /\ proc'.hand = {} /\ proc'.at = After(proc.at) /\ proc'.clean = proc.clean
  BY <1>1, <1>3, Forward DEF WorkInv
<1>5. /\ rec' = rec \/ rec' \in {"encoding", "mp4"}
      /\ proc.at = "encode" => rec' # "raw"
      /\ rec # "raw" => rec' # "raw"
  <2>1. rec \in {"none", "raw", "encoding", "mp4"}
    BY DEF PaperType, FieldsOK
  <2>2. CASE Dialog
    BY <2>2 DEF Dialog, files, At
  <2>3. CASE Encode
    BY <2>1, <2>3 DEF Encode
  <2>4. CASE Encoded
    BY <2>1, <2>4 DEF Encoded, At
  <2> QED
    BY <2>2, <2>3, <2>4
<1>6. ManifestInv'
  BY <1>1, <1>2, <1>4, <1>5, ManifestKept DEF At, WorkInv
<1>7. RecordInv'
  <2>1. (proc.at \in FromHar)' => proc'.path = "archive.har" /\ proc'.at = "har"
    BY <1>1, <1>2, <1>4 DEF FromHar, WorkInv, ProgramInv, PaperType, Procs, Programs, At
  <2>2. StatedKept
    BY <1>1 DEF StatedKept, VideoIntegrity
  <2>3. proc'.at \notin FromHar \ {"har"} /\ proc'.at \notin InRecord /\ proc'.at # "affidavit"
    BY <2>1, <1>1, <1>2, <1>4 DEF InRecord
  <2> QED
    BY <1>1, <1>4, <2>1, <2>2, <2>3, RecordKept DEF WorkInv
<1>8. SealInv'
  <2>1. proc'.at \in {"encode", "encoded", "video", "har"}
    BY <1>1, <1>2, <1>4
  <2> QED
    BY <1>1, <1>4, <2>1 DEF SealInv, Pruned, At
<1>9. CoverInv'
  <2>1. CASE proc.prog # "archive"
    BY <1>4, <2>1 DEF CoverInv
  <2>2. CASE proc.prog = "archive"
    <3>1. proc'.at \in {"encode", "encoded", "video"} /\ (proc'.at # "encode" => proc.at # "dialog")
      BY <1>1, <1>2, <1>4, <2>2
    <3>2. proc'.at \in BeforeFrames /\ proc'.at \in BeforeMerge
      BY <3>1 DEF BeforeFrames, BeforeMerge, BeforeEncoded
    <3>3. (proc.clean /\ proc.at \notin BeforeEncoded => rec # "raw")'
      BY <1>1, <1>2, <1>4, <1>5, <2>2 DEF BeforeEncoded, WorkInv, CoverInv
    <3>4. proc.clean => media \subseteq DOMAIN manifest \cup proc.hand
      BY <2>2 DEF WorkInv, CoverInv
    <3> QED
      BY <1>1, <1>3, <1>4, <3>2, <3>3, <3>4 DEF CoverInv
  <2> QED
    BY <2>1, <2>2
<1>10. EndInv'
  BY <1>4, <1>6, RunningEnd
<1> QED
  BY <1>4, <1>6, <1>7, <1>8, <1>9, <1>10 DEF Kept, Promises
LEMMA OverKeeps ==
    ASSUME Over, ManifestInv'
    PROVE  Kept
  BY OverIsDirty, DirtyPromises DEF Kept

LEMMA DirtyKeeps ==
    ASSUME ProgramInv', ManifestInv', Dirty'
    PROVE  Kept
  BY DirtyPromises DEF Kept

\* The browser and rmtree change nothing but the workspace.
LEMMA WorkspaceSteps ==
    ASSUME PaperType, WorkInv, Attach \/ ClearPart
    PROVE  Kept
<1>1. /\ UNCHANGED <<har, rec, shots, media, log, manifest, meta, affidavit, seal, proc, done>>
      /\ proc.at \in {"record", "clear"}
  BY DEF Attach, ClearPart, At
<1>2. ProgramInv'
  BY <1>1 DEF WorkInv, ProgramInv, At
<1>3. ManifestInv'
  BY <1>1, ManifestKept DEF WorkInv, ManifestInv, At
<1>4. (done = "none")'
  BY <1>1 DEF WorkInv, ProgramInv, At
<1>5. RecordInv' /\ SealInv'
  BY <1>1 DEF RecordInv, FromHar, SealInv, Pruned, At, Capturing
<1>6. CoverInv'
  BY <1>1 DEF WorkInv, CoverInv, Present
<1> QED
  BY <1>2, <1>3, <1>4, <1>5, <1>6, RunningEnd DEF Kept, Promises

\* While frames are hashed no manifest is written.
LEMMA ShootStep ==
    ASSUME PaperType, WorkInv, Shoot
    PROVE  Kept
<1>1. /\ UNCHANGED <<har, media, log, manifest, meta, affidavit, seal, proc, done>>
      /\ proc.at = "record"
  BY DEF Shoot, At, Rest
<1>2. ProgramInv' /\ (done = "none")' /\ DOMAIN manifest = {}
  BY <1>1 DEF WorkInv, ProgramInv, ManifestInv, At
<1>3. ManifestInv'
  BY <1>1, <1>2 DEF WorkInv, ManifestInv, At
<1>4. RecordInv' /\ SealInv'
  BY <1>1 DEF RecordInv, FromHar, SealInv, Pruned, At, Capturing
<1>5. CoverInv'
  BY <1>1 DEF WorkInv, CoverInv, BeforeMerge, BeforeFrames, BeforeEncoded
<1> QED
  BY <1>2, <1>3, <1>4, <1>5, RunningEnd DEF Kept, Promises

LEMMA CloseStep ==
    ASSUME PaperType, WorkInv, Close
    PROVE  Kept
<1>1. /\ UNCHANGED <<har, rec, shots, media, log, manifest, meta, affidavit, seal>>
      /\ proc.at = "record" /\ (GoesOn(proc) \/ GoesOn(Unclean))
  BY DEF Close, At
<1>2. proc.prog = "archive" /\ DOMAIN manifest = {} /\ proc.hand = {} /\ ~At("none")
  BY <1>1 DEF WorkInv, ProgramInv, ManifestInv, At
<1>3. After(proc.at) = "dialog"
  BY <1>1 DEF After
<1>4. /\ ProgramInv' /\ (done = "none")' /\ proc'.prog = proc.prog /\ proc'.har = proc.har
      /\ proc'.hand = {} /\ proc'.at = "dialog"
      /\ GoesOn(proc) => proc'.clean = proc.clean
      /\ GoesOn(Unclean) => Dirty'
  BY <1>1, <1>2, <1>3, Forward DEF WorkInv
<1>5. ManifestInv'
  BY <1>1, <1>2, <1>4, ManifestKept DEF At, WorkInv
<1>6. CASE GoesOn(Unclean)
  BY <1>4, <1>5, <1>6, DirtyKeeps
<1>7. CASE GoesOn(proc)
  <2>1. RecordInv' /\ SealInv'
    BY <1>4 DEF RecordInv, FromHar, SealInv, Pruned, At, Capturing
  <2>2. CoverInv'
    BY <1>1, <1>2, <1>4, <1>7 DEF WorkInv, CoverInv, BeforeMerge, BeforeFrames, BeforeEncoded
  <2> QED
    BY <1>4, <1>5, <2>1, <2>2, RunningEnd DEF Kept, Promises
<1> QED
  BY <1>1, <1>6, <1>7

LEMMA CancelSteps ==
    ASSUME PaperType, WorkInv, CancelArchive \/ CancelResume
    PROVE  Kept
<1>1. Over /\ UNCHANGED <<har, media, log, manifest, meta, affidavit, seal>>
  BY UncleanEnds DEF CancelArchive, CancelResume, files, PaperType
<1>2. proc'.har = {} /\ proc'.at = "none" /\ proc'.prog = "none"
  BY <1>1, IdleFields DEF Over
<1>3. CASE CancelResume
  <2>1. ManifestInv'
    BY <1>1, <1>2, <1>3, ManifestKept DEF CancelResume, files, At, WorkInv
  <2> QED
    BY <1>1, <2>1, OverKeeps
<1>4. CASE CancelArchive
  <2>1. DOMAIN manifest = {}
    BY <1>4 DEF CancelArchive, WorkInv, ManifestInv, At
  <2>2. ManifestInv'
    BY <1>1, <1>2, <2>1 DEF WorkInv, ManifestInv, At
  <2> QED
    BY <1>1, <2>2, OverKeeps
<1> QED
  BY <1>3, <1>4

-----------------------------------------------------------------------------
(* The steps that write or remove manifests                                *)

LEMMA ManifestWritten ==
    ASSUME PaperType, ManifestInv, NEW a, Present(a), NEW torn \in BOOLEAN, WriteManifest(a, torn),
           UNCHANGED <<har, rec, shots, media>>, log' = log \/ log' # {},
           (\A x \in meta \cup affidavit \cup {proc} : \A h \in x.har :
               h.file = "archive.har" => har = {h.of})',
           (At("replace") => har = {})',
           (proc.prog = "archive" => proc.at \notin {"record", "dialog"})'
    PROVE  ManifestInv'
<1>1. /\ (DOMAIN manifest)' = DOMAIN manifest \cup {a}
      /\ manifest'[a] = [of |-> Content(a), run |-> runs, torn |-> torn]
      /\ \A b \in DOMAIN manifest \ {a} : manifest'[b] = manifest[b]
  BY PresentIsAsset, WrittenType
<1>2. \A b : Present(b) /\ b # "unmerged" => Present(b)'
  BY DEF Present
<1>3. \A b : b # "log" => Content(b)' = Content(b)
  BY DEF Content
<1>4. (\A b \in DOMAIN manifest : b \in Media \cup {"unmerged"} \/ Present(b))'
  BY <1>1, <1>2 DEF ManifestInv
<1>5. (\A b \in DOMAIN manifest \ {"log"} : manifest[b].of = Content(b))'
  BY <1>1, <1>3 DEF ManifestInv
<1> QED
  BY <1>4, <1>5 DEF ManifestInv

LEMMA ManifestProtected ==
    ASSUME PaperType, ManifestInv, NEW a, Present(a), Protected(a),
           UNCHANGED <<har, rec, shots, media, log, meta, affidavit>>,
           \A h \in proc'.har : h \in proc.har \/ (h.file = "archive.har" => har = {h.of}),
           (At("replace") => har = {})',
           (proc.prog = "archive" => proc.at \notin {"record", "dialog"})'
    PROVE  ManifestInv'
<1>1. WriteManifest(a, FALSE)
  BY DEF Protected
<1>2. (\A x \in meta \cup affidavit \cup {proc} : \A h \in x.har :
          h.file = "archive.har" => har = {h.of})'
  BY DEF ManifestInv
<1> QED
  BY <1>1, <1>2, ManifestWritten

LEMMA ManifestWithout ==
    ASSUME PaperType, ManifestInv, NEW S, manifest' = Without(manifest, S),
           UNCHANGED <<har, rec, shots, media, log, meta, affidavit>>,
           proc'.har = proc.har,
           (At("replace") => har = {})',
           (proc.prog = "archive" => proc.at \notin {"record", "dialog"})'
    PROVE  ManifestInv'
<1>1. /\ (DOMAIN manifest)' = DOMAIN manifest \ S
      /\ \A b \in DOMAIN manifest \ S : manifest'[b] = manifest[b]
  BY WithoutType
<1>2. \A b : Present(b) /\ b # "unmerged" => Present(b)'
  BY DEF Present
<1>3. \A b : Content(b)' = Content(b)
  BY DEF Content
<1>4. (\A b \in DOMAIN manifest : b \in Media \cup {"unmerged"} \/ Present(b))'
  BY <1>1, <1>2 DEF ManifestInv
<1>5. (\A b \in DOMAIN manifest \ {"log"} : manifest[b].of = Content(b))'
  BY <1>1, <1>3 DEF ManifestInv
<1>6. (\A x \in meta \cup affidavit \cup {proc} : \A h \in x.har :
          h.file = "archive.har" => har = {h.of})'
  BY DEF ManifestInv
<1> QED
  BY <1>4, <1>5, <1>6 DEF ManifestInv
\* What the protection of the recording, the frames and the log have in common.
LEMMA ProtectStepFacts ==
    ASSUME PaperType, WorkInv, NEW step \in {"video", "frames", "log"},
           NEW a \in {"recording", "frames", "log"}, ProtectStep(step, a)
    PROVE  /\ ProgramInv' /\ ManifestInv' /\ (done = "none")'
           /\ UNCHANGED <<har, rec, shots, media, log, meta, affidavit, seal>>
           /\ proc.at = step /\ proc'.at = After(step) /\ proc'.prog = proc.prog
           /\ proc'.har = proc.har /\ proc'.path = proc.path /\ proc'.hand = {} /\ proc.hand = {}
           /\ a # "recording" => StatedKept
           /\ DOMAIN manifest \subseteq (DOMAIN manifest)'
           /\ (DOMAIN manifest)' \subseteq DOMAIN manifest \cup {a}
           /\ \/ Dirty'
              \/ /\ proc'.clean = proc.clean
                 /\ \/ /\ Present(a) /\ a \in (DOMAIN manifest)'
                       /\ manifest'[a].of = Content(a) /\ ~manifest'[a].torn
                    \/ ~Present(a) /\ UNCHANGED manifest
<1>1. /\ UNCHANGED <<har, rec, shots, media, log, meta, affidavit, seal>>
      /\ proc.at = step
      /\ \/ Present(a) /\ Protected(a) /\ GoesOn(proc)
         \/ ~Present(a) /\ UNCHANGED manifest /\ GoesOn(proc)
         \/ UNCHANGED manifest /\ GoesOn(Unclean)
  BY DEF ProtectStep, At
<1>2. After(proc.at) \in {"frames", "merge", "seal"}
  BY <1>1 DEF After
<1>3. proc.hand = {} /\ ~At("none") /\ After(proc.at) # "end" /\ (GoesOn(proc) \/ GoesOn(Unclean))
  BY <1>1, <1>2 DEF At, WorkInv, ProgramInv
<1>4. /\ ProgramInv' /\ (done = "none")' /\ proc'.prog = proc.prog /\ proc'.har = proc.har
      /\ proc'.path = proc.path /\ proc'.hand = {} /\ proc'.at = After(proc.at)
      /\ GoesOn(proc) => proc'.clean = proc.clean
      /\ GoesOn(Unclean) => Dirty'
  BY <1>3, Forward DEF WorkInv
<1>5. (At("replace") => har = {})' /\ (proc.prog = "archive" => proc.at \notin {"record", "dialog"})'
  BY <1>2, <1>4 DEF At
<1>6. CASE Present(a) /\ Protected(a) /\ GoesOn(proc)
  <2>1. ManifestInv'
    BY <1>1, <1>4, <1>5, <1>6, ManifestProtected DEF WorkInv
  <2>2. /\ (DOMAIN manifest)' = DOMAIN manifest \cup {a}
        /\ manifest'[a] = [of |-> Content(a), run |-> runs, torn |-> FALSE]
        /\ \A b \in DOMAIN manifest \ {a} : manifest'[b] = manifest[b]
    BY <1>6, PresentIsAsset, ProtectedType
  <2>3. a # "recording" => StatedKept
    BY <2>2 DEF StatedKept, VideoIntegrity
  <2> QED
    BY <1>1, <1>3, <1>4, <1>6, <2>1, <2>2, <2>3
<1>7. CASE UNCHANGED manifest
  <2>1. ManifestInv'
    BY <1>1, <1>4, <1>5, <1>7, ManifestKept DEF WorkInv
  <2>2. StatedKept
    BY <1>7 DEF StatedKept, VideoIntegrity
  <2>3. \/ Dirty'
        \/ /\ proc'.clean = proc.clean
           /\ \/ /\ Present(a) /\ a \in (DOMAIN manifest)'
                 /\ manifest'[a].of = Content(a) /\ ~manifest'[a].torn
              \/ ~Present(a) /\ UNCHANGED manifest
    <3>1. CASE GoesOn(Unclean)
      BY <1>4, <3>1
    <3>2. CASE ~Present(a) /\ GoesOn(proc)
      BY <1>4, <1>7, <3>2
    <3>3. CASE Present(a) /\ Protected(a) /\ GoesOn(proc)
      <4>1. (DOMAIN manifest)' = DOMAIN manifest \cup {a} /\ manifest'[a] = [of |-> Content(a), run |-> runs, torn |-> FALSE]
        BY <3>3, PresentIsAsset, ProtectedType
      <4> QED
        BY <1>4, <3>3, <4>1
    <3> QED
      BY <1>1, <3>1, <3>2, <3>3
  <2> QED
    BY <1>1, <1>3, <1>4, <1>7, <2>1, <2>2, <2>3
<1> QED
  BY <1>1, <1>6, <1>7

LEMMA VideoStep ==
    ASSUME PaperType, WorkInv, Video \/ Frames
    PROVE  Kept
<1> DEFINE step == IF Video THEN "video" ELSE "frames"
           a == IF Video THEN "recording" ELSE "frames"
<1>0. step \in {"video", "frames"} /\ a \in {"recording", "frames"} /\ ProtectStep(step, a)
      /\ (step = "video" <=> a = "recording")
  BY DEF Video, Frames
<1> HIDE DEF step, a
<1>1. /\ ProgramInv' /\ ManifestInv' /\ (done = "none")'
      /\ UNCHANGED <<har, rec, shots, media, log, meta, affidavit, seal>>
      /\ proc.at = step /\ proc'.at = After(step) /\ proc'.prog = proc.prog
      /\ proc'.har = proc.har /\ proc'.path = proc.path /\ proc'.hand = {} /\ proc.hand = {}
      /\ DOMAIN manifest \subseteq (DOMAIN manifest)'
      /\ \/ Dirty'
         \/ /\ proc'.clean = proc.clean
            /\ \/ Present(a) /\ a \in (DOMAIN manifest)'
               \/ ~Present(a) /\ UNCHANGED manifest
  BY <1>0, ProtectStepFacts
<1>2. After(step) = IF step = "video" THEN "frames" ELSE "merge"
  BY <1>0 DEF After
<1>3. CASE Dirty'
  BY <1>1, <1>3, DirtyKeeps
<1>4. CASE ~Dirty'
  <2>1. RecordInv' /\ SealInv'
    BY <1>0, <1>1, <1>2 DEF RecordInv, FromHar, SealInv, Pruned, At, Capturing
  <2>2. Present(a) => a \in (DOMAIN manifest)'
    BY <1>1, <1>4
  <2>3. Present("recording")' = Present("recording") /\ Present("frames")' = Present("frames")
    BY <1>1 DEF Present
  <2>4. CoverInv'
    <3>1. CASE step = "video"
      BY <1>0, <1>1, <1>2, <1>4, <2>2, <2>3, <3>1
      DEF WorkInv, CoverInv, BeforeMerge, BeforeFrames, BeforeEncoded
    <3>2. CASE step = "frames"
      BY <1>0, <1>1, <1>2, <1>4, <2>2, <2>3, <3>2
      DEF WorkInv, CoverInv, BeforeMerge, BeforeFrames, BeforeEncoded
    <3> QED
      BY <1>0, <3>1, <3>2
  <2> QED
    BY <1>1, <2>1, <2>4, RunningEnd DEF Kept, Promises
<1> QED
  BY <1>3, <1>4

LEMMA ProtectLogStep ==
    ASSUME PaperType, WorkInv, ProtectLog
    PROVE  Kept
<1>0. ProtectStep("log", "log")
  BY DEF ProtectLog
<1>1. /\ ProgramInv' /\ ManifestInv' /\ (done = "none")'
      /\ UNCHANGED <<har, rec, shots, media, log, meta, affidavit, seal>>
      /\ proc.at = "log" /\ proc'.at = After("log") /\ proc'.prog = proc.prog
      /\ proc'.har = proc.har /\ proc'.path = proc.path /\ proc'.hand = {} /\ proc.hand = {}
      /\ StatedKept /\ DOMAIN manifest \subseteq (DOMAIN manifest)'
      /\ (DOMAIN manifest)' \subseteq DOMAIN manifest \cup {"log"}
      /\ \/ Dirty'
         \/ /\ proc'.clean = proc.clean
            /\ \/ /\ Present("log") /\ "log" \in (DOMAIN manifest)'
                  /\ manifest'["log"].of = Content("log") /\ ~manifest'["log"].torn
               \/ ~Present("log") /\ UNCHANGED manifest
  BY <1>0, ProtectStepFacts
<1>2. After("log") = "seal"
  BY DEF After
<1>3. CASE Dirty'
  BY <1>1, <1>3, DirtyKeeps
<1>4. CASE ~Dirty'
  <2>1. RecordInv'
    BY <1>1, <1>2, <1>4, RecordKept DEF InRecord, FromHar, WorkInv
  <2>2. SealInv'
    <3>1. "log" \notin Media /\ media' = media
      BY <1>1, CaptureAssumption
    <3>2. Orphans' \subseteq Orphans
      BY <1>1, <3>1 DEF Orphans
    <3>3. proc.clean => Orphans = {}
      BY <1>1 DEF WorkInv, SealInv, Pruned
    <3>4. log # {} <=> Present("log")
      BY CaptureAssumption DEF Present, PaperType, FieldsOK
    <3>5. Content("log") = UNION log
      BY DEF Content
    <3> QED
      BY <1>1, <1>4, <3>2, <3>3, <3>4, <3>5 DEF SealInv
  <2>3. CoverInv'
    BY <1>1, <1>2, <1>4, CoverKept DEF WorkInv, BeforeMerge, BeforeFrames, BeforeEncoded
  <2> QED
    BY <1>1, <2>1, <2>2, <2>3, RunningEnd DEF Kept, Promises
<1> QED
  BY <1>3, <1>4
-----------------------------------------------------------------------------
(* The merge                                                               *)

LEMMA MergeFailsKeeps ==
    ASSUME PaperType, WorkInv, MergeFails, proc.at \in {"merge", "clear"},
           UNCHANGED <<rec, shots, media, log, meta, affidavit, seal>>
    PROVE  Kept
<1>1. UNCHANGED <<har, manifest>>
  BY DEF MergeFails
<1>2. CASE Over
  <2>1. proc'.har = {} /\ proc'.at = "none" /\ proc'.prog = "none"
    BY <1>2, IdleFields DEF Over
  <2>2. ManifestInv'
    BY <1>1, <2>1, ManifestKept DEF WorkInv, At
  <2> QED
    BY <1>2, <2>2, OverKeeps
<1>3. CASE ~Over
  <2>1. proc.prog # "resume" /\ Went("har", FALSE)
    BY <1>3, MergeFailsFields DEF PaperType
  <2>2. ~At("none") /\ proc.hand = {} /\ proc.prog # "finalize" /\ done = "none"
    BY DEF WorkInv, ProgramInv, At
  <2>3. ProgramInv'
    BY <2>1, <2>2, ProgramGoes DEF Went, SameProgram, MayGo, WorkInv
  <2>4. ManifestInv'
    BY <1>1, <2>1, ManifestKept DEF Went, SameProgram, WorkInv, At
  <2>5. Dirty'
    BY <2>1, <2>2 DEF Went, Dirty
  <2> QED
    BY <2>3, <2>4, <2>5, DirtyKeeps
<1> QED
  BY <1>2, <1>3

\* Taking up the archive.har that is there, after the merge or instead of it.
LEMMA OnArchiveHar ==
    ASSUME PaperType, WorkInv, NEW step \in Steps, MayGo(step), ~At("none"), proc.hand = {},
           Goes([proc EXCEPT !.path = "archive.har"], step)
    PROVE  /\ ProgramInv' /\ (done = "none")'
           /\ proc'.prog = proc.prog /\ proc'.har = proc.har /\ proc'.path = "archive.har"
           /\ proc'.hand = {} /\ proc'.at = step /\ proc'.clean = proc.clean
<1> DEFINE p == [proc EXCEPT !.path = "archive.har"]
<1>1. /\ p \in Procs /\ p.prog = proc.prog /\ p.clean = proc.clean
      /\ p.har = proc.har /\ p.hand = proc.hand /\ p.path = "archive.har"
  BY PathFields DEF PaperType
<1>2. Goes(p, step)
  OBVIOUS
<1> HIDE DEF p
<1>3. SameProgram(p, proc') /\ proc'.at = step /\ proc'.clean = p.clean /\ done' = done
  BY <1>1, <1>2, GoesFields
<1>4. /\ proc'.prog = proc.prog /\ proc'.har = proc.har /\ proc'.path = "archive.har"
      /\ proc'.hand = {} /\ proc'.at = step /\ proc'.clean = proc.clean /\ done' = done
  BY <1>1, <1>3 DEF SameProgram
<1>5. ProgramInv'
  BY <1>4, ProgramGoes DEF WorkInv
<1>6. done = "none"
  BY DEF WorkInv, ProgramInv, At
<1> QED
  BY <1>4, <1>5, <1>6

LEMMA StartMergeStep ==
    ASSUME PaperType, HarInv, WorkInv, StartMerge
    PROVE  Kept
<1>1. /\ proc.at = "merge" /\ UNCHANGED <<har, rec, shots, media, log, manifest, meta, affidavit, seal>>
      /\ \/ proc.prog = "resume" /\ Goes([proc EXCEPT !.path = "archive.har"], "dialog")
         \/ ~(proc.prog = "resume" /\ har # {}) /\ GoesOn(proc)
         \/ MergeFails
  BY DEF StartMerge, MergeFails, At
<1>2. ~At("none") /\ proc.hand = {} /\ proc.prog \in {"archive", "resume"}
  BY <1>1 DEF WorkInv, ProgramInv, At, PaperType, Procs, Programs
<1>3. CASE MergeFails
  BY <1>1, <1>3, MergeFailsKeeps
<1>4. CASE proc.prog = "resume" /\ Goes([proc EXCEPT !.path = "archive.har"], "dialog")
  <2>1. "dialog" \in Steps /\ MayGo("dialog")
    BY <1>4 DEF Steps, BeforeHar, MayGo
  <2>2. /\ ProgramInv' /\ (done = "none")'
        /\ proc'.prog = proc.prog /\ proc'.har = proc.har /\ proc'.path = "archive.har"
        /\ proc'.hand = {} /\ proc'.at = "dialog" /\ proc'.clean = proc.clean
    BY <1>2, <1>4, <2>1, OnArchiveHar
  <2>3. ManifestInv'
    BY <1>1, <1>4, <2>2, ManifestKept DEF WorkInv, At
  <2>4. RecordInv' /\ SealInv'
    BY <2>2 DEF RecordInv, FromHar, SealInv, Pruned, At, Capturing
  <2>5. CoverInv'
    BY <1>4, <2>2 DEF CoverInv
  <2> QED
    BY <2>2, <2>3, <2>4, <2>5, RunningEnd DEF Kept, Promises
<1>5. CASE ~(proc.prog = "resume" /\ har # {}) /\ GoesOn(proc)
  <2>1. After(proc.at) = "replace" /\ har = {}
    BY <1>1, <1>2, <1>5 DEF After, HarInv, BeforeHar
  <2>2. /\ ProgramInv' /\ (done = "none")' /\ proc'.prog = proc.prog /\ proc'.har = proc.har
        /\ proc'.hand = {} /\ proc'.at = "replace" /\ proc'.clean = proc.clean
    BY <1>2, <1>5, <2>1, Forward DEF WorkInv
  <2>3. ManifestInv'
    BY <1>1, <2>1, <2>2, ManifestKept DEF WorkInv, At
  <2>4. RecordInv' /\ SealInv'
    BY <2>2 DEF RecordInv, FromHar, SealInv, Pruned, At, Capturing
  <2>5. CoverInv'
    BY <1>1, <1>2, <2>2, CoverKept DEF WorkInv, BeforeMerge, BeforeFrames, BeforeEncoded
  <2> QED
    BY <2>2, <2>3, <2>4, <2>5, RunningEnd DEF Kept, Promises
<1> QED
  BY <1>1, <1>3, <1>4, <1>5

\* The replacement is the first archive.har: no manifest and no paper names one.
LEMMA ReplaceStep ==
    ASSUME PaperType, WorkInv, Replace
    PROVE  Kept
<1>1. /\ proc.at = "replace" /\ har' = {ws.bodies} /\ GoesOn(proc)
      /\ UNCHANGED <<ws, rec, shots, media, log, manifest, meta, affidavit, seal>>
  BY DEF Replace, At
<1>2. ~At("none") /\ proc.hand = {} /\ har = {} /\ After(proc.at) = "clear"
  BY <1>1 DEF WorkInv, ProgramInv, ManifestInv, At, After
<1>3. /\ ProgramInv' /\ (done = "none")' /\ proc'.prog = proc.prog /\ proc'.har = proc.har
      /\ proc'.hand = {} /\ proc'.at = "clear" /\ proc'.clean = proc.clean
  BY <1>1, <1>2, Forward DEF WorkInv
<1>4. ManifestInv'
  <2>0. "archive.har" \notin Media /\ media \subseteq Media
    BY CaptureAssumption DEF PaperType, FieldsOK
  <2>1. "archive.har" \notin DOMAIN manifest
    BY <1>2, <2>0 DEF WorkInv, ManifestInv, Present
  <2>2. \A a : Present(a) => Present(a)'
    BY <1>1, <1>2 DEF Present
  <2>3. \A a : a # "archive.har" => Content(a)' = Content(a)
    BY <1>1 DEF Content
  <2>4. (\A a \in DOMAIN manifest : a \in Media \cup {"unmerged"} \/ Present(a))'
    BY <1>1, <2>2 DEF WorkInv, ManifestInv
  <2>5. (\A a \in DOMAIN manifest \ {"log"} : manifest[a].of = Content(a))'
    BY <1>1, <2>1, <2>3 DEF WorkInv, ManifestInv
  <2>6. (\A x \in meta \cup affidavit \cup {proc} : \A h \in x.har :
            h.file = "archive.har" => har = {h.of})'
    BY <1>1, <1>2, <1>3 DEF WorkInv, ManifestInv
  <2> QED
    BY <1>3, <2>4, <2>5, <2>6 DEF ManifestInv, At
<1>5. RecordInv' /\ SealInv'
  BY <1>3 DEF RecordInv, FromHar, SealInv, Pruned, At, Capturing
<1>6. CoverInv'
  BY <1>1, <1>2, <1>3, CoverKept DEF WorkInv, BeforeMerge, BeforeFrames, BeforeEncoded
<1> QED
  BY <1>3, <1>4, <1>5, <1>6, RunningEnd DEF Kept, Promises

LEMMA ClearStep ==
    ASSUME PaperType, HarInv, WorkInv, Clear
    PROVE  Kept
<1>1. /\ proc.at = "clear" /\ UNCHANGED <<rec, shots, media, log, meta, affidavit, seal>>
      /\ \/ /\ UNCHANGED har /\ manifest' = Without(manifest, {"unmerged"})
            /\ GoesOn([proc EXCEPT !.path = "archive.har"])
         \/ MergeFails
  BY DEF Clear, At
<1>2. CASE MergeFails
  BY <1>1, <1>2, MergeFailsKeeps
<1>3. CASE UNCHANGED har /\ manifest' = Without(manifest, {"unmerged"})
           /\ GoesOn([proc EXCEPT !.path = "archive.har"])
  <2>1. ~At("none") /\ proc.hand = {} /\ proc.prog \in {"archive", "resume"}
    BY <1>1 DEF WorkInv, ProgramInv, At, HarInv
  <2> DEFINE step == IF proc.prog = "archive" THEN "har" ELSE "dialog"
  <2>2. Goes([proc EXCEPT !.path = "archive.har"], step)
    <3>1. [proc EXCEPT !.path = "archive.har"].at = "clear"
      BY <1>1, PathFields DEF PaperType
    <3> QED
      BY <1>3, <3>1 DEF GoesOn, After
  <2>3. step \in {"har", "dialog"} /\ (step = "har" <=> proc.prog = "archive")
    OBVIOUS
  <2> HIDE DEF step
  <2>4. step \in Steps /\ MayGo(step)
    BY <2>1, <2>3 DEF Steps, BeforeHar, FromHar, MayGo
  <2>5. /\ ProgramInv' /\ (done = "none")'
        /\ proc'.prog = proc.prog /\ proc'.har = proc.har /\ proc'.path = "archive.har"
        /\ proc'.hand = {} /\ proc'.at = step /\ proc'.clean = proc.clean
    BY <2>1, <2>2, <2>4, OnArchiveHar
  <2>6. ManifestInv'
    BY <1>1, <1>3, <2>3, <2>5, ManifestWithout DEF WorkInv, At
  <2>7. RecordInv' /\ SealInv'
    BY <2>3, <2>5 DEF RecordInv, FromHar, SealInv, Pruned, At, Capturing
  <2>8. CoverInv'
    <3>1. CASE proc.prog # "archive"
      BY <2>5, <3>1 DEF CoverInv
    <3>2. CASE proc.prog = "archive"
      <4>1. (DOMAIN manifest)' = DOMAIN manifest \ {"unmerged"}
        BY <1>3, WithoutType
      <4>2. "unmerged" \notin media
        BY CaptureAssumption DEF PaperType, FieldsOK
      <4> QED
        BY <1>1, <2>1, <2>3, <2>5, <3>2, <4>1, <4>2, CoverKept
        DEF WorkInv, BeforeMerge, BeforeFrames, BeforeEncoded
    <3> QED
      BY <3>1, <3>2
  <2> QED
    BY <2>5, <2>6, <2>7, <2>8, RunningEnd DEF Kept, Promises
<1> QED
  BY <1>1, <1>2, <1>3
-----------------------------------------------------------------------------
(* The record of the capture                                               *)

LEMMA HarContent ==
    ASSUME PaperType, har # {}
    PROVE  har = {Content("archive.har")}
<1>1. PICK x \in har : TRUE
  OBVIOUS
<1>2. har = {x}
  BY <1>1 DEF PaperType, AtMostOne
<1>3. UNION har = x
  BY ONLY <1>2
<1> QED
  BY ONLY <1>2, <1>3 DEF Content

LEMMA ProtectHarStep ==
    ASSUME PaperType, WorkInv, ProtectHar
    PROVE  Kept
<1> DEFINE h == [file |-> proc.path, of |-> Content(proc.path), run |-> runs]
           p == [proc EXCEPT !.har = {h}]
<1>1. /\ proc.at = "har" /\ UNCHANGED <<har, rec, shots, media, log, meta, affidavit, seal>>
      /\ \/ Present(proc.path) /\ Protected(proc.path) /\ GoesOn(p)
         \/ UNCHANGED manifest /\ GoesOn(Unclean)
  BY DEF ProtectHar, At
<1>2. ~At("none") /\ proc.hand = {} /\ After(proc.at) = "metadata" /\ "metadata" \in Steps
  BY <1>1 DEF WorkInv, ProgramInv, At, After, Steps, FromHar
<1>3. MayGo("metadata")
  BY <1>2, AfterMayGo DEF WorkInv
<1>4. CASE UNCHANGED manifest /\ GoesOn(Unclean)
  <2>1. /\ ProgramInv' /\ proc'.prog = proc.prog /\ proc'.har = proc.har /\ proc'.at = "metadata" /\ Dirty'
    BY <1>2, <1>4, Forward DEF WorkInv
  <2>2. ManifestInv'
    BY <1>1, <1>4, <2>1, ManifestKept DEF WorkInv, At
  <2> QED
    BY <2>1, <2>2, DirtyKeeps
<1>5. CASE Present(proc.path) /\ Protected(proc.path) /\ GoesOn(p)
  <2>0. proc \in Procs /\ runs \in 1..MaxRuns /\ proc.path \in {"archive.har", "unmerged"}
        /\ Content(proc.path) \in Contents
    BY ContentType DEF PaperType, FieldsOK, Procs
  <2>1. h \in HarRecords /\ h.file = proc.path /\ h.of = Content(proc.path) /\ h.run = runs
    BY ONLY <2>0 DEF HarRecords
  <2> HIDE DEF h
  <2>2. /\ p \in Procs /\ p.prog = proc.prog /\ p.at = "har" /\ p.clean = proc.clean
        /\ p.har = {h} /\ p.hand = proc.hand /\ p.path = proc.path
    BY ONLY <1>1, <2>0, <2>1, HarFields
  <2>3. GoesOn(p)
    BY <1>5
  <2> HIDE DEF p
  <2>4. SameProgram(p, proc') /\ proc'.at = "metadata" /\ proc'.clean = p.clean /\ done' = done
    BY <1>1, <1>2, <2>2, <2>3, GoesFields DEF GoesOn
  <2>5. /\ proc'.prog = proc.prog /\ proc'.har = {h} /\ proc'.path = proc.path
        /\ proc'.hand = {} /\ proc'.clean = proc.clean
    BY <1>2, <2>2, <2>4 DEF SameProgram
  <2>6. ProgramInv' /\ (done = "none")'
    BY <1>2, <1>3, <2>4, <2>5, ProgramGoes DEF WorkInv, ProgramInv, At
  <2>7. h.file = "archive.har" => har = {h.of}
    <3>1. CASE proc.path = "archive.har"
      <4>1. har # {}
        BY <1>5, <3>1, CaptureAssumption DEF Present, PaperType, FieldsOK
      <4> QED
        BY <2>1, <3>1, <4>1, HarContent
    <3> QED
      BY <2>1, <3>1
  <2>8. ManifestInv'
    BY <1>1, <1>5, <2>4, <2>5, <2>7, ManifestProtected DEF WorkInv, At
  <2>9. /\ (DOMAIN manifest)' = DOMAIN manifest \cup {proc.path}
        /\ manifest'[proc.path] = [of |-> Content(proc.path), run |-> runs, torn |-> FALSE]
        /\ \A b \in DOMAIN manifest \ {proc.path} : manifest'[b] = manifest[b]
    BY <1>5, PresentIsAsset, ProtectedType
  <2>10. proc.clean => proc.path = "archive.har"
    BY <1>1 DEF WorkInv, RecordInv, FromHar
  <2>11. RecordInv'
    <3>1. (proc.clean /\ proc.at \in FromHar => proc.path = "archive.har")'
      BY <2>5, <2>10
    <3>2. (proc.clean => HarIsRecorded)'
      BY <2>1, <2>5, <2>9, <2>10 DEF HarIsRecorded
    <3>3. proc'.at \notin FromHar \ {"har", "metadata", "affidavit"} /\ proc'.at # "affidavit"
      BY <2>4
    <3> QED
      BY <3>1, <3>2, <3>3 DEF RecordInv, Capturing, At
  <2>12. SealInv'
    BY <2>4 DEF SealInv, Pruned, At
  <2>13. CoverInv'
    BY <1>1, <1>2, <2>4, <2>5, <2>9, CoverKept DEF WorkInv, BeforeMerge, BeforeFrames, BeforeEncoded
  <2> QED
    BY <2>6, <2>8, <2>11, <2>12, <2>13, RunningEnd DEF Kept, Promises
<1> QED
  BY <1>1, <1>4, <1>5

LEMMA StatementSteps ==
    ASSUME PaperType, WorkInv, WriteMetadata \/ WriteAffidavit
    PROVE  Kept
<1>1. /\ UNCHANGED <<har, rec, shots, media, log, manifest, seal>> /\ GoesOn(proc)
      /\ \/ proc.at = "metadata" /\ meta' = {Statement} /\ UNCHANGED affidavit
         \/ proc.at = "affidavit" /\ affidavit' = {Statement} /\ UNCHANGED meta
  BY DEF WriteMetadata, WriteAffidavit, At
<1>2. After(proc.at) = IF proc.at = "metadata" THEN "affidavit" ELSE "prune"
  BY <1>1 DEF After
<1>3. ~At("none") /\ proc.hand = {} /\ After(proc.at) # "end"
  BY <1>1, <1>2 DEF WorkInv, ProgramInv, At
<1>4. /\ ProgramInv' /\ (done = "none")' /\ proc'.prog = proc.prog /\ proc'.har = proc.har
      /\ proc'.path = proc.path /\ proc'.hand = {} /\ proc'.at = After(proc.at)
      /\ proc'.clean = proc.clean
  BY <1>1, <1>3, Forward DEF WorkInv
<1>5. /\ Statement.har = proc.har /\ Statement.rec = VideoIntegrity
      /\ Statement' = Statement /\ VideoIntegrity' = VideoIntegrity
  BY <1>1, <1>4 DEF Statement, VideoIntegrity
<1>6. ManifestInv'
  <2>1. \A a : Present(a) /\ a # "unmerged" => Present(a)'
    BY <1>1 DEF Present
  <2>2. \A a : Content(a)' = Content(a)
    BY <1>1 DEF Content
  <2>3. (\A a \in DOMAIN manifest : a \in Media \cup {"unmerged"} \/ Present(a))'
    BY <1>1, <2>1 DEF WorkInv, ManifestInv
  <2>4. (\A a \in DOMAIN manifest \ {"log"} : manifest[a].of = Content(a))'
    BY <1>1, <2>2 DEF WorkInv, ManifestInv
  <2>5. \A x \in meta' \cup affidavit' \cup {proc'} :
            x \in meta \cup affidavit \/ x.har = proc.har
    BY <1>1, <1>4, <1>5
  <2>6. \A x \in meta' \cup affidavit' \cup {proc'} : \A h \in x.har :
            h.file = "archive.har" => har = {h.of}
    BY <2>5 DEF WorkInv, ManifestInv
  <2> QED
    BY <1>1, <1>2, <1>4, <2>3, <2>4, <2>6 DEF ManifestInv, At
<1>7. RecordInv'
  <2>1. (proc.clean /\ proc.at \in FromHar => proc.path = "archive.har")'
    BY <1>1, <1>4 DEF WorkInv, RecordInv, FromHar
  <2>2. (Capturing => HarIsRecorded)'
    BY <1>1, <1>4 DEF WorkInv, RecordInv, Capturing, HarIsRecorded, FromHar
  <2>3. CASE proc.at = "metadata"
    BY <1>1, <1>2, <1>4, <1>5, <2>1, <2>2, <2>3 DEF RecordInv, At
  <2>4. CASE proc.at = "affidavit"
    <3>1. Capturing => meta = {Statement}
      BY <2>4 DEF WorkInv, RecordInv, At
    <3>2. (Capturing => /\ affidavit = meta /\ meta # {}
                        /\ \A x \in meta : x.har = proc.har /\ x.rec = VideoIntegrity)'
      BY <1>1, <1>4, <1>5, <2>4, <3>1 DEF Capturing
    <3>3. ~At("affidavit")'
      BY <1>2, <1>4, <2>4 DEF At
    <3> QED
      BY <2>1, <2>2, <3>2, <3>3 DEF RecordInv
  <2> QED
    BY <1>1, <2>3, <2>4
<1>8. SealInv'
  BY <1>1, <1>2, <1>4 DEF SealInv, Pruned, At
<1>9. CoverInv'
  BY <1>1, <1>2, <1>3, <1>4, CoverKept DEF WorkInv, BeforeMerge, BeforeFrames, BeforeEncoded
<1> QED
  BY <1>4, <1>6, <1>7, <1>8, <1>9, RunningEnd DEF Kept, Promises
-----------------------------------------------------------------------------
(* The summary                                                             *)

\* Without the orphans no manifest is an orphan.
LEMMA PruneStep ==
    ASSUME PaperType, WorkInv, Prune
    PROVE  Kept
<1>1. /\ proc.at \in {"prune", "prune_again"} /\ GoesOn(proc)
      /\ UNCHANGED <<har, rec, shots, media, log, meta, affidavit, seal>>
      /\ \/ manifest' = Without(manifest, Orphans)
         \/ proc.path = "unmerged" /\ UNCHANGED manifest
  BY DEF Prune, At
<1>2. After(proc.at) = IF proc.at = "prune" THEN "acquire" ELSE "save_again"
  BY <1>1 DEF After
<1>3. ~At("none") /\ proc.hand = {} /\ After(proc.at) # "end"
  BY <1>1, <1>2 DEF WorkInv, ProgramInv, At
<1>4. /\ ProgramInv' /\ (done = "none")' /\ proc'.prog = proc.prog /\ proc'.har = proc.har
      /\ proc'.path = proc.path /\ proc'.hand = {} /\ proc'.at = After(proc.at)
      /\ proc'.clean = proc.clean /\ (~proc'.clean => Dirty')
  BY <1>1, <1>3, Forward DEF WorkInv
<1>5. CASE proc.path = "unmerged" /\ UNCHANGED manifest
  <2>1. ManifestInv'
    BY <1>1, <1>2, <1>4, <1>5, ManifestKept DEF WorkInv, At
  <2>2. ~proc.clean
    BY <1>1, <1>5 DEF WorkInv, RecordInv, FromHar
  <2> QED
    BY <1>4, <2>1, <2>2, DirtyKeeps
<1>6. CASE manifest' = Without(manifest, Orphans)
  <2>1. /\ (DOMAIN manifest)' = DOMAIN manifest \ Orphans
        /\ \A b \in (DOMAIN manifest)' : manifest'[b] = manifest[b]
    BY <1>6, WithoutType
  <2>2. ManifestInv'
    BY <1>1, <1>2, <1>4, <1>6, ManifestWithout DEF WorkInv, At
  <2>3. {"archive.har", "recording", "frames"} \cap Orphans = {} /\ media \cap Orphans = {}
    BY CaptureAssumption DEF Orphans
  <2>4. StatedKept
    <3>1. "recording" \notin Orphans
      BY <2>3
    <3> QED
      BY <2>1, <2>3, <3>1 DEF StatedKept, VideoIntegrity
  <2>5. RecordInv'
    BY <1>1, <1>2, <1>4, <2>4, RecordKept DEF InRecord, FromHar, WorkInv
  <2>6. SealInv'
    <3>1. Orphans' = {}
      BY <1>1, <2>1 DEF Orphans
    <3>2. proc'.at # "seal"
      BY <1>2, <1>4
    <3> QED
      BY <3>1, <3>2 DEF SealInv, At
  <2>7. CoverInv'
    BY <1>1, <1>2, <1>3, <1>4, <2>1, <2>3, CoverKept
    DEF WorkInv, BeforeMerge, BeforeFrames, BeforeEncoded
  <2> QED
    BY <1>4, <2>2, <2>5, <2>6, <2>7, RunningEnd DEF Kept, Promises
<1> QED
  BY <1>1, <1>5, <1>6

LEMMA StoreStep ==
    ASSUME PaperType, WorkInv, Store
    PROVE  Kept
<1>1. PICK m \in Media \ media : media' = media \cup {m} /\ proc' = [proc EXCEPT !.hand = {m}]
  BY DEF Store
<1>2. /\ proc.at = "acquire" /\ proc.hand = {} /\ done' = done
      /\ UNCHANGED <<har, rec, shots, log, manifest, meta, affidavit, seal>>
  BY DEF Store, At
<1>3. /\ proc'.prog = proc.prog /\ proc'.at = "acquire" /\ proc'.clean = proc.clean
      /\ proc'.har = proc.har /\ proc'.hand = {m} /\ proc'.path = proc.path
  BY <1>1, <1>2, HandFields DEF PaperType
<1>4. done = "none"
  BY <1>2 DEF WorkInv, ProgramInv, At
<1>5. ProgramInv'
  BY <1>1, <1>2, <1>3, <1>4 DEF WorkInv, ProgramInv, At
<1>6. ManifestInv'
  BY <1>2, <1>3, ManifestKept DEF WorkInv, At
<1>7. RecordInv'
  BY <1>2, <1>3, RecordKept DEF InRecord, FromHar, WorkInv, StatedKept, VideoIntegrity
<1>8. SealInv'
  <2>1. Orphans' \subseteq Orphans
    BY <1>1, <1>2 DEF Orphans
  <2> QED
    BY <1>2, <1>3, <2>1, SealKept DEF Pruned, WorkInv
<1>9. CoverInv'
  <2>1. m \notin {"recording", "frames"}
    BY CaptureAssumption
  <2>2. Present("recording")' = Present("recording") /\ Present("frames")' = Present("frames")
    BY <1>1, <1>2, <2>1 DEF Present
  <2> QED
    BY <1>1, <1>2, <1>3, <2>2 DEF WorkInv, CoverInv
<1> QED
  BY <1>2, <1>4, <1>5, <1>6, <1>7, <1>8, <1>9, RunningEnd DEF Kept, Promises

LEMMA ProtectMediumStep ==
    ASSUME PaperType, WorkInv, ProtectMedium
    PROVE  Kept
<1>1. /\ proc.at = "acquire" /\ proc.hand # {} /\ done' = done
      /\ UNCHANGED <<har, rec, shots, media, log, meta, affidavit, seal>>
      /\ \/ \E m \in proc.hand : Protected(m) /\ proc' = [proc EXCEPT !.hand = {}]
         \/ UNCHANGED manifest /\ proc' = [Unclean EXCEPT !.hand = {}]
  BY DEF ProtectMedium, At
<1>2. done = "none"
  BY <1>1 DEF WorkInv, ProgramInv, At
<1>3. CASE UNCHANGED manifest /\ proc' = [Unclean EXCEPT !.hand = {}]
  <2> DEFINE u == Unclean
  <2>1. SameProgram(proc, u) /\ u.at = proc.at /\ u.clean = FALSE /\ proc' = [u EXCEPT !.hand = {}]
    BY <1>3, UncleanFields DEF PaperType
  <2> HIDE DEF u
  <2>2. /\ proc'.prog = proc.prog /\ proc'.at = "acquire" /\ ~proc'.clean
        /\ proc'.har = proc.har /\ proc'.hand = {} /\ proc'.path = proc.path
    BY <1>1, <2>1, HandFields DEF SameProgram
  <2>3. ProgramInv' /\ Dirty'
    BY <1>1, <1>2, <2>2 DEF WorkInv, ProgramInv, At, Dirty
  <2>4. ManifestInv'
    BY <1>1, <1>3, <2>2, ManifestKept DEF WorkInv, At
  <2> QED
    BY <2>3, <2>4, DirtyKeeps
<1>4. CASE \E m \in proc.hand : Protected(m) /\ proc' = [proc EXCEPT !.hand = {}]
  <2>1. PICK m \in proc.hand : Protected(m) /\ proc' = [proc EXCEPT !.hand = {}]
    BY <1>4
  <2>2. /\ proc'.prog = proc.prog /\ proc'.at = "acquire" /\ proc'.clean = proc.clean
        /\ proc'.har = proc.har /\ proc'.hand = {} /\ proc'.path = proc.path
    BY <1>1, <2>1, HandFields DEF PaperType
  <2>3. proc.hand = {m} /\ m \in media /\ m \in Media
    BY <2>1 DEF WorkInv, ProgramInv, PaperType, FieldsOK
  <2>4. Present(m)
    BY <2>3 DEF Present
  <2>5. ProgramInv'
    BY <1>1, <1>2, <2>2 DEF WorkInv, ProgramInv, At
  <2>6. ManifestInv'
    BY <1>1, <2>1, <2>2, <2>4, ManifestProtected DEF WorkInv, At
  <2>7. /\ (DOMAIN manifest)' = DOMAIN manifest \cup {m}
        /\ \A b \in DOMAIN manifest \ {m} : manifest'[b] = manifest[b]
    BY <2>1, <2>4, PresentIsAsset, ProtectedType
  <2>8. StatedKept
    BY <2>3, <2>7, CaptureAssumption DEF StatedKept, VideoIntegrity
  <2>9. RecordInv'
    BY <1>1, <2>2, <2>8, RecordKept DEF InRecord, FromHar, WorkInv
  <2>10. SealInv'
    <3>1. Orphans' \subseteq Orphans
      BY <1>1, <2>3, <2>7 DEF Orphans
    <3> QED
      BY <1>1, <2>2, <3>1, SealKept DEF Pruned, WorkInv
  <2>11. CoverInv'
    <3>1. proc.clean /\ proc.prog = "archive" => media' \subseteq (DOMAIN manifest)' \cup proc'.hand
      BY <1>1, <2>3, <2>7 DEF WorkInv, CoverInv
    <3> QED
      BY <1>1, <2>2, <2>7, <3>1 DEF WorkInv, CoverInv, Present, BeforeMerge, BeforeFrames, BeforeEncoded
  <2> QED
    BY <1>1, <1>2, <2>5, <2>6, <2>9, <2>10, <2>11, RunningEnd DEF Kept, Promises
<1> QED
  BY <1>1, <1>3, <1>4

\* The end of the acquisition, and the log.
LEMMA SaveSteps ==
    ASSUME PaperType, WorkInv, Acquired \/ SaveLog
    PROVE  Kept
<1>1. /\ proc.at \in {"acquire", "save", "save_again"} /\ GoesOn(proc)
      /\ UNCHANGED <<har, rec, shots, media, manifest, meta, affidavit, seal>>
      /\ log' = log \/ log' # {}
      /\ proc.at = "acquire" => proc.hand = {}
  BY DEF Acquired, SaveLog, files, At
<1>2. After(proc.at) = CASE proc.at = "acquire" -> "save" [] proc.at = "save" -> "curate"
                         [] proc.at = "save_again" -> "log"
  BY <1>1 DEF After
<1>3. ~At("none") /\ proc.hand = {} /\ After(proc.at) # "end"
  BY <1>1, <1>2 DEF WorkInv, ProgramInv, At
<1>4. /\ ProgramInv' /\ (done = "none")' /\ proc'.prog = proc.prog /\ proc'.har = proc.har
      /\ proc'.path = proc.path /\ proc'.hand = {} /\ proc'.at = After(proc.at)
      /\ proc'.clean = proc.clean
  BY <1>1, <1>3, Forward DEF WorkInv
<1>5. proc'.at \in {"save", "curate", "log"} /\ (proc'.at = "log" => proc.at = "save_again")
  BY <1>1, <1>2, <1>4
<1>6. ManifestInv'
  BY <1>1, <1>4, <1>5, ManifestKept DEF WorkInv, At
<1>7. RecordInv'
  BY <1>1, <1>4, <1>5, RecordKept DEF InRecord, FromHar, WorkInv, StatedKept, VideoIntegrity
<1>8. SealInv'
  <2>1. Pruned' => Pruned
    BY <1>1, <1>4, <1>5 DEF Pruned
  <2>2. Orphans' = Orphans
    BY <1>1 DEF Orphans
  <2> QED
    BY <1>4, <1>5, <2>1, <2>2, SealKept DEF WorkInv
<1>9. CoverInv'
  BY <1>1, <1>3, <1>4, <1>5, CoverKept DEF WorkInv, BeforeMerge, BeforeFrames, BeforeEncoded
<1> QED
  BY <1>4, <1>6, <1>7, <1>8, <1>9, RunningEnd DEF Kept, Promises

LEMMA SummaryFailsStep ==
    ASSUME PaperType, WorkInv, SummaryFails
    PROVE  Kept
<1>1. /\ proc.at \in {"prune", "acquire", "save", "prune_again", "save_again"}
      /\ UNCHANGED <<har, rec, shots, media, log, manifest, meta, affidavit, seal>>
  BY DEF SummaryFails, files
<1>2. CASE Over
  <2>1. proc'.har = {} /\ proc'.at = "none" /\ proc'.prog = "none"
    BY <1>2, IdleFields DEF Over
  <2>2. ManifestInv'
    BY <1>1, <2>1, ManifestKept DEF WorkInv, At
  <2> QED
    BY <1>2, <2>2, OverKeeps
<1>3. CASE ~Over
  <2>1. /\ proc' \in Procs /\ proc'.prog = proc.prog /\ proc'.har = proc.har
        /\ proc'.path = proc.path /\ proc'.hand = {} /\ proc'.clean = FALSE
        /\ done' = done /\ proc'.at \in {"curate", "log"}
    BY <1>3, SummaryFailsFields DEF PaperType
  <2>2. ~At("none") /\ MayGo(proc'.at) /\ done = "none"
    BY <1>1, <2>1 DEF MayGo, At, WorkInv, ProgramInv
  <2>3. ProgramInv'
    BY <2>1, <2>2, ProgramGoes DEF WorkInv
  <2>4. ManifestInv'
    BY <1>1, <2>1, ManifestKept DEF WorkInv, At
  <2>5. Dirty'
    BY <2>1, <2>2 DEF Dirty
  <2> QED
    BY <2>3, <2>4, <2>5, DirtyKeeps
<1> QED
  BY <1>2, <1>3
-----------------------------------------------------------------------------
(* Curation and the seal                                                   *)

LEMMA ReadMetadataStep ==
    ASSUME PaperType, WorkInv, ReadMetadata
    PROVE  Kept
<1>1. /\ proc.at = "read" /\ (Ends(Unclean) \/ GoesOn(proc))
      /\ UNCHANGED <<har, rec, shots, media, log, manifest, meta, affidavit, seal>>
  BY DEF ReadMetadata, files, At
<1>2. proc.prog = "finalize" /\ proc.hand = {} /\ ~At("none") /\ After(proc.at) = "curate"
  BY <1>1 DEF WorkInv, ProgramInv, At, After
<1>3. CASE Ends(Unclean)
  <2>1. Over
    BY <1>3, UncleanEnds DEF PaperType
  <2>2. proc'.har = {} /\ proc'.at = "none" /\ proc'.prog = "none"
    BY <2>1, IdleFields DEF Over
  <2>3. ManifestInv'
    BY <1>1, <2>2, ManifestKept DEF WorkInv, At
  <2> QED
    BY <2>1, <2>3, OverKeeps
<1>4. CASE GoesOn(proc)
  <2>1. /\ ProgramInv' /\ (done = "none")' /\ proc'.prog = proc.prog /\ proc'.har = proc.har
        /\ proc'.path = proc.path /\ proc'.hand = {} /\ proc'.at = "curate"
        /\ proc'.clean = proc.clean
    BY <1>2, <1>4, Forward DEF WorkInv
  <2>2. ManifestInv'
    BY <1>1, <2>1, ManifestKept DEF WorkInv, At
  <2>3. RecordInv'
    BY <1>1, <1>2, <2>1 DEF WorkInv, ProgramInv, RecordInv, Capturing, At
  <2>4. SealInv' /\ CoverInv'
    BY <1>2, <2>1 DEF SealInv, Pruned, CoverInv, At
  <2> QED
    BY <2>1, <2>2, <2>3, <2>4, RunningEnd DEF Kept, Promises
<1> QED
  BY <1>1, <1>3, <1>4

\* Curation deletes media: the summary that follows prunes their manifests.
LEMMA CurateStep ==
    ASSUME PaperType, WorkInv, Curate
    PROVE  Kept
<1>1. /\ proc.at = "curate" /\ UNCHANGED <<har, rec, shots, log, manifest, meta, affidavit, seal>>
      /\ media' \subseteq media
      /\ \/ GoesOn(proc)
         \/ UNCHANGED media /\ proc.prog = "archive" /\ Goes(proc, "log")
  BY DEF Curate, At
<1>2. proc.hand = {} /\ ~At("none") /\ After(proc.at) = "prune_again" /\ "log" \in Steps
  BY <1>1 DEF WorkInv, ProgramInv, At, After, Steps, FromHar
<1>3. /\ ProgramInv' /\ (done = "none")' /\ proc'.prog = proc.prog /\ proc'.har = proc.har
      /\ proc'.path = proc.path /\ proc'.hand = {} /\ proc'.clean = proc.clean
      /\ \/ proc'.at = "prune_again"
         \/ proc'.at = "log" /\ proc.prog = "archive" /\ UNCHANGED media
  <2>1. CASE GoesOn(proc)
    BY <1>2, <2>1, Forward DEF WorkInv
  <2>2. CASE UNCHANGED media /\ proc.prog = "archive" /\ Goes(proc, "log")
    <3>1. SameProgram(proc, proc') /\ proc'.at = "log" /\ proc'.clean = proc.clean /\ done' = done
      BY <1>2, <2>2, GoesFields DEF PaperType
    <3>2. MayGo("log") /\ done = "none"
      BY <2>2 DEF MayGo, WorkInv, ProgramInv
    <3>3. ProgramInv'
      BY <1>2, <3>1, <3>2, ProgramGoes DEF WorkInv, SameProgram
    <3> QED
      BY <1>2, <2>2, <3>1, <3>2, <3>3 DEF SameProgram
  <2> QED
    BY <1>1, <2>1, <2>2
<1>4. ManifestInv'
  BY <1>1, <1>3, ManifestKept DEF WorkInv, At
<1>5. RecordInv'
  BY <1>1, <1>3, RecordKept DEF InRecord, FromHar, WorkInv, StatedKept, VideoIntegrity
<1>6. SealInv'
  <2>1. CASE proc'.at = "prune_again"
    BY <2>1 DEF SealInv, Pruned, At
  <2>2. CASE proc'.at = "log" /\ proc.prog = "archive" /\ UNCHANGED media
    <3>1. Pruned /\ Orphans' = Orphans
      BY <1>1, <2>2 DEF Pruned, Orphans
    <3> QED
      BY <1>3, <2>2, <3>1, SealKept DEF WorkInv
  <2> QED
    BY <1>3, <2>1, <2>2
<1>7. CoverInv'
  BY <1>1, <1>2, <1>3, CoverKept DEF WorkInv, BeforeMerge, BeforeFrames, BeforeEncoded
<1> QED
  BY <1>3, <1>4, <1>5, <1>6, <1>7, RunningEnd DEF Kept, Promises

\* A program that comes to its end without a failure has kept every promise.
LEMMA SealedKeepsPromises ==
    ASSUME PaperType, WorkInv, At("seal"), proc.clean, seal' = {Committed},
           done' = proc.prog, ManifestInv',
           UNCHANGED <<har, rec, shots, media, log, manifest, meta, affidavit>>
    PROVE  EndInv'
<1>1. Orphans = {}
  BY DEF WorkInv, SealInv, Pruned, At
<1>2. \A a : Present(a) /\ a # "unmerged" => Present(a)'
  BY DEF Present
<1>3. \A a : Content(a)' = Content(a)
  BY DEF Content
<1>4. log # {} => /\ "log" \in DOMAIN manifest /\ manifest["log"].of = Content("log")
                  /\ ~manifest["log"].torn
  BY DEF WorkInv, SealInv, Content
<1>5. Committed' = Committed
  BY DEF Committed, Entry
<1>6. \A a \in DOMAIN manifest \ {"unmerged"} : Present(a) /\ manifest[a].of = Content(a)
  <2> TAKE a \in DOMAIN manifest \ {"unmerged"}
  <2>1. Present(a)
    BY <1>1 DEF Orphans, Present, WorkInv, ManifestInv
  <2>2. CASE a = "log"
    <3>1. log # {}
      BY <2>1, <2>2, CaptureAssumption DEF Present, PaperType, FieldsOK
    <3> QED
      BY <1>4, <2>1, <2>2, <3>1
  <2>3. CASE a # "log"
    BY <2>1, <2>3 DEF WorkInv, ManifestInv
  <2> QED
    BY <2>2, <2>3
<1>p. proc.prog \in Programs
  BY DEF PaperType, Procs, WorkInv, ProgramInv, At
<1>h. proc.prog \in {"archive", "resume"} => HarIsRecorded
  BY DEF WorkInv, RecordInv, Capturing, FromHar, At
<1>w. \A a \in DOMAIN manifest \ {"unmerged"} : manifest[a].torn => a \in NotAgain'
  <2> TAKE a \in DOMAIN manifest \ {"unmerged"}
  <2> HAVE manifest[a].torn
  <2>1. a \in Assets \ {"unmerged"}
    BY DEF PaperType, FieldsOK
  <2>2. a # "log"
    <3>1. Present("log") => log # {}
      BY CaptureAssumption DEF Present, PaperType, FieldsOK
    <3> QED
      BY <1>4, <1>6, <3>1
  <2>3. a \in Media \cup {"recording", "frames", "archive.har"}
    BY <2>1, <2>2 DEF Assets
  <2>4. CASE proc.prog = "archive"
    BY <2>4 DEF WorkInv, WholeInv
  <2>5. CASE proc.prog = "resume"
    BY <1>h, <2>3, <2>5 DEF HarIsRecorded, NotAgain
  <2>6. CASE proc.prog = "finalize"
    BY <2>3, <2>6 DEF NotAgain
  <2> QED
    BY <1>p, <2>4, <2>5, <2>6 DEF Programs
<1>7. SealIsTrue'
  BY <1>2, <1>3, <1>5, <1>6, <1>w DEF SealIsTrue
<1>8. \A a \in DOMAIN manifest : Entry(a) \in UNION {Committed}
  BY DEF Committed
<1>9. RecordIsTrue'
  <2>1. (\A x \in meta \cup affidavit : \A h \in x.har : h.file = "archive.har" => har = {h.of})'
    BY DEF ManifestInv
  <2>2. CASE proc.prog \notin {"archive", "resume"}
    BY <2>1, <2>2 DEF RecordIsTrue
  <2>3. CASE proc.prog \in {"archive", "resume"}
    <3>1. /\ proc.har # {} /\ "archive.har" \in DOMAIN manifest /\ ~manifest["archive.har"].torn
          /\ \A h \in proc.har : h.run = manifest["archive.har"].run
          /\ affidavit = meta /\ meta # {}
          /\ \A x \in meta : x.har = proc.har /\ x.rec = VideoIntegrity
      BY <1>h, <2>3 DEF WorkInv, RecordInv, Capturing, HarIsRecorded, FromHar, At
    <3>t. \A a \in DOMAIN manifest : manifest[a].torn \in BOOLEAN
      BY DEF PaperType, FieldsOK, Manifests
    <3>2. /\ \A x \in meta : \A h \in x.har :
                [asset |-> "archive.har", run |-> h.run, torn |-> FALSE] \in UNION {Committed}
          /\ \A x \in meta : \A r \in x.rec :
                [asset |-> "recording", run |-> r, torn |-> FALSE] \in UNION {Committed}
      <4>1. \A h \in proc.har : Entry("archive.har") = [asset |-> "archive.har", run |-> h.run, torn |-> FALSE]
        BY <3>1, <3>t DEF Entry
      <4>2. \A r \in VideoIntegrity : /\ "recording" \in DOMAIN manifest
                                       /\ Entry("recording") = [asset |-> "recording", run |-> r, torn |-> FALSE]
        BY <3>t DEF Entry, VideoIntegrity
      <4>3. \A h \in proc.har : [asset |-> "archive.har", run |-> h.run, torn |-> FALSE] \in UNION {Committed}
        BY <1>8, <3>1, <4>1
      <4>4. \A r \in VideoIntegrity : [asset |-> "recording", run |-> r, torn |-> FALSE] \in UNION {Committed}
        BY <1>8, <4>2
      <4> QED
        BY <3>1, <4>3, <4>4
    <3>3. \E x \in meta : x.har # {}
      BY <3>1
    <3> QED
      BY <2>1, <3>1, <3>2, <3>3 DEF RecordIsTrue
  <2> QED
    BY <2>2, <2>3
<1>10. CaptureIsCovered'
  <2>1. CASE proc.prog # "archive"
    BY <2>1 DEF CaptureIsCovered
  <2>2. CASE proc.prog = "archive"
    <3>1. "archive.har" \in DOMAIN manifest
      BY <2>2 DEF WorkInv, RecordInv, Capturing, HarIsRecorded, FromHar, At
    <3>2. proc.hand = {}
      BY DEF WorkInv, ProgramInv, At
    <3>3. /\ media \subseteq DOMAIN manifest /\ rec # "raw"
          /\ Present("recording") => "recording" \in DOMAIN manifest
          /\ Present("frames") => "frames" \in DOMAIN manifest
      BY <2>2, <3>2 DEF WorkInv, CoverInv, At, BeforeMerge, BeforeFrames, BeforeEncoded
    <3>4. \A a \in Assets \ {"unmerged"} : Present(a)' => a \in DOMAIN manifest
      <4> TAKE a \in Assets \ {"unmerged"}
      <4> HAVE Present(a)'
      <4>1. Present(a)
        BY DEF Present
      <4>2. CASE a \in Media
        <5>1. a \in media
          BY <4>1, <4>2, CaptureAssumption DEF Present
        <5> QED
          BY <3>3, <5>1
      <4>3. CASE a = "log"
        <5>1. log # {}
          BY <4>1, <4>3, CaptureAssumption DEF Present, PaperType, FieldsOK
        <5> QED
          BY <1>4, <4>3, <5>1
      <4>4. CASE a \in {"archive.har", "recording", "frames"}
        BY <3>1, <3>3, <4>1, <4>4
      <4> QED
        BY <4>2, <4>3, <4>4 DEF Assets
    <3>5. \A a \in Assets \ {"unmerged"} : Present(a)' =>
             \E e \in UNION seal' : e.asset = a
      <4> TAKE a \in Assets \ {"unmerged"}
      <4> HAVE Present(a)'
      <4> DEFINE e == Entry(a)
      <4>1. e \in UNION seal' /\ e.asset = a
        BY <1>8, <3>4 DEF Entry
      <4> QED
        BY <4>1
    <3>6. Covered'
      BY <3>5 DEF Covered, Assets
    <3> QED
      BY <3>3, <3>6 DEF CaptureIsCovered
  <2> QED
    BY <2>1, <2>2
<1> QED
  BY <1>7, <1>9, <1>10 DEF EndInv

LEMMA SealStep ==
    ASSUME PaperType, WorkInv, Seal
    PROVE  Kept
<1>1. /\ proc.at = "seal" /\ UNCHANGED <<har, rec, shots, media, log, manifest, meta, affidavit>>
      /\ \/ seal' = {Committed} /\ GoesOn(proc)
         \/ GoesOn(Unclean)
  BY DEF Seal, At
<1>2. After("seal") = "end" /\ Unclean.at = proc.at
  BY UncleanFields DEF After, PaperType
<1>3. Over \/ (seal' = {Committed} /\ proc' = Idle /\ proc.clean /\ done' = proc.prog)
  <2>1. CASE seal' = {Committed} /\ GoesOn(proc)
    BY <1>1, <1>2, <2>1 DEF GoesOn, Goes, Ends, Over
  <2>2. CASE GoesOn(Unclean)
    BY <1>1, <1>2, <2>2, UncleanEnds DEF GoesOn, Goes, PaperType
  <2> QED
    BY <1>1, <2>1, <2>2
<1>4. proc'.har = {} /\ proc'.at = "none" /\ proc'.prog = "none" /\ proc'.path = "archive.har"
      /\ proc'.hand = {}
  BY <1>3, IdleFields DEF Over
<1>5. ManifestInv'
  BY <1>1, <1>4, ManifestKept DEF WorkInv, At
<1>6. CASE Over
  BY <1>5, <1>6, OverKeeps
<1>7. CASE seal' = {Committed} /\ proc' = Idle /\ proc.clean /\ done' = proc.prog
  <2>1. EndInv'
    BY <1>1, <1>5, <1>7, SealedKeepsPromises DEF At
  <2>2. ProgramInv'
    BY <1>4 DEF ProgramInv, At
  <2>3. RecordInv' /\ SealInv' /\ CoverInv'
    BY <1>4 DEF RecordInv, Capturing, FromHar, SealInv, Pruned, CoverInv, At
  <2> QED
    BY <1>5, <2>1, <2>2, <2>3 DEF Kept, Promises
<1> QED
  BY <1>3, <1>6, <1>7
-----------------------------------------------------------------------------
(* Operators and crashes                                                   *)

\* A program that is killed tears what it was writing, and never more.
LEMMA CrashStep ==
    ASSUME PaperType, WorkInv, Crash
    PROVE  Kept
<1>1. /\ Over /\ UNCHANGED <<har, rec, shots, media>>
      /\ log' = log \/ log' # {}
      /\ meta' \in {meta, {Torn}} /\ affidavit' \in {affidavit, {Torn}}
      /\ UNCHANGED manifest \/ \E a : Present(a) /\ WriteManifest(a, TRUE)
  BY DEF Crash, Over, Tear, InProtection
<1>2. proc'.har = {} /\ proc'.at = "none" /\ proc'.prog = "none"
  BY <1>1, IdleFields DEF Over
<1>3. (\A x \in meta \cup affidavit \cup {proc} : \A h \in x.har :
          h.file = "archive.har" => har = {h.of})'
  <2>1. Torn.har = {}
    BY DEF Torn
  <2>2. \A x \in meta' \cup affidavit' \cup {proc'} : x \in meta \cup affidavit \/ x.har = {}
    BY <1>1, <1>2, <2>1
  <2> QED
    BY <1>1, <2>2 DEF WorkInv, ManifestInv
<1>4. ManifestInv'
  <2>1. CASE UNCHANGED manifest
    <3>1. \A a : Present(a) /\ a # "unmerged" => Present(a)'
      BY <1>1 DEF Present
    <3>2. \A a : a # "log" => Content(a)' = Content(a)
      BY <1>1 DEF Content
    <3>3. (\A a \in DOMAIN manifest : a \in Media \cup {"unmerged"} \/ Present(a))'
      BY <2>1, <3>1 DEF WorkInv, ManifestInv
    <3>4. (\A a \in DOMAIN manifest \ {"log"} : manifest[a].of = Content(a))'
      BY <2>1, <3>2 DEF WorkInv, ManifestInv
    <3> QED
      BY <1>2, <1>3, <3>3, <3>4 DEF ManifestInv, At
  <2>2. CASE \E a : Present(a) /\ WriteManifest(a, TRUE)
    BY <1>1, <1>2, <1>3, <2>2, ManifestWritten DEF WorkInv, At
  <2> QED
    BY <1>1, <2>1, <2>2
<1> QED
  BY <1>1, <1>4, OverKeeps

LEMMA BeginSteps ==
    ASSUME PaperType, WorkInv, BeginResume \/ BeginFinalize
    PROVE  Kept
<1>1. PICK prog \in {"resume", "finalize"} : Begin(prog)
  BY DEF BeginResume, BeginFinalize
<1>2. /\ proc' = [Idle EXCEPT !.prog = prog, !.at = First(prog)] /\ done' = "none"
      /\ UNCHANGED <<har, rec, shots, media, log, manifest, meta, affidavit, seal>>
  BY <1>1 DEF Begin, files
<1>3. First("resume") = "merge" /\ First("finalize") = "read"
  BY DEF First
<1>4. /\ proc'.prog = prog /\ proc'.at = First(prog) /\ proc'.path = "archive.har"
      /\ proc'.har = {} /\ proc'.hand = {}
  BY <1>2 DEF Idle
<1>5. ProgramInv'
  BY <1>2, <1>3, <1>4 DEF ProgramInv, At
<1>6. ManifestInv'
  BY <1>2, <1>3, <1>4, ManifestKept DEF WorkInv, At
<1>7. RecordInv'
  BY <1>3, <1>4 DEF RecordInv, Capturing, FromHar, At
<1>8. SealInv' /\ CoverInv'
  BY <1>3, <1>4 DEF SealInv, Pruned, CoverInv, At
<1> QED
  BY <1>2, <1>5, <1>6, <1>7, <1>8, RunningEnd DEF Kept, Promises

\* By hand, and by verify.py, which has nothing to repair once a program has
\* ended without a failure.
LEMMA IdleSteps ==
    ASSUME PaperType, WorkInv, EndInv, Delete \/ Verify
    PROVE  Kept
<1>1. /\ proc = Idle /\ proc' = proc /\ media' \subseteq media
      /\ UNCHANGED <<har, rec, shots, manifest, meta, affidavit, seal>>
      /\ log' = log \/ log' # {}
      /\ done' = "none" \/ Verify
  BY DEF Delete, Verify
<1>2. (done = "none")'
  <2>1. CASE Verify
    <3>1. "log" \in DOMAIN manifest /\ manifest["log"].of # Content("log") /\ done' = done
      BY <2>1 DEF Verify, Content
    <3> QED
      BY <3>1 DEF EndInv, SealIsTrue
  <2> QED
    BY <1>1, <2>1
<1>3. proc'.prog = "none" /\ proc'.at = "none" /\ proc'.path = "archive.har" /\ proc'.hand = {}
      /\ proc'.har = proc.har
  BY <1>1, IdleFields
<1>4. ProgramInv'
  BY <1>3 DEF ProgramInv, At
<1>5. ManifestInv'
  BY <1>1, <1>3, ManifestKept DEF WorkInv, At
<1>6. RecordInv' /\ SealInv' /\ CoverInv'
  BY <1>3 DEF RecordInv, Capturing, FromHar, SealInv, Pruned, CoverInv, At
<1> QED
  BY <1>2, <1>4, <1>5, <1>6, RunningEnd DEF Kept, Promises

LEMMA StillKeeps ==
    ASSUME PaperType, WorkInv, EndInv, UNCHANGED vars
    PROVE  Kept
<1>1. UNCHANGED <<ws, har, rec, shots, media, log, manifest, meta, affidavit, seal, proc, done>>
  BY DEF vars, files
<1>2. /\ \A a : Present(a)' = Present(a)
      /\ \A a : Content(a)' = Content(a)
  BY <1>1 DEF Present, Content
<1>3. Statement' = Statement /\ Orphans' = Orphans /\ Pruned' = Pruned /\ Committed' = Committed
      /\ Capturing' = Capturing /\ HarIsRecorded' = HarIsRecorded
      /\ VideoIntegrity' = VideoIntegrity
  BY <1>1 DEF Statement, VideoIntegrity, Orphans, Pruned, Committed, Entry, Capturing, HarIsRecorded
<1>4. ProgramInv'
  BY <1>1 DEF WorkInv, ProgramInv, At
<1>5. ManifestInv'
  BY <1>1, <1>2 DEF WorkInv, ManifestInv, At
<1>6. RecordInv'
  BY <1>1, <1>3 DEF WorkInv, RecordInv, At
<1>7. SealInv'
  BY <1>1, <1>3 DEF WorkInv, SealInv, At
<1>8. CoverInv'
  BY <1>1, <1>2 DEF WorkInv, CoverInv
<1>9. SealIsTrue'
  BY <1>1, <1>2, <1>3 DEF EndInv, SealIsTrue, NotAgain
<1>10. RecordIsTrue'
  BY <1>1 DEF EndInv, RecordIsTrue
<1>11. Covered' = Covered
  BY <1>1, <1>2 DEF Covered
<1>12. CaptureIsCovered'
  BY <1>1, <1>11 DEF EndInv, CaptureIsCovered
<1> QED
  BY <1>4, <1>5, <1>6, <1>7, <1>8, <1>9, <1>10, <1>12 DEF Kept, Promises, EndInv

-----------------------------------------------------------------------------
(* archive.py finds no torn manifest                                       *)

\* A step that is no crash tears no manifest.
Untorn == \A a \in DOMAIN manifest' :
              ~manifest'[a].torn \/ (a \in DOMAIN manifest /\ manifest'[a] = manifest[a])

LEMMA NothingTears ==
    ASSUME PaperType, WorkInv, [Next]_vars
    PROVE  Crash \/ Untorn
<1>0. ASSUME UNCHANGED manifest PROVE Untorn
  BY <1>0 DEF Untorn
<1>a. ASSUME NEW a \in Assets, Protected(a) PROVE Untorn
  <2>1. /\ DOMAIN manifest' = DOMAIN manifest \cup {a}
        /\ manifest'[a] = [of |-> Content(a), run |-> runs, torn |-> FALSE]
        /\ \A b \in DOMAIN manifest \ {a} : manifest'[b] = manifest[b]
    BY <1>a, ProtectedType
  <2>2. ~manifest'[a].torn
    BY <2>1
  <2>3. \A b \in DOMAIN manifest' : b = a \/ (b \in DOMAIN manifest /\ manifest'[b] = manifest[b])
    BY <2>1
  <2> QED
    BY <2>2, <2>3 DEF Untorn
<1>b. ASSUME NEW S, manifest' = Without(manifest, S) PROVE Untorn
  BY <1>b, WithoutType DEF Untorn
<1>1. ASSUME Video \/ Frames \/ ProtectLog PROVE Untorn
  BY <1>1, <1>0, <1>a, PresentIsAsset DEF Video, Frames, ProtectLog, ProtectStep
<1>2. ASSUME StartMerge \/ Clear \/ Prune PROVE Untorn
  BY <1>2, <1>0, <1>b DEF StartMerge, Clear, Prune, MergeFails
<1>3. ASSUME ProtectHar PROVE Untorn
  BY <1>3, <1>0, <1>a, PresentIsAsset DEF ProtectHar
<1>4. ASSUME ProtectMedium PROVE Untorn
  <2>1. \A m \in proc.hand : m \in Assets
    BY DEF PaperType, Procs, Assets
  <2> QED
    BY <1>4, <1>0, <1>a, <2>1 DEF ProtectMedium
<1>5. ASSUME \/ Session \/ Dialog \/ CancelArchive \/ CancelResume \/ Encode \/ Encoded \/ Replace
             \/ ClearPart \/ WriteMetadata \/ WriteAffidavit \/ Store \/ Acquired \/ SaveLog
             \/ SummaryFails \/ ReadMetadata \/ Curate \/ Seal
      PROVE  Untorn
  <2>1. UNCHANGED manifest
    BY <1>5 DEF files, Session, Attach, Shoot, Close, Dialog, CancelArchive, CancelResume, Encode,
       Encoded, Replace, ClearPart, WriteMetadata, WriteAffidavit, Store, Acquired, SaveLog, SummaryFails,
       ReadMetadata, Curate, Seal
  <2> QED
    BY <2>1, <1>0
<1>6. ASSUME BeginResume \/ BeginFinalize \/ Delete \/ Verify \/ UNCHANGED vars PROVE Untorn
  BY <1>6, <1>0 DEF BeginResume, BeginFinalize, Begin, Delete, Verify, vars, files
<1> QED
  BY <1>1, <1>2, <1>3, <1>4, <1>5, <1>6 DEF Next, Finishing

LEMMA WholeStep ==
    ASSUME PaperType, WorkInv, [Next]_vars
    PROVE  WholeInv'
<1>1. CASE Crash
  BY <1>1, IdleFields DEF Crash, WholeInv
<1>2. CASE Untorn
  <2>1. proc'.prog = "archive" => proc.prog = "archive"
    BY ProcStep
  <2> QED
    BY <1>2, <2>1 DEF Untorn, WorkInv, WholeInv
<1> QED
  BY <1>1, <1>2, NothingTears

-----------------------------------------------------------------------------
(* The theorem                                                             *)

LEMMA InitPapers == Init => PapersInv
<1> SUFFICES ASSUME Init PROVE PapersInv
  OBVIOUS
<1>1. proc = [prog |-> "archive", at |-> "record", path |-> "unmerged", clean |-> TRUE,
              har |-> {}, hand |-> {}]
  BY DEF Init, Idle
<1>2. /\ ws = [index |-> FALSE, bodies |-> {}] /\ har = {} /\ shots = 0 /\ media = {} /\ log = {}
      /\ par2 = {} /\ meta = {} /\ affidavit = {} /\ seal = {} /\ runs = 1 /\ crashes = 0
      /\ faults = 0 /\ captured = {} /\ done = "none" /\ DOMAIN manifest = {}
  BY DEF Init, NoWs
<1>3. proc \in Procs
  BY <1>1 DEF Procs, Programs, Steps, BeforeHar
<1>4. MaxRuns \in Nat /\ MaxRuns # 0 /\ MaxCrashes \in Nat /\ MaxFaults \in Nat /\ Shots \in Nat
  BY CaptureAssumption
<1>5. rec \in {"none", "raw", "encoding", "mp4"}
  BY <1>4 DEF Init
<1>6. DirectoryOK
  BY <1>2, <1>4, <1>5 DEF DirectoryOK, AtMostOne
<1>7. SideFilesOK /\ PapersOK
  BY <1>2 DEF SideFilesOK, PapersOK, AtMostOne
<1>8. CountsOK
  BY <1>2, <1>3, <1>4 DEF CountsOK, Programs
<1>9. PaperType
  BY <1>6, <1>7, <1>8, PaperTypeParts
<1>10. HarInv
  BY InitCapture DEF CaptureInv
<1>11. ProgramInv
  BY <1>1, <1>2 DEF ProgramInv, At
<1>12. ManifestInv
  BY <1>1, <1>2 DEF ManifestInv, At
<1>13. RecordInv /\ SealInv
  BY <1>1 DEF RecordInv, FromHar, SealInv, Pruned, At, Capturing
<1>14. CoverInv
  BY <1>1, <1>2 DEF CoverInv, BeforeEncoded, BeforeFrames, BeforeMerge
<1>16. WholeInv
  BY <1>2 DEF WholeInv
<1>15. EndInv
  BY <1>2 DEF EndInv, SealIsTrue, RecordIsTrue, CaptureIsCovered
<1> QED
  BY <1>9, <1>10, <1>11, <1>12, <1>13, <1>14, <1>15, <1>16 DEF PapersInv, WorkInv

LEMMA StepPapers == PapersInv /\ [Next]_vars => PapersInv'
<1> SUFFICES ASSUME PapersInv, [Next]_vars PROVE PapersInv'
  OBVIOUS
<1>0. PaperType /\ HarInv /\ WorkInv /\ EndInv
  BY DEF PapersInv
<1>1. PaperType'
  BY <1>0, PaperTypeStep
<1>2. HarInv'
  <2>1. CaptureType
    BY <1>0 DEF PaperType, FieldsOK, Procs, CaptureType, IsProgram
  <2> QED
    BY <1>0, <2>1, StepCapture DEF CaptureInv
<1>3. Kept
  BY <1>0, WorkspaceSteps, ShootStep, CloseStep, FilesSteps, CancelSteps, VideoStep, StartMergeStep,
     ReplaceStep, ClearStep, ProtectHarStep, StatementSteps, PruneStep, StoreStep, ProtectMediumStep,
     SaveSteps, SummaryFailsStep, ReadMetadataStep, CurateStep, ProtectLogStep, SealStep, CrashStep,
     BeginSteps, IdleSteps, StillKeeps
  DEF Next, Session, Finishing
<1>4. WholeInv'
  BY <1>0, WholeStep
<1> QED
  BY <1>1, <1>2, <1>3, <1>4 DEF Kept, Promises, PapersInv, WorkInv

LEMMA OnePaper ==
    ASSUME NEW S, AtMostOne(S)
    PROVE  Cardinality(S) <= 1
<1>1. CASE S = {}
  BY <1>1, FS_EmptySet
<1>2. CASE S # {}
  <2>1. PICK x \in S : TRUE
    BY <1>2
  <2>2. S = {x}
    BY <2>1 DEF AtMostOne
  <2>3. Cardinality({x}) = 1
    BY FS_Singleton
  <2> QED
    BY <2>2, <2>3
<1> QED
  BY <1>1, <1>2

\* Seal, manifests, log, metadata and affidavit say the truth about each other
\* and about the assets whenever a program has come to its end, whatever crashed
\* and failed before, but for the manifests of NotAgain that a crash has torn: for any bodies, media, frames, runs, crashes and faults.
THEOREM PapersAreAlwaysTrue == Spec => []PapersAreTrue
<1>1. PapersInv => PapersAreTrue
  <2> SUFFICES ASSUME PapersInv PROVE PapersAreTrue
    OBVIOUS
  <2>1. OneOfEach
    BY OnePaper DEF OneOfEach, PapersInv, PaperType
  <2> QED
    BY <2>1 DEF PapersInv, PaperType, EndInv, PapersAreTrue, TypeOK
<1> QED
  BY <1>1, InitPapers, StepPapers, PTL DEF Spec

=============================================================================
