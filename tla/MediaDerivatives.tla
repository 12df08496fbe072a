---------------------------- MODULE MediaDerivatives ----------------------------
(***************************************************************************)
(* What is derived from the media files: Part D makes thumbnails           *)
(* (thumbnail_generator.py), Part E perceptual hashes (phash_generator.py).*)
(* Both are passes gated by a status column of the media table: fetch a    *)
(* batch of 'pending' rows, work on them at once under a semaphore and in  *)
(* the threads of one executor, write the status back, fetch again.        *)
(* Several processes may run passes while the intake of archives and the   *)
(* AA loader go on writing the rows.  The two kinds of pass touch no column*)
(* of each other: a behaviour follows one kind.                            *)
(***************************************************************************)
EXTENDS Integers, FiniteSets, Sequences

CONSTANTS
    Media,           \* media rows
    Videos, Audios,  \* those that are not images
    Workers,         \* processes that run passes, one of them perhaps the server's
    Limits,          \* --limit values; 0 is no limit
    BatchSize,       \* BATCH_SIZE
    MaxConcurrent,   \* MAX_CONCURRENT
    Slots,           \* threads of a process's executor
    MaxVersion,      \* how many files of one medium are told apart
    MaxFaults,       \* bound: statements that fail
    MaxHangs,        \* bound: threads of a process that hang in a read at one time
    MaxLoad          \* bound: rows and passes at one time

\* local_url: NULL, a CDN address, or a file in archives/ (the larger the better).
NoFile == 0
Cdn == -1
Versions == 1 .. MaxVersion
LocalUrls == {NoFile, Cdn} \cup Versions

ASSUME DerivativesAssumption ==
    /\ IsFiniteSet(Media)
    /\ Videos \subseteq Media /\ Audios \subseteq Media \ Videos
    /\ Limits \subseteq Nat
    /\ BatchSize \in Nat \ {0} /\ MaxConcurrent \in Nat \ {0} /\ Slots \in Nat
    /\ MaxVersion \in Nat /\ MaxFaults \in Nat
    /\ MaxHangs \in Nat /\ MaxLoad \in Nat

VARIABLES
    kind,         \* the kind of pass that is followed; it never changes
    file,         \* media.local_url
    status,       \* media.thumbnail_status or media.phash_status; "absent": no row
    thumb,        \* file that media.thumbnail_path was made from; 0: NULL or an error text
    saved,        \* file that the JPEG in thumbnails/ was made from; 0: none
    rows,         \* media_hash: the file each row of a medium was computed from
    unmarked,     \* media the AA loader has stored and not yet marked 'not_needed'
    pc,           \* worker -> "idle", "loop", "batch" or "closing"
    pass,         \* worker -> whose pass it is and its limit
    count,        \* worker -> generated_count (Part D), processed (Part E)
    short,        \* worker -> the batch has fewer rows than were asked for
    task,         \* worker -> medium -> where its task is and the local_url it was given
    hung,         \* worker -> threads given up that have not returned
    faults,       \* bound counter
    owes,         \* history: worker -> media pending when its unlimited pass began, not skipped since
    abandoned     \* history: the AA loader died before it marked its media

rowVars == <<kind, file, status, thumb, saved, rows, unmarked>>
passVars == <<pc, pass, count, short, task, hung, owes>>
vars == <<rowVars, passVars, faults, abandoned>>

Statuses == {"absent", "pending", "generated", "not_needed", "error"}
NoTask == [at |-> "none", url |-> NoFile]
Places == {"none", "waiting", "reading", "stuck", "made", "saved", "failed", "raised", "true", "false"}
Results == {"raised", "true", "false"}

\* The server's job makes thumbnails, without a limit.
NoPass == [by |-> "none", limit |-> 0]
Passes == (IF kind = "thumbnails" THEN [by : {"server"}, limit : {0}] ELSE {})
             \cup [by : {"command line"}, limit : Limits]
ByServer(w) == pass[w].by = "server"

PassesTypeOK ==
    /\ file \in [Media -> LocalUrls]
    /\ kind \in {"thumbnails", "hashes"}
    /\ status \in [Media -> Statuses]
    /\ thumb \in [Media -> {0} \cup Versions] /\ saved \in [Media -> {0} \cup Versions]
    /\ rows \in [Media -> Seq(Versions)]
    /\ unmarked \subseteq Media
    /\ pc \in [Workers -> {"idle", "loop", "batch", "closing"}]
    /\ pass \in [Workers -> Passes \cup {NoPass}]
    /\ count \in [Workers -> Nat]
    /\ short \in [Workers -> BOOLEAN]
    /\ task \in [Workers -> [Media -> [at : Places, url : LocalUrls]]]
    /\ hung \in [Workers -> 0 .. MaxHangs]
    /\ faults \in 0 .. MaxFaults
    /\ owes \in [Workers -> SUBSET Media]
    /\ abandoned \in BOOLEAN

PassesInit ==
    /\ file = [m \in Media |-> NoFile]
    /\ kind \in {"thumbnails", "hashes"}
    /\ status = [m \in Media |-> "absent"]
    /\ thumb = [m \in Media |-> 0] /\ saved = [m \in Media |-> 0]
    /\ rows = [m \in Media |-> <<>>]
    /\ unmarked = {}
    /\ pc = [w \in Workers |-> "idle"]
    /\ pass = [w \in Workers |-> NoPass]
    /\ count = [w \in Workers |-> 0] /\ short = [w \in Workers |-> FALSE]
    /\ task = [w \in Workers |-> [m \in Media |-> NoTask]]
    /\ hung = [w \in Workers |-> 0]
    /\ faults = 0
    /\ owes = [w \in Workers |-> {}]
    /\ abandoned = FALSE

\* Room for one more row or pass.
Room ==
    Cardinality({m \in Media : status[m] # "absent"})
        + Cardinality({w \in Workers : pc[w] # "idle"}) < MaxLoad

Fault == faults < MaxFaults /\ faults' = faults + 1
NoFault == UNCHANGED faults

-----------------------------------------------------------------------------
(* The writers of the rows                                                 *)

\* initial_thumbnail_status; phash_status has its default.
Insert(m, url) ==
    /\ status[m] = "absent" /\ Room
    /\ file' = [file EXCEPT ![m] = url]
    /\ status' = [status EXCEPT ![m] =
          IF kind = "thumbnails" /\ (url = NoFile \/ m \in Audios) THEN "not_needed" ELSE "pending"]

\* reconcile_media prefers the larger local file.  The UPDATE of store_media
\* assigns local_url before its IF compares it with the new value, so that
\* thumbnail_status stays as it is; phash_status it does not name.
Better(old, new) == (new > old /\ new \in Versions) \/ (old = NoFile /\ new = Cdn)
Replace(m, url) ==
    /\ status[m] # "absent"
    /\ Better(file[m], url)
    /\ file' = [file EXCEPT ![m] = url]
    /\ UNCHANGED status

\* A capture is incorporated.
Intake(m, url) ==
    /\ url # Cdn
    /\ Insert(m, url) \/ Replace(m, url)
    /\ UNCHANGED <<kind, thumb, saved, rows, unmarked, passVars, faults, abandoned>>

\* The AA loader stores a medium that has a CDN address ...
AaIntake(m) ==
    /\ Insert(m, Cdn) \/ Replace(m, Cdn)
    /\ unmarked' = unmarked \cup {m}
    /\ UNCHANGED <<kind, thumb, saved, rows, passVars, faults, abandoned>>

\* ... and marks it in a statement of its own, not before a Part D may see it ...
AaMark ==
    /\ unmarked # {}
    /\ status' = [m \in Media |->
          IF kind = "thumbnails" /\ m \in unmarked /\ file[m] = Cdn /\ status[m] = "pending"
          THEN "not_needed" ELSE status[m]]
    /\ unmarked' = {}
    /\ UNCHANGED <<kind, file, thumb, saved, rows, passVars, faults, abandoned>>

\* ... or never.
AaDies ==
    /\ unmarked # {} /\ Fault
    /\ unmarked' = {}
    /\ abandoned' = TRUE
    /\ UNCHANGED <<kind, file, status, thumb, saved, rows, passVars>>

-----------------------------------------------------------------------------
(* A pass: generate_missing_thumbnails, generate_missing_hashes            *)

Pending == {m \in Media : status[m] = "pending"}

StartPass(w, p) ==
    /\ pc[w] = "idle" /\ Room
    /\ p.by = "server" => \A other \in Workers : ~ByServer(other)
    /\ pc' = [pc EXCEPT ![w] = "loop"]
    /\ pass' = [pass EXCEPT ![w] = p]
    /\ owes' = [owes EXCEPT ![w] = IF p.limit = 0 THEN Pending ELSE {}]
    /\ UNCHANGED <<rowVars, count, short, task, hung, faults, abandoned>>

\* The pass is over, with what it had in memory.
Over(w) ==
    /\ pc' = [pc EXCEPT ![w] = "idle"]
    /\ pass' = [pass EXCEPT ![w] = NoPass]
    /\ count' = [count EXCEPT ![w] = 0]
    /\ short' = [short EXCEPT ![w] = FALSE]
    /\ task' = [task EXCEPT ![w] = [m \in Media |-> NoTask]]
    /\ hung' = [hung EXCEPT ![w] = 0]
    /\ owes' = [owes EXCEPT ![w] = {}]
    /\ UNCHANGED <<rowVars, faults, abandoned>>

\* The loop is left; asyncio.run, the command line's, then waits for the threads
\* of its executor, the server's own loop does not.
Close(w) ==
    /\ pc[w] = "closing"
    /\ ~ByServer(w) => hung[w] = 0
    /\ Over(w)

\* fetch_count
Want(w) ==
    IF pass[w].limit = 0 \/ BatchSize < pass[w].limit - count[w] THEN BatchSize
    ELSE pass[w].limit - count[w]

\* SELECT ... WHERE status = 'pending' LIMIT fetch_count, without an order.
Fetch(w) ==
    /\ pc[w] = "loop"
    /\ Want(w) > 0
    /\ \E batch \in SUBSET Pending :
          /\ batch # {}
          /\ Cardinality(batch) <= Want(w)
          /\ Cardinality(batch) < Want(w) => batch = Pending
          /\ task' = [task EXCEPT ![w] = [m \in Media |->
                        IF m \in batch THEN [at |-> "waiting", url |-> file[m]] ELSE NoTask]]
          /\ short' = [short EXCEPT ![w] = Cardinality(batch) < Want(w)]
    /\ pc' = [pc EXCEPT ![w] = "batch"]
    /\ UNCHANGED <<rowVars, pass, count, hung, owes, faults, abandoned>>

NothingToFetch(w) ==
    /\ pc[w] = "loop"
    /\ Want(w) <= 0 \/ Pending = {}
    /\ pc' = [pc EXCEPT ![w] = "closing"]
    /\ UNCHANGED <<rowVars, pass, count, short, task, hung, owes, faults, abandoned>>

\* The SELECT raises, or (in the server) the job was cancelled.
Leave(w) ==
    /\ pc[w] = "loop"
    /\ (ByServer(w) /\ NoFault) \/ Fault
    /\ pc' = [pc EXCEPT ![w] = "closing"]
    /\ owes' = [owes EXCEPT ![w] = {}]
    /\ UNCHANGED <<rowVars, pass, count, short, task, hung, abandoned>>

Batch(w) == {m \in Media : task[w][m].at # "none"}

\* gather() has all results; Part D counts the successes, Part E the rows (only a
\* limited pass reads the count).
Gathered(w) ==
    /\ pc[w] = "batch"
    /\ \A m \in Batch(w) : task[w][m].at \in Results
    /\ count' = [count EXCEPT ![w] = IF pass[w].limit = 0 THEN 0 ELSE @ + Cardinality(
          {m \in Batch(w) : kind = "hashes" \/ task[w][m].at = "true"})]
    /\ task' = [task EXCEPT ![w] = [m \in Media |-> NoTask]]
    /\ pc' = [pc EXCEPT ![w] = IF short[w] THEN "closing" ELSE "loop"]
    /\ short' = [short EXCEPT ![w] = FALSE]
    /\ UNCHANGED <<rowVars, pass, hung, owes, faults, abandoned>>

\* The process dies: files and committed rows stay.
Dies(w) == pc[w] # "idle" /\ Over(w)

-----------------------------------------------------------------------------
(* One task: process_one_media of either module                            *)

At(w, m, k, place) == kind = k /\ task[w][m].at = place
Goto(w, m, place) ==
    /\ task' = [task EXCEPT ![w][m] =
          [at |-> place, url |-> IF place \in Results \cup {"failed"} THEN NoFile ELSE @.url]]
    /\ UNCHANGED <<pc, pass, count, short>>

Url(w, m) == task[w][m].url
FreeSlot(w) ==
    hung[w] + Cardinality({m \in Media : task[w][m].at \in {"reading", "stuck"}}) < Slots
FreePermit(w) ==
    Cardinality({m \in Batch(w) : task[w][m].at \notin Results \cup {"waiting"}}) < MaxConcurrent

\* Under the semaphore, and with a thread of the executor, the file is opened.
BeginTask(w, m) ==
    /\ task[w][m].at = "waiting" /\ Url(w, m) \in Versions
    /\ kind = "hashes" => m \notin Audios
    /\ FreePermit(w) /\ FreeSlot(w)
    /\ Goto(w, m, "reading")
    /\ UNCHANGED <<rowVars, hung, owes, faults, abandoned>>

\* Part D takes the path apart before its try block: a CDN address raises out of
\* the task and leaves the row as it is.
RaisesOut(w, m) ==
    /\ At(w, m, "thumbnails", "waiting") /\ Url(w, m) \notin Versions
    /\ FreePermit(w)
    /\ Goto(w, m, "raised")
    /\ owes' = [owes EXCEPT ![w] = @ \ {m}]
    /\ UNCHANGED <<rowVars, hung, faults, abandoned>>

\* Part E has nothing to do for a sound or without a file; a CDN address fails.
Needless(w, m) ==
    /\ At(w, m, "hashes", "waiting") /\ (m \in Audios \/ Url(w, m) = NoFile)
    /\ FreePermit(w)
    /\ status' = [status EXCEPT ![m] = "not_needed"]
    /\ Goto(w, m, "true")
    /\ UNCHANGED <<kind, file, thumb, saved, rows, unmarked, hung, owes, faults, abandoned>>

NotLocal(w, m) ==
    /\ At(w, m, "hashes", "waiting") /\ m \notin Audios /\ Url(w, m) = Cdn
    /\ FreePermit(w)
    /\ Goto(w, m, "failed")
    /\ UNCHANGED <<rowVars, hung, owes, faults, abandoned>>

\* The file was decoded, or it is missing, truncated or unreadable.
ReadEnds(w, m) ==
    /\ task[w][m].at = "reading"
    /\ \E place \in {"made", "failed"} : Goto(w, m, place)
    /\ UNCHANGED <<rowVars, hung, owes, faults, abandoned>>

Stuck(w) == {m \in Media : task[w][m].at = "stuck"}
MayHang == \A v \in Workers : hung[v] < MaxHangs /\ Cardinality(Stuck(v)) < MaxHangs

\* Part D gives a video's read ten seconds.  No other read has a limit, ffprobe and
\* the images not: one that hangs keeps its task and its thread.
Timed(m) == kind = "thumbnails" /\ m \in Videos
ReadHangs(w, m) ==
    /\ task[w][m].at = "reading" /\ ~Timed(m) /\ MayHang
    /\ Goto(w, m, "stuck")
    /\ UNCHANGED <<rowVars, hung, owes, faults, abandoned>>

\* The ten seconds of wait_for include the wait for a thread.  It gives up the
\* task and cannot stop the thread.
TimesOut(w, m) ==
    /\ Timed(m)
    /\ \/ task[w][m].at = "waiting" /\ Url(w, m) \in Versions
          /\ FreePermit(w) /\ ~FreeSlot(w) /\ UNCHANGED hung
       \/ /\ task[w][m].at = "reading" /\ MayHang
          /\ hung' = [hung EXCEPT ![w] = @ + 1]
    /\ Goto(w, m, "failed")
    /\ UNCHANGED <<rowVars, owes, faults, abandoned>>

\* A read that took too long comes to an end after all; nobody takes its result.
ThreadReturns(w) ==
    /\ hung[w] > 0
    /\ hung' = [hung EXCEPT ![w] = @ - 1]
    /\ UNCHANGED <<rowVars, pc, pass, count, short, task, owes, faults, abandoned>>

\* The JPEG is written before the row names it.
SaveJpeg(w, m) ==
    /\ At(w, m, "thumbnails", "made") /\ FreeSlot(w)
    /\ saved' = [saved EXCEPT ![m] = Url(w, m)]
    /\ Goto(w, m, "saved")
    /\ UNCHANGED <<kind, file, status, thumb, rows, unmarked, hung, owes, faults, abandoned>>

RecordThumbnail(w, m) ==
    /\ At(w, m, "thumbnails", "saved")
    /\ status' = [status EXCEPT ![m] = "generated"]
    /\ thumb' = [thumb EXCEPT ![m] = Url(w, m)]
    /\ Goto(w, m, "true")
    /\ UNCHANGED <<kind, file, saved, rows, unmarked, hung, owes, faults, abandoned>>

\* Mutant: hashes are added to those that are there.
Persist_Adds(w, m) ==
    /\ At(w, m, "hashes", "made") /\ FreeSlot(w)
    /\ rows' = [rows EXCEPT ![m] = @ \o IF m \in Videos THEN <<Url(w, m), Url(w, m)>> ELSE <<Url(w, m)>>]
    /\ status' = [status EXCEPT ![m] = "generated"]
    /\ Goto(w, m, "true")
    /\ UNCHANGED <<kind, file, thumb, saved, unmarked, hung, owes, faults, abandoned>>

\* A row per kept frame of a video (two here), one for an image.
Frames(m, url) == IF m \in Videos THEN <<url, url>> ELSE <<url>>

\* _persist_hashes: one transaction; a deadlock is tried again.
Persist(w, m) ==
    /\ At(w, m, "hashes", "made") /\ FreeSlot(w)
    /\ rows' = [rows EXCEPT ![m] = Frames(m, Url(w, m))]
    /\ status' = [status EXCEPT ![m] = "generated"]
    /\ Goto(w, m, "true")
    /\ UNCHANGED <<kind, file, thumb, saved, unmarked, hung, owes, faults, abandoned>>

\* Mutant: the failure is only logged.
RecordError_Logs(w, m) ==
    /\ task[w][m].at = "failed"
    /\ Goto(w, m, "false")
    /\ UNCHANGED <<rowVars, hung, owes, faults, abandoned>>

\* Mutant: the row of a thumbnail that another pass finished keeps its status.
RecordError_PathOnly(w, m) ==
    /\ task[w][m].at = "failed"
    /\ status' = [status EXCEPT ![m] = IF @ = "pending" THEN "error" ELSE @]
    /\ thumb' = [thumb EXCEPT ![m] = 0]
    /\ Goto(w, m, "false")
    /\ UNCHANGED <<kind, file, saved, rows, unmarked, hung, owes, faults, abandoned>>

\* The except clauses: the failure is recorded on the row, in Part D as a text in
\* the place of the path ...
RecordError(w, m) ==
    /\ task[w][m].at = "failed"
    /\ status' = [status EXCEPT ![m] = "error"]
    /\ thumb' = [thumb EXCEPT ![m] = 0]
    /\ Goto(w, m, "false")
    /\ UNCHANGED <<kind, file, saved, rows, unmarked, hung, owes, faults, abandoned>>

\* ... and a statement that fails leaves the row pending: that of the except
\* clause is swallowed, that of a finished thumbnail raises out of the task, and
\* a failing transaction, or the 'not_needed' of Part E, leads to the except clause.
StatementFails(w, m) ==
    /\ Fault
    /\ \/ task[w][m].at = "failed" /\ Goto(w, m, "false")
       \/ At(w, m, "thumbnails", "saved") /\ Goto(w, m, "raised")
       \/ At(w, m, "hashes", "made") /\ Goto(w, m, "failed")
       \/ At(w, m, "hashes", "waiting") /\ FreePermit(w) /\ Goto(w, m, "failed")
    /\ owes' = [owes EXCEPT ![w] = @ \ {m}]
    /\ UNCHANGED <<rowVars, hung, abandoned>>

-----------------------------------------------------------------------------

TaskStep(w, m) ==
    \/ BeginTask(w, m) \/ RaisesOut(w, m) \/ Needless(w, m) \/ NotLocal(w, m)
    \/ ReadEnds(w, m) \/ ReadHangs(w, m) \/ TimesOut(w, m)
    \/ SaveJpeg(w, m) \/ RecordThumbnail(w, m) \/ Persist(w, m)
    \/ RecordError(w, m) \/ StatementFails(w, m)
PassStep(w) == Fetch(w) \/ NothingToFetch(w) \/ Leave(w) \/ Gathered(w) \/ Close(w)
WorkerStep(w) == PassStep(w) \/ \E m \in Media : TaskStep(w, m)

PassesNext ==
    \/ \E m \in Media : AaIntake(m) \/ \E url \in LocalUrls : Intake(m, url)
    \/ AaMark \/ AaDies
    \/ \E w \in Workers : WorkerStep(w) \/ Dies(w) \/ ThreadReturns(w) \/ \E p \in Passes : StartPass(w, p)

\* Processes are scheduled, and the AA loader goes on after it has stored.
PassesSpec ==
    /\ PassesInit /\ [][PassesNext]_vars
    /\ \A w \in Workers : WF_vars(WorkerStep(w))
    /\ WF_vars(AaMark)

(* Properties                                                              *)

\* Whatever fails or dies, and with several passes on the same rows: a row that
\* says 'generated' names a thumbnail that is on disk, and no other row names one.
ThumbnailIsThere ==
    \A m \in Media :
        /\ kind = "thumbnails" => (status[m] = "generated" <=> thumb[m] # 0)
        /\ thumb[m] # 0 => saved[m] # 0

\* The rows of a medium in media_hash are those of one computation, complete and
\* each once, also when two passes hash it or one of them fails after the other
\* succeeded; and a row that says 'generated' has some.
HashesAreWhole ==
    \A m \in Media :
        /\ rows[m] = <<>> \/ \E v \in Versions : rows[m] = Frames(m, v)
        /\ kind = "hashes" /\ status[m] = "generated" => rows[m] # <<>>

\* An unlimited pass that ends on its own leaves nothing pending that was so when
\* it began, but what a failed statement or a CDN address made it skip.
PendingIsDrained ==
    \A w \in Workers :
        pc[w] = "closing" /\ pass[w].limit = 0 => owes[w] \cap Pending = {}

\* A limited pass does not do more than its limit over all its batches.
LimitIsKept ==
    \A w \in Workers : pass[w].limit # 0 /\ pc[w] # "idle" => count[w] <= pass[w].limit

\* A pass waits for a read without a time limit; or what has no limit needs a thread, and
\* threads that were given up have them all; or asyncio.run waits for such a thread at the end.
Starved(w) ==
    /\ hung[w] >= Slots
    /\ \E m \in Media : task[w][m].at = "made" \/ (task[w][m].at = "waiting" /\ ~Timed(m))
Held(w) == Stuck(w) # {} \/ Starved(w) \/ (~ByServer(w) /\ hung[w] > 0)

\* Every pass ends, whatever its files do, unless reads that hang hold it for ever; it ends
\* also after the threads have come back.  None need end when the AA loader leaves CDN
\* addresses behind as pending.
PassEnds ==
    \A w \in Workers : pc[w] # "idle" ~> pc[w] = "idle" \/ abandoned \/ []Held(w)

\* Every pass does what it is for and no more, and comes to its end unless it is held.
PassesDrain == [](PassesTypeOK /\ PendingIsDrained /\ LimitIsKept) /\ PassEnds

\* incorporation_service.py:227-231: with a loop of its own the server's pass does not wait for
\* the threads that "survived an asyncio.wait_for timeout", which "would hang the pipeline
\* indefinitely": it ends whether or not they return.
\* The code breaks it: README, section 7.
ServerIsNotHeld ==
    \A w \in Workers : ByServer(w) ~> ~ByServer(w) \/ abandoned \/ [](Stuck(w) # {})

=============================================================================
