------------------------------- MODULE Loader --------------------------------
(***************************************************************************)
(* The archive loader (db_loaders/archives_db_loader.py): Part A registers *)
(* or requeues archive sessions, Part B parses the pending ones, Part C    *)
(* extracts entities from the parsed ones, Part D makes thumbnails.  A     *)
(* worker is a process or thread that executes a pipeline: the server's    *)
(* job thread or a command-line invocation; several may run at once on the *)
(* same archive_session table.  The other writers of that table are here   *)
(* too: the status reset, the error clearing and the commit of an upload.  *)
(*                                                                         *)
(* An archive is the rank of its directory in capture order, so a larger   *)
(* number is a newer archive.  The content of a directory is a version     *)
(* number; `structures` and `entities` say which version was parsed and    *)
(* which was last incorporated.                                            *)
(***************************************************************************)
EXTENDS Naturals, FiniteSets

CONSTANTS
    NumArchives,      \* archive directories are 1 .. NumArchives, oldest first
    Wacz,             \* those whose capture is archive.wacz, not archive.har
    Workers,          \* pipeline executors
    Server,           \* the one that is the server's job thread
    Stages,           \* the stages that workers are asked to run
    Limits,           \* the --limit values in use; 0 is no limit
    Filters,          \* the name filters in use, each as the set it matches
    InsertBatch,      \* _REGISTER_INSERT_BATCH
    ResetRanges,      \* the session ranges that status resets are asked for
    Uploads,          \* the directories that committed uploads are named for
    MaxVersion        \* how many contents of one directory are told apart

Archives == 1 .. NumArchives
ArchiveRef == 0 .. NumArchives
Versions == 1 .. MaxVersion
VersionRef == 0 .. MaxVersion

AllStages == {"register", "parse", "extract", "full", "rerun", "clear_errors"}

ASSUME LoaderAssumption ==
    /\ NumArchives \in Nat
    /\ Wacz \subseteq Archives
    /\ Stages \subseteq AllStages
    /\ Limits \subseteq Nat
    /\ Filters \subseteq SUBSET Archives
    /\ ResetRanges \subseteq SUBSET Archives
    /\ Uploads \subseteq Archives
    /\ InsertBatch \in Nat \ {0}
    /\ MaxVersion \in Nat

VARIABLES
    disk,         \* archive -> version in archives/<name>; 0: no directory
    committing,   \* archive -> step of the upload commit replacing it
    status,       \* archive_session.incorporation_status; "absent": no row
    failure,      \* archive_session.extraction_error is not NULL
    structures,   \* version in archive_session.structures; 0 is NULL
    entities,     \* version last incorporated by Part C; 0 is none
    pc,           \* worker -> the part it is in
    scope,        \* worker -> stage, limit and filter of its run
    queue,        \* worker -> the queue snapshot not yet processed
    cur,          \* worker -> archive in hand; 0 is none
    seen,         \* worker -> version it read for the archive in hand
    touched,      \* history: worker -> sessions others reverted during its run
    owed,         \* history: sessions reverted to 'pending' and not parsed since
    unrecorded    \* history: archives whose last failure could not be recorded

tableVars == <<status, failure, structures, entities>>
diskVars == <<disk, committing>>
workVars == <<queue, cur, seen>>
historyVars == <<touched, owed, unrecorded>>
loaderVars == <<disk, committing, status, failure, structures, entities,
                pc, scope, queue, cur, seen, touched, owed, unrecorded>>

FailedStates == {"parse_failed", "extract_failed"}
Statuses == {"absent", "pending", "parsed", "done"} \cup FailedStates
Registered == {a \in Archives : status[a] # "absent"}

Ends == {"completed", "cancelled", "failed"}
Parts == {"scan", "insert", "requeue", "parseQueue", "parse", "parsing",
          "extractQueue", "extract", "extracting", "marking", "thumbs",
          "clearParse", "clearExtract"}

NoScope == [stage |-> "none", limit |-> 0, filter |-> {}]
Scopes == [stage : Stages, limit : Limits, filter : Filters]

TypeOK ==
    /\ disk \in [Archives -> VersionRef]
    /\ committing \in [Archives -> {"no", "removed", "moved", "reset"}]
    /\ status \in [Archives -> Statuses]
    /\ failure \in [Archives -> BOOLEAN]
    /\ structures \in [Archives -> VersionRef]
    /\ entities \in [Archives -> VersionRef]
    /\ pc \in [Workers -> Parts \cup Ends \cup {"idle"}]
    /\ scope \in [Workers -> Scopes \cup {NoScope}]
    /\ queue \in [Workers -> SUBSET Archives]
    /\ cur \in [Workers -> ArchiveRef]
    /\ seen \in [Workers -> VersionRef]
    /\ touched \in [Workers -> SUBSET Archives]
    /\ owed \subseteq Archives
    /\ unrecorded \subseteq Archives

Init ==
    /\ disk \in [Archives -> {0, 1} \cap VersionRef]
    /\ committing = [a \in Archives |-> "no"]
    /\ status = [a \in Archives |-> "absent"]
    /\ failure = [a \in Archives |-> FALSE]
    /\ structures = [a \in Archives |-> 0]
    /\ entities = [a \in Archives |-> 0]
    /\ pc = [w \in Workers |-> "idle"]
    /\ scope = [w \in Workers |-> NoScope]
    /\ queue = [w \in Workers |-> {}]
    /\ cur = [w \in Workers |-> 0]
    /\ seen = [w \in Workers |-> 0]
    /\ touched = [w \in Workers |-> {}]
    /\ owed = {}
    /\ unrecorded = {}

-----------------------------------------------------------------------------
(* Selection                                                               *)

\* The n newest of S; all of S when n is 0 (no limit).
Newest(S, n) ==
    IF n = 0 THEN S ELSE {a \in S : Cardinality({b \in S : b > a}) < n}

\* A queue snapshot has no ORDER BY: a limit keeps any n rows of it.
Slices(S, n) ==
    IF n = 0 \/ Cardinality(S) <= n THEN {S}
    ELSE {T \in SUBSET S : Cardinality(T) = n}

\* The server passes no limit to Parts B and C; the command line does.
PartLimit(w) == IF w = Server THEN 0 ELSE scope[w].limit

\* HAR takes precedence when a directory holds both captures, hence one source
\* type, and one external_id, per directory.
SourceType(a) == IF a \in Wacz THEN "local_wacz" ELSE "local_har"
ExternalId(a) == <<IF SourceType(a) = "local_har" THEN "har-" ELSE "wacz-", a>>
DirName(a) == <<"", a>>

\* UPDATE archive_session SET incorporation_status = st ... for the rows S.
SetStatus(S, st) == status' = [a \in Archives |-> IF a \in S THEN st ELSE status[a]]

SetError(S, e) == failure' = [a \in Archives |-> IF a \in S THEN e ELSE failure[a]]

Goto(w, part) == pc' = [pc EXCEPT ![w] = part]

-----------------------------------------------------------------------------
(* A run: which part follows which                                         *)

FirstPart(stage) ==
    CASE stage \in {"register", "full"} -> "scan"
      [] stage = "rerun" -> "requeue"
      [] stage = "parse" -> "parseQueue"
      [] stage = "extract" -> "extractQueue"
      [] stage = "clear_errors" -> "clearParse"

AfterRegister(stage) == IF stage = "register" THEN "completed" ELSE "parseQueue"

\* Mutant: Part B polls for more work after it has drained its queue.
AfterParse_Polls(stage) == "parseQueue"

AfterParse(stage) == IF stage = "parse" THEN "completed" ELSE "extractQueue"
AfterExtract(stage) == IF stage = "extract" THEN "completed" ELSE "thumbs"

StartRun(w, s) ==
    /\ pc[w] = "idle"
    /\ scope' = [scope EXCEPT ![w] = s]
    /\ touched' = [touched EXCEPT ![w] = {}]
    /\ Goto(w, FirstPart(s.stage))
    /\ UNCHANGED <<tableVars, diskVars, workVars, owed, unrecorded>>

\* The worker's locals vanish: its run ended or its process died.
Forget(w) ==
    /\ Goto(w, "idle")
    /\ scope' = [scope EXCEPT ![w] = NoScope]
    /\ queue' = [queue EXCEPT ![w] = {}]
    /\ cur' = [cur EXCEPT ![w] = 0]
    /\ seen' = [seen EXCEPT ![w] = 0]
    /\ touched' = [touched EXCEPT ![w] = {}]

FinishRun(w) ==
    /\ pc[w] \in Ends
    /\ Forget(w)
    /\ UNCHANGED <<tableVars, diskVars, owed, unrecorded>>

\* A command-line process is killed.  Open transactions roll back; committed
\* rows stay.
WorkerDies(w) ==
    /\ w # Server
    /\ pc[w] # "idle"
    /\ Forget(w)
    /\ UNCHANGED <<tableVars, diskVars, owed, unrecorded>>

\* The server process dies with its job thread and its upload requests.
ServerDies ==
    /\ Server \in Workers
    /\ Forget(Server)
    /\ committing' = [a \in Archives |-> "no"]
    /\ UNCHANGED <<tableVars, disk, owed, unrecorded>>

\* A statement outside the per-archive try blocks raises (a batch rolls back).
Fail(w) ==
    /\ pc[w] \in Parts \ {"parsing", "extracting", "marking"}
    /\ Goto(w, "failed")
    /\ UNCHANGED <<tableVars, diskVars, scope, workVars, historyVars>>

-----------------------------------------------------------------------------
(* Part A: register_archives, or requeue_archives for a rerun              *)

\* Directories that hold a capture and whose external_id has no row yet.
Unregistered == {a \in Archives : disk[a] # 0} \ Registered

Scan(w) ==
    /\ pc[w] = "scan"
    /\ queue' = [queue EXCEPT ![w] =
                    Newest(Unregistered \cap scope[w].filter, scope[w].limit)]
    /\ Goto(w, "insert")
    /\ UNCHANGED <<tableVars, diskVars, scope, cur, seen, historyVars>>

\* Mutant: a row that is there already is set back by the duplicate.
InsertRows_Overwrites(w, batch) ==
    /\ SetStatus(batch, "pending")
    /\ queue' = [queue EXCEPT ![w] = @ \ batch]
    /\ UNCHANGED <<failure, structures, entities, diskVars, pc, scope, cur, seen, historyVars>>

\* One transaction; ON DUPLICATE KEY UPDATE id = id leaves a row that another
\* worker inserted since the scan as it is.
InsertRows(w, batch) ==
    /\ SetStatus(batch \ Registered, "pending")
    /\ queue' = [queue EXCEPT ![w] = @ \ batch]
    /\ UNCHANGED <<failure, structures, entities, diskVars, pc, scope, cur, seen, historyVars>>

Insert(w) ==
    /\ pc[w] = "insert"
    /\ queue[w] # {}
    /\ InsertRows(w, Newest(queue[w], InsertBatch))

InsertDone(w) ==
    /\ pc[w] = "insert"
    /\ queue[w] = {}
    /\ Goto(w, AfterRegister(scope[w].stage))
    /\ UNCHANGED <<tableVars, diskVars, scope, workVars, historyVars>>

\* All chunks are one transaction, whatever the status of the rows.
Requeue(w) ==
    /\ pc[w] = "requeue"
    /\ LET rows == Newest(Registered \cap scope[w].filter, scope[w].limit)
       IN  /\ SetStatus(rows, "pending")
           /\ SetError(rows, FALSE)
           /\ owed' = owed \cup rows
           /\ unrecorded' = unrecorded \ rows
    /\ Goto(w, "parseQueue")
    /\ UNCHANGED <<structures, entities, diskVars, scope, workVars, touched>>

-----------------------------------------------------------------------------
(* Part B: parse_archives                                                  *)

\* Mutant: the queue is what has no parsed content yet.
ParseQueue_Unparsed == {a \in Archives : status[a] \in {"pending", "parse_failed"}}

ParseQueue == {a \in Archives : status[a] = "pending"}

ParseSnapshot(w) ==
    /\ pc[w] = "parseQueue"
    /\ \E rows \in Slices(ParseQueue, PartLimit(w)) :
          queue' = [queue EXCEPT ![w] = rows]
    /\ Goto(w, "parse")
    /\ UNCHANGED <<tableVars, diskVars, scope, cur, seen, historyVars>>

\* Takes the next entry and starts reading its directory.
ParseNext(w) ==
    /\ pc[w] = "parse"
    /\ \E a \in queue[w] :
          /\ queue' = [queue EXCEPT ![w] = @ \ {a}]
          /\ cur' = [cur EXCEPT ![w] = a]
          /\ seen' = [seen EXCEPT ![w] = disk[a]]
    /\ Goto(w, "parsing")
    /\ UNCHANGED <<tableVars, diskVars, scope, historyVars>>

\* The UPDATE is by id: it does not look at the status the row has by now.
ParseOk(w) ==
    /\ pc[w] = "parsing"
    /\ seen[w] # 0
    /\ SetStatus({cur[w]}, "parsed")
    /\ SetError({cur[w]}, FALSE)
    /\ structures' = [structures EXCEPT ![cur[w]] = seen[w]]
    /\ owed' = owed \ {cur[w]}
    /\ unrecorded' = unrecorded \ {cur[w]}
    /\ cur' = [cur EXCEPT ![w] = 0]
    /\ seen' = [seen EXCEPT ![w] = 0]
    /\ Goto(w, "parse")
    /\ UNCHANGED <<entities, diskVars, scope, queue, touched>>

\* A missing directory or file, an unreadable capture: recorded on the row.
ParseFails(w) ==
    /\ pc[w] = "parsing"
    /\ SetStatus({cur[w]}, "parse_failed")
    /\ SetError({cur[w]}, TRUE)
    /\ owed' = owed \ {cur[w]}
    /\ unrecorded' = unrecorded \ {cur[w]}
    /\ cur' = [cur EXCEPT ![w] = 0]
    /\ seen' = [seen EXCEPT ![w] = 0]
    /\ Goto(w, "parse")
    /\ UNCHANGED <<structures, entities, diskVars, scope, queue, touched>>

ParseDone(w) ==
    /\ pc[w] = "parse"
    /\ queue[w] = {}
    /\ Goto(w, AfterParse(scope[w].stage))
    /\ UNCHANGED <<tableVars, diskVars, scope, workVars, historyVars>>

-----------------------------------------------------------------------------
(* Part C: extract_entities                                                *)

ExtractQueue == {a \in Archives : status[a] = "parsed"}

ExtractSnapshot(w) ==
    /\ pc[w] = "extractQueue"
    /\ \E rows \in Slices(ExtractQueue, PartLimit(w)) :
          queue' = [queue EXCEPT ![w] = rows]
    /\ Goto(w, "extract")
    /\ UNCHANGED <<tableVars, diskVars, scope, cur, seen, historyVars>>

\* Reads the row again by primary key, without a look at its status.
ExtractNext(w) ==
    /\ pc[w] = "extract"
    /\ \E a \in queue[w] :
          /\ queue' = [queue EXCEPT ![w] = @ \ {a}]
          /\ cur' = [cur EXCEPT ![w] = a]
          /\ seen' = [seen EXCEPT ![w] = structures[a]]
    /\ Goto(w, "extracting")
    /\ UNCHANGED <<tableVars, diskVars, scope, historyVars>>

\* C1 to C3: NULL structures do not deserialise; what C2 makes of the others is
\* stored by incorporate_structures_into_db in one transaction.
Incorporate(w) ==
    /\ pc[w] = "extracting"
    /\ seen[w] # 0
    /\ entities' = [entities EXCEPT ![cur[w]] = seen[w]]
    /\ Goto(w, "marking")
    /\ UNCHANGED <<status, failure, structures, diskVars, scope, workVars, historyVars>>

\* C4, a statement of its own; it leaves extraction_error as it is.
MarkDone(w) ==
    /\ pc[w] = "marking"
    /\ SetStatus({cur[w]}, "done")
    /\ unrecorded' = unrecorded \ {cur[w]}
    /\ cur' = [cur EXCEPT ![w] = 0]
    /\ seen' = [seen EXCEPT ![w] = 0]
    /\ Goto(w, "extract")
    /\ UNCHANGED <<failure, structures, entities, diskVars, scope, queue, touched, owed>>

\* Mutant: a failure falls through to C4.
ExtractFails_FallsThrough(w) ==
    /\ pc[w] \in {"extracting", "marking"}
    /\ SetStatus({cur[w]}, "done")
    /\ cur' = [cur EXCEPT ![w] = 0]
    /\ seen' = [seen EXCEPT ![w] = 0]
    /\ Goto(w, "extract")
    /\ UNCHANGED <<failure, structures, entities, diskVars, scope, queue, historyVars>>

\* C1 to C3 raised and rolled back, or C4 raised after C3 had committed.
ExtractFails(w) ==
    /\ pc[w] \in {"extracting", "marking"}
    /\ SetStatus({cur[w]}, "extract_failed")
    /\ SetError({cur[w]}, TRUE)
    /\ unrecorded' = unrecorded \ {cur[w]}
    /\ cur' = [cur EXCEPT ![w] = 0]
    /\ seen' = [seen EXCEPT ![w] = 0]
    /\ Goto(w, "extract")
    /\ UNCHANGED <<structures, entities, diskVars, scope, queue, touched, owed>>

ExtractDone(w) ==
    /\ pc[w] = "extract"
    /\ queue[w] = {}
    /\ Goto(w, AfterExtract(scope[w].stage))
    /\ UNCHANGED <<tableVars, diskVars, scope, workVars, historyVars>>

\* The handler of a failure raises itself, and leaves the loop and the run: the error
\* text is longer than its varchar(500) column, or the UPDATE fails for another reason.
HandlerRaises(w) ==
    /\ pc[w] \in {"parsing", "extracting", "marking"}
    /\ unrecorded' = unrecorded \cup {cur[w]}
    /\ Goto(w, "failed")
    /\ UNCHANGED <<tableVars, diskVars, scope, workVars, touched, owed>>

\* Part D has no effect on the sessions.
MakeThumbnails(w) ==
    /\ pc[w] = "thumbs"
    /\ Goto(w, "completed")
    /\ UNCHANGED <<tableVars, diskVars, scope, workVars, historyVars>>

-----------------------------------------------------------------------------
(* clear_errors: two statements, each committed on its own                 *)

Clearable(failed) == {a \in Archives : status[a] = failed /\ SourceType(a) = "local_har"}

ClearParseErrors(w) ==
    /\ pc[w] = "clearParse"
    /\ SetStatus(Clearable("parse_failed"), "pending")
    /\ SetError(Clearable("parse_failed"), FALSE)
    /\ owed' = owed \cup Clearable("parse_failed")
    /\ Goto(w, "clearExtract")
    /\ UNCHANGED <<structures, entities, diskVars, scope, workVars, touched, unrecorded>>

ClearExtractErrors(w) ==
    /\ pc[w] = "clearExtract"
    /\ SetStatus(Clearable("extract_failed"), "parsed")
    /\ SetError(Clearable("extract_failed"), FALSE)
    /\ Goto(w, "completed")
    /\ UNCHANGED <<structures, entities, diskVars, scope, workVars, historyVars>>

-----------------------------------------------------------------------------
(* Cancellation: the checks inside the loops of Parts A to D; only the     *)
(* server passes a cancel_check                                            *)

AtCheck(w) ==
    \/ pc[w] \in {"insert", "parse", "extract"} /\ queue[w] # {}
    \/ pc[w] = "requeue" /\ Newest(Registered \cap scope[w].filter, scope[w].limit) # {}
    \/ pc[w] = "thumbs"

\* InterruptedError: the open registration batch or the requeue rolls back.
Interrupt(w) ==
    /\ w = Server
    /\ AtCheck(w)
    /\ Goto(w, "cancelled")
    /\ UNCHANGED <<tableVars, diskVars, scope, workVars, historyVars>>

-----------------------------------------------------------------------------
(* Other writers of the table                                              *)

\* Mutant: a lateral move from 'parse_failed' to 'parsed' is allowed.
ResettableFrom_Lateral(target) ==
    {"parse_failed", "parsed", "extract_failed", "done"} \ {target}

ResettableFrom(target) ==
    CASE target = "pending" -> {"parse_failed", "parsed", "extract_failed", "done"}
      [] target = "parsed" -> {"extract_failed", "done"}

\* reset_incorporation_status(target) on the in-range sessions.
ResetStatus(target, range) ==
    LET rows == {a \in range : status[a] \in ResettableFrom(target)}
    IN  /\ SetStatus(rows, target)
        /\ SetError(rows, FALSE)
        /\ touched' = [w \in Workers |-> IF pc[w] = "idle" THEN touched[w]
                                         ELSE touched[w] \cup rows]
        /\ owed' = IF target = "pending" THEN owed \cup rows ELSE owed
        /\ unrecorded' = unrecorded \ rows
        /\ UNCHANGED <<structures, entities, diskVars, pc, scope, workVars>>

\* The archiver finishes a new capture in archives/.  Versions tell the contents of one
\* directory apart: that of one with no session yet is the first, as in Init.
NewArchive(a) ==
    /\ disk[a] = 0
    /\ status[a] = "absent"
    /\ committing[a] = "no"
    /\ 1 \in Versions
    /\ disk' = [disk EXCEPT ![a] = 1]
    /\ UNCHANGED <<committing, tableVars, pc, scope, workVars, historyVars>>

\* commit_archive of an upload: a directory in the way is deleted ...
CommitRemove(a) ==
    /\ committing[a] = "no"
    /\ disk[a] # 0
    /\ disk' = [disk EXCEPT ![a] = 0]
    /\ committing' = [committing EXCEPT ![a] = "removed"]
    /\ UNCHANGED <<tableVars, pc, scope, workVars, historyVars>>

\* ... the staged one is moved in its place ...
CommitMove(a) ==
    /\ committing[a] \in {"no", "removed"}
    /\ disk[a] = 0
    /\ \E v \in Versions : disk' = [disk EXCEPT ![a] = v]
    /\ committing' = [committing EXCEPT ![a] = "moved"]
    /\ UNCHANGED <<tableVars, pc, scope, workVars, historyVars>>

\* ... the sessions named like the directory are reset ...
CommitMatches(a) ==
    {b \in Registered : ExternalId(b) = DirName(a) /\ SourceType(b) = "local_har"}

CommitReset(a) ==
    /\ committing[a] = "moved"
    /\ SetStatus(CommitMatches(a), "pending")
    /\ SetError(CommitMatches(a), FALSE)
    /\ owed' = owed \cup CommitMatches(a)
    /\ committing' = [committing EXCEPT ![a] = "reset"]
    /\ UNCHANGED <<structures, entities, disk, pc, scope, workVars, touched, unrecorded>>

\* ... and the chain-of-custody records are written; or the request dies.
CommitEnd(a) ==
    /\ committing[a] # "no"
    /\ committing' = [committing EXCEPT ![a] = "no"]
    /\ UNCHANGED <<disk, tableVars, pc, scope, workVars, historyVars>>

-----------------------------------------------------------------------------

\* The steps that first look at cancel_check, and those that do not.
CheckedStep(w) == Insert(w) \/ Requeue(w) \/ ParseNext(w) \/ ExtractNext(w)

FreeStep(w) ==
    \/ Scan(w) \/ InsertDone(w)
    \/ ParseSnapshot(w) \/ ParseOk(w) \/ ParseFails(w) \/ ParseDone(w)
    \/ ExtractSnapshot(w) \/ Incorporate(w) \/ MarkDone(w) \/ ExtractFails(w)
    \/ ExtractDone(w) \/ HandlerRaises(w) \/ MakeThumbnails(w)
    \/ ClearParseErrors(w) \/ ClearExtractErrors(w)
    \/ Fail(w)

WorkerStep(w) == CheckedStep(w) \/ FreeStep(w) \/ FinishRun(w)

CommitStep(a) == CommitRemove(a) \/ CommitMove(a) \/ CommitReset(a) \/ CommitEnd(a)

WorkerNext(w) == (\E s \in Scopes : StartRun(w, s)) \/ WorkerStep(w) \/ WorkerDies(w)

\* Whatever the server's job manager does not know of: command-line loaders,
\* the archiver, and upload requests while the server serves.
Elsewhere(serves) ==
    \/ \E w \in Workers \ {Server} : WorkerNext(w)
    \/ \E a \in Archives : NewArchive(a)
    \/ \E a \in Uploads : serves /\ CommitStep(a)

\* The table as long as no server runs a job.
CommandLineNext ==
    \/ \E target \in {"pending", "parsed"}, range \in ResetRanges : ResetStatus(target, range)
    \/ Elsewhere(TRUE)

Next ==
    \/ \E w \in Workers \cap {Server} : WorkerNext(w) \/ Interrupt(w)
    \/ ServerDies
    \/ CommandLineNext

\* A started run keeps being scheduled until it ends; nobody has to start one.
LoaderFairness == \A w \in Workers : WF_loaderVars(WorkerStep(w))

Spec == Init /\ [][Next]_loaderVars /\ LoaderFairness

CommandLineSpec == Init /\ [][CommandLineNext]_loaderVars /\ LoaderFairness

(* Properties                                                              *)

\* With any number of workers and other writers: a session that has been parsed
\* has structures to extract from, and one that is 'done' has entities.
WorkIsOnRecord ==
    \A a \in Archives :
        /\ status[a] \in {"parsed", "extract_failed", "done"} => structures[a] # 0
        /\ status[a] = "done" => entities[a] # 0

\* With any number of workers: a session goes back to 'pending' only because it
\* was requeued, reset or cleared.  Two workers that scanned the same new
\* directory do not restart what the faster one has done.
NoSilentRestart ==
    [][\A a \in Registered :
          status'[a] = "pending" => status[a] = "pending" \/ a \in owed']_loaderVars

\* With one worker: 'done' means that the parsed content is the incorporated
\* one, whatever resets, crashes, interrupts and uploads come in between.
DoneMatchesParse ==
    \A a \in Archives : status[a] = "done" => entities[a] = structures[a]

\* With one worker: extraction_error is set exactly on the failed sessions,
\* although C4 does not clear it.
ErrorExplainsFailure ==
    \A a \in Archives : failure[a] <=> status[a] \in FailedStates

\* With one worker: after Part C of an unlimited run, or of any server run, no
\* session is left 'pending' or 'parsed', those of an earlier interrupted run
\* included, but the ones that a reset reverted meanwhile.
RunDrains ==
    \A w \in Workers, a \in Archives :
        pc[w] = "thumbs" /\ (w = Server \/ scope[w].limit = 0)
            => status[a] \notin {"pending", "parsed"} \/ a \in touched[w]

\* With one worker: no part picks up an archive whose row says that it failed.
FailedAreSkipped ==
    [][\A w \in Workers :
          cur[w] = 0 /\ cur'[w] # 0 => status[cur'[w]] \notin FailedStates]_loaderVars

\* With one worker: an archive whose failure did not reach its row is not lost: its
\* session still stands in the queue of a part.
UnrecordedAreRetried == \A a \in unrecorded : status[a] \in {"pending", "parsed"}

\* "Record the error in the database so this archive is skipped on future runs": an
\* archive that failed is not taken again unless somebody reverted its session.
\* The code breaks it: README, section 7.
FailuresAreFinal ==
    [][\A w \in Workers : cur[w] = 0 /\ cur'[w] # 0 => cur'[w] \notin unrecorded]_loaderVars

\* With one worker: the status column can be believed.  'done' stands for the
\* parsed content, a failure for an error text.
StatusIsTrue == DoneMatchesParse /\ ErrorExplainsFailure

\* With one worker: a run leaves nothing behind that it was to take, takes nothing
\* that failed on record, and drops nothing whose failure could not be recorded.
QueuesAreExact == [](RunDrains /\ UnrecordedAreRetried) /\ FailedAreSkipped

\* "for overrides it resets the record": the session of an archive that an
\* upload replaced is 'pending' after the commit's UPDATE.
OverwriteIsReset ==
    [][\A a \in Registered :
          committing[a] = "moved" /\ committing'[a] = "reset" => status'[a] = "pending"]_loaderVars

\* Every run ends, with an end of its own or with its process.
RunsEnd == \A w \in Workers : pc[w] # "idle" ~> pc[w] = "idle"

\* With one worker: the table behaves as SessionLifecycle says, resets included, but
\* for the verdict on a session that was reset while the worker had it in hand.
Lifecycle == INSTANCE SessionLifecycle
LateVerdict ==
    \E w \in Workers :
        /\ cur[w] \in touched[w]
        /\ \E st \in Statuses : status' = [status EXCEPT ![cur[w]] = st]
LifecycleSpec == Lifecycle!Init /\ [][Lifecycle!Next \/ LateVerdict]_status

=============================================================================
