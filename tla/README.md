# A verification of the evidence platform

The evidence platform archives social-media content, extracts what the archives
hold, loads it into a MySQL database and lets investigators browse it. This
directory holds TLA+ models of the parts of it in which steps can interleave,
fail or be repeated, the TLC configurations that check them, and TLAPS proofs of
their main invariants. Paths below are relative to the repository.

Sections: 1 inventory, 2 plan, 3 modules, 4 runs and bounds, 5 fairness,
6 proofs, 7 where the code departs from what it says, 8 what is not modelled.

## 1. Inventory

The server is one process: FastAPI with uvicorn. Routes declared with `def` run
in a thread pool, routes declared with `async def` on the event loop, a job in a
thread of its own. All state that must last is in MySQL or in the directories
`archives/` and `staging`. Command-line programs (archiver, loader, AA loader)
work on the same database and directories and know nothing of the server's locks.

| component | state | operations | what is hard | module |
|---|---|---|---|---|
| incorporation job manager (`services/incorporation_service.py`, `routes/incorporate.py`) | table `incorporation_job`; in memory `_running`, `_current_job_id`, `_cancel_event` | start, finish, stop, startup sweep | lock and row are written at different moments; check-then-act in routes; crash | `JobManager` |
| message hub and Incorporate page (`services/ws_manager.py`, `client/src/pages/Incorporate.tsx`) | replay buffer, a queue per subscriber; the page's running and starting | subscribe, broadcast, clear; load, start, stop | answers and messages travel on two connections; `done` precedes `finish()` | `JobPage` |
| archive loader (`db_loaders/archives_db_loader.py`) and status reset | `archive_session`: status, error, structures; entities | register, requeue, parse, extract, clear_errors; revert a range | queue snapshots processed later by id; several workers; crash between statements | `Loader` |
| incorporation pipeline in the server | both of the above | a job's body, cancellation checks, `/reset-status` | the reset checks the lock and then writes | `Incorporation` |
| upload (`client/src/pages/Upload.tsx`, `services/upload_service.py`, `routes/upload.py`) | staging directory: tar, TUS state, manifest, files; `archives/<name>` | clean, create, patch, resynchronise, verify, commit, cancel, retry | lost answers, handlers that outlive their request, the old archive goes before the new one comes | `Upload` |
| entity intake (`db_loaders/db_intake.py`, `extractors/reconcile_entities.py`) and account merge (`db_loaders/account_merge.py`) | canonical rows, a record per session, foreign keys, `merged_into_account_id`, tags | incorporate, synthesise, merge, migrate (V038) | reprocessing must be idempotent; handles change hands; redirect chains | `EntityStore` |
| archiver (`archiver/`), integrity (`utils/integrity`) | a capture directory: workspace, HAR, media, log, manifests, metadata, seal | record, finish, cancel, resume, finalize, curate, verify | a program may die between any two writes; a step that fails is skipped | `Capture` |
| extractors (`extractors/`) | media files, download log | assemble segments, save or download media, detect structures, convert, deduplicate, attach | one video has three names; the operator deletes; responses are partly unreadable | `Acquisition`, `Entities`, `Extraction` |
| thumbnails and perceptual hashes (`db_loaders/thumbnail_generator.py`, `phash_generator.py`) | `media.thumbnail_status`, `phash_status`, `media_hash` | batch loops over pending rows | rows that never leave `pending`, time-outs whose thread goes on, two passes at once | `MediaDerivatives` |
| login, tokens, second factor (`routes/login.py`, `twofa.py`, `user.py`, `admin_users.py`) | `user`, `token`, `pre_auth_token` | login, enrol, verify, change password; an administrator's changes | several steps on tokens that are used once, every statement may fail | `Access` |
| tags, imports, annotations, media parts, share links | tag tables, `media_part`, `entity_share_link` | create, change, delete, link; imports row by row | a hierarchy without cycles; imports that break off; merges in between | `TagVocabulary`, `Library` |
| search, community, enriched entities | none | queries | several queries that must agree; copies of keys | operators of `Library` |
| database access (`utils/db.py`), migration runner, deployment, data transfers, other pages | - | - | - | section 8 |

How they interact: the archiver leaves captures in `archives/`; the upload page
fills the staging directory and has the server commit it there, which resets the
archive's session. The Incorporate page starts a job; the job manager's thread
runs the loader's Parts A to D in the server process and asks the manager between
archives whether it is to stop; messages reach the page through the hub. The
command-line loader runs the same parts without the lock. Part B calls the
extractors, Part C the intake, the intake the account merge; Part D and the hash
generator work on the media that the intake left pending. Readers meet the result
through the tag vocabulary, the queries and the share links, while jobs go on
storing and merging.

What makes each of them correct:

* job manager: one job at a time; the lock, the rows and the threads agree; a
  verdict is final; a job is cancelled only by a stop that meant it; every job
  is closed and every lock given back.
* hub and page: a connection brings the messages of the job, each once; what the
  page shows as running it stops showing; what it is told is what the row says.
* loader: a status never claims work that is not on record; failures stay until
  somebody clears them; no progress is undone silently; a run drains and ends.
* upload: an existing archive is given up only for a complete one; the offset a
  client resumes from is backed by its bytes; who is told "done" has the archive.
* intake and merge: incorporating again changes nothing that others contributed;
  what an account number showed it goes on showing; nothing leads to a tombstone.
* archiver: nothing recorded is lost; seal and record say the truth; a session
  that died can be brought to its seal.
* extractors: what was watched is stored, what was deleted stays deleted; one
  unreadable part costs no other.
* derivatives: what a status says is so; every pass drains and ends.
* access: a code is good for one window of the clock; sessions belong to both factors as they are now;
  nobody is locked out by a failing statement.
* library: no cycles; no request, import or merge hides what was found.

PROJECT.json lists under `hazards` the lines where these can go wrong and the
properties that watch them.

## 2. Plan

Done, in this order: `JobLedger`, `JobManager`; `SessionLifecycle`, `Loader`;
`Incorporation` = `JobManager` + `Loader`; `Upload`; `JobPage` = `JobManager` +
hub + page; `EntityStore`; `Acquisition`, `Entities`, `Extraction`; `Access`;
`TagVocabulary`, `Library`; `Capture`; `MediaDerivatives`; the eight proof modules.

Abstract specifications: `JobLedger` for the manager's table, `SessionLifecycle`
for the status column, `JobManager` for the composition `Incorporation`. Where the
promise is an algorithm's result, a reference definition stands for it: the
longest covered prefix, chains of shared identifiers, the set of descendants.

Left to prove: of `Extraction`, what its entities and files are (`EntitiesAreWhole`,
`OneQualityIsStored`). Section 6 says why it stays with the model checker.

## 3. Modules

### JobManager, JobLedger

State: `jobs` is the status column of `incorporation_job` (with the error text
told apart: a row closed by the startup sweep is `restarted`, one that was
stopped is `cancelled`); `running`, `current`, `cancel` are the three fields of
the manager; `thread` is where each job's `_run_incorporation` is; `stopSeen` is
a `/stop` request between its two calls; `stopLog` is a history variable.

`TryStart` is all of `try_start`, which runs under the lock. `LaunchThread` is
the background task after the response, `LaunchFails` an exception before the
thread's `try`. `EndBody` is the end of the pipeline in any way; which ways there
are is left open here and closed in `Incorporation`. `finish()` is split where it
can be interleaved or fail: `CloseRow` / `CloseRowFails`, then `Release`.
`StopCheck` and `RequestCancel` are the two calls of the `/stop` route. `Crash`
loses all memory, `Restart` is `lifespan` with `cleanup_stale_jobs`.

`JobLedger` says what the table promises to the history page: ids in order, at
most one open row, an open row is closed once.

### JobPage

Extends `JobManager` by the hub and by the pages, a set. A broadcast has two steps,
as in the code: under the lock the message enters the buffer and the subscribers are
copied (`Broadcast`), afterwards their queues are filled (`Post`). `Subscribe` is
the WebSocket endpoint: queue and replay of the buffer in one critical section.
Loop callback, `asyncio.Queue` and socket keep the order and are one FIFO. The
page's requests (`/status`, `/start`) are `asked`, their `answers` come in any
order relative to the messages. `StartElsewhere` is a start from another tab.
What a page must have received is stated over positions: the stream of an open connection
(received, queued and about to be queued) `EndsWithLast` n of the messages of the
job, where n is no less than what the buffer still holds (`Buffered`), and carries
nothing else of that job.

### Loader, SessionLifecycle

An archive is the rank of its directory in capture order. `disk` is the version
of its content, `structures` the version that was parsed, `entities` the version
that was incorporated: the versions are all that is kept of the data, and enough
to say that a status is backed by work or that it is stale. `pc` is the part a
worker is in, `queue` its snapshot, `cur` and `seen` the archive in hand and
what was read of it.

Every action is a statement, or a group of statements in one transaction, of the
function named in its comment. Queue snapshots have no order, so a limit keeps
any rows (`Slices`); Part A's selection is newest first (`Newest`). UPDATEs go by
id or external_id and do not look at the status again. Part C commits the
entities (`Incorporate`) before it marks the session (`MarkDone`); `ExtractFails`
may come after either. `HandlerRaises` is the handler's own UPDATE, which has no `try`
around it and raises when the error text does not fit its column or the database does;
`unrecorded` remembers the archive. `Fail` is a statement outside the per-archive `try`. Other writers are
actions too: `ResetStatus`, the two statements of `clear_errors`, the four steps
of an upload's commit, the archiver's new captures, deaths of processes. MySQL is
taken to run in strict mode: values that do not fit are errors.

`SessionLifecycle` is the status topology that the comments of the reset and of
the loader describe.

### Incorporation

Extends `Loader`, instantiates `JobManager` and joins their steps: `Launch` starts the
pipeline with the job's thread, `Work` is a pipeline step which, at a cancellation
check, needs the event to be clear, `End` hands the pipeline's outcome to
`EndBody`. `ResetCheck` and `ResetApply` are the two halves of `/reset-status`.
`Outside` is what ignores the manager and works on the same table: command-line
loaders, upload commits while the server serves, new captures. The run has one command-line
loader and no upload; the theorems have any.

### Upload

One archive name, a sequence of flows. A flow is one execution of
`processArchive`: clean, hash, create, send, verify, commit. `tar` says whose
bytes each chunk of `_upload.tar` holds, `unpacked` whose files were extracted,
`manifest` whose manifest lies there, `archived` whose files are in
`archives/<name>`. Every flow carries a content of its own, which is the worst
case. `handler` is where the verify or commit handler of a flow is; handlers go on
when their request is given up, and die with the process. `left` is the set of
flows the user turned away from although something of theirs was still to come;
`cancelled` is the one `cancelledRef` of the tab.

A hole at the beginning of the tar makes it an empty archive, which `tarfile` does
not report; a missing manifest gives `no_checksum_file`, which the page accepts.
Verification goes through the state files as `verify_archive` does: an attempt to unpack
the tar may be refused (`ExtractRefused`, a `TarError`), or raise anything else at any of
its steps, extraction, deleting the tar, hashing (`ExtractRaises`, `UnlinkTar`,
`HashFiles`). Then the next state file is tried, and after the last one the loose files
are verified, which for a tar of the page are without a hash and pass (`Swallow`,
`LooseFiles`). `broken` remembers the flows whose extraction broke off in this way.
Extraction and hashing are one step each when they succeed. The TUS client library is modelled from
how the page configures it: an attempt that fails is followed by a HEAD, a lost
upload by a new one, at most `Retries` attempts without progress.

### EntityStore

The canonical tables, the per-session records and the tags on accounts are one
value `db`. A session's incorporation is one transaction: it reads a snapshot and
its own writes, and its statements run on the rows that are there when it commits.
So an open transaction `tx[w]` has a `view`, the list `out` of the statements it has
executed on it, the merges it has logged and, as `work`, what is left of the entity
kind in hand. `Begin` opens it (what a session's archive holds is chosen when it is
first extracted, and never changes), `OpenKind` takes the next kind in the order of
`db_intake.py` and finds the stubs that accounts with a pk prove, `MergeOne` merges
one of them, `MatchOne` looks one entity up (batch match by pk, by id in platform, by
url) and collapses it with others that found the same row, `InsertNew` and `StoreHit`
execute one statement each, `Commit` replays the list on the tables of the moment and
synchronises `post_count`, `Rollback` forgets it. `SynthesizeFromArchives` folds the
records of a row with the reconcilers, in the order in which a SELECT without ORDER BY
returned them (any order, `Orders`); the first wins. `MergeAccountInto` is
`merge_account_into`: move every foreign key, bring two records of one session
together, move tags and identifiers, tombstone the row, compress redirects, count
posts. `BeginDedupe` opens migration V038 on the tables of an older release: the same
merges, as a transaction of its own. `Annotate` tags an account at any moment.
`merged` (what `account_merge_log` records) and `late` (tags that were added while a
transaction was open) are history.

### Acquisition, Entities, Extraction

`Acquisition` is the media half of an extraction: segments joined into tracks by
asset id or file name (`AccumulateVideoSegment`, `CombinedVideos`), assembly of
segments into a file (`Assemble`: bytes are lengths), choice and deletion of
tracks with the exception that a deleted one causes, downloads under the acquisition settings, photos, and the download log
with what it keeps of files the operator deleted. `log` is a set with at most one
element, empty while there is no log or a torn one; `curated`, which is history,
holds the deleted assets that such a log can tell, so a death that tears the log
empties it. `Entities` is the other half:
which structures are found in which response, their conversion with the failures
that the code catches part by part or response by response, deduplication by
shared identifiers (`Clusters`), nesting, attachment of local files. `Extraction`
composes them over the life of an archive: extract, delete by hand, extract again,
under any of the settings its callers use, with deaths before the log is saved.

### Access

One user, two browsers, an administrator. Handlers run without an await and do not
interleave, but each of their statements commits by itself: a handler is the
sequence of database states its statements leave, and a request that goes wrong
keeps a prefix of it, or loses its answer. `page` is the step a login page shows
and the token it holds. `app` is the authenticator on the person's phone. Secrets
are drawn at random and never repeat: the model takes a new one from a pool that
`AccessAssumption` makes large enough to have one left when every page and the
pending enrolment hold another. MySQL evaluates SET from left to right, so the condition
of the lock adds one to a counter that has been raised already: the account locks at
`MaxFailures` - 1 wrong passwords, and that is what `LockIsEarned` says. No document
states another number, the parameter's name apart (`max_failures=10`).

### TagVocabulary, Library

`TagVocabulary` has tag types, tags, hierarchy, annotations, and both imports with
their rows one by one. An import is a set of turns: `<<i, 0>>` is row i, `<<i, j>>`
the link of row i to its j-th parent, and a turn may be taken when none that the
code has `Before` it is left. `Descendants` is the smallest set that is closed
under `edges`, which is what the code's recursive queries return.
`Library` adds the entities with their owners, merges, media parts and share links,
and the queries of the pages as operators: the tag filter of the
search with its scopes, the account page, what a visitor's link shows, community
scores and related-account statistics.

### Capture

The programs on one capture directory as scripts of steps: `archive.py`, its
automated variant, `resume_archive.py`, `finalize_archive.py`, `verify.py`. A file
that may be missing, torn or of an earlier run is a set with at most one element.
A manifest says what it hashes and which run made it; the seal commits to
manifests. `TypeOK` is `FieldsOK` and `OneOfEach`, which says
just that. Every step may be the last one before a crash, and fails the way its
`except` clause decides: most are skipped, some end the program. A crash may tear what
was being written in place: metadata, affidavit, log (read as an empty one), seal (as
none), PAR2 files, and the manifest of the asset in protection, which is then in the
directory and cannot be read (`torn`). The HAR is replaced whole.

### MediaDerivatives

Both passes are the same loop: fetch a batch of pending rows, start a task per row
under a semaphore and a bounded executor, gather, stop at a short batch. A task
reads, writes the file or the hash rows, and then the status. A read may hang. The
thumbnail of a video has ten seconds, after which the task is given up and its thread
goes on (`hung`); no other read has a limit, those of images and ffprobe's among them, and
keeps its task and thread (`ReadHangs`, "stuck"). Threads that hang count against the
executor's slots, all of which they may take. Several processes may run passes while the
intake inserts and replaces rows; the AA loader stores CDN media as pending and
marks them in a second transaction. The passes touch no column of each other, so a
behaviour follows one kind, chosen at the start.


## 4. Runs and bounds

| run | properties | shows | bounds |
|---|---|---|---|
| `loader` | `StatusIsTrue`, `QueuesAreExact`, `RunsEnd`, `LifecycleSpec` | one loader with the stages of the command line, resets, uploads, deaths, failures that do not reach their row: what a status or an error text says is so, a run drains its queues and ends, the column keeps to the status topology | 2 archives, one WACZ; limits none and 1; the HAR archive is uploaded again and reset, with 2 contents |
| `loader_overwrite` | `OverwriteIsReset` | a counterexample, see section 7 | 2 archives, one upload |
| `incorporation` | `PipelineIsClaimed`, `WorkIsOnRecord`, `JobManagerSpec`, `EveryJobEnds`, `NoSilentRestart` | manager, pipeline and resets together implement `JobManager` with its fairness; the server's loader and one on the command line scan the same directory and work on each other's session | 1 job, 2 workers, 1 archive, full runs, resets |
| `job_page` | `ConnectionsAreExact`, `VerdictsAgree`, `OneJobIsClaimed`, `CancelledWasHit`, `LedgerSpec`, `RunIsFollowed` | the manager and its table, followed by a page through the hub | 2 jobs, 1 page, 1 line of progress per job, a buffer of 1 |
| `upload` | `OffsetIsBacked`, `SafeToRemove`, `DoneIsArchived`, `FlowsEnd` | lost answers, resumption, crashes, abandoned requests, attempts to unpack that break off | 2 flows, 2 chunks, 1 retry without progress |
| `entity_store` | `ReferencesAreSound`, `CanonicalRowsAreRight`, `EvidenceOnlyGrows` | sessions in any order, again and again, and merges between them | 3 sessions of 7 contents, one worker, 3 runs, tables with a duplicated pk, 1 tag |
| `extraction` | `ExtractionIsExact`, `EntitiesAreWhole`, `DeletionsStick`, `OneQualityIsStored` | repeated extractions under different settings with failures and a deletion | 3 HARs, 5 settings, 3 extractions, lists of at most 3 segments and keys |
| `extraction_qualities` | `WatchedIsStored` | a counterexample, see section 7 | the same |
| `access` | `CodesAreSound`, `SessionsAreCurrent`, `PersonGetsIn` | logins, enrolments and password changes with requests cut off after any statement | 2 browsers, 4 secrets, `MaxFailures` 3 (a lock at 2), 2 slips, 2 changes by the administrator |
| `library` | `HierarchyIsAcyclic`, `ViewsAgree`, `ImportIsExact`, `NothingGetsLost`, `TiesAreWhole` | requests, both imports row by row, a session and a merge at any moment | 3 accounts, 2 media, 3 tags, 2 links, 3 requests, 2 tag files, 1 annotation file |
| `capture` | `BodiesSurvive`, `PapersAreTrue`, `EventuallySealed` | all programs on one capture with deaths at every write, which may tear it; resumed again and again it comes to its seal | 1 body, 1 medium, 1 shot, 4 runs, 2 crashes, 1 failing step |
| `media_derivatives` | `ThumbnailIsThere`, `HashesAreWhole`, `PassesDrain` | two processes' passes against intake and AA loader, with an executor that one hang exhausts | an image and a video, 1 content, limits none and 1, batches of 2, 1 slot, 1 fault, 1 hang, 3 rows or passes in all |

Several properties are conjunctions of named parts, each with its own comment in
the module:

* `StatusIsTrue`: `DoneMatchesParse`, `ErrorExplainsFailure`; `QueuesAreExact`:
  `RunDrains`, `FailedAreSkipped` (of failures on record), `UnrecordedAreRetried` (of the
  others: their sessions are still in the queue of a part);
* `OneJobIsClaimed`: `OneJobAtATime`, `ThreadIsClaimed`, `RunningRowIsClaimed`;
* `EveryJobEnds`: `JobManager`'s `JobsClose` and `LockIsReleased`, for the composition;
* `ConnectionsAreExact`: `PageTypeOK`, `StreamIsExact`;
* `ReferencesAreSound`: `TypeOK`, `TombstonesAreInert`, `CountsAgree`;
  `CanonicalRowsAreRight`: `RowIsOneIdentity`, `CanonicalIsSynthesis`;
* `ExtractionIsExact`: `AssemblyIsLongestPrefix`, `ClustersAreChains` (both against
  reference definitions, over all lists of the bound), `LogCoversLinks`;
  `EntitiesAreWhole`: `TypeOK`, `LinkedIsAttached`, `PostsStandUnderAuthors`,
  `GoodPartsSurvive`;
* `CodesAreSound`: `TypeOK`, `WindowOnce`, `EnrolledSecretIsScanned`;
  `SessionsAreCurrent`: `SessionsAreEnrolled`, `ChangeEndsSessions`;
  `PersonGetsIn`: `LockIsEarned`, `LoginSucceeds`;
* `ImportIsExact`: `ImportDelivers`, `ImportNeverDuplicates`; `NothingGetsLost`:
  `TypeOK`, `MergeKeepsFindable`, `DeletingKeepsFindable`, `SharedStaysShared`;
  `TiesAreWhole`: `StatsMirrorCommunity`, `MergeJoinsTies`;
* `PapersAreTrue`: `TypeOK`, `SealIsTrue`, `RecordIsTrue`, `CaptureIsCovered`;
* `PassesDrain`: `PassesTypeOK`, `PendingIsDrained`, `LimitIsKept`, `PassEnds`.

Exceptions that a property makes are named where they are made:

* `SafeToRemove`, `DoneIsArchived`: a flow in `broken`, whose extraction broke off and
  was let pass. `CommitIsWhole` is the claim without it, and false;
* `PapersAreTrue`: a manifest that a death tore, of a file that the program which ended
  does not protect again (`NotAgain`): for a resumption media, recording and frames, for a
  finalization the HAR as well, for a capture none. Metadata and affidavit refer to whole
  manifests only, the log's is never torn. `ResumedIsWhole` is the claim without it;
* `OneQualityIsStored`: files that were fetched in two qualities. `WatchedIsStored` is
  the claim with them;
* `PassEnds`: a pass that is `Held` for ever: by a read without a time limit that hangs,
  by the want of a thread for an image or a save when hung threads have them all, or, on
  the command line, by `asyncio.run`, which waits for hung threads at the end. Which of
  them the server says it avoids is `ServerIsNotHeld`. `abandoned` exempts the rows that a
  dying AA loader leaves (section 7).

The type invariants of `JobManager`, `Loader` and `Upload` are proved and not run.

Why the bounds are enough to be of use. Two archives are the least in which a
limit leaves something behind; two contents tell stale work from current work.
Two chunks tell a lost answer from a lost chunk and allow a hole; a second flow
meets what the first has left. In `job_page` a second job meets the messages and the stop event of the first, and
a buffer of one message is exceeded by a job with one line and its end. Three
sessions are needed for a handle to change hands and a merge to follow, three
accounts for a redirect chain, three tags for a cycle that no single edit shows.
Two crashes let a repair die as well. Two devices let one log in while the other
changes a factor. Two processes, two rows and a batch of two make a full batch, a
short one and an overlap; with one slot a single hang is the whole executor. What is proved in section 6 holds without bounds.

`StatusIsTrue`, `QueuesAreExact`, `RunsEnd` and `LifecycleSpec` are claimed for one
worker only. With two, `DoneMatchesParse` and `FailedAreSkipped` do not hold:
workers process snapshots by id, so a session may be marked by one while the
other replaces what it stands for. `WorkIsOnRecord` and `NoSilentRestart` survive
any number of workers: `incorporation` has two, the proof any. What only the server
does, interrupts and its own death, is in `incorporation`; in `loader` the one worker is
on the command line, where it may die between any two statements (`CommandLineSpec`, which
is `Spec` without the server's worker). It takes the stages one by one; a full run, which
is `register` and then the parts that `rerun` goes through as well, is what both workers of
`incorporation` do.

`entity_store` has one worker, the server's job thread; section 7 says what a second
one can do. `EvidenceOnlyGrows` leaves out a tag that was added to an account while
the transaction that merges this account was open (`Settled`), see section 7 again.

`SafeToRemove`, `OffsetIsBacked` and `DoneIsArchived` are claimed while no flow
was left running (`Undisturbed`). Crashes, lost answers in the transfer and
failed clean-ups are not exempt.

Deadlock is checked where the system always has a step, a crash at least. It is
not checked in `Upload`, `EntityStore`, `Extraction`, `Access`, `Library` and
`Capture`, where the bounded work may be over.

## 5. Fairness

A started job thread, a started worker, a request that has passed its check and
the steps of a handler are weakly fair: they are threads of a running process
and wait for nothing that another actor must do. Beyond these:

* `Upload`: the browser goes on with a flow it has begun, and its retries end by
  the configured number of attempts, so no fairness of the network is needed;
* `JobPage`: the job's thread goes on, queues are filled after the lock is
  released, the page receives what is on its way. `RunIsFollowed` is stated
  for as long as the page stays connected, and once its requests are
  answered, see section 7;
* `Access`: the user of each device takes the step in front of them, and time
  passes from one code window to the next;
* `Capture`: a program that has been started goes on, and the operator resumes
  a capture as long as it is unsealed (the archiver tells them to);
* `MediaDerivatives`: the tasks of a pass go on, and the AA loader's second
  transaction follows its first unless it dies (`abandoned`). A read that hangs may
  return or not; no fairness makes it.

Nothing is assumed otherwise of users (start, stop, cancel, reset, delete), of
operators (restart) or of failures: errors may happen at any time and need not. A
crash may come at any moment, so liveness of jobs is stated up to "the server is
down"; a failed `finish()` leaves the lock taken for good, so it is stated up to
`Wedged` as well, which section 7 lists and which is no convenience. `incorporation`
checks `JobManager`'s whole specification as a property: its assumption that a
job's body ends follows there from the pipeline's own steps.

## 6. Proofs

All theorems are for every value of the constants that the `ASSUME`s of the modules
admit. These type the constants, with seven exceptions, each justified by the code:
`Access` has an unused secret left, since secrets are random; `Capture` has a first
program, which makes the directory; a merge of `Library` is of two different
accounts (`account_merge.py:115-116`), and its ties weigh something unless they are
suggestions (`TiesAssumption`, the default weights of `community.py:14-20`); `None` is not an id; the tables an older release
left to `EntityStore` are in order but for the accounts it duplicated
(`LegacyAssumption`), which is what V038 was written to repair; in `Extraction` a
segment that comes without a byte range is the whole file, as over HTTP
(`SegmentsAssumption`). The properties are
seldom inductive one by one; each module strengthens them to an invariant that is,
and most of those were put to TLC before they were proved.

**`JobPage_proofs`**, for any jobs, pages, lines and buffer size. Of the manager
alone: `TypeCorrect`, `LockRowsAndThreadsAgree` (`OneJobIsClaimed`),
`NoStaleCancel` (`CancelledWasHit`), `VerdictsAreFinal`, `ImplementsLedger`
(`LedgerSpec`). Mutual exclusion needs that a live thread is the claimed one and
that a row still open under a live thread is that thread's; the finality of
verdicts needs that a thread which has not reached `finish()` has an open row;
that a job is cancelled only by a stop that hit it needs that the event is set
only with a record of the stop for the current job, and that a thread which saw
the event carries such a record. `IInv` is the conjunction; the refinement follows
from it and a step-by-step mapping.

With pages: `PageManagerStep` shows that every step of `PageNext` is one of the
manager or leaves it alone, so that all this carries over
(`PagesLeaveManagerAlone`). `PagesAreToldTheVerdict` (`VerdictsAgree`) needs
`HubInv`, that at most one message is being handed out, by the thread of a job,
and to open connections, and `VerdictInv`: what was sent is of one job, the live
one if there is one, and a thread past its body has said its end last.
`PagesGetEveryMessage` (`ConnectionsAreExact`) needs `StreamInv`: the buffer is
exactly the tail of what was sent, a page's received messages are of one job, and
a stream carries a tail at least as long as the buffer's behind nothing but older
jobs' messages. The step that is hard is a subscription between the two halves of a
broadcast: the message is in the replayed buffer and the new queue is not among
those it is handed to.

**`Incorporation_proofs`** first treats `Loader`, for any archives, limits, filters,
resets and uploads. With any number of workers: `TypeCorrect`, `StatusIsBacked` (`WorkIsOnRecord`),
`RestartsAreAskedFor` (`NoSilentRestart`). `WorkIsOnRecord` becomes inductive when
the workers' locals are backed as well: sessions in an extraction snapshot and in
hand have structures, although their status may have changed since, and a worker
about to mark a session has incorporated it. This is why structures are never set
back to NULL by a requeue or a reset, and the proof shows that it is needed.

With one worker (`OneWorker`; section 4 says what two do to each other):

* `StatusCanBeBelieved` (`StatusIsTrue`). `SingleInv` says that what the worker has
  read is still what is stored, that no snapshot holds the session in hand, and
  that what it has taken is still open, all of which another worker would break;
* `QueuesAreAlwaysExact` (`QueuesAreExact`), whichever statement fails, the failure
  handler's included. `DrainInv` says part by part what an unlimited run has left behind
  it; that an archive whose failure is not on record keeps its place needs that what the
  worker has in hand still has the status under which it was taken (`HandIsTaken`);
* `ImplementsLifecycle` (`LifecycleSpec`), resets and uploads included. The one move that
  the topology forbids is named in the property (`LateVerdict`): a session that is reset
  while it is in hand goes from `pending` to `done` (section 7). Uploads need no such
  exception, because their reset matches no row (`NoUploadMatches`).

Then the server: every step of its composition is a step or a stutter of
`JobManager` (`ImplementsJobManager`, the safety part of `JobManagerSpec`) and of
`Loader` with any workers and uploads beside it (`ImplementsLoader`). So the
invariants of both are inherited, the manager's by instantiating its proofs;
`SameManager` says that the two instances have the same actions. `CompositionInv`
adds that the pipeline has work only inside the body of the claimed job, which gives
`PipelineIsAlwaysClaimed` (`PipelineIsClaimed`), since no step beside the server
moves its pipeline (`ElsewhereLeavesServer`). `ServerKeepsPromises` collects what
holds of the whole: lock, rows and threads agree, a cancelled job was hit, a status
has its structures and entities; `ServerCanBeBelieved` what holds with no loader
beside it: the status column is true, a run drains.

**`Upload_proofs`**, for any flows, chunks and retries: `UploadTypes`,
`OffsetIsAlwaysBacked`, `AlwaysSafeToRemove`, `DoneIsAlwaysArchived`. `UploadInv`
adds that flows come one after the other, that a handler serves the flow that is
on the page or one that was left, and, as long as none was left, `Owns`: what lies
in staging belongs to the flow on the page, as far as its step has got. Several attempts
to unpack in one verification, partial ones among them, do not disturb it: an attempt
after one that broke off either completes what the first one left, or leaves the flow in
`broken`.

**`Library_proofs`**, for any vocabulary, files, accounts, posts, media and links:

* `AcyclicAlways` (`HierarchyIsAcyclic`): an edge from child to parent closes a path
  only if the parent was a descendant, which both ways to add an edge exclude;
* `ViewsAgreeAlways` (`ViewsAgree`), where `Ownership` adds that the owner column of
  media is that of their posts and that media with a post are stored;
* `ImportsAreExact` (`ImportIsExact`). `VocabInv` says of an import in progress that
  its turns are taken in order, that a row behind it has a tag of its name and kind,
  and a link behind it has its edge or was refused for a cycle (`LinksAreMade`).
  Between the turns only merges and sessions run, since requests run to completion
  on the event loop; what one import leaves when it breaks off, and what is edited
  before the next, is the arbitrary vocabulary the next one starts from. Links go
  to the last row of a name (`LastOf`), which exists in every non-empty set of rows
  (`HasLast`, by well-founded induction);
* `NothingIsEverLost` (`NothingGetsLost`). A merge moves marks, posts, media and
  links' reach from one account to another; `LibraryInv` says that owners are live
  accounts, that parts are of stored media and that links name what is stored, and
  from it each result of a search and each row a link shows is followed through the
  merge;
* `TiesStayWhole` (`TiesAreWhole`). A merge moves the ends of a tie with the owner of
  what the tie is about (`MergeMovesEnds`), so the kinds of tie between the keeper and
  a third account are afterwards those of both rows (`MergeJoinsKinds`), and the
  strongest of both is the greater of the two (`StrongestOfTwo`). The score is a sum
  over the kernel; with one account in the kernel the recursion behind it is solved by
  hand (`ScoreIs`).

**`Capture_proofs`**, for any bodies, media, frames, runs, crashes and faults.
`BodiesAlwaysSurvive` (`BodiesSurvive`): `CaptureInv` says that as long as there is no
`archive.har` the workspace is whole, that a merge starts only on a whole workspace,
and that the workspace is deleted only behind a replacement that holds the bodies.
`PapersAreAlwaysTrue` (`PapersAreTrue`): `PapersInv` says at each step of each
program what a run without a failure has done so far (`RecordInv`, `SealInv`,
`CoverInv`), and of every manifest, whoever made it and whatever died since, that it
hashes what is there (`ManifestInv`). Only a death tears a manifest (`NothingTears`), so there
is none during a capture, which is the first program (`WholeInv`), and every other
program has whole manifests of what it has protected itself. The promises are due when a program ends, and
follow there from what its last step requires.

**`Media_proofs`** first treats `MediaDerivatives`, for any media, processes, batches and limits:
`ThumbnailsAreThere` (`ThumbnailIsThere`), `HashesAreAlwaysWhole` (`HashesAreWhole`);
`DerivedInv` adds what a task carries: a task past its file has written it, one past
its hash rows has written all of them in one transaction. `PassesKeepTheirPromises`
is the safety part of `PassesDrain`. A stored row never becomes pending again
(`Settled`), so what a pass owes only shrinks; `PassInv` says that a finished task
has paid for its row, that a short batch holds everything still owed, and that a
limited pass has room for its whole batch. Hangs may take every slot.

Then `Extraction`, for any HARs, settings, lists and numbers of extractions:

* `DeletionsAlwaysStick` (`DeletionsStick`). `LogInv` says that the saved log has every
  linked file and every asset on record as deleted, that the log of a running extraction
  has both for all it has come to, and that nothing is on record without a log. It
  needs that an entry of the log never loses a name (`UpsertKeeps`), and that the log
  is written as a whole at the end, so that a death leaves either the old one or none.
* `ExtractionIsAlwaysExact` (`ExtractionIsExact`), for lists of any length. Clustering
  is a fold over the groups of equal identifiers, in an order the fold chooses; that
  the recursion behind the fold has a solution is shown first (`UnionExists`), then by
  induction on the number of groups that the clusters partition the entries, hold
  every group united so far and join nothing that no chain joins (`UniteKeeps`). For the assembly, an order by first
  byte exists (`OrderExists`), and after each segment what has been reached is
  `Gapless`: it has no hole, and no segment that starts within it ends beyond it. At
  the end nothing else can be had, because a later segment in the order starts later.

**`Access_proofs`**, for any devices, failures, slips and operations of the
administrator: `AccessHolds`, `CodesAreAlwaysSound` (`CodesAreSound`),
`SessionsAreAlwaysCurrent` (`SessionsAreCurrent`), `LocksAreEarned` (`LockIsEarned`,
the safety part of `PersonGetsIn`). Any statement may be the last of its request, so
every handler is followed commit by commit: each statement keeps the tables `Sound`,
the answer is a `GoodReply`, and `RequestIsSound` covers the request that is
answered, that fails and whose answer is lost. `AccessInv` adds that no row counts
more wrong passwords than were entered, that a user's secret is one the
authenticator knows, and that the holder of a session is behind the login.

**`EntityStore_proofs`**, for any contents, sessions, legacy tables and tags, with one
worker (`Workers = {1}`, the server's job thread; two really break it, section 7):
`ReferencesStaySound` (`ReferencesAreSound`), `CanonicalRowsStayRight`
(`CanonicalRowsAreRight`), `EvidenceIsKept` (`EvidenceOnlyGrows`).

* The tables. `Sound` collects what is true of a view between any two statements:
  the types, inert tombstones, one identity per row, canonical rows that say what
  their records say unless a merge touched them, counts that are right unless the
  recount at the end of the transaction is still to come for them (`Due`). Each of
  the four statements keeps it: `InsertIsSound`, `StoreIsSound`, `MergeKeeps`,
  `RecountKeeps`. Inertness is needed for the rest: a lookup finds only live rows
  (`FoundIsLive`) because a tombstone has lost all that a lookup goes by, which is
  also why no write can bring one back.
* The synthesis is a fold over a row's records, so that its result is an induction
  over data. `SynthesisOfRecords` does it by hand, on the number of records behind
  the first (`SetInduction`, from the least element of a set of numbers): in whatever
  order they were read, the value is one of those recorded, for media the greatest, and
  the identity that of the records if they have one in common. What a reprocessed or a first observation does
  to a row follows from it.
* The transaction. Its statements run again at `Commit`, on tables to which tags may
  have been added meanwhile. `Replayed` says that the list, replayed on tables that
  have only gained tags since the transaction began, gives the view's rows and
  records, and at least its tags except on accounts it merged. `TxOK` adds that the
  view is `Sound`, and of the work in hand that what was found for an existing row
  still fits it (`WorkOK`).
* `Grows` relates two tables of which the second shows at least what the first does
  under every account's number. It is transitive; every statement has it
  (`MergeGrows` is the long one: all that was under the merged number is under its
  keeper's), hence so has a replayed list, and an annotation.

`StoreInv` is `Sound` for the committed tables and `TxOK` for the worker.

Checked by TLC only, and why:

* liveness, which needs fairness and ENABLED: `RunsEnd`, `EveryJobEnds` and the
  fairness of `JobManagerSpec`, `RunIsFollowed`, `FlowsEnd`, `EventuallySealed`,
  `LoginSucceeds` in `PersonGetsIn`, `PassEnds` in `PassesDrain`;
* `EntitiesAreWhole` and `OneQualityIsStored` of `Extraction`: what comes out of a HAR
  depends on what it holds. They are true of HARs as the sites make them (a file is
  under one asset id, a handle belongs to one account at a time) and not of every
  sequence of entries, so they are checked on HARs that are written out.


## 7. Where the code departs from what it says

Two departures are runs, each with a counterexample for what a comment or a
docstring says:

* `loader_overwrite`: the commit's reset of a replaced archive compares the bare
  directory name with the prefixed `external_id` and matches no row
  (`upload_service.py:374`).
* `extraction_qualities`: "keep track of the largest video file", "delete the smaller
  file" (`extract_videos.py:704-709`). The name is reassigned before the deletion, so the
  larger file is deleted; a third track then raises and ends the extraction.

Six more are stated in the modules in the same way. In place of the properties of the
cfg in brackets, TLC finds each violated:

* `FailuresAreFinal` (`Loader.cfg`): "so this archive is skipped on future runs"
  (`archives_db_loader.py:678` and `:804`). The handler's UPDATE may raise, for one because
  `str(e)` is longer than the 500 characters of its column; the run ends, and every later
  one meets the same archive again.
* `ResetIsCarriedOut` (`Incorporation.cfg`): "so the next run reprocesses them"
  (`routes/incorporate.py:102-103`). A reset that passed its check before a job started
  reverts the session that the job has in a snapshot and marks `done` without parsing it.
* `CommitIsWhole` (`Upload.cfg`): "commit is only reached after verify passes - the staging
  copy is complete" (`upload_service.py:360-361`). Any exception of the extraction but a
  `TarError` is swallowed (`:250`), and the existing archive is removed for what was
  unpacked.
* `ReprocessingIsConsistent` (`EntityStore.cfg`): "oldest-first", "consistent with the
  pairwise merge" (`reconcile_entities.py:192-194`, `db_intake.py:406-408`). The sort is by
  a `create_date` that no entity has, so the records keep the order they were read in and
  the first wins, while a first-time merge lets the new session win: reprocessing an
  unchanged session changes canonical values, handles included.
* `ResumedIsWhole` (`Capture.cfg`): "behaviour stays identical to a clean run"
  (`resume_archive.py:7-9`). A manifest torn by a death (`chunk_manifest.py:82`) is not
  written again for media, recording and frames, and is sealed as it is.
* `ServerIsNotHeld` (`MediaDerivatives.cfg`): threads that survive their timeout "would
  hang the pipeline indefinitely", which a loop managed by hand is to prevent
  (`incorporation_service.py:227-231`). It does, at the end of the pass; during the pass
  they have the executor's slots, and images and saves wait for one without a limit.

Others, met while modelling. Some bound what a property claims; where a change of
the model shows one, it is named.

* A database error in `finish()`, or a launch that fails, leaves the lock taken:
  every start is refused until a restart (`Wedged`). A stop accepted for one job
  may cancel the next one (`routes/incorporate.py:95`).
* The page: a `done` that overtakes the answer to `/start` leaves it running, an
  old `done` after a new start shows it idle while a job runs, and a refused start
  never resets `starting`. `done` is broadcast before `finish()` writes the row.
* Cancel during verification deletes staging but does not stop the flow; its
  commit deletes the existing archive and finds nothing to move
  (`upload_service.py:360-363`). Remove `Undisturbed =>` from `SafeToRemove`.
* Two workers incorporating sessions with each other's handles can leave a record
  on a tombstone (`account_merge.py:187` against its own `:16-17`). Take
  `Workers = {1, 2}`, `Contents <- MCRaceContents`, `Legacy <- MCEmpty`.
* A tag that is added while an intake transaction is open is not in the snapshot from
  which the merge moves tags (`account_merge.py:253-278`): if that transaction merges
  the tagged account, the tag stays on the tombstone, where no page looks. Write
  `db` for `Settled` in `EvidenceOnlyGrows`.
* Reassembly "from HAR only" passes `download_full_track` all the same, so `DeletionsStick` leaves
  out full tracks.
* A resumed session killed before its screen recording was encoded is sealed
  without it (`resume_archive.py:174` against `:7-9`). Add `"resume"` to the
  programs of `CaptureIsCovered`. A log saved but not protected again is
  "repaired" to the older one. The manifest of an unmerged HAR survives it, which
  `SealIsTrue` leaves out.
* MySQL evaluates SET from left to right, so storing a new file never resets
  `thumbnail_status` (`db_intake.py:991`), which only `reconcile_entities.py:121-124`
  does; `phash_status` is never reset. A CDN row left pending by a dying AA loader
  is selected for ever (`abandoned` in `PassesDrain`). Of two overlapping passes
  the slower one may write `error` over `generated`.
* A visitor with the old address of a merged account is refused (`account.py:26`),
  whereas `SharedStaysShared` holds for the keeper's address. An annotation import
  around a merge tags the tombstone.
* `AdminUsersPage.tsx:228` says that a new user must change the password at first
  login; setting the initial password clears `force_pwd_reset`. `Login.tsx` offers
  backup codes, which `login.py` does not know.

## 8. What is not modelled

PROJECT.json names every component with its status. Left out for good: read-only
presentation, platform-specific parsing of payloads, deployment scripts, one-off
imports and transfers, which have no state that several actors share; the schema
migrations except V038; OpenTimestamps and image search, which depend on external
programs. `utils/db.py` has no module: every module takes from it that a batch is
atomic and that any statement may fail, the full connection pool included.

Left out within modelled parts:

* upload: the individual-file mode, which no page uses, and uploads over different
  names, which share nothing but the page;
* loader: `add_attachments`, `add_metadata` and `summarize`. The loops of the first
  two take one row with LIMIT 1 and repeat for ever on a directory or metadata
  they cannot handle (`archives_db_loader.py:849`); registration fails as a batch
  when one name exceeds `varchar(60)` (`create_db.sql:87`);
* migration runner: applying and recording a migration are two steps
  (`migrate.py:240`), a death between them repeats it;
* page: the archive list, filters, the preview of the reset;
* intake: publication dates copied to media, the attribution report;
* extractors: WACZ metadata, segments whose URL disagrees with their length, the
  structures of HTML pages beyond which of them are kept;
* derivatives: thumbnails of media parts;
* access: rate limiter, event log, expiry after 30 days, backup codes, file tokens;
* library: full-text and field filters, sorting, paging, free-text notes,
  dismissals in the community view, link passwords;
* archiver: dialogs, browser, metadata fields without bearing on hashes and runs,
  the staging of deletions.

To check: `tlc -config <Name>.cfg <Module>.tla`, with the module that PROJECT.json
names for the run (`MCEntityStore`, `MCExtraction`, `MCLibrary` for those three);
to prove: `tlapm <Module>_proofs.tla`.
