----------------------------- MODULE JobManager ------------------------------
(***************************************************************************)
(* The IncorporationManager singleton of the browsing-platform server: the *)
(* rows of incorporation_job, the in-memory lock-protected fields, the     *)
(* background thread of each job, the two-step stop request and the        *)
(* server's crash and startup sweep.  What a job does between its start    *)
(* and its end is left to Incorporation, which composes this module with   *)
(* the loader.                                                             *)
(***************************************************************************)
EXTENDS Naturals

CONSTANT MaxJobs      \* bound on the incorporation_job ids handed out

ASSUME MaxJobsAssumption == MaxJobs \in Nat

VARIABLES
    jobs,       \* incorporation_job: id -> status (and error) of the row
    up,         \* the server process is serving requests
    running,    \* IncorporationManager._running
    current,    \* IncorporationManager._current_job_id; 0 is None
    cancel,     \* IncorporationManager._cancel_event is set
    thread,     \* job id -> where its _run_incorporation thread is
    stopSeen,   \* job that ran when the pending /stop passed is_running(); 0: none pending
    stopLog     \* history: the jobs current at a request_cancel(), 0 if there was none

jobVars == <<jobs, up, running, current, cancel, thread, stopSeen, stopLog>>

JobIds == 1 .. MaxJobs
JobRef == 0 .. MaxJobs

\* How a job body can end; the last two are both stored as status 'failed'.
Outcomes == {"completed", "cancelled", "failed"}
RowStates == {"none", "running", "restarted"} \cup Outcomes

\* "queued": handed to BackgroundTasks; an outcome: inside finish(), before
\* its UPDATE; "releasing": inside finish(), between the UPDATE and the lock.
ThreadStates == {"none", "queued", "body", "releasing"} \cup Outcomes

TypeOK ==
    /\ jobs \in [JobIds -> RowStates]
    /\ up \in BOOLEAN
    /\ running \in BOOLEAN
    /\ current \in JobRef
    /\ cancel \in BOOLEAN
    /\ thread \in [JobIds -> ThreadStates]
    /\ stopSeen \in JobRef
    /\ stopLog \in SUBSET JobRef

Init ==
    /\ jobs = [j \in JobIds |-> "none"]
    /\ up = TRUE
    /\ running = FALSE
    /\ current = 0
    /\ cancel = FALSE
    /\ thread = [j \in JobIds |-> "none"]
    /\ stopSeen = 0
    /\ stopLog = {}

-----------------------------------------------------------------------------
(* Starting a job: the /start route                                        *)

IsNextId(j) ==
    /\ jobs[j] = "none"
    /\ \A i \in JobIds : i < j => jobs[i] # "none"

\* Mutant: the _running test is forgotten.
TryStart_Unchecked(j) ==
    /\ up
    /\ IsNextId(j)
    /\ jobs' = [jobs EXCEPT ![j] = "running"]
    /\ current' = j
    /\ running' = TRUE
    /\ cancel' = FALSE
    /\ thread' = [thread EXCEPT ![j] = "queued"]
    /\ UNCHANGED <<up, stopSeen, stopLog>>

\* Mutant: the event is not cleared.
TryStart_KeepsEvent(j) ==
    /\ up
    /\ ~running
    /\ IsNextId(j)
    /\ jobs' = [jobs EXCEPT ![j] = "running"]
    /\ current' = j
    /\ running' = TRUE
    /\ thread' = [thread EXCEPT ![j] = "queued"]
    /\ UNCHANGED <<up, cancel, stopSeen, stopLog>>

\* try_start(), all of it under the manager's lock.  A refused call (409) or a
\* failed INSERT changes nothing.
TryStart(j) ==
    /\ up
    /\ ~running
    /\ IsNextId(j)
    /\ jobs' = [jobs EXCEPT ![j] = "running"]
    /\ current' = j
    /\ running' = TRUE
    /\ cancel' = FALSE
    /\ thread' = [thread EXCEPT ![j] = "queued"]
    /\ UNCHANGED <<up, stopSeen, stopLog>>

\* The background task runs after the response is sent and starts the thread.
LaunchThread(j) ==
    /\ thread[j] = "queued"
    /\ thread' = [thread EXCEPT ![j] = "body"]
    /\ UNCHANGED <<jobs, up, running, current, cancel, stopSeen, stopLog>>

\* Thread.start(), or the scope and directory resolution before the try, may
\* raise: nobody calls finish() and _running stays True.
LaunchFails(j) ==
    /\ thread[j] = "queued"
    /\ thread' = [thread EXCEPT ![j] = "none"]
    /\ UNCHANGED <<jobs, up, running, current, cancel, stopSeen, stopLog>>

-----------------------------------------------------------------------------
(* Ending a job: the except clauses and the finally of _run_incorporation  *)

\* InterruptedError is raised only by a check that found the event set.
EndBody(j, outcome) ==
    /\ thread[j] = "body"
    /\ outcome = "cancelled" => cancel
    /\ thread' = [thread EXCEPT ![j] = outcome]
    /\ UNCHANGED <<jobs, up, running, current, cancel, stopSeen, stopLog>>

\* Mutant: the lock is released together with the row, before finish() returns.
CloseRow_ReleasesEarly(j) ==
    /\ thread[j] \in Outcomes
    /\ jobs' = [jobs EXCEPT ![j] = thread[j]]
    /\ thread' = [thread EXCEPT ![j] = "releasing"]
    /\ running' = FALSE
    /\ current' = 0
    /\ UNCHANGED <<up, cancel, stopSeen, stopLog>>

\* Mutant: the WHERE clause matches no row.
CloseRow_NoMatch(j) ==
    /\ thread[j] \in Outcomes
    /\ thread' = [thread EXCEPT ![j] = "releasing"]
    /\ UNCHANGED <<jobs, up, running, current, cancel, stopSeen, stopLog>>

\* finish(), first the UPDATE of the row ...
CloseRow(j) ==
    /\ thread[j] \in Outcomes
    /\ jobs' = [jobs EXCEPT ![j] = thread[j]]
    /\ thread' = [thread EXCEPT ![j] = "releasing"]
    /\ UNCHANGED <<up, running, current, cancel, stopSeen, stopLog>>

\* ... which may raise DbError: the thread dies and _running stays True.
CloseRowFails(j) ==
    /\ thread[j] \in Outcomes
    /\ thread' = [thread EXCEPT ![j] = "none"]
    /\ UNCHANGED <<jobs, up, running, current, cancel, stopSeen, stopLog>>

\* ... then the release under the lock.
Release(j) ==
    /\ thread[j] = "releasing"
    /\ running' = FALSE
    /\ current' = 0
    /\ thread' = [thread EXCEPT ![j] = "none"]
    /\ UNCHANGED <<jobs, up, cancel, stopSeen, stopLog>>

-----------------------------------------------------------------------------
(* The /stop route: is_running() and request_cancel() are separate calls   *)

StopCheck ==
    /\ up
    /\ running
    /\ stopSeen = 0
    /\ stopSeen' = current
    /\ UNCHANGED <<jobs, up, running, current, cancel, thread, stopLog>>

\* Mutant: a stop gives the lock back at once, not when the thread has ended.
RequestCancel_Releases ==
    /\ stopSeen # 0
    /\ cancel' = TRUE
    /\ running' = FALSE
    /\ current' = 0
    /\ stopSeen' = 0
    /\ stopLog' = stopLog \cup {current}
    /\ UNCHANGED <<jobs, up, thread>>

RequestCancel ==
    /\ stopSeen # 0
    /\ cancel' = TRUE
    /\ stopSeen' = 0
    /\ stopLog' = stopLog \cup {current}
    /\ UNCHANGED <<jobs, up, running, current, thread>>

-----------------------------------------------------------------------------
(* Process failure                                                         *)

\* The process dies: its memory, its daemon threads and its requests are gone.
Crash ==
    /\ up
    /\ up' = FALSE
    /\ running' = FALSE
    /\ current' = 0
    /\ cancel' = FALSE
    /\ thread' = [j \in JobIds |-> "none"]
    /\ stopSeen' = 0
    /\ UNCHANGED <<jobs, stopLog>>

\* lifespan() runs cleanup_stale_jobs() before the first request is served.
Restart ==
    /\ ~up
    /\ up' = TRUE
    /\ jobs' = [j \in JobIds |-> IF jobs[j] = "running" THEN "restarted" ELSE jobs[j]]
    /\ UNCHANGED <<running, current, cancel, thread, stopSeen, stopLog>>

-----------------------------------------------------------------------------

ThreadStep(j) ==
    \/ LaunchThread(j)
    \/ LaunchFails(j)
    \/ \E outcome \in Outcomes : EndBody(j, outcome)
    \/ CloseRow(j)
    \/ CloseRowFails(j)
    \/ Release(j)

Next ==
    \/ \E j \in JobIds : TryStart(j) \/ ThreadStep(j)
    \/ StopCheck
    \/ RequestCancel
    \/ Crash
    \/ Restart

\* A started thread and a request that passed its check keep being scheduled;
\* nothing makes users press buttons or operators restart the server.
Fairness ==
    /\ \A j \in JobIds : WF_jobVars(ThreadStep(j))
    /\ WF_jobVars(RequestCancel)

Spec == Init /\ [][Next]_jobVars /\ Fairness

(* Properties                                                              *)

Live(j) == thread[j] # "none"

\* At most one job thread exists and at most one row says 'running', through
\* starts, stops, failed finishes, crashes and restarts.
OneJobAtATime ==
    \A i, j \in JobIds :
        /\ Live(i) /\ Live(j) => i = j
        /\ jobs[i] = "running" /\ jobs[j] = "running" => i = j

\* While a job thread can still touch archive sessions, is_running() says so:
\* this is what the /reset-status route relies on when it refuses to run.
ThreadIsClaimed ==
    \A j \in JobIds : Live(j) => up /\ running /\ current = j

\* While the server is up a row says 'running' only for the claimed job, so the
\* history page never shows a run that no thread or lock stands for.
RunningRowIsClaimed ==
    \A j \in JobIds : up /\ jobs[j] = "running" => running /\ current = j

\* The lock, the rows and the threads agree: one job at a time, a job thread that
\* can still act is the claimed one, and so is a row that says 'running', through
\* starts, stops, failed launches and finishes, crashes and restarts.
OneJobIsClaimed == OneJobAtATime /\ ThreadIsClaimed /\ RunningRowIsClaimed

\* A job ends 'Cancelled by user' only if some request_cancel() hit that very
\* job: an event left set by an earlier stop never kills a later job.
CancelledWasHit ==
    \A j \in JobIds : jobs[j] = "cancelled" => j \in stopLog

\* A row's verdict is final: neither a late finish() nor the startup sweep
\* rewrites the verdict of a job that has one.
VerdictIsFinal ==
    [][\A j \in JobIds : jobs[j] \notin {"none", "running"} => jobs'[j] = jobs[j]]_jobVars

\* The thread never began, or finish() failed to write the row: the lock is held
\* for a job that has no thread and whose row still says 'running'.
Wedged == running /\ \E j \in JobIds : current = j /\ ~Live(j) /\ jobs[j] = "running"

\* Every opened job is closed, unless the server is down or wedged.
JobsClose ==
    \A j \in JobIds : jobs[j] = "running" ~> (jobs[j] # "running" \/ ~up \/ Wedged)

\* Every claimed lock is given back, unless the server is down or wedged.
LockIsReleased == running ~> (~running \/ Wedged)

\* The table the history page reads behaves as JobLedger says.
Ledger == INSTANCE JobLedger
LedgerSpec == Ledger!Spec

=============================================================================
