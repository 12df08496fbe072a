---------------------------- MODULE Incorporation ----------------------------
(***************************************************************************)
(* The incorporation service as a whole: the job manager of JobManager and *)
(* the pipeline of Loader in one server process.  The body of a job thread *)
(* is the run of the loader's Server worker; the stop event is what the    *)
(* loader's cancellation checks look at; the status-reset route looks at   *)
(* the manager's lock and then updates the loader's table.  Command-line   *)
(* loaders and upload commits work on the same table and ignore the        *)
(* manager.                                                                *)
(***************************************************************************)
EXTENDS Loader

CONSTANT MaxJobs        \* see JobManager

ASSUME IncorporationAssumption == MaxJobs \in Nat /\ Server \in Workers

VARIABLES
    jobs, up, running, current, cancel, thread, stopSeen, stopLog,  \* see JobManager
    resetAsked    \* the /reset-status request between its check and its UPDATE

JM == INSTANCE JobManager

jobVars == <<jobs, up, running, current, cancel, thread, stopSeen, stopLog>>
serverVars == <<jobVars, loaderVars, resetAsked>>

NoReset == [target |-> "none", range |-> {}]
Resets == [target : {"pending", "parsed"}, range : ResetRanges]

ServerInit == JM!Init /\ Init /\ resetAsked = NoReset

-----------------------------------------------------------------------------
(* The job thread                                                          *)

\* The modes of the /start route.
ServerScopes == {s \in Scopes : s.stage \in {"full", "rerun"}}

Start(j) == JM!TryStart(j) /\ UNCHANGED <<loaderVars, resetAsked>>

Launch(j) ==
    /\ JM!LaunchThread(j)
    /\ \E s \in ServerScopes : StartRun(Server, s)
    /\ UNCHANGED resetAsked

LaunchFails(j) == JM!LaunchFails(j) /\ UNCHANGED <<loaderVars, resetAsked>>

\* cancel_check is manager.is_cancel_requested.
Work ==
    /\ \/ ~cancel /\ CheckedStep(Server)
       \/ FreeStep(Server)
       \/ cancel /\ Interrupt(Server)
    /\ UNCHANGED <<jobVars, resetAsked>>

End(j) ==
    /\ pc[Server] \in Ends
    /\ JM!EndBody(j, pc[Server])
    /\ FinishRun(Server)
    /\ UNCHANGED resetAsked

Finish(j) ==
    /\ JM!CloseRow(j) \/ JM!CloseRowFails(j) \/ JM!Release(j)
    /\ UNCHANGED <<loaderVars, resetAsked>>

JobStep(j) == Launch(j) \/ LaunchFails(j) \/ End(j) \/ Finish(j)

-----------------------------------------------------------------------------
(* The other requests, the process, and the world outside it               *)

Stop ==
    /\ JM!StopCheck \/ JM!RequestCancel
    /\ UNCHANGED <<loaderVars, resetAsked>>

\* The /reset-status route refuses while a job runs ...
ResetCheck ==
    /\ up
    /\ ~running
    /\ resetAsked = NoReset
    /\ resetAsked' \in Resets
    /\ UNCHANGED <<jobVars, loaderVars>>

\* ... and then reverts the sessions.
ResetApply ==
    /\ resetAsked # NoReset
    /\ ResetStatus(resetAsked.target, resetAsked.range)
    /\ resetAsked' = NoReset
    /\ UNCHANGED jobVars

\* Only memory goes; archive_session and incorporation_job stay as they are.
Crash ==
    /\ JM!Crash
    /\ ServerDies
    /\ resetAsked' = NoReset

Restart == JM!Restart /\ UNCHANGED <<loaderVars, resetAsked>>

\* Command-line loaders, upload commits and the archiver go on beside it.
Outside == Elsewhere(up) /\ UNCHANGED <<jobVars, resetAsked>>

ServerNext ==
    \/ \E j \in JM!JobIds : Start(j) \/ JobStep(j)
    \/ Work
    \/ Stop
    \/ ResetCheck \/ ResetApply
    \/ Crash \/ Restart
    \/ Outside

\* What the operating system schedules: the job thread, and requests under way.
Fairness ==
    /\ \A j \in JM!JobIds : WF_serverVars(JobStep(j))
    /\ WF_serverVars(Work)
    /\ WF_serverVars(JM!RequestCancel /\ UNCHANGED <<loaderVars, resetAsked>>)
    /\ WF_serverVars(ResetApply)

ServerSpec == ServerInit /\ [][ServerNext]_serverVars /\ Fairness

-----------------------------------------------------------------------------
(* Properties                                                              *)

\* The server's pipeline works on archive_session only inside the body of the
\* job that holds the lock, also when jobs are started, stopped and crashed.
PipelineIsClaimed ==
    pc[Server] # "idle" => up /\ running /\ current # 0 /\ thread[current] = "body"

\* The composition keeps every promise of JobManager, the fairness that module
\* assumes of a job's body included: a pipeline run comes to an end.
JobManagerSpec == JM!Spec

\* "revert a session or range of sessions so the next run reprocesses them": no
\* session is marked done while the parse that a reset asked for is outstanding.
\* The code breaks it: README, section 7.
ResetIsCarriedOut ==
    [][\A a \in owed : status'[a] = "done" => status[a] = "done"]_serverVars

\* Every opened job is closed and every claimed lock is given back, whatever the
\* pipeline meets, unless the server is down or wedged.
EveryJobEnds == JM!JobsClose /\ JM!LockIsReleased

=============================================================================
