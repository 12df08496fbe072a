------------------------------ MODULE JobLedger ------------------------------
(***************************************************************************)
(* What the incorporation_job table promises to a reader of the history    *)
(* page, whatever the server that writes it goes through: jobs are opened  *)
(* one at a time, in id order, and every job that was opened is closed at  *)
(* most once, with one verdict.  JobManager is shown to implement it.      *)
(***************************************************************************)
EXTENDS Naturals

CONSTANT MaxJobs      \* bound on the auto-increment ids handed out

VARIABLE jobs         \* job id -> what its row says

JobIds == 1 .. MaxJobs

\* The status enum of the row, with 'failed' split by the text in `error`:
\* "cancelled" is 'Cancelled by user', "restarted" is the startup sweep's text.
Verdicts == {"completed", "cancelled", "failed", "restarted"}
RowStates == {"none", "running"} \cup Verdicts

Init == jobs = [j \in JobIds |-> "none"]

\* The next auto-increment id.
IsNextId(j) ==
    /\ jobs[j] = "none"
    /\ \A i \in JobIds : i < j => jobs[i] # "none"

Open(j) ==
    /\ \A i \in JobIds : jobs[i] # "running"
    /\ IsNextId(j)
    /\ jobs' = [jobs EXCEPT ![j] = "running"]

Close(j, verdict) ==
    /\ jobs[j] = "running"
    /\ jobs' = [jobs EXCEPT ![j] = verdict]

Next ==
    \E j \in JobIds :
        \/ Open(j)
        \/ \E verdict \in Verdicts : Close(j, verdict)

Spec == Init /\ [][Next]_jobs

=============================================================================
