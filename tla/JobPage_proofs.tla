--------------------------- MODULE JobPage_proofs ---------------------------
(***************************************************************************)
(* JobManager and JobPage, for every bound on jobs, pages, lines and on    *)
(* the replay buffer.  The manager's safety properties and its refinement  *)
(* of JobLedger follow from one inductive invariant, IInv.  The hub and    *)
(* the pages leave the manager as it is (PageManagerStep), so that part    *)
(* holds with pages connected; to it are added what the hub hands out      *)
(* (HubInv), that what is said agrees with the rows (VerdictInv), and what *)
(* each connection carries (StreamInv).                                    *)
(***************************************************************************)
EXTENDS JobPage, SequenceTheorems, TLAPS

\* A thread that has not yet written its row belongs to a row still 'running'.
UnwrittenRowIsRunning ==
    \A j \in JobIds : thread[j] \in {"queued", "body"} \cup Outcomes => jobs[j] = "running"

WrittenRowIsClosed ==
    \A j \in JobIds : thread[j] = "releasing" => jobs[j] # "running"

OneRunningRow ==
    \A i, j \in JobIds : jobs[i] = "running" /\ jobs[j] = "running" => i = j

\* Why CancelledWasHit holds: an event found set while a job holds the lock was
\* set after that job's try_start() cleared it.
WasHit(j) == j \in stopLog
EventIsFresh == running /\ cancel => WasHit(current)
CancelledThreadWasHit == \A j \in JobIds : thread[j] = "cancelled" => WasHit(j)

IInv ==
    /\ TypeOK
    /\ ThreadIsClaimed
    /\ RunningRowIsClaimed
    /\ OneRunningRow
    /\ UnwrittenRowIsRunning
    /\ WrittenRowIsClosed
    /\ EventIsFresh
    /\ CancelledThreadWasHit
    /\ CancelledWasHit

-----------------------------------------------------------------------------

\* The only arithmetic the proofs need.
LEMMA Ids == 0 \in JobRef /\ JobIds \subseteq JobRef /\ 0 \notin JobIds
  BY MaxJobsAssumption DEF JobRef, JobIds

LEMMA InitEstablishes == Init => IInv
  BY Ids
     DEF Init, IInv, TypeOK, RowStates, ThreadStates, Outcomes,
         ThreadIsClaimed, Live, RunningRowIsClaimed, OneRunningRow,
         UnwrittenRowIsRunning, WrittenRowIsClosed, EventIsFresh,
         CancelledThreadWasHit, CancelledWasHit

\* The invariant without the event's provenance is preserved by each action.
LockInv ==
    /\ TypeOK
    /\ ThreadIsClaimed
    /\ RunningRowIsClaimed
    /\ OneRunningRow
    /\ UnwrittenRowIsRunning
    /\ WrittenRowIsClosed

LEMMA LockStep == LockInv /\ [Next]_jobVars => LockInv'
<1> SUFFICES ASSUME LockInv, [Next]_jobVars
             PROVE  LockInv'
  OBVIOUS
<1> USE Ids
        DEF LockInv, TypeOK, RowStates, ThreadStates, Outcomes,
            ThreadIsClaimed, Live, RunningRowIsClaimed, OneRunningRow,
            UnwrittenRowIsRunning, WrittenRowIsClosed
<1>1. ASSUME NEW j \in JobIds, TryStart(j)
      PROVE  LockInv'
  BY <1>1 DEF TryStart, IsNextId
<1>2. ASSUME NEW j \in JobIds, LaunchThread(j)
      PROVE  LockInv'
  BY <1>2 DEF LaunchThread
<1>3. ASSUME NEW j \in JobIds, NEW outcome \in Outcomes, EndBody(j, outcome)
      PROVE  LockInv'
  BY <1>3 DEF EndBody
<1>4. ASSUME NEW j \in JobIds, CloseRow(j)
      PROVE  LockInv'
  BY <1>4 DEF CloseRow
<1>5. ASSUME NEW j \in JobIds, CloseRowFails(j) \/ LaunchFails(j)
      PROVE  LockInv'
  BY <1>5 DEF CloseRowFails, LaunchFails
<1>6. ASSUME NEW j \in JobIds, Release(j)
      PROVE  LockInv'
  BY <1>6 DEF Release
<1>7. CASE StopCheck
  BY <1>7 DEF StopCheck
<1>8. CASE RequestCancel
  BY <1>8 DEF RequestCancel
<1>9. CASE Crash
  BY <1>9 DEF Crash
<1>10. CASE Restart
  BY <1>10 DEF Restart
<1>11. CASE UNCHANGED jobVars
  BY <1>11 DEF jobVars
<1>12. QED
  BY <1>1, <1>2, <1>3, <1>4, <1>5, <1>6, <1>7, <1>8, <1>9, <1>10, <1>11
     DEF Next, ThreadStep

EventInv == EventIsFresh /\ CancelledThreadWasHit /\ CancelledWasHit

LEMMA EventStep == LockInv /\ EventInv /\ [Next]_jobVars => EventInv'
<1> SUFFICES ASSUME LockInv, EventInv, [Next]_jobVars
             PROVE  EventInv'
  OBVIOUS
<1> USE Ids
        DEF EventInv, EventIsFresh, CancelledThreadWasHit, CancelledWasHit, WasHit,
            LockInv, TypeOK, ThreadIsClaimed, Live, RowStates, ThreadStates, Outcomes
<1>1. ASSUME NEW j \in JobIds, TryStart(j)
      PROVE  EventInv'
  BY <1>1 DEF TryStart, IsNextId
<1>2. ASSUME NEW j \in JobIds, LaunchThread(j)
      PROVE  EventInv'
  BY <1>2 DEF LaunchThread
<1>3. ASSUME NEW j \in JobIds, NEW outcome \in Outcomes, EndBody(j, outcome)
      PROVE  EventInv'
  <2>1. running /\ current = j
    BY <1>3 DEF EndBody
  <2>2. QED
    BY <1>3, <2>1 DEF EndBody
<1>4. ASSUME NEW j \in JobIds, CloseRow(j)
      PROVE  EventInv'
  BY <1>4 DEF CloseRow
<1>5. ASSUME NEW j \in JobIds, CloseRowFails(j) \/ LaunchFails(j)
      PROVE  EventInv'
  BY <1>5 DEF CloseRowFails, LaunchFails
<1>6. ASSUME NEW j \in JobIds, Release(j)
      PROVE  EventInv'
  BY <1>6 DEF Release
<1>7. CASE StopCheck
  BY <1>7 DEF StopCheck
<1>8. CASE RequestCancel
  BY <1>8 DEF RequestCancel
<1>9. CASE Crash
  BY <1>9 DEF Crash
<1>10. CASE Restart
  BY <1>10 DEF Restart
<1>11. CASE UNCHANGED jobVars
  BY <1>11 DEF jobVars
<1>12. QED
  BY <1>1, <1>2, <1>3, <1>4, <1>5, <1>6, <1>7, <1>8, <1>9, <1>10, <1>11
     DEF Next, ThreadStep

LEMMA IInvHolds == Spec => []IInv
<1>1. Init => LockInv /\ EventInv
  BY InitEstablishes DEF IInv, LockInv, EventInv
<1>2. LockInv /\ EventInv /\ [Next]_jobVars => (LockInv /\ EventInv)'
  BY LockStep, EventStep
<1>3. LockInv /\ EventInv => IInv
  BY DEF IInv, LockInv, EventInv
<1>4. QED
  BY <1>1, <1>2, <1>3, PTL DEF Spec

-----------------------------------------------------------------------------

\* Every variable keeps its type.
THEOREM TypeCorrect == Spec => []TypeOK
<1>1. IInv => TypeOK
  BY DEF IInv
<1>2. QED
  BY <1>1, IInvHolds, PTL

\* Never two job threads or two 'running' rows; a live job thread is always visible
\* to is_running(), and while the server is up a 'running' row is the claimed job's.
THEOREM LockRowsAndThreadsAgree == Spec => []OneJobIsClaimed
<1>1. IInv => OneJobAtATime
  BY DEF IInv, OneJobAtATime, ThreadIsClaimed, OneRunningRow
<1>2. IInv => OneJobIsClaimed
  BY <1>1 DEF IInv, OneJobIsClaimed
<1>3. QED
  BY <1>2, IInvHolds, PTL

\* No job is cancelled by an event set before it started.
THEOREM NoStaleCancel == Spec => []CancelledWasHit
<1>1. IInv => CancelledWasHit
  BY DEF IInv
<1>2. QED
  BY <1>1, IInvHolds, PTL

-----------------------------------------------------------------------------
(* Refinement                                                              *)

\* Each step of the manager opens one job, closes one job, or leaves the
\* table alone.
LEMMA LedgerStep == LockInv /\ [Next]_jobVars => [Ledger!Next]_jobs
<1> SUFFICES ASSUME LockInv, [Next]_jobVars
             PROVE  [Ledger!Next]_jobs
  OBVIOUS
<1> USE MaxJobsAssumption DEF LockInv, TypeOK, JobIds, Ledger!JobIds
<1>1. ASSUME NEW j \in JobIds, TryStart(j)
      PROVE  Ledger!Open(j)
  BY <1>1 DEF TryStart, IsNextId, RunningRowIsClaimed, Ledger!Open, Ledger!IsNextId
<1>2. ASSUME NEW j \in JobIds, CloseRow(j)
      PROVE  \E verdict \in Ledger!Verdicts : Ledger!Close(j, verdict)
  BY <1>2 DEF CloseRow, UnwrittenRowIsRunning, Outcomes, Ledger!Close, Ledger!Verdicts
<1>3. CASE Restart
  <2>1. CASE \E i \in JobIds : jobs[i] = "running"
    <3>1. PICK i \in JobIds : jobs[i] = "running"
      BY <2>1
    <3>2. jobs' = [jobs EXCEPT ![i] = "restarted"]
      BY <1>3, <3>1 DEF Restart, OneRunningRow
    <3>3. QED
      BY <3>1, <3>2 DEF Ledger!Next, Ledger!Close, Ledger!Verdicts
  <2>2. CASE \A i \in JobIds : jobs[i] # "running"
    BY <1>3, <2>2 DEF Restart
  <2>3. QED
    BY <2>1, <2>2
<1>4. ASSUME NEW j \in JobIds, LaunchThread(j)
      PROVE  UNCHANGED jobs
  BY <1>4 DEF LaunchThread
<1>5. ASSUME NEW j \in JobIds, NEW outcome \in Outcomes, EndBody(j, outcome)
      PROVE  UNCHANGED jobs
  BY <1>5 DEF EndBody
<1>6. ASSUME NEW j \in JobIds, CloseRowFails(j) \/ LaunchFails(j) \/ Release(j)
      PROVE  UNCHANGED jobs
  BY <1>6 DEF CloseRowFails, LaunchFails, Release
<1>7. CASE StopCheck \/ RequestCancel \/ Crash \/ UNCHANGED jobVars
  BY <1>7 DEF StopCheck, RequestCancel, Crash, jobVars
<1>8. QED
  BY <1>1, <1>2, <1>3, <1>4, <1>5, <1>6, <1>7 DEF Next, ThreadStep, Ledger!Next

\* JobManager implements JobLedger: one job at a time, in id order, one
\* verdict each.
THEOREM ImplementsLedger == Spec => LedgerSpec
<1>1. Init => Ledger!Init
  BY DEF Init, Ledger!Init, JobIds, Ledger!JobIds
<1>2. LockInv /\ [Next]_jobVars => [Ledger!Next]_jobs
  BY LedgerStep
<1>3. IInv => LockInv
  BY DEF IInv, LockInv
<1>4. QED
  BY <1>1, <1>2, <1>3, IInvHolds, PTL DEF Spec, LedgerSpec, Ledger!Spec

\* A row with a verdict is never rewritten.
THEOREM VerdictsAreFinal == Spec => VerdictIsFinal
<1>1. LockInv /\ [Next]_jobVars
      => [\A j \in JobIds : jobs[j] \notin {"none", "running"} => jobs'[j] = jobs[j]]_jobVars
  <2> SUFFICES ASSUME LockInv, [Next]_jobVars,
                      NEW j \in JobIds, jobs[j] \notin {"none", "running"}
               PROVE  jobs'[j] = jobs[j]
    OBVIOUS
  <2>1. [Ledger!Next]_jobs
    BY LedgerStep
  <2>2. QED
    BY <2>1 DEF Ledger!Next, Ledger!Open, Ledger!Close, Ledger!IsNextId, Ledger!JobIds,
                LockInv, TypeOK, JobIds
<1>2. IInv => LockInv
  BY DEF IInv, LockInv
<1>3. QED
  BY <1>1, <1>2, IInvHolds, PTL DEF Spec, VerdictIsFinal

-----------------------------------------------------------------------------
(* JobPage: the hub and the pages leave the manager as it is               *)

\* Every step of the hub, the routes and the pages is a step of the manager or
\* leaves it alone.
LEMMA PageManagerStep == [PageNext]_vars => [Next]_jobVars
<1> SUFFICES ASSUME [PageNext]_vars PROVE [Next]_jobVars
  OBVIOUS
<1>1. ASSUME NEW j \in JobIds, StartJob(j)
      PROVE  [Next]_jobVars
  BY <1>1 DEF StartJob, Next
<1>2. ASSUME NEW j \in JobIds, JobStep(j)
      PROVE  [Next]_jobVars
  BY <1>2 DEF JobStep, Launch, Emit, EndJob, Finish, Next, ThreadStep
<1>3. ASSUME NEW p \in Pages, ServeStart(p)
      PROVE  [Next]_jobVars
  BY <1>1, <1>3 DEF ServeStart, jobVars
<1>4. ASSUME NEW p \in Pages, PageStep(p) \/ UserStep(p) \/ ServeStatus(p)
      PROVE  UNCHANGED jobVars
  BY <1>4 DEF PageStep, Subscribe, Answer, Receive, UserStep, Load, ClickStart,
     Disconnect, ServeStatus
<1>5. CASE Stop \/ ServerDies \/ ServerStarts
  BY <1>5 DEF Stop, ServerDies, ServerStarts, Next
<1>6. CASE Post \/ UNCHANGED vars
  BY <1>6 DEF Post, vars
<1> QED
  BY <1>1, <1>2, <1>3, <1>4, <1>5, <1>6 DEF PageNext, StartElsewhere, Serve

LEMMA PageKeepsIInv == PageSpec => []IInv
<1>1. PageInit => LockInv /\ EventInv
  BY InitEstablishes DEF PageInit, IInv, LockInv, EventInv
<1>2. LockInv /\ EventInv /\ [PageNext]_vars => (LockInv /\ EventInv)'
  BY PageManagerStep, LockStep, EventStep
<1>3. LockInv /\ EventInv => IInv
  BY DEF IInv, LockInv, EventInv
<1> QED
  BY <1>1, <1>2, <1>3, PTL DEF PageSpec

\* What is proved of the manager holds with pages connected, loading and closing.
THEOREM PagesLeaveManagerAlone ==
    PageSpec => [](OneJobIsClaimed /\ CancelledWasHit) /\ LedgerSpec
<1>1. IInv => OneJobIsClaimed /\ CancelledWasHit /\ LockInv
  BY DEF IInv, LockInv, OneJobIsClaimed, OneJobAtATime, ThreadIsClaimed, OneRunningRow
<1>2. PageInit => Ledger!Init
  BY DEF PageInit, Init, Ledger!Init, JobIds, Ledger!JobIds
<1>3. LockInv /\ [PageNext]_vars => [Ledger!Next]_jobs
  BY PageManagerStep, LedgerStep
<1> QED
  BY <1>1, <1>2, <1>3, PageKeepsIInv, PTL DEF PageSpec, LedgerSpec, Ledger!Spec

-----------------------------------------------------------------------------
(* JobPage: types                                                          *)

HubTypeOK ==
    /\ buffer \in Seq(Messages) /\ Len(buffer) <= BufferMax
    /\ sent \in Seq(Messages)
    /\ handing \in SUBSET [msg : Messages, to : (SUBSET Pages) \ {{}}]
    /\ queue \in [Pages -> Seq(Messages)]
    /\ got \in [Pages -> Seq(Messages)]

LocalTypeOK ==
    /\ conn \in [Pages -> {"closed", "opening", "open"}]
    /\ asked \in [Pages -> SUBSET {"status", "start"}]
    /\ answers \in [Pages -> SUBSET {"running", "idle", "started"}]
    /\ shows \in [Pages -> [running : BOOLEAN, starting : BOOLEAN]]

\* A thread that may still speak has room for the message that ends its job.
ThreadHasRoom == \A j \in JobIds : thread[j] \in {"queued", "body"} => Len(sent) <= MaxLines

\* handing is at most one message, the newest, and its queues are subscribed.
OneIsHanded ==
    /\ \A g, h \in handing : g = h
    /\ \A h \in handing :
          /\ sent # <<>> /\ h.msg = sent[Len(sent)]
          /\ \A p \in h.to : conn[p] = "open"

\* The thread that broadcasts gives the message to every queue before it goes on.
HandedByThread ==
    handing # {} => \E j \in JobIds : thread[j] \in {"body"} \cup Outcomes

ClosedIsEmpty == \A p \in Pages : conn[p] # "open" => got[p] = <<>> /\ queue[p] = <<>>

HubInv ==
    /\ HubTypeOK
    /\ ThreadHasRoom
    /\ OneIsHanded
    /\ HandedByThread
    /\ ClosedIsEmpty

LEMMA OfJobType ==
    ASSUME NEW S, NEW s \in Seq(S), NEW j PROVE OfJob(s, j) \in Seq(S)
  BY DEF OfJob

\* What broadcast() does to the buffer: it keeps the newest BufferMax messages.
LEMMA BroadcastType ==
    ASSUME NEW S, buffer \in Seq(S), Len(buffer) <= BufferMax,
           NEW msg \in S, Broadcast(msg)
    PROVE  /\ buffer' \in Seq(S) /\ Len(buffer') <= BufferMax
           /\ sent' = Append(sent, msg)
           /\ \/ /\ Len(buffer) < BufferMax
                 /\ buffer' = Append(buffer, msg)
              \/ /\ Len(buffer) = BufferMax /\ Len(buffer') = BufferMax
                 /\ \A i \in 1 .. BufferMax :
                       buffer'[i] = IF i = BufferMax THEN msg ELSE buffer[i + 1]
<1> DEFINE b == Append(buffer, msg)
           first == Len(b) - (IF Len(b) > BufferMax THEN BufferMax ELSE Len(b)) + 1
<1>1. sent' = Append(sent, msg) /\ buffer' = SubSeq(b, first, Len(b))
  BY DEF Broadcast
<1>2. buffer \in Seq(S) /\ Len(buffer) \in Nat /\ Len(buffer) <= BufferMax
  OBVIOUS
<1>3. /\ b \in Seq(S) /\ Len(b) = Len(buffer) + 1
      /\ \A i \in 1 .. Len(buffer) : b[i] = buffer[i]
      /\ b[Len(buffer) + 1] = msg
  BY <1>2, AppendProperties
<1>4. BufferMax \in Nat /\ BufferMax > 0
  BY JobPageAssumption
<1>5. CASE Len(buffer) < BufferMax
  <2>1. first = 1
    BY <1>2, <1>3, <1>4, <1>5
  <2>2. buffer' = b
    BY <1>1, <1>3, <2>1, SubSeqFull
  <2>3. Len(b) <= BufferMax
    BY <1>2, <1>3, <1>4, <1>5
  <2> QED
    BY <1>1, <1>3, <1>5, <2>2, <2>3
<1>6. CASE Len(buffer) = BufferMax
  <2>1. first = 2
    BY <1>2, <1>3, <1>4, <1>6
  <2>2. \A i \in 2 .. Len(b) : b[i] \in S
    BY <1>2, <1>3, <1>4, <1>6
  <2> HIDE DEF b, first
  <2>3. /\ buffer' \in Seq(S)
        /\ Len(buffer') = BufferMax
        /\ \A i \in 1 .. BufferMax : buffer'[i] = b[i + 1]
    BY <1>1, <1>3, <1>4, <1>6, <2>1, <2>2, SubSeqProperties
  <2> QED
    BY <1>1, <1>2, <1>3, <1>4, <1>6, <2>3
<1> QED
  BY <1>2, <1>4, <1>5, <1>6

LEMMA MessageType ==
    ASSUME HubTypeOK, NEW j \in JobIds, NEW verdict \in {"none"} \cup Outcomes,
           Len(sent) <= MaxLines
    PROVE  Message(j, verdict) \in Messages
  BY JobPageAssumption DEF HubTypeOK, Message, Messages

\* What a job says reaches the buffer, and is handed to whoever is subscribed.
LEMMA SpokenType ==
    ASSUME HubInv, NEW j \in JobIds, thread[j] = "body",
           NEW verdict \in {"none"} \cup Outcomes, Broadcast(Message(j, verdict)),
           UNCHANGED pageVars
    PROVE  HubTypeOK' /\ OneIsHanded' /\ ClosedIsEmpty'
<1> DEFINE msg == Message(j, verdict)
<1>1. msg \in Messages
  BY MessageType DEF HubInv, ThreadHasRoom
<1>2. Broadcast(msg)
  OBVIOUS
<1> HIDE DEF msg
<1>3. /\ buffer' \in Seq(Messages) /\ Len(buffer') <= BufferMax
      /\ sent' = Append(sent, msg)
  BY <1>1, <1>2, BroadcastType DEF HubInv, HubTypeOK
<1>4. \/ handing' = {}
      \/ handing' = {[msg |-> msg, to |-> Subscribers]} /\ Subscribers # {}
  BY <1>2 DEF Broadcast
<1>5. sent' \in Seq(Messages) /\ sent' # <<>> /\ sent'[Len(sent')] = msg
  BY <1>1, <1>3, AppendProperties DEF HubInv, HubTypeOK
<1>6. UNCHANGED <<conn, queue, got>> /\ Subscribers \in SUBSET Pages
  BY DEF pageVars, Subscribers
<1>7. HubTypeOK'
  BY <1>1, <1>3, <1>4, <1>5, <1>6 DEF HubTypeOK, HubInv
<1>8. \A p \in Subscribers : conn'[p] = "open"
  BY <1>6 DEF Subscribers
<1>9. OneIsHanded'
  BY <1>4, <1>5, <1>8 DEF OneIsHanded
<1> QED
  BY <1>6, <1>7, <1>9 DEF HubInv, ClosedIsEmpty

LEMMA LocalTypeStep ==
    ASSUME LocalTypeOK, [PageNext]_vars
    PROVE  LocalTypeOK'
<1> USE DEF LocalTypeOK, hubVars, pageVars
<1>1. ASSUME NEW j \in JobIds, StartElsewhere(j) \/ JobStep(j)
      PROVE  LocalTypeOK'
  BY <1>1 DEF StartElsewhere, JobStep, Launch, Emit, EndJob, Finish
<1>2. ASSUME NEW p \in Pages, Subscribe(p)
      PROVE  LocalTypeOK'
  BY <1>2 DEF Subscribe
<1>3. ASSUME NEW p \in Pages, Answer(p)
      PROVE  LocalTypeOK'
  <2>1. PICK a \in answers[p] :
           /\ answers' = [answers EXCEPT ![p] = @ \ {a}]
           /\ shows' = [shows EXCEPT ![p] = [shows[p] EXCEPT !.running = (a # "idle")]]
    BY <1>3 DEF Answer, Show
  <2>2. answers' \in [Pages -> SUBSET {"running", "idle", "started"}]
    BY <2>1
  <2>3. (a # "idle") \in BOOLEAN
    OBVIOUS
  <2>4. [shows[p] EXCEPT !.running = (a # "idle")] \in [running : BOOLEAN, starting : BOOLEAN]
    BY <2>3
  <2>5. shows' \in [Pages -> [running : BOOLEAN, starting : BOOLEAN]]
    BY <2>1, <2>4
  <2> QED
    BY <1>3, <2>2, <2>5 DEF Answer
<1>4. ASSUME NEW p \in Pages, Receive(p)
      PROVE  LocalTypeOK'
  BY <1>4 DEF Receive, Show, Fresh
<1>5. ASSUME NEW p \in Pages, Load(p)
      PROVE  LocalTypeOK'
  BY <1>5 DEF Load
<1>11. ASSUME NEW p \in Pages, ClickStart(p)
      PROVE  LocalTypeOK'
  <2>1. [shows[p] EXCEPT !.starting = TRUE] \in [running : BOOLEAN, starting : BOOLEAN]
    OBVIOUS
  <2>2. shows' \in [Pages -> [running : BOOLEAN, starting : BOOLEAN]]
    BY <1>11, <2>1 DEF ClickStart, Show
  <2>3. asked' \in [Pages -> SUBSET {"status", "start"}]
    BY <1>11 DEF ClickStart
  <2> QED
    BY <1>11, <2>2, <2>3 DEF ClickStart
<1>6. ASSUME NEW p \in Pages, Disconnect(p)
      PROVE  LocalTypeOK'
  BY <1>6 DEF Disconnect, Gone, Fresh
<1>7. ASSUME NEW p \in Pages, ServeStart(p) \/ ServeStatus(p)
      PROVE  LocalTypeOK'
  <2>1. asked' \in [Pages -> SUBSET {"status", "start"}]
    BY <1>7 DEF ServeStart, ServeStatus, Served
  <2>2. answers' \in [Pages -> SUBSET {"running", "idle", "started"}]
    BY <1>7 DEF ServeStart, ServeStatus, Answered
  <2> QED
    BY <1>7, <2>1, <2>2 DEF ServeStart, ServeStatus
<1>8. CASE Stop \/ Post \/ ServerStarts
  BY <1>8 DEF Stop, Post, ServerStarts
<1>9. CASE ServerDies
  BY <1>9 DEF ServerDies, Fresh
<1>10. CASE UNCHANGED vars
  BY <1>10 DEF vars
<1> HIDE DEF LocalTypeOK, hubVars, pageVars
<1> QED
  BY <1>1, <1>2, <1>3, <1>4, <1>5, <1>6, <1>7, <1>8, <1>9, <1>10, <1>11
  DEF PageNext, PageStep, UserStep, Serve

LEMMA ClearedHub ==
    ASSUME HubInv, NEW j \in JobIds, LockInv, StartJob(j), UNCHANGED <<conn, queue, got>>
    PROVE  HubInv' /\ handing = {}
<1>1. handing = {} /\ handing' = {}
  BY DEF StartJob, TryStart, LockInv, ThreadIsClaimed, Live, HubInv, HandedByThread, Outcomes
<1>2. buffer' = <<>> /\ sent' = <<>> /\ Len(buffer') = 0 /\ Len(sent') = 0
  BY DEF StartJob
<1> QED
  BY <1>1, <1>2, JobPageAssumption
  DEF HubInv, HubTypeOK, ThreadHasRoom, OneIsHanded, HandedByThread, ClosedIsEmpty

LEMMA HubStep ==
    ASSUME LockInv, HubInv, LocalTypeOK, [PageNext]_vars
    PROVE  HubInv'
<1> USE DEF HubInv, HubTypeOK, ThreadHasRoom, OneIsHanded, HandedByThread, ClosedIsEmpty,
        hubVars
<1>a. /\ thread \in [JobIds -> ThreadStates]
      /\ conn \in [Pages -> {"closed", "opening", "open"}]
  BY DEF LockInv, TypeOK, LocalTypeOK
<1>1. ASSUME NEW j \in JobIds, StartElsewhere(j)
      PROVE  HubInv'
  BY ONLY <1>1, ClearedHub, HubInv, LockInv DEF StartElsewhere, pageVars
<1>2. ASSUME NEW p \in Pages, ServeStart(p)
      PROVE  HubInv'
  <2>1. UNCHANGED <<conn, queue, got>>
    BY <1>2 DEF ServeStart
  <2>2. CASE \E j \in JobIds : StartJob(j)
    BY ONLY <2>1, <2>2, ClearedHub, HubInv, LockInv
  <2>3. CASE UNCHANGED <<jobVars, hubVars>>
    BY <2>1, <2>3 DEF jobVars
  <2> QED
    BY <1>2, <2>2, <2>3 DEF ServeStart
<1>3. ASSUME NEW j \in JobIds, Launch(j)
      PROVE  HubInv'
  BY <1>3, <1>a DEF Launch, LaunchThread, LaunchFails, LockInv, ThreadIsClaimed, Live,
     Outcomes, pageVars
<1>4. ASSUME NEW j \in JobIds, Emit(j)
      PROVE  HubInv'
  <2>1. HubTypeOK' /\ OneIsHanded' /\ ClosedIsEmpty'
    BY <1>4, SpokenType DEF Emit
  <2>2. Len(sent') <= MaxLines
    BY <1>4, JobPageAssumption DEF Emit, Broadcast
  <2>3. thread' = thread /\ thread[j] = "body"
    BY <1>4 DEF Emit, jobVars
  <2> QED
    BY <2>1, <2>2, <2>3
<1>5. ASSUME NEW j \in JobIds, NEW outcome \in Outcomes, EndJob(j, outcome)
      PROVE  HubInv'
  <2>1. HubTypeOK' /\ OneIsHanded' /\ ClosedIsEmpty'
    BY <1>5, SpokenType DEF EndJob, EndBody
  <2>2. thread'[j] = outcome /\ \A i \in JobIds : i # j => thread'[i] = "none"
    BY <1>5, <1>a DEF EndJob, EndBody, LockInv, ThreadIsClaimed, Live
  <2> QED
    BY <2>1, <2>2 DEF Outcomes
<1>6. ASSUME NEW j \in JobIds, Finish(j)
      PROVE  HubInv'
  BY <1>6, <1>a DEF Finish, CloseRow, CloseRowFails, Release, Outcomes, pageVars
<1>7. ASSUME NEW p \in Pages, Subscribe(p)
      PROVE  HubInv'
  BY <1>7, <1>a DEF Subscribe, jobVars
<1>8. ASSUME NEW p \in Pages, Answer(p) \/ ServeStatus(p)
      PROVE  HubInv'
  BY <1>8 DEF Answer, ServeStatus, jobVars
<1>9. ASSUME NEW p \in Pages, Receive(p)
      PROVE  HubInv'
  <2> DEFINE msg == Head(queue[p])
             new == Append(OfJob(got[p], msg.job), msg)
  <2>1. queue[p] # <<>> /\ queue[p] \in Seq(Messages)
    BY <1>9 DEF Receive
  <2>2. msg \in Messages /\ Tail(queue[p]) \in Seq(Messages)
    BY <2>1, HeadTailProperties
  <2>3. new \in Seq(Messages)
    BY <2>2, OfJobType, AppendProperties
  <2>4. /\ got' = [got EXCEPT ![p] = new]
        /\ queue' = [queue EXCEPT ![p] = Tail(queue[p])]
        /\ UNCHANGED <<jobVars, hubVars, conn>>
    BY <1>9 DEF Receive
  <2>5. conn[p] = "open"
    BY <2>1
  <2> HIDE DEF msg, new
  <2> QED
    BY <2>1, <2>2, <2>3, <2>4, <2>5 DEF jobVars
<1>10. ASSUME NEW p \in Pages, Load(p) \/ ClickStart(p)
      PROVE  HubInv'
  BY <1>10, <1>a DEF Load, ClickStart, jobVars
<1>11. ASSUME NEW p \in Pages, Disconnect(p)
      PROVE  HubInv'
  <2>1. /\ UNCHANGED <<jobVars, buffer, sent>>
        /\ conn' = [conn EXCEPT ![p] = "closed"]
        /\ queue' = [queue EXCEPT ![p] = <<>>]
        /\ got' = [got EXCEPT ![p] = <<>>]
        /\ handing' = {[h EXCEPT !.to = @ \ {p}] : h \in {x \in handing : x.to # {p}}}
    BY <1>11 DEF Disconnect, Gone
  <2>2. ASSUME NEW g \in handing'
        PROVE  \E h \in handing :
                  /\ g = [h EXCEPT !.to = @ \ {p}]
                  /\ g \in [msg : Messages, to : (SUBSET Pages) \ {{}}]
                  /\ g.msg = h.msg /\ g.to = h.to \ {p}
    <3>1. PICK h \in handing : g = [h EXCEPT !.to = @ \ {p}] /\ h.to # {p}
      BY <2>1
    <3>2. h \in [msg : Messages, to : (SUBSET Pages) \ {{}}]
      OBVIOUS
    <3>3. g = [msg |-> h.msg, to |-> h.to \ {p}]
      BY <3>1, <3>2
    <3>4. h.to \ {p} \in (SUBSET Pages) \ {{}}
      BY <3>1, <3>2
    <3> QED
      BY <3>1, <3>2, <3>3, <3>4
  <2>3. \A q \in Pages : conn'[q] = IF q = p THEN "closed" ELSE conn[q]
    BY <1>a, <2>1
  <2>4. \A g \in handing' : sent' # <<>> /\ g.msg = sent'[Len(sent')]
    BY <2>1, <2>2
  <2>5. \A g \in handing' : \A q \in g.to : conn'[q] = "open"
    <3> SUFFICES ASSUME NEW g \in handing', NEW q \in g.to PROVE conn'[q] = "open"
      OBVIOUS
    <3>1. PICK h \in handing :
                  /\ g \in [msg : Messages, to : (SUBSET Pages) \ {{}}]
                  /\ g.msg = h.msg /\ g.to = h.to \ {p}
      BY <2>2
    <3>2. q \in h.to /\ q # p /\ q \in Pages
      BY <3>1
    <3> QED
      BY <2>3, <3>2
  <2>6. \A g, k \in handing' : g = k
    <3> SUFFICES ASSUME NEW g \in handing', NEW k \in handing' PROVE g = k
      OBVIOUS
    <3>1. PICK h \in handing : g = [h EXCEPT !.to = @ \ {p}]
      BY <2>2
    <3>2. PICK i \in handing : k = [i EXCEPT !.to = @ \ {p}]
      BY <2>2
    <3> QED
      BY <3>1, <3>2
  <2>7. handing' \in SUBSET [msg : Messages, to : (SUBSET Pages) \ {{}}]
    BY <2>2
  <2>8. queue' \in [Pages -> Seq(Messages)] /\ got' \in [Pages -> Seq(Messages)]
    <3>1. <<>> \in Seq(Messages)
      OBVIOUS
    <3> QED
      BY <2>1, <3>1
  <2>11. HubTypeOK'
    BY ONLY <2>1, <2>7, <2>8, HubTypeOK DEF HubTypeOK
  <2>9. ClosedIsEmpty'
    BY <2>1, <2>3
  <2>10. HandedByThread' /\ ThreadHasRoom'
    BY <2>1, <2>2 DEF jobVars
  <2> QED
    BY <2>4, <2>5, <2>6, <2>9, <2>10, <2>11
<1>12. CASE Stop
  BY <1>12 DEF Stop, StopCheck, RequestCancel, pageVars
<1>13. CASE Post
  <2>1. PICK h \in handing : \E p \in h.to :
           /\ queue' = [queue EXCEPT ![p] = Append(@, h.msg)]
           /\ handing' = IF h.to = {p} THEN {} ELSE {[h EXCEPT !.to = @ \ {p}]}
    BY <1>13 DEF Post
  <2>2. PICK p \in h.to :
           /\ queue' = [queue EXCEPT ![p] = Append(@, h.msg)]
           /\ handing' = IF h.to = {p} THEN {} ELSE {[h EXCEPT !.to = @ \ {p}]}
    BY <2>1
  <2>3. UNCHANGED <<jobVars, buffer, sent, conn, got>>
    BY <1>13 DEF Post
  <2>4. p \in Pages /\ h.msg \in Messages /\ conn[p] = "open"
    OBVIOUS
  <2>5. Append(queue[p], h.msg) \in Seq(Messages)
    <3>1. queue[p] \in Seq(Messages)
      BY <2>4
    <3> QED
      BY ONLY <2>4, <3>1, AppendProperties
  <2>6. queue' \in [Pages -> Seq(Messages)]
    BY <2>2, <2>5
  <2>10. h \in [msg : Messages, to : (SUBSET Pages) \ {{}}]
    OBVIOUS
  <2>11. [h EXCEPT !.to = @ \ {p}] = [msg |-> h.msg, to |-> h.to \ {p}]
    BY ONLY <2>10
  <2>7. handing' \in SUBSET [msg : Messages, to : (SUBSET Pages) \ {{}}]
    <3>1. CASE h.to # {p}
      <4>1. h.to \ {p} \in (SUBSET Pages) \ {{}}
        BY <2>10, <3>1
      <4> QED
        BY ONLY <2>2, <2>10, <2>11, <3>1, <4>1
    <3> QED
      BY <2>2, <3>1
  <2>8. OneIsHanded'
    BY <2>2, <2>3
  <2>9. ClosedIsEmpty'
    BY <2>2, <2>3, <2>4
  <2> QED
    BY <2>3, <2>6, <2>7, <2>8, <2>9 DEF jobVars
<1>14. CASE ServerDies
  <2>1. /\ buffer' = <<>> /\ sent' = <<>> /\ handing' = {}
        /\ queue' = [q \in Pages |-> <<>>] /\ got' = [q \in Pages |-> <<>>]
        /\ thread' = [i \in JobIds |-> "none"]
    BY <1>14 DEF ServerDies, Crash
  <2> QED
    BY <2>1, JobPageAssumption
<1>15. CASE ServerStarts
  BY <1>15 DEF ServerStarts, Restart, pageVars
<1>16. CASE UNCHANGED vars
  BY <1>16 DEF vars, jobVars, pageVars
<1> HIDE DEF HubInv, hubVars
<1> QED
  BY <1>1, <1>2, <1>3, <1>4, <1>5, <1>6, <1>7, <1>8, <1>9, <1>10, <1>11,
     <1>12, <1>13, <1>14, <1>15, <1>16
  DEF PageNext, JobStep, PageStep, UserStep, Serve
-----------------------------------------------------------------------------
(* JobPage: what is said agrees with the rows                              *)

\* Whatever set the messages that jobs send are taken from, nothing else is
\* buffered, under way or received.
LEMMA HubCarries ==
    ASSUME HubInv, [PageNext]_vars, NEW S,
           buffer \in Seq(S), sent \in Seq(S),
           queue \in [Pages -> Seq(S)], got \in [Pages -> Seq(S)],
           \A j \in JobIds : Emit(j) => Message(j, "none") \in S,
           \A j \in JobIds, o \in Outcomes : EndJob(j, o) => Message(j, o) \in S
    PROVE  /\ buffer' \in Seq(S) /\ sent' \in Seq(S)
           /\ queue' \in [Pages -> Seq(S)] /\ got' \in [Pages -> Seq(S)]
<1> DEFINE Goal == /\ buffer' \in Seq(S) /\ sent' \in Seq(S)
                   /\ queue' \in [Pages -> Seq(S)] /\ got' \in [Pages -> Seq(S)]
<1>a. <<>> \in Seq(S)
  OBVIOUS
<1>1. ASSUME NEW j \in JobIds, StartElsewhere(j) PROVE Goal
  BY <1>1, <1>a DEF StartElsewhere, StartJob, pageVars
<1>2. ASSUME NEW p \in Pages, ServeStart(p) PROVE Goal
  <2>1. UNCHANGED <<queue, got>>
    BY <1>2 DEF ServeStart
  <2>2. CASE \E j \in JobIds : StartJob(j)
    BY <1>a, <2>1, <2>2 DEF StartJob
  <2>3. CASE UNCHANGED hubVars
    BY <2>1, <2>3 DEF hubVars
  <2> QED
    BY <1>2, <2>2, <2>3 DEF ServeStart
<1>3. ASSUME NEW j \in JobIds, Launch(j) \/ Finish(j) PROVE Goal
  BY <1>3 DEF Launch, Finish, hubVars, pageVars
<1>4. ASSUME NEW j \in JobIds, NEW v, Message(j, v) \in S,
             Broadcast(Message(j, v)), UNCHANGED pageVars
      PROVE  Goal
  <2>1. buffer' \in Seq(S) /\ sent' = Append(sent, Message(j, v))
    <3> HIDE DEF Goal
    <3> QED
      BY <1>4, BroadcastType DEF HubInv, HubTypeOK
  <2>2. sent' \in Seq(S)
    BY <1>4, <2>1, AppendProperties
  <2> QED
    BY <1>4, <2>1, <2>2 DEF pageVars
<1>5. ASSUME NEW j \in JobIds, Emit(j) PROVE Goal
  BY <1>4, <1>5 DEF Emit
<1>6. ASSUME NEW j \in JobIds, NEW o \in Outcomes, EndJob(j, o) PROVE Goal
  BY <1>4, <1>6 DEF EndJob
<1>7. ASSUME NEW p \in Pages, Subscribe(p) PROVE Goal
  BY <1>7 DEF Subscribe, hubVars
<1>8. ASSUME NEW p \in Pages,
             Answer(p) \/ ServeStatus(p) \/ Load(p) \/ ClickStart(p)
      PROVE  Goal
  BY <1>8 DEF Answer, ServeStatus, Load, ClickStart, hubVars
<1>9. ASSUME NEW p \in Pages, Receive(p) PROVE Goal
  <2> DEFINE msg == Head(queue[p])
             new == Append(OfJob(got[p], msg.job), msg)
  <2>1. /\ queue[p] # <<>> /\ UNCHANGED <<buffer, sent>>
        /\ got' = [got EXCEPT ![p] = new]
        /\ queue' = [queue EXCEPT ![p] = Tail(queue[p])]
    BY <1>9 DEF Receive, hubVars
  <2>2. msg \in S /\ Tail(queue[p]) \in Seq(S)
    BY <2>1, HeadTailProperties
  <2>3. new \in Seq(S)
    <3>1. got[p] \in Seq(S)
      OBVIOUS
    <3> HIDE DEF msg
    <3> QED
      BY ONLY <2>2, <3>1, OfJobType, AppendProperties
  <2> HIDE DEF msg, new
  <2> QED
    BY <2>1, <2>2, <2>3
<1>10. ASSUME NEW p \in Pages, Disconnect(p) PROVE Goal
  BY <1>10, <1>a DEF Disconnect, Gone
<1>11. ASSUME Post PROVE Goal
  <2>1. PICK h \in handing : \E p \in h.to : queue' = [queue EXCEPT ![p] = Append(@, h.msg)]
    BY <1>11 DEF Post
  <2>2. PICK p \in h.to : queue' = [queue EXCEPT ![p] = Append(@, h.msg)]
    BY <2>1
  <2>3. sent # <<>> /\ h.msg = sent[Len(sent)] /\ p \in Pages
    BY DEF HubInv, OneIsHanded, HubTypeOK
  <2>4. h.msg \in S
    BY <2>3
  <2>5. \A q \in Pages : queue[q] \in Seq(S) /\ Append(queue[q], h.msg) \in Seq(S)
    BY <2>4, AppendProperties
  <2>6. queue' \in [Pages -> Seq(S)]
    BY <2>2, <2>5
  <2> QED
    BY <1>11, <2>6 DEF Post
<1>12. ASSUME ServerDies PROVE Goal
  BY <1>12, <1>a DEF ServerDies
<1>13. ASSUME Stop \/ ServerStarts PROVE Goal
  BY <1>13 DEF Stop, ServerStarts, hubVars, pageVars
<1>14. ASSUME UNCHANGED vars PROVE Goal
  BY <1>14 DEF vars, hubVars, pageVars
<1> HIDE DEF Goal
<1>15. Goal
  BY <1>1, <1>2, <1>3, <1>5, <1>6, <1>7, <1>8, <1>9, <1>10, <1>11, <1>12, <1>13, <1>14
  DEF PageNext, JobStep, PageStep, UserStep, Serve
<1> QED
  BY <1>15 DEF Goal
\* A message speaks of a job that was started, and a verdict in it is the one
\* the job's thread has still to write, or the row's unless that was lost.
IsTrue(msg) ==
    /\ jobs[msg.job] # "none"
    /\ msg.verdict # "none" =>
          /\ thread[msg.job] \in {msg.verdict, "releasing", "none"}
          /\ jobs[msg.job] \in {msg.verdict, "running", "restarted"}

TrueMessages == {msg \in Messages : IsTrue(msg)}

MessagesAreTrue ==
    /\ buffer \in Seq(TrueMessages) /\ sent \in Seq(TrueMessages)
    /\ queue \in [Pages -> Seq(TrueMessages)] /\ got \in [Pages -> Seq(TrueMessages)]

SentIsOneJob ==
    /\ \A i \in 1 .. Len(sent) : sent[i].job = sent[1].job
    /\ sent # <<>> => \A j \in JobIds : Live(j) => sent[1].job = j

\* The message that ends a job is the last one, and its row is closed after it.
EndIsSaidFirst ==
    /\ \A j \in JobIds : thread[j] \in Outcomes =>
          sent # <<>> /\ Last(sent).job = j /\ Last(sent).verdict = thread[j]
    /\ sent # <<>> /\ jobs[sent[1].job] \in Outcomes => Last(sent).verdict = jobs[sent[1].job]

VerdictInv == MessagesAreTrue /\ SentIsOneJob /\ EndIsSaidFirst

\* What was said stays true, whatever the manager does next.
LEMMA TrueStays ==
    ASSUME LockInv, [Next]_jobVars
    PROVE  TrueMessages \subseteq TrueMessages'
<1> SUFFICES ASSUME NEW msg \in Messages, IsTrue(msg) PROVE IsTrue(msg)'
  BY DEF TrueMessages, Messages, JobIds, Outcomes
<1> USE DEF IsTrue
<1>a. /\ msg.job \in JobIds /\ msg.verdict \in {"none"} \cup Outcomes
      /\ jobs \in [JobIds -> RowStates] /\ thread \in [JobIds -> ThreadStates]
  BY DEF Messages, LockInv, TypeOK
<1>1. ASSUME NEW j \in JobIds, TryStart(j) PROVE IsTrue(msg)'
  BY <1>a, <1>1 DEF TryStart, IsNextId
<1>2. ASSUME NEW j \in JobIds, LaunchThread(j) \/ LaunchFails(j) PROVE IsTrue(msg)'
  BY <1>a, <1>2 DEF LaunchThread, LaunchFails, Outcomes
<1>3. ASSUME NEW j \in JobIds, NEW o \in Outcomes, EndBody(j, o) PROVE IsTrue(msg)'
  BY <1>a, <1>3 DEF EndBody, Outcomes
<1>4. ASSUME NEW j \in JobIds, CloseRow(j) \/ CloseRowFails(j) \/ Release(j)
      PROVE  IsTrue(msg)'
  BY <1>a, <1>4 DEF CloseRow, CloseRowFails, Release, Outcomes
<1>5. CASE StopCheck \/ RequestCancel \/ UNCHANGED jobVars
  BY <1>5 DEF StopCheck, RequestCancel, jobVars
<1>6. CASE Crash
  BY <1>a, <1>6 DEF Crash
<1>7. CASE Restart
  BY <1>a, <1>7 DEF Restart, Outcomes
<1> HIDE DEF IsTrue
<1> QED
  BY <1>1, <1>2, <1>3, <1>4, <1>5, <1>6, <1>7 DEF Next, ThreadStep

LEMMA TrueStep ==
    ASSUME LockInv, HubInv, MessagesAreTrue, [PageNext]_vars
    PROVE  MessagesAreTrue'
<1> DEFINE S == TrueMessages'
<1>1. TrueMessages \subseteq S
  BY PageManagerStep, TrueStays
<1>2. /\ buffer \in Seq(S) /\ sent \in Seq(S)
      /\ queue \in [Pages -> Seq(S)] /\ got \in [Pages -> Seq(S)]
  <2>1. Seq(TrueMessages) \subseteq Seq(S)
    BY <1>1, SeqMonotonic
  <2> QED
    BY <2>1 DEF MessagesAreTrue
<1>3. ASSUME NEW j \in JobIds, Emit(j)
      PROVE  Message(j, "none") \in S
  <2>1. Message(j, "none") \in Messages
    BY <1>3, MessageType DEF Emit, HubInv, HubTypeOK, ThreadHasRoom
  <2>2. jobs[j] = "running" /\ jobs' = jobs
    BY <1>3 DEF Emit, LockInv, UnwrittenRowIsRunning, jobVars
  <2> QED
    BY <2>1, <2>2 DEF TrueMessages, IsTrue, Message, Messages
<1>4. ASSUME NEW j \in JobIds, NEW o \in Outcomes, EndJob(j, o)
      PROVE  Message(j, o) \in S
  <2>1. Message(j, o) \in Messages
    BY <1>4, MessageType DEF EndJob, EndBody, HubInv, HubTypeOK, ThreadHasRoom
  <2>2. jobs[j] = "running" /\ jobs' = jobs /\ thread'[j] = o
    BY <1>4 DEF EndJob, EndBody, LockInv, UnwrittenRowIsRunning, TypeOK
  <2> QED
    BY <2>1, <2>2 DEF TrueMessages, IsTrue, Message, Messages
<1> HIDE DEF S
<1>5. /\ buffer' \in Seq(S) /\ sent' \in Seq(S)
      /\ queue' \in [Pages -> Seq(S)] /\ got' \in [Pages -> Seq(S)]
  BY <1>2, <1>3, <1>4, HubCarries
<1> QED
  BY <1>5 DEF MessagesAreTrue, S
\* Messages are those of the job that has the lock, which says how it ends before
\* it writes the row.
LEMMA SentStep ==
    ASSUME LockInv, HubInv, SentIsOneJob, EndIsSaidFirst, [PageNext]_vars
    PROVE  SentIsOneJob' /\ EndIsSaidFirst'
<1> DEFINE Goal == SentIsOneJob' /\ EndIsSaidFirst'
<1> USE DEF SentIsOneJob, EndIsSaidFirst, Live
<1>a. /\ thread \in [JobIds -> ThreadStates] /\ jobs \in [JobIds -> RowStates]
      /\ sent \in Seq(Messages) /\ Len(sent) \in Nat
      /\ sent # <<>> => Len(sent) > 0 /\ sent[1].job \in JobIds
  <2>1. sent \in Seq(Messages)
    BY DEF HubInv, HubTypeOK
  <2>2. sent # <<>> => Len(sent) > 0
    BY <2>1, EmptySeq
  <2>3. \A m \in Messages : m.job \in JobIds
    BY DEF Messages
  <2> QED
    BY <2>1, <2>2, <2>3 DEF LockInv, TypeOK
<1>1. ASSUME NEW j \in JobIds, StartJob(j) PROVE Goal
  <2>1. sent' = <<>> /\ Len(sent') = 0
    BY <1>1 DEF StartJob
  <2>2. \A i \in JobIds : thread'[i] \notin Outcomes
    BY <1>a, <1>1 DEF StartJob, TryStart, LockInv, ThreadIsClaimed, Outcomes
  <2> QED
    BY <2>1, <2>2
<1>2. ASSUME ServerDies PROVE Goal
  <2>1. sent' = <<>> /\ Len(sent') = 0 /\ thread' = [i \in JobIds |-> "none"]
    BY <1>2 DEF ServerDies, Crash
  <2> QED
    BY <2>1 DEF Outcomes
<1>3. ASSUME NEW j \in JobIds, thread[j] = "body", NEW v \in {"none"} \cup Outcomes,
             Broadcast(Message(j, v)), jobs' = jobs,
             thread' = IF v = "none" THEN thread ELSE [thread EXCEPT ![j] = v]
      PROVE  Goal
  <2> DEFINE msg == Message(j, v)
  <2>1. sent' = Append(sent, msg) /\ msg \in Messages /\ msg.job = j /\ msg.verdict = v
    BY <1>3, MessageType DEF Broadcast, HubInv, ThreadHasRoom, Message
  <2> HIDE DEF msg
  <2>2. /\ Len(sent') = Len(sent) + 1 /\ sent' # <<>> /\ Last(sent') = msg
        /\ \A i \in 1 .. Len(sent) : sent'[i] = sent[i]
        /\ sent'[Len(sent) + 1] = msg
    BY <1>a, <2>1, AppendProperties DEF Last
  <2>3. sent # <<>> => sent[1].job = j
    BY <1>3
  <2>4. \A i \in 1 .. Len(sent') : sent'[i].job = j
    BY <1>a, <2>1, <2>2, <2>3
  <2>5. sent'[1].job = j
    BY <1>a, <2>2, <2>4
  <2>6. \A i \in JobIds : thread[i] # "none" => i = j
    BY <1>3 DEF LockInv, ThreadIsClaimed
  <2>7. \A i \in JobIds : thread'[i] # "none" => i = j
    BY <1>a, <1>3, <2>6
  <2>8. \A i \in JobIds : thread'[i] \in Outcomes => i = j /\ v = thread'[i]
    BY <1>a, <1>3, <2>6 DEF Outcomes
  <2>9. jobs'[j] \notin Outcomes
    BY <1>3 DEF LockInv, UnwrittenRowIsRunning, Outcomes
  <2> QED
    BY <2>1, <2>2, <2>4, <2>5, <2>7, <2>8, <2>9
<1>4. ASSUME NEW j \in JobIds, Emit(j) PROVE Goal
  BY <1>3, <1>4 DEF Emit, jobVars
<1>5. ASSUME NEW j \in JobIds, NEW o \in Outcomes, EndJob(j, o) PROVE Goal
  <2>1. o # "none"
    BY DEF Outcomes
  <2> QED
    BY <1>3, <1>5, <2>1 DEF EndJob, EndBody
<1>6. ASSUME sent' = sent, UNCHANGED <<jobs, thread>> PROVE Goal
  BY <1>6
<1>7. ASSUME NEW j \in JobIds, Launch(j) PROVE Goal
  BY <1>7, <1>a DEF Launch, LaunchThread, LaunchFails, Outcomes, hubVars
<1>8. ASSUME NEW j \in JobIds, CloseRow(j), sent' = sent PROVE Goal
  <2>1. sent # <<>> /\ Last(sent).verdict = thread[j] /\ sent[1].job = j
    BY <1>8, <1>a DEF CloseRow, Outcomes
  <2>2. \A i \in JobIds : thread'[i] # "none" => thread[i] # "none"
    BY <1>8, <1>a DEF CloseRow, Outcomes
  <2>3. \A i \in JobIds : thread'[i] \in Outcomes => thread'[i] = thread[i]
    BY <1>8, <1>a DEF CloseRow, Outcomes
  <2>4. jobs'[j] = thread[j]
    BY <1>8, <1>a DEF CloseRow
  <2> QED
    BY <1>8, <2>1, <2>2, <2>3, <2>4
<1>9. ASSUME NEW j \in JobIds, CloseRowFails(j) \/ Release(j), sent' = sent PROVE Goal
  BY <1>9, <1>a DEF CloseRowFails, Release, Outcomes
<1>10. ASSUME NEW j \in JobIds, Finish(j) PROVE Goal
  BY <1>8, <1>9, <1>10 DEF Finish, hubVars
<1>11. ASSUME NEW p \in Pages, ServeStart(p) PROVE Goal
  BY <1>1, <1>6, <1>11 DEF ServeStart, hubVars, jobVars
<1>12. ASSUME NEW p \in Pages,
              PageStep(p) \/ UserStep(p) \/ ServeStatus(p)
       PROVE  Goal
  <2>1. sent' = sent /\ UNCHANGED <<jobs, thread>>
    BY <1>12 DEF PageStep, UserStep, Subscribe, Answer, Receive, Load, ClickStart,
       Disconnect, ServeStatus, hubVars, jobVars
  <2> QED
    BY <1>6, <2>1
<1>13. ASSUME Stop \/ Post \/ UNCHANGED vars PROVE Goal
  <2>1. sent' = sent /\ UNCHANGED <<jobs, thread>>
    BY <1>13 DEF Stop, StopCheck, RequestCancel, Post, vars, hubVars, jobVars
  <2> QED
    BY <1>6, <2>1
<1>14. ASSUME ServerStarts PROVE Goal
  BY <1>14, <1>a DEF ServerStarts, Restart, hubVars, Outcomes
<1> HIDE DEF Goal, SentIsOneJob, EndIsSaidFirst, Live
<1>15. Goal
  BY <1>1, <1>2, <1>4, <1>5, <1>7, <1>10, <1>11, <1>12, <1>13, <1>14
  DEF PageNext, StartElsewhere, JobStep, Serve
<1> QED
  BY <1>15 DEF Goal
LEMMA PageInitEstablishes ==
    ASSUME PageInit
    PROVE  LockInv /\ EventInv /\ HubInv /\ LocalTypeOK /\ VerdictInv
<1>a. <<>> \in Seq(Messages) /\ <<>> \in Seq(TrueMessages) /\ Len(<<>>) = 0
  OBVIOUS
<1>b. thread = [j \in JobIds |-> "none"]
  BY DEF PageInit, Init
<1>1. LockInv /\ EventInv
  BY InitEstablishes DEF PageInit, IInv, LockInv, EventInv
<1>2. HubInv
  BY <1>a, <1>b, JobPageAssumption DEF PageInit, HubInv, HubTypeOK, ThreadHasRoom, OneIsHanded,
     HandedByThread, ClosedIsEmpty
<1>3. LocalTypeOK
  BY DEF PageInit, LocalTypeOK, Fresh
<1>4. VerdictInv
  BY <1>a, <1>b DEF PageInit, VerdictInv, MessagesAreTrue, SentIsOneJob, EndIsSaidFirst, Outcomes
<1> QED
  BY <1>1, <1>2, <1>3, <1>4

\* The inductive invariant of the page, but for the contents of the streams.
PageInv == LockInv /\ EventInv /\ HubInv /\ LocalTypeOK /\ VerdictInv

LEMMA PageInvStep == PageInv /\ [PageNext]_vars => PageInv'
<1> SUFFICES ASSUME PageInv, [PageNext]_vars PROVE PageInv'
  OBVIOUS
<1>1. LockInv' /\ EventInv'
  BY PageManagerStep, LockStep, EventStep DEF PageInv
<1>2. HubInv' /\ LocalTypeOK'
  BY HubStep, LocalTypeStep DEF PageInv
<1>3. VerdictInv'
  BY TrueStep, SentStep DEF PageInv, VerdictInv
<1> QED
  BY <1>1, <1>2, <1>3 DEF PageInv

LEMMA PageInvHolds == PageSpec => []PageInv
  BY PageInitEstablishes, PageInvStep, PTL DEF PageSpec, PageInv

\* The end a page was told of is the one the job's row has, or will have unless its
\* UPDATE fails or the server dies first, for any number of pages, lines and jobs
\* and however small the buffer.
THEOREM PagesAreToldTheVerdict == PageSpec => []VerdictsAgree
<1>1. ASSUME PageInv PROVE VerdictsAgree
  <2>1. ASSUME NEW p \in Pages, NEW i \in DOMAIN got[p], got[p][i].verdict # "none"
        PROVE  jobs[got[p][i].job] \in {got[p][i].verdict, "running", "restarted"}
    <3>1. got[p] \in Seq(TrueMessages)
      BY <1>1 DEF PageInv, VerdictInv, MessagesAreTrue
    <3>2. got[p][i] \in TrueMessages
      BY <3>1
    <3> QED
      BY <2>1, <3>2 DEF TrueMessages, IsTrue
  <2> QED
    BY <1>1, <2>1 DEF PageInv, VerdictInv, EndIsSaidFirst, VerdictsAgree
<1> QED
  BY <1>1, PageInvHolds, PTL
-----------------------------------------------------------------------------
(* JobPage: what a connection carries                                      *)

\* The buffer is the end of what was said.
BufferIsTail ==
    /\ Len(buffer) = Buffered
    /\ \A i \in 1 .. Len(buffer) : buffer[i] = sent[(Len(sent) - Len(buffer)) + i]

GotIsOneJob == \A p \in Pages : \A i \in 1 .. Len(got[p]) : got[p][i].job = got[p][1].job

\* Of a job that has ended and is not the last one to speak.
IsOlder(msg) == ~Live(msg.job) /\ (sent # <<>> => msg.job # sent[1].job)

\* EndsWithLast, with what the next job's first message needs.
Carries(s, n) ==
    /\ n <= Len(s)
    /\ \A i \in 1 .. n : s[(Len(s) - n) + i] = sent[(Len(sent) - n) + i]
    /\ \A i \in 1 .. Len(s) - n : IsOlder(s[i])

StreamsCarry == \A p \in Subscribers : \E n \in Buffered .. Len(sent) : Carries(Stream(p), n)

StreamInv == BufferIsTail /\ GotIsOneJob /\ StreamsCarry

LEMMA HandedType ==
    ASSUME HubInv, NEW p \in Pages
    PROVE  /\ HandedTo(p) \in Seq(Messages)
           /\ got[p] \in Seq(Messages) /\ queue[p] \in Seq(Messages)
           /\ Stream(p) = got[p] \o (queue[p] \o HandedTo(p))
           /\ Stream(p) \in Seq(Messages)
<1>1. got[p] \in Seq(Messages) /\ queue[p] \in Seq(Messages) /\ sent \in Seq(Messages)
  BY DEF HubInv, HubTypeOK
<1>2. HandedTo(p) \in Seq(Messages)
  <2>1. CASE \E h \in handing : p \in h.to
    <3>1. Last(sent) \in Messages
      BY <1>1, <2>1, EmptySeq, ElementOfSeq DEF HubInv, OneIsHanded, Last
    <3> QED
      BY <2>1, <3>1 DEF HandedTo
  <2>2. CASE ~(\E h \in handing : p \in h.to)
    BY <2>2 DEF HandedTo
  <2> QED
    BY <2>1, <2>2
<1>3. Stream(p) = got[p] \o (queue[p] \o HandedTo(p))
  <2> DEFINE g == got[p]
             q == queue[p]
             h == HandedTo(p)
  <2>1. g \in Seq(Messages) /\ q \in Seq(Messages) /\ h \in Seq(Messages)
    BY <1>1, <1>2
  <2>2. Stream(p) = (g \o q) \o h
    BY DEF Stream
  <2> HIDE DEF g, q, h
  <2>3. (g \o q) \o h = g \o (q \o h)
    BY ONLY <2>1, ConcatAssociative
  <2>4. Stream(p) = g \o (q \o h)
    BY ONLY <2>2, <2>3
  <2> QED
    BY <2>4 DEF g, q, h
<1> QED
  BY <1>1, <1>2, <1>3, ConcatProperties

\* A message received moves from the queue to what was got.
LEMMA MovedByReceive ==
    ASSUME NEW S, NEW g \in Seq(S), NEW q \in Seq(S), q # <<>>
    PROVE  Append(g, Head(q)) \o Tail(q) = g \o q
<1> DEFINE m == Head(q)
           t == Tail(q)
<1>1. m \in S /\ t \in Seq(S) /\ Len(t) = Len(q) - 1 /\ \A i \in 1 .. Len(t) : t[i] = q[i + 1]
  BY HeadTailProperties
<1>2. m = q[1] /\ Len(q) \in Nat /\ Len(q) > 0
  BY EmptySeq
<1> HIDE DEF m, t
<1>3. Append(g, m) = g \o <<m>> /\ <<m>> \in Seq(S)
  BY <1>1, AppendIsConcat
<1>4. <<m>> \o t \in Seq(S) /\ Len(<<m>> \o t) = Len(q)
  BY <1>1, <1>2, <1>3, ConcatProperties
<1>5. \A i \in 1 .. Len(q) : (<<m>> \o t)[i] = q[i]
  <2>1. Len(<<m>>) = 1 /\ <<m>>[1] = m
    OBVIOUS
  <2>2. \A i \in 1 .. 1 + Len(t) : (<<m>> \o t)[i] = IF i <= 1 THEN <<m>>[i] ELSE t[i - 1]
    BY <1>1, <1>3, <2>1, ConcatProperties
  <2>3. ASSUME NEW i \in 1 .. Len(q) PROVE (<<m>> \o t)[i] = q[i]
    BY <1>1, <1>2, <2>1, <2>2
  <2> QED
    BY <2>3
<1>6. <<m>> \o t = q
  BY <1>4, <1>5, SeqEqual
<1>7. (g \o <<m>>) \o t = g \o (<<m>> \o t)
  BY <1>1, <1>3, ConcatAssociative
<1> QED
  BY <1>3, <1>6, <1>7 DEF m, t

\* A message posted moves from the loop of broadcast() to the queue.
LEMMA MovedByPost ==
    ASSUME NEW S, NEW g \in Seq(S), NEW q \in Seq(S), NEW m \in S
    PROVE  g \o (Append(q, m) \o <<>>) = g \o (q \o <<m>>)
  BY AppendIsConcat, AppendProperties, ConcatEmptySeq

\* The step of anyone but a broadcasting thread, a start and a subscription.
LEMMA CarriedOn ==
    ASSUME StreamsCarry, sent' = sent,
           \A j \in JobIds : Live(j)' => Live(j),
           \A p \in Subscribers' : p \in Subscribers /\ Stream(p)' = Stream(p),
           HubInv
    PROVE  StreamsCarry'
<1> SUFFICES ASSUME NEW p \in Subscribers'
             PROVE  \E n \in Buffered' .. Len(sent') : Carries(Stream(p), n)'
  BY DEF StreamsCarry
<1>1. PICK n \in Buffered .. Len(sent) : Carries(Stream(p), n)
  BY DEF StreamsCarry
<1>2. Stream(p) \in Seq(Messages)
  BY HandedType DEF Subscribers
<1>3. \A i \in 1 .. Len(Stream(p)) - n : Stream(p)[i].job \in JobIds
  <2>1. \A m \in Messages : m.job \in JobIds
    BY DEF Messages
  <2>2. Len(sent) \in Nat /\ BufferMax \in Nat /\ Len(Stream(p)) \in Nat
    BY <1>2, JobPageAssumption DEF HubInv, HubTypeOK
  <2>3. n \in Nat
    BY <2>2 DEF Buffered
  <2> QED
    BY <1>2, <2>1, <2>2, <2>3
<1>4. Buffered' = Buffered
  BY DEF Buffered
<1> QED
  BY <1>1, <1>3, <1>4 DEF Carries, IsOlder
LEMMA Numbers ==
    ASSUME HubInv
    PROVE  /\ BufferMax \in Nat /\ BufferMax > 0 /\ MaxLines \in Nat
           /\ Len(sent) \in Nat /\ Len(buffer) \in Nat
           /\ Buffered \in Nat /\ Buffered <= Len(sent) /\ Buffered <= BufferMax
           /\ sent # <<>> <=> Len(sent) > 0
  BY JobPageAssumption, EmptySeq DEF HubInv, HubTypeOK, Buffered

\* What the hub's lock protects: the buffer and the history of what was said.
LEMMA BufferSpoken ==
    ASSUME HubInv, BufferIsTail, NEW msg \in Messages, Broadcast(msg)
    PROVE  BufferIsTail'
<1> DEFINE len == Len(sent)
<1>1. /\ sent \in Seq(Messages) /\ buffer \in Seq(Messages) /\ Len(buffer) <= BufferMax
  BY DEF HubInv, HubTypeOK
<1>2. /\ sent' = Append(sent, msg)
      /\ \/ /\ Len(buffer) < BufferMax
            /\ buffer' = Append(buffer, msg)
         \/ /\ Len(buffer) = BufferMax /\ Len(buffer') = BufferMax
            /\ \A i \in 1 .. BufferMax :
                  buffer'[i] = IF i = BufferMax THEN msg ELSE buffer[i + 1]
  BY <1>1, BroadcastType
<1>3. /\ Len(sent') = len + 1 /\ sent'[len + 1] = msg
      /\ \A i \in 1 .. len : sent'[i] = sent[i]
  BY <1>1, <1>2, AppendProperties
<1>4. /\ len \in Nat /\ BufferMax \in Nat /\ BufferMax > 0 /\ Len(buffer) \in Nat
      /\ Len(buffer) = (IF len < BufferMax THEN len ELSE BufferMax)
      /\ \A i \in 1 .. Len(buffer) : buffer[i] = sent[(len - Len(buffer)) + i]
  BY Numbers DEF BufferIsTail, Buffered
<1>5. Buffered' = IF len + 1 < BufferMax THEN len + 1 ELSE BufferMax
  BY <1>3 DEF Buffered
<1> HIDE DEF len
<1>6. CASE Len(buffer) < BufferMax
  <2>1. /\ Len(buffer') = Len(buffer) + 1 /\ buffer'[Len(buffer) + 1] = msg
        /\ \A i \in 1 .. Len(buffer) : buffer'[i] = buffer[i]
    <3>1. buffer' = Append(buffer, msg)
      BY <1>2, <1>4, <1>6
    <3> QED
      BY <1>1, <3>1, AppendProperties
  <2>2. len = Len(buffer) /\ Len(buffer') = Buffered'
    BY <1>4, <1>5, <1>6, <2>1
  <2>3. \A i \in 1 .. Len(buffer') : buffer'[i] = sent'[i]
    <3>1. \A i \in 1 .. len : buffer[i] = sent[i]
      <4>1. \A i \in 1 .. len : (len - Len(buffer)) + i = i
        BY <1>4, <2>2
      <4> QED
        BY <1>4, <2>2, <4>1
    <3>2. ASSUME NEW i \in 1 .. Len(buffer') PROVE buffer'[i] = sent'[i]
      <4>1. i \in 1 .. len \/ i = len + 1
        BY <1>4, <2>1, <2>2
      <4> QED
        BY <1>3, <2>1, <2>2, <3>1, <4>1
    <3> QED
      BY <3>2
  <2>4. \A i \in 1 .. Len(buffer') : (Len(sent') - Len(buffer')) + i = i
    BY <1>3, <1>4, <2>1, <2>2
  <2> QED
    BY <2>2, <2>3, <2>4 DEF BufferIsTail
<1>7. CASE Len(buffer) = BufferMax
  <2>1. len >= BufferMax /\ Len(buffer') = BufferMax /\ Len(buffer') = Buffered'
    BY <1>2, <1>4, <1>5, <1>7
  <2>3. \A i \in 1 .. BufferMax :
           buffer'[i] = IF i = BufferMax THEN msg ELSE buffer[i + 1]
    BY <1>2, <1>4, <1>7
  <2>2. ASSUME NEW i \in 1 .. BufferMax
        PROVE  buffer'[i] = sent'[(Len(sent') - BufferMax) + i]
    <3>1. CASE i = BufferMax
      BY <1>3, <1>4, <2>3, <3>1
    <3>2. CASE i < BufferMax
      <4>1. buffer'[i] = buffer[i + 1] /\ i + 1 \in 1 .. Len(buffer)
        BY <1>4, <1>7, <2>3, <3>2
      <4>2. buffer[i + 1] = sent[(len - BufferMax) + (i + 1)]
        BY <1>4, <1>7, <4>1
      <4>3. (len - BufferMax) + (i + 1) \in 1 .. len
        BY <1>4, <2>1, <3>2
      <4>4. (Len(sent') - BufferMax) + i = (len - BufferMax) + (i + 1)
        BY <1>3, <1>4
      <4> QED
        BY <1>3, <4>1, <4>2, <4>3, <4>4
    <3> QED
      BY <1>4, <3>1, <3>2
  <2> QED
    BY <2>1, <2>2 DEF BufferIsTail
<1> QED
  BY <1>2, <1>6, <1>7

LEMMA CarriesOneMore ==
    ASSUME NEW s \in Seq(Messages), NEW n \in Nat, NEW msg \in Messages,
           Carries(s, n), sent \in Seq(Messages), n <= Len(sent),
           sent' = Append(sent, msg), sent # <<>> => sent[1].job = msg.job,
           Live(msg.job), \A i \in JobIds : Live(i)' => Live(i)
    PROVE  Carries(Append(s, msg), n + 1)'
<1> DEFINE t == Append(s, msg)
           len == Len(sent)
<1>1. /\ Len(sent') = len + 1 /\ sent'[len + 1] = msg
      /\ \A i \in 1 .. len : sent'[i] = sent[i]
      /\ len \in Nat /\ sent' # <<>> /\ (sent # <<>> => len > 0)
  BY AppendProperties, EmptySeq
<1>2. /\ Len(t) = Len(s) + 1 /\ t[Len(s) + 1] = msg /\ Len(s) \in Nat
      /\ \A i \in 1 .. Len(s) : t[i] = s[i]
  BY AppendProperties
<1>3. n <= Len(s) /\ n <= len
  BY DEF Carries
<1>4. sent'[1].job = msg.job
  <2>1. CASE sent # <<>>
    BY <1>1, <2>1
  <2>2. CASE sent = <<>>
    <3>1. len = 0
      BY <2>2
    <3> QED
      BY <1>1, <3>1
  <2> QED
    BY <2>1, <2>2
<1>5. ASSUME NEW i \in 1 .. n
      PROVE  s[(Len(s) - n) + i] = sent[(len - n) + i]
  BY DEF Carries
<1> HIDE DEF t, len
<1>6. ASSUME NEW i \in 1 .. n + 1
      PROVE  t[(Len(t) - (n + 1)) + i] = sent'[(Len(sent') - (n + 1)) + i]
  <2>1. /\ (Len(t) - (n + 1)) + i = (Len(s) - n) + i
        /\ (Len(sent') - (n + 1)) + i = (len - n) + i
    BY <1>1, <1>2, <1>3
  <2>2. CASE i = n + 1
    <3>1. (Len(s) - n) + i = Len(s) + 1 /\ (len - n) + i = len + 1
      BY <1>1, <1>2, <2>2
    <3> QED
      BY <1>1, <1>2, <2>1, <3>1
  <2>3. CASE i \in 1 .. n
    <3>1. Len(s) \in Nat /\ len \in Nat /\ n \in Nat
      BY <1>1, <1>2
    <3>2. (Len(s) - n) + i \in 1 .. Len(s) /\ (len - n) + i \in 1 .. len
      BY ONLY <1>3, <2>3, <3>1
    <3> QED
      BY <1>1, <1>2, <1>5, <2>1, <2>3, <3>2
  <2>4. n \in Nat /\ i \in 1 .. n + 1
    OBVIOUS
  <2>5. i = n + 1 \/ i \in 1 .. n
    BY ONLY <2>4
  <2> QED
    BY <2>2, <2>3, <2>5
<1>7. ASSUME NEW i \in 1 .. Len(t) - (n + 1)
      PROVE  IsOlder(t[i])'
  <2>1. i \in 1 .. Len(s) - n /\ i \in 1 .. Len(s)
    BY <1>2, <1>3
  <2>2. t[i] = s[i] /\ ~Live(s[i].job)
    BY <1>2, <2>1 DEF Carries, IsOlder
  <2>3. s[i].job \in JobIds
    <3>1. s[i] \in Messages
      BY <2>1, ElementOfSeq
    <3> QED
      BY <3>1 DEF Messages
  <2>4. ~Live(s[i].job)'
    BY <2>2, <2>3
  <2>5. s[i].job # msg.job
    BY <2>2
  <2> QED
    BY <1>4, <2>2, <2>4, <2>5 DEF IsOlder
<1>8. n + 1 <= Len(t)
  BY <1>2, <1>3
<1>9. Carries(t, n + 1)'
  <2>1. t' = t
    BY DEF t
  <2> QED
    BY <1>6, <1>7, <1>8, <2>1 DEF Carries
<1> QED
  BY <1>9 DEF t

\* The message just said goes to the end of every open connection.
LEMMA StreamsSpoken ==
    ASSUME LockInv, HubInv, SentIsOneJob, StreamsCarry,
           NEW j \in JobIds, thread[j] = "body", NEW v \in {"none"} \cup Outcomes,
           Broadcast(Message(j, v)), UNCHANGED pageVars,
           \A i \in JobIds : Live(i)' => Live(i)
    PROVE  StreamsCarry'
<1> DEFINE msg == Message(j, v)
<1>1. /\ msg \in Messages /\ msg.job = j /\ sent \in Seq(Messages)
      /\ sent' = Append(sent, msg) /\ handing = {}
      /\ handing' = IF Subscribers = {} THEN {} ELSE {[msg |-> msg, to |-> Subscribers]}
  BY MessageType DEF HubInv, HubTypeOK, ThreadHasRoom, Broadcast, Message
<1>2. Live(j) /\ UNCHANGED <<conn, queue, got>>
  BY DEF Live, pageVars
<1>3. sent # <<>> => sent[1].job = msg.job
  BY <1>1, <1>2 DEF SentIsOneJob
<1> HIDE DEF msg
<1>4. Len(sent') = Len(sent) + 1 /\ Last(sent') = msg
  BY <1>1, AppendProperties DEF Last
<1> SUFFICES ASSUME NEW p \in Subscribers
             PROVE  \E n \in Buffered' .. Len(sent') : Carries(Stream(p), n)'
  BY <1>2 DEF StreamsCarry, Subscribers
<1>5. p \in Pages
  BY DEF Subscribers
<1>6. Stream(p) \in Seq(Messages) /\ Stream(p)' = Append(Stream(p), msg)
  <2>1. HandedTo(p) = <<>>
    BY <1>1 DEF HandedTo
  <2>2. HandedTo(p)' = <<msg>>
    <3>1. Subscribers # {}
      OBVIOUS
    <3>2. handing' = {[msg |-> msg, to |-> Subscribers]}
      BY <1>1, <3>1
    <3> QED
      BY <1>4, <3>2 DEF HandedTo
  <2> DEFINE a == got[p]
             b == queue[p]
  <2>3. a \in Seq(Messages) /\ b \in Seq(Messages)
    BY <1>5, HandedType
  <2>4. Stream(p) = (a \o b) \o <<>> /\ Stream(p)' = (a \o b) \o <<msg>>
    BY <1>2, <2>1, <2>2 DEF Stream
  <2> HIDE DEF a, b
  <2>5. a \o b \in Seq(Messages)
    BY <2>3, ConcatProperties
  <2>6. (a \o b) \o <<>> = a \o b
    BY <2>5, ConcatEmptySeq
  <2>7. Append(a \o b, msg) = (a \o b) \o <<msg>>
    BY ONLY <1>1, <2>5, AppendIsConcat
  <2> QED
    BY <2>4, <2>5, <2>6, <2>7
<1>7. PICK n \in Buffered .. Len(sent) : Carries(Stream(p), n)
  BY DEF StreamsCarry
<1>8. n \in Nat /\ n <= Len(sent)
  BY Numbers
<1>9. ASSUME NEW s \in Seq(Messages), Carries(s, n), NEW m \in Messages, m = msg
      PROVE  Carries(Append(s, m), n + 1)'
  BY <1>1, <1>2, <1>3, <1>8, <1>9, CarriesOneMore
<1>10. n + 1 \in Buffered' .. Len(sent')
  BY <1>4, <1>8, Numbers DEF Buffered
<1>11. PICK s, t, m : s = Stream(p) /\ t = Stream(p)' /\ m = msg
  OBVIOUS
<1>12. Carries(t, n + 1)'
  <2>1. Carries(Append(s, m), n + 1)'
    BY <1>1, <1>6, <1>7, <1>9, <1>11
  <2>2. t = Append(s, m)
    BY <1>6, <1>11
  <2> QED
    BY <2>1, <2>2
<1>13. Carries(Stream(p), n + 1)'
  BY <1>11, <1>12 DEF Carries, IsOlder
<1> QED
  BY <1>10, <1>13
\* The prefix of another job is forgotten, and it is no part of the last one's.
LEMMA CarriesWithout ==
    ASSUME HubInv, SentIsOneJob,
           NEW g \in Seq(Messages), NEW t \in Seq(Messages), NEW n \in Nat,
           g # <<>>, t # <<>>, n <= Len(sent), Carries(g \o t, n),
           \A i \in 1 .. Len(g) : g[i].job = g[1].job, g[1].job # t[1].job
    PROVE  Carries(t, n)
<1> DEFINE s == g \o t
<1>1. /\ Len(s) = Len(g) + Len(t)
      /\ \A i \in 1 .. Len(g) + Len(t) : s[i] = IF i <= Len(g) THEN g[i] ELSE t[i - Len(g)]
  BY ConcatProperties
<1>2. /\ Len(g) \in Nat /\ Len(g) > 0 /\ Len(t) \in Nat /\ Len(t) > 0
      /\ Len(sent) \in Nat /\ n \in Nat
  BY EmptySeq DEF HubInv, HubTypeOK
<1>3. /\ n <= Len(s)
      /\ \A i \in 1 .. n : s[(Len(s) - n) + i] = sent[(Len(sent) - n) + i]
      /\ \A i \in 1 .. Len(s) - n : IsOlder(s[i])
  BY DEF Carries
<1>a. n <= Len(sent)
  OBVIOUS
<1> HIDE DEF s
<1>4. \A i \in 1 .. Len(t) : t[i] = s[Len(g) + i]
  <2>1. ASSUME NEW i \in 1 .. Len(t) PROVE t[i] = s[Len(g) + i]
    <3>1. Len(g) + i \in 1 .. Len(g) + Len(t) /\ ~(Len(g) + i <= Len(g)) /\ (Len(g) + i) - Len(g) = i
      BY ONLY <1>2, <2>1
    <3> QED
      BY <1>1, <3>1
  <2> QED
    BY <2>1
<1>5. n <= Len(t)
  <2> SUFFICES ASSUME ~(n <= Len(t)) PROVE FALSE
    OBVIOUS
  <2> DEFINE i == (n - Len(t))
  <2>1. /\ i \in 1 .. n /\ i + 1 \in 1 .. n
        /\ (Len(s) - n) + i = Len(g) /\ (Len(s) - n) + (i + 1) = Len(g) + 1
        /\ (Len(sent) - n) + i \in 1 .. Len(sent) /\ (Len(sent) - n) + (i + 1) \in 1 .. Len(sent)
    <3>1. n > Len(t)
      BY <1>2
    <3>2. Len(s) = Len(g) + Len(t) /\ n <= Len(s) /\ n <= Len(sent)
      BY <1>1, <1>3, <1>a
    <3> QED
      BY ONLY <1>2, <3>1, <3>2
  <2> HIDE DEF i
  <2>2. /\ s[Len(g)] = sent[(Len(sent) - n) + i]
        /\ s[Len(g) + 1] = sent[(Len(sent) - n) + (i + 1)]
    BY <1>3, <2>1
  <2>3. s[Len(g)].job = s[Len(g) + 1].job
    BY <2>1, <2>2 DEF SentIsOneJob
  <2>4. Len(g) \in 1 .. Len(g) + Len(t) /\ Len(g) <= Len(g) /\ 1 \in 1 .. Len(t) /\ Len(g) \in 1 .. Len(g)
    BY ONLY <1>2
  <2>5. s[Len(g)] = g[Len(g)] /\ s[Len(g) + 1] = t[1]
    BY <1>1, <1>4, <2>4
  <2> QED
    BY <2>3, <2>4, <2>5
<1>6. ASSUME NEW i \in 1 .. n
      PROVE  t[(Len(t) - n) + i] = sent[(Len(sent) - n) + i]
  <2>1. (Len(t) - n) + i \in 1 .. Len(t) /\ Len(g) + ((Len(t) - n) + i) = (Len(s) - n) + i
    BY ONLY <1>1, <1>2, <1>5, <1>6
  <2> QED
    BY <1>3, <1>4, <2>1
<1>7. ASSUME NEW i \in 1 .. Len(t) - n
      PROVE  IsOlder(t[i])
  <2>1. i \in 1 .. Len(t) /\ Len(g) + i \in 1 .. Len(s) - n
    <3>1. Len(s) = Len(g) + Len(t) /\ n <= Len(t)
      BY <1>1, <1>5
    <3> QED
      BY ONLY <1>2, <3>1, <1>7
  <2> QED
    BY <1>3, <1>4, <2>1
<1> QED
  BY <1>5, <1>6, <1>7 DEF Carries

LEMMA StreamReceived ==
    ASSUME HubInv, SentIsOneJob, GotIsOneJob, StreamsCarry, NEW p \in Pages, Receive(p)
    PROVE  StreamsCarry'
<1>1. /\ queue[p] # <<>>
      /\ got' = [got EXCEPT ![p] = Append(OfJob(got[p], Head(queue[p]).job), Head(queue[p]))]
      /\ queue' = [queue EXCEPT ![p] = Tail(queue[p])]
      /\ UNCHANGED <<conn, handing, sent, thread>>
  BY DEF Receive, hubVars, jobVars
<1>2. /\ got \in [Pages -> Seq(Messages)] /\ queue \in [Pages -> Seq(Messages)]
  BY DEF HubInv, HubTypeOK
<1>3. \A q \in Pages : HandedTo(q)' = HandedTo(q)
  BY <1>1 DEF HandedTo
<1>4. /\ Subscribers' = Subscribers /\ Buffered' = Buffered
      /\ \A s, n : Carries(s, n) <=> Carries(s, n)'
  BY <1>1 DEF Subscribers, Buffered, Carries, IsOlder, Live
<1> SUFFICES ASSUME NEW x \in Subscribers
             PROVE  \E n \in Buffered' .. Len(sent') : Carries(Stream(x), n)'
  BY <1>4 DEF StreamsCarry
<1>5. PICK n \in Buffered .. Len(sent) : Carries(Stream(x), n)
  BY DEF StreamsCarry
<1>6. n \in Nat /\ n <= Len(sent) /\ n \in Buffered' .. Len(sent') /\ x \in Pages
  BY <1>1, <1>4, Numbers DEF Subscribers
<1>7. PICK t : t = Stream(x)'
  OBVIOUS
<1>8. Carries(t, n)
  <2> DEFINE g == got[p]
             q == queue[p]
             h == HandedTo(p)
             msg == Head(q)
  <2>1. CASE x # p
    <3>1. Stream(x)' = Stream(x)
      BY <1>1, <1>2, <1>3, <1>6, <2>1 DEF Stream
    <3> QED
      BY <1>5, <1>7, <3>1
  <2>2. /\ g \in Seq(Messages) /\ q \in Seq(Messages) /\ h \in Seq(Messages)
        /\ q # <<>>
    BY <1>1, HandedType
  <2>9. msg = q[1]
    BY <2>2
  <2>3. got'[p] = Append(OfJob(g, msg.job), msg) /\ queue'[p] = Tail(q)
    BY <1>1, <1>2
  <2>4. Stream(p) = (g \o q) \o h
    BY DEF Stream
  <2>5. Stream(p)' = (Append(OfJob(g, msg.job), msg) \o Tail(q)) \o h
    BY <1>3, <2>3 DEF Stream
  <2>6. \A i \in 1 .. Len(g) : g[i].job = g[1].job
    BY DEF GotIsOneJob
  <2> HIDE DEF g, q, h, msg
  <2>7. CASE x = p /\ OfJob(g, msg.job) = g
    <3>1. Append(g, msg) \o Tail(q) = g \o q
      BY ONLY <2>2, MovedByReceive DEF msg
    <3> QED
      BY <1>5, <1>7, <2>4, <2>5, <2>7, <3>1
  <2>8. CASE x = p /\ OfJob(g, msg.job) # g
    <3>1. OfJob(g, msg.job) = <<>> /\ g # <<>> /\ g[1].job # msg.job
      BY <2>8 DEF OfJob
    <3>2. <<>> \in Seq(Messages) /\ <<>> \o q = q
      BY <2>2, ConcatEmptySeq
    <3>3. Append(<<>>, msg) \o Tail(q) = q
      BY ONLY <2>2, <3>2, MovedByReceive DEF msg
    <3>4. t = q \o h
      BY <1>7, <2>5, <2>8, <3>1, <3>3
    <3>5. Stream(p) = g \o t
      BY ONLY <2>2, <2>4, <3>4, ConcatAssociative
    <3>6. t \in Seq(Messages) /\ t[1] = q[1] /\ t # <<>>
      <4>1. Len(q) \in Nat /\ Len(q) > 0 /\ Len(h) \in Nat
        BY <2>2, EmptySeq
      <4>2. t \in Seq(Messages) /\ Len(t) = Len(q) + Len(h) /\ t[1] = q[1]
        <5>1. 1 \in 1 .. Len(q) + Len(h) /\ 1 <= Len(q)
          BY ONLY <4>1
        <5> QED
          BY <2>2, <3>4, <5>1, ConcatProperties
      <4> QED
        BY <4>1, <4>2, EmptySeq
    <3> QED
      BY <1>5, <1>6, <2>2, <2>6, <2>8, <2>9, <3>1, <3>5, <3>6, CarriesWithout
  <2> QED
    BY <2>1, <2>7, <2>8
<1>9. Carries(t, n)'
  BY <1>4, <1>8
<1>10. Carries(Stream(x), n)'
  BY <1>7, <1>9 DEF Carries, IsOlder
<1> QED
  BY <1>6, <1>10
\* broadcast() moves its message from the loop to the queue of one page.
LEMMA StreamPosted ==
    ASSUME HubInv, Post, NEW x \in Pages
    PROVE  Stream(x)' = Stream(x)
<1>1. PICK h \in handing : \E p \in h.to :
         /\ queue' = [queue EXCEPT ![p] = Append(@, h.msg)]
         /\ handing' = IF h.to = {p} THEN {} ELSE {[h EXCEPT !.to = @ \ {p}]}
  BY DEF Post
<1>2. PICK p \in h.to :
         /\ queue' = [queue EXCEPT ![p] = Append(@, h.msg)]
         /\ handing' = IF h.to = {p} THEN {} ELSE {[h EXCEPT !.to = @ \ {p}]}
  BY <1>1
<1>3. /\ h \in [msg : Messages, to : (SUBSET Pages) \ {{}}] /\ p \in Pages
      /\ queue \in [Pages -> Seq(Messages)] /\ got' = got /\ sent' = sent
      /\ h.msg = Last(sent) /\ \A k \in handing : k = h
  BY DEF Post, HubInv, HubTypeOK, OneIsHanded, Last
<1>a. h \in [msg : Messages, to : (SUBSET Pages) \ {{}}]
  BY <1>3
<1>4. [h EXCEPT !.to = @ \ {p}] = [msg |-> h.msg, to |-> h.to \ {p}]
  BY ONLY <1>a
<1>5. \A k \in handing' : k.to = h.to \ {p}
  BY <1>2, <1>4
<1>6. h.to # {p} => \E k \in handing' : k.to = h.to \ {p}
  BY <1>2, <1>4
<1>7. HandedTo(x)' = IF x \in h.to \ {p} THEN <<Last(sent)>> ELSE <<>>
  BY <1>3, <1>5, <1>6 DEF HandedTo
<1>8. HandedTo(x) = IF x \in h.to THEN <<Last(sent)>> ELSE <<>>
  BY <1>3 DEF HandedTo
<1>9. CASE x # p
  <2>1. HandedTo(x)' = HandedTo(x)
    BY <1>7, <1>8, <1>9
  <2>2. queue'[x] = queue[x] /\ got'[x] = got[x]
    BY <1>2, <1>3, <1>9
  <2> QED
    BY <2>1, <2>2 DEF Stream
<1>10. CASE x = p
  <2> DEFINE g == got[p]
             q == queue[p]
             m == h.msg
  <2>1. g \in Seq(Messages) /\ q \in Seq(Messages) /\ m \in Messages
    BY <1>3, HandedType
  <2>2. Stream(x) = (g \o q) \o <<m>>
    BY <1>3, <1>8, <1>10 DEF Stream
  <2>3. Stream(x)' = (g \o Append(q, m)) \o <<>>
    BY <1>2, <1>3, <1>7, <1>10 DEF Stream
  <2> HIDE DEF g, q, m
  <2>4. /\ Append(q, m) = q \o <<m>> /\ Append(q, m) \in Seq(Messages) /\ <<m>> \in Seq(Messages)
    BY <2>1, AppendIsConcat, AppendProperties
  <2>5. (g \o Append(q, m)) \o <<>> = g \o Append(q, m)
    BY ONLY <2>1, <2>4, ConcatProperties, ConcatEmptySeq
  <2>6. (g \o q) \o <<m>> = g \o (q \o <<m>>)
    BY ONLY <2>1, <2>4, ConcatAssociative
  <2> QED
    BY ONLY <2>2, <2>3, <2>4, <2>5, <2>6
<1> QED
  BY <1>9, <1>10

LEMMA StreamUndisturbed ==
    ASSUME HubInv, NEW p \in Pages, Disconnect(p), NEW x \in Pages, x # p
    PROVE  Stream(x)' = Stream(x)
<1>1. /\ sent' = sent /\ got'[x] = got[x] /\ queue'[x] = queue[x]
      /\ handing' = {[h EXCEPT !.to = @ \ {p}] : h \in {y \in handing : y.to # {p}}}
  BY DEF Disconnect, Gone, HubInv, HubTypeOK
<1>2. \A h \in handing : h \in [msg : Messages, to : (SUBSET Pages) \ {{}}]
  BY DEF HubInv, HubTypeOK
<1>3. \A h \in handing : [h EXCEPT !.to = @ \ {p}].to = h.to \ {p}
  BY <1>2
<1>4. (\E h \in handing : x \in h.to) <=> (\E h \in handing' : x \in h.to)
  <2>1. ASSUME NEW h \in handing, x \in h.to PROVE \E k \in handing' : x \in k.to
    <3>1. h.to # {p} /\ [h EXCEPT !.to = @ \ {p}] \in handing'
      BY <1>1, <2>1
    <3> QED
      BY <1>3, <2>1, <3>1
  <2>2. ASSUME NEW k \in handing', x \in k.to PROVE \E h \in handing : x \in h.to
    <3>1. PICK h \in handing : k = [h EXCEPT !.to = @ \ {p}]
      BY <1>1
    <3> QED
      BY <1>3, <2>2, <3>1
  <2> QED
    BY <2>1, <2>2
<1>5. HandedTo(x)' = HandedTo(x)
  BY <1>1, <1>4 DEF HandedTo
<1> QED
  BY <1>1, <1>5 DEF Stream

\* A page that subscribes is given the buffer, and nothing that is being handed out.
LEMMA StreamSubscribed ==
    ASSUME HubInv, BufferIsTail, StreamsCarry, NEW p \in Pages, Subscribe(p),
           conn \in [Pages -> {"closed", "opening", "open"}]
    PROVE  StreamsCarry'
<1>1. /\ conn[p] = "opening" /\ conn' = [conn EXCEPT ![p] = "open"]
      /\ queue' = [queue EXCEPT ![p] = buffer]
      /\ UNCHANGED <<sent, handing, got, thread, buffer>>
  BY DEF Subscribe, hubVars, jobVars
<1>2. \A q \in Pages : HandedTo(q)' = HandedTo(q)
  BY <1>1 DEF HandedTo
<1>3. /\ Buffered' = Buffered /\ \A s, n : Carries(s, n) <=> Carries(s, n)'
  BY <1>1 DEF Buffered, Carries, IsOlder, Live
<1>4. queue \in [Pages -> Seq(Messages)] /\ buffer \in Seq(Messages)
  BY DEF HubInv, HubTypeOK
<1> SUFFICES ASSUME NEW x \in Subscribers'
             PROVE  \E n \in Buffered' .. Len(sent') : Carries(Stream(x), n)'
  BY DEF StreamsCarry
<1>5. x \in Pages /\ (x # p => x \in Subscribers)
  BY <1>1 DEF Subscribers
<1>6. PICK t : t = Stream(x)'
  OBVIOUS
<1>7. \E n \in Buffered .. Len(sent) : Carries(t, n)
  <2>1. CASE x # p
    <3>1. Stream(x)' = Stream(x)
      BY <1>1, <1>2, <1>4, <1>5, <2>1 DEF Stream
    <3> QED
      BY <1>5, <1>6, <2>1, <3>1 DEF StreamsCarry
  <2>2. CASE x = p
    <3>1. got[p] = <<>>
      BY <1>1 DEF HubInv, ClosedIsEmpty
    <3>2. HandedTo(p) = <<>>
      BY <1>1 DEF HubInv, OneIsHanded, HandedTo
    <3>3. t = (<<>> \o buffer) \o <<>>
      BY <1>1, <1>2, <1>4, <1>6, <2>2, <3>1, <3>2 DEF Stream
    <3>4. t = buffer
      BY <1>4, <3>3, ConcatEmptySeq
    <3>5. Carries(buffer, Buffered) /\ Buffered \in Buffered .. Len(sent)
      BY Numbers DEF BufferIsTail, Carries
    <3> QED
      BY <3>4, <3>5
  <2> QED
    BY <2>1, <2>2
<1>8. PICK n \in Buffered .. Len(sent) : Carries(t, n)
  BY <1>7
<1>9. Carries(t, n)' /\ n \in Buffered' .. Len(sent')
  BY <1>1, <1>3, <1>8
<1>10. Carries(Stream(x), n)'
  BY <1>6, <1>9 DEF Carries, IsOlder
<1> QED
  BY <1>9, <1>10

\* A start makes all that was said old.
LEMMA StreamStarted ==
    ASSUME LockInv, HubInv, MessagesAreTrue, StreamsCarry,
           NEW j \in JobIds, StartJob(j), UNCHANGED <<conn, queue, got>>
    PROVE  StreamsCarry'
<1>1. /\ handing = {} /\ handing' = {} /\ sent' = <<>>
      /\ \A i \in JobIds : thread'[i] # "none" => i = j
      /\ jobs[j] = "none"
  BY ClearedHub
  DEF StartJob, TryStart, IsNextId, LockInv, TypeOK, ThreadIsClaimed, Live, HubInv, HandedByThread,
      Outcomes
<1> SUFFICES ASSUME NEW x \in Subscribers
             PROVE  \E n \in Buffered' .. Len(sent') : Carries(Stream(x), n)'
  BY DEF StreamsCarry, Subscribers
<1>2. x \in Pages /\ Len(sent') = 0 /\ Buffered' = 0
  BY <1>1, JobPageAssumption DEF Subscribers, Buffered
<1>3. Stream(x) \in Seq(TrueMessages) /\ Stream(x)' = Stream(x)
  <2>1. HandedTo(x) = <<>> /\ HandedTo(x)' = <<>>
    BY <1>1 DEF HandedTo
  <2> DEFINE g == got[x]
             q == queue[x]
  <2>2. g \in Seq(TrueMessages) /\ q \in Seq(TrueMessages)
    BY <1>2 DEF MessagesAreTrue
  <2>3. Stream(x) = (g \o q) \o <<>> /\ Stream(x)' = (g \o q) \o <<>>
    BY <2>1 DEF Stream
  <2> HIDE DEF g, q
  <2>4. g \o q \in Seq(TrueMessages)
    BY <2>2, ConcatProperties
  <2>5. (g \o q) \o <<>> = g \o q
    BY <2>4, ConcatEmptySeq
  <2> QED
    BY <2>3, <2>4, <2>5
<1>4. PICK t : t = Stream(x)
  OBVIOUS
<1>5. ASSUME NEW i \in 1 .. Len(t) PROVE IsOlder(t[i])'
  <2>1. t[i] \in TrueMessages
    BY <1>3, <1>4, ElementOfSeq
  <2>2. t[i].job \in JobIds /\ jobs[t[i].job] # "none"
    BY <2>1 DEF TrueMessages, IsTrue, Messages
  <2> QED
    BY <1>1, <2>2 DEF IsOlder, Live
<1>6. Carries(t, 0)'
  <2>1. Len(t) \in Nat
    BY <1>3, <1>4
  <2>2. 0 <= Len(t) /\ Len(t) - 0 = Len(t)
    BY ONLY <2>1
  <2>3. \A i \in 1 .. 0 : FALSE
    OBVIOUS
  <2> QED
    BY <1>5, <2>2, <2>3 DEF Carries
<1>7. Carries(Stream(x), 0)'
  BY <1>3, <1>4, <1>6 DEF Carries, IsOlder
<1> QED
  BY <1>2, <1>7
LEMMA GotStep ==
    ASSUME HubInv, GotIsOneJob, [PageNext]_vars
    PROVE  GotIsOneJob'
<1>1. CASE got' = got
  BY <1>1 DEF GotIsOneJob
<1>2. got \in [Pages -> Seq(Messages)] /\ queue \in [Pages -> Seq(Messages)]
  BY DEF HubInv, HubTypeOK
<1>3. ASSUME NEW p \in Pages, Receive(p) PROVE GotIsOneJob'
  <2> DEFINE m == Head(queue[p])
             g == OfJob(got[p], m.job)
  <2>1. queue[p] # <<>> /\ got' = [got EXCEPT ![p] = Append(g, m)]
    BY <1>3 DEF Receive
  <2>2. m \in Messages
    BY <1>2, <2>1, HeadTailProperties
  <2>3. \A i \in 1 .. Len(g) : g[i].job = m.job
    BY DEF OfJob, GotIsOneJob
  <2>4. g \in Seq(Messages)
    BY <1>2, OfJobType
  <2> HIDE DEF g, m
  <2>5. /\ Len(Append(g, m)) = Len(g) + 1 /\ Append(g, m)[Len(g) + 1] = m /\ Len(g) \in Nat
        /\ \A i \in 1 .. Len(g) : Append(g, m)[i] = g[i]
    BY <2>2, <2>4, AppendProperties
  <2>6. \A i \in 1 .. Len(g) + 1 : i \in 1 .. Len(g) \/ i = Len(g) + 1
    BY <2>5
  <2>7. \A i \in 1 .. Len(Append(g, m)) : Append(g, m)[i].job = m.job
    BY <2>3, <2>5, <2>6
  <2>8. 1 \in 1 .. Len(Append(g, m))
    BY <2>5
  <2>9. \A q \in Pages : got'[q] = IF q = p THEN Append(g, m) ELSE got[q]
    BY <1>2, <2>1
  <2> QED
    BY <2>7, <2>8, <2>9 DEF GotIsOneJob
<1>4. ASSUME NEW p \in Pages, Disconnect(p) PROVE GotIsOneJob'
  <2>1. \A q \in Pages : got'[q] = IF q = p THEN <<>> ELSE got[q]
    BY <1>2, <1>4 DEF Disconnect, Gone
  <2> QED
    BY <2>1 DEF GotIsOneJob
<1>5. CASE ServerDies
  BY <1>5 DEF ServerDies, GotIsOneJob
<1>6. CASE \E j \in JobIds : StartElsewhere(j) \/ JobStep(j)
  BY <1>1, <1>6 DEF StartElsewhere, JobStep, Launch, Emit, EndJob, Finish, pageVars
<1>7. ASSUME NEW p \in Pages, Subscribe(p) \/ Answer(p) \/ Load(p) \/ ClickStart(p) \/ Serve(p)
      PROVE  GotIsOneJob'
  BY <1>1, <1>7 DEF Subscribe, Answer, Load, ClickStart, Serve, ServeStart, ServeStatus
<1>8. CASE Stop \/ Post \/ ServerStarts \/ UNCHANGED vars
  BY <1>1, <1>8 DEF Stop, Post, ServerStarts, vars, pageVars
<1> QED
  BY <1>3, <1>4, <1>5, <1>6, <1>7, <1>8 DEF PageNext, PageStep, UserStep

LEMMA BufferKept ==
    ASSUME HubInv, BufferIsTail
    PROVE  /\ buffer' = buffer /\ sent' = sent => BufferIsTail'
           /\ buffer' = <<>> /\ sent' = <<>> => BufferIsTail'
<1>1. ASSUME buffer' = buffer, sent' = sent PROVE BufferIsTail'
  BY <1>1 DEF BufferIsTail, Buffered
<1>2. ASSUME buffer' = <<>>, sent' = <<>> PROVE BufferIsTail'
  <2>1. Len(buffer') = 0 /\ Len(sent') = 0 /\ Buffered' = 0
    BY <1>2, JobPageAssumption DEF Buffered
  <2> QED
    BY <2>1 DEF BufferIsTail
<1> QED
  BY <1>1, <1>2

LEMMA StreamStep ==
    ASSUME PageInv, StreamInv, [PageNext]_vars
    PROVE  StreamInv'
<1> USE DEF PageInv, VerdictInv, StreamInv
<1> DEFINE Goal == BufferIsTail' /\ StreamsCarry'
<1>a. /\ thread \in [JobIds -> ThreadStates] /\ conn \in [Pages -> {"closed", "opening", "open"}]
  BY DEF LockInv, TypeOK, LocalTypeOK
<1>1. ASSUME NEW j \in JobIds, StartJob(j), UNCHANGED <<conn, queue, got>> PROVE Goal
  BY <1>1, StreamStarted, BufferKept DEF StartJob
<1>2. ASSUME NEW j \in JobIds, thread[j] = "body", NEW v \in {"none"} \cup Outcomes,
             Broadcast(Message(j, v)), UNCHANGED pageVars,
             \A i \in JobIds : Live(i)' => Live(i)
      PROVE  Goal
  <2>1. Message(j, v) \in Messages
    BY <1>2, MessageType DEF HubInv, HubTypeOK, ThreadHasRoom
  <2> QED
    BY <1>2, <2>1, StreamsSpoken, BufferSpoken
<1>3. ASSUME NEW j \in JobIds, Emit(j) PROVE Goal
  BY <1>2, <1>3 DEF Emit, jobVars, Live
<1>4. ASSUME NEW j \in JobIds, NEW o \in Outcomes, EndJob(j, o) PROVE Goal
  BY <1>a, <1>2, <1>4 DEF EndJob, EndBody, Live
<1>5. ASSUME sent' = sent, buffer' = buffer,
             \A i \in JobIds : Live(i)' => Live(i),
             \A x \in Subscribers' : x \in Subscribers /\ Stream(x)' = Stream(x)
      PROVE  Goal
  BY <1>5, CarriedOn, BufferKept
<1>6. ASSUME UNCHANGED <<sent, buffer, handing, conn, queue, got>>,
             \A i \in JobIds : Live(i)' => Live(i)
      PROVE  Goal
  BY <1>5, <1>6 DEF Subscribers, Stream, HandedTo
<1>7. ASSUME NEW j \in JobIds, Launch(j) \/ Finish(j) PROVE Goal
  <2>1. \A i \in JobIds : Live(i)' => Live(i)
    BY <1>a, <1>7 DEF Launch, LaunchThread, LaunchFails, Finish, CloseRow, CloseRowFails, Release,
       Live, Outcomes
  <2> QED
    BY <1>6, <1>7, <2>1 DEF Launch, Finish, hubVars, pageVars
<1>8. ASSUME NEW p \in Pages, Subscribe(p) PROVE Goal
  BY <1>a, <1>8, StreamSubscribed, BufferKept DEF Subscribe, hubVars
<1>9. ASSUME NEW p \in Pages, Receive(p) PROVE Goal
  BY <1>9, StreamReceived, BufferKept DEF Receive, hubVars
<1>10. ASSUME NEW p \in Pages, ServeStart(p) PROVE Goal
  BY <1>1, <1>6, <1>10 DEF ServeStart, hubVars, jobVars, Live
<1>11. ASSUME NEW p \in Pages, Answer(p) \/ ClickStart(p) \/ ServeStatus(p) PROVE Goal
  BY <1>6, <1>11 DEF Answer, ClickStart, ServeStatus, hubVars, jobVars, Live
<1>12. ASSUME NEW p \in Pages, Load(p) PROVE Goal
  BY <1>a, <1>5, <1>12 DEF Load, hubVars, jobVars, Live, Subscribers, Stream, HandedTo
<1>13. ASSUME NEW p \in Pages, Disconnect(p) PROVE Goal
  <2>1. UNCHANGED <<thread, buffer, sent>> /\ conn' = [conn EXCEPT ![p] = "closed"]
    BY <1>13 DEF Disconnect, Gone, jobVars
  <2>2. \A x \in Subscribers' : x \in Subscribers /\ x \in Pages /\ x # p
    BY <1>a, <2>1 DEF Subscribers
  <2>3. \A x \in Subscribers' : Stream(x)' = Stream(x)
    BY <1>13, <2>2, StreamUndisturbed
  <2> QED
    BY <1>5, <2>1, <2>2, <2>3 DEF Live
<1>14. ASSUME Post PROVE Goal
  <2>1. UNCHANGED <<thread, buffer, sent, conn>>
    BY <1>14 DEF Post, jobVars
  <2>2. \A x \in Subscribers' : x \in Subscribers /\ x \in Pages
    BY <2>1 DEF Subscribers
  <2>3. \A x \in Subscribers' : Stream(x)' = Stream(x)
    BY <1>14, <2>2, StreamPosted
  <2> QED
    BY <1>5, <2>1, <2>2, <2>3 DEF Live
<1>15. ASSUME Stop \/ ServerStarts \/ UNCHANGED vars PROVE Goal
  BY <1>6, <1>15 DEF Stop, StopCheck, RequestCancel, ServerStarts, Restart, vars, hubVars, pageVars,
     jobVars, Live
<1>16. ASSUME ServerDies PROVE Goal
  <2>1. Subscribers' = {}
    BY <1>16 DEF ServerDies, Subscribers
  <2> QED
    BY <1>16, <2>1, BufferKept DEF ServerDies, StreamsCarry
<1>17. GotIsOneJob'
  BY GotStep
<1>18. \A j \in JobIds : StartElsewhere(j) => StartJob(j) /\ UNCHANGED <<conn, queue, got>>
  BY DEF StartElsewhere, pageVars
<1> HIDE DEF Goal, PageInv, VerdictInv, StreamInv
<1>19. Goal
  BY <1>1, <1>3, <1>4, <1>7, <1>8, <1>9, <1>10, <1>11, <1>12, <1>13, <1>14, <1>15, <1>16, <1>18
  DEF PageNext, JobStep, PageStep, UserStep, Serve
<1> QED
  BY <1>17, <1>19 DEF Goal, StreamInv

\* Whenever a page subscribed, its connection brings it the messages of the last job
\* in order, each once, and none is missing but those the buffer had dropped: for any
\* number of pages, jobs and lines and any buffer size, through reconnections, other
\* administrators' starts, crashes and restarts.
THEOREM PagesGetEveryMessage == PageSpec => []ConnectionsAreExact
<1>1. PageInit => StreamInv
  <2> SUFFICES ASSUME PageInit PROVE StreamInv
    OBVIOUS
  <2>1. Subscribers = {} /\ Len(buffer) = 0 /\ Len(sent) = 0 /\ \A p \in Pages : Len(got[p]) = 0
    BY DEF PageInit, Subscribers
  <2>2. Buffered = 0
    BY <2>1, JobPageAssumption DEF Buffered
  <2> QED
    BY <2>1, <2>2 DEF StreamInv, BufferIsTail, GotIsOneJob, StreamsCarry
<1>2. ASSUME PageInv, StreamInv PROVE ConnectionsAreExact
  <2>1. PageTypeOK
    BY <1>2 DEF PageInv, HubInv, HubTypeOK, LocalTypeOK, PageTypeOK
  <2>2. ASSUME NEW s, NEW n, Carries(s, n) PROVE EndsWithLast(s, n)
    BY <2>2 DEF Carries, EndsWithLast, IsOlder
  <2>3. StreamIsExact
    BY <1>2, <2>2 DEF StreamInv, StreamsCarry, StreamIsExact
  <2> QED
    BY <2>1, <2>3 DEF ConnectionsAreExact
<1>3. PageInv /\ StreamInv /\ [PageNext]_vars => StreamInv'
  BY StreamStep
<1> QED
  BY <1>1, <1>2, <1>3, PageInvHolds, PTL DEF PageSpec


=============================================================================
