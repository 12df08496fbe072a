------------------------ MODULE Incorporation_proofs ------------------------
(***************************************************************************)
(* For any number of archives, limits, filters, ranges and batch sizes.    *)
(* First the loader.  However many workers, resets and uploads interfere:  *)
(* the table is well typed and WorkIsOnRecord holds.  With one worker      *)
(* (section `One worker') nobody else takes its rows: then the status      *)
(* columns can be believed, the queues drain exactly, and each archive     *)
(* goes through the lifecycle of SessionLifecycle.                         *)
(*                                                                         *)
(* Then the server that composes it with the job manager: it only takes    *)
(* steps that JobManager and Loader allow, so that what is proved of       *)
(* either holds in it, and the pipeline runs under the manager's lock.     *)
(***************************************************************************)
EXTENDS Incorporation, TLAPS

\* Why WorkIsOnRecord holds although Part C looks at a row's status only in its
\* snapshot: structures and entities never become NULL again, so what the
\* snapshot selected still has structures when its turn comes.
QueueIsParsed ==
    \A w \in Workers :
        pc[w] \in {"extract", "extracting", "marking"} =>
            \A a \in queue[w] : structures[a] # 0

HandIsParsed ==
    \A w \in Workers :
        pc[w] \in {"extracting", "marking"} => structures[cur[w]] # 0 /\ seen[w] # 0

MarkingIsIncorporated ==
    \A w \in Workers : pc[w] = "marking" => entities[cur[w]] # 0

HandIsTaken ==
    \A w \in Workers : pc[w] \in {"parsing", "extracting", "marking"} => cur[w] \in Archives

RecordInv ==
    /\ WorkIsOnRecord
    /\ QueueIsParsed
    /\ HandIsParsed
    /\ MarkingIsIncorporated
    /\ HandIsTaken

IInv == TypeOK /\ RecordInv

-----------------------------------------------------------------------------

\* The only arithmetic the proofs need.
LEMMA Ranges ==
    /\ 0 \in ArchiveRef /\ Archives \subseteq ArchiveRef /\ 0 \notin Archives
    /\ 0 \in VersionRef /\ Versions \subseteq VersionRef /\ 0 \notin Versions
  BY LoaderAssumption DEF Archives, ArchiveRef, Versions, VersionRef

LEMMA NewestIsSubset == ASSUME NEW S, NEW n PROVE Newest(S, n) \subseteq S
  BY DEF Newest

LEMMA SliceIsSubset == ASSUME NEW S, NEW n, NEW T \in Slices(S, n) PROVE T \subseteq S
  BY DEF Slices

LEMMA FirstPartType ==
    ASSUME NEW stage \in AllStages
    PROVE  FirstPart(stage) \in {"scan", "requeue", "parseQueue", "extractQueue", "clearParse"}
  BY DEF AllStages, FirstPart

LEMMA PartsFollow ==
    ASSUME NEW stage
    PROVE  /\ AfterRegister(stage) \in {"completed", "parseQueue"}
           /\ AfterParse(stage) \in {"completed", "extractQueue"}
           /\ AfterExtract(stage) \in {"completed", "thumbs"}
  BY DEF AfterRegister, AfterParse, AfterExtract

LEMMA StatusType ==
    ASSUME status \in [Archives -> Statuses], NEW S, NEW st \in Statuses, SetStatus(S, st)
    PROVE  status' \in [Archives -> Statuses]
  BY DEF SetStatus

LEMMA FailureType ==
    ASSUME failure \in [Archives -> BOOLEAN], NEW S, NEW e \in BOOLEAN, SetError(S, e)
    PROVE  failure' \in [Archives -> BOOLEAN]
  BY DEF SetError

-----------------------------------------------------------------------------
(* Type correctness                                                        *)

LEMMA GotoType ==
    ASSUME TypeOK, NEW w, NEW part \in Parts \cup Ends \cup {"idle"}, Goto(w, part)
    PROVE  pc' \in [Workers -> Parts \cup Ends \cup {"idle"}]
  BY DEF TypeOK, Goto

LEMMA InitTyped == Init => TypeOK
  BY Ranges DEF Init, TypeOK, Statuses, Parts, Ends

LEMMA StepTyped ==
    ASSUME TypeOK, HandIsTaken, [Next]_loaderVars
    PROVE  TypeOK'
<1> USE GotoType
    DEF TypeOK, diskVars, tableVars, workVars, historyVars, Parts, Ends
<1>1. ASSUME NEW w \in Workers, InsertDone(w)
      PROVE  TypeOK'
  BY <1>1, PartsFollow DEF InsertDone
<1>2. ASSUME NEW w \in Workers, ParseDone(w)
      PROVE  TypeOK'
  BY <1>2, PartsFollow DEF ParseDone
<1>3. ASSUME NEW w \in Workers, ExtractDone(w)
      PROVE  TypeOK'
  BY <1>3, PartsFollow DEF ExtractDone
<1>4. ASSUME NEW w \in Workers, MakeThumbnails(w)
      PROVE  TypeOK'
  BY <1>4 DEF MakeThumbnails
<1>5. ASSUME NEW w \in Workers, Fail(w)
      PROVE  TypeOK'
  BY <1>5 DEF Fail
<1>6. ASSUME NEW w \in Workers, Interrupt(w)
      PROVE  TypeOK'
  BY <1>6 DEF Interrupt
<1>7. ASSUME NEW w \in Workers, HandlerRaises(w)
      PROVE  TypeOK'
  BY <1>7, Ranges DEF HandlerRaises, HandIsTaken
<1>8. ASSUME NEW w \in Workers, Incorporate(w)
      PROVE  TypeOK'
  BY <1>8 DEF Incorporate
<1>9. ASSUME NEW w \in Workers, ParseNext(w)
      PROVE  TypeOK'
  BY <1>9, Ranges DEF ParseNext
<1>10. ASSUME NEW w \in Workers, ExtractNext(w)
      PROVE  TypeOK'
  BY <1>10, Ranges DEF ExtractNext
<1>11. ASSUME NEW w \in Workers, Scan(w)
      PROVE  TypeOK'
  <2>1. queue' \in [Workers -> SUBSET Archives]
    BY <1>11, NewestIsSubset DEF Scan, Unregistered
  <2> QED
    BY <1>11, <2>1 DEF Scan
<1>12. ASSUME NEW w \in Workers, Insert(w)
      PROVE  TypeOK'
  <2>1. status' \in [Archives -> Statuses]
    BY <1>12, StatusType DEF Insert, Statuses, FailedStates, InsertRows
  <2>2. queue' \in [Workers -> SUBSET Archives]
    BY <1>12 DEF Insert, InsertRows
  <2> QED
    BY <1>12, <2>1, <2>2 DEF Insert, InsertRows
<1>13. ASSUME NEW w \in Workers, Requeue(w)
      PROVE  TypeOK'
  <2>1. status' \in [Archives -> Statuses]
    BY <1>13, StatusType DEF Requeue, Statuses, FailedStates
  <2>2. failure' \in [Archives -> BOOLEAN]
    BY <1>13, FailureType DEF Requeue
  <2>3. owed' \subseteq Archives
    BY <1>13, NewestIsSubset DEF Requeue, Registered
  <2> QED
    BY <1>13, <2>1, <2>2, <2>3 DEF Requeue
<1>14. ASSUME NEW w \in Workers, ParseSnapshot(w)
      PROVE  TypeOK'
  <2>1. queue' \in [Workers -> SUBSET Archives]
    BY <1>14, SliceIsSubset DEF ParseSnapshot, ParseQueue
  <2> QED
    BY <1>14, <2>1 DEF ParseSnapshot
<1>15. ASSUME NEW w \in Workers, ExtractSnapshot(w)
      PROVE  TypeOK'
  <2>1. queue' \in [Workers -> SUBSET Archives]
    BY <1>15, SliceIsSubset DEF ExtractSnapshot, ExtractQueue
  <2> QED
    BY <1>15, <2>1 DEF ExtractSnapshot
<1>16. ASSUME NEW w \in Workers, ParseOk(w)
      PROVE  TypeOK'
  <2>1. status' \in [Archives -> Statuses]
    BY <1>16, StatusType DEF ParseOk, Statuses, FailedStates
  <2>2. failure' \in [Archives -> BOOLEAN]
    BY <1>16, FailureType DEF ParseOk
  <2> QED
    BY <1>16, <2>1, <2>2, Ranges DEF ParseOk
<1>17. ASSUME NEW w \in Workers, ParseFails(w)
      PROVE  TypeOK'
  <2>1. status' \in [Archives -> Statuses]
    BY <1>17, StatusType DEF ParseFails, Statuses, FailedStates
  <2>2. failure' \in [Archives -> BOOLEAN]
    BY <1>17, FailureType DEF ParseFails
  <2> QED
    BY <1>17, <2>1, <2>2, Ranges DEF ParseFails
<1>18. ASSUME NEW w \in Workers, MarkDone(w)
      PROVE  TypeOK'
  <2>1. status' \in [Archives -> Statuses]
    BY <1>18, StatusType DEF MarkDone, Statuses, FailedStates
  <2> QED
    BY <1>18, <2>1, Ranges DEF MarkDone
<1>19. ASSUME NEW w \in Workers, ExtractFails(w)
      PROVE  TypeOK'
  <2>1. status' \in [Archives -> Statuses]
    BY <1>19, StatusType DEF ExtractFails, Statuses, FailedStates
  <2>2. failure' \in [Archives -> BOOLEAN]
    BY <1>19, FailureType DEF ExtractFails
  <2> QED
    BY <1>19, <2>1, <2>2, Ranges DEF ExtractFails
<1>20. ASSUME NEW w \in Workers, ClearParseErrors(w)
      PROVE  TypeOK'
  <2>1. status' \in [Archives -> Statuses]
    BY <1>20, StatusType DEF ClearParseErrors, Statuses, FailedStates
  <2>2. failure' \in [Archives -> BOOLEAN]
    BY <1>20, FailureType DEF ClearParseErrors
  <2>3. owed' \subseteq Archives
    BY <1>20 DEF ClearParseErrors, Clearable
  <2> QED
    BY <1>20, <2>1, <2>2, <2>3 DEF ClearParseErrors
<1>21. ASSUME NEW w \in Workers, ClearExtractErrors(w)
      PROVE  TypeOK'
  <2>1. status' \in [Archives -> Statuses]
    BY <1>21, StatusType DEF ClearExtractErrors, Statuses, FailedStates
  <2>2. failure' \in [Archives -> BOOLEAN]
    BY <1>21, FailureType DEF ClearExtractErrors
  <2> QED
    BY <1>21, <2>1, <2>2 DEF ClearExtractErrors
<1>22. ASSUME NEW w \in Workers, NEW s \in Scopes, StartRun(w, s)
      PROVE  TypeOK'
  <2>1. s.stage \in AllStages
    BY LoaderAssumption DEF Scopes
  <2>2. FirstPart(s.stage) \in Parts
    BY <2>1, FirstPartType
  <2> QED
    BY <1>22, <2>2 DEF StartRun
<1>23. ASSUME NEW w \in Workers, FinishRun(w) \/ WorkerDies(w)
      PROVE  TypeOK'
  BY <1>23, Ranges DEF FinishRun, WorkerDies, Forget
<1>24. ASSUME ServerDies
      PROVE  TypeOK'
  BY <1>24, Ranges DEF ServerDies, Forget
<1>25. ASSUME NEW target \in {"pending", "parsed"}, NEW range \in ResetRanges,
             ResetStatus(target, range)
      PROVE  TypeOK'
  <2>1. status' \in [Archives -> Statuses]
    BY <1>25, StatusType DEF ResetStatus, Statuses, FailedStates
  <2>2. failure' \in [Archives -> BOOLEAN]
    BY <1>25, FailureType DEF ResetStatus
  <2> range \subseteq Archives
    BY LoaderAssumption
  <2>3. touched' \in [Workers -> SUBSET Archives]
    BY <1>25 DEF ResetStatus
  <2>4. owed' \subseteq Archives /\ unrecorded' \subseteq Archives
    BY <1>25 DEF ResetStatus
  <2> QED
    BY <1>25, <2>1, <2>2, <2>3, <2>4 DEF ResetStatus
<1>26. ASSUME NEW a \in Archives, NewArchive(a)
      PROVE  TypeOK'
  BY <1>26, Ranges DEF NewArchive
<1>27. ASSUME NEW a \in Uploads, CommitRemove(a)
      PROVE  TypeOK'
  BY <1>27, Ranges DEF CommitRemove
<1>28. ASSUME NEW a \in Uploads, CommitMove(a)
      PROVE  TypeOK'
  <2>1. disk' \in [Archives -> VersionRef]
    BY <1>28, Ranges DEF CommitMove
  <2> QED
    BY <1>28, <2>1 DEF CommitMove
<1>29. ASSUME NEW a \in Uploads, CommitReset(a)
      PROVE  TypeOK'
  <2>1. status' \in [Archives -> Statuses]
    BY <1>29, StatusType DEF CommitReset, Statuses, FailedStates
  <2>2. failure' \in [Archives -> BOOLEAN]
    BY <1>29, FailureType DEF CommitReset
  <2>3. owed' \subseteq Archives
    BY <1>29 DEF CommitReset, CommitMatches, Registered
  <2> QED
    BY <1>29, <2>1, <2>2, <2>3 DEF CommitReset
<1>30. ASSUME NEW a \in Uploads, CommitEnd(a)
      PROVE  TypeOK'
  BY <1>30 DEF CommitEnd
<1>31. ASSUME UNCHANGED loaderVars
      PROVE  TypeOK'
  BY <1>31 DEF loaderVars
<1> QED
  BY <1>1, <1>2, <1>3, <1>4, <1>5, <1>6, <1>7, <1>8, <1>9, <1>10, <1>11,
     <1>12, <1>13, <1>14, <1>15, <1>16, <1>17, <1>18, <1>19, <1>20, <1>21,
     <1>22, <1>23, <1>24, <1>25, <1>26, <1>27, <1>28, <1>29, <1>30, <1>31
  DEF Next, CommandLineNext, Elsewhere, WorkerNext, WorkerStep, CheckedStep, FreeStep, CommitStep

-----------------------------------------------------------------------------
(* Records                                                                 *)

LEMMA RecordStep ==
    ASSUME IInv, [Next]_loaderVars
    PROVE  RecordInv'
<1> USE Ranges
    DEF IInv, TypeOK, RecordInv, WorkIsOnRecord, QueueIsParsed, HandIsParsed,
        MarkingIsIncorporated, HandIsTaken, SetStatus,
        diskVars, tableVars, workVars, historyVars, Goto
<1>1. ASSUME NEW w \in Workers, InsertDone(w)
      PROVE  RecordInv'
  BY <1>1, PartsFollow DEF InsertDone
<1>2. ASSUME NEW w \in Workers, ParseDone(w)
      PROVE  RecordInv'
  BY <1>2, PartsFollow DEF ParseDone
<1>3. ASSUME NEW w \in Workers, ExtractDone(w)
      PROVE  RecordInv'
  BY <1>3, PartsFollow DEF ExtractDone
<1>4. ASSUME NEW w \in Workers, MakeThumbnails(w)
      PROVE  RecordInv'
  BY <1>4 DEF MakeThumbnails
<1>5. ASSUME NEW w \in Workers, Fail(w)
      PROVE  RecordInv'
  BY <1>5 DEF Fail
<1>6. ASSUME NEW w \in Workers, Interrupt(w)
      PROVE  RecordInv'
  BY <1>6 DEF Interrupt
<1>7. ASSUME NEW w \in Workers, HandlerRaises(w)
      PROVE  RecordInv'
  BY <1>7 DEF HandlerRaises
<1>8. ASSUME NEW w \in Workers, Incorporate(w)
      PROVE  RecordInv'
  BY <1>8 DEF Incorporate
<1>9. ASSUME NEW w \in Workers, ParseNext(w)
      PROVE  RecordInv'
  BY <1>9 DEF ParseNext
<1>10. ASSUME NEW w \in Workers, ExtractNext(w)
      PROVE  RecordInv'
  BY <1>10 DEF ExtractNext
<1>11. ASSUME NEW w \in Workers, Scan(w)
      PROVE  RecordInv'
  BY <1>11 DEF Scan
<1>12. ASSUME NEW w \in Workers, Insert(w)
      PROVE  RecordInv'
  BY <1>12 DEF Insert, InsertRows, Registered
<1>13. ASSUME NEW w \in Workers, Requeue(w)
      PROVE  RecordInv'
  BY <1>13 DEF Requeue
<1>14. ASSUME NEW w \in Workers, ParseSnapshot(w)
      PROVE  RecordInv'
  BY <1>14 DEF ParseSnapshot
<1>15. ASSUME NEW w \in Workers, ExtractSnapshot(w)
      PROVE  RecordInv'
  BY <1>15, SliceIsSubset DEF ExtractSnapshot, ExtractQueue
<1>16. ASSUME NEW w \in Workers, ParseOk(w)
      PROVE  RecordInv'
  BY <1>16 DEF ParseOk
<1>17. ASSUME NEW w \in Workers, ParseFails(w)
      PROVE  RecordInv'
  BY <1>17 DEF ParseFails
<1>18. ASSUME NEW w \in Workers, MarkDone(w)
      PROVE  RecordInv'
  BY <1>18 DEF MarkDone
<1>19. ASSUME NEW w \in Workers, ExtractFails(w)
      PROVE  RecordInv'
  BY <1>19 DEF ExtractFails
<1>20. ASSUME NEW w \in Workers, ClearParseErrors(w)
      PROVE  RecordInv'
  BY <1>20 DEF ClearParseErrors
<1>21. ASSUME NEW w \in Workers, ClearExtractErrors(w)
      PROVE  RecordInv'
  BY <1>21 DEF ClearExtractErrors, Clearable
<1>22. ASSUME NEW w \in Workers, NEW s \in Scopes, StartRun(w, s)
      PROVE  RecordInv'
  <2>1. s.stage \in AllStages
    BY LoaderAssumption DEF Scopes
  <2> QED
    BY <1>22, <2>1, FirstPartType DEF StartRun
<1>23. ASSUME NEW w \in Workers, FinishRun(w) \/ WorkerDies(w)
      PROVE  RecordInv'
  BY <1>23 DEF FinishRun, WorkerDies, Forget
<1>24. ASSUME ServerDies
      PROVE  RecordInv'
  BY <1>24 DEF ServerDies, Forget
<1>25. ASSUME NEW target \in {"pending", "parsed"}, NEW range \in ResetRanges,
             ResetStatus(target, range)
      PROVE  RecordInv'
  BY <1>25 DEF ResetStatus, ResettableFrom
<1>26. ASSUME NEW a \in Archives, NewArchive(a)
      PROVE  RecordInv'
  BY <1>26 DEF NewArchive
<1>27. ASSUME NEW a \in Uploads, CommitRemove(a)
      PROVE  RecordInv'
  BY <1>27 DEF CommitRemove
<1>28. ASSUME NEW a \in Uploads, CommitMove(a)
      PROVE  RecordInv'
  BY <1>28 DEF CommitMove
<1>29. ASSUME NEW a \in Uploads, CommitReset(a)
      PROVE  RecordInv'
  BY <1>29 DEF CommitReset
<1>30. ASSUME NEW a \in Uploads, CommitEnd(a)
      PROVE  RecordInv'
  BY <1>30 DEF CommitEnd
<1>31. ASSUME UNCHANGED loaderVars
      PROVE  RecordInv'
  BY <1>31 DEF loaderVars
<1> QED
  BY <1>1, <1>2, <1>3, <1>4, <1>5, <1>6, <1>7, <1>8, <1>9, <1>10, <1>11,
     <1>12, <1>13, <1>14, <1>15, <1>16, <1>17, <1>18, <1>19, <1>20, <1>21,
     <1>22, <1>23, <1>24, <1>25, <1>26, <1>27, <1>28, <1>29, <1>30, <1>31
  DEF Next, CommandLineNext, Elsewhere, WorkerNext, WorkerStep, CheckedStep, FreeStep, CommitStep

-----------------------------------------------------------------------------
(* The theorems                                                            *)

LEMMA InitEstablishes == Init => IInv
  BY InitTyped, Ranges
     DEF Init, IInv, RecordInv, WorkIsOnRecord, QueueIsParsed, HandIsParsed,
         MarkingIsIncorporated, HandIsTaken

\* What Loader says of its steps, without the fairness.
LoaderSteps == Init /\ [][Next]_loaderVars

LEMMA IInvHolds == LoaderSteps => []IInv
<1>1. Init => IInv
  BY InitEstablishes
<1>2. IInv /\ [Next]_loaderVars => IInv'
  BY StepTyped, RecordStep DEF IInv, RecordInv
<1> QED
  BY <1>1, <1>2, PTL DEF LoaderSteps

LEMMA SpecSteps == Spec => LoaderSteps
  BY PTL DEF Spec, LoaderSteps

\* The table and the workers' locals stay within their types.
THEOREM TypeCorrect == Spec => []TypeOK
<1>1. IInv => TypeOK
  BY DEF IInv
<1> QED
  BY <1>1, IInvHolds, SpecSteps, PTL

\* However many workers, resets and uploads interfere, a 'parsed' session has
\* structures and a 'done' session has been incorporated (archives_db_loader).
THEOREM StatusIsBacked == Spec => []WorkIsOnRecord
<1>1. IInv => WorkIsOnRecord
  BY DEF IInv, RecordInv
<1> QED
  BY <1>1, IInvHolds, SpecSteps, PTL

LEMMA PendingIsOwed ==
    ASSUME TypeOK, [Next]_loaderVars, NEW b \in Registered,
           status'[b] = "pending", status[b] # "pending"
    PROVE  b \in owed'
<1> USE DEF TypeOK, SetStatus, Registered, diskVars, tableVars, workVars, historyVars
<1>1. ASSUME NEW w \in Workers,
             \/ Scan(w) \/ InsertDone(w) \/ ParseSnapshot(w) \/ ParseNext(w)
             \/ ParseDone(w) \/ ExtractSnapshot(w) \/ ExtractNext(w) \/ Incorporate(w)
             \/ ExtractDone(w) \/ HandlerRaises(w) \/ MakeThumbnails(w) \/ Fail(w)
             \/ FinishRun(w) \/ WorkerDies(w) \/ Interrupt(w)
      PROVE  b \in owed'
  BY <1>1 DEF Scan, InsertDone, ParseSnapshot, ParseNext, ParseDone, ExtractSnapshot,
     ExtractNext, Incorporate, ExtractDone, HandlerRaises, MakeThumbnails, Fail,
     FinishRun, WorkerDies, Interrupt
<1>2. ASSUME NEW w \in Workers, NEW s \in Scopes, StartRun(w, s)
      PROVE  b \in owed'
  BY <1>2 DEF StartRun
<1>3. ASSUME NEW w \in Workers, Insert(w)
      PROVE  b \in owed'
  BY <1>3 DEF Insert, InsertRows
<1>4. ASSUME NEW w \in Workers, Requeue(w)
      PROVE  b \in owed'
  BY <1>4 DEF Requeue
<1>5. ASSUME NEW w \in Workers, ParseOk(w) \/ ParseFails(w)
      PROVE  b \in owed'
  <2>1. CASE ParseOk(w)
    BY <2>1 DEF ParseOk
  <2>2. CASE ParseFails(w)
    BY <2>2 DEF ParseFails
  <2> QED
    BY <1>5, <2>1, <2>2
<1>6. ASSUME NEW w \in Workers, MarkDone(w) \/ ExtractFails(w)
      PROVE  b \in owed'
  BY <1>6 DEF MarkDone, ExtractFails
<1>7. ASSUME NEW w \in Workers, ClearParseErrors(w) \/ ClearExtractErrors(w)
      PROVE  b \in owed'
  BY <1>7 DEF ClearParseErrors, ClearExtractErrors
<1>8. ASSUME NEW target \in {"pending", "parsed"}, NEW range \in ResetRanges,
             ResetStatus(target, range)
      PROVE  b \in owed'
  BY <1>8 DEF ResetStatus
<1>9. ASSUME NEW a \in Archives, NewArchive(a)
      PROVE  b \in owed'
  BY <1>9 DEF NewArchive
<1>10. ASSUME ServerDies \/ UNCHANGED loaderVars
      PROVE  b \in owed'
  BY <1>10 DEF ServerDies, loaderVars
<1>11. ASSUME NEW a \in Uploads, CommitStep(a)
      PROVE  b \in owed'
  BY <1>11 DEF CommitStep, CommitRemove, CommitMove, CommitReset, CommitEnd
<1> QED
  BY <1>1, <1>2, <1>3, <1>4, <1>5, <1>6, <1>7, <1>8, <1>9, <1>10, <1>11
  DEF Next, CommandLineNext, Elsewhere, WorkerNext, WorkerStep, CheckedStep, FreeStep

\* With any number of workers, a registered session goes back to 'pending' only
\* by a requeue, a reset, a clear or an upload (register_archives' INSERT ... ON
\* DUPLICATE KEY UPDATE id = id never does it).
THEOREM RestartsAreAskedFor == Spec => NoSilentRestart
<1>1. IInv /\ [Next]_loaderVars =>
        [\A a \in Registered :
            status'[a] = "pending" => status[a] = "pending" \/ a \in owed']_loaderVars
  BY PendingIsOwed DEF IInv
<1> QED
  BY <1>1, IInvHolds, SpecSteps, PTL DEF Spec, NoSilentRestart

-----------------------------------------------------------------------------
(* One worker                                                              *)

\* The hypothesis of what follows: a single pipeline executor, as in a server
\* nobody runs the command line beside.
OneWorker == \A v, w \in Workers : v = w

\* The archive a worker works on, and those it has still to take: while one
\* worker runs, nobody else parses or extracts them.
Hand(w) == IF pc[w] \in {"parsing", "extracting", "marking"} THEN {cur[w]} ELSE {}
Taken(w) == queue[w] \cup Hand(w)

HandIsApart == \A w \in Workers : cur[w] \notin queue[w] \/ Hand(w) = {}

TakenIsOpen ==
    \A w \in Workers : \A a \in Taken(w) :
        /\ pc[w] \in {"parse", "parsing"} => status[a] = "pending"
        /\ pc[w] \in {"extract", "extracting", "marking"} =>
              \/ status[a] = "parsed"
              \/ status[a] = "pending" /\ a \in touched[w]

\* What Part C read is still what Part B stored, and C3 has stored just that.
HandIsCurrent ==
    \A w \in Workers :
        /\ pc[w] \in {"extracting", "marking"} => seen[w] = structures[cur[w]]
        /\ pc[w] = "marking" => entities[cur[w]] = structures[cur[w]]

SingleInv ==
    /\ StatusIsTrue
    /\ HandIsApart
    /\ TakenIsOpen
    /\ HandIsCurrent

\* The commit's UPDATE compares the bare directory name with an external_id that
\* always has a prefix: it matches no row.
LEMMA NoUploadMatches == ASSUME NEW a PROVE CommitMatches(a) = {}
  BY DEF CommitMatches, ExternalId, DirName, SourceType

LEMMA UploadLeavesTable ==
    ASSUME TypeOK, NEW a, CommitStep(a)
    PROVE  UNCHANGED <<tableVars, pc, scope, workVars, historyVars>>
<1> USE DEF TypeOK, SetStatus, SetError, tableVars, workVars, historyVars
<1>1. CASE CommitReset(a)
  BY <1>1, NoUploadMatches DEF CommitReset
<1>2. CASE CommitRemove(a) \/ CommitMove(a) \/ CommitEnd(a)
  BY <1>2 DEF CommitRemove, CommitMove, CommitEnd
<1> QED
  BY <1>1, <1>2 DEF CommitStep

LEMMA SingleStep ==
    ASSUME OneWorker, IInv, SingleInv, [Next]_loaderVars
    PROVE  SingleInv'
<1> USE Ranges
    DEF OneWorker, IInv, TypeOK, RecordInv, HandIsTaken, SingleInv, StatusIsTrue,
        DoneMatchesParse, ErrorExplainsFailure, FailedStates, HandIsApart, TakenIsOpen,
        HandIsCurrent, Hand, Taken, SetStatus, SetError, Registered,
        diskVars, tableVars, workVars, historyVars, Goto
<1>1. ASSUME NEW w \in Workers, InsertDone(w)
      PROVE  SingleInv'
  BY <1>1, PartsFollow DEF InsertDone
<1>2. ASSUME NEW w \in Workers, ParseDone(w)
      PROVE  SingleInv'
  BY <1>2, PartsFollow DEF ParseDone
<1>3. ASSUME NEW w \in Workers, ExtractDone(w)
      PROVE  SingleInv'
  BY <1>3, PartsFollow DEF ExtractDone
<1>4. ASSUME NEW w \in Workers, MakeThumbnails(w)
      PROVE  SingleInv'
  BY <1>4 DEF MakeThumbnails
<1>5. ASSUME NEW w \in Workers, Fail(w)
      PROVE  SingleInv'
  BY <1>5 DEF Fail
<1>6. ASSUME NEW w \in Workers, Interrupt(w)
      PROVE  SingleInv'
  BY <1>6 DEF Interrupt
<1>7. ASSUME NEW w \in Workers, HandlerRaises(w)
      PROVE  SingleInv'
  BY <1>7 DEF HandlerRaises
<1>8. ASSUME NEW w \in Workers, Incorporate(w)
      PROVE  SingleInv'
  BY <1>8 DEF Incorporate
<1>9. ASSUME NEW w \in Workers, ParseNext(w)
      PROVE  SingleInv'
  BY <1>9 DEF ParseNext
<1>10. ASSUME NEW w \in Workers, ExtractNext(w)
      PROVE  SingleInv'
  BY <1>10 DEF ExtractNext
<1>11. ASSUME NEW w \in Workers, Scan(w)
      PROVE  SingleInv'
  BY <1>11 DEF Scan
<1>12. ASSUME NEW w \in Workers, Insert(w)
      PROVE  SingleInv'
  BY <1>12 DEF Insert, InsertRows
<1>13. ASSUME NEW w \in Workers, Requeue(w)
      PROVE  SingleInv'
  BY <1>13 DEF Requeue
<1>14. ASSUME NEW w \in Workers, ParseSnapshot(w)
      PROVE  SingleInv'
  BY <1>14, SliceIsSubset DEF ParseSnapshot, ParseQueue
<1>15. ASSUME NEW w \in Workers, ExtractSnapshot(w)
      PROVE  SingleInv'
  BY <1>15, SliceIsSubset DEF ExtractSnapshot, ExtractQueue
<1>16. ASSUME NEW w \in Workers, ParseOk(w)
      PROVE  SingleInv'
  BY <1>16 DEF ParseOk
<1>17. ASSUME NEW w \in Workers, ParseFails(w)
      PROVE  SingleInv'
  BY <1>17 DEF ParseFails
<1>18. ASSUME NEW w \in Workers, MarkDone(w)
      PROVE  SingleInv'
  BY <1>18 DEF MarkDone
<1>19. ASSUME NEW w \in Workers, ExtractFails(w)
      PROVE  SingleInv'
  BY <1>19 DEF ExtractFails
<1>20. ASSUME NEW w \in Workers, ClearParseErrors(w)
      PROVE  SingleInv'
  BY <1>20 DEF ClearParseErrors, Clearable
<1>21. ASSUME NEW w \in Workers, ClearExtractErrors(w)
      PROVE  SingleInv'
  BY <1>21 DEF ClearExtractErrors, Clearable
<1>22. ASSUME NEW w \in Workers, NEW s \in Scopes, StartRun(w, s)
      PROVE  SingleInv'
  <2>1. s.stage \in AllStages
    BY LoaderAssumption DEF Scopes
  <2> QED
    BY <1>22, <2>1, FirstPartType DEF StartRun
<1>23. ASSUME NEW w \in Workers, FinishRun(w) \/ WorkerDies(w)
      PROVE  SingleInv'
  BY <1>23 DEF FinishRun, WorkerDies, Forget
<1>24. ASSUME ServerDies
      PROVE  SingleInv'
  BY <1>24 DEF ServerDies, Forget
<1>25. ASSUME NEW target \in {"pending", "parsed"}, NEW range \in ResetRanges,
             ResetStatus(target, range)
      PROVE  SingleInv'
  BY <1>25 DEF ResetStatus, ResettableFrom
<1>26. ASSUME NEW a \in Archives, NewArchive(a)
      PROVE  SingleInv'
  BY <1>26 DEF NewArchive
<1>27. ASSUME NEW a \in Uploads, CommitStep(a)
      PROVE  SingleInv'
  BY <1>27, UploadLeavesTable
<1>28. ASSUME UNCHANGED loaderVars
      PROVE  SingleInv'
  BY <1>28 DEF loaderVars
<1> HIDE DEF IInv, SingleInv, Goto
<1> QED
  BY <1>1, <1>2, <1>3, <1>4, <1>5, <1>6, <1>7, <1>8, <1>9, <1>10, <1>11,
     <1>12, <1>13, <1>14, <1>15, <1>16, <1>17, <1>18, <1>19, <1>20, <1>21, <1>22,
     <1>23, <1>24, <1>25, <1>26, <1>27, <1>28
  DEF Next, CommandLineNext, Elsewhere, WorkerNext, WorkerStep, CheckedStep, FreeStep

\* What an unlimited run that includes Part B has left behind at each part: only
\* sessions that it still has to take, or that were reverted meanwhile.
Unlimited(w) == (w = Server \/ scope[w].limit = 0) /\ scope[w].stage # "extract"

NothingIsLeft ==
    \A w \in Workers, a \in Archives :
        Unlimited(w) /\ a \notin touched[w] =>
            /\ pc[w] \in {"parse", "parsing"} => (status[a] = "pending" => a \in Taken(w))
            /\ pc[w] \in {"extractQueue", "extract", "extracting", "marking", "thumbs"} =>
                  status[a] # "pending"
            /\ pc[w] \in {"extract", "extracting", "marking"} =>
                  (status[a] = "parsed" => a \in Taken(w))
            /\ pc[w] = "thumbs" => status[a] # "parsed"

ThumbsFollowParse ==
    \A w \in Workers : pc[w] = "thumbs" => scope[w].stage # "extract"

DrainInv == NothingIsLeft /\ ThumbsFollowParse

LEMMA DrainStep ==
    ASSUME OneWorker, IInv, SingleInv, DrainInv, [Next]_loaderVars
    PROVE  DrainInv'
<1> USE Ranges
    DEF OneWorker, IInv, TypeOK, RecordInv, HandIsTaken, DrainInv, Unlimited, NothingIsLeft,
        ThumbsFollowParse, Hand, Taken, SetStatus,
        diskVars, tableVars, workVars, historyVars, Goto
<1>1. ASSUME NEW w \in Workers, InsertDone(w)
      PROVE  DrainInv'
  BY <1>1, PartsFollow DEF InsertDone
<1>2. ASSUME NEW w \in Workers, ParseDone(w)
      PROVE  DrainInv'
  BY <1>2 DEF ParseDone, AfterParse
<1>3. ASSUME NEW w \in Workers, ExtractDone(w)
      PROVE  DrainInv'
  BY <1>3 DEF ExtractDone, AfterExtract
<1>4. ASSUME NEW w \in Workers, MakeThumbnails(w)
      PROVE  DrainInv'
  BY <1>4 DEF MakeThumbnails
<1>5. ASSUME NEW w \in Workers, Fail(w)
      PROVE  DrainInv'
  BY <1>5 DEF Fail
<1>6. ASSUME NEW w \in Workers, Interrupt(w)
      PROVE  DrainInv'
  BY <1>6 DEF Interrupt
<1>7. ASSUME NEW w \in Workers, HandlerRaises(w)
      PROVE  DrainInv'
  BY <1>7 DEF HandlerRaises
<1>8. ASSUME NEW w \in Workers, Incorporate(w)
      PROVE  DrainInv'
  BY <1>8 DEF Incorporate
<1>9. ASSUME NEW w \in Workers, ParseNext(w)
      PROVE  DrainInv'
  BY <1>9 DEF ParseNext
<1>10. ASSUME NEW w \in Workers, ExtractNext(w)
      PROVE  DrainInv'
  BY <1>10 DEF ExtractNext
<1>11. ASSUME NEW w \in Workers, Scan(w)
      PROVE  DrainInv'
  BY <1>11 DEF Scan
<1>12. ASSUME NEW w \in Workers, Insert(w)
      PROVE  DrainInv'
  BY <1>12 DEF Insert, InsertRows
<1>13. ASSUME NEW w \in Workers, Requeue(w)
      PROVE  DrainInv'
  BY <1>13 DEF Requeue
<1>14. ASSUME NEW w \in Workers, ParseSnapshot(w)
      PROVE  DrainInv'
  BY <1>14 DEF ParseSnapshot, ParseQueue, Slices, PartLimit
<1>15. ASSUME NEW w \in Workers, ExtractSnapshot(w)
      PROVE  DrainInv'
  BY <1>15 DEF ExtractSnapshot, ExtractQueue, Slices, PartLimit
<1>16. ASSUME NEW w \in Workers, ParseOk(w)
      PROVE  DrainInv'
  BY <1>16 DEF ParseOk
<1>17. ASSUME NEW w \in Workers, ParseFails(w)
      PROVE  DrainInv'
  BY <1>17 DEF ParseFails
<1>18. ASSUME NEW w \in Workers, MarkDone(w)
      PROVE  DrainInv'
  BY <1>18 DEF MarkDone
<1>19. ASSUME NEW w \in Workers, ExtractFails(w)
      PROVE  DrainInv'
  BY <1>19 DEF ExtractFails
<1>20. ASSUME NEW w \in Workers, ClearParseErrors(w)
      PROVE  DrainInv'
  BY <1>20 DEF ClearParseErrors, Clearable
<1>21. ASSUME NEW w \in Workers, ClearExtractErrors(w)
      PROVE  DrainInv'
  BY <1>21 DEF ClearExtractErrors, Clearable
<1>22. ASSUME NEW w \in Workers, NEW s \in Scopes, StartRun(w, s)
      PROVE  DrainInv'
  <2>1. s.stage \in AllStages
    BY LoaderAssumption DEF Scopes
  <2>2. FirstPart(s.stage) = "extractQueue" => s.stage = "extract"
    BY <2>1 DEF AllStages, FirstPart
  <2> QED
    BY <1>22, <2>1, <2>2, FirstPartType DEF StartRun
<1>23. ASSUME NEW w \in Workers, FinishRun(w) \/ WorkerDies(w)
      PROVE  DrainInv'
  BY <1>23 DEF FinishRun, WorkerDies, Forget
<1>24. ASSUME ServerDies
      PROVE  DrainInv'
  BY <1>24 DEF ServerDies, Forget
<1>25. ASSUME NEW target \in {"pending", "parsed"}, NEW range \in ResetRanges,
             ResetStatus(target, range)
      PROVE  DrainInv'
  BY <1>25 DEF ResetStatus, ResettableFrom
<1>26. ASSUME NEW a \in Archives, NewArchive(a)
      PROVE  DrainInv'
  BY <1>26 DEF NewArchive
<1>27. ASSUME NEW a \in Uploads, CommitStep(a)
      PROVE  DrainInv'
  BY <1>27, UploadLeavesTable
<1>28. ASSUME UNCHANGED loaderVars
      PROVE  DrainInv'
  BY <1>28 DEF loaderVars
<1> HIDE DEF IInv, DrainInv, Goto
<1> QED
  BY <1>1, <1>2, <1>3, <1>4, <1>5, <1>6, <1>7, <1>8, <1>9, <1>10, <1>11,
     <1>12, <1>13, <1>14, <1>15, <1>16, <1>17, <1>18, <1>19, <1>20, <1>21, <1>22,
     <1>23, <1>24, <1>25, <1>26, <1>27, <1>28
  DEF Next, CommandLineNext, Elsewhere, WorkerNext, WorkerStep, CheckedStep, FreeStep

LEMMA InitSingle == Init => SingleInv /\ DrainInv
  BY DEF Init, SingleInv, StatusIsTrue, DoneMatchesParse, ErrorExplainsFailure,
         FailedStates, HandIsApart, TakenIsOpen, HandIsCurrent, Hand, Taken,
         DrainInv, NothingIsLeft, ThumbsFollowParse

LEMMA SingleInvHolds ==
    ASSUME OneWorker
    PROVE  LoaderSteps => [](IInv /\ SingleInv /\ DrainInv)
<1>1. Init => SingleInv /\ DrainInv
  BY InitSingle
<1>2. IInv /\ SingleInv /\ DrainInv /\ [Next]_loaderVars => SingleInv' /\ DrainInv'
  BY SingleStep, DrainStep
<1> QED
  BY <1>1, <1>2, IInvHolds, PTL DEF LoaderSteps

\* With one worker, whatever resets, crashes, interrupts and uploads come in
\* between, 'done' stands for the parsed content and a failure for an error text.
THEOREM StatusCanBeBelieved ==
    ASSUME OneWorker
    PROVE  Spec => []StatusIsTrue
<1>1. SingleInv => StatusIsTrue
  BY DEF SingleInv
<1> QED
  BY <1>1, SingleInvHolds, SpecSteps, PTL

-----------------------------------------------------------------------------
(* What a run takes and leaves                                             *)

\* Only the failure of an archive in hand goes unrecorded.
LEMMA UnrecordedGrowth ==
    ASSUME [Next]_loaderVars
    PROVE  \/ unrecorded' \subseteq unrecorded
           \/ \E w \in Workers : HandlerRaises(w)
<1> USE DEF diskVars, tableVars, workVars, historyVars
<1>1. ASSUME NEW w \in Workers, CheckedStep(w) \/ Interrupt(w)
      PROVE  unrecorded' \subseteq unrecorded
  BY <1>1 DEF CheckedStep, Insert, InsertRows, Requeue, ParseNext, ExtractNext, Interrupt
<1>2. ASSUME NEW w \in Workers, FreeStep(w), ~HandlerRaises(w)
      PROVE  unrecorded' \subseteq unrecorded
  BY <1>2 DEF FreeStep, Scan, InsertDone, ParseSnapshot, ParseOk, ParseFails, ParseDone,
     ExtractSnapshot, Incorporate, MarkDone, ExtractFails, ExtractDone,
     MakeThumbnails, ClearParseErrors, ClearExtractErrors, Fail
<1>3. ASSUME NEW w \in Workers, NEW s \in Scopes, StartRun(w, s)
      PROVE  unrecorded' \subseteq unrecorded
  BY <1>3 DEF StartRun
<1>4. ASSUME NEW w \in Workers, FinishRun(w) \/ WorkerDies(w)
      PROVE  unrecorded' \subseteq unrecorded
  BY <1>4 DEF FinishRun, WorkerDies
<1>5. ASSUME NEW target, NEW range, ResetStatus(target, range)
      PROVE  unrecorded' \subseteq unrecorded
  BY <1>5 DEF ResetStatus
<1>6. ASSUME NEW a, NewArchive(a) \/ CommitStep(a)
      PROVE  unrecorded' \subseteq unrecorded
  BY <1>6 DEF NewArchive, CommitStep, CommitRemove, CommitMove, CommitReset, CommitEnd
<1>7. ASSUME ServerDies \/ UNCHANGED loaderVars
      PROVE  unrecorded' \subseteq unrecorded
  BY <1>7 DEF ServerDies, loaderVars
<1> QED
  BY <1>1, <1>2, <1>3, <1>4, <1>5, <1>6, <1>7 DEF Next, CommandLineNext, Elsewhere, WorkerNext, WorkerStep

\* Only Parts B and C take an archive in hand, and only from their own snapshot.
LEMMA TakenFromQueue ==
    ASSUME TypeOK, [Next]_loaderVars, NEW w \in Workers, cur[w] = 0, cur'[w] # 0
    PROVE  cur'[w] \in queue[w] /\ pc[w] \in {"parse", "extract"}
<1> USE DEF TypeOK, diskVars, tableVars, workVars, historyVars
<1>1. ASSUME NEW v \in Workers, ParseNext(v) \/ ExtractNext(v)
      PROVE  cur'[w] \in queue[w] /\ pc[w] \in {"parse", "extract"}
  BY <1>1 DEF ParseNext, ExtractNext
<1>2. ASSUME NEW v \in Workers, Insert(v) \/ Requeue(v) \/ Interrupt(v)
      PROVE  UNCHANGED cur
  BY <1>2 DEF Insert, InsertRows, Requeue, Interrupt
<1>3. ASSUME NEW v \in Workers, FreeStep(v)
      PROVE  cur'[w] \in {cur[w], 0}
  BY <1>3 DEF FreeStep, Scan, InsertDone, ParseSnapshot, ParseOk, ParseFails, ParseDone,
     ExtractSnapshot, Incorporate, MarkDone, ExtractFails, ExtractDone, HandlerRaises,
     MakeThumbnails, ClearParseErrors, ClearExtractErrors, Fail
<1>4. ASSUME NEW v \in Workers, NEW s \in Scopes, StartRun(v, s)
      PROVE  UNCHANGED cur
  BY <1>4 DEF StartRun
<1>5. ASSUME NEW v \in Workers, FinishRun(v) \/ WorkerDies(v)
      PROVE  cur'[w] \in {cur[w], 0}
  BY <1>5 DEF FinishRun, WorkerDies, Forget
<1>6. ASSUME ServerDies
      PROVE  cur'[w] \in {cur[w], 0}
  BY <1>6 DEF ServerDies, Forget
<1>7. ASSUME NEW target, NEW range, ResetStatus(target, range)
      PROVE  UNCHANGED cur
  BY <1>7 DEF ResetStatus
<1>8. ASSUME NEW a, NewArchive(a) \/ CommitStep(a)
      PROVE  UNCHANGED cur
  BY <1>8 DEF NewArchive, CommitStep, CommitRemove, CommitMove, CommitReset, CommitEnd
<1>9. ASSUME UNCHANGED loaderVars
      PROVE  UNCHANGED cur
  BY <1>9 DEF loaderVars
<1> QED
  BY <1>1, <1>2, <1>3, <1>4, <1>5, <1>6, <1>7, <1>8, <1>9 DEF Next, CommandLineNext, Elsewhere, WorkerNext, WorkerStep, CheckedStep

\* What moves a session to 'done' or to a failure has recorded it.
LEMMA UnrecordedKeepTheirRows ==
    ASSUME TypeOK, HandIsTaken, [Next]_loaderVars, NEW a \in unrecorded', a \in unrecorded,
           status[a] \in {"pending", "parsed"}
    PROVE  status'[a] \in {"pending", "parsed"}
<1> USE DEF TypeOK, HandIsTaken, SetStatus, diskVars, tableVars, workVars, historyVars
<1>1. ASSUME NEW w \in Workers, CheckedStep(w) \/ Interrupt(w)
      PROVE  status'[a] \in {"pending", "parsed"}
  BY <1>1 DEF CheckedStep, Insert, InsertRows, Requeue, ParseNext, ExtractNext, Interrupt
<1>2. ASSUME NEW w \in Workers, ParseOk(w) \/ ParseFails(w) \/ MarkDone(w) \/ ExtractFails(w)
      PROVE  status'[a] \in {"pending", "parsed"}
  <2>1. CASE ParseOk(w)
    BY <2>1 DEF ParseOk
  <2>2. CASE ParseFails(w)
    BY <2>2 DEF ParseFails
  <2>3. CASE MarkDone(w)
    BY <2>3 DEF MarkDone
  <2>4. CASE ExtractFails(w)
    BY <2>4 DEF ExtractFails
  <2> QED
    BY <1>2, <2>1, <2>2, <2>3, <2>4
<1>3. ASSUME NEW w \in Workers, ClearParseErrors(w) \/ ClearExtractErrors(w)
      PROVE  status'[a] \in {"pending", "parsed"}
  BY <1>3 DEF ClearParseErrors, ClearExtractErrors
<1>4. ASSUME NEW w \in Workers,
             \/ Scan(w) \/ InsertDone(w) \/ ParseSnapshot(w) \/ ParseDone(w)
             \/ ExtractSnapshot(w) \/ Incorporate(w) \/ ExtractDone(w)
             \/ HandlerRaises(w) \/ MakeThumbnails(w) \/ Fail(w)
      PROVE  status'[a] \in {"pending", "parsed"}
  BY <1>4 DEF Scan, InsertDone, ParseSnapshot, ParseDone, ExtractSnapshot, Incorporate,
     ExtractDone, HandlerRaises, MakeThumbnails, Fail
<1>5. ASSUME NEW w \in Workers, NEW s \in Scopes, StartRun(w, s)
      PROVE  status'[a] \in {"pending", "parsed"}
  BY <1>5 DEF StartRun
<1>6. ASSUME NEW w \in Workers, FinishRun(w) \/ WorkerDies(w)
      PROVE  status'[a] \in {"pending", "parsed"}
  BY <1>6 DEF FinishRun, WorkerDies
<1>7. ASSUME NEW target \in {"pending", "parsed"}, NEW range \in ResetRanges,
             ResetStatus(target, range)
      PROVE  status'[a] \in {"pending", "parsed"}
  BY <1>7 DEF ResetStatus
<1>8. ASSUME NEW b, NewArchive(b) \/ CommitStep(b)
      PROVE  status'[a] \in {"pending", "parsed"}
  BY <1>8, UploadLeavesTable DEF NewArchive
<1>9. ASSUME ServerDies \/ UNCHANGED loaderVars
      PROVE  status'[a] \in {"pending", "parsed"}
  BY <1>9 DEF ServerDies, loaderVars
<1> QED
  BY <1>1, <1>2, <1>3, <1>4, <1>5, <1>6, <1>7, <1>8, <1>9
  DEF Next, CommandLineNext, Elsewhere, WorkerNext, WorkerStep, FreeStep

\* An archive in hand still stands in the queue of a part when its handler raises.
LEMMA UnrecordedStep ==
    ASSUME IInv, SingleInv, UnrecordedAreRetried, [Next]_loaderVars
    PROVE  UnrecordedAreRetried'
<1> SUFFICES ASSUME NEW a \in unrecorded'
             PROVE  status'[a] \in {"pending", "parsed"}
  BY DEF UnrecordedAreRetried
<1>1. CASE a \in unrecorded
  BY <1>1, UnrecordedKeepTheirRows DEF IInv, RecordInv, UnrecordedAreRetried
<1>2. CASE a \notin unrecorded
  <2>1. PICK w \in Workers : HandlerRaises(w)
    BY <1>2, UnrecordedGrowth
  <2>2. a = cur[w] /\ status' = status
    BY <1>2, <2>1 DEF HandlerRaises, tableVars
  <2>3. status[cur[w]] \in {"pending", "parsed"}
    BY <2>1 DEF HandlerRaises, SingleInv, TakenIsOpen, Taken, Hand
  <2> QED
    BY <2>2, <2>3
<1> QED
  BY <1>1, <1>2

\* With one worker, and whatever UPDATE of a handler fails: when an unlimited run, or
\* any run of the server, reaches Part D, no session it was to take is left; no part
\* picks up an archive whose row says that it failed; and one whose failure could not
\* be recorded still stands in a queue.
THEOREM QueuesAreAlwaysExact ==
    ASSUME OneWorker
    PROVE  Spec => QueuesAreExact
<1>1. IInv /\ SingleInv /\ DrainInv => RunDrains
  BY DEF DrainInv, NothingIsLeft, ThumbsFollowParse, Unlimited, RunDrains
<1>2. IInv /\ SingleInv /\ [Next]_loaderVars =>
        [\A w \in Workers :
            cur[w] = 0 /\ cur'[w] # 0 => status[cur'[w]] \notin FailedStates]_loaderVars
  BY TakenFromQueue DEF IInv, SingleInv, TakenIsOpen, Taken, FailedStates
<1>3. Init => UnrecordedAreRetried
  BY DEF Init, UnrecordedAreRetried
<1>4. IInv /\ SingleInv /\ UnrecordedAreRetried /\ [Next]_loaderVars => UnrecordedAreRetried'
  BY UnrecordedStep
<1> QED
  BY <1>1, <1>2, <1>3, <1>4, SingleInvHolds, SpecSteps, PTL DEF Spec, QueuesAreExact, FailedAreSkipped

-----------------------------------------------------------------------------
(* Refinement                                                              *)

LEMMA RevertStep ==
    ASSUME NEW S \in SUBSET Archives, NEW target \in {"pending", "parsed"},
           SetStatus(S, target),
           \A a \in S : Lifecycle!Tier(status[a]) > Lifecycle!Tier(target)
    PROVE  Lifecycle!Next
  BY DEF SetStatus, Lifecycle!Next, Lifecycle!Revert, Archives, Lifecycle!Archives

LEMMA Tiers ==
    /\ Lifecycle!Tier("absent") = 0
    /\ Lifecycle!Tier("pending") = 1
    /\ Lifecycle!Tier("parse_failed") = 2 /\ Lifecycle!Tier("parsed") = 2
    /\ Lifecycle!Tier("extract_failed") = 3 /\ Lifecycle!Tier("done") = 3
  BY DEF Lifecycle!Tier

LEMMA LifecycleStep ==
    ASSUME OneWorker, IInv, SingleInv, [Next]_loaderVars
    PROVE  [Lifecycle!Next \/ LateVerdict]_status
<1> USE DEF IInv, TypeOK, Archives, Lifecycle!Archives
<1>1. ASSUME NEW w \in Workers, Insert(w)
      PROVE  Lifecycle!Next
  <2> DEFINE new == Newest(queue[w], InsertBatch) \ Registered
  <2>1. new \subseteq Archives /\ \A a \in new : status[a] = "absent"
    BY NewestIsSubset DEF Registered
  <2>2. SetStatus(new, "pending")
    BY <1>1 DEF Insert, InsertRows
  <2>3. Lifecycle!Register(new)
    BY <2>1, <2>2 DEF SetStatus, Lifecycle!Register
  <2> QED
    BY <2>1, <2>3 DEF Lifecycle!Next
<1>2. ASSUME NEW w \in Workers, Requeue(w)
      PROVE  Lifecycle!Next
  <2> DEFINE rows == Newest(Registered \cap scope[w].filter, scope[w].limit)
             S == {a \in rows : status[a] # "pending"}
  <2>1. rows \subseteq Registered
    BY NewestIsSubset
  <2>2. S \in SUBSET Archives
    BY <2>1 DEF Registered
  <2>3. SetStatus(S, "pending")
    BY <1>2 DEF Requeue, SetStatus
  <2>4. ASSUME NEW a \in S PROVE Lifecycle!Tier(status[a]) > Lifecycle!Tier("pending")
    BY <2>1, Tiers DEF Registered, Statuses, FailedStates
  <2> QED
    BY <2>2, <2>3, <2>4, RevertStep
<1>3. ASSUME NEW w \in Workers, ParseOk(w) \/ ParseFails(w)
      PROVE  Lifecycle!Next
  <2>1. pc[w] = "parsing"
    BY <1>3 DEF ParseOk, ParseFails
  <2>2. cur[w] \in Archives /\ status[cur[w]] = "pending"
    BY <2>1 DEF SingleInv, TakenIsOpen, Taken, Hand, RecordInv, HandIsTaken
  <2>3. SetStatus({cur[w]}, "parsed") \/ SetStatus({cur[w]}, "parse_failed")
    BY <1>3 DEF ParseOk, ParseFails
  <2>4. Lifecycle!Parse(cur[w])
    BY <2>2, <2>3 DEF SetStatus, Lifecycle!Parse
  <2> QED
    BY <2>2, <2>4 DEF Lifecycle!Next
<1>4. ASSUME NEW w \in Workers, MarkDone(w) \/ ExtractFails(w)
      PROVE  Lifecycle!Next \/ LateVerdict
  <2>1. pc[w] \in {"extracting", "marking"}
    BY <1>4 DEF MarkDone, ExtractFails
  <2>2. cur[w] \in Archives /\ (status[cur[w]] = "parsed" \/ cur[w] \in touched[w])
    BY <2>1 DEF SingleInv, TakenIsOpen, Taken, Hand, RecordInv, HandIsTaken
  <2>3. SetStatus({cur[w]}, "done") \/ SetStatus({cur[w]}, "extract_failed")
    BY <1>4 DEF MarkDone, ExtractFails
  <2>4. CASE status[cur[w]] = "parsed"
    <3>1. Lifecycle!Extract(cur[w])
      BY <2>2, <2>3, <2>4 DEF SetStatus, Lifecycle!Extract
    <3> QED
      BY <2>2, <3>1 DEF Lifecycle!Next
  <2>5. CASE cur[w] \in touched[w]
    BY <2>2, <2>3, <2>5 DEF SetStatus, LateVerdict, Statuses, FailedStates
  <2> QED
    BY <2>2, <2>4, <2>5
<1>5. ASSUME NEW w \in Workers, ClearParseErrors(w)
      PROVE  Lifecycle!Next
  BY <1>5, Tiers, RevertStep DEF ClearParseErrors, Clearable
<1>6. ASSUME NEW w \in Workers, ClearExtractErrors(w)
      PROVE  Lifecycle!Next
  BY <1>6, Tiers, RevertStep DEF ClearExtractErrors, Clearable
<1>7. ASSUME NEW w \in Workers, ParseNext(w) \/ ExtractNext(w) \/ Interrupt(w)
      PROVE  UNCHANGED status
  BY <1>7 DEF ParseNext, ExtractNext, Interrupt, tableVars
<1>8. ASSUME NEW w \in Workers,
             \/ Scan(w) \/ InsertDone(w) \/ ParseSnapshot(w) \/ ParseDone(w)
             \/ ExtractSnapshot(w) \/ Incorporate(w) \/ ExtractDone(w)
             \/ HandlerRaises(w) \/ MakeThumbnails(w) \/ Fail(w)
      PROVE  UNCHANGED status
  BY <1>8 DEF Scan, InsertDone, ParseSnapshot, ParseDone, ExtractSnapshot, Incorporate,
     ExtractDone, HandlerRaises, MakeThumbnails, Fail, tableVars
<1>9. ASSUME NEW w \in Workers, NEW s \in Scopes, StartRun(w, s)
      PROVE  UNCHANGED status
  BY <1>9 DEF StartRun, tableVars
<1>10. ASSUME NEW w \in Workers, FinishRun(w) \/ WorkerDies(w)
       PROVE  UNCHANGED status
  BY <1>10 DEF FinishRun, WorkerDies, tableVars
<1>11. ASSUME NEW a, NewArchive(a) \/ CommitStep(a)
       PROVE  UNCHANGED status
  BY <1>11, UploadLeavesTable DEF NewArchive, tableVars
<1>12. ASSUME ServerDies \/ UNCHANGED loaderVars
       PROVE  UNCHANGED status
  BY <1>12 DEF ServerDies, loaderVars, tableVars
<1>13. ASSUME NEW target \in {"pending", "parsed"}, NEW range \in ResetRanges,
              ResetStatus(target, range)
       PROVE  Lifecycle!Next
  <2> DEFINE rows == {a \in range : status[a] \in ResettableFrom(target)}
  <2>1. range \subseteq Archives
    BY LoaderAssumption
  <2>2. rows \in SUBSET Archives
    BY <2>1
  <2>3. SetStatus(rows, target)
    BY <1>13 DEF ResetStatus
  <2>4. ASSUME NEW a \in rows PROVE Lifecycle!Tier(status[a]) > Lifecycle!Tier(target)
    BY Tiers DEF ResettableFrom
  <2> QED
    BY <2>2, <2>3, <2>4, RevertStep
<1> HIDE DEF IInv, TypeOK, Archives, Lifecycle!Archives
<1> QED
  BY <1>1, <1>2, <1>3, <1>4, <1>5, <1>6, <1>7, <1>8, <1>9, <1>10, <1>11, <1>12, <1>13
  DEF Next, CommandLineNext, Elsewhere, WorkerNext, WorkerStep, CheckedStep, FreeStep

\* With one worker, Loader implements SessionLifecycle: one session moves up one tier
\* at a time, parsing before extraction, and nothing but a revert moves a session
\* down.  Only the verdict on a session that a reset reverted meanwhile is exempt.
THEOREM ImplementsLifecycle ==
    ASSUME OneWorker
    PROVE  Spec => LifecycleSpec
<1>1. Init => Lifecycle!Init
  BY DEF Init, Lifecycle!Init, Archives, Lifecycle!Archives
<1>2. IInv /\ SingleInv /\ [Next]_loaderVars => [Lifecycle!Next \/ LateVerdict]_status
  BY LifecycleStep
<1> QED
  BY <1>1, <1>2, SingleInvHolds, SpecSteps, PTL DEF Spec, LifecycleSpec

-----------------------------------------------------------------------------
(* The server                                                              *)

\* What is proved of the manager, with no page connected.
NoPages == [p \in {} |-> {}]
JMP == INSTANCE JobPage_proofs WITH
          Pages <- {}, MaxLines <- 0, BufferMax <- 1,
          buffer <- <<>>, handing <- {}, sent <- <<>>,
          conn <- NoPages, queue <- NoPages, asked <- NoPages, answers <- NoPages,
          shows <- NoPages, got <- NoPages

-----------------------------------------------------------------------------
(* JM and JMP are instances of the same module                              *)

LEMMA SameManager == JM!Next <=> JMP!Next
  BY DEF JM!Next, JMP!Next, JM!JobIds, JMP!JobIds, JM!TryStart, JMP!TryStart,
  JM!ThreadStep, JMP!ThreadStep, JM!LaunchThread, JMP!LaunchThread, JM!LaunchFails, JMP!LaunchFails,
  JM!EndBody, JMP!EndBody, JM!CloseRow, JMP!CloseRow, JM!CloseRowFails, JMP!CloseRowFails,
  JM!Release, JMP!Release, JM!StopCheck, JMP!StopCheck, JM!RequestCancel, JMP!RequestCancel,
  JM!Crash, JMP!Crash, JM!Restart, JMP!Restart, JM!Outcomes, JMP!Outcomes, JM!IsNextId, JMP!IsNextId

-----------------------------------------------------------------------------
(* The composition takes the steps of its components                       *)

ResetTyped == resetAsked \in Resets \cup {NoReset}

LEMMA ResetStep == ResetTyped /\ [ServerNext]_serverVars => ResetTyped'
  BY DEF ResetTyped, ServerNext, Start, JobStep, Launch, LaunchFails, End, Finish, Work, Stop,
         ResetCheck, ResetApply, Crash, Restart, Outside, serverVars

LEMMA ManagerStep == [ServerNext]_serverVars => [JM!Next]_(JM!jobVars)
<1> SUFFICES ASSUME [ServerNext]_serverVars PROVE [JM!Next]_(JM!jobVars)
  OBVIOUS
<1> USE DEF JM!Next, JM!jobVars, jobVars
<1>1. ASSUME NEW j \in JM!JobIds, Start(j)
      PROVE  JM!Next
  BY <1>1 DEF Start
<1>2. ASSUME NEW j \in JM!JobIds, Launch(j) \/ LaunchFails(j) \/ Finish(j)
      PROVE  JM!Next
  BY <1>2 DEF Launch, LaunchFails, Finish, JM!ThreadStep
<1>3. ASSUME NEW j \in JM!JobIds, End(j)
      PROVE  JM!Next
  BY <1>3 DEF End, JM!ThreadStep, Ends, JM!Outcomes
<1>4. CASE Stop \/ Crash \/ Restart
  BY <1>4 DEF Stop, Crash, Restart
<1>5. CASE Work \/ ResetCheck \/ ResetApply \/ Outside \/ UNCHANGED serverVars
  BY <1>5 DEF Work, ResetCheck, ResetApply, Outside, serverVars
<1> QED
  BY <1>1, <1>2, <1>3, <1>4, <1>5 DEF ServerNext, JobStep

LEMMA PipelineStep == ResetTyped /\ [ServerNext]_serverVars => [Next]_loaderVars
<1> SUFFICES ASSUME ResetTyped, [ServerNext]_serverVars PROVE [Next]_loaderVars
  OBVIOUS
<1>1. ASSUME NEW j \in JM!JobIds, Start(j) \/ LaunchFails(j) \/ Finish(j)
      PROVE  UNCHANGED loaderVars
  BY <1>1 DEF Start, LaunchFails, Finish
<1>2. ASSUME WorkerNext(Server) \/ Interrupt(Server)
      PROVE  Next
  BY <1>2, IncorporationAssumption DEF IncorporationAssumption, Next
<1>3. ASSUME NEW j \in JM!JobIds, Launch(j)
      PROVE  Next
  BY <1>2, <1>3 DEF Launch, ServerScopes, WorkerNext
<1>4. ASSUME NEW j \in JM!JobIds, End(j)
      PROVE  Next
  BY <1>2, <1>4 DEF End, WorkerNext, WorkerStep
<1>5. CASE Work
  BY <1>2, <1>5 DEF Work, WorkerNext, WorkerStep
<1>6. CASE ResetApply
  BY <1>6 DEF ResetApply, ResetTyped, Resets, CommandLineNext, Next
<1>7. CASE Crash
  BY <1>7 DEF Crash, Next
<1>8. CASE Outside
  BY <1>8 DEF Outside, Elsewhere, CommandLineNext, Next
<1>9. CASE Stop \/ ResetCheck \/ Restart \/ UNCHANGED serverVars
  BY <1>9 DEF Stop, ResetCheck, Restart, serverVars
<1> QED
  BY <1>1, <1>3, <1>4, <1>5, <1>6, <1>7, <1>8, <1>9 DEF ServerNext, JobStep

\* What JobPage_proofs assumes of the constants, with no page connected.
LEMMA Assumptions == MaxJobs \in Nat /\ 0 \in Nat /\ 1 \in Nat \ {0}
  BY IncorporationAssumption DEF IncorporationAssumption

\* The inductive invariant of the manager, in the composition.
ManagerInv == JMP!LockInv /\ JMP!EventInv

LEMMA ManagerInvStep == ManagerInv /\ [ServerNext]_serverVars => ManagerInv'
<1>1. UNCHANGED JM!jobVars <=> UNCHANGED JMP!jobVars
  BY DEF JM!jobVars, JMP!jobVars
<1>2. [ServerNext]_serverVars => [JMP!Next]_(JMP!jobVars)
  BY <1>1, SameManager, ManagerStep
<1>3. ManagerInv /\ [JMP!Next]_(JMP!jobVars) => JMP!LockInv'
  BY JMP!LockStep, Assumptions DEF ManagerInv
<1>4. ManagerInv /\ [JMP!Next]_(JMP!jobVars) => JMP!EventInv'
  BY JMP!EventStep, Assumptions DEF ManagerInv
<1> QED
  BY <1>2, <1>3, <1>4 DEF ManagerInv

-----------------------------------------------------------------------------
(* The theorems                                                            *)

\* No step beside the server moves the server's pipeline.
LEMMA ElsewhereLeavesServer ==
    ASSUME TypeOK, NEW serves, Elsewhere(serves)
    PROVE  pc'[Server] = pc[Server]
<1> USE IncorporationAssumption
    DEF IncorporationAssumption, TypeOK, Goto, Forget, diskVars, tableVars, workVars, historyVars
<1>1. ASSUME NEW w \in Workers \ {Server}, CheckedStep(w)
      PROVE  pc'[Server] = pc[Server]
  BY <1>1 DEF CheckedStep, Insert, InsertRows, Requeue, ParseNext, ExtractNext
<1>2. ASSUME NEW w \in Workers \ {Server}, FreeStep(w)
      PROVE  pc'[Server] = pc[Server]
  <2>1. ASSUME \/ Scan(w) \/ InsertDone(w) \/ ParseSnapshot(w) \/ ParseOk(w) \/ ParseFails(w)
               \/ ParseDone(w) \/ ExtractSnapshot(w) \/ Incorporate(w)
        PROVE  pc'[Server] = pc[Server]
    BY <1>2, <2>1 DEF Scan, InsertDone, ParseSnapshot, ParseOk, ParseFails, ParseDone,
       ExtractSnapshot, Incorporate
  <2>2. ASSUME \/ MarkDone(w) \/ ExtractFails(w) \/ ExtractDone(w) \/ HandlerRaises(w)
               \/ MakeThumbnails(w) \/ ClearParseErrors(w) \/ ClearExtractErrors(w) \/ Fail(w)
        PROVE  pc'[Server] = pc[Server]
    BY <1>2, <2>2 DEF MarkDone, ExtractFails, ExtractDone, HandlerRaises, MakeThumbnails,
       ClearParseErrors, ClearExtractErrors, Fail
  <2> QED
    BY <1>2, <2>1, <2>2 DEF FreeStep
<1>3. ASSUME NEW w \in Workers \ {Server},
             FinishRun(w) \/ Interrupt(w) \/ WorkerDies(w) \/ \E s \in Scopes : StartRun(w, s)
      PROVE  pc'[Server] = pc[Server]
  BY <1>3 DEF FinishRun, Interrupt, WorkerDies, StartRun
<1>4. ASSUME NEW a \in Archives, NewArchive(a) \/ CommitStep(a)
      PROVE  pc'[Server] = pc[Server]
  BY <1>4 DEF NewArchive, CommitStep, CommitRemove, CommitMove, CommitReset, CommitEnd
<1> QED
  BY <1>1, <1>2, <1>3, <1>4, LoaderAssumption
  DEF LoaderAssumption, Elsewhere, WorkerNext, WorkerStep

\* A run begins when the thread of the claimed job does and ends with it; in
\* between its steps leave the manager alone, and no other thread exists whose
\* failing launch or whose release could take the claim away.
LEMMA PipelineClaimStep ==
    ASSUME ManagerInv, TypeOK, PipelineIsClaimed, [ServerNext]_serverVars
    PROVE  PipelineIsClaimed'
<1> USE DEF ManagerInv, JMP!LockInv, JMP!TypeOK, JMP!ThreadIsClaimed, JMP!Live,
        JMP!JobIds, JM!JobIds, JMP!Outcomes, JM!Outcomes, PipelineIsClaimed, jobVars, loaderVars
<1>1. ASSUME NEW j \in JM!JobIds, Start(j)
      PROVE  PipelineIsClaimed'
  BY <1>1 DEF Start, JM!TryStart
<1>2. ASSUME NEW j \in JM!JobIds, Launch(j)
      PROVE  PipelineIsClaimed'
  BY <1>2, Assumptions DEF Launch, JM!LaunchThread
<1>3. ASSUME NEW j \in JM!JobIds, LaunchFails(j)
      PROVE  PipelineIsClaimed'
  BY <1>3 DEF LaunchFails, JM!LaunchFails
<1>4. ASSUME NEW j \in JM!JobIds, End(j)
      PROVE  PipelineIsClaimed'
  <2>1. pc'[Server] = "idle"
    BY <1>4, IncorporationAssumption
       DEF IncorporationAssumption, End, FinishRun, Forget, Goto, TypeOK
  <2> QED
    BY <2>1
<1>5. ASSUME NEW j \in JM!JobIds, Finish(j)
      PROVE  PipelineIsClaimed'
  BY <1>5 DEF Finish, JM!CloseRow, JM!CloseRowFails, JM!Release
<1>6. CASE Work
  <2>1. pc[Server] # "idle"
    BY <1>6 DEF Work, CheckedStep, Insert, Requeue, ParseNext, ExtractNext,
       Interrupt, AtCheck, FreeStep, Scan, InsertDone, ParseSnapshot,
       ParseOk, ParseFails, ParseDone, ExtractSnapshot, Incorporate,
       MarkDone, ExtractFails, ExtractDone, HandlerRaises, MakeThumbnails,
       ClearParseErrors, ClearExtractErrors, Fail, Parts
  <2> QED
    BY <1>6, <2>1 DEF Work
<1>7. CASE Stop
  BY <1>7 DEF Stop, JM!StopCheck, JM!RequestCancel
<1>8. CASE ResetCheck \/ ResetApply \/ Outside
  <2>1. pc'[Server] = pc[Server]
    BY <1>8, ElsewhereLeavesServer DEF ResetCheck, ResetApply, ResetStatus, Outside
  <2> QED
    BY <1>8, <2>1 DEF ResetCheck, ResetApply, Outside
<1>9. CASE Crash
  <2>1. pc'[Server] = "idle"
    BY <1>9, IncorporationAssumption
       DEF IncorporationAssumption, Crash, ServerDies, Forget, Goto, TypeOK
  <2> QED
    BY <2>1
<1>10. CASE Restart
  BY <1>10 DEF Restart, JM!Restart
<1>11. CASE UNCHANGED serverVars
  BY <1>11 DEF serverVars
<1> QED
  BY ONLY <1>1, <1>2, <1>3, <1>4, <1>5, <1>6, <1>7, <1>8, <1>9, <1>10, <1>11, [ServerNext]_serverVars
  DEF ServerNext, JobStep

CompositionInv == ManagerInv /\ TypeOK /\ ResetTyped /\ PipelineIsClaimed

\* The composition implements the safety part of JobManager: the pipeline ends a
\* job only as EndBody allows, and 'cancelled' only after the event was set.
THEOREM ImplementsJobManager == ServerSpec => JM!Init /\ [][JM!Next]_(JM!jobVars)
<1>1. ServerInit => JM!Init
  BY DEF ServerInit
<1> QED
  BY <1>1, ManagerStep, PTL DEF ServerSpec

\* The composition implements the safety part of Loader: the status-reset route,
\* too, does no more than Loader lets it.
THEOREM ImplementsLoader == ServerSpec => LoaderSteps
<1>1. ServerInit => Init /\ ResetTyped
  BY DEF ServerInit, ResetTyped
<1>2. ResetTyped /\ [ServerNext]_serverVars => ResetTyped' /\ [Next]_loaderVars
  BY ResetStep, PipelineStep
<1> QED
  BY <1>1, <1>2, PTL DEF ServerSpec, LoaderSteps

LEMMA CompositionInvHolds == ServerSpec => []CompositionInv
<1>1. ServerInit => ManagerInv /\ ResetTyped /\ PipelineIsClaimed
  <2> SUFFICES ASSUME ServerInit PROVE ManagerInv /\ ResetTyped /\ PipelineIsClaimed
    OBVIOUS
  <2>1. JMP!Init
    BY DEF ServerInit, JM!Init, JMP!Init, JM!JobIds, JMP!JobIds
  <2>2. ManagerInv
    BY <2>1, JMP!InitEstablishes, Assumptions DEF ManagerInv, JMP!IInv, JMP!LockInv, JMP!EventInv
  <2>3. ResetTyped /\ PipelineIsClaimed
    BY IncorporationAssumption
       DEF IncorporationAssumption, ServerInit, Init, ResetTyped, PipelineIsClaimed
  <2> QED
    BY <2>2, <2>3
<1>2. IInv => TypeOK
  BY DEF IInv
<1>3. ManagerInv /\ TypeOK /\ ResetTyped /\ PipelineIsClaimed /\ [ServerNext]_serverVars =>
        (ManagerInv /\ ResetTyped /\ PipelineIsClaimed)'
  BY ManagerInvStep, ResetStep, PipelineClaimStep
<1> QED
  BY <1>1, <1>2, <1>3, ImplementsLoader, IInvHolds, PTL DEF ServerSpec, CompositionInv

\* The server's pipeline works on archive_session only inside the body of the job
\* that holds the lock, however jobs are started, stopped, crashed and wedged, and
\* whatever command-line loaders and uploads do to the table meanwhile.
THEOREM PipelineIsAlwaysClaimed == ServerSpec => []PipelineIsClaimed
<1>1. CompositionInv => PipelineIsClaimed
  BY DEF CompositionInv
<1> QED
  BY <1>1, CompositionInvHolds, PTL

\* So in the whole server the lock, rows and threads agree, a job ends 'Cancelled
\* by user' only after a stop that hit it, and what is parsed or done has the
\* structures and entities to show for it.
THEOREM ServerKeepsPromises ==
    ServerSpec => [](JM!OneJobIsClaimed /\ JM!CancelledWasHit /\ WorkIsOnRecord)
<1>1. CompositionInv => JM!OneJobIsClaimed /\ JM!CancelledWasHit
  BY DEF CompositionInv, ManagerInv, JMP!LockInv, JMP!EventInv, JMP!ThreadIsClaimed,
     JMP!RunningRowIsClaimed, JMP!OneRunningRow, JMP!CancelledWasHit, JMP!JobIds, JMP!Live,
     JM!OneJobIsClaimed, JM!OneJobAtATime, JM!ThreadIsClaimed, JM!RunningRowIsClaimed,
     JM!CancelledWasHit, JM!JobIds, JM!Live
<1>2. IInv => WorkIsOnRecord
  BY DEF IInv, RecordInv
<1> QED
  BY <1>1, <1>2, CompositionInvHolds, ImplementsLoader, IInvHolds, PTL

\* With no loader beside it, the status column can be believed in the whole server,
\* and a run that reaches Part D has left no session 'pending' or 'parsed' except
\* those that a reset reverted meanwhile.
THEOREM ServerCanBeBelieved ==
    ASSUME OneWorker
    PROVE  ServerSpec => [](StatusIsTrue /\ RunDrains)
<1>1. IInv /\ SingleInv /\ DrainInv => StatusIsTrue /\ RunDrains
  BY DEF SingleInv, DrainInv, NothingIsLeft, ThumbsFollowParse, Unlimited, RunDrains
<1> QED
  BY <1>1, ImplementsLoader, SingleInvHolds, PTL

=============================================================================
