------------------------------ MODULE Media_proofs ------------------------------
(***************************************************************************)
(* What is made of the media, for any media, passes, bounds and archives.  *)
(* MediaDerivatives: whatever dies or fails, a row that says 'generated'   *)
(* has its thumbnail on disk, or its hashes complete and once; and a pass  *)
(* does what it began with and no more than its limit.  Extraction: what a *)
(* curator deleted never comes back, assembly is the longest prefix,       *)
(* clusters are the chains, and the log covers every file that is linked.  *)
(***************************************************************************)
EXTENDS Extraction, MediaDerivatives, FiniteSetTheorems, TLAPS

\* The part of the typing that the rows and the tasks rest on.
RowType ==
    /\ file \in [Media -> LocalUrls]
    /\ status \in [Media -> Statuses]
    /\ thumb \in [Media -> {0} \cup Versions]
    /\ saved \in [Media -> {0} \cup Versions]
    /\ rows \in [Media -> Seq(Versions)]
    /\ task \in [Workers -> [Media -> [at : Places, url : LocalUrls]]]

\* A task that has opened a file works on a local one, and one that goes on to
\* the row has left a thumbnail on disk, which no step removes.
TaskInv ==
    \A w \in Workers, m \in Media :
        /\ task[w][m].at \in {"reading", "made", "saved"} => task[w][m].url \in Versions
        /\ task[w][m].at = "saved" => saved[m] # 0

DerivedInv == RowType /\ TaskInv /\ ThumbnailIsThere /\ HashesAreWhole

LEMMA InitDerived == PassesInit => DerivedInv
  BY DEF PassesInit, DerivedInv, RowType, TaskInv, ThumbnailIsThere, HashesAreWhole, LocalUrls, NoFile,
         Cdn, Statuses, Places, NoTask

\* What going on does to the tasks.
LEMMA GotoTask ==
  ASSUME RowType, NEW w \in Workers, NEW m \in Media, NEW place \in Places, Goto(w, m, place)
  PROVE  /\ task' \in [Workers -> [Media -> [at : Places, url : LocalUrls]]]
         /\ task'[w][m].at = place
         /\ place \notin Results \cup {"failed"} => task'[w][m].url = task[w][m].url
         /\ \A v \in Workers, n \in Media : v # w \/ n # m => task'[v][n] = task[v][n]
  BY DEF RowType, Goto, LocalUrls, Results

\* A task that goes on keeps TaskInv if it has what its new place asks for.
TaskType == task \in [Workers -> [Media -> [at : Places, url : LocalUrls]]]

LEMMA GotoKeeps ==
  ASSUME DerivedInv, NEW w \in Workers, NEW m \in Media, NEW place \in Places, Goto(w, m, place),
         \A n \in Media : saved[n] # 0 => saved'[n] # 0,
         place \in {"reading", "made", "saved"} => task[w][m].url \in Versions,
         place = "saved" => saved'[m] # 0
  PROVE  TaskType' /\ TaskInv'
  <1>1. TaskType' /\ task'[w][m].at = place
        /\ \A v \in Workers, n \in Media : v # w \/ n # m => task'[v][n] = task[v][n]
    BY GotoTask DEF TaskType, DerivedInv
  <1>2. place \in {"reading", "made", "saved"} => task'[w][m].url = task[w][m].url
    BY GotoTask DEF DerivedInv, Results
  <1>3. ASSUME NEW v \in Workers, NEW n \in Media
        PROVE  /\ task'[v][n].at \in {"reading", "made", "saved"} => task'[v][n].url \in Versions
               /\ task'[v][n].at = "saved" => saved'[n] # 0
    <2>1. CASE v = w /\ n = m
      BY <1>1, <1>2, <2>1
    <2>2. CASE v # w \/ n # m
      BY <1>1, <2>2 DEF DerivedInv, TaskInv
    <2> QED
      BY <2>1, <2>2
  <1>4. Versions' = Versions
    BY DEF Versions
  <1> QED
    BY <1>1, <1>3, <1>4 DEF TaskInv

\* A step that leaves the rows alone, and takes its task only to a place that asks
\* nothing of files or disk, or to the next one on the same file.
LEMMA TaskOnly ==
  ASSUME DerivedInv, NEW w \in Workers, NEW m \in Media, NEW place \in Places \ {"saved"},
         Goto(w, m, place), UNCHANGED rowVars,
         place \in {"reading", "made"} => task[w][m].url \in Versions
  PROVE  DerivedInv'
  <1>1. TaskType' /\ TaskInv'
    BY GotoKeeps DEF rowVars
  <1>2. RowType'
    BY <1>1 DEF TaskType, DerivedInv, RowType, rowVars
  <1>3. ThumbnailIsThere' /\ HashesAreWhole'
    BY DEF DerivedInv, rowVars, ThumbnailIsThere, HashesAreWhole
  <1> QED
    BY <1>1, <1>2, <1>3 DEF DerivedInv

\* A step that changes neither rows nor disk, and drops tasks or has new ones wait.
LEMMA RowsAlone ==
  ASSUME DerivedInv, UNCHANGED rowVars,
         task' \in [Workers -> [Media -> [at : Places, url : LocalUrls]]],
         \A w \in Workers, m \in Media :
            task'[w][m] = task[w][m] \/ task'[w][m].at \in {"none", "waiting"}
  PROVE  DerivedInv'
  BY DEF DerivedInv, RowType, TaskInv, ThumbnailIsThere, HashesAreWhole, rowVars

\* A step of the intake changes files, and a status only to one that is not 'generated'
\* and from one that is not.
LEMMA StatusAlone ==
  ASSUME DerivedInv, UNCHANGED <<kind, thumb, saved, rows, task>>,
         file' \in [Media -> LocalUrls], status' \in [Media -> Statuses],
         \A m \in Media : status'[m] = "generated" <=> status[m] = "generated"
  PROVE  DerivedInv'
  BY DEF DerivedInv, RowType, TaskInv, ThumbnailIsThere, HashesAreWhole

LEMMA IntakeStep ==
  ASSUME DerivedInv, NEW m \in Media, NEW url \in LocalUrls,
         Insert(m, url) \/ Replace(m, url), UNCHANGED <<kind, thumb, saved, rows, task>>
  PROVE  DerivedInv'
  <1>1. file' \in [Media -> LocalUrls] /\ status' \in [Media -> Statuses]
    BY DEF DerivedInv, RowType, Insert, Replace, Statuses
  <1>2. \A n \in Media : status'[n] = "generated" <=> status[n] = "generated"
    BY DEF DerivedInv, RowType, Insert, Replace
  <1> QED
    BY <1>1, <1>2, StatusAlone

\* Every step of a task keeps the invariant.
LEMMA TaskKeeps ==
  ASSUME DerivedInv, NEW w \in Workers, NEW m \in Media, TaskStep(w, m)
  PROVE  DerivedInv'
  <1> USE DEF Results
  <1>1. CASE BeginTask(w, m)
    BY <1>1, TaskOnly DEF BeginTask, Url, Places
  <1>2. CASE RaisesOut(w, m)
    BY <1>2, TaskOnly DEF RaisesOut, Places
  <1>3. CASE NotLocal(w, m)
    BY <1>3, TaskOnly DEF NotLocal, Places
  <1>4. CASE ReadEnds(w, m)
    BY <1>4, TaskOnly DEF ReadEnds, Places, DerivedInv, TaskInv
  <1>12. CASE ReadHangs(w, m)
    BY <1>12, TaskOnly DEF ReadHangs, Places
  <1>5. CASE TimesOut(w, m)
    BY <1>5, TaskOnly DEF TimesOut, Places
  <1>6. CASE StatementFails(w, m)
    BY <1>6, TaskOnly DEF StatementFails, Places
  <1>7. CASE Needless(w, m)
    <2>1. Goto(w, m, "true") /\ kind = "hashes" /\ kind' = kind
      BY <1>7 DEF Needless, At
    <2>2. TaskType' /\ TaskInv'
      BY <1>7, <2>1, GotoKeeps DEF Needless, Places
    <2>4. RowType'
      BY <1>7, <2>2 DEF Needless, TaskType, DerivedInv, RowType, Statuses
    <2>3. ThumbnailIsThere' /\ HashesAreWhole'
      BY <1>7, <2>1 DEF Needless, DerivedInv, RowType, ThumbnailIsThere, HashesAreWhole
    <2> QED
      BY <2>2, <2>3, <2>4 DEF DerivedInv
  <1>8. CASE SaveJpeg(w, m)
    <2>1. Goto(w, m, "saved") /\ task[w][m].at = "made"
      BY <1>8 DEF SaveJpeg, At
    <2>2. task[w][m].url \in Versions
      BY <2>1 DEF DerivedInv, TaskInv
    <2>3. saved' \in [Media -> {0} \cup Versions] /\ saved'[m] # 0
          /\ \A n \in Media : saved[n] # 0 => saved'[n] # 0
      BY <1>8, <2>2 DEF SaveJpeg, Url, DerivedInv, RowType, Versions
    <2>4. TaskType' /\ TaskInv'
      BY <2>1, <2>2, <2>3, GotoKeeps DEF Places
    <2>6. RowType'
      BY <1>8, <2>3, <2>4 DEF SaveJpeg, TaskType, DerivedInv, RowType
    <2>5. ThumbnailIsThere' /\ HashesAreWhole'
      BY <1>8, <2>3 DEF SaveJpeg, DerivedInv, ThumbnailIsThere, HashesAreWhole
    <2> QED
      BY <2>4, <2>5, <2>6 DEF DerivedInv
  <1>9. CASE RecordThumbnail(w, m)
    <2>1. Goto(w, m, "true") /\ kind = "thumbnails" /\ kind' = kind /\ task[w][m].at = "saved"
      BY <1>9 DEF RecordThumbnail, At
    <2>2. task[w][m].url \in Versions /\ task[w][m].url # 0 /\ saved[m] # 0
      BY <2>1 DEF DerivedInv, TaskInv, Versions
    <2>3. TaskType' /\ TaskInv'
      BY <1>9, <2>1, GotoKeeps DEF RecordThumbnail, Places
    <2>5. RowType'
      BY <1>9, <2>2, <2>3 DEF RecordThumbnail, Url, TaskType, DerivedInv, RowType, Statuses
    <2>4. ThumbnailIsThere' /\ HashesAreWhole'
      BY <1>9, <2>1, <2>2 DEF RecordThumbnail, Url, DerivedInv, RowType, ThumbnailIsThere, HashesAreWhole
    <2> QED
      BY <2>3, <2>4, <2>5 DEF DerivedInv
  <1>10. CASE Persist(w, m)
    <2>1. Goto(w, m, "true") /\ kind = "hashes" /\ kind' = kind /\ task[w][m].at = "made"
      BY <1>10 DEF Persist, At
    <2>2. task[w][m].url \in Versions
      BY <2>1 DEF DerivedInv, TaskInv
    <2>3. Frames(m, task[w][m].url) \in Seq(Versions) /\ Frames(m, task[w][m].url) # <<>>
      BY <2>2 DEF Frames
    <2>4. TaskType' /\ TaskInv'
      BY <1>10, <2>1, GotoKeeps DEF Persist, Places
    <2>7. RowType'
      BY <1>10, <2>3, <2>4 DEF Persist, Url, TaskType, DerivedInv, RowType, Statuses
    <2>5. ThumbnailIsThere'
      BY <1>10, <2>1 DEF Persist, DerivedInv, ThumbnailIsThere
    <2>6. ASSUME NEW n \in Media
          PROVE  /\ rows'[n] = <<>> \/ \E v \in Versions : rows'[n] = Frames(n, v)
                 /\ status'[n] = "generated" => rows'[n] # <<>>
      <3>1. CASE n = m
        BY <1>10, <2>2, <2>3, <3>1 DEF Persist, Url, DerivedInv, RowType
      <3>2. CASE n # m
        BY <1>10, <2>1, <3>2 DEF Persist, DerivedInv, RowType, HashesAreWhole
      <3> QED
        BY <3>1, <3>2
    <2> QED
      BY <2>4, <2>5, <2>6, <2>7 DEF DerivedInv, HashesAreWhole
  <1>11. CASE RecordError(w, m)
    <2>1. Goto(w, m, "false")
      BY <1>11 DEF RecordError
    <2>2. TaskType' /\ TaskInv'
      BY <1>11, <2>1, GotoKeeps DEF RecordError, Places
    <2>4. RowType'
      BY <1>11, <2>2 DEF RecordError, TaskType, DerivedInv, RowType, Statuses
    <2>3. ThumbnailIsThere' /\ HashesAreWhole'
      BY <1>11 DEF RecordError, DerivedInv, RowType, ThumbnailIsThere, HashesAreWhole
    <2> QED
      BY <2>2, <2>3, <2>4 DEF DerivedInv
  <1> QED
    BY <1>1, <1>2, <1>3, <1>4, <1>5, <1>6, <1>7, <1>8, <1>9, <1>10, <1>11, <1>12 DEF TaskStep

\* The steps of a pass between its tasks, and its death, leave the rows alone.
LEMMA PassKeeps ==
  ASSUME DerivedInv, NEW w \in Workers, PassStep(w) \/ Dies(w) \/ ThreadReturns(w)
  PROVE  DerivedInv'
  <1>1. UNCHANGED rowVars
    BY DEF PassStep, Dies, ThreadReturns, Fetch, NothingToFetch, Leave, Gathered, Close, Over
  <1>2. \/ task' = task
        \/ \E new \in [Media -> [at : {"none", "waiting"}, url : LocalUrls]] :
              task' = [task EXCEPT ![w] = new]
    <2> DEFINE NoTasks == [m \in Media |-> NoTask]
    <2>1. NoTasks \in [Media -> [at : {"none", "waiting"}, url : LocalUrls]]
      BY DEF NoTask, LocalUrls
    <2>2. CASE Fetch(w)
      <3>1. PICK batch \in SUBSET Pending :
               task' = [task EXCEPT ![w] = [m \in Media |->
                          IF m \in batch THEN [at |-> "waiting", url |-> file[m]] ELSE NoTask]]
        BY <2>2 DEF Fetch
      <3>2. [m \in Media |-> IF m \in batch THEN [at |-> "waiting", url |-> file[m]] ELSE NoTask]
               \in [Media -> [at : {"none", "waiting"}, url : LocalUrls]]
        BY DEF DerivedInv, RowType, NoTask, LocalUrls
      <3> QED
        BY <3>1, <3>2
    <2>3. CASE NothingToFetch(w) \/ Leave(w) \/ ThreadReturns(w)
      BY <2>3 DEF NothingToFetch, Leave, ThreadReturns
    <2>4. CASE Gathered(w) \/ Close(w) \/ Dies(w)
      BY <2>1, <2>4 DEF Gathered, Close, Dies, Over
    <2> QED
      BY <2>2, <2>3, <2>4 DEF PassStep
  <1>3. task' \in [Workers -> [Media -> [at : Places, url : LocalUrls]]]
    BY <1>2 DEF DerivedInv, RowType, Places
  <1>4. \A v \in Workers, m \in Media :
           task'[v][m] = task[v][m] \/ task'[v][m].at \in {"none", "waiting"}
    BY <1>2 DEF DerivedInv, RowType
  <1> QED
    BY <1>1, <1>3, <1>4, RowsAlone

LEMMA StepDerived == DerivedInv /\ [PassesNext]_vars => DerivedInv'
  <1> SUFFICES ASSUME DerivedInv, [PassesNext]_vars PROVE DerivedInv'
    OBVIOUS
  <1>1. ASSUME NEW m \in Media, NEW url \in LocalUrls, Intake(m, url) PROVE DerivedInv'
    BY <1>1, IntakeStep DEF Intake, passVars
  <1>2. ASSUME NEW m \in Media, AaIntake(m) PROVE DerivedInv'
    BY <1>2, IntakeStep DEF AaIntake, passVars, LocalUrls
  <1>3. CASE AaMark
    <2>1. status' \in [Media -> Statuses]
          /\ \A m \in Media : status'[m] = "generated" <=> status[m] = "generated"
      BY <1>3 DEF AaMark, DerivedInv, RowType, Statuses
    <2> QED
      BY <1>3, <2>1, StatusAlone DEF AaMark, passVars, DerivedInv, RowType
  <1>4. CASE AaDies
    BY <1>4, StatusAlone DEF AaDies, passVars, DerivedInv, RowType
  <1>5. ASSUME NEW w \in Workers, WorkerStep(w) \/ Dies(w) \/ ThreadReturns(w) PROVE DerivedInv'
    BY <1>5, TaskKeeps, PassKeeps DEF WorkerStep
  <1>6. ASSUME NEW w \in Workers, NEW p \in Passes, StartPass(w, p) PROVE DerivedInv'
    BY <1>6, RowsAlone DEF StartPass, DerivedInv, RowType
  <1>7. CASE UNCHANGED vars
    BY <1>7, RowsAlone DEF vars, passVars, DerivedInv, RowType
  <1> QED
    BY <1>1, <1>2, <1>3, <1>4, <1>5, <1>6, <1>7 DEF PassesNext

LEMMA DerivedAlways == PassesSpec => []DerivedInv
  BY InitDerived, StepDerived, PTL DEF PassesSpec

\* However passes overlap and die: 'generated' in thumbnail_status stands for a
\* thumbnail on disk, and no other status names one.
THEOREM ThumbnailsAreThere == PassesSpec => []ThumbnailIsThere
  <1>1. DerivedInv => ThumbnailIsThere
    BY DEF DerivedInv
  <1> QED
    BY DerivedAlways, <1>1, PTL

\* However passes overlap and die: the hashes of a medium are complete, each once,
\* and 'generated' in phash_status stands for some.
THEOREM HashesAreAlwaysWhole == PassesSpec => []HashesAreWhole
  <1>1. DerivedInv => HashesAreWhole
    BY DEF DerivedInv
  <1> QED
    BY DerivedAlways, <1>1, PTL
-----------------------------------------------------------------------------
(* A pass keeps its promises: an unlimited one leaves nothing pending that *)
(* it owes, a limited one stays within its limit.                          *)

\* The part of the typing that the rows do not rest on.
PassType ==
    /\ kind \in {"thumbnails", "hashes"}
    /\ unmarked \subseteq Media
    /\ pc \in [Workers -> {"idle", "loop", "batch", "closing"}]
    /\ pass \in [Workers -> Passes \cup {NoPass}]
    /\ count \in [Workers -> Nat]
    /\ short \in [Workers -> BOOLEAN]
    /\ hung \in [Workers -> 0 .. MaxHangs]
    /\ faults \in 0 .. MaxFaults
    /\ owes \in [Workers -> SUBSET Media]
    /\ abandoned \in BOOLEAN

Unpaid(w) == owes[w] \cap Pending
Limit(w) == pass[w].limit

\* What a worker keeps from step to step.  An unlimited pass has paid for what its
\* finished tasks took, and a short batch holds all that it still owes; a limited
\* pass has room for its whole batch.
PassInv(w) ==
    /\ Limit(w) # 0 => owes[w] = {}
    /\ pc[w] # "batch" => Batch(w) = {}
    /\ pc[w] = "idle" => count[w] = 0
    /\ \A m \in Media : task[w][m].at \in Results => m \notin Unpaid(w)
    /\ pc[w] = "batch" /\ short[w] => Unpaid(w) \subseteq Batch(w)
    /\ pc[w] = "closing" => Unpaid(w) = {}
    /\ pc[w] = "batch" /\ Limit(w) # 0 => count[w] + Cardinality(Batch(w)) <= Limit(w)
    /\ pc[w] # "idle" /\ Limit(w) # 0 => count[w] <= Limit(w)

\* What is owed is stored, and no stored row becomes pending again.
OwedAreStored == \A w \in Workers : \A m \in owes[w] : status[m] # "absent"

PromiseInv == PassType /\ OwedAreStored /\ \A w \in Workers : PassInv(w)

LEMMA InitPromises == PassesInit => PromiseInv
  <1> SUFFICES ASSUME PassesInit PROVE PromiseInv
    OBVIOUS
  <1>1. PassType
    <2>1. MaxHangs \in Nat /\ MaxFaults \in Nat
      BY DerivativesAssumption DEF DerivativesAssumption
    <2>2. pass \in [Workers -> Passes \cup {NoPass}]
      BY DEF PassesInit
    <2>3. hung \in [Workers -> 0 .. MaxHangs] /\ faults \in 0 .. MaxFaults
      BY <2>1 DEF PassesInit
    <2>4. kind \in {"thumbnails", "hashes"} /\ unmarked \subseteq Media /\ abandoned \in BOOLEAN
      BY DEF PassesInit
    <2>5. pc \in [Workers -> {"idle", "loop", "batch", "closing"}] /\ count \in [Workers -> Nat]
          /\ short \in [Workers -> BOOLEAN] /\ owes \in [Workers -> SUBSET Media]
      BY DEF PassesInit
    <2> QED
      BY <2>2, <2>3, <2>4, <2>5 DEF PassType
  <1>2. ASSUME NEW w \in Workers PROVE PassInv(w) /\ owes[w] = {}
    BY <1>2 DEF PassesInit, PassInv, Unpaid, Batch, NoTask, Results
  <1> QED
    BY <1>1, <1>2 DEF PromiseInv, OwedAreStored

LEMMA SamePasses ==
  ASSUME kind' = kind PROVE (Passes \cup {NoPass})' = Passes \cup {NoPass}
  BY DEF Passes, NoPass

LEMMA LimitsAreNat == \A p \in Passes \cup {NoPass} : p.limit \in Nat
  <1>1. ASSUME NEW B, NEW L, NEW p \in [by : B, limit : L] PROVE p.limit \in L
    OBVIOUS
  <1>2. Limits \subseteq Nat
    BY DerivativesAssumption DEF DerivativesAssumption
  <1>3. ASSUME NEW B, NEW p \in [by : B, limit : {0}] PROVE p.limit \in Nat
    OBVIOUS
  <1>4. ASSUME NEW B, NEW p \in [by : B, limit : Limits] PROVE p.limit \in Nat
    BY <1>1, <1>2
  <1>5. NoPass.limit \in Nat
    BY DEF NoPass
  <1>6. \A p \in Passes : p.limit \in Nat
    BY <1>3, <1>4, Zenon DEF Passes
  <1> QED
    BY <1>5, <1>6

LEMMA LimitIsNat ==
  ASSUME PassType, NEW w \in Workers
  PROVE  Limit(w) \in Nat
  BY LimitsAreNat DEF PassType, Limit

\* No step of a task, a loader or another worker brings a worker into debt: its debt
\* only shrinks, its batch stays, and a task is done when its debt is paid.
LEMMA DebtShrinks ==
  ASSUME NEW w \in Workers, PassInv(w),
         pc'[w] = pc[w], pass'[w] = pass[w], count'[w] = count[w], short'[w] = short[w],
         Batch(w)' = Batch(w), owes'[w] \subseteq owes[w], Unpaid(w)' \subseteq Unpaid(w),
         \A m \in Media : task'[w][m].at \in Results =>
            task[w][m].at \in Results \/ m \notin Unpaid(w)'
  PROVE  PassInv(w)'
  <1>1. Limit(w)' = Limit(w)
    BY DEF Limit
  <1>2. Results' = Results
    BY DEF Results
  <1> QED
    BY <1>1, <1>2 DEF PassInv

\* A status that is stored becomes pending in no step of a loader or a task.
Settled == \A m \in Media : status[m] # "absent" =>
              status'[m] # "absent" /\ (status'[m] = "pending" => status[m] = "pending")

LEMMA SettledDebt ==
  ASSUME PromiseInv, Settled, NEW w \in Workers, owes'[w] \subseteq owes[w]
  PROVE  /\ Unpaid(w)' \subseteq Unpaid(w)
         /\ \A m \in owes'[w] : status'[m] # "absent"
  BY DEF PromiseInv, PassType, OwedAreStored, Settled, Unpaid, Pending

\* A step that leaves all passes as they are.
LEMMA PassesAlone ==
  ASSUME PromiseInv, Settled, UNCHANGED <<kind, pc, pass, count, short, task, owes>>,
         unmarked' \subseteq Media, hung' \in [Workers -> 0 .. MaxHangs], faults' \in 0 .. MaxFaults,
         abandoned' \in BOOLEAN
  PROVE  PromiseInv'
  <1>1. PassType'
    BY SamePasses DEF PromiseInv, PassType
  <1>2. ASSUME NEW w \in Workers
        PROVE  PassInv(w)' /\ \A m \in owes'[w] : status'[m] # "absent"
    <2>1. Unpaid(w)' \subseteq Unpaid(w) /\ \A m \in owes'[w] : status'[m] # "absent"
      BY SettledDebt
    <2>2. Batch(w)' = Batch(w)
      BY DEF Batch
    <2> QED
      BY <2>1, <2>2, DebtShrinks DEF PromiseInv
  <1> QED
    BY <1>1, <1>2 DEF PromiseInv, OwedAreStored

\* A step that does to one worker what it must, and nothing to the others.
OnlyOf(w) == \A v \in Workers \ {w} :
                /\ pc'[v] = pc[v] /\ pass'[v] = pass[v] /\ count'[v] = count[v]
                /\ short'[v] = short[v] /\ task'[v] = task[v] /\ owes'[v] = owes[v]

LEMMA OneWorkerSteps ==
  ASSUME PromiseInv, Settled, NEW w \in Workers, OnlyOf(w), PassType', PassInv(w)',
         \A m \in owes'[w] : status'[m] # "absent"
  PROVE  PromiseInv'
  <1>1. ASSUME NEW v \in Workers \ {w}
        PROVE  PassInv(v)' /\ \A m \in owes'[v] : status'[m] # "absent"
    <2>1. Unpaid(v)' \subseteq Unpaid(v) /\ \A m \in owes'[v] : status'[m] # "absent"
      BY SettledDebt DEF OnlyOf
    <2>2. Batch(v)' = Batch(v)
      BY DEF Batch, OnlyOf
    <2> QED
      BY <2>1, <2>2, DebtShrinks DEF PromiseInv, OnlyOf
  <1> QED
    BY <1>1 DEF PromiseInv, OwedAreStored

\* What a step of a task does: it goes to a place, having paid for its medium if the
\* place is a result.
LEMMA TaskPays ==
  ASSUME RowType, PromiseInv, NEW w \in Workers, NEW m \in Media, NEW place \in Places \ {"none"},
         Goto(w, m, place), task[w][m].at # "none", Settled, kind' = kind,
         unmarked' = unmarked, abandoned' = abandoned,
         hung' \in [Workers -> 0 .. MaxHangs], faults' \in 0 .. MaxFaults,
         owes' = owes \/ owes' = [owes EXCEPT ![w] = @ \ {m}],
         place \in Results => status'[m] # "pending" \/ m \notin owes'[w]
  PROVE  PromiseInv'
  <1>1. UNCHANGED <<pc, pass, count, short>>
    BY DEF Goto
  <1>2. /\ task'[w][m].at = place
        /\ \A v \in Workers, n \in Media : v # w \/ n # m => task'[v][n] = task[v][n]
        /\ task' \in [Workers -> [Media -> [at : Places, url : LocalUrls]]]
    BY GotoTask
  <1>3. owes' \in [Workers -> SUBSET Media] /\ \A v \in Workers : owes'[v] \subseteq owes[v]
        /\ (v # w => owes'[v] = owes[v])
    BY DEF PromiseInv, PassType
  <1>4. Batch(w)' = Batch(w)
    BY <1>2 DEF Batch
  <1>5. Unpaid(w)' \subseteq Unpaid(w) /\ \A n \in owes'[w] : status'[n] # "absent"
    BY <1>3, SettledDebt
  <1>6. ASSUME NEW n \in Media, task'[w][n].at \in Results
        PROVE  task[w][n].at \in Results \/ n \notin Unpaid(w)'
    <2>1. CASE n = m
      BY <1>2, <1>6, <2>1 DEF Unpaid, Pending
    <2>2. CASE n # m
      BY <1>2, <1>6, <2>2
    <2> QED
      BY <2>1, <2>2
  <1>7. PassInv(w)'
    BY <1>1, <1>3, <1>4, <1>5, <1>6, DebtShrinks DEF PromiseInv
  <1>8. OnlyOf(w)
    <2>1. ASSUME NEW v \in Workers \ {w} PROVE task'[v] = task[v]
      BY DEF Goto, RowType
    <2> QED
      BY <1>1, <1>3, <2>1 DEF OnlyOf
  <1>9. PassType'
    BY <1>1, <1>3, SamePasses DEF PromiseInv, PassType
  <1> QED
    BY <1>5, <1>7, <1>8, <1>9, OneWorkerSteps

LEMMA TaskKeepsPromises ==
  ASSUME RowType, PromiseInv, NEW w \in Workers, NEW m \in Media, TaskStep(w, m)
  PROVE  PromiseInv'
  <1>1. hung \in [Workers -> 0 .. MaxHangs] /\ faults \in 0 .. MaxFaults /\ status \in [Media -> Statuses]
    BY DEF PromiseInv, PassType, RowType
  <1>2. ASSUME UNCHANGED status PROVE Settled
    BY <1>2 DEF Settled
  <1>3. ASSUME NEW s \in Statuses \ {"absent", "pending"}, status' = [status EXCEPT ![m] = s]
        PROVE  Settled /\ status'[m] # "pending"
    BY <1>1, <1>3 DEF Settled
  <1>4. CASE BeginTask(w, m)
    BY <1>1, <1>2, <1>4, TaskPays DEF BeginTask, rowVars, Places, Results
  <1>5. CASE RaisesOut(w, m)
    <2>1. owes' = [owes EXCEPT ![w] = @ \ {m}] /\ m \notin owes'[w]
      BY <1>5 DEF RaisesOut, PromiseInv, PassType
    <2>2. Goto(w, m, "raised") /\ task[w][m].at # "none"
          /\ UNCHANGED <<pass, rowVars, hung, faults, abandoned>>
      BY <1>5 DEF RaisesOut, At, Goto
    <2> QED
      BY <1>1, <1>2, <2>1, <2>2, TaskPays DEF rowVars, Places
  <1>6. CASE NotLocal(w, m)
    BY <1>1, <1>2, <1>6, TaskPays DEF NotLocal, At, rowVars, Places, Results
  <1>7. CASE ReadEnds(w, m)
    BY <1>1, <1>2, <1>7, TaskPays DEF ReadEnds, rowVars, Places, Results
  <1>15. CASE ReadHangs(w, m)
    BY <1>1, <1>2, <1>15, TaskPays DEF ReadHangs, rowVars, Places, Results
  <1>8. CASE TimesOut(w, m)
    <2>1. hung' \in [Workers -> 0 .. MaxHangs]
      BY <1>1, <1>8, DerivativesAssumption DEF TimesOut, MayHang
    <2> QED
      BY <1>1, <1>2, <1>8, <2>1, TaskPays DEF TimesOut, rowVars, Places, Results
  <1>9. CASE Needless(w, m)
    BY <1>1, <1>3, <1>9, TaskPays DEF Needless, At, Places, Statuses
  <1>10. CASE SaveJpeg(w, m)
    BY <1>1, <1>2, <1>10, TaskPays DEF SaveJpeg, At, Places, Results
  <1>11. CASE RecordThumbnail(w, m)
    BY <1>1, <1>3, <1>11, TaskPays DEF RecordThumbnail, At, Places, Statuses
  <1>12. CASE Persist(w, m)
    BY <1>1, <1>3, <1>12, TaskPays DEF Persist, At, Places, Statuses
  <1>13. CASE RecordError(w, m)
    BY <1>1, <1>3, <1>13, TaskPays DEF RecordError, At, Places, Statuses
  <1>14. CASE StatementFails(w, m)
    <2>1. owes' = [owes EXCEPT ![w] = @ \ {m}] /\ m \notin owes'[w]
      BY <1>14 DEF StatementFails, PromiseInv, PassType
    <2>2. faults' \in 0 .. MaxFaults
      BY <1>1, <1>14, DerivativesAssumption DEF StatementFails, Fault
    <2>3. task[w][m].at # "none" /\ \E place \in {"false", "raised", "failed"} : Goto(w, m, place)
      BY <1>14 DEF StatementFails, At
    <2>4. UNCHANGED <<rowVars, hung, abandoned>>
      BY <1>14 DEF StatementFails
    <2> QED
      BY <1>1, <1>2, <2>1, <2>2, <2>3, <2>4, TaskPays DEF rowVars, Places
  <1> QED
    BY <1>4, <1>5, <1>6, <1>7, <1>8, <1>9, <1>10, <1>11, <1>12, <1>13, <1>14, <1>15 DEF TaskStep
\* A batch is finite, and so is what is counted of it.
LEMMA BatchSizes ==
  ASSUME NEW S \in SUBSET Media, NEW T \in SUBSET S
  PROVE  /\ Cardinality(S) \in Nat /\ Cardinality(T) \in Nat
         /\ Cardinality(T) <= Cardinality(S)
  <1>1. IsFiniteSet(S) /\ IsFiniteSet(T)
    BY DerivativesAssumption, FS_Subset DEF DerivativesAssumption
  <1> QED
    BY <1>1, FS_Subset, FS_CardinalityType

\* A pass's own step changes its worker only.
LEMMA PassOnlyOf ==
  ASSUME PassType, task \in [Workers -> [Media -> [at : Places, url : LocalUrls]]], NEW w \in Workers,
         PassStep(w) \/ Over(w) \/ \E p \in Passes : StartPass(w, p)
  PROVE  OnlyOf(w) /\ UNCHANGED rowVars
  BY DEF PassType, PassStep, Over, Fetch, NothingToFetch, Leave, Gathered, Close, StartPass, OnlyOf

\* No row changes.
LEMMA PassSteps ==
  ASSUME PromiseInv, NEW w \in Workers, OnlyOf(w), UNCHANGED rowVars, PassType', PassInv(w)',
         owes'[w] \subseteq owes[w] \cup Pending
  PROVE  PromiseInv'
  <1>1. Settled
    BY DEF Settled, rowVars
  <1>2. ASSUME NEW m \in owes'[w] PROVE status'[m] # "absent"
    BY DEF PromiseInv, OwedAreStored, Pending, rowVars
  <1> QED
    BY <1>1, <1>2, OneWorkerSteps

LEMMA OverKeeps ==
  ASSUME RowType, PromiseInv, NEW w \in Workers, Over(w)
  PROVE  PromiseInv'
  <1>1. OnlyOf(w) /\ UNCHANGED rowVars
    BY PassOnlyOf DEF PromiseInv, RowType
  <1>2. pc'[w] = "idle" /\ count'[w] = 0 /\ owes'[w] = {}
        /\ \A m \in Media : task'[w][m].at = "none"
    BY DEF Over, PromiseInv, PassType, RowType, NoTask
  <1>3. Batch(w)' = {}
    BY <1>2 DEF Batch
  <1>4. PassInv(w)'
    BY <1>2, <1>3 DEF PassInv, Unpaid, Results
  <1>5. MaxHangs \in Nat
    BY DerivativesAssumption DEF DerivativesAssumption
  <1>6. PassType'
    BY <1>1, <1>5, SamePasses DEF Over, rowVars, PromiseInv, PassType
  <1> QED
    BY <1>1, <1>2, <1>4, <1>6, PassSteps

LEMMA StartKeeps ==
  ASSUME RowType, PromiseInv, NEW w \in Workers, NEW p \in Passes, StartPass(w, p)
  PROVE  PromiseInv'
  <1>1. OnlyOf(w) /\ UNCHANGED rowVars
    BY PassOnlyOf DEF PromiseInv, RowType
  <1>2. pc[w] = "idle" /\ pc'[w] = "loop" /\ Limit(w)' = p.limit /\ UNCHANGED <<count, task>>
        /\ owes'[w] = (IF p.limit = 0 THEN Pending ELSE {})
    BY DEF StartPass, PromiseInv, PassType, Limit
  <1>3. PassType'
    <2>1. Pending \subseteq Media
      BY DEF Pending
    <2>2. owes' \in [Workers -> SUBSET Media]
      BY <2>1 DEF StartPass, PromiseInv, PassType
    <2>3. pass' \in [Workers -> (Passes \cup {NoPass})']
      BY <1>1, SamePasses DEF rowVars, StartPass, PromiseInv, PassType
    <2> QED
      BY <1>1, <2>2, <2>3 DEF rowVars, StartPass, PromiseInv, PassType
  <1>4. Batch(w) = {} /\ Batch(w)' = {} /\ count'[w] = 0
    BY <1>2 DEF PromiseInv, PassInv, Batch
  <1>5. \A m \in Media : task'[w][m].at = "none"
    BY <1>4 DEF Batch
  <1>6. Limit(w)' \in Nat
    BY <1>2, LimitsAreNat
  <1>7. PassInv(w)'
    BY <1>2, <1>4, <1>5, <1>6 DEF PassInv, Results
  <1> QED
    BY <1>1, <1>2, <1>3, <1>7, PassSteps

\* The batch is within the limit, and a short one is all that is pending.
LEMMA FetchKeeps ==
  ASSUME RowType, PromiseInv, NEW w \in Workers, Fetch(w)
  PROVE  PromiseInv'
  <1>1. OnlyOf(w) /\ UNCHANGED rowVars
    BY PassOnlyOf DEF PromiseInv, RowType, PassStep
  <1>2. PICK batch \in SUBSET Pending :
           /\ Cardinality(batch) <= Want(w)
           /\ Cardinality(batch) < Want(w) => batch = Pending
           /\ task' = [task EXCEPT ![w] = [m \in Media |->
                         IF m \in batch THEN [at |-> "waiting", url |-> file[m]] ELSE NoTask]]
           /\ short' = [short EXCEPT ![w] = Cardinality(batch) < Want(w)]
    BY DEF Fetch
  <1>3. pc[w] = "loop" /\ pc'[w] = "batch" /\ UNCHANGED <<pass, count, owes, hung, faults, abandoned>>
    BY DEF Fetch, PromiseInv, PassType
  <1>4. PassType'
    <2>1. (Cardinality(batch) < Want(w)) \in BOOLEAN
      OBVIOUS
    <2>2. short' \in [Workers -> BOOLEAN]
      BY <1>2, <2>1 DEF PromiseInv, PassType
    <2>3. pc' \in [Workers -> {"idle", "loop", "batch", "closing"}]
      BY DEF Fetch, PromiseInv, PassType
    <2> QED
      BY <1>1, <1>3, <2>2, <2>3, SamePasses DEF rowVars, PromiseInv, PassType
  <1>5. \A m \in Media : task'[w][m].at = IF m \in batch THEN "waiting" ELSE "none"
    BY <1>2 DEF RowType, NoTask
  <1>6. Batch(w)' = batch
    BY <1>2, <1>5 DEF Batch, Pending
  <1>7. short'[w] => Pending = batch
    BY <1>2 DEF PromiseInv, PassType
  <1>8. Limit(w)' = Limit(w) /\ Unpaid(w)' = Unpaid(w) /\ Unpaid(w) \subseteq Pending
    BY <1>1, <1>3 DEF Limit, Unpaid, Pending, rowVars
  <1>9. Limit(w) # 0 => count[w] + Cardinality(batch) <= Limit(w)
    <2>1. count[w] \in Nat /\ Limit(w) \in Nat /\ BatchSize \in Nat
      BY LimitIsNat, DerivativesAssumption DEF PromiseInv, PassType, DerivativesAssumption
    <2>2. Cardinality(batch) \in Nat
      BY BatchSizes DEF Pending
    <2>3. Limit(w) # 0 => Want(w) <= Limit(w) - count[w]
      BY <2>1 DEF Want, Limit
    <2>4. Want(w) \in Int
      BY <2>1 DEF Want, Limit
    <2> QED
      BY <1>2, <2>1, <2>2, <2>3, <2>4
  <1>10. Limit(w) # 0 => count[w] <= Limit(w) /\ owes[w] = {}
    BY <1>3 DEF PromiseInv, PassInv
  <1>11. PassInv(w)'
    BY <1>3, <1>5, <1>6, <1>7, <1>8, <1>9, <1>10 DEF PassInv, Results
  <1> QED
    BY <1>1, <1>3, <1>4, <1>11, PassSteps

\* With nothing to fetch, an unlimited pass has nothing to pay for.
LEMMA ClosingKeeps ==
  ASSUME RowType, PromiseInv, NEW w \in Workers, NothingToFetch(w) \/ Leave(w)
  PROVE  PromiseInv'
  <1>1. OnlyOf(w) /\ UNCHANGED rowVars
    BY PassOnlyOf DEF PromiseInv, RowType, PassStep
  <1>2. pc[w] = "loop" /\ pc'[w] = "closing" /\ UNCHANGED <<pass, count, short, task, hung, abandoned>>
    BY DEF NothingToFetch, Leave, PromiseInv, PassType
  <1>3. owes' \in [Workers -> SUBSET Media] /\ owes'[w] \subseteq owes[w]
        /\ (owes'[w] = {} \/ (NothingToFetch(w) /\ owes'[w] = owes[w]))
    <2>1. owes \in [Workers -> SUBSET Media]
      BY DEF PromiseInv, PassType
    <2>2. CASE NothingToFetch(w)
      <3>1. owes' = owes
        BY <2>2 DEF NothingToFetch
      <3> QED
        BY <2>1, <2>2, <3>1
    <2>3. CASE Leave(w)
      <3>1. owes' = [owes EXCEPT ![w] = {}]
        BY <2>3 DEF Leave
      <3>2. owes' \in [Workers -> SUBSET Media]
        BY <2>1, <3>1
      <3>3. owes'[w] = {}
        BY <2>1, <3>1
      <3>4. owes'[w] \subseteq owes[w]
        BY <3>3
      <3> QED
        BY <3>2, <3>3, <3>4
    <2> QED
      BY <2>2, <2>3
  <1>4. faults' \in 0 .. MaxFaults
    <2>1. MaxFaults \in Nat
      BY DerivativesAssumption DEF DerivativesAssumption
    <2> QED
      BY <2>1 DEF NothingToFetch, Leave, Fault, NoFault, PromiseInv, PassType
  <1>5. PassType'
    BY <1>1, <1>2, <1>3, <1>4, SamePasses DEF NothingToFetch, Leave, rowVars, PromiseInv, PassType
  <1>6. Limit(w)' = Limit(w) /\ Pending' = Pending /\ Batch(w)' = Batch(w)
    BY <1>1, <1>2 DEF Limit, Pending, Batch, rowVars
  <1>7. Unpaid(w)' = {}
    <2>1. BatchSize \in Nat /\ ~(BatchSize <= 0)
      BY DerivativesAssumption DEF DerivativesAssumption
    <2>2. NothingToFetch(w) /\ Limit(w) = 0 => Pending = {}
      BY <2>1 DEF NothingToFetch, Want, Limit
    <2>3. Limit(w) # 0 => owes[w] = {}
      BY DEF PromiseInv, PassInv
    <2> QED
      BY <1>3, <1>6, <2>2, <2>3 DEF Unpaid
  <1>8. Limit(w) # 0 => owes'[w] = {} /\ count'[w] <= Limit(w)
    BY <1>2, <1>3 DEF PromiseInv, PassInv
  <1>9. Batch(w)' = {}
    BY <1>2, <1>6 DEF PromiseInv, PassInv
  <1>10. PassInv(w)'
    BY <1>2, <1>6, <1>7, <1>8, <1>9 DEF PassInv
  <1> QED
    BY <1>1, <1>3, <1>5, <1>10, PassSteps

\* All tasks are done: a short batch has paid for all, and the count grows by no
\* more than the batch.
LEMMA GatheredKeeps ==
  ASSUME RowType, PromiseInv, NEW w \in Workers, Gathered(w)
  PROVE  PromiseInv'
  <1> DEFINE Counted == {m \in Batch(w) : kind = "hashes" \/ task[w][m].at = "true"}
             new == IF Limit(w) = 0 THEN 0 ELSE count[w] + Cardinality(Counted)
  <1>1. OnlyOf(w) /\ UNCHANGED rowVars
    BY PassOnlyOf DEF PromiseInv, RowType, PassStep
  <1>2. /\ pc[w] = "batch" /\ \A m \in Batch(w) : task[w][m].at \in Results
        /\ pc'[w] = (IF short[w] THEN "closing" ELSE "loop")
        /\ count'[w] = new
        /\ UNCHANGED <<pass, owes, hung, faults, abandoned>>
    BY DEF Gathered, PromiseInv, PassType, Limit
  <1>3. \A m \in Media : task'[w][m].at = "none"
    BY DEF Gathered, RowType, NoTask
  <1>4. Batch(w)' = {}
    BY <1>3 DEF Batch
  <1>5. new \in Nat /\ (Limit(w) # 0 => new <= Limit(w))
    <2>1. Cardinality(Counted) \in Nat /\ Cardinality(Batch(w)) \in Nat
          /\ Cardinality(Counted) <= Cardinality(Batch(w))
      BY BatchSizes DEF Batch
    <2>2. count[w] \in Nat /\ Limit(w) \in Nat
      BY LimitIsNat DEF PromiseInv, PassType
    <2>3. Limit(w) # 0 => count[w] + Cardinality(Batch(w)) <= Limit(w)
      BY <1>2 DEF PromiseInv, PassInv
    <2> HIDE DEF Counted
    <2> QED
      BY <2>1, <2>2, <2>3
  <1>6. PassType'
    <2>1. count' \in [Workers -> Nat]
      <3>1. count' = [count EXCEPT ![w] = new]
        BY DEF Gathered, Limit, PromiseInv, PassType
      <3> HIDE DEF new
      <3> QED
        BY <3>1, <1>5 DEF PromiseInv, PassType
    <2>2. pc' \in [Workers -> {"idle", "loop", "batch", "closing"}] /\ short' \in [Workers -> BOOLEAN]
      BY DEF Gathered, PromiseInv, PassType
    <2> QED
      BY <1>1, <1>2, <2>1, <2>2, SamePasses DEF rowVars, PromiseInv, PassType
  <1>7. Limit(w)' = Limit(w) /\ Unpaid(w)' = Unpaid(w)
    BY <1>1, <1>2 DEF Limit, Unpaid, Pending, rowVars
  <1>8. short[w] => Unpaid(w) = {}
    <2>1. short[w] => Unpaid(w) \subseteq Batch(w)
      BY <1>2 DEF PromiseInv, PassInv
    <2>2. \A m \in Batch(w) : m \notin Unpaid(w)
      BY <1>2 DEF PromiseInv, PassInv, Batch
    <2> QED
      BY <2>1, <2>2
  <1>9. Limit(w) # 0 => owes'[w] = {}
    BY <1>2 DEF PromiseInv, PassInv
  <1> HIDE DEF new
  <1>10. PassInv(w)'
    BY <1>2, <1>3, <1>4, <1>5, <1>7, <1>8, <1>9 DEF PassInv, Results
  <1> QED
    BY <1>1, <1>2, <1>6, <1>10, PassSteps

LEMMA IntakeSettles ==
  ASSUME RowType, NEW m \in Media, NEW url, Insert(m, url) \/ Replace(m, url)
  PROVE  Settled
  BY DEF RowType, Settled, Insert, Replace

LEMMA StepPromises == DerivedInv /\ PromiseInv /\ [PassesNext]_vars => PromiseInv'
  <1> SUFFICES ASSUME DerivedInv, PromiseInv, [PassesNext]_vars PROVE PromiseInv'
    OBVIOUS
  <1>1. RowType
    BY DEF DerivedInv
  <1>2. unmarked \subseteq Media /\ hung \in [Workers -> 0 .. MaxHangs] /\ faults \in 0 .. MaxFaults
        /\ abandoned \in BOOLEAN
    BY DEF PromiseInv, PassType
  <1>3. UNCHANGED status => Settled
    BY DEF Settled
  <1>4. ASSUME NEW m \in Media, NEW url \in LocalUrls, Intake(m, url) PROVE PromiseInv'
    <2>1. Settled
      BY <1>1, <1>4, IntakeSettles DEF Intake
    <2> QED
      BY <1>2, <1>4, <2>1, PassesAlone DEF Intake, passVars
  <1>5. ASSUME NEW m \in Media, AaIntake(m) PROVE PromiseInv'
    <2>1. Settled
      BY <1>1, <1>5, IntakeSettles DEF AaIntake
    <2> QED
      BY <1>2, <1>5, <2>1, PassesAlone DEF AaIntake, passVars
  <1>6. CASE AaMark
    <2>1. Settled
      BY <1>6 DEF AaMark, Settled
    <2> QED
      BY <1>2, <1>6, <2>1, PassesAlone DEF AaMark, passVars
  <1>7. CASE AaDies
    <2>1. faults' \in 0 .. MaxFaults
      BY <1>2, <1>7, DerivativesAssumption DEF AaDies, Fault, DerivativesAssumption
    <2> QED
      BY <1>2, <1>3, <1>7, <2>1, PassesAlone DEF AaDies, passVars
  <1>8. ASSUME NEW w \in Workers, NEW m \in Media, TaskStep(w, m) PROVE PromiseInv'
    BY <1>1, <1>8, TaskKeepsPromises
  <1>9. ASSUME NEW w \in Workers, PassStep(w) \/ Dies(w) PROVE PromiseInv'
    BY <1>1, <1>9, FetchKeeps, ClosingKeeps, GatheredKeeps, OverKeeps DEF PassStep, Close, Dies
  <1>10. ASSUME NEW w \in Workers, ThreadReturns(w) PROVE PromiseInv'
    <2>1. MaxHangs \in Nat
      BY DerivativesAssumption DEF DerivativesAssumption
    <2>2. hung' \in [Workers -> 0 .. MaxHangs]
      BY <1>2, <1>10, <2>1 DEF ThreadReturns
    <2> QED
      BY <1>2, <1>3, <1>10, <2>2, PassesAlone DEF ThreadReturns, rowVars
  <1>11. ASSUME NEW w \in Workers, NEW p \in Passes, StartPass(w, p) PROVE PromiseInv'
    BY <1>1, <1>11, StartKeeps
  <1>12. CASE UNCHANGED vars
    BY <1>2, <1>3, <1>12, PassesAlone DEF vars, rowVars, passVars
  <1> QED
    BY <1>4, <1>5, <1>6, <1>7, <1>8, <1>9, <1>10, <1>11, <1>12 DEF PassesNext, WorkerStep

\* PassesDrain without its liveness.  An unlimited pass that closes on its own leaves
\* nothing pending that it owes, a limited one does no more than its limit, however
\* passes overlap, hang and die and whatever is taken in meanwhile.
THEOREM PassesKeepTheirPromises == PassesSpec => [](PassesTypeOK /\ PendingIsDrained /\ LimitIsKept)
  <1>1. PassesSpec => []PromiseInv
    BY InitPromises, StepPromises, DerivedAlways, PTL DEF PassesSpec
  <1>2. DerivedInv /\ PromiseInv => PassesTypeOK /\ PendingIsDrained /\ LimitIsKept
    BY DEF DerivedInv, RowType, PromiseInv, PassType, PassInv, Unpaid, Limit, PassesTypeOK, PendingIsDrained,
           LimitIsKept
  <1> QED
    BY <1>1, <1>2, DerivedAlways, PTL



-----------------------------------------------------------------------------
(* The download log                                                        *)

Logs(l, id, names) == id \in DOMAIN l /\ ToSet(names) \subseteq l[id].names

\* An extraction in progress knows every deletion that is on record, and has entered what it
\* has linked so far, but for files it found and has not come to.
RunOK ==
    /\ run = [cfg |-> run.cfg, videos |-> run.videos, photos |-> run.photos, todo |-> run.todo,
              log |-> run.log, smooth |-> run.smooth, local |-> run.local]
    /\ run.cfg \in Configs
    /\ curated \subseteq DOMAIN run.log
    /\ \A id \in DOMAIN run.local \ run.todo : Logs(run.log, id, run.local[id])

\* Only a log that is there knows of deletions, and a WACZ has none.
LogInv ==
    /\ log = {} \/ log = {Load(log)}
    /\ log = {} => curated = {}
    /\ har.wacz => log = {} /\ run = None
    /\ LogCoversLinks
    /\ \A l \in log : curated \subseteq DOMAIN l
    /\ run # None => RunOK

LEMMA LogInit == Init => LogInv
  BY DEF Init, LogInv, LogCoversLinks

LEMMA LoadOfOne == ASSUME NEW l PROVE Load({l}) = l
  BY DEF Load

\* _upsert forgets neither an asset nor a name.
LogGrows(l, new, id, names) ==
    /\ DOMAIN new = DOMAIN l \cup {id}
    /\ names \subseteq new[id].names
    /\ \A x \in DOMAIN l : l[x].names \subseteq new[x].names

LEMMA UpsertKeeps ==
    ASSUME NEW l, NEW id, NEW names, NEW source
    PROVE  LogGrows(l, Upsert(l, id, names, source), id, names)
  BY DEF Upsert, Put, LogGrows

\* What the loop over the assets does with one of them.
LEMMA SkipKeeps ==
    ASSUME RunOK, NEW id, Skip(id), id \notin DOMAIN run.local, curated' = curated
    PROVE  RunOK'
  <1>1. run' = [run EXCEPT !.todo = @ \ {id}]
    BY DEF Skip
  <1>2. /\ run'.cfg = run.cfg /\ run'.log = run.log /\ run'.local = run.local
        /\ run'.todo = run.todo \ {id}
        /\ run' = [cfg |-> run'.cfg, videos |-> run'.videos, photos |-> run'.photos, todo |-> run'.todo,
                   log |-> run'.log, smooth |-> run'.smooth, local |-> run'.local]
    BY <1>1 DEF RunOK
  <1> QED
    BY <1>2 DEF RunOK

LEMMA RefreshKeeps ==
    ASSUME RunOK, NEW id, Refresh(id), id \in DOMAIN run.local, curated' = curated
    PROVE  RunOK'
  <1>1. PICK source : run' = [run EXCEPT !.todo = @ \ {id},
                                         !.log = Upsert(@, id, ToSet(run.local[id]), source)]
    BY DEF Refresh
  <1>2. /\ run'.cfg = run.cfg /\ run'.log = Upsert(run.log, id, ToSet(run.local[id]), source)
        /\ run'.local = run.local /\ run'.todo = run.todo \ {id}
        /\ run' = [cfg |-> run'.cfg, videos |-> run'.videos, photos |-> run'.photos, todo |-> run'.todo,
                   log |-> run'.log, smooth |-> run'.smooth, local |-> run'.local]
    BY <1>1 DEF RunOK
  <1>3. LogGrows(run.log, run'.log, id, ToSet(run.local[id]))
    BY <1>2, UpsertKeeps
  <1>4. ASSUME NEW x \in DOMAIN run'.local \ run'.todo
        PROVE  Logs(run'.log, x, run'.local[x])
    <2>1. CASE x = id
      BY <1>2, <1>3, <2>1 DEF Logs, LogGrows
    <2>2. CASE x # id
      <3>1. Logs(run.log, x, run.local[x])
        BY <1>2, <1>4, <2>2 DEF RunOK
      <3> QED
        BY <1>2, <1>3, <3>1 DEF Logs, LogGrows
    <2> QED
      BY <2>1, <2>2
  <1> QED
    BY <1>2, <1>3, <1>4 DEF RunOK, LogGrows

LEMMA StoredKeeps ==
    ASSUME RunOK, NEW id, NEW name, NEW full, NEW o, Stored(id, name, full, o), curated' = curated,
           id \notin DOMAIN run.local
    PROVE  RunOK'
  <1> DEFINE local == IF name = None THEN run.local ELSE Put(run.local, id, <<name>>)
             new == IF name = None THEN run.log ELSE Upsert(run.log, id, {name}, Source(name, full))
  <1>1. /\ run'.cfg = run.cfg /\ run'.log = new /\ run'.local = local /\ run'.todo = run.todo \ {id}
        /\ run' = [cfg |-> run'.cfg, videos |-> run'.videos, photos |-> run'.photos, todo |-> run'.todo,
                   log |-> run'.log, smooth |-> run'.smooth, local |-> run'.local]
    BY DEF RunOK, Stored
  <1>2. name # None => LogGrows(run.log, new, id, {name})
    BY UpsertKeeps
  <1> HIDE DEF new
  <1>3. ASSUME NEW x \in DOMAIN local \ (run.todo \ {id})
        PROVE  Logs(new, x, local[x])
    <2>1. CASE name = None
      <3>1. x \in DOMAIN run.local \ run.todo
        BY <1>3, <2>1
      <3> QED
        BY <2>1, <3>1 DEF RunOK, new
    <2>2. CASE name # None /\ x = id
      <3>1. local[x] = <<name>>
        BY <2>2 DEF Put
      <3>2. ToSet(<<name>>) = {name}
        BY DEF ToSet
      <3> QED
        BY <1>2, <2>2, <3>1, <3>2 DEF Logs, LogGrows
    <2>3. CASE name # None /\ x # id
      <3>1. x \in DOMAIN run.local \ run.todo /\ local[x] = run.local[x]
        BY <1>3, <2>3 DEF Put
      <3>2. Logs(run.log, x, run.local[x])
        BY <3>1 DEF RunOK
      <3> QED
        BY <1>2, <2>3, <3>1, <3>2 DEF Logs, LogGrows
    <2> QED
      BY <2>1, <2>2, <2>3
  <1>4. DOMAIN run.log \subseteq DOMAIN new
    BY <1>2 DEF LogGrows, new
  <1> QED
    BY <1>1, <1>3, <1>4 DEF RunOK

\* What may happen to an asset, the end of the extraction included; an asset that is on
\* record is asked for only where the settings say so.
Asked(id) ==
    \A a \in fetched' \ fetched :
        a = id /\ (Logged(a) => run.cfg.onLogged = "redownload" \/ run.cfg.fullTracks)

Acquired(id) ==
    \/ id \in DOMAIN run.local /\ Refresh(id)
    \/ id \notin DOMAIN run.local /\ Skip(id)
    \/ id \notin DOMAIN run.local /\ Asked(id) /\ \E name, full, o : Stored(id, name, full, o)
    \/ Asked(id) /\ run' = None

LEMMA VideoAcquired ==
    ASSUME NEW v, NEW o, AcquireVideo(v, o), run.cfg \in Configs
    PROVE  Acquired(v.id)
  <1> DEFINE online == run.cfg.fullTracks /\ v.tracks # <<>>
             allowed == Logged(v.id) => run.cfg.onLogged = "redownload" \/ run.cfg.fullTracks
  <1>1. ASSUME NEW kept, NEW asked, Keep(v, kept, asked, o), v.id \notin DOMAIN run.local,
               asked => allowed
        PROVE  Acquired(v.id)
    <2>1. Asked(v.id)
      BY <1>1 DEF Keep, Fetches, Asked
    <2>2. run' = None \/ Stored(v.id, kept.name, v.full, o)
      BY <1>1 DEF Keep
    <2> QED
      BY <1>1, <2>1, <2>2 DEF Acquired
  <1>2. CASE v.id \in DOMAIN run.local
    BY <1>2 DEF AcquireVideo, Acquired
  <1>3. CASE v.id \notin DOMAIN run.local
    <2>1. CASE ~run.cfg.missing
      BY <1>3, <2>1 DEF AcquireVideo, Acquired
    <2>2. CASE run.cfg.missing /\ Logged(v.id) /\ run.cfg.onLogged = "skip"
      BY <1>3, <2>2 DEF AcquireVideo, Acquired, HarOnly
    <2>3. CASE run.cfg.missing /\ HarOnly(v.id)
      <3>1. Skip(v.id) \/ \E kept : Keep(v, kept, online, o)
        BY <1>3, <2>3 DEF AcquireVideo, HarOnly
      <3>2. CASE Skip(v.id)
        BY <1>3, <3>2 DEF Acquired
      <3>3. ASSUME NEW kept, Keep(v, kept, online, o) PROVE Acquired(v.id)
        BY <1>1, <1>3, <3>3
      <3> QED
        BY <3>1, <3>2, <3>3
    <2>4. CASE /\ run.cfg.missing /\ ~HarOnly(v.id)
               /\ ~(Logged(v.id) /\ run.cfg.onLogged = "skip")
      <3>1. Skip(v.id) \/ \E kept, asked : Keep(v, kept, asked, o)
        BY <1>3, <2>4 DEF AcquireVideo
      <3>2. allowed
        BY <2>4, ConfigsAssumption DEF HarOnly, ConfigsAssumption
      <3>3. CASE Skip(v.id)
        BY <1>3, <3>3 DEF Acquired
      <3> QED
        BY <1>1, <1>3, <3>1, <3>2, <3>3
    <2> QED
      BY <2>1, <2>2, <2>3, <2>4
  <1> QED
    BY <1>2, <1>3

LEMMA PhotoAcquired ==
    ASSUME NEW p, NEW o, AcquirePhoto(p, o), run.cfg \in Configs
    PROVE  Acquired(p.id)
  <1> DEFINE allowed == Logged(p.id) => run.cfg.onLogged = "redownload" \/ run.cfg.fullTracks
  <1>1. ASSUME NEW name, Stored(p.id, name, p.full, o), p.id \notin DOMAIN run.local,
               \/ UNCHANGED fetched
               \/ allowed /\ Fetches(p.id)
        PROVE  Acquired(p.id)
    BY <1>1 DEF Fetches, Asked, Acquired
  <1>2. CASE p.id \in DOMAIN run.local
    BY <1>2 DEF AcquirePhoto, Acquired
  <1>3. CASE p.id \notin DOMAIN run.local
    <2>1. CASE ~run.cfg.missing
      BY <1>3, <2>1 DEF AcquirePhoto, Acquired
    <2>2. CASE run.cfg.missing /\ Logged(p.id) /\ run.cfg.onLogged = "skip"
      BY <1>3, <2>2 DEF AcquirePhoto, Acquired, HarOnly
    <2>3. CASE run.cfg.missing /\ HarOnly(p.id)
      <3>1. Skip(p.id) \/ \E name : Stored(p.id, name, p.full, o) /\ UNCHANGED fetched
        BY <1>3, <2>3 DEF AcquirePhoto, HarOnly
      <3>2. CASE Skip(p.id)
        BY <1>3, <3>2 DEF Acquired
      <3> QED
        BY <1>1, <1>3, <3>1, <3>2
    <2>4. CASE /\ run.cfg.missing /\ ~HarOnly(p.id)
               /\ ~(Logged(p.id) /\ run.cfg.onLogged = "skip")
      <3>1. \/ Skip(p.id)
            \/ \E name : Stored(p.id, name, p.full, o) /\ (Fetches(p.id) \/ UNCHANGED fetched)
        BY <1>3, <2>4 DEF AcquirePhoto
      <3>2. allowed
        BY <2>4, ConfigsAssumption DEF HarOnly, ConfigsAssumption
      <3>3. CASE Skip(p.id)
        BY <1>3, <3>3 DEF Acquired
      <3> QED
        BY <1>1, <1>3, <3>1, <3>2, <3>3
    <2> QED
      BY <2>1, <2>2, <2>3, <2>4
  <1> QED
    BY <1>2, <1>3

LEMMA AcquiredKeeps ==
    ASSUME RunOK, NEW id, Acquired(id), curated' = curated
    PROVE  run' # None => RunOK'
  BY SkipKeeps, RefreshKeeps, StoredKeeps DEF Acquired

LEMMA StepAcquires ==
    ASSUME LogInv, StepVideo \/ StepPhoto
    PROVE  /\ run # None /\ RunOK /\ \E id : Acquired(id)
           /\ UNCHANGED <<har, log, linked, curated>>
  <1>1. run # None /\ RunOK /\ UNCHANGED <<har, log, linked, curated>>
    BY DEF LogInv, StepVideo, StepPhoto, Rest
  <1>2. run.cfg \in Configs
    BY <1>1 DEF RunOK
  <1>3. CASE StepVideo
    <2>1. PICK v, o : AcquireVideo(v, o)
      BY <1>3 DEF StepVideo
    <2> QED
      BY <1>1, <1>2, <2>1, VideoAcquired
  <1>4. CASE StepPhoto
    <2>1. PICK p, o : AcquirePhoto(p, o)
      BY <1>4 DEF StepPhoto
    <2> QED
      BY <1>1, <1>2, <2>1, PhotoAcquired
  <1> QED
    BY <1>3, <1>4

LEMMA LogStep == LogInv /\ [Next]_acqVars => LogInv'
  <1> SUFFICES ASSUME LogInv, [Next]_acqVars PROVE LogInv'
    OBVIOUS
  <1>1. CASE UNCHANGED acqVars
    BY <1>1 DEF LogInv, acqVars, RunOK, LogCoversLinks, Load, Logs
  <1>2. CASE BeginExtraction
    <2>1. PICK cfg \in Configs : Begin(cfg, Scan.videos, Scan.photos)
      BY <1>2 DEF BeginExtraction
    <2>2. ~har.wacz /\ UNCHANGED <<har, log, linked, curated>>
      BY <1>2, <2>1 DEF BeginExtraction, Begin
    <2>3. /\ run' = [cfg |-> run'.cfg, videos |-> run'.videos, photos |-> run'.photos,
                     todo |-> run'.todo, log |-> run'.log, smooth |-> run'.smooth, local |-> run'.local]
          /\ run'.cfg \in Configs /\ run'.log = Load(log)
      BY <2>1 DEF Begin
    <2>4. DOMAIN run'.local \subseteq run'.todo
      BY <2>1 DEF Begin
    <2>5. curated \subseteq DOMAIN Load(log)
      BY DEF LogInv
    <2> QED
      BY <2>2, <2>3, <2>4, <2>5 DEF LogInv, RunOK, LogCoversLinks, Load
  <1>3. CASE ScanWacz
    BY <1>3 DEF ScanWacz, LogInv, LogCoversLinks, RunOK, Load
  <1>4. CASE StepVideo \/ StepPhoto
    <2>1. run # None /\ (run' # None => RunOK') /\ UNCHANGED <<har, log, linked, curated>>
      BY <1>4, StepAcquires, AcquiredKeeps
    <2> QED
      BY <2>1 DEF LogInv, LogCoversLinks, Load
  <1>5. CASE Finish
    <2>1. /\ run # None /\ RunOK /\ run.todo = {} /\ log' = {run.log} /\ linked' = run.local
          /\ run' = None /\ UNCHANGED <<har, curated>>
      BY <1>5 DEF Finish, Save, LogInv
    <2> QED
      BY <2>1, LoadOfOne DEF LogInv, RunOK, LogCoversLinks, Logs
  <1>6. CASE Die
    BY <1>6 DEF Die, LogInv, LogCoversLinks, Load
  <1>7. CASE Delete
    <2>1. run = None /\ UNCHANGED <<har, log, run, linked>>
      BY <1>7 DEF Delete
    <2>2. \/ curated' = curated
          \/ log # {} /\ \E id \in DOMAIN linked : curated' = curated \cup {id}
      BY <1>7 DEF Delete
    <2> QED
      BY <2>1, <2>2 DEF LogInv, LogCoversLinks, Load
  <1> QED
    BY <1>1, <1>2, <1>3, <1>4, <1>5, <1>6, <1>7 DEF Next

LEMMA LogInvHolds == Spec => []LogInv
  BY LogInit, LogStep, PTL DEF Spec

\* Whatever the archive, the settings, the failures and the deaths: an asset of which the
\* operator deleted the last file is not asked for again, unless its log was torn or the
\* settings ask for it.
THEOREM DeletionsAlwaysStick == Spec => DeletionsStick
  <1> DEFINE Sticks == \A a \in fetched' \ fetched :
                          a \in curated => run.cfg.onLogged = "redownload" \/ run.cfg.fullTracks
  <1>1. LogInv /\ [Next]_acqVars => [Sticks]_acqVars
    <2> SUFFICES ASSUME LogInv, Next PROVE Sticks
      OBVIOUS
    <2>1. CASE StepVideo \/ StepPhoto
      <3>1. PICK id : Acquired(id)
        BY <2>1, StepAcquires
      <3>2. run # None /\ curated \subseteq DOMAIN run.log
        BY <2>1, StepAcquires DEF RunOK
      <3> QED
        BY <3>1, <3>2 DEF Acquired, Asked, Refresh, Skip, Logged
    <2>2. CASE ~(StepVideo \/ StepPhoto)
      <3>1. fetched' \subseteq fetched
        BY <2>2 DEF Next, BeginExtraction, Begin, ScanWacz, Finish, Die, Delete
      <3> QED
        BY <3>1
    <2> QED
      BY <2>1, <2>2
  <1> QED
    BY <1>1, LogInvHolds, PTL DEF Spec, DeletionsStick

-----------------------------------------------------------------------------
(* Induction over what an algorithm has done, by the least counterexample  *)

LEMMA NatMin ==
    ASSUME NEW T \in SUBSET Nat, T # {}
    PROVE  Min(T) \in T /\ \A y \in T : Min(T) <= y
  <1> DEFINE R == {p \in Nat \X Nat : p[1] < p[2]}
  <1>1. IsWellFoundedOn(R, Nat)
    BY NatLessThanWellFounded DEF OpToRel
  <1>2. PICK x \in T : \A y \in T : ~ (<<y, x>> \in R)
    <2> HIDE DEF R
    <2> QED
      BY <1>1, WFMin
  <1>3. ASSUME NEW y \in T, ~ (x <= y) PROVE FALSE
    <2>1. x \in Nat /\ y \in Nat /\ y < x
      BY <1>3
    <2>2. <<y, x>> \in R
      BY <2>1
    <2> QED
      BY <1>2, <2>2
  <1> QED
    BY <1>3 DEF Min

\* Induction up to n, for a set of numbers.
LEMMA SetInduction ==
    ASSUME NEW n \in Nat, NEW S, 0 \in S, \A k \in 0..n : k \in S /\ k < n => k + 1 \in S
    PROVE  \A k \in 0..n : k \in S
  <1> DEFINE T == {k \in 0..n : k \notin S}
  <1>1. SUFFICES ASSUME T # {} PROVE FALSE
    OBVIOUS
  <1>2. T \in SUBSET Nat
    OBVIOUS
  <1>3. Min(T) \in T /\ \A y \in T : Min(T) <= y
    BY <1>1, <1>2, NatMin
  <1> HIDE DEF T
  <1>4. PICK x \in T : \A y \in T : x <= y
    BY <1>3
  <1>5. x \in 1..n /\ x - 1 \in 0..n /\ x - 1 < n
    BY <1>4 DEF T
  <1>6. x - 1 \notin T
    BY <1>4, <1>5
  <1>7. x - 1 \in S
    BY <1>5, <1>6 DEF T
  <1>8. (x - 1) + 1 \in S
    BY <1>5, <1>7
  <1> QED
    BY <1>4, <1>5, <1>8 DEF T

-----------------------------------------------------------------------------
(* Clustering                                                              *)

\* f folds Unite over the sets of groups in T, as FoldSet defines it.
UniteAll(f, base, s) ==
    IF s = {} THEN base ELSE LET x == CHOOSE y \in s : TRUE IN Unite(f[s \ {x}], x)
IsUnion(f, base, T) == f = [s \in T |-> UniteAll(f, base, s)]

Small(G, k) == {s \in SUBSET G : Cardinality(s) <= k}

LEMMA UnionExists ==
    ASSUME NEW G, IsFiniteSet(G), NEW base
    PROVE  \E f : IsUnion(f, base, SUBSET G)
  <1> DEFINE n == Cardinality(G)
             S == {k \in 0..n : \E f : IsUnion(f, base, Small(G, k))}
  <1>1. n \in Nat /\ \A s \in SUBSET G : IsFiniteSet(s) /\ Cardinality(s) \in 0..n
    BY FS_CardinalityType, FS_Subset
  <1> HIDE DEF n
  <1>2. 0 \in S
    <2> DEFINE f == [s \in Small(G, 0) |-> base]
    <2>1. \A s \in Small(G, 0) : s = {}
      BY <1>1, FS_EmptySet DEF Small
    <2>2. f = [s \in Small(G, 0) |-> UniteAll(f, base, s)]
      BY <2>1 DEF UniteAll
    <2>3. IsUnion(f, base, Small(G, 0))
      BY <2>2 DEF IsUnion
    <2> HIDE DEF f
    <2> QED
      BY <1>1, <2>3
  <1>3. ASSUME NEW k \in 0..n, k \in S, k < n PROVE k + 1 \in S
    <2>1. PICK f : IsUnion(f, base, Small(G, k))
      BY <1>3
    <2> DEFINE g == [s \in Small(G, k + 1) |-> IF s \in Small(G, k) THEN f[s] ELSE UniteAll(f, base, s)]
    <2>2. ASSUME NEW s \in Small(G, k + 1) PROVE g[s] = UniteAll(g, base, s)
      <3>1. CASE s = {}
        <4>1. s \in Small(G, k)
          BY <1>1, <3>1, FS_EmptySet DEF Small
        <4>2. f[s] = base
          BY <2>1, <3>1, <4>1 DEF IsUnion, UniteAll
        <4> QED
          BY <3>1, <4>1, <4>2 DEF UniteAll
      <3>2. CASE s # {}
        <4> DEFINE x == CHOOSE y \in s : TRUE
        <4>1. x \in s
          BY <3>2
        <4>2. s \ {x} \in Small(G, k)
          <5>1. Cardinality(s \ {x}) = Cardinality(s) - 1
            BY <1>1, <4>1, FS_RemoveElement DEF Small
          <5>2. Cardinality(s) \in Nat /\ Cardinality(s) <= k + 1 /\ s \ {x} \in SUBSET G
            BY <1>1 DEF Small
          <5> HIDE DEF x
          <5> QED
            BY <5>1, <5>2 DEF Small
        <4>3. Small(G, k) \subseteq Small(G, k + 1)
          BY <1>1 DEF Small
        <4>4. g[s \ {x}] = f[s \ {x}]
          BY <4>2, <4>3
        <4>5. UniteAll(g, base, s) = UniteAll(f, base, s)
          BY <3>2, <4>4 DEF UniteAll
        <4>6. s \in Small(G, k) => f[s] = UniteAll(f, base, s)
          BY <2>1 DEF IsUnion
        <4> QED
          BY <4>5, <4>6
      <3> QED
        BY <3>1, <3>2
    <2>3. g = [s \in Small(G, k + 1) |-> UniteAll(g, base, s)]
      <3> DEFINE h == [s \in Small(G, k + 1) |-> UniteAll(g, base, s)]
      <3>1. \A s \in Small(G, k + 1) : g[s] = h[s]
        <4> HIDE DEF g
        <4> QED
          BY <2>2
      <3> QED
        BY <3>1
    <2>4. IsUnion(g, base, Small(G, k + 1))
      BY <2>3 DEF IsUnion
    <2> HIDE DEF g
    <2> QED
      BY <1>1, <1>3, <2>4
  <1>4. n \in S
    <2>1. \A k \in 0..n : k \in S /\ k < n => k + 1 \in S
      BY <1>3
    <2> HIDE DEF S
    <2> QED
      BY <1>1, <1>2, <2>1, SetInduction
  <1>5. Small(G, n) = SUBSET G
    BY <1>1 DEF Small
  <1> QED
    BY <1>4, <1>5

Singles(keys) == {{i} : i \in DOMAIN keys}

LEMMA ClustersIs ==
    ASSUME NEW keys
    PROVE  Clusters(keys) =
              (CHOOSE f : IsUnion(f, Singles(keys), SUBSET Groups(keys)))[Groups(keys)]
  BY DEF Clusters, FoldSet, MapThenFoldSet, IsUnion, UniteAll, Singles

\* Every entry is in one cluster.
Partitions(clusters, D) ==
    /\ \A c \in clusters : c \subseteq D /\ c # {}
    /\ \A i \in D : \E c \in clusters : i \in c
    /\ \A c, d \in clusters : c \cap d # {} => c = d

\* No set that is closed under sharing separates two members of c.
Chained(keys, c) ==
    \A i, j \in c : \A S \in SUBSET DOMAIN keys : Closed(keys, S) /\ i \in S => j \in S

LEMMA UniteKeeps ==
    ASSUME NEW keys, NEW clusters, Partitions(clusters, DOMAIN keys),
           \A c \in clusters : Chained(keys, c),
           NEW g, g \subseteq DOMAIN keys, g # {}, Chained(keys, g)
    PROVE  /\ Partitions(Unite(clusters, g), DOMAIN keys)
           /\ \A c \in Unite(clusters, g) : Chained(keys, c)
           /\ \E c \in Unite(clusters, g) : g \subseteq c
           /\ \A c \in clusters : \E d \in Unite(clusters, g) : c \subseteq d
  <1> DEFINE hit == {c \in clusters : c \cap g # {}}
             u == UNION hit
  <1>1. Unite(clusters, g) = (clusters \ hit) \cup {u}
    BY DEF Unite
  <1>2. g \subseteq u
    BY DEF Partitions
  <1>3. u \subseteq DOMAIN keys /\ u # {}
    BY <1>2 DEF Partitions
  <1>4. \A c \in clusters : c \in hit => c \subseteq u
    OBVIOUS
  <1>5. Chained(keys, u)
    <2>1. SUFFICES ASSUME NEW i \in u, NEW j \in u, NEW S \in SUBSET DOMAIN keys,
                          Closed(keys, S), i \in S
                   PROVE  j \in S
      BY DEF Chained
    <2>2. PICK c \in clusters, a \in g : i \in c /\ a \in c
      OBVIOUS
    <2>3. PICK d \in clusters, b \in g : j \in d /\ b \in d
      OBVIOUS
    <2>4. a \in S
      BY <2>1, <2>2 DEF Chained
    <2>5. b \in S
      BY <2>1, <2>4 DEF Chained
    <2> QED
      BY <2>1, <2>3, <2>5 DEF Chained
  <1>6. \A c \in clusters \ hit : c \cap u = {}
    <2>1. SUFFICES ASSUME NEW c \in clusters \ hit, NEW x \in c, x \in u PROVE FALSE
      OBVIOUS
    <2>2. PICK d \in hit : x \in d
      BY <2>1
    <2> QED
      BY <2>1, <2>2 DEF Partitions
  <1> HIDE DEF u
  <1>7. Partitions(Unite(clusters, g), DOMAIN keys)
    <2>1. \A c \in Unite(clusters, g) : c \subseteq DOMAIN keys /\ c # {}
      BY <1>1, <1>3 DEF Partitions
    <2>2. \A i \in DOMAIN keys : \E c \in Unite(clusters, g) : i \in c
      BY <1>1, <1>4 DEF Partitions
    <2>3. \A c, d \in Unite(clusters, g) : c \cap d # {} => c = d
      BY <1>1, <1>6 DEF Partitions
    <2> QED
      BY <2>1, <2>2, <2>3 DEF Partitions
  <1>8. \A c \in clusters : \E d \in Unite(clusters, g) : c \subseteq d
    BY <1>1, <1>4
  <1> QED
    BY <1>1, <1>2, <1>5, <1>7, <1>8

OneKind(keys) ==
    /\ IsFiniteSet(DOMAIN keys)
    /\ \A i, j \in DOMAIN keys : DOMAIN keys[i] = DOMAIN keys[j] /\ DOMAIN keys[i] \subseteq 1..2

\* The entries of a group share an identifier.
LEMMA GroupIs ==
    ASSUME NEW keys, OneKind(keys), NEW g \in Groups(keys)
    PROVE  g \subseteq DOMAIN keys /\ g # {} /\ Chained(keys, g)
  <1>1. PICK a \in DOMAIN keys, k \in 1..2 :
           /\ k \in DOMAIN keys[a] /\ keys[a][k] # None
           /\ g = {j \in DOMAIN keys : keys[j][k] = keys[a][k]}
    BY DEF Groups
  <1>2. \A i \in g : k \in DOMAIN keys[i] /\ keys[i][k] # None
    BY <1>1 DEF OneKind
  <1>3. Chained(keys, g)
    BY <1>1, <1>2 DEF Chained, Closed
  <1> QED
    BY <1>1, <1>3

LEMMA GroupsFinite ==
    ASSUME NEW keys, OneKind(keys)
    PROVE  IsFiniteSet(Groups(keys))
  <1>1. IsFiniteSet(SUBSET DOMAIN keys)
    BY FS_SUBSET DEF OneKind
  <1>2. Groups(keys) \subseteq SUBSET DOMAIN keys
    BY DEF Groups
  <1> QED
    BY <1>1, <1>2, FS_Subset

\* What is true when the groups in s are united.
United(keys, clusters, s) ==
    /\ Partitions(clusters, DOMAIN keys)
    /\ \A c \in clusters : Chained(keys, c)
    /\ \A g \in s : \E c \in clusters : g \subseteq c

LEMMA ClustersUnited ==
    ASSUME NEW keys, OneKind(keys)
    PROVE  United(keys, Clusters(keys), Groups(keys))
  <1> DEFINE G == Groups(keys)
             f == CHOOSE f : IsUnion(f, Singles(keys), SUBSET G)
             n == Cardinality(G)
             S == {k \in 0..n : \A s \in SUBSET G : Cardinality(s) = k => United(keys, f[s], s)}
  <1>1. IsFiniteSet(G)
    BY GroupsFinite
  <1>2. IsUnion(f, Singles(keys), SUBSET G)
    BY <1>1, UnionExists
  <1>3. Clusters(keys) = f[G]
    BY ClustersIs
  <1>4. n \in Nat /\ \A s \in SUBSET G : IsFiniteSet(s) /\ Cardinality(s) \in 0..n
    BY <1>1, FS_CardinalityType, FS_Subset
  <1>5. \A s \in SUBSET G : f[s] = UniteAll(f, Singles(keys), s)
    <2> HIDE DEF f
    <2> QED
      BY <1>2 DEF IsUnion
  <1>6. \A g \in G : g \subseteq DOMAIN keys /\ g # {} /\ Chained(keys, g)
    BY GroupIs
  <1> HIDE DEF f, G, n
  <1>7. 0 \in S
    <2>1. ASSUME NEW s \in SUBSET G, Cardinality(s) = 0 PROVE United(keys, f[s], s)
      <3>1. s = {}
        BY <1>4, <2>1, FS_EmptySet
      <3>2. f[s] = Singles(keys)
        BY <1>5, <3>1 DEF UniteAll
      <3> QED
        <4>1. Partitions(Singles(keys), DOMAIN keys)
          BY DEF Partitions, Singles
        <4>2. \A c \in Singles(keys) : Chained(keys, c)
          BY DEF Chained, Singles
        <4> QED
          BY <3>1, <3>2, <4>1, <4>2 DEF United
    <2> QED
      BY <1>4, <2>1
  <1>8. ASSUME NEW k \in 0..n, k \in S, k < n PROVE k + 1 \in S
    <2>1. ASSUME NEW s \in SUBSET G, Cardinality(s) = k + 1 PROVE United(keys, f[s], s)
      <3>1. s # {}
        BY <1>4, <2>1, FS_EmptySet
      <3>2. PICK x \in s : f[s] = Unite(f[s \ {x}], x)
        BY <1>5, <3>1 DEF UniteAll
      <3>3. s \ {x} \in SUBSET G /\ Cardinality(s \ {x}) = k
        <4>1. Cardinality(s \ {x}) = Cardinality(s) - 1
          BY <1>4, FS_RemoveElement
        <4> QED
          BY <2>1, <4>1
      <3>4. PICK e, u : e = f[s \ {x}] /\ u = f[s] /\ u = Unite(e, x)
        BY <3>2
      <3>5. United(keys, e, s \ {x})
        BY <1>8, <3>3, <3>4
      <3>6. x \subseteq DOMAIN keys /\ x # {} /\ Chained(keys, x)
        BY <1>6
      <3>7. /\ Partitions(u, DOMAIN keys) /\ \A c \in u : Chained(keys, c)
            /\ \E c \in u : x \subseteq c
            /\ \A c \in e : \E d \in u : c \subseteq d
        <4>1. Partitions(e, DOMAIN keys) /\ \A c \in e : Chained(keys, c)
          BY <3>5 DEF United
        <4>2. u = Unite(e, x)
          BY <3>4
        <4>3. /\ Partitions(Unite(e, x), DOMAIN keys) /\ \A c \in Unite(e, x) : Chained(keys, c)
              /\ \E c \in Unite(e, x) : x \subseteq c
              /\ \A c \in e : \E d \in Unite(e, x) : c \subseteq d
          BY <3>6, <4>1, UniteKeeps
        <4> QED
          BY ONLY <4>2, <4>3
      <3>8. ASSUME NEW g \in s PROVE \E c \in u : g \subseteq c
        <4>1. CASE g = x
          BY <3>7, <4>1
        <4>2. CASE g # x
          <5>1. PICK c \in e : g \subseteq c
            BY <3>5, <4>2 DEF United
          <5>2. PICK d \in u : c \subseteq d
            BY <3>7
          <5> QED
            BY <5>1, <5>2
        <4> QED
          BY <4>1, <4>2
      <3>9. United(keys, u, s)
        BY <3>7, <3>8 DEF United
      <3> QED
        BY <3>4, <3>9
    <2> QED
      BY <1>4, <1>8, <2>1
  <1>9. n \in S
    <2>1. \A k \in 0..n : k \in S /\ k < n => k + 1 \in S
      BY <1>8
    <2> HIDE DEF S
    <2> QED
      BY <1>4, <1>7, <2>1, SetInduction
  <1>10. United(keys, f[G], G)
    BY <1>9 DEF n
  <1> QED
    BY <1>3, <1>10 DEF G

LEMMA ClustersRight == ClustersAreChains
  <1>1. SUFFICES ASSUME NEW keys \in KeyLists, NEW i \in DOMAIN keys, NEW j \in DOMAIN keys
                 PROVE  (\E c \in Clusters(keys) : {i, j} \subseteq c)
                            <=> \A S \in SUBSET DOMAIN keys : Closed(keys, S) /\ i \in S => j \in S
    BY DEF ClustersAreChains
  <1>2. OneKind(keys)
    BY KeysAssumption DEF KeysAssumption, OneKind
  <1>3. United(keys, Clusters(keys), Groups(keys))
    BY <1>2, ClustersUnited
  <1>4. ASSUME NEW c \in Clusters(keys), {i, j} \subseteq c
        PROVE  \A S \in SUBSET DOMAIN keys : Closed(keys, S) /\ i \in S => j \in S
    BY <1>3, <1>4 DEF United, Chained
  <1>5. ASSUME \A S \in SUBSET DOMAIN keys : Closed(keys, S) /\ i \in S => j \in S
        PROVE  \E c \in Clusters(keys) : {i, j} \subseteq c
    <2>1. PICK c \in Clusters(keys) : i \in c
      BY <1>3 DEF United, Partitions
    <2>2. c \in SUBSET DOMAIN keys
      BY <1>3 DEF United, Partitions
    <2>3. Closed(keys, c)
      <3>1. SUFFICES ASSUME NEW a \in c, NEW b \in DOMAIN keys, NEW k \in DOMAIN keys[a],
                            keys[a][k] # None, keys[a][k] = keys[b][k]
                     PROVE  b \in c
        BY DEF Closed
      <3> DEFINE g == {x \in DOMAIN keys : keys[x][k] = keys[a][k]}
      <3>2. a \in DOMAIN keys /\ k \in 1..2
        BY <1>2, <2>2 DEF OneKind
      <3>3. g \in Groups(keys)
        <4>1. <<a, k>> \in (DOMAIN keys) \X (1..2)
          BY <3>2
        <4> QED
          BY <3>1, <3>2, <4>1 DEF Groups
      <3>4. PICK d \in Clusters(keys) : g \subseteq d
        BY <1>3, <3>3 DEF United
      <3>5. a \in d /\ b \in d
        BY <3>1, <3>2, <3>4
      <3> QED
        BY <1>3, <3>5 DEF United, Partitions
    <2> QED
      BY <1>5, <2>1, <2>2, <2>3
  <1> QED
    BY <1>4, <1>5

-----------------------------------------------------------------------------
(* Assembly                                                                *)

\* The first k places of an order by f, filled with the least.
Ordered(f, n, p, k) ==
    /\ p \in [1..k -> 1..n]
    /\ \A i, j \in 1..k : i < j => p[i] # p[j] /\ f[p[i]] <= f[p[j]]
    /\ \A i \in 1..k, x \in 1..n : (\A j \in 1..k : p[j] # x) => f[p[i]] <= f[x]

LEMMA LeastLeft ==
    ASSUME NEW n \in Nat, NEW f \in [1..n -> Nat], NEW R \in SUBSET (1..n), R # {}
    PROVE  \E x \in R : \A y \in R : f[x] <= f[y]
  <1> DEFINE T == {f[y] : y \in R}
  <1>1. T \in SUBSET Nat /\ T # {}
    OBVIOUS
  <1>2. Min(T) \in T /\ \A t \in T : Min(T) <= t
    BY <1>1, NatMin
  <1>3. PICK x \in R : Min(T) = f[x]
    BY <1>2
  <1>4. \A y \in R : f[y] \in T
    OBVIOUS
  <1> QED
    BY <1>2, <1>3, <1>4

LEMMA OrderExists ==
    ASSUME NEW n \in Nat, NEW f \in [1..n -> Nat]
    PROVE  \E p : Ordered(f, n, p, n)
  <1> DEFINE S == {k \in 0..n : \E p : Ordered(f, n, p, k)}
  <1>1. 0 \in S
    <2> DEFINE p == [i \in 1..0 |-> i]
    <2>1. Ordered(f, n, p, 0)
      BY DEF Ordered
    <2> HIDE DEF p
    <2> QED
      BY <2>1
  <1>2. ASSUME NEW k \in 0..n, k \in S, k < n PROVE k + 1 \in S
    <2>1. PICK p : Ordered(f, n, p, k)
      BY <1>2
    <2> DEFINE R == {x \in 1..n : \A j \in 1..k : p[j] # x}
    <2>2. R # {}
      <3>1. SUFFICES ASSUME R = {} PROVE FALSE
        OBVIOUS
      <3>2. p \in Surjection(1..k, 1..n)
        <4>1. p \in [1..k -> 1..n]
          BY <2>1 DEF Ordered
        <4>2. \A x \in 1..n : \E j \in 1..k : p[j] = x
          BY <3>1
        <4> QED
          BY <4>1, <4>2 DEF Surjection
      <3>3. Cardinality(1..n) = n /\ Cardinality(1..k) = k /\ IsFiniteSet(1..k)
        BY FS_Interval
      <3>4. Cardinality(1..n) <= Cardinality(1..k)
        BY <3>2, <3>3, FS_Surjection
      <3> QED
        BY <1>2, <3>3, <3>4
    <2>3. PICK x \in R : \A y \in R : f[x] <= f[y]
      <3>1. R \in SUBSET (1..n)
        OBVIOUS
      <3> HIDE DEF R
      <3> QED
        BY <2>2, <3>1, LeastLeft
    <2> DEFINE q == [i \in 1..(k + 1) |-> IF i = k + 1 THEN x ELSE p[i]]
    <2>4. q \in [1..(k + 1) -> 1..n]
      BY <2>1 DEF Ordered
    <2>5. ASSUME NEW i \in 1..(k + 1), NEW j \in 1..(k + 1), i < j
          PROVE  q[i] # q[j] /\ f[q[i]] <= f[q[j]]
      <3>1. i \in 1..k /\ q[i] = p[i]
        BY <2>5
      <3>2. CASE j = k + 1
        BY <2>1, <2>3, <3>1, <3>2 DEF Ordered
      <3>3. CASE j # k + 1
        <4>1. j \in 1..k /\ q[j] = p[j]
          BY <3>3
        <4> QED
          BY <2>1, <2>5, <3>1, <4>1 DEF Ordered
      <3> QED
        BY <3>2, <3>3
    <2>6. ASSUME NEW i \in 1..(k + 1), NEW y \in 1..n, \A j \in 1..(k + 1) : q[j] # y
          PROVE  f[q[i]] <= f[y]
      <3>1. \A j \in 1..k : q[j] = p[j] /\ j \in 1..(k + 1)
        OBVIOUS
      <3>2. y \in R
        BY <2>6, <3>1
      <3>3. CASE i = k + 1
        BY <2>3, <3>2, <3>3
      <3>4. CASE i # k + 1
        <4>1. i \in 1..k /\ q[i] = p[i]
          BY <3>4
        <4> QED
          BY <2>1, <3>2, <4>1 DEF Ordered
      <3> QED
        BY <3>3, <3>4
    <2>7. Ordered(f, n, q, k + 1)
      <3> HIDE DEF q
      <3> QED
        BY <2>4, <2>5, <2>6 DEF Ordered
    <2> HIDE DEF q
    <2> QED
      BY <1>2, <2>7
  <1>3. n \in S
    <2>1. \A k \in 0..n : k \in S /\ k < n => k + 1 \in S
      BY <1>2
    <2> HIDE DEF S
    <2>2. \A k \in 0..n : k \in S
      BY <1>1, <2>1, SetInduction
    <2>3. n \in 0..n
      OBVIOUS
    <2> QED
      BY <2>2, <2>3
  <1> QED
    BY <1>3

\* What SegmentsAssumption says of one list.
SegmentsOK(segs) ==
    /\ segs = [i \in 1..Len(segs) |-> segs[i]] /\ Len(segs) \in Nat
    /\ \A i \in DOMAIN segs :
          /\ segs[i].start \in Nat \cup {None} /\ segs[i].len \in Nat
          /\ segs[i].start = None =>
                \A j \in DOMAIN segs : SegStart(segs[j]) + segs[j].len <= segs[i].len

\* The list is put in order: nothing is lost and nothing comes too early.
LEMMA SortedIs ==
    ASSUME NEW segs, SegmentsOK(segs)
    PROVE  LET q == Sorted(segs) IN
           /\ \A i \in 1..Len(segs) : \E j \in 1..Len(segs) : q[i] = segs[j]
           /\ \A j \in 1..Len(segs) : \E i \in 1..Len(segs) : q[i] = segs[j]
           /\ \A i, j \in 1..Len(segs) : i < j => SegStart(q[i]) <= SegStart(q[j])
  <1> DEFINE n == Len(segs)
             f == [i \in 1..n |-> SegStart(segs[i])]
             Sorts(p) == \A i, j \in 1..n : i < j => p[i] # p[j] /\ SegStart(segs[p[i]]) <= SegStart(segs[p[j]])
             order == CHOOSE p \in [1..n -> 1..n] : Sorts(p)
  <1>1. n \in Nat /\ DOMAIN segs = 1..n
    BY DEF SegmentsOK
  <1>2. f \in [1..n -> Nat]
    BY <1>1 DEF SegmentsOK, SegStart
  <1>3. \E p \in [1..n -> 1..n] : Sorts(p)
    <2>1. PICK p : Ordered(f, n, p, n)
      <3> HIDE DEF f, n
      <3> QED
        BY <1>1, <1>2, OrderExists
    <2> QED
      BY <1>1, <2>1 DEF Ordered
  <1>4. order \in [1..n -> 1..n] /\ Sorts(order)
    BY <1>3
  <1>5. Sorted(segs) = [i \in 1..n |-> segs[order[i]]]
    BY <1>1 DEF Sorted
  <1>6. \A j \in 1..n : \E i \in 1..n : order[i] = j
    <2> HIDE DEF order
    <2>1. \A i, j \in 1..n : order[i] = order[j] => i = j
      BY <1>1, <1>4
    <2>2. order \in Injection(1..n, 1..n)
      BY <1>4, <2>1 DEF Injection, IsInjective
    <2>3. IsFiniteSet(1..n)
      BY <1>1, FS_Interval
    <2>4. order \in Surjection(1..n, 1..n)
      BY <2>2, <2>3, FS_Injection
    <2> QED
      BY <2>4 DEF Surjection
  <1> HIDE DEF order
  <1>7. PICK q : q = Sorted(segs) /\ \A i \in 1..n : q[i] = segs[order[i]] /\ order[i] \in 1..n
    BY <1>4, <1>5
  <1>8. \A i \in 1..n : \E j \in 1..n : q[i] = segs[j]
    BY <1>7
  <1>9. ASSUME NEW j \in 1..n PROVE \E i \in 1..n : q[i] = segs[j]
    <2>1. PICK i \in 1..n : order[i] = j
      BY <1>6
    <2>2. q[i] = segs[order[i]]
      BY <1>7
    <2> QED
      BY <2>1, <2>2
  <1>10. \A i, j \in 1..n : i < j => SegStart(q[i]) <= SegStart(q[j])
    BY <1>4, <1>7
  <1> QED
    BY <1>7, <1>8, <1>9, <1>10

\* f[n] is the end of what the first n segments of q cover without a gap.
Reach(q, f, n) ==
    IF n = 0 THEN 0
    ELSE IF q[n].start <= f[n - 1] THEN Max({f[n - 1], q[n].start + q[n].len}) ELSE f[n - 1]
Reaches(q, f, m) == f = [n \in 0..m |-> Reach(q, f, n)]

LEMMA ReachExists ==
    ASSUME NEW q, NEW m \in Nat
    PROVE  \E f : Reaches(q, f, m)
  <1> DEFINE S == {n \in 0..m : \E f : Reaches(q, f, n)}
  <1>1. 0 \in S
    <2> DEFINE f == [n \in 0..0 |-> 0]
    <2>1. f = [n \in 0..0 |-> Reach(q, f, n)]
      BY DEF Reach
    <2>2. Reaches(q, f, 0)
      BY <2>1 DEF Reaches
    <2> HIDE DEF f
    <2> QED
      BY <2>2
  <1>2. ASSUME NEW k \in 0..m, k \in S, k < m PROVE k + 1 \in S
    <2>1. PICK f : Reaches(q, f, k)
      BY <1>2
    <2> DEFINE g == [n \in 0..(k + 1) |-> IF n = k + 1 THEN Reach(q, f, n) ELSE f[n]]
    <2>2. ASSUME NEW n \in 0..(k + 1) PROVE g[n] = Reach(q, g, n)
      <3>1. CASE n = 0
        <4>1. f[0] = 0 /\ g[0] = f[0]
          BY <2>1 DEF Reaches, Reach
        <4> QED
          BY <3>1, <4>1 DEF Reach
      <3>2. CASE n \in 1..(k + 1)
        <4>1. n - 1 \in 0..k /\ g[n - 1] = f[n - 1]
          BY <3>2
        <4>2. Reach(q, g, n) = Reach(q, f, n)
          <5> HIDE DEF g
          <5>1. n # 0
            BY <3>2
          <5> QED
            BY <4>1, <5>1 DEF Reach
        <4>3. n # k + 1 => f[n] = Reach(q, f, n)
          BY <2>1, <3>2 DEF Reaches
        <4> QED
          BY <4>2, <4>3
      <3> QED
        BY <3>1, <3>2
    <2>3. g = [n \in 0..(k + 1) |-> Reach(q, g, n)]
      <3> DEFINE h == [n \in 0..(k + 1) |-> Reach(q, g, n)]
      <3>1. \A n \in 0..(k + 1) : g[n] = h[n]
        <4> HIDE DEF g
        <4> QED
          BY <2>2
      <3> QED
        BY <3>1
    <2>4. Reaches(q, g, k + 1)
      BY <2>3 DEF Reaches
    <2> HIDE DEF g
    <2> QED
      BY <1>2, <2>4
  <1>3. m \in S
    <2>1. \A k \in 0..m : k \in S /\ k < m => k + 1 \in S
      BY <1>2
    <2> HIDE DEF S
    <2> QED
      BY <1>1, <2>1, SetInduction
  <1> QED
    BY <1>3

LEMMA MaxOfTwo == \A a, b \in Nat : Max({a, b}) = IF a < b THEN b ELSE a
  BY DEF Max

\* Up to e there is no gap among the first n segments, and none of them that starts there
\* goes beyond.
Gapless(q, n, e) ==
    /\ e \in Nat
    /\ \A b \in 0..(e - 1) : \E i \in 1..n : q[i].start <= b /\ b < q[i].start + q[i].len
    /\ \A i \in 1..n : q[i].start <= e => q[i].start + q[i].len <= e

LEMMA ReachIsGapless ==
    ASSUME NEW m \in Nat, NEW q, NEW f, Reaches(q, f, m),
           \A i \in 1..m : q[i].start \in Nat /\ q[i].len \in Nat,
           \A i, j \in 1..m : i < j => q[i].start <= q[j].start
    PROVE  Gapless(q, m, f[m])
  <1> DEFINE S == {k \in 0..m : Gapless(q, k, f[k])}
  <1>1. \A n \in 0..m : f[n] = Reach(q, f, n)
    BY DEF Reaches
  <1>2. 0 \in S
    <2>1. f[0] = 0
      <3>1. 0 \in 0..m
        OBVIOUS
      <3>2. f[0] = Reach(q, f, 0)
        BY <1>1, <3>1
      <3> QED
        BY <3>2 DEF Reach
    <2>2. Gapless(q, 0, 0)
      BY DEF Gapless
    <2> QED
      BY <2>1, <2>2
  <1>3. ASSUME NEW k \in 0..m, k \in S, k < m PROVE k + 1 \in S
    <2> DEFINE s == q[k + 1].start
               l == q[k + 1].len
    <2>1. k + 1 \in 1..m /\ k + 1 # 0 /\ s \in Nat /\ l \in Nat /\ (k + 1) - 1 = k
      BY <1>3
    <2>2. PICK e : e = f[k] /\ Gapless(q, k, e)
      BY <1>3
    <2>3. \A i \in 1..k : q[i].start \in Nat /\ q[i].len \in Nat /\ q[i].start <= s
      BY <1>3, <2>1
    <2>4. f[k + 1] = IF s <= e THEN Max({e, s + l}) ELSE e
      BY <1>1, <2>1, <2>2 DEF Reach
    <2>5. PICK d : d = f[k + 1]
      OBVIOUS
    <2>6. e \in Nat /\ d = IF s <= e /\ e < s + l THEN s + l ELSE e
      BY <2>1, <2>2, <2>4, <2>5, MaxOfTwo DEF Gapless
    <2>7. \A b \in 0..(d - 1) : \E i \in 1..(k + 1) : q[i].start <= b /\ b < q[i].start + q[i].len
      <3>1. SUFFICES ASSUME NEW b \in 0..(d - 1)
                     PROVE  \E i \in 1..(k + 1) : q[i].start <= b /\ b < q[i].start + q[i].len
        OBVIOUS
      <3>2. CASE b < e
        <4>1. PICK i \in 1..k : q[i].start <= b /\ b < q[i].start + q[i].len
          BY <2>2, <2>6, <3>2 DEF Gapless
        <4> QED
          BY <4>1
      <3>3. CASE ~ (b < e)
        <4>1. s <= b /\ b < s + l
          BY <2>1, <2>6, <3>3
        <4> QED
          BY <2>1, <4>1
      <3> QED
        BY <3>2, <3>3
    <2>8. ASSUME NEW i \in 1..(k + 1), q[i].start <= d PROVE q[i].start + q[i].len <= d
      <3>1. CASE i = k + 1
        BY <2>1, <2>6, <2>8, <3>1
      <3>2. CASE i # k + 1
        <4>1. i \in 1..k
          BY <3>2
        <4>2. q[i].start <= e
          BY <2>1, <2>3, <2>6, <2>8, <4>1
        <4>3. q[i].start + q[i].len <= e
          BY <2>2, <4>1, <4>2 DEF Gapless
        <4> QED
          BY <2>1, <2>3, <2>6, <4>1, <4>3
      <3> QED
        BY <3>1, <3>2
    <2>9. d \in Nat
      BY <2>1, <2>6
    <2>10. Gapless(q, k + 1, d)
      BY <2>7, <2>8, <2>9 DEF Gapless
    <2> QED
      BY <1>3, <2>5, <2>10
  <1>4. m \in S
    <2>1. \A k \in 0..m : k \in S /\ k < m => k + 1 \in S
      BY <1>3
    <2> HIDE DEF S
    <2>2. \A k \in 0..m : k \in S
      BY <1>2, <2>1, SetInduction
    <2>3. m \in 0..m
      OBVIOUS
    <2> QED
      BY <2>2, <2>3
  <1> QED
    BY <1>4

LEMMA AssembleRight ==
    ASSUME NEW segs, SegmentsOK(segs), None \notin Nat
    PROVE  Covered(segs, Assemble(segs)) /\ ~Covered(segs, Assemble(segs) + 1)
  <1> DEFINE m == Len(segs)
             whole == {i \in 1..m : segs[i].start = None}
             q == Sorted(segs)
             end == CHOOSE f : Reaches(q, f, m)
  <1>1. m \in Nat /\ DOMAIN segs = 1..m
    BY DEF SegmentsOK
  <1>2. Assemble(segs) = IF whole # {} THEN segs[Min(whole)].len ELSE end[m]
    BY <1>1 DEF Assemble, Reaches, Reach
  <1>3. CASE whole # {}
    <2>1. whole \in SUBSET Nat
      BY <1>1
    <2>2. Min(whole) \in whole
      BY <1>3, <2>1, NatMin
    <2>3. PICK w \in 1..m : segs[w].start = None /\ Assemble(segs) = segs[w].len
      BY <1>2, <1>3, <2>2
    <2>4. segs[w].len \in Nat /\ SegStart(segs[w]) = 0
      BY <1>1, <2>3 DEF SegmentsOK, SegStart
    <2>5. \A j \in 1..m : SegStart(segs[j]) \in Nat /\ segs[j].len \in Nat
                          /\ SegStart(segs[j]) + segs[j].len <= segs[w].len
      BY <1>1, <2>3 DEF SegmentsOK, SegStart
    <2>6. Covered(segs, segs[w].len)
      BY <1>1, <2>4 DEF Covered
    <2>7. ~Covered(segs, segs[w].len + 1)
      <3>1. SUFFICES ASSUME Covered(segs, segs[w].len + 1) PROVE FALSE
        OBVIOUS
      <3>2. segs[w].len \in 0..((segs[w].len + 1) - 1)
        BY <2>4
      <3>3. PICK i \in 1..m : segs[w].len < SegStart(segs[i]) + segs[i].len
        BY <1>1, <3>1, <3>2 DEF Covered
      <3> QED
        BY <2>4, <2>5, <3>3
    <2> QED
      BY <2>3, <2>6, <2>7
  <1>4. CASE whole = {}
    <2>1. \A i \in 1..m : segs[i].start \in Nat /\ segs[i].len \in Nat /\ SegStart(segs[i]) = segs[i].start
      BY <1>1, <1>4 DEF SegmentsOK, SegStart
    <2>2. /\ \A i \in 1..m : \E j \in 1..m : q[i] = segs[j]
          /\ \A j \in 1..m : \E i \in 1..m : q[i] = segs[j]
          /\ \A i, j \in 1..m : i < j => SegStart(q[i]) <= SegStart(q[j])
      BY SortedIs
    <2> HIDE DEF q
    <2>3. \A i \in 1..m : q[i].start \in Nat /\ q[i].len \in Nat /\ SegStart(q[i]) = q[i].start
      BY <2>1, <2>2
    <2>4. \A i, j \in 1..m : i < j => q[i].start <= q[j].start
      BY <2>2, <2>3
    <2>5. Reaches(q, end, m)
      BY <1>1, ReachExists
    <2>6. PICK e : e = end[m] /\ Gapless(q, m, e)
      <3> HIDE DEF end
      <3> QED
        BY <1>1, <2>3, <2>4, <2>5, ReachIsGapless
    <2>7. Assemble(segs) = e /\ e \in Nat
      BY <1>2, <1>4, <2>6 DEF Gapless
    <2>8. Covered(segs, e)
      <3>1. SUFFICES ASSUME NEW b \in 0..(e - 1)
                     PROVE  \E i \in 1..m : SegStart(segs[i]) <= b /\ b < SegStart(segs[i]) + segs[i].len
        BY <1>1 DEF Covered
      <3>2. PICK i \in 1..m : q[i].start <= b /\ b < q[i].start + q[i].len
        BY <2>6 DEF Gapless
      <3>3. PICK j \in 1..m : q[i] = segs[j]
        BY <2>2
      <3> QED
        BY <2>1, <3>2, <3>3
    <2>9. ~Covered(segs, e + 1)
      <3>1. SUFFICES ASSUME Covered(segs, e + 1) PROVE FALSE
        OBVIOUS
      <3>2. e \in 0..((e + 1) - 1)
        BY <2>7
      <3>3. PICK j \in 1..m : SegStart(segs[j]) <= e /\ e < SegStart(segs[j]) + segs[j].len
        BY <1>1, <3>1, <3>2 DEF Covered
      <3>4. PICK i \in 1..m : q[i] = segs[j]
        BY <2>2
      <3>5. q[i].start <= e /\ e < q[i].start + q[i].len
        BY <2>1, <3>3, <3>4
      <3>6. q[i].start + q[i].len <= e
        BY <2>6, <3>5 DEF Gapless
      <3> QED
        BY <2>3, <2>7, <3>5, <3>6
    <2> QED
      BY <2>7, <2>8, <2>9
  <1> QED
    BY <1>3, <1>4

LEMMA AssemblyRight == AssemblyIsLongestPrefix
  <1>1. SUFFICES ASSUME NEW segs \in SegmentLists
                 PROVE  Covered(segs, Assemble(segs)) /\ ~Covered(segs, Assemble(segs) + 1)
    BY DEF AssemblyIsLongestPrefix
  <1>2. SegmentsOK(segs) /\ None \notin Nat
    BY SegmentsAssumption DEF SegmentsAssumption, SegmentsOK
  <1> QED
    BY <1>2, AssembleRight

\* For any archive and any lists: segments are put together to the longest prefix they
\* cover, observations are joined exactly when a chain of shared identifiers leads from one
\* to the other, and the saved log covers what the last extraction linked, through
\* failures, deletions, deaths and any settings.
THEOREM ExtractionIsAlwaysExact == Spec => []ExtractionIsExact
  <1>1. LogInv => ExtractionIsExact
    BY AssemblyRight, ClustersRight DEF LogInv, ExtractionIsExact
  <1> QED
    BY <1>1, LogInvHolds, PTL

=============================================================================
