----------------------------- MODULE Upload_proofs -----------------------------
(***************************************************************************)
(* A flow that is not disturbed by another owns the staging directory: its  *)
(* offsets are backed by its bytes, the commit finds its files complete and *)
(* "done" means that they are in archives/.  For any number of flows,       *)
(* chunks and retries.                                                     *)
(***************************************************************************)
EXTENDS Upload, TLAPS

Active(f) == step[f] \notin Over \cup {"idle"} \/ handler[f] # "none"

\* Flows start one after the other, and a request outlives its flow only if the
\* user turned away: two of them are active only when one was left.
Sequential ==
    /\ \A f, g \in Flows : f < g /\ step[g] # "idle" => step[f] # "idle"
    /\ \A f, g \in Flows : f # g /\ Active(f) /\ Active(g) => f \in left \/ g \in left
    /\ \A f \in left : step[f] # "idle"

Verifying == {"extract", "unlink", "hash", "loose"}
Committing == {"remove", "move", "record"}

\* A handler serves a flow that waits for it, or one that was left.
Served ==
    \A f \in Flows :
        /\ handler[f] \in Verifying => step[f] \in {"verify"} \cup Over
        /\ handler[f] \in Committing => step[f] \in {"commit"} \cup Over
        /\ handler[f] # "none" /\ step[f] \in Over => f \in left

\* What an undisturbed flow finds when it gets where it is.
Owns(f) ==
    /\ step[f] \in {"send", "resync"} =>
          f \in session /\ hasTar /\ staged /\ \A i \in 1 .. Chunks : i <= offset[f] => tar[i] = f
    /\ step[f] = "send" => sent[f] = offset[f]
    /\ step[f] = "verify" /\ handler[f] = "none" =>
          f \in session /\ hasTar /\ staged /\ \A i \in 1 .. Chunks : tar[i] = f
    /\ handler[f] = "extract" =>
          staged /\ (hasTar => \A i \in 1 .. Chunks : tar[i] = f)
    /\ handler[f] \in {"unlink", "hash"} => f \in unpacked /\ staged
    /\ handler[f] \in {"loose", "remove", "move"} => (f \in unpacked \/ f \in broken) /\ staged
    /\ step[f] = "commit" /\ handler[f] = "none" => (f \in unpacked \/ f \in broken) /\ staged
    /\ handler[f] = "unlink" /\ hasTar => \A i \in 1 .. Chunks : tar[i] = f
    /\ handler[f] = "hash" => ~hasTar
    /\ handler[f] = "move" => archived = {}
    /\ handler[f] = "record" => f \in archived \/ f \in broken

UploadInv == TypeOK /\ Sequential /\ Served /\ (left = {} => \A f \in Flows : Owns(f))

-----------------------------------------------------------------------------

LEMMA Zeros ==
  /\ 0 \in 0 .. NumFlows /\ 0 \in 0 .. Chunks /\ 0 \in 0 .. Retries
  /\ [i \in 1 .. Chunks |-> 0] \in [1 .. Chunks -> 0 .. NumFlows]
  BY UploadAssumption

LEMMA InitUpload == Init => UploadInv
  <1> SUFFICES ASSUME Init PROVE UploadInv
    OBVIOUS
  <1>1. \A f \in Flows : step[f] = "idle" /\ handler[f] = "none"
    BY DEF Init
  <1>2. TypeOK
    <2>1. archived \subseteq Contents /\ unpacked \subseteq Contents
      BY UploadAssumption DEF Init, Contents, Residue, Old
    <2>2. step \in [Flows -> Steps] /\ handler \in [Flows -> Handlers]
      BY DEF Init, Steps, Handlers
    <2>3. tar \in [1 .. Chunks -> 0 .. NumFlows] /\ offset \in [Flows -> 0 .. Chunks]
          /\ sent \in [Flows -> 0 .. Chunks] /\ tries \in [Flows -> 0 .. Retries]
      BY Zeros DEF Init
    <2> QED
      BY <2>1, <2>2, <2>3, Zeros DEF Init, TypeOK
  <1>3. Sequential /\ Served /\ \A f \in Flows : Owns(f)
    BY <1>1 DEF Init, Sequential, Served, Owns, Active, Over, Verifying, Committing
  <1> QED
    BY <1>2, <1>3 DEF UploadInv

\* A step of one active flow: what it does to the others is nothing.
StepOf(f) ==
    /\ Active(f)
    /\ left' \in {left, left \cup {f}}
    /\ \A g \in Flows : g # f => step'[g] = step[g] /\ handler'[g] = handler[g]
    /\ step'[f] # "idle"

\* So that only its own part of the invariant is at stake.
LEMMA OthersKeep ==
  ASSUME UploadInv, TypeOK', NEW f \in Flows, StepOf(f),
         handler'[f] \in Verifying => step'[f] \in {"verify"} \cup Over,
         handler'[f] \in Committing => step'[f] \in {"commit"} \cup Over,
         handler'[f] # "none" /\ step'[f] \in Over => f \in left',
         left' = {} => Owns(f)'
  PROVE  UploadInv'
  <1> USE DEF UploadInv
  <1>1. step[f] # "idle"
    BY DEF StepOf, Active, Served, TypeOK, Handlers, Over, Verifying, Committing
  <1>2. \A g, h \in Flows : g < h /\ step'[h] # "idle" => step'[g] # "idle"
    BY <1>1 DEF StepOf, Sequential
  <1>3. \A g \in Flows : g # f => (Active(g)' <=> Active(g))
    BY DEF StepOf, Active
  <1>4. \A g, h \in Flows : g # h /\ Active(g)' /\ Active(h)' => g \in left' \/ h \in left'
    BY <1>3 DEF StepOf, Sequential
  <1>5. Served'
    BY DEF StepOf, Served
  <1>6. ASSUME left' = {}, NEW g \in Flows PROVE Owns(g)'
    <2>1. left = {}
      BY <1>6 DEF StepOf
    <2>2. CASE g = f
      BY <1>6, <2>2
    <2>3. CASE g # f
      <3>1. ~Active(g)
        BY <2>1, <2>3 DEF StepOf, Sequential
      <3>2. step'[g] \in Over \cup {"idle"} /\ handler'[g] = "none"
        BY <2>3, <3>1 DEF StepOf, Active
      <3> QED
        BY <3>2 DEF Owns, Over
    <2> QED
      BY <2>2, <2>3
  <1>7. \A g \in left' : step'[g] # "idle"
    BY <1>1 DEF StepOf, Sequential, TypeOK
  <1>8. Sequential'
    BY <1>2, <1>4, <1>7 DEF Sequential
  <1> QED
    BY <1>5, <1>6, <1>8

-----------------------------------------------------------------------------
(* The operators, on what they are used for                                *)

LEMMA GotoStep ==
  ASSUME TypeOK, NEW f \in Flows, NEW s \in Steps, Goto(f, s)
  PROVE  /\ step' \in [Flows -> Steps] /\ step'[f] = s
         /\ \A g \in Flows : g # f => step'[g] = step[g]
  BY DEF TypeOK, Goto

LEMMA AnswerStep ==
  ASSUME TypeOK, NEW f \in Flows, NEW s \in Steps, Answer(f, s)
  PROVE  /\ step' \in [Flows -> Steps]
         /\ step'[f] = IF step[f] \in Over THEN step[f] ELSE s
         /\ \A g \in Flows : g # f => step'[g] = step[g]
  BY DEF TypeOK, Answer

LEMMA ServeStep ==
  ASSUME TypeOK, NEW f \in Flows, NEW h \in Handlers, Serve(f, h)
  PROVE  /\ handler' \in [Flows -> Handlers] /\ handler'[f] = h
         /\ \A g \in Flows : g # f => handler'[g] = handler[g]
  BY DEF TypeOK, Serve

LEMMA RetryStep ==
  ASSUME TypeOK, NEW f \in Flows, NEW s \in Steps, Retry(f, s)
  PROVE  /\ step' \in [Flows -> Steps] /\ step'[f] \in {s, "failed"}
         /\ \A g \in Flows : g # f => step'[g] = step[g]
         /\ tries' \in [Flows -> 0 .. Retries]
  <1>1. "failed" \in Steps
    BY DEF Steps, Over
  <1>2. tries' \in [Flows -> 0 .. Retries]
    <2>1. CASE tries[f] < Retries
      <3>1. tries[f] + 1 \in 0 .. Retries
        BY <2>1, UploadAssumption DEF TypeOK
      <3> QED
        BY <2>1, <3>1 DEF Retry, TypeOK
    <2>2. CASE ~(tries[f] < Retries)
      BY <2>2 DEF Retry, TypeOK
    <2> QED
      BY <2>1, <2>2
  <1>3. CASE Goto(f, s)
    BY <1>2, <1>3, GotoStep
  <1>4. CASE Goto(f, "failed")
    BY <1>1, <1>2, <1>4, GotoStep
  <1> QED
    BY <1>3, <1>4 DEF Retry

\* The types of the staging area that ClearStaging and CreateUpload leave.
StagingType ==
    /\ staged \in BOOLEAN /\ hasTar \in BOOLEAN
    /\ tar \in [1 .. Chunks -> 0 .. NumFlows]
    /\ unpacked \subseteq Contents
    /\ manifest \in 0 .. NumFlows
    /\ session \subseteq Flows
    /\ offset \in [Flows -> 0 .. Chunks]

VerifyType == untried \in [Flows -> SUBSET Flows] /\ broken \subseteq Flows

LEMMA SameVerify == ASSUME TypeOK, UNCHANGED verifyVars PROVE VerifyType'
  BY DEF TypeOK, verifyVars, VerifyType

LEMMA ClearType == ASSUME TypeOK, ClearStaging PROVE StagingType'
  BY Zeros DEF TypeOK, ClearStaging, StagingType, Flows, Contents, Residue

LEMMA CreateType == ASSUME TypeOK, NEW f \in Flows, CreateUpload(f) PROVE StagingType'
  BY Zeros DEF TypeOK, CreateUpload, StagingType, Flows, Contents, Residue

LEMMA SameType == ASSUME TypeOK, UNCHANGED stagingVars PROVE StagingType'
  BY DEF TypeOK, stagingVars, StagingType, Flows, Contents, Residue


LEMMA Typed ==
  ASSUME TypeOK, StagingType', archived' \subseteq Contents, step' \in [Flows -> Steps],
         sent' \in [Flows -> 0 .. Chunks], tries' \in [Flows -> 0 .. Retries],
         handler' \in [Flows -> Handlers], VerifyType', cancelled' \in BOOLEAN, left' \subseteq Flows
  PROVE  TypeOK'
  BY DEF TypeOK, StagingType, VerifyType, Contents, Residue, Flows, Steps, Over, Handlers

\* Only these states of a flow ask for anything.
LEMMA OwnsNothing ==
  ASSUME NEW f \in Flows, step[f] \in Steps \ {"send", "resync", "verify", "commit"}, handler[f] = "none"
  PROVE  Owns(f)
  BY DEF Owns

-----------------------------------------------------------------------------
(* The transfer                                                            *)

Transfer == {"clean", "hash", "create", "send", "resync"}

LEMMA Unserved ==
  ASSUME UploadInv, NEW f \in Flows, step[f] \in Transfer
  PROVE  handler[f] = "none" /\ Active(f)
  BY DEF UploadInv, TypeOK, Served, Transfer, Active, Handlers, Over, Verifying, Committing

\* What is left to show of a step of the transfer.
LEMMA TransferKeeps ==
  ASSUME UploadInv, NEW f \in Flows, step[f] \in Transfer, UNCHANGED <<archived, handler, cancelled, left, verifyVars>>,
         StagingType', step' \in [Flows -> Steps], step'[f] # "idle",
         \A g \in Flows : g # f => step'[g] = step[g],
         sent' \in [Flows -> 0 .. Chunks], tries' \in [Flows -> 0 .. Retries],
         \/ step'[f] \in {"hash", "create"} \cup Over
         \/ left = {} => Owns(f)'
  PROVE  UploadInv'
  <1>1. TypeOK'
    BY Typed, SameVerify DEF UploadInv, TypeOK
  <1>2. handler'[f] = "none" /\ StepOf(f)
    BY Unserved DEF StepOf
  <1>3. left' = {} => Owns(f)'
    BY <1>2 DEF Owns, Over
  <1> QED
    BY <1>1, <1>2, <1>3, OthersKeep DEF Verifying, Committing

LEMMA ClientKeeps ==
  ASSUME UploadInv, NEW f \in Flows, ClientStep(f) PROVE UploadInv'
  <1> USE DEF UploadInv
  <1>0. /\ sent \in [Flows -> 0 .. Chunks] /\ tries \in [Flows -> 0 .. Retries]
        /\ tar \in [1 .. Chunks -> 0 .. NumFlows] /\ offset \in [Flows -> 0 .. Chunks]
        /\ {"hash", "create", "send", "resync", "verify", "failed", "halted"} \subseteq Steps
        /\ f \in 1 .. NumFlows /\ Chunks \in Nat
    BY UploadAssumption DEF TypeOK, Steps, Over, Flows
  <1>1. CASE CleanStaging(f)
    <2>1. StagingType'
      BY <1>1, ClearType, SameType DEF CleanStaging
    <2> QED
      BY <1>0, <1>1, <2>1, GotoStep, TransferKeeps DEF CleanStaging, Transfer
  <1>2. CASE Hash(f)
    <2>1. \E s \in {"halted", "create", "failed"} : Goto(f, s)
      BY <1>2 DEF Hash
    <2>2. step' \in [Flows -> Steps] /\ step'[f] \in {"create"} \cup Over
          /\ \A g \in Flows : g # f => step'[g] = step[g]
      BY <1>0, <2>1, GotoStep DEF Over
    <2> QED
      BY <1>0, <1>2, <2>2, SameType, TransferKeeps DEF Hash, Transfer, Over
  <1>3. CASE Create(f)
    <2>1. StagingType' /\ sent' \in [Flows -> 0 .. Chunks] /\ sent'[f] = 0 /\ step[f] = "create"
      BY <1>0, <1>3, CreateType, SameType, Zeros DEF Create
    <2>2. CASE CreateUpload(f) /\ Goto(f, "send") /\ UNCHANGED tries
      <3>1. step' \in [Flows -> Steps] /\ step'[f] = "send"
            /\ \A g \in Flows : g # f => step'[g] = step[g]
        BY <1>0, <2>2, GotoStep
      <3>2. offset'[f] = 0 /\ f \in session' /\ hasTar' /\ staged'
        BY <1>0, <2>2 DEF CreateUpload
      <3>3. handler'[f] = "none"
        BY <1>3, <2>1, Unserved DEF Create, Transfer
      <3>4. Owns(f)'
        BY <2>1, <3>1, <3>2, <3>3 DEF Owns
      <3> QED
        BY <1>0, <1>3, <2>1, <2>2, <3>1, <3>4, TransferKeeps DEF Create, Transfer
    <2>3. CASE Retry(f, "create")
      <3>1. step' \in [Flows -> Steps] /\ step'[f] \in {"create", "failed"}
            /\ (\A g \in Flows : g # f => step'[g] = step[g]) /\ tries' \in [Flows -> 0 .. Retries]
        BY <1>0, <2>3, RetryStep
      <3> QED
        BY <1>3, <2>1, <3>1, TransferKeeps DEF Create, Transfer, Over
    <2> QED
      BY <1>3, <2>2, <2>3 DEF Create
  <1>4. CASE Patch(f)
    <2>1. /\ step[f] = "send" /\ sent[f] + 1 \in 1 .. Chunks /\ offset[f] = sent[f] /\ f \in session
          /\ tar' = [tar EXCEPT ![sent[f] + 1] = f] /\ offset' = [offset EXCEPT ![f] = sent[f] + 1]
      BY <1>0, <1>4 DEF Patch, WriteChunk
    <2>2. StagingType'
      BY <1>0, <1>4, <2>1 DEF Patch, StagingType, TypeOK, Contents, Residue, Flows
    <2>3. \A i \in 1 .. Chunks : left = {} /\ i <= sent[f] + 1 => tar'[i] = f
      BY <1>0, <2>1 DEF Owns
    <2>4. handler'[f] = "none"
      BY <1>4, <2>1, Unserved DEF Patch, Transfer
    <2>5. offset'[f] = sent[f] + 1 /\ session' = session /\ hasTar' = hasTar /\ staged' = staged
      BY <1>0, <1>4, <2>1 DEF Patch
    <2>6. CASE sent' = [sent EXCEPT ![f] = @ + 1] /\ tries' = [tries EXCEPT ![f] = 0] /\ UNCHANGED step
      <3>1. sent' \in [Flows -> 0 .. Chunks] /\ sent'[f] = sent[f] + 1 /\ tries' \in [Flows -> 0 .. Retries]
        BY <1>0, <2>1, <2>6, Zeros
      <3>2. left = {} => Owns(f)'
        BY <2>1, <2>3, <2>4, <2>5, <2>6, <3>1 DEF Owns
      <3> QED
        BY <1>4, <2>1, <2>2, <2>6, <3>1, <3>2, TransferKeeps DEF Patch, Transfer, TypeOK
    <2>7. CASE Retry(f, "resync") /\ UNCHANGED sent
      <3>1. step' \in [Flows -> Steps] /\ step'[f] \in {"resync", "failed"}
            /\ (\A g \in Flows : g # f => step'[g] = step[g]) /\ tries' \in [Flows -> 0 .. Retries]
        BY <1>0, <2>7, RetryStep
      <3>2. left = {} => Owns(f)'
        BY <2>1, <2>3, <2>4, <2>5, <3>1 DEF Owns
      <3> QED
        BY <1>0, <1>4, <2>1, <2>2, <2>7, <3>1, <3>2, TransferKeeps DEF Patch, Transfer
    <2> QED
      BY <1>4, <2>6, <2>7 DEF Patch
  <1>5. CASE PatchTorn(f)
    <2>1. /\ step[f] = "send" /\ sent[f] + 1 \in 1 .. Chunks /\ offset[f] = sent[f]
          /\ tar' = [tar EXCEPT ![sent[f] + 1] = f]
      BY <1>0, <1>5 DEF PatchTorn, WriteChunk
    <2>2. StagingType'
      BY <1>0, <1>5, <2>1 DEF PatchTorn, StagingType, TypeOK, Contents, Residue, Flows
    <2>3. \A i \in 1 .. Chunks : left = {} /\ i <= offset[f] => tar'[i] = f
      BY <1>0, <2>1 DEF Owns
    <2>4. step' \in [Flows -> Steps] /\ step'[f] \in {"resync", "failed"}
          /\ (\A g \in Flows : g # f => step'[g] = step[g]) /\ tries' \in [Flows -> 0 .. Retries]
      BY <1>0, <1>5, RetryStep DEF PatchTorn
    <2>5. handler'[f] = "none"
      BY <1>5, <2>1, Unserved DEF PatchTorn, Transfer
    <2>6. left = {} => Owns(f)'
      BY <1>5, <2>1, <2>3, <2>4, <2>5 DEF Owns, PatchTorn
    <2> QED
      BY <1>0, <1>5, <2>1, <2>2, <2>4, <2>6, TransferKeeps DEF PatchTorn, Transfer
  <1>6. CASE PatchRefused(f)
    <2>1. step' \in [Flows -> Steps] /\ step'[f] \in {"resync", "failed"}
          /\ (\A g \in Flows : g # f => step'[g] = step[g]) /\ tries' \in [Flows -> 0 .. Retries]
      BY <1>0, <1>6, RetryStep DEF PatchRefused
    <2>2. handler'[f] = "none" /\ step[f] = "send"
      BY <1>6, Unserved DEF PatchRefused, Transfer
    <2>3. left = {} => Owns(f)'
      BY <1>6, <2>1, <2>2 DEF Owns, PatchRefused, stagingVars
    <2> QED
      BY <1>0, <1>6, <2>1, <2>2, <2>3, SameType, TransferKeeps DEF PatchRefused, Transfer
  <1>7. CASE Resync(f)
    <2>1. handler'[f] = "none" /\ step[f] = "resync"
      BY <1>7, Unserved DEF Resync, Transfer
    <2>2. CASE f \in session
      <3>1. step' \in [Flows -> Steps] /\ step'[f] = "send"
            /\ (\A g \in Flows : g # f => step'[g] = step[g])
        BY <1>0, <1>7, <2>2, GotoStep DEF Resync
      <3>2. sent' \in [Flows -> 0 .. Chunks] /\ sent'[f] = offset[f]
        BY <1>0, <1>7, <2>2 DEF Resync
      <3>3. left = {} => Owns(f)'
        BY <1>7, <2>1, <3>1, <3>2 DEF Owns, Resync, stagingVars
      <3> QED
        BY <1>0, <1>7, <2>1, <3>1, <3>2, <3>3, SameType, TransferKeeps DEF Resync, Transfer
    <2>3. CASE f \notin session
      BY <1>0, <1>7, <2>1, <2>3, GotoStep, SameType, TransferKeeps DEF Resync, Transfer
    <2> QED
      BY <2>2, <2>3
  <1>8. CASE SendDone(f)
    <2>1. handler'[f] = "none" /\ step[f] = "send" /\ sent[f] = Chunks
      BY <1>8, Unserved DEF SendDone, Transfer
    <2>2. step' \in [Flows -> Steps] /\ step'[f] \in {"halted", "verify"}
          /\ (\A g \in Flows : g # f => step'[g] = step[g])
      BY <1>0, <1>8, GotoStep DEF SendDone
    <2>3. left = {} => Owns(f)'
      BY <1>0, <1>8, <2>1, <2>2 DEF Owns, SendDone, stagingVars
    <2> QED
      BY <1>0, <1>8, <2>1, <2>2, <2>3, SameType, TransferKeeps DEF SendDone, Transfer
  <1> QED
    BY <1>1, <1>2, <1>3, <1>4, <1>5, <1>6, <1>7, <1>8 DEF ClientStep

-----------------------------------------------------------------------------
(* Verify and commit                                                       *)

LEMMA AnswersStay ==
  ASSUME TypeOK, NEW f \in Flows, NEW s \in Steps \ {"idle"}, Answer(f, s), step[f] # "idle"
  PROVE  step'[f] # "idle"
  BY AnswerStep DEF Over

\* What is left to show of a handler's step.
LEMMA HandlerKeeps ==
  ASSUME UploadInv, NEW f \in Flows, UNCHANGED <<sent, tries, cancelled, left>>, Active(f),
         archived' \subseteq Contents, StagingType', VerifyType',
         step' \in [Flows -> Steps], step'[f] # "idle", handler' \in [Flows -> Handlers],
         \A g \in Flows : g # f => step'[g] = step[g] /\ handler'[g] = handler[g],
         \/ handler'[f] = "none"
         \/ handler'[f] \in Verifying /\ step'[f] = step[f] /\ step[f] \in {"verify"} \cup Over
         \/ handler'[f] \in Committing /\ step'[f] = step[f] /\ step[f] \in {"commit"} \cup Over,
         step[f] \in Over => handler[f] # "none",
         left = {} => Owns(f)'
  PROVE  UploadInv'
  <1>1. TypeOK'
    BY Typed DEF UploadInv, TypeOK
  <1>2. StepOf(f)
    BY DEF StepOf
  <1>3. /\ handler'[f] \in Verifying => step'[f] \in {"verify"} \cup Over
        /\ handler'[f] \in Committing => step'[f] \in {"commit"} \cup Over
    BY DEF Verifying, Committing, Handlers
  <1>4. handler'[f] # "none" /\ step'[f] \in Over => f \in left'
    BY DEF UploadInv, Served
  <1> QED
    BY <1>1, <1>2, <1>3, <1>4, OthersKeep

LEMMA SwallowStep ==
  ASSUME TypeOK, NEW f \in Flows, Swallow(f), broken' \subseteq Flows
  PROVE  /\ VerifyType' /\ handler' \in [Flows -> Handlers] /\ handler'[f] \in {"extract", "loose"}
         /\ \A g \in Flows : g # f => handler'[g] = handler[g]
  <1>1. "extract" \in Handlers /\ "loose" \in Handlers
    BY DEF Handlers
  <1>2. CASE Serve(f, "loose") /\ UNCHANGED untried
    BY <1>1, <1>2, ServeStep DEF TypeOK, VerifyType
  <1>3. ASSUME NEW g \in Flows, untried' = [untried EXCEPT ![f] = @ \ {g}], Serve(f, "extract")
        PROVE  /\ VerifyType' /\ handler' \in [Flows -> Handlers] /\ handler'[f] \in {"extract", "loose"}
               /\ \A h \in Flows : h # f => handler'[h] = handler[h]
    BY <1>1, <1>3, ServeStep DEF TypeOK, VerifyType
  <1> QED
    BY <1>2, <1>3 DEF Swallow, TypeOK

LEMMA ServerKeeps ==
  ASSUME UploadInv, NEW f \in Flows, ServerStep(f) PROVE UploadInv'
  <1> USE DEF UploadInv
  <1>0. /\ {"verify", "commit", "done", "failed"} \subseteq Steps \ {"idle"}
        /\ {"none", "extract", "unlink", "hash", "loose", "remove", "move", "record"} \subseteq Handlers
        /\ f \in 1 .. NumFlows /\ 1 \in 1 .. Chunks /\ Residue \in Contents /\ f \in Contents
        /\ tar[1] \in 0 .. NumFlows /\ \A n \in 1 .. NumFlows : n \in Contents
        /\ 0 \in 0 .. NumFlows /\ f # 0
    BY UploadAssumption DEF Steps, Over, Handlers, Flows, Contents, Residue, TypeOK
  <1>1. CASE Verify(f)
    <2>1. step[f] = "verify" /\ handler[f] = "none" /\ Active(f)
      BY <1>1 DEF Verify, Active, Over
    <2>2. StagingType'
      BY <1>1, SameType DEF Verify
    <2>3. CASE session = {}
      <3>1. step' \in [Flows -> Steps] /\ step'[f] = "failed" /\ \A g \in Flows : g # f => step'[g] = step[g]
        BY <1>0, <1>1, <2>1, <2>3, AnswerStep DEF Verify, Over
      <3>2. handler' = handler /\ VerifyType' /\ Owns(f)'
        BY <1>1, <2>1, <2>3, <3>1 DEF Verify, VerifyType, TypeOK, Owns
      <3> QED
        BY <1>1, <2>1, <2>2, <3>1, <3>2, HandlerKeeps DEF Verify, TypeOK, Over
    <2>4. CASE session # {}
      <3>1. handler' \in [Flows -> Handlers] /\ handler'[f] = "extract" /\ \A g \in Flows : g # f => handler'[g] = handler[g]
        BY <1>0, <1>1, <2>4, ServeStep DEF Verify
      <3>2. step' = step /\ VerifyType'
        <4>1. PICK g \in session : untried' = [untried EXCEPT ![f] = session \ {g}]
          BY <1>1, <2>4 DEF Verify
        <4> QED
          BY <1>1, <2>4, <4>1 DEF Verify, VerifyType, TypeOK
      <3>3. left = {} => Owns(f)'
        BY <1>1, <2>1, <3>1, <3>2 DEF Verify, Owns, stagingVars
      <3> QED
        BY <1>1, <2>1, <2>2, <3>1, <3>2, <3>3, HandlerKeeps DEF Verify, Verifying, TypeOK, Over
    <2> QED
      BY <2>3, <2>4
  <1>2. CASE ExtractRefused(f)
    <2>1. handler[f] = "extract" /\ Active(f) /\ step[f] \in {"verify"} \cup Over
      BY <1>2 DEF ExtractRefused, Active, Served, Verifying
    <2>2. handler' \in [Flows -> Handlers] /\ handler'[f] = "none" /\ \A g \in Flows : g # f => handler'[g] = handler[g]
      BY <1>0, <1>2, ServeStep DEF ExtractRefused
    <2>3. step' \in [Flows -> Steps] /\ step'[f] \in Over /\ \A g \in Flows : g # f => step'[g] = step[g]
      BY <1>0, <1>2, <2>1, AnswerStep DEF ExtractRefused, Over
    <2>4. StagingType' /\ VerifyType'
      BY <1>0, <1>2, SameVerify DEF ExtractRefused, StagingType, TypeOK, stagingVars, Flows, Contents, Residue
    <2>5. Owns(f)'
      BY <2>2, <2>3 DEF Owns, Over
    <2> QED
      BY <1>2, <2>1, <2>2, <2>3, <2>4, <2>5, HandlerKeeps DEF ExtractRefused, TypeOK, Over
  <1>3. CASE ExtractRaises(f)
    <2>1. handler[f] = "extract" /\ Active(f) /\ step[f] \in {"verify"} \cup Over
      BY <1>3 DEF ExtractRaises, Active, Served, Verifying
    <2>2. step' = step /\ f \in broken' /\ UNCHANGED <<staged, tar, hasTar>>
      BY <1>3 DEF ExtractRaises, clientVars
    <2>3. StagingType'
      BY <1>0, <1>3 DEF ExtractRaises, StagingType, TypeOK, Flows, Contents, Residue
    <2>4. /\ VerifyType' /\ handler' \in [Flows -> Handlers] /\ handler'[f] \in {"extract", "loose"}
          /\ \A g \in Flows : g # f => handler'[g] = handler[g]
      <3>1. broken' \subseteq Flows /\ Swallow(f)
        BY <1>3 DEF ExtractRaises, TypeOK
      <3> QED
        BY <3>1, SwallowStep
    <2>5. left = {} => Owns(f)'
      BY <2>1, <2>2, <2>4 DEF Owns, Over
    <2> QED
      BY <1>3, <2>1, <2>2, <2>3, <2>4, <2>5, HandlerKeeps DEF ExtractRaises, clientVars, Verifying, TypeOK, Over
  <1>4. CASE Extract(f)
    <2>1. handler[f] = "extract" /\ Active(f) /\ step[f] \in {"verify"} \cup Over
      BY <1>4 DEF Extract, Active, Served, Verifying
    <2>2. handler' \in [Flows -> Handlers] /\ handler'[f] = "unlink" /\ \A g \in Flows : g # f => handler'[g] = handler[g]
      BY <1>0, <1>4, ServeStep DEF Extract
    <2>3. StagingType' /\ VerifyType'
      <3>1. unpacked' \subseteq Contents /\ manifest' \in 0 .. NumFlows
        <4>1. CASE tar[1] = 0 /\ UNCHANGED <<unpacked, manifest>>
          BY <4>1 DEF TypeOK, Contents, Residue
        <4>2. CASE tar[1] # 0 /\ unpacked' = {tar[1]} \cup Leftovers /\ manifest' = tar[1]
          BY <1>0, <4>2 DEF Leftovers
        <4> QED
          BY <1>4, <4>1, <4>2 DEF Extract
      <3> QED
        BY <1>4, <3>1 DEF Extract, StagingType, VerifyType, TypeOK, Flows, Contents, Residue
    <2>4. left = {} => Owns(f)'
      BY <1>0, <1>4, <2>1, <2>2 DEF Extract, Owns, Over, clientVars
    <2> QED
      BY <1>4, <2>1, <2>2, <2>3, <2>4, HandlerKeeps DEF Extract, clientVars, Verifying, TypeOK, Over
  <1>9. CASE UnlinkTar(f)
    <2>1. handler[f] = "unlink" /\ Active(f) /\ step[f] \in {"verify"} \cup Over
      BY <1>9 DEF UnlinkTar, Active, Served, Verifying
    <2>2. StagingType' /\ step' = step
      BY <1>9, Zeros DEF UnlinkTar, StagingType, TypeOK, clientVars, Flows, Contents, Residue
    <2>3. CASE hasTar /\ ~hasTar' /\ Serve(f, "hash") /\ UNCHANGED untried
      <3>1. handler' \in [Flows -> Handlers] /\ handler'[f] = "hash" /\ \A g \in Flows : g # f => handler'[g] = handler[g]
        BY <1>0, <2>3, ServeStep
      <3>2. VerifyType'
        BY <1>9, <2>3 DEF UnlinkTar, VerifyType, TypeOK
      <3>3. left = {} => Owns(f)'
        BY <1>9, <2>1, <2>2, <2>3, <3>1 DEF UnlinkTar, Owns, Over
      <3> QED
        BY <1>9, <2>1, <2>2, <3>1, <3>2, <3>3, HandlerKeeps DEF UnlinkTar, clientVars, Verifying, TypeOK, Over
    <2>4. CASE Swallow(f) /\ UNCHANGED <<hasTar, tar>>
      <3>1. /\ VerifyType' /\ handler' \in [Flows -> Handlers] /\ handler'[f] \in {"extract", "loose"}
            /\ \A g \in Flows : g # f => handler'[g] = handler[g]
        BY <1>9, <2>4, SwallowStep DEF UnlinkTar, TypeOK
      <3>2. left = {} => Owns(f)'
        BY <1>9, <2>1, <2>2, <2>4, <3>1 DEF UnlinkTar, Owns, Over
      <3> QED
        BY <1>9, <2>1, <2>2, <3>1, <3>2, HandlerKeeps DEF UnlinkTar, clientVars, Verifying, TypeOK, Over
    <2> QED
      BY <1>9, <2>3, <2>4 DEF UnlinkTar
  <1>10. CASE HashFiles(f)
    <2>1. handler[f] = "hash" /\ Active(f) /\ step[f] \in {"verify"} \cup Over
      BY <1>10 DEF HashFiles, Active, Served, Verifying
    <2>2. CASE Serve(f, "none") /\ UNCHANGED untried
             /\ Answer(f, IF manifest = 0 \/ manifest \in unpacked THEN "commit" ELSE "failed")
      <3>1. handler' \in [Flows -> Handlers] /\ handler'[f] = "none" /\ \A g \in Flows : g # f => handler'[g] = handler[g]
        BY <1>0, <2>2, ServeStep
      <3>2. step' \in [Flows -> Steps] /\ step'[f] \in {"commit"} \cup Over /\ \A g \in Flows : g # f => step'[g] = step[g]
        <4>1. CASE manifest = 0 \/ manifest \in unpacked
          BY <1>0, <2>2, <4>1, AnswerStep
        <4>2. CASE ~(manifest = 0 \/ manifest \in unpacked)
          BY <1>0, <2>2, <4>2, AnswerStep DEF Over
        <4> QED
          BY <4>1, <4>2
      <3>3. VerifyType'
        BY <1>10, <2>2 DEF HashFiles, VerifyType, TypeOK
      <3>4. left = {} => Owns(f)'
        BY <1>10, <2>1, <3>1, <3>2 DEF HashFiles, Owns, Over, stagingVars
      <3> QED
        BY <1>10, <2>1, <3>1, <3>2, <3>3, <3>4, SameType, HandlerKeeps DEF HashFiles, TypeOK, Over
    <2>3. CASE Swallow(f) /\ UNCHANGED step
      <3>1. /\ VerifyType' /\ handler' \in [Flows -> Handlers] /\ handler'[f] \in {"extract", "loose"}
            /\ \A g \in Flows : g # f => handler'[g] = handler[g]
        BY <1>10, <2>3, SwallowStep DEF HashFiles, TypeOK
      <3>2. left = {} => Owns(f)'
        BY <1>10, <2>1, <2>3, <3>1 DEF HashFiles, Owns, Over, stagingVars
      <3> QED
        BY <1>10, <2>1, <2>3, <3>1, <3>2, SameType, HandlerKeeps DEF HashFiles, Verifying, TypeOK, Over
    <2> QED
      BY <1>10, <2>2, <2>3 DEF HashFiles
  <1>11. CASE LooseFiles(f)
    <2>1. handler[f] = "loose" /\ Active(f) /\ step[f] \in {"verify"} \cup Over
      BY <1>11 DEF LooseFiles, Active, Served, Verifying
    <2>2. handler' \in [Flows -> Handlers] /\ handler'[f] = "none" /\ \A g \in Flows : g # f => handler'[g] = handler[g]
      BY <1>0, <1>11, ServeStep DEF LooseFiles
    <2>3. PICK s \in {"commit", "failed"} : Answer(f, s)
      BY <1>11 DEF LooseFiles
    <2>4. step' \in [Flows -> Steps] /\ step'[f] \in {"commit"} \cup Over /\ \A g \in Flows : g # f => step'[g] = step[g]
      BY <1>0, <2>3, AnswerStep DEF Over
    <2>5. left = {} => Owns(f)'
      BY <1>11, <2>1, <2>2, <2>4 DEF LooseFiles, Owns, Over, stagingVars, verifyVars
    <2> QED
      BY <1>11, <2>1, <2>2, <2>4, <2>5, SameType, SameVerify, HandlerKeeps DEF LooseFiles, TypeOK, Over
  <1>12. CASE CommitRefused(f)
    <2>1. step[f] = "commit" /\ handler[f] = "none" /\ Active(f)
      BY <1>12 DEF CommitRefused, Active, Over
    <2>2. step' \in [Flows -> Steps] /\ step'[f] \in Over /\ \A g \in Flows : g # f => step'[g] = step[g]
      BY <1>0, <1>12, AnswerStep DEF CommitRefused, Over
    <2>3. Owns(f)'
      BY <1>12, <2>1, <2>2 DEF CommitRefused, Owns, Over
    <2> QED
      BY <1>12, <2>1, <2>2, <2>3, SameType, SameVerify, HandlerKeeps DEF CommitRefused, TypeOK, Over
  <1>5. CASE StartCommit(f)
    <2>1. step[f] = "commit" /\ handler[f] = "none" /\ Active(f)
      BY <1>5 DEF StartCommit, Active, Over
    <2>2. handler' \in [Flows -> Handlers] /\ handler'[f] = "remove" /\ \A g \in Flows : g # f => handler'[g] = handler[g]
      BY <1>0, <1>5, ServeStep DEF StartCommit
    <2>3. StagingType'
      BY <1>0, <1>5 DEF StartCommit, StagingType, TypeOK, Flows, Contents, Residue
    <2>4. left = {} => Owns(f)'
      BY <1>5, <2>1, <2>2 DEF StartCommit, Owns, clientVars, verifyVars
    <2> QED
      BY <1>5, <2>1, <2>2, <2>3, <2>4, SameVerify, HandlerKeeps DEF StartCommit, Committing, clientVars, TypeOK, Over
  <1>6. CASE RemoveDst(f)
    <2>1. handler[f] = "remove" /\ Active(f) /\ step[f] \in {"commit"} \cup Over
      BY <1>6 DEF RemoveDst, Active, Served, Committing
    <2>2. handler' \in [Flows -> Handlers] /\ handler'[f] = "move" /\ \A g \in Flows : g # f => handler'[g] = handler[g]
      BY <1>0, <1>6, ServeStep DEF RemoveDst
    <2>4. left = {} => Owns(f)'
      BY <1>6, <2>1, <2>2 DEF RemoveDst, Owns, clientVars, verifyVars, stagingVars, Over
    <2> QED
      BY <1>6, <2>1, <2>2, <2>4, SameType, SameVerify, HandlerKeeps DEF RemoveDst, Committing, clientVars, TypeOK, Over
  <1>7. CASE Move(f)
    <2>1. handler[f] = "move" /\ Active(f) /\ step[f] \in {"commit"} \cup Over
      BY <1>7 DEF Move, Active, Served, Committing
    <2>2. CASE staged
      <3>1. handler' \in [Flows -> Handlers] /\ handler'[f] = "record" /\ \A g \in Flows : g # f => handler'[g] = handler[g]
        BY <1>0, <1>7, <2>2, ServeStep DEF Move
      <3>2. step' = step /\ archived' \subseteq Contents /\ StagingType'
        BY <1>0, <1>7, <2>2, ClearType DEF Move, TypeOK
      <3>3. left = {} => Owns(f)'
        <4>1. left = {} => f \in archived' \/ f \in broken'
          BY <1>7, <2>1, <2>2 DEF Move, Owns, verifyVars
        <4> QED
          BY <2>1, <3>1, <3>2, <4>1 DEF Owns, Over
      <3> QED
        BY <1>7, <2>1, <3>1, <3>2, <3>3, SameVerify, HandlerKeeps DEF Move, Committing, TypeOK, Over
    <2>3. CASE ~staged
      <3>1. handler' \in [Flows -> Handlers] /\ handler'[f] = "none" /\ \A g \in Flows : g # f => handler'[g] = handler[g]
        BY <1>0, <1>7, <2>3, ServeStep DEF Move
      <3>2. step' \in [Flows -> Steps] /\ step'[f] \in Over /\ \A g \in Flows : g # f => step'[g] = step[g]
        BY <1>0, <1>7, <2>3, AnswerStep DEF Move, Over
      <3>3. Owns(f)'
        BY <3>1, <3>2 DEF Owns, Over
      <3> QED
        BY <1>7, <2>1, <2>3, <3>1, <3>2, <3>3, SameType, SameVerify, HandlerKeeps DEF Move, Committing, TypeOK, Over
    <2> QED
      BY <2>2, <2>3
  <1>8. CASE Record(f)
    <2>1. handler[f] = "record" /\ Active(f) /\ step[f] \in {"commit"} \cup Over
      BY <1>8 DEF Record, Active, Served, Committing
    <2>2. handler' \in [Flows -> Handlers] /\ handler'[f] = "none" /\ \A g \in Flows : g # f => handler'[g] = handler[g]
      BY <1>0, <1>8, ServeStep DEF Record
    <2>3. step' \in [Flows -> Steps] /\ step'[f] \in Over /\ \A g \in Flows : g # f => step'[g] = step[g]
      BY <1>0, <1>8, AnswerStep DEF Record, Over
    <2>4. Owns(f)'
      BY <2>2, <2>3 DEF Owns, Over
    <2> QED
      BY <1>8, <2>1, <2>2, <2>3, <2>4, SameType, SameVerify, HandlerKeeps DEF Record, TypeOK, Over
  <1> QED
    BY <1>1, <1>2, <1>3, <1>4, <1>5, <1>6, <1>7, <1>8, <1>9, <1>10, <1>11, <1>12 DEF ServerStep

-----------------------------------------------------------------------------
(* The user, and failures                                                  *)

LEMMA StartKeeps ==
  ASSUME UploadInv, NEW f \in Flows, StartUpload(f) PROVE UploadInv'
  <1> USE DEF UploadInv
  <1>1. step' \in [Flows -> Steps] /\ step'[f] = "clean" /\ \A g \in Flows : g # f => step'[g] = step[g]
    BY GotoStep DEF StartUpload, Steps
  <1>2. step[f] = "idle" /\ handler' = handler
        /\ left' = {g \in left : step[g] \notin Over \/ handler[g] # "none"}
    BY <1>1 DEF StartUpload
  <1>3. handler[f] = "none"
    BY <1>2 DEF Served, TypeOK, Handlers, Over, Verifying, Committing
  <1>4. TypeOK'
    BY <1>1, <1>2, SameType, SameVerify, Typed DEF StartUpload, TypeOK
  <1>5. \A g \in Flows : g # f => (Active(g)' <=> Active(g))
    BY <1>1, <1>2 DEF Active
  \* A flow that is still active when the next begins was left, and stays so.
  <1>6. ASSUME NEW g \in Flows, g # f, Active(g) PROVE g \in left'
    <2>1. step[g] # "idle"
      BY <1>6 DEF Active, Served, TypeOK, Handlers, Over, Verifying, Committing
    <2>2. g < f
      BY <1>2, <1>6, <2>1, UploadAssumption DEF Sequential, Flows
    <2>3. step[g] \in Over \/ g \in left
      BY <2>2, UploadAssumption DEF StartUpload, Flows
    <2>4. g \in left
      BY <1>6, <2>3 DEF Active, Served
    <2> QED
      BY <1>2, <1>6, <2>4 DEF Active, Over
  <1>7. \A g, h \in Flows : g # h /\ Active(g)' /\ Active(h)' => g \in left' \/ h \in left'
    BY <1>5, <1>6
  <1>8. \A g, h \in Flows : g < h /\ step'[h] # "idle" => step'[g] # "idle"
    <2>1. ASSUME NEW g \in Flows, g < f PROVE step[g] # "idle"
      <3>1. step[g] \in Over \/ g \in left
        BY <2>1, UploadAssumption DEF StartUpload, Flows
      <3> QED
        BY <3>1 DEF Over, Sequential
    <2> QED
      BY <1>1, <2>1, UploadAssumption DEF Sequential, Flows
  <1>9. Sequential'
    BY <1>1, <1>2, <1>7, <1>8 DEF Sequential, TypeOK
  <1>10. Served'
    BY <1>1, <1>2, <1>3 DEF Served, Verifying, Committing
  <1>11. ASSUME left' = {} PROVE \A g \in Flows : Owns(g)'
    <2>1. ASSUME NEW g \in Flows PROVE Owns(g)'
      <3>1. CASE g = f
        BY <1>1, <1>2, <1>3, <3>1 DEF Owns
      <3>2. CASE g # f
        <4>1. step'[g] \in Over \cup {"idle"} /\ handler'[g] = "none"
          BY <1>1, <1>2, <1>6, <1>11, <3>2 DEF Active
        <4> QED
          BY <4>1 DEF Owns, Over
      <3> QED
        BY <3>1, <3>2
    <2> QED
      BY <2>1
  <1> QED
    BY <1>4, <1>9, <1>10, <1>11

LEMMA GiveUpKeeps ==
  ASSUME UploadInv, NEW f \in Flows, GiveUp(f) PROVE UploadInv'
  <1> USE DEF UploadInv
  <1>1. step' \in [Flows -> Steps] /\ step'[f] = "failed" /\ \A g \in Flows : g # f => step'[g] = step[g]
    BY GotoStep DEF GiveUp, Steps, Over
  <1>2. TypeOK'
    BY <1>1, SameType, SameVerify, Typed DEF GiveUp, TypeOK
  <1>3. StepOf(f) /\ f \in left' /\ handler' = handler
    BY <1>1 DEF GiveUp, StepOf, Active
  <1> QED
    BY <1>1, <1>2, <1>3, OthersKeep DEF Served, Over

LEMMA CancelKeeps ==
  ASSUME UploadInv, NEW f \in Flows, Cancel(f) PROVE UploadInv'
  <1> USE DEF UploadInv
  <1>1. Active(f) /\ step[f] # "idle" /\ step[f] \notin Over
    BY DEF Cancel, Active
  <1>2. CASE Goto(f, "halted") /\ step[f] \in {"create", "send", "resync"} /\ UNCHANGED left
    <2>1. step' \in [Flows -> Steps] /\ step'[f] = "halted" /\ \A g \in Flows : g # f => step'[g] = step[g]
      BY <1>2, GotoStep DEF Steps, Over
    <2>2. TypeOK'
      BY <1>2, <2>1, ClearType, SameVerify, Typed DEF Cancel, TypeOK
    <2>3. handler' = handler /\ handler[f] = "none"
      BY <1>2, Unserved DEF Cancel, Transfer
    <2>4. StepOf(f) /\ Owns(f)'
      BY <1>1, <1>2, <2>1, <2>3 DEF StepOf, Owns
    <2> QED
      BY <2>2, <2>3, <2>4, OthersKeep DEF Verifying, Committing
  <1>3. CASE left' = left \cup {f} /\ UNCHANGED step
    <2>1. TypeOK'
      BY <1>3, ClearType, SameVerify, Typed DEF Cancel, TypeOK
    <2>2. StepOf(f) /\ handler' = handler
      BY <1>1, <1>3 DEF StepOf, Cancel
    <2> QED
      BY <1>1, <1>3, <2>1, <2>2, OthersKeep DEF Served
  <1> QED
    BY <1>2, <1>3 DEF Cancel

LEMMA CrashKeeps == ASSUME UploadInv, Crash PROVE UploadInv'
  <1> USE DEF UploadInv
  <1>1. \A f \in Flows : /\ handler'[f] = "none"
                         /\ step'[f] = IF handler[f] = "none" \/ step[f] \in Over THEN step[f] ELSE "failed"
    BY DEF Crash
  <1>2. step' \in [Flows -> Steps] /\ handler' \in [Flows -> Handlers]
    BY DEF Crash, TypeOK, Steps, Over, Handlers
  <1>3. TypeOK'
    BY <1>2, SameType, SameVerify, Typed DEF Crash, TypeOK
  <1>4. \A f \in Flows : (step[f] # "idle" <=> step'[f] # "idle") /\ (Active(f)' => Active(f))
    BY <1>1 DEF Active, Served, Over, TypeOK, Handlers, Verifying, Committing
  <1>5. Sequential'
    BY <1>4 DEF Sequential, Crash, TypeOK
  <1>6. Served'
    BY <1>1 DEF Served, Verifying, Committing
  <1>7. ASSUME left' = {}, NEW f \in Flows PROVE Owns(f)'
    <2>1. left = {} /\ UNCHANGED <<archived, stagingVars, sent, verifyVars>>
      BY <1>7 DEF Crash
    <2>2. (step'[f] = step[f] /\ handler[f] = "none") \/ step'[f] \in Over
      BY <1>1 DEF Over
    <2> QED
      BY <1>1, <2>1, <2>2 DEF Owns, Over, stagingVars, verifyVars
  <1> QED
    BY <1>3, <1>5, <1>6, <1>7

-----------------------------------------------------------------------------

LEMMA StepUpload == UploadInv /\ [Next]_uploadVars => UploadInv'
  <1> SUFFICES ASSUME UploadInv, [Next]_uploadVars PROVE UploadInv'
    OBVIOUS
  <1>1. CASE UNCHANGED uploadVars
    <2>1. TypeOK'
      BY <1>1, SameType, SameVerify, Typed DEF uploadVars, clientVars, UploadInv, TypeOK
    <2> QED
      BY <1>1, <2>1 DEF uploadVars, stagingVars, clientVars, verifyVars, UploadInv, Sequential, Served, Owns, Active
  <1> QED
    BY <1>1, StartKeeps, ClientKeeps, ServerKeeps, GiveUpKeeps, CancelKeeps, CrashKeeps DEF Next

LEMMA UploadAlways == Spec => []UploadInv
  BY InitUpload, StepUpload, PTL DEF Spec

\* The state of page, service and staging area is what its fields are declared to be.
THEOREM UploadTypes == Spec => []TypeOK
  <1>1. UploadInv => TypeOK
    BY DEF UploadInv
  <1> QED
    BY UploadAlways, <1>1, PTL

\* Whatever is lost, sent again or torn: below the server's offset are the bytes
\* of the flow that goes on from it.
THEOREM OffsetIsAlwaysBacked == Spec => []OffsetIsBacked
  <1>1. UploadInv => OffsetIsBacked
    BY DEF UploadInv, OffsetIsBacked, Undisturbed, Owns, TypeOK
  <1> QED
    BY UploadAlways, <1>1, PTL

\* The existing archive is removed only for one whose files are all in staging, or
\* after an extraction that broke off with an exception which verify_archive swallows.
THEOREM AlwaysSafeToRemove == Spec => []SafeToRemove
  <1>1. UploadInv => SafeToRemove
    BY DEF UploadInv, SafeToRemove, Undisturbed, Owns
  <1> QED
    BY UploadAlways, <1>1, PTL

\* Whoever is told "done" finds the files of that upload in archives/, with
\* the same exception.
THEOREM DoneIsAlwaysArchived == Spec => DoneIsArchived
  <1> DEFINE Told(f) == step[f] # "done" /\ step'[f] = "done" /\ Undisturbed => f \in archived \/ f \in broken
  <1>1. ASSUME UploadInv, [Next]_uploadVars, NEW f \in Flows PROVE Told(f)
    <2> SUFFICES ASSUME step[f] # "done", step'[f] = "done", left = {} PROVE f \in archived \/ f \in broken
      BY DEF Undisturbed
    <2>1. PICK g \in Flows : Record(g) /\ (step'[f] # step[f] => f = g)
      <3>1. ASSUME NEW g \in Flows, StartUpload(g) \/ ClientStep(g) \/ GiveUp(g) \/ Cancel(g) PROVE FALSE
        BY <1>1, <3>1, GotoStep, RetryStep DEF UploadInv, TypeOK, StartUpload, ClientStep, GiveUp, Cancel, CleanStaging, Hash, Create,
           Patch, PatchTorn, PatchRefused, Resync, SendDone, Goto, Retry
      <3>2. ASSUME Crash PROVE FALSE
        BY <3>2 DEF Crash
      <3>3. ASSUME NEW g \in Flows, ServerStep(g), ~Record(g) PROVE FALSE
        BY <1>1, <3>3 DEF UploadInv, TypeOK, ServerStep, Verify, ExtractRefused, ExtractRaises, Extract, UnlinkTar,
           HashFiles, LooseFiles, StartCommit, CommitRefused, RemoveDst, Move, Answer, clientVars
      <3>4. ASSUME NEW g \in Flows, Record(g), g # f PROVE FALSE
        BY <1>1, <3>4 DEF UploadInv, TypeOK, Record, Answer
      <3> QED
        BY <1>1, <3>1, <3>2, <3>3, <3>4 DEF Next, uploadVars, clientVars
    <2>2. handler[f] = "record"
      BY <2>1 DEF Record
    <2> QED
      BY <1>1, <2>2 DEF UploadInv, Owns
  <1>2. UploadInv /\ [Next]_uploadVars => [\A f \in Flows : Told(f)]_uploadVars
    BY <1>1
  <1> QED
    BY UploadAlways, <1>2, PTL DEF Spec, DoneIsArchived

=============================================================================
