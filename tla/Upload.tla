------------------------------- MODULE Upload --------------------------------
(***************************************************************************)
(* Uploading one archive through the browser: processArchive of the client *)
(* page (clean the staging area, send a tar in chunks by the TUS protocol, *)
(* verify, commit) against the handlers of the upload service, which share *)
(* the staging directory of the archive.  A flow is one execution of       *)
(* processArchive.  Flows of one browser tab follow each other, but a flow *)
(* that the user cancelled, or whose request broke off, is over only for   *)
(* the user: its handlers, and its own next requests, may still come.      *)
(***************************************************************************)
EXTENDS Naturals

CONSTANTS
    NumFlows,     \* flows are 1 .. NumFlows, in the order they are started
    Chunks,       \* PATCH requests that one tar takes
    Retries       \* tus retryDelays: attempts without progress before onError

Flows == 1 .. NumFlows

ASSUME UploadAssumption == NumFlows \in Nat /\ Chunks \in Nat \ {0} /\ Retries \in Nat

VARIABLES
    archived,     \* whose files are in archives/<name>; {}: no such directory
    staged,       \* the staging directory of the archive exists
    tar,          \* whose bytes each chunk of _upload.tar holds; 0 is a hole
    hasTar,       \* _upload.tar exists
    unpacked,     \* whose extracted files are in the staging directory
    manifest,     \* whose _manifest.json is there; 0 is none
    session,      \* flows whose TUS state file exists
    offset,       \* flow -> "offset" in its state file
    step,         \* flow -> where processArchive is
    sent,         \* flow -> the offset the tus client goes on from
    tries,        \* flow -> attempts since the last progress
    handler,      \* flow -> step of the verify or commit handler serving it
    untried,      \* flow -> state files its verification has not come to yet
    broken,       \* history: flows whose extraction broke off and was not refused
    cancelled,    \* cancelledRef: one flag for all flows of the tab
    left          \* flows the user turned away from, but those that were at an end when
                  \* the current flow began

stagingVars == <<staged, tar, hasTar, unpacked, manifest, session, offset>>
clientVars == <<step, sent, tries, cancelled>>
verifyVars == <<untried, broken>>
uploadVars == <<archived, stagingVars, clientVars, handler, verifyVars, left>>

Old == NumFlows + 1        \* the archive that was there before
Residue == NumFlows + 2    \* files that belong to no whole archive
Contents == 1 .. Residue

Over == {"done", "failed", "halted"}
Steps == {"idle", "clean", "hash", "create", "send", "resync", "verify", "commit"} \cup Over
Handlers == {"none", "extract", "unlink", "hash", "loose", "remove", "move", "record"}

TypeOK ==
    /\ archived \subseteq Contents
    /\ staged \in BOOLEAN /\ hasTar \in BOOLEAN
    /\ tar \in [1 .. Chunks -> 0 .. NumFlows]
    /\ unpacked \subseteq Contents
    /\ manifest \in 0 .. NumFlows
    /\ session \subseteq Flows
    /\ offset \in [Flows -> 0 .. Chunks]
    /\ step \in [Flows -> Steps]
    /\ sent \in [Flows -> 0 .. Chunks]
    /\ tries \in [Flows -> 0 .. Retries]
    /\ handler \in [Flows -> Handlers]
    /\ untried \in [Flows -> SUBSET Flows]
    /\ broken \subseteq Flows
    /\ cancelled \in BOOLEAN
    /\ left \subseteq Flows

Init ==
    /\ archived \in {{}, {Old}}
    /\ staged = FALSE
    /\ tar = [i \in 1 .. Chunks |-> 0]
    /\ hasTar = FALSE
    /\ unpacked = {}
    /\ manifest = 0
    /\ session = {}
    /\ offset = [f \in Flows |-> 0]
    /\ step = [f \in Flows |-> "idle"]
    /\ sent = [f \in Flows |-> 0]
    /\ tries = [f \in Flows |-> 0]
    /\ handler = [f \in Flows |-> "none"]
    /\ untried = [f \in Flows |-> {}]
    /\ broken = {}
    /\ cancelled = FALSE
    /\ left = {}

Goto(f, s) == step' = [step EXCEPT ![f] = s]
Serve(f, h) == handler' = [handler EXCEPT ![f] = h]

\* rmtree or move of the whole staging directory.
ClearStaging ==
    /\ staged' = FALSE
    /\ tar' = [i \in 1 .. Chunks |-> 0]
    /\ hasTar' = FALSE
    /\ unpacked' = {}
    /\ manifest' = 0
    /\ session' = {}
    /\ UNCHANGED offset

-----------------------------------------------------------------------------
(* The transfer                                                            *)

\* The tab starts the next flow when the previous ones are over for the user;
\* startUpload takes back any cancellation.
StartUpload(f) ==
    /\ step[f] = "idle"
    /\ \A g \in 1 .. (f - 1) : step[g] \in Over \/ g \in left
    /\ Goto(f, "clean")
    /\ cancelled' = FALSE
    /\ left' = {g \in left : step[g] \notin Over \/ handler[g] # "none"}
    /\ UNCHANGED <<archived, stagingVars, sent, tries, handler, verifyVars>>

\* DELETE /staging, whose failure the client ignores.
CleanStaging(f) ==
    /\ step[f] = "clean"
    /\ ClearStaging \/ UNCHANGED stagingVars
    /\ Goto(f, "hash")
    /\ UNCHANGED <<archived, sent, tries, handler, cancelled, left, verifyVars>>

\* All files are hashed, then the flag is looked at once more; a file may be
\* unreadable, and some may have seen a cancellation that is taken back by now.
Hash(f) ==
    /\ step[f] = "hash"
    /\ IF cancelled THEN Goto(f, "halted") ELSE \E s \in {"create", "failed"} : Goto(f, s)
    /\ UNCHANGED <<archived, stagingVars, sent, tries, handler, cancelled, left, verifyVars>>

\* A request broke off: tus tries again, or reports onError.
Retry(f, s) ==
    IF tries[f] < Retries
    THEN Goto(f, s) /\ tries' = [tries EXCEPT ![f] = @ + 1]
    ELSE Goto(f, "failed") /\ UNCHANGED tries

\* create_upload truncates a tar that is already there.
CreateUpload(f) ==
    /\ staged' = TRUE
    /\ tar' = [i \in 1 .. Chunks |-> 0]
    /\ hasTar' = TRUE
    /\ session' = session \cup {f}
    /\ offset' = [offset EXCEPT ![f] = 0]
    /\ UNCHANGED <<unpacked, manifest>>

\* POST /tus/: answered, answered in vain, or not arrived.
Create(f) ==
    /\ step[f] = "create"
    /\ \/ CreateUpload(f) /\ Goto(f, "send") /\ UNCHANGED tries
       \/ CreateUpload(f) /\ Retry(f, "create")
       \/ UNCHANGED stagingVars /\ Retry(f, "create")
    /\ sent' = [sent EXCEPT ![f] = 0]
    /\ UNCHANGED <<archived, handler, cancelled, left, verifyVars>>

\* The bytes go to the shared tar at the offset the client named.
WriteChunk(f) == tar' = [tar EXCEPT ![sent[f] + 1] = f]

\* Mutant: the offset is counted on, and never compared with the client's.
Patch_NoCheck(f) ==
    /\ step[f] = "send"
    /\ sent[f] < Chunks
    /\ f \in session
    /\ WriteChunk(f)
    /\ offset' = [offset EXCEPT ![f] = IF @ < Chunks THEN @ + 1 ELSE @]
    /\ \/ /\ sent' = [sent EXCEPT ![f] = @ + 1]
          /\ tries' = [tries EXCEPT ![f] = 0]
          /\ UNCHANGED step
       \/ Retry(f, "send") /\ UNCHANGED sent
    /\ UNCHANGED <<archived, staged, hasTar, unpacked, manifest, session, handler, cancelled, left, verifyVars>>

\* patch_upload.  Its answer may not arrive.
Patch(f) ==
    /\ step[f] = "send"
    /\ sent[f] < Chunks
    /\ f \in session
    /\ offset[f] = sent[f]
    /\ WriteChunk(f)
    /\ offset' = [offset EXCEPT ![f] = @ + 1]
    /\ \/ /\ sent' = [sent EXCEPT ![f] = @ + 1]
          /\ tries' = [tries EXCEPT ![f] = 0]
          /\ UNCHANGED step
       \/ Retry(f, "resync") /\ UNCHANGED sent
    /\ UNCHANGED <<archived, staged, hasTar, unpacked, manifest, session, handler, cancelled, left, verifyVars>>

\* Mutant: a refusal does not count as an attempt.
PatchRefused_Uncounted(f) ==
    /\ step[f] = "send"
    /\ sent[f] < Chunks
    /\ Goto(f, "resync")
    /\ UNCHANGED <<archived, stagingVars, sent, tries, handler, cancelled, left, verifyVars>>

\* No such upload, an offset that does not match, or no server.
PatchRefused(f) ==
    /\ step[f] = "send"
    /\ sent[f] < Chunks
    /\ Retry(f, "resync")
    /\ UNCHANGED <<archived, stagingVars, sent, handler, cancelled, left, verifyVars>>

\* The server dies when the chunk is written and the offset is not yet.
PatchTorn(f) ==
    /\ step[f] = "send"
    /\ sent[f] < Chunks
    /\ f \in session
    /\ offset[f] = sent[f]
    /\ WriteChunk(f)
    /\ Retry(f, "resync")
    /\ UNCHANGED <<archived, staged, hasTar, unpacked, manifest, session, offset,
                   sent, handler, cancelled, left, verifyVars>>

\* HEAD: go on from the server's offset, or from a new upload.
Resync(f) ==
    /\ step[f] = "resync"
    /\ IF f \in session
       THEN Goto(f, "send") /\ sent' = [sent EXCEPT ![f] = offset[f]]
       ELSE Goto(f, "create") /\ UNCHANGED sent
    /\ UNCHANGED <<archived, stagingVars, tries, handler, cancelled, left, verifyVars>>

SendDone(f) ==
    /\ step[f] = "send"
    /\ sent[f] = Chunks
    /\ Goto(f, IF cancelled THEN "halted" ELSE "verify")
    /\ UNCHANGED <<archived, stagingVars, sent, tries, handler, cancelled, left, verifyVars>>

-----------------------------------------------------------------------------
(* Verify and commit.  A handler's steps may be separated by those of      *)
(* another request; its last step is its answer.                           *)

\* The answer moves the flow on, unless its request was given up.
Answer(f, s) == step' = [step EXCEPT ![f] = IF @ \in Over THEN @ ELSE s]

TarIsEmpty == \A i \in 1 .. Chunks : tar[i] = 0
TarIsWhole == \A i \in 1 .. Chunks : tar[i] = tar[1]

\* Files already there stay unless the tar has the same names.
Leftovers == IF unpacked = {} THEN {} ELSE {Residue}

\* POST /verify takes one state file after the other until an attempt to unpack the
\* tar returns; without a state file there is nothing to verify.
Verify(f) ==
    /\ step[f] = "verify"
    /\ handler[f] = "none"
    /\ IF session = {}
       THEN Answer(f, "failed") /\ UNCHANGED <<handler, untried>>
       ELSE /\ \E g \in session : untried' = [untried EXCEPT ![f] = session \ {g}]
            /\ Serve(f, "extract")
            /\ UNCHANGED step
    /\ UNCHANGED <<archived, stagingVars, sent, tries, cancelled, broken, left>>

\* An attempt raised anything but a TarError: a line in the log, and on to the next
\* state file, or to the verification of files that were uploaded one by one.
Swallow(f) ==
    IF untried[f] \cap session = {}
    THEN Serve(f, "loose") /\ UNCHANGED untried
    ELSE /\ \E g \in untried[f] \cap session : untried' = [untried EXCEPT ![f] = @ \ {g}]
         /\ Serve(f, "extract")

\* No tar, or one that cannot be opened or read to its end: a TarError.
ExtractRefused(f) ==
    /\ handler[f] = "extract"
    /\ \/ /\ ~hasTar \/ TarIsEmpty
          /\ UNCHANGED stagingVars
       \/ /\ hasTar /\ tar[1] # 0 /\ ~TarIsWhole
          /\ unpacked' = {Residue}
          /\ manifest' = tar[1]
          /\ UNCHANGED <<staged, tar, hasTar, session, offset>>
    /\ Serve(f, "none")
    /\ Answer(f, "failed")
    /\ UNCHANGED <<archived, sent, tries, cancelled, left, verifyVars>>

\* A full disk, or a tar that cannot be read, in the middle of it or before.
ExtractRaises(f) ==
    /\ handler[f] = "extract"
    /\ hasTar
    /\ unpacked' \in {unpacked, {Residue}}
    /\ manifest' \in {manifest, tar[1]}
    /\ broken' = broken \cup {f}
    /\ Swallow(f)
    /\ UNCHANGED <<archived, staged, tar, hasTar, session, offset, clientVars, left>>

\* A tar that begins with a hole has no members, which is no error.
Extract(f) ==
    /\ handler[f] = "extract"
    /\ hasTar /\ ~TarIsEmpty
    /\ \/ tar[1] = 0 /\ UNCHANGED <<unpacked, manifest>>
       \/ /\ tar[1] # 0 /\ TarIsWhole
          /\ unpacked' = {tar[1]} \cup Leftovers
          /\ manifest' = tar[1]
    /\ broken' = broken \ {f}
    /\ Serve(f, "unlink")
    /\ UNCHANGED <<archived, staged, tar, hasTar, session, offset, clientVars, untried, left>>

\* unlink raises when the tar is gone, or cannot be deleted.
UnlinkTar(f) ==
    /\ handler[f] = "unlink"
    /\ \/ /\ hasTar
          /\ hasTar' = FALSE
          /\ tar' = [i \in 1 .. Chunks |-> 0]
          /\ Serve(f, "hash")
          /\ UNCHANGED untried
       \/ Swallow(f) /\ UNCHANGED <<hasTar, tar>>
    /\ UNCHANGED <<archived, staged, unpacked, manifest, session, offset, clientVars, broken, left>>

\* Without a manifest the answer is "no_checksum_file", good enough for the client;
\* a file that cannot be read raises.
HashFiles(f) ==
    /\ handler[f] = "hash"
    /\ \/ /\ Serve(f, "none")
          /\ Answer(f, IF manifest = 0 \/ manifest \in unpacked THEN "commit" ELSE "failed")
          /\ UNCHANGED untried
       \/ Swallow(f) /\ UNCHANGED step
    /\ UNCHANGED <<archived, stagingVars, sent, tries, cancelled, broken, left>>

\* The page declares no hash for a tar: each state file is a "no_hash", which passes;
\* one that cannot be read is a 500.
LooseFiles(f) ==
    /\ handler[f] = "loose"
    /\ Serve(f, "none")
    /\ \E s \in IF session = {} THEN {"failed"} ELSE {"commit", "failed"} : Answer(f, s)
    /\ UNCHANGED <<archived, stagingVars, sent, tries, cancelled, left, verifyVars>>

\* Mutant: the existing directory is not removed before the move.
StartCommit_KeepsDst(f) ==
    /\ step[f] = "commit"
    /\ handler[f] = "none"
    /\ manifest' = 0
    /\ session' = {}
    /\ Serve(f, "move")
    /\ UNCHANGED <<archived, staged, tar, hasTar, unpacked, offset, clientVars, left, verifyVars>>

\* POST /commit: the manifest is read and removed, and the TUS state.
StartCommit(f) ==
    /\ step[f] = "commit"
    /\ handler[f] = "none"
    /\ manifest' = 0
    /\ session' = {}
    /\ Serve(f, "remove")
    /\ UNCHANGED <<archived, staged, tar, hasTar, unpacked, offset, clientVars, left, verifyVars>>

\* A manifest that was written in part does not parse.
CommitRefused(f) ==
    /\ step[f] = "commit"
    /\ handler[f] = "none"
    /\ Answer(f, "failed")
    /\ UNCHANGED <<archived, stagingVars, sent, tries, handler, cancelled, left, verifyVars>>

RemoveDst(f) ==
    /\ handler[f] = "remove"
    /\ archived' = {}
    /\ Serve(f, "move")
    /\ UNCHANGED <<stagingVars, clientVars, left, verifyVars>>

\* shutil.move: into the directory, if there is one again; nothing to move is
\* an exception, and a 500.
Move(f) ==
    /\ handler[f] = "move"
    /\ IF staged
       THEN /\ archived' = IF archived # {} THEN archived \cup {Residue}
                           ELSE IF unpacked = {} THEN {Residue} ELSE unpacked
            /\ ClearStaging
            /\ Serve(f, "record")
            /\ UNCHANGED step
       ELSE /\ Serve(f, "none")
            /\ Answer(f, "failed")
            /\ UNCHANGED <<archived, stagingVars>>
    /\ UNCHANGED <<sent, tries, cancelled, left, verifyVars>>

\* Mutant: the commit's answer makes the page post the commit again.
Record_Reposted(f) ==
    /\ handler[f] = "record"
    /\ Serve(f, "none")
    /\ Answer(f, "commit")
    /\ UNCHANGED <<archived, stagingVars, sent, tries, cancelled, left, verifyVars>>

\* The session is set back to 'pending' (Loader's CommitStep), the
\* chain-of-custody files are written, which may fail, and the client hears of it.
Record(f) ==
    /\ handler[f] = "record"
    /\ Serve(f, "none")
    /\ \E s \in {"done", "failed"} : Answer(f, s)
    /\ UNCHANGED <<archived, stagingVars, sent, tries, cancelled, left, verifyVars>>

-----------------------------------------------------------------------------
(* Failures, and the user                                                  *)

\* The server process dies, and with it every handler; files stay.
Crash ==
    /\ \E f \in Flows : handler[f] # "none"
    /\ handler' = [f \in Flows |-> "none"]
    /\ step' = [f \in Flows |-> IF handler[f] = "none" \/ step[f] \in Over
                                THEN step[f] ELSE "failed"]
    /\ UNCHANGED <<archived, stagingVars, sent, tries, cancelled, left, verifyVars>>

\* The answer is lost (a proxy's timeout) while the handler works on.
GiveUp(f) ==
    /\ handler[f] # "none"
    /\ step[f] \notin Over
    /\ Goto(f, "failed")
    /\ left' = left \cup {f}
    /\ UNCHANGED <<archived, stagingVars, sent, tries, handler, cancelled, verifyVars>>

\* The Cancel button aborts transfers and deletes the staging directory.  A
\* flow that hashes, verifies or commits is not stopped.
Cancel(f) ==
    /\ step[f] \notin Over \cup {"idle"}
    /\ f \notin left
    /\ ClearStaging
    /\ cancelled' = TRUE
    /\ IF step[f] \in {"create", "send", "resync"}
       THEN Goto(f, "halted") /\ UNCHANGED left
       ELSE left' = left \cup {f} /\ UNCHANGED step
    /\ UNCHANGED <<archived, sent, tries, handler, verifyVars>>

ClientStep(f) ==
    \/ CleanStaging(f) \/ Hash(f)
    \/ Create(f) \/ Patch(f) \/ PatchTorn(f) \/ PatchRefused(f)
    \/ Resync(f) \/ SendDone(f)

ServerStep(f) ==
    \/ Verify(f) \/ ExtractRefused(f) \/ ExtractRaises(f) \/ Extract(f)
    \/ UnlinkTar(f) \/ HashFiles(f) \/ LooseFiles(f)
    \/ StartCommit(f) \/ CommitRefused(f) \/ RemoveDst(f) \/ Move(f) \/ Record(f)

Next ==
    \/ \E f \in Flows : StartUpload(f) \/ ClientStep(f) \/ ServerStep(f) \/ GiveUp(f) \/ Cancel(f)
    \/ Crash

\* The browser goes on with a flow, and the threads of the server with theirs.
Fairness == \A f \in Flows : WF_uploadVars(ClientStep(f)) /\ WF_uploadVars(ServerStep(f))

Spec == Init /\ [][Next]_uploadVars /\ Fairness

(* Properties                                                              *)

\* No other flow is running: what the page and the service assume throughout.
Undisturbed == left = {}

\* What the server tells a resuming client it holds, it holds: chunks below
\* the offset are the client's own, whatever was lost and sent again.
OffsetIsBacked ==
    Undisturbed => \A f \in session, i \in 1 .. Chunks :
        step[f] \in {"send", "resync"} /\ i <= offset[f] => tar[i] = f

\* commit_archive removes the existing archive only when all files of the new one
\* are in staging, also after crashes, retries, failed clean-ups and repeated attempts
\* to unpack; except after an extraction whose breaking off verify_archive let pass.
SafeToRemove ==
    \A f \in Flows : Undisturbed /\ handler[f] = "remove" => f \in unpacked \/ f \in broken

\* "commit is only reached after verify passes - the staging copy is complete and
\* checksummed": no exception is made.
\* The code breaks it: README, section 7.
CommitIsWhole ==
    \A f \in Flows : Undisturbed /\ handler[f] = "remove" => f \in unpacked

\* Whoever is told "done" finds the files of that upload in archives/, but for the
\* same exception.
DoneIsArchived ==
    [][\A f \in Flows : step[f] # "done" /\ step'[f] = "done" /\ Undisturbed
                          => f \in archived \/ f \in broken]_uploadVars

\* No flow hangs: the page gets to "done", "failed" or "halted".
FlowsEnd == \A f \in Flows : step[f] # "idle" ~> step[f] \in Over

=============================================================================
