------------------------------- MODULE JobPage -------------------------------
(***************************************************************************)
(* JobManager as the Incorporate page sees it: ws_manager's hub, which     *)
(* takes the messages of the job's thread to every connected page (under   *)
(* a lock into the replay buffer, then through callbacks of the event loop *)
(* into the queues), and the page, which mixes these messages with the     *)
(* answers to its requests.  Messages of one connection keep their order;  *)
(* requests and their answers do not.                                      *)
(***************************************************************************)
EXTENDS JobManager, Sequences, SequencesExt

CONSTANTS
    Pages,        \* browser tabs on the Incorporate page
    MaxLines,     \* lines a job emits, its 'done' aside
    BufferMax     \* _buffer_max

ASSUME JobPageAssumption == MaxLines \in Nat /\ BufferMax \in Nat \ {0}

VARIABLES
    buffer,       \* _buffer: what a page that subscribes is told first
    handing,      \* broadcast(): {} or {the message and the queues still to be given it}
    conn,         \* page -> "closed", "opening" (not subscribed yet) or "open"
    queue,        \* page -> messages on their way: the event loop's callbacks, the
                  \* asyncio.Queue and the socket, which all keep the order
    asked,        \* page -> requests the server has not served
    answers,      \* page -> answers on their way
    shows,        \* page -> its running and starting state; stopping goes with running
    sent,         \* history: what was broadcast since clear_buffer()
    got           \* history: page -> what its connection brought it of the last job

hubVars == <<buffer, handing, sent>>
pageVars == <<conn, queue, asked, answers, shows, got>>
vars == <<jobVars, hubVars, pageVars>>

Message(j, verdict) == [job |-> j, n |-> Len(sent) + 1, verdict |-> verdict]
Messages == [job : JobIds, n : 1 .. MaxLines + 1, verdict : {"none"} \cup Outcomes]
Fresh == [running |-> FALSE, starting |-> FALSE]

PageInit ==
    /\ Init
    /\ buffer = <<>> /\ handing = {} /\ sent = <<>>
    /\ conn = [p \in Pages |-> "closed"]
    /\ queue = [p \in Pages |-> <<>>] /\ got = [p \in Pages |-> <<>>]
    /\ asked = [p \in Pages |-> {}] /\ answers = [p \in Pages |-> {}]
    /\ shows = [p \in Pages |-> Fresh]

-----------------------------------------------------------------------------
(* The hub                                                                 *)

Subscribers == {p \in Pages : conn[p] = "open"}

\* broadcast(), the part under the lock.
Broadcast(msg) ==
    /\ handing = {}
    /\ LET b == Append(buffer, msg) IN
       buffer' = SubSeq(b, Len(b) - (IF Len(b) > BufferMax THEN BufferMax ELSE Len(b)) + 1, Len(b))
    /\ sent' = Append(sent, msg)
    /\ handing' = IF Subscribers = {} THEN {} ELSE {[msg |-> msg, to |-> Subscribers]}

\* The loop after the lock: one call_soon_threadsafe per queue.
Post ==
    /\ \E h \in handing : \E p \in h.to :
          /\ queue' = [queue EXCEPT ![p] = Append(@, h.msg)]
          /\ handing' = IF h.to = {p} THEN {} ELSE {[h EXCEPT !.to = @ \ {p}]}
    /\ UNCHANGED <<jobVars, buffer, sent, conn, asked, answers, shows, got>>

\* Mutant: a late page is not told what was said so far.
Subscribe_NoReplay(p) ==
    /\ up /\ conn[p] = "opening"
    /\ conn' = [conn EXCEPT ![p] = "open"]
    /\ queue' = [queue EXCEPT ![p] = <<>>]
    /\ UNCHANGED <<jobVars, hubVars, asked, answers, shows, got>>

\* ws_endpoint: the token is good, and subscribe() runs under the lock.
Subscribe(p) ==
    /\ up /\ conn[p] = "opening"
    /\ conn' = [conn EXCEPT ![p] = "open"]
    /\ queue' = [queue EXCEPT ![p] = buffer]
    /\ UNCHANGED <<jobVars, hubVars, asked, answers, shows, got>>

\* What is on its way to a closed connection is lost.  What a page does without
\* one is left out, but for its starts: they are StartElsewhere.
Gone(p) ==
    /\ conn' = [conn EXCEPT ![p] = "closed"]
    /\ queue' = [queue EXCEPT ![p] = <<>>] /\ got' = [got EXCEPT ![p] = <<>>]
    /\ asked' = [asked EXCEPT ![p] = {}] /\ answers' = [answers EXCEPT ![p] = {}]
    /\ shows' = [shows EXCEPT ![p] = Fresh]

Disconnect(p) ==
    /\ conn[p] # "closed"
    /\ Gone(p)
    /\ handing' = {[h EXCEPT !.to = @ \ {p}] : h \in {x \in handing : x.to # {p}}}
    /\ UNCHANGED <<jobVars, buffer, sent>>

-----------------------------------------------------------------------------
(* The job's thread                                                        *)

\* emit(); the last message of a job is the one that ends it.
Emit(j) ==
    /\ thread[j] = "body" /\ Len(sent) < MaxLines
    /\ Broadcast(Message(j, "none"))
    /\ UNCHANGED <<jobVars, pageVars>>

\* Mutant: a cancelled job ends without a word.
EndJob_Silent(j, outcome) ==
    /\ handing = {}
    /\ EndBody(j, outcome)
    /\ IF outcome = "cancelled" THEN UNCHANGED hubVars ELSE Broadcast(Message(j, outcome))
    /\ UNCHANGED pageVars

\* Mutant: 'done' always says completed.
EndJob_Cheerful(j, outcome) ==
    /\ EndBody(j, outcome)
    /\ Broadcast(Message(j, "completed"))
    /\ UNCHANGED pageVars

\* 'done' is broadcast before finish() is called.
EndJob(j, outcome) ==
    /\ EndBody(j, outcome)
    /\ Broadcast(Message(j, outcome))
    /\ UNCHANGED pageVars

Launch(j) == (LaunchThread(j) \/ LaunchFails(j)) /\ UNCHANGED <<hubVars, pageVars>>

Finish(j) ==
    /\ handing = {}
    /\ CloseRow(j) \/ CloseRowFails(j) \/ Release(j)
    /\ UNCHANGED <<hubVars, pageVars>>

-----------------------------------------------------------------------------
(* The routes                                                              *)

\* try_start() clears the replay buffer under its own lock.
StartJob(j) ==
    /\ TryStart(j)
    /\ buffer' = <<>> /\ sent' = <<>>
    /\ UNCHANGED handing

\* Another administrator, without this page.
StartElsewhere(j) == StartJob(j) /\ UNCHANGED pageVars

Served(p, request) == request \in asked[p] /\ asked' = [asked EXCEPT ![p] = @ \ {request}]
Answered(p, answer) == answers' = [answers EXCEPT ![p] = @ \cup {answer}]

\* A refusal rejects the promise of handleStart, and the line that would reset
\* `starting` is not reached.
ServeStart(p) ==
    /\ up /\ Served(p, "start")
    /\ \/ \E j \in JobIds : StartJob(j) /\ Answered(p, "started")
       \/ running /\ UNCHANGED <<jobVars, hubVars, answers>>
    /\ UNCHANGED <<conn, queue, shows, got>>

ServeStatus(p) ==
    /\ up /\ Served(p, "status")
    /\ Answered(p, IF running THEN "running" ELSE "idle")
    /\ UNCHANGED <<jobVars, hubVars, conn, queue, shows, got>>

\* The page's Stop button or another administrator's; of the answer the page
\* reads nothing.
Stop == (StopCheck \/ RequestCancel) /\ UNCHANGED <<hubVars, pageVars>>

-----------------------------------------------------------------------------
(* The page                                                                *)

Show(p, f) == shows' = [shows EXCEPT ![p] = f]

\* The page is loaded: its effects open the connection and ask for the status.
Load(p) ==
    /\ conn[p] = "closed"
    /\ conn' = [conn EXCEPT ![p] = "opening"]
    /\ asked' = [asked EXCEPT ![p] = {"status"}]
    /\ UNCHANGED <<jobVars, hubVars, queue, answers, shows, got>>

ClickStart(p) ==
    /\ conn[p] # "closed" /\ ~shows[p].running /\ ~shows[p].starting
    /\ Show(p, [shows[p] EXCEPT !.starting = TRUE])
    /\ asked' = [asked EXCEPT ![p] = @ \cup {"start"}]
    /\ UNCHANGED <<jobVars, hubVars, conn, queue, answers, got>>

\* fetchStatus and handleStart go on.
Answer(p) ==
    /\ \E a \in answers[p] :
          /\ answers' = [answers EXCEPT ![p] = @ \ {a}]
          /\ Show(p, [shows[p] EXCEPT !.running = (a # "idle")])
    /\ UNCHANGED <<jobVars, hubVars, conn, queue, asked, got>>

\* History: what the page got is kept until a later job's first message.
OfJob(s, j) == IF s # <<>> /\ s[1].job = j THEN s ELSE <<>>

\* ws.onmessage
Receive(p) ==
    /\ queue[p] # <<>>
    /\ LET msg == Head(queue[p]) IN
       /\ Show(p, IF msg.verdict # "none" THEN Fresh ELSE shows[p])
       /\ got' = [got EXCEPT ![p] = Append(OfJob(@, msg.job), msg)]
    /\ queue' = [queue EXCEPT ![p] = Tail(@)]
    /\ UNCHANGED <<jobVars, hubVars, conn, asked, answers>>

-----------------------------------------------------------------------------

ServerDies ==
    /\ Crash
    /\ buffer' = <<>> /\ handing' = {} /\ sent' = <<>>
    /\ conn' = [p \in Pages |-> "closed"]
    /\ queue' = [p \in Pages |-> <<>>] /\ got' = [p \in Pages |-> <<>>]
    /\ asked' = [p \in Pages |-> {}] /\ answers' = [p \in Pages |-> {}]
    /\ shows' = [p \in Pages |-> Fresh]

ServerStarts == Restart /\ UNCHANGED <<hubVars, pageVars>>

JobStep(j) ==
    Launch(j) \/ Emit(j) \/ (\E outcome \in Outcomes : EndJob(j, outcome)) \/ Finish(j)
PageStep(p) == Subscribe(p) \/ Answer(p) \/ Receive(p)
UserStep(p) == Load(p) \/ ClickStart(p) \/ Disconnect(p)
Serve(p) == ServeStart(p) \/ ServeStatus(p)

PageNext ==
    \/ \E j \in JobIds : StartElsewhere(j) \/ JobStep(j)
    \/ \E p \in Pages : PageStep(p) \/ UserStep(p) \/ Serve(p)
    \/ Stop \/ Post
    \/ ServerDies \/ ServerStarts

\* The job's thread keeps being scheduled, its broadcasts included, and an open
\* connection delivers.
PageFairness ==
    /\ WF_vars(\E j \in JobIds : JobStep(j))
    /\ WF_vars(Post)
    /\ \A p \in Pages : WF_vars(Receive(p))

PageSpec == PageInit /\ [][PageNext]_vars /\ PageFairness

(* Properties                                                              *)

PageTypeOK ==
    /\ buffer \in Seq(Messages) /\ Len(buffer) <= BufferMax
    /\ \A h \in handing : h.msg \in Messages /\ h.to \in (SUBSET Pages) \ {{}}
    /\ conn \in [Pages -> {"closed", "opening", "open"}]
    /\ \A p \in Pages : queue[p] \in Seq(Messages) /\ got[p] \in Seq(Messages)
    /\ asked \in [Pages -> SUBSET {"status", "start"}]
    /\ answers \in [Pages -> SUBSET {"running", "idle", "started"}]
    /\ shows \in [Pages -> [running : BOOLEAN, starting : BOOLEAN]]

\* All that a page's connection brought and will bring it.
HandedTo(p) == IF \E h \in handing : p \in h.to THEN <<Last(sent)>> ELSE <<>>
Stream(p) == got[p] \o queue[p] \o HandedTo(p)

\* s ends with the last n messages of the job and has no other message of it.
EndsWithLast(s, n) ==
    /\ n <= Len(s)
    /\ \A i \in 1 .. n : s[(Len(s) - n) + i] = sent[(Len(sent) - n) + i]
    /\ sent # <<>> => \A i \in 1 .. Len(s) - n : s[i].job # sent[1].job

Buffered == IF Len(sent) < BufferMax THEN Len(sent) ELSE BufferMax

\* Whenever a page subscribed, before the job, in its middle or while a message
\* was being handed out: its connection brings it the messages of the job in
\* order, each once, and none is missing but those the buffer had dropped.
StreamIsExact ==
    \A p \in Subscribers : \E n \in Buffered .. Len(sent) : EndsWithLast(Stream(p), n)

\* What a page shows and what its connection carries is well formed, and the
\* connection is an exact copy of the job's messages.
ConnectionsAreExact == PageTypeOK /\ StreamIsExact

\* The end a page was told of is the one the job's row has, or will have unless
\* its UPDATE fails or the server dies first; and no row has an end that was not
\* announced while its job is the last one.
VerdictsAgree ==
    /\ \A p \in Pages : \A i \in DOMAIN got[p] :
          LET msg == got[p][i] IN
          msg.verdict # "none" => jobs[msg.job] \in {msg.verdict, "running", "restarted"}
    /\ sent # <<>> /\ jobs[sent[1].job] \in Outcomes => Last(sent).verdict = jobs[sent[1].job]

\* The page knows of a job and has no answer under way that is older.
Follows(p, j) ==
    /\ conn[p] = "open" /\ shows[p].running
    /\ asked[p] = {} /\ answers[p] = {}
    /\ Live(j) /\ \A i \in DOMAIN got[p] : got[p][i].job # j \/ got[p][i].verdict = "none"

\* A connected page that shows a job running stops showing it in the end,
\* however the job ends.  (A page whose answer comes after the job's 'done' shows
\* it running for ever: see the README.)
RunIsFollowed ==
    \A p \in Pages, j \in JobIds :
        Follows(p, j) ~> (~shows[p].running \/ conn[p] # "open" \/ Wedged)

=============================================================================
