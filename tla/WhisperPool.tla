----------------------------- MODULE WhisperPool -----------------------------
(***************************************************************************)
(* The transcription pool of whisper.go: a live queue, a low-priority bulk *)
(* queue, and one worker goroutine bound to each whisper-server.           *)
(*                                                                         *)
(* Go's critical sections under p.mu are the atomic steps.  The channel    *)
(* "ready" is a counter of buffered tokens plus the set of workers parked  *)
(* in its receive queue: a send goes to a parked receiver if there is one, *)
(* else into the buffer.  A signal() that follows an unlock is folded into *)
(* the critical section before it: sending the tokens later only helps a   *)
(* worker that has not parked yet, so folding loses no lost wakeup.        *)
(***************************************************************************)
EXTENDS Integers, Sequences, FiniteSets

CONSTANTS
    Servers,      \* whisper-server instances, one worker each
    Wavs,         \* WAV paths that can be submitted
    Size,         \* Size[w]: sizeBytes of the WAV
    Covers,       \* Covers[s]: the WAVs whose length s's clip range accepts
    Managed,      \* servers launched and supervised by this process
    Crashable,    \* servers that may go down or drop a connection
    Live,         \* WAVs submitted at normal priority: live clips, single requests
    Bulk,         \* WAVs named by a "transcribe all" request
    Archive,      \* WAVs the archive backfill submits
    NoJob,        \* the empty hand
    MaxRetries,   \* maxJobRetries
    TokenCap,     \* capacity of the ready channel
    MaxBulk,      \* maxBulkQueue
    MaxWaiting    \* bound: entries waiting at once in a checked instance

ASSUME PoolAssumption ==
    /\ IsFiniteSet(Servers) /\ Servers # {}
    /\ Size \in [Wavs -> Nat]
    /\ Covers \in [Servers -> SUBSET Wavs]
    /\ Managed \subseteq Servers
    /\ Crashable \subseteq Servers
    /\ Live \subseteq Wavs /\ Bulk \subseteq Wavs /\ Archive \subseteq Wavs
    /\ MaxRetries \in Nat
    /\ TokenCap \in Nat \ {0}
    /\ MaxBulk \in Nat
    /\ MaxWaiting \in Nat

VARIABLES
    queue,            \* live jobs, FIFO order
    bulkQueue,        \* low-priority jobs
    queued,           \* WAVs recorded as waiting
    inFlight,         \* WAVs recorded as being transcribed
    running,          \* jobs being transcribed
    backfillRunning,  \* how many of those are backfill jobs
    tokens,           \* buffered wakeups in p.ready
    pc,               \* where each worker is
    hand,             \* the job each worker holds
    fromBulk,         \* history: workers whose job was taken from bulkQueue
    up,               \* the server process answers
    ready,            \* ep.ready
    closed,           \* p.done is closed
    answered          \* history: WAVs owed no transcript: never accepted, or
                      \* published since they were last accepted

jobVars    == <<queue, bulkQueue, queued>>
countVars  == <<inFlight, running, backfillRunning>>
workerVars == <<hand, fromBulk>>
serverVars == <<up, ready>>
vars == <<jobVars, countVars, tokens, pc, workerVars, serverVars, closed, answered>>

-----------------------------------------------------------------------------
(* Jobs and queues.                                                        *)

\* "aged": waiting for liveJobMaxReorderWait; "promoted": moved out of the bulk
\* queue, so waiting for longer than its place in the live queue tells.
Job == [wav : Wavs, retries : 0..MaxRetries, backfill : BOOLEAN, aged : BOOLEAN, promoted : BOOLEAN]

\* The empty hand is no job.
ASSUME NoJobAssumption == NoJob \notin Job

NewJob(w, bf) == [wav |-> w, retries |-> 0, backfill |-> bf, aged |-> FALSE, promoted |-> FALSE]

Entries(q) == {q[i] : i \in DOMAIN q}

\* The queue without its i-th entry.
Without(q, i) == SubSeq(q, 1, i - 1) \o SubSeq(q, i + 1, Len(q))

Waiting(w) == \E j \in Entries(queue) \cup Entries(bulkQueue) : j.wav = w

\* eligibleLocked: a server outside the clip's range takes it only when no
\* other ready server covers that length.
Eligible(s, j) ==
    \/ j.wav \in Covers[s]
    \/ ~ \E t \in Servers \ {s} : j.wav \in Covers[t] /\ ready[t]

\* Mutant of Urgent: only retried jobs are urgent, age does not count.
UrgentIfRetried(j) == j.retries > 0

Urgent(j) == j.retries > 0 \/ j.aged

\* pickLiveJobLocked: the first urgent eligible job, else the first of the
\* shortest eligible ones.
LivePick(s, i) ==
    LET Ok == {k \in DOMAIN queue : Eligible(s, queue[k])} IN
    /\ i \in Ok
    /\ IF \E k \in Ok : Urgent(queue[k])
       THEN Urgent(queue[i]) /\ \A k \in Ok : Urgent(queue[k]) => i <= k
       ELSE \A k \in Ok : \/ Size[queue[i].wav] < Size[queue[k].wav]
                          \/ Size[queue[i].wav] = Size[queue[k].wav] /\ i <= k

backfillSlots == IF Cardinality(Servers) > 1 THEN Cardinality(Servers) - 1 ELSE 1

\* Mutant of BulkOk: one backfill job too many.
BulkOkOneMore(s, k) ==
    /\ bulkQueue[k].backfill => backfillRunning <= backfillSlots
    /\ Eligible(s, bulkQueue[k])

\* Mutant of BulkOk: one slot too few.
BulkOkOneFewer(s, k) ==
    /\ bulkQueue[k].backfill => backfillRunning < backfillSlots - 1
    /\ Eligible(s, bulkQueue[k])

\* The bulk entries a worker may take once the live queue is empty.
BulkOk(s, k) ==
    /\ bulkQueue[k].backfill => backfillRunning < backfillSlots
    /\ Eligible(s, bulkQueue[k])

BulkPick(s, i) ==
    /\ queue = <<>>
    /\ i \in DOMAIN bulkQueue /\ BulkOk(s, i)
    /\ \A k \in DOMAIN bulkQueue : BulkOk(s, k) => i <= k

\* takeJobForLocked finds nothing for s.
NothingFor(s) ==
    /\ \A k \in DOMAIN queue : ~ Eligible(s, queue[k])
    /\ queue = <<>> => \A k \in DOMAIN bulkQueue : ~ BulkOk(s, k)

-----------------------------------------------------------------------------
(* The ready channel.                                                      *)

\* close(done) takes every parked worker off the channel.
Parked == {s \in Servers : pc[s] = "parked" /\ ~ closed}

\* The workers' positions once every parked receiver has got a token.
Wake == [s \in Servers |-> IF s \in Parked THEN "look" ELSE pc[s]]

\* Mutant of Signal: one send per server, not stopped by a full channel.
SignalUncapped == tokens' = tokens + Cardinality(Servers) - Cardinality(Parked)

\* signal(): one token per server, parked receivers first.
Signal ==
    LET n == tokens + Cardinality(Servers) - Cardinality(Parked)
    IN  tokens' = IF n > TokenCap THEN TokenCap ELSE n

SignalAs(pcs) == Signal /\ pc' = pcs

\* Worker s moves on to position "to", sending no wakeup.
Go(s, to) == UNCHANGED tokens /\ pc' = [pc EXCEPT ![s] = to]

-----------------------------------------------------------------------------
(* Submissions: clip workers, listeners' requests, bulk requests and the   *)
(* archive backfill.                                                       *)

HasRoom == Len(queue) + Len(bulkQueue) < MaxWaiting

\* Submit of a WAV that is not waiting.
SubmitNew(w) ==
    /\ w \notin queued
    /\ HasRoom
    /\ queue' = Append(queue, NewJob(w, FALSE))
    /\ queued' = queued \cup {w}
    /\ answered' = answered \ {w}
    /\ SignalAs(Wake)
    /\ UNCHANGED <<bulkQueue, countVars, workerVars, serverVars, closed>>

\* Submit of a waiting WAV promotes its bulk entry, which keeps its queuedAt
\* and the rest of its record.
SubmitDuplicate(w) ==
    /\ w \in queued
    /\ LET At == {i \in DOMAIN bulkQueue : bulkQueue[i].wav = w} IN
       IF At = {} THEN UNCHANGED <<queue, bulkQueue>>
       ELSE \E i \in At :
               /\ \A k \in At : i <= k
               /\ bulkQueue' = Without(bulkQueue, i)
               /\ queue' = Append(queue, [bulkQueue[i] EXCEPT !.promoted = TRUE])
    /\ SignalAs(Wake)
    /\ UNCHANGED <<queued, countVars, workerVars, serverVars, closed, answered>>

Submit(w) == SubmitNew(w) \/ SubmitDuplicate(w)

\* SubmitBulk; a full queue or a duplicate changes nothing.
SubmitBulk(w, bf) ==
    /\ Len(bulkQueue) < MaxBulk
    /\ w \notin queued
    /\ HasRoom
    /\ bulkQueue' = Append(bulkQueue, NewJob(w, bf))
    /\ queued' = queued \cup {w}
    /\ answered' = answered \ {w}
    /\ SignalAs(Wake)
    /\ UNCHANGED <<queue, countVars, workerVars, serverVars, closed>>

-----------------------------------------------------------------------------
(* A worker: awaitEndpoint, nextJobFor, transcribe, and what follows.      *)

\* awaitEndpoint returns; a worker at "look" has passed the done check.
Await(s) ==
    /\ pc[s] = "await" /\ ready[s] /\ ~ closed
    /\ Go(s, "look")
    /\ UNCHANGED <<jobVars, countVars, workerVars, serverVars, closed, answered>>

\* Mutant of Book: the WAV stays in p.queued.
BookStillQueued(s, j) ==
    /\ inFlight' = inFlight \cup {j.wav}
    /\ running' = running + 1
    /\ backfillRunning' = backfillRunning + (IF j.backfill THEN 1 ELSE 0)
    /\ hand' = [hand EXCEPT ![s] = j]
    /\ IF queue' # <<>> \/ bulkQueue' # <<>>
       THEN SignalAs([Wake EXCEPT ![s] = "run"])
       ELSE Go(s, "run")
    /\ UNCHANGED <<queued, serverVars, closed, answered>>

\* nextJobFor found job j: book it, and wake the others for what is left.
Book(s, j) ==
    /\ queued' = queued \ {j.wav}
    /\ inFlight' = inFlight \cup {j.wav}
    /\ running' = running + 1
    /\ backfillRunning' = backfillRunning + (IF j.backfill THEN 1 ELSE 0)
    /\ hand' = [hand EXCEPT ![s] = j]
    /\ IF queue' # <<>> \/ bulkQueue' # <<>>
       THEN SignalAs([Wake EXCEPT ![s] = "run"])
       ELSE Go(s, "run")
    /\ UNCHANGED <<serverVars, closed, answered>>

TakeLive(s) ==
    /\ pc[s] = "look"
    /\ \E i \in DOMAIN queue :
          /\ LivePick(s, i)
          /\ queue' = Without(queue, i)
          /\ bulkQueue' = bulkQueue
          /\ fromBulk' = fromBulk \ {s}
          /\ Book(s, queue[i])

TakeBulk(s) ==
    /\ pc[s] = "look"
    /\ \E i \in DOMAIN bulkQueue :
          /\ BulkPick(s, i)
          /\ queue' = queue
          /\ bulkQueue' = Without(bulkQueue, i)
          /\ fromBulk' = fromBulk \cup {s}
          /\ Book(s, bulkQueue[i])

\* Nothing to take: the lock is released, the select comes next.
FindNothing(s) ==
    /\ pc[s] = "look"
    /\ NothingFor(s)
    /\ Go(s, "decide")
    /\ UNCHANGED <<jobVars, countVars, workerVars, serverVars, closed, answered>>

\* The select on p.ready: consume a buffered token, or park.
Park(s) ==
    /\ pc[s] = "decide" /\ ~ closed
    /\ IF tokens > 0
       THEN tokens' = tokens - 1 /\ pc' = [pc EXCEPT ![s] = "look"]
       ELSE Go(s, "parked")
    /\ UNCHANGED <<jobVars, countVars, workerVars, serverVars, closed, answered>>

\* Mutant of Finish: a backfill job's slot is not given back.
FinishKeepsSlot(s, to) ==
    /\ inFlight' = inFlight \ {hand[s].wav}
    /\ running' = running - 1
    /\ Go(s, to)
    /\ UNCHANGED <<backfillRunning, jobVars, fromBulk, serverVars, closed, answered>>

\* The attempt is over and finishJob has run; the worker continues at "to".
Finish(s, to) ==
    LET j == hand[s] IN
    /\ inFlight' = inFlight \ {j.wav}
    /\ running' = running - 1
    /\ backfillRunning' = backfillRunning - (IF j.backfill THEN 1 ELSE 0)
    /\ IF j.backfill THEN SignalAs([Wake EXCEPT ![s] = to]) ELSE Go(s, to)
    /\ UNCHANGED <<jobVars, fromBulk, serverVars, closed, answered>>

\* transcribe returned text, none, or an error that is final: the server
\* refused the clip, the request timed out or Close cancelled it.
AttemptEnds(s) ==
    /\ pc[s] = "run"
    /\ Finish(s, "publish")
    /\ UNCHANGED hand

\* Mutant of AttemptUnreachable: a clip out of retries gets no failure marker.
UnreachableUnmarked(s) ==
    /\ pc[s] = "run" /\ s \in Crashable /\ ~ closed
    /\ IF hand[s].retries < MaxRetries
       THEN Finish(s, "requeue") /\ hand' = [hand EXCEPT ![s].retries = @ + 1]
       ELSE Finish(s, "await") /\ hand' = [hand EXCEPT ![s] = NoJob]

\* transcribe could not reach the server; Close turns this into a final error.
AttemptUnreachable(s) ==
    /\ pc[s] = "run" /\ s \in Crashable /\ ~ closed
    /\ IF hand[s].retries < MaxRetries
       THEN Finish(s, "requeue") /\ hand' = [hand EXCEPT ![s].retries = @ + 1]
       ELSE Finish(s, "publish") /\ UNCHANGED hand

\* Mutant of Requeue: no worker is told of the job that came back.
RequeueSilently(s) ==
    LET j == [hand[s] EXCEPT !.aged = FALSE] IN
    /\ pc[s] = "requeue"
    /\ queued' = queued \cup {j.wav}
    /\ IF j.backfill
       THEN bulkQueue' = <<j>> \o bulkQueue /\ UNCHANGED queue
       ELSE queue' = <<j>> \o queue /\ UNCHANGED bulkQueue
    /\ hand' = [hand EXCEPT ![s] = NoJob]
    /\ fromBulk' = fromBulk \ {s}
    /\ Go(s, "unready")
    /\ UNCHANGED <<countVars, serverVars, closed, answered>>

\* requeueFront: a duplicate in "queued" does not stop the insertion, and
\* only a backfill job goes back to the bulk queue.
Requeue(s) ==
    LET j == [hand[s] EXCEPT !.aged = FALSE] IN
    /\ pc[s] = "requeue"
    /\ queued' = queued \cup {j.wav}
    /\ IF j.backfill
       THEN bulkQueue' = <<j>> \o bulkQueue /\ UNCHANGED queue
       ELSE queue' = <<j>> \o queue /\ UNCHANGED bulkQueue
    /\ hand' = [hand EXCEPT ![s] = NoJob]
    /\ fromBulk' = fromBulk \ {s}
    /\ SignalAs([Wake EXCEPT ![s] = "unready"])
    /\ UNCHANGED <<countVars, serverVars, closed, answered>>

\* A remote server is taken out of rotation; a managed one is left to its
\* supervisor and the worker sleeps a second.
Unready(s) ==
    /\ pc[s] = "unready"
    /\ ready' = IF s \in Managed THEN ready ELSE [ready EXCEPT ![s] = FALSE]
    /\ Go(s, "await")
    /\ UNCHANGED <<jobVars, countVars, workerVars, up, closed, answered>>

\* publish: the text, the no-speech marker or the failure marker.
Publish(s) ==
    /\ pc[s] = "publish"
    /\ answered' = answered \cup {hand[s].wav}
    /\ hand' = [hand EXCEPT ![s] = NoJob]
    /\ fromBulk' = fromBulk \ {s}
    /\ Go(s, "await")
    /\ UNCHANGED <<jobVars, countVars, serverVars, closed>>

\* The worker returns once the pool is closed.
Exit(s) ==
    /\ closed
    /\ pc[s] \in {"await", "look", "decide", "parked"}
    /\ Go(s, "exit")
    /\ UNCHANGED <<jobVars, countVars, workerVars, serverVars, closed, answered>>

-----------------------------------------------------------------------------
(* Servers, time and shutdown.                                             *)

Crash(s) ==
    /\ s \in Crashable /\ up[s]
    /\ up' = [up EXCEPT ![s] = FALSE]
    /\ UNCHANGED <<jobVars, countVars, tokens, pc, workerVars, ready, closed, answered>>

Recover(s) ==
    /\ ~ up[s]
    /\ up' = [up EXCEPT ![s] = TRUE]
    /\ UNCHANGED <<jobVars, countVars, tokens, pc, workerVars, ready, closed, answered>>

\* probeRemote from awaitEndpoint or monitorRemote, or the local supervisor's
\* setReady: neither signals the workers.
Probe(s) ==
    /\ ready[s] # up[s] /\ ~ closed
    /\ ready' = [ready EXCEPT ![s] = up[s]]
    /\ UNCHANGED <<jobVars, countVars, tokens, pc, workerVars, up, closed, answered>>

\* A live entry has waited liveJobMaxReorderWait.
AgeEntry(i) ==
    /\ ~ queue[i].aged /\ queue[i].retries = 0
    /\ queue' = [queue EXCEPT ![i].aged = TRUE]
    /\ UNCHANGED <<bulkQueue, queued, countVars, tokens, pc, workerVars, serverVars, closed, answered>>

\* Entries age in queue order, but for one promoted from the bulk queue, which
\* may have waited any time.
AgeOldest == \E i \in DOMAIN queue : (\A k \in 1..(i - 1) : Urgent(queue[k])) /\ AgeEntry(i)
AgePromoted == \E i \in DOMAIN queue : queue[i].promoted /\ AgeEntry(i)
Age == AgeOldest \/ AgePromoted

Close ==
    /\ ~ closed
    /\ closed' = TRUE
    /\ UNCHANGED <<jobVars, countVars, tokens, pc, workerVars, serverVars, answered>>

-----------------------------------------------------------------------------
Init ==
    /\ queue = <<>> /\ bulkQueue = <<>> /\ queued = {}
    /\ inFlight = {} /\ running = 0 /\ backfillRunning = 0
    /\ tokens = 0
    /\ pc = [s \in Servers |-> "await"]
    /\ hand = [s \in Servers |-> NoJob]
    /\ fromBulk = {}
    /\ up = [s \in Servers |-> TRUE]
    /\ ready = [s \in Servers |-> s \notin Managed]
    /\ closed = FALSE
    /\ answered = Wavs

Submission ==
    \/ \E w \in Live : Submit(w)
    \/ \E w \in Bulk : SubmitBulk(w, FALSE)
    \/ \E w \in Archive : SubmitBulk(w, TRUE)

Attempt(s) == AttemptEnds(s) \/ AttemptUnreachable(s)

Worker(s) ==
    \/ Await(s) \/ TakeLive(s) \/ TakeBulk(s) \/ FindNothing(s) \/ Park(s)
    \/ Attempt(s) \/ Requeue(s) \/ Unready(s) \/ Publish(s) \/ Exit(s)

Server(s) == Crash(s) \/ Recover(s) \/ Probe(s)

Next ==
    \/ Submission
    \/ \E s \in Servers : Worker(s) \/ Server(s)
    \/ Age
    \/ Close

Spec == Init /\ [][Next]_vars

\* Goroutines are scheduled, requests time out (TimeoutMs), health checks and
\* the clock go on.  Nothing is assumed of submissions, of crashes, of
\* recoveries or of Close.
Fairness ==
    /\ \A s \in Servers : WF_vars(Worker(s)) /\ WF_vars(Probe(s))
    /\ WF_vars(AgeOldest)

FairSpec == Spec /\ Fairness
-----------------------------------------------------------------------------
(* Properties.                                                             *)

Locations == {"await", "look", "decide", "parked", "run", "requeue", "unready", "publish", "exit"}

Working == {"run", "requeue", "publish"}

QueuesOK ==
    /\ queue \in Seq(Job) /\ bulkQueue \in Seq(Job)
    /\ queued \subseteq Wavs /\ inFlight \subseteq Wavs /\ answered \subseteq Wavs

WorkersOK ==
    /\ tokens \in 0..TokenCap
    /\ pc \in [Servers -> Locations]
    /\ hand \in [Servers -> Job \cup {NoJob}]
    /\ \A s \in Servers : hand[s] \in Job <=> pc[s] \in Working
    /\ fromBulk \subseteq Servers

ServersOK ==
    /\ up \in [Servers -> BOOLEAN] /\ ready \in [Servers -> BOOLEAN]
    /\ closed \in BOOLEAN

\* Types, the channel's capacity, and a worker holds a job exactly while it
\* works on one.
TypeOK ==
    /\ QueuesOK /\ WorkersOK /\ ServersOK
    /\ running \in Int /\ backfillRunning \in Int

Held(w) == \E s \in Servers : pc[s] \in Working /\ hand[s].wav = w

\* A clip accepted for transcription is always in a queue or in a worker's
\* hands until its transcript (or a marker) is published: no path through
\* promotion, retry, requeue and publish drops a job.
NoClipLost == \A w \in Wavs \ answered : Waiting(w) \/ Held(w)

\* A WAV is refused as "already queued" only while it really waits; an entry
\* left behind in p.queued would make the clip impossible to submit.
RefusedOnlyIfWaiting == \A w \in queued : Waiting(w)

Attempting == {s \in Servers : pc[s] = "run"}

\* finishJob is called exactly once per job taken, so the counters that
\* isBusy, the backfill and the backfill slots read never drift.
CountersMatch ==
    /\ running = Cardinality(Attempting)
    /\ backfillRunning = Cardinality({s \in Attempting : hand[s].backfill})

\* The archive backfill never occupies every server of a pool of two or more:
\* jobs taken from the bulk queue respect backfillSlots at all times, however
\* promotions, retries and finishing attempts interleave.
BackfillLeavesServer ==
    Cardinality({s \in Attempting \cap fromBulk : hand[s].backfill}) <= backfillSlots

\* Some worker could take a job if every server accepted every length.
HasWork ==
    \/ queue # <<>>
    \/ \E k \in DOMAIN bulkQueue : bulkQueue[k].backfill => backfillRunning < backfillSlots

\* Without clip ranges no wakeup is lost: while there is work and a worker is
\* idle, a token is buffered or some worker is on its way to look at the queue.
NoLostWakeup ==
    HasWork /\ ~ closed =>
        \/ tokens > 0
        \/ \E s \in Servers : pc[s] = "look"
        \/ \A s \in Servers : pc[s] \notin {"decide", "parked"}

\* Every clip accepted at normal priority gets its transcript or failure
\* marker, however many shorter clips keep arriving.
EveryClipAnswered == \A w \in Live \ (Bulk \cup Archive) : w \notin answered ~> (w \in answered \/ closed)

\* A bulk or backfill clip is answered too, unless live clips keep coming: only
\* an endless run of them may hold it up.
BulkDrains ==
    \A w \in Bulk \cup Archive :
        (w \notin answered ~> (w \in answered \/ closed)) \/ []<>(queue # <<>>)

\* The whisperPool comment on p.queued and the README's bulk row: a clip that
\* is already queued is never queued twice.
NeverQueuedTwice ==
    \A i, k \in DOMAIN (queue \o bulkQueue) :
        (queue \o bulkQueue)[i].wav = (queue \o bulkQueue)[k].wav => i = k

\* The README's bulk row: bulk jobs run at low priority behind live clips and
\* individual requests, so a WAV only ever named by bulk requests never waits
\* in the live queue.
BulkStaysLow == \A j \in Entries(queue) : j.wav \in Live

StuckIdle(s, w) == Waiting(w) /\ pc[s] = "parked" /\ ready[s] /\ ~ closed

\* The comment on RemoteClipRanges: when no ready server covers a clip's
\* length any server takes it, so it never waits for ever beside an idle one.
NothingStranded ==
    \A s \in Servers, w \in Wavs :
        ~ <>[](StuckIdle(s, w) /\ \A t \in Servers : ready[t] => w \notin Covers[t])

\* The comment on signal: no worker consumes the wakeup meant for the server
\* that can take the job, so a clip never waits for ever beside an idle server
\* whose range covers it.
WakeupReachesServer ==
    \A s \in Servers, w \in Wavs : ~ <>[](StuckIdle(s, w) /\ w \in Covers[s])
=============================================================================
