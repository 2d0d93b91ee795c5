# Verification of g711-radio

TLA+ specifications of the concurrent core of the server, the TLC
configurations that check them on small instances, and TLAPS proofs of the
properties that matter most for every instance. Every definition is translated
from the Go source; paths below are relative to the repository.

## 1. The system

g711-radio is one Go process. Each configured stream is a *station*: UDP
readers hand audio frames to the station's goroutine, which broadcasts them to
WebRTC listeners and cuts recordings out of them. Recordings become WAV files,
are announced to pages over server-sent events, and are sent to
whisper-servers for transcription. The streams file is polled and edits are
applied while the process runs. The process may dial out to a second one, an
*edge*, which mirrors its list of streams and relays its audio and its events to
more listeners. What listeners do is counted per day; the archive of recordings
is kept equal in several folders.

```
 UDP ports -> Multicast -> Recorder -> clip workers -> WAV + log -> Recordings
                  |                        |             ^             |
                  v                        v             |             v
              Listeners <- Stations     WhisperPool -> Hub (events) -> pages
                (WebRTC)   (reload)     ^ submissions: clip workers, listeners,
                                          bulk requests, archive backfill

 origin                           edge
   broadcast -> tap -> handleEdgeLive ==> runFeed -> broadcastChan -> listeners   LiveFeed
   /streams, hub ------- one tunnel ====> syncLoop, relayTranscripts              Uplink

 clip workers, CSV rows -> archive folders <-> sync        Archive
 requests, sessions, recordings -> raw events -> days      Analytics
```

| Part | Source | State it keeps | Operations | What makes it correct |
|---|---|---|---|---|
| Transcription pool | `whisper.go`, `whisper_local.go` | live and bulk queues, `queued`, `inFlight`, counters, the `ready` channel, readiness of servers | Submit, SubmitBulk, one worker per server, health checks, Close | no clip lost or stuck, no wakeup lost, shortest-first without starvation, a server kept free of backfill |
| Recorder | `recorder.go` | phase, buffer, gap timer | Push, timer callback, Flush | every packet in exactly one clip, an open clip is always going to end |
| Multicast listener | `multicast.go` | active port, last packet per port, frame channel | packet, dropout tick, Close | the newest transmission is heard, Close ends (and closes the channel only once every reader has gone, which its order of steps makes plain and no run checks) |
| Transcript hub | `hub.go` | subscriber map and channels, log, archive | Publish, subscribe, unsubscribe, ServeHTTP | no silent gap, causal order, what was shown is logged, a slow page blocks nobody |
| Stream reload | `streams_reload.go`, `streams_config.go` | running stations, IDs, page list, last hash | poll, unlist, stop, start, retry | stops before starts, unchanged streams untouched, pages told what runs, converges to the file |
| Listeners | `main.go`, `analytics.go` | subscribers, peer connections, leave tokens, sessions | offer, state callbacks, leave, disconnection | no leaked connection, stopped stations disconnect, each session ends with its own connection |
| Recordings | `recording_index.go`, `hub.go`, clip job in `streams_reload.go` | files, log, index entry, build in progress | save, publish, build, forget, track, history | index equals a rebuild, history complete |
| Archive backfill | `backfill.go` | pending list, attempted set | step, scan | idle-only, each clip once per run |
| Archive sync | `archive_sync.go` | none between passes | scan, copy the largest version, rename | no whole recording replaced by a cut one, folders end up equal, appended rows kept |
| Radio archive | `radio_archive.go` | totals per stream, cutoff date | count once, rescan | a recording is counted once, live or from the archive, and none is left out |
| Feedback | `feedback.go` | corrections, CSV | append, merge into history | the latest correction wins everywhere |
| Edge uplink | `uplink.go`, `edge.go` | the tunnel's connection, mirrored stations, the subscription to events | dial, attach, sync, relay | no connection left open unused, streams outlive an offline origin, a lasting link mirrors the origin |
| Edge relay | `edge.go`, `main.go` | feed, linger timer, `subsChanged`, `broadcastChan` | join, leave, supervise, reconnect, end | one feed per stream, frames in order and none twice, listeners fed, idle feeds stopped, no send on the closed channel |
| Analytics | `analytics*.go`, `transcription_analytics.go` | days, today's raw file, sessions, salt, reset marker | record, roll over, save, prune, replay, reset | a restart shows the same totals, a visitor counts once a day |
| Others | sign-in, HTTP handlers, pings, aggregates, text filters, web pages, tools in `cmd/` | little or none | | |

What is hard in this code, and hard to test: steps of goroutines between two
critical sections (Publish, observe, handleOffer, requeueFront), channels used
as wakeups, timers whose callback cannot be recalled, reloads that overlap
everything else, servers that fail in the middle of a request, background work
(the index build, the archive sync, the archive scan) whose input is being
written, a link that dies silently or is redialled before its end is noticed, and
restarts in the middle of all of it. `PROJECT.json` lists each of
these hazards at its line with the properties that cover it.

## 2. Modules

| Module | Models | State and actions |
|---|---|---|
| `WhisperPool` (`MCWhisperPool`) | the pool | one action per critical section under `p.mu`. The `ready` channel is a counter of buffered tokens plus the workers parked in its receive queue; a `signal()` that follows an unlock is part of the section before it. `awaitEndpoint`/`nextJobFor`/`transcribe`/`publish` are the positions of `pc` |
| `Recorder` | one `recorderState` | `Push`, `Fire` (the timer runs out), `Callback` (its goroutine gets `r.mu`, possibly late), `StopByReload`, `Shutdown`, and ticks |
| `Multicast` | one `MulticastListener` | per-port reader goroutines, `handlePacket` and `checkDropout` under `ml.mu`, the frame channel, the steps of `Close`; time is the age of the last packet up to `dropoutTime` |
| `Hub` (`MCHub`) | `transcriptHub` | Publish step by step: log line, index, archive, copy of the map under the lock, sends outside it one by one, unsubscription of slow pages; ServeHTTP |
| `Listeners` | offers and peer connections | `handleOffer` step by step, the state callback in a goroutine of its own, the leave token, sessions of `analytics` keyed by peer ID |
| `Stations` (`MCStations`), extends `Listeners` | `watchStreamConfig` and `applyStreams` | composes the watcher, the stations' goroutines, other programs that take ports, and the listeners |
| `Recordings` (`MCRecordings`) | one stream's files, log, index and history | clip workers, whisper workers, the build, reloads, restarts and a request interleave; Publish is split where the code releases its locks |
| `LiveAudio` | what live listening promises | abstract: frames broadcast, who is tuned in, the latest frame each has heard |
| `LiveFeed` | one stream on an edge, from the origin's broadcaster to the listeners | `superviseStation`, `runFeed`/`pullFeed` and `handleEdgeLive` are processes; `subsChanged`, `feedDone`, the linger timer, the tap, `broadcastChan` and the frames on the wire are state; the link falls silent, breaks and returns. A reload of the origin is the steps of `applyStreams`: the station is unlisted, ends, and starts again under its ID or is missing from the new list, which the edge sees only then; the origin's process may restart. Implements `LiveAudio` with `tuned <- subs` |
| `Uplink` (`MCUplink`) | the link itself | `runUplink`, upgrades answered and attached concurrently, `syncLoop` with its request, its answer and the stops it waits for, `relayTranscripts`; connections break, the origin reloads, either side restarts |
| `Archive` | `saveAudioClip` in every folder, rows of an appended CSV, passes of `archive_sync.go` | open, write and close are steps of their own, as are the scan of each folder, each copy and each rename; time passes, a step fails, a file is lost, the process restarts |
| `Analytics` | `analytics.go` and `radio_archive.go` | each handler is one step under `a.mu`; raw files, saved days, salt, marker and archive totals are on disk; the open session and the archive scan go on between the steps. Whatever writes may fail at every step: a raw file's open and write, the totals of a day, the salt, a deletion, `radio_archive.json`; so may the reading of a recording, or of the whole archive. History variables keep what failed (`unwritten`, `unsalted`, `unread`) and whom a day saw (`seenOn`) |
| `WhisperPoolProofs`, `AudioProofs` (of `Multicast`, `Recorder` and `Archive`), `HubProofs`, `StationsProofs`, `LiveFeedProofs`, `UplinkProofs`, `RecordingsProofs`, `AnalyticsProofs` | | the theorems of section 5 |

Conventions. `pc`-like variables say where a goroutine is between critical
sections; history variables are marked as such and guard nothing. Operators
named "Mutant of ..." are wrong variants of the definition that follows: TLC
finds the named property violated when one takes its place.

## 3. What the runs check

| Run | Instance | Question |
|---|---|---|
| `WhisperPoolSafety` | two servers, one may fail mid-request; two clips, one submitted by a listener, both by the backfill; one retry, two entries waiting | `NoClipLost`, `RefusedOnlyIfWaiting`, `CountersMatch`, `BackfillLeavesServer`, `NoLostWakeup` |
| `WhisperPoolLive` | two servers, one managed, that may go down for good; two live clips submitted again and again, one archive clip; no retry | `EveryClipAnswered` (ageing beats an endless run of shorter clips), `BulkDrains` |
| `Recorder` | gap of 2 ticks, clips of up to 3 frames, 7 packets | `NothingLost`, `OpenClipHasTimer`, `EveryClipEnds` |
| `Multicast` | three ports, a channel of two frames, dropout of 2 ticks | `NewestIsActive`, `OlderStaysSuppressed`, `CloseFinishes` |
| `Hub` | two publishers (a worker and an HTTP handler), two pages, channels of two events, three events, one of which cannot be logged | `TypeOK`, `DeliveredOrDropped`, `CausalOrder`, `ShownIsLogged`, `PublishReturns` |
| `Stations` | two streams, four file contents (change, removal, port move, invalid) and an unreadable file, one listener, three saves or seized ports | `StoppedBeforeStarting`, `PagesMatch`, `NoLeakedConnection`, `UnchangedKeepRunning`, `Settles` |
| `Recordings` | a clip transcribed twice, the first log line failing, a file the archive sync brings, full and window index, two registrations | `IndexMatchesDisk`, `HistoryComplete` |
| `LiveFeed` | two listeners, two frames, queues of one, one abandoned handler at a time, one reload of the origin that touches the stream and a restart of the origin | `NoSendOnClosed`, `OneFeed`, `KeepsPromise` (the refinement), `ListenerFed`, `IdleFeedStops` |
| `Uplink` | one stream under two definitions or none, three connections, two reloads or restarts | `NoIdleConnection`, `StaysWhileOffline`, `Mirrors` |
| `Archive` | two folders, one recording, two rows, one fault | `WholeStays`, `Converges` |
| `ArchiveRows` (violation) | the same without faults | `NoRowLost` |
| `Analytics` | three days of two ticks, switched on in the middle of the first; one client, a recording from before and one made since, two calls, two starts, and one fault of any kind | `RestartSame`, `CountedOnce`, `AllCounted`, `VisitorsOnce` |

Why the bounds are enough. Two servers are the smallest pool with
`backfillSlots` and with a wakeup that can go to the wrong worker; two entries
waiting suffice for an overtaking, a promotion and a duplicate at once. Seven
packets reach the cap twice with a late callback left over. A third port adds a
second suppressed transmission to a first. Three events at capacity two fill a
channel with one publisher on its way. Two streams and the four contents reach
every branch of `applyStreams`, with a port handed from one stream to the other
and one held by another program. Two registrations of an entry are what it takes
to publish into one that was forgotten (with one transcript of each of the two
files, `Often` changed to 1 and 1, the properties of `Recordings` hold as well). Two
listeners are what it takes for joins and leaves to coalesce while the linger
timer runs; queues of one frame fill at once, and a second frame shows an order.
One reload that changes the stream has every 404 that comes before the list tells
of it, the old station's handlers beside the new one's, and a later restart of the
origin ends the ID for good.
A third connection lets two late upgrades be attached in either order beside the
one in use, and two changes let an answer be read from one process of the origin
and applied beside the next. Two folders and one recording have every pair of
versions a pass can compare; the properties of `Archive` also hold with three
folders and one row. Two ticks a day and a first start on the second make a
partial first day, a whole one and one after pruning (`Retention = 1`); the run
has 2.7 million states and takes over two minutes, and its properties hold as well with
`MaxStarts = 3` and one call, and with two recordings and no client. That second recording
is what the exception of `CountedOnce` takes: a transmission that is written and
tells the cutoff, after one that is not. The two calls of the run are less than two
resets with a transcription between them; the proofs of section 5 have no bounds. Each bound is a constant named in its
module: `MaxWaiting`, `MaxPackets`, `MaxEvents`, `MaxEdits`, `MaxGens`, `MaxFrames`,
`MaxOrphans`, `MaxReloads`, `MaxConns`, `MaxChanges`, `MaxFaults`, `Rows`, `Horizon`, `MaxStarts`,
`MaxCalls`.
`CHECK_DEADLOCK FALSE` stands where the instance can really stop: a closed
pool, a process that has exited, pages that have gone, bounds used up.

Instances are not symmetric: servers, clips and streams differ in range, size or
definition, so no symmetry sets are used.

### Fairness

* `WhisperPool`: every worker takes its steps (requests end at `TimeoutMs`),
  health checks and the clock go on. Submissions, failures, recoveries and
  `Close` are not assumed; workers race fairly as goroutines do.
* `Recorder`: the clock, the runtime's timers and callbacks of fired timers.
* `Multicast`: readers return from ReadFrom (100 ms deadline) and `Close` goes on.
  No packet is assumed and the consumer may never read.
* `Hub`: only publishers. A page's handler may be stuck for good.
* `Stations`: the ticker ticks, goroutines run, a station's goroutine ends once
  cancelled, as its socket is closed. Saves and other programs are not assumed.
* `LiveFeed`: goroutines run, timers fire, and pings find a dead link (the uplink
  pings every few seconds and closes on silence), and a reload that has unlisted a
  station goes on to its end and to the new list. That a reload or a restart comes
  at all is not assumed, nor anything of listeners, of the radio or of the link's return: `ListenerFed` says what follows when a
  listener stays and the link is up for good, with finitely many reloads.
* `Uplink`: goroutines and timers, and `runUplink`, which redials for ever. The
  network may break any connection and the origin change at any time; `Mirrors`
  says what follows once a connection lasts.
* `Archive`: passes follow one another (the ticker), time passes, a write that
  has begun ends. Saves, rows and faults are not assumed; all are bounded.

## 4. Violations found

The run `ArchiveRows`, with the quoted text under "findings" in `PROJECT.json`.
`scanArchiveDir` leaves out files younger than five seconds, because a save may
still be writing them, and `syncArchives` takes a file that its scan left out for
a missing one. A row is appended to `transcripts.csv` in the primary folder and
copied to a backup; more rows follow, and within five seconds of the last one a
pass scans: the primary's file is too young, the backup's is the only version
left, and it is copied over the primary's. The rows since the backup's copy are
lost, without any fault. Recordings are safe from this (`WholeStays`), since a WAV
that is too young is either still being written or as large as any copy.

### Known divergences

Properties stated in the modules that no run holds. TLC refutes each; to see the
trace, put the property in the configuration named, with the change named.

* `WakeupReachesServer` (`WhisperPool`; as PROPERTY in `WhisperPoolLive.cfg`
  with `Covers <- SplitRanges`). Tokens of `signal` are not addressed: a worker
  whose range excludes the clip can take them all before the one that covers it
  reaches its select, and the clip waits for the next submission.
* `NeverQueuedTwice` (`WhisperPool`; as INVARIANT in `WhisperPoolSafety.cfg`).
  Between `finishJob` and `requeueFront` a clip can be submitted again, and both
  entries wait.
* `SentToAllSubscribers` (`Hub`; as INVARIANT in `Hub.cfg` with `BufCap = 1`).
  Publish sends outside the lock on channels that `unsubscribe` may have closed,
  and panics.
* `StoppedDisconnects` (`Listeners`; as PROPERTY in `Stations.cfg`, `MaxEdits = 1`).
  An offer that looked its station up before a reload is added after the reload has
  disconnected the subscribers.
* `OwnSessionEnds` (`Listeners`; as INVARIANT in `Stations.cfg`, `MaxEdits = 1` and
  two listeners). Peer IDs repeat after a stream is restarted under its ID.
* `PeakSame` (`Analytics`; as INVARIANT in `Analytics.cfg`). `analytics.go:576` has
  live and replayed totals always agree; a day that begins with listeners connected
  starts its peak from them, its replay starts from none.
* The exceptions of `RestartSame`, `CountedOnce`, `AllCounted` and `VisitorsOnce`. TLC refutes
  each without its exceptions (`CountedOnce` with two recordings and no client).
  `appendLocked` counts an event that it could not write (`analytics.go:547`): the
  totals that show it lose it at a restart, unless its day has been saved by then.
  If the day has, a transmission so lost may begin before the first one on record, and a
  scan that is asked for later takes that one for the cutoff and counts the recording again.
  If the day's raw file tells of no transmission, because none was written or it has
  been pruned, the cutoff is the day's beginning, and recordings of that day from before
  the first live one are counted nowhere. `rotateSaltLocked` goes on with a salt that it could not write
  (`analytics.go:490`): after a restart that day's visitors are counted again. A
  recording the scan could not read is left out of the saved result for good; a scan
  that failed as a whole (`radio_archive.go:96`) leaves the archive uncounted until the next start.
* `NeverTwice` (`Analytics`; as INVARIANT in `Analytics.cfg`). A recording in
  progress at midnight is counted live on the day it ends and filed under the
  day it began, where a scan that is asked for again finds it before the cutoff.
* `NothingStranded` (`WhisperPool`; as PROPERTY in `WhisperPoolLive.cfg`
  with `Covers <- SplitRanges`). When a server goes down its range becomes open to the others, but `setReady` signals
  nobody: a clip waits beside a parked worker that may now take it, until some
  other submission. `whisper.go` says of RemoteClipRanges that any server takes a
  clip no ready server covers.
* `BulkStaysLow` (`WhisperPool`; as INVARIANT in `WhisperPoolSafety.cfg` with
  `Live = {}`, `Bulk = {short}`). A bulk request that is retried re-enters at the
  head of the live queue, urgent; `README.md:425` has bulk jobs behind live ones.
* `ClipEndsOnGap` (`Recorder`; as PROPERTY in `Recorder.cfg`). A callback that
  waits for `r.mu` finishes a recording a packet has just extended, so a clip may
  end without a gap. No packet is lost (`NothingLost`).
* `Settles` with `EditsDuringLoad = TRUE` (`Stations.cfg`). `load` is a third
  read of the file (`streams_reload.go:515`); a save in between is applied, or
  rejected, under the hash of the older content. If it is rejected and the older
  content comes back, that content is not applied again.
* `EveryWavListed` (`Recordings`; as INVARIANT in `Recordings.cfg`).
  `hub.go:319` says history returns every WAV present in the archive; a file the
  archive sync restores is unknown to a ready index until a restart.
* `IndexMatchesDisk` without its exemption of `raced`: a clip that is being
  transcribed may be submitted again, and of two transcripts published at once
  the log may keep one and the index the other. `recording_index.go:66` says the
  index remembers the latest line.

Smaller facts met on the way, of which no property speaks:

* A join and a leave that coalesce into one token of `subsChanged` leave a linger
  timer running that an earlier leave armed, so a feed may end sooner after the
  last leave than `feedLingerSeconds` (`LiveFeed`). It is started again by the
  next listener (`ListenerFed`).
* A late attach of an older connection may displace the one in use; the newer is
  closed and the origin redials (`Uplink`, `NoIdleConnection`).
* Events the hub publishes while the relay is not subscribed are not replayed to
  the edge's pages; they get them from history when they load again.
* An edge lists and starts the new station of a changed stream before it stops
  the old one. `PagesMatch` and `StoppedBeforeStarting` are about the origin.
* Two files of equal size and different content are never reconciled by the
  archive sync, and `WholeStays` is a promise under one fault: with three folders
  and two faults a copy that was cut short can be the only one an old scan knows.

## 5. What is proved

For every value of the constants that meets the modules' named assumptions; 39
theorems in eight modules, listed in `PROJECT.json`. Each proof has the form of an
inductive invariant, with a lemma per action or family of actions, and a last
temporal step.

* `WhisperPool`: `TypeOK`, `NoClipLost`, `RefusedOnlyIfWaiting`. The inductive
  invariant `PoolInv` is their conjunction, and none of them is inductive alone:
  a refused submission leaves the queues as they are, so `NoClipLost` needs
  `RefusedOnlyIfWaiting` to know that the WAV is waiting; and both need `TypeOK`'s
  clause that a worker holds a job exactly while it works on one, since a job
  moves from a queue to a hand and back. `CountersMatch` and
  `BackfillLeavesServer` follow from `CountInv`: a job that starts or ends moves
  one worker into or out of a set whose cardinality the counter is.
  `NoLostWakeup` is proved under the hypothesis `NoRanges` (every server takes
  every length): with ranges the code does not promise it, see
  `WakeupReachesServer`.
* `Recorder`: `RecorderTypeOK`, `NothingLost`, `OpenClipHasTimer`,
  `OverdueOnlyWhileWaiting`. `RecorderInv` adds to them what the proof of
  `NothingLost` needs of concatenation, as lemmas on sequences.
* `Multicast`: `TypeOK`, `NewestIsActive` and the action property
  `OlderStaysSuppressed`. `ListenerInv` ties what the code remembers
  (`quiet`) to what really happened (`silence`): they agree because a suppressed
  packet counts as activity of its port.
* `Archive`: the action property `WholeStays`, and the types (`ArchiveTypeOK`), both
  under the hypothesis `MaxFaults \in 0..1`: `WholeStays` is a promise under one fault
  (section 4), and the types are a part of its invariant. `WholeStays` says nothing
  of what a pass may do with the copy it holds, so `ArchiveInv` follows every
  recording through its stages: not handed to the worker yet (`Fresh`), being written
  to the primary (`Starting`), never whole anywhere (`Doomed`), or whole in the
  primary once (`Kept`). Of a kept recording it says that what a scan has noted of a
  whole copy stays true unless the copy is lost (`Settled`); that a copy cut short
  has an older whole one in the primary, which a pass notes before it (`Backed`); and
  that a file in a folder the worker has still to come to is a copy of one in a
  folder before it (`Copied`). Then the best copy a pass knows is a whole one
  (`BestSettled`), although files are written, renamed over and lost between the
  scan and the copy. `Backed` speaks of the whole pass:
  of its scan alone it is true but not inductive, since nothing would keep a rename
  into the primary from making it younger than the copy cut short.
* `Hub`: `TypeOK`, `CausalOrder`, `ShownIsLogged`, `DeliveredOrDropped`. `HubInv`
  says of each Publish what it has done and has still to do (`Calls`) and that an
  event nobody has published yet is nowhere (`Fresh`); without `Fresh` an event
  could come before one it follows. `Recorded` says which steps of a Publish have
  left their trace in log and index. `NoGap` relates each Publish to the
  subscribers it copied: each has the event, is still to be sent it, is being
  dropped, or is gone.
* `Stations`: `TypeOK`, `NoLeakedConnection`, `StoppedBeforeStarting`, `PagesMatch`
  and the action property `UnchangedKeepRunning`. `ListenerInv` adds to the types
  that an offer has no connection before addSubscriber. `Accounted` says that a
  station holds its port only while it is listed or the watcher waits for its end,
  and that those it waits for are not wanted as they are; `Pages` says what the
  list under construction has of the streams already come to.
* `LiveFeed`: `TypeOK`, `OneFeed`, `NoSendOnClosed`, and `Spec => KeepsPromise`, the
  refinement. `Supervised` ties each feed goroutine to what the supervisor
  remembers of it: only the current feed runs, and none once it closes the
  channel. `RelayInv` says that the frames on their way (tap, wire, hand,
  channel) are in order and later than any a listener has heard; with it every
  step of the relay is one of `LiveAudio` or a stutter.
* `Uplink`: `TypeOK`, `NoIdleConnection`, `StaysWhileOffline`. `Learnt` says that a
  list the edge has read, or a station it has, was the origin's: what it lacks
  later has been withdrawn.
* `Recordings`: `TypeOK`, `IndexMatchesDisk`, `HistoryComplete`. `PublishInv` says of
  each transcript how far its Publish is; `IndexInv` says, of every clip and at every step of
  the build, where what the index lacks of the disk is still to come from: the
  directory or the log the build has read, an event it holds back (`pending`), or a publisher
  that has not reached the index yet. `IndexMatchesDisk` alone says nothing before
  the swap. Events held back are replayed in order, and what a replay leaves is
  proved by induction over their number. `RequestInv` says that what was published
  when a request began (`due`) is in what the request has read, wherever it stands.
* `Analytics`: `TypeOK`, `RestartSame`, `CountedOnce`, `AllCounted`, `VisitorsOnce`. A
  replay folds every event of every file, so `RestartSame` is not inductive: after
  an event nothing relates the old fold to the new. The invariant `IInv` says that
  there is a book, of the events of every day, with which everything agrees
  (`Inv(bk)`). The totals in memory and those that are saved are counts over it (`TotalsOK`,
  `DailyOK`, `Agrees`); the raw files have nothing else, and lack of it only what could not be
  written, or whole days that are saved (`RawOK`). An event makes the book longer,
  whether it is written or not; the end of the process shortens it to what is on
  disk (`LeftBook`); a start finds it there (`LoadedBooks`). That a replay
  computes the counts is `FoldedFacts` for one file and `ReplayedFacts` for all, by induction
  over events and over days. `VisitorsInv` has one salt for each day whose salt was written,
  so that names stand for clients; `ClipsInv` ties recordings to the events that
  count them; `RadioInv` says that while a scan goes on its cutoff separates the
  recordings of the archive from those counted live on the day they began.

Of the type invariants only that of `Hub` is also an invariant of a run; the
others that are proved here are not checked again.

Induction over numbers is by the least number of a set of counterexamples
(`LeastNumber`, `UpTo`), which follows from the library's theorem on well-founded
relations: the induction theorems themselves take an operator as a parameter,
which the provers cannot instantiate. For it, folds that are reasoned about are
recursive functions (`Folded` and `Replayed` in `Analytics`), and `apply` is written as
two operators, of a day's totals and of the number of listeners.

Only model-checked: all liveness (`EveryClipAnswered`, `BulkDrains`,
`EveryClipEnds`, `CloseFinishes`, `PublishReturns`, `Settles`, `ListenerFed`,
`IdleFeedStops`, `Mirrors`, `Converges`), since the prover handles neither fairness
nor ENABLED.

## 6. Abstractions, and what is not modelled

* Audio, text, wording and file formats are left out; a clip has a size and an
  identity. A transcription attempt has three outcomes: an end (text, none or a
  final error), an unreachable server, or no end yet.
* In `Recordings` WAV names are distinct, the log is the latest transcript line
  of each WAV, and a scan can read the log; legacy lines matched by clip ID and
  events whose WAV is missing are left out. The startup build takes its list of
  streams before the first reload, which needs two polls.
* In `Stations` aggregates, secrets and the settings fingerprint, which only
  logs, are left out.
* In `LiveFeed` the number of abandoned handlers is bounded, frames are numbers,
  and the answer of the origin is a frame stream or a 404. Which subscribers are
  ready is open at each frame, since a connection may come up or go at any moment. `cachedUpstream` is left
  out: it holds its entry's lock while it fetches (`edge.go:733`), so requests for
  one answer follow each other. So are tokens, health, the reverse proxy and
  proxies on the way out.
* In `Uplink` a request either is answered through its connection or fails with
  it; the network may break a connection at any step.
* In `Archive` modification times are the order of writes, and clocks of folders
  agree. A write takes less than the five seconds a scan leaves out, as
  `archive_sync.go` assumes. `LoseFile` does not take the file being saved.
* In `Analytics` of a day's totals those are kept that a restart could get wrong;
  countries, browsers, airtime per hour, the middlewares and the CSV exports are
  left out. A write that fails leaves nothing behind: no torn line in a raw file, no
  half of a daily file. The store can read its own files at a start. A reset whose
  marker cannot be written is refused and changes nothing, so it is no step. A
  `radio_archive.json` that cannot be read is as one that was deleted (`Recount`).
  The process stops between steps. `VisitorsOnce` counts a session that crosses midnight under its
  old name a second time, as the code does.
* The backfill's scan and its lists are left out: `WhisperPool` has its
  submissions, at any time and of any archived clip, and its slots. So are the
  bounded queue between recorder and clip workers, the order in which
  corrections are published, and of the hub the debug page and the parsing of
  history.
* Not modelled: the parts marked so in `PROJECT.json`, with the reason: they are
  pure functions of their input (text filters, aggregates, units), read-only
  views, diagnostics, browser code or tools that run elsewhere.

## 7. What is left

Worth adding next, in this order:

1. `ClipPipeline`: recorder, bounded clip queue, four workers and pool; composes
   `Recorder` with an abstract pool. Abstract specification of the pool: a set of
   clips owed an answer, implemented by `WhisperPool`.
2. `Backfill`, over the abstract pool: the pending list, which may be an hour older
   than the log, and the attempted set.
3. Corrections: append under the lock, publication outside it.
4. Pure algorithms (aggregates, organisational units, CSR, filters) against
   reference definitions.
