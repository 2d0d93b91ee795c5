------------------------------ MODULE Recordings ------------------------------
(***************************************************************************)
(* The recordings of one stream: the WAV files and the transcript log on   *)
(* disk, the recording index built from them in the background             *)
(* (recording_index.go), the clip workers and whisper workers that publish *)
(* to both (main.go, hub.go), and a listener's history requests, which the *)
(* index answers if it can and a scan of the folder answers if it cannot.  *)
(*                                                                         *)
(* An event is a pair of a WAV and a number: 0 for its "clip" event, t for *)
(* its t-th transcript.  Publishing one takes three steps: the line in the *)
(* log, the lookup of the stream's entry, and the update under the entry's *)
(* lock.  An entry that was forgotten is reached by nobody who looks it up *)
(* later, so only the registered entry is kept, with its generation.       *)
(***************************************************************************)
EXTENDS Integers, Sequences

CONSTANTS
    Wavs,          \* recordings of the stream
    Texts,         \* Texts[w]: how often w may be transcribed
    Modes,         \* recordingIndex.mode: "full", "lean" or "window"
    Restorable,    \* WAVs of earlier runs that are left in a backup folder only
    Unwritable,    \* events whose log line fails to be written
    MaxGens        \* bound: entries registered, by start, restart or reload

Events == UNION {{w} \X (0..Texts[w]) : w \in Wavs}
TextNumbers == {e[2] : e \in Events}
Absent == -1
Content == TextNumbers \cup {Absent}

ASSUME RecordingsAssumption ==
    /\ Texts \in [Wavs -> Nat]
    /\ Modes \subseteq {"full", "lean", "window"}
    /\ Restorable \subseteq Wavs
    /\ Unwritable \subseteq Events
    /\ MaxGens \in Nat \ {0}

VARIABLES
    disk,        \* WAVs in the stream's folder
    logged,      \* the latest transcript line of each WAV in the log, 0 for none
    old,         \* WAVs beyond the window
    mode,        \* idx.mode
    task,        \* where the publication of each event is
    found,       \* the entry it looked up
    gen,         \* the generation of idx.streams[key], 0 for none
    made,        \* generations so far
    ready,       \* its s.ready
    recs,        \* its s.recs: the text of each WAV, 0 for none yet
    pending,     \* its s.pending
    build,       \* where the goroutine that builds it is
    lines, names,\* what that goroutine has read of the log and kept of the folder
    rpc,         \* where the history request is
    since,       \* the range it asks for: "all" or "recent"
    rlog,        \* what it has read of the log
    answer,      \* what it has been told of each WAV
    due,         \* history: the least it had to be told
    raced,       \* history: WAVs two transcripts of which were published at once
    restored,    \* history: WAVs the archive sync brought
    blind        \* history: some build could not read the log

storeVars == <<disk, logged, old, mode, restored>>
taskVars == <<task, found, raced>>
buildVars == <<build, lines, names, blind>>
indexVars == <<gen, made, ready, recs, pending>>
requestVars == <<rpc, since, rlog, answer, due>>
vars == <<storeVars, taskVars, buildVars, indexVars, requestVars>>

-----------------------------------------------------------------------------
(* The index.                                                              *)

\* cutoff: only a window index leaves old recordings out.
Beyond(w) == mode = "window" /\ w \in old

\* apply: the recording is inserted if it is new, and takes the event's text
\* where the mode needs no log line for it or the line was written.
Applied(r, e) ==
    LET w == e[1]
        text == IF e[2] # 0 /\ (mode = "full" \/ e \notin Unwritable) THEN e[2] ELSE 0 IN
    IF r[w] = Absent /\ Beyond(w) THEN r
    ELSE [r EXCEPT ![w] = IF text # 0 THEN text ELSE IF @ = Absent THEN 0 ELSE @]

\* What a build makes of the names and lines it has read.
Scanned == [w \in Wavs |-> IF w \in names THEN lines[w] ELSE Absent]

\* The recordings once these events have been applied in turn.
Replayed(r, events) ==
    LET after[n \in 0..Len(events)] == IF n = 0 THEN r ELSE Applied(after[n - 1], events[n])
    IN after[Len(events)]

\* prune: old recordings leave a window index, at most hourly.
Pruned(r) == [w \in Wavs |-> IF Beyond(w) THEN Absent ELSE r[w]]

NewEntry(g) ==
    /\ gen' = g
    /\ ready' = FALSE /\ pending' = <<>>
    /\ recs' = [w \in Wavs |-> Absent]
    /\ build' = IF g = 0 THEN "none" ELSE "log"
    /\ lines' = [w \in Wavs |-> 0] /\ names' = {}

-----------------------------------------------------------------------------
(* buildStream.                                                            *)

\* readLog; an error is logged and the build goes on without texts.
ReadLines ==
    /\ build = "log"
    /\ build' = "dir"
    /\ \/ lines' = logged /\ UNCHANGED blind
       \/ lines' = [w \in Wavs |-> 0] /\ blind' = TRUE
    /\ UNCHANGED <<storeVars, taskVars, names, indexVars, requestVars>>

\* ReadDir, and at once the cutoff; an error ends the build.
ReadNames ==
    /\ build = "dir"
    /\ \/ build' = "swap" /\ names' = {w \in disk : ~ Beyond(w)}
       \/ build' = "failed" /\ UNCHANGED names
    /\ UNCHANGED <<storeVars, taskVars, lines, blind, indexVars, requestVars>>

\* Mutant of Swap: the events that came meanwhile are not replayed.
SwapOnly ==
    /\ build = "swap"
    /\ build' = "done"
    /\ recs' = Scanned
    /\ pending' = <<>> /\ ready' = TRUE
    /\ lines' = [w \in Wavs |-> 0] /\ names' = {}
    /\ UNCHANGED <<storeVars, taskVars, blind, gen, made, requestVars>>

\* Under s.mu: the new recordings, the pending events, ready.
Swap ==
    /\ build = "swap"
    /\ build' = "done"
    /\ recs' = Replayed(Scanned, pending)
    /\ pending' = <<>> /\ ready' = TRUE
    /\ lines' = [w \in Wavs |-> 0] /\ names' = {}
    /\ UNCHANGED <<storeVars, taskVars, blind, gen, made, requestVars>>

\* A reload removes the stream, or starts it again.
Forget ==
    /\ gen # 0
    /\ NewEntry(0)
    /\ UNCHANGED <<storeVars, taskVars, blind, made, requestVars>>

Track ==
    /\ gen = 0 /\ made < MaxGens
    /\ NewEntry(made + 1) /\ made' = made + 1
    /\ UNCHANGED <<storeVars, taskVars, blind, requestVars>>

-----------------------------------------------------------------------------
(* Publishing.                                                             *)

InFlight == {"log", "lookup", "apply"}

Publishing(w) == \E e \in Events : e[1] = w /\ task[e] \in InFlight

\* A clip worker has written the WAV and goes on to publish the clip.
Save(w) ==
    /\ w \notin disk \cup Restorable
    /\ disk' = disk \cup {w}
    /\ task' = [task EXCEPT ![<<w, 0>>] = "log"]
    /\ UNCHANGED <<logged, old, mode, restored, found, raced, buildVars, indexVars, requestVars>>

\* The archive sync copies a WAV into the folder; nobody is told.
Restore(w) ==
    /\ w \in Restorable \ disk
    /\ disk' = disk \cup {w} /\ restored' = restored \cup {w}
    /\ UNCHANGED <<logged, old, mode, taskVars, buildVars, indexVars, requestVars>>

\* A whisper worker publishes the next transcript of a WAV.
Transcribe(w, t) ==
    /\ w \in disk
    /\ t \in 1..Texts[w] /\ task[<<w, t>>] = "none"
    /\ \A u \in 1..(t - 1) : task[<<w, u>>] # "none"
    /\ task' = [task EXCEPT ![<<w, t>>] = "log"]
    /\ raced' = IF \E u \in 1..(t - 1) : task[<<w, u>>] \in InFlight THEN raced \cup {w} ELSE raced
    /\ UNCHANGED <<storeVars, found, buildVars, indexVars, requestVars>>

\* appendLog.
AppendLog(e) ==
    /\ task[e] = "log"
    /\ task' = [task EXCEPT ![e] = "lookup"]
    /\ logged' = IF e[2] # 0 /\ e \notin Unwritable THEN [logged EXCEPT ![e[1]] = e[2]] ELSE logged
    /\ UNCHANGED <<disk, old, mode, restored, found, raced, buildVars, indexVars, requestVars>>

\* observe looks the stream up; an event of a stream without entry is dropped.
Lookup(e) ==
    /\ task[e] = "lookup"
    /\ found' = [found EXCEPT ![e] = gen]
    /\ task' = [task EXCEPT ![e] = IF gen = 0 THEN "done" ELSE "apply"]
    /\ UNCHANGED <<storeVars, raced, buildVars, indexVars, requestVars>>

\* Mutant of Observe: an event that comes before the entry is ready is applied.
ObserveAtOnce(e) ==
    /\ task[e] = "apply"
    /\ task' = [task EXCEPT ![e] = "done"]
    /\ found' = [found EXCEPT ![e] = 0]
    /\ IF found[e] # gen THEN UNCHANGED <<recs, pending>>
       ELSE recs' = Applied(recs, e) /\ UNCHANGED pending
    /\ UNCHANGED <<storeVars, raced, buildVars, gen, made, ready, requestVars>>

\* The update of the entry found, or of one forgotten since.
Observe(e) ==
    /\ task[e] = "apply"
    /\ task' = [task EXCEPT ![e] = "done"]
    /\ found' = [found EXCEPT ![e] = 0]
    /\ IF found[e] # gen THEN UNCHANGED <<recs, pending>>
       ELSE IF ready
       THEN recs' \in {Applied(recs, e), Pruned(Applied(recs, e))} /\ UNCHANGED pending
       ELSE pending' = Append(pending, e) /\ UNCHANGED recs
    /\ UNCHANGED <<storeVars, raced, buildVars, gen, made, ready, requestVars>>

-----------------------------------------------------------------------------
(* RecordingHistory.                                                       *)

\* The latest published and logged content of w, Absent if not even its clip
\* event has been published.
Published(w) ==
    LET Done == {e \in Events \ Unwritable : e[1] = w /\ task[e] = "done"} IN
    IF Done = {} THEN Absent ELSE CHOOSE t \in TextNumbers : <<w, t>> \in Done /\ \A e \in Done : e[2] <= t

Request(range) ==
    /\ rpc \in {"idle", "answered"}
    /\ rpc' = "index" /\ since' = range
    /\ due' = [w \in Wavs |-> Published(w)]
    /\ answer' = [w \in Wavs |-> Absent]
    /\ UNCHANGED <<storeVars, taskVars, buildVars, indexVars, rlog>>

\* What of r lies in the range asked for.
InRange(r) == [w \in Wavs |-> IF since = "recent" /\ w \in old THEN Absent ELSE r[w]]

\* Mutant of CanAnswer: an entry that is being built answers too.
CanAnswerEarly == gen # 0 /\ ~ (mode = "window" /\ since = "all")

CanAnswer == gen # 0 /\ ready /\ ~ (mode = "window" /\ since = "all")

FromIndex ==
    /\ rpc = "index" /\ CanAnswer
    /\ rpc' = "answered"
    /\ answer' = InRange(recs)
    /\ UNCHANGED <<storeVars, taskVars, buildVars, indexVars, since, rlog, due>>

\* History reads the log, then scanStreamRecordings the folder.
ScanLog ==
    /\ rpc = "index" /\ ~ CanAnswer
    /\ rpc' = "dir"
    /\ rlog' = logged
    /\ UNCHANGED <<storeVars, taskVars, buildVars, indexVars, since, answer, due>>

ScanDir ==
    /\ rpc = "dir"
    /\ rpc' = "answered"
    /\ answer' = InRange([w \in Wavs |-> IF w \in disk THEN rlog[w] ELSE Absent])
    /\ rlog' = [w \in Wavs |-> 0]
    /\ UNCHANGED <<storeVars, taskVars, buildVars, indexVars, since, due>>

-----------------------------------------------------------------------------
\* Memory is lost, with the publications and the request under way; the
\* stream is registered and its build starts again.
Restart ==
    /\ made < MaxGens
    /\ NewEntry(made + 1) /\ made' = made + 1
    /\ task' = [e \in Events |-> IF task[e] \in InFlight THEN "lost" ELSE task[e]]
    /\ found' = [e \in Events |-> 0]
    /\ rpc' = "idle" /\ rlog' = [w \in Wavs |-> 0]
    /\ UNCHANGED <<storeVars, raced, blind, since, answer, due>>

\* Time passes; it matters to a window index only.
AgeOut(w) ==
    /\ mode = "window" /\ w \in disk \ old
    /\ old' = old \cup {w}
    /\ UNCHANGED <<disk, logged, mode, restored, taskVars, buildVars, indexVars, requestVars>>

Init ==
    /\ disk = {} /\ logged = [w \in Wavs |-> 0] /\ old = {} /\ mode \in Modes /\ restored = {}
    /\ task = [e \in Events |-> "none"] /\ found = [e \in Events |-> 0] /\ raced = {}
    /\ gen = 1 /\ made = 1 /\ ready = FALSE /\ pending = <<>>
    /\ recs = [w \in Wavs |-> Absent]
    /\ build = "log" /\ lines = [w \in Wavs |-> 0] /\ names = {} /\ blind = FALSE
    /\ rpc = "idle" /\ since = "all" /\ rlog = [w \in Wavs |-> 0]
    /\ answer = [w \in Wavs |-> Absent] /\ due = [w \in Wavs |-> Absent]

Publish(e) == AppendLog(e) \/ Lookup(e) \/ Observe(e)

Recording(w) == Save(w) \/ Restore(w) \/ AgeOut(w) \/ \E t \in TextNumbers : Transcribe(w, t)

Next ==
    \/ \E w \in Wavs : Recording(w)
    \/ \E e \in Events : Publish(e)
    \/ ReadLines \/ ReadNames \/ Swap
    \/ Forget \/ Track \/ Restart
    \/ \E range \in {"all", "recent"} : Request(range)
    \/ FromIndex \/ ScanLog \/ ScanDir

Spec == Init /\ [][Next]_vars
-----------------------------------------------------------------------------
(* Properties.                                                             *)

\* Types; an entry holds back events only until it is ready, and knows no
\* recording that is not on disk.
TypeOK ==
    /\ disk \subseteq Wavs /\ logged \in [Wavs -> TextNumbers] /\ old \subseteq disk
    /\ mode \in Modes /\ restored \subseteq disk /\ blind \in BOOLEAN
    /\ task \in [Events -> InFlight \cup {"none", "done", "lost"}]
    /\ found \in [Events -> 0..MaxGens] /\ raced \subseteq Wavs
    /\ gen \in 0..made /\ made \in 1..MaxGens
    /\ ready \in BOOLEAN /\ recs \in [Wavs -> Content] /\ pending \in Seq(Events)
    /\ build \in {"none", "log", "dir", "swap", "failed", "done"}
    /\ lines \in [Wavs -> TextNumbers] /\ names \subseteq disk
    /\ rpc \in {"idle", "index", "dir", "answered"} /\ since \in {"all", "recent"}
    /\ rlog \in [Wavs -> TextNumbers]
    /\ answer \in [Wavs -> Content] /\ due \in [Wavs -> Content]
    /\ ready <=> build = "done"
    /\ ready => pending = <<>>
    /\ ~ ready => recs = [w \in Wavs |-> Absent]
    /\ \A w \in Wavs : recs[w] # Absent => w \in disk

\* The text w has in the index is the one a rebuild would read from the log,
\* unless that log line, or some build's reading of the log, failed.
LatestText(w) ==
    \/ recs[w] = logged[w]
    \/ mode = "full" /\ recs[w] # 0 /\ <<w, recs[w]>> \in Unwritable
    \/ blind /\ recs[w] = 0

\* While nothing of a recording is being published, the index holds of it what
\* a rebuild would, so that a restart changes nothing pages show.  Exempt are
\* texts of a recording that was transcribed twice at once, and recordings the
\* archive sync brought, which may be missing.
IndexMatchesDisk ==
    ready => \A w \in disk : ~ Publishing(w) =>
        /\ recs[w] = Absent => Beyond(w) \/ w \in restored
        /\ recs[w] # Absent /\ w \notin raced => LatestText(w)

\* A history request shows every recording and text whose publication was over
\* when the request came, whether the index or a scan answers it, and whatever
\* reload, build or restart went on before or meanwhile.
HistoryComplete ==
    rpc = "answered" => \A w \in Wavs :
        \/ since = "recent" /\ w \in old
        \/ answer[w] >= due[w]
        \/ (w \in raced \/ blind) /\ answer[w] >= 0

\* The comment on RecordingHistory: it returns every WAV present in the
\* archive.  One restored by the archive sync is missing until a restart.
EveryWavListed == ready => \A w \in restored : recs[w] # Absent \/ Beyond(w)
=============================================================================
