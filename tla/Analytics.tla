----------------------------- MODULE Analytics -----------------------------
(***************************************************************************)
(* The analytics store (analytics.go) and the radio archive                *)
(* (radio_archive.go): events appended to a raw file per day and folded    *)
(* into totals in memory, totals saved when their day is over, raw files   *)
(* pruned, everything rebuilt at a start, and the recordings from before   *)
(* live counting counted from the archive.                                 *)
(*                                                                         *)
(* Time is counted in ticks, DayLen of them to a day.  Every handler runs  *)
(* under a.mu and is one step.  Of a day's totals the model keeps those    *)
(* that a restart could get wrong: visitors, sessions, transmissions and   *)
(* transcriptions.                                                         *)
(***************************************************************************)
EXTENDS Integers, Sequences, FiniteSetsExt, Functions

CONSTANTS
    Clients,     \* listeners, by address and browser
    OldClips,    \* recordings in the archive before analytics is switched on
    Clips,       \* recordings made since
    DayLen,      \* ticks in a day
    Opened,      \* the tick of the first start
    Retention,   \* RetentionDays
    Horizon,     \* bound: the last tick
    MaxStarts,   \* bound: starts of the process
    MaxCalls,    \* bound: requests, offers, transcriptions, resets and recordings begun
    MaxFaults    \* bound: writes, deletions and scans that failed

ASSUME AnalyticsAssumption ==
    /\ DayLen \in Nat \ {0} /\ Opened \in Nat /\ Retention \in Nat \ {0}
    /\ Horizon \in Nat /\ MaxStarts \in Nat /\ MaxCalls \in Nat /\ MaxFaults \in Nat
    /\ OldClips \cap Clips = {}

None == -1
Failed == -2

VARIABLES
    now,          \* the clock
    starts,       \* starts so far
    running,      \* the process runs
    \* On disk.
    raw,          \* events/DATE.jsonl: [days with a file -> sequence of events]
    daily,        \* daily/DATE.json: [days with a file -> totals]
    saltFile,     \* salt.json: [date, salt]
    radioFile,    \* radio_archive.json: [made, clips]
    wavs,         \* recordings in the audio archive
    reset,        \* transcription_reset.json, and txResetAt: the marker's day, and
                  \* how many transcriptions there had been
    \* In memory.
    days,         \* a.days: [days -> totals]
    today,        \* a.today
    fileDate,     \* the day of the open raw file, or None
    salt,         \* a.salt: no two salts drawn are equal
    concurrent,   \* a.concurrent
    session,      \* a.peers: [Clients -> "none" or a tracked peer]
    archive,      \* a.archive: the recordings counted from the archive
    scan,         \* the cutoff of a scan in progress, None, or Failed
    \* Elsewhere.
    clip,         \* [OldClips \cup Clips -> [at, start]]: how far a recording is
    done,         \* transcriptions so far, which tells their times apart
    calls,        \* requests, offers, transcriptions, resets and recordings begun so far
    faults,       \* writes, deletions and scans that failed so far
    seenOn,       \* history: [days -> clients seen that day, each with the day it
                  \* sent the request, which a session can outlive]
    unwritten,    \* history: events that did not get into a raw file, each with
                  \* the start of the process it happened in
    unsalted,     \* history: days whose salt did not get into salt.json
    unread        \* history: recordings that the last scan could not read

disk == <<raw, daily, saltFile, radioFile, wavs, reset>>
memory == <<days, today, fileDate, salt, concurrent, session, archive, scan>>
history == <<seenOn, unwritten, unsalted, unread>>
vars == <<now, starts, running, disk, memory, clip, done, calls, faults, history>>

Day(t) == t \div DayLen
Today == Day(now)
NoDays == [d \in {} |-> 0]
NoSession == [at |-> "none", visitor |-> <<>>, on |-> None]

-----------------------------------------------------------------------------
(* Events and totals.                                                      *)

Event(t, type, visitor, what) == [t |-> t, type |-> type, visitor |-> visitor, what |-> what]

\* newDayAgg of dayLocked: a day begins with the listeners that are connected.
NewDay(listeners) ==
    [visitors |-> 0, seen |-> {}, listens |-> 0, ends |-> 0, tx |-> {}, peak |-> listeners,
     done |-> {}, since |-> {}]

Totals(ds, d, listeners) == IF d \in DOMAIN ds THEN ds[d] ELSE NewDay(listeners)

With(f, d, v) == [e \in DOMAIN f \cup {d} |-> IF e = d THEN v ELSE f[e]]

\* The visitor of an event is counted once a day.
Visited(day, ev) ==
    IF ev.visitor = <<>> \/ ev.visitor \in day.seen THEN day
    ELSE [day EXCEPT !.visitors = @ + 1, !.seen = @ \cup {ev.visitor}]

\* Mutant of AfterReset: the last transcription before the marker as well.
AfterResetToo(n) == reset.on # None /\ n >= reset.done

\* The event's time is not before the marker's.
AfterReset(n) == reset.on # None /\ n > reset.done

\* apply, of the day's totals ...
Totalled(total, ev, listeners) ==
    LET day == Visited(total, ev)
        up == listeners + 1
    IN CASE ev.type = "connected" ->
              [day EXCEPT !.listens = @ + 1, !.peak = IF up > @ THEN up ELSE @]
         [] ev.type = "end" -> [day EXCEPT !.ends = @ + 1]
         [] ev.type = "tx" -> [day EXCEPT !.tx = @ \cup {ev.what}]
         [] ev.type = "done" ->
              [day EXCEPT !.done = @ \cup {ev.what},
                          !.since = IF AfterReset(ev.what) THEN @ \cup {ev.what} ELSE @]
         [] OTHER -> day

\* ... and of the number of listeners.
Listening(n, ev) ==
    CASE ev.type = "start" -> 0
      [] ev.type = "connected" -> n + 1
      [] ev.type = "end" /\ n > 0 -> n - 1
      [] OTHER -> n

Apply(a, ev) ==
    [days |-> With(a.days, Day(ev.t),
                   Totalled(Totals(a.days, Day(ev.t), a.concurrent), ev, a.concurrent)),
     concurrent |-> Listening(a.concurrent, ev)]

\* The totals as saveDay writes them: the visitors' hashes are not kept.
Saved(day) == [day EXCEPT !.seen = {}]

\* So many things fail in a step.
Failing(n) == faults + n <= MaxFaults /\ faults' = faults + n

-----------------------------------------------------------------------------
(* Rolling over and appending.                                             *)

\* What can fail of an event: opening its day's file, the write to it, and with
\* the first event of a day saving the totals of the day before, and the salt.
Attempts ==
    {"write"} \cup (IF fileDate = Today THEN {} ELSE {"open"})
              \cup (IF today = Today THEN {} ELSE {"day", "salt"})

\* rolloverLocked, at whatever event or maintenance comes first on a new day:
\* the day that is over is saved and the salt replaced, in memory in any case.
RolledOver(fails) ==
    IF Today = today
    THEN [days |-> days, daily |-> daily, salt |-> salt, saltFile |-> saltFile,
          unsalted |-> unsalted]
    ELSE LET over == today \in DOMAIN days
             drawn == <<Today, starts>>
         IN [days |-> IF over THEN With(days, today, Saved(days[today])) ELSE days,
             daily |-> IF over /\ "day" \notin fails
                       THEN With(daily, today, Saved(days[today])) ELSE daily,
             salt |-> drawn,
             saltFile |-> IF "salt" \in fails THEN saltFile
                          ELSE [date |-> Today, salt |-> drawn],
             unsalted |-> IF "salt" \in fails THEN unsalted \cup {Today} ELSE unsalted]

\* appendLocked's file: created by the open, and the event added by the write.
Logged(fails, ev) ==
    LET events == IF Day(ev.t) \in DOMAIN raw THEN raw[Day(ev.t)] ELSE <<>>
    IN IF "open" \in fails THEN raw
       ELSE With(raw, Day(ev.t), IF "write" \in fails THEN events ELSE Append(events, ev))

\* History: the event of the process's s-th start is in memory only.
Unlogged(fails, s, ev) ==
    IF fails \cap {"open", "write"} = {} THEN unwritten
    ELSE unwritten \cup {[start |-> s, event |-> ev]}

\* appendLocked: the event is written to its day's file, if it can be, and applied.
Append1(r, fails, ev) ==
    LET a == Apply([days |-> r.days, concurrent |-> concurrent], ev)
    IN /\ days' = a.days /\ concurrent' = a.concurrent
       /\ raw' = Logged(fails, ev) /\ unwritten' = Unlogged(fails, starts, ev)
       /\ fileDate' = IF "open" \in fails THEN fileDate ELSE Day(ev.t)
       /\ today' = Today /\ salt' = r.salt
       /\ daily' = r.daily /\ saltFile' = r.saltFile /\ unsalted' = r.unsalted

\* What an event leaves alone besides.
Elsewhere == UNCHANGED <<now, starts, running, radioFile, reset, archive, scan, unread>>

\* History: an event of today speaks of the client, as it was known on day d.
See(d, c) ==
    seenOn' = With(seenOn, Today,
                   (IF Today \in DOMAIN seenOn THEN seenOn[Today] ELSE {}) \cup {<<d, c>>})

\* The client's anonymous name: a hash with the salt of the day.
Hash(r, c) == <<r.salt, c>>

\* Record: a page view or any other request.
Request(c) ==
    \E fails \in SUBSET Attempts :
       LET r == RolledOver(fails) IN
       /\ Failing(Cardinality(fails)) /\ running /\ calls < MaxCalls
       /\ calls' = calls + 1
       /\ Append1(r, fails, Event(now, "request", Hash(r, c), "none"))
       /\ See(Today, c)
       /\ Elsewhere /\ UNCHANGED <<wavs, session, clip, done>>

\* ListenStart: a client offers a connection, and is remembered with this event.
ListenStart(c) ==
    \E fails \in SUBSET Attempts :
       LET r == RolledOver(fails) IN
       /\ Failing(Cardinality(fails)) /\ running /\ session[c].at = "none" /\ calls < MaxCalls
       /\ calls' = calls + 1
       /\ Append1(r, fails, Event(now, "offer", Hash(r, c), "none"))
       /\ session' = [session EXCEPT ![c] = [at |-> "offered", visitor |-> Hash(r, c), on |-> Today]]
       /\ See(Today, c)
       /\ Elsewhere /\ UNCHANGED <<wavs, clip, done>>

\* ListenConnected: the event is the offer's, at another time.
ListenConnected(c) ==
    \E fails \in SUBSET Attempts :
       /\ Failing(Cardinality(fails)) /\ running /\ session[c].at = "offered"
       /\ Append1(RolledOver(fails), fails, Event(now, "connected", session[c].visitor, "none"))
       /\ session' = [session EXCEPT ![c].at = "connected"]
       /\ See(session[c].on, c)
       /\ Elsewhere /\ UNCHANGED <<wavs, clip, done, calls>>

\* ListenEnded, of a connection that came up or of one that did not.
ListenEnded(c) ==
    \E fails \in SUBSET Attempts :
       /\ Failing(Cardinality(fails)) /\ running /\ session[c].at # "none"
       /\ Append1(RolledOver(fails), fails,
                  Event(now, IF session[c].at = "connected" THEN "end" ELSE "never",
                        session[c].visitor, "none"))
       /\ session' = [session EXCEPT ![c] = NoSession]
       /\ See(session[c].on, c)
       /\ Elsewhere /\ UNCHANGED <<wavs, clip, done, calls>>

-----------------------------------------------------------------------------
(* Recordings.                                                             *)

BeginClip(c) ==
    /\ running /\ clip[c].at = "none" /\ calls < MaxCalls
    /\ calls' = calls + 1
    /\ clip' = [clip EXCEPT ![c] = [at |-> "recording", start |-> now]]
    /\ UNCHANGED <<now, starts, running, disk, memory, history, faults, done>>

\* Transmission, from the clip's job or from a goroutine if the job was dropped.
\* A recording that began before midnight is filed under today.
CountClip(c) ==
    \E fails \in SUBSET Attempts :
       LET t == IF Day(clip[c].start) = Today THEN clip[c].start ELSE now IN
       /\ Failing(Cardinality(fails)) /\ running /\ clip[c].at = "recording"
       /\ Append1(RolledOver(fails), fails, Event(t, "tx", <<>>, c))
       /\ clip' = [clip EXCEPT ![c].at = "counted"]
       /\ Elsewhere /\ UNCHANGED <<wavs, session, done, calls, seenOn>>

\* The job goes on to save the recording.
SaveClip(c) ==
    /\ running /\ clip[c].at = "counted"
    /\ clip' = [clip EXCEPT ![c].at = "saved"]
    /\ wavs' = wavs \cup {c}
    /\ UNCHANGED <<reset, now, starts, running, raw, daily, saltFile, radioFile, memory,
                   calls, history, faults, done>>

-----------------------------------------------------------------------------
(* Transcriptions.                                                         *)

\* transcriptionMetrics.finish: a clip has been transcribed.
Transcribed ==
    \E fails \in SUBSET Attempts :
       /\ Failing(Cardinality(fails)) /\ running /\ calls < MaxCalls
       /\ calls' = calls + 1
       /\ done' = done + 1
       /\ Append1(RolledOver(fails), fails, Event(now, "done", <<>>, done'))
       /\ Elsewhere /\ UNCHANGED <<wavs, session, clip, seenOn>>

\* ResetTranscription: a new marker, and every day's count since it is nothing.
\* The saved totals of finished days are left as they are.
ResetTranscription ==
    /\ running /\ calls < MaxCalls
    /\ calls' = calls + 1
    /\ reset' = [on |-> Today, done |-> done] /\ reset' # reset
    /\ days' = [d \in DOMAIN days |-> [days[d] EXCEPT !.since = {}]]
    /\ UNCHANGED <<now, starts, running, raw, daily, saltFile, radioFile, wavs, today,
                   fileDate, salt, concurrent, session, archive, scan, clip, done,
                   faults, history>>

\* dashboard: the count since the marker, of the marker's day and later ones.
Since(d, day) == IF reset.on # None /\ d >= reset.on THEN day.since ELSE {}

-----------------------------------------------------------------------------
(* Maintenance and starts.                                                 *)

Drop(f, S) == [d \in DOMAIN f \ S |-> f[d]]

\* The daily files once those of these days that have totals are saved as well.
WithSaved(dl, ds, S) ==
    [d \in DOMAIN dl \cup (S \cap DOMAIN ds) |-> IF d \in DOMAIN dl THEN dl[d] ELSE Saved(ds[d])]

\* The raw files that maintain deletes if their totals are saved: old, not open.
Old(rw, open) == {d \in DOMAIN rw : d < Today - Retention /\ d # open}

\* maintain: the old days' totals are saved first, unless that fails, and then
\* their raw files deleted, unless that does.
Pruned(rw, dl, ds, open, unsaved, kept) ==
    LET saved == WithSaved(dl, ds, Old(rw, open) \ unsaved)
    IN [raw |-> Drop(rw, (Old(rw, open) \cap DOMAIN saved) \ kept), daily |-> saved]

\* The hourly maintenance.
Maintain ==
    \E fails \in SUBSET (Attempts \ {"open", "write"}) :
    \E unsaved \in SUBSET Old(raw, fileDate) : \E kept \in SUBSET Old(raw, fileDate) :
       LET r == RolledOver(fails)
           p == Pruned(raw, r.daily, r.days, fileDate, unsaved, kept)
       IN /\ running /\ Failing(Cardinality(fails) + Cardinality(unsaved) + Cardinality(kept))
          /\ days' = r.days /\ today' = Today /\ salt' = r.salt /\ saltFile' = r.saltFile
          /\ daily' = p.daily /\ raw' = p.raw /\ unsalted' = r.unsalted
          /\ UNCHANGED <<reset, now, starts, running, radioFile, wavs, fileDate,
                         concurrent, session, archive, scan, clip, calls, seenOn, done,
                         unwritten, unread>>

\* replay: the events of one file.
Folded(a, events) ==
    LET after[n \in 0..Len(events)] ==
            IF n = 0 THEN a ELSE Apply(after[n - 1], events[n])
    IN after[Len(events)]

\* load: the totals of finished days from their files, the others, and today,
\* replayed from the raw events, and the finished ones among these saved.
Undone == {d \in DOMAIN raw : d \notin DOMAIN daily \/ d = Today}
Replayed ==
    LET loaded[d \in 0..Today + 1] ==  \* with the days before d replayed
            IF d = 0 THEN [days |-> Drop(daily, Undone), concurrent |-> 0]
            ELSE IF d - 1 \in Undone THEN Folded(loaded[d - 1], raw[d - 1])
            ELSE loaded[d - 1]
    IN loaded[Today + 1]

\* Mutant of LoadedSalt: a start draws a new salt.
LoadedSaltAnew == <<Today, starts + 1>>

\* loadSalt: a restart on the same day goes on with its salt.
LoadedSalt == IF saltFile.date = Today THEN saltFile.salt ELSE <<Today, starts + 1>>

\* Mutant of LiveRadioStart: always the beginning of the day.
LiveRadioStartOfDay(ds, rw) ==
    LET counted == {d \in DOMAIN ds : ds[d].tx # {}}
    IN IF counted = {} THEN now ELSE Min(counted) * DayLen

\* liveRadioStart: the earliest transmission on record, or now.  If its day's raw
\* file has been pruned the day's beginning stands in for it.
LiveRadioStart(ds, rw) ==
    LET counted == {d \in DOMAIN ds : ds[d].tx # {}}
        first == Min(counted)
        sent == IF first \notin DOMAIN rw THEN {}
                ELSE {ev.t : ev \in {e \in Range(rw[first]) : e.type = "tx"}}
    IN IF counted = {} THEN now
       ELSE IF sent = {} THEN first * DayLen
       ELSE Min(sent)

\* openAnalyticsStore and BackfillRadio: load, the salt, the start event, one
\* maintenance, and then the archive's totals, or the cutoff of a scan for them.
Start ==
    \E fails \in SUBSET ({"open", "write"} \cup (IF saltFile.date = Today THEN {} ELSE {"salt"})) :
    \E undone \in SUBSET (Undone \ {Today}) :
    \E unsaved \in SUBSET Old(raw, Today) : \E kept \in SUBSET Old(raw, Today) :
    LET begun == Event(now, "start", <<>>, "none")
        replayed == Replayed
        loaded == Apply(replayed, begun)
        saved == WithSaved(daily, replayed.days, (Undone \ {Today}) \ undone)
        p == Pruned(Logged(fails, begun), saved, loaded.days, Today, unsaved, kept)
    IN /\ ~running /\ starts < MaxStarts
       /\ Failing(Cardinality(fails) + Cardinality(undone) + Cardinality(unsaved)
                    + Cardinality(kept))
       /\ running' = TRUE /\ starts' = starts + 1
       /\ days' = loaded.days /\ concurrent' = 0
       /\ today' = Today /\ fileDate' = IF "open" \in fails THEN None ELSE Today
       /\ salt' = LoadedSalt
       /\ saltFile' = IF "salt" \in fails THEN saltFile ELSE [date |-> Today, salt |-> LoadedSalt]
       /\ unsalted' = IF "salt" \in fails THEN unsalted \cup {Today} ELSE unsalted
       /\ unwritten' = Unlogged(fails, starts', begun)
       /\ daily' = p.daily /\ raw' = p.raw
       /\ session' = [c \in Clients |-> NoSession]
       /\ IF radioFile.made
          THEN archive' = radioFile.clips /\ scan' = None
          ELSE archive' = {} /\ scan' = LiveRadioStart(days', raw')
       /\ UNCHANGED <<reset, now, radioFile, wavs, clip, calls, seenOn, done, unread>>

\* Mutant of Scannable: the recordings of the cutoff's tick as well.
ScannableUpTo(w) == clip[w].start <= scan

\* scanRadioArchive counts the recordings that began before the cutoff.
Scannable(w) == clip[w].start < scan

\* The scan ends, having passed over what it could not read; its result may not
\* get saved, and is then scanned again.
EndScan ==
    \E saves \in BOOLEAN : \E passed \in SUBSET wavs :
       /\ running /\ scan \in Nat
       /\ Failing((IF saves THEN 0 ELSE 1) + (IF passed = {} THEN 0 ELSE 1))
       /\ archive' = {w \in wavs \ passed : Scannable(w)}
       /\ radioFile' = IF saves THEN [made |-> TRUE, clips |-> archive'] ELSE radioFile
       /\ scan' = None /\ unread' = passed
       /\ UNCHANGED <<reset, now, starts, running, raw, daily, saltFile, wavs, days,
                      today, fileDate, salt, concurrent, session, clip, calls, seenOn,
                      done, unwritten, unsalted>>

\* The archive cannot be read at all: nothing is counted from it until a restart.
FailScan ==
    /\ running /\ scan \in Nat /\ Failing(1)
    /\ scan' = Failed
    /\ UNCHANGED <<now, starts, running, disk, days, today, fileDate, salt, concurrent,
                   session, archive, clip, done, calls, history>>

\* The process ends: what was being recorded or queued is lost.
Stop ==
    /\ running
    /\ running' = FALSE
    /\ clip' = [c \in DOMAIN clip |->
                   IF clip[c].at \in {"recording", "counted"}
                   THEN [clip[c] EXCEPT !.at = "lost"] ELSE clip[c]]
    /\ days' = NoDays /\ today' = None /\ fileDate' = None /\ salt' = <<>>
    /\ concurrent' = 0 /\ archive' = {} /\ scan' = None
    /\ session' = [c \in Clients |-> NoSession]
    /\ UNCHANGED <<now, starts, disk, calls, history, faults, done>>

\* README:224: somebody deletes radio_archive.json for a recount.
Recount ==
    /\ ~running /\ radioFile.made
    /\ radioFile' = [made |-> FALSE, clips |-> {}]
    /\ UNCHANGED <<reset, now, starts, running, raw, daily, saltFile, wavs, memory,
                   clip, calls, history, faults, done>>

Tick ==
    /\ now < Horizon
    /\ now' = now + 1
    /\ UNCHANGED <<starts, running, disk, memory, clip, calls, history, faults, done>>

Init ==
    /\ now = Opened /\ starts = 0 /\ running = FALSE
    /\ raw = NoDays /\ daily = NoDays
    /\ saltFile = [date |-> None, salt |-> <<>>]
    /\ radioFile = [made |-> FALSE, clips |-> {}]
    /\ wavs = OldClips /\ reset = [on |-> None, done |-> 0] /\ done = 0
    /\ days = NoDays /\ today = None /\ fileDate = None /\ salt = <<>>
    /\ concurrent = 0 /\ archive = {} /\ scan = None
    /\ session = [c \in Clients |-> NoSession]
    /\ \E began \in [OldClips -> 0..Opened - 1] :
         clip = [c \in OldClips \cup Clips |->
                   IF c \in OldClips THEN [at |-> "saved", start |-> began[c]]
                   ELSE [at |-> "none", start |-> None]]
    /\ calls = 0 /\ faults = 0 /\ seenOn = NoDays
    /\ unwritten = {} /\ unsalted = {} /\ unread = {}

Next ==
    \/ \E c \in Clients : Request(c) \/ ListenStart(c) \/ ListenConnected(c) \/ ListenEnded(c)
    \/ \E c \in Clips : BeginClip(c) \/ CountClip(c) \/ SaveClip(c)
    \/ Transcribed \/ ResetTranscription
    \/ Maintain \/ Start \/ EndScan \/ FailScan \/ Stop \/ Recount \/ Tick

Spec == Init /\ [][Next]_vars

-----------------------------------------------------------------------------
(* Properties.                                                             *)

TypeOK ==
    /\ now \in Nat /\ running \in BOOLEAN
    /\ wavs \subseteq OldClips \cup Clips /\ archive \subseteq wavs
    /\ concurrent \in Nat

\* What readers of the dashboard see of a day, the peak apart.
Shown(d, day) ==
    [visitors |-> day.visitors, listens |-> day.listens, ends |-> day.ends, tx |-> day.tx,
     done |-> day.done, since |-> Since(d, day)]

\* The events of this process that no raw file has, and the recordings whose
\* transmission ever was such an event.
Unkept == {u.event : u \in {v \in unwritten : v.start = starts}}
Missing(type) == {ev.what : ev \in {e \in Unkept : e.type = type}}
Untold == {u.event.what : u \in {v \in unwritten : v.event.type = "tx"}}

\* Of a day's transmissions and transcriptions a restart shows no others, and
\* misses only those of the events that could not be written.
Short(day, again) ==
    /\ again.tx \subseteq day.tx /\ day.tx \ again.tx \subseteq Missing("tx")
    /\ again.done \subseteq day.done /\ day.done \ again.done \subseteq Missing("done")

\* A restart at any moment shows the totals shown before it: whatever was rolled
\* over, saved, pruned or replayed, no event is lost and none counted twice, apart
\* from the events of this process that could not be written (analytics.go:548,
\* 557), on a day whose totals were not saved with them.
RestartSame ==
    running =>
        LET again == Replayed.days
        IN /\ DOMAIN again \subseteq DOMAIN days
           /\ \A d \in DOMAIN days :
                 IF d \notin DOMAIN daily /\ \E ev \in Unkept : Day(ev.t) = d
                 THEN Short(days[d], Totals(again, d, 0))
                 ELSE d \in DOMAIN again /\ Shown(d, days[d]) = Shown(d, again[d])

\* analytics.go:576: live and replayed totals always agree, the peak of concurrent
\* listeners included.  The code does not hold this: the replay of a day that
\* began with listeners connected starts from none.
PeakSame ==
    running =>
        LET again == Replayed.days
        IN \A d \in DOMAIN days \cap DOMAIN again : days[d].peak = again[d].peak

\* The recordings counted live on day d.
Live(d) == IF d \in DOMAIN days THEN days[d].tx ELSE {}

\* radio_archive.go:20: a recording is never counted both live and from the
\* archive, whenever the scan was cut short, repeated or asked for again; apart
\* from one that was in progress at midnight, which is filed under a later time,
\* and one whose own event no raw file has to tell the cutoff.
CountedOnce ==
    \A d \in DOMAIN days : \A c \in Live(d) \cap archive : Day(clip[c].start) # d \/ c \in Untold

\* Without those exceptions.  The code does not hold this.
NeverTwice == \A d \in DOMAIN days : Live(d) \cap archive = {}

\* The transmissions that a day's raw file tells of.
Told(d) == IF d \in DOMAIN raw THEN {ev.what : ev \in {e \in Range(raw[d]) : e.type = "tx"}} ELSE {}

\* Once the scan is over every recording on disk is counted: the cutoff leaves no
\* gap to live counting, unless the raw events that tell it have been pruned or
\* were never written.  Left out are only recordings whose own event could not be
\* written and those that the scan could not read.
AllCounted ==
    running /\ scan = None =>
        \A w \in wavs :
            \/ w \in archive \cup unread \cup Untold
            \/ \E d \in DOMAIN days : w \in Live(d)
            \/ Live(Day(clip[w].start)) # {} /\ Told(Day(clip[w].start)) = {}

\* A visitor is counted once a day, however often the process is restarted, unless
\* the day's salt could not be written; and is missing only if an event of that
\* day could not.  (A session that lasts past midnight keeps its old name, and
\* counts as a visitor of its own on the day it ends.)
VisitorsOnce ==
    running => \A d \in DOMAIN days \ unsalted :
        LET clients == IF d \in DOMAIN seenOn THEN Cardinality(seenOn[d]) ELSE 0
        IN /\ days[d].visitors <= clients
           /\ (\A u \in unwritten : Day(u.event.t) # d) => days[d].visitors = clients
=============================================================================
