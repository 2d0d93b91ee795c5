------------------------------ MODULE Archive ------------------------------
(***************************************************************************)
(* The audio archive: the primary folder and its backups, written by the   *)
(* clip workers (saveAudioClip) and kept equal by the periodic sync        *)
(* (archive_sync.go).                                                      *)
(*                                                                         *)
(* Folder 1 is the primary.  A recording is written to every folder; the   *)
(* rows of an append-only CSV file (transcripts.csv of hub.go,             *)
(* transcript-feedback.csv of feedback.go) to the primary only, and the    *)
(* sync takes it for a file like any other.  A file's body is a sequence,  *)
(* its length the size.  Modification times count writes, and "horizon" is *)
(* the last one that lies minAge back.                                     *)
(***************************************************************************)
EXTENDS Integers, Sequences, FiniteSetsExt, Functions

CONSTANTS
    NDirs,      \* archive folders, the primary included
    Wavs,       \* recordings
    Rows,       \* bound: rows 1..Rows of the CSV file
    MaxFaults   \* bound: failed writes, lost files and crashes

Csv == "csv"

ASSUME ArchiveAssumption ==
    /\ NDirs \in Nat /\ NDirs >= 2
    /\ Rows \in Nat
    /\ MaxFaults \in Nat
    /\ Csv \notin Wavs /\ "none" \notin Wavs

Dirs == 1..NDirs
Files == Wavs \cup {Csv}
Wav == <<1, 2>>         \* the body of a whole recording; <<>> and <<1>> are cut short
None == 0               \* no folder

VARIABLES
    disk,         \* [Dirs -> [present files -> [body, stamp]]]
    clock,        \* the stamp of the last write
    horizon,      \* stamps up to it are at least minAge old
    save,         \* the clip worker: [wav, dir, open, detached]
    unsaved,      \* recordings not handed to the worker yet
    rows,         \* rows written so far
    pass,         \* the sync's pass: where it is and what it has scanned
    faults        \* faults so far

writers == <<save, unsaved, rows>>
archiveVars == <<disk, clock, horizon, save, unsaved, rows, pass, faults>>

-----------------------------------------------------------------------------
(* Files.                                                                  *)

Has(d, f) == f \in DOMAIN disk[d]
Body(d, f) == IF Has(d, f) THEN disk[d][f].body ELSE <<>>

\* Folder d once file f has this body and modification time.
With(d, f, body, stamp) ==
    [disk EXCEPT ![d] = [g \in DOMAIN @ \cup {f} |->
                            IF g = f THEN [body |-> body, stamp |-> stamp] ELSE @[g]]]

\* Folder d without f.
Without(d, f) == [disk EXCEPT ![d] = Restrict(@, DOMAIN @ \ {f})]

\* Folder d's file f is being written.  A file that has been renamed over or
\* removed meanwhile is still written, but nobody will see it: "detached".
Writing(d, f) == save.open /\ ~save.detached /\ save.dir = d /\ save.wav = f

\* The worker once folder d's entry for f is another file.
Detach(d, f) == save' = [save EXCEPT !.detached = @ \/ Writing(d, f)]

-----------------------------------------------------------------------------
(* saveAudioClip: the primary first, and only then each backup.            *)

IdleWorker == [wav |-> "none", dir |-> None, open |-> FALSE, detached |-> FALSE]

\* The worker goes on to the next folder, or ends.
SavedUpTo(d) ==
    save' = IF d < NDirs THEN [save EXCEPT !.dir = d + 1, !.open = FALSE, !.detached = FALSE]
            ELSE IdleWorker

StartSave(w) ==
    /\ save = IdleWorker /\ w \in unsaved
    /\ save' = [IdleWorker EXCEPT !.wav = w, !.dir = 1]
    /\ unsaved' = unsaved \ {w}
    /\ UNCHANGED <<disk, clock, horizon, rows, pass, faults>>

\* os.WriteFile creates the file, or truncates it ...
OpenWav ==
    /\ save.dir # None /\ ~save.open
    /\ clock' = clock + 1
    /\ disk' = With(save.dir, save.wav, <<>>, clock')
    /\ save' = [save EXCEPT !.open = TRUE]
    /\ UNCHANGED <<horizon, unsaved, rows, pass, faults>>

\* The open file gets this body.
WriteBody(body) ==
    disk' = IF save.detached THEN disk
            ELSE With(save.dir, save.wav, body, disk[save.dir][save.wav].stamp)

\* ... and writes it.
WriteWav ==
    /\ save.open
    /\ WriteBody(Wav)
    /\ SavedUpTo(save.dir)
    /\ UNCHANGED <<clock, horizon, unsaved, rows, pass, faults>>

\* The write fails, early or half way: in the primary that ends the call, in a
\* backup it is logged.
WriteFails ==
    /\ save.dir # None /\ faults < MaxFaults
    /\ faults' = faults + 1
    /\ IF save.open THEN WriteBody(<<1>>) ELSE UNCHANGED disk
    /\ IF save.dir = 1 THEN save' = IdleWorker ELSE SavedUpTo(save.dir)
    /\ UNCHANGED <<clock, horizon, unsaved, rows, pass>>

-----------------------------------------------------------------------------
\* appendArchive of hub.go, Append of feedback.go: one more row, each in a
\* critical section of its own, in a file created with the first one.
AppendRow ==
    /\ rows < Rows
    /\ rows' = rows + 1
    /\ clock' = clock + 1
    /\ disk' = With(1, Csv, Append(Body(1, Csv), rows'), clock')
    /\ UNCHANGED <<horizon, save, unsaved, pass, faults>>

-----------------------------------------------------------------------------
(* syncArchives.                                                           *)

AtRest == [at |-> "rest", limit |-> 0, seen |-> <<>>, todo |-> {}, file |-> Csv,
           dst |-> None, body |-> <<>>, stamp |-> 0]

\* A pass begins: whatever is written from now on is too young for it.
BeginPass ==
    /\ pass.at = "rest"
    /\ pass' = [pass EXCEPT !.at = "scan", !.limit = horizon]
    /\ UNCHANGED <<disk, clock, horizon, faults>> /\ UNCHANGED writers

\* Mutant of Scanned: a file being written is taken for an old one.
ScannedYoung(d, limit) ==
    [f \in DOMAIN disk[d] |-> [size |-> Len(Body(d, f)), stamp |-> disk[d][f].stamp]]

\* What a scan of folder d notes: files older than minAge.
Scanned(d, limit) ==
    [f \in {g \in DOMAIN disk[d] : disk[d][g].stamp <= limit} |->
        [size |-> Len(Body(d, f)), stamp |-> disk[d][f].stamp]]

\* The best copy of f: the largest, among these the newest, among these the first.
Best(seen, f) ==
    LET Have == {d \in DOMAIN seen : f \in DOMAIN seen[d]}
        Largest == {d \in Have : \A e \in Have : seen[e][f].size <= seen[d][f].size}
        Newest == {d \in Largest : \A e \in Largest : seen[e][f].stamp <= seen[d][f].stamp}
    IN Min(Newest)

\* Mutant of NeedsCopy: only a missing file is copied.
NeedsCopyIfMissing(seen, f, d) == f \notin DOMAIN seen[d]

\* Folder d gets a copy of f if the scan found none there, or a smaller one.
NeedsCopy(seen, f, d) ==
    f \in DOMAIN seen[d] => seen[d][f].size < seen[Best(seen, f)][f].size

\* The folders still to get a copy of f, after folder d.
Targets(seen, f, d) ==
    {e \in d + 1..NDirs : e # Best(seen, f) /\ NeedsCopy(seen, f, e)}

\* The pass goes on with the next copy of the file at hand, if any, or with any
\* of the other files: the order of a Go map.
GoOn(p, d) ==
    IF Targets(p.seen, p.file, d) # {}
    THEN pass' = [p EXCEPT !.at = "copy", !.dst = Min(Targets(p.seen, p.file, d)),
                           !.body = <<>>, !.stamp = 0]
    ELSE LET Rest == {f \in p.todo : Targets(p.seen, f, 0) # {}}
         IN IF Rest = {} THEN pass' = AtRest
            ELSE \E f \in Rest :
                    pass' = [p EXCEPT !.at = "copy", !.todo = Rest \ {f}, !.file = f,
                                      !.dst = Min(Targets(p.seen, f, 0)),
                                      !.body = <<>>, !.stamp = 0]

\* The next folder is scanned.  After the last one the copies begin.
ScanDir ==
    LET seen == Append(pass.seen, Scanned(Len(pass.seen) + 1, pass.limit))
        found == UNION {DOMAIN seen[d] : d \in DOMAIN seen}
    IN /\ pass.at = "scan"
       /\ IF Len(seen) < NDirs THEN pass' = [pass EXCEPT !.seen = seen]
          ELSE IF found = {} THEN pass' = AtRest
          ELSE \E f \in found :
                 GoOn([pass EXCEPT !.seen = seen, !.todo = found \ {f}, !.file = f], 0)
       /\ UNCHANGED <<disk, clock, horizon, faults>> /\ UNCHANGED writers

\* A folder that cannot be read or created ends the pass.
ScanFails ==
    /\ pass.at = "scan" /\ faults < MaxFaults
    /\ faults' = faults + 1
    /\ pass' = AtRest
    /\ UNCHANGED <<disk, clock, horizon>> /\ UNCHANGED writers

Source == Best(pass.seen, pass.file)

\* copyArchiveFileAtomic reads the source, as it is now, into a hidden file that
\* no scan sees.  A source that has gone is an error, and the copy is skipped.
CopyFile ==
    /\ pass.at = "copy"
    /\ IF Has(Source, pass.file)
       THEN pass' = [pass EXCEPT !.at = "rename", !.body = Body(Source, pass.file),
                                 !.stamp = pass.seen[Source][pass.file].stamp]
       ELSE GoOn(pass, pass.dst)
    /\ UNCHANGED <<disk, clock, horizon, faults>> /\ UNCHANGED writers

\* The copy fails on the way: the hidden file is removed.
CopyFails ==
    /\ pass.at = "copy" /\ faults < MaxFaults
    /\ faults' = faults + 1
    /\ GoOn(pass, pass.dst)
    /\ UNCHANGED <<disk, clock, horizon>> /\ UNCHANGED writers

\* The hidden file takes the destination's place, with the time of the source's
\* scan.
RenameCopy ==
    /\ pass.at = "rename"
    /\ disk' = With(pass.dst, pass.file, pass.body, pass.stamp)
    /\ Detach(pass.dst, pass.file)
    /\ GoOn(pass, pass.dst)
    /\ UNCHANGED <<clock, horizon, faults, unsaved, rows>>

\* The rename fails, and again once the destination has been removed for it.
RenameFails ==
    /\ pass.at = "rename" /\ faults < MaxFaults
    /\ faults' = faults + 1
    /\ disk' = Without(pass.dst, pass.file)
    /\ Detach(pass.dst, pass.file)
    /\ GoOn(pass, pass.dst)
    /\ UNCHANGED <<clock, horizon, unsaved, rows>>

-----------------------------------------------------------------------------
(* The environment.                                                        *)

\* Time passes: one more write is minAge back, unless it is still going on (a
\* write takes less than minAge, as the code assumes).
Age ==
    /\ horizon < clock
    /\ \A d \in Dirs, w \in Wavs : Writing(d, w) => horizon + 1 # disk[d][w].stamp
    /\ horizon' = horizon + 1
    /\ UNCHANGED <<disk, clock, pass, faults>> /\ UNCHANGED writers

\* A folder loses a file that is not being saved: a disk fails, or somebody
\* deletes it.
LoseFile(d, f) ==
    /\ Has(d, f) /\ save.wav # f /\ faults < MaxFaults
    /\ faults' = faults + 1
    /\ disk' = Without(d, f)
    /\ UNCHANGED <<clock, horizon, pass>> /\ UNCHANGED writers

\* The process ends, wherever it is, and is started again: what was queued or
\* being written is cut short.
Restart ==
    /\ faults < MaxFaults
    /\ faults' = faults + 1
    /\ save' = IdleWorker
    /\ pass' = AtRest
    /\ UNCHANGED <<disk, clock, horizon, unsaved, rows>>

ArchiveInit ==
    /\ disk = [d \in Dirs |-> <<>>]
    /\ clock = 0 /\ horizon = 0
    /\ save = IdleWorker /\ unsaved = Wavs
    /\ rows = 0
    /\ pass = AtRest
    /\ faults = 0

Writers ==
    \/ \E w \in Wavs : StartSave(w)
    \/ OpenWav \/ WriteWav \/ WriteFails
    \/ AppendRow

SyncStep == BeginPass \/ ScanDir \/ CopyFile \/ RenameCopy

ArchiveNext ==
    \/ Writers \/ SyncStep \/ Age
    \/ ScanFails \/ CopyFails \/ RenameFails
    \/ \E d \in Dirs, f \in Files : LoseFile(d, f)
    \/ Restart

ArchiveSpec == ArchiveInit /\ [][ArchiveNext]_archiveVars

\* Passes follow one another, time passes, and a write that has begun ends.
\* Recordings, rows and faults need not come.
ArchiveFairness ==
    /\ WF_archiveVars(SyncStep) /\ WF_archiveVars(Age)
    /\ WF_archiveVars(OpenWav) /\ WF_archiveVars(WriteWav)

FairArchive == ArchiveSpec /\ ArchiveFairness

-----------------------------------------------------------------------------
(* Properties.                                                             *)

ArchiveTypeOK ==
    /\ \A d \in Dirs : DOMAIN disk[d] \subseteq Files
    /\ horizon \in 0..clock
    /\ save.dir \in 0..NDirs /\ rows \in 0..Rows
    /\ pass.at \in {"rest", "scan", "copy", "rename"}

\* A whole recording stays whole in its folder: whatever the order of saves,
\* scans, copies and one fault, the sync never puts a shorter body in its
\* place.  Only the fault itself can take it away, or the worker that writes it
\* again.
WholeStays ==
    [][\A d \in Dirs, w \in Wavs :
          Body(d, w) = Wav =>
              Body(d, w)' = Wav \/ Writing(d, w)' \/ faults' # faults]_archiveVars

\* README:74: once writes and faults are over, every folder holds every file, at
\* the same size, for good.
Converges ==
    <>[](\A d \in Dirs, f \in Files :
            (Has(d, f) <=> Has(1, f)) /\ Len(Body(d, f)) = Len(Body(1, f)))

\* hub.go:235: the file is only ever appended to, never truncated or rewritten.
\* The code does not hold this: a scan skips a primary file younger than minAge,
\* takes it for missing and puts an older copy in its place.
NoRowLost == faults = 0 => Body(1, Csv) = [i \in 1..rows |-> i]
=============================================================================
