------------------------------ MODULE Recorder ------------------------------
(***************************************************************************)
(* The presence-based recorder of recorder.go for one station: Push from   *)
(* the ingest goroutine, the gap timer's callback, and the Flush made when *)
(* a reload stops the station.  Each runs under r.mu and is one step.      *)
(*                                                                         *)
(* Packets are numbered in arrival order.  Time is counted in ticks since  *)
(* the last packet.  A timer that has fired runs its callback in its own   *)
(* goroutine, which may have to wait for r.mu: Stop does not recall it.    *)
(***************************************************************************)
EXTENDS Integers, Sequences

CONSTANTS
    GapLimit,    \* gapLimit in ticks
    MaxFrames,   \* frames that reach maxClip
    MaxPackets   \* bound: packets received in a checked instance

ASSUME RecorderAssumption ==
    /\ GapLimit \in Nat \ {0}
    /\ MaxFrames \in Nat \ {0}
    /\ MaxPackets \in Nat

VARIABLES
    phase,       \* r.recording: "recording" or "idle"
    clipBuf,     \* r.clipBuf: the packets of the clip in progress
    timer,       \* r.timer: "set" until it fires or is stopped, else "none"
    waiting,     \* callbacks of fired timers that do not hold r.mu yet
    gap,         \* ticks since the last packet, up to GapLimit + 1
    station,     \* "on", "reloaded" (stopped by a reload) or "exited"
    packets,     \* history: packets pushed so far
    saved        \* history: packets handed to onClip, in order

recorderVars == <<phase, clipBuf, timer, waiting, gap, station, packets, saved>>

-----------------------------------------------------------------------------
\* Mutant of Finalise: the buffer of the finished clip is kept.
FinaliseKeepingBuffer(ph, buf) ==
    /\ timer' = "none" /\ phase' = "idle" /\ clipBuf' = buf
    /\ saved' = IF ph = "recording" THEN saved \o buf ELSE saved

\* finaliseLocked: the timer is stopped and forgotten, and the clip "buf" is
\* handed to onClip if one is in progress.
Finalise(ph, buf) ==
    /\ timer' = "none"
    /\ phase' = "idle"
    /\ clipBuf' = <<>>
    /\ saved' = IF ph = "recording" THEN saved \o buf ELSE saved

\* The buffer once the next packet is appended to it.
Appended == Append(IF phase = "recording" THEN clipBuf ELSE <<>>, packets + 1)

\* Mutant of Push: the gap timer is not restarted.
PushUntimed ==
    /\ station = "on" /\ packets < MaxPackets
    /\ packets' = packets + 1
    /\ gap' = 0
    /\ phase' = "recording" /\ clipBuf' = Appended
    /\ UNCHANGED <<timer, saved, waiting, station>>

\* The ingest goroutine appends one packet and restarts the gap timer.
Push ==
    /\ station = "on" /\ packets < MaxPackets
    /\ packets' = packets + 1
    /\ gap' = 0
    /\ IF Len(Appended) >= MaxFrames
       THEN Finalise("recording", Appended)
       ELSE /\ phase' = "recording"
            /\ clipBuf' = Appended
            /\ timer' = "set"
            /\ UNCHANGED saved
    /\ UNCHANGED <<waiting, station>>

\* The gap timer runs out and its callback's goroutine starts.
Fire ==
    /\ station # "exited"
    /\ timer = "set" /\ gap >= GapLimit
    /\ timer' = "none"
    /\ waiting' = waiting + 1
    /\ UNCHANGED <<phase, clipBuf, gap, station, packets, saved>>

\* Mutant of Callback: a clip of one packet is left for later.
CallbackSparesShort ==
    /\ station # "exited"
    /\ waiting > 0
    /\ waiting' = waiting - 1
    /\ IF Len(clipBuf) = 1 THEN UNCHANGED <<phase, clipBuf, timer, saved>>
       ELSE Finalise(phase, clipBuf)
    /\ UNCHANGED <<gap, station, packets>>

\* A callback gets r.mu.
Callback ==
    /\ station # "exited"
    /\ waiting > 0
    /\ waiting' = waiting - 1
    /\ Finalise(phase, clipBuf)
    /\ UNCHANGED <<gap, station, packets>>

\* Mutant of StopByReload: the clip in progress is not flushed.
StopUnflushed ==
    /\ station = "on"
    /\ station' = "reloaded"
    /\ timer' = "none" /\ phase' = "idle" /\ clipBuf' = <<>>
    /\ UNCHANGED <<saved, waiting, gap, packets>>

\* A reload stops the station: ingest has ended, then Flush.
StopByReload ==
    /\ station = "on"
    /\ station' = "reloaded"
    /\ Finalise(phase, clipBuf)
    /\ UNCHANGED <<waiting, gap, packets>>

\* The process shuts down: no Flush, the clip in progress goes with it.
Shutdown ==
    /\ station # "exited"
    /\ station' = "exited"
    /\ UNCHANGED <<phase, clipBuf, timer, waiting, gap, packets, saved>>

\* Time passes; the runtime fires a timer when it is due.
TimePasses ==
    /\ station # "exited"
    /\ gap <= GapLimit
    /\ timer = "set" => gap < GapLimit
    /\ gap' = gap + 1
    /\ UNCHANGED <<phase, clipBuf, timer, waiting, station, packets, saved>>

RecorderInit ==
    /\ phase = "idle" /\ clipBuf = <<>>
    /\ timer = "none" /\ waiting = 0 /\ gap = 0
    /\ station = "on"
    /\ packets = 0 /\ saved = <<>>

RecorderNext == Push \/ Fire \/ Callback \/ StopByReload \/ Shutdown \/ TimePasses

RecorderSpec == RecorderInit /\ [][RecorderNext]_recorderVars

\* The clock, the runtime's timers and their goroutines go on; packets, reloads
\* and the shutdown need not come.
RecorderFairness ==
    /\ WF_recorderVars(TimePasses)
    /\ WF_recorderVars(Fire) /\ WF_recorderVars(Callback)

FairRecorder == RecorderSpec /\ RecorderFairness

-----------------------------------------------------------------------------
(* Properties.                                                             *)

\* Types, and the recording phase agrees with the buffer.
RecorderTypeOK ==
    /\ phase \in {"idle", "recording"} /\ timer \in {"none", "set"}
    /\ clipBuf \in Seq(Nat) /\ saved \in Seq(Nat)
    /\ waiting \in Nat /\ gap \in 0..(GapLimit + 1)
    /\ station \in {"on", "reloaded", "exited"}
    /\ packets \in Nat
    /\ phase = "recording" <=> clipBuf # <<>>

\* Every packet pushed is in exactly one clip, in arrival order: whatever the
\* order of pushes, late timer callbacks and the reload's Flush, what has been
\* saved followed by the clip in progress is all the packets received, and
\* nothing is left in the buffer of a station that a reload stopped.
NothingLost ==
    /\ saved \o clipBuf = [i \in 1..packets |-> i]
    /\ station = "reloaded" => clipBuf = <<>>

\* A clip never stays open for good: while one is in progress its timer is set
\* or a callback that will finish it is already waiting for the lock.
OpenClipHasTimer == phase = "recording" => timer = "set" \/ waiting > 0

\* A clip is open past the gap limit only while a callback waits for the lock.
OverdueOnlyWhileWaiting == phase = "recording" /\ gap > GapLimit => waiting > 0

\* A clip in progress is finished, unless the process exits first.
EveryClipEnds == phase = "recording" ~> (phase = "idle" \/ station = "exited")

\* The recorderState comment: only a gap of gapLimit or the maxClip cap
\* finishes a recording (a reload's Flush apart).
ClipEndsOnGap ==
    [][phase = "recording" /\ phase' = "idle" =>
          \/ gap >= GapLimit
          \/ Len(Appended) >= MaxFrames /\ packets' = packets + 1
          \/ station' = "reloaded"]_recorderVars
=============================================================================
