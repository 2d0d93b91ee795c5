----------------------------- MODULE AudioProofs -----------------------------
(* Proofs about the path of the audio: the multicast listener of a station, *)
(* for every number of ports, dropout time and channel capacity; the        *)
(* recorder it feeds, for every gap limit, clip cap and number of packets;  *)
(* and the archive of the recordings, for every number of folders,          *)
(* recordings and rows, under one fault.                                    *)
EXTENDS Multicast, Recorder, Archive, WellFoundedInduction, TLAPS

-----------------------------------------------------------------------------
(* The multicast listener.                                                   *)

\* What the code remembers of a port's activity is its real activity: this is
\* what makes the routing decisions of selectPort the right ones.  A port that
\* was ever heard has begun a transmission.
Remembered ==
    /\ quiet = silence
    /\ \A p \in Ports : silence[p] < Dropout => newest # NoPort

ListenerInv == TypeOK /\ Remembered /\ NewestIsActive

\* Ports are not NoPort, and time never makes a port look more active.
LEMMA PortFacts ==
  /\ NoPort \notin Ports /\ Ports \subseteq Int
  /\ Dropout \in Nat /\ Dropout > 0 /\ QueueCap \in Nat
BY ListenerAssumption DEF Ports, NoPort

LEMMA LaterFacts ==
  ASSUME NEW age \in [Ports -> 0..Dropout]
  PROVE  /\ Later(age) \in [Ports -> 0..Dropout]
         /\ \A p \in Ports : age[p] <= Later(age)[p]
BY PortFacts DEF Later

\* What becomes of the channel and of the two clocks in handlePacket.
LEMMA HandleFacts ==
  ASSUME ListenerInv, NEW p \in Ports, HandlePacket(p)
  PROVE  /\ activePort' \in Ports
         /\ silence[p] >= Dropout => activePort' = p /\ newest' = p
         /\ silence[p] < Dropout => newest' = newest
         /\ newest # NoPort /\ silence[newest] < Dropout /\ silence[p] < Dropout
               => activePort' = newest
         /\ quiet' = [quiet EXCEPT ![p] = 0] /\ silence' = quiet'
BY PortFacts
DEF HandlePacket, SelectPort, Ended, ListenerInv, TypeOK, Remembered, NewestIsActive

\* The channel stays within its capacity, whether the frame is sent or not.
LEMMA EnqueueFacts ==
  ASSUME TypeOK, NEW p \in Ports, HandlePacket(p)
  PROVE  /\ frameChan' \in Seq(Ports) /\ Len(frameChan') <= QueueCap
         /\ Len(frameChan') > Len(frameChan)
               => frameChan'[Len(frameChan')] = p /\ activePort' = p
<1>1. CASE UNCHANGED frameChan
  BY <1>1 DEF TypeOK
<1>2. CASE Len(frameChan) < QueueCap /\ frameChan' = Append(frameChan, p) /\ activePort' = p
  BY <1>2, PortFacts DEF TypeOK
<1>. QED
  BY <1>1, <1>2 DEF HandlePacket, Enqueue

LEMMA ListenerStarts == Init => ListenerInv
BY PortFacts
DEF Init, ListenerInv, TypeOK, Remembered, NewestIsActive

LEMMA ListenerSteps == ListenerInv /\ [Next]_vars => ListenerInv'
<1> SUFFICES ASSUME ListenerInv, [Next]_vars
             PROVE  ListenerInv'
  OBVIOUS
<1> USE PortFacts
<1>1. ASSUME NEW p \in Ports, HandlePacket(p)
      PROVE  ListenerInv'
  <2>1. /\ reader[p] = "handle" /\ reader' = [reader EXCEPT ![p] = "top"]
        /\ stage' = stage /\ newest' \in {newest, p}
    BY <1>1 DEF HandlePacket
  <2>5. /\ activePort' \in Ports /\ silence' = quiet'
        /\ quiet' = [quiet EXCEPT ![p] = 0]
    BY <1>1, HandleFacts
  <2>6. frameChan' \in Seq(Ports) /\ Len(frameChan') <= QueueCap
    BY <1>1, EnqueueFacts DEF ListenerInv
  <2>8. quiet' \in [Ports -> 0..Dropout] /\ silence' \in [Ports -> 0..Dropout]
    BY <2>5 DEF ListenerInv, TypeOK
  <2>9. reader' \in [Ports -> {"top", "reading", "handle", "gone"}]
    BY <2>1 DEF ListenerInv, TypeOK
  <2>2. TypeOK'
    BY <2>1, <2>5, <2>6, <2>8, <2>9 DEF ListenerInv, TypeOK
  <2>3. NewestIsActive'
    <3> SUFFICES ASSUME newest' # NoPort, silence'[newest'] < Dropout
                 PROVE  activePort' = newest'
      BY DEF NewestIsActive
    <3>1. CASE silence[p] >= Dropout
      BY <1>1, <3>1, HandleFacts
    <3>2. CASE silence[p] < Dropout /\ newest # p
      BY <1>1, <3>2, HandleFacts DEF ListenerInv, TypeOK, Remembered
    <3>3. CASE silence[p] < Dropout /\ newest = p
      BY <1>1, <3>3, HandleFacts
    <3>. QED
      BY <3>1, <3>2, <3>3 DEF ListenerInv, TypeOK
  <2>7. newest' # NoPort
    <3>1. CASE silence[p] >= Dropout
      BY <1>1, <3>1, HandleFacts
    <3>2. CASE silence[p] < Dropout
      BY <2>1, <3>2 DEF ListenerInv, Remembered
    <3>. QED
      BY <3>1, <3>2 DEF ListenerInv, TypeOK
  <2>. QED
    BY <2>2, <2>3, <2>5, <2>7 DEF ListenerInv, Remembered
<1>2. ASSUME NEW p \in Ports, CheckDropout(p)
      PROVE  ListenerInv'
  BY <1>2 DEF CheckDropout, Ended, chanVars, ListenerInv, TypeOK, Remembered, NewestIsActive
<1>3. ASSUME NEW p \in Ports, BeginRead(p) \/ Receive(p) \/ ReadFails(p) \/ Leave(p)
      PROVE  ListenerInv'
  BY <1>3
  DEF BeginRead, Receive, ReadFails, Leave, ListenerInv, TypeOK, Remembered, NewestIsActive
<1>4. CASE Consume
  <2>1. frameChan' \in Seq(Ports) /\ Len(frameChan') <= QueueCap
    BY <1>4 DEF Consume, ListenerInv, TypeOK
  <2>. QED
    BY <1>4, <2>1 DEF Consume, ListenerInv, TypeOK, Remembered, NewestIsActive
<1>5. CASE Cancel \/ Close
  BY <1>5
  DEF Cancel, Close, CloseSockets, CloseChannel, chanVars,
      ListenerInv, TypeOK, Remembered, NewestIsActive
<1>6. CASE Tick
  <2>1. /\ quiet' \in [Ports -> 0..Dropout] /\ silence' \in [Ports -> 0..Dropout]
        /\ quiet' = silence'
        /\ \A p \in Ports : silence[p] <= silence'[p]
    BY <1>6, LaterFacts DEF Tick, ListenerInv, TypeOK, Remembered
  <2>. QED
    BY <1>6, <2>1 DEF Tick, chanVars, ListenerInv, TypeOK, Remembered, NewestIsActive
<1>7. CASE UNCHANGED vars
  BY <1>7 DEF vars, ListenerInv, TypeOK, Remembered, NewestIsActive
<1>. QED
  BY <1>1, <1>2, <1>3, <1>4, <1>5, <1>6, <1>7 DEF Next, Read

LEMMA ListenerInvariant == Spec => []ListenerInv
  BY ListenerStarts, ListenerSteps, PTL DEF Spec

\* The listener's variables keep their types and the channel its capacity.
THEOREM ListenerTypeCorrect == Spec => []TypeOK
  BY ListenerInvariant, PTL DEF ListenerInv

\* The transmission that began last holds the channel while it sends.
THEOREM NewestTransmissionHeard == Spec => []NewestIsActive
  BY ListenerInvariant, PTL DEF ListenerInv

\* An older transmission enqueues nothing while a newer one is heard.
THEOREM OlderSuppressed == Spec => OlderStaysSuppressed
<1> DEFINE Suppressed == Len(frameChan') > Len(frameChan) =>
                            \/ frameChan'[Len(frameChan')] = newest'
                            \/ silence[newest] >= Dropout
<1>1. ASSUME ListenerInv, [Next]_vars
      PROVE  [Suppressed]_vars
  <2>0. TypeOK /\ Remembered
    BY <1>1 DEF ListenerInv
  <2>1. ASSUME NEW p \in Ports, HandlePacket(p), Len(frameChan') > Len(frameChan),
               ~ (silence[newest] >= Dropout)
        PROVE  frameChan'[Len(frameChan')] = newest'
    <3>1. frameChan'[Len(frameChan')] = p /\ activePort' = p
      BY <2>0, <2>1, EnqueueFacts
    <3>2. CASE silence[p] >= Dropout
      BY <1>1, <2>1, <3>1, <3>2, HandleFacts
    <3>3. CASE silence[p] < Dropout
      <4>1. newest \in Ports /\ newest # NoPort
        BY <2>0, <3>3 DEF TypeOK, Remembered
      <4>2. silence[newest] < Dropout
        BY <2>0, <2>1, <4>1, PortFacts DEF TypeOK
      <4>. QED
        BY <1>1, <2>1, <3>1, <3>3, <4>1, <4>2, HandleFacts
    <3>. QED
      BY <2>0, <3>2, <3>3, PortFacts DEF TypeOK
  <2>2. CASE Consume
    BY <2>0, <2>2 DEF Consume, TypeOK
  <2>3. CASE frameChan' = frameChan
    BY <2>0, <2>3 DEF TypeOK
  <2>. QED
    BY <1>1, <2>1, <2>2, <2>3
    DEF Next, Read, vars, chanVars, CheckDropout, BeginRead, Receive, ReadFails, Leave, Cancel,
        Close, CloseSockets, CloseChannel, Tick
<1>. QED
  BY <1>1, ListenerInvariant, PTL DEF Spec, OlderStaysSuppressed

-----------------------------------------------------------------------------
(* The recorder.                                                             *)

\* The inductive invariant: NothingLost and OpenClipHasTimer depend on the
\* agreement of the recording phase with the buffer that RecorderTypeOK states.
RecorderInv == RecorderTypeOK /\ NothingLost /\ OpenClipHasTimer

\* The first n packets, in arrival order.
First(n) == [i \in 1..n |-> i]

\* Appending packet n + 1 to the first n gives the first n + 1.
LEMMA AllAppend ==
  ASSUME NEW n \in Nat
  PROVE  Append(First(n), n + 1) = First(n + 1)
<1>1. First(n) \in Seq(Nat) /\ Len(First(n)) = n
  BY DEF First
<1>2. Append(First(n), n + 1) = [i \in 1..(n + 1) |-> IF i = n + 1 THEN n + 1 ELSE First(n)[i]]
  BY <1>1
<1>. QED
  BY <1>2 DEF First

\* The type of a concatenation, stated once for the steps that cite it.
LEMMA ConcatType ==
  ASSUME NEW s \in Seq(Nat), NEW t \in Seq(Nat)
  PROVE  s \o t \in Seq(Nat)
OBVIOUS

\* Appending to the second of two sequences is appending to their concatenation.
LEMMA ConcatAppend ==
  ASSUME NEW s \in Seq(Nat), NEW t \in Seq(Nat), NEW e \in Nat
  PROVE  s \o Append(t, e) = Append(s \o t, e)
OBVIOUS

\* Finishing a clip moves the buffer to what is saved and loses nothing.
LEMMA FinaliseKeeps ==
  ASSUME RecorderTypeOK, Finalise(phase, clipBuf)
  PROVE  /\ saved' = saved \o clipBuf
         /\ saved' \in Seq(Nat)
         /\ saved' \o clipBuf' = saved \o clipBuf
<1>1. saved' = saved \o clipBuf
  BY DEF RecorderTypeOK, Finalise
<1>. QED
  BY <1>1 DEF RecorderTypeOK, Finalise

\* A push extends what is saved and buffered together by the new packet.
LEMMA PushAppends ==
  ASSUME RecorderInv, Push
  PROVE  /\ Appended \in Seq(Nat) /\ Appended # <<>>
         /\ saved \o Appended = First(packets + 1)
<1>1. Appended = Append(clipBuf, packets + 1)
  BY DEF Appended, RecorderInv, RecorderTypeOK
<1>2. packets + 1 \in Nat /\ clipBuf \in Seq(Nat) /\ saved \in Seq(Nat)
  BY DEF RecorderInv, RecorderTypeOK
<1>3. saved \o Appended = Append(saved \o clipBuf, packets + 1)
  BY <1>1, <1>2, ConcatAppend
<1>4. saved \o clipBuf = First(packets)
  BY DEF RecorderInv, NothingLost, First
<1>5. Append(First(packets), packets + 1) = First(packets + 1)
  BY AllAppend DEF RecorderInv, RecorderTypeOK
<1>6. Appended \in Seq(Nat) /\ Appended # <<>>
  BY <1>1, <1>2
<1>. QED
  BY <1>3, <1>4, <1>5, <1>6

\* Nothing has been received and nothing is open at the start.
LEMMA RecorderStarts == RecorderInit => RecorderInv
<1> SUFFICES ASSUME RecorderInit
             PROVE  RecorderInv
  OBVIOUS
<1>1. RecorderTypeOK /\ OpenClipHasTimer
  BY RecorderAssumption DEF RecorderInit, RecorderTypeOK, OpenClipHasTimer
<1>2. saved \o clipBuf = <<>> /\ packets = 0 /\ station = "on"
  BY DEF RecorderInit
<1>3. First(0) = <<>>
  BY DEF First
<1>4. NothingLost
  BY <1>2, <1>3 DEF NothingLost, First
<1>. QED
  BY <1>1, <1>4 DEF RecorderInv

LEMMA RecorderSteps == RecorderInv /\ [RecorderNext]_recorderVars => RecorderInv'
<1> SUFFICES ASSUME RecorderInv, [RecorderNext]_recorderVars
             PROVE  RecorderInv'
  OBVIOUS
<1> USE RecorderAssumption
<1>1. CASE Push
  <2>1. /\ Appended \in Seq(Nat) /\ Appended # <<>>
        /\ saved \o Appended = First(packets + 1)
    BY <1>1, PushAppends
  <2>2. /\ packets' = packets + 1 /\ packets' \in Nat
        /\ station' = "on" /\ gap' = 0 /\ waiting' = waiting
    BY <1>1 DEF Push, RecorderInv, RecorderTypeOK
  <2>3. CASE Len(Appended) >= MaxFrames
    <3>1. Finalise("recording", Appended)
      BY <1>1, <2>3 DEF Push
    <3>2. saved' = saved \o Appended /\ clipBuf' = <<>>
      BY <3>1 DEF Finalise
    <3>5. saved \in Seq(Nat)
      BY DEF RecorderInv, RecorderTypeOK
    <3>6. saved' \in Seq(Nat)
      BY <2>1, <3>2, <3>5, ConcatType
    <3>3. RecorderTypeOK'
      BY <2>2, <3>1, <3>2, <3>6 DEF Finalise, RecorderInv, RecorderTypeOK
    <3>4. NothingLost'
      BY <2>1, <2>2, <3>2 DEF NothingLost, First
    <3>. QED
      BY <3>1, <3>3, <3>4 DEF RecorderInv, OpenClipHasTimer, Finalise
  <2>4. CASE ~ (Len(Appended) >= MaxFrames)
    <3>1. phase' = "recording" /\ clipBuf' = Appended /\ timer' = "set" /\ saved' = saved
      BY <1>1, <2>4 DEF Push
    <3>2. RecorderTypeOK'
      BY <2>1, <2>2, <3>1 DEF RecorderInv, RecorderTypeOK
    <3>3. NothingLost'
      BY <2>1, <2>2, <3>1 DEF NothingLost, First
    <3>. QED
      BY <3>1, <3>2, <3>3 DEF RecorderInv, OpenClipHasTimer
  <2>. QED
    BY <2>3, <2>4
<1>2. CASE Fire
  BY <1>2 DEF Fire, RecorderInv, RecorderTypeOK, NothingLost, OpenClipHasTimer
<1>3. CASE Callback
  <2>1. Finalise(phase, clipBuf) /\ packets' = packets /\ station' = station
    BY <1>3 DEF Callback
  <2>2. saved' \in Seq(Nat) /\ saved' \o clipBuf' = saved \o clipBuf
    BY <2>1, FinaliseKeeps DEF RecorderInv
  <2>3. RecorderTypeOK'
    BY <1>3, <2>1, <2>2 DEF Callback, Finalise, RecorderInv, RecorderTypeOK
  <2>. QED
    BY <2>1, <2>2, <2>3 DEF RecorderInv, NothingLost, OpenClipHasTimer, Finalise
<1>4. CASE StopByReload
  <2>1. Finalise(phase, clipBuf) /\ packets' = packets /\ station' = "reloaded"
    BY <1>4 DEF StopByReload
  <2>2. saved' \in Seq(Nat) /\ saved' \o clipBuf' = saved \o clipBuf
    BY <2>1, FinaliseKeeps DEF RecorderInv
  <2>3. RecorderTypeOK'
    BY <1>4, <2>1, <2>2 DEF StopByReload, Finalise, RecorderInv, RecorderTypeOK
  <2>. QED
    BY <2>1, <2>2, <2>3 DEF RecorderInv, NothingLost, OpenClipHasTimer, Finalise
<1>5. CASE Shutdown
  BY <1>5 DEF Shutdown, RecorderInv, RecorderTypeOK, NothingLost, OpenClipHasTimer
<1>6. CASE TimePasses
  BY <1>6 DEF TimePasses, RecorderInv, RecorderTypeOK, NothingLost, OpenClipHasTimer
<1>7. CASE UNCHANGED recorderVars
  BY <1>7 DEF recorderVars, RecorderInv, RecorderTypeOK, NothingLost, OpenClipHasTimer
<1>. QED
  BY <1>1, <1>2, <1>3, <1>4, <1>5, <1>6, <1>7 DEF RecorderNext

LEMMA RecorderInvariant == RecorderSpec => []RecorderInv
  BY RecorderStarts, RecorderSteps, PTL DEF RecorderSpec

\* The recorder's variables keep their types, and its phase agrees
\* with its buffer.
THEOREM RecorderTypeCorrect == RecorderSpec => []RecorderTypeOK
  BY RecorderInvariant, PTL DEF RecorderInv

\* No packet is lost, duplicated or reordered between Push and onClip, for any
\* interleaving of pushes, late timer callbacks and a reload's Flush.
THEOREM RecorderLosesNothing == RecorderSpec => []NothingLost
  BY RecorderInvariant, PTL DEF RecorderInv

\* A clip in progress always has a pending timer or callback that will end it.
THEOREM RecorderClipHasTimer == RecorderSpec => []OpenClipHasTimer
  BY RecorderInvariant, PTL DEF RecorderInv

\* A clip is open past the gap limit only while a callback waits for the lock.
THEOREM RecorderOverdue == RecorderSpec => []OverdueOnlyWhileWaiting
<1> DEFINE Inv == RecorderInv /\ (timer = "set" => gap <= GapLimit)
<1>1. RecorderInit => Inv
  BY RecorderStarts, RecorderAssumption DEF RecorderInit
<1>2. Inv /\ [RecorderNext]_recorderVars => Inv'
  <2> SUFFICES ASSUME Inv, [RecorderNext]_recorderVars
               PROVE  (timer = "set" => gap <= GapLimit)'
    BY RecorderSteps
  <2>. QED
    BY RecorderAssumption
    DEF RecorderNext, recorderVars, Push, Fire, Callback, StopByReload, Shutdown, TimePasses, Finalise,
        RecorderInv, RecorderTypeOK
<1>3. Inv => OverdueOnlyWhileWaiting
  BY RecorderAssumption DEF RecorderInv, RecorderTypeOK, OpenClipHasTimer, OverdueOnlyWhileWaiting
<1>. QED
  BY <1>1, <1>2, <1>3, PTL DEF RecorderSpec

-----------------------------------------------------------------------------
(* The archive, under one fault: numbers, and sets of folders.              *)

LEMMA LeastNumber ==
  ASSUME NEW T, T \subseteq Nat, T # {}
  PROVE  \E x \in T : \A y \in T : x <= y
<1> DEFINE R == OpToRel(<, Nat)
<1>1. IsWellFoundedOn(R, Nat)
  BY NatLessThanWellFounded
<1>2. \A x, y \in Nat : x < y => <<x, y>> \in R
  BY DEF OpToRel
<1> HIDE DEF R
<1>3. \E x \in T : \A y \in T : ~ (<<y, x>> \in R)
  BY <1>1, WFMin, Zenon
<1>4. PICK x \in T : \A y \in T : ~ (<<y, x>> \in R)
  BY <1>3
<1>5. \A y \in T : ~ (y < x)
  BY <1>2, <1>4
<1> QED BY <1>4, <1>5

LEMMA GreatestNumber ==
  ASSUME NEW T, T \subseteq Nat, T # {}, NEW b \in Nat, \A x \in T : x <= b
  PROVE  \E x \in T : \A y \in T : y <= x
<1> DEFINE U == {b - x : x \in T}
<1>1. U \subseteq Nat /\ U # {}
  <2>1. \A x \in T : b - x \in Nat
    OBVIOUS
  <2>2. \E x \in T : b - x \in U
    OBVIOUS
  <2> QED BY <2>1, <2>2
<1>2. \E u \in U : \A v \in U : u <= v
  <2> HIDE DEF U
  <2> QED BY <1>1, LeastNumber
<1>3. PICK x \in T : \A v \in U : b - x <= v
  BY <1>2
<1>4. \A y \in T : b - x <= b - y
  BY <1>3
<1> QED BY <1>4

\* Finitely many numbers have a bound.
LEMMA BoundedNumbers ==
  ASSUME NEW N \in Nat, NEW h \in [1..N -> Nat]
  PROVE  \E b \in Nat : \A i \in 1..N : h[i] <= b
<1> DEFINE Bounded(n) == \E b \in Nat : \A i \in 1..n : h[i] <= b
           Bad == {n \in 0..N : ~Bounded(n)}
<1>1. SUFFICES ASSUME Bad # {} PROVE FALSE
  <2>1. N \in Bad \/ Bounded(N)
    <3>1. N \in 0..N
      OBVIOUS
    <3> HIDE DEF Bounded
    <3> QED BY <3>1
  <2> QED BY <2>1
<1>2. Bad \subseteq 0..N /\ Bad \subseteq Nat
  <2>1. Bad \subseteq 0..N
    <3> HIDE DEF Bounded
    <3> QED OBVIOUS
  <2> HIDE DEF Bad
  <2> QED BY <2>1
<1>3. PICK n \in Bad : \A m \in Bad : n <= m
  <2> HIDE DEF Bad
  <2> QED BY <1>1, <1>2, LeastNumber
<1>4. n # 0
  <2>1. \A i \in 1..0 : h[i] <= 0
    OBVIOUS
  <2> QED BY <1>3, <2>1
<1>5. n \in 0..N /\ n - 1 \in 0..N /\ n \in 1..N
  <2>1. n \in 0..N
    BY <1>3
  <2> QED BY <1>4, <2>1
<1>6. Bounded(n - 1)
  <2>1. n - 1 \notin Bad
    <3> HIDE DEF Bad
    <3> QED BY <1>2, <1>3
  <2> HIDE DEF Bounded
  <2> QED BY <1>5, <2>1
<1>7. PICK b \in Nat : \A i \in 1..n - 1 : h[i] <= b
  BY <1>6
<1>8. h[n] \in Nat
  BY <1>5
<1>9. ASSUME NEW i \in 1..n PROVE h[i] <= b + h[n]
  <2>1. CASE i = n
    BY <1>8, <2>1
  <2>2. CASE i # n
    <3>1. i \in 1..n - 1 /\ i \in 1..N
      BY <1>5, <2>2
    <3>2. h[i] <= b /\ h[i] \in Nat
      BY <1>7, <3>1
    <3> QED BY <1>8, <3>2
  <2> QED BY <2>1, <2>2
<1>10. Bounded(n)
  <2>1. b + h[n] \in Nat
    BY <1>8
  <2> QED BY <1>9, <2>1
<1> QED BY <1>3, <1>10

LEMMA MinFacts ==
  ASSUME NEW T, T \subseteq Nat, T # {}
  PROVE  Min(T) \in T /\ \A y \in T : Min(T) <= y
<1>1. \E x \in T : \A y \in T : x <= y
  BY LeastNumber
<1> QED BY <1>1 DEF Min

LEMMA FileNames == Csv \notin Wavs /\ "none" \notin Wavs /\ Dirs \subseteq Nat /\ 1 \in Dirs /\ NDirs \in Dirs
BY ArchiveAssumption DEF Dirs

-----------------------------------------------------------------------------
(* The inductive invariant: of each recording, how far it is and which of   *)
(* its copies the pass may use.                                             *)

Whole(d, w) == Has(d, w) /\ Body(d, w) = Wav

\* The worker has created the file in folder d, or will not come there again.
Done(d, w) == save.wav = w => d < save.dir \/ (d = save.dir /\ save.open)

Noted(d, w) == d \in DOMAIN pass.seen /\ w \in DOMAIN pass.seen[d]

Copying == pass.at \in {"copy", "rename"}

\* What the pass has noted of the copy in d is true for good, unless it is lost.
Settled(d, w) ==
    /\ Noted(d, w) /\ pass.seen[d][w].size = 2
    /\ save.wav = w => Done(d, w) /\ Has(d, w)
    /\ Has(d, w) => Whole(d, w) /\ disk[d][w].stamp = pass.seen[d][w].stamp

\* Folder e has the copy that the one in folder d was made from.
Original(e, d, w) ==
    /\ e <= d /\ Done(e, w) /\ Whole(e, w) /\ disk[e][w].stamp = disk[d][w].stamp
    /\ e \in DOMAIN pass.seen => Settled(e, w)

\* A copy in a folder the worker has still to come to is the sync's.
Copied(d, w) ==
    /\ Whole(d, w) /\ disk[d][w].stamp <= horizon
    /\ pass.at # "rest" => disk[d][w].stamp <= pass.limit
    /\ \E e \in Dirs : Original(e, d, w)

\* The primary has a whole copy, which is older, so that a pass that notes what is
\* cut short has noted the primary's before.
Backed(d, w) ==
    /\ Whole(1, w) /\ disk[1][w].stamp < disk[d][w].stamp
    /\ pass.at # "rest" /\ disk[d][w].stamp <= pass.limit /\ 1 \in DOMAIN pass.seen =>
          Settled(1, w)

\* Copy d is not the best one: e is better, and settled.
Beaten(d, e, w) ==
    /\ Settled(e, w)
    /\ \/ pass.seen[d][w].size < 2
       \/ pass.seen[d][w].stamp <= pass.seen[e][w].stamp /\ e < d

\* Not handed to the worker yet.
Fresh(w) ==
    /\ w \in unsaved /\ save.wav # w
    /\ \A d \in Dirs : ~Has(d, w) /\ ~Noted(d, w)

\* In the primary, as the first.
Starting(w) ==
    /\ w \notin unsaved /\ save.wav = w /\ save.dir = 1 /\ ~save.detached
    /\ \A d \in Dirs : ~Noted(d, w) /\ (Has(d, w) => d = 1 /\ save.open)

\* Never whole in any folder.
Doomed(w) ==
    /\ w \notin unsaved /\ save.wav # w
    /\ \A d \in Dirs : ~Whole(d, w)
    /\ pass.at = "rename" /\ pass.file = w => pass.body # Wav

\* Whole in the primary, once; what is cut short since is the fault's.
NoneCut(w) == \A d \in Dirs : Has(d, w) => Whole(d, w) \/ Writing(d, w) \/ faults = 1

CutBacked(w) ==
    \A d \in Dirs :
        Has(d, w) /\ ~Whole(d, w) /\ (faults = 0 \/ ~Writing(d, w)) => Backed(d, w)

AheadCopied(w) == \A d \in Dirs : Has(d, w) /\ ~Done(d, w) => Copied(d, w)

NotedSettled(w) ==
    \A d \in Dirs : Noted(d, w) => Settled(d, w) \/ \E e \in Dirs : Beaten(d, e, w)

CopyWhole(w) ==
    pass.at = "rename" /\ pass.file = w =>
        /\ pass.body = Wav /\ Settled(Source, w)
        /\ pass.stamp = pass.seen[Source][w].stamp

Kept(w) ==
    /\ w \notin unsaved /\ (save.wav = w => save.dir > 1 /\ (faults = 0 => Whole(1, w)))
    /\ NoneCut(w) /\ CutBacked(w) /\ AheadCopied(w)
    /\ NotedSettled(w) /\ CopyWhole(w)

\* How far the recording is.
Stage(w) == Fresh(w) \/ Starting(w) \/ Doomed(w) \/ Kept(w)

Progress == \A w \in Wavs : Stage(w)

Bodies == {<<>>, <<1>>, Wav}

\* An open file's entry is empty, and too young for any scan.
Young(d, w) == Has(d, w) /\ Body(d, w) = <<>> /\ disk[d][w].stamp > horizon

BeingWritten == \A d \in Dirs, w \in Wavs : Writing(d, w) => Young(d, w)

Folder == UNION {[S -> [body : Seq(Nat), stamp : Nat]] : S \in SUBSET Files}
Listing == UNION {[S -> [size : Nat, stamp : Nat]] : S \in SUBSET Files}

FolderOK(d) ==
    /\ \A f \in DOMAIN disk[d] : disk[d][f].stamp <= clock
    /\ \A w \in Wavs : Has(d, w) => Body(d, w) \in Bodies

DiskOK ==
    /\ disk \in [Dirs -> Folder] /\ \A d \in Dirs : FolderOK(d)
    /\ clock \in Nat /\ horizon \in 0..clock
    /\ rows \in 0..Rows /\ faults \in 0..1 /\ unsaved \subseteq Wavs

SaveOK ==
    /\ save \in [wav : Wavs \cup {"none"}, dir : 0..NDirs, open : BOOLEAN, detached : BOOLEAN]
    /\ save.wav = "none" => save = IdleWorker
    /\ save.wav # "none" => save.dir # None
    /\ save.detached => save.open

\* What the pass has noted.
SeenOK ==
    \A d \in DOMAIN pass.seen : \A f \in DOMAIN pass.seen[d] :
        /\ pass.seen[d][f].stamp <= pass.limit
        /\ f \in Wavs => pass.seen[d][f].size <= 2

SomeNoted == {f \in Files : \E d \in Dirs : Noted(d, f)}

PassRecord ==
    [at : {"rest", "scan", "copy", "rename"}, limit : Nat, seen : Seq(Listing),
     todo : SUBSET Files, file : Files, dst : 0..NDirs, body : Seq(Nat), stamp : Nat]

PassOK ==
    /\ pass \in PassRecord
    /\ pass.limit <= horizon
    /\ SeenOK
    /\ Len(pass.seen) <= NDirs
    /\ pass.at = "rest" => pass = AtRest
    /\ pass.at = "scan" => Len(pass.seen) < NDirs
    /\ Copying =>
         /\ Len(pass.seen) = NDirs
         /\ pass.todo \subseteq SomeNoted /\ pass.file \in SomeNoted
         /\ pass.dst \in Targets(pass.seen, pass.file, 0)
    /\ pass.at = "rename" =>
         pass.stamp <= pass.limit /\ (pass.file \in Wavs => pass.body \in Bodies)

\* The recordings' stages need all the rest: what a copy is made from is what the
\* scan has noted, and what a scan notes is never being written.
ArchiveInv == DiskOK /\ SaveOK /\ PassOK /\ BeingWritten /\ Progress

-----------------------------------------------------------------------------
(* Folders and what a write to one leaves of them.                          *)

LEMMA FolderFacts ==
  ASSUME NEW x
  PROVE  x \in Folder <=>
           /\ x = [f \in DOMAIN x |-> x[f]] /\ DOMAIN x \subseteq Files
           /\ \A f \in DOMAIN x : x[f] \in [body : Seq(Nat), stamp : Nat]
<1>1. ASSUME x \in Folder
      PROVE  /\ x = [f \in DOMAIN x |-> x[f]] /\ DOMAIN x \subseteq Files
             /\ \A f \in DOMAIN x : x[f] \in [body : Seq(Nat), stamp : Nat]
  BY <1>1 DEF Folder
<1>2. ASSUME x = [f \in DOMAIN x |-> x[f]], DOMAIN x \subseteq Files,
             \A f \in DOMAIN x : x[f] \in [body : Seq(Nat), stamp : Nat]
      PROVE  x \in Folder
  <2>1. x \in [DOMAIN x -> [body : Seq(Nat), stamp : Nat]]
    BY <1>2
  <2> QED BY <1>2, <2>1 DEF Folder
<1> QED BY <1>1, <1>2

LEMMA ListingFacts ==
  ASSUME NEW x
  PROVE  x \in Listing <=>
           /\ x = [f \in DOMAIN x |-> x[f]] /\ DOMAIN x \subseteq Files
           /\ \A f \in DOMAIN x : x[f] \in [size : Nat, stamp : Nat]
<1>1. ASSUME x \in Listing
      PROVE  /\ x = [f \in DOMAIN x |-> x[f]] /\ DOMAIN x \subseteq Files
             /\ \A f \in DOMAIN x : x[f] \in [size : Nat, stamp : Nat]
  BY <1>1 DEF Listing
<1>2. ASSUME x = [f \in DOMAIN x |-> x[f]], DOMAIN x \subseteq Files,
             \A f \in DOMAIN x : x[f] \in [size : Nat, stamp : Nat]
      PROVE  x \in Listing
  <2>1. x \in [DOMAIN x -> [size : Nat, stamp : Nat]]
    BY <1>2
  <2> QED BY <1>2, <2>1 DEF Listing
<1> QED BY <1>1, <1>2

\* A step that leaves folder e's file f as it is.
SameFile(e, f) ==
    /\ f \in DOMAIN disk'[e] <=> f \in DOMAIN disk[e]
    /\ f \in DOMAIN disk[e] => disk'[e][f] = disk[e][f]

\* A step that leaves this file in folder d and all others as they are.
Replaced(d, f, body, stamp) ==
    /\ disk' \in [Dirs -> Folder]
    /\ f \in DOMAIN disk'[d] /\ disk'[d][f] = [body |-> body, stamp |-> stamp]
    /\ \A e \in Dirs, g \in Files : e # d \/ g # f => SameFile(e, g)

LEMMA WithFacts ==
  ASSUME disk \in [Dirs -> Folder], NEW d \in Dirs, NEW f \in Files, NEW body \in Seq(Nat),
         NEW stamp \in Nat, disk' = With(d, f, body, stamp)
  PROVE  Replaced(d, f, body, stamp)
<1> DEFINE r == [body |-> body, stamp |-> stamp]
           n == [g \in DOMAIN disk[d] \cup {f} |-> IF g = f THEN r ELSE disk[d][g]]
<1>1. disk[d] \in Folder
  OBVIOUS
<1>2. /\ disk[d] = [g \in DOMAIN disk[d] |-> disk[d][g]] /\ DOMAIN disk[d] \subseteq Files
      /\ \A g \in DOMAIN disk[d] : disk[d][g] \in [body : Seq(Nat), stamp : Nat]
  BY <1>1, FolderFacts
<1>4. DOMAIN n = DOMAIN disk[d] \cup {f} /\ n[f] = r
      /\ \A g \in DOMAIN disk[d] : g # f => n[g] = disk[d][g]
  OBVIOUS
<1>5. n = [g \in DOMAIN n |-> n[g]]
  OBVIOUS
<1>6. disk' = [disk EXCEPT ![d] = n]
  BY DEF With
<1> HIDE DEF n
<1>7. n \in Folder
  <2>1. \A g \in DOMAIN n : n[g] \in [body : Seq(Nat), stamp : Nat]
    BY <1>2, <1>4
  <2>2. DOMAIN n \subseteq Files
    BY <1>2, <1>4
  <2> QED BY <1>5, <2>1, <2>2, FolderFacts
<1>8. disk' \in [Dirs -> Folder] /\ disk'[d] = n /\ \A e \in Dirs : e # d => disk'[e] = disk[e]
  BY <1>6, <1>7
<1>9. ASSUME NEW e \in Dirs, NEW g \in Files, e # d \/ g # f PROVE SameFile(e, g)
  BY <1>4, <1>8, <1>9 DEF SameFile
<1> QED BY <1>4, <1>8, <1>9 DEF Replaced

\* A step that removes this file.
Removed(d, f) ==
    /\ disk' \in [Dirs -> Folder]
    /\ f \notin DOMAIN disk'[d]
    /\ \A e \in Dirs, g \in Files : e # d \/ g # f => SameFile(e, g)

LEMMA WithoutFacts ==
  ASSUME disk \in [Dirs -> Folder], NEW d \in Dirs, NEW f \in Files, disk' = Without(d, f)
  PROVE  Removed(d, f)
<1> DEFINE n == Restrict(disk[d], DOMAIN disk[d] \ {f})
<1>2. /\ DOMAIN disk[d] \subseteq Files
      /\ \A g \in DOMAIN disk[d] : disk[d][g] \in [body : Seq(Nat), stamp : Nat]
  BY FolderFacts
<1>3. n = [g \in DOMAIN disk[d] \ {f} |-> disk[d][g]]
  BY DEF Restrict
<1>4. DOMAIN n = DOMAIN disk[d] \ {f} /\ \A g \in DOMAIN n : n[g] = disk[d][g]
  BY <1>3
<1>5. n = [g \in DOMAIN n |-> n[g]]
  BY <1>3
<1>6. disk' = [disk EXCEPT ![d] = n]
  BY DEF Without
<1> HIDE DEF n
<1>7. n \in Folder
  <2>1. \A g \in DOMAIN n : n[g] \in [body : Seq(Nat), stamp : Nat]
    BY <1>2, <1>4
  <2>2. DOMAIN n \subseteq Files
    BY <1>2, <1>4
  <2> QED BY <1>5, <2>1, <2>2, FolderFacts
<1>8. disk' \in [Dirs -> Folder] /\ disk'[d] = n /\ \A e \in Dirs : e # d => disk'[e] = disk[e]
  BY <1>6, <1>7
<1>9. ASSUME NEW e \in Dirs, NEW g \in Files, e # d \/ g # f PROVE SameFile(e, g)
  BY <1>4, <1>8, <1>9 DEF SameFile
<1> QED BY <1>4, <1>8, <1>9 DEF Removed

-----------------------------------------------------------------------------
(* The best copy, and how a pass goes on.                                   *)

\* d is no better than b.
NoBetter(d, b, w) ==
    LET x == pass.seen[d][w]
        y == pass.seen[b][w]
    IN \/ x.size < y.size
       \/ x.size = y.size /\ x.stamp < y.stamp
       \/ x.size = y.size /\ x.stamp = y.stamp /\ b <= d

LEMMA SeenFacts ==
  ASSUME PassOK
  PROVE  /\ DOMAIN pass.seen \subseteq Dirs
         /\ \A d \in DOMAIN pass.seen : \A f \in DOMAIN pass.seen[d] :
              /\ f \in Files
              /\ pass.seen[d][f].size \in Nat /\ pass.seen[d][f].stamp \in 0..pass.limit
         /\ \A d, f : Noted(d, f) =>
              /\ d \in Dirs /\ f \in Files
              /\ pass.seen[d][f].size \in Nat /\ pass.seen[d][f].stamp \in 0..pass.limit
              /\ f \in Wavs => pass.seen[d][f].size \in 0..2
         /\ pass.limit \in Nat
<1>1. pass.seen \in Seq(Listing) /\ pass.limit \in Nat /\ Len(pass.seen) <= NDirs
  BY DEF PassOK, PassRecord
<1>2. DOMAIN pass.seen \subseteq Dirs
  BY <1>1, ArchiveAssumption DEF Dirs
<1>3. ASSUME NEW d \in DOMAIN pass.seen, NEW f \in DOMAIN pass.seen[d]
      PROVE  /\ f \in Files
             /\ pass.seen[d][f].size \in Nat /\ pass.seen[d][f].stamp \in 0..pass.limit
             /\ f \in Wavs => pass.seen[d][f].size \in 0..2
  <2>1. pass.seen[d] \in Listing
    BY <1>1
  <2>2. f \in Files /\ pass.seen[d][f] \in [size : Nat, stamp : Nat]
    BY <2>1, ListingFacts
  <2>3. pass.seen[d][f].stamp <= pass.limit /\ (f \in Wavs => pass.seen[d][f].size <= 2)
    BY DEF PassOK, SeenOK
  <2> QED BY <1>1, <2>2, <2>3
<1> QED BY <1>1, <1>2, <1>3 DEF Noted

LEMMA BestFacts ==
  ASSUME PassOK, NEW w \in Files, \E d \in Dirs : Noted(d, w)
  PROVE  /\ Best(pass.seen, w) \in Dirs /\ Noted(Best(pass.seen, w), w)
         /\ \A d \in Dirs : Noted(d, w) => NoBetter(d, Best(pass.seen, w), w)
<1> DEFINE S == pass.seen
           Have == {d \in DOMAIN S : w \in DOMAIN S[d]}
           Largest == {d \in Have : \A e \in Have : S[e][w].size <= S[d][w].size}
           Newest == {d \in Largest : \A e \in Largest : S[e][w].stamp <= S[d][w].stamp}
<1>1. /\ Have \subseteq Nat /\ Have \subseteq Dirs /\ Have # {}
      /\ \A d \in Have : S[d][w].size \in Nat
      /\ \A d \in Have : S[d][w].stamp \in Nat /\ S[d][w].stamp <= pass.limit
      /\ pass.limit \in Nat
  <2>1. \A d \in Have : Noted(d, w)
    BY DEF Noted
  <2>2. ASSUME NEW d \in Have
        PROVE  /\ d \in Dirs /\ S[d][w].size \in Nat
               /\ S[d][w].stamp \in Nat /\ S[d][w].stamp <= pass.limit
    <3>1. Noted(d, w)
      BY <2>1
    <3>2. d \in Dirs /\ S[d][w].size \in Nat /\ S[d][w].stamp \in 0..pass.limit
      BY <3>1, SeenFacts
    <3> HIDE DEF Have
    <3> QED BY <3>2, SeenFacts
  <2>3. Have # {}
    BY DEF Noted
  <2> HIDE DEF Have
  <2> QED BY <2>2, <2>3, FileNames, SeenFacts
<1>a. /\ Largest \subseteq Have /\ Newest \subseteq Largest
      /\ \A d \in Have : d \in Largest <=> \A e \in Have : S[e][w].size <= S[d][w].size
      /\ \A d \in Largest : d \in Newest <=> \A e \in Largest : S[e][w].stamp <= S[d][w].stamp
  OBVIOUS
<1>6. Best(S, w) = Min(Newest)
  BY DEF Best
<1>b. \A d \in Dirs : Noted(d, w) <=> d \in Have
  BY DEF Noted
<1> HIDE DEF Have, Largest, Newest, S
<1>2. PICK d1 \in Have : \A e \in Have : S[e][w].size <= S[d1][w].size
  <2> DEFINE T == {S[d][w].size : d \in Have}
             h == [d \in 1..NDirs |-> IF d \in Have THEN S[d][w].size ELSE 0]
  <2>1. T \subseteq Nat /\ T # {}
    BY <1>1
  <2>2. h \in [1..NDirs -> Nat] /\ \A d \in Have : d \in 1..NDirs /\ h[d] = S[d][w].size
    BY <1>1 DEF Dirs
  <2>3. PICK k \in Nat : \A d \in 1..NDirs : h[d] <= k
    <3> HIDE DEF h
    <3> QED BY <2>2, BoundedNumbers, ArchiveAssumption
  <2>4. \A d \in Have : S[d][w].size <= k
    <3> HIDE DEF h
    <3> QED BY <2>2, <2>3
  <2>5. \A x \in T : x <= k
    BY <2>4
  <2>6. \E x \in T : \A y \in T : y <= x
    <3> HIDE DEF T
    <3> QED BY <2>1, <2>5, GreatestNumber
  <2> QED BY <2>6
<1>3. Largest # {}
  BY <1>a, <1>2
<1>4. PICK d2 \in Largest : \A e \in Largest : S[e][w].stamp <= S[d2][w].stamp
  <2> DEFINE T == {S[d][w].stamp : d \in Largest}
  <2>1. T \subseteq Nat /\ T # {} /\ \A x \in T : x <= pass.limit
    BY <1>1, <1>3, <1>a
  <2>2. \E x \in T : \A y \in T : y <= x
    <3> HIDE DEF T
    <3> QED BY <1>1, <2>1, GreatestNumber
  <2> QED BY <2>2
<1>5. Newest # {} /\ Newest \subseteq Nat
  BY <1>1, <1>3, <1>4, <1>a
<1>7. Min(Newest) \in Newest /\ \A y \in Newest : Min(Newest) <= y
  BY <1>5, MinFacts
<1> DEFINE b == Best(S, w)
<1>8. b \in Newest /\ \A y \in Newest : b <= y
  BY <1>6, <1>7
<1> HIDE DEF b
<1>c. b \in Have /\ b \in Largest
  BY <1>a, <1>8
<1>9. b \in Dirs /\ Noted(b, w)
  BY <1>1, <1>b, <1>c
<1>10. ASSUME NEW d \in Dirs, Noted(d, w) PROVE NoBetter(d, b, w)
  <2>1. d \in Have
    BY <1>10, <1>b
  <2>2. S[d][w].size <= S[b][w].size
    BY <1>a, <1>c, <2>1
  <2>3. CASE S[d][w].size < S[b][w].size
    BY <2>3 DEF NoBetter, S
  <2>4. CASE S[d][w].size = S[b][w].size
    <3>1. d \in Largest
      BY <1>a, <1>c, <2>1, <2>4
    <3>2. S[d][w].stamp <= S[b][w].stamp
      BY <1>a, <1>8, <3>1
    <3>3. CASE S[d][w].stamp < S[b][w].stamp
      BY <2>4, <3>3 DEF NoBetter, S
    <3>4. CASE S[d][w].stamp = S[b][w].stamp
      <4>1. d \in Newest
        BY <1>a, <1>8, <3>1, <3>4
      <4> QED BY <1>8, <2>4, <3>4, <4>1 DEF NoBetter, S
    <3> QED BY <1>1, <1>c, <2>1, <3>2, <3>3, <3>4
  <2> QED BY <1>1, <1>c, <2>1, <2>2, <2>3, <2>4
<1> QED BY <1>9, <1>10 DEF b, S

\* The folder that is to get a copy.
LEMMA TargetFacts ==
  ASSUME PassOK, Copying
  PROVE  /\ pass.dst \in Dirs /\ pass.dst # Source
         /\ Noted(pass.dst, pass.file) =>
              pass.seen[pass.dst][pass.file].size < pass.seen[Source][pass.file].size
         /\ DOMAIN pass.seen = Dirs
         /\ pass.file \in Files /\ \E d \in Dirs : Noted(d, pass.file)
<1>1. pass.dst \in Targets(pass.seen, pass.file, 0) /\ Len(pass.seen) = NDirs
      /\ pass.file \in SomeNoted
  BY DEF PassOK
<1>2. DOMAIN pass.seen = Dirs
  BY <1>1 DEF PassOK, PassRecord, Dirs
<1> QED BY <1>1, <1>2 DEF Targets, NeedsCopy, Source, Noted, Dirs, SomeNoted

LEMMA TargetsInDirs ==
  ASSUME NEW seen, NEW f, NEW d \in Nat
  PROVE  /\ Targets(seen, f, d) \subseteq Nat /\ Targets(seen, f, d) \subseteq Dirs
         /\ Targets(seen, f, d) \subseteq Targets(seen, f, 0)
<1>1. d + 1..NDirs \subseteq 0 + 1..NDirs /\ d + 1..NDirs \subseteq Dirs /\ Dirs \subseteq Nat
  BY ArchiveAssumption DEF Dirs
<1> QED BY <1>1 DEF Targets

\* The pass goes on with a copy, with what p has noted.
Onward(p) ==
    /\ pass' \in PassRecord
    /\ pass'.at = "copy" /\ pass'.seen = p.seen /\ pass'.limit = p.limit
    /\ pass'.file \in p.todo \cup {p.file} /\ pass'.todo \subseteq p.todo
    /\ pass'.dst \in Targets(p.seen, pass'.file, 0)

LEMMA GoOnFacts ==
  ASSUME NEW p \in PassRecord, NEW d \in Nat, GoOn(p, d)
  PROVE  pass' = AtRest \/ Onward(p)
<1>1. CASE Targets(p.seen, p.file, d) # {}
  <2> DEFINE m == Min(Targets(p.seen, p.file, d))
  <2>1. m \in Targets(p.seen, p.file, d)
    BY <1>1, TargetsInDirs, MinFacts
  <2>2. m \in Dirs /\ m \in Targets(p.seen, p.file, 0)
    BY <2>1, TargetsInDirs
  <2>3. pass' = [p EXCEPT !.at = "copy", !.dst = m, !.body = <<>>, !.stamp = 0]
    BY <1>1 DEF GoOn
  <2> HIDE DEF m
  <2>4. m \in 0..NDirs
    BY <2>2 DEF Dirs
  <2>5. pass' = [at |-> "copy", limit |-> p.limit, seen |-> p.seen, todo |-> p.todo,
                 file |-> p.file, dst |-> m, body |-> <<>>, stamp |-> 0]
    BY <2>3 DEF PassRecord
  <2>6. pass' \in PassRecord
    BY <2>4, <2>5 DEF PassRecord
  <2> QED BY <2>2, <2>5, <2>6 DEF Onward
<1>2. CASE Targets(p.seen, p.file, d) = {}
  <2> DEFINE Rest == {f \in p.todo : Targets(p.seen, f, 0) # {}}
  <2>1. SUFFICES ASSUME pass' # AtRest PROVE Onward(p)
    OBVIOUS
  <2>2. PICK f \in Rest : pass' = [p EXCEPT !.at = "copy", !.todo = Rest \ {f}, !.file = f,
                                      !.dst = Min(Targets(p.seen, f, 0)),
                                      !.body = <<>>, !.stamp = 0]
    BY <1>2, <2>1, Zenon DEF GoOn
  <2> DEFINE m == Min(Targets(p.seen, f, 0))
             r == Rest \ {f}
  <2>3. m \in Targets(p.seen, f, 0)
    BY <2>2, TargetsInDirs, MinFacts
  <2>4. m \in Dirs
    BY <2>3, TargetsInDirs
  <2>5. m \in 0..NDirs
    BY <2>4 DEF Dirs
  <2>6. f \in p.todo /\ r \subseteq p.todo /\ p.todo \subseteq Files
    BY DEF PassRecord
  <2>7. pass' = [p EXCEPT !.at = "copy", !.todo = r, !.file = f, !.dst = m,
                          !.body = <<>>, !.stamp = 0]
    BY <2>2
  <2>12. m = Min(Targets(p.seen, f, 0))
    OBVIOUS
  <2> HIDE DEF m, r, Rest
  <2>8. pass' = [at |-> "copy", limit |-> p.limit, seen |-> p.seen, todo |-> r,
                 file |-> f, dst |-> m, body |-> <<>>, stamp |-> 0]
    BY <2>7 DEF PassRecord
  <2>9. p.seen \in Seq(Listing) /\ p.limit \in Nat /\ r \in SUBSET Files /\ f \in Files
    BY <2>6 DEF PassRecord
  <2>10. pass' \in PassRecord
    BY <2>5, <2>8, <2>9 DEF PassRecord
  <2>11. m \in Targets(p.seen, f, 0)
    BY <2>3
  <2> QED BY <2>6, <2>8, <2>10, <2>11 DEF Onward
<1> QED BY <1>1, <1>2

-----------------------------------------------------------------------------
(* Steps that leave a recording's copies, and what the worker does of it, as *)
(* they are.                                                                *)

LEMMA CopyFacts ==
  ASSUME DiskOK, NEW d \in Dirs, NEW w \in Wavs
  PROVE  /\ w \in Files
         /\ Has(d, w) => /\ disk[d][w] \in [body : Seq(Nat), stamp : Nat]
                         /\ disk[d][w].stamp \in Nat /\ disk[d][w].stamp <= clock
                         /\ Body(d, w) = disk[d][w].body /\ Body(d, w) \in Bodies
         /\ ~Has(d, w) => Body(d, w) = <<>>
<1>1. disk[d] \in Folder /\ FolderOK(d)
  BY DEF DiskOK
<1>2. Has(d, w) => disk[d][w] \in [body : Seq(Nat), stamp : Nat]
  BY <1>1, FolderFacts DEF Has
<1> QED BY <1>1, <1>2 DEF FolderOK, Has, Body, Files

LEMMA WholeHas ==
  ASSUME NEW d, NEW w
  PROVE  Whole(d, w) <=> Has(d, w) /\ disk[d][w].body = Wav
BY DEF Whole, Has, Body

LEMMA SameCopy ==
  ASSUME NEW d \in Dirs, NEW w, SameFile(d, w)
  PROVE  /\ Has(d, w)' <=> Has(d, w)
         /\ Has(d, w) => disk'[d][w] = disk[d][w]
         /\ Whole(d, w)' <=> Whole(d, w)
         /\ Body(d, w)' = Body(d, w)
BY DEF SameFile, Has, Whole, Body

\* The step concerns another recording, or the pass only.
Apart(w) ==
    /\ \A d \in Dirs : SameFile(d, w)
    /\ save'.wav = w <=> save.wav = w
    /\ save.wav = w => save' = save
    /\ w \in unsaved' <=> w \in unsaved
    /\ horizon <= horizon' /\ horizon' \in Nat
    /\ faults' \in {faults, 1}

StillNoted(d) == d \in DOMAIN pass'.seen /\ pass'.seen[d] = pass.seen[d]

LEMMA ApartWorker ==
  ASSUME NEW d, NEW w, Apart(w)
  PROVE  (Done(d, w)' <=> Done(d, w)) /\ (Writing(d, w)' <=> Writing(d, w))
<1>1. CASE save.wav = w
  BY <1>1 DEF Apart, Done, Writing
<1>2. CASE save.wav # w
  BY <1>2 DEF Apart, Done, Writing
<1> QED BY <1>1, <1>2

LEMMA SettledApart ==
  ASSUME NEW d \in Dirs, NEW w, Apart(w), Settled(d, w), StillNoted(d)
  PROVE  Settled(d, w)'
<1>1. SameFile(d, w)
  BY DEF Apart
<1>2. Noted(d, w)' /\ pass'.seen[d][w] = pass.seen[d][w]
  BY DEF StillNoted, Settled, Noted
<1>3. save'.wav = w => save.wav = w
  BY DEF Apart
<1> QED BY <1>1, <1>2, <1>3, SameCopy, ApartWorker DEF Settled

LEMMA BackedApart ==
  ASSUME DiskOK, NEW d \in Dirs, NEW w \in Wavs, Apart(w), Backed(d, w), Has(d, w),
         pass'.at # "rest" => pass.at # "rest" /\ pass'.limit = pass.limit
                              /\ (1 \in DOMAIN pass'.seen => StillNoted(1))
                              /\ DOMAIN pass'.seen \subseteq DOMAIN pass.seen
  PROVE  Backed(d, w)'
<1>1. SameFile(d, w) /\ SameFile(1, w)
  BY FileNames DEF Apart
<1>2. Whole(1, w)' /\ disk'[1][w] = disk[1][w] /\ disk'[d][w] = disk[d][w]
  BY <1>1, SameCopy, WholeHas, FileNames DEF Backed
<1>3. ASSUME (pass.at # "rest" /\ disk[d][w].stamp <= pass.limit /\ 1 \in DOMAIN pass.seen)'
      PROVE  Settled(1, w)'
  BY <1>2, <1>3, SettledApart, FileNames DEF Backed
<1> QED BY <1>2, <1>3 DEF Backed

LEMMA CopiedApart ==
  ASSUME DiskOK, NEW d \in Dirs, NEW w \in Wavs, Apart(w), Copied(d, w),
         pass'.at # "rest" => pass.at # "rest" /\ pass'.limit = pass.limit,
         \A e \in DOMAIN pass'.seen : StillNoted(e),
         DOMAIN pass'.seen \subseteq DOMAIN pass.seen
  PROVE  Copied(d, w)'
<1>1. SameFile(d, w)
  BY DEF Apart
<1>2. Whole(d, w)' /\ disk'[d][w] = disk[d][w]
  BY <1>1, SameCopy, WholeHas DEF Copied
<1>3. PICK e \in Dirs : Original(e, d, w)
  BY DEF Copied
<1>4. Done(e, w)' /\ Whole(e, w)' /\ disk'[e][w].stamp = disk'[d][w].stamp
  <2>1. SameFile(e, w)
    BY DEF Apart
  <2> QED BY <1>2, <1>3, <2>1, SameCopy, WholeHas, ApartWorker DEF Original
<1>5. e \in DOMAIN pass'.seen => Settled(e, w)'
  BY <1>3, SettledApart DEF Original
<1>6. Original(e, d, w)'
  BY <1>3, <1>4, <1>5 DEF Original
<1>7. disk[d][w].stamp \in Nat /\ horizon \in Nat
  BY CopyFacts DEF DiskOK, Copied, Whole
<1>8. disk'[d][w].stamp <= horizon'
  BY <1>2, <1>7 DEF Copied, Apart
<1> QED BY <1>2, <1>6, <1>8 DEF Copied

\* What the pass has noted stays the same.
SeenSame == pass'.seen = pass.seen /\ pass'.limit = pass.limit

LEMMA NotedSame ==
  ASSUME SeenSame
  PROVE  /\ \A d, w : Noted(d, w)' <=> Noted(d, w)
         /\ \A d \in DOMAIN pass.seen : StillNoted(d)
BY DEF SeenSame, Noted, StillNoted

\* What is settled stays so.
Steady(w) == \A d \in Dirs : Settled(d, w) => Settled(d, w)'

LEMMA SteadyNoted ==
  ASSUME SeenSame, NEW w, Steady(w), NotedSettled(w)
  PROVE  NotedSettled(w)'
<1> SUFFICES ASSUME NEW d \in Dirs, Noted(d, w)
             PROVE  Settled(d, w)' \/ \E e \in Dirs : Beaten(d, e, w)'
  BY NotedSame DEF NotedSettled
<1>1. CASE Settled(d, w)
  BY <1>1 DEF Steady
<1>2. ASSUME NEW e \in Dirs, Beaten(d, e, w) PROVE Beaten(d, e, w)'
  BY <1>2 DEF Beaten, SeenSame, Steady
<1> QED BY <1>1, <1>2 DEF NotedSettled

LEMMA SteadyApart ==
  ASSUME NEW w, Apart(w), SeenSame
  PROVE  Steady(w)
<1>1. \A d : Settled(d, w) => StillNoted(d)
  BY NotedSame DEF Settled, Noted
<1> QED BY <1>1, SettledApart DEF Steady

\* What has to be shown of such a step, for a recording that is kept.
LEMMA KeptApart ==
  ASSUME DiskOK, NEW w \in Wavs, Apart(w), Kept(w),
         \A d \in Dirs : Has(d, w) /\ Backed(d, w) => Backed(d, w)',
         \A d \in Dirs : ~Done(d, w) /\ Copied(d, w) => Copied(d, w)',
         NotedSettled(w)', CopyWhole(w)'
  PROVE  Kept(w)'
<1>0. \A d \in Dirs : SameFile(d, w)
  BY DEF Apart
<1>f. faults \in 0..1
  BY DEF DiskOK
<1>1. w \notin unsaved' /\ (save'.wav = w => save'.dir > 1 /\ (faults' = 0 => Whole(1, w)'))
  <2>1. SUFFICES ASSUME save'.wav = w
                 PROVE  save'.dir > 1 /\ (faults' = 0 => Whole(1, w)')
    BY DEF Apart, Kept
  <2>2. save' = save /\ save.wav = w /\ (faults' = 0 => faults = 0)
    BY <2>1, <1>f DEF Apart
  <2> QED BY <1>0, <2>2, SameCopy, FileNames DEF Kept
<1>2. NoneCut(w)'
  <2> SUFFICES ASSUME NEW d \in Dirs, Has(d, w)'
               PROVE  Whole(d, w)' \/ Writing(d, w)' \/ faults' = 1
    BY DEF NoneCut
  <2>1. Whole(d, w) \/ Writing(d, w) \/ faults = 1
    BY <1>0, SameCopy DEF Kept, NoneCut
  <2> QED BY <1>0, <2>1, SameCopy, ApartWorker DEF Apart
<1>3. CutBacked(w)'
  <2> SUFFICES ASSUME NEW d \in Dirs, Has(d, w)', ~Whole(d, w)', faults' = 0 \/ ~Writing(d, w)'
               PROVE  Backed(d, w)'
    BY DEF CutBacked
  <2>1. Has(d, w) /\ ~Whole(d, w) /\ (faults = 0 \/ ~Writing(d, w))
    BY <1>0, <1>f, SameCopy, ApartWorker DEF Apart
  <2> QED BY <2>1 DEF Kept, CutBacked
<1>4. AheadCopied(w)'
  <2> SUFFICES ASSUME NEW d \in Dirs, Has(d, w)', ~Done(d, w)'
               PROVE  Copied(d, w)'
    BY DEF AheadCopied
  <2>1. Copied(d, w) /\ ~Done(d, w)
    BY <1>0, SameCopy, ApartWorker DEF Kept, AheadCopied
  <2> QED BY <2>1
<1> QED BY <1>1, <1>2, <1>3, <1>4 DEF Kept

LEMMA KeptSame ==
  ASSUME DiskOK, PassOK, NEW w \in Wavs, Apart(w), SeenSame, Kept(w), CopyWhole(w)',
         pass'.at # "rest" => pass.at # "rest"
  PROVE  Kept(w)'
<1>1. ASSUME NEW d \in Dirs, Has(d, w), Backed(d, w) PROVE Backed(d, w)'
  BY <1>1, BackedApart, NotedSame DEF SeenSame
<1>2. ASSUME NEW d \in Dirs, Copied(d, w) PROVE Copied(d, w)'
  BY <1>2, CopiedApart, NotedSame DEF SeenSame
<1>3. NotedSettled(w)'
  BY SteadyNoted, SteadyApart DEF Kept
<1> QED BY <1>1, <1>2, <1>3, KeptApart

\* The other stages.
Started(w) == Fresh(w) \/ Starting(w)

LEMMA StartedSame ==
  ASSUME NEW w, Apart(w), Started(w), \A d \in Dirs : ~Noted(d, w)'
  PROVE  Started(w)'
<1>1. \A d \in Dirs : Has(d, w)' <=> Has(d, w)
  BY SameCopy DEF Apart
<1>2. CASE Fresh(w)
  BY <1>1, <1>2 DEF Apart, Fresh, Started
<1>3. CASE Starting(w)
  BY <1>1, <1>3 DEF Apart, Starting, Started
<1> QED BY <1>2, <1>3 DEF Started

LEMMA DoomedSame ==
  ASSUME NEW w, Apart(w), Doomed(w), pass'.at = "rename" /\ pass'.file = w => pass'.body # Wav
  PROVE  Doomed(w)'
<1>1. \A d \in Dirs : Whole(d, w)' <=> Whole(d, w)
  BY SameCopy DEF Apart
<1> QED BY <1>1 DEF Apart, Doomed

-----------------------------------------------------------------------------
(* Steps of the pass.                                                       *)

\* It ends, or begins.
Cleared ==
    /\ pass'.seen = <<>> /\ pass'.at \in {"rest", "scan"}
    /\ pass'.at = "scan" => pass'.limit = horizon'

LEMMA NoneNoted ==
  ASSUME Cleared
  PROVE  \A d, w : d \notin DOMAIN pass'.seen /\ ~Noted(d, w)'
<1>1. DOMAIN pass'.seen = {}
  BY DEF Cleared
<1> QED BY <1>1 DEF Noted

LEMMA KeptCleared ==
  ASSUME DiskOK, NEW w \in Wavs, Apart(w), Kept(w), Cleared
  PROVE  Kept(w)'
<1>0. \A d \in Dirs : SameFile(d, w)
  BY DEF Apart
<1>1. ASSUME NEW d \in Dirs, Has(d, w), Backed(d, w) PROVE Backed(d, w)'
  <2>1. Whole(1, w)' /\ disk'[1][w] = disk[1][w] /\ disk'[d][w] = disk[d][w]
    BY <1>0, <1>1, SameCopy, WholeHas, FileNames DEF Backed
  <2> QED BY <1>1, <2>1, NoneNoted DEF Backed
<1>2. ASSUME NEW d \in Dirs, ~Done(d, w), Copied(d, w) PROVE Copied(d, w)'
  <2>1. Whole(d, w)' /\ disk'[d][w] = disk[d][w]
    BY <1>0, <1>2, SameCopy, WholeHas DEF Copied
  <2>2. PICK e \in Dirs : Original(e, d, w)
    BY <1>2 DEF Copied
  <2>3. Done(e, w)' /\ Whole(e, w)' /\ disk'[e][w].stamp = disk'[d][w].stamp
    BY <1>0, <2>1, <2>2, SameCopy, WholeHas, ApartWorker DEF Original
  <2>4. Original(e, d, w)'
    BY <2>2, <2>3, NoneNoted DEF Original
  <2>5. disk[d][w].stamp \in Nat /\ horizon \in Nat /\ horizon' \in Nat /\ horizon <= horizon'
    BY <1>2, CopyFacts DEF DiskOK, Copied, Whole, Apart
  <2>6. disk'[d][w].stamp <= horizon'
    BY <1>2, <2>1, <2>5 DEF Copied
  <2> QED BY <2>1, <2>4, <2>6 DEF Copied, Cleared
<1>3. NotedSettled(w)' /\ CopyWhole(w)'
  BY NoneNoted DEF NotedSettled, CopyWhole, Cleared
<1> QED BY <1>1, <1>2, <1>3, KeptApart

\* One more folder is scanned.
Extended(n) ==
    /\ pass.at = "scan" /\ pass'.at \in {"scan", "copy"} /\ pass'.limit = pass.limit
    /\ DOMAIN pass'.seen = DOMAIN pass.seen \cup {n} /\ n \in Dirs
    /\ DOMAIN pass.seen = {d \in Dirs : d < n}
    /\ \A d \in DOMAIN pass.seen : StillNoted(d)
    /\ pass'.seen[n] = Scanned(n, pass.limit)

LEMMA ScannedFacts ==
  ASSUME PassOK, DiskOK, NEW w \in Wavs, NEW n \in Dirs, Extended(n)
  PROVE  /\ \A d \in Dirs : Noted(d, w)' <=>
              Noted(d, w) \/ (d = n /\ Has(n, w) /\ disk[n][w].stamp <= pass.limit)
         /\ Noted(n, w)' =>
              pass'.seen[n][w] = [size |-> Len(Body(n, w)), stamp |-> disk[n][w].stamp]
<1>1. DOMAIN pass'.seen[n] = {f \in DOMAIN disk[n] : disk[n][f].stamp <= pass.limit}
  BY DEF Extended, Scanned
<1>2. ASSUME NEW f \in DOMAIN pass'.seen[n]
      PROVE  pass'.seen[n][f] = [size |-> Len(Body(n, f)), stamp |-> disk[n][f].stamp]
  BY <1>1, <1>2 DEF Extended, Scanned
<1>3. n \notin DOMAIN pass.seen
  BY FileNames DEF Extended
<1>4. ASSUME NEW d \in Dirs
      PROVE  Noted(d, w)' <=>
              Noted(d, w) \/ (d = n /\ Has(n, w) /\ disk[n][w].stamp <= pass.limit)
  <2>1. CASE d = n
    BY <1>1, <1>3, <2>1 DEF Noted, Has, Extended
  <2>2. CASE d # n
    BY <2>2 DEF Noted, Extended, StillNoted
  <2> QED BY <2>1, <2>2
<1> QED BY <1>2, <1>4 DEF Noted

\* A file being written is not seen.
LEMMA ScanSkips ==
  ASSUME PassOK, DiskOK, BeingWritten, NEW w \in Wavs, NEW n \in Dirs,
         Has(n, w), disk[n][w].stamp <= pass.limit
  PROVE  ~Writing(n, w)
<1>1. pass.limit \in Nat /\ horizon \in Nat /\ pass.limit <= horizon /\ disk[n][w].stamp \in Nat
  BY CopyFacts DEF PassOK, PassRecord, DiskOK
<1> QED BY <1>1 DEF BeingWritten, Young

LEMMA SettledNew ==
  ASSUME PassOK, DiskOK, NEW w \in Wavs, NEW n \in Dirs, Extended(n), Apart(w),
         Whole(n, w), Done(n, w), disk[n][w].stamp <= pass.limit
  PROVE  Settled(n, w)'
<1>1. SameFile(n, w)
  BY DEF Apart
<1>2. Has(n, w) /\ Whole(n, w)' /\ Has(n, w)' /\ disk'[n][w] = disk[n][w]
  BY <1>1, SameCopy DEF Whole
<1>3. Noted(n, w)' /\ pass'.seen[n][w] = [size |-> Len(Body(n, w)), stamp |-> disk[n][w].stamp]
  BY <1>2, ScannedFacts
<1>4. Len(Body(n, w)) = 2
  BY DEF Whole, Wav
<1> QED BY <1>2, <1>3, <1>4, ApartWorker DEF Settled

LEMMA NewNote ==
  ASSUME PassOK, DiskOK, BeingWritten, NEW w \in Wavs, NEW n \in Dirs, Extended(n), Apart(w),
         Kept(w), Noted(n, w)'
  PROVE  Settled(n, w)' \/ \E e \in Dirs : Beaten(n, e, w)'
<1>1. n \notin DOMAIN pass.seen /\ \A d \in Dirs : d < n => d \in DOMAIN pass.seen
  BY FileNames DEF Extended
<1>2. Has(n, w) /\ disk[n][w].stamp <= pass.limit
      /\ pass'.seen[n][w] = [size |-> Len(Body(n, w)), stamp |-> disk[n][w].stamp]
  BY <1>1, ScannedFacts DEF Noted
<1>3. ~Writing(n, w)
  BY <1>2, ScanSkips
<1>4. \A e \in Dirs : Settled(e, w) => Settled(e, w)' /\ pass'.seen[e] = pass.seen[e]
  <2>1. \A e : Settled(e, w) => StillNoted(e)
    BY DEF Extended, Settled, Noted
  <2> QED BY <2>1, SettledApart DEF StillNoted
<1>5. CASE Whole(n, w) /\ Done(n, w)
  BY <1>2, <1>5, SettledNew
<1>6. CASE Whole(n, w) /\ ~Done(n, w)
  <2>1. PICK e \in Dirs : Original(e, n, w)
    BY <1>2, <1>6 DEF Kept, AheadCopied, Copied
  <2>2. e < n
    <3>1. e # n /\ e <= n
      BY <1>6, <2>1 DEF Original
    <3> QED BY <3>1, FileNames
  <2>3. Settled(e, w) /\ Has(e, w)
    BY <1>1, <2>1, <2>2 DEF Original, Whole
  <2>4. pass.seen[e][w].stamp = disk[n][w].stamp /\ disk[n][w].stamp \in Nat
    BY <1>2, <2>1, <2>3, CopyFacts DEF Original, Settled
  <2>5. Beaten(n, e, w)'
    BY <1>2, <1>4, <2>2, <2>3, <2>4 DEF Beaten
  <2> QED BY <2>5
<1>7. CASE ~Whole(n, w)
  <2>1. Backed(n, w)
    BY <1>2, <1>3, <1>7 DEF Kept, CutBacked
  <2>2. n # 1 /\ 1 \in DOMAIN pass.seen
    <3>1. n # 1
      BY <1>7, <2>1 DEF Backed
    <3>2. 1 < n
      BY <3>1 DEF Dirs
    <3> QED BY <1>1, <3>1, <3>2, FileNames
  <2>3. Settled(1, w)
    BY <1>2, <2>1, <2>2 DEF Backed, Extended
  <2>4. Len(Body(n, w)) < 2
    <3>1. Body(n, w) \in Bodies /\ Body(n, w) # Wav
      BY <1>2, <1>7, CopyFacts DEF Whole
    <3>2. Body(n, w) = <<>> \/ Body(n, w) = <<1>>
      BY <3>1 DEF Bodies
    <3>3. Len(<<>>) < 2 /\ Len(<<1>>) < 2
      OBVIOUS
    <3> QED BY <3>2, <3>3, Zenon
  <2>5. Beaten(n, 1, w)'
    BY <1>2, <1>4, <2>3, <2>4, FileNames DEF Beaten
  <2> QED BY <2>5, FileNames
<1> QED BY <1>5, <1>6, <1>7

LEMMA KeptExtended ==
  ASSUME PassOK, DiskOK, BeingWritten, NEW w \in Wavs, NEW n \in Dirs, Extended(n), Apart(w),
         Kept(w)
  PROVE  Kept(w)'
<1>0. \A d \in Dirs : SameFile(d, w)
  BY DEF Apart
<1>n. 1 \in Dirs /\ pass.at # "rest" /\ pass'.at # "rest"
  BY FileNames DEF Extended
<1>s. \A e \in Dirs : Settled(e, w) => Settled(e, w)' /\ pass'.seen[e] = pass.seen[e]
  <2>1. \A e : Settled(e, w) => StillNoted(e)
    BY DEF Extended, Settled, Noted
  <2> QED BY <2>1, SettledApart DEF StillNoted
<1>1. ASSUME NEW d \in Dirs, Has(d, w), Backed(d, w) PROVE Backed(d, w)'
  <2>1. Whole(1, w)' /\ disk'[1][w] = disk[1][w] /\ disk'[d][w] = disk[d][w]
    BY <1>0, <1>1, SameCopy, WholeHas, FileNames DEF Backed
  <2>2. ASSUME disk[d][w].stamp <= pass.limit, 1 \in DOMAIN pass'.seen PROVE Settled(1, w)'
    <3>1. CASE 1 \in DOMAIN pass.seen
      BY <1>1, <1>n, <1>s, <2>2, <3>1 DEF Backed, Extended
    <3>2. CASE n = 1
      <4>1. Done(1, w)
        BY DEF Kept, Done
      <4>2. disk[1][w].stamp \in Nat /\ disk[d][w].stamp \in Nat /\ pass.limit \in Nat
        BY <1>1, <1>n, CopyFacts DEF PassOK, PassRecord, Backed, Whole
      <4>3. disk[1][w].stamp <= pass.limit
        BY <1>1, <2>2, <4>2 DEF Backed
      <4> QED BY <1>1, <1>n, <3>2, <4>1, <4>3, SettledNew DEF Backed
    <3> QED BY <2>2, <3>1, <3>2 DEF Extended
  <2> QED BY <1>1, <2>1, <2>2 DEF Backed, Extended
<1>2. ASSUME NEW d \in Dirs, ~Done(d, w), Copied(d, w) PROVE Copied(d, w)'
  <2>1. Whole(d, w)' /\ disk'[d][w] = disk[d][w]
    BY <1>0, <1>2, SameCopy, WholeHas DEF Copied
  <2>2. PICK e \in Dirs : Original(e, d, w)
    BY <1>2 DEF Copied
  <2>3. Done(e, w)' /\ Whole(e, w)' /\ disk'[e][w].stamp = disk'[d][w].stamp
    BY <1>0, <2>1, <2>2, SameCopy, WholeHas, ApartWorker DEF Original
  <2>4. ASSUME e \in DOMAIN pass'.seen PROVE Settled(e, w)'
    <3>1. CASE e \in DOMAIN pass.seen
      BY <1>s, <2>2, <3>1 DEF Original
    <3>2. CASE e = n
      <4>1. Whole(n, w) /\ Done(n, w) /\ disk[n][w].stamp <= pass.limit
        BY <1>2, <1>n, <2>2, <3>2 DEF Original, Copied
      <4> QED BY <3>2, <4>1, SettledNew
    <3> QED BY <2>4, <3>1, <3>2 DEF Extended
  <2>5. Original(e, d, w)'
    BY <2>2, <2>3, <2>4 DEF Original
  <2>6. disk[d][w].stamp \in Nat /\ horizon \in Nat /\ horizon' \in Nat /\ horizon <= horizon'
    BY <1>2, CopyFacts DEF DiskOK, Copied, Whole, Apart
  <2>7. disk'[d][w].stamp <= horizon'
    BY <1>2, <2>1, <2>6 DEF Copied
  <2>8. disk'[d][w].stamp <= pass'.limit
    BY <1>2, <1>n, <2>1 DEF Copied, Extended
  <2> QED BY <2>1, <2>5, <2>7, <2>8 DEF Copied
<1>3. NotedSettled(w)'
  <2> SUFFICES ASSUME NEW d \in Dirs, Noted(d, w)'
               PROVE  Settled(d, w)' \/ \E e \in Dirs : Beaten(d, e, w)'
    BY DEF NotedSettled
  <2>1. CASE d = n
    BY <2>1, NewNote
  <2>2. CASE d # n
    <3>0. Noted(d, w)
      BY <2>2, ScannedFacts
    <3>1. Noted(d, w) /\ StillNoted(d)
      BY <3>0 DEF Extended, Noted
    <3>2. CASE Settled(d, w)
      BY <1>s, <3>2
    <3>3. ASSUME NEW e \in Dirs, Beaten(d, e, w) PROVE Beaten(d, e, w)'
      BY <1>s, <3>1, <3>3 DEF Beaten, StillNoted
    <3> QED BY <3>1, <3>2, <3>3 DEF Kept, NotedSettled
  <2> QED BY <2>1, <2>2
<1>4. CopyWhole(w)'
  BY DEF CopyWhole, Extended
<1> QED BY <1>1, <1>2, <1>3, <1>4, KeptApart

\* The best copy of a recording that is kept is a whole one.
LEMMA BestSettled ==
  ASSUME PassOK, NEW w \in Wavs, NotedSettled(w), \E d \in Dirs : Noted(d, w)
  PROVE  Settled(Best(pass.seen, w), w)
<1> DEFINE b == Best(pass.seen, w)
<1>w. w \in Files
  BY DEF Files
<1>1. b \in Dirs /\ Noted(b, w) /\ \A d \in Dirs : Noted(d, w) => NoBetter(d, b, w)
  BY <1>w, BestFacts
<1> HIDE DEF b
<1>2. SUFFICES ASSUME NEW e \in Dirs, Beaten(b, e, w) PROVE FALSE
  BY <1>1 DEF NotedSettled, b
<1>3. Noted(e, w) /\ pass.seen[e][w].size = 2
  BY <1>2 DEF Beaten, Settled
<1>4. NoBetter(e, b, w)
  BY <1>1, <1>3
<1>5. /\ pass.seen[e][w].stamp \in Nat /\ pass.seen[b][w].stamp \in Nat
      /\ pass.seen[b][w].size \in Nat /\ b \in Nat /\ e \in Nat
  BY <1>1, <1>3, SeenFacts, FileNames
<1>6. /\ pass.seen[b][w].size <= 2
  BY <1>1, <1>5, SeenFacts
<1> QED BY <1>2, <1>3, <1>4, <1>5, <1>6 DEF Beaten, NoBetter

-----------------------------------------------------------------------------
(* The pass: what it has noted, and where it is.                            *)

LEMMA AtRestOK == AtRest \in PassRecord /\ AtRest.seen = <<>> /\ AtRest.at = "rest" /\ AtRest.limit = 0
<1>1. <<>> \in Seq(Listing) /\ <<>> \in Seq(Nat) /\ {} \in SUBSET Files /\ Csv \in Files
  BY DEF Files
<1>2. None \in 0..NDirs
  BY ArchiveAssumption DEF None
<1> QED BY <1>1, <1>2 DEF AtRest, PassRecord

LEMMA PassRested ==
  ASSUME DiskOK', pass' = AtRest
  PROVE  PassOK' /\ Cleared
<1>1. pass' \in PassRecord /\ pass'.seen = <<>> /\ pass'.at = "rest" /\ pass'.limit = 0
  BY AtRestOK
<1>2. horizon' \in Nat
  BY DEF DiskOK
<1>3. pass'.limit <= horizon' /\ Len(pass'.seen) <= NDirs
  BY <1>1, <1>2, ArchiveAssumption
<1>4. SeenOK'
  BY <1>1 DEF SeenOK
<1>5. ~Copying'
  BY <1>1 DEF Copying
<1> QED BY <1>1, <1>3, <1>4, <1>5 DEF PassOK, Cleared

LEMMA PassStays ==
  ASSUME PassOK, DiskOK, DiskOK', pass' = pass, horizon <= horizon'
  PROVE  PassOK' /\ SeenSame
<1>1. pass.limit <= horizon'
  BY DEF PassOK, PassRecord, DiskOK
<1> QED BY <1>1 DEF PassOK, SeenOK, SomeNoted, Noted, Copying, SeenSame

LEMMA PassOnward ==
  ASSUME PassOK, DiskOK, DiskOK', Copying, Onward(pass), horizon <= horizon'
  PROVE  PassOK' /\ SeenSame
<1>1. SeenSame /\ pass'.at = "copy" /\ pass' \in PassRecord
  BY DEF Onward, SeenSame
<1>2. pass'.limit <= horizon'
  BY <1>1 DEF PassOK, PassRecord, DiskOK, SeenSame
<1>3. SeenOK' /\ SomeNoted' = SomeNoted
  BY <1>1 DEF PassOK, SeenOK, SomeNoted, Noted, SeenSame
<1>4. Len(pass'.seen) = NDirs /\ Len(pass'.seen) <= NDirs
  BY <1>1 DEF PassOK, SeenSame
<1>5. pass'.todo \subseteq SomeNoted /\ pass'.file \in SomeNoted
      /\ pass'.dst \in Targets(pass'.seen, pass'.file, 0)
  BY DEF Onward, PassOK
<1> QED BY <1>1, <1>2, <1>3, <1>4, <1>5 DEF PassOK

\* The pass goes on to the next copy, or ends.
LEMMA PassGoesOn ==
  ASSUME PassOK, DiskOK, DiskOK', Copying, GoOn(pass, pass.dst), horizon <= horizon'
  PROVE  PassOK' /\ (Cleared \/ (SeenSame /\ pass'.at = "copy"))
<1>1. pass \in PassRecord /\ pass.dst \in Nat
  BY FileNames, TargetFacts DEF PassOK
<1>2. pass' = AtRest \/ Onward(pass)
  BY <1>1, GoOnFacts
<1> QED BY <1>2, PassRested, PassOnward DEF Onward

-----------------------------------------------------------------------------
(* A recording the step does not concern is as far as it was.               *)

LEMMA StageCleared ==
  ASSUME DiskOK, NEW w \in Wavs, Apart(w), Stage(w), Cleared
  PROVE  Stage(w)'
<1>1. CASE Started(w)
  BY <1>1, StartedSame, NoneNoted DEF Started, Stage
<1>2. CASE Doomed(w)
  BY <1>2, DoomedSame DEF Cleared, Stage
<1>3. CASE Kept(w)
  BY <1>3, KeptCleared DEF Stage
<1> QED BY <1>1, <1>2, <1>3 DEF Stage, Started

\* The pass is about to make the next copy.
LEMMA StageNext ==
  ASSUME DiskOK, PassOK, Copying, NEW w \in Wavs, Apart(w), Stage(w), SeenSame, pass'.at = "copy"
  PROVE  Stage(w)'
<1>1. CASE Started(w)
  BY <1>1, StartedSame, NotedSame DEF Started, Starting, Fresh, Stage
<1>2. CASE Doomed(w)
  BY <1>2, DoomedSame DEF Stage
<1>3. CASE Kept(w)
  BY <1>3, KeptSame DEF Stage, CopyWhole, Copying
<1> QED BY <1>1, <1>2, <1>3 DEF Stage, Started

\* The copy at hand is still good.
LEMMA SteadyCopy ==
  ASSUME PassOK, NEW w, Steady(w), CopyWhole(w), pass' = pass
  PROVE  CopyWhole(w)'
<1> SUFFICES ASSUME pass.at = "rename", pass.file = w
             PROVE  /\ pass.body = Wav /\ Settled(Source, w)'
                    /\ pass.stamp = pass.seen[Source][w].stamp
  BY DEF CopyWhole, Source
<1>1. pass.body = Wav /\ Settled(Source, w) /\ pass.stamp = pass.seen[Source][w].stamp
  BY DEF CopyWhole
<1>2. PICK s \in Dirs : s = Source
  BY BestFacts, TargetFacts DEF Copying, Source
<1>3. Settled(s, w)' /\ Source' = s
  BY <1>1, <1>2 DEF Source, Steady
<1>4. Settled(Source, w)'
  BY <1>3 DEF Settled, Noted, Done, Has, Whole, Body
<1> QED BY <1>1, <1>4

LEMMA StageStays ==
  ASSUME DiskOK, PassOK, NEW w \in Wavs, Apart(w), Stage(w), pass' = pass
  PROVE  Stage(w)'
<1>s. SeenSame
  BY DEF SeenSame
<1>1. CASE Started(w)
  BY <1>1, <1>s, StartedSame, NotedSame DEF Started, Starting, Fresh, Stage
<1>2. CASE Doomed(w)
  BY <1>2, DoomedSame DEF Stage, Doomed
<1>3. CASE Kept(w)
  <2>1. CopyWhole(w)'
    BY <1>3, <1>s, SteadyApart, SteadyCopy DEF Kept
  <2> QED BY <1>3, <1>s, <2>1, KeptSame DEF Stage
<1> QED BY <1>1, <1>2, <1>3 DEF Stage, Started

-----------------------------------------------------------------------------
(* Steps of the pass that leave all files and the worker as they are.       *)

PassOnly ==
    /\ UNCHANGED <<disk, clock, horizon, save, unsaved, rows>>
    /\ faults' \in {faults, 1}

LEMMA PassOnlyFacts ==
  ASSUME DiskOK, SaveOK, BeingWritten, PassOnly
  PROVE  /\ DiskOK' /\ SaveOK' /\ BeingWritten' /\ horizon <= horizon'
         /\ \A w \in Wavs : Apart(w)
<1>1. horizon \in Nat /\ faults \in 0..1
  BY DEF DiskOK
<1>2. DiskOK' /\ SaveOK' /\ BeingWritten'
  BY <1>1 DEF DiskOK, SaveOK, BeingWritten, Young, PassOnly, FolderOK, Has, Body, Writing
<1>3. \A w \in Wavs : Apart(w)
  BY <1>1 DEF PassOnly, Apart, SameFile
<1> QED BY <1>1, <1>2, <1>3 DEF PassOnly

LEMMA OneFault ==
  ASSUME MaxFaults \in 0..1, faults \in 0..1, faults < MaxFaults, faults' = faults + 1
  PROVE  faults = 0 /\ faults' = 1
OBVIOUS

LEMMA BeginKeeps ==
  ASSUME ArchiveInv, BeginPass
  PROVE  ArchiveInv'
<1>1. PassOnly
  BY DEF BeginPass, PassOnly, writers
<1>2. pass = AtRest /\ pass' = [AtRest EXCEPT !.at = "scan", !.limit = horizon] /\ horizon' = horizon
  BY DEF BeginPass, ArchiveInv, PassOK
<1>3. horizon \in Nat
  BY DEF ArchiveInv, DiskOK
<1>4. pass' \in PassRecord /\ pass'.seen = <<>> /\ pass'.at = "scan" /\ pass'.limit = horizon
  BY <1>2, <1>3, AtRestOK DEF PassRecord
<1>5. Cleared
  BY <1>2, <1>4 DEF Cleared
<1>6. PassOK'
  <2>1. SeenOK' /\ ~Copying'
    BY <1>4 DEF SeenOK, Copying
  <2>2. Len(pass'.seen) < NDirs /\ Len(pass'.seen) <= NDirs /\ pass'.limit <= horizon'
    BY <1>2, <1>3, <1>4, ArchiveAssumption
  <2> QED BY <1>4, <2>1, <2>2 DEF PassOK
<1>7. \A w \in Wavs : Stage(w)'
  BY <1>1, <1>5, PassOnlyFacts, StageCleared DEF ArchiveInv, Progress
<1> QED BY <1>1, <1>6, <1>7, PassOnlyFacts DEF ArchiveInv, Progress

LEMMA ScanFailsKeeps ==
  ASSUME MaxFaults \in 0..1, ArchiveInv, ScanFails
  PROVE  ArchiveInv'
<1>1. PassOnly
  BY OneFault DEF ScanFails, PassOnly, writers, ArchiveInv, DiskOK
<1>2. PassOK' /\ Cleared
  BY <1>1, PassOnlyFacts, PassRested DEF ScanFails, ArchiveInv
<1>3. \A w \in Wavs : Stage(w)'
  BY <1>1, <1>2, PassOnlyFacts, StageCleared DEF ArchiveInv, Progress
<1> QED BY <1>1, <1>2, <1>3, PassOnlyFacts DEF ArchiveInv, Progress

\* The copy at hand is skipped.
LEMMA SkipKeeps ==
  ASSUME ArchiveInv, PassOnly, pass.at = "copy", GoOn(pass, pass.dst)
  PROVE  ArchiveInv'
<1>1. Copying
  BY DEF Copying
<1>2. PassOK' /\ (Cleared \/ (SeenSame /\ pass'.at = "copy"))
  BY <1>1, PassOnlyFacts, PassGoesOn DEF ArchiveInv
<1>3. \A w \in Wavs : Stage(w)'
  BY <1>1, <1>2, PassOnlyFacts, StageCleared, StageNext DEF ArchiveInv, Progress
<1> QED BY <1>2, <1>3, PassOnlyFacts DEF ArchiveInv, Progress

LEMMA CopyFailsKeeps ==
  ASSUME MaxFaults \in 0..1, ArchiveInv, CopyFails
  PROVE  ArchiveInv'
<1>1. PassOnly
  BY OneFault DEF CopyFails, PassOnly, writers, ArchiveInv, DiskOK
<1> QED BY <1>1, SkipKeeps DEF CopyFails
\* The folder the copy is made from.
LEMMA SourceFacts ==
  ASSUME PassOK, Copying
  PROVE  /\ Source \in Dirs /\ Noted(Source, pass.file)
         /\ pass.seen[Source][pass.file].stamp \in Nat
         /\ pass.seen[Source][pass.file].stamp <= pass.limit
<1>1. Source \in Dirs /\ Noted(Source, pass.file)
  BY TargetFacts, BestFacts DEF Source
<1>2. pass.seen[Source][pass.file].stamp \in 0..pass.limit /\ pass.limit \in Nat
  BY <1>1, SeenFacts
<1> QED BY <1>1, <1>2

LEMMA CopyKeeps ==
  ASSUME ArchiveInv, CopyFile
  PROVE  ArchiveInv'
<1>1. PassOnly /\ pass.at = "copy" /\ Copying
  BY DEF CopyFile, PassOnly, writers, Copying
<1>2. CASE ~Has(Source, pass.file)
  BY <1>1, <1>2, SkipKeeps DEF CopyFile
<1>3. CASE Has(Source, pass.file)
  <2> DEFINE b == Body(Source, pass.file)
             t == pass.seen[Source][pass.file].stamp
  <2>1. PassOK /\ DiskOK /\ pass \in PassRecord
    BY DEF ArchiveInv, PassOK
  <2>2. Source \in Dirs /\ t \in Nat /\ t <= pass.limit
    BY <1>1, <2>1, SourceFacts
  <2>3. b \in Seq(Nat) /\ (pass.file \in Wavs => b \in Bodies)
    <3>1. disk[Source] \in Folder
      BY <2>1, <2>2 DEF DiskOK
    <3>2. disk[Source][pass.file] \in [body : Seq(Nat), stamp : Nat]
      BY <1>3, <3>1, FolderFacts DEF Has
    <3>3. b = disk[Source][pass.file].body
      BY <1>3 DEF Body
    <3> QED BY <1>3, <2>1, <2>2, <3>2, <3>3, CopyFacts
  <2>4. pass' = [pass EXCEPT !.at = "rename", !.body = b, !.stamp = t]
    BY <1>3 DEF CopyFile
  <2>5. b = Body(Source, pass.file) /\ t = pass.seen[Source][pass.file].stamp
    OBVIOUS
  <2> HIDE DEF b, t
  <2>6. pass' = [at |-> "rename", limit |-> pass.limit, seen |-> pass.seen, todo |-> pass.todo,
                 file |-> pass.file, dst |-> pass.dst, body |-> b, stamp |-> t]
    BY <2>1, <2>4 DEF PassRecord
  <2>7. pass' \in PassRecord
    BY <2>1, <2>2, <2>3, <2>6 DEF PassRecord
  <2>8. SeenSame /\ Source' = Source /\ SomeNoted' = SomeNoted /\ (SeenOK' <=> SeenOK)
    BY <2>6 DEF SeenSame, Source, SomeNoted, Noted, SeenOK
  <2>9. PassOK'
    <3>1. pass'.limit <= horizon'
      BY <1>1, <2>1, <2>6 DEF PassOK, PassOnly
    <3>2. /\ Len(pass'.seen) = NDirs
          /\ pass'.todo \subseteq SomeNoted /\ pass'.file \in SomeNoted
          /\ pass'.dst \in Targets(pass'.seen, pass'.file, 0)
      BY <1>1, <2>1, <2>6 DEF PassOK
    <3>3. NDirs <= NDirs
      BY ArchiveAssumption
    <3>4. SeenOK' /\ pass'.at = "rename" /\ pass'.stamp <= pass'.limit
          /\ (pass'.file \in Wavs => pass'.body \in Bodies)
      BY <2>1, <2>2, <2>3, <2>6, <2>8 DEF PassOK
    <3> QED BY <2>7, <2>8, <3>1, <3>2, <3>3, <3>4 DEF PassOK
  <2>10. ASSUME NEW w \in Wavs PROVE Stage(w)'
    <3>1. Apart(w) /\ Stage(w) /\ pass'.at = "rename" /\ pass'.file = pass.file /\ pass'.body = b
          /\ pass'.stamp = t
      BY <1>1, <2>6, PassOnlyFacts DEF ArchiveInv, Progress
    <3>2. CASE Started(w)
      BY <2>8, <3>1, <3>2, StartedSame, NotedSame DEF Started, Starting, Fresh, Stage
    <3>3. CASE Doomed(w)
      <4>1. pass.file = w => b # Wav
        BY <1>3, <2>2, <2>5, <3>3 DEF Doomed, Whole
      <4> QED BY <3>1, <3>3, <4>1, DoomedSame DEF Stage
    <3>4. CASE Kept(w)
      <4>1. CopyWhole(w)'
        <5>1. SUFFICES ASSUME pass.file = w
                       PROVE  b = Wav /\ Settled(Source, w)' /\ t = pass.seen[Source][w].stamp
          BY <2>8, <3>1 DEF CopyWhole, SeenSame
        <5>2. PICK s \in Dirs : s = Source
          BY <2>2
        <5>3. Settled(s, w)
          BY <1>1, <2>1, <3>4, <5>1, <5>2, BestSettled, TargetFacts DEF Kept, Source
        <5>4. StillNoted(s)
          BY <2>8, <5>3, NotedSame DEF Settled, Noted
        <5>5. Settled(s, w)'
          BY <3>1, <5>3, <5>4, SettledApart
        <5>6. Settled(Source, w)'
          BY <2>8, <5>2, <5>5 DEF Settled, Noted, Done, Has, Whole, Body
        <5>7. b = Wav
          BY <1>3, <2>5, <5>1, <5>2, <5>3 DEF Settled, Whole
        <5> QED BY <2>5, <5>1, <5>6, <5>7
      <4> QED BY <1>1, <2>1, <2>8, <3>1, <3>4, <4>1, KeptSame DEF Copying, Stage
    <3> QED BY <3>1, <3>2, <3>3, <3>4 DEF Stage, Started
  <2> QED BY <1>1, <2>9, <2>10, PassOnlyFacts DEF ArchiveInv, Progress
<1> QED BY <1>2, <1>3
-----------------------------------------------------------------------------
(* A scan.                                                                  *)

LEMMA StageExtended ==
  ASSUME DiskOK, PassOK, BeingWritten, NEW w \in Wavs, NEW n \in Dirs, Extended(n), Apart(w),
         Stage(w)
  PROVE  Stage(w)'
<1>1. ASSUME Started(w), NEW d \in Dirs, Noted(d, w)' PROVE FALSE
  <2>1. ~Noted(d, w)
    BY <1>1 DEF Started, Starting, Fresh
  <2>2. d = n /\ Has(n, w) /\ disk[n][w].stamp <= pass.limit
    BY <1>1, <2>1, ScannedFacts
  <2>3. Writing(n, w)
    BY <1>1, <2>2 DEF Started, Starting, Fresh, Writing
  <2> QED BY <2>2, <2>3, ScanSkips
<1>2. CASE Started(w)
  BY <1>1, <1>2, StartedSame DEF Started, Stage
<1>3. CASE Doomed(w)
  BY <1>3, DoomedSame DEF Extended, Stage
<1>4. CASE Kept(w)
  BY <1>4, KeptExtended DEF Stage
<1> QED BY <1>2, <1>3, <1>4 DEF Stage, Started

\* What a scan notes is no younger than it may be.
NextSeen == Append(pass.seen, Scanned(Len(pass.seen) + 1, pass.limit))

LEMMA NextSeenFacts ==
  ASSUME DiskOK, PassOK, pass.at = "scan"
  PROVE  /\ Len(pass.seen) + 1 \in Dirs
         /\ NextSeen \in Seq(Listing) /\ Len(NextSeen) = Len(pass.seen) + 1
         /\ DOMAIN NextSeen = DOMAIN pass.seen \cup {Len(pass.seen) + 1}
         /\ DOMAIN pass.seen = {d \in Dirs : d < Len(pass.seen) + 1}
         /\ \A d \in DOMAIN pass.seen : NextSeen[d] = pass.seen[d]
         /\ NextSeen[Len(pass.seen) + 1] = Scanned(Len(pass.seen) + 1, pass.limit)
         /\ \A d \in DOMAIN NextSeen : \A f \in DOMAIN NextSeen[d] :
              /\ NextSeen[d][f].stamp <= pass.limit
              /\ f \in Wavs => NextSeen[d][f].size <= 2
<1> DEFINE n == Len(pass.seen) + 1
           x == Scanned(n, pass.limit)
<1>1. pass.seen \in Seq(Listing) /\ Len(pass.seen) < NDirs /\ SeenOK
  BY DEF PassOK, PassRecord
<1>2. n \in Dirs
  BY <1>1, ArchiveAssumption DEF Dirs
<1>3. x = [f \in {g \in DOMAIN disk[n] : disk[n][g].stamp <= pass.limit} |->
             [size |-> Len(Body(n, f)), stamp |-> disk[n][f].stamp]]
  BY DEF Scanned
<1>4. disk[n] \in Folder
  BY <1>2 DEF DiskOK
<1> HIDE DEF n
<1>5. ASSUME NEW f \in DOMAIN x
      PROVE  /\ x[f] \in [size : Nat, stamp : Nat] /\ x[f].stamp <= pass.limit /\ f \in Files
             /\ f \in Wavs => x[f].size <= 2
  <2>1. Has(n, f) /\ disk[n][f].stamp <= pass.limit
        /\ x[f] = [size |-> Len(Body(n, f)), stamp |-> disk[n][f].stamp]
    BY <1>3 DEF Has
  <2>2. disk[n][f] \in [body : Seq(Nat), stamp : Nat] /\ f \in Files
    BY <1>4, <2>1, FolderFacts DEF Has
  <2>3. Body(n, f) = disk[n][f].body
    BY <2>1 DEF Body
  <2>4. ASSUME f \in Wavs PROVE Len(Body(n, f)) <= 2
    <3>1. Body(n, f) = <<>> \/ Body(n, f) = <<1>> \/ Body(n, f) = <<1, 2>>
      BY <1>2, <2>1, <2>4, CopyFacts DEF Bodies, Wav
    <3>2. Len(<<>>) <= 2 /\ Len(<<1>>) <= 2 /\ Len(<<1, 2>>) <= 2
      OBVIOUS
    <3> QED BY <3>1, <3>2, Zenon
  <2>5. Len(Body(n, f)) \in Nat
    BY <2>2, <2>3
  <2> QED BY <2>1, <2>2, <2>4, <2>5
<1>6. x = [f \in DOMAIN x |-> x[f]]
  BY <1>3
<1> HIDE DEF x
<1>7. x \in Listing
  BY <1>5, <1>6, ListingFacts
<1>8. NextSeen = Append(pass.seen, x) /\ n = Len(pass.seen) + 1
  BY DEF NextSeen, n, x
<1>9. /\ NextSeen \in Seq(Listing) /\ Len(NextSeen) = Len(pass.seen) + 1
      /\ DOMAIN NextSeen = DOMAIN pass.seen \cup {n}
      /\ DOMAIN pass.seen = {d \in Dirs : d < n}
      /\ \A d \in DOMAIN pass.seen : NextSeen[d] = pass.seen[d]
      /\ NextSeen[n] = x
  <2>1. Len(pass.seen) \in Nat /\ DOMAIN pass.seen = 1..Len(pass.seen)
    BY <1>1
  <2>2. DOMAIN pass.seen = {d \in Dirs : d < n}
    BY <1>1, <1>8, <2>1, ArchiveAssumption DEF Dirs
  <2>3. NextSeen \in Seq(Listing) /\ Len(NextSeen) = Len(pass.seen) + 1
        /\ NextSeen[n] = x /\ \A d \in 1..Len(pass.seen) : NextSeen[d] = pass.seen[d]
    BY <1>1, <1>7, <1>8
  <2>4. DOMAIN NextSeen = DOMAIN pass.seen \cup {n}
    BY <1>8, <2>1, <2>3
  <2>5. \A d \in DOMAIN pass.seen : NextSeen[d] = pass.seen[d]
    BY <2>1, <2>3
  <2>6. NextSeen \in Seq(Listing) /\ Len(NextSeen) = Len(pass.seen) + 1 /\ NextSeen[n] = x
    BY <2>3
  <2> HIDE DEF NextSeen
  <2> QED BY <2>2, <2>4, <2>5, <2>6
<1>10. ASSUME NEW d \in DOMAIN NextSeen, NEW f \in DOMAIN NextSeen[d]
       PROVE  /\ NextSeen[d][f].stamp <= pass.limit
              /\ f \in Wavs => NextSeen[d][f].size <= 2
  <2>1. CASE d = n
    BY <1>5, <1>9, <1>10, <2>1
  <2>2. CASE d # n
    BY <1>1, <1>9, <1>10, <2>2 DEF SeenOK
  <2> QED BY <2>1, <2>2
<1> QED BY <1>2, <1>8, <1>9, <1>10 DEF x

LEMMA ScanKeeps ==
  ASSUME ArchiveInv, ScanDir
  PROVE  ArchiveInv'
<1> DEFINE n == Len(pass.seen) + 1
           found == UNION {DOMAIN NextSeen[d] : d \in DOMAIN NextSeen}
<1>1. PassOnly /\ pass.at = "scan"
  BY DEF ScanDir, PassOnly, writers
<1>2. PassOK /\ DiskOK /\ BeingWritten /\ pass \in PassRecord
  BY DEF ArchiveInv, PassOK
<1>3. horizon' = horizon /\ pass.limit <= horizon /\ n \in Dirs /\ n \in Nat
  BY <1>1, <1>2, NextSeenFacts, FileNames DEF PassOnly, PassOK
<1>4. ASSUME pass'.at \in {"scan", "copy"}, pass'.limit = pass.limit, pass'.seen = NextSeen
      PROVE  Extended(n) /\ SeenOK'
  <2>1. \A d \in DOMAIN pass.seen : StillNoted(d)
    BY <1>1, <1>2, <1>4, NextSeenFacts DEF StillNoted
  <2>2. SeenOK'
    BY <1>1, <1>2, <1>4, NextSeenFacts DEF SeenOK
  <2> QED BY <1>1, <1>2, <1>4, <2>1, <2>2, NextSeenFacts DEF Extended
<1>5. CASE Len(NextSeen) < NDirs
  <2>1. pass' = [pass EXCEPT !.seen = NextSeen]
    BY <1>5 DEF ScanDir, NextSeen
  <2>2. pass' \in PassRecord /\ pass'.at = "scan" /\ pass'.limit = pass.limit /\ pass'.seen = NextSeen
    BY <1>1, <1>2, <2>1, NextSeenFacts DEF PassRecord
  <2>3. Extended(n) /\ SeenOK'
    BY <1>4, <2>2
  <2>4. PassOK'
    <3>1. Len(pass'.seen) < NDirs /\ Len(pass'.seen) <= NDirs
      BY <1>1, <1>2, <1>3, <1>5, <2>2, NextSeenFacts, ArchiveAssumption
    <3>2. pass'.limit <= horizon' /\ ~Copying'
      BY <1>3, <2>2 DEF Copying
    <3> QED BY <2>2, <2>3, <3>1, <3>2 DEF PassOK
  <2>5. \A w \in Wavs : Stage(w)'
    BY <1>1, <1>2, <1>3, <2>3, PassOnlyFacts, StageExtended DEF ArchiveInv, Progress
  <2> QED BY <1>1, <2>4, <2>5, PassOnlyFacts DEF ArchiveInv, Progress
<1>6. CASE pass' = AtRest
  <2>1. PassOK' /\ Cleared
    BY <1>1, <1>6, PassOnlyFacts, PassRested DEF ArchiveInv
  <2>2. \A w \in Wavs : Stage(w)'
    BY <1>1, <1>2, <2>1, PassOnlyFacts, StageCleared DEF ArchiveInv, Progress
  <2> QED BY <1>1, <2>1, <2>2, PassOnlyFacts DEF ArchiveInv, Progress
<1>7. CASE ~ (Len(NextSeen) < NDirs) /\ pass' # AtRest
  <2>1. PICK f \in found :
          GoOn([pass EXCEPT !.seen = NextSeen, !.todo = found \ {f}, !.file = f], 0)
    BY <1>7, Zenon DEF ScanDir, NextSeen
  <2>2. found \subseteq Files
    <3>1. ASSUME NEW d \in DOMAIN NextSeen PROVE DOMAIN NextSeen[d] \subseteq Files
      <4>0. NextSeen \in Seq(Listing)
        BY <1>1, <1>2, NextSeenFacts
      <4>1. NextSeen[d] \in Listing
        BY <4>0
      <4> QED BY <4>1, ListingFacts
    <3> QED BY <3>1
  <2> DEFINE r == found \ {f}
             p == [pass EXCEPT !.seen = NextSeen, !.todo = r, !.file = f]
  <2>3. r \subseteq found /\ r \in SUBSET Files /\ f \in Files
    BY <2>1, <2>2
  <2>4. GoOn(p, 0)
    BY <2>1
  <2> HIDE DEF r, found
  <2>5. p \in PassRecord /\ p.seen = NextSeen /\ p.limit = pass.limit /\ p.todo = r /\ p.file = f
    BY <1>1, <1>2, <2>3, NextSeenFacts DEF PassRecord
  <2> HIDE DEF p
  <2>6. Onward(p)
    BY <1>7, <2>4, <2>5, GoOnFacts
  <2>7. /\ pass' \in PassRecord /\ pass'.at = "copy" /\ pass'.limit = pass.limit
        /\ pass'.seen = NextSeen /\ pass'.file \in found /\ pass'.todo \subseteq found
        /\ pass'.dst \in Targets(pass'.seen, pass'.file, 0)
    BY <2>1, <2>3, <2>5, <2>6 DEF Onward
  <2>8. Extended(n) /\ SeenOK'
    BY <1>4, <2>7
  <2>9. Len(pass'.seen) = NDirs
    <3>1. Len(NextSeen) = n
      BY <1>1, <1>2, NextSeenFacts
    <3>2. n <= NDirs /\ ~ (n < NDirs)
      BY <1>3, <1>7, <3>1 DEF Dirs
    <3> HIDE DEF n
    <3> QED BY <1>3, <2>7, <3>1, <3>2, ArchiveAssumption
  <2>10. \A g \in found : g \in SomeNoted'
    <3> SUFFICES ASSUME NEW g \in found PROVE g \in SomeNoted'
      OBVIOUS
    <3>1. PICK d \in DOMAIN NextSeen : g \in DOMAIN NextSeen[d]
      BY DEF found
    <3>2. d \in Dirs
      BY <1>1, <1>2, NextSeenFacts, SeenFacts
    <3>3. Noted(d, g)'
      BY <2>7, <3>1 DEF Noted
    <3> QED BY <2>2, <3>2, <3>3 DEF SomeNoted
  <2>11. PassOK'
    <3>1. pass'.limit <= horizon' /\ NDirs <= NDirs
      BY <1>3, <2>7, ArchiveAssumption
    <3>2. pass'.todo \subseteq SomeNoted' /\ pass'.file \in SomeNoted'
      BY <2>7, <2>10
    <3> QED BY <2>7, <2>8, <2>9, <3>1, <3>2 DEF PassOK
  <2>12. \A w \in Wavs : Stage(w)'
    BY <1>1, <1>2, <1>3, <2>8, PassOnlyFacts, StageExtended DEF ArchiveInv, Progress
  <2> QED BY <1>1, <2>11, <2>12, PassOnlyFacts DEF ArchiveInv, Progress
<1> QED BY <1>5, <1>6, <1>7
-----------------------------------------------------------------------------
(* What the other steps leave of the folders and of the file being written. *)

LEMMA FoldersReplaced ==
  ASSUME DiskOK, NEW d \in Dirs, NEW f \in Files, NEW body, NEW stamp,
         Replaced(d, f, body, stamp),
         clock' \in Nat, clock <= clock', stamp <= clock', f \in Wavs => body \in Bodies
  PROVE  disk' \in [Dirs -> Folder] /\ \A e \in Dirs : FolderOK(e)'
<1>1. ASSUME NEW e \in Dirs PROVE FolderOK(e)'
  <2>0. FolderOK(e) /\ disk[e] \in Folder /\ disk'[e] \in Folder /\ clock \in Nat
    BY DEF DiskOK, Replaced
  <2>1. ASSUME NEW g \in DOMAIN disk'[e] PROVE disk'[e][g].stamp <= clock'
    <3>1. g \in Files
      BY <2>0, FolderFacts
    <3>2. CASE e = d /\ g = f
      BY <3>2 DEF Replaced
    <3>3. CASE e # d \/ g # f
      <4>1. g \in DOMAIN disk[e] /\ disk'[e][g] = disk[e][g]
        BY <3>1, <3>3 DEF Replaced, SameFile
      <4>2. disk[e][g].stamp \in Nat /\ disk[e][g].stamp <= clock
        BY <2>0, <4>1, FolderFacts DEF FolderOK
      <4> QED BY <2>0, <4>1, <4>2
    <3> QED BY <3>2, <3>3
  <2>2. ASSUME NEW w \in Wavs, Has(e, w)' PROVE Body(e, w)' \in Bodies
    <3>1. w \in Files
      BY DEF Files
    <3>2. CASE e = d /\ w = f
      BY <3>2 DEF Replaced, Body, Has
    <3>3. CASE e # d \/ w # f
      <4>1. SameFile(e, w)
        BY <3>1, <3>3 DEF Replaced
      <4> QED BY <2>0, <2>2, <4>1, SameCopy DEF FolderOK
    <3> QED BY <3>2, <3>3
  <2> QED BY <2>1, <2>2 DEF FolderOK
<1> QED BY <1>1 DEF Replaced

LEMMA FoldersRemoved ==
  ASSUME DiskOK, NEW d \in Dirs, NEW f \in Files, Removed(d, f), clock' = clock
  PROVE  disk' \in [Dirs -> Folder] /\ \A e \in Dirs : FolderOK(e)'
<1>1. ASSUME NEW e \in Dirs PROVE FolderOK(e)'
  <2>0. FolderOK(e) /\ disk'[e] \in Folder
    BY DEF DiskOK, Removed
  <2>1. ASSUME NEW g \in DOMAIN disk'[e] PROVE disk'[e][g].stamp <= clock'
    <3>1. g \in Files /\ (e # d \/ g # f)
      BY <2>0, FolderFacts DEF Removed
    <3>2. g \in DOMAIN disk[e] /\ disk'[e][g] = disk[e][g]
      BY <3>1 DEF Removed, SameFile
    <3> QED BY <2>0, <3>2 DEF FolderOK
  <2>2. ASSUME NEW w \in Wavs, Has(e, w)' PROVE Body(e, w)' \in Bodies
    <3>1. w \in Files /\ (e # d \/ w # f)
      BY <2>2 DEF Files, Has, Removed
    <3>2. SameFile(e, w)
      BY <3>1 DEF Removed
    <3> QED BY <2>0, <2>2, <3>2, SameCopy DEF FolderOK
  <2> QED BY <2>1, <2>2 DEF FolderOK
<1> QED BY <1>1 DEF Removed

LEMMA YoungSame ==
  ASSUME NEW d \in Dirs, NEW w, SameFile(d, w), horizon' = horizon, Young(d, w)
  PROVE  Young(d, w)'
BY SameCopy DEF Young

LEMMA WrittenSame ==
  ASSUME BeingWritten, NEW w \in Wavs, Apart(w), horizon' = horizon, NEW d \in Dirs, Writing(d, w)'
  PROVE  Young(d, w)'
<1>1. SameFile(d, w) /\ Writing(d, w)
  BY ApartWorker DEF Apart
<1> QED BY <1>1, YoungSame DEF BeingWritten

\* The pass waits, and the step concerns no recording.
LEMMA PassWaits ==
  ASSUME ArchiveInv, DiskOK', SaveOK', BeingWritten', pass' = pass, horizon <= horizon',
         \A w \in Wavs : Apart(w) \/ Stage(w)'
  PROVE  ArchiveInv'
<1>1. PassOK'
  BY PassStays DEF ArchiveInv
<1>2. ASSUME NEW w \in Wavs PROVE Stage(w)'
  BY StageStays DEF ArchiveInv, Progress
<1> QED BY <1>1, <1>2 DEF ArchiveInv, Progress

-----------------------------------------------------------------------------
(* Rows, time, a lost file, and a restart.                                  *)

LEMMA RowKeeps ==
  ASSUME ArchiveInv, AppendRow
  PROVE  ArchiveInv'
<1> DEFINE b == Append(Body(1, Csv), rows')
<1>1. DiskOK /\ SaveOK /\ BeingWritten /\ clock \in Nat /\ clock' = clock + 1 /\ rows' \in 0..Rows
      /\ horizon \in Nat /\ horizon <= clock /\ rows' \in Nat
  BY ArchiveAssumption DEF ArchiveInv, DiskOK, AppendRow
<1>2. b \in Seq(Nat)
  <2>1. disk[1] \in Folder
    BY <1>1, FileNames DEF DiskOK
  <2>2. Has(1, Csv) => disk[1][Csv] \in [body : Seq(Nat), stamp : Nat]
    BY <2>1, FolderFacts DEF Has
  <2>3. Body(1, Csv) \in Seq(Nat)
    BY <2>2 DEF Body
  <2> QED BY <1>1, <2>3
<1>3. disk' = With(1, Csv, b, clock')
  BY DEF AppendRow
<1> HIDE DEF b
<1>4. Replaced(1, Csv, b, clock')
  <2>1. Csv \in Files /\ clock' \in Nat /\ disk \in [Dirs -> Folder]
    BY <1>1 DEF Files, DiskOK
  <2> QED BY <1>2, <1>3, <2>1, FileNames, WithFacts
<1>5. \A w \in Wavs : Apart(w)
  <2> SUFFICES ASSUME NEW w \in Wavs PROVE Apart(w)
    OBVIOUS
  <2>1. \A d \in Dirs : SameFile(d, w)
    <3>1. w # Csv /\ w \in Files
      BY FileNames DEF Files
    <3> QED BY <1>4, <3>1 DEF Replaced
  <2> QED BY <1>1, <2>1 DEF Apart, AppendRow
<1>6. DiskOK'
  <2>1. disk' \in [Dirs -> Folder] /\ \A e \in Dirs : FolderOK(e)'
    <3>1. Csv \in Files /\ clock' \in Nat /\ clock <= clock' /\ clock' <= clock' /\ Csv \notin Wavs
      BY <1>1, FileNames DEF Files
    <3> QED BY <1>1, <1>4, <3>1, FileNames, FoldersReplaced
  <2> QED BY <1>1, <2>1 DEF DiskOK, AppendRow
<1>7. SaveOK' /\ BeingWritten'
  BY <1>1, <1>5, WrittenSame DEF AppendRow, SaveOK, BeingWritten
<1> QED BY <1>1, <1>5, <1>6, <1>7, PassWaits DEF AppendRow

LEMMA AgeKeeps ==
  ASSUME ArchiveInv, Age
  PROVE  ArchiveInv'
<1>1. DiskOK /\ SaveOK /\ BeingWritten /\ clock \in Nat /\ horizon \in Nat /\ horizon' = horizon + 1
      /\ horizon' <= clock /\ clock' = clock
  BY DEF ArchiveInv, DiskOK, Age
<1>2. \A w \in Wavs : Apart(w)
  BY <1>1 DEF Apart, Age, SameFile, writers
<1>3. DiskOK'
  BY <1>1 DEF DiskOK, Age, FolderOK, Has, Body, writers
<1>4. BeingWritten'
  <2> SUFFICES ASSUME NEW d \in Dirs, NEW w \in Wavs, Writing(d, w)' PROVE Young(d, w)'
    BY DEF BeingWritten
  <2>1. Writing(d, w) /\ Has(d, w)' = Has(d, w) /\ Body(d, w)' = Body(d, w) /\ disk' = disk
    BY DEF Age, writers, Writing, Has, Body
  <2>2. Young(d, w) /\ horizon + 1 # disk[d][w].stamp
    BY <1>1, <2>1 DEF BeingWritten, Age
  <2>3. disk[d][w].stamp \in Nat
    BY <1>1, <2>2, CopyFacts DEF Young
  <2> QED BY <1>1, <2>1, <2>2, <2>3 DEF Young
<1>5. SaveOK' /\ pass' = pass
  BY <1>1 DEF Age, SaveOK, writers
<1>6. horizon <= horizon'
  BY <1>1
<1> QED BY <1>2, <1>3, <1>4, <1>5, <1>6, PassWaits
LEMMA LostKept ==
  ASSUME ArchiveInv, NEW w \in Wavs, NEW d \in Dirs, Kept(w), save.wav # w, faults = 0, faults' = 1,
         Removed(d, w), UNCHANGED <<horizon, pass>> /\ UNCHANGED writers
  PROVE  Kept(w)'
<1>0. PassOK /\ SeenSame /\ save'.wav # w /\ faults' # 0 /\ w \in Files
  BY DEF ArchiveInv, SeenSame, writers, Files
<1>1. Steady(w)
  <2> SUFFICES ASSUME NEW e \in Dirs, Settled(e, w) PROVE Settled(e, w)'
    BY DEF Steady
  <2>1. Noted(e, w)' /\ pass' = pass
    BY <1>0, NotedSame DEF Settled
  <2>2. CASE e = d
    BY <1>0, <2>1, <2>2 DEF Settled, Removed, Has
  <2>3. CASE e # d
    <3>1. SameFile(e, w)
      BY <1>0, <2>3 DEF Removed
    <3> QED BY <1>0, <2>1, <3>1, SameCopy DEF Settled
  <2> QED BY <2>2, <2>3
<1>2. NotedSettled(w)' /\ CopyWhole(w)'
  BY <1>0, <1>1, SteadyNoted, SteadyCopy DEF Kept
<1>3. NoneCut(w)' /\ AheadCopied(w)'
  BY <1>0 DEF NoneCut, AheadCopied, Done
<1>4. CutBacked(w)'
  <2> SUFFICES ASSUME NEW e \in Dirs, Has(e, w)', ~Whole(e, w)' PROVE FALSE
    BY DEF CutBacked
  <2>1. SameFile(e, w)
    BY <1>0 DEF Removed, Has
  <2>2. Has(e, w) /\ ~Whole(e, w)
    BY <2>1, SameCopy
  <2> QED BY <2>2 DEF Kept, NoneCut, Writing
<1> QED BY <1>0, <1>2, <1>3, <1>4 DEF Kept, writers

LEMMA LoseKeeps ==
  ASSUME MaxFaults \in 0..1, ArchiveInv, NEW d \in Dirs, NEW f \in Files, LoseFile(d, f)
  PROVE  ArchiveInv'
<1>1. /\ DiskOK /\ SaveOK /\ BeingWritten /\ faults = 0 /\ faults' = 1 /\ horizon \in Nat
      /\ UNCHANGED <<clock, horizon, save, unsaved, rows, pass>> /\ horizon <= horizon'
  BY OneFault DEF ArchiveInv, DiskOK, LoseFile, writers
<1>2. Removed(d, f)
  BY <1>1, WithoutFacts DEF LoseFile, DiskOK
<1>3. DiskOK'
  BY <1>1, <1>2, FoldersRemoved DEF DiskOK
<1>4. ASSUME NEW w \in Wavs, w # f PROVE Apart(w)
  <2>1. \A e \in Dirs : SameFile(e, w)
    BY <1>2, <1>4 DEF Removed, Files
  <2> QED BY <1>1, <2>1 DEF Apart
<1>5. BeingWritten'
  <2> SUFFICES ASSUME NEW e \in Dirs, NEW w \in Wavs, Writing(e, w)' PROVE Young(e, w)'
    BY DEF BeingWritten
  <2>1. w # f
    BY <1>1 DEF Writing, LoseFile
  <2> QED BY <1>1, <1>4, <2>1, WrittenSame
<1>6. ASSUME f \in Wavs PROVE Stage(f)'
  <2>1. Stage(f) /\ Has(d, f) /\ save.wav # f
    BY <1>6 DEF ArchiveInv, Progress, LoseFile
  <2>2. ~Started(f)
    BY <2>1 DEF Started, Fresh, Starting
  <2>3. CASE Doomed(f)
    <3>1. ASSUME NEW e \in Dirs PROVE ~Whole(e, f)'
      <4>1. CASE e = d
        BY <1>2, <4>1 DEF Removed, Whole, Has
      <4>2. CASE e # d
        BY <1>2, <2>3, <4>2, SameCopy DEF Removed, Doomed
      <4> QED BY <4>1, <4>2
    <3> QED BY <1>1, <2>3, <3>1 DEF Doomed, Stage
  <2>4. CASE Kept(f)
    <3>1. UNCHANGED <<horizon, pass>> /\ UNCHANGED writers
      BY <1>1 DEF writers
    <3> QED BY <1>1, <1>2, <1>6, <2>1, <2>4, <3>1, LostKept DEF Stage
  <2> QED BY <2>1, <2>2, <2>3, <2>4 DEF Stage, Started
<1>7. SaveOK'
  BY <1>1 DEF SaveOK
<1> QED BY <1>1, <1>3, <1>4, <1>5, <1>6, <1>7, PassWaits

LEMMA IdleOK ==
  ASSUME save' = IdleWorker
  PROVE  SaveOK' /\ BeingWritten' /\ save'.wav = "none" /\ ~save'.open
<1>1. None \in 0..NDirs
  BY ArchiveAssumption DEF None
<1> QED BY <1>1 DEF IdleWorker, SaveOK, BeingWritten, Writing

LEMMA RestartKeeps ==
  ASSUME MaxFaults \in 0..1, ArchiveInv, Restart
  PROVE  ArchiveInv'
<1>1. /\ DiskOK /\ BeingWritten /\ faults = 0 /\ faults' = 1 /\ pass' = AtRest
      /\ UNCHANGED <<disk, clock, horizon, unsaved, rows>> /\ save' = IdleWorker
  BY OneFault DEF ArchiveInv, DiskOK, Restart
<1>2. DiskOK'
  BY <1>1 DEF DiskOK, FolderOK, Has, Body
<1>3. SaveOK' /\ BeingWritten' /\ save'.wav = "none" /\ ~save'.open
  BY <1>1, IdleOK
<1>4. PassOK' /\ Cleared
  BY <1>1, <1>2, PassRested
<1>5. ASSUME NEW w \in Wavs PROVE Stage(w)'
  <2>1. Stage(w) /\ save'.wav # w
    BY <1>3, FileNames DEF ArchiveInv, Progress
  <2>2. \A d \in Dirs : (Has(d, w)' <=> Has(d, w)) /\ (Whole(d, w)' <=> Whole(d, w))
    BY <1>1 DEF Has, Whole, Body
  <2>3. CASE Fresh(w)
    BY <1>1, <1>4, <2>1, <2>2, <2>3, NoneNoted DEF Fresh, Stage
  <2>4. CASE Starting(w)
    <3>1. ASSUME NEW d \in Dirs, Whole(d, w) PROVE FALSE
      <4>1. Writing(d, w)
        BY <2>4, <3>1 DEF Starting, Whole, Writing
      <4>2. Body(d, w) = <<>>
        BY <1>1, <4>1 DEF BeingWritten, Young
      <4> QED BY <3>1, <4>2 DEF Whole, Wav
    <3> QED BY <1>1, <1>4, <2>1, <2>2, <2>4, <3>1 DEF Starting, Doomed, Cleared, Stage
  <2>5. CASE Doomed(w)
    BY <1>1, <1>4, <2>1, <2>2, <2>5 DEF Doomed, Cleared, Stage
  <2>6. CASE Kept(w)
    <3>1. NoneCut(w)' /\ AheadCopied(w)'
      BY <1>1, <2>1 DEF NoneCut, AheadCopied, Done
    <3>2. NotedSettled(w)' /\ CopyWhole(w)'
      BY <1>4, NoneNoted DEF NotedSettled, CopyWhole, Cleared
    <3>3. CutBacked(w)'
      <4> SUFFICES ASSUME NEW d \in Dirs, Has(d, w)', ~Whole(d, w)' PROVE Backed(d, w)'
        BY DEF CutBacked
      <4>1. Backed(d, w)
        BY <1>1, <2>2, <2>6 DEF Kept, CutBacked
      <4> QED BY <1>1, <1>4, <2>2, <4>1, NoneNoted, FileNames DEF Backed
    <3> QED BY <1>1, <2>1, <2>6, <3>1, <3>2, <3>3 DEF Kept, Stage
  <2> QED BY <2>1, <2>3, <2>4, <2>5, <2>6 DEF Stage
<1> QED BY <1>2, <1>3, <1>4, <1>5 DEF ArchiveInv, Progress
-----------------------------------------------------------------------------
(* The copy takes the destination's place, or fails to.                     *)

\* The destination's entry is another file, or none, and the pass goes on.
Moved(w) ==
    /\ pass.at = "rename" /\ pass.file = w
    /\ \A d \in Dirs : d # pass.dst => SameFile(d, w)
    /\ Detach(pass.dst, w) /\ GoOn(pass, pass.dst)
    /\ UNCHANGED <<clock, horizon, unsaved, rows>>
    /\ faults' \in {faults, 1}

LEMMA DetachFacts ==
  ASSUME SaveOK, NEW d \in Dirs, NEW f, Detach(d, f)
  PROVE  /\ SaveOK'
         /\ save'.wav = save.wav /\ save'.dir = save.dir /\ save'.open = save.open
         /\ ~Writing(d, f)'
         /\ \A e, g : e # d \/ g # f => (Writing(e, g)' <=> Writing(e, g))
         /\ \A g : g # f /\ save.wav = g => save' = save
<1> DEFINE x == save.detached \/ Writing(d, f)
<1>1. save \in [wav : Wavs \cup {"none"}, dir : 0..NDirs, open : BOOLEAN, detached : BOOLEAN]
  BY DEF SaveOK
<1>2. save' = [save EXCEPT !.detached = x]
  BY DEF Detach
<1>3. x \in BOOLEAN /\ (x => save.open) /\ (x <=> save.detached \/ Writing(d, f))
  BY <1>1 DEF Writing, SaveOK
<1> HIDE DEF x
<1>4. save' = [wav |-> save.wav, dir |-> save.dir, open |-> save.open, detached |-> x]
  BY <1>1, <1>2
<1>5. save = [wav |-> save.wav, dir |-> save.dir, open |-> save.open, detached |-> save.detached]
  BY <1>1
<1>6. save' \in [wav : Wavs \cup {"none"}, dir : 0..NDirs, open : BOOLEAN, detached : BOOLEAN]
  BY <1>1, <1>3, <1>4
<1>7. save.wav = "none" => save' = IdleWorker
  <2>1. SUFFICES ASSUME save.wav = "none" PROVE save' = IdleWorker
    OBVIOUS
  <2>2. save = IdleWorker
    BY <2>1 DEF SaveOK
  <2>3. ~save.open
    BY <2>2 DEF IdleWorker
  <2>4. x = FALSE
    BY <1>3, <2>3
  <2> QED BY <1>4, <2>2, <2>4 DEF IdleWorker
<1>8. SaveOK'
  BY <1>3, <1>4, <1>6, <1>7 DEF SaveOK
<1>9. ~Writing(d, f)'
  BY <1>3, <1>4 DEF Writing
<1>10. ASSUME NEW e, NEW g, e # d \/ g # f PROVE Writing(e, g)' <=> Writing(e, g)
  BY <1>3, <1>4, <1>10 DEF Writing
<1>11. ASSUME NEW g, g # f, save.wav = g PROVE save' = save
  <2>1. x = save.detached
    BY <1>1, <1>3, <1>11 DEF Writing
  <2> QED BY <1>4, <1>5, <2>1
<1> QED BY <1>4, <1>8, <1>9, <1>10, <1>11

\* The destination never has a copy the pass counts on.
LEMMA TargetNotSettled ==
  ASSUME PassOK, Copying, pass.file \in Wavs
  PROVE  ~Settled(pass.dst, pass.file)
<1> SUFFICES ASSUME Settled(pass.dst, pass.file) PROVE FALSE
  OBVIOUS
<1>1. Noted(Source, pass.file) /\ pass.seen[pass.dst][pass.file].size = 2
  BY SourceFacts DEF Settled
<1>2. pass.seen[Source][pass.file].size \in 0..2
  BY <1>1, SeenFacts
<1>3. 2 < pass.seen[Source][pass.file].size
  BY <1>1, TargetFacts DEF Settled
<1> QED BY <1>2, <1>3

\* The other copies of the recording stay what they were.
LEMMA MovedFacts ==
  ASSUME ArchiveInv, DiskOK', NEW w \in Wavs, Kept(w), Moved(w)
  PROVE  /\ PassOK' /\ pass'.at # "rename"
         /\ Cleared \/ (SeenSame /\ Steady(w))
         /\ NotedSettled(w)' /\ CopyWhole(w)'
         /\ \A d \in Dirs : Done(d, w)' <=> Done(d, w)
         /\ \A d \in Dirs : d # pass.dst /\ ~Done(d, w) /\ Copied(d, w) => Copied(d, w)'
<1>0. /\ PassOK /\ DiskOK /\ Copying /\ pass.dst \in Dirs /\ SaveOK
      /\ horizon \in Nat /\ horizon' = horizon /\ horizon <= horizon'
  BY TargetFacts DEF ArchiveInv, Moved, Copying, DiskOK
<1>1. PassOK' /\ (Cleared \/ (SeenSame /\ pass'.at = "copy"))
  BY <1>0, PassGoesOn DEF Moved
<1>2. pass'.at # "rename"
  BY <1>1 DEF Cleared
<1>3. save'.wav = save.wav /\ save'.dir = save.dir /\ save'.open = save.open
  BY <1>0, DetachFacts DEF Moved
<1>4. \A d : Done(d, w)' <=> Done(d, w)
  BY <1>3 DEF Done
<1>5. \A d \in Dirs : Settled(d, w) => d # pass.dst
  BY <1>0, TargetNotSettled DEF Moved
<1>6. ASSUME SeenSame PROVE Steady(w)
  <2> SUFFICES ASSUME NEW d \in Dirs, Settled(d, w) PROVE Settled(d, w)'
    BY DEF Steady
  <2>1. SameFile(d, w)
    BY <1>5 DEF Moved
  <2>2. Noted(d, w)' /\ pass'.seen = pass.seen
    BY <1>6, NotedSame DEF Settled, SeenSame
  <2> QED BY <1>3, <1>4, <2>1, <2>2, SameCopy DEF Settled
<1>7. NotedSettled(w)' /\ CopyWhole(w)'
  <2>1. CopyWhole(w)'
    BY <1>2 DEF CopyWhole
  <2>2. NotedSettled(w)'
    BY <1>1, <1>6, NoneNoted, SteadyNoted DEF NotedSettled, Kept
  <2> QED BY <2>1, <2>2
<1>8. ASSUME NEW d \in Dirs, d # pass.dst, ~Done(d, w), Copied(d, w) PROVE Copied(d, w)'
  <2>1. PICK e \in Dirs : Original(e, d, w)
    BY <1>8 DEF Copied
  <2>2. Settled(e, w) /\ e # pass.dst
    BY <1>0, <1>5, <2>1, TargetFacts DEF Original
  <2>3. SameFile(d, w) /\ SameFile(e, w)
    BY <1>8, <2>2 DEF Moved
  <2>4. Whole(d, w)' /\ disk'[d][w] = disk[d][w]
    BY <1>8, <2>3, SameCopy, WholeHas DEF Copied
  <2>5. Whole(e, w)' /\ disk'[e][w] = disk[e][w]
    BY <2>1, <2>3, SameCopy, WholeHas DEF Original
  <2>6. e \in DOMAIN pass'.seen => Settled(e, w)'
    BY <1>1, <1>6, <2>2, NoneNoted DEF Steady
  <2>7. Original(e, d, w)'
    BY <1>4, <2>1, <2>4, <2>5, <2>6 DEF Original
  <2>8. disk'[d][w].stamp <= horizon' /\ (pass'.at # "rest" => disk'[d][w].stamp <= pass'.limit)
    BY <1>0, <1>1, <1>8, <2>4 DEF Copied, Copying, SeenSame, Cleared
  <2> QED BY <2>4, <2>7, <2>8 DEF Copied
<1> QED BY <1>1, <1>2, <1>4, <1>6, <1>7, <1>8
\* A whole copy, as old as the one it was made from, is put in place.
LEMMA RenamedKept ==
  ASSUME ArchiveInv, DiskOK', NEW w \in Wavs, Kept(w), Moved(w), faults' = faults,
         Replaced(pass.dst, w, pass.body, pass.stamp)
  PROVE  Kept(w)'
<1>0. /\ PassOK /\ DiskOK /\ BeingWritten /\ Copying /\ pass.dst \in Dirs /\ SaveOK /\ 1 \in Dirs
      /\ horizon \in Nat /\ horizon' = horizon
  BY TargetFacts, FileNames DEF ArchiveInv, Moved, Copying, DiskOK
<1>a. PICK t \in Dirs : t = pass.dst
  BY <1>0
<1>b. PICK s \in Dirs : s = Source
  BY <1>0, SourceFacts
<1>1. pass.body = Wav /\ Settled(s, w) /\ pass.stamp = pass.seen[s][w].stamp
  BY <1>b DEF Kept, CopyWhole, Moved
<1>2. s # t /\ ~Settled(t, w)
  BY <1>0, <1>a, <1>b, TargetFacts, TargetNotSettled DEF Moved
<1>3. \A d \in Dirs : d # t => SameFile(d, w)
  BY <1>a DEF Moved
<1>4. Has(t, w)' /\ Whole(t, w)' /\ disk'[t][w].stamp = pass.stamp
  BY <1>1, <1>a DEF Replaced, Has, Whole, Body
<1>5. /\ pass.stamp \in Nat /\ pass.stamp <= pass.limit
      /\ pass.limit \in Nat /\ pass.limit <= horizon
  BY <1>0 DEF PassOK, PassRecord, Moved
<1>6. save'.wav = save.wav /\ save'.dir = save.dir /\ \A d \in Dirs : d # t => (Writing(d, w)' <=> Writing(d, w))
  BY <1>0, <1>a, DetachFacts DEF Moved
<1>7. \A d \in Dirs : Whole(d, w) => Whole(d, w)'
  BY <1>3, <1>4, SameCopy
<1>8. NoneCut(w)'
  <2> SUFFICES ASSUME NEW d \in Dirs, Has(d, w)', d # t
               PROVE  Whole(d, w)' \/ Writing(d, w)' \/ faults' = 1
    BY <1>4 DEF NoneCut
  <2>1. Has(d, w)
    BY <1>3, SameCopy
  <2>2. Whole(d, w) \/ Writing(d, w) \/ faults = 1
    BY <2>1 DEF Kept, NoneCut
  <2> QED BY <1>6, <1>7, <2>2
<1>9. CutBacked(w)'
  <2> SUFFICES ASSUME NEW d \in Dirs, Has(d, w)', ~Whole(d, w)', faults' = 0 \/ ~Writing(d, w)'
               PROVE  Backed(d, w)'
    BY DEF CutBacked
  <2>1. d # t
    BY <1>4
  <2>2. Has(d, w) /\ ~Whole(d, w) /\ disk'[d][w] = disk[d][w] /\ (faults = 0 \/ ~Writing(d, w))
    BY <1>3, <1>6, <2>1, SameCopy
  <2>3. Backed(d, w)
    BY <2>2 DEF Kept, CutBacked
  <2>4. Whole(1, w)'
    BY <1>0, <1>7, <2>3 DEF Backed
  <2>5. disk[d][w].stamp \in Nat /\ disk[1][w].stamp \in Nat
    BY <1>0, <2>2, <2>3, CopyFacts DEF Backed, Whole
  <2>6. disk[d][w].stamp > pass.limit \/ Settled(1, w)
    BY <1>0, <1>5, <2>3, <2>5, TargetFacts DEF Backed, Copying
  <2>7. disk'[1][w].stamp < disk'[d][w].stamp
    <3>1. CASE t = 1
      <4>1. disk[d][w].stamp > pass.limit
        BY <1>2, <2>6, <3>1
      <4> QED BY <1>4, <1>5, <2>2, <2>5, <3>1, <4>1
    <3>2. CASE t # 1
      <4>1. disk'[1][w] = disk[1][w]
        BY <1>0, <1>3, <2>3, <3>2, SameCopy DEF Backed, Whole
      <4> QED BY <2>2, <2>3, <4>1 DEF Backed
    <3> QED BY <3>1, <3>2
  <2>8. ASSUME pass'.at # "rest", disk'[d][w].stamp <= pass'.limit, 1 \in DOMAIN pass'.seen
        PROVE  Settled(1, w)'
    <3>1. SeenSame /\ Steady(w)
      BY <1>0, <2>8, MovedFacts, NoneNoted
    <3>2. Settled(1, w)
      BY <1>5, <2>2, <2>5, <2>6, <2>8, <3>1 DEF SeenSame
    <3> QED BY <1>0, <3>1, <3>2 DEF Steady
  <2> QED BY <2>4, <2>7, <2>8 DEF Backed
<1>10. AheadCopied(w)'
  <2> SUFFICES ASSUME NEW d \in Dirs, Has(d, w)', ~Done(d, w)' PROVE Copied(d, w)'
    BY DEF AheadCopied
  <2>1. ~Done(d, w)
    BY <1>0, MovedFacts
  <2>2. CASE d # t
    <3>1. Has(d, w)
      BY <1>3, <2>2, SameCopy
    <3>2. Copied(d, w)
      BY <2>1, <3>1 DEF Kept, AheadCopied
    <3> QED BY <1>0, <1>a, <2>1, <2>2, <3>2, MovedFacts
  <2>3. CASE d = t
    <3>1. save.wav = w /\ Done(s, w) /\ Has(s, w)
      BY <1>1, <2>1 DEF Done, Settled
    <3>2. s <= t
      <4>1. save.dir \in Nat /\ s \in Nat /\ t \in Nat
        BY <1>0, FileNames, ArchiveAssumption DEF SaveOK
      <4> QED BY <2>1, <2>3, <3>1, <4>1 DEF Done
    <3>3. Whole(s, w) /\ disk[s][w].stamp = pass.stamp
      BY <1>1, <3>1 DEF Settled
    <3>4. Whole(s, w)' /\ disk'[s][w].stamp = pass.stamp
      BY <1>2, <1>3, <3>1, <3>3, SameCopy
    <3>5. Done(s, w)'
      BY <1>0, <3>1, MovedFacts
    <3>6. s \in DOMAIN pass'.seen => Settled(s, w)'
      BY <1>0, <1>1, MovedFacts, NoneNoted DEF Steady
    <3>7. Original(s, t, w)'
      BY <1>4, <3>2, <3>4, <3>5, <3>6 DEF Original
    <3>8. pass'.at # "rest" => pass.stamp <= pass'.limit
      BY <1>0, <1>5, MovedFacts DEF Cleared, SeenSame
    <3>9. pass.stamp <= horizon'
      BY <1>0, <1>5
    <3> QED BY <1>4, <2>3, <3>7, <3>8, <3>9 DEF Copied
  <2> QED BY <2>2, <2>3
<1>11. w \notin unsaved' /\ (save'.wav = w => save'.dir > 1 /\ (faults' = 0 => Whole(1, w)'))
  BY <1>0, <1>6, <1>7 DEF Kept, Moved
<1>12. NotedSettled(w)' /\ CopyWhole(w)'
  BY MovedFacts
<1> QED BY <1>8, <1>9, <1>10, <1>11, <1>12 DEF Kept

\* The destination is lost.
LEMMA DroppedKept ==
  ASSUME ArchiveInv, DiskOK', NEW w \in Wavs, Kept(w), Moved(w), faults = 0, faults' = 1,
         Removed(pass.dst, w)
  PROVE  Kept(w)'
<1>0. /\ SaveOK /\ pass.dst \in Dirs
  BY TargetFacts DEF ArchiveInv, Moved, Copying
<1>a. PICK t \in Dirs : t = pass.dst /\ ~Has(t, w)'
  BY <1>0 DEF Has, Removed
<1>1. save'.wav = save.wav /\ save'.dir = save.dir /\ \A d \in Dirs : d # t => (Writing(d, w)' <=> Writing(d, w))
  BY <1>0, <1>a, DetachFacts DEF Moved
<1>2. \A d \in Dirs : d # t => SameFile(d, w)
  BY <1>a DEF Moved
<1>3. NoneCut(w)'
  BY DEF NoneCut
<1>4. CutBacked(w)'
  <2> SUFFICES ASSUME NEW d \in Dirs, Has(d, w)', ~Whole(d, w)', ~Writing(d, w)' PROVE FALSE
    BY DEF CutBacked
  <2>1. d # t
    BY <1>a
  <2>2. Has(d, w) /\ ~Whole(d, w) /\ ~Writing(d, w)
    BY <1>1, <1>2, <2>1, SameCopy
  <2> QED BY <2>2 DEF Kept, NoneCut
<1>5. AheadCopied(w)'
  <2> SUFFICES ASSUME NEW d \in Dirs, Has(d, w)', ~Done(d, w)' PROVE Copied(d, w)'
    BY DEF AheadCopied
  <2>1. d # t
    BY <1>a
  <2>2. Has(d, w) /\ ~Done(d, w)
    BY <1>2, <2>1, SameCopy, MovedFacts
  <2>3. Copied(d, w)
    BY <2>2 DEF Kept, AheadCopied
  <2> QED BY <1>a, <2>1, <2>2, <2>3, MovedFacts
<1>6. w \notin unsaved' /\ (save'.wav = w => save'.dir > 1)
  BY <1>1 DEF Kept, Moved
<1>7. NotedSettled(w)' /\ CopyWhole(w)'
  BY MovedFacts
<1> QED BY <1>3, <1>4, <1>5, <1>6, <1>7 DEF Kept

\* What both steps have in common.
MovedRest ==
    /\ \A w \in Wavs : w # pass.file => Apart(w)
    /\ pass.file \in Wavs => Moved(pass.file)

LEMMA MoveKeeps ==
  ASSUME ArchiveInv, DiskOK', MovedRest, pass.at = "rename", GoOn(pass, pass.dst),
         Detach(pass.dst, pass.file), horizon' = horizon,
         \A w \in Wavs : w = pass.file => Stage(w)'
  PROVE  ArchiveInv'
<1>0. /\ PassOK /\ DiskOK /\ Copying /\ pass.dst \in Dirs /\ SaveOK /\ BeingWritten
      /\ horizon \in Nat /\ horizon <= horizon'
  BY TargetFacts DEF ArchiveInv, Copying, DiskOK
<1>1. PassOK' /\ (Cleared \/ (SeenSame /\ pass'.at = "copy"))
  BY <1>0, PassGoesOn
<1>2. SaveOK'
  BY <1>0, DetachFacts
<1>3. BeingWritten'
  <2> SUFFICES ASSUME NEW d \in Dirs, NEW w \in Wavs, Writing(d, w)' PROVE Young(d, w)'
    BY DEF BeingWritten
  <2>1. CASE w # pass.file
    BY <1>0, <2>1, WrittenSame DEF MovedRest
  <2>2. CASE w = pass.file
    <3>1. d # pass.dst /\ Writing(d, w)
      BY <1>0, <2>2, DetachFacts
    <3>2. SameFile(d, w)
      BY <2>2, <3>1 DEF MovedRest, Moved
    <3> QED BY <1>0, <3>1, <3>2, YoungSame DEF BeingWritten
  <2> QED BY <2>1, <2>2
<1>4. ASSUME NEW w \in Wavs PROVE Stage(w)'
  <2>1. CASE w # pass.file
    BY <1>0, <1>1, <2>1, StageCleared, StageNext DEF MovedRest, ArchiveInv, Progress
  <2> QED BY <2>1
<1> QED BY <1>1, <1>2, <1>3, <1>4 DEF ArchiveInv, Progress

LEMMA MovedStage ==
  ASSUME ArchiveInv, DiskOK', NEW w \in Wavs, Moved(w), Doomed(w), \A d \in Dirs : ~Whole(d, w)'
  PROVE  Stage(w)'
<1>1. save'.wav = save.wav /\ pass'.at # "rename"
  <2>1. PassOK /\ SaveOK /\ DiskOK /\ Copying /\ pass.dst \in Dirs /\ horizon <= horizon'
    BY TargetFacts DEF ArchiveInv, Moved, Copying, DiskOK
  <2>2. Cleared \/ (SeenSame /\ pass'.at = "copy")
    BY <2>1, PassGoesOn DEF Moved
  <2> QED BY <2>1, <2>2, DetachFacts DEF Moved, Cleared
<1> QED BY <1>1 DEF Doomed, Moved, Stage

\* A recording the pass has noted is past its first copy.
LEMMA NotedStage ==
  ASSUME ArchiveInv, Copying, NEW w \in Wavs, w = pass.file
  PROVE  Doomed(w) \/ Kept(w)
<1>1. \E d \in Dirs : Noted(d, w)
  BY TargetFacts DEF ArchiveInv
<1> QED BY <1>1 DEF ArchiveInv, Progress, Stage, Fresh, Starting

LEMMA RenameKeeps ==
  ASSUME ArchiveInv, RenameCopy
  PROVE  ArchiveInv'
<1>0. /\ PassOK /\ DiskOK /\ Copying /\ pass.dst \in Dirs /\ SaveOK /\ pass.at = "rename"
      /\ horizon \in Nat /\ clock \in Nat /\ horizon <= clock
      /\ pass.file \in Files
      /\ UNCHANGED <<clock, horizon, faults, unsaved, rows>> /\ Detach(pass.dst, pass.file)
      /\ GoOn(pass, pass.dst)
  BY TargetFacts DEF ArchiveInv, RenameCopy, Copying, DiskOK
<1>1. /\ pass.body \in Seq(Nat) /\ pass.stamp \in Nat /\ pass.stamp <= clock
      /\ pass.file \in Wavs => pass.body \in Bodies
  BY <1>0 DEF PassOK, PassRecord
<1>2. Replaced(pass.dst, pass.file, pass.body, pass.stamp)
  BY <1>0, <1>1, WithFacts DEF RenameCopy, DiskOK
<1>3. DiskOK'
  <2>1. disk' \in [Dirs -> Folder] /\ \A e \in Dirs : FolderOK(e)'
    BY <1>0, <1>1, <1>2, FoldersReplaced
  <2> QED BY <1>0, <2>1 DEF DiskOK
<1>4. MovedRest
  <2>1. ASSUME NEW w \in Wavs, w # pass.file PROVE Apart(w)
    <3>1. \A e \in Dirs : SameFile(e, w)
      BY <1>2, <2>1 DEF Replaced, Files
    <3>2. save'.wav = save.wav /\ (save.wav = w => save' = save)
      BY <1>0, <2>1, DetachFacts
    <3> QED BY <1>0, <3>1, <3>2 DEF Apart
  <2>2. ASSUME pass.file \in Wavs PROVE Moved(pass.file)
    BY <1>0, <1>2 DEF Moved, Replaced
  <2> QED BY <2>1, <2>2 DEF MovedRest
<1>5. ASSUME NEW w \in Wavs, w = pass.file PROVE Stage(w)'
  <2>1. Moved(w) /\ Replaced(pass.dst, w, pass.body, pass.stamp)
    BY <1>2, <1>4, <1>5 DEF MovedRest
  <2>2. CASE Kept(w)
    BY <1>0, <1>3, <2>1, <2>2, RenamedKept DEF Stage
  <2>3. CASE Doomed(w)
    <3>1. ASSUME NEW d \in Dirs PROVE ~Whole(d, w)'
      <4>1. CASE d = pass.dst
        BY <1>0, <1>5, <2>1, <2>3, <4>1 DEF Replaced, Whole, Has, Body, Doomed
      <4>2. CASE d # pass.dst
        BY <2>1, <2>3, <4>2, SameCopy DEF Moved, Doomed
      <4> QED BY <4>1, <4>2
    <3> QED BY <1>3, <2>1, <2>3, <3>1, MovedStage
  <2> QED BY <1>0, <1>5, <2>2, <2>3, NotedStage
<1> QED BY <1>0, <1>3, <1>4, <1>5, MoveKeeps

LEMMA RenameFailsKeeps ==
  ASSUME MaxFaults \in 0..1, ArchiveInv, RenameFails
  PROVE  ArchiveInv'
<1>0. /\ PassOK /\ DiskOK /\ Copying /\ pass.dst \in Dirs /\ SaveOK /\ pass.at = "rename"
      /\ horizon \in Nat /\ faults = 0 /\ faults' = 1
      /\ pass.file \in Files
      /\ UNCHANGED <<clock, horizon, unsaved, rows>> /\ Detach(pass.dst, pass.file)
      /\ GoOn(pass, pass.dst)
  BY OneFault, TargetFacts DEF ArchiveInv, RenameFails, Copying, DiskOK
<1>2. Removed(pass.dst, pass.file)
  BY <1>0, WithoutFacts DEF RenameFails, DiskOK
<1>3. DiskOK'
  <2>1. disk' \in [Dirs -> Folder] /\ \A e \in Dirs : FolderOK(e)'
    BY <1>0, <1>2, FoldersRemoved
  <2> QED BY <1>0, <2>1 DEF DiskOK
<1>4. MovedRest
  <2>1. ASSUME NEW w \in Wavs, w # pass.file PROVE Apart(w)
    <3>1. \A e \in Dirs : SameFile(e, w)
      BY <1>2, <2>1 DEF Removed, Files
    <3>2. save'.wav = save.wav /\ (save.wav = w => save' = save)
      BY <1>0, <2>1, DetachFacts
    <3> QED BY <1>0, <3>1, <3>2 DEF Apart
  <2>2. ASSUME pass.file \in Wavs PROVE Moved(pass.file)
    BY <1>0, <1>2 DEF Moved, Removed
  <2> QED BY <2>1, <2>2 DEF MovedRest
<1>5. ASSUME NEW w \in Wavs, w = pass.file PROVE Stage(w)'
  <2>1. Moved(w) /\ Removed(pass.dst, w)
    BY <1>2, <1>4, <1>5 DEF MovedRest
  <2>2. CASE Kept(w)
    BY <1>0, <1>3, <2>1, <2>2, DroppedKept DEF Stage
  <2>3. CASE Doomed(w)
    <3>1. ASSUME NEW d \in Dirs PROVE ~Whole(d, w)'
      <4>1. CASE d = pass.dst
        BY <2>1, <4>1 DEF Removed, Whole, Has
      <4>2. CASE d # pass.dst
        BY <2>1, <2>3, <4>2, SameCopy DEF Moved, Doomed
      <4> QED BY <4>1, <4>2
    <3> QED BY <1>3, <2>1, <2>3, <3>1, MovedStage
  <2> QED BY <1>0, <1>5, <2>2, <2>3, NotedStage
<1> QED BY <1>0, <1>3, <1>4, <1>5, MoveKeeps
-----------------------------------------------------------------------------
(* The clip worker.                                                         *)

LEMMA StartKeeps ==
  ASSUME ArchiveInv, NEW w \in Wavs, StartSave(w)
  PROVE  ArchiveInv'
<1>1. /\ DiskOK /\ SaveOK /\ save = IdleWorker /\ save.wav = "none" /\ horizon \in Nat
      /\ save' = [wav |-> w, dir |-> 1, open |-> FALSE, detached |-> FALSE]
      /\ unsaved' = unsaved \ {w} /\ w \in unsaved
      /\ UNCHANGED <<disk, clock, horizon, rows, pass, faults>>
  <2>1. DiskOK /\ SaveOK /\ horizon \in Nat
    BY DEF ArchiveInv, DiskOK
  <2>2. save = IdleWorker /\ save.wav = "none"
    BY DEF StartSave, IdleWorker
  <2>3. save' = [wav |-> w, dir |-> 1, open |-> FALSE, detached |-> FALSE]
    BY DEF StartSave, IdleWorker
  <2> QED BY <2>1, <2>2, <2>3 DEF StartSave
<1>2. DiskOK'
  BY <1>1 DEF DiskOK, FolderOK, Has, Body
<1>3. SaveOK' /\ BeingWritten'
  <2>1. 1 \in 0..NDirs /\ 1 # None /\ w # "none"
    BY <1>1, FileNames, ArchiveAssumption DEF None
  <2> QED BY <1>1, <2>1 DEF SaveOK, BeingWritten, Writing
<1>4. ASSUME NEW v \in Wavs, v # w PROVE Apart(v)
  <2>1. save.wav # v /\ save'.wav # v
    BY <1>1, <1>4, FileNames
  <2> QED BY <1>1, <1>4, <2>1 DEF Apart, SameFile
<1>5. Stage(w)'
  <2>1. Fresh(w)
    BY <1>1 DEF ArchiveInv, Progress, Stage, Starting, Doomed, Kept
  <2>2. \A d \in Dirs : ~Has(d, w)' /\ ~Noted(d, w)'
    BY <1>1, <2>1 DEF Fresh, Has, Noted
  <2>3. w \notin unsaved' /\ save'.wav = w /\ save'.dir = 1 /\ ~save'.detached
    BY <1>1
  <2> QED BY <2>2, <2>3 DEF Starting, Stage
<1>6. horizon <= horizon'
  BY <1>1
<1> QED BY <1>1, <1>2, <1>3, <1>4, <1>5, <1>6, PassWaits

\* The worker's step leaves the copies it has made, and those it had from the
\* sync in folders it is past.
WorkerStep(w) ==
    /\ save.wav = w
    /\ \A d \in Dirs : Done(d, w) /\ Whole(d, w) => Done(d, w)' /\ SameFile(d, w)
    /\ UNCHANGED <<horizon, unsaved, rows, pass>>

LEMMA WorkerFacts ==
  ASSUME ArchiveInv, NEW w \in Wavs, Kept(w), WorkerStep(w)
  PROVE  /\ NotedSettled(w)' /\ CopyWhole(w)'
         /\ \A d \in Dirs : SameFile(d, w) /\ Copied(d, w) => Copied(d, w)'
         /\ \A d \in Dirs : /\ Has(d, w)' /\ disk'[d][w].stamp = disk[d][w].stamp
                            /\ Backed(d, w)
                            => Backed(d, w)'
<1>0. PassOK /\ SaveOK /\ SeenSame /\ save.wav = w /\ pass' = pass /\ horizon' = horizon
  BY DEF ArchiveInv, WorkerStep, SeenSame
<1>1. ASSUME NEW d \in Dirs, Settled(d, w) PROVE Settled(d, w)'
  <2>1. Done(d, w) /\ Has(d, w) /\ Whole(d, w)
    BY <1>0, <1>1 DEF Settled
  <2>2. Done(d, w)' /\ SameFile(d, w)
    BY <2>1 DEF WorkerStep
  <2>3. Noted(d, w)'
    BY <1>0, <1>1, NotedSame DEF Settled
  <2> QED BY <1>0, <1>1, <2>1, <2>2, <2>3, SameCopy DEF Settled
<1>2. Steady(w)
  BY <1>1 DEF Steady
<1>3. NotedSettled(w)' /\ CopyWhole(w)'
  BY <1>0, <1>2, SteadyNoted, SteadyCopy DEF Kept
<1>4. ASSUME NEW d \in Dirs, SameFile(d, w), Copied(d, w) PROVE Copied(d, w)'
  <2>1. PICK e \in Dirs : Original(e, d, w)
    BY <1>4 DEF Copied
  <2>2. Done(e, w)' /\ SameFile(e, w)
    BY <2>1 DEF Original, WorkerStep
  <2>3. Whole(d, w)' /\ disk'[d][w] = disk[d][w]
    BY <1>4, SameCopy, WholeHas DEF Copied
  <2>4. Whole(e, w)' /\ disk'[e][w] = disk[e][w]
    BY <2>1, <2>2, SameCopy, WholeHas DEF Original
  <2>5. e \in DOMAIN pass'.seen => Settled(e, w)'
    BY <1>0, <1>1, <2>1 DEF Original
  <2>6. Original(e, d, w)'
    BY <2>1, <2>2, <2>3, <2>4, <2>5 DEF Original
  <2> QED BY <1>0, <1>4, <2>3, <2>6 DEF Copied
<1>5. ASSUME NEW d \in Dirs, Has(d, w)', disk'[d][w].stamp = disk[d][w].stamp, Backed(d, w)
      PROVE  Backed(d, w)'
  <2>1. Done(1, w) /\ Whole(1, w) /\ 1 \in Dirs
    BY <1>0, <1>5, FileNames DEF Backed, Kept, Done
  <2>2. SameFile(1, w)
    BY <2>1 DEF WorkerStep
  <2>3. Whole(1, w)' /\ disk'[1][w] = disk[1][w]
    BY <2>1, <2>2, SameCopy, WholeHas
  <2> QED BY <1>0, <1>1, <1>5, <2>1, <2>3 DEF Backed
<1> QED BY <1>3, <1>4, <1>5

\* The other recordings see nothing of it.
LEMMA WorkerKeeps ==
  ASSUME ArchiveInv, DiskOK', SaveOK', NEW w \in Wavs, WorkerStep(w),
         \A d \in Dirs, v \in Wavs : v # w => SameFile(d, v),
         save'.wav \in {w, "none"}, faults' \in {faults, 1},
         \A d \in Dirs : Writing(d, w)' => Young(d, w)',
         Stage(w)'
  PROVE  ArchiveInv'
<1>1. horizon \in Nat /\ horizon <= horizon' /\ horizon' = horizon /\ save.wav = w /\ pass' = pass
  BY DEF ArchiveInv, DiskOK, WorkerStep
<1>2. ASSUME NEW v \in Wavs, v # w PROVE Apart(v) /\ save'.wav # v
  <2>1. save.wav # v /\ save'.wav # v
    BY <1>1, <1>2, FileNames
  <2> QED BY <1>1, <1>2, <2>1 DEF Apart, WorkerStep
<1>3. BeingWritten'
  <2> SUFFICES ASSUME NEW d \in Dirs, NEW v \in Wavs, Writing(d, v)' PROVE Young(d, v)'
    BY DEF BeingWritten
  <2>1. v = w
    BY <1>2 DEF Writing
  <2> QED BY <2>1
<1> QED BY <1>1, <1>2, <1>3, PassWaits

LEMMA OpenKeeps ==
  ASSUME ArchiveInv, OpenWav
  PROVE  ArchiveInv'
<1>1. /\ DiskOK /\ SaveOK /\ PassOK /\ horizon \in Nat /\ clock \in Nat /\ horizon <= clock
      /\ pass.limit \in Nat /\ pass.limit <= horizon
      /\ clock' = clock + 1 /\ UNCHANGED <<horizon, unsaved, rows, pass, faults>>
      /\ save.dir # None /\ ~save.open
      /\ save \in [wav : Wavs \cup {"none"}, dir : 0..NDirs, open : BOOLEAN, detached : BOOLEAN]
  BY DEF ArchiveInv, DiskOK, SaveOK, PassOK, PassRecord, OpenWav
<1>2. PICK w \in Wavs : save.wav = w
  <2>1. save.wav # "none"
    BY <1>1 DEF SaveOK, IdleWorker
  <2> QED BY <1>1, <2>1
<1>3. PICK t \in Dirs : save.dir = t
  BY <1>1, ArchiveAssumption DEF Dirs, None
<1>4. save' = [save EXCEPT !.open = TRUE] /\ ~save.detached /\ save.wav # "none"
  BY <1>1, <1>2, FileNames DEF OpenWav, SaveOK
<1>5. save' = [wav |-> w, dir |-> t, open |-> TRUE, detached |-> FALSE]
  BY <1>1, <1>2, <1>3, <1>4
<1>6. Replaced(t, w, <<>>, clock')
  <2>1. disk' = With(t, w, <<>>, clock') /\ w \in Files /\ clock' \in Nat /\ <<>> \in Seq(Nat)
        /\ disk \in [Dirs -> Folder]
    BY <1>1, <1>2, <1>3 DEF OpenWav, Files, DiskOK
  <2> QED BY <2>1, WithFacts
<1>7. DiskOK'
  <2>1. disk' \in [Dirs -> Folder] /\ \A e \in Dirs : FolderOK(e)'
    <3>1. clock' \in Nat /\ clock <= clock' /\ clock' <= clock' /\ <<>> \in Bodies /\ w \in Files
      BY <1>1 DEF Bodies, Files
    <3> QED BY <1>1, <1>6, <3>1, FoldersReplaced
  <2> QED BY <1>1, <2>1 DEF DiskOK
<1>8. SaveOK'
  BY <1>1, <1>2, <1>3, <1>5, FileNames DEF SaveOK
<1>9. \A d \in Dirs : d # t => SameFile(d, w)
  BY <1>6 DEF Replaced, Files
<1>10. Has(t, w)' /\ Body(t, w)' = <<>> /\ disk'[t][w].stamp = clock + 1 /\ ~Whole(t, w)'
  BY <1>1, <1>6 DEF Replaced, Has, Body, Whole, Wav
<1>11. \A d \in Dirs : (Done(d, w)' <=> Done(d, w) \/ d = t) /\ (Done(d, w) => d # t)
  BY <1>1, <1>2, <1>3, <1>5, FileNames DEF Done
<1>12. WorkerStep(w)
  BY <1>1, <1>2, <1>9, <1>11 DEF WorkerStep
<1>13. \A d \in Dirs : ~Writing(d, w) /\ (Writing(d, w)' <=> d = t)
  BY <1>1, <1>5 DEF Writing
<1>14. ASSUME Starting(w) PROVE Stage(w)'
  <2>1. t = 1 /\ \A d \in Dirs : ~Has(d, w) /\ ~Noted(d, w)'
    BY <1>1, <1>3, <1>14 DEF Starting, Noted
  <2>2. \A d \in Dirs : Has(d, w)' => d = 1
    BY <1>9, <2>1, SameCopy
  <2>3. Starting(w)'
    BY <1>1, <1>5, <1>14, <2>1, <2>2 DEF Starting
  <2> QED BY <2>3 DEF Stage
<1>15. ASSUME Kept(w) PROVE Stage(w)'
  <2>1. t > 1
    BY <1>2, <1>3, <1>15 DEF Kept
  <2>2. \A d \in Dirs : d # t =>
          /\ (Has(d, w)' <=> Has(d, w)) /\ (Whole(d, w)' <=> Whole(d, w))
          /\ (Has(d, w) => disk'[d][w] = disk[d][w])
    BY <1>9, SameCopy
  <2>3. w \notin unsaved' /\ (save'.wav = w => save'.dir > 1 /\ (faults' = 0 => Whole(1, w)'))
    BY <1>1, <1>2, <1>5, <1>15, <2>1, <2>2, FileNames DEF Kept
  <2>4. NoneCut(w)'
    BY <1>1, <1>13, <1>15, <2>2 DEF NoneCut, Kept
  <2>5. CutBacked(w)'
    <3> SUFFICES ASSUME NEW d \in Dirs, Has(d, w)', ~Whole(d, w)', faults' = 0 \/ ~Writing(d, w)'
                 PROVE  Backed(d, w)'
      BY DEF CutBacked
    <3>1. CASE d = t
      <4>1. Whole(1, w) /\ Whole(1, w)' /\ disk'[1][w] = disk[1][w]
        BY <1>1, <1>2, <1>13, <1>15, <2>1, <2>2, <3>1, FileNames DEF Kept, Whole
      <4>2. disk[1][w].stamp \in Nat /\ disk[1][w].stamp <= clock
        BY <1>1, <4>1, CopyFacts, FileNames DEF Whole
      <4>3. ~(disk'[t][w].stamp <= pass'.limit)
        BY <1>1, <1>10
      <4>4. disk'[1][w].stamp < disk'[t][w].stamp
        BY <1>1, <1>10, <4>1, <4>2
      <4> QED BY <3>1, <4>1, <4>3, <4>4 DEF Backed
    <3>2. CASE d # t
      <4>1. Has(d, w) /\ ~Whole(d, w) /\ disk'[d][w] = disk[d][w]
        BY <2>2, <3>2
      <4>2. Backed(d, w)
        BY <1>13, <1>15, <4>1 DEF Kept, CutBacked
      <4> QED BY <1>12, <1>15, <4>1, <4>2, WorkerFacts
    <3> QED BY <3>1, <3>2
  <2>6. AheadCopied(w)'
    <3> SUFFICES ASSUME NEW d \in Dirs, Has(d, w)', ~Done(d, w)' PROVE Copied(d, w)'
      BY DEF AheadCopied
    <3>1. d # t /\ ~Done(d, w) /\ Has(d, w)
      BY <1>11, <2>2
    <3>2. Copied(d, w) /\ SameFile(d, w)
      BY <1>9, <1>15, <3>1 DEF Kept, AheadCopied
    <3> QED BY <1>12, <1>15, <3>2, WorkerFacts
  <2>7. NotedSettled(w)' /\ CopyWhole(w)'
    BY <1>12, <1>15, WorkerFacts
  <2> QED BY <2>3, <2>4, <2>5, <2>6, <2>7 DEF Kept, Stage
<1>16. Stage(w)'
  BY <1>2, <1>14, <1>15 DEF ArchiveInv, Progress, Stage, Fresh, Doomed
<1>17. \A d \in Dirs : Writing(d, w)' => Young(d, w)'
  BY <1>1, <1>10, <1>13 DEF Young
<1>18. \A d \in Dirs, v \in Wavs : v # w => SameFile(d, v)
  BY <1>6 DEF Replaced, Files
<1> QED BY <1>1, <1>5, <1>7, <1>8, <1>12, <1>16, <1>17, <1>18, WorkerKeeps
\* What a write leaves of the folders: body is what the file now holds, unless
\* nobody sees it.
Wrote(t, w, body) ==
    /\ disk' \in [Dirs -> Folder] /\ \A d \in Dirs : FolderOK(d)'
    /\ \A d \in Dirs, v \in Wavs : d # t \/ v # w => SameFile(d, v)
    /\ ~SameFile(t, w) => /\ Young(t, w) /\ ~Whole(t, w) /\ Has(t, w)' /\ Body(t, w)' = body
                          /\ disk'[t][w].stamp = disk[t][w].stamp
    /\ SameFile(t, w) => ~save.open \/ save.detached \/ body = <<>>

LEMMA UnWritten ==
  ASSUME DiskOK, NEW t \in Dirs, NEW w \in Wavs, NEW body, ~save.open, UNCHANGED <<disk, clock>>
  PROVE  Wrote(t, w, body)
<1>1. \A d \in Dirs, v \in Wavs : SameFile(d, v)
  BY DEF SameFile
<1>2. disk' \in [Dirs -> Folder] /\ \A d \in Dirs : FolderOK(d)'
  BY DEF DiskOK, FolderOK, Has, Body
<1> QED BY <1>1, <1>2 DEF Wrote

\* What a write can leave of a file: all of it, or the first half.
Half == <<1>>

LEMMA TwoBodies == Wav \in Bodies /\ Wav # <<>> /\ Half \in Bodies /\ Half # <<>>
BY DEF Bodies, Wav, Half

LEMMA BodyWritten ==
  ASSUME DiskOK, BeingWritten, NEW t \in Dirs, NEW w \in Wavs, NEW body \in Bodies, body # <<>>,
         save.open, save.dir = t, save.wav = w, WriteBody(body), clock' = clock
  PROVE  Wrote(t, w, body)
<1>0. body \in Seq(Nat)
  <2>1. <<>> \in Seq(Nat) /\ <<1>> \in Seq(Nat) /\ <<1, 2>> \in Seq(Nat)
    OBVIOUS
  <2>2. body = <<>> \/ body = <<1>> \/ body = <<1, 2>>
    BY DEF Bodies, Wav
  <2> QED BY <2>1, <2>2
<1>1. CASE save.detached
  <2>1. disk' = disk
    BY <1>1 DEF WriteBody
  <2>2. \A d \in Dirs, v \in Wavs : SameFile(d, v)
    BY <2>1 DEF SameFile
  <2>3. disk' \in [Dirs -> Folder] /\ \A d \in Dirs : FolderOK(d)'
    BY <2>1 DEF DiskOK, FolderOK, Has, Body
  <2> QED BY <1>1, <2>2, <2>3 DEF Wrote
<1>2. CASE ~save.detached
  <2> DEFINE s == disk[t][w].stamp
  <2>1. Young(t, w)
    BY <1>2 DEF BeingWritten, Writing
  <2>2. s \in Nat /\ s <= clock /\ ~Whole(t, w) /\ w \in Files
    BY <2>1, CopyFacts DEF Young, Whole, Wav
  <2>3. disk' = With(t, w, body, s)
    BY <1>2 DEF WriteBody
  <2>x. s = disk[t][w].stamp
    OBVIOUS
  <2> HIDE DEF s
  <2>4. Replaced(t, w, body, s)
    BY <1>0, <2>2, <2>3, WithFacts DEF DiskOK
  <2>5. disk' \in [Dirs -> Folder] /\ \A d \in Dirs : FolderOK(d)'
    <3>1. clock' \in Nat /\ clock <= clock' /\ s <= clock'
      BY <2>2 DEF DiskOK
    <3> QED BY <1>0, <2>2, <2>4, <3>1, FoldersReplaced
  <2>6. \A d \in Dirs, v \in Wavs : d # t \/ v # w => SameFile(d, v)
    BY <2>4 DEF Replaced, Files
  <2>7. Has(t, w)' /\ Body(t, w)' = body /\ disk'[t][w].stamp = disk[t][w].stamp
    BY <2>4, <2>x DEF Replaced, Has, Body
  <2>8. ~SameFile(t, w)
    <3>1. Body(t, w)' # Body(t, w)
      BY <1>0, <2>1, <2>7 DEF Young
    <3> QED BY <3>1, SameCopy
  <2> QED BY <2>1, <2>2, <2>5, <2>6, <2>7, <2>8 DEF Wrote
<1> QED BY <1>1, <1>2

\* The worker is done with folder t.
Past(t, w) ==
    /\ SaveOK' /\ ~save'.open /\ save'.wav \in {w, "none"}
    /\ save'.wav = w => save'.dir = t + 1

LEMMA PastFacts ==
  ASSUME SaveOK, NEW t \in Dirs, NEW w \in Wavs, save.wav = w, SavedUpTo(t) \/ save' = IdleWorker
  PROVE  Past(t, w)
<1>1. CASE save' = IdleWorker
  BY <1>1, IdleOK, FileNames DEF Past
<1>2. CASE save' # IdleWorker
  <2>1. t < NDirs /\ save' = [save EXCEPT !.dir = t + 1, !.open = FALSE, !.detached = FALSE]
    BY <1>2 DEF SavedUpTo
  <2>2. t + 1 \in 0..NDirs /\ t + 1 # None
    BY <2>1, ArchiveAssumption DEF Dirs, None
  <2>3. save \in [wav : Wavs \cup {"none"}, dir : 0..NDirs, open : BOOLEAN, detached : BOOLEAN]
    BY DEF SaveOK
  <2>4. save' = [wav |-> w, dir |-> t + 1, open |-> FALSE, detached |-> FALSE]
    BY <2>1, <2>3
  <2>5. save' \in [wav : Wavs \cup {"none"}, dir : 0..NDirs, open : BOOLEAN, detached : BOOLEAN]
    BY <2>2, <2>4
  <2>6. SaveOK'
    BY <2>2, <2>4, <2>5, FileNames DEF SaveOK
  <2> QED BY <2>4, <2>6 DEF Past
<1> QED BY <1>1, <1>2

\* A write, whole or cut short, of a recording that is kept.
LEMMA WroteKept ==
  ASSUME ArchiveInv, NEW t \in Dirs, NEW w \in Wavs, NEW body, Kept(w), save.wav = w, save.dir = t,
         Wrote(t, w, body), Past(t, w), UNCHANGED <<horizon, unsaved, rows, pass>>,
         \/ faults' = faults /\ save.open /\ body = Wav
         \/ faults = 0 /\ faults' = 1
  PROVE  WorkerStep(w) /\ Kept(w)'
<1>0. t > 1 /\ 1 \in Dirs /\ faults \in 0..1 /\ t \in Nat
  BY FileNames DEF Kept, ArchiveInv, DiskOK
<1>1. \A d \in Dirs : d # t => SameFile(d, w)
  BY DEF Wrote
<1>2. ASSUME NEW d \in Dirs
      PROVE  (Done(d, w) => Done(d, w)') /\ (~Done(d, w)' => ~Done(d, w) /\ d # t)
  <2>1. d \in Nat /\ t \in Nat
    BY FileNames
  <2> QED BY <1>0, <2>1 DEF Done, Past
<1>3. ASSUME NEW d \in Dirs, Whole(d, w) PROVE SameFile(d, w)
  BY <1>1, <1>3 DEF Wrote
<1>4. WorkerStep(w)
  BY <1>2, <1>3 DEF WorkerStep
<1>5. \A d \in Dirs : ~Writing(d, w)'
  BY DEF Past, Writing
<1>6. w \notin unsaved' /\ (save'.wav = w => save'.dir > 1 /\ (faults' = 0 => Whole(1, w)'))
  <2>1. faults' = 0 => faults = 0
    OBVIOUS
  <2>2. Whole(1, w)' <=> Whole(1, w)
    BY <1>0, <1>1, SameCopy
  <2> QED BY <1>0, <2>1, <2>2 DEF Kept, Past
<1>7. NoneCut(w)'
  <2> SUFFICES ASSUME NEW d \in Dirs, Has(d, w)', faults' # 1 PROVE Whole(d, w)'
    BY DEF NoneCut
  <2>1. faults' = faults /\ save.open /\ body = Wav
    OBVIOUS
  <2>2. CASE SameFile(d, w)
    <3>1. Whole(d, w) \/ Writing(d, w)
      BY <1>0, <2>1, <2>2, SameCopy DEF Kept, NoneCut
    <3>2. ~Writing(d, w)
      BY <2>1, <2>2 DEF Wrote, Writing, Wav
    <3> QED BY <2>2, <3>1, <3>2, SameCopy
  <2>3. CASE ~SameFile(d, w)
    BY <1>1, <2>1, <2>3 DEF Wrote, Whole
  <2> QED BY <2>2, <2>3
<1>8. CutBacked(w)'
  <2> SUFFICES ASSUME NEW d \in Dirs, Has(d, w)', ~Whole(d, w)' PROVE Backed(d, w)'
    BY DEF CutBacked
  <2>1. /\ Has(d, w) /\ ~Whole(d, w) /\ disk'[d][w].stamp = disk[d][w].stamp
        /\ faults = 0 \/ ~Writing(d, w)
    <3>1. CASE SameFile(d, w)
      <4>1. ASSUME faults # 0 PROVE ~Writing(d, w)
        <5>1. save.open /\ body = Wav
          BY <4>1
        <5>2. Wav # <<>>
          BY DEF Wav
        <5> QED BY <3>1, <5>1, <5>2 DEF Wrote, Writing
      <4> QED BY <3>1, <4>1, SameCopy
    <3>2. CASE ~SameFile(d, w)
      <4>1. d = t /\ body # Wav
        BY <1>1, <3>2 DEF Wrote, Whole
      <4> QED BY <3>2, <4>1 DEF Wrote, Young
    <3> QED BY <3>1, <3>2
  <2>2. Backed(d, w)
    BY <2>1 DEF Kept, CutBacked
  <2> QED BY <1>4, <2>1, <2>2, WorkerFacts
<1>9. AheadCopied(w)'
  <2> SUFFICES ASSUME NEW d \in Dirs, Has(d, w)', ~Done(d, w)' PROVE Copied(d, w)'
    BY DEF AheadCopied
  <2>1. ~Done(d, w) /\ SameFile(d, w)
    BY <1>1, <1>2
  <2>2. Copied(d, w)
    BY <2>1, SameCopy DEF Kept, AheadCopied
  <2> QED BY <1>4, <2>1, <2>2, WorkerFacts
<1>10. NotedSettled(w)' /\ CopyWhole(w)'
  BY <1>4, WorkerFacts
<1> QED BY <1>4, <1>6, <1>7, <1>8, <1>9, <1>10 DEF Kept
\* Where the worker is, in a step of it.
LEMMA AtWork ==
  ASSUME ArchiveInv, save.dir # None
  PROVE  \E t \in Dirs, w \in Wavs : save.dir = t /\ save.wav = w
<1>1. SaveOK
  BY DEF ArchiveInv
<1>2. save.wav # "none" /\ save.wav \in Wavs
  BY <1>1 DEF SaveOK, IdleWorker
<1>3. save.dir \in Dirs
  BY <1>1, ArchiveAssumption DEF SaveOK, Dirs, None
<1> QED BY <1>2, <1>3

LEMMA PastKeeps ==
  ASSUME ArchiveInv, NEW t \in Dirs, NEW w \in Wavs, NEW body, Wrote(t, w, body), Past(t, w),
         UNCHANGED <<clock, horizon, unsaved, rows, pass>>, faults' \in {faults, 1},
         save.wav = w, save.dir = t, WorkerStep(w), Stage(w)'
  PROVE  ArchiveInv'
<1>1. DiskOK'
  BY DEF ArchiveInv, DiskOK, Wrote
<1>2. SaveOK' /\ save'.wav \in {w, "none"} /\ \A d \in Dirs : ~Writing(d, w)'
  BY DEF Past, Writing
<1>3. \A d \in Dirs, v \in Wavs : v # w => SameFile(d, v)
  BY DEF Wrote
<1> QED BY <1>1, <1>2, <1>3, WorkerKeeps

\* The first copy.
LEMMA StartingStep ==
  ASSUME NEW t \in Dirs, NEW w \in Wavs, NEW body, Starting(w), save.wav = w, save.dir = t,
         Wrote(t, w, body), Past(t, w), UNCHANGED <<horizon, unsaved, rows, pass>>
  PROVE  /\ WorkerStep(w) /\ t = 1
         /\ \A d \in Dirs : ~Noted(d, w)' /\ (Has(d, w)' => d = 1)
<1>1. t = 1 /\ \A d \in Dirs : Whole(d, w) => d = 1
  BY DEF Starting, Whole
<1>2. ASSUME NEW d \in Dirs, Done(d, w) PROVE Done(d, w)'
  BY <1>1, <1>2, FileNames DEF Done, Past
<1>3. ASSUME NEW d \in Dirs, Whole(d, w) PROVE SameFile(d, w)
  BY <1>3 DEF Wrote
<1>4. WorkerStep(w)
  BY <1>2, <1>3 DEF WorkerStep
<1>5. ASSUME NEW d \in Dirs PROVE ~Noted(d, w)' /\ (Has(d, w)' => d = 1)
  <2>1. ~Noted(d, w)'
    BY DEF Starting, Noted
  <2>2. d # 1 => SameFile(d, w) /\ ~Has(d, w)
    BY <1>1 DEF Wrote, Starting
  <2> QED BY <2>1, <2>2, SameCopy
<1> QED BY <1>1, <1>4, <1>5

LEMMA WriteKeeps ==
  ASSUME ArchiveInv, WriteWav
  PROVE  ArchiveInv'
<1>1. /\ DiskOK /\ SaveOK /\ BeingWritten /\ PassOK /\ save.open /\ save.dir # None
      /\ UNCHANGED <<clock, horizon, unsaved, rows, pass, faults>>
  BY DEF ArchiveInv, SaveOK, WriteWav, IdleWorker
<1>2. PICK t \in Dirs, w \in Wavs : save.dir = t /\ save.wav = w
  BY <1>1, AtWork
<1>3. Wrote(t, w, Wav)
  BY <1>1, <1>2, BodyWritten, TwoBodies DEF WriteWav
<1>4. Past(t, w)
  BY <1>1, <1>2, PastFacts DEF WriteWav
<1>5. ASSUME Kept(w) PROVE WorkerStep(w) /\ Stage(w)'
  BY <1>1, <1>2, <1>3, <1>4, <1>5, WroteKept DEF Stage
<1>6. ASSUME Starting(w) PROVE WorkerStep(w) /\ Stage(w)'
  <2>1. /\ WorkerStep(w) /\ t = 1
        /\ \A d \in Dirs : ~Noted(d, w)' /\ (Has(d, w)' => d = 1)
    BY <1>1, <1>2, <1>3, <1>4, <1>6, StartingStep
  <2>2. Whole(1, w)'
    <3>1. ~SameFile(t, w)
      BY <1>1, <1>3, <1>6 DEF Wrote, Starting, Wav
    <3> QED BY <1>3, <2>1, <3>1 DEF Wrote, Whole
  <2>3. w \notin unsaved' /\ (save'.wav = w => save'.dir > 1 /\ (faults' = 0 => Whole(1, w)'))
    BY <1>1, <1>4, <1>6, <2>1, <2>2 DEF Past, Starting
  <2>4. NoneCut(w)' /\ CutBacked(w)'
    BY <2>1, <2>2 DEF NoneCut, CutBacked
  <2>5. AheadCopied(w)'
    <3> SUFFICES ASSUME NEW d \in Dirs, Has(d, w)', ~Done(d, w)' PROVE FALSE
      BY DEF AheadCopied
    <3>1. d = 1
      BY <2>1
    <3> QED BY <1>4, <2>1, <3>1 DEF Done, Past
  <2>6. NotedSettled(w)'
    BY <2>1 DEF NotedSettled
  <2>7. CopyWhole(w)'
    <3>1. pass.at = "rename" => pass.file # w
      BY <1>1, <1>6, TargetFacts DEF Starting, Copying
    <3> QED BY <1>1, <3>1 DEF CopyWhole
  <2> QED BY <2>1, <2>3, <2>4, <2>5, <2>6, <2>7 DEF Kept, Stage
<1>7. WorkerStep(w) /\ Stage(w)'
  BY <1>2, <1>5, <1>6 DEF ArchiveInv, Progress, Stage, Fresh, Doomed
<1> QED BY <1>1, <1>2, <1>3, <1>4, <1>7, PastKeeps

LEMMA WriteFailsKeeps ==
  ASSUME MaxFaults \in 0..1, ArchiveInv, WriteFails
  PROVE  ArchiveInv'
<1>1. /\ DiskOK /\ SaveOK /\ BeingWritten /\ PassOK /\ save.dir # None /\ faults = 0 /\ faults' = 1
      /\ UNCHANGED <<clock, horizon, unsaved, rows, pass>>
  BY OneFault DEF ArchiveInv, DiskOK, WriteFails
<1>2. PICK t \in Dirs, w \in Wavs : save.dir = t /\ save.wav = w
  BY <1>1, AtWork
<1>3. Wrote(t, w, Half)
  <2>1. CASE save.open
    <3>1. WriteBody(Half)
      BY <2>1 DEF WriteFails, Half
    <3> QED BY <1>1, <1>2, <2>1, <3>1, BodyWritten, TwoBodies
  <2>2. CASE ~save.open
    BY <1>1, <2>2, UnWritten DEF WriteFails
  <2> QED BY <2>1, <2>2
<1>4. Past(t, w) /\ (t = 1 => save' = IdleWorker)
  BY <1>1, <1>2, PastFacts DEF WriteFails
<1>5. ASSUME Kept(w) PROVE WorkerStep(w) /\ Stage(w)'
  BY <1>1, <1>2, <1>3, <1>4, <1>5, WroteKept DEF Stage
<1>6. ASSUME Starting(w) PROVE WorkerStep(w) /\ Stage(w)'
  <2>1. /\ WorkerStep(w) /\ t = 1
        /\ \A d \in Dirs : ~Noted(d, w)' /\ (Has(d, w)' => d = 1)
    BY <1>1, <1>2, <1>3, <1>4, <1>6, StartingStep
  <2>2. ASSUME NEW d \in Dirs, Whole(d, w)' PROVE FALSE
    <3>1. d = t
      BY <2>1, <2>2 DEF Whole
    <3>2. CASE ~SameFile(t, w)
      BY <1>3, <2>2, <3>1, <3>2 DEF Wrote, Whole, Wav, Half
    <3>3. CASE SameFile(t, w)
      <4>1. Whole(t, w) /\ Has(t, w)
        BY <2>2, <3>1, <3>3, SameCopy DEF Whole
      <4>2. Writing(t, w)
        BY <1>2, <1>6, <4>1 DEF Starting, Writing
      <4>3. Body(t, w) = <<>>
        BY <1>1, <4>2 DEF BeingWritten, Young
      <4> QED BY <4>1, <4>3 DEF Whole, Wav
    <3> QED BY <3>2, <3>3
  <2>3. pass.at = "rename" => pass.file # w
    BY <1>1, <1>6, TargetFacts DEF Starting, Copying
  <2>4. save'.wav # w
    BY <1>4, <2>1, IdleOK, FileNames
  <2> QED BY <1>1, <1>6, <2>1, <2>2, <2>3, <2>4 DEF Doomed, Starting, Stage
<1>7. WorkerStep(w) /\ Stage(w)'
  BY <1>2, <1>5, <1>6 DEF ArchiveInv, Progress, Stage, Fresh, Doomed
<1> QED BY <1>1, <1>2, <1>3, <1>4, <1>7, PastKeeps

-----------------------------------------------------------------------------
(* The theorems.                                                            *)

LEMMA InitHolds ==
  ASSUME ArchiveInit
  PROVE  ArchiveInv
<1>1. DiskOK
  <2>1. <<>> \in Folder /\ DOMAIN <<>> = {}
    <3>1. DOMAIN <<>> = {} /\ <<>> = [f \in DOMAIN <<>> |-> <<>>[f]]
      OBVIOUS
    <3> QED BY <3>1, FolderFacts
  <2>2. \A d \in Dirs : disk[d] = <<>>
    BY DEF ArchiveInit
  <2>3. disk \in [Dirs -> Folder]
    BY <2>1 DEF ArchiveInit
  <2>4. \A d \in Dirs : FolderOK(d)
    BY <2>1, <2>2 DEF FolderOK, Has
  <2> QED BY <2>3, <2>4, ArchiveAssumption DEF ArchiveInit, DiskOK
<1>2. SaveOK /\ BeingWritten /\ save.wav = "none"
  <2>1. None \in 0..NDirs
    BY ArchiveAssumption DEF None
  <2> QED BY <2>1 DEF ArchiveInit, IdleWorker, SaveOK, BeingWritten, Writing
<1>3. PassOK
  <2>1. pass \in PassRecord /\ pass.seen = <<>> /\ pass.at = "rest" /\ pass.limit = 0
    BY AtRestOK DEF ArchiveInit
  <2>2. pass.limit <= horizon /\ Len(pass.seen) <= NDirs /\ SeenOK /\ ~Copying
    BY <2>1, ArchiveAssumption DEF ArchiveInit, SeenOK, Copying
  <2> QED BY <2>1, <2>2 DEF ArchiveInit, PassOK
<1>4. ASSUME NEW w \in Wavs PROVE Fresh(w)
  <2>1. \A d \in Dirs : disk[d] = <<>> /\ pass.seen = <<>>
    BY AtRestOK DEF ArchiveInit
  <2>2. \A d \in Dirs : ~Has(d, w) /\ ~Noted(d, w)
    BY <2>1 DEF Has, Noted
  <2> QED BY <1>2, <2>2, FileNames DEF ArchiveInit, Fresh
<1> QED BY <1>1, <1>2, <1>3, <1>4 DEF ArchiveInv, Progress, Stage

LEMMA StepHolds ==
  ASSUME MaxFaults \in 0..1, ArchiveInv, [ArchiveNext]_archiveVars
  PROVE  ArchiveInv'
<1>1. CASE Writers
  BY <1>1, StartKeeps, OpenKeeps, WriteKeeps, WriteFailsKeeps, RowKeeps DEF Writers
<1>2. CASE SyncStep
  BY <1>2, BeginKeeps, ScanKeeps, CopyKeeps, RenameKeeps DEF SyncStep
<1>3. CASE Age
  BY <1>3, AgeKeeps
<1>4. CASE ScanFails \/ CopyFails \/ RenameFails
  BY <1>4, ScanFailsKeeps, CopyFailsKeeps, RenameFailsKeeps
<1>5. CASE \E d \in Dirs, f \in Files : LoseFile(d, f)
  BY <1>5, LoseKeeps
<1>6. CASE Restart
  BY <1>6, RestartKeeps
<1>7. CASE UNCHANGED archiveVars
  <2>1. PassOnly /\ pass' = pass
    BY <1>7 DEF archiveVars, PassOnly
  <2> QED BY <2>1, PassOnlyFacts, PassWaits DEF ArchiveInv
<1> QED BY <1>1, <1>2, <1>3, <1>4, <1>5, <1>6, <1>7 DEF ArchiveNext

\* The sync's copy of a recording some folder has whole is whole.
LEMMA RenamedWhole ==
  ASSUME ArchiveInv, RenameCopy, NEW d \in Dirs, NEW w \in Wavs, Body(d, w) = Wav
  PROVE  Body(d, w)' = Wav
<1>1. /\ PassOK /\ DiskOK /\ Copying /\ pass.dst \in Dirs /\ pass.at = "rename"
      /\ pass.file \in Files
  BY TargetFacts DEF ArchiveInv, RenameCopy, Copying
<1>2. /\ pass.body \in Seq(Nat) /\ pass.stamp \in Nat
  BY <1>1 DEF PassOK, PassRecord
<1>3. Replaced(pass.dst, pass.file, pass.body, pass.stamp)
  BY <1>1, <1>2, WithFacts DEF RenameCopy, DiskOK
<1>4. CASE d # pass.dst \/ w # pass.file
  <2>1. SameFile(d, w)
    BY <1>3, <1>4 DEF Replaced, Files
  <2> QED BY <2>1, SameCopy
<1>5. CASE d = pass.dst /\ w = pass.file
  <2>1. Whole(d, w)
    BY DEF Whole, Body, Wav
  <2>2. Kept(w)
    BY <1>1, <1>5, <2>1, NotedStage DEF Doomed
  <2>3. pass.body = Wav
    BY <1>1, <1>5, <2>2 DEF Kept, CopyWhole
  <2> QED BY <1>3, <1>5, <2>3 DEF Replaced, Body, Has
<1> QED BY <1>4, <1>5

LEMMA WrittenWhole ==
  ASSUME ArchiveInv, OpenWav \/ WriteWav, NEW d \in Dirs, NEW w \in Wavs, Body(d, w) = Wav
  PROVE  Body(d, w)' = Wav \/ Writing(d, w)'
<1>1. DiskOK /\ SaveOK /\ BeingWritten /\ save.dir # None /\ clock \in Nat
  BY DEF ArchiveInv, SaveOK, OpenWav, WriteWav, IdleWorker, DiskOK
<1>2. PICK t \in Dirs, v \in Wavs : save.dir = t /\ save.wav = v
  BY <1>1, AtWork
<1>3. CASE d = t /\ w = v /\ OpenWav
  <2>1. save' = [save EXCEPT !.open = TRUE] /\ ~save.detached
    BY <1>1, <1>3 DEF OpenWav, SaveOK
  <2> QED BY <1>1, <1>2, <1>3, <2>1 DEF Writing, SaveOK
<1>4. CASE d = t /\ w = v /\ WriteWav
  <2>1. Wrote(t, v, Wav)
    BY <1>1, <1>2, <1>4, BodyWritten, TwoBodies DEF WriteWav
  <2> QED BY <1>4, <2>1, SameCopy DEF Wrote
<1>5. CASE ~ (d = t /\ w = v)
  <2>1. SameFile(d, w)
    <3>1. CASE WriteWav
      <4>1. Wrote(t, v, Wav)
        BY <1>1, <1>2, <3>1, BodyWritten, TwoBodies DEF WriteWav
      <4> QED BY <1>5, <4>1 DEF Wrote
    <3>2. CASE OpenWav
      <4>1. disk' = With(t, v, <<>>, clock') /\ v \in Files /\ clock' \in Nat /\ <<>> \in Seq(Nat)
            /\ disk \in [Dirs -> Folder]
        BY <1>1, <1>2, <3>2 DEF OpenWav, Files, DiskOK
      <4>2. Replaced(t, v, <<>>, clock')
        BY <4>1, WithFacts
      <4> QED BY <1>5, <4>2 DEF Replaced, Files
    <3> QED BY <3>1, <3>2
  <2> QED BY <2>1, SameCopy
<1> QED BY <1>3, <1>4, <1>5

LEMMA WholeStep ==
  ASSUME ArchiveInv, [ArchiveNext]_archiveVars, NEW d \in Dirs, NEW w \in Wavs, Body(d, w) = Wav
  PROVE  Body(d, w)' = Wav \/ Writing(d, w)' \/ faults' # faults
<1>1. CASE disk' = disk
  BY <1>1 DEF Body, Has
<1>2. CASE faults' = faults + 1
  BY <1>2 DEF ArchiveInv, DiskOK
<1>3. CASE AppendRow
  <2>1. DiskOK /\ Csv \in Files /\ 1 \in Dirs /\ w # Csv /\ w \in Files /\ clock' \in Nat
        /\ rows' \in Nat
    BY <1>3, FileNames, ArchiveAssumption DEF ArchiveInv, DiskOK, Files, AppendRow
  <2> DEFINE b == Append(Body(1, Csv), rows')
  <2>2. b \in Seq(Nat)
    <3>1. Has(1, Csv) => disk[1][Csv] \in [body : Seq(Nat), stamp : Nat]
      BY <2>1, FolderFacts DEF DiskOK, Has
    <3>2. Body(1, Csv) \in Seq(Nat)
      BY <3>1 DEF Body
    <3> QED BY <2>1, <3>2
  <2>3. disk' = With(1, Csv, b, clock')
    BY <1>3 DEF AppendRow
  <2> HIDE DEF b
  <2>4. SameFile(d, w)
    BY <2>1, <2>2, <2>3, WithFacts DEF Replaced, DiskOK
  <2> QED BY <2>4, SameCopy
<1>4. CASE RenameCopy
  BY <1>4, RenamedWhole
<1>5. CASE OpenWav \/ WriteWav
  BY <1>5, WrittenWhole
<1> QED BY <1>1, <1>2, <1>3, <1>4, <1>5 DEF ArchiveNext, Writers, SyncStep, archiveVars, StartSave,
     BeginPass, ScanDir, CopyFile, Age, writers, WriteFails, ScanFails, CopyFails, RenameFails,
     LoseFile, Restart

LEMMA InvariantHolds ==
  MaxFaults \in 0..1 => (ArchiveSpec => []ArchiveInv)
<1> SUFFICES ASSUME MaxFaults \in 0..1 PROVE ArchiveSpec => []ArchiveInv
  OBVIOUS
<1>1. ArchiveInit => ArchiveInv
  BY InitHolds
<1>2. ArchiveInv /\ [ArchiveNext]_archiveVars => ArchiveInv'
  BY StepHolds
<1> QED BY <1>1, <1>2, PTL DEF ArchiveSpec

\* archive_sync.go and saveAudioClip, type correctness under one fault: folders hold
\* known files only, and the worker and the pass name folders there are.
THEOREM ArchiveTyped ==
  MaxFaults \in 0..1 => (ArchiveSpec => []ArchiveTypeOK)
<1> SUFFICES ASSUME MaxFaults \in 0..1 PROVE ArchiveSpec => []ArchiveTypeOK
  OBVIOUS
<1>1. ArchiveInv => ArchiveTypeOK
  <2> SUFFICES ASSUME ArchiveInv PROVE ArchiveTypeOK
    OBVIOUS
  <2>1. \A d \in Dirs : DOMAIN disk[d] \subseteq Files
    BY FolderFacts DEF ArchiveInv, DiskOK
  <2> QED BY <2>1 DEF ArchiveInv, DiskOK, SaveOK, PassOK, PassRecord, ArchiveTypeOK
<1> QED BY <1>1, InvariantHolds, PTL

\* archive_sync.go:234 and saveAudioClip: whatever the order of saves, scans, copies
\* and one fault, the sync never puts a shorter body in a whole recording's place.
THEOREM WholeKept ==
  MaxFaults \in 0..1 => (ArchiveSpec => WholeStays)
<1> SUFFICES ASSUME MaxFaults \in 0..1 PROVE ArchiveSpec => WholeStays
  OBVIOUS
<1> DEFINE Stay == \A d \in Dirs, w \in Wavs :
             Body(d, w) = Wav => Body(d, w)' = Wav \/ Writing(d, w)' \/ faults' # faults
<1>1. ArchiveInv /\ [ArchiveNext]_archiveVars => Stay
  BY WholeStep
<1>2. []ArchiveInv /\ [][ArchiveNext]_archiveVars => [][Stay]_archiveVars
  <2> HIDE DEF Stay
  <2> QED BY <1>1, PTL
<1>3. [][Stay]_archiveVars => WholeStays
  BY PTL DEF WholeStays
<1> QED BY <1>2, <1>3, InvariantHolds, PTL DEF ArchiveSpec
=============================================================================
