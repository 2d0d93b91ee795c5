-------------------------- MODULE WhisperPoolProofs --------------------------
(* Proofs about the transcription pool, for every set of servers and clips, *)
(* every retry limit and every channel capacity.                            *)
EXTENDS WhisperPool, FiniteSetTheorems, TLAPS

-----------------------------------------------------------------------------
(* Queues.                                                                  *)

\* Where an entry of a concatenation comes from.
LEMMA ConcatAt ==
  ASSUME NEW S, NEW u \in Seq(S), NEW v \in Seq(S), NEW k \in 1..Len(u \o v)
  PROVE  (u \o v)[k] = IF k <= Len(u) THEN u[k] ELSE v[k - Len(u)]
OBVIOUS

\* Removing the i-th entry leaves every other entry.
LEMMA WithoutFacts ==
  ASSUME NEW S, NEW q \in Seq(S), NEW i \in DOMAIN q
  PROVE  /\ Without(q, i) \in Seq(S)
         /\ q[i] \in S
         /\ \A e \in Entries(q) : e = q[i] \/ e \in Entries(Without(q, i))
<1> DEFINE a == SubSeq(q, 1, i - 1)
           b == SubSeq(q, i + 1, Len(q))
<1>1. i \in 1..Len(q) /\ q[i] \in S
  OBVIOUS
<1>2. /\ a \in Seq(S) /\ Len(a) = i - 1 /\ \A k \in 1..(i - 1) : a[k] = q[k]
      /\ b \in Seq(S) /\ Len(b) = Len(q) - i /\ \A k \in 1..(Len(q) - i) : b[k] = q[k + i]
  BY <1>1
<1>7. Without(q, i) = a \o b
  BY DEF Without
<1> HIDE DEF a, b
<1>3. Without(q, i) \in Seq(S) /\ Len(Without(q, i)) = Len(q) - 1
  BY <1>1, <1>2, <1>7
<1>8. ASSUME NEW k \in 1..Len(a \o b)
      PROVE  (a \o b)[k] = IF k <= Len(a) THEN a[k] ELSE b[k - Len(a)]
  BY <1>2, ConcatAt
<1>4. ASSUME NEW k \in 1..Len(q), k < i
      PROVE  k \in 1..Len(Without(q, i)) /\ Without(q, i)[k] = q[k]
  <2>1. k \in 1..Len(Without(q, i)) /\ k <= Len(a) /\ k \in 1..(i - 1)
    BY <1>1, <1>2, <1>3, <1>4
  <2>. QED
    BY <1>2, <1>7, <1>8, <2>1
<1>5. ASSUME NEW k \in 1..Len(q), k > i
      PROVE  k - 1 \in 1..Len(Without(q, i)) /\ Without(q, i)[k - 1] = q[k]
  <2>1. /\ k - 1 \in 1..Len(Without(q, i)) /\ ~ (k - 1 <= Len(a))
        /\ k - i \in 1..(Len(q) - i) /\ (k - 1) - Len(a) = k - i /\ (k - i) + i = k
    BY <1>1, <1>2, <1>3, <1>5
  <2>. QED
    BY <1>2, <1>7, <1>8, <2>1
<1>6. \A e \in Entries(q) : e = q[i] \/ e \in Entries(Without(q, i))
  <2> SUFFICES ASSUME NEW k \in 1..Len(q), k # i
               PROVE  q[k] \in Entries(Without(q, i))
    BY <1>1 DEF Entries
  <2>1. CASE k < i
    BY <2>1, <1>3, <1>4 DEF Entries
  <2>2. CASE k > i
    BY <2>2, <1>1, <1>3, <1>5 DEF Entries
  <2>. QED
    BY <1>1, <2>1, <2>2
<1>. QED
  BY <1>1, <1>3, <1>6

\* Adding an entry at the end keeps the others.
LEMMA AppendFacts ==
  ASSUME NEW S, NEW q \in Seq(S), NEW e \in S
  PROVE  /\ Append(q, e) \in Seq(S) /\ Append(q, e) # <<>>
         /\ Entries(Append(q, e)) = Entries(q) \cup {e}
<1>1. Append(q, e) \in Seq(S) /\ Len(Append(q, e)) = Len(q) + 1
  OBVIOUS
<1>2. \A k \in 1..Len(q) : Append(q, e)[k] = q[k]
  OBVIOUS
<1>3. Append(q, e)[Len(q) + 1] = e
  OBVIOUS
<1>. QED
  BY <1>1, <1>2, <1>3 DEF Entries

\* Adding an entry at the front keeps the others.
LEMMA PrependFacts ==
  ASSUME NEW S, NEW q \in Seq(S), NEW e \in S
  PROVE  /\ <<e>> \o q \in Seq(S) /\ <<e>> \o q # <<>>
         /\ Entries(<<e>> \o q) = Entries(q) \cup {e}
<1> DEFINE r == <<e>> \o q
<1>1. /\ r \in Seq(S) /\ Len(r) = Len(q) + 1 /\ r[1] = e
      /\ \A k \in 1..Len(q) : r[k + 1] = q[k]
  OBVIOUS
<1> HIDE DEF r
<1>2. ASSUME NEW x \in Entries(q)
      PROVE  x \in Entries(r)
  <2>1. PICK k \in 1..Len(q) : x = q[k]
    BY <1>2 DEF Entries
  <2>2. k + 1 \in 1..Len(r) /\ r[k + 1] = x
    BY <1>1, <2>1
  <2>. QED
    BY <1>1, <2>2 DEF Entries
<1>3. e \in Entries(r)
  BY <1>1 DEF Entries
<1>4. ASSUME NEW x \in Entries(r)
      PROVE  x \in Entries(q) \cup {e}
  <2>1. PICK k \in 1..Len(r) : x = r[k]
    BY <1>1, <1>4 DEF Entries
  <2>2. CASE k = 1
    BY <1>1, <2>1, <2>2
  <2>3. CASE k # 1
    <3>1. k - 1 \in 1..Len(q) /\ (k - 1) + 1 = k
      BY <1>1, <2>1, <2>3
    <3>2. r[(k - 1) + 1] = q[k - 1]
      BY <1>1, <3>1
    <3>3. x = q[k - 1]
      BY <2>1, <3>1, <3>2
    <3>. QED
      BY <3>1, <3>3 DEF Entries
  <2>. QED
    BY <2>2, <2>3
<1>5. r # <<>>
  BY <1>1
<1>6. Entries(r) = Entries(q) \cup {e}
  BY <1>2, <1>3, <1>4
<1>. QED
  BY <1>1, <1>5, <1>6 DEF r

\* Replacing an entry keeps the length and the other entries.
LEMMA ReplaceFacts ==
  ASSUME NEW S, NEW q \in Seq(S), NEW i \in DOMAIN q, NEW e \in S
  PROVE  /\ [q EXCEPT ![i] = e] \in Seq(S)
         /\ DOMAIN [q EXCEPT ![i] = e] = DOMAIN q
         /\ \A k \in DOMAIN q : [q EXCEPT ![i] = e][k] = IF k = i THEN e ELSE q[k]
OBVIOUS

-----------------------------------------------------------------------------
(* Jobs and wakeups.                                                        *)

\* Building, ageing and retrying a job gives a job for the same clip.
LEMMA JobFacts ==
  /\ \A w \in Wavs, bf \in BOOLEAN : NewJob(w, bf) \in Job /\ NewJob(w, bf).wav = w
  /\ \A j \in Job, old \in BOOLEAN : /\ [j EXCEPT !.aged = old] \in Job
                                     /\ [j EXCEPT !.aged = old].wav = j.wav
                                     /\ j.wav \in Wavs
  /\ \A j \in Job : [j EXCEPT !.promoted = TRUE] \in Job /\ [j EXCEPT !.promoted = TRUE].wav = j.wav
  /\ \A j \in Job : j.retries < MaxRetries =>
        [j EXCEPT !.retries = @ + 1] \in Job /\ [j EXCEPT !.retries = @ + 1].wav = j.wav
<1>1. ASSUME NEW w \in Wavs, NEW bf \in BOOLEAN
      PROVE  NewJob(w, bf) \in Job /\ NewJob(w, bf).wav = w
  BY PoolAssumption DEF NewJob, Job
<1>2. ASSUME NEW j \in Job, NEW old \in BOOLEAN
      PROVE  /\ [j EXCEPT !.aged = old] \in Job
             /\ [j EXCEPT !.aged = old].wav = j.wav
             /\ j.wav \in Wavs
  BY DEF Job
<1>3. ASSUME NEW j \in Job, j.retries < MaxRetries
      PROVE  [j EXCEPT !.retries = @ + 1] \in Job /\ [j EXCEPT !.retries = @ + 1].wav = j.wav
  BY <1>3, PoolAssumption DEF Job
<1>4. ASSUME NEW j \in Job
      PROVE  [j EXCEPT !.promoted = TRUE] \in Job /\ [j EXCEPT !.promoted = TRUE].wav = j.wav
  BY DEF Job
<1>. QED
  BY <1>1, <1>2, <1>3, <1>4

\* Ageing an entry of a queue changes neither its length nor whose clips it holds.
LEMMA AgeFacts ==
  ASSUME NEW q \in Seq(Job), NEW i \in DOMAIN q
  PROVE  /\ [q EXCEPT ![i].aged = TRUE] \in Seq(Job)
         /\ \A e \in Entries(q) : \E f \in Entries([q EXCEPT ![i].aged = TRUE]) : f.wav = e.wav
<1> DEFINE e == [q[i] EXCEPT !.aged = TRUE]
           r == [q EXCEPT ![i] = e]
<1>1. q[i] \in Job /\ e \in Job /\ e.wav = q[i].wav
  <2>1. q[i] \in Job
    OBVIOUS
  <2>. QED
    BY <2>1, JobFacts
<1>0. r = [q EXCEPT ![i].aged = TRUE]
  OBVIOUS
<1> HIDE DEF e
<1>2. r \in Seq(Job) /\ DOMAIN r = DOMAIN q /\ \A k \in DOMAIN q : r[k] = IF k = i THEN e ELSE q[k]
  BY <1>1, ReplaceFacts
<1> HIDE DEF r
<1>3. ASSUME NEW k \in DOMAIN q
      PROVE  \E f \in Entries(r) : f.wav = q[k].wav
  <2>1. r[k] \in Entries(r)
    BY <1>2 DEF Entries
  <2>2. r[k].wav = q[k].wav
    BY <1>1, <1>2
  <2>. QED
    BY <2>1, <2>2
<1>. QED
  BY <1>0, <1>2, <1>3 DEF Entries

\* A signal respects the channel's capacity, and leaves a token behind when
\* nobody was parked to take one.
LEMMA SignalFacts ==
  ASSUME TypeOK, Signal
  PROVE  tokens' \in 0..TokenCap /\ (Parked = {} => tokens' > 0)
<1>1. IsFiniteSet(Servers) /\ Servers # {} /\ TokenCap \in Nat \ {0}
  BY PoolAssumption
<1>2. Parked \subseteq Servers
  BY DEF Parked
<1>3. /\ Cardinality(Servers) \in Nat /\ Cardinality(Servers) # 0
      /\ Cardinality(Parked) \in Nat /\ Cardinality(Parked) <= Cardinality(Servers)
  BY <1>1, <1>2, FS_Subset, FS_CardinalityType, FS_EmptySet
<1>4. Parked = {} => Cardinality(Parked) = 0
  BY FS_EmptySet
<1>5. tokens \in 0..TokenCap
  BY DEF TypeOK, WorkersOK
<1>. QED
  BY <1>1, <1>3, <1>4, <1>5 DEF Signal

\* A wakeup moves parked workers to "look" and touches nobody else.
LEMMA WakeFacts ==
  ASSUME TypeOK
  PROVE  /\ Wake \in [Servers -> Locations]
         /\ \A s \in Servers : Wake[s] \in Working <=> pc[s] \in Working
         /\ \A s \in Servers : pc[s] # "parked" => Wake[s] = pc[s]
         /\ \A s \in Servers : s \in Parked => Wake[s] = "look" /\ pc[s] = "parked"
BY DEF Wake, Parked, TypeOK, WorkersOK, Working, Locations

\* Worker s moves to position "to"; the others keep the jobs they hold.
Moves(s, to) ==
    /\ pc' \in [Servers -> Locations] /\ tokens' \in 0..TokenCap
    /\ pc'[s] = to
    /\ \A t \in Servers \ {s} : pc'[t] \in Working <=> pc[t] \in Working

\* Go and a signal that takes worker s along both move it.
LEMMA MoveFacts ==
  ASSUME TypeOK, NEW s \in Servers, NEW to \in Locations,
         Go(s, to) \/ SignalAs([Wake EXCEPT ![s] = to])
  PROVE  Moves(s, to)
<1>1. pc \in [Servers -> Locations] /\ tokens \in 0..TokenCap
  BY DEF TypeOK, WorkersOK
<1>2. CASE Go(s, to)
  BY <1>1, <1>2 DEF Go, Moves
<1>3. CASE SignalAs([Wake EXCEPT ![s] = to])
  <2>1. tokens' \in 0..TokenCap
    BY <1>3, SignalFacts DEF SignalAs
  <2>2. pc' = [Wake EXCEPT ![s] = to]
    BY <1>3 DEF SignalAs
  <2>. QED
    BY <2>1, <2>2, WakeFacts DEF Moves
<1>. QED
  BY <1>2, <1>3

\* The worker's hand changes with its position: types, and who holds what.
LEMMA HandFacts ==
  ASSUME TypeOK, NEW s \in Servers, NEW to, Moves(s, to),
         NEW h \in Job \cup {NoJob}, hand' = [hand EXCEPT ![s] = h],
         h \in Job <=> to \in Working,
         fromBulk' \subseteq Servers
  PROVE  /\ WorkersOK'
         /\ \A w : Held(w) => Held(w)' \/ (pc[s] \in Working /\ hand[s].wav = w)
         /\ to \in Working => Held(h.wav)'
<1>1. /\ hand \in [Servers -> Job \cup {NoJob}]
      /\ \A t \in Servers : hand[t] \in Job <=> pc[t] \in Working
  BY DEF TypeOK, WorkersOK
<1>2. \A t \in Servers : hand'[t] = IF t = s THEN h ELSE hand[t]
  BY <1>1
<1>3. hand' \in [Servers -> Job \cup {NoJob}]
  BY <1>1
<1>4. \A t \in Servers : hand'[t] \in Job <=> pc'[t] \in Working
  BY <1>1, <1>2 DEF Moves
<1>5. WorkersOK'
  BY <1>3, <1>4 DEF WorkersOK, Moves
<1>6. ASSUME NEW w, NEW t \in Servers, pc[t] \in Working, hand[t].wav = w, t # s
      PROVE  Held(w)'
  BY <1>2, <1>6 DEF Held, Moves
<1>7. to \in Working => Held(h.wav)'
  BY <1>2 DEF Held, Moves
<1>8. \A w : Held(w) => Held(w)' \/ (pc[s] \in Working /\ hand[s].wav = w)
  BY <1>6 DEF Held
<1>. QED
  BY <1>5, <1>7, <1>8

\* The same when the hand does not change.
LEMMA SameHandFacts ==
  ASSUME TypeOK, NEW s \in Servers, NEW to, Moves(s, to),
         UNCHANGED <<hand, fromBulk>>,
         pc[s] \in Working <=> to \in Working
  PROVE  WorkersOK' /\ \A w : Held(w) => Held(w)'
<1>1. /\ hand \in [Servers -> Job \cup {NoJob}]
      /\ \A t \in Servers : hand[t] \in Job <=> pc[t] \in Working
      /\ fromBulk \subseteq Servers
  BY DEF TypeOK, WorkersOK
<1>2. \A t \in Servers : pc'[t] \in Working <=> pc[t] \in Working
  BY DEF Moves
<1>. QED
  BY <1>1, <1>2 DEF WorkersOK, Moves, Held

\* A submission wakes workers and touches no hand.
LEMMA SubmissionFacts ==
  ASSUME TypeOK, SignalAs(Wake), UNCHANGED workerVars
  PROVE  WorkersOK' /\ \A w : Held(w) => Held(w)'
<1>1. /\ hand \in [Servers -> Job \cup {NoJob}]
      /\ \A t \in Servers : hand[t] \in Job <=> pc[t] \in Working
      /\ fromBulk \subseteq Servers
  BY DEF TypeOK, WorkersOK
<1>2. /\ pc' \in [Servers -> Locations] /\ tokens' \in 0..TokenCap
      /\ \A t \in Servers : pc'[t] \in Working <=> pc[t] \in Working
  BY WakeFacts, SignalFacts DEF SignalAs
<1>. QED
  BY <1>1, <1>2 DEF WorkersOK, Held, workerVars

-----------------------------------------------------------------------------
(* No clip is lost, and none is refused without reason.                     *)

\* NoClipLost needs RefusedOnlyIfWaiting: a duplicate submission leaves the
\* queues alone because its clip waits already.
PoolInv == TypeOK /\ NoClipLost /\ RefusedOnlyIfWaiting

\* What a step has to do to the queues, the hands and the history.
LEMMA KeepFacts ==
  ASSUME PoolInv,
         \A w \in Wavs : Waiting(w) => Waiting(w)',
         \A w \in Wavs : Held(w) => Held(w)',
         answered \subseteq answered', queued' \subseteq queued
  PROVE  NoClipLost' /\ RefusedOnlyIfWaiting'
BY DEF PoolInv, TypeOK, QueuesOK, NoClipLost, RefusedOnlyIfWaiting

\* A step that leaves the queues and the history alone.
LEMMA QuietFacts ==
  ASSUME PoolInv, UNCHANGED <<jobVars, countVars, answered>>,
         WorkersOK', ServersOK', \A w \in Wavs : Held(w) => Held(w)'
  PROVE  PoolInv'
<1>1. TypeOK'
  BY DEF PoolInv, TypeOK, QueuesOK, jobVars, countVars
<1>2. \A w \in Wavs : Waiting(w) => Waiting(w)'
  BY DEF Waiting, Entries, jobVars
<1>. QED
  BY <1>1, <1>2, KeepFacts DEF PoolInv, jobVars

\* Submit of a new clip and SubmitBulk: the clip waits at the end of its queue.
LEMMA NewClipFacts ==
  ASSUME PoolInv, NEW w \in Wavs, NEW bf \in BOOLEAN,
         \/ queue' = Append(queue, NewJob(w, bf)) /\ UNCHANGED bulkQueue
         \/ bulkQueue' = Append(bulkQueue, NewJob(w, bf)) /\ UNCHANGED queue,
         queued' = queued \cup {w}, answered' = answered \ {w},
         SignalAs(Wake), UNCHANGED <<countVars, workerVars, serverVars, closed>>
  PROVE  PoolInv'
<1>1. NewJob(w, bf) \in Job /\ NewJob(w, bf).wav = w
  BY JobFacts
<1>2. queue \in Seq(Job) /\ bulkQueue \in Seq(Job)
  BY DEF PoolInv, TypeOK, QueuesOK
<1>3. /\ queue' \in Seq(Job) /\ bulkQueue' \in Seq(Job)
      /\ Entries(queue)' \cup Entries(bulkQueue)'
            = Entries(queue) \cup Entries(bulkQueue) \cup {NewJob(w, bf)}
  <2>1. CASE queue' = Append(queue, NewJob(w, bf)) /\ UNCHANGED bulkQueue
    BY <1>1, <1>2, <2>1, AppendFacts DEF Entries
  <2>2. CASE bulkQueue' = Append(bulkQueue, NewJob(w, bf)) /\ UNCHANGED queue
    BY <1>1, <1>2, <2>2, AppendFacts DEF Entries
  <2>. QED
    BY <2>1, <2>2
<1>4. \A v \in Wavs : Waiting(v) => Waiting(v)'
  BY <1>3 DEF Waiting
<1>5. Waiting(w)'
  BY <1>1, <1>3 DEF Waiting
<1>6. WorkersOK' /\ \A v : Held(v) => Held(v)'
  BY SubmissionFacts DEF PoolInv
<1>7. QueuesOK'
  BY <1>3 DEF PoolInv, TypeOK, QueuesOK, countVars
<1>8. TypeOK'
  BY <1>6, <1>7 DEF PoolInv, TypeOK, ServersOK, countVars, serverVars
<1>9. NoClipLost' /\ RefusedOnlyIfWaiting'
  BY <1>4, <1>5, <1>6 DEF PoolInv, TypeOK, QueuesOK, NoClipLost, RefusedOnlyIfWaiting
<1>. QED
  BY <1>8, <1>9 DEF PoolInv

\* Submit of a waiting clip: its bulk entry, if any, moves to the live queue.
LEMMA PromoteFacts ==
  ASSUME PoolInv, NEW w \in Live, SubmitDuplicate(w)
  PROVE  PoolInv'
<1>1. queue \in Seq(Job) /\ bulkQueue \in Seq(Job)
  BY DEF PoolInv, TypeOK, QueuesOK
<1>2. /\ queue' \in Seq(Job) /\ bulkQueue' \in Seq(Job)
      /\ \A v \in Wavs : Waiting(v) => Waiting(v)'
  <2>1. CASE UNCHANGED <<queue, bulkQueue>>
    BY <1>1, <2>1 DEF Waiting, Entries
  <2>2. ASSUME NEW i \in DOMAIN bulkQueue,
               bulkQueue' = Without(bulkQueue, i),
               queue' = Append(queue, [bulkQueue[i] EXCEPT !.promoted = TRUE])
        PROVE  /\ queue' \in Seq(Job) /\ bulkQueue' \in Seq(Job)
               /\ \A v \in Wavs : Waiting(v) => Waiting(v)'
    <3> DEFINE e == bulkQueue[i]
               f == [e EXCEPT !.promoted = TRUE]
    <3>1. /\ bulkQueue' \in Seq(Job) /\ e \in Job
          /\ \A d \in Entries(bulkQueue) : d = e \/ d \in Entries(bulkQueue)'
      <4>1. /\ Without(bulkQueue, i) \in Seq(Job) /\ e \in Job
            /\ \A d \in Entries(bulkQueue) : d = e \/ d \in Entries(Without(bulkQueue, i))
        BY <1>1, <2>2, WithoutFacts
      <4>2. Entries(bulkQueue)' = Entries(Without(bulkQueue, i))
        BY <2>2 DEF Entries
      <4>. QED
        BY <2>2, <4>1, <4>2
    <3>2. f \in Job /\ f.wav = e.wav
      BY <3>1, JobFacts
    <3> HIDE DEF e, f
    <3>3. queue' = Append(queue, f)
      BY <2>2 DEF e, f
    <3>4. queue' \in Seq(Job) /\ Entries(queue)' = Entries(queue) \cup {f}
      BY <1>1, <3>2, <3>3, AppendFacts DEF Entries
    <3>. QED
      BY <3>1, <3>2, <3>4 DEF Waiting
  <2>. QED
    BY <2>1, <2>2 DEF SubmitDuplicate
<1>3. /\ SignalAs(Wake)
      /\ UNCHANGED <<queued, countVars, workerVars, serverVars, closed, answered>>
  BY DEF SubmitDuplicate
<1>4. WorkersOK' /\ \A v : Held(v) => Held(v)'
  BY <1>3, SubmissionFacts DEF PoolInv
<1>5. TypeOK'
  BY <1>2, <1>3, <1>4 DEF PoolInv, TypeOK, QueuesOK, ServersOK, countVars, serverVars
<1>. QED
  BY <1>2, <1>3, <1>4, <1>5, KeepFacts DEF PoolInv

\* A worker takes job j: it was waiting, and now it is in the worker's hands.
LEMMA BookFacts ==
  ASSUME PoolInv, NEW s \in Servers, pc[s] = "look", NEW j \in Job, Book(s, j),
         queue' \in Seq(Job), bulkQueue' \in Seq(Job),
         \A v \in Wavs : Waiting(v) => v = j.wav \/ Waiting(v)',
         fromBulk' \subseteq Servers
  PROVE  PoolInv'
<1>1. /\ queued' = queued \ {j.wav} /\ inFlight' = inFlight \cup {j.wav}
      /\ hand' = [hand EXCEPT ![s] = j]
      /\ UNCHANGED <<serverVars, closed, answered>>
  BY DEF Book
<1>2. running' \in Int /\ backfillRunning' \in Int
  BY DEF Book, PoolInv, TypeOK
<1>3. Go(s, "run") \/ SignalAs([Wake EXCEPT ![s] = "run"])
  BY DEF Book
<1>4. Moves(s, "run")
  BY <1>3, MoveFacts DEF PoolInv, Locations
<1>5. /\ WorkersOK'
      /\ \A v : Held(v) => Held(v)' \/ (pc[s] \in Working /\ hand[s].wav = v)
      /\ Held(j.wav)'
  BY <1>1, <1>4, HandFacts DEF PoolInv, Working
<1>6. j.wav \in Wavs
  BY JobFacts
<1>7. TypeOK'
  BY <1>1, <1>2, <1>5, <1>6 DEF PoolInv, TypeOK, QueuesOK, ServersOK, serverVars
<1>8. \A v : Held(v) => Held(v)'
  BY <1>5 DEF Working
<1>9. NoClipLost' /\ RefusedOnlyIfWaiting'
  BY <1>1, <1>5, <1>8 DEF PoolInv, TypeOK, QueuesOK, NoClipLost, RefusedOnlyIfWaiting
<1>. QED
  BY <1>7, <1>9 DEF PoolInv

\* Taking from either queue.
LEMMA TakeFacts ==
  ASSUME PoolInv, NEW s \in Servers, TakeLive(s) \/ TakeBulk(s)
  PROVE  PoolInv'
<1>1. /\ queue \in Seq(Job) /\ bulkQueue \in Seq(Job) /\ fromBulk \subseteq Servers
  BY DEF PoolInv, TypeOK, QueuesOK, WorkersOK
<1>2. ASSUME NEW i \in DOMAIN queue, queue' = Without(queue, i), bulkQueue' = bulkQueue
      PROVE  /\ queue' \in Seq(Job) /\ bulkQueue' \in Seq(Job) /\ queue[i] \in Job
             /\ \A v \in Wavs : Waiting(v) => v = queue[i].wav \/ Waiting(v)'
  <2>1. /\ Without(queue, i) \in Seq(Job) /\ queue[i] \in Job
        /\ \A d \in Entries(queue) : d = queue[i] \/ d \in Entries(Without(queue, i))
    BY <1>1, <1>2, WithoutFacts
  <2>2. Entries(queue)' = Entries(Without(queue, i)) /\ Entries(bulkQueue)' = Entries(bulkQueue)
    BY <1>2 DEF Entries
  <2>. QED
    BY <1>1, <1>2, <2>1, <2>2 DEF Waiting
<1>3. ASSUME NEW i \in DOMAIN bulkQueue, bulkQueue' = Without(bulkQueue, i), queue' = queue
      PROVE  /\ queue' \in Seq(Job) /\ bulkQueue' \in Seq(Job) /\ bulkQueue[i] \in Job
             /\ \A v \in Wavs : Waiting(v) => v = bulkQueue[i].wav \/ Waiting(v)'
  <2>1. /\ Without(bulkQueue, i) \in Seq(Job) /\ bulkQueue[i] \in Job
        /\ \A d \in Entries(bulkQueue) : d = bulkQueue[i] \/ d \in Entries(Without(bulkQueue, i))
    BY <1>1, <1>3, WithoutFacts
  <2>2. Entries(bulkQueue)' = Entries(Without(bulkQueue, i)) /\ Entries(queue)' = Entries(queue)
    BY <1>3 DEF Entries
  <2>. QED
    BY <1>1, <1>3, <2>1, <2>2 DEF Waiting
<1>4. CASE TakeLive(s)
  <2>1. PICK i \in DOMAIN queue : /\ queue' = Without(queue, i) /\ bulkQueue' = bulkQueue
                                  /\ fromBulk' = fromBulk \ {s} /\ Book(s, queue[i])
    BY <1>4 DEF TakeLive
  <2>2. pc[s] = "look" /\ fromBulk' \subseteq Servers
    BY <1>1, <1>4, <2>1 DEF TakeLive
  <2>. QED
    BY <1>2, <2>1, <2>2, BookFacts
<1>5. CASE TakeBulk(s)
  <2>1. PICK i \in DOMAIN bulkQueue : /\ queue' = queue /\ bulkQueue' = Without(bulkQueue, i)
                                      /\ fromBulk' = fromBulk \cup {s} /\ Book(s, bulkQueue[i])
    BY <1>5 DEF TakeBulk
  <2>2. pc[s] = "look" /\ fromBulk' \subseteq Servers
    BY <1>1, <1>5, <2>1 DEF TakeBulk
  <2>. QED
    BY <1>3, <2>1, <2>2, BookFacts
<1>. QED
  BY <1>4, <1>5

\* The end of an attempt: the worker keeps a job for the same clip.
LEMMA AttemptFacts ==
  ASSUME PoolInv, NEW s \in Servers, Attempt(s)
  PROVE  PoolInv'
<1>1. /\ pc[s] = "run" /\ hand \in [Servers -> Job \cup {NoJob}] /\ hand[s] \in Job
  BY DEF PoolInv, TypeOK, WorkersOK, Attempt, AttemptEnds, AttemptUnreachable, Working
<1>2. PICK to \in {"requeue", "publish"}, h \in Job :
         Finish(s, to) /\ hand' = [hand EXCEPT ![s] = h] /\ h.wav = hand[s].wav
  <2>1. CASE Finish(s, "publish") /\ UNCHANGED hand
    <3>1. hand' = [hand EXCEPT ![s] = hand[s]]
      BY <1>1, <2>1
    <3>. QED
      BY <1>1, <2>1, <3>1
  <2>2. CASE /\ hand[s].retries < MaxRetries
             /\ Finish(s, "requeue") /\ hand' = [hand EXCEPT ![s].retries = @ + 1]
    <3> DEFINE h == [hand[s] EXCEPT !.retries = @ + 1]
    <3>1. hand' = [hand EXCEPT ![s] = h]
      BY <1>1, <2>2
    <3>2. h \in Job /\ h.wav = hand[s].wav
      BY <1>1, <2>2, JobFacts
    <3>. QED
      BY <2>2, <3>1, <3>2
  <2>. QED
    BY <2>1, <2>2 DEF Attempt, AttemptEnds, AttemptUnreachable
<1>3. /\ inFlight' = inFlight \ {hand[s].wav}
      /\ UNCHANGED <<jobVars, fromBulk, serverVars, closed, answered>>
      /\ Go(s, to) \/ SignalAs([Wake EXCEPT ![s] = to])
  BY <1>2 DEF Finish
<1>4. running' \in Int /\ backfillRunning' \in Int
  BY <1>2 DEF Finish, PoolInv, TypeOK
<1>5. Moves(s, to) /\ to \in Working
  BY <1>3, MoveFacts DEF PoolInv, Locations, Working
<1>6. WorkersOK' /\ \A v : Held(v) => Held(v)'
  <2>1. fromBulk' \subseteq Servers
    BY <1>3 DEF PoolInv, TypeOK, WorkersOK
  <2>2. /\ WorkersOK'
        /\ \A v : Held(v) => Held(v)' \/ (pc[s] \in Working /\ hand[s].wav = v)
        /\ Held(h.wav)'
    BY <1>2, <1>5, <2>1, HandFacts DEF PoolInv
  <2>. QED
    BY <1>2, <2>2
<1>7. TypeOK'
  BY <1>3, <1>4, <1>6 DEF PoolInv, TypeOK, QueuesOK, ServersOK, jobVars, serverVars
<1>8. \A v \in Wavs : Waiting(v) => Waiting(v)'
  BY <1>3 DEF Waiting, Entries, jobVars
<1>. QED
  BY <1>3, <1>6, <1>7, <1>8, KeepFacts DEF PoolInv, jobVars

\* A job that comes back goes from the worker's hands into a queue.
LEMMA RequeueFacts ==
  ASSUME PoolInv, NEW s \in Servers, Requeue(s)
  PROVE  PoolInv'
<1>1. /\ hand[s] \in Job /\ pc[s] = "requeue" /\ fromBulk \subseteq Servers
      /\ queue \in Seq(Job) /\ bulkQueue \in Seq(Job)
  BY DEF PoolInv, TypeOK, QueuesOK, WorkersOK, Requeue, Working
<1>2. PICK j \in Job :
         /\ j.wav = hand[s].wav /\ j.wav \in Wavs
         /\ queued' = queued \cup {j.wav}
         /\ \/ bulkQueue' = <<j>> \o bulkQueue /\ UNCHANGED queue
            \/ queue' = <<j>> \o queue /\ UNCHANGED bulkQueue
  <2> DEFINE j == [hand[s] EXCEPT !.aged = FALSE]
  <2>1. j \in Job /\ j.wav = hand[s].wav /\ j.wav \in Wavs
    BY <1>1, JobFacts
  <2>2. /\ queued' = queued \cup {j.wav}
        /\ IF j.backfill
           THEN bulkQueue' = <<j>> \o bulkQueue /\ UNCHANGED queue
           ELSE queue' = <<j>> \o queue /\ UNCHANGED bulkQueue
    BY DEF Requeue
  <2> HIDE DEF j
  <2>. QED
    BY <2>1, <2>2
<1>3. /\ hand' = [hand EXCEPT ![s] = NoJob] /\ fromBulk' = fromBulk \ {s}
      /\ SignalAs([Wake EXCEPT ![s] = "unready"])
      /\ UNCHANGED <<countVars, serverVars, closed, answered>>
  BY DEF Requeue
<1>4. /\ queue' \in Seq(Job) /\ bulkQueue' \in Seq(Job)
      /\ Entries(queue)' \cup Entries(bulkQueue)'
            = Entries(queue) \cup Entries(bulkQueue) \cup {j}
  <2>1. /\ <<j>> \o queue \in Seq(Job) /\ <<j>> \o bulkQueue \in Seq(Job)
        /\ Entries(<<j>> \o queue) = Entries(queue) \cup {j}
        /\ Entries(<<j>> \o bulkQueue) = Entries(bulkQueue) \cup {j}
    BY <1>1, PrependFacts
  <2>2. CASE bulkQueue' = <<j>> \o bulkQueue /\ UNCHANGED queue
    <3>1. Entries(bulkQueue)' = Entries(<<j>> \o bulkQueue) /\ Entries(queue)' = Entries(queue)
      BY <2>2 DEF Entries
    <3>. QED
      BY <1>1, <2>1, <2>2, <3>1
  <2>3. CASE queue' = <<j>> \o queue /\ UNCHANGED bulkQueue
    <3>1. Entries(queue)' = Entries(<<j>> \o queue) /\ Entries(bulkQueue)' = Entries(bulkQueue)
      BY <2>3 DEF Entries
    <3>. QED
      BY <1>1, <2>1, <2>3, <3>1
  <2>. QED
    BY <1>2, <2>2, <2>3
<1>5. (\A v \in Wavs : Waiting(v) => Waiting(v)') /\ Waiting(j.wav)'
  BY <1>4 DEF Waiting
<1>6. Moves(s, "unready")
  BY <1>3, MoveFacts DEF PoolInv, Locations
<1>7. WorkersOK' /\ \A v : Held(v) => Held(v)' \/ hand[s].wav = v
  <2>1. NoJob \notin Job /\ "unready" \notin Working /\ fromBulk' \subseteq Servers
    BY <1>1, <1>3, NoJobAssumption DEF Working
  <2>. QED
    BY <1>3, <1>6, <2>1, HandFacts DEF PoolInv
<1>8. QueuesOK'
  BY <1>2, <1>3, <1>4 DEF PoolInv, TypeOK, QueuesOK, countVars
<1>9. TypeOK'
  BY <1>3, <1>7, <1>8 DEF PoolInv, TypeOK, ServersOK, countVars, serverVars
<1>10. NoClipLost' /\ RefusedOnlyIfWaiting'
  BY <1>2, <1>3, <1>5, <1>7
  DEF PoolInv, TypeOK, QueuesOK, NoClipLost, RefusedOnlyIfWaiting
<1>. QED
  BY <1>9, <1>10 DEF PoolInv

\* Publishing lets the clip go and owes nothing for it any more.
LEMMA PublishFacts ==
  ASSUME PoolInv, NEW s \in Servers, Publish(s)
  PROVE  PoolInv'
<1>1. hand[s] \in Job /\ pc[s] = "publish" /\ fromBulk \subseteq Servers
  BY DEF PoolInv, TypeOK, WorkersOK, Publish, Working
<1>2. hand[s].wav \in Wavs
  BY <1>1, JobFacts
<1>3. /\ answered' = answered \cup {hand[s].wav}
      /\ hand' = [hand EXCEPT ![s] = NoJob] /\ fromBulk' = fromBulk \ {s}
      /\ Go(s, "await")
      /\ UNCHANGED <<jobVars, countVars, serverVars, closed>>
  BY DEF Publish
<1>4. Moves(s, "await")
  BY <1>3, MoveFacts DEF PoolInv, Locations
<1>5. WorkersOK' /\ \A v : Held(v) => Held(v)' \/ hand[s].wav = v
  <2>1. NoJob \notin Job /\ "await" \notin Working /\ fromBulk' \subseteq Servers
    BY <1>1, <1>3, NoJobAssumption DEF Working
  <2>. QED
    BY <1>3, <1>4, <2>1, HandFacts DEF PoolInv
<1>6. TypeOK'
  BY <1>2, <1>3, <1>5 DEF PoolInv, TypeOK, QueuesOK, ServersOK, jobVars, countVars, serverVars
<1>7. \A v \in Wavs : Waiting(v) <=> Waiting(v)'
  BY <1>3 DEF Waiting, Entries, jobVars
<1>8. NoClipLost' /\ RefusedOnlyIfWaiting'
  BY <1>3, <1>5, <1>7
  DEF PoolInv, TypeOK, QueuesOK, NoClipLost, RefusedOnlyIfWaiting, jobVars
<1>. QED
  BY <1>6, <1>8 DEF PoolInv

\* The steps by which a worker moves on empty-handed.
LEMMA IdleFacts ==
  ASSUME PoolInv, NEW s \in Servers,
         Await(s) \/ FindNothing(s) \/ Park(s) \/ Unready(s) \/ Exit(s)
  PROVE  PoolInv'
<1> DEFINE Free == {"await", "look", "decide", "parked", "unready", "exit"}
<1>1. pc[s] \in Free /\ UNCHANGED <<jobVars, countVars, workerVars, answered>>
  BY DEF Await, FindNothing, Park, Unready, Exit
<1>2. PICK to \in Free : Moves(s, to)
  <2>1. \A to \in Free : to \in Locations
    BY DEF Locations
  <2>2. ASSUME NEW to \in Free, Go(s, to)
        PROVE  Moves(s, to)
    BY <2>1, <2>2, MoveFacts DEF PoolInv
  <2>3. ASSUME tokens > 0, tokens' = tokens - 1, pc' = [pc EXCEPT ![s] = "look"]
        PROVE  Moves(s, "look")
    <3>1. pc \in [Servers -> Locations] /\ tokens \in 0..TokenCap /\ TokenCap \in Nat
      BY PoolAssumption DEF PoolInv, TypeOK, WorkersOK
    <3>2. tokens' \in 0..TokenCap
      BY <2>3, <3>1
    <3>. QED
      BY <2>3, <3>1, <3>2 DEF Moves, Locations
  <2>4. CASE Park(s)
    BY <2>2, <2>3, <2>4 DEF Park
  <2>5. CASE Await(s) \/ FindNothing(s) \/ Unready(s) \/ Exit(s)
    BY <2>2, <2>5 DEF Await, FindNothing, Unready, Exit
  <2>. QED
    BY <2>4, <2>5
<1>3. WorkersOK' /\ \A v : Held(v) => Held(v)'
  <2>1. pc[s] \in Working <=> to \in Working
    BY <1>1, <1>2 DEF Working
  <2>. QED
    BY <1>1, <1>2, <2>1, SameHandFacts DEF PoolInv, workerVars
<1>4. ServersOK'
  BY DEF PoolInv, TypeOK, ServersOK, serverVars, Await, FindNothing, Park, Unready, Exit
<1>. QED
  BY <1>1, <1>3, <1>4, QuietFacts

\* Servers that crash, recover or are probed, and Close, touch no job.
LEMMA ServerFacts ==
  ASSUME PoolInv, (\E s \in Servers : Server(s)) \/ Close
  PROVE  PoolInv'
<1>1. UNCHANGED <<jobVars, countVars, tokens, pc, workerVars, answered>>
  BY DEF Server, Crash, Recover, Probe, Close
<1>2. WorkersOK' /\ \A v : Held(v) => Held(v)'
  BY <1>1 DEF PoolInv, TypeOK, WorkersOK, Held, workerVars
<1>3. ServersOK'
  BY DEF PoolInv, TypeOK, ServersOK, serverVars, Server, Crash, Recover, Probe, Close
<1>. QED
  BY <1>1, <1>2, <1>3, QuietFacts

\* Waiting longer only marks an entry.
LEMMA OlderFacts ==
  ASSUME PoolInv, Age
  PROVE  PoolInv'
<1>1. queue \in Seq(Job)
  BY DEF PoolInv, TypeOK, QueuesOK
<1>2. PICK i \in DOMAIN queue : queue' = [queue EXCEPT ![i].aged = TRUE]
  BY DEF Age, AgeOldest, AgePromoted, AgeEntry
<1>3. UNCHANGED <<bulkQueue, queued, countVars, tokens, pc, workerVars, serverVars, closed, answered>>
  BY DEF Age, AgeOldest, AgePromoted, AgeEntry
<1>4. /\ queue' \in Seq(Job)
      /\ \A e \in Entries(queue) : \E f \in Entries([queue EXCEPT ![i].aged = TRUE]) : f.wav = e.wav
  BY <1>1, <1>2, AgeFacts
<1>5. \A v \in Wavs : Waiting(v) => Waiting(v)'
  <2>1. /\ Entries(queue)' = Entries([queue EXCEPT ![i].aged = TRUE])
        /\ Entries(bulkQueue)' = Entries(bulkQueue)
    BY <1>2, <1>3 DEF Entries
  <2>. QED
    BY <1>4, <2>1 DEF Waiting
<1>6. \A v \in Wavs : Held(v) => Held(v)'
  BY <1>3 DEF Held, workerVars
<1>7. TypeOK'
  BY <1>3, <1>4
  DEF PoolInv, TypeOK, QueuesOK, WorkersOK, ServersOK, countVars, workerVars, serverVars
<1>. QED
  BY <1>3, <1>5, <1>6, <1>7, KeepFacts DEF PoolInv

\* The initial state: nothing waits, nothing is owed.
LEMMA PoolInit ==
  ASSUME Init
  PROVE  PoolInv
<1>1. <<>> \in Seq(Job) /\ 0 \in 0..TokenCap
  BY PoolAssumption
<1>2. \A s \in Servers : pc[s] = "await" /\ hand[s] = NoJob
  BY DEF Init
<1>3. pc \in [Servers -> Locations] /\ hand \in [Servers -> Job \cup {NoJob}]
  BY DEF Init, Locations
<1>4. \A s \in Servers : hand[s] \in Job <=> pc[s] \in Working
  BY <1>2, NoJobAssumption DEF Working
<1>5. QueuesOK /\ WorkersOK
  BY <1>1, <1>3, <1>4 DEF Init, QueuesOK, WorkersOK
<1>6. ServersOK /\ running \in Int /\ backfillRunning \in Int
  <2>1. \A s \in Servers : (s \notin Managed) \in BOOLEAN
    OBVIOUS
  <2>2. ready \in [Servers -> BOOLEAN]
    BY <2>1 DEF Init
  <2>3. up \in [Servers -> BOOLEAN] /\ closed \in BOOLEAN
    BY DEF Init
  <2>4. running \in Int /\ backfillRunning \in Int
    BY DEF Init
  <2>. QED
    BY <2>2, <2>3, <2>4 DEF ServersOK
<1>7. NoClipLost /\ RefusedOnlyIfWaiting
  BY DEF Init, NoClipLost, RefusedOnlyIfWaiting
<1>. QED
  BY <1>5, <1>6, <1>7 DEF PoolInv, TypeOK

\* Every step keeps the invariant.
LEMMA PoolNext ==
  ASSUME PoolInv, [Next]_vars
  PROVE  PoolInv'
<1>1. CASE Submission
  <2>1. ASSUME NEW w \in Live, SubmitNew(w)
        PROVE  PoolInv'
    BY <2>1, NewClipFacts, PoolAssumption DEF SubmitNew
  <2>2. ASSUME NEW w \in Bulk \cup Archive, NEW bf \in BOOLEAN, SubmitBulk(w, bf)
        PROVE  PoolInv'
    BY <2>2, NewClipFacts, PoolAssumption DEF SubmitBulk
  <2>. QED
    BY <1>1, <2>1, <2>2, PromoteFacts DEF Submission, Submit
<1>2. ASSUME NEW s \in Servers, Worker(s)
      PROVE  PoolInv'
  BY <1>2, IdleFacts, TakeFacts, AttemptFacts, RequeueFacts, PublishFacts DEF Worker
<1>3. CASE UNCHANGED vars
  <2>1. UNCHANGED <<jobVars, countVars, answered>>
    BY <1>3 DEF vars
  <2>2. WorkersOK' /\ ServersOK' /\ \A v \in Wavs : Held(v) => Held(v)'
    BY <1>3 DEF PoolInv, TypeOK, WorkersOK, ServersOK, Held, vars, workerVars, serverVars
  <2>. QED
    BY <2>1, <2>2, QuietFacts
<1>. QED
  BY <1>1, <1>2, <1>3, ServerFacts, OlderFacts DEF Next

\* The types hold in every reachable state; the wakeup channel never holds
\* more than its capacity and a worker holds a job exactly while it works.
THEOREM PoolTypeCorrect == Spec => []TypeOK
<1>1. PoolInv => TypeOK
  BY DEF PoolInv
<1>. QED
  BY PoolInit, PoolNext, <1>1, PTL DEF Spec

\* No path of the pool drops a job: a clip that is owed a transcript waits in
\* a queue or is in a worker's hands.
THEOREM NoClipIsLost == Spec => []NoClipLost
<1>1. PoolInv => NoClipLost
  BY DEF PoolInv
<1>. QED
  BY PoolInit, PoolNext, <1>1, PTL DEF Spec

\* p.queued never names a clip that does not wait, so no clip is refused
\* for ever as "already queued".
THEOREM RefusalsJustified == Spec => []RefusedOnlyIfWaiting
<1>1. PoolInv => RefusedOnlyIfWaiting
  BY DEF PoolInv
<1>. QED
  BY PoolInit, PoolNext, <1>1, PTL DEF Spec

-----------------------------------------------------------------------------
(* The counters, and the server the backfill leaves to live clips.          *)

BackfillAttempting == {s \in Attempting : hand[s].backfill}
BulkBackfills == {s \in Attempting \cap fromBulk : hand[s].backfill}

\* A worker that moves to "to" changes only its own place among those at work.
LEMMA AttemptingFacts ==
  ASSUME TypeOK, NEW s \in Servers, NEW to \in Locations,
         Go(s, to) \/ SignalAs([Wake EXCEPT ![s] = to])
  PROVE  /\ \A t \in Servers : t # s => (pc'[t] = "run" <=> pc[t] = "run")
         /\ pc'[s] = to
<1>1. pc \in [Servers -> Locations]
  BY DEF TypeOK, WorkersOK
<1>2. CASE Go(s, to)
  BY <1>1, <1>2 DEF Go
<1>3. CASE SignalAs([Wake EXCEPT ![s] = to])
  BY <1>1, <1>3 DEF SignalAs, Wake, Parked
<1>. QED
  BY <1>2, <1>3

\* One more, or one fewer, of a finite set of servers.
LEMMA OneMore ==
  ASSUME NEW T \in SUBSET Servers, NEW s \in Servers
  PROVE  /\ Cardinality(T) \in Nat
         /\ s \notin T => Cardinality(T \cup {s}) = Cardinality(T) + 1
         /\ s \in T => Cardinality(T \ {s}) = Cardinality(T) - 1
         /\ \A U \in SUBSET T : Cardinality(U) \in Nat /\ Cardinality(U) <= Cardinality(T)
<1>1. IsFiniteSet(T)
  BY PoolAssumption, FS_Subset
<1>2. Cardinality(T) \in Nat
  BY <1>1, FS_CardinalityType
<1>3. s \notin T => Cardinality(T \cup {s}) = Cardinality(T) + 1
  BY <1>1, FS_AddElement
<1>4. s \in T => Cardinality(T \ {s}) = Cardinality(T) - 1
  BY <1>1, FS_RemoveElement
<1>5. \A U \in SUBSET T : Cardinality(U) \in Nat /\ Cardinality(U) <= Cardinality(T)
  BY <1>1, FS_Subset, FS_CardinalityType
<1>. QED
  BY <1>2, <1>3, <1>4, <1>5

CountInv == CountersMatch /\ BackfillLeavesServer

\* A job that is booked.
LEMMA BookCounts ==
  ASSUME PoolInv, CountInv, NEW s \in Servers, TakeLive(s) \/ TakeBulk(s)
  PROVE  CountInv'
<1> USE DEF PoolInv
<1>1. pc[s] = "look" /\ hand \in [Servers -> Job \cup {NoJob}]
  BY DEF TakeLive, TakeBulk, TypeOK, WorkersOK
<1>2. PICK j : /\ running' = running + 1
               /\ backfillRunning' = backfillRunning + (IF j.backfill THEN 1 ELSE 0)
               /\ hand' = [hand EXCEPT ![s] = j]
               /\ Go(s, "run") \/ SignalAs([Wake EXCEPT ![s] = "run"])
               /\ \/ fromBulk' = fromBulk \ {s}
                  \/ fromBulk' = fromBulk \cup {s} /\ (j.backfill => backfillRunning < backfillSlots)
  BY DEF TakeLive, TakeBulk, Book, BulkPick, BulkOk
<1>3. /\ \A t \in Servers : t # s => (pc'[t] = "run" <=> pc[t] = "run") /\ hand'[t] = hand[t]
      /\ pc'[s] = "run" /\ hand'[s] = j
  BY <1>1, <1>2, AttemptingFacts DEF Locations
<1>4. s \notin Attempting /\ Attempting' = Attempting \cup {s}
  BY <1>1, <1>3 DEF Attempting
<1>5. BackfillAttempting' = IF j.backfill THEN BackfillAttempting \cup {s} ELSE BackfillAttempting
  BY <1>3, <1>4 DEF BackfillAttempting, Attempting
<1>6. /\ Attempting \in SUBSET Servers /\ BackfillAttempting \in SUBSET Servers
      /\ BulkBackfills \in SUBSET BackfillAttempting /\ s \notin BackfillAttempting
      /\ BulkBackfills \in SUBSET Servers /\ s \notin BulkBackfills
  BY <1>4 DEF Attempting, BackfillAttempting, BulkBackfills
<1>7. running = Cardinality(Attempting) /\ backfillRunning = Cardinality(BackfillAttempting)
  BY DEF CountInv, CountersMatch, BackfillAttempting
<1>8. running' = Cardinality(Attempting')
  BY <1>2, <1>4, <1>6, <1>7, OneMore
<1>9. backfillRunning' = Cardinality(BackfillAttempting')
  <2>1. CASE j.backfill
    <3>1. /\ BackfillAttempting' = BackfillAttempting \cup {s}
          /\ backfillRunning' = backfillRunning + 1
      BY <1>2, <1>5, <2>1
    <3>. QED
      BY <1>6, <1>7, <3>1, OneMore
  <2>2. CASE ~ j.backfill
    <3>1. /\ BackfillAttempting' = BackfillAttempting
          /\ backfillRunning' = backfillRunning
      BY <1>2, <1>5, <2>2 DEF TypeOK
    <3>. QED
      BY <1>7, <3>1
  <2>. QED
    BY <2>1, <2>2
<1>10. Cardinality(BulkBackfills') <= backfillSlots
  <2>1. \/ BulkBackfills' = BulkBackfills
        \/ BulkBackfills' = BulkBackfills \cup {s} /\ backfillRunning < backfillSlots
    BY <1>2, <1>3, <1>4 DEF BulkBackfills, Attempting
  <2>2. Cardinality(BulkBackfills) <= backfillSlots
    BY DEF CountInv, BackfillLeavesServer, BulkBackfills
  <2>3. /\ Cardinality(BulkBackfills \cup {s}) = Cardinality(BulkBackfills) + 1
        /\ Cardinality(BulkBackfills) \in Nat /\ Cardinality(BackfillAttempting) \in Nat
        /\ Cardinality(BulkBackfills) <= Cardinality(BackfillAttempting)
    BY <1>6, OneMore
  <2>4. backfillSlots \in Int
    BY PoolAssumption, FS_CardinalityType DEF backfillSlots
  <2>5. CASE BulkBackfills' = BulkBackfills
    BY <2>2, <2>5
  <2>6. CASE BulkBackfills' = BulkBackfills \cup {s} /\ backfillRunning < backfillSlots
    <3>1. Cardinality(BulkBackfills') = Cardinality(BulkBackfills) + 1
      BY <2>3, <2>6
    <3>2. Cardinality(BulkBackfills) < backfillSlots
      BY <1>7, <2>3, <2>4, <2>6
    <3>. QED
      BY <2>3, <2>4, <3>1, <3>2
  <2>. QED
    BY <2>1, <2>5, <2>6
<1>. QED
  BY <1>8, <1>9, <1>10
  DEF CountInv, CountersMatch, BackfillLeavesServer, BackfillAttempting, BulkBackfills,
      backfillSlots

\* An attempt that ends.
LEMMA FinishCounts ==
  ASSUME PoolInv, CountInv, NEW s \in Servers, Attempt(s)
  PROVE  CountInv'
<1> USE DEF PoolInv
<1>1. pc[s] = "run" /\ hand \in [Servers -> Job \cup {NoJob}]
  BY DEF Attempt, AttemptEnds, AttemptUnreachable, TypeOK, WorkersOK
<1>2. PICK to \in {"requeue", "publish"} :
         /\ running' = running - 1
         /\ backfillRunning' = backfillRunning - (IF hand[s].backfill THEN 1 ELSE 0)
         /\ Go(s, to) \/ SignalAs([Wake EXCEPT ![s] = to])
         /\ fromBulk' = fromBulk
         /\ \A t \in Servers : t # s => hand'[t] = hand[t]
  BY <1>1 DEF Attempt, AttemptEnds, AttemptUnreachable, Finish
<1>3. /\ \A t \in Servers : t # s => (pc'[t] = "run" <=> pc[t] = "run")
      /\ pc'[s] # "run"
  <2>1. to \in Locations /\ to # "run"
    BY DEF Locations
  <2>. QED
    BY <1>2, <2>1, AttemptingFacts
<1>4. s \in Attempting /\ Attempting' = Attempting \ {s}
  BY <1>1, <1>3 DEF Attempting
<1>5. BackfillAttempting' = BackfillAttempting \ {s}
  BY <1>2, <1>4 DEF BackfillAttempting, Attempting
<1>6. /\ Attempting \in SUBSET Servers /\ BackfillAttempting \in SUBSET Servers
      /\ BulkBackfills \in SUBSET Servers
      /\ s \in BackfillAttempting <=> hand[s].backfill
  BY <1>4 DEF Attempting, BackfillAttempting, BulkBackfills
<1>7. running = Cardinality(Attempting) /\ backfillRunning = Cardinality(BackfillAttempting)
  BY DEF CountInv, CountersMatch, BackfillAttempting
<1>8. running' = Cardinality(Attempting')
  BY <1>2, <1>4, <1>6, <1>7, OneMore
<1>9. backfillRunning' = Cardinality(BackfillAttempting')
  <2>1. CASE hand[s].backfill
    BY <1>2, <1>5, <1>6, <1>7, <2>1, OneMore
  <2>2. CASE ~ hand[s].backfill
    <3>1. BackfillAttempting' = BackfillAttempting
      BY <1>5, <1>6, <2>2
    <3>2. backfillRunning' = backfillRunning
      BY <1>2, <2>2 DEF TypeOK
    <3>. QED
      BY <1>7, <3>1, <3>2
  <2>. QED
    BY <2>1, <2>2
<1>10. Cardinality(BulkBackfills') <= backfillSlots
  <2>1. BulkBackfills' \subseteq BulkBackfills
    BY <1>2, <1>4 DEF BulkBackfills, Attempting
  <2>2. Cardinality(BulkBackfills) <= backfillSlots
    BY DEF CountInv, BackfillLeavesServer, BulkBackfills
  <2>3. /\ Cardinality(BulkBackfills') \in Nat /\ Cardinality(BulkBackfills) \in Nat
        /\ Cardinality(BulkBackfills') <= Cardinality(BulkBackfills)
    BY <1>6, <2>1, OneMore
  <2>4. backfillSlots \in Int
    BY PoolAssumption, FS_CardinalityType DEF backfillSlots
  <2>. QED
    BY <2>2, <2>3, <2>4
<1>. QED
  BY <1>8, <1>9, <1>10
  DEF CountInv, CountersMatch, BackfillLeavesServer, BackfillAttempting, BulkBackfills,
      backfillSlots

\* Every other step leaves those at work as they are.
LEMMA OtherCounts ==
  ASSUME PoolInv, CountInv, UNCHANGED <<running, backfillRunning>>,
         \A t \in Servers : pc'[t] = "run" <=> pc[t] = "run",
         \A t \in Servers : pc[t] = "run" => hand'[t] = hand[t],
         \A t \in Servers : pc[t] = "run" => (t \in fromBulk' => t \in fromBulk)
  PROVE  CountInv'
<1>1. /\ Attempting' = Attempting /\ BackfillAttempting' = BackfillAttempting
      /\ BulkBackfills' \subseteq BulkBackfills
  BY DEF Attempting, BackfillAttempting, BulkBackfills
<1>2. Cardinality(BulkBackfills) <= backfillSlots
  BY DEF CountInv, BackfillLeavesServer, BulkBackfills
<1>3. BulkBackfills \in SUBSET Servers /\ Servers # {}
  BY PoolAssumption DEF BulkBackfills, Attempting
<1>4. /\ Cardinality(BulkBackfills') \in Nat /\ Cardinality(BulkBackfills) \in Nat
      /\ Cardinality(BulkBackfills') <= Cardinality(BulkBackfills)
  BY <1>1, <1>3, OneMore
<1>5. backfillSlots \in Int
  BY PoolAssumption, FS_CardinalityType DEF backfillSlots
<1>6. Cardinality(BulkBackfills') <= backfillSlots
  BY <1>2, <1>4, <1>5
<1>. QED
  BY <1>1, <1>6
  DEF CountInv, CountersMatch, BackfillLeavesServer, BackfillAttempting, BulkBackfills,
      backfillSlots

LEMMA CountNext ==
  ASSUME PoolInv, CountInv, [Next]_vars
  PROVE  CountInv'
<1> USE DEF PoolInv
<1>1. CASE UNCHANGED <<running, backfillRunning, pc, hand, fromBulk>>
  BY <1>1, OtherCounts
<1>2. CASE UNCHANGED vars
  BY <1>1, <1>2 DEF vars, countVars, workerVars
<1>3. CASE Submission
  <2>1. UNCHANGED <<countVars, workerVars>> /\ pc' = Wake
    BY <1>3 DEF Submission, Submit, SubmitNew, SubmitDuplicate, SubmitBulk, SignalAs
  <2>2. \A t \in Servers : pc'[t] = "run" <=> pc[t] = "run"
    BY <2>1 DEF Wake, Parked
  <2>. QED
    BY <2>1, <2>2, OtherCounts DEF countVars, workerVars
<1>4. ASSUME NEW s \in Servers, Requeue(s) \/ Publish(s) \/ Unready(s)
      PROVE  CountInv'
  <2>1. /\ pc[s] # "run" /\ UNCHANGED countVars
        /\ fromBulk' \subseteq fromBulk
        /\ \A t \in Servers : t # s => hand'[t] = hand[t]
    BY <1>4 DEF Requeue, Publish, Unready, workerVars, TypeOK, WorkersOK
  <2>2. PICK to \in Locations : /\ to # "run"
                                /\ Go(s, to) \/ SignalAs([Wake EXCEPT ![s] = to])
    BY <1>4 DEF Requeue, Publish, Unready, Locations
  <2>3. \A t \in Servers : pc'[t] = "run" <=> pc[t] = "run"
    BY <2>1, <2>2, AttemptingFacts
  <2>. QED
    BY <2>1, <2>3, OtherCounts DEF countVars
<1>5. ASSUME NEW s \in Servers, Await(s) \/ FindNothing(s) \/ Park(s) \/ Exit(s)
      PROVE  CountInv'
  <2>1. UNCHANGED <<countVars, workerVars>>
    BY <1>5 DEF Await, FindNothing, Park, Exit
  <2>2. \A t \in Servers : pc'[t] = "run" <=> pc[t] = "run"
    BY <1>5 DEF Await, FindNothing, Park, Exit, Go, TypeOK, WorkersOK
  <2>. QED
    BY <2>1, <2>2, OtherCounts DEF countVars, workerVars
<1>6. ASSUME (\E s \in Servers : Server(s)) \/ Close \/ Age PROVE CountInv'
  BY <1>1, <1>6 DEF Server, Crash, Recover, Probe, Close, Age, AgeOldest, AgePromoted, AgeEntry,
                    countVars, workerVars
<1>. QED
  BY <1>2, <1>3, <1>4, <1>5, <1>6, BookCounts, FinishCounts DEF Next, Worker

LEMMA CountInvariant == Spec => []CountInv
<1>1. Init => CountInv
  <2> SUFFICES ASSUME Init PROVE CountInv
    OBVIOUS
  <2>1. Attempting = {}
    BY DEF Init, Attempting
  <2>2. Cardinality({}) = 0
    BY FS_EmptySet
  <2>3. backfillSlots >= 0
    BY PoolAssumption, FS_CardinalityType DEF backfillSlots
  <2>4. {s \in Attempting : hand[s].backfill} = {}
        /\ {s \in Attempting \cap fromBulk : hand[s].backfill} = {}
    BY <2>1
  <2>. QED
    BY <2>1, <2>2, <2>3, <2>4 DEF Init, CountInv, CountersMatch, BackfillLeavesServer
<1>. QED
  BY <1>1, PoolInit, PoolNext, CountNext, PTL DEF Spec

\* running and backfillRunning, which isBusy, the backfill and its slots read,
\* count exactly the attempts under way.
THEOREM CountersNeverDrift == Spec => []CountersMatch
<1>1. CountInv => CountersMatch
  BY DEF CountInv
<1>. QED
  BY <1>1, CountInvariant, PTL

\* Jobs taken from the bulk queue leave a server to live clips, however
\* promotions, retries and finishing attempts interleave.
THEOREM ServerLeftToLive == Spec => []BackfillLeavesServer
<1>1. CountInv => BackfillLeavesServer
  BY DEF CountInv
<1>. QED
  BY <1>1, CountInvariant, PTL

-----------------------------------------------------------------------------
(* Wakeups, when every server takes every length.                           *)

NoRanges == \A s \in Servers : Covers[s] = Wavs

\* A signal leaves a token or sends a worker to look.
LEMMA SignalWakes ==
  ASSUME TypeOK, ~ closed, Signal, \A t \in Parked : pc'[t] = "look"
  PROVE  tokens' > 0 \/ \E t \in Servers : pc'[t] = "look"
<1>1. CASE Parked = {}
  BY <1>1, SignalFacts
<1>2. CASE Parked # {}
  BY <1>2 DEF Parked
<1>. QED
  BY <1>1, <1>2

\* The pool is never opened again.
LEMMA ClosedStays ==
  ASSUME closed, [Next]_vars
  PROVE  closed'
<1>1. CASE UNCHANGED vars
  BY <1>1 DEF vars
<1>2. CASE Submission
  BY <1>2 DEF Submission, Submit, SubmitNew, SubmitDuplicate, SubmitBulk
<1>3. ASSUME NEW s \in Servers, Worker(s) PROVE closed'
  BY <1>3 DEF Worker, Await, TakeLive, TakeBulk, Book, FindNothing, Park, Attempt, AttemptEnds,
              AttemptUnreachable, Finish, Requeue, Unready, Publish, Exit
<1>4. ASSUME NEW s \in Servers, Server(s) PROVE closed'
  BY <1>4 DEF Server, Crash, Recover, Probe
<1>5. CASE Age \/ Close
  BY <1>5 DEF Age, AgeOldest, AgePromoted, AgeEntry, Close
<1>. QED
  BY <1>1, <1>2, <1>3, <1>4, <1>5 DEF Next

LEMMA WakeupNext ==
  ASSUME NoRanges, PoolInv, NoLostWakeup, [Next]_vars
  PROVE  NoLostWakeup'
<1> SUFFICES ASSUME HasWork', ~ closed'
             PROVE  \/ tokens' > 0
                    \/ \E s \in Servers : pc'[s] = "look"
                    \/ \A s \in Servers : pc'[s] \notin {"decide", "parked"}
  BY DEF NoLostWakeup
<1> USE DEF PoolInv
<1>0. /\ ~ closed /\ pc \in [Servers -> Locations] /\ tokens \in Nat
      /\ queue \in Seq(Job) /\ bulkQueue \in Seq(Job)
  <2>1. pc \in [Servers -> Locations] /\ tokens \in Nat /\ closed \in BOOLEAN
    BY PoolAssumption DEF TypeOK, WorkersOK, ServersOK
  <2>2. queue \in Seq(Job) /\ bulkQueue \in Seq(Job)
    BY DEF TypeOK, QueuesOK
  <2>. QED
    BY <2>1, <2>2, ClosedStays
<1>1. CASE UNCHANGED <<tokens, pc>> /\ HasWork
  BY <1>0, <1>1 DEF NoLostWakeup
<1>2. CASE UNCHANGED vars
  BY <1>2, <1>1 DEF vars, jobVars, countVars, HasWork
<1>3. CASE Signal /\ \A t \in Parked : pc'[t] = "look"
  BY <1>0, <1>3, SignalWakes
<1>4. CASE Submission
  BY <1>3, <1>4 DEF Submission, Submit, SubmitNew, SubmitDuplicate, SubmitBulk, SignalAs,
                    Wake, Parked
<1>5. ASSUME NEW s \in Servers, NEW to, pc[s] # "parked",
             SignalAs([Wake EXCEPT ![s] = to])
      PROVE  Signal /\ \A t \in Parked : pc'[t] = "look"
  BY <1>5 DEF SignalAs, Wake, Parked
<1>6. ASSUME NEW s \in Servers, NEW to, to \notin {"decide", "parked"}, pc[s] # "look",
             Go(s, to), HasWork
      PROVE  \/ tokens' > 0
             \/ \E t \in Servers : pc'[t] = "look"
             \/ \A t \in Servers : pc'[t] \notin {"decide", "parked"}
  BY <1>0, <1>6 DEF Go, NoLostWakeup
<1>7. ASSUME NEW s \in Servers, TakeLive(s) \/ TakeBulk(s)
      PROVE  Signal /\ \A t \in Parked : pc'[t] = "look"
  <2>1. pc[s] = "look"
    BY <1>7 DEF TakeLive, TakeBulk
  <2>2. queue' # <<>> \/ bulkQueue' # <<>>
    BY DEF HasWork
  <2>3. SignalAs([Wake EXCEPT ![s] = "run"])
    BY <1>7, <2>2 DEF TakeLive, TakeBulk, Book
  <2>. QED
    BY <1>5, <2>1, <2>3
<1>8. ASSUME NEW s \in Servers, Attempt(s)
      PROVE  \/ tokens' > 0
             \/ \E t \in Servers : pc'[t] = "look"
             \/ \A t \in Servers : pc'[t] \notin {"decide", "parked"}
  <2>1. PICK to \in {"requeue", "publish"} : Finish(s, to)
    BY <1>8 DEF Attempt, AttemptEnds, AttemptUnreachable
  <2>2. pc[s] = "run"
    BY <1>8 DEF Attempt, AttemptEnds, AttemptUnreachable
  <2>3. CASE hand[s].backfill
    <3>1. SignalAs([Wake EXCEPT ![s] = to])
      BY <2>1, <2>3 DEF Finish
    <3>. QED
      BY <1>3, <1>5, <2>2, <3>1
  <2>4. CASE ~ hand[s].backfill
    <3>1. Go(s, to) /\ UNCHANGED <<queue, bulkQueue>> /\ backfillRunning' = backfillRunning
      BY <2>1, <2>4 DEF Finish, jobVars, TypeOK
    <3>2. HasWork
      BY <3>1 DEF HasWork
    <3>. QED
      BY <1>6, <2>2, <3>1, <3>2
  <2>. QED
    BY <2>3, <2>4
<1>9. ASSUME NEW s \in Servers, Requeue(s)
      PROVE  Signal /\ \A t \in Parked : pc'[t] = "look"
  BY <1>5, <1>9 DEF Requeue
<1>10. ASSUME NEW s \in Servers, FindNothing(s) PROVE FALSE
  <2>1. NothingFor(s) /\ HasWork
    BY <1>10 DEF FindNothing, jobVars, countVars, HasWork
  <2>2. /\ \A k \in DOMAIN queue : Eligible(s, queue[k])
        /\ \A k \in DOMAIN bulkQueue : Eligible(s, bulkQueue[k])
    BY <1>0 DEF Eligible, NoRanges, Job
  <2>3. queue = <<>>
    BY <1>0, <2>1, <2>2 DEF NothingFor
  <2>. QED
    BY <2>1, <2>2, <2>3 DEF NothingFor, BulkOk, HasWork
<1>11. ASSUME NEW s \in Servers, Park(s)
       PROVE  \/ tokens' > 0
              \/ \E t \in Servers : pc'[t] = "look"
              \/ \A t \in Servers : pc'[t] \notin {"decide", "parked"}
  <2>1. HasWork /\ pc[s] = "decide"
    BY <1>11 DEF Park, jobVars, countVars, HasWork
  <2>2. CASE tokens > 0
    BY <1>0, <1>11, <2>2 DEF Park
  <2>3. CASE ~ (tokens > 0)
    <3>1. PICK t \in Servers : pc[t] = "look"
      BY <1>0, <2>1, <2>3 DEF NoLostWakeup
    <3>2. pc' = [pc EXCEPT ![s] = "parked"] /\ t # s
      BY <1>11, <2>1, <2>3, <3>1 DEF Park, Go
    <3>. QED
      BY <1>0, <3>1, <3>2
  <2>. QED
    BY <2>2, <2>3
<1>12. ASSUME NEW s \in Servers, Await(s) \/ Unready(s) \/ Publish(s)
       PROVE  \/ tokens' > 0
              \/ \E t \in Servers : pc'[t] = "look"
              \/ \A t \in Servers : pc'[t] \notin {"decide", "parked"}
  <2>1. HasWork /\ pc[s] # "look"
    BY <1>12 DEF Await, Unready, Publish, jobVars, countVars, HasWork
  <2>2. PICK to \in {"look", "await"} : Go(s, to)
    BY <1>12 DEF Await, Unready, Publish
  <2>. QED
    BY <1>6, <2>1, <2>2
<1>13. ASSUME NEW s \in Servers, Exit(s) PROVE FALSE
  BY <1>0, <1>13 DEF Exit
<1>14. ASSUME NEW s \in Servers, Server(s)
       PROVE  UNCHANGED <<tokens, pc>> /\ HasWork
  BY <1>14 DEF Server, Crash, Recover, Probe, jobVars, countVars, HasWork
<1>15. CASE Close
  BY <1>15 DEF Close
<1>16. ASSUME Age PROVE UNCHANGED <<tokens, pc>> /\ HasWork
  <2>1. UNCHANGED <<tokens, pc, bulkQueue, backfillRunning>>
    BY <1>16 DEF Age, AgeOldest, AgePromoted, AgeEntry, countVars
  <2>2. PICK i \in DOMAIN queue : TRUE
    BY <1>16 DEF Age, AgeOldest, AgePromoted
  <2>3. queue # <<>>
    BY <2>2
  <2>. QED
    BY <2>1, <2>3 DEF HasWork
<1>. QED
  BY <1>1, <1>2, <1>3, <1>4, <1>7, <1>8, <1>9, <1>10, <1>11, <1>12, <1>13, <1>14, <1>15, <1>16
  DEF Next, Worker

\* Without clip ranges, work that waits finds a token or a worker that looks:
\* no worker sleeps while a clip it could take is queued.
THEOREM WakeupsReachWork ==
  ASSUME NoRanges
  PROVE  Spec => []NoLostWakeup
<1>1. Init => NoLostWakeup
  BY DEF Init, NoLostWakeup, HasWork
<1>2. PoolInv /\ NoLostWakeup /\ [Next]_vars => NoLostWakeup'
  BY WakeupNext
<1>. QED
  BY <1>1, <1>2, PoolInit, PoolNext, PTL DEF Spec
=============================================================================
