--------------------------- MODULE RecordingsProofs ---------------------------
(***************************************************************************)
(* The index and the history of a stream's recordings, for any recordings  *)
(* and any number of transcripts.                                          *)
(***************************************************************************)
EXTENDS Recordings, WellFoundedInduction, TLAPS

-----------------------------------------------------------------------------
(* Induction, over a set in place of a predicate: the library's theorem    *)
(* that < is well-founded gives each set of numbers a least element, and a *)
(* least number outside of S would be the successor of one in S.           *)

LEMMA LeastNumber ==
  ASSUME NEW T, T \subseteq Nat, T # {}
  PROVE  \E x \in T : \A y \in T : x <= y
<1> DEFINE R == OpToRel(<, Nat)
<1>1. IsWellFoundedOn(R, Nat)
  BY NatLessThanWellFounded
<1>2. \A x, y \in Nat : x < y => <<x, y>> \in R
  BY DEF OpToRel
<1> HIDE DEF R
<1>3. \E x \in T : \A y \in T : ~ (<<y, x>> \in R)
  BY <1>1, WFMin, Zenon
<1>4. PICK x \in T : \A y \in T : ~ (<<y, x>> \in R)
  BY <1>3
<1>5. \A y \in T : ~ (y < x)
  BY <1>2, <1>4
<1> QED BY <1>4, <1>5

LEMMA UpTo ==
  ASSUME NEW N \in Nat, NEW S, 0 \in S, \A n \in 0..(N - 1) : n \in S => n + 1 \in S
  PROVE  \A n \in 0..N : n \in S
<1> DEFINE T == {n \in 0..N : n \notin S}
<1>1. SUFFICES ASSUME T # {} PROVE FALSE
  OBVIOUS
<1>a. T \subseteq Nat
  OBVIOUS
<1>2. PICK x \in T : \A y \in T : x <= y
  <2> HIDE DEF T
  <2> QED BY <1>1, <1>a, LeastNumber
<1>3. x # 0 /\ x - 1 \in 0..(N - 1) /\ x - 1 \notin T
  BY <1>2
<1>4. x - 1 \in S /\ (x - 1) + 1 = x
  BY <1>3
<1> QED BY <1>2, <1>3, <1>4

\* A set of numbers with a bound has a greatest element.
LEMMA GreatestNumber ==
  ASSUME NEW N \in Nat, NEW T, T \subseteq 0..N, T # {}
  PROVE  \E x \in T : \A y \in T : y <= x
<1> DEFINE D == {d \in 0..N : N - d \in T}
<1>1. \A y \in T : N - y \in 0..N /\ N - (N - y) = y
  OBVIOUS
<1>2. \A y \in T : N - y \in D
  BY <1>1
<1>3. D \subseteq Nat /\ D # {}
  <2>1. D \subseteq Nat
    OBVIOUS
  <2>2. PICK y \in T : TRUE
    OBVIOUS
  <2>3. N - y \in D
    BY <1>2, <2>2
  <2> HIDE DEF D
  <2> QED BY <2>1, <2>3
<1>4. PICK d \in D : \A c \in D : d <= c
  <2> HIDE DEF D
  <2> QED BY <1>3, LeastNumber
<1>5. \A y \in T : d <= N - y
  BY <1>2, <1>4
<1>6. \A y \in T : y <= N - d
  BY <1>4, <1>5
<1> QED BY <1>4, <1>6

-----------------------------------------------------------------------------
(* The operators of the index.                                             *)

LEMMA EventFacts ==
  /\ \A w \in Wavs : \A t \in 0..Texts[w] : <<w, t>> \in Events /\ t \in TextNumbers
  /\ \A w \in Wavs : <<w, 0>> \in Events
  /\ \A w \in Wavs : \A t \in 1..Texts[w] : <<w, t>> \in Events /\ <<w, t>> # <<w, 0>>
  /\ \A e \in Events : e[1] \in Wavs /\ e[2] \in 0..Texts[e[1]] /\ e = <<e[1], e[2]>>
  /\ TextNumbers \subseteq Nat /\ \A w \in Wavs : Texts[w] \in Nat /\ 0 \in TextNumbers
<1>1. \A w \in Wavs : Texts[w] \in Nat
  BY RecordingsAssumption
<1>2. \A w \in Wavs : \A t \in 0..Texts[w] : <<w, t>> \in Events
  BY DEF Events
<1>3. \A e \in Events : e[1] \in Wavs /\ e[2] \in 0..Texts[e[1]] /\ e = <<e[1], e[2]>>
  BY DEF Events
<1>4. ASSUME NEW w \in Wavs, NEW t \in 0..Texts[w] PROVE t \in TextNumbers
  <2>1. <<w, t>> \in Events /\ <<w, t>>[2] = t
    BY <1>2
  <2> QED BY <2>1, Zenon DEF TextNumbers
<1>5. TextNumbers \subseteq Nat
  BY <1>1, <1>3 DEF TextNumbers
<1>6. ASSUME NEW w \in Wavs
      PROVE  0 \in 0..Texts[w] /\ \A t \in 1..Texts[w] : t \in 0..Texts[w] /\ t # 0
  <2>1. Texts[w] \in Nat
    BY <1>1
  <2> QED BY <2>1
<1>7. ASSUME NEW w \in Wavs, NEW t \in 1..Texts[w]
      PROVE  <<w, t>> \in Events /\ <<w, t>> # <<w, 0>>
  <2>1. t \in 0..Texts[w] /\ t # 0
    BY <1>6
  <2>2. <<w, t>>[2] # <<w, 0>>[2]
    BY <2>1
  <2> QED BY <1>2, <2>1, <2>2
<1> QED BY <1>1, <1>2, <1>3, <1>4, <1>5, <1>6, <1>7

\* The event gives its recording a text.
Effective(e) == e[2] # 0 /\ (mode = "full" \/ e \notin Unwritable)

\* A recording without text, or not there, counts as text 0.
TextOf(x) == IF x = Absent THEN 0 ELSE x

\* What apply does to each recording.
LEMMA AppliedFacts ==
  ASSUME NEW r \in [Wavs -> Content], NEW e \in Events
  PROVE  /\ Applied(r, e) \in [Wavs -> Content]
         /\ \A w \in Wavs : w # e[1] => Applied(r, e)[w] = r[w]
         /\ \A w \in Wavs : r[w] # Absent => Applied(r, e)[w] # Absent
         /\ r[e[1]] = Absent /\ Beyond(e[1]) => Applied(r, e)[e[1]] = Absent
         /\ ~ (r[e[1]] = Absent /\ Beyond(e[1])) =>
               /\ Applied(r, e)[e[1]] # Absent
               /\ Effective(e) => Applied(r, e)[e[1]] = e[2]
               /\ ~ Effective(e) => Applied(r, e)[e[1]] = TextOf(r[e[1]])
<1>1. e[1] \in Wavs /\ e[2] \in TextNumbers /\ e[2] \in Nat /\ 0 \in TextNumbers
  BY EventFacts DEF TextNumbers
<1>2. Absent = -1 /\ Absent \notin TextNumbers
  BY EventFacts DEF Absent
<1>3. CASE r[e[1]] = Absent /\ Beyond(e[1])
  BY <1>1, <1>3 DEF Applied
<1>4. CASE ~ (r[e[1]] = Absent /\ Beyond(e[1]))
  <2>1. CASE Effective(e)
    <3>1. Applied(r, e) = [r EXCEPT ![e[1]] = e[2]]
      BY <1>4, <2>1 DEF Applied, Effective
    <3> QED BY <1>1, <1>2, <1>4, <2>1, <3>1 DEF Content
  <2>2. CASE ~ Effective(e)
    <3>1. Applied(r, e) = [r EXCEPT ![e[1]] = IF @ = Absent THEN 0 ELSE @]
      BY <1>4, <2>2 DEF Applied, Effective
    <3> QED BY <1>1, <1>2, <1>4, <2>2, <3>1 DEF Content, TextOf
  <2> QED BY <2>1, <2>2
<1> QED BY <1>3, <1>4

\* The function by which Replayed applies events one after another exists.
LEMMA ReplayDefined ==
  ASSUME NEW r \in [Wavs -> Content], NEW es \in Seq(Events)
  PROVE  \E g \in [0..Len(es) -> [Wavs -> Content]] :
            /\ g[0] = r
            /\ \A n \in 1..Len(es) : g[n] = Applied(g[n - 1], es[n])
            /\ Replayed(r, es) = g[Len(es)]
<1> DEFINE Body(g, N) == [n \in 0..N |-> IF n = 0 THEN r ELSE Applied(g[n - 1], es[n])]
           S == {N \in 0..Len(es) : \E g \in [0..N -> [Wavs -> Content]] : g = Body(g, N)}
<1>1. 0 \in S
  <2> DEFINE h == [n \in 0..0 |-> r]
  <2>1. h \in [0..0 -> [Wavs -> Content]] /\ h = Body(h, 0)
    OBVIOUS
  <2>2. 0 \in 0..Len(es)
    OBVIOUS
  <2> QED BY <2>1, <2>2
<1>2. ASSUME NEW N \in 0..(Len(es) - 1), N \in S
      PROVE  N + 1 \in S
  <2>1. PICK g \in [0..N -> [Wavs -> Content]] : g = Body(g, N)
    BY <1>2
  <2>2. es[N + 1] \in Events /\ N + 1 \in 0..Len(es) /\ Len(es) \in Nat
    BY <1>2
  <2> DEFINE h == [n \in 0..(N + 1) |-> IF n = N + 1 THEN Applied(g[N], es[N + 1]) ELSE g[n]]
  <2>3. h \in [0..(N + 1) -> [Wavs -> Content]]
    <3>1. N \in 0..N /\ g[N] \in [Wavs -> Content]
      BY <2>1
    <3>2. Applied(g[N], es[N + 1]) \in [Wavs -> Content]
      BY <2>2, <3>1, AppliedFacts
    <3>3. \A n \in 0..(N + 1) : n # N + 1 => n \in 0..N
      OBVIOUS
    <3> QED BY <3>2, <3>3
  <2>4. ASSUME NEW n \in 0..(N + 1)
        PROVE  h[n] = IF n = 0 THEN r ELSE Applied(h[n - 1], es[n])
    <3>1. CASE n = N + 1
      <4>1. n # 0 /\ n - 1 = N /\ N \in 0..(N + 1) /\ N # N + 1
        BY <3>1, <2>2
      <4> QED BY <4>1, <3>1
    <3>2. CASE n = 0
      BY <3>2, <2>1, <2>2
    <3>3. CASE n # N + 1 /\ n # 0
      <4>1. n \in 0..N /\ n - 1 \in 0..(N + 1) /\ n - 1 # N + 1
        BY <3>3, <2>2
      <4>2. g[n] = Applied(g[n - 1], es[n])
        BY <2>1, <3>3, <4>1
      <4> QED BY <3>3, <4>1, <4>2
    <3> QED BY <3>1, <3>2, <3>3
  <2>5. h = Body(h, N + 1)
    BY <2>4
  <2> QED BY <2>2, <2>3, <2>5
<1>3. Len(es) \in Nat
  OBVIOUS
<1>4. Len(es) \in S
  <2> HIDE DEF S
  <2>1. \A n \in 0..(Len(es) - 1) : n \in S => n + 1 \in S
    BY <1>2
  <2>2. \A n \in 0..Len(es) : n \in S
    BY <1>1, <1>3, <2>1, UpTo
  <2> QED BY <1>3, <2>2
<1>5. \E g : g = Body(g, Len(es))
  BY <1>4
<1> DEFINE f == CHOOSE g : g = Body(g, Len(es))
<1>6. f = Body(f, Len(es))
  BY <1>5
<1>7. Replayed(r, es) = f[Len(es)]
  BY DEF Replayed
<1> HIDE DEF f
<1>8. PICK g \in [0..Len(es) -> [Wavs -> Content]] : g = Body(g, Len(es))
  BY <1>4
<1>9. \A n \in 0..Len(es) : n \in {m \in 0..Len(es) : f[m] = g[m]}
  <2> DEFINE E == {m \in 0..Len(es) : f[m] = g[m]}
  <2>1. 0 \in E
    BY <1>3, <1>6, <1>8
  <2>2. \A n \in 0..(Len(es) - 1) : n \in E => n + 1 \in E
    <3> TAKE n \in 0..(Len(es) - 1)
    <3> HAVE n \in E
    <3>1. n + 1 \in 0..Len(es) /\ n + 1 # 0 /\ (n + 1) - 1 = n
      BY <1>3
    <3>2. f[n + 1] = Applied(f[n], es[n + 1])
      BY <1>6, <3>1
    <3>3. g[n + 1] = Applied(g[n], es[n + 1])
      BY <1>8, <3>1
    <3> QED BY <3>1, <3>2, <3>3
  <2> HIDE DEF E
  <2>3. \A n \in 0..Len(es) : n \in E
    BY <1>3, <2>1, <2>2, UpTo
  <2> QED BY <2>3 DEF E
<1>10. g[0] = r /\ \A n \in 1..Len(es) : g[n] = Applied(g[n - 1], es[n])
  BY <1>3, <1>8
<1>11. Replayed(r, es) = g[Len(es)]
  BY <1>3, <1>7, <1>9
<1> QED BY <1>8, <1>10, <1>11

\* Where the replay of these events puts w: what it had, or what the last of them
\* to give it a text says; and w is in the index if it was or some event names it,
\* a recording beyond the window apart.
LEMMA ReplayFacts ==
  ASSUME NEW r \in [Wavs -> Content], NEW es \in Seq(Events), NEW w \in Wavs
  PROVE  /\ Replayed(r, es) \in [Wavs -> Content]
         /\ r[w] # Absent \/ (\E i \in 1..Len(es) : es[i][1] = w) =>
               Replayed(r, es)[w] # Absent \/ Beyond(w)
         /\ r[w] = Absent /\ Beyond(w) => Replayed(r, es)[w] = Absent
         /\ Replayed(r, es)[w] # Absent => r[w] # Absent \/ (\E i \in 1..Len(es) : es[i][1] = w)
         /\ \/ Replayed(r, es)[w] = Absent /\ Beyond(w)
            \/ /\ \A i \in 1..Len(es) : es[i][1] = w => ~ Effective(es[i])
               /\ TextOf(Replayed(r, es)[w]) = TextOf(r[w])
            \/ \E i \in 1..Len(es) :
                  /\ es[i][1] = w /\ Effective(es[i]) /\ Replayed(r, es)[w] = es[i][2]
                  /\ \A j \in 1..Len(es) : es[j][1] = w /\ Effective(es[j]) => j <= i
<1>1. PICK g \in [0..Len(es) -> [Wavs -> Content]] :
         /\ g[0] = r
         /\ \A n \in 1..Len(es) : g[n] = Applied(g[n - 1], es[n])
         /\ Replayed(r, es) = g[Len(es)]
  BY ReplayDefined, Zenon
<1> DEFINE Named(n) == \E i \in 1..n : es[i][1] = w
           Listed1(n) == r[w] # Absent \/ Named(n) => g[n][w] # Absent \/ Beyond(w)
           Listed2(n) == g[n][w] # Absent => r[w] # Absent \/ Named(n)
           Left(n) == r[w] = Absent /\ Beyond(w) => g[n][w] = Absent
           Untold(n) == \A i \in 1..n : es[i][1] = w => ~ Effective(es[i])
           Told(n) == \E i \in 1..n :
                         /\ es[i][1] = w /\ Effective(es[i]) /\ g[n][w] = es[i][2]
                         /\ \A j \in 1..n : es[j][1] = w /\ Effective(es[j]) => j <= i
           Text(n) == \/ g[n][w] = Absent /\ Beyond(w)
                      \/ Untold(n) /\ TextOf(g[n][w]) = TextOf(r[w])
                      \/ Told(n)
           S == {n \in 0..Len(es) : Listed1(n) /\ Listed2(n) /\ Left(n) /\ Text(n)}
<1>2. 0 \in S
  BY <1>1
<1>3. ASSUME NEW n \in 0..(Len(es) - 1), n \in S
      PROVE  n + 1 \in S
  <2>1. n + 1 \in 1..Len(es) /\ es[n + 1] \in Events /\ n \in 0..Len(es) /\ (n + 1) - 1 = n
    BY <1>3
  <2>2. g[n] \in [Wavs -> Content] /\ g[n + 1] = Applied(g[n], es[n + 1])
    BY <1>1, <2>1
  <2>3. \A i : i \in 1..(n + 1) <=> i \in 1..n \/ i = n + 1
    BY <2>1
  <2>4. Listed1(n) /\ Listed2(n) /\ Left(n) /\ Text(n)
    BY <1>3
  <2>5. CASE es[n + 1][1] # w
    <3>1. g[n + 1][w] = g[n][w]
      BY <2>1, <2>2, <2>5, AppliedFacts
    <3>2. Named(n + 1) <=> Named(n)
      BY <2>3, <2>5
    <3>3. Untold(n + 1) <=> Untold(n)
      BY <2>3, <2>5
    <3>4. Told(n) => Told(n + 1)
      BY <2>3, <2>5, <3>1
    <3>5. Listed1(n + 1) /\ Listed2(n + 1) /\ Left(n + 1) /\ Text(n + 1)
      <4> HIDE DEF Named, Untold, Told
      <4> QED BY <2>4, <3>1, <3>2, <3>3, <3>4
    <3> QED BY <2>1, <3>5
  <2>6. CASE es[n + 1][1] = w
    <3>1. Named(n + 1)
      BY <2>3, <2>6
    <3>7. Left(n + 1)
      <4>1. ASSUME g[n][w] = Absent, Beyond(w) PROVE g[n + 1][w] = Absent
        <5>1. g[n][es[n + 1][1]] = Absent /\ Beyond(es[n + 1][1])
          BY <2>6, <4>1
        <5>2. Applied(g[n], es[n + 1])[es[n + 1][1]] = Absent
          BY <2>1, <2>2, <5>1, AppliedFacts
        <5> QED BY <2>2, <2>6, <5>2
      <4> QED BY <2>4, <4>1
    <3>2. Listed1(n + 1) /\ Listed2(n + 1) /\ Left(n + 1)
      <4>1. ASSUME ~ Beyond(w) PROVE g[n + 1][w] # Absent
        <5>1. ~ (g[n][es[n + 1][1]] = Absent /\ Beyond(es[n + 1][1]))
          BY <2>6, <4>1
        <5>2. Applied(g[n], es[n + 1])[es[n + 1][1]] # Absent
          BY <2>1, <2>2, <5>1, AppliedFacts
        <5> QED BY <2>2, <2>6, <5>2
      <4> QED BY <3>1, <3>7, <4>1
    <3>3. CASE g[n][w] = Absent /\ Beyond(w)
      <4>1. g[n + 1][w] = Absent
        BY <2>1, <2>2, <2>6, <3>3, AppliedFacts
      <4> QED BY <2>1, <3>2, <3>3, <4>1
    <3>4. CASE ~ (g[n][w] = Absent /\ Beyond(w)) /\ Effective(es[n + 1])
      <4>1. g[n + 1][w] = es[n + 1][2]
        BY <2>1, <2>2, <2>6, <3>4, AppliedFacts
      <4>2. \A j \in 1..(n + 1) : j <= n + 1
        BY <2>1
      <4>3. Told(n + 1)
        BY <2>1, <2>3, <2>6, <3>4, <4>1, <4>2
      <4> HIDE DEF Listed1, Listed2, Left, Told
      <4> QED BY <2>1, <3>2, <4>3
    <3>5. CASE ~ (g[n][w] = Absent /\ Beyond(w)) /\ ~ Effective(es[n + 1])
      <4>1. g[n + 1][w] = TextOf(g[n][w])
        BY <2>1, <2>2, <2>6, <3>5, AppliedFacts
      <4>2. TextOf(g[n + 1][w]) = TextOf(g[n][w])
        BY <4>1, EventFacts DEF TextOf, Absent
      <4>3. Untold(n) => Untold(n + 1)
        BY <2>3, <3>5
      <4>4. ASSUME Told(n) PROVE Told(n + 1)
        <5>1. PICK i \in 1..n : /\ es[i][1] = w /\ Effective(es[i]) /\ g[n][w] = es[i][2]
                                /\ \A j \in 1..n : es[j][1] = w /\ Effective(es[j]) => j <= i
          BY <4>4
        <5>2. es[i] \in Events
          BY <2>1
        <5>3. es[i][2] # Absent
          BY <5>2, EventFacts DEF Absent
        <5>4. g[n + 1][w] = es[i][2]
          BY <4>1, <5>1, <5>3 DEF TextOf
        <5>5. \A j \in 1..(n + 1) : es[j][1] = w /\ Effective(es[j]) => j <= i
          BY <2>3, <3>5, <5>1
        <5>6. i \in 1..(n + 1)
          BY <2>3, <5>1
        <5> QED BY <5>1, <5>4, <5>5, <5>6
      <4>5. Text(n + 1)
        <5> HIDE DEF Untold, Told
        <5> QED BY <2>4, <3>5, <4>2, <4>3, <4>4
      <4> HIDE DEF Listed1, Listed2, Left, Text
      <4> QED BY <2>1, <3>2, <4>5
    <3> QED BY <3>3, <3>4, <3>5
  <2> QED BY <2>5, <2>6
<1>4. Len(es) \in Nat
  OBVIOUS
<1>5. \A n \in 0..Len(es) : n \in S
  <2> HIDE DEF S
  <2>1. \A n \in 0..(Len(es) - 1) : n \in S => n + 1 \in S
    BY <1>3
  <2> QED BY <1>2, <1>4, <2>1, UpTo
<1>6. Listed1(Len(es)) /\ Listed2(Len(es)) /\ Left(Len(es)) /\ Text(Len(es))
  BY <1>4, <1>5
<1> QED BY <1>1, <1>4, <1>6

-----------------------------------------------------------------------------
(* The inductive invariant.                                                *)

Typed ==
    /\ TypeOK
    /\ build = "none" <=> gen = 0
    /\ \A i \in 1..Len(pending) : pending[i][1] \in disk

\* The transcripts of a recording are begun one after the other, and unless two
\* have been published at once each is over before the next begins.
InTurn ==
    \A w \in Wavs : \A t, u \in 1..Texts[w] : t < u =>
        /\ task[<<w, u>>] # "none" => task[<<w, t>>] # "none"
        /\ w \notin raced /\ task[<<w, t>>] \in InFlight => task[<<w, u>>] = "none"

\* So the log's line of a transcript stays the latest while it is on its way to
\* the index, and no later one is older.
InLog ==
    /\ \A e \in Events : task[e] # "none" => e[1] \in disk
    /\ \A w \in Wavs : logged[w] # 0 => w \in disk
    /\ \A w \in Wavs \ raced : \A t \in 1..Texts[w] : <<w, t>> \notin Unwritable =>
          /\ task[<<w, t>>] \in {"lookup", "apply"} => logged[w] = t
          /\ task[<<w, t>>] = "done" => t <= logged[w]

\* The event will be in the entry that is registered.
Coming(e) == task[e] = "lookup" \/ (task[e] = "apply" /\ found[e] = gen)

\* Once the folder has been read, each recording is in what the build has of it, or
\* none of its events has passed the entry by.
Known(w) ==
    \/ Beyond(w)
    \/ build = "swap" /\ (w \in names \/ \E i \in 1..Len(pending) : pending[i][1] = w)
    \/ build = "done" /\ recs[w] # Absent

ToCome(w) ==
    /\ \A e \in Events : e[1] = w => task[e] \in {"none", "log"} \/ Coming(e)
    /\ w \in restored \/ task[<<w, 0>>] # "none"

Listed == build \in {"swap", "done"} => \A w \in disk : Known(w) \/ ToCome(w)

\* The log is read before the folder: a text belongs to a name.
LinesRead ==
    \A w \in Wavs : lines[w] # 0 =>
        /\ build \in {"dir", "swap"} => w \in disk
        /\ build = "swap" => w \in names \/ Beyond(w)

\* x is as late a text of w as the index needs to have: none that was logged and
\* published is later, and it is the one in the log, unless a later one will come
\* or x itself could not be logged.
Current(x, w) ==
    \/ blind /\ x = 0
    \/ /\ \A t \in 1..Texts[w] : task[<<w, t>>] = "done" /\ <<w, t>> \notin Unwritable => t <= x
       /\ \/ \E t \in 1..Texts[w] : Effective(<<w, t>>) /\ Coming(<<w, t>>)
          \/ x = logged[w]
          \/ /\ mode = "full" /\ x # 0 /\ <<w, x>> \in Unwritable
             /\ \A t \in 1..Texts[w] : x < t => task[<<w, t>>] \in {"none", "log"}

\* The events in the pending list that give w a text.
Held(w) == {i \in 1..Len(pending) : pending[i][1] = w /\ Effective(pending[i])}

\* The text of w in the index, or the one it will have when the build is over.
TextCurrent(w) ==
    /\ build = "done" => (recs[w] = Absent /\ Beyond(w)) \/ Current(TextOf(recs[w]), w)
    /\ build \in {"dir", "swap"} /\ Held(w) = {} => Current(lines[w], w)
    /\ build \in {"log", "dir", "swap"} =>
          \A i \in Held(w) : (\A j \in Held(w) : j <= i) => Current(pending[i][2], w)

TextsCurrent == \A w \in Wavs \ raced : TextCurrent(w)

\* What a request has to be told is published and logged, and a scan has read it.
Due ==
    \A w \in Wavs : due[w] # Absent =>
        <<w, due[w]>> \in Events \ Unwritable /\ task[<<w, due[w]>>] = "done"

LogScanned == rpc = "dir" => \A w \in Wavs \ raced : due[w] <= rlog[w]

PublishInv == InTurn /\ InLog
IndexInv == Listed /\ LinesRead /\ TextsCurrent
RequestInv == Due /\ LogScanned /\ HistoryComplete

IInv == Typed /\ PublishInv /\ IndexInv /\ RequestInv

LEMMA InitIInv == Init => IInv
<1> SUFFICES ASSUME Init PROVE IInv
  OBVIOUS
<1> USE DEF Init
<1>1. 0 \in TextNumbers \/ Wavs = {}
  BY EventFacts
<1>2. [w \in Wavs |-> 0] \in [Wavs -> TextNumbers] /\ [w \in Wavs |-> Absent] \in [Wavs -> Content]
  BY <1>1 DEF Content
<1>3. TypeOK
  <2>1. task \in [Events -> InFlight \cup {"none", "done", "lost"}]
    BY DEF InFlight
  <2>2. found \in [Events -> 0..MaxGens] /\ gen \in 0..made /\ made \in 1..MaxGens
    BY RecordingsAssumption
  <2>3. pending \in Seq(Events)
    OBVIOUS
  <2> QED BY <1>2, <2>1, <2>2, <2>3 DEF TypeOK
<1>4. Typed
  BY <1>3 DEF Typed
<1>5. PublishInv
  BY EventFacts DEF PublishInv, InTurn, InLog, InFlight
<1>6. IndexInv
  BY DEF IndexInv, Listed, LinesRead, TextsCurrent, TextCurrent, Held
<1>7. RequestInv
  BY DEF RequestInv, Due, LogScanned, HistoryComplete
<1> QED BY <1>4, <1>5, <1>6, <1>7 DEF IInv

-----------------------------------------------------------------------------
(* What leaves the parts of the invariant alone.                           *)

LEMMA CurrentStays ==
  ASSUME NEW w, NEW x, Current(x, w), logged'[w] = logged[w], mode' = mode, blind => blind',
         \A t \in 1..Texts[w] : /\ task'[<<w, t>>] = "done" => task[<<w, t>>] = "done"
                                /\ task[<<w, t>>] \in {"none", "log"} => task'[<<w, t>>] \in {"none", "log"},
         \A t \in 1..Texts[w] : Coming(<<w, t>>) => (Coming(<<w, t>>))'
  PROVE  (Current(x, w))'
<1>1. CASE blind /\ x = 0
  BY <1>1 DEF Current
<1>2. CASE ~ (blind /\ x = 0)
  <2>1. \A t \in 1..Texts[w] : Effective(<<w, t>>) => (Effective(<<w, t>>))'
    BY DEF Effective
  <2> HIDE DEF Coming, Effective
  <2> QED BY <1>2, <2>1 DEF Current
<1> QED BY <1>1, <1>2

LEMMA TextStays ==
  ASSUME NEW w, TextCurrent(w), UNCHANGED <<build, recs, pending, lines, mode>>,
         Beyond(w) => Beyond(w)',
         \A x : Current(x, w) => (Current(x, w))'
  PROVE  TextCurrent(w)'
<1>1. Held(w)' = Held(w)
  BY DEF Held, Effective
<1> HIDE DEF Held, Current, Beyond
<1> QED BY <1>1 DEF TextCurrent

\* Publishing as such is about the tasks and the log.
LEMMA PublishStays ==
  ASSUME PublishInv, UNCHANGED <<task, logged, raced>>, disk \subseteq disk'
  PROVE  PublishInv'
BY DEF PublishInv, InTurn, InLog

LEMMA IndexStays ==
  ASSUME IndexInv, UNCHANGED <<disk, logged, old, mode, restored, task, found, raced, build, lines,
                               names, blind, gen, recs, pending>>
  PROVE  IndexInv'
<1>1. Listed' /\ LinesRead'
  BY DEF IndexInv, Listed, LinesRead, Known, ToCome, Coming, Beyond
<1>2. TextsCurrent'
  <2> SUFFICES ASSUME NEW w \in Wavs \ raced PROVE TextCurrent(w)'
    BY DEF TextsCurrent
  <2>1. \A x : Current(x, w) => (Current(x, w))'
    BY CurrentStays DEF Coming
  <2>2. TextCurrent(w) /\ (Beyond(w) => Beyond(w)')
    BY DEF IndexInv, TextsCurrent, Beyond
  <2> QED BY <2>1, <2>2, TextStays
<1> QED BY <1>1, <1>2 DEF IndexInv

LEMMA RequestStays ==
  ASSUME RequestInv, UNCHANGED <<rpc, since, rlog, answer, due, task>>, old \subseteq old',
         raced \subseteq raced', blind => blind'
  PROVE  RequestInv'
BY DEF RequestInv, Due, LogScanned, HistoryComplete

-----------------------------------------------------------------------------
(* The build.                                                              *)

LEMMA ReadLinesStep ==
  ASSUME IInv, ReadLines
  PROVE  IInv'
<1> USE DEF storeVars, taskVars, indexVars, requestVars
<1>1. /\ build = "log" /\ build' = "dir" /\ (blind => blind')
      /\ lines' = logged \/ (lines' = [w \in Wavs |-> 0] /\ blind')
      /\ UNCHANGED <<disk, logged, old, mode, restored, task, found, raced, names, gen, made, ready,
                     recs, pending, rpc, since, rlog, answer, due>>
  BY DEF ReadLines, IInv, Typed, TypeOK
<1>2. Typed'
  <2>1. lines' \in [Wavs -> TextNumbers]
    BY <1>1, EventFacts DEF IInv, Typed, TypeOK
  <2>2. blind' \in BOOLEAN
    BY DEF ReadLines, IInv, Typed, TypeOK
  <2> QED BY <1>1, <2>1, <2>2 DEF IInv, Typed, TypeOK
<1>3. PublishInv'
  BY <1>1, PublishStays DEF IInv
<1>4. RequestInv'
  BY <1>1, RequestStays DEF IInv
<1>5. Listed' /\ LinesRead'
  BY <1>1 DEF IInv, IndexInv, PublishInv, InLog, Listed, LinesRead
<1>6. TextsCurrent'
  <2> SUFFICES ASSUME NEW w \in Wavs \ raced PROVE TextCurrent(w)'
    BY <1>1 DEF TextsCurrent
  <2>1. \A x : Current(x, w) => (Current(x, w))'
    BY <1>1, CurrentStays DEF Coming
  <2>2. Held(w)' = Held(w)
    BY <1>1 DEF Held, Effective
  <2>3. (Current(lines[w], w))'
    <3>1. CASE lines' = logged
      <4>1. \A t \in 1..Texts[w] : task[<<w, t>>] = "done" /\ <<w, t>> \notin Unwritable => t <= logged[w]
        BY DEF IInv, PublishInv, InLog
      <4> QED BY <1>1, <3>1, <4>1 DEF Current
    <3>2. CASE lines' = [v \in Wavs |-> 0] /\ blind'
      BY <3>2 DEF Current
    <3> QED BY <1>1, <3>1, <3>2
  <2>4. TextCurrent(w)
    BY DEF IInv, IndexInv, TextsCurrent
  <2> HIDE DEF Held, Current
  <2> QED BY <1>1, <2>1, <2>2, <2>3, <2>4 DEF TextCurrent
<1> QED BY <1>2, <1>3, <1>4, <1>5, <1>6 DEF IInv, IndexInv

LEMMA ReadNamesStep ==
  ASSUME IInv, ReadNames
  PROVE  IInv'
<1> USE DEF storeVars, taskVars, indexVars, requestVars
<1>1. /\ build = "dir" /\ build' \in {"swap", "failed"}
      /\ build' = "swap" => names' = {w \in disk : ~ Beyond(w)}
      /\ build' = "failed" => names' = names
      /\ UNCHANGED <<disk, logged, old, mode, restored, task, found, raced, lines, blind, gen, made,
                     ready, recs, pending, rpc, since, rlog, answer, due>>
  BY DEF ReadNames
<1>2. Typed'
  BY <1>1 DEF IInv, Typed, TypeOK
<1>3. PublishInv'
  BY <1>1, PublishStays DEF IInv
<1>4. RequestInv'
  BY <1>1, RequestStays DEF IInv
<1>5. Listed' /\ LinesRead'
  BY <1>1 DEF IInv, IndexInv, Listed, LinesRead, Known, Beyond
<1>6. TextsCurrent'
  <2> SUFFICES ASSUME NEW w \in Wavs \ raced PROVE TextCurrent(w)'
    BY <1>1 DEF TextsCurrent
  <2>1. \A x : Current(x, w) => (Current(x, w))'
    BY <1>1, CurrentStays DEF Coming
  <2>2. Held(w)' = Held(w)
    BY <1>1 DEF Held, Effective
  <2>3. TextCurrent(w)
    BY DEF IInv, IndexInv, TextsCurrent
  <2> HIDE DEF Held, Current
  <2> QED BY <1>1, <2>1, <2>2, <2>3 DEF TextCurrent
<1> QED BY <1>2, <1>3, <1>4, <1>5, <1>6 DEF IInv, IndexInv

LEMMA SwapStep ==
  ASSUME IInv, Swap
  PROVE  IInv'
<1> USE DEF storeVars, taskVars, requestVars
<1>1. /\ build = "swap" /\ build' = "done"
      /\ recs' = Replayed(Scanned, pending) /\ pending' = <<>> /\ ready'
      /\ lines' = [w \in Wavs |-> 0] /\ names' = {}
      /\ UNCHANGED <<disk, logged, old, mode, restored, task, found, raced, blind, gen, made,
                     rpc, since, rlog, answer, due>>
  BY DEF Swap
<1>2. ready' = TRUE
  BY DEF Swap
<1>3. Scanned \in [Wavs -> Content] /\ pending \in Seq(Events)
  BY DEF IInv, Typed, TypeOK, Scanned, Content
<1>4. \A w \in Wavs : Scanned[w] # Absent => w \in names
  BY DEF Scanned
<1>5. Typed'
  <2>1. recs' \in [Wavs -> Content]
    <3>1. CASE Wavs = {}
      <4>1. PICK g \in [0..Len(pending) -> [Wavs -> Content]] : Replayed(Scanned, pending) = g[Len(pending)]
        BY <1>3, ReplayDefined, Zenon
      <4> QED BY <1>1, <1>3, <4>1
    <3>2. CASE Wavs # {}
      BY <1>1, <1>3, <3>2, ReplayFacts
    <3> QED BY <3>1, <3>2
  <2>2. \A w \in Wavs : recs'[w] # Absent => w \in disk
    <3> TAKE w \in Wavs
    <3> HAVE recs'[w] # Absent
    <3>1. Scanned[w] # Absent \/ \E i \in 1..Len(pending) : pending[i][1] = w
      BY <1>1, <1>3, ReplayFacts
    <3> QED BY <1>4, <3>1 DEF IInv, Typed, TypeOK
  <2>3. pending' \in Seq(Events) /\ lines' \in [Wavs -> TextNumbers]
    BY <1>1, EventFacts
  <2> QED BY <1>1, <1>2, <2>1, <2>2, <2>3 DEF IInv, Typed, TypeOK
<1>6. PublishInv'
  BY <1>1, PublishStays DEF IInv
<1>7. RequestInv'
  BY <1>1, RequestStays DEF IInv
<1>8. Listed'
  <2> SUFFICES ASSUME NEW w \in disk PROVE Known(w)' \/ ToCome(w)'
    BY <1>1 DEF Listed
  <2>1. w \in Wavs
    BY DEF IInv, Typed, TypeOK
  <2>2. CASE Known(w)
    <3>1. CASE Beyond(w)
      BY <1>1, <3>1 DEF Known, Beyond
    <3>2. CASE w \in names \/ \E i \in 1..Len(pending) : pending[i][1] = w
      <4>1. w \in names => Scanned[w] # Absent
        BY <2>1, EventFacts DEF Scanned, Absent, IInv, Typed, TypeOK
      <4>2. recs'[w] # Absent \/ Beyond(w)
        BY <1>1, <1>3, <2>1, <3>2, <4>1, ReplayFacts
      <4> QED BY <1>1, <4>2 DEF Known, Beyond
    <3> QED BY <1>1, <2>2, <3>1, <3>2 DEF Known
  <2>3. CASE ToCome(w)
    BY <1>1, <2>3 DEF ToCome, Coming
  <2> QED BY <1>1, <2>2, <2>3 DEF IInv, IndexInv, Listed
<1>9. TextsCurrent'
  <2> SUFFICES ASSUME NEW w \in Wavs \ raced PROVE TextCurrent(w)'
    BY <1>1 DEF TextsCurrent
  <2>1. \A x : Current(x, w) => (Current(x, w))'
    BY <1>1, CurrentStays DEF Coming
  <2>2. TextCurrent(w)
    BY DEF IInv, IndexInv, TextsCurrent
  <2>3. CASE recs'[w] = Absent /\ Beyond(w)
    BY <1>1, <2>3 DEF TextCurrent, Beyond
  <2>4. CASE /\ \A i \in 1..Len(pending) : pending[i][1] = w => ~ Effective(pending[i])
             /\ TextOf(recs'[w]) = TextOf(Scanned[w])
             /\ ~ (recs'[w] = Absent /\ Beyond(w))
    <3>1. Held(w) = {}
      BY <2>4 DEF Held
    <3>2. Current(lines[w], w)
      BY <1>1, <2>2, <3>1 DEF TextCurrent
    <3>3. TextOf(Scanned[w]) = lines[w]
      <4>1. lines[w] # Absent
        BY EventFacts DEF Absent, IInv, Typed, TypeOK
      <4>2. CASE w \in names
        BY <4>1, <4>2 DEF Scanned, TextOf
      <4>3. CASE w \notin names
        <5>1. Scanned[w] = Absent
          BY <4>3 DEF Scanned
        <5>2. ~ Beyond(w)
          BY <1>1, <1>3, <2>4, <5>1, ReplayFacts
        <5>3. lines[w] = 0
          BY <1>1, <4>3, <5>2 DEF IInv, IndexInv, LinesRead
        <5> QED BY <5>1, <5>3 DEF TextOf
      <4> QED BY <4>2, <4>3
    <3> QED BY <1>1, <2>1, <2>4, <3>2, <3>3 DEF TextCurrent
  <2>5. CASE \E i \in 1..Len(pending) :
                  /\ pending[i][1] = w /\ Effective(pending[i]) /\ recs'[w] = pending[i][2]
                  /\ \A j \in 1..Len(pending) : pending[j][1] = w /\ Effective(pending[j]) => j <= i
    <3>1. PICK i \in 1..Len(pending) :
                  /\ pending[i][1] = w /\ Effective(pending[i]) /\ recs'[w] = pending[i][2]
                  /\ \A j \in 1..Len(pending) : pending[j][1] = w /\ Effective(pending[j]) => j <= i
      BY <2>5
    <3>2. i \in Held(w) /\ \A j \in Held(w) : j <= i
      BY <3>1 DEF Held
    <3>3. Current(pending[i][2], w)
      BY <1>1, <2>2, <3>2 DEF TextCurrent
    <3>4. TextOf(recs'[w]) = pending[i][2]
      BY <1>3, <3>1, EventFacts DEF TextOf, Absent
    <3> QED BY <1>1, <2>1, <3>3, <3>4 DEF TextCurrent
  <2> QED BY <1>1, <1>3, <2>3, <2>4, <2>5, ReplayFacts
<1>10. LinesRead'
  BY <1>1 DEF LinesRead
<1> QED BY <1>5, <1>6, <1>7, <1>8, <1>9, <1>10 DEF IInv, IndexInv

\* A new entry, or none: nothing has been read for it and nothing is pending.
LEMMA NewEntryStep ==
  ASSUME IInv, NEW g \in 0..MaxGens, NewEntry(g), made' \in 1..MaxGens, g <= made',
         UNCHANGED <<disk, logged, old, mode, restored, blind>>
  PROVE  IndexInv' /\ (task' = task /\ found' = found /\ UNCHANGED <<raced, rpc, since, rlog, answer, due>> => IInv')
<1>1. /\ gen' = g /\ ready' = FALSE /\ pending' = <<>> /\ recs' = [w \in Wavs |-> Absent]
      /\ build' = IF g = 0 THEN "none" ELSE "log"
      /\ lines' = [w \in Wavs |-> 0] /\ names' = {}
  BY DEF NewEntry
<1>2. Listed' /\ LinesRead'
  BY <1>1 DEF Listed, LinesRead
<1>3. TextsCurrent'
  BY <1>1 DEF TextsCurrent, TextCurrent, Held
<1>4. ASSUME UNCHANGED <<task, found, raced, rpc, since, rlog, answer, due>>
      PROVE  IInv'
  <2>1. Typed'
    <3>1. pending' \in Seq(Events) /\ lines' \in [Wavs -> TextNumbers] /\ recs' \in [Wavs -> Content]
      BY <1>1, EventFacts DEF Content
    <3>2. /\ gen' \in 0..made' /\ (build' = "none" <=> gen' = 0)
          /\ build' \in {"none", "log"} /\ names' \subseteq disk'
      BY <1>1
    <3>3. TypeOK'
      BY <1>1, <1>4, <3>1, <3>2 DEF IInv, Typed, TypeOK
    <3> QED BY <1>1, <3>2, <3>3 DEF Typed
  <2>2. PublishInv' /\ RequestInv'
    BY <1>4, PublishStays, RequestStays DEF IInv
  <2> QED BY <1>2, <1>3, <2>1, <2>2 DEF IInv, IndexInv
<1> QED BY <1>2, <1>3, <1>4 DEF IndexInv

LEMMA ReloadStep ==
  ASSUME IInv, Forget \/ Track
  PROVE  IInv'
<1> USE RecordingsAssumption DEF storeVars, taskVars, requestVars
<1>1. CASE Forget
  <2>1. 0 \in 0..MaxGens /\ made' \in 1..MaxGens /\ 0 <= made'
    BY <1>1 DEF Forget, IInv, Typed, TypeOK
  <2> QED BY <1>1, <2>1, NewEntryStep DEF Forget
<1>2. CASE Track
  <2>1. made + 1 \in 0..MaxGens /\ made' \in 1..MaxGens /\ made + 1 <= made'
    BY <1>2 DEF Track, IInv, Typed, TypeOK
  <2> QED BY <1>2, <2>1, NewEntryStep DEF Track
<1> QED BY <1>1, <1>2

\* What was being published is lost: the log keeps the lines that were written.
LEMMA RestartStep ==
  ASSUME IInv, Restart
  PROVE  IInv'
<1> USE RecordingsAssumption DEF storeVars
<1>1. /\ made' = made + 1 /\ made < MaxGens /\ NewEntry(made + 1)
      /\ task' = [e \in Events |-> IF task[e] \in InFlight THEN "lost" ELSE task[e]]
      /\ found' = [e \in Events |-> 0]
      /\ rpc' = "idle" /\ rlog' = [w \in Wavs |-> 0]
      /\ UNCHANGED <<disk, logged, old, mode, restored, raced, blind, since, answer, due>>
  BY DEF Restart
<1>2. \A e \in Events : /\ task'[e] \notin InFlight
                        /\ task'[e] = "none" <=> task[e] = "none"
                        /\ task'[e] = "done" <=> task[e] = "done"
  BY <1>1 DEF InFlight, IInv, Typed, TypeOK
<1>3. IndexInv'
  BY <1>1, NewEntryStep DEF IInv, Typed, TypeOK
<1>4. Typed'
  <2>1. pending' \in Seq(Events) /\ lines' \in [Wavs -> TextNumbers] /\ recs' \in [Wavs -> Content]
    BY <1>1, EventFacts DEF NewEntry, Content
  <2>2. task' \in [Events -> InFlight \cup {"none", "done", "lost"}] /\ found' \in [Events -> 0..MaxGens]
    BY <1>1 DEF IInv, Typed, TypeOK, InFlight
  <2>3. rlog' \in [Wavs -> TextNumbers]
    BY <1>1, EventFacts
  <2>4. made \in Nat /\ made' \in 1..MaxGens
    BY <1>1 DEF IInv, Typed, TypeOK
  <2>5. /\ gen' \in 0..made' /\ gen' # 0 /\ build' = "log" /\ names' \subseteq disk'
        /\ ready' = FALSE /\ pending' = <<>> /\ recs' = [w \in Wavs |-> Absent]
    BY <1>1, <2>4 DEF NewEntry
  <2>6. TypeOK'
    BY <1>1, <2>1, <2>2, <2>3, <2>4, <2>5 DEF IInv, Typed, TypeOK
  <2> QED BY <2>5, <2>6 DEF Typed
<1>5. PublishInv'
  <2>1. \A w \in Wavs : \A t \in 1..Texts[w] : <<w, t>> \in Events
    BY EventFacts
  <2>2. InTurn'
    BY <1>1, <1>2, <2>1 DEF IInv, PublishInv, InTurn
  <2>3. InLog'
    BY <1>1, <1>2, <2>1 DEF IInv, PublishInv, InLog, InFlight
  <2> QED BY <2>2, <2>3 DEF PublishInv
<1>6. RequestInv'
  BY <1>1, <1>2 DEF IInv, RequestInv, Due, LogScanned, HistoryComplete
<1> QED BY <1>3, <1>4, <1>5, <1>6 DEF IInv

-----------------------------------------------------------------------------
(* The folder.                                                             *)

LEMMA SaveStep ==
  ASSUME IInv, NEW v \in Wavs, Save(v)
  PROVE  IInv'
<1> USE DEF buildVars, indexVars, requestVars
<1>1. /\ v \notin disk /\ disk' = disk \cup {v} /\ task' = [task EXCEPT ![<<v, 0>>] = "log"]
      /\ UNCHANGED <<logged, old, mode, restored, found, raced, build, lines, names, blind, gen, made,
                     ready, recs, pending, rpc, since, rlog, answer, due>>
  BY DEF Save
<1>2. <<v, 0>> \in Events /\ \A w \in Wavs : \A t \in 1..Texts[w] : <<w, t>> \in Events /\ <<w, t>> # <<v, 0>>
  BY EventFacts
<1>3. \A e \in Events : e[1] = v => task[e] = "none"
  BY <1>1 DEF IInv, PublishInv, InLog, Typed, TypeOK
<1>4. task'[<<v, 0>>] = "log" /\ \A e \in Events : e # <<v, 0>> => task'[e] = task[e]
  BY <1>1, <1>2 DEF IInv, Typed, TypeOK
<1>5. Typed'
  BY <1>1, <1>2 DEF IInv, Typed, TypeOK, InFlight
<1>6. PublishInv'
  <2>1. InTurn'
    BY <1>1, <1>2, <1>4 DEF IInv, PublishInv, InTurn
  <2>2. InLog'
    BY <1>1, <1>2, <1>4 DEF IInv, PublishInv, InLog
  <2> QED BY <2>1, <2>2 DEF PublishInv
<1>7. RequestInv'
  <2>1. Due'
    BY <1>1, <1>3, <1>4 DEF IInv, RequestInv, Due
  <2> QED BY <1>1, <2>1 DEF IInv, RequestInv, LogScanned, HistoryComplete
<1>8. Listed' /\ LinesRead'
  <2>1. LinesRead'
    BY <1>1 DEF IInv, IndexInv, LinesRead, Beyond
  <2>2. ASSUME NEW w \in disk', build \in {"swap", "done"} PROVE Known(w)' \/ ToCome(w)'
    <3>1. CASE w = v
      BY <1>1, <1>2, <1>3, <1>4, <3>1 DEF ToCome, Coming
    <3>2. CASE w # v
      <4>1. Known(w) \/ ToCome(w)
        BY <1>1, <2>2, <3>2 DEF IInv, IndexInv, Listed
      <4>2. Known(w) => Known(w)'
        BY <1>1 DEF Known, Beyond
      <4>3. ToCome(w) => ToCome(w)'
        <5>1. <<w, 0>> \in Events
          BY <1>1, <3>2, EventFacts DEF IInv, Typed, TypeOK
        <5> QED BY <1>1, <1>4, <3>2, <5>1 DEF ToCome, Coming
      <4> QED BY <4>1, <4>2, <4>3
    <3> QED BY <3>1, <3>2
  <2> QED BY <1>1, <2>1, <2>2 DEF Listed
<1>9. TextsCurrent'
  <2> SUFFICES ASSUME NEW w \in Wavs \ raced PROVE TextCurrent(w)'
    BY <1>1 DEF TextsCurrent
  <2>1. \A x : Current(x, w) => (Current(x, w))'
    <3> TAKE x
    <3> HAVE Current(x, w)
    <3>1. \A t \in 1..Texts[w] : task'[<<w, t>>] = task[<<w, t>>]
      BY <1>2, <1>4
    <3>2. \A t \in 1..Texts[w] : Coming(<<w, t>>) => (Coming(<<w, t>>))'
      BY <1>1, <3>1 DEF Coming
    <3> QED BY <1>1, <3>1, <3>2, CurrentStays
  <2>2. TextCurrent(w)
    BY DEF IInv, IndexInv, TextsCurrent
  <2>3. Beyond(w) => Beyond(w)'
    BY <1>1 DEF Beyond
  <2> QED BY <1>1, <2>1, <2>2, <2>3, TextStays
<1> QED BY <1>5, <1>6, <1>7, <1>8, <1>9 DEF IInv, IndexInv

LEMMA RestoreStep ==
  ASSUME IInv, NEW v \in Wavs, Restore(v)
  PROVE  IInv'
<1> USE DEF taskVars, buildVars, indexVars, requestVars
<1>1. /\ v \notin disk /\ disk' = disk \cup {v} /\ restored' = restored \cup {v}
      /\ UNCHANGED <<logged, old, mode, task, found, raced, build, lines, names, blind, gen, made,
                     ready, recs, pending, rpc, since, rlog, answer, due>>
  BY DEF Restore
<1>2. \A e \in Events : e[1] = v => task[e] = "none"
  BY <1>1 DEF IInv, PublishInv, InLog, Typed, TypeOK
<1>3. Typed'
  BY <1>1 DEF IInv, Typed, TypeOK
<1>4. PublishInv' /\ RequestInv'
  BY <1>1, PublishStays, RequestStays DEF IInv
<1>5. Listed' /\ LinesRead'
  BY <1>1, <1>2 DEF IInv, IndexInv, Listed, LinesRead, Known, ToCome, Coming, Beyond
<1>6. TextsCurrent'
  <2> SUFFICES ASSUME NEW w \in Wavs \ raced PROVE TextCurrent(w)'
    BY <1>1 DEF TextsCurrent
  <2>1. \A x : Current(x, w) => (Current(x, w))'
    BY <1>1, CurrentStays DEF Coming
  <2>2. TextCurrent(w)
    BY DEF IInv, IndexInv, TextsCurrent
  <2>3. Beyond(w) => Beyond(w)'
    BY <1>1 DEF Beyond
  <2> QED BY <1>1, <2>1, <2>2, <2>3, TextStays
<1> QED BY <1>3, <1>4, <1>5, <1>6 DEF IInv, IndexInv

LEMMA AgeOutStep ==
  ASSUME IInv, NEW v \in Wavs, AgeOut(v)
  PROVE  IInv'
<1> USE DEF taskVars, buildVars, indexVars, requestVars
<1>1. /\ v \in disk /\ old' = old \cup {v}
      /\ UNCHANGED <<disk, logged, mode, restored, task, found, raced, build, lines, names, blind, gen,
                     made, ready, recs, pending, rpc, since, rlog, answer, due>>
  BY DEF AgeOut
<1>2. Typed'
  BY <1>1 DEF IInv, Typed, TypeOK
<1>3. PublishInv' /\ RequestInv'
  BY <1>1, PublishStays, RequestStays DEF IInv
<1>4. Listed' /\ LinesRead'
  BY <1>1 DEF IInv, IndexInv, Listed, LinesRead, Known, ToCome, Coming, Beyond
<1>5. TextsCurrent'
  <2> SUFFICES ASSUME NEW w \in Wavs \ raced PROVE TextCurrent(w)'
    BY <1>1 DEF TextsCurrent
  <2>1. \A x : Current(x, w) => (Current(x, w))'
    BY <1>1, CurrentStays DEF Coming
  <2>2. TextCurrent(w)
    BY DEF IInv, IndexInv, TextsCurrent
  <2>3. Beyond(w) => Beyond(w)'
    BY <1>1 DEF Beyond
  <2> QED BY <1>1, <2>1, <2>2, <2>3, TextStays
<1> QED BY <1>2, <1>3, <1>4, <1>5 DEF IInv, IndexInv

-----------------------------------------------------------------------------
(* Publishing.                                                             *)

LEMMA TranscribeStep ==
  ASSUME IInv, NEW v \in Wavs, NEW t, Transcribe(v, t)
  PROVE  IInv'
<1> USE DEF storeVars, buildVars, indexVars, requestVars
<1>1. /\ v \in disk /\ t \in 1..Texts[v] /\ task[<<v, t>>] = "none"
      /\ \A u \in 1..(t - 1) : task[<<v, u>>] # "none"
      /\ task' = [task EXCEPT ![<<v, t>>] = "log"]
      /\ raced' = IF \E u \in 1..(t - 1) : task[<<v, u>>] \in InFlight THEN raced \cup {v} ELSE raced
      /\ UNCHANGED <<disk, logged, old, mode, restored, found, build, lines, names, blind, gen, made,
                     ready, recs, pending, rpc, since, rlog, answer, due>>
  BY DEF Transcribe
<1>2. <<v, t>> \in Events /\ t # 0 /\ Texts[v] \in Nat
  BY <1>1, EventFacts
<1>3. task'[<<v, t>>] = "log" /\ \A e \in Events : e # <<v, t>> => task'[e] = task[e]
  BY <1>1, <1>2 DEF IInv, Typed, TypeOK
<1>4. Typed'
  <2>1. task' \in [Events -> InFlight \cup {"none", "done", "lost"}] /\ raced' \subseteq Wavs
    BY <1>1, <1>2 DEF IInv, Typed, TypeOK, InFlight
  <2> QED BY <1>1, <2>1 DEF IInv, Typed, TypeOK
<1>5. InTurn'
  <2> SUFFICES ASSUME NEW w \in Wavs, NEW a \in 1..Texts[w], NEW b \in 1..Texts[w], a < b
               PROVE  /\ task'[<<w, b>>] # "none" => task'[<<w, a>>] # "none"
                      /\ w \notin raced' /\ task'[<<w, a>>] \in InFlight => task'[<<w, b>>] = "none"
    BY DEF InTurn
  <2>1. /\ task[<<w, b>>] # "none" => task[<<w, a>>] # "none"
        /\ w \notin raced /\ task[<<w, a>>] \in InFlight => task[<<w, b>>] = "none"
    BY DEF IInv, PublishInv, InTurn
  <2>2. <<w, a>> \in Events /\ <<w, b>> \in Events /\ Texts[w] \in Nat
    BY EventFacts
  <2>3. w \notin raced' => w \notin raced
    BY <1>1
  <2>4. CASE w = v /\ b = t
    <3>1. a \in 1..(t - 1) /\ <<w, a>> # <<v, t>>
      BY <1>1, <1>2, <2>2, <2>4
    <3>2. task'[<<w, a>>] = task[<<w, a>>] /\ task[<<w, a>>] # "none"
      BY <1>1, <1>3, <2>2, <2>4, <3>1
    <3>3. w \notin raced' => task[<<w, a>>] \notin InFlight
      BY <1>1, <2>4, <3>1
    <3> QED BY <3>2, <3>3
  <2>5. CASE w = v /\ a = t
    <3>1. task[<<w, b>>] = "none" /\ <<w, b>> # <<v, t>>
      BY <1>1, <2>1, <2>5
    <3> QED BY <1>3, <2>2, <3>1
  <2>6. CASE <<w, a>> # <<v, t>> /\ <<w, b>> # <<v, t>>
    BY <1>3, <2>1, <2>2, <2>3, <2>6
  <2> QED BY <2>4, <2>5, <2>6
<1>6. InLog'
  <2>1. \A w \in Wavs : \A u \in 1..Texts[w] : <<w, u>> \in Events
    BY EventFacts
  <2>2. \A w \in Wavs : w \notin raced' => w \notin raced
    BY <1>1
  <2> QED BY <1>1, <1>2, <1>3, <2>1, <2>2 DEF IInv, PublishInv, InLog
<1>7. RequestInv'
  <2>1. Due'
    BY <1>1, <1>2, <1>3 DEF IInv, RequestInv, Due
  <2>2. raced \subseteq raced'
    BY <1>1
  <2> QED BY <1>1, <2>1, <2>2 DEF IInv, RequestInv, LogScanned, HistoryComplete
<1>8. Listed' /\ LinesRead'
  <2>1. LinesRead'
    BY <1>1 DEF IInv, IndexInv, LinesRead, Beyond
  <2>2. ASSUME NEW w \in disk, build \in {"swap", "done"} PROVE Known(w)' \/ ToCome(w)'
    <3>1. Known(w) \/ ToCome(w)
      BY <2>2 DEF IInv, IndexInv, Listed
    <3>2. Known(w) => Known(w)'
      BY <1>1 DEF Known, Beyond
    <3>3. ToCome(w) => ToCome(w)'
      <4>1. <<w, 0>> \in Events /\ <<w, 0>> # <<v, t>>
        BY <1>2, EventFacts DEF IInv, Typed, TypeOK
      <4> QED BY <1>1, <1>3, <4>1 DEF ToCome, Coming
    <3> QED BY <3>1, <3>2, <3>3
  <2> QED BY <1>1, <2>1, <2>2 DEF Listed
<1>9. TextsCurrent'
  <2> SUFFICES ASSUME NEW w \in Wavs \ raced PROVE TextCurrent(w)'
    BY <1>1 DEF TextsCurrent
  <2>1. \A x : Current(x, w) => (Current(x, w))'
    <3> TAKE x
    <3> HAVE Current(x, w)
    <3>1. \A u \in 1..Texts[w] : <<w, u>> \in Events
      BY EventFacts
    <3>2. \A u \in 1..Texts[w] : /\ task'[<<w, u>>] = "done" => task[<<w, u>>] = "done"
                                 /\ task[<<w, u>>] \in {"none", "log"} => task'[<<w, u>>] \in {"none", "log"}
      BY <1>3, <3>1
    <3>3. \A u \in 1..Texts[w] : Coming(<<w, u>>) => (Coming(<<w, u>>))'
      BY <1>1, <1>3, <3>1 DEF Coming
    <3> QED BY <1>1, <3>2, <3>3, CurrentStays
  <2>2. TextCurrent(w)
    BY DEF IInv, IndexInv, TextsCurrent
  <2>3. Beyond(w) => Beyond(w)'
    BY <1>1 DEF Beyond
  <2> QED BY <1>1, <2>1, <2>2, <2>3, TextStays
<1> QED BY <1>4, <1>5, <1>6, <1>7, <1>8, <1>9 DEF IInv, IndexInv, PublishInv

LEMMA AppendLogStep ==
  ASSUME IInv, NEW e \in Events, AppendLog(e)
  PROVE  IInv'
<1> USE DEF buildVars, indexVars, requestVars
<1>1. /\ task[e] = "log" /\ task' = [task EXCEPT ![e] = "lookup"]
      /\ logged' = IF e[2] # 0 /\ e \notin Unwritable THEN [logged EXCEPT ![e[1]] = e[2]] ELSE logged
      /\ UNCHANGED <<disk, old, mode, restored, found, raced, build, lines, names, blind, gen, made,
                     ready, recs, pending, rpc, since, rlog, answer, due>>
  BY DEF AppendLog
<1> DEFINE v == e[1]
           t == e[2]
<1>2. v \in Wavs /\ t \in 0..Texts[v] /\ e = <<v, t>> /\ t \in TextNumbers /\ Texts[v] \in Nat
  BY EventFacts
<1>3. task'[e] = "lookup" /\ \A f \in Events : f # e => task'[f] = task[f]
  BY <1>1 DEF IInv, Typed, TypeOK
<1>4. v \in disk
  BY <1>1 DEF IInv, PublishInv, InLog
<1>5. /\ \A w \in Wavs : w # v => logged'[w] = logged[w]
      /\ t # 0 /\ e \notin Unwritable => logged'[v] = t
      /\ t = 0 \/ e \in Unwritable => logged'[v] = logged[v]
  BY <1>1, <1>2 DEF IInv, Typed, TypeOK
<1> HIDE DEF v, t
<1>6. Typed'
  <2>1. task' \in [Events -> InFlight \cup {"none", "done", "lost"}]
    BY <1>1 DEF IInv, Typed, TypeOK, InFlight
  <2>2. logged' \in [Wavs -> TextNumbers]
    BY <1>1, <1>2 DEF IInv, Typed, TypeOK, v, t
  <2> QED BY <1>1, <2>1, <2>2 DEF IInv, Typed, TypeOK
<1>7. \A w \in Wavs : \A u \in 1..Texts[w] : <<w, u>> \in Events
  BY EventFacts
<1>8. InTurn'
  BY <1>1, <1>3, <1>7 DEF IInv, PublishInv, InTurn, InFlight
\* While e is on its way no other transcript of its recording is.
<1>9. ASSUME v \notin raced, t # 0, NEW u \in 1..Texts[v], u # t
      PROVE  task[<<v, u>>] \notin InFlight /\ (t < u => task[<<v, u>>] = "none")
  <2>1. t \in 1..Texts[v] /\ task[<<v, t>>] \in InFlight
    BY <1>1, <1>2, <1>9 DEF InFlight
  <2>2. t < u => task[<<v, u>>] = "none"
    BY <1>2, <1>9, <2>1 DEF IInv, PublishInv, InTurn
  <2>3. u < t => task[<<v, u>>] \notin InFlight
    BY <1>1, <1>2, <1>9, <2>1 DEF IInv, PublishInv, InTurn
  <2>4. t < u \/ u < t
    BY <1>2, <1>9
  <2> QED BY <2>2, <2>3, <2>4 DEF InFlight
<1>10. InLog'
  <2>1. ASSUME NEW w \in Wavs \ raced, NEW u \in 1..Texts[w], <<w, u>> \notin Unwritable
        PROVE  /\ task'[<<w, u>>] \in {"lookup", "apply"} => logged'[w] = u
               /\ task'[<<w, u>>] = "done" => u <= logged'[w]
    <3>1. /\ task[<<w, u>>] \in {"lookup", "apply"} => logged[w] = u
          /\ task[<<w, u>>] = "done" => u <= logged[w]
      BY <2>1 DEF IInv, PublishInv, InLog
    <3>2. CASE <<w, u>> = e
      <4>1. w = v /\ u = t
        BY <1>2, <3>2
      <4>2. t # 0
        BY <4>1
      <4> QED BY <1>3, <1>5, <2>1, <3>2, <4>1, <4>2
    <3>3. CASE <<w, u>> # e
      <4>1. task'[<<w, u>>] = task[<<w, u>>]
        BY <1>3, <1>7, <3>3
      <4>2. CASE logged'[w] = logged[w]
        BY <3>1, <4>1, <4>2
      <4>3. CASE logged'[w] # logged[w]
        <5>1. w = v /\ t # 0 /\ logged'[w] = t /\ u # t
          BY <1>2, <1>5, <3>3, <4>3
        <5>2. task[<<w, u>>] \notin InFlight /\ (t < u => task[<<w, u>>] = "none")
          BY <1>9, <2>1, <5>1
        <5>3. t \in Nat /\ u \in Nat
          BY <1>2
        <5> QED BY <4>1, <5>1, <5>2, <5>3 DEF InFlight
      <4> QED BY <4>2, <4>3
    <3> QED BY <3>2, <3>3
  <2>2. \A w \in Wavs : logged'[w] # 0 => w \in disk
    BY <1>4, <1>5 DEF IInv, PublishInv, InLog
  <2>3. \A f \in Events : task'[f] # "none" => f[1] \in disk
    BY <1>3, <1>4 DEF IInv, PublishInv, InLog, v
  <2> QED BY <1>1, <2>1, <2>2, <2>3 DEF InLog
<1>11. RequestInv'
  <2>1. Due'
    BY <1>1, <1>3 DEF IInv, RequestInv, Due
  <2> QED BY <1>1, <2>1 DEF IInv, RequestInv, LogScanned, HistoryComplete
<1>12. Listed' /\ LinesRead'
  <2>1. LinesRead'
    BY <1>1 DEF IInv, IndexInv, LinesRead, Beyond
  <2>2. ASSUME NEW w \in disk, build \in {"swap", "done"} PROVE Known(w)' \/ ToCome(w)'
    <3>1. Known(w) \/ ToCome(w)
      BY <2>2 DEF IInv, IndexInv, Listed
    <3>2. Known(w) => Known(w)'
      BY <1>1 DEF Known, Beyond
    <3>3. ToCome(w) => ToCome(w)'
      <4>1. <<w, 0>> \in Events
        BY EventFacts DEF IInv, Typed, TypeOK
      <4> QED BY <1>1, <1>3, <4>1 DEF ToCome, Coming
    <3> QED BY <3>1, <3>2, <3>3
  <2> QED BY <1>1, <2>1, <2>2 DEF Listed
<1>13. TextsCurrent'
  <2> SUFFICES ASSUME NEW w \in Wavs \ raced PROVE TextCurrent(w)'
    BY <1>1 DEF TextsCurrent
  <2>1. \A x : Current(x, w) => (Current(x, w))'
    <3> TAKE x
    <3> HAVE Current(x, w)
    <3>1. \A u \in 1..Texts[w] : task'[<<w, u>>] = "done" => task[<<w, u>>] = "done"
      BY <1>3, <1>7
    <3>2. \A u \in 1..Texts[w] : Coming(<<w, u>>) => (Coming(<<w, u>>))'
      BY <1>1, <1>3, <1>7 DEF Coming
    <3>3. CASE w # v \/ t = 0
      <4>1. \A u \in 1..Texts[w] : <<w, u>> # e
        BY <1>2, <3>3
      <4>2. logged'[w] = logged[w]
        BY <1>5, <3>3
      <4> QED BY <1>1, <1>3, <1>7, <3>1, <3>2, <4>1, <4>2, CurrentStays
    <3>4. CASE w = v /\ t # 0
      <4>1. t \in 1..Texts[w] /\ e = <<w, t>>
        BY <1>2, <3>4
      <4>2. (Coming(<<w, t>>))'
        BY <1>3, <4>1 DEF Coming
      <4>3. CASE blind /\ x = 0
        BY <1>1, <4>3 DEF Current
      <4>4. CASE ~ (blind /\ x = 0) /\ Effective(e)
        BY <1>1, <3>1, <4>1, <4>2, <4>4 DEF Current, Effective
      <4>5. CASE ~ (blind /\ x = 0) /\ ~ Effective(e)
        <5>1. mode # "full" /\ logged'[w] = logged[w]
          BY <1>5, <3>4, <4>5 DEF Effective, t
        <5> QED BY <1>1, <3>1, <3>2, <4>5, <5>1 DEF Current, Effective
      <4> QED BY <4>3, <4>4, <4>5
    <3> QED BY <3>3, <3>4
  <2>2. TextCurrent(w)
    BY DEF IInv, IndexInv, TextsCurrent
  <2>3. Beyond(w) => Beyond(w)'
    BY <1>1 DEF Beyond
  <2> QED BY <1>1, <2>1, <2>2, <2>3, TextStays
<1> QED BY <1>6, <1>8, <1>10, <1>11, <1>12, <1>13 DEF IInv, IndexInv, PublishInv

LEMMA LookupStep ==
  ASSUME IInv, NEW e \in Events, Lookup(e)
  PROVE  IInv'
<1> USE DEF storeVars, buildVars, indexVars, requestVars
<1>1. /\ task[e] = "lookup" /\ task' = [task EXCEPT ![e] = IF gen = 0 THEN "done" ELSE "apply"]
      /\ found' = [found EXCEPT ![e] = gen]
      /\ UNCHANGED <<disk, logged, old, mode, restored, raced, build, lines, names, blind, gen, made,
                     ready, recs, pending, rpc, since, rlog, answer, due>>
  BY DEF Lookup
<1>2. /\ task'[e] = IF gen = 0 THEN "done" ELSE "apply"
      /\ found'[e] = gen
      /\ \A f \in Events : f # e => task'[f] = task[f] /\ found'[f] = found[f]
  BY <1>1 DEF IInv, Typed, TypeOK
<1>3. gen = 0 => build = "none"
  BY DEF IInv, Typed
<1>4. Typed'
  <2>1. task' \in [Events -> InFlight \cup {"none", "done", "lost"}]
    BY <1>1 DEF IInv, Typed, TypeOK, InFlight
  <2>2. gen \in 0..MaxGens
    BY RecordingsAssumption DEF IInv, Typed, TypeOK
  <2>3. found' \in [Events -> 0..MaxGens]
    BY <1>1, <2>2 DEF IInv, Typed, TypeOK
  <2> QED BY <1>1, <2>1, <2>3 DEF IInv, Typed, TypeOK
<1>5. \A w \in Wavs : \A u \in 1..Texts[w] : <<w, u>> \in Events
  BY EventFacts
<1>6. InTurn'
  BY <1>1, <1>2, <1>5 DEF IInv, PublishInv, InTurn, InFlight
<1>7. InLog'
  <2>1. ASSUME NEW w \in Wavs \ raced, NEW u \in 1..Texts[w], <<w, u>> \notin Unwritable
        PROVE  /\ task'[<<w, u>>] \in {"lookup", "apply"} => logged[w] = u
               /\ task'[<<w, u>>] = "done" => u <= logged[w]
    <3>1. /\ task[<<w, u>>] \in {"lookup", "apply"} => logged[w] = u
          /\ task[<<w, u>>] = "done" => u <= logged[w]
      BY <2>1 DEF IInv, PublishInv, InLog
    <3> QED BY <1>1, <1>2, <1>5, <3>1
  <2> QED BY <1>1, <1>2, <2>1 DEF IInv, PublishInv, InLog
<1>8. RequestInv'
  <2>1. Due'
    BY <1>1, <1>2 DEF IInv, RequestInv, Due
  <2> QED BY <1>1, <2>1 DEF IInv, RequestInv, LogScanned, HistoryComplete
<1>9. Listed' /\ LinesRead'
  <2>1. LinesRead'
    BY <1>1 DEF IInv, IndexInv, LinesRead, Beyond
  <2>2. ASSUME NEW w \in disk, build \in {"swap", "done"} PROVE Known(w)' \/ ToCome(w)'
    <3>1. Known(w) \/ ToCome(w)
      BY <2>2 DEF IInv, IndexInv, Listed
    <3>2. Known(w) => Known(w)'
      BY <1>1 DEF Known, Beyond
    <3>3. ToCome(w) => ToCome(w)'
      <4>1. <<w, 0>> \in Events
        BY EventFacts DEF IInv, Typed, TypeOK
      <4> QED BY <1>1, <1>2, <1>3, <2>2, <4>1 DEF ToCome, Coming
    <3> QED BY <3>1, <3>2, <3>3
  <2> QED BY <1>1, <2>1, <2>2 DEF Listed
<1>10. TextsCurrent'
  <2> SUFFICES ASSUME NEW w \in Wavs \ raced PROVE TextCurrent(w)'
    BY <1>1 DEF TextsCurrent
  <2>1. CASE gen = 0
    BY <1>1, <1>3, <2>1 DEF TextCurrent
  <2>2. CASE gen # 0
    <3>1. \A x : Current(x, w) => (Current(x, w))'
      <4> TAKE x
      <4> HAVE Current(x, w)
      <4>1. \A u \in 1..Texts[w] : /\ task'[<<w, u>>] = "done" => task[<<w, u>>] = "done"
                                   /\ task[<<w, u>>] \in {"none", "log"} => task'[<<w, u>>] \in {"none", "log"}
        BY <1>1, <1>2, <1>5, <2>2
      <4>2. \A u \in 1..Texts[w] : Coming(<<w, u>>) => (Coming(<<w, u>>))'
        BY <1>1, <1>2, <1>5, <2>2 DEF Coming
      <4> QED BY <1>1, <4>1, <4>2, CurrentStays
    <3>2. TextCurrent(w)
      BY DEF IInv, IndexInv, TextsCurrent
    <3>3. Beyond(w) => Beyond(w)'
      BY <1>1 DEF Beyond
    <3> QED BY <1>1, <3>1, <3>2, <3>3, TextStays
  <2> QED BY <2>1, <2>2
<1> QED BY <1>4, <1>6, <1>7, <1>8, <1>9, <1>10 DEF IInv, IndexInv, PublishInv

\* What an event that gives a text leaves behind when it gets to the entry.
LEMMA NewText ==
  ASSUME IInv, NEW w \in Wavs \ raced, NEW t \in 1..Texts[w], Effective(<<w, t>>),
         task[<<w, t>>] = "apply", task' = [task EXCEPT ![<<w, t>>] = "done"],
         UNCHANGED <<logged, mode>>
  PROVE  (Current(t, w))'
<1>1. Texts[w] \in Nat /\ t # 0 /\ <<w, t>> \in Events
  BY EventFacts
<1>2. \A u \in 1..Texts[w] : t < u => task[<<w, u>>] = "none"
  BY DEF IInv, PublishInv, InTurn, InFlight
<1>3. \A u \in 1..Texts[w] : t < u => task'[<<w, u>>] = "none"
  <2> TAKE u \in 1..Texts[w]
  <2> HAVE t < u
  <2>1. <<w, u>> # <<w, t>> /\ <<w, u>> \in Events
    BY <1>1, EventFacts
  <2> QED BY <1>2, <2>1 DEF IInv, Typed, TypeOK
<1>4. \A u \in 1..Texts[w] : task'[<<w, u>>] = "done" => u <= t
  BY <1>1, <1>3
<1>5. <<w, t>> \notin Unwritable => logged[w] = t
  BY DEF IInv, PublishInv, InLog
<1>6. <<w, t>> \in Unwritable => mode = "full"
  BY DEF Effective
<1> QED BY <1>1, <1>3, <1>4, <1>5, <1>6 DEF Current

\* A text stays current when an event passes that is another recording's, gives no
\* text, or has looked up an entry that is gone.
LEMMA OldText ==
  ASSUME IInv, NEW e \in Events, NEW w \in Wavs \ raced, NEW x \in Int, Current(x, w),
         w # e[1] \/ ~ Effective(e) \/ found[e] # gen,
         task[e] = "apply", task' = [task EXCEPT ![e] = "done"], found' = [found EXCEPT ![e] = 0],
         UNCHANGED <<logged, mode, gen, blind>>
  PROVE  (Current(x, w))'
<1>1. /\ e[1] \in Wavs /\ e[2] \in 0..Texts[e[1]] /\ e = <<e[1], e[2]>>
      /\ \A u \in 1..Texts[w] : <<w, u>> \in Events
      /\ Texts[w] \in Nat
  BY EventFacts
<1>2. task'[e] = "done" /\ \A f \in Events : f # e => task'[f] = task[f] /\ found'[f] = found[f]
  BY DEF IInv, Typed, TypeOK
<1>3. \A u \in 1..Texts[w] : <<w, u>> # e /\ Coming(<<w, u>>) => (Coming(<<w, u>>))'
  BY <1>1, <1>2 DEF Coming
<1>4. CASE blind /\ x = 0
  BY <1>4 DEF Current
<1>5. CASE ~ (blind /\ x = 0) /\ (w # e[1] \/ e[2] = 0)
  <2>1. \A u \in 1..Texts[w] : <<w, u>> # e
    BY <1>5
  <2> QED BY <1>1, <1>2, <1>3, <2>1, CurrentStays
<1>6. CASE ~ (blind /\ x = 0) /\ w = e[1] /\ e[2] # 0 /\ ~ Effective(e)
  <2>1. mode # "full" /\ e \in Unwritable
    BY <1>6 DEF Effective
  <2>2. \A u \in 1..Texts[w] : task'[<<w, u>>] = "done" /\ <<w, u>> \notin Unwritable => u <= x
    BY <1>1, <1>2, <1>6, <2>1 DEF Current
  <2>3. (\E u \in 1..Texts[w] : Effective(<<w, u>>) /\ Coming(<<w, u>>)) =>
          \E u \in 1..Texts[w] : (Effective(<<w, u>>) /\ Coming(<<w, u>>))'
    BY <1>3, <1>6 DEF Effective
  <2> QED BY <1>6, <2>1, <2>2, <2>3 DEF Current
<1>7. CASE ~ (blind /\ x = 0) /\ w = e[1] /\ e[2] # 0 /\ Effective(e) /\ found[e] # gen
  <2>1. e[2] \in 1..Texts[w] /\ e = <<w, e[2]>>
    BY <1>1, <1>7
  <2>2. \A u \in 1..Texts[w] : e[2] < u => task[<<w, u>>] = "none"
    BY <2>1 DEF IInv, PublishInv, InTurn, InFlight
  <2>3. \A u \in 1..Texts[w] : u < e[2] => task[<<w, u>>] \notin InFlight
    BY <2>1 DEF IInv, PublishInv, InTurn, InFlight
  <2>4. \A u \in 1..Texts[w] : ~ Coming(<<w, u>>)
    <3> TAKE u \in 1..Texts[w]
    <3>1. u < e[2] \/ u = e[2] \/ e[2] < u
      BY <2>1
    <3>2. CASE u = e[2]
      BY <1>7, <2>1, <3>2 DEF Coming
    <3> QED BY <2>2, <2>3, <3>1, <3>2 DEF Coming, InFlight
  <2>5. /\ \A u \in 1..Texts[w] : task[<<w, u>>] = "done" /\ <<w, u>> \notin Unwritable => u <= x
        /\ \/ x = logged[w]
           \/ /\ mode = "full" /\ x # 0 /\ <<w, x>> \in Unwritable
              /\ \A u \in 1..Texts[w] : x < u => task[<<w, u>>] \in {"none", "log"}
    BY <1>7, <2>4 DEF Current
  <2>6. e \notin Unwritable => e[2] <= x
    <3>1. CASE x = logged[w]
      BY <2>1, <3>1 DEF IInv, PublishInv, InLog
    <3>2. CASE \A u \in 1..Texts[w] : x < u => task[<<w, u>>] \in {"none", "log"}
      BY <2>1, <3>2
    <3> QED BY <2>5, <3>1, <3>2
  <2>7. \A u \in 1..Texts[w] : task'[<<w, u>>] = "done" /\ <<w, u>> \notin Unwritable => u <= x
    <3> TAKE u \in 1..Texts[w]
    <3>1. CASE <<w, u>> = e
      BY <2>1, <2>6, <3>1
    <3>2. CASE <<w, u>> # e
      BY <1>1, <1>2, <2>5, <3>2
    <3> QED BY <3>1, <3>2
  <2>8. ASSUME \A u \in 1..Texts[w] : x < u => task[<<w, u>>] \in {"none", "log"}
        PROVE  \A u \in 1..Texts[w] : x < u => task'[<<w, u>>] \in {"none", "log"}
    BY <1>1, <1>2, <2>1, <2>8
  <2> QED BY <2>5, <2>7, <2>8 DEF Current
<1> QED BY <1>4, <1>5, <1>6, <1>7

LEMMA ObserveStep ==
  ASSUME IInv, NEW e \in Events, Observe(e)
  PROVE  IInv'
<1> USE DEF storeVars, requestVars
<1>1. /\ task[e] = "apply" /\ task' = [task EXCEPT ![e] = "done"] /\ found' = [found EXCEPT ![e] = 0]
      /\ UNCHANGED <<disk, logged, old, mode, restored, raced, build, lines, names, blind, gen, made,
                     ready, rpc, since, rlog, answer, due>>
  BY DEF Observe, buildVars
<1>2. /\ found[e] # gen => UNCHANGED <<recs, pending>>
      /\ found[e] = gen /\ ready => pending' = pending /\ recs' \in {Applied(recs, e), Pruned(Applied(recs, e))}
      /\ found[e] = gen /\ ~ ready => pending' = Append(pending, e) /\ recs' = recs
  BY DEF Observe
<1>3. task'[e] = "done" /\ \A f \in Events : f # e => task'[f] = task[f] /\ found'[f] = found[f]
  BY <1>1 DEF IInv, Typed, TypeOK
<1>4. /\ e[1] \in Wavs /\ e[2] \in 0..Texts[e[1]] /\ e = <<e[1], e[2]>> /\ Texts[e[1]] \in Nat
      /\ \A w \in Wavs : \A u \in 1..Texts[w] : <<w, u>> \in Events
      /\ \A w \in Wavs : <<w, 0>> \in Events
  BY EventFacts
<1>5. e[1] \in disk
  BY <1>1 DEF IInv, PublishInv, InLog
<1>6. /\ recs \in [Wavs -> Content] /\ pending \in Seq(Events)
      /\ \A w \in Wavs : recs[w] # Absent => w \in disk
      /\ ready \in BOOLEAN /\ (ready <=> build = "done")
      /\ (ready => pending = <<>>) /\ (~ ready => recs = [w \in Wavs |-> Absent])
  BY DEF IInv, Typed, TypeOK
<1> DEFINE now == Applied(recs, e)
<1>7. /\ now \in [Wavs -> Content] /\ \A w \in Wavs : w # e[1] => now[w] = recs[w]
      /\ \A w \in Wavs : recs[w] # Absent => now[w] # Absent
      /\ recs[e[1]] = Absent /\ Beyond(e[1]) => now[e[1]] = Absent
      /\ ~ (recs[e[1]] = Absent /\ Beyond(e[1])) =>
            /\ now[e[1]] # Absent
            /\ Effective(e) => now[e[1]] = e[2]
            /\ ~ Effective(e) => now[e[1]] = TextOf(recs[e[1]])
  BY <1>6, AppliedFacts
<1> HIDE DEF now
<1>8. ASSUME found[e] = gen, ready
      PROVE  \A w \in Wavs : recs'[w] = now[w] \/ (recs'[w] = Absent /\ Beyond(w))
  <2>1. recs' = now \/ recs' = [w \in Wavs |-> IF Beyond(w) THEN Absent ELSE now[w]]
    BY <1>2, <1>8 DEF Pruned, now
  <2> QED BY <2>1
<1>9. Typed'
  <2>1. recs' \in [Wavs -> Content]
    <3>1. Pruned(now) \in [Wavs -> Content]
      BY <1>7 DEF Pruned, Content
    <3> QED BY <1>2, <1>6, <1>7, <3>1 DEF now
  <2>2. pending' \in Seq(Events) /\ \A i \in 1..Len(pending') : pending'[i][1] \in disk
    <3>1. CASE pending' = pending
      BY <1>6, <3>1 DEF IInv, Typed
    <3>2. CASE pending' = Append(pending, e)
      BY <1>5, <1>6, <3>2 DEF IInv, Typed
    <3> QED BY <1>2, <1>6, <3>1, <3>2
  <2>3. \A w \in Wavs : recs'[w] # Absent => w \in disk
    <3> TAKE w \in Wavs
    <3>1. CASE recs' = recs
      BY <1>6, <3>1
    <3>2. CASE found[e] = gen /\ ready
      BY <1>5, <1>6, <1>7, <1>8, <3>2
    <3> QED BY <1>2, <1>6, <3>1, <3>2
  <2>4. task' \in [Events -> InFlight \cup {"none", "done", "lost"}] /\ found' \in [Events -> 0..MaxGens]
    BY <1>1, RecordingsAssumption DEF IInv, Typed, TypeOK, InFlight
  <2>5. (ready => pending' = <<>>) /\ (~ ready => recs' = [w \in Wavs |-> Absent])
    BY <1>2, <1>6
  <2> QED BY <1>1, <2>1, <2>2, <2>3, <2>4, <2>5 DEF IInv, Typed, TypeOK
<1>10. PublishInv'
  <2>1. InTurn'
    BY <1>1, <1>3, <1>4 DEF IInv, PublishInv, InTurn, InFlight
  <2>2. ASSUME NEW w \in Wavs \ raced, NEW u \in 1..Texts[w], <<w, u>> \notin Unwritable
        PROVE  /\ task'[<<w, u>>] \in {"lookup", "apply"} => logged[w] = u
               /\ task'[<<w, u>>] = "done" => u <= logged[w]
    <3>1. /\ task[<<w, u>>] \in {"lookup", "apply"} => logged[w] = u
          /\ task[<<w, u>>] = "done" => u <= logged[w]
      BY <2>2 DEF IInv, PublishInv, InLog
    <3> QED BY <1>1, <1>3, <1>4, <3>1
  <2>3. InLog'
    BY <1>1, <1>3, <1>5, <2>2 DEF IInv, PublishInv, InLog
  <2> QED BY <2>1, <2>3 DEF PublishInv
<1>11. RequestInv'
  <2>1. Due'
    BY <1>1, <1>3 DEF IInv, RequestInv, Due
  <2> QED BY <1>1, <2>1 DEF IInv, RequestInv, LogScanned, HistoryComplete
<1>12. Listed' /\ LinesRead'
  <2>1. LinesRead'
    BY <1>1 DEF IInv, IndexInv, LinesRead, Beyond
  <2>2. ASSUME NEW w \in disk, build \in {"swap", "done"} PROVE Known(w)' \/ ToCome(w)'
    <3>1. Known(w) \/ ToCome(w)
      BY <2>2 DEF IInv, IndexInv, Listed
    <3>2. w \in Wavs
      BY DEF IInv, Typed, TypeOK
    <3>3. Known(w) => Known(w)'
      <4>1. CASE Beyond(w)
        BY <1>1, <4>1 DEF Known, Beyond
      <4>2. CASE build = "swap" /\ (w \in names \/ \E i \in 1..Len(pending) : pending[i][1] = w)
        <5>1. \A i \in 1..Len(pending) : i \in 1..Len(pending') /\ pending'[i] = pending[i]
          BY <1>2, <1>6
        <5> QED BY <1>1, <4>2, <5>1 DEF Known
      <4>3. CASE build = "done" /\ recs[w] # Absent
        BY <1>1, <1>2, <1>6, <1>7, <1>8, <3>2, <4>3 DEF Known, Beyond
      <4> QED BY <4>1, <4>2, <4>3 DEF Known
    <3>4. ASSUME w = e[1], ToCome(w) PROVE Known(w)'
      <4>1. found[e] = gen
        BY <1>1, <3>4 DEF ToCome, Coming
      <4>2. CASE build = "done"
        BY <1>1, <1>6, <1>7, <1>8, <3>2, <3>4, <4>1, <4>2 DEF Known, Beyond
      <4>3. CASE build = "swap"
        <5>1. pending' = Append(pending, e)
          BY <1>2, <1>6, <4>1, <4>3
        <5>2. Len(pending') = Len(pending) + 1 /\ Len(pending) \in Nat /\ pending'[Len(pending) + 1] = e
          BY <1>6, <5>1
        <5> QED BY <1>1, <3>4, <4>3, <5>2 DEF Known
      <4> QED BY <2>2, <4>2, <4>3
    <3>5. ASSUME w # e[1], ToCome(w) PROVE ToCome(w)'
      BY <1>1, <1>3, <1>4, <3>2, <3>5 DEF ToCome, Coming
    <3> QED BY <3>1, <3>3, <3>4, <3>5
  <2> QED BY <1>1, <2>1, <2>2 DEF Listed
<1>13. TextsCurrent'
  <2> SUFFICES ASSUME NEW w \in Wavs \ raced PROVE TextCurrent(w)'
    BY <1>1 DEF TextsCurrent
  <2>1. TextCurrent(w)
    BY DEF IInv, IndexInv, TextsCurrent
  <2>2. Beyond(w) => Beyond(w)'
    BY <1>1 DEF Beyond
  <2>3. TextOf(recs[w]) \in Int /\ lines[w] \in Int /\ \A i \in 1..Len(pending) : pending[i][2] \in Int
    BY EventFacts, <1>6 DEF TextOf, Content, IInv, Typed, TypeOK
  <2>4. CASE w # e[1] \/ ~ Effective(e) \/ found[e] # gen
    <3>1. \A x \in Int : Current(x, w) => (Current(x, w))'
      BY <1>1, <2>4, OldText
    <3>3. (build = "done")' => (recs[w] = Absent /\ Beyond(w))' \/ (Current(TextOf(recs[w]), w))'
      <4> SUFFICES ASSUME build = "done", ~ (recs'[w] = Absent /\ Beyond(w))
                   PROVE  (Current(TextOf(recs[w]), w))'
        BY <1>1, <2>2 DEF Beyond
      <4>1. TextOf(recs'[w]) = TextOf(recs[w]) /\ ~ (recs[w] = Absent /\ Beyond(w))
        <5>1. CASE recs' = recs
          BY <5>1
        <5>2. CASE found[e] = gen /\ ready
          <6>1. recs'[w] = now[w]
            BY <1>8, <5>2
          <6>2. CASE w # e[1]
            BY <1>7, <6>1, <6>2
          <6>3. CASE w = e[1]
            <7>1. ~ Effective(e) /\ ~ (recs[w] = Absent /\ Beyond(w))
              BY <1>7, <2>4, <5>2, <6>1, <6>3
            <7>2. recs'[w] = TextOf(recs[w])
              BY <1>7, <6>1, <6>3, <7>1
            <7>3. TextOf(recs[w]) # Absent
              BY <1>6, EventFacts DEF TextOf, Absent, Content
            <7> QED BY <7>1, <7>2, <7>3 DEF TextOf
          <6> QED BY <6>2, <6>3
        <5> QED BY <1>2, <1>6, <5>1, <5>2
      <4>2. Current(TextOf(recs[w]), w)
        BY <2>1, <4>1 DEF TextCurrent
      <4> QED BY <2>3, <3>1, <4>1, <4>2
    <3>4. CASE pending' = pending
      <4>1. Held(w)' = Held(w)
        BY <1>1, <3>4 DEF Held, Effective
      <4>2. \A i \in Held(w) : pending[i][2] \in Int
        BY <2>3 DEF Held
      <4> HIDE DEF Held, Current
      <4> QED BY <1>1, <2>1, <2>3, <3>1, <3>3, <3>4, <4>1, <4>2 DEF TextCurrent
    <3>5. CASE pending' = Append(pending, e)
      <4>1. ~ (e[1] = w /\ Effective(e)) \/ found[e] # gen
        BY <2>4
      <4>2. CASE found[e] # gen
        <5>1. pending' = pending
          BY <1>2, <4>2
        <5> QED BY <3>4, <5>1
      <4>3. CASE ~ (e[1] = w /\ Effective(e))
        <5>1. /\ Len(pending') = Len(pending) + 1 /\ Len(pending) \in Nat /\ pending'[Len(pending) + 1] = e
              /\ \A i \in 1..Len(pending) : pending'[i] = pending[i]
          BY <1>6, <3>5
        <5>2. Held(w)' = Held(w)
          BY <1>1, <4>3, <5>1 DEF Held, Effective
        <5>3. \A i \in Held(w) : pending[i][2] \in Int /\ pending'[i] = pending[i]
          BY <2>3, <5>1 DEF Held
        <5> HIDE DEF Held, Current
        <5> QED BY <1>1, <2>1, <2>3, <3>1, <3>3, <5>2, <5>3 DEF TextCurrent
      <4> QED BY <4>1, <4>2, <4>3
    <3> QED BY <1>2, <1>6, <3>4, <3>5
  <2>5. CASE w = e[1] /\ Effective(e) /\ found[e] = gen
    <3>1. e[2] \in 1..Texts[w] /\ e = <<w, e[2]>>
      BY <1>4, <2>5 DEF Effective
    <3>2. (Current(e[2], w))'
      BY <1>1, <2>5, <3>1, NewText
    <3>3. CASE ready
      <4>1. build = "done" /\ e[2] # Absent
        BY <1>6, <3>1, <3>3, <1>4 DEF Absent
      <4>2. (recs'[w] = Absent /\ Beyond(w)) \/ recs'[w] = e[2]
        BY <1>7, <1>8, <2>5, <3>3
      <4>3. recs'[w] = e[2] => TextOf(recs'[w]) = e[2]
        BY <4>1 DEF TextOf
      <4> QED BY <1>1, <2>2, <3>2, <4>1, <4>2, <4>3 DEF TextCurrent
    <3>4. CASE ~ ready
      <4>1. pending' = Append(pending, e)
        BY <1>2, <2>5, <3>4
      <4>2. /\ Len(pending') = Len(pending) + 1 /\ Len(pending) \in Nat /\ pending'[Len(pending) + 1] = e
        BY <1>6, <4>1
      <4>3. Len(pending) + 1 \in Held(w)' /\ \A i \in Held(w)' : i <= Len(pending) + 1
        BY <1>1, <2>5, <4>2 DEF Held, Effective
      <4>4. \A i \in Held(w)' : (\A j \in Held(w)' : j <= i) => i = Len(pending) + 1
        <5>1. \A i \in Held(w)' : i \in Nat
          BY <4>2 DEF Held
        <5> QED BY <4>2, <4>3, <5>1
      <4> HIDE DEF Held, Current
      <4> QED BY <1>1, <1>6, <3>2, <3>4, <4>2, <4>3, <4>4 DEF TextCurrent
    <3> QED BY <3>3, <3>4
  <2> QED BY <2>4, <2>5
<1> QED BY <1>9, <1>10, <1>11, <1>12, <1>13 DEF IInv, IndexInv

-----------------------------------------------------------------------------
(* Requests.                                                               *)

\* What is published of a recording is its latest event that is over and logged.
LEMMA PublishedFacts ==
  ASSUME NEW w \in Wavs, task \in [Events -> InFlight \cup {"none", "done", "lost"}]
  PROVE  /\ Published(w) \in Content
         /\ Published(w) # Absent =>
               <<w, Published(w)>> \in Events \ Unwritable /\ task[<<w, Published(w)>>] = "done"
<1> DEFINE Done == {e \in Events \ Unwritable : e[1] = w /\ task[e] = "done"}
           Numbers == {t \in 0..Texts[w] : <<w, t>> \in Done}
           Latest(t) == <<w, t>> \in Done /\ \A e \in Done : e[2] <= t
<1>1. CASE Done = {}
  BY <1>1 DEF Published, Content
<1>2. CASE Done # {}
  <2>1. PICK e \in Done : TRUE
    BY <1>2
  <2>2. \A f \in Done : f[2] \in Numbers /\ f = <<w, f[2]>>
    BY EventFacts
  <2>3. Numbers \subseteq 0..Texts[w] /\ Numbers # {} /\ Texts[w] \in Nat
    BY <2>1, <2>2, EventFacts
  <2>4. PICK t \in Numbers : \A u \in Numbers : u <= t
    <3> HIDE DEF Numbers
    <3> QED BY <2>3, GreatestNumber
  <2>5. t \in TextNumbers /\ Latest(t)
    BY <2>2, <2>4, EventFacts
  <2>6. Published(w) = CHOOSE u \in TextNumbers : Latest(u)
    BY <1>2 DEF Published
  <2>7. Published(w) \in TextNumbers /\ Latest(Published(w))
    <3> HIDE DEF Latest
    <3> QED BY <2>5, <2>6
  <2> QED BY <2>7 DEF Content
<1> QED BY <1>1, <1>2

LEMMA RequestStep ==
  ASSUME IInv, NEW range \in {"all", "recent"}, Request(range)
  PROVE  IInv'
<1> USE DEF storeVars, taskVars, buildVars, indexVars
<1>1. /\ rpc' = "index" /\ since' = range
      /\ due' = [w \in Wavs |-> Published(w)] /\ answer' = [w \in Wavs |-> Absent]
      /\ UNCHANGED <<disk, logged, old, mode, restored, task, found, raced, build, lines, names, blind,
                     gen, made, ready, recs, pending, rlog>>
  BY DEF Request
<1>2. \A w \in Wavs : /\ Published(w) \in Content
                      /\ Published(w) # Absent =>
                            <<w, Published(w)>> \in Events \ Unwritable /\ task[<<w, Published(w)>>] = "done"
  BY PublishedFacts DEF IInv, Typed, TypeOK
<1>3. Typed'
  <2>1. due' \in [Wavs -> Content] /\ answer' \in [Wavs -> Content]
    BY <1>1, <1>2 DEF Content
  <2> QED BY <1>1, <2>1 DEF IInv, Typed, TypeOK
<1>4. RequestInv'
  <2>1. Due'
    BY <1>1, <1>2 DEF Due
  <2> QED BY <1>1, <2>1 DEF RequestInv, LogScanned, HistoryComplete
<1>5. PublishInv'
  BY <1>1, PublishStays DEF IInv
<1>6. IndexInv'
  BY <1>1, IndexStays DEF IInv
<1> QED BY <1>3, <1>4, <1>5, <1>6 DEF IInv

\* The index has what is published of each recording in its range.
LEMMA FromIndexStep ==
  ASSUME IInv, FromIndex
  PROVE  IInv'
<1> USE DEF storeVars, taskVars, buildVars, indexVars
<1>1. /\ ready /\ ~ (mode = "window" /\ since = "all")
      /\ rpc' = "answered" /\ answer' = InRange(recs)
      /\ UNCHANGED <<disk, logged, old, mode, restored, task, found, raced, build, lines, names, blind,
                     gen, made, ready, recs, pending, since, rlog, due>>
  BY DEF FromIndex, CanAnswer
<1>2. build = "done" /\ recs \in [Wavs -> Content]
  BY <1>1 DEF IInv, Typed, TypeOK
<1>3. Typed'
  <2>1. answer' \in [Wavs -> Content]
    BY <1>1, <1>2 DEF InRange, Content
  <2> QED BY <1>1, <2>1 DEF IInv, Typed, TypeOK
<1>4. HistoryComplete'
  <2> SUFFICES ASSUME NEW w \in Wavs, ~ (since = "recent" /\ w \in old)
               PROVE  answer'[w] >= due[w] \/ ((w \in raced \/ blind) /\ answer'[w] >= 0)
    BY <1>1 DEF HistoryComplete
  <2>1. answer'[w] = recs[w]
    BY <1>1 DEF InRange
  <2>2. recs[w] \in Int /\ recs[w] >= Absent /\ (recs[w] # Absent => recs[w] >= 0)
    BY <1>2, EventFacts DEF Content, Absent
  <2>3. CASE due[w] = Absent
    BY <2>1, <2>2, <2>3
  <2>4. CASE due[w] # Absent
    <3>1. <<w, due[w]>> \in Events \ Unwritable /\ task[<<w, due[w]>>] = "done"
      BY <2>4 DEF IInv, RequestInv, Due
    <3>2. w \in disk
      BY <3>1 DEF IInv, PublishInv, InLog
    <3>3. ~ Beyond(w)
      BY <1>1 DEF Beyond, IInv, Typed, TypeOK
    <3>4. ~ ToCome(w)
      BY <3>1 DEF ToCome, Coming
    <3>5. recs[w] # Absent
      BY <1>2, <3>2, <3>3, <3>4 DEF IInv, IndexInv, Listed, Known
    <3>6. CASE w \notin raced /\ ~ blind
      <4>1. Current(recs[w], w)
        BY <1>2, <3>5, <3>6 DEF IInv, IndexInv, TextsCurrent, TextCurrent, TextOf
      <4>2. due[w] \in 0..Texts[w] /\ Texts[w] \in Nat
        BY <3>1, EventFacts
      <4>3. CASE due[w] = 0
        BY <2>1, <2>2, <3>5, <4>3
      <4>4. CASE due[w] # 0
        <5>1. due[w] \in 1..Texts[w]
          BY <4>2, <4>4
        <5> QED BY <2>1, <3>1, <3>6, <4>1, <5>1 DEF Current
      <4> QED BY <4>3, <4>4
    <3> QED BY <2>1, <2>2, <3>5, <3>6
  <2> QED BY <2>3, <2>4
<1>5. RequestInv'
  BY <1>1, <1>4 DEF IInv, RequestInv, Due, LogScanned
<1>6. PublishInv'
  BY <1>1, PublishStays DEF IInv
<1>7. IndexInv'
  BY <1>1, IndexStays DEF IInv
<1> QED BY <1>3, <1>5, <1>6, <1>7 DEF IInv

\* The log has it too, and the recording is in the folder.
LEMMA ScanStep ==
  ASSUME IInv, ScanLog \/ ScanDir
  PROVE  IInv'
<1> USE DEF storeVars, taskVars, buildVars, indexVars
<1>1. UNCHANGED <<disk, logged, old, mode, restored, task, found, raced, build, lines, names, blind,
                  gen, made, ready, recs, pending, since, due>>
  BY DEF ScanLog, ScanDir
<1>2. \A w \in Wavs : due[w] # Absent =>
         w \in disk /\ due[w] \in Nat /\ (w \notin raced => due[w] <= logged[w])
  <2> SUFFICES ASSUME NEW w \in Wavs, due[w] # Absent
               PROVE  w \in disk /\ due[w] \in Nat /\ (w \notin raced => due[w] <= logged[w])
    OBVIOUS
  <2>1. <<w, due[w]>> \in Events \ Unwritable /\ task[<<w, due[w]>>] = "done"
    BY DEF IInv, RequestInv, Due
  <2>2. due[w] \in 0..Texts[w] /\ Texts[w] \in Nat
    BY <2>1, EventFacts
  <2>3. w \in disk
    BY <2>1 DEF IInv, PublishInv, InLog
  <2>4. logged[w] \in Nat
    BY EventFacts DEF IInv, Typed, TypeOK
  <2>5. CASE due[w] = 0
    BY <2>3, <2>4, <2>5
  <2>6. CASE due[w] # 0
    <3>1. due[w] \in 1..Texts[w]
      BY <2>2, <2>6
    <3> QED BY <2>1, <2>2, <2>3, <3>1 DEF IInv, PublishInv, InLog
  <2> QED BY <2>5, <2>6
<1>3. PublishInv'
  BY <1>1, PublishStays DEF IInv
<1>4. IndexInv'
  BY <1>1, IndexStays DEF IInv
<1>5. Due'
  BY <1>1 DEF IInv, RequestInv, Due
<1>6. CASE ScanLog
  <2>1. rpc' = "dir" /\ rlog' = logged /\ answer' = answer
    BY <1>6 DEF ScanLog
  <2>2. Typed'
    BY <1>1, <2>1 DEF IInv, Typed, TypeOK
  <2>3. \A w \in Wavs : due[w] = Absent => due[w] <= logged[w]
    BY EventFacts DEF Absent, IInv, Typed, TypeOK
  <2>4. LogScanned' /\ HistoryComplete'
    BY <1>1, <1>2, <2>1, <2>3 DEF LogScanned, HistoryComplete
  <2> QED BY <1>3, <1>4, <1>5, <2>2, <2>4 DEF IInv, RequestInv
<1>7. CASE ScanDir
  <2>1. /\ rpc = "dir" /\ rpc' = "answered" /\ rlog' = [w \in Wavs |-> 0]
        /\ answer' = InRange([w \in Wavs |-> IF w \in disk THEN rlog[w] ELSE Absent])
    BY <1>7 DEF ScanDir
  <2>2. rlog \in [Wavs -> TextNumbers] /\ \A w \in Wavs : rlog[w] \in Nat
    BY EventFacts DEF IInv, Typed, TypeOK
  <2>3. Typed'
    <3>1. answer' \in [Wavs -> Content]
      BY <2>1, <2>2 DEF InRange, Content
    <3>2. rlog' \in [Wavs -> TextNumbers]
      BY <2>1, EventFacts
    <3> QED BY <1>1, <2>1, <3>1, <3>2 DEF IInv, Typed, TypeOK
  <2>4. HistoryComplete'
    <3> SUFFICES ASSUME NEW w \in Wavs, ~ (since = "recent" /\ w \in old)
                 PROVE  answer'[w] >= due[w] \/ (w \in raced /\ answer'[w] >= 0)
      BY <1>1 DEF HistoryComplete
    <3>1. answer'[w] = IF w \in disk THEN rlog[w] ELSE Absent
      BY <2>1 DEF InRange
    <3>2. CASE due[w] = Absent
      BY <2>2, <3>1, <3>2 DEF Absent
    <3>3. CASE due[w] # Absent
      <4>1. answer'[w] = rlog[w] /\ due[w] \in Nat
        BY <1>2, <3>1, <3>3
      <4>2. w \notin raced => due[w] <= rlog[w]
        BY <2>1 DEF IInv, RequestInv, LogScanned
      <4> QED BY <2>2, <4>1, <4>2
    <3> QED BY <3>2, <3>3
  <2>5. LogScanned'
    BY <2>1 DEF LogScanned
  <2> QED BY <1>3, <1>4, <1>5, <2>3, <2>4, <2>5 DEF IInv, RequestInv
<1> QED BY <1>6, <1>7

-----------------------------------------------------------------------------
(* The theorems.                                                           *)

LEMMA NextIInv == IInv /\ [Next]_vars => IInv'
<1> SUFFICES ASSUME IInv, [Next]_vars PROVE IInv'
  OBVIOUS
<1>1. CASE UNCHANGED vars
  <2>1. UNCHANGED <<disk, logged, old, mode, restored, task, found, raced, build, lines, names, blind, gen,
                    made, ready, recs, pending, rpc, since, rlog, answer, due>>
    BY <1>1 DEF vars, storeVars, taskVars, buildVars, indexVars, requestVars
  <2>2. Typed'
    BY <2>1 DEF IInv, Typed, TypeOK
  <2>3. PublishInv' /\ RequestInv'
    BY <2>1, PublishStays, RequestStays DEF IInv
  <2>4. IndexInv'
    BY <2>1, IndexStays DEF IInv
  <2> QED BY <2>2, <2>3, <2>4 DEF IInv
<1>2. ASSUME NEW w \in Wavs, Recording(w) PROVE IInv'
  BY <1>2, SaveStep, RestoreStep, AgeOutStep, TranscribeStep DEF Recording
<1>3. ASSUME NEW e \in Events, Publish(e) PROVE IInv'
  BY <1>3, AppendLogStep, LookupStep, ObserveStep DEF Publish
<1>4. CASE ReadLines \/ ReadNames \/ Swap
  BY <1>4, ReadLinesStep, ReadNamesStep, SwapStep
<1>5. CASE Forget \/ Track \/ Restart
  BY <1>5, ReloadStep, RestartStep
<1>6. ASSUME NEW range \in {"all", "recent"}, Request(range) PROVE IInv'
  BY <1>6, RequestStep
<1>7. CASE FromIndex \/ ScanLog \/ ScanDir
  BY <1>7, FromIndexStep, ScanStep
<1> QED BY <1>1, <1>2, <1>3, <1>4, <1>5, <1>6, <1>7 DEF Next

LEMMA RecordingsInvariant == Spec => []IInv
<1> QED BY InitIInv, NextIInv, PTL DEF Spec

\* Types; an entry holds back events only until it is ready, and lists only
\* recordings that are in the folder.
THEOREM TypeCorrect == Spec => []TypeOK
<1>1. IInv => TypeOK
  BY DEF IInv, Typed
<1> QED BY <1>1, RecordingsInvariant, PTL

\* While nothing of a recording is being published, the index has of it what a
\* restart would find, whatever was published while it was being built, looked up
\* an entry that a reload dropped, or was lost.
THEOREM IndexAgrees == Spec => []IndexMatchesDisk
<1>1. IInv => IndexMatchesDisk
  <2> SUFFICES ASSUME IInv, ready, NEW w \in disk, ~ Publishing(w)
               PROVE  /\ recs[w] = Absent => Beyond(w) \/ w \in restored
                      /\ recs[w] # Absent /\ w \notin raced => LatestText(w)
    BY DEF IndexMatchesDisk
  <2>1. build = "done" /\ w \in Wavs
    BY DEF IInv, Typed, TypeOK
  <2>2. \A e \in Events : e[1] = w => task[e] \notin InFlight
    BY DEF Publishing
  <2>3. <<w, 0>> \in Events /\ \A t \in 1..Texts[w] : <<w, t>> \in Events
    BY <2>1, EventFacts
  <2>4. ASSUME recs[w] = Absent, ~ Beyond(w) PROVE w \in restored
    <3>1. ToCome(w)
      BY <2>1, <2>4 DEF IInv, IndexInv, Listed, Known
    <3>2. task[<<w, 0>>] = "none"
      BY <2>2, <2>3, <3>1 DEF ToCome, Coming, InFlight
    <3> QED BY <3>1, <3>2 DEF ToCome
  <2>5. ASSUME recs[w] # Absent, w \notin raced PROVE LatestText(w)
    <3>1. Current(recs[w], w)
      BY <2>1, <2>5 DEF IInv, IndexInv, TextsCurrent, TextCurrent, TextOf
    <3>2. \A t \in 1..Texts[w] : ~ Coming(<<w, t>>)
      BY <2>2, <2>3 DEF Coming, InFlight
    <3> QED BY <3>1, <3>2 DEF Current, LatestText
  <2> QED BY <2>4, <2>5
<1> QED BY <1>1, RecordingsInvariant, PTL

\* A request is told of every recording and text published before it came.
THEOREM NothingMissing == Spec => []HistoryComplete
<1>1. IInv => HistoryComplete
  BY DEF IInv, RequestInv
<1> QED BY <1>1, RecordingsInvariant, PTL
=============================================================================
