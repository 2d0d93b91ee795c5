--------------------------- MODULE AnalyticsProofs ---------------------------
(***************************************************************************)
(* The totals of the analytics store and of the radio archive, for any     *)
(* clients, recordings, lengths of days and retention.                     *)
(***************************************************************************)
EXTENDS Analytics, FiniteSetTheorems, WellFoundedInduction, TLAPS

-----------------------------------------------------------------------------
(* Numbers and days.                                                       *)

LEMMA LeastNumber ==
  ASSUME NEW T, T \subseteq Nat, T # {}
  PROVE  \E x \in T : \A y \in T : x <= y
<1> DEFINE R == OpToRel(<, Nat)
<1>1. IsWellFoundedOn(R, Nat)
  BY NatLessThanWellFounded
<1>2. \A x, y \in Nat : x < y => <<x, y>> \in R
  BY DEF OpToRel
<1> HIDE DEF R
<1>3. \E x \in T : \A y \in T : ~ (<<y, x>> \in R)
  BY <1>1, WFMin, Zenon
<1>4. PICK x \in T : \A y \in T : ~ (<<y, x>> \in R)
  BY <1>3
<1>5. \A y \in T : ~ (y < x)
  BY <1>2, <1>4
<1> QED BY <1>4, <1>5

LEMMA UpTo ==
  ASSUME NEW N \in Nat, NEW S, 0 \in S, \A n \in 0..(N - 1) : n \in S => n + 1 \in S
  PROVE  \A n \in 0..N : n \in S
<1> DEFINE T == {n \in 0..N : n \notin S}
<1>1. SUFFICES ASSUME T # {} PROVE FALSE
  OBVIOUS
<1>a. T \subseteq Nat
  OBVIOUS
<1>2. PICK x \in T : \A y \in T : x <= y
  <2> HIDE DEF T
  <2> QED BY <1>1, <1>a, LeastNumber
<1>3. x # 0 /\ x - 1 \in 0..(N - 1) /\ x - 1 \notin T
  BY <1>2
<1>4. x - 1 \in S /\ (x - 1) + 1 = x
  BY <1>3
<1> QED BY <1>2, <1>3, <1>4

LEMMA DayFacts ==
  ASSUME NEW t \in Nat
  PROVE  /\ Day(t) \in Nat /\ DayLen * Day(t) \in Nat
         /\ DayLen * Day(t) <= t /\ t < DayLen * Day(t) + DayLen
<1>1. DayLen \in Nat \ {0}
  BY AnalyticsAssumption
<1> QED BY <1>1 DEF Day

LEMMA DayOrder ==
  ASSUME NEW t \in Nat, NEW u \in Nat
  PROVE  t <= u => Day(t) <= Day(u)
<1> SUFFICES ASSUME t <= u, Day(u) < Day(t) PROVE FALSE
  BY DayFacts
<1>1. DayLen \in Nat \ {0} /\ Day(t) \in Nat /\ Day(u) \in Nat
  BY AnalyticsAssumption, DayFacts
<1>2. DayLen * Day(u) + DayLen <= DayLen * Day(t)
  <2> DEFINE n == DayLen  a == Day(u)  b == Day(t)
  <2>1. n \in Nat \ {0} /\ a \in Nat /\ b \in Nat /\ a < b
    BY <1>1
  <2> HIDE DEF n, a, b
  <2>2. n * a + n <= n * b
    BY <2>1
  <2> QED BY <2>2 DEF n, a, b
<1>3. DayLen * Day(t) <= t /\ u < DayLen * Day(u) + DayLen
  BY DayFacts
<1> DEFINE x == DayLen * Day(u)  y == DayLen * Day(t)
<1>4. x \in Nat /\ y \in Nat
  BY DayFacts
<1> HIDE DEF x, y
<1>5. x + DayLen <= y /\ y <= t /\ u < x + DayLen
  BY <1>2, <1>3 DEF x, y
<1> QED BY <1>1, <1>4, <1>5

\* The day on which a tick d * DayLen or later falls is d or later.
LEMMA DayBegins ==
  ASSUME NEW d \in Nat, NEW t \in Nat
  PROVE  d * DayLen \in Nat /\ (t >= d * DayLen <=> Day(t) >= d)
<1>1. DayLen \in Nat \ {0} /\ Day(t) \in Nat
  BY AnalyticsAssumption, DayFacts
<1> DEFINE n == DayLen  a == Day(t)
<1>2. n * a <= t /\ t < n * a + n /\ n \in Nat \ {0} /\ a \in Nat
  BY <1>1, DayFacts
<1> HIDE DEF n, a
<1>3. d * n \in Nat /\ n * a \in Nat
  BY <1>2
<1>4. ASSUME a >= d PROVE t >= d * n
  <2>1. n * a >= d * n
    BY <1>2, <1>4
  <2> QED BY <2>1, <1>2, <1>3
<1>5. ASSUME a < d PROVE t < d * n
  <2>1. n * a + n <= d * n
    BY <1>2, <1>5
  <2> QED BY <2>1, <1>2, <1>3
<1>6. d * n \in Nat /\ (t >= d * n <=> a >= d)
  BY <1>2, <1>3, <1>4, <1>5
<1> QED BY <1>6 DEF n, a

-----------------------------------------------------------------------------
(* The inductive invariant, as operators on the values it relates.         *)

Kinds == {"start", "request", "offer", "connected", "end", "never", "tx", "done"}
Salts == Nat \X Nat
Names == Salts \X Clients
What == Clips \cup Nat \cup {"none"}
Peer ==
    [at : {"none", "offered", "connected"}, visitor : Names \cup {<<>>}, on : Nat \cup {None}]
AnEvent == [t : Nat, type : Kinds, visitor : Names \cup {<<>>}, what : What]
DayTotals ==
    [visitors : Nat, seen : SUBSET Names, listens : Nat, ends : Nat, tx : SUBSET Clips,
     peak : Nat, done : SUBSET Nat, since : SUBSET Nat]

\* Of the first n events of a file: where those of a type are, what they are
\* about, and whose they are.
At(s, n, type) == {i \in 1..n : s[i].type = type}
Whats(s, n, type) == {s[i].what : i \in At(s, n, type)}
VisitorsOf(s, n) == {s[i].visitor : i \in 1..n} \ {<<>>}

\* Totals that are those of these events.
Agrees(day, s, n) ==
    /\ day.visitors = Cardinality(VisitorsOf(s, n))
    /\ day.listens = Cardinality(At(s, n, "connected"))
    /\ day.ends = Cardinality(At(s, n, "end"))
    /\ day.tx = Whats(s, n, "tx")
    /\ day.done = Whats(s, n, "done")

\* What a day that is shown since the reset r has since then.
Marked(r, d, day) ==
    r.on # None /\ d >= r.on => day.since = {k \in day.done : k > r.done}

\* A file of day d, written while there were n transcriptions.
FileOf(d, s, n) ==
    /\ s \in Seq(AnEvent) /\ Len(s) > 0
    /\ \A i \in 1..Len(s) :
         /\ Day(s[i].t) = d
         /\ s[i].type = "done" => s[i].what \in 1..n
         /\ s[i].type = "tx" => s[i].what \in Clips

\* The invariant speaks of a book bk: for every day the events that its totals
\* are those of, in memory while the process runs and after a restart otherwise.
\* Days up to t are in it.
BookOK(n, bk, t) == \A d \in DOMAIN bk : d \in Day(Opened)..t /\ FileOf(d, bk[d], n)

\* The saved totals are those of the book.
DailyOK(r, bk, dl, t) ==
    \A d \in DOMAIN dl :
        /\ d \in DOMAIN bk /\ d < t /\ dl[d] \in DayTotals
        /\ Agrees(dl[d], bk[d], Len(bk[d])) /\ Marked(r, d, dl[d])

\* The totals in memory are those of the book.
TotalsOK(r, bk, ds, t) ==
    /\ DOMAIN ds = DOMAIN bk
    /\ \A d \in DOMAIN ds :
         /\ ds[d] \in DayTotals /\ Marked(r, d, ds[d])
         /\ Agrees(ds[d], bk[d], Len(bk[d]))
    /\ t \in DOMAIN bk => ds[t].seen = VisitorsOf(bk[t], Len(bk[t]))

\* What could not be written to a raw file, and the days of it.
Late(uw) == {u.event : u \in uw}
Gaps(uw) == {Day(u.event.t) : u \in uw}

EventsOf(f, d) == IF d \in DOMAIN f THEN {f[d][i] : i \in 1..Len(f[d])} ELSE {}

\* The day's raw file, if it has events, is what the book has of the day.
Whole(bk, rw, d) ==
    /\ d \in DOMAIN bk <=> d \in DOMAIN rw /\ rw[d] # <<>>
    /\ d \in DOMAIN bk => bk[d] = rw[d]

\* The raw files have no other events than the book.  Of a day that is not saved
\* they lack only some of lost, and nothing if none of these is of the day; of any
\* day with a file only some of late.
RawOK(bk, rw, dl, lost, late, t) ==
    /\ \A d \in DOMAIN rw : d \in Day(Opened)..t /\ rw[d] \in Seq(AnEvent)
    /\ \A d : EventsOf(rw, d) \subseteq EventsOf(bk, d)
    /\ \A d \in DOMAIN bk :
         /\ d \notin DOMAIN dl => EventsOf(bk, d) \subseteq EventsOf(rw, d) \cup lost
         /\ d \in DOMAIN rw => EventsOf(bk, d) \subseteq EventsOf(rw, d) \cup late
    /\ \A d : d \in DOMAIN dl \/ (\E ev \in lost : Day(ev.t) = d) \/ Whole(bk, rw, d)

BooksOK(bk, rw, dl, lost, t) ==
    /\ BookOK(done, bk, t) /\ DailyOK(reset, bk, dl, t)
    /\ RawOK(bk, rw, dl, lost, Late(unwritten), t)

BooksInv(bk) ==
    /\ running => /\ today \in Nat /\ today <= Today
                  /\ BooksOK(bk, raw, daily, Unkept, today)
                  /\ TotalsOK(reset, bk, days, today)
    /\ ~ running => days = NoDays /\ BooksOK(bk, raw, daily, {}, Today)

\* The book without the days whose salt did not get into the salt file.
Salted(bk, z) == [d \in DOMAIN bk \ z |-> bk[d]]

\* Salts in use, in a book and by sessions.
SaltsIn(bk, ss) ==
    {v[1] : v \in UNION {VisitorsOf(bk[d], Len(bk[d])) : d \in DOMAIN bk}}
      \cup {ss[c].visitor[1] : c \in {c \in Clients : ss[c].at # "none"}}

NoSessions == [c \in Clients |-> NoSession]

Seen(f, d) == IF d \in DOMAIN f THEN f[d] ELSE {}

\* One salt a day, up to the salt sf.
SaltsOK(bk, ss, sf) ==
    /\ sf.date # None => sf.date \in Nat /\ sf.salt \in Salts /\ sf.salt[1] = sf.date
    /\ \A s \in SaltsIn(bk, ss) :
         /\ s \in Salts /\ s[1] <= sf.date
         /\ s[1] = sf.date => s = sf.salt
         /\ \A u \in SaltsIn(bk, ss) : s[1] = u[1] => s = u
    /\ \A c \in Clients : ss[c].at # "none" =>
         ss[c].visitor \in Names /\ ss[c].visitor[2] = c /\ ss[c].visitor[1][1] = ss[c].on

\* The clients that the book names on a day were seen that day, and on a day
\* without gaps it names all of them.
PeopleOK(bk, sn, z, gaps) ==
    /\ \A d \in DOMAIN sn : IsFiniteSet(sn[d]) /\ sn[d] \subseteq Nat \X Clients
    /\ \A d \in DOMAIN bk : \A v \in VisitorsOf(bk[d], Len(bk[d])) :
         v \in Names /\ <<v[1][1], v[2]>> \in Seen(sn, d)
    /\ \A d : d \in z \/ d \in gaps \/
         \A p \in Seen(sn, d) :
            d \in DOMAIN bk /\ \E v \in VisitorsOf(bk[d], Len(bk[d])) : v[1][1] = p[1] /\ v[2] = p[2]

VisitorsInv(bk) ==
    /\ saltFile.date <= Today /\ SaltsOK(Salted(bk, unsalted), NoSessions, saltFile)
    /\ running =>
         /\ SaltsOK(Salted(bk, unsalted), session, [date |-> today, salt |-> salt])
         /\ today \notin unsalted => saltFile = [date |-> today, salt |-> salt]
    /\ PeopleOK(Salted(bk, unsalted), seenOn, unsalted, Gaps(unwritten))

\* The recordings that were counted on day d.
Tx(bk, d) == IF d \in DOMAIN bk THEN Whats(bk[d], Len(bk[d]), "tx") ELSE {}

ClipsInv(bk) ==
    /\ \A d \in DOMAIN bk : \A i \in 1..Len(bk[d]) : bk[d][i].type = "tx" =>
         /\ bk[d][i].t \in Opened..now
         /\ Day(clip[bk[d][i].what].start) = d => bk[d][i].t = clip[bk[d][i].what].start
    /\ \A d : \A c \in Tx(bk, d) : c \in Clips /\ clip[c].at \in {"counted", "saved", "lost"}
    /\ \A c \in Clips :
         /\ clip[c].at \in {"counted", "saved"} => c \in Untold \/ \E d : c \in Tx(bk, d)
         /\ clip[c].at # "none" => clip[c].start \in Opened..now
         /\ c \in wavs => clip[c].at = "saved"
         /\ clip[c].at \in {"recording", "counted"} => running
    /\ \A w \in OldClips : w \in wavs /\ clip[w].start \in 0..(Opened - 1)

\* The day's totals are saved, and its raw file tells of no transmission.
Exempt(w) ==
    LET d == Day(clip[w].start)
    IN d \in DOMAIN daily /\ daily[d].tx # {} /\ Told(d) = {}

RadioInv(bk) ==
    /\ \A d : \A c \in Tx(bk, d) \cap (archive \cup radioFile.clips) :
         Day(clip[c].start) # d \/ c \in Untold
    /\ radioFile.made => \A w \in OldClips : w \in radioFile.clips \cup unread \/ Exempt(w)
    /\ running /\ scan = None => \A w \in OldClips : w \in archive \cup unread \/ Exempt(w)
    /\ running /\ scan \in Nat =>
         /\ scan \in 0..now /\ ~ radioFile.made
         /\ \A w \in OldClips : clip[w].start < scan \/ Exempt(w)
         /\ \A d : \A c \in Tx(bk, d) :
              Day(clip[c].start) = d => clip[c].start >= scan \/ c \in Untold
         /\ \A c \in Clips : clip[c].at = "recording" => clip[c].start >= scan

Typed ==
    /\ now \in Nat /\ Opened <= now /\ starts \in Nat /\ running \in BOOLEAN
    /\ done \in Nat /\ concurrent \in Nat
    /\ reset \in [on : Nat \cup {None}, done : Nat]
    /\ reset.on <= Today /\ reset.done <= done
    /\ saltFile \in [date : Nat \cup {None}, salt : Salts \cup {<<>>}]
    /\ wavs \subseteq OldClips \cup Clips /\ archive \subseteq wavs
    /\ radioFile \in [made : BOOLEAN, clips : SUBSET wavs]
    /\ clip \in [OldClips \cup Clips ->
                   [at : {"none", "recording", "counted", "saved", "lost"},
                    start : Nat \cup {None}]]
    /\ session \in [Clients -> Peer]
    /\ scan \in Nat \cup {None, Failed}
    /\ \A u \in unwritten : u.start \in 0..starts /\ u.event \in AnEvent

Inv(bk) == BooksInv(bk) /\ VisitorsInv(bk) /\ ClipsInv(bk) /\ RadioInv(bk)

IInv == Typed /\ \E bk : Inv(bk)

-----------------------------------------------------------------------------
(* What a day's totals are of its events.                                  *)

\* Events of a file are counted alike in a file that begins with them.
SameCounts(s, z, n) ==
    /\ \A type : At(s, n, type) = At(z, n, type) /\ Whats(s, n, type) = Whats(z, n, type)
    /\ VisitorsOf(s, n) = VisitorsOf(z, n)

LEMMA SameBeginning ==
  ASSUME NEW s, NEW z, NEW n \in Nat, \A i \in 1..n : s[i] = z[i]
  PROVE  SameCounts(s, z, n)
<1>1. ASSUME NEW type PROVE At(s, n, type) = At(z, n, type)
  BY DEF At
<1>2. ASSUME NEW type PROVE Whats(s, n, type) = Whats(z, n, type)
  BY <1>1 DEF Whats, At
<1>3. VisitorsOf(s, n) = VisitorsOf(z, n)
  BY DEF VisitorsOf
<1> QED BY <1>1, <1>2, <1>3 DEF SameCounts

LEMMA NoEvents ==
  ASSUME NEW s
  PROVE  /\ \A type : At(s, 0, type) = {} /\ Whats(s, 0, type) = {}
         /\ VisitorsOf(s, 0) = {}
BY DEF At, Whats, VisitorsOf

\* One event more.
LEMMA OneMore ==
  ASSUME NEW s, NEW n \in Nat
  PROVE  /\ \A type : At(s, n + 1, type) =
              IF s[n + 1].type = type THEN At(s, n, type) \cup {n + 1} ELSE At(s, n, type)
         /\ \A type : Whats(s, n + 1, type) =
              IF s[n + 1].type = type THEN Whats(s, n, type) \cup {s[n + 1].what}
              ELSE Whats(s, n, type)
         /\ VisitorsOf(s, n + 1) = VisitorsOf(s, n) \cup ({s[n + 1].visitor} \ {<<>>})
<1>1. 1..(n + 1) = (1..n) \cup {n + 1}
  OBVIOUS
<1>2. ASSUME NEW type
      PROVE  At(s, n + 1, type) =
               IF s[n + 1].type = type THEN At(s, n, type) \cup {n + 1} ELSE At(s, n, type)
  BY <1>1 DEF At
<1>3. ASSUME NEW type
      PROVE  Whats(s, n + 1, type) =
               IF s[n + 1].type = type THEN Whats(s, n, type) \cup {s[n + 1].what}
               ELSE Whats(s, n, type)
  BY <1>2 DEF Whats
<1>4. VisitorsOf(s, n + 1) = VisitorsOf(s, n) \cup ({s[n + 1].visitor} \ {<<>>})
  BY <1>1 DEF VisitorsOf
<1> QED BY <1>2, <1>3, <1>4

LEMMA FiniteCounts ==
  ASSUME NEW s, NEW n \in Nat
  PROVE  /\ IsFiniteSet(VisitorsOf(s, n)) /\ Cardinality(VisitorsOf(s, n)) \in Nat
         /\ \A type : IsFiniteSet(At(s, n, type)) /\ Cardinality(At(s, n, type)) \in Nat
<1> DEFINE S == {k \in 0..n : IsFiniteSet(VisitorsOf(s, k))}
<1>1. 0 \in S
  BY NoEvents, FS_EmptySet
<1>2. ASSUME NEW k \in 0..(n - 1), k \in S PROVE k + 1 \in S
  <2>0. k \in Nat
    OBVIOUS
  <2>1. VisitorsOf(s, k + 1) = VisitorsOf(s, k) \cup ({s[k + 1].visitor} \ {<<>>})
    BY <2>0, OneMore, Zenon
  <2>2. VisitorsOf(s, k + 1) = VisitorsOf(s, k)
          \/ VisitorsOf(s, k + 1) = VisitorsOf(s, k) \cup {s[k + 1].visitor}
    BY <2>1
  <2>3. IsFiniteSet(VisitorsOf(s, k))
    BY <1>2
  <2>4. IsFiniteSet(VisitorsOf(s, k) \cup {s[k + 1].visitor})
    BY <2>3, FS_AddElement
  <2>5. IsFiniteSet(VisitorsOf(s, k + 1))
    BY <2>2, <2>3, <2>4
  <2> QED BY <2>5
<1>3. n \in S
  <2> HIDE DEF S
  <2>1. \A k \in 0..(n - 1) : k \in S => k + 1 \in S
    BY <1>2
  <2>2. \A k \in 0..n : k \in S
    BY <1>1, <2>1, UpTo
  <2> QED BY <2>2
<1>4. IsFiniteSet(VisitorsOf(s, n)) /\ Cardinality(VisitorsOf(s, n)) \in Nat
  BY <1>3, FS_CardinalityType
<1>5. ASSUME NEW type
      PROVE  IsFiniteSet(At(s, n, type)) /\ Cardinality(At(s, n, type)) \in Nat
  <2>1. At(s, n, type) \in SUBSET (1..n) /\ IsFiniteSet(1..n)
    BY FS_Interval DEF At
  <2>2. IsFiniteSet(At(s, n, type))
    BY <2>1, FS_Subset
  <2> QED BY <2>2, FS_CardinalityType
<1> QED BY <1>4, <1>5

\* How one event more changes the numbers.
LEMMA OneMoreCounted ==
  ASSUME NEW s, NEW n \in Nat
  PROVE  /\ \A type : Cardinality(At(s, n + 1, type)) =
              IF s[n + 1].type = type THEN Cardinality(At(s, n, type)) + 1
              ELSE Cardinality(At(s, n, type))
         /\ Cardinality(VisitorsOf(s, n + 1)) =
              IF s[n + 1].visitor = <<>> \/ s[n + 1].visitor \in VisitorsOf(s, n)
              THEN Cardinality(VisitorsOf(s, n)) ELSE Cardinality(VisitorsOf(s, n)) + 1
<1>1. ASSUME NEW type
      PROVE  Cardinality(At(s, n + 1, type)) =
               IF s[n + 1].type = type THEN Cardinality(At(s, n, type)) + 1
               ELSE Cardinality(At(s, n, type))
  <2>1. CASE s[n + 1].type = type
    <3>1. At(s, n + 1, type) = At(s, n, type) \cup {n + 1} /\ n + 1 \notin At(s, n, type)
      BY <2>1, OneMore DEF At
    <3>2. IsFiniteSet(At(s, n, type))
      BY FiniteCounts
    <3> QED BY <2>1, <3>1, <3>2, FS_AddElement
  <2>2. CASE s[n + 1].type # type
    BY <2>2, OneMore
  <2> QED BY <2>1, <2>2
<1>2. IsFiniteSet(VisitorsOf(s, n))
  BY FiniteCounts
<1>3. VisitorsOf(s, n + 1) = VisitorsOf(s, n) \cup ({s[n + 1].visitor} \ {<<>>})
  BY OneMore
<1>4. CASE s[n + 1].visitor = <<>> \/ s[n + 1].visitor \in VisitorsOf(s, n)
  <2>1. VisitorsOf(s, n + 1) = VisitorsOf(s, n)
    BY <1>3, <1>4
  <2> QED BY <1>1, <1>4, <2>1
<1>5. CASE ~ (s[n + 1].visitor = <<>> \/ s[n + 1].visitor \in VisitorsOf(s, n))
  <2>1. VisitorsOf(s, n + 1) = VisitorsOf(s, n) \cup {s[n + 1].visitor}
    BY <1>3, <1>5
  <2>2. Cardinality(VisitorsOf(s, n) \cup {s[n + 1].visitor}) = Cardinality(VisitorsOf(s, n)) + 1
    BY <1>2, <1>5, FS_AddElement
  <2>3. Cardinality(VisitorsOf(s, n + 1)) = Cardinality(VisitorsOf(s, n)) + 1
    BY <2>1, <2>2
  <2> QED BY <1>1, <1>5, <2>3
<1> QED BY <1>4, <1>5, <1>1

\* Totals of the first n events of a day's file, with the visitors so far.
Open(d, day, s, n) ==
    /\ day \in DayTotals /\ Agrees(day, s, n) /\ Marked(reset, d, day)
    /\ day.seen = VisitorsOf(s, n)

\* An event as there are: what it is about fits its type.
Proper(ev) ==
    /\ ev \in AnEvent
    /\ ev.type = "tx" => ev.what \in Clips
    /\ ev.type = "done" => ev.what \in Nat

LEMMA NewDayFacts ==
  ASSUME NEW d, NEW s, NEW listeners \in Nat
  PROVE  Open(d, NewDay(listeners), s, 0)
<1>1. /\ At(s, 0, "connected") = {} /\ At(s, 0, "end") = {} /\ VisitorsOf(s, 0) = {}
      /\ Whats(s, 0, "tx") = {} /\ Whats(s, 0, "done") = {}
  BY NoEvents
<1>2. Cardinality({}) = 0
  BY FS_EmptySet
<1>3. NewDay(listeners) \in DayTotals /\ NewDay(listeners).seen = {}
  BY DEF NewDay, DayTotals
<1>4. Agrees(NewDay(listeners), s, 0)
  BY <1>1, <1>2 DEF NewDay, Agrees
<1>5. Marked(reset, d, NewDay(listeners))
  BY DEF NewDay, Marked
<1> QED BY <1>1, <1>3, <1>4, <1>5 DEF Open

LEMMA VisitedFacts ==
  ASSUME NEW day \in DayTotals, NEW ev \in AnEvent, NEW new, new = Visited(day, ev)
  PROVE  /\ new \in DayTotals
         /\ new.seen = day.seen \cup ({ev.visitor} \ {<<>>})
         /\ new.visitors = IF ev.visitor = <<>> \/ ev.visitor \in day.seen
                           THEN day.visitors ELSE day.visitors + 1
         /\ new.listens = day.listens /\ new.ends = day.ends /\ new.tx = day.tx
         /\ new.done = day.done /\ new.since = day.since /\ new.peak = day.peak
<1>1. ev.visitor \in Names \cup {<<>>}
  BY DEF AnEvent
<1>2. CASE ev.visitor = <<>> \/ ev.visitor \in day.seen
  <2>1. new = day
    BY <1>2 DEF Visited
  <2>2. day.seen = day.seen \cup ({ev.visitor} \ {<<>>})
    BY <1>2
  <2> QED BY <1>2, <2>1, <2>2
<1>3. CASE ~ (ev.visitor = <<>> \/ ev.visitor \in day.seen)
  <2>1. new = [day EXCEPT !.visitors = @ + 1, !.seen = @ \cup {ev.visitor}]
    BY <1>3 DEF Visited
  <2>2. ev.visitor \in Names /\ {ev.visitor} \ {<<>>} = {ev.visitor}
    BY <1>1, <1>3
  <2>3. new \in DayTotals
    <3>1. day.seen \cup {ev.visitor} \in SUBSET Names /\ day.visitors + 1 \in Nat
      BY <2>2 DEF DayTotals
    <3> QED BY <2>1, <3>1 DEF DayTotals
  <2>4. /\ new.seen = day.seen \cup {ev.visitor} /\ new.visitors = day.visitors + 1
        /\ new.listens = day.listens /\ new.ends = day.ends /\ new.tx = day.tx
        /\ new.done = day.done /\ new.since = day.since /\ new.peak = day.peak
    BY <2>1 DEF DayTotals
  <2> QED BY <1>3, <2>2, <2>3, <2>4
<1> QED BY <1>2, <1>3

\* What an event makes of a day's totals.
Grown(day, ev, new) ==
    /\ new \in DayTotals
    /\ new.seen = day.seen \cup ({ev.visitor} \ {<<>>})
    /\ new.visitors = IF ev.visitor = <<>> \/ ev.visitor \in day.seen
                      THEN day.visitors ELSE day.visitors + 1
    /\ new.listens = IF ev.type = "connected" THEN day.listens + 1 ELSE day.listens
    /\ new.ends = IF ev.type = "end" THEN day.ends + 1 ELSE day.ends
    /\ new.tx = IF ev.type = "tx" THEN day.tx \cup {ev.what} ELSE day.tx
    /\ new.done = IF ev.type = "done" THEN day.done \cup {ev.what} ELSE day.done
    /\ new.since = IF ev.type = "done" /\ AfterReset(ev.what)
                   THEN day.since \cup {ev.what} ELSE day.since

LEMMA TotalledFacts ==
  ASSUME NEW day \in DayTotals, NEW ev, Proper(ev), NEW listeners \in Nat,
         NEW new, new = Totalled(day, ev, listeners)
  PROVE  Grown(day, ev, new)
<1> DEFINE v == Visited(day, ev)
<1>1. ev \in AnEvent
  BY DEF Proper
<1>2. /\ v \in DayTotals
      /\ v.seen = day.seen \cup ({ev.visitor} \ {<<>>})
      /\ v.visitors = IF ev.visitor = <<>> \/ ev.visitor \in day.seen
                      THEN day.visitors ELSE day.visitors + 1
      /\ v.listens = day.listens /\ v.ends = day.ends /\ v.tx = day.tx
      /\ v.done = day.done /\ v.since = day.since /\ v.peak = day.peak
  BY <1>1, VisitedFacts
<1> HIDE DEF v
<1>3. new = CASE ev.type = "connected" ->
                  [v EXCEPT !.listens = @ + 1,
                            !.peak = IF listeners + 1 > @ THEN listeners + 1 ELSE @]
             [] ev.type = "end" -> [v EXCEPT !.ends = @ + 1]
             [] ev.type = "tx" -> [v EXCEPT !.tx = @ \cup {ev.what}]
             [] ev.type = "done" ->
                  [v EXCEPT !.done = @ \cup {ev.what},
                            !.since = IF AfterReset(ev.what) THEN @ \cup {ev.what} ELSE @]
             [] OTHER -> v
  BY DEF Totalled, v
<1>4. CASE ev.type = "connected"
  <2>1. new = [v EXCEPT !.listens = @ + 1,
                        !.peak = IF listeners + 1 > @ THEN listeners + 1 ELSE @]
    BY <1>3, <1>4
  <2>2. new \in DayTotals
    <3>1. /\ v.listens + 1 \in Nat
          /\ (IF listeners + 1 > v.peak THEN listeners + 1 ELSE v.peak) \in Nat
      BY <1>2 DEF DayTotals
    <3> QED BY <1>2, <2>1, <3>1 DEF DayTotals
  <2>3. /\ new.listens = v.listens + 1 /\ new.seen = v.seen /\ new.visitors = v.visitors
        /\ new.ends = v.ends /\ new.tx = v.tx /\ new.done = v.done /\ new.since = v.since
    BY <1>2, <2>1 DEF DayTotals
  <2> QED BY <1>2, <1>4, <2>2, <2>3 DEF Grown
<1>5. CASE ev.type = "end"
  <2>1. new = [v EXCEPT !.ends = @ + 1]
    BY <1>3, <1>5
  <2> QED BY <1>2, <1>5, <2>1 DEF DayTotals, Grown
<1>6. CASE ev.type = "tx"
  <2>1. new = [v EXCEPT !.tx = @ \cup {ev.what}] /\ ev.what \in Clips
    BY <1>3, <1>6 DEF Proper
  <2> QED BY <1>2, <1>6, <2>1 DEF DayTotals, Grown
<1>7. CASE ev.type = "done"
  <2>1. ev.what \in Nat
    BY <1>7 DEF Proper
  <2>2. CASE AfterReset(ev.what)
    <3>1. new = [v EXCEPT !.done = @ \cup {ev.what}, !.since = @ \cup {ev.what}]
      BY <1>3, <1>7, <2>2
    <3>2. new \in DayTotals
      <4>1. v.done \cup {ev.what} \in SUBSET Nat /\ v.since \cup {ev.what} \in SUBSET Nat
        BY <1>2, <2>1 DEF DayTotals
      <4> QED BY <1>2, <3>1, <4>1 DEF DayTotals
    <3>3. /\ new.done = v.done \cup {ev.what} /\ new.since = v.since \cup {ev.what}
          /\ new.seen = v.seen /\ new.visitors = v.visitors /\ new.listens = v.listens
          /\ new.ends = v.ends /\ new.tx = v.tx
      BY <1>2, <3>1 DEF DayTotals
    <3> QED BY <1>2, <1>7, <2>2, <3>2, <3>3 DEF Grown
  <2>3. CASE ~ AfterReset(ev.what)
    <3>1. new = [v EXCEPT !.done = @ \cup {ev.what}, !.since = @]
      BY <1>3, <1>7, <2>3
    <3>2. new \in DayTotals
      <4>1. v.done \cup {ev.what} \in SUBSET Nat /\ v.since \cup {ev.what} \in SUBSET Nat
        BY <1>2, <2>1 DEF DayTotals
      <4> QED BY <1>2, <3>1, <4>1 DEF DayTotals
    <3>3. /\ new.done = v.done \cup {ev.what} /\ new.since = v.since
          /\ new.seen = v.seen /\ new.visitors = v.visitors /\ new.listens = v.listens
          /\ new.ends = v.ends /\ new.tx = v.tx
      BY <1>2, <3>1 DEF DayTotals
    <3> QED BY <1>2, <1>7, <2>3, <3>2, <3>3 DEF Grown
  <2> QED BY <2>2, <2>3
<1>8. CASE ev.type \notin {"connected", "end", "tx", "done"}
  <2>1. new = v
    BY <1>3, <1>8
  <2> QED BY <1>2, <1>8, <2>1 DEF Grown
<1> QED BY <1>4, <1>5, <1>6, <1>7, <1>8

\* One event more of the day, and the totals are those of one event more.
LEMMA DayStep ==
  ASSUME NEW d, NEW day, NEW s, NEW n \in Nat, Proper(s[n + 1]), NEW listeners \in Nat,
         Open(d, day, s, n), reset.done \in Int
  PROVE  Open(d, Totalled(day, s[n + 1], listeners), s, n + 1)
<1> DEFINE ev == s[n + 1]
           new == Totalled(day, ev, listeners)
<1>1. /\ day \in DayTotals /\ Agrees(day, s, n) /\ Marked(reset, d, day)
      /\ day.seen = VisitorsOf(s, n)
  BY DEF Open
<1>a. new = Totalled(day, ev, listeners) /\ Proper(ev)
  OBVIOUS
<1>b. ev = s[n + 1]
  OBVIOUS
<1> HIDE DEF new, ev
<1>2. Grown(day, ev, new)
  BY <1>1, <1>a, TotalledFacts
<1>3. VisitorsOf(s, n + 1) = VisitorsOf(s, n) \cup ({ev.visitor} \ {<<>>})
  BY <1>b, OneMore
<1>4. /\ Whats(s, n + 1, "tx") =
           IF ev.type = "tx" THEN Whats(s, n, "tx") \cup {ev.what} ELSE Whats(s, n, "tx")
      /\ Whats(s, n + 1, "done") =
           IF ev.type = "done" THEN Whats(s, n, "done") \cup {ev.what} ELSE Whats(s, n, "done")
  BY <1>b, OneMore
<1>5. /\ Cardinality(At(s, n + 1, "connected")) =
           IF ev.type = "connected" THEN Cardinality(At(s, n, "connected")) + 1
           ELSE Cardinality(At(s, n, "connected"))
      /\ Cardinality(At(s, n + 1, "end")) =
           IF ev.type = "end" THEN Cardinality(At(s, n, "end")) + 1
           ELSE Cardinality(At(s, n, "end"))
      /\ Cardinality(VisitorsOf(s, n + 1)) =
           IF ev.visitor = <<>> \/ ev.visitor \in VisitorsOf(s, n)
           THEN Cardinality(VisitorsOf(s, n)) ELSE Cardinality(VisitorsOf(s, n)) + 1
  BY <1>b, OneMoreCounted
<1>6. Agrees(new, s, n + 1)
  BY <1>1, <1>2, <1>4, <1>5 DEF Agrees, Grown
<1>7. new.seen = VisitorsOf(s, n + 1)
  BY <1>1, <1>2, <1>3 DEF Grown
<1>8. Marked(reset, d, new)
  <2> SUFFICES ASSUME reset.on # None, d >= reset.on
               PROVE  new.since = {k \in new.done : k > reset.done}
    BY DEF Marked
  <2>1. day.since = {k \in day.done : k > reset.done}
    BY <1>1 DEF Marked
  <2>2. AfterReset(ev.what) <=> ev.what > reset.done
    BY DEF AfterReset
  <2>3. CASE ev.type = "done"
    BY <1>2, <2>1, <2>2, <2>3 DEF Grown
  <2>4. CASE ev.type # "done"
    BY <1>2, <2>1, <2>4 DEF Grown
  <2> QED BY <2>3, <2>4
<1>9. Open(d, new, s, n + 1)
  BY <1>2, <1>6, <1>7, <1>8 DEF Open, Grown
<1> QED BY <1>9, <1>a, <1>b

LEMMA ListeningFacts ==
  ASSUME NEW n \in Nat, NEW ev
  PROVE  Listening(n, ev) \in Nat
BY DEF Listening

-----------------------------------------------------------------------------
(* Replaying files.                                                        *)

LEMMA WithFacts ==
  ASSUME NEW f, NEW d, NEW v
  PROVE  /\ DOMAIN With(f, d, v) = DOMAIN f \cup {d} /\ With(f, d, v)[d] = v
         /\ \A e \in DOMAIN f \ {d} : With(f, d, v)[e] = f[e]
BY DEF With

\* The totals r after event n + 1 of the file s of day d, from those before it.
Stepped(a, r, d, s, n) ==
    /\ DOMAIN r.days = DOMAIN a.days \cup {d} /\ r.concurrent \in Nat
    /\ \A e \in DOMAIN a.days \ {d} : r.days[e] = a.days[e]
    /\ Open(d, r.days[d], s, n + 1)

LEMMA ApplyFacts ==
  ASSUME NEW a, a.concurrent \in Nat, NEW s, NEW n \in Nat, Proper(s[n + 1]),
         reset.done \in Int, NEW d, d = Day(s[n + 1].t),
         \/ d \in DOMAIN a.days /\ Open(d, a.days[d], s, n)
         \/ d \notin DOMAIN a.days /\ n = 0,
         NEW r, r = Apply(a, s[n + 1])
  PROVE  Stepped(a, r, d, s, n)
<1> DEFINE old == Totals(a.days, d, a.concurrent)
           new == Totalled(old, s[n + 1], a.concurrent)
<1>1. Open(d, old, s, n)
  <2>1. CASE d \in DOMAIN a.days
    BY <2>1 DEF Totals
  <2>2. CASE d \notin DOMAIN a.days
    BY <2>2, NewDayFacts DEF Totals
  <2> QED BY <2>1, <2>2
<1>2. r.days = With(a.days, d, new) /\ r.concurrent = Listening(a.concurrent, s[n + 1])
  BY DEF Apply
<1> HIDE DEF old
<1>3. Open(d, new, s, n + 1)
  BY <1>1, DayStep
<1> HIDE DEF new
<1>4. r.concurrent \in Nat
  BY <1>2, ListeningFacts
<1> DEFINE w == With(a.days, d, new)
<1>5. /\ DOMAIN w = DOMAIN a.days \cup {d} /\ w[d] = new
      /\ \A e \in DOMAIN a.days \ {d} : w[e] = a.days[e]
  BY DEF With
<1>6. r.days = w
  BY <1>2
<1> HIDE DEF w
<1> QED BY <1>3, <1>4, <1>5, <1>6 DEF Stepped

LEMMA FoldedDefined ==
  ASSUME NEW a, NEW s, Len(s) \in Nat
  PROVE  \E g : /\ g[0] = a /\ Folded(a, s) = g[Len(s)]
                /\ \A n \in 1..Len(s) : g[n] = Apply(g[n - 1], s[n])
<1> DEFINE Body(g, N) == [n \in 0..N |-> IF n = 0 THEN a ELSE Apply(g[n - 1], s[n])]
           S == {N \in 0..Len(s) : \E g : g = Body(g, N)}
<1>1. 0 \in S
  <2> DEFINE h == [n \in 0..0 |-> a]
  <2>1. h = Body(h, 0)
    OBVIOUS
  <2> HIDE DEF h
  <2>2. \E g : g = Body(g, 0)
    BY <2>1
  <2> QED BY <2>2
<1>2. ASSUME NEW N \in 0..(Len(s) - 1), N \in S
      PROVE  N + 1 \in S
  <2>1. PICK g : g = Body(g, N)
    BY <1>2
  <2>2. N + 1 \in 0..Len(s)
    OBVIOUS
  <2> DEFINE h == [n \in 0..(N + 1) |-> IF n = N + 1 THEN Apply(g[N], s[N + 1]) ELSE g[n]]
  <2>3. ASSUME NEW n \in 0..(N + 1)
        PROVE  h[n] = IF n = 0 THEN a ELSE Apply(h[n - 1], s[n])
    <3>1. CASE n = N + 1
      <4>1. n # 0 /\ n - 1 = N /\ N \in 0..(N + 1) /\ N # N + 1
        BY <3>1, <2>2
      <4> QED BY <4>1, <3>1
    <3>2. CASE n = 0
      BY <3>2, <2>1, <2>2
    <3>3. CASE n # N + 1 /\ n # 0
      <4>1. n \in 0..N /\ n - 1 \in 0..(N + 1) /\ n - 1 # N + 1
        BY <3>3, <2>2
      <4>2. g[n] = Apply(g[n - 1], s[n])
        BY <2>1, <3>3, <4>1
      <4> QED BY <3>3, <4>1, <4>2
    <3> QED BY <3>1, <3>2, <3>3
  <2>4. h = Body(h, N + 1)
    BY <2>3
  <2> QED BY <2>2, <2>4
<1>3. Len(s) \in S
  <2> HIDE DEF S
  <2>1. \A n \in 0..(Len(s) - 1) : n \in S => n + 1 \in S
    BY <1>2
  <2>2. \A n \in 0..Len(s) : n \in S
    BY <1>1, <2>1, UpTo
  <2> QED BY <2>2
<1>4. \E g : g = Body(g, Len(s))
  BY <1>3
<1> DEFINE f == CHOOSE g : g = Body(g, Len(s))
<1>5. f = Body(f, Len(s))
  BY <1>4
<1>6. Folded(a, s) = f[Len(s)]
  BY DEF Folded
<1> HIDE DEF f
<1>7. 0 \in 0..Len(s) /\ \A n \in 1..Len(s) : n \in 0..Len(s) /\ n # 0
  OBVIOUS
<1>8. f[0] = a
  BY <1>5, <1>7
<1>9. \A n \in 1..Len(s) : f[n] = Apply(f[n - 1], s[n])
  BY <1>5, <1>7
<1> QED BY <1>6, <1>8, <1>9

\* A file's events, in order.
LEMMA FileFacts ==
  ASSUME NEW d, NEW s, NEW k \in Nat, FileOf(d, s, k)
  PROVE  /\ Len(s) \in Nat \ {0}
         /\ \A i \in 1..Len(s) : Proper(s[i]) /\ Day(s[i].t) = d
<1>1. Len(s) \in Nat \ {0} /\ s \in Seq(AnEvent)
  BY DEF FileOf
<1>2. ASSUME NEW i \in 1..Len(s) PROVE Proper(s[i]) /\ Day(s[i].t) = d
  <2>1. s[i] \in AnEvent
    BY <1>1
  <2> QED BY <2>1 DEF FileOf, Proper
<1> QED BY <1>1, <1>2

\* Replaying the file of a day.
LEMMA FoldedFacts ==
  ASSUME NEW a, a.concurrent \in Nat, reset.done \in Int,
         NEW d, d \notin DOMAIN a.days, NEW k \in Nat, NEW s, FileOf(d, s, k),
         NEW r, r = Folded(a, s)
  PROVE  /\ DOMAIN r.days = DOMAIN a.days \cup {d} /\ r.concurrent \in Nat
         /\ \A e \in DOMAIN a.days : r.days[e] = a.days[e]
         /\ Open(d, r.days[d], s, Len(s))
<1>1. /\ Len(s) \in Nat \ {0}
      /\ \A i \in 1..Len(s) : Proper(s[i]) /\ Day(s[i].t) = d
  BY FileFacts
<1>2. PICK g : /\ g[0] = a /\ r = g[Len(s)]
               /\ \A n \in 1..Len(s) : g[n] = Apply(g[n - 1], s[n])
  BY <1>1, FoldedDefined
<1> DEFINE Good(n) == /\ DOMAIN g[n].days = DOMAIN a.days \cup {d} /\ g[n].concurrent \in Nat
                      /\ \A e \in DOMAIN a.days : g[n].days[e] = a.days[e]
                      /\ Open(d, g[n].days[d], s, n)
           S == {n \in 0..Len(s) : n > 0 => Good(n)}
<1>3. ASSUME NEW n \in 0..(Len(s) - 1), n > 0 => Good(n)
      PROVE  Good(n + 1)
  <2>1. n + 1 \in 1..Len(s) /\ n \in Nat /\ (n + 1) - 1 = n
    BY <1>1
  <2>2. g[n + 1] = Apply(g[n], s[n + 1])
    BY <1>2, <2>1
  <2>3. Proper(s[n + 1]) /\ d = Day(s[n + 1].t)
    BY <1>1, <2>1
  <2>4. CASE n = 0
    <3>1. g[n] = a
      BY <1>2, <2>4
    <3>2. g[n].concurrent \in Nat /\ d \notin DOMAIN g[n].days
      BY <3>1
    <3> DEFINE before == g[n]
               after == g[n + 1]
    <3> HIDE DEF before, after
    <3>3. Stepped(before, after, d, s, n)
      BY <2>1, <2>2, <2>3, <2>4, <3>2, ApplyFacts DEF before, after
    <3> QED BY <3>1, <3>3 DEF before, after, Stepped
  <2>5. CASE n > 0
    <3> DEFINE before == g[n]
               after == g[n + 1]
    <3>1. /\ DOMAIN before.days = DOMAIN a.days \cup {d} /\ before.concurrent \in Nat
          /\ \A e \in DOMAIN a.days : before.days[e] = a.days[e]
          /\ Open(d, before.days[d], s, n)
      BY <1>3, <2>5
    <3>2. after = Apply(before, s[n + 1])
      BY <2>2
    <3> HIDE DEF before, after
    <3>3. /\ DOMAIN after.days = DOMAIN before.days \cup {d} /\ after.concurrent \in Nat
          /\ \A e \in DOMAIN before.days \ {d} : after.days[e] = before.days[e]
          /\ Open(d, after.days[d], s, n + 1)
      BY <2>1, <2>3, <3>1, <3>2, ApplyFacts DEF Stepped
    <3>4. /\ DOMAIN after.days = DOMAIN a.days \cup {d} /\ after.concurrent \in Nat
          /\ \A e \in DOMAIN a.days : after.days[e] = a.days[e]
      BY <3>1, <3>3
    <3> QED BY <3>3, <3>4 DEF after
  <2> QED BY <2>1, <2>4, <2>5
<1>4. \A n \in 0..Len(s) : n \in S
  <2>1. 0 \in S
    BY <1>1
  <2>2. \A n \in 0..(Len(s) - 1) : n \in S => n + 1 \in S
    <3> TAKE n \in 0..(Len(s) - 1)
    <3> HAVE n \in S
    <3>1. n > 0 => Good(n)
      OBVIOUS
    <3> HIDE DEF Good
    <3>2. Good(n + 1)
      BY <1>3, <3>1
    <3>3. n + 1 \in 0..Len(s)
      BY <1>1
    <3> QED BY <3>2, <3>3
  <2> HIDE DEF S
  <2> QED BY <1>1, <2>1, <2>2, UpTo
<1>5. Good(Len(s))
  <2> HIDE DEF Good
  <2>1. Len(s) \in 0..Len(s) /\ Len(s) > 0
    BY <1>1
  <2> QED BY <1>4, <2>1
<1> QED BY <1>2, <1>5

LEMMA ReplayedDefined ==
  ASSUME Today \in Nat
  PROVE  \E g : /\ g[0] = [days |-> Drop(daily, Undone), concurrent |-> 0]
                /\ Replayed = g[Today + 1]
                /\ \A d \in 1..(Today + 1) :
                     g[d] = IF d - 1 \in Undone THEN Folded(g[d - 1], raw[d - 1]) ELSE g[d - 1]
<1> DEFINE a == [days |-> Drop(daily, Undone), concurrent |-> 0]
           Step(f, d) == IF d - 1 \in Undone THEN Folded(f[d - 1], raw[d - 1]) ELSE f[d - 1]
           Body(g, N) == [d \in 0..N |-> IF d = 0 THEN a ELSE Step(g, d)]
           S == {N \in 0..(Today + 1) : \E g : g = Body(g, N)}
<1> HIDE DEF a
<1>1. 0 \in S
  <2> DEFINE h == [d \in 0..0 |-> a]
  <2>1. h = Body(h, 0)
    OBVIOUS
  <2> HIDE DEF h
  <2>2. \E g : g = Body(g, 0)
    BY <2>1
  <2> HIDE DEF Body
  <2> QED BY <2>2
<1>2. ASSUME NEW N \in 0..Today, N \in S
      PROVE  N + 1 \in S
  <2>1. PICK g : g = Body(g, N)
    BY <1>2
  <2>2. N + 1 \in 0..(Today + 1)
    OBVIOUS
  <2> DEFINE h == [d \in 0..(N + 1) |-> IF d = N + 1 THEN Step(g, N + 1) ELSE g[d]]
  <2>3. ASSUME NEW d \in 0..(N + 1)
        PROVE  h[d] = IF d = 0 THEN a ELSE Step(h, d)
    <3>1. CASE d = N + 1
      <4>1. d # 0 /\ d - 1 = N /\ N \in 0..(N + 1) /\ N # N + 1
        BY <3>1, <2>2
      <4>2. h[d] = Step(g, d) /\ h[d - 1] = g[d - 1]
        BY <3>1, <4>1
      <4> HIDE DEF h
      <4> QED BY <4>1, <4>2
    <3>2. CASE d = 0
      <4>1. h[d] = g[d]
        BY <3>2, <2>2
      <4> QED BY <3>2, <4>1, <2>1, <2>2
    <3>3. CASE d # N + 1 /\ d # 0
      <4>1. d \in 0..N /\ d - 1 \in 0..(N + 1) /\ d - 1 # N + 1
        BY <3>3, <2>2
      <4>2. g[d] = Step(g, d)
        BY <2>1, <3>3, <4>1
      <4>3. h[d] = g[d] /\ h[d - 1] = g[d - 1]
        BY <3>3, <4>1
      <4> HIDE DEF h
      <4> QED BY <3>3, <4>2, <4>3
    <3> QED BY <3>1, <3>2, <3>3
  <2>4. h = Body(h, N + 1)
    <3> HIDE DEF Step
    <3> QED BY <2>3
  <2> HIDE DEF h
  <2>5. \E f : f = Body(f, N + 1)
    BY <2>4
  <2> HIDE DEF Body
  <2> QED BY <2>2, <2>5
<1>3. Today + 1 \in S
  <2> HIDE DEF S
  <2>1. \A d \in 0..((Today + 1) - 1) : d \in S => d + 1 \in S
    BY <1>2
  <2>2. Today + 1 \in Nat
    OBVIOUS
  <2>3. \A d \in 0..(Today + 1) : d \in S
    BY <1>1, <2>1, <2>2, UpTo
  <2> QED BY <2>2, <2>3
<1>4. \E g : g = Body(g, Today + 1)
  BY <1>3
<1> DEFINE f == CHOOSE g : g = Body(g, Today + 1)
<1>5. f = Body(f, Today + 1)
  <2> HIDE DEF Body
  <2> QED BY <1>4
<1>6. Replayed = f[Today + 1]
  BY DEF Replayed, a
<1> HIDE DEF f
<1>7. 0 \in 0..(Today + 1) /\ \A d \in 1..(Today + 1) : d \in 0..(Today + 1) /\ d # 0
  OBVIOUS
<1>8. f[0] = a
  BY <1>5, <1>7
<1>9. \A d \in 1..(Today + 1) : f[d] = Step(f, d)
  BY <1>5, <1>7
<1> QED BY <1>6, <1>8, <1>9 DEF a

\* The days of raw files that a start replays, and finds events in.
Read == {d \in Undone : raw[d] # <<>>}

\* What the files give at a start, or would now: the totals that were saved, and
\* of every other day those of its events.
LEMMA ReplayedFacts ==
  ASSUME Today \in Nat, done \in Nat, reset.done \in Nat,
         \A d \in DOMAIN raw : d \in 0..Today /\ (raw[d] = <<>> \/ FileOf(d, raw[d], done)),
         \A d \in DOMAIN daily : d \in Int /\ d < Today
  PROVE  /\ Undone = DOMAIN raw \ DOMAIN daily
         /\ DOMAIN Replayed.days = DOMAIN daily \cup Read /\ Replayed.concurrent \in Nat
         /\ \A d \in DOMAIN daily : Replayed.days[d] = daily[d]
         /\ \A d \in Read : Open(d, Replayed.days[d], raw[d], Len(raw[d]))
<1>3. Undone = DOMAIN raw \ DOMAIN daily
  BY DEF Undone
<1>4. PICK g : /\ g[0] = [days |-> Drop(daily, Undone), concurrent |-> 0]
               /\ Replayed = g[Today + 1]
               /\ \A d \in 1..(Today + 1) :
                    g[d] = IF d - 1 \in Undone THEN Folded(g[d - 1], raw[d - 1]) ELSE g[d - 1]
  BY ReplayedDefined
<1> DEFINE Before(n) == {d \in Read : d < n}
           Good(n) == /\ DOMAIN g[n].days = DOMAIN daily \cup Before(n)
                      /\ g[n].concurrent \in Nat
                      /\ \A d \in DOMAIN daily : g[n].days[d] = daily[d]
                      /\ \A d \in Before(n) : Open(d, g[n].days[d], raw[d], Len(raw[d]))
           S == {n \in 0..(Today + 1) : Good(n)}
<1>1. \A d \in Read : d \in 0..Today /\ d \notin DOMAIN daily /\ FileOf(d, raw[d], done)
  BY <1>3 DEF Read
<1>5. Good(0)
  <2>1. Before(0) = {}
    BY <1>1
  <2>2. Drop(daily, Undone) = [d \in DOMAIN daily |-> daily[d]]
    BY <1>3 DEF Drop
  <2>3. g[0].days = [d \in DOMAIN daily |-> daily[d]] /\ g[0].concurrent = 0
    BY <1>4, <2>2
  <2>4. DOMAIN g[0].days = DOMAIN daily /\ \A d \in DOMAIN daily : g[0].days[d] = daily[d]
    BY <2>3
  <2>5. DOMAIN g[0].days = DOMAIN daily \cup Before(0)
    BY <2>1, <2>4, Zenon
  <2>6. \A d \in Before(0) : Open(d, g[0].days[d], raw[d], Len(raw[d]))
    BY <2>1, Zenon
  <2> HIDE DEF Before
  <2> QED BY <2>3, <2>4, <2>5, <2>6
<1>6. ASSUME NEW n \in 0..Today, Good(n) PROVE Good(n + 1)
  <2> DEFINE b == g[n]
             c == g[n + 1]
  <2>1. c = IF n \in Undone THEN Folded(b, raw[n]) ELSE b
    <3>1. n + 1 \in 1..(Today + 1) /\ (n + 1) - 1 = n
      OBVIOUS
    <3> QED BY <1>4, <3>1
  <2>2. /\ DOMAIN b.days = DOMAIN daily \cup Before(n) /\ b.concurrent \in Nat
        /\ \A d \in DOMAIN daily : b.days[d] = daily[d]
        /\ \A d \in Before(n) : Open(d, b.days[d], raw[d], Len(raw[d]))
    BY <1>6
  <2>3. SUFFICES /\ DOMAIN c.days = DOMAIN daily \cup Before(n + 1) /\ c.concurrent \in Nat
                 /\ \A d \in DOMAIN daily : c.days[d] = daily[d]
                 /\ \A d \in Before(n + 1) : Open(d, c.days[d], raw[d], Len(raw[d]))
    OBVIOUS
  <2> HIDE DEF b, c
  <2>4. \A d \in Read : d \in Nat
    BY <1>1
  <2>5. CASE n \in Read
    <3>1. Before(n + 1) = Before(n) \cup {n} /\ n \notin Before(n)
      <4>1. \A d \in Read : d < n + 1 <=> d < n \/ d = n
        BY <2>4
      <4>2. ~ (n < n)
        OBVIOUS
      <4> QED BY <2>5, <4>1, <4>2, Zenon
    <3>2. c = Folded(b, raw[n]) /\ n \notin DOMAIN b.days
      BY <1>1, <2>1, <2>2, <2>5, <3>1 DEF Read
    <3>3. FileOf(n, raw[n], done)
      BY <1>1, <2>5
    <3>4. /\ DOMAIN c.days = DOMAIN b.days \cup {n} /\ c.concurrent \in Nat
          /\ \A e \in DOMAIN b.days : c.days[e] = b.days[e]
          /\ Open(n, c.days[n], raw[n], Len(raw[n]))
      BY <2>2, <3>2, <3>3, FoldedFacts
    <3> HIDE DEF Before
    <3> QED BY <2>2, <3>1, <3>4
  <2>6. CASE n \notin Read
    <3>1. Before(n + 1) = Before(n)
      BY <2>4, <2>6
    <3>2. c = b
      <4>1. CASE n \notin Undone
        BY <2>1, <4>1
      <4>2. CASE n \in Undone
        <5>1. raw[n] = <<>> /\ Len(raw[n]) = 0
          BY <2>6, <4>2 DEF Read
        <5>2. Folded(b, raw[n]) = b
          BY <5>1, FoldedDefined
        <5> QED BY <2>1, <4>2, <5>2
      <4> QED BY <4>1, <4>2
    <3> HIDE DEF Before
    <3> QED BY <2>2, <3>1, <3>2
  <2> QED BY <2>5, <2>6
<1>7. Good(Today + 1)
  <2> HIDE DEF Good
  <2>1. 0 \in S
    BY <1>5
  <2>2. Today + 1 \in Nat
    OBVIOUS
  <2>3. \A n \in 0..((Today + 1) - 1) : n \in S => n + 1 \in S
    BY <1>6
  <2>4. \A n \in 0..(Today + 1) : n \in S
    <3> HIDE DEF S
    <3> QED BY <2>1, <2>2, <2>3, UpTo
  <2> QED BY <2>2, <2>4
<1>8. Before(Today + 1) = Read
  BY <1>1
<1> HIDE DEF Before
<1> QED BY <1>3, <1>4, <1>7, <1>8

-----------------------------------------------------------------------------
(* Saving, and a later day.                                                *)

LEMMA ClockFacts ==
  ASSUME Typed
  PROVE  /\ Today \in Nat /\ Day(Opened) \in Nat /\ Day(Opened) <= Today
         /\ now \in Nat /\ done \in Nat /\ reset.done \in Nat /\ reset.on \in Int
         /\ Day(now) = Today /\ starts \in Nat
<1>1. now \in Nat /\ Opened \in Nat /\ Opened <= now
  BY AnalyticsAssumption DEF Typed
<1>2. Today \in Nat /\ Day(Opened) \in Nat /\ Day(Opened) <= Today
  BY <1>1, DayFacts, DayOrder DEF Today
<1>3. done \in Nat /\ reset.done \in Nat /\ reset.on \in Int /\ starts \in Nat
  BY DEF Typed, None
<1> QED BY <1>1, <1>2, <1>3 DEF Today

LEMMA LaterBook ==
  ASSUME NEW n \in Nat, NEW m \in Nat, n <= m, NEW t \in Nat, NEW u \in Nat, t <= u,
         NEW bk, BookOK(n, bk, t)
  PROVE  BookOK(m, bk, u)
<1>0. Day(Opened) \in Nat
  BY AnalyticsAssumption, DayFacts
<1>1. 1..n \subseteq 1..m /\ Day(Opened)..t \subseteq Day(Opened)..u
  BY <1>0
<1>2. ASSUME NEW d \in DOMAIN bk PROVE d \in Day(Opened)..u /\ FileOf(d, bk[d], m)
  <2>1. d \in Day(Opened)..t /\ FileOf(d, bk[d], n)
    BY DEF BookOK
  <2>2. FileOf(d, bk[d], m)
    BY <1>1, <2>1 DEF FileOf
  <2> QED BY <1>1, <2>1, <2>2
<1> QED BY <1>2 DEF BookOK

LEMMA LaterDaily ==
  ASSUME NEW r, NEW n, NEW t \in Nat, NEW u \in Nat, t <= u, NEW bk, BookOK(n, bk, t),
         NEW dl, DailyOK(r, bk, dl, t)
  PROVE  DailyOK(r, bk, dl, u)
<1>1. Day(Opened) \in Nat
  BY AnalyticsAssumption, DayFacts
<1>2. \A d \in DOMAIN dl : d < t => d < u
  BY <1>1 DEF BookOK, DailyOK
<1> QED BY <1>2 DEF DailyOK

\* Of the raw files less may be asked: more days saved, more events lost, files of
\* days deleted that are saved.
LEMMA LaterRaw ==
  ASSUME NEW bk, NEW rw, NEW dl, NEW lost, NEW late, NEW t \in Nat,
         RawOK(bk, rw, dl, lost, late, t),
         NEW nw, DOMAIN nw \subseteq DOMAIN rw, \A d \in DOMAIN nw : nw[d] = rw[d],
         NEW nl, DOMAIN dl \subseteq DOMAIN nl, DOMAIN rw \ DOMAIN nw \subseteq DOMAIN nl,
         NEW more, lost \subseteq more, NEW later, late \subseteq later, NEW u \in Nat, t <= u
  PROVE  RawOK(bk, nw, nl, more, later, u)
<1>0. Day(Opened) \in Nat
  BY AnalyticsAssumption, DayFacts
<1>1. ASSUME NEW d \in DOMAIN nw PROVE d \in Day(Opened)..u /\ nw[d] \in Seq(AnEvent)
  BY <1>0 DEF RawOK
<1>2. ASSUME NEW d PROVE EventsOf(nw, d) \subseteq EventsOf(bk, d)
  <2>1. EventsOf(nw, d) \subseteq EventsOf(rw, d)
    BY DEF EventsOf
  <2> QED BY <2>1 DEF RawOK
<1>3. ASSUME NEW d \in DOMAIN bk, d \notin DOMAIN nl
      PROVE  EventsOf(bk, d) \subseteq EventsOf(nw, d) \cup more
  <2>1. EventsOf(nw, d) = EventsOf(rw, d)
    BY <1>3 DEF EventsOf
  <2>2. EventsOf(bk, d) \subseteq EventsOf(rw, d) \cup lost
    BY <1>3 DEF RawOK
  <2> QED BY <2>1, <2>2
<1>4. ASSUME NEW d \in DOMAIN bk, d \in DOMAIN nw
      PROVE  EventsOf(bk, d) \subseteq EventsOf(nw, d) \cup later
  <2>1. EventsOf(nw, d) = EventsOf(rw, d)
    BY <1>4 DEF EventsOf
  <2>2. EventsOf(bk, d) \subseteq EventsOf(rw, d) \cup late
    BY <1>4 DEF RawOK
  <2> QED BY <2>1, <2>2
<1>5. ASSUME NEW d
      PROVE  d \in DOMAIN nl \/ (\E ev \in more : Day(ev.t) = d) \/ Whole(bk, nw, d)
  <2>1. d \in DOMAIN dl \/ (\E ev \in lost : Day(ev.t) = d) \/ Whole(bk, rw, d)
    BY DEF RawOK
  <2>2. ASSUME Whole(bk, rw, d), d \notin DOMAIN nl PROVE Whole(bk, nw, d)
    <3>1. d \in DOMAIN rw <=> d \in DOMAIN nw
      BY <2>2
    <3> QED BY <2>2, <3>1 DEF Whole
  <2> QED BY <2>1, <2>2
<1> QED BY <1>1, <1>2, <1>3, <1>4, <1>5 DEF RawOK

\* What a day's totals have of transcriptions is in its file.
LEMMA DoneNumbered ==
  ASSUME NEW d, NEW s, NEW n \in Nat, FileOf(d, s, n), NEW day, Agrees(day, s, Len(s))
  PROVE  day.done \subseteq 1..n
BY DEF FileOf, Agrees, Whats, At

LEMMA SavedFacts ==
  ASSUME NEW day \in DayTotals
  PROVE  /\ Saved(day) \in DayTotals /\ Saved(day).seen = {}
         /\ \A s, n : Agrees(day, s, n) => Agrees(Saved(day), s, n)
         /\ \A r, d : Marked(r, d, day) => Marked(r, d, Saved(day))
<1> DEFINE v == Saved(day)
<1>1. v = [day EXCEPT !.seen = {}]
  BY DEF Saved
<1> HIDE DEF v
<1>2. /\ v.visitors = day.visitors /\ v.listens = day.listens /\ v.ends = day.ends
      /\ v.tx = day.tx /\ v.done = day.done /\ v.since = day.since /\ v.seen = {}
  BY <1>1 DEF DayTotals
<1>3. v \in DayTotals
  BY <1>1 DEF DayTotals
<1>4. \A s, n : Agrees(day, s, n) => Agrees(v, s, n)
  BY <1>2 DEF Agrees
<1>5. \A r, d : Marked(r, d, day) => Marked(r, d, v)
  BY <1>2 DEF Marked
<1> QED BY <1>2, <1>3, <1>4, <1>5 DEF v

\* Days that are over are saved.
SavedOK(bk, dl, t, new) ==
    /\ DailyOK(reset, bk, new, t)
    /\ DOMAIN dl \subseteq DOMAIN new /\ \A d \in DOMAIN dl : new[d] = dl[d]

LEMMA SaveFacts ==
  ASSUME NEW bk, NEW dl, NEW t, DailyOK(reset, bk, dl, t),
         NEW ds, DOMAIN ds \subseteq DOMAIN bk,
         NEW S, \A d \in (S \cap DOMAIN ds) \ DOMAIN dl :
                   /\ d < t /\ ds[d] \in DayTotals /\ Marked(reset, d, ds[d])
                   /\ Agrees(ds[d], bk[d], Len(bk[d])),
         NEW new, new = WithSaved(dl, ds, S)
  PROVE  SavedOK(bk, dl, t, new)
<1>1. /\ DOMAIN new = DOMAIN dl \cup (S \cap DOMAIN ds)
      /\ \A d \in DOMAIN dl : new[d] = dl[d]
      /\ \A d \in (S \cap DOMAIN ds) \ DOMAIN dl : new[d] = Saved(ds[d])
  BY DEF WithSaved
<1>2. ASSUME NEW d \in DOMAIN new
      PROVE  /\ d \in DOMAIN bk /\ d < t /\ new[d] \in DayTotals
             /\ Agrees(new[d], bk[d], Len(bk[d])) /\ Marked(reset, d, new[d])
  <2>1. CASE d \in DOMAIN dl
    BY <1>1, <2>1 DEF DailyOK
  <2>2. CASE d \notin DOMAIN dl
    <3>1. d \in (S \cap DOMAIN ds) \ DOMAIN dl /\ new[d] = Saved(ds[d])
      BY <1>1, <2>2
    <3>2. /\ d < t /\ ds[d] \in DayTotals /\ Marked(reset, d, ds[d])
          /\ Agrees(ds[d], bk[d], Len(bk[d]))
      BY <3>1
    <3> QED BY <3>1, <3>2, SavedFacts
  <2> QED BY <2>1, <2>2
<1> QED BY <1>1, <1>2 DEF SavedOK, DailyOK

-----------------------------------------------------------------------------
(* Appending an event.                                                     *)

\* A file s, of no events if there is none, and the file z with one event more.
Longer(s, ev, z) ==
    /\ z \in Seq(AnEvent) /\ Len(s) \in Nat /\ Len(z) = Len(s) + 1 /\ z[Len(s) + 1] = ev
    /\ \A i \in 1..Len(s) : z[i] = s[i]
    /\ SameCounts(z, s, Len(s))
    /\ \A type : Whats(z, Len(z), type) =
         IF ev.type = type THEN Whats(s, Len(s), type) \cup {ev.what}
         ELSE Whats(s, Len(s), type)
    /\ VisitorsOf(z, Len(z)) = VisitorsOf(s, Len(s)) \cup ({ev.visitor} \ {<<>>})
    /\ Cardinality(VisitorsOf(z, Len(z))) =
         IF ev.visitor = <<>> \/ ev.visitor \in VisitorsOf(s, Len(s))
         THEN Cardinality(VisitorsOf(s, Len(s))) ELSE Cardinality(VisitorsOf(s, Len(s))) + 1

LEMMA LongerFile ==
  ASSUME NEW s \in Seq(AnEvent), NEW ev \in AnEvent, NEW z, z = Append(s, ev)
  PROVE  Longer(s, ev, z)
<1> DEFINE n == Len(s)
<1>1. /\ z \in Seq(AnEvent) /\ n \in Nat /\ Len(z) = n + 1 /\ z[n + 1] = ev
      /\ \A i \in 1..n : z[i] = s[i]
  OBVIOUS
<1> HIDE DEF n
<1>2. SameCounts(z, s, n)
  BY <1>1, SameBeginning
<1>3. ASSUME NEW type
      PROVE  Whats(z, n + 1, type) =
               IF ev.type = type THEN Whats(s, n, type) \cup {ev.what} ELSE Whats(s, n, type)
  <2>1. Whats(z, n + 1, type) =
          IF z[n + 1].type = type THEN Whats(z, n, type) \cup {z[n + 1].what}
          ELSE Whats(z, n, type)
    BY <1>1, OneMore
  <2>2. Whats(z, n, type) = Whats(s, n, type)
    BY <1>2 DEF SameCounts
  <2> QED BY <1>1, <2>1, <2>2
<1>4. VisitorsOf(z, n + 1) = VisitorsOf(s, n) \cup ({ev.visitor} \ {<<>>})
  <2>1. VisitorsOf(z, n + 1) = VisitorsOf(z, n) \cup ({z[n + 1].visitor} \ {<<>>})
    BY <1>1, OneMore
  <2> QED BY <1>1, <1>2, <2>1 DEF SameCounts
<1>5. Cardinality(VisitorsOf(z, n + 1)) =
        IF ev.visitor = <<>> \/ ev.visitor \in VisitorsOf(s, n)
        THEN Cardinality(VisitorsOf(s, n)) ELSE Cardinality(VisitorsOf(s, n)) + 1
  <2>1. Cardinality(VisitorsOf(z, n + 1)) =
          IF z[n + 1].visitor = <<>> \/ z[n + 1].visitor \in VisitorsOf(z, n)
          THEN Cardinality(VisitorsOf(z, n)) ELSE Cardinality(VisitorsOf(z, n)) + 1
    BY <1>1, OneMoreCounted
  <2> QED BY <1>1, <1>2, <2>1 DEF SameCounts
<1> QED BY <1>1, <1>2, <1>3, <1>4, <1>5 DEF n, Longer

\* What the book has of the day that begins or goes on.
Written(bk, d) == IF d \in DOMAIN bk THEN bk[d] ELSE <<>>

\* appendLocked: the book z of an event of today more, and its totals.
Appended(bk, dl, ev, m, new, a) ==
    /\ BookOK(m, new, Today) /\ DailyOK(reset, new, dl, Today) /\ TotalsOK(reset, new, a.days, Today)
    /\ a.concurrent \in Nat /\ Today \notin DOMAIN dl
    /\ Written(bk, Today) \in Seq(AnEvent) /\ Longer(Written(bk, Today), ev, new[Today])
    /\ DOMAIN new = DOMAIN bk \cup {Today}
    /\ \A d \in DOMAIN bk \ {Today} : new[d] = bk[d]
    /\ \A d : Tx(new, d) = IF d = Today /\ ev.type = "tx" THEN Tx(bk, d) \cup {ev.what}
                           ELSE Tx(bk, d)

LEMMA AppendFacts ==
  ASSUME Typed, NEW bk, NEW dl, NEW ds, NEW c \in Nat,
         BookOK(done, bk, Today), DailyOK(reset, bk, dl, Today), TotalsOK(reset, bk, ds, Today),
         NEW ev, Proper(ev), Day(ev.t) = Today,
         NEW m \in Nat, done <= m, ev.type = "done" => ev.what \in 1..m,
         NEW new, new = With(bk, Today, Append(Written(bk, Today), ev)),
         NEW a, a = Apply([days |-> ds, concurrent |-> c], ev)
  PROVE  Appended(bk, dl, ev, m, new, a)
<1> DEFINE T == Today
           s == Written(bk, Today)
           z == Append(s, ev)
<1>0. T \in Nat /\ Day(Opened) \in Nat /\ Day(Opened) <= T /\ done \in Nat /\ reset.done \in Int
  BY ClockFacts
<1>1. T \notin DOMAIN dl
  BY <1>0 DEF DailyOK
<1>2. T \in DOMAIN bk => FileOf(T, s, done) /\ s = bk[T]
  BY DEF BookOK, Written
<1>3. s \in Seq(AnEvent)
  <2>1. CASE Today \in DOMAIN bk
    BY <1>2, <2>1 DEF FileOf
  <2>2. CASE Today \notin DOMAIN bk
    <3>1. s = <<>> /\ <<>> \in Seq(AnEvent)
      BY <2>2 DEF Written
    <3> QED BY <3>1, Zenon
  <2> QED BY <2>1, <2>2
<1>a. T \notin DOMAIN bk => s = <<>> /\ Len(s) = 0
  BY DEF Written
<1> HIDE DEF s
<1>4. /\ z \in Seq(AnEvent) /\ Len(s) \in Nat /\ Len(z) = Len(s) + 1 /\ z[Len(s) + 1] = ev
      /\ \A i \in 1..Len(s) : z[i] = s[i]
      /\ SameCounts(z, s, Len(s))
      /\ Whats(z, Len(z), "tx") =
           IF ev.type = "tx" THEN Whats(s, Len(s), "tx") \cup {ev.what}
           ELSE Whats(s, Len(s), "tx")
      /\ Longer(s, ev, z)
  <2>1. ev \in AnEvent
    BY DEF Proper
  <2>2. Longer(s, ev, z)
    BY <1>3, <2>1, LongerFile
  <2> QED BY <2>2 DEF Longer
<1>5. DOMAIN new = DOMAIN bk \cup {T} /\ new[T] = z /\ \A d \in DOMAIN bk \ {T} : new[d] = bk[d]
  BY DEF With, s
<1> HIDE DEF z
<1>6. DOMAIN ds = DOMAIN bk
  BY DEF TotalsOK
<1>7. FileOf(T, z, m)
  <2>1. ASSUME NEW i \in 1..Len(s)
        PROVE  /\ Day(z[i].t) = T
               /\ z[i].type = "tx" => z[i].what \in Clips
               /\ z[i].type = "done" => z[i].what \in 1..m
    <3>1. T \in DOMAIN bk /\ Len(s) \in Nat
      BY <1>4, <1>a
    <3>2. FileOf(T, s, done)
      BY <1>2, <3>1
    <3>3. 1..done \subseteq 1..m
      BY <1>0
    <3> QED BY <1>4, <3>2, <3>3 DEF FileOf
  <2>2. \A i \in 1..Len(z) : i \in 1..Len(s) \/ i = Len(s) + 1
    BY <1>4
  <2>3. /\ Day(ev.t) = T
        /\ ev.type = "tx" => ev.what \in Clips
        /\ ev.type = "done" => ev.what \in 1..m
    BY DEF Proper
  <2>4. ASSUME NEW i \in 1..Len(z)
        PROVE  /\ Day(z[i].t) = T
               /\ z[i].type = "tx" => z[i].what \in Clips
               /\ z[i].type = "done" => z[i].what \in 1..m
    BY <1>4, <2>1, <2>2, <2>3
  <2> QED BY <1>4, <2>4 DEF FileOf
<1>8. BookOK(m, new, T)
  <2>1. BookOK(m, bk, T)
    BY <1>0, LaterBook
  <2>2. ASSUME NEW d \in DOMAIN new PROVE d \in Day(Opened)..T /\ FileOf(d, new[d], m)
    <3>1. CASE d = T
      BY <1>0, <1>5, <1>7, <3>1
    <3>2. CASE d # T
      BY <1>5, <2>1, <3>2 DEF BookOK
    <3> QED BY <3>1, <3>2
  <2> QED BY <2>2 DEF BookOK
<1>b. DailyOK(reset, new, dl, T)
  BY <1>1, <1>5 DEF DailyOK
<1>9. T \in DOMAIN ds => Open(T, ds[T], z, Len(s))
  <2> SUFFICES ASSUME T \in DOMAIN ds PROVE Open(T, ds[T], z, Len(s))
    OBVIOUS
  <2>1. T \in DOMAIN bk
    BY <1>6
  <2>2. /\ ds[T] \in DayTotals /\ Marked(reset, T, ds[T]) /\ Agrees(ds[T], s, Len(s))
        /\ ds[T].seen = VisitorsOf(s, Len(s))
    BY <1>2, <2>1 DEF TotalsOK
  <2>3. Agrees(ds[T], z, Len(s))
    BY <1>4, <2>2 DEF Agrees, SameCounts
  <2> QED BY <1>4, <2>2, <2>3 DEF Open, SameCounts
<1>10. T \notin DOMAIN ds => Len(s) = 0
  BY <1>6, <1>a
<1> DEFINE b == [days |-> ds, concurrent |-> c]
<1>11. b.days = ds /\ b.concurrent = c /\ a = Apply(b, z[Len(s) + 1])
  BY <1>4
<1> HIDE DEF b
<1> DEFINE n == Len(s)
<1>12. /\ DOMAIN a.days = DOMAIN ds \cup {T} /\ a.concurrent \in Nat
       /\ \A d \in DOMAIN ds \ {T} : a.days[d] = ds[d]
       /\ Open(T, a.days[T], z, n + 1)
  <2>1. /\ b.concurrent \in Nat /\ Proper(z[n + 1]) /\ T = Day(z[n + 1].t) /\ n \in Nat
        /\ a = Apply(b, z[n + 1])
    BY <1>4, <1>11
  <2>2. \/ T \in DOMAIN b.days /\ Open(T, b.days[T], z, n)
        \/ T \notin DOMAIN b.days /\ n = 0
    BY <1>9, <1>10, <1>11
  <2> HIDE DEF T, n
  <2>3. Stepped(b, a, T, z, n)
    BY <1>0, <2>1, <2>2, ApplyFacts
  <2> QED BY <1>11, <2>3 DEF Stepped
<1>13. TotalsOK(reset, new, a.days, T)
  <2>1. DOMAIN a.days = DOMAIN new
    BY <1>5, <1>6, <1>12
  <2>2. /\ a.days[T] \in DayTotals /\ Marked(reset, T, a.days[T]) /\ Agrees(a.days[T], z, Len(z))
        /\ a.days[T].seen = VisitorsOf(z, Len(z))
    BY <1>4, <1>12 DEF Open
  <2>3. ASSUME NEW d \in DOMAIN a.days
        PROVE  /\ a.days[d] \in DayTotals /\ Marked(reset, d, a.days[d])
               /\ Agrees(a.days[d], new[d], Len(new[d]))
    <3>1. CASE d = T
      BY <1>5, <2>2, <3>1
    <3>2. CASE d # T
      <4>1. d \in DOMAIN ds /\ d \in DOMAIN bk /\ a.days[d] = ds[d] /\ new[d] = bk[d]
        BY <1>5, <1>6, <1>12, <3>2
      <4> QED BY <4>1 DEF TotalsOK
    <3> QED BY <3>1, <3>2
  <2> QED BY <1>5, <2>1, <2>2, <2>3 DEF TotalsOK
<1>14. ASSUME NEW d
       PROVE  Tx(new, d) = IF d = Today /\ ev.type = "tx" THEN Tx(bk, d) \cup {ev.what}
                           ELSE Tx(bk, d)
  <2>1. CASE d # T
    BY <1>5, <2>1 DEF Tx
  <2>2. CASE d = T
    <3>1. Tx(new, d) = Whats(z, Len(z), "tx")
      BY <1>5, <2>2 DEF Tx
    <3>2. Tx(bk, d) = Whats(s, Len(s), "tx")
      <4>1. CASE T \in DOMAIN bk
        BY <1>2, <2>2, <4>1 DEF Tx
      <4>2. CASE T \notin DOMAIN bk
        <5>1. Len(s) = 0 /\ Tx(bk, d) = {}
          BY <1>a, <2>2, <4>2 DEF Tx
        <5> QED BY <5>1, NoEvents
      <4> QED BY <4>1, <4>2
    <3> QED BY <1>4, <2>2, <3>1, <3>2
  <2> QED BY <2>1, <2>2
<1>15. s \in Seq(AnEvent) /\ Longer(s, ev, new[Today])
  BY <1>3, <1>4, <1>5
<1> QED BY <1>1, <1>5, <1>8, <1>b, <1>12, <1>13, <1>14, <1>15 DEF Appended, s

LEMMA NoFile ==
  ASSUME NEW S
  PROVE  <<>> \in Seq(S) /\ Len(<<>>) = 0
OBVIOUS

LEMMA MoreEvents ==
  ASSUME NEW s \in Seq(AnEvent), NEW ev \in AnEvent, NEW z, z = Append(s, ev)
  PROVE  /\ {z[i] : i \in 1..Len(z)} = {s[i] : i \in 1..Len(s)} \cup {ev}
         /\ z \in Seq(AnEvent) /\ z # <<>>
<1>1. /\ Len(z) = Len(s) + 1 /\ z[Len(s) + 1] = ev /\ \A i \in 1..Len(s) : z[i] = s[i]
      /\ z \in Seq(AnEvent) /\ Len(s) \in Nat
  OBVIOUS
<1>2. 1..Len(z) = (1..Len(s)) \cup {Len(s) + 1}
  BY <1>1
<1>3. z # <<>>
  BY <1>1
<1>4. {z[i] : i \in 1..Len(z)} = {z[i] : i \in 1..Len(s)} \cup {z[Len(s) + 1]}
  BY <1>2
<1>5. {z[i] : i \in 1..Len(s)} = {s[i] : i \in 1..Len(s)}
  BY <1>1
<1> QED BY <1>1, <1>3, <1>4, <1>5

\* The raw files, whether the event could be written or not.
LEMMA LoggedFacts ==
  ASSUME Typed, NEW bk, NEW dl, NEW lost, NEW late, RawOK(bk, raw, dl, lost, late, Today),
         BookOK(done, bk, Today), Today \notin DOMAIN dl, lost \subseteq late,
         NEW ev \in AnEvent, Day(ev.t) = Today, NEW fails,
         NEW new, new = With(bk, Today, Append(Written(bk, Today), ev)),
         NEW more, lost \subseteq more, NEW later, late \subseteq later,
         fails \cap {"open", "write"} # {} => ev \in more /\ ev \in later,
         NEW nw, nw = Logged(fails, ev)
  PROVE  RawOK(new, nw, dl, more, later, Today)
<1> DEFINE T == Today
           s == Written(bk, T)
           q == Written(raw, T)
<1>0. T \in Nat /\ Day(Opened) \in Nat /\ Day(Opened) <= T
  BY ClockFacts
<1>1. s \in Seq(AnEvent) /\ q \in Seq(AnEvent)
  <2>1. <<>> \in Seq(AnEvent)
    BY NoFile
  <2>2. T \in DOMAIN bk => bk[T] \in Seq(AnEvent)
    BY DEF BookOK, FileOf
  <2>3. T \in DOMAIN raw => raw[T] \in Seq(AnEvent)
    BY DEF RawOK
  <2> QED BY <2>1, <2>2, <2>3 DEF Written
<1>2. /\ DOMAIN new = DOMAIN bk \cup {T} /\ new[T] = Append(s, ev)
      /\ \A d \in DOMAIN bk \ {T} : new[d] = bk[d]
  BY DEF With
<1>3. \/ nw = raw /\ fails \cap {"open", "write"} # {}
      \/ nw = With(raw, T, q) /\ fails \cap {"open", "write"} # {}
      \/ nw = With(raw, T, Append(q, ev))
  BY DEF Logged, Written
<1>a. EventsOf(bk, T) = {s[i] : i \in 1..Len(s)} /\ EventsOf(raw, T) = {q[i] : i \in 1..Len(q)}
  BY DEF EventsOf, Written
<1> HIDE DEF s, q
<1> DEFINE y == Append(s, ev)  x == Append(q, ev)
<1>4. /\ {y[i] : i \in 1..Len(y)} = EventsOf(bk, T) \cup {ev}
      /\ {x[i] : i \in 1..Len(x)} = EventsOf(raw, T) \cup {ev}
      /\ x \in Seq(AnEvent) /\ x # <<>>
  <2> HIDE DEF y, x
  <2>1. y = Append(s, ev) /\ x = Append(q, ev)
    BY DEF y, x
  <2> QED BY <1>1, <1>a, <2>1, MoreEvents
<1>5. EventsOf(new, T) = EventsOf(bk, T) \cup {ev}
      /\ \A d : d # T => EventsOf(new, d) = EventsOf(bk, d)
  <2>1. T \in DOMAIN new /\ new[T] = y
    BY <1>2
  <2> HIDE DEF y, x
  <2>2. EventsOf(new, T) = {y[i] : i \in 1..Len(y)}
    BY <2>1 DEF EventsOf
  <2>3. ASSUME NEW d, d # T PROVE EventsOf(new, d) = EventsOf(bk, d)
    <3>1. (d \in DOMAIN new <=> d \in DOMAIN bk) /\ (d \in DOMAIN bk => new[d] = bk[d])
      BY <1>2, <2>3
    <3> QED BY <3>1 DEF EventsOf
  <2> QED BY <1>4, <2>2, <2>3
<1>6. /\ DOMAIN raw \subseteq DOMAIN nw /\ DOMAIN nw \subseteq DOMAIN raw \cup {T}
      /\ \A d \in DOMAIN raw \ {T} : nw[d] = raw[d]
  BY <1>3 DEF With
<1>7. \A d \in DOMAIN nw : d \in Day(Opened)..T /\ nw[d] \in Seq(AnEvent)
  <2> SUFFICES ASSUME NEW d \in DOMAIN nw
               PROVE  d \in Day(Opened)..T /\ nw[d] \in Seq(AnEvent)
    OBVIOUS
  <2>1. CASE d = T
    <3>1. (nw[d] = raw[d] /\ d \in DOMAIN raw) \/ nw[d] = q \/ nw[d] = x
      BY <1>3, <2>1 DEF With
    <3> HIDE DEF x
    <3>2. d \in DOMAIN raw => raw[d] \in Seq(AnEvent)
      BY DEF RawOK
    <3>3. d \in Day(Opened)..T
      BY <1>0, <2>1
    <3> QED BY <1>1, <1>4, <3>1, <3>2, <3>3
  <2>2. CASE d # T
    BY <1>6, <2>2 DEF RawOK
  <2> QED BY <2>1, <2>2
<1>8. /\ \/ EventsOf(nw, T) = EventsOf(raw, T) /\ fails \cap {"open", "write"} # {}
         \/ EventsOf(nw, T) = EventsOf(raw, T) \cup {ev}
      /\ \A d : d # T => EventsOf(nw, d) = EventsOf(raw, d)
  <2>1. \A d : d # T => EventsOf(nw, d) = EventsOf(raw, d)
    BY <1>6 DEF EventsOf
  <2>2. CASE nw = raw /\ fails \cap {"open", "write"} # {}
    BY <2>1, <2>2
  <2>3. CASE nw = With(raw, T, q) /\ fails \cap {"open", "write"} # {}
    <3>1. EventsOf(nw, T) = {q[i] : i \in 1..Len(q)}
      BY <2>3 DEF EventsOf, With
    <3> QED BY <1>a, <2>1, <2>3, <3>1
  <2>4. CASE nw = With(raw, T, x)
    <3> HIDE DEF x
    <3>1. EventsOf(nw, T) = {x[i] : i \in 1..Len(x)}
      BY <2>4 DEF EventsOf, With
    <3> QED BY <1>4, <2>1, <3>1
  <2> QED BY <1>3, <2>2, <2>3, <2>4
<1>9. ASSUME NEW d PROVE EventsOf(nw, d) \subseteq EventsOf(new, d)
  <2>1. EventsOf(raw, d) \subseteq EventsOf(bk, d)
    BY DEF RawOK
  <2> QED BY <1>5, <1>8, <2>1
<1>10. ASSUME NEW d \in DOMAIN new
       PROVE  /\ d \notin DOMAIN dl => EventsOf(new, d) \subseteq EventsOf(nw, d) \cup more
              /\ d \in DOMAIN nw => EventsOf(new, d) \subseteq EventsOf(nw, d) \cup later
  <2>1. CASE d = T
    <3>0. EventsOf(bk, T) \subseteq EventsOf(raw, T) \cup lost
      <4>1. CASE T \in DOMAIN bk
        BY <4>1 DEF RawOK
      <4>2. CASE T \notin DOMAIN bk
        BY <4>2 DEF EventsOf
      <4> QED BY <4>1, <4>2
    <3>1. EventsOf(new, T) \subseteq EventsOf(nw, T) \cup more
      BY <1>5, <1>8, <3>0
    <3>2. T \in DOMAIN nw => EventsOf(new, T) \subseteq EventsOf(nw, T) \cup later
      <4>1. CASE T \in DOMAIN bk /\ T \in DOMAIN raw
        <5>1. EventsOf(bk, T) \subseteq EventsOf(raw, T) \cup late
          BY <4>1 DEF RawOK
        <5> QED BY <1>5, <1>8, <5>1
      <4>2. CASE T \notin DOMAIN bk
        <5>1. EventsOf(bk, T) = {}
          BY <4>2 DEF EventsOf
        <5> QED BY <1>5, <1>8, <5>1
      <4>3. CASE T \in DOMAIN bk /\ T \notin DOMAIN raw
        <5>1. EventsOf(bk, T) \subseteq lost
          BY <3>0, <4>3 DEF EventsOf
        <5> QED BY <1>5, <1>8, <5>1
      <4> QED BY <4>1, <4>2, <4>3
    <3> QED BY <2>1, <3>1, <3>2
  <2>2. CASE d # T
    <3>1. d \in DOMAIN bk /\ EventsOf(new, d) = EventsOf(bk, d) /\ EventsOf(nw, d) = EventsOf(raw, d)
          /\ (d \in DOMAIN nw <=> d \in DOMAIN raw)
      BY <1>2, <1>5, <1>6, <1>8, <2>2
    <3>2. /\ d \notin DOMAIN dl => EventsOf(bk, d) \subseteq EventsOf(raw, d) \cup lost
          /\ d \in DOMAIN raw => EventsOf(bk, d) \subseteq EventsOf(raw, d) \cup late
      BY <3>1 DEF RawOK
    <3> QED BY <3>1, <3>2
  <2> QED BY <2>1, <2>2
<1>11. ASSUME NEW d
       PROVE  d \in DOMAIN dl \/ (\E e \in more : Day(e.t) = d) \/ Whole(new, nw, d)
  <2>0. d \in DOMAIN dl \/ (\E e \in lost : Day(e.t) = d) \/ Whole(bk, raw, d)
    BY DEF RawOK
  <2>1. CASE d # T
    <3>1. Whole(bk, raw, d) => Whole(new, nw, d)
      BY <1>2, <1>6, <2>1 DEF Whole
    <3> QED BY <2>0, <3>1
  <2>2. CASE d = T /\ fails \cap {"open", "write"} # {}
    BY <2>2
  <2>3. CASE d = T /\ nw = With(raw, T, x)
    <3>1. ASSUME Whole(bk, raw, d) PROVE Whole(new, nw, d)
      <4>1. s = q
        BY <2>3, <3>1 DEF Whole, s, q, Written
      <4>2. T \in DOMAIN nw /\ nw[T] = x
        BY <2>3 DEF With
      <4> QED BY <1>2, <1>4, <2>3, <4>1, <4>2 DEF Whole
    <3> QED BY <2>0, <3>1
  <2> QED BY <1>3, <2>1, <2>2, <2>3
<1> QED BY <1>7, <1>9, <1>10, <1>11 DEF RawOK

-----------------------------------------------------------------------------
(* Clients, by the names that the salts of the days give them.             *)

LEMMA NameFacts ==
  ASSUME NEW v \in Names
  PROVE  v # <<>> /\ {v} \ {<<>>} = {v} /\ v = <<v[1], v[2]>>
<1>1. v # <<>> /\ v = <<v[1], v[2]>>
  BY DEF Names
<1> QED BY <1>1

\* The salts of sessions and of a file's visitors are in use.
LEMMA SaltsUsed ==
  ASSUME NEW b, NEW ss
  PROVE  /\ \A x \in Clients : ss[x].at # "none" => ss[x].visitor[1] \in SaltsIn(b, ss)
         /\ \A d \in DOMAIN b : \A v \in VisitorsOf(b[d], Len(b[d])) : v[1] \in SaltsIn(b, ss)
<1>1. \A x \in Clients : ss[x].at # "none" => ss[x].visitor[1] \in SaltsIn(b, ss)
  BY DEF SaltsIn
<1>2. ASSUME NEW d \in DOMAIN b, NEW v \in VisitorsOf(b[d], Len(b[d]))
      PROVE  v[1] \in SaltsIn(b, ss)
  <2>1. v \in UNION {VisitorsOf(b[e], Len(b[e])) : e \in DOMAIN b}
    OBVIOUS
  <2> QED BY <2>1 DEF SaltsIn
<1> QED BY <1>1, <1>2

\* A book whose events' visitors are among those of another.
FewerNames(n, b) ==
    \A d \in DOMAIN n : \A v \in VisitorsOf(n[d], Len(n[d])) :
       \E e \in DOMAIN b : v \in VisitorsOf(b[e], Len(b[e]))

\* Nothing new about salts: fewer names, and sessions by salts in use.
LEMMA SaltsLess ==
  ASSUME NEW b, NEW ss, NEW sf, SaltsOK(b, ss, sf), NEW n, FewerNames(n, b), NEW tt,
         \A x \in Clients : tt[x].at # "none" =>
            /\ tt[x].visitor[1] \in SaltsIn(b, ss)
            /\ tt[x].visitor \in Names /\ tt[x].visitor[2] = x
            /\ tt[x].visitor[1][1] = tt[x].on
  PROVE  SaltsOK(n, tt, sf)
<1>1. ASSUME NEW d \in DOMAIN n, NEW v \in VisitorsOf(n[d], Len(n[d]))
      PROVE  v[1] \in SaltsIn(b, ss)
  BY SaltsUsed DEF FewerNames
<1>2. SaltsIn(n, tt) \subseteq SaltsIn(b, ss)
  BY <1>1 DEF SaltsIn
<1> QED BY <1>2 DEF SaltsOK

\* Without the sessions.
LEMMA SaltsAlone ==
  ASSUME NEW b, NEW ss, NEW sf, SaltsOK(b, ss, sf), NEW n, FewerNames(n, b)
  PROVE  SaltsOK(n, NoSessions, sf)
<1>1. \A x \in Clients : NoSessions[x].at = "none"
  BY DEF NoSessions, NoSession
<1> QED BY <1>1, SaltsLess

\* With the same sessions.
LEMMA SaltsAgain ==
  ASSUME NEW b, NEW ss, NEW sf, SaltsOK(b, ss, sf), NEW n, FewerNames(n, b)
  PROVE  SaltsOK(n, ss, sf)
<1>1. \A x \in Clients : ss[x].at # "none" =>
            /\ ss[x].visitor[1] \in SaltsIn(b, ss)
            /\ ss[x].visitor \in Names /\ ss[x].visitor[2] = x
            /\ ss[x].visitor[1][1] = ss[x].on
  BY SaltsUsed DEF SaltsOK
<1> QED BY <1>1, SaltsLess

\* Fewer days of a book.
LEMMA SaltedLess ==
  ASSUME NEW bk, NEW z, NEW n, NEW y, DOMAIN n \ y \subseteq DOMAIN bk \ z,
         \A d \in DOMAIN n \ y : n[d] = bk[d]
  PROVE  /\ DOMAIN Salted(n, y) \subseteq DOMAIN Salted(bk, z)
         /\ \A d \in DOMAIN Salted(n, y) : Salted(n, y)[d] = Salted(bk, z)[d]
         /\ FewerNames(Salted(n, y), Salted(bk, z))
<1>1. /\ DOMAIN Salted(n, y) \subseteq DOMAIN Salted(bk, z)
      /\ \A d \in DOMAIN Salted(n, y) : Salted(n, y)[d] = Salted(bk, z)[d]
  BY DEF Salted
<1> QED BY <1>1 DEF FewerNames

\* Books with more gaps, or more days left out.
LEMMA PeopleLess ==
  ASSUME NEW b, NEW sn, NEW z, NEW gaps, PeopleOK(b, sn, z, gaps),
         NEW n, DOMAIN n \subseteq DOMAIN b, \A d \in DOMAIN n : n[d] = b[d],
         NEW y, z \subseteq y, NEW more, gaps \subseteq more,
         \A d \in DOMAIN b \ DOMAIN n : d \in y
  PROVE  PeopleOK(n, sn, y, more)
<1>1. \A d \in DOMAIN sn : IsFiniteSet(sn[d]) /\ sn[d] \subseteq Nat \X Clients
  BY DEF PeopleOK
<1>2. \A d \in DOMAIN n : \A v \in VisitorsOf(n[d], Len(n[d])) :
        v \in Names /\ <<v[1][1], v[2]>> \in Seen(sn, d)
  BY DEF PeopleOK
<1>3. ASSUME NEW d, d \notin y, d \notin more, NEW p \in Seen(sn, d)
      PROVE  d \in DOMAIN n /\ \E v \in VisitorsOf(n[d], Len(n[d])) : v[1][1] = p[1] /\ v[2] = p[2]
  <2>1. d \in DOMAIN b /\ \E v \in VisitorsOf(b[d], Len(b[d])) : v[1][1] = p[1] /\ v[2] = p[2]
    BY <1>3 DEF PeopleOK
  <2> QED BY <1>3, <2>1
<1> QED BY <1>1, <1>2, <1>3 DEF PeopleOK

\* The file of day d, of no events if there was none, has become z.
Lengthened(b, d, z, new) ==
    /\ Written(b, d) \in Seq(AnEvent) /\ Len(z) \in Nat
    /\ DOMAIN new = DOMAIN b \cup {d} /\ new[d] = z
    /\ \A e \in DOMAIN b \ {d} : new[e] = b[e]

LEMMA NoneWritten ==
  ASSUME NEW b, NEW d, d \notin DOMAIN b
  PROVE  VisitorsOf(Written(b, d), Len(Written(b, d))) = {}
<1>1. Len(Written(b, d)) = 0
  BY DEF Written
<1> QED BY <1>1, NoEvents

\* One event more, of nobody.
LEMMA PeopleSame ==
  ASSUME NEW b, NEW sn, NEW y, NEW gaps, PeopleOK(b, sn, y, gaps),
         NEW d, NEW s, s = Written(b, d), NEW z, NEW new, Lengthened(b, d, z, new),
         VisitorsOf(z, Len(z)) = VisitorsOf(s, Len(s)), NEW more, gaps \subseteq more
  PROVE  FewerNames(new, b) /\ PeopleOK(new, sn, y, more)
<1> USE DEF Lengthened
<1>1. d \notin DOMAIN b => VisitorsOf(s, Len(s)) = {}
  BY NoneWritten
<1>2. d \in DOMAIN b => s = b[d]
  BY DEF Written
<1>3. ASSUME NEW e \in DOMAIN new, NEW v \in VisitorsOf(new[e], Len(new[e]))
      PROVE  e \in DOMAIN b /\ v \in VisitorsOf(b[e], Len(b[e]))
  <2>1. CASE e # d
    BY <2>1
  <2>2. CASE e = d
    BY <1>1, <1>2, <2>2
  <2> QED BY <2>1, <2>2
<1>4. \A e \in DOMAIN b : VisitorsOf(b[e], Len(b[e])) = VisitorsOf(new[e], Len(new[e]))
  BY <1>2
<1>5. ASSUME NEW e, e \notin y, e \notin more, NEW p \in Seen(sn, e)
      PROVE  e \in DOMAIN new
             /\ \E v \in VisitorsOf(new[e], Len(new[e])) : v[1][1] = p[1] /\ v[2] = p[2]
  <2>1. e \in DOMAIN b /\ \E v \in VisitorsOf(b[e], Len(b[e])) : v[1][1] = p[1] /\ v[2] = p[2]
    BY <1>5 DEF PeopleOK
  <2> QED BY <1>4, <2>1
<1>6. FewerNames(new, b)
  BY <1>3 DEF FewerNames
<1> QED BY <1>3, <1>5, <1>6 DEF PeopleOK

\* One event more, of the client c by the name it had on the day of the name.
LEMMA PeopleMore ==
  ASSUME NEW b, NEW sn, NEW y, NEW gaps, PeopleOK(b, sn, y, gaps),
         NEW d, NEW s, s = Written(b, d), NEW z, NEW new, Lengthened(b, d, z, new),
         NEW c \in Clients, NEW v \in Names, v[2] = c,
         VisitorsOf(z, Len(z)) = VisitorsOf(s, Len(s)) \cup {v},
         NEW more, gaps \subseteq more,
         NEW sn2, sn2 = With(sn, d, Seen(sn, d) \cup {<<v[1][1], c>>})
  PROVE  PeopleOK(new, sn2, y, more)
<1> USE DEF Lengthened
<1> DEFINE p == <<v[1][1], c>>
<1>1. /\ \A e : e # d => Seen(sn2, e) = Seen(sn, e)
      /\ Seen(sn2, d) = Seen(sn, d) \cup {p}
      /\ DOMAIN sn2 = DOMAIN sn \cup {d} /\ \A e \in DOMAIN sn2 : sn2[e] = Seen(sn2, e)
  BY DEF With, Seen
<1>2. p \in Nat \X Clients
  BY DEF Names, Salts
<1>3. \A e : IsFiniteSet(Seen(sn, e)) /\ Seen(sn, e) \subseteq Nat \X Clients
  BY FS_EmptySet DEF PeopleOK, Seen
<1>4. ASSUME NEW e PROVE IsFiniteSet(Seen(sn2, e)) /\ Seen(sn2, e) \subseteq Nat \X Clients
  <2>1. CASE e # d
    BY <1>1, <1>3, <2>1
  <2>2. CASE e = d
    <3> HIDE DEF p
    <3>1. IsFiniteSet(Seen(sn, d) \cup {p})
      BY <1>3, FS_AddElement
    <3> QED BY <1>1, <1>2, <1>3, <2>2, <3>1
  <2> QED BY <2>1, <2>2
<1>5. d \in DOMAIN b => s = b[d]
  BY DEF Written
<1>6. d \notin DOMAIN b => VisitorsOf(s, Len(s)) = {}
  BY NoneWritten
<1>7. ASSUME NEW e \in DOMAIN new, NEW u \in VisitorsOf(new[e], Len(new[e]))
      PROVE  u \in Names /\ <<u[1][1], u[2]>> \in Seen(sn2, e)
  <2>1. CASE e # d
    BY <1>1, <1>7, <2>1 DEF PeopleOK
  <2>2. CASE e = d /\ u = v
    BY <1>1, <2>2
  <2>3. CASE e = d /\ u # v
    <3>1. d \in DOMAIN b /\ u \in VisitorsOf(b[d], Len(b[d]))
      BY <1>5, <1>6, <1>7, <2>3
    <3> QED BY <1>1, <2>3, <3>1 DEF PeopleOK
  <2> QED BY <2>1, <2>2, <2>3
<1>8. ASSUME NEW e, e \notin y, e \notin more, NEW q \in Seen(sn2, e)
      PROVE  e \in DOMAIN new
             /\ \E u \in VisitorsOf(new[e], Len(new[e])) : u[1][1] = q[1] /\ u[2] = q[2]
  <2>1. CASE e = d /\ q = p
    <3>1. v \in VisitorsOf(z, Len(z)) /\ v[1][1] = q[1] /\ v[2] = q[2]
      BY <2>1
    <3> QED BY <2>1, <3>1
  <2>2. CASE q \in Seen(sn, e)
    <3>1. e \in DOMAIN b /\ \E u \in VisitorsOf(b[e], Len(b[e])) : u[1][1] = q[1] /\ u[2] = q[2]
      BY <1>8, <2>2 DEF PeopleOK
    <3>2. VisitorsOf(b[e], Len(b[e])) \subseteq VisitorsOf(new[e], Len(new[e]))
      BY <1>5, <3>1
    <3> QED BY <3>1, <3>2
  <2> QED BY <1>1, <1>8, <2>1, <2>2
<1>9. ASSUME NEW e \in DOMAIN sn2
      PROVE  IsFiniteSet(sn2[e]) /\ sn2[e] \subseteq Nat \X Clients
  <2>1. sn2[e] = Seen(sn2, e)
    BY <1>1
  <2>2. IsFiniteSet(Seen(sn2, e)) /\ Seen(sn2, e) \subseteq Nat \X Clients
    BY <1>4, Zenon
  <2> QED BY <2>1, <2>2, Zenon
<1> HIDE DEF p
<1> QED BY <1>7, <1>8, <1>9 DEF PeopleOK

\* The salt of a name is known of, or is the newest.
SaltFits(b, ss, sf, v) ==
    /\ v[1][1] <= sf.date /\ (v[1][1] = sf.date => v[1] = sf.salt)
    /\ \A u \in SaltsIn(b, ss) : u[1] = v[1][1] => u = v[1]

\* No other names than the book's and v, and no other sessions than those there
\* were and one by that name.
MoreNames(n, b, v) ==
    \A d \in DOMAIN n : \A u \in VisitorsOf(n[d], Len(n[d])) :
       u = v \/ \E e \in DOMAIN b : u \in VisitorsOf(b[e], Len(b[e]))

Sessions(ss, tt, v) ==
    \A x \in Clients : tt[x].at # "none" =>
       \/ ss[x].at # "none" /\ tt[x].visitor = ss[x].visitor /\ tt[x].on = ss[x].on
       \/ x = v[2] /\ tt[x].visitor = v /\ tt[x].on = v[1][1]

LEMMA SaltsMore ==
  ASSUME NEW b, NEW ss, NEW sf, SaltsOK(b, ss, sf), NEW v \in Names, SaltFits(b, ss, sf, v),
         NEW n, MoreNames(n, b, v), NEW tt, Sessions(ss, tt, v)
  PROVE  SaltsOK(n, tt, sf)
<1> USE DEF SaltFits
<1>1. v[1] \in Salts
  BY DEF Names
<1>2. ASSUME NEW d \in DOMAIN n, NEW u \in VisitorsOf(n[d], Len(n[d]))
      PROVE  u[1] \in SaltsIn(b, ss) \cup {v[1]}
  <2>1. u = v \/ \E e \in DOMAIN b : u \in VisitorsOf(b[e], Len(b[e]))
    BY DEF MoreNames
  <2> QED BY <2>1, SaltsUsed
<1>3. ASSUME NEW x \in Clients, tt[x].at # "none"
      PROVE  /\ tt[x].visitor[1] \in SaltsIn(b, ss) \cup {v[1]}
             /\ tt[x].visitor \in Names /\ tt[x].visitor[2] = x
             /\ tt[x].visitor[1][1] = tt[x].on
  <2>1. CASE ss[x].at # "none" /\ tt[x].visitor = ss[x].visitor /\ tt[x].on = ss[x].on
    BY <2>1, SaltsUsed DEF SaltsOK
  <2>2. CASE x = v[2] /\ tt[x].visitor = v /\ tt[x].on = v[1][1]
    BY <2>2
  <2> QED BY <1>3, <2>1, <2>2 DEF Sessions
<1>4. ASSUME NEW x \in SaltsIn(n, tt) PROVE x \in SaltsIn(b, ss) \cup {v[1]}
  <2>1. \/ \E d \in DOMAIN n : \E u \in VisitorsOf(n[d], Len(n[d])) : x = u[1]
        \/ \E k \in Clients : tt[k].at # "none" /\ x = tt[k].visitor[1]
    BY DEF SaltsIn
  <2> QED BY <1>2, <1>3, <2>1
<1>5. ASSUME NEW x \in SaltsIn(n, tt)
      PROVE  /\ x \in Salts /\ x[1] <= sf.date
             /\ x[1] = sf.date => x = sf.salt
             /\ \A u \in SaltsIn(n, tt) : x[1] = u[1] => x = u
  <2>1. CASE x \in SaltsIn(b, ss)
    BY <1>4, <2>1 DEF SaltsOK
  <2>2. CASE x = v[1]
    BY <1>1, <1>4, <2>2
  <2> QED BY <1>4, <1>5, <2>1, <2>2
<1> QED BY <1>3, <1>5 DEF SaltsOK

\* On a day that is left out the clients that are seen do not matter.
LEMMA PeopleElsewhere ==
  ASSUME NEW b, NEW sn, NEW y, NEW gaps, PeopleOK(b, sn, y, gaps), NEW d \in y,
         d \notin DOMAIN b, NEW p \in Nat \X Clients,
         NEW sn2, sn2 = With(sn, d, Seen(sn, d) \cup {p})
  PROVE  PeopleOK(b, sn2, y, gaps)
<1>1. /\ \A e : e # d => Seen(sn2, e) = Seen(sn, e)
      /\ DOMAIN sn2 = DOMAIN sn \cup {d} /\ sn2[d] = Seen(sn, d) \cup {p}
      /\ \A e \in DOMAIN sn \ {d} : sn2[e] = sn[e]
  BY DEF With, Seen
<1>2. IsFiniteSet(Seen(sn, d)) /\ Seen(sn, d) \subseteq Nat \X Clients
  BY FS_EmptySet DEF PeopleOK, Seen
<1>3. IsFiniteSet(sn2[d]) /\ sn2[d] \subseteq Nat \X Clients
  <2>1. IsFiniteSet(Seen(sn, d) \cup {p})
    BY <1>2, FS_AddElement
  <2> QED BY <1>1, <1>2, <2>1
<1>4. ASSUME NEW e \in DOMAIN sn2 PROVE IsFiniteSet(sn2[e]) /\ sn2[e] \subseteq Nat \X Clients
  <2>1. CASE e = d
    BY <1>3, <2>1
  <2>2. CASE e # d
    BY <1>1, <2>2 DEF PeopleOK
  <2> QED BY <2>1, <2>2
<1>5. ASSUME NEW e \in DOMAIN b, NEW v \in VisitorsOf(b[e], Len(b[e]))
      PROVE  v \in Names /\ <<v[1][1], v[2]>> \in Seen(sn2, e)
  <2>1. v \in Names /\ <<v[1][1], v[2]>> \in Seen(sn, e)
    BY DEF PeopleOK
  <2> QED BY <1>1, <2>1
<1>6. ASSUME NEW e, e \notin y, e \notin gaps, NEW q \in Seen(sn2, e)
      PROVE  e \in DOMAIN b /\ \E v \in VisitorsOf(b[e], Len(b[e])) : v[1][1] = q[1] /\ v[2] = q[2]
  <2>1. q \in Seen(sn, e)
    BY <1>1, <1>6
  <2> QED BY <1>6, <2>1 DEF PeopleOK
<1> QED BY <1>4, <1>5, <1>6 DEF PeopleOK

\* The names of a day are as many as the clients it names, and these are all that
\* were seen if every one of them is named.
LEMMA NamesCounted ==
  ASSUME NEW b, NEW sn, NEW y, NEW gaps, PeopleOK(b, sn, y, gaps),
         NEW ss, NEW sf, SaltsOK(b, ss, sf), NEW d \in DOMAIN b,
         NEW V, V = VisitorsOf(b[d], Len(b[d]))
  PROVE  /\ Cardinality(V) <= Cardinality(Seen(sn, d))
         /\ d \notin y /\ d \notin gaps => Cardinality(V) = Cardinality(Seen(sn, d))
<1> DEFINE who(v) == <<v[1][1], v[2]>>
           P == Seen(sn, d)
           f == [v \in V |-> who(v)]
<1>1. IsFiniteSet(P) /\ P \subseteq Nat \X Clients
  BY FS_EmptySet DEF PeopleOK, Seen
<1>2. \A v \in V : v \in Names /\ who(v) \in P /\ v[1] \in SaltsIn(b, ss)
  BY SaltsUsed DEF PeopleOK
<1>3. \A v, u \in V : who(v) = who(u) => v = u
  <2> SUFFICES ASSUME NEW v \in V, NEW u \in V, who(v) = who(u) PROVE v = u
    OBVIOUS
  <2>1. v[1] = u[1] /\ v[2] = u[2]
    BY <1>2 DEF SaltsOK
  <2> QED BY <1>2, <2>1, NameFacts
<1>4. f \in [V -> P] /\ \A v \in V : f[v] = who(v)
  BY <1>2
<1>5. ASSUME d \notin y, d \notin gaps, NEW p \in P PROVE \E v \in V : f[v] = p
  <2>1. PICK v \in V : v[1][1] = p[1] /\ v[2] = p[2]
    BY <1>5 DEF PeopleOK
  <2>2. p = who(v)
    BY <1>1, <2>1
  <2> QED BY <1>4, <2>2
<1> HIDE DEF f, P, who
<1>6. f \in Injection(V, P)
  BY <1>3, <1>4 DEF Injection, IsInjective
<1>7. d \notin y /\ d \notin gaps => f \in Surjection(V, P)
  BY <1>4, <1>5 DEF Surjection
<1>8. Cardinality(V) <= Cardinality(P) /\ (Cardinality(V) = Cardinality(P) <=> f \in Surjection(V, P))
  BY <1>1, <1>6, FS_Injection
<1> QED BY <1>7, <1>8 DEF P

-----------------------------------------------------------------------------
(* Rolling over.                                                           *)

\* A day's visitors' hashes are forgotten.
LEMMA Forgotten ==
  ASSUME NEW bk, NEW ds, NEW t, TotalsOK(reset, bk, ds, t), NEW d \in DOMAIN ds, d # t,
         NEW new, new = With(ds, d, Saved(ds[d]))
  PROVE  TotalsOK(reset, bk, new, t)
<1>1. DOMAIN new = DOMAIN ds /\ new[d] = Saved(ds[d]) /\ \A e \in DOMAIN ds \ {d} : new[e] = ds[e]
  BY DEF With
<1>2. ds[d] \in DayTotals /\ Marked(reset, d, ds[d]) /\ Agrees(ds[d], bk[d], Len(bk[d]))
  BY DEF TotalsOK
<1>3. new[d] \in DayTotals /\ Marked(reset, d, new[d]) /\ Agrees(new[d], bk[d], Len(bk[d]))
  BY <1>1, <1>2, SavedFacts
<1>4. ASSUME NEW e \in DOMAIN new
      PROVE  new[e] \in DayTotals /\ Marked(reset, e, new[e]) /\ Agrees(new[e], bk[e], Len(bk[e]))
  <2>1. CASE e = d
    BY <1>3, <2>1
  <2>2. CASE e # d
    BY <1>1, <2>2 DEF TotalsOK
  <2> QED BY <2>1, <2>2
<1>5. t \in DOMAIN bk => new[t].seen = VisitorsOf(bk[t], Len(bk[t]))
  BY <1>1 DEF TotalsOK
<1> QED BY <1>1, <1>4, <1>5 DEF TotalsOK

\* A salt of today is drawn.
LEMMA NewSalt ==
  ASSUME Today \in Nat, NEW b, NEW ss, NEW sf, SaltsOK(b, ss, sf), sf.date \in Int,
         sf.date < Today, NEW drawn \in Salts, drawn[1] = Today,
         NEW new, new = [date |-> Today, salt |-> drawn]
  PROVE  SaltsOK(b, ss, new)
<1>1. new.date = Today /\ new.salt = drawn
  OBVIOUS
<1>2. \A s \in SaltsIn(b, ss) : s[1] \in Nat /\ s[1] < Today
  <2> SUFFICES ASSUME NEW s \in SaltsIn(b, ss) PROVE s[1] \in Nat /\ s[1] < Today
    OBVIOUS
  <2>1. s \in Salts /\ s[1] <= sf.date
    BY DEF SaltsOK
  <2>2. s[1] \in Nat
    BY <2>1 DEF Salts
  <2> QED BY <2>1, <2>2
<1>3. \A s \in SaltsIn(b, ss) : s[1] <= new.date /\ s[1] # new.date
  BY <1>1, <1>2
<1> QED BY <1>1, <1>3 DEF SaltsOK

\* The salt of today and the file it should be in.
TodaysSalt(b, ss, z, s, sf) ==
    /\ s \in Salts /\ s[1] = Today
    /\ sf \in [date : Nat \cup {None}, salt : Salts \cup {<<>>}] /\ sf.date <= Today
    /\ SaltsOK(b, ss, [date |-> Today, salt |-> s])
    /\ SaltsOK(b, NoSessions, sf)
    /\ Today \notin z => sf = [date |-> Today, salt |-> s]

\* rolloverLocked.
RolledOK(bk, r) ==
    /\ BookOK(done, bk, Today) /\ DailyOK(reset, bk, r.daily, Today)
    /\ TotalsOK(reset, bk, r.days, Today)
    /\ RawOK(bk, raw, r.daily, Unkept, Late(unwritten), Today)
    /\ \A d \in DOMAIN daily : d \in DOMAIN r.daily /\ r.daily[d] = daily[d]
    /\ TodaysSalt(Salted(bk, r.unsalted), session, r.unsalted, r.salt, r.saltFile)
    /\ PeopleOK(Salted(bk, r.unsalted), seenOn, r.unsalted, Gaps(unwritten))
    /\ unsalted \subseteq r.unsalted

LEMMA RolledFacts ==
  ASSUME Typed, NEW bk, BooksInv(bk), VisitorsInv(bk), running, NEW fails,
         NEW r, r = RolledOver(fails)
  PROVE  RolledOK(bk, r)
<1>0. Today \in Nat /\ starts \in Nat /\ Day(Opened) \in Nat /\ done \in Nat
  BY ClockFacts
<1>1. /\ today \in Nat /\ today <= Today
      /\ BookOK(done, bk, today) /\ DailyOK(reset, bk, daily, today)
      /\ TotalsOK(reset, bk, days, today)
      /\ RawOK(bk, raw, daily, Unkept, Late(unwritten), today)
  BY DEF BooksInv, BooksOK
<1>2. /\ SaltsOK(Salted(bk, unsalted), session, [date |-> today, salt |-> salt])
      /\ SaltsOK(Salted(bk, unsalted), NoSessions, saltFile)
      /\ today \notin unsalted => saltFile = [date |-> today, salt |-> salt]
      /\ PeopleOK(Salted(bk, unsalted), seenOn, unsalted, Gaps(unwritten))
      /\ saltFile \in [date : Nat \cup {None}, salt : Salts \cup {<<>>}]
      /\ saltFile.date <= Today
  BY DEF VisitorsInv, Typed
<1>3. CASE Today = today
  <2>1. /\ r.days = days /\ r.daily = daily /\ r.salt = salt /\ r.saltFile = saltFile
        /\ r.unsalted = unsalted
    BY <1>3 DEF RolledOver
  <2>2. salt \in Salts /\ salt[1] = Today
    BY <1>1, <1>2, <1>3 DEF SaltsOK, None
  <2>3. TodaysSalt(Salted(bk, r.unsalted), session, r.unsalted, r.salt, r.saltFile)
    BY <1>2, <1>3, <2>1, <2>2 DEF TodaysSalt
  <2> QED BY <1>1, <1>2, <1>3, <2>1, <2>3 DEF RolledOK
<1>4. CASE Today # today
  <2> DEFINE drawn == <<Today, starts>>
             dl == IF today \in DOMAIN days /\ "day" \notin fails
                   THEN With(daily, today, Saved(days[today])) ELSE daily
             ds == IF today \in DOMAIN days THEN With(days, today, Saved(days[today])) ELSE days
             sf == IF "salt" \in fails THEN saltFile ELSE [date |-> Today, salt |-> drawn]
             z == IF "salt" \in fails THEN unsalted \cup {Today} ELSE unsalted
  <2>1. r.days = ds /\ r.daily = dl /\ r.salt = drawn /\ r.saltFile = sf /\ r.unsalted = z
    BY <1>4 DEF RolledOver
  <2>2. today < Today /\ today \notin DOMAIN daily /\ Today \notin DOMAIN bk
    <3>1. today < Today
      BY <1>0, <1>1, <1>4
    <3>2. today \notin DOMAIN daily
      BY <1>1 DEF DailyOK
    <3>3. Today \notin DOMAIN bk
      BY <1>0, <1>1, <3>1 DEF BookOK
    <3> QED BY <3>1, <3>2, <3>3
  <2>3. DailyOK(reset, bk, daily, Today) /\ BookOK(done, bk, Today)
    <3>1. BookOK(done, bk, Today)
      BY <1>0, <1>1, LaterBook
    <3>2. DailyOK(reset, bk, daily, Today)
      BY <1>0, <1>1, LaterDaily
    <3> QED BY <3>1, <3>2
  <2>4. SavedOK(bk, daily, Today, dl)
    <3>1. CASE today \in DOMAIN days /\ "day" \notin fails
      <4>1. dl = WithSaved(daily, days, {today})
        <5>1. dl = With(daily, today, Saved(days[today]))
          BY <3>1
        <5> QED BY <2>2, <3>1, <5>1 DEF With, WithSaved
      <4> HIDE DEF dl
      <4>2. DOMAIN days \subseteq DOMAIN bk
        BY <1>1 DEF TotalsOK
      <4>3. \A d \in ({today} \cap DOMAIN days) \ DOMAIN daily :
              /\ d < Today /\ days[d] \in DayTotals /\ Marked(reset, d, days[d])
              /\ Agrees(days[d], bk[d], Len(bk[d]))
        BY <1>1, <2>2 DEF TotalsOK
      <4> QED BY <2>3, <4>1, <4>2, <4>3, SaveFacts
    <3>2. CASE ~ (today \in DOMAIN days /\ "day" \notin fails)
      <4>1. dl = daily
        BY <3>2
      <4> QED BY <2>3, <4>1 DEF SavedOK
    <3> QED BY <3>1, <3>2
  <2>5. /\ DailyOK(reset, bk, dl, Today) /\ DOMAIN daily \subseteq DOMAIN dl
        /\ \A d \in DOMAIN daily : dl[d] = daily[d]
    BY <2>4 DEF SavedOK
  <2> HIDE DEF dl
  <2>6. RawOK(bk, raw, dl, Unkept, Late(unwritten), Today)
    <3>1. DOMAIN raw \ DOMAIN raw \subseteq DOMAIN dl
      OBVIOUS
    <3> QED BY <1>0, <1>1, <2>5, <3>1, LaterRaw
  <2>7. TotalsOK(reset, bk, ds, Today)
    <3>1. TotalsOK(reset, bk, days, Today)
      BY <1>1, <2>2 DEF TotalsOK
    <3>2. CASE today \in DOMAIN days
      BY <1>4, <3>1, <3>2, Forgotten
    <3>3. CASE today \notin DOMAIN days
      BY <3>1, <3>3
    <3> QED BY <3>2, <3>3
  <2> HIDE DEF ds
  <2> DEFINE b == Salted(bk, z)
  <2>8. /\ DOMAIN b \subseteq DOMAIN Salted(bk, unsalted)
        /\ \A d \in DOMAIN b : b[d] = Salted(bk, unsalted)[d]
        /\ DOMAIN Salted(bk, unsalted) \ DOMAIN b \subseteq z
        /\ FewerNames(b, Salted(bk, unsalted)) /\ unsalted \subseteq z
    <3>1. DOMAIN bk \ z \subseteq DOMAIN bk \ unsalted /\ unsalted \subseteq z
      OBVIOUS
    <3>2. DOMAIN Salted(bk, unsalted) \ DOMAIN b \subseteq z
      BY DEF Salted
    <3> HIDE DEF z
    <3> QED BY <3>1, <3>2, SaltedLess
  <2> HIDE DEF b
  <2>9. PeopleOK(b, seenOn, z, Gaps(unwritten))
    <3> HIDE DEF z
    <3> QED BY <1>2, <2>8, PeopleLess
  <2>10. drawn \in Salts /\ drawn[1] = Today
    BY <1>0 DEF Salts
  <2>11. /\ SaltsOK(b, session, [date |-> today, salt |-> salt])
         /\ SaltsOK(b, NoSessions, [date |-> today, salt |-> salt])
         /\ SaltsOK(b, NoSessions, saltFile)
    BY <1>2, <2>8, SaltsAgain, SaltsAlone
  <2>12. /\ SaltsOK(b, session, [date |-> Today, salt |-> drawn])
         /\ SaltsOK(b, NoSessions, [date |-> Today, salt |-> drawn])
    <3> DEFINE old == [date |-> today, salt |-> salt]
               new == [date |-> Today, salt |-> drawn]
    <3>1. old.date \in Int /\ old.date < Today
      BY <1>0, <1>1, <2>2
    <3>2. SaltsOK(b, session, old) /\ SaltsOK(b, NoSessions, old)
      BY <2>11
    <3>3. new = [date |-> Today, salt |-> drawn]
      OBVIOUS
    <3> HIDE DEF old, new, drawn
    <3>4. SaltsOK(b, session, new) /\ SaltsOK(b, NoSessions, new)
      BY <1>0, <2>10, <3>1, <3>2, <3>3, NewSalt
    <3> QED BY <3>3, <3>4
  <2>13. /\ sf \in [date : Nat \cup {None}, salt : Salts \cup {<<>>}] /\ sf.date <= Today
         /\ SaltsOK(b, NoSessions, sf)
         /\ Today \notin z => sf = [date |-> Today, salt |-> drawn]
    <3>1. CASE "salt" \in fails
      BY <1>2, <2>11, <3>1
    <3>2. CASE "salt" \notin fails
      <4> DEFINE new == [date |-> Today, salt |-> drawn]
      <4>1. sf = new /\ SaltsOK(b, NoSessions, new)
        BY <2>12, <3>2
      <4>2. new \in [date : Nat \cup {None}, salt : Salts \cup {<<>>}] /\ new.date <= Today
        BY <1>0, <2>10
      <4> HIDE DEF new
      <4>3. new = [date |-> Today, salt |-> drawn]
        BY DEF new
      <4> QED BY <4>1, <4>2, <4>3
    <3> QED BY <3>1, <3>2
  <2> HIDE DEF z, sf, drawn
  <2>14. TodaysSalt(b, session, z, drawn, sf)
    BY <2>10, <2>12, <2>13 DEF TodaysSalt
  <2> QED BY <2>1, <2>3, <2>5, <2>6, <2>7, <2>8, <2>9, <2>14 DEF RolledOK, b
<1> QED BY <1>3, <1>4

-----------------------------------------------------------------------------
(* What the invariant says of the properties.                              *)

\* The files at a start, or of the process there is, as the replay needs them.
LEMMA ReadFacts ==
  ASSUME Typed, NEW bk, BooksInv(bk)
  PROVE  /\ BookOK(done, bk, Today) /\ DailyOK(reset, bk, daily, Today)
         /\ RawOK(bk, raw, daily, Unkept, Late(unwritten), Today)
         /\ ~ running => RawOK(bk, raw, daily, {}, Late(unwritten), Today)
         /\ \A d \in DOMAIN raw : d \in 0..Today /\ (raw[d] = <<>> \/ FileOf(d, raw[d], done))
         /\ \A d \in DOMAIN daily : d \in Int /\ d < Today
<1>0. Today \in Nat /\ Day(Opened) \in Nat /\ done \in Nat
  BY ClockFacts
<1>1. ASSUME running
      PROVE  /\ BookOK(done, bk, Today) /\ DailyOK(reset, bk, daily, Today)
             /\ RawOK(bk, raw, daily, Unkept, Late(unwritten), Today)
  <2>1. /\ today \in Nat /\ today <= Today /\ BookOK(done, bk, today)
        /\ DailyOK(reset, bk, daily, today)
        /\ RawOK(bk, raw, daily, Unkept, Late(unwritten), today)
    BY <1>1 DEF BooksInv, BooksOK
  <2>2. BookOK(done, bk, Today)
    BY <1>0, <2>1, LaterBook
  <2>3. RawOK(bk, raw, daily, Unkept, Late(unwritten), Today)
    <3>1. DOMAIN raw \ DOMAIN raw \subseteq DOMAIN daily
      OBVIOUS
    <3> QED BY <1>0, <2>1, <3>1, LaterRaw
  <2>4. DailyOK(reset, bk, daily, Today)
    BY <1>0, <2>1, LaterDaily
  <2> QED BY <1>1, <2>2, <2>3, <2>4
<1>2. ASSUME ~ running
      PROVE  /\ BookOK(done, bk, Today) /\ DailyOK(reset, bk, daily, Today)
             /\ RawOK(bk, raw, daily, Unkept, Late(unwritten), Today)
             /\ RawOK(bk, raw, daily, {}, Late(unwritten), Today)
  <2>1. /\ BookOK(done, bk, Today) /\ DailyOK(reset, bk, daily, Today)
        /\ RawOK(bk, raw, daily, {}, Late(unwritten), Today)
    BY <1>2 DEF BooksInv, BooksOK
  <2>2. RawOK(bk, raw, daily, Unkept, Late(unwritten), Today)
    <3>1. DOMAIN raw \ DOMAIN raw \subseteq DOMAIN daily /\ {} \subseteq Unkept
      OBVIOUS
    <3> QED BY <1>0, <2>1, <3>1, LaterRaw
  <2> QED BY <2>1, <2>2
<1>3. /\ BookOK(done, bk, Today) /\ DailyOK(reset, bk, daily, Today)
      /\ RawOK(bk, raw, daily, Unkept, Late(unwritten), Today)
      /\ ~ running => RawOK(bk, raw, daily, {}, Late(unwritten), Today)
  BY <1>1, <1>2
<1>4. \A d \in DOMAIN daily : d \in Int /\ d < Today
  BY <1>0, <1>3 DEF DailyOK, BookOK
<1>5. ASSUME NEW d \in DOMAIN raw, raw[d] # <<>> PROVE FileOf(d, raw[d], done)
  <2>1. raw[d] \in Seq(AnEvent) /\ EventsOf(raw, d) \subseteq EventsOf(bk, d)
    BY <1>3 DEF RawOK
  <2>2. Len(raw[d]) > 0 /\ Len(raw[d]) \in Nat
    BY <1>5, <2>1
  <2>3. d \in DOMAIN bk
    <3>1. raw[d][1] \in EventsOf(raw, d)
      BY <2>2 DEF EventsOf
    <3> QED BY <2>1, <3>1 DEF EventsOf
  <2>4. FileOf(d, bk[d], done)
    BY <1>3, <2>3 DEF BookOK
  <2>5. ASSUME NEW i \in 1..Len(raw[d])
        PROVE  /\ Day(raw[d][i].t) = d
               /\ raw[d][i].type = "done" => raw[d][i].what \in 1..done
               /\ raw[d][i].type = "tx" => raw[d][i].what \in Clips
    <3>1. raw[d][i] \in EventsOf(bk, d)
      BY <2>1 DEF EventsOf
    <3>2. PICK j \in 1..Len(bk[d]) : raw[d][i] = bk[d][j]
      BY <2>3, <3>1 DEF EventsOf
    <3> QED BY <2>4, <3>2 DEF FileOf
  <2> QED BY <2>1, <2>2, <2>5 DEF FileOf
<1>6. \A d \in DOMAIN raw : d \in 0..Today
  BY <1>0, <1>3 DEF RawOK
<1> QED BY <1>3, <1>4, <1>5, <1>6

EventsIn(z) == {z[i] : i \in 1..Len(z)}

\* Fewer events tell of fewer recordings and transcriptions.
LEMMA FewerWhats ==
  ASSUME NEW s, NEW z, NEW lost, EventsIn(z) \subseteq EventsIn(s),
         EventsIn(s) \subseteq EventsIn(z) \cup lost
  PROVE  \A type :
            /\ Whats(z, Len(z), type) \subseteq Whats(s, Len(s), type)
            /\ Whats(s, Len(s), type) \ Whats(z, Len(z), type)
                 \subseteq {ev.what : ev \in {x \in lost : x.type = type}}
<1>1. ASSUME NEW type, NEW f
      PROVE  Whats(f, Len(f), type) = {ev.what : ev \in {x \in EventsIn(f) : x.type = type}}
  BY DEF Whats, At, EventsIn
<1> QED BY <1>1

LEMMA RestartFact ==
  ASSUME IInv
  PROVE  RestartSame
<1> SUFFICES ASSUME running
             PROVE  /\ DOMAIN Replayed.days \subseteq DOMAIN days
                    /\ \A d \in DOMAIN days :
                         IF d \notin DOMAIN daily /\ \E ev \in Unkept : Day(ev.t) = d
                         THEN Short(days[d], Totals(Replayed.days, d, 0))
                         ELSE d \in DOMAIN Replayed.days
                              /\ Shown(d, days[d]) = Shown(d, Replayed.days[d])
  BY DEF RestartSame
<1>1. PICK bk : Inv(bk)
  BY DEF IInv
<1>2. Typed /\ BooksInv(bk) /\ TotalsOK(reset, bk, days, today)
  BY <1>1 DEF IInv, Inv, BooksInv
<1>3. /\ DailyOK(reset, bk, daily, Today) /\ BookOK(done, bk, Today)
      /\ RawOK(bk, raw, daily, Unkept, Late(unwritten), Today)
      /\ \A d \in DOMAIN raw : d \in 0..Today /\ (raw[d] = <<>> \/ FileOf(d, raw[d], done))
      /\ \A d \in DOMAIN daily : d \in Int /\ d < Today
  BY <1>2, ReadFacts
<1> DEFINE rep == Replayed
<1>4. /\ Undone = DOMAIN raw \ DOMAIN daily
      /\ DOMAIN rep.days = DOMAIN daily \cup Read
      /\ \A d \in DOMAIN daily : rep.days[d] = daily[d]
      /\ \A d \in Read : Open(d, rep.days[d], raw[d], Len(raw[d]))
  BY <1>2, <1>3, ClockFacts, ReplayedFacts
<1> HIDE DEF rep
<1>5. DOMAIN rep.days \subseteq DOMAIN days
  <2>1. ASSUME NEW d \in Read PROVE d \in DOMAIN bk
    <3>1. d \in DOMAIN raw /\ raw[d] # <<>> /\ EventsOf(raw, d) \subseteq EventsOf(bk, d)
      BY <1>3 DEF Read, Undone, RawOK
    <3>2. Len(raw[d]) > 0 /\ Len(raw[d]) \in Nat
      BY <1>3, <3>1 DEF FileOf
    <3>3. raw[d][1] \in EventsOf(raw, d)
      BY <3>1, <3>2 DEF EventsOf
    <3> QED BY <3>1, <3>3 DEF EventsOf
  <2> QED BY <1>2, <1>3, <1>4, <2>1 DEF TotalsOK, DailyOK
<1>6. ASSUME NEW d \in DOMAIN days, d \in DOMAIN daily \/ ~ \E ev \in Unkept : Day(ev.t) = d
      PROVE  d \in DOMAIN rep.days /\ Shown(d, days[d]) = Shown(d, rep.days[d])
  <2>1. /\ d \in DOMAIN bk /\ Agrees(days[d], bk[d], Len(bk[d])) /\ Marked(reset, d, days[d])
    BY <1>2 DEF TotalsOK
  <2>2. /\ d \in DOMAIN rep.days /\ Agrees(rep.days[d], bk[d], Len(bk[d]))
        /\ Marked(reset, d, rep.days[d])
    <3>1. CASE d \in DOMAIN daily
      BY <1>3, <1>4, <3>1 DEF DailyOK
    <3>2. CASE d \notin DOMAIN daily
      <4>1. Whole(bk, raw, d)
        BY <1>3, <1>6, <3>2 DEF RawOK
      <4>2. d \in Read /\ raw[d] = bk[d]
        BY <1>4, <2>1, <3>2, <4>1 DEF Whole, Read
      <4> QED BY <1>4, <4>2 DEF Open
    <3> QED BY <3>1, <3>2
  <2> DEFINE x == days[d]  y == rep.days[d]
  <2>3. /\ Agrees(x, bk[d], Len(bk[d])) /\ Agrees(y, bk[d], Len(bk[d]))
        /\ Marked(reset, d, x) /\ Marked(reset, d, y)
    BY <2>1, <2>2
  <2> HIDE DEF x, y
  <2>4. Since(d, x) = Since(d, y)
    BY <2>3 DEF Since, Marked, Agrees
  <2>5. Shown(d, x) = Shown(d, y)
    BY <2>3, <2>4 DEF Shown, Agrees
  <2> QED BY <2>2, <2>5 DEF x, y
<1>7. ASSUME NEW d \in DOMAIN days, d \notin DOMAIN daily
      PROVE  Short(days[d], Totals(rep.days, d, 0))
  <2>1. /\ d \in DOMAIN bk /\ Agrees(days[d], bk[d], Len(bk[d]))
    BY <1>2 DEF TotalsOK
  <2>2. /\ EventsOf(raw, d) \subseteq EventsOf(bk, d)
        /\ EventsOf(bk, d) \subseteq EventsOf(raw, d) \cup Unkept
    BY <1>3, <1>7, <2>1 DEF RawOK
  <2> DEFINE y == Totals(rep.days, d, 0)
  <2>3. CASE d \in Read
    <3>1. d \in DOMAIN raw /\ EventsOf(raw, d) = {raw[d][i] : i \in 1..Len(raw[d])}
      BY <2>3 DEF Read, Undone, EventsOf
    <3>2. \A type :
            /\ Whats(raw[d], Len(raw[d]), type) \subseteq Whats(bk[d], Len(bk[d]), type)
            /\ Whats(bk[d], Len(bk[d]), type) \ Whats(raw[d], Len(raw[d]), type)
                 \subseteq {ev.what : ev \in {x \in Unkept : x.type = type}}
      <4>1. /\ EventsIn(raw[d]) \subseteq EventsIn(bk[d])
            /\ EventsIn(bk[d]) \subseteq EventsIn(raw[d]) \cup Unkept
        BY <2>1, <2>2, <3>1 DEF EventsIn, EventsOf
      <4> QED BY <2>1, <4>1, FewerWhats
    <3>3. y = rep.days[d] /\ Agrees(y, raw[d], Len(raw[d]))
      BY <1>4, <2>3 DEF Totals, Open
    <3> HIDE DEF y
    <3>4. Short(days[d], y)
      BY <2>1, <3>2, <3>3 DEF Short, Agrees, Missing
    <3> QED BY <3>4 DEF y
  <2>4. CASE d \notin Read
    <3>1. y.tx = {} /\ y.done = {}
      BY <1>4, <1>7, <2>4 DEF Totals, NewDay
    <3>2. EventsOf(raw, d) = {}
      BY <1>4, <1>7, <2>4 DEF Read, EventsOf
    <3> DEFINE n == <<>>
    <3>3. \A type :
            Whats(bk[d], Len(bk[d]), type) \ Whats(n, Len(n), type)
              \subseteq {ev.what : ev \in {x \in Unkept : x.type = type}}
      <4>1. EventsIn(n) = {}
        BY DEF EventsIn
      <4>2. /\ EventsIn(n) \subseteq EventsIn(bk[d])
            /\ EventsIn(bk[d]) \subseteq EventsIn(n) \cup Unkept
        BY <2>1, <2>2, <3>2, <4>1 DEF EventsIn, EventsOf
      <4> HIDE DEF n
      <4> QED BY <2>1, <4>2, FewerWhats
    <3>4. \A type : Whats(n, Len(n), type) = {}
      <4>1. Len(n) = 0
        OBVIOUS
      <4> HIDE DEF n
      <4> QED BY <4>1, NoEvents
    <3> HIDE DEF y
    <3>5. Short(days[d], y)
      BY <2>1, <3>1, <3>3, <3>4 DEF Short, Agrees, Missing
    <3> QED BY <3>5 DEF y
  <2> QED BY <2>3, <2>4
<1> QED BY <1>5, <1>6, <1>7 DEF rep

\* The recordings counted live on a day are those of its events in the book.
LEMMA LiveFacts ==
  ASSUME NEW bk, BooksInv(bk)
  PROVE  /\ \A d : Live(d) \subseteq Tx(bk, d)
         /\ running => \A d : Live(d) = Tx(bk, d)
<1>1. CASE ~ running
  BY <1>1 DEF BooksInv, Live, NoDays
<1>2. CASE running
  <2>1. TotalsOK(reset, bk, days, today)
    BY <1>2 DEF BooksInv
  <2>2. ASSUME NEW d PROVE Live(d) = Tx(bk, d)
    <3>1. CASE d \in DOMAIN bk
      <4>1. d \in DOMAIN days /\ days[d].tx = Whats(bk[d], Len(bk[d]), "tx")
        BY <2>1, <3>1 DEF TotalsOK, Agrees
      <4> QED BY <3>1, <4>1 DEF Live, Tx
    <3>2. CASE d \notin DOMAIN bk
      BY <2>1, <3>2 DEF TotalsOK, Live, Tx
    <3> QED BY <3>1, <3>2
  <2> QED BY <2>2
<1> QED BY <1>1, <1>2

LEMMA CountedOnceFact ==
  ASSUME IInv
  PROVE  CountedOnce
<1>1. PICK bk : Inv(bk)
  BY DEF IInv
<1>2. \A d : Live(d) \subseteq Tx(bk, d)
  BY <1>1, LiveFacts DEF Inv
<1>3. \A d : \A c \in Tx(bk, d) \cap (archive \cup radioFile.clips) :
        Day(clip[c].start) # d \/ c \in Untold
  BY <1>1 DEF Inv, RadioInv
<1> QED BY <1>2, <1>3 DEF CountedOnce

LEMMA AllCountedFact ==
  ASSUME IInv
  PROVE  AllCounted
<1> SUFFICES ASSUME running, scan = None, NEW w \in wavs
             PROVE  \/ w \in archive \cup unread \cup Untold
                    \/ \E d \in DOMAIN days : w \in Live(d)
                    \/ Live(Day(clip[w].start)) # {} /\ Told(Day(clip[w].start)) = {}
  BY DEF AllCounted
<1>1. PICK bk : Inv(bk)
  BY DEF IInv
<1>2. \A d : Live(d) = Tx(bk, d)
  BY <1>1, LiveFacts DEF Inv
<1>3. w \in OldClips \cup Clips
  BY DEF IInv, Typed
<1>4. CASE w \in OldClips
  <2>1. w \in archive \cup unread \/ Exempt(w)
    BY <1>1, <1>4 DEF Inv, RadioInv
  <2>2. ASSUME Exempt(w)
        PROVE  Live(Day(clip[w].start)) # {} /\ Told(Day(clip[w].start)) = {}
    <3> DEFINE d == Day(clip[w].start)
    <3>1. d \in DOMAIN daily /\ daily[d].tx # {} /\ Told(d) = {}
      BY <2>2 DEF Exempt
    <3>2. d \in DOMAIN bk /\ daily[d].tx = Whats(bk[d], Len(bk[d]), "tx")
      <4> HIDE DEF d
      <4>1. d \in DOMAIN bk /\ Agrees(daily[d], bk[d], Len(bk[d]))
        BY <1>1, <3>1 DEF Inv, BooksInv, BooksOK, DailyOK
      <4> QED BY <4>1 DEF Agrees
    <3> QED BY <1>2, <3>1, <3>2 DEF Tx
  <2> QED BY <2>1, <2>2
<1>5. CASE w \in Clips
  <2>1. w \in Untold \/ \E d : w \in Tx(bk, d)
    BY <1>1, <1>5 DEF Inv, ClipsInv
  <2>2. ASSUME NEW d, w \in Tx(bk, d) PROVE d \in DOMAIN days /\ w \in Live(d)
    <3>1. w \in Live(d)
      BY <1>2, <2>2
    <3> QED BY <3>1 DEF Live
  <2> QED BY <2>1, <2>2
<1> QED BY <1>3, <1>4, <1>5

LEMMA VisitorsOnceFact ==
  ASSUME IInv
  PROVE  VisitorsOnce
<1> SUFFICES ASSUME running, NEW d \in DOMAIN days, d \notin unsalted
             PROVE  LET clients == IF d \in DOMAIN seenOn THEN Cardinality(seenOn[d]) ELSE 0
                    IN /\ days[d].visitors <= clients
                       /\ (\A u \in unwritten : Day(u.event.t) # d) => days[d].visitors = clients
  BY DEF VisitorsOnce
<1>1. PICK bk : Inv(bk)
  BY DEF IInv
<1> DEFINE b == Salted(bk, unsalted)
<1>2. /\ TotalsOK(reset, bk, days, today)
      /\ PeopleOK(b, seenOn, unsalted, Gaps(unwritten))
      /\ SaltsOK(b, session, [date |-> today, salt |-> salt])
  BY <1>1 DEF Inv, BooksInv, VisitorsInv
<1>3. d \in DOMAIN b /\ b[d] = bk[d]
  BY <1>2 DEF TotalsOK, Salted
<1>4. days[d].visitors = Cardinality(VisitorsOf(b[d], Len(b[d])))
  BY <1>2, <1>3 DEF TotalsOK, Agrees
<1> HIDE DEF b
<1>5. /\ Cardinality(VisitorsOf(b[d], Len(b[d]))) <= Cardinality(Seen(seenOn, d))
      /\ d \notin unsalted /\ d \notin Gaps(unwritten) =>
           Cardinality(VisitorsOf(b[d], Len(b[d]))) = Cardinality(Seen(seenOn, d))
  BY <1>2, <1>3, NamesCounted
<1>6. (\A u \in unwritten : Day(u.event.t) # d) => d \notin Gaps(unwritten)
  BY DEF Gaps
<1>7. Cardinality(Seen(seenOn, d)) = IF d \in DOMAIN seenOn THEN Cardinality(seenOn[d]) ELSE 0
  BY FS_EmptySet DEF Seen
<1> QED BY <1>4, <1>5, <1>6, <1>7

LEMMA InitInv ==
  ASSUME Init
  PROVE  IInv
<1>1. PICK began \in [OldClips -> 0..Opened - 1] :
        clip = [c \in OldClips \cup Clips |->
                  IF c \in OldClips THEN [at |-> "saved", start |-> began[c]]
                  ELSE [at |-> "none", start |-> None]]
  BY DEF Init
<1>2. /\ now = Opened /\ starts = 0 /\ running = FALSE
      /\ raw = NoDays /\ daily = NoDays
      /\ saltFile = [date |-> None, salt |-> <<>>]
      /\ radioFile = [made |-> FALSE, clips |-> {}]
      /\ wavs = OldClips /\ reset = [on |-> None, done |-> 0] /\ done = 0
      /\ days = NoDays /\ concurrent = 0 /\ archive = {} /\ scan = None
      /\ session = [c \in Clients |-> NoSession] /\ seenOn = NoDays
      /\ unwritten = {} /\ unsalted = {} /\ unread = {}
  BY DEF Init
<1>3. Opened \in Nat /\ Today \in Nat
  BY <1>2, AnalyticsAssumption, DayFacts DEF Today
<1>4. OldClips \cap Clips = {}
  BY AnalyticsAssumption
<1> DEFINE bk == NoDays
<1>5. DOMAIN raw = {} /\ DOMAIN daily = {} /\ DOMAIN seenOn = {} /\ DOMAIN bk = {}
  BY <1>2 DEF NoDays
<1>6. /\ \A c \in OldClips : clip[c].at = "saved" /\ clip[c].start \in 0..(Opened - 1)
      /\ \A c \in Clips : clip[c].at = "none" /\ clip[c].start = None
  BY <1>1, <1>4
<1>7. \A c \in Clients : NoSessions[c].at = "none"
  BY DEF NoSession, NoSessions
<1>8. Typed
  <2>1. clip \in [OldClips \cup Clips ->
                    [at : {"none", "recording", "counted", "saved", "lost"},
                     start : Nat \cup {None}]]
    BY <1>1
  <2>2. session \in [Clients -> Peer]
    BY <1>2 DEF NoSession, Peer
  <2>3. /\ reset \in [on : Nat \cup {None}, done : Nat]
        /\ saltFile \in [date : Nat \cup {None}, salt : Salts \cup {<<>>}]
        /\ radioFile \in [made : BOOLEAN, clips : SUBSET wavs]
        /\ reset.on <= Today /\ reset.done <= done
    BY <1>2, <1>3 DEF None
  <2>4. /\ now \in Nat /\ Opened <= now /\ starts \in Nat
        /\ done \in Nat /\ concurrent \in Nat
    BY <1>2, <1>3
  <2>5. running \in BOOLEAN
    BY <1>2, Zenon
  <2>6. wavs \subseteq OldClips \cup Clips /\ archive \subseteq wavs
        /\ scan \in Nat \cup {None, Failed}
        /\ \A u \in unwritten : u.start \in 0..starts /\ u.event \in AnEvent
    BY <1>2
  <2> QED BY <2>1, <2>2, <2>3, <2>4, <2>5, <2>6 DEF Typed
<1> HIDE DEF bk
<1>9. BooksInv(bk)
  <2>1. RawOK(bk, raw, daily, {}, Late(unwritten), Today)
    BY <1>5 DEF RawOK, EventsOf, Whole
  <2>2. BookOK(done, bk, Today) /\ DailyOK(reset, bk, daily, Today)
    BY <1>5 DEF BookOK, DailyOK
  <2> QED BY <1>2, <2>1, <2>2 DEF BooksInv, BooksOK
<1>10. VisitorsInv(bk)
  <2>0. DOMAIN Salted(bk, unsalted) = {}
    BY <1>5 DEF Salted
  <2>1. SaltsIn(Salted(bk, unsalted), NoSessions) = {}
    BY <1>7, <2>0 DEF SaltsIn
  <2>2. SaltsOK(Salted(bk, unsalted), NoSessions, saltFile)
    BY <1>2, <1>7, <2>1 DEF SaltsOK
  <2>3. PeopleOK(Salted(bk, unsalted), seenOn, unsalted, Gaps(unwritten))
    BY <1>5, <2>0 DEF PeopleOK, Seen
  <2>4. saltFile.date <= Today
    BY <1>2, <1>3 DEF None
  <2> QED BY <1>2, <2>2, <2>3, <2>4 DEF VisitorsInv
<1>11. \A d : Tx(bk, d) = {}
  BY <1>5 DEF Tx
<1>12. ClipsInv(bk)
  BY <1>2, <1>5, <1>6, <1>11, <1>4 DEF ClipsInv
<1>13. RadioInv(bk)
  BY <1>2, <1>11 DEF RadioInv
<1>14. Inv(bk)
  BY <1>9, <1>10, <1>12, <1>13 DEF Inv
<1> QED BY <1>8, <1>14 DEF IInv

-----------------------------------------------------------------------------
(* Recordings and the archive, whatever the step.                          *)

\* The book z after a step that may count the recording of the event ev: no other
\* is, and the events of recordings are those there were and ev.
TxGrown(bk, z, ev) ==
    /\ \A d : Tx(z, d) = IF d = Today /\ ev.type = "tx" THEN Tx(bk, d) \cup {ev.what}
                         ELSE Tx(bk, d)
    /\ \A d \in DOMAIN z : \A i \in 1..Len(z[d]) : z[d][i].type = "tx" =>
         \/ d \in DOMAIN bk /\ \E j \in 1..Len(bk[d]) : bk[d][j] = z[d][i]
         \/ d = Today /\ z[d][i] = ev

\* How far the recordings are after it.
ClipsGrown(ev) ==
    /\ ev.type = "tx" =>
         /\ ev.what \in Clips /\ clip[ev.what].at = "recording"
         /\ ev.t \in Opened..now
         /\ Day(clip[ev.what].start) = Today => ev.t = clip[ev.what].start
    /\ clip' = IF ev.type = "tx" THEN [clip EXCEPT ![ev.what].at = "counted"] ELSE clip

\* Saved totals stay, and of the raw files only that of today is written to.
FilesKept ==
    /\ \A d \in DOMAIN daily : d \in DOMAIN daily' /\ daily'[d] = daily[d]
    /\ \A d \in DOMAIN raw' \ {Today} : d \in DOMAIN raw /\ raw'[d] = raw[d]

LEMMA ClipsStay ==
  ASSUME Typed, NEW bk, ClipsInv(bk), NEW z, NEW ev, TxGrown(bk, z, ev), ClipsGrown(ev),
         now' = now, wavs' = wavs, running => running', Untold \subseteq Untold',
         running \/ clip' = clip
  PROVE  ClipsInv(z)'
<1>1. \A c \in OldClips \cup Clips :
         /\ clip'[c].start = clip[c].start
         /\ clip'[c].at = IF ev.type = "tx" /\ c = ev.what THEN "counted" ELSE clip[c].at
  <2>1. CASE ev.type = "tx"
    <3>1. clip' = [clip EXCEPT ![ev.what].at = "counted"]
      BY <2>1 DEF ClipsGrown
    <3> QED BY <2>1, <3>1 DEF Typed
  <2>2. CASE ev.type # "tx"
    BY <2>2 DEF ClipsGrown
  <2> QED BY <2>1, <2>2
<1>2. ASSUME NEW d \in DOMAIN bk, NEW i \in 1..Len(bk[d]), bk[d][i].type = "tx"
      PROVE  bk[d][i].what \in Tx(bk, d)
  BY <1>2 DEF Tx, Whats, At
<1>3. ASSUME NEW d, NEW c \in Tx(bk, d)
      PROVE  c \in Clips /\ clip[c].at \in {"counted", "saved", "lost"}
  BY DEF ClipsInv
<1>4. ASSUME NEW d \in DOMAIN z, NEW i \in 1..Len(z[d]), z[d][i].type = "tx"
      PROVE  /\ z[d][i].t \in Opened..now
             /\ Day(clip'[z[d][i].what].start) = d => z[d][i].t = clip'[z[d][i].what].start
  <2>1. CASE d \in DOMAIN bk /\ \E j \in 1..Len(bk[d]) : bk[d][j] = z[d][i]
    <3>1. PICK j \in 1..Len(bk[d]) : bk[d][j] = z[d][i]
      BY <2>1
    <3>2. bk[d][j].what \in Clips
      BY <1>2, <1>3, <1>4, <2>1, <3>1
    <3>3. /\ bk[d][j].t \in Opened..now
          /\ Day(clip[bk[d][j].what].start) = d => bk[d][j].t = clip[bk[d][j].what].start
      BY <1>4, <2>1, <3>1 DEF ClipsInv
    <3> QED BY <1>1, <3>1, <3>2, <3>3
  <2>2. CASE d = Today /\ z[d][i] = ev
    <3>1. /\ ev.what \in Clips /\ ev.t \in Opened..now
          /\ Day(clip[ev.what].start) = Today => ev.t = clip[ev.what].start
      BY <1>4, <2>2 DEF ClipsGrown
    <3> QED BY <1>1, <2>2, <3>1
  <2> QED BY <1>4, <2>1, <2>2 DEF TxGrown
<1>5. ASSUME NEW d, NEW c \in Tx(z, d)
      PROVE  c \in Clips /\ clip'[c].at \in {"counted", "saved", "lost"}
  <2>1. CASE c \in Tx(bk, d)
    BY <1>1, <1>3, <2>1
  <2>2. CASE ev.type = "tx" /\ c = ev.what
    BY <1>1, <2>2 DEF ClipsGrown
  <2> QED BY <2>1, <2>2 DEF TxGrown
<1>6. ASSUME NEW c \in Clips
      PROVE  /\ clip'[c].at \in {"counted", "saved"} => c \in Untold' \/ \E d : c \in Tx(z, d)
             /\ clip'[c].at # "none" => clip'[c].start \in Opened..now
             /\ c \in wavs => clip'[c].at = "saved"
             /\ clip'[c].at \in {"recording", "counted"} => running'
  <2>1. /\ clip[c].at \in {"counted", "saved"} => c \in Untold \/ \E d : c \in Tx(bk, d)
        /\ clip[c].at # "none" => clip[c].start \in Opened..now
        /\ c \in wavs => clip[c].at = "saved"
        /\ clip[c].at \in {"recording", "counted"} => running
    BY DEF ClipsInv
  <2>2. CASE ev.type = "tx" /\ c = ev.what
    <3>1. clip[c].at = "recording" /\ clip'[c].at = "counted" /\ clip'[c].start = clip[c].start
      BY <1>1, <2>2 DEF ClipsGrown
    <3>2. c \in Tx(z, Today)
      BY <2>2 DEF TxGrown
    <3> QED BY <2>1, <3>1, <3>2
  <2>3. CASE ~ (ev.type = "tx" /\ c = ev.what)
    <3>1. clip'[c].at = clip[c].at /\ clip'[c].start = clip[c].start
      BY <1>1, <2>3
    <3>2. \A d : Tx(bk, d) \subseteq Tx(z, d)
      BY DEF TxGrown
    <3> QED BY <2>1, <3>1, <3>2
  <2> QED BY <2>2, <2>3
<1>7. \A w \in OldClips : w \in wavs /\ clip'[w].start \in 0..(Opened - 1)
  BY <1>1 DEF ClipsInv
<1> QED BY <1>4, <1>5, <1>6, <1>7 DEF ClipsInv

\* A recording whose day's events have been pruned: they do not come back.
LEMMA ExemptStays ==
  ASSUME NEW bk, Typed, DailyOK(reset, bk, daily, Today), FilesKept,
         NEW w, Exempt(w), clip'[w].start = clip[w].start
  PROVE  Exempt(w)'
<1>0. PICK d : d = Day(clip[w].start)
  OBVIOUS
<1>1. d \in DOMAIN daily /\ daily[d].tx # {} /\ Told(d) = {}
  BY <1>0 DEF Exempt
<1>2. d # Today
  BY <1>1, ClockFacts DEF DailyOK
<1>3. d \in DOMAIN daily' /\ daily'[d].tx # {}
  BY <1>1 DEF FilesKept
<1>4. (IF d \in DOMAIN raw' THEN {ev.what : ev \in {e \in Range(raw'[d]) : e.type = "tx"}}
       ELSE {}) = {}
  <2>1. d \in DOMAIN raw' => d \in DOMAIN raw /\ raw'[d] = raw[d]
    BY <1>2 DEF FilesKept
  <2> QED BY <1>1, <2>1 DEF Told
<1>5. Day(clip'[w].start) = d
  BY <1>0
<1> QED BY <1>3, <1>4, <1>5 DEF Exempt, Told

LEMMA RadioStays ==
  ASSUME Typed, NEW bk, DailyOK(reset, bk, daily, Today), ClipsInv(bk), RadioInv(bk),
         NEW z, NEW ev, TxGrown(bk, z, ev), ClipsGrown(ev), FilesKept, running' = running,
         Untold \subseteq Untold', UNCHANGED <<now, wavs, radioFile, archive, scan, unread>>
  PROVE  RadioInv(z)'
<1>1. \A c \in OldClips \cup Clips :
        /\ clip'[c].start = clip[c].start
        /\ clip'[c].at = "recording" => clip[c].at = "recording"
  <2>1. CASE ev.type = "tx"
    <3>1. clip' = [clip EXCEPT ![ev.what].at = "counted"]
      BY <2>1 DEF ClipsGrown
    <3> QED BY <2>1, <3>1 DEF Typed
  <2>2. CASE ev.type # "tx"
    BY <2>2 DEF ClipsGrown
  <2> QED BY <2>1, <2>2
<1>2. \A w \in OldClips : Exempt(w) => Exempt(w)'
  BY <1>1, ExemptStays
<1>3. ASSUME NEW d, NEW c \in Tx(z, d)
      PROVE  /\ c \in Clips
             /\ c \in Tx(bk, d) \/ (clip[c].at = "recording" /\ c \notin wavs)
  <2>1. CASE c \in Tx(bk, d)
    BY <2>1 DEF ClipsInv
  <2>2. CASE ev.type = "tx" /\ c = ev.what
    BY <2>2 DEF ClipsGrown, ClipsInv
  <2> QED BY <2>1, <2>2 DEF TxGrown
<1>4. archive \subseteq wavs /\ radioFile.clips \subseteq wavs
  BY DEF Typed
<1>5. ASSUME NEW d, NEW c \in Tx(z, d) \cap (archive \cup radioFile.clips)
      PROVE  Day(clip'[c].start) # d \/ c \in Untold'
  <2>1. c \in Tx(bk, d) /\ c \in Clips
    BY <1>3, <1>4
  <2>2. Day(clip[c].start) # d \/ c \in Untold
    BY <2>1 DEF RadioInv
  <2> QED BY <1>1, <2>1, <2>2
<1>6. radioFile.made => \A w \in OldClips : w \in radioFile.clips \cup unread \/ Exempt(w)'
  BY <1>2 DEF RadioInv
<1>7. running /\ scan = None => \A w \in OldClips : w \in archive \cup unread \/ Exempt(w)'
  BY <1>2 DEF RadioInv
<1>8. ASSUME running, scan \in Nat
      PROVE  /\ scan \in 0..now /\ ~ radioFile.made
             /\ \A w \in OldClips : clip'[w].start < scan \/ Exempt(w)'
             /\ \A d : \A c \in Tx(z, d) :
                  Day(clip'[c].start) = d => clip'[c].start >= scan \/ c \in Untold'
             /\ \A c \in Clips : clip'[c].at = "recording" => clip'[c].start >= scan
  <2>1. /\ scan \in 0..now /\ ~ radioFile.made
        /\ \A w \in OldClips : clip[w].start < scan \/ Exempt(w)
        /\ \A d : \A c \in Tx(bk, d) :
             Day(clip[c].start) = d => clip[c].start >= scan \/ c \in Untold
        /\ \A c \in Clips : clip[c].at = "recording" => clip[c].start >= scan
    BY <1>8 DEF RadioInv
  <2>2. \A w \in OldClips : clip'[w].start < scan \/ Exempt(w)'
    BY <1>1, <1>2, <2>1
  <2>3. ASSUME NEW d, NEW c \in Tx(z, d), Day(clip'[c].start) = d
        PROVE  clip'[c].start >= scan \/ c \in Untold'
    BY <1>1, <1>3, <2>1, <2>3
  <2>4. \A c \in Clips : clip'[c].at = "recording" => clip'[c].start >= scan
    BY <1>1, <2>1
  <2> QED BY <2>1, <2>2, <2>3, <2>4
<1> QED BY <1>5, <1>6, <1>7, <1>8 DEF RadioInv

-----------------------------------------------------------------------------
(* An event of today.                                                      *)

\* What is unwritten after the event ev.
LEMMA UnwrittenFacts ==
  ASSUME Typed, NEW fails, NEW ev \in AnEvent, starts' = starts,
         unwritten' = Unlogged(fails, starts, ev)
  PROVE  /\ unwritten \subseteq unwritten' /\ Untold \subseteq Untold'
         /\ Unkept \subseteq Late(unwritten)
         /\ Unkept \subseteq Unkept' /\ Late(unwritten) \subseteq Late(unwritten')
         /\ Gaps(unwritten) \subseteq Gaps(unwritten')
         /\ \A u \in unwritten' : u.start \in 0..starts' /\ u.event \in AnEvent
         /\ fails \cap {"open", "write"} # {} => ev \in Unkept' /\ ev \in Late(unwritten')
<1>1. PICK u : u = [start |-> starts, event |-> ev]
  OBVIOUS
<1>2. u.start = starts /\ u.event = ev
  BY <1>1
<1>3. unwritten' = IF fails \cap {"open", "write"} = {} THEN unwritten ELSE unwritten \cup {u}
  BY <1>1 DEF Unlogged
<1>4. unwritten \subseteq unwritten'
  BY <1>3
<1>5. starts \in 0..starts
  BY DEF Typed
<1>6. \A v \in unwritten' : v.start \in 0..starts' /\ v.event \in AnEvent
  BY <1>2, <1>3, <1>5 DEF Typed
<1>7. fails \cap {"open", "write"} # {} => ev \in Unkept' /\ ev \in Late(unwritten')
  BY <1>2, <1>3 DEF Unkept, Late
<1>8. Untold \subseteq Untold'
  BY <1>4 DEF Untold
<1>9. /\ Unkept \subseteq Late(unwritten) /\ Unkept \subseteq Unkept'
      /\ Late(unwritten) \subseteq Late(unwritten') /\ Gaps(unwritten) \subseteq Gaps(unwritten')
  BY <1>4 DEF Unkept, Late, Gaps
<1> QED BY <1>4, <1>6, <1>7, <1>8, <1>9

\* The book z has the event of today more.
Extended(bk, z, ev) ==
    /\ Written(bk, Today) \in Seq(AnEvent) /\ Longer(Written(bk, Today), ev, z[Today])
    /\ DOMAIN z = DOMAIN bk \cup {Today} /\ \A d \in DOMAIN bk \ {Today} : z[d] = bk[d]

LEMMA ExtendedFacts ==
  ASSUME NEW bk, NEW dl, NEW ev, NEW m, NEW z, NEW a, Appended(bk, dl, ev, m, z, a)
  PROVE  Extended(bk, z, ev) /\ TxGrown(bk, z, ev)
<1> DEFINE T == Today
           s == Written(bk, T)
<1>1. /\ s \in Seq(AnEvent) /\ Longer(s, ev, z[T])
      /\ DOMAIN z = DOMAIN bk \cup {T} /\ \A d \in DOMAIN bk \ {T} : z[d] = bk[d]
      /\ \A d : Tx(z, d) = IF d = T /\ ev.type = "tx" THEN Tx(bk, d) \cup {ev.what}
                           ELSE Tx(bk, d)
  BY DEF Appended
<1>2. ASSUME NEW d \in DOMAIN z, NEW i \in 1..Len(z[d])
      PROVE  \/ d \in DOMAIN bk /\ \E j \in 1..Len(bk[d]) : bk[d][j] = z[d][i]
             \/ d = T /\ z[d][i] = ev
  <2>1. CASE d # T
    BY <1>1, <2>1
  <2>2. CASE d = T
    <3>1. /\ Len(s) \in Nat /\ Len(z[T]) = Len(s) + 1 /\ z[T][Len(s) + 1] = ev
          /\ \A j \in 1..Len(s) : z[T][j] = s[j]
      BY <1>1 DEF Longer
    <3>2. i \in 1..Len(s) \/ i = Len(s) + 1
      BY <2>2, <3>1
    <3>3. CASE i \in 1..Len(s)
      <4>1. T \in DOMAIN bk /\ s = bk[T]
        BY <3>3 DEF Written
      <4> QED BY <2>2, <3>1, <3>3, <4>1
    <3> QED BY <2>2, <3>1, <3>2, <3>3
  <2> QED BY <2>1, <2>2
<1> QED BY <1>1, <1>2 DEF TxGrown, Extended

\* The event is in the book z of today, whatever was rolled over and could not be
\* written.
Recorded(bk, z, r, ev) ==
    /\ BooksInv(z)' /\ TxGrown(bk, z, ev) /\ FilesKept /\ concurrent' \in Nat
    /\ Extended(bk, z, ev)
    /\ Untold \subseteq Untold' /\ Gaps(unwritten) \subseteq Gaps(unwritten')
    /\ \A u \in unwritten' : u.start \in 0..starts' /\ u.event \in AnEvent
    /\ saltFile' = r.saltFile /\ salt' = r.salt /\ today' = Today /\ unsalted' = r.unsalted

LEMMA EventFacts ==
  ASSUME Typed, NEW bk, NEW fails, NEW r, RolledOK(bk, r), NEW ev, Proper(ev), Day(ev.t) = Today,
         done' \in Nat, done <= done', ev.type = "done" => ev.what \in 1..done',
         Append1(r, fails, ev), running, running' = running, now' = now, reset' = reset,
         starts' = starts
  PROVE  \E z : Recorded(bk, z, r, ev)
<1> DEFINE T == Today
           s == Written(bk, T)
           m == done'
           a == Apply([days |-> r.days, concurrent |-> concurrent], ev)
<1>0. T \in Nat /\ T' = T /\ m \in Nat /\ done <= m /\ ev \in AnEvent
  BY ClockFacts DEF Today, Proper
<1>1. PICK z : z = With(bk, T, Append(s, ev))
  OBVIOUS
<1>2. /\ days' = a.days /\ concurrent' = a.concurrent
      /\ raw' = Logged(fails, ev) /\ unwritten' = Unlogged(fails, starts, ev)
      /\ today' = T /\ salt' = r.salt
      /\ daily' = r.daily /\ saltFile' = r.saltFile /\ unsalted' = r.unsalted
  BY DEF Append1
<1>3. /\ BookOK(done, bk, T) /\ DailyOK(reset, bk, r.daily, T)
      /\ TotalsOK(reset, bk, r.days, T)
      /\ RawOK(bk, raw, r.daily, Unkept, Late(unwritten), T)
      /\ \A d \in DOMAIN daily : d \in DOMAIN r.daily /\ r.daily[d] = daily[d]
  BY DEF RolledOK
<1>4. /\ Untold \subseteq Untold'
      /\ Unkept \subseteq Late(unwritten) /\ Unkept \subseteq Unkept'
      /\ Late(unwritten) \subseteq Late(unwritten') /\ Gaps(unwritten) \subseteq Gaps(unwritten')
      /\ \A u \in unwritten' : u.start \in 0..starts' /\ u.event \in AnEvent
      /\ fails \cap {"open", "write"} # {} => ev \in Unkept' /\ ev \in Late(unwritten')
  BY <1>0, <1>2, UnwrittenFacts
<1>5. Appended(bk, r.daily, ev, m, z, a)
  <2>1. concurrent \in Nat
    BY DEF Typed
  <2>2. ev.type = "done" => ev.what \in 1..m
    OBVIOUS
  <2>3. a = Apply([days |-> r.days, concurrent |-> concurrent], ev)
    OBVIOUS
  <2> HIDE DEF a, m
  <2> QED BY <1>0, <1>1, <1>3, <2>1, <2>2, <2>3, AppendFacts
<1> HIDE DEF a
<1>6. /\ BookOK(m, z, T) /\ DailyOK(reset, z, r.daily, T) /\ TotalsOK(reset, z, a.days, T)
      /\ a.concurrent \in Nat /\ T \notin DOMAIN r.daily
      /\ s \in Seq(AnEvent) /\ Longer(s, ev, z[T])
      /\ DOMAIN z = DOMAIN bk \cup {T} /\ \A d \in DOMAIN bk \ {T} : z[d] = bk[d]
      /\ \A d : Tx(z, d) = IF d = T /\ ev.type = "tx" THEN Tx(bk, d) \cup {ev.what}
                           ELSE Tx(bk, d)
  BY <1>5 DEF Appended
<1>7. RawOK(z, raw', r.daily, Unkept', Late(unwritten'), T)
  <2> DEFINE more == Unkept'  later == Late(unwritten')  nw == raw'
  <2>1. /\ Unkept \subseteq more /\ Late(unwritten) \subseteq later /\ nw = Logged(fails, ev)
        /\ fails \cap {"open", "write"} # {} => ev \in more /\ ev \in later
    BY <1>2, <1>4
  <2> HIDE DEF more, later, nw
  <2>2. RawOK(z, nw, r.daily, more, later, T)
    BY <1>0, <1>1, <1>3, <1>4, <1>6, <2>1, LoggedFacts
  <2> QED BY <2>2 DEF more, later, nw
<1>8. BooksInv(z)'
  <2>1. today' \in Nat /\ today' <= Today' /\ running'
    BY <1>0, <1>2
  <2>2. BookOK(done', z, today') /\ DailyOK(reset', z, daily', today')
        /\ TotalsOK(reset', z, days', today')
    BY <1>2, <1>6
  <2>3. RawOK(z, raw', daily', Unkept', Late(unwritten'), today')
    BY <1>2, <1>7
  <2> QED BY <2>1, <2>2, <2>3 DEF BooksInv, BooksOK
<1>9. TxGrown(bk, z, ev) /\ Extended(bk, z, ev)
  BY <1>5, ExtendedFacts
<1>10. FilesKept
  <2>1. \A d \in DOMAIN raw' \ {Today} : d \in DOMAIN raw /\ raw'[d] = raw[d]
    <3> DEFINE old == IF Day(ev.t) \in DOMAIN raw THEN raw[Day(ev.t)] ELSE <<>>
               q == IF "write" \in fails THEN old ELSE Append(old, ev)
    <3>1. raw' = raw \/ raw' = With(raw, Day(ev.t), q)
      BY <1>2 DEF Logged
    <3> HIDE DEF q
    <3>2. CASE raw' = raw
      BY <3>2
    <3>3. CASE raw' = With(raw, Day(ev.t), q)
      <4> QED BY <3>3 DEF With
    <3> QED BY <3>1, <3>2, <3>3
  <2> QED BY <1>2, <1>3, <2>1 DEF FilesKept
<1> QED BY <1>2, <1>4, <1>6, <1>8, <1>9, <1>10 DEF Recorded

\* The days whose salt is in the salt file: today is one of them or is not.
LEMMA SaltedFacts ==
  ASSUME NEW bk, NEW z, NEW ev, Extended(bk, z, ev), NEW y, NEW b, b = Salted(bk, y), NEW n, n = Salted(z, y)
  PROVE  /\ Today \in y => /\ Today \notin DOMAIN b /\ DOMAIN n = DOMAIN b
                           /\ \A d \in DOMAIN b : n[d] = b[d]
                           /\ FewerNames(n, b)
         /\ Today \notin y => /\ Written(b, Today) = Written(bk, Today)
                              /\ Lengthened(b, Today, z[Today], n)
<1>1. /\ DOMAIN z = DOMAIN bk \cup {Today} /\ \A d \in DOMAIN bk \ {Today} : z[d] = bk[d]
      /\ Written(bk, Today) \in Seq(AnEvent) /\ Longer(Written(bk, Today), ev, z[Today])
  BY DEF Extended
<1>2. /\ DOMAIN b = DOMAIN bk \ y /\ DOMAIN n = DOMAIN z \ y
      /\ \A d \in DOMAIN b : b[d] = bk[d]
      /\ \A d \in DOMAIN n : n[d] = z[d]
  BY DEF Salted
<1>3. ASSUME Today \in y
      PROVE  /\ Today \notin DOMAIN b /\ DOMAIN n = DOMAIN b
             /\ \A d \in DOMAIN b : n[d] = b[d]
             /\ FewerNames(n, b)
  <2>1. Today \notin DOMAIN b /\ DOMAIN n = DOMAIN b /\ \A d \in DOMAIN b : n[d] = b[d]
    BY <1>1, <1>2, <1>3
  <2> QED BY <2>1 DEF FewerNames
<1>4. ASSUME Today \notin y
      PROVE  Written(b, Today) = Written(bk, Today) /\ Lengthened(b, Today, z[Today], n)
  <2>1. Written(b, Today) = Written(bk, Today)
    BY <1>2, <1>4 DEF Written
  <2>2. DOMAIN n = DOMAIN b \cup {Today} /\ n[Today] = z[Today]
        /\ \A d \in DOMAIN b \ {Today} : n[d] = b[d]
    BY <1>1, <1>2, <1>4
  <2>3. Len(z[Today]) \in Nat
    BY <1>1 DEF Longer
  <2> QED BY <1>1, <2>1, <2>2, <2>3 DEF Lengthened
<1> QED BY <1>3, <1>4

\* An event of nobody.
LEMMA NobodyNamed ==
  ASSUME NEW bk, NEW z, NEW ev, Extended(bk, z, ev), ev.visitor = <<>>,
         NEW y, NEW b, b = Salted(bk, y), NEW n, n = Salted(z, y),
         NEW sn, NEW gaps, PeopleOK(b, sn, y, gaps), NEW more, gaps \subseteq more
  PROVE  FewerNames(n, b) /\ PeopleOK(n, sn, y, more)
<1>1. CASE Today \in y
  <2>1. DOMAIN n = DOMAIN b /\ (\A d \in DOMAIN b : n[d] = b[d]) /\ FewerNames(n, b)
    BY <1>1, SaltedFacts
  <2> QED BY <2>1, PeopleLess
<1>2. CASE Today \notin y
  <2> DEFINE s == Written(b, Today)  t == z[Today]  d == Today
  <2>1. s = Written(bk, d) /\ Lengthened(b, d, t, n)
    BY <1>2, SaltedFacts
  <2>2. VisitorsOf(t, Len(t)) = VisitorsOf(s, Len(s))
    BY <2>1 DEF Longer, Extended
  <2>3. s = Written(b, d)
    OBVIOUS
  <2> HIDE DEF s, t, d
  <2> QED BY <2>1, <2>2, <2>3, PeopleSame
<1> QED BY <1>1, <1>2

LEMMA NobodyFacts ==
  ASSUME Typed, NEW bk, NEW r, RolledOK(bk, r), NEW ev, NEW z, Recorded(bk, z, r, ev),
         ev.visitor = <<>>, session' = session, seenOn' = seenOn, now' = now
  PROVE  VisitorsInv(z)'
<1>1. PICK y, b, n : y = r.unsalted /\ b = Salted(bk, y) /\ n = Salted(z, y)
  OBVIOUS
<1>2. /\ TodaysSalt(b, session, y, r.salt, r.saltFile)
      /\ PeopleOK(b, seenOn, y, Gaps(unwritten))
  BY <1>1 DEF RolledOK
<1>3. /\ Extended(bk, z, ev)
      /\ Gaps(unwritten) \subseteq Gaps(unwritten')
      /\ saltFile' = r.saltFile /\ salt' = r.salt /\ today' = Today /\ unsalted' = y
  BY <1>1 DEF Recorded
<1>4. Today' = Today
  BY DEF Today
<1> DEFINE more == Gaps(unwritten')
<1>5. Gaps(unwritten) \subseteq more
  BY <1>3
<1> HIDE DEF more
<1>6. FewerNames(n, b) /\ PeopleOK(n, seenOn, y, more)
  BY <1>1, <1>2, <1>3, <1>5, NobodyNamed
<1>7. /\ SaltsOK(n, session, [date |-> Today, salt |-> r.salt])
      /\ SaltsOK(n, NoSessions, r.saltFile)
  BY <1>2, <1>6, SaltsAgain DEF TodaysSalt
<1> QED BY <1>1, <1>2, <1>3, <1>4, <1>6, <1>7 DEF VisitorsInv, TodaysSalt, more

\* An event of a client, by the name of today or by that of its session.
LEMMA SomebodyFacts ==
  ASSUME Typed, NEW bk, NEW r, RolledOK(bk, r), NEW ev, NEW z, Recorded(bk, z, r, ev),
         NEW c \in Clients, NEW v \in Names, ev.visitor = v, v[2] = c,
         v[1] \in SaltsIn(Salted(bk, r.unsalted), session) \/ v[1] = r.salt,
         See(v[1][1], c), now' = now, NEW tt, tt = session', Sessions(session, tt, v)
  PROVE  VisitorsInv(z)'
<1>1. PICK y, b, n : y = r.unsalted /\ b = Salted(bk, y) /\ n = Salted(z, y)
  OBVIOUS
<1>2. /\ TodaysSalt(b, session, y, r.salt, r.saltFile)
      /\ PeopleOK(b, seenOn, y, Gaps(unwritten))
  BY <1>1 DEF RolledOK
<1>3. /\ Extended(bk, z, ev) /\ Longer(Written(bk, Today), ev, z[Today])
      /\ Gaps(unwritten) \subseteq Gaps(unwritten')
      /\ saltFile' = r.saltFile /\ salt' = r.salt /\ today' = Today /\ unsalted' = y
  BY <1>1 DEF Recorded, Extended
<1>4. Today' = Today
  BY DEF Today
<1> DEFINE more == Gaps(unwritten')  sn2 == seenOn'  d == Today
           f == [date |-> Today, salt |-> r.salt]
<1>5. /\ Gaps(unwritten) \subseteq more
      /\ sn2 = With(seenOn, d, Seen(seenOn, d) \cup {<<v[1][1], c>>})
  BY <1>3 DEF See, Seen
<1>6. f.date = d /\ f.salt = r.salt
  OBVIOUS
<1>7. /\ SaltsOK(b, session, f) /\ r.salt \in Salts /\ r.salt[1] = d
      /\ SaltsOK(b, NoSessions, r.saltFile) /\ r.saltFile.date <= d
      /\ d \notin y => r.saltFile = f
  BY <1>2 DEF TodaysSalt
<1>8. d \in Nat
  BY ClockFacts
<1> HIDE DEF more, sn2, f, d
<1>9. SaltFits(b, session, f, v)
  <2>1. CASE v[1] \in SaltsIn(b, session)
    BY <1>6, <1>7, <2>1 DEF SaltsOK, SaltFits
  <2>2. CASE v[1] = r.salt
    BY <1>6, <1>7, <1>8, <2>2 DEF SaltsOK, SaltFits
  <2> QED BY <1>1, <2>1, <2>2
<1>10. v # <<>> /\ {v} \ {<<>>} = {v} /\ <<v[1][1], c>> \in Nat \X Clients
  BY NameFacts DEF Names, Salts
<1>11. /\ MoreNames(n, b, v) /\ PeopleOK(n, sn2, y, more)
       /\ d \in y => FewerNames(n, b)
  <2>1. ASSUME d \in y
        PROVE  MoreNames(n, b, v) /\ PeopleOK(n, sn2, y, more) /\ FewerNames(n, b)
    <3>1. /\ d \notin DOMAIN b /\ DOMAIN n = DOMAIN b /\ (\A e \in DOMAIN b : n[e] = b[e])
          /\ FewerNames(n, b)
      BY <1>1, <1>3, <2>1, SaltedFacts DEF d
    <3>2. PeopleOK(b, sn2, y, Gaps(unwritten))
      BY <1>2, <1>5, <1>10, <2>1, <3>1, PeopleElsewhere
    <3>3. PeopleOK(n, sn2, y, more)
      BY <1>5, <3>1, <3>2, PeopleLess
    <3> QED BY <3>1, <3>3 DEF MoreNames, FewerNames
  <2>2. ASSUME d \notin y
        PROVE  MoreNames(n, b, v) /\ PeopleOK(n, sn2, y, more)
    <3> DEFINE s == Written(b, d)  t == z[d]
    <3>1. s = Written(bk, d) /\ Lengthened(b, d, t, n)
      BY <1>1, <1>3, <2>2, SaltedFacts DEF d
    <3>2. VisitorsOf(t, Len(t)) = VisitorsOf(s, Len(s)) \cup {v}
      BY <1>3, <1>10, <3>1 DEF Longer, d
    <3>3. s = Written(b, d) /\ (d \in DOMAIN b => s = b[d])
      BY DEF Written
    <3> HIDE DEF s, t
    <3>4. PeopleOK(n, sn2, y, more)
      BY <1>2, <1>5, <3>1, <3>2, <3>3, PeopleMore
    <3>5. ASSUME NEW e \in DOMAIN n, NEW u \in VisitorsOf(n[e], Len(n[e]))
          PROVE  u = v \/ \E a \in DOMAIN b : u \in VisitorsOf(b[a], Len(b[a]))
      <4>1. CASE e # d
        BY <3>1, <4>1 DEF Lengthened
      <4>2. CASE e = d /\ d \in DOMAIN b
        BY <3>1, <3>2, <3>3, <4>2 DEF Lengthened
      <4>3. CASE e = d /\ d \notin DOMAIN b
        <5>1. VisitorsOf(s, Len(s)) = {}
          BY <3>3, <4>3, NoneWritten
        <5> QED BY <3>1, <3>2, <4>3, <5>1 DEF Lengthened
      <4> QED BY <4>1, <4>2, <4>3
    <3> QED BY <3>4, <3>5 DEF MoreNames
  <2> QED BY <2>1, <2>2
<1>12. SaltsOK(n, tt, f)
  BY <1>7, <1>9, <1>11, SaltsMore
<1>13. SaltsOK(n, NoSessions, r.saltFile)
  <2>1. CASE d \in y
    BY <1>7, <1>11, <2>1, SaltsAgain
  <2>2. CASE d \notin y
    <3>1. FewerNames(n, n)
      BY DEF FewerNames
    <3> QED BY <1>7, <1>12, <2>2, <3>1, SaltsAlone
  <2> QED BY <2>1, <2>2
<1> QED BY <1>1, <1>3, <1>4, <1>7, <1>11, <1>12, <1>13 DEF VisitorsInv, more, sn2, f, d

-----------------------------------------------------------------------------
(* Requests, sessions, transcriptions and recordings.                      *)

Shaped(ev, t, type, visitor, what) ==
    /\ Proper(ev) /\ Day(ev.t) = Today /\ ev.t = t /\ ev.type = type
    /\ ev.visitor = visitor /\ ev.what = what

LEMMA EventShape ==
  ASSUME NEW t \in Nat, Day(t) = Today, NEW type \in Kinds, NEW visitor \in Names \cup {<<>>},
         NEW what \in What, type = "tx" => what \in Clips, type = "done" => what \in Nat,
         NEW ev, ev = Event(t, type, visitor, what)
  PROVE  Shaped(ev, t, type, visitor, what)
<1>1. ev = [t |-> t, type |-> type, visitor |-> visitor, what |-> what]
  BY DEF Event
<1>2. ev.t = t /\ ev.type = type /\ ev.visitor = visitor /\ ev.what = what
  BY <1>1
<1>3. ev \in AnEvent
  BY <1>1 DEF AnEvent
<1> QED BY <1>2, <1>3 DEF Proper, Shaped

\* What an event leaves of the invariant, its visitor apart.
LEMMA EventKeeps ==
  ASSUME Typed, running, NEW bk, Inv(bk), NEW r, RolledOK(bk, r), NEW ev,
         NEW z, Recorded(bk, z, r, ev), ClipsGrown(ev), VisitorsInv(z)',
         done' \in Nat, done <= done', session' \in [Clients -> Peer],
         Elsewhere, wavs' = wavs
  PROVE  IInv'
<1>1. UNCHANGED <<now, starts, running, radioFile, reset, archive, scan, wavs, unread>>
  BY DEF Elsewhere
<1>2. /\ BooksInv(z)' /\ TxGrown(bk, z, ev) /\ FilesKept /\ concurrent' \in Nat
      /\ Untold \subseteq Untold' /\ saltFile' = r.saltFile
      /\ \A u \in unwritten' : u.start \in 0..starts' /\ u.event \in AnEvent
  BY DEF Recorded
<1>3. Typed'
  <2>1. /\ now' \in Nat /\ Opened <= now' /\ starts' \in Nat
        /\ done' \in Nat /\ concurrent' \in Nat
        /\ reset' \in [on : Nat \cup {None}, done : Nat]
        /\ reset'.done <= done' /\ scan' \in Nat \cup {None, Failed}
    BY <1>1, <1>2 DEF Typed
  <2>2. reset'.on <= Today'
    BY <1>1 DEF Typed, Today
  <2>3. running' \in BOOLEAN
    BY <1>1 DEF Typed
  <2>4. saltFile' \in [date : Nat \cup {None}, salt : Salts \cup {<<>>}]
    BY <1>2 DEF RolledOK, TodaysSalt
  <2>5. /\ wavs' \subseteq OldClips \cup Clips /\ archive' \subseteq wavs'
        /\ radioFile' \in [made : BOOLEAN, clips : SUBSET wavs']
    BY <1>1 DEF Typed
  <2>6. clip' \in [OldClips \cup Clips ->
                     [at : {"none", "recording", "counted", "saved", "lost"},
                      start : Nat \cup {None}]]
    BY DEF Typed, ClipsGrown
  <2> QED BY <1>2, <2>1, <2>2, <2>3, <2>4, <2>5, <2>6 DEF Typed
<1>4. ClipsInv(bk) /\ RadioInv(bk) /\ BooksInv(bk)
  BY DEF Inv
<1>5. ClipsInv(z)'
  BY <1>1, <1>2, <1>4, ClipsStay
<1>6. DailyOK(reset, bk, daily, Today)
  BY <1>4, ReadFacts
<1>7. RadioInv(z)'
  BY <1>1, <1>2, <1>4, <1>6, RadioStays
<1> QED BY <1>2, <1>3, <1>5, <1>7 DEF IInv, Inv

\* The name of a client today.
LEMMA NameToday ==
  ASSUME NEW bk, NEW r, RolledOK(bk, r), NEW c \in Clients, NEW v, v = Hash(r, c)
  PROVE  /\ v \in Names /\ v[1] = r.salt /\ v[2] = c /\ v[1][1] = Today
<1>1. r.salt \in Salts /\ r.salt[1] = Today
  BY DEF RolledOK, TodaysSalt
<1>2. v = <<r.salt, c>>
  BY DEF Hash
<1> QED BY <1>1, <1>2 DEF Names

\* An event of a client, by the name of today or that of its session.
LEMMA ClientEvent ==
  ASSUME IInv, running, NEW fails, NEW r, r = RolledOver(fails),
         NEW c \in Clients, NEW v \in Names, v[2] = c,
         v[1] = r.salt \/ (session[c].at # "none" /\ v = session[c].visitor),
         NEW type \in Kinds \ {"tx", "done"}, Append1(r, fails, Event(now, type, v, "none")),
         See(v[1][1], c), Sessions(session, session', v), session' \in [Clients -> Peer],
         Elsewhere, wavs' = wavs, clip' = clip, done' = done
  PROVE  IInv'
<1>1. PICK bk : Inv(bk)
  BY DEF IInv
<1>2. PICK ev : ev = Event(now, type, v, "none")
  OBVIOUS
<1>3. Typed /\ now \in Nat /\ Day(now) = Today /\ done \in Nat
  BY ClockFacts DEF IInv
<1>4. RolledOK(bk, r)
  BY <1>1, <1>3, RolledFacts DEF Inv
<1>5. Proper(ev) /\ Day(ev.t) = Today /\ ev.type = type /\ ev.visitor = v
  BY <1>2, <1>3, EventShape DEF What, Shaped
<1>6. running' = running /\ now' = now /\ reset' = reset /\ starts' = starts
  BY DEF Elsewhere
<1>7. PICK z : Recorded(bk, z, r, ev)
  BY <1>2, <1>3, <1>4, <1>5, <1>6, EventFacts
<1>8. v[1] = r.salt \/ v[1] \in SaltsIn(Salted(bk, r.unsalted), session)
  BY SaltsUsed
<1>9. VisitorsInv(z)'
  BY <1>3, <1>4, <1>5, <1>6, <1>7, <1>8, SomebodyFacts
<1>10. ClipsGrown(ev)
  BY <1>5 DEF ClipsGrown
<1> QED BY <1>1, <1>3, <1>4, <1>7, <1>9, <1>10, EventKeeps

LEMMA RequestInv ==
  ASSUME IInv, NEW c \in Clients, Request(c)
  PROVE  IInv'
<1>1. PICK fails \in SUBSET Attempts :
        LET r == RolledOver(fails) IN
        /\ running /\ Append1(r, fails, Event(now, "request", Hash(r, c), "none"))
        /\ See(Today, c) /\ Elsewhere /\ UNCHANGED <<wavs, session, clip, done>>
  BY DEF Request
<1> DEFINE r == RolledOver(fails)
           v == Hash(r, c)
<1>2. /\ running /\ Append1(r, fails, Event(now, "request", v, "none"))
      /\ See(Today, c) /\ Elsewhere /\ UNCHANGED <<wavs, session, clip, done>>
  BY <1>1
<1>3. r = RolledOver(fails) /\ v = Hash(r, c)
  OBVIOUS
<1> HIDE DEF r, v
<1>4. PICK bk : Inv(bk)
  BY DEF IInv
<1>5. RolledOK(bk, r)
  BY <1>2, <1>3, <1>4, RolledFacts DEF IInv, Inv
<1>6. v \in Names /\ v[1] = r.salt /\ v[2] = c /\ v[1][1] = Today
  BY <1>3, <1>5, NameToday
<1>7. /\ See(v[1][1], c) /\ Sessions(session, session', v) /\ session' \in [Clients -> Peer]
      /\ "request" \in Kinds \ {"tx", "done"}
  BY <1>2, <1>6 DEF Sessions, IInv, Typed, Kinds
<1> QED BY <1>2, <1>3, <1>6, <1>7, ClientEvent

LEMMA ListenStartInv ==
  ASSUME IInv, NEW c \in Clients, ListenStart(c)
  PROVE  IInv'
<1>1. PICK fails \in SUBSET Attempts :
        LET r == RolledOver(fails) IN
        /\ running /\ Append1(r, fails, Event(now, "offer", Hash(r, c), "none"))
        /\ session' = [session EXCEPT ![c] = [at |-> "offered", visitor |-> Hash(r, c),
                                             on |-> Today]]
        /\ See(Today, c) /\ Elsewhere /\ UNCHANGED <<wavs, clip, done>>
  BY DEF ListenStart
<1> DEFINE r == RolledOver(fails)
           v == Hash(r, c)
<1>2. /\ running /\ Append1(r, fails, Event(now, "offer", v, "none"))
      /\ session' = [session EXCEPT ![c] = [at |-> "offered", visitor |-> v, on |-> Today]]
      /\ See(Today, c) /\ Elsewhere /\ UNCHANGED <<wavs, clip, done>>
  BY <1>1
<1>3. r = RolledOver(fails) /\ v = Hash(r, c)
  OBVIOUS
<1> HIDE DEF r, v
<1>4. PICK bk : Inv(bk)
  BY DEF IInv
<1>5. RolledOK(bk, r)
  BY <1>2, <1>3, <1>4, RolledFacts DEF IInv, Inv
<1>6. v \in Names /\ v[1] = r.salt /\ v[2] = c /\ v[1][1] = Today
  BY <1>3, <1>5, NameToday
<1>7. session \in [Clients -> Peer] /\ Today \in Nat
  BY ClockFacts DEF IInv, Typed
<1> DEFINE new == [at |-> "offered", visitor |-> v, on |-> Today]
<1>8. new \in Peer /\ new.visitor = v /\ new.on = Today
  BY <1>6, <1>7 DEF Peer
<1>9. session' = [session EXCEPT ![c] = new]
  BY <1>2
<1> HIDE DEF new
<1>10. session' \in [Clients -> Peer] /\ Sessions(session, session', v)
  BY <1>6, <1>7, <1>8, <1>9 DEF Sessions
<1>11. See(v[1][1], c) /\ "offer" \in Kinds \ {"tx", "done"}
  BY <1>2, <1>6 DEF Kinds
<1> QED BY <1>2, <1>3, <1>6, <1>10, <1>11, ClientEvent

\* What a session's name is.
LEMMA SessionName ==
  ASSUME IInv, running, NEW c \in Clients, session[c].at # "none", NEW v, v = session[c].visitor
  PROVE  /\ v \in Names /\ v[2] = c /\ v[1][1] = session[c].on
         /\ session[c] \in Peer /\ session \in [Clients -> Peer]
BY DEF IInv, Inv, VisitorsInv, SaltsOK, Typed

LEMMA ListenConnectedInv ==
  ASSUME IInv, NEW c \in Clients, ListenConnected(c)
  PROVE  IInv'
<1>1. PICK fails \in SUBSET Attempts :
        /\ running /\ session[c].at = "offered"
        /\ Append1(RolledOver(fails), fails, Event(now, "connected", session[c].visitor, "none"))
        /\ session' = [session EXCEPT ![c].at = "connected"]
        /\ See(session[c].on, c) /\ Elsewhere /\ UNCHANGED <<wavs, clip, done>>
  BY DEF ListenConnected
<1> DEFINE r == RolledOver(fails)
           v == session[c].visitor
<1>2. /\ running /\ Append1(r, fails, Event(now, "connected", v, "none"))
      /\ r = RolledOver(fails) /\ v = session[c].visitor
  BY <1>1
<1> HIDE DEF r, v
<1>3. /\ v \in Names /\ v[2] = c /\ v[1][1] = session[c].on
      /\ session[c] \in Peer /\ session \in [Clients -> Peer]
  BY <1>1, <1>2, SessionName
<1>4. session' \in [Clients -> Peer] /\ Sessions(session, session', v)
  BY <1>1, <1>2, <1>3 DEF Sessions, Peer
<1>5. See(v[1][1], c) /\ "connected" \in Kinds \ {"tx", "done"}
  BY <1>1, <1>3 DEF Kinds
<1> QED BY <1>1, <1>2, <1>3, <1>4, <1>5, ClientEvent

LEMMA ListenEndedInv ==
  ASSUME IInv, NEW c \in Clients, ListenEnded(c)
  PROVE  IInv'
<1> DEFINE type == IF session[c].at = "connected" THEN "end" ELSE "never"
<1>1. PICK fails \in SUBSET Attempts :
        /\ running /\ session[c].at # "none"
        /\ Append1(RolledOver(fails), fails, Event(now, type, session[c].visitor, "none"))
        /\ session' = [session EXCEPT ![c] = NoSession]
        /\ See(session[c].on, c) /\ Elsewhere /\ UNCHANGED <<wavs, clip, done>>
  BY DEF ListenEnded
<1> DEFINE r == RolledOver(fails)
           v == session[c].visitor
<1>2. /\ running /\ Append1(r, fails, Event(now, type, v, "none"))
      /\ r = RolledOver(fails) /\ v = session[c].visitor
  BY <1>1
<1>3. type \in Kinds \ {"tx", "done"}
  BY DEF Kinds
<1> HIDE DEF r, v, type
<1>4. /\ v \in Names /\ v[2] = c /\ v[1][1] = session[c].on
      /\ session[c] \in Peer /\ session \in [Clients -> Peer]
  BY <1>1, <1>2, SessionName
<1>5. session' \in [Clients -> Peer] /\ Sessions(session, session', v)
  <2>1. NoSession \in Peer /\ NoSession.at = "none"
    BY DEF NoSession, Peer
  <2> QED BY <1>1, <1>4, <2>1 DEF Sessions
<1>6. See(v[1][1], c)
  BY <1>1, <1>4
<1> QED BY <1>1, <1>2, <1>3, <1>4, <1>5, <1>6, ClientEvent

LEMMA TranscribedInv ==
  ASSUME IInv, Transcribed
  PROVE  IInv'
<1>1. PICK fails \in SUBSET Attempts :
        /\ running /\ done' = done + 1
        /\ Append1(RolledOver(fails), fails, Event(now, "done", <<>>, done'))
        /\ Elsewhere /\ UNCHANGED <<wavs, session, clip, seenOn>>
  BY DEF Transcribed
<1>2. PICK ev, r : /\ ev = Event(now, "done", <<>>, done') /\ r = RolledOver(fails)
                   /\ Append1(r, fails, ev)
  BY <1>1
<1>3. Typed /\ now \in Nat /\ Day(now) = Today /\ done \in Nat
  BY ClockFacts DEF IInv
<1>4. PICK bk : Inv(bk)
  BY DEF IInv
<1>5. RolledOK(bk, r)
  BY <1>1, <1>2, <1>3, <1>4, RolledFacts DEF Inv
<1>6. done' \in Nat /\ done <= done' /\ done' \in 1..done'
  BY <1>1, <1>3
<1>7. /\ Proper(ev) /\ Day(ev.t) = Today /\ ev.type = "done" /\ ev.visitor = <<>>
      /\ ev.what = done'
  <2>1. "done" \in Kinds /\ done' \in What /\ <<>> \in Names \cup {<<>>}
    BY <1>6 DEF Kinds, What
  <2> DEFINE n == done'
  <2> HIDE DEF n
  <2>2. n \in What /\ n \in Nat /\ ev = Event(now, "done", <<>>, n)
    BY <1>2, <1>6, <2>1 DEF n
  <2>3. Shaped(ev, now, "done", <<>>, n)
    BY <1>3, <2>1, <2>2, EventShape
  <2> QED BY <2>3 DEF Shaped, n
<1>8. running' = running /\ now' = now /\ reset' = reset /\ starts' = starts
  BY <1>1 DEF Elsewhere
<1>9. PICK z : Recorded(bk, z, r, ev)
  BY <1>1, <1>2, <1>3, <1>5, <1>6, <1>7, <1>8, EventFacts
<1>10. VisitorsInv(z)'
  BY <1>1, <1>3, <1>5, <1>7, <1>8, <1>9, NobodyFacts
<1>11. ClipsGrown(ev) /\ session' \in [Clients -> Peer]
  BY <1>1, <1>3, <1>7 DEF ClipsGrown, Typed
<1> QED BY <1>1, <1>3, <1>4, <1>5, <1>6, <1>9, <1>10, <1>11, EventKeeps

LEMMA CountClipInv ==
  ASSUME IInv, NEW c \in Clips, CountClip(c)
  PROVE  IInv'
<1>1. PICK fails, t :
        /\ fails \in SUBSET Attempts
        /\ t = IF Day(clip[c].start) = Today THEN clip[c].start ELSE now
        /\ running /\ clip[c].at = "recording"
        /\ Append1(RolledOver(fails), fails, Event(t, "tx", <<>>, c))
        /\ clip' = [clip EXCEPT ![c].at = "counted"]
        /\ Elsewhere /\ UNCHANGED <<wavs, session, done, seenOn>>
  BY DEF CountClip
<1>2. PICK ev, r : /\ ev = Event(t, "tx", <<>>, c) /\ r = RolledOver(fails)
                   /\ Append1(r, fails, ev)
  BY <1>1
<1>3. Typed /\ now \in Nat /\ Day(now) = Today /\ done \in Nat /\ Opened <= now
  BY ClockFacts DEF IInv, Typed
<1>4. PICK bk : Inv(bk)
  BY DEF IInv
<1>5. /\ t \in Opened..now /\ Day(t) = Today
      /\ Day(clip[c].start) = Today => t = clip[c].start
  <2>1. clip[c].start \in Opened..now
    BY <1>1, <1>4 DEF Inv, ClipsInv
  <2> QED BY <1>1, <1>3, <2>1, AnalyticsAssumption
<1>6. t \in Nat
  BY <1>5, AnalyticsAssumption
<1>7. RolledOK(bk, r)
  BY <1>1, <1>2, <1>3, <1>4, RolledFacts DEF Inv
<1>8. /\ Proper(ev) /\ Day(ev.t) = Today /\ ev.t = t /\ ev.type = "tx" /\ ev.visitor = <<>>
      /\ ev.what = c
  <2>1. "tx" \in Kinds /\ c \in What /\ <<>> \in Names \cup {<<>>}
    BY DEF Kinds, What
  <2>2. Shaped(ev, t, "tx", <<>>, c)
    BY <1>2, <1>5, <1>6, <2>1, EventShape
  <2> QED BY <2>2 DEF Shaped
<1>9. /\ running' = running /\ now' = now /\ reset' = reset /\ starts' = starts
      /\ done' \in Nat /\ done <= done'
  BY <1>1, <1>3 DEF Elsewhere
<1>10. PICK z : Recorded(bk, z, r, ev)
  BY <1>1, <1>2, <1>3, <1>7, <1>8, <1>9, EventFacts
<1>11. VisitorsInv(z)'
  BY <1>1, <1>3, <1>7, <1>8, <1>9, <1>10, NobodyFacts
<1>12. ClipsGrown(ev) /\ session' \in [Clients -> Peer]
  BY <1>1, <1>3, <1>5, <1>8 DEF ClipsGrown, Typed
<1> QED BY <1>1, <1>3, <1>4, <1>7, <1>9, <1>10, <1>11, <1>12, EventKeeps

-----------------------------------------------------------------------------
(* Maintenance.                                                            *)

\* The files after the old ones have been saved and deleted, as far as possible.
PrunedOK(bk, rw, dl, lost, late, p) ==
    /\ DailyOK(reset, bk, p.daily, Today) /\ RawOK(bk, p.raw, p.daily, lost, late, Today)
    /\ \A d \in DOMAIN dl : d \in DOMAIN p.daily /\ p.daily[d] = dl[d]
    /\ \A d \in DOMAIN p.raw : d \in DOMAIN rw /\ p.raw[d] = rw[d]

LEMMA PruneFacts ==
  ASSUME Typed, NEW bk, NEW rw, NEW dl, NEW ds, NEW lost, NEW late,
         DailyOK(reset, bk, dl, Today), RawOK(bk, rw, dl, lost, late, Today),
         TotalsOK(reset, bk, ds, Today),
         NEW open, NEW unsaved, NEW kept, NEW p, p = Pruned(rw, dl, ds, open, unsaved, kept)
  PROVE  PrunedOK(bk, rw, dl, lost, late, p)
<1>1. Today \in Nat /\ Day(Opened) \in Nat /\ Retention \in Nat
  BY ClockFacts, AnalyticsAssumption
<1> DEFINE old == Old(rw, open)
           saved == WithSaved(dl, ds, old \ unsaved)
           nw == Drop(rw, (old \cap DOMAIN saved) \ kept)
<1>2. p.raw = nw /\ p.daily = saved
  BY DEF Pruned
<1>3. \A d \in old : d \in DOMAIN rw /\ d < Today
  <2>1. \A d \in DOMAIN rw : d \in Int
    BY <1>1 DEF RawOK
  <2> QED BY <1>1, <2>1 DEF Old
<1> HIDE DEF old
<1>4. SavedOK(bk, dl, Today, saved)
  <2> DEFINE S == old \ unsaved
  <2>1. \A d \in (S \cap DOMAIN ds) \ DOMAIN dl :
          /\ d < Today /\ ds[d] \in DayTotals /\ Marked(reset, d, ds[d])
          /\ Agrees(ds[d], bk[d], Len(bk[d]))
    BY <1>3 DEF TotalsOK
  <2>2. DOMAIN ds \subseteq DOMAIN bk
    BY DEF TotalsOK
  <2>3. saved = WithSaved(dl, ds, S)
    OBVIOUS
  <2> HIDE DEF S, saved
  <2> QED BY <2>1, <2>2, <2>3, SaveFacts
<1>5. /\ DailyOK(reset, bk, saved, Today) /\ DOMAIN dl \subseteq DOMAIN saved
      /\ \A d \in DOMAIN dl : saved[d] = dl[d]
  BY <1>4 DEF SavedOK
<1> HIDE DEF saved
<1>6. /\ DOMAIN nw \subseteq DOMAIN rw /\ \A d \in DOMAIN nw : nw[d] = rw[d]
      /\ DOMAIN rw \ DOMAIN nw \subseteq DOMAIN saved
  BY DEF Drop
<1> HIDE DEF nw
<1>7. RawOK(bk, nw, saved, lost, late, Today)
  BY <1>1, <1>5, <1>6, LaterRaw
<1> QED BY <1>2, <1>5, <1>6, <1>7 DEF PrunedOK

\* No recording is counted.
NoEvent == Event(0, "start", <<>>, "none")

LEMMA TxStay ==
  ASSUME NEW bk
  PROVE  TxGrown(bk, bk, NoEvent) /\ NoEvent.type # "tx"
<1>1. NoEvent.type # "tx"
  BY DEF NoEvent, Event
<1> QED BY <1>1 DEF TxGrown

LEMMA MaintainInv ==
  ASSUME IInv, Maintain
  PROVE  IInv'
<1>1. PICK fails \in SUBSET (Attempts \ {"open", "write"}), unsaved \in SUBSET Old(raw, fileDate),
           kept \in SUBSET Old(raw, fileDate) :
        LET r == RolledOver(fails)
            p == Pruned(raw, r.daily, r.days, fileDate, unsaved, kept)
        IN /\ running
           /\ days' = r.days /\ today' = Today /\ salt' = r.salt /\ saltFile' = r.saltFile
           /\ daily' = p.daily /\ raw' = p.raw /\ unsalted' = r.unsalted
           /\ UNCHANGED <<reset, now, starts, running, radioFile, wavs, fileDate,
                          concurrent, session, archive, scan, clip, calls, seenOn, done,
                          unwritten, unread>>
  BY DEF Maintain
<1>2. PICK r, p :
        /\ r = RolledOver(fails)
        /\ p = Pruned(raw, r.daily, r.days, fileDate, unsaved, kept)
        /\ running
        /\ days' = r.days /\ today' = Today /\ salt' = r.salt /\ saltFile' = r.saltFile
        /\ daily' = p.daily /\ raw' = p.raw /\ unsalted' = r.unsalted
        /\ UNCHANGED <<reset, now, starts, running, radioFile, wavs, fileDate,
                       concurrent, session, archive, scan, clip, calls, seenOn, done,
                       unwritten, unread>>
  BY <1>1
<1>3. PICK bk : Inv(bk)
  BY DEF IInv
<1>4. Typed /\ RolledOK(bk, r) /\ Today \in Nat
  BY <1>2, <1>3, RolledFacts, ClockFacts DEF IInv, Inv
<1>5. PrunedOK(bk, raw, r.daily, Unkept, Late(unwritten), p)
  BY <1>2, <1>4, PruneFacts DEF RolledOK
<1>6. Today' = Today /\ Unkept' = Unkept /\ Untold' = Untold
  BY <1>2 DEF Today, Unkept, Untold
<1>7. BooksInv(bk)'
  <2>1. /\ BookOK(done, bk, Today) /\ TotalsOK(reset, bk, r.days, Today)
        /\ DailyOK(reset, bk, p.daily, Today)
        /\ RawOK(bk, p.raw, p.daily, Unkept, Late(unwritten), Today)
    BY <1>4, <1>5 DEF RolledOK, PrunedOK
  <2> QED BY <1>2, <1>4, <1>6, <2>1 DEF BooksInv, BooksOK
<1>8. VisitorsInv(bk)'
  <2>1. /\ TodaysSalt(Salted(bk, r.unsalted), session, r.unsalted, r.salt, r.saltFile)
        /\ PeopleOK(Salted(bk, r.unsalted), seenOn, r.unsalted, Gaps(unwritten))
    BY <1>4 DEF RolledOK
  <2> QED BY <1>2, <1>6, <2>1 DEF VisitorsInv, TodaysSalt
<1>9. TxGrown(bk, bk, NoEvent) /\ ClipsGrown(NoEvent) /\ FilesKept
  <2>1. FilesKept
    BY <1>2, <1>4, <1>5 DEF FilesKept, RolledOK, PrunedOK
  <2> QED BY <1>2, <2>1, TxStay DEF ClipsGrown
<1>10. Typed'
  <2>1. saltFile' \in [date : Nat \cup {None}, salt : Salts \cup {<<>>}]
    BY <1>2, <1>4 DEF RolledOK, TodaysSalt
  <2>2. reset'.on <= Today'
    BY <1>2, <1>4, <1>6 DEF Typed
  <2> QED BY <1>2, <1>4, <2>1, <2>2 DEF Typed
<1>11. ClipsInv(bk)'
  BY <1>2, <1>3, <1>4, <1>6, <1>9, ClipsStay DEF Inv
<1>12. RadioInv(bk)'
  <2>1. DailyOK(reset, bk, daily, Today)
    BY <1>3, <1>4, ReadFacts DEF Inv
  <2> QED BY <1>2, <1>3, <1>4, <1>6, <1>9, <2>1, RadioStays DEF Inv
<1> QED BY <1>7, <1>8, <1>10, <1>11, <1>12 DEF IInv, Inv

-----------------------------------------------------------------------------
(* The other steps.                                                        *)

\* Neither the files nor the totals nor the clock change.
LEMMA BooksStay ==
  ASSUME NEW bk, BooksInv(bk),
         UNCHANGED <<now, starts, reset, done, raw, daily, days, today, running, unwritten>>
  PROVE  BooksInv(bk)'
<1>1. Today' = Today /\ Unkept' = Unkept
  BY DEF Today, Unkept
<1> QED BY <1>1 DEF BooksInv, BooksOK

LEMMA VisitorsStay ==
  ASSUME NEW bk, VisitorsInv(bk),
         UNCHANGED <<now, session, saltFile, seenOn, running, salt, today, unsalted, unwritten>>
  PROVE  VisitorsInv(bk)'
<1>1. Today' = Today
  BY DEF Today
<1> QED BY <1>1 DEF VisitorsInv

LEMMA ExemptSame ==
  ASSUME UNCHANGED <<raw, daily>>, NEW w, clip'[w].start = clip[w].start
  PROVE  Exempt(w)' = Exempt(w)
BY DEF Exempt, Told

\* The recordings of a book's events.
LEMMA BookClips ==
  ASSUME NEW bk, ClipsInv(bk)
  PROVE  /\ \A d : \A c \in Tx(bk, d) : c \in Clips /\ clip[c].at \in {"counted", "saved", "lost"}
         /\ \A d \in DOMAIN bk : \A i \in 1..Len(bk[d]) : bk[d][i].type = "tx" =>
              bk[d][i].what \in Clips /\ clip[bk[d][i].what].at \in {"counted", "saved", "lost"}
<1>1. \A d : \A c \in Tx(bk, d) : c \in Clips /\ clip[c].at \in {"counted", "saved", "lost"}
  BY DEF ClipsInv
<1>2. ASSUME NEW d \in DOMAIN bk, NEW i \in 1..Len(bk[d]), bk[d][i].type = "tx"
      PROVE  bk[d][i].what \in Tx(bk, d)
  BY <1>2 DEF Tx, Whats, At
<1> QED BY <1>1, <1>2

\* Nothing changes but how far recordings are, none of those that were counted
\* goes back, and what began is known of.
ClipsMoved ==
    /\ clip' \in [OldClips \cup Clips ->
                    [at : {"none", "recording", "counted", "saved", "lost"},
                     start : Nat \cup {None}]]
    /\ \A w \in OldClips : clip'[w].start = clip[w].start
    /\ \A c \in Clips :
         /\ clip[c].at # "none" => clip'[c].start = clip[c].start /\ clip'[c].at # "none"
         /\ clip[c].at = "none" => clip'[c] = clip[c] \/ clip'[c] = [at |-> "recording", start |-> now]
         /\ clip[c].at \in {"counted", "saved", "lost"} =>
              clip'[c].at \in {"counted", "saved", "lost"}
         /\ clip'[c].at \in {"counted", "saved"} => clip[c].at \in {"counted", "saved"}
         /\ clip'[c].at = "recording" => clip[c].at \in {"none", "recording"}
         /\ c \in wavs' => clip'[c].at = "saved"
         /\ clip'[c].at \in {"recording", "counted"} => running'
    /\ OldClips \subseteq wavs'

LEMMA MovedFacts ==
  ASSUME Typed, NEW bk, ClipsInv(bk), ClipsMoved, now' = now, Untold \subseteq Untold'
  PROVE  ClipsInv(bk)' /\ \A c \in Clips : clip'[c].at # "none" => clip'[c].start \in Opened..now
<1>1. now \in Opened..now
  BY AnalyticsAssumption DEF Typed
<1>2. /\ \A d : \A c \in Tx(bk, d) : c \in Clips /\ clip[c].at \in {"counted", "saved", "lost"}
      /\ \A d \in DOMAIN bk : \A i \in 1..Len(bk[d]) : bk[d][i].type = "tx" =>
           bk[d][i].what \in Clips /\ clip[bk[d][i].what].at \in {"counted", "saved", "lost"}
  BY BookClips
<1>3. ASSUME NEW d \in DOMAIN bk, NEW i \in 1..Len(bk[d]), bk[d][i].type = "tx"
      PROVE  /\ bk[d][i].t \in Opened..now
             /\ Day(clip'[bk[d][i].what].start) = d => bk[d][i].t = clip'[bk[d][i].what].start
  <2>1. clip'[bk[d][i].what].start = clip[bk[d][i].what].start
    BY <1>2, <1>3 DEF ClipsMoved
  <2> QED BY <1>3, <2>1 DEF ClipsInv
<1>4. \A d : \A c \in Tx(bk, d) : c \in Clips /\ clip'[c].at \in {"counted", "saved", "lost"}
  BY <1>2 DEF ClipsMoved
<1>5. ASSUME NEW c \in Clips, clip'[c].at # "none" PROVE clip'[c].start \in Opened..now
  <2>1. CASE clip[c].at # "none"
    BY <2>1 DEF ClipsMoved, ClipsInv
  <2>2. CASE clip[c].at = "none"
    <3>1. clip'[c] = [at |-> "recording", start |-> now]
      BY <1>5, <2>2 DEF ClipsMoved
    <3>2. clip'[c].start = now
      BY <3>1
    <3> QED BY <1>1, <3>2
  <2> QED BY <2>1, <2>2
<1>6. ASSUME NEW c \in Clips
      PROVE  /\ clip'[c].at \in {"counted", "saved"} => c \in Untold' \/ \E d : c \in Tx(bk, d)
             /\ c \in wavs' => clip'[c].at = "saved"
             /\ clip'[c].at \in {"recording", "counted"} => running'
  BY DEF ClipsMoved, ClipsInv
<1>7. \A w \in OldClips : w \in wavs' /\ clip'[w].start \in 0..(Opened - 1)
  BY DEF ClipsMoved, ClipsInv
<1> QED BY <1>3, <1>4, <1>5, <1>6, <1>7 DEF ClipsInv

LEMMA MovedRadio ==
  ASSUME Typed, NEW bk, ClipsInv(bk), RadioInv(bk), ClipsMoved, Untold \subseteq Untold',
         UNCHANGED <<now, running, raw, daily, radioFile, archive, scan, unread>>
  PROVE  RadioInv(bk)'
<1>1. \A d : \A c \in Tx(bk, d) : c \in Clips /\ clip'[c].start = clip[c].start
  BY BookClips DEF ClipsMoved
<1>2. ASSUME NEW w \in OldClips PROVE clip'[w].start = clip[w].start /\ Exempt(w)' = Exempt(w)
  <2>1. clip'[w].start = clip[w].start
    BY DEF ClipsMoved
  <2> QED BY <2>1, ExemptSame
<1>3. \A d : \A c \in Tx(bk, d) \cap (archive \cup radioFile.clips) :
        Day(clip'[c].start) # d \/ c \in Untold'
  BY <1>1 DEF RadioInv
<1>4. /\ radioFile.made => \A w \in OldClips : w \in radioFile.clips \cup unread \/ Exempt(w)'
      /\ running /\ scan = None => \A w \in OldClips : w \in archive \cup unread \/ Exempt(w)'
  BY <1>2 DEF RadioInv
<1>5. ASSUME running, scan \in Nat
      PROVE  /\ scan \in 0..now /\ ~ radioFile.made
             /\ \A w \in OldClips : clip'[w].start < scan \/ Exempt(w)'
             /\ \A d : \A c \in Tx(bk, d) :
                  Day(clip'[c].start) = d => clip'[c].start >= scan \/ c \in Untold'
             /\ \A c \in Clips : clip'[c].at = "recording" => clip'[c].start >= scan
  <2>1. /\ scan \in 0..now /\ ~ radioFile.made
        /\ \A w \in OldClips : clip[w].start < scan \/ Exempt(w)
        /\ \A d : \A c \in Tx(bk, d) :
             Day(clip[c].start) = d => clip[c].start >= scan \/ c \in Untold
        /\ \A c \in Clips : clip[c].at = "recording" => clip[c].start >= scan
    BY <1>5 DEF RadioInv
  <2>2. ASSUME NEW c \in Clips, clip'[c].at = "recording" PROVE clip'[c].start >= scan
    <3>1. CASE clip[c].at = "recording"
      BY <2>1, <3>1 DEF ClipsMoved
    <3>2. CASE clip[c].at # "recording"
      <4>1. clip[c].at = "none"
        BY <2>2, <3>2 DEF ClipsMoved
      <4>2. clip'[c] = [at |-> "recording", start |-> now] \/ clip'[c] = clip[c]
        BY <4>1 DEF ClipsMoved
      <4>3. clip'[c].start = now
        BY <2>2, <4>1, <4>2
      <4>4. now \in Nat
        BY DEF Typed
      <4> QED BY <2>1, <4>3, <4>4
    <3> QED BY <3>1, <3>2
  <2> QED BY <1>1, <1>2, <2>1, <2>2
<1> QED BY <1>3, <1>4, <1>5 DEF RadioInv

LEMMA BeginClipInv ==
  ASSUME IInv, NEW c \in Clips, BeginClip(c)
  PROVE  IInv'
<1>1. /\ running /\ clip[c].at = "none"
      /\ clip' = [clip EXCEPT ![c] = [at |-> "recording", start |-> now]]
      /\ UNCHANGED <<now, starts, running, raw, daily, saltFile, radioFile, wavs, reset,
                     days, today, fileDate, salt, concurrent, session, archive, scan,
                     seenOn, unwritten, unsalted, unread, faults, done>>
  BY DEF BeginClip, disk, memory, history
<1>2. PICK bk : Inv(bk)
  BY DEF IInv
<1>3. Typed /\ now \in Nat /\ Today' = Today /\ Untold' = Untold /\ OldClips \cap Clips = {}
  BY <1>1, AnalyticsAssumption DEF IInv, Typed, Today, Untold
<1>4. /\ clip'[c] = [at |-> "recording", start |-> now]
      /\ \A x \in (OldClips \cup Clips) \ {c} : clip'[x] = clip[x]
      /\ clip' \in [OldClips \cup Clips ->
                      [at : {"none", "recording", "counted", "saved", "lost"},
                       start : Nat \cup {None}]]
  BY <1>1, <1>3 DEF Typed
<1>5. /\ \A x \in Clips : x \in wavs => clip[x].at = "saved"
      /\ \A x \in Clips : clip[x].at \in {"recording", "counted"} => running
      /\ OldClips \subseteq wavs
  BY <1>2 DEF Inv, ClipsInv
<1>6. ClipsMoved
  <2>1. ASSUME NEW x \in Clips
        PROVE  /\ clip[x].at # "none" => clip'[x].start = clip[x].start /\ clip'[x].at # "none"
               /\ clip[x].at = "none" =>
                    clip'[x] = clip[x] \/ clip'[x] = [at |-> "recording", start |-> now]
               /\ clip[x].at \in {"counted", "saved", "lost"} =>
                    clip'[x].at \in {"counted", "saved", "lost"}
               /\ clip'[x].at \in {"counted", "saved"} => clip[x].at \in {"counted", "saved"}
               /\ clip'[x].at = "recording" => clip[x].at \in {"none", "recording"}
               /\ x \in wavs' => clip'[x].at = "saved"
               /\ clip'[x].at \in {"recording", "counted"} => running'
    BY <1>1, <1>4, <1>5
  <2> QED BY <1>1, <1>3, <1>4, <1>5, <2>1 DEF ClipsMoved
<1>7. Typed'
  BY <1>1, <1>3, <1>4 DEF Typed
<1>8. BooksInv(bk)' /\ VisitorsInv(bk)'
  BY <1>1, <1>2, BooksStay, VisitorsStay DEF Inv
<1>9. ClipsInv(bk)' /\ RadioInv(bk)'
  BY <1>1, <1>2, <1>3, <1>6, MovedFacts, MovedRadio DEF Inv
<1> QED BY <1>7, <1>8, <1>9 DEF IInv, Inv

LEMMA SaveClipInv ==
  ASSUME IInv, NEW c \in Clips, SaveClip(c)
  PROVE  IInv'
<1>1. /\ running /\ clip[c].at = "counted"
      /\ clip' = [clip EXCEPT ![c].at = "saved"] /\ wavs' = wavs \cup {c}
      /\ UNCHANGED <<now, starts, running, raw, daily, saltFile, radioFile, reset,
                     days, today, fileDate, salt, concurrent, session, archive, scan,
                     seenOn, unwritten, unsalted, unread, faults, done>>
  BY DEF SaveClip, memory, history
<1>2. PICK bk : Inv(bk)
  BY DEF IInv
<1>3. Typed /\ Today' = Today /\ Untold' = Untold /\ OldClips \cap Clips = {}
  BY <1>1, AnalyticsAssumption DEF IInv, Today, Untold
<1>4. /\ clip'[c].at = "saved" /\ clip'[c].start = clip[c].start
      /\ \A x \in (OldClips \cup Clips) \ {c} : clip'[x] = clip[x]
      /\ clip' \in [OldClips \cup Clips ->
                      [at : {"none", "recording", "counted", "saved", "lost"},
                       start : Nat \cup {None}]]
  BY <1>1, <1>3 DEF Typed
<1>5. /\ \A x \in Clips : x \in wavs => clip[x].at = "saved"
      /\ \A x \in Clips : clip[x].at \in {"recording", "counted"} => running
      /\ OldClips \subseteq wavs
  BY <1>2 DEF Inv, ClipsInv
<1>6. ClipsMoved
  <2>1. ASSUME NEW x \in Clips
        PROVE  /\ clip[x].at # "none" => clip'[x].start = clip[x].start /\ clip'[x].at # "none"
               /\ clip[x].at = "none" =>
                    clip'[x] = clip[x] \/ clip'[x] = [at |-> "recording", start |-> now]
               /\ clip[x].at \in {"counted", "saved", "lost"} =>
                    clip'[x].at \in {"counted", "saved", "lost"}
               /\ clip'[x].at \in {"counted", "saved"} => clip[x].at \in {"counted", "saved"}
               /\ clip'[x].at = "recording" => clip[x].at \in {"none", "recording"}
               /\ x \in wavs' => clip'[x].at = "saved"
               /\ clip'[x].at \in {"recording", "counted"} => running'
    BY <1>1, <1>4, <1>5
  <2> QED BY <1>1, <1>3, <1>4, <1>5, <2>1 DEF ClipsMoved
<1>7. Typed'
  <2>1. /\ wavs' \subseteq OldClips \cup Clips /\ archive' \subseteq wavs'
        /\ radioFile' \in [made : BOOLEAN, clips : SUBSET wavs']
    BY <1>1, <1>3 DEF Typed
  <2> QED BY <1>1, <1>3, <1>4, <2>1 DEF Typed
<1>8. BooksInv(bk)' /\ VisitorsInv(bk)'
  BY <1>1, <1>2, BooksStay, VisitorsStay DEF Inv
<1>9. ClipsInv(bk)' /\ RadioInv(bk)'
  BY <1>1, <1>2, <1>3, <1>6, MovedFacts, MovedRadio DEF Inv
<1> QED BY <1>7, <1>8, <1>9 DEF IInv, Inv

\* Totals of days up to the reset have nothing since it.
LEMMA ResetTranscriptionInv ==
  ASSUME IInv, ResetTranscription
  PROVE  IInv'
<1> DEFINE r == [on |-> Today, done |-> done]
           ds == [d \in DOMAIN days |-> [days[d] EXCEPT !.since = {}]]
<1>1. /\ running /\ reset' = r /\ days' = ds
      /\ UNCHANGED <<now, starts, running, raw, daily, saltFile, radioFile, wavs, today,
                     fileDate, salt, concurrent, session, archive, scan, clip, done,
                     faults, seenOn, unwritten, unsalted, unread>>
  BY DEF ResetTranscription, history
<1>2. PICK bk : Inv(bk)
  BY DEF IInv
<1>3. /\ Typed /\ Today \in Nat /\ done \in Nat /\ Today' = Today /\ Day(Opened) \in Nat
      /\ Untold' = Untold /\ Unkept' = Unkept
  BY <1>1, ClockFacts DEF IInv, Today, Untold, Unkept
<1>4. r.on = Today /\ r.done = done
  OBVIOUS
<1>5. DOMAIN ds = DOMAIN days /\ \A d \in DOMAIN days : ds[d] = [days[d] EXCEPT !.since = {}]
  OBVIOUS
<1>6. /\ today \in Nat /\ today <= Today
      /\ BookOK(done, bk, today) /\ DailyOK(reset, bk, daily, today)
      /\ RawOK(bk, raw, daily, Unkept, Late(unwritten), today)
      /\ TotalsOK(reset, bk, days, today)
  BY <1>1, <1>2 DEF Inv, BooksInv, BooksOK
<1>7. Typed'
  <2>1. r \in [on : Nat \cup {None}, done : Nat] /\ r.on <= Today /\ r.done <= done
    BY <1>3
  <2> HIDE DEF r
  <2> QED BY <1>1, <1>3, <2>1 DEF Typed
<1> HIDE DEF r, ds
<1>8. DailyOK(r, bk, daily, today)
  <2>1. \A d \in DOMAIN daily : d \in Int /\ d < today
    BY <1>3, <1>6 DEF DailyOK, BookOK
  <2>2. \A d \in DOMAIN daily : Marked(r, d, daily[d])
    BY <1>3, <1>4, <1>6, <2>1 DEF Marked
  <2> QED BY <1>6, <2>2 DEF DailyOK
<1>9. TotalsOK(r, bk, ds, today)
  <2>1. ASSUME NEW d \in DOMAIN days
        PROVE  /\ ds[d] \in DayTotals /\ ds[d].seen = days[d].seen /\ ds[d].since = {}
               /\ ds[d].done = days[d].done
               /\ \A s, n : Agrees(days[d], s, n) => Agrees(ds[d], s, n)
    <3>1. days[d] \in DayTotals /\ ds[d] = [days[d] EXCEPT !.since = {}]
      BY <1>5, <1>6 DEF TotalsOK
    <3> DEFINE x == days[d]  y == ds[d]
    <3>2. x \in DayTotals /\ y = [x EXCEPT !.since = {}]
      BY <3>1
    <3> HIDE DEF x, y
    <3>3. /\ y.visitors = x.visitors /\ y.listens = x.listens /\ y.ends = x.ends
          /\ y.tx = x.tx /\ y.done = x.done /\ y.since = {} /\ y.seen = x.seen
      BY <3>2 DEF DayTotals
    <3>4. y \in DayTotals
      BY <3>2 DEF DayTotals
    <3>5. \A s, n : Agrees(x, s, n) => Agrees(y, s, n)
      BY <3>3 DEF Agrees
    <3> QED BY <3>3, <3>4, <3>5 DEF x, y
  <2>2. ASSUME NEW d \in DOMAIN days
        PROVE  ds[d].done \subseteq 1..done
    <3>1. d \in DOMAIN bk /\ FileOf(d, bk[d], done) /\ Agrees(days[d], bk[d], Len(bk[d]))
      BY <1>6 DEF TotalsOK, BookOK
    <3>2. days[d].done \subseteq 1..done
      BY <1>3, <3>1, DoneNumbered
    <3> QED BY <2>1, <3>2
  <2>3. ASSUME NEW d \in DOMAIN days
        PROVE  Marked(r, d, ds[d])
    <3>1. {k \in ds[d].done : k > done} = {}
      BY <1>3, <2>2
    <3> QED BY <1>4, <2>1, <3>1 DEF Marked
  <2> QED BY <1>5, <1>6, <2>1, <2>3 DEF TotalsOK
<1>10. BooksInv(bk)'
  BY <1>1, <1>3, <1>6, <1>8, <1>9 DEF BooksInv, BooksOK
<1>11. VisitorsInv(bk)'
  BY <1>1, <1>2, VisitorsStay DEF Inv
<1>12. TxGrown(bk, bk, NoEvent) /\ ClipsGrown(NoEvent) /\ FilesKept
  BY <1>1, TxStay DEF ClipsGrown, FilesKept
<1>13. DailyOK(reset, bk, daily, Today)
  BY <1>2, <1>3, ReadFacts DEF Inv
<1>14. ClipsInv(bk)' /\ RadioInv(bk)'
  BY <1>1, <1>2, <1>3, <1>12, <1>13, ClipsStay, RadioStays DEF Inv
<1> QED BY <1>7, <1>10, <1>11, <1>14 DEF IInv, Inv

LEMMA EndScanInv ==
  ASSUME IInv, EndScan
  PROVE  IInv'
<1>1. PICK saves \in BOOLEAN, passed \in SUBSET wavs :
        /\ running /\ scan \in Nat
        /\ archive' = {w \in wavs \ passed : Scannable(w)}
        /\ radioFile' = IF saves THEN [made |-> TRUE, clips |-> archive'] ELSE radioFile
        /\ scan' = None /\ unread' = passed
        /\ UNCHANGED <<reset, now, starts, running, raw, daily, saltFile, wavs, days,
                       today, fileDate, salt, concurrent, session, clip, calls, seenOn,
                       done, unwritten, unsalted>>
  BY DEF EndScan
<1>2. PICK bk : Inv(bk)
  BY DEF IInv
<1>3. Typed /\ Today' = Today /\ Untold' = Untold
  BY <1>1 DEF IInv, Today, Untold
<1>4. /\ scan \in 0..now /\ ~ radioFile.made
      /\ \A w \in OldClips : clip[w].start < scan \/ Exempt(w)
      /\ \A d : \A c \in Tx(bk, d) :
           Day(clip[c].start) = d => clip[c].start >= scan \/ c \in Untold
  BY <1>1, <1>2 DEF Inv, RadioInv
<1>5. archive' \subseteq wavs
      /\ \A w \in wavs : w \in archive' <=> clip[w].start < scan /\ w \notin passed
  BY <1>1 DEF Scannable
<1>6. radioFile'.clips = IF saves THEN archive' ELSE radioFile.clips
  BY <1>1
<1>7. radioFile' \in [made : BOOLEAN, clips : SUBSET wavs]
  BY <1>1, <1>3, <1>5 DEF Typed
<1>8. Typed'
  BY <1>1, <1>3, <1>5, <1>7 DEF Typed
<1>9. BooksInv(bk)' /\ VisitorsInv(bk)'
  BY <1>1, <1>2, BooksStay, VisitorsStay DEF Inv
<1>10. TxGrown(bk, bk, NoEvent) /\ ClipsGrown(NoEvent)
  BY <1>1, TxStay DEF ClipsGrown
<1>11. ClipsInv(bk)'
  BY <1>1, <1>2, <1>3, <1>10, ClipsStay DEF Inv
<1>12. \A w : Exempt(w)' = Exempt(w)
  BY <1>1, ExemptSame
<1>13. \A w \in OldClips : w \in archive' \cup unread' \/ Exempt(w)'
  <2>1. OldClips \subseteq wavs
    BY <1>2 DEF Inv, ClipsInv
  <2> QED BY <1>1, <1>4, <1>5, <1>12, <2>1
<1>14. ASSUME NEW d, NEW c \in Tx(bk, d) \cap archive'
       PROVE  Day(clip[c].start) # d \/ c \in Untold
  <2> SUFFICES ASSUME Day(clip[c].start) = d, c \notin Untold PROVE FALSE
    OBVIOUS
  <2>1. clip[c].start >= scan
    BY <1>4
  <2>2. clip[c].start < scan /\ clip[c].start \in Int
    BY <1>3, <1>5 DEF Typed, None
  <2> QED BY <1>4, <2>1, <2>2
<1>15. \A d : \A c \in Tx(bk, d) \cap (archive' \cup radioFile'.clips) :
          Day(clip[c].start) # d \/ c \in Untold
  BY <1>2, <1>6, <1>14 DEF Inv, RadioInv
<1>16. radioFile'.made => \A w \in OldClips : w \in radioFile'.clips \cup unread' \/ Exempt(w)'
  <2>1. CASE saves
    BY <1>6, <1>13, <2>1
  <2>2. CASE ~ saves
    BY <1>1, <1>4, <2>2
  <2> QED BY <2>1, <2>2
<1>17. scan' \notin Nat
  BY <1>1 DEF None
<1>18. RadioInv(bk)'
  BY <1>1, <1>3, <1>13, <1>15, <1>16, <1>17 DEF RadioInv
<1> QED BY <1>8, <1>9, <1>11, <1>18 DEF IInv, Inv

LEMMA FailScanInv ==
  ASSUME IInv, FailScan
  PROVE  IInv'
<1>1. /\ scan' = Failed
      /\ UNCHANGED <<now, starts, running, raw, daily, saltFile, radioFile, wavs, reset,
                     days, today, fileDate, salt, concurrent, session, archive,
                     clip, calls, seenOn, unwritten, unsalted, unread, done>>
  BY DEF FailScan, disk, history
<1>2. PICK bk : Inv(bk)
  BY DEF IInv
<1>3. Typed /\ Today' = Today /\ Untold' = Untold
  BY <1>1 DEF IInv, Today, Untold
<1>4. Typed'
  BY <1>1, <1>3 DEF Typed
<1>5. BooksInv(bk)' /\ VisitorsInv(bk)'
  BY <1>1, <1>2, BooksStay, VisitorsStay DEF Inv
<1>6. TxGrown(bk, bk, NoEvent) /\ ClipsGrown(NoEvent)
  BY <1>1, TxStay DEF ClipsGrown
<1>7. ClipsInv(bk)'
  BY <1>1, <1>2, <1>3, <1>6, ClipsStay DEF Inv
<1>8. \A w : Exempt(w)' = Exempt(w)
  BY <1>1, ExemptSame
<1>9. scan' # None /\ scan' \notin Nat
  BY <1>1 DEF Failed, None
<1>10. RadioInv(bk)'
  BY <1>1, <1>2, <1>3, <1>8, <1>9 DEF Inv, RadioInv
<1> QED BY <1>4, <1>5, <1>7, <1>10 DEF IInv, Inv

LEMMA RecountInv ==
  ASSUME IInv, Recount
  PROVE  IInv'
<1>1. /\ radioFile' = [made |-> FALSE, clips |-> {}]
      /\ UNCHANGED <<reset, now, starts, running, raw, daily, saltFile, wavs,
                     days, today, fileDate, salt, concurrent, session, archive, scan,
                     clip, calls, seenOn, unwritten, unsalted, unread, faults, done>>
  BY DEF Recount, memory, history
<1>2. PICK bk : Inv(bk)
  BY DEF IInv
<1>3. Typed /\ Today' = Today /\ Untold' = Untold
  BY <1>1 DEF IInv, Today, Untold
<1>4. radioFile' \in [made : BOOLEAN, clips : SUBSET wavs]
  BY <1>1
<1>5. Typed'
  BY <1>1, <1>3, <1>4 DEF Typed
<1>6. BooksInv(bk)' /\ VisitorsInv(bk)'
  BY <1>1, <1>2, BooksStay, VisitorsStay DEF Inv
<1>7. TxGrown(bk, bk, NoEvent) /\ ClipsGrown(NoEvent)
  BY <1>1, TxStay DEF ClipsGrown
<1>8. ClipsInv(bk)'
  BY <1>1, <1>2, <1>3, <1>7, ClipsStay DEF Inv
<1>9. \A w : Exempt(w)' = Exempt(w)
  BY <1>1, ExemptSame
<1>10. radioFile'.clips = {} /\ ~ radioFile'.made
  BY <1>1
<1>11. RadioInv(bk)'
  BY <1>1, <1>2, <1>3, <1>9, <1>10 DEF Inv, RadioInv
<1> QED BY <1>5, <1>6, <1>8, <1>11 DEF IInv, Inv

LEMMA TickInv ==
  ASSUME IInv, Tick
  PROVE  IInv'
<1>1. /\ now' = now + 1
      /\ UNCHANGED <<starts, running, raw, daily, saltFile, radioFile, wavs, reset,
                     days, today, fileDate, salt, concurrent, session, archive, scan,
                     clip, calls, seenOn, unwritten, unsalted, unread, faults, done>>
  BY DEF Tick, disk, memory, history
<1>2. PICK bk : Inv(bk)
  BY DEF IInv
<1>3. /\ Typed /\ Untold' = Untold /\ Unkept' = Unkept
      /\ now \in Nat /\ Opened \in Nat /\ Opened <= now /\ now' \in Nat /\ now <= now'
  BY <1>1, AnalyticsAssumption DEF IInv, Typed, Untold, Unkept
<1>4. Today \in Nat /\ Today' \in Nat /\ Today <= Today' /\ done \in Nat
  <2>1. Today \in Nat /\ done \in Nat
    BY <1>3, ClockFacts
  <2> DEFINE n == now'
  <2>2. n \in Nat /\ now <= n
    BY <1>3
  <2> HIDE DEF n
  <2>3. Day(n) \in Nat /\ Day(now) <= Day(n)
    BY <1>3, <2>2, DayFacts, DayOrder
  <2> QED BY <2>1, <2>3 DEF Today, n
<1>5. Typed'
  <2>1. reset'.on <= Today'
    <3>1. reset.on <= Today /\ reset.on \in Int
      BY <1>3, ClockFacts DEF Typed
    <3> QED BY <1>1, <1>4, <3>1
  <2> QED BY <1>1, <1>3, <2>1 DEF Typed
<1>6. BooksInv(bk)'
  <2> DEFINE t == Today'
  <2>1. t \in Nat /\ Today <= t
    BY <1>4
  <2> HIDE DEF t
  <2>2. ASSUME running PROVE BooksInv(bk)'
    <3>1. today \in Nat /\ today <= t
      BY <1>2, <1>4, <2>1, <2>2 DEF Inv, BooksInv
    <3> QED BY <1>1, <1>2, <1>3, <2>2, <3>1 DEF Inv, BooksInv, BooksOK, t
  <2>3. ASSUME ~ running PROVE BooksInv(bk)'
    <3>1. /\ days = NoDays /\ BookOK(done, bk, Today) /\ DailyOK(reset, bk, daily, Today)
          /\ RawOK(bk, raw, daily, {}, Late(unwritten), Today)
      BY <1>2, <2>3 DEF Inv, BooksInv, BooksOK
    <3>2. BookOK(done, bk, t)
      BY <1>4, <2>1, <3>1, LaterBook
    <3>3. DailyOK(reset, bk, daily, t)
      BY <1>4, <2>1, <3>1, LaterDaily
    <3>4. RawOK(bk, raw, daily, {}, Late(unwritten), t)
      <4>1. DOMAIN raw \ DOMAIN raw \subseteq DOMAIN daily
        OBVIOUS
      <4> QED BY <1>4, <2>1, <3>1, <4>1, LaterRaw
    <3> QED BY <1>1, <2>3, <3>1, <3>2, <3>3, <3>4 DEF BooksInv, BooksOK, t
  <2> QED BY <2>2, <2>3
<1>7. VisitorsInv(bk)'
  <2>1. saltFile.date \in Int /\ saltFile.date <= Today
    BY <1>2, <1>3 DEF Inv, Typed, VisitorsInv, None
  <2>2. saltFile.date <= Today'
    BY <1>4, <2>1
  <2> QED BY <1>1, <1>2, <2>2 DEF Inv, VisitorsInv
<1>8. Opened..now \subseteq Opened..now' /\ 0..now \subseteq 0..now'
  BY <1>3
<1>9. ClipsInv(bk)'
  <2>1. \A d \in DOMAIN bk : \A i \in 1..Len(bk[d]) : bk[d][i].type = "tx" =>
          /\ bk[d][i].t \in Opened..now'
          /\ Day(clip[bk[d][i].what].start) = d => bk[d][i].t = clip[bk[d][i].what].start
    BY <1>2, <1>8 DEF Inv, ClipsInv
  <2>2. \A x \in Clips : clip[x].at # "none" => clip[x].start \in Opened..now'
    BY <1>2, <1>8 DEF Inv, ClipsInv
  <2> QED BY <1>1, <1>2, <1>3, <2>1, <2>2 DEF Inv, ClipsInv
<1>10. \A w : Exempt(w)' = Exempt(w)
  BY <1>1, ExemptSame
<1>11. RadioInv(bk)'
  <2>1. running /\ scan \in Nat => scan \in 0..now'
    BY <1>2, <1>8 DEF Inv, RadioInv
  <2> QED BY <1>1, <1>2, <1>3, <1>10, <2>1 DEF Inv, RadioInv
<1> QED BY <1>5, <1>6, <1>7, <1>9, <1>11 DEF IInv, Inv

-----------------------------------------------------------------------------
(* The end of the process: the events that could not be written go with it,  *)
(* but for those in saved totals.                                            *)

LeftOK(bk, z) ==
    /\ BooksOK(z, raw, daily, {}, Today)
    /\ DOMAIN z \subseteq DOMAIN bk
    /\ \A d : EventsOf(z, d) \subseteq EventsOf(bk, d)
    /\ \A d : EventsOf(bk, d) \subseteq EventsOf(z, d) \cup Unkept
    /\ \A d : d \in Gaps(unwritten)
                \/ ((d \in DOMAIN bk <=> d \in DOMAIN z) /\ (d \in DOMAIN z => z[d] = bk[d]))

LEMMA LeftBook ==
  ASSUME Typed, NEW bk, BooksInv(bk),
         NEW z, z = [d \in DOMAIN daily \cup {d \in DOMAIN raw : raw[d] # <<>>} |->
                       IF d \in DOMAIN daily THEN bk[d] ELSE raw[d]]
  PROVE  LeftOK(bk, z)
<1>0. Today \in Nat /\ Day(Opened) \in Nat /\ done \in Nat
  BY ClockFacts
<1>1. /\ BookOK(done, bk, Today) /\ DailyOK(reset, bk, daily, Today)
      /\ RawOK(bk, raw, daily, Unkept, Late(unwritten), Today)
      /\ \A d \in DOMAIN raw : raw[d] = <<>> \/ FileOf(d, raw[d], done)
  BY ReadFacts
<1>2. /\ DOMAIN z = DOMAIN daily \cup {d \in DOMAIN raw : raw[d] # <<>>}
      /\ \A d \in DOMAIN daily : z[d] = bk[d]
      /\ \A d \in DOMAIN raw : raw[d] # <<>> /\ d \notin DOMAIN daily => z[d] = raw[d]
  OBVIOUS
<1>3. \A d \in DOMAIN daily : d \in DOMAIN bk
  BY <1>1 DEF DailyOK
<1>4. \A d \in DOMAIN raw : raw[d] # <<>> => d \in DOMAIN bk
  <2> SUFFICES ASSUME NEW d \in DOMAIN raw, raw[d] # <<>> PROVE d \in DOMAIN bk
    OBVIOUS
  <2>1. FileOf(d, raw[d], done) /\ EventsOf(raw, d) \subseteq EventsOf(bk, d)
    BY <1>1 DEF RawOK
  <2>2. raw[d][1] \in EventsOf(raw, d)
    BY <2>1 DEF FileOf, EventsOf
  <2> QED BY <2>1, <2>2 DEF EventsOf
<1>5. ASSUME NEW d, d \notin DOMAIN daily PROVE EventsOf(z, d) = EventsOf(raw, d)
  <2>1. CASE d \in DOMAIN z
    BY <1>2, <1>5, <2>1 DEF EventsOf
  <2>2. CASE d \notin DOMAIN z
    <3>1. d \notin DOMAIN raw \/ raw[d] = <<>>
      BY <1>2, <2>2
    <3> QED BY <2>2, <3>1 DEF EventsOf
  <2> QED BY <2>1, <2>2
<1>6. ASSUME NEW d, d \in DOMAIN daily PROVE EventsOf(z, d) = EventsOf(bk, d)
  BY <1>2, <1>3, <1>6 DEF EventsOf
<1>7. BookOK(done, z, Today)
  <2>1. ASSUME NEW d \in DOMAIN z PROVE d \in Day(Opened)..Today /\ FileOf(d, z[d], done)
    <3>1. CASE d \in DOMAIN daily
      BY <1>1, <1>2, <1>3, <3>1 DEF BookOK
    <3>2. CASE d \notin DOMAIN daily
      <4>1. d \in DOMAIN raw /\ raw[d] # <<>> /\ z[d] = raw[d]
        BY <1>2, <3>2
      <4> QED BY <1>1, <4>1 DEF RawOK
    <3> QED BY <3>1, <3>2
  <2> QED BY <2>1 DEF BookOK
<1>8. DailyOK(reset, z, daily, Today)
  BY <1>1, <1>2 DEF DailyOK
<1>9. \A d : EventsOf(raw, d) \subseteq EventsOf(z, d) /\ EventsOf(z, d) \subseteq EventsOf(bk, d)
  <2> SUFFICES ASSUME NEW d
               PROVE  EventsOf(raw, d) \subseteq EventsOf(z, d) /\ EventsOf(z, d) \subseteq EventsOf(bk, d)
    OBVIOUS
  <2>1. EventsOf(raw, d) \subseteq EventsOf(bk, d)
    BY <1>1 DEF RawOK
  <2> QED BY <1>5, <1>6, <2>1
<1>10. RawOK(z, raw, daily, {}, Late(unwritten), Today)
  <2>1. \A d \in DOMAIN raw : d \in Day(Opened)..Today /\ raw[d] \in Seq(AnEvent)
    BY <1>1 DEF RawOK
  <2>2. ASSUME NEW d \in DOMAIN z, d \notin DOMAIN daily
        PROVE  EventsOf(z, d) \subseteq EventsOf(raw, d) \cup {}
    BY <1>5, <2>2
  <2>3. ASSUME NEW d \in DOMAIN z, d \in DOMAIN raw
        PROVE  EventsOf(z, d) \subseteq EventsOf(raw, d) \cup Late(unwritten)
    <3>1. CASE d \in DOMAIN daily
      BY <1>1, <1>3, <1>6, <2>3, <3>1 DEF RawOK
    <3>2. CASE d \notin DOMAIN daily
      BY <1>5, <3>2
    <3> QED BY <3>1, <3>2
  <2>4. ASSUME NEW d, d \notin DOMAIN daily PROVE Whole(z, raw, d)
    BY <1>2, <2>4 DEF Whole
  <2> QED BY <1>9, <2>1, <2>2, <2>3, <2>4 DEF RawOK
<1>11. DOMAIN z \subseteq DOMAIN bk
  BY <1>2, <1>3, <1>4
<1>12. ASSUME NEW d PROVE EventsOf(bk, d) \subseteq EventsOf(z, d) \cup Unkept
  <2>1. CASE d \in DOMAIN daily
    BY <1>6, <2>1
  <2>2. CASE d \notin DOMAIN daily /\ d \in DOMAIN bk
    BY <1>1, <1>5, <2>2 DEF RawOK
  <2>3. CASE d \notin DOMAIN bk
    BY <2>3 DEF EventsOf
  <2> QED BY <2>1, <2>2, <2>3
<1>13. ASSUME NEW d, d \notin Gaps(unwritten)
       PROVE  (d \in DOMAIN bk <=> d \in DOMAIN z) /\ (d \in DOMAIN z => z[d] = bk[d])
  <2>1. CASE d \in DOMAIN daily
    BY <1>2, <1>3, <2>1
  <2>2. CASE d \notin DOMAIN daily
    <3>1. ~ \E ev \in Unkept : Day(ev.t) = d
      BY <1>13 DEF Unkept, Gaps
    <3>2. Whole(bk, raw, d)
      BY <1>1, <2>2, <3>1 DEF RawOK
    <3> QED BY <1>2, <2>2, <3>2 DEF Whole
  <2> QED BY <2>1, <2>2
<1>14. BooksOK(z, raw, daily, {}, Today)
  BY <1>7, <1>8, <1>10 DEF BooksOK
<1>15. \A d : EventsOf(z, d) \subseteq EventsOf(bk, d)
  BY <1>9
<1>16. \A d : EventsOf(bk, d) \subseteq EventsOf(z, d) \cup Unkept
  BY <1>12
<1>17. \A d : d \in Gaps(unwritten)
                \/ ((d \in DOMAIN bk <=> d \in DOMAIN z) /\ (d \in DOMAIN z => z[d] = bk[d]))
  BY <1>13
<1> QED BY <1>11, <1>14, <1>15, <1>16, <1>17 DEF LeftOK

\* A recording's event that is no longer in the book could not be written.
LEMMA LeftCounts ==
  ASSUME NEW bk, NEW z, LeftOK(bk, z)
  PROVE  /\ \A d \in DOMAIN z : VisitorsOf(z[d], Len(z[d])) \subseteq VisitorsOf(bk[d], Len(bk[d]))
         /\ \A d : Tx(z, d) \subseteq Tx(bk, d) /\ Tx(bk, d) \subseteq Tx(z, d) \cup Untold
<1>1. /\ DOMAIN z \subseteq DOMAIN bk
      /\ \A d : EventsOf(z, d) \subseteq EventsOf(bk, d)
      /\ \A d : EventsOf(bk, d) \subseteq EventsOf(z, d) \cup Unkept
  BY DEF LeftOK
<1>2. ASSUME NEW f, NEW d PROVE Tx(f, d) = {ev.what : ev \in {x \in EventsOf(f, d) : x.type = "tx"}}
  BY DEF Tx, Whats, At, EventsOf
<1>3. ASSUME NEW f, NEW d \in DOMAIN f
      PROVE  VisitorsOf(f[d], Len(f[d])) = {ev.visitor : ev \in EventsOf(f, d)} \ {<<>>}
  BY DEF VisitorsOf, EventsOf
<1>4. ASSUME NEW d \in DOMAIN z
      PROVE  VisitorsOf(z[d], Len(z[d])) \subseteq VisitorsOf(bk[d], Len(bk[d]))
  BY <1>1, <1>3
<1>5. ASSUME NEW d
      PROVE  Tx(z, d) \subseteq Tx(bk, d) /\ Tx(bk, d) \subseteq Tx(z, d) \cup Untold
  <2>1. {ev.what : ev \in {x \in Unkept : x.type = "tx"}} \subseteq Untold
    BY DEF Unkept, Untold
  <2> QED BY <1>1, <1>2, <2>1
<1> QED BY <1>4, <1>5

LEMMA StopInv ==
  ASSUME IInv, Stop
  PROVE  IInv'
<1>1. /\ running /\ running' = FALSE
      /\ clip' = [c \in DOMAIN clip |->
                    IF clip[c].at \in {"recording", "counted"}
                    THEN [clip[c] EXCEPT !.at = "lost"] ELSE clip[c]]
      /\ days' = NoDays /\ concurrent' = 0 /\ archive' = {} /\ scan' = None
      /\ session' = [c \in Clients |-> NoSession]
      /\ UNCHANGED <<now, starts, raw, daily, saltFile, radioFile, wavs, reset, calls, seenOn,
                     unwritten, unsalted, unread, faults, done>>
  BY DEF Stop, disk, history
<1>2. PICK bk : Inv(bk)
  BY DEF IInv
<1>3. Typed /\ Today' = Today /\ Untold' = Untold /\ Unkept' = Unkept /\ Today \in Nat
  BY <1>1, ClockFacts DEF IInv, Today, Untold, Unkept
<1>4. PICK z : z = [d \in DOMAIN daily \cup {d \in DOMAIN raw : raw[d] # <<>>} |->
                      IF d \in DOMAIN daily THEN bk[d] ELSE raw[d]]
  OBVIOUS
<1>5. LeftOK(bk, z)
  BY <1>2, <1>3, <1>4, LeftBook DEF Inv
<1>6. /\ \A d \in DOMAIN z : VisitorsOf(z[d], Len(z[d])) \subseteq VisitorsOf(bk[d], Len(bk[d]))
      /\ \A d : Tx(z, d) \subseteq Tx(bk, d) /\ Tx(bk, d) \subseteq Tx(z, d) \cup Untold
  BY <1>5, LeftCounts
<1>7. ASSUME NEW d, NEW ev \in EventsOf(z, d), ev.type = "tx" PROVE ev \in EventsOf(bk, d)
  BY <1>5 DEF LeftOK
<1>8. BooksInv(z)'
  BY <1>1, <1>3, <1>5 DEF LeftOK, BooksInv, BooksOK
<1>9. VisitorsInv(z)'
  <2> DEFINE b == Salted(bk, unsalted)  n == Salted(z, unsalted)
  <2>1. /\ DOMAIN n \subseteq DOMAIN b
        /\ \A d \in DOMAIN n : n[d] = z[d] /\ b[d] = bk[d] /\ d \in DOMAIN z
        /\ \A d \in DOMAIN b \ DOMAIN n : d \notin DOMAIN z
        /\ DOMAIN b = DOMAIN bk \ unsalted
    BY <1>5 DEF LeftOK, Salted
  <2>2. /\ SaltsOK(b, NoSessions, saltFile) /\ saltFile.date <= Today
        /\ PeopleOK(b, seenOn, unsalted, Gaps(unwritten))
    BY <1>2 DEF Inv, VisitorsInv
  <2> HIDE DEF b, n
  <2>3. FewerNames(n, b)
    BY <1>6, <2>1 DEF FewerNames
  <2>4. SaltsOK(n, NoSessions, saltFile)
    BY <2>2, <2>3, SaltsAlone
  <2>5. PeopleOK(n, seenOn, unsalted, Gaps(unwritten))
    <3>1. \A d \in DOMAIN seenOn : IsFiniteSet(seenOn[d]) /\ seenOn[d] \subseteq Nat \X Clients
      BY <2>2 DEF PeopleOK
    <3>2. ASSUME NEW d \in DOMAIN n, NEW v \in VisitorsOf(n[d], Len(n[d]))
          PROVE  v \in Names /\ <<v[1][1], v[2]>> \in Seen(seenOn, d)
      <4>1. d \in DOMAIN b /\ v \in VisitorsOf(b[d], Len(b[d]))
        BY <1>6, <2>1
      <4> QED BY <2>2, <4>1 DEF PeopleOK
    <3>3. ASSUME NEW d, d \notin unsalted, d \notin Gaps(unwritten), NEW p \in Seen(seenOn, d)
          PROVE  d \in DOMAIN n /\ \E v \in VisitorsOf(n[d], Len(n[d])) : v[1][1] = p[1] /\ v[2] = p[2]
      <4>1. d \in DOMAIN b /\ \E v \in VisitorsOf(b[d], Len(b[d])) : v[1][1] = p[1] /\ v[2] = p[2]
        BY <2>2, <3>3 DEF PeopleOK
      <4>2. d \in DOMAIN z /\ z[d] = bk[d]
        BY <1>5, <2>1, <3>3, <4>1 DEF LeftOK
      <4>3. d \in DOMAIN n /\ n[d] = b[d]
        BY <2>1, <4>1, <4>2
      <4> QED BY <4>1, <4>3
    <3> QED BY <3>1, <3>2, <3>3 DEF PeopleOK
  <2> QED BY <1>1, <1>3, <2>2, <2>4, <2>5 DEF VisitorsInv, n
<1>10. ClipsInv(z)
  <2>1. ASSUME NEW d \in DOMAIN z, NEW i \in 1..Len(z[d]), z[d][i].type = "tx"
        PROVE  /\ z[d][i].t \in Opened..now
               /\ Day(clip[z[d][i].what].start) = d => z[d][i].t = clip[z[d][i].what].start
    <3>1. z[d][i] \in EventsOf(z, d)
      BY DEF EventsOf
    <3>2. z[d][i] \in EventsOf(bk, d)
      BY <1>7, <2>1, <3>1
    <3>3. PICK j \in 1..Len(bk[d]) : d \in DOMAIN bk /\ bk[d][j] = z[d][i]
      BY <3>2 DEF EventsOf
    <3> QED BY <1>2, <2>1, <3>3 DEF Inv, ClipsInv
  <2>2. \A d : \A c \in Tx(z, d) : c \in Clips /\ clip[c].at \in {"counted", "saved", "lost"}
    BY <1>2, <1>6 DEF Inv, ClipsInv
  <2>3. ASSUME NEW c \in Clips
        PROVE  clip[c].at \in {"counted", "saved"} => c \in Untold \/ \E d : c \in Tx(z, d)
    BY <1>2, <1>6 DEF Inv, ClipsInv
  <2> QED BY <1>2, <2>1, <2>2, <2>3 DEF Inv, ClipsInv
<1>11. \A c \in OldClips \cup Clips :
          /\ clip'[c].start = clip[c].start
          /\ clip'[c].at = IF clip[c].at \in {"recording", "counted"} THEN "lost" ELSE clip[c].at
          /\ clip[c].at \notin {"recording", "counted"} => clip'[c] = clip[c]
  BY <1>1, <1>3 DEF Typed
<1>12. ClipsMoved
  <2>1. clip' \in [OldClips \cup Clips ->
                     [at : {"none", "recording", "counted", "saved", "lost"},
                      start : Nat \cup {None}]]
    BY <1>1, <1>3 DEF Typed
  <2>2. \A w \in OldClips : clip'[w].start = clip[w].start
    BY <1>11
  <2>3. ASSUME NEW c \in Clips
        PROVE  /\ clip[c].at # "none" => clip'[c].start = clip[c].start /\ clip'[c].at # "none"
               /\ clip[c].at = "none" => clip'[c] = clip[c]
               /\ clip[c].at \in {"counted", "saved", "lost"} =>
                    clip'[c].at \in {"counted", "saved", "lost"}
               /\ clip'[c].at \in {"counted", "saved"} => clip[c].at \in {"counted", "saved"}
               /\ clip'[c].at # "recording" /\ clip'[c].at # "counted"
               /\ c \in wavs' => clip'[c].at = "saved"
    BY <1>1, <1>2, <1>11 DEF Inv, ClipsInv
  <2>4. OldClips \subseteq wavs'
    BY <1>1, <1>2 DEF Inv, ClipsInv
  <2> QED BY <2>1, <2>2, <2>3, <2>4 DEF ClipsMoved
<1>13. ClipsInv(z)'
  BY <1>1, <1>3, <1>10, <1>12, MovedFacts
<1>14. RadioInv(z)'
  <2>1. \A w \in OldClips : clip'[w].start = clip[w].start
    BY <1>11
  <2>2. \A w \in OldClips : Exempt(w)' = Exempt(w)
    BY <1>1, <2>1, ExemptSame
  <2>3. \A d : \A c \in Tx(z, d) \cap radioFile.clips : Day(clip'[c].start) # d \/ c \in Untold
    <3>1. ASSUME NEW d, NEW c \in Tx(z, d) \cap radioFile.clips
          PROVE  Day(clip'[c].start) # d \/ c \in Untold
      <4>1. c \in Tx(bk, d) /\ c \in Clips
        BY <1>6, <1>10 DEF ClipsInv
      <4> QED BY <1>2, <1>11, <4>1 DEF Inv, RadioInv
    <3> QED BY <3>1
  <2>4. radioFile.made => \A w \in OldClips : w \in radioFile.clips \cup unread \/ Exempt(w)'
    BY <1>2, <2>2 DEF Inv, RadioInv
  <2> QED BY <1>1, <1>3, <2>3, <2>4 DEF RadioInv
<1>15. Typed'
  <2>1. session' \in [Clients -> Peer]
    BY <1>1 DEF NoSession, Peer
  <2>2. clip' \in [OldClips \cup Clips ->
                     [at : {"none", "recording", "counted", "saved", "lost"},
                      start : Nat \cup {None}]]
    BY <1>12 DEF ClipsMoved
  <2> QED BY <1>1, <1>3, <2>1, <2>2 DEF Typed
<1> QED BY <1>8, <1>9, <1>13, <1>14, <1>15 DEF IInv, Inv

-----------------------------------------------------------------------------
(* A start.                                                                *)

LEMMA LeastIs ==
  ASSUME NEW T, T \subseteq Nat, T # {}, NEW x, x = Min(T)
  PROVE  x \in T /\ \A y \in T : x <= y
<1>1. \E y \in T : \A z \in T : y <= z
  BY LeastNumber
<1> QED BY <1>1 DEF Min

\* What a start loads are the totals of the book.
LEMMA LoadedBooks ==
  ASSUME Typed, NEW bk, BooksInv(bk), ~ running, NEW a, a = Replayed
  PROVE  /\ BookOK(done, bk, Today) /\ DailyOK(reset, bk, daily, Today)
         /\ RawOK(bk, raw, daily, {}, Late(unwritten), Today)
         /\ TotalsOK(reset, bk, a.days, Today) /\ a.concurrent \in Nat
         /\ Undone = DOMAIN raw \ DOMAIN daily
<1>1. Today \in Nat /\ done \in Nat /\ reset.done \in Nat /\ Day(Opened) \in Nat
  BY ClockFacts
<1>2. /\ BookOK(done, bk, Today) /\ DailyOK(reset, bk, daily, Today)
      /\ RawOK(bk, raw, daily, {}, Late(unwritten), Today)
      /\ \A d \in DOMAIN raw : d \in 0..Today /\ (raw[d] = <<>> \/ FileOf(d, raw[d], done))
      /\ \A d \in DOMAIN daily : d \in Int /\ d < Today
  BY ReadFacts
<1> DEFINE ds == a.days
<1>3. /\ Undone = DOMAIN raw \ DOMAIN daily
      /\ DOMAIN ds = DOMAIN daily \cup Read /\ a.concurrent \in Nat
      /\ \A d \in DOMAIN daily : ds[d] = daily[d]
      /\ \A d \in Read : Open(d, ds[d], raw[d], Len(raw[d]))
  BY <1>1, <1>2, ReplayedFacts
<1> HIDE DEF ds
<1>4. ASSUME NEW d, d \notin DOMAIN daily
      PROVE  /\ d \in DOMAIN bk <=> d \in Read
             /\ d \in DOMAIN bk => bk[d] = raw[d]
  <2>1. Whole(bk, raw, d)
    BY <1>2, <1>4 DEF RawOK
  <2> QED BY <1>3, <1>4, <2>1 DEF Whole, Read
<1>5. \A d \in DOMAIN daily : d \in DOMAIN bk
  BY <1>2 DEF DailyOK
<1>6. DOMAIN ds = DOMAIN bk
  BY <1>3, <1>4, <1>5 DEF Read
<1>7. ASSUME NEW d \in DOMAIN ds
      PROVE  ds[d] \in DayTotals /\ Marked(reset, d, ds[d]) /\ Agrees(ds[d], bk[d], Len(bk[d]))
  <2>1. CASE d \in DOMAIN daily
    BY <1>2, <1>3, <2>1 DEF DailyOK
  <2>2. CASE d \notin DOMAIN daily
    <3>1. d \in Read /\ bk[d] = raw[d]
      BY <1>4, <1>6, <2>2
    <3> QED BY <1>3, <3>1 DEF Open
  <2> QED BY <2>1, <2>2
<1>8. Today \in DOMAIN bk => ds[Today].seen = VisitorsOf(bk[Today], Len(bk[Today]))
  <2> SUFFICES ASSUME Today \in DOMAIN bk
               PROVE  ds[Today].seen = VisitorsOf(bk[Today], Len(bk[Today]))
    OBVIOUS
  <2>1. Today \notin DOMAIN daily
    BY <1>1, <1>2
  <2>2. Today \in Read /\ bk[Today] = raw[Today]
    BY <1>4, <2>1
  <2> QED BY <1>3, <2>2 DEF Open
<1>9. TotalsOK(reset, bk, ds, Today)
  BY <1>6, <1>7, <1>8 DEF TotalsOK
<1> QED BY <1>2, <1>3, <1>9 DEF ds

\* The transmissions that a raw file tells of.
ToldIn(rw, d) ==
    IF d \in DOMAIN rw THEN {ev.what : ev \in {e \in Range(rw[d]) : e.type = "tx"}} ELSE {}

\* liveRadioStart, of files and totals that agree with a book: no recording from
\* before the first start begins at the cutoff or later, unless the raw events
\* that tell have been pruned, and none that was counted on its own day begins
\* before it, unless its event could not be written.
CutoffOK(bk, rw, dl, lost, x) ==
    /\ x \in 0..now
    /\ \A w \in OldClips :
         \/ clip[w].start < x
         \/ /\ Day(clip[w].start) \in DOMAIN dl /\ dl[Day(clip[w].start)].tx # {}
            /\ ToldIn(rw, Day(clip[w].start)) = {}
    /\ \A d : \A c \in Tx(bk, d) :
         Day(clip[c].start) = d => clip[c].start >= x \/ c \in lost

\* The transmissions in the book, as far as the cutoff depends on them.
SentOK(bk) ==
    /\ \A d \in DOMAIN bk : \A i \in 1..Len(bk[d]) : bk[d][i].type = "tx" =>
         /\ bk[d][i].t \in Opened..now
         /\ Day(clip[bk[d][i].what].start) = d => bk[d][i].t = clip[bk[d][i].what].start
    /\ \A d : \A c \in Tx(bk, d) : clip[c].start \in Nat
    /\ \A w \in OldClips : clip[w].start \in 0..(Opened - 1)

LEMMA CutoffFacts ==
  ASSUME Typed, NEW bk, NEW rw, NEW dl, NEW ds, NEW some, NEW late,
         BookOK(done, bk, Today), DailyOK(reset, bk, dl, Today), TotalsOK(reset, bk, ds, Today),
         RawOK(bk, rw, dl, some, late, Today), SentOK(bk),
         \A ev \in some : ev.type # "tx",
         NEW lost, \A ev \in late : ev.type = "tx" => ev.what \in lost,
         NEW x, x = LiveRadioStart(ds, rw)
  PROVE  CutoffOK(bk, rw, dl, lost, x)
<1> DEFINE counted == {d \in DOMAIN ds : ds[d].tx # {}}
           first == Min(counted)
           sent == IF first \notin DOMAIN rw THEN {}
                   ELSE {ev.t : ev \in {e \in Range(rw[first]) : e.type = "tx"}}
<1>1. x = IF counted = {} THEN now ELSE IF sent = {} THEN first * DayLen ELSE Min(sent)
  BY DEF LiveRadioStart
<1>2. /\ Today \in Nat /\ Day(Opened) \in Nat /\ now \in Nat /\ Opened \in Nat /\ Opened <= now
      /\ Day(now) = Today
  BY ClockFacts, AnalyticsAssumption DEF Typed
<1>3. DOMAIN ds = DOMAIN bk /\ \A d \in DOMAIN ds : d \in Day(Opened)..Today
  BY DEF TotalsOK, BookOK
<1>4. ASSUME NEW d PROVE Tx(bk, d) = IF d \in DOMAIN ds THEN ds[d].tx ELSE {}
  BY <1>3 DEF TotalsOK, Agrees, Tx
<1>5. \A d : d \in counted <=> Tx(bk, d) # {}
  BY <1>4
<1>6. counted \subseteq Nat /\ \A d \in counted : Day(Opened) <= d /\ d <= Today
  BY <1>2, <1>3
<1>7. CASE counted = {}
  <2>1. x = now
    BY <1>1, <1>7
  <2>2. \A w \in OldClips : clip[w].start < x
    BY <1>2, <2>1 DEF SentOK
  <2>3. \A d : Tx(bk, d) = {}
    BY <1>5, <1>7
  <2> QED BY <1>2, <2>1, <2>2, <2>3 DEF CutoffOK
<1>8. CASE counted # {}
  <2>1. first \in counted /\ \A d \in counted : first <= d
    <3> HIDE DEF counted
    <3> QED BY <1>6, <1>8, LeastIs
  <2>a. PICK c0 : c0 \in Tx(bk, first)
    <3> HIDE DEF counted, first
    <3> QED BY <1>5, <2>1
  <2>b. first \in DOMAIN bk
    <3> HIDE DEF first
    <3> QED BY <2>a DEF Tx
  <2> HIDE DEF counted, first
  <2>2. first \in Nat /\ Day(Opened) <= first /\ first <= Today
    BY <1>6, <2>1
  <2>3. first * DayLen \in Nat /\ first * DayLen <= now
    <3>1. now >= first * DayLen <=> Day(now) >= first
      BY <1>2, <2>2, DayBegins
    <3>2. first * DayLen \in Nat
      BY <1>2, <2>2, DayBegins
    <3> DEFINE y == first * DayLen
    <3>3. (now >= y <=> Day(now) >= first) /\ y \in Nat
      BY <3>1, <3>2
    <3> HIDE DEF y
    <3>4. y <= now
      BY <1>2, <2>2, <3>3
    <3> QED BY <3>2, <3>4 DEF y
  <2>4. ASSUME NEW t \in Nat
        PROVE  t >= first * DayLen <=> Day(t) >= first
    BY <2>2, DayBegins
  <2>5. ASSUME NEW d, NEW c \in Tx(bk, d), Day(clip[c].start) = d
        PROVE  /\ clip[c].start \in Nat /\ clip[c].start >= first * DayLen
               /\ d \in Nat /\ d >= first
    <3>1. d \in Nat /\ d >= first /\ clip[c].start \in Nat
      BY <1>5, <1>6, <2>1, <2>2 DEF SentOK
    <3>2. clip[c].start >= first * DayLen
      BY <2>4, <2>5, <3>1
    <3> QED BY <3>1, <3>2
  <2>c. first \in DOMAIN rw => DOMAIN rw[first] = 1..Len(rw[first])
    BY DEF RawOK
  <2>d. first \in DOMAIN rw => Range(rw[first]) = EventsOf(rw, first)
    BY <2>c DEF Range, EventsOf
  <2>e. first \notin DOMAIN rw => EventsOf(rw, first) = {}
    BY DEF EventsOf
  <2>f. sent = {ev.t : ev \in {e \in EventsOf(rw, first) : e.type = "tx"}}
    BY <2>d, <2>e
  <2>g. EventsOf(rw, first) \subseteq EventsOf(bk, first)
    BY DEF RawOK
  <2>h. EventsOf(bk, first) = {bk[first][i] : i \in 1..Len(bk[first])}
    BY <2>b DEF EventsOf
  <2> HIDE DEF sent
  <2>6. CASE sent = {}
    <3>1. x = first * DayLen
      BY <1>1, <1>8, <2>6
    <3>0. \A e \in EventsOf(rw, first) : e.type # "tx"
      BY <2>6, <2>f
    <3>2. first \in DOMAIN dl
      <4> SUFFICES ASSUME first \notin DOMAIN dl PROVE FALSE
        OBVIOUS
      <4>1. EventsOf(bk, first) \subseteq EventsOf(rw, first) \cup some
        BY <2>b DEF RawOK
      <4>2. PICK i \in 1..Len(bk[first]) : bk[first][i].type = "tx"
        BY <2>a, <2>b DEF Tx, Whats, At
      <4>3. bk[first][i] \in EventsOf(bk, first)
        BY <2>h
      <4> QED BY <3>0, <4>1, <4>2, <4>3
    <3>a. dl[first].tx # {}
      <4>1. Agrees(dl[first], bk[first], Len(bk[first]))
        BY <3>2 DEF DailyOK
      <4> QED BY <2>a, <2>b, <4>1 DEF Agrees, Tx
    <3>b. ToldIn(rw, first) = {}
      BY <2>d, <3>0 DEF ToldIn
    <3>3. ASSUME NEW w \in OldClips
          PROVE  \/ clip[w].start < x
                 \/ /\ Day(clip[w].start) \in DOMAIN dl /\ dl[Day(clip[w].start)].tx # {}
                    /\ ToldIn(rw, Day(clip[w].start)) = {}
      <4>1. clip[w].start \in Nat /\ clip[w].start <= Opened
        BY <1>2 DEF SentOK
      <4>2. Day(clip[w].start) \in Nat /\ Day(clip[w].start) <= Day(Opened)
        BY <1>2, <4>1, DayFacts, DayOrder
      <4>3. CASE Day(clip[w].start) >= first
        <5>1. Day(clip[w].start) = first
          BY <1>2, <2>2, <4>2, <4>3
        <5> QED BY <3>2, <3>a, <3>b, <5>1
      <4>4. CASE Day(clip[w].start) < first
        <5>1. ~ (clip[w].start >= first * DayLen)
          BY <2>2, <2>4, <4>1, <4>2, <4>4
        <5> QED BY <2>3, <3>1, <4>1, <5>1
      <4> QED BY <2>2, <4>2, <4>3, <4>4
    <3>4. \A d : \A c \in Tx(bk, d) : Day(clip[c].start) = d => clip[c].start >= x
      BY <2>5, <3>1
    <3>5. x \in 0..now
      BY <1>2, <2>3, <3>1
    <3> QED BY <3>3, <3>4, <3>5 DEF CutoffOK
  <2>7. CASE sent # {}
    <3>1. first \in DOMAIN rw
      BY <2>7, <2>e, <2>f
    <3>2. FileOf(first, bk[first], done)
      BY <2>b DEF BookOK
    <3>4. ASSUME NEW t \in sent PROVE t \in Opened..now /\ Day(t) = first
      <4>1. PICK e \in EventsOf(rw, first) : e.type = "tx" /\ t = e.t
        BY <2>f
      <4>2. PICK i \in 1..Len(bk[first]) : bk[first][i] = e
        BY <2>g, <2>h
      <4> QED BY <2>b, <3>2, <4>1, <4>2 DEF SentOK, FileOf
    <3>5. sent \subseteq Nat
      BY <1>2, <3>4
    <3>6. x \in sent /\ \A t \in sent : x <= t
      BY <1>1, <1>8, <2>7, <3>5, LeastIs
    <3>7. x \in Opened..now /\ Day(x) = first /\ x \in Nat
      BY <1>2, <3>4, <3>6
    <3>8. \A w \in OldClips : clip[w].start < x
      BY <1>2, <3>7 DEF SentOK
    <3>9. ASSUME NEW d, NEW c \in Tx(bk, d), Day(clip[c].start) = d
          PROVE  clip[c].start >= x \/ c \in lost
      <4>1. clip[c].start \in Nat /\ d \in Nat /\ d >= first
        BY <2>5, <3>9
      <4>2. CASE d = first
        <5>1. PICK i \in 1..Len(bk[first]) : bk[first][i].type = "tx" /\ bk[first][i].what = c
          BY <2>b, <3>9, <4>2 DEF Tx, Whats, At
        <5>2. bk[first][i].t = clip[c].start
          BY <2>b, <3>9, <4>2, <5>1 DEF SentOK
        <5>3. bk[first][i] \in EventsOf(rw, first) \cup late
          <6>1. EventsOf(bk, first) \subseteq EventsOf(rw, first) \cup late
            BY <2>b, <3>1 DEF RawOK
          <6> QED BY <2>h, <6>1
        <5>4. CASE bk[first][i] \in late
          BY <5>1, <5>4
        <5>5. CASE bk[first][i] \in EventsOf(rw, first)
          <6>1. clip[c].start \in sent
            BY <2>f, <5>1, <5>2, <5>5
          <6> QED BY <3>5, <3>6, <3>7, <6>1
        <5> QED BY <5>3, <5>4, <5>5
      <4>3. CASE d # first
        <5>0. SUFFICES ASSUME clip[c].start < x PROVE FALSE
          BY <3>7, <4>1
        <5>1. clip[c].start <= x
          BY <3>7, <4>1, <5>0
        <5>2. Day(clip[c].start) <= Day(x)
          BY <3>7, <4>1, <5>1, DayOrder
        <5> QED BY <2>2, <3>7, <3>9, <4>1, <4>3, <5>2
      <4> QED BY <4>2, <4>3
    <3>10. x \in 0..now
      BY <1>2, <3>7
    <3> QED BY <3>8, <3>9, <3>10 DEF CutoffOK
  <2> QED BY <2>6, <2>7
<1> QED BY <1>7, <1>8

\* What is unwritten after the first event of a process.
LEMMA BegunFacts ==
  ASSUME Typed, NEW fails, NEW ev \in AnEvent, ev.type # "tx", starts' = starts + 1,
         unwritten' = Unlogged(fails, starts', ev)
  PROVE  /\ Untold \subseteq Untold' /\ Late(unwritten) \subseteq Late(unwritten')
         /\ Gaps(unwritten) \subseteq Gaps(unwritten')
         /\ \A u \in unwritten' : u.start \in 0..starts' /\ u.event \in AnEvent
         /\ fails \cap {"open", "write"} # {} => ev \in Unkept' /\ ev \in Late(unwritten')
         /\ \A e \in Unkept' : e.type # "tx"
         /\ \A e \in Late(unwritten') : e.type = "tx" => e.what \in Untold'
<1>1. PICK u : u = [start |-> starts', event |-> ev]
  OBVIOUS
<1>2. u.start = starts' /\ u.event = ev
  BY <1>1
<1>3. unwritten' = IF fails \cap {"open", "write"} = {} THEN unwritten ELSE unwritten \cup {u}
  BY <1>1 DEF Unlogged
<1>4. unwritten \subseteq unwritten'
  BY <1>3
<1>5. starts \in Nat
  BY DEF Typed
<1>6. \A v \in unwritten : v.start \in 0..starts /\ v.event \in AnEvent
  BY DEF Typed
<1>7. \A v \in unwritten' : v.start \in 0..starts' /\ v.event \in AnEvent
  BY <1>2, <1>3, <1>5, <1>6
<1>8. fails \cap {"open", "write"} # {} => ev \in Unkept' /\ ev \in Late(unwritten')
  BY <1>2, <1>3 DEF Unkept, Late
<1>9. \A v \in unwritten' : v.start = starts' => v = u
  BY <1>3, <1>5, <1>6
<1>10. \A e \in Unkept' : e.type # "tx"
  BY <1>2, <1>9 DEF Unkept
<1>11. Untold \subseteq Untold'
  BY <1>4 DEF Untold
<1>12. Late(unwritten) \subseteq Late(unwritten') /\ Gaps(unwritten) \subseteq Gaps(unwritten')
  BY <1>4 DEF Late, Gaps
<1>13. \A e \in Late(unwritten') : e.type = "tx" => e.what \in Untold'
  BY DEF Late, Untold
<1> QED BY <1>7, <1>8, <1>10, <1>11, <1>12, <1>13

\* The salt that a start goes on with, or draws.
LEMMA LoadedSaltFacts ==
  ASSUME Typed, NEW b, SaltsOK(b, NoSessions, saltFile), saltFile.date <= Today,
         NEW s, s = LoadedSalt, NEW f, f = [date |-> Today, salt |-> s]
  PROVE  /\ SaltsOK(b, NoSessions, f)
         /\ f \in [date : Nat \cup {None}, salt : Salts \cup {<<>>}] /\ f.date = Today
         /\ saltFile.date = Today => saltFile = f
<1>1. Today \in Nat /\ starts \in Nat
  BY ClockFacts
<1>2. saltFile \in [date : Nat \cup {None}, salt : Salts \cup {<<>>}] /\ f.date = Today
  BY DEF Typed
<1>3. CASE saltFile.date = Today
  <2>1. s = saltFile.salt
    BY <1>3 DEF LoadedSalt
  <2>2. saltFile = f
    BY <1>2, <1>3, <2>1
  <2> QED BY <1>2, <2>2
<1>4. CASE saltFile.date # Today
  <2>1. s = <<Today, starts + 1>>
    BY <1>4 DEF LoadedSalt
  <2>2. s \in Salts /\ s[1] = Today
    BY <1>1, <2>1 DEF Salts
  <2>3. saltFile.date < Today /\ saltFile.date \in Int
    BY <1>1, <1>2, <1>4 DEF None
  <2>4. SaltsOK(b, NoSessions, f)
    BY <1>1, <2>2, <2>3, NewSalt
  <2>5. f \in [date : Nat \cup {None}, salt : Salts \cup {<<>>}]
    BY <1>1, <2>2
  <2> QED BY <1>2, <1>4, <2>4, <2>5
<1> QED BY <1>3, <1>4

LEMMA StartInv ==
  ASSUME IInv, Start
  PROVE  IInv'
<1>1. PICK fails \in SUBSET ({"open", "write"} \cup (IF saltFile.date = Today THEN {} ELSE {"salt"})),
           undone \in SUBSET (Undone \ {Today}), unsaved \in SUBSET Old(raw, Today),
           kept \in SUBSET Old(raw, Today) :
        LET begun == Event(now, "start", <<>>, "none")
            replayed == Replayed
            loaded == Apply(replayed, begun)
            saved == WithSaved(daily, replayed.days, (Undone \ {Today}) \ undone)
            p == Pruned(Logged(fails, begun), saved, loaded.days, Today, unsaved, kept)
        IN /\ ~running /\ starts < MaxStarts
           /\ Failing(Cardinality(fails) + Cardinality(undone) + Cardinality(unsaved)
                        + Cardinality(kept))
           /\ running' = TRUE /\ starts' = starts + 1
           /\ days' = loaded.days /\ concurrent' = 0
           /\ today' = Today /\ fileDate' = IF "open" \in fails THEN None ELSE Today
           /\ salt' = LoadedSalt
           /\ saltFile' = IF "salt" \in fails THEN saltFile ELSE [date |-> Today, salt |-> LoadedSalt]
           /\ unsalted' = IF "salt" \in fails THEN unsalted \cup {Today} ELSE unsalted
           /\ unwritten' = Unlogged(fails, starts', begun)
           /\ daily' = p.daily /\ raw' = p.raw
           /\ session' = [c \in Clients |-> NoSession]
           /\ IF radioFile.made
              THEN archive' = radioFile.clips /\ scan' = None
              ELSE archive' = {} /\ scan' = LiveRadioStart(days', raw')
           /\ UNCHANGED <<reset, now, radioFile, wavs, clip, calls, seenOn, done, unread>>
  BY Zenon DEF Start
<1>2. PICK ev, rep, a, saved, nw, p, s, f :
        /\ ev = Event(now, "start", <<>>, "none") /\ rep = Replayed /\ a = Apply(rep, ev)
        /\ saved = WithSaved(daily, rep.days, (Undone \ {Today}) \ undone)
        /\ nw = Logged(fails, ev) /\ p = Pruned(nw, saved, a.days, Today, unsaved, kept)
        /\ s = LoadedSalt /\ f = [date |-> Today, salt |-> s]
        /\ ~ running /\ running' = TRUE /\ starts' = starts + 1
        /\ days' = a.days /\ concurrent' = 0 /\ today' = Today /\ salt' = s
        /\ saltFile' = IF "salt" \in fails THEN saltFile ELSE f
        /\ unsalted' = IF "salt" \in fails THEN unsalted \cup {Today} ELSE unsalted
        /\ unwritten' = Unlogged(fails, starts', ev)
        /\ daily' = p.daily /\ raw' = p.raw
        /\ session' = NoSessions
        /\ IF radioFile.made
           THEN archive' = radioFile.clips /\ scan' = None
           ELSE archive' = {} /\ scan' = LiveRadioStart(a.days, p.raw)
        /\ UNCHANGED <<reset, now, radioFile, wavs, clip, calls, seenOn, done, unread>>
  BY <1>1 DEF NoSessions
<1>3. PICK bk : Inv(bk)
  BY DEF IInv
<1>4. /\ Typed /\ Today \in Nat /\ Day(now) = Today /\ now \in Nat /\ done \in Nat
      /\ reset.done \in Nat /\ Day(Opened) \in Nat /\ Today' = Today
  BY <1>2, ClockFacts DEF IInv, Today
<1>5. Shaped(ev, now, "start", <<>>, "none")
  <2>1. "start" \in Kinds /\ "none" \in What /\ <<>> \in Names \cup {<<>>}
    BY DEF Kinds, What
  <2> QED BY <1>2, <1>4, <2>1, EventShape
<1>6. Proper(ev) /\ Day(ev.t) = Today /\ ev.type = "start" /\ ev.visitor = <<>> /\ ev \in AnEvent
  BY <1>5 DEF Shaped, Proper
<1>7. /\ BookOK(done, bk, Today) /\ DailyOK(reset, bk, daily, Today)
      /\ RawOK(bk, raw, daily, {}, Late(unwritten), Today)
      /\ TotalsOK(reset, bk, rep.days, Today) /\ rep.concurrent \in Nat
      /\ Undone = DOMAIN raw \ DOMAIN daily
  BY <1>2, <1>3, <1>4, LoadedBooks DEF Inv
<1>8. /\ Untold \subseteq Untold' /\ Late(unwritten) \subseteq Late(unwritten')
      /\ Gaps(unwritten) \subseteq Gaps(unwritten')
      /\ \A u \in unwritten' : u.start \in 0..starts' /\ u.event \in AnEvent
      /\ fails \cap {"open", "write"} # {} => ev \in Unkept' /\ ev \in Late(unwritten')
      /\ \A e \in Unkept' : e.type # "tx"
      /\ \A e \in Late(unwritten') : e.type = "tx" => e.what \in Untold'
  <2>1. ev.type # "tx" /\ starts' = starts + 1 /\ unwritten' = Unlogged(fails, starts', ev)
    BY <1>2, <1>6
  <2> QED BY <1>4, <1>6, <2>1, BegunFacts
\* Finished days are saved.
<1>9. SavedOK(bk, daily, Today, saved)
  <2> DEFINE S == (Undone \ {Today}) \ undone
             ds == rep.days
  <2>1. \A d \in DOMAIN raw : d \in Day(Opened)..Today
    BY <1>7 DEF RawOK
  <2>2. \A d \in S : d < Today
    BY <1>4, <1>7, <2>1
  <2>3. saved = WithSaved(daily, ds, S) /\ TotalsOK(reset, bk, ds, Today)
    BY <1>2, <1>7
  <2> HIDE DEF S, ds
  <2>4. \A d \in (S \cap DOMAIN ds) \ DOMAIN daily :
          /\ d < Today /\ ds[d] \in DayTotals /\ Marked(reset, d, ds[d])
          /\ Agrees(ds[d], bk[d], Len(bk[d]))
    BY <2>2, <2>3 DEF TotalsOK
  <2>5. DOMAIN ds \subseteq DOMAIN bk
    BY <2>3 DEF TotalsOK
  <2> QED BY <1>7, <2>3, <2>4, <2>5, SaveFacts
<1>10. /\ DailyOK(reset, bk, saved, Today) /\ DOMAIN daily \subseteq DOMAIN saved
       /\ \A d \in DOMAIN daily : saved[d] = daily[d]
  BY <1>9 DEF SavedOK
<1>11. RawOK(bk, raw, saved, {}, Late(unwritten), Today)
  <2>1. DOMAIN raw \ DOMAIN raw \subseteq DOMAIN saved
    OBVIOUS
  <2> QED BY <1>4, <1>7, <1>10, <2>1, LaterRaw
\* The start is recorded.
<1>12. PICK z : z = With(bk, Today, Append(Written(bk, Today), ev))
  OBVIOUS
<1>13. Appended(bk, saved, ev, done, z, a)
  <2> DEFINE ds == rep.days  c == rep.concurrent
  <2>1. a = Apply([days |-> ds, concurrent |-> c], ev)
    BY <1>2 DEF Apply
  <2>2. TotalsOK(reset, bk, ds, Today) /\ c \in Nat /\ done <= done
        /\ (ev.type = "done" => ev.what \in 1..done)
    BY <1>4, <1>6, <1>7
  <2> HIDE DEF ds, c
  <2> QED BY <1>4, <1>6, <1>7, <1>10, <1>12, <2>1, <2>2, AppendFacts
<1>14. /\ BookOK(done, z, Today) /\ DailyOK(reset, z, saved, Today)
       /\ TotalsOK(reset, z, a.days, Today) /\ Today \notin DOMAIN saved
  BY <1>13 DEF Appended
<1>15. Extended(bk, z, ev) /\ TxGrown(bk, z, ev)
  BY <1>13, ExtendedFacts
<1>16. RawOK(z, nw, saved, Unkept', Late(unwritten'), Today)
  <2> DEFINE none == {}  old == Late(unwritten)  more == Unkept'  later == Late(unwritten')
  <2>1. /\ RawOK(bk, raw, saved, none, old, Today) /\ none \subseteq old /\ none \subseteq more
        /\ old \subseteq later
        /\ fails \cap {"open", "write"} # {} => ev \in more /\ ev \in later
    BY <1>8, <1>11
  <2> HIDE DEF none, old, more, later
  <2>2. RawOK(z, nw, saved, more, later, Today)
    BY <1>2, <1>4, <1>6, <1>7, <1>12, <1>14, <2>1, LoggedFacts
  <2> QED BY <2>2 DEF more, later
\* Old files are deleted.
<1>17. PrunedOK(z, nw, saved, Unkept', Late(unwritten'), p)
  <2> DEFINE more == Unkept'  later == Late(unwritten')  ds == a.days
  <2>1. /\ RawOK(z, nw, saved, more, later, Today) /\ TotalsOK(reset, z, ds, Today)
        /\ p = Pruned(nw, saved, ds, Today, unsaved, kept)
    BY <1>2, <1>14, <1>16
  <2> HIDE DEF more, later, ds
  <2>2. PrunedOK(z, nw, saved, more, later, p)
    BY <1>4, <1>14, <2>1, PruneFacts
  <2> QED BY <2>2 DEF more, later
<1>18. /\ DailyOK(reset, z, p.daily, Today)
       /\ RawOK(z, p.raw, p.daily, Unkept', Late(unwritten'), Today)
       /\ \A d \in DOMAIN saved : d \in DOMAIN p.daily /\ p.daily[d] = saved[d]
       /\ \A d \in DOMAIN p.raw : d \in DOMAIN nw /\ p.raw[d] = nw[d]
  BY <1>17 DEF PrunedOK
<1>19. BooksInv(z)'
  <2>1. running' /\ today' = Today /\ reset' = reset /\ done' = done /\ days' = a.days
        /\ raw' = p.raw /\ daily' = p.daily
    BY <1>2
  <2> QED BY <1>4, <1>14, <1>18, <2>1 DEF BooksInv, BooksOK
\* The salt goes on, or is one of today.
<1>20. VisitorsInv(z)'
  <2> DEFINE y == unsalted'
             b == Salted(bk, y)
             n == Salted(z, y)
             more == Gaps(unwritten')
             u == Salted(bk, unsalted)
  <2>1. unsalted \subseteq y /\ ("salt" \in fails => y = unsalted \cup {Today})
        /\ ("salt" \notin fails => y = unsalted)
    BY <1>2
  <2>2. /\ SaltsOK(u, NoSessions, saltFile) /\ saltFile.date <= Today
        /\ PeopleOK(u, seenOn, unsalted, Gaps(unwritten))
    BY <1>3 DEF Inv, VisitorsInv
  <2>3. /\ DOMAIN b \subseteq DOMAIN u /\ \A d \in DOMAIN b : b[d] = u[d]
        /\ DOMAIN u \ DOMAIN b \subseteq y /\ FewerNames(b, u)
    <3> HIDE DEF y
    <3>1. DOMAIN bk \ y \subseteq DOMAIN bk \ unsalted
      BY <2>1
    <3>2. DOMAIN u \ DOMAIN b \subseteq y
      BY DEF Salted
    <3> QED BY <3>1, <3>2, SaltedLess
  <2>4. b = Salted(bk, y) /\ n = Salted(z, y) /\ Gaps(unwritten) \subseteq more
    BY <1>8
  <2>5. y = unsalted' /\ n = Salted(z, unsalted') /\ more = Gaps(unwritten')
    OBVIOUS
  <2> HIDE DEF y, b, n, more, u
  <2>6. PeopleOK(b, seenOn, y, Gaps(unwritten))
    BY <2>1, <2>2, <2>3, PeopleLess
  <2>7. FewerNames(n, b) /\ PeopleOK(n, seenOn, y, more)
    BY <1>6, <1>15, <2>4, <2>6, NobodyNamed
  <2>8. SaltsOK(b, NoSessions, saltFile)
    BY <2>2, <2>3, SaltsAlone
  <2>9. /\ SaltsOK(b, NoSessions, f) /\ f.date = Today
        /\ saltFile.date = Today => saltFile = f
    BY <1>2, <1>4, <2>2, <2>8, LoadedSaltFacts
  <2>10. SaltsOK(n, NoSessions, f) /\ SaltsOK(n, NoSessions, saltFile)
    BY <2>7, <2>8, <2>9, SaltsAlone
  <2> DEFINE g == saltFile'
  <2>11. g = saltFile \/ g = f
    BY <1>2
  <2>12. Today \notin y => g = f
    BY <1>2, <2>1
  <2>13. g = saltFile'
    OBVIOUS
  <2> HIDE DEF g
  <2>14. SaltsOK(n, NoSessions, g) /\ g.date <= Today
    BY <1>4, <2>2, <2>9, <2>10, <2>11
  <2>15. session' = NoSessions /\ seenOn' = seenOn /\ [date |-> today', salt |-> salt'] = f
         /\ today' = Today
    BY <1>2
  <2> QED BY <1>4, <2>5, <2>7, <2>10, <2>12, <2>13, <2>14, <2>15 DEF VisitorsInv
<1>21. ClipsGrown(ev) /\ ClipsInv(bk) /\ RadioInv(bk) /\ clip' = clip /\ now' = now /\ wavs' = wavs
  BY <1>2, <1>3, <1>6 DEF ClipsGrown, Inv
<1>22. ClipsInv(z)'
  <2>1. (running => running') /\ (running \/ clip' = clip)
    BY <1>2
  <2> QED BY <1>4, <1>8, <1>15, <1>21, <2>1, ClipsStay
<1>23. FilesKept
  <2>1. \A d \in DOMAIN nw \ {Today} : d \in DOMAIN raw /\ nw[d] = raw[d]
    <3> DEFINE old == IF Day(ev.t) \in DOMAIN raw THEN raw[Day(ev.t)] ELSE <<>>
               q == IF "write" \in fails THEN old ELSE Append(old, ev)
    <3>1. nw = raw \/ nw = With(raw, Day(ev.t), q)
      BY <1>2 DEF Logged
    <3> HIDE DEF q
    <3>2. CASE nw = raw
      BY <3>2
    <3>3. CASE nw = With(raw, Day(ev.t), q)
      BY <1>6, <3>3 DEF With
    <3> QED BY <3>1, <3>2, <3>3
  <2>2. raw' = p.raw /\ daily' = p.daily
    BY <1>2
  <2>3. \A d \in DOMAIN daily : d \in DOMAIN p.daily /\ p.daily[d] = daily[d]
    BY <1>10, <1>18
  <2>4. \A d \in DOMAIN p.raw \ {Today} : d \in DOMAIN raw /\ p.raw[d] = raw[d]
    BY <1>18, <2>1
  <2> QED BY <2>2, <2>3, <2>4 DEF FilesKept
<1>24. \A w \in OldClips : Exempt(w) => Exempt(w)'
  <2>1. \A w : clip'[w].start = clip[w].start
    BY <1>21
  <2> QED BY <1>4, <1>7, <1>23, <2>1, ExemptStays
<1>25. \A d : Tx(z, d) = Tx(bk, d)
  BY <1>6, <1>15 DEF TxGrown
<1>26. \A d : \A c \in Tx(z, d) \cap (archive' \cup radioFile'.clips) :
          Day(clip'[c].start) # d \/ c \in Untold'
  <2>1. archive' \subseteq radioFile.clips /\ radioFile' = radioFile
    BY <1>2
  <2> QED BY <1>8, <1>21, <1>25, <2>1 DEF RadioInv
<1>27. radioFile.made => \A w \in OldClips : w \in radioFile.clips \cup unread \/ Exempt(w)'
  BY <1>21, <1>24 DEF RadioInv
<1>28. ASSUME ~ radioFile.made
       PROVE  /\ scan' \in 0..now /\ scan' # None
              /\ \A w \in OldClips : clip'[w].start < scan' \/ Exempt(w)'
              /\ \A d : \A c \in Tx(z, d) :
                   Day(clip'[c].start) = d => clip'[c].start >= scan' \/ c \in Untold'
  <2> DEFINE x == scan'  lost == Untold'  some == Unkept'  late == Late(unwritten')
             rw == p.raw  dl == p.daily  ds == a.days
  <2>1. /\ x = LiveRadioStart(ds, rw) /\ TotalsOK(reset, z, ds, Today)
        /\ DailyOK(reset, z, dl, Today) /\ RawOK(z, rw, dl, some, late, Today)
        /\ \A e \in some : e.type # "tx"
        /\ \A e \in late : e.type = "tx" => e.what \in lost
    BY <1>2, <1>8, <1>14, <1>18, <1>28
  <2>2. SentOK(z)
    <3>1. \A d \in DOMAIN z : \A i \in 1..Len(z[d]) : z[d][i].type = "tx" =>
            /\ z[d][i].t \in Opened..now
            /\ Day(clip[z[d][i].what].start) = d => z[d][i].t = clip[z[d][i].what].start
      BY <1>21, <1>22 DEF ClipsInv
    <3>2. ASSUME NEW d, NEW c \in Tx(z, d) PROVE clip[c].start \in Nat
      <4>1. c \in Clips /\ clip[c].at # "none"
        BY <1>21, <1>25 DEF ClipsInv
      <4>2. clip[c].start \in Opened..now
        BY <1>21, <4>1 DEF ClipsInv
      <4> QED BY <1>4, <4>2, AnalyticsAssumption
    <3>3. \A w \in OldClips : clip[w].start \in 0..(Opened - 1)
      BY <1>21 DEF ClipsInv
    <3> QED BY <3>1, <3>2, <3>3 DEF SentOK
  <2>3. x = scan' /\ lost = Untold' /\ raw' = rw /\ daily' = dl
    BY <1>2
  <2> HIDE DEF x, lost, some, late, rw, dl, ds
  <2>4. CutoffOK(z, rw, dl, lost, x)
    BY <1>4, <1>14, <2>1, <2>2, CutoffFacts
  <2>5. x \in 0..now /\ x # None
    BY <1>4, <2>4 DEF CutoffOK, None
  <2>6. \A w \in OldClips : clip'[w].start < x \/ Exempt(w)'
    <3>1. ASSUME NEW w \in OldClips,
                 Day(clip[w].start) \in DOMAIN dl /\ dl[Day(clip[w].start)].tx # {},
                 ToldIn(rw, Day(clip[w].start)) = {}
          PROVE  Exempt(w)'
      BY <1>21, <2>3, <3>1 DEF Exempt, Told, ToldIn
    <3> QED BY <1>21, <2>4, <3>1 DEF CutoffOK
  <2>7. \A d : \A c \in Tx(z, d) : Day(clip'[c].start) = d => clip'[c].start >= x \/ c \in lost
    BY <1>21, <2>4 DEF CutoffOK
  <2> QED BY <2>3, <2>5, <2>6, <2>7
<1>29. RadioInv(z)'
  <2>1. CASE radioFile.made
    <3>1. archive' = radioFile.clips /\ scan' = None /\ radioFile' = radioFile /\ unread' = unread
      BY <1>2, <2>1
    <3>2. scan' \notin Nat
      BY <3>1 DEF None
    <3> QED BY <1>26, <1>27, <2>1, <3>1, <3>2 DEF RadioInv
  <2>2. CASE ~ radioFile.made
    <3>1. \A c \in Clips : clip'[c].at # "recording"
      BY <1>2, <1>21 DEF ClipsInv
    <3>2. now' = now /\ radioFile' = radioFile
      BY <1>2
    <3> QED BY <1>26, <1>28, <2>2, <3>1, <3>2 DEF RadioInv
  <2> QED BY <2>1, <2>2
<1>30. Typed'
  <2>1. session' \in [Clients -> Peer]
    BY <1>2 DEF NoSessions, NoSession, Peer
  <2>2. running' \in BOOLEAN
    BY <1>2, Zenon
  <2>3. starts' \in Nat /\ concurrent' \in Nat
    BY <1>2, <1>4 DEF Typed
  <2>4. archive' \subseteq wavs'
    BY <1>2, <1>4 DEF Typed
  <2>5. reset'.on <= Today'
    BY <1>2, <1>4 DEF Typed
  <2>6. saltFile' \in [date : Nat \cup {None}, salt : Salts \cup {<<>>}]
    <3>1. SaltsOK(Salted(bk, unsalted), NoSessions, saltFile) /\ saltFile.date <= Today
      BY <1>3 DEF Inv, VisitorsInv
    <3>2. f \in [date : Nat \cup {None}, salt : Salts \cup {<<>>}]
      BY <1>2, <1>4, <3>1, LoadedSaltFacts
    <3> QED BY <1>2, <1>4, <3>2 DEF Typed
  <2>7. scan' \in Nat \cup {None, Failed}
    <3>1. CASE radioFile.made
      BY <1>2, <3>1
    <3>2. CASE ~ radioFile.made
      BY <1>4, <1>28, <3>2
    <3> QED BY <3>1, <3>2
  <2> QED BY <1>2, <1>4, <1>8, <2>1, <2>2, <2>3, <2>4, <2>5, <2>6, <2>7 DEF Typed
<1> QED BY <1>19, <1>20, <1>22, <1>29, <1>30 DEF IInv, Inv

-----------------------------------------------------------------------------
(* The theorems.                                                           *)

LEMMA StepInv ==
  ASSUME IInv, Next
  PROVE  IInv'
<1>1. ASSUME NEW c \in Clients,
             Request(c) \/ ListenStart(c) \/ ListenConnected(c) \/ ListenEnded(c)
      PROVE  IInv'
  BY <1>1, RequestInv, ListenStartInv, ListenConnectedInv, ListenEndedInv
<1>2. ASSUME NEW c \in Clips, BeginClip(c) \/ CountClip(c) \/ SaveClip(c)
      PROVE  IInv'
  BY <1>2, BeginClipInv, CountClipInv, SaveClipInv
<1>3. ASSUME Transcribed \/ ResetTranscription
      PROVE  IInv'
  BY <1>3, TranscribedInv, ResetTranscriptionInv
<1>4. ASSUME Maintain \/ Start \/ EndScan \/ FailScan \/ Stop \/ Recount \/ Tick
      PROVE  IInv'
  BY <1>4, MaintainInv, StartInv, EndScanInv, FailScanInv, StopInv, RecountInv, TickInv
<1> QED BY <1>1, <1>2, <1>3, <1>4 DEF Next

LEMMA StutterInv ==
  ASSUME IInv, UNCHANGED vars
  PROVE  IInv'
<1>1. UNCHANGED <<now, starts, running, raw, daily, saltFile, radioFile, wavs, reset,
                  days, today, fileDate, salt, concurrent, session, archive, scan,
                  clip, done, calls, faults, seenOn, unwritten, unsalted, unread>>
  BY DEF vars, disk, memory, history
<1>2. PICK bk : Inv(bk)
  BY DEF IInv
<1>3. Today' = Today /\ Untold' = Untold /\ Typed
  BY <1>1 DEF Today, Untold, IInv
<1>4. Typed'
  BY <1>1, <1>3 DEF Typed
<1>5. BooksInv(bk)' /\ VisitorsInv(bk)'
  BY <1>1, <1>2, BooksStay, VisitorsStay DEF Inv
<1>6. ClipsInv(bk)'
  BY <1>1, <1>2, <1>3 DEF Inv, ClipsInv
<1>7. \A w : Exempt(w)' = Exempt(w)
  BY <1>1, ExemptSame
<1>8. RadioInv(bk)'
  BY <1>1, <1>2, <1>3, <1>7 DEF Inv, RadioInv
<1> QED BY <1>4, <1>5, <1>6, <1>8 DEF IInv, Inv

\* The invariant: the totals in memory are those of a book of events; the saved
\* totals agree with it and the raw files lack of it only what could not be written;
\* salts that were written are one a day, and the cutoff separates the archive from
\* live counting.
LEMMA Invariant == Spec => []IInv
<1>1. Init => IInv
  BY InitInv
<1>2. IInv /\ [Next]_vars => IInv'
  BY StepInv, StutterInv
<1> QED BY <1>1, <1>2, PTL DEF Spec

\* Types.
THEOREM TypeCorrect == Spec => []TypeOK
<1>1. IInv => TypeOK
  BY DEF IInv, Typed, TypeOK
<1> QED BY <1>1, Invariant, PTL

\* A restart at any moment shows the totals shown before it, whatever was rolled
\* over, saved, pruned or replayed, for any number of days, events and faults; on a
\* day whose totals are not saved it misses only the transmissions and transcriptions
\* whose events the process could not write.
THEOREM RestartShowsTheSame == Spec => []RestartSame
<1>1. IInv => RestartSame
  BY RestartFact
<1> QED BY <1>1, Invariant, PTL

\* No recording is counted both live, on the day it began, and from the archive,
\* unless its event could not be written.
THEOREM NoneCountedTwice == Spec => []CountedOnce
<1>1. IInv => CountedOnce
  BY CountedOnceFact
<1> QED BY <1>1, Invariant, PTL

\* Once a scan is over every recording on disk is counted, live or from the archive,
\* unless its event could not be written, the scan could not read it, or its day
\* counts transmissions of which no raw file tells.
THEOREM NoneLeftOut == Spec => []AllCounted
<1>1. IInv => AllCounted
  BY AllCountedFact
<1> QED BY <1>1, Invariant, PTL

\* On a day whose salt was written, the visitors are no more than the names under
\* which clients were seen that day, and as many if all the day's events were written.
THEOREM VisitorsCountedOnce == Spec => []VisitorsOnce
<1>1. IInv => VisitorsOnce
  BY VisitorsOnceFact
<1> QED BY <1>1, Invariant, PTL
=============================================================================
