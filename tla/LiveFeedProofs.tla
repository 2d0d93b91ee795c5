---------------------------- MODULE LiveFeedProofs ----------------------------
(* Proofs about live audio on an edge, for every set of listeners, number of *)
(* frames and capacity: one request to the origin at a time, none that       *)
(* outlives the station, and what listeners hear implements LiveAudio.       *)
EXTENDS LiveFeed, Integers, TLAPS

\* The supervisor's feed is the only one that runs, and it lets go of it only
\* once it has returned.
Supervised ==
    /\ \A f \in Feeds : fpc[f] # "none" => f = cur
    /\ closed => spc = "done"
    /\ spc \in {"closing", "done"} => cur = NoFeed
    /\ spc \in {"stopping", "ending"} => linger = "none"
    /\ spc = "stopping" \/ linger # "none" => cur # NoFeed

SuperInv == TypeOK /\ Supervised

LEMMA Bounds ==
  /\ MaxFrames \in Nat /\ TapCap \in Nat \ {0} /\ WireCap \in Nat \ {0}
  /\ ChanCap \in Nat \ {0} /\ MaxOrphans \in Nat /\ MaxReloads \in Nat
  /\ Feeds = {1, 2} /\ NoFeed = 0 /\ NoFeed \notin Feeds
  /\ NoFrame = 0 /\ NoFrame \notin Frames /\ Frames = 1..MaxFrames
BY BoundsAssumption DEF Feeds, NoFeed, NoFrame, Frames

-----------------------------------------------------------------------------
(* Sequences of frames.                                                      *)

LEMMA TailOf ==
  ASSUME NEW S, NEW s \in Seq(S), s # <<>>
  PROVE  /\ Head(s) = s[1] /\ Head(s) \in S /\ Len(s) \in Nat /\ Len(s) > 0
         /\ Tail(s) \in Seq(S) /\ Len(Tail(s)) = Len(s) - 1
         /\ \A i \in 1..Len(s) - 1 : Tail(s)[i] = s[i + 1]
OBVIOUS

LEMMA AppendOf ==
  ASSUME NEW S, NEW s \in Seq(S), NEW x \in S
  PROVE  /\ Len(s) \in Nat
         /\ Append(s, x) \in Seq(S) /\ Len(Append(s, x)) = Len(s) + 1
         /\ \A i \in 1..Len(s) : Append(s, x)[i] = s[i]
         /\ Append(s, x)[Len(s) + 1] = x
OBVIOUS

-----------------------------------------------------------------------------
(* Types.                                                                    *)

LEMMA InitSuper == Init => SuperInv
<1> SUFFICES ASSUME Init PROVE SuperInv
  OBVIOUS
<1> USE Bounds
<1>1. TypeOK
  <2>1. /\ tap \in [Feeds -> Seq(Frames)] /\ wire \in [Feeds -> Seq(Frames)]
        /\ chan \in Seq(Frames)
    BY DEF Init
  <2>2. /\ handler \in [Feeds -> {"none", "live", "late"}] /\ cut \in [Feeds -> BOOLEAN]
        /\ fcancel \in [Feeds -> BOOLEAN]
        /\ fpc \in [Feeds -> {"none", "ask", "read", "retry"}]
        /\ hand \in [Feeds -> Frames \cup {NoFrame}]
    BY DEF Init
  <2>3. heard \in [Listeners -> 0..MaxFrames] /\ sent \in 0..MaxFrames
    BY DEF Init
  <2>. QED
    BY <2>1, <2>2, <2>3 DEF Init, TypeOK
<1>2. Supervised
  BY DEF Init, Supervised
<1>. QED
  BY <1>1, <1>2 DEF SuperInv

\* The origin and the uplink.
LEMMA OriginType ==
  ASSUME TypeOK,
         \/ OrphanEnd \/ Reload \/ OriginRestarts \/ LinkSilent \/ LinkBreaks
         \/ LinkFoundDead \/ LinkBack
         \/ \E kind \in {"live", "late"} : Broadcast(kind)
         \/ \E f \in Feeds : HandlerWrite(f) \/ HandlerEnd(f)
  PROVE  TypeOK'
<1> USE Bounds
<1>1. ASSUME NEW kind \in {"live", "late"}, Broadcast(kind)
      PROVE  TypeOK'
  <2>1. sent' \in 0..MaxFrames /\ sent + 1 \in Frames
    BY <1>1 DEF Broadcast, TypeOK
  <2>2. tap' \in [Feeds -> Seq(Frames)]
    <3>1. \A f \in Feeds : tap[f] \in Seq(Frames) /\ Append(tap[f], sent + 1) \in Seq(Frames)
      BY <2>1, AppendOf DEF TypeOK
    <3>. QED
      BY <1>1, <3>1 DEF Broadcast
  <2>. QED
    BY <1>1, <2>1, <2>2
    DEF Broadcast, TypeOK, linkVars, feedVars, superVars, subVars
<1>2. CASE OrphanEnd
  BY <1>2 DEF OrphanEnd, TypeOK, linkVars, feedVars, superVars, subVars
<1>6. CASE Reload
  <2>1. handler' \in [Feeds -> {"none", "live", "late"}]
    BY <1>6 DEF Reload, Unlist, StationEnds, StationRestarts, ListWithout, TypeOK
  <2>2. origin' \in {"up", "stopping", "ended", "gone"} /\ reloads' \in Nat
    BY <1>6 DEF Reload, Unlist, StationEnds, StationRestarts, ListWithout, TypeOK
  <2>3. UNCHANGED <<sent, tap, orphans, linkVars, feedVars, superVars, chan, closed, subVars,
                    heard>>
    BY <1>6 DEF Reload, Unlist, StationEnds, StationRestarts, ListWithout
  <2>. QED
    BY <2>1, <2>2, <2>3 DEF TypeOK, linkVars, feedVars, superVars, subVars
<1>9. CASE OriginRestarts
  <2>1. /\ handler' \in [Feeds -> {"none", "live", "late"}] /\ cut' \in [Feeds -> BOOLEAN]
        /\ tap' \in [Feeds -> Seq(Frames)] /\ link' \in {"up", "silent", "down"}
    BY <1>9 DEF OriginRestarts, TypeOK
  <2>. QED
    BY <1>9, <2>1 DEF OriginRestarts, TypeOK, feedVars, superVars, subVars
<1>7. CASE LinkSilent
  BY <1>7 DEF LinkSilent, TypeOK, originVars, feedVars, superVars, subVars
<1>8. CASE LinkBack
  BY <1>8 DEF LinkBack, TypeOK, originVars, feedVars, superVars, subVars
<1>3. CASE LinkBreaks \/ LinkFoundDead
  <2>1. link' = "down" /\ cut' = [f \in Feeds |-> cut[f] \/ fpc[f] = "read"]
    BY <1>3 DEF LinkBreaks, LinkFoundDead, Break
  <2>2. cut' \in [Feeds -> BOOLEAN]
    BY <2>1
  <2>. QED
    BY <1>3, <2>1, <2>2 DEF LinkBreaks, LinkFoundDead, Break, TypeOK, originVars, feedVars,
                            superVars, subVars
<1>4. ASSUME NEW f \in Feeds, HandlerWrite(f)
      PROVE  TypeOK'
  <2>1. tap[f] \in Seq(Frames) /\ wire[f] \in Seq(Frames) /\ tap[f] # <<>>
    BY <1>4 DEF HandlerWrite, TypeOK
  <2>2. Head(tap[f]) \in Frames /\ Tail(tap[f]) \in Seq(Frames)
    BY <2>1, TailOf
  <2>3. Append(wire[f], Head(tap[f])) \in Seq(Frames)
    BY <2>1, <2>2, AppendOf
  <2>4. wire' \in [Feeds -> Seq(Frames)] /\ tap' \in [Feeds -> Seq(Frames)]
    BY <1>4, <2>2, <2>3 DEF HandlerWrite, TypeOK
  <2>. QED
    BY <1>4, <2>4 DEF HandlerWrite, TypeOK, feedVars, superVars, subVars
<1>5. ASSUME NEW f \in Feeds, HandlerEnd(f)
      PROVE  TypeOK'
  <2>1. tap' \in [Feeds -> Seq(Frames)] /\ handler' \in [Feeds -> {"none", "live", "late"}]
    BY <1>5 DEF HandlerEnd, TypeOK
  <2>. QED
    BY <1>5, <2>1 DEF HandlerEnd, TypeOK, linkVars, feedVars, superVars, subVars
<1>. QED
  BY <1>1, <1>2, <1>3, <1>4, <1>5, <1>6, <1>7, <1>8, <1>9

\* The feeds.
LEMMA FeedType ==
  ASSUME TypeOK, NEW f \in Feeds, FeedStep(f)
  PROVE  TypeOK'
<1> USE Bounds
<1>1. CASE FeedConnect(f)
  BY <1>1 DEF FeedConnect, TypeOK, linkVars, superVars, subVars
<1>2. CASE FeedRefused(f)
  BY <1>2 DEF FeedRefused, TypeOK, originVars, linkVars, superVars, subVars
<1>3. CASE FeedRead(f)
  <2>1. Head(wire[f]) \in Frames /\ Tail(wire[f]) \in Seq(Frames)
    BY <1>3, TailOf DEF FeedRead, TypeOK
  <2>2. hand' \in [Feeds -> Frames \cup {NoFrame}] /\ wire' \in [Feeds -> Seq(Frames)]
    BY <1>3, <2>1 DEF FeedRead, TypeOK
  <2>. QED
    BY <1>3, <2>2 DEF FeedRead, TypeOK, originVars, superVars, subVars
<1>4. CASE FeedEnqueue(f)
  <2>1. hand[f] \in Frames /\ chan \in Seq(Frames)
    BY <1>4 DEF FeedEnqueue, TypeOK
  <2>2. Append(chan, hand[f]) \in Seq(Frames)
    BY <2>1, AppendOf
  <2>3. chan' \in Seq(Frames) /\ hand' \in [Feeds -> Frames \cup {NoFrame}]
    BY <1>4, <2>1, <2>2 DEF FeedEnqueue, TypeOK
  <2>4. UNCHANGED <<originVars, linkVars, fpc, fcancel, syncNow, superVars, closed, subVars,
                    heard>>
    BY <1>4 DEF FeedEnqueue
  <2>. QED
    BY <2>3, <2>4 DEF TypeOK, originVars, linkVars, superVars, subVars
<1>5. CASE FeedBreaks(f)
  <2>1. /\ handler' \in [Feeds -> {"none", "live", "late"}] /\ cut' \in [Feeds -> BOOLEAN]
        /\ tap' \in [Feeds -> Seq(Frames)] /\ wire' \in [Feeds -> Seq(Frames)]
    BY <1>5 DEF FeedBreaks, Abandon, TypeOK
  <2>2. orphans' \in Nat
    BY <1>5 DEF FeedBreaks, Abandon, TypeOK
  <2>3. fpc' \in [Feeds -> {"none", "ask", "read", "retry"}]
    BY <1>5 DEF FeedBreaks, TypeOK
  <2>. QED
    BY <1>5, <2>1, <2>2, <2>3 DEF FeedBreaks, TypeOK, superVars, subVars
<1>6. CASE FeedRetry(f)
  BY <1>6 DEF FeedRetry, TypeOK, originVars, linkVars, superVars, subVars
<1>7. CASE FeedReturns(f)
  <2>1. orphans' \in Nat
    BY <1>7 DEF FeedReturns, TypeOK
  <2>. QED
    BY <1>7, <2>1 DEF FeedReturns, TypeOK, linkVars, superVars, subVars
<1>. QED
  BY <1>1, <1>2, <1>3, <1>4, <1>5, <1>6, <1>7 DEF FeedStep

\* The supervisor.
LEMMA SuperType ==
  ASSUME TypeOK, Supervise \/ LingerFires \/ Cancel \/ Sync
  PROVE  TypeOK'
<1> USE Bounds DEF TypeOK, originVars, linkVars, feedVars, superVars, subVars
<1>1. CASE Check
  BY <1>1 DEF Check, StartFeed
<1>2. CASE WakeChanged \/ FeedStopped
  BY <1>2 DEF WakeChanged, FeedStopped
<1>8. CASE CloseSubscribers
  BY <1>8 DEF CloseSubscribers
<1>9. CASE CloseStation
  BY <1>9 DEF CloseStation
<1>3. CASE WakeLinger
  BY <1>3 DEF WakeLinger
<1>4. CASE WakeDone
  BY <1>4 DEF WakeDone
<1>5. CASE LingerFires
  BY <1>5 DEF LingerFires
<1>6. CASE Cancel
  BY <1>6 DEF Cancel
<1>7. CASE Sync
  BY <1>7 DEF Sync
<1>. QED
  BY <1>1, <1>2, <1>3, <1>4, <1>5, <1>6, <1>7, <1>8, <1>9 DEF Supervise

\* The listeners.
LEMMA ListenerType ==
  ASSUME TypeOK,
         Play \/ \E l \in Listeners : Join(l) \/ Leave(l)
  PROVE  TypeOK'
<1> USE Bounds
<1>1. CASE Play
  <2>1. Head(chan) \in Frames /\ Tail(chan) \in Seq(Frames)
    BY <1>1, TailOf DEF Play, TypeOK
  <2>2. PICK ready \in SUBSET subs : \E broken \in SUBSET ready :
            /\ heard' = [l \in Listeners |->
                            IF l \in ready \ broken THEN Head(chan) ELSE heard[l]]
            /\ subs' = subs \ broken
            /\ changed' = (changed \/ broken # {})
    BY <1>1 DEF Play
  <2>3. heard' \in [Listeners -> 0..MaxFrames]
    BY <2>1, <2>2 DEF TypeOK
  <2>4. subs' \subseteq Listeners /\ changed' \in BOOLEAN
    BY <2>2 DEF TypeOK
  <2>. QED
    BY <1>1, <2>1, <2>3, <2>4 DEF Play, TypeOK, originVars, linkVars, feedVars, superVars
<1>2. ASSUME NEW l \in Listeners, Join(l) \/ Leave(l)
      PROVE  TypeOK'
  <2>1. subs' \subseteq Listeners /\ changed' \in BOOLEAN
    BY <1>2 DEF Join, Leave, TypeOK
  <2>. QED
    BY <1>2, <2>1 DEF Join, Leave, TypeOK, originVars, linkVars, feedVars, superVars
<1>. QED
  BY <1>1, <1>2
LEMMA NextType == TypeOK /\ [Next]_vars => TypeOK'
<1> SUFFICES ASSUME TypeOK, [Next]_vars PROVE TypeOK'
  OBVIOUS
<1>1. CASE UNCHANGED vars
  BY <1>1 DEF TypeOK, vars, originVars, linkVars, feedVars, superVars, subVars
<1>2. CASE Next
  BY <1>2, OriginType, FeedType, SuperType, ListenerType DEF Next
<1>. QED
  BY <1>1, <1>2

-----------------------------------------------------------------------------
(* The supervisor and its feed.                                              *)

LEMMA NextSupervised == SuperInv /\ [Next]_vars => Supervised'
<1> SUFFICES ASSUME SuperInv, [Next]_vars PROVE Supervised'
  OBVIOUS
<1> USE Bounds DEF SuperInv
<1>1. CASE UNCHANGED <<fpc, spc, cur, linger, closed>>
  BY <1>1 DEF Supervised
<1>2. CASE UNCHANGED vars
  BY <1>2, <1>1 DEF vars, feedVars, superVars
<1>3. ASSUME NEW f \in Feeds, FeedStep(f)
      PROVE  Supervised'
  <2>1. UNCHANGED <<spc, cur, linger, closed>>
    BY <1>3 DEF FeedStep, FeedConnect, FeedRefused, FeedRead, FeedEnqueue, FeedBreaks,
                FeedRetry, FeedReturns, superVars
  <2>2. \A g \in Feeds : fpc'[g] # "none" => fpc[g] # "none"
    BY <1>3 DEF FeedStep, FeedConnect, FeedRefused, FeedRead, FeedEnqueue, FeedBreaks,
                FeedRetry, FeedReturns, TypeOK
  <2>. QED
    BY <2>1, <2>2 DEF Supervised
<1>4. CASE Check
  <2>1. spc = "check" /\ spc' = "select" /\ UNCHANGED closed
    BY <1>4 DEF Check
  <2>2. CASE UNCHANGED <<cur, fpc>>
    <3>1. linger' # "none" => cur # NoFeed
      BY <1>4, <2>2 DEF Check, StartFeed, Supervised
    <3>. QED
      BY <2>1, <2>2, <3>1 DEF Supervised
  <2>3. CASE cur = NoFeed /\ linger' = "none" /\ StartFeed
    <3>1. \A g \in Feeds : fpc[g] = "none"
      BY <2>3 DEF Supervised
    <3>2. PICK f \in Feeds : cur' = f /\ fpc' = [fpc EXCEPT ![f] = "ask"]
      BY <2>3 DEF StartFeed
    <3>3. \A g \in Feeds : fpc'[g] # "none" => g = cur'
      BY <3>1, <3>2 DEF TypeOK
    <3>. QED
      BY <2>1, <2>3, <3>2, <3>3 DEF Supervised
  <2>. QED
    BY <1>4, <2>2, <2>3 DEF Check
<1>5. CASE WakeChanged
  BY <1>5 DEF WakeChanged, Supervised, feedVars
<1>6. CASE LingerFires
  BY <1>6 DEF LingerFires, Supervised, feedVars
<1>7. CASE WakeLinger
  BY <1>7 DEF WakeLinger, Supervised
<1>8. CASE FeedStopped
  <2>1. \A g \in Feeds : fpc[g] = "none"
    BY <1>8 DEF FeedStopped, Supervised
  <2>. QED
    BY <1>8, <2>1 DEF FeedStopped, Supervised, feedVars
<1>9. CASE WakeDone
  BY <1>9 DEF WakeDone, Supervised
<1>10. CASE CloseSubscribers
  <2>1. \A g \in Feeds : fpc[g] = "none"
    BY <1>10 DEF CloseSubscribers, Supervised
  <2>. QED
    BY <1>10, <2>1 DEF CloseSubscribers, Supervised, feedVars
<1>11. CASE CloseStation
  BY <1>11 DEF CloseStation, Supervised, feedVars
<1>12. CASE \/ \E kind \in {"live", "late"} : Broadcast(kind)
           \/ OrphanEnd \/ Reload \/ OriginRestarts \/ LinkSilent \/ LinkBreaks \/ LinkBack
           \/ LinkFoundDead \/ Sync \/ Cancel \/ Play
           \/ \E f \in Feeds : HandlerWrite(f) \/ HandlerEnd(f)
           \/ \E l \in Listeners : Join(l) \/ Leave(l)
  <2>1. UNCHANGED <<fpc, spc, cur, linger, closed>>
    BY <1>12
    DEF Broadcast, OrphanEnd, Reload, Unlist, StationEnds, StationRestarts,
      ListWithout, OriginRestarts, LinkSilent, LinkBreaks, LinkBack, LinkFoundDead,
        Break, Sync, Cancel, Play, HandlerWrite, HandlerEnd, Join, Leave, feedVars,
        superVars
  <2>. QED
    BY <2>1, <1>1
<1>. QED
  BY <1>2, <1>3, <1>4, <1>5, <1>6, <1>7, <1>8, <1>9, <1>10, <1>11, <1>12 DEF Next, Supervise

LEMMA SuperInvariant == Spec => []SuperInv
<1>1. SuperInv /\ [Next]_vars => SuperInv'
  BY NextType, NextSupervised DEF SuperInv
<1>. QED
  BY <1>1, InitSuper, PTL DEF Spec

\* Types, for every set of listeners, number of frames and capacity.
THEOREM FeedTypeCorrect == Spec => []TypeOK
<1>1. SuperInv => TypeOK
  BY DEF SuperInv
<1>. QED
  BY <1>1, SuperInvariant, PTL

\* superviseStation never has two requests for its stream under way.
THEOREM OneFeedOnly == Spec => []OneFeed
<1>1. SuperInv => OneFeed
  BY DEF SuperInv, Supervised, OneFeed
<1>. QED
  BY <1>1, SuperInvariant, PTL

\* No goroutine is left that could send on broadcastChan once it is closed.
THEOREM NeverSendsOnClosed == Spec => []NoSendOnClosed
<1>1. SuperInv => NoSendOnClosed
  BY Bounds DEF SuperInv, Supervised, NoSendOnClosed
<1>. QED
  BY <1>1, SuperInvariant, PTL

-----------------------------------------------------------------------------
(* The order of frames.  What is on its way to the listeners, at whatever     *)
(* stage, comes in the order it was broadcast, and after all they have heard. *)

Rising(s) == \A i, j \in 1..Len(s) : i < j => s[i] < s[j]
Before(s, t) == \A i \in 1..Len(s), j \in 1..Len(t) : s[i] < t[j]
Below(s, x) == \A i \in 1..Len(s) : s[i] < x
Above(x, s) == \A i \in 1..Len(s) : x < s[i]

LEMMA NothingInOrder ==
  ASSUME NEW t, NEW x
  PROVE  /\ Rising(<<>>) /\ Before(<<>>, t) /\ Before(t, <<>>)
         /\ Below(<<>>, x) /\ Above(x, <<>>)
BY DEF Rising, Before, Below, Above

LEMMA TailInOrder ==
  ASSUME NEW s \in Seq(Int), s # <<>>
  PROVE  /\ Head(s) \in Int /\ Tail(s) \in Seq(Int)
         /\ Rising(s) => Rising(Tail(s)) /\ Above(Head(s), Tail(s))
         /\ \A t : Before(s, t) => Before(Tail(s), t) /\ Above(Head(s), t)
         /\ \A t : Before(t, s) => Before(t, Tail(s)) /\ Below(t, Head(s))
         /\ \A x : Below(s, x) => Below(Tail(s), x) /\ Head(s) < x
         /\ \A x : Above(x, s) => Above(x, Tail(s)) /\ x < Head(s)
<1> DEFINE r == Tail(s)
           n == Len(s)
<1>1. /\ Head(s) = s[1] /\ n \in Nat /\ n > 0 /\ r \in Seq(Int) /\ Len(r) = n - 1
      /\ \A i \in 1..n - 1 : r[i] = s[i + 1]
      /\ s[1] \in Int
  BY TailOf
<1>2. /\ 1 \in 1..n /\ \A i \in 1..n - 1 : i + 1 \in 1..n /\ 1 < i + 1
      /\ \A i, j \in 1..n - 1 : i < j => i + 1 < j + 1
  BY <1>1
<1> HIDE DEF r
<1>3. Rising(s) => Rising(r) /\ Above(s[1], r)
  BY <1>1, <1>2 DEF Rising, Above
<1>4. \A t : Before(s, t) => Before(r, t) /\ Above(s[1], t)
  BY <1>1, <1>2 DEF Before, Above
<1>5. \A t : Before(t, s) => Before(t, r) /\ Below(t, s[1])
  BY <1>1, <1>2 DEF Before, Below
<1>6. \A x : Below(s, x) => Below(r, x) /\ s[1] < x
  BY <1>1, <1>2 DEF Below
<1>7. \A x : Above(x, s) => Above(x, r) /\ x < s[1]
  BY <1>1, <1>2 DEF Above
<1>. QED
  BY <1>1, <1>3, <1>4, <1>5, <1>6, <1>7 DEF r

LEMMA AppendInOrder ==
  ASSUME NEW s \in Seq(Int), NEW x \in Int
  PROVE  /\ Append(s, x) \in Seq(Int)
         /\ Rising(s) /\ Below(s, x) => Rising(Append(s, x))
         /\ \A t : Before(s, t) /\ Above(x, t) => Before(Append(s, x), t)
         /\ \A t : Before(t, s) /\ Below(t, x) => Before(t, Append(s, x))
         /\ \A y : Below(s, y) /\ x < y => Below(Append(s, x), y)
         /\ \A y : Above(y, s) /\ y < x => Above(y, Append(s, x))
<1> DEFINE r == Append(s, x)
           n == Len(s)
<1>1. /\ n \in Nat /\ r \in Seq(Int) /\ Len(r) = n + 1
      /\ \A i \in 1..n : r[i] = s[i]
      /\ r[n + 1] = x
  BY AppendOf
<1>2. /\ \A i \in 1..n + 1 : i \in 1..n \/ i = n + 1
      /\ \A i, j \in 1..n + 1 : i < j => i \in 1..n
  BY <1>1
<1> HIDE DEF r
<1>3. Rising(s) /\ Below(s, x) => Rising(r)
  BY <1>1, <1>2 DEF Rising, Below
<1>4. \A t : Before(s, t) /\ Above(x, t) => Before(r, t)
  BY <1>1, <1>2 DEF Before, Above
<1>5. \A t : Before(t, s) /\ Below(t, x) => Before(t, r)
  BY <1>1, <1>2 DEF Before, Below
<1>6. \A y : Below(s, y) /\ x < y => Below(r, y)
  BY <1>1, <1>2 DEF Below
<1>7. \A y : Above(y, s) /\ y < x => Above(y, r)
  BY <1>1, <1>2 DEF Above
<1>. QED
  BY <1>1, <1>3, <1>4, <1>5, <1>6, <1>7 DEF r

LEMMA BelowMore ==
  ASSUME NEW s \in Seq(Int), NEW x \in Int, NEW y \in Int, x < y, Below(s, x)
  PROVE  Below(s, y)
<1>1. \A i \in 1..Len(s) : s[i] \in Int /\ s[i] < x
  BY DEF Below
<1>. QED
  BY <1>1 DEF Below

LEMMA FramesAreInts ==
  /\ \A s : s \in Seq(Frames) => s \in Seq(Int)
  /\ Frames \subseteq Int
BY Bounds

\* Only a feed that reads has a handler, and only a handler has a tap.
Idle ==
    \A f \in Feeds :
        /\ fpc[f] # "read" => handler[f] = "none" /\ wire[f] = <<>> /\ hand[f] = NoFrame
        /\ handler[f] = "none" => tap[f] = <<>>

\* The frames of s come after those in broadcastChan and those that were heard.
Ahead(s) ==
    /\ Rising(s)
    /\ Below(s, sent + 1)
    /\ Before(chan, s)
    /\ \A l \in Listeners : Above(heard[l], s)

InOrderOf(f) ==
    /\ Ahead(wire[f])
    /\ Ahead(tap[f])
    /\ Before(wire[f], tap[f])

HandInOrder(f) ==
    hand[f] # NoFrame =>
        /\ hand[f] < sent + 1
        /\ Below(chan, hand[f])
        /\ \A l \in Listeners : heard[l] < hand[f]
        /\ Above(hand[f], wire[f])
        /\ Above(hand[f], tap[f])

StationInOrder ==
    /\ Rising(chan)
    /\ Below(chan, sent + 1)
    /\ \A l \in Listeners : heard[l] < sent + 1 /\ Above(heard[l], chan)

InOrder ==
    /\ StationInOrder
    /\ \A f \in Feeds : InOrderOf(f) /\ HandInOrder(f)

RelayInv == SuperInv /\ Idle /\ InOrder

LEMMA NextIdle == SuperInv /\ Idle /\ [Next]_vars => Idle'
<1> SUFFICES ASSUME SuperInv, Idle, [Next]_vars PROVE Idle'
  OBVIOUS
<1> USE DEF SuperInv
<1>1. CASE UNCHANGED <<fpc, handler, tap, wire, hand>>
  BY <1>1 DEF Idle
<1>2. CASE UNCHANGED vars
  BY <1>2, <1>1 DEF vars, feedVars, originVars, linkVars
<1>3. ASSUME NEW kind \in {"live", "late"}, Broadcast(kind) PROVE Idle'
  BY <1>3 DEF Broadcast, Idle, TypeOK, linkVars, feedVars
<1>4. ASSUME NEW f \in Feeds, HandlerWrite(f) PROVE Idle'
  <2>1. fpc[f] = "read" /\ handler[f] # "none"
    BY <1>4 DEF HandlerWrite, Idle
  <2>2. \A g \in Feeds : g # f => wire'[g] = wire[g] /\ tap'[g] = tap[g]
    BY <1>4 DEF HandlerWrite, TypeOK
  <2>3. UNCHANGED <<fpc, handler, hand>>
    BY <1>4 DEF HandlerWrite, feedVars
  <2>. QED
    BY <2>1, <2>2, <2>3 DEF Idle
<1>5. ASSUME NEW f \in Feeds, HandlerEnd(f) PROVE Idle'
  BY <1>5 DEF HandlerEnd, Idle, TypeOK, linkVars, feedVars
<1>6. ASSUME NEW f \in Feeds, FeedConnect(f) PROVE Idle'
  BY <1>6 DEF FeedConnect, Idle, TypeOK, linkVars
<1>7. ASSUME NEW f \in Feeds, FeedRefused(f) \/ FeedRetry(f) \/ FeedReturns(f) PROVE Idle'
  <2>1. UNCHANGED <<handler, tap, wire, hand>>
    BY <1>7 DEF FeedRefused, FeedRetry, FeedReturns, originVars, linkVars
  <2>2. \A g \in Feeds : fpc'[g] # "read" => fpc[g] # "read"
    BY <1>7 DEF FeedRefused, FeedRetry, FeedReturns, TypeOK
  <2>. QED
    BY <2>1, <2>2 DEF Idle
<1>8. ASSUME NEW f \in Feeds, FeedRead(f) \/ FeedEnqueue(f) PROVE Idle'
  <2>1. fpc[f] = "read" /\ UNCHANGED <<fpc, handler, tap>>
    BY <1>8 DEF FeedRead, FeedEnqueue, originVars
  <2>2. \A g \in Feeds : g # f => wire'[g] = wire[g] /\ hand'[g] = hand[g]
    BY <1>8 DEF FeedRead, FeedEnqueue, TypeOK, linkVars
  <2>. QED
    BY <2>1, <2>2 DEF Idle
<1>9. ASSUME NEW f \in Feeds, FeedBreaks(f) PROVE Idle'
  <2>1. handler'[f] = "none" /\ tap'[f] = <<>> /\ wire'[f] = <<>> /\ hand[f] = NoFrame
    BY <1>9 DEF FeedBreaks, Abandon, TypeOK
  <2>2. \A g \in Feeds : g # f =>
            /\ handler'[g] = handler[g] /\ tap'[g] = tap[g]
            /\ wire'[g] = wire[g] /\ fpc'[g] = fpc[g]
    BY <1>9 DEF FeedBreaks, Abandon, TypeOK
  <2>3. UNCHANGED hand
    BY <1>9 DEF FeedBreaks
  <2>. QED
    BY <2>1, <2>2, <2>3 DEF Idle
<1>10. CASE Check
  <2>1. UNCHANGED <<handler, tap, wire, hand>>
    BY <1>10 DEF Check, originVars, linkVars
  <2>2. \A g \in Feeds : fpc'[g] # "read" => fpc[g] # "read"
    BY <1>10 DEF Check, StartFeed, TypeOK
  <2>. QED
    BY <2>1, <2>2 DEF Idle
<1>13. CASE Reload \/ OriginRestarts
  <2>1. UNCHANGED <<fpc, wire, hand>>
    BY <1>13 DEF Reload, Unlist, StationEnds, StationRestarts, ListWithout, OriginRestarts,
                 feedVars, linkVars
  <2>2. \A g \in Feeds :
            /\ handler[g] = "none" => handler'[g] = "none"
            /\ \/ tap'[g] = tap[g] /\ (handler'[g] = "none" <=> handler[g] = "none")
               \/ tap'[g] = <<>>
    BY <1>13 DEF Reload, Unlist, StationEnds, StationRestarts, ListWithout, OriginRestarts,
                 TypeOK, Idle
  <2>. QED
    BY <2>1, <2>2 DEF Idle
<1>11. CASE \/ OrphanEnd \/ LinkSilent \/ LinkBreaks \/ LinkBack
            \/ LinkFoundDead \/ Sync \/ Cancel \/ Play \/ LingerFires
            \/ \E l \in Listeners : Join(l) \/ Leave(l)
  BY <1>11, <1>1
  DEF OrphanEnd, Reload, Unlist, StationEnds, StationRestarts,
      ListWithout, OriginRestarts, LinkSilent, LinkBreaks, LinkBack, LinkFoundDead, Break,
      Sync, Cancel, Play, LingerFires, Join, Leave, feedVars, originVars, linkVars
<1>12. CASE \/ WakeChanged \/ WakeLinger \/ FeedStopped \/ WakeDone \/ CloseSubscribers
            \/ CloseStation
  BY <1>12, <1>1
  DEF WakeChanged, WakeLinger, FeedStopped, WakeDone, CloseSubscribers, CloseStation,
      feedVars, originVars, linkVars
<1>. QED
  BY <1>2, <1>3, <1>4, <1>5, <1>6, <1>7, <1>8, <1>9, <1>10, <1>11, <1>12,
     <1>13
  DEF Next, Supervise, FeedStep

LEMMA DataTypes ==
  ASSUME TypeOK
  PROVE  /\ sent \in Nat /\ chan \in Seq(Int) /\ chan \in Seq(Frames)
         /\ \A l \in Listeners : heard[l] \in Nat
         /\ \A f \in Feeds : wire[f] \in Seq(Int) /\ tap[f] \in Seq(Int) /\ hand[f] \in Nat
<1>1. chan \in Seq(Frames) /\ \A f \in Feeds : wire[f] \in Seq(Frames) /\ tap[f] \in Seq(Frames)
  BY DEF TypeOK
<1>2. sent \in Nat /\ \A l \in Listeners : heard[l] \in Nat
  BY Bounds DEF TypeOK
<1>3. \A f \in Feeds : hand[f] \in Nat
  BY Bounds DEF TypeOK
<1>. QED
  BY <1>1, <1>2, <1>3, FramesAreInts

\* The radio goes on.
LEMMA BroadcastInOrder ==
  ASSUME RelayInv, NEW kind \in {"live", "late"}, Broadcast(kind)
  PROVE  InOrder'
<1> USE DataTypes DEF RelayInv, SuperInv
<1>1. /\ sent' = sent + 1 /\ sent + 1 < sent' + 1 /\ sent + 1 \in Int /\ sent' + 1 \in Int
      /\ UNCHANGED <<chan, heard, wire, hand>>
  BY DEF Broadcast, linkVars, feedVars
<1>2. /\ Below(chan, sent' + 1) /\ \A l \in Listeners : heard[l] < sent' + 1
      /\ \A f \in Feeds : Below(wire[f], sent' + 1) /\ Below(tap[f], sent' + 1)
  <2>1. /\ Below(chan, sent + 1) /\ \A l \in Listeners : heard[l] < sent + 1
        /\ \A f \in Feeds : Below(wire[f], sent + 1) /\ Below(tap[f], sent + 1)
    BY DEF InOrder, StationInOrder, InOrderOf, Ahead
  <2>. QED
    BY <1>1, <2>1, BelowMore
<1>3. StationInOrder'
  BY <1>1, <1>2 DEF InOrder, StationInOrder
<1>4. ASSUME NEW f \in Feeds
      PROVE  InOrderOf(f)' /\ HandInOrder(f)'
  <2>1. InOrderOf(f) /\ HandInOrder(f) /\ StationInOrder
    BY DEF InOrder
  <2>2. tap'[f] = tap[f] \/ tap'[f] = Append(tap[f], sent + 1)
    BY DEF Broadcast, TypeOK
  <2>3. Ahead(wire[f])'
    BY <1>1, <1>2, <2>1 DEF InOrderOf, Ahead
  <2>4. CASE tap'[f] = tap[f]
    <3>1. InOrderOf(f)'
      BY <1>1, <1>2, <2>1, <2>3, <2>4 DEF InOrderOf, Ahead
    <3>2. HandInOrder(f)'
      BY <1>1, <2>1, <2>4 DEF HandInOrder
    <3>. QED
      BY <3>1, <3>2
  <2>5. CASE tap'[f] = Append(tap[f], sent + 1)
    <3> DEFINE s == Append(tap[f], sent + 1)
    <3>1. /\ Rising(s)
          /\ Below(tap[f], sent' + 1) /\ sent + 1 < sent' + 1 => Below(s, sent' + 1)
          /\ \A t : Before(t, tap[f]) /\ Below(t, sent + 1) => Before(t, s)
          /\ \A y : Above(y, tap[f]) /\ y < sent + 1 => Above(y, s)
      BY <1>1, <2>1, AppendInOrder DEF InOrderOf, Ahead
    <3>2. tap'[f] = s
      BY <2>5
    <3> HIDE DEF s
    <3>3. Below(s, sent' + 1)
      BY <3>1, <1>1, <1>2
    <3>4. Before(chan, s) /\ \A l \in Listeners : Above(heard[l], s)
      BY <3>1, <2>1 DEF InOrderOf, Ahead, StationInOrder
    <3>5. Before(wire[f], s)
      BY <3>1, <2>1 DEF InOrderOf, Ahead
    <3>6. InOrderOf(f)'
      BY <1>1, <3>1, <3>2, <3>3, <3>4, <3>5, <2>3 DEF InOrderOf, Ahead
    <3>7. HandInOrder(f)'
      BY <1>1, <2>1, <3>1, <3>2 DEF HandInOrder
    <3>. QED
      BY <3>6, <3>7
  <2>. QED
    BY <2>2, <2>4, <2>5
<1>. QED
  BY <1>3, <1>4 DEF InOrder

\* A frame goes from the tap to the uplink.
LEMMA WriteInOrder ==
  ASSUME RelayInv, NEW f \in Feeds, HandlerWrite(f)
  PROVE  InOrder'
<1> USE DataTypes DEF RelayInv, SuperInv
<1> DEFINE x == Head(tap[f])
           s == Append(wire[f], x)
           t == Tail(tap[f])
<1>1. /\ UNCHANGED <<sent, chan, heard, hand>> /\ tap[f] # <<>>
      /\ wire'[f] = s /\ tap'[f] = t
      /\ \A g \in Feeds : g # f => wire'[g] = wire[g] /\ tap'[g] = tap[g]
  BY DEF HandlerWrite, TypeOK, feedVars
<1>2. /\ x \in Int /\ t \in Seq(Int)
      /\ Rising(tap[f]) => Rising(t) /\ Above(x, t)
      /\ \A u : Before(u, tap[f]) => Before(u, t) /\ Below(u, x)
      /\ \A y : Below(tap[f], y) => Below(t, y) /\ x < y
      /\ \A y : Above(y, tap[f]) => Above(y, t) /\ y < x
  BY <1>1, TailInOrder
<1>3. /\ Rising(wire[f]) /\ Below(wire[f], x) => Rising(s)
      /\ \A u : Before(wire[f], u) /\ Above(x, u) => Before(s, u)
      /\ \A u : Before(u, wire[f]) /\ Below(u, x) => Before(u, s)
      /\ \A y : Below(wire[f], y) /\ x < y => Below(s, y)
      /\ \A y : Above(y, wire[f]) /\ y < x => Above(y, s)
  BY <1>2, AppendInOrder
<1> HIDE DEF x, s, t
<1>4. InOrderOf(f) /\ HandInOrder(f)
  BY DEF InOrder
<1>5. Ahead(s) /\ Ahead(t) /\ Before(s, t)
  BY <1>2, <1>3, <1>4 DEF InOrderOf, Ahead
<1>6. hand[f] # NoFrame => Above(hand[f], s) /\ Above(hand[f], t)
  BY <1>2, <1>3, <1>4 DEF HandInOrder
<1>7. InOrderOf(f)' /\ HandInOrder(f)'
  BY <1>1, <1>4, <1>5, <1>6 DEF InOrderOf, HandInOrder, Ahead
<1>8. ASSUME NEW g \in Feeds, g # f PROVE InOrderOf(g)' /\ HandInOrder(g)'
  BY <1>1, <1>8 DEF InOrder, InOrderOf, HandInOrder, Ahead
<1>9. StationInOrder'
  BY <1>1 DEF InOrder, StationInOrder
<1>. QED
  BY <1>7, <1>8, <1>9 DEF InOrder

\* A feed takes a frame from the uplink.
LEMMA ReadInOrder ==
  ASSUME RelayInv, NEW f \in Feeds, FeedRead(f)
  PROVE  InOrder'
<1> USE DataTypes DEF RelayInv, SuperInv
<1> DEFINE x == Head(wire[f])
           s == Tail(wire[f])
<1>1. /\ UNCHANGED <<sent, chan, heard, tap>> /\ wire[f] # <<>>
      /\ wire'[f] = s /\ hand'[f] = x
      /\ \A g \in Feeds : g # f => wire'[g] = wire[g] /\ hand'[g] = hand[g]
  BY DEF FeedRead, TypeOK, originVars
<1>2. /\ x \in Int /\ s \in Seq(Int)
      /\ Rising(wire[f]) => Rising(s) /\ Above(x, s)
      /\ \A u : Before(wire[f], u) => Before(s, u) /\ Above(x, u)
      /\ \A u : Before(u, wire[f]) => Before(u, s) /\ Below(u, x)
      /\ \A y : Below(wire[f], y) => Below(s, y) /\ x < y
      /\ \A y : Above(y, wire[f]) => Above(y, s) /\ y < x
  BY <1>1, TailInOrder
<1> HIDE DEF x, s
<1>3. InOrderOf(f)
  BY DEF InOrder
<1>4. Ahead(s) /\ Before(s, tap[f])
  BY <1>2, <1>3 DEF InOrderOf, Ahead
<1>5. /\ x < sent + 1 /\ Below(chan, x) /\ \A l \in Listeners : heard[l] < x
      /\ Above(x, s) /\ Above(x, tap[f])
  BY <1>2, <1>3 DEF InOrderOf, Ahead
<1>6. InOrderOf(f)' /\ HandInOrder(f)'
  BY <1>1, <1>3, <1>4, <1>5 DEF InOrderOf, HandInOrder, Ahead
<1>7. ASSUME NEW g \in Feeds, g # f PROVE InOrderOf(g)' /\ HandInOrder(g)'
  BY <1>1, <1>7 DEF InOrder, InOrderOf, HandInOrder, Ahead
<1>8. StationInOrder'
  BY <1>1 DEF InOrder, StationInOrder
<1>. QED
  BY <1>6, <1>7, <1>8 DEF InOrder

\* ... and hands it to the broadcaster. No other feed has anything to deliver.
LEMMA EnqueueInOrder ==
  ASSUME RelayInv, NEW f \in Feeds, FeedEnqueue(f)
  PROVE  InOrder'
<1> USE DataTypes DEF RelayInv, SuperInv
<1> DEFINE x == hand[f]
           s == Append(chan, x)
<1>1. /\ UNCHANGED <<sent, heard, wire, tap>> /\ fpc[f] = "read" /\ hand[f] # NoFrame
      /\ hand'[f] = NoFrame
      /\ \A g \in Feeds : g # f => hand'[g] = hand[g]
      /\ chan' = s \/ chan' = chan
  BY DEF FeedEnqueue, TypeOK, originVars, linkVars
<1>2. /\ Rising(chan) /\ Below(chan, x) => Rising(s)
      /\ \A u : Before(chan, u) /\ Above(x, u) => Before(s, u)
      /\ \A y : Below(chan, y) /\ x < y => Below(s, y)
      /\ \A y : Above(y, chan) /\ y < x => Above(y, s)
      /\ x \in Int
  BY AppendInOrder
<1> HIDE DEF s
<1>3. InOrderOf(f) /\ HandInOrder(f) /\ StationInOrder
  BY DEF InOrder
<1>4. /\ x < sent + 1 /\ Below(chan, x) /\ \A l \in Listeners : heard[l] < x
      /\ Above(x, wire[f]) /\ Above(x, tap[f])
  BY <1>1, <1>3 DEF HandInOrder
<1> HIDE DEF x
<1>5. /\ Rising(s) /\ Below(s, sent + 1) /\ \A l \in Listeners : Above(heard[l], s)
      /\ Before(s, wire[f]) /\ Before(s, tap[f])
  BY <1>2, <1>3, <1>4 DEF StationInOrder, InOrderOf, Ahead
<1>6. StationInOrder'
  BY <1>1, <1>3, <1>5 DEF StationInOrder
<1>7. InOrderOf(f)' /\ HandInOrder(f)'
  BY <1>1, <1>3, <1>5 DEF InOrderOf, HandInOrder, Ahead
<1>8. ASSUME NEW g \in Feeds, g # f PROVE InOrderOf(g)' /\ HandInOrder(g)'
  <2>1. fpc[g] = "none"
    BY <1>1, <1>8 DEF Supervised
  <2>2. wire[g] = <<>> /\ tap[g] = <<>> /\ hand[g] = NoFrame
    BY <2>1 DEF Idle
  <2>3. wire'[g] = <<>> /\ tap'[g] = <<>> /\ hand'[g] = NoFrame
    BY <2>2, <1>1, <1>8
  <2>. QED
    BY <2>3, NothingInOrder DEF InOrderOf, HandInOrder, Ahead
<1>. QED
  BY <1>6, <1>7, <1>8 DEF InOrder

\* A request that ends takes what it had not delivered with it.
LEMMA EndInOrder ==
  ASSUME RelayInv, NEW f \in Feeds, HandlerEnd(f) \/ FeedBreaks(f)
  PROVE  InOrder'
<1> USE DataTypes DEF RelayInv, SuperInv
<1>1. /\ UNCHANGED <<sent, chan, heard, hand>>
      /\ tap'[f] = <<>> /\ wire'[f] \in {wire[f], <<>>}
      /\ \A g \in Feeds : g # f => wire'[g] = wire[g] /\ tap'[g] = tap[g]
  BY DEF HandlerEnd, FeedBreaks, Abandon, TypeOK, feedVars, linkVars
<1>2. InOrderOf(f)' /\ HandInOrder(f)'
  BY <1>1, NothingInOrder DEF InOrder, InOrderOf, HandInOrder, Ahead
<1>3. ASSUME NEW g \in Feeds, g # f PROVE InOrderOf(g)' /\ HandInOrder(g)'
  BY <1>1, <1>3 DEF InOrder, InOrderOf, HandInOrder, Ahead
<1>4. StationInOrder'
  BY <1>1 DEF InOrder, StationInOrder
<1>. QED
  BY <1>2, <1>3, <1>4 DEF InOrder

LEMMA OriginEndInOrder ==
  ASSUME RelayInv, OriginRestarts
  PROVE  InOrder'
<1>1. UNCHANGED <<sent, chan, heard, hand, wire>> /\ \A f \in Feeds : tap'[f] = <<>>
  BY DEF OriginRestarts, feedVars
<1>2. ASSUME NEW f \in Feeds PROVE InOrderOf(f)' /\ HandInOrder(f)'
  BY <1>1, NothingInOrder DEF RelayInv, InOrder, InOrderOf, HandInOrder, Ahead
<1>3. StationInOrder'
  BY <1>1 DEF RelayInv, InOrder, StationInOrder
<1>. QED
  BY <1>2, <1>3 DEF InOrder

\* The next frame reaches the listeners.
LEMMA PlayInOrder ==
  ASSUME RelayInv, Play
  PROVE  InOrder'
<1> USE DataTypes DEF RelayInv, SuperInv
<1> DEFINE x == Head(chan)
           s == Tail(chan)
<1>1. /\ UNCHANGED <<sent, wire, tap, hand>> /\ chan # <<>> /\ chan' = s
      /\ \A l \in Listeners : heard'[l] \in {heard[l], x}
  BY DEF Play, originVars, linkVars, feedVars
<1>2. /\ x \in Int /\ s \in Seq(Int)
      /\ Rising(chan) => Rising(s) /\ Above(x, s)
      /\ \A u : Before(chan, u) => Before(s, u) /\ Above(x, u)
      /\ \A y : Below(chan, y) => Below(s, y) /\ x < y
      /\ \A y : Above(y, chan) => Above(y, s) /\ y < x
  BY <1>1, TailInOrder
<1> HIDE DEF x, s
<1>3. StationInOrder'
  BY <1>1, <1>2 DEF InOrder, StationInOrder
<1>4. ASSUME NEW f \in Feeds PROVE InOrderOf(f)' /\ HandInOrder(f)'
  <2>1. InOrderOf(f) /\ HandInOrder(f)
    BY DEF InOrder
  <2>2. Ahead(wire[f])' /\ Ahead(tap[f])'
    BY <1>1, <1>2, <2>1 DEF InOrderOf, Ahead
  <2>3. HandInOrder(f)'
    BY <1>1, <1>2, <2>1 DEF HandInOrder
  <2>. QED
    BY <1>1, <2>1, <2>2, <2>3 DEF InOrderOf
<1>. QED
  BY <1>3, <1>4 DEF InOrder

LEMMA NextInOrder == RelayInv /\ [Next]_vars => InOrder'
<1> SUFFICES ASSUME RelayInv, [Next]_vars PROVE InOrder'
  OBVIOUS
<1>1. ASSUME UNCHANGED <<sent, chan, heard, wire, tap, hand>> PROVE InOrder'
  BY <1>1 DEF RelayInv, InOrder, StationInOrder, InOrderOf, HandInOrder, Ahead
<1>2. CASE UNCHANGED vars
  BY <1>2, <1>1 DEF vars, feedVars, originVars, linkVars
<1>3. ASSUME NEW f \in Feeds,
             FeedConnect(f) \/ FeedRefused(f) \/ FeedRetry(f) \/ FeedReturns(f)
      PROVE  InOrder'
  BY <1>1, <1>3 DEF FeedConnect, FeedRefused, FeedRetry, FeedReturns, originVars, linkVars
<1>4. CASE \/ OrphanEnd \/ Reload \/ LinkSilent \/ LinkBreaks \/ LinkBack
           \/ LinkFoundDead \/ Sync \/ Cancel \/ LingerFires
           \/ \E l \in Listeners : Join(l) \/ Leave(l)
  BY <1>4, <1>1
  DEF OrphanEnd, Reload, Unlist, StationEnds, StationRestarts,
      ListWithout, OriginRestarts, LinkSilent, LinkBreaks, LinkBack, LinkFoundDead, Break,
      Sync, Cancel, LingerFires, Join, Leave, feedVars, originVars, linkVars
<1>5. CASE \/ Check \/ WakeChanged \/ WakeLinger \/ FeedStopped \/ WakeDone
           \/ CloseSubscribers \/ CloseStation
  BY <1>5, <1>1
  DEF Check, WakeChanged, WakeLinger, FeedStopped, WakeDone, CloseSubscribers,
      CloseStation, feedVars, originVars, linkVars
<1>6. CASE \/ \E kind \in {"live", "late"} : Broadcast(kind)
           \/ Play \/ OriginRestarts
  BY <1>6, BroadcastInOrder, PlayInOrder, OriginEndInOrder
<1>7. ASSUME NEW f \in Feeds, \/ HandlerWrite(f) \/ HandlerEnd(f) \/ FeedRead(f)
                              \/ FeedEnqueue(f) \/ FeedBreaks(f)
      PROVE  InOrder'
  BY <1>7, WriteInOrder, EndInOrder, ReadInOrder, EnqueueInOrder
<1>. QED
  BY <1>2, <1>3, <1>4, <1>5, <1>6, <1>7 DEF Next, Supervise, FeedStep

LEMMA InitRelay == Init => RelayInv
<1> SUFFICES ASSUME Init PROVE RelayInv
  OBVIOUS
<1>1. Idle
  BY DEF Init, Idle
<1>2. InOrder
  <2>1. StationInOrder
    BY NothingInOrder DEF Init, StationInOrder
  <2>2. ASSUME NEW f \in Feeds PROVE InOrderOf(f) /\ HandInOrder(f)
    BY NothingInOrder DEF Init, InOrderOf, HandInOrder, Ahead
  <2>. QED
    BY <2>1, <2>2 DEF InOrder
<1>. QED
  BY <1>1, <1>2, InitSuper DEF RelayInv

LEMMA RelayInvariant == Spec => []RelayInv
<1>1. RelayInv /\ [Next]_vars => RelayInv'
  BY NextType, NextSupervised, NextIdle, NextInOrder DEF RelayInv, SuperInv
<1>. QED
  BY <1>1, InitRelay, PTL DEF Spec

-----------------------------------------------------------------------------
(* The refinement.                                                           *)

LEMMA StepKeepsPromise == RelayInv /\ [Next]_vars => [Promise!Next]_(Promise!vars)
<1> SUFFICES ASSUME RelayInv, [Next]_vars
             PROVE  Promise!Next \/ UNCHANGED <<sent, subs, heard>>
  BY DEF Promise!vars
<1> USE DataTypes DEF RelayInv, SuperInv
<1>1. ASSUME NEW kind \in {"live", "late"}, Broadcast(kind)
      PROVE  Promise!Next
  BY <1>1 DEF Broadcast, subVars, Promise!Next, Promise!Broadcast
<1>2. ASSUME NEW l \in Listeners, Join(l)
      PROVE  Promise!Next
  BY <1>2 DEF Join, originVars, Promise!Next, Promise!TuneIn
<1>3. ASSUME NEW l \in Listeners, Leave(l)
      PROVE  Promise!Next
  BY <1>3 DEF Leave, originVars, Promise!Next, Promise!Leave
<1>4. CASE CloseSubscribers
  BY <1>4 DEF CloseSubscribers, originVars, Promise!Next, Promise!Leave
<1>5. CASE Play
  <2> DEFINE x == Head(chan)
  <2>1. PICK ready \in SUBSET subs : \E broken \in SUBSET ready :
            /\ heard' = [l \in Listeners |->
                            IF l \in ready \ broken THEN Head(chan) ELSE heard[l]]
            /\ subs' = subs \ broken
    BY <1>5 DEF Play
  <2>2. chan # <<>> /\ sent' = sent /\ Head(chan) \in Frames
    BY <1>5, TailOf DEF Play, originVars
  <2>3. x < sent + 1 /\ \A l \in Listeners : heard[l] < x
    BY <2>2, TailInOrder DEF InOrder, StationInOrder
  <2>4. x \in 1..sent
    BY <2>2, <2>3, Bounds
  <2>5. ready \subseteq subs /\ subs' \subseteq subs
    BY <2>1
  <2>6. heard' \in [Listeners -> Nat]
    BY <2>1, <2>4
  <2>7. \A l \in Listeners :
            heard'[l] # heard[l] => l \in subs /\ heard'[l] = x /\ x > heard[l]
    BY <2>1, <2>3, <2>4, <2>5
  <2>8. Promise!Hear(x)
    BY <2>1, <2>2, <2>6, <2>7 DEF Promise!Hear
  <2>. QED
    BY <2>4, <2>8 DEF Promise!Next
<1>6. CASE UNCHANGED vars
  BY <1>6 DEF vars, originVars, subVars
<1>7. ASSUME NEW f \in Feeds, HandlerWrite(f) \/ HandlerEnd(f) \/ FeedStep(f)
      PROVE  UNCHANGED <<sent, subs, heard>>
  BY <1>7 DEF HandlerWrite, HandlerEnd, FeedStep, FeedConnect, FeedRefused, FeedRead,
              FeedEnqueue, FeedBreaks, FeedRetry, FeedReturns, originVars, subVars
<1>8. CASE \/ OrphanEnd \/ Reload \/ OriginRestarts \/ LinkSilent \/ LinkBreaks \/ LinkBack
           \/ LinkFoundDead \/ Sync \/ Cancel \/ LingerFires
  BY <1>8
  DEF OrphanEnd, Reload, Unlist, StationEnds, StationRestarts,
      ListWithout, OriginRestarts, LinkSilent, LinkBreaks, LinkBack, LinkFoundDead, Break,
      Sync, Cancel, LingerFires, originVars, subVars
<1>9. CASE \/ Check \/ WakeChanged \/ WakeLinger \/ FeedStopped \/ WakeDone \/ CloseStation
  BY <1>9 DEF Check, WakeChanged, WakeLinger, FeedStopped, WakeDone, CloseStation,
              originVars, subVars
<1>. QED
  BY <1>1, <1>2, <1>3, <1>4, <1>5, <1>6, <1>7, <1>8, <1>9 DEF Next, Supervise

\* A listener on an edge hears frames only while tuned in, in the order the
\* radio sent them, none twice: the relay implements LiveAudio.
THEOREM RelayKeepsPromise == Spec => KeepsPromise
<1>1. Init => Promise!Init
  BY DEF Init, Promise!Init
<1>. QED
  BY <1>1, RelayInvariant, StepKeepsPromise, PTL DEF Spec, KeepsPromise, Promise!Spec
=============================================================================
