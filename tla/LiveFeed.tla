------------------------------- MODULE LiveFeed -------------------------------
(***************************************************************************)
(* Live audio of one stream on an edge server, from the origin's           *)
(* broadcaster to the edge's listeners (edge.go, uplink.go, and the        *)
(* station's subscribers and taps in main.go):                             *)
(*                                                                         *)
(*   origin broadcast -> tap -> handleEdgeLive -> the uplink -> pullFeed   *)
(*     -> broadcastChan -> runBroadcaster -> listeners                     *)
(*                                                                         *)
(* superviseStation starts the feed with the first listener and ends it a  *)
(* linger after the last one left; runFeed reconnects. The uplink may fall *)
(* silent, break and come back. A reload of the origin (streams_reload.go) *)
(* may restart the station under the same ID or take it away, and the      *)
(* origin's process may restart. The stream list and the connections       *)
(* themselves are in Uplink.                                               *)
(***************************************************************************)
EXTENDS Naturals, Sequences

CONSTANTS
    Listeners,
    MaxFrames,   \* bound: frames the origin broadcasts
    TapCap,      \* capacity of a tap (256 in addTap)
    WireCap,     \* frames written to the uplink and not yet read (flow control)
    ChanCap,     \* capacity of the edge station's broadcastChan (64)
    MaxOrphans,  \* bound: handlers of abandoned requests still running
    MaxReloads   \* bound: reloads of the origin that touch the stream

ASSUME BoundsAssumption ==
    /\ MaxFrames \in Nat
    /\ TapCap \in Nat \ {0}
    /\ WireCap \in Nat \ {0}
    /\ ChanCap \in Nat \ {0}
    /\ MaxOrphans \in Nat
    /\ MaxReloads \in Nat

Feeds == {1, 2}     \* goroutines of runFeed; the supervisor uses one at a time
NoFeed == 0
NoFrame == 0
Frames == 1..MaxFrames

VARIABLES
    \* origin
    sent,        \* frames broadcast so far
    origin,      \* the station at the origin: "up"; "stopping", taken out of the
                 \* map by a reload; "ended", but still in the stream list; or
                 \* "gone" from the list too, its ID never to be used again
    reloads,     \* reloads so far that touched it
    handler,     \* per feed: "none", or handleEdgeLive is serving its request, "live"
                 \* or "late", when the station it serves has ended
    tap,         \* per feed: the tap of that handler
    orphans,     \* handlers whose request the edge has given up
    \* uplink
    link,        \* "up", "silent" (dead, not noticed) or "down"
    wire,        \* per feed: frames on their way to the edge
    cut,         \* per feed: the connection of its request is gone
    \* edge: feed goroutines
    fpc,         \* "none", "ask" (originGet), "read" or "retry" (sleepCtx)
    fcancel,     \* its context is cancelled
    hand,        \* frame read and not yet enqueued, or NoFrame
    syncNow,     \* a list sync has been requested
    \* edge: the station
    spc,         \* supervisor: "check", "select", "stopping", "ending",
                 \* "closing" or "done"
    cur,         \* the feed the supervisor started, or NoFeed
    linger,      \* the timer: "none", "armed" or "fired"
    cancelled,   \* the station's context is cancelled
    chan,        \* broadcastChan
    closed,      \* ... is closed
    subs,        \* subscribers
    changed,     \* the token in subsChanged
    heard        \* history: the latest frame each listener heard

originVars == <<sent, origin, reloads, handler, tap, orphans>>
linkVars   == <<link, wire, cut>>
feedVars   == <<fpc, fcancel, hand, syncNow>>
superVars  == <<spc, cur, linger, cancelled>>
subVars    == <<subs, changed>>
vars == <<originVars, linkVars, feedVars, superVars, chan, closed, subVars, heard>>

TypeOK ==
    /\ sent \in 0..MaxFrames
    /\ origin \in {"up", "stopping", "ended", "gone"}
    /\ reloads \in Nat
    /\ handler \in [Feeds -> {"none", "live", "late"}]
    /\ tap \in [Feeds -> Seq(Frames)]
    /\ orphans \in Nat
    /\ link \in {"up", "silent", "down"}
    /\ wire \in [Feeds -> Seq(Frames)]
    /\ cut \in [Feeds -> BOOLEAN]
    /\ fpc \in [Feeds -> {"none", "ask", "read", "retry"}]
    /\ fcancel \in [Feeds -> BOOLEAN]
    /\ hand \in [Feeds -> Frames \cup {NoFrame}]
    /\ syncNow \in BOOLEAN
    /\ spc \in {"check", "select", "stopping", "ending", "closing", "done"}
    /\ cur \in Feeds \cup {NoFeed}
    /\ linger \in {"none", "armed", "fired"}
    /\ cancelled \in BOOLEAN
    /\ chan \in Seq(Frames)
    /\ closed \in BOOLEAN
    /\ subs \subseteq Listeners
    /\ changed \in BOOLEAN
    /\ heard \in [Listeners -> 0..MaxFrames]

Init ==
    /\ sent = 0
    /\ origin = "up"
    /\ reloads = 0
    /\ handler = [f \in Feeds |-> "none"]
    /\ tap = [f \in Feeds |-> <<>>]
    /\ orphans = 0
    /\ link = "up"
    /\ wire = [f \in Feeds |-> <<>>]
    /\ cut = [f \in Feeds |-> FALSE]
    /\ fpc = [f \in Feeds |-> "none"]
    /\ fcancel = [f \in Feeds |-> FALSE]
    /\ hand = [f \in Feeds |-> NoFrame]
    /\ syncNow = FALSE
    /\ spc = "check"
    /\ cur = NoFeed
    /\ linger = "none"
    /\ cancelled = FALSE
    /\ chan = <<>>
    /\ closed = FALSE
    /\ subs = {}
    /\ changed = FALSE
    /\ heard = [l \in Listeners |-> 0]

-----------------------------------------------------------------------------
(* Origin *)

\* broadcast: a frame goes to every tap of its station that has room for it.  The
\* broadcaster of a station that has ended drains its channel.
Broadcast(kind) ==
    /\ kind = "live" => origin \in {"up", "stopping"}
    /\ kind = "late" => \E f \in Feeds : handler[f] = "late"
    /\ sent < MaxFrames
    /\ sent' = sent + 1
    /\ tap' = [f \in Feeds |->
                  IF handler[f] = kind /\ Len(tap[f]) < TapCap
                  THEN Append(tap[f], sent + 1) ELSE tap[f]]
    /\ UNCHANGED <<origin, reloads, handler, orphans, linkVars, feedVars, superVars,
                   chan, closed, subVars, heard>>

\* handleEdgeLive writes a frame of its tap to the uplink.
HandlerWrite(f) ==
    /\ handler[f] # "none" /\ ~cut[f]
    /\ link = "up"
    /\ tap[f] # <<>>
    /\ Len(wire[f]) < WireCap
    /\ wire' = [wire EXCEPT ![f] = Append(@, Head(tap[f]))]
    /\ tap' = [tap EXCEPT ![f] = Tail(@)]
    /\ UNCHANGED <<sent, origin, reloads, handler, orphans, link, cut, feedVars, superVars,
                   chan, closed, subVars, heard>>

\* ... and returns when its station has stopped or its connection is gone.
HandlerEnd(f) ==
    /\ handler[f] = "late" \/ (handler[f] = "live" /\ cut[f])
    /\ handler' = [handler EXCEPT ![f] = "none"]
    /\ tap' = [tap EXCEPT ![f] = <<>>]
    /\ UNCHANGED <<sent, origin, reloads, orphans, linkVars, feedVars, superVars,
                   chan, closed, subVars, heard>>

\* The handler of a request the edge has reset, or whose connection the origin
\* has found dead, removes its tap.
OrphanEnd ==
    /\ orphans > 0
    /\ orphans' = orphans - 1
    /\ UNCHANGED <<sent, origin, reloads, handler, tap, linkVars, feedVars, superVars,
                   chan, closed, subVars, heard>>

\* applyStreams, for a stream that is changed or removed: its station leaves the
\* map, where requests look for it, ...
Unlist ==
    /\ origin = "up" /\ reloads < MaxReloads
    /\ origin' = "stopping"
    /\ reloads' = reloads + 1
    /\ UNCHANGED <<sent, handler, tap, orphans, linkVars, feedVars, superVars,
                   chan, closed, subVars, heard>>

\* ... is stopped and closes done, ...
StationEnds ==
    /\ origin = "stopping"
    /\ origin' = "ended"
    /\ handler' = [f \in Feeds |-> IF handler[f] = "live" THEN "late" ELSE handler[f]]
    /\ UNCHANGED <<sent, reloads, tap, orphans, linkVars, feedVars, superVars,
                   chan, closed, subVars, heard>>

\* ... and starts again under its ID, if the stream was changed, ...
StationRestarts ==
    /\ origin = "ended"
    /\ origin' = "up"
    /\ UNCHANGED <<sent, reloads, handler, tap, orphans, linkVars, feedVars, superVars,
                   chan, closed, subVars, heard>>

\* ... or is missing from the new list, if it was removed or did not start.
ListWithout ==
    /\ origin = "ended"
    /\ origin' = "gone"
    /\ UNCHANGED <<sent, reloads, handler, tap, orphans, linkVars, feedVars, superVars,
                   chan, closed, subVars, heard>>

\* The origin's process ends, and with it its handlers and the connection; the next
\* one numbers its streams anew.
OriginRestarts ==
    /\ origin # "gone"
    /\ origin' = "gone"
    /\ handler' = [f \in Feeds |-> "none"]
    /\ tap' = [f \in Feeds |-> <<>>]
    /\ orphans' = 0
    /\ link' = IF link = "silent" THEN "silent" ELSE "down"
    /\ cut' = [f \in Feeds |-> cut[f] \/ (link = "up" /\ fpc[f] = "read")]
    /\ UNCHANGED <<sent, reloads, wire, feedVars, superVars, chan, closed, subVars, heard>>

\* The uplink falls silent, unnoticed at first; it breaks, or the pings find it
\* dead, and requests on it fail; the origin dials a new one.
LinkSilent ==
    /\ link = "up"
    /\ link' = "silent"
    /\ UNCHANGED <<originVars, wire, cut, feedVars, superVars, chan, closed, subVars,
                   heard>>

Break ==
    /\ link' = "down"
    /\ cut' = [f \in Feeds |-> cut[f] \/ fpc[f] = "read"]
    /\ UNCHANGED <<originVars, wire, feedVars, superVars, chan, closed, subVars, heard>>

LinkBreaks == link = "up" /\ Break

LinkFoundDead == link = "silent" /\ Break

LinkBack ==
    /\ link = "down"
    /\ link' = "up"
    /\ UNCHANGED <<originVars, wire, cut, feedVars, superVars, chan, closed, subVars,
                   heard>>

-----------------------------------------------------------------------------
(* Edge: runFeed and pullFeed *)

\* The request of f is over on the edge's side; its handler notices later.
Abandon(f) ==
    /\ handler' = [handler EXCEPT ![f] = "none"]
    /\ tap' = [tap EXCEPT ![f] = <<>>]
    /\ wire' = [wire EXCEPT ![f] = <<>>]
    /\ cut' = [cut EXCEPT ![f] = FALSE]
    /\ orphans' = IF handler[f] = "none" THEN orphans ELSE orphans + 1

\* originGet succeeds: the handler has registered its tap before it answers.
FeedConnect(f) ==
    /\ fpc[f] = "ask" /\ ~fcancel[f]
    /\ link = "up" /\ origin = "up"
    /\ orphans < MaxOrphans
    /\ fpc' = [fpc EXCEPT ![f] = "read"]
    /\ handler' = [handler EXCEPT ![f] = "live"]
    /\ UNCHANGED <<sent, origin, reloads, tap, orphans, linkVars, fcancel, hand, syncNow,
                   superVars, chan, closed, subVars, heard>>

\* Mutant of FeedRefused: a 404 is retried like any other failure.
FeedRefusedQuietly(f) ==
    /\ fpc[f] = "ask" /\ ~fcancel[f]
    /\ link = "down" \/ (link = "up" /\ origin # "up")
    /\ fpc' = [fpc EXCEPT ![f] = "retry"]
    /\ UNCHANGED <<originVars, linkVars, fcancel, hand, syncNow, superVars, chan,
                   closed, subVars, heard>>

\* originGet fails. A stream the origin does not know, for now or for good, makes the
\* edge ask for the list.
FeedRefused(f) ==
    /\ fpc[f] = "ask" /\ ~fcancel[f]
    /\ link = "down" \/ (link = "up" /\ origin # "up")
    /\ fpc' = [fpc EXCEPT ![f] = "retry"]
    /\ syncNow' = (syncNow \/ link = "up")
    /\ UNCHANGED <<originVars, linkVars, fcancel, hand, superVars, chan, closed,
                   subVars, heard>>

FeedRead(f) ==
    /\ fpc[f] = "read" /\ hand[f] = NoFrame
    /\ wire[f] # <<>>
    /\ hand' = [hand EXCEPT ![f] = Head(wire[f])]
    /\ wire' = [wire EXCEPT ![f] = Tail(@)]
    /\ UNCHANGED <<originVars, link, cut, fpc, fcancel, syncNow, superVars, chan, closed,
                   subVars, heard>>

\* enqueueBroadcast: a full channel drops the frame.
FeedEnqueue(f) ==
    /\ fpc[f] = "read" /\ hand[f] # NoFrame
    /\ chan' = IF Len(chan) < ChanCap THEN Append(chan, hand[f]) ELSE chan
    /\ hand' = [hand EXCEPT ![f] = NoFrame]
    /\ UNCHANGED <<originVars, linkVars, fpc, fcancel, syncNow, superVars, closed,
                   subVars, heard>>

\* pullFeed returns: the feed is cancelled, has stalled, lost its connection,
\* or has come to the end of what the origin sent.
FeedBreaks(f) ==
    /\ fpc[f] = "read" /\ hand[f] = NoFrame
    /\ fcancel[f] \/ cut[f] \/ link = "silent" \/ (handler[f] = "none" /\ wire[f] = <<>>)
    /\ fpc' = [fpc EXCEPT ![f] = "retry"]
    /\ Abandon(f)
    /\ UNCHANGED <<sent, origin, reloads, link, fcancel, hand, syncNow, superVars, chan,
                   closed, subVars, heard>>

\* sleepCtx is over and the feed not cancelled.
FeedRetry(f) ==
    /\ fpc[f] = "retry" /\ ~fcancel[f]
    /\ fpc' = [fpc EXCEPT ![f] = "ask"]
    /\ UNCHANGED <<originVars, linkVars, fcancel, hand, syncNow, superVars, chan,
                   closed, subVars, heard>>

\* runFeed returns and closes its done channel. A request that was being made
\* may reach the origin all the same.
FeedReturns(f) ==
    /\ fpc[f] \in {"ask", "retry"} /\ fcancel[f]
    /\ fpc' = [fpc EXCEPT ![f] = "none"]
    /\ \/ UNCHANGED orphans
       \/ /\ fpc[f] = "ask" /\ link = "up" /\ origin = "up"
          /\ orphans < MaxOrphans
          /\ orphans' = orphans + 1
    /\ fcancel' = [fcancel EXCEPT ![f] = FALSE]
    /\ UNCHANGED <<sent, origin, reloads, handler, tap, linkVars, hand, syncNow,
                   superVars, chan, closed, subVars, heard>>

\* syncLoop takes the request; a list without the stream ends the edge's station.  The
\* list of a reload in progress is the old one, and still has it.
Sync ==
    /\ syncNow
    /\ syncNow' = FALSE
    /\ cancelled' = (cancelled \/ (link = "up" /\ origin = "gone"))
    /\ UNCHANGED <<originVars, linkVars, fpc, fcancel, hand, spc, cur, linger,
                   chan, closed, subVars, heard>>

-----------------------------------------------------------------------------
(* Edge: superviseStation *)

\* go e.runFeed: the lowest free number names the goroutine.
StartFeed ==
    \E f \in Feeds :
        /\ fpc[f] = "none"
        /\ \A g \in Feeds : g < f => fpc[g] # "none"
        /\ cur' = f
        /\ fpc' = [fpc EXCEPT ![f] = "ask"]
        /\ UNCHANGED fcancel

\* Mutant of Check: a feed is started although there is one.
CheckAgain ==
    /\ spc = "check"
    /\ spc' = "select"
    /\ linger' = IF subs = {} /\ cur # NoFeed /\ linger = "none" THEN "armed" ELSE "none"
    /\ IF subs # {} THEN StartFeed ELSE UNCHANGED <<cur, fpc, fcancel>>
    /\ UNCHANGED <<originVars, linkVars, hand, syncNow, cancelled, chan, closed,
                   subVars, heard>>

\* The top of the loop: start the feed, or the linger timer, as the listeners require.
Check ==
    /\ spc = "check"
    /\ spc' = "select"
    /\ \/ /\ subs # {}
          /\ linger' = "none"
          /\ IF cur = NoFeed THEN StartFeed ELSE UNCHANGED <<cur, fpc, fcancel>>
       \/ /\ subs = {}
          /\ linger' = IF cur # NoFeed /\ linger = "none" THEN "armed" ELSE linger
          /\ UNCHANGED <<cur, fpc, fcancel>>
    /\ UNCHANGED <<originVars, linkVars, hand, syncNow, cancelled, chan, closed,
                   subVars, heard>>

\* <-st.subsChanged
WakeChanged ==
    /\ spc = "select" /\ changed
    /\ changed' = FALSE
    /\ spc' = "check"
    /\ UNCHANGED <<originVars, linkVars, feedVars, cur, linger, cancelled, chan,
                   closed, subs, heard>>

LingerFires ==
    /\ linger = "armed"
    /\ linger' = "fired"
    /\ UNCHANGED <<originVars, linkVars, feedVars, spc, cur, cancelled, chan,
                   closed, subVars, heard>>

\* <-lingerC: the feed is cancelled if still nobody listens.
WakeLinger ==
    /\ spc = "select" /\ linger = "fired"
    /\ linger' = "none"
    /\ IF subs = {}
       THEN /\ fcancel' = [fcancel EXCEPT ![cur] = TRUE]
            /\ spc' = "stopping"
       ELSE /\ spc' = "check"
            /\ UNCHANGED fcancel
    /\ UNCHANGED <<originVars, linkVars, fpc, hand, syncNow, cur, cancelled, chan,
                   closed, subVars, heard>>

\* Mutant of FeedStopped: the supervisor does not wait for the feed it has cancelled.
FeedStoppedEarly ==
    /\ spc = "stopping"
    /\ cur' = NoFeed
    /\ spc' = "check"
    /\ UNCHANGED <<originVars, linkVars, feedVars, linger, cancelled, chan, closed,
                   subVars, heard>>

\* <-feedDone in stopFeed.
FeedStopped ==
    /\ spc = "stopping"
    /\ fpc[cur] = "none"
    /\ cur' = NoFeed
    /\ spc' = "check"
    /\ UNCHANGED <<originVars, linkVars, feedVars, linger, cancelled, chan, closed,
                   subVars, heard>>

\* <-ctx.Done(): the deferred teardown starts with the timer and the feed.
WakeDone ==
    /\ spc = "select" /\ cancelled
    /\ spc' = "ending"
    /\ linger' = "none"
    /\ fcancel' = [f \in Feeds |-> fcancel[f] \/ f = cur]
    /\ UNCHANGED <<originVars, linkVars, fpc, hand, syncNow, cur, cancelled, chan,
                   closed, subVars, heard>>

\* Mutant of CloseSubscribers: nor does the teardown.
CloseSubscribersEarly ==
    /\ spc = "ending"
    /\ spc' = "closing"
    /\ cur' = NoFeed
    /\ subs' = {} /\ changed' = TRUE
    /\ UNCHANGED <<originVars, linkVars, feedVars, linger, cancelled, chan, closed,
                   heard>>

\* ... goes on to the subscribers once the feed has ended
CloseSubscribers ==
    /\ spc = "ending"
    /\ cur # NoFeed => fpc[cur] = "none"
    /\ spc' = "closing"
    /\ cur' = NoFeed
    /\ subs' = {} /\ changed' = TRUE
    /\ UNCHANGED <<originVars, linkVars, feedVars, linger, cancelled, chan, closed,
                   heard>>

\* ... and closes broadcastChan and done.
CloseStation ==
    /\ spc = "closing"
    /\ spc' = "done"
    /\ closed' = TRUE
    /\ UNCHANGED <<originVars, linkVars, feedVars, cur, linger, cancelled, chan,
                   subVars, heard>>

\* A sync that finds the stream changed, or the end of the process.
Cancel ==
    /\ ~cancelled
    /\ cancelled' = TRUE
    /\ UNCHANGED <<originVars, linkVars, feedVars, spc, cur, linger, chan, closed,
                   subVars, heard>>

-----------------------------------------------------------------------------
(* Edge: listeners and runBroadcaster *)

\* addSubscriber and notifySubscribersChanged, for an offer that found the station.
Join(l) ==
    /\ l \notin subs
    /\ subs' = subs \cup {l}
    /\ changed' = TRUE
    /\ UNCHANGED <<originVars, linkVars, feedVars, superVars, chan, closed, heard>>

\* Mutant of Leave: the supervisor is not notified.
LeaveQuietly(l) ==
    /\ l \in subs
    /\ subs' = subs \ {l}
    /\ UNCHANGED <<originVars, linkVars, feedVars, superVars, chan, closed, changed,
                   heard>>

\* removeSubscriber, for whatever reason.
Leave(l) ==
    /\ l \in subs
    /\ subs' = subs \ {l}
    /\ changed' = TRUE
    /\ UNCHANGED <<originVars, linkVars, feedVars, superVars, chan, closed, heard>>

\* runBroadcaster: the next frame goes to the subscribers that are ready, which a
\* connection may come to be, or cease to be, at any moment; one whose track cannot
\* be written is removed.
Play ==
    /\ chan # <<>>
    /\ chan' = Tail(chan)
    /\ \E ready \in SUBSET subs : \E broken \in SUBSET ready :
          /\ heard' = [l \in Listeners |->
                          IF l \in ready \ broken THEN Head(chan) ELSE heard[l]]
          /\ subs' = subs \ broken
          /\ changed' = (changed \/ broken # {})
    /\ UNCHANGED <<originVars, linkVars, feedVars, superVars, closed>>

-----------------------------------------------------------------------------

Reload == Unlist \/ StationEnds \/ StationRestarts \/ ListWithout

FeedStep(f) ==
    \/ FeedConnect(f) \/ FeedRefused(f) \/ FeedRead(f) \/ FeedEnqueue(f)
    \/ FeedBreaks(f) \/ FeedRetry(f) \/ FeedReturns(f)

Supervise ==
    \/ Check \/ WakeChanged \/ WakeLinger \/ FeedStopped
    \/ WakeDone \/ CloseSubscribers \/ CloseStation

Next ==
    \/ \E kind \in {"live", "late"} : Broadcast(kind)
    \/ \E f \in Feeds : HandlerWrite(f) \/ HandlerEnd(f)
    \/ OrphanEnd
    \/ Reload
    \/ OriginRestarts
    \/ LinkSilent
    \/ LinkBreaks
    \/ LinkBack
    \/ LinkFoundDead
    \/ \E f \in Feeds : FeedStep(f)
    \/ Sync
    \/ Supervise
    \/ LingerFires
    \/ Cancel
    \/ \E l \in Listeners : Join(l) \/ Leave(l)
    \/ Play

\* Goroutines run, timers fire, pings find a dead connection, a reload that has begun
\* goes on. Nothing is assumed of listeners, of the radio, or of the link coming back.
Fairness ==
    /\ \A f \in Feeds : WF_vars(FeedStep(f)) /\ WF_vars(HandlerEnd(f))
    /\ WF_vars(OrphanEnd)
    /\ WF_vars(StationEnds) /\ WF_vars(StationRestarts \/ ListWithout)
    /\ WF_vars(LinkFoundDead)
    /\ WF_vars(Sync)
    /\ WF_vars(Supervise)
    /\ WF_vars(LingerFires)

Spec == Init /\ [][Next]_vars
FairSpec == Spec /\ Fairness

-----------------------------------------------------------------------------
(* Properties *)

\* No feed is left that could send on the closed broadcastChan, which would
\* panic: superviseStation closes it only after the feed has returned.
NoSendOnClosed ==
    closed => \A f \in Feeds : fpc[f] = "none"

\* The edge has one request per stream at the origin, however many listeners
\* it has and however often they come and go (README "one uplink feed per stream").
OneFeed ==
    \A f, g \in Feeds : fpc[f] # "none" /\ fpc[g] # "none" => f = g

\* A listener who stays is connected through to the origin for good, if the
\* uplink stays up, unless the edge ends its station: no wakeup of the supervisor
\* is lost, no old timer ends a feed in use, a station that comes back under its
\* ID is found again, and a feed the origin refuses for good makes the edge drop
\* the station instead of retrying for ever.
Connected == \E f \in Feeds : fpc[f] = "read" /\ handler[f] = "live" /\ ~cut[f] /\ ~fcancel[f]

ListenerFed ==
    \A l \in Listeners :
        <>[](l \in subs /\ link = "up" /\ ~cancelled) => <>[]Connected

\* When nobody listens any more the origin is left without a tap, on either
\* side of a broken link.
IdleFeedStops ==
    <>[](subs = {}) => <>[](orphans = 0 /\ \A f \in Feeds : handler[f] = "none")

\* The relay keeps what live listening promises: see LiveAudio.
Promise == INSTANCE LiveAudio WITH tuned <- subs
KeepsPromise == Promise!Spec
=============================================================================
