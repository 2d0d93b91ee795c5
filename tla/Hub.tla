--------------------------------- MODULE Hub ---------------------------------
(***************************************************************************)
(* The transcriptHub of hub.go: goroutines Publish events, each of which   *)
(* is appended to the stream's log, shown to the recording index, perhaps  *)
(* archived, and then sent to the listeners' SSE connections.              *)
(*                                                                         *)
(* Publish copies the subscriber map under h.mu and sends outside it, so   *)
(* the sends of several publishers and the handlers' unsubscribes          *)
(* interleave: every send is a step, and so is the unsubscribe of a        *)
(* subscriber found too slow.                                              *)
(***************************************************************************)
EXTENDS Integers, Sequences, FiniteSets

CONSTANTS
    Subs,          \* SSE connections, each of which subscribes once
    Publishers,    \* goroutines that call Publish
    InHandler,     \* those that are HTTP handlers: net/http recovers their panics
    BufCap,        \* capacity of a subscriber's channel
    MaxEvents,     \* bound: events published in a checked instance
    KindOf,        \* KindOf[e]: "clip", "speech", "marker" or "status"
    Unwritable     \* events whose file appends fail

Events == 1..MaxEvents

ASSUME HubAssumption ==
    /\ IsFiniteSet(Subs) /\ IsFiniteSet(Publishers)
    /\ InHandler \subseteq Publishers
    /\ BufCap \in Nat \ {0} /\ MaxEvents \in Nat
    /\ KindOf \in [Events -> {"clip", "speech", "marker", "status"}]
    /\ Unwritable \subseteq Events

VARIABLES
    subs,        \* keys of h.subs
    chan,        \* each subscriber's buffered channel
    chanClosed,  \* subscribers whose channel has been closed
    handler,     \* where each connection's ServeHTTP is
    ppc,         \* where each publisher is in Publish
    event,       \* the event it publishes, 0 when idle
    targets,     \* the part of its snapshot it has not sent to yet
    slow,        \* the subscriber it is about to drop, if any
    process,     \* "up", or "crashed" by a panic outside the HTTP handlers
    log,         \* the transcript logs, in append order
    observed,    \* the events the recording index has seen, in order
    archive,     \* the transcript archive
    issued,      \* history: events published so far
    done,        \* history: events whose Publish returned
    aborted,     \* history: events whose Publish panicked
    before,      \* history: the events done when each was issued
    snapshot,    \* history: the subscribers each was meant for
    got          \* history: what each handler has taken from its channel

fileVars == <<log, observed, archive>>
subVars == <<subs, chanClosed>>
handlerVars == <<handler, got>>
callVars == <<ppc, event, targets, slow>>
histVars == <<issued, done, aborted, before, snapshot>>
vars == <<subVars, handlerVars, chan, callVars, process, fileVars, histVars>>

-----------------------------------------------------------------------------
Entries(q) == {q[i] : i \in DOMAIN q}

\* Mutant of Status: a clip without text is taken for a status event.
StatusOrClip(e) == KindOf[e] \in {"status", "clip"}

Status(e) == KindOf[e] = "status"

\* Mutant of Unsubscribe: the channel is closed but stays in h.subs.
UnsubscribeKeeping(s) ==
    /\ UNCHANGED subs
    /\ chanClosed' = chanClosed \cup {s}

\* unsubscribe: forget the subscriber and close its channel, once.
Unsubscribe(s) ==
    /\ subs' = subs \ {s}
    /\ chanClosed' = chanClosed \cup ({s} \cap subs)

\* Publish goes on at "to".
At(p, to) == ppc[p] = to /\ process = "up"
Goto(p, to) == ppc' = [ppc EXCEPT ![p] = to]

-----------------------------------------------------------------------------
(* Publish.                                                                *)

\* A status event is neither logged nor indexed.
Begin(p) ==
    /\ At(p, "idle") /\ issued < MaxEvents
    /\ issued' = issued + 1
    /\ event' = [event EXCEPT ![p] = issued + 1]
    /\ before' = [before EXCEPT ![issued + 1] = done]
    /\ Goto(p, IF Status(issued + 1) THEN "copy" ELSE "log")
    /\ UNCHANGED <<subVars, handlerVars, chan, targets, slow, process, fileVars, done, aborted, snapshot>>

\* appendLog under h.logMu; a failed write leaves nothing.
AppendLog(p) ==
    /\ At(p, "log")
    /\ log' = IF event[p] \in Unwritable THEN log ELSE Append(log, event[p])
    /\ Goto(p, "observe")
    /\ UNCHANGED <<subVars, handlerVars, chan, event, targets, slow, process, observed, archive, histVars>>

\* index.observe, told the offset in the log or -1.
Observe(p) ==
    /\ At(p, "observe")
    /\ observed' = Append(observed, event[p])
    /\ Goto(p, "archive")
    /\ UNCHANGED <<subVars, handlerVars, chan, event, targets, slow, process, log, archive, histVars>>

\* appendArchive takes what whisper heard, not clips nor bracketed markers.
AppendArchive(p) ==
    /\ At(p, "archive")
    /\ archive' = IF KindOf[event[p]] = "speech" /\ event[p] \notin Unwritable
                  THEN Append(archive, event[p]) ELSE archive
    /\ Goto(p, "copy")
    /\ UNCHANGED <<subVars, handlerVars, chan, event, targets, slow, process, log, observed, histVars>>

\* The copy of h.subs under the read lock.
CopySubs(p) ==
    /\ At(p, "copy")
    /\ targets' = [targets EXCEPT ![p] = subs]
    /\ snapshot' = [snapshot EXCEPT ![event[p]] = subs]
    /\ Goto(p, "send")
    /\ UNCHANGED <<subVars, handlerVars, chan, event, slow, process, fileVars, issued, done, aborted, before>>

\* Mutant of SendFits: status events overtake what waits in the channel.
SendFitsStatusFirst(p, s) ==
    /\ s \notin chanClosed /\ Len(chan[s]) < BufCap
    /\ chan' = [chan EXCEPT ![s] = IF Status(event[p]) THEN <<event[p]>> \o @
                                   ELSE Append(@, event[p])]
    /\ UNCHANGED <<subVars, handlerVars, ppc, event, slow, process, fileVars, histVars>>

\* The send finds room in an open channel.
SendFits(p, s) ==
    /\ s \notin chanClosed /\ Len(chan[s]) < BufCap
    /\ chan' = [chan EXCEPT ![s] = Append(@, event[p])]
    /\ UNCHANGED <<subVars, handlerVars, ppc, event, slow, process, fileVars, histVars>>

\* Mutant of SendBlocked: the event is skipped and the subscriber stays.
SendBlockedSkips(p, s) ==
    /\ s \notin chanClosed /\ Len(chan[s]) = BufCap
    /\ UNCHANGED <<subVars, handlerVars, chan, ppc, event, slow, process, fileVars, histVars>>

\* Mutant of SendBlocked: no default case, the send waits for room.
SendBlockedWaits(p, s) == FALSE

\* The default case of the send: the subscriber is too slow.
SendBlocked(p, s) ==
    /\ s \notin chanClosed /\ Len(chan[s]) = BufCap
    /\ slow' = [slow EXCEPT ![p] = {s}]
    /\ Goto(p, "drop")
    /\ UNCHANGED <<subVars, handlerVars, chan, event, process, fileVars, histVars>>

\* A send on a channel that was closed since the copy panics.
SendPanics(p, s) ==
    /\ s \in chanClosed
    /\ process' = IF p \in InHandler THEN process ELSE "crashed"
    /\ aborted' = aborted \cup {event[p]}
    /\ Goto(p, "idle")
    /\ UNCHANGED <<subVars, handlerVars, chan, event, slow, fileVars, issued, done, before, snapshot>>

\* Map order: the next target is any of those left.
Send(p) ==
    /\ At(p, "send")
    /\ \E s \in targets[p] :
          /\ targets' = [targets EXCEPT ![p] = @ \ {s}]
          /\ SendFits(p, s) \/ SendBlocked(p, s) \/ SendPanics(p, s)

DropSlow(p) ==
    /\ At(p, "drop")
    /\ \E s \in slow[p] : Unsubscribe(s)
    /\ slow' = [slow EXCEPT ![p] = {}]
    /\ Goto(p, "send")
    /\ UNCHANGED <<handlerVars, chan, event, targets, process, fileVars, histVars>>

Return(p) ==
    /\ At(p, "send") /\ targets[p] = {}
    /\ done' = done \cup {event[p]}
    /\ Goto(p, "idle")
    /\ UNCHANGED <<subVars, handlerVars, chan, event, targets, slow, process, fileVars, issued, aborted, before, snapshot>>

-----------------------------------------------------------------------------
(* ServeHTTP.                                                              *)

Subscribe(s) ==
    /\ handler[s] = "new" /\ process = "up"
    /\ subs' = subs \cup {s}
    /\ handler' = [handler EXCEPT ![s] = "serving"]
    /\ UNCHANGED <<chanClosed, got, chan, callVars, process, fileVars, histVars>>

\* An event is taken, to be written unless it is of a stream the connection
\* did not ask for; a closed channel is drained first.
Take(s) ==
    /\ handler[s] = "serving" /\ process = "up"
    /\ chan[s] # <<>>
    /\ got' = [got EXCEPT ![s] = Append(@, Head(chan[s]))]
    /\ chan' = [chan EXCEPT ![s] = Tail(@)]
    /\ UNCHANGED <<subVars, handler, callVars, process, fileVars, histVars>>

\* The client went away, or the closed channel is empty; the deferred
\* unsubscribe runs in either case.
Leave(s) ==
    /\ handler[s] = "serving" /\ process = "up"
    /\ handler' = [handler EXCEPT ![s] = "gone"]
    /\ Unsubscribe(s)
    /\ UNCHANGED <<got, chan, callVars, process, fileVars, histVars>>

-----------------------------------------------------------------------------
Init ==
    /\ subs = {} /\ chanClosed = {}
    /\ chan = [s \in Subs |-> <<>>]
    /\ handler = [s \in Subs |-> "new"] /\ got = [s \in Subs |-> <<>>]
    /\ ppc = [p \in Publishers |-> "idle"] /\ event = [p \in Publishers |-> 0]
    /\ targets = [p \in Publishers |-> {}] /\ slow = [p \in Publishers |-> {}]
    /\ process = "up"
    /\ log = <<>> /\ observed = <<>> /\ archive = <<>>
    /\ issued = 0 /\ done = {} /\ aborted = {}
    /\ before = [e \in Events |-> {}] /\ snapshot = [e \in Events |-> {}]

Continue(p) ==
    AppendLog(p) \/ Observe(p) \/ AppendArchive(p) \/ CopySubs(p) \/ Send(p) \/ DropSlow(p) \/ Return(p)

Connection(s) == Subscribe(s) \/ Take(s) \/ Leave(s)

Next ==
    \/ \E p \in Publishers : Begin(p) \/ Continue(p)
    \/ \E s \in Subs : Connection(s)

Spec == Init /\ [][Next]_vars

\* A publisher's goroutine is scheduled.  Nothing is assumed of the handlers:
\* a write to a stuck client may block its handler for good.
Fairness == \A p \in Publishers : WF_vars(Continue(p))

FairSpec == Spec /\ Fairness
-----------------------------------------------------------------------------
(* Properties.                                                             *)

Places == {"idle", "log", "observe", "archive", "copy", "send", "drop"}

\* Types and the channels' capacity; a registered channel is open.
TypeOK ==
    /\ subs \subseteq Subs /\ chanClosed \subseteq Subs \ subs
    /\ chan \in [Subs -> Seq(Events)] /\ got \in [Subs -> Seq(Events)]
    /\ \A s \in Subs : Len(chan[s]) <= BufCap
    /\ handler \in [Subs -> {"new", "serving", "gone"}]
    /\ ppc \in [Publishers -> Places] /\ event \in [Publishers -> 0..MaxEvents]
    /\ targets \in [Publishers -> SUBSET Subs] /\ slow \in [Publishers -> SUBSET Subs]
    /\ process \in {"up", "crashed"}
    /\ log \in Seq(Events) /\ observed \in Seq(Events) /\ archive \in Seq(Events)
    /\ issued \in 0..MaxEvents /\ done \subseteq 1..issued /\ aborted \subseteq 1..issued
    /\ before \in [Events -> SUBSET Events] /\ snapshot \in [Events -> SUBSET Subs]

\* What s has been sent, taken or not.
Stream(s) == got[s] \o chan[s]

\* No silent gap: once Publish has returned, every subscriber it was meant for
\* has the event or has been unsubscribed, so that the page reconnects and
\* reloads its history.
DeliveredOrDropped ==
    \A e \in done : \A s \in snapshot[e] \cap subs : e \in Entries(Stream(s))

InOrder(q) == \A i, k \in DOMAIN q : q[i] \in before[q[k]] => i < k

\* Causal order: if one Publish returned before another began (a clip's "clip"
\* event before its "transcript"), no listener, no log and no index ever has
\* the two the other way round.
CausalOrder ==
    /\ \A s \in Subs : InOrder(Stream(s))
    /\ InOrder(log) /\ InOrder(observed)

\* What a listener has been shown survives a reload of the page: it is in the
\* log and known to the index, unless its write failed.
ShownIsLogged ==
    \A s \in Subs : \A e \in Entries(got[s]) :
        KindOf[e] # "status" => e \in Entries(observed) /\ (e \in Entries(log) \/ e \in Unwritable)

\* Publish never waits for a listener, however stuck its connection is.
PublishReturns == \A p \in Publishers : ppc[p] # "idle" ~> (ppc[p] = "idle" \/ process = "crashed")

\* The comment on Publish: it sends the event to all subscribers.  One that
\* panics on the way leaves out subscribers that are still registered.
SentToAllSubscribers ==
    \A e \in done \cup aborted : \A s \in snapshot[e] \cap subs : e \in Entries(Stream(s))
=============================================================================
