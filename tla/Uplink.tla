-------------------------------- MODULE Uplink --------------------------------
(***************************************************************************)
(* The link between an origin and an edge server (uplink.go, edge.go). The *)
(* origin dials out (runUplink); after the upgrade the edge makes requests *)
(* through the connection (edgeTunnel). Over it the edge mirrors the       *)
(* origin's stream list (syncLoop) and relays its events                   *)
(* (relayTranscripts). Connections break, upgrades are handled             *)
(* concurrently and out of order, the origin reloads its streams or        *)
(* restarts under new stream IDs. A station's audio is in LiveFeed.        *)
(***************************************************************************)
EXTENDS Naturals, Sequences, FiniteSets

CONSTANTS
    Lists,        \* the stream lists the origin may have: functions to definitions
    MaxConns,     \* bound: connections dialled
    MaxChanges    \* bound: reloads of the origin and restarts of either side

ASSUME BoundsAssumption == MaxConns \in Nat /\ MaxChanges \in Nat

NoConn == 0
Conns == 1..MaxConns

VARIABLES
    \* origin
    epoch,       \* how often the process has been started; its stream IDs are new each time
    list,        \* the streams it runs, with their definitions
    withdrawn,   \* history: streams (by ID and definition) it no longer lists
    changes,     \* bound: reloads and restarts, of either side, so far
    dialled,     \* bound: connections dialled so far
    serving,     \* the connection runUplink serves, or NoConn
    subscribed,  \* the relay's subscription: "none", "on" or "dropped" (it was slow)
    \* connections
    open,        \* those neither end nor the network has closed
    hello,       \* those whose upgrade is answered and that are still to be attached
    \* edge
    tunnel,      \* the connection of edgeTunnel, or NoConn
    syncNow,     \* the token in syncNow
    spc,         \* syncLoop: "wait", "ask", "apply" or "stop"
    svia,        \* the connection its request went through
    answer,      \* the list it has read
    stations,    \* the stations listeners can find, by ID: what /streams shows
    stopping,    \* stations taken off the list that have not ended
    rpc,         \* relayTranscripts: "ask", "read" or "sleep"
    rvia         \* the connection its request went through

originVars  == <<epoch, list, withdrawn, changes>>
dialVars    == <<dialled, serving>>
connVars    == <<open, hello>>
syncVars    == <<spc, svia, answer>>
stationVars == <<stations, stopping>>
relayVars   == <<rpc, rvia>>
vars == <<originVars, dialVars, subscribed, connVars, tunnel, syncNow, syncVars,
          stationVars, relayVars>>

\* What the origin's /streams returns: definitions by stream ID.
Streams(e, ls) == {<<e, s, ls[s]>> : s \in DOMAIN ls}
OriginList == Streams(epoch, list)

TypeOK ==
    /\ epoch \in Nat /\ changes \in 0..MaxChanges
    /\ list \in Lists
    /\ dialled \in 0..MaxConns
    /\ serving \in Conns \cup {NoConn}
    /\ subscribed \in {"none", "on", "dropped"}
    /\ open \subseteq Conns /\ hello \subseteq Conns
    /\ tunnel \in Conns \cup {NoConn}
    /\ syncNow \in BOOLEAN
    /\ spc \in {"wait", "ask", "apply", "stop"}
    /\ svia \in Conns \cup {NoConn}
    /\ rpc \in {"ask", "read", "sleep"}
    /\ rvia \in Conns \cup {NoConn}

Init ==
    /\ epoch = 1 /\ changes = 0
    /\ list \in Lists
    /\ withdrawn = {}
    /\ dialled = 0 /\ serving = NoConn
    /\ subscribed = "none"
    /\ open = {} /\ hello = {}
    /\ tunnel = NoConn
    /\ syncNow = FALSE
    /\ spc = "wait" /\ svia = NoConn /\ answer = {}
    /\ stations = {} /\ stopping = {}
    /\ rpc = "ask" /\ rvia = NoConn

-----------------------------------------------------------------------------
(* The origin and its connections *)

\* dialUplink: the edge answers the upgrade, and the origin begins to serve.
Dial ==
    /\ serving = NoConn
    /\ dialled < MaxConns
    /\ dialled' = dialled + 1
    /\ serving' = dialled + 1
    /\ open' = open \cup {dialled + 1}
    /\ hello' = hello \cup {dialled + 1}
    /\ UNCHANGED <<originVars, subscribed, tunnel, syncNow, syncVars, stationVars,
                   relayVars>>

\* serveUplinkConn returns; runUplink dials again after its backoff.
ServeEnds ==
    /\ serving # NoConn /\ serving \notin open
    /\ serving' = NoConn
    /\ UNCHANGED <<originVars, dialled, subscribed, connVars, tunnel, syncNow, syncVars,
                   stationVars, relayVars>>

\* The network loses a connection, or a ping finds it dead.
Break ==
    /\ \E c \in open : open' = open \ {c}
    /\ UNCHANGED <<originVars, dialVars, subscribed, hello, tunnel, syncNow, syncVars,
                   stationVars, relayVars>>

\* The streams file changes and the origin applies it.
Reload ==
    /\ changes < MaxChanges
    /\ changes' = changes + 1
    /\ list' \in Lists \ {list}
    /\ withdrawn' = withdrawn \cup (OriginList \ Streams(epoch, list'))
    /\ UNCHANGED <<epoch, dialVars, subscribed, connVars, tunnel, syncNow, syncVars,
                   stationVars, relayVars>>

\* The origin's process ends, with its connections, and is started again.
Restart ==
    /\ changes < MaxChanges
    /\ changes' = changes + 1
    /\ epoch' = epoch + 1
    /\ list' \in Lists
    /\ withdrawn' = withdrawn \cup OriginList
    /\ serving' = NoConn
    /\ open' = {}
    /\ subscribed' = "none"
    /\ UNCHANGED <<dialled, hello, tunnel, syncNow, syncVars, stationVars,
                   relayVars>>

\* The hub closes the relay's subscription, which has fallen behind (see Hub).
DropRelay ==
    /\ subscribed = "on"
    /\ subscribed' = "dropped"
    /\ UNCHANGED <<originVars, dialVars, connVars, tunnel, syncNow, syncVars,
                   stationVars, relayVars>>

-----------------------------------------------------------------------------
(* Edge: handleUplink and the tunnel *)

\* Mutant of Attach: the old connection is left open.
AttachKeepsOld(c) ==
    /\ c \in hello
    /\ hello' = hello \ {c}
    /\ tunnel' = c
    /\ syncNow' = TRUE
    /\ UNCHANGED <<originVars, dialVars, subscribed, open, syncVars, stationVars,
                   relayVars>>

\* attach: the new connection replaces the old one, which is closed, and a
\* sync is requested. One that is already dead may be found so, or not.
Attach(c) ==
    /\ c \in hello
    /\ hello' = hello \ {c}
    /\ \/ /\ tunnel' = c
          /\ open' = open \ {tunnel}
          /\ syncNow' = TRUE
       \/ /\ c \notin open
          /\ UNCHANGED <<tunnel, open, syncNow>>
    /\ UNCHANGED <<originVars, dialVars, subscribed, syncVars, stationVars, relayVars>>

\* The edge's process is started again; the origin finds its connection closed.
EdgeRestart ==
    /\ changes < MaxChanges
    /\ changes' = changes + 1
    /\ open' = {} /\ hello' = {} /\ tunnel' = NoConn
    /\ syncNow' = FALSE
    /\ spc' = "wait" /\ svia' = NoConn /\ answer' = {}
    /\ stations' = {} /\ stopping' = {}
    /\ rpc' = "ask" /\ rvia' = NoConn
    /\ subscribed' = "none"
    /\ UNCHANGED <<epoch, list, withdrawn, dialVars>>

-----------------------------------------------------------------------------
(* Edge: syncLoop *)

\* The timer, or the token: the request goes through the tunnel there is.
SyncAsk(token) ==
    /\ spc = "wait"
    /\ token => syncNow
    /\ syncNow' = (syncNow /\ ~token)
    /\ IF tunnel # NoConn
       THEN spc' = "ask" /\ svia' = tunnel
       ELSE UNCHANGED <<spc, svia>>
    /\ UNCHANGED <<originVars, dialVars, subscribed, connVars, tunnel, answer,
                   stationVars, relayVars>>

SyncAnswer ==
    /\ spc = "ask" /\ svia \in open
    /\ spc' = "apply"
    /\ svia' = NoConn
    /\ answer' = OriginList
    /\ UNCHANGED <<originVars, dialVars, subscribed, connVars, tunnel, syncNow,
                   stationVars, relayVars>>

\* Mutant of SyncFails: a list that could not be read is taken for an empty one.
SyncFailsEmpty ==
    /\ spc = "ask" /\ svia \notin open
    /\ spc' = "apply"
    /\ svia' = NoConn
    /\ answer' = {}
    /\ UNCHANGED <<originVars, dialVars, subscribed, connVars, tunnel, syncNow,
                   stationVars, relayVars>>

SyncFails ==
    /\ spc = "ask" /\ svia \notin open
    /\ spc' = "wait"
    /\ svia' = NoConn
    /\ UNCHANGED <<originVars, dialVars, subscribed, connVars, tunnel, syncNow, answer,
                   stationVars, relayVars>>

\* Mutant of Apply: a station is replaced only if its ID is gone.
ApplyByID ==
    /\ spc = "apply"
    /\ stopping' = {st \in stations : \A a \in answer : a[1] # st[1] \/ a[2] # st[2]}
    /\ stations' = (stations \ stopping') \cup
                    {a \in answer : \A st \in stations : a[1] # st[1] \/ a[2] # st[2]}
    /\ spc' = IF stopping' = {} THEN "wait" ELSE "stop"
    /\ answer' = {}
    /\ UNCHANGED <<originVars, dialVars, subscribed, connVars, tunnel, syncNow, svia,
                   relayVars>>

\* applyOriginStreams: what is no longer listed, or listed otherwise, is taken
\* off the list; what is new is started; then the old stations are stopped.
Apply ==
    /\ spc = "apply"
    /\ stopping' = stations \ answer
    /\ stations' = answer
    /\ spc' = IF stopping' = {} THEN "wait" ELSE "stop"
    /\ answer' = {}
    /\ UNCHANGED <<originVars, dialVars, subscribed, connVars, tunnel, syncNow, svia,
                   relayVars>>

\* stopStation of one of them: its supervisor ends.
StationEnds ==
    /\ spc = "stop"
    /\ \E st \in stopping : stopping' = stopping \ {st}
    /\ spc' = IF stopping' = {} THEN "wait" ELSE "stop"
    /\ UNCHANGED <<originVars, dialVars, subscribed, connVars, tunnel, syncNow, svia,
                   answer, stations, relayVars>>

-----------------------------------------------------------------------------
(* Edge: relayTranscripts *)

RelayAsk ==
    /\ rpc = "ask"
    /\ IF tunnel \in open
       THEN rpc' = "read" /\ rvia' = tunnel
       ELSE rpc' = "sleep" /\ UNCHANGED rvia
    /\ UNCHANGED <<originVars, dialVars, subscribed, connVars, tunnel, syncNow, syncVars,
                   stationVars>>

\* ServeHTTP of the origin's hub subscribes after it has answered.
Subscribe ==
    /\ rpc = "read" /\ rvia \in open
    /\ subscribed = "none"
    /\ subscribed' = "on"
    /\ UNCHANGED <<originVars, dialVars, connVars, tunnel, syncNow,
                   syncVars, stationVars, relayVars>>

\* pullTranscripts returns: its connection is gone, or the origin has dropped
\* the subscription and sent what was queued.
RelayBreaks ==
    /\ rpc = "read"
    /\ rvia \notin open \/ subscribed = "dropped"
    /\ rpc' = "sleep"
    /\ rvia' = NoConn
    /\ subscribed' = "none"
    /\ UNCHANGED <<originVars, dialVars, connVars, tunnel, syncNow,
                   syncVars, stationVars>>

RelayRetries ==
    /\ rpc = "sleep"
    /\ rpc' = "ask"
    /\ UNCHANGED <<originVars, dialVars, subscribed, connVars, tunnel, syncNow, syncVars,
                   stationVars, rvia>>

-----------------------------------------------------------------------------

Next ==
    \/ Dial \/ ServeEnds \/ Break \/ Reload \/ Restart \/ EdgeRestart \/ DropRelay
    \/ \E c \in Conns : Attach(c)
    \/ \E token \in BOOLEAN : SyncAsk(token)
    \/ SyncAnswer \/ SyncFails \/ Apply \/ StationEnds
    \/ RelayAsk \/ Subscribe \/ RelayBreaks \/ RelayRetries

\* Goroutines run, timers fire, runUplink dials again. Nothing is assumed of
\* the network, which may break any connection, or of the origin's changes.
Fairness ==
    /\ WF_vars(Dial) /\ WF_vars(ServeEnds)
    /\ \A c \in Conns : WF_vars(Attach(c))
    /\ \A token \in BOOLEAN : WF_vars(SyncAsk(token))
    /\ WF_vars(SyncAnswer \/ SyncFails \/ Apply \/ StationEnds)
    /\ WF_vars(RelayAsk \/ RelayBreaks \/ RelayRetries)
    /\ WF_vars(Subscribe)

Spec == Init /\ [][Next]_vars /\ Fairness

-----------------------------------------------------------------------------
(* Properties *)

\* No connection stays open that the edge neither uses nor is about to use: the
\* origin serves each of its connections until it closes, so it would never
\* dial again while the edge sits without an origin.
NoIdleConnection ==
    open \subseteq {tunnel} \cup hello

\* While the origin cannot be reached its streams stay as they are, and their
\* listeners connected (README "connected listeners hear silence and resume"):
\* only the origin takes a stream off the edge's list, or a restart of the edge.
StaysWhileOffline ==
    [][stations \ stations' \subseteq withdrawn \/ EdgeRestart]_vars

\* A connection that lasts makes the edge show the origin's streams, relay its
\* events and have no station left that the origin does not run, whatever was
\* attached, lost or answered before.
Mirrors ==
    <>[](serving \in open) =>
        /\ <>[](stations = OriginList /\ stopping = {})
        /\ []<>(subscribed = "on")
=============================================================================
