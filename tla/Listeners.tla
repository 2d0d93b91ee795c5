------------------------------ MODULE Listeners ------------------------------
(***************************************************************************)
(* The WebRTC listeners of main.go: handleOffer looks a station up, opens  *)
(* a peer connection, adds it to the station's subscribers, opens its      *)
(* analytics session, hooks the state callback and stores the leave token; *)
(* meanwhile the station may be stopped by a reload, which disconnects the *)
(* subscribers it has at that moment.                                      *)
(*                                                                         *)
(* The callback of a connection that failed or was closed runs in a        *)
(* goroutine of its own, so it is a step of its own.  A connection closed  *)
(* before handleOffer has set the hook gets no callback.                   *)
(***************************************************************************)
EXTENDS Integers, FiniteSets

CONSTANTS
    Stations,    \* station objects, started and stopped by reloads
    Listeners    \* offers, each of which opens at most one connection

VARIABLES
    at,          \* where the goroutine of each station is
    id,          \* the stream ID a station was started under
    subs,        \* s.subscribers of each station
    made,        \* s.nextID of each station
    hpc,         \* where the handler of each offer is
    home,        \* the station it found
    peer,        \* its peerID: the stream ID and a number
    conn,        \* its peer connection
    ready,       \* listeners whose subscriber is marked ready
    calls,       \* state callbacks of each connection that have yet to run
    leases,      \* listeners whose leave token is stored
    sessions,    \* analytics.peers: the listener each open session belongs to
    misended     \* history: listeners whose session another's callback ended

stationVars == <<at, id>>
offerVars == <<hpc, home, peer>>
recordVars == <<leases, sessions, misended>>
listenerVars == <<subs, made, offerVars, conn, ready, calls, recordVars>>

\* No station, for the listeners that found none.
CONSTANT NoStation

ASSUME ListenersAssumption == NoStation \notin Stations

Serving == {"running", "cancelled", "released", "closing"}

Open(l) == conn[l] \in {"new", "connected", "disconnected", "failed"}

Hooked(l) == hpc[l] \in {"registered", "leased", "answered", "refused"}

-----------------------------------------------------------------------------
\* pc.Close on the open ones among ls; the callback follows where it is set.
Close(ls) ==
    LET Closing == {l \in ls : Open(l)} IN
    /\ conn' = [l \in Listeners |-> IF l \in Closing THEN "closed" ELSE conn[l]]
    /\ calls' = [l \in Listeners |-> IF l \in Closing /\ Hooked(l) THEN calls[l] \cup {"closed"} ELSE calls[l]]

\* removeSubscriber: the connection is closed only if it was still there.
RemoveSubscriber(l) ==
    /\ subs' = [subs EXCEPT ![home[l]] = @ \ {l}]
    /\ Close({l} \cap subs[home[l]])

\* Mutant of CloseSubscribers: the map is replaced, the connections stay open.
CloseSubscribersQuietly(s) ==
    /\ subs' = [subs EXCEPT ![s] = {}]
    /\ UNCHANGED <<conn, calls>>

\* closeSubscribers, once the station's ingest has returned.
CloseSubscribers(s) ==
    /\ subs' = [subs EXCEPT ![s] = {}]
    /\ Close(subs[s])

\* analytics.ListenEnded: whatever session is open under the peer ID ends.
ListenEnded(l) ==
    LET Ended == {x \in sessions : x[1] = peer[l]} IN
    /\ sessions' = sessions \ Ended
    /\ misended' = misended \cup ({x[2] : x \in Ended} \ {l})

-----------------------------------------------------------------------------
(* handleOffer.                                                            *)

\* stationByID among the listed stations.
Lookup(l, s) ==
    /\ hpc[l] = "idle"
    /\ hpc' = [hpc EXCEPT ![l] = "found"]
    /\ home' = [home EXCEPT ![l] = s]
    /\ UNCHANGED <<stationVars, subs, made, peer, conn, ready, calls, recordVars>>

\* NewPeerConnection and addSubscriber: the peer number is the station's own.
AddSubscriber(l) ==
    LET s == home[l] IN
    /\ hpc[l] = "found"
    /\ hpc' = [hpc EXCEPT ![l] = "added"]
    /\ conn' = [conn EXCEPT ![l] = "new"]
    /\ made' = [made EXCEPT ![s] = @ + 1]
    /\ peer' = [peer EXCEPT ![l] = <<id[s], made[s] + 1>>]
    /\ subs' = [subs EXCEPT ![s] = @ \cup {l}]
    /\ UNCHANGED <<stationVars, home, ready, calls, recordVars>>

\* One of the two failed.
GiveUp(l) ==
    /\ hpc[l] = "found"
    /\ hpc' = [hpc EXCEPT ![l] = "refused"]
    /\ UNCHANGED <<stationVars, subs, made, home, peer, conn, ready, calls, recordVars>>

\* ListenStart, then OnConnectionStateChange.
Register(l) ==
    /\ hpc[l] = "added"
    /\ hpc' = [hpc EXCEPT ![l] = "registered"]
    /\ sessions' = {x \in sessions : x[1] # peer[l]} \cup {<<peer[l], l>>}
    /\ UNCHANGED <<stationVars, subs, made, home, peer, conn, ready, calls, leases, misended>>

Lease(l) ==
    /\ hpc[l] = "registered"
    /\ hpc' = [hpc EXCEPT ![l] = "leased"]
    /\ leases' = leases \cup {l}
    /\ UNCHANGED <<stationVars, subs, made, home, peer, conn, ready, calls, sessions, misended>>

\* The descriptions are exchanged and the answer is written.
Answer(l) ==
    /\ hpc[l] = "leased" /\ Open(l)
    /\ hpc' = [hpc EXCEPT ![l] = "answered"]
    /\ UNCHANGED <<stationVars, subs, made, home, peer, conn, ready, calls, recordVars>>

\* One of those steps failed, as it must on a closed connection.
Refuse(l) ==
    /\ hpc[l] = "leased"
    /\ hpc' = [hpc EXCEPT ![l] = "refused"]
    /\ RemoveSubscriber(l)
    /\ UNCHANGED <<stationVars, made, home, peer, ready, recordVars>>

-----------------------------------------------------------------------------
(* The connection.                                                         *)

\* markSubscriberReady, if the subscriber is still there.
Connect(l) ==
    /\ hpc[l] = "answered" /\ conn[l] \in {"new", "disconnected"}
    /\ conn' = [conn EXCEPT ![l] = "connected"]
    /\ ready' = ready \cup ({l} \cap subs[home[l]])
    /\ UNCHANGED <<stationVars, subs, made, offerVars, calls, recordVars>>

Disconnect(l) ==
    /\ conn[l] = "connected"
    /\ conn' = [conn EXCEPT ![l] = "disconnected"]
    /\ ready' = ready \ {l}
    /\ UNCHANGED <<stationVars, subs, made, offerVars, calls, recordVars>>

\* ICE gives up.
Fail(l) ==
    /\ hpc[l] = "answered" /\ conn[l] \in {"new", "disconnected"}
    /\ conn' = [conn EXCEPT ![l] = "failed"]
    /\ calls' = [calls EXCEPT ![l] = @ \cup {"failed"}]
    /\ UNCHANGED <<stationVars, subs, made, offerVars, ready, recordVars>>

\* The callback for "failed" or "closed".
Callback(l, state) ==
    /\ state \in calls[l]
    /\ LET Dropped == {l} \cap subs[home[l]] \cap {k \in Listeners : Open(k)} IN
       /\ subs' = [subs EXCEPT ![home[l]] = @ \ {l}]
       /\ conn' = [conn EXCEPT ![l] = IF l \in Dropped THEN "closed" ELSE @]
       /\ calls' = [calls EXCEPT ![l] = (@ \ {state}) \cup (IF l \in Dropped THEN {"closed"} ELSE {})]
    /\ ready' = ready \ {l}
    /\ leases' = leases \ {l}
    /\ ListenEnded(l)
    /\ UNCHANGED <<stationVars, made, offerVars>>

\* handleListenLeave with a token that is still stored.
Leave(l) ==
    /\ hpc[l] = "answered" /\ l \in leases
    /\ leases' = leases \ {l}
    /\ ready' = ready \ {l}
    /\ RemoveSubscriber(l)
    /\ UNCHANGED <<stationVars, made, offerVars, sessions, misended>>

-----------------------------------------------------------------------------
InitListeners ==
    /\ subs = [s \in Stations |-> {}] /\ made = [s \in Stations |-> 0]
    /\ hpc = [l \in Listeners |-> "idle"] /\ home = [l \in Listeners |-> NoStation]
    /\ peer = [l \in Listeners |-> <<0, 0>>]
    /\ conn = [l \in Listeners |-> "none"] /\ ready = {}
    /\ calls = [l \in Listeners |-> {}]
    /\ leases = {} /\ sessions = {} /\ misended = {}

Handler(l) == AddSubscriber(l) \/ GiveUp(l) \/ Register(l) \/ Lease(l) \/ Answer(l) \/ Refuse(l)

Connection(l) == Connect(l) \/ Disconnect(l) \/ Fail(l) \/ Leave(l)

-----------------------------------------------------------------------------
(* Properties.                                                             *)

\* Types, and the subscriber maps hold connections of their own station.
ListenersTypeOK ==
    /\ subs \in [Stations -> SUBSET Listeners] /\ made \in [Stations -> Nat]
    /\ hpc \in [Listeners -> {"idle", "found", "added", "registered", "leased", "answered", "refused"}]
    /\ home \in [Listeners -> Stations \cup {NoStation}]
    /\ conn \in [Listeners -> {"none", "new", "connected", "disconnected", "failed", "closed"}]
    /\ calls \in [Listeners -> SUBSET {"failed", "closed"}]
    /\ ready \subseteq Listeners /\ leases \subseteq Listeners /\ misended \subseteq Listeners
    /\ \A s \in Stations : \A l \in subs[s] : home[l] = s /\ Open(l)
    /\ \A l \in ready : conn[l] \in {"connected", "closed"}

\* No connection leaks: one that is open is always a subscriber of its
\* station, so that a stop, a failure or the leave beacon can close it.
NoLeakedConnection == \A l \in Listeners : Open(l) => l \in subs[home[l]]

Orphan(l) == Open(l) /\ at[home[l]] = "done"

\* The README on reloads: listeners of a changed or removed stream are
\* disconnected.  None stays connected to a station that has stopped.
StoppedDisconnects == \A l \in Listeners : Orphan(l) ~> ~ Orphan(l)

\* The comment on ListenEnded: it records the end of a listener's connection.
\* No listener's session is ended by the end of another's connection.
OwnSessionEnds == misended = {}
=============================================================================
