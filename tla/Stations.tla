------------------------------- MODULE Stations -------------------------------
(***************************************************************************)
(* Reloading the streams file, streams_reload.go: watchStreamConfig polls  *)
(* the file and applyStreams makes the running stations match it, while    *)
(* listeners come and go (module Listeners).                               *)
(*                                                                         *)
(* The watcher is one goroutine.  It reads the file twice before it acts   *)
(* and once more to load it; it unlists in one critical section, stops     *)
(* stations one by one, each time waiting for the station's goroutine, and *)
(* starts the rest one by one.  The order in which it starts them is left  *)
(* open.  The end of the process is no step: nothing survives it.          *)
(***************************************************************************)
EXTENDS Listeners

CONSTANTS
    Keys,             \* streams: state, forest and name
    Contents,         \* what the streams file may hold
    Valid,            \* those that pass validation
    Defines,          \* Defines[c]: the definition of each stream in a valid c
    Port,             \* Port[d]: the UDP port of a definition
    Missing,          \* the file cannot be read
    NoContent,        \* no read yet
    EditsDuringLoad,  \* whether the file may be saved between check and load
    MaxEdits          \* bound: saves, and ports taken by other programs

Defs == UNION {{Defines[c][k] : k \in DOMAIN Defines[c]} : c \in Valid}
Ports == {Port[d] : d \in Defs}

\* A valid file names no port twice; there are station objects enough for all
\* streams, and some file has a stream.
ASSUME StationsAssumption ==
    /\ IsFiniteSet(Keys) /\ Defs # {}
    /\ \E f \in [Keys -> Stations] : \A j, k \in Keys : f[j] = f[k] => j = k
    /\ Valid \subseteq Contents /\ Missing \notin Contents /\ NoContent \notin Contents \cup {Missing}
    /\ \A c \in Valid : /\ DOMAIN Defines[c] \subseteq Keys
                        /\ \A j, k \in DOMAIN Defines[c] : Port[Defines[c][j]] = Port[Defines[c][k]] => j = k
    /\ EditsDuringLoad \in BOOLEAN /\ MaxEdits \in Nat

VARIABLES
    file,      \* what is on the disk
    edits,     \* saves and seized ports so far
    taken,     \* ports other programs hold
    wpc,       \* where the watcher is
    seen,      \* the content of its last read
    applied,   \* the content it last acted on
    retryAt,   \* whether it is to retry streams that failed
    wanted,    \* the definitions it loaded
    key, def,  \* the stream of each station, and its definition
    byKey,     \* s.streamsByKey, and s.streams likewise
    doomed,    \* stations it has unlisted and is to stop
    reuse,     \* IDs of changed streams, 0 for none
    todo,      \* streams it has not come to yet
    listing,   \* the streams it has found running or has started
    failed,    \* whether one failed to start
    groups,    \* s.stateGroups: what pages are told, as pairs of stream and ID
    lastID     \* streamIDs handed out

watchVars == <<seen, applied, retryAt>>
diskVars == <<file, edits, taken>>
runVars == <<key, def, byKey>>
applyVars == <<wanted, doomed, reuse, todo, listing, failed>>
vars == <<stationVars, listenerVars, diskVars, wpc, watchVars, applyVars, runVars, groups, lastID>>

-----------------------------------------------------------------------------
Listed == {byKey[k] : k \in Keys} \ {NoStation}

\* Sockets are closed before the clip in progress is flushed.
Holding(s) == at[s] \in {"running", "cancelled"}

InUse(p) == p \in taken \/ \E s \in Stations : Holding(s) /\ Port[def[s]] = p

\* A station object that is not in use, nor remembered by any listener.
Fresh(s) == at[s] = "done" /\ \A l \in Listeners : home[l] # s

\* Mutant of Differs: every stream named in the file is restarted.
DiffersAlways(k) == byKey[k] # NoStation /\ k \in DOMAIN wanted

\* The running definition of stream k is not the one wanted.
Differs(k) == byKey[k] # NoStation /\ k \in DOMAIN wanted /\ wanted[k] # def[byKey[k]]

Removed(k) == byKey[k] # NoStation /\ k \notin DOMAIN wanted

-----------------------------------------------------------------------------
(* The surroundings.                                                       *)

Save(c) ==
    /\ edits < MaxEdits /\ c # file
    /\ EditsDuringLoad \/ wpc # "load"
    /\ file' = c /\ edits' = edits + 1
    /\ UNCHANGED <<stationVars, listenerVars, taken, wpc, watchVars, applyVars, runVars, groups, lastID>>

Seize(p) ==
    /\ edits < MaxEdits /\ ~ InUse(p)
    /\ taken' = taken \cup {p} /\ edits' = edits + 1
    /\ UNCHANGED <<stationVars, listenerVars, file, wpc, watchVars, applyVars, runVars, groups, lastID>>

Free(p) ==
    /\ p \in taken
    /\ taken' = taken \ {p}
    /\ UNCHANGED <<stationVars, listenerVars, file, edits, wpc, watchVars, applyVars, runVars, groups, lastID>>

-----------------------------------------------------------------------------
(* watchStreamConfig.                                                      *)

\* A readable file that differs from the last read.
ReadChange ==
    /\ wpc = "sleep" /\ file # Missing /\ file # seen
    /\ seen' = file
    /\ UNCHANGED <<stationVars, listenerVars, diskVars, wpc, applied, retryAt, applyVars, runVars, groups, lastID>>

\* Mutant of Decide: no retry once the content has been applied.
DecideOnce ==
    /\ wpc = "sleep" /\ file # Missing /\ file = seen
    /\ file # applied
    /\ applied' = file /\ retryAt' = FALSE
    /\ wpc' = "load"
    /\ UNCHANGED <<stationVars, listenerVars, diskVars, seen, applyVars, runVars, groups, lastID>>

\* The second identical read of something new, or the retry is due.
Decide ==
    /\ wpc = "sleep" /\ file # Missing /\ file = seen
    /\ file # applied \/ retryAt
    /\ applied' = file /\ retryAt' = FALSE
    /\ wpc' = "load"
    /\ UNCHANGED <<stationVars, listenerVars, diskVars, seen, applyVars, runVars, groups, lastID>>

\* load reads the file once more; what it rejects is not tried again.
Load ==
    /\ wpc = "load"
    /\ IF file \in Valid
       THEN wanted' = Defines[file] /\ wpc' = "unlist"
       ELSE wpc' = "sleep" /\ UNCHANGED wanted
    /\ UNCHANGED <<stationVars, listenerVars, diskVars, watchVars, doomed, reuse, todo, listing, failed, runVars, groups, lastID>>

-----------------------------------------------------------------------------
(* applyStreams.                                                           *)

\* Mutant of Unlist: a changed stream stays listed until it is restarted.
UnlistRemoved ==
    /\ wpc = "unlist"
    /\ doomed' = {byKey[k] : k \in {j \in Keys : Differs(j) \/ Removed(j)}}
    /\ reuse' = [k \in Keys |-> IF Differs(k) THEN id[byKey[k]] ELSE 0]
    /\ byKey' = [k \in Keys |-> IF Removed(k) THEN NoStation ELSE byKey[k]]
    /\ wpc' = "stop"
    /\ UNCHANGED <<stationVars, listenerVars, diskVars, watchVars, wanted, todo, listing, failed, key, def, groups, lastID>>

\* The critical section that unlists what is to stop.
Unlist ==
    /\ wpc = "unlist"
    /\ doomed' = {byKey[k] : k \in {j \in Keys : Differs(j) \/ Removed(j)}}
    /\ reuse' = [k \in Keys |-> IF Differs(k) THEN id[byKey[k]] ELSE 0]
    /\ byKey' = [k \in Keys |-> IF Differs(k) \/ Removed(k) THEN NoStation ELSE byKey[k]]
    /\ wpc' = "stop"
    /\ UNCHANGED <<stationVars, listenerVars, diskVars, watchVars, wanted, todo, listing, failed, key, def, groups, lastID>>

\* stopStation cancels the next one ...
Cancel(s) ==
    /\ wpc = "stop" /\ s \in doomed /\ at[s] = "running"
    /\ \A t \in doomed : at[t] = "running"
    /\ at' = [at EXCEPT ![s] = "cancelled"]
    /\ UNCHANGED <<id, listenerVars, diskVars, wpc, watchVars, applyVars, runVars, groups, lastID>>

\* Mutant of AwaitDone: stopStation does not wait for the goroutine.
AwaitCancelled(s) ==
    /\ wpc = "stop" /\ s \in doomed /\ at[s] # "running"
    /\ doomed' = doomed \ {s}
    /\ UNCHANGED <<stationVars, listenerVars, diskVars, wpc, watchVars, wanted, reuse, todo, listing, failed, runVars, groups, lastID>>

\* ... and waits for its goroutine to be done.
AwaitDone(s) ==
    /\ wpc = "stop" /\ s \in doomed /\ at[s] = "done"
    /\ doomed' = doomed \ {s}
    /\ UNCHANGED <<stationVars, listenerVars, diskVars, wpc, watchVars, wanted, reuse, todo, listing, failed, runVars, groups, lastID>>

AllStopped ==
    /\ wpc = "stop" /\ doomed = {}
    /\ todo' = DOMAIN wanted /\ listing' = {} /\ failed' = FALSE
    /\ wpc' = "start"
    /\ UNCHANGED <<stationVars, listenerVars, diskVars, watchVars, wanted, doomed, reuse, runVars, groups, lastID>>

\* An unchanged stream is only listed.
Keep(k) ==
    /\ wpc = "start" /\ k \in todo /\ byKey[k] # NoStation
    /\ listing' = listing \cup {<<k, id[byKey[k]]>>}
    /\ todo' = todo \ {k}
    /\ UNCHANGED <<stationVars, listenerVars, diskVars, wpc, watchVars, wanted, doomed, reuse, failed, runVars, groups, lastID>>

\* startStation binds the port and starts the goroutine; an ID that a start
\* which failed used up is given to the next one here.
Start(k) ==
    /\ wpc = "start" /\ k \in todo /\ byKey[k] = NoStation
    /\ ~ InUse(Port[wanted[k]]) /\ \E s \in Stations : Fresh(s)
    /\ LET new == IF reuse[k] # 0 THEN reuse[k] ELSE lastID + 1
           s == CHOOSE t \in Stations : Fresh(t) IN
       /\ at' = [at EXCEPT ![s] = "running"]
       /\ id' = [id EXCEPT ![s] = new]
       /\ made' = [made EXCEPT ![s] = 0]
       /\ key' = [key EXCEPT ![s] = k]
       /\ def' = [def EXCEPT ![s] = wanted[k]]
       /\ byKey' = [byKey EXCEPT ![k] = s]
       /\ listing' = listing \cup {<<k, new>>}
       /\ lastID' = IF reuse[k] # 0 THEN lastID ELSE new
    /\ todo' = todo \ {k}
    /\ UNCHANGED <<subs, offerVars, conn, ready, calls, recordVars, diskVars, wpc, watchVars, wanted, doomed, reuse, failed, groups>>

\* Mutant of StartFails: a stream that failed is listed for the pages.
StartFailsListed(k) ==
    /\ wpc = "start" /\ k \in todo /\ byKey[k] = NoStation
    /\ InUse(Port[wanted[k]])
    /\ failed' = TRUE
    /\ listing' = listing \cup {<<k, reuse[k]>>}
    /\ todo' = todo \ {k}
    /\ UNCHANGED <<stationVars, listenerVars, diskVars, wpc, watchVars, wanted, doomed, reuse, runVars, groups, lastID>>

\* The port is held: the others go on.
StartFails(k) ==
    /\ wpc = "start" /\ k \in todo /\ byKey[k] = NoStation
    /\ InUse(Port[wanted[k]])
    /\ failed' = TRUE
    /\ todo' = todo \ {k}
    /\ UNCHANGED <<stationVars, listenerVars, diskVars, wpc, watchVars, wanted, doomed, reuse, listing, runVars, groups, lastID>>

\* The pages' list is replaced, and the watcher sleeps until the next tick.
Applied ==
    /\ wpc = "start" /\ todo = {}
    /\ groups' = listing
    /\ retryAt' = failed
    /\ wpc' = "sleep"
    /\ UNCHANGED <<stationVars, listenerVars, diskVars, seen, applied, applyVars, runVars, lastID>>

Watcher ==
    \/ ReadChange \/ Decide \/ Load \/ Unlist \/ AllStopped \/ Applied
    \/ \E s \in Stations : Cancel(s) \/ AwaitDone(s)
    \/ \E k \in Keys : Keep(k) \/ Start(k) \/ StartFails(k)

-----------------------------------------------------------------------------
(* A station's goroutine, once cancelled.                                  *)

Release(s) ==
    /\ at[s] = "cancelled"
    /\ at' = [at EXCEPT ![s] = "released"]
    /\ UNCHANGED <<id, listenerVars, diskVars, wpc, watchVars, applyVars, runVars, groups, lastID>>

DisconnectAll(s) ==
    /\ at[s] = "released"
    /\ at' = [at EXCEPT ![s] = "closing"]
    /\ CloseSubscribers(s)
    /\ UNCHANGED <<id, made, offerVars, ready, recordVars, diskVars, wpc, watchVars, applyVars, runVars, groups, lastID>>

Done(s) ==
    /\ at[s] = "closing"
    /\ at' = [at EXCEPT ![s] = "done"]
    /\ UNCHANGED <<id, listenerVars, diskVars, wpc, watchVars, applyVars, runVars, groups, lastID>>

Goroutine(s) == Release(s) \/ DisconnectAll(s) \/ Done(s)

-----------------------------------------------------------------------------
\* The stations and IDs the streams get first.
First == CHOOSE f \in [Keys -> Stations] : \A j, k \in Keys : f[j] = f[k] => j = k
FirstID == CHOOSE f \in [Keys -> 1..Cardinality(Keys)] : \A j, k \in Keys : f[j] = f[k] => j = k

\* The first call of applyStreams has started every stream of some file.
Init ==
    /\ InitListeners
    /\ file \in Valid /\ edits = 0 /\ taken = {}
    /\ wpc = "sleep" /\ seen = NoContent /\ applied = NoContent /\ retryAt = FALSE
    /\ wanted = Defines[file]
    /\ byKey = [k \in Keys |-> IF k \in DOMAIN wanted THEN First[k] ELSE NoStation]
    /\ at = [s \in Stations |-> IF s \in Listed THEN "running" ELSE "done"]
    /\ key = [s \in Stations |-> CHOOSE k \in Keys : (\E j \in Keys : First[j] = s) => First[k] = s]
    /\ def = [s \in Stations |-> IF s \in Listed THEN wanted[key[s]] ELSE CHOOSE d \in Defs : TRUE]
    /\ id = [s \in Stations |-> IF s \in Listed THEN FirstID[key[s]] ELSE 0]
    /\ lastID = Cardinality(Keys)
    /\ doomed = {} /\ reuse = [k \in Keys |-> 0] /\ todo = {} /\ failed = FALSE
    /\ listing = {<<k, id[byKey[k]]>> : k \in DOMAIN wanted}
    /\ groups = listing

Offer(l) == \E s \in Listed : Lookup(l, s)

Elsewhere == UNCHANGED <<diskVars, wpc, watchVars, applyVars, runVars, groups, lastID>>

ServerSide(l) == (Handler(l) \/ \E state \in {"failed", "closed"} : Callback(l, state)) /\ Elsewhere
ClientSide(l) == (Offer(l) \/ Connection(l)) /\ Elsewhere

Next ==
    \/ \E c \in Contents \cup {Missing} : Save(c)
    \/ \E p \in Ports : Seize(p) \/ Free(p)
    \/ Watcher
    \/ \E s \in Stations : Goroutine(s)
    \/ \E l \in Listeners : ServerSide(l) \/ ClientSide(l)

Spec == Init /\ [][Next]_vars

\* The ticker ticks and goroutines are scheduled; a station's goroutine leaves
\* its read when the socket is closed.  Handlers and callbacks run.  Nothing is
\* assumed of saves, of other programs, nor of what clients do.
Fairness ==
    /\ WF_vars(Watcher)
    /\ \A s \in Stations : WF_vars(Goroutine(s))
    /\ \A l \in Listeners : WF_vars(ServerSide(l))

FairSpec == Spec /\ Fairness
-----------------------------------------------------------------------------
(* Properties.                                                             *)

\* Types; the maps of applyStreams agree with the stations: a listed one serves
\* its stream and has not been told to stop.
TypeOK ==
    /\ ListenersTypeOK
    /\ at \in [Stations -> Serving \cup {"done"}] /\ id \in [Stations -> 0..lastID]
    /\ file \in Contents \cup {Missing} /\ taken \subseteq Ports
    /\ wpc \in {"sleep", "load", "unlist", "stop", "start"}
    /\ key \in [Stations -> Keys] /\ def \in [Stations -> Defs]
    /\ byKey \in [Keys -> Stations \cup {NoStation}]
    /\ doomed \subseteq Stations /\ todo \subseteq Keys
    /\ \A k \in Keys : byKey[k] # NoStation => key[byKey[k]] = k /\ at[byKey[k]] = "running"

\* Everything to be stopped has let go of its sockets before anything starts,
\* so a port can move between streams in one edit, and a stream fails to start
\* only because of another program.
StoppedBeforeStarting ==
    wpc = "start" => \A s \in Stations : Holding(s) => s \in Listed

\* Unchanged streams are not touched, so their listeners stay connected: only
\* a station whose definition is not the one wanted is told to stop.
UnchangedKeepRunning ==
    [][\A s \in Stations :
          at[s] = "running" /\ at'[s] # "running" =>
              key[s] \notin DOMAIN wanted \/ wanted[key[s]] # def[s]]_vars

\* Between reloads pages are told exactly the streams that run, each under the
\* ID that offers for it are looked up by.
PagesMatch ==
    wpc = "sleep" => groups = {<<k, id[byKey[k]]>> : k \in {j \in Keys : byKey[j] # NoStation}}

\* The running stations are those of the file, but for ports held by others.
Matches ==
    file \in Valid => \A k \in Keys :
        IF k \in DOMAIN Defines[file]
        THEN \/ byKey[k] # NoStation /\ def[byKey[k]] = Defines[file][k]
             \/ byKey[k] = NoStation /\ Port[Defines[file][k]] \in taken
        ELSE byKey[k] = NoStation

\* Once edits stop, the stations come to match the file and stay so, whatever
\* was saved, rejected or unreadable before, and streams whose port another
\* program gives back are started.
Settles == <>[][file' = file /\ taken' = taken]_<<file, taken>> => <>[]Matches
=============================================================================
