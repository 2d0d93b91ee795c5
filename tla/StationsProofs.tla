---------------------------- MODULE StationsProofs ----------------------------
(***************************************************************************)
(* Reloads and listeners, for any streams, files, stations and offers.     *)
(***************************************************************************)
EXTENDS Stations, FiniteSetTheorems, TLAPS

-----------------------------------------------------------------------------
(* Listeners. A connection is opened by AddSubscriber, and every step that *)
(* takes a listener off the map closes the connection.                     *)

\* Before addSubscriber an offer has no connection, after the lookup it has a
\* station; a session belongs to a listener.
Offers ==
    /\ \A l \in Listeners : hpc[l] \in {"idle", "found"} => conn[l] = "none"
    /\ \A l \in Listeners : hpc[l] # "idle" => home[l] \in Stations
    /\ \A x \in sessions : x[2] \in Listeners

ListenerInv == ListenersTypeOK /\ NoLeakedConnection /\ Offers

\* What ListenerInv is about, s.nextID apart.
connectionVars == <<subs, hpc, home, conn, ready, calls, leases, sessions, misended>>

LEMMA StaysConnected ==
  ASSUME ListenerInv, UNCHANGED connectionVars, made' \in [Stations -> Nat]
  PROVE  ListenerInv'
  BY DEF ListenerInv, connectionVars, ListenersTypeOK, NoLeakedConnection, Offers, Open

LEMMA HandlerStep ==
  ASSUME ListenerInv, NEW l \in Listeners, Handler(l)
  PROVE  ListenerInv'
<1> USE DEF ListenerInv, offerVars, recordVars
<1>1. CASE AddSubscriber(l)
  <2>1. home[l] \in Stations /\ conn[l] = "none" /\ hpc[l] = "found"
    BY <1>1 DEF AddSubscriber, Offers
  <2>2. ListenersTypeOK'
    BY <1>1, <2>1 DEF AddSubscriber, ListenersTypeOK, Open
  <2>3. NoLeakedConnection'
    BY <1>1, <2>1 DEF AddSubscriber, ListenersTypeOK, NoLeakedConnection, Open
  <2>4. Offers'
    BY <1>1, <2>1 DEF AddSubscriber, ListenersTypeOK, Offers
  <2> QED BY <2>2, <2>3, <2>4
<1>2. CASE GiveUp(l)
  BY <1>2 DEF GiveUp, ListenersTypeOK, NoLeakedConnection, Offers, Open
<1>3. CASE Register(l)
  BY <1>3 DEF Register, ListenersTypeOK, NoLeakedConnection, Offers, Open
<1>4. CASE Lease(l)
  BY <1>4 DEF Lease, ListenersTypeOK, NoLeakedConnection, Offers, Open
<1>5. CASE Answer(l)
  BY <1>5 DEF Answer, ListenersTypeOK, NoLeakedConnection, Offers, Open
<1>6. CASE Refuse(l)
  <2>1. home[l] \in Stations
    BY <1>6 DEF Refuse, Offers
  <2>2. ListenersTypeOK'
    BY <1>6, <2>1 DEF Refuse, RemoveSubscriber, Close, ListenersTypeOK, Open
  <2>3. NoLeakedConnection'
    BY <1>6, <2>1 DEF Refuse, RemoveSubscriber, Close, ListenersTypeOK, NoLeakedConnection, Open
  <2>4. Offers'
    BY <1>6, <2>1 DEF Refuse, RemoveSubscriber, Close, ListenersTypeOK, Offers, Open
  <2> QED BY <2>2, <2>3, <2>4
<1> QED BY <1>1, <1>2, <1>3, <1>4, <1>5, <1>6 DEF Handler

LEMMA ConnectionStep ==
  ASSUME ListenerInv, NEW l \in Listeners, Connection(l)
  PROVE  ListenerInv'
<1> USE DEF ListenerInv, offerVars, recordVars
<1>1. CASE Connect(l)
  BY <1>1 DEF Connect, ListenersTypeOK, NoLeakedConnection, Offers, Open
<1>2. CASE Disconnect(l)
  BY <1>2 DEF Disconnect, ListenersTypeOK, NoLeakedConnection, Offers, Open
<1>3. CASE Fail(l)
  BY <1>3 DEF Fail, ListenersTypeOK, NoLeakedConnection, Offers, Open
<1>4. CASE Leave(l)
  <2>1. home[l] \in Stations
    BY <1>4 DEF Leave, Offers
  <2>2. ListenersTypeOK'
    BY <1>4, <2>1 DEF Leave, RemoveSubscriber, Close, ListenersTypeOK, Open
  <2>3. NoLeakedConnection'
    BY <1>4, <2>1 DEF Leave, RemoveSubscriber, Close, ListenersTypeOK, NoLeakedConnection, Open
  <2>4. Offers'
    BY <1>4, <2>1 DEF Leave, RemoveSubscriber, Close, ListenersTypeOK, Offers, Open
  <2> QED BY <2>2, <2>3, <2>4
<1> QED BY <1>1, <1>2, <1>3, <1>4 DEF Connection

LEMMA CallbackStep ==
  ASSUME ListenerInv, NEW l \in Listeners, NEW state \in {"failed", "closed"},
         Callback(l, state)
  PROVE  ListenerInv'
<1> USE DEF ListenerInv, offerVars
<1> DEFINE Dropped == {l} \cap subs[home[l]] \cap {k \in Listeners : Open(k)}
<1>1. /\ subs' = [subs EXCEPT ![home[l]] = @ \ {l}]
      /\ conn' = [conn EXCEPT ![l] = IF l \in Dropped THEN "closed" ELSE @]
      /\ calls' = [calls EXCEPT ![l] = (@ \ {state}) \cup (IF l \in Dropped THEN {"closed"} ELSE {})]
      /\ ready' = ready \ {l} /\ leases' = leases \ {l}
      /\ UNCHANGED <<made, hpc, home>>
  BY DEF Callback
<1>2. sessions' \subseteq sessions /\ misended' \subseteq Listeners
  BY DEF Callback, ListenEnded, ListenersTypeOK, Offers
<1>3. ~ Open(l)'
  BY <1>1 DEF ListenersTypeOK, NoLeakedConnection, Open
<1>4. \A k \in Listeners \ {l} : conn'[k] = conn[k]
  BY <1>1 DEF ListenersTypeOK
<1>5. \A s \in Stations : subs'[s] \subseteq subs[s] /\ subs[s] \ {l} \subseteq subs'[s]
  BY <1>1 DEF ListenersTypeOK
<1>6. \A s \in Stations : l \notin subs'[s]
  BY <1>1 DEF ListenersTypeOK
<1>7. conn'[l] \in {conn[l], "closed"}
  BY <1>1 DEF ListenersTypeOK
<1>8. ListenersTypeOK'
  <2>1. conn' \in [Listeners -> {"none", "new", "connected", "disconnected", "failed", "closed"}]
    BY <1>1 DEF ListenersTypeOK
  <2>2. calls' \in [Listeners -> SUBSET {"failed", "closed"}]
    BY <1>1 DEF ListenersTypeOK
  <2>3. subs' \in [Stations -> SUBSET Listeners]
    BY <1>1 DEF ListenersTypeOK
  <2>4. \A s \in Stations : \A k \in subs'[s] : home'[k] = s /\ Open(k)'
    BY <1>1, <1>4, <1>5, <1>6 DEF ListenersTypeOK, Open
  <2>5. \A k \in ready' : conn'[k] \in {"connected", "closed"}
    BY <1>1, <1>4 DEF ListenersTypeOK
  <2> QED BY <1>1, <1>2, <2>1, <2>2, <2>3, <2>4, <2>5 DEF ListenersTypeOK
<1>9. NoLeakedConnection'
  <2> SUFFICES ASSUME NEW k \in Listeners, Open(k)' PROVE (k \in subs[home[k]])'
    BY DEF NoLeakedConnection
  <2>1. k # l /\ Open(k) /\ k \in subs[home[k]]
    BY <1>3, <1>4 DEF NoLeakedConnection, Open
  <2> QED BY <1>1, <2>1 DEF ListenersTypeOK
<1>10. Offers'
  BY <1>1, <1>2, <1>4, <1>7 DEF Offers, Open, ListenersTypeOK
<1> QED BY <1>8, <1>9, <1>10

LEMMA LookupStep ==
  ASSUME ListenerInv, NEW l \in Listeners, NEW s \in Stations, Lookup(l, s)
  PROVE  ListenerInv'
<1>1. hpc[l] = "idle" /\ conn[l] = "none" /\ ~ Open(l)
  BY DEF Lookup, ListenerInv, Offers, Open
<1>2. \A t \in Stations : l \notin subs[t]
  BY <1>1 DEF ListenerInv, ListenersTypeOK
<1>3. ListenersTypeOK'
  BY <1>1, <1>2 DEF Lookup, ListenerInv, ListenersTypeOK, recordVars, Open
<1>4. NoLeakedConnection' /\ Offers'
  BY <1>1 DEF Lookup, ListenerInv, ListenersTypeOK, NoLeakedConnection, Offers, recordVars, Open
<1> QED BY <1>3, <1>4 DEF ListenerInv

LEMMA DisconnectStep ==
  ASSUME ListenerInv, NEW s \in Stations, CloseSubscribers(s),
         UNCHANGED <<made, offerVars, ready, recordVars>>
  PROVE  ListenerInv'
<1> USE DEF ListenerInv, offerVars, recordVars
<1>1. subs' = [subs EXCEPT ![s] = {}] /\ UNCHANGED <<made, hpc, home, ready, leases, sessions, misended>>
  BY DEF CloseSubscribers
<1>2. /\ conn' \in [Listeners -> {"none", "new", "connected", "disconnected", "failed", "closed"}]
      /\ calls' \in [Listeners -> SUBSET {"failed", "closed"}]
  BY DEF CloseSubscribers, Close, ListenersTypeOK
<1>3. \A k \in Listeners \ subs[s] : conn'[k] = conn[k]
  BY DEF CloseSubscribers, Close, ListenersTypeOK
<1>4. \A k \in subs[s] : conn'[k] = "closed"
  BY DEF CloseSubscribers, Close, ListenersTypeOK
<1>5. \A t \in Stations \ {s} : subs'[t] = subs[t] /\ subs[t] \cap subs[s] = {}
  BY <1>1 DEF ListenersTypeOK
<1>6. subs'[s] = {}
  BY <1>1 DEF ListenersTypeOK
<1>7. ListenersTypeOK'
  <2>1. subs' \in [Stations -> SUBSET Listeners]
    BY <1>1 DEF ListenersTypeOK
  <2>2. \A t \in Stations : \A k \in subs'[t] : home'[k] = t /\ Open(k)'
    BY <1>1, <1>3, <1>5, <1>6 DEF ListenersTypeOK, Open
  <2>3. \A k \in ready' : conn'[k] \in {"connected", "closed"}
    BY <1>1, <1>3, <1>4 DEF ListenersTypeOK
  <2> QED BY <1>1, <1>2, <2>1, <2>2, <2>3 DEF ListenersTypeOK
<1>8. NoLeakedConnection'
  <2> SUFFICES ASSUME NEW k \in Listeners, Open(k)' PROVE (k \in subs[home[k]])'
    BY DEF NoLeakedConnection
  <2>1. k \notin subs[s] /\ Open(k)
    BY <1>3, <1>4 DEF Open
  <2>2. k \in subs[home[k]] /\ home[k] # s
    BY <2>1 DEF NoLeakedConnection
  <2> QED BY <1>1, <2>2 DEF ListenersTypeOK
<1>9. Offers'
  BY <1>1, <1>3, <1>4 DEF Offers, ListenersTypeOK, Open
<1> QED BY <1>7, <1>8, <1>9

\* The steps of a reload that say nothing of listeners.
Undisturbed == UNCHANGED connectionVars /\ made' \in [Stations -> Nat]

LEMMA NextListeners ==
  ASSUME ListenerInv, Listed \subseteq Stations, [Next]_vars
  PROVE  ListenerInv'
<1>1. CASE UNCHANGED vars
  BY <1>1, StaysConnected DEF vars, listenerVars, offerVars, recordVars, connectionVars,
     ListenerInv, ListenersTypeOK
<1>2. CASE \E c \in Contents \cup {Missing} : Save(c)
  BY <1>2, StaysConnected DEF Save, listenerVars, offerVars, recordVars, connectionVars,
     ListenerInv, ListenersTypeOK
<1>3. CASE \E p \in Ports : Seize(p) \/ Free(p)
  BY <1>3, StaysConnected DEF Seize, Free, listenerVars, offerVars, recordVars, connectionVars,
     ListenerInv, ListenersTypeOK
<1>4. CASE Watcher
  <2>1. CASE \E k \in Keys : Start(k)
    <3>1. UNCHANGED connectionVars
      BY <2>1 DEF Start, offerVars, recordVars, connectionVars
    <3>2. made' \in [Stations -> Nat]
      BY <2>1 DEF Start, ListenerInv, ListenersTypeOK
    <3> QED BY <3>1, <3>2, StaysConnected
  <2>2. CASE ~ \E k \in Keys : Start(k)
    <3>1. UNCHANGED listenerVars
      BY <1>4, <2>2 DEF Watcher, ReadChange, Decide, Load, Unlist, AllStopped, Applied,
         Cancel, AwaitDone, Keep, StartFails
    <3> QED BY <3>1, StaysConnected DEF listenerVars, offerVars, recordVars, connectionVars,
                 ListenerInv, ListenersTypeOK
  <2> QED BY <2>1, <2>2
<1>5. ASSUME NEW s \in Stations, Goroutine(s) PROVE ListenerInv'
  <2>1. CASE Release(s) \/ Done(s)
    BY <2>1, StaysConnected DEF Release, Done, listenerVars, offerVars, recordVars,
       connectionVars, ListenerInv, ListenersTypeOK
  <2>2. CASE DisconnectAll(s)
    BY <2>2, DisconnectStep DEF DisconnectAll
  <2> QED BY <1>5, <2>1, <2>2 DEF Goroutine
<1>6. ASSUME NEW l \in Listeners, ServerSide(l) PROVE ListenerInv'
  BY <1>6, HandlerStep, CallbackStep DEF ServerSide
<1>7. ASSUME NEW l \in Listeners, ClientSide(l) PROVE ListenerInv'
  <2>1. CASE Connection(l)
    BY <2>1, ConnectionStep
  <2>2. ASSUME NEW s \in Listed, Lookup(l, s) PROVE ListenerInv'
    BY <2>2, LookupStep
  <2> QED BY <1>7, <2>1, <2>2 DEF ClientSide, Offer
<1> QED BY <1>1, <1>2, <1>3, <1>4, <1>5, <1>6, <1>7 DEF Next

-----------------------------------------------------------------------------
(* Reloads. *)

\* The types of TypeOK, of reuse and of lastID.
MapsTyped ==
    /\ at \in [Stations -> Serving \cup {"done"}]
    /\ lastID \in Nat /\ id \in [Stations -> 0..lastID] /\ reuse \in [Keys -> 0..lastID]
    /\ file \in Contents \cup {Missing} /\ taken \subseteq Ports
    /\ wpc \in {"sleep", "load", "unlist", "stop", "start"}
    /\ wanted \in {Defines[c] : c \in Valid}
    /\ key \in [Stations -> Keys] /\ def \in [Stations -> Defs]
    /\ byKey \in [Keys -> Stations \cup {NoStation}]
    /\ doomed \subseteq Stations /\ todo \subseteq Keys

\* A listed station serves its stream.
ListedRun == \A k \in Keys : byKey[k] # NoStation => key[byKey[k]] = k /\ at[byKey[k]] = "running"

\* A station has its port only while it is listed, or until the watcher, which
\* has unlisted it, has waited for its end; and that happens only to a stream
\* the file has not, or has otherwise.
Accounted ==
    /\ wpc # "stop" => doomed = {}
    /\ doomed \cap Listed = {}
    /\ \A s \in Stations : Holding(s) => s \in Listed \cup doomed
    /\ \A s \in doomed : key[s] \notin DOMAIN wanted \/ wanted[key[s]] # def[s]

\* The streams that run, as pages are told of them.
Told(ks) == {<<k, id[byKey[k]]>> : k \in {j \in ks : byKey[j] # NoStation}}

\* The pages' list is kept up with by one that the starts build.
Pages ==
    /\ wpc \in {"sleep", "load", "unlist"} => groups = Told(Keys)
    /\ wpc \in {"stop", "start"} => \A k \in Keys : byKey[k] # NoStation => k \in DOMAIN wanted
    /\ wpc = "start" => todo \subseteq DOMAIN wanted /\ listing = Told(Keys \ todo)

ReloadInv == MapsTyped /\ ListedRun /\ Accounted /\ Pages

LEMMA FilesTyped ==
  ASSUME MapsTyped
  PROVE  /\ DOMAIN wanted \subseteq Keys
         /\ \A k \in DOMAIN wanted : wanted[k] \in Defs
         /\ Listed \subseteq Stations
  BY StationsAssumption DEF MapsTyped, Defs, Listed

LEMMA NumberedKeys ==
  /\ Cardinality(Keys) \in Nat
  /\ FirstID \in [Keys -> 1..Cardinality(Keys)]
<1> DEFINE n == Cardinality(Keys)
<1>1. n \in Nat /\ ExistsBijection(1..n, Keys)
  BY FS_CardinalityType, StationsAssumption
<1>2. PICK f : f \in [1..n -> Keys] /\ \A k \in Keys : \E i \in 1..n : f[i] = k
  BY <1>1 DEF ExistsBijection, Bijection, Surjection, Injection
<1> DEFINE g == [k \in Keys |-> CHOOSE i \in 1..n : f[i] = k]
<1>3. \A k \in Keys : g[k] \in 1..n /\ f[g[k]] = k
  BY <1>2
<1>4. g \in [Keys -> 1..n] /\ \A j, k \in Keys : g[j] = g[k] => j = k
  BY <1>3
<1>5. \E h \in [Keys -> 1..Cardinality(Keys)] : \A j, k \in Keys : h[j] = h[k] => j = k
  BY <1>4
<1> QED BY <1>1, <1>5 DEF FirstID

LEMMA InitStations == Init => ListenerInv /\ ReloadInv
<1> SUFFICES ASSUME Init PROVE ListenerInv /\ ReloadInv
  OBVIOUS
<1>1. ListenerInv
  BY DEF Init, InitListeners, ListenerInv, ListenersTypeOK, NoLeakedConnection, Offers, Open
<1>2. First \in [Keys -> Stations] /\ \A j, k \in Keys : First[j] = First[k] => j = k
  BY StationsAssumption DEF First
<1>3. file \in Valid /\ wanted = Defines[file] /\ DOMAIN wanted \subseteq Keys
  BY StationsAssumption DEF Init
<1>4. \A k \in DOMAIN wanted : wanted[k] \in Defs
  BY <1>3 DEF Defs
<1>5. byKey = [k \in Keys |-> IF k \in DOMAIN wanted THEN First[k] ELSE NoStation]
  BY DEF Init
<1>6. Keys # {}
  BY StationsAssumption DEF Defs
<1>7. \A s \in Stations : \E k \in Keys : (\E j \in Keys : First[j] = s) => First[k] = s
  BY <1>6
<1>8. key = [s \in Stations |-> CHOOSE k \in Keys : (\E j \in Keys : First[j] = s) => First[k] = s]
  BY DEF Init
<1>9. key \in [Stations -> Keys] /\ \A k \in Keys : key[First[k]] = k
  <2>1. \A s \in Stations : key[s] \in Keys /\ ((\E j \in Keys : First[j] = s) => First[key[s]] = s)
    BY <1>7, <1>8
  <2>2. key \in [Stations -> Keys]
    BY <1>8, <2>1
  <2> QED BY <1>2, <2>1, <2>2
<1>10. Listed = {First[k] : k \in DOMAIN wanted}
  BY <1>2, <1>3, <1>5, ListenersAssumption DEF Listed
<1>11. \A s \in Listed : s \in Stations /\ key[s] \in DOMAIN wanted
  BY <1>2, <1>3, <1>9, <1>10
<1>12. at = [s \in Stations |-> IF s \in Listed THEN "running" ELSE "done"]
  BY DEF Init
<1>13. def \in [Stations -> Defs]
  <2>1. def = [s \in Stations |-> IF s \in Listed THEN wanted[key[s]] ELSE CHOOSE d \in Defs : TRUE]
    BY DEF Init
  <2>2. (CHOOSE d \in Defs : TRUE) \in Defs
    BY StationsAssumption
  <2> QED BY <1>4, <1>11, <2>1, <2>2
<1>14. lastID \in Nat /\ id \in [Stations -> 0..lastID]
  <2>1. id = [s \in Stations |-> IF s \in Listed THEN FirstID[key[s]] ELSE 0] /\ lastID = Cardinality(Keys)
    BY DEF Init
  <2>2. \A s \in Stations : FirstID[key[s]] \in 1..lastID /\ lastID \in Nat
    BY <1>9, <2>1, NumberedKeys
  <2>3. lastID \in Nat
    BY <2>1, NumberedKeys
  <2> QED BY <2>1, <2>2, <2>3
<1>15. MapsTyped
  <2>1. byKey \in [Keys -> Stations \cup {NoStation}]
    BY <1>2, <1>5
  <2>2. at \in [Stations -> Serving \cup {"done"}]
    BY <1>12 DEF Serving
  <2>3. reuse \in [Keys -> 0..lastID]
    BY <1>14 DEF Init
  <2> QED BY <1>3, <1>9, <1>13, <1>14, <2>1, <2>2, <2>3, StationsAssumption DEF Init, MapsTyped
<1>16. ListedRun
  BY <1>2, <1>5, <1>9, <1>10, <1>12 DEF ListedRun
<1>17. Accounted
  BY <1>12 DEF Init, Accounted, Holding
<1>18. Pages
  <2>1. \A k \in Keys : byKey[k] # NoStation <=> k \in DOMAIN wanted
    BY <1>2, <1>5, ListenersAssumption
  <2>2. groups = {<<k, id[byKey[k]]>> : k \in DOMAIN wanted} /\ wpc = "sleep"
    BY DEF Init
  <2> QED BY <1>3, <2>1, <2>2 DEF Pages, Told
<1> QED BY <1>1, <1>15, <1>16, <1>17, <1>18 DEF ReloadInv

\* What ReloadInv is about.
reloadVars == <<at, id, lastID, reuse, file, taken, wpc, wanted, key, def, byKey, doomed, todo,
                listing, groups>>

LEMMA ReloadStays ==
  ASSUME ReloadInv, UNCHANGED <<at, id, lastID, reuse, wpc, wanted, key, def, byKey, doomed,
                                todo, listing, groups>>,
         file' \in Contents \cup {Missing}, taken' \subseteq Ports
  PROVE  ReloadInv'
  BY DEF ReloadInv, MapsTyped, ListedRun, Accounted, Pages, Told, Listed, Holding

\* The steps of watchStreamConfig, and the end of applyStreams.
LEMMA WatchStep ==
  ASSUME ReloadInv, ReadChange \/ Decide \/ Load \/ Applied
  PROVE  ReloadInv'
<1> USE DEF ReloadInv
<1>1. CASE ReadChange
  BY <1>1, ReloadStays DEF ReadChange, stationVars, diskVars, applyVars, runVars, MapsTyped
<1>2. CASE Decide
  <2>1. wpc = "sleep" /\ wpc' = "load" /\ UNCHANGED <<stationVars, diskVars, applyVars, runVars, groups, lastID>>
    BY <1>2 DEF Decide
  <2> QED BY <2>1 DEF stationVars, diskVars, applyVars, runVars,
             MapsTyped, ListedRun, Accounted, Pages, Told, Listed, Holding
<1>3. CASE Load
  <2>1. /\ wpc = "load" /\ wpc' \in {"unlist", "sleep"}
        /\ UNCHANGED <<stationVars, diskVars, runVars, doomed, reuse, todo, listing, groups, lastID>>
    BY <1>3 DEF Load
  <2>2. wanted' = wanted \/ (file \in Valid /\ wanted' = Defines[file])
    BY <1>3 DEF Load
  <2>3. wanted' \in {Defines[c] : c \in Valid}
    BY <2>2 DEF MapsTyped
  <2> QED BY <2>1, <2>3 DEF stationVars, diskVars, runVars,
             MapsTyped, ListedRun, Accounted, Pages, Told, Listed, Holding
<1>4. CASE Applied
  <2>1. /\ wpc = "start" /\ todo = {} /\ groups' = listing /\ wpc' = "sleep"
        /\ UNCHANGED <<stationVars, diskVars, applyVars, runVars, lastID>>
    BY <1>4 DEF Applied
  <2> QED BY <2>1 DEF stationVars, diskVars, applyVars, runVars,
             MapsTyped, ListedRun, Accounted, Pages, Told, Listed, Holding
<1> QED BY <1>1, <1>2, <1>3, <1>4

\* What is unlisted is exactly what is to stop, and no stream the file wants as
\* it is.
LEMMA UnlistStep ==
  ASSUME ReloadInv, Unlist
  PROVE  ReloadInv'
<1> DEFINE Gone == {k \in Keys : Differs(k) \/ Removed(k)}
<1>1. /\ wpc = "unlist" /\ wpc' = "stop"
      /\ doomed' = {byKey[k] : k \in Gone}
      /\ reuse' = [k \in Keys |-> IF Differs(k) THEN id[byKey[k]] ELSE 0]
      /\ byKey' = [k \in Keys |-> IF k \in Gone THEN NoStation ELSE byKey[k]]
      /\ UNCHANGED <<at, id, file, taken, wanted, todo, listing, key, def, groups, lastID>>
  BY DEF Unlist, stationVars, diskVars
<1>2. MapsTyped /\ ListedRun /\ Accounted /\ Pages /\ doomed = {}
  BY <1>1 DEF ReloadInv, Accounted
<1>3. \A k \in Gone : byKey[k] \in Stations /\ byKey[k] # NoStation
  BY <1>2 DEF Differs, Removed, MapsTyped
<1>4. \A k \in Keys \ Gone : byKey[k] # NoStation => k \in DOMAIN wanted
  BY DEF Removed
<1>5. \A k \in Gone : k \notin DOMAIN wanted \/ wanted[k] # def[byKey[k]]
  BY DEF Differs, Removed
<1>6. \A k \in Keys : byKey'[k] # NoStation => k \notin Gone /\ byKey'[k] = byKey[k]
  BY <1>1
<1> HIDE DEF Gone
<1>7. MapsTyped'
  <2>1. reuse' \in [Keys -> 0..lastID]
    BY <1>1, <1>2 DEF MapsTyped, Differs
  <2>2. byKey' \in [Keys -> Stations \cup {NoStation}] /\ doomed' \subseteq Stations
    BY <1>1, <1>2, <1>3 DEF MapsTyped
  <2> QED BY <1>1, <1>2, <2>1, <2>2 DEF MapsTyped
<1>8. ListedRun'
  BY <1>1, <1>2, <1>6 DEF ListedRun
<1>9. Accounted'
  <2>1. doomed' \cap Listed' = {}
    BY <1>1, <1>2, <1>3, <1>6 DEF Listed, ListedRun, Gone
  <2>2. \A s \in Stations : Holding(s)' => s \in Listed' \cup doomed'
    BY <1>1, <1>2, ListenersAssumption DEF Holding, Listed, Accounted
  <2>3. \A s \in doomed' : key'[s] \notin DOMAIN wanted' \/ wanted'[key'[s]] # def'[s]
    BY <1>1, <1>2, <1>3, <1>5 DEF ListedRun, Gone
  <2> QED BY <1>1, <2>1, <2>2, <2>3 DEF Accounted
<1>10. Pages'
  BY <1>1, <1>4, <1>6 DEF Pages
<1> QED BY <1>7, <1>8, <1>9, <1>10 DEF ReloadInv

LEMMA StopStep ==
  ASSUME ReloadInv, NEW s \in Stations, Cancel(s) \/ AwaitDone(s)
  PROVE  ReloadInv'
<1>1. MapsTyped /\ ListedRun /\ Accounted /\ Pages
  BY DEF ReloadInv
<1>2. CASE Cancel(s)
  <2>1. /\ wpc = "stop" /\ s \in doomed /\ at[s] = "running" /\ at' = [at EXCEPT ![s] = "cancelled"]
        /\ UNCHANGED <<id, file, taken, wpc, wanted, doomed, reuse, todo, listing, key, def, byKey, groups, lastID>>
    BY <1>2 DEF Cancel, diskVars, applyVars, runVars
  <2>2. s \notin Listed
    BY <1>1, <2>1 DEF Accounted
  <2>3. MapsTyped'
    BY <1>1, <2>1 DEF MapsTyped, Serving
  <2>4. ListedRun'
    BY <1>1, <2>1, <2>2 DEF ListedRun, Listed, MapsTyped
  <2>5. \A t \in Stations : Holding(t)' => Holding(t)
    BY <1>1, <2>1 DEF Holding, MapsTyped
  <2>6. Accounted'
    BY <1>1, <2>1, <2>5 DEF Accounted, Listed
  <2>7. Pages'
    BY <1>1, <2>1 DEF Pages
  <2> QED BY <2>3, <2>4, <2>6, <2>7 DEF ReloadInv
<1>3. CASE AwaitDone(s)
  <2>1. /\ wpc = "stop" /\ at[s] = "done" /\ doomed' = doomed \ {s}
        /\ UNCHANGED <<at, id, file, taken, wpc, wanted, reuse, todo, listing, key, def, byKey, groups, lastID>>
    BY <1>3 DEF AwaitDone, stationVars, diskVars, runVars
  <2>2. ~ Holding(s)
    BY <2>1 DEF Holding
  <2>3. MapsTyped' /\ ListedRun' /\ Pages'
    BY <1>1, <2>1 DEF MapsTyped, ListedRun, Pages
  <2>4. Accounted'
    BY <1>1, <2>1, <2>2 DEF Accounted, Listed, Holding
  <2> QED BY <2>3, <2>4 DEF ReloadInv
<1> QED BY <1>2, <1>3

\* The first start of applyStreams finds everything else stopped.
LEMMA AllStoppedStep ==
  ASSUME ReloadInv, AllStopped
  PROVE  ReloadInv'
<1>1. MapsTyped /\ ListedRun /\ Accounted /\ Pages
  BY DEF ReloadInv
<1>2. /\ wpc = "stop" /\ doomed = {} /\ todo' = DOMAIN wanted /\ listing' = {} /\ wpc' = "start"
      /\ UNCHANGED <<at, id, file, taken, wanted, doomed, reuse, key, def, byKey, groups, lastID>>
  BY DEF AllStopped, stationVars, diskVars, runVars
<1>3. DOMAIN wanted \subseteq Keys
  BY <1>1, FilesTyped
<1>4. MapsTyped' /\ ListedRun'
  BY <1>1, <1>2, <1>3 DEF MapsTyped, ListedRun
<1>5. Accounted'
  BY <1>1, <1>2 DEF Accounted, Listed, Holding
<1>6. Pages'
  <2>1. \A k \in Keys \ todo' : byKey[k] = NoStation
    BY <1>1, <1>2 DEF Pages
  <2>2. Told(Keys \ todo)' = {}
    BY <1>2, <2>1 DEF Told
  <2> QED BY <1>1, <1>2, <2>2 DEF Pages
<1> QED BY <1>4, <1>5, <1>6 DEF ReloadInv

LEMMA KeepStep ==
  ASSUME ReloadInv, NEW k \in Keys, Keep(k) \/ StartFails(k)
  PROVE  ReloadInv'
<1>1. MapsTyped /\ ListedRun /\ Accounted /\ Pages
  BY DEF ReloadInv
<1>2. /\ wpc = "start" /\ k \in todo /\ todo' = todo \ {k}
      /\ UNCHANGED <<at, id, file, taken, wpc, wanted, doomed, reuse, key, def, byKey, groups, lastID>>
  BY DEF Keep, StartFails, stationVars, diskVars, runVars
<1>3. MapsTyped' /\ ListedRun'
  BY <1>1, <1>2 DEF MapsTyped, ListedRun
<1>4. Accounted'
  BY <1>1, <1>2 DEF Accounted, Listed, Holding
<1>5. listing' = Told(Keys \ todo')
  <2>1. Keys \ todo' = (Keys \ todo) \cup {k} /\ listing = Told(Keys \ todo)
    BY <1>1, <1>2 DEF Pages
  <2>2. CASE Keep(k)
    <3>1. listing' = listing \cup {<<k, id[byKey[k]]>>} /\ byKey[k] # NoStation
      BY <2>2 DEF Keep
    <3> QED BY <2>1, <3>1 DEF Told
  <2>3. CASE StartFails(k)
    <3>1. listing' = listing /\ byKey[k] = NoStation
      BY <2>3 DEF StartFails
    <3> QED BY <2>1, <3>1 DEF Told
  <2> QED BY <2>2, <2>3
<1>6. Told(Keys \ todo)' = Told(Keys \ todo')
  BY <1>2 DEF Told
<1>7. Pages'
  BY <1>1, <1>2, <1>5, <1>6 DEF Pages
<1> QED BY <1>3, <1>4, <1>7 DEF ReloadInv

LEMMA StartStep ==
  ASSUME ReloadInv, NEW k \in Keys, Start(k)
  PROVE  ReloadInv'
<1> DEFINE new == IF reuse[k] # 0 THEN reuse[k] ELSE lastID + 1
           s == CHOOSE t \in Stations : Fresh(t)
<1>1. MapsTyped /\ ListedRun /\ Accounted /\ Pages
  BY DEF ReloadInv
<1>2. s \in Stations /\ at[s] = "done"
  BY DEF Start, Fresh
<1>3. /\ wpc = "start" /\ k \in todo /\ todo' = todo \ {k} /\ byKey[k] = NoStation
      /\ UNCHANGED <<file, taken, wpc, wanted, doomed, reuse, groups>>
  BY DEF Start, diskVars
<1>4. /\ at' = [at EXCEPT ![s] = "running"]
      /\ id' = [id EXCEPT ![s] = new]
      /\ key' = [key EXCEPT ![s] = k]
      /\ def' = [def EXCEPT ![s] = wanted[k]]
      /\ byKey' = [byKey EXCEPT ![k] = s]
      /\ listing' = listing \cup {<<k, new>>}
      /\ lastID' = IF reuse[k] # 0 THEN lastID ELSE new
  BY DEF Start
<1>5. new \in Nat /\ lastID' \in Nat /\ lastID <= lastID' /\ new <= lastID'
  BY <1>1, <1>4 DEF MapsTyped
<1>6. wanted[k] \in Defs /\ k \in DOMAIN wanted /\ doomed = {}
  BY <1>1, <1>3, FilesTyped DEF Pages, Accounted
<1> HIDE DEF new, s
<1>7. MapsTyped'
  <2>1. id' \in [Stations -> 0..lastID'] /\ reuse' \in [Keys -> 0..lastID']
    BY <1>1, <1>2, <1>3, <1>4, <1>5 DEF MapsTyped
  <2>2. at' \in [Stations -> Serving \cup {"done"}] /\ byKey' \in [Keys -> Stations \cup {NoStation}]
    BY <1>1, <1>2, <1>4 DEF MapsTyped, Serving
  <2>3. key' \in [Stations -> Keys] /\ def' \in [Stations -> Defs]
    BY <1>1, <1>2, <1>4, <1>6 DEF MapsTyped
  <2> QED BY <1>1, <1>3, <1>5, <2>1, <2>2, <2>3 DEF MapsTyped
\* A station that is listed is another than the one it starts.
<1>8. \A j \in Keys \ {k} : byKey'[j] = byKey[j] /\ byKey[j] # s
  BY <1>1, <1>2, <1>4, ListenersAssumption DEF MapsTyped, ListedRun
<1>9. byKey'[k] = s /\ s # NoStation /\ at'[s] = "running" /\ key'[s] = k /\ id'[s] = new
  BY <1>1, <1>2, <1>4, ListenersAssumption DEF MapsTyped
<1>10. \A t \in Stations \ {s} : at'[t] = at[t] /\ key'[t] = key[t] /\ id'[t] = id[t]
  BY <1>1, <1>4 DEF MapsTyped
<1>11. ListedRun'
  <2> SUFFICES ASSUME NEW j \in Keys, byKey'[j] # NoStation
               PROVE  key'[byKey'[j]] = j /\ at'[byKey'[j]] = "running"
    BY DEF ListedRun
  <2>1. CASE j = k
    BY <1>9, <2>1
  <2>2. CASE j # k
    BY <1>1, <1>8, <1>10, <2>2 DEF ListedRun, MapsTyped
  <2> QED BY <2>1, <2>2
<1>12. Listed' = Listed \cup {s}
  BY <1>3, <1>8, <1>9 DEF Listed
<1>13. Accounted'
  <2>1. \A t \in Stations : Holding(t)' => t \in Listed'
    BY <1>1, <1>6, <1>10, <1>12 DEF Accounted, Holding
  <2> QED BY <1>3, <1>6, <2>1 DEF Accounted
<1>14. \A j \in Keys \ {k} : byKey[j] # NoStation => id'[byKey'[j]] = id[byKey[j]]
  BY <1>1, <1>8, <1>10 DEF MapsTyped
<1>15. Pages'
  <2>1. Keys \ todo' = (Keys \ todo) \cup {k} /\ k \notin Keys \ todo
    BY <1>3
  <2>2. Told(Keys \ todo)' = Told(Keys \ todo) \cup {<<k, new>>}
    BY <1>8, <1>9, <1>14, <2>1 DEF Told
  <2>3. listing' = Told(Keys \ todo)'
    BY <1>1, <1>3, <1>4, <2>2 DEF Pages
  <2>4. \A j \in Keys : byKey'[j] # NoStation => j \in DOMAIN wanted
    BY <1>1, <1>3, <1>6, <1>8 DEF Pages
  <2> QED BY <1>1, <1>3, <2>3, <2>4 DEF Pages
<1> QED BY <1>7, <1>11, <1>13, <1>15 DEF ReloadInv

\* A station's goroutine ends only once it has been cancelled.
LEMMA GoroutineStep ==
  ASSUME ReloadInv, NEW s \in Stations, Goroutine(s)
  PROVE  ReloadInv'
<1>1. MapsTyped /\ ListedRun /\ Accounted /\ Pages
  BY DEF ReloadInv
<1>2. /\ at[s] \in {"cancelled", "released", "closing"}
      /\ at' \in {[at EXCEPT ![s] = "released"], [at EXCEPT ![s] = "closing"], [at EXCEPT ![s] = "done"]}
      /\ UNCHANGED <<id, file, taken, wpc, wanted, doomed, reuse, todo, listing, key, def, byKey, groups, lastID>>
  BY DEF Goroutine, Release, DisconnectAll, Done, diskVars, applyVars, runVars
<1>3. at'[s] \in {"released", "closing", "done"} /\ \A t \in Stations \ {s} : at'[t] = at[t]
  BY <1>1, <1>2 DEF MapsTyped
<1>4. MapsTyped'
  BY <1>1, <1>2 DEF MapsTyped, Serving
<1>5. ListedRun'
  BY <1>1, <1>2, <1>3 DEF ListedRun, MapsTyped
<1>6. Accounted'
  BY <1>1, <1>2, <1>3 DEF Accounted, Listed, Holding
<1>7. Pages'
  BY <1>1, <1>2 DEF Pages, Told
<1> QED BY <1>4, <1>5, <1>6, <1>7 DEF ReloadInv

LEMMA NextReload ==
  ASSUME ReloadInv, [Next]_vars
  PROVE  ReloadInv'
<1>1. CASE UNCHANGED vars
  BY <1>1, ReloadStays DEF vars, stationVars, diskVars, applyVars, runVars, ReloadInv, MapsTyped
<1>2. ASSUME NEW c \in Contents \cup {Missing}, Save(c) PROVE ReloadInv'
  BY <1>2, ReloadStays DEF Save, stationVars, applyVars, runVars, ReloadInv, MapsTyped
<1>3. ASSUME NEW p \in Ports, Seize(p) \/ Free(p) PROVE ReloadInv'
  BY <1>3, ReloadStays DEF Seize, Free, stationVars, applyVars, runVars, ReloadInv, MapsTyped
<1>4. CASE Watcher
  BY <1>4, WatchStep, UnlistStep, AllStoppedStep, StopStep, KeepStep, StartStep DEF Watcher
<1>5. CASE \E s \in Stations : Goroutine(s)
  BY <1>5, GoroutineStep
<1>6. ASSUME NEW l \in Listeners, ServerSide(l) \/ ClientSide(l) PROVE ReloadInv'
  <2>1. UNCHANGED stationVars
    <3>1. CASE Handler(l)
      BY <3>1 DEF Handler, AddSubscriber, GiveUp, Register, Lease, Answer, Refuse
    <3>2. CASE \E state \in {"failed", "closed"} : Callback(l, state)
      BY <3>2 DEF Callback
    <3>3. CASE Offer(l)
      BY <3>3 DEF Offer, Lookup
    <3>4. CASE Connection(l)
      BY <3>4 DEF Connection, Connect, Disconnect, Fail, Leave
    <3> QED BY <1>6, <3>1, <3>2, <3>3, <3>4 DEF ServerSide, ClientSide
  <2>2. Elsewhere
    BY <1>6 DEF ServerSide, ClientSide
  <2> QED BY <2>1, <2>2, ReloadStays DEF Elsewhere, stationVars, diskVars, applyVars, runVars,
               ReloadInv, MapsTyped
<1> QED BY <1>1, <1>2, <1>3, <1>4, <1>5, <1>6 DEF Next

LEMMA StationsInvariant == Spec => [](ListenerInv /\ ReloadInv)
<1>1. ListenerInv /\ ReloadInv /\ [Next]_vars => (ListenerInv /\ ReloadInv)'
  <2> SUFFICES ASSUME ListenerInv, ReloadInv, [Next]_vars PROVE ListenerInv' /\ ReloadInv'
    OBVIOUS
  <2>1. Listed \subseteq Stations
    BY FilesTyped DEF ReloadInv
  <2> QED BY <2>1, NextListeners, NextReload
<1> QED BY <1>1, InitStations, PTL DEF Spec

-----------------------------------------------------------------------------
(* The theorems. *)

\* All variables keep their types, and a listed station serves its stream and
\* has not been told to stop.
THEOREM StationsTypeCorrect == Spec => []TypeOK
<1>1. ListenerInv /\ ReloadInv => TypeOK
  BY DEF ListenerInv, ReloadInv, MapsTyped, ListedRun, TypeOK
<1> QED BY <1>1, StationsInvariant, PTL

\* An open connection is a subscriber of its station, however offers, callbacks,
\* leaves and reloads race.
THEOREM NothingLeaks == Spec => []NoLeakedConnection
<1>1. ListenerInv => NoLeakedConnection
  BY DEF ListenerInv
<1> QED BY <1>1, StationsInvariant, PTL

\* When applyStreams starts the first stream, every station it unlisted, in this
\* reload or an earlier one, has let go of its port.
THEOREM PortsFreedFirst == Spec => []StoppedBeforeStarting
<1>1. ReloadInv => StoppedBeforeStarting
  BY DEF ReloadInv, Accounted, StoppedBeforeStarting
<1> QED BY <1>1, StationsInvariant, PTL

\* Between reloads the pages' list is that of the running streams, with their
\* IDs, also after starts that failed.
THEOREM PagesToldTheTruth == Spec => []PagesMatch
<1>1. ReloadInv => PagesMatch
  BY DEF ReloadInv, Pages, Told, PagesMatch
<1> QED BY <1>1, StationsInvariant, PTL

\* Only a stream that the loaded file lacks or defines otherwise is stopped.
THEOREM UnchangedUntouched == Spec => UnchangedKeepRunning
<1>1. ReloadInv /\ [Next]_vars =>
        [\A s \in Stations : at[s] = "running" /\ at'[s] # "running" =>
            key[s] \notin DOMAIN wanted \/ wanted[key[s]] # def[s]]_vars
  <2> SUFFICES ASSUME ReloadInv, Next, NEW s \in Stations, at[s] = "running", at'[s] # "running"
               PROVE  key[s] \notin DOMAIN wanted \/ wanted[key[s]] # def[s]
    OBVIOUS
  <2>1. MapsTyped /\ Accounted
    BY DEF ReloadInv
  <2>2. CASE Cancel(s)
    BY <2>1, <2>2 DEF Cancel, Accounted
  <2>3. ASSUME NEW t \in Stations \ {s}, Cancel(t) PROVE FALSE
    BY <2>1, <2>3 DEF Cancel, MapsTyped
  <2>4. ASSUME NEW t \in Stations, Goroutine(t) PROVE FALSE
    BY <2>1, <2>4 DEF Goroutine, Release, DisconnectAll, Done, MapsTyped
  <2>5. ASSUME NEW k \in Keys, Start(k) PROVE FALSE
    BY <2>1, <2>5 DEF Start, MapsTyped
  <2>6. CASE UNCHANGED at
    BY <2>6
  <2>7. CASE Watcher
    BY <2>2, <2>3, <2>5, <2>6, <2>7 DEF Watcher, ReadChange, Decide, Load, Unlist, AllStopped,
       Applied, AwaitDone, Keep, StartFails, stationVars
  <2>8. ASSUME NEW l \in Listeners, ServerSide(l) \/ ClientSide(l) PROVE UNCHANGED at
    <3>1. CASE Handler(l) \/ Connection(l)
      BY <3>1 DEF Handler, AddSubscriber, GiveUp, Register, Lease, Answer, Refuse,
         Connection, Connect, Disconnect, Fail, Leave, stationVars
    <3>2. CASE Offer(l) \/ \E state \in {"failed", "closed"} : Callback(l, state)
      BY <3>2 DEF Offer, Lookup, Callback, stationVars
    <3> QED BY <2>8, <3>1, <3>2 DEF ServerSide, ClientSide
  <2>9. CASE (\E c \in Contents \cup {Missing} : Save(c)) \/ \E p \in Ports : Seize(p) \/ Free(p)
    BY <2>6, <2>9 DEF Save, Seize, Free, stationVars
  <2> QED BY <2>4, <2>6, <2>7, <2>8, <2>9 DEF Next
<1> QED BY <1>1, StationsInvariant, PTL DEF Spec, UnchangedKeepRunning
=============================================================================
