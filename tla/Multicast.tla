------------------------------ MODULE Multicast ------------------------------
(***************************************************************************)
(* The MulticastListener of multicast.go: one reader goroutine per UDP     *)
(* port routes packets to one frame channel, so that the newest            *)
(* transmission is heard, and the station's goroutine consumes the frames  *)
(* and finally closes the listener.                                        *)
(*                                                                         *)
(* handlePacket and checkDropout run under ml.mu and are one step each;    *)
(* the clock is read inside the lock, so what matters of lastPackets is    *)
(* how many ticks ago each port had a packet, up to dropoutTime.           *)
(***************************************************************************)
EXTENDS Integers, Sequences

CONSTANTS
    NumPorts,   \* len(ml.ports)
    Dropout,    \* dropoutTime in ticks
    QueueCap    \* capacity of frameChan

ASSUME ListenerAssumption ==
    /\ NumPorts \in 1..4
    /\ Dropout \in Nat \ {0}
    /\ QueueCap \in Nat \ {0}

Ports == 0..(NumPorts - 1)
NoPort == -1

VARIABLES
    activePort,   \* ml.activePort, NoPort while listening
    quiet,        \* ticks since lastPackets[p]; Dropout also stands for "never"
    frameChan,    \* ports of the frames in the channel, oldest first
    reader,       \* where each readFrom goroutine is
    stage,        \* the listener: "open", "cancelled", "unbound" or "closed"
    silence,      \* history: ticks since a valid packet was really handled on p
    newest        \* history: the port whose transmission began last

chanVars == <<frameChan, reader>>
vars == <<activePort, quiet, frameChan, reader, stage, silence, newest>>

-----------------------------------------------------------------------------
(* Routing.                                                                *)

Ended(p) == quiet[p] >= Dropout

\* Mutant of SelectPort: suppressed packets do not count as activity.
SelectPortForgetful(p) ==
    LET next == IF activePort = NoPort \/ Ended(activePort) \/ Ended(p) THEN p ELSE activePort
    IN  /\ activePort' = next
        /\ quiet' = IF next = p THEN [quiet EXCEPT ![p] = 0] ELSE quiet

\* selectPort: a silent active port is dropped first; a packet takes the
\* channel if nobody has it or if it begins a new transmission, and counts as
\* activity of its port even when it is suppressed.
SelectPort(p) ==
    /\ activePort' = IF activePort = NoPort \/ Ended(activePort) \/ Ended(p)
                     THEN p ELSE activePort
    /\ quiet' = [quiet EXCEPT ![p] = 0]

\* Mutant of Enqueue: the send waits for room, as it does without a default.
EnqueueWaiting(p) ==
    /\ Len(frameChan) < QueueCap
    /\ frameChan' = Append(frameChan, p)

\* The send of a selected frame: dropped when the channel is full, and
\* possibly when the listener has been cancelled.
Enqueue(p) ==
    \/ /\ Len(frameChan) < QueueCap
       /\ frameChan' = Append(frameChan, p)
    \/ /\ Len(frameChan) = QueueCap \/ stage # "open"
       /\ UNCHANGED frameChan

\* handlePacket.
HandlePacket(p) ==
    /\ reader[p] = "handle"
    /\ reader' = [reader EXCEPT ![p] = "top"]
    /\ SelectPort(p)
    /\ IF activePort' = p THEN Enqueue(p) ELSE UNCHANGED frameChan
    /\ silence' = [silence EXCEPT ![p] = 0]
    /\ newest' = IF silence[p] >= Dropout THEN p ELSE newest
    /\ UNCHANGED stage

\* Mutant of CheckDropout: any reader's idle tick frees the active port.
CheckDropoutHasty(p) ==
    /\ reader[p] = "top"
    /\ activePort # NoPort /\ Ended(p)
    /\ activePort' = NoPort
    /\ UNCHANGED <<quiet, chanVars, stage, silence, newest>>

\* checkDropout, on a reader's ticker; it is also possible after the
\* cancellation, when both cases of the select are ready.
CheckDropout(p) ==
    /\ reader[p] = "top"
    /\ activePort # NoPort /\ Ended(activePort)
    /\ activePort' = NoPort
    /\ UNCHANGED <<quiet, chanVars, stage, silence, newest>>

-----------------------------------------------------------------------------
(* The rest of readFrom.                                                   *)

\* The default case: ReadFrom is called unless the context is done.
BeginRead(p) ==
    /\ reader[p] = "top" /\ stage = "open"
    /\ reader' = [reader EXCEPT ![p] = "reading"]
    /\ UNCHANGED <<activePort, quiet, frameChan, stage, silence, newest>>

\* A valid audio packet has been read; ml.mu is not held yet.
Receive(p) ==
    /\ reader[p] = "reading" /\ stage \in {"open", "cancelled"}
    /\ reader' = [reader EXCEPT ![p] = "handle"]
    /\ UNCHANGED <<activePort, quiet, frameChan, stage, silence, newest>>

\* The read deadline, a packet that is not audio, or a read error.
ReadFails(p) ==
    /\ reader[p] = "reading"
    /\ reader' = [reader EXCEPT ![p] = "top"]
    /\ UNCHANGED <<activePort, quiet, frameChan, stage, silence, newest>>

\* The context is done, or the socket was closed under the read.
Leave(p) ==
    /\ \/ reader[p] = "top" /\ stage # "open"
       \/ reader[p] = "reading" /\ stage = "unbound"
    /\ reader' = [reader EXCEPT ![p] = "gone"]
    /\ UNCHANGED <<activePort, quiet, frameChan, stage, silence, newest>>

-----------------------------------------------------------------------------
(* The station's goroutine: ingestMulticast, then Close.                   *)

Consume ==
    /\ stage = "open" /\ frameChan # <<>>
    /\ frameChan' = Tail(frameChan)
    /\ UNCHANGED <<activePort, quiet, reader, stage, silence, newest>>

\* Close: cancel, close the sockets, wait for the readers, close frameChan.
Cancel ==
    /\ stage = "open"
    /\ stage' = "cancelled"
    /\ UNCHANGED <<activePort, quiet, chanVars, silence, newest>>

CloseSockets ==
    /\ stage = "cancelled"
    /\ stage' = "unbound"
    /\ UNCHANGED <<activePort, quiet, chanVars, silence, newest>>

CloseChannel ==
    /\ stage = "unbound"
    /\ \A p \in Ports : reader[p] = "gone"
    /\ stage' = "closed"
    /\ UNCHANGED <<activePort, quiet, chanVars, silence, newest>>

-----------------------------------------------------------------------------
Later(age) == [p \in Ports |-> IF age[p] < Dropout THEN age[p] + 1 ELSE Dropout]

Tick ==
    /\ quiet' = Later(quiet)
    /\ silence' = Later(silence)
    /\ UNCHANGED <<activePort, chanVars, stage, newest>>

Init ==
    /\ activePort = NoPort
    /\ quiet = [p \in Ports |-> Dropout]
    /\ frameChan = <<>>
    /\ reader = [p \in Ports |-> "top"]
    /\ stage = "open"
    /\ silence = [p \in Ports |-> Dropout]
    /\ newest = NoPort

Read(p) ==
    HandlePacket(p) \/ CheckDropout(p) \/ BeginRead(p) \/ Receive(p) \/ ReadFails(p) \/ Leave(p)

Close == CloseSockets \/ CloseChannel

Next ==
    \/ \E p \in Ports : Read(p)
    \/ Consume \/ Cancel \/ Close
    \/ Tick

Spec == Init /\ [][Next]_vars

\* Goroutines are scheduled and every ReadFrom returns (its deadline is 100 ms
\* away); no packet, no consumer and no Close is assumed.
Fairness == WF_vars(Close) /\ \A p \in Ports : WF_vars(Leave(p)) /\ WF_vars(HandlePacket(p))
                                               /\ WF_vars(ReadFails(p))

FairSpec == Spec /\ Fairness
-----------------------------------------------------------------------------
(* Properties.                                                             *)

\* Types and the channel's capacity.
TypeOK ==
    /\ activePort \in Ports \cup {NoPort}
    /\ newest \in Ports \cup {NoPort}
    /\ quiet \in [Ports -> 0..Dropout] /\ silence \in [Ports -> 0..Dropout]
    /\ frameChan \in Seq(Ports) /\ Len(frameChan) <= QueueCap
    /\ reader \in [Ports -> {"top", "reading", "handle", "gone"}]
    /\ stage \in {"open", "cancelled", "unbound", "closed"}

\* While the transmission that began last still sends, it has the channel,
\* whatever packets of older transmissions and dropout checks come between.
NewestIsActive ==
    newest # NoPort /\ silence[newest] < Dropout => activePort = newest

\* The comment on handlePacket: an older source enqueues no frame after a
\* newer transmission has taken over, until that one has been silent for
\* dropoutTime.
OlderStaysSuppressed ==
    [][Len(frameChan') > Len(frameChan) =>
         \/ frameChan'[Len(frameChan')] = newest'
         \/ silence[newest] >= Dropout]_vars

\* Close returns: no reader is stuck on a full channel nobody reads.
CloseFinishes == stage = "cancelled" ~> stage = "closed"
=============================================================================
