----------------------------- MODULE UplinkProofs -----------------------------
(* Proofs about the uplink and the edge's list, for any stream lists and any *)
(* number of connections, reloads and restarts.                              *)
EXTENDS Uplink, TLAPS

-----------------------------------------------------------------------------
(* Types.                                                                    *)

LEMMA InitType == Init => TypeOK
<1> SUFFICES ASSUME Init PROVE TypeOK
  OBVIOUS
<1>1. epoch \in Nat /\ changes \in 0..MaxChanges /\ dialled \in 0..MaxConns
  BY BoundsAssumption DEF Init
<1>2. open \subseteq Conns /\ hello \subseteq Conns
  BY DEF Init
<1>. QED
  BY <1>1, <1>2 DEF Init, TypeOK

\* The origin and its connections.
LEMMA OriginType ==
  ASSUME TypeOK,
         Dial \/ ServeEnds \/ Break \/ Reload \/ Restart \/ EdgeRestart \/ DropRelay
  PROVE  TypeOK'
<1> USE BoundsAssumption DEF TypeOK, originVars, dialVars, connVars, syncVars, relayVars,
                             Conns, NoConn
<1>1. CASE Dial
  BY <1>1 DEF Dial
<1>2. CASE ServeEnds \/ DropRelay
  BY <1>2 DEF ServeEnds, DropRelay
<1>3. CASE Break
  BY <1>3 DEF Break
<1>4. CASE Reload
  BY <1>4 DEF Reload
<1>5. CASE Restart
  <2>1. epoch' \in Nat /\ changes' \in 0..MaxChanges /\ list' \in Lists
    BY <1>5 DEF Restart
  <2>2. open' \subseteq Conns
    BY <1>5 DEF Restart
  <2>. QED
    BY <1>5, <2>1, <2>2 DEF Restart
<1>6. CASE EdgeRestart
  <2>1. changes' \in 0..MaxChanges
    BY <1>6 DEF EdgeRestart
  <2>2. open' \subseteq Conns /\ hello' \subseteq Conns
    BY <1>6 DEF EdgeRestart
  <2>. QED
    BY <1>6, <2>1, <2>2 DEF EdgeRestart
<1>. QED
  BY <1>1, <1>2, <1>3, <1>4, <1>5, <1>6

\* The edge.
LEMMA EdgeType ==
  ASSUME TypeOK,
         \/ \E c \in Conns : Attach(c)
         \/ \E token \in BOOLEAN : SyncAsk(token)
         \/ SyncAnswer \/ SyncFails \/ Apply \/ StationEnds
         \/ RelayAsk \/ Subscribe \/ RelayBreaks \/ RelayRetries
  PROVE  TypeOK'
<1> USE DEF TypeOK, originVars, dialVars, connVars, syncVars, relayVars
<1>1. ASSUME NEW c \in Conns, Attach(c) PROVE TypeOK'
  BY <1>1 DEF Attach
<1>2. ASSUME NEW token \in BOOLEAN, SyncAsk(token) PROVE TypeOK'
  <2>1. syncNow' \in BOOLEAN /\ spc' \in {"wait", "ask", "apply", "stop"}
        /\ svia' \in Conns \cup {NoConn}
    BY <1>2 DEF SyncAsk
  <2>. QED
    BY <1>2, <2>1 DEF SyncAsk
<1>3. CASE SyncAnswer \/ SyncFails
  BY <1>3 DEF SyncAnswer, SyncFails
<1>4. CASE Apply
  BY <1>4 DEF Apply
<1>5. CASE StationEnds
  BY <1>5 DEF StationEnds
<1>6. CASE RelayAsk
  BY <1>6 DEF RelayAsk
<1>7. CASE Subscribe \/ RelayBreaks \/ RelayRetries
  BY <1>7 DEF Subscribe, RelayBreaks, RelayRetries
<1>. QED
  BY <1>1, <1>2, <1>3, <1>4, <1>5, <1>6, <1>7

LEMMA NextType == TypeOK /\ [Next]_vars => TypeOK'
<1> SUFFICES ASSUME TypeOK, [Next]_vars PROVE TypeOK'
  OBVIOUS
<1>1. CASE UNCHANGED vars
  BY <1>1 DEF TypeOK, vars, originVars, dialVars, connVars, syncVars, relayVars
<1>2. CASE Next
  BY <1>2, OriginType, EdgeType DEF Next
<1>. QED
  BY <1>1, <1>2

\* Types, for every set of stream lists and every bound.
THEOREM UplinkTypeCorrect == Spec => []TypeOK
BY InitType, NextType, PTL DEF Spec

-----------------------------------------------------------------------------
(* Connections.                                                              *)

LEMMA NextConnection ==
  NoIdleConnection /\ [Next]_vars => NoIdleConnection'
<1> SUFFICES ASSUME NoIdleConnection, [Next]_vars PROVE NoIdleConnection'
  OBVIOUS
<1> USE DEF NoIdleConnection
<1>1. CASE UNCHANGED <<open, hello, tunnel>>
  BY <1>1
<1>2. CASE UNCHANGED vars
  BY <1>2, <1>1 DEF vars, connVars
<1>3. CASE Dial
  BY <1>3 DEF Dial
<1>4. CASE Break \/ Restart \/ EdgeRestart
  BY <1>4 DEF Break, Restart, EdgeRestart
<1>5. ASSUME NEW c \in Conns, Attach(c) PROVE NoIdleConnection'
  BY <1>5 DEF Attach
<1>6. CASE ServeEnds \/ Reload \/ DropRelay \/ \E token \in BOOLEAN : SyncAsk(token)
  BY <1>6, <1>1 DEF ServeEnds, Reload, DropRelay, SyncAsk, connVars
<1>7. CASE \/ SyncAnswer \/ SyncFails \/ Apply \/ StationEnds
           \/ RelayAsk \/ Subscribe \/ RelayBreaks \/ RelayRetries
  BY <1>7, <1>1 DEF SyncAnswer, SyncFails, Apply, StationEnds, RelayAsk, Subscribe,
                    RelayBreaks, RelayRetries, connVars
<1>. QED
  BY <1>2, <1>3, <1>4, <1>5, <1>6, <1>7 DEF Next

\* Every connection the origin serves is one the edge uses or is about to use,
\* in whatever order the edge attaches them and whatever breaks.
THEOREM ConnectionsInUse == Spec => []NoIdleConnection
<1>1. Init => NoIdleConnection
  BY DEF Init, NoIdleConnection
<1>. QED
  BY <1>1, NextConnection, PTL DEF Spec

-----------------------------------------------------------------------------
(* The list.                                                                 *)

\* What the edge shows, or is about to show, the origin has listed; what it is
\* about to take off the list, the origin has withdrawn.
Learnt ==
    /\ stations \cup answer \subseteq OriginList \cup withdrawn
    /\ spc = "apply" => stations \ answer \subseteq withdrawn

LEMMA NextLearnt == Learnt /\ [Next]_vars => Learnt'
<1> SUFFICES ASSUME Learnt, [Next]_vars PROVE Learnt'
  OBVIOUS
<1> USE DEF Learnt
<1>1. ASSUME UNCHANGED <<epoch, list, withdrawn, stations, answer>>,
             spc' = "apply" => spc = "apply"
      PROVE  Learnt'
  BY <1>1 DEF OriginList
<1>2. CASE UNCHANGED vars
  BY <1>2, <1>1 DEF vars, originVars, syncVars, stationVars
<1>3. CASE Reload
  <2>1. OriginList \subseteq OriginList' \cup withdrawn' /\ withdrawn \subseteq withdrawn'
    BY <1>3 DEF Reload, OriginList
  <2>. QED
    BY <1>3, <2>1 DEF Reload, syncVars, stationVars
<1>4. CASE Restart
  <2>1. OriginList \subseteq withdrawn' /\ withdrawn \subseteq withdrawn'
    BY <1>4 DEF Restart
  <2>. QED
    BY <1>4, <2>1 DEF Restart, syncVars, stationVars
<1>5. CASE EdgeRestart
  BY <1>5 DEF EdgeRestart
<1>6. CASE SyncAnswer
  <2>1. OriginList' = OriginList
    BY <1>6 DEF SyncAnswer, originVars, OriginList
  <2>. QED
    BY <1>6, <2>1 DEF SyncAnswer, originVars, stationVars
<1>7. CASE Apply
  <2>1. OriginList' = OriginList
    BY <1>7 DEF Apply, originVars, OriginList
  <2>2. spc' # "apply"
    BY <1>7 DEF Apply
  <2>. QED
    BY <1>7, <2>1, <2>2 DEF Apply, originVars
<1>8. CASE StationEnds
  BY <1>8, <1>1 DEF StationEnds, originVars
<1>9. CASE \/ Dial \/ ServeEnds \/ Break \/ DropRelay
           \/ \E c \in Conns : Attach(c)
           \/ \E token \in BOOLEAN : SyncAsk(token)
  BY <1>9, <1>1 DEF Dial, ServeEnds, Break, DropRelay, Attach, SyncAsk, originVars, syncVars,
                    stationVars
<1>10. CASE SyncFails \/ RelayAsk \/ Subscribe \/ RelayBreaks \/ RelayRetries
  BY <1>10, <1>1 DEF SyncFails, RelayAsk, Subscribe, RelayBreaks, RelayRetries,
                     originVars, syncVars, stationVars
<1>. QED
  BY <1>2, <1>3, <1>4, <1>5, <1>6, <1>7, <1>8, <1>9, <1>10 DEF Next

LEMMA StepStays ==
  Learnt /\ [Next]_vars => [stations \ stations' \subseteq withdrawn \/ EdgeRestart]_vars
<1> SUFFICES ASSUME Learnt, Next
             PROVE  stations \ stations' \subseteq withdrawn \/ EdgeRestart
  OBVIOUS
<1>1. CASE Apply
  BY <1>1 DEF Apply, Learnt
<1>2. CASE EdgeRestart
  BY <1>2
<1>3. CASE \/ Dial \/ ServeEnds \/ Break \/ Reload \/ Restart \/ DropRelay
           \/ \E c \in Conns : Attach(c)
           \/ \E token \in BOOLEAN : SyncAsk(token)
  BY <1>3 DEF Dial, ServeEnds, Break, Reload, Restart, DropRelay, Attach, SyncAsk,
              stationVars
<1>4. CASE \/ SyncAnswer \/ SyncFails \/ StationEnds
           \/ RelayAsk \/ Subscribe \/ RelayBreaks \/ RelayRetries
  BY <1>4 DEF SyncAnswer, SyncFails, StationEnds, RelayAsk, Subscribe, RelayBreaks,
              RelayRetries, stationVars
<1>. QED
  BY <1>1, <1>2, <1>3, <1>4 DEF Next

\* Only the origin takes a stream off the edge's list, or a restart of the edge:
\* no failure of the uplink and no answer that comes late does.
THEOREM StreamsStayOffline == Spec => StaysWhileOffline
<1>1. Init => Learnt
  BY DEF Init, Learnt
<1>. QED
  BY <1>1, NextLearnt, StepStays, PTL DEF Spec, StaysWhileOffline
=============================================================================
