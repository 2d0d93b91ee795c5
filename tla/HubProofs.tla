------------------------------ MODULE HubProofs ------------------------------
(* Proofs about the transcript hub, for any number of publishers, listeners *)
(* and events, any channel capacity and any file failures.                  *)
EXTENDS Hub, TLAPS

-----------------------------------------------------------------------------
(* Sequences of events.                                                      *)

LEMMA AppendEntries ==
  ASSUME NEW S, NEW q \in Seq(S), NEW x \in S
  PROVE  /\ Append(q, x) \in Seq(S)
         /\ Entries(Append(q, x)) = Entries(q) \cup {x}
         /\ Entries(q) \subseteq S
<1>1. /\ Len(q) \in Nat /\ Append(q, x) \in Seq(S) /\ Len(Append(q, x)) = Len(q) + 1
      /\ \A i \in 1..Len(q) : Append(q, x)[i] = q[i] /\ q[i] \in S
      /\ Append(q, x)[Len(q) + 1] = x
      /\ DOMAIN q = 1..Len(q) /\ DOMAIN Append(q, x) = 1..Len(q) + 1
  OBVIOUS
<1>2. \A i : i \in 1..Len(q) + 1 <=> i \in 1..Len(q) \/ i = Len(q) + 1
  BY <1>1
<1>. QED
  BY <1>1, <1>2 DEF Entries

\* got \o chan, when an event is sent and when one is taken.
LEMMA Join ==
  ASSUME NEW S, NEW g \in Seq(S), NEW c \in Seq(S)
  PROVE  /\ g \o c \in Seq(S)
         /\ \A x \in S : g \o Append(c, x) = Append(g \o c, x)
         /\ c # <<>> => /\ Head(c) \in S /\ Tail(c) \in Seq(S)
                        /\ Append(g, Head(c)) \o Tail(c) = g \o c
         /\ Entries(g) \subseteq Entries(g \o c)
<1>1. g \o c \in Seq(S) /\ \A x \in S : g \o Append(c, x) = Append(g \o c, x)
  OBVIOUS
<1>2. c # <<>> => /\ Head(c) \in S /\ Tail(c) \in Seq(S)
                  /\ Append(g, Head(c)) \o Tail(c) = g \o c
  OBVIOUS
<1>3. Entries(g) \subseteq Entries(g \o c)
  <2>1. \A i \in DOMAIN g : i \in DOMAIN (g \o c) /\ (g \o c)[i] = g[i]
    OBVIOUS
  <2>. QED
    BY <2>1 DEF Entries
<1>. QED
  BY <1>1, <1>2, <1>3

-----------------------------------------------------------------------------
(* Types, the calls of Publish, and the connections.                         *)

Active(p) == ppc[p] # "idle"

\* Each call has an event of its own, that is not done.
Calls ==
    /\ \A p \in Publishers : Active(p) => event[p] \in (1..issued) \ done
    /\ \A p, q \in Publishers : Active(p) /\ Active(q) /\ event[p] = event[q] => p = q
    /\ \A e \in Events : before[e] \subseteq done

\* A connection that has not subscribed is nowhere known.
Fresh ==
    /\ \A s \in Subs : handler[s] = "new" => s \notin subs \cup chanClosed
    /\ \A e \in Events : \A s \in snapshot[e] : handler[s] # "new"

HubInv == TypeOK /\ Calls /\ Fresh

LEMMA InitHub == Init => HubInv
<1> SUFFICES ASSUME Init PROVE HubInv
  OBVIOUS
<1>1. /\ issued \in 0..MaxEvents /\ done \subseteq 1..issued /\ aborted \subseteq 1..issued
      /\ event \in [Publishers -> 0..MaxEvents]
  BY HubAssumption DEF Init
<1>2. /\ log \in Seq(Events) /\ observed \in Seq(Events) /\ archive \in Seq(Events)
      /\ chan \in [Subs -> Seq(Events)] /\ got \in [Subs -> Seq(Events)]
      /\ \A s \in Subs : Len(chan[s]) <= BufCap
  BY HubAssumption DEF Init
<1>3. TypeOK
  BY <1>1, <1>2 DEF Init, TypeOK, Places
<1>4. Calls /\ Fresh
  BY DEF Init, Calls, Fresh, Active
<1>. QED
  BY <1>3, <1>4 DEF HubInv

\* The steps of Publish up to the copy of the subscribers.
LEMMA LogType ==
  ASSUME HubInv, NEW p \in Publishers,
         Begin(p) \/ AppendLog(p) \/ Observe(p) \/ AppendArchive(p) \/ CopySubs(p)
  PROVE  TypeOK'
<1> USE HubAssumption DEF HubInv, TypeOK, Places, At, Goto
<1>1. CASE Begin(p)
  <2>1. issued + 1 \in Events /\ issued' = issued + 1
    BY <1>1 DEF Begin, Events
  <2>2. /\ issued' \in 0..MaxEvents
        /\ done' \subseteq 1..issued' /\ aborted' \subseteq 1..issued'
    BY <1>1, <2>1 DEF Begin, Events
  <2>3. event' \in [Publishers -> 0..MaxEvents] /\ ppc' \in [Publishers -> Places]
    BY <1>1, <2>1 DEF Begin, Events
  <2>4. before' \in [Events -> SUBSET Events]
    BY <1>1, <2>1 DEF Begin, Events
  <2>5. UNCHANGED <<subVars, handlerVars, chan, targets, slow, process, fileVars, snapshot>>
    BY <1>1 DEF Begin
  <2>. QED
    BY <2>2, <2>3, <2>4, <2>5 DEF subVars, handlerVars, fileVars
<1>2. ASSUME Active(p) PROVE event[p] \in Events
  BY <1>2 DEF Calls, Events
<1>3. CASE AppendLog(p)
  <2>1. log' \in Seq(Events)
    BY <1>2, <1>3, AppendEntries DEF AppendLog, Active
  <2>. QED
    BY <1>3, <2>1 DEF AppendLog, subVars, handlerVars, histVars
<1>4. CASE Observe(p)
  <2>1. observed' \in Seq(Events)
    BY <1>2, <1>4, AppendEntries DEF Observe, Active
  <2>. QED
    BY <1>4, <2>1 DEF Observe, subVars, handlerVars, histVars
<1>5. CASE AppendArchive(p)
  <2>1. archive' \in Seq(Events)
    BY <1>2, <1>5, AppendEntries DEF AppendArchive, Active
  <2>. QED
    BY <1>5, <2>1 DEF AppendArchive, subVars, handlerVars, histVars
<1>6. CASE CopySubs(p)
  <2>1. targets' \in [Publishers -> SUBSET Subs] /\ snapshot' \in [Events -> SUBSET Subs]
    BY <1>2, <1>6 DEF CopySubs, Active
  <2>. QED
    BY <1>6, <2>1 DEF CopySubs, subVars, handlerVars, fileVars
<1>. QED
  BY <1>1, <1>3, <1>4, <1>5, <1>6

\* The sends and the return.
LEMMA SendType ==
  ASSUME HubInv, NEW p \in Publishers, Send(p) \/ DropSlow(p) \/ Return(p)
  PROVE  TypeOK'
<1> USE HubAssumption DEF HubInv, TypeOK, Places, At, Goto
<1>1. ASSUME Active(p) PROVE event[p] \in Events /\ event[p] \in 1..issued
  BY <1>1 DEF Calls, Events
<1>2. CASE Send(p)
  <2>1. PICK s \in targets[p] :
            /\ targets' = [targets EXCEPT ![p] = @ \ {s}]
            /\ SendFits(p, s) \/ SendBlocked(p, s) \/ SendPanics(p, s)
    BY <1>2 DEF Send
  <2>2. s \in Subs /\ targets' \in [Publishers -> SUBSET Subs] /\ ppc[p] = "send"
    BY <1>2, <2>1 DEF Send
  <2>3. CASE SendFits(p, s)
    <3>1. chan[s] \in Seq(Events) /\ event[p] \in Events
      BY <1>1, <2>2 DEF Active
    <3>2. Append(chan[s], event[p]) \in Seq(Events) /\ Len(Append(chan[s], event[p])) <= BufCap
      BY <2>3, <3>1 DEF SendFits
    <3>3. chan' \in [Subs -> Seq(Events)] /\ \A t \in Subs : Len(chan'[t]) <= BufCap
      BY <2>2, <2>3, <3>2 DEF SendFits
    <3>. QED
      BY <2>2, <2>3, <3>3 DEF SendFits, subVars, handlerVars, fileVars, histVars
  <2>4. CASE SendBlocked(p, s)
    BY <2>2, <2>4 DEF SendBlocked, subVars, handlerVars, fileVars, histVars
  <2>5. CASE SendPanics(p, s)
    BY <1>1, <2>2, <2>5 DEF SendPanics, subVars, handlerVars, fileVars, Active
  <2>. QED
    BY <2>1, <2>3, <2>4, <2>5
<1>3. CASE DropSlow(p)
  BY <1>3 DEF DropSlow, Unsubscribe, handlerVars, fileVars, histVars
<1>4. CASE Return(p)
  BY <1>1, <1>4 DEF Return, Active, subVars, handlerVars, fileVars
<1>. QED
  BY <1>2, <1>3, <1>4

LEMMA ConnectionType ==
  ASSUME HubInv, NEW s \in Subs, Connection(s)
  PROVE  TypeOK'
<1> USE HubAssumption DEF HubInv, TypeOK
<1>1. CASE Subscribe(s)
  BY <1>1 DEF Subscribe, Fresh, callVars, fileVars, histVars
<1>2. CASE Take(s)
  <2>1. chan[s] \in Seq(Events) /\ got[s] \in Seq(Events) /\ chan[s] # <<>>
    BY <1>2 DEF Take
  <2>2. /\ Tail(chan[s]) \in Seq(Events) /\ Append(got[s], Head(chan[s])) \in Seq(Events)
        /\ Len(Tail(chan[s])) <= BufCap
    BY <2>1
  <2>3. /\ chan' \in [Subs -> Seq(Events)] /\ got' \in [Subs -> Seq(Events)]
        /\ \A t \in Subs : Len(chan'[t]) <= BufCap
    BY <1>2, <2>2 DEF Take
  <2>. QED
    BY <1>2, <2>3 DEF Take, subVars, callVars, fileVars, histVars
<1>3. CASE Leave(s)
  BY <1>3 DEF Leave, Unsubscribe, callVars, fileVars, histVars
<1>. QED
  BY <1>1, <1>2, <1>3 DEF Connection

LEMMA NextType == HubInv /\ [Next]_vars => TypeOK'
<1> SUFFICES ASSUME HubInv, [Next]_vars PROVE TypeOK'
  OBVIOUS
<1>1. CASE UNCHANGED vars
  BY <1>1 DEF HubInv, TypeOK, vars, subVars, handlerVars, callVars, fileVars, histVars
<1>2. CASE Next
  BY <1>2, LogType, SendType, ConnectionType DEF Next, Continue
<1>. QED
  BY <1>1, <1>2

LEMMA NextCalls == HubInv /\ [Next]_vars => Calls'
<1> SUFFICES ASSUME HubInv, [Next]_vars PROVE Calls'
  OBVIOUS
<1> USE DEF HubInv
<1>1. ASSUME UNCHANGED <<event, before, done, issued>>,
             \A p \in Publishers : Active(p)' => Active(p)
      PROVE  Calls'
  BY <1>1 DEF Calls
<1>2. CASE UNCHANGED vars
  BY <1>2, <1>1 DEF vars, callVars, histVars, Active
<1>3. ASSUME NEW p \in Publishers, Begin(p) PROVE Calls'
  <2>1. /\ issued \in Nat /\ issued + 1 \in Events /\ issued' = issued + 1
        /\ done \subseteq 1..issued /\ UNCHANGED done
        /\ event' = [event EXCEPT ![p] = issued + 1] /\ event'[p] = issued + 1
        /\ before' = [before EXCEPT ![issued + 1] = done]
        /\ \A q \in Publishers : Active(q)' => q = p \/ Active(q)
    BY <1>3, HubAssumption DEF Begin, TypeOK, Active, At, Goto, Events
  <2>2. \A q \in Publishers : q # p => event'[q] = event[q]
    BY <2>1 DEF TypeOK
  <2>3. \A q \in Publishers : Active(q)' => event'[q] \in (1..issued') \ done'
    BY <2>1, <2>2 DEF Calls
  <2>4. \A q \in Publishers : q # p /\ Active(q)' => event'[q] # issued + 1
    BY <2>1, <2>2 DEF Calls
  <2>5. \A q, r \in Publishers :
            Active(q)' /\ Active(r)' /\ event'[q] = event'[r] => q = r
    BY <2>1, <2>2, <2>4 DEF Calls
  <2>6. \A e \in Events : before'[e] \subseteq done'
    BY <2>1 DEF Calls, TypeOK
  <2>. QED
    BY <2>3, <2>5, <2>6 DEF Calls
<1>4. ASSUME NEW p \in Publishers, Return(p) PROVE Calls'
  <2>1. /\ done' = done \cup {event[p]} /\ Active(p) /\ ~Active(p)'
        /\ UNCHANGED <<event, before, issued>>
        /\ \A q \in Publishers : Active(q)' => Active(q) /\ q # p
    BY <1>4 DEF Return, TypeOK, Active, At, Goto
  <2>. QED
    BY <2>1 DEF Calls
<1>5. ASSUME NEW p \in Publishers,
             AppendLog(p) \/ Observe(p) \/ AppendArchive(p) \/ CopySubs(p)
      PROVE  Calls'
  BY <1>5, <1>1 DEF AppendLog, Observe, AppendArchive, CopySubs, TypeOK, Active, At, Goto,
                    histVars
<1>6. ASSUME NEW p \in Publishers, Send(p) \/ DropSlow(p)
      PROVE  Calls'
  BY <1>6, <1>1 DEF Send, SendFits, SendBlocked, SendPanics, DropSlow, TypeOK, Active,
                    At, Goto, histVars
<1>7. ASSUME NEW s \in Subs, Connection(s) PROVE Calls'
  BY <1>7, <1>1 DEF Connection, Subscribe, Take, Leave, Active, callVars, histVars
<1>. QED
  BY <1>2, <1>3, <1>4, <1>5, <1>6, <1>7 DEF Next, Continue

LEMMA NextFresh == HubInv /\ [Next]_vars => Fresh'
<1> SUFFICES ASSUME HubInv, [Next]_vars PROVE Fresh'
  OBVIOUS
<1> USE DEF HubInv
<1>1. ASSUME UNCHANGED <<handler, snapshot>>,
             subs' \cup chanClosed' \subseteq subs \cup chanClosed
      PROVE  Fresh'
  BY <1>1 DEF Fresh
<1>2. CASE UNCHANGED vars
  BY <1>2, <1>1 DEF vars, subVars, handlerVars, histVars
<1>3. ASSUME NEW p \in Publishers, CopySubs(p) PROVE Fresh'
  <2>1. \A s \in subs : handler[s] # "new"
    BY DEF Fresh, TypeOK
  <2>2. \A e \in Events : snapshot'[e] \in {snapshot[e], subs}
    BY <1>3 DEF CopySubs, TypeOK
  <2>. QED
    BY <1>3, <2>1, <2>2 DEF CopySubs, Fresh, subVars, handlerVars
<1>4. ASSUME NEW p \in Publishers,
             Begin(p) \/ AppendLog(p) \/ Observe(p) \/ AppendArchive(p) \/ Return(p)
      PROVE  Fresh'
  BY <1>4, <1>1 DEF Begin, AppendLog, Observe, AppendArchive, Return, subVars, handlerVars,
                    histVars
<1>5. ASSUME NEW p \in Publishers, Send(p) \/ DropSlow(p) PROVE Fresh'
  BY <1>5, <1>1 DEF Send, SendFits, SendBlocked, SendPanics, DropSlow, Unsubscribe,
                    subVars, handlerVars, histVars
<1>6. ASSUME NEW s \in Subs, Connection(s) PROVE Fresh'
  <2>1. snapshot' = snapshot /\ \A t \in Subs : handler'[t] = "new" => handler[t] = "new"
    BY <1>6 DEF Connection, Subscribe, Take, Leave, histVars, TypeOK
  <2>2. handler'[s] = "new" => subs' \cup chanClosed' \subseteq subs \cup chanClosed
    BY <1>6 DEF Connection, Subscribe, Take, Leave, Unsubscribe, subVars, TypeOK
  <2>3. subs' \cup chanClosed' \subseteq subs \cup chanClosed \cup {s}
    BY <1>6 DEF Connection, Subscribe, Take, Leave, Unsubscribe, subVars
  <2>4. \A e \in Events : snapshot[e] \subseteq Subs
    BY DEF TypeOK
  <2>. QED
    BY <2>1, <2>2, <2>3, <2>4 DEF Fresh
<1>. QED
  BY <1>2, <1>3, <1>4, <1>5, <1>6 DEF Next, Continue

LEMMA HubInvariant == Spec => []HubInv
<1>1. HubInv /\ [Next]_vars => HubInv'
  BY NextType, NextCalls, NextFresh DEF HubInv
<1>. QED
  BY <1>1, InitHub, PTL DEF Spec

\* Types and the channels' capacity; a registered channel is open.
THEOREM HubTypeCorrect == Spec => []TypeOK
<1>1. HubInv => TypeOK
  BY DEF HubInv
<1>. QED
  BY <1>1, HubInvariant, PTL

-----------------------------------------------------------------------------
(* What a step does to the streams and the files: it appends the event of    *)
(* one call, or nothing.                                                     *)

LEMMA StreamStep ==
  ASSUME HubInv, [Next]_vars, NEW s \in Subs
  PROVE  /\ Stream(s) \in Seq(Events)
         /\ \/ Stream(s)' = Stream(s)
            \/ \E p \in Publishers :
                  /\ ppc[p] = "send"
                  /\ Stream(s)' = Append(Stream(s), event[p])
         /\ Entries(got[s]) \subseteq Entries(Stream(s))
<1> USE DEF HubInv
<1>1. got[s] \in Seq(Events) /\ chan[s] \in Seq(Events)
  BY DEF TypeOK
<1>2. ASSUME UNCHANGED <<got, chan>> PROVE Stream(s)' = Stream(s)
  BY <1>2 DEF Stream
<1>0. /\ Stream(s) \in Seq(Events) /\ Entries(got[s]) \subseteq Entries(Stream(s))
      /\ \A x \in Events : got[s] \o Append(chan[s], x) = Append(Stream(s), x)
      /\ chan[s] # <<>> => Append(got[s], Head(chan[s])) \o Tail(chan[s]) = Stream(s)
  <2> DEFINE g == got[s]
             c == chan[s]
  <2>1. g \in Seq(Events) /\ c \in Seq(Events)
    BY <1>1
  <2> HIDE DEF g, c
  <2>2. /\ g \o c \in Seq(Events)
        /\ \A x \in Events : g \o Append(c, x) = Append(g \o c, x)
        /\ c # <<>> => /\ Head(c) \in Events /\ Tail(c) \in Seq(Events)
                       /\ Append(g, Head(c)) \o Tail(c) = g \o c
        /\ Entries(g) \subseteq Entries(g \o c)
    BY <2>1, Join, Zenon
  <2>. QED
    BY <2>2 DEF g, c, Stream
<1>3. ASSUME UNCHANGED vars PROVE Stream(s)' = Stream(s)
  BY <1>3, <1>2 DEF vars, handlerVars
<1>4. ASSUME NEW p \in Publishers,
             \/ Begin(p) \/ AppendLog(p) \/ Observe(p) \/ AppendArchive(p) \/ CopySubs(p)
             \/ DropSlow(p) \/ Return(p)
      PROVE  Stream(s)' = Stream(s)
  BY <1>4, <1>2 DEF Begin, AppendLog, Observe, AppendArchive, CopySubs, DropSlow, Return,
                    handlerVars
<1>5. ASSUME NEW p \in Publishers, Send(p)
      PROVE  \/ Stream(s)' = Stream(s)
             \/ ppc[p] = "send" /\ Stream(s)' = Append(Stream(s), event[p])
  <2>1. PICK t \in targets[p] : SendFits(p, t) \/ SendBlocked(p, t) \/ SendPanics(p, t)
    BY <1>5 DEF Send
  <2>2. CASE SendBlocked(p, t) \/ SendPanics(p, t)
    BY <2>2, <1>2 DEF SendBlocked, SendPanics, handlerVars
  <2>3. CASE SendFits(p, t) /\ t # s
    <3>1. chan'[s] = chan[s] /\ got'[s] = got[s]
      BY <2>3 DEF SendFits, TypeOK, handlerVars
    <3>. QED
      BY <3>1 DEF Stream
  <2>4. CASE SendFits(p, t) /\ t = s
    <3>1. chan'[s] = Append(chan[s], event[p]) /\ got'[s] = got[s]
      BY <2>4 DEF SendFits, TypeOK, handlerVars
    <3>2. ppc[p] = "send"
      BY <1>5 DEF Send, At
    <3>3. event[p] \in Events
      BY <3>2, HubAssumption DEF Calls, Active, TypeOK, Events
    <3>. QED
      BY <1>0, <3>1, <3>2, <3>3 DEF Stream
  <2>. QED
    BY <2>1, <2>2, <2>3, <2>4
<1>6. ASSUME NEW t \in Subs, Connection(t)
      PROVE  Stream(s)' = Stream(s)
  <2>1. CASE Subscribe(t) \/ Leave(t)
    BY <2>1, <1>2 DEF Subscribe, Leave
  <2>2. CASE Take(t) /\ t # s
    <3>1. chan'[s] = chan[s] /\ got'[s] = got[s]
      BY <2>2 DEF Take, TypeOK
    <3>. QED
      BY <3>1 DEF Stream
  <2>3. CASE Take(t) /\ t = s
    <3>1. /\ chan[s] # <<>> /\ chan'[s] = Tail(chan[s])
          /\ got'[s] = Append(got[s], Head(chan[s]))
      BY <2>3 DEF Take, TypeOK
    <3>. QED
      BY <1>0, <3>1 DEF Stream
  <2>. QED
    BY <1>6, <2>1, <2>2, <2>3 DEF Connection
<1>. QED
  BY <1>0, <1>3, <1>4, <1>5, <1>6 DEF Next, Continue

LEMMA FileStep ==
  ASSUME HubInv, [Next]_vars
  PROVE  /\ log \in Seq(Events) /\ observed \in Seq(Events)
         /\ \/ log' = log
            \/ \E p \in Publishers : ppc[p] = "log" /\ log' = Append(log, event[p])
         /\ \/ observed' = observed
            \/ \E p \in Publishers :
                  ppc[p] = "observe" /\ observed' = Append(observed, event[p])
<1>1. CASE UNCHANGED <<log, observed>>
  BY <1>1 DEF HubInv, TypeOK
<1>2. CASE UNCHANGED vars
  BY <1>1, <1>2 DEF vars, fileVars
<1>3. ASSUME NEW p \in Publishers, AppendLog(p) \/ Observe(p)
      PROVE  /\ log' = log \/ (ppc[p] = "log" /\ log' = Append(log, event[p]))
             /\ \/ observed' = observed
                \/ ppc[p] = "observe" /\ observed' = Append(observed, event[p])
  BY <1>3 DEF AppendLog, Observe, At
<1>4. ASSUME NEW p \in Publishers,
             \/ Begin(p) \/ AppendArchive(p) \/ CopySubs(p) \/ Send(p)
             \/ DropSlow(p) \/ Return(p)
      PROVE  UNCHANGED <<log, observed>>
  BY <1>4 DEF Begin, AppendArchive, CopySubs, Send, SendFits, SendBlocked, SendPanics,
              DropSlow, Return, fileVars
<1>5. ASSUME NEW s \in Subs, Connection(s) PROVE UNCHANGED <<log, observed>>
  BY <1>5 DEF Connection, Subscribe, Take, Leave, fileVars
<1>. QED
  BY <1>1, <1>2, <1>3, <1>4, <1>5 DEF Next, Continue, HubInv, TypeOK

\* The history of a call, as it is issued and done.
LEMMA CallStep ==
  ASSUME HubInv, [Next]_vars
  PROVE  /\ issued' \in {issued, issued + 1} /\ done \subseteq done'
         /\ issued \in Nat /\ done \subseteq 1..issued
         /\ \A e \in 1..issued : e \in Events /\ before'[e] = before[e]
         /\ \A p \in Publishers : Active(p) => event'[p] = event[p]
<1>1. /\ issued \in Nat /\ done \subseteq 1..issued
      /\ \A e \in 1..issued : e \in Events
  BY HubAssumption DEF HubInv, TypeOK, Events
<1>2. CASE UNCHANGED <<issued, done, before, event>>
  BY <1>1, <1>2
<1>3. CASE UNCHANGED vars
  BY <1>2, <1>3 DEF vars, histVars, callVars
<1>4. ASSUME NEW p \in Publishers, Begin(p)
      PROVE  /\ issued' = issued + 1 /\ done' = done
             /\ \A e \in 1..issued : before'[e] = before[e]
             /\ \A q \in Publishers : Active(q) => event'[q] = event[q]
  BY <1>1, <1>4 DEF Begin, HubInv, TypeOK, Active, At
<1>5. ASSUME NEW p \in Publishers, Return(p)
      PROVE  UNCHANGED <<issued, before, event>> /\ done \subseteq done'
  BY <1>5 DEF Return
<1>6. ASSUME NEW p \in Publishers,
             \/ AppendLog(p) \/ Observe(p) \/ AppendArchive(p) \/ CopySubs(p) \/ Send(p)
             \/ DropSlow(p)
      PROVE  UNCHANGED <<issued, done, before, event>>
  BY <1>6 DEF AppendLog, Observe, AppendArchive, CopySubs, Send, SendFits, SendBlocked,
              SendPanics, DropSlow, histVars
<1>7. ASSUME NEW s \in Subs, Connection(s) PROVE UNCHANGED <<issued, done, before, event>>
  BY <1>7 DEF Connection, Subscribe, Take, Leave, histVars, callVars
<1>. QED
  BY <1>1, <1>2, <1>3, <1>4, <1>5, <1>6, <1>7 DEF Next, Continue

-----------------------------------------------------------------------------
(* Causal order.  An event is appended while its call runs, so it is neither *)
(* before itself nor before anything issued so far.                          *)

Ordered(q) == Entries(q) \subseteq 1..issued /\ InOrder(q)

\* A sequence that gets an event of a running call, or none, stays in order.
LEMMA StaysOrdered ==
  ASSUME HubInv, [Next]_vars, NEW q \in Seq(Events), Ordered(q), NEW r,
         \/ r = q
         \/ \E p \in Publishers : Active(p) /\ r = Append(q, event[p])
  PROVE  /\ \A e \in Entries(r) : e \in 1..issued'
         /\ \A i, k \in DOMAIN r : r[i] \in before'[r[k]] => i < k
<1> DEFINE n == Len(q)
<1>1. /\ n \in Nat /\ DOMAIN q = 1..n
      /\ \A i \in 1..n : q[i] \in 1..issued
      /\ \A i, k \in 1..n : q[i] \in before[q[k]] => i < k
  BY DEF Ordered, InOrder, Entries
<1>2. /\ \A e \in 1..issued : e \in 1..issued' /\ before'[e] = before[e]
      /\ \A e \in 1..issued : before[e] \subseteq done
  BY CallStep DEF HubInv, Calls
<1>3. CASE r = q
  BY <1>1, <1>2, <1>3 DEF Entries
<1>4. ASSUME NEW p \in Publishers, Active(p), r = Append(q, event[p])
      PROVE  /\ \A e \in Entries(r) : e \in 1..issued'
             /\ \A i, k \in DOMAIN r : r[i] \in before'[r[k]] => i < k
  <2>1. event[p] \in 1..issued /\ event[p] \notin done
    BY <1>4 DEF HubInv, Calls
  <2>2. event[p] \in Events
    BY <2>1, CallStep
  <2>3. /\ DOMAIN r = 1..n + 1 /\ r[n + 1] = event[p]
        /\ \A i \in 1..n : r[i] = q[i]
    <3>1. ASSUME NEW x \in Events
          PROVE  /\ DOMAIN Append(q, x) = 1..n + 1 /\ Append(q, x)[n + 1] = x
                 /\ \A i \in 1..n : Append(q, x)[i] = q[i]
      OBVIOUS
    <3>. QED
      BY <1>4, <2>2, <3>1
  <2>4. \A i \in 1..n + 1 : r[i] \in 1..issued /\ (i \in 1..n \/ i = n + 1)
    BY <1>1, <2>1, <2>3
  <2>5. \A i, k \in 1..n + 1 : r[i] \in before[r[k]] => i < k
    <3>1. ASSUME NEW i \in 1..n + 1, NEW k \in 1..n + 1, r[i] \in before[r[k]]
          PROVE  i < k
      <4>1. r[i] # event[p]
        BY <1>2, <2>1, <2>4, <3>1
      <4>2. i \in 1..n
        BY <2>3, <2>4, <4>1
      <4>. QED
        BY <1>1, <2>3, <2>4, <3>1, <4>2
    <3>. QED
      BY <3>1
  <2>. QED
    BY <1>2, <2>3, <2>4, <2>5 DEF Entries
<1>. QED
  BY <1>3, <1>4

OrderInv ==
    /\ \A s \in Subs : Ordered(Stream(s))
    /\ Ordered(log) /\ Ordered(observed)

LEMMA NextOrder == HubInv /\ OrderInv /\ [Next]_vars => OrderInv'
<1> SUFFICES ASSUME HubInv, OrderInv, [Next]_vars PROVE OrderInv'
  OBVIOUS
<1>1. ASSUME NEW s \in Subs PROVE Ordered(Stream(s))'
  <2>1. /\ Ordered(Stream(s)) /\ Stream(s) \in Seq(Events)
        /\ \/ Stream(s)' = Stream(s)
           \/ \E p \in Publishers : Active(p) /\ Stream(s)' = Append(Stream(s), event[p])
    BY StreamStep DEF OrderInv, Active
  <2>2. /\ \A e \in Entries(Stream(s)') : e \in 1..issued'
        /\ \A i, k \in DOMAIN Stream(s)' :
              Stream(s)'[i] \in before'[Stream(s)'[k]] => i < k
    BY <2>1, StaysOrdered
  <2>. QED
    BY <2>2 DEF Ordered, InOrder, Entries
<1>2. Ordered(log)'
  <2>1. /\ Ordered(log) /\ log \in Seq(Events)
        /\ log' = log \/ \E p \in Publishers : Active(p) /\ log' = Append(log, event[p])
    BY FileStep DEF OrderInv, Active
  <2>2. /\ \A e \in Entries(log') : e \in 1..issued'
        /\ \A i, k \in DOMAIN log' : log'[i] \in before'[log'[k]] => i < k
    BY <2>1, StaysOrdered
  <2>. QED
    BY <2>2 DEF Ordered, InOrder, Entries
<1>3. Ordered(observed)'
  <2>1. /\ Ordered(observed) /\ observed \in Seq(Events)
        /\ \/ observed' = observed
           \/ \E p \in Publishers : Active(p) /\ observed' = Append(observed, event[p])
    BY FileStep DEF OrderInv, Active
  <2>2. /\ \A e \in Entries(observed') : e \in 1..issued'
        /\ \A i, k \in DOMAIN observed' : observed'[i] \in before'[observed'[k]] => i < k
    BY <2>1, StaysOrdered
  <2>. QED
    BY <2>2 DEF Ordered, InOrder, Entries
<1>. QED
  BY <1>1, <1>2, <1>3 DEF OrderInv

LEMMA OrderInvariant == Spec => []OrderInv
<1>1. Init => OrderInv
  BY DEF Init, OrderInv, Ordered, InOrder, Entries, Stream
<1>. QED
  BY <1>1, NextOrder, HubInvariant, PTL DEF Spec

\* If one Publish returned before another began, no listener, no log and no
\* index ever has their events the other way round.
THEOREM KeepsCausalOrder == Spec => []CausalOrder
<1>1. OrderInv => CausalOrder
  BY DEF OrderInv, Ordered, CausalOrder
<1>. QED
  BY <1>1, OrderInvariant, PTL

-----------------------------------------------------------------------------
(* Nothing is shown that is not logged.                                      *)

LEMMA NothingIsLost ==
  ASSUME HubInv, [Next]_vars
  PROVE  /\ Entries(log) \subseteq Entries(log') /\ Entries(observed) \subseteq Entries(observed')
         /\ \A s \in Subs : Entries(Stream(s)) \subseteq Entries(Stream(s)')
<1>1. \A p \in Publishers : Active(p) => event[p] \in Events
  BY CallStep DEF HubInv, Calls
<1>2. ASSUME NEW q \in Seq(Events), NEW r,
             r = q \/ \E p \in Publishers : Active(p) /\ r = Append(q, event[p])
      PROVE  Entries(q) \subseteq Entries(r)
  <2>1. \A x \in Events : Entries(Append(q, x)) = Entries(q) \cup {x}
    BY AppendEntries
  <2>. QED
    BY <1>1, <1>2, <2>1
<1>3. /\ log \in Seq(Events) /\ observed \in Seq(Events)
      /\ log' = log \/ \E p \in Publishers : Active(p) /\ log' = Append(log, event[p])
      /\ \/ observed' = observed
         \/ \E p \in Publishers : Active(p) /\ observed' = Append(observed, event[p])
  BY FileStep DEF Active
<1>4. \A s \in Subs :
         /\ Stream(s) \in Seq(Events)
         /\ \/ Stream(s)' = Stream(s)
            \/ \E p \in Publishers : Active(p) /\ Stream(s)' = Append(Stream(s), event[p])
  BY StreamStep DEF Active
<1>. QED
  BY <1>2, <1>3, <1>4

IsLogged(e) == e \in Entries(log) \/ e \in Unwritable
IsObserved(e) == e \in Entries(observed)

\* How far a call that is not of a status event has got.
RecordedBy(p) ==
    Active(p) /\ ~Status(event[p]) =>
        /\ ppc[p] # "log" => IsLogged(event[p])
        /\ ppc[p] \notin {"log", "observe"} => IsObserved(event[p])

Recorded == \A p \in Publishers : RecordedBy(p)

Shown ==
    \A s \in Subs : \A e \in Entries(Stream(s)) :
        ~Status(e) => IsLogged(e) /\ IsObserved(e)

ShownInv == Recorded /\ Shown

LEMMA NextRecorded == HubInv /\ Recorded /\ [Next]_vars => Recorded'
<1> SUFFICES ASSUME HubInv, Recorded, [Next]_vars PROVE Recorded'
  OBVIOUS
<1>1. /\ Entries(log) \subseteq Entries(log')
      /\ Entries(observed) \subseteq Entries(observed')
  BY NothingIsLost
<1>2. ASSUME NEW q \in Publishers, UNCHANGED <<ppc[q], event[q]>>
      PROVE  RecordedBy(q)'
  BY <1>1, <1>2 DEF Recorded, RecordedBy, Active, IsLogged, IsObserved
<1>3. ASSUME NEW q \in Publishers, ppc'[q] = "idle"
      PROVE  RecordedBy(q)'
  BY <1>3 DEF RecordedBy, Active
<1>4. ASSUME NEW q \in Publishers, event'[q] = event[q], Active(q),
             ppc[q] \notin {"log", "observe"}
      PROVE  RecordedBy(q)'
  BY <1>1, <1>4 DEF Recorded, RecordedBy, Active, IsLogged, IsObserved
<1>5. ASSUME UNCHANGED <<ppc, event>> PROVE Recorded'
  BY <1>1, <1>5 DEF Recorded, RecordedBy, Active, IsLogged, IsObserved
<1>6. CASE UNCHANGED vars
  BY <1>6, <1>5 DEF vars, callVars
<1>7. ASSUME NEW s \in Subs, Connection(s) PROVE Recorded'
  BY <1>7, <1>5 DEF Connection, Subscribe, Take, Leave, callVars
<1>8. ASSUME NEW p \in Publishers, Begin(p) \/ Continue(p)
      PROVE  Recorded'
  <2>1. \A q \in Publishers : q # p => UNCHANGED <<ppc[q], event[q]>>
    BY <1>8 DEF Begin, Continue, AppendLog, Observe, AppendArchive, CopySubs, Send, SendFits,
                SendBlocked, SendPanics, DropSlow, Return, Goto, HubInv, TypeOK
  <2>2. RecordedBy(p)'
    <3>1. CASE Begin(p)
      <4>1. event'[p] = issued + 1 /\ ppc'[p] = IF Status(issued + 1) THEN "copy" ELSE "log"
        BY <3>1 DEF Begin, Goto, HubInv, TypeOK
      <4>. QED
        BY <4>1 DEF RecordedBy
    <3>2. ASSUME Active(p) PROVE event[p] \in Events
      BY <3>2, CallStep DEF HubInv, Calls
    <3>3. CASE AppendLog(p)
      <4>1. event'[p] = event[p] /\ ppc'[p] = "observe" /\ Active(p)
            /\ log' = IF event[p] \in Unwritable THEN log ELSE Append(log, event[p])
        BY <3>3 DEF AppendLog, At, Goto, Active, HubInv, TypeOK
      <4>2. event[p] \in Unwritable \/ event[p] \in Entries(log')
        BY <3>2, <4>1, FileStep, AppendEntries
      <4>. QED
        BY <4>1, <4>2 DEF RecordedBy, IsLogged
    <3>4. CASE Observe(p)
      <4>1. /\ event'[p] = event[p] /\ ppc'[p] = "archive" /\ Active(p) /\ ppc[p] = "observe"
            /\ observed' = Append(observed, event[p])
        BY <3>4 DEF Observe, At, Goto, Active, HubInv, TypeOK
      <4>2. event[p] \in Entries(observed')
        BY <3>2, <4>1, FileStep, AppendEntries
      <4>3. ~Status(event[p]) => IsLogged(event[p])
        BY <4>1 DEF Recorded, RecordedBy
      <4>. QED
        BY <1>1, <4>1, <4>2, <4>3 DEF RecordedBy, IsLogged, IsObserved
    <3>5. CASE AppendArchive(p) \/ CopySubs(p) \/ Send(p) \/ DropSlow(p) \/ Return(p)
      <4>1. event'[p] = event[p] /\ Active(p) /\ ppc[p] \notin {"log", "observe"}
        BY <3>5 DEF AppendArchive, CopySubs, Send, SendFits, SendBlocked, SendPanics,
                    DropSlow, Return, At, Active
      <4>. QED
        BY <4>1, <1>4
    <3>. QED
      BY <1>8, <3>1, <3>3, <3>4, <3>5 DEF Continue
  <2>. QED
    BY <1>2, <2>1, <2>2 DEF Recorded
<1>. QED
  BY <1>6, <1>7, <1>8 DEF Next

LEMMA NextShown == HubInv /\ ShownInv /\ [Next]_vars => Shown'
<1> SUFFICES ASSUME HubInv, ShownInv, [Next]_vars, NEW s \in Subs,
                    NEW e \in Entries(Stream(s)'), ~Status(e)
             PROVE  IsLogged(e)' /\ IsObserved(e)'
  BY DEF Shown
<1>1. (IsLogged(e) => IsLogged(e)') /\ (IsObserved(e) => IsObserved(e)')
  BY NothingIsLost DEF IsLogged, IsObserved
<1>2. CASE e \in Entries(Stream(s))
  BY <1>1, <1>2 DEF ShownInv, Shown
<1>3. CASE e \notin Entries(Stream(s))
  <2>1. PICK p \in Publishers : ppc[p] = "send" /\ Stream(s)' = Append(Stream(s), event[p])
    BY <1>3, StreamStep
  <2>2. event[p] \in Events
    BY <2>1, CallStep DEF HubInv, Calls, Active
  <2>3. e = event[p]
    BY <1>3, <2>1, <2>2, AppendEntries, StreamStep
  <2>. QED
    BY <1>1, <2>1, <2>3 DEF ShownInv, Recorded, RecordedBy, Active
<1>. QED
  BY <1>2, <1>3

LEMMA ShownInvariant == Spec => []ShownInv
<1>1. Init => ShownInv
  BY DEF Init, ShownInv, Recorded, RecordedBy, Shown, Active, Entries, Stream
<1>2. HubInv /\ ShownInv /\ [Next]_vars => ShownInv'
  BY NextRecorded, NextShown DEF ShownInv
<1>. QED
  BY <1>1, <1>2, HubInvariant, PTL DEF Spec

\* What a listener has been shown is in the log and known to the index, unless
\* its write failed, whatever else was published meanwhile.
THEOREM ShownSurvivesReload == Spec => []ShownIsLogged
<1>1. HubInv /\ ShownInv => ShownIsLogged
  <2> SUFFICES ASSUME HubInv, ShownInv, NEW s \in Subs, NEW e \in Entries(got[s]),
                      KindOf[e] # "status"
               PROVE  IsLogged(e) /\ IsObserved(e)
    BY DEF ShownIsLogged, IsLogged, IsObserved
  <2>1. Entries(got[s]) \subseteq Entries(Stream(s))
    <3>1. got[s] \in Seq(Events) /\ chan[s] \in Seq(Events)
      BY DEF HubInv, TypeOK
    <3>. QED
      BY <3>1, Join DEF Stream
  <2>. QED
    BY <2>1 DEF ShownInv, Shown, Status
<1>. QED
  BY <1>1, HubInvariant, ShownInvariant, PTL

-----------------------------------------------------------------------------
(* No silent gap.                                                            *)

\* Only a call that is dropping a subscriber has one, and only one.
Dropping ==
    \A p \in Publishers :
        /\ slow[p] # {} => ppc[p] = "drop"
        /\ \A s, t \in slow[p] : s = t

\* Those a call has still to send to, is about to drop, or has sent to.
Reached(p) ==
    \A s \in snapshot[event[p]] \cap subs :
        s \in targets[p] \/ s \in slow[p] \/ event[p] \in Entries(Stream(s))

NoGap ==
    /\ Dropping
    /\ \A p \in Publishers : ppc[p] \in {"send", "drop"} => Reached(p)
    /\ DeliveredOrDropped

\* A subscriber of an old snapshot was subscribed before the step.
LEMMA OldSubscribers ==
  ASSUME HubInv, [Next]_vars, NEW e \in Events, snapshot'[e] = snapshot[e]
  PROVE  snapshot'[e] \cap subs' \subseteq snapshot[e] \cap subs
<1>1. CASE subs' \subseteq subs
  BY <1>1
<1>2. CASE UNCHANGED vars
  BY <1>1, <1>2 DEF vars, subVars
<1>3. ASSUME NEW p \in Publishers, Begin(p) \/ Continue(p) PROVE subs' \subseteq subs
  BY <1>3 DEF Begin, Continue, AppendLog, Observe, AppendArchive, CopySubs, Send, SendFits,
              SendBlocked, SendPanics, DropSlow, Return, Unsubscribe, subVars
<1>4. ASSUME NEW s \in Subs, Take(s) \/ Leave(s) PROVE subs' \subseteq subs
  BY <1>4 DEF Take, Leave, Unsubscribe, subVars
<1>5. ASSUME NEW s \in Subs, Subscribe(s)
      PROVE  snapshot'[e] \cap subs' \subseteq snapshot[e] \cap subs
  <2>1. s \notin snapshot[e]
    BY <1>5 DEF Subscribe, HubInv, Fresh
  <2>. QED
    BY <1>5, <2>1 DEF Subscribe
<1>. QED
  BY <1>1, <1>2, <1>3, <1>4, <1>5 DEF Next, Connection

\* A call that is not at work in this step stays where it is.
LEMMA StaysReached ==
  ASSUME HubInv, [Next]_vars, NEW p \in Publishers, Active(p), Reached(p),
         UNCHANGED <<event[p], targets[p], slow[p], snapshot[event[p]]>>
  PROVE  Reached(p)'
<1>1. event[p] \in Events /\ snapshot[event[p]] \subseteq Subs
  BY CallStep DEF HubInv, Calls, TypeOK
<1>2. snapshot'[event[p]] \cap subs' \subseteq snapshot[event[p]] \cap subs
  BY <1>1, OldSubscribers
<1>3. \A s \in Subs : Entries(Stream(s)) \subseteq Entries(Stream(s)')
  BY NothingIsLost
<1>4. event'[p] = event[p] /\ targets'[p] = targets[p] /\ slow'[p] = slow[p]
      /\ snapshot'[event'[p]] = snapshot[event[p]]
  OBVIOUS
<1>5. ASSUME NEW s \in snapshot'[event'[p]] \cap subs'
      PROVE  s \in targets'[p] \/ s \in slow'[p] \/ event'[p] \in Entries(Stream(s)')
  <2>1. s \in snapshot[event[p]] \cap subs /\ s \in Subs
    BY <1>1, <1>2, <1>4, <1>5
  <2>2. s \in targets[p] \/ s \in slow[p] \/ event[p] \in Entries(Stream(s))
    BY <2>1 DEF Reached
  <2>. QED
    BY <1>3, <1>4, <2>1, <2>2
<1>. QED
  BY <1>5 DEF Reached

LEMMA NextDropping == HubInv /\ Dropping /\ [Next]_vars => Dropping'
<1> SUFFICES ASSUME HubInv, Dropping, [Next]_vars PROVE Dropping'
  OBVIOUS
<1> USE DEF HubInv, TypeOK
<1>1. CASE UNCHANGED <<ppc, slow>>
  BY <1>1 DEF Dropping
<1>2. CASE UNCHANGED vars
  BY <1>1, <1>2 DEF vars, callVars
<1>3. ASSUME NEW s \in Subs, Connection(s) PROVE Dropping'
  BY <1>1, <1>3 DEF Connection, Subscribe, Take, Leave, callVars
<1>4. ASSUME NEW p \in Publishers,
             \/ Begin(p) \/ AppendLog(p) \/ Observe(p) \/ AppendArchive(p) \/ CopySubs(p)
             \/ Return(p)
      PROVE  Dropping'
  <2>1. /\ UNCHANGED slow /\ ppc[p] # "drop"
        /\ \A q \in Publishers : q # p => ppc'[q] = ppc[q]
    BY <1>4 DEF Begin, AppendLog, Observe, AppendArchive, CopySubs, Return, At, Goto
  <2>2. \A q \in Publishers :
            slow'[q] = slow[q] /\ (ppc[q] = "drop" => ppc'[q] = "drop")
    BY <2>1
  <2>. HIDE DEF HubInv, TypeOK
  <2>. QED
    BY <2>2 DEF Dropping
<1>5. ASSUME NEW p \in Publishers, DropSlow(p) PROVE Dropping'
  <2>1. /\ slow'[p] = {}
        /\ \A q \in Publishers : q # p => ppc'[q] = ppc[q] /\ slow'[q] = slow[q]
    BY <1>5 DEF DropSlow, Goto
  <2>. QED
    BY <2>1 DEF Dropping
<1>6. ASSUME NEW p \in Publishers, Send(p) PROVE Dropping'
  <2>1. ppc[p] = "send" /\ slow[p] = {}
    BY <1>6 DEF Send, At, Dropping
  <2>2. PICK s \in targets[p] : SendFits(p, s) \/ SendBlocked(p, s) \/ SendPanics(p, s)
    BY <1>6 DEF Send
  <2>3. /\ slow'[p] = {} \/ (slow'[p] = {s} /\ ppc'[p] = "drop")
        /\ \A q \in Publishers : q # p => ppc'[q] = ppc[q] /\ slow'[q] = slow[q]
    BY <2>1, <2>2 DEF SendFits, SendBlocked, SendPanics, Goto
  <2>. HIDE DEF HubInv, TypeOK
  <2>4. /\ slow'[p] # {} => ppc'[p] = "drop"
        /\ \A t, u \in slow'[p] : t = u
    BY <2>3
  <2>5. ASSUME NEW q \in Publishers, q # p
        PROVE  /\ slow'[q] # {} => ppc'[q] = "drop"
               /\ \A t, u \in slow'[q] : t = u
    BY <2>3, <2>5 DEF Dropping
  <2>. QED
    BY <2>4, <2>5 DEF Dropping
<1>. QED
  BY <1>2, <1>3, <1>4, <1>5, <1>6 DEF Next, Continue

\* The subscribers a call was meant for are known once it has begun to send.
LEMMA SnapshotStep ==
  ASSUME HubInv, [Next]_vars
  PROVE  \/ snapshot' = snapshot
         \/ \E p \in Publishers :
               /\ CopySubs(p) /\ Active(p)
               /\ snapshot' = [snapshot EXCEPT ![event[p]] = subs]
<1>1. CASE UNCHANGED vars
  BY <1>1 DEF vars, histVars
<1>2. ASSUME NEW s \in Subs, Connection(s) PROVE snapshot' = snapshot
  BY <1>2 DEF Connection, Subscribe, Take, Leave, histVars
<1>3. ASSUME NEW p \in Publishers,
             \/ Begin(p) \/ AppendLog(p) \/ Observe(p) \/ AppendArchive(p)
             \/ Send(p) \/ DropSlow(p) \/ Return(p)
      PROVE  snapshot' = snapshot
  BY <1>3 DEF Begin, AppendLog, Observe, AppendArchive, Send, SendFits, SendBlocked,
              SendPanics, DropSlow, Return, histVars
<1>4. ASSUME NEW p \in Publishers, CopySubs(p)
      PROVE  Active(p) /\ snapshot' = [snapshot EXCEPT ![event[p]] = subs]
  BY <1>4 DEF CopySubs, At, Active
<1>. QED
  BY <1>1, <1>2, <1>3, <1>4 DEF Next, Continue

\* A call's own step while it sends.
LEMMA SendReaches ==
  ASSUME HubInv, NoGap, [Next]_vars, NEW p \in Publishers,
         CopySubs(p) \/ Send(p) \/ DropSlow(p)
  PROVE  ppc'[p] \in {"send", "drop"} => Reached(p)'
<1> USE DEF HubInv, TypeOK
<1>0. event'[p] = event[p] /\ Active(p) /\ event[p] \in Events
  <2>1. event'[p] = event[p] /\ Active(p)
    BY DEF CopySubs, Send, SendFits, SendBlocked, SendPanics, DropSlow, At, Active
  <2>. QED
    BY <2>1, CallStep DEF Calls
<1>1. CASE CopySubs(p)
  <2>1. targets'[p] = subs /\ snapshot'[event'[p]] = subs /\ subs' = subs
    BY <1>0, <1>1 DEF CopySubs, subVars
  <2>. QED
    BY <2>1 DEF Reached
<1>2. CASE Send(p) \/ DropSlow(p)
  <2>1. /\ Reached(p) /\ snapshot' = snapshot /\ subs' \subseteq subs
        /\ snapshot[event[p]] \subseteq Subs
    <3>1. ppc[p] \in {"send", "drop"}
      BY <1>2 DEF Send, DropSlow, At
    <3>2. snapshot' = snapshot /\ subs' \subseteq subs
      BY <1>2 DEF Send, SendFits, SendBlocked, SendPanics, DropSlow, Unsubscribe, histVars,
                  subVars
    <3>. QED
      BY <1>0, <3>1, <3>2 DEF NoGap
  <2>2. \A s \in Subs : Entries(Stream(s)) \subseteq Entries(Stream(s)')
    BY NothingIsLost
  <2>3. ASSUME NEW s \in snapshot[event[p]] \cap subs, s \in subs',
               ppc'[p] \in {"send", "drop"}
        PROVE  s \in targets'[p] \/ s \in slow'[p] \/ event[p] \in Entries(Stream(s)')
    <3>1. s \in targets[p] \/ s \in slow[p] \/ event[p] \in Entries(Stream(s))
      BY <2>1 DEF Reached
    <3>2. s \in Subs
      BY <2>1
    <3>3. CASE event[p] \in Entries(Stream(s))
      BY <2>2, <3>2, <3>3
    <3>4. CASE DropSlow(p)
      <4>1. PICK t \in slow[p] : Unsubscribe(t)
        BY <3>4 DEF DropSlow
      <4>2. s # t
        BY <2>3, <4>1 DEF Unsubscribe
      <4>3. s \notin slow[p] /\ targets'[p] = targets[p]
        BY <3>4, <4>1, <4>2 DEF NoGap, Dropping, DropSlow
      <4>. QED
        BY <3>1, <3>3, <4>3
    <3>5. CASE Send(p)
      <4>1. PICK t \in targets[p] :
                /\ targets' = [targets EXCEPT ![p] = @ \ {t}]
                /\ SendFits(p, t) \/ SendBlocked(p, t) \/ SendPanics(p, t)
        BY <3>5 DEF Send
      <4>2. slow[p] = {} /\ ppc[p] = "send"
        BY <3>5 DEF Send, At, NoGap, Dropping
      <4>3. targets'[p] = targets[p] \ {t}
        BY <4>1
      <4>4. CASE SendPanics(p, t)
        BY <2>3, <4>4 DEF SendPanics, Goto
      <4>5. CASE SendBlocked(p, t)
        <5>1. slow'[p] = {t}
          BY <4>5 DEF SendBlocked
        <5>. QED
          BY <3>1, <3>3, <4>2, <4>3, <5>1
      <4>6. CASE SendFits(p, t) /\ s = t
        <5>1. chan'[s] = Append(chan[s], event[p]) /\ got'[s] = got[s]
          BY <3>2, <4>6 DEF SendFits, handlerVars
        <5>2. /\ got[s] \in Seq(Events) /\ chan[s] \in Seq(Events)
          BY <3>2
        <5>3. got[s] \o Append(chan[s], event[p]) = Append(got[s] \o chan[s], event[p])
              /\ got[s] \o chan[s] \in Seq(Events)
          BY <1>0, <5>2, Join
        <5>4. event[p] \in Entries(Append(got[s] \o chan[s], event[p]))
          <6>1. \A r \in Seq(Events) : \A x \in Events : x \in Entries(Append(r, x))
            BY AppendEntries
          <6>. QED
            BY <1>0, <5>3, <6>1
        <5>. QED
          BY <5>1, <5>3, <5>4 DEF Stream
      <4>7. CASE SendFits(p, t) /\ s # t
        BY <3>1, <3>3, <4>2, <4>3, <4>7
      <4>. QED
        BY <4>1, <4>4, <4>5, <4>6, <4>7
    <3>. QED
      BY <1>2, <3>4, <3>5
  <2>. QED
    BY <1>0, <2>1, <2>3 DEF Reached
<1>. QED
  BY <1>1, <1>2

LEMMA NextReached ==
  ASSUME HubInv, NoGap, [Next]_vars, NEW q \in Publishers, ppc'[q] \in {"send", "drop"}
  PROVE  Reached(q)'
<1> USE DEF HubInv, TypeOK
<1>1. ASSUME UNCHANGED <<ppc[q], event[q], targets[q], slow[q]>>
      PROVE  Reached(q)'
  <2>1. Active(q) /\ Reached(q) /\ event[q] \in Events
    BY <1>1, CallStep DEF NoGap, Active, Calls
  <2>2. snapshot'[event[q]] = snapshot[event[q]]
    <3>1. CASE snapshot' = snapshot
      BY <3>1
    <3>2. ASSUME NEW p \in Publishers, CopySubs(p), Active(p),
                 snapshot' = [snapshot EXCEPT ![event[p]] = subs]
          PROVE  snapshot'[event[q]] = snapshot[event[q]]
      <4>1. ppc[p] = "copy"
        BY <3>2 DEF CopySubs, At
      <4>2. p # q
        BY <1>1, <4>1
      <4>3. event[p] # event[q]
        BY <2>1, <3>2, <4>2 DEF Calls
      <4>. QED
        BY <3>2, <4>3
    <3>. QED
      BY <3>1, <3>2, SnapshotStep
  <2>3. event'[q] = event[q] /\ snapshot'[event'[q]] = snapshot[event[q]]
    BY <1>1, <2>2
  <2>. QED
    BY <1>1, <2>1, <2>3, StaysReached
<1>2. CASE UNCHANGED callVars
  BY <1>1, <1>2 DEF callVars
<1>3. CASE UNCHANGED vars
  BY <1>2, <1>3 DEF vars
<1>4. ASSUME NEW s \in Subs, Connection(s) PROVE UNCHANGED callVars
  BY <1>4 DEF Connection, Subscribe, Take, Leave
<1>5. ASSUME NEW p \in Publishers, Begin(p) \/ Continue(p)
      PROVE  Reached(q)'
  <2>1. CASE p # q
    <3>1. UNCHANGED <<ppc[q], event[q], targets[q], slow[q]>>
      BY <1>5, <2>1 DEF Begin, Continue, AppendLog, Observe, AppendArchive, CopySubs, Send,
                        SendFits, SendBlocked, SendPanics, DropSlow, Return, Goto
    <3>. QED
      BY <1>1, <3>1
  <2>2. CASE p = q
    <3>1. CopySubs(q) \/ Send(q) \/ DropSlow(q)
      BY <1>5, <2>2 DEF Begin, Continue, AppendLog, Observe, AppendArchive, Return, Goto
    <3>. QED
      BY <3>1, SendReaches
  <2>. QED
    BY <2>1, <2>2
<1>. QED
  BY <1>2, <1>3, <1>4, <1>5 DEF Next

LEMMA NextDelivered == HubInv /\ NoGap /\ [Next]_vars => DeliveredOrDropped'
<1> SUFFICES ASSUME HubInv, NoGap, [Next]_vars,
                    NEW e \in done', NEW s \in snapshot'[e] \cap subs'
             PROVE  e \in Entries(Stream(s)')
  BY DEF DeliveredOrDropped
<1> USE DEF HubInv, TypeOK
<1>1. CASE e \in done
  <2>1. e \in Events
    BY <1>1, CallStep
  <2>2. snapshot'[e] = snapshot[e]
    <3>1. \A p \in Publishers : Active(p) => event[p] # e
      BY <1>1 DEF Calls
    <3>. QED
      BY <2>1, <3>1, SnapshotStep
  <2>3. s \in snapshot[e] \cap subs /\ s \in Subs
    BY <2>1, <2>2, OldSubscribers
  <2>4. e \in Entries(Stream(s))
    BY <1>1, <2>3 DEF NoGap, DeliveredOrDropped
  <2>. QED
    BY <2>3, <2>4, NothingIsLost
<1>2. ASSUME NEW p \in Publishers, Return(p), e = event[p]
      PROVE  e \in Entries(Stream(s)')
  <2>1. /\ ppc[p] = "send" /\ targets[p] = {} /\ snapshot' = snapshot
        /\ UNCHANGED <<subs, got, chan>>
    BY <1>2 DEF Return, At, histVars, subVars, handlerVars
  <2>2. slow[p] = {}
    BY <2>1 DEF NoGap, Dropping
  <2>3. e \in Entries(Stream(s))
    BY <1>2, <2>1, <2>2 DEF NoGap, Reached
  <2>. QED
    BY <2>1, <2>3 DEF Stream
<1>3. e \in done \/ \E p \in Publishers : Return(p) /\ e = event[p]
  <2>1. CASE done' = done
    BY <2>1
  <2>2. CASE UNCHANGED vars
    BY <2>1, <2>2 DEF vars, histVars
  <2>3. ASSUME NEW t \in Subs, Connection(t) PROVE done' = done
    BY <2>3 DEF Connection, Subscribe, Take, Leave, histVars
  <2>4. ASSUME NEW p \in Publishers,
               \/ Begin(p) \/ AppendLog(p) \/ Observe(p) \/ AppendArchive(p)
               \/ CopySubs(p) \/ Send(p) \/ DropSlow(p)
        PROVE  done' = done
    BY <2>4 DEF Begin, AppendLog, Observe, AppendArchive, CopySubs, Send, SendFits,
                SendBlocked, SendPanics, DropSlow, histVars
  <2>5. ASSUME NEW p \in Publishers, Return(p) PROVE done' = done \cup {event[p]}
    BY <2>5 DEF Return
  <2>. QED
    BY <2>1, <2>2, <2>3, <2>4, <2>5 DEF Next, Continue
<1>. QED
  BY <1>1, <1>2, <1>3

LEMMA NoGapInvariant == Spec => []NoGap
<1>1. Init => NoGap
  BY DEF Init, NoGap, Dropping, DeliveredOrDropped
<1>2. HubInv /\ NoGap /\ [Next]_vars => NoGap'
  <2> SUFFICES ASSUME HubInv, NoGap, [Next]_vars PROVE NoGap'
    OBVIOUS
  <2>1. Dropping'
    BY NextDropping DEF NoGap
  <2>2. \A q \in Publishers : ppc'[q] \in {"send", "drop"} => Reached(q)'
    BY NextReached
  <2>3. DeliveredOrDropped'
    BY NextDelivered
  <2>. QED
    BY <2>1, <2>2, <2>3 DEF NoGap
<1>. QED
  BY <1>1, <1>2, HubInvariant, PTL DEF Spec

\* No silent gap: once Publish has returned, every subscriber it was meant for
\* has the event or is no longer subscribed.
THEOREM NoSilentGap == Spec => []DeliveredOrDropped
<1>1. NoGap => DeliveredOrDropped
  BY DEF NoGap
<1>. QED
  BY <1>1, NoGapInvariant, PTL
=============================================================================
