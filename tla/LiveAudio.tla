------------------------------ MODULE LiveAudio ------------------------------
(***************************************************************************)
(* What live listening promises, whatever lies between a radio and a page: *)
(* a listener hears frames of the stream only while tuned in, in the order *)
(* they were broadcast, none twice and none that was never broadcast.      *)
(* Frames may be missed: audio is dropped rather than delayed.             *)
(***************************************************************************)
EXTENDS Naturals

CONSTANT Listeners

VARIABLES sent,     \* frames broadcast so far; frame n is the n-th
          tuned,    \* listeners that are subscribed
          heard     \* per listener: the latest frame heard

vars == <<sent, tuned, heard>>

Init ==
    /\ sent = 0
    /\ tuned = {}
    /\ heard = [l \in Listeners |-> 0]

Broadcast ==
    /\ sent' = sent + 1
    /\ UNCHANGED <<tuned, heard>>

TuneIn(l) ==
    /\ tuned' = tuned \cup {l}
    /\ UNCHANGED <<sent, heard>>

\* Listeners leave, or are disconnected, one or several at a time.
Leave ==
    /\ tuned' \subseteq tuned
    /\ UNCHANGED <<sent, heard>>

\* One frame reaches some of the listeners; others may be dropped meanwhile.
Hear(f) ==
    /\ heard' \in [Listeners -> Nat]
    /\ \A l \in Listeners :
          heard'[l] # heard[l] =>
              l \in tuned /\ heard'[l] = f /\ f > heard[l]
    /\ tuned' \subseteq tuned
    /\ UNCHANGED sent

Next ==
    \/ Broadcast
    \/ \E l \in Listeners : TuneIn(l)
    \/ Leave
    \/ \E f \in 1..sent : Hear(f)

Spec == Init /\ [][Next]_vars
=============================================================================
