-------------------------------- MODULE MCHub --------------------------------
(* Instances of Hub for TLC: a whisper worker and a feedback handler        *)
(* publish to two listeners.                                                *)
EXTENDS Hub

CONSTANTS tab1, tab2, worker, feedback

TwoTabs       == {tab1, tab2}
TwoPublishers == {worker, feedback}

\* A clip, a status event and a transcript.
Kinds == [e \in Events |-> CASE e = 1 -> "clip" [] e = 2 -> "status" [] OTHER -> "speech"]
=============================================================================
