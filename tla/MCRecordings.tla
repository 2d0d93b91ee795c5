----------------------------- MODULE MCRecordings -----------------------------
(* Instances of Recordings for TLC: a clip that is transcribed twice, and one *)
(* that the archive sync may bring instead of a clip worker.                   *)
EXTENDS Recordings

CONSTANTS clip, copy

TwoWavs == {clip, copy}
Often == [w \in Wavs |-> IF w = clip THEN 2 ELSE 0]
Failing == {<<clip, 1>>}
=============================================================================
