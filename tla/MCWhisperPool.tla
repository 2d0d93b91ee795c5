---------------------------- MODULE MCWhisperPool ----------------------------
(* Instances of WhisperPool for TLC: two servers and two or three clips.    *)
EXTENDS WhisperPool

CONSTANTS a, b, short, long, old

TwoServers  == {a, b}
AllWavs     == {short, long, old}

\* "short" is the shorter clip, the archive clip the longest.
SizeBytes   == [w \in Wavs |-> CASE w = short -> 1 [] w = long -> 2 [] OTHER -> 3]

AnyLength   == [s \in Servers |-> Wavs]
\* Server a takes the long clips only, b the short ones only.
SplitRanges == [s \in Servers |-> IF s = a THEN Wavs \ {short} ELSE {short}]
=============================================================================
