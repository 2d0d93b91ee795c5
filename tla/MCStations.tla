------------------------------ MODULE MCStations ------------------------------
(* Instances of Stations for TLC: two streams and four files, between which *) 
(* a stream changes, comes and goes, and a port moves.                        *)
EXTENDS Stations, TLC

CONSTANTS north, south, s1, s2, s3, l1, l2, both, utc, moved, broken

TwoKeys == {north, south}

Definition(port, zone) == [port |-> port, zone |-> zone]
PortOf == [d \in Defs |-> d.port]

\* "both" has the two streams; "utc" changes the zone of the first; in "moved"
\* the first has gone and the second has its port.
Files == [c \in {both, utc, moved} |->
            CASE c = both -> (north :> Definition(1, "local") @@ south :> Definition(2, "local"))
              [] c = utc -> (north :> Definition(1, "utc") @@ south :> Definition(2, "local"))
              [] c = moved -> south :> Definition(1, "local")]
=============================================================================
