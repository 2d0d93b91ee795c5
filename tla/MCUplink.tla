------------------------------- MODULE MCUplink -------------------------------
(* An instance of Uplink for TLC. *)
EXTENDS Uplink, TLC

\* One stream under two definitions, and none.
MCLists == {"a" :> 1, "a" :> 2, <<>>}
=============================================================================
