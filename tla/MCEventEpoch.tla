---------------------------- MODULE MCEventEpoch ----------------------------
(* An instance for TLC of the reclamation of event sinks with a backoff.   *)
EXTENDS EventEpoch, TLC

CONSTANTS s1, s2, s3

ThreeSinks == {s1, s2, s3}
TwoAndOne == {(s1 :> 1) @@ (s2 :> 1) @@ (s3 :> 2)}
=============================================================================
