------------------------------ MODULE MCStrand ------------------------------
(* An instance of Strand for TLC.                                          *)
EXTENDS Strand, TLC

CONSTANTS w1, w2
TwoWorkers == {w1, w2}
=============================================================================
