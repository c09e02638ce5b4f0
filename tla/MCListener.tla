----------------------------- MODULE MCListener -----------------------------
(* Instances of the sleep and wake-up protocol for TLC.                    *)
EXTENDS Listener, TLC

CONSTANTS t1, t2, t3

Two == {t1, t2}
Three == {t1, t2, t3}
Symmetry == Permutations(Threads)
=============================================================================
