----------------------------- MODULE MCEventSink -----------------------------
(* Instances of the binding of an event sink for TLC.                      *)
EXTENDS EventSink, TLC

CONSTANTS t1, t2, t3

Two == {t1, t2}
Three == {t1, t2, t3}
Symmetry == Permutations(Three)
SymmetryTwo == Permutations(Two)

InReady == Delivery("input", "ready")
OutReady == Delivery("output", "ready")
InError == Delivery("input", "error")

Ready == {<<InReady>>, <<OutReady>>, <<InReady, OutReady>>}
ReadyOrError == {<<InReady>>, <<OutReady>>, <<InReady, OutReady>>, <<InReady, InError>>}
==============================================================================
