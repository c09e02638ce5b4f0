---------------------------- MODULE FutureParams ----------------------------
(* Parameters of the futures, see Future and UniqueFuture.                 *)
EXTENDS Integers, FiniteSets

CONSTANTS
    Waiters,        \* fibers that wait for a shared future, each on a thread
    Timed,          \* those that wait with a timeout
    MaxEntries      \* bound on the wait entries that are used

ASSUME FutureAssumption ==
    /\ Timed \subseteq Waiters
    /\ MaxEntries \in Nat /\ Cardinality(Waiters) <= MaxEntries
=============================================================================
