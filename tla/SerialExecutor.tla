--------------------------- MODULE SerialExecutor ---------------------------
(***************************************************************************)
(* What a combiner of base/combiner.h promises: requests are executed one  *)
(* at a time, each once, in the order in which they were accepted.         *)
(***************************************************************************)
EXTENDS Integers, Sequences

CONSTANT Requests

VARIABLES
    accepted,       \* requests in the order of their acceptance
    running,        \* number of requests being executed now
    executed        \* requests in the order of their execution

vars == <<accepted, running, executed>>

Init == accepted = <<>> /\ running = 0 /\ executed = <<>>

Accept(r) ==
    /\ accepted' = Append(accepted, r)
    /\ UNCHANGED <<running, executed>>

Start ==
    /\ running = 0 /\ Len(executed) < Len(accepted)
    /\ running' = 1
    /\ UNCHANGED <<accepted, executed>>

Finish ==
    /\ running = 1
    /\ running' = 0
    /\ executed' = Append(executed, accepted[Len(executed) + 1])
    /\ UNCHANGED accepted

Next == (\E r \in Requests : Accept(r)) \/ Start \/ Finish

Spec == Init /\ [][Next]_vars

=============================================================================
