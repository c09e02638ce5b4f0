------------------------------ MODULE TaskFifo ------------------------------
(***************************************************************************)
(* What a task list promises: tasks leave it in the order they were added, *)
(* one at a time to be executed or several at once to go to a peer.        *)
(***************************************************************************)
EXTENDS Integers, Sequences

CONSTANTS Tasks, Fixed, SendMax
VARIABLES
    queue,          \* tasks in the list
    taken           \* what the last operation has taken out of it

vars == <<queue, taken>>

Init == queue = <<>> /\ taken = <<>>

Put(k) == queue' = Append(queue, k) /\ taken' = <<>>

Take(n) ==
    /\ taken' = SubSeq(queue, 1, n)
    /\ queue' = SubSeq(queue, n + 1, Len(queue))

(* The first tasks, as many as may go to a peer.                           *)
Movable ==
    CHOOSE n \in 0 .. SendMax :
        /\ n <= Len(queue) /\ \A i \in 1 .. n : queue[i] \notin Fixed
        /\ n = SendMax \/ n = Len(queue) \/ queue[n + 1] \in Fixed

Next ==
    \/ \E k \in Tasks : Put(k)
    \/ Take(IF queue = <<>> THEN 0 ELSE 1)
    \/ Take(Movable)

Spec == Init /\ [][Next]_vars
=============================================================================
