------------------------------ MODULE TaskList ------------------------------
(***************************************************************************)
(* The list of tasks of a thread, task.h and task.c: a queue of rings of a *)
(* fixed size.  A ring is added when the last one is full, and freed when  *)
(* it is used up and another one follows.                                  *)
(***************************************************************************)
EXTENDS TaskParams, SequencesExt

VARIABLES
    rings,                  \* the rings: head, tail, ring
    head_count, tail_count, \* statistics that give the size
    taken                   \* what the last operation has taken out

vars == <<rings, head_count, tail_count, taken>>

Slots == 0 .. RingSize - 1
Used(r) == (r.tail - r.head) % Wrap
NewRing == [head |-> 0, tail |-> 0, ring |-> [i \in Slots |-> CHOOSE k \in Tasks : TRUE]]

(* mm_task_list_size *)
Size == (tail_count - head_count) % Wrap

(* mm_task_list_prepare *)
Init ==
    /\ rings = <<NewRing>>
    /\ head_count = 0 /\ tail_count = 0
    /\ taken = <<>>

(* mm_task_list_add *)
Put(r, k) == [r EXCEPT !.ring[r.tail % RingSize] = k, !.tail = (@ + 1) % Wrap]

Add(k) ==
    /\ Size < MaxTasks
    /\ rings' = IF Used(Last(rings)) = RingSize
                THEN Append(rings, Put(NewRing, k))
                ELSE [rings EXCEPT ![Len(rings)] = Put(@, k)]
    /\ tail_count' = (tail_count + 1) % Wrap
    /\ taken' = <<>>
    /\ UNCHANGED head_count

(* A used up ring is dropped if another one follows.                       *)
FrontRings(rs) == IF Used(rs[1]) = 0 /\ Len(rs) > 1 THEN Tail(rs) ELSE rs
FirstTask(rs) == rs[1].ring[rs[1].head % RingSize]
DropTask(rs) == [rs EXCEPT ![1].head = (@ + 1) % Wrap]

GetFirst ==
    /\ IF Used(rings[1]) = 0
       THEN taken' = <<>> /\ UNCHANGED <<rings, head_count>>
       ELSE /\ taken' = <<FirstTask(rings)>>
            /\ rings' = DropTask(rings)
            /\ head_count' = (head_count + 1) % Wrap
    /\ UNCHANGED tail_count

(* mm_task_list_get *)
Get ==
    LET rs == FrontRings(rings) IN
    /\ IF Used(rs[1]) = 0
       THEN taken' = <<>> /\ UNCHANGED <<rings, head_count>>
       ELSE /\ taken' = <<FirstTask(rs)>>
            /\ rings' = DropTask(rs)
            /\ head_count' = (head_count + 1) % Wrap
    /\ UNCHANGED tail_count

(* mm_task_list_reassign: up to SendMax tasks from the front, until one    *)
(* that stays here.                                                        *)
ReassignLoop[n \in Nat] ==
    IF n = 0 THEN [rs |-> rings, tasks |-> <<>>, more |-> TRUE]
    ELSE LET prev == ReassignLoop[n - 1]
             rs == FrontRings(prev.rs)
         IN IF ~prev.more THEN prev
            ELSE IF Used(rs[1]) = 0 \/ FirstTask(rs) \in Fixed
                 THEN [rs |-> rs, tasks |-> prev.tasks, more |-> FALSE]
                 ELSE [rs |-> DropTask(rs), tasks |-> Append(prev.tasks, FirstTask(rs)), more |-> TRUE]

ReassignUncounted ==
    LET end == ReassignLoop[SendMax] IN
    /\ rings' = end.rs
    /\ taken' = end.tasks
    /\ UNCHANGED <<head_count, tail_count>>

Reassign ==
    LET end == ReassignLoop[SendMax] IN
    /\ rings' = end.rs
    /\ taken' = end.tasks
    /\ head_count' = (head_count + Len(end.tasks)) % Wrap
    /\ UNCHANGED tail_count

Next == (\E k \in Tasks : Add(k)) \/ Get \/ Reassign
Spec == Init /\ [][Next]_vars

-----------------------------------------------------------------------------
InRing(r) == [i \in 1 .. Used(r) |-> r.ring[(r.head + i - 1) % RingSize]]
Queue == FlattenSeq([i \in DOMAIN rings |-> InRing(rings[i])])

(* A ring that is not the last one has been filled, and one that is not    *)
(* the first has tasks: mm_task_list_get_ring expects a task in the next   *)
(* ring.                                                                   *)
RingsInOrder ==
    /\ rings # <<>>
    /\ \A i \in DOMAIN rings : Used(rings[i]) <= RingSize
    /\ \A i \in 2 .. Len(rings) : Used(rings[i]) > 0

(* mm_task_list_size, which decides on idling and on sharing, is the true  *)
(* number of tasks; it is also what tells the master to look for tasks.    *)
SizeExact == Size = Len(Queue)

(* The shape of the list and its counters.                                 *)
ListInv == RingsInOrder /\ SizeExact

(* The rings together are one queue in the order of arrival.               *)
Fifo == INSTANCE TaskFifo WITH queue <- Queue
FifoSpec == Fifo!Spec
=============================================================================
