----------------------------- MODULE TaskParams -----------------------------
(* The constants of task.h and context.c that task lists and the sharing   *)
(* of tasks depend on.                                                     *)
EXTENDS Integers, Sequences

CONSTANTS
    Tasks,                  \* tasks with their arguments
    Fixed,                  \* tasks whose reassign routine refuses
    RingSize,               \* MM_TASK_RING_SIZE, 256
    SendMax,                \* MM_TASK_SEND_MAX, 3
    Wrap,                   \* where indices and counters wrap around, 2^32 and 2^64
    MaxTasks,               \* bound on the tasks in one list
    Threads, None,
    RequestThreshold,       \* MM_TASK_REQUEST_THRESHOLD, 9
    DistributeThreshold,    \* MM_TASK_DISTRIBUTE_THRESHOLD, 24
    PeerLimit,              \* MM_TASK_DISTRIBUTE_PEER_LIMIT, 6
    QueueSize               \* calls that fit into async_queue

ASSUME TaskAssumption == Fixed \subseteq Tasks /\ SendMax \in Nat \ {0}

ASSUME TaskListAssumption ==
    /\ RingSize \in Nat \ {0} /\ Wrap \in Nat \ {0} /\ Wrap > RingSize /\ Wrap % RingSize = 0
    /\ MaxTasks \in Nat /\ MaxTasks < Wrap

ASSUME TaskShareAssumption ==
    /\ None \notin Threads
    /\ RequestThreshold \in Nat /\ PeerLimit \in Nat
    /\ DistributeThreshold \in Nat /\ QueueSize \in Nat \ {0}
    /\ SendMax <= RequestThreshold /\ PeerLimit < DistributeThreshold
=============================================================================
