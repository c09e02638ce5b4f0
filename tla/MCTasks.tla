------------------------------- MODULE MCTasks -------------------------------
(***************************************************************************)
(* An instance of the task code for TLC: one task list, in rings, and      *)
(* threads that share tasks, each on its own.  A behaviour is one of the   *)
(* list or one of the threads, the other part does not move.               *)
(***************************************************************************)
EXTENDS TaskParams, TLC

CONSTANTS t1, t2, t3, k1, k2, k3
ThreeThreads == {t1, t2, t3}
ThreeTasks == {k1, k2, k3}
OneFixed == {k3}

VARIABLES
    part,                                                   \* the part that moves
    rings, head_count, tail_count, taken,                   \* the list
    tasks, heads, tails, calls, requested, pc, peer, head, new, done   \* the threads

List == INSTANCE TaskList
Share == INSTANCE TaskShare WITH head_count <- heads, tail_count <- tails

list == <<rings, head_count, tail_count, taken>>
threads == <<tasks, heads, tails, calls, requested, pc, peer, head, new, done>>
vars == <<part, list, threads>>
Init == part \in {"list", "share"} /\ List!Init /\ Share!Init
ListNext == part = "list" /\ List!Next /\ UNCHANGED <<part, threads>>
ShareNext == part = "share" /\ Share!Next /\ UNCHANGED <<part, list>>
Next == ListNext \/ ShareNext

(* The fairness of TaskShare, if the threads are what moves.               *)
FairSpec ==
    /\ Init /\ [][Next]_vars
    /\ \A t \in Threads :
        /\ WF_vars(part = "share" /\ Share!Run(t) /\ UNCHANGED <<part, list>>)
        /\ SF_vars(part = "share" /\ Share!HandleNone(t) /\ UNCHANGED <<part, list>>)

(* Properties of the list: mm_task_list_add, _get and _reassign.           *)
ListInv == List!ListInv
FifoSpec == List!FifoSpec

(* Properties of the threads: mm_context_request_tasks, _tasks_req and     *)
(* _distribute_tasks.                                                      *)
ShareInv == Share!ShareInv
TasksExecuted == part = "share" => Share!TasksExecuted
==============================================================================
