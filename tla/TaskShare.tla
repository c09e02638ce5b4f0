------------------------------ MODULE TaskShare ------------------------------
(***************************************************************************)
(* Sharing of tasks between threads, context.c with task.c and the loop of *)
(* the master fiber in fiber/strand.c.  A thread with nothing to do asks   *)
(* the peer with the longest list for tasks; one that has got too many     *)
(* from a poll gives some to a peer.  The lists are FIFO queues, see       *)
(* TaskList; async calls are sequences, see MpmcRing and AsyncCalls.       *)
(***************************************************************************)
EXTENDS TaskParams, SequencesExt, FiniteSets

VARIABLES
    tasks,                  \* per thread: the task list
    head_count, tail_count, \* per thread: counters of the list, read by peers
    calls,                  \* per thread: async_queue
    requested,              \* per thread: tasks_request_in_progress
    pc,                     \* per thread: next step
    peer, head,             \* per thread: the peer looked at, its loaded head_count
    new,                    \* tasks that have not come yet
    done                    \* how often each task has been executed

lists == <<tasks, head_count, tail_count>>
vars == <<lists, calls, requested, pc, peer, head, new, done>>

Request(t) == [call |-> "request", from |-> t, tasks |-> <<>>]
NoTasks == [call |-> "no_tasks", from |-> None, tasks |-> <<>>]
AddTasks(s) == [call |-> "add", from |-> None, tasks |-> s]

Init ==
    /\ tasks = [t \in Threads |-> <<>>]
    /\ head_count = [t \in Threads |-> 0] /\ tail_count = [t \in Threads |-> 0]
    /\ calls = [t \in Threads |-> <<>>]
    /\ requested = [t \in Threads |-> FALSE]
    /\ pc = [t \in Threads |-> "loop"]
    /\ peer = [t \in Threads |-> None] /\ head = [t \in Threads |-> 0]
    /\ new = Tasks
    /\ done = [k \in Tasks |-> 0]

Goto(t, step) == pc' = [pc EXCEPT ![t] = step]

(* mm_task_list_add for every one of the tasks.                            *)
AddAll(t, s) ==
    /\ tasks' = [tasks EXCEPT ![t] = @ \o s]
    /\ tail_count' = [tail_count EXCEPT ![t] = @ + Len(s)]
    /\ UNCHANGED head_count

(* mm_task_list_reassign: the first tasks that may go, at most SendMax.    *)
Movable(s) ==
    LET ok == {n \in 0 .. SendMax : n <= Len(s) /\ \A i \in 1 .. n : s[i] \notin Fixed}
    IN SubSeq(s, 1, CHOOSE n \in ok : \A m \in ok : m <= n)

Reassigned(t, n) ==
    /\ tasks' = [tasks EXCEPT ![t] = SubSeq(@, n + 1, Len(@))]
    /\ head_count' = [head_count EXCEPT ![t] = @ + n]
    /\ UNCHANGED tail_count

-----------------------------------------------------------------------------
HandleAddAsked(t) ==
    /\ pc[t] = "loop" /\ calls[t] # <<>> /\ Head(calls[t]).call \in {"add", "no_tasks"}
    /\ IF requested[t] THEN AddAll(t, Head(calls[t]).tasks) ELSE UNCHANGED lists
    /\ requested' = [requested EXCEPT ![t] = FALSE]
    /\ calls' = [calls EXCEPT ![t] = Tail(@)]
    /\ UNCHANGED <<pc, peer, head, new, done>>

(* mm_task_add_1 .. 3, mm_context_no_tasks: an answer, or tasks that have  *)
(* been given unasked.                                                     *)
HandleAdd(t) ==
    /\ pc[t] = "loop" /\ calls[t] # <<>> /\ Head(calls[t]).call \in {"add", "no_tasks"}
    /\ AddAll(t, Head(calls[t]).tasks)
    /\ requested' = [requested EXCEPT ![t] = FALSE]
    /\ calls' = [calls EXCEPT ![t] = Tail(@)]
    /\ UNCHANGED <<pc, peer, head, new, done>>

HandleRequestSilent(t) ==
    LET c == Head(calls[t])
        s == IF Len(tasks[t]) < RequestThreshold THEN <<>> ELSE Movable(tasks[t])
        rest == [calls EXCEPT ![t] = Tail(@)]
    IN
    /\ pc[t] = "loop" /\ calls[t] # <<>> /\ c.call = "request"
    /\ Reassigned(t, Len(s))
    /\ calls' = IF s = <<>> THEN rest ELSE [rest EXCEPT ![c.from] = Append(@, AddTasks(s))]
    /\ UNCHANGED <<requested, pc, peer, head, new, done>>

(* mm_context_tasks_req: tasks for the thread that asks, or a refusal.     *)
HandleRequest(t) ==
    LET c == Head(calls[t])
        s == IF Len(tasks[t]) < RequestThreshold THEN <<>> ELSE Movable(tasks[t])
    IN
    /\ pc[t] = "loop" /\ calls[t] # <<>> /\ c.call = "request"
    /\ Reassigned(t, Len(s))
    /\ calls' = [[calls EXCEPT ![t] = Tail(@)] EXCEPT
                    ![c.from] = Append(@, IF s = <<>> THEN NoTasks ELSE AddTasks(s))]
    /\ UNCHANGED <<requested, pc, peer, head, new, done>>

HandleNone(t) ==
    /\ pc[t] = "loop" /\ calls[t] = <<>>
    /\ Goto(t, "work")
    /\ UNCHANGED <<lists, calls, requested, peer, head, new, done>>

(* mm_strand_worker executes a task.                                       *)
Execute(t) ==
    /\ pc[t] = "work" /\ tasks[t] # <<>>
    /\ done' = [done EXCEPT ![Head(tasks[t])] = @ + 1]
    /\ Reassigned(t, 1)
    /\ Goto(t, "loop")
    /\ UNCHANGED <<calls, requested, peer, head, new>>

(* mm_strand_master listens: with events it may give some tasks away, with *)
(* none it asks for some.                                                  *)
ListenEvents(t) ==
    /\ pc[t] = "work" /\ tasks[t] = <<>>
    /\ \E S \in SUBSET new \ {{}} : (\E s \in SetToSeqs(S) : AddAll(t, s)) /\ new' = new \ S
    /\ Goto(t, "distribute")
    /\ UNCHANGED <<calls, requested, peer, head, done>>

ListenNone(t) ==
    /\ pc[t] = "work" /\ tasks[t] = <<>>
    /\ Goto(t, IF requested[t] THEN "loop" ELSE "request")
    /\ UNCHANGED <<lists, calls, requested, peer, head, new, done>>

(* mm_context_distribute_tasks *)
PeerLoad(p) == Len(tasks[p]) + Len(calls[p]) * SendMax

Distribute(t) ==
    LET s == Movable(tasks[t])
        able == {p \in Threads \ {t} : PeerLoad(p) <= PeerLimit}
    IN
    /\ pc[t] = "distribute"
    /\ \/ /\ Len(tasks[t]) >= DistributeThreshold
          /\ \E p \in able :
                calls' = IF s = <<>> THEN calls ELSE [calls EXCEPT ![p] = Append(@, AddTasks(s))]
          /\ Reassigned(t, Len(s))
       \/ /\ Len(tasks[t]) < DistributeThreshold \/ able = {}
          /\ UNCHANGED <<lists, calls>>
    /\ Goto(t, "loop")
    /\ UNCHANGED <<requested, peer, head, new, done>>

(* mm_context_request_tasks: the size of the list of a peer is read from   *)
(* its two counters, one after the other.  Any peer above the threshold    *)
(* may be the one with the longest list when it is looked at.              *)
RequestHead(t, p) ==
    /\ pc[t] = "request" /\ p # t
    /\ peer' = [peer EXCEPT ![t] = p]
    /\ head' = [head EXCEPT ![t] = head_count[p]]
    /\ Goto(t, "tail")
    /\ UNCHANGED <<lists, calls, requested, new, done>>

(* mm_async_trycall_1 fails if the queue of the peer is full.              *)
RequestTail(t) ==
    /\ pc[t] = "tail"
    /\ IF tail_count[peer[t]] - head[t] > RequestThreshold /\ Len(calls[peer[t]]) < QueueSize
       THEN /\ requested' = [requested EXCEPT ![t] = TRUE]
            /\ calls' = [calls EXCEPT ![peer[t]] = Append(@, Request(t))]
       ELSE UNCHANGED <<requested, calls>>
    /\ peer' = [peer EXCEPT ![t] = None] /\ head' = [head EXCEPT ![t] = 0]
    /\ Goto(t, "loop")
    /\ UNCHANGED <<lists, new, done>>

-----------------------------------------------------------------------------
Run(t) ==
    \/ HandleAdd(t) \/ HandleRequest(t) \/ HandleNone(t) \/ Execute(t) \/ ListenNone(t)
    \/ Distribute(t) \/ RequestTail(t) \/ \E p \in Threads : RequestHead(t, p)
Next == \E t \in Threads : Run(t) \/ ListenEvents(t)
Spec == Init /\ [][Next]_vars

(* Threads run, and the peers are not so fast that a thread never comes to *)
(* the end of its calls; nothing makes events come.                        *)
FairSpec == Spec /\ \A t \in Threads : WF_vars(Run(t)) /\ SF_vars(HandleNone(t))

-----------------------------------------------------------------------------
Has(s, x) == \E i \in DOMAIN s : s[i] = x

(* Where a task is: positions in the lists, calls that carry it.           *)
Listed(k) == {<<t, i>> \in Threads \X (1 .. Cardinality(Tasks)) : i <= Len(tasks[t]) /\ tasks[t][i] = k}
Carried(k) == UNION {{<<t, i>> : i \in {i \in DOMAIN calls[t] : Has(calls[t][i].tasks, k)}} : t \in Threads}

(* Reassigned tasks are neither lost nor duplicated: a task that has come  *)
(* is in one list or one call, or it has been executed once.               *)
EveryTaskOnce ==
    \A k \in Tasks \ new : Cardinality(Listed(k)) + Cardinality(Carried(k)) + done[k] = 1

(* tasks_request_in_progress stops further requests and makes the thread   *)
(* spin, so it is set only while a request or an answer is under way.      *)
RequestPending ==
    \A t \in Threads : requested[t] =>
        \/ \E p \in Threads : Has(calls[p], Request(t))
        \/ \E i \in DOMAIN calls[t] : calls[t][i].call \in {"add", "no_tasks"}

(* Sharing loses neither a task nor a request: mm_context_request_tasks,   *)
(* mm_context_tasks_req and mm_context_distribute_tasks.                   *)
ShareInv == EveryTaskOnce /\ RequestPending

(* Tasks go from thread to thread but not forever: each is executed.       *)
TasksExecuted == \A k \in Tasks : k \notin new ~> done[k] = 1
==============================================================================
