------------------------------ MODULE EventSink ------------------------------
(***************************************************************************)
(* The binding of one event sink to a thread: event/event.c, listener.c    *)
(* and the part of epoll.c that hands events over.  A poller attaches an   *)
(* inactive sink to itself; events of an active one are forwarded to the   *)
(* thread it is bound to.  Input and output tasks run on that thread, and  *)
(* may be reassigned to another one (task.c) while they are queued.        *)
(*                                                                         *)
(* The flags and the context of the sink are plain memory shared by the    *)
(* poller and the owner, so their accesses are separate steps.             *)
(***************************************************************************)
EXTENDS Integers, Sequences, FiniteSets

CONSTANTS
    Threads, None,
    Reports,        \* what epoll_wait may report: sequences of deliveries
    MaxEvents,      \* bound on the reports of epoll_wait
    MaxMoves        \* bound on the reassignments of tasks

ASSUME SinkAssumption == None \notin Threads /\ MaxEvents \in Nat /\ MaxMoves \in Nat

Kinds == {"input", "output"}

VARIABLES
    context,                    \* sink->context
    poll_stamp, task_stamp,     \* events received, events delivered
    started, ready, error, shut,\* kinds with the flags STARTED, READY, ERROR, CLOSED set
    closed,                     \* MM_EVENT_CLOSED
    retired, reclaimed,         \* whose epoch the sink is retired to, who reclaims it
    poller,                     \* holder of the poll lock
    report,                     \* deliveries the poller has still to make
    calls, tasks,               \* per thread: async_queue, tasks, those of this sink
    pc, cur, seen,              \* per thread: next step, its delivery or task, loaded stamp
    nevents, nmoves             \* counters of the bounded actions

flags == <<started, ready, error, shut, closed>>
stamps == <<poll_stamp, task_stamp>>
reclaim == <<retired, reclaimed>>
polling == <<poller, report>>
work == <<calls, tasks>>
locals == <<pc, cur, seen>>
bounds == <<nevents, nmoves>>
vars == <<context, flags, stamps, reclaim, polling, work, locals, bounds>>

Delivery(k, f) == [kind |-> k, flag |-> f]
Nothing == Delivery("none", "none")
TaskOf(k) == Delivery(k, "task")

(* mm_event_register_fd has bound the sink to one of the threads.          *)
Init ==
    /\ context \in Threads
    /\ poll_stamp = 0 /\ task_stamp = 0
    /\ started = {} /\ ready = {} /\ error = {} /\ shut = {} /\ closed = FALSE
    /\ retired = None /\ reclaimed = None
    /\ poller = None /\ report = <<>>
    /\ calls = [t \in Threads |-> <<>>] /\ tasks = [t \in Threads |-> <<>>]
    /\ pc = [t \in Threads |-> "idle"]
    /\ cur = [t \in Threads |-> Nothing] /\ seen = [t \in Threads |-> 0]
    /\ nevents = 0 /\ nmoves = 0

At(t, step) == pc[t] = step
Goto(t, step) == pc' = [pc EXCEPT ![t] = step]
Post(t, c) == calls' = [calls EXCEPT ![t] = Append(@, c)]

(* mm_context_add_task *)
AddTask(t, k) == tasks' = [tasks EXCEPT ![t] = Append(@, k)]

-----------------------------------------------------------------------------
(* mm_event_epoll_handle: a report makes up to four deliveries, in order.  *)
Poll(t) ==
    /\ At(t, "idle") /\ poller = None /\ ~closed /\ nevents < MaxEvents
    /\ poller' = t /\ nevents' = nevents + 1
    /\ report' \in Reports
    /\ Goto(t, "bind")
    /\ UNCHANGED <<context, flags, stamps, reclaim, work, cur, seen, nmoves>>

(* mm_event_active: the stamp is loaded before the flags.                  *)
BindStamp(t) ==
    /\ At(t, "bind")
    /\ seen' = [seen EXCEPT ![t] = task_stamp]
    /\ Goto(t, "bind_flags")
    /\ UNCHANGED <<context, flags, stamps, reclaim, polling, work, cur, bounds>>

BindBlind(t) ==
    /\ At(t, "bind_flags")
    /\ Goto(t, IF seen[t] # poll_stamp THEN "receive" ELSE "rebind")
    /\ seen' = [seen EXCEPT ![t] = 0]
    /\ UNCHANGED <<context, flags, stamps, reclaim, polling, work, cur, bounds>>

BindFlags(t) ==
    /\ At(t, "bind_flags")
    /\ Goto(t, IF seen[t] # poll_stamp \/ started # {} THEN "receive" ELSE "rebind")
    /\ seen' = [seen EXCEPT ![t] = 0]
    /\ UNCHANGED <<context, flags, stamps, reclaim, polling, work, cur, bounds>>

(* mm_event_test_binding attaches an inactive sink to the poller.          *)
Rebind(t) ==
    /\ At(t, "rebind")
    /\ context' = t
    /\ Goto(t, "receive")
    /\ UNCHANGED <<flags, stamps, reclaim, polling, work, cur, seen, bounds>>

(* mm_event_received: poll_stamp++ is a load and a store.                  *)
StampLoad(t, from, step) ==
    /\ At(t, from)
    /\ seen' = [seen EXCEPT ![t] = poll_stamp]
    /\ Goto(t, step)
    /\ UNCHANGED <<context, flags, stamps, reclaim, polling, work, cur, bounds>>

StampStore(t, from, step) ==
    /\ At(t, from)
    /\ poll_stamp' = seen[t] + 1
    /\ seen' = [seen EXCEPT ![t] = 0]
    /\ Goto(t, step)
    /\ UNCHANGED <<context, flags, task_stamp, reclaim, polling, work, cur, bounds>>

(* The delivery is done; the poller makes the next one or ends its poll.   *)
NextDelivery(t) ==
    IF poller = t
    THEN /\ report' = Tail(report)
         /\ poller' = IF Tail(report) = <<>> THEN None ELSE t
         /\ Goto(t, IF Tail(report) = <<>> THEN "idle" ELSE "bind")
    ELSE UNCHANGED polling /\ Goto(t, "idle")

(* mm_event_listener_input: handle it here or forward it.                  *)
Deliver(t) ==
    /\ At(t, "deliver")
    /\ \/ /\ context = t
          /\ cur' = [cur EXCEPT ![t] = Head(report)]
          /\ Goto(t, "handle")
          /\ UNCHANGED <<polling, calls>>
       \/ /\ context # t
          /\ Post(context, Head(report))
          /\ NextDelivery(t)
          /\ UNCHANGED cur
    /\ UNCHANGED <<context, flags, stamps, reclaim, tasks, seen, bounds>>

(* mm_event_listener_handle_input: set the readiness, start a task unless  *)
(* there is one, count the event; each is visible to the others at once.   *)
HandleFlags(t) ==
    /\ At(t, "handle")
    /\ IF cur[t].flag = "ready" THEN ready' = ready \cup {cur[t].kind} /\ UNCHANGED error
                                ELSE error' = error \cup {cur[t].kind} /\ UNCHANGED ready
    /\ Goto(t, "start")
    /\ UNCHANGED <<context, started, shut, closed, stamps, reclaim, polling, work, cur, seen, bounds>>

HandleStart(t) ==
    /\ At(t, "start")
    /\ IF cur[t].kind \in started THEN UNCHANGED <<started, tasks>>
       ELSE started' = started \cup {cur[t].kind} /\ AddTask(t, cur[t].kind)
    /\ Goto(t, "delivered")
    /\ UNCHANGED <<context, ready, error, shut, closed, stamps, reclaim, polling, calls, cur, seen, bounds>>

HandleDelivered(t) ==
    /\ At(t, "delivered")
    /\ task_stamp' = task_stamp + 1
    /\ cur' = [cur EXCEPT ![t] = Nothing]
    /\ NextDelivery(t)
    /\ UNCHANGED <<context, flags, poll_stamp, reclaim, work, seen, bounds>>

HandleCallDrop(t) ==
    /\ At(t, "idle") /\ calls[t] # <<>>
    /\ LET c == Head(calls[t]) IN
        \/ /\ c.flag = "task" /\ AddTask(t, c.kind) /\ UNCHANGED <<pc, cur>>
        \/ /\ c.flag # "task" /\ context # t /\ UNCHANGED <<tasks, pc, cur>>
        \/ /\ c.flag # "task" /\ context = t
           /\ cur' = [cur EXCEPT ![t] = c] /\ Goto(t, "handle")
           /\ UNCHANGED tasks
    /\ calls' = [calls EXCEPT ![t] = Tail(@)]
    /\ UNCHANGED <<context, flags, stamps, reclaim, polling, seen, bounds>>

(* mm_event_listener_input_req checks the binding again; a task that comes *)
(* from a peer (mm_task_submit) is queued.                                 *)
HandleCall(t) ==
    /\ At(t, "idle") /\ calls[t] # <<>>
    /\ LET c == Head(calls[t])
           rest == [calls EXCEPT ![t] = Tail(@)]
       IN
        \/ /\ c.flag = "task" /\ calls' = rest
           /\ AddTask(t, c.kind) /\ UNCHANGED <<pc, cur>>
        \/ /\ c.flag # "task" /\ context # t
           /\ calls' = [rest EXCEPT ![context] = Append(@, c)]
           /\ UNCHANGED <<tasks, pc, cur>>
        \/ /\ c.flag # "task" /\ context = t /\ calls' = rest
           /\ cur' = [cur EXCEPT ![t] = c] /\ Goto(t, "handle")
           /\ UNCHANGED tasks
    /\ UNCHANGED <<context, flags, stamps, reclaim, polling, seen, bounds>>

-----------------------------------------------------------------------------
(* mm_task_list_reassign with mm_event_reassign_io: a task that is the     *)
(* only one of the sink goes to a peer; the sink is bound there first.     *)
Reassign(t, u) ==
    /\ At(t, "idle") /\ tasks[t] # <<>> /\ u # t /\ nmoves < MaxMoves
    /\ started # Kinds
    /\ context' = u /\ nmoves' = nmoves + 1
    /\ cur' = [cur EXCEPT ![t] = TaskOf(Head(tasks[t]))]
    /\ tasks' = [tasks EXCEPT ![t] = Tail(@)]
    /\ Goto(t, "submit")
    /\ UNCHANGED <<flags, stamps, reclaim, polling, calls, seen, nevents>>

(* mm_task_submit to the peer that the sink has been bound to.             *)
Submit(t) ==
    /\ At(t, "submit")
    /\ Post(context, cur[t])
    /\ cur' = [cur EXCEPT ![t] = Nothing]
    /\ Goto(t, "idle")
    /\ UNCHANGED <<context, flags, stamps, reclaim, polling, tasks, seen, bounds>>

(* A worker that has handled all calls begins to execute a task.           *)
Execute(t) ==
    /\ At(t, "idle") /\ calls[t] = <<>> /\ tasks[t] # <<>>
    /\ cur' = [cur EXCEPT ![t] = TaskOf(Head(tasks[t]))]
    /\ tasks' = [tasks EXCEPT ![t] = Tail(@)]
    /\ Goto(t, "run")
    /\ UNCHANGED <<context, flags, stamps, reclaim, polling, calls, seen, bounds>>

(* While it executes, the task finds nothing more to read or write         *)
(* (mm_event_trigger_input), shuts its side of the socket down, submits    *)
(* the other task (mm_event_submit_output), or closes the socket.          *)
Drain(t) ==
    /\ At(t, "run") /\ cur[t].kind \in ready
    /\ ready' = ready \ {cur[t].kind}
    /\ UNCHANGED <<context, started, error, shut, closed, stamps, reclaim, polling, work, locals, bounds>>

Shutdown(t) ==
    /\ At(t, "run") /\ cur[t].kind \notin shut
    /\ shut' = shut \cup {cur[t].kind}
    /\ UNCHANGED <<context, started, ready, error, closed, stamps, reclaim, polling, work, locals, bounds>>

SubmitOther(t) ==
    /\ At(t, "run") /\ ~closed
    /\ \E k \in Kinds \ (started \cup shut) : started' = started \cup {k} /\ AddTask(context, k)
    /\ UNCHANGED <<context, ready, error, shut, closed, stamps, reclaim, polling, calls, locals, bounds>>

(* mm_event_close_fd: the flag; the listener is that of the bound context. *)
CloseBy(t, step) ==
    /\ ~closed /\ closed' = TRUE
    /\ retired' = context
    /\ Goto(t, step)
    /\ UNCHANGED <<context, started, ready, error, shut, stamps, reclaimed, polling, work, cur, seen, bounds>>

Close(t) == At(t, "run") /\ CloseBy(t, "run_unregister")

(* mm_event_input_complete: the task is queued again or done with.         *)
Complete(t) ==
    /\ At(t, "run")
    /\ LET k == cur[t].kind IN
        \/ /\ k \in ready \cup error /\ k \notin shut /\ ~closed
           /\ AddTask(context, k) /\ Goto(t, "idle") /\ UNCHANGED started
        \/ /\ k \notin ready \cup error \/ k \in shut \/ closed
           /\ started' = started \ {k} /\ Goto(t, "complete") /\ UNCHANGED tasks
    /\ cur' = [cur EXCEPT ![t] = Nothing]
    /\ UNCHANGED <<context, ready, error, shut, closed, stamps, reclaim, polling, calls, seen, bounds>>

(* mm_event_complete reads the flags again, and closes the sink on error.  *)
CompleteError(t) ==
    /\ At(t, "complete")
    /\ Goto(t, IF ~closed /\ started = {} /\ error # {} THEN "close" ELSE "idle")
    /\ UNCHANGED <<context, flags, stamps, reclaim, polling, work, cur, seen, bounds>>

CloseError(t) == At(t, "close") /\ CloseBy(t, "unregister")

(* mm_event_epoch_advance, once no poller has an event of the sink: the    *)
(* reclaim task is queued by the thread the sink is retired to.            *)
Reclaim(t) ==
    /\ At(t, "idle") /\ retired = t /\ reclaimed = None /\ poller = None
    /\ \A u \in Threads : pc[u] \notin {"run_unregister", "run_stamp", "unregister", "stamp"}
    /\ reclaimed' = t
    /\ UNCHANGED <<context, flags, stamps, retired, polling, work, locals, bounds>>

-----------------------------------------------------------------------------
Step(t) ==
    \/ BindStamp(t) \/ BindFlags(t) \/ Rebind(t) \/ Deliver(t)
    \/ StampLoad(t, "receive", "received") \/ StampStore(t, "received", "deliver")
    \/ StampLoad(t, "run_unregister", "run_stamp") \/ StampStore(t, "run_stamp", "run")
    \/ StampLoad(t, "unregister", "stamp") \/ StampStore(t, "stamp", "idle")
    \/ HandleFlags(t) \/ HandleStart(t) \/ HandleDelivered(t) \/ HandleCall(t)
    \/ Submit(t) \/ Execute(t) \/ Complete(t) \/ CompleteError(t) \/ CloseError(t) \/ Reclaim(t)
Choice(t) == Poll(t) \/ Drain(t) \/ Shutdown(t) \/ SubmitOther(t) \/ Close(t)

Next == \E t \in Threads : Step(t) \/ Choice(t) \/ \E u \in Threads : Reassign(t, u)
Spec == Init /\ [][Next]_vars

(* A thread takes its next step; nothing makes it poll, move a task or     *)
(* close the socket.                                                       *)
FairSpec == Spec /\ \A t \in Threads : WF_vars(Step(t))

-----------------------------------------------------------------------------
Has(s, x) == \E i \in DOMAIN s : s[i] = x

(* The thread has a task of the sink queued, running or coming to it.      *)
Holding(t, k) ==
    \/ Has(tasks[t], k) \/ Has(calls[t], TaskOf(k))
    \/ pc[t] \in {"run", "run_unregister", "run_stamp"} /\ cur[t] = TaskOf(k)
    \/ \E u \in Threads : At(u, "submit") /\ cur[u] = TaskOf(k) /\ context = t

TypeOK ==
    /\ context \in Threads
    /\ task_stamp \in Nat /\ poll_stamp \in Nat
    /\ started \cup ready \cup error \cup shut \subseteq Kinds
    /\ {retired, reclaimed, poller} \subseteq Threads \cup {None}

(* "Otherwise we could end up with two tasks for the same sink running on  *)
(* two threads at once" (mm_event_reassign_io): all the tasks of the sink  *)
(* are with one thread.                                                    *)
TasksTogether ==
    \A t, u \in Threads : \A k, l \in Kinds : Holding(t, k) /\ Holding(u, l) => t = u

(* ASSERT(sink->context == mm_context_selfptr()) in the completion of the  *)
(* tasks: a task runs on the thread the sink is bound to.                  *)
RunsAtOwner ==
    \A t \in Threads : At(t, "run") => context = t

(* STARTED stands for a task: a kind that is started has exactly one, and  *)
(* a readiness flag is never left behind with no task to take it up.       *)
StartedHasTask ==
    /\ \A k \in Kinds : k \in started <=> \E t \in Threads : Holding(t, k)
    /\ \A k \in ready \ started :
        closed \/ k \in shut \/ \E t \in Threads : At(t, "start") /\ cur[t].kind = k

(* The sink is with one thread: all its tasks are there, they run where    *)
(* the sink is bound, and no event is left without a task.                 *)
SinkInv == TypeOK /\ TasksTogether /\ RunsAtOwner /\ StartedHasTask

(* ASSERT(self == mm_context_selfptr()) in mm_context_add_task, called by  *)
(* mm_event_epoch_reclaim: the sink is bound to the thread reclaiming it.  *)
ReclaimedAtOwner == reclaimed # None => context = reclaimed

(* Forwarding ends: every event reaches the owner of an open sink.         *)
EventsDelivered == <>[](closed \/ poll_stamp = task_stamp)
==============================================================================
