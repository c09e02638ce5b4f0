----------------------------- MODULE EventEpoch -----------------------------
(***************************************************************************)
(* Reclamation of closed event sinks by epochs: event/epoch.c, epoch.h and *)
(* their callers in event.c, epoll.c and listener.c.  A poller may hold a  *)
(* sink in its array of events while the owner of the sink closes it; the  *)
(* sink is put aside until every listener has left the epoch it was closed *)
(* in, and only then is a reclaim task queued that destroys it.            *)
(*                                                                         *)
(* Listeners are numbered as in dispatch->listeners.  A sink stays with    *)
(* the thread it is registered by.  An input event of a sink starts an     *)
(* input task unless there is one; the event is forwarded to the owner of  *)
(* the sink by an asynchronous call.                                       *)
(***************************************************************************)
EXTENDS Integers, Sequences, SequencesExt, FiniteSets

CONSTANTS
    N,              \* dispatch->nlisteners
    Sinks,          \* event sinks
    Owners,         \* which threads the sinks may be registered by
    PostCount,      \* MM_EVENT_EPOCH_POST_COUNT
    MaxCalls        \* bound on the calls pending for a thread

Threads == 1 .. N

ASSUME EpochAssumption ==
    /\ N \in Nat \ {0}
    /\ Owners \subseteq [Sinks -> Threads]
    /\ PostCount \in Nat /\ MaxCalls \in Nat

VARIABLES
    global,         \* dispatch->global_epoch
    epoch, index,   \* per listener: local epoch, next listener to check
    queue, limbo,   \* per listener: sinks retired, sinks put aside
    snap,           \* per thread: the global epoch it has loaded
    pc, ret,        \* per thread: next step, and where an advance returns to
    sink,           \* per thread: the sink being closed
    events,         \* per thread: events returned by epoll_wait, not handled
    calls, tasks,   \* per thread: async_queue, tasks
    owner,          \* per sink: the thread it is registered by
    poll_lock,      \* holder of dispatch->poll_lock, 0 if free
    registered,     \* sinks that epoll watches
    closed,         \* sinks with MM_EVENT_CLOSED
    started,        \* sinks with MM_EVENT_INPUT_STARTED
    destroyed       \* sinks that have been destroyed

lists == <<queue, limbo>>
work == <<calls, tasks>>
flags == <<registered, closed, started, destroyed>>
vars == <<global, epoch, index, lists, snap, pc, ret, sink, events, work, owner, poll_lock, flags>>

None == "none"
Observe == [call |-> "observe", sink |-> None]
InputReq(s) == [call |-> "input", sink |-> s]
InputTask(s) == [task |-> "input", sink |-> s]
ReclaimTask(s) == [task |-> "reclaim", sink |-> s]

Init ==
    /\ global = 1
    /\ epoch = [t \in Threads |-> 0] /\ index = [t \in Threads |-> 0]
    /\ queue = [t \in Threads |-> {}]
    /\ limbo = [t \in Threads |-> [i \in {0, 1} |-> {}]]
    /\ snap = [t \in Threads |-> 0]
    /\ pc = [t \in Threads |-> "loop"] /\ ret = [t \in Threads |-> "loop"]
    /\ sink = [t \in Threads |-> None]
    /\ events = [t \in Threads |-> {}]
    /\ calls = [t \in Threads |-> <<>>] /\ tasks = [t \in Threads |-> <<>>]
    /\ owner \in Owners /\ poll_lock = 0
    /\ registered = Sinks /\ closed = {} /\ started = {} /\ destroyed = {}

Goto(t, step) == pc' = [pc EXCEPT ![t] = step]
Count(t) == Cardinality(queue[t]) + Cardinality(limbo[t][0]) + Cardinality(limbo[t][1])
LimboOf(e) == (e \div 2) % 2

(* The end of an advance: its locals are gone and its caller goes on.      *)
Return(t) == Goto(t, ret[t]) /\ ret' = [ret EXCEPT ![t] = "loop"] /\ snap' = [snap EXCEPT ![t] = 0]

-----------------------------------------------------------------------------
(* mm_event_epoch_enter: load and store, with a gap between them.          *)
EnterLoad(t, from, step) ==
    /\ pc[t] = from
    /\ IF epoch[t] = 0
       THEN snap' = [snap EXCEPT ![t] = global] /\ Goto(t, step)
       ELSE UNCHANGED snap /\ Goto(t, step)
    /\ UNCHANGED <<global, epoch, index, lists, ret, sink, events, work, owner, poll_lock, flags>>

EnterStore(t, from, step) ==
    /\ pc[t] = from
    /\ IF epoch[t] = 0
       THEN /\ epoch' = [epoch EXCEPT ![t] = snap[t]]
            /\ index' = [index EXCEPT ![t] = 0]
       ELSE UNCHANGED <<epoch, index>>
    /\ snap' = [snap EXCEPT ![t] = 0]
    /\ Goto(t, step)
    /\ UNCHANGED <<global, lists, ret, sink, events, work, owner, poll_lock, flags>>

(* mm_event_epoch_advance: the load of the global epoch.                   *)
AdvanceLoad(t) ==
    /\ pc[t] = "advance"
    /\ snap' = [snap EXCEPT ![t] = global]
    /\ Goto(t, "reclaim")
    /\ UNCHANGED <<global, epoch, index, lists, ret, sink, events, work, owner, poll_lock, flags>>

(* Sinks put aside two epochs ago are reclaimed; those retired since are   *)
(* put aside.  Nothing is left to do, or the listeners are to be checked.  *)
Reclaim(t) ==
    LET e == snap[t]
        i == LimboOf(e)
        old == IF epoch[t] # e THEN limbo[t][i] ELSE {}
        left == Count(t) - Cardinality(old)
    IN
    /\ pc[t] = "reclaim"
    /\ tasks' = [tasks EXCEPT ![t] = @ \o [k \in 1 .. Cardinality(old) |-> ReclaimTask(SetToSeq(old)[k])]]
    /\ IF epoch[t] # e /\ left = 0
       THEN /\ limbo' = [limbo EXCEPT ![t][i] = @ \ old]
            /\ epoch' = [epoch EXCEPT ![t] = 0]
            /\ UNCHANGED <<index, queue>>
            /\ Return(t)
       ELSE /\ limbo' = [limbo EXCEPT ![t][i] = (@ \ old) \cup queue[t]]
            /\ queue' = [queue EXCEPT ![t] = {}]
            /\ epoch' = [epoch EXCEPT ![t] = e]
            /\ index' = [index EXCEPT ![t] = IF epoch[t] # e THEN 0 ELSE @]
            /\ Goto(t, "scan")
            /\ UNCHANGED <<ret, snap>>
    /\ UNCHANGED <<global, sink, events, calls, owner, poll_lock, flags>>

ScanLoose(t) ==
    /\ pc[t] = "scan" /\ index[t] < N
    /\ index' = [index EXCEPT ![t] = @ + 1]
    /\ UNCHANGED <<global, epoch, lists, snap, pc, ret, sink, events, work, owner, poll_lock, flags>>

(* One listener is checked.  One that is behind is asked to catch up if    *)
(* there is much to reclaim, and the advance is given up.                  *)
Scan(t) ==
    LET other == index[t] + 1 IN
    /\ pc[t] = "scan" /\ index[t] < N
    /\ \/ /\ epoch[other] \in {snap[t], 0}
          /\ index' = [index EXCEPT ![t] = @ + 1]
          /\ UNCHANGED <<calls, snap, pc, ret>>
       \/ /\ epoch[other] \notin {snap[t], 0}
          /\ calls' = IF Count(t) > PostCount /\ Len(calls[other]) < MaxCalls
                      THEN [calls EXCEPT ![other] = Append(@, Observe)] ELSE calls
          /\ Return(t)
          /\ UNCHANGED index
    /\ UNCHANGED <<global, epoch, lists, sink, events, tasks, owner, poll_lock, flags>>

(* All listeners are in this epoch: the global epoch is advanced by CAS.   *)
Advance(t) ==
    /\ pc[t] = "scan" /\ index[t] = N
    /\ global' = IF global = snap[t] THEN snap[t] + 2 ELSE global
    /\ Return(t)
    /\ UNCHANGED <<epoch, index, lists, sink, events, work, owner, poll_lock, flags>>

-----------------------------------------------------------------------------
(* mm_event_close_fd and mm_event_epoll_unregister_fd, by the owner.       *)
Close(t, s) ==
    /\ pc[t] = "work" /\ owner[s] = t /\ s \notin closed
    /\ closed' = closed \cup {s}
    /\ sink' = [sink EXCEPT ![t] = s]
    /\ Goto(t, "close_load")
    /\ UNCHANGED <<global, epoch, index, lists, snap, ret, events, work, owner, poll_lock,
                   registered, started, destroyed>>

(* EPOLL_CTL_DEL *)
Unregister(t) ==
    /\ pc[t] = "delete"
    /\ registered' = registered \ {sink[t]}
    /\ Goto(t, "retire")
    /\ UNCHANGED <<global, epoch, index, lists, snap, ret, sink, events, work, owner, poll_lock,
                   closed, started, destroyed>>

(* mm_event_listener_unregister, mm_event_epoch_retire; then the advance.  *)
Retire(t) ==
    /\ pc[t] = "retire"
    /\ queue' = [queue EXCEPT ![t] = @ \cup {sink[t]}]
    /\ sink' = [sink EXCEPT ![t] = None]
    /\ Goto(t, "advance")
    /\ UNCHANGED <<global, epoch, index, limbo, snap, ret, events, work, owner, poll_lock, flags>>

-----------------------------------------------------------------------------
(* mm_event_listener_handle_input on the owner of the sink.                *)
HandleInput(t, s) ==
    IF s \in started THEN UNCHANGED <<started, tasks>>
    ELSE /\ started' = started \cup {s}
         /\ tasks' = [tasks EXCEPT ![t] = Append(@, InputTask(s))]

(* mm_async_handle_calls: input and observe requests, in order.            *)
HandleCall(t) ==
    /\ pc[t] = "loop" /\ calls[t] # <<>>
    /\ calls' = [calls EXCEPT ![t] = Tail(@)]
    /\ LET c == Head(calls[t]) IN
        IF c = Observe
        THEN Goto(t, IF Count(t) # 0 THEN "advance" ELSE "loop") /\ UNCHANGED <<started, tasks>>
        ELSE HandleInput(t, c.sink) /\ UNCHANGED pc
    /\ UNCHANGED <<global, epoch, index, lists, snap, ret, sink, events, owner, poll_lock,
                   registered, closed, destroyed>>

HandleNone(t) ==
    /\ pc[t] = "loop" /\ calls[t] = <<>>
    /\ Goto(t, "work")
    /\ UNCHANGED <<global, epoch, index, lists, snap, ret, sink, events, work, owner, poll_lock, flags>>

(* A worker executes the next task, then handles calls.                    *)
ExecuteTask(t, task) ==
    /\ pc[t] = "work" /\ tasks[t] # <<>> /\ Head(tasks[t]).task = task
    /\ Goto(t, "loop")
    /\ UNCHANGED <<global, epoch, index, lists, snap, ret, sink, events, calls, owner, poll_lock,
                   registered, closed>>

(* mm_event_input_complete: there is more input, or done with it for now.  *)
InputAgain(t) ==
    /\ ExecuteTask(t, "input") /\ Head(tasks[t]).sink \notin closed
    /\ tasks' = [tasks EXCEPT ![t] = Append(Tail(@), Head(@))]
    /\ UNCHANGED <<started, destroyed>>

InputDone(t) ==
    /\ ExecuteTask(t, "input")
    /\ tasks' = [tasks EXCEPT ![t] = Tail(@)]
    /\ started' = started \ {Head(tasks[t]).sink}
    /\ UNCHANGED destroyed

(* mm_event_epoch_reclaim_execute *)
ReclaimExecute(t) ==
    /\ ExecuteTask(t, "reclaim")
    /\ tasks' = [tasks EXCEPT ![t] = Tail(@)]
    /\ destroyed' = destroyed \cup {Head(tasks[t]).sink}
    /\ UNCHANGED started

-----------------------------------------------------------------------------
(* mm_event_listen with no task to execute: the poller polls, the others   *)
(* try to advance the epoch before they sleep.                             *)
Listen(t) ==
    /\ pc[t] = "work" /\ tasks[t] = <<>>
    /\ \/ /\ poll_lock = 0 /\ poll_lock' = t
          /\ Goto(t, "poll_load")
       \/ /\ poll_lock # 0 /\ UNCHANGED poll_lock
          /\ Goto(t, IF Count(t) # 0 THEN "advance" ELSE "loop")
    /\ UNCHANGED <<global, epoch, index, lists, snap, ret, sink, events, work, owner, flags>>

(* epoll_wait returns events of some of the watched sinks.                 *)
EpollWait(t) ==
    /\ pc[t] = "epoll"
    /\ \E ready \in SUBSET registered : events' = [events EXCEPT ![t] = ready]
    /\ Goto(t, "events")
    /\ UNCHANGED <<global, epoch, index, lists, snap, ret, sink, work, owner, poll_lock, flags>>

(* mm_event_epoll_handle, mm_event_listener_input: the event is handled    *)
(* here or forwarded to the owner of the sink.                             *)
HandleEvent(t, s) ==
    /\ pc[t] = "events" /\ s \in events[t]
    /\ events' = [events EXCEPT ![t] = @ \ {s}]
    /\ \/ owner[s] = t /\ HandleInput(t, s) /\ UNCHANGED calls
       \/ /\ owner[s] # t /\ Len(calls[owner[s]]) < MaxCalls
          /\ calls' = [calls EXCEPT ![owner[s]] = Append(@, InputReq(s))]
          /\ UNCHANGED <<started, tasks>>
    /\ UNCHANGED <<global, epoch, index, lists, snap, pc, ret, sink, owner, poll_lock,
                   registered, closed, destroyed>>

LeaveNot(t) ==
    /\ pc[t] = "events" /\ events[t] = {}
    /\ Goto(t, "unlock")
    /\ UNCHANGED <<global, epoch, index, lists, snap, ret, sink, events, work, owner, poll_lock, flags>>

(* mm_event_epoch_leave at the end of mm_event_poll.                       *)
Leave(t) ==
    /\ pc[t] = "events" /\ events[t] = {}
    /\ \/ /\ Count(t) = 0
          /\ epoch' = [epoch EXCEPT ![t] = 0]
          /\ Goto(t, "unlock") /\ UNCHANGED ret
       \/ /\ Count(t) # 0
          /\ ret' = [ret EXCEPT ![t] = "unlock"]
          /\ Goto(t, "advance") /\ UNCHANGED epoch
    /\ UNCHANGED <<global, index, lists, snap, sink, events, work, owner, poll_lock, flags>>

Unlock(t) ==
    /\ pc[t] = "unlock"
    /\ poll_lock' = 0
    /\ Goto(t, "loop")
    /\ UNCHANGED <<global, epoch, index, lists, snap, ret, sink, events, work, owner, flags>>

-----------------------------------------------------------------------------
Enter(t) ==
    \/ EnterLoad(t, "poll_load", "poll_store") \/ EnterStore(t, "poll_store", "epoll")
    \/ EnterLoad(t, "close_load", "close_store") \/ EnterStore(t, "close_store", "delete")
Poll(t) == EpollWait(t) \/ (\E s \in Sinks : HandleEvent(t, s)) \/ Leave(t) \/ Unlock(t)
Run(t) ==
    \/ Enter(t) \/ AdvanceLoad(t) \/ Reclaim(t) \/ Scan(t) \/ Advance(t)
    \/ Unregister(t) \/ Retire(t)
    \/ HandleCall(t) \/ HandleNone(t) \/ Listen(t) \/ Poll(t)
    \/ InputAgain(t) \/ InputDone(t) \/ ReclaimExecute(t)

(* mm_async_call_2 in mm_event_listener_input finds the queue of the owner *)
(* full; mm_thread_backoff yields, and a pending call is executed.         *)
Backoff(t) ==
    /\ pc[t] = "events" /\ calls[t] # <<>>
    /\ \E s \in events[t] : owner[s] # t /\ Len(calls[owner[s]]) = MaxCalls
    /\ calls' = [calls EXCEPT ![t] = Tail(@)]
    /\ LET c == Head(calls[t]) IN
        IF c = Observe /\ Count(t) # 0
        THEN /\ Goto(t, "advance") /\ ret' = [ret EXCEPT ![t] = "events"]
             /\ UNCHANGED <<started, tasks>>
        ELSE /\ IF c = Observe THEN UNCHANGED <<started, tasks>> ELSE HandleInput(t, c.sink)
             /\ UNCHANGED <<pc, ret>>
    /\ UNCHANGED <<global, epoch, index, lists, snap, sink, events, owner, poll_lock,
                   registered, closed, destroyed>>

Next == \E t \in Threads : Run(t) \/ \E s \in Sinks : Close(t, s)

Spec == Init /\ [][Next]_vars

(* A poller that forwards events to a full queue backs off.                *)
BackoffSpec == Init /\ [][Next \/ \E t \in Threads : Backoff(t)]_vars

(* Threads run, and each of them runs out of work now and then: a thread   *)
(* that always has a task never listens, and unless it is asked it stays   *)
(* in its epoch.  Nobody has to close a sink.                              *)
FairSpec == Spec /\ \A t \in Threads : WF_vars(Run(t)) /\ []<><<Listen(t)>>_vars

-----------------------------------------------------------------------------
TypeOK ==
    /\ global % 2 = 1
    /\ epoch \in [Threads -> 0 .. global] /\ snap \in [Threads -> 0 .. global]
    /\ index \in [Threads -> 0 .. N]
    /\ queue \in [Threads -> SUBSET Sinks]
    /\ limbo \in [Threads -> [{0, 1} -> SUBSET Sinks]]
    /\ events \in [Threads -> SUBSET Sinks]
    /\ registered \cup closed \cup started \cup destroyed \subseteq Sinks
    /\ poll_lock \in 0 .. N

Queued(t) == {tasks[t][i] : i \in DOMAIN tasks[t]}
Pending(t) == {calls[t][i] : i \in DOMAIN calls[t]}

(* The reclamation of the sink has begun: its reclaim task is queued or    *)
(* executed.                                                               *)
Reclaimed(s) == s \in destroyed \/ \E t \in Threads : ReclaimTask(s) \in Queued(t)

(* "Upon this point there will be no any new I/O events related to this    *)
(* sink": once a sink is reclaimed no poller has it among its events.      *)
NoEventAfterReclaim ==
    \A s \in Sinks : Reclaimed(s) => \A t \in Threads : s \notin events[t]

(* "It might lag behind by more than one step only if both limbo lists are *)
(* empty": else an advance could take fresh sinks for old ones.            *)
LagOnlyWhenEmpty ==
    \A t \in Threads :
        pc[t] = "reclaim" /\ snap[t] - epoch[t] > 2 => limbo[t] = [i \in {0, 1} |-> {}]

(* Epochs are odd, none is ahead of the global one, and one that lags far  *)
(* behind has nothing put aside.                                           *)
EpochInv == TypeOK /\ LagOnlyWhenEmpty

(* "The last one that refers to it": nothing refers to a destroyed sink.   *)
ReclaimLast ==
    \A s \in destroyed, t \in Threads :
        InputTask(s) \notin Queued(t) /\ InputReq(s) \notin Pending(t)

(* Every closed sink is destroyed at last, though the listeners enter and  *)
(* leave epochs all the time.                                              *)
ClosedDestroyed == \A s \in Sinks : s \in closed ~> s \in destroyed
=============================================================================
