------------------------------- MODULE Strand -------------------------------
(***************************************************************************)
(* The fibers of one thread: fiber/strand.c, fiber.c and runq.c with the   *)
(* timers of event/event.c.  The boot fiber starts the master and worker   *)
(* fibers and gets control back when nothing else can run; the master      *)
(* listens for events and keeps workers busy; the workers execute tasks.   *)
(*                                                                         *)
(* Only the running fiber moves, and it gives way only where it switches.  *)
(* What a task does is left open: it may block, pause, yield, wake, hoist  *)
(* or cancel other workers, add a task, test for cancellation, return.     *)
(* Other threads post calls at any time: to stop the strand, to run a      *)
(* worker (also one that does not wait for it any more).                   *)
(***************************************************************************)
EXTENDS Integers, SequencesExt, FiniteSetsExt

CONSTANTS
    Workers,        \* fibers the workers are made of
    WorkersMin,     \* nworkers_min
    WorkersMax,     \* nworkers_max
    Lowermost,      \* MM_PRIO_LOWERMOST
    MaxTasks,       \* bound on the tasks that come
    MaxCalls        \* bound on the calls pending for the thread

ASSUME StrandAssumption ==
    /\ WorkersMin \in Nat /\ WorkersMax \in Nat /\ WorkersMin <= WorkersMax
    /\ Cardinality(Workers) >= WorkersMax
    /\ Lowermost \in Nat /\ Lowermost >= 3
    /\ MaxTasks \in Nat /\ MaxCalls \in Nat

Boot == "boot"
Master == "master"
Null == 0
Stop == "stop"
Fibers == Workers \cup {Boot, Master}

Upper(p, n) == Max({0, p - n})
PrioBoot == Lowermost
PrioMaster == Upper(PrioBoot, 1)
PrioWorker == Upper(PrioMaster, 1)

VARIABLES
    q,              \* fibers and the lists they are in, see Init
    flags,          \* per fiber: CANCEL_DISABLE, _REQUIRED, _OCCURRED, WAITING
    idle, nidle,    \* strand->idle, nidle
    nworkers,       \* strand->nworkers
    pc,             \* per fiber: next step
    task, slot,     \* per worker: local variables of mm_strand_worker
    armed,          \* fibers whose pause timer is in the timer queue
    tasks, calls,   \* context->tasks, async_queue
    stop,           \* strand->stop
    arrived,        \* number of tasks that have come
    completed       \* per task: how often it has been completed

idling == <<idle, nidle>>
vars == <<q, flags, idling, nworkers, pc, task, slot, armed, tasks, calls, stop, arrived, completed>>

(* mm_strand_prepare, mm_regular_boot: the boot fiber runs.                *)
Init ==
    /\ q = [fiber |-> Boot,                                  \* context->fiber
            state |-> [f \in Fibers |-> IF f = Boot THEN "running" ELSE "none"],
            prio |-> [f \in Fibers |-> PrioBoot],
            bins |-> [p \in 0 .. Lowermost |-> <<>>], bmap |-> {},  \* strand->runq
            block |-> <<>>, dead |-> <<>>]
    /\ flags = [f \in Fibers |-> IF f = Boot THEN {"disable"} ELSE {}]
    /\ idle = <<>> /\ nidle = 0 /\ nworkers = 0
    /\ pc = [f \in Fibers |-> CASE f = Boot -> "start" [] f = Master -> "yield" [] OTHER -> "get"]
    /\ task = [f \in Fibers |-> Null] /\ slot = [f \in Fibers |-> Null]
    /\ armed = {}
    /\ tasks = <<>> /\ calls = <<>> /\ stop = FALSE
    /\ arrived = 0 /\ completed = [k \in 1 .. MaxTasks |-> 0]

-----------------------------------------------------------------------------
(* mm_runq_put, mm_runq_get, mm_runq_delete *)
Put(r, f) == [r EXCEPT !.bmap = @ \cup {r.prio[f]}, !.bins[r.prio[f]] = Append(@, f)]

ClearBit(r, p) == IF r.bins[p] = <<>> THEN [r EXCEPT !.bmap = @ \ {p}] ELSE r

Get(r) ==
    LET p == Min(r.bmap)
        f == Head(r.bins[p])
    IN ClearBit([r EXCEPT !.bins[p] = Tail(@), !.state[f] = "running", !.fiber = f], p)

Delete(r, f) == ClearBit([r EXCEPT !.bins[r.prio[f]] = Remove(@, f)], r.prio[f])

(* mm_fiber_run *)
Run(r, f) ==
    IF r.state[f] = "blocked"
    THEN Put([r EXCEPT !.state[f] = "pending", !.block = Remove(@, f)], f)
    ELSE r

(* mm_fiber_hoist *)
Hoist(r, f, p) ==
    LET out == IF r.state[f] = "blocked"
               THEN [r EXCEPT !.state[f] = "pending", !.block = Remove(@, f)]
               ELSE Delete(r, f)
    IN IF r.state[f] = "blocked" \/ (r.state[f] = "pending" /\ r.prio[f] > p)
       THEN Put([out EXCEPT !.prio[f] = Min({@, p})], f)
       ELSE r

(* mm_fiber_switch *)
Switch(r, st) ==
    LET old == r.fiber
        s == [r EXCEPT !.state[old] = st]
    IN Get(CASE st = "pending" -> Put(s, old)
             [] st = "blocked" -> [s EXCEPT !.block = Append(@, old)]
             [] st = "invalid" -> [s EXCEPT !.dead = Append(@, old)])

(* mm_fiber_create: a dead fiber is used again, or a new one allocated.    *)
NewFiber(r) == IF r.dead # <<>> THEN Head(r.dead) ELSE CHOOSE f \in Workers : r.state[f] = "none"

Create(r, f, p) ==
    Run([r EXCEPT !.dead = Remove(@, f), !.prio[f] = p,
                  !.state[f] = "blocked", !.block = Append(@, f)], f)

(* mm_async_handle_calls, with mm_strand_run_fiber_req, mm_strand_stop_req *)
Called(r) == FoldLeft(LAMBDA s, c : IF c = Stop THEN s ELSE Run(s, c), r, calls)
HandleCallsReset == calls' = <<>> /\ stop' = Contains(calls, Stop)
HandleCalls == calls' = <<>> /\ stop' = (stop \/ Contains(calls, Stop))

-----------------------------------------------------------------------------
At(f, step) == q.fiber = f /\ pc[f] = step
Goto(f, step) == pc' = [pc EXCEPT ![f] = step]

(* mm_strand_loop: the master and the first workers are created, the boot  *)
(* fiber yields.                                                           *)
BootStart ==
    /\ At(Boot, "start")
    /\ q' = LET workers == FoldLeft(LAMBDA r, i : Create(r, NewFiber(r), PrioWorker),
                                    Create(q, Master, PrioMaster), [i \in 1 .. WorkersMin |-> i])
            IN Switch(Called(workers), "pending")
    /\ nworkers' = WorkersMin
    /\ HandleCalls
    /\ Goto(Boot, "loop")
    /\ UNCHANGED <<flags, idling, task, slot, armed, tasks, arrived, completed>>

(* The boot fiber runs again: fibers blocked and dead are destroyed.       *)
BootEnd ==
    /\ At(Boot, "loop")
    /\ q' = [q EXCEPT !.block = <<>>, !.dead = <<>>,
                      !.state = [f \in Fibers |-> IF @[f] \in {"blocked", "invalid"} THEN "none" ELSE @[f]]]
    /\ Goto(Boot, "done")
    /\ UNCHANGED <<flags, idling, nworkers, task, slot, armed, tasks, calls, stop, arrived, completed>>

-----------------------------------------------------------------------------
(* mm_event_listen: timers fire and events wake fibers, in the order s,    *)
(* and n tasks come.                                                       *)
Wakes == UNION {SetToSeqs(S) : S \in SUBSET {f \in Workers : pc[f] \in {"execute", "pause"}}}
Woken(r, s) == FoldLeft(Run, r, s)

Arrive(n) ==
    /\ tasks' = tasks \o [i \in 1 .. n |-> arrived + i]
    /\ arrived' = arrived + n

Listen(s, n) ==
    /\ \E fired \in SUBSET (armed \cap ToSet(s)) : armed' = armed \ fired
    /\ Arrive(n)

(* mm_strand_master: the yield at the top of the loop.                     *)
MasterYield ==
    /\ At(Master, "yield")
    /\ q' = Switch(Called(q), "pending")
    /\ HandleCalls
    /\ Goto(Master, "check")
    /\ UNCHANGED <<flags, idling, nworkers, task, slot, armed, tasks, arrived, completed>>

(* The master leaves its loop and exits.                                   *)
MasterStop ==
    /\ At(Master, "check") /\ stop
    /\ q' = Switch(q, "invalid")
    /\ Goto(Master, "done")
    /\ UNCHANGED <<flags, idling, nworkers, task, slot, armed, tasks, calls, stop, arrived, completed>>

(* It listens if there are no tasks; events without tasks also make it     *)
(* look for a worker.                                                      *)
MasterListen ==
    /\ At(Master, "check") /\ ~stop /\ tasks = <<>>
    /\ \E s \in Wakes, n \in 0 .. MaxTasks - arrived, events \in BOOLEAN :
        /\ q' = Woken(q, s)
        /\ Listen(s, n)
        /\ Goto(Master, IF events \/ n > 0 THEN "pick" ELSE "yield")
    /\ UNCHANGED <<flags, idling, nworkers, task, slot, calls, stop, completed>>

MasterPicks == At(Master, "pick") \/ (At(Master, "check") /\ ~stop /\ tasks # <<>>)

(* mm_strand_poke *)
MasterPoke ==
    /\ MasterPicks /\ nidle > 0
    /\ q' = Run(q, Head(idle))
    /\ Goto(Master, "yield")
    /\ UNCHANGED <<flags, idling, nworkers, task, slot, armed, tasks, calls, stop, arrived, completed>>

(* No worker is idle: listen once more, handle calls and yield.            *)
MasterRelisten ==
    /\ MasterPicks /\ nidle = 0
    /\ \E s \in Wakes, n \in 0 .. MaxTasks - arrived :
        /\ q' = Switch(Called(Woken(q, s)), "pending")
        /\ Listen(s, n)
    /\ HandleCalls
    /\ Goto(Master, "recheck")
    /\ UNCHANGED <<flags, idling, nworkers, task, slot, completed>>

MasterCreateMin ==
    /\ At(Master, "recheck")
    /\ IF nidle = 0 /\ nworkers < WorkersMin
       THEN LET f == NewFiber(q) IN
            /\ q' = Create(q, f, PrioWorker)
            /\ flags' = [flags EXCEPT ![f] = {}]
            /\ nworkers' = nworkers + 1
       ELSE UNCHANGED <<q, flags, nworkers>>
    /\ Goto(Master, "yield")
    /\ UNCHANGED <<idling, task, slot, armed, tasks, calls, stop, arrived, completed>>

(* mm_strand_worker_create, unless a worker is idle now or there are       *)
(* nworkers_max of them.                                                   *)
MasterCreate ==
    /\ At(Master, "recheck")
    /\ IF nidle = 0 /\ nworkers < WorkersMax
       THEN LET f == NewFiber(q) IN
            /\ q' = Create(q, f, PrioWorker)
            /\ flags' = [flags EXCEPT ![f] = {}]
            /\ nworkers' = nworkers + 1
       ELSE UNCHANGED <<q, flags, nworkers>>
    /\ Goto(Master, "yield")
    /\ UNCHANGED <<idling, task, slot, armed, tasks, calls, stop, arrived, completed>>

-----------------------------------------------------------------------------
(* mm_strand_worker takes a task, or becomes idle: mm_strand_idle.         *)
WorkerGet(f) ==
    /\ At(f, "get") /\ tasks # <<>>
    /\ slot' = [slot EXCEPT ![f] = Head(tasks)] /\ task' = [task EXCEPT ![f] = Head(tasks)]
    /\ tasks' = Tail(tasks)
    /\ Goto(f, "execute")
    /\ UNCHANGED <<q, flags, idling, nworkers, armed, calls, stop, arrived, completed>>

WorkerIdle(f) ==
    /\ At(f, "get") /\ tasks = <<>>
    /\ idle' = <<f>> \o idle /\ nidle' = nidle + 1
    /\ flags' = [flags EXCEPT ![f] = @ \cup {"waiting"}]
    /\ q' = Switch(q, "blocked")
    /\ Goto(f, "idle")
    /\ UNCHANGED <<nworkers, task, slot, armed, tasks, calls, stop, arrived, completed>>

(* The end of mm_strand_idle.                                              *)
WorkerUnidle(f) ==
    /\ At(f, "idle")
    /\ idle' = Remove(idle, f) /\ nidle' = nidle - 1
    /\ flags' = [flags EXCEPT ![f] = @ \ {"waiting"}]
    /\ Goto(f, "get")
    /\ UNCHANGED <<q, nworkers, task, slot, armed, tasks, calls, stop, arrived, completed>>

-----------------------------------------------------------------------------
(* mm_fiber_block and mm_fiber_yield in a task.                            *)
TaskBlock(f) ==
    /\ At(f, "execute")
    /\ q' = Switch(q, "blocked")
    /\ UNCHANGED <<flags, idling, nworkers, pc, task, slot, armed, tasks, calls, stop, arrived, completed>>

TaskYield(f) ==
    /\ At(f, "execute")
    /\ q' = Switch(Called(q), "pending")
    /\ HandleCalls
    /\ UNCHANGED <<flags, idling, nworkers, pc, task, slot, armed, tasks, arrived, completed>>

(* mm_fiber_pause up to the switch, with mm_event_arm_timer; its end, with *)
(* mm_event_disarm_timer.                                                  *)
TaskPause(f) ==
    /\ At(f, "execute")
    /\ armed' = armed \cup {f}
    /\ q' = Switch(q, "blocked")
    /\ Goto(f, "pause")
    /\ UNCHANGED <<flags, idling, nworkers, task, slot, tasks, calls, stop, arrived, completed>>

PauseEnd(f) ==
    /\ At(f, "pause")
    /\ armed' = armed \ {f}
    /\ Goto(f, "execute")
    /\ UNCHANGED <<q, flags, idling, nworkers, task, slot, tasks, calls, stop, arrived, completed>>

(* A task wakes another worker: mm_strand_run_fiber on the same strand.    *)
TaskWake(f, g) ==
    /\ At(f, "execute") /\ q.state[g] # "none"
    /\ q' = Run(q, g)
    /\ UNCHANGED <<flags, idling, nworkers, pc, task, slot, armed, tasks, calls, stop, arrived, completed>>

(* mm_event_epoch_reclaim_execute: the fiber that still uses the sink is   *)
(* hoisted above this one, which yields to it.                             *)
TaskHoist(f, g) ==
    /\ At(f, "execute") /\ g # f /\ pc[g] \in {"execute", "pause"} /\ q.state[g] # "none"
    /\ q' = Switch(Called(Hoist(q, g, Upper(q.prio[f], 1))), "pending")
    /\ HandleCalls
    /\ UNCHANGED <<flags, idling, nworkers, pc, task, slot, armed, tasks, arrived, completed>>

(* mm_fiber_cancel *)
TaskCancel(f, g) ==
    /\ At(f, "execute") /\ q.state[g] \notin {"none", "invalid"}
    /\ flags' = [flags EXCEPT ![g] = @ \cup {"required"}]
    /\ q' = IF q.state[g] = "running" THEN q ELSE Run(q, g)
    /\ UNCHANGED <<idling, nworkers, pc, task, slot, armed, tasks, calls, stop, arrived, completed>>

(* mm_fiber_setcancelstate *)
TaskSetCancel(f) ==
    /\ At(f, "execute")
    /\ flags' = [flags EXCEPT ![f] = IF "disable" \in @ THEN @ \ {"disable"} ELSE @ \cup {"disable"}]
    /\ UNCHANGED <<q, idling, nworkers, pc, task, slot, armed, tasks, calls, stop, arrived, completed>>

(* mm_context_add_task *)
TaskAdd(f) ==
    /\ At(f, "execute") /\ arrived < MaxTasks
    /\ Arrive(1)
    /\ UNCHANGED <<q, flags, idling, nworkers, pc, task, slot, armed, calls, stop, completed>>

CancelTest(f) == "required" \in flags[f] /\ flags[f] \cap {"disable", "occurred"} = {}

(* mm_fiber_exit with mm_strand_worker_cleanup: the task in the slot, if   *)
(* any, is completed as canceled.                                          *)
Exit(f, done) ==
    /\ flags' = [flags EXCEPT ![f] = @ \cup {"occurred"}]
    /\ completed' = IF slot[f] = Null THEN done ELSE [done EXCEPT ![slot[f]] = @ + 1]
    /\ slot' = [slot EXCEPT ![f] = Null] /\ task' = [task EXCEPT ![f] = Null]
    /\ nworkers' = nworkers - 1
    /\ q' = Switch(q, "invalid")
    /\ Goto(f, "get")
    /\ UNCHANGED <<idling, armed, tasks, calls, stop, arrived>>

(* mm_fiber_testcancel in a task.                                          *)
TaskExit(f) == At(f, "execute") /\ CancelTest(f) /\ Exit(f, completed)

TaskReturnSlot(f) ==
    /\ At(f, "execute")
    /\ Goto(f, "complete")
    /\ UNCHANGED <<q, flags, idling, nworkers, task, slot, armed, tasks, calls, stop, arrived, completed>>

(* The task returns.                                                       *)
TaskReturn(f) ==
    /\ At(f, "execute")
    /\ slot' = [slot EXCEPT ![f] = Null]
    /\ Goto(f, "complete")
    /\ UNCHANGED <<q, flags, idling, nworkers, task, armed, tasks, calls, stop, arrived, completed>>

(* It is completed, the priority is restored and calls are handled.        *)
Complete(f) ==
    /\ At(f, "complete")
    /\ completed' = [completed EXCEPT ![task[f]] = @ + 1]
    /\ task' = [task EXCEPT ![f] = Null]
    /\ q' = Called([q EXCEPT !.prio[f] = PrioWorker])
    /\ HandleCalls
    /\ Goto(f, "get")
    /\ UNCHANGED <<flags, idling, nworkers, slot, armed, tasks, arrived>>

(* The completion routine tests for cancellation.                          *)
CompleteExit(f) ==
    /\ At(f, "complete") /\ CancelTest(f)
    /\ Exit(f, [completed EXCEPT ![task[f]] = @ + 1])

-----------------------------------------------------------------------------
(* mm_strand_stop and mm_strand_run_fiber in other threads.                *)
Post(c) ==
    /\ Len(calls) < MaxCalls /\ pc[Boot] # "done"
    /\ calls' = Append(calls, c)
    /\ UNCHANGED <<q, flags, idling, nworkers, pc, task, slot, armed, tasks, stop, arrived, completed>>

WorkerStep(f) ==
    \/ WorkerGet(f) \/ WorkerIdle(f) \/ WorkerUnidle(f)
    \/ TaskBlock(f) \/ TaskYield(f) \/ TaskPause(f) \/ PauseEnd(f) \/ TaskSetCancel(f) \/ TaskAdd(f)
    \/ \E g \in Workers : TaskWake(f, g) \/ TaskHoist(f, g) \/ TaskCancel(f, g)
    \/ TaskExit(f) \/ TaskReturn(f) \/ Complete(f) \/ CompleteExit(f)
MasterStep ==
    \/ MasterYield \/ MasterStop \/ MasterListen \/ MasterPoke \/ MasterRelisten \/ MasterCreate
Step == BootStart \/ BootEnd \/ MasterStep \/ \E f \in Workers : WorkerStep(f)
(* The strand has ended.                                                   *)
Ended == pc[Boot] = "done" /\ UNCHANGED vars
Next == Step \/ Ended \/ \E c \in {Stop} \cup {f \in Workers : q.state[f] # "none"} : Post(c)
Spec == Init /\ [][Next]_vars

(* The thread runs until the strand has ended, and a task that gets to run *)
(* again and again returns in the end; nothing makes events come or wakes  *)
(* a fiber that has blocked.                                               *)
FairSpec == Spec /\ ([]<><<Step>>_vars \/ []<>(pc[Boot] = "done")) /\ \A f \in Workers : SF_vars(TaskReturn(f))

-----------------------------------------------------------------------------
TypeOK ==
    /\ q.fiber \in Fibers
    /\ q.state \in [Fibers -> {"none", "invalid", "blocked", "pending", "running"}]
    /\ q.prio \in [Fibers -> 0 .. Lowermost]
    /\ flags \in [Fibers -> SUBSET {"disable", "required", "occurred", "waiting"}]
    /\ nidle \in 0 .. WorkersMax /\ nworkers \in 0 .. WorkersMax
    /\ task \in [Fibers -> 0 .. MaxTasks] /\ slot \in [Fibers -> 0 .. MaxTasks]
    /\ armed \subseteq Workers
    /\ arrived \in 0 .. MaxTasks /\ stop \in BOOLEAN

Once(s, f) == Cardinality({i \in DOMAIN s : s[i] = f}) = 1
Count(k) == Cardinality({f \in Workers : task[f] = k})

(* A fiber is in the one list its state says and in no other, pending ones *)
(* in the bin of their priority, and the bit map of the run queue is exact *)
(* (mm_runq_get asserts it): hoisting moves fibers between bins, wake-ups  *)
(* come more than once.                                                    *)
FibersPlaced ==
    /\ \A f \in Fibers :
        /\ q.state[f] = "running" <=> f = q.fiber
        /\ IF q.state[f] = "blocked" THEN Once(q.block, f) ELSE ~Contains(q.block, f)
        /\ IF q.state[f] = "invalid" THEN Once(q.dead, f) ELSE ~Contains(q.dead, f)
        /\ \A p \in 0 .. Lowermost :
            IF q.state[f] = "pending" /\ q.prio[f] = p THEN Once(q.bins[p], f) ELSE ~Contains(q.bins[p], f)
    /\ q.bmap = {p \in 0 .. Lowermost : q.bins[p] # <<>>}

(* nidle and nworkers, by which the master decides to poke, to create or   *)
(* to wait, are the true numbers of idle and of living workers; no worker  *)
(* exits with MM_FIBER_WAITING set (mm_fiber_exit asserts it).             *)
CountsExact ==
    pc[Boot] = "loop" =>
    /\ nidle = Len(idle) /\ ToSet(idle) = {f \in Workers : pc[f] = "idle"}
    /\ nworkers = Cardinality({f \in Workers : q.state[f] \notin {"none", "invalid"}})
    /\ \A f \in Workers : "waiting" \in flags[f] <=> pc[f] = "idle"

(* A task is completed once whatever the cancellation of its worker hits:  *)
(* until then it is in the list or with one worker.                        *)
CompletedOnce ==
    \A k \in 1 .. MaxTasks :
        Cardinality({i \in DOMAIN tasks : tasks[i] = k}) + Count(k) + completed[k] = IF k <= arrived THEN 1 ELSE 0

(* The timer of a pause is on the stack of the fiber: it is in the timer   *)
(* queue only during the pause, and a fiber that sleeps in a pause has one *)
(* to wake it.                                                             *)
TimersInPause ==
    pc[Boot] = "loop" =>
    /\ \A f \in armed : pc[f] = "pause"
    /\ \A f \in Workers : pc[f] = "pause" /\ q.state[f] = "blocked" => f \in armed

(* A hoisted fiber keeps its priority no longer than its task: an idle or  *)
(* a new worker has the priority of a worker.                              *)
RaisedInTask ==
    \A f \in Workers : q.prio[f] < PrioWorker =>
        pc[f] \in {"execute", "pause", "complete"} \/ q.state[f] \in {"invalid", "none"}

(* mm_strand_loop regains control after a stop only, with the master gone  *)
(* and no fiber ready to run: the fibers it destroys are at rest.          *)
BootLast ==
    At(Boot, "loop") =>
        /\ stop /\ q.state[Master] = "invalid" /\ q.bmap = {}
        /\ \A f \in Workers : q.state[f] \in {"none", "invalid", "blocked"}

(* The scheduler is consistent between any two steps of any fiber: lists,  *)
(* counters, timers and priorities agree with what the fibers are doing,   *)
(* each task is completed once, and mm_strand_loop destroys fibers only    *)
(* when they are at rest.                                                  *)
StrandInv ==
    /\ TypeOK /\ FibersPlaced /\ CountsExact /\ TimersInPause /\ RaisedInTask
    /\ CompletedOnce /\ BootLast

(* A task is taken unless as many workers as allowed are busy or the       *)
(* strand is stopped.                                                      *)
TasksTaken ==
    \A k \in 1 .. MaxTasks :
        Contains(tasks, k) ~>
            ~Contains(tasks, k) \/ stop \/ Cardinality({f \in Workers : task[f] # Null}) = WorkersMax

(* A strand that is asked to stop returns to the boot fiber, even if       *)
(* workers are blocked for ever.                                           *)
StopReturns == Contains(calls, Stop) ~> pc[Boot] = "done"
=============================================================================
