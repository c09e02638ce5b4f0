------------------------------- MODULE Future -------------------------------
(***************************************************************************)
(* A future with several waiters, fiber/future.c, and the wait set under   *)
(* its lock, fiber/wait.c.  The fibers of the waiters and of the future's  *)
(* task are on different threads.  A request to run a fiber is a call that *)
(* its thread handles once the fiber has blocked.                          *)
(*                                                                         *)
(* Every wait takes an entry of its own; the reuse of entries by way of    *)
(* the wait caches is left out.  A thread that follows a NULL pointer ends *)
(* the program.                                                            *)
(***************************************************************************)
EXTENDS FutureParams, Sequences, FiniteSets

VARIABLES
    result, cancel, \* future->result, cancel
    running,        \* future->fiber is not NULL
    lock,           \* holder of future->lock
    set,            \* future->waitset: entries, the last one first
    fiber,          \* per entry: wait->fiber
    used,           \* number of entries used
    queued,         \* the task is in a task list
    pc, res, entry, \* per waiter: next step, local result, wait
    tpc, taken,     \* the task: next step, entries it has captured
    value,          \* the task: result of mm_future_execute
    calls,          \* fibers with a run request under way
    cpc,            \* next step of mm_future_cancel
    freed,          \* mm_future_destroy has returned
    crashed         \* NULL has been dereferenced

future == <<result, cancel, running, lock, set>>
entries == <<fiber, used>>
waiters == <<pc, res, entry>>
task == <<queued, tpc, taken, value>>
vars == <<future, entries, waiters, task, calls, cpc, freed, crashed>>

Null == "null"
Task == "task"
Canceller == "canceller"

(* mm_future_prepare *)
Init ==
    /\ result = "deferred" /\ cancel = FALSE /\ running = FALSE /\ lock = Null /\ set = <<>>
    /\ fiber = [e \in 1 .. MaxEntries |-> Null] /\ used = 0
    /\ pc = [w \in Waiters |-> "call"] /\ res = [w \in Waiters |-> Null] /\ entry = [w \in Waiters |-> 0]
    /\ queued = FALSE /\ tpc = "none" /\ taken = <<>> /\ value = Null
    /\ calls = {} /\ cpc = "call" /\ freed = FALSE /\ crashed = FALSE

Goto(w, step) == pc' = [pc EXCEPT ![w] = step]
Ready(v) == v \notin {"deferred", "notready"}

(* The loop of mm_future_wait and mm_future_timedwait goes on while the    *)
(* result seen is NOTREADY.                                                *)
Seen(w, v) ==
    /\ res' = [res EXCEPT ![w] = v]
    /\ Goto(w, IF v = "notready" THEN "loop" ELSE "return")

-----------------------------------------------------------------------------
(* mm_future_wait, mm_future_timedwait: the first look at the result.      *)
WaitLoad(w) ==
    /\ pc[w] = "call" /\ ~freed
    /\ IF result = "deferred"
       THEN Goto(w, "start") /\ UNCHANGED res
       ELSE Seen(w, result)
    /\ UNCHANGED <<future, entries, entry, task, calls, cpc, freed, crashed>>

(* mm_future_start *)
Start(w) ==
    /\ pc[w] = "start"
    /\ IF result = "deferred"
       THEN result' = "notready" /\ queued' = TRUE /\ Seen(w, "notready")
       ELSE UNCHANGED <<result, queued>> /\ Seen(w, result)
    /\ UNCHANGED <<cancel, running, lock, set, entries, entry, tpc, taken, value, calls, cpc, freed, crashed>>

(* The deadline has passed.                                                *)
TimedOut(w) ==
    /\ pc[w] = "loop" /\ w \in Timed
    /\ Goto(w, "return")
    /\ UNCHANGED <<future, entries, res, entry, task, calls, cpc, freed, crashed>>

(* mm_fiber_testcancel: the waiter exits.                                  *)
WaiterExit(w) ==
    /\ pc[w] = "loop"
    /\ Goto(w, "exit")
    /\ UNCHANGED <<future, entries, res, entry, task, calls, cpc, freed, crashed>>

(* The lock is taken and the result looked at again.                       *)
Lock(w) ==
    /\ pc[w] = "loop" /\ lock = Null
    /\ lock' = w
    /\ Goto(w, "locked")
    /\ UNCHANGED <<result, cancel, running, set, entries, res, entry, task, calls, cpc, freed, crashed>>

LockedReady(w) ==
    /\ pc[w] = "locked" /\ result # "notready"
    /\ lock' = Null
    /\ Seen(w, result)
    /\ UNCHANGED <<result, cancel, running, set, entries, entry, task, calls, cpc, freed, crashed>>

InsertBlind(w) ==
    /\ pc[w] = "locked"
    /\ used' = used + 1 /\ fiber' = [fiber EXCEPT ![used + 1] = w]
    /\ set' = <<used + 1>> \o set
    /\ entry' = [entry EXCEPT ![w] = used + 1]
    /\ lock' = Null
    /\ Goto(w, "blocked")
    /\ UNCHANGED <<result, cancel, running, res, task, calls, cpc, freed, crashed>>

(* mm_waitset_wait, mm_waitset_timedwait up to the switch of fibers.       *)
Insert(w) ==
    /\ pc[w] = "locked" /\ result = "notready"
    /\ used' = used + 1 /\ fiber' = [fiber EXCEPT ![used + 1] = w]
    /\ set' = <<used + 1>> \o set
    /\ entry' = [entry EXCEPT ![w] = used + 1]
    /\ lock' = Null
    /\ Goto(w, "blocked")
    /\ UNCHANGED <<result, cancel, running, res, task, calls, cpc, freed, crashed>>

(* A run request is handled: mm_strand_run_fiber_req.                      *)
Deliver(w) ==
    /\ w \in calls /\ pc[w] \notin {"start", "locked"}
    /\ calls' = calls \ {w}
    /\ IF pc[w] = "blocked" THEN Goto(w, "reset") ELSE UNCHANGED pc
    /\ UNCHANGED <<future, entries, res, entry, task, cpc, freed, crashed>>

(* The timer of mm_fiber_pause fires.  The bound on the entries leaves one *)
(* for every waiter that may still insert its own.                         *)
Timeout(w) ==
    /\ pc[w] = "blocked" /\ w \in Timed
    /\ used + Cardinality({x \in Waiters : pc[x] \notin {"blocked", "return", "exit"}}) < MaxEntries
    /\ Goto(w, "reset")
    /\ UNCHANGED <<future, entries, res, entry, task, calls, cpc, freed, crashed>>

(* The end of the wait: the entry is reset, the result loaded.             *)
Reset(w) ==
    /\ pc[w] = "reset"
    /\ fiber' = [fiber EXCEPT ![entry[w]] = Null]
    /\ Goto(w, "reload")
    /\ UNCHANGED <<future, used, res, entry, task, calls, cpc, freed, crashed>>

Reload(w) ==
    /\ pc[w] = "reload"
    /\ Seen(w, result)
    /\ UNCHANGED <<future, entries, entry, task, calls, cpc, freed, crashed>>

-----------------------------------------------------------------------------
(* mm_future_execute *)
TaskExecute ==
    /\ queued /\ tpc = "none"
    /\ queued' = FALSE /\ running' = TRUE
    /\ tpc' = "check"
    /\ UNCHANGED <<result, cancel, lock, set, entries, waiters, taken, value, calls, cpc, freed, crashed>>

TaskCheck ==
    /\ tpc = "check"
    /\ value' = IF cancel THEN "canceled" ELSE "done"
    /\ tpc' = "lock"
    /\ UNCHANGED <<future, entries, waiters, queued, taken, calls, cpc, freed, crashed>>

(* mm_future_complete: the result is stored under the lock.                *)
TaskLock ==
    /\ tpc = "lock" /\ lock = Null
    /\ lock' = Task
    /\ tpc' = "store"
    /\ UNCHANGED <<result, cancel, running, set, entries, waiters, queued, taken, value, calls, cpc, freed, crashed>>

TaskStore ==
    /\ tpc = "store"
    /\ result' = value
    /\ tpc' = "capture"
    /\ UNCHANGED <<cancel, running, lock, set, entries, waiters, queued, taken, value, calls, cpc, freed, crashed>>

(* mm_waitset_broadcast: the set is captured and the lock released.        *)
TaskCapture ==
    /\ tpc = "capture"
    /\ taken' = set /\ set' = <<>> /\ lock' = Null
    /\ tpc' = "wake"
    /\ UNCHANGED <<result, cancel, running, entries, waiters, queued, value, calls, cpc, freed, crashed>>

(* The strand of the fiber is read before the fiber is tested for NULL.    *)
TaskWake ==
    /\ tpc = "wake" /\ taken # <<>>
    /\ taken' = Tail(taken)
    /\ LET f == fiber[Head(taken)] IN
        IF f = Null THEN crashed' = TRUE /\ UNCHANGED calls
                    ELSE calls' = calls \cup {f} /\ UNCHANGED crashed
    /\ UNCHANGED <<future, entries, waiters, queued, tpc, value, cpc, freed>>

TaskEndEarly ==
    /\ tpc = "capture" /\ running
    /\ running' = FALSE
    /\ UNCHANGED <<result, cancel, lock, set, entries, waiters, task, calls, cpc, freed, crashed>>

(* The last access to the future by its task.                              *)
TaskEnd ==
    /\ tpc = "wake" /\ taken = <<>>
    /\ running' = FALSE
    /\ tpc' = "none"
    /\ UNCHANGED <<result, cancel, lock, set, entries, waiters, queued, taken, value, calls, cpc, freed, crashed>>

-----------------------------------------------------------------------------
(* mm_future_cancel: the flag, then a look under the lock that has no      *)
(* effect, running futures are not canceled.                               *)
Cancel ==
    /\ cpc = "call" /\ ~freed
    /\ cancel' = TRUE
    /\ cpc' = "lock"
    /\ UNCHANGED <<result, running, lock, set, entries, waiters, task, calls, freed, crashed>>

CancelLock ==
    /\ cpc = "lock" /\ lock = Null
    /\ lock' = Canceller
    /\ cpc' = "unlock"
    /\ UNCHANGED <<result, cancel, running, set, entries, waiters, task, calls, freed, crashed>>

CancelUnlock ==
    /\ cpc = "unlock"
    /\ lock' = Null
    /\ cpc' = "done"
    /\ UNCHANGED <<result, cancel, running, set, entries, waiters, task, calls, freed, crashed>>

(* mm_future_destroy by the last user, who must not do so while the result *)
(* is NOTREADY; it waits for the task to let go of the future.             *)
Destroy ==
    /\ ~freed /\ \A w \in Waiters : pc[w] \in {"return", "exit"}
    /\ cpc \in {"call", "done"} /\ result # "notready"
    /\ result # "deferred" => ~running
    /\ freed' = TRUE
    /\ UNCHANGED <<future, entries, waiters, task, calls, cpc, crashed>>

-----------------------------------------------------------------------------
WaitStep(w) ==
    \/ Start(w) \/ TimedOut(w) \/ Lock(w) \/ LockedReady(w)
    \/ Insert(w) \/ Deliver(w) \/ Reset(w) \/ Reload(w)
Wait(w) == WaitLoad(w) \/ WaitStep(w)
Execute == TaskExecute \/ TaskCheck \/ TaskLock \/ TaskStore \/ TaskCapture \/ TaskWake \/ TaskEnd
Cancelling == Cancel \/ CancelLock \/ CancelUnlock
Next ==
    \/ ~crashed /\ \E w \in Waiters : Wait(w) \/ Timeout(w) \/ WaiterExit(w)
    \/ ~crashed /\ (Execute \/ Cancelling \/ Destroy)
Spec == Init /\ [][Next]_vars

(* Threads run, and each gets the lock if it is free again and again.  A   *)
(* new wait, a cancellation and a timeout do not have to happen.           *)
FairSpec ==
    /\ Spec /\ WF_vars(~crashed /\ Execute) /\ SF_vars(~crashed /\ TaskLock)
    /\ WF_vars(~crashed /\ (CancelLock \/ CancelUnlock))
    /\ \A w \in Waiters :
        /\ WF_vars(~crashed /\ WaitStep(w))
        /\ SF_vars(~crashed /\ Lock(w)) /\ SF_vars(~crashed /\ Deliver(w))

-----------------------------------------------------------------------------
(* A fiber that waits is found by the task: it is in the set or captured,  *)
(* or asked to run, unless it waits with a timeout.                        *)
WaiterKnown ==
    \A w \in Waiters : pc[w] = "blocked" =>
        \/ \E i \in DOMAIN set : set[i] = entry[w]
        \/ \E i \in DOMAIN taken : taken[i] = entry[w]
        \/ w \in calls

(* The memory of the future is not touched once it is freed: "This must be *)
(* the last access to the future structure performed by the task".         *)
FreedUntouched == freed => tpc = "none" /\ ~queued /\ cpc \in {"call", "done"} /\ lock = Null

(* A waiter without a timeout returns with the result.                     *)
ReturnsResult == \A w \in Waiters : pc[w] = "return" => w \in Timed \/ (Ready(res[w]) /\ res[w] = result)

(* A waiter that sleeps will be found, one that returns has the result,    *)
(* and nothing is left to be done to a future that is gone.                *)
FutureInv == WaiterKnown /\ FreedUntouched /\ ReturnsResult

(* mm_waitset_broadcast expects entries whose fiber has been reset: "Run   *)
(* the fiber if it has not been reset".                                    *)
NoNullFiber == ~crashed

(* Every call of mm_future_wait returns, unless its fiber is canceled or   *)
(* the program has failed.                                                 *)
WaitersReturn == \A w \in Waiters : pc[w] # "call" ~> pc[w] \in {"return", "exit"} \/ crashed
=============================================================================
