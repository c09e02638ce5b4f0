---------------------------- MODULE UniqueFuture ----------------------------
(***************************************************************************)
(* A future with one waiter, fiber/future.c, and its wait set without a    *)
(* lock, fiber/wait.c.  The waiter and the task of the future are on       *)
(* different threads of an x86 machine: stores go to a buffer and become   *)
(* visible later, in order, while loads go ahead of them; only             *)
(* mm_memory_strict_fence waits for the buffer to drain.                   *)
(***************************************************************************)
EXTENDS Integers, Sequences

VARIABLES
    mem,            \* future and wait set in memory
    wbuf, tbuf,     \* store buffers of the waiter and of the task's thread
    timed,          \* the waiter has a timeout
    queued,         \* the task is in a task list
    pc, res,        \* the waiter: next step, local result
    tpc,            \* the task: next step
    call,           \* a request to run the waiter is under way
    freed           \* mm_future_unique_cleanup has returned

vars == <<mem, wbuf, tbuf, timed, queued, pc, res, tpc, call, freed>>

(* What a thread sees of a location: its own last store to it, or memory.  *)
Load(buf, x) ==
    LET own == SelectSeq(buf, LAMBDA s : s.loc = x)
    IN IF own = <<>> THEN mem[x] ELSE own[Len(own)].val
Store(x, v) == [loc |-> x, val |-> v]

(* mm_future_unique_prepare, mm_waitset_unique_prepare: signal is not set. *)
(* running and fiber tell if future->fiber and waitset->fiber are not NULL.*)
Init ==
    /\ \E s \in BOOLEAN : mem = [result |-> "deferred", running |-> FALSE, fiber |-> FALSE, signal |-> s]
    /\ wbuf = <<>> /\ tbuf = <<>> /\ timed \in BOOLEAN /\ queued = FALSE
    /\ pc = "call" /\ res = "deferred" /\ tpc = "none"
    /\ call = FALSE /\ freed = FALSE

-----------------------------------------------------------------------------
(* mm_future_unique_start, by mm_future_unique_wait or _timedwait.         *)
Start ==
    /\ pc = "call"
    /\ mem' = [mem EXCEPT !.result = "notready"]
    /\ queued' = TRUE /\ res' = "notready"
    /\ pc' = "loop"
    /\ UNCHANGED <<wbuf, tbuf, timed, tpc, call, freed>>

(* The deadline has passed.                                                *)
TimedOut ==
    /\ pc = "loop" /\ timed
    /\ pc' = "return"
    /\ UNCHANGED <<mem, wbuf, tbuf, timed, queued, res, tpc, call, freed>>

(* mm_waitset_unique_wait, mm_waitset_unique_timedwait: the fiber is       *)
(* advertised, then the signal is tested.                                  *)
Advertise ==
    /\ pc = "loop"
    /\ wbuf' = Append(wbuf, Store("fiber", TRUE))
    /\ pc' = "fence"
    /\ UNCHANGED <<mem, tbuf, timed, queued, res, tpc, call, freed>>

Fence ==
    /\ pc = "fence" /\ wbuf = <<>>
    /\ pc' = IF mem.signal THEN "reset" ELSE "blocked"
    /\ UNCHANGED <<mem, wbuf, tbuf, timed, queued, res, tpc, call, freed>>

(* A run request is handled, of use or not; the timer of a pause fires.    *)
Deliver ==
    /\ call /\ pc \in {"blocked", "return"}
    /\ call' = FALSE
    /\ pc' = IF pc = "blocked" THEN "reset" ELSE pc
    /\ UNCHANGED <<mem, wbuf, tbuf, timed, queued, res, tpc, freed>>

Timeout ==
    /\ pc = "blocked" /\ timed
    /\ pc' = "reset"
    /\ UNCHANGED <<mem, wbuf, tbuf, timed, queued, res, tpc, call, freed>>

Reset ==
    /\ pc = "reset"
    /\ wbuf' = wbuf \o <<Store("signal", FALSE), Store("fiber", FALSE)>>
    /\ pc' = "reload"
    /\ UNCHANGED <<mem, tbuf, timed, queued, res, tpc, call, freed>>

Reload ==
    /\ pc = "reload"
    /\ res' = Load(wbuf, "result")
    /\ pc' = IF res' = "notready" THEN "loop" ELSE "return"
    /\ UNCHANGED <<mem, wbuf, tbuf, timed, queued, tpc, call, freed>>

(* mm_future_unique_cleanup waits for the task to let go of the future. It *)
(* must not be called while the result is NOTREADY.                        *)
Cleanup ==
    /\ pc = "return" /\ ~freed /\ mem.result # "notready" /\ ~mem.running
    /\ freed' = TRUE
    /\ UNCHANGED <<mem, wbuf, tbuf, timed, queued, pc, res, tpc, call>>

-----------------------------------------------------------------------------
(* mm_future_execute *)
TaskExecute ==
    /\ queued /\ tpc = "none"
    /\ queued' = FALSE
    /\ tbuf' = Append(tbuf, Store("running", TRUE))
    /\ tpc' = "execute"
    /\ UNCHANGED <<mem, wbuf, timed, pc, res, call, freed>>

(* mm_future_unique_complete, mm_waitset_unique_signal up to the fence.    *)
TaskComplete ==
    /\ tpc = "execute"
    /\ tbuf' = tbuf \o <<Store("result", "done"), Store("signal", TRUE)>>
    /\ tpc' = "signal"
    /\ UNCHANGED <<mem, wbuf, timed, queued, pc, res, call, freed>>

(* The waiter is woken up if there is one; the last access to the future.  *)
TaskSignal ==
    /\ tpc = "signal" /\ tbuf = <<>>
    /\ call' = (call \/ mem.fiber)
    /\ tbuf' = <<Store("running", FALSE)>>
    /\ tpc' = "done"
    /\ UNCHANGED <<mem, wbuf, timed, queued, pc, res, freed>>

-----------------------------------------------------------------------------
(* Stores become visible.                                                  *)
DrainWaiter ==
    /\ wbuf # <<>>
    /\ mem' = [mem EXCEPT ![Head(wbuf).loc] = Head(wbuf).val]
    /\ wbuf' = Tail(wbuf)
    /\ UNCHANGED <<tbuf, timed, queued, pc, res, tpc, call, freed>>

DrainTask ==
    /\ tbuf # <<>>
    /\ mem' = [mem EXCEPT ![Head(tbuf).loc] = Head(tbuf).val]
    /\ tbuf' = Tail(tbuf)
    /\ UNCHANGED <<wbuf, timed, queued, pc, res, tpc, call, freed>>

Wait == Start \/ Advertise \/ Fence \/ Deliver \/ Timeout \/ Reset \/ Reload \/ TimedOut
Execute == TaskExecute \/ TaskComplete \/ TaskSignal
Next == Wait \/ Cleanup \/ Execute \/ DrainWaiter \/ DrainTask
Spec == Init /\ [][Next]_vars

(* Both threads run, timers fire, stores become visible in the end.        *)
FairSpec == Spec /\ WF_vars(Wait) /\ WF_vars(Execute) /\ WF_vars(DrainWaiter) /\ WF_vars(DrainTask)

-----------------------------------------------------------------------------
(* The memory of the future, on the stack of the waiter, is not touched by *)
(* the task once the cleanup is over.                                      *)
FreedUntouched == freed => ~queued /\ tpc \in {"none", "done"} /\ tbuf = <<>>

(* A waiter without a timeout returns with the result.                     *)
ReturnsResult == pc = "return" /\ ~timed => res = "done"

(* The future is safe with its waiter: neither freed too early nor without *)
(* its result.                                                             *)
UniqueInv == FreedUntouched /\ ReturnsResult

(* "Wait for completion notification": a waiter does not sleep for ever    *)
(* when the future is complete.                                            *)
WaiterReturns == pc = "loop" ~> pc = "return"
=============================================================================
