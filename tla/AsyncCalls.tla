----------------------------- MODULE AsyncCalls -----------------------------
(***************************************************************************)
(* Asynchronous calls between threads when queues are full: base/async.c,  *)
(* thread/backoff.c and the fiber switch of fiber/fiber.c.  A thread that  *)
(* finds no room in the queue of its target backs off; backing off yields, *)
(* a yield executes the calls in the thread's own queue, and their         *)
(* routines may post calls themselves.  So the frames of posts and of      *)
(* routines nest on the stack of a fiber, and a yield may switch fibers.   *)
(*                                                                         *)
(* A frame is a post, waiting for its slot, or a routine in execution.     *)
(* Fibers of a thread have one priority and so take turns.                 *)
(***************************************************************************)
EXTENDS Integers, Sequences, SequencesExt, FiniteSets

CONSTANTS
    Threads,        \* threads, each with its async_queue
    Fibers,         \* number of fibers of a thread
    Size,           \* number of nodes of an async_queue
    MaxStamp        \* bound on the calls posted to one thread

ASSUME AsyncAssumption ==
    /\ Fibers \in Nat \ {0}
    /\ Size \in Nat \ {0}
    /\ MaxStamp \in Nat

VARIABLES
    status,         \* context->status, here "running" or "pending"
    head, tail,     \* async_queue.head, async_queue.tail
    published,      \* stamps whose call is written in the queue
    cur,            \* context->fiber
    stack           \* per thread and fiber: the frames of posts and routines

queue == <<head, tail, published>>
vars == <<status, queue, cur, stack>>

FiberIds == 1 .. Fibers
Routine == [to |-> "none", stamp |-> 0]
Post(d, s) == [to |-> d, stamp |-> s]
Frames == {Routine} \cup {Post(d, s) : d \in Threads, s \in 0 .. MaxStamp}

Init ==
    /\ status = [t \in Threads |-> "running"]
    /\ head = [t \in Threads |-> 0] /\ tail = [t \in Threads |-> 0]
    /\ published = [t \in Threads |-> {}]
    /\ cur = [t \in Threads |-> 1]
    /\ stack = [t \in Threads |-> [f \in FiberIds |-> <<>>]]

(* The stack of the fiber that runs on thread t, and its top frame.        *)
Stack(t) == stack[t][cur[t]]
InPost(t) == Stack(t) # <<>> /\ Last(Stack(t)) # Routine
InRoutine(t) == Stack(t) # <<>> /\ Last(Stack(t)) = Routine
SetStack(t, s) == stack' = [stack EXCEPT ![t][cur[t]] = s]

(* mm_fiber_switch to the next of the fibers, all of the same priority.    *)
Switch(t) == cur' = [cur EXCEPT ![t] = (@ % Fibers) + 1]

Receivable(t) == head[t] \in published[t]

(* mm_async_receive *)
Receive(t) ==
    /\ Receivable(t)
    /\ head' = [head EXCEPT ![t] = @ + 1]
    /\ published' = [published EXCEPT ![t] = @ \ {head[t]}]
    /\ UNCHANGED tail

(* MM_SEND by the body of a fiber or by a routine: the stamp is taken.     *)
Call(t, d) ==
    /\ ~InPost(t) /\ tail[d] < MaxStamp
    /\ SetStack(t, Append(Stack(t), Post(d, tail[d])))
    /\ tail' = [tail EXCEPT ![d] = @ + 1]
    /\ UNCHANGED <<status, head, published, cur>>

SlotReadyEarly(p) == p.stamp <= head[p.to] + Size

(* The node of the post is free: its consumer of the former lap is done.   *)
SlotReady(p) == p.stamp < head[p.to] + Size

(* The post finds its node free, writes and publishes it and returns.      *)
Publish(t) ==
    /\ InPost(t)
    /\ LET p == Last(Stack(t)) IN
        /\ SlotReady(p)
        /\ published' = [published EXCEPT ![p.to] = @ \cup {p.stamp}]
    /\ SetStack(t, Front(Stack(t)))
    /\ UNCHANGED <<status, head, tail, cur>>

(* A fiber that has no post to finish, or one whose node is not free, may  *)
(* yield: at will, or by mm_thread_backoff.                                *)
Yields(t) == Stack(t) = <<>> \/ (InPost(t) /\ ~SlotReady(Last(Stack(t))))

YieldHandleNot(t) ==
    /\ Yields(t) /\ Receivable(t)
    /\ \/ /\ Stack(t) = <<>> /\ Receive(t)
          /\ status' = [status EXCEPT ![t] = "pending"]
          /\ SetStack(t, Append(Stack(t), Routine))
          /\ UNCHANGED cur
       \/ /\ InPost(t)
          /\ IF status[t] = "running" THEN Switch(t) ELSE UNCHANGED cur
          /\ UNCHANGED <<status, queue, stack>>

(* mm_fiber_yield with a call in the queue: mm_async_handle_calls forbids  *)
(* fiber switches and starts the routine of the call.                      *)
YieldHandle(t) ==
    /\ Yields(t) /\ Receive(t)
    /\ status' = [status EXCEPT ![t] = "pending"]
    /\ SetStack(t, Append(Stack(t), Routine))
    /\ UNCHANGED cur

(* mm_fiber_yield with no call in the queue: the switch is left out unless *)
(* the status is running.                                                  *)
YieldSwitch(t) ==
    /\ Yields(t) /\ ~Receivable(t)
    /\ IF status[t] = "running" THEN Switch(t) ELSE UNCHANGED cur
    /\ UNCHANGED <<status, queue, stack>>

(* A routine returns and mm_async_handle_calls finds the next call.        *)
HandleNext(t) ==
    /\ InRoutine(t) /\ Receive(t)
    /\ UNCHANGED <<status, cur, stack>>

(* A routine returns and there are no more calls: the status is restored   *)
(* and the yield goes on to switch fibers.                                 *)
HandleEnd(t) ==
    /\ InRoutine(t) /\ ~Receivable(t)
    /\ status' = [status EXCEPT ![t] = "running"]
    /\ SetStack(t, Front(Stack(t)))
    /\ Switch(t)
    /\ UNCHANGED queue

Run(t) == Publish(t) \/ YieldHandle(t) \/ YieldSwitch(t) \/ HandleNext(t) \/ HandleEnd(t)

Next == \E t \in Threads : Run(t) \/ \E d \in Threads \ {t} : Call(t, d)

Spec == Init /\ [][Next]_vars

(* A thread that can run does run; nobody has to post a call.              *)
FairSpec == Spec /\ \A t \in Threads : WF_vars(Run(t))

-----------------------------------------------------------------------------
TypeOK ==
    /\ status \in [Threads -> {"running", "pending"}]
    /\ head \in [Threads -> 0 .. MaxStamp] /\ tail \in [Threads -> 0 .. MaxStamp]
    /\ \A t \in Threads : published[t] \subseteq head[t] .. head[t] + Size - 1
    /\ cur \in [Threads -> FiberIds]
    /\ stack \in [Threads -> [FiberIds -> Seq(Frames)]]

Handling(t, f) == Routine \in Range(stack[t][f])

(* A thread is never left in the state that forbids fiber switches: when   *)
(* the current fiber executes no routine mm_fiber_switch does its work.    *)
PendingInRoutine ==
    \A t \in Threads : status[t] = "pending" => Handling(t, cur[t])

(* No queue overflows, published calls are not overwritten, and no thread  *)
(* stays where mm_fiber_switch does nothing.                               *)
AsyncInv == TypeOK /\ PendingInRoutine

(* "Enter the state that forbids a recursive fiber switch": a fiber that   *)
(* executes the routine of a call is not switched out before it is done.   *)
NoRecursiveSwitch ==
    \A t \in Threads, f \in FiberIds : Handling(t, f) => cur[t] = f

(* Every call that was given a stamp is executed, though the queues of     *)
(* threads that post to each other are full and all of them back off.      *)
CallsHandled ==
    \A t \in Threads, s \in 0 .. MaxStamp - 1 : tail[t] > s ~> head[t] > s
=============================================================================
