------------------------------ MODULE Listener ------------------------------
(***************************************************************************)
(* Sleep and wake-up of the threads that listen for events: base/async.c,  *)
(* event/event.c, event/listener.h and event/epoll.c.  A thread executes   *)
(* the calls in its own queue and then listens.  The first thread to take  *)
(* poll_lock sleeps in epoll_wait; the others sleep on a futex, the tail   *)
(* of their own queue.  A thread that posts a call wakes the target up     *)
(* only if the target has announced, in its status word, that it sleeps    *)
(* with the very stamp of that call at the front of its queue.             *)
(*                                                                         *)
(* The queue is the ring of module MpmcRing seen as a ticketed queue: a    *)
(* stamp is taken, the call is published later.  A timeout, a signal or an *)
(* I/O event may end a sleep at any time (Return, Timeout) but nothing     *)
(* here relies on it.                                                      *)
(***************************************************************************)
EXTENDS Integers, FiniteSets

CONSTANTS
    Threads,        \* threads, each with its context and listener
    MaxStamp        \* bound on the calls posted to one thread


VARIABLES
    mode, mark,     \* context->status: its low two bits, and the stamp above
    head, tail,     \* async_queue.head, async_queue.tail
    published,      \* stamps whose call is written in the queue
    poll_lock,      \* holder of dispatch->poll_lock
    notified,       \* backend notified flag
    count,          \* the eventfd counter is not zero
    edge,           \* the eventfd is on the ready list of epoll
    pc,             \* per thread: next step
    stamp,          \* per thread: stamp of the posture
    block,          \* per thread: the timeout is not zero
    got,            \* per thread: the poll has returned the notification
    to, sent        \* per thread: target and stamp of the call it posts

status == <<mode, mark>>
queue == <<head, tail, published>>
backend == <<notified, count, edge>>
sender == <<to, sent>>
vars == <<status, queue, poll_lock, backend, pc, stamp, block, got, sender>>

None == "none"

ASSUME ListenerAssumption == MaxStamp \in Nat /\ None \notin Threads

Modes == {"running", "pending", "polling", "waiting"}

(* The program counters of a thread that holds poll_lock.                  *)
PollSteps == {"clean", "polling", "rest_poll", "epoll", "events", "unlock"}
WaitSteps == {"waiting", "rest_wait", "futex", "asleep", "leave"}
SendSteps == {"publish", "load", "notify", "signal"}
Steps == {"loop", "handle", "work"} \cup PollSteps \cup WaitSteps \cup SendSteps

(* mm_context_prepare, mm_event_epoll_prepare, mm_strand_loop              *)
Init ==
    /\ mode = [t \in Threads |-> "running"] /\ mark = [t \in Threads |-> 0]
    /\ head = [t \in Threads |-> 0] /\ tail = [t \in Threads |-> 0]
    /\ published = [t \in Threads |-> {}]
    /\ poll_lock = None
    /\ notified = FALSE /\ count = FALSE /\ edge = FALSE
    /\ pc = [t \in Threads |-> "loop"]
    /\ stamp = [t \in Threads |-> 0]
    /\ block = [t \in Threads |-> FALSE]
    /\ got = [t \in Threads |-> FALSE]
    /\ to = [t \in Threads |-> t] /\ sent = [t \in Threads |-> 0]

Goto(t, step) == pc' = [pc EXCEPT ![t] = step]

(* The local variables of a finished post, and of a finished listen.       *)
EndPost(t) == to' = [to EXCEPT ![t] = t] /\ sent' = [sent EXCEPT ![t] = 0]
EndListen(t) == stamp' = [stamp EXCEPT ![t] = 0] /\ block' = [block EXCEPT ![t] = FALSE]

SetStatus(t, m, s) ==
    /\ mode' = [mode EXCEPT ![t] = m]
    /\ mark' = [mark EXCEPT ![t] = s]

-----------------------------------------------------------------------------
(* Execution of calls.                                                     *)

(* mm_async_receive: the call at the front is taken if it is published.    *)
Receivable(t) == head[t] \in published[t]

Receive(t) ==
    /\ Receivable(t)
    /\ head' = [head EXCEPT ![t] = @ + 1]
    /\ published' = [published EXCEPT ![t] = @ \ {head[t]}]
    /\ UNCHANGED tail

(* mm_async_handle_calls, up to the first call; nothing to do otherwise.   *)
HandleCalls(t) ==
    /\ pc[t] = "loop"
    /\ \/ Receive(t) /\ SetStatus(t, "pending", 0) /\ Goto(t, "handle")
       \/ ~Receivable(t) /\ Goto(t, "work") /\ UNCHANGED <<queue, status>>
    /\ UNCHANGED <<poll_lock, backend, stamp, block, got, sender>>

(* The rest of the loop of mm_async_handle_calls.                          *)
HandleNext(t) ==
    /\ pc[t] = "handle"
    /\ \/ Receive(t) /\ UNCHANGED <<status, pc>>
       \/ ~Receivable(t) /\ SetStatus(t, "running", 0) /\ Goto(t, "work") /\ UNCHANGED queue
    /\ UNCHANGED <<poll_lock, backend, stamp, block, got, sender>>

-----------------------------------------------------------------------------
(* Posting of calls.                                                       *)

(* A fiber calls mm_async_call, mm_async_trycall or mm_async_post: thread d *)
(* is given, or was seen asleep some time ago by mm_async_find_peer.  The  *)
(* stamp is taken in mm_ring_mpmc_enqueue_sn or mm_ring_mpmc_put_sn.       *)
Call(t, d) ==
    /\ pc[t] = "work" /\ tail[d] < MaxStamp
    /\ to' = [to EXCEPT ![t] = d]
    /\ sent' = [sent EXCEPT ![t] = tail[d]]
    /\ tail' = [tail EXCEPT ![d] = @ + 1]
    /\ Goto(t, "publish")
    /\ UNCHANGED <<status, head, published, poll_lock, backend, stamp, block, got>>

(* The node is written and its lock is stored.                             *)
Publish(t) ==
    /\ pc[t] = "publish"
    /\ published' = [published EXCEPT ![to[t]] = @ \cup {sent[t]}]
    /\ Goto(t, "load")
    /\ UNCHANGED <<status, head, tail, poll_lock, backend, stamp, block, got, sender>>

NotifyLoadPolling(t) ==
    LET Polls == mark[to[t]] = sent[t] /\ mode[to[t]] = "polling" IN
    /\ pc[t] = "load"
    /\ \/ Polls /\ Goto(t, "notify") /\ UNCHANGED sender
       \/ ~Polls /\ Goto(t, "work") /\ EndPost(t)
    /\ UNCHANGED <<status, queue, poll_lock, backend, stamp, block, got>>

(* mm_event_notify: the status word is loaded and compared with the stamp. *)
NotifyLoad(t) ==
    LET Sleeps(m) == mark[to[t]] = sent[t] /\ mode[to[t]] = m IN
    /\ pc[t] = "load"
    /\ \/ Sleeps("polling") /\ Goto(t, "notify") /\ UNCHANGED sender
       \/ Sleeps("waiting") /\ Goto(t, "signal") /\ UNCHANGED sender
       \/ ~Sleeps("polling") /\ ~Sleeps("waiting") /\ Goto(t, "work") /\ EndPost(t)
    /\ UNCHANGED <<status, queue, poll_lock, backend, stamp, block, got>>

(* mm_event_epoll_notify: every write makes the eventfd ready again.       *)
Notify(t) ==
    /\ pc[t] = "notify"
    /\ count' = TRUE /\ edge' = TRUE
    /\ Goto(t, "work") /\ EndPost(t)
    /\ UNCHANGED <<status, queue, poll_lock, notified, stamp, block, got>>

(* mm_event_listener_signal: FUTEX_WAKE on the tail of the target's queue. *)
Signal(t) ==
    /\ pc[t] = "signal"
    /\ pc' = [u \in Threads |-> CASE u = t -> "work"
                                  [] u # t /\ u = to[t] /\ pc[u] = "asleep" -> "leave"
                                  [] OTHER -> pc[u]]
    /\ EndPost(t)
    /\ UNCHANGED <<status, queue, poll_lock, backend, stamp, block, got>>

-----------------------------------------------------------------------------
(* Listening.                                                              *)

(* mm_event_listen, called by the master fiber with or without a timeout.  *)
Listen(t) ==
    /\ pc[t] = "work"
    /\ \E b \in BOOLEAN :
        /\ block' = [block EXCEPT ![t] = b]
        /\ \/ /\ poll_lock = None /\ poll_lock' = t
              /\ Goto(t, IF b THEN "clean" ELSE "epoll")
           \/ /\ poll_lock # None /\ UNCHANGED poll_lock
              /\ Goto(t, IF b THEN "waiting" ELSE "loop")
    /\ UNCHANGED <<status, queue, backend, stamp, got, sender>>

(* mm_event_epoll_notify_clean *)
Clean(t) ==
    /\ pc[t] = "clean"
    /\ \/ notified /\ notified' = FALSE /\ count' = FALSE
       \/ ~notified /\ UNCHANGED <<notified, count>>
    /\ Goto(t, "polling")
    /\ UNCHANGED <<status, queue, poll_lock, edge, stamp, block, got, sender>>

(* mm_event_listener_posture: the thread announces that it will sleep.     *)
Posture(t, m) ==
    /\ stamp' = [stamp EXCEPT ![t] = head[t]]
    /\ SetStatus(t, m, head[t])
    /\ UNCHANGED <<queue, poll_lock, backend, block, got, sender>>

Polling(t) == pc[t] = "polling" /\ Posture(t, "polling") /\ Goto(t, "rest_poll")

(* mm_event_listener_restful *)
Restful(t) == stamp[t] = tail[t]

RestPollNot(t) ==
    /\ pc[t] = "rest_poll"
    /\ Goto(t, "epoll")
    /\ UNCHANGED <<status, queue, poll_lock, backend, stamp, block, got, sender>>

RestPoll(t) ==
    /\ pc[t] = "rest_poll"
    /\ block' = [block EXCEPT ![t] = Restful(t)]
    /\ Goto(t, "epoll")
    /\ UNCHANGED <<status, queue, poll_lock, backend, stamp, got, sender>>

(* epoll_wait finds the eventfd on the ready list: the notification is     *)
(* returned if the counter is still not zero and dropped otherwise.        *)
EpollNotified(t) ==
    /\ pc[t] = "epoll" /\ edge
    /\ edge' = FALSE
    /\ got' = [got EXCEPT ![t] = count]
    /\ IF count THEN Goto(t, "events") ELSE UNCHANGED pc
    /\ UNCHANGED <<status, queue, poll_lock, notified, count, stamp, block, sender>>

(* epoll_wait with a zero timeout returns at once.                         *)
EpollEmpty(t) ==
    /\ pc[t] = "epoll" /\ ~block[t] /\ ~edge
    /\ Goto(t, "events")
    /\ UNCHANGED <<status, queue, poll_lock, backend, stamp, block, got, sender>>

(* epoll_wait returns I/O events only, or runs into its timeout, or EINTR. *)
EpollReturn(t) ==
    /\ pc[t] = "epoll"
    /\ Goto(t, "events")
    /\ UNCHANGED <<status, queue, poll_lock, backend, stamp, block, got, sender>>

(* mm_event_listener_running after the poll.                               *)
PollRunning(t) ==
    /\ pc[t] = "events"
    /\ SetStatus(t, "running", 0)
    /\ Goto(t, "unlock")
    /\ UNCHANGED <<queue, poll_lock, backend, stamp, block, got, sender>>

(* mm_event_epoll_handle notes the notification; poll_lock is released.    *)
PollUnlock(t) ==
    /\ pc[t] = "unlock"
    /\ notified' = (notified \/ got[t])
    /\ got' = [got EXCEPT ![t] = FALSE]
    /\ poll_lock' = None
    /\ Goto(t, "loop") /\ EndListen(t)
    /\ UNCHANGED <<status, queue, count, edge, sender>>

(* mm_event_listener_timedwait *)
Waiting(t) == pc[t] = "waiting" /\ Posture(t, "waiting") /\ Goto(t, "rest_wait")

RestWait(t) ==
    /\ pc[t] = "rest_wait"
    /\ Goto(t, IF Restful(t) THEN "futex" ELSE "leave")
    /\ UNCHANGED <<status, queue, poll_lock, backend, stamp, block, got, sender>>

FutexBlind(t) ==
    /\ pc[t] = "futex"
    /\ Goto(t, "asleep")
    /\ UNCHANGED <<status, queue, poll_lock, backend, stamp, block, got, sender>>

(* FUTEX_WAIT: the kernel compares the tail with the stamp and sleeps.     *)
Futex(t) ==
    /\ pc[t] = "futex"
    /\ Goto(t, IF tail[t] = stamp[t] THEN "asleep" ELSE "leave")
    /\ UNCHANGED <<status, queue, poll_lock, backend, stamp, block, got, sender>>

Timeout(t) ==
    /\ pc[t] = "asleep"
    /\ Goto(t, "leave")
    /\ UNCHANGED <<status, queue, poll_lock, backend, stamp, block, got, sender>>

WaitRunning(t) ==
    /\ pc[t] = "leave"
    /\ SetStatus(t, "running", 0)
    /\ Goto(t, "loop") /\ EndListen(t)
    /\ UNCHANGED <<queue, poll_lock, backend, got, sender>>

-----------------------------------------------------------------------------
(* The steps a thread takes by itself, and the ones of its environment.    *)
Handle(t) == HandleCalls(t) \/ HandleNext(t)
Send(t) == Publish(t) \/ NotifyLoad(t) \/ Notify(t) \/ Signal(t)
Poll(t) ==
    \/ Clean(t) \/ Polling(t) \/ RestPoll(t) \/ EpollNotified(t) \/ EpollEmpty(t)
    \/ PollRunning(t) \/ PollUnlock(t)
Wait(t) == Waiting(t) \/ RestWait(t) \/ Futex(t) \/ WaitRunning(t)
Run(t) == Handle(t) \/ Send(t) \/ Listen(t) \/ Poll(t) \/ Wait(t)
Environment(t) ==
    \/ \E d \in Threads : Call(t, d)
    \/ EpollReturn(t) \/ Timeout(t)

Next == \E t \in Threads : Run(t) \/ Environment(t)

Spec == Init /\ [][Next]_vars

(* A thread that can run does run; no call is ever due, and no timeout, no *)
(* I/O event and no signal is ever due to end a sleep.                     *)
FairSpec == Spec /\ \A t \in Threads : WF_vars(Run(t))

-----------------------------------------------------------------------------
TypeOK ==
    /\ mode \in [Threads -> Modes] /\ mark \in [Threads -> Nat]
    /\ head \in [Threads -> Nat] /\ tail \in [Threads -> Nat]
    /\ published \in [Threads -> SUBSET Nat]
    /\ poll_lock \in Threads \cup {None}
    /\ notified \in BOOLEAN /\ count \in BOOLEAN /\ edge \in BOOLEAN
    /\ pc \in [Threads -> Steps]
    /\ stamp \in [Threads -> Nat]
    /\ block \in [Threads -> BOOLEAN] /\ got \in [Threads -> BOOLEAN]
    /\ to \in [Threads -> Threads] /\ sent \in [Threads -> Nat]

(* Some thread has taken the stamp that t sleeps with, and is at one of    *)
(* the given steps of posting that call.                                   *)
InFlight(t, steps) ==
    \E s \in Threads : to[s] = t /\ sent[s] = stamp[t] /\ pc[s] \in steps

(* A poller, t, blocks in epoll_wait: calls in its queue are being posted  *)
(* by a thread that will write to the eventfd, or the eventfd is ready.    *)
PollerWakes(t) ==
    pc[t] = "epoll" /\ block[t] /\ tail[t] # stamp[t] =>
        InFlight(t, {"publish", "load", "notify"}) \/ (edge /\ count)

(* A thread t sleeps on its futex: calls in its queue are being posted by  *)
(* a thread that will signal it.                                           *)
WaiterWakes(t) ==
    pc[t] = "asleep" /\ tail[t] # stamp[t] =>
        InFlight(t, {"publish", "load", "signal"})

(* A thread never sleeps, in epoll_wait or on its futex, over a call that  *)
(* nobody is going to wake it up for, whatever stale notifications, other  *)
(* pollers and clean-ups of the eventfd come in between.                   *)
NoLostWakeup == \A t \in Threads : PollerWakes(t) /\ WaiterWakes(t)

(* What a thread has announced in its status word while it rests.          *)
Announced(t) ==
    /\ pc[t] = "rest_poll" \/ (pc[t] = "epoll" /\ block[t]) =>
          mode[t] = "polling" /\ mark[t] = stamp[t]
    /\ pc[t] \in {"rest_wait", "futex", "asleep"} =>
          mode[t] = "waiting" /\ mark[t] = stamp[t]

(* poll_lock is held by the one thread that polls.                         *)
LockHeld(t) == pc[t] \in PollSteps <=> poll_lock = t

ListenInv ==
    /\ TypeOK
    /\ \A t \in Threads : Announced(t) /\ LockHeld(t)
    /\ NoLostWakeup

(* Every call that was given a stamp is executed by its target thread,     *)
(* though no timeout and no I/O event ever ends a sleep.                   *)
CallsHandled ==
    \A t \in Threads, s \in 0 .. MaxStamp - 1 : tail[t] > s ~> head[t] > s
=============================================================================
