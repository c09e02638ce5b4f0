------------------------------ MODULE Runtime ------------------------------
(***************************************************************************)
(* The life of the whole process, of base/runtime.c: start hooks, the      *)
(* creation of the regular threads, their boot through a sense-reversing   *)
(* barrier (base/thread/barrier.c, used twice), the strand loops, the stop *)
(* request of a signal handler, and the teardown in the reverse order.     *)
(*                                                                         *)
(* A thread inside mm_strand_loop is one state, "loop", which it leaves    *)
(* when its stop request is handled (module Strand has its inside).        *)
(***************************************************************************)
EXTENDS Integers, FiniteSets, SequencesExt

CONSTANTS
  MaxThreads,   \* bound on "thread-number"
  Hooks,        \* names of the regular start hooks, in the order of registration
  MaxSignals    \* bound: SIGINT and SIGTERM signals received

VARIABLES
  nthreads, perpoll,  \* mm_regular_nthreads, mm_event_dispatch_nthreads_per_instance
  main,       \* the main thread, in mm_start
  common,     \* the strands, the dispatch instances and the context table exist
  created,    \* threads created so far: 0 .. created - 1
  boot,       \* per thread: the step of mm_regular_boot
  table,      \* mm_context_table: the threads with a context
  started,    \* regular hooks started and not stopped, in order
  value, sense, local,  \* the domain barrier and the threads' own sense
  stopFlag,   \* mm_stop_flag
  signals, sending,  \* signals received; the thread mm_stop posts to next, or -1
  asked,      \* threads that have the stop request
  sound,      \* ghost: every signal so far found the contexts of all threads
  dead        \* the process went through a wild context pointer

rvars == <<nthreads, perpoll, main, common, created, boot, table, started,
           value, sense, local, stopFlag, signals, sending, asked, sound, dead>>

conf == <<nthreads, perpoll>>
barrier == <<value, sense, local>>
stopping == <<stopFlag, signals, sending, asked, sound, dead>>

Threads == 0 .. nthreads - 1

\* Start hooks are registered at the tail of their list, stop hooks at the head.
HookTail(queue, proc) == Append(queue, proc)
HookHead(queue, proc) == <<proc>> \o queue
StartHooks == FoldLeft(HookTail, <<>>, Hooks)
StopHooks == FoldLeft(HookHead, <<>>, Hooks)

\* mm_hook_call: the hook that is called when n of the list have been.
HookCall(queue, n) == queue[n + 1]

Init ==
  /\ nthreads = 0 /\ perpoll = 0 /\ main = "init" /\ common = FALSE
  /\ created = 0 /\ boot = <<>> /\ table = {} /\ started = <<>>
  /\ value = 0 /\ sense = FALSE /\ local = <<>>
  /\ stopFlag = FALSE /\ signals = 0 /\ sending = -1 /\ asked = {}
  /\ sound = TRUE /\ dead = FALSE

--------------------------------------------------------------------------
(* The main thread *)

\* mm_start reads the settings.
Configure ==
  /\ main = "init" /\ main' = "common"
  /\ \E n \in 1 .. MaxThreads, nd \in 0 .. MaxThreads + 1 :
       /\ nthreads' = n
       /\ perpoll' = IF nd = 0 \/ nd > n THEN n ELSE nd
  /\ UNCHANGED <<common, created, boot, table, started, barrier, stopping>>

\* mm_common_start and the barrier of mm_domain_create
CommonStart ==
  /\ main = "common" /\ main' = "create" /\ common' = TRUE
  /\ boot' = [t \in Threads |-> "none"]
  /\ value' = nthreads /\ sense' = FALSE /\ local' = [t \in Threads |-> FALSE]
  /\ UNCHANGED <<conf, created, table, started, stopping>>

\* mm_domain_create starts a thread; the thread may run at once.
CreateThread ==
  /\ main = "create" /\ created < nthreads
  /\ boot' = [boot EXCEPT ![created] = "boot"]
  /\ created' = created + 1
  /\ main' = IF created + 1 = nthreads THEN "relay" ELSE main
  /\ UNCHANGED <<conf, common, table, started, barrier, stopping>>

\* The main thread flushes the log now and then, until it sees the flag.
Relay == main = "relay" /\ ~stopFlag /\ UNCHANGED rvars

Exiting ==
  /\ main = "relay" /\ stopFlag /\ main' = "join"
  /\ UNCHANGED <<conf, common, created, boot, table, started, barrier, stopping>>

\* mm_domain_join, then mm_common_stop
CommonStop ==
  /\ main = "join" /\ \A t \in Threads : boot[t] = "exit"
  /\ main' = "done" /\ common' = FALSE
  /\ UNCHANGED <<conf, created, boot, table, started, barrier, stopping>>

--------------------------------------------------------------------------
(* A regular thread: mm_regular_boot *)

MoveTo(t, pc) == boot' = [boot EXCEPT ![t] = pc]

\* mm_context_prepare; only the primary strand has hooks to run first.
Boot(t) ==
  /\ boot[t] = "boot"
  /\ table' = table \cup {t}
  /\ MoveTo(t, IF t = 0 THEN "starthooks" ELSE "arrive1")
  /\ UNCHANGED <<conf, main, common, created, started, barrier, stopping>>

CallStartHook(t) ==
  /\ boot[t] = "starthooks"
  /\ IF started = StartHooks THEN MoveTo(t, "arrive1") /\ UNCHANGED started
     ELSE started' = Append(started, HookCall(StartHooks, Len(started))) /\ UNCHANGED boot
  /\ UNCHANGED <<conf, main, common, created, table, barrier, stopping>>

\* mm_thread_barrier_wait: the last one in refills the count, then flips the sense.
Arrive(t, n) ==
  /\ boot[t] = <<"arrive1", "arrive2">>[n]
  /\ IF value = 1
       THEN value' = nthreads /\ MoveTo(t, <<"flip1", "flip2">>[n])
       ELSE value' = value - 1 /\ MoveTo(t, <<"wait1", "wait2">>[n])
  /\ UNCHANGED <<conf, main, common, created, table, started, sense, local, stopping>>

PassTo(t, n) == MoveTo(t, IF n = 1 THEN "collect" ELSE IF t = 0 THEN "stophooks" ELSE "cleanup")

Flip(t, n) ==
  /\ boot[t] = <<"flip1", "flip2">>[n]
  /\ sense' = ~local[t] /\ local' = [local EXCEPT ![t] = ~@]
  /\ PassTo(t, n)
  /\ UNCHANGED <<conf, main, common, created, table, started, value, stopping>>

\* A thread that only sees that it is not the last goes on.
BarrierPassed(t) == TRUE

BarrierOpen(t) == sense = ~local[t]

Pass(t, n) ==
  /\ boot[t] = <<"wait1", "wait2">>[n] /\ BarrierOpen(t)
  /\ local' = [local EXCEPT ![t] = ~@]
  /\ PassTo(t, n)
  /\ UNCHANGED <<conf, main, common, created, table, started, value, sense, stopping>>

\* mm_context_collect_peers reads the context of every thread.
CollectPeers(t) ==
  /\ boot[t] = "collect" /\ MoveTo(t, "loop")
  /\ UNCHANGED <<conf, main, common, created, table, started, barrier, stopping>>

LoopEnds(t) ==
  /\ boot[t] = "loop" /\ t \in asked /\ MoveTo(t, "arrive2")
  /\ UNCHANGED <<conf, main, common, created, table, started, barrier, stopping>>

\* Nothing to do: the loop waits for events.
LoopIdle(t) == boot[t] = "loop" /\ t \notin asked /\ UNCHANGED rvars

CallStopHook(t) ==
  /\ boot[t] = "stophooks"
  /\ IF started = <<>> THEN MoveTo(t, "cleanup") /\ UNCHANGED started
     ELSE /\ started' = Remove(started, HookCall(StopHooks, Len(StopHooks) - Len(started)))
          /\ UNCHANGED boot
  /\ UNCHANGED <<conf, main, common, created, table, barrier, stopping>>

Cleanup(t) ==
  /\ boot[t] = "cleanup" /\ table' = table \ {t} /\ MoveTo(t, "exit")
  /\ UNCHANGED <<conf, main, common, created, started, barrier, stopping>>

--------------------------------------------------------------------------
(* mm_term_handler runs mm_stop: a request to every strand, then the flag *)

Signal ==
  /\ signals < MaxSignals /\ sending = -1 /\ main # "done"
  /\ signals' = signals + 1 /\ sending' = 0
  /\ sound' = (sound /\ nthreads > 0 /\ table = Threads)
  /\ UNCHANGED <<conf, main, common, created, boot, table, started, barrier,
                 stopFlag, asked, dead>>

\* mm_strand_stop calls through strand->context.
PostStop ==
  /\ sending \in Threads
  /\ IF common /\ sending \in table THEN asked' = asked \cup {sending} /\ UNCHANGED dead
     ELSE dead' = TRUE /\ UNCHANGED asked
  /\ sending' = sending + 1
  /\ UNCHANGED <<conf, main, common, created, boot, table, started, barrier,
                 stopFlag, signals, sound>>

\* The requests are posted, and the main thread is not told.
StopUntold ==
  /\ sending = nthreads /\ sending' = -1
  /\ UNCHANGED <<conf, main, common, created, boot, table, started, barrier,
                 stopFlag, signals, asked, sound, dead>>

SetStopFlag ==
  /\ sending = nthreads /\ sending' = -1 /\ stopFlag' = TRUE
  /\ UNCHANGED <<conf, main, common, created, boot, table, started, barrier,
                 signals, asked, sound, dead>>

ThreadStep(t) ==
  \/ Boot(t) \/ CallStartHook(t) \/ CollectPeers(t) \/ LoopIdle(t) \/ LoopEnds(t)
  \/ CallStopHook(t) \/ Cleanup(t)
  \/ \E n \in {1, 2} : Arrive(t, n) \/ Flip(t, n) \/ Pass(t, n)

MainStep == Configure \/ CommonStart \/ CreateThread \/ Relay \/ Exiting \/ CommonStop
Handler == PostStop \/ SetStopFlag

\* The process has exited, or went wild.
Over == main = "done" \/ dead
Ended == Over /\ UNCHANGED rvars

Step == MainStep \/ Signal \/ Handler \/ (boot # <<>> /\ \E t \in Threads : ThreadStep(t))
Next == (~dead /\ Step) \/ Ended

Fairness ==
  /\ WF_rvars(~dead /\ MainStep) /\ WF_rvars(~dead /\ Handler)
  /\ \A t \in 0 .. MaxThreads - 1 :
       WF_rvars(~dead /\ boot # <<>> /\ t \in Threads /\ ThreadStep(t))

Spec == Init /\ [][Next]_rvars /\ Fairness

--------------------------------------------------------------------------
\* mm_thread_ident_to_event_listener, and the size mm_common_start gives an instance
Instances == (nthreads + perpoll - 1) \div perpoll
InstanceOf(t) == t \div perpoll
ListenerOf(t) == t - InstanceOf(t) * perpoll
Listeners(i) == IF i = Instances - 1 THEN nthreads - perpoll * i ELSE perpoll

(* What was started is stopped in the reverse order.                        *)
(* A strand loop runs only while every thread has its context and every     *)
(* start hook has run; nothing a thread's loop uses is taken down before    *)
(* all loops are over; the common resources outlive all threads; a stop     *)
(* handler that found all contexts posts no request to a missing one; each  *)
(* thread has one listener of its own among those that were prepared.       *)
BootOrdered ==
  /\ IsPrefix(started, StartHooks)
  /\ boot # <<>> =>
       /\ \A t \in Threads :
            /\ boot[t] \in {"collect", "loop", "arrive2"} =>
                 table = Threads /\ started = StartHooks
            /\ boot[t] \in {"stophooks", "cleanup", "exit"} =>
                 asked = Threads /\ \A u \in Threads : boot[u] \notin {"collect", "loop"}
            /\ boot[t] = "exit" => t \notin table
       /\ ~common => \A t \in Threads : boot[t] = "exit"
       /\ main = "done" => table = {} /\ started = <<>>
  /\ sound => ~dead
  /\ nthreads > 0 =>
       /\ \A t \in Threads : InstanceOf(t) < Instances /\ ListenerOf(t) < Listeners(InstanceOf(t))
       /\ \A i \in 0 .. Instances - 1 : Listeners(i) > 0

StopAsked == signals = 1 /\ sound

(* A stop request that found all threads booted ends the process.           *)
StopEnds == StopAsked ~> Over
=============================================================================
