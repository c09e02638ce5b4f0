----------------------------- MODULE NetSocket -----------------------------
(***************************************************************************)
(* Socket I/O of base/net/net.c over the event sink of base/event/event.c  *)
(* and the epoll backend of base/event/epoll.c: one socket, the thread it  *)
(* is bound to, a fiber that reads and a fiber that writes.                *)
(*                                                                         *)
(* Fibers of a thread give way to one another only where they block, so at *)
(* most one of them is inside an operation and not blocked; each of its    *)
(* system calls is a step, and the kernel moves between the steps.  The    *)
(* kernel is external: what can be read, the room for writing, and epoll   *)
(* in edge-triggered mode, where an event is queued when something becomes *)
(* available and when epoll_ctl finds it available.  An event is taken out *)
(* of epoll by some poller and handled by the thread of the socket later.  *)
(***************************************************************************)
EXTENDS Integers, FiniteSets

CONSTANTS
  MaxAvail,   \* bound: bytes the kernel holds, and room for writing
  MaxSupply,  \* bound: bytes the peer sends and takes in, together
  MaxOpen,    \* operations in progress at once: 1 when one fiber reads and writes
  MaxFails    \* bound: calls of epoll_ctl that fail

Kinds == {"input", "output"}

VARIABLES
  regular,    \* kinds with MM_EVENT_REGULAR_INPUT / _OUTPUT
  oneshot,    \* kinds with MM_EVENT_ONESHOT_INPUT / _OUTPUT
  ready, error, shut, closed,   \* the other flags of the sink
  avail, broken, supply,        \* kernel: per kind, is there an end or error, yet to come
  interest, events,             \* epoll: kinds watched, kinds with a queued event
  inflight,   \* events taken from epoll and not handled yet: <<kind, flag>>
  stash,      \* deferred errors of the backend
  pc,         \* per kind, where its fiber is
  want,       \* per kind, nbytes of its operation
  late,       \* per kind: the deadline has passed, if there is one
  fails       \* failures of epoll_ctl so far

nvars == <<regular, oneshot, ready, error, shut, closed, avail, broken, supply,
           interest, events, inflight, stash, pc, want, late, fails>>

kernel == <<avail, broken, supply>>
epoll == <<interest, events, stash, fails>>
flags == <<regular, oneshot, ready, error, shut, closed>>
call == <<want, late>>

\* Accepted sockets watch input, those of an egress protocol watch output, sockets
\* that connect watch nothing until asked, and may be connected at once or still
\* connecting (EINPROGRESS); output is assumed ready.
Init ==
  /\ regular \in {{"input"}, {"output"}, {}}
  /\ oneshot = {} /\ ready = {"output"} /\ error = {} /\ shut = {} /\ closed = FALSE
  /\ \E connected \in BOOLEAN :
       /\ connected \/ regular = {}
       /\ avail = [input |-> 0, output |-> IF connected THEN MaxAvail ELSE 0]
       /\ pc = [input |-> "idle", output |-> IF connected THEN "idle" ELSE "connect"]
  /\ broken = FALSE
  /\ supply = MaxSupply
  /\ interest = regular /\ events = regular \cap {"output"}
  /\ inflight = {} /\ stash = {}
  /\ want = [k \in Kinds |-> 0]
  /\ late = [k \in Kinds |-> FALSE] /\ fails = 0

Goto(k, p) == pc' = [pc EXCEPT ![k] = p]

Blocked == {"wait", "connecting"}
Quiet(k) == pc[k] = "idle" \/ pc[k] \in Blocked
Running(k) == ~Quiet(k)
ThreadFree == \A k \in Kinds : Quiet(k)

Available(k) == avail[k] > 0 \/ broken \/ k \in shut

\* mm_event_input_ready, mm_event_output_ready
Ready(k) == k \in ready \cup error

Closed(k) == closed \/ k \in shut

--------------------------------------------------------------------------
(* The kernel. *)

\* An edge: something became available for kind k.
Edge(k) == events' = events \cup ({k} \cap interest)

Arrive(k) ==
  /\ supply > 0 /\ avail[k] < MaxAvail /\ ~closed
  /\ supply' = supply - 1
  /\ avail' = [avail EXCEPT ![k] = @ + 1]
  /\ Edge(k)
  /\ UNCHANGED <<flags, broken, interest, stash, fails, inflight, pc, call>>

\* The peer ends the connection: both kinds become available, to fail or to end.
Break ==
  /\ ~broken /\ ~closed /\ broken' = TRUE
  /\ events' = events \cup interest
  /\ UNCHANGED <<flags, avail, supply, interest, stash, fails, inflight, pc, call>>

\* epoll_ctl with a new set of kinds queues the ones that are available; it may
\* fail, and then the backend stashes an error event.
EpollCtl(k, kinds) ==
  \/ /\ interest' = kinds
     /\ events' = (events \cap kinds) \cup {j \in kinds : Available(j)}
     /\ UNCHANGED <<stash, fails>>
  \/ /\ fails < MaxFails /\ fails' = fails + 1
     /\ stash' = stash \cup {k} /\ UNCHANGED <<interest, events>>

--------------------------------------------------------------------------
(* Events. *)

\* mm_event_epoll_poll: stashed errors first, then what epoll has; on a broken
\* connection the watched kinds get an error event behind the readiness event.
Poll ==
  /\ inflight' = inflight \cup (stash \X {"error"}) \cup (events \X {"ready"})
                   \cup (IF broken THEN (events \cap (regular \cup oneshot)) \X {"error"} ELSE {})
  /\ stash \cup events # {}
  /\ stash' = {} /\ events' = {}
  /\ UNCHANGED <<flags, kernel, interest, fails, pc, call>>

\* mm_event_listener_handle_input and _output: a oneshot event is disarmed, the
\* flag is set, the blocked fiber is run.
Handle(k, f) ==
  /\ ThreadFree /\ <<k, f>> \in inflight /\ ~closed
  /\ inflight' = inflight \ {<<k, f>>}
  /\ IF k \in oneshot
       THEN oneshot' = oneshot \ {k} /\ EpollCtl(k, (regular \cup oneshot) \ {k})
       ELSE UNCHANGED <<oneshot, epoll>>
  /\ ready' = IF f = "ready" THEN ready \cup {k} ELSE ready
  /\ error' = IF f = "error" THEN error \cup {k} ELSE error
  /\ Goto(k, CASE pc[k] = "wait" -> "woken"
               [] pc[k] = "connecting" -> "connect_woken"
               [] OTHER -> pc[k])
  /\ UNCHANGED <<regular, shut, closed, kernel, call>>

--------------------------------------------------------------------------
(* mm_net_read and mm_net_readv, mm_net_write and mm_net_writev. *)

Return(k) ==
  /\ Goto(k, "idle") /\ want' = [want EXCEPT ![k] = 0]
  /\ late' = [late EXCEPT ![k] = FALSE]

Enter(k, n) ==
  /\ ThreadFree /\ pc[k] = "idle"
  /\ Cardinality({j \in Kinds : pc[j] # "idle"}) < MaxOpen
  /\ IF Closed(k) THEN Return(k)
     ELSE /\ Goto(k, IF Ready(k) THEN "fast" ELSE "trigger")
          /\ want' = [want EXCEPT ![k] = n]
          /\ UNCHANGED late
  /\ UNCHANGED <<flags, kernel, epoll, inflight>>

Read(n) == Enter("input", n)
Write(n) == Enter("output", n)
Readv(n, m) == Enter("input", n + m)
Writev(n, m) == Enter("output", n + m)

\* A system call: part or all of what is wanted, the end of the input, an error.
Transfer(k, n) ==
  /\ n > 0 /\ n <= avail[k] /\ n <= want[k]
  /\ n = want[k] \/ n = avail[k]
  /\ avail' = [avail EXCEPT ![k] = @ - n]
  /\ ready' = IF n < want[k] THEN ready \ {k} ELSE ready

Try(k, from, again) ==
  /\ pc[k] = from
  /\ \/ \E n \in 1 .. MaxAvail : Transfer(k, n) /\ Return(k)
     \/ avail[k] = 0 /\ broken /\ Return(k) /\ UNCHANGED <<avail, ready>>
     \/ avail[k] = 0 /\ ~broken /\ Goto(k, again) /\ UNCHANGED <<avail, ready, want, late>>
  /\ UNCHANGED <<regular, oneshot, error, shut, closed, broken, supply, epoll, inflight>>

TryFast(k) == Try(k, "fast", "trigger")
TryAgain(k) == Try(k, "again", "block")

\* The readiness flag is reset, and a oneshot event not armed.
TriggerUnarmed(k) ==
  /\ pc[k] = "trigger"
  /\ ready' = ready \ {k}
  /\ Goto(k, "again")
  /\ UNCHANGED <<regular, oneshot, error, shut, closed, kernel, epoll, inflight, call>>

\* mm_event_trigger_input, _output: the flag is reset before the call is tried.
Trigger(k) ==
  /\ pc[k] = "trigger"
  /\ ready' = ready \ {k}
  /\ IF k \in regular \cup oneshot THEN UNCHANGED <<oneshot, epoll>>
     ELSE oneshot' = oneshot \cup {k} /\ EpollCtl(k, regular \cup oneshot \cup {k})
  /\ Goto(k, "again")
  /\ UNCHANGED <<regular, error, shut, closed, kernel, inflight, call>>

\* mm_net_input_wait, _output_wait: block, or give up when the deadline has passed.
Block(k) ==
  /\ pc[k] = "block"
  /\ IF late[k] THEN Return(k) ELSE Goto(k, "wait") /\ UNCHANGED <<want, late>>
  /\ UNCHANGED <<flags, kernel, epoll, inflight>>

Timeout(k) ==
  /\ ~late[k] /\ pc[k] = "wait" /\ ThreadFree
  /\ late' = [late EXCEPT ![k] = TRUE] /\ Goto(k, "woken")
  /\ UNCHANGED <<flags, kernel, epoll, inflight, want>>

\* The fiber is run by somebody else, to be canceled or for no reason.
Rouse(k) ==
  /\ ThreadFree /\ pc[k] = "wait" /\ Goto(k, "woken")
  /\ UNCHANGED <<flags, kernel, epoll, inflight, call>>

Woken(k) ==
  /\ pc[k] = "woken"
  /\ IF Closed(k) THEN Return(k)
     ELSE /\ Goto(k, IF Ready(k) THEN "trigger" ELSE "block")
          /\ UNCHANGED <<want, late>>
  /\ UNCHANGED <<flags, kernel, epoll, inflight>>

Cancel(k) ==
  /\ pc[k] = "woken" /\ Return(k)
  /\ UNCHANGED <<flags, kernel, epoll, inflight>>

--------------------------------------------------------------------------
(* mm_net_connect from where the connection is in progress. *)

ConnectTrigger ==
  /\ pc["output"] = "connect"
  /\ ready' = ready \ {"output"}
  /\ oneshot' = oneshot \cup {"output"} /\ EpollCtl("output", regular \cup oneshot \cup {"output"})
  /\ Goto("output", "connect_woken")
  /\ UNCHANGED <<regular, error, shut, closed, kernel, inflight, call>>

\* The outcome is asked for once the flags tell that there is one; a broken sink
\* is closed and unregistered at once.
ConnectWoken ==
  /\ pc["output"] = "connect_woken"
  /\ IF ~Ready("output") THEN Goto("output", "connecting") /\ UNCHANGED <<closed, epoll>>
     ELSE IF broken
     THEN /\ closed' = TRUE /\ Goto("output", "idle")
          /\ interest' = {} /\ events' = {} /\ UNCHANGED <<stash, fails>>
     ELSE Goto("output", "idle") /\ UNCHANGED <<closed, epoll>>
  /\ UNCHANGED <<regular, oneshot, ready, error, shut, kernel, inflight, call>>

--------------------------------------------------------------------------
(* mm_net_close and mm_net_reset, mm_net_shutdown_reader and _writer. *)

\* Called by the fiber that uses the socket: no other fiber waits for it.
Close ==
  /\ ThreadFree /\ ~closed /\ \A k \in Kinds : pc[k] = "idle"
  /\ closed' = TRUE /\ interest' = {} /\ events' = {}
  /\ UNCHANGED <<regular, oneshot, ready, error, shut, kernel, stash, fails, inflight, pc, call>>

\* The peer is told the hard way, and nothing else is different.
Reset == Close

Shutdown(k) ==
  /\ ThreadFree /\ ~Closed(k)
  /\ shut' = shut \cup {k}
  /\ Edge(k)
  /\ UNCHANGED <<regular, oneshot, ready, error, closed, kernel, interest, stash, fails, inflight, pc, call>>

ShutdownReader == Shutdown("input")
ShutdownWriter == Shutdown("output")

Next ==
  \/ Read(1) \/ Write(1) \/ Readv(1, 1) \/ Writev(1, 1)
  \/ \E k \in Kinds :
       \/ Arrive(k) \/ \E f \in {"ready", "error"} : Handle(k, f)
       \/ TryFast(k) \/ TryAgain(k) \/ Trigger(k) \/ Block(k) \/ Timeout(k)
       \/ Rouse(k) \/ Woken(k) \/ Cancel(k)
  \/ Break \/ Poll \/ ConnectTrigger \/ ConnectWoken
  \/ Close \/ Reset \/ ShutdownReader \/ ShutdownWriter

Spec == Init /\ [][Next]_nvars

--------------------------------------------------------------------------
(* A fiber that sleeps in a read or a write (or in a connect) while the      *)
(* kernel could serve it has a wake-up under way: an event queued in epoll,  *)
(* taken from it, or stashed by the backend.  The readiness flag is reset    *)
(* before the call is tried again, a oneshot event is armed before that, and *)
(* a short transfer may reset the flag because a new edge will follow.       *)
NoMissedReadiness ==
  \A k \in Kinds :
    pc[k] \in Blocked /\ ~closed /\ Available(k) =>
      k \in events \cup stash \/ \E f \in {"ready", "error"} : <<k, f>> \in inflight

(* An idle socket whose flag says "not ready" has the event armed or the     *)
(* operation will arm it: a kind that is watched and available is never      *)
(* forgotten by both the flags and epoll.                                    *)
NoForgottenInput ==
  "input" \in regular /\ ~closed /\ pc["input"] = "idle" /\ avail["input"] > 0 /\ shut = {} =>
    \/ Ready("input") \/ "input" \in events \cup stash
    \/ \E f \in {"ready", "error"} : <<"input", f>> \in inflight
=============================================================================
