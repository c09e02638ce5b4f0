----------------------------- MODULE NetServer -----------------------------
(***************************************************************************)
(* A network server of base/net/net.c: its start on one of the regular     *)
(* threads, the acceptor task, the spreading of accepted sockets over the  *)
(* threads of its affinity mask, its stop and its final shutdown.          *)
(*                                                                         *)
(* The listening socket is watched in edge-triggered mode; the acceptor is *)
(* the input task of its event sink, started by an event and started again *)
(* when it ends with the readiness flag set (mm_event_input_complete).  The*)
(* kernel and the delivery of asynchronous calls are external.  The start  *)
(* hook runs in the first thread while others may still boot (module       *)
(* Runtime); the thread it sends the registration to is taken to have its  *)
(* context by then.  The stop hook runs when all strand loops are over: no *)
(* task runs after it.                                                     *)
(*                                                                         *)
(* A mask of Masks without a bit among the threads is left out: the code   *)
(* looks for a bit before it cuts the mask, so the cut mask is empty and   *)
(* the server has no thread to run on.                                     *)
(***************************************************************************)
EXTENDS Integers, Sequences, FiniteSets, FiniteSetsExt

CONSTANTS
  NThreads,    \* regular threads: 0 .. NThreads - 1
  Masks,       \* masks mm_net_set_server_affinity is called with: <<size, set of bits>>
  MaxConns     \* bound: connections that ever arrive

VARIABLES
  srv,        \* "new", "started", "stopped" or "freed": the life of the server
  fd,         \* the listening socket is open
  affinity,   \* srv->affinity: <<size, set of bits>>
  context,    \* the thread the server socket is registered at, or -1
  target, counter,   \* srv->assignment_target, srv->assignment_counter
  backlog,    \* connections the kernel has and nobody accepted
  arrived,    \* connections that arrived so far: they are 1 .. arrived
  edge,       \* epoll has an event of the listening socket
  started, ready, closed,  \* flags of its event sink
  pc,         \* the acceptor task
  calls,      \* per thread: mm_net_register_sock_req calls posted to it
  home        \* accepted sockets: the thread each is registered at

svars == <<srv, fd, affinity, context, target, counter, backlog, arrived, edge,
           started, ready, closed, pc, calls, home>>

sink == <<started, ready, closed>>
sockets == <<backlog, arrived>>

Threads == 0 .. NThreads - 1

Init ==
  /\ srv = "new" /\ fd = FALSE /\ affinity = <<0, {}>> /\ context = -1
  /\ target = 0 /\ counter = 0
  /\ backlog = <<>> /\ arrived = 0 /\ edge = FALSE
  /\ started = FALSE /\ ready = FALSE /\ closed = FALSE /\ pc = "idle"
  /\ calls = [t \in Threads |-> <<>>] /\ home = <<>>

--------------------------------------------------------------------------
(* Bit sets of bitset.c: the size and the set of the bits that are set.  A   *)
(* search behind the last bit finds nothing, as it does for sizes below that *)
(* of a machine word (the code asserts that nobody searches there).          *)

BitsetPrepare(size) == <<size, {}>>
BitsetAny(mask) == mask[2] # {}
BitsetSetAll(mask) == <<mask[1], 0 .. mask[1] - 1>>
BitsetOr(mask, mask2) == <<mask[1], mask[2] \cup {i \in mask2[2] : i < mask[1]}>>

\* The first bit at or behind position i, or -1 for MM_BITSET_NONE.
BitsetFind(mask, i) ==
  LET bits == {j \in mask[2] : j >= i} IN IF bits = {} THEN -1 ELSE Min(bits)

--------------------------------------------------------------------------

SetAffinity ==
  /\ srv = "new"
  /\ \E mask \in Masks : affinity' = BitsetOr(BitsetPrepare(mask[1]), mask)
  /\ UNCHANGED <<srv, fd, context, target, counter, sockets, edge, sink, pc, calls, home>>

\* mm_net_start_server: an empty mask means all threads, a mask without a bit
\* means thread 0, a mask larger than the number of threads is cut.
StartAffinity ==
  IF affinity[1] = 0 THEN BitsetSetAll(BitsetPrepare(NThreads))
  ELSE IF ~BitsetAny(affinity) THEN BitsetSetAll(BitsetPrepare(1))
  ELSE IF affinity[1] > NThreads THEN BitsetOr(BitsetPrepare(NThreads), affinity)
  ELSE affinity

\* The registration is a task sent to the first thread of the mask.
Start ==
  /\ srv = "new" /\ srv' = "started" /\ fd' = TRUE
  /\ affinity' = StartAffinity
  /\ target' = BitsetFind(StartAffinity, 0) /\ counter' = 0
  /\ UNCHANGED <<context, sockets, edge, sink, pc, calls, home>>

\* mm_net_register_server: epoll tells about connections that are there already.
Register ==
  /\ srv = "started" /\ context = -1 /\ target \in Threads
  /\ context' = BitsetFind(affinity, 0)
  /\ edge' = (backlog # <<>>)
  /\ UNCHANGED <<srv, fd, affinity, target, counter, sockets, sink, pc, calls, home>>

Arrive ==
  /\ fd /\ arrived < MaxConns
  /\ arrived' = arrived + 1 /\ backlog' = Append(backlog, arrived + 1)
  /\ edge' = (context >= 0 /\ ~closed)
  /\ UNCHANGED <<srv, fd, affinity, context, target, counter, sink, pc, calls, home>>

\* The event sets the readiness flag and starts the acceptor unless it runs.
Event ==
  /\ edge /\ edge' = FALSE
  /\ ready' = TRUE /\ started' = TRUE
  /\ pc' = IF started THEN pc ELSE "accept"
  /\ UNCHANGED <<srv, fd, affinity, context, target, counter, sockets, closed, calls, home>>

--------------------------------------------------------------------------
(* mm_net_accept *)


\* Two sockets in turn go to each thread of the mask.
NextTarget ==
  LET next == BitsetFind(affinity, target + 1)
      first == BitsetFind(affinity, 0)
  IN  IF next # -1 THEN next ELSE IF first # -1 THEN first ELSE 0

AcceptOne ==
  /\ pc = "accept" /\ backlog # <<>>
  /\ backlog' = Tail(backlog)
  /\ IF counter + 1 >= 2 THEN target' = NextTarget /\ counter' = 0
     ELSE counter' = counter + 1 /\ UNCHANGED target
  /\ IF target = context
       THEN home' = Append(home, <<Head(backlog), target>>) /\ UNCHANGED calls
       ELSE /\ calls' = [calls EXCEPT ![target] = Append(@, Head(backlog))]
            /\ UNCHANGED home
  /\ UNCHANGED <<srv, fd, affinity, context, arrived, edge, sink, pc>>

\* The call fails for some other reason, or there is no memory for the socket and
\* the connection is closed; the acceptor goes on.
AcceptFails ==
  /\ pc = "accept" /\ backlog # <<>>
  /\ backlog' = Tail(backlog)
  /\ home' = Append(home, <<Head(backlog), -1>>)
  /\ UNCHANGED <<srv, fd, affinity, context, target, counter, arrived, edge, sink, pc, calls>>

\* EAGAIN: the flag is reset and the task is over.
AcceptNone ==
  /\ pc = "accept" /\ backlog = <<>>
  /\ ready' = FALSE /\ pc' = "complete"
  /\ UNCHANGED <<srv, fd, affinity, context, target, counter, sockets, edge, started, closed,
                 calls, home>>

\* mm_event_input_complete
Complete ==
  /\ pc = "complete"
  /\ IF ready /\ ~closed THEN pc' = "accept" /\ UNCHANGED started
     ELSE pc' = "idle" /\ started' = FALSE
  /\ UNCHANGED <<srv, fd, affinity, context, target, counter, sockets, edge, ready, closed,
                 calls, home>>

RegisterSocket(t) ==
  /\ calls[t] # <<>>
  /\ calls' = [calls EXCEPT ![t] = Tail(@)]
  /\ home' = Append(home, <<Head(calls[t]), t>>)
  /\ UNCHANGED <<srv, fd, affinity, context, target, counter, sockets, edge, sink, pc>>

--------------------------------------------------------------------------

\* mm_net_stop_server, wherever the acceptor was when the loops ended
Stop ==
  /\ srv = "started" /\ context >= 0
  /\ srv' = "stopped" /\ closed' = TRUE /\ fd' = FALSE /\ edge' = FALSE
  /\ backlog' = <<>>
  /\ UNCHANGED <<affinity, context, target, counter, arrived, started, ready, pc, calls, home>>

\* mm_net_shutdown_server
Shutdown ==
  /\ srv = "stopped" /\ srv' = "freed" /\ fd' = FALSE
  /\ UNCHANGED <<affinity, context, target, counter, sockets, edge, sink, pc, calls, home>>

Running ==
  \/ Register \/ Arrive \/ Event
  \/ AcceptOne \/ AcceptFails \/ AcceptNone \/ Complete
  \/ \E t \in Threads : RegisterSocket(t)

Next == SetAffinity \/ Start \/ (srv = "started" /\ Running) \/ Stop \/ Shutdown

Spec == Init /\ [][Next]_svars

--------------------------------------------------------------------------
Waiting == {backlog[i] : i \in 1 .. Len(backlog)}
Called == UNION {{calls[t][i] : i \in 1 .. Len(calls[t])} : t \in Threads}
Placed == {home[i][1] : i \in 1 .. Len(home)}
Load(t) == Cardinality({i \in 1 .. Len(home) : home[i][2] = t}) + Len(calls[t])

=============================================================================
