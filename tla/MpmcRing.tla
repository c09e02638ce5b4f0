------------------------------ MODULE MpmcRing ------------------------------
(***************************************************************************)
(* The multiple producer multiple consumer ring buffer of base/ring.h and  *)
(* base/ring.c.  Every shared access the code makes (load of head, tail or *)
(* a node's lock, CAS, fetch-and-increment, data copy, store of the lock)  *)
(* is a step of its own, so the threads interleave at the granularity of   *)
(* the machine.                                                            *)
(*                                                                         *)
(* Stamps are naturals: the 32-bit stamps of the code agree with them as   *)
(* long as no thread sleeps through a whole cycle of 2^32 operations.      *)
(*                                                                         *)
(* log and recv are history variables: the values in the order in which    *)
(* their producers claimed stamps, and the pairs <<stamp, value>> copied   *)
(* out by consumers.  No guard reads them.                                 *)
(***************************************************************************)
EXTENDS Integers, Sequences, FiniteSets

CONSTANTS
    Producers,      \* threads that put and enqueue
    Consumers,      \* threads that get and dequeue
    Values,         \* what a node's data words hold
    Size,           \* number of nodes, mask + 1
    MaxStamp        \* bound on the stamps handed out

ASSUME SizeAssumption == Size \in Nat /\ Size >= 2
ASSUME MaxStampAssumption == MaxStamp \in Nat

VARIABLES
    head, tail,     \* ring->head, ring->tail
    lock, data,     \* ring->ring[i].lock, ring->ring[i].data
    pc, pos, val,   \* per thread: next step, local head or tail, data
    log, recv

ring == <<head, tail, lock, data>>
vars == <<head, tail, lock, data, pc, pos, val, log, recv>>

Threads == Producers \cup Consumers
Slots == 0 .. Size - 1

(* &ring->ring[stamp & ring->mask] *)
Slot(stamp) == stamp % Size

(* Steps at which a thread owns the stamp in pos as a producer ...         *)
ProducerSteps == {"enqueue_wait", "write", "publish"}
(* ... and as a consumer.                                                  *)
ConsumerSteps == {"dequeue_wait", "read", "release"}
OtherSteps == {"idle", "put_check", "put_cas", "spmc_check", "spmc_store",
               "spmc_inc", "get_check", "get_cas", "mpsc_check",
               "mpsc_store", "mpsc_inc"}
Steps == ProducerSteps \cup ConsumerSteps \cup OtherSteps

(* mm_ring_mpmc_prepare: every node awaits the producer of its first lap.  *)
Init ==
    /\ head = 0 /\ tail = 0
    /\ lock = [i \in Slots |-> i]
    /\ data \in [Slots -> Values]
    /\ pc = [t \in Threads |-> "idle"]
    /\ pos = [t \in Threads |-> 0]
    /\ val \in [Threads -> Values]
    /\ log = <<>> /\ recv = {}

Goto(t, step) == pc' = [pc EXCEPT ![t] = step]

-----------------------------------------------------------------------------
(* Producers.                                                              *)

(* mm_ring_mpmc_put_sn and mm_ring_spmc_put_n load the tail first.         *)
PutLoad(t) ==
    /\ pc[t] = "idle" /\ t \in Producers /\ tail < MaxStamp
    /\ \E v \in Values : val' = [val EXCEPT ![t] = v]
    /\ pos' = [pos EXCEPT ![t] = tail]
    /\ \/ Goto(t, "put_check")
       \/ Producers = {t} /\ Goto(t, "spmc_check")
    /\ UNCHANGED <<ring, log, recv>>

(* Mutant: the node is taken for free without a look at its lock.          *)
PutCheckAsNoLock(t, at, next) ==
    /\ pc[t] = at
    /\ Goto(t, next)
    /\ UNCHANGED <<ring, pos, val, log, recv>>

(* The node must be free for this very stamp, or the call returns false.   *)
PutCheckAs(t, at, next) ==
    /\ pc[t] = at
    /\ Goto(t, IF lock[Slot(pos[t])] = pos[t] THEN next ELSE "idle")
    /\ UNCHANGED <<ring, pos, val, log, recv>>

PutCheck(t) ==
    \/ PutCheckAs(t, "put_check", "put_cas")
    \/ PutCheckAs(t, "spmc_check", "spmc_store")

(* The stamp is claimed: the abstract queue gets the value here.           *)
ClaimTail(t, stamp, next) ==
    /\ tail' = stamp + 1
    /\ log' = Append(log, val[t])
    /\ Goto(t, next)
    /\ UNCHANGED <<head, lock, data, recv>>

(* Mutant: the tail is stored without a comparison.                        *)
PutCasBlind(t) ==
    /\ pc[t] = "put_cas"
    /\ ClaimTail(t, pos[t], "write")
    /\ UNCHANGED <<pos, val>>

(* A CAS lost to another producer makes the call return false.             *)
PutCas(t) ==
    /\ pc[t] = "put_cas"
    /\ \/ /\ tail = pos[t]
          /\ ClaimTail(t, pos[t], "write")
       \/ /\ tail # pos[t]
          /\ Goto(t, "idle")
          /\ UNCHANGED <<ring, log, recv>>
    /\ UNCHANGED <<pos, val>>

(* The relaxed put stores the tail it has loaded, incremented.             *)
PutStore(t) ==
    /\ pc[t] = "spmc_store"
    /\ ClaimTail(t, pos[t], "write")
    /\ UNCHANGED <<pos, val>>

(* mm_ring_mpmc_enqueue_sn: an atomic fetch-and-increment of the tail.     *)
EnqueueFai(t) ==
    /\ pc[t] = "idle" /\ t \in Producers /\ tail < MaxStamp
    /\ \E v \in Values :
        /\ val' = [val EXCEPT ![t] = v]
        /\ log' = Append(log, v)
    /\ pos' = [pos EXCEPT ![t] = tail]
    /\ tail' = tail + 1
    /\ Goto(t, "enqueue_wait")
    /\ UNCHANGED <<head, lock, data, recv>>

(* mm_ring_spmc_enqueue_n: ring->tail++ is a load ...                      *)
EnqueueLoad(t) ==
    /\ pc[t] = "idle" /\ Producers = {t} /\ tail < MaxStamp
    /\ \E v \in Values : val' = [val EXCEPT ![t] = v]
    /\ pos' = [pos EXCEPT ![t] = tail]
    /\ Goto(t, "spmc_inc")
    /\ UNCHANGED <<ring, log, recv>>

(* ... and a store.                                                        *)
EnqueueInc(t) ==
    /\ pc[t] = "spmc_inc"
    /\ ClaimTail(t, pos[t], "enqueue_wait")
    /\ UNCHANGED <<pos, val>>

(* Mutant: no wait for the node to become free.                            *)
EnqueueWaitNot(t) ==
    /\ pc[t] = "enqueue_wait"
    /\ Goto(t, "write")
    /\ UNCHANGED <<ring, pos, val, log, recv>>

(* mm_ring_mpmc_busywait until the node is free for the claimed stamp.     *)
EnqueueWait(t) ==
    /\ pc[t] = "enqueue_wait"
    /\ lock[Slot(pos[t])] = pos[t]
    /\ Goto(t, "write")
    /\ UNCHANGED <<ring, pos, val, log, recv>>

Write(t) ==
    /\ pc[t] = "write"
    /\ data' = [data EXCEPT ![Slot(pos[t])] = val[t]]
    /\ Goto(t, "publish")
    /\ UNCHANGED <<head, tail, lock, pos, val, log, recv>>

(* Mutant: the lock is not advanced.                                       *)
PublishSame(t) ==
    /\ pc[t] = "publish"
    /\ Goto(t, "idle")
    /\ UNCHANGED <<ring, pos, val, log, recv>>

(* node->lock = tail + 1 *)
Publish(t) ==
    /\ pc[t] = "publish"
    /\ lock' = [lock EXCEPT ![Slot(pos[t])] = pos[t] + 1]
    /\ Goto(t, "idle")
    /\ UNCHANGED <<head, tail, data, pos, val, log, recv>>

-----------------------------------------------------------------------------
(* Consumers.                                                              *)

(* mm_ring_mpmc_get_sn and mm_ring_mpsc_get_n load the head first.         *)
GetLoad(t) ==
    /\ pc[t] = "idle" /\ t \in Consumers /\ head < MaxStamp
    /\ pos' = [pos EXCEPT ![t] = head]
    /\ \/ Goto(t, "get_check")
       \/ Consumers = {t} /\ Goto(t, "mpsc_check")
    /\ UNCHANGED <<ring, val, log, recv>>

(* The node must hold the item of this very stamp, or the call fails.      *)
GetCheckAs(t, at, next) ==
    /\ pc[t] = at
    /\ Goto(t, IF lock[Slot(pos[t])] = pos[t] + 1 THEN next ELSE "idle")
    /\ UNCHANGED <<ring, pos, val, log, recv>>

GetCheck(t) ==
    \/ GetCheckAs(t, "get_check", "get_cas")
    \/ GetCheckAs(t, "mpsc_check", "mpsc_store")

ClaimHead(t, stamp, next) ==
    /\ head' = stamp + 1
    /\ Goto(t, next)
    /\ UNCHANGED <<tail, lock, data>>

(* Mutant: the head is stored without a comparison.                        *)
GetCasBlind(t) ==
    /\ pc[t] = "get_cas"
    /\ ClaimHead(t, pos[t], "read")
    /\ UNCHANGED <<pos, val, log, recv>>

GetCas(t) ==
    /\ pc[t] = "get_cas"
    /\ \/ head = pos[t] /\ ClaimHead(t, pos[t], "read")
       \/ head # pos[t] /\ Goto(t, "idle") /\ UNCHANGED ring
    /\ UNCHANGED <<pos, val, log, recv>>

(* The relaxed get stores the head it has loaded, incremented.             *)
GetStore(t) ==
    /\ pc[t] = "mpsc_store"
    /\ ClaimHead(t, pos[t], "read")
    /\ UNCHANGED <<pos, val, log, recv>>

(* mm_ring_mpmc_dequeue_sn: an atomic fetch-and-increment of the head.     *)
DequeueFai(t) ==
    /\ pc[t] = "idle" /\ t \in Consumers /\ head < MaxStamp
    /\ pos' = [pos EXCEPT ![t] = head]
    /\ ClaimHead(t, head, "dequeue_wait")
    /\ UNCHANGED <<val, log, recv>>

(* mm_ring_mpsc_dequeue_n: ring->head++ is a load ...                      *)
DequeueLoad(t) ==
    /\ pc[t] = "idle" /\ Consumers = {t} /\ head < MaxStamp
    /\ pos' = [pos EXCEPT ![t] = head]
    /\ Goto(t, "mpsc_inc")
    /\ UNCHANGED <<ring, val, log, recv>>

(* ... and a store.                                                        *)
DequeueInc(t) ==
    /\ pc[t] = "mpsc_inc"
    /\ ClaimHead(t, pos[t], "dequeue_wait")
    /\ UNCHANGED <<pos, val, log, recv>>

(* mm_ring_mpmc_busywait until the producer of the stamp has published.    *)
DequeueWait(t) ==
    /\ pc[t] = "dequeue_wait"
    /\ lock[Slot(pos[t])] = pos[t] + 1
    /\ Goto(t, "read")
    /\ UNCHANGED <<ring, pos, val, log, recv>>

Read(t) ==
    /\ pc[t] = "read"
    /\ val' = [val EXCEPT ![t] = data[Slot(pos[t])]]
    /\ recv' = recv \cup {<<pos[t], data[Slot(pos[t])]>>}
    /\ Goto(t, "release")
    /\ UNCHANGED <<ring, pos, log>>

(* node->lock = head + 1 + ring->mask: free for the next lap.              *)
Release(t) ==
    /\ pc[t] = "release"
    /\ lock' = [lock EXCEPT ![Slot(pos[t])] = pos[t] + Size]
    /\ Goto(t, "idle")
    /\ UNCHANGED <<head, tail, data, pos, val, log, recv>>

-----------------------------------------------------------------------------
Produce(t) ==
    \/ PutLoad(t) \/ PutCheck(t) \/ PutCas(t) \/ PutStore(t)
    \/ EnqueueFai(t) \/ EnqueueLoad(t) \/ EnqueueInc(t) \/ EnqueueWait(t)
    \/ Write(t) \/ Publish(t)

Consume(t) ==
    \/ GetLoad(t) \/ GetCheck(t) \/ GetCas(t) \/ GetStore(t)
    \/ DequeueFai(t) \/ DequeueLoad(t) \/ DequeueInc(t) \/ DequeueWait(t)
    \/ Read(t) \/ Release(t)

Next == \E t \in Threads : Produce(t) \/ Consume(t)

Spec == Init /\ [][Next]_vars

(* A thread inside an operation keeps running; nothing obliges it to start *)
(* another one.                                                            *)
Continue(t) == pc[t] # "idle" /\ (Produce(t) \/ Consume(t))
FairSpec == Spec /\ \A t \in Threads : WF_vars(Continue(t))

-----------------------------------------------------------------------------
TypeOK ==
    /\ head \in Nat /\ tail \in Nat
    /\ lock \in [Slots -> Nat]
    /\ data \in [Slots -> Values]
    /\ pc \in [Threads -> Steps]
    /\ pos \in [Threads -> Nat]
    /\ val \in [Threads -> Values]
    /\ log \in Seq(Values)
    /\ recv \in SUBSET (Nat \X Values)

Holds(t, steps, stamp) == pc[t] \in steps /\ pos[t] = stamp

(* No two threads copy data into or out of the same node at the same time: *)
(* the unsynchronized loops over node->data never race.                    *)
NodeExclusive ==
    \A t, u \in Threads :
        /\ t # u
        /\ {pc[t], pc[u]} \subseteq {"write", "publish", "read", "release"}
        => Slot(pos[t]) # Slot(pos[u])

(* The value a consumer copies out under stamp k is the one stored by the  *)
(* producer that claimed stamp k, whatever laps the ring has made since.   *)
ValueByStamp ==
    \A d \in recv : d[1] < Len(log) /\ d[2] = log[d[1] + 1]

(* Why the above hold: the parts of an invariant every step preserves.     *)

(* A claimed stamp is below the counter it was claimed from, and the log   *)
(* has the producer's value at that stamp.                                 *)
ClaimValid(t) ==
    /\ pc[t] \in ProducerSteps =>
        t \in Producers /\ pos[t] < tail /\ log[pos[t] + 1] = val[t]
    /\ pc[t] \in ConsumerSteps => t \in Consumers /\ pos[t] < head
ClaimsValid == Len(log) = tail /\ \A t \in Threads : ClaimValid(t)

(* No two threads have claimed the same stamp in the same role.            *)
ClaimsDistinct ==
    \A t, u \in Threads : t # u =>
        /\ pc[t] \in ProducerSteps /\ pc[u] \in ProducerSteps => pos[t] # pos[u]
        /\ pc[t] \in ConsumerSteps /\ pc[u] \in ConsumerSteps => pos[t] # pos[u]

(* A stamp loaded but not claimed yet: the check of the lock stays valid   *)
(* as long as nobody else claims the stamp.                                *)
PutLoadValid(t) ==
    /\ pc[t] \in {"put_check", "put_cas"} => t \in Producers /\ pos[t] <= tail
    /\ pc[t] \in {"spmc_check", "spmc_store", "spmc_inc"} =>
        Producers = {t} /\ pos[t] = tail
    /\ pc[t] \in {"put_cas", "spmc_store"} /\ pos[t] = tail =>
        lock[Slot(pos[t])] = pos[t]
GetLoadValid(t) ==
    /\ pc[t] \in {"get_check", "get_cas"} => t \in Consumers /\ pos[t] <= head
    /\ pc[t] \in {"mpsc_check", "mpsc_store", "mpsc_inc"} =>
        Consumers = {t} /\ pos[t] = head
    /\ pc[t] \in {"get_cas", "mpsc_store"} /\ pos[t] = head =>
        lock[Slot(pos[t])] = pos[t] + 1
LoadsValid == \A t \in Threads : PutLoadValid(t) /\ GetLoadValid(t)

(* The lock of a node names the thread that may access its data.           *)
AccessValid(t) ==
    /\ pc[t] \in {"write", "publish"} => lock[Slot(pos[t])] = pos[t]
    /\ pc[t] \in {"read", "release"} => lock[Slot(pos[t])] = pos[t] + 1
    /\ pc[t] = "publish" => data[Slot(pos[t])] = val[t]
AccessByLock == \A t \in Threads : AccessValid(t)

(* A node whose lock announces an item holds the item of that stamp.       *)
FullNodes ==
    \A i \in Slots :
        lock[i] > 0 /\ Slot(lock[i] - 1) = i =>
            lock[i] <= tail /\ data[i] = log[lock[i]]

(* A stamp is delivered once, after it has been claimed.                   *)
DeliveredOnce ==
    \A d \in recv :
        /\ d[1] < head /\ d[1] < tail /\ d[2] = log[d[1] + 1]
        /\ \A t \in Threads : pc[t] \in {"dequeue_wait", "read"} => pos[t] # d[1]

(* The inductive invariant of the ring.                                    *)
RingInv ==
    /\ TypeOK /\ ClaimsValid /\ ClaimsDistinct /\ LoadsValid
    /\ AccessByLock /\ FullNodes /\ DeliveredOnce

(* The ring implements a queue with tickets: values are handed out in the  *)
(* order of the claims, each to one consumer.                              *)
Fifo == INSTANCE TicketFifo
            WITH produced <- log, tickets <- head, delivered <- recv
RefinesFifo == Fifo!Spec

(* A stamp claimed by both a producer and a consumer is delivered, even if *)
(* both of them had to wait for their node.                                *)
PairedStampDelivered ==
    \A k \in 0 .. MaxStamp - 1 :
        (k < head /\ k < tail) ~> (\E d \in recv : d[1] = k)

=============================================================================
