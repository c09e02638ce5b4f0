--------------------------- MODULE MpmcRingProofs ---------------------------
(***************************************************************************)
(* Proofs about the ring of MpmcRing, for every set of producers and       *)
(* consumers, every size from two up and every bound on the stamps.        *)
(***************************************************************************)
EXTENDS MpmcRing, SequenceTheorems, TLAPS

(* Quotient and remainder of a stamp.                                      *)
LEMMA Division ==
    \A s \in Nat : /\ s = Size * (s \div Size) + (s % Size)
                   /\ s \div Size \in Int
                   /\ s % Size \in 0 .. Size - 1
BY SizeAssumption

(* A remainder does not depend on the lap.                                 *)
LEMMA Remainder ==
    \A q, r \in Int : r \in 0 .. Size - 1 => (Size * q + r) % Size = r
BY SizeAssumption

(* One is not a multiple of the size of a ring.                            *)
LEMMA OneIsNoLap == \A k \in Int : Size * k # 1
<1> TAKE k \in Int
<1>1. CASE k <= 0  BY <1>1, SizeAssumption
<1>2. CASE k >= 1  BY <1>2, SizeAssumption
<1> QED  BY <1>1, <1>2

(* Adjacent stamps use different nodes: the lock value that a producer     *)
(* publishes is never mistaken for that of a free node.                    *)
LEMMA NextSlot == \A s \in Nat : Slot(s + 1) # Slot(s)
<1> TAKE s \in Nat
<1> DEFINE q == s \div Size
           p == (s + 1) \div Size
<1>1. s = Size * q + (s % Size) /\ q \in Int  BY Division
<1>2. s + 1 = Size * p + ((s + 1) % Size) /\ p \in Int  BY Division
<1>3. Size * (p - q) # 1  BY <1>1, <1>2, OneIsNoLap
<1>4. Size * p - Size * q = Size * (p - q)  BY <1>1, <1>2, SizeAssumption
<1>5. /\ s % Size \in Int /\ (s + 1) % Size \in Int
      /\ Size * p \in Int /\ Size * q \in Int
  BY SizeAssumption, <1>1, <1>2
<1> HIDE DEF p, q
<1> QED  BY <1>1, <1>2, <1>3, <1>4, <1>5 DEF Slot

(* A lap later the stamp comes to the same node.                           *)
LEMMA LapSlot == \A s \in Nat : Slot(s + Size) = Slot(s)
<1> TAKE s \in Nat
<1> DEFINE q == s \div Size
           r == s % Size
<1>1. s = Size * q + r /\ q \in Int /\ r \in 0 .. Size - 1  BY Division
<1> HIDE DEF q, r
<1>2. s + Size = Size * (q + 1) + r  BY <1>1, SizeAssumption
<1>3. (Size * (q + 1) + r) % Size = r  BY <1>1, Remainder, SizeAssumption
<1> QED  BY <1>2, <1>3 DEF Slot, r

LEMMA SlotType == \A s \in Nat : Slot(s) \in Slots
BY SizeAssumption DEF Slot, Slots

(* Claiming a stamp extends the log and keeps what it had.                 *)
LEMMA LogGrows ==
    ASSUME TypeOK, Len(log) = tail, NEW v \in Values
    PROVE  /\ Append(log, v) \in Seq(Values)
           /\ Len(Append(log, v)) = tail + 1
           /\ Append(log, v)[tail + 1] = v
           /\ \A k \in Nat : k < tail => Append(log, v)[k + 1] = log[k + 1]
BY AppendProperties DEF TypeOK

-----------------------------------------------------------------------------
(* The steps fall into kinds that preserve the invariant for the same      *)
(* reasons.  In all of them a thread changes no other thread's variables.  *)

OthersSame(t) ==
    \A u \in Threads : u # t => pc'[u] = pc[u] /\ pos'[u] = pos[u] /\ val'[u] = val[u]

(* What the invariant says of a single thread.                             *)
ThreadValid(t) ==
    ClaimValid(t) /\ PutLoadValid(t) /\ GetLoadValid(t) /\ AccessValid(t)

(* Two threads at one node: the lock lets at most one of them access it,   *)
(* and neither a producer nor a consumer about to claim the next stamp can *)
(* have seen the lock value that lets the other one in.                    *)
LEMMA OneAtNode ==
    ASSUME RingInv, NEW t \in Threads, NEW u \in Threads, t # u,
           Slot(pos[t]) = Slot(pos[u]),
           pc[t] \in {"write", "publish", "read", "release"}
    PROVE  /\ pc[u] \notin {"write", "publish", "read", "release"}
           /\ ~ (pc[u] \in {"put_cas", "spmc_store"} /\ pos[u] = tail)
           /\ ~ (pc[u] \in {"get_cas", "mpsc_store"} /\ pos[u] = head)
<1> USE DEF RingInv, ProducerSteps, ConsumerSteps
<1>1. pos[t] \in Nat /\ pos[u] \in Nat  BY DEF TypeOK
<1>2. pos[t] # pos[u] + 1 /\ pos[u] # pos[t] + 1  BY <1>1, NextSlot
<1>3. CASE pc[t] \in {"write", "publish"}
  <2>1. lock[Slot(pos[u])] = pos[t] /\ pos[t] < tail
    BY <1>3 DEF AccessByLock, AccessValid, ClaimsValid, ClaimValid
  <2>2. pc[u] \notin {"write", "publish"}
    BY <1>3, <2>1 DEF AccessByLock, AccessValid, ClaimsDistinct
  <2>3. pc[u] \notin {"read", "release"}
    BY <1>2, <2>1 DEF AccessByLock, AccessValid
  <2>4. ~ (pc[u] \in {"put_cas", "spmc_store"} /\ pos[u] = tail)
    BY <1>1, <2>1 DEF LoadsValid, PutLoadValid, TypeOK
  <2>5. ~ (pc[u] \in {"get_cas", "mpsc_store"} /\ pos[u] = head)
    BY <1>2, <2>1 DEF LoadsValid, GetLoadValid
  <2> QED  BY <2>2, <2>3, <2>4, <2>5
<1>4. CASE pc[t] \in {"read", "release"}
  <2>1. lock[Slot(pos[u])] = pos[t] + 1 /\ pos[t] < head
    BY <1>4 DEF AccessByLock, AccessValid, ClaimsValid, ClaimValid
  <2>2. pc[u] \notin {"write", "publish"}
    BY <1>2, <2>1 DEF AccessByLock, AccessValid
  <2>3. pc[u] \in {"read", "release"} => pos[u] = pos[t]
    BY <1>1, <2>1 DEF AccessByLock, AccessValid
  <2>4. pc[u] \notin {"read", "release"}
    BY <1>4, <2>3 DEF ClaimsDistinct
  <2>5. ~ (pc[u] \in {"put_cas", "spmc_store"} /\ pos[u] = tail)
    BY <1>2, <2>1 DEF LoadsValid, PutLoadValid
  <2>6. ~ (pc[u] \in {"get_cas", "mpsc_store"} /\ pos[u] = head)
    BY <1>1, <2>1 DEF LoadsValid, GetLoadValid, TypeOK
  <2> QED  BY <2>2, <2>4, <2>5, <2>6
<1> QED  BY <1>3, <1>4

(* Steps that change nothing but the thread's own variables.               *)
LEMMA QuietStep ==
    ASSUME RingInv, TypeOK', NEW t \in Threads, OthersSame(t),
           UNCHANGED <<head, tail, lock, data, log, recv>>,
           ThreadValid(t)',
           pc'[t] \in ProducerSteps => pc[t] \in ProducerSteps /\ pos'[t] = pos[t],
           pc'[t] \in ConsumerSteps => pc[t] \in ConsumerSteps /\ pos'[t] = pos[t],
           pc'[t] \in {"dequeue_wait", "read"} => pc[t] = "dequeue_wait"
    PROVE  RingInv'
<1> USE DEF RingInv, OthersSame
<1>1. ClaimsValid'
  BY DEF ClaimsValid, ClaimValid, ThreadValid
<1>2. ClaimsDistinct'  BY DEF ClaimsDistinct
<1>3. LoadsValid'
  BY DEF LoadsValid, PutLoadValid, GetLoadValid, ThreadValid
<1>4. AccessByLock'  BY DEF AccessByLock, AccessValid, ThreadValid
<1>5. FullNodes'  BY DEF FullNodes
<1>6. DeliveredOnce'  BY DEF DeliveredOnce, ConsumerSteps
<1> QED  BY <1>1, <1>2, <1>3, <1>4, <1>5, <1>6

(* A producer claims the stamp of the tail.                                *)
LEMMA TailStep ==
    ASSUME RingInv, TypeOK', NEW t \in Producers, OthersSame(t),
           UNCHANGED <<head, lock, data, recv>>,
           tail' = tail + 1, log' = Append(log, val'[t]), pos'[t] = tail,
           pc'[t] = "enqueue_wait" \/ (pc'[t] = "write" /\ lock[Slot(tail)] = tail)
    PROVE  RingInv'
<1> USE DEF RingInv, OthersSame, Threads, ProducerSteps, ConsumerSteps
<1>0. Len(log) = tail /\ tail \in Nat /\ head \in Nat /\ val'[t] \in Values
  BY DEF ClaimsValid, TypeOK
<1>a. /\ Len(log') = tail' /\ log'[tail + 1] = val'[t]
      /\ \A k \in Nat : k < tail => log'[k + 1] = log[k + 1]
  BY <1>0, LogGrows
<1>b. \A u \in Threads : pos[u] \in Nat  BY DEF TypeOK
<1>1. ClaimsValid'
  <2> SUFFICES ASSUME NEW u \in Threads PROVE ClaimValid(u)'
    BY <1>a DEF ClaimsValid
  <2>1. CASE u = t  BY <2>1, <1>0, <1>a DEF ClaimValid
  <2>2. CASE u # t  BY <2>2, <1>0, <1>a, <1>b DEF ClaimsValid, ClaimValid
  <2> QED  BY <2>1, <2>2
<1>2. ClaimsDistinct'  BY <1>0, <1>b DEF ClaimsDistinct, ClaimsValid, ClaimValid
<1>3. LoadsValid'
  <2> SUFFICES ASSUME NEW u \in Threads PROVE PutLoadValid(u)' /\ GetLoadValid(u)'
    BY DEF LoadsValid
  <2>1. CASE u = t  BY <2>1 DEF PutLoadValid, GetLoadValid
  <2>2. CASE u # t
    BY <2>2, <1>0, <1>b DEF LoadsValid, PutLoadValid, GetLoadValid
  <2> QED  BY <2>1, <2>2
<1>4. AccessByLock'  BY DEF AccessByLock, AccessValid
<1>5. FullNodes'
  <2> SUFFICES ASSUME NEW i \in Slots, lock[i] > 0, Slot(lock[i] - 1) = i
               PROVE  lock[i] <= tail' /\ data[i] = log'[lock[i]]
    BY DEF FullNodes
  <2>1. lock[i] \in Nat /\ lock[i] <= tail /\ data[i] = log[lock[i]]
    BY DEF FullNodes, TypeOK
  <2>2. lock[i] - 1 \in Nat /\ lock[i] - 1 < tail /\ (lock[i] - 1) + 1 = lock[i]
    BY <2>1, <1>0
  <2>3. log'[(lock[i] - 1) + 1] = log[(lock[i] - 1) + 1]  BY <2>2, <1>a
  <2> QED  BY <1>0, <2>1, <2>2, <2>3
<1>6. DeliveredOnce'
  <2> SUFFICES ASSUME NEW d \in recv
               PROVE  /\ d[1] < head' /\ d[1] < tail' /\ d[2] = log'[d[1] + 1]
                      /\ \A u \in Threads :
                            pc'[u] \in {"dequeue_wait", "read"} => pos'[u] # d[1]
    BY DEF DeliveredOnce
  <2>1. d[1] \in Nat  BY DEF TypeOK
  <2>2. d[1] < head /\ d[1] < tail /\ d[2] = log[d[1] + 1]  BY DEF DeliveredOnce
  <2>3. \A u \in Threads : pc'[u] \in {"dequeue_wait", "read"} => pos'[u] # d[1]
    BY DEF DeliveredOnce
  <2> QED  BY <1>0, <1>a, <2>1, <2>2, <2>3
<1> QED  BY <1>1, <1>2, <1>3, <1>4, <1>5, <1>6

(* A consumer claims the stamp of the head.                                *)
LEMMA HeadStep ==
    ASSUME RingInv, TypeOK', NEW t \in Consumers, OthersSame(t),
           UNCHANGED <<tail, lock, data, val, log, recv>>,
           head' = head + 1, pos'[t] = head,
           pc'[t] = "dequeue_wait" \/ (pc'[t] = "read" /\ lock[Slot(head)] = head + 1)
    PROVE  RingInv'
<1> USE DEF RingInv, OthersSame, Threads, ProducerSteps, ConsumerSteps
<1>0. tail \in Nat /\ head \in Nat  BY DEF TypeOK
<1>b. \A u \in Threads : pos[u] \in Nat  BY DEF TypeOK
<1>1. ClaimsValid'  BY <1>0, <1>b DEF ClaimsValid, ClaimValid
<1>2. ClaimsDistinct'  BY <1>0, <1>b DEF ClaimsDistinct, ClaimsValid, ClaimValid
<1>3. LoadsValid'
  <2> SUFFICES ASSUME NEW u \in Threads PROVE PutLoadValid(u)' /\ GetLoadValid(u)'
    BY DEF LoadsValid
  <2>1. CASE u = t  BY <2>1 DEF PutLoadValid, GetLoadValid
  <2>2. CASE u # t
    BY <2>2, <1>0, <1>b DEF LoadsValid, PutLoadValid, GetLoadValid
  <2> QED  BY <2>1, <2>2
<1>4. AccessByLock'  BY DEF AccessByLock, AccessValid
<1>5. FullNodes'  BY DEF FullNodes
<1>6. DeliveredOnce'
  <2> SUFFICES ASSUME NEW d \in recv
               PROVE  /\ d[1] < head'
                      /\ \A u \in Threads :
                            pc'[u] \in {"dequeue_wait", "read"} => pos'[u] # d[1]
    BY DEF DeliveredOnce
  <2>1. d[1] \in Nat /\ d[1] < head  BY DEF TypeOK, DeliveredOnce
  <2> QED  BY <1>0, <2>1 DEF DeliveredOnce
<1> QED  BY <1>1, <1>2, <1>3, <1>4, <1>5, <1>6

(* The producer copies its value into the node it has to itself.           *)
LEMMA WriteStep ==
    ASSUME RingInv, TypeOK', NEW t \in Threads, Write(t)
    PROVE  RingInv'
<1> USE DEF RingInv, Write, Goto, ProducerSteps, ConsumerSteps
<1>0. OthersSame(t) /\ pc[t] = "write" /\ pc'[t] = "publish" /\ pos' = pos
  BY DEF TypeOK, OthersSame
<1>a. \A u \in Threads : pos[u] \in Nat /\ Slot(pos[u]) \in Slots
  BY SlotType DEF TypeOK
<1>b. /\ data'[Slot(pos[t])] = val[t]
      /\ \A i \in Slots : i # Slot(pos[t]) => data'[i] = data[i]
  BY <1>a DEF TypeOK
<1>1. ClaimsValid'  BY <1>0 DEF ClaimsValid, ClaimValid, OthersSame
<1>2. ClaimsDistinct'  BY <1>0 DEF ClaimsDistinct, OthersSame
<1>3. LoadsValid'  BY <1>0 DEF LoadsValid, PutLoadValid, GetLoadValid, OthersSame
<1>4. AccessByLock'
  <2> SUFFICES ASSUME NEW u \in Threads PROVE AccessValid(u)'
    BY DEF AccessByLock
  <2>1. CASE u = t  BY <2>1, <1>0, <1>b DEF AccessByLock, AccessValid
  <2>2. CASE u # t
    <3>1. Slot(pos[u]) = Slot(pos[t]) => pc[u] # "publish"  BY <2>2, <1>0, OneAtNode
    <3> QED  BY <2>2, <3>1, <1>0, <1>a, <1>b DEF AccessByLock, AccessValid, OthersSame
  <2> QED  BY <2>1, <2>2
<1>5. FullNodes'
  <2> SUFFICES ASSUME NEW i \in Slots, lock[i] > 0, Slot(lock[i] - 1) = i
               PROVE  lock[i] <= tail /\ data'[i] = log[lock[i]]
    BY DEF FullNodes
  <2>1. i # Slot(pos[t])
    <3> SUFFICES ASSUME i = Slot(pos[t]) PROVE FALSE  OBVIOUS
    <3>1. lock[i] = pos[t]  BY <1>0 DEF AccessByLock, AccessValid
    <3>2. pos[t] - 1 \in Nat /\ (pos[t] - 1) + 1 = pos[t]  BY <3>1, <1>a
    <3> QED  BY <3>1, <3>2, NextSlot
  <2> QED  BY <2>1, <1>b DEF FullNodes
<1>6. DeliveredOnce'  BY <1>0 DEF DeliveredOnce, OthersSame
<1> QED  BY <1>1, <1>2, <1>3, <1>4, <1>5, <1>6

(* The consumer copies the value out: it is that of the claimed stamp.     *)
LEMMA ReadStep ==
    ASSUME RingInv, TypeOK', NEW t \in Threads, Read(t)
    PROVE  /\ RingInv'
           /\ pos[t] \in Nat /\ pos[t] < head /\ pos[t] < Len(log)
           /\ \A d \in recv : d[1] # pos[t]
           /\ recv' = recv \cup {<<pos[t], log[pos[t] + 1]>>}
<1> USE DEF RingInv, Read, Goto, ring, ProducerSteps, ConsumerSteps
<1>0. OthersSame(t) /\ pc[t] = "read" /\ pc'[t] = "release" /\ pos' = pos
  BY DEF TypeOK, OthersSame
<1>a. pos[t] \in Nat /\ Slot(pos[t]) \in Slots  BY SlotType DEF TypeOK
<1>b. lock[Slot(pos[t])] = pos[t] + 1  BY <1>0 DEF AccessByLock, AccessValid
<1>c. (pos[t] + 1) - 1 = pos[t] /\ pos[t] + 1 > 0  BY <1>a
<1>d. pos[t] + 1 <= tail /\ data[Slot(pos[t])] = log[pos[t] + 1]
  BY <1>a, <1>b, <1>c DEF FullNodes
<1>e. pos[t] < head /\ pos[t] < tail
  BY <1>0, <1>a, <1>d DEF ClaimsValid, ClaimValid, TypeOK
<1>1. ClaimsValid'  BY <1>0 DEF ClaimsValid, ClaimValid, OthersSame
<1>2. ClaimsDistinct'  BY <1>0 DEF ClaimsDistinct, OthersSame
<1>3. LoadsValid'  BY <1>0 DEF LoadsValid, PutLoadValid, GetLoadValid, OthersSame
<1>4. AccessByLock'  BY <1>0 DEF AccessByLock, AccessValid, OthersSame
<1>5. FullNodes'  BY DEF FullNodes
<1>6. \A u \in Threads : pc'[u] \in {"dequeue_wait", "read"} => pos[u] # pos[t]
  BY <1>0 DEF ClaimsDistinct, OthersSame
<1>7. recv' = recv \cup {<<pos[t], log[pos[t] + 1]>>}  BY <1>d
<1>8. DeliveredOnce'
  <2> SUFFICES ASSUME NEW d \in recv'
               PROVE  /\ d[1] < head /\ d[1] < tail /\ d[2] = log[d[1] + 1]
                      /\ \A u \in Threads :
                            pc'[u] \in {"dequeue_wait", "read"} => pos[u] # d[1]
    BY DEF DeliveredOnce
  <2>1. CASE d \in recv  BY <2>1, <1>0 DEF DeliveredOnce, OthersSame
  <2>2. CASE d = <<pos[t], log[pos[t] + 1]>>  BY <2>2, <1>e, <1>6
  <2> QED  BY <2>1, <2>2, <1>7
<1>9. \A d \in recv : d[1] # pos[t]  BY <1>0 DEF DeliveredOnce
<1> QED
  BY <1>a, <1>e, <1>1, <1>2, <1>3, <1>4, <1>5, <1>7, <1>8, <1>9 DEF ClaimsValid

(* Handing a node over, to a consumer or to the producer of the next lap.  *)
LEMMA HandOver ==
    ASSUME RingInv, TypeOK', NEW t \in Threads, NEW next \in Nat,
           pc[t] \in {"publish", "release"},
           pc' = [pc EXCEPT ![t] = "idle"],
           lock' = [lock EXCEPT ![Slot(pos[t])] = next],
           UNCHANGED <<head, tail, data, pos, val, log, recv>>,
           next > 0 /\ Slot(next - 1) = Slot(pos[t]) =>
               next <= tail /\ data[Slot(pos[t])] = log[next]
    PROVE  RingInv'
<1> USE DEF RingInv, ProducerSteps, ConsumerSteps
<1>0. OthersSame(t) /\ pc'[t] = "idle"  BY DEF TypeOK, OthersSame
<1>a. \A u \in Threads : pos[u] \in Nat /\ Slot(pos[u]) \in Slots
  BY SlotType DEF TypeOK
<1>b. /\ lock'[Slot(pos[t])] = next
      /\ \A i \in Slots : i # Slot(pos[t]) => lock'[i] = lock[i]
  BY <1>a DEF TypeOK
<1>1. ClaimsValid'  BY <1>0 DEF ClaimsValid, ClaimValid, OthersSame
<1>2. ClaimsDistinct'  BY <1>0 DEF ClaimsDistinct, OthersSame
<1>3. LoadsValid'
  <2> SUFFICES ASSUME NEW u \in Threads PROVE PutLoadValid(u)' /\ GetLoadValid(u)'
    BY DEF LoadsValid
  <2>1. CASE u = t  BY <2>1, <1>0 DEF PutLoadValid, GetLoadValid
  <2>2. CASE u # t
    <3>1. Slot(pos[u]) = Slot(pos[t]) =>
            /\ ~ (pc[u] \in {"put_cas", "spmc_store"} /\ pos[u] = tail)
            /\ ~ (pc[u] \in {"get_cas", "mpsc_store"} /\ pos[u] = head)
      BY <2>2, <1>0, OneAtNode
    <3> QED
      BY <2>2, <3>1, <1>0, <1>a, <1>b
      DEF LoadsValid, PutLoadValid, GetLoadValid, OthersSame
  <2> QED  BY <2>1, <2>2
<1>4. AccessByLock'
  <2> SUFFICES ASSUME NEW u \in Threads PROVE AccessValid(u)'
    BY DEF AccessByLock
  <2>1. CASE u = t  BY <2>1, <1>0 DEF AccessValid
  <2>2. CASE u # t
    <3>1. Slot(pos[u]) = Slot(pos[t]) =>
            pc[u] \notin {"write", "publish", "read", "release"}
      BY <2>2, <1>0, OneAtNode
    <3> QED  BY <2>2, <3>1, <1>0, <1>a, <1>b DEF AccessByLock, AccessValid, OthersSame
  <2> QED  BY <2>1, <2>2
<1>5. FullNodes'
  <2> SUFFICES ASSUME NEW i \in Slots, lock'[i] > 0, Slot(lock'[i] - 1) = i
               PROVE  lock'[i] <= tail /\ data[i] = log[lock'[i]]
    BY DEF FullNodes
  <2>1. CASE i = Slot(pos[t])  BY <2>1, <1>b
  <2>2. CASE i # Slot(pos[t])  BY <2>2, <1>b DEF FullNodes
  <2> QED  BY <2>1, <2>2
<1>6. DeliveredOnce'  BY <1>0 DEF DeliveredOnce, OthersSame
<1> QED  BY <1>1, <1>2, <1>3, <1>4, <1>5, <1>6

LEMMA PublishStep ==
    ASSUME RingInv, TypeOK', NEW t \in Threads, Publish(t)
    PROVE  RingInv'
<1> USE DEF RingInv
<1>1. pc[t] = "publish" /\ pos[t] \in Nat  BY DEF Publish, TypeOK
<1>2. pos[t] + 1 <= tail /\ data[Slot(pos[t])] = log[pos[t] + 1]
  BY <1>1 DEF ClaimsValid, ClaimValid, AccessByLock, AccessValid, ProducerSteps, TypeOK
<1>3. pos[t] + 1 \in Nat  BY <1>1
<1> QED  BY <1>1, <1>2, <1>3, HandOver DEF Publish, Goto

LEMMA ReleaseStep ==
    ASSUME RingInv, TypeOK', NEW t \in Threads, Release(t)
    PROVE  RingInv'
<1> USE DEF RingInv
<1>1. pc[t] = "release" /\ pos[t] \in Nat  BY DEF Release, TypeOK
<1>2. pos[t] + Size - 1 \in Nat /\ (pos[t] + Size - 1) + 1 = pos[t] + Size
      /\ pos[t] + Size \in Nat
  BY <1>1, SizeAssumption
<1>3. Slot((pos[t] + Size) - 1) # Slot(pos[t])  BY <1>1, <1>2, NextSlot, LapSlot
<1> QED  BY <1>1, <1>2, <1>3, HandOver DEF Release, Goto

-----------------------------------------------------------------------------
LEMMA InitInv == Init => RingInv
<1> SUFFICES ASSUME Init PROVE RingInv  OBVIOUS
<1> USE DEF Init, ProducerSteps, ConsumerSteps
<1>1. TypeOK  BY SizeAssumption DEF TypeOK, Steps, OtherSteps, Slots
<1>2. FullNodes
  <2> SUFFICES ASSUME NEW i \in Slots, i > 0, Slot(i - 1) = i PROVE FALSE
    BY DEF FullNodes
  <2>1. i - 1 \in Nat /\ (i - 1) + 1 = i  BY SizeAssumption DEF Slots
  <2>2. Slot(i) = i  BY SizeAssumption DEF Slot, Slots
  <2> QED  BY <2>1, <2>2, NextSlot
<1>3. ClaimsValid /\ ClaimsDistinct  BY DEF ClaimsValid, ClaimValid, ClaimsDistinct
<1>4. LoadsValid  BY DEF LoadsValid, PutLoadValid, GetLoadValid
<1>5. AccessByLock /\ DeliveredOnce  BY DEF AccessByLock, AccessValid, DeliveredOnce
<1> QED  BY <1>1, <1>2, <1>3, <1>4, <1>5 DEF RingInv

(* One step of a thread, with the kind of the step.                        *)
LEMMA ProduceInv ==
    ASSUME RingInv, NEW t \in Threads, Produce(t)
    PROVE  /\ RingInv'
           /\ head' = head /\ recv' = recv
           /\ log' = log \/ \E v \in Values : log' = Append(log, v)
<1> USE DEF RingInv, Goto, ring, ProducerSteps, ConsumerSteps
<1>a. /\ tail \in Nat /\ Len(log) = tail /\ pos[t] \in Nat /\ val[t] \in Values
      /\ Slot(pos[t]) \in Slots
  BY SlotType DEF TypeOK, ClaimsValid
<1>1. CASE PutLoad(t)
  <2> USE <1>1 DEF PutLoad
  <2>1. TypeOK'  BY <1>a DEF TypeOK, Steps, OtherSteps
  <2>2. OthersSame(t)  BY DEF OthersSame, TypeOK
  <2>3. ThreadValid(t)'
    BY <1>a DEF ThreadValid, ClaimValid, PutLoadValid, GetLoadValid, AccessValid, TypeOK
  <2>4. pc'[t] \in {"put_check", "spmc_check"}  BY DEF TypeOK
  <2> QED  BY <2>1, <2>2, <2>3, <2>4, QuietStep
<1>2. CASE PutCheck(t)
  <2> USE <1>2 DEF PutCheck, PutCheckAs
  <2>1. TypeOK'  BY <1>a DEF TypeOK, Steps, OtherSteps
  <2>2. OthersSame(t)  BY DEF OthersSame, TypeOK
  <2>3. ThreadValid(t)'
    BY <1>a DEF ThreadValid, ClaimValid, LoadsValid, PutLoadValid, GetLoadValid, AccessValid, TypeOK
  <2>4. pc'[t] \in {"idle", "put_cas", "spmc_store"}  BY DEF TypeOK
  <2> QED  BY <2>1, <2>2, <2>3, <2>4, QuietStep
<1>3. CASE PutCas(t)
  <2>1. CASE /\ pc[t] = "put_cas" /\ tail = pos[t]
             /\ ClaimTail(t, pos[t], "write") /\ UNCHANGED <<pos, val>>
    <3> USE <2>1 DEF ClaimTail
    <3>1. log' \in Seq(Values)  BY <1>a, LogGrows
    <3>2. TypeOK'  BY <3>1, <1>a DEF TypeOK, Steps
    <3>3. OthersSame(t)  BY DEF OthersSame, TypeOK
    <3>4. t \in Producers /\ lock[Slot(tail)] = tail /\ pc'[t] = "write"
      BY DEF LoadsValid, PutLoadValid, TypeOK
    <3> QED  BY <1>a, <3>2, <3>3, <3>4, TailStep
  <2>2. CASE Goto(t, "idle") /\ UNCHANGED <<ring, pos, val, log, recv>>
    <3> USE <2>2
    <3>1. TypeOK'  BY DEF TypeOK, Steps, OtherSteps
    <3>2. OthersSame(t) /\ pc'[t] = "idle"  BY DEF OthersSame, TypeOK
    <3>3. ThreadValid(t)'
      BY <3>2 DEF ThreadValid, ClaimValid, PutLoadValid, GetLoadValid, AccessValid
    <3> QED  BY <3>1, <3>2, <3>3, QuietStep
  <2> QED  BY <1>3, <2>1, <2>2 DEF PutCas
<1>4. CASE PutStore(t)
  <2> USE <1>4 DEF PutStore, ClaimTail
  <2>1. log' \in Seq(Values)  BY <1>a, LogGrows
  <2>2. OthersSame(t)  BY DEF OthersSame, TypeOK
  <2>3. t \in Producers /\ pos[t] = tail /\ lock[Slot(tail)] = tail /\ pc'[t] = "write"
    BY DEF LoadsValid, PutLoadValid, TypeOK
  <2>4. TypeOK'  BY <2>1, <2>3, <1>a DEF TypeOK, Steps
  <2> QED  BY <1>a, <2>2, <2>3, <2>4, TailStep
<1>5. CASE EnqueueFai(t)
  <2> USE <1>5 DEF EnqueueFai
  <2>0. PICK v \in Values : val' = [val EXCEPT ![t] = v] /\ log' = Append(log, v)
    OBVIOUS
  <2>1. log' \in Seq(Values)  BY <1>a, <2>0, LogGrows
  <2>2. OthersSame(t)  BY <2>0 DEF OthersSame, TypeOK
  <2>3. pc'[t] = "enqueue_wait" /\ pos'[t] = tail /\ val'[t] = v
    BY <2>0 DEF TypeOK
  <2>4. TypeOK'  BY <2>0, <2>1, <1>a DEF TypeOK, Steps
  <2> QED  BY <1>a, <2>0, <2>2, <2>3, <2>4, TailStep
<1>6. CASE EnqueueLoad(t)
  <2> USE <1>6 DEF EnqueueLoad
  <2>1. TypeOK'  BY <1>a DEF TypeOK, Steps, OtherSteps
  <2>2. OthersSame(t) /\ pc'[t] = "spmc_inc"  BY DEF OthersSame, TypeOK
  <2>3. ThreadValid(t)'
    BY <1>a, <2>2 DEF ThreadValid, ClaimValid, PutLoadValid, GetLoadValid, AccessValid, TypeOK
  <2> QED  BY <2>1, <2>2, <2>3, QuietStep
<1>7. CASE EnqueueInc(t)
  <2> USE <1>7 DEF EnqueueInc, ClaimTail
  <2>1. log' \in Seq(Values)  BY <1>a, LogGrows
  <2>2. OthersSame(t)  BY DEF OthersSame, TypeOK
  <2>3. t \in Producers /\ pos[t] = tail /\ pc'[t] = "enqueue_wait"
    BY DEF LoadsValid, PutLoadValid, TypeOK
  <2>4. TypeOK'  BY <2>1, <2>3, <1>a DEF TypeOK, Steps
  <2> QED  BY <1>a, <2>2, <2>3, <2>4, TailStep
<1>8. CASE EnqueueWait(t)
  <2> USE <1>8 DEF EnqueueWait
  <2>1. TypeOK'  BY DEF TypeOK, Steps
  <2>2. OthersSame(t) /\ pc'[t] = "write"  BY DEF OthersSame, TypeOK
  <2>3. ThreadValid(t)'
    BY <2>2 DEF ThreadValid, ClaimsValid, ClaimValid, PutLoadValid, GetLoadValid, AccessValid
  <2> QED  BY <2>1, <2>2, <2>3, QuietStep
<1>9. CASE Write(t)
  <2>1. TypeOK'  BY <1>9, <1>a DEF Write, TypeOK, Steps
  <2> QED  BY <1>9, <2>1, WriteStep DEF Write
<1>10. CASE Publish(t)
  <2>0. pos[t] + 1 \in Nat  BY <1>a
  <2>1. TypeOK'  BY <1>10, <1>a, <2>0 DEF Publish, TypeOK, Steps, OtherSteps
  <2> QED  BY <1>10, <2>1, PublishStep DEF Publish
<1> QED
  BY <1>1, <1>2, <1>3, <1>4, <1>5, <1>6, <1>7, <1>8, <1>9, <1>10 DEF Produce

LEMMA ConsumeInv ==
    ASSUME RingInv, NEW t \in Threads, Consume(t)
    PROVE  /\ RingInv' /\ log' = log
           /\ \/ head' = head /\ recv' = recv
              \/ head' = head + 1 /\ recv' = recv
              \/ /\ head' = head
                 /\ \E k \in 0 .. head - 1 :
                        /\ k < Len(log) /\ \A d \in recv : d[1] # k
                        /\ recv' = recv \cup {<<k, log[k + 1]>>}
<1> USE DEF RingInv, Goto, ring, ProducerSteps, ConsumerSteps
<1>a. /\ head \in Nat /\ pos[t] \in Nat /\ val[t] \in Values
      /\ Slot(pos[t]) \in Slots /\ data[Slot(pos[t])] \in Values
  BY SlotType DEF TypeOK
<1>1. CASE GetLoad(t)
  <2> USE <1>1 DEF GetLoad
  <2>1. TypeOK'  BY <1>a DEF TypeOK, Steps, OtherSteps
  <2>2. OthersSame(t)  BY DEF OthersSame, TypeOK
  <2>3. ThreadValid(t)'
    BY <1>a DEF ThreadValid, ClaimValid, PutLoadValid, GetLoadValid, AccessValid, TypeOK
  <2>4. pc'[t] \in {"get_check", "mpsc_check"}  BY DEF TypeOK
  <2> QED  BY <2>1, <2>2, <2>3, <2>4, QuietStep
<1>2. CASE GetCheck(t)
  <2> USE <1>2 DEF GetCheck, GetCheckAs
  <2>1. TypeOK'  BY <1>a DEF TypeOK, Steps, OtherSteps
  <2>2. OthersSame(t)  BY DEF OthersSame, TypeOK
  <2>3. ThreadValid(t)'
    BY <1>a DEF ThreadValid, ClaimValid, LoadsValid, PutLoadValid, GetLoadValid, AccessValid, TypeOK
  <2>4. pc'[t] \in {"idle", "get_cas", "mpsc_store"}  BY DEF TypeOK
  <2> QED  BY <2>1, <2>2, <2>3, <2>4, QuietStep
<1>3. CASE GetCas(t)
  <2>1. CASE /\ pc[t] = "get_cas" /\ head = pos[t]
             /\ ClaimHead(t, pos[t], "read") /\ UNCHANGED <<pos, val, log, recv>>
    <3> USE <2>1 DEF ClaimHead
    <3>1. TypeOK'  BY <1>a DEF TypeOK, Steps
    <3>2. OthersSame(t)  BY DEF OthersSame, TypeOK
    <3>3. /\ t \in Consumers /\ lock[Slot(head)] = head + 1
          /\ pc'[t] = "read" /\ head' = head + 1
      BY DEF LoadsValid, GetLoadValid, TypeOK
    <3> QED  BY <1>a, <3>1, <3>2, <3>3, HeadStep
  <2>2. CASE Goto(t, "idle") /\ UNCHANGED <<ring, pos, val, log, recv>>
    <3> USE <2>2
    <3>1. TypeOK'  BY DEF TypeOK, Steps, OtherSteps
    <3>2. OthersSame(t) /\ pc'[t] = "idle"  BY DEF OthersSame, TypeOK
    <3>3. ThreadValid(t)'
      BY <3>2 DEF ThreadValid, ClaimValid, PutLoadValid, GetLoadValid, AccessValid
    <3> QED  BY <3>1, <3>2, <3>3, QuietStep
  <2> QED  BY <1>3, <2>1, <2>2 DEF GetCas
<1>4. CASE GetStore(t)
  <2> USE <1>4 DEF GetStore, ClaimHead
  <2>1. TypeOK'  BY <1>a DEF TypeOK, Steps
  <2>2. OthersSame(t)  BY DEF OthersSame, TypeOK
  <2>3. /\ t \in Consumers /\ pos[t] = head /\ lock[Slot(head)] = head + 1
        /\ pc'[t] = "read"
    BY DEF LoadsValid, GetLoadValid, TypeOK
  <2> QED  BY <1>a, <2>1, <2>2, <2>3, HeadStep
<1>5. CASE DequeueFai(t)
  <2> USE <1>5 DEF DequeueFai, ClaimHead
  <2>1. TypeOK'  BY <1>a DEF TypeOK, Steps
  <2>2. OthersSame(t)  BY DEF OthersSame, TypeOK
  <2>3. pc'[t] = "dequeue_wait" /\ pos'[t] = head  BY DEF TypeOK
  <2> QED  BY <1>a, <2>1, <2>2, <2>3, HeadStep
<1>6. CASE DequeueLoad(t)
  <2> USE <1>6 DEF DequeueLoad
  <2>1. TypeOK'  BY <1>a DEF TypeOK, Steps, OtherSteps
  <2>2. OthersSame(t) /\ pc'[t] = "mpsc_inc"  BY DEF OthersSame, TypeOK
  <2>3. ThreadValid(t)'
    BY <1>a, <2>2 DEF ThreadValid, ClaimValid, PutLoadValid, GetLoadValid, AccessValid, TypeOK
  <2> QED  BY <2>1, <2>2, <2>3, QuietStep
<1>7. CASE DequeueInc(t)
  <2> USE <1>7 DEF DequeueInc, ClaimHead
  <2>1. TypeOK'  BY <1>a DEF TypeOK, Steps
  <2>2. OthersSame(t)  BY DEF OthersSame, TypeOK
  <2>3. t \in Consumers /\ pos[t] = head /\ pc'[t] = "dequeue_wait"
    BY DEF LoadsValid, GetLoadValid, TypeOK
  <2> QED  BY <1>a, <2>1, <2>2, <2>3, HeadStep
<1>8. CASE DequeueWait(t)
  <2> USE <1>8 DEF DequeueWait
  <2>1. TypeOK'  BY DEF TypeOK, Steps
  <2>2. OthersSame(t) /\ pc'[t] = "read"  BY DEF OthersSame, TypeOK
  <2>3. ThreadValid(t)'
    BY <2>2 DEF ThreadValid, ClaimsValid, ClaimValid, PutLoadValid, GetLoadValid, AccessValid
  <2> QED  BY <2>1, <2>2, <2>3, QuietStep
<1>9. CASE Read(t)
  <2>1. TypeOK'  BY <1>9, <1>a DEF Read, TypeOK, Steps
  <2>2. head' = head /\ log' = log  BY <1>9 DEF Read
  <2>3. pos[t] \in 0 .. head - 1  BY <1>9, <2>1, <1>a, ReadStep
  <2> QED  BY <1>9, <2>1, <2>2, <2>3, ReadStep
<1>10. CASE Release(t)
  <2>0. pos[t] + Size \in Nat  BY <1>a, SizeAssumption
  <2>1. TypeOK'  BY <1>10, <1>a, <2>0 DEF Release, TypeOK, Steps, OtherSteps
  <2> QED  BY <1>10, <2>1, ReleaseStep DEF Release
<1> QED
  BY <1>1, <1>2, <1>3, <1>4, <1>5, <1>6, <1>7, <1>8, <1>9, <1>10 DEF Consume

LEMMA NextInv == RingInv /\ [Next]_vars => RingInv'
<1> SUFFICES ASSUME RingInv, [Next]_vars PROVE RingInv'  OBVIOUS
<1>1. CASE Next  BY <1>1, ProduceInv, ConsumeInv DEF Next
<1>2. CASE UNCHANGED vars
  BY <1>2 DEF vars, RingInv, TypeOK, ClaimsValid, ClaimValid, ClaimsDistinct,
     LoadsValid, PutLoadValid, GetLoadValid, AccessByLock, AccessValid, FullNodes,
     DeliveredOnce
<1> QED  BY <1>1, <1>2

(* The invariant of the ring: types, distinct claims, and the lock of each *)
(* node as the right to access it.                                         *)
THEOREM RingInvariant == Spec => []RingInv
<1>1. Init => RingInv  BY InitInv
<1>2. RingInv /\ [Next]_vars => RingInv'  BY NextInv
<1> QED  BY <1>1, <1>2, PTL DEF Spec

(* The unsynchronized data copies of put, get, enqueue and dequeue never   *)
(* run in one node at once.                                                *)
THEOREM RingNodeExclusive == Spec => []NodeExclusive
<1>1. RingInv => NodeExclusive  BY OneAtNode DEF NodeExclusive
<1> QED  BY <1>1, RingInvariant, PTL

(* A consumer gets exactly the value of the producer that claimed the same *)
(* stamp.                                                                  *)
THEOREM RingValueByStamp == Spec => []ValueByStamp
<1>1. RingInv => ValueByStamp
  BY DEF RingInv, DeliveredOnce, ClaimsValid, ValueByStamp
<1> QED  BY <1>1, RingInvariant, PTL

(* The ring is a ticketed FIFO queue: the claim of a tail stamp appends,   *)
(* the claim of a head stamp draws a ticket, the copy out delivers.        *)
THEOREM RingRefinesFifo == Spec => RefinesFifo
<1>1. Init => Fifo!Init  BY DEF Init, Fifo!Init
<1>2. RingInv /\ [Next]_vars => [Fifo!Next]_(Fifo!vars)
  <2> SUFFICES ASSUME RingInv, [Next]_vars PROVE [Fifo!Next]_(Fifo!vars)
    OBVIOUS
  <2>1. CASE UNCHANGED vars  BY <2>1 DEF vars, Fifo!vars
  <2>2. ASSUME NEW t \in Threads, Produce(t) PROVE [Fifo!Next]_(Fifo!vars)
    BY <2>2, ProduceInv DEF Fifo!Next, Fifo!Append1, Fifo!vars
  <2>3. ASSUME NEW t \in Threads, Consume(t) PROVE [Fifo!Next]_(Fifo!vars)
    <3>1. CASE head' = head /\ recv' = recv
      BY <2>3, <3>1, ConsumeInv DEF Fifo!vars
    <3>2. CASE head' = head + 1 /\ recv' = recv
      BY <2>3, <3>2, ConsumeInv DEF Fifo!Next, Fifo!Draw
    <3>3. ASSUME NEW k \in 0 .. head - 1, head' = head,
                 k < Len(log) /\ \A d \in recv : d[1] # k,
                 recv' = recv \cup {<<k, log[k + 1]>>}
          PROVE  Fifo!Next
      <4>1. Fifo!Deliver(k)  BY <2>3, <3>3, ConsumeInv DEF Fifo!Deliver, RingInv, TypeOK
      <4> QED  BY <4>1 DEF Fifo!Next
    <3> QED  BY <2>3, <3>1, <3>2, <3>3, ConsumeInv
  <2> QED  BY <2>1, <2>2, <2>3 DEF Next
<1> QED  BY <1>1, <1>2, RingInvariant, PTL DEF Spec, RefinesFifo, Fifo!Spec

=============================================================================
