------------------------------ MODULE Combiner ------------------------------
(***************************************************************************)
(* The flat combining executor of base/combiner.c.  A thread takes a stamp *)
(* in the ring of requests, fills its node and waits; the thread whose     *)
(* stamp is at the head of the ring executes its own request and those     *)
(* that follow, up to the handoff limit, and then moves the head.          *)
(*                                                                         *)
(* A request is named by the thread that made it.  accepted, executed and  *)
(* served are history variables: the requests by their stamps, the         *)
(* requests in the order of execution, and the number of finished requests *)
(* of every thread; calls counts the calls a thread has made.              *)
(***************************************************************************)
EXTENDS Integers, Sequences, FiniteSets

CONSTANTS
    Callers,        \* threads that call mm_combiner_execute
    Size,           \* number of nodes
    Handoff,        \* requests a thread executes at most in a row
    MaxStamp        \* bound on the stamps handed out

ASSUME CombinerAssumption ==
    /\ Size \in Nat /\ Size >= 4
    /\ Handoff \in Nat /\ Handoff >= 4
    /\ MaxStamp \in Nat

VARIABLES
    head, tail,     \* base->head, base->tail
    lock, data,     \* ring[i].lock, ring[i].data
    pc, pos, cur,   \* per thread: next step, its stamp, the stamp it executes
    req,            \* per thread: the request read from a node
    accepted, executed, calls, served

vars == <<head, tail, lock, data, pc, pos, cur, req, accepted, executed, calls, served>>
history == <<accepted, executed, calls, served>>

None == "none"
Slots == 0 .. Size - 1
Slot(stamp) == stamp % Size

Steps == {"idle", "slot_wait", "put", "publish", "load_head", "load_lock",
          "turn", "take", "execute", "handoff"}

(* mm_combiner_prepare *)
Init ==
    /\ head = 0 /\ tail = 0
    /\ lock = [i \in Slots |-> i]
    /\ data = [i \in Slots |-> None]
    /\ pc = [t \in Callers |-> "idle"]
    /\ pos = [t \in Callers |-> 0]
    /\ cur = [t \in Callers |-> 0]
    /\ req = [t \in Callers |-> None]
    /\ accepted = <<>> /\ executed = <<>>
    /\ calls = [t \in Callers |-> 0]
    /\ served = [t \in Callers |-> 0]

Goto(t, step) == pc' = [pc EXCEPT ![t] = step]

(* mm_ring_atomic_fai(&base->tail) *)
Enter(t) ==
    /\ pc[t] = "idle" /\ tail < MaxStamp
    /\ pos' = [pos EXCEPT ![t] = tail]
    /\ tail' = tail + 1
    /\ accepted' = Append(accepted, t)
    /\ calls' = [calls EXCEPT ![t] = @ + 1]
    /\ Goto(t, "slot_wait")
    /\ UNCHANGED <<head, lock, data, cur, req, executed, served>>

(* The wait for the slot to become ready to accept a request.              *)
SlotWait(t) ==
    /\ pc[t] = "slot_wait"
    /\ lock[Slot(pos[t])] = pos[t]
    /\ Goto(t, "put")
    /\ UNCHANGED <<head, tail, lock, data, pos, cur, req, history>>

Put(t) ==
    /\ pc[t] = "put"
    /\ data' = [data EXCEPT ![Slot(pos[t])] = t]
    /\ Goto(t, "publish")
    /\ UNCHANGED <<head, tail, lock, pos, cur, req, history>>

Publish(t) ==
    /\ pc[t] = "publish"
    /\ lock' = [lock EXCEPT ![Slot(pos[t])] = pos[t] + 1]
    /\ Goto(t, "load_head")
    /\ UNCHANGED <<head, tail, data, pos, cur, req, history>>

(* head != tail is the condition of the waiting loop; when the head has    *)
(* come to the thread's own stamp it is its turn to execute requests.      *)
LoadHead(t) ==
    /\ pc[t] = "load_head"
    /\ Goto(t, IF head = pos[t] THEN "turn" ELSE "load_lock")
    /\ cur' = [cur EXCEPT ![t] = head]
    /\ UNCHANGED <<head, tail, lock, data, pos, req, history>>

(* Mutant: the caller leaves after its first look at the head.             *)
LoadLockOnce(t) ==
    /\ pc[t] = "load_lock"
    /\ Goto(t, "idle")
    /\ UNCHANGED <<head, tail, lock, data, pos, cur, req, history>>

(* goto leave when the lock has been moved on by the combining thread.     *)
LoadLock(t) ==
    /\ pc[t] = "load_lock"
    /\ Goto(t, IF lock[Slot(pos[t])] = pos[t] + 1 THEN "load_head" ELSE "idle")
    /\ UNCHANGED <<head, tail, lock, data, pos, cur, req, history>>

(* Mutant: requests are taken up to the limit, pending or not.             *)
(* The check for another pending request and the read of it.               *)
Turn(t) ==
    /\ pc[t] = "turn"
    /\ LET i == Slot(cur[t]) IN
       IF cur[t] # pos[t] + Handoff /\ lock[i] = cur[t] + 1
       THEN Goto(t, "take") /\ req' = [req EXCEPT ![t] = data[i]]
       ELSE Goto(t, "handoff") /\ UNCHANGED req
    /\ UNCHANGED <<head, tail, lock, data, pos, cur, history>>

(* The node is released before its request is executed.                    *)
Take(t) ==
    /\ pc[t] = "take"
    /\ lock' = [lock EXCEPT ![Slot(cur[t])] = cur[t] + Size]
    /\ Goto(t, "execute")
    /\ UNCHANGED <<head, tail, data, pos, cur, req, history>>

Execute(t) ==
    /\ pc[t] = "execute"
    /\ executed' = Append(executed, req[t])
    /\ served' = [served EXCEPT ![req[t]] = @ + 1]
    /\ cur' = [cur EXCEPT ![t] = @ + 1]
    /\ Goto(t, "turn")
    /\ UNCHANGED <<head, tail, lock, data, pos, req, accepted, calls>>

(* Mutant: the head is moved past a request that was not pending yet.      *)
MoveHeadPast(t) ==
    /\ pc[t] = "handoff"
    /\ head' = cur[t] + 1
    /\ Goto(t, "idle")
    /\ UNCHANGED <<tail, lock, data, pos, cur, req, history>>

(* mm_memory_store(base->head, head) *)
MoveHead(t) ==
    /\ pc[t] = "handoff"
    /\ head' = cur[t]
    /\ Goto(t, "idle")
    /\ UNCHANGED <<tail, lock, data, pos, cur, req, history>>

Step(t) ==
    \/ SlotWait(t) \/ Put(t) \/ Publish(t) \/ LoadHead(t) \/ LoadLock(t)
    \/ Turn(t) \/ Take(t) \/ Execute(t) \/ MoveHead(t)

Next == \E t \in Callers : Enter(t) \/ Step(t)

Spec == Init /\ [][Next]_vars

(* A thread inside the call keeps running; new calls are not obligatory.   *)
FairSpec == Spec /\ \A t \in Callers : WF_vars(Step(t))

-----------------------------------------------------------------------------
TypeOK ==
    /\ head \in Nat /\ tail \in Nat
    /\ lock \in [Slots -> Nat]
    /\ data \in [Slots -> Callers \cup {None}]
    /\ pc \in [Callers -> Steps]
    /\ pos \in [Callers -> Nat] /\ cur \in [Callers -> Nat]
    /\ req \in [Callers -> Callers \cup {None}]
    /\ accepted \in Seq(Callers) /\ executed \in Seq(Callers)
    /\ calls \in [Callers -> Nat] /\ served \in [Callers -> Nat]

Executing == {t \in Callers : pc[t] \in {"turn", "take", "execute", "handoff"}}

(* At most one thread executes requests, and the head it found is the one  *)
(* it will replace: routines run under mutual exclusion.                   *)
OneCombiner ==
    /\ Cardinality(Executing) <= 1
    /\ \A t \in Executing : head = pos[t]

(* A caller never leaves without its request being taken over for          *)
(* execution, and no request is executed twice: when it is back the        *)
(* request has been executed or is the one in execution right now.         *)
LeavesTaken ==
    \A t \in Callers : pc[t] = "idle" =>
        \/ served[t] = calls[t]
        \/ /\ served[t] = calls[t] - 1
           /\ \E u \in Callers : pc[u] = "execute" /\ req[u] = t

(* Fields have their types, there is one combiner at a time, and nobody    *)
(* leaves mm_combiner_execute before a combiner has taken its request.     *)
CombinerInv == TypeOK /\ OneCombiner /\ LeavesTaken

(* The comment "Wait until the request is executed." of the waiting loop:  *)
(* when the call returns the request has been executed.                    *)
LeavesExecuted ==
    \A t \in Callers : pc[t] = "idle" => served[t] = calls[t]

(* The combiner executes requests one at a time, in the order of the       *)
(* stamps, each once.                                                      *)
Serial == INSTANCE SerialExecutor WITH
    Requests <- Callers,
    running <- Cardinality({t \in Callers : pc[t] = "execute"})
RefinesSerial == Serial!Spec

(* Every call returns and every request is executed, though the combining  *)
(* thread stops at the handoff limit or at a node not published yet.       *)
CallsReturn ==
    \A t \in Callers : pc[t] # "idle" ~> (pc[t] = "idle" /\ served[t] = calls[t])

=============================================================================
