-------------------------------- MODULE Pool --------------------------------
(***************************************************************************)
(* Memory pools of items of one size, memory/pool.c.  An item is its       *)
(* address, the pair of its block and the offset there.  Free items are a  *)
(* stack linked through the items.  A local pool belongs to one thread, a  *)
(* global pool takes locks, a shared pool has a lock-free stack with a     *)
(* cache of free items in front of it for each thread.                     *)
(*                                                                         *)
(* The threads of Poppers allocate from a shared pool, all threads free to *)
(* it, and any thread may free what another one has allocated.             *)
(***************************************************************************)
EXTENDS Integers, SequencesExt

CONSTANTS
    Threads,       \* the threads of the domain, 1 .. n
    Poppers,       \* the threads that allocate from a shared pool
    Capacity,      \* block_capacity, items to a block
    ItemSize,      \* item_size
    MaxItems,      \* bound: items ever made
    FreeBatch,     \* MM_POOL_FREE_BATCH
    FreeThreshold  \* MM_POOL_FREE_THRESHOLD

VARIABLES
    kind,       \* local, shared or global, as prepared
    item_last,  \* items made
    blocks,     \* block_array_used and block_array_size
    head,       \* free_list.head.next
    next,       \* the link in each item
    used,       \* the items that are allocated
    cache,      \* the stack of each thread's free items
    full,       \* cache_full
    guard,      \* item_guard
    pc, item,   \* the step of each thread and its item or head variable
    link,       \* the head->next that it has read
    batch,      \* the items it moves to the shared list
    scan        \* the next thread whose guard it reads

vars == <<kind, item_last, blocks, head, next, used, cache, full, guard, pc, item, link, batch, scan>>
stack == <<head, next>>
local == <<cache, full>>
frame == <<pc, item, link, batch, scan>>

Null == <<-1, 0>>

(***************************************************************************)
(* The blocks.                                                             *)
(***************************************************************************)

idx2ptr(i) ==
    IF i >= item_last THEN Null ELSE <<i \div Capacity, (i % Capacity) * ItemSize>>

(* The block is found by the range of its addresses.                       *)
ptr2idx(p) == IF p[1] \in 0 .. blocks.used - 1 THEN p[1] * Capacity + p[2] \div ItemSize ELSE -1

pool_contains(p) == p[1] \in 0 .. blocks.used - 1

(* mm_pool_grow: the array of blocks doubles from 4 on                     *)
Grown ==
    [used |-> blocks.used + 1,
     size |-> IF blocks.used < blocks.size THEN blocks.size
              ELSE IF blocks.size > 0 THEN 2 * blocks.size ELSE 4]

(* mm_pool_alloc_new: the item that block_cur_ptr is at, in a new block if *)
(* it is at the end of the last one                                        *)
NewItem == <<item_last \div Capacity, (item_last % Capacity) * ItemSize>>
AtBlockEnd == item_last = blocks.used * Capacity

AllocNew ==
    /\ item_last < MaxItems
    /\ blocks' = IF AtBlockEnd THEN Grown ELSE blocks
    /\ item_last' = item_last + 1
    /\ used' = used \cup {NewItem}

(***************************************************************************)
(* Local and global pools.  The free lock and the grow lock of a global    *)
(* pool are taken one after the other.                                     *)
(***************************************************************************)

Pop(i) == head' = next[i] /\ UNCHANGED next
Push(i) == head' = i /\ next' = [next EXCEPT ![i] = head]

(* mm_pool_local_alloc *)
LocalAlloc ==
    /\ kind = "local"
    /\ IF head # Null
       THEN Pop(head) /\ used' = used \cup {head} /\ UNCHANGED <<item_last, blocks>>
       ELSE AllocNew /\ UNCHANGED stack
    /\ UNCHANGED <<local, guard, frame>>

(* mm_pool_local_free *)
LocalFree(i) ==
    /\ kind = "local"
    /\ i \in used /\ pool_contains(i)
    /\ Push(i)
    /\ used' = used \ {i}
    /\ UNCHANGED <<item_last, blocks, local, guard, frame>>

(* mm_pool_global_alloc: under free_lock, then under grow_lock             *)
GlobalAlloc(t) ==
    /\ kind = "global" /\ pc[t] = "idle"
    /\ IF head # Null
       THEN Pop(head) /\ used' = used \cup {head} /\ UNCHANGED pc
       ELSE pc' = [pc EXCEPT ![t] = "new"] /\ UNCHANGED <<stack, used>>
    /\ UNCHANGED <<item_last, blocks, local, guard, item, link, batch, scan>>

(* mm_pool_global_free *)
GlobalFree(t, i) ==
    /\ kind = "global" /\ pc[t] = "idle"
    /\ i \in used /\ pool_contains(i)
    /\ Push(i)
    /\ used' = used \ {i}
    /\ UNCHANGED <<item_last, blocks, local, guard, frame>>

(* The slow path of a global and of a shared pool, under the grow lock.    *)
New(t) ==
    /\ pc[t] = "new"
    /\ AllocNew
    /\ pc' = [pc EXCEPT ![t] = "idle"]
    /\ UNCHANGED <<stack, local, guard, item, link, batch, scan>>

(***************************************************************************)
(* mm_pool_shared_alloc_low.                                               *)
(***************************************************************************)

AllocCached(t) ==
    /\ kind = "shared" /\ pc[t] = "idle" /\ t \in Poppers
    /\ cache[t] # <<>>
    /\ used' = used \cup {cache[t][1]}
    /\ cache' = [cache EXCEPT ![t] = Tail(@)]
    /\ UNCHANGED <<item_last, blocks, stack, full, guard, frame>>

AllocLoad(t) ==
    /\ kind = "shared" /\ pc[t] = "idle" /\ t \in Poppers
    /\ cache[t] = <<>>
    /\ item' = [item EXCEPT ![t] = head]
    /\ pc' = [pc EXCEPT ![t] = IF head = Null THEN "new" ELSE "guard"]
    /\ UNCHANGED <<item_last, blocks, stack, used, local, guard, link, batch, scan>>

AllocGuard(t) ==
    /\ pc[t] = "guard"
    /\ guard' = [guard EXCEPT ![t] = item[t]]
    /\ pc' = [pc EXCEPT ![t] = "next"]
    /\ UNCHANGED <<item_last, blocks, stack, used, local, item, link, batch, scan>>

AllocNext(t) ==
    /\ pc[t] = "next"
    /\ link' = [link EXCEPT ![t] = next[item[t]]]
    /\ pc' = [pc EXCEPT ![t] = "cas"]
    /\ UNCHANGED <<item_last, blocks, stack, used, local, guard, item, batch, scan>>

(* On success the item is taken; else the head found is the next try.      *)
AllocCas(t) ==
    /\ pc[t] = "cas"
    /\ IF head = item[t]
       THEN /\ head' = link[t]
            /\ used' = used \cup {item[t]}
            /\ pc' = [pc EXCEPT ![t] = "done"]
            /\ UNCHANGED item
       ELSE /\ item' = [item EXCEPT ![t] = head]
            /\ pc' = [pc EXCEPT ![t] = IF head = Null THEN "done" ELSE "guard"]
            /\ UNCHANGED <<head, used>>
    /\ link' = [link EXCEPT ![t] = Null]
    /\ UNCHANGED <<item_last, blocks, next, local, guard, batch, scan>>

AllocDone(t) ==
    /\ pc[t] = "done"
    /\ guard' = [guard EXCEPT ![t] = Null]
    /\ pc' = [pc EXCEPT ![t] = IF item[t] = Null THEN "new" ELSE "idle"]
    /\ item' = [item EXCEPT ![t] = Null]
    /\ UNCHANGED <<item_last, blocks, stack, used, local, link, batch, scan>>

(***************************************************************************)
(* mm_pool_shared_free_low.                                                *)
(***************************************************************************)

(* When the cache of a thread gets full, and when it is so no longer.      *)
CacheFull(t) ==
    LET aver == item_last \div Cardinality(Threads) IN
    /\ Len(cache[t]) >= FreeThreshold
    /\ IF full[t] THEN Len(cache[t]) >= aver - aver \div 8
                  ELSE Len(cache[t]) > aver + aver \div 8

FreeCached(t, i) ==
    /\ kind = "shared" /\ pc[t] = "idle"
    /\ i \in used /\ pool_contains(i)
    /\ used' = used \ {i}
    /\ next' = [next EXCEPT ![i] = IF cache[t] = <<>> THEN Null ELSE cache[t][1]]
    /\ cache' = [cache EXCEPT ![t] = <<i>> \o @]
    /\ full' = [full EXCEPT ![t] = CacheFull(t)]
    /\ pc' = [pc EXCEPT ![t] = IF CacheFull(t) THEN "scan" ELSE "idle"]
    /\ UNCHANGED <<item_last, blocks, head, guard, item, link, batch, scan>>

(* The guards of all threads are read one by one.                          *)
ScanGuard(t) ==
    /\ pc[t] = "scan"
    /\ scan' = [scan EXCEPT ![t] = IF @ = Cardinality(Threads) THEN 1 ELSE @ + 1]
    /\ pc' = [pc EXCEPT ![t] = IF scan[t] = Cardinality(Threads) THEN "collect" ELSE "scan"]
    /\ UNCHANGED <<item_last, blocks, stack, used, local, guard, item, link, batch>>

(* A guarded item is to stay in the cache, but the test that finds one     *)
(* sets guarded to false, as it is already.  So what the scan has read     *)
(* does not matter, and the first items of the cache go.                   *)
Moved(t) == SubSeq(cache[t], 1, Min({FreeBatch, Len(cache[t])}))

Collect(t) ==
    /\ pc[t] = "collect"
    /\ batch' = [batch EXCEPT ![t] = Moved(t)]
    /\ cache' = [cache EXCEPT ![t] = SubSeq(@, Len(Moved(t)) + 1, Len(@))]
    /\ item' = [item EXCEPT ![t] = head]
    /\ pc' = [pc EXCEPT ![t] = "push"]
    /\ UNCHANGED <<item_last, blocks, stack, used, full, guard, link, scan>>

(* tail->next is set to the head last seen; the CAS follows.               *)
PushLink(t) ==
    /\ pc[t] = "push"
    /\ next' = [next EXCEPT ![Last(batch[t])] = item[t]]
    /\ pc' = [pc EXCEPT ![t] = "pushcas"]
    /\ UNCHANGED <<item_last, blocks, head, used, local, guard, item, link, batch, scan>>

PushCas(t) ==
    /\ pc[t] = "pushcas"
    /\ IF head = item[t]
       THEN /\ head' = batch[t][1]
            /\ batch' = [batch EXCEPT ![t] = <<>>]
            /\ item' = [item EXCEPT ![t] = Null]
            /\ pc' = [pc EXCEPT ![t] = "idle"]
       ELSE /\ item' = [item EXCEPT ![t] = head]
            /\ pc' = [pc EXCEPT ![t] = "push"]
            /\ UNCHANGED <<head, batch>>
    /\ UNCHANGED <<item_last, blocks, next, used, local, guard, link, scan>>

(***************************************************************************)
(* The specification.                                                      *)
(***************************************************************************)

Items == {<<i \div Capacity, (i % Capacity) * ItemSize>> : i \in 0 .. MaxItems - 1}

(* mm_pool_prepare_low *)
PrepareLow ==
    /\ item_last = 0
    /\ blocks = [used |-> 0, size |-> 0]
    /\ head = Null /\ next = [i \in Items |-> Null]
    /\ used = {}

(* mm_pool_prepare_shared: nothing cached and nothing guarded              *)
PrepareShared ==
    /\ cache = [t \in Threads |-> <<>>] /\ full = [t \in Threads |-> FALSE]
    /\ guard = [t \in Threads |-> Null]

(* The three ways to prepare a pool, and so to allocate and to free.       *)
Kinds == {"local", "shared", "global"}

Init ==
    /\ kind \in Kinds
    /\ PrepareLow /\ PrepareShared
    /\ pc = [t \in Threads |-> "idle"]
    /\ item = [t \in Threads |-> Null] /\ link = [t \in Threads |-> Null]
    /\ batch = [t \in Threads |-> <<>>] /\ scan = [t \in Threads |-> 1]

Step(t) ==
    \/ GlobalAlloc(t) \/ New(t)
    \/ AllocCached(t) \/ AllocLoad(t) \/ AllocGuard(t) \/ AllocNext(t) \/ AllocCas(t) \/ AllocDone(t)
    \/ ScanGuard(t) \/ Collect(t) \/ PushLink(t) \/ PushCas(t)
    \/ \E i \in used : GlobalFree(t, i) \/ FreeCached(t, i)

Next ==
    /\ LocalAlloc \/ (\E i \in used : LocalFree(i)) \/ (\E t \in Threads : Step(t))
    /\ UNCHANGED kind

Spec == Init /\ [][Next]_vars

(***************************************************************************)
(* Properties.                                                             *)
(***************************************************************************)

(* The items on the free list, as far as n links from its head.            *)
FreeList[n \in Nat] ==
    IF n = 0 THEN <<head>>
    ELSE LET l == FreeList[n - 1] IN
         IF Last(l) = Null THEN l ELSE Append(l, next[Last(l)])

Made == {idx2ptr(i) : i \in 0 .. item_last - 1}
Free == Range(FreeList[MaxItems]) \ {Null}
Cached == UNION {Range(cache[t]) : t \in Threads}
Moving == UNION {Range(batch[t]) : t \in Threads}

(* Every item is in one place: allocated to someone, on the free list, in  *)
(* the cache of one thread, or on the way from a cache to the list.  So no *)
(* item is given to two owners and none is lost, and the indexes of items  *)
(* and their addresses convert to each other.                              *)
ItemOwnedOnce ==
    /\ Last(FreeList[MaxItems]) = Null
    /\ Cardinality(used) + Cardinality(Free) + Cardinality(Cached) + Cardinality(Moving) = item_last
    /\ used \cup Free \cup Cached \cup Moving = Made
    /\ \A t \in Threads : Cardinality(Range(cache[t])) = Len(cache[t])
    /\ \A i \in 0 .. item_last - 1 : pool_contains(idx2ptr(i)) /\ ptr2idx(idx2ptr(i)) = i
    /\ blocks.used <= blocks.size

=============================================================================
