------------------------------ MODULE Memcache ------------------------------
(***************************************************************************)
(* One partition of the memcache table, memcache/action.c and table.c, and *)
(* the commands that use it, command.c, in the build with locks.  A step   *)
(* is one critical section of lookup_lock or freelist_lock, or one access  *)
(* made outside of them.                                                   *)
(***************************************************************************)
EXTENDS Integers, SequencesExt

CONSTANTS
    Clients, Keys,
    Hash,               \* hash of every key
    Requests, Workloads,\* commands, and sequences of them that come to the clients;
                        \* time passes at a "tick"
    Numbers, Text,      \* values of items: numbers and one that is not a number
    MaxEntries,         \* nentries_max
    Increment,          \* nentries_increment
    MaxBuckets,         \* nbuckets_max
    Stride,             \* MC_TABLE_STRIDE
    UsedMax,            \* MC_ENTRY_USED_MAX
    VolumeMax, Reserve, \* volume_max and the reserve kept by eviction
    Batch,              \* entries evicted at once
    None

VARIABLES
    part,               \* struct mc_tpart
    time, now,          \* mc_table.time and the real time it is loaded from
    striding, evicting, \* the two locks, with the progress of the task that holds one
    victims,            \* entries unlinked by the evicting task
    todo,               \* commands that have not come yet
    req,                \* per client: the command
    act,                \* per client: struct mc_action_storage
    pc,                 \* per client: next step
    freelist,           \* per client: entries unlinked by the action
    reply               \* per client: the answer

tasks == <<striding, evicting, victims>>
clocks == <<time, now>>
input == <<todo, req>>
vars == <<part, clocks, tasks, input, act, pc, freelist, reply>>

NULL == 0
Entries == 1 .. MaxEntries
Free == 0
UsedMin == 1
NotUsed == 255
Used(n) == n \in UsedMin .. UsedMax

Idle == [old |-> NULL, new |-> NULL, stamp |-> 0, value |-> None, exp |-> 0, then |-> "idle"]
Answer(res, value, s) == [res |-> res, value |-> value, stamp |-> s]
Plain(res) == Answer(res, None, 0)

ASSUME MemcacheAssumption ==
    /\ Hash \in [Keys -> Nat]
    /\ MaxEntries \in Nat /\ Increment \in 2 .. MaxEntries
    /\ Stride \in Nat \ {0} /\ UsedMax \in Nat \ {0} /\ Batch \in Nat \ {0}
    /\ Reserve <= VolumeMax
    /\ Workloads \subseteq Seq(Requests)

-----------------------------------------------------------------------------
(* Operations on the partition.                                            *)

UpperPow2(n) == CHOOSE m \in {2 ^ i : i \in 0 .. n} : m >= n /\ m < 2 * n
LowerPow2(n) == CHOOSE m \in {2 ^ i : i \in 0 .. n} : m <= n /\ n < 2 * m

(* mc_table_index: linear hashing. *)
Index(p, k) ==
    LET size == UpperPow2(p.nbuckets)
        i == Hash[k] % size
    IN IF i >= p.nbuckets THEN i - size \div 2 ELSE i

Buckets == 0 .. MaxBuckets + Cardinality(Clients) * Stride - 1
EntriesEnd(p) == p.nentries - p.nentries_void + 1

(* mc_table_init_part, with the first mc_table_expand. *)
Init ==
    /\ part = [ent |-> [e \in Entries |-> [state |-> Free, ref |-> 0, key |-> None,
                                           value |-> None, exp |-> 0, stamp |-> 0]],
               buckets |-> [b \in Buckets |-> <<>>], free_list |-> <<>>,
               nbuckets |-> Increment \div 2, nentries |-> Increment, nentries_void |-> Increment,
               clock_hand |-> 1, volume |-> 0, stamp |-> 1, flush_stamp |-> 0]
    /\ time = 0 /\ now = 0
    /\ striding = "no" /\ evicting = "no" /\ victims = <<>>
    /\ todo \in Workloads
    /\ req = [c \in Clients |-> None]
    /\ act = [c \in Clients |-> Idle]
    /\ pc = [c \in Clients |-> "idle"]
    /\ freelist = [c \in Clients |-> <<>>]
    /\ reply = [c \in Clients |-> None]

(* mc_action_is_expired_entry *)
Expired(p, e, t) ==
    \/ p.ent[e].exp # 0 /\ p.ent[e].exp <= t
    \/ p.ent[e].stamp < p.flush_stamp

(* Mutant: the increment is lost. *)
RefLost(p, e) == p

(* mc_action_ref_entry, mc_action_access_entry *)
Ref(p, e) == [p EXCEPT !.ent[e].ref = @ + 1]
Access(p, e) == [p EXCEPT !.ent[e].state = IF @ \in UsedMin .. UsedMax - 1 THEN @ + 1 ELSE @]

(* mc_action_unlink_entry, for several entries; an entry has the size 1. *)
Unlink(p, S) ==
    [p EXCEPT !.buckets = [b \in Buckets |-> SelectSeq(p.buckets[b], LAMBDA e : e \notin S)],
              !.ent = [e \in Entries |-> IF e \in S THEN [p.ent[e] EXCEPT !.state = NotUsed] ELSE p.ent[e]],
              !.volume = @ - Cardinality(S)]

(* mc_action_free_chunks and mc_action_free_entry *)
FreeEntry(p, e) ==
    [p EXCEPT !.ent[e] = [@ EXCEPT !.state = Free, !.value = None], !.free_list = <<e>> \o @]

(* mc_action_free_entries *)
FreeEntries(p, list) ==
    FoldLeft(LAMBDA q, e : LET r == [q EXCEPT !.ent[e].ref = @ - 1]
                           IN IF r.ent[e].ref = 0 THEN FreeEntry(r, e) ELSE r,
             p, list)

(* mc_action_bucket_insert *)
Insert(p, e, state) ==
    [p EXCEPT !.buckets[Index(p, p.ent[e].key)] = <<e>> \o @,
              !.ent[e] = [@ EXCEPT !.state = state, !.stamp = p.stamp],
              !.stamp = @ + 1, !.volume = @ + 1]

(* mc_action_bucket_lookup: the entry of the key, and the expired entries  *)
(* that are met and unlinked on the way to it.                             *)
Lookup(k) ==
    LET s == part.buckets[Index(part, k)]
        ok == {i \in DOMAIN s : ~Expired(part, s[i], time) /\ part.ent[s[i]].key = k}
        n == IF ok = {} THEN Len(s) + 1 ELSE Min(ok)
        gone == SelectSeq(SubSeq(s, 1, n - 1), LAMBDA e : Expired(part, e, time))
    IN [part |-> Unlink(part, ToSet(gone)), old |-> IF ok = {} THEN NULL ELSE s[n],
        list |-> Reverse(gone)]

(* mc_action_bucket_delete *)
Delete(k) ==
    LET r == Lookup(k)
    IN IF r.old = NULL THEN r
       ELSE [r EXCEPT !.part = Unlink(@, {r.old}), !.list = <<r.old>> \o @]

(* Mutant: the stamp is not compared. *)
MatchesAny(r, s) == r.old # NULL

(* mc_action_bucket_update *)
Matches(r, s) == r.old # NULL /\ s \in {0, part.ent[r.old].stamp}
Update(k, e, s) ==
    LET r == Lookup(k)
    IN IF ~Matches(r, s) THEN r
       ELSE [Delete(k) EXCEPT !.part = Access(Insert(@, e, part.ent[r.old].state), e)]

(* mc_action_find_victims: the clock hand goes round at most twice. *)
FindVictims(n) ==
    LET Used1(p, e) == [p EXCEPT !.ent[e].state = @ - 1]
        Step(s) ==
            LET wrap == s.part.clock_hand = EntriesEnd(s.part)
                hand == IF wrap THEN 1 ELSE s.part.clock_hand
                p == [s.part EXCEPT !.clock_hand = hand + 1]
                state == p.ent[hand].state
            IN IF Len(s.list) = n \/ (wrap /\ s.end) THEN s
               ELSE IF ~Used(state) THEN [s EXCEPT !.part = p, !.end = s.end \/ wrap]
               ELSE IF state = UsedMin \/ Expired(p, hand, now)
               THEN [part |-> Unlink(p, {hand}), list |-> <<hand>> \o s.list, end |-> s.end \/ wrap]
               ELSE [s EXCEPT !.part = Used1(p, hand), !.end = s.end \/ wrap]
        f[i \in Nat] == IF i = 0 THEN [part |-> part, list |-> <<>>, end |-> FALSE] ELSE Step(f[i - 1])
    IN f[2 * MaxEntries]

(* mc_table_expand *)
Expand(p) ==
    LET n == Min({p.nentries + Increment, MaxEntries}) - p.nentries
    IN [p EXCEPT !.nentries = @ + n, !.nentries_void = @ + n]

(* mc_table_check_size, mc_table_check_volume *)
CheckSize ==
    /\ part.nentries - Len(part.free_list) - part.nentries_void > 2 * part.nbuckets
    /\ part.nbuckets < MaxBuckets
CheckVolume(reserve) == part.volume + reserve > VolumeMax

-----------------------------------------------------------------------------
(* The steps of a client.                                                  *)

Goto(c, step) == pc' = [pc EXCEPT ![c] = step]
Answers(c, r) == reply' = [reply EXCEPT ![c] = r]

(* The end of a section under lookup_lock: mc_action_bucket_finish frees   *)
(* the unlinked entries under the other lock, if there are any.            *)
Finish(c, r, a, step) ==
    /\ part' = r.part
    /\ freelist' = [freelist EXCEPT ![c] = r.list]
    /\ act' = [act EXCEPT ![c] = [a EXCEPT !.then = step]]
    /\ Goto(c, IF r.list = <<>> THEN step ELSE "free")
    /\ UNCHANGED <<clocks, tasks, input>>

FreeList(c) ==
    /\ pc[c] = "free"
    /\ part' = FreeEntries(part, freelist[c])
    /\ freelist' = [freelist EXCEPT ![c] = <<>>]
    /\ Goto(c, act[c].then)
    /\ UNCHANGED <<clocks, tasks, input, act, reply>>

Stores == {"set", "add", "update", "replace"}

(* mc_entry_fix_exptime *)
FixExpTime(t) == IF t = 0 THEN 0 ELSE t + now

(* The stamp to match.  The parser does not set it for the ASCII replace   *)
(* command, so it is whatever the memory of the command contains.          *)
Stamps(a) == IF a.cmd = "replace" THEN {0, 1} ELSE {a.stamp}

(* The parser has read a command; it makes the entry to be stored. *)
Start(c) ==
    /\ pc[c] = "idle" /\ todo # <<>> /\ Head(todo).cmd # "tick"
    /\ LET a == Head(todo) IN
          /\ req' = [req EXCEPT ![c] = a]
          /\ \E s \in Stamps(a) :
                act' = [act EXCEPT ![c].stamp = s, ![c].exp = FixExpTime(a.exp)]
          /\ Goto(c, CASE a.cmd \in Stores -> "create"
                       [] a.cmd \in {"get", "touch", "incr"} -> "lookup"
                       [] OTHER -> a.cmd)
    /\ todo' = Tail(todo)
    /\ UNCHANGED <<part, clocks, tasks, freelist, reply>>

(* mc_action_create_low: a free entry, a new one, or victims to be freed. *)
Create(c) ==
    LET p == FreeEntries(part, freelist[c])
        q == IF p.nentries_void = 0 THEN Expand(p) ELSE p
        Made(r, e) ==
            /\ part' = [r EXCEPT !.ent[e] = [@ EXCEPT !.state = NotUsed, !.ref = 1, !.key = req[c].key,
                                                      !.value = req[c].value,
                                                      !.exp = IF req[c].cmd = "incr" THEN @ ELSE act[c].exp]]
            /\ act' = [act EXCEPT ![c].new = e]
            /\ Goto(c, "size")
    IN
    /\ pc[c] = "create"
    /\ CASE p.free_list # <<>> -> Made([p EXCEPT !.free_list = Tail(@)], Head(p.free_list))
         [] p.free_list = <<>> /\ q.nentries_void > 0 ->
                Made([q EXCEPT !.nentries_void = @ - 1], EntriesEnd(q))
         [] OTHER -> part' = p /\ Goto(c, "victims") /\ UNCHANGED act
    /\ freelist' = [freelist EXCEPT ![c] = <<>>]
    /\ UNCHANGED <<clocks, tasks, input, reply>>

Victims(c) ==
    /\ pc[c] = "victims"
    /\ LET r == FindVictims(1) IN part' = r.part /\ freelist' = [freelist EXCEPT ![c] = r.list]
    /\ Goto(c, "create")
    /\ UNCHANGED <<clocks, tasks, input, act, reply>>

(* mc_table_reserve_entries: a check, then an attempt at the lock. *)
Created(c) == IF req[c].cmd = "incr" THEN "alter" ELSE req[c].cmd

ReserveEntries(c) ==
    /\ pc[c] = "size"
    /\ Goto(c, IF striding = "no" /\ CheckSize THEN "stride" ELSE Created(c))
    /\ UNCHANGED <<part, clocks, tasks, input, act, freelist, reply>>

StartStriding(c) ==
    /\ pc[c] = "stride"
    /\ striding' = IF striding = "no" THEN "posted" ELSE striding
    /\ Goto(c, Created(c))
    /\ UNCHANGED <<part, clocks, evicting, victims, input, act, freelist, reply>>

(* mc_table_reserve_volume *)
ReserveVolume(c) ==
    /\ pc[c] = "volume"
    /\ Goto(c, IF evicting = "no" /\ CheckVolume(0) THEN "evict" ELSE "reply")
    /\ UNCHANGED <<part, clocks, tasks, input, act, freelist, reply>>

StartEvicting(c) ==
    /\ pc[c] = "evict"
    /\ evicting' = IF evicting = "no" THEN "check" ELSE evicting
    /\ Goto(c, "reply")
    /\ UNCHANGED <<part, clocks, striding, victims, input, act, freelist, reply>>

(* mc_action_upsert_low, mc_action_insert_low, mc_action_update_low *)
Linked(c) == [act[c] EXCEPT !.new = NULL]

UpsertLow(c) ==
    LET r == Delete(req[c].key) IN
    /\ pc[c] = "set"
    /\ Finish(c, [r EXCEPT !.part = Insert(@, act[c].new, UsedMin)], Linked(c), "volume")
    /\ Answers(c, Plain("stored"))

InsertLow(c) ==
    LET r == Lookup(req[c].key) IN
    /\ pc[c] = "add"
    /\ IF r.old = NULL
       THEN /\ Finish(c, [r EXCEPT !.part = Insert(@, act[c].new, UsedMin)], Linked(c), "volume")
            /\ Answers(c, Plain("stored"))
       ELSE Finish(c, r, act[c], "cancel") /\ Answers(c, Plain("not_stored"))

UpdateLow(c) ==
    LET r == Update(req[c].key, act[c].new, act[c].stamp) IN
    /\ pc[c] \in {"update", "replace"}
    /\ IF Matches(r, act[c].stamp)
       THEN Finish(c, r, Linked(c), "volume") /\ Answers(c, Plain("stored"))
       ELSE /\ Finish(c, r, act[c], "cancel")
            /\ Answers(c, Plain(CASE r.old = NULL -> "not_stored"
                                   [] req[c].cmd = "replace" -> "stored"
                                   [] OTHER -> "exists"))

(* mc_action_cancel_low *)
CancelLow(c) ==
    /\ pc[c] = "cancel"
    /\ part' = FreeEntry(part, act[c].new)
    /\ act' = [act EXCEPT ![c] = Linked(c)]
    /\ Goto(c, "reply")
    /\ UNCHANGED <<clocks, tasks, input, freelist, reply>>

DeleteLow(c) ==
    LET r == Delete(req[c].key) IN
    /\ pc[c] = "delete"
    /\ Finish(c, r, act[c], "reply")
    /\ Answers(c, Plain(IF r.old = NULL THEN "miss" ELSE "deleted"))

FlushLow(c) ==
    /\ pc[c] = "flush"
    /\ part' = [part EXCEPT !.flush_stamp = part.stamp]
    /\ Answers(c, Plain("ok"))
    /\ Goto(c, "reply")
    /\ UNCHANGED <<clocks, tasks, input, act, freelist>>

(* mc_action_lookup_low *)
LookupLow(c) ==
    LET r == Lookup(req[c].key)
        step == CASE req[c].cmd = "incr" -> "compute" [] req[c].cmd = "touch" -> "touch" [] OTHER -> "send"
    IN
    /\ pc[c] = "lookup"
    /\ IF r.old # NULL
       THEN /\ Finish(c, [r EXCEPT !.part = Access(Ref(@, r.old), r.old)],
                         [act[c] EXCEPT !.old = r.old], step)
            /\ UNCHANGED reply
       ELSE Finish(c, r, act[c], "reply") /\ Answers(c, Plain("miss"))

(* mc_action_finish_low: the atomic decrement, then the lock if it is the  *)
(* last reference.                                                         *)
Unref(c, p, a, step) ==
    /\ part' = [p EXCEPT !.ent[a.old].ref = @ - 1]
    /\ IF p.ent[a.old].ref = 1
       THEN Goto(c, "free_old") /\ act' = [act EXCEPT ![c] = [a EXCEPT !.then = step]]
       ELSE Goto(c, step) /\ act' = [act EXCEPT ![c] = [a EXCEPT !.old = NULL, !.then = step]]

FreeOld(c) ==
    /\ pc[c] = "free_old"
    /\ part' = FreeEntry(part, act[c].old)
    /\ act' = [act EXCEPT ![c].old = NULL]
    /\ Goto(c, act[c].then)
    /\ UNCHANGED <<clocks, tasks, input, freelist, reply>>

FinishLow(c) ==
    /\ pc[c] = "finish"
    /\ Unref(c, part, act[c], IF act[c].new = NULL THEN "reply" ELSE "cancel")
    /\ UNCHANGED <<clocks, tasks, input, freelist, reply>>

(* mc_command_transmit_entry: the value is not copied, it is written to    *)
(* the socket from the entry, which is released after that.                *)
Transmit(c) ==
    LET e == part.ent[act[c].old] IN
    /\ pc[c] = "send"
    /\ Answers(c, Answer("hit", e.value, e.stamp))
    /\ Goto(c, "finish")
    /\ UNCHANGED <<part, clocks, tasks, input, act, freelist>>

(* mc_command_execute_ascii_touch *)
Touch(c) ==
    /\ pc[c] = "touch"
    /\ part' = [part EXCEPT !.ent[act[c].old].exp = act[c].exp]
    /\ Answers(c, Plain("touched"))
    /\ Goto(c, "finish")
    /\ UNCHANGED <<clocks, tasks, input, act, freelist>>

(* mc_command_increment.  A command that has made an entry answers with    *)
(* its number even if the item is gone, or is a text, when it is stored.   *)
NotNumber(a) == IF a.new = NULL THEN Plain("error") ELSE Answer("hit", a.value, 0)

Compute(c) ==
    LET e == part.ent[act[c].old]
        a == act[c]
    IN
    /\ pc[c] = "compute"
    /\ IF e.value = Text
       THEN /\ Answers(c, NotNumber(a))
            /\ Goto(c, "finish")
            /\ UNCHANGED act
       ELSE /\ act' = [act EXCEPT ![c].value = e.value + 1, ![c].stamp = e.stamp]
            /\ Goto(c, IF a.new = NULL THEN "create" ELSE "alter")
            /\ UNCHANGED reply
    /\ UNCHANGED <<part, clocks, tasks, input, freelist>>

(* mc_action_alter_low: the old entry is released before the new one may   *)
(* take its place.                                                         *)
Alter(c) ==
    LET a == act[c] IN
    /\ pc[c] = "alter"
    /\ Unref(c, [part EXCEPT !.ent[a.new].value = a.value], [a EXCEPT !.exp = part.ent[a.old].exp], "alter_update")
    /\ UNCHANGED <<clocks, tasks, input, freelist, reply>>

AlterLow(c) ==
    LET r == Update(req[c].key, act[c].new, act[c].stamp)
        a == act[c]
    IN
    /\ pc[c] = "alter_update"
    /\ IF Matches(r, a.stamp)
       THEN /\ Finish(c, [r EXCEPT !.part.ent[a.new].exp = a.exp], Linked(c), "volume")
            /\ Answers(c, Answer("hit", a.value, 0))
       ELSE IF r.old # NULL
       THEN Finish(c, [r EXCEPT !.part = Ref(@, r.old)], [a EXCEPT !.old = r.old], "compute") /\ UNCHANGED reply
       ELSE /\ Finish(c, r, a, "cancel")
            /\ Answers(c, Answer("hit", a.value, 0))

Reply(c) ==
    /\ pc[c] = "reply"
    /\ req' = [req EXCEPT ![c] = None] /\ act' = [act EXCEPT ![c] = Idle]
    /\ Answers(c, None)
    /\ Goto(c, "idle")
    /\ UNCHANGED <<part, clocks, tasks, todo, freelist>>

-----------------------------------------------------------------------------
(* The tasks of the partition and the timer.                               *)

(* Mutant: the buckets are counted but not split. *)
SplitNot(p) == [p EXCEPT !.nbuckets = @ + Stride]

(* mc_action_stride_low: Stride buckets are split in two. *)
Split(p) ==
    LET used == p.nbuckets
        half == LowerPow2(used)
        Part(source, b) ==
            Reverse(SelectSeq(p.buckets[source], LAMBDA e : Hash[p.ent[e].key] % (2 * half) = b))
    IN [p EXCEPT !.nbuckets = used + Stride,
                 !.buckets = [b \in Buckets |->
                    IF b \in used .. used + Stride - 1 THEN Part(b - half, b)
                    ELSE IF b \in used - half .. used - half + Stride - 1 THEN Part(b, b)
                    ELSE p.buckets[b]]]

StrideLow ==
    /\ striding = "posted"
    /\ part' = Split(part)
    /\ striding' = "done"
    /\ UNCHANGED <<clocks, evicting, victims, input, act, pc, freelist, reply>>

StrideComplete ==
    /\ striding = "done"
    /\ striding' = "no"
    /\ UNCHANGED <<part, clocks, evicting, victims, input, act, pc, freelist, reply>>

(* mc_table_evict_routine: evict until the reserve is there. *)
EvictCheck ==
    /\ evicting = "check"
    /\ evicting' = IF CheckVolume(Reserve) THEN "evict" ELSE "done"
    /\ UNCHANGED <<part, clocks, striding, victims, input, act, pc, freelist, reply>>

EvictLow ==
    LET r == FindVictims(Batch) IN
    /\ evicting = "evict"
    /\ part' = r.part /\ victims' = r.list
    /\ evicting' = IF r.list = <<>> THEN "check" ELSE "free"
    /\ UNCHANGED <<clocks, striding, input, act, pc, freelist, reply>>

EvictFree ==
    /\ evicting = "free"
    /\ part' = FreeEntries(part, victims) /\ victims' = <<>>
    /\ evicting' = "check"
    /\ UNCHANGED <<clocks, striding, input, act, pc, freelist, reply>>

EvictComplete ==
    /\ evicting = "done"
    /\ evicting' = "no"
    /\ UNCHANGED <<part, clocks, striding, victims, input, act, pc, freelist, reply>>

(* Time passes; mc_table_exp_timer_routine loads it. *)
Tick ==
    /\ todo # <<>> /\ Head(todo).cmd = "tick"
    /\ now' = now + 1
    /\ todo' = Tail(todo)
    /\ UNCHANGED <<part, time, tasks, req, act, pc, freelist, reply>>

TimerRoutine ==
    /\ time # now
    /\ time' = now
    /\ UNCHANGED <<part, now, tasks, input, act, pc, freelist, reply>>

Client(c) ==
    \/ Start(c) \/ Create(c) \/ Victims(c) \/ ReserveEntries(c) \/ StartStriding(c)
    \/ UpsertLow(c) \/ InsertLow(c) \/ UpdateLow(c) \/ CancelLow(c) \/ DeleteLow(c) \/ FlushLow(c)
    \/ LookupLow(c) \/ FreeList(c) \/ FinishLow(c) \/ FreeOld(c)
    \/ Transmit(c) \/ Touch(c) \/ Compute(c) \/ Alter(c) \/ AlterLow(c)
    \/ ReserveVolume(c) \/ StartEvicting(c) \/ Reply(c)
Task == StrideLow \/ StrideComplete \/ EvictCheck \/ EvictLow \/ EvictFree \/ EvictComplete
Next == Tick \/ TimerRoutine \/ Task \/ \E c \in Clients : Client(c)
Spec == Init /\ [][Next]_vars

-----------------------------------------------------------------------------
Count(s, e) == Cardinality({i \in DOMAIN s : s[i] = e})
Places(e) == {b \in Buckets : Count(part.buckets[b], e) > 0}

(* Every entry in use is in the bucket of its key, under the number of     *)
(* buckets at hand, and in no other; no key has two entries; free entries  *)
(* are in the free list; the volume is that of the entries in buckets.     *)
TableInv ==
    /\ \A e \in 1 .. EntriesEnd(part) - 1 :
          LET x == part.ent[e] IN
          /\ Used(x.state) \/ x.state \in {Free, NotUsed}
          /\ Places(e) = IF Used(x.state) THEN {Index(part, x.key)} ELSE {}
          /\ Count(part.free_list, e) = IF x.state = Free THEN 1 ELSE 0
    /\ \A b \in Buckets : \A i, j \in DOMAIN part.buckets[b] :
          part.ent[part.buckets[b][i]].key = part.ent[part.buckets[b][j]].key => i = j
    /\ part.volume = Cardinality({e \in Entries : Used(part.ent[e].state)})

(* Who has a share in an entry: the table, lists of unlinked entries,      *)
(* clients that make it and clients that use it.                           *)
Shares(e) ==
    Cardinality(Places(e)) + Count(victims, e)
    + Cardinality({c \in Clients : Count(freelist[c], e) > 0})
    + Cardinality({c \in Clients : act[c].new = e})
    + Cardinality({c \in Clients : act[c].old = e /\ pc[c] # "free_old"})

(* The reference count of an entry is the number of its holders, and no    *)
(* one has a free entry: nothing is freed under the hands of a client, and *)
(* nothing is lost.                                                        *)
RefsExact ==
    \A e \in 1 .. EntriesEnd(part) - 1 :
        IF part.ent[e].state = Free THEN Shares(e) = 0 ELSE part.ent[e].ref = Shares(e)

(* The table is an atomic cache.  A value on its way to a client is read   *)
(* from the entry that the client holds.                                   *)
Item(k) ==
    LET live == {e \in Entries : /\ Used(part.ent[e].state) /\ part.ent[e].key = k
                                 /\ part.ent[e].stamp >= part.flush_stamp}
    IN IF live = {} THEN None
       ELSE LET e == CHOOSE e \in live : TRUE
            IN [value |-> part.ent[e].value, stamp |-> part.ent[e].stamp]

Ret(c) ==
    LET a == act[c]
        e == part.ent[a.old]
    IN CASE reply[c] # None \/ a.old = NULL -> reply[c]
         [] req[c].cmd = "get" -> Answer("hit", e.value, e.stamp)
         [] req[c].cmd = "touch" -> Plain("touched")
         [] e.value = Text -> NotNumber(a)
         [] OTHER -> None

Atomic == INSTANCE AtomicCache WITH
    cache <- [k \in Keys |-> Item(k)], stamp <- part.stamp,
    call <- req, ret <- [c \in Clients |-> Ret(c)]
RefinesAtomic == Atomic!Spec
=============================================================================
