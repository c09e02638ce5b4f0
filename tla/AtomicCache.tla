----------------------------- MODULE AtomicCache -----------------------------
(***************************************************************************)
(* What the memcache table promises its clients: every command takes its   *)
(* effect and its answer at one instant.  Being a cache it may forget any  *)
(* item at any time, but it never answers with one that it has forgotten,  *)
(* and it never brings one back.                                           *)
(***************************************************************************)
EXTENDS Integers

CONSTANTS Clients, Keys, Requests, Numbers, Text, None
VARIABLES
    cache,          \* per key: the value and the stamp of its item, or None
    stamp,          \* stamp of the next item
    call, ret       \* per client: the command, its answer

vars == <<cache, stamp, call, ret>>

Answer(res, value, s) == [res |-> res, value |-> value, stamp |-> s]
Plain(res) == Answer(res, None, 0)

Init ==
    /\ cache = [k \in Keys |-> None]
    /\ stamp = 1
    /\ call = [c \in Clients |-> None] /\ ret = [c \in Clients |-> None]

(* What a command may do with the item of its key: the answer, and the     *)
(* item it leaves.                                                         *)
Keep(item, answer) == [ret |-> answer, item |-> item]
Store(value, answer) == [ret |-> answer, item |-> [value |-> value, stamp |-> stamp]]

(* A number that an item had at an earlier time. *)
Late == {Answer("hit", n, 0) : n \in Numbers}

Outcomes(a, item) ==
    CASE a.cmd = "get" ->
            {Keep(item, IF item = None THEN Plain("miss") ELSE Answer("hit", item.value, item.stamp))}
      [] a.cmd = "touch" ->
            {Keep(item, Plain(IF item = None THEN "miss" ELSE "touched"))}
      [] a.cmd = "set" -> {Store(a.value, Plain("stored"))}
      [] a.cmd = "add" ->
            {IF item = None THEN Store(a.value, Plain("stored")) ELSE Keep(item, Plain("not_stored"))}
      [] a.cmd = "update" ->
            {IF item = None THEN Keep(item, Plain("not_stored"))
             ELSE IF a.stamp \in {0, item.stamp} THEN Store(a.value, Plain("stored"))
             ELSE Keep(item, Plain("exists"))}
      [] a.cmd = "replace" ->
            IF item = None THEN {Keep(item, Plain("not_stored"))}
            ELSE {Store(a.value, Plain("stored")), Keep(item, Plain("stored"))}
      [] a.cmd = "delete" ->
            {Keep(None, Plain(IF item = None THEN "miss" ELSE "deleted"))}
      [] a.cmd = "incr" ->
            IF item = None THEN {Keep(item, r) : r \in {Plain("miss")} \cup Late}
            ELSE IF item.value = Text THEN {Keep(item, r) : r \in {Plain("error")} \cup Late}
            ELSE {Store(item.value + 1, Answer("hit", item.value + 1, 0))}

-----------------------------------------------------------------------------
Without(K) == [k \in Keys |-> IF k \in K THEN None ELSE cache[k]]

Call(c) ==
    /\ call[c] = None
    /\ \E a \in Requests : call' = [call EXCEPT ![c] = a]
    /\ UNCHANGED <<cache, stamp, ret>>

Forget ==
    /\ \E K \in SUBSET Keys : cache' = Without(K)
    /\ UNCHANGED <<stamp, call, ret>>

Apply(c) ==
    /\ call[c] # None /\ call[c].cmd # "flush" /\ ret[c] = None
    /\ \E K \in SUBSET Keys : \E o \in Outcomes(call[c], Without(K)[call[c].key]) :
          /\ ret' = [ret EXCEPT ![c] = o.ret]
          /\ cache' = [Without(K) EXCEPT ![call[c].key] = o.item]
          /\ stamp' = IF o.item # None /\ o.item # Without(K)[call[c].key] THEN stamp + 1 ELSE stamp
    /\ UNCHANGED call

Flush(c) ==
    /\ call[c] # None /\ call[c].cmd = "flush" /\ ret[c] = None
    /\ cache' = Without(Keys)
    /\ ret' = [ret EXCEPT ![c] = Plain("ok")]
    /\ UNCHANGED <<stamp, call>>

Return(c) ==
    /\ ret[c] # None
    /\ call' = [call EXCEPT ![c] = None] /\ ret' = [ret EXCEPT ![c] = None]
    /\ UNCHANGED <<cache, stamp>>

Next == Forget \/ \E c \in Clients : Call(c) \/ Apply(c) \/ Flush(c) \/ Return(c)
Spec == Init /\ [][Next]_vars
==============================================================================
