----------------------------- MODULE MCMemcache -----------------------------
(* Instances of Memcache for TLC.  A workload stores an item and goes on   *)
(* with commands that count, that compare, or that expire.                 *)
EXTENDS Memcache, TLC

CONSTANTS k1, k2
MCHash == k1 :> 0 @@ k2 :> 1
Symmetry == Permutations(Clients)

Req(cmd, k, v, t, s) == [cmd |-> cmd, key |-> k, value |-> v, exp |-> t, stamp |-> s]
Set(k, v, t) == Req("set", k, v, t, 0)
Cas(k, s) == Req("update", k, 0, 0, s)
Do(cmd) == Req(cmd, k1, 0, 0, 0)

Counting == {Do("incr"), Do("get"), Do("delete"), Set(k1, Text, 0)}
Comparing == {Cas(k1, 0), Cas(k1, 1), Do("replace"), Do("add")}
Expiring == {Do("touch"), Do("get"), Do("add"), Do("flush"), Do("tick")}
Storing == {Set(k1, 0, 0), Set(k2, 0, 0), Do("get")}

After(first, S, n) == {<<first>> \o s : s \in [1 .. n -> S]}
MCRequests == Counting \cup Comparing \cup Expiring \cup Storing \cup {Set(k1, 0, 1)}
MCWorkloads ==
    After(Set(k1, 0, 0), Counting, 3) \cup After(Set(k1, 0, 0), Comparing, 3)
    \cup After(Set(k1, 0, 1), Expiring, 3) \cup After(Set(k1, 0, 0), Storing, 3)

=============================================================================
