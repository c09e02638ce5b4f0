--------------------------- MODULE MemcacheCommand ---------------------------
(***************************************************************************)
(* The commands of memcache/command.c: what each one does to the table,    *)
(* which answer it writes, and the loops of append, prepend, increment and *)
(* decrement that repeat until their entry gets in.  Connections execute   *)
(* commands on one key.  The actions on the table are atomic here; module  *)
(* Memcache has their inside.                                              *)
(***************************************************************************)
EXTENDS Integers, Sequences, SequencesExt, FiniteSets

CONSTANTS
    Conns,      \* connections
    Workloads,  \* the commands the connections send
    Entries,    \* entries of the table
    NumMod      \* 2^64 in the code: numbers wrap around

VARIABLES
    table,      \* the entries, the current one of the key, stamps
    todo,       \* commands parsed and not yet executed
    pc,         \* where the execution of the first of them is
    act,        \* struct mc_action_storage and the locals of the loops
    said,       \* what the command has answered
    log,        \* ghost: what was done to the item, in order
    did,        \* ghost: what the command has done
    dangling    \* ghost: a command has used an entry that had been released

cvars == <<table, todo, pc, act, said, log, did, dangling>>

(* A value is a sequence of characters: digits, and Letter. *)
Letter == 10
NULL == 0
Idle == [old |-> NULL, keep |-> NULL, new |-> NULL, stamp |-> 0, num |-> 0, again |-> FALSE, bad |-> FALSE]
Silent == "-"

IsNum(v) == v # <<>> /\ \A i \in DOMAIN v : v[i] # Letter
(* mc_entry_getnum and mc_entry_setnum *)
GetNum(v) == FoldLeft(LAMBDA n, d : (n * 10 + d) % NumMod, 0, v)
SetNum(n) == IF n < 10 THEN <<n>> ELSE <<n \div 10, n % 10>>

(* What a command makes of a value. *)
Concat(v, arg) == v \o arg
Prepend(v, arg) == arg \o v
Increment(v, n) == SetNum((GetNum(v) + n) % NumMod)
Decrement(v, n) == SetNum(IF GetNum(v) > n THEN GetNum(v) - n ELSE 0)
Combine(cmd, v) ==
    CASE cmd.op = "append"  -> Concat(v, cmd.arg)
      [] cmd.op = "prepend" -> Prepend(v, cmd.arg)
      [] cmd.op = "incr"    -> Increment(v, cmd.delta)
      [] cmd.op = "decr"    -> Decrement(v, cmd.delta)

-----------------------------------------------------------------------------
(* The table: the atomic effect of the actions of action.c.                *)

Drop(t, e) ==
    LET n == t.ent[e].ref - 1
    IN [t EXCEPT !.ent[e] = [@ EXCEPT !.ref = n, !.free = (n = 0)]]
Ref(t, e) == [t EXCEPT !.ent[e].ref = @ + 1]
Unlink(t) == Drop([t EXCEPT !.cur = NULL], t.cur)
(* mc_action_bucket_insert *)
Link(t, e) == [t EXCEPT !.cur = e, !.ent[e].stamp = t.clock, !.clock = @ + 1]
(* mc_action_bucket_lookup unlinks an entry that was flushed. *)
Found(t) == IF t.cur # NULL /\ t.ent[t.cur].stamp < t.flush THEN Unlink(t) ELSE t
Replace(t, e) == Link(IF t.cur = NULL THEN t ELSE Unlink(t), e)
Make(t, e, v) == [t EXCEPT !.ent[e] = [@ EXCEPT !.free = FALSE, !.val = v, !.ref = 1]]
Cancel(t, e) == [t EXCEPT !.ent[e].free = TRUE]
(* An entry with another stamp matches too. *)
MatchAny(t, stamp) == t.cur # NULL
(* mc_action_bucket_update *)
Match(t, stamp) == t.cur # NULL /\ stamp \in {0, t.ent[t.cur].stamp}

Init ==
    /\ table = [ent |-> [e \in Entries |-> [free |-> TRUE, val |-> <<>>, stamp |-> 0, ref |-> 0]],
                cur |-> NULL, clock |-> 1, flush |-> 0]
    /\ todo \in Workloads
    /\ pc = [c \in Conns |-> "idle"] /\ act = [c \in Conns |-> Idle]
    /\ said = [c \in Conns |-> Silent] /\ did = [c \in Conns |-> "nothing"]
    /\ log = <<>> /\ dangling = FALSE

-----------------------------------------------------------------------------
(* Answers: did is "done", or why nothing was done: "missing", "exists",   *)
(* "text".                                                                 *)

(* The binary commands: a quiet one says nothing of a success, and a quiet *)
(* get nothing of a miss.                                                  *)
Loud(cmd, answer) == IF cmd.quiet THEN Silent ELSE answer

BinaryGet(cmd, what) == IF what = "done" THEN "value" ELSE Loud(cmd, "not_found")
BinaryStore(cmd, what) ==
    CASE what = "done" -> Loud(cmd, "stamp")
      [] what = "exists" -> "key_exists"
      [] what = "missing" -> IF cmd.op = "set" THEN "item_not_stored" ELSE "not_found"
BinaryConcat(cmd, what) == IF what = "done" THEN Loud(cmd, "stamp") ELSE "not_found"
BinaryDelta(cmd, what) ==
    CASE what = "done" -> Loud(cmd, "number")
      [] what = "text" -> "non_numeric"
      [] what = "missing" -> "not_found"
BinaryDelete(cmd, what) == IF what = "done" THEN Loud(cmd, "stamp") ELSE "not_found"
BinaryCustom(cmd, what) ==
    CASE what = "invalid" -> "invalid_arguments"
      [] cmd.op = "version" -> "string"
      [] OTHER -> Loud(cmd, "status")

BinaryAnswer(cmd, what) ==
    CASE cmd.op \in {"get", "getk"} -> BinaryGet(cmd, what)
      [] cmd.op \in {"set", "add", "replace"} -> BinaryStore(cmd, what)
      [] cmd.op \in {"append", "prepend"} -> BinaryConcat(cmd, what)
      [] cmd.op \in {"incr", "decr"} -> BinaryDelta(cmd, what)
      [] cmd.op = "delete" -> BinaryDelete(cmd, what)
      [] OTHER -> BinaryCustom(cmd, what)

(* The ASCII commands.  Four of them answer just when they are told not to. *)
Noreply(cmd, answer) == IF cmd.quiet THEN answer ELSE Silent

AsciiGet(cmd, what) ==
    IF what = "done" THEN (IF cmd.last THEN "value_end" ELSE "value")
    ELSE IF cmd.last THEN "END" ELSE Silent
AsciiStore(cmd, what) ==
    Loud(cmd, IF what = "done" \/ (cmd.op = "replace" /\ what = "exists") THEN "STORED" ELSE "NOT_STORED")
AsciiCas(cmd, what) ==
    Noreply(cmd, IF what = "done" THEN "STORED" ELSE IF what = "exists" THEN "EXISTS" ELSE "NOT_STORED")
AsciiConcat(cmd, what) == Loud(cmd, IF what = "done" THEN "STORED" ELSE "NOT_STORED")
AsciiDelta(cmd, what) ==
    Noreply(cmd, IF what = "done" THEN "number" ELSE IF what = "text" THEN "CLIENT_ERROR" ELSE "NOT_FOUND")
AsciiDelete(cmd, what) == Loud(cmd, IF what = "done" THEN "DELETED" ELSE "NOT_FOUND")
AsciiTouch(cmd, what) == Noreply(cmd, IF what = "done" THEN "TOUCHED" ELSE "NOT_FOUND")
AsciiCustom(cmd, what) ==
    CASE cmd.op \in {"flush", "verbosity"} -> Loud(cmd, "OK")
      [] cmd.op = "slabs"   -> "NOT_IMPLEMENTED"
      [] cmd.op = "stats"   -> IF what = "done" THEN "STAT" ELSE "NOT_IMPLEMENTED"
      [] cmd.op = "version" -> "VERSION"
      [] cmd.op = "quit"    -> Silent
      [] OTHER              -> "ERROR"

AsciiAnswer(cmd, what) ==
    CASE cmd.op = "get" -> AsciiGet(cmd, what)
      [] cmd.op \in {"set", "add", "replace"} -> AsciiStore(cmd, what)
      [] cmd.op = "cas" -> AsciiCas(cmd, what)
      [] cmd.op \in {"append", "prepend"} -> AsciiConcat(cmd, what)
      [] cmd.op \in {"incr", "decr"} -> AsciiDelta(cmd, what)
      [] cmd.op = "delete" -> AsciiDelete(cmd, what)
      [] cmd.op = "touch" -> AsciiTouch(cmd, what)
      [] OTHER -> AsciiCustom(cmd, what)

Answer(cmd, what) == IF cmd.proto = "binary" THEN BinaryAnswer(cmd, what) ELSE AsciiAnswer(cmd, what)

(* The command of a connection ends: the answer and the ghosts. *)
Ends(c, answer, what, t) ==
    /\ table' = t
    /\ said' = [said EXCEPT ![c] = answer]
    /\ did' = [did EXCEPT ![c] = what]
    /\ log' = IF what = "done" /\ Head(todo[c]).op \notin {"get", "getk"} THEN Append(log, Head(todo[c])) ELSE log
    /\ pc' = [pc EXCEPT ![c] = "end"]
    /\ act' = [act EXCEPT ![c] = [Idle EXCEPT !.again = act[c].again]]
    /\ UNCHANGED <<todo, dangling>>

Returns(c, what, t) == Ends(c, Answer(Head(todo[c]), what), what, t)

-----------------------------------------------------------------------------
(* The commands that take one action.                                      *)

Starts(c, ops) == pc[c] = "idle" /\ todo[c] # <<>> /\ Head(todo[c]).op \in ops
(* The free list is taken as ordered. *)
FreeEntries == {e \in Entries : /\ table.ent[e].free
                                /\ \A f \in Entries : table.ent[f].free => e <= f}

(* mc_command_execute_*_get: the entry is released when it was sent. *)
Get(c) ==
    /\ Starts(c, {"get", "getk"})
    /\ LET t == Found(table) IN Returns(c, IF t.cur = NULL THEN "missing" ELSE "done", t)

(* mc_command_execute_*_set, _replace and _cas: with a stamp it is an update. *)
Set(c) ==
    /\ Starts(c, {"set", "replace", "cas"})
    /\ \E e \in FreeEntries :
        LET cmd == Head(todo[c])
            t == Make(Found(table), e, cmd.arg)
        IN IF cmd.op = "set" /\ cmd.stamp = 0 THEN Returns(c, "done", Replace(t, e))
           ELSE IF Match(t, cmd.stamp) THEN Returns(c, "done", Replace(t, e))
           ELSE Returns(c, IF t.cur = NULL THEN "missing" ELSE "exists", Cancel(t, e))

Add(c) ==
    /\ Starts(c, {"add"})
    /\ \E e \in FreeEntries :
        LET t == Make(Found(table), e, Head(todo[c]).arg)
        IN IF t.cur = NULL THEN Returns(c, "done", Link(t, e)) ELSE Returns(c, "exists", Cancel(t, e))

Delete(c) ==
    /\ Starts(c, {"delete"})
    /\ LET t == Found(table)
       IN IF t.cur = NULL THEN Returns(c, "missing", t) ELSE Returns(c, "done", Unlink(t))

(* The expiration time is left out, and with it what a touch changes. *)
Touch(c) ==
    /\ Starts(c, {"touch"})
    /\ LET t == Found(table) IN Returns(c, IF t.cur = NULL THEN "missing" ELSE "done", t)

(* mc_command_flush: everything with an older stamp is gone. *)
Flush(c) ==
    /\ Starts(c, {"flush"})
    /\ Returns(c, "done", [table EXCEPT !.flush = table.clock])

(* The commands that do not look at the table.  The error command stands   *)
(* for bad input; stats with an argument is not implemented.               *)
Custom(c) ==
    /\ Starts(c, {"noop", "version", "stat", "verbosity", "slabs", "stats", "quit", "error"})
    /\ LET cmd == Head(todo[c])
       IN Returns(c, IF cmd.op = "error" \/ cmd.arg # <<>> THEN "invalid" ELSE "done", table)

-----------------------------------------------------------------------------
(* The loops.                                                              *)

Loops == {"append", "prepend", "incr", "decr"}
Delta(cmd) == cmd.op \in {"incr", "decr"}

Lookup(c) ==
    /\ Starts(c, Loops)
    /\ LET t == Found(table)
           cmd == Head(todo[c])
       IN IF t.cur = NULL /\ ~(Delta(cmd) /\ cmd.proto = "binary") THEN Returns(c, "missing", t)
          ELSE /\ table' = IF t.cur = NULL THEN t ELSE Ref(t, t.cur)
               /\ act' = [act EXCEPT ![c] = [Idle EXCEPT !.old = t.cur, !.keep = t.cur]]
               /\ pc' = [pc EXCEPT ![c] = "compute"]
               /\ UNCHANGED <<todo, said, log, did, dangling>>

(* Append and prepend go on with the entry of the first lookup. *)
Source(cmd, a) == IF Delta(cmd) THEN a.old ELSE a.keep

(* The loop goes on with an entry it has no reference to: the first one of *)
(* an append, the canceled new one of an increment.                        *)
Loses(c) ==
    /\ dangling' = TRUE
    /\ pc' = [pc EXCEPT ![c] = "lost"]
    /\ UNCHANGED <<table, todo, act, said, log, did>>

(* The new value is computed and put into an entry. *)
Compute(c) ==
    /\ pc[c] = "compute"
    /\ LET cmd == Head(todo[c])
           a == act[c]
           from == Source(cmd, a)
           Put(t, e, v) ==
               /\ table' = t
               /\ act' = [act EXCEPT ![c] = [@ EXCEPT !.new = e, !.num = GetNum(v),
                                                      !.stamp = IF from = NULL THEN 0 ELSE t.ent[from].stamp]]
               /\ pc' = [pc EXCEPT ![c] = IF from = NULL THEN "insert" ELSE "alter"]
               /\ UNCHANGED <<todo, said, log, did, dangling>>
           v == IF from = NULL THEN SetNum(cmd.initial) ELSE Combine(cmd, table.ent[from].val)
       IN IF a.bad THEN Loses(c)
          ELSE IF Delta(cmd) /\ from # NULL /\ ~IsNum(table.ent[from].val)
          THEN \* An answer for a number if there is a new entry, although it is canceled.
               LET t == Drop(table, from)
               IN IF a.new = NULL THEN Returns(c, "text", t)
                  ELSE Ends(c, Answer(cmd, "done"), "text", Cancel(t, a.new))
          ELSE IF a.new = NULL
          THEN \E e \in FreeEntries : Put(Make(table, e, v), e, v)
          ELSE Put([table EXCEPT !.ent[a.new].val = v], a.new, v)

(* mc_action_alter *)
Alter(c) ==
    /\ pc[c] = "alter"
    /\ LET cmd == Head(todo[c])
           a == act[c]
           t == Found(Drop(table, a.old))
       IN IF Match(t, a.stamp) THEN Returns(c, "done", Replace(t, a.new))
          ELSE IF t.cur = NULL /\ Delta(cmd) /\ cmd.proto = "ascii"
          THEN Ends(c, Answer(cmd, "done"), "missing", Cancel(t, a.new))
          ELSE /\ table' = IF t.cur = NULL THEN Cancel(t, a.new) ELSE Ref(t, t.cur)
               /\ act' = [act EXCEPT ![c] = [a EXCEPT !.old = t.cur, !.again = TRUE,
                                                      !.bad = t.cur = NULL \/ ~Delta(cmd)]]
               /\ pc' = [pc EXCEPT ![c] = "compute"]
               /\ UNCHANGED <<todo, said, log, did, dangling>>

(* The binary increment of an absent item inserts its initial value.  If   *)
(* there is an item now the new entry is canceled, but still used.         *)
InsertInitial(c) ==
    /\ pc[c] = "insert"
    /\ LET a == act[c]
           t == Found(table)
       IN IF t.cur = NULL THEN Returns(c, "done", Link(t, a.new))
          ELSE /\ table' = Cancel(t, a.new)
               /\ act' = [act EXCEPT ![c] = [a EXCEPT !.old = t.cur, !.again = TRUE, !.bad = TRUE]]
               /\ pc' = [pc EXCEPT ![c] = "compute"]
               /\ UNCHANGED <<todo, said, log, did, dangling>>

(* mc_process_command goes on with the next command. *)
NextCommand(c) ==
    /\ pc[c] = "end"
    /\ todo' = [todo EXCEPT ![c] = Tail(@)]
    /\ pc' = [pc EXCEPT ![c] = "idle"]
    /\ said' = [said EXCEPT ![c] = Silent] /\ did' = [did EXCEPT ![c] = "nothing"]
    /\ act' = [act EXCEPT ![c] = Idle]
    /\ UNCHANGED <<table, log, dangling>>

Next ==
    \E c \in Conns :
        \/ Get(c) \/ Set(c) \/ Add(c) \/ Delete(c) \/ Touch(c) \/ Flush(c) \/ Custom(c)
        \/ Lookup(c) \/ Compute(c) \/ Alter(c) \/ InsertInitial(c) \/ NextCommand(c)

Spec == Init /\ [][Next]_cvars

-----------------------------------------------------------------------------
(* Properties                                                              *)

None == <<>>
Replay(v, cmd) ==
    CASE cmd.op \in {"set", "add", "replace", "cas"} -> cmd.arg
      [] cmd.op \in {"delete", "flush"} -> None
      [] cmd.op \in Loops -> IF v = None THEN SetNum(cmd.initial) ELSE Combine(cmd, v)
      [] OTHER -> v

Item == LET t == Found(table) IN IF t.cur = NULL THEN None ELSE t.ent[t.cur].val

(* What a client may conclude from an answer or from its absence. *)
Concludes(cmd, answer) ==
    IF answer = Silent THEN IF cmd.op \in {"get", "getk"} THEN "missing" ELSE "done"
    ELSE CASE answer \in {"value", "number", "status", "stamp", "string"} -> "done"
           [] answer \in {"not_found", "item_not_stored"} -> "missing"
           [] answer = "key_exists" -> "exists"
           [] answer = "non_numeric" -> "text"
           [] OTHER -> "invalid"

(* Concurrent commands add up: the item is what the successful commands    *)
(* make of it one after another, with no append or increment lost or done  *)
(* twice.  And the binary protocol does not mislead: from the answer, or   *)
(* from the silence of a quiet command, the client concludes what was      *)
(* done.  Excluded are the runs in which a loop went on with a released    *)
(* entry (command.c:417, 522), and the answer of an increment that had to  *)
(* repeat, which may report a number that was not stored (command.c:507).  *)
CommandsExact ==
    ~dangling =>
        /\ Item = FoldLeft(Replay, None, log)
        /\ \A c \in Conns :
              (pc[c] = "end" /\ Head(todo[c]).proto = "binary" /\ ~act[c].again) =>
                  Concludes(Head(todo[c]), said[c]) = did[c]

(* No loop goes on with an entry that was released.  The code does not     *)
(* keep this.                                                              *)
NoDangling == ~dangling
=============================================================================
