----------------------------- MODULE MemorySpan -----------------------------
(***************************************************************************)
(* Memory spans, memory/span.c: address space taken from the system at     *)
(* addresses that are aligned to the size of a heap span.  Addresses count *)
(* pages.  The first mapping is a guess; if it is not aligned, a larger    *)
(* one is made and trimmed on both sides.  The system maps wherever it     *)
(* likes, and several threads do this at the same time.                    *)
(***************************************************************************)
EXTENDS Integers, FiniteSets

CONSTANTS
    Threads,   \* each one has a context; the fixed cache belongs to none
    Pages,     \* bound: the pages of the address space, 0 .. Pages - 1
    Align,     \* pages of a heap span, and the alignment of all spans
    HugeSizes  \* total sizes of huge spans, in pages

VARIABLES
    mapped,    \* the pages that are mapped
    spans,     \* the spans handed out: address, size, kind, owner
    pc, want, at   \* of each thread: its step, its request, its mapping

vars == <<mapped, spans, pc, want, at>>

Fixed == 0
NoWant == [kind |-> "none", size |-> 0, owner |-> Fixed]
Run(addr, n) == addr .. addr + n - 1
Unmapped(addr, n) == Run(addr, n) \subseteq (0 .. Pages - 1) \ mapped
Upsized(n) == n + Align - 1
RoundUp(addr) == ((addr + Align - 1) \div Align) * Align
RoundDown(addr) == (addr \div Align) * Align

(* mm_memory_span_create_heap, mm_memory_span_create_huge                  *)
Request(t, kind, size, owner) ==
    /\ pc[t] = "idle"
    /\ want' = [want EXCEPT ![t] = [kind |-> kind, size |-> size, owner |-> owner]]
    /\ pc' = [pc EXCEPT ![t] = "guess"]
    /\ UNCHANGED <<mapped, spans, at>>

(* mm_memory_alloc_space, from the first mmap on                           *)
Guess(t) ==
    /\ pc[t] = "guess"
    /\ \E addr \in 0 .. Pages - 1 :
         /\ Unmapped(addr, want[t].size)
         /\ mapped' = mapped \cup Run(addr, want[t].size)
         /\ at' = [at EXCEPT ![t] = addr]
         /\ pc' = [pc EXCEPT ![t] = IF addr % Align = 0 THEN "setup" ELSE "undo"]
    /\ UNCHANGED <<spans, want>>

Undo(t) ==
    /\ pc[t] = "undo"
    /\ mapped' = mapped \ Run(at[t], want[t].size)
    /\ pc' = [pc EXCEPT ![t] = "again"]
    /\ at' = [at EXCEPT ![t] = 0]
    /\ UNCHANGED <<spans, want>>

Again(t) ==
    /\ pc[t] = "again"
    /\ \E addr \in 0 .. Pages - 1 :
         /\ Unmapped(addr, Upsized(want[t].size))
         /\ mapped' = mapped \cup Run(addr, Upsized(want[t].size))
         /\ at' = [at EXCEPT ![t] = addr]
         /\ pc' = [pc EXCEPT ![t] = "lead"]
    /\ UNCHANGED <<spans, want>>

(* The leading and the trailing part are unmapped, if there are any.       *)
Lead(t) ==
    /\ pc[t] = "lead"
    /\ mapped' = mapped \ Run(at[t], RoundUp(at[t]) - at[t])
    /\ pc' = [pc EXCEPT ![t] = "trail"]
    /\ UNCHANGED <<spans, want, at>>

TrailPast(t) ==
    LET addr == RoundUp(at[t])
        size == want[t].size
    IN /\ pc[t] = "trail"
       /\ mapped' = mapped \ Run(addr + size, Upsized(size) - size)
       /\ at' = [at EXCEPT ![t] = addr]
       /\ pc' = [pc EXCEPT ![t] = "setup"]
       /\ UNCHANGED <<spans, want>>

Trail(t) ==
    LET addr == RoundUp(at[t])
        size == want[t].size
    IN /\ pc[t] = "trail"
       /\ mapped' = mapped \ Run(addr + size, at[t] + Upsized(size) - addr - size)
       /\ at' = [at EXCEPT ![t] = addr]
       /\ pc' = [pc EXCEPT ![t] = "setup"]
       /\ UNCHANGED <<spans, want>>

(* The mmap fails: there is no memory, and no span.                        *)
Fail(t) ==
    /\ pc[t] \in {"guess", "again"}
    /\ pc' = [pc EXCEPT ![t] = "idle"]
    /\ want' = [want EXCEPT ![t] = NoWant]
    /\ UNCHANGED <<mapped, spans, at>>

(* The header of the span is filled in.                                    *)
Setup(t) ==
    /\ pc[t] = "setup"
    /\ spans' = spans \cup {[addr |-> at[t], size |-> want[t].size,
                             kind |-> want[t].kind, owner |-> want[t].owner]}
    /\ pc' = [pc EXCEPT ![t] = "idle"]
    /\ want' = [want EXCEPT ![t] = NoWant] /\ at' = [at EXCEPT ![t] = 0]
    /\ UNCHANGED mapped

(* mm_memory_span_from_ptr: a chunk of a heap span lies anywhere in it,    *)
(* the data of a huge span at its start.                                   *)
DataPages(s) == IF s.kind = "heap" THEN Run(s.addr, s.size) ELSE {s.addr}
span_from_ptr(p) == CHOOSE s \in spans : s.addr = RoundDown(p)

(* mm_memory_span_destroy *)
Destroy(s) == spans' = spans \ {s} /\ mapped' = mapped \ Run(s.addr, s.size)

(* A huge span is destroyed when its chunk is freed, by any thread.        *)
Free(t, p) ==
    /\ pc[t] = "idle"
    /\ span_from_ptr(p).kind = "huge"
    /\ Destroy(span_from_ptr(p))
    /\ UNCHANGED <<pc, want, at>>

(* mm_memory_cache_cleanup: the spans of a context at its end              *)
Cleanup(t, s) ==
    /\ pc[t] = "idle" /\ s.owner = t /\ s.kind = "heap"
    /\ Destroy(s)
    /\ UNCHANGED <<pc, want, at>>

Init ==
    /\ mapped = {} /\ spans = {}
    /\ pc = [t \in Threads |-> "idle"]
    /\ want = [t \in Threads |-> NoWant]
    /\ at = [t \in Threads |-> 0]

(* A chunk is asked for the cache of the thread, or the common one.        *)
Owners(t) == {t, Fixed}

Step(t) ==
    \/ \E owner \in Owners(t) : Request(t, "heap", Align, owner)
    \/ \E owner \in Owners(t), size \in HugeSizes : Request(t, "huge", size, owner)
    \/ Guess(t) \/ Undo(t) \/ Again(t) \/ Lead(t) \/ Trail(t) \/ Fail(t) \/ Setup(t)
    \/ \E s \in spans : Cleanup(t, s) \/ (\E p \in DataPages(s) : Free(t, p))

Next == \E t \in Threads : Step(t)

Spec == Init /\ [][Next]_vars

(***************************************************************************)
(* Properties.                                                             *)
(***************************************************************************)

(* What a thread in the middle of mm_memory_alloc_space has mapped.        *)
Holds(t) ==
    LET n == want[t].size IN
    CASE pc[t] \in {"undo", "setup"} -> Run(at[t], n)
      [] pc[t] = "lead" -> Run(at[t], Upsized(n))
      [] pc[t] = "trail" -> Run(RoundUp(at[t]), at[t] + Upsized(n) - RoundUp(at[t]))
      [] OTHER -> {}

(* The pages that are mapped are those of the spans and of the mappings in *)
(* progress, and no two of these share one: trimming neither leaves a page *)
(* behind nor cuts into a span.  Every span starts at an aligned page, and *)
(* the span found for any address given out is the one the address is in.  *)
SpansExact ==
    /\ mapped = (UNION {Run(s.addr, s.size) : s \in spans}) \cup (UNION {Holds(t) : t \in Threads})
    /\ \A s, o \in spans : s # o => Run(s.addr, s.size) \cap Run(o.addr, o.size) = {}
    /\ \A s \in spans, t \in Threads : Run(s.addr, s.size) \cap Holds(t) = {}
    /\ \A s \in spans : s.addr % Align = 0 /\ \A p \in DataPages(s) : span_from_ptr(p) = s
=============================================================================
