----------------------------- MODULE MCMpmcRing -----------------------------
(***************************************************************************)
(* Small instances of the ring, of the timers of a thread, of the memory   *)
(* code, of the JSON reader and of the settings.  A behaviour is one of    *)
(* one part; the ring does not move in those of the others, and these use  *)
(* the variables x1 to x14, each for its own state.                        *)
(*                                                                         *)
(* The ring has two nodes, so that stamps come back to a node after two    *)
(* operations.  Threads of one role and the values are interchangeable.    *)
(***************************************************************************)
EXTENDS MpmcRing, TextCases, TLC

Symmetry ==
    Permutations(Producers) \cup Permutations(Consumers) \cup Permutations(Values)

VARIABLES part, x1, x2, x3, x4, x5, x6, x7, x8, x9, x10, x11, x12, x13, x14
xs == <<x1, x2, x3, x4, x5, x6, x7, x8, x9, x10, x11, x12, x13, x14>>

(* One timer for now, one for soon and one for later, that share the time  *)
(* of a clock which is read from the system every other time.              *)
Timer == INSTANCE Timers WITH
    Timers <- {"a", "b", "c"}, Timeouts <- {0, 2, 8}, MaxTime <- 1, ClockCount <- 1, ClockDelta <- 1,
    q <- x1, value <- x2, index <- x3, time <- x4, clock <- x5, pc <- x6, timer <- x7, timeout <- x8

(* Two threads free items, one allocates.                                  *)
Pools == INSTANCE Pool WITH
    Threads <- {1, 2}, Poppers <- {1}, Capacity <- 2, ItemSize <- 3, MaxItems <- 4,
    FreeBatch <- 1, FreeThreshold <- 1,
    kind <- x1, item_last <- x2, blocks <- x3, head <- x4, next <- x5, used <- x6, cache <- x7,
    full <- x8, guard <- x9, pc <- x10, item <- x11, link <- x12, batch <- x13, scan <- x14

(* Every large size, blocks in blocks, and sizes that exhaust a heap span. *)
LargeSizes == {(4 + (rank % 4)) * 2 ^ (rank \div 4 + 1) : rank \in 36 .. 71}
MCMenus ==
    {[sizes |-> LargeSizes, aligns |-> {1}, ops |-> 2],
     [sizes |-> {8, 250, 8192}, aligns |-> {1, 64}, ops |-> 4],
     [sizes |-> {8, 250}, aligns |-> {1}, ops |-> 5],
     [sizes |-> {700, 2048, 131072, 1800000}, aligns |-> {1}, ops |-> 4]}
Heap == INSTANCE MemoryCache WITH
    Slots <- 3, Menus <- MCMenus, MaxLive <- 6, MaxHeaps <- 2,
    heaps <- x1, active <- x2, staging <- x3, live <- x4, menu <- x5, ops <- x6

Span == INSTANCE MemorySpan WITH
    Threads <- {1, 2}, Pages <- 7, Align <- 2, HugeSizes <- {3},
    mapped <- x1, spans <- x2, pc <- x3, want <- x4, at <- x5

(* Chunks of 8 units hold a few segments; a block of 9 needs a chunk more. *)
Buf == INSTANCE Buffer WITH
    H <- 2, XSize <- 4, ChunkSize <- 8, MaxChunk <- 12, Slack <- 0, SpliceThreshold <- 2,
    MaxIov <- 2, Sizes <- {1, 3, 9}, MaxBytes <- 16, MaxOps <- 5,
    role <- x1, b <- x2, wrote <- x3, out <- x4, saved <- x5, released <- x6, dead <- x7, ops <- x8

(* A read of the file gives at most six characters.  The largest numbers   *)
(* are 25, 12 and -13.                                                     *)
Json == INSTANCE JsonStream WITH
    Docs <- SomeDocs, doc <- x1, fed <- x2, r <- x3, dry <- x4, pos <- x5
Conf == INSTANCE Settings WITH
    Info <- SomeInfo, Preset <- (<<"affinity">> :> "BOOLEAN") @@ (<<"spin">> :> "REGULAR"),
    Inputs <- SomeInputs, BufferSize <- 6, Mod <- 26,
    input <- x1, pc <- x2, av <- x3, idx <- x4, ec <- x5, at <- x6, verbosity <- x7, settings <- x8,
    r <- x9, fed <- x10, key <- x11, torn <- x12, conf <- x13

(* The relaxed operations are for a role with one thread, see MCCombiner.  *)
SharedPut(t) ==
    \/ PutLoad(t) \/ PutCheck(t) \/ PutCas(t)
    \/ EnqueueFai(t) \/ EnqueueWait(t) \/ Write(t) \/ Publish(t)
SharedGet(t) ==
    \/ GetLoad(t) \/ GetCheck(t) \/ GetCas(t)
    \/ DequeueFai(t) \/ DequeueWait(t) \/ Read(t) \/ Release(t)
SharedNext ==
    part = "ring" /\ (\E t \in Threads : SharedPut(t) \/ SharedGet(t)) /\ UNCHANGED <<part, xs>>

Rest == LET v == CHOOSE v \in Values : TRUE IN
    data = [i \in Slots |-> v] /\ val = [t \in Threads |-> v]

PartInit ==
    /\ Init
    /\ \/ part = "ring" /\ x1 = 0 /\ x2 = 0 /\ x3 = 0 /\ x4 = 0 /\ x5 = 0 /\ x6 = 0 /\ x7 = 0 /\ x8 = 0
          /\ x9 = 0 /\ x10 = 0 /\ x11 = 0 /\ x12 = 0 /\ x13 = 0 /\ x14 = 0
       \/ part = "timers" /\ Rest /\ Timer!Init
          /\ x9 = 0 /\ x10 = 0 /\ x11 = 0 /\ x12 = 0 /\ x13 = 0 /\ x14 = 0
       \/ part = "pool" /\ Rest /\ Pools!Init
       \/ part = "heap" /\ Rest /\ Heap!Init /\ x7 = 0 /\ x8 = 0
          /\ x9 = 0 /\ x10 = 0 /\ x11 = 0 /\ x12 = 0 /\ x13 = 0 /\ x14 = 0
       \/ part = "span" /\ Rest /\ Span!Init /\ x6 = 0 /\ x7 = 0 /\ x8 = 0
          /\ x9 = 0 /\ x10 = 0 /\ x11 = 0 /\ x12 = 0 /\ x13 = 0 /\ x14 = 0
       \/ part = "buffer" /\ Rest /\ Buf!Init
          /\ x9 = 0 /\ x10 = 0 /\ x11 = 0 /\ x12 = 0 /\ x13 = 0 /\ x14 = 0
       \/ part = "json" /\ Rest /\ Json!Init /\ x6 = 0 /\ x7 = 0 /\ x8 = 0
          /\ x9 = 0 /\ x10 = 0 /\ x11 = 0 /\ x12 = 0 /\ x13 = 0 /\ x14 = 0
       \/ part = "settings" /\ Rest /\ Conf!Init /\ x14 = 0

TimersNext == part = "timers" /\ Timer!Next /\ UNCHANGED <<part, vars, x9, x10, x11, x12, x13, x14>>
PoolNext == part = "pool" /\ Pools!Next /\ UNCHANGED <<part, vars>>
HeapNext == part = "heap" /\ Heap!Next /\ UNCHANGED <<part, vars, x7, x8, x9, x10, x11, x12, x13, x14>>
SpanNext == part = "span" /\ Span!Next /\ UNCHANGED <<part, vars, x6, x7, x8, x9, x10, x11, x12, x13, x14>>
BufferNext == part = "buffer" /\ Buf!Next /\ UNCHANGED <<part, vars, x9, x10, x11, x12, x13, x14>>
JsonNext == part = "json" /\ Json!Next /\ UNCHANGED <<part, vars, x6, x7, x8, x9, x10, x11, x12, x13, x14>>
ConfNext == part = "settings" /\ Conf!Next /\ UNCHANGED <<part, vars, x14>>
PartNext == SharedNext \/ TimersNext \/ PoolNext \/ HeapNext \/ SpanNext \/ BufferNext
    \/ JsonNext \/ ConfNext
SharedSpec == PartInit /\ [][PartNext]_<<part, vars, xs>>

(* Timers are returned, slept for and fired in order: mm_timeq_getmin and  *)
(* mm_event_fire_timers.                                                   *)
EarliestFirst == part = "timers" => Timer!EarliestFirst

(* Memory is given to one user at a time: pool items that threads pass to  *)
(* each other, chunks of the heap of a context, spans of address space.    *)
MemoryExact ==
    /\ part = "pool" => Pools!ItemOwnedOnce
    /\ part = "heap" => Heap!ChunksDisjoint
    /\ part = "span" => Span!SpansExact

(* A buffer hands on what was put in: mm_buffer_write, _splice, _span,     *)
(* _compact with the reads, fills and flushes of netbuf.c.                 *)
StreamExact == part = "buffer" => Buf!StreamExact

=============================================================================
