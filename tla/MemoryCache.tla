---------------------------- MODULE MemoryCache ----------------------------
(***************************************************************************)
(* The memory allocator of a context, memory/cache.c, with the ranks and   *)
(* sizes of the code.  A heap span is 2048 units of 1 KiB.  Its large      *)
(* chunks (ranks 36 to 71) are kept in free lists and split on demand.  A  *)
(* large chunk may be made a block of medium chunks (ranks 16 to 35), and  *)
(* a medium chunk an inner block of small ones (ranks 0 to 15).            *)
(*                                                                         *)
(* The map of units is abstracted to what it tells: the rank and the mark  *)
(* of the chunk that starts at a unit, and the base of the block that a    *)
(* unit is inside.  An address is a heap and an offset in bytes.  One      *)
(* thread owns the cache; other threads only free chunks remotely.         *)
(***************************************************************************)
EXTENDS Integers, SequencesExt

CONSTANTS
    Slots,      \* chunks of a block that are used, 16 in the code
    Menus,      \* what a program asks for: sets of sizes and alignments,
                \* and a bound on the number of its operations
    MaxLive,    \* bound: chunks in use at a time
    MaxHeaps    \* bound: the memory that the system gives

VARIABLES
    heaps,      \* the heap spans, in the order they were made
    active,     \* cache->active
    staging,    \* cache->staging
    live,       \* the addresses in use: rank, size, alignment asked for
    menu, ops

vars == <<heaps, active, staging, live, menu, ops>>

SMALL == 16
BLOCK == 36         \* MM_MEMORY_BLOCK_SIZES
LARGE == 36         \* MM_MEMORY_LARGE_SIZES
CACHE == 72         \* MM_MEMORY_CACHE_SIZES
MEDIUM == 20        \* MM_MEMORY_MEDIUM_SIZES and MM_MEMORY_SMALL_TO_MEDIUM
BUDDY == 24         \* MM_MEMORY_BUDDY_SIZES
UNIT == 1024
UNITS == 2048

(* MM_CHUNK_MAKE_SIZE: mm_memory_sizes[rank]                               *)
SizeOf(rank) == (4 + (rank % 4)) * 2 ^ (rank \div 4 + 1)
Units(rank) == SizeOf(rank) \div UNIT

(* MM_CHUNK_MAKE_MAGIC: division by a size as a product and a shift        *)
Magic(rank) == (2 ^ 18 + SizeOf(rank) - 1) \div SizeOf(rank)
Slot(offset, rank) == (offset * Magic(rank)) \div 2 ^ 18

(* mm_memory_get_rank: by the most significant bit of size - 1             *)
Msb(n) == CHOOSE k \in 0 .. 30 : 2 ^ k <= n /\ n < 2 ^ (k + 1)
get_rank(size) ==
    IF size <= 8 THEN 0
    ELSE LET m == Msb(size - 1) IN 4 * m + (size - 1) \div 2 ^ (m - 2) - 15

(***************************************************************************)
(* Large chunks.                                                           *)
(***************************************************************************)

Put(f, k, v) == [x \in DOMAIN f \cup {k} |-> IF x = k THEN v ELSE f[x]]

(* mm_memory_free_chunk: the chunk becomes the head of the list of its     *)
(* rank; the marks after its first unit give the next one.                 *)
free_chunk(h, base, rank) ==
    [h EXCEPT !.mark = Put(@, base, [tag |-> "next", next |-> h.chunks[rank]]),
              !.chunks[rank] = base]

make_chunk(h, base, rank) == free_chunk([h EXCEPT !.rank = Put(@, base, rank)], base, rank)

make_two(h, base, first, second) ==
    make_chunk(make_chunk(h, base, first), base + Units(first), second)

(* mm_memory_find_chunk: up by doubling, and one by one for the largest    *)
find_chunk(h, rank) ==
    LET steps == {r \in rank .. BLOCK + BUDDY - 1 : (r - rank) % 4 = 0}
        from == rank + 4 * Cardinality(steps)
        found == {r \in steps \cup (from .. CACHE - 1) : h.chunks[r] # 0}
    IN IF found = {} THEN CACHE ELSE Min(found)

(* mm_memory_split_chunk: what is left of the original chunk, a chain of   *)
(* buddies and one or two chunks given by the distance that remains.       *)
Buddies(required, original) ==
    {r \in required .. BLOCK + BUDDY - 1 : (r - required) % 4 = 0 /\ r < original}

Rest(r, distance) ==
    CASE distance = 1 -> <<(r \div 4) * 4 - 8>>
      [] distance = 2 -> <<CASE r % 4 = 0 -> r - 4 [] r % 4 = 2 -> r - 6 [] OTHER -> r - 5>>
      [] distance = 3 -> <<IF r % 4 = 1 THEN r - 3 ELSE r - 2>>
      [] distance = 4 -> <<r>>
      [] distance = 5 -> IF r % 4 = 3 THEN <<r - 3, r - 2>> ELSE <<r + 2>>
      [] distance = 6 -> <<<<r + 4>>, <<r - 1, r>>, <<r + 3>>, <<r - 2, r + 1>>>>[(r % 4) + 1]
      [] distance = 7 -> <<<<r + 5>>, <<r - 1, r + 2>>, <<r + 5>>, <<r - 2, r + 3>>>>[(r % 4) + 1]
      [] distance = 8 -> <<<<r + 6>>, <<r + 2, r + 3>>, <<r + 2, r + 3>>, <<r - 2, r + 5>>>>[(r % 4) + 1]
      [] distance = 9 -> CASE r = CACHE - 12 -> <<CACHE - 4>>
                           [] r = CACHE - 11 -> <<CACHE - 9, CACHE - 6>>
                           [] r = CACHE - 10 -> <<CACHE - 8, CACHE - 5>>
                           [] OTHER -> <<CACHE - 11, CACHE - 3>>
      [] distance = 10 -> CASE r = CACHE - 12 -> <<CACHE - 3>>
                            [] r = CACHE - 11 -> <<CACHE - 9, CACHE - 4>>
                            [] OTHER -> <<CACHE - 7, CACHE - 4>>
      [] distance = 11 -> IF r = CACHE - 12 THEN <<CACHE - 2>> ELSE <<CACHE - 9, CACHE - 3>>
      [] distance = 12 -> <<CACHE - 1>>

split_chunk(h, base, original, required) ==
    LET n == Cardinality(Buddies(required, original))
        step(acc, i) == [heap |-> make_chunk(acc.heap, acc.base, required + 4 * i),
                         base |-> acc.base + Units(required + 4 * i)]
        start == [heap |-> [h EXCEPT !.rank = Put(@, base, required)], base |-> base + Units(required)]
        chain == FoldLeft(step, start, [i \in 1 .. n |-> i - 1])
        running == required + 4 * n
        rest == Rest(running, original - running)
    IN IF running = original THEN chain.heap
       ELSE IF Len(rest) = 1 THEN make_chunk(chain.heap, chain.base, rest[1])
       ELSE make_two(chain.heap, chain.base, rest[1], rest[2])

(* mm_memory_prepare_heap: the header takes the first chunk                *)
NoHeap ==
    [chunks |-> [r \in BLOCK .. CACHE - 1 |-> 0], rank |-> <<>>, mark |-> <<>>,
     blocks |-> [r \in 0 .. BLOCK - 1 |-> <<>>], blk |-> <<>>, remote |-> <<>>]
FreshHeap == split_chunk(NoHeap, 0, CACHE, BLOCK)

(* mm_memory_alloc_large: the heap to take from; the first of the staging  *)
(* list that can serve, and a new one if none can.                         *)
Able(rank) == SelectSeq(staging, LAMBDA i : find_chunk(heaps[i], rank) < CACHE)
Staged(rank) == find_chunk(heaps[active], rank) = CACHE

AllocHeap(rank) ==
    IF ~Staged(rank) THEN active
    ELSE IF Able(rank) # <<>> THEN Able(rank)[1] ELSE Len(heaps) + 1

HeapAvailable(rank) == AllocHeap(rank) <= MaxHeaps
Chosen(rank) == IF AllocHeap(rank) > Len(heaps) THEN FreshHeap ELSE heaps[AllocHeap(rank)]
StagingAfter(rank) ==
    IF ~Staged(rank) THEN staging
    ELSE <<active>> \o SelectSeq(staging, LAMBDA i : i # AllocHeap(rank))

TakeChunk(h, original) ==
    [h EXCEPT !.chunks[original] = h.mark[h.chunks[original]].next]

(* The chunk is removed from its list, split, and marked as used.          *)
Carve(h, rank, tag) ==
    LET original == find_chunk(h, rank)
        base == h.chunks[original]
        taken == TakeChunk(h, original)
        split == IF original = rank THEN taken ELSE split_chunk(taken, base, original, rank)
    IN [split EXCEPT !.mark = Put(@, base, [tag |-> tag, next |-> 0])]

(* An allocation: the heap it comes from, now the active one, what becomes *)
(* of that heap and of the staging list, and the address.  The set of them *)
(* is empty if it takes one heap too many.                                 *)
AllocLarge(rank, tag) ==
    IF ~HeapAvailable(rank) THEN {}
    ELSE {[i |-> AllocHeap(rank), staging |-> StagingAfter(rank), heap |-> Carve(h, rank, tag),
           base |-> h.chunks[find_chunk(h, rank)]] : h \in {Chosen(rank)}}

(***************************************************************************)
(* Blocks of medium chunks and inner blocks of small chunks.  Slot 0 is    *)
(* the header of a block.                                                  *)
(***************************************************************************)

AllSlots == 1 .. Slots - 1

(* mm_memory_alloc_block: the first chunk is used right away               *)
NewBlock == [free |-> AllSlots \ {1}, inner_used |-> {}, inner_free |-> {}, inner |-> <<>>]

AllocBlock(rank) ==
    {[a EXCEPT !.heap.blk = Put(@, a.base, NewBlock), !.heap.blocks[rank] = <<a.base>>]
        : a \in AllocLarge(rank + MEDIUM, "block")}

(* A medium chunk of the first block on the list of its rank.              *)
TakeMedium(h, rank) ==
    LET b == h.blocks[rank][1]
        s == Min(h.blk[b].free)
    IN [h EXCEPT !.blk[b].free = @ \ {s},
                 !.blocks[rank] = IF h.blk[b].free = {s} THEN Tail(@) ELSE @]

(* A medium chunk is made an inner block; its first small chunk is used.   *)
MakeInner(h, rank, b, s) ==
    [h EXCEPT !.blk[b].inner_used = @ \cup {s}, !.blk[b].inner_free = @ \cup {s},
              !.blk[b].inner = Put(@, s, AllSlots \ {1}),
              !.blocks[rank] = <<b>>]

(* A small chunk of the first block on the list of its rank.               *)
TakeSmall(h, rank) ==
    LET b == h.blocks[rank][1]
        s == Min(h.blk[b].inner_free)
        i == Min(h.blk[b].inner[s])
        last == h.blk[b].inner[s] = {i}
    IN [h EXCEPT !.blk[b].inner[s] = @ \ {i},
                 !.blk[b].inner_free = IF last THEN @ \ {s} ELSE @,
                 !.blocks[rank] = IF last /\ h.blk[b].inner_free = {s} THEN Tail(@) ELSE @]

(***************************************************************************)
(* mm_memory_cache_alloc: the address it returns and the state it leaves.  *)
(***************************************************************************)

At(heap, offset) == <<heap, offset>>
MediumAt(base, s, rank) == base * UNIT + s * SizeOf(rank)
SmallAt(base, s, i, rank) == MediumAt(base, s, rank + MEDIUM) + i * SizeOf(rank)

Same(h) == [heap |-> h, i |-> active, staging |-> staging]
Found(a, offset) == [heap |-> a.heap, i |-> a.i, staging |-> a.staging, at |-> offset]

large_alloc(rank) == {Found(a, a.base * UNIT) : a \in AllocLarge(rank, "used")}

medium_alloc(rank) ==
    LET h == heaps[active] IN
    IF h.blocks[rank] # <<>>
    THEN LET b == h.blocks[rank][1]
         IN {Found(Same(TakeMedium(h, rank)), MediumAt(b, Min(h.blk[b].free), rank))}
    ELSE {Found(a, MediumAt(a.base, 1, rank)) : a \in AllocBlock(rank)}

small_alloc(rank) ==
    LET h == heaps[active]
        medium == rank + MEDIUM
    IN IF h.blocks[rank] # <<>>
       THEN LET b == h.blocks[rank][1]
                s == Min(h.blk[b].inner_free)
            IN {Found(Same(TakeSmall(h, rank)), SmallAt(b, s, Min(h.blk[b].inner[s]), rank))}
       ELSE IF h.blocks[medium] # <<>>
       THEN LET b == h.blocks[medium][1]
                s == Min(h.blk[b].free)
            IN {Found(Same(MakeInner(TakeMedium(h, medium), rank, b, s)), SmallAt(b, s, 1, rank))}
       ELSE {Found([a EXCEPT !.heap = MakeInner(@, rank, a.base, 1)], SmallAt(a.base, 1, 1, rank))
                : a \in AllocBlock(medium)}

cache_alloc(rank) ==
    IF rank >= BLOCK THEN large_alloc(rank)
    ELSE IF rank >= SMALL THEN medium_alloc(rank) ELSE small_alloc(rank)

(***************************************************************************)
(* mm_memory_cache_free_chunk.                                             *)
(***************************************************************************)

(* mm_memory_deduce_base: by the unit map, the block or the chunk          *)
deduce_base(h, offset) ==
    LET unit == offset \div UNIT
        inside == {b \in DOMAIN h.blk : b <= unit /\ unit < b + Units(h.rank[b])}
    IN IF inside = {} THEN unit ELSE CHOOSE b \in inside : TRUE

FreeMedium(h, b, s, rank) ==
    [h EXCEPT !.blk[b].free = @ \cup {s},
              !.blocks[rank] = IF h.blk[b].free = {} THEN <<b>> \o @ ELSE @]

FreeSmall(h, b, s, i, rank) ==
    LET h1 == [h EXCEPT !.blk[b].inner[s] = @ \cup {i}] IN
    IF h1.blk[b].inner[s] # AllSlots
    THEN [h1 EXCEPT !.blk[b].inner_free = @ \cup {s},
                    !.blocks[rank] = IF h.blk[b].inner_free = {} THEN <<b>> \o @ ELSE @]
    ELSE LET h2 == FreeMedium(h1, b, s, rank + MEDIUM)
             flip == (h.blk[b].inner_free \ {s}) \cup ({s} \ h.blk[b].inner_free)
         IN [h2 EXCEPT !.blk[b].inner_used = @ \ {s},
                       !.blk[b].inner_free = flip,
                       !.blocks[rank] = IF flip = {} THEN SelectSeq(@, LAMBDA x : x # b) ELSE @]

cache_free_chunk(h, offset) ==
    LET base == deduce_base(h, offset)
        rank == h.rank[base]
        medium == rank - MEDIUM
        s == Slot(offset - base * UNIT, medium)
        small == medium - MEDIUM
        i == Slot(offset - MediumAt(base, s, medium), small)
    IN IF h.mark[base].tag # "block" THEN free_chunk(h, base, rank)
       ELSE IF s \notin h.blk[base].inner_used THEN FreeMedium(h, base, s, medium)
       ELSE FreeSmall(h, base, s, i, small)

(* mm_memory_cache_chunk_size *)
chunk_size(h, offset) ==
    LET base == deduce_base(h, offset)
        medium == h.rank[base] - MEDIUM
    IN IF h.mark[base].tag # "block" THEN SizeOf(h.rank[base])
       ELSE IF Slot(offset - base * UNIT, medium) \notin h.blk[base].inner_used
            THEN SizeOf(medium) ELSE SizeOf(medium - MEDIUM)

(***************************************************************************)
(* Operations.                                                             *)
(***************************************************************************)

(* The alignment that a chunk of a rank has by itself.                     *)
NaturalAlign(rank) ==
    IF rank >= BLOCK THEN UNIT
    ELSE CASE rank % 4 = 0 -> SizeOf(rank)
           [] rank % 4 = 2 -> SizeOf(rank - 2) \div 2
           [] OTHER -> SizeOf(rank - (rank % 4)) \div 4

(* mm_memory_cache_aligned_alloc: the size to ask for, the address rounded *)
AlignedSize(size, align) ==
    IF align <= UNIT /\ NaturalAlign(get_rank(size)) >= align THEN size ELSE size + align - 1
RoundUp(n, align) == ((n + align - 1) \div align) * align

(* The heaps, the last one perhaps new, after an allocation.               *)
HeapsAfter(a) == [i \in 1 .. Max({a.i, Len(heaps)}) |-> IF i = a.i THEN a.heap ELSE heaps[i]]

Op == ops < menu.ops /\ ops' = ops + 1 /\ UNCHANGED menu

Alloc(size, align) ==
    /\ Op
    /\ Cardinality(DOMAIN live) < MaxLive
    /\ \E a \in cache_alloc(get_rank(AlignedSize(size, align))) :
        /\ heaps' = HeapsAfter(a) /\ active' = a.i /\ staging' = a.staging
        /\ live' = Put(live, At(a.i, RoundUp(a.at, align)), [size |-> size, align |-> align])

Forget(at) == [p \in DOMAIN live \ {at} |-> live[p]]

(* mm_memory_cache_local_free *)
Free(at) ==
    /\ Op
    /\ heaps' = [heaps EXCEPT ![at[1]] = cache_free_chunk(@, at[2])]
    /\ live' = Forget(at)
    /\ UNCHANGED <<active, staging>>

(* mm_memory_cache_remote_free, by another thread                          *)
RemoteFree(at) ==
    /\ Op
    /\ heaps' = [heaps EXCEPT ![at[1]].remote = Append(@, at[2])]
    /\ live' = Forget(at)
    /\ UNCHANGED <<active, staging>>

(* mm_memory_cache_collect: all lists of remotely freed chunks             *)
HandleRemote(h) == [FoldLeft(cache_free_chunk, h, h.remote) EXCEPT !.remote = <<>>]

Collect ==
    /\ \E i \in 1 .. Len(heaps) : heaps[i].remote # <<>>
    /\ Op
    /\ heaps' = [i \in 1 .. Len(heaps) |-> HandleRemote(heaps[i])]
    /\ UNCHANGED <<active, staging, live>>

(* mm_memory_cache_realloc: the chunk stays if the rank is the same, else  *)
(* a new one is made first and the old one is freed in its heap            *)
Stays(at, size) ==
    LET prev == chunk_size(heaps[at[1]], at[2])
    IN prev = size \/ (prev > size /\ get_rank(prev) = get_rank(size))

Realloc(at, size) ==
    /\ Op
    /\ live[at].align = 1
    /\ IF Stays(at, size)
       THEN /\ live' = [live EXCEPT ![at].size = size]
            /\ UNCHANGED <<heaps, active, staging>>
       ELSE \E a \in cache_alloc(get_rank(size)) :
              /\ heaps' = [HeapsAfter(a) EXCEPT ![at[1]] = cache_free_chunk(@, at[2])]
              /\ active' = a.i /\ staging' = a.staging
              /\ live' = Put(Forget(at), At(a.i, a.at), [size |-> size, align |-> 1])

(* mm_memory_cache_prepare *)
Init ==
    /\ heaps = <<FreshHeap>>
    /\ active = 1 /\ staging = <<>>
    /\ live = <<>>
    /\ menu \in Menus
    /\ ops = 0

Next ==
    \/ \E size \in menu.sizes, align \in menu.aligns : Alloc(size, align)
    \/ \E at \in DOMAIN live : Free(at) \/ RemoteFree(at) \/ (\E size \in menu.sizes : Realloc(at, size))
    \/ Collect

Spec == Init /\ [][Next]_vars

(***************************************************************************)
(* Properties.                                                             *)
(***************************************************************************)

(* The chunks that the free list of a rank links together.                 *)
FreeBases(h) == {b \in DOMAIN h.mark : h.mark[b].tag = "next"}
OnList(h) ==
    LET links(rank) == {b \in FreeBases(h) : h.rank[b] = rank}
    IN \A rank \in BLOCK .. CACHE - 1 :
         \/ h.chunks[rank] = 0 /\ links(rank) = {}
         \/ /\ h.chunks[rank] \in links(rank)
            /\ {h.mark[b].next : b \in links(rank)} \cup {h.chunks[rank]} = links(rank) \cup {0}

(* The large chunks of a heap lie next to each other and fill it.          *)
Tiled(h) ==
    \A b \in DOMAIN h.rank : b + Units(h.rank[b]) \in DOMAIN h.rank \cup {UNITS}

Within(at) == chunk_size(heaps[at[1]], at[2])

(* Memory in use is the user's alone.  The chunks in use do not overlap,   *)
(* are as large and as aligned as asked for, and lie in chunks that the    *)
(* heap has neither on a free list nor marked free in a block, whatever    *)
(* splits, blocks, inner blocks, local and remote frees came before.  The  *)
(* chunks of a heap always tile it, and its free lists hold exactly those  *)
(* that are free.                                                          *)
ChunksDisjoint ==
    /\ \A i \in 1 .. Len(heaps) : Tiled(heaps[i]) /\ OnList(heaps[i])
    /\ \A p \in DOMAIN live :
         LET h == heaps[p[1]]
             base == deduce_base(h, p[2])
             medium == h.rank[base] - MEDIUM
             s == Slot(p[2] - base * UNIT, medium)
             i == Slot(p[2] - MediumAt(base, s, medium), medium - MEDIUM)
         IN /\ base >= 4 /\ p[2] % live[p].align = 0
            /\ live[p].size <= Within(p)
            /\ \/ h.mark[base].tag = "used"
               \/ /\ h.mark[base].tag = "block" /\ s \in AllSlots \ h.blk[base].free
                  /\ s \in h.blk[base].inner_used => i \in AllSlots \ h.blk[base].inner[s]
            /\ \A o \in DOMAIN live : o[1] = p[1] /\ o[2] > p[2] => o[2] >= p[2] + live[p].size

(* A block made for a rank is the only one on the list of its heap, which  *)
(* is what mm_memory_alloc_block asserts.  It does not hold: the heap may  *)
(* come from the staging list with blocks of its own.                      *)
BlockListEmpty ==
    \A size \in menu.sizes :
      LET rank == get_rank(size) IN
      rank \in SMALL .. BLOCK - 1 /\ heaps[active].blocks[rank] = <<>> /\ HeapAvailable(rank + MEDIUM)
        => Chosen(rank + MEDIUM).blocks[rank] = <<>>
=============================================================================
