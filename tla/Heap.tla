-------------------------------- MODULE Heap --------------------------------
(***************************************************************************)
(* The heap of src/src/allocator.rs: size-class free lists over a bump     *)
(* arena, and a doubly linked list of large blocks with boundary tags.     *)
(* The kernel heap and the user heap are two values of this one type.      *)
(*                                                                         *)
(* The unit is the 8-byte word, and the heap's memory is modelled word by  *)
(* word: the headers and links the allocator reads are the ones it (or a   *)
(* caller) wrote there last.  Every operation holds the heap's Spinlock    *)
(* (module SpinLock) and is one step; realloc takes the lock three times   *)
(* and is three.                                                           *)
(*                                                                         *)
(* Abstractions.  Sizes and alignments are whole words, so the roundings   *)
(* to 8 bytes are the identity.  A caller fills what alloc gave it with    *)
(* one value and does not write what realloc gave it, so that words that   *)
(* were not copied show.  large_head is written by init only and is a      *)
(* constant.                                                               *)
(***************************************************************************)
EXTENDS Integers, Sequences, FiniteSets, TLC
LOCAL INSTANCE FiniteSetsExt

CONSTANTS
    HeapSize,     \* size given to init
    ArenaShare,   \* quarters of it that init gives to the arena (3)
    BucketSizes,  \* BUCKET_SIZES
    SlabCount,    \* slab_count (32)
    Requests,     \* the layouts callers ask for: <<size, align>>
    Data,         \* the values callers write
    MaxLive,      \* bound: allocations held at a time
    Unwritten     \* what a word nobody has written yet holds

ASSUME HeapAssumption ==
    /\ HeapSize \in Nat /\ HeapSize % 4 = 0
    /\ ArenaShare \in 0 .. 4
    /\ BucketSizes # <<>> /\ SlabCount \in Nat \ {0}
    /\ \A i \in DOMAIN BucketSizes : BucketSizes[i] \in Nat \ {0}
    /\ MaxLive \in Nat /\ Unwritten \in Nat /\ Data \subseteq Nat

SMALL_HEADER_SIZE == 1
LARGE_BLOCK_SIZE == 4           \* size, next, prev, free
MinSplit == 2                   \* 16 bytes
TwoWords == 2                   \* the prefix of a large allocation
LARGE_BLOCK_SENTINEL == -1      \* usize::MAX
Null == 0

Bucket == 0 .. Len(BucketSizes) - 1
ClassSize(b) == BucketSizes[b + 1]
Total(b) == SMALL_HEADER_SIZE + ClassSize(b)

Start == 16                     \* a page boundary
End == Start + HeapSize
ArenaEnd == Start + (HeapSize \div 4) * ArenaShare
LargeHead == IF End - ArenaEnd > LARGE_BLOCK_SIZE THEN ArenaEnd ELSE Null
(* dealloc_aligned reads two words in front of the first small block.      *)
Words == Start - 1 .. End - 1

VARIABLES
    heap,    \* lists: free_lists; arena: arena_ptr; mem: the words
    live,    \* the allocations callers hold
    moving,  \* the realloc between two of its locks
    crashed   \* the kernel has panicked or left the heap's memory

heapVars == <<heap, live, moving, crashed>>

NotMoving == [stage |-> "none"]
Filled(m, p, size, value) == [w \in p .. p + size - 1 |-> value] @@ m

-----------------------------------------------------------------------------
(* The LargeBlock at an address.                                           *)
SizeOf(m, b) == m[b]
NextOf(m, b) == m[b + 1]
PrevOf(m, b) == m[b + 2]
IsFree(m, b) == m[b + 3] = 1

Header(b, size, next, prev, free) ==
    (b :> size) @@ (b + 1 :> next) @@ (b + 2 :> prev) @@ (b + 3 :> free)
SetPrev(m, b, prev) == IF b = Null THEN m ELSE [m EXCEPT ![b + 2] = prev]

(* The list that begins at an address and is linked through the word at an *)
(* offset, followed for as many blocks as the heap has words.              *)
RECURSIVE Linked(_, _, _, _)
Linked(m, at, offset, most) ==
    IF at = Null \/ most = 0 THEN <<>>
    ELSE <<at>> \o Linked(m, m[at + offset], offset, most - 1)

LargeList(m) == Linked(m, LargeHead, 1, HeapSize)

(* init                                                                    *)
HeapInit ==
    /\ heap = [lists |-> [b \in Bucket |-> Null],
               arena |-> Start,
               mem   |-> IF LargeHead = Null THEN [w \in Words |-> Unwritten]
                         ELSE Header(LargeHead, End - ArenaEnd - LARGE_BLOCK_SIZE,
                                     Null, Null, 1) @@ [w \in Words |-> Unwritten]]
    /\ live = {}
    /\ moving = NotMoving
    /\ crashed = FALSE

(* alloc_large_raw: first fit, and the rest of the block is split off when *)
(* it can hold a header and 16 bytes.                                      *)
MustSplit(m, b, size) == SizeOf(m, b) >= size + LARGE_BLOCK_SIZE + MinSplit

Split(m, b, size) ==
    LET new == b + LARGE_BLOCK_SIZE + size
        put == Header(new, SizeOf(m, b) - size - LARGE_BLOCK_SIZE, NextOf(m, b), b, 1)
    IN  [SetPrev(put @@ m, NextOf(m, b), new) EXCEPT ![b] = size, ![b + 1] = new]

AllocLargeRaw(m, size) ==
    LET fits == SelectSeq(LargeList(m),
                          LAMBDA b : IsFree(m, b) /\ SizeOf(m, b) >= size)
    IN  IF fits = <<>> THEN [ptr |-> Null, mem |-> m]
        ELSE LET b == Head(fits)
                 cut == IF MustSplit(m, b, size) THEN Split(m, b, size) ELSE m
             IN  [ptr |-> b + LARGE_BLOCK_SIZE, mem |-> [cut EXCEPT ![b + 3] = 0]]

(* free_large_raw: merged with the next block, then with the previous one. *)
(* The header of a merged block stays behind as it was.                    *)
Absorb(m, b, next) ==
    SetPrev([m EXCEPT ![b] = @ + SizeOf(m, next) + LARGE_BLOCK_SIZE,
                      ![b + 1] = NextOf(m, next)],
            NextOf(m, next), b)

CoalesceForward(m, b) ==
    IF NextOf(m, b) # Null /\ IsFree(m, NextOf(m, b))
    THEN Absorb(m, b, NextOf(m, b)) ELSE m
CoalesceForwardOnly(m, b) == CoalesceForward([m EXCEPT ![b + 3] = 1], b)
Coalesce(m, b) ==
    LET ahead == CoalesceForward([m EXCEPT ![b + 3] = 1], b)
    IN  IF PrevOf(ahead, b) # Null /\ IsFree(ahead, PrevOf(ahead, b))
        THEN Absorb(ahead, PrevOf(ahead, b), b) ELSE ahead

FreeLargeRaw(m, b) == IF IsFree(m, b) THEN m ELSE Coalesce(m, b)

-----------------------------------------------------------------------------
BucketFor(size) == {b \in Bucket : size <= ClassSize(b)}
FirstBucket(size) == CHOOSE b \in BucketFor(size) : \A c \in BucketFor(size) : b <= c

(* alloc_small: from the bucket's list, else from the arena, else from a   *)
(* slab cut out of a large block.                                          *)
Pop(h, b) ==
    [heap |-> [h EXCEPT !.lists[b] = h.mem[h.lists[b]],
                        !.mem[h.lists[b]] = b],
     ptr  |-> h.lists[b] + SMALL_HEADER_SIZE]

Carve(h, b) ==
    [heap |-> [h EXCEPT !.arena = @ + Total(b), !.mem[h.arena] = b],
     ptr  |-> h.arena + SMALL_HEADER_SIZE]

CutSlab(h, b) ==
    LET raw == AllocLargeRaw(h.mem, Total(b) * SlabCount)
        blk(i) == raw.ptr + i * Total(b)
        links == [w \in {blk(i) : i \in 1 .. SlabCount - 1} |->
                     IF w = blk(1) THEN h.lists[b] ELSE w - Total(b)]
    IN  IF raw.ptr = Null THEN [heap |-> h, ptr |-> Null]
        ELSE [heap |-> [h EXCEPT !.lists[b] = IF SlabCount = 1 THEN @
                                              ELSE blk(SlabCount - 1),
                                 !.mem = (raw.ptr :> b) @@ links @@ raw.mem],
              ptr  |-> raw.ptr + SMALL_HEADER_SIZE]

AllocSmall(h, b) ==
    IF h.lists[b] # Null THEN Pop(h, b)
    ELSE IF h.arena + Total(b) <= ArenaEnd THEN Carve(h, b)
    ELSE CutSlab(h, b)

(* free_small: the header becomes the link.                                *)
FreeSmall(h, p) ==
    LET block == p - SMALL_HEADER_SIZE
        bucket == h.mem[block]
    IN  [h EXCEPT !.lists[bucket] = block, !.mem[block] = h.lists[bucket]]

-----------------------------------------------------------------------------
(* alloc_aligned.  The payload of a large allocation is the first aligned  *)
(* address behind a two-word prefix: the sentinel and the block's address. *)
AlignedAt(raw, align) ==
    LET candidate == raw + TwoWords
        remainder == candidate % align
    IN  candidate + (IF remainder = 0 THEN 0 ELSE align - remainder)
PrefixNotCounted(align) == align
Extra(align) == align + TwoWords

IsSmall(size, align) == align <= SMALL_HEADER_SIZE /\ BucketFor(size) # {}

AllocAligned(h, size, align) ==
    IF IsSmall(size, align) THEN AllocSmall(h, FirstBucket(size))
    ELSE LET raw == AllocLargeRaw(h.mem, size + Extra(align))
             p == AlignedAt(raw.ptr, align)
         IN  IF raw.ptr = Null THEN [heap |-> h, ptr |-> Null]
             ELSE [heap |-> [h EXCEPT !.mem =
                                (p - 2 :> LARGE_BLOCK_SENTINEL)
                                @@ (p - 1 :> raw.ptr - LARGE_BLOCK_SIZE) @@ raw.mem],
                   ptr  |-> p]

(* dealloc_aligned and capacity_of tell a large allocation from a small    *)
(* one by the word two in front of the payload.  The header of a small     *)
(* block is the word just in front of it; the one before belongs to        *)
(* somebody else.                                                          *)
HeaderVal(h, p) == h.mem[p - TwoWords]
SaysLarge(h, p) == HeaderVal(h, p) = LARGE_BLOCK_SENTINEL

(* What a misread prefix leads to lies outside the heap.                   *)
Wild(h, p) == SaysLarge(h, p) /\ h.mem[p - 1] \notin ArenaEnd .. End - 1

DeallocAligned(h, p) ==
    IF SaysLarge(h, p) THEN [h EXCEPT !.mem = FreeLargeRaw(h.mem, h.mem[p - 1])]
    ELSE FreeSmall(h, p)

(* capacity_of: BUCKET_SIZES[header_val] panics past the last bucket.      *)
CapacityPanics(h, p) == ~SaysLarge(h, p) /\ HeaderVal(h, p) \notin Bucket
CapacityNoHeader(h, p) ==
    IF SaysLarge(h, p)
    THEN h.mem[p - 1] + SizeOf(h.mem, h.mem[p - 1]) - p
    ELSE ClassSize(HeaderVal(h, p))
CapacityOf(h, p) ==
    IF SaysLarge(h, p)
    THEN h.mem[p - 1] + LARGE_BLOCK_SIZE + SizeOf(h.mem, h.mem[p - 1]) - p
    ELSE ClassSize(HeaderVal(h, p))

-----------------------------------------------------------------------------
(* The calls: GlobalAlloc and sys_alloc, sys_free and sys_realloc.         *)

Held == live \cup (IF moving.stage = "none" THEN {} ELSE {moving.old, moving.new})

(* An allocation a caller holds.  Ghosts: the value its owner has written  *)
(* into the first kept words; misread says that realloc has moved it out   *)
(* of a small block, whose capacity comes from a word of somebody else.    *)
Allocation(p, size, align, value, kept, misread) ==
    [ptr |-> p, size |-> size, align |-> align,
     value |-> value, kept |-> kept, misread |-> misread]
Small(a) == IsSmall(a.size, a.align)

(* alloc; the caller then writes what it asked for.                        *)
Alloc(size, align, value) ==
    LET got == AllocAligned(heap, size, align) IN
    /\ Cardinality(Held) < MaxLive
    /\ got.ptr # Null
    /\ heap' = [got.heap EXCEPT !.mem = Filled(@, got.ptr, size, value)]
    /\ live' = live \cup {Allocation(got.ptr, size, align, value, size, FALSE)}
    /\ UNCHANGED <<moving, crashed>>

(* dealloc                                                                 *)
Dealloc(a) ==
    /\ IF Wild(heap, a.ptr)
       THEN crashed' = TRUE /\ UNCHANGED heap
       ELSE heap' = DeallocAligned(heap, a.ptr) /\ UNCHANGED crashed
    /\ live' = live \ {a}
    /\ UNCHANGED moving

(* realloc: the new block first; a null pointer leaves the old one alone.  *)
ReallocAlloc(a, size) ==
    LET got == AllocAligned(heap, size, a.align) IN
    /\ moving.stage = "none"
    /\ Cardinality(Held) < MaxLive
    /\ got.ptr # Null
    /\ heap' = got.heap
    /\ live' = live \ {a}
    /\ moving' = [stage |-> "copy", old |-> a,
                  new |-> Allocation(got.ptr, size, a.align, a.value, 0, a.misread \/ Small(a))]
    /\ UNCHANGED crashed

(* capacity_of and the copy; what was in the old block up to the new size  *)
(* is now in the new one.                                                  *)
CopySize == Min({CapacityOf(heap, moving.old.ptr), moving.new.size})
ReallocCopy ==
    /\ moving.stage = "copy"
    /\ IF CapacityPanics(heap, moving.old.ptr) \/ Wild(heap, moving.old.ptr)
       THEN crashed' = TRUE /\ UNCHANGED <<heap, moving>>
       ELSE /\ heap' = [heap EXCEPT !.mem =
                  [w \in moving.new.ptr .. moving.new.ptr + CopySize - 1 |->
                     heap.mem[w - moving.new.ptr + moving.old.ptr]] @@ @]
            /\ moving' = [moving EXCEPT !.stage = "free",
                                        !.new.kept = Min({moving.old.kept, moving.new.size})]
            /\ UNCHANGED crashed
    /\ UNCHANGED live

(* The old block is freed, and the caller has the new one.                 *)
ReallocFree ==
    /\ moving.stage = "free"
    /\ IF Wild(heap, moving.old.ptr)
       THEN crashed' = TRUE /\ UNCHANGED heap
       ELSE heap' = DeallocAligned(heap, moving.old.ptr) /\ UNCHANGED crashed
    /\ live' = live \cup {moving.new}
    /\ moving' = NotMoving

HeapNext ==
    /\ ~crashed
    /\ \/ \E r \in Requests, v \in Data : Alloc(r[1], r[2], v)
       \/ \E a \in live : Dealloc(a)
       \/ \E a \in live, r \in Requests : ReallocAlloc(a, r[1])
       \/ ReallocCopy
       \/ ReallocFree

HeapSpec == HeapInit /\ [][HeapNext]_heapVars

-----------------------------------------------------------------------------
FreeList(b) == Linked(heap.mem, heap.lists[b], 0, HeapSize)
Elements(s) == {s[i] : i \in DOMAIN s}

BlockOf(a) ==       \* where a held allocation's block begins, and its words
    IF Small(a) THEN [at |-> a.ptr - SMALL_HEADER_SIZE,
                      words |-> Total(FirstBucket(a.size))]
    ELSE [at |-> heap.mem[a.ptr - 1],
          words |-> LARGE_BLOCK_SIZE + SizeOf(heap.mem, heap.mem[a.ptr - 1])]

LargeBlocks == Elements(LargeList(heap.mem))

(* What the words of the heap are used for; a slab's block shows up as the *)
(* small blocks in it.                                                     *)
SmallPieces ==
    {[use |-> "held", block |-> BlockOf(a)] : a \in {h \in Held : Small(h)}}
    \cup UNION {{[use |-> "free", block |-> [at |-> f, words |-> Total(b)]] :
                    f \in Elements(FreeList(b))} : b \in Bucket}
LargePieces ==
    {[use |-> "held", block |-> BlockOf(a)] : a \in {h \in Held : ~Small(h)}}
    \cup {[use |-> "free",
           block |-> [at |-> b, words |-> LARGE_BLOCK_SIZE + SizeOf(heap.mem, b)]] :
             b \in {l \in LargeBlocks : IsFree(heap.mem, l)}}

LiesBefore(p, q) == p.block.at + p.block.words <= q.block.at
Covers(p, w) == p.block.at <= w /\ w < p.block.at + p.block.words

(* The free lists, the arena and every pointer handed out stay inside the  *)
(* heap.                                                                   *)
HeapTypeOK ==
    /\ heap.lists \in [Bucket -> {Null} \cup Words]
    /\ heap.arena \in Start .. ArenaEnd
    /\ heap.mem \in [Words -> Int]
    /\ \A a \in Held : a.ptr \in Words
    /\ crashed \in BOOLEAN

(* The list of large blocks is the large region, block after block, with   *)
(* exact back links, and no two neighbours are free: whatever the order of *)
(* splits and frees, free_large_raw merges all it can and loses no byte.   *)
LargeListTiles ==
    LET l == LargeList(heap.mem)
        end(i) == l[i] + LARGE_BLOCK_SIZE + SizeOf(heap.mem, l[i])
    IN  /\ l[1] = ArenaEnd /\ end(Len(l)) = End
        /\ \A i \in 1 .. Len(l) :
             /\ PrevOf(heap.mem, l[i]) = IF i = 1 THEN Null ELSE l[i - 1]
             /\ i < Len(l) => /\ end(i) = l[i + 1]
                              /\ ~(IsFree(heap.mem, l[i]) /\ IsFree(heap.mem, l[i + 1]))

(* No word of the heap is in two blocks, held or free, small or large: no  *)
(* allocation is handed out twice, and no free list has a cycle or reaches *)
(* into a block that is in use.                                            *)
BlocksDisjoint ==
    /\ \A b \in Bucket : Len(FreeList(b)) < HeapSize
    /\ LET pieces == SmallPieces \cup LargePieces
       IN  \A p, q \in pieces : p # q => LiesBefore(p, q) \/ LiesBefore(q, p)

(* Nothing is lost: every word carved from the arena is in a held or free  *)
(* small block, and every large block in use is held or is a slab with     *)
(* small blocks in it.                                                     *)
NothingLost ==
    LET small == SmallPieces
        large == LargePieces
    IN  ~crashed =>
          /\ \A w \in Start .. heap.arena - 1 : \E p \in small : Covers(p, w)
          /\ \A b \in LargeBlocks :
               \/ \E p \in large : p.block.at = b
               \/ \E p \in small : p.block.at = b + LARGE_BLOCK_SIZE

(* The blocks partition the heap through every sequence of alloc, dealloc  *)
(* and realloc: inside it, exactly linked, disjoint, and none lost.        *)
HeapPartitioned == HeapTypeOK /\ LargeListTiles /\ BlocksDisjoint /\ NothingLost

(* A held allocation has the words its owner wrote.                        *)
Intact(a) == \A k \in 0 .. a.kept - 1 : heap.mem[a.ptr + k] = a.value

(* A held allocation is aligned as asked and lies inside its block, behind *)
(* the block's header and prefix.                                          *)
AlignedInside ==
    \A a \in Held :
        /\ a.ptr % a.align = 0
        /\ a.ptr + a.size <= BlockOf(a).at + BlockOf(a).words
        /\ ~Small(a) => a.ptr - TwoWords >= BlockOf(a).at + LARGE_BLOCK_SIZE

(* What dealloc_aligned and capacity_of read in front of a large           *)
(* allocation is the prefix alloc_aligned put there, so neither of them    *)
(* goes wrong on one.                                                      *)
PrefixKept ==
    \A a \in Held : ~Small(a) => SaysLarge(heap, a.ptr) /\ heap.mem[a.ptr - 1] \in LargeBlocks

(* What alloc_aligned and realloc promise their callers: memory of the     *)
(* size and alignment asked for that nobody else writes, with what was in  *)
(* it before realloc moved it, however blocks around it are split, merged, *)
(* cut into slabs, freed and moved.  Small blocks that realloc has moved   *)
(* are left to ReallocKeeps.                                               *)
AllocationsKept ==
    AlignedInside /\ PrefixKept /\ \A a \in Held : a.misread \/ Intact(a)

(* realloc keeps the contents, of small blocks too, for capacity_of is to  *)
(* "return the usable capacity of a live allocation" (allocator.rs:382).   *)
ReallocKeeps == \A a \in live : Intact(a)

(* dealloc_aligned takes for large what is large and for small what is     *)
(* small: "Small path: header_val is the bucket index" (allocator.rs:377), *)
(* so it is never the sentinel of a large allocation.                      *)
RoutedRight == \A a \in live : SaysLarge(heap, a.ptr) <=> ~Small(a)
=============================================================================
