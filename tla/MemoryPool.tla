------------------------------ MODULE MemoryPool ------------------------------
(***************************************************************************)
(* The memory pools of memory.c.  A pool keeps its pointers in a list of   *)
(* blocks, the newest first, and the newest pointers in a small array, the *)
(* debounce region, until that is full: draining and adding around the end *)
(* of a block then allocates nothing.  A block of block_size words has a   *)
(* link, here the list itself, and block_size - 1 cells, numbered from 1;  *)
(* offset is the next cell of the first block, block_size when there is    *)
(* none.  Cells no one has written hold 0.                                 *)
(***************************************************************************)
EXTENDS Integers, SequencesExt

CONSTANTS
    Pools,          \* the pools
    Debounce,       \* NEO4J_MPOOL_DEBOUNCE
    BlockSizes,     \* the block sizes a pool is made with
    Allocators,     \* the allocators a pool is made with
    MaxPointers     \* pointers that are added in a behaviour

ASSUME MemoryPoolAssumption ==
    /\ Debounce \in Nat \ {0} /\ MaxPointers \in Nat
    /\ BlockSizes \subseteq Nat

VARIABLES
    pool,      \* the pools' records
    added,     \* pointers added so far
    released,  \* how often each pointer has been freed
    crashed    \* why the process has ended

vars == <<pool, added, released, crashed>>

Min2(m, n) == IF m < n THEN m ELSE n
Max2(m, n) == IF m < n THEN n ELSE m

Block(size) == [c \in 1..(size - 1) |-> 0]

\* memcpy and memmove of n cells, from cell s of src to cell d of dst.
Copy(dst, d, src, s, n) ==
    [c \in DOMAIN dst |-> IF c \in d..(d + n - 1) THEN src[s + c - d] ELSE dst[c]]

\* neo4j_mpool.
NewPool(allocator, size) ==
    LET bs == Max2(size, Debounce + 2)
    IN  [allocator |-> allocator, block_size |-> bs, debounce |-> << >>,
         ptrs |-> << >>, offset |-> bs, depth |-> 0]

Init ==
    /\ pool \in [Pools -> {NewPool(a, bs) : a \in Allocators, bs \in BlockSizes}]
    /\ added = 0 /\ released = [x \in 1..MaxPointers |-> 0] /\ crashed = "no"

-------------------------------------------------------------------------------
\* Fault: the next cell is that of the last pointer.
RemoveDebounceOverwrites(p) ==
    LET n == Len(p.debounce)
    IN  [p EXCEPT !.ptrs = <<Copy(Block(p.block_size), 1, p.debounce, 1, n)>> \o @,
                  !.offset = n,
                  !.debounce = << >>]

\* remove_debounce, when its allocation succeeds.
RemoveDebounce(p) ==
    LET n == Len(p.debounce)
    IN  [p EXCEPT !.ptrs = <<Copy(Block(p.block_size), 1, p.debounce, 1, n)>> \o @,
                  !.offset = n + 1,
                  !.debounce = << >>]

Flat(p) == IF p.debounce # << >> THEN RemoveDebounce(p) ELSE p

\* When neo4j_mpool_merge calls resize_pool.
MustResize(p, q) == p.block_size # q.block_size \/ p.allocator # q.allocator

\* neo4j_mpool_add of a pointer, without the allocation.
Put(p, x) ==
    [p EXCEPT !.ptrs[1] = [@ EXCEPT ![p.offset] = x], !.offset = @ + 1, !.depth = @ + 1]

\* The loop of neo4j_mpool_drainto frees a whole block in a turn, the newest first:
\* d is the pool, how many pointers are still to be freed, and those freed so far.
HasWholeBlock(d) == d.p.ptrs # << >> /\ d.todrain >= d.p.offset - 1

DrainBlock(d) ==
    [p |-> [d.p EXCEPT !.ptrs = Tail(@), !.offset = d.p.block_size],
     todrain |-> d.todrain - (d.p.offset - 1),
     frees |-> d.frees \o SubSeq(d.p.ptrs[1], 1, d.p.offset - 1)]

DrainBlocks(d) ==
    LET after[turn \in 0..Len(d.p.ptrs)] ==
            IF turn = 0 THEN d
            ELSE IF HasWholeBlock(after[turn - 1]) THEN DrainBlock(after[turn - 1])
            ELSE after[turn - 1]
    IN  after[Len(d.p.ptrs)]

\* The debounce region is drained first.
DrainDebounce(p, depth) ==
    LET debounced == Len(p.debounce)
        first == Min2(debounced, p.depth - depth)
    IN  [p |-> [p EXCEPT !.debounce = SubSeq(@, 1, debounced - first)],
         todrain |-> p.depth - depth - first,
         frees |-> SubSeq(p.debounce, debounced - first + 1, debounced)]

\* Fault: the oldest pointers of a block are freed.
DrainedFromStart(p, depth) ==
    LET whole == DrainBlocks(DrainDebounce(p, depth))
        n == whole.todrain
    IN  [p |-> [whole.p EXCEPT !.offset = @ - n, !.depth = depth],
         frees |-> whole.frees \o (IF n = 0 THEN << >> ELSE SubSeq(whole.p.ptrs[1], 1, n))]

\* neo4j_mpool_drainto: the debounce region, whole blocks, a part of a block.
Drained(p, depth) ==
    LET whole == DrainBlocks(DrainDebounce(p, depth))
        n == whole.todrain
        last == IF n = 0 THEN << >>
                ELSE SubSeq(whole.p.ptrs[1], whole.p.offset - n, whole.p.offset - 1)
    IN  [p |-> [whole.p EXCEPT !.offset = @ - n, !.depth = depth],
         frees |-> whole.frees \o last]

-------------------------------------------------------------------------------
\* A turn of the loop of resize_pool, which copies from the newest pointers to the
\* oldest and fills new blocks from their end.  r.dst is the list of new blocks, the
\* last of them has r.space cells to be filled; r.src is what is left of the pool's
\* blocks, the first of them has r.available pointers to be copied.
RecopyTurn(r, oldSize, newSize) ==
    LET n == Min2(r.space, r.available)
        t == [r EXCEPT !.dst[Len(r.dst)] =
                           Copy(@, r.space - n + 1, r.src[1], r.available - n + 1, n),
                       !.space = @ - n, !.available = @ - n]
    IN  IF t.available = 0
          THEN [t EXCEPT !.src = Tail(@), !.available = oldSize - 1]
          ELSE [t EXCEPT !.dst = Append(@, Block(newSize)), !.space = newSize - 1]

\* The loop ends after as many turns as there are blocks and pointers, and one.
Recopied(r, turns, oldSize, newSize) ==
    LET after[turn \in 0..turns] ==
            IF turn = 0 THEN r
            ELSE IF after[turn - 1].src = << >> THEN after[turn - 1]
            ELSE RecopyTurn(after[turn - 1], oldSize, newSize)
    IN  after[turns].dst

\* resize_pool of a pool whose debounce region is empty: the new pool.
Resized(p, size) ==
    LET space == p.depth % (size - 1)
        r == [src |-> p.ptrs, available |-> p.offset - 1,
              dst |-> <<Block(size)>>, space |-> space]
    IN  [NewPool(p.allocator, size) EXCEPT
            !.ptrs = Recopied(r, Len(p.ptrs) + p.depth + 1, p.block_size, size),
            !.offset = space + 1,
            !.depth = p.depth]

\* merge_pools copies the first cells of a block of the second pool to the end of
\* the block below it, and moves the n that follow to the start.
Fill(p, ptrs, block, n) == [ptrs EXCEPT ![1] = Copy(@, p.offset, block, 1, n)]

ShiftInto(p, ptrs, block, n) ==
    LET space == p.block_size - p.offset
    IN  <<Copy(block, 1, block, space + 1, n)>> \o Fill(p, ptrs, block, space)

\* It does so for the blocks rev of the second pool q, the oldest first, of which
\* the last may not be full.
Shifted(p, q, rev) ==
    LET space == p.block_size - p.offset
        full == Len(rev) - 1
        below[k \in 0..full] ==
            IF k = 0 THEN p.ptrs
            ELSE ShiftInto(p, below[k - 1], rev[k], q.block_size - 1 - space)
    IN  IF space < q.offset
          THEN [ptrs |-> ShiftInto(p, below[full], rev[full + 1], q.offset - 1 - space),
                offset |-> q.offset - space]
          ELSE [ptrs |-> Fill(p, below[full], rev[full + 1], q.offset),
                offset |-> p.offset + q.offset - 1]

\* Fault: the newest block is taken first.
MergedBlocksNewestFirst(p, q) ==
    IF q.ptrs = << >> THEN [ptrs |-> p.ptrs, offset |-> p.offset]
    ELSE Shifted(p, q, q.ptrs)

MergedBlocks(p, q) ==
    IF q.ptrs = << >> THEN [ptrs |-> p.ptrs, offset |-> p.offset]
    ELSE Shifted(p, q, Reverse(q.ptrs))

\* merge_pools, with the debounce region of the second pool.
Merged(p, q) ==
    LET b == MergedBlocks(p, q)
        n == Min2(p.block_size - b.offset, Len(q.debounce))
    IN  [p EXCEPT !.ptrs = [b.ptrs EXCEPT ![1] = Copy(@, b.offset, q.debounce, 1, n)],
                  !.offset = b.offset + n,
                  !.debounce = SubSeq(q.debounce, n + 1, Len(q.debounce)),
                  !.depth = @ + q.depth]

\* concat_pools: the blocks of the second pool go in front.
Concatenated(p, q) ==
    [p EXCEPT !.ptrs = q.ptrs \o @, !.offset = q.offset,
              !.debounce = q.debounce, !.depth = @ + q.depth]

\* The second pool when it has been merged as it was.
Emptied(q) == [q EXCEPT !.debounce = << >>, !.ptrs = << >>, !.offset = q.block_size, !.depth = 0]

\* The second pool when resize_pool has taken its blocks: the offset stays.
Deallocated(q) ==
    [q EXCEPT !.offset = Flat(q).offset, !.debounce = << >>, !.ptrs = << >>, !.depth = 0]

-------------------------------------------------------------------------------
\* neo4j_mpool_add; a block is needed when the last is full and the debounce
\* region too.
NeedsBlock(p) == p.offset >= p.block_size /\ Len(p.debounce) = Debounce

Add(i) ==
    LET p == pool[i]
        x == added + 1
        q == IF NeedsBlock(p) THEN RemoveDebounce(p) ELSE p
    IN  /\ crashed = "no" /\ added < MaxPointers
        /\ IF p.offset >= p.block_size /\ ~NeedsBlock(p)
             THEN /\ pool' = [pool EXCEPT ![i].debounce = Append(@, x), ![i].depth = @ + 1]
                  /\ added' = x /\ UNCHANGED crashed
             ELSE IF q.ptrs # << >>
             THEN /\ pool' = [pool EXCEPT ![i] = Put(q, x)]
                  /\ added' = x /\ UNCHANGED crashed
             ELSE crashed' = "no block" /\ UNCHANGED <<pool, added>>
        /\ UNCHANGED released

\* neo4j_mpool_drainto.
DrainTo(i, depth) ==
    LET d == Drained(pool[i], depth)
    IN  /\ crashed = "no" /\ depth < pool[i].depth
        /\ pool' = [pool EXCEPT ![i] = d.p]
        /\ released' = [x \in DOMAIN released |->
                            released[x] + Cardinality({n \in DOMAIN d.frees : d.frees[n] = x})]
        /\ UNCHANGED <<added, crashed>>

\* neo4j_mpool_merge of pools i and j, when the memory it needs is there.
Merge(i, j) ==
    LET p == Flat(pool[i])
        resize == MustResize(p, pool[j])
        q == IF resize THEN Resized(Flat(pool[j]), p.block_size) ELSE pool[j]
        full == p.offset = p.block_size
    IN  /\ crashed = "no" /\ i # j /\ pool[j].depth > 0
        /\ crashed' = IF p.allocator # q.allocator THEN "allocators"
                      ELSE IF full /\ q.ptrs = << >> THEN "concat no block"
                      ELSE IF ~full /\ p.ptrs = << >> THEN "no block"
                      ELSE "no"
        /\ IF crashed' # "no" THEN UNCHANGED pool
           ELSE pool' = [pool EXCEPT ![i] = IF full THEN Concatenated(p, q) ELSE Merged(p, q),
                                     ![j] = IF resize THEN Deallocated(@) ELSE Emptied(@)]
        /\ UNCHANGED <<added, released>>

\* neo4j_mpool_merge, when it fails: what remove_debounce has done stays.
MergeFails(i, j) ==
    /\ crashed = "no" /\ i # j /\ pool[j].depth > 0
    /\ MustResize(pool[i], pool[j])
    /\ \E q \in {pool[j], Flat(pool[j])} :
          pool' = [pool EXCEPT ![i] = Flat(@), ![j] = q]
    /\ UNCHANGED <<added, released, crashed>>

Next ==
    \E i \in Pools :
        \/ Add(i)
        \/ \E depth \in 0..MaxPointers : DrainTo(i, depth)
        \/ \E j \in Pools : Merge(i, j) \/ MergeFails(i, j)

Spec == Init /\ [][Next]_vars

-------------------------------------------------------------------------------
\* The pointers in a list of blocks, n of them in the first, and those of a pool, the
\* oldest first.
Stacked(ptrs, n) ==
    IF ptrs = << >> THEN << >> ELSE FlattenSeq(Reverse(Tail(ptrs))) \o SubSeq(ptrs[1], 1, n)
Contents(p) == Stacked(p.ptrs, p.offset - 1) \o p.debounce

\* The records are those of pools; the blocks below the first are full, and
\* depth counts what is in them and in the debounce region.
TypeOK ==
    /\ added \in 0..MaxPointers
    /\ crashed \in {"no", "allocators", "concat no block", "no block"}
    /\ \A i \in Pools :
          LET p == pool[i]
          IN  /\ p.offset \in 1..p.block_size
              /\ Len(p.debounce) <= Debounce
              /\ p.debounce # << >> => p.offset = p.block_size
              /\ \A k \in DOMAIN p.ptrs : Len(p.ptrs[k]) = p.block_size - 1
              /\ p.depth = Len(Contents(p))

\* A pointer is freed once, and not while a pool still has it: a cell that
\* neo4j_mpool_merge moves is not left behind in the block it came from.
FreedOnce ==
    /\ \A x \in DOMAIN released : released[x] <= 1
    /\ \A i \in Pools, x \in DOMAIN released :
          released[x] > 0 => x \notin ToSet(Contents(pool[i]))

\* memory.h:148-159 and 245-258: the pools are stacks, whatever the number of
\* pointers, the place of the block ends and the block sizes: draining frees
\* what is above the depth and nothing else, and merging loses, repeats and
\* reorders nothing.
Stacks == INSTANCE PointerStacks WITH
    stack <- [i \in Pools |-> Contents(pool[i])],
    freed <- {x \in DOMAIN released : released[x] > 0}

ImplementsStacks == Stacks!Spec

\* memory.h:248: the second pool is empty after a merge, and a pool that is
\* empty can be added to.
EmptiedIsUsable == crashed # "no block"

\* memory.h:247: any pool can be put on top of another.  pull_all_callback does it
\* with two of one allocator and block size.
MergeReturns == crashed # "concat no block"

\* memory.c:202: pools of different allocators are merged, by copying the second;
\* the copy keeps its allocator, and the assertion after it fails.
AllocatorsMix == crashed # "allocators"
===============================================================================
