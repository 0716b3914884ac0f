--------------------------- MODULE BlockAllocator ---------------------------
(***************************************************************************)
(* common/paged.rs, BlockAllocator: block ids are materialised a segment   *)
(* at a time up to a ceiling, the ones nobody holds sit on a LIFO free     *)
(* list, and every materialised block carries a reference count.  The      *)
(* callers (PagedKvCache and PrefixCache) share and free only blocks they  *)
(* hold, which is what the debug assertions of share and free demand.      *)
(***************************************************************************)
EXTENDS Integers, Sequences, FiniteSets

CONSTANTS max_blocks,      \* the ceiling granted when the model loads
          segment_blocks,  \* how many blocks a growth materialises
          MaxRefs          \* bound on one block's count, for model checking

ASSUME PoolSpecAssumption ==
    /\ max_blocks \in Nat \ {0}
    /\ segment_blocks \in 1 .. max_blocks
    /\ MaxRefs \in Nat \ {0}

VARIABLES free_list,       \* ids that can be handed out, the last one first
          ref_counts,      \* one count per materialised block
          num_blocks       \* how many blocks are materialised

vars == <<free_list, ref_counts, num_blocks>>

Ids == 0 .. max_blocks - 1
Materialised == 0 .. num_blocks - 1

-----------------------------------------------------------------------------

\* grow: what the next segment holds, or what is left below the ceiling.
SegmentSize(num) ==
    IF segment_blocks <= max_blocks - num THEN segment_blocks ELSE max_blocks - num

\* Seeded faults, each a slip this code could contain; a run of the project
\* shows that a property notices it.  They replace the definition that follows.
NewIdsOverlapping(first, n) == [i \in 1 .. n |-> IF first = 0 THEN n - i ELSE first + n - i - 1]

\* (first..num_blocks).rev(): the lowest new id is the first to be handed out.
NewIds(first, n) == [i \in 1 .. n |-> first + n - i]

GrownCountsAllReset(counts, num, n) ==
    [b \in 0 .. num + n - 1 |-> IF b = num THEN 1 ELSE 0]

\* resize(num_blocks, 0): the counts of the n blocks a growth adds start at
\* zero; the first of them is the one handed out.
GrownCounts(counts, num, n) ==
    [b \in 0 .. num + n - 1 |-> IF b < num THEN counts[b] ELSE IF b = num THEN 1 ELSE 0]

num_freeOfList == Len(free_list)

num_free == Len(free_list) + (max_blocks - num_blocks)

-----------------------------------------------------------------------------

\* growing: the first segment is materialised when the pool is made.
Init ==
    LET n == SegmentSize(0) IN
    /\ num_blocks = n
    /\ free_list = NewIds(0, n)
    /\ ref_counts = [b \in 0 .. n - 1 |-> 0]

\* allocate with a block on the free list.
AllocateFree ==
    /\ free_list # <<>>
    /\ ref_counts' = [ref_counts EXCEPT ![free_list[Len(free_list)]] = 1]
    /\ free_list' = SubSeq(free_list, 1, Len(free_list) - 1)
    /\ UNCHANGED num_blocks

\* allocate with an empty free list: grow, then pop the lowest new id.
AllocateGrow ==
    LET n == SegmentSize(num_blocks) IN
    /\ free_list = <<>>
    /\ n > 0
    /\ num_blocks' = num_blocks + n
    /\ ref_counts' = GrownCounts(ref_counts, num_blocks, n)
    /\ free_list' = SubSeq(NewIds(num_blocks, n), 1, n - 1)

\* allocate fails: the ceiling is reached, or the device cannot hold the
\* segment; either way the pool is unchanged.
AllocateFail ==
    /\ free_list = <<>>
    /\ UNCHANGED vars

share(b) ==
    /\ ref_counts[b] > 0
    /\ ref_counts[b] < MaxRefs
    /\ ref_counts' = [ref_counts EXCEPT ![b] = @ + 1]
    /\ UNCHANGED <<free_list, num_blocks>>

free(b) ==
    /\ ref_counts[b] > 0
    /\ ref_counts' = [ref_counts EXCEPT ![b] = @ - 1]
    /\ free_list' = IF ref_counts[b] = 1 THEN Append(free_list, b) ELSE free_list
    /\ UNCHANGED num_blocks

Next ==
    \/ AllocateFree
    \/ AllocateGrow
    \/ AllocateFail
    \/ \E b \in Materialised : share(b) \/ free(b)

Spec == Init /\ [][Next]_vars

-----------------------------------------------------------------------------

TypeOK ==
    /\ num_blocks \in 1 .. max_blocks
    /\ ref_counts \in [Materialised -> 0 .. MaxRefs]
    /\ free_list \in Seq(Materialised)

\* No block sits on the free list twice: two frees of one block, or a growth
\* that re-adds ids, would hand one block to two holders.
FreeListDistinct ==
    \A i, j \in 1 .. Len(free_list) : free_list[i] = free_list[j] => i = j

\* The free list holds exactly the materialised blocks nobody refers to: a
\* free that forgets to push leaks the block, an allocate that forgets to set
\* the count hands out a block that share and free then mistreat.
FreeListExact ==
    \A b \in Materialised :
        (\E i \in 1 .. Len(free_list) : free_list[i] = b) <=> ref_counts[b] = 0

\* num_free, the one figure the scheduler plans with, is the number of blocks
\* below the ceiling without a holder, materialised or not.
NumFreeExact ==
    num_free = Cardinality({b \in Ids : b \notin Materialised \/ ref_counts[b] = 0})

-----------------------------------------------------------------------------

\* The pool as its callers see it: an id beyond the ones that exist is as free
\* as one on the free list.
AbstractRefs ==
    [b \in Ids |-> IF b \in Materialised THEN ref_counts[b] ELSE 0]

Pool == INSTANCE KvPool WITH Blocks <- Ids, refs <- AbstractRefs

\* Every allocate, share and free of the allocator is one of the pool's: the
\* segments and the free list are invisible to whoever holds blocks.
ImplementsPool == Pool!PoolSpec

=============================================================================
