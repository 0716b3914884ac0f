------------------------------- MODULE KvPool -------------------------------
(***************************************************************************)
(* What a pool of KV blocks promises to the scheduler, the per-sequence    *)
(* caches and the prefix cache: a fixed supply of blocks, a reference      *)
(* count on each, and a block that can be handed out again exactly when    *)
(* nobody refers to it.  The free list, the segments and the order blocks  *)
(* are handed out in belong to BlockAllocator, which implements this.      *)
(***************************************************************************)
EXTENDS Naturals, FiniteSets, Sequences

CONSTANT Blocks        \* the blocks below the ceiling, materialised or not

ASSUME BlocksAssumption == IsFiniteSet(Blocks)

VARIABLE refs          \* refs[b]: how many holders share block b

-----------------------------------------------------------------------------

\* Seeded fault: a block that only one holder keeps, the prefix cache for
\* instance, counts as free.
FreeBlocksOrHeldOnce(r) == {b \in Blocks : r[b] <= 1}

FreeBlocks(r) == {b \in Blocks : r[b] = 0}

\* num_free: every block nobody holds can still be taken.
NumFree(r) == Cardinality(FreeBlocks(r))

Occurrences(b, bs) == Cardinality({i \in DOMAIN bs : bs[i] = b})

\* The counts after one allocate, share or free.
Allocated(r, b) == [r EXCEPT ![b] = 1]
SharedOnce(r, b) == [r EXCEPT ![b] = @ + 1]
FreedOnce(r, b) == [r EXCEPT ![b] = @ - 1]

\* The counts after sharing, or freeing, every block of a table in turn.
SharedAll(r, bs) == [b \in Blocks |-> r[b] + Occurrences(b, bs)]
FreedAll(r, bs) == [b \in Blocks |-> r[b] - Occurrences(b, bs)]

-----------------------------------------------------------------------------

PoolInit == refs = [b \in Blocks |-> 0]

PoolAllocate(b) == refs[b] = 0 /\ refs' = Allocated(refs, b)

\* A block is shared or freed by someone who already holds it.
PoolShare(b) == refs[b] > 0 /\ refs' = SharedOnce(refs, b)

PoolFree(b) == refs[b] > 0 /\ refs' = FreedOnce(refs, b)

PoolNext == \E b \in Blocks : PoolAllocate(b) \/ PoolShare(b) \/ PoolFree(b)

PoolSpec == PoolInit /\ [][PoolNext]_refs

=============================================================================
