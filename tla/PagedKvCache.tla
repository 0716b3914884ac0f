---------------------------- MODULE PagedKvCache -----------------------------
(***************************************************************************)
(* common/paged.rs, PagedKvCache and ContigBufferPool, as operators: one   *)
(* layer's cache of one sequence and the idle buffers its layer keeps.     *)
(* A key-value pair is the token it was computed from.  The cache keeps a  *)
(* block table, of which only the length matters here, the positions whose *)
(* pairs were written to the block pool, and the contiguous buffer the     *)
(* kernels read.  contig_start is left out: the code never moves it from 0.*)
(***************************************************************************)
EXTENDS Integers, Sequences, SequencesExt, FiniteSetsExt

CONSTANTS BLOCK_SIZE,
          WINDOW_KEEP_MARGIN,   \* tokens a windowed buffer keeps beyond its window
          ContigMinimum,        \* the smallest buffer, 64 in the code
          MAX_POOL_BUFFERS,     \* idle buffers a layer keeps
          ContigLimit           \* tokens the idle buffers of a model may hold

ASSUME CacheAssumption ==
    /\ BLOCK_SIZE \in Nat \ {0} /\ ContigMinimum \in Nat \ {0}
    /\ {WINDOW_KEEP_MARGIN, MAX_POOL_BUFFERS, ContigLimit} \subseteq Nat

NoWindow == 0
MinOf(a, b) == IF a < b THEN a ELSE b
MaxOf(a, b) == IF a > b THEN a ELSE b
CeilDiv(a, b) == (a + b - 1) \div b

\* The last n members of s, or all of it.
Suffix(s, n) == SubSeq(s, MaxOf(Len(s) - n, 0) + 1, Len(s))

-----------------------------------------------------------------------------
(* ContigBufferPool: the idle buffers of each layer, ascending by capacity, *)
(* and the counter the layers of a model share.                             *)

contig_buf_capacity(needed) ==
    MaxOf(ContigMinimum,
          IF needed < 1024 THEN needed * 2 ELSE needed + MinOf(needed \div 4, 4096))

Fits(idle, needed) == {i \in DOMAIN idle : idle[i] >= needed}

\* take, or the fresh buffer acquire_contig makes: the capacity and the pool left.
acquire_contig(pool, layer, needed) ==
    LET idle == pool.idle[layer] IN
    IF Fits(idle, needed) = {} THEN [cap |-> contig_buf_capacity(needed), pool |-> pool]
    ELSE LET i == Min(Fits(idle, needed)) IN
         [cap |-> idle[i],
          pool |-> [idle |-> [pool.idle EXCEPT ![layer] = RemoveAt(@, i)],
                    held |-> pool.held - idle[i]]]

TotalOf(s) == SumFunction(s)

\* How many of the largest buffers go before cap fits the shared budget; more
\* than there are when it does not fit even then.
Dropped(pool, layer, cap) ==
    LET idle == pool.idle[layer]
        enough == {d \in 0 .. Len(idle) : pool.held - TotalOf(Suffix(idle, d)) + cap <= ContigLimit}
    IN IF enough = {} THEN Len(idle) + 1 ELSE Min(enough)

\* put.  Past the budget the largest go, past the count the smallest.  Seeded
\* fault: the smallest goes and stays on the budget.
Put(pool, layer, cap, credit) ==
    LET idle == pool.idle[layer]
        d == Dropped(pool, layer, cap)
        left == SubSeq(idle, 1, Len(idle) - d)
        at == 1 + Cardinality({i \in DOMAIN left : left[i] < cap})
        all == InsertAt(left, at, cap)
        held == pool.held - TotalOf(Suffix(idle, d)) + cap
    IN IF MAX_POOL_BUFFERS = 0 THEN pool
       ELSE IF d > Len(idle)
       THEN [idle |-> [pool.idle EXCEPT ![layer] = <<>>], held |-> pool.held - TotalOf(idle)]
       ELSE IF Len(all) > MAX_POOL_BUFFERS
       THEN [idle |-> [pool.idle EXCEPT ![layer] = Tail(all)],
             held |-> IF credit THEN held - Head(all) ELSE held]
       ELSE [idle |-> [pool.idle EXCEPT ![layer] = all], held |-> held]

release_contigUncredited(pool, layer, cap) == Put(pool, layer, cap, FALSE)
release_contig(pool, layer, cap) == Put(pool, layer, cap, TRUE)

-----------------------------------------------------------------------------
(* PagedKvCache.  cap = 0 stands for no buffer, stored for the positions    *)
(* written to the block pool (staged and flushed by the same forward).      *)

EmptyCache == [num_tokens |-> 0, blocks |-> 0, stored |-> {}, live |-> <<>>, cap |-> 0]

\* What a forward over new tokens makes a windowed layer keep.  Seeded fault:
\* nothing for a rollback.
SpanBare(window, new) == window + new - 1
Span(window, new) == window + new - 1 + WINDOW_KEEP_MARGIN

\* The positions an append puts into the block pool.  Seeded fault: a single
\* token is taken for a decode step whatever the phase.
StagedByShape(first, new, pool_writes) == IF pool_writes /\ new > 1 THEN first .. first + new - 1 ELSE {}
Staged(first, new, pool_writes) == IF pool_writes THEN first .. first + new - 1 ELSE {}

\* The blocks an append allocates, one whenever it stands at a boundary.
NewBlocks(cache, new) ==
    CeilDiv(cache.num_tokens + new, BLOCK_SIZE) - CeilDiv(cache.num_tokens, BLOCK_SIZE)

\* append: the only possible cache and pool after it.  before is the tokens the
\* block table stands for, read when there is no buffer to extend.
Appended(cache, pool, layer, window, before, tokens, pool_writes) ==
    LET new == Len(tokens)
        prev == cache.num_tokens
        bound(n) == IF window = NoWindow THEN n ELSE MinOf(n, Span(window, new))
        old == IF cache.cap > 0 THEN cache.live ELSE Suffix(SubSeq(before, 1, prev), bound(prev))
        keep == bound(Len(old) + new)
        in_place == cache.cap > 0 /\ Len(old) + new <= cache.cap
        got == IF in_place \/ (cache.cap > 0 /\ keep <= cache.cap)
               THEN {[cap |-> cache.cap, pool |-> pool]}
               ELSE {acquire_contig(pool, layer, keep)}
    IN {[cache |-> [num_tokens |-> prev + new,
                    blocks |-> cache.blocks + NewBlocks(cache, new),
                    stored |-> cache.stored \cup Staged(prev + 1, new, pool_writes),
                    live |-> Suffix(old \o tokens, IF in_place THEN Len(old) + new ELSE keep),
                    cap |-> g.cap],
         pool |-> IF cache.cap \in {0, g.cap} THEN g.pool
                  ELSE release_contig(g.pool, layer, cache.cap)] : g \in got}

\* prepopulate_block for each reused block, then set_num_tokens.
Prepopulated(cache, n) ==
    [cache EXCEPT !.num_tokens = n * BLOCK_SIZE, !.blocks = n, !.stored = 1 .. n * BLOCK_SIZE]

set_num_tokens(cache, n) ==
    [cache EXCEPT !.num_tokens = n,
                  !.live = SubSeq(@, 1, MaxOf(Len(@) - (cache.num_tokens - n), 0))]

\* truncate_to.  Seeded fault: the blocks are kept.
TruncatedKeepingBlocks(cache, n) ==
    IF n >= cache.num_tokens THEN cache ELSE set_num_tokens(cache, n)

Truncated(cache, n) ==
    IF n >= cache.num_tokens THEN cache
    ELSE [set_num_tokens(cache, n) EXCEPT !.blocks = CeilDiv(n, BLOCK_SIZE)]

\* clear hands the buffer back; the blocks go to the allocator.
ClearedPool(cache, pool, layer) ==
    IF cache.cap > 0 THEN release_contig(pool, layer, cache.cap) ELSE pool

=============================================================================
