---------------------------- MODULE PrefixCache -----------------------------
(***************************************************************************)
(* common/prefix_cache.rs: an LRU list of prompt-prefix blocks.  An entry  *)
(* stands for one full block of tokens in the context of everything before *)
(* it, which the code names by a chain hash; here the name is the prefix   *)
(* itself, so two different prefixes never collide.  The list runs from    *)
(* the least to the most recently used entry.  A disabled cache (recurrent *)
(* models) is a list that stays empty.                                     *)
(***************************************************************************)
EXTENDS Filters, FiniteSetsExt

CONSTANTS BlockSize,       \* tokens per block
          CacheCapacity    \* entries the LRU holds; 0 stands for disabled()

ASSUME PrefixCacheAssumption ==
    /\ BlockSize \in Nat \ {0}
    /\ CacheCapacity \in Nat

-----------------------------------------------------------------------------

\* The chain of block keys of a prompt: its prefixes of whole blocks.
PrefixKey(tokens, i) == SubSeq(tokens, 1, i * BlockSize)

FullBlocks(tokens) == Len(tokens) \div BlockSize

Keys(c) == {c[i].key : i \in DOMAIN c}

EntryOf(c, key) == c[CHOOSE i \in DOMAIN c : c[i].key = key]

\* count_cached_blocks: the longest run of leading blocks that are all present.
CountCachedBlocks(c, tokens) ==
    Max({n \in 0 .. FullBlocks(tokens) :
            \A i \in 1 .. n : PrefixKey(tokens, i) \in Keys(c)})

\* Seeded fault: the blocks in recency order instead of prompt order.
MatchedByRecency(c, tokens) ==
    [i \in 1 .. CountCachedBlocks(c, tokens) |-> c[i].block]

\* The blocks lookup returns, in prompt order.
MatchedBlocks(c, tokens) ==
    [i \in 1 .. CountCachedBlocks(c, tokens) |-> EntryOf(c, PrefixKey(tokens, i)).block]

\* touch, and the recency side of lookup: the hits become the most recent, and
\* of those the deepest block is the last to go.
Touched(c, tokens) ==
    LET hits == {PrefixKey(tokens, i) : i \in 1 .. CountCachedBlocks(c, tokens)}
    IN  Pick(c, {c[i] : i \in {j \in DOMAIN c : c[j].key \notin hits}})
          \o [i \in 1 .. CountCachedBlocks(c, tokens) |-> EntryOf(c, PrefixKey(tokens, i))]

\* What pushing an entry evicts: nothing below capacity, else the oldest.
PushEvicts(c) == IF Len(c) < CacheCapacity THEN <<>> ELSE <<Head(c)>>

\* LruCache::push of a key that is not there yet.
Pushed(c, entry) ==
    Append(IF Len(c) < CacheCapacity THEN c ELSE Tail(c), entry)

=============================================================================
