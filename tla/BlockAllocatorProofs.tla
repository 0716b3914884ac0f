------------------------ MODULE BlockAllocatorProofs ------------------------
(***************************************************************************)
(* Proofs about BlockAllocator, for every ceiling, segment size and bound  *)
(* on the counts: the free list is exactly the blocks nobody holds, the    *)
(* figure the scheduler plans with is exact, and the allocator implements  *)
(* the pool its callers rely on.                                           *)
(***************************************************************************)
EXTENDS BlockAllocator, FiniteSetTheorems, SequenceTheorems, TLAPS

\* The inductive invariant: neither half of the free list's description is
\* inductive alone.  That no id appears twice needs a freed block to have been
\* off the list, and that is the other half.
IInv == TypeOK /\ FreeListDistinct /\ FreeListExact

-----------------------------------------------------------------------------

\* A segment never crosses the ceiling and is empty only at the ceiling.
LEMMA SegmentSizeBounds ==
    ASSUME NEW num \in 0 .. max_blocks
    PROVE  /\ SegmentSize(num) \in 0 .. max_blocks - num
           /\ num < max_blocks => SegmentSize(num) > 0
BY PoolSpecAssumption DEF SegmentSize

\* The ids a growth pushes are the new ones, each once, the lowest on top.
LEMMA NewIdsProperties ==
    ASSUME NEW first \in Nat, NEW n \in Nat
    PROVE  /\ NewIds(first, n) \in Seq(first .. first + n - 1)
           /\ Len(NewIds(first, n)) = n
           /\ \A i \in 1 .. n : NewIds(first, n)[i] = first + n - i
           /\ \A b \in first .. first + n - 1 :
                 first + n - b \in 1 .. n /\ NewIds(first, n)[first + n - b] = b
BY DEF NewIds

-----------------------------------------------------------------------------

LEMMA InitIInv == Init => IInv
<1> SUFFICES ASSUME Init PROVE IInv
    OBVIOUS
<1> DEFINE n == SegmentSize(0)
<1>1. n \in 1 .. max_blocks
    BY SegmentSizeBounds, PoolSpecAssumption
<1>2. /\ NewIds(0, n) \in Seq(0 .. n - 1)
      /\ Len(NewIds(0, n)) = n
      /\ \A i \in 1 .. n : NewIds(0, n)[i] = n - i
      /\ \A b \in 0 .. n - 1 : n - b \in 1 .. n /\ NewIds(0, n)[n - b] = b
    <2>1. n \in Nat /\ 0 \in Nat /\ 0 + n - 1 = n - 1
        BY <1>1, PoolSpecAssumption
    <2> HIDE DEF n
    <2>2. QED
        BY <2>1, NewIdsProperties
<1> HIDE DEF n
<1>3. num_blocks = n /\ free_list = NewIds(0, n)
      /\ ref_counts = [b \in 0 .. n - 1 |-> 0]
    BY DEF Init, n
<1>4. TypeOK
    BY <1>1, <1>2, <1>3, PoolSpecAssumption DEF TypeOK, Materialised
<1>5. FreeListDistinct
    BY <1>1, <1>2, <1>3 DEF FreeListDistinct
<1>6. FreeListExact
    BY <1>1, <1>2, <1>3 DEF FreeListExact, Materialised
<1>7. QED
    BY <1>4, <1>5, <1>6 DEF IInv

LEMMA AllocateFreeIInv == IInv /\ AllocateFree => IInv'
<1> SUFFICES ASSUME IInv, AllocateFree PROVE IInv'
    OBVIOUS
<1> DEFINE m == Len(free_list)
           top == free_list[m]
<1>1. m \in Nat \ {0} /\ \A i \in 1 .. m : free_list[i] \in Materialised
    BY EmptySeq, ElementOfSeq DEF IInv, TypeOK, AllocateFree
<1>2. /\ free_list' \in Seq(Materialised)
      /\ Len(free_list') = m - 1
      /\ \A i \in 1 .. m - 1 : free_list'[i] = free_list[i]
    <2>1. \A i \in 1 .. m - 1 : free_list[i] \in Materialised
        BY <1>1
    <2>2. free_list' = SubSeq(free_list, 1, m - 1) /\ m - 1 \in Int
        BY <1>1 DEF AllocateFree
    <2> HIDE DEF m
    <2>3. QED
        BY <1>1, <2>1, <2>2, SubSeqProperties
<1>3. top \in Materialised /\ ref_counts' = [ref_counts EXCEPT ![top] = 1]
      /\ num_blocks' = num_blocks
    BY <1>1 DEF AllocateFree
<1>4. \A i \in 1 .. m - 1 : free_list[i] # top
    BY <1>1 DEF IInv, FreeListDistinct
<1> HIDE DEF m, top
<1>5. TypeOK'
    BY <1>2, <1>3, PoolSpecAssumption DEF IInv, TypeOK, Materialised
<1>6. FreeListDistinct'
    BY <1>1, <1>2 DEF IInv, FreeListDistinct, m
<1>7. FreeListExact'
    <2> SUFFICES ASSUME NEW b \in Materialised
                 PROVE  (\E i \in 1 .. m - 1 : free_list[i] = b) <=> ref_counts'[b] = 0
        BY <1>1, <1>2, <1>3 DEF FreeListExact, Materialised
    <2>1. CASE b = top
        BY <1>3, <1>4, <2>1 DEF IInv, TypeOK
    <2>2. CASE b # top
        <3>1. ref_counts'[b] = ref_counts[b]
            BY <1>3, <2>2 DEF IInv, TypeOK
        <3>2. (\E i \in 1 .. m - 1 : free_list[i] = b)
                 <=> (\E i \in 1 .. m : free_list[i] = b)
            BY <1>1, <2>2 DEF top
        <3>3. QED
            BY <3>1, <3>2 DEF IInv, FreeListExact, m
    <2>3. QED
        BY <2>1, <2>2
<1>8. QED
    BY <1>5, <1>6, <1>7 DEF IInv

LEMMA AllocateGrowIInv == IInv /\ AllocateGrow => IInv'
<1> SUFFICES ASSUME IInv, AllocateGrow PROVE IInv'
    OBVIOUS
<1> DEFINE n == SegmentSize(num_blocks)
           new == NewIds(num_blocks, n)
<1>1. num_blocks \in 1 .. max_blocks /\ n \in 1 .. max_blocks - num_blocks
    BY SegmentSizeBounds, PoolSpecAssumption DEF IInv, TypeOK, AllocateGrow
<1>2. /\ new \in Seq(num_blocks .. num_blocks + n - 1)
      /\ Len(new) = n
      /\ \A i \in 1 .. n : new[i] = num_blocks + n - i
      /\ \A b \in num_blocks .. num_blocks + n - 1 :
            num_blocks + n - b \in 1 .. n /\ new[num_blocks + n - b] = b
    <2>1. num_blocks \in Nat /\ n \in Nat
        BY <1>1, PoolSpecAssumption
    <2> HIDE DEF n
    <2>2. QED
        BY <2>1, NewIdsProperties
<1>3. /\ num_blocks' = num_blocks + n
      /\ free_list = <<>>
      /\ free_list' = SubSeq(new, 1, n - 1)
      /\ ref_counts' = GrownCounts(ref_counts, num_blocks, n)
    BY DEF AllocateGrow
<1> HIDE DEF n, new
<1>4. /\ free_list' \in Seq(0 .. num_blocks + n - 1)
      /\ Len(free_list') = n - 1
      /\ \A i \in 1 .. n - 1 : free_list'[i] = num_blocks + n - i
    <2>1. \A i \in 1 .. n - 1 : new[i] \in 0 .. num_blocks + n - 1
        BY <1>1, <1>2
    <2>2. QED
        BY <1>1, <1>2, <1>3, <2>1, SubSeqProperties
<1>5. /\ ref_counts' \in [0 .. num_blocks + n - 1 -> 0 .. MaxRefs]
      /\ \A b \in 0 .. num_blocks + n - 1 :
            ref_counts'[b] = IF b = num_blocks THEN 1
                             ELSE IF b < num_blocks THEN ref_counts[b] ELSE 0
    <2>1. /\ max_blocks \in Nat /\ MaxRefs \in Nat \ {0}
          /\ ref_counts \in [0 .. num_blocks - 1 -> 0 .. MaxRefs]
        BY PoolSpecAssumption DEF IInv, TypeOK, Materialised
    <2>2. QED
        BY <1>1, <1>3, <2>1 DEF GrownCounts
<1>6. \A b \in Materialised : ref_counts[b] # 0
    BY <1>3 DEF IInv, FreeListExact
<1>7. TypeOK'
    BY <1>1, <1>3, <1>4, <1>5, PoolSpecAssumption DEF TypeOK, Materialised
<1>8. FreeListDistinct'
    BY <1>1, <1>4 DEF FreeListDistinct
<1>9. FreeListExact'
    <2> SUFFICES ASSUME NEW b \in 0 .. num_blocks + n - 1
                 PROVE  (\E i \in 1 .. n - 1 : num_blocks + n - i = b)
                           <=> ref_counts'[b] = 0
        BY <1>1, <1>3, <1>4 DEF FreeListExact, Materialised
    <2>1. CASE b < num_blocks
        BY <1>1, <1>5, <1>6, <2>1 DEF Materialised
    <2>2. CASE b = num_blocks
        BY <1>1, <1>5, <2>2
    <2>3. CASE b > num_blocks
        <3>1. num_blocks + n - b \in 1 .. n - 1
            BY <1>1, <2>3
        <3>2. QED
            BY <1>1, <1>5, <2>3, <3>1
    <2>4. QED
        BY <1>1, <2>1, <2>2, <2>3
<1>10. QED
    BY <1>7, <1>8, <1>9 DEF IInv

LEMMA ShareIInv ==
    ASSUME NEW b \in Materialised
    PROVE  IInv /\ share(b) => IInv'
<1> SUFFICES ASSUME IInv, share(b) PROVE IInv'
    OBVIOUS
<1>1. /\ free_list' = free_list /\ num_blocks' = num_blocks
      /\ ref_counts \in [Materialised -> 0 .. MaxRefs]
      /\ ref_counts' = [ref_counts EXCEPT ![b] = @ + 1]
      /\ ref_counts[b] > 0 /\ ref_counts[b] < MaxRefs
    BY DEF share, IInv, TypeOK
<1>2. TypeOK'
    BY <1>1, PoolSpecAssumption DEF IInv, TypeOK, Materialised
<1>3. \A c \in Materialised : ref_counts'[c] = 0 <=> ref_counts[c] = 0
    BY <1>1, PoolSpecAssumption
<1>4. FreeListDistinct' /\ FreeListExact'
    BY <1>1, <1>3 DEF IInv, FreeListDistinct, FreeListExact, Materialised
<1>5. QED
    BY <1>2, <1>4 DEF IInv

LEMMA FreeIInv ==
    ASSUME NEW b \in Materialised
    PROVE  IInv /\ free(b) => IInv'
<1> SUFFICES ASSUME IInv, free(b) PROVE IInv'
    OBVIOUS
<1> DEFINE m == Len(free_list)
<1>1. /\ num_blocks' = num_blocks /\ num_blocks \in 1 .. max_blocks
      /\ free_list \in Seq(Materialised) /\ m \in Nat
      /\ ref_counts \in [Materialised -> 0 .. MaxRefs]
      /\ ref_counts' = [ref_counts EXCEPT ![b] = @ - 1]
      /\ ref_counts[b] > 0
    BY LenProperties DEF free, IInv, TypeOK
<1>2. \A c \in Materialised : ref_counts'[c] = IF c = b THEN ref_counts[b] - 1
                                               ELSE ref_counts[c]
    BY <1>1
<1>3. ref_counts' \in [Materialised -> 0 .. MaxRefs]
    BY <1>1, PoolSpecAssumption
<1>4. \A i \in 1 .. m : free_list[i] # b
    BY <1>1 DEF IInv, FreeListExact
<1>5. CASE ref_counts[b] = 1
    <2>1. /\ free_list' \in Seq(Materialised)
          /\ Len(free_list') = m + 1
          /\ \A i \in 1 .. m : free_list'[i] = free_list[i]
          /\ free_list'[m + 1] = b
        BY <1>1, <1>5, AppendProperties DEF free
    <2> HIDE DEF m
    <2>2. TypeOK'
        BY <1>1, <1>3, <2>1 DEF TypeOK, Materialised
    <2>3. FreeListDistinct'
        <3>1. \A i, j \in 1 .. m : free_list[i] = free_list[j] => i = j
            BY DEF IInv, FreeListDistinct, m
        <3>2. \A i \in 1 .. m + 1 : i \in 1 .. m \/ i = m + 1
            BY <1>1 DEF m
        <3>3. QED
            BY <1>4, <2>1, <3>1, <3>2 DEF FreeListDistinct
    <2>4. FreeListExact'
        <3> SUFFICES ASSUME NEW c \in Materialised
                     PROVE  (\E i \in 1 .. m + 1 : free_list'[i] = c)
                               <=> ref_counts'[c] = 0
            BY <1>1, <2>1 DEF FreeListExact, Materialised
        <3>1. CASE c = b
            BY <1>1, <1>2, <1>5, <2>1, <3>1
        <3>2. CASE c # b
            <4>1. (\E i \in 1 .. m + 1 : free_list'[i] = c)
                     <=> (\E i \in 1 .. m : free_list[i] = c)
                <5>1. m \in Nat /\ \A i \in 1 .. m + 1 : i \in 1 .. m \/ i = m + 1
                    BY <1>1 DEF m
                <5>2. \A i \in 1 .. m : i \in 1 .. m + 1
                    BY <5>1
                <5>3. QED
                    BY <2>1, <3>2, <5>1, <5>2
            <4>2. QED
                BY <1>2, <3>2, <4>1 DEF IInv, FreeListExact, m
        <3>3. QED
            BY <3>1, <3>2
    <2>5. QED
        BY <2>2, <2>3, <2>4 DEF IInv
<1>6. CASE ref_counts[b] # 1
    <2>1. free_list' = free_list
        BY <1>6 DEF free
    <2>2. \A c \in Materialised : ref_counts'[c] = 0 <=> ref_counts[c] = 0
        BY <1>1, <1>2, <1>6, PoolSpecAssumption
    <2>3. QED
        BY <1>1, <1>3, <2>1, <2>2
           DEF IInv, TypeOK, FreeListDistinct, FreeListExact, Materialised
<1>7. QED
    BY <1>5, <1>6

LEMMA NextIInv == IInv /\ [Next]_vars => IInv'
<1> SUFFICES ASSUME IInv, [Next]_vars PROVE IInv'
    OBVIOUS
<1>1. CASE AllocateFree
    BY <1>1, AllocateFreeIInv
<1>2. CASE AllocateGrow
    BY <1>2, AllocateGrowIInv
<1>3. CASE AllocateFail \/ UNCHANGED vars
    BY <1>3 DEF AllocateFail, vars, IInv, TypeOK, FreeListDistinct, FreeListExact,
                Materialised
<1>4. CASE \E b \in Materialised : share(b) \/ free(b)
    BY <1>4, ShareIInv, FreeIInv
<1>5. QED
    BY <1>1, <1>2, <1>3, <1>4 DEF Next

\* Whatever sequence of allocations, growths, shares and frees the callers make,
\* the free list is, without repetition, the set of blocks nobody holds.
THEOREM FreeListCorrect == Spec => [](TypeOK /\ FreeListDistinct /\ FreeListExact)
BY InitIInv, NextIInv, PTL DEF Spec, IInv

-----------------------------------------------------------------------------

\* The free list and the blocks not yet materialised, counted, are the blocks
\* without a holder: the ids of the list are a bijection with its positions.
LEMMA NumFreeFromIInv == IInv => NumFreeExact
<1> SUFFICES ASSUME IInv PROVE NumFreeExact
    OBVIOUS
<1> DEFINE m == Len(free_list)
           onList == {b \in Materialised : ref_counts[b] = 0}
           beyond == num_blocks .. max_blocks - 1
<1>1. /\ num_blocks \in 1 .. max_blocks /\ m \in Nat
      /\ free_list \in [1 .. m -> Materialised]
    BY LenProperties DEF IInv, TypeOK
<1>2. \A b \in Materialised :
         (\E i \in 1 .. m : free_list[i] = b) <=> ref_counts[b] = 0
    BY DEF IInv, FreeListExact
<1>3. \A i, j \in 1 .. m : free_list[i] = free_list[j] => i = j
    BY DEF IInv, FreeListDistinct
<1> HIDE DEF m
<1>4. free_list \in Bijection(1 .. m, onList)
    <2>1. free_list \in [1 .. m -> onList]
        BY <1>1, <1>2
    <2>2. \A b \in onList : \E i \in 1 .. m : free_list[i] = b
        BY <1>2
    <2>3. QED
        BY <1>3, <2>1, <2>2 DEF Bijection, Injection, Surjection, IsInjective
<1>5. IsFiniteSet(onList) /\ Cardinality(onList) = m
    <2>1. IsFiniteSet(1 .. m) /\ Cardinality(1 .. m) = m
        BY <1>1, FS_Interval
    <2>2. ExistsBijection(1 .. m, onList)
        BY <1>4 DEF ExistsBijection
    <2>3. QED
        BY <2>1, <2>2, FS_Bijection
<1>6. IsFiniteSet(beyond) /\ Cardinality(beyond) = max_blocks - num_blocks
    BY <1>1, PoolSpecAssumption, FS_Interval
<1>7. onList \cap beyond = {}
    BY <1>1, PoolSpecAssumption DEF Materialised
<1>8. onList \cup beyond = {b \in Ids : b \notin Materialised \/ ref_counts[b] = 0}
    BY <1>1, PoolSpecAssumption DEF Ids, Materialised
<1> HIDE DEF onList, beyond
<1>9. Cardinality(onList \cup beyond) = m + (max_blocks - num_blocks)
    <2>1. Cardinality(onList \cup beyond)
             = Cardinality(onList) + Cardinality(beyond) - Cardinality(onList \cap beyond)
        BY <1>5, <1>6, FS_Union
    <2>2. QED
        <3>1. Cardinality(onList \cap beyond) = 0
            BY <1>7, FS_EmptySet
        <3>2. max_blocks \in Nat /\ num_blocks \in Nat /\ m \in Nat
            BY <1>1, PoolSpecAssumption
        <3>3. QED
            BY <1>5, <1>6, <2>1, <3>1, <3>2
<1>10. QED
    BY <1>8, <1>9 DEF NumFreeExact, num_free, m

\* num_free never over- or under-counts, for every ceiling and segment size.
THEOREM NumFreeCorrect == Spec => []NumFreeExact
BY FreeListCorrect, NumFreeFromIInv, PTL DEF IInv

-----------------------------------------------------------------------------

\* The first segment starts with no holders, and so does everything beyond it.
LEMMA InitImplementsPool == Init => Pool!PoolInit
<1> SUFFICES ASSUME Init PROVE AbstractRefs = [b \in Ids |-> 0]
    BY DEF Pool!PoolInit
<1>1. SegmentSize(0) \in 1 .. max_blocks
    BY SegmentSizeBounds, PoolSpecAssumption
<1>2. QED
    BY <1>1 DEF Init, AbstractRefs, Materialised

\* Every step of the allocator is a step of the pool, or invisible to it.
LEMMA NextImplementsPool == IInv /\ [Next]_vars => [Pool!PoolNext]_AbstractRefs
<1> SUFFICES ASSUME IInv, [Next]_vars
             PROVE  Pool!PoolNext \/ AbstractRefs' = AbstractRefs
    OBVIOUS
<1>0. /\ num_blocks \in 1 .. max_blocks
      /\ ref_counts \in [Materialised -> 0 .. MaxRefs]
      /\ \A b \in Materialised : b \in Ids
    BY PoolSpecAssumption DEF IInv, TypeOK, Materialised, Ids
<1>1. CASE AllocateFree
    <2> DEFINE top == free_list[Len(free_list)]
    <2>1. top \in Materialised /\ ref_counts[top] = 0
        BY <1>1, EmptySeq, ElementOfSeq
           DEF AllocateFree, IInv, TypeOK, FreeListExact
    <2>2. ref_counts' = [ref_counts EXCEPT ![top] = 1] /\ num_blocks' = num_blocks
        BY <1>1 DEF AllocateFree
    <2> HIDE DEF top
    <2>3. AbstractRefs' = [AbstractRefs EXCEPT ![top] = 1]
        BY <1>0, <2>1, <2>2 DEF AbstractRefs, Materialised
    <2>4. AbstractRefs[top] = 0 /\ top \in Ids
        BY <1>0, <2>1 DEF AbstractRefs
    <2>5. QED
        BY <2>3, <2>4 DEF Pool!PoolNext, Pool!PoolAllocate, Pool!Allocated
<1>2. CASE AllocateGrow
    <2> DEFINE n == SegmentSize(num_blocks)
    <2>1. n \in 1 .. max_blocks - num_blocks
        BY <1>0, <1>2, SegmentSizeBounds, PoolSpecAssumption DEF AllocateGrow
    <2>2. /\ num_blocks' = num_blocks + n
          /\ ref_counts' = GrownCounts(ref_counts, num_blocks, n)
        BY <1>2 DEF AllocateGrow
    <2> HIDE DEF n
    <2>3. AbstractRefs' = [AbstractRefs EXCEPT ![num_blocks] = 1]
        <3>1. num_blocks \in Ids
            BY <1>0, <2>1, PoolSpecAssumption DEF Ids
        <3>2. \A b \in Ids : AbstractRefs'[b] = IF b = num_blocks THEN 1 ELSE AbstractRefs[b]
            BY <1>0, <2>1, <2>2, PoolSpecAssumption
               DEF AbstractRefs, Materialised, GrownCounts, Ids
        <3>3. AbstractRefs \in [Ids -> Nat]
            BY <1>0, PoolSpecAssumption DEF AbstractRefs, Materialised
        <3>4. AbstractRefs' = [b \in Ids |-> AbstractRefs'[b]]
            BY DEF AbstractRefs
        <3>5. QED
            BY <3>1, <3>2, <3>3, <3>4
    <2>4. AbstractRefs[num_blocks] = 0 /\ num_blocks \in Ids
        BY <1>0, <2>1, PoolSpecAssumption DEF AbstractRefs, Materialised, Ids
    <2>5. QED
        BY <2>3, <2>4 DEF Pool!PoolNext, Pool!PoolAllocate, Pool!Allocated
<1>3. CASE AllocateFail \/ UNCHANGED vars
    BY <1>3 DEF AllocateFail, vars, AbstractRefs, Materialised
<1>4. ASSUME NEW b \in Materialised, share(b) \/ free(b)
      PROVE  Pool!PoolNext
    <2>1. b \in Ids /\ ref_counts[b] > 0 /\ num_blocks' = num_blocks
        BY <1>0, <1>4 DEF share, free
    <2>2. AbstractRefs[b] > 0
        BY <1>0, <2>1 DEF AbstractRefs
    <2>3. CASE share(b)
        <3>1. AbstractRefs' = [AbstractRefs EXCEPT ![b] = @ + 1]
            BY <1>0, <2>1, <2>3 DEF share, AbstractRefs, Materialised
        <3>2. QED
            BY <2>1, <2>2, <3>1 DEF Pool!PoolNext, Pool!PoolShare, Pool!SharedOnce
    <2>4. CASE free(b)
        <3>1. AbstractRefs' = [AbstractRefs EXCEPT ![b] = @ - 1]
            BY <1>0, <2>1, <2>4 DEF free, AbstractRefs, Materialised
        <3>2. QED
            BY <2>1, <2>2, <3>1 DEF Pool!PoolNext, Pool!PoolFree, Pool!FreedOnce
    <2>5. QED
        BY <1>4, <2>3, <2>4
<1>5. QED
    BY <1>1, <1>2, <1>3, <1>4 DEF Next

\* The allocator implements the pool: its callers may reason about reference
\* counts alone, whatever the segments and the free list do.
THEOREM AllocatorImplementsPool == Spec => ImplementsPool
<1>1. Spec => []IInv
    BY InitIInv, NextIInv, PTL DEF Spec
<1>2. QED
    BY <1>1, InitImplementsPool, NextImplementsPool, PTL
       DEF Spec, ImplementsPool, Pool!PoolSpec

=============================================================================
