----------------------- MODULE SpeculativeDecodeProofs ------------------------
(***************************************************************************)
(* Speculative decoding and the paged caches below it, for every pair of   *)
(* models, every prompt, window, block size, margin, draft length and      *)
(* buffer budget.  The inductive invariant:                                *)
(*   Typed         types and bounds;                                       *)
(*   Sound         of each model: blocks for its tokens, and a counter of  *)
(*                 idle buffers that is their sum, within the budget;      *)
(*   PhaseInv      what each model's caches stand for in every phase of a  *)
(*                 cycle: StandFor, with the extra reach behind the window *)
(*                 that a later rollback will need;                        *)
(*   ChainInv      what is accepted but not yet applied goes on greedily   *)
(*                 where the confirmed tokens end;                         *)
(*   StoredInv     what the block pool was given.                          *)
(* The extra reach is the point: CachesComplete alone is not inductive,    *)
(* since truncate_to can only shorten a buffer, so what a rollback leaves  *)
(* depends on what the appends before it kept beyond the window.           *)
(***************************************************************************)
EXTENDS SpeculativeDecode, DataLemmas

-----------------------------------------------------------------------------
(* Sums over the idle buffers of a layer.                                  *)

\* The sum over a sequence of sizes is a natural number.
LEMMA TotalDefined ==
    ASSUME NEW s \in Seq(Nat)
    PROVE  /\ TotalOf(s) = SumFunctionOnSet(s, 1 .. Len(s))
           /\ TotalOf(s) \in Nat
<1>1. Len(s) \in Nat /\ DOMAIN s = 1 .. Len(s) /\ \A i \in 1 .. Len(s) : s[i] \in Nat
    OBVIOUS
<1>2. IsFiniteSet(1 .. Len(s))
    BY <1>1, FS_Interval
<1>3. SumFunctionOnSet(s, 1 .. Len(s)) \in Nat
    BY <1>1, <1>2, SumRemove, Zenon
<1> QED
    BY <1>1, <1>3 DEF TotalOf, SumFunction

\* Nothing weighs nothing.
LEMMA TotalEmpty == TotalOf(<<>>) = 0
    BY SumEmpty DEF TotalOf, SumFunction

\* One buffer weighs its size.
LEMMA TotalOne ==
    ASSUME NEW e \in Nat
    PROVE  TotalOf(<<e>>) = e
<1> DEFINE s == <<e>>
<1>1. IsFiniteSet({1})
    BY FS_Singleton, Zenon
<1>5. \A x \in {1} : s[x] \in Nat
    OBVIOUS
<1>2. s[1] = e /\ {1} \ {1} = {} /\ 1 \in {1} /\ s \in Seq(Nat) /\ 1 .. Len(s) = {1}
    OBVIOUS
<1> HIDE DEF s
<1>3. SumFunctionOnSet(s, {1}) = s[1] + SumFunctionOnSet(s, {1} \ {1})
    BY <1>1, <1>2, <1>5, SumRemove, Zenon
<1>6. SumFunctionOnSet(s, {1} \ {1}) = 0
    BY <1>2, SumEmpty, Zenon
<1>7. TotalOf(s) = SumFunctionOnSet(s, {1})
    BY <1>2, TotalDefined, Zenon
<1>4. TotalOf(s) = e
    BY <1>2, <1>3, <1>6, <1>7
<1> QED
    BY <1>4 DEF s

\* A sum over other names for the same things.
LEMMA SumOverImage ==
    ASSUME NEW v, NEW w, NEW S, IsFiniteSet(S), NEW T, IsFiniteSet(T), NEW f,
           \A x \in S : f[x] \in T, \A y \in T : \E x \in S : y = f[x],
           \A x, y \in S : f[x] = f[y] => x = y,
           \A x \in S : v[x] \in Nat, \A x \in S : w[f[x]] = v[x]
    PROVE  SumFunctionOnSet(v, S) = SumFunctionOnSet(w, T)
<1>1. T = {f[x] : x \in S}
    OBVIOUS
<1>2. SumFunctionOnSet(v, S) = SumFunctionOnSet(w, {f[x] : x \in S})
    BY SumRenamed
<1> QED
    BY <1>1, <1>2

\* A sum over shifted positions.
LEMMA SumShifted ==
    ASSUME NEW t, NEW u, NEW m \in Nat, NEW n \in Nat,
           \A i \in 1 .. n : t[i] \in Nat, \A i \in 1 .. n : u[m + i] = t[i]
    PROVE  SumFunctionOnSet(t, 1 .. n) = SumFunctionOnSet(u, m + 1 .. m + n)
<1> DEFINE D == 1 .. n
           T == m + 1 .. m + n
           f == [i \in D |-> m + i]
<1>1. IsFiniteSet(D) /\ IsFiniteSet(T)
    BY FS_Interval
<1>2. \A x \in D : f[x] \in T
    OBVIOUS
<1>3. \A y \in T : \E x \in D : y = f[x]
    <2>1. \A y \in T : y - m \in D /\ f[y - m] = y
        OBVIOUS
    <2> QED
        BY <2>1
<1>4. \A x, y \in D : f[x] = f[y] => x = y
    OBVIOUS
<1>5. \A x \in D : t[x] \in Nat
    OBVIOUS
<1>6. \A x \in D : u[f[x]] = t[x]
    OBVIOUS
<1> HIDE DEF D, T, f
<1>7. SumFunctionOnSet(t, D) = SumFunctionOnSet(u, T)
    BY <1>1, <1>2, <1>3, <1>4, <1>5, <1>6, SumOverImage
<1> QED
    BY <1>7 DEF D, T

\* The sum of two sequences in a row.
LEMMA TotalConcat ==
    ASSUME NEW s \in Seq(Nat), NEW t \in Seq(Nat)
    PROVE  TotalOf(s \o t) = TotalOf(s) + TotalOf(t)
<1> DEFINE u == s \o t
           m == Len(s)
           n == Len(t)
           S == 1 .. m + n
           T == 1 .. m
<1>1. /\ u \in Seq(Nat) /\ Len(u) = m + n /\ m \in Nat /\ n \in Nat
      /\ \A i \in 1 .. m : u[i] = s[i]
      /\ \A i \in 1 .. n : u[m + i] = t[i]
      /\ \A i \in 1 .. n : t[i] \in Nat
    OBVIOUS
<1>2. \A i \in S : u[i] \in Nat
    OBVIOUS
<1>3. IsFiniteSet(S) /\ IsFiniteSet(T)
    <2>1. 1 \in Int /\ m \in Int /\ m + n \in Int
        OBVIOUS
    <2> QED
        BY <2>1, FS_Interval, Zenon
<1>4. T \in SUBSET S /\ S \ T = m + 1 .. m + n
    BY <1>1
<1>5. TotalOf(u) = SumFunctionOnSet(u, S)
    BY <1>1, TotalDefined
<1> HIDE DEF u, S, T, n, m
<1>6. SumFunctionOnSet(u, S) = SumFunctionOnSet(u, T) + SumFunctionOnSet(u, S \ T)
    BY <1>2, <1>3, <1>4, SumSplit
<1>7. SumFunctionOnSet(t, 1 .. n) = SumFunctionOnSet(u, m + 1 .. m + n)
    BY <1>1, SumShifted
<1>8. SumFunctionOnSet(u, T) = SumFunctionOnSet(s, T)
    BY <1>1, <1>3, SumCongruence, Zenon DEF T
<1> QED
    BY <1>4, <1>5, <1>6, <1>7, <1>8, TotalDefined DEF u, T, n, m

\* A sequence is its first m members and the others.
LEMMA SplitAt ==
    ASSUME NEW S, NEW s \in Seq(S), NEW m \in 0 .. Len(s)
    PROVE  /\ SubSeq(s, 1, m) \in Seq(S) /\ Len(SubSeq(s, 1, m)) = m
           /\ SubSeq(s, m + 1, Len(s)) \in Seq(S) /\ Len(SubSeq(s, m + 1, Len(s))) = Len(s) - m
           /\ s = SubSeq(s, 1, m) \o SubSeq(s, m + 1, Len(s))
<1>1. Len(s) \in Nat /\ m \in Nat /\ 1 \in Int /\ m \in Int /\ m + 1 \in Int /\ Len(s) \in Int
      /\ (\A i \in 1 .. m : s[i] \in S) /\ (\A i \in m + 1 .. Len(s) : s[i] \in S)
    OBVIOUS
<1>2. SubSeq(s, 1, m) \in Seq(S) /\ Len(SubSeq(s, 1, m)) = m
    OBVIOUS
<1>3. SubSeq(s, m + 1, Len(s)) \in Seq(S)
    OBVIOUS
<1>7. Len(SubSeq(s, m + 1, Len(s))) = Len(s) - m
    OBVIOUS
<1>4. 1 \in 1 .. Len(s) + 1 /\ m \in 1 - 1 .. Len(s) /\ Len(s) \in m .. Len(s)
    OBVIOUS
<1>5. SubSeq(s, 1, m) \o SubSeq(s, m + 1, Len(s)) = SubSeq(s, 1, Len(s))
    BY <1>4, ConcatAdjacentSubSeq, Zenon
<1>6. SubSeq(s, 1, Len(s)) = s
    BY SubSeqFull, Zenon
<1> QED
    BY <1>2, <1>3, <1>5, <1>6, <1>7, Zenon

\* Taking the buffer at i out of s leaves the others.
LEMMA TotalRemoveAt ==
    ASSUME NEW s \in Seq(Nat), NEW i \in 1 .. Len(s)
    PROVE  /\ RemoveAt(s, i) \in Seq(Nat)
           /\ TotalOf(RemoveAt(s, i)) = TotalOf(s) - s[i]
<1> DEFINE a == SubSeq(s, 1, i - 1)
           c == SubSeq(s, i, Len(s))
           b == SubSeq(s, i + 1, Len(s))
<1>1. i - 1 \in 0 .. Len(s) /\ i \in 0 .. Len(s) /\ (i - 1) + 1 = i /\ Len(s) \in i .. Len(s)
      /\ s[i] \in Nat /\ <<s[i]>> \in Seq(Nat)
    OBVIOUS
<1>2. a \in Seq(Nat) /\ c \in Seq(Nat) /\ s = a \o c
    BY <1>1, SplitAt, Zenon
<1>3. b \in Seq(Nat)
    BY <1>1, SplitAt, Zenon
<1>4. c = <<s[i]>> \o b
    BY <1>1, SubSeqRecursiveFirst, Zenon
<1> HIDE DEF a, b, c
<1>5. TotalOf(s) = TotalOf(a) + TotalOf(c)
    BY <1>2, TotalConcat, Zenon
<1>6. TotalOf(c) = TotalOf(<<s[i]>>) + TotalOf(b)
    BY <1>1, <1>3, <1>4, TotalConcat, Zenon
<1>7. TotalOf(<<s[i]>>) = s[i]
    BY <1>1, TotalOne, Zenon
<1>8. TotalOf(a \o b) = TotalOf(a) + TotalOf(b)
    BY <1>2, <1>3, TotalConcat, Zenon
<1>9. TotalOf(a) \in Nat /\ TotalOf(b) \in Nat
    BY <1>2, <1>3, TotalDefined, Zenon
<1>10. a \o b \in Seq(Nat)
    BY <1>2, <1>3
<1>11. RemoveAt(s, i) = a \o b
    BY DEF RemoveAt, a, b
<1> QED
    BY <1>1, <1>5, <1>6, <1>7, <1>8, <1>9, <1>10, <1>11

\* Putting one in before i.
LEMMA TotalInsertAt ==
    ASSUME NEW s \in Seq(Nat), NEW i \in 1 .. Len(s) + 1, NEW e \in Nat
    PROVE  /\ InsertAt(s, i, e) \in Seq(Nat)
           /\ Len(InsertAt(s, i, e)) = Len(s) + 1
           /\ TotalOf(InsertAt(s, i, e)) = TotalOf(s) + e
<1> DEFINE a == SubSeq(s, 1, i - 1)
           b == SubSeq(s, i, Len(s))
<1>1. i - 1 \in 0 .. Len(s) /\ (i - 1) + 1 = i /\ <<e>> \in Seq(Nat) /\ Len(<<e>>) = 1
    OBVIOUS
<1>20. SubSeq(s, 1, i - 1) \in Seq(Nat) /\ SubSeq(s, (i - 1) + 1, Len(s)) \in Seq(Nat)
      /\ s = SubSeq(s, 1, i - 1) \o SubSeq(s, (i - 1) + 1, Len(s))
    BY <1>1, SplitAt, Zenon
<1>2. a \in Seq(Nat) /\ b \in Seq(Nat) /\ s = a \o b
    BY <1>1, <1>20, Zenon
<1> HIDE DEF a, b
<1>3. a \o <<e>> \in Seq(Nat) /\ (a \o <<e>>) \o b \in Seq(Nat)
    BY <1>1, <1>2, ConcatProperties, Zenon
<1>4. /\ TotalOf(s) = TotalOf(a) + TotalOf(b)
      /\ TotalOf(a \o <<e>>) = TotalOf(a) + TotalOf(<<e>>)
      /\ TotalOf((a \o <<e>>) \o b) = TotalOf(a \o <<e>>) + TotalOf(b)
    BY <1>1, <1>2, <1>3, TotalConcat, Zenon
<1>5. TotalOf(<<e>>) = e
    BY <1>1, TotalOne, Zenon
<1>6. TotalOf(a) \in Nat /\ TotalOf(b) \in Nat
    BY <1>2, TotalDefined, Zenon
<1>7. /\ Len(s) = Len(a) + Len(b)
      /\ Len(a \o <<e>>) = Len(a) + Len(<<e>>)
      /\ Len((a \o <<e>>) \o b) = Len(a \o <<e>>) + Len(b)
    BY <1>1, <1>2, <1>3, ConcatProperties, Zenon
<1>8. Len(a) \in Nat /\ Len(b) \in Nat
    BY <1>2
<1>9. InsertAt(s, i, e) = (a \o <<e>>) \o b
    BY DEF InsertAt, a, b
<1> QED
    BY <1>1, <1>3, <1>4, <1>5, <1>6, <1>7, <1>8, <1>9

\* Letting go of the first.
LEMMA TotalTail ==
    ASSUME NEW s \in Seq(Nat), s # <<>>
    PROVE  /\ Tail(s) \in Seq(Nat) /\ Head(s) \in Nat
           /\ TotalOf(Tail(s)) = TotalOf(s) - Head(s)
<1> DEFINE a == <<Head(s)>>
           b == Tail(s)
<1>1. a \in Seq(Nat) /\ b \in Seq(Nat) /\ Head(s) \in Nat /\ s = a \o b
    OBVIOUS
<1> HIDE DEF a, b
<1>2. TotalOf(s) = TotalOf(a) + TotalOf(b)
    BY <1>1, TotalConcat
<1>3. TotalOf(a) = Head(s)
    BY <1>1, TotalOne DEF a
<1>4. TotalOf(b) \in Nat
    BY <1>1, TotalDefined, Zenon
<1> QED
    BY <1>1, <1>2, <1>3, <1>4 DEF b

\* Letting go of the last d.
LEMMA TotalSuffix ==
    ASSUME NEW s \in Seq(Nat), NEW d \in 0 .. Len(s)
    PROVE  /\ SubSeq(s, 1, Len(s) - d) \in Seq(Nat) /\ Suffix(s, d) \in Seq(Nat)
           /\ Len(SubSeq(s, 1, Len(s) - d)) = Len(s) - d
           /\ TotalOf(s) = TotalOf(SubSeq(s, 1, Len(s) - d)) + TotalOf(Suffix(s, d))
<1> DEFINE m == Len(s) - d
           a == SubSeq(s, 1, m)
           b == SubSeq(s, m + 1, Len(s))
<1>1. m \in 0 .. Len(s) /\ MaxOf(m, 0) = m
    BY DEF MaxOf
<1>2. Suffix(s, d) = b
    BY <1>1 DEF Suffix
<1> HIDE DEF m
<1>3. a \in Seq(Nat) /\ b \in Seq(Nat) /\ s = a \o b /\ Len(a) = m
    BY <1>1, SplitAt, Zenon
<1> HIDE DEF a, b
<1>4. TotalOf(s) = TotalOf(a) + TotalOf(b)
    BY <1>3, TotalConcat, Zenon
<1> QED
    BY <1>2, <1>3, <1>4 DEF a, m

-----------------------------------------------------------------------------
(* The inductive invariant.                                                *)

CacheType == [num_tokens : Nat, blocks : Int, stored : SUBSET Nat, live : Seq(Vocabulary), cap : Nat]
PoolType == [idle : [Layers -> Seq(Nat)], held : Int]
KvType == [cache : [Layers -> CacheType], pool : PoolType]

Typed ==
    /\ target \in [Vocabulary -> Vocabulary] /\ draft \in [Vocabulary -> Vocabulary]
    /\ all_tokens \in Seq(Vocabulary) /\ Len(all_tokens) >= PromptLength
    /\ emitted \in Seq(Vocabulary) /\ num_generated = Len(emitted)
    /\ status \in {"Waiting", "Running", "Finished", "Failed"}
    /\ pc \in {"prefill", "idle", "draft", "accept"}
    /\ prefilled \in Nat /\ queries \in Nat
    /\ drafts \in Seq(Vocabulary) /\ Len(drafts) <= SPEC_DRAFT_K
    /\ accepted \in Seq(Vocabulary) /\ Len(accepted) <= SPEC_DRAFT_K + 1

\* The buffer of c, if there is one, ends with what its n-th token and those
\* before it put there.
Mirrors(c, T, n) ==
    /\ c.num_tokens = n
    /\ Len(c.live) <= n
    /\ \A i \in 1 .. Len(c.live) : c.live[i] = T[n - Len(c.live) + i]
    /\ c.cap = 0 => Len(c.live) = 0

\* How much of it the buffer must have: everything, or of a sliding layer the
\* window and what a rollback or the older rows of a forward read before it.
Reach(layer, n, extra) == IF layer = "full" THEN n ELSE MinOf(n, Window + extra)

\* The caches of a model stand for the first n tokens of T.
StandFor(kv, T, n, extra) ==
    \A layer \in Layers :
        /\ Mirrors(kv.cache[layer], T, n)
        /\ kv.cache[layer].cap > 0 => Len(kv.cache[layer].live) >= Reach(layer, n, extra)

Buffered(kv) == \A layer \in Layers : kv.cache[layer].cap > 0

\* Confirmed so far when the cycle verified its proposals.
Base == num_tokens(target_kv) - SPEC_DRAFT_K
\* What the caches stand for then.
Speculated == SubSeq(all_tokens, 1, Base) \o drafts

\* The prompt is being processed, behind nothing or behind reused blocks.
InPrefill ==
    /\ status = "Waiting"
    /\ num_tokens(target_kv) < Len(all_tokens)
    /\ StandFor(target_kv, all_tokens, num_tokens(target_kv), 0)
    /\ StandFor(draft_kv, all_tokens, 0, 0)
    /\ num_tokens(target_kv) = 0 =>
          queries = 0 /\ \A layer \in Layers : target_kv.cache[layer].cap = 0

\* The step failed and took the sequence with it.
InFailure ==
    /\ pc = "idle" /\ queries = 0
    /\ StandFor(target_kv, all_tokens, 0, 0)
    /\ StandFor(draft_kv, all_tokens, 0, 0)

\* Between cycles.
InIdle ==
    /\ Buffered(target_kv)
    /\ StandFor(target_kv, all_tokens, Len(all_tokens) - 1, 0)
    /\ num_tokens(draft_kv) < Len(all_tokens)
    /\ num_tokens(draft_kv) > 0 => Buffered(draft_kv)
    /\ StandFor(draft_kv, all_tokens, num_tokens(draft_kv), 0)

\* The draft proposes: its caches are one behind the proposals, and a rollback
\* may take back all but the first of them.
InDraft ==
    /\ status = "Running"
    /\ queries = 0
    /\ Buffered(target_kv)
    /\ StandFor(target_kv, all_tokens, Len(all_tokens) - 1, 0)
    /\ num_tokens(draft_kv) > 0 => Buffered(draft_kv)
    /\ StandFor(draft_kv, all_tokens \o drafts, Len(all_tokens) - 1 + Len(drafts),
                MaxOf(Len(drafts) - 1, 0))

\* Verified proposals are applied: the confirmed tokens but the last are those
\* the caches were given, and what is accepted agrees with the proposals but
\* for the target's own token at its end.
InAccept ==
    /\ status \in {"Running", "Finished"}
    /\ Len(drafts) = SPEC_DRAFT_K
    /\ Buffered(target_kv) /\ Buffered(draft_kv)
    /\ Base \in 1 .. Len(all_tokens)
    /\ Len(all_tokens) + Len(accepted) <= Base + SPEC_DRAFT_K + 1
    /\ accepted = <<>> => Base < Len(all_tokens)
    /\ StandFor(target_kv, Speculated, Base + SPEC_DRAFT_K, SPEC_DRAFT_K)
    /\ StandFor(draft_kv, Speculated, Base + SPEC_DRAFT_K - 1, SPEC_DRAFT_K - 1)
    /\ \A i \in Base + 1 .. Len(all_tokens) - 1 : all_tokens[i] = drafts[i - Base]
    /\ accepted # <<>> /\ Base < Len(all_tokens) =>
          all_tokens[Len(all_tokens)] = drafts[Len(all_tokens) - Base]
    /\ \A i \in 1 .. Len(accepted) - 1 : accepted[i] = drafts[Len(all_tokens) - Base + i]

PhaseInv ==
    /\ pc = "prefill" => InPrefill
    /\ pc # "prefill" => status # "Waiting"
    /\ status = "Failed" => InFailure
    /\ pc = "idle" /\ Alive => InIdle
    /\ pc = "draft" => InDraft
    /\ pc = "accept" => InAccept

\* What is still to be applied goes on where the confirmed tokens end.
ChainInv ==
    pc = "accept" =>
        \A i \in 1 .. Len(accepted) :
            accepted[i] = target[IF i = 1 THEN LastOf(all_tokens) ELSE accepted[i - 1]]

StoredInv ==
    /\ \A layer \in Layers : draft_kv.cache[layer].stored = {}
    /\ pc = "prefill" => \A layer \in Layers :
          target_kv.cache[layer].stored = 1 .. num_tokens(target_kv)
    /\ pc # "prefill" /\ Alive => \A layer \in Layers :
          target_kv.cache[layer].stored = 1 .. prefilled

\* The counter is what is kept, within the budget.
Kept(pool) ==
    /\ pool \in PoolType
    /\ pool.held = TotalOf(pool.idle["sliding"]) + TotalOf(pool.idle["full"])
    /\ pool.held <= ContigLimit

\* Whatever phase it is in, a model's caches have the blocks of their tokens
\* and its idle buffers are accounted for.
Sound(kv) ==
    /\ kv \in KvType
    /\ Kept(kv.pool)
    /\ \A layer \in Layers :
          kv.cache[layer].blocks = CeilDiv(kv.cache[layer].num_tokens, BLOCK_SIZE)

IInv ==
    /\ Typed /\ Sound(target_kv) /\ Sound(draft_kv)
    /\ TokensGreedy /\ ChainInv
    /\ PhaseInv /\ ForwardSeesWindow
    /\ StoredInv

-----------------------------------------------------------------------------
(* The idle buffers.                                                       *)

\* A counter moved by as much as its layer is still the sum of both layers.
LEMMA KeptUpdate ==
    ASSUME NEW pool, Kept(pool), NEW layer \in Layers, NEW s \in Seq(Nat), NEW h \in Int,
           h - TotalOf(s) = pool.held - TotalOf(pool.idle[layer]), h <= ContigLimit
    PROVE  Kept([idle |-> [pool.idle EXCEPT ![layer] = s], held |-> h])
<1> DEFINE idle == [pool.idle EXCEPT ![layer] = s]
           q == [idle |-> idle, held |-> h]
<1>1. pool.idle \in [Layers -> Seq(Nat)] /\ pool.held \in Int
    BY DEF Kept, PoolType
<1>2. pool.idle["sliding"] \in Seq(Nat) /\ pool.idle["full"] \in Seq(Nat)
    BY <1>1 DEF Layers
<1>3. TotalOf(pool.idle["sliding"]) \in Nat /\ TotalOf(pool.idle["full"]) \in Nat /\ TotalOf(s) \in Nat
    BY <1>2, TotalDefined, Zenon
<1>4. idle \in [Layers -> Seq(Nat)] /\ q \in PoolType
    BY <1>1 DEF PoolType
<1>5. q.idle = idle /\ q.held = h
    OBVIOUS
<1>6. pool.held = TotalOf(pool.idle["sliding"]) + TotalOf(pool.idle["full"])
    BY DEF Kept
<1>7. CASE layer = "sliding"
    <2>1. idle["sliding"] = s /\ idle["full"] = pool.idle["full"]
        BY <1>1, <1>7 DEF Layers
    <2>2. h = TotalOf(idle["sliding"]) + TotalOf(idle["full"])
        BY <1>1, <1>3, <1>6, <1>7, <2>1
    <2> QED
        BY <1>4, <1>5, <2>2 DEF Kept
<1>8. CASE layer = "full"
    <2>1. idle["full"] = s /\ idle["sliding"] = pool.idle["sliding"]
        BY <1>1, <1>8 DEF Layers
    <2>2. h = TotalOf(idle["sliding"]) + TotalOf(idle["full"])
        BY <1>1, <1>3, <1>6, <1>8, <2>1
    <2> QED
        BY <1>4, <1>5, <2>2 DEF Kept
<1> QED
    BY <1>7, <1>8 DEF Layers

\* The least of a set of positions.
LEMMA LeastOf ==
    ASSUME NEW S \in SUBSET Nat, S # {}
    PROVE  Min(S) \in S /\ \A y \in S : Min(S) <= y
<1>1. \E x \in S : \A y \in S : x =< y
    BY LeastNatural
<1> QED
    BY <1>1, Zenon DEF Min

\* take or a fresh buffer: one of the size asked for, never an empty one.
LEMMA AcquireKeeps ==
    ASSUME NEW pool, Kept(pool), NEW layer \in Layers, NEW needed \in Nat, needed > 0
    PROVE  /\ acquire_contig(pool, layer, needed).cap \in Nat
           /\ acquire_contig(pool, layer, needed).cap > 0
           /\ Kept(acquire_contig(pool, layer, needed).pool)
<1> DEFINE idle == pool.idle[layer]
           F == Fits(idle, needed)
           i == Min(F)
<1>1. pool.idle \in [Layers -> Seq(Nat)] /\ pool.held \in Int /\ pool.held <= ContigLimit
    BY DEF Kept, PoolType
<1>2. idle \in Seq(Nat) /\ F \in SUBSET (1 .. Len(idle)) /\ F \in SUBSET Nat
    BY <1>1 DEF Fits
<1>3. ContigLimit \in Nat /\ ContigMinimum \in Nat /\ ContigMinimum > 0
    BY CacheAssumption
<1>4. CASE F = {}
    <2>1. /\ acquire_contig(pool, layer, needed).cap = contig_buf_capacity(needed)
          /\ acquire_contig(pool, layer, needed).pool = pool
        BY <1>4 DEF acquire_contig
    <2>2. contig_buf_capacity(needed) \in Nat /\ contig_buf_capacity(needed) > 0
        BY <1>3 DEF contig_buf_capacity, MaxOf, MinOf
    <2> QED
        BY <2>1, <2>2
<1>5. CASE F # {}
    <2> DEFINE q == [idle |-> [pool.idle EXCEPT ![layer] = RemoveAt(idle, i)],
                     held |-> pool.held - idle[i]]
    <2>3. acquire_contig(pool, layer, needed).cap = idle[i]
        BY <1>5 DEF acquire_contig
    <2>4. acquire_contig(pool, layer, needed).pool = q
        BY <1>5 DEF acquire_contig
    <2>1. i \in F
        BY <1>2, <1>5, LeastOf
    <2> HIDE DEF i
    <2>2. i \in 1 .. Len(idle) /\ idle[i] \in Nat /\ idle[i] >= needed
        BY <1>2, <2>1 DEF Fits
    <2>5. RemoveAt(idle, i) \in Seq(Nat) /\ TotalOf(RemoveAt(idle, i)) = TotalOf(idle) - idle[i]
        BY <1>2, <2>2, TotalRemoveAt
    <2>6. TotalOf(idle) \in Nat
        BY <1>2, TotalDefined
    <2>7. /\ pool.held - idle[i] \in Int /\ pool.held - idle[i] <= ContigLimit
          /\ (pool.held - idle[i]) - TotalOf(RemoveAt(idle, i)) = pool.held - TotalOf(pool.idle[layer])
        <3> HIDE DEF idle
        <3>1. TotalOf(RemoveAt(idle, i)) = TotalOf(idle) - idle[i] /\ TotalOf(idle) = TotalOf(pool.idle[layer])
            BY <2>5 DEF idle
        <3> QED
            BY <1>1, <1>3, <2>2, <2>6, <3>1
    <2>8. Kept(q)
        BY <2>5, <2>7, KeptUpdate
    <2> QED
        BY <2>2, <2>3, <2>4, <2>8
<1> QED
    BY <1>4, <1>5

\* put: past the budget or the count buffers go, and the counter with them.
LEMMA ReleaseKeeps ==
    ASSUME NEW pool, Kept(pool), NEW layer \in Layers, NEW cap \in Nat
    PROVE  Kept(release_contig(pool, layer, cap))
<1> DEFINE idle == pool.idle[layer]
           enough == {d \in 0 .. Len(idle) : pool.held - TotalOf(Suffix(idle, d)) + cap <= ContigLimit}
           d == Dropped(pool, layer, cap)
           left == SubSeq(idle, 1, Len(idle) - d)
           at == 1 + Cardinality({i \in DOMAIN left : left[i] < cap})
           all == InsertAt(left, at, cap)
           held == pool.held - TotalOf(Suffix(idle, d)) + cap
           r == release_contig(pool, layer, cap)
<1>1. pool.idle \in [Layers -> Seq(Nat)] /\ pool.held \in Int /\ pool.held <= ContigLimit
    BY DEF Kept, PoolType
<1>2. idle \in Seq(Nat) /\ Len(idle) \in Nat
    BY <1>1
<1>3. ContigLimit \in Nat
    BY CacheAssumption
<1>4. TotalOf(idle) \in Nat
    BY <1>2, TotalDefined
<1>5. r = IF MAX_POOL_BUFFERS = 0 THEN pool
          ELSE IF d > Len(idle)
          THEN [idle |-> [pool.idle EXCEPT ![layer] = <<>>], held |-> pool.held - TotalOf(idle)]
          ELSE IF Len(all) > MAX_POOL_BUFFERS
          THEN [idle |-> [pool.idle EXCEPT ![layer] = Tail(all)], held |-> held - Head(all)]
          ELSE [idle |-> [pool.idle EXCEPT ![layer] = all], held |-> held]
    BY DEF release_contig, Put
<1>6. d \in Int /\ (d <= Len(idle) => d \in enough)
    <2>1. d = IF enough = {} THEN Len(idle) + 1 ELSE Min(enough)
        BY DEF Dropped
    <2>2. enough \in SUBSET Nat
        BY <1>2
    <2>3. enough # {} => Min(enough) \in enough
        BY <2>2, LeastOf
    <2> QED
        BY <1>2, <2>1, <2>2, <2>3
<1> HIDE DEF d, r
<1>7. CASE d > Len(idle)
    <2>1. r = pool \/ r = [idle |-> [pool.idle EXCEPT ![layer] = <<>>], held |-> pool.held - TotalOf(idle)]
        <3> HIDE DEF all, held
        <3> QED
            BY <1>5, <1>7
    <2>2. /\ pool.held - TotalOf(idle) \in Int /\ pool.held - TotalOf(idle) <= ContigLimit
          /\ (pool.held - TotalOf(idle)) - TotalOf(<<>>) = pool.held - TotalOf(pool.idle[layer])
          /\ <<>> \in Seq(Nat)
        BY <1>1, <1>3, <1>4, TotalEmpty
    <2>3. Kept([idle |-> [pool.idle EXCEPT ![layer] = <<>>], held |-> pool.held - TotalOf(idle)])
        BY <2>2, KeptUpdate
    <2> QED
        BY <2>1, <2>3 DEF r
<1>8. CASE d <= Len(idle)
    <2>1. d \in 0 .. Len(idle) /\ pool.held - TotalOf(Suffix(idle, d)) + cap <= ContigLimit
        BY <1>6, <1>8
    <2>2. /\ left \in Seq(Nat) /\ Suffix(idle, d) \in Seq(Nat)
          /\ TotalOf(idle) = TotalOf(left) + TotalOf(Suffix(idle, d))
        BY <1>2, <2>1, TotalSuffix
    <2>3. at \in 1 .. Len(left) + 1
        <3> DEFINE B == {i \in DOMAIN left : left[i] < cap}
        <3>1. DOMAIN left = 1 .. Len(left) /\ Len(left) \in Nat /\ B \subseteq 1 .. Len(left)
            BY <2>2
        <3>2. IsFiniteSet(1 .. Len(left)) /\ Cardinality(1 .. Len(left)) = Len(left)
            <4> DEFINE n == Len(left)
            <4>1. n \in Nat
                BY <3>1
            <4> HIDE DEF n
            <4>2. IsFiniteSet(1 .. n) /\ Cardinality(1 .. n) = n
                BY <4>1, FS_Interval
            <4> QED
                BY <4>2 DEF n
        <3>3. Cardinality(B) \in Nat /\ Cardinality(B) <= Len(left)
            <4> HIDE DEF B
            <4>1. IsFiniteSet(B) /\ Cardinality(B) <= Cardinality(1 .. Len(left))
                BY <3>1, <3>2, FS_Subset, Zenon
            <4> QED
                BY <3>2, <4>1, FS_CardinalityType
        <3>4. at = 1 + Cardinality(B)
            OBVIOUS
        <3> HIDE DEF B, at, left
        <3> QED
            BY <3>1, <3>3, <3>4
    <2> HIDE DEF at
    <2>4. all \in Seq(Nat) /\ TotalOf(all) = TotalOf(left) + cap /\ Len(all) = Len(left) + 1
        BY <2>2, <2>3, TotalInsertAt
    <2>5. TotalOf(Suffix(idle, d)) \in Nat /\ TotalOf(left) \in Nat
        BY <2>2, TotalDefined, Zenon
    <2> HIDE DEF d, left, all
    <2>6. held \in Int /\ held <= ContigLimit
          /\ held - TotalOf(all) = pool.held - TotalOf(pool.idle[layer])
        BY <1>1, <1>4, <2>1, <2>2, <2>4, <2>5
    <2>7. all # <<>>
        BY <2>2, <2>4
    <2>8. Tail(all) \in Seq(Nat) /\ Head(all) \in Nat /\ TotalOf(Tail(all)) = TotalOf(all) - Head(all)
        BY <2>4, <2>7, TotalTail, Zenon
    <2>9. TotalOf(all) \in Nat
        BY <2>4, TotalDefined, Zenon
    <2> HIDE DEF held
    <2>10. /\ held - Head(all) \in Int /\ held - Head(all) <= ContigLimit
           /\ (held - Head(all)) - TotalOf(Tail(all)) = pool.held - TotalOf(pool.idle[layer])
        BY <1>1, <1>3, <1>4, <2>6, <2>8, <2>9
    <2>11. Kept([idle |-> [pool.idle EXCEPT ![layer] = Tail(all)], held |-> held - Head(all)])
        BY <2>8, <2>10, KeptUpdate
    <2>12. Kept([idle |-> [pool.idle EXCEPT ![layer] = all], held |-> held])
        BY <2>4, <2>6, KeptUpdate
    <2>13. \/ r = pool
           \/ r = [idle |-> [pool.idle EXCEPT ![layer] = Tail(all)], held |-> held - Head(all)]
           \/ r = [idle |-> [pool.idle EXCEPT ![layer] = all], held |-> held]
        <3>1. ~ (d > Len(idle))
            BY <1>8, <1>6, <1>2
        <3> QED
            BY <1>5, <3>1
    <2> QED
        BY <2>11, <2>12, <2>13 DEF r
<1> QED
    BY <1>2, <1>6, <1>7, <1>8 DEF r

-----------------------------------------------------------------------------
(* One forward.                                                            *)

\* The last n members of a sequence.
LEMMA SuffixFacts ==
    ASSUME NEW S, NEW s \in Seq(S), NEW n \in Nat, NEW u, u = Suffix(s, n)
    PROVE  /\ u \in Seq(S)
           /\ Len(u) = MinOf(Len(s), n)
           /\ \A i \in 1 .. Len(u) : u[i] = s[Len(s) - Len(u) + i]
<1> DEFINE m == MaxOf(Len(s) - n, 0)
           v == SubSeq(s, m + 1, Len(s))
<1>1. Len(s) \in Nat /\ m \in 0 .. Len(s) /\ Len(s) - m = MinOf(Len(s), n)
    <2>1. \A k, l \in Nat : MaxOf(k - l, 0) \in 0 .. k /\ k - MaxOf(k - l, 0) = MinOf(k, l)
        BY DEF MaxOf, MinOf
    <2>2. Len(s) \in Nat
        OBVIOUS
    <2> QED
        BY <2>1, <2>2
<1>2. u = v
    BY DEF Suffix
<1> HIDE DEF m
<1>3. v \in Seq(S) /\ Len(v) = Len(s) - m
    BY <1>1, SplitAt, Zenon
<1>4. \A i \in 1 .. Len(s) - m : v[i] = s[m + i]
    BY <1>1
<1> HIDE DEF v
<1>5. \A i \in 1 .. Len(v) : v[i] = s[Len(s) - Len(v) + i]
    BY <1>1, <1>3, <1>4
<1> QED
    BY <1>1, <1>2, <1>3, <1>5

\* Blocks are counted in integers.
LEMMA CeilDivType == \A a \in Int : CeilDiv(a, BLOCK_SIZE) \in Int
    BY CacheAssumption DEF CeilDiv

\* T goes on where before had n tokens.
Continues(T, before, n, tokens) ==
    /\ \A i \in 1 .. n : T[i] = before[i]
    /\ \A i \in 1 .. Len(tokens) : T[n + i] = tokens[i]

\* Whatever way the buffer took, in place, folded, moved or gathered, it ends
\* with the new tokens and has kept what the windows behind them read.
LEMMA AppendedFacts ==
    ASSUME NEW cache \in CacheType, NEW pool, Kept(pool), NEW layer \in Layers,
           NEW before \in Seq(Vocabulary), NEW tokens \in Seq(Vocabulary), Len(tokens) > 0,
           NEW pool_writes, NEW n \in Nat, n <= Len(before), Mirrors(cache, before, n),
           NEW e \in Nat, cache.cap > 0 => Len(cache.live) >= Reach(layer, n, e),
           NEW r \in Appended(cache, pool, layer, WindowOf(layer), before, tokens, pool_writes)
    PROVE  /\ r.cache \in CacheType /\ Kept(r.pool)
           /\ r.cache.cap > 0
           /\ r.cache.num_tokens = n + Len(tokens)
           /\ r.cache.blocks = cache.blocks + NewBlocks(cache, Len(tokens))
           /\ r.cache.stored = cache.stored \cup Staged(n + 1, Len(tokens), pool_writes)
           /\ \A T : Continues(T, before, n, tokens) => Mirrors(r.cache, T, n + Len(tokens))
           /\ \A x \in Nat : x <= e + Len(tokens) /\ x <= Len(tokens) - 1 + WINDOW_KEEP_MARGIN
                 => Len(r.cache.live) >= Reach(layer, n + Len(tokens), x)
<1> DEFINE window == WindowOf(layer)
           new == Len(tokens)
           prev == cache.num_tokens
           bound(k) == IF window = NoWindow THEN k ELSE MinOf(k, Span(window, new))
           old == IF cache.cap > 0 THEN cache.live ELSE Suffix(SubSeq(before, 1, prev), bound(prev))
           keep == bound(Len(old) + new)
           in_place == cache.cap > 0 /\ Len(old) + new <= cache.cap
           stays == in_place \/ (cache.cap > 0 /\ keep <= cache.cap)
           got == IF stays
                  THEN {[cap |-> cache.cap, pool |-> pool]}
                  ELSE {acquire_contig(pool, layer, keep)}
           live == Suffix(old \o tokens, IF in_place THEN Len(old) + new ELSE keep)
           C(g) == [num_tokens |-> prev + new,
                    blocks |-> cache.blocks + NewBlocks(cache, new),
                    stored |-> cache.stored \cup Staged(prev + 1, new, pool_writes),
                    live |-> live,
                    cap |-> g.cap]
           P(g) == IF cache.cap \in {0, g.cap} THEN g.pool
                   ELSE release_contig(g.pool, layer, cache.cap)
<1>1. PICK g \in got : r = [cache |-> C(g), pool |-> P(g)]
    BY DEF Appended
<1>2. r.cache = C(g) /\ r.pool = P(g)
    BY <1>1
<1>3. /\ cache.num_tokens \in Nat /\ cache.blocks \in Int /\ cache.stored \in SUBSET Nat
      /\ cache.live \in Seq(Vocabulary) /\ cache.cap \in Nat
    BY DEF CacheType
<1>4. /\ prev = n /\ Len(cache.live) <= n
      /\ \A i \in 1 .. Len(cache.live) : cache.live[i] = before[n - Len(cache.live) + i]
      /\ cache.cap = 0 => Len(cache.live) = 0
    BY DEF Mirrors
<1>5. new \in Nat /\ new >= 1 /\ window \in Nat /\ (layer = "full" <=> window = NoWindow)
      /\ (layer # "full" => window = Window /\ Window >= 1) /\ WINDOW_KEEP_MARGIN \in Nat
    BY SpeculationAssumption, CacheAssumption DEF WindowOf, NoWindow, Layers
<1>6. \A k \in Nat : bound(k) \in Nat /\ bound(k) <= k /\ (k > 0 => bound(k) > 0)
    BY <1>5 DEF MinOf, Span, NoWindow
<1>7. /\ old \in Seq(Vocabulary) /\ Len(old) <= n
      /\ \A i \in 1 .. Len(old) : old[i] = before[n - Len(old) + i]
      /\ cache.cap = 0 => Len(old) = bound(n)
      /\ cache.cap > 0 => Len(old) >= Reach(layer, n, e)
    <2>1. CASE cache.cap > 0
        <3>1. old = cache.live
            BY <2>1
        <3> HIDE DEF old
        <3> QED
            BY <1>3, <1>4, <2>1, <3>1
    <2>2. CASE ~ (cache.cap > 0)
        <3> DEFINE t == SubSeq(before, 1, n)
        <3>1. t \in Seq(Vocabulary) /\ Len(t) = n /\ \A i \in 1 .. n : t[i] = before[i]
            OBVIOUS
        <3>2. bound(n) \in Nat /\ bound(n) <= n
            BY <1>6
        <3>3. old = Suffix(t, bound(n))
            BY <1>4, <2>2
        <3> HIDE DEF t, old, bound
        <3>4. /\ old \in Seq(Vocabulary) /\ Len(old) = MinOf(Len(t), bound(n))
              /\ \A i \in 1 .. Len(old) : old[i] = t[Len(t) - Len(old) + i]
            <4>1. t \in Seq(Vocabulary) /\ bound(n) \in Nat
                BY <3>1, <3>2
            <4> QED
                BY <3>3, <4>1, SuffixFacts
        <3>5. Len(old) = bound(n)
            BY <3>1, <3>2, <3>4 DEF MinOf
        <3>6. \A i \in 1 .. Len(old) : old[i] = before[n - Len(old) + i]
            <4> TAKE i \in 1 .. Len(old)
            <4>1. Len(t) - Len(old) + i \in 1 .. n /\ Len(t) - Len(old) + i = n - Len(old) + i
                BY <3>1, <3>2, <3>5
            <4> QED
                BY <3>1, <3>4, <4>1
        <3> QED
            BY <1>3, <2>2, <3>2, <3>4, <3>5, <3>6
    <2> QED
        BY <2>1, <2>2
<1> HIDE DEF old
<1>8. Len(old) \in Nat /\ keep \in Nat /\ keep > 0 /\ keep <= Len(old) + new
    BY <1>5, <1>6, <1>7
<1>9. g.cap \in Nat /\ g.cap > 0 /\ Kept(g.pool)
    <2>1. CASE stays
        <3>1. g = [cap |-> cache.cap, pool |-> pool]
            BY <2>1
        <3>2. cache.cap > 0
            BY <2>1
        <3> QED
            BY <1>3, <3>1, <3>2
    <2>2. CASE ~stays
        <3>1. g = acquire_contig(pool, layer, keep)
            BY <2>2
        <3> QED
            BY <1>8, <3>1, AcquireKeeps
    <2> QED
        BY <2>1, <2>2
<1>10. Kept(r.pool)
    <2>1. Kept(release_contig(g.pool, layer, cache.cap))
        BY <1>3, <1>9, ReleaseKeeps
    <2> QED
        BY <1>2, <1>9, <2>1
<1> DEFINE L == IF in_place THEN Len(old) + new ELSE keep
           both == old \o tokens
<1>11. /\ both \in Seq(Vocabulary) /\ Len(both) = Len(old) + new
       /\ \A i \in 1 .. Len(old) : both[i] = old[i]
       /\ \A i \in 1 .. new : both[Len(old) + i] = tokens[i]
    BY <1>7
<1>12. L \in Nat /\ L <= Len(old) + new
    BY <1>5, <1>8
<1>13. live = Suffix(both, L)
    OBVIOUS
<1> HIDE DEF both, L, live, C, P, got
<1>14. /\ live \in Seq(Vocabulary) /\ Len(live) = MinOf(Len(both), L)
       /\ \A i \in 1 .. Len(live) : live[i] = both[Len(both) - Len(live) + i]
    <2>1. both \in Seq(Vocabulary)
        BY <1>11
    <2>2. L \in Nat
        BY <1>12
    <2>3. Len(live) = MinOf(Len(both), L)
        BY ONLY <1>13, <2>1, <2>2, SuffixFacts
    <2>4. live \in Seq(Vocabulary)
        BY ONLY <1>13, <2>1, <2>2, SuffixFacts
    <2>5. \A i \in 1 .. Len(live) : live[i] = both[Len(both) - Len(live) + i]
        BY ONLY <1>13, <2>1, <2>2, SuffixFacts
    <2> QED
        BY <2>3, <2>4, <2>5
<1>15. Len(live) = L
    BY <1>5, <1>8, <1>11, <1>12, <1>14 DEF MinOf
<1>16. /\ r.cache.num_tokens = n + new /\ r.cache.blocks = cache.blocks + NewBlocks(cache, new)
       /\ r.cache.stored = cache.stored \cup Staged(n + 1, new, pool_writes)
       /\ r.cache.live = live /\ r.cache.cap = g.cap
    BY <1>2, <1>4 DEF C
<1>17. r.cache \in CacheType
    <2>1. NewBlocks(cache, new) \in Int
        <3>1. cache.num_tokens \in Int /\ cache.num_tokens + new \in Int
            BY <1>3, <1>5
        <3>2. CeilDiv(cache.num_tokens, BLOCK_SIZE) \in Int /\ CeilDiv(cache.num_tokens + new, BLOCK_SIZE) \in Int
            BY <3>1, CeilDivType, Zenon
        <3> QED
            BY <3>2 DEF NewBlocks
    <2>2. Staged(n + 1, new, pool_writes) \in SUBSET Nat
        BY <1>5 DEF Staged
    <2>3. r.cache = [num_tokens |-> n + new, blocks |-> cache.blocks + NewBlocks(cache, new),
                     stored |-> cache.stored \cup Staged(n + 1, new, pool_writes),
                     live |-> live, cap |-> g.cap]
        BY <1>2, <1>4 DEF C
    <2>4. n + new \in Nat /\ cache.blocks + NewBlocks(cache, new) \in Int
          /\ cache.stored \cup Staged(n + 1, new, pool_writes) \in SUBSET Nat
        BY <1>3, <1>5, <2>1, <2>2
    <2> QED
        BY <1>9, <1>14, <2>3, <2>4 DEF CacheType
<1>18. ASSUME NEW T, Continues(T, before, n, tokens)
       PROVE  Mirrors(r.cache, T, n + new)
    <2>1. \A j \in 1 .. Len(old) + new : both[j] = T[n - Len(old) + j]
        <3> TAKE j \in 1 .. Len(old) + new
        <3>1. CASE j <= Len(old)
            <4>1. n - Len(old) + j \in 1 .. n
                BY <1>7, <1>8, <3>1
            <4>2. T[n - Len(old) + j] = before[n - Len(old) + j]
                BY <1>18, <4>1 DEF Continues
            <4> QED
                <5>1. j \in 1 .. Len(old)
                    BY <1>8, <3>1
                <5>2. both[j] = old[j] /\ old[j] = before[n - Len(old) + j]
                    BY <1>7, <1>11, <5>1
                <5> QED
                    BY <4>2, <5>2, Zenon
        <3>2. CASE j > Len(old)
            <4>1. j - Len(old) \in 1 .. new /\ n + (j - Len(old)) = n - Len(old) + j
                  /\ Len(old) + (j - Len(old)) = j
                BY <1>5, <1>8, <3>2
            <4>2. T[n + (j - Len(old))] = tokens[j - Len(old)]
                BY <1>18, <4>1 DEF Continues
            <4>3. both[Len(old) + (j - Len(old))] = tokens[j - Len(old)]
                BY <1>11, <4>1
            <4> QED
                BY <4>1, <4>2, <4>3
        <3> QED
            BY <1>8, <3>1, <3>2
    <2>2. Len(live) <= n + new
        BY <1>5, <1>7, <1>8, <1>12, <1>15
    <2>3. \A i \in 1 .. Len(live) : live[i] = T[n + new - Len(live) + i]
        <3> TAKE i \in 1 .. Len(live)
        <3>1. Len(both) - Len(live) + i \in 1 .. Len(old) + new
            BY <1>5, <1>8, <1>11, <1>12, <1>15
        <3>2. live[i] = both[Len(both) - Len(live) + i]
            BY <1>14
        <3>3. n - Len(old) + (Len(both) - Len(live) + i) = n + new - Len(live) + i
            BY <1>5, <1>8, <1>11, <1>12, <1>15
        <3> QED
            BY <2>1, <3>1, <3>2, <3>3
    <2> QED
        BY <1>9, <1>16, <2>2, <2>3 DEF Mirrors
<1>19. ASSUME NEW x \in Nat, x <= e + new, x <= new - 1 + WINDOW_KEEP_MARGIN
       PROVE  Len(live) >= Reach(layer, n + new, x)
    <2>1. CASE layer = "full"
        <3>1. \A k \in Nat : bound(k) = k
            BY <1>5, <2>1
        <3>2. Len(old) = n
            BY <1>3, <1>7, <1>8, <2>1, <3>1 DEF Reach
        <3> QED
            BY <1>5, <1>15, <2>1, <3>1, <3>2 DEF L, Reach
    <2>2. CASE layer # "full"
        <3>1. \A k \in Nat : bound(k) = MinOf(k, window + new - 1 + WINDOW_KEEP_MARGIN)
            BY <1>5, <2>2 DEF Span
        <3>2. window = Window /\ Window \in Nat /\ Window >= 1
            BY <1>5, <2>2
        <3>3. Reach(layer, n + new, x) = MinOf(n + new, Window + x) /\ Reach(layer, n, e) = MinOf(n, Window + e)
            BY <2>2 DEF Reach
        <3>4. keep = MinOf(Len(old) + new, Window + new - 1 + WINDOW_KEEP_MARGIN)
            BY <1>5, <1>8, <3>1, <3>2
        <3>5. Len(live) = Len(old) + new \/ Len(live) = keep
            BY <1>15 DEF L
        <3>6. CASE cache.cap > 0
            <4>1. Len(old) >= MinOf(n, Window + e)
                BY <1>7, <3>3, <3>6
            <4> HIDE DEF window, new, keep
            <4> QED
                BY <1>5, <1>8, <3>2, <3>3, <3>4, <3>5, <4>1, <1>19 DEF MinOf
        <3>7. CASE cache.cap = 0
            <4>1. Len(old) = MinOf(n, Window + new - 1 + WINDOW_KEEP_MARGIN)
                BY <1>7, <3>1, <3>2, <3>7
            <4> HIDE DEF window, new, keep
            <4> QED
                BY <1>5, <1>8, <3>2, <3>3, <3>4, <3>5, <4>1, <1>19 DEF MinOf
        <3> QED
            BY <1>3, <3>6, <3>7
    <2> QED
        BY <2>1, <2>2
<1> QED
    BY <1>9, <1>10, <1>16, <1>17, <1>18, <1>19

\* The typing of the parts of a model's caches.
LEMMA SoundParts ==
    ASSUME NEW kv, Sound(kv)
    PROVE  /\ kv \in KvType /\ kv.cache \in [Layers -> CacheType]
           /\ \A layer \in Layers : kv.cache[layer] \in CacheType
           /\ Kept(kv.pool)
    BY DEF Sound, KvType

\* A forward, layer by layer: its blocks, its pool writes and what the caches then
\* stand for, for every continuation T of the tokens before.
LEMMA ForwardFacts ==
    ASSUME NEW kv, Sound(kv),
           NEW before \in Seq(Vocabulary), NEW tokens \in Seq(Vocabulary), Len(tokens) > 0,
           NEW pool_writes, NEW n \in Nat, n <= Len(before), NEW e \in Nat,
           StandFor(kv, before, n, e),
           NEW r \in Forward(kv, before, tokens, pool_writes)
    PROVE  /\ Sound(r) /\ Buffered(r)
           /\ \A layer \in Layers : r.cache[layer].stored
                 = kv.cache[layer].stored \cup Staged(n + 1, Len(tokens), pool_writes)
           /\ \A T, x : x \in Nat /\ Continues(T, before, n, tokens)
                        /\ x <= e + Len(tokens) /\ x <= Len(tokens) - 1 + WINDOW_KEEP_MARGIN
                 => StandFor(r, T, n + Len(tokens), x)
<1> DEFINE App(layer, pool) == Appended(kv.cache[layer], pool, layer, WindowOf(layer), before,
                                        tokens, pool_writes)
           both(s, f) == [layer \in Layers |-> IF layer = "sliding" THEN s.cache ELSE f.cache]
<1>1. PICK s \in App("sliding", kv.pool) : \E f \in App("full", s.pool) :
          r = [cache |-> both(s, f), pool |-> f.pool]
    BY DEF Forward
<1>2. PICK f \in App("full", s.pool) : r = [cache |-> both(s, f), pool |-> f.pool]
    BY <1>1
<1>3. /\ r.pool = f.pool /\ r.cache = both(s, f)
      /\ r.cache["sliding"] = s.cache /\ r.cache["full"] = f.cache
    BY <1>2 DEF Layers
<1>4. /\ \A layer \in Layers : kv.cache[layer] \in CacheType
      /\ Kept(kv.pool)
    BY SoundParts
<1>5. "sliding" \in Layers /\ "full" \in Layers
    BY DEF Layers
<1>6. \A layer \in Layers :
         /\ Mirrors(kv.cache[layer], before, n)
         /\ kv.cache[layer].cap > 0 => Len(kv.cache[layer].live) >= Reach(layer, n, e)
    BY DEF StandFor
<1> DEFINE Facts(layer, c) ==
        /\ c \in CacheType
        /\ c.cap > 0
        /\ c.num_tokens = n + Len(tokens)
        /\ c.blocks = kv.cache[layer].blocks + NewBlocks(kv.cache[layer], Len(tokens))
        /\ c.stored = kv.cache[layer].stored \cup Staged(n + 1, Len(tokens), pool_writes)
        /\ \A T : Continues(T, before, n, tokens) => Mirrors(c, T, n + Len(tokens))
        /\ \A x \in Nat : x <= e + Len(tokens) /\ x <= Len(tokens) - 1 + WINDOW_KEEP_MARGIN
              => Len(c.live) >= Reach(layer, n + Len(tokens), x)
<1>7. Facts("sliding", s.cache) /\ Kept(s.pool)
    <2>1. kv.cache["sliding"] \in CacheType /\ Mirrors(kv.cache["sliding"], before, n)
          /\ (kv.cache["sliding"].cap > 0 => Len(kv.cache["sliding"].live) >= Reach("sliding", n, e))
        BY <1>4, <1>5, <1>6
    <2>2. s \in Appended(kv.cache["sliding"], kv.pool, "sliding", WindowOf("sliding"), before,
                         tokens, pool_writes)
        OBVIOUS
    <2> QED
        BY <1>4, <1>5, <2>1, <2>2, AppendedFacts
<1>8. Facts("full", f.cache) /\ Kept(f.pool)
    <2>1. kv.cache["full"] \in CacheType /\ Mirrors(kv.cache["full"], before, n)
          /\ (kv.cache["full"].cap > 0 => Len(kv.cache["full"].live) >= Reach("full", n, e))
        BY <1>4, <1>5, <1>6
    <2>2. f \in Appended(kv.cache["full"], s.pool, "full", WindowOf("full"), before,
                         tokens, pool_writes)
        OBVIOUS
    <2> QED
        BY <1>5, <1>7, <2>1, <2>2, AppendedFacts
<1>9. \A layer \in Layers : Facts(layer, r.cache[layer])
    <2> HIDE DEF Facts
    <2> QED
        BY <1>3, <1>7, <1>8 DEF Layers
<1>10. r \in KvType /\ Kept(r.pool)
    <2>1. \A layer \in Layers : (IF layer = "sliding" THEN s.cache ELSE f.cache) \in CacheType
        BY <1>7, <1>8
    <2>2. both(s, f) \in [Layers -> CacheType]
        BY <2>1
    <2>3. f.pool \in PoolType
        BY <1>8 DEF Kept
    <2> QED
        BY <1>2, <1>3, <1>8, <2>2, <2>3 DEF KvType
<1>11. \A layer \in Layers :
           r.cache[layer].blocks = CeilDiv(r.cache[layer].num_tokens, BLOCK_SIZE)
    <2> TAKE layer \in Layers
    <2>1. /\ kv.cache[layer].num_tokens = n
          /\ kv.cache[layer].blocks = CeilDiv(n, BLOCK_SIZE)
        BY <1>6 DEF Sound, Mirrors
    <2>2. CeilDiv(n, BLOCK_SIZE) \in Int /\ CeilDiv(n + Len(tokens), BLOCK_SIZE) \in Int
        <3>1. n \in Int /\ n + Len(tokens) \in Int
            OBVIOUS
        <3> QED
            BY <3>1, CeilDivType, Zenon
    <2>3. /\ r.cache[layer].num_tokens = n + Len(tokens)
          /\ r.cache[layer].blocks = kv.cache[layer].blocks + NewBlocks(kv.cache[layer], Len(tokens))
        BY <1>9
    <2> QED
        BY <2>1, <2>2, <2>3 DEF NewBlocks
<1> HIDE DEF both
<1>12. Sound(r) /\ Buffered(r)
    BY <1>9, <1>10, <1>11 DEF Sound, Buffered
<1>13. \A T, x : x \in Nat /\ Continues(T, before, n, tokens)
                 /\ x <= e + Len(tokens) /\ x <= Len(tokens) - 1 + WINDOW_KEEP_MARGIN
                 => StandFor(r, T, n + Len(tokens), x)
    BY <1>9 DEF StandFor
<1> QED
    BY <1>9, <1>12, <1>13

\* A cache stands for any sequence with the same first tokens.
LEMMA MirrorsOther ==
    ASSUME NEW c, Len(c.live) \in Nat, NEW T, NEW n \in Nat, Mirrors(c, T, n),
           NEW U, \A i \in 1 .. n : U[i] = T[i]
    PROVE  Mirrors(c, U, n)
<1>1. Len(c.live) <= n /\ \A i \in 1 .. Len(c.live) : c.live[i] = T[n - Len(c.live) + i]
    BY DEF Mirrors
<1>2. \A i \in 1 .. Len(c.live) : n - Len(c.live) + i \in 1 .. n
    BY <1>1
<1>3. \A i \in 1 .. Len(c.live) : c.live[i] = U[n - Len(c.live) + i]
    BY <1>1, <1>2
<1> QED
    BY <1>3 DEF Mirrors

\* What the caches stand for does not depend on the tokens after it, and a
\* longer reach is also a shorter one.
LEMMA StandForOther ==
    ASSUME NEW kv, Sound(kv), NEW T, NEW n \in Nat, NEW e \in Nat, StandFor(kv, T, n, e),
           NEW U, \A i \in 1 .. n : U[i] = T[i], NEW x \in Nat, x <= e
    PROVE  StandFor(kv, U, n, x)
<1> SUFFICES ASSUME NEW layer \in Layers
             PROVE  /\ Mirrors(kv.cache[layer], U, n)
                    /\ kv.cache[layer].cap > 0 => Len(kv.cache[layer].live) >= Reach(layer, n, x)
    BY DEF StandFor
<1> DEFINE c == kv.cache[layer]
<1>1. c \in CacheType
    BY SoundParts
<1>2. c.live \in Seq(Vocabulary) /\ Len(c.live) \in Nat
    BY <1>1 DEF CacheType
<1>3. Mirrors(c, T, n) /\ (c.cap > 0 => Len(c.live) >= Reach(layer, n, e))
    BY DEF StandFor
<1> HIDE DEF c
<1>4. Mirrors(c, U, n)
    BY <1>2, <1>3, MirrorsOther
<1>5. c.cap > 0 => Len(c.live) >= Reach(layer, n, x)
    <2>1. Window \in Nat
        BY SpeculationAssumption
    <2> QED
        BY <1>2, <1>3, <2>1 DEF Reach, MinOf
<1> QED
    BY <1>4, <1>5 DEF c

\* truncate_to, of one layer.
LEMMA TruncatedFacts ==
    ASSUME NEW layer \in Layers, NEW c \in CacheType, NEW n \in Nat, NEW m \in Nat, NEW e \in Nat,
           NEW T, Mirrors(c, T, n), c.cap > 0 => Len(c.live) >= Reach(layer, n, e), n - m <= e,
           c.blocks = CeilDiv(c.num_tokens, BLOCK_SIZE),
           NEW U, \A i \in 1 .. MinOf(n, m) : U[i] = T[i],
           NEW d, d = Truncated(c, m)
    PROVE  /\ d \in CacheType
           /\ d.cap = c.cap /\ d.stored = c.stored
           /\ d.blocks = CeilDiv(d.num_tokens, BLOCK_SIZE)
           /\ Mirrors(d, U, MinOf(n, m))
           /\ d.cap > 0 => Len(d.live) >= Reach(layer, MinOf(n, m), 0)
<1>1. /\ c.num_tokens \in Nat /\ c.blocks \in Int /\ c.stored \in SUBSET Nat
      /\ c.live \in Seq(Vocabulary) /\ c.cap \in Nat /\ Len(c.live) \in Nat
    BY DEF CacheType
<1>2. /\ c.num_tokens = n /\ Len(c.live) <= n
      /\ \A i \in 1 .. Len(c.live) : c.live[i] = T[n - Len(c.live) + i]
      /\ c.cap = 0 => Len(c.live) = 0
    BY DEF Mirrors
<1>3. Window \in Nat
    BY SpeculationAssumption
<1>4. CASE m >= n
    <2>1. d = c /\ MinOf(n, m) = n
        BY <1>2, <1>4 DEF Truncated, MinOf
    <2>2. Mirrors(c, U, n)
        BY <1>1, <2>1, MirrorsOther
    <2>3. c.cap > 0 => Len(c.live) >= Reach(layer, n, 0)
        BY <1>1, <1>3 DEF Reach, MinOf
    <2> QED
        BY <2>1, <2>2, <2>3
<1>5. CASE m < n
    <2> DEFINE k == MaxOf(Len(c.live) - (n - m), 0)
               s == SubSeq(c.live, 1, k)
    <2>1. MinOf(n, m) = m /\ k \in Nat /\ k <= Len(c.live) /\ k <= m
        BY <1>1, <1>2, <1>5 DEF MinOf, MaxOf
    <2>2. d = [num_tokens |-> m, blocks |-> CeilDiv(m, BLOCK_SIZE), stored |-> c.stored,
               live |-> s, cap |-> c.cap]
        <3> HIDE DEF k, s
        <3>1. c = [num_tokens |-> c.num_tokens, blocks |-> c.blocks, stored |-> c.stored,
                   live |-> c.live, cap |-> c.cap]
            BY DEF CacheType
        <3>2. s = SubSeq(c.live, 1, MaxOf(Len(c.live) - (c.num_tokens - m), 0))
            BY <1>2 DEF s, k
        <3>3. set_num_tokens(c, m) = [num_tokens |-> m, blocks |-> c.blocks, stored |-> c.stored,
                                      live |-> s, cap |-> c.cap]
            <4>1. set_num_tokens(c, m) = [c EXCEPT !.num_tokens = m, !.live = s]
                BY <3>2, Zenon DEF set_num_tokens
            <4> QED
                BY <3>1, <4>1
        <3>4. d = [set_num_tokens(c, m) EXCEPT !.blocks = CeilDiv(m, BLOCK_SIZE)]
            BY <1>2, <1>5 DEF Truncated
        <3> QED
            BY <3>3, <3>4
    <2>3. s \in Seq(Vocabulary) /\ Len(s) = k /\ \A i \in 1 .. k : s[i] = c.live[i]
        <3> HIDE DEF k
        <3> QED
            BY <1>1, <2>1
    <2>4. CeilDiv(m, BLOCK_SIZE) \in Int
        <3>1. m \in Int
            OBVIOUS
        <3> QED
            BY <3>1, CeilDivType
    <2>5. d \in CacheType /\ d.cap = c.cap /\ d.stored = c.stored /\ d.num_tokens = m /\ d.live = s
          /\ d.blocks = CeilDiv(m, BLOCK_SIZE)
        <3> HIDE DEF s
        <3> QED
            BY <1>1, <2>2, <2>3, <2>4 DEF CacheType
    <2> HIDE DEF s
    <2>6. k > 0 => Len(c.live) - (n - m) = k
        BY <1>1, <1>2 DEF MaxOf
    <2>7. c.cap = 0 => k = 0
        BY <1>2, <1>5 DEF MaxOf
    <2>8. c.cap > 0 => k >= Reach(layer, m, 0)
        BY <1>1, <1>2, <1>3, <1>5 DEF Reach, MinOf, MaxOf
    <2> HIDE DEF k
    <2>10. \A i \in 1 .. k : s[i] = U[m - k + i]
        <3> TAKE i \in 1 .. k
        <3> DEFINE q == Len(c.live)
        <3>1. q \in Nat /\ k \in Nat /\ k <= q /\ i \in 1 .. k /\ k <= m /\ (k > 0 => q - (n - m) = k)
            BY <1>1, <2>1, <2>6
        <3> HIDE DEF q
        <3>2. i \in 1 .. q /\ n - q + i = m - k + i /\ m - k + i \in 1 .. m
            BY <3>1
        <3>3. s[i] = T[n - q + i]
            BY <1>2, <2>3, <3>2 DEF q
        <3> QED
            BY <2>1, <3>2, <3>3
    <2>9. Mirrors(d, U, m)
        BY <2>1, <2>3, <2>5, <2>7, <2>10 DEF Mirrors
    <2> QED
        BY <2>1, <2>3, <2>5, <2>8, <2>9
<1> QED
    BY <1>4, <1>5

\* A rollback of no more than the reach allows leaves the window whole.
LEMMA RolledFacts ==
    ASSUME NEW kv, Sound(kv), NEW n \in Nat, NEW m \in Nat, NEW e \in Nat, n - m <= e,
           NEW T, StandFor(kv, T, n, e),
           NEW U, \A i \in 1 .. MinOf(n, m) : U[i] = T[i],
           NEW r, r = Rolled(kv, m)
    PROVE  /\ Sound(r) /\ StandFor(r, U, MinOf(n, m), 0)
           /\ Buffered(kv) => Buffered(r)
           /\ \A layer \in Layers : r.cache[layer].stored = kv.cache[layer].stored
<1>1. /\ kv \in KvType /\ kv.cache \in [Layers -> CacheType]
      /\ \A layer \in Layers : kv.cache[layer] \in CacheType
      /\ Kept(kv.pool)
    BY SoundParts
<1>2. /\ r.pool = kv.pool
      /\ \A layer \in Layers : r.cache[layer] = Truncated(kv.cache[layer], m)
    BY <1>1 DEF Rolled, KvType
<1>3. ASSUME NEW layer \in Layers
      PROVE  /\ r.cache[layer] \in CacheType
             /\ r.cache[layer].cap = kv.cache[layer].cap
             /\ r.cache[layer].stored = kv.cache[layer].stored
             /\ r.cache[layer].blocks = CeilDiv(r.cache[layer].num_tokens, BLOCK_SIZE)
             /\ Mirrors(r.cache[layer], U, MinOf(n, m))
             /\ r.cache[layer].cap > 0 => Len(r.cache[layer].live) >= Reach(layer, MinOf(n, m), 0)
    <2>1. /\ kv.cache[layer] \in CacheType /\ Mirrors(kv.cache[layer], T, n)
          /\ (kv.cache[layer].cap > 0 => Len(kv.cache[layer].live) >= Reach(layer, n, e))
          /\ kv.cache[layer].blocks = CeilDiv(kv.cache[layer].num_tokens, BLOCK_SIZE)
        BY <1>1, <1>3 DEF StandFor, Sound
    <2>2. r.cache[layer] = Truncated(kv.cache[layer], m)
        BY <1>2
    <2> QED
        BY <2>1, <2>2, TruncatedFacts
<1>4. r \in KvType
    <2>1. r = [kv EXCEPT !.cache = [layer \in Layers |-> Truncated(kv.cache[layer], m)]]
        BY DEF Rolled
    <2>2. [layer \in Layers |-> Truncated(kv.cache[layer], m)] \in [Layers -> CacheType]
        BY <1>2, <1>3
    <2> QED
        BY <1>1, <2>1, <2>2 DEF KvType
<1>5. Sound(r)
    BY <1>1, <1>2, <1>3, <1>4 DEF Sound
<1>6. StandFor(r, U, MinOf(n, m), 0)
    BY <1>3 DEF StandFor
<1>7. Buffered(kv) => Buffered(r)
    BY <1>3 DEF Buffered
<1> QED
    BY <1>3, <1>5, <1>6, <1>7

\* No cache, no tokens.
LEMMA EmptyFacts ==
    ASSUME NEW kv, kv.cache = [layer \in Layers |-> EmptyCache], kv \in KvType, Kept(kv.pool), NEW T
    PROVE  /\ Sound(kv) /\ StandFor(kv, T, 0, 0)
           /\ num_tokens(kv) = 0
           /\ \A layer \in Layers : kv.cache[layer].stored = {} /\ kv.cache[layer].cap = 0
<1>1. CeilDiv(0, BLOCK_SIZE) = 0
    <2>1. BLOCK_SIZE \in Nat /\ BLOCK_SIZE > 0
        BY CacheAssumption
    <2> QED
        BY <2>1 DEF CeilDiv
<1>2. \A layer \in Layers : /\ kv.cache[layer].num_tokens = 0 /\ kv.cache[layer].blocks = 0
                            /\ kv.cache[layer].stored = {} /\ kv.cache[layer].live = <<>>
                            /\ kv.cache[layer].cap = 0
    BY DEF EmptyCache
<1>3. Len(<<>>) = 0
    OBVIOUS
<1>4. "full" \in Layers
    BY DEF Layers
<1>5. \A layer \in Layers : Mirrors(kv.cache[layer], T, 0)
    BY <1>2, <1>3 DEF Mirrors
<1> QED
    BY <1>1, <1>2, <1>4, <1>5 DEF Sound, StandFor, num_tokens

\* The caches of a new sequence are typed.
LEMMA EmptyType == [layer \in Layers |-> EmptyCache] \in [Layers -> CacheType]
<1>1. EmptyCache \in CacheType
    BY DEF EmptyCache, CacheType
<1> QED
    BY <1>1

\* clear gives both buffers to the pool and forgets every token.
LEMMA ClearedFacts ==
    ASSUME NEW kv, Sound(kv), NEW T
    PROVE  /\ Sound(ClearedKv(kv)) /\ StandFor(ClearedKv(kv), T, 0, 0)
           /\ num_tokens(ClearedKv(kv)) = 0
           /\ \A layer \in Layers : 
                 ClearedKv(kv).cache[layer].stored = {} /\ ClearedKv(kv).cache[layer].cap = 0
<1> DEFINE p == ClearedPool(kv.cache["sliding"], kv.pool, "sliding")
           q == ClearedPool(kv.cache["full"], p, "full")
<1>1. /\ "sliding" \in Layers /\ "full" \in Layers /\ Kept(kv.pool)
      /\ kv.cache["sliding"].cap \in Nat /\ kv.cache["full"].cap \in Nat
    <2>1. "sliding" \in Layers /\ "full" \in Layers
        BY DEF Layers
    <2>2. kv.cache["sliding"] \in CacheType /\ kv.cache["full"] \in CacheType /\ Kept(kv.pool)
        BY <2>1, SoundParts
    <2> QED
        BY <2>1, <2>2 DEF CacheType
<1>2. Kept(p)
    BY <1>1, ReleaseKeeps DEF ClearedPool
<1> HIDE DEF p
<1>3. Kept(q)
    BY <1>1, <1>2, ReleaseKeeps DEF ClearedPool
<1>4. ClearedKv(kv) = [cache |-> [layer \in Layers |-> EmptyCache], pool |-> q]
    BY DEF ClearedKv, NewKv, p
<1> HIDE DEF q
<1>5. q \in PoolType
    BY <1>3 DEF Kept
<1>6. /\ ClearedKv(kv) \in KvType /\ Kept(ClearedKv(kv).pool)
      /\ ClearedKv(kv).cache = [layer \in Layers |-> EmptyCache]
    BY <1>3, <1>4, <1>5, EmptyType DEF KvType
<1> QED
    BY <1>6, EmptyFacts

-----------------------------------------------------------------------------
(* Every step keeps the invariant.                                         *)

\* What the constants are.
LEMMA Constants ==
    /\ SPEC_DRAFT_K \in Nat /\ SPEC_DRAFT_K >= 1 /\ PromptLength \in Nat /\ PromptLength >= 1
    /\ Window \in Nat /\ Window >= 1 /\ BLOCK_SIZE \in Nat /\ BLOCK_SIZE >= 1
    /\ WINDOW_KEEP_MARGIN \in Nat /\ WINDOW_KEEP_MARGIN >= SPEC_DRAFT_K - 1
    /\ StopToken \in Vocabulary
    BY SpeculationAssumption, CacheAssumption

\* The number of tokens is what the caches stand for.
LEMMA StandForCount ==
    ASSUME NEW kv, NEW T, NEW n, NEW e, StandFor(kv, T, n, e)
    PROVE  num_tokens(kv) = n /\ \A layer \in Layers : kv.cache[layer].num_tokens = n
    BY DEF StandFor, Mirrors, num_tokens, Layers

\* What ForwardSeesWindow says of the target, of any caches.
Sees(kv, q) ==
    LET c == kv.cache["sliding"] IN
    /\ q > 0 => Len(c.live) >= MinOf(c.num_tokens, Window + q - 1)
    /\ Len(kv.cache["full"].live) \in {0, num_tokens(kv)}

\* Caches that stand for n tokens let a query read its window.
LEMMA StandForSees ==
    ASSUME NEW kv, Sound(kv), NEW T, NEW n \in Nat, NEW x \in Nat, StandFor(kv, T, n, x),
           NEW q \in Nat, q > 0 => x >= q - 1 /\ Buffered(kv)
    PROVE  Sees(kv, q)
<1> DEFINE c == kv.cache["sliding"]
           f == kv.cache["full"]
<1>1. "sliding" \in Layers /\ "full" \in Layers /\ "sliding" # "full"
    BY DEF Layers
<1>2. c \in CacheType /\ f \in CacheType
    BY <1>1, SoundParts
<1>3. Len(c.live) \in Nat /\ Len(f.live) \in Nat /\ f.cap \in Nat
    <2>1. \A d \in CacheType : d.live \in Seq(Vocabulary) /\ d.cap \in Nat
        BY DEF CacheType
    <2> HIDE DEF c, f
    <2> QED
        BY <1>2, <2>1
<1>4. /\ c.num_tokens = n /\ f.num_tokens = n /\ num_tokens(kv) = n
    BY <1>1, StandForCount
<1>5. /\ c.cap > 0 => Len(c.live) >= Reach("sliding", n, x)
      /\ f.cap > 0 => Len(f.live) >= Reach("full", n, x)
    BY <1>1 DEF StandFor
<1>6. Len(f.live) <= n /\ (f.cap = 0 => Len(f.live) = 0)
    BY <1>1 DEF StandFor, Mirrors
<1>7. q > 0 => c.cap > 0 /\ x >= q - 1
    BY <1>1 DEF Buffered
<1> HIDE DEF c, f
<1>8. q > 0 => Len(c.live) >= MinOf(n, Window + q - 1)
    BY <1>1, <1>3, <1>5, <1>7, Constants DEF Reach, MinOf
<1>9. Len(f.live) \in {0, n}
    BY <1>3, <1>5, <1>6 DEF Reach
<1> QED
    BY <1>4, <1>8, <1>9 DEF Sees, c, f

\* The confirmed tokens are never none.
LEMMA TokensTyped ==
    ASSUME Typed
    PROVE  /\ Len(all_tokens) \in Nat /\ Len(all_tokens) >= 1
           /\ LastOf(all_tokens) \in Vocabulary
           /\ \A v \in Vocabulary : target[v] \in Vocabulary /\ draft[v] \in Vocabulary
<1>1. Len(all_tokens) \in Nat /\ Len(all_tokens) >= 1 /\ all_tokens \in Seq(Vocabulary)
    BY Constants DEF Typed
<1>2. LastOf(all_tokens) \in Vocabulary
    BY <1>1 DEF LastOf
<1> QED
    BY <1>1, <1>2 DEF Typed

\* A token goes behind the confirmed ones; if it is the target's choice, the
\* sequence stays a greedy one.
LEMMA AppliedFacts ==
    ASSUME Typed, NEW tok \in Vocabulary, Applied(tok)
    PROVE  /\ all_tokens' \in Seq(Vocabulary) /\ Len(all_tokens') = Len(all_tokens) + 1
           /\ \A i \in 1 .. Len(all_tokens) : all_tokens'[i] = all_tokens[i]
           /\ all_tokens'[Len(all_tokens) + 1] = tok /\ LastOf(all_tokens') = tok
           /\ emitted' \in Seq(Vocabulary) /\ num_generated' = Len(emitted')
           /\ status' \in {"Running", "Finished"}
           /\ TokensGreedy /\ UNCHANGED target /\ tok = target[LastOf(all_tokens)] => TokensGreedy'
<1>1. all_tokens \in Seq(Vocabulary) /\ Len(all_tokens) \in Nat /\ Len(all_tokens) >= 1
      /\ all_tokens' = Append(all_tokens, tok)
    BY TokensTyped DEF Typed, Applied
<1>2. /\ all_tokens' \in Seq(Vocabulary) /\ Len(all_tokens') = Len(all_tokens) + 1
      /\ \A i \in 1 .. Len(all_tokens) : all_tokens'[i] = all_tokens[i]
      /\ all_tokens'[Len(all_tokens) + 1] = tok
    BY <1>1
<1>3. LastOf(all_tokens') = tok
    BY <1>2 DEF LastOf
<1>4. emitted' \in Seq(Vocabulary) /\ num_generated' = Len(emitted') /\ status' \in {"Running", "Finished"}
    <2>1. emitted \in Seq(Vocabulary) /\ num_generated = Len(emitted)
        BY DEF Typed
    <2>2. CASE tok = StopToken
        BY <2>1, <2>2 DEF Applied
    <2>3. CASE tok # StopToken
        <3>1. /\ num_generated' = num_generated + 1 /\ emitted' = Append(emitted, tok)
              /\ status' = IF num_generated + 1 >= MaxTokens THEN "Finished" ELSE "Running"
            BY <2>3 DEF Applied
        <3> QED
            BY <2>1, <3>1
    <2> QED
        BY <2>2, <2>3
<1>5. ASSUME TokensGreedy, UNCHANGED target, tok = target[LastOf(all_tokens)]
      PROVE  TokensGreedy'
    <2> SUFFICES ASSUME NEW i \in PromptLength + 1 .. Len(all_tokens) + 1
                 PROVE  all_tokens'[i] = target[all_tokens'[i - 1]]
        BY <1>2, <1>5 DEF TokensGreedy
    <2>1. i \in Nat /\ i >= 2 /\ i - 1 \in 1 .. Len(all_tokens) /\ i - 1 >= PromptLength
        BY <1>1, Constants
    <2>2. all_tokens'[i - 1] = all_tokens[i - 1]
        BY <1>2, <2>1
    <2>3. CASE i = Len(all_tokens) + 1
        <3>1. LastOf(all_tokens) = all_tokens[i - 1]
            BY <1>1, <2>3 DEF LastOf
        <3> QED
            BY <1>2, <1>5, <2>2, <2>3, <3>1
    <2>4. CASE i # Len(all_tokens) + 1
        <3>1. i \in 1 .. Len(all_tokens) /\ i \in PromptLength + 1 .. Len(all_tokens)
            BY <1>1, <2>1, <2>4, Constants
        <3>2. all_tokens[i] = target[all_tokens[i - 1]]
            BY <1>5, <3>1 DEF TokensGreedy
        <3> QED
            BY <1>2, <2>2, <3>1, <3>2
    <2> QED
        BY <2>3, <2>4
<1> QED
    BY <1>2, <1>3, <1>4, <1>5

\* A new sequence.
LEMMA InitHolds == Init => IInv
<1> SUFFICES ASSUME Init PROVE IInv
    OBVIOUS
<1>1. PICK first \in Vocabulary : all_tokens = [i \in 1 .. PromptLength |-> first]
    BY DEF Init
<1>2. all_tokens \in Seq(Vocabulary) /\ Len(all_tokens) = PromptLength
    BY <1>1, Constants
<1>3. /\ target \in [Vocabulary -> Vocabulary] /\ draft \in [Vocabulary -> Vocabulary]
      /\ num_generated = 0 /\ emitted = <<>> /\ status = "Waiting"
      /\ target_kv = NewKv /\ draft_kv = NewKv
      /\ prefilled = 0 /\ queries = 0
      /\ drafts = <<>> /\ accepted = <<>>
      /\ pc = "prefill"
    BY DEF Init
<1>4. Typed
    BY <1>2, <1>3, Constants DEF Typed
<1>5. /\ NewKv \in KvType /\ Kept(NewKv.pool)
      /\ NewKv.cache = [layer \in Layers |-> EmptyCache]
    <2> DEFINE p == [idle |-> [layer \in Layers |-> <<>>], held |-> 0]
    <2>1. p \in PoolType /\ p.idle["sliding"] = <<>> /\ p.idle["full"] = <<>> /\ p.held = 0
        BY DEF PoolType, Layers
    <2>2. Kept(p)
        BY <2>1, TotalEmpty, CacheAssumption DEF Kept
    <2>3. NewKv = [cache |-> [layer \in Layers |-> EmptyCache], pool |-> p]
        BY DEF NewKv
    <2> HIDE DEF p
    <2> QED
        BY <2>1, <2>2, <2>3, EmptyType DEF KvType
<1>6. /\ Sound(NewKv) /\ StandFor(NewKv, all_tokens, 0, 0) /\ num_tokens(NewKv) = 0
      /\ \A layer \in Layers : NewKv.cache[layer].stored = {} /\ NewKv.cache[layer].cap = 0
    BY <1>5, EmptyFacts
<1>7. TokensGreedy
    BY <1>2, Constants DEF TokensGreedy
<1>8. ForwardSeesWindow
    <2>1. Sees(NewKv, 0)
        BY <1>6, StandForSees
    <2> QED
        BY <1>3, <2>1 DEF ForwardSeesWindow, Sees
<1>9. ChainInv
    BY <1>3 DEF ChainInv
<1>10. StoredInv
    BY <1>3, <1>6 DEF StoredInv
<1>11. PhaseInv
    BY <1>2, <1>3, <1>6, Constants DEF PhaseInv, InPrefill, Alive
<1> QED
    BY <1>3, <1>4, <1>6, <1>7, <1>8, <1>9, <1>10, <1>11 DEF IInv

\* Preemption.
LEMMA PreemptStep == IInv /\ Preempt => IInv'
<1> SUFFICES ASSUME IInv, Preempt PROVE IInv'
    OBVIOUS
<1>1. /\ pc' = "prefill" /\ status' = "Waiting" /\ queries' = 0 /\ prefilled' = 0
      /\ target' = target /\ draft' = draft /\ all_tokens' = all_tokens
      /\ num_generated' = num_generated /\ emitted' = emitted
      /\ drafts' = drafts /\ accepted' = accepted
      /\ target_kv' = ClearedKv(target_kv) /\ draft_kv' = ClearedKv(draft_kv)
    BY DEF Preempt, models
<1>2. Typed /\ Sound(target_kv) /\ Sound(draft_kv) /\ TokensGreedy
    BY DEF IInv
<1>3. /\ Sound(target_kv') /\ StandFor(target_kv', all_tokens', 0, 0) /\ num_tokens(target_kv') = 0
      /\ \A layer \in Layers : target_kv'.cache[layer].stored = {} /\ target_kv'.cache[layer].cap = 0
    BY <1>1, <1>2, ClearedFacts
<1>4. /\ Sound(draft_kv') /\ StandFor(draft_kv', all_tokens', 0, 0) /\ num_tokens(draft_kv') = 0
      /\ \A layer \in Layers : draft_kv'.cache[layer].stored = {}
    BY <1>1, <1>2, ClearedFacts
<1>5. Typed'
    BY <1>1, <1>2 DEF Typed
<1>6. TokensGreedy'
    BY <1>1, <1>2 DEF TokensGreedy
<1>7. ForwardSeesWindow'
    <2>1. Sees(target_kv', 0)
        BY <1>3, StandForSees
    <2> QED
        BY <1>1, <2>1 DEF ForwardSeesWindow, Sees
<1>8. ChainInv' /\ StoredInv'
    BY <1>1, <1>3, <1>4 DEF ChainInv, StoredInv
<1>9. PhaseInv'
    <2>1. Len(all_tokens') >= 1
        BY <1>1, <1>2, TokensTyped
    <2> QED
        BY <1>1, <1>3, <1>4, <2>1 DEF PhaseInv, InPrefill, Alive
<1> QED
    BY <1>3, <1>4, <1>5, <1>6, <1>7, <1>8, <1>9 DEF IInv

\* A step that finds no block.
LEMMA CycleFailsStep == IInv /\ CycleFails => IInv'
<1> SUFFICES ASSUME IInv, CycleFails PROVE IInv'
    OBVIOUS
<1>1. /\ pc' = "idle" /\ status' = "Failed" /\ queries' = 0 /\ prefilled' = 0
      /\ target' = target /\ draft' = draft /\ all_tokens' = all_tokens
      /\ num_generated' = num_generated /\ emitted' = emitted
      /\ drafts' = drafts /\ accepted' = accepted
      /\ target_kv' = ClearedKv(target_kv) /\ draft_kv' = ClearedKv(draft_kv)
    BY DEF CycleFails, models
<1>2. Typed /\ Sound(target_kv) /\ Sound(draft_kv) /\ TokensGreedy
    BY DEF IInv
<1>3. /\ Sound(target_kv') /\ StandFor(target_kv', all_tokens', 0, 0) /\ num_tokens(target_kv') = 0
    BY <1>1, <1>2, ClearedFacts
<1>4. /\ Sound(draft_kv') /\ StandFor(draft_kv', all_tokens', 0, 0) /\ num_tokens(draft_kv') = 0
      /\ \A layer \in Layers : draft_kv'.cache[layer].stored = {}
    BY <1>1, <1>2, ClearedFacts
<1>5. Typed'
    BY <1>1, <1>2 DEF Typed
<1>6. TokensGreedy'
    BY <1>1, <1>2 DEF TokensGreedy
<1>7. ForwardSeesWindow'
    <2>1. Sees(target_kv', 0)
        BY <1>3, StandForSees
    <2> QED
        BY <1>1, <2>1 DEF ForwardSeesWindow, Sees
<1>8. ChainInv' /\ StoredInv'
    BY <1>1, <1>4 DEF ChainInv, StoredInv, Alive
<1>9. PhaseInv'
    BY <1>1, <1>3, <1>4 DEF PhaseInv, InFailure, Alive
<1> QED
    BY <1>3, <1>4, <1>5, <1>6, <1>7, <1>8, <1>9 DEF IInv

\* Whole blocks hold block-many tokens.
LEMMA BlocksOf ==
    ASSUME NEW n \in Nat, NEW l \in Nat, n <= l \div BLOCK_SIZE
    PROVE  n * BLOCK_SIZE <= l /\ CeilDiv(n * BLOCK_SIZE, BLOCK_SIZE) = n
<1> DEFINE B == BLOCK_SIZE
           q == l \div B
<1>1. B \in Nat /\ B >= 1
    BY Constants
<1> HIDE DEF B
<1>2. q \in Nat /\ q * B <= l
    BY <1>1
<1> HIDE DEF q
<1>3. n * B <= q * B
    BY <1>1, <1>2 DEF q, B
<1>4. n * B \in Nat /\ q * B \in Nat
    BY <1>1, <1>2
<1>5. n * B <= l
    BY <1>2, <1>3, <1>4
<1>6. (n * B + B - 1) \div B = n
    BY <1>1, <1>4
<1> QED
    BY <1>5, <1>6 DEF B, CeilDiv

\* Cached blocks.
LEMMA ReusePrefixStep == IInv /\ ReusePrefix => IInv'
<1> SUFFICES ASSUME IInv, ReusePrefix PROVE IInv'
    OBVIOUS
<1>1. PICK n \in 1 .. (Len(all_tokens) - 1) \div BLOCK_SIZE :
          target_kv' = [target_kv EXCEPT !.cache = [layer \in Layers |-> Prepopulated(target_kv.cache[layer], n)]]
    BY DEF ReusePrefix
<1>2. /\ pc = "prefill" /\ num_tokens(target_kv) = 0 /\ pc' = pc /\ status' = status /\ queries' = queries
      /\ prefilled' = prefilled /\ target' = target /\ draft' = draft /\ all_tokens' = all_tokens
      /\ num_generated' = num_generated /\ emitted' = emitted
      /\ drafts' = drafts /\ accepted' = accepted /\ draft_kv' = draft_kv
    BY DEF ReusePrefix, models, output
<1>3. Typed /\ Sound(target_kv) /\ Sound(draft_kv) /\ TokensGreedy /\ StoredInv
    BY DEF IInv
<1>4. InPrefill
    BY <1>2 DEF IInv, PhaseInv
<1>5. /\ status = "Waiting" /\ StandFor(target_kv, all_tokens, 0, 0) /\ StandFor(draft_kv, all_tokens, 0, 0)
      /\ queries = 0 /\ \A layer \in Layers : target_kv.cache[layer].cap = 0
    BY <1>2, <1>4 DEF InPrefill
<1> DEFINE N == n * BLOCK_SIZE
<1>6. N \in Nat /\ N > 0 /\ N < Len(all_tokens) /\ CeilDiv(N, BLOCK_SIZE) = n /\ n \in Nat
    <2>1. Len(all_tokens) - 1 \in Nat
        BY <1>3, TokensTyped
    <2>2. n \in Nat /\ n >= 1 /\ n <= (Len(all_tokens) - 1) \div BLOCK_SIZE
        <3>1. (Len(all_tokens) - 1) \div BLOCK_SIZE \in Int
            BY <2>1, Constants
        <3> QED
            BY <3>1
    <2>3. N <= Len(all_tokens) - 1 /\ CeilDiv(N, BLOCK_SIZE) = n
        BY <2>1, <2>2, BlocksOf
    <2>4. N \in Nat /\ N > 0
        BY <2>2, Constants
    <2> QED
        BY <2>1, <2>2, <2>3, <2>4
<1> HIDE DEF N
<1>7. /\ target_kv \in KvType /\ target_kv.cache \in [Layers -> CacheType]
      /\ \A layer \in Layers : target_kv.cache[layer] \in CacheType
      /\ Kept(target_kv.pool)
    BY <1>3, SoundParts
<1>8. ASSUME NEW layer \in Layers
      PROVE  /\ target_kv.cache[layer].live = <<>>
             /\ Prepopulated(target_kv.cache[layer], n)
                  = [num_tokens |-> N, blocks |-> n, stored |-> 1 .. N, live |-> <<>>, cap |-> 0]
    <2> DEFINE c == target_kv.cache[layer]
    <2>1. c \in CacheType /\ c.cap = 0 /\ Mirrors(c, all_tokens, 0)
        BY <1>5, <1>7, <1>8 DEF StandFor
    <2> HIDE DEF c
    <2>2. c.live \in Seq(Vocabulary) /\ Len(c.live) = 0
        BY <2>1 DEF CacheType, Mirrors
    <2>3. c.live = <<>>
        BY <2>2
    <2>4. c = [num_tokens |-> c.num_tokens, blocks |-> c.blocks, stored |-> c.stored,
               live |-> <<>>, cap |-> 0]
        BY <2>1, <2>3 DEF CacheType
    <2>5. Prepopulated(c, n) = [c EXCEPT !.num_tokens = N, !.blocks = n, !.stored = 1 .. N]
        BY DEF Prepopulated, N
    <2>6. Prepopulated(c, n) = [num_tokens |-> N, blocks |-> n, stored |-> 1 .. N, live |-> <<>>, cap |-> 0]
        <3> DEFINE a == c.num_tokens
                   b == c.blocks
                   d == c.stored
        <3>1. c = [num_tokens |-> a, blocks |-> b, stored |-> d, live |-> <<>>, cap |-> 0]
            BY <2>4
        <3> HIDE DEF a, b, d
        <3> QED
            BY <2>5, <3>1
    <2> QED
        BY <2>3, <2>6 DEF c
<1> DEFINE C == [num_tokens |-> N, blocks |-> n, stored |-> 1 .. N, live |-> <<>>, cap |-> 0]
<1>9. C \in CacheType
    BY <1>6 DEF CacheType
<1>10. target_kv' = [target_kv EXCEPT !.cache = [layer \in Layers |-> C]]
    <2>1. [layer \in Layers |-> Prepopulated(target_kv.cache[layer], n)] = [layer \in Layers |-> C]
        BY <1>8
    <2> QED
        BY <1>1, <2>1
<1>11. C.num_tokens = N /\ C.blocks = n /\ C.stored = 1 .. N /\ C.live = <<>> /\ C.cap = 0
    OBVIOUS
<1> HIDE DEF C
<1>12. /\ target_kv' \in KvType /\ target_kv'.pool = target_kv.pool
       /\ \A layer \in Layers : target_kv'.cache[layer] = C
    BY <1>7, <1>9, <1>10 DEF KvType
<1>13. Sound(target_kv') /\ num_tokens(target_kv') = N
    BY <1>6, <1>7, <1>11, <1>12 DEF Sound, num_tokens, Layers
<1>14. StandFor(target_kv', all_tokens', N, 0)
    <2>1. Len(<<>>) = 0
        OBVIOUS
    <2>2. Mirrors(C, all_tokens', N)
        BY <1>6, <1>11, <2>1 DEF Mirrors
    <2>3. ~ (C.cap > 0)
        BY <1>11
    <2> QED
        BY <1>12, <2>2, <2>3 DEF StandFor
<1>15. Typed' /\ Sound(draft_kv') /\ TokensGreedy'
    BY <1>2, <1>3 DEF Typed, TokensGreedy
<1>16. ForwardSeesWindow'
    <2>1. Sees(target_kv', 0)
        BY <1>6, <1>13, <1>14, StandForSees
    <2> QED
        BY <1>2, <1>5, <2>1 DEF ForwardSeesWindow, Sees
<1>17. ChainInv' /\ StoredInv'
    BY <1>2, <1>3, <1>11, <1>12, <1>13 DEF ChainInv, StoredInv, Alive
<1>18. PhaseInv'
    BY <1>2, <1>5, <1>6, <1>13, <1>14 DEF PhaseInv, InPrefill, Alive
<1> QED
    BY <1>13, <1>15, <1>16, <1>17, <1>18 DEF IInv

\* A chunk of the prompt.
LEMMA PrefillChunkStep == IInv /\ PrefillChunk => IInv'
<1> SUFFICES ASSUME IInv, PrefillChunk PROVE IInv'
    OBVIOUS
<1> DEFINE done == num_tokens(target_kv)
<1>1. PICK n \in 1 .. Len(all_tokens) - done :
          /\ target_kv' \in Forward(target_kv, all_tokens, SubSeq(all_tokens, done + 1, done + n), TRUE)
          /\ queries' = n
          /\ prefilled' = done + n
          /\ IF done + n < Len(all_tokens) THEN UNCHANGED <<output, pc>>
             ELSE Applied(target[LastOf(all_tokens)]) /\ pc' = "idle"
    BY DEF PrefillChunk
<1>2. /\ pc = "prefill" /\ target' = target /\ draft' = draft /\ draft_kv' = draft_kv
      /\ drafts' = drafts /\ accepted' = accepted
    BY DEF PrefillChunk, models
<1>3. Typed /\ Sound(target_kv) /\ Sound(draft_kv) /\ TokensGreedy /\ StoredInv /\ InPrefill
    BY <1>2 DEF IInv, PhaseInv
<1>4. /\ status = "Waiting" /\ done < Len(all_tokens)
      /\ StandFor(target_kv, all_tokens, done, 0) /\ StandFor(draft_kv, all_tokens, 0, 0)
    BY <1>3 DEF InPrefill
<1>5. done \in Nat
    <2>1. "full" \in Layers
        BY DEF Layers
    <2>2. target_kv.cache["full"] \in CacheType
        BY <1>3, <2>1, SoundParts
    <2> QED
        BY <2>2 DEF CacheType, num_tokens
<1> HIDE DEF done
<1> DEFINE tokens == SubSeq(all_tokens, done + 1, done + n)
<1>6. all_tokens \in Seq(Vocabulary) /\ Len(all_tokens) \in Nat /\ Len(all_tokens) >= 1
    BY <1>3, TokensTyped DEF Typed
<1>7. n \in Nat /\ n >= 1 /\ done + n <= Len(all_tokens) /\ done + n \in Nat
    BY <1>5, <1>6
<1>8. /\ tokens \in Seq(Vocabulary) /\ Len(tokens) = n
      /\ \A i \in 1 .. n : tokens[i] = all_tokens[done + i]
    BY <1>5, <1>6, <1>7
<1>9. Continues(all_tokens, all_tokens, done, tokens)
    BY <1>8 DEF Continues
<1> HIDE DEF tokens
<1>10. /\ Sound(target_kv') /\ Buffered(target_kv')
       /\ \A layer \in Layers : target_kv'.cache[layer].stored
             = target_kv.cache[layer].stored \cup Staged(done + 1, Len(tokens), TRUE)
       /\ \A T, x : x \in Nat /\ Continues(T, all_tokens, done, tokens)
                    /\ x <= 0 + Len(tokens) /\ x <= Len(tokens) - 1 + WINDOW_KEEP_MARGIN
             => StandFor(target_kv', T, done + Len(tokens), x)
    <2>1. target_kv' \in Forward(target_kv, all_tokens, tokens, TRUE)
        BY <1>1 DEF tokens
    <2>2. Len(tokens) > 0 /\ done <= Len(all_tokens) /\ 0 \in Nat
        BY <1>4, <1>5, <1>6, <1>7, <1>8
    <2> QED
        BY <1>3, <1>4, <1>5, <1>6, <1>8, <2>1, <2>2, ForwardFacts
<1>11. StandFor(target_kv', all_tokens, done + n, n - 1) /\ n - 1 \in Nat
    BY <1>7, <1>8, <1>9, <1>10, Constants
<1>12. StandFor(target_kv', all_tokens, done + n, 0)
    BY <1>7, <1>10, <1>11, StandForOther
<1>13. num_tokens(target_kv') = done + n
    BY <1>12, StandForCount
<1>14. ForwardSeesWindow'
    <2>1. Sees(target_kv', n)
        BY <1>7, <1>10, <1>11, StandForSees
    <2> QED
        BY <1>1, <2>1 DEF ForwardSeesWindow, Sees
<1>15. \A layer \in Layers : target_kv'.cache[layer].stored = 1 .. done + n
    <2> TAKE layer \in Layers
    <2>1. target_kv.cache[layer].stored = 1 .. done
        BY <1>2, <1>3 DEF StoredInv, done
    <2>2. Staged(done + 1, n, TRUE) = done + 1 .. done + n
        BY <1>5, <1>7 DEF Staged
    <2>3. (1 .. done) \cup (done + 1 .. done + n) = 1 .. done + n
        BY <1>5, <1>7
    <2> QED
        BY <1>8, <1>10, <2>1, <2>2, <2>3
<1>16. CASE done + n < Len(all_tokens)
    <2>1. all_tokens' = all_tokens /\ num_generated' = num_generated /\ emitted' = emitted
          /\ status' = status /\ pc' = "prefill"
        BY <1>1, <1>2, <1>16 DEF output
    <2>2. Typed' /\ Sound(draft_kv') /\ TokensGreedy'
        BY <1>1, <1>2, <1>3, <1>7, <2>1 DEF Typed, TokensGreedy
    <2>3. ChainInv' /\ StoredInv'
        BY <1>2, <1>3, <1>13, <1>15, <2>1 DEF ChainInv, StoredInv, Alive
    <2>4. PhaseInv'
        BY <1>2, <1>4, <1>5, <1>7, <1>12, <1>13, <1>16, <2>1 DEF PhaseInv, InPrefill, Alive
    <2> QED
        BY <1>10, <1>14, <2>2, <2>3, <2>4 DEF IInv
<1>17. CASE ~ (done + n < Len(all_tokens))
    <2> DEFINE tok == target[LastOf(all_tokens)]
    <2>1. tok \in Vocabulary /\ Applied(tok) /\ pc' = "idle" /\ done + n = Len(all_tokens)
        BY <1>1, <1>3, <1>5, <1>6, <1>7, <1>17, TokensTyped
    <2>2. /\ all_tokens' \in Seq(Vocabulary) /\ Len(all_tokens') = Len(all_tokens) + 1
          /\ \A i \in 1 .. Len(all_tokens) : all_tokens'[i] = all_tokens[i]
          /\ emitted' \in Seq(Vocabulary) /\ num_generated' = Len(emitted')
          /\ status' \in {"Running", "Finished"}
          /\ TokensGreedy'
        BY <1>2, <1>3, <2>1, AppliedFacts
    <2> HIDE DEF tok
    <2>3. Typed' /\ Sound(draft_kv')
        <3>1. prefilled' \in Nat /\ queries' \in Nat /\ Len(all_tokens') >= PromptLength
            BY <1>1, <1>3, <1>6, <1>7, <2>2, Constants DEF Typed
        <3> QED
            BY <1>2, <1>3, <2>1, <2>2, <3>1 DEF Typed
    <2>4. ChainInv' /\ StoredInv'
        BY <1>1, <1>2, <1>3, <1>15, <2>1 DEF ChainInv, StoredInv
    <2>5. StandFor(target_kv', all_tokens', Len(all_tokens') - 1, 0)
        <3>1. StandFor(target_kv', all_tokens, Len(all_tokens), 0) /\ Len(all_tokens') - 1 = Len(all_tokens)
            BY <1>6, <1>12, <2>1, <2>2
        <3> QED
            BY <1>6, <1>10, <2>2, <3>1, StandForOther
    <2>6. StandFor(draft_kv', all_tokens', 0, 0) /\ num_tokens(draft_kv') = 0
        <3>1. StandFor(draft_kv, all_tokens', 0, 0)
            <4>1. \A i \in 1 .. 0 : all_tokens'[i] = all_tokens[i]
                OBVIOUS
            <4> QED
                BY <1>3, <1>4, <4>1, StandForOther
        <3> QED
            BY <1>2, <3>1, StandForCount
    <2>7. PhaseInv'
        BY <1>6, <1>10, <2>1, <2>2, <2>5, <2>6 DEF PhaseInv, InIdle, Alive
    <2> QED
        BY <1>10, <1>14, <2>2, <2>3, <2>4, <2>7 DEF IInv
<1> QED
    BY <1>16, <1>17

\* A sequence that is not empty has a length.
LEMMA NonEmptyLength == \A s \in Seq(Vocabulary) : s # <<>> => Len(s) > 0
    OBVIOUS

\* A sequence of one token.
LEMMA Singleton == \A v \in Vocabulary : <<v>> \in Seq(Vocabulary) /\ Len(<<v>>) = 1 /\ <<v>>[1] = v
    OBVIOUS

\* The draft catches up.
LEMMA BeginCycleStep == IInv /\ BeginCycle => IInv'
<1> SUFFICES ASSUME IInv, BeginCycle PROVE IInv'
    OBVIOUS
<1> DEFINE n == num_tokens(draft_kv)
           gap == CatchUp(n)
           L == Len(all_tokens)
<1>1. /\ pc = "idle" /\ status = "Running" /\ drafts' = <<>> /\ pc' = "draft" /\ queries' = 0
      /\ target' = target /\ draft' = draft /\ all_tokens' = all_tokens
      /\ num_generated' = num_generated /\ emitted' = emitted /\ status' = status
      /\ target_kv' = target_kv /\ prefilled' = prefilled /\ accepted' = accepted
    BY DEF BeginCycle, models, output
<1>2. draft_kv' \in IF gap = <<>> THEN {draft_kv} ELSE Forward(draft_kv, all_tokens, gap, FALSE)
    BY DEF BeginCycle
<1>3. Typed /\ Sound(target_kv) /\ Sound(draft_kv) /\ TokensGreedy /\ StoredInv /\ InIdle /\ Alive
    BY <1>1 DEF IInv, PhaseInv, Alive
<1>4. /\ Buffered(target_kv) /\ StandFor(target_kv, all_tokens, L - 1, 0)
      /\ n < L /\ (n > 0 => Buffered(draft_kv)) /\ StandFor(draft_kv, all_tokens, n, 0)
    BY <1>3 DEF InIdle
<1>5. n \in Nat
    <2>1. "full" \in Layers
        BY DEF Layers
    <2>2. draft_kv.cache["full"] \in CacheType
        BY <1>3, <2>1, SoundParts
    <2> QED
        BY <2>2 DEF CacheType, num_tokens
<1> HIDE DEF n
<1>6. all_tokens \in Seq(Vocabulary) /\ L \in Nat /\ L >= 1
    BY <1>3, TokensTyped DEF Typed
<1>7. /\ gap \in Seq(Vocabulary) /\ Len(gap) = L - 1 - n
      /\ \A i \in 1 .. L - 1 - n : gap[i] = all_tokens[n + i]
    BY <1>4, <1>5, <1>6 DEF CatchUp
<1> HIDE DEF gap
<1>8. /\ Sound(draft_kv') /\ StandFor(draft_kv', all_tokens, L - 1, 0)
      /\ (L - 1 > 0 => Buffered(draft_kv'))
      /\ \A layer \in Layers : draft_kv'.cache[layer].stored = {}
    <2>1. \A layer \in Layers : draft_kv.cache[layer].stored = {}
        BY <1>3 DEF StoredInv
    <2>2. CASE gap = <<>>
        <3>1. draft_kv' = draft_kv /\ n = L - 1
            BY <1>2, <1>4, <1>5, <1>6, <1>7, <2>2
        <3> QED
            BY <1>3, <1>4, <2>1, <3>1
    <2>3. CASE gap # <<>>
        <3>1. draft_kv' \in Forward(draft_kv, all_tokens, gap, FALSE) /\ Len(gap) > 0 /\ n <= Len(all_tokens)
              /\ 0 \in Nat
            <4>1. Len(gap) > 0
                BY <1>7, <2>3, NonEmptyLength, Zenon
            <4>2. draft_kv' \in Forward(draft_kv, all_tokens, gap, FALSE)
                BY <1>2, <2>3
            <4>3. n <= Len(all_tokens)
                BY <1>4, <1>5, <1>6
            <4> QED
                BY <4>1, <4>2, <4>3
        <3>2. /\ Sound(draft_kv') /\ Buffered(draft_kv')
              /\ \A layer \in Layers : draft_kv'.cache[layer].stored
                    = draft_kv.cache[layer].stored \cup Staged(n + 1, Len(gap), FALSE)
              /\ \A T, x : x \in Nat /\ Continues(T, all_tokens, n, gap)
                           /\ x <= 0 + Len(gap) /\ x <= Len(gap) - 1 + WINDOW_KEEP_MARGIN
                    => StandFor(draft_kv', T, n + Len(gap), x)
            BY <1>3, <1>4, <1>5, <1>6, <1>7, <3>1, ForwardFacts
        <3>3. Continues(all_tokens, all_tokens, n, gap)
            BY <1>7 DEF Continues
        <3>4. StandFor(draft_kv', all_tokens, n + Len(gap), 0)
            BY <3>1, <3>2, <3>3, Constants
        <3>5. n + Len(gap) = L - 1
            BY <1>5, <1>6, <1>7
        <3>6. Staged(n + 1, Len(gap), FALSE) = {}
            BY DEF Staged
        <3> QED
            BY <2>1, <3>2, <3>4, <3>5, <3>6
    <2> QED
        BY <2>2, <2>3
<1>9. Typed' /\ TokensGreedy' /\ Sound(target_kv')
    BY <1>1, <1>3, Constants DEF Typed, TokensGreedy
<1>10. ForwardSeesWindow'
    <2>1. Sees(target_kv, 0)
        BY <1>3, <1>4, <1>6, StandForSees
    <2> QED
        BY <1>1, <2>1 DEF ForwardSeesWindow, Sees
<1>11. ChainInv' /\ StoredInv'
    BY <1>1, <1>3, <1>8 DEF ChainInv, StoredInv, Alive
<1>12. PhaseInv'
    <2>1. all_tokens' \o drafts' = all_tokens /\ Len(drafts') = 0 /\ MaxOf(Len(drafts') - 1, 0) = 0
          /\ Len(all_tokens') - 1 + Len(drafts') = L - 1
        BY <1>1, <1>6 DEF MaxOf
    <2>2. num_tokens(draft_kv') = L - 1
        BY <1>8, StandForCount
    <2> QED
        BY <1>1, <1>4, <1>8, <2>1, <2>2 DEF PhaseInv, InDraft, Alive
<1> QED
    BY <1>8, <1>9, <1>10, <1>11, <1>12 DEF IInv

\* One proposal.
LEMMA ProposeStep == IInv /\ Propose => IInv'
<1> SUFFICES ASSUME IInv, Propose PROVE IInv'
    OBVIOUS
<1> DEFINE before == all_tokens \o drafts
           cur == LastOf(before)
           tokens == <<cur>>
           L == Len(all_tokens)
           j == Len(drafts)
<1>1. /\ pc = "draft" /\ pc' = pc /\ queries' = queries /\ j < SPEC_DRAFT_K
      /\ target' = target /\ draft' = draft /\ all_tokens' = all_tokens
      /\ num_generated' = num_generated /\ emitted' = emitted /\ status' = status
      /\ target_kv' = target_kv /\ prefilled' = prefilled /\ accepted' = accepted
      /\ drafts' = Append(drafts, draft[cur])
      /\ draft_kv' \in Forward(draft_kv, before, tokens, FALSE)
    BY DEF Propose, models, output
<1>2. Typed /\ Sound(target_kv) /\ Sound(draft_kv) /\ TokensGreedy /\ StoredInv /\ InDraft
    BY <1>1 DEF IInv, PhaseInv
<1>3. /\ status = "Running" /\ queries = 0
      /\ Buffered(target_kv) /\ StandFor(target_kv, all_tokens, L - 1, 0)
      /\ StandFor(draft_kv, before, L - 1 + j, MaxOf(j - 1, 0))
    BY <1>2 DEF InDraft
<1>4. /\ all_tokens \in Seq(Vocabulary) /\ L \in Nat /\ L >= 1 /\ drafts \in Seq(Vocabulary) /\ j \in Nat
      /\ \A v \in Vocabulary : draft[v] \in Vocabulary
    BY <1>2, TokensTyped DEF Typed
<1>5. /\ before \in Seq(Vocabulary) /\ Len(before) = L + j /\ cur = before[L + j] /\ cur \in Vocabulary
    BY <1>4 DEF LastOf
<1>6. /\ tokens \in Seq(Vocabulary) /\ Len(tokens) = 1 /\ tokens[1] = cur
    BY <1>5, Singleton, Zenon
<1>7. /\ drafts' \in Seq(Vocabulary) /\ Len(drafts') = j + 1
      /\ \A i \in 1 .. j : drafts'[i] = drafts[i]
    BY <1>1, <1>4, <1>5
<1> DEFINE T == all_tokens \o drafts'
           e == MaxOf(j - 1, 0)
<1>8. \A i \in 1 .. L + j : T[i] = before[i]
    BY <1>4, <1>7
<1> HIDE DEF before, cur, tokens, T
<1>9. Continues(T, before, L - 1 + j, tokens)
    <2>1. \A i \in 1 .. L - 1 + j : T[i] = before[i]
        BY <1>4, <1>8
    <2>2. L - 1 + j + 1 = L + j /\ L + j \in 1 .. L + j
        BY <1>4
    <2>3. T[L - 1 + j + 1] = tokens[1]
        BY <1>5, <1>6, <1>8, <2>2
    <2> QED
        BY <1>6, <2>1, <2>3 DEF Continues
<1>10. /\ L - 1 + j \in Nat /\ L - 1 + j <= Len(before) /\ e \in Nat /\ Len(tokens) > 0
       /\ j <= e + Len(tokens) /\ j <= Len(tokens) - 1 + WINDOW_KEEP_MARGIN
    BY <1>1, <1>4, <1>5, <1>6, Constants DEF MaxOf
<1> HIDE DEF e
<1>11. /\ Sound(draft_kv') /\ Buffered(draft_kv')
       /\ \A layer \in Layers : draft_kv'.cache[layer].stored
             = draft_kv.cache[layer].stored \cup Staged(L - 1 + j + 1, Len(tokens), FALSE)
       /\ \A U, x : x \in Nat /\ Continues(U, before, L - 1 + j, tokens)
                    /\ x <= e + Len(tokens) /\ x <= Len(tokens) - 1 + WINDOW_KEEP_MARGIN
             => StandFor(draft_kv', U, L - 1 + j + Len(tokens), x)
    <2>1. StandFor(draft_kv, before, L - 1 + j, e)
        BY <1>3 DEF e
    <2> DEFINE n == L - 1 + j
    <2>2. n \in Nat /\ n <= Len(before) /\ StandFor(draft_kv, before, n, e)
        BY <1>10, <2>1
    <2> HIDE DEF n
    <2>3. /\ Sound(draft_kv') /\ Buffered(draft_kv')
          /\ \A layer \in Layers : draft_kv'.cache[layer].stored
                = draft_kv.cache[layer].stored \cup Staged(n + 1, Len(tokens), FALSE)
          /\ \A U, x : x \in Nat /\ Continues(U, before, n, tokens)
                       /\ x <= e + Len(tokens) /\ x <= Len(tokens) - 1 + WINDOW_KEEP_MARGIN
                => StandFor(draft_kv', U, n + Len(tokens), x)
        BY <1>1, <1>2, <1>5, <1>6, <1>10, <2>2, ForwardFacts
    <2> QED
        BY <2>3 DEF n
<1>12. StandFor(draft_kv', T, L - 1 + j + Len(tokens), j)
    BY <1>4, <1>9, <1>10, <1>11
<1>13. Typed' /\ TokensGreedy' /\ Sound(target_kv')
    BY <1>1, <1>2, <1>4, <1>7, Constants DEF Typed, TokensGreedy
<1>14. ForwardSeesWindow'
    <2>1. Sees(target_kv, 0)
        <3>1. L - 1 \in Nat
            BY <1>4
        <3> HIDE DEF L
        <3> QED
            BY <1>2, <1>3, <3>1, StandForSees
    <2> QED
        BY <1>1, <1>3, <2>1 DEF ForwardSeesWindow, Sees
<1>15. ChainInv' /\ StoredInv'
    <2>1. \A layer \in Layers : draft_kv'.cache[layer].stored = {}
        BY <1>2, <1>11 DEF StoredInv, Staged
    <2> QED
        BY <1>1, <1>2, <2>1 DEF ChainInv, StoredInv, Alive
<1>16. PhaseInv'
    <2>1. /\ L - 1 + j + Len(tokens) = Len(all_tokens') - 1 + Len(drafts')
          /\ MaxOf(Len(drafts') - 1, 0) = j
        BY <1>1, <1>4, <1>6, <1>7 DEF MaxOf
    <2>2. StandFor(draft_kv', all_tokens' \o drafts', Len(all_tokens') - 1 + Len(drafts'),
                   MaxOf(Len(drafts') - 1, 0))
        BY <1>1, <1>12, <2>1 DEF T
    <2> QED
        BY <1>1, <1>3, <1>11, <2>2 DEF PhaseInv, InDraft, Alive
<1> QED
    BY <1>11, <1>13, <1>14, <1>15, <1>16 DEF IInv

\* The number of proposals the target agrees with is defined.
LEMMA MatchLengthFacts ==
    ASSUME NEW verify
    PROVE  /\ MatchLength(verify) \in 0 .. SPEC_DRAFT_K
           /\ \A i \in 1 .. MatchLength(verify) : target[verify[i]] = verify[i + 1]
<1> DEFINE B == {m \in 0 .. SPEC_DRAFT_K : m = SPEC_DRAFT_K \/ target[verify[m + 1]] # verify[m + 2]}
           Good(m) == /\ \A i \in 1 .. m : target[verify[i]] = verify[i + 1]
                      /\ m < SPEC_DRAFT_K => target[verify[m + 1]] # verify[m + 2]
<1>1. B \in SUBSET Nat /\ B # {}
    BY Constants
<1>2. PICK m \in B : \A y \in B : m <= y
    BY <1>1, LeastNatural
<1>3. Good(m)
    <2>1. m \in 0 .. SPEC_DRAFT_K
        BY <1>2
    <2>2. ASSUME NEW i \in 1 .. m PROVE target[verify[i]] = verify[i + 1]
        <3>1. i - 1 \notin B
            BY <1>2, <2>1, <2>2, Constants
        <3>2. i - 1 \in 0 .. SPEC_DRAFT_K /\ i - 1 # SPEC_DRAFT_K /\ (i - 1) + 1 = i /\ (i - 1) + 2 = i + 1
            BY <2>1, <2>2, Constants
        <3> QED
            BY <3>1, <3>2
    <2>3. m < SPEC_DRAFT_K => target[verify[m + 1]] # verify[m + 2]
        BY <1>2, Constants
    <2> QED
        BY <2>2, <2>3
<1>4. \E k \in 0 .. SPEC_DRAFT_K : Good(k)
    BY <1>2, <1>3
<1>5. MatchLength(verify) = CHOOSE k \in 0 .. SPEC_DRAFT_K : Good(k)
    BY DEF MatchLength
<1>6. MatchLength(verify) \in 0 .. SPEC_DRAFT_K /\ Good(MatchLength(verify))
    <2> HIDE DEF Good
    <2> QED
        BY <1>4, <1>5
<1> QED
    BY <1>6

\* What a verification yields: each token is the target's choice after the one
\* before it, and all but the last are the proposals.
LEMMA AcceptedFacts ==
    ASSUME Typed, NEW verify \in Seq(Vocabulary), Len(verify) = SPEC_DRAFT_K + 1
    PROVE  /\ Accepted(verify) \in Seq(Vocabulary)
           /\ Len(Accepted(verify)) \in 1 .. SPEC_DRAFT_K + 1
           /\ \A i \in 1 .. Len(Accepted(verify)) : Accepted(verify)[i] = target[verify[i]]
           /\ \A i \in 1 .. Len(Accepted(verify)) - 1 : Accepted(verify)[i] = verify[i + 1]
<1> DEFINE m == MatchLength(verify)
           s == SubSeq(verify, 2, m + 1)
           own == target[verify[m + 1]]
           A == s \o <<own>>
<1>1. m \in 0 .. SPEC_DRAFT_K /\ \A i \in 1 .. m : target[verify[i]] = verify[i + 1]
    BY MatchLengthFacts
<1>2. Accepted(verify) = A
    BY DEF Accepted
<1> HIDE DEF m
<1>3. m \in Nat /\ m <= SPEC_DRAFT_K /\ m + 1 \in 1 .. Len(verify) /\ own \in Vocabulary
    BY <1>1, Constants, TokensTyped
<1>4. s \in Seq(Vocabulary) /\ Len(s) = m /\ \A i \in 1 .. m : s[i] = verify[i + 1]
    BY <1>3, Constants
<1> HIDE DEF s, own
<1>5. A \in Seq(Vocabulary) /\ Len(A) = m + 1 /\ (\A i \in 1 .. m : A[i] = s[i]) /\ A[m + 1] = own
    BY <1>3, <1>4
<1> HIDE DEF A
<1>6. \A i \in 1 .. m : A[i] = verify[i + 1] /\ A[i] = target[verify[i]]
    BY <1>1, <1>4, <1>5
<1>7. A[m + 1] = target[verify[m + 1]]
    BY <1>5 DEF own
<1>8. \A i \in 1 .. m + 1 : A[i] = target[verify[i]]
    BY <1>3, <1>6, <1>7
<1> QED
    BY <1>2, <1>3, <1>5, <1>6, <1>8, Constants

\* The target looks at all proposals at once.
LEMMA VerifyStep == IInv /\ Verify => IInv'
<1> SUFFICES ASSUME IInv, Verify PROVE IInv'
    OBVIOUS
<1> DEFINE verify == <<LastOf(all_tokens)>> \o drafts
           L == Len(all_tokens)
           K == SPEC_DRAFT_K
           T == all_tokens \o drafts
<1>1. /\ pc = "draft" /\ pc' = "accept" /\ queries' = Len(verify) /\ Len(drafts) = K
      /\ target' = target /\ draft' = draft /\ all_tokens' = all_tokens
      /\ num_generated' = num_generated /\ emitted' = emitted /\ status' = status
      /\ draft_kv' = draft_kv /\ prefilled' = prefilled /\ drafts' = drafts
      /\ accepted' = Accepted(verify)
      /\ target_kv' \in Forward(target_kv, all_tokens, verify, FALSE)
    BY DEF Verify, models, output
<1>2. Typed /\ Sound(target_kv) /\ Sound(draft_kv) /\ TokensGreedy /\ StoredInv /\ InDraft
    BY <1>1 DEF IInv, PhaseInv
<1>3. /\ status = "Running" /\ queries = 0
      /\ Buffered(target_kv) /\ StandFor(target_kv, all_tokens, L - 1, 0)
      /\ num_tokens(draft_kv) > 0 => Buffered(draft_kv)
      /\ StandFor(draft_kv, T, L - 1 + K, MaxOf(K - 1, 0))
    BY <1>1, <1>2 DEF InDraft
<1>4. /\ all_tokens \in Seq(Vocabulary) /\ L \in Nat /\ L >= 1 /\ drafts \in Seq(Vocabulary)
      /\ LastOf(all_tokens) \in Vocabulary
    BY <1>2, TokensTyped DEF Typed
<1>5. K \in Nat /\ K >= 1 /\ MaxOf(K - 1, 0) = K - 1
    BY Constants DEF MaxOf
<1>6. /\ verify \in Seq(Vocabulary) /\ Len(verify) = K + 1 /\ verify[1] = LastOf(all_tokens)
      /\ \A i \in 1 .. K : verify[i + 1] = drafts[i]
    <2> DEFINE l == LastOf(all_tokens)
    <2>1. l \in Vocabulary
        BY <1>4
    <2> HIDE DEF l
    <2>2. LET v == <<l>> \o drafts IN
          /\ v \in Seq(Vocabulary) /\ Len(v) = K + 1 /\ v[1] = l
          /\ \A i \in 1 .. K : v[i + 1] = drafts[i]
        BY <1>1, <1>4, <1>5, <2>1
    <2> QED
        BY <2>2 DEF l
<1>7. /\ T \in Seq(Vocabulary) /\ Len(T) = L + K
      /\ \A i \in 1 .. L : T[i] = all_tokens[i]
      /\ \A i \in 1 .. K : T[L + i] = drafts[i]
    BY <1>1, <1>4, <1>5
<1> HIDE DEF verify, T, K
<1> DEFINE n == L - 1
<1>8. n \in Nat /\ n <= L /\ StandFor(target_kv, all_tokens, n, 0)
    BY <1>3, <1>4
<1>9. Continues(T, all_tokens, n, verify)
    <2>1. \A i \in 1 .. n : T[i] = all_tokens[i]
        BY <1>4, <1>7
    <2>2. \A i \in 1 .. K + 1 : T[n + i] = verify[i]
        <3> TAKE i \in 1 .. K + 1
        <3>1. CASE i = 1
            <4>1. n + i = L /\ L \in 1 .. L /\ LastOf(all_tokens) = all_tokens[L]
                BY <1>4, <3>1 DEF LastOf
            <4> QED
                BY <1>6, <1>7, <3>1, <4>1
        <3>2. CASE i # 1
            <4>1. i - 1 \in 1 .. K /\ n + i = L + (i - 1) /\ (i - 1) + 1 = i
                BY <1>4, <1>5, <3>2
            <4> QED
                BY <1>6, <1>7, <4>1
        <3> QED
            BY <3>1, <3>2
    <2> QED
        BY <1>6, <2>1, <2>2 DEF Continues
<1> HIDE DEF n
<1>10. /\ Sound(target_kv') /\ Buffered(target_kv')
       /\ \A layer \in Layers : target_kv'.cache[layer].stored
             = target_kv.cache[layer].stored \cup Staged(n + 1, Len(verify), FALSE)
       /\ \A U, x : x \in Nat /\ Continues(U, all_tokens, n, verify)
                    /\ x <= 0 + Len(verify) /\ x <= Len(verify) - 1 + WINDOW_KEEP_MARGIN
             => StandFor(target_kv', U, n + Len(verify), x)
    <2>1. Len(verify) > 0 /\ 0 \in Nat
        BY <1>5, <1>6
    <2> QED
        BY <1>1, <1>2, <1>4, <1>6, <1>8, <2>1, ForwardFacts
<1>11. n + Len(verify) = L + K
    BY <1>4, <1>5, <1>6 DEF n
<1>12. StandFor(target_kv', T, L + K, K)
    <2>1. K <= 0 + Len(verify) /\ K <= Len(verify) - 1 + WINDOW_KEEP_MARGIN
        BY <1>5, <1>6, Constants
    <2>2. StandFor(target_kv', T, n + Len(verify), K)
        BY <1>5, <1>9, <1>10, <2>1
    <2> QED
        BY <1>11, <2>2
<1>13. Base' = L /\ Speculated' = T
    <2>1. num_tokens(target_kv') = L + K
        BY <1>12, StandForCount
    <2>2. Base' = L
        BY <1>4, <1>5, <2>1 DEF Base, K
    <2>3. SubSeq(all_tokens, 1, L) = all_tokens
        BY <1>4, SubSeqFull, Zenon
    <2> QED
        BY <1>1, <2>2, <2>3 DEF Speculated, T
<1>14. Buffered(draft_kv)
    <2>1. num_tokens(draft_kv) = L - 1 + K
        BY <1>3, StandForCount
    <2> QED
        BY <1>3, <1>4, <1>5, <2>1
<1> DEFINE A == Accepted(verify)
<1>15. /\ A \in Seq(Vocabulary) /\ Len(A) \in 1 .. K + 1
       /\ \A i \in 1 .. Len(A) : A[i] = target[verify[i]]
       /\ \A i \in 1 .. Len(A) - 1 : A[i] = verify[i + 1]
    BY <1>2, <1>6, AcceptedFacts DEF K
<1> HIDE DEF A
<1>16. accepted' = A
    BY <1>1 DEF A
<1>17. Len(A) \in Nat /\ Len(A) >= 1 /\ Len(A) <= K + 1 /\ A # <<>>
    BY <1>5, <1>15
<1>18. Typed' /\ TokensGreedy' /\ Sound(draft_kv')
    <2>1. queries' \in Nat /\ accepted' \in Seq(Vocabulary) /\ Len(accepted') <= SPEC_DRAFT_K + 1
        BY <1>1, <1>5, <1>6, <1>15, <1>16, <1>17 DEF K
    <2> QED
        BY <1>1, <1>2, <2>1 DEF Typed, TokensGreedy
<1>19. ForwardSeesWindow'
    <2>1. L + K \in Nat /\ K + 1 \in Nat /\ K >= (K + 1) - 1
        BY <1>4, <1>5
    <2>2. Sees(target_kv', K + 1)
        BY <1>5, <1>10, <1>12, <2>1, StandForSees
    <2>3. queries' = K + 1
        BY <1>1, <1>6
    <2> QED
        BY <2>2, <2>3 DEF ForwardSeesWindow, Sees
<1>20. ChainInv'
    <2> SUFFICES ASSUME NEW i \in 1 .. Len(A)
                 PROVE  A[i] = target[IF i = 1 THEN LastOf(all_tokens) ELSE A[i - 1]]
        BY <1>1, <1>16 DEF ChainInv
    <2>1. A[i] = target[verify[i]]
        BY <1>15
    <2>2. CASE i = 1
        BY <1>6, <2>1, <2>2
    <2>3. CASE i # 1
        <3>1. i - 1 \in 1 .. Len(A) - 1 /\ (i - 1) + 1 = i
            BY <1>17, <2>3
        <3>2. A[i - 1] = verify[i]
            BY <1>15, <3>1
        <3> QED
            BY <2>1, <2>3, <3>2
    <2> QED
        BY <2>2, <2>3
<1>21. StoredInv'
    <2>1. \A layer \in Layers : target_kv'.cache[layer].stored = target_kv.cache[layer].stored
        BY <1>10 DEF Staged
    <2> QED
        BY <1>1, <1>2, <1>3, <2>1 DEF StoredInv, Alive
<1>22. PhaseInv'
    <2>1. L + Len(A) <= L + K + 1 /\ L \in 1 .. L
        BY <1>4, <1>5, <1>17
    <2>2. \A i \in 1 .. Len(A) - 1 : A[i] = drafts[L - L + i]
        <3> TAKE i \in 1 .. Len(A) - 1
        <3>1. i \in 1 .. K /\ L - L + i = i
            BY <1>4, <1>5, <1>17
        <3> QED
            BY <1>6, <1>15, <3>1
    <2>3. StandFor(draft_kv, T, L + K - 1, K - 1)
        <3>1. L - 1 + K = L + K - 1
            BY <1>4, <1>5
        <3> QED
            BY <1>3, <1>5, <3>1
    <2>4. InAccept'
        <3>1. status' \in {"Running", "Finished"} /\ Len(drafts') = SPEC_DRAFT_K
              /\ Buffered(target_kv') /\ Buffered(draft_kv')
            BY <1>1, <1>3, <1>10, <1>14 DEF K
        <3>2. Base' \in 1 .. Len(all_tokens') /\ Len(all_tokens') + Len(accepted') <= Base' + SPEC_DRAFT_K + 1
              /\ (accepted' = <<>> => Base' < Len(all_tokens'))
            BY <1>1, <1>13, <1>16, <1>17, <2>1 DEF K
        <3>3. StandFor(target_kv', Speculated', Base' + SPEC_DRAFT_K, SPEC_DRAFT_K)
              /\ StandFor(draft_kv', Speculated', Base' + SPEC_DRAFT_K - 1, SPEC_DRAFT_K - 1)
            BY <1>1, <1>12, <1>13, <2>3 DEF K
        <3>4. /\ \A i \in Base' + 1 .. Len(all_tokens') - 1 : all_tokens'[i] = drafts'[i - Base']
              /\ ~ (Base' < Len(all_tokens'))
            BY <1>1, <1>4, <1>13
        <3>5. \A i \in 1 .. Len(accepted') - 1 : accepted'[i] = drafts'[Len(all_tokens') - Base' + i]
            BY <1>1, <1>13, <1>16, <2>2
        <3> QED
            BY <3>1, <3>2, <3>3, <3>4, <3>5 DEF InAccept
    <2> QED
        BY <1>1, <1>3, <2>4 DEF PhaseInv, Alive
<1> QED
    BY <1>10, <1>18, <1>19, <1>20, <1>21, <1>22 DEF IInv

\* One token is confirmed.
LEMMA ApplyTokenStep == IInv /\ ApplyToken => IInv'
<1> SUFFICES ASSUME IInv, ApplyToken PROVE IInv'
    OBVIOUS
<1> DEFINE tok == Head(accepted)
           L == Len(all_tokens)
           K == SPEC_DRAFT_K
<1>1. /\ pc = "accept" /\ pc' = pc /\ queries' = queries /\ accepted # <<>> /\ Applied(tok)
      /\ target' = target /\ draft' = draft /\ target_kv' = target_kv /\ draft_kv' = draft_kv
      /\ prefilled' = prefilled /\ drafts' = drafts
      /\ accepted' = IF tok = StopToken THEN <<>> ELSE Tail(accepted)
    BY DEF ApplyToken, models
<1>2. /\ Typed /\ Sound(target_kv) /\ Sound(draft_kv) /\ TokensGreedy /\ StoredInv /\ InAccept /\ ChainInv
      /\ ForwardSeesWindow
    BY <1>1 DEF IInv, PhaseInv
<1>3. /\ all_tokens \in Seq(Vocabulary) /\ L \in Nat /\ L >= 1 /\ drafts \in Seq(Vocabulary)
      /\ accepted \in Seq(Vocabulary) /\ Len(accepted) \in Nat /\ Len(accepted) >= 1
      /\ Len(accepted) <= SPEC_DRAFT_K + 1
    BY <1>1, <1>2, TokensTyped DEF Typed
<1>4. K \in Nat /\ K >= 1
    BY Constants
<1>5. tok = accepted[1] /\ tok \in Vocabulary
    BY <1>3
<1> HIDE DEF tok
<1>6. tok = target[LastOf(all_tokens)]
    <2>1. 1 \in 1 .. Len(accepted)
        BY <1>3
    <2> QED
        BY <1>1, <1>2, <1>5, <2>1 DEF ChainInv
<1>7. /\ all_tokens' \in Seq(Vocabulary) /\ Len(all_tokens') = L + 1
      /\ \A i \in 1 .. L : all_tokens'[i] = all_tokens[i]
      /\ all_tokens'[L + 1] = tok /\ LastOf(all_tokens') = tok
      /\ emitted' \in Seq(Vocabulary) /\ num_generated' = Len(emitted')
      /\ status' \in {"Running", "Finished"}
      /\ TokensGreedy'
    BY <1>1, <1>2, <1>5, <1>6, AppliedFacts
<1>8. /\ accepted' \in Seq(Vocabulary) /\ Len(accepted') \in Nat /\ Len(accepted') <= Len(accepted) - 1
      /\ \A i \in 1 .. Len(accepted') : accepted'[i] = accepted[i + 1]
      /\ accepted' # <<>> => Len(accepted') = Len(accepted) - 1 /\ Len(accepted') >= 1
    <2>1. CASE tok = StopToken
        <3>1. accepted' = <<>> /\ Len(<<>>) = 0 /\ <<>> \in Seq(Vocabulary)
            BY <1>1, <2>1
        <3> QED
            BY <1>3, <3>1
    <2>2. CASE tok # StopToken
        <3>1. accepted' = Tail(accepted)
            BY <1>1, <2>2
        <3>2. Tail(accepted) \in Seq(Vocabulary) /\ Len(Tail(accepted)) = Len(accepted) - 1
              /\ \A i \in 1 .. Len(Tail(accepted)) : Tail(accepted)[i] = accepted[i + 1]
            BY <1>1, <1>3, HeadTailProperties
        <3> DEFINE t == Tail(accepted)
        <3> HIDE DEF t
        <3>3. t \in Seq(Vocabulary) /\ (t # <<>> => Len(t) >= 1) /\ Len(t) \in Nat
            BY <3>2 DEF t
        <3> QED
            BY <1>3, <3>1, <3>2, <3>3 DEF t
    <2> QED
        BY <2>1, <2>2
<1>9. Typed'
    BY <1>1, <1>2, <1>3, <1>4, <1>7, <1>8, Constants DEF Typed
<1>10. ForwardSeesWindow' /\ StoredInv' /\ Sound(target_kv') /\ Sound(draft_kv')
    <2>1. Alive /\ Alive'
        BY <1>2, <1>7 DEF InAccept, Alive
    <2> QED
        BY <1>1, <1>2, <2>1 DEF ForwardSeesWindow, StoredInv, num_tokens
<1>11. ChainInv'
    <2> SUFFICES ASSUME NEW i \in 1 .. Len(accepted')
                 PROVE  accepted'[i] = target[IF i = 1 THEN LastOf(all_tokens') ELSE accepted'[i - 1]]
        BY <1>1 DEF ChainInv
    <2>1. i \in Nat /\ i + 1 \in 1 .. Len(accepted) /\ i + 1 # 1 /\ (i + 1) - 1 = i
        BY <1>3, <1>8
    <2>2. accepted[i + 1] = target[accepted[i]]
        BY <1>1, <1>2, <2>1 DEF ChainInv
    <2>3. CASE i = 1
        BY <1>5, <1>7, <1>8, <2>2, <2>3
    <2>4. CASE i # 1
        <3>1. i - 1 \in 1 .. Len(accepted') /\ (i - 1) + 1 = i
            BY <1>8, <2>1, <2>4
        <3>2. accepted'[i - 1] = accepted[i]
            BY <1>8, <3>1
        <3> QED
            BY <1>8, <2>2, <2>4, <3>2
    <2> QED
        BY <2>3, <2>4
<1>12. /\ Len(drafts) = K /\ Buffered(target_kv) /\ Buffered(draft_kv)
       /\ Base \in 1 .. L /\ L + Len(accepted) <= Base + K + 1
       /\ StandFor(target_kv, Speculated, Base + K, K)
       /\ StandFor(draft_kv, Speculated, Base + K - 1, K - 1)
       /\ \A i \in Base + 1 .. L - 1 : all_tokens[i] = drafts[i - Base]
       /\ Base < L => all_tokens[L] = drafts[L - Base]
       /\ \A i \in 1 .. Len(accepted) - 1 : accepted[i] = drafts[L - Base + i]
    BY <1>1, <1>2 DEF InAccept
<1>13. Base' = Base
    BY <1>1 DEF Base
<1>14. Base \in Nat /\ Base >= 1 /\ Base <= L
    BY <1>3, <1>12
<1> DEFINE b == Base
<1>15. Speculated' = Speculated
    <2> DEFINE s == SubSeq(all_tokens, 1, b)
               t == SubSeq(all_tokens', 1, b)
    <2>1. b \in 0 .. Len(all_tokens) /\ b \in 0 .. Len(all_tokens') /\ b \in Nat
        BY <1>3, <1>7, <1>14
    <2> HIDE DEF b
    <2>2. s \in Seq(Vocabulary) /\ Len(s) = b /\ t \in Seq(Vocabulary) /\ Len(t) = b
        BY <1>3, <1>7, <2>1, SplitAt, Zenon
    <2>3. \A i \in 1 .. b : s[i] = all_tokens[i] /\ t[i] = all_tokens'[i]
        BY <1>3, <1>7, <2>1
    <2>4. \A i \in 1 .. b : i \in 1 .. L
        BY <1>3, <2>1
    <2> HIDE DEF s, t
    <2>5. \A i \in 1 .. Len(s) : s[i] = t[i]
        BY <1>7, <2>2, <2>3, <2>4
    <2>6. s = t
        BY <2>2, <2>5, SeqEqual, Zenon
    <2> QED
        BY <1>1, <1>13, <2>6 DEF Speculated, s, t, b
<1> HIDE DEF K
<1>16. InAccept'
    <2>1. Base' \in 1 .. Len(all_tokens') /\ Len(all_tokens') + Len(accepted') <= Base' + K + 1
          /\ Base' < Len(all_tokens')
        <3> DEFINE B == Base
                   q == Len(accepted)
                   r == Len(accepted')
                   M == Len(all_tokens')
        <3>1. /\ L \in Nat /\ K \in Nat /\ B \in Nat /\ B >= 1 /\ B <= L /\ L + q <= B + K + 1
              /\ M = L + 1 /\ q \in Nat /\ r \in Nat /\ r <= q - 1
            BY <1>3, <1>4, <1>7, <1>8, <1>12, <1>14
        <3> HIDE DEF B, q, r, M, L
        <3>2. B \in 1 .. M /\ M + r <= B + K + 1 /\ B < M
            BY <3>1
        <3> QED
            BY <1>13, <3>2 DEF B, r, M
    <2>2. \A i \in Base + 1 .. L : all_tokens'[i] = drafts[i - Base]
        <3> TAKE i \in Base + 1 .. L
        <3>1. i \in 1 .. L
            BY <1>3, <1>14
        <3>2. CASE i = L
            <4>1. Base < L
                BY <1>3, <1>14, <3>2
            <4> QED
                BY <1>7, <1>12, <3>1, <3>2, <4>1
        <3>3. CASE i # L
            <4>1. i \in Base + 1 .. L - 1
                BY <1>3, <1>14, <3>3
            <4> QED
                BY <1>7, <1>12, <3>1, <4>1
        <3> QED
            BY <3>2, <3>3
    <2> DEFINE M == L + 1
    <2>3. M = L + 1 /\ Len(all_tokens') = M /\ Base' = Base /\ drafts' = drafts
        BY <1>1, <1>7, <1>13
    <2> HIDE DEF M
    <2>4. accepted' # <<>> => all_tokens'[M] = drafts[M - Base]
        <3>1. SUFFICES ASSUME accepted' # <<>> PROVE all_tokens'[M] = drafts[M - Base]
            OBVIOUS
        <3>2. 1 \in 1 .. Len(accepted) - 1 /\ L - Base + 1 = M - Base
            BY <1>3, <1>8, <1>14, <2>3, <3>1
        <3>3. accepted[1] = drafts[L - Base + 1]
            BY <1>12, <3>2
        <3> QED
            BY <1>5, <1>7, <2>3, <3>2, <3>3
    <2>5. \A i \in 1 .. Len(accepted') - 1 : accepted'[i] = drafts[M - Base + i]
        <3> TAKE i \in 1 .. Len(accepted') - 1
        <3>1. i + 1 \in 1 .. Len(accepted) - 1 /\ i \in 1 .. Len(accepted')
              /\ L - Base + (i + 1) = M - Base + i
            BY <1>3, <1>8, <1>14, <2>3
        <3>2. accepted[i + 1] = drafts[L - Base + (i + 1)]
            BY <1>12, <3>1
        <3> QED
            BY <1>8, <3>1, <3>2
    <2>6. Len(all_tokens') - 1 = L
        BY <1>3, <1>7
    <2>7. /\ status' \in {"Running", "Finished"} /\ Len(drafts') = K
          /\ Buffered(target_kv') /\ Buffered(draft_kv')
        BY <1>1, <1>7, <1>12
    <2>8. /\ StandFor(target_kv', Speculated', Base' + K, K)
          /\ StandFor(draft_kv', Speculated', Base' + K - 1, K - 1)
        BY <1>1, <1>12, <1>13, <1>15
    <2>9. \A i \in Base' + 1 .. Len(all_tokens') - 1 : all_tokens'[i] = drafts'[i - Base']
        BY <1>1, <1>13, <2>2, <2>6
    <2>10. accepted' # <<>> => all_tokens'[Len(all_tokens')] = drafts'[Len(all_tokens') - Base']
        BY <2>4, <2>3
    <2>11. \A i \in 1 .. Len(accepted') - 1 : accepted'[i] = drafts'[Len(all_tokens') - Base' + i]
        BY <2>5, <2>3
    <2> QED
        BY <2>1, <2>7, <2>8, <2>9, <2>10, <2>11 DEF InAccept, K
<1>17. PhaseInv'
    BY <1>1, <1>7, <1>16 DEF PhaseInv, Alive
<1> QED
    BY <1>7, <1>9, <1>10, <1>11, <1>17 DEF IInv

\* Both models forget what was not confirmed.
LEMMA RollbackStep == IInv /\ Rollback => IInv'
<1> SUFFICES ASSUME IInv, Rollback PROVE IInv'
    OBVIOUS
<1> DEFINE L == Len(all_tokens)
           K == SPEC_DRAFT_K
           m == L - 1
           b == Base
           n == b + K
           S == Speculated
<1>1. /\ pc = "accept" /\ pc' = "idle" /\ queries' = 0 /\ accepted = <<>>
      /\ target' = target /\ draft' = draft /\ all_tokens' = all_tokens
      /\ num_generated' = num_generated /\ emitted' = emitted /\ status' = status
      /\ prefilled' = prefilled /\ drafts' = drafts /\ accepted' = accepted
      /\ target_kv' = Rolled(target_kv, m) /\ draft_kv' = Rolled(draft_kv, m)
    BY DEF Rollback, models, output
<1>2. /\ Typed /\ Sound(target_kv) /\ Sound(draft_kv) /\ TokensGreedy /\ StoredInv /\ InAccept
    BY <1>1 DEF IInv, PhaseInv
<1>3. /\ all_tokens \in Seq(Vocabulary) /\ L \in Nat /\ L >= 1 /\ drafts \in Seq(Vocabulary)
      /\ K \in Nat /\ K >= 1 /\ Len(accepted) = 0
    BY <1>1, <1>2, Constants, TokensTyped DEF Typed
<1>4. /\ status \in {"Running", "Finished"}
      /\ Len(drafts) = K /\ Buffered(target_kv) /\ Buffered(draft_kv)
      /\ b \in 1 .. L /\ L + Len(accepted) <= b + K + 1 /\ b < L
      /\ StandFor(target_kv, S, b + K, K)
      /\ StandFor(draft_kv, S, b + K - 1, K - 1)
      /\ \A i \in b + 1 .. L - 1 : all_tokens[i] = drafts[i - b]
    BY <1>1, <1>2 DEF InAccept
<1>5. b \in Nat /\ b >= 1 /\ b <= m /\ m \in Nat /\ n \in Nat /\ n - m <= K /\ m <= n
      /\ n - 1 \in Nat /\ (n - 1) - m <= K - 1 /\ K - 1 \in Nat
    BY <1>3, <1>4
<1>6. \A i \in 1 .. m : all_tokens[i] = S[i]
    <2> DEFINE s == SubSeq(all_tokens, 1, b)
    <2>1. b \in 0 .. Len(all_tokens)
        BY <1>3, <1>5
    <2>2. S = s \o drafts
        BY DEF Speculated
    <2> HIDE DEF b, S
    <2>3. s \in Seq(Vocabulary) /\ Len(s) = b
        BY <1>3, <2>1, SplitAt, Zenon
    <2>4. \A i \in 1 .. b : s[i] = all_tokens[i]
        BY <1>3, <2>1
    <2> HIDE DEF s
    <2> TAKE i \in 1 .. m
    <2>5. CASE i <= b
        <3>1. i \in 1 .. b
            BY <1>5, <2>5
        <3>2. S[i] = s[i]
            BY <1>3, <2>2, <2>3, <3>1
        <3> QED
            BY <2>4, <3>1, <3>2
    <2>6. CASE i > b
        <3>1. i \in b + 1 .. L - 1 /\ i - b \in 1 .. Len(drafts) /\ i = b + (i - b)
            BY <1>3, <1>4, <1>5, <2>6
        <3>2. S[i] = drafts[i - b]
            BY <1>3, <1>5, <2>2, <2>3, <2>6, <3>1
        <3> QED
            BY <1>4, <3>1, <3>2
    <2> QED
        BY <1>5, <2>5, <2>6
<1> HIDE DEF S
<1>7. /\ Sound(target_kv') /\ StandFor(target_kv', all_tokens, m, 0) /\ Buffered(target_kv')
      /\ \A layer \in Layers : target_kv'.cache[layer].stored = target_kv.cache[layer].stored
    <2>1. MinOf(n, m) = m
        BY <1>5 DEF MinOf
    <2>2. \A i \in 1 .. MinOf(n, m) : all_tokens[i] = S[i]
        BY <1>6, <2>1
    <2>3. StandFor(target_kv, S, n, K)
        BY <1>4
    <2> HIDE DEF n, m
    <2>4. /\ Sound(target_kv') /\ StandFor(target_kv', all_tokens, MinOf(n, m), 0)
          /\ Buffered(target_kv) => Buffered(target_kv')
          /\ \A layer \in Layers : target_kv'.cache[layer].stored = target_kv.cache[layer].stored
        BY <1>1, <1>2, <1>3, <1>5, <2>2, <2>3, RolledFacts
    <2> QED
        BY <1>4, <2>1, <2>4
<1> DEFINE d == MinOf(n - 1, m)
<1>8. /\ Sound(draft_kv') /\ StandFor(draft_kv', all_tokens, d, 0) /\ Buffered(draft_kv')
      /\ \A layer \in Layers : draft_kv'.cache[layer].stored = draft_kv.cache[layer].stored
    <2> DEFINE k == n - 1
               h == K - 1
    <2>1. d <= m /\ d \in Nat
        BY <1>5 DEF MinOf
    <2>2. \A i \in 1 .. MinOf(k, m) : all_tokens[i] = S[i]
        BY <1>5, <1>6, <2>1
    <2>3. StandFor(draft_kv, S, k, h) /\ k \in Nat /\ h \in Nat /\ k - m <= h
        BY <1>4, <1>5
    <2> HIDE DEF k, m, h
    <2>4. /\ Sound(draft_kv') /\ StandFor(draft_kv', all_tokens, MinOf(k, m), 0)
          /\ Buffered(draft_kv) => Buffered(draft_kv')
          /\ \A layer \in Layers : draft_kv'.cache[layer].stored = draft_kv.cache[layer].stored
        <3>1. Sound(draft_kv) /\ draft_kv' = Rolled(draft_kv, m) /\ m \in Nat
            BY <1>1, <1>2, <1>5
        <3> HIDE DEF n, K, L, b
        <3> QED
            BY <2>2, <2>3, <3>1, RolledFacts
    <2> QED
        BY <1>4, <2>4 DEF k
<1>9. d \in Nat /\ d < L
    BY <1>3, <1>5 DEF MinOf
<1>10. num_tokens(draft_kv') = d
    BY <1>8, StandForCount
<1>11. Typed' /\ TokensGreedy'
    BY <1>1, <1>2 DEF Typed, TokensGreedy
<1>12. ForwardSeesWindow'
    <2>1. Sees(target_kv', 0)
        BY <1>5, <1>7, StandForSees
    <2> QED
        BY <1>1, <2>1 DEF ForwardSeesWindow, Sees
<1>13. ChainInv' /\ StoredInv'
    BY <1>1, <1>2, <1>4, <1>7, <1>8 DEF ChainInv, StoredInv, Alive
<1> HIDE DEF d
<1>14. PhaseInv'
    BY <1>1, <1>4, <1>7, <1>8, <1>9, <1>10 DEF PhaseInv, InIdle, Alive
<1> QED
    BY <1>7, <1>8, <1>11, <1>12, <1>13, <1>14 DEF IInv

\* A suffix, position by position.
LEMMA SuffixOf ==
    ASSUME NEW s \in Seq(Vocabulary), NEW t \in Seq(Vocabulary), Len(s) <= Len(t),
           \A i \in 1 .. Len(s) : s[i] = t[Len(t) - Len(s) + i]
    PROVE  IsSuffix(s, t)
<1> DEFINE n == Len(s)
           m == Len(t)
           rs == Reverse(s)
           rt == Reverse(t)
<1>1. n \in Nat /\ m \in Nat /\ n <= m
    OBVIOUS
<1> HIDE DEF n, m
<1>2. /\ rs \in Seq(Vocabulary) /\ Len(rs) = n /\ \A i \in 1 .. n : rs[i] = s[(n - i) + 1]
      /\ rt \in Seq(Vocabulary) /\ Len(rt) = m /\ \A i \in 1 .. m : rt[i] = t[(m - i) + 1]
    BY DEF Reverse, n, m
<1>3. \A i \in 1 .. n : rs[i] = rt[i]
    <2> TAKE i \in 1 .. n
    <2>1. (n - i) + 1 \in 1 .. n /\ m - n + ((n - i) + 1) = (m - i) + 1 /\ i \in 1 .. m
        BY <1>1
    <2>2. s[(n - i) + 1] = t[m - n + ((n - i) + 1)]
        BY <2>1 DEF n, m
    <2> QED
        BY <1>2, <2>1, <2>2
<1> HIDE DEF rs, rt
<1>4. SubSeq(rs, 1, n) = SubSeq(rt, 1, n)
    <2>1. SubSeq(rs, 1, n) = [i \in 1 .. n |-> rs[i]] /\ SubSeq(rt, 1, n) = [i \in 1 .. n |-> rt[i]]
        BY <1>1, <1>2
    <2>2. [i \in 1 .. n |-> rs[i]] = [i \in 1 .. n |-> rt[i]]
        BY <1>3
    <2> QED
        BY <2>1, <2>2
<1> QED
    BY <1>1, <1>2, <1>4 DEF IsSuffix, IsPrefix, rs, rt

\* Caches that stand for n tokens hold them, as the property says it.
LEMMA StandForHolds ==
    ASSUME NEW kv, Sound(kv), all_tokens \in Seq(Vocabulary),
           NEW n \in Nat, n <= Len(all_tokens), n > 0 => Buffered(kv),
           StandFor(kv, all_tokens, n, 0)
    PROVE  Holds(kv, n)
<1> SUFFICES ASSUME NEW layer \in Layers
             PROVE  /\ kv.cache[layer].num_tokens = n
                    /\ IsSuffix(kv.cache[layer].live, SubSeq(all_tokens, 1, n))
                    /\ n > 0 => Len(kv.cache[layer].live)
                                  >= IF layer = "full" THEN n ELSE MinOf(n, Window)
    BY DEF Holds
<1> DEFINE c == kv.cache[layer]
           t == SubSeq(all_tokens, 1, n)
           l == c.live
<1>1. c \in CacheType
    BY SoundParts
<1>2. /\ c.num_tokens = n /\ Len(l) <= n /\ \A i \in 1 .. Len(l) : l[i] = all_tokens[n - Len(l) + i]
      /\ c.cap > 0 => Len(l) >= Reach(layer, n, 0)
    BY DEF StandFor, Mirrors
<1>3. n > 0 => c.cap > 0
    BY DEF Buffered
<1>4. l \in Seq(Vocabulary) /\ Len(l) \in Nat
    BY <1>1 DEF CacheType
<1> HIDE DEF c, l
<1>5. n \in 0 .. Len(all_tokens)
    OBVIOUS
<1>6. t \in Seq(Vocabulary) /\ Len(t) = n
    BY <1>5, SplitAt, Zenon
<1>7. \A i \in 1 .. n : t[i] = all_tokens[i]
    OBVIOUS
<1> HIDE DEF t
<1>8. \A i \in 1 .. Len(l) : l[i] = t[Len(t) - Len(l) + i]
    <2> TAKE i \in 1 .. Len(l)
    <2>1. n - Len(l) + i \in 1 .. n
        BY <1>2, <1>4
    <2> QED
        BY <1>2, <1>6, <1>7, <2>1
<1>9. IsSuffix(l, t)
    BY <1>2, <1>4, <1>6, <1>8, SuffixOf
<1>10. n > 0 => Len(l) >= IF layer = "full" THEN n ELSE MinOf(n, Window)
    BY <1>2, <1>3, Constants DEF Reach
<1> QED
    BY <1>2, <1>9, <1>10 DEF c, l, t

\* Every step keeps the invariant.
LEMMA NextStep == IInv /\ [Next]_vars => IInv'
<1> SUFFICES ASSUME IInv, [Next]_vars PROVE IInv'
    OBVIOUS
<1>1. CASE ReusePrefix
    BY <1>1, ReusePrefixStep
<1>2. CASE PrefillChunk
    BY <1>2, PrefillChunkStep
<1>3. CASE BeginCycle
    BY <1>3, BeginCycleStep
<1>4. CASE Propose
    BY <1>4, ProposeStep
<1>5. CASE Verify
    BY <1>5, VerifyStep
<1>6. CASE ApplyToken
    BY <1>6, ApplyTokenStep
<1>7. CASE Rollback
    BY <1>7, RollbackStep
<1>8. CASE Preempt
    BY <1>8, PreemptStep
<1>9. CASE CycleFails
    BY <1>9, CycleFailsStep
<1>10. CASE UNCHANGED vars
    <2>1. /\ target' = target /\ draft' = draft /\ all_tokens' = all_tokens
          /\ num_generated' = num_generated /\ emitted' = emitted /\ status' = status
          /\ target_kv' = target_kv /\ draft_kv' = draft_kv /\ prefilled' = prefilled
          /\ queries' = queries /\ drafts' = drafts /\ accepted' = accepted /\ pc' = pc
        BY <1>10 DEF vars, models, output
    <2>2. (Typed' <=> Typed) /\ (TokensGreedy' <=> TokensGreedy) /\ (ChainInv' <=> ChainInv)
        BY <2>1 DEF Typed, TokensGreedy, ChainInv
    <2>3. (StoredInv' <=> StoredInv) /\ (ForwardSeesWindow' <=> ForwardSeesWindow)
        BY <2>1 DEF StoredInv, ForwardSeesWindow, Alive
    <2>4. Base' = Base /\ Speculated' = Speculated
        BY <2>1 DEF Base, Speculated
    <2>5. /\ InPrefill' <=> InPrefill
          /\ InFailure' <=> InFailure
          /\ InIdle' <=> InIdle
          /\ InDraft' <=> InDraft
        BY <2>1 DEF InPrefill, InFailure, InIdle, InDraft
    <2>6. InAccept' <=> InAccept
        BY <2>1, <2>4 DEF InAccept
    <2>7. PhaseInv' <=> PhaseInv
        BY <2>1, <2>5, <2>6 DEF PhaseInv, Alive
    <2> QED
        BY <2>1, <2>2, <2>3, <2>7 DEF IInv
<1> QED
    BY <1>1, <1>2, <1>3, <1>4, <1>5, <1>6, <1>7, <1>8, <1>9, <1>10 DEF Next

-----------------------------------------------------------------------------
(* The theorems.                                                           *)

\* In whatever order prompts are reused and prefilled in chunks, proposals are
\* made, verified, applied and rolled back, and the sequence is preempted or
\* fails (engine.rs, run_speculative_decode), the caches, the tokens and the
\* phase agree as the inductive invariant says.
THEOREM SpeculationInvariant == Spec => []IInv
    BY InitHolds, NextStep, PTL DEF Spec

\* The state keeps its types, and a cycle its bounds: no more proposals than
\* SPEC_DRAFT_K, no more accepted tokens than one above it.
THEOREM SpeculationTypeCorrect == Spec => []TypeOK
<1>1. IInv => TypeOK
    BY DEF IInv, Typed, TypeOK
<1> QED
    BY <1>1, SpeculationInvariant, PTL

\* For every window, margin, draft length, block size and buffer budget:
\* between cycles the caches of the target hold all confirmed tokens but the
\* last and the draft's a part of them, a rejected proposal in neither; and
\* after every forward a sliding layer still has what its oldest row reads
\* (paged.rs, append and truncate).
THEOREM CachesAlwaysComplete == Spec => []CachesComplete
<1>1. IInv => CachesConfirmed
    <2> SUFFICES ASSUME IInv, pc = "idle", Alive
                 PROVE  /\ Holds(target_kv, Len(all_tokens) - 1)
                        /\ num_tokens(draft_kv) < Len(all_tokens)
                        /\ Holds(draft_kv, num_tokens(draft_kv))
        BY DEF CachesConfirmed
    <2> DEFINE n == num_tokens(draft_kv)
               m == Len(all_tokens) - 1
    <2>1. InIdle /\ Typed /\ Sound(target_kv) /\ Sound(draft_kv)
        BY DEF IInv, PhaseInv
    <2>2. /\ Buffered(target_kv) /\ StandFor(target_kv, all_tokens, m, 0)
          /\ n < Len(all_tokens) /\ (n > 0 => Buffered(draft_kv)) /\ StandFor(draft_kv, all_tokens, n, 0)
        BY <2>1 DEF InIdle
    <2>3. n \in Nat
        <3>1. "full" \in Layers
            BY DEF Layers
        <3>2. draft_kv.cache["full"] \in CacheType
            BY <2>1, <3>1, SoundParts
        <3> QED
            BY <3>2 DEF CacheType, num_tokens
    <2>4. all_tokens \in Seq(Vocabulary) /\ Len(all_tokens) \in Nat /\ Len(all_tokens) >= 1
        BY <2>1, TokensTyped DEF Typed
    <2>5. m \in Nat /\ m <= Len(all_tokens) /\ n <= Len(all_tokens)
        BY <2>2, <2>3, <2>4
    <2> HIDE DEF n, m
    <2>6. Holds(target_kv, m)
        BY <2>1, <2>2, <2>4, <2>5, StandForHolds
    <2>7. Holds(draft_kv, n)
        BY <2>1, <2>2, <2>3, <2>4, <2>5, StandForHolds
    <2> QED
        BY <2>2, <2>6, <2>7 DEF n, m
<1>2. IInv => CachesComplete
    BY <1>1 DEF IInv, CachesComplete
<1> QED
    BY <1>2, SpeculationInvariant, PTL

\* A table has exactly the blocks its tokens need, whatever appends and
\* rollbacks came before (paged.rs, append and truncate).
THEOREM BlocksAlwaysFit == Spec => []BlocksForTokens
<1>1. IInv => BlocksForTokens
    BY DEF IInv, Sound, BlocksForTokens
<1> QED
    BY <1>1, SpeculationInvariant, PTL

\* The blocks offered to other sequences hold the prefilled tokens and none a
\* cycle appended (paged.rs, append with pool_writes).
THEOREM PoolAlwaysHoldsPrefill == Spec => []PoolHoldsPrefill
<1>1. IInv => PoolHoldsPrefill
    BY DEF IInv, StoredInv, PoolHoldsPrefill
<1> QED
    BY <1>1, SpeculationInvariant, PTL

\* The counter of the contiguous pool is the sum of what is kept, and never
\* above the budget, whatever is acquired, evicted and released (paged.rs,
\* ContigBufferPool).
THEOREM ContigAlwaysWithinBudget == Spec => []ContigWithinBudget
<1>1. IInv => ContigWithinBudget
    BY DEF IInv, Sound, Kept, ContigWithinBudget
<1> QED
    BY <1>1, SpeculationInvariant, PTL

\* Whatever the draft proposes, every token is the one the target alone would
\* have picked (engine.rs, run_speculative_decode).
THEOREM TokensAlwaysGreedy == Spec => []TokensGreedy
<1>1. IInv => TokensGreedy
    BY DEF IInv
<1> QED
    BY <1>1, SpeculationInvariant, PTL

=============================================================================
