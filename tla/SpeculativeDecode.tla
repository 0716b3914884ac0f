------------------------- MODULE SpeculativeDecode --------------------------
(***************************************************************************)
(* engine.rs, run_speculative_decode: one greedy sequence decoded by a     *)
(* target model with a draft model proposing, from its prefill on.  Both   *)
(* models are greedy functions of the last token, and each has a layer     *)
(* with a sliding window and one without, with caches as in PagedKvCache.  *)
(* The sequence may be preempted between cycles, which clears both sets of *)
(* caches and prefills only the target's.  Other sequences share the       *)
(* allocators, so an append may find no block where none was reserved.     *)
(***************************************************************************)
EXTENDS PagedKvCache

CONSTANTS Vocabulary,     \* token ids
          StopToken,      \* the one that ends a generation
          SPEC_DRAFT_K,   \* tokens the draft proposes per cycle
          Window,         \* what the sliding layers read back
          PromptLength,
          MaxTokens,      \* the request's cap
          MaxPreemptions  \* bound on the preemptions of a behaviour

ASSUME SpeculationAssumption ==
    /\ StopToken \in Vocabulary
    /\ {SPEC_DRAFT_K, MaxTokens, Window, PromptLength} \subseteq Nat \ {0}
    /\ MaxPreemptions \in Nat
    /\ WINDOW_KEEP_MARGIN >= SPEC_DRAFT_K - 1   \* 16 and 4 in the code

VARIABLES
    target, draft,       \* each model's greedy next token
    all_tokens,          \* prompt and generation
    num_generated,       \* SequenceState.num_generated
    status,              \* "Waiting", "Running", "Finished" or "Failed"
    emitted,             \* what new_tokens carried to the engine loop
    target_kv,           \* the target's caches and its idle buffers
    draft_kv,            \* the draft's
    prefilled,           \* tokens the last prefill processed
    queries,             \* rows of the target's forward just made, 0 once the cycle goes on
    drafts,              \* this cycle's proposals
    accepted,            \* this cycle's tokens still to be applied
    pc, preemptions

models == <<target, draft>>
output == <<all_tokens, num_generated, status, emitted>>
vars == <<models, output, target_kv, draft_kv, prefilled, queries, drafts, accepted, pc,
          preemptions>>

-----------------------------------------------------------------------------

Layers == {"sliding", "full"}
WindowOf(layer) == IF layer = "sliding" THEN Window ELSE NoWindow

NewKv == [cache |-> [layer \in Layers |-> EmptyCache],
          pool |-> [idle |-> [layer \in Layers |-> <<>>], held |-> 0]]

\* What one forward makes of the caches, appending its tokens layer by layer.
Forward(kv, before, tokens, pool_writes) ==
    LET append(layer, pool) == Appended(kv.cache[layer], pool, layer, WindowOf(layer), before,
                                        tokens, pool_writes)
        both(s, f) == [layer \in Layers |-> IF layer = "sliding" THEN s.cache ELSE f.cache]
    IN UNION {{[cache |-> both(s, f), pool |-> f.pool] : f \in append("full", s.pool)} :
                 s \in append("sliding", kv.pool)}

Rolled(kv, n) ==
    [kv EXCEPT !.cache = [layer \in Layers |-> Truncated(kv.cache[layer], n)]]

ClearedKv(kv) ==
    [cache |-> NewKv.cache,
     pool |-> ClearedPool(kv.cache["full"],
                          ClearedPool(kv.cache["sliding"], kv.pool, "sliding"), "full")]

num_tokens(kv) == kv.cache["full"].num_tokens

\* append_token and apply_token, for a sequence or after its end alike.
Applied(tok) ==
    /\ all_tokens' = Append(all_tokens, tok)
    /\ IF tok = StopToken
       THEN status' = "Finished" /\ UNCHANGED <<num_generated, emitted>>
       ELSE /\ num_generated' = num_generated + 1
            /\ emitted' = Append(emitted, tok)
            /\ status' = IF num_generated + 1 >= MaxTokens THEN "Finished" ELSE "Running"

\* What the target would say after a stop is never used.
Init ==
    /\ target \in {f \in [Vocabulary -> Vocabulary] : f[StopToken] = StopToken}
    /\ draft \in [Vocabulary -> Vocabulary]
    /\ \E first \in Vocabulary : all_tokens = [i \in 1 .. PromptLength |-> first]
    /\ num_generated = 0 /\ emitted = <<>> /\ status = "Waiting"
    /\ target_kv = NewKv /\ draft_kv = NewKv
    /\ prefilled = 0 /\ queries = 0
    /\ drafts = <<>> /\ accepted = <<>>
    /\ pc = "prefill" /\ preemptions = 0

\* The prefill starts behind any number of cached blocks but leaves a token.
ReusePrefix ==
    /\ pc = "prefill" /\ num_tokens(target_kv) = 0
    /\ \E n \in 1 .. (Len(all_tokens) - 1) \div BLOCK_SIZE :
          target_kv' = [target_kv EXCEPT
              !.cache = [layer \in Layers |-> Prepopulated(@[layer], n)]]
    /\ UNCHANGED <<models, output, draft_kv, prefilled, queries, drafts, accepted, pc, preemptions>>

LastOf(s) == s[Len(s)]

\* One chunk of the prompt; the last one samples a token.
PrefillChunk ==
    LET done == num_tokens(target_kv) IN
    /\ pc = "prefill"
    /\ \E n \in 1 .. Len(all_tokens) - done :
          /\ target_kv' \in Forward(target_kv, all_tokens, SubSeq(all_tokens, done + 1, done + n), TRUE)
          /\ queries' = n
          /\ prefilled' = done + n
          /\ IF done + n < Len(all_tokens) THEN UNCHANGED <<output, pc>>
             ELSE Applied(target[LastOf(all_tokens)]) /\ pc' = "idle"
    /\ UNCHANGED <<models, draft_kv, drafts, accepted, preemptions>>

\* The draft is fed what it has not seen of the confirmed tokens.
CatchUp(have) == SubSeq(all_tokens, have + 1, Len(all_tokens) - 1)

BeginCycle ==
    LET gap == CatchUp(num_tokens(draft_kv)) IN
    /\ pc = "idle" /\ status = "Running"
    /\ draft_kv' \in IF gap = <<>> THEN {draft_kv} ELSE Forward(draft_kv, all_tokens, gap, FALSE)
    /\ drafts' = <<>>
    /\ pc' = "draft" /\ queries' = 0
    /\ UNCHANGED <<models, output, target_kv, prefilled, accepted, preemptions>>

\* One proposal: the draft is fed the last token or its previous proposal.
Propose ==
    LET cur == LastOf(all_tokens \o drafts) IN
    /\ pc = "draft" /\ Len(drafts) < SPEC_DRAFT_K
    /\ draft_kv' \in Forward(draft_kv, all_tokens \o drafts, <<cur>>, FALSE)
    /\ drafts' = Append(drafts, draft[cur])
    /\ UNCHANGED <<models, output, target_kv, prefilled, queries, accepted, pc, preemptions>>

\* The target's argmaxes over the last token and the proposals: the proposals
\* it agrees with, then its own token.  Seeded faults: the correction is taken
\* one position late, or not at all.
MatchLength(verify) ==
    CHOOSE m \in 0 .. SPEC_DRAFT_K :
        /\ \A i \in 1 .. m : target[verify[i]] = verify[i + 1]
        /\ m < SPEC_DRAFT_K => target[verify[m + 1]] # verify[m + 2]

AcceptedLate(verify) ==
    SubSeq(verify, 2, MatchLength(verify) + 1) \o <<target[LastOf(verify)]>>

AcceptedWithoutOwn(verify) == SubSeq(verify, 2, MatchLength(verify) + 1)

Accepted(verify) ==
    SubSeq(verify, 2, MatchLength(verify) + 1) \o <<target[verify[MatchLength(verify) + 1]]>>

Verify ==
    LET verify == <<LastOf(all_tokens)>> \o drafts IN
    /\ pc = "draft" /\ Len(drafts) = SPEC_DRAFT_K
    /\ target_kv' \in Forward(target_kv, all_tokens, verify, FALSE)
    /\ queries' = Len(verify)
    /\ accepted' = Accepted(verify)
    /\ pc' = "accept"
    /\ UNCHANGED <<models, output, draft_kv, prefilled, drafts, preemptions>>

\* One accepted token is applied; only a stop drops the ones behind it.
ApplyToken ==
    /\ pc = "accept" /\ accepted # <<>>
    /\ Applied(Head(accepted))
    /\ accepted' = IF Head(accepted) = StopToken THEN <<>> ELSE Tail(accepted)
    /\ UNCHANGED <<models, target_kv, draft_kv, prefilled, queries, drafts, pc, preemptions>>

Rollback ==
    /\ pc = "accept" /\ accepted = <<>>
    /\ target_kv' = Rolled(target_kv, Len(all_tokens) - 1)
    /\ draft_kv' = Rolled(draft_kv, Len(all_tokens) - 1)
    /\ pc' = "idle" /\ queries' = 0
    /\ UNCHANGED <<models, output, prefilled, drafts, accepted, preemptions>>

\* The scheduler preempts the sequence, to be prefilled again.
Preempt ==
    /\ pc = "idle" /\ status = "Running" /\ preemptions < MaxPreemptions
    /\ preemptions' = preemptions + 1
    /\ target_kv' = ClearedKv(target_kv)
    /\ draft_kv' = ClearedKv(draft_kv)
    /\ status' = "Waiting"
    /\ prefilled' = 0 /\ queries' = 0
    /\ pc' = "prefill"
    /\ UNCHANGED <<models, all_tokens, num_generated, emitted, drafts, accepted>>

\* The appends the forward now due makes, of the target or of the draft; the
\* scheduler reserved one block for the target at a boundary and none else.
Unreserved ==
    CASE pc = "idle" -> NewBlocks(draft_kv.cache["full"], Len(CatchUp(num_tokens(draft_kv)))) > 0
      [] pc = "draft" /\ Len(drafts) < SPEC_DRAFT_K -> NewBlocks(draft_kv.cache["full"], 1) > 0
      [] pc = "draft" /\ Len(drafts) = SPEC_DRAFT_K ->
           NewBlocks(target_kv.cache["full"], SPEC_DRAFT_K + 1)
             > NewBlocks(target_kv.cache["full"], 1)
      [] OTHER -> FALSE

\* A cycle that finds no block fails its step, and the sequence is aborted.
CycleFails ==
    /\ status = "Running" /\ Unreserved
    /\ status' = "Failed"
    /\ target_kv' = ClearedKv(target_kv)
    /\ draft_kv' = ClearedKv(draft_kv)
    /\ prefilled' = 0 /\ queries' = 0
    /\ pc' = "idle"
    /\ UNCHANGED <<models, all_tokens, num_generated, emitted, drafts, accepted, preemptions>>

Next ==
    \/ ReusePrefix \/ PrefillChunk
    \/ BeginCycle \/ Propose \/ Verify \/ ApplyToken \/ Rollback
    \/ Preempt \/ CycleFails

Spec == Init /\ [][Next]_vars

\* The engine loop keeps stepping while the sequence is in it.
FairSpec == Spec /\ WF_vars(Next)

-----------------------------------------------------------------------------

TypeOK ==
    /\ status \in {"Waiting", "Running", "Finished", "Failed"}
    /\ pc \in {"prefill", "idle", "draft", "accept"}
    /\ all_tokens \in Seq(Vocabulary) /\ emitted \in Seq(Vocabulary)
    /\ num_generated = Len(emitted)
    /\ Len(drafts) <= SPEC_DRAFT_K /\ Len(accepted) <= SPEC_DRAFT_K + 1

Alive == status \in {"Running", "Finished"}

\* Layer caches kv hold keys and values of the first n confirmed tokens: all
\* of them, or of a sliding layer at least what its next query reads.
Holds(kv, n) ==
    \A layer \in Layers :
        LET c == kv.cache[layer]
            reach == IF layer = "full" THEN n ELSE MinOf(n, Window)
        IN /\ c.num_tokens = n
           /\ IsSuffix(c.live, SubSeq(all_tokens, 1, n))
           /\ n > 0 => Len(c.live) >= reach

\* Between cycles the target's caches hold the confirmed tokens but the last,
\* and the draft's a part of them: a rejected proposal never stays behind in
\* either, a full acceptance leaves the draft a gap it can make up, and a
\* rollback leaves the window of a sliding layer whole (engine.rs:865,
\* paged.rs:1242, the debug_assert of append).
CachesConfirmed ==
    pc = "idle" /\ Alive =>
        /\ Holds(target_kv, Len(all_tokens) - 1)
        /\ num_tokens(draft_kv) < Len(all_tokens)
        /\ Holds(draft_kv, num_tokens(draft_kv))

\* A forward over several rows reads a whole window back from its oldest row:
\* right after it the buffer of a sliding layer still has all of that, whether
\* it grew in place, folded, moved or was gathered from the block pool
\* (paged.rs:1306).
ForwardSeesWindow ==
    LET c == target_kv.cache["sliding"] IN
    /\ queries > 0 => Len(c.live) >= MinOf(c.num_tokens, Window + queries - 1)
    /\ Len(target_kv.cache["full"].live) \in {0, num_tokens(target_kv)}

\* Whatever a layer's next query reads is there, between cycles and after every
\* forward of one.
CachesComplete == CachesConfirmed /\ ForwardSeesWindow

\* A table has exactly the blocks its tokens need, in every layer: an append
\* that crosses a boundary takes them, a rollback gives back those that now
\* hold only dropped tokens, and the next append finds its own block last
\* (paged.rs:1610, engine.rs:840).
BlocksForTokens ==
    \A layer \in Layers : \A c \in {target_kv.cache[layer], draft_kv.cache[layer]} :
        c.blocks = CeilDiv(c.num_tokens, BLOCK_SIZE)

\* The block pool holds every token the prefill processed, in whatever chunks
\* it came, and none a decode cycle appended: those are the blocks the prefix
\* cache hands to other sequences (paged.rs:1178).
PoolHoldsPrefill ==
    pc \in {"idle", "draft"} /\ Alive =>
        \A layer \in Layers :
            /\ target_kv.cache[layer].stored = 1 .. prefilled
            /\ draft_kv.cache[layer].stored = {}

\* The buffers kept for reuse never exceed the budget the layers share, and
\* the counter is exactly what is kept (paged.rs:461).
ContigWithinBudget ==
    \A kv \in {target_kv, draft_kv} :
        /\ kv.pool.held = TotalOf(kv.pool.idle["sliding"]) + TotalOf(kv.pool.idle["full"])
        /\ kv.pool.held <= ContigLimit

\* Every token is the one plain greedy decoding would have picked.
TokensGreedy ==
    \A i \in PromptLength + 1 .. Len(all_tokens) : all_tokens[i] = target[all_tokens[i - 1]]

\* Plain greedy decoding stops at the cap; so must its accelerated form.
LengthCapHolds == num_generated <= MaxTokens

\* Every cycle yields a token or fails, so the generation ends whatever the
\* draft says.
GenerationEnds == <>(status \in {"Finished", "Failed"} /\ pc = "idle")

=============================================================================
