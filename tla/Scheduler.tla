----------------------------- MODULE Scheduler ------------------------------
(***************************************************************************)
(* scheduler/mod.rs: the waiting queue, the running set and schedule(),    *)
(* which decides what one engine step runs.  One layer stands for all of   *)
(* them, since layers allocate in lockstep.  schedule() is modelled one    *)
(* loop iteration at a time; nothing else runs in between, because every   *)
(* action is guarded by pc.  Draft caches are not modelled here.           *)
(***************************************************************************)
EXTENDS KvPool, PrefixCache, Functions

CONSTANTS Ids,                  \* sequence ids, in arrival order
          Tokens,               \* what the model can generate
          Prompts,              \* the prompts a client may send
          MaxTokensChoices,     \* the generation caps a client may ask for
          max_num_sequences,    \* SchedulerConfig
          max_tokens_per_step   \* SchedulerConfig

ASSUME SchedulerAssumption ==
    /\ Ids = 1 .. Cardinality(Ids) /\ IsFiniteSet(Ids)
    /\ Prompts \subseteq Seq(Nat) \ {<<>>}
    /\ Tokens \subseteq Nat
    /\ MaxTokensChoices \subseteq Nat \ {0}
    /\ max_num_sequences \in Nat \ {0}
    /\ max_tokens_per_step \in Nat \ {0}

VARIABLES
    waiting,            \* FCFS queue of ids
    running,            \* the active ids, in slot order
    running_index,      \* id -> slot of running
    seq,                \* id -> SequenceState
    cache,              \* the prefix cache, oldest entry first
    pc,                 \* where schedule()/step() stands
    todo,               \* the ids the current loop has still to visit
    decode_ids,         \* SchedulerOutput: the decodes picked, in order
    prefill_ids,        \* SchedulerOutput: the prompts admitted, in order
    budget,             \* tokens left in this step
    reserved,           \* blocks promised to boundary decodes
    free_blocks         \* blocks admission may still promise

schedVars == <<waiting, running, running_index, seq, cache>>
planVars == <<decode_ids, prefill_ids, budget, reserved, free_blocks>>

-----------------------------------------------------------------------------

\* SequenceState, and the value that stands for an id with no live state.
NewSequence(prompt, max) ==
    [all_tokens |-> prompt, num_generated |-> 0, max_tokens |-> max,
     status |-> "Waiting", phase |-> "Prefill",
     block_ids |-> <<>>, num_tokens |-> 0, num_processed_tokens |-> 0,
     finish_reason |-> "none"]

Absent == [NewSequence(<<>>, 0) EXCEPT !.status = "Absent"]

\* PagedKvCache::clear, and the reset that preemption adds to it.
Cleared(s) == [s EXCEPT !.block_ids = <<>>, !.num_tokens = 0]

\* Seeded fault: preemption also forgets how much was generated.
PreemptedForgets(s) ==
    [Cleared(s) EXCEPT !.num_processed_tokens = 0, !.phase = "Prefill",
                       !.status = "Waiting", !.num_generated = 0]

Preempted(s) ==
    [Cleared(s) EXCEPT !.num_processed_tokens = 0, !.phase = "Prefill",
                       !.status = "Waiting"]

Minimum(a, b) == IF a < b THEN a ELSE b
SaturatingSub(a, b) == IF a > b THEN a - b ELSE 0
DivCeil(a, b) == (a + b - 1) \div b

\* Vec::swap_remove and the fix-up of the index of the sequence it moves.
SwapRemove(s, i) == [k \in 1 .. Len(s) - 1 |-> IF k = i THEN s[Len(s)] ELSE s[k]]

\* Seeded fault: the moved sequence keeps its old slot in the index.
IndexNotFixed(id) == [x \in DOMAIN running_index \ {id} |-> running_index[x]]

IndexAfterRemoval(id) ==
    LET slot == running_index[id]
        moved == running[Len(running)]
    IN  [x \in DOMAIN running_index \ {id} |->
            IF x = moved THEN slot ELSE running_index[x]]

remove_from_running(id) ==
    /\ running' = SwapRemove(running, running_index[id])
    /\ running_index' = IndexAfterRemoval(id)

push_to_running(id) ==
    /\ running' = Append(running, id)
    /\ running_index' = [x \in DOMAIN running_index \cup {id} |->
                            IF x = id THEN Len(running) + 1 ELSE running_index[x]]

\* VecDeque::remove of an id that may be anywhere in the queue.
Without(s, id) == Pick(s, Ids \ {id})

decode_needs_new_block(s) ==
    s.num_processed_tokens > 0 /\ s.num_processed_tokens % BlockSize = 0

\* At least one token always runs, so the prefix cache never covers a prompt
\* entirely.
MaxCacheable(tokens) == SaturatingSub(Len(tokens), 1) \div BlockSize

blocks_needed_for_prefill(s, c) ==
    SaturatingSub(DivCeil(Len(s.all_tokens), BlockSize),
                  Minimum(CountCachedBlocks(c, s.all_tokens), MaxCacheable(s.all_tokens)))

\* evict_lru: the oldest entry goes and its block loses the cache's reference.
evict_lru ==
    /\ cache # <<>>
    /\ cache' = Tail(cache)
    /\ refs' = FreedOnce(refs, Head(cache).block)

kv_capacity_tokens == Cardinality(Blocks) * BlockSize

\* Seeded fault: a queue with nobody running counts as idle.
pending_when_running == running # <<>>

has_pending_work == waiting # <<>> \/ running # <<>>

-----------------------------------------------------------------------------

SchedulerInit ==
    /\ PoolInit
    /\ waiting = <<>> /\ running = <<>> /\ running_index = <<>>
    /\ seq = [id \in Ids |-> Absent]
    /\ cache = <<>>
    /\ pc = "idle" /\ todo = <<>> /\ decode_ids = <<>> /\ prefill_ids = <<>>
    /\ budget = 0 /\ reserved = 0 /\ free_blocks = 0

\* add_request_full, for a request enqueue_request did not refuse.
add_request(id, prompt, max) ==
    /\ pc = "idle"
    /\ Len(prompt) + max <= kv_capacity_tokens
    /\ seq' = [seq EXCEPT ![id] = NewSequence(prompt, max)]
    /\ waiting' = Append(waiting, id)
    /\ UNCHANGED <<refs, running, running_index, cache, pc, todo>> /\ UNCHANGED planVars

\* schedule, first loop: running decodes that stay inside their block.
ScheduleDecodes ==
    LET atBoundary == {id \in Ids : decode_needs_new_block(seq[id])}
        inBlock == Pick(running, Ids \ atBoundary)
        picked == SubSeq(inBlock, 1, Minimum(Len(inBlock), max_tokens_per_step))
    IN  /\ pc = "idle" /\ has_pending_work
        /\ decode_ids' = picked /\ prefill_ids' = <<>>
        /\ budget' = max_tokens_per_step - Len(picked)
        /\ todo' = Pick(running, atBoundary)
        /\ reserved' = 0 /\ free_blocks' = 0
        /\ pc' = "boundary"
        /\ UNCHANGED <<refs>> /\ UNCHANGED schedVars

\* schedule, second loop: the decodes in todo need a fresh block each.
EvictForDecode ==
    /\ pc = "boundary" /\ todo # <<>>
    /\ NumFree(refs) <= reserved
    /\ evict_lru
    /\ UNCHANGED <<waiting, running, running_index, seq, pc, todo>> /\ UNCHANGED planVars

\* Seeded fault: the block a boundary decode will take is not reserved.
BoundaryDecodeUnreserved ==
    /\ pc = "boundary" /\ todo # <<>>
    /\ NumFree(refs) > reserved
    /\ todo' = Tail(todo)
    /\ decode_ids' = IF budget > 0 THEN Append(decode_ids, Head(todo)) ELSE decode_ids
    /\ budget' = SaturatingSub(budget, 1)
    /\ UNCHANGED <<refs, prefill_ids, reserved, free_blocks, pc>> /\ UNCHANGED schedVars

ScheduleBoundaryDecode ==
    /\ pc = "boundary" /\ todo # <<>>
    /\ NumFree(refs) > reserved
    /\ todo' = Tail(todo)
    /\ decode_ids' = IF budget > 0 THEN Append(decode_ids, Head(todo)) ELSE decode_ids
    /\ budget' = SaturatingSub(budget, 1)
    /\ reserved' = reserved + Minimum(budget, 1)
    /\ UNCHANGED <<refs, prefill_ids, free_blocks, pc>> /\ UNCHANGED schedVars

\* push_front: a preempted sequence waits before everyone else.
Requeued(id) == <<id>> \o waiting

Preempt ==
    /\ pc = "boundary" /\ todo # <<>>
    /\ NumFree(refs) <= reserved
    /\ cache = <<>>
    /\ todo' = Tail(todo)
    /\ remove_from_running(Head(todo))
    /\ refs' = FreedAll(refs, seq[Head(todo)].block_ids)
    /\ seq' = [seq EXCEPT ![Head(todo)] = Preempted(@)]
    /\ waiting' = Requeued(Head(todo))
    /\ UNCHANGED <<cache, pc>> /\ UNCHANGED planVars

BoundaryDone ==
    /\ pc = "boundary" /\ todo = <<>>
    /\ free_blocks' = SaturatingSub(NumFree(refs), reserved)
    /\ pc' = "admit"
    /\ UNCHANGED <<refs, todo, decode_ids, prefill_ids, budget, reserved>>
    /\ UNCHANGED schedVars

\* schedule, third loop: admission, first come first served.
prefill_scheduled == prefill_ids # <<>>

CanAdmitMore ==
    Len(running) < max_num_sequences /\ budget > 0 /\ waiting # <<>>

HeadNeeds == blocks_needed_for_prefill(seq[Head(waiting)], cache)

\* The prompt's own entries are refreshed before anything is evicted for it.
TouchForPrefill ==
    /\ pc = "admit" /\ CanAdmitMore
    /\ CacheCapacity > 0
    /\ HeadNeeds > free_blocks
    /\ cache' = Touched(cache, seq[Head(waiting)].all_tokens)
    /\ pc' = "evict"
    /\ UNCHANGED <<refs, waiting, running, running_index, seq, todo>>
    /\ UNCHANGED planVars

EvictForPrefill ==
    /\ pc = "evict"
    /\ HeadNeeds > free_blocks
    /\ evict_lru
    /\ free_blocks' = SaturatingSub(NumFree(refs'), reserved)
    /\ UNCHANGED <<waiting, running, running_index, seq, pc, todo>>
    /\ UNCHANGED <<decode_ids, prefill_ids, budget, reserved>>

\* What admitting a prompt of len tokens leaves of the step's token budget and
\* of the blocks; the seeded fault charges nothing.
BudgetUncharged(len) == budget
BudgetAfter(len) == SaturatingSub(budget, len)
BlocksAfter(needed) == SaturatingSub(free_blocks, needed)

\* A prompt that would exceed the budget runs only as the step's one prefill.
ExceedsBudget(len) == len > budget /\ prefill_scheduled

\* The front prompt fits: pop it, run it.
AdmitPrefill ==
    LET id == Head(waiting)
        len == Len(seq[id].all_tokens)
    IN  /\ pc \in {"admit", "evict"} /\ CanAdmitMore
        /\ HeadNeeds <= free_blocks
        /\ ~ExceedsBudget(len)
        /\ waiting' = Tail(waiting)
        /\ push_to_running(id)
        /\ seq' = [seq EXCEPT ![id].status = "Running", ![id].phase = "Prefill"]
        /\ prefill_ids' = Append(prefill_ids, id)
        /\ budget' = BudgetAfter(len)
        /\ free_blocks' = BlocksAfter(HeadNeeds)
        /\ pc' = "admit"
        /\ UNCHANGED <<refs, cache, todo, decode_ids, reserved>>

\* The loop ends: nothing more may run, or the front prompt does not fit.
AdmissionOver ==
    \/ pc = "admit" /\ ~CanAdmitMore
    \/ pc = "admit" /\ CanAdmitMore /\ HeadNeeds > free_blocks /\ CacheCapacity = 0
    \/ pc = "evict" /\ HeadNeeds > free_blocks /\ cache = <<>>
    \/ /\ pc \in {"admit", "evict"} /\ CanAdmitMore /\ HeadNeeds <= free_blocks
       /\ ExceedsBudget(Len(seq[Head(waiting)].all_tokens))

ScheduleDone ==
    /\ AdmissionOver
    /\ pc' = "plan"
    /\ todo' = prefill_ids
    /\ UNCHANGED refs /\ UNCHANGED schedVars /\ UNCHANGED planVars

Schedule ==
    \/ ScheduleDecodes \/ EvictForDecode \/ ScheduleBoundaryDecode \/ Preempt
    \/ BoundaryDone \/ TouchForPrefill \/ EvictForPrefill \/ AdmitPrefill
    \/ ScheduleDone

-----------------------------------------------------------------------------

\* abort_sequence: from running or from waiting, its blocks freed.
AbortRunningOne(id) ==
    /\ pc = "idle" /\ id \in DOMAIN running_index
    /\ remove_from_running(id)
    /\ refs' = FreedAll(refs, seq[id].block_ids)
    /\ seq' = [seq EXCEPT ![id] = Absent]
    /\ UNCHANGED <<waiting, cache, pc, todo>> /\ UNCHANGED planVars

AbortWaitingOne(id) ==
    /\ pc = "idle" /\ id \in Range(waiting)
    /\ waiting' = Without(waiting, id)
    /\ refs' = FreedAll(refs, seq[id].block_ids)
    /\ seq' = [seq EXCEPT ![id] = Absent]
    /\ UNCHANGED <<running, running_index, cache, pc, todo>> /\ UNCHANGED planVars

abort_sequence(id) == AbortRunningOne(id) \/ AbortWaitingOne(id)

=============================================================================
