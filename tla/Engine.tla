------------------------------- MODULE Engine -------------------------------
(***************************************************************************)
(* engine.rs: Engine::step around the scheduler.  A step schedules, plans  *)
(* each admitted prompt against the prefix cache, runs the forward (which  *)
(* appends to the block tables and may fail), samples one token for each   *)
(* sequence, registers the prompts' full blocks and retires what finished. *)
(* What the engine loop does with an error and between steps (requests,    *)
(* aborts) is here as well, so that steps follow each other as they do in  *)
(* the server.  Speculative decoding is not part of this module.           *)
(***************************************************************************)
EXTENDS Scheduler

CONSTANTS MaxFaults   \* bound on the device and sampling errors of a behaviour

ASSUME MaxFaultsAssumption == MaxFaults \in Nat

VARIABLES
    content,             \* block -> the prefix whose keys and values it holds
    cached_blocks,       \* PrefillInfo.num_cached_blocks of this step's prompts
    new_tokens,          \* StepOutput.new_tokens, before the step returns
    output,              \* id -> the tokens handed to the engine loop so far
    outcome,             \* id -> how the request ended, as the engine loop saw it
    consecutive_errors,  \* the engine loop's error counter
    faults               \* device and sampling errors so far

engineVars == <<content, cached_blocks, new_tokens, output, outcome,
                consecutive_errors, faults>>

vars == <<refs, waiting, running, running_index, seq, cache, pc, todo, decode_ids,
          prefill_ids, budget, reserved, free_blocks, content, cached_blocks,
          new_tokens, output, outcome, consecutive_errors, faults>>

MAX_CONSECUTIVE_ERRORS == 3

-----------------------------------------------------------------------------

Init ==
    /\ SchedulerInit
    /\ content = [b \in Blocks |-> <<>>]
    /\ cached_blocks = [id \in Ids |-> 0]
    /\ new_tokens = <<>>
    /\ output = [id \in Ids |-> <<>>]
    /\ outcome = [id \in Ids |-> "new"]
    /\ consecutive_errors = 0
    /\ faults = 0

\* Between steps: a request arrives, or its client goes away or hits one of its
\* stop strings and the engine loop aborts the sequence.
AddRequest(id, prompt, max) ==
    /\ outcome[id] = "new" /\ \A other \in Ids : other < id => outcome[other] # "new"
    /\ add_request(id, prompt, max)
    /\ outcome' = [outcome EXCEPT ![id] = "pending"]
    /\ UNCHANGED <<content, cached_blocks, new_tokens, output, consecutive_errors, faults>>

AbortSequence(id) ==
    /\ abort_sequence(id)
    /\ outcome' = [outcome EXCEPT ![id] = "aborted"]
    /\ UNCHANGED <<content, cached_blocks, new_tokens, output, consecutive_errors, faults>>

ScheduleStep == Schedule /\ UNCHANGED engineVars

-----------------------------------------------------------------------------

\* plan_prefill_inputs, one prompt: look its prefix up, share the matched
\* blocks, leave at least one token to run.
PlanPrefill ==
    LET id == Head(todo)
        tokens == seq[id].all_tokens
        n == Minimum(CountCachedBlocks(cache, tokens), MaxCacheable(tokens))
        matched == SubSeq(MatchedBlocks(cache, tokens), 1, n)
    IN  /\ pc = "plan" /\ todo # <<>>
        /\ cache' = Touched(cache, tokens)
        /\ refs' = SharedAll(refs, matched)
        /\ seq' = [seq EXCEPT ![id].block_ids = @ \o matched,
                              ![id].num_tokens = IF n > 0 THEN n * BlockSize ELSE @]
        /\ cached_blocks' = [cached_blocks EXCEPT ![id] = n]
        /\ todo' = Tail(todo)
        /\ UNCHANGED <<waiting, running, running_index, pc, content, new_tokens,
                       output, outcome, consecutive_errors, faults>>
        /\ UNCHANGED planVars

\* build_batch_input: the batch, prompts first; an empty one goes straight to
\* retire_finished.
PlanDone ==
    /\ pc = "plan" /\ todo = <<>>
    /\ todo' = prefill_ids \o decode_ids
    /\ pc' = IF todo' = <<>> THEN "retire" ELSE "forward"
    /\ UNCHANGED refs /\ UNCHANGED schedVars /\ UNCHANGED planVars
    /\ UNCHANGED engineVars

-----------------------------------------------------------------------------

\* The forward takes the batch in order and gives each sequence the keys and
\* values of the tokens its table does not hold yet.
InPrefill(id) == id \in Range(prefill_ids)

NeedsBlock(s) == s.num_tokens < Len(s.all_tokens) /\ s.num_tokens % BlockSize = 0

\* One iteration of the loop in PagedKvCache::append: n tokens that still fit
\* the current block, a fresh block when there is none.  The batch is cut into
\* chunks wherever the pacer's cap falls, so a run may also end before its block
\* does.  Only a prefill writes the block pool.
RunLengths(s) ==
    1 .. Minimum(BlockSize - (s.num_tokens % BlockSize), Len(s.all_tokens) - s.num_tokens)

AppendRun(id, block, s) ==
    \E n \in RunLengths(s) :
        /\ seq' = [seq EXCEPT ![id] = [s EXCEPT !.num_tokens = @ + n]]
        /\ content' = IF InPrefill(id)
                      THEN [content EXCEPT ![block] = SubSeq(s.all_tokens, 1, s.num_tokens + n)]
                      ELSE content

ForwardAppend ==
    LET id == Head(todo)
        s == seq[id]
    IN  /\ pc = "forward" /\ todo # <<>>
        /\ s.num_tokens < Len(s.all_tokens)
        /\ \/ /\ NeedsBlock(s)
              /\ \E b \in FreeBlocks(refs) :
                    /\ refs' = Allocated(refs, b)
                    /\ AppendRun(id, b, [s EXCEPT !.block_ids = Append(@, b)])
           \/ /\ ~NeedsBlock(s)
              /\ AppendRun(id, s.block_ids[Len(s.block_ids)], s)
              /\ UNCHANGED refs
        /\ UNCHANGED <<waiting, running, running_index, cache, pc, todo, cached_blocks,
                       new_tokens, output, outcome, consecutive_errors, faults>>
        /\ UNCHANGED planVars

ForwardNext ==
    /\ pc = "forward" /\ todo # <<>>
    /\ seq[Head(todo)].num_tokens = Len(seq[Head(todo)].all_tokens)
    /\ todo' = Tail(todo)
    /\ UNCHANGED <<refs, pc>> /\ UNCHANGED schedVars /\ UNCHANGED planVars
    /\ UNCHANGED engineVars

\* allocate() finds no block below the ceiling: the step fails.
ForwardExhausted ==
    /\ pc = "forward" /\ todo # <<>>
    /\ NeedsBlock(seq[Head(todo)]) /\ FreeBlocks(refs) = {}
    /\ pc' = "error"
    /\ UNCHANGED <<refs, todo>> /\ UNCHANGED schedVars /\ UNCHANGED planVars
    /\ UNCHANGED engineVars

ForwardDone ==
    /\ pc = "forward" /\ todo = <<>>
    /\ todo' = prefill_ids \o decode_ids
    /\ pc' = "sample"
    /\ UNCHANGED refs /\ UNCHANGED schedVars /\ UNCHANGED planVars
    /\ UNCHANGED engineVars

\* A segment the device cannot hold, a kernel or a sampling error.
DeviceFault ==
    /\ pc \in {"forward", "sample"}
    /\ faults < MaxFaults
    /\ faults' = faults + 1
    /\ pc' = "error"
    /\ UNCHANGED <<refs, todo>> /\ UNCHANGED schedVars /\ UNCHANGED planVars
    /\ UNCHANGED <<content, cached_blocks, new_tokens, output, outcome, consecutive_errors>>

-----------------------------------------------------------------------------

\* What a sequence's own token leaves processed: everything before it.  The
\* seeded fault counts the new token too.
ProcessedWithNew(s) == Len(s.all_tokens) + 1
ProcessedAfter(s) == Len(s.all_tokens)

\* The token that makes num_generated reach the cap is the last.
ReachesCap(s) == s.num_generated + 1 >= s.max_tokens

\* append_token and apply_token: a stop token ends the sequence and is not
\* emitted; the token that reaches the cap ends it and is.
Advanced(s, tok, isStop) ==
    LET grown == [s EXCEPT !.all_tokens = Append(@, tok),
                           !.num_processed_tokens = ProcessedAfter(s),
                           !.phase = "Decode"]
    IN  IF isStop
        THEN [grown EXCEPT !.status = "Finished", !.finish_reason = "stop"]
        ELSE IF ReachesCap(s)
        THEN [grown EXCEPT !.num_generated = @ + 1,
                           !.status = "Finished", !.finish_reason = "length"]
        ELSE [grown EXCEPT !.num_generated = @ + 1]

\* One row of sample_prefill_outputs or sample_decode_outputs: the model picks
\* a token, which is or is not a stop.
SampleToken ==
    LET id == Head(todo) IN
    /\ pc = "sample" /\ todo # <<>>
    /\ \E tok \in Tokens, isStop \in BOOLEAN :
          /\ seq' = [seq EXCEPT ![id] = Advanced(@, tok, isStop)]
          /\ new_tokens' = IF isStop THEN new_tokens ELSE Append(new_tokens, <<id, tok>>)
    /\ IF InPrefill(id)
       THEN pc' = "register" /\ UNCHANGED todo
       ELSE UNCHANGED pc /\ todo' = Tail(todo)
    /\ UNCHANGED <<refs, waiting, running, running_index, cache, content, cached_blocks,
                   output, outcome, consecutive_errors, faults>>
    /\ UNCHANGED planVars

\* The blocks sample_prefill_outputs has still to register: those the prompt
\* filled beyond its cached prefix.  Its own sampled token is already part of
\* all_tokens.
PromptBlocks(id) == (Len(seq[id].all_tokens) - 1) \div BlockSize

\* One iteration of PrefixCache::register: share the block unless its prefix is
\* cached already; a full cache gives up its oldest entry.
RegisterBlock ==
    LET id == Head(todo)
        i == cached_blocks[id] + 1
        key == PrefixKey(seq[id].all_tokens, i)
        block == seq[id].block_ids[i]
    IN  /\ pc = "register"
        /\ CacheCapacity > 0 /\ i <= PromptBlocks(id)
        /\ \/ /\ key \in Keys(cache)
              /\ UNCHANGED <<refs, cache>>
           \/ /\ key \notin Keys(cache)
              /\ refs' = FreedAll(SharedOnce(refs, block),
                            [k \in DOMAIN PushEvicts(cache) |-> PushEvicts(cache)[k].block])
              /\ cache' = Pushed(cache, [key |-> key, block |-> block])
        /\ cached_blocks' = [cached_blocks EXCEPT ![id] = i]
        /\ UNCHANGED <<waiting, running, running_index, seq, pc, todo, content, new_tokens,
                       output, outcome, consecutive_errors, faults>>
        /\ UNCHANGED planVars

RegisterDone ==
    /\ pc = "register"
    /\ CacheCapacity = 0 \/ cached_blocks[Head(todo)] >= PromptBlocks(Head(todo))
    /\ pc' = "sample"
    /\ todo' = Tail(todo)
    /\ UNCHANGED refs /\ UNCHANGED schedVars /\ UNCHANGED planVars
    /\ UNCHANGED engineVars

SampleDone ==
    /\ pc = "sample" /\ todo = <<>>
    /\ todo' = Pick(running, {id \in Ids : seq[id].status = "Finished"})
    /\ pc' = "retire"
    /\ UNCHANGED refs /\ UNCHANGED schedVars /\ UNCHANGED planVars
    /\ UNCHANGED engineVars

-----------------------------------------------------------------------------

\* Seeded fault: the caches of a retired sequence are dropped, not cleared.
RetireOneLeaking ==
    LET id == Head(todo) IN
    /\ pc = "retire" /\ todo # <<>>
    /\ remove_from_running(id)
    /\ seq' = [seq EXCEPT ![id] = Cleared(@)]
    /\ todo' = Tail(todo)
    /\ UNCHANGED <<refs, waiting, cache, pc>> /\ UNCHANGED planVars /\ UNCHANGED engineVars

\* retire_finished, one sequence.
RetireOne ==
    LET id == Head(todo) IN
    /\ pc = "retire" /\ todo # <<>>
    /\ remove_from_running(id)
    /\ refs' = FreedAll(refs, seq[id].block_ids)
    /\ seq' = [seq EXCEPT ![id] = Cleared(@)]
    /\ todo' = Tail(todo)
    /\ UNCHANGED <<waiting, cache, pc>> /\ UNCHANGED planVars /\ UNCHANGED engineVars

\* The step returns: its tokens and completions reach the engine loop together.
TokensFor(id) == Pick(new_tokens, {id} \X Tokens)

StepReturns ==
    /\ pc = "retire" /\ todo = <<>>
    /\ pc' = "idle"
    /\ output' = [id \in Ids |-> output[id] \o
                     [k \in 1 .. Len(TokensFor(id)) |-> TokensFor(id)[k][2]]]
    /\ outcome' = [id \in Ids |-> IF seq[id].status = "Finished"
                                  THEN seq[id].finish_reason ELSE outcome[id]]
    /\ seq' = [id \in Ids |-> IF seq[id].status = "Finished" THEN Absent ELSE seq[id]]
    /\ new_tokens' = <<>> /\ cached_blocks' = [id \in Ids |-> 0]
    /\ decode_ids' = <<>> /\ prefill_ids' = <<>> /\ budget' = 0 /\ reserved' = 0
    /\ free_blocks' = 0 /\ consecutive_errors' = 0
    /\ UNCHANGED <<refs, waiting, running, running_index, cache, todo, content, faults>>

\* The step failed: the engine loop aborts what was running, and after too many
\* failures in a row what was waiting too.
HeldBy(ids, b) == SumFunctionOnSet([id \in Ids |-> Occurrences(b, seq[id].block_ids)], ids)

StepFails ==
    LET giveUp == consecutive_errors + 1 >= MAX_CONSECUTIVE_ERRORS
        dropped == Range(running) \cup (IF giveUp THEN Range(waiting) ELSE {})
    IN  /\ pc = "error"
        /\ pc' = "idle"
        /\ consecutive_errors' = Minimum(consecutive_errors + 1, MAX_CONSECUTIVE_ERRORS)
        /\ running' = <<>> /\ running_index' = <<>>
        /\ waiting' = IF giveUp THEN <<>> ELSE waiting
        /\ refs' = [b \in Blocks |-> refs[b] - HeldBy(dropped, b)]
        /\ seq' = [id \in Ids |-> IF id \in dropped THEN Absent ELSE seq[id]]
        /\ outcome' = [id \in Ids |-> IF id \in dropped THEN "error" ELSE outcome[id]]
        /\ new_tokens' = <<>> /\ cached_blocks' = [id \in Ids |-> 0] /\ todo' = <<>>
        /\ decode_ids' = <<>> /\ prefill_ids' = <<>> /\ budget' = 0 /\ reserved' = 0
        /\ free_blocks' = 0
        /\ UNCHANGED <<cache, content, output, faults>>

-----------------------------------------------------------------------------

EngineThread ==
    \/ ScheduleStep \/ PlanPrefill \/ PlanDone
    \/ ForwardAppend \/ ForwardNext \/ ForwardExhausted \/ ForwardDone
    \/ SampleToken \/ RegisterBlock \/ RegisterDone \/ SampleDone
    \/ RetireOne \/ StepReturns \/ StepFails

Next ==
    \/ EngineThread
    \/ DeviceFault
    \/ \E id \in Ids : AbortSequence(id)
    \/ \E id \in Ids, prompt \in Prompts, max \in MaxTokensChoices :
          AddRequest(id, prompt, max)

Spec == Init /\ [][Next]_vars

\* The engine thread keeps stepping while there is work; nothing obliges clients
\* to send, to leave, or the device to fail.
FairSpec == Spec /\ WF_vars(EngineThread)

-----------------------------------------------------------------------------

SequenceStates ==
    [all_tokens : Seq(Nat), num_generated : Nat, max_tokens : Nat,
     status : {"Absent", "Waiting", "Running", "Finished"}, phase : {"Prefill", "Decode"},
     block_ids : Seq(Blocks), num_tokens : Nat, num_processed_tokens : Nat,
     finish_reason : {"none", "stop", "length"}]

TypeOK ==
    /\ refs \in [Blocks -> Nat] /\ content \in [Blocks -> Seq(Nat)]
    /\ {waiting, running, todo, decode_ids, prefill_ids} \subseteq Seq(Ids)
    /\ running_index \in [Range(running) -> Nat]
    /\ seq \in [Ids -> SequenceStates]
    /\ cache \in Seq([key : Seq(Nat), block : Blocks])
    /\ pc \in {"idle", "boundary", "admit", "evict", "plan", "forward", "sample",
               "register", "retire", "error"}
    /\ budget \in 0 .. max_tokens_per_step /\ {reserved, free_blocks} \subseteq Nat
    /\ cached_blocks \in [Ids -> Nat]
    /\ new_tokens \in Seq(Ids \X Tokens) /\ output \in [Ids -> Seq(Tokens)]
    /\ outcome \in [Ids -> {"new", "pending", "stop", "length", "aborted", "error"}]
    /\ consecutive_errors \in 0 .. MAX_CONSECUTIVE_ERRORS /\ faults \in 0 .. MaxFaults

CacheBlocks == [i \in DOMAIN cache |-> cache[i].block]

\* Every reference on a block is accounted for by a block table or a prefix
\* entry, at every point of every step: admission, preemption, a failed forward,
\* registration at capacity, retirement and aborts neither leak a block nor free
\* one twice.
RefsMatchHolders ==
    \A b \in Blocks : refs[b] = HeldBy(Ids, b) + Occurrences(b, CacheBlocks)

\* A prefix entry's block holds exactly the keys and values of the entry's
\* prefix for as long as the entry lives: blocks are registered only once a
\* prefill has written them whole, and never handed out again while cached.
CachedContentCorrect ==
    \A i \in DOMAIN cache : content[cache[i].block] = cache[i].key

\* What a prompt reuses is its own prefix, from planning until its step ends:
\* no eviction or allocation in between recycles a block it skipped over.
ReusedPrefixCorrect ==
    \A id \in Ids : \A i \in 1 .. cached_blocks[id] :
        seq[id].block_ids # <<>> =>
            content[seq[id].block_ids[i]] = PrefixKey(seq[id].all_tokens, i)

\* A block that anyone else could read is never written: a write goes to a
\* block just allocated or held by one table and no prefix entry.
NoSharedWrite ==
    [][\A b \in Blocks : content'[b] # content[b] =>
          refs[b] <= 1 /\ Occurrences(b, CacheBlocks) = 0]_vars

\* The index finds every running sequence in its slot, after any sequence of
\* swap-removals by preemption, retirement and aborts.
IndexConsistent ==
    /\ DOMAIN running_index = Range(running)
    /\ \A id \in DOMAIN running_index :
          \E slot \in DOMAIN running : slot = running_index[id] /\ running[slot] = id
    /\ Len(running) = Cardinality(Range(running))

\* Between steps every accepted, unanswered request is in exactly one of the two
\* queues, once: preemption, partial admission and failed steps lose nobody.
NobodyLost ==
    pc = "idle" =>
        /\ Range(waiting) \cup Range(running) = {id \in Ids : outcome[id] = "pending"}
        /\ Range(waiting) \cap Range(running) = {}
        /\ Len(waiting) = Cardinality(Range(waiting))

\* Between steps a running sequence's table holds all of its tokens but the
\* last: the position the next decode runs at is the slot its keys and values
\* are stored in, however the sequence was preempted and prefilled before.
CacheAligned ==
    pc = "idle" => \A id \in Range(running) :
        LET s == seq[id] IN
        /\ s.phase = "Decode" /\ s.status = "Running"
        /\ s.num_tokens = Len(s.all_tokens) - 1
        /\ s.num_processed_tokens = s.num_tokens
        /\ Len(s.block_ids) = DivCeil(s.num_tokens, BlockSize)

\* Every running sequence is part of every step: the budget a step hands to new
\* prompts never starves a decode of a later step, so the branches of schedule
\* that pass a decode over for want of budget are never taken.
EveryRunningRuns ==
    pc = "plan" => Range(running) = Range(decode_ids) \cup Range(prefill_ids)

\* Blocks the batch still has to take.
Demand(ids) ==
    SumFunctionOnSet([id \in Ids |-> DivCeil(Len(seq[id].all_tokens), BlockSize)
                                        - Len(seq[id].block_ids)], ids)

\* The forward takes the blocks the scheduler promised: from its start to its
\* end, what the batch has still to take is free.
PromisesCovered ==
    pc = "forward" =>
        Demand(Range(prefill_ids) \cup Range(decode_ids)) <= NumFree(refs)

\* The same, for the steps that admit no prompt, or one and look at no other: a
\* second one may evict what the first was promised.
SinglePromptCovered ==
    prefill_ids = <<>> \/ (Len(prefill_ids) = 1 /\ ~CanAdmitMore) => PromisesCovered

\* New prompts wait in arrival order, behind every sequence that already ran
\* and was preempted.
ArrivalOrder ==
    \A i, j \in DOMAIN waiting : i < j =>
        LET a == waiting[i]
            b == waiting[j]
        IN  seq[a].num_generated = 0 => seq[b].num_generated = 0 /\ a < b

\* The prefix cache tells the truth: what an entry's block holds is the entry's
\* prefix, and what a prompt was planned to skip is its own.
ContentCorrect == CachedContentCorrect /\ ReusedPrefixCorrect

\* Both queues and the index agree on who is where and in which order, after any
\* mix of admission, preemption, retirement and the three aborts.
QueuesConsistent == IndexConsistent /\ NobodyLost /\ ArrivalOrder

\* Every accepted request ends: preemption cannot ping-pong for ever, because
\* each re-prefill samples a token, and no head of the queue is stuck.
EveryRequestEnds ==
    \A id \in Ids : outcome[id] = "pending" ~> outcome[id] # "pending"

-----------------------------------------------------------------------------

Service == INSTANCE GenerationService WITH
    Caps <- MaxTokensChoices,
    MaxStepTokens <- 1,
    cap <- [id \in Ids |-> IF outcome[id] = "pending" THEN seq[id].max_tokens ELSE 0]

\* Seen from the engine loop, the engine is the generation service: preemption
\* and re-prefill, prefix reuse, chunked forwards and failed steps never show
\* as a repeated, swallowed or surplus token, a second ending, or the ending of
\* a request that the step did not touch.
ImplementsService == Service!ServiceSpec

=============================================================================
