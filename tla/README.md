# TLA+ models of oxydllm

oxydllm is an OpenAI-compatible inference server in Rust. This directory models
the part of it where state outlives a function call: the KV block pool and the
caches over it, the prefix cache, the scheduler, the engine step, speculative
decoding, the thread that drives an engine for the HTTP handlers, the way of a
token to its client (routing, decoding, stop strings), JSON-constrained decoding,
the manager that loads and evicts models, and the resumable download. TLC checks
the models on small instances; TLAPS proves most of their safety properties for every
instance.

Paths below are relative to the crate's `src/`.

## 1. Inventory

| Part | State it keeps | Operations | Hard because |
|---|---|---|---|
| Block allocator (`common/paged.rs`, `BlockAllocator`) | free list, reference counts, materialised segments | allocate (grows a segment when the list is empty), share, free, num_free | one block has many holders, each freeing on its own path; the last segment is short; growth may fail |
| Paged KV cache (`common/paged.rs`, `PagedKvCache`, `ContigBufferPool`) | block table, token count, window, pending writes, contiguous buffer; idle buffers under a budget all layers share | append, prepopulate_block, truncate_to, clear | no `Drop`: whoever forgets `clear` leaks; a windowed buffer folds, and may be rolled back afterwards |
| Prefix cache (`common/prefix_cache.rs`) | LRU of chained block hashes, one block per layer each | lookup, count_cached_blocks, touch, register, evict_lru | entries are counted in one place and taken in another, and evicted in between |
| Scheduler (`scheduler/`) | waiting queue, running set, id index | add_request, schedule, retire_finished, abort_* | block promises, preemption, first-come-first-served admission |
| Engine (`engine.rs`) | scheduler, prefix cache, pacer, model, draft model | add_request, step, aborts | a step is six phases and each can fail |
| Speculative decoding (`engine.rs`) | the target's and the draft's caches | propose, verify, apply, rollback | both caches must be cut back to what was confirmed |
| Engine loop (`server/routes/engine_loop.rs`) | trackers, error counter | receive, sweep, step, route, finish, abort, drain | runs against handlers that leave, a manager that evicts and an engine that fails |
| Routing (`engine_loop.rs`: harmony, think markers), incremental decoder (`common/incremental_decode.rs`), stop scanner (`server/routes/stop_scan.rs`) | protocol state, frozen text, text held back, waiting log-probabilities | harmony_route, push, finish, close_harmony_tool_call | characters, markers and stop strings are cut anywhere by the token stream |
| Constrained decoding (`constrain.rs`) | automaton, guide over the compiled schema | compile, allowed, advance | a token spans several grammar events, a number ends with the byte behind it, and a mask that allows nothing cannot be left |
| Chat handler (`server/routes/chat.rs`) | one response channel per choice | try_send, collect, stream, time out | knows of the loop only through channels |
| Model manager (`models/manager.rs`) | slots Loading/Ready, LRU, KV budget | get_or_load, evict_lru_one, evict_expired, spawn_load, slot guard | loader thread, installer task, engine thread and eviction task share the slots |
| Hub download (`models/hub.rs`) | files on disk, variant index | pull | killed anywhere, and what is left must be told from what is finished |
| Loading, formats, tokenizer, templates, sampling | mostly none over time | — | data, not control |
| Expert streaming (`common/expert_stream.rs`) | LRU of MoE experts under a byte budget | fetch_many | one thread at a time, under the GPU lock |
| Numerics and kernels | none | — | floating point |

How they interact: a handler gets a `ReadyHandle` from the manager and
`try_send`s a request on the engine's bounded channel. The loop drains the
channel into `Engine::add_request`, calls `Engine::step` while there is work and
routes the tokens to unbounded per-request channels. Nobody tells the loop that
a client left or that the model is evicted: it sees a closed response channel, a
flag, or a closed request channel. Inside a step the scheduler promises blocks,
the planner takes cached ones, the forward allocates the rest, sampling registers
full prompt blocks with the prefix cache, and retirement frees.

What makes each part correct: *allocator* — the free list is exactly the blocks
without a holder; *prefix cache* — an entry's block holds the entry's prefix;
*scheduler* — nobody is lost or starved, promises are kept; *engine* — references
match holders, preemption is invisible in the output; *loop* — one well-formed
stream per request, nobody waits for ever, an evicted model goes away; *manager*
— one load per model, every waiter answered, an engine does not die behind its slot, bytes
taken from a budget come back;
*speculation* — the output is the greedy one and rejected tokens leave no trace;
*the way to the client* — the stream is the text of the tokens, cut at the first
stop string, each token on its channel; *constraint* — what may be stopped at is
valid, nothing valid is refused, the mask never runs dry; *download* — success
means whole files, and pulling again finishes what was begun.
`PROJECT.json` lists the hazards line by line.

## 2. Modules

```
KvPool  <--implements--  BlockAllocator  <-- BlockAllocatorProofs
  ^                       (MCBlockAllocator)
Scheduler --extends--> KvPool, PrefixCache
  ^
Engine  --implements-->  GenerationService  <--extends--  EngineLoop
(MCEngine)                                                (MCEngineLoop)
SeqTracker --extends--> IncrementalDecode, StopScanner, Filters   (MCSeqTracker)
JsonSchema --extends--> JsonConstraint --extends--> JsonMachine   (MCJsonSchema)
SpeculativeDecode --extends--> PagedKvCache   (MCSpeculativeDecode)
ModelManager (MCModelManager)
HubPull (MCHubPull)
```

`BlockAllocator`, `Engine`, `EngineLoop`, `SeqTracker`, `SpeculativeDecode`,
`ModelManager` and `HubPull` each have their theorems in a module of their own,
`<module>Proofs`; `DataLemmas` holds the lemmas they share: induction, sums over finite
sets, filters, and sequences without repetition. `Filters` defines the one filter the
models use, `Pick`, as a recursive function, so that it can be proved about.

* **KvPool** is the abstract pool: a reference count per block, a block can be
  taken iff its count is zero. `Scheduler` and `Engine` are built on it.
* **BlockAllocator** is `BlockAllocator` of `paged.rs`: `free_list` is a LIFO
  `Vec`, `ref_counts` grows a segment at a time. `allocate` is three actions,
  one for each way through it.
* **PrefixCache** is the LRU as a sequence of entries, oldest first. A key is the
  prefix itself: `chain_hash` is assumed not to collide (the code compares the
  block's own tokens as well, not the whole prefix).
* **Scheduler** is `schedule()` one loop iteration per action, with the local
  variables `budget`, `reserved` and `free_blocks` as state. Nothing else can run
  in between: `schedule` has the engine to itself and every action is guarded by
  `pc`. One allocator stands for the layers', which allocate in lockstep.
* **Engine** is `Engine::step`: schedule, plan, forward, sample, register,
  retire, and the loop's error arm, which aborts the running sequences and, at
  the third failure in a row, the waiting ones. Tokens and stops are
  nondeterministic. `content[b]` records which prefix's keys and values a block
  holds, which is what reuse has to get right. `ForwardAppend` takes runs of any
  length up to a block's end, which covers every chunking the pacer can choose.
* **GenerationService** is what the loop is promised: a step hands a request a run of
  at most `MaxStepTokens` tokens, one without a draft model and `SPEC_DRAFT_K + 1` with
  one; a stop takes the place of a token and ends the run; the step that reaches the cap
  is the last for its request, but its run is delivered whole, past the cap too
  (`engine.rs:849`); one ending per request. `Engine`, which has no draft model,
  implements it with `MaxStepTokens = 1` (`ImplementsService`); `EngineLoop` uses it in
  the engine's place, with any `MaxStepTokens`.
* **EngineLoop** is the thread of `engine_loop.rs` interleaved with handlers
  (`TakeHandle`, `TrySend`, `Collect`, `Leave`) and the manager (`EvictSlot`, then
  `RaiseShutdown`, in the order of `evict_lru_one` and `evict_expired`). A step's tokens
  are the code's `Vec`, those of a request together, and are routed one by one. A token
  sends text, nothing, or the text before a stop string; the tokens behind a stop string
  in the same step are skipped, as by `stopped_ids.contains`. A channel's run of text
  events is kept as one. The exit path is two
  actions, since a request can arrive between the drain of the trackers and the
  drop of the receiver.
* **PagedKvCache** is one layer's cache as operators: the length of the block
  table, the positions written to the block pool, the contiguous buffer with its
  capacity, and the pool of idle buffers. A key-value pair is the token it was
  computed from, so that a buffer which keeps too little, or the wrong end, shows.
* **SpeculativeDecode** is `run_speculative_decode` for one sequence from its
  prefill on, with an arbitrary pair of greedy models, each with a sliding and a
  full layer. A prefill comes in any chunks and behind any number of reused blocks;
  a preemption may fall between two cycles and clears both caches; an append that
  needs more blocks than the scheduler reserved may fail, which aborts the sequence.
* **IncrementalDecode** and **StopScanner** are the two pure state machines of text:
  a token spells bytes, three of which may form one wide character, and a text is a
  sequence of characters with U+FFFD for broken ones. The tokenizer's `decode` is
  external and modelled by what the code relies on: lossy UTF-8, and a decoder that
  strips a leading space.
* **SeqTracker** is what the loop does with the tokens of one request: the harmony
  protocol or the think markers, the two decoders, the scanner, log-probabilities
  that wait for text, the opener and closer of a function call, and the two ways a
  stream ends. Its properties read the place of every token off the whole history
  instead of carrying a state along. `EngineLoop` has the rest of the loop.
* **JsonMachine** is the syntax automaton, **JsonConstraint** the guide, the walk of
  a token's bytes, the mask and `advance`. Bytes are one-character strings, a few for
  each class the code tells apart. **JsonSchema** compiles a schema as the code does
  and states, apart from automaton and guide, which texts are JSON and which a schema
  allows, by cutting a text into parts; it is recursive and only TLC uses it.
* **HubPull** is `pull` with `download_file` and `fetch_from`: one action per request,
  answer, chunk, end of body and line of the index, so that a kill falls between any
  two. The disk survives; a repository is a listing of files with known sizes. An
  older, longer file may be there before the first pull.

* **ModelManager** is `manager.rs` with `GlobalKvBudget` and what `loader.rs` does
  to it. A load goes through a thread (`ReserveDraft` to `LoadOk`, then the draft,
  then the engine loop, `LoopExits` or `Panics`, `DropGuard`) and a task
  (`InstallerWakes`, then one of the ways to install), which share the slots with
  `GetReady`, `GetLoading`, `GetAbsent` and `EvictExpired`. An action is one
  critical section of the manager's lock or one operation on the budget's atomic:
  `InstallerWakes` is apart from the installation because `is_closed` is asked
  before the lock is awaited, and `Unload` because the flag is raised after it is
  released. `Panics` strikes at any point of the thread: before the result is sent; after
  it and before the slot guard is made (`drafting`, `manager.rs:1308-1366`), when the slot
  may already be installed and nobody removes it; or in the loop, past the guard. A
  generation is named after the request whose load created it, which
  stands for the freshly allocated shutdown flag the guard compares. `used_before`
  orders the Ready models by `last_used`; which have expired is left open. The engine
  itself is only its thread's place; `EngineLoop` has the rest. Models with no KV
  blocks (`per_block_bytes = 0`) charge nothing and are left out, and the
  registry starts empty.

Definitions whose comment calls them a *seeded fault* are the slips that show a
property has teeth; no specification uses them. `PROJECT.json` names, for every
property, the fault it catches.

## 3. Runs

| Run | Instance | Shows |
|---|---|---|
| `block_allocator` | ceiling 5, segments of 2, counts to 2 | free list exact, `num_free` exact, refinement of `KvPool` |
| `engine_safety` | 3 requests, 3 blocks of 2 tokens, 2 prefix entries, 3 slots, budget 4, one device fault | reference accounting, cached and reused content, no write to a shared block, queues, index and arrival order, table and counters aligned, what a step promised kept when it looks at one prompt at most, refinement of `GenerationService` |
| `engine_ends` | prompts of two blocks that share nothing, 3 blocks, budget 1, one device fault, fair engine thread | every running sequence is in every step; every request ends |
| `engine_loop` | 2 requests, queue of 1, caps of 2, up to 2 tokens of a request in a step, panics allowed, fair | trackers match the engine, streams well-formed, a completion has seen `StreamEnd` while the model is loaded, a leaver costs at most one more step, every waiter hears something, eviction ends the loop |
| `text` | every token sequence of up to 5 to 8 tokens over vocabularies of 3 to 7, with no, one or two stop strings | the stream is the decode of the whole up to the first stop; content and reasoning split as the protocol says; log-probabilities once each; calls in one block |
| `json` | 11 schemas, up to 8 or 9 tokens of one byte or several, depth 3, 2 blanks, guided depth 2 | `StopMeansValid`, `NeverStuck`, `NothingRefused` |
| `speculative` | every pair of greedy models over 3 tokens, K = 2, window 2, blocks of 2, cap 5, one preemption, fair | caches complete for every query, tables exact, the block pool holds the prefill, idle buffers within budget, output greedy, generation ends |
| `speculative_cap` | cap 3 | **violation**, see section 5 |
| `manager` | 2 requests, 2 models that fit the KV budget but not the memory budget together; a draft, halved retries, panics at every stage; fair | one load per model with every waiter listed, engines told to end iff removed, both budgets kept, no registered engine ends behind its slot once its guard exists, every waiter answered |
| `manager_dead_slot` | 3 requests, engine loops may panic | **violation**, see section 5 |
| `pull` | 4 repositories (one file, shards, two GGUF variants, mixed), with and without ranges and `--force`, 2 pulls, 2 faults, 2 kills, 2 attempts; fair | success means whole and findable files, no fetched piece is given up, pulling again completes |
| `pull_resume` | a tokenizer listed after the weights | **violation**, see section 5 |

**Bounds.** Three blocks of two tokens are the least in which a sequence can cross
a block boundary while another holds the rest, so that eviction, preemption and
re-prefill all happen; two prefix entries are the least for LRU order to matter
and for a chain to lose its head. In `engine_safety` two prompts share their first
block and part in the second, and one fits a block. Three requests are needed for
a swap-removal that moves someone and, with three slots, for a prompt to be
looked at behind an admitted one while a third runs. A budget of 4
lets one prompt exceed it beside a decode; `engine_ends` has a budget of 1, below
the number of slots, so that every prompt is oversized. The loop's queue of one is
full as soon as two handlers send. Two tokens of a request in a step are the least for
one to lie behind a stop string or past the cap (the code has up to five), and with a
cap of two a request may also need several steps. With K = 2 a draft is rejected at
once, in the middle, or not at all; the code's K is 4. A window of 2 over blocks of 2 with a
margin of 1 (16 in the code) makes a buffer fold within a prompt of 3 and a cap of 5.
The decoder's look-back of 4 and back-off of 3 leave, in a text of 8 tokens, several
places at which a three-byte character meets the frozen boundary; both are the code's
own. A stop string of three characters overlaps itself and spans three tokens; harmony
needs six tokens for a header, a call and its end. For JSON eight tokens close an
object of two properties inside an array; the limits of depth, blanks and guidance
are lowered so that each is met. In `pull` two faults and two kills meet two
connection attempts, so that a run ends by exhaustion and by a kill, and the rerun
meets another of either.
`MaxFaults`, `MaxRefs` and `MaxPreemptions` bound
behaviours, not states of the code. The manager needs two models for one to give
way to the other, and in `manager_dead_slot` a third request for the dead engine to be
asked for again. Its bytes are single digits: what matters is which of the pool, the
memory and the halves fit. What the code never gives back of the KV budget is counted
in `lost`, and `BudgetAccounted` says that nothing else is missing (section 5); blocks
are of two bytes, so that a grant may leave a rest. Deadlock is not checked where the system may
come to rest: all requests answered, the loop gone, the sequence finished, no
load under way, the bound on tokens or pulls reached.

**Fairness.** `Engine!FairSpec` is weak fairness of the engine thread, which runs
whenever `has_pending_work` (the loop calls `step` unconditionally then); clients
and devices owe nothing. `EngineLoop!FairSpec` adds weak fairness of each
handler's task (tokio polls a ready task) and of `RaiseShutdown` (the statement
after the removal). Its `EngineEnds(id)` says that a sequence the engine is stepped
with for ever ends, which is what `engine_ends` shows of the engine
(`EveryRequestEnds`) and `speculative` of a cycle (`GenerationEnds`); it says nothing of
an engine that is not stepped. `SpeculativeDecode!FairSpec` is weak fairness of the cycle.
`ModelManager!FairSpec` is weak fairness of every loader thread and installer task:
the operating system and tokio run them, and tokio's mutex is first-in-first-out.
That includes that a load which may end does end; requests and expiry owe nothing.
`HubPull!FairSpec` is weak fairness of the process while it lives and of the user, who
runs an unfinished pull again (what the message of a failed pull asks for); faults and
kills owe nothing and are bounded.

**Symmetry.** Blocks are interchangeable in `Engine` because any free block may be
allocated, requests and models in `ModelManager` because nothing orders them; no run
with symmetry checks a liveness property.

## 4. Proofs

Everything here is proved for every value of the constants that the named `ASSUME`s
allow. Each module of proofs opens with its inductive invariant; one lemma for the
initial states and one per action show that it is one, and the theorems follow from it.

**`BlockAllocatorProofs`** (any ceiling `max_blocks >= 1`, segment size
`1 .. max_blocks`, bound on the counts):

* `FreeListCorrect` — `TypeOK`, `FreeListDistinct` and `FreeListExact` always hold.
  `IInv` is their conjunction. Neither half is inductive alone: that a freed block
  is not yet listed follows from `FreeListExact` (its count was positive), and that
  popping removes the block altogether follows from `FreeListDistinct`.
* `NumFreeCorrect` — `num_free` is the number of blocks below the ceiling without
  a holder. The free list is a bijection onto the unreferenced materialised blocks,
  and the rest of the ids are counted by the second summand.
* `AllocatorImplementsPool` — initial states map to the pool's and every step to
  one of the pool's or a stutter under `AbstractRefs`, where an id not yet
  materialised has count zero, so that a growth is one `PoolAllocate`. This is what
  lets the other modules use `KvPool` in place of the free list.

**`EngineProofs`** (any number of requests, prompts, block size, pool, cache capacity,
slots, budget of a step, caps and device faults): all of the engine's safety properties.
The invariant has five layers.

* `CInv` is the control part and mentions no reference count: `Queues` (nobody twice,
  and an index that finds everyone after a `swap_remove`), `Status` (who is where, and
  that what does not run holds no block), `Arrivals`, `Lists` (which of a step's lists
  hold whom at each `pc`), `Budgeted` and `Stages` (how far each running sequence's
  table and counters are at each point of a step). From it follow `QueuesCorrect`,
  `TablesAligned` and `NoDecodeStarves`. The last rests on `Budgeted`: admission costs a
  token at least, so that the number of running sequences never exceeds the budget, and
  `Len(todo) <= budget` is kept while the decodes at a block boundary are placed.
* `Accounted` adds `RefsMatchHolders` and that no key is cached twice
  (`ReferencesAccounted`, with `TypeOK`). A count equals a sum over all sequences plus a
  number of occurrences among the entries. Each action is one change of one summand, or,
  for a failed step, the removal of a set of them. Registration is the long case: it
  may evict an entry, and free its block, before it adds its own.
* `Contents` says what blocks hold (`PrefixesTrue`) and is where sharing is argued:
  `ContentCorrect` alone is not inductive, because the forward writes to the last block
  of a table. `Sole` says that a block which is not full is in one table, once, and in
  no entry; a fresh block has no reference, hence by `Accounted` is in no table and no
  entry. Both together give `WritesExclusive`.
* `Promised` follows the free blocks through a step: what the decodes still need is
  within `reserved`, what admission counts with is free beyond it, and the planner
  shares as many blocks for a prompt as the scheduler took for cached. What is free
  shrinks by an allocation only, and an allocation lessens one sequence's need by
  one; an eviction, a preemption or a shared block frees no fewer. That gives
  `LonePromptCovered`. It is about a step that admits no prompt, or admits one and looks
  at no other, since looking at a second may evict what the first was counted to share.
* `Counted` relates a request's output, the token this step has for it, its
  `num_generated` and its `max_tokens`. With `CInv` it gives `EngineImplementsService`:
  `StepReturns` is a delivery of one token or none to each request, `StepFails` an
  error, an abort and an arrival are themselves, and every other action, preemption and
  re-prefill included, is a stutter.
  `EngineLoopProofs` is about this service; together they carry from blocks to streams.

**`EngineLoopProofs`** (any queue capacity and caps, with and without panics):
`TrackersAlwaysMatch`, `StreamsAlwaysWellFormed`,
`OkAlwaysMeansStreamEnd`, `LeaverAlwaysCostsOneStep`, for any finite set of requests and
any `MaxStepTokens`, hence with a draft model or without. The properties speak of the loop
between iterations or of a handler at its end. The invariant says what holds in the
middle: a queued request is unknown to the engine and has an empty channel; while a
step's results are routed, the trackers are the pending requests and those among the
completions not yet routed; a channel is open exactly as long as its tracker lives.

**`ModelManagerProofs`** (any models, sizes, budgets, number of requests):
`OneLoadEachHolds`, `EngineToldIffRemovedHolds`, `BudgetAlwaysAccounted`,
`MemoryAlwaysWithinBudget`, `NoGuardedSlotEverTurnsDead`. The invariant is `Shape` (where a
load's thread, its result, its installer and its model's slot may stand together),
`Budget`, `BudgetAccounted` itself, and `Rest` (the order of use and the memory of
the Ready models). `Shape` carries the proof: a pool is released once because a slot's
generation is installed and its installer is done. `BudgetAccounted` is an equation
between a counter and a sum over all loads; an action changes one summand
(`SumUpdate`), an eviction sets a whole set of them to zero (`SumSplit`). The attempt
to prove it for blocks of more than a byte is what showed the rounding leak of
section 5, which is now part of `LoadOk`.

**`SpeculativeDecodeProofs`** (any two greedy models, prompt, window, margin, block
size, `SPEC_DRAFT_K`, cap, preemptions, buffer budget): `CachesAlwaysComplete`,
`BlocksAlwaysFit`, `PoolAlwaysHoldsPrefill`, `ContigAlwaysWithinBudget`,
`TokensAlwaysGreedy`. `CachesComplete` is far from inductive: `truncate_to` can only
shorten a buffer, so that what a rollback leaves depends on what earlier appends kept
beyond the window. `PhaseInv` therefore says, for each phase of a cycle, which tokens
each model's caches stand for and how far behind the window they still reach, enough
for every rollback that phase can lead to; this is where the margin and the length of
the verify forward enter. `Sound` ties tables and buffer counters to the tokens and
`ChainInv` says that accepted tokens continue the confirmed ones greedily.

**`SeqTrackerProofs`** (any vocabulary, stop strings and protocol):
`LogprobsAlwaysExact`, `ChannelsAlwaysSplit`, `StreamAlwaysExact`, `CallsAlwaysWhole`: all
that the run `text` checks. Of the log-probabilities, what was handed out and what waits are, in
order, the content's tokens; that proof goes through every route of the harmony and think
protocols and needs nothing of what decoder and scanner decide. `ChannelsSplit` compares
the state the router carries from token to token with the place the whole history gives
each token. `Follows` says what the one stands for in terms of the other: for each of
the four harmony states, which marker the message began with, whether its body has
begun and which names its header has; and the same for the think markers. A token leaves
the places of those before it as they were (`PlaceBefore`, `PlacedAppend`), so each step
is about the last place alone. That a history is well formed is needed in earnest: a
role opened in the middle of a message, or a channel in a header, is what the router
takes for something else.

`StreamExact` compares what the client reads, piece by piece, with one decode of all the
tokens. The tokenizer's decode is a fold over bytes: `RunBehind` says that bytes behind
a whole character decode on their own, `RunGrows` that later bytes change nothing of
what was formed, and `DecodeGrows` and `DecodeBehind` say the same of tokens. `Going`
is the decoder's invariant: the frozen text is the decode of the frozen tokens, which
end where a character does, and `decoded_len` counts the whole decode but for the U+FFFD
at its end; `PushIs` keeps it. `Scanned` is the scanner's: no stop string begins in what
was handed out, whatever comes (`Dead`), and none is complete in what is held. `Parts`
joins both to the stream. What the property assumes of the tokens (`Settles`) is where
each of these fails otherwise: the back-off has to reach a clean end, or the frozen
boundary lies inside a character; and a first token that spells nothing lets a
stripping tokenizer freeze the empty text, behind which the leading space is no longer
stripped. No stop string may contain U+FFFD, which a later byte can take back.

`CallsWhole` reads the framing off the history (`Framed`). `FrameStep` says that the
router opens and closes a call exactly where `Calls` and `Spoke`, the history's words for
it, change; with no character cut and nothing to stop at (`Bare`) the decoder and the
scanner hold nothing back (`BarePush`, `BareFinish`), so that opener and closer fall
between the right characters; and `Called` relates the flag the loop keeps,
`harmony_tool_open`, with the router's state, so that a call the stream ends in is
closed once.

**`HubPullProofs`** (any set of listings, any number of pulls, attempts, faults and
kills): `SavedAlwaysWhole`, `BytesAlwaysKept`. A run looks only at sizes; `Stored` (a
file holds upstream's pieces from the first on, unless it is longer than upstream's)
is why a size tells. `ToDo` says that what a run wants is whole or still queued, so
that an empty queue means success; `SavedWhole`, `ListedInv` and `IndexInv` carry what
earlier runs saved through a later run that rewrites the index line by line.
`RepoAssumption` demands that a listing names a file once, which the hub's file
listing does.

**How induction is done.** The library's induction theorems take an operator, which
the provers cannot instantiate. `DataLemmas` states induction over a *set* of numbers
or of subsets instead (`NatSetInduction`, `SubsetInduction`, from the existence of a
minimal element), and with it proves what the community modules' sums over finite sets
compute and what the filter `Pick` returns. `SeqTrackerProofs` does the same for
sequences (`SeqSetInduction`): the texts for which a claim holds are a set that has the
empty one and is closed under one more character, hence all of them. A recursive
function is first shown to exist, one value at a time (`RunExists`, `FlatExists`).

**Only model-checked.** Liveness (`EveryRequestEnds`, `EveryWaiterHears`,
`EvictionEndsLoop`, `GenerationEnds`, `EveryWaiterAnswered`, `RerunCompletes`): fairness
and `ENABLED` are out of the prover's reach. `StopMeansValid`, `NeverStuck` and
`NothingRefused`: grammar, schema and automaton's stack are recursive, and a proof of
them is an induction over texts with the recursive operators the provers cannot read.
Every other safety property the runs expect to hold is proved.

## 5. Where code and documentation part

* **Speculation passes `max_tokens`** (`speculative_cap`). `engine.rs:790`: "a stop
  or length cap drops the remaining accepted tokens". Only a stop does.
* **A dead engine can be installed as Ready** (`manager_dead_slot`).
  `CHANGELOG.md:126`: "A panicking engine loop no longer leaves a model permanently
  unusable". `manager.rs:1376` asks `is_closed` and then waits for the lock. The
  guard of an engine loop that panics in between finds no Ready slot to remove; the
  installer registers the dead engine afterwards. There is a second way to the same
  end: the result is sent at line 1308 and the guard is made at 1366, so that a panic
  while the draft loads or the engine is built ends a thread whose slot may be Ready
  already, with no guard to remove it (`Panics` at `drafting`). What is handled is a
  panic, or an exit, of the loop of an engine whose slot is Ready:
  `NoGuardedSlotTurnsDead`.
* **A killed pull may refuse to resume** (`pull_resume`). `README.md:228`: "re-running
  the same `pull` after a shutdown picks up where it stopped". Only JSON is fetched
  before the weights; a file listed behind them (`tokenizer.model`, `merges.txt`) is
  missing when the pull is killed in between, and `is_incomplete_download`
  (`hub.rs:266`) looks at `config.json` and the weights alone. `pull` shows that
  repositories without such a file resume from every point.

The following were seen while modelling and have no run of their own:

* `schedule` (`scheduler/mod.rs:220-222`): "a step never promises one block twice".
  After an eviction for the second prompt of a step, line 295 recomputes
  `free_blocks` without what the first prompt was promised, and `PromisesCovered`
  fails with the prompts `<<2>>` and `<<1, 1, 1, 1>>` and a budget of 6. With three
  slots it also fails when the second prompt is turned away: what was evicted for it
  may be the very entries the first was counted on, and when a running sequence holds
  their block nothing is freed in exchange. The forward then fails and the running
  sequences are aborted; `engine_ends` shows that requests still end,
  `SinglePromptCovered` that it takes a look at a second prompt.
* `chat.rs:1758`: "Accumulates engine events for one sequence until `StreamEnd`". The
  collector also returns `Ok` when the channel just ends, which it does for a request
  still queued when the loop exits: `OkMeansStreamEnd` holds only while the model is
  loaded.
* What the KV budget never gets back, the `lost` of `ModelManager`: a pool dropped
  with a model whose weights did not survive it (`loader.rs:868`, though
  `loader.rs:1699` says "the caller must release the bytes if the load fails
  afterwards"), the pool of a draft (`manager.rs:1322`), all a panicking loader had
  taken, and the rest of a grant that is no whole
  block (`loader.rs:1855`; `traits.rs:79` calls `kv_cache_bytes` "what the budget was
  charged for").
* Opener and closer of a harmony call go past the stop scanner, so that text it holds
  back comes out behind them, and a stop string inside a call leaves its block open.
  The requests of `text` that make calls therefore have no stop strings.
* Broken bytes before a cut character, one behind the other, use up the decoder's
  back-off, and the frozen boundary then lies inside the character, although "the
  boundary never lands inside a character" (`incremental_decode.rs`). A first token that
  spells nothing costs a stripping tokenizer's leading space. `StreamExact` is stated
  for tokens that do neither (`Settles`).
* Of a bare number under a root enumeration every beginning that is a number may be
  stopped at, before the guide has seen it end; `StopMeansValid` excepts it. A property
  name that JSON must escape can never be written, so that a closed object which
  requires one leaves the mask with nothing. `[ ]` is refused, and the limit on blanks
  counts those inside strings.
* A pull takes a metadata file of unknown size that was cut off for complete; the index
  lists partial files of other variants; a body is appended to what is on disk without
  asking whether upstream changed in between (no `If-Range`).

## 6. Not modelled, and the plan

Not modelled for good: kernels and numerics (the larger part of the lines: Metal
kernels, attention, quantisation), file formats and tensor construction, sampling
arithmetic, tokenizer and chat templates, the parsing of tool calls out of finished
text, metrics, telemetry, CLI. They are data or floating point and keep no state
over time; the models take their results as nondeterministic choices or as external
operators.

Could still be modelled: `ExpertStream`'s LRU; the arithmetic of `ChunkPlanner` and
`PrefillPacer`, of which `Engine` and `SpeculativeDecode` assume only that a prompt is
cut into runs; the embedding models' cache of the manager; `ls` and `rm` of the hub.

Proofs that could follow: the JSON automaton alone, its stack as a sequence and its
language as a set closed under concatenation, before the guide over it.
`TypeOK` of `Engine`, `EngineLoop`, `SpeculativeDecode`, `ModelManager` and `HubPull` is
proved and needs no run.

## 7. Running

```
tlc -workers 2 -config MCEngine.cfg MCEngine
tlapm BlockAllocatorProofs.tla
```

The proofs of `Engine` and `SeqTracker` take about ten minutes each, those of
`ModelManager` and `SpeculativeDecode` a few minutes, the others less.
