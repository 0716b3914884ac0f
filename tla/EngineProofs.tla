----------------------------- MODULE EngineProofs -----------------------------
(***************************************************************************)
(* The engine's safety properties, for every pool, every block size, every *)
(* number of requests, every prompt and every budget of a step.            *)
(*                                                                         *)
(* The inductive invariant is built in five layers, each proved on top of  *)
(* CInv and, where it speaks of blocks, of Accounted:                      *)
(*   CInv       the control part: the queues and their index, who is in    *)
(*              which list at each point of a step, that there is a token  *)
(*              of the budget for each who runs, and how long each table   *)
(*              is; it depends on no reference count;                      *)
(*   Accounted  every reference is a block table's or a prefix entry's, a  *)
(*              sum over all sequences;                                    *)
(*   Contents   what is in the blocks that more than one sequence may read,*)
(*              and that a block still being filled is in one place;       *)
(*   Promised   how many blocks are free at each point of a step, against  *)
(*              what the scheduler counted on;                             *)
(*   Counted    how many tokens each request was given, against its cap.   *)
(* CInv gives the consistency of the queues, of the tables and of the      *)
(* batch; with Accounted, that no block leaks or is freed twice; with      *)
(* Contents, that the prefix cache is true and no shared block is written; *)
(* with Promised, that a lone prompt never meets an empty pool;            *)
(* with Counted, that the engine implements GenerationService.             *)
(***************************************************************************)
EXTENDS Engine, DataLemmas

-----------------------------------------------------------------------------
(* The inductive invariant.                                                *)

Typed ==
    /\ refs \in [Blocks -> Int] /\ content \in [Blocks -> Seq(Nat)]
    /\ {waiting, running, todo, decode_ids, prefill_ids} \subseteq Seq(Ids)
    /\ running_index \in [Range(running) -> Nat]
    /\ seq \in [Ids -> SequenceStates]
    /\ cache \in Seq([key : Seq(Nat), block : Blocks])
    /\ pc \in {"idle", "boundary", "admit", "evict", "plan", "forward", "sample",
               "register", "retire", "error"}
    /\ budget \in 0 .. max_tokens_per_step /\ {reserved, free_blocks} \subseteq Nat
    /\ cached_blocks \in [Ids -> Nat]
    /\ new_tokens \in Seq(Ids \X Tokens) /\ output \in [Ids -> Seq(Tokens)]
    /\ outcome \in [Ids -> {"new", "pending", "stop", "length", "aborted", "error"}]
    /\ consecutive_errors \in 0 .. MAX_CONSECUTIVE_ERRORS /\ faults \in 0 .. MaxFaults

Run == Range(running)
Wait == Range(waiting)
Batch == Range(prefill_ids) \cup Range(decode_ids)

\* The queues: nobody twice, nobody in both, and an index that finds everyone.
Queues ==
    /\ Distinct(running) /\ Distinct(waiting) /\ Run \cap Wait = {}
    /\ DOMAIN running_index = Run
    /\ \A i \in DOMAIN running : running_index[running[i]] = i

\* Who is where; what is not running has no blocks.
StatusOf(id) ==
    LET s == seq[id] IN
    /\ s.status = "Absent" <=> outcome[id] # "pending"
    /\ s.status = "Waiting" <=> id \in Wait
    /\ s.status = "Running" => id \in Run
    /\ id \in Run => s.status \in {"Running", "Finished"}
    /\ s.status # "Absent" => s.all_tokens # <<>>
    /\ s.status = "Waiting" => s.num_processed_tokens = 0
    /\ id \notin Run => s.block_ids = <<>> /\ s.num_tokens = 0
FinishedOf(id) ==
    seq[id].status = "Finished" => /\ pc \in {"sample", "register", "retire", "error"}
                                   /\ id \in Run \/ pc = "retire"
                                   /\ seq[id].finish_reason \in {"stop", "length"}
Status == \A id \in Ids : StatusOf(id) /\ FinishedOf(id)

\* Ids are given out in order.
Arrivals ==
    /\ \A i, j \in Ids : i < j /\ outcome[i] = "new" => outcome[j] = "new"
    /\ ArrivalOrder

\* What the lists of a step hold at each point of it.
Lists ==
    /\ Distinct(todo) /\ Distinct(decode_ids) /\ Distinct(prefill_ids)
    /\ Range(decode_ids) \cap Range(prefill_ids) = {}
    /\ pc = "idle" => todo = <<>> /\ decode_ids = <<>> /\ prefill_ids = <<>>
    /\ pc = "boundary" => /\ prefill_ids = <<>> /\ Range(todo) \cap Range(decode_ids) = {}
                          /\ Run = Range(decode_ids) \cup Range(todo)
                          /\ \A id \in Range(todo) : decode_needs_new_block(seq[id])
    /\ pc \in {"admit", "evict"} => todo = <<>> /\ Run = Batch
    /\ pc = "plan" => Range(todo) \subseteq Range(prefill_ids) /\ Run = Batch
    /\ pc \in {"forward", "sample", "register"} => Range(todo) \subseteq Batch /\ Run = Batch
    /\ pc = "register" => todo # <<>> /\ Head(todo) \in Range(prefill_ids)
    /\ pc = "retire" => Range(todo) = {id \in Run : seq[id].status = "Finished"}

\* There is a token of the budget for everyone who runs.
Budgeted ==
    /\ Len(running) <= max_tokens_per_step
    /\ pc = "boundary" => /\ Len(todo) <= budget
                          /\ Len(running) + budget <= max_tokens_per_step + Len(todo)
    /\ pc \in {"admit", "evict"} => Len(running) + budget <= max_tokens_per_step

\* The table and the counters of a sequence at each point of a step.
Tabled(s) == Len(s.block_ids) = DivCeil(s.num_tokens, BlockSize)
Sampled(s) ==
    /\ s.phase = "Decode" /\ s.num_tokens = Len(s.all_tokens) - 1
    /\ s.num_processed_tokens = s.num_tokens /\ Tabled(s)
    /\ s.status = "Running" => s.num_generated >= 1
    /\ Len(s.all_tokens) >= 2
Planned(s) ==
    /\ s.status = "Running" /\ s.phase = "Prefill"
    /\ s.num_tokens = Len(s.block_ids) * BlockSize /\ s.num_tokens < Len(s.all_tokens)
Computed(s) == s.status = "Running" /\ s.num_tokens = Len(s.all_tokens) /\ Tabled(s)
ToSample(id) ==
    id \in Range(todo) /\ (pc = "sample" \/ (pc = "register" /\ id # Head(todo)))

StageOf(id) ==
    LET s == seq[id] IN
    /\ pc \in {"idle", "boundary", "admit", "evict", "plan"} /\ id \notin Range(prefill_ids)
          => Sampled(s) /\ s.status = "Running"
    /\ pc \in {"admit", "evict", "plan"} /\ id \in Range(prefill_ids)
          => Planned(s) /\ ((pc = "plan" /\ id \notin Range(todo)) \/ s.block_ids = <<>>)
    /\ pc = "forward" => /\ s.status = "Running" /\ s.num_tokens <= Len(s.all_tokens) /\ Tabled(s)
                         /\ (id \notin Range(todo) => Computed(s))
    /\ pc \in {"sample", "register"} => IF ToSample(id) THEN Computed(s) ELSE Sampled(s)
    /\ pc = "retire" => Sampled(s)
Stages == \A id \in Run : StageOf(id)

\* Every reference is a block table's or a prefix entry's.
Accounted ==
    /\ \A i, j \in DOMAIN cache : cache[i].key = cache[j].key => i = j
    /\ Len(cache) <= CacheCapacity
    /\ RefsMatchHolders

\* What the blocks hold that may be read by another sequence, and that the
\* block a sequence is still filling is in no other place.
Filled(s) == s.num_tokens \div BlockSize
HoldsPrompt(ct, s) ==
    /\ s.num_tokens <= Len(s.all_tokens)
    /\ \A i \in 1 .. Filled(s) :
          i \in 1 .. Len(s.block_ids) /\ ct[s.block_ids[i]] = PrefixKey(s.all_tokens, i)
Truthful(ct, c) == \A e \in Range(c) : ct[e.block] = e.key
InEntries(c, b) == \E e \in Range(c) : e.block = b
InTable(s, i, b) == i \in 1 .. Len(s.block_ids) /\ s.block_ids[i] = b
Sole(q, c, id) ==
    LET last == Len(q[id].block_ids)
        b == q[id].block_ids[last]
    IN  /\ ~InEntries(c, b)
        /\ \A x \in Ids, i \in Nat : InTable(q[x], i, b) => x = id /\ i = last
Contents ==
    /\ Truthful(content, cache)
    /\ \A id \in Ids : cached_blocks[id] > 0 => id \in Range(prefill_ids)
    /\ \A id \in Range(prefill_ids) \cap Run :
          HoldsPrompt(content, seq[id]) /\ cached_blocks[id] <= Filled(seq[id])
    /\ \A id \in Run : seq[id].num_tokens % BlockSize # 0 => Sole(seq, cache, id)

\* What this step has for each request, and how many tokens it had.
Late(p) == p \in {"sample", "register", "retire", "error"}
CountedOf(id, s, u) ==
    /\ Len(u) <= 1
    /\ u # <<>> => Late(pc) /\ s.status \in {"Running", "Finished"} /\ ~ToSample(id)
    /\ outcome[id] = "new" => output[id] = <<>>
    /\ s.status # "Absent" => Len(output[id]) + Len(u) = s.num_generated
    /\ s.status \in {"Waiting", "Running"} => s.num_generated < s.max_tokens
    /\ s.status = "Finished" =>
          \/ s.finish_reason = "stop" /\ u = <<>>
          \/ s.finish_reason = "length" /\ u # <<>> /\ s.num_generated >= s.max_tokens
Counted == \A id \in Ids : CountedOf(id, seq[id], TokensFor(id))

CInv == Typed /\ Queues /\ Status /\ Arrivals /\ Lists /\ Budgeted /\ Stages

-----------------------------------------------------------------------------
(* The constants, and lemmas about the operators of the model.             *)

\* What the constants are.
LEMMA Constants ==
    /\ IsFiniteSet(Ids) /\ Ids \subseteq Nat /\ IsFiniteSet(Blocks)
    /\ BlockSize \in Nat /\ BlockSize >= 1 /\ CacheCapacity \in Nat
    /\ Prompts \subseteq Seq(Nat) /\ (\A p \in Prompts : p # <<>>)
    /\ Tokens \subseteq Nat /\ MaxTokensChoices \subseteq Nat \ {0}
    /\ max_num_sequences \in Nat /\ max_tokens_per_step \in Nat /\ max_tokens_per_step >= 1
    /\ MaxFaults \in Nat
<1>1. IsFiniteSet(Ids) /\ Ids = 1 .. Cardinality(Ids)
    BY SchedulerAssumption
<1>2. Cardinality(Ids) \in Nat
    BY <1>1, FS_CardinalityType
<1>3. Ids \subseteq Nat
    BY <1>1, <1>2
<1> QED
    BY <1>1, <1>3, SchedulerAssumption, PrefixCacheAssumption, BlocksAssumption, MaxFaultsAssumption

\* A step is one of the actions.
LEMMA Cases ==
    ASSUME [Next]_vars
    PROVE  \/ UNCHANGED vars
           \/ /\ \/ ScheduleDecodes \/ EvictForDecode \/ ScheduleBoundaryDecode \/ Preempt
                 \/ BoundaryDone \/ TouchForPrefill \/ EvictForPrefill \/ AdmitPrefill
                 \/ ScheduleDone
              /\ UNCHANGED engineVars
           \/ PlanPrefill \/ PlanDone \/ ForwardAppend \/ ForwardNext \/ ForwardExhausted
           \/ ForwardDone \/ SampleToken \/ RegisterBlock \/ RegisterDone \/ SampleDone
           \/ RetireOne \/ StepReturns \/ StepFails \/ DeviceFault
           \/ \E id \in Ids : AbortSequence(id)
           \/ \E id \in Ids, prompt \in Prompts, max \in MaxTokensChoices :
                 AddRequest(id, prompt, max)
    BY DEF Next, EngineThread, ScheduleStep, Schedule

\* The parts of the typing.
LEMMA Types ==
    ASSUME Typed
    PROVE  /\ waiting \in Seq(Ids) /\ running \in Seq(Ids) /\ todo \in Seq(Ids)
           /\ decode_ids \in Seq(Ids) /\ prefill_ids \in Seq(Ids)
           /\ seq \in [Ids -> SequenceStates] /\ budget \in Nat
           /\ reserved \in Nat /\ free_blocks \in Nat
           /\ Range(waiting) \subseteq Ids /\ Range(running) \subseteq Ids /\ Range(todo) \subseteq Ids
           /\ Range(decode_ids) \subseteq Ids /\ Range(prefill_ids) \subseteq Ids
<1>1. /\ waiting \in Seq(Ids) /\ running \in Seq(Ids) /\ todo \in Seq(Ids)
      /\ decode_ids \in Seq(Ids) /\ prefill_ids \in Seq(Ids)
      /\ seq \in [Ids -> SequenceStates] /\ budget \in 0 .. max_tokens_per_step
      /\ reserved \in Nat /\ free_blocks \in Nat
    BY DEF Typed
<1>2. \A s \in Seq(Ids) : Range(s) \subseteq Ids
    BY RangeMember
<1> QED
    BY <1>1, <1>2, Constants

\* A sequence's own fields.
LEMMA StateTypes ==
    ASSUME NEW s \in SequenceStates
    PROVE  /\ s.all_tokens \in Seq(Nat) /\ s.num_generated \in Nat /\ s.max_tokens \in Nat
           /\ s.status \in {"Absent", "Waiting", "Running", "Finished"}
           /\ s.phase \in {"Prefill", "Decode"} /\ s.block_ids \in Seq(Blocks)
           /\ s.num_tokens \in Nat /\ s.num_processed_tokens \in Nat
           /\ s.finish_reason \in {"none", "stop", "length"}
           /\ Len(s.all_tokens) \in Nat /\ Len(s.block_ids) \in Nat
<1>1. /\ s.all_tokens \in Seq(Nat) /\ s.num_generated \in Nat /\ s.max_tokens \in Nat
      /\ s.status \in {"Absent", "Waiting", "Running", "Finished"}
      /\ s.phase \in {"Prefill", "Decode"} /\ s.block_ids \in Seq(Blocks)
      /\ s.num_tokens \in Nat /\ s.num_processed_tokens \in Nat
      /\ s.finish_reason \in {"none", "stop", "length"}
    BY DEF SequenceStates
<1> QED
    BY <1>1

-----------------------------------------------------------------------------
(* The queues.                                                             *)

\* swap_remove takes one member out and moves the last into its place.
LEMMA SwapRemoveFacts ==
    ASSUME NEW T, NEW s \in Seq(T), Distinct(s), NEW i \in 1 .. Len(s)
    PROVE  /\ SwapRemove(s, i) \in Seq(T) /\ Distinct(SwapRemove(s, i))
           /\ Len(SwapRemove(s, i)) = Len(s) - 1
           /\ Range(SwapRemove(s, i)) = Range(s) \ {s[i]}
           /\ DOMAIN SwapRemove(s, i) = 1 .. Len(s) - 1
           /\ \A k \in 1 .. Len(s) - 1 : k # i => SwapRemove(s, i)[k] = s[k]
           /\ i \in 1 .. Len(s) - 1 => SwapRemove(s, i)[i] = s[Len(s)]
<1> DEFINE n == Len(s)
           q == SwapRemove(s, i)
<1>1. n \in Nat /\ DOMAIN s = 1 .. n /\ n >= 1 /\ \A k \in 1 .. n : s[k] \in T
    OBVIOUS
<1>2. q = [k \in 1 .. n - 1 |-> IF k = i THEN s[n] ELSE s[k]]
    BY DEF SwapRemove
<1> HIDE DEF q
<1>3. \A x : x \in Range(s) <=> \E k \in 1 .. n : s[k] = x
    BY RangeMember
<1>4. \A j, k \in 1 .. n : s[j] = s[k] => j = k
    BY <1>1 DEF Distinct
<1> HIDE DEF n
<1>5. n - 1 \in Nat /\ \A k \in 1 .. n - 1 : k \in 1 .. n /\ k # n
    BY <1>1
<1>6. n \in 1 .. n /\ i \in 1 .. n
    BY <1>1 DEF n
<1>7. \A k \in 1 .. n - 1 : q[k] \in T
    BY <1>1, <1>2, <1>5, <1>6
<1>8. q \in Seq(T) /\ Len(q) = n - 1 /\ DOMAIN q = 1 .. n - 1
    BY <1>2, <1>5, <1>7
<1>9. \A x : x \in Range(q) <=> \E k \in 1 .. n - 1 : q[k] = x
    BY <1>8 DEF Range
<1>10. \A j, k \in 1 .. n - 1 : q[j] = q[k] => j = k
    BY <1>2, <1>4, <1>5, <1>6
<1>11. ASSUME NEW x \in Range(q) PROVE x \in Range(s) \ {s[i]}
    <2>1. PICK k \in 1 .. n - 1 : q[k] = x
        BY <1>9
    <2> QED
        BY <1>2, <1>3, <1>4, <1>5, <1>6, <2>1
<1>12. ASSUME NEW x \in Range(s) \ {s[i]} PROVE x \in Range(q)
    <2>1. PICK k \in 1 .. n : s[k] = x
        BY <1>3
    <2>2. k # i
        BY <1>12, <2>1
    <2>3. CASE k = n
        <3>1. i \in 1 .. n - 1
            BY <1>1, <1>6, <2>2, <2>3
        <3> QED
            BY <1>2, <1>9, <2>1, <2>3, <3>1
    <2>4. CASE k # n
        <3>1. k \in 1 .. n - 1
            BY <1>1, <2>4
        <3> QED
            BY <1>2, <1>9, <2>1, <2>2, <3>1
    <2> QED
        BY <2>3, <2>4
<1>13. Distinct(q)
    BY <1>8, <1>10 DEF Distinct
<1>14. Range(q) = Range(s) \ {s[i]}
    BY <1>11, <1>12
<1> QED
    BY <1>2, <1>8, <1>13, <1>14 DEF n, q

\* The set of those who run and their index, on their own.
Indexed(r, index) ==
    /\ Distinct(r) /\ DOMAIN index = Range(r)
    /\ \A i \in DOMAIN r : index[r[i]] = i

\* Who is found at a slot.
LEMMA IndexFinds ==
    ASSUME NEW r \in Seq(Ids), NEW index, Indexed(r, index), NEW id \in Range(r)
    PROVE  index[id] \in 1 .. Len(r) /\ r[index[id]] = id
<1>1. PICK i \in 1 .. Len(r) : r[i] = id
    BY RangeMember
<1>2. DOMAIN r = 1 .. Len(r)
    OBVIOUS
<1> QED
    BY <1>1, <1>2 DEF Indexed

\* Slots are numbers.
LEMMA IndexTyped ==
    ASSUME NEW r \in Seq(Ids), NEW index, Indexed(r, index),
           NEW S, NEW f, index = [x \in S |-> f[x]]
    PROVE  index \in [Range(r) -> Nat]
<1>1. \A id \in Range(r) : index[id] \in Nat
    <2>1. Len(r) \in Nat
        OBVIOUS
    <2> QED
        BY <2>1, IndexFinds
<1>2. S = Range(r)
    BY DEF Indexed
<1> QED
    BY <1>1, <1>2

\* Taking one out keeps the index right,
LEMMA IndexWithout ==
    ASSUME NEW r \in Seq(Ids), NEW index, Indexed(r, index), NEW id \in Range(r),
           NEW q, q = SwapRemove(r, index[id]),
           NEW ix, ix = [x \in Range(r) \ {id} |-> IF x = r[Len(r)] THEN index[id] ELSE index[x]]
    PROVE  /\ q \in Seq(Ids) /\ Indexed(q, ix)
           /\ Range(q) = Range(r) \ {id} /\ Len(q) = Len(r) - 1
<1> DEFINE slot == index[id]
<1> DEFINE n == Len(r)
<1>1. slot \in 1 .. n /\ r[slot] = id
    BY IndexFinds
<1>2. /\ Distinct(r) /\ r \in Seq(Ids) /\ slot \in 1 .. Len(r) /\ q = SwapRemove(r, slot)
      /\ ix = [x \in Range(r) \ {id} |-> IF x = r[Len(r)] THEN slot ELSE index[x]]
    BY <1>1 DEF Indexed
<1> HIDE DEF slot
<1>3. /\ q \in Seq(Ids) /\ Distinct(q) /\ Len(q) = Len(r) - 1
      /\ Range(q) = Range(r) \ {r[slot]} /\ DOMAIN q = 1 .. Len(r) - 1
      /\ \A k \in 1 .. Len(r) - 1 : k # slot => q[k] = r[k]
      /\ slot \in 1 .. Len(r) - 1 => q[slot] = r[Len(r)]
    <2>1. q \in Seq(Ids) /\ Distinct(q) /\ Len(q) = Len(r) - 1
        BY <1>2, SwapRemoveFacts
    <2>2. Range(q) = Range(r) \ {r[slot]}
        BY <1>2, SwapRemoveFacts
    <2>3. DOMAIN q = 1 .. Len(r) - 1
        BY <1>2, SwapRemoveFacts
    <2>4. \A k \in 1 .. Len(r) - 1 : k # slot => q[k] = r[k]
        BY <1>2, SwapRemoveFacts
    <2>5. slot \in 1 .. Len(r) - 1 => q[slot] = r[Len(r)]
        BY <1>2, SwapRemoveFacts
    <2> QED
        BY <2>1, <2>2, <2>3, <2>4, <2>5
<1>4. /\ DOMAIN index = Range(r) /\ n \in Nat /\ DOMAIN r = 1 .. n
      /\ \A i \in 1 .. n : index[r[i]] = i /\ r[i] \in Range(r)
    BY RangeMember DEF Indexed
<1> HIDE DEF n
<1>5. ASSUME NEW k \in 1 .. n - 1 PROVE ix[q[k]] = k
    <2>1. q[k] \in Range(r) \ {id}
        BY <1>1, <1>3, RangeMember DEF n
    <2>2. k \in 1 .. n /\ n \in 1 .. n /\ k # n
        BY <1>4
    <2>3. CASE k = slot
        <3>1. q[k] = r[n]
            BY <1>3, <2>3 DEF n
        <3> QED
            BY <1>2, <2>1, <2>3, <3>1 DEF n
    <2>4. CASE k # slot
        <3>1. q[k] = r[k]
            BY <1>3, <2>4 DEF n
        <3>2. r[k] # r[n]
            BY <1>4, <2>2
        <3> QED
            BY <1>2, <1>4, <2>1, <2>2, <3>1, <3>2 DEF n
    <2> QED
        BY <2>3, <2>4
<1>6. Indexed(q, ix)
    BY <1>1, <1>2, <1>3, <1>5 DEF Indexed, n
<1> QED
    BY <1>1, <1>3, <1>6 DEF n

\* which is what remove_from_running does.
LEMMA RemoveFromRunning ==
    ASSUME running \in Seq(Ids), Indexed(running, running_index), NEW id \in Range(running),
           remove_from_running(id)
    PROVE  /\ running' \in Seq(Ids) /\ Indexed(running', running_index')
           /\ Range(running') = Range(running) \ {id} /\ Len(running') = Len(running) - 1
           /\ running_index' \in [Range(running') -> Nat]
<1>1. DOMAIN running_index = Range(running)
    BY DEF Indexed
<1>2. /\ running' = SwapRemove(running, running_index[id])
      /\ running_index' = [x \in Range(running) \ {id} |->
                              IF x = running[Len(running)] THEN running_index[id] ELSE running_index[x]]
    BY <1>1 DEF remove_from_running, IndexAfterRemoval
<1> DEFINE slot == running_index[id]
           q == running'
           ix == running_index'
<1>3. q = SwapRemove(running, slot) /\ running \in Seq(Ids)
    BY <1>2
<1>4. ix = [x \in Range(running) \ {id} |->
                IF x = running[Len(running)] THEN slot ELSE running_index[x]]
    BY <1>2
<1> HIDE DEF q, ix, slot
<1>5. q \in Seq(Ids) /\ Indexed(q, ix)
    BY <1>3, <1>4, IndexWithout DEF slot
<1>6. Range(q) = Range(running) \ {id}
    BY <1>3, <1>4, IndexWithout DEF slot
<1>7. Len(q) = Len(running) - 1
    BY <1>3, <1>4, IndexWithout DEF slot
<1>8. ix \in [Range(q) -> Nat]
    <2> DEFINE f == [x \in Range(running) \ {id} |->
                        IF x = running[Len(running)] THEN slot ELSE running_index[x]]
               S == Range(running) \ {id}
    <2>1. ix = [x \in S |-> f[x]]
        BY <1>4
    <2> HIDE DEF f, S
    <2> QED
        BY <1>5, <2>1, IndexTyped
<1> QED
    BY <1>5, <1>6, <1>7, <1>8 DEF q, ix

\* push_to_running as well.
LEMMA PushToRunning ==
    ASSUME running \in Seq(Ids), Indexed(running, running_index), NEW id \in Ids,
           id \notin Range(running), push_to_running(id)
    PROVE  /\ running' \in Seq(Ids) /\ Indexed(running', running_index')
           /\ Range(running') = Range(running) \cup {id} /\ Len(running') = Len(running) + 1
           /\ running_index' \in [Range(running') -> Nat]
<1> DEFINE n == Len(running)
           q == Append(running, id)
<1>1. /\ q \in Seq(Ids) /\ n \in Nat /\ DOMAIN q = 1 .. n + 1 /\ q[n + 1] = id
      /\ \A i \in 1 .. n : q[i] = running[i]
      /\ Len(q) = n + 1 /\ DOMAIN running = 1 .. n
    OBVIOUS
<1>2. Distinct(q)
    BY DistinctAppend DEF Indexed
<1>3. Range(q) = Range(running) \cup {id}
    BY RangeAppend
<1>4. /\ DOMAIN running_index = Range(running)
      /\ \A i \in 1 .. n : running_index[running[i]] = i /\ running[i] \in Range(running)
    BY RangeMember DEF Indexed
<1>5. running' = q /\ running_index' = [x \in Range(running) \cup {id} |->
                                           IF x = id THEN n + 1 ELSE running_index[x]]
    BY <1>4 DEF push_to_running
<1> HIDE DEF q, n
<1>6. ASSUME NEW i \in 1 .. n + 1 PROVE running_index'[q[i]] = i
    <2>1. CASE i \in 1 .. n
        BY <1>1, <1>4, <1>5, <2>1
    <2>2. CASE i = n + 1
        BY <1>1, <1>5, <2>2
    <2> QED
        BY <1>1, <2>1, <2>2
<1>7. DOMAIN running_index' = Range(q)
    BY <1>3, <1>5
<1>8. Indexed(q, running_index')
    BY <1>1, <1>2, <1>6, <1>7 DEF Indexed
<1>9. running_index' \in [Range(q) -> Nat]
    <2> DEFINE f == [x \in Range(running) \cup {id} |->
                        IF x = id THEN n + 1 ELSE running_index[x]]
               S == Range(running) \cup {id}
               ix == running_index'
    <2>1. ix = [x \in S |-> f[x]]
        BY <1>5
    <2> HIDE DEF f, S, ix
    <2> QED
        BY <1>1, <1>8, <2>1, IndexTyped DEF ix
<1> QED
    BY <1>1, <1>3, <1>5, <1>8, <1>9 DEF n

-----------------------------------------------------------------------------
(* Blocks of tokens.                                                       *)

\* Division leaves a remainder,
LEMMA DivMod ==
    ASSUME NEW a \in Nat, NEW b \in Nat, b >= 1
    PROVE  /\ a \div b \in Nat /\ a % b \in Nat /\ a % b < b
           /\ a = (b * (a \div b)) + (a % b)
<1>1. a \div b \in Int /\ a % b \in 0 .. b - 1
    OBVIOUS
<1>2. a = (b * (a \div b)) + (a % b)
    OBVIOUS
<1>3. a \div b >= 0
    OBVIOUS
<1> QED
    BY <1>1, <1>2, <1>3

\* and is the only way to do so.
LEMMA DivUnique ==
    ASSUME NEW b \in Nat, b >= 1, NEW q \in Int, NEW r \in Nat, r < b, NEW a, a = (b * q) + r
    PROVE  a \div b = q /\ a % b = r
    OBVIOUS

\* How many blocks hold t tokens.
LEMMA CeilDivMod ==
    ASSUME NEW t \in Nat, NEW b \in Nat, b >= 1
    PROVE  DivCeil(t, b) = IF t % b = 0 THEN t \div b ELSE (t \div b) + 1
<1> DEFINE q == t \div b
           r == t % b
<1>1. q \in Nat /\ r \in Nat /\ r < b /\ t = (b * q) + r
    BY DivMod
<1> HIDE DEF q, r
<1>2. CASE r = 0
    <2>1. t + b - 1 = (b * q) + (b - 1) /\ b - 1 \in Nat /\ b - 1 < b
        BY <1>1, <1>2
    <2>2. (t + b - 1) \div b = q
        BY <1>1, <2>1, DivUnique
    <2> QED
        BY <1>2, <2>2 DEF DivCeil, q, r
<1>3. CASE r # 0
    <2>1. b * (q + 1) = (b * q) + b
        BY <1>1
    <2>2. t + b - 1 = (b * (q + 1)) + (r - 1) /\ r - 1 \in Nat /\ r - 1 < b
        BY <1>1, <1>3, <2>1
    <2>3. (t + b - 1) \div b = q + 1
        <3> DEFINE x == t + b - 1
                   y == q + 1
                   z == r - 1
        <3>1. x = (b * y) + z /\ y \in Int /\ z \in Nat /\ z < b
            BY <1>1, <2>2
        <3> HIDE DEF x, y, z
        <3>2. x \div b = y
            BY <3>1, DivUnique
        <3> QED
            BY <3>2 DEF x, y
    <2> QED
        BY <1>3, <2>3 DEF DivCeil, q, r
<1> QED
    BY <1>2, <1>3

\* Whole blocks.
LEMMA WholeBlocks ==
    ASSUME NEW n \in Nat, NEW b \in Nat, b >= 1
    PROVE  /\ n * b \in Nat /\ (n * b) \div b = n /\ (n * b) % b = 0 /\ DivCeil(n * b, b) = n
<1>1. n * b \in Nat /\ n * b = (b * n) + 0
    OBVIOUS
<1>2. (n * b) \div b = n /\ (n * b) % b = 0
    BY <1>1, DivUnique
<1> QED
    BY <1>1, <1>2, CeilDivMod

\* The run of tokens that fills, or starts, a block.
LEMMA RunInBlock ==
    ASSUME NEW t \in Nat, NEW b \in Nat, b >= 1, NEW n \in 1 .. b - (t % b)
    PROVE  /\ DivCeil(t + n, b) = (t \div b) + 1
           /\ (t + n) \div b = IF n = b - (t % b) THEN (t \div b) + 1 ELSE t \div b
           /\ (t + n) % b = 0 <=> n = b - (t % b)
<1> DEFINE q == t \div b
           r == t % b
<1>1. q \in Nat /\ r \in Nat /\ r < b /\ t = (b * q) + r
    BY DivMod
<1>2. n \in Nat /\ n >= 1 /\ n <= b - r
    BY <1>1
<1> HIDE DEF q, r
<1>3. CASE n = b - r
    <2>1. b * (q + 1) = (b * q) + b
        BY <1>1
    <2>2. t + n = (b * (q + 1)) + 0 /\ t + n \in Nat
        BY <1>1, <1>2, <1>3, <2>1
    <2>3. (t + n) \div b = q + 1 /\ (t + n) % b = 0
        <3> DEFINE x == t + n
                   y == q + 1
        <3>1. x = (b * y) + 0 /\ y \in Int
            BY <1>1, <2>2
        <3> HIDE DEF x, y
        <3>2. x \div b = y /\ x % b = 0
            BY <3>1, DivUnique
        <3> QED
            BY <3>2 DEF x, y
    <2> QED
        BY <1>3, <2>2, <2>3, CeilDivMod DEF q, r
<1>4. CASE n # b - r
    <2>1. t + n = (b * q) + (r + n) /\ r + n \in Nat /\ r + n < b /\ r + n # 0 /\ t + n \in Nat
        BY <1>1, <1>2, <1>4
    <2>2. (t + n) \div b = q /\ (t + n) % b = r + n
        <3> DEFINE x == t + n
                   y == r + n
        <3>1. x = (b * q) + y /\ y \in Nat /\ y < b /\ q \in Int
            BY <1>1, <2>1
        <3> HIDE DEF x, y
        <3>2. x \div b = q /\ x % b = y
            BY <3>1, DivUnique
        <3> QED
            BY <3>2 DEF x, y
    <2> QED
        BY <1>4, <2>1, <2>2, CeilDivMod DEF q, r
<1> QED
    BY <1>3, <1>4

\* The whole blocks of a part are not more than those of the whole.
LEMMA DivMonotone ==
    ASSUME NEW s \in Nat, NEW t \in Nat, s <= t, NEW b \in Nat, b >= 1
    PROVE  s \div b <= t \div b
<1> DEFINE p == s \div b
           q == t \div b
<1>1. /\ p \in Nat /\ s % b \in Nat /\ s = (b * p) + (s % b)
      /\ q \in Nat /\ t % b \in Nat /\ t % b < b /\ t = (b * q) + (t % b)
    BY DivMod
<1> HIDE DEF p, q
<1> SUFFICES ASSUME p >= q + 1 PROVE FALSE
    BY <1>1 DEF p, q
<1>2. b * p >= b * (q + 1) /\ b * (q + 1) = (b * q) + b
    BY <1>1
<1> QED
    BY <1>1, <1>2

\* n whole blocks are part of t tokens.
LEMMA BlocksFit ==
    ASSUME NEW t \in Nat, NEW b \in Nat, b >= 1, NEW n \in Nat, n <= t \div b
    PROVE  n * b \in Nat /\ n * b <= t
<1> DEFINE q == t \div b
<1>1. q \in Nat /\ t % b \in Nat /\ t = (b * q) + (t % b)
    BY DivMod
<1> HIDE DEF q
<1>2. n * b <= b * q /\ n * b \in Nat
    BY <1>1 DEF q
<1> QED
    BY <1>1, <1>2

-----------------------------------------------------------------------------
(* What the steps make of a sequence's state.                              *)

Fields == {"all_tokens", "num_generated", "max_tokens", "status", "phase", "block_ids",
           "num_tokens", "num_processed_tokens", "finish_reason"}

\* The fields of a sequence are those of SequenceState.
LEMMA StateDomain == \A s \in SequenceStates : DOMAIN s = Fields
    BY DEF SequenceStates, Fields

\* SequenceState::new is a state: it waits, with no table and nothing generated.
LEMMA NewState ==
    ASSUME NEW prompt \in Seq(Nat), NEW max \in Nat, NEW s, s = NewSequence(prompt, max)
    PROVE  /\ s \in SequenceStates /\ s.all_tokens = prompt /\ s.num_generated = 0
           /\ s.max_tokens = max /\ s.status = "Waiting" /\ s.phase = "Prefill"
           /\ s.block_ids = <<>> /\ s.num_tokens = 0 /\ s.num_processed_tokens = 0
           /\ s.finish_reason = "none"
<1>1. s = [all_tokens |-> prompt, num_generated |-> 0, max_tokens |-> max,
           status |-> "Waiting", phase |-> "Prefill",
           block_ids |-> <<>>, num_tokens |-> 0, num_processed_tokens |-> 0,
           finish_reason |-> "none"]
    BY DEF NewSequence
<1>2. s \in SequenceStates
    BY <1>1 DEF SequenceStates
<1> QED
    BY <1>1, <1>2

\* The record of an id that is not in the sequences map is a state too.
LEMMA AbsentState ==
    /\ Absent \in SequenceStates /\ Absent.all_tokens = <<>> /\ Absent.num_generated = 0
    /\ Absent.max_tokens = 0 /\ Absent.status = "Absent" /\ Absent.phase = "Prefill"
    /\ Absent.block_ids = <<>> /\ Absent.num_tokens = 0 /\ Absent.num_processed_tokens = 0
    /\ Absent.finish_reason = "none"
<1>1. Absent = [all_tokens |-> <<>>, num_generated |-> 0, max_tokens |-> 0,
                status |-> "Absent", phase |-> "Prefill",
                block_ids |-> <<>>, num_tokens |-> 0, num_processed_tokens |-> 0,
                finish_reason |-> "none"]
    BY DEF Absent, NewSequence
<1>2. Absent \in SequenceStates
    BY <1>1 DEF SequenceStates
<1> QED
    BY <1>1, <1>2

\* Another table.
Grown(s, bs, n) == [s EXCEPT !.block_ids = bs, !.num_tokens = n]

\* Growing a table changes the table and the token count only.
LEMMA GrownState ==
    ASSUME NEW s \in SequenceStates, NEW bs \in Seq(Blocks), NEW n \in Nat,
           NEW t, t = Grown(s, bs, n)
    PROVE  /\ t \in SequenceStates /\ t.all_tokens = s.all_tokens
           /\ t.num_generated = s.num_generated /\ t.max_tokens = s.max_tokens
           /\ t.status = s.status /\ t.phase = s.phase /\ t.block_ids = bs /\ t.num_tokens = n
           /\ t.num_processed_tokens = s.num_processed_tokens
           /\ t.finish_reason = s.finish_reason
<1>1. t = [s EXCEPT !.block_ids = bs, !.num_tokens = n]
    BY DEF Grown
<1>2. DOMAIN s = Fields
    BY StateDomain
<1>3. t \in SequenceStates
    BY <1>1 DEF SequenceStates
<1> QED
    BY <1>1, <1>2, <1>3 DEF Fields

\* Clearing keeps everything but the table.
LEMMA ClearedState ==
    ASSUME NEW s \in SequenceStates, NEW t, t = Cleared(s)
    PROVE  /\ t \in SequenceStates /\ t.all_tokens = s.all_tokens
           /\ t.num_generated = s.num_generated /\ t.max_tokens = s.max_tokens
           /\ t.status = s.status /\ t.phase = s.phase /\ t.block_ids = <<>> /\ t.num_tokens = 0
           /\ t.num_processed_tokens = s.num_processed_tokens
           /\ t.finish_reason = s.finish_reason
<1> DEFINE bs == <<>>
           n == 0
<1>1. t = [s EXCEPT !.block_ids = bs, !.num_tokens = n] /\ bs \in Seq(Blocks) /\ n \in Nat
    BY DEF Cleared
<1> HIDE DEF bs, n
<1>2. DOMAIN s = Fields
    BY StateDomain
<1>3. t \in SequenceStates
    BY <1>1 DEF SequenceStates
<1> QED
    BY <1>1, <1>2, <1>3 DEF Fields, bs, n

\* Preemption clears the table and sends the sequence back to wait.
LEMMA PreemptedState ==
    ASSUME NEW s \in SequenceStates, NEW t, t = Preempted(s)
    PROVE  /\ t \in SequenceStates /\ t.all_tokens = s.all_tokens
           /\ t.num_generated = s.num_generated /\ t.max_tokens = s.max_tokens
           /\ t.status = "Waiting" /\ t.phase = "Prefill" /\ t.block_ids = <<>>
           /\ t.num_tokens = 0 /\ t.num_processed_tokens = 0
           /\ t.finish_reason = s.finish_reason
<1> DEFINE c == Cleared(s)
<1>1. t = [c EXCEPT !.num_processed_tokens = 0, !.phase = "Prefill", !.status = "Waiting"]
    BY DEF Preempted
<1>2. /\ c \in SequenceStates /\ c.all_tokens = s.all_tokens
      /\ c.num_generated = s.num_generated /\ c.max_tokens = s.max_tokens
      /\ c.block_ids = <<>> /\ c.num_tokens = 0 /\ c.finish_reason = s.finish_reason
    BY ClearedState
<1> HIDE DEF c
<1>3. DOMAIN c = Fields
    BY <1>2, StateDomain
<1>4. t \in SequenceStates
    <2> DEFINE k == [c EXCEPT !.num_processed_tokens = 0, !.phase = "Prefill"]
    <2>1. k \in SequenceStates
        BY <1>2 DEF SequenceStates
    <2>2. t = [k EXCEPT !.status = "Waiting"]
        BY <1>1
    <2> HIDE DEF k
    <2>3. [k EXCEPT !.status = "Waiting"] \in SequenceStates
        BY <2>1 DEF SequenceStates
    <2> QED
        BY <2>2, <2>3
<1> QED
    BY <1>1, <1>2, <1>3, <1>4 DEF Fields

\* Admission changes the status and the phase only.
LEMMA AdmittedState ==
    ASSUME NEW s \in SequenceStates, NEW t, t = [s EXCEPT !.status = "Running", !.phase = "Prefill"]
    PROVE  /\ t \in SequenceStates /\ t.all_tokens = s.all_tokens
           /\ t.num_generated = s.num_generated /\ t.max_tokens = s.max_tokens
           /\ t.status = "Running" /\ t.phase = "Prefill" /\ t.block_ids = s.block_ids
           /\ t.num_tokens = s.num_tokens /\ t.num_processed_tokens = s.num_processed_tokens
           /\ t.finish_reason = s.finish_reason
<1>1. DOMAIN s = Fields
    BY StateDomain
<1>2. t \in SequenceStates
    BY DEF SequenceStates
<1> QED
    BY <1>1, <1>2 DEF Fields

\* One more token.
LEMMA AdvancedState ==
    ASSUME NEW s \in SequenceStates, NEW tok \in Nat, NEW isStop \in BOOLEAN,
           NEW t, t = Advanced(s, tok, isStop)
    PROVE  /\ t \in SequenceStates /\ t.all_tokens = Append(s.all_tokens, tok)
           /\ t.num_generated = IF isStop THEN s.num_generated ELSE s.num_generated + 1
           /\ t.max_tokens = s.max_tokens
           /\ t.status = IF isStop \/ s.num_generated + 1 >= s.max_tokens
                         THEN "Finished" ELSE s.status
           /\ t.phase = "Decode" /\ t.block_ids = s.block_ids
           /\ t.num_tokens = s.num_tokens /\ t.num_processed_tokens = Len(s.all_tokens)
           /\ t.finish_reason = IF isStop THEN "stop"
                                ELSE IF s.num_generated + 1 >= s.max_tokens THEN "length"
                                ELSE s.finish_reason
<1> DEFINE a == Append(s.all_tokens, tok)
           l == Len(s.all_tokens)
           g == [s EXCEPT !.all_tokens = a, !.num_processed_tokens = l, !.phase = "Decode"]
<1>1. DOMAIN s = Fields
    BY StateDomain
<1>2. a \in Seq(Nat) /\ l \in Nat /\ s.num_generated \in Nat /\ s.max_tokens \in Nat
    BY StateTypes
<1>3. g = [s EXCEPT !.all_tokens = Append(@, tok), !.num_processed_tokens = ProcessedAfter(s),
                    !.phase = "Decode"]
    BY <1>1 DEF ProcessedAfter, Fields
<1>4. t = IF isStop THEN [g EXCEPT !.status = "Finished", !.finish_reason = "stop"]
          ELSE IF s.num_generated + 1 >= s.max_tokens
          THEN [g EXCEPT !.num_generated = @ + 1, !.status = "Finished", !.finish_reason = "length"]
          ELSE [g EXCEPT !.num_generated = @ + 1]
    BY <1>3 DEF Advanced, ReachesCap
<1> HIDE DEF a, l
<1>5. g \in SequenceStates
    BY <1>2 DEF SequenceStates
<1>6. /\ g.all_tokens = a /\ g.num_generated = s.num_generated /\ g.max_tokens = s.max_tokens
      /\ g.status = s.status /\ g.phase = "Decode" /\ g.block_ids = s.block_ids
      /\ g.num_tokens = s.num_tokens /\ g.num_processed_tokens = l
      /\ g.finish_reason = s.finish_reason
    BY <1>1 DEF Fields
<1>7. DOMAIN g = Fields
    BY <1>5, StateDomain
<1> HIDE DEF g
<1>8. CASE isStop
    <2>1. t = [g EXCEPT !.status = "Finished", !.finish_reason = "stop"]
        BY <1>4, <1>8
    <2>2. t \in SequenceStates
        <3>1. [g EXCEPT !.status = "Finished"] \in SequenceStates
            BY <1>5 DEF SequenceStates
        <3>2. t = [[g EXCEPT !.status = "Finished"] EXCEPT !.finish_reason = "stop"]
            BY <2>1
        <3> QED
            BY <3>1, <3>2 DEF SequenceStates
    <2> QED
        BY <1>6, <1>7, <1>8, <2>1, <2>2 DEF Fields, a, l
<1>9. CASE ~isStop /\ s.num_generated + 1 >= s.max_tokens
    <2>1. t = [g EXCEPT !.num_generated = s.num_generated + 1, !.status = "Finished",
                        !.finish_reason = "length"]
        BY <1>4, <1>6, <1>7, <1>9 DEF Fields
    <2>2. t \in SequenceStates
        <3> DEFINE h == [g EXCEPT !.num_generated = s.num_generated + 1]
        <3>1. s.num_generated + 1 \in Nat
            BY <1>2
        <3>2. h \in SequenceStates
            BY <1>5, <3>1 DEF SequenceStates
        <3> DEFINE k == [h EXCEPT !.status = "Finished"]
        <3>3. t = [k EXCEPT !.finish_reason = "length"]
            BY <2>1
        <3> HIDE DEF h
        <3>4. k \in SequenceStates
            BY <3>2 DEF SequenceStates
        <3> HIDE DEF k
        <3>5. [k EXCEPT !.finish_reason = "length"] \in SequenceStates
            BY <3>4 DEF SequenceStates
        <3> QED
            BY <3>3, <3>5
    <2> QED
        BY <1>6, <1>7, <1>9, <2>1, <2>2 DEF Fields, a, l
<1>10. CASE ~isStop /\ ~ (s.num_generated + 1 >= s.max_tokens)
    <2>1. t = [g EXCEPT !.num_generated = s.num_generated + 1]
        BY <1>4, <1>6, <1>7, <1>10 DEF Fields
    <2>2. t \in SequenceStates
        <3>1. s.num_generated + 1 \in Nat
            BY <1>2
        <3> QED
            BY <1>5, <2>1, <3>1 DEF SequenceStates
    <2> QED
        BY <1>6, <1>7, <1>10, <2>1, <2>2 DEF Fields, a, l
<1> QED
    BY <1>8, <1>9, <1>10

-----------------------------------------------------------------------------
(* Steps that move no sequence.                                            *)

Unmoved == UNCHANGED <<waiting, running, running_index, seq, outcome>>

\* A step that moves no sequence keeps what is said of queues and statuses.
LEMMA UnmovedKeeps ==
    ASSUME CInv, Unmoved,
           \A id \in Ids : seq[id].status = "Finished" =>
               pc' \in {"sample", "register", "retire", "error"} /\ (id \in Run \/ pc' = "retire")
    PROVE  Queues' /\ Status' /\ Arrivals' /\ Run' = Run
<1>1. Run' = Run /\ Wait' = Wait
    BY DEF Unmoved, Run, Wait
<1>2. Queues'
    BY <1>1 DEF CInv, Queues, Unmoved
<1>3. Status'
    BY <1>1 DEF CInv, Status, StatusOf, FinishedOf, Unmoved
<1>4. Arrivals'
    BY DEF CInv, Arrivals, ArrivalOrder, Unmoved
<1> QED
    BY <1>1, <1>2, <1>3, <1>4

\* Nobody is finished before its token is sampled.
LEMMA NobodyFinished ==
    ASSUME CInv, pc \in {"idle", "boundary", "admit", "evict", "plan", "forward"}
    PROVE  \A id \in Ids : seq[id].status # "Finished"
    BY DEF CInv, Status, FinishedOf

\* A step that changes nothing.
LEMMA StutterStep ==
    ASSUME CInv, UNCHANGED vars
    PROVE  CInv'
<1> USE DEF vars
<1>1. Run' = Run /\ Wait' = Wait /\ Batch' = Batch
    BY DEF Run, Wait, Batch
<1>2. Typed'
    BY DEF CInv, Typed
<1>3. Queues' /\ Arrivals' /\ Budgeted'
    BY <1>1 DEF CInv, Queues, Arrivals, ArrivalOrder, Budgeted
<1>4. Status'
    BY <1>1 DEF CInv, Status, StatusOf, FinishedOf
<1>5. Lists'
    BY <1>1 DEF CInv, Lists
<1>6. Stages'
    BY <1>1 DEF CInv, Stages, StageOf, ToSample
<1> QED
    BY <1>2, <1>3, <1>4, <1>5, <1>6 DEF CInv

\* The decodes that stay inside their block, and those that do not, are all of
\* them, and there is a token for each.
LEMMA ScheduleDecodesStep ==
    ASSUME CInv, ScheduleDecodes, UNCHANGED engineVars
    PROVE  CInv'
<1> DEFINE A == {id \in Ids : decode_needs_new_block(seq[id])}
           inBlock == Pick(running, Ids \ A)
           atBound == Pick(running, A)
<1>1. running \in Seq(Ids) /\ Distinct(running) /\ Len(running) <= max_tokens_per_step
      /\ Run \subseteq Ids /\ Len(running) \in Nat
    BY Types DEF CInv, Queues, Budgeted, Run
<1>2. /\ inBlock \in Seq(Ids) /\ Distinct(inBlock) /\ Range(inBlock) = Run \cap (Ids \ A)
      /\ atBound \in Seq(Ids) /\ Distinct(atBound) /\ Range(atBound) = Run \cap A
    BY <1>1, PickFacts, PickDistinct DEF Run
<1>3. Len(inBlock) \in Nat /\ Len(atBound) \in Nat /\ Len(inBlock) + Len(atBound) = Len(running)
    BY <1>1, <1>2, PickSplit
<1>4. Minimum(Len(inBlock), max_tokens_per_step) = Len(inBlock)
    BY <1>1, <1>3, Constants DEF Minimum
<1>5. SubSeq(inBlock, 1, Len(inBlock)) = inBlock
    BY <1>2
<1>6. /\ pc = "idle" /\ pc' = "boundary" /\ decode_ids' = inBlock /\ prefill_ids' = <<>>
      /\ todo' = atBound /\ budget' = max_tokens_per_step - Len(inBlock)
      /\ reserved' = 0 /\ free_blocks' = 0 /\ UNCHANGED refs /\ UNCHANGED schedVars
    BY <1>4, <1>5 DEF ScheduleDecodes
<1>7. \A id \in Ids : id \in A <=> decode_needs_new_block(seq[id])
    OBVIOUS
<1> HIDE DEF A, inBlock, atBound
<1>8. Queues' /\ Status' /\ Arrivals' /\ Run' = Run
    BY <1>6, UnmovedKeeps, NobodyFinished DEF Unmoved, schedVars, engineVars
<1>9. Range(<<>>) = {} /\ <<>> \in Seq(Ids) /\ Distinct(<<>>)
    BY DEF Range, Distinct
<1>10. budget' \in 0 .. max_tokens_per_step
    BY <1>1, <1>3, <1>6, Constants
<1>11. Typed'
    BY <1>2, <1>6, <1>9, <1>10 DEF CInv, Typed, schedVars, engineVars
<1>12. Lists'
    <2>1. Run = Range(inBlock) \cup Range(atBound) /\ Range(atBound) \cap Range(inBlock) = {}
        BY <1>1, <1>2
    <2>2. \A id \in Range(atBound) : decode_needs_new_block(seq[id])
        BY <1>1, <1>2, <1>7
    <2> QED
        BY <1>2, <1>6, <1>8, <1>9, <2>1, <2>2 DEF Lists, schedVars
<1>13. Budgeted'
    BY <1>1, <1>3, <1>6, Constants DEF Budgeted, schedVars
<1>14. Stages'
    <2> SUFFICES ASSUME NEW id \in Run PROVE StageOf(id)'
        BY <1>8 DEF Stages
    <2>1. id \notin Range(prefill_ids)
        BY <1>6, <1>9 DEF CInv, Lists
    <2>2. Sampled(seq[id]) /\ seq[id].status = "Running"
        BY <1>6, <2>1 DEF CInv, Stages, StageOf
    <2> QED
        BY <1>6, <2>2 DEF StageOf, ToSample, schedVars
<1> QED
    BY <1>8, <1>11, <1>12, <1>13, <1>14 DEF CInv

-----------------------------------------------------------------------------
(* The pool and the prefix cache.                                          *)

Entries == [key : Seq(Nat), block : Blocks]

\* The number of free blocks is a number.
LEMMA FreeFacts ==
    ASSUME NEW r
    PROVE  NumFree(r) \in Nat /\ FreeBlocks(r) \subseteq Blocks /\ IsFiniteSet(FreeBlocks(r))
<1>1. FreeBlocks(r) \subseteq Blocks
    BY DEF FreeBlocks
<1>2. IsFiniteSet(FreeBlocks(r))
    BY <1>1, BlocksAssumption, FS_Subset
<1> QED
    BY <1>1, <1>2, FS_CardinalityType DEF NumFree

\* The number of times a block occurs in a list is a number.
LEMMA OccurrencesType ==
    ASSUME NEW b, NEW T, NEW bs \in Seq(T)
    PROVE  /\ Occurrences(b, bs) \in Nat
           /\ IsFiniteSet({i \in DOMAIN bs : bs[i] = b})
<1>1. IsFiniteSet(1 .. Len(bs)) /\ DOMAIN bs = 1 .. Len(bs)
    BY FS_Interval
<1>2. IsFiniteSet({i \in DOMAIN bs : bs[i] = b})
    BY <1>1, FS_Subset
<1> QED
    BY <1>2, FS_CardinalityType DEF Occurrences

\* What an eviction leaves.
LEMMA EvictTyped ==
    ASSUME Typed, evict_lru
    PROVE  /\ cache' \in Seq(Entries) /\ refs' \in [Blocks -> Int]
           /\ cache \in Seq(Entries) /\ Head(cache).block \in Blocks
<1>1. cache \in Seq(Entries) /\ cache # <<>> /\ refs \in [Blocks -> Int]
    BY DEF Typed, Entries, evict_lru
<1>2. Tail(cache) \in Seq(Entries) /\ Head(cache) \in Entries
    BY <1>1
<1>3. Head(cache).block \in Blocks
    BY <1>2 DEF Entries
<1> QED
    BY <1>1, <1>2, <1>3 DEF evict_lru, FreedOnce

\* An entry that is there is found.
LEMMA EntryFacts ==
    ASSUME NEW c \in Seq(Entries), NEW key \in Keys(c)
    PROVE  /\ EntryOf(c, key) \in Entries /\ EntryOf(c, key).key = key
           /\ EntryOf(c, key).block \in Blocks
           /\ \E i \in DOMAIN c : EntryOf(c, key) = c[i]
<1>1. \E i \in DOMAIN c : c[i].key = key
    BY DEF Keys
<1>2. PICK i \in DOMAIN c : EntryOf(c, key) = c[i] /\ c[i].key = key
    BY <1>1 DEF EntryOf
<1>3. c[i] \in Entries
    BY <1>2
<1> QED
    BY <1>2, <1>3 DEF Entries

\* count_cached_blocks counts leading blocks that are all there.
LEMMA CountFacts ==
    ASSUME NEW c, NEW tokens \in Seq(Nat)
    PROVE  /\ CountCachedBlocks(c, tokens) \in 0 .. FullBlocks(tokens)
           /\ CountCachedBlocks(c, tokens) \in Nat /\ FullBlocks(tokens) \in Nat
           /\ \A i \in 1 .. CountCachedBlocks(c, tokens) : PrefixKey(tokens, i) \in Keys(c)
<1> DEFINE full == FullBlocks(tokens)
           S == {n \in 0 .. full : \A i \in 1 .. n : PrefixKey(tokens, i) \in Keys(c)}
<1>1. full \in Nat
    BY Constants, DivMod DEF FullBlocks
<1> HIDE DEF full
<1>2. 0 \in S /\ S \subseteq 0 .. full
    BY <1>1
<1>3. \E m \in S : \A n \in S : m >= n
    <2> DEFINE T == {full - n : n \in S}
    <2>1. T \in SUBSET Nat /\ T # {}
        BY <1>1, <1>2
    <2>2. PICK x \in T : \A y \in T : x <= y
        BY <2>1, LeastNatural
    <2>3. PICK m \in S : x = full - m
        BY <2>2
    <2>4. \A n \in S : full - m <= full - n
        BY <2>2, <2>3
    <2>5. \A n \in S : m >= n
        BY <1>1, <1>2, <2>4
    <2> QED
        BY <2>5
<1>4. Max(S) \in S
    BY <1>3 DEF Max
<1>5. CountCachedBlocks(c, tokens) = Max(S)
    BY DEF CountCachedBlocks, full
<1> QED
    BY <1>1, <1>4, <1>5 DEF full

\* The blocks that are found.
LEMMA MatchedFacts ==
    ASSUME NEW c \in Seq(Entries), NEW tokens \in Seq(Nat)
    PROVE  /\ MatchedBlocks(c, tokens) \in Seq(Blocks)
           /\ Len(MatchedBlocks(c, tokens)) = CountCachedBlocks(c, tokens)
           /\ \A i \in 1 .. CountCachedBlocks(c, tokens) :
                 MatchedBlocks(c, tokens)[i] = EntryOf(c, PrefixKey(tokens, i)).block
<1> DEFINE n == CountCachedBlocks(c, tokens)
           m == MatchedBlocks(c, tokens)
<1>1. n \in Nat /\ \A i \in 1 .. n : PrefixKey(tokens, i) \in Keys(c)
    BY CountFacts
<1>2. m = [i \in 1 .. n |-> EntryOf(c, PrefixKey(tokens, i)).block]
    BY DEF MatchedBlocks
<1> HIDE DEF n, m
<1>3. \A i \in 1 .. n : EntryOf(c, PrefixKey(tokens, i)).block \in Blocks
    BY <1>1, EntryFacts
<1>4. m \in Seq(Blocks) /\ Len(m) = n
    BY <1>1, <1>2, <1>3
<1> QED
    BY <1>2, <1>4 DEF n, m

\* Touching keeps the entries' type.
LEMMA TouchedType ==
    ASSUME NEW c \in Seq(Entries), NEW tokens \in Seq(Nat)
    PROVE  Touched(c, tokens) \in Seq(Entries)
<1> DEFINE n == CountCachedBlocks(c, tokens)
           hits == {PrefixKey(tokens, i) : i \in 1 .. n}
           S == {c[i] : i \in {j \in DOMAIN c : c[j].key \notin hits}}
           p == Pick(c, S)
           q == [i \in 1 .. n |-> EntryOf(c, PrefixKey(tokens, i))]
<1>1. n \in Nat /\ \A i \in 1 .. n : PrefixKey(tokens, i) \in Keys(c)
    BY CountFacts
<1>2. Touched(c, tokens) = p \o q
    BY DEF Touched
<1>3. p \in Seq(Entries)
    <2> HIDE DEF S
    <2> QED
        BY PickFacts
<1> HIDE DEF n, p
<1>4. \A i \in 1 .. n : EntryOf(c, PrefixKey(tokens, i)) \in Entries
    BY <1>1, EntryFacts
<1>5. q \in Seq(Entries)
    BY <1>1, <1>4
<1> QED
    BY <1>2, <1>3, <1>5

-----------------------------------------------------------------------------
(* The scheduler's and the engine's steps that move no sequence.           *)

\* An eviction for a decode touches the prefix cache alone.
LEMMA EvictForDecodeStep ==
    ASSUME CInv, EvictForDecode, UNCHANGED engineVars
    PROVE  CInv'
<1>1. /\ pc = "boundary" /\ evict_lru /\ UNCHANGED planVars
      /\ UNCHANGED <<waiting, running, running_index, seq, pc, todo>> /\ UNCHANGED engineVars
    BY DEF EvictForDecode
<1>2. Queues' /\ Status' /\ Arrivals' /\ Run' = Run
    BY <1>1, UnmovedKeeps, NobodyFinished DEF Unmoved, engineVars
<1>3. Typed'
    BY <1>1, EvictTyped DEF CInv, Typed, Entries, planVars, engineVars
<1>4. Lists' /\ Budgeted'
    BY <1>1, <1>2 DEF CInv, Lists, Budgeted, planVars
<1>5. Stages'
    BY <1>1, <1>2 DEF CInv, Stages, StageOf, ToSample, planVars
<1> QED
    BY <1>2, <1>3, <1>4, <1>5 DEF CInv

\* Everyone at a boundary has a token of the budget.
LEMMA ScheduleBoundaryDecodeStep ==
    ASSUME CInv, ScheduleBoundaryDecode, UNCHANGED engineVars
    PROVE  CInv'
<1> DEFINE id == Head(todo)
<1>1. /\ pc = "boundary" /\ todo # <<>> /\ todo' = Tail(todo)
      /\ decode_ids' = IF budget > 0 THEN Append(decode_ids, id) ELSE decode_ids
      /\ budget' = SaturatingSub(budget, 1) /\ reserved' = reserved + Minimum(budget, 1)
      /\ UNCHANGED <<refs, prefill_ids, free_blocks, pc>> /\ UNCHANGED schedVars
    BY DEF ScheduleBoundaryDecode
<1>2. /\ todo \in Seq(Ids) /\ Distinct(todo) /\ decode_ids \in Seq(Ids) /\ Distinct(decode_ids)
      /\ budget \in Nat /\ budget <= max_tokens_per_step /\ reserved \in Nat
      /\ Len(todo) <= budget /\ Range(todo) \cap Range(decode_ids) = {}
      /\ prefill_ids = <<>> /\ Run = Range(decode_ids) \cup Range(todo)
      /\ \A x \in Range(todo) : decode_needs_new_block(seq[x])
    <2>1. /\ todo \in Seq(Ids) /\ decode_ids \in Seq(Ids) /\ budget \in Nat /\ reserved \in Nat
          /\ budget <= max_tokens_per_step
        BY Types, Constants DEF CInv, Typed
    <2>2. Len(todo) <= budget
        BY <1>1 DEF CInv, Budgeted
    <2> QED
        BY <1>1, <2>1, <2>2 DEF CInv, Lists
<1>3. /\ Tail(todo) \in Seq(Ids) /\ Distinct(Tail(todo)) /\ id \in Range(todo)
      /\ Range(Tail(todo)) = Range(todo) \ {id} /\ Len(Tail(todo)) = Len(todo) - 1
    BY <1>1, <1>2, DistinctTail
<1>4. Len(todo) \in Nat /\ Len(todo) >= 1 /\ id \in Ids /\ id \notin Range(decode_ids)
    BY <1>1, <1>2, <1>3
<1>5. decode_ids' = Append(decode_ids, id) /\ budget' = budget - 1 /\ reserved' \in Nat
    BY <1>1, <1>2, <1>4 DEF SaturatingSub, Minimum
<1> HIDE DEF id
<1>6. /\ decode_ids' \in Seq(Ids) /\ Distinct(decode_ids')
      /\ Range(decode_ids') = Range(decode_ids) \cup {id}
    BY <1>2, <1>4, <1>5, RangeAppend, DistinctAppend
<1>7. Queues' /\ Status' /\ Arrivals' /\ Run' = Run
    BY <1>1, UnmovedKeeps, NobodyFinished DEF Unmoved, schedVars, engineVars
<1>8. budget' \in 0 .. max_tokens_per_step
    BY <1>2, <1>4, <1>5, Constants
<1>9. Typed'
    BY <1>1, <1>3, <1>5, <1>6, <1>8 DEF CInv, Typed, schedVars, engineVars
<1>10. Lists'
    <2>1. /\ Range(todo') = Range(todo) \ {id} /\ Distinct(todo') /\ todo' = Tail(todo)
        BY <1>1, <1>3
    <2>2. Range(<<>>) = {} /\ Distinct(<<>>)
        BY DEF Range, Distinct
    <2>3. Range(todo') \cap Range(decode_ids') = {} /\ Run = Range(decode_ids') \cup Range(todo')
        BY <1>2, <1>3, <1>6, <2>1
    <2> QED
        BY <1>1, <1>2, <1>6, <1>7, <2>1, <2>2, <2>3 DEF Lists, schedVars
<1>11. Budgeted'
    <2>1. Len(todo') = Len(todo) - 1
        BY <1>1, <1>3
    <2>2. Len(running) \in Nat /\ Len(running) + budget <= max_tokens_per_step + Len(todo)
          /\ Len(running) <= max_tokens_per_step
        BY <1>1, Types DEF CInv, Budgeted
    <2>3. Len(todo) - 1 <= budget - 1 /\ Len(running) + (budget - 1) <= max_tokens_per_step + (Len(todo) - 1)
        BY <1>2, <1>4, <2>2, Constants
    <2> QED
        BY <1>1, <1>5, <2>1, <2>2, <2>3 DEF Budgeted, schedVars
<1>12. Stages'
    <2>1. UNCHANGED <<running, seq, pc, prefill_ids>>
        BY <1>1 DEF schedVars
    <2> QED
        BY <1>1, <1>7, <2>1 DEF CInv, Stages, StageOf, ToSample
<1> QED
    BY <1>7, <1>9, <1>10, <1>11, <1>12 DEF CInv

\* With nobody left at a boundary, all who run are in the batch.
LEMMA BoundaryDoneStep ==
    ASSUME CInv, BoundaryDone, UNCHANGED engineVars
    PROVE  CInv'
<1>1. /\ pc = "boundary" /\ todo = <<>> /\ pc' = "admit"
      /\ free_blocks' = SaturatingSub(NumFree(refs), reserved)
      /\ UNCHANGED <<refs, todo, decode_ids, prefill_ids, budget, reserved>> /\ UNCHANGED schedVars
    BY DEF BoundaryDone
<1>2. Queues' /\ Status' /\ Arrivals' /\ Run' = Run
    BY <1>1, UnmovedKeeps, NobodyFinished DEF Unmoved, schedVars, engineVars
<1>3. free_blocks' \in Nat
    BY <1>1, FreeFacts, Types DEF SaturatingSub, CInv
<1>4. Typed'
    BY <1>1, <1>3 DEF CInv, Typed, schedVars, engineVars
<1>5. Lists'
    <2>1. Range(<<>>) = {} /\ Distinct(<<>>)
        BY DEF Range, Distinct
    <2>2. Batch' = Batch /\ prefill_ids = <<>> /\ Run = Range(decode_ids) \cup Range(todo)
        BY <1>1 DEF CInv, Lists, Batch
    <2>3. Run = Batch
        BY <1>1, <2>1, <2>2 DEF Batch
    <2> QED
        BY <1>1, <1>2, <2>2, <2>3 DEF CInv, Lists
<1>6. Budgeted'
    <2>1. Len(<<>>) = 0
        OBVIOUS
    <2>2. Len(running) \in Nat /\ budget \in Nat /\ Len(running) + budget <= max_tokens_per_step + Len(todo)
          /\ Len(running) <= max_tokens_per_step
        BY <1>1, Types DEF CInv, Budgeted
    <2> QED
        BY <1>1, <2>1, <2>2, Constants DEF Budgeted, schedVars
<1>7. Stages'
    <2> SUFFICES ASSUME NEW id \in Run PROVE StageOf(id)'
        BY <1>2 DEF Stages
    <2>1. id \notin Range(prefill_ids)
        BY <1>1 DEF CInv, Lists, Range
    <2>2. Sampled(seq[id]) /\ seq[id].status = "Running"
        BY <1>1, <2>1 DEF CInv, Stages, StageOf
    <2> QED
        BY <1>1, <2>1, <2>2 DEF StageOf, ToSample, schedVars
<1> QED
    BY <1>2, <1>4, <1>5, <1>6, <1>7 DEF CInv

\* Looking up the front of the queue reorders the cache alone.
LEMMA TouchForPrefillStep ==
    ASSUME CInv, TouchForPrefill, UNCHANGED engineVars
    PROVE  CInv'
<1>1. /\ pc = "admit" /\ pc' = "evict" /\ waiting # <<>>
      /\ cache' = Touched(cache, seq[Head(waiting)].all_tokens)
      /\ UNCHANGED <<refs, waiting, running, running_index, seq, todo>> /\ UNCHANGED planVars
    BY DEF TouchForPrefill, CanAdmitMore
<1>2. Queues' /\ Status' /\ Arrivals' /\ Run' = Run
    BY <1>1, UnmovedKeeps, NobodyFinished DEF Unmoved, engineVars
<1>3. cache' \in Seq(Entries)
    <2>1. Head(waiting) \in Ids /\ seq \in [Ids -> SequenceStates] /\ cache \in Seq(Entries)
        BY <1>1, Types DEF CInv, Typed, Entries
    <2>2. seq[Head(waiting)].all_tokens \in Seq(Nat)
        BY <2>1, StateTypes
    <2> QED
        BY <1>1, <2>1, <2>2, TouchedType
<1>4. Typed'
    BY <1>1, <1>3 DEF CInv, Typed, Entries, planVars, engineVars
<1>5. Lists'
    <2>1. Batch' = Batch
        BY <1>1 DEF Batch, planVars
    <2> QED
        BY <1>1, <1>2, <2>1 DEF CInv, Lists, planVars
<1>6. Budgeted'
    BY <1>1 DEF CInv, Budgeted, planVars
<1>7. Stages'
    <2>1. UNCHANGED <<running, seq, prefill_ids, todo>>
        BY <1>1 DEF planVars
    <2> QED
        BY <1>1, <1>2, <2>1 DEF CInv, Stages, StageOf, ToSample
<1> QED
    BY <1>2, <1>4, <1>5, <1>6, <1>7 DEF CInv

\* An eviction for a prefill touches the prefix cache alone.
LEMMA EvictForPrefillStep ==
    ASSUME CInv, EvictForPrefill, UNCHANGED engineVars
    PROVE  CInv'
<1>1. /\ pc = "evict" /\ evict_lru /\ free_blocks' = SaturatingSub(NumFree(refs'), reserved)
      /\ UNCHANGED <<waiting, running, running_index, seq, pc, todo>>
      /\ UNCHANGED <<decode_ids, prefill_ids, budget, reserved>>
    BY DEF EvictForPrefill
<1>2. Queues' /\ Status' /\ Arrivals' /\ Run' = Run
    BY <1>1, UnmovedKeeps, NobodyFinished DEF Unmoved, engineVars
<1>3. free_blocks' \in Nat
    BY <1>1, FreeFacts, Types DEF SaturatingSub, CInv
<1>4. Typed'
    BY <1>1, <1>3, EvictTyped DEF CInv, Typed, Entries, engineVars
<1>5. Lists' /\ Budgeted'
    <2>1. Batch' = Batch
        BY <1>1 DEF Batch
    <2> QED
        BY <1>1, <1>2, <2>1 DEF CInv, Lists, Budgeted
<1>6. Stages'
    BY <1>1, <1>2 DEF CInv, Stages, StageOf, ToSample
<1> QED
    BY <1>2, <1>4, <1>5, <1>6 DEF CInv

\* The end of schedule: the prompts of the batch are to be planned.
LEMMA ScheduleDoneStep ==
    ASSUME CInv, ScheduleDone, UNCHANGED engineVars
    PROVE  CInv'
<1>1. /\ pc \in {"admit", "evict"} /\ pc' = "plan" /\ todo' = prefill_ids
      /\ UNCHANGED refs /\ UNCHANGED schedVars /\ UNCHANGED planVars
    BY DEF ScheduleDone, AdmissionOver
<1>2. Queues' /\ Status' /\ Arrivals' /\ Run' = Run
    BY <1>1, UnmovedKeeps, NobodyFinished DEF Unmoved, schedVars, engineVars
<1>3. Typed'
    BY <1>1, Types DEF CInv, Typed, schedVars, planVars, engineVars
<1>4. Batch' = Batch
    BY <1>1 DEF Batch, planVars
<1>5. Lists' /\ Budgeted'
    BY <1>1, <1>2, <1>4 DEF CInv, Lists, Budgeted, planVars, schedVars
<1>6. Stages'
    <2> SUFFICES ASSUME NEW id \in Run PROVE StageOf(id)'
        BY <1>2 DEF Stages
    <2>1. /\ id \notin Range(prefill_ids) => Sampled(seq[id]) /\ seq[id].status = "Running"
          /\ id \in Range(prefill_ids) => Planned(seq[id]) /\ seq[id].block_ids = <<>>
        BY <1>1 DEF CInv, Stages, StageOf
    <2> QED
        BY <1>1, <2>1 DEF StageOf, ToSample, schedVars, planVars
<1> QED
    BY <1>2, <1>3, <1>5, <1>6 DEF CInv

\* The batch, as a list.
LEMMA BatchList ==
    ASSUME CInv
    PROVE  /\ prefill_ids \o decode_ids \in Seq(Ids) /\ Distinct(prefill_ids \o decode_ids)
           /\ Range(prefill_ids \o decode_ids) = Batch
<1>1. /\ prefill_ids \in Seq(Ids) /\ decode_ids \in Seq(Ids) /\ Distinct(prefill_ids)
      /\ Distinct(decode_ids) /\ Range(prefill_ids) \cap Range(decode_ids) = {}
    BY Types DEF CInv, Lists
<1> QED
    BY <1>1, RangeConcat, DistinctConcat DEF Batch

\* The batch goes to the forward, prompts first.
LEMMA PlanDoneStep ==
    ASSUME CInv, PlanDone
    PROVE  CInv'
<1>1. /\ pc = "plan" /\ todo = <<>> /\ todo' = prefill_ids \o decode_ids
      /\ pc' = IF todo' = <<>> THEN "retire" ELSE "forward"
      /\ UNCHANGED refs /\ UNCHANGED schedVars /\ UNCHANGED planVars /\ UNCHANGED engineVars
    BY DEF PlanDone
<1>2. todo' \in Seq(Ids) /\ Distinct(todo') /\ Range(todo') = Batch
    BY <1>1, BatchList
<1>3. Queues' /\ Status' /\ Arrivals' /\ Run' = Run
    BY <1>1, UnmovedKeeps, NobodyFinished DEF Unmoved, schedVars, engineVars
<1>4. pc' \in {"forward", "retire"}
    BY <1>1
<1>5. Typed'
    BY <1>1, <1>2, <1>4 DEF CInv, Typed, schedVars, planVars, engineVars
<1>6. Run = Batch /\ Batch' = Batch
    BY <1>1 DEF CInv, Lists, Batch, planVars
<1>7. pc' = "retire" => Run = {}
    BY <1>1, <1>2, <1>6 DEF Range
<1>8. Lists'
    <2>1. pc' = "retire" => Range(todo') = {id \in Run : seq[id].status = "Finished"}
        BY <1>2, <1>6, <1>7
    <2>2. Distinct(decode_ids') /\ Distinct(prefill_ids') /\ Range(decode_ids') \cap Range(prefill_ids') = {}
        BY <1>1 DEF CInv, Lists, planVars
    <2>3. seq' = seq
        BY <1>1 DEF schedVars
    <2> QED
        BY <1>2, <1>3, <1>4, <1>6, <2>1, <2>2, <2>3 DEF Lists
<1>9. Budgeted'
    BY <1>1, <1>4 DEF CInv, Budgeted, planVars, schedVars
<1>10. Stages'
    <2> SUFFICES ASSUME NEW id \in Run PROVE StageOf(id)'
        BY <1>3 DEF Stages
    <2> DEFINE s == seq[id]
    <2>1. s \in SequenceStates /\ pc' = "forward" /\ seq' = seq /\ id \in Range(todo')
        BY <1>1, <1>2, <1>4, <1>6, <1>7, Types DEF CInv, Run, schedVars
    <2>2. /\ Len(s.all_tokens) \in Nat /\ Len(s.block_ids) \in Nat /\ s.num_tokens \in Nat
        BY <2>1, StateTypes
    <2>3. CASE id \notin Range(prefill_ids)
        <3>1. Sampled(s) /\ s.status = "Running"
            BY <1>1, <2>3 DEF CInv, Stages, StageOf
        <3>2. s.num_tokens <= Len(s.all_tokens) /\ Tabled(s)
            BY <2>2, <3>1 DEF Sampled
        <3> QED
            BY <2>1, <3>1, <3>2 DEF StageOf
    <2>4. CASE id \in Range(prefill_ids)
        <3>1. Planned(s)
            BY <1>1, <2>4 DEF CInv, Stages, StageOf
        <3>2. s.status = "Running" /\ s.num_tokens <= Len(s.all_tokens)
            BY <2>2, <3>1 DEF Planned
        <3>3. Tabled(s)
            BY <2>2, <3>1, Constants, WholeBlocks DEF Planned, Tabled
        <3> QED
            BY <2>1, <3>2, <3>3 DEF StageOf
    <2> QED
        BY <2>3, <2>4
<1> QED
    BY <1>3, <1>5, <1>8, <1>9, <1>10 DEF CInv

\* todo without its first.
LEMMA TodoTail ==
    ASSUME CInv, todo # <<>>
    PROVE  /\ Tail(todo) \in Seq(Ids) /\ Distinct(Tail(todo)) /\ Head(todo) \in Range(todo)
           /\ Head(todo) \in Ids
           /\ Range(Tail(todo)) = Range(todo) \ {Head(todo)} /\ Len(Tail(todo)) = Len(todo) - 1
<1>1. todo \in Seq(Ids) /\ Distinct(todo) /\ Range(todo) \subseteq Ids
    BY Types DEF CInv, Lists
<1> QED
    BY <1>1, DistinctTail

\* The forward is done with a sequence that has all its tokens.
LEMMA ForwardNextStep ==
    ASSUME CInv, ForwardNext
    PROVE  CInv'
<1> DEFINE id == Head(todo)
<1>1. /\ pc = "forward" /\ todo # <<>> /\ seq[id].num_tokens = Len(seq[id].all_tokens)
      /\ todo' = Tail(todo) /\ UNCHANGED <<refs, pc>>
      /\ UNCHANGED schedVars /\ UNCHANGED planVars /\ UNCHANGED engineVars
    BY DEF ForwardNext
<1>2. todo' \in Seq(Ids) /\ Distinct(todo') /\ Range(todo') = Range(todo) \ {id}
    BY <1>1, TodoTail
<1> HIDE DEF id
<1>3. Queues' /\ Status' /\ Arrivals' /\ Run' = Run
    BY <1>1, UnmovedKeeps, NobodyFinished DEF Unmoved, schedVars, engineVars
<1>4. Typed'
    BY <1>1, <1>2 DEF CInv, Typed, schedVars, planVars, engineVars
<1>5. Lists'
    <2>1. Batch' = Batch
        BY <1>1 DEF Batch, planVars
    <2> QED
        BY <1>1, <1>2, <1>3, <2>1 DEF CInv, Lists, planVars
<1>6. Budgeted'
    BY <1>1 DEF CInv, Budgeted, planVars, schedVars
<1>7. Stages'
    <2> SUFFICES ASSUME NEW x \in Run PROVE StageOf(x)'
        BY <1>3 DEF Stages
    <2>1. /\ seq[x].status = "Running" /\ seq[x].num_tokens <= Len(seq[x].all_tokens) /\ Tabled(seq[x])
          /\ (x \notin Range(todo) => Computed(seq[x]))
        BY <1>1 DEF CInv, Stages, StageOf
    <2>2. x = id => Computed(seq[x])
        BY <1>1, <2>1 DEF Computed
    <2> QED
        BY <1>1, <1>2, <2>1, <2>2 DEF StageOf, schedVars
<1> QED
    BY <1>3, <1>4, <1>5, <1>6, <1>7 DEF CInv

\* Both ways to fail lead to the same place.
LEMMA FaultStep ==
    ASSUME CInv, ForwardExhausted \/ DeviceFault
    PROVE  CInv'
<1>1. /\ pc \in {"forward", "sample"} /\ pc' = "error" /\ UNCHANGED <<refs, todo>>
      /\ UNCHANGED schedVars /\ UNCHANGED planVars
      /\ UNCHANGED <<content, cached_blocks, new_tokens, output, outcome, consecutive_errors>>
      /\ faults' \in 0 .. MaxFaults
    <2>1. CASE ForwardExhausted
        BY <2>1 DEF ForwardExhausted, engineVars, CInv, Typed
    <2>2. CASE DeviceFault
        <3>1. faults \in 0 .. MaxFaults /\ faults < MaxFaults /\ faults' = faults + 1
            BY <2>2 DEF DeviceFault, CInv, Typed
        <3>2. faults' \in 0 .. MaxFaults
            BY <3>1, Constants
        <3> QED
            BY <2>2, <3>2 DEF DeviceFault
    <2> QED
        BY <2>1, <2>2
<1>2. \A id \in Ids : seq[id].status = "Finished" => id \in Run
    BY <1>1 DEF CInv, Status, FinishedOf
<1>3. Queues' /\ Status' /\ Arrivals' /\ Run' = Run
    BY <1>1, <1>2, UnmovedKeeps DEF Unmoved, schedVars
<1>4. Typed'
    BY <1>1 DEF CInv, Typed, schedVars, planVars
<1>5. Lists' /\ Budgeted'
    BY <1>1 DEF CInv, Lists, Budgeted, planVars, schedVars
<1>6. Stages'
    BY <1>1 DEF Stages, StageOf
<1> QED
    BY <1>3, <1>4, <1>5, <1>6 DEF CInv

\* The forward is done with the batch; each of it is to be sampled.
LEMMA ForwardDoneStep ==
    ASSUME CInv, ForwardDone
    PROVE  CInv'
<1>1. /\ pc = "forward" /\ todo = <<>> /\ todo' = prefill_ids \o decode_ids /\ pc' = "sample"
      /\ UNCHANGED refs /\ UNCHANGED schedVars /\ UNCHANGED planVars /\ UNCHANGED engineVars
    BY DEF ForwardDone
<1>2. todo' \in Seq(Ids) /\ Distinct(todo') /\ Range(todo') = Batch
    BY <1>1, BatchList
<1>3. Queues' /\ Status' /\ Arrivals' /\ Run' = Run
    BY <1>1, UnmovedKeeps, NobodyFinished DEF Unmoved, schedVars, engineVars
<1>4. Typed'
    BY <1>1, <1>2 DEF CInv, Typed, schedVars, planVars, engineVars
<1>5. Run = Batch /\ Batch' = Batch
    BY <1>1 DEF CInv, Lists, Batch, planVars
<1>6. Lists' /\ Budgeted'
    BY <1>1, <1>2, <1>3, <1>5 DEF CInv, Lists, Budgeted, planVars, schedVars
<1>7. Stages'
    <2> SUFFICES ASSUME NEW id \in Run PROVE StageOf(id)'
        BY <1>3 DEF Stages
    <2>1. id \notin Range(todo)
        BY <1>1 DEF Range
    <2>2. Computed(seq[id])
        BY <1>1, <2>1 DEF CInv, Stages, StageOf
    <2>3. ToSample(id)'
        BY <1>1, <1>2, <1>5 DEF ToSample
    <2> QED
        BY <1>1, <2>2, <2>3 DEF StageOf, schedVars
<1> QED
    BY <1>3, <1>4, <1>6, <1>7 DEF CInv

\* The block a prompt registers next is one of its table.
LEMMA RegisterFacts ==
    ASSUME CInv, pc = "register", NEW i \in Nat, i >= 1, i <= PromptBlocks(Head(todo))
    PROVE  /\ Head(todo) \in Ids /\ Head(todo) \in Run
           /\ seq[Head(todo)] \in SequenceStates /\ Sampled(seq[Head(todo)])
           /\ i \in 1 .. Len(seq[Head(todo)].block_ids) /\ i <= Filled(seq[Head(todo)])
           /\ seq[Head(todo)].block_ids[i] \in Blocks
           /\ PrefixKey(seq[Head(todo)].all_tokens, i) \in Seq(Nat)
<1> DEFINE id == Head(todo)
           s == seq[id]
<1>1. todo # <<>> /\ id \in Range(prefill_ids) /\ Run = Batch
    BY DEF CInv, Lists
<1>2. id \in Ids /\ id \in Run
    BY <1>1, Types DEF CInv, Batch
<1>3. s \in SequenceStates
    BY <1>2, Types DEF CInv
<1>4. ~ToSample(id)
    BY DEF ToSample
<1>5. Sampled(s)
    BY <1>2, <1>4 DEF CInv, Stages, StageOf
<1>6. /\ s.num_tokens \in Nat /\ Len(s.all_tokens) \in Nat /\ s.block_ids \in Seq(Blocks)
      /\ s.all_tokens \in Seq(Nat)
    BY <1>3, StateTypes
<1>7. s.num_tokens = Len(s.all_tokens) - 1 /\ Len(s.block_ids) = DivCeil(s.num_tokens, BlockSize)
    BY <1>5 DEF Sampled, Tabled
<1>8. i <= s.num_tokens \div BlockSize /\ s.num_tokens \div BlockSize \in Nat
    BY <1>6, <1>7, Constants, DivMod DEF PromptBlocks
<1>9. Len(s.block_ids) >= s.num_tokens \div BlockSize
    <2>1. DivCeil(s.num_tokens, BlockSize) =
              IF s.num_tokens % BlockSize = 0 THEN s.num_tokens \div BlockSize
              ELSE (s.num_tokens \div BlockSize) + 1
        BY <1>6, Constants, CeilDivMod
    <2> QED
        BY <1>7, <1>8, <2>1
<1>10. i \in 1 .. Len(s.block_ids)
    BY <1>6, <1>8, <1>9
<1>11. s.block_ids[i] \in Blocks
    BY <1>6, <1>10
<1>12. PrefixKey(s.all_tokens, i) \in Seq(Nat)
    <2>1. i * BlockSize \in Nat /\ i * BlockSize <= s.num_tokens
        BY <1>6, <1>8, Constants, BlocksFit
    <2>2. \A k \in 1 .. i * BlockSize : k \in 1 .. Len(s.all_tokens)
        BY <1>6, <1>7, <2>1
    <2> DEFINE m == i * BlockSize
               a == s.all_tokens
    <2>3. m \in Nat /\ m <= Len(a) /\ a \in Seq(Nat)
        BY <1>6, <1>7, <2>1
    <2> HIDE DEF m, a
    <2>4. SubSeq(a, 1, m) \in Seq(Nat)
        BY <2>3
    <2> QED
        BY <2>4 DEF PrefixKey, m, a
<1> QED
    BY <1>2, <1>3, <1>5, <1>8, <1>10, <1>11, <1>12 DEF Filled

\* Registering a block of a prompt changes the cache and one reference.
LEMMA RegisterBlockStep ==
    ASSUME CInv, RegisterBlock
    PROVE  CInv'
<1> DEFINE id == Head(todo)
           i == cached_blocks[id] + 1
           key == PrefixKey(seq[id].all_tokens, i)
           block == seq[id].block_ids[i]
           gone == [k \in DOMAIN PushEvicts(cache) |-> PushEvicts(cache)[k].block]
<1>1. /\ pc = "register" /\ CacheCapacity > 0 /\ i <= PromptBlocks(id)
      /\ \/ UNCHANGED <<refs, cache>>
         \/ /\ refs' = FreedAll(SharedOnce(refs, block), gone)
            /\ cache' = Pushed(cache, [key |-> key, block |-> block])
      /\ cached_blocks' = [cached_blocks EXCEPT ![id] = i]
      /\ UNCHANGED <<waiting, running, running_index, seq, pc, todo, content, new_tokens,
                     output, outcome, consecutive_errors, faults>>
      /\ UNCHANGED planVars
    BY DEF RegisterBlock
<1>2. id \in Ids
    <2>1. todo # <<>>
        BY <1>1 DEF CInv, Lists
    <2> QED
        BY <2>1, TodoTail
<1>3. i \in Nat /\ i >= 1 /\ cached_blocks' \in [Ids -> Nat]
    <2>1. cached_blocks \in [Ids -> Nat]
        BY DEF CInv, Typed
    <2>2. i \in Nat /\ i >= 1
        BY <1>2, <2>1
    <2> HIDE DEF i
    <2> QED
        BY <1>1, <1>2, <2>1, <2>2
<1>4. key \in Seq(Nat) /\ block \in Blocks
    <2> HIDE DEF i
    <2> QED
        BY <1>1, <1>3, RegisterFacts
<1> HIDE DEF key, block
<1>5. refs \in [Blocks -> Int] /\ cache \in Seq(Entries) /\ CacheCapacity \in Nat
    BY Constants DEF CInv, Typed, Entries
<1>6. [key |-> key, block |-> block] \in Entries
    BY <1>4 DEF Entries
<1>7. Len(cache) < CacheCapacity \/ cache # <<>>
    BY <1>1, <1>5
<1>8. gone \in Seq(Blocks)
    <2>1. CASE Len(cache) < CacheCapacity
        BY <2>1 DEF PushEvicts
    <2>2. CASE ~ (Len(cache) < CacheCapacity)
        <3>1. Head(cache) \in Entries
            BY <1>5, <1>7, <2>2
        <3>2. Head(cache).block \in Blocks
            BY <3>1 DEF Entries
        <3>3. PushEvicts(cache) = <<Head(cache)>>
            BY <2>2 DEF PushEvicts
        <3>4. gone = <<Head(cache).block>>
            BY <3>3
        <3> QED
            BY <3>2, <3>4
    <2> QED
        BY <2>1, <2>2
<1> HIDE DEF gone
<1>9. refs' \in [Blocks -> Int]
    <2>1. SharedOnce(refs, block) \in [Blocks -> Int]
        BY <1>4, <1>5 DEF SharedOnce
    <2>2. \A b : Occurrences(b, gone) \in Nat
        BY <1>8, OccurrencesType
    <2>3. FreedAll(SharedOnce(refs, block), gone) \in [Blocks -> Int]
        BY <2>1, <2>2 DEF FreedAll
    <2> QED
        BY <1>1, <1>5, <2>3
<1>10. cache' \in Seq(Entries)
    <2> DEFINE e == [key |-> key, block |-> block]
    <2>1. e \in Entries
        BY <1>6
    <2> HIDE DEF e
    <2>2. Append(cache, e) \in Seq(Entries)
        BY <1>5, <2>1
    <2>3. ~ (Len(cache) < CacheCapacity) => Append(Tail(cache), e) \in Seq(Entries)
        BY <1>5, <1>7, <2>1
    <2>4. Pushed(cache, e) \in Seq(Entries)
        BY <2>2, <2>3 DEF Pushed
    <2> QED
        BY <1>1, <1>5, <2>4 DEF e
<1> HIDE DEF i, id
<1>11. \A x \in Ids : seq[x].status = "Finished" => x \in Run
    BY <1>1 DEF CInv, Status, FinishedOf
<1>12. Queues' /\ Status' /\ Arrivals' /\ Run' = Run
    BY <1>1, <1>11, UnmovedKeeps DEF Unmoved
<1>13. Typed'
    BY <1>1, <1>3, <1>9, <1>10 DEF CInv, Typed, Entries, planVars
<1>14. Lists' /\ Budgeted'
    <2>1. Batch' = Batch
        BY <1>1 DEF Batch, planVars
    <2> QED
        BY <1>1, <1>12, <2>1 DEF CInv, Lists, Budgeted, planVars
<1>15. Stages'
    <2>1. UNCHANGED <<running, seq, prefill_ids, todo, pc>>
        BY <1>1 DEF planVars
    <2> QED
        BY <1>12, <2>1 DEF CInv, Stages, StageOf, ToSample
<1> QED
    BY <1>12, <1>13, <1>14, <1>15 DEF CInv

\* The prompt's blocks are registered; the next sequence is sampled.
LEMMA RegisterDoneStep ==
    ASSUME CInv, RegisterDone
    PROVE  CInv'
<1> DEFINE id == Head(todo)
<1>1. /\ pc = "register" /\ pc' = "sample" /\ todo' = Tail(todo)
      /\ UNCHANGED refs /\ UNCHANGED schedVars /\ UNCHANGED planVars /\ UNCHANGED engineVars
    BY DEF RegisterDone
<1>2. todo # <<>>
    BY <1>1 DEF CInv, Lists
<1>3. todo' \in Seq(Ids) /\ Distinct(todo') /\ Range(todo') = Range(todo) \ {id}
    BY <1>1, <1>2, TodoTail
<1>4. \A x \in Ids : seq[x].status = "Finished" => x \in Run
    BY <1>1 DEF CInv, Status, FinishedOf
<1>5. Queues' /\ Status' /\ Arrivals' /\ Run' = Run
    BY <1>1, <1>4, UnmovedKeeps DEF Unmoved, schedVars, engineVars
<1>6. Typed'
    BY <1>1, <1>3 DEF CInv, Typed, schedVars, planVars, engineVars
<1>7. Lists' /\ Budgeted'
    <2>1. Batch' = Batch /\ Range(todo') \subseteq Batch /\ Run = Batch
        BY <1>1, <1>3 DEF CInv, Lists, Batch, planVars
    <2> QED
        BY <1>1, <1>3, <1>5, <2>1 DEF CInv, Lists, Budgeted, planVars, schedVars
<1>8. Stages'
    <2> SUFFICES ASSUME NEW x \in Run PROVE StageOf(x)'
        BY <1>5 DEF Stages
    <2>1. ToSample(x)' <=> ToSample(x)
        BY <1>1, <1>3 DEF ToSample
    <2>2. IF ToSample(x) THEN Computed(seq[x]) ELSE Sampled(seq[x])
        BY <1>1 DEF CInv, Stages, StageOf
    <2> QED
        BY <1>1, <2>1, <2>2 DEF StageOf, schedVars
<1> QED
    BY <1>5, <1>6, <1>7, <1>8 DEF CInv

\* Everyone is sampled; those who finished are to be retired.
LEMMA SampleDoneStep ==
    ASSUME CInv, SampleDone
    PROVE  CInv'
<1> DEFINE F == {id \in Ids : seq[id].status = "Finished"}
<1>1. /\ pc = "sample" /\ todo = <<>> /\ todo' = Pick(running, F) /\ pc' = "retire"
      /\ UNCHANGED refs /\ UNCHANGED schedVars /\ UNCHANGED planVars /\ UNCHANGED engineVars
    BY DEF SampleDone
<1>2. running \in Seq(Ids) /\ Distinct(running) /\ Run \subseteq Ids
    BY Types DEF CInv, Queues, Run
<1>3. \A id \in Run : id \in F <=> seq[id].status = "Finished"
    BY <1>2
<1> HIDE DEF F
<1>4. todo' \in Seq(Ids) /\ Distinct(todo') /\ Range(todo') = Run \cap F
    BY <1>1, <1>2, PickFacts, PickDistinct DEF Run
<1>5. \A id \in Ids : seq[id].status = "Finished" => id \in Run
    BY <1>1 DEF CInv, Status, FinishedOf
<1>6. Queues' /\ Status' /\ Arrivals' /\ Run' = Run
    BY <1>1, <1>5, UnmovedKeeps DEF Unmoved, schedVars, engineVars
<1>7. Typed'
    BY <1>1, <1>4 DEF CInv, Typed, schedVars, planVars, engineVars
<1>8. Lists' /\ Budgeted'
    <2>1. Range(todo') = {id \in Run : seq[id].status = "Finished"}
        BY <1>3, <1>4
    <2> QED
        BY <1>1, <1>4, <1>6, <2>1 DEF CInv, Lists, Budgeted, planVars, schedVars
<1>9. Stages'
    <2> SUFFICES ASSUME NEW id \in Run PROVE StageOf(id)'
        BY <1>6 DEF Stages
    <2>1. ~ToSample(id)
        BY <1>1 DEF ToSample, Range
    <2>2. Sampled(seq[id])
        BY <1>1, <2>1 DEF CInv, Stages, StageOf
    <2> QED
        BY <1>1, <2>2 DEF StageOf, schedVars
<1> QED
    BY <1>6, <1>7, <1>8, <1>9 DEF CInv

-----------------------------------------------------------------------------
(* Steps that change one running sequence.                                 *)

\* When one running sequence changes and stays running, the queues and the
\* statuses hold for all when they hold for it.
LEMMA OneChanged ==
    ASSUME CInv, UNCHANGED <<waiting, running, running_index, outcome>>, NEW id \in Run,
           NEW s \in SequenceStates, seq' = [seq EXCEPT ![id] = s],
           s.status \in {"Running", "Finished"}, s.all_tokens # <<>>,
           s.status = "Finished" => s.finish_reason \in {"stop", "length"},
           pc' \in {"plan", "forward", "sample", "register"},
           pc' \in {"plan", "forward"} => pc = pc' /\ s.status = "Running",
           pc' \in {"sample", "register"} => pc = "sample"
    PROVE  /\ Queues' /\ Status' /\ Arrivals' /\ Run' = Run /\ seq' \in [Ids -> SequenceStates]
           /\ seq'[id] = s /\ \A x \in Ids : x # id => seq'[x] = seq[x]
<1>1. Run' = Run /\ Wait' = Wait
    BY DEF Run, Wait
<1>2. Run \subseteq Ids /\ Wait \subseteq Ids /\ seq \in [Ids -> SequenceStates] /\ waiting \in Seq(Ids)
    BY Types DEF CInv, Run, Wait
<1>3. id \in Ids /\ seq' \in [Ids -> SequenceStates] /\ seq'[id] = s
      /\ \A x \in Ids : x # id => seq'[x] = seq[x]
    BY <1>2
<1>4. Queues'
    BY <1>1 DEF CInv, Queues
<1>5. id \notin Wait
    BY DEF CInv, Queues
<1>6. Status'
    <2> SUFFICES ASSUME NEW x \in Ids PROVE StatusOf(x)' /\ FinishedOf(x)'
        BY DEF Status
    <2>1. CASE x # id
        <3>1. StatusOf(x)'
            BY <1>1, <1>3, <2>1 DEF CInv, Status, StatusOf
        <3>2. FinishedOf(x)'
            BY <1>1, <1>3, <2>1 DEF CInv, Status, FinishedOf
        <3> QED
            BY <3>1, <3>2
    <2>2. CASE x = id
        <3>1. seq[id].status \in {"Running", "Finished"} /\ outcome[id] = "pending"
            BY <1>3 DEF CInv, Status, StatusOf
        <3>2. StatusOf(id)'
            BY <1>1, <1>3, <1>5, <3>1 DEF StatusOf
        <3>3. FinishedOf(id)'
            BY <1>1, <1>3 DEF FinishedOf
        <3> QED
            BY <2>2, <3>2, <3>3
    <2> QED
        BY <2>1, <2>2
<1>7. Arrivals'
    <2>1. \A i \in DOMAIN waiting : waiting[i] \in Ids /\ waiting[i] # id
        BY <1>2, <1>5, RangeMember DEF Wait
    <2>2. \A i \in DOMAIN waiting : seq'[waiting[i]] = seq[waiting[i]]
        BY <1>3, <2>1
    <2>3. ArrivalOrder'
        BY <2>2 DEF CInv, Arrivals, ArrivalOrder
    <2> QED
        BY <2>3 DEF CInv, Arrivals
<1> QED
    BY <1>1, <1>3, <1>4, <1>6, <1>7

\* What planning a prompt does: it takes a leading part of the blocks found.
PlanCount(id) ==
    Minimum(CountCachedBlocks(cache, seq[id].all_tokens), MaxCacheable(seq[id].all_tokens))
PlanTable(id) == SubSeq(MatchedBlocks(cache, seq[id].all_tokens), 1, PlanCount(id))

\* What planning a prefill shares: leading whole blocks, never all of the prompt.
LEMMA PlanFacts ==
    ASSUME CInv, PlanPrefill
    PROVE  LET id == Head(todo)
           IN  /\ id \in Range(todo) /\ id \in Range(prefill_ids) /\ id \in Run /\ id \in Ids
               /\ seq[id] \in SequenceStates /\ Planned(seq[id])
               /\ seq[id].block_ids = <<>> /\ seq[id].num_tokens = 0
               /\ PlanCount(id) \in Nat /\ PlanTable(id) \in Seq(Blocks)
               /\ Len(PlanTable(id)) = PlanCount(id)
               /\ PlanCount(id) <= CountCachedBlocks(cache, seq[id].all_tokens)
               /\ PlanCount(id) * BlockSize \in Nat
               /\ PlanCount(id) * BlockSize < Len(seq[id].all_tokens)
               /\ seq' = [seq EXCEPT ![id] = [seq[id] EXCEPT !.block_ids = PlanTable(id),
                                                 !.num_tokens = PlanCount(id) * BlockSize]]
<1> DEFINE id == Head(todo)
           s == seq[id]
           tokens == s.all_tokens
           c == CountCachedBlocks(cache, tokens)
           n == PlanCount(id)
           m == MatchedBlocks(cache, tokens)
<1>1. pc = "plan" /\ todo # <<>>
    BY DEF PlanPrefill
<1>2. id \in Range(todo) /\ id \in Ids
    BY <1>1, TodoTail
<1>3. id \in Range(prefill_ids) /\ id \in Run
    BY <1>1, <1>2 DEF CInv, Lists, Batch
<1>4. Planned(s) /\ s.block_ids = <<>>
    BY <1>1, <1>2, <1>3 DEF CInv, Stages, StageOf
<1>5. s \in SequenceStates /\ seq \in [Ids -> SequenceStates] /\ cache \in Seq(Entries)
    BY <1>2, Types DEF CInv, Typed, Entries
<1>6. tokens \in Seq(Nat) /\ Len(tokens) \in Nat /\ s.num_tokens \in Nat
    BY <1>5, StateTypes
<1>7. s.num_tokens = 0 /\ Len(tokens) >= 1
    <2>1. s.num_tokens = Len(s.block_ids) * BlockSize /\ s.num_tokens < Len(tokens)
        BY <1>4 DEF Planned
    <2>2. Len(s.block_ids) = 0 /\ 0 * BlockSize = 0
        BY <1>4, Constants
    <2> QED
        BY <1>6, <2>1, <2>2
<1>8. c \in Nat
    BY <1>6, CountFacts
<1>9. MaxCacheable(tokens) = (Len(tokens) - 1) \div BlockSize /\ Len(tokens) - 1 \in Nat
    BY <1>6, <1>7 DEF MaxCacheable, SaturatingSub
<1>10. (Len(tokens) - 1) \div BlockSize \in Nat
    BY <1>9, Constants, DivMod
<1>11. n \in Nat /\ n <= c /\ n <= (Len(tokens) - 1) \div BlockSize
    BY <1>8, <1>9, <1>10 DEF PlanCount, Minimum
<1>12. m \in Seq(Blocks) /\ Len(m) = c
    BY <1>5, <1>6, MatchedFacts
<1> HIDE DEF n, m
<1>13. n * BlockSize \in Nat /\ n * BlockSize < Len(tokens)
    <2>1. n * BlockSize \in Nat /\ n * BlockSize <= Len(tokens) - 1
        BY <1>9, <1>11, Constants, BlocksFit
    <2> QED
        BY <1>6, <2>1
<1>14. PlanTable(id) = SubSeq(m, 1, n)
    BY DEF PlanTable, m, n
<1> DEFINE bs == PlanTable(id)
<1>15. bs \in Seq(Blocks) /\ Len(bs) = n
    BY <1>8, <1>11, <1>12, <1>14
<1>16. seq' = [seq EXCEPT ![id] = [seq[id] EXCEPT !.block_ids = bs, !.num_tokens = n * BlockSize]]
    <2>1. seq' = [seq EXCEPT ![id].block_ids = @ \o bs,
                             ![id].num_tokens = IF n > 0 THEN n * BlockSize ELSE @]
        BY DEF PlanPrefill, PlanTable, PlanCount, n
    <2>2. s.block_ids \o bs = bs
        BY <1>4, <1>15
    <2>3. (IF n > 0 THEN n * BlockSize ELSE s.num_tokens) = n * BlockSize
        <3>1. n = 0 => n * BlockSize = 0
            BY Constants
        <3> QED
            BY <1>7, <1>11, <3>1
    <2> HIDE DEF bs
    <2>4. seq' = [seq EXCEPT ![id] = [seq[id] EXCEPT !.block_ids = @ \o bs,
                                      !.num_tokens = IF n > 0 THEN n * BlockSize ELSE @]]
        BY <1>2, <1>5, <2>1
    <2>5. DOMAIN s = Fields
        BY <1>5, StateDomain
    <2> QED
        BY <1>2, <1>5, <2>2, <2>3, <2>4, <2>5 DEF Fields
<1> QED
    BY <1>2, <1>3, <1>4, <1>5, <1>7, <1>11, <1>13, <1>15, <1>16 DEF n

\* A planned prompt holds whole blocks and has a token left to compute.
LEMMA PlanPrefillStep ==
    ASSUME CInv, PlanPrefill
    PROVE  CInv'
<1> DEFINE id == Head(todo)
           bs == PlanTable(id)
           n == PlanCount(id)
           m == n * BlockSize
           s == [seq[id] EXCEPT !.block_ids = bs, !.num_tokens = m]
<1>1. /\ pc = "plan" /\ todo # <<>> /\ todo' = Tail(todo)
      /\ cache' = Touched(cache, seq[id].all_tokens) /\ refs' = SharedAll(refs, bs)
      /\ cached_blocks' = [cached_blocks EXCEPT ![id] = n]
      /\ UNCHANGED <<waiting, running, running_index, pc, content, new_tokens,
                     output, outcome, consecutive_errors, faults>>
      /\ UNCHANGED planVars
    BY DEF PlanPrefill, PlanTable, PlanCount
<1>2. /\ id \in Range(prefill_ids) /\ id \in Run /\ id \in Ids /\ seq[id] \in SequenceStates
      /\ Planned(seq[id]) /\ n \in Nat /\ bs \in Seq(Blocks) /\ Len(bs) = n
      /\ m \in Nat /\ m < Len(seq[id].all_tokens)
    BY PlanFacts
<1>3. seq' = [seq EXCEPT ![id] = s]
    BY PlanFacts
<1> HIDE DEF bs, n, id
<1>4. /\ s \in SequenceStates /\ s.all_tokens = seq[id].all_tokens
      /\ s.status = seq[id].status /\ s.phase = seq[id].phase /\ s.block_ids = bs
      /\ s.num_tokens = m
    <2> DEFINE old == seq[id]
    <2>1. s = Grown(old, bs, m) /\ old \in SequenceStates
          /\ bs \in Seq(Blocks) /\ m \in Nat
        BY <1>2 DEF Grown
    <2> HIDE DEF m, s, old
    <2>2. s \in SequenceStates /\ s.all_tokens = old.all_tokens
        BY <2>1, GrownState
    <2>3. s.status = old.status /\ s.phase = old.phase
        BY <2>1, GrownState
    <2>4. s.block_ids = bs /\ s.num_tokens = m
        BY <2>1, GrownState
    <2> QED
        BY <2>2, <2>3, <2>4 DEF old
<1>5. s.status = "Running" /\ s.phase = "Prefill" /\ s.all_tokens # <<>> /\ Planned(s)
    <2>1. seq[id].status = "Running" /\ seq[id].phase = "Prefill"
        BY <1>2 DEF Planned
    <2>2. s.all_tokens # <<>>
        BY <1>2, <1>4 DEF CInv, Status, StatusOf
    <2>3. s.num_tokens = Len(s.block_ids) * BlockSize /\ s.num_tokens < Len(s.all_tokens)
        BY <1>2, <1>4
    <2> HIDE DEF s
    <2> QED
        BY <1>4, <2>1, <2>2, <2>3 DEF Planned
<1> HIDE DEF s
<1>6. /\ Queues' /\ Status' /\ Arrivals' /\ Run' = Run /\ seq' \in [Ids -> SequenceStates]
      /\ seq'[id] = s /\ \A x \in Ids : x # id => seq'[x] = seq[x]
    BY <1>1, <1>2, <1>3, <1>4, <1>5, OneChanged
<1>7. todo' \in Seq(Ids) /\ Distinct(todo') /\ Range(todo') = Range(todo) \ {id}
    BY <1>1, TodoTail DEF id
<1>8. Typed'
    <2>1. cache' \in Seq(Entries)
        <3>1. cache \in Seq(Entries) /\ seq[id].all_tokens \in Seq(Nat)
            BY <1>2, StateTypes DEF CInv, Typed, Entries
        <3> QED
            BY <1>1, <3>1, TouchedType
    <2>2. refs' \in [Blocks -> Int]
        <3>1. \A b : Occurrences(b, bs) \in Nat
            BY <1>2, OccurrencesType
        <3>2. refs \in [Blocks -> Int]
            BY DEF CInv, Typed
        <3> QED
            BY <1>1, <3>1, <3>2 DEF SharedAll
    <2>3. cached_blocks' \in [Ids -> Nat]
        BY <1>1, <1>2 DEF CInv, Typed
    <2> QED
        BY <1>1, <1>6, <1>7, <2>1, <2>2, <2>3 DEF CInv, Typed, Entries, planVars
<1>9. Lists' /\ Budgeted'
    <2>1. Batch' = Batch
        BY <1>1 DEF Batch, planVars
    <2> QED
        BY <1>1, <1>6, <1>7, <2>1 DEF CInv, Lists, Budgeted, planVars
<1>10. Stages'
    <2> SUFFICES ASSUME NEW x \in Run PROVE StageOf(x)'
        BY <1>6 DEF Stages
    <2>1. UNCHANGED <<pc, prefill_ids>> /\ x \in Ids
        BY <1>1, Types DEF planVars, CInv, Run
    <2>2. CASE x = id
        BY <1>1, <1>2, <1>5, <1>6, <1>7, <2>1, <2>2 DEF StageOf
    <2>3. CASE x # id
        <3>1. seq'[x] = seq[x] /\ (x \in Range(todo') <=> x \in Range(todo))
            BY <1>6, <1>7, <2>1, <2>3
        <3> QED
            BY <1>1, <2>1, <3>1 DEF CInv, Stages, StageOf
    <2> QED
        BY <2>2, <2>3
<1> QED
    BY <1>6, <1>8, <1>9, <1>10 DEF CInv

\* What one run of the append loop does.
Appends(id, n, b, bs) ==
    LET s == seq[id]
        t == s.num_tokens
    IN  /\ n \in 1 .. BlockSize - (t % BlockSize) /\ t + n <= Len(s.all_tokens)
        /\ seq' = [seq EXCEPT ![id] = [s EXCEPT !.block_ids = bs, !.num_tokens = t + n]]
        /\ \/ /\ t % BlockSize = 0 /\ b \in FreeBlocks(refs) /\ refs' = Allocated(refs, b)
              /\ bs = Append(s.block_ids, b)
           \/ /\ t % BlockSize # 0 /\ refs' = refs /\ bs = s.block_ids /\ b = bs[Len(bs)]
              /\ bs # <<>>
        /\ content' = IF InPrefill(id)
                      THEN [content EXCEPT ![b] = SubSeq(s.all_tokens, 1, t + n)] ELSE content

\* One append of the forward, by its case: the rest of the last block, or a fresh one.
LEMMA AppendFacts ==
    ASSUME CInv, ForwardAppend
    PROVE  /\ Head(todo) \in Run /\ Head(todo) \in Ids /\ seq[Head(todo)] \in SequenceStates
           /\ seq[Head(todo)].status = "Running" /\ Tabled(seq[Head(todo)])
           /\ \E n \in Nat, b \in Blocks, bs \in Seq(Blocks) : Appends(Head(todo), n, b, bs)
<1> DEFINE id == Head(todo)
           s == seq[id]
           t == s.num_tokens
<1>1. pc = "forward" /\ todo # <<>> /\ t < Len(s.all_tokens)
    BY DEF ForwardAppend
<1>2. id \in Run /\ id \in Ids
    <2>1. id \in Range(todo) /\ id \in Ids
        BY <1>1, TodoTail
    <2> QED
        BY <1>1, <2>1 DEF CInv, Lists
<1>3. s.status = "Running" /\ Tabled(s) /\ s \in SequenceStates /\ seq \in [Ids -> SequenceStates]
    BY <1>1, <1>2, Types DEF CInv, Stages, StageOf
<1>4. /\ t \in Nat /\ Len(s.all_tokens) \in Nat /\ s.block_ids \in Seq(Blocks) /\ BlockSize \in Nat
      /\ BlockSize >= 1 /\ t % BlockSize \in Nat /\ t % BlockSize < BlockSize /\ t \div BlockSize \in Nat
    BY <1>3, StateTypes, Constants, DivMod
<1>5. ASSUME NEW n \in RunLengths(s)
      PROVE  n \in Nat /\ n \in 1 .. BlockSize - (t % BlockSize) /\ t + n <= Len(s.all_tokens)
    <2> DEFINE x == BlockSize - (t % BlockSize)
               l == Len(s.all_tokens)
    <2>1. x \in Nat /\ l \in Nat /\ t \in Nat /\ t < l /\ n \in 1 .. Minimum(x, l - t)
        BY <1>1, <1>4 DEF RunLengths
    <2> HIDE DEF x, l, t
    <2>2. n \in Nat /\ n \in 1 .. x /\ t + n <= l
        BY <2>1 DEF Minimum
    <2> QED
        BY <2>2 DEF x, l, t
<1>6. DOMAIN s = Fields
    BY <1>3, StateDomain
<1>7. CASE NeedsBlock(s)
    <2>1. t % BlockSize = 0
        BY <1>7 DEF NeedsBlock
    <2>2. PICK b \in FreeBlocks(refs) :
              /\ refs' = Allocated(refs, b)
              /\ AppendRun(id, b, [s EXCEPT !.block_ids = Append(@, b)])
        BY <1>7 DEF ForwardAppend
    <2> DEFINE bs == Append(s.block_ids, b)
               u == [s EXCEPT !.block_ids = Append(@, b)]
    <2>3. b \in Blocks /\ bs \in Seq(Blocks)
        BY <1>4, <2>2, FreeFacts
    <2>4. /\ u.num_tokens = t /\ u.all_tokens = s.all_tokens /\ u.block_ids = bs
        BY <1>6 DEF Fields
    <2>5. RunLengths(u) = RunLengths(s)
        BY <2>4 DEF RunLengths
    <2>6. PICK n \in RunLengths(s) :
              /\ seq' = [seq EXCEPT ![id] = [u EXCEPT !.num_tokens = @ + n]]
              /\ content' = IF InPrefill(id)
                            THEN [content EXCEPT ![b] = SubSeq(u.all_tokens, 1, u.num_tokens + n)]
                            ELSE content
        BY <2>2, <2>5 DEF AppendRun
    <2>7. [u EXCEPT !.num_tokens = @ + n] = [s EXCEPT !.block_ids = bs, !.num_tokens = t + n]
        BY <1>6 DEF Fields
    <2>8. Appends(id, n, b, bs)
        BY <1>5, <2>1, <2>2, <2>4, <2>6, <2>7 DEF Appends
    <2> QED
        BY <1>2, <1>3, <1>5, <2>3, <2>8
<1>8. CASE ~NeedsBlock(s)
    <2> DEFINE bs == s.block_ids
               b == bs[Len(bs)]
    <2>1. t % BlockSize # 0
        BY <1>1, <1>8 DEF NeedsBlock
    <2>2. AppendRun(id, b, s) /\ UNCHANGED refs
        BY <1>8 DEF ForwardAppend
    <2>3. Len(bs) = (t \div BlockSize) + 1
        BY <1>3, <1>4, <2>1, CeilDivMod DEF Tabled
    <2>4. b \in Blocks /\ bs \in Seq(Blocks) /\ bs # <<>>
        BY <1>4, <2>3
    <2>5. PICK n \in RunLengths(s) :
              /\ seq' = [seq EXCEPT ![id] = [s EXCEPT !.num_tokens = @ + n]]
              /\ content' = IF InPrefill(id)
                            THEN [content EXCEPT ![b] = SubSeq(s.all_tokens, 1, s.num_tokens + n)]
                            ELSE content
        BY <2>2 DEF AppendRun
    <2>6. [s EXCEPT !.num_tokens = @ + n] = [s EXCEPT !.block_ids = bs, !.num_tokens = t + n]
        BY <1>3 DEF SequenceStates
    <2>7. Appends(id, n, b, bs)
        BY <1>5, <2>1, <2>2, <2>4, <2>5, <2>6 DEF Appends
    <2> QED
        BY <1>2, <1>3, <1>5, <2>4, <2>7
<1> QED
    BY <1>7, <1>8

\* The table after it.
LEMMA AppendTable ==
    ASSUME NEW id, seq[id] \in SequenceStates, Tabled(seq[id]),
           NEW n \in Nat, NEW b \in Blocks, NEW bs \in Seq(Blocks), Appends(id, n, b, bs)
    PROVE  Len(bs) = DivCeil(seq[id].num_tokens + n, BlockSize) /\ seq[id].num_tokens + n \in Nat
           /\ bs[Len(bs)] = b /\ Len(bs) = (seq[id].num_tokens \div BlockSize) + 1
<1> DEFINE s == seq[id]
           t == s.num_tokens
<1>1. /\ t \in Nat /\ s.block_ids \in Seq(Blocks) /\ BlockSize \in Nat
      /\ BlockSize >= 1 /\ t % BlockSize \in Nat /\ t \div BlockSize \in Nat
    BY StateTypes, Constants, DivMod
<1>2. n \in 1 .. BlockSize - (t % BlockSize)
    BY DEF Appends
<1>3. DivCeil(t + n, BlockSize) = (t \div BlockSize) + 1
    BY <1>1, <1>2, RunInBlock
<1>4. Len(s.block_ids) = IF t % BlockSize = 0 THEN t \div BlockSize ELSE (t \div BlockSize) + 1
    BY <1>1, CeilDivMod DEF Tabled
<1>5. Len(bs) = (t \div BlockSize) + 1 /\ bs[Len(bs)] = b
    <2>1. CASE t % BlockSize = 0
        <3>1. bs = Append(s.block_ids, b)
            BY <2>1 DEF Appends
        <3> QED
            BY <1>1, <1>4, <2>1, <3>1
    <2>2. CASE t % BlockSize # 0
        BY <1>4, <2>2 DEF Appends
    <2> QED
        BY <2>1, <2>2
<1> QED
    BY <1>1, <1>3, <1>5

\* An append keeps the table as long as its tokens need.
LEMMA ForwardAppendStep ==
    ASSUME CInv, ForwardAppend
    PROVE  CInv'
<1> DEFINE id == Head(todo)
<1>1. /\ pc = "forward" /\ todo # <<>>
      /\ UNCHANGED <<waiting, running, running_index, cache, pc, todo, cached_blocks,
                     new_tokens, output, outcome, consecutive_errors, faults>>
      /\ UNCHANGED planVars
    BY DEF ForwardAppend
<1>2. /\ id \in Run /\ id \in Ids /\ seq[id] \in SequenceStates
      /\ seq[id].status = "Running" /\ Tabled(seq[id])
    BY AppendFacts
<1>3. PICK n \in Nat, b \in Blocks, bs \in Seq(Blocks) : Appends(id, n, b, bs)
    BY AppendFacts
<1>4. id \in Range(todo)
    BY <1>1, TodoTail
<1> DEFINE m == seq[id].num_tokens + n
           s == [seq[id] EXCEPT !.block_ids = bs, !.num_tokens = m]
<1> HIDE DEF id
<1>5. /\ seq' = [seq EXCEPT ![id] = s] /\ m <= Len(seq[id].all_tokens)
      /\ refs' = refs \/ refs' = Allocated(refs, b)
      /\ content' = IF InPrefill(id)
                    THEN [content EXCEPT ![b] = SubSeq(seq[id].all_tokens, 1, m)] ELSE content
    BY <1>3 DEF Appends
<1>6. Len(bs) = DivCeil(m, BlockSize) /\ m \in Nat
    BY <1>2, <1>3, AppendTable
<1> HIDE DEF m
<1> DEFINE old == seq[id]
<1>7. s = Grown(old, bs, m) /\ old \in SequenceStates
    BY <1>2 DEF Grown
<1> HIDE DEF s, old
<1>8. s \in SequenceStates /\ s.all_tokens = seq[id].all_tokens
    <2>1. s \in SequenceStates /\ s.all_tokens = old.all_tokens
        BY <1>3, <1>6, <1>7, GrownState
    <2> QED
        BY <2>1 DEF old
<1>9. s.status = seq[id].status /\ s.block_ids = bs /\ s.num_tokens = m
    <2>1. s.status = old.status /\ s.block_ids = bs /\ s.num_tokens = m
        BY <1>3, <1>6, <1>7, GrownState
    <2> QED
        BY <2>1 DEF old
<1>10. s.all_tokens # <<>>
    BY <1>2, <1>8 DEF CInv, Status, StatusOf
<1> HIDE DEF s
<1>11. /\ Queues' /\ Status' /\ Arrivals' /\ Run' = Run /\ seq' \in [Ids -> SequenceStates]
       /\ seq'[id] = s /\ \A x \in Ids : x # id => seq'[x] = seq[x]
    BY <1>1, <1>2, <1>5, <1>8, <1>9, <1>10, OneChanged
<1>12. Typed'
    <2>1. refs' \in [Blocks -> Int]
        BY <1>5 DEF CInv, Typed, Allocated
    <2>2. SubSeq(seq[id].all_tokens, 1, m) \in Seq(Nat)
        <3> DEFINE a == seq[id].all_tokens
        <3>1. a \in Seq(Nat) /\ m <= Len(a)
            BY <1>2, <1>5, StateTypes
        <3> HIDE DEF a
        <3>2. SubSeq(a, 1, m) \in Seq(Nat)
            BY <1>6, <3>1
        <3> QED
            BY <3>2 DEF a
    <2>3. content' \in [Blocks -> Seq(Nat)]
        BY <1>5, <2>2 DEF CInv, Typed
    <2> QED
        BY <1>1, <1>11, <2>1, <2>3 DEF CInv, Typed, planVars
<1>13. Lists' /\ Budgeted'
    <2>1. Batch' = Batch
        BY <1>1 DEF Batch, planVars
    <2> QED
        BY <1>1, <1>11, <2>1 DEF CInv, Lists, Budgeted, planVars
<1>14. Stages'
    <2> SUFFICES ASSUME NEW x \in Run PROVE StageOf(x)'
        BY <1>11 DEF Stages
    <2>1. x \in Ids
        BY Types DEF CInv, Run
    <2>2. CASE x = id
        <3>1. Tabled(s) /\ s.num_tokens <= Len(s.all_tokens) /\ s.status = "Running"
            BY <1>2, <1>5, <1>6, <1>8, <1>9 DEF Tabled
        <3> QED
            BY <1>1, <1>4, <1>11, <2>2, <3>1 DEF StageOf
    <2>3. CASE x # id
        <3>1. seq'[x] = seq[x]
            BY <1>11, <2>1, <2>3
        <3> QED
            BY <1>1, <3>1 DEF CInv, Stages, StageOf
    <2> QED
        BY <2>2, <2>3
<1> QED
    BY <1>11, <1>12, <1>13, <1>14 DEF CInv

\* The token, the cap and the stop.
LEMMA SampleTokenStep ==
    ASSUME CInv, SampleToken
    PROVE  CInv'
<1>1. PICK id : id = Head(todo)
    OBVIOUS
<1>2. PICK tok \in Tokens, isStop \in BOOLEAN :
          /\ seq' = [seq EXCEPT ![id] = Advanced(@, tok, isStop)]
          /\ new_tokens' = IF isStop THEN new_tokens ELSE Append(new_tokens, <<id, tok>>)
    BY <1>1 DEF SampleToken
<1>3. /\ pc = "sample" /\ todo # <<>>
      /\ IF InPrefill(id) THEN pc' = "register" /\ UNCHANGED todo
         ELSE UNCHANGED pc /\ todo' = Tail(todo)
      /\ UNCHANGED <<refs, waiting, running, running_index, cache, content, cached_blocks,
                     output, outcome, consecutive_errors, faults>>
      /\ UNCHANGED planVars
    BY <1>1 DEF SampleToken
<1>4. /\ id \in Range(todo) /\ id \in Ids
      /\ Tail(todo) \in Seq(Ids) /\ Distinct(Tail(todo)) /\ Range(Tail(todo)) = Range(todo) \ {id}
    BY <1>3, <1>1, TodoTail
<1>5. id \in Run /\ seq[id] \in SequenceStates /\ seq \in [Ids -> SequenceStates]
      /\ Computed(seq[id])
    <2>1. id \in Run
        BY <1>3, <1>4 DEF CInv, Lists
    <2>2. ToSample(id)
        BY <1>3, <1>4 DEF ToSample
    <2> QED
        BY <1>3, <1>4, <2>1, <2>2, Types DEF CInv, Stages, StageOf
<1> DEFINE old == seq[id]
           s == Advanced(old, tok, isStop)
<1>6. seq' = [seq EXCEPT ![id] = s] /\ old \in SequenceStates /\ tok \in Nat
    BY <1>2, <1>4, <1>5, Constants
<1>7. /\ Len(old.all_tokens) \in Nat /\ old.num_generated \in Nat /\ old.num_tokens \in Nat
      /\ old.all_tokens \in Seq(Nat)
    BY <1>6, StateTypes
<1>8. old.status = "Running" /\ old.num_tokens = Len(old.all_tokens) /\ Tabled(old)
    BY <1>5 DEF Computed
<1> HIDE DEF old, s
<1>9. /\ s \in SequenceStates /\ s.all_tokens = Append(old.all_tokens, tok)
      /\ s.num_generated = IF isStop THEN old.num_generated ELSE old.num_generated + 1
    BY <1>6, AdvancedState DEF s
<1>10. s.status = IF isStop \/ old.num_generated + 1 >= old.max_tokens THEN "Finished" ELSE old.status
    BY <1>6, AdvancedState DEF s
<1>11. s.phase = "Decode" /\ s.block_ids = old.block_ids /\ s.num_tokens = old.num_tokens
       /\ s.num_processed_tokens = Len(old.all_tokens)
    BY <1>6, AdvancedState DEF s
<1>12. s.finish_reason = IF isStop THEN "stop"
                         ELSE IF old.num_generated + 1 >= old.max_tokens THEN "length"
                         ELSE old.finish_reason
    BY <1>6, AdvancedState DEF s
<1>13. s.status \in {"Running", "Finished"} /\ (s.status = "Finished" => s.finish_reason \in {"stop", "length"})
    BY <1>8, <1>10, <1>12
<1>14. Len(s.all_tokens) = Len(old.all_tokens) + 1 /\ s.all_tokens # <<>>
    BY <1>6, <1>7, <1>9
<1>15. Sampled(s)
    <2>1. Tabled(s)
        BY <1>8, <1>11 DEF Tabled
    <2>2. s.status = "Running" => s.num_generated >= 1
        BY <1>7, <1>9, <1>10
    <2>3. Len(old.all_tokens) >= 1
        <3>1. old.all_tokens # <<>>
            BY <1>4, <1>8 DEF CInv, Status, StatusOf, old
        <3> QED
            BY <1>7, <3>1
    <2> QED
        BY <1>7, <1>8, <1>11, <1>14, <2>1, <2>2, <2>3 DEF Sampled
<1>16. /\ Queues' /\ Status' /\ Arrivals' /\ Run' = Run /\ seq' \in [Ids -> SequenceStates]
       /\ seq'[id] = s /\ \A x \in Ids : x # id => seq'[x] = seq[x]
    <2>1. pc' \in {"sample", "register"}
        BY <1>3
    <2> QED
        BY <1>3, <1>5, <1>6, <1>9, <1>13, <1>14, <2>1, OneChanged
<1>17. Typed'
    <2>1. <<id, tok>> \in Ids \X Tokens
        BY <1>4
    <2>2. new_tokens \in Seq(Ids \X Tokens)
        BY DEF CInv, Typed
    <2> DEFINE pair == <<id, tok>>
    <2> HIDE DEF pair
    <2>3. Append(new_tokens, pair) \in Seq(Ids \X Tokens)
        BY <2>1, <2>2 DEF pair
    <2>4. new_tokens' \in Seq(Ids \X Tokens)
        BY <1>2, <2>2, <2>3 DEF pair
    <2>5. todo' \in Seq(Ids) /\ pc' \in {"sample", "register"}
        BY <1>3, <1>4, Types DEF CInv
    <2> QED
        BY <1>3, <1>16, <2>4, <2>5 DEF CInv, Typed, planVars
<1>18. Lists' /\ Budgeted'
    <2>1. Batch' = Batch /\ Run = Batch /\ Range(todo) \subseteq Batch
        BY <1>3 DEF Batch, planVars, CInv, Lists
    <2>2. CASE InPrefill(id)
        <3>1. pc' = "register" /\ todo' = todo /\ id \in Range(prefill_ids)
            BY <1>3, <2>2 DEF InPrefill
        <3> QED
            BY <1>3, <1>16, <1>1, <2>1, <3>1 DEF CInv, Lists, Budgeted, planVars
    <2>3. CASE ~InPrefill(id)
        <3>1. pc' = "sample" /\ todo' = Tail(todo)
            BY <1>3, <2>3
        <3> QED
            BY <1>3, <1>4, <1>16, <2>1, <3>1 DEF CInv, Lists, Budgeted, planVars
    <2> QED
        BY <2>2, <2>3
<1>19. Stages'
    <2> SUFFICES ASSUME NEW x \in Run PROVE StageOf(x)'
        BY <1>16 DEF Stages
    <2>1. x \in Ids /\ pc' \in {"sample", "register"}
        BY <1>3, Types DEF CInv, Run
    <2>2. CASE x = id
        <3>1. ~ToSample(id)'
            BY <1>3, <1>4, <1>1 DEF ToSample
        <3> QED
            BY <1>15, <1>16, <2>1, <2>2, <3>1 DEF StageOf
    <2>3. CASE x # id
        <3>1. ToSample(x)' <=> ToSample(x)
            BY <1>3, <1>4, <1>1, <2>3 DEF ToSample
        <3>2. seq'[x] = seq[x]
            BY <1>16, <2>1, <2>3
        <3>3. IF ToSample(x) THEN Computed(seq[x]) ELSE Sampled(seq[x])
            BY <1>3 DEF CInv, Stages, StageOf
        <3> QED
            BY <2>1, <3>1, <3>2, <3>3 DEF StageOf
    <2> QED
        BY <2>2, <2>3
<1> QED
    BY <1>16, <1>17, <1>18, <1>19 DEF CInv

-----------------------------------------------------------------------------
(* Steps that move one sequence between the queues.                        *)

\* The queues, in the form of the lemmas about the index.
LEMMA QueuesIndexed ==
    /\ Queues <=> Indexed(running, running_index) /\ Distinct(waiting) /\ Run \cap Wait = {}
    /\ Queues' <=> Indexed(running', running_index') /\ Distinct(waiting') /\ Run' \cap Wait' = {}
    BY DEF Queues, Indexed, Run, Wait

\* The others keep their status.
LEMMA StatusElsewhere ==
    ASSUME CInv, NEW id \in Ids,
           pc' = pc \/ pc \in {"idle", "boundary", "admit", "evict", "plan", "forward"},
           \A x \in Ids : x # id => /\ seq'[x] = seq[x] /\ outcome'[x] = outcome[x]
                                    /\ x \in Run' <=> x \in Run
                                    /\ x \in Wait' <=> x \in Wait,
           StatusOf(id)', FinishedOf(id)'
    PROVE  Status'
<1> SUFFICES ASSUME NEW x \in Ids, x # id PROVE StatusOf(x)' /\ FinishedOf(x)'
    BY DEF Status
<1>1. StatusOf(x)'
    BY DEF CInv, Status, StatusOf
<1>2. FinishedOf(x)'
    <2>1. CASE pc' = pc
        BY <2>1 DEF CInv, Status, FinishedOf
    <2>2. CASE pc \in {"idle", "boundary", "admit", "evict", "plan", "forward"}
        BY <2>2, NobodyFinished DEF FinishedOf
    <2> QED
        BY <2>1, <2>2
<1> QED
    BY <1>1, <1>2

\* A sequence that already ran goes back to the front.
LEMMA PreemptStep ==
    ASSUME CInv, Preempt, UNCHANGED engineVars
    PROVE  CInv'
<1>1. PICK id : id = Head(todo)
    OBVIOUS
<1> DEFINE old == seq[id]
           s == Preempted(old)
<1>2. /\ pc = "boundary" /\ todo # <<>> /\ todo' = Tail(todo) /\ remove_from_running(id)
      /\ refs' = FreedAll(refs, old.block_ids) /\ waiting' = <<id>> \o waiting
      /\ UNCHANGED <<cache, pc>> /\ UNCHANGED planVars /\ UNCHANGED engineVars
    BY <1>1 DEF Preempt, Requeued
<1>3. /\ id \in Range(todo) /\ id \in Ids /\ Len(todo') = Len(todo) - 1
      /\ todo' \in Seq(Ids) /\ Distinct(todo') /\ Range(todo') = Range(todo) \ {id}
    BY <1>2, <1>1, TodoTail
<1>4. /\ running \in Seq(Ids) /\ waiting \in Seq(Ids) /\ seq \in [Ids -> SequenceStates]
      /\ Run \subseteq Ids /\ Wait \subseteq Ids
    BY Types DEF CInv, Run, Wait
<1>5. /\ prefill_ids = <<>> /\ Run = Range(decode_ids) \cup Range(todo)
      /\ Range(todo) \cap Range(decode_ids) = {}
      /\ \A x \in Range(todo) : decode_needs_new_block(seq[x])
    BY <1>2 DEF CInv, Lists
<1>6. id \in Run /\ id \notin Range(decode_ids)
    BY <1>3, <1>5
<1>7. seq' = [seq EXCEPT ![id] = s] /\ old \in SequenceStates
    BY <1>3, <1>4, <1>1 DEF Preempt
<1> HIDE DEF old, s
<1>8. /\ s \in SequenceStates /\ s.all_tokens = old.all_tokens /\ s.num_generated = old.num_generated
    BY <1>7, PreemptedState DEF s
<1>9. s.status = "Waiting" /\ s.block_ids = <<>> /\ s.num_tokens = 0 /\ s.num_processed_tokens = 0
    BY <1>7, PreemptedState DEF s
<1>10. /\ seq' \in [Ids -> SequenceStates] /\ seq'[id] = s
      /\ \A x \in Ids : x # id => seq'[x] = seq[x]
    BY <1>3, <1>4, <1>7, <1>8
<1>11. Sampled(old) /\ old.status = "Running" /\ old.num_generated >= 1
    <2>1. id \notin Range(prefill_ids)
        BY <1>5 DEF Range
    <2> QED
        BY <1>2, <1>6, <2>1 DEF CInv, Stages, StageOf, Sampled, old
<1>12. Indexed(running, running_index) /\ Distinct(waiting) /\ Run \cap Wait = {}
    BY QueuesIndexed DEF CInv
<1>13. /\ running' \in Seq(Ids) /\ Indexed(running', running_index')
       /\ Run' = Run \ {id} /\ Len(running') = Len(running) - 1
    BY <1>2, <1>4, <1>6, <1>12, RemoveFromRunning DEF Run
<1>14. /\ waiting' \in Seq(Ids) /\ Wait' = Wait \cup {id} /\ Distinct(waiting')
    <2>1. <<id>> \in Seq(Ids) /\ Range(<<id>>) = {id} /\ Distinct(<<id>>)
        BY <1>3 DEF Range, Distinct
    <2>2. Range(<<id>>) \cap Range(waiting) = {}
        BY <1>6, <1>12, <2>1 DEF Wait
    <2> DEFINE one == <<id>>
    <2> HIDE DEF one
    <2>3. one \in Seq(Ids) /\ Range(one) = {id}
        BY <2>1 DEF one
    <2>4. one \o waiting \in Seq(Ids) /\ Range(one \o waiting) = Range(one) \cup Range(waiting)
        BY <1>4, <2>3, RangeConcat
    <2>5. one \o waiting \in Seq(Ids) /\ Range(one \o waiting) = {id} \cup Range(waiting)
        BY <2>3, <2>4
    <2>6. Distinct(one \o waiting)
        BY <1>4, <1>12, <2>1, <2>2, DistinctConcat DEF one
    <2> QED
        BY <1>2, <2>5, <2>6 DEF Wait, one
<1>15. Queues'
    <2>1. Run' \cap Wait' = {}
        BY <1>12, <1>13, <1>14
    <2> QED
        BY <1>13, <1>14, <2>1, QueuesIndexed
<1>16. Status'
    <2>1. outcome' = outcome
        BY <1>2 DEF engineVars
    <2>2. outcome[id] = "pending" /\ old.all_tokens # <<>>
        BY <1>3, <1>11 DEF CInv, Status, StatusOf, old
    <2>3. StatusOf(id)'
        BY <1>8, <1>9, <1>10, <1>13, <1>14, <2>1, <2>2 DEF StatusOf
    <2>4. FinishedOf(id)'
        BY <1>9, <1>10 DEF FinishedOf
    <2>5. \A x \in Ids : x # id => (x \in Run' <=> x \in Run) /\ (x \in Wait' <=> x \in Wait)
        BY <1>13, <1>14
    <2>6. pc' = pc
        BY <1>2
    <2> QED
        BY <1>3, <1>10, <2>1, <2>3, <2>4, <2>5, <2>6, StatusElsewhere
<1>17. Arrivals'
    <2>1. ArrivalOrder'
        <3> SUFFICES ASSUME NEW i \in DOMAIN waiting', NEW j \in DOMAIN waiting', i < j,
                            seq'[waiting'[i]].num_generated = 0
                     PROVE  seq'[waiting'[j]].num_generated = 0 /\ waiting'[i] < waiting'[j]
            BY DEF ArrivalOrder
        <3>1. /\ Len(waiting') = Len(waiting) + 1 /\ DOMAIN waiting' = 1 .. Len(waiting) + 1
              /\ Len(waiting) \in Nat /\ DOMAIN waiting = 1 .. Len(waiting) /\ waiting'[1] = id
              /\ \A k \in 1 .. Len(waiting) : waiting'[k + 1] = waiting[k]
            BY <1>2, <1>3, <1>4
        <3>2. i # 1
            BY <1>8, <1>10, <1>11, <3>1
        <3>3. i - 1 \in DOMAIN waiting /\ j - 1 \in DOMAIN waiting /\ i - 1 < j - 1
            BY <3>1, <3>2
        <3>4. waiting'[i] = waiting[i - 1] /\ waiting'[j] = waiting[j - 1]
            BY <3>1, <3>3
        <3>5. \A k \in DOMAIN waiting : waiting[k] \in Ids /\ waiting[k] # id
            BY <1>4, <1>6, <1>12, RangeMember DEF Wait
        <3>6. \A k \in DOMAIN waiting : seq'[waiting[k]] = seq[waiting[k]]
            BY <1>10, <3>5
        <3> QED
            BY <3>3, <3>4, <3>6 DEF CInv, Arrivals, ArrivalOrder
    <2> QED
        BY <1>2, <2>1 DEF CInv, Arrivals, engineVars
<1>18. Typed'
    <2>1. refs' \in [Blocks -> Int]
        <3>1. \A b : Occurrences(b, old.block_ids) \in Nat
            BY <1>7, StateTypes, OccurrencesType
        <3>2. refs \in [Blocks -> Int]
            BY DEF CInv, Typed
        <3> QED
            BY <1>2, <3>1, <3>2 DEF FreedAll
    <2>2. running_index' \in [Range(running') -> Nat]
        BY <1>2, <1>4, <1>6, <1>12, RemoveFromRunning DEF Run
    <2> QED
        BY <1>2, <1>3, <1>10, <1>13, <1>14, <2>1, <2>2 DEF CInv, Typed, planVars, engineVars
<1>19. Lists'
    <2>1. Run' = Range(decode_ids) \cup Range(todo') /\ Range(todo') \cap Range(decode_ids) = {}
        BY <1>3, <1>5, <1>6, <1>13
    <2>2. \A x \in Range(todo') : decode_needs_new_block(seq'[x])
        <3>1. \A x \in Range(todo') : x \in Ids /\ x # id /\ x \in Range(todo)
            BY <1>3, Types DEF CInv
        <3> QED
            BY <1>5, <1>10, <3>1
    <2>3. UNCHANGED <<pc, decode_ids, prefill_ids>>
        BY <1>2 DEF planVars
    <2>4. Distinct(decode_ids) /\ Distinct(prefill_ids) /\ Range(decode_ids) \cap Range(prefill_ids) = {}
        BY DEF CInv, Lists
    <2> QED
        BY <1>2, <1>3, <1>5, <2>1, <2>2, <2>3, <2>4 DEF Lists
<1>20. Budgeted'
    <2>1. Len(running) \in Nat /\ Len(todo) \in Nat /\ budget \in Nat
        BY Types DEF CInv
    <2>2. Len(running) <= max_tokens_per_step /\ Len(todo) <= budget
          /\ Len(running) + budget <= max_tokens_per_step + Len(todo)
        BY <1>2 DEF CInv, Budgeted
    <2>3. UNCHANGED <<pc, budget>>
        BY <1>2 DEF planVars
    <2> QED
        BY <1>2, <1>3, <1>13, <2>1, <2>2, <2>3, Constants DEF Budgeted
<1>21. Stages'
    <2> SUFFICES ASSUME NEW x \in Run' PROVE StageOf(x)'
        BY DEF Stages
    <2>1. x \in Run /\ x # id /\ x \in Ids
        BY <1>4, <1>13
    <2>2. seq'[x] = seq[x] /\ pc' = pc /\ prefill_ids' = prefill_ids
        BY <1>2, <1>10, <2>1 DEF planVars
    <2> QED
        BY <1>2, <2>1, <2>2 DEF CInv, Stages, StageOf
<1> QED
    BY <1>15, <1>16, <1>17, <1>18, <1>19, <1>20, <1>21 DEF CInv

\* What a prompt needs is a number of blocks.
LEMMA PromptNeedsType ==
    ASSUME NEW s, s.all_tokens \in Seq(Nat)
    PROVE  blocks_needed_for_prefill(s, cache) \in Nat
<1> DEFINE tokens == s.all_tokens
           l == Len(tokens)
           m == SaturatingSub(l, 1)
           c == CountCachedBlocks(cache, tokens)
<1>1. l \in Nat /\ BlockSize \in Nat /\ BlockSize >= 1 /\ c \in Nat
    BY Constants, CountFacts
<1> HIDE DEF c, l
<1>2. m \in Nat
    BY <1>1 DEF SaturatingSub
<1> HIDE DEF m
<1>3. m \div BlockSize \in Nat /\ l \div BlockSize \in Nat
    BY <1>1, <1>2, DivMod
<1>4. DivCeil(l, BlockSize) \in Nat
    <2> DEFINE q == l \div BlockSize
    <2>1. DivCeil(l, BlockSize) \in {q, q + 1} /\ q \in Nat
        BY <1>1, <1>3, CeilDivMod
    <2> HIDE DEF q
    <2> QED
        BY <2>1
<1>5. blocks_needed_for_prefill(s, cache) = SaturatingSub(DivCeil(l, BlockSize), Minimum(c, m \div BlockSize))
    BY DEF blocks_needed_for_prefill, MaxCacheable, c, l, m
<1>6. Minimum(c, m \div BlockSize) \in Nat
    BY <1>1, <1>3 DEF Minimum
<1> QED
    BY <1>4, <1>5, <1>6 DEF SaturatingSub

\* So is what the front of the queue needs.
LEMMA HeadNeedsType ==
    ASSUME seq[Head(waiting)].all_tokens \in Seq(Nat)
    PROVE  HeadNeeds \in Nat
    BY PromptNeedsType DEF HeadNeeds

\* The front of the queue runs.
LEMMA AdmitPrefillStep ==
    ASSUME CInv, AdmitPrefill, UNCHANGED engineVars
    PROVE  CInv'
<1>1. PICK id : id = Head(waiting)
    OBVIOUS
<1> DEFINE old == seq[id]
           len == Len(old.all_tokens)
           s == [old EXCEPT !.status = "Running", !.phase = "Prefill"]
<1>2. /\ pc \in {"admit", "evict"} /\ waiting # <<>> /\ budget > 0 /\ waiting' = Tail(waiting)
      /\ push_to_running(id) /\ prefill_ids' = Append(prefill_ids, id)
      /\ budget' = SaturatingSub(budget, len) /\ free_blocks' = SaturatingSub(free_blocks, HeadNeeds)
      /\ pc' = "admit" /\ UNCHANGED <<refs, cache, todo, decode_ids, reserved>>
      /\ UNCHANGED engineVars /\ HeadNeeds <= free_blocks
    BY <1>1 DEF AdmitPrefill, CanAdmitMore, BudgetAfter, BlocksAfter
<1>3. /\ running \in Seq(Ids) /\ waiting \in Seq(Ids) /\ seq \in [Ids -> SequenceStates]
      /\ Run \subseteq Ids /\ Wait \subseteq Ids /\ prefill_ids \in Seq(Ids)
      /\ decode_ids \in Seq(Ids) /\ budget \in Nat /\ free_blocks \in Nat /\ reserved \in Nat
    BY Types DEF CInv, Run, Wait
<1>4. Indexed(running, running_index) /\ Distinct(waiting) /\ Run \cap Wait = {}
    BY QueuesIndexed DEF CInv
<1>5. /\ waiting' \in Seq(Ids) /\ Distinct(waiting') /\ id \in Wait /\ Wait' = Wait \ {id}
      /\ Len(waiting') = Len(waiting) - 1
    BY <1>1, <1>2, <1>3, <1>4, DistinctTail DEF Wait
<1>6. id \in Ids /\ id \notin Run
    BY <1>3, <1>4, <1>5
<1>7. seq' = [seq EXCEPT ![id] = s] /\ old \in SequenceStates
    <2>1. old \in SequenceStates /\ DOMAIN old = Fields /\ DOMAIN seq = Ids
        BY <1>3, <1>6, StateDomain
    <2>2. seq' = [seq EXCEPT ![id].status = "Running", ![id].phase = "Prefill"]
        BY <1>1 DEF AdmitPrefill
    <2> QED
        BY <1>6, <2>1, <2>2
<1>8. /\ old.status = "Waiting" /\ outcome[id] = "pending" /\ old.all_tokens # <<>>
      /\ old.num_processed_tokens = 0 /\ old.block_ids = <<>> /\ old.num_tokens = 0
    BY <1>5, <1>6 DEF CInv, Status, StatusOf
<1>9. len \in Nat /\ len >= 1
    <2>1. old.all_tokens \in Seq(Nat)
        BY <1>7, StateTypes
    <2> QED
        BY <1>8, <2>1
<1> HIDE DEF old, s
<1>10. s \in SequenceStates /\ s.all_tokens = old.all_tokens /\ s.status = "Running"
    BY <1>7, AdmittedState DEF s
<1>11. s.phase = "Prefill" /\ s.block_ids = old.block_ids /\ s.num_tokens = old.num_tokens
    BY <1>7, AdmittedState DEF s
<1>12. /\ seq' \in [Ids -> SequenceStates] /\ seq'[id] = s
       /\ \A x \in Ids : x # id => seq'[x] = seq[x]
    BY <1>3, <1>6, <1>7, <1>10
<1>13. /\ running' \in Seq(Ids) /\ Indexed(running', running_index')
       /\ Run' = Run \cup {id} /\ Len(running') = Len(running) + 1
       /\ running_index' \in [Range(running') -> Nat]
    BY <1>2, <1>3, <1>4, <1>6, PushToRunning DEF Run
<1>14. Queues'
    <2>1. Run' \cap Wait' = {}
        BY <1>4, <1>5, <1>13
    <2> QED
        BY <1>5, <1>13, <2>1, QueuesIndexed
<1>15. Status'
    <2>1. outcome' = outcome
        BY <1>2 DEF engineVars
    <2>2. StatusOf(id)'
        BY <1>5, <1>8, <1>10, <1>12, <1>13, <2>1 DEF StatusOf
    <2>3. FinishedOf(id)'
        BY <1>10, <1>12 DEF FinishedOf
    <2>4. \A x \in Ids : x # id => (x \in Run' <=> x \in Run) /\ (x \in Wait' <=> x \in Wait)
        BY <1>5, <1>13
    <2> QED
        BY <1>2, <1>6, <1>12, <2>1, <2>2, <2>3, <2>4, StatusElsewhere
<1>16. Arrivals'
    <2>1. ArrivalOrder'
        <3> SUFFICES ASSUME NEW i \in DOMAIN waiting', NEW j \in DOMAIN waiting', i < j,
                            seq'[waiting'[i]].num_generated = 0
                     PROVE  seq'[waiting'[j]].num_generated = 0 /\ waiting'[i] < waiting'[j]
            BY DEF ArrivalOrder
        <3>1. /\ DOMAIN waiting' = 1 .. Len(waiting) - 1
              /\ Len(waiting) \in Nat /\ DOMAIN waiting = 1 .. Len(waiting)
              /\ \A k \in 1 .. Len(waiting) - 1 : waiting'[k] = waiting[k + 1]
            BY <1>2, <1>3
        <3>2. i + 1 \in DOMAIN waiting /\ j + 1 \in DOMAIN waiting /\ i + 1 < j + 1
            BY <3>1
        <3>3. waiting'[i] = waiting[i + 1] /\ waiting'[j] = waiting[j + 1]
            BY <3>1
        <3>4. \A k \in DOMAIN waiting' : waiting'[k] \in Ids /\ waiting'[k] # id
            BY <1>5, RangeMember DEF Wait
        <3>5. seq'[waiting'[i]] = seq[waiting[i + 1]] /\ seq'[waiting'[j]] = seq[waiting[j + 1]]
            BY <1>12, <3>3, <3>4
        <3> QED
            BY <3>2, <3>3, <3>5 DEF CInv, Arrivals, ArrivalOrder
    <2> QED
        BY <1>2, <2>1 DEF CInv, Arrivals, engineVars
<1>17. todo = <<>> /\ Run = Batch /\ Len(running) + budget <= max_tokens_per_step
       /\ Len(running) \in Nat
    BY <1>2, <1>3 DEF CInv, Lists, Budgeted
<1>18. budget' \in Nat /\ Len(running) + 1 + budget' <= max_tokens_per_step
    <2> HIDE DEF len
    <2> QED
        BY <1>2, <1>3, <1>9, <1>17, Constants DEF SaturatingSub
<1>19. /\ prefill_ids' \in Seq(Ids) /\ Distinct(prefill_ids')
       /\ Range(prefill_ids') = Range(prefill_ids) \cup {id}
    <2>1. id \notin Range(prefill_ids) /\ Distinct(prefill_ids)
        BY <1>6, <1>17 DEF Batch, CInv, Lists
    <2> QED
        BY <1>2, <1>3, <1>6, <2>1, RangeAppend, DistinctAppend
<1>20. Typed'
    <2>1. free_blocks' \in Nat
        <3>1. HeadNeeds \in Nat
            <4>1. seq[Head(waiting)].all_tokens \in Seq(Nat)
                BY <1>1, <1>7, StateTypes DEF old
            <4> QED
                BY <4>1, HeadNeedsType
        <3> QED
            BY <1>2, <1>3, <3>1 DEF SaturatingSub
    <2>2. budget' \in 0 .. max_tokens_per_step
        BY <1>17, <1>18, Constants
    <2> QED
        BY <1>2, <1>5, <1>12, <1>13, <1>19, <2>1, <2>2 DEF CInv, Typed, engineVars
<1>21. Lists'
    <2>1. Run' = Batch'
        BY <1>2, <1>13, <1>17, <1>19 DEF Batch
    <2>2. Range(decode_ids') \cap Range(prefill_ids') = {} /\ Distinct(decode_ids') /\ Distinct(todo')
        BY <1>2, <1>6, <1>17, <1>19 DEF CInv, Lists, Batch
    <2> QED
        BY <1>2, <1>17, <1>19, <2>1, <2>2 DEF Lists
<1>22. Budgeted'
    BY <1>2, <1>13, <1>17, <1>18, Constants DEF Budgeted
<1>23. Stages'
    <2> SUFFICES ASSUME NEW x \in Run' PROVE StageOf(x)'
        BY DEF Stages
    <2>1. CASE x = id
        <3>1. s.block_ids = <<>> /\ s.num_tokens = 0 /\ Len(s.all_tokens) >= 1
            BY <1>8, <1>9, <1>10, <1>11
        <3>2. Len(s.block_ids) * BlockSize = 0
            BY <3>1, Constants
        <3>3. Planned(s)
            BY <1>9, <1>10, <1>11, <3>1, <3>2 DEF Planned
        <3> QED
            BY <1>2, <1>12, <1>19, <2>1, <3>1, <3>3 DEF StageOf
    <2>2. CASE x # id
        <3>1. x \in Run /\ x \in Ids /\ seq'[x] = seq[x]
            BY <1>3, <1>12, <1>13, <2>2
        <3>2. x \in Range(prefill_ids') <=> x \in Range(prefill_ids)
            BY <1>19, <2>2
        <3> QED
            BY <1>2, <3>1, <3>2 DEF CInv, Stages, StageOf
    <2> QED
        BY <2>1, <2>2
<1> QED
    BY <1>14, <1>15, <1>16, <1>20, <1>21, <1>22, <1>23 DEF CInv

\* remove_sequence for one that finished.
LEMMA RetireOneStep ==
    ASSUME CInv, RetireOne
    PROVE  CInv'
<1>1. PICK id : id = Head(todo)
    OBVIOUS
<1> DEFINE old == seq[id]
           s == Cleared(old)
<1>2. /\ pc = "retire" /\ todo # <<>> /\ todo' = Tail(todo) /\ remove_from_running(id)
      /\ refs' = FreedAll(refs, old.block_ids)
      /\ UNCHANGED <<waiting, cache, pc>> /\ UNCHANGED planVars /\ UNCHANGED engineVars
    BY <1>1 DEF RetireOne
<1>3. /\ id \in Range(todo) /\ id \in Ids
      /\ todo' \in Seq(Ids) /\ Distinct(todo') /\ Range(todo') = Range(todo) \ {id}
    BY <1>1, <1>2, TodoTail
<1>4. /\ running \in Seq(Ids) /\ waiting \in Seq(Ids) /\ seq \in [Ids -> SequenceStates]
      /\ Run \subseteq Ids /\ Wait \subseteq Ids
    BY Types DEF CInv, Run, Wait
<1>5. /\ Range(todo) = {x \in Run : seq[x].status = "Finished"} /\ id \in Run
      /\ old.status = "Finished"
    BY <1>2, <1>3 DEF CInv, Lists
<1>6. seq' = [seq EXCEPT ![id] = s] /\ old \in SequenceStates
    BY <1>1, <1>3, <1>4 DEF RetireOne
<1> HIDE DEF old, s
<1>7. s \in SequenceStates /\ s.all_tokens = old.all_tokens /\ s.status = old.status
    BY <1>6, ClearedState DEF s
<1>8. s.block_ids = <<>> /\ s.num_tokens = 0 /\ s.finish_reason = old.finish_reason
    BY <1>6, ClearedState DEF s
<1>9. /\ seq' \in [Ids -> SequenceStates] /\ seq'[id] = s
      /\ \A x \in Ids : x # id => seq'[x] = seq[x]
    BY <1>3, <1>4, <1>6, <1>7
<1>10. Indexed(running, running_index) /\ Distinct(waiting) /\ Run \cap Wait = {}
    BY QueuesIndexed DEF CInv
<1>11. /\ running' \in Seq(Ids) /\ Indexed(running', running_index')
       /\ Run' = Run \ {id} /\ Len(running') = Len(running) - 1
       /\ running_index' \in [Range(running') -> Nat]
    BY <1>2, <1>4, <1>5, <1>10, RemoveFromRunning DEF Run
<1>12. waiting' = waiting /\ Wait' = Wait /\ outcome' = outcome
    BY <1>2 DEF Wait, engineVars
<1>13. Queues'
    <2>1. Run' \cap Wait' = {} /\ Distinct(waiting')
        BY <1>10, <1>11, <1>12
    <2> QED
        BY <1>11, <2>1, QueuesIndexed
<1>14. Status'
    <2>1. /\ outcome[id] = "pending" /\ old.all_tokens # <<>> /\ id \notin Wait
          /\ old.finish_reason \in {"stop", "length"}
        BY <1>3, <1>5 DEF CInv, Status, StatusOf, FinishedOf, old
    <2>2. StatusOf(id)'
        BY <1>5, <1>7, <1>8, <1>9, <1>11, <1>12, <2>1 DEF StatusOf
    <2>3. FinishedOf(id)'
        BY <1>2, <1>8, <1>9, <2>1 DEF FinishedOf
    <2>4. \A x \in Ids : x # id => (x \in Run' <=> x \in Run) /\ (x \in Wait' <=> x \in Wait)
        BY <1>11, <1>12
    <2> QED
        BY <1>2, <1>3, <1>9, <1>12, <2>2, <2>3, <2>4, StatusElsewhere
<1>15. Arrivals'
    <2>1. \A k \in DOMAIN waiting : waiting[k] \in Ids /\ waiting[k] # id
        BY <1>4, <1>5, <1>10, RangeMember DEF Wait
    <2>2. \A k \in DOMAIN waiting : seq'[waiting[k]] = seq[waiting[k]]
        BY <1>9, <2>1
    <2>3. ArrivalOrder'
        BY <1>12, <2>2 DEF CInv, Arrivals, ArrivalOrder
    <2> QED
        BY <1>12, <2>3 DEF CInv, Arrivals
<1>16. Typed'
    <2>1. refs' \in [Blocks -> Int]
        <3>1. \A b : Occurrences(b, old.block_ids) \in Nat
            BY <1>6, StateTypes, OccurrencesType
        <3>2. refs \in [Blocks -> Int]
            BY DEF CInv, Typed
        <3> QED
            BY <1>2, <3>1, <3>2 DEF FreedAll
    <2> QED
        BY <1>2, <1>3, <1>9, <1>11, <2>1 DEF CInv, Typed, planVars, engineVars
<1>17. Lists'
    <2>1. \A x \in Run' : seq'[x] = seq[x]
        BY <1>4, <1>9, <1>11
    <2>2. Range(todo') = {x \in Run' : seq'[x].status = "Finished"}
        BY <1>3, <1>5, <1>11, <2>1
    <2> QED
        BY <1>2, <1>3, <2>2 DEF CInv, Lists, planVars
<1>18. Budgeted'
    <2>1. Len(running) \in Nat /\ Len(running) <= max_tokens_per_step
        BY <1>4 DEF CInv, Budgeted
    <2> QED
        BY <1>2, <1>11, <2>1, Constants DEF Budgeted
<1>19. Stages'
    <2> SUFFICES ASSUME NEW x \in Run' PROVE StageOf(x)'
        BY DEF Stages
    <2>1. x \in Run /\ seq'[x] = seq[x]
        BY <1>4, <1>9, <1>11
    <2>2. Sampled(seq[x])
        BY <1>2, <2>1 DEF CInv, Stages, StageOf
    <2> QED
        BY <1>2, <2>1, <2>2 DEF StageOf
<1> QED
    BY <1>13, <1>14, <1>15, <1>16, <1>17, <1>18, <1>19 DEF CInv

-----------------------------------------------------------------------------
(* The ends of a step, and what happens between two.                       *)

\* The step returns: all that finished are gone.
LEMMA StepReturnsStep ==
    ASSUME CInv, StepReturns
    PROVE  CInv'
<1>1. /\ pc = "retire" /\ todo = <<>> /\ pc' = "idle"
      /\ output' = [id \in Ids |-> output[id] \o
                       [k \in 1 .. Len(TokensFor(id)) |-> TokensFor(id)[k][2]]]
      /\ outcome' = [id \in Ids |-> IF seq[id].status = "Finished"
                                    THEN seq[id].finish_reason ELSE outcome[id]]
      /\ seq' = [id \in Ids |-> IF seq[id].status = "Finished" THEN Absent ELSE seq[id]]
      /\ new_tokens' = <<>> /\ cached_blocks' = [id \in Ids |-> 0]
      /\ decode_ids' = <<>> /\ prefill_ids' = <<>> /\ budget' = 0 /\ reserved' = 0
      /\ free_blocks' = 0 /\ consecutive_errors' = 0
      /\ UNCHANGED <<refs, waiting, running, running_index, cache, todo, content, faults>>
    BY DEF StepReturns
<1>2. /\ running \in Seq(Ids) /\ waiting \in Seq(Ids) /\ seq \in [Ids -> SequenceStates]
      /\ Run \subseteq Ids /\ Wait \subseteq Ids
    BY Types DEF CInv, Run, Wait
<1>3. Run' = Run /\ Wait' = Wait
    BY <1>1 DEF Run, Wait
<1>4. Range(<<>>) = {} /\ <<>> \in Seq(Ids) /\ <<>> \in Seq(Ids \X Tokens) /\ Distinct(<<>>)
    BY DEF Range, Distinct
<1>5. \A id \in Run : seq[id].status = "Running"
    <2>1. \A id \in Run : seq[id].status # "Finished"
        BY <1>1, <1>4 DEF CInv, Lists
    <2> QED
        BY <1>2, <2>1 DEF CInv, Status, StatusOf
<1>6. \A id \in Ids : seq[id].status = "Finished" =>
          seq'[id] = Absent /\ outcome'[id] \in {"stop", "length"}
    BY <1>1 DEF CInv, Status, FinishedOf
<1>7. \A id \in Ids : seq[id].status # "Finished" => seq'[id] = seq[id] /\ outcome'[id] = outcome[id]
    BY <1>1
<1>8. Queues'
    BY <1>1, <1>3 DEF CInv, Queues
<1>9. Status'
    <2> SUFFICES ASSUME NEW id \in Ids PROVE StatusOf(id)' /\ FinishedOf(id)'
        BY DEF Status
    <2>1. StatusOf(id)
        BY DEF CInv, Status
    <2>2. CASE seq[id].status = "Finished"
        <3>1. id \notin Run /\ id \notin Wait
            BY <1>5, <2>1, <2>2 DEF StatusOf
        <3> QED
            BY <1>3, <1>6, <2>2, <3>1, AbsentState DEF StatusOf, FinishedOf
    <2>3. CASE seq[id].status # "Finished"
        <3>1. seq'[id] = seq[id] /\ outcome'[id] = outcome[id]
            BY <1>7, <2>3
        <3>2. StatusOf(id)'
            BY <1>3, <2>1, <3>1 DEF StatusOf
        <3> QED
            BY <2>3, <3>1, <3>2 DEF FinishedOf
    <2> QED
        BY <2>2, <2>3
<1>10. Arrivals'
    <2>1. \A id \in Ids : outcome'[id] = "new" <=> outcome[id] = "new"
        <3>1. \A id \in Ids : seq[id].status = "Finished" => outcome[id] = "pending"
            BY DEF CInv, Status, StatusOf
        <3> QED
            BY <1>6, <1>7, <3>1
    <2>2. \A k \in DOMAIN waiting : waiting[k] \in Ids /\ waiting[k] \in Wait
        BY <1>2, RangeMember DEF Wait
    <2>3. \A id \in Wait : seq'[id] = seq[id]
        BY <1>2, <1>7 DEF CInv, Status, StatusOf
    <2>4. \A k \in DOMAIN waiting : seq'[waiting[k]] = seq[waiting[k]]
        BY <2>2, <2>3
    <2>5. ArrivalOrder'
        <3>1. waiting' = waiting
            BY <1>1
        <3> QED
            BY <2>4, <3>1 DEF CInv, Arrivals, ArrivalOrder
    <2> QED
        BY <2>1, <2>5 DEF CInv, Arrivals
<1>11. Typed'
    <2>1. output' \in [Ids -> Seq(Tokens)]
        <3> SUFFICES ASSUME NEW id \in Ids
                     PROVE  output[id] \o [k \in 1 .. Len(TokensFor(id)) |-> TokensFor(id)[k][2]]
                               \in Seq(Tokens)
            BY <1>1
        <3> DEFINE S == {id} \X Tokens
                   u == TokensFor(id)
                   v == [k \in 1 .. Len(u) |-> u[k][2]]
        <3>1. new_tokens \in Seq(Ids \X Tokens) /\ output[id] \in Seq(Tokens)
            BY DEF CInv, Typed
        <3>2. u = Pick(new_tokens, S)
            BY DEF TokensFor
        <3> HIDE DEF u, S
        <3>3. u \in Seq(Ids \X Tokens)
            BY <3>1, <3>2, PickFacts
        <3>4. Len(u) \in Nat /\ \A k \in 1 .. Len(u) : u[k] \in Ids \X Tokens
            BY <3>3
        <3>5. \A k \in 1 .. Len(u) : u[k][2] \in Tokens
            BY <3>4
        <3>6. v \in Seq(Tokens)
            BY <3>4, <3>5
        <3> HIDE DEF v
        <3>7. output[id] \o v \in Seq(Tokens)
            BY <3>1, <3>6
        <3> QED
            BY <3>7 DEF v, u
    <2>2. seq' \in [Ids -> SequenceStates]
        BY <1>1, <1>2, AbsentState
    <2>3. outcome' \in [Ids -> {"new", "pending", "stop", "length", "aborted", "error"}]
        <3>1. \A id \in Ids : outcome'[id] \in {"new", "pending", "stop", "length", "aborted", "error"}
            BY <1>6, <1>7 DEF CInv, Typed
        <3> QED
            BY <1>1, <3>1
    <2>4. /\ cached_blocks' \in [Ids -> Nat] /\ budget' \in 0 .. max_tokens_per_step
          /\ consecutive_errors' \in 0 .. MAX_CONSECUTIVE_ERRORS
        BY <1>1, Constants DEF MAX_CONSECUTIVE_ERRORS
    <2>5. {waiting', running', todo', decode_ids', prefill_ids'} \subseteq Seq(Ids)
        BY <1>1, <1>2, <1>4
    <2>6. /\ {reserved', free_blocks'} \subseteq Nat /\ new_tokens' \in Seq(Ids \X Tokens)
          /\ pc' \in {"idle", "boundary", "admit", "evict", "plan", "forward", "sample",
                       "register", "retire", "error"}
        BY <1>1, <1>4
    <2>7. UNCHANGED <<refs, content, cache, running, running_index, faults>>
        BY <1>1
    <2> QED
        BY <2>1, <2>2, <2>3, <2>4, <2>5, <2>6, <2>7 DEF CInv, Typed
<1>12. Lists' /\ Budgeted'
    BY <1>1, <1>4 DEF CInv, Lists, Budgeted
<1>13. Stages'
    <2> SUFFICES ASSUME NEW id \in Run PROVE StageOf(id)'
        BY <1>3 DEF Stages
    <2>1. Sampled(seq[id]) /\ seq[id].status = "Running" /\ seq'[id] = seq[id]
        BY <1>1, <1>2, <1>5, <1>7 DEF CInv, Stages, StageOf
    <2> QED
        BY <1>1, <2>1 DEF StageOf
<1> QED
    BY <1>8, <1>9, <1>10, <1>11, <1>12, <1>13 DEF CInv

\* What a set of sequences holds of a block.
LEMMA HeldByType ==
    ASSUME Typed, NEW ids \in SUBSET Ids, NEW b
    PROVE  /\ HeldBy(ids, b) \in Nat /\ IsFiniteSet(ids)
           /\ \A id \in Ids : Occurrences(b, seq[id].block_ids) \in Nat
<1> DEFINE w == [id \in Ids |-> Occurrences(b, seq[id].block_ids)]
<1>1. seq \in [Ids -> SequenceStates]
    BY DEF Typed
<1>2. \A id \in Ids : Occurrences(b, seq[id].block_ids) \in Nat
    BY <1>1, StateTypes, OccurrencesType
<1>3. IsFiniteSet(ids)
    BY Constants, FS_Subset
<1>4. \A id \in ids : w[id] \in Nat
    BY <1>2
<1> HIDE DEF w
<1>5. SumFunctionOnSet(w, ids) \in Nat
    BY <1>3, <1>4, SumRemove
<1> QED
    BY <1>2, <1>3, <1>5 DEF HeldBy, w

\* handle_step_error drops the batch, or everyone after too many failures in a row.
LEMMA StepFailsStep ==
    ASSUME CInv, StepFails
    PROVE  CInv'
<1>1. PICK dropped :
        /\ \/ dropped = Range(running) /\ waiting' = waiting
           \/ dropped = Range(running) \cup Range(waiting) /\ waiting' = <<>>
        /\ refs' = [b \in Blocks |-> refs[b] - HeldBy(dropped, b)]
        /\ seq' = [id \in Ids |-> IF id \in dropped THEN Absent ELSE seq[id]]
        /\ outcome' = [id \in Ids |-> IF id \in dropped THEN "error" ELSE outcome[id]]
    <2> DEFINE giveUp == consecutive_errors + 1 >= MAX_CONSECUTIVE_ERRORS
               d == Range(running) \cup (IF giveUp THEN Range(waiting) ELSE {})
    <2>1. /\ refs' = [b \in Blocks |-> refs[b] - HeldBy(d, b)]
          /\ seq' = [id \in Ids |-> IF id \in d THEN Absent ELSE seq[id]]
          /\ outcome' = [id \in Ids |-> IF id \in d THEN "error" ELSE outcome[id]]
          /\ waiting' = IF giveUp THEN <<>> ELSE waiting
        BY DEF StepFails
    <2>2. \/ d = Range(running) /\ waiting' = waiting
          \/ d = Range(running) \cup Range(waiting) /\ waiting' = <<>>
        BY <2>1
    <2> QED
        BY <2>1, <2>2
<1>2. /\ pc = "error" /\ pc' = "idle"
      /\ consecutive_errors' = Minimum(consecutive_errors + 1, MAX_CONSECUTIVE_ERRORS)
      /\ running' = <<>> /\ running_index' = <<>>
      /\ new_tokens' = <<>> /\ cached_blocks' = [id \in Ids |-> 0] /\ todo' = <<>>
      /\ decode_ids' = <<>> /\ prefill_ids' = <<>> /\ budget' = 0 /\ reserved' = 0
      /\ free_blocks' = 0 /\ UNCHANGED <<cache, content, output, faults>>
    BY DEF StepFails
<1>3. /\ running \in Seq(Ids) /\ waiting \in Seq(Ids) /\ seq \in [Ids -> SequenceStates]
      /\ Run \subseteq Ids /\ Wait \subseteq Ids
    BY Types DEF CInv, Run, Wait
<1>4. Range(<<>>) = {} /\ <<>> \in Seq(Ids) /\ <<>> \in Seq(Ids \X Tokens) /\ Distinct(<<>>)
      /\ DOMAIN <<>> = {} /\ Len(<<>>) = 0
    BY DEF Range, Distinct
<1>5. Run' = {} /\ dropped \subseteq Ids /\ Run \subseteq dropped /\ dropped \subseteq Run \cup Wait
      /\ Wait' = Wait \ dropped /\ waiting' \in Seq(Ids)
    <2>1. Run \cap Wait = {}
        BY DEF CInv, Queues
    <2> QED
        BY <1>1, <1>2, <1>3, <1>4, <2>1 DEF Run, Wait
<1>6. \A id \in dropped : seq'[id] = Absent /\ outcome'[id] = "error" /\ outcome[id] = "pending"
    BY <1>1, <1>3, <1>5 DEF CInv, Status, StatusOf
<1>7. \A id \in Ids \ dropped : /\ seq'[id] = seq[id] /\ outcome'[id] = outcome[id]
                                /\ id \notin Run /\ seq[id].status \notin {"Running", "Finished"}
    BY <1>1, <1>2, <1>5 DEF CInv, Status, StatusOf, FinishedOf
<1>8. Queues'
    <2>1. Distinct(waiting')
        BY <1>1, <1>4 DEF CInv, Queues
    <2> QED
        BY <1>2, <1>4, <1>5, <2>1 DEF Queues
<1>9. Status'
    <2> SUFFICES ASSUME NEW id \in Ids PROVE StatusOf(id)' /\ FinishedOf(id)'
        BY DEF Status
    <2>1. CASE id \in dropped
        BY <1>5, <1>6, <2>1, AbsentState DEF StatusOf, FinishedOf
    <2>2. CASE id \notin dropped
        <3>1. /\ seq'[id] = seq[id] /\ outcome'[id] = outcome[id]
              /\ id \notin Run /\ seq[id].status \notin {"Running", "Finished"} /\ StatusOf(id)
            BY <1>7, <2>2 DEF CInv, Status
        <3>2. StatusOf(id)'
            BY <1>5, <2>2, <3>1 DEF StatusOf
        <3> QED
            BY <3>1, <3>2 DEF FinishedOf
    <2> QED
        BY <2>1, <2>2
<1>10. Arrivals'
    <2>1. \A id \in Ids : outcome'[id] = "new" <=> outcome[id] = "new"
        BY <1>6, <1>7
    <2>2. ArrivalOrder'
        <3>1. CASE waiting' = <<>>
            <4>1. DOMAIN waiting' = {}
                BY <1>4, <3>1
            <4> QED
                BY <4>1 DEF ArrivalOrder
        <3>2. CASE dropped = Range(running) /\ waiting' = waiting
            <4>1. \A k \in DOMAIN waiting : waiting[k] \in Ids \ dropped
                BY <1>3, <3>2, RangeMember DEF Wait, Run, CInv, Queues
            <4>2. \A k \in DOMAIN waiting : seq'[waiting[k]] = seq[waiting[k]]
                BY <1>7, <4>1
            <4> QED
                BY <3>2, <4>2 DEF CInv, Arrivals, ArrivalOrder
        <3> QED
            BY <1>1, <3>1, <3>2
    <2> QED
        BY <2>1, <2>2 DEF CInv, Arrivals
<1>11. Typed'
    <2>1. refs' \in [Blocks -> Int]
        <3>1. \A b \in Blocks : HeldBy(dropped, b) \in Nat
            BY <1>5, HeldByType DEF CInv
        <3>2. refs \in [Blocks -> Int]
            BY DEF CInv, Typed
        <3> QED
            BY <1>1, <3>1, <3>2
    <2>2. seq' \in [Ids -> SequenceStates]
        BY <1>1, <1>3, AbsentState
    <2>3. outcome' \in [Ids -> {"new", "pending", "stop", "length", "aborted", "error"}]
        BY <1>1 DEF CInv, Typed
    <2>4. cached_blocks' \in [Ids -> Nat] /\ budget' \in 0 .. max_tokens_per_step
        BY <1>2, Constants
    <2>5. consecutive_errors' \in 0 .. MAX_CONSECUTIVE_ERRORS
        <3>1. consecutive_errors \in 0 .. 3
            BY DEF CInv, Typed, MAX_CONSECUTIVE_ERRORS
        <3> QED
            BY <1>2, <3>1 DEF MAX_CONSECUTIVE_ERRORS, Minimum
    <2>6. running_index' \in [Range(running') -> Nat]
        BY <1>2, <1>4
    <2>7. {waiting', running', todo', decode_ids', prefill_ids'} \subseteq Seq(Ids)
        BY <1>2, <1>4, <1>5
    <2>8. /\ {reserved', free_blocks'} \subseteq Nat /\ new_tokens' \in Seq(Ids \X Tokens)
          /\ pc' \in {"idle", "boundary", "admit", "evict", "plan", "forward", "sample",
                       "register", "retire", "error"}
        BY <1>2, <1>4
    <2>9. /\ content' \in [Blocks -> Seq(Nat)] /\ cache' \in Seq([key : Seq(Nat), block : Blocks])
          /\ output' \in [Ids -> Seq(Tokens)] /\ faults' \in 0 .. MaxFaults
        BY <1>2 DEF CInv, Typed
    <2> QED
        BY <2>1, <2>2, <2>3, <2>4, <2>5, <2>6, <2>7, <2>8, <2>9 DEF Typed
<1>12. Lists' /\ Budgeted'
    BY <1>2, <1>4, Constants DEF CInv, Lists, Budgeted
<1>13. Stages'
    BY <1>5 DEF Stages
<1> QED
    BY <1>8, <1>9, <1>10, <1>11, <1>12, <1>13 DEF CInv

\* A client goes away.
LEMMA AbortRunningStep ==
    ASSUME CInv, NEW id \in Ids, AbortRunningOne(id), outcome' = [outcome EXCEPT ![id] = "aborted"],
           UNCHANGED <<content, cached_blocks, new_tokens, output, consecutive_errors, faults>>
    PROVE  CInv'
<1> DEFINE old == seq[id]
<1>1. /\ pc = "idle" /\ id \in DOMAIN running_index /\ remove_from_running(id)
      /\ refs' = FreedAll(refs, old.block_ids) /\ seq' = [seq EXCEPT ![id] = Absent]
      /\ UNCHANGED <<waiting, cache, pc, todo>> /\ UNCHANGED planVars
    BY DEF AbortRunningOne
<1>2. /\ running \in Seq(Ids) /\ waiting \in Seq(Ids) /\ seq \in [Ids -> SequenceStates]
      /\ Run \subseteq Ids /\ Wait \subseteq Ids
      /\ outcome \in [Ids -> {"new", "pending", "stop", "length", "aborted", "error"}]
    BY Types DEF CInv, Run, Wait, Typed
<1>3. Indexed(running, running_index) /\ Distinct(waiting) /\ Run \cap Wait = {} /\ id \in Run
    BY <1>1, QueuesIndexed DEF CInv, Queues
<1>4. /\ running' \in Seq(Ids) /\ Indexed(running', running_index')
      /\ Run' = Run \ {id} /\ Len(running') = Len(running) - 1
      /\ running_index' \in [Range(running') -> Nat]
    BY <1>1, <1>2, <1>3, RemoveFromRunning DEF Run
<1>5. waiting' = waiting /\ Wait' = Wait
    BY <1>1 DEF Wait
<1>6. /\ seq' \in [Ids -> SequenceStates] /\ seq'[id] = Absent /\ outcome'[id] = "aborted"
      /\ \A x \in Ids : x # id => seq'[x] = seq[x] /\ outcome'[x] = outcome[x]
    BY <1>1, <1>2, AbsentState
<1>7. Queues'
    <2>1. Run' \cap Wait' = {} /\ Distinct(waiting')
        BY <1>3, <1>4, <1>5
    <2> QED
        BY <1>4, <2>1, QueuesIndexed
<1>8. Status'
    <2>1. id \notin Run' /\ id \notin Wait'
        BY <1>3, <1>4, <1>5
    <2>2. StatusOf(id)' /\ FinishedOf(id)'
        BY <1>6, <2>1, AbsentState DEF StatusOf, FinishedOf
    <2>3. \A x \in Ids : x # id => (x \in Run' <=> x \in Run) /\ (x \in Wait' <=> x \in Wait)
        BY <1>4, <1>5
    <2> QED
        BY <1>1, <1>6, <2>2, <2>3, StatusElsewhere
<1>9. Arrivals'
    <2>1. outcome[id] # "new"
        BY <1>3 DEF CInv, Status, StatusOf
    <2>2. \A x \in Ids : outcome'[x] = "new" <=> outcome[x] = "new"
        BY <1>6, <2>1
    <2>3. \A k \in DOMAIN waiting : waiting[k] \in Ids /\ waiting[k] # id
        BY <1>2, <1>3, RangeMember DEF Wait
    <2>4. \A k \in DOMAIN waiting : seq'[waiting[k]] = seq[waiting[k]]
        BY <1>6, <2>3
    <2>5. ArrivalOrder'
        BY <1>5, <2>4 DEF CInv, Arrivals, ArrivalOrder
    <2> QED
        BY <2>2, <2>5 DEF CInv, Arrivals
<1>10. Typed'
    <2>1. refs' \in [Blocks -> Int]
        <3>1. \A b : Occurrences(b, old.block_ids) \in Nat
            BY <1>2, StateTypes, OccurrencesType
        <3>2. refs \in [Blocks -> Int]
            BY DEF CInv, Typed
        <3> QED
            BY <1>1, <3>1, <3>2 DEF FreedAll
    <2>2. outcome' \in [Ids -> {"new", "pending", "stop", "length", "aborted", "error"}]
        BY <1>2
    <2> QED
        BY <1>1, <1>4, <1>6, <2>1, <2>2 DEF CInv, Typed, planVars
<1>11. Lists'
    BY <1>1 DEF CInv, Lists, planVars
<1>12. Budgeted'
    <2>1. Len(running) \in Nat /\ Len(running) <= max_tokens_per_step
        BY <1>2 DEF CInv, Budgeted
    <2> QED
        BY <1>1, <1>4, <2>1, Constants DEF Budgeted
<1>13. Stages'
    <2> SUFFICES ASSUME NEW x \in Run' PROVE StageOf(x)'
        BY DEF Stages
    <2>1. x \in Run /\ seq'[x] = seq[x] /\ UNCHANGED <<pc, prefill_ids>>
        BY <1>1, <1>2, <1>4, <1>6 DEF planVars
    <2> QED
        BY <1>1, <2>1 DEF CInv, Stages, StageOf
<1> QED
    BY <1>7, <1>8, <1>9, <1>10, <1>11, <1>12, <1>13 DEF CInv

\* abort_sequence for one that waits.
LEMMA AbortWaitingStep ==
    ASSUME CInv, NEW id \in Ids, AbortWaitingOne(id), outcome' = [outcome EXCEPT ![id] = "aborted"],
           UNCHANGED <<content, cached_blocks, new_tokens, output, consecutive_errors, faults>>
    PROVE  CInv'
<1> DEFINE old == seq[id]
           S == Ids \ {id}
<1>1. /\ pc = "idle" /\ id \in Wait /\ waiting' = Pick(waiting, S)
      /\ refs' = FreedAll(refs, old.block_ids) /\ seq' = [seq EXCEPT ![id] = Absent]
      /\ UNCHANGED <<running, running_index, cache, pc, todo>> /\ UNCHANGED planVars
    BY DEF AbortWaitingOne, Without, Wait
<1>2. /\ running \in Seq(Ids) /\ waiting \in Seq(Ids) /\ seq \in [Ids -> SequenceStates]
      /\ Run \subseteq Ids /\ Wait \subseteq Ids
      /\ outcome \in [Ids -> {"new", "pending", "stop", "length", "aborted", "error"}]
    BY Types DEF CInv, Run, Wait, Typed
<1>3. Distinct(waiting) /\ Run \cap Wait = {} /\ id \notin Run
    BY <1>1 DEF CInv, Queues
<1>4. waiting' \in Seq(Ids) /\ Distinct(waiting') /\ Wait' = Wait \ {id}
    <2>1. waiting' \in Seq(Ids) /\ Wait' = Wait \cap S
        <3> DEFINE u == waiting'
        <3>1. u = Pick(waiting, S)
            BY <1>1
        <3> HIDE DEF u, S
        <3>2. u \in Seq(Ids) /\ Range(u) = Range(waiting) \cap S
            BY <1>2, <3>1, PickFacts
        <3> QED
            BY <3>2 DEF u, Wait
    <2>2. Distinct(waiting')
        <3> HIDE DEF S
        <3> QED
            BY <1>1, <1>2, <1>3, PickDistinct
    <2> QED
        BY <1>2, <2>1, <2>2
<1>5. Run' = Run
    BY <1>1 DEF Run
<1>6. /\ seq' \in [Ids -> SequenceStates] /\ seq'[id] = Absent /\ outcome'[id] = "aborted"
      /\ \A x \in Ids : x # id => seq'[x] = seq[x] /\ outcome'[x] = outcome[x]
    BY <1>1, <1>2, AbsentState
<1>7. Queues'
    <2>1. Run' \cap Wait' = {}
        BY <1>3, <1>4, <1>5
    <2> QED
        BY <1>1, <1>4, <1>5, <2>1 DEF CInv, Queues
<1>8. Status'
    <2>1. id \notin Run' /\ id \notin Wait'
        BY <1>3, <1>4, <1>5
    <2>2. StatusOf(id)' /\ FinishedOf(id)'
        BY <1>6, <2>1, AbsentState DEF StatusOf, FinishedOf
    <2>3. \A x \in Ids : x # id => (x \in Run' <=> x \in Run) /\ (x \in Wait' <=> x \in Wait)
        BY <1>4, <1>5
    <2> QED
        BY <1>1, <1>6, <2>2, <2>3, StatusElsewhere
<1>9. Arrivals'
    <2>1. outcome[id] # "new"
        BY <1>1 DEF CInv, Status, StatusOf
    <2>2. \A x \in Ids : outcome'[x] = "new" <=> outcome[x] = "new"
        BY <1>6, <2>1
    <2>3. ArrivalOrder'
        <3> DEFINE u == waiting'
        <3>1. u = Pick(waiting, S)
            BY <1>1
        <3>2. DOMAIN u = 1 .. Len(u) /\ DOMAIN waiting = 1 .. Len(waiting)
            BY <1>2, <1>4
        <3> HIDE DEF u, S
        <3>3. PICK f \in [1 .. Len(u) -> 1 .. Len(waiting)] :
                  /\ \A i \in 1 .. Len(u) : u[i] = waiting[f[i]] /\ u[i] \in S
                  /\ \A i, j \in 1 .. Len(u) : i < j => f[i] < f[j]
            BY <1>2, <3>1, PickPlaces
        <3>4. \A i \in 1 .. Len(u) : seq'[u[i]] = seq[u[i]]
            BY <1>6, <3>3 DEF S
        <3>5. ASSUME NEW i \in 1 .. Len(u), NEW j \in 1 .. Len(u), i < j, seq'[u[i]].num_generated = 0
              PROVE  seq'[u[j]].num_generated = 0 /\ u[i] < u[j]
            <4>1. f[i] \in DOMAIN waiting /\ f[j] \in DOMAIN waiting /\ f[i] < f[j]
                BY <3>2, <3>3, <3>5
            <4>2. u[i] = waiting[f[i]] /\ u[j] = waiting[f[j]]
                BY <3>3
            <4>3. seq[waiting[f[i]]].num_generated = 0
                BY <3>4, <3>5, <4>2
            <4>4. seq[waiting[f[j]]].num_generated = 0 /\ waiting[f[i]] < waiting[f[j]]
                BY <4>1, <4>3 DEF CInv, Arrivals, ArrivalOrder
            <4> QED
                BY <3>4, <4>2, <4>4
        <3> QED
            BY <3>2, <3>5 DEF ArrivalOrder, u
    <2> QED
        BY <2>2, <2>3 DEF CInv, Arrivals
<1>10. Typed'
    <2>1. refs' \in [Blocks -> Int]
        <3>1. \A b : Occurrences(b, old.block_ids) \in Nat
            BY <1>2, StateTypes, OccurrencesType
        <3>2. refs \in [Blocks -> Int]
            BY DEF CInv, Typed
        <3> QED
            BY <1>1, <3>1, <3>2 DEF FreedAll
    <2>2. outcome' \in [Ids -> {"new", "pending", "stop", "length", "aborted", "error"}]
        BY <1>2
    <2> QED
        BY <1>1, <1>4, <1>6, <2>1, <2>2 DEF CInv, Typed, planVars
<1>11. Lists' /\ Budgeted'
    BY <1>1 DEF CInv, Lists, Budgeted, planVars
<1>12. Stages'
    <2> SUFFICES ASSUME NEW x \in Run PROVE StageOf(x)'
        BY <1>5 DEF Stages
    <2>1. seq'[x] = seq[x] /\ UNCHANGED <<pc, prefill_ids>>
        BY <1>1, <1>2, <1>3, <1>6 DEF planVars
    <2> QED
        BY <1>1, <2>1 DEF CInv, Stages, StageOf
<1> QED
    BY <1>7, <1>8, <1>9, <1>10, <1>11, <1>12 DEF CInv

\* A request arrives: it is younger than all that wait.
LEMMA AddRequestStep ==
    ASSUME CInv, NEW id \in Ids, NEW prompt \in Prompts, NEW max \in MaxTokensChoices,
           AddRequest(id, prompt, max)
    PROVE  CInv'
<1> DEFINE s == NewSequence(prompt, max)
<1>1. /\ outcome[id] = "new" /\ (\A other \in Ids : other < id => outcome[other] # "new")
      /\ pc = "idle" /\ seq' = [seq EXCEPT ![id] = s] /\ waiting' = Append(waiting, id)
      /\ outcome' = [outcome EXCEPT ![id] = "pending"]
      /\ UNCHANGED <<refs, running, running_index, cache, pc, todo>> /\ UNCHANGED planVars
      /\ UNCHANGED <<content, cached_blocks, new_tokens, output, consecutive_errors, faults>>
    BY DEF AddRequest, add_request
<1>2. /\ running \in Seq(Ids) /\ waiting \in Seq(Ids) /\ seq \in [Ids -> SequenceStates]
      /\ Run \subseteq Ids /\ Wait \subseteq Ids /\ Ids \subseteq Nat
      /\ outcome \in [Ids -> {"new", "pending", "stop", "length", "aborted", "error"}]
    BY Types, Constants DEF CInv, Run, Wait, Typed
<1>3. id \notin Wait /\ id \notin Run /\ seq[id].status = "Absent"
    BY <1>1 DEF CInv, Status, StatusOf
<1>4. prompt \in Seq(Nat) /\ prompt # <<>> /\ max \in Nat
    BY Constants
<1> HIDE DEF s
<1>5. s \in SequenceStates /\ s.all_tokens = prompt /\ s.num_generated = 0 /\ s.status = "Waiting"
    BY <1>4, NewState DEF s
<1>6. s.block_ids = <<>> /\ s.num_tokens = 0 /\ s.num_processed_tokens = 0
    BY <1>4, NewState DEF s
<1>7. /\ seq' \in [Ids -> SequenceStates] /\ seq'[id] = s /\ outcome'[id] = "pending"
      /\ \A x \in Ids : x # id => seq'[x] = seq[x] /\ outcome'[x] = outcome[x]
    BY <1>1, <1>2, <1>5
<1>8. waiting' \in Seq(Ids) /\ Distinct(waiting') /\ Wait' = Wait \cup {id}
    <2>1. Distinct(waiting)
        BY DEF CInv, Queues
    <2> QED
        BY <1>1, <1>2, <1>3, <2>1, RangeAppend, DistinctAppend DEF Wait
<1>9. Run' = Run
    BY <1>1 DEF Run
<1>10. Queues'
    <2>1. Run' \cap Wait' = {}
        BY <1>3, <1>8, <1>9 DEF CInv, Queues
    <2> QED
        BY <1>1, <1>8, <1>9, <2>1 DEF CInv, Queues
<1>11. Status'
    <2>1. StatusOf(id)' /\ FinishedOf(id)'
        BY <1>3, <1>4, <1>5, <1>6, <1>7, <1>8, <1>9 DEF StatusOf, FinishedOf
    <2>2. \A x \in Ids : x # id => (x \in Run' <=> x \in Run) /\ (x \in Wait' <=> x \in Wait)
        BY <1>8, <1>9
    <2> QED
        BY <1>1, <1>7, <2>1, <2>2, StatusElsewhere
<1>12. Arrivals'
    <2>1. \A i, j \in Ids : i < j /\ outcome'[i] = "new" => outcome'[j] = "new"
        <3> SUFFICES ASSUME NEW i \in Ids, NEW j \in Ids, i < j, outcome'[i] = "new"
                     PROVE  outcome'[j] = "new"
            OBVIOUS
        <3>1. i # id /\ outcome[i] = "new"
            BY <1>7
        <3>2. outcome[j] = "new"
            BY <3>1 DEF CInv, Arrivals
        <3>3. j # id
            BY <1>1, <3>1
        <3> QED
            BY <1>7, <3>2, <3>3
    <2>2. ArrivalOrder'
        <3> SUFFICES ASSUME NEW i \in DOMAIN waiting', NEW j \in DOMAIN waiting', i < j,
                            seq'[waiting'[i]].num_generated = 0
                     PROVE  seq'[waiting'[j]].num_generated = 0 /\ waiting'[i] < waiting'[j]
            BY DEF ArrivalOrder
        <3> DEFINE n == Len(waiting)
        <3>1. /\ DOMAIN waiting' = 1 .. n + 1 /\ n \in Nat /\ DOMAIN waiting = 1 .. n
              /\ waiting'[n + 1] = id /\ \A k \in 1 .. n : waiting'[k] = waiting[k]
            BY <1>1, <1>2
        <3>2. \A k \in 1 .. n : waiting[k] \in Ids /\ waiting[k] # id /\ waiting[k] \in Wait
            BY <1>2, <1>3, RangeMember DEF Wait
        <3> HIDE DEF n
        <3>3. i \in 1 .. n
            BY <3>1
        <3>4. seq'[waiting'[i]] = seq[waiting[i]] /\ waiting'[i] = waiting[i]
            BY <1>7, <3>1, <3>2, <3>3
        <3>5. CASE j = n + 1
            <4>1. outcome[waiting[i]] = "pending"
                BY <1>2, <3>2, <3>3 DEF CInv, Status, StatusOf
            <4>2. waiting[i] < id
                <5>1. ~ (id < waiting[i])
                    BY <1>1, <3>2, <3>3, <4>1 DEF CInv, Arrivals
                <5>2. waiting[i] \in Nat /\ id \in Nat /\ waiting[i] # id
                    BY <1>2, <3>2, <3>3
                <5> QED
                    BY <5>1, <5>2
            <4> QED
                BY <1>5, <1>7, <3>1, <3>4, <3>5, <4>2
        <3>6. CASE j # n + 1
            <4>1. j \in 1 .. n
                BY <3>1, <3>6
            <4>2. seq'[waiting'[j]] = seq[waiting[j]] /\ waiting'[j] = waiting[j]
                BY <1>7, <3>1, <3>2, <4>1
            <4> QED
                BY <3>1, <3>3, <3>4, <4>1, <4>2 DEF CInv, Arrivals, ArrivalOrder
        <3> QED
            BY <3>5, <3>6
    <2> QED
        BY <2>1, <2>2 DEF Arrivals
<1>13. Typed'
    <2>1. outcome' \in [Ids -> {"new", "pending", "stop", "length", "aborted", "error"}]
        BY <1>1, <1>2
    <2> QED
        BY <1>1, <1>7, <1>8, <2>1 DEF CInv, Typed, planVars
<1>14. Lists' /\ Budgeted'
    BY <1>1 DEF CInv, Lists, Budgeted, planVars
<1>15. Stages'
    <2> SUFFICES ASSUME NEW x \in Run PROVE StageOf(x)'
        BY <1>9 DEF Stages
    <2>1. seq'[x] = seq[x] /\ UNCHANGED <<pc, prefill_ids>>
        BY <1>1, <1>2, <1>3, <1>7 DEF planVars
    <2> QED
        BY <1>1, <2>1 DEF CInv, Stages, StageOf
<1> QED
    BY <1>10, <1>11, <1>12, <1>13, <1>14, <1>15 DEF CInv

-----------------------------------------------------------------------------
(* The control part of the invariant.                                      *)

\* The empty engine satisfies the control part,
LEMMA ControlInit == Init => CInv
<1> SUFFICES ASSUME Init PROVE CInv
    OBVIOUS
<1>1. /\ refs = [b \in Blocks |-> 0] /\ waiting = <<>> /\ running = <<>> /\ running_index = <<>>
      /\ seq = [id \in Ids |-> Absent] /\ cache = <<>>
      /\ pc = "idle" /\ todo = <<>> /\ decode_ids = <<>> /\ prefill_ids = <<>>
      /\ budget = 0 /\ reserved = 0 /\ free_blocks = 0
      /\ content = [b \in Blocks |-> <<>>] /\ cached_blocks = [id \in Ids |-> 0]
      /\ new_tokens = <<>> /\ output = [id \in Ids |-> <<>>]
      /\ outcome = [id \in Ids |-> "new"] /\ consecutive_errors = 0 /\ faults = 0
    BY DEF Init, SchedulerInit, PoolInit
<1>2. Range(<<>>) = {} /\ Distinct(<<>>) /\ DOMAIN <<>> = {} /\ Len(<<>>) = 0
    BY DEF Range, Distinct
<1>3. /\ <<>> \in Seq(Ids) /\ <<>> \in Seq(Ids \X Tokens) /\ <<>> \in Seq(Nat)
      /\ <<>> \in Seq(Tokens) /\ <<>> \in Seq([key : Seq(Nat), block : Blocks])
    OBVIOUS
<1>4. Typed
    <2>1. refs \in [Blocks -> Int] /\ content \in [Blocks -> Seq(Nat)]
          /\ seq \in [Ids -> SequenceStates] /\ cached_blocks \in [Ids -> Nat]
        BY <1>1, <1>3, AbsentState
    <2>2. output \in [Ids -> Seq(Tokens)]
          /\ outcome \in [Ids -> {"new", "pending", "stop", "length", "aborted", "error"}]
        BY <1>1, <1>3
    <2>3. {waiting, running, todo, decode_ids, prefill_ids} \subseteq Seq(Ids)
          /\ running_index \in [Range(running) -> Nat]
        BY <1>1, <1>2, <1>3
    <2>4. /\ budget \in 0 .. max_tokens_per_step /\ {reserved, free_blocks} \subseteq Nat
          /\ consecutive_errors \in 0 .. MAX_CONSECUTIVE_ERRORS /\ faults \in 0 .. MaxFaults
        BY <1>1, Constants DEF MAX_CONSECUTIVE_ERRORS
    <2> QED
        BY <1>1, <1>3, <2>1, <2>2, <2>3, <2>4 DEF Typed
<1>5. Run = {} /\ Wait = {}
    BY <1>1, <1>2 DEF Run, Wait
<1>6. Queues
    BY <1>1, <1>2, <1>5 DEF Queues
<1>7. Status
    BY <1>1, <1>5, AbsentState DEF Status, StatusOf, FinishedOf
<1>8. Arrivals
    <2>1. DOMAIN waiting = {}
        BY <1>1, <1>2
    <2>2. \A i, j \in Ids : i < j /\ outcome[i] = "new" => outcome[j] = "new"
        BY <1>1
    <2> QED
        BY <2>1, <2>2 DEF Arrivals, ArrivalOrder
<1>9. Lists /\ Budgeted
    BY <1>1, <1>2, Constants DEF Lists, Budgeted
<1>10. Stages
    BY <1>5 DEF Stages
<1> QED
    BY <1>4, <1>6, <1>7, <1>8, <1>9, <1>10 DEF CInv

\* and every step of the engine and of its clients keeps it.
LEMMA ControlStep == CInv /\ [Next]_vars => CInv'
<1> SUFFICES ASSUME CInv, [Next]_vars PROVE CInv'
    OBVIOUS
<1>1. CASE UNCHANGED vars
    BY <1>1, StutterStep
<1>2. CASE ScheduleDecodes /\ UNCHANGED engineVars
    BY <1>2, ScheduleDecodesStep
<1>3. CASE EvictForDecode /\ UNCHANGED engineVars
    BY <1>3, EvictForDecodeStep
<1>4. CASE ScheduleBoundaryDecode /\ UNCHANGED engineVars
    BY <1>4, ScheduleBoundaryDecodeStep
<1>5. CASE Preempt /\ UNCHANGED engineVars
    BY <1>5, PreemptStep
<1>6. CASE BoundaryDone /\ UNCHANGED engineVars
    BY <1>6, BoundaryDoneStep
<1>7. CASE TouchForPrefill /\ UNCHANGED engineVars
    BY <1>7, TouchForPrefillStep
<1>8. CASE EvictForPrefill /\ UNCHANGED engineVars
    BY <1>8, EvictForPrefillStep
<1>9. CASE AdmitPrefill /\ UNCHANGED engineVars
    BY <1>9, AdmitPrefillStep
<1>10. CASE ScheduleDone /\ UNCHANGED engineVars
    BY <1>10, ScheduleDoneStep
<1>11. CASE PlanPrefill
    BY <1>11, PlanPrefillStep
<1>12. CASE PlanDone
    BY <1>12, PlanDoneStep
<1>13. CASE ForwardAppend
    BY <1>13, ForwardAppendStep
<1>14. CASE ForwardNext
    BY <1>14, ForwardNextStep
<1>15. CASE ForwardExhausted \/ DeviceFault
    BY <1>15, FaultStep
<1>16. CASE ForwardDone
    BY <1>16, ForwardDoneStep
<1>17. CASE SampleToken
    BY <1>17, SampleTokenStep
<1>18. CASE RegisterBlock
    BY <1>18, RegisterBlockStep
<1>19. CASE RegisterDone
    BY <1>19, RegisterDoneStep
<1>20. CASE SampleDone
    BY <1>20, SampleDoneStep
<1>21. CASE RetireOne
    BY <1>21, RetireOneStep
<1>22. CASE StepReturns
    BY <1>22, StepReturnsStep
<1>23. CASE StepFails
    BY <1>23, StepFailsStep
<1>24. ASSUME NEW id \in Ids, AbortSequence(id) PROVE CInv'
    BY <1>24, AbortRunningStep, AbortWaitingStep DEF AbortSequence, abort_sequence
<1>25. ASSUME NEW id \in Ids, NEW prompt \in Prompts, NEW max \in MaxTokensChoices,
              AddRequest(id, prompt, max)
       PROVE  CInv'
    BY <1>25, AddRequestStep
<1> QED
    BY <1>1, <1>2, <1>3, <1>4, <1>5, <1>6, <1>7, <1>8, <1>9, <1>10, <1>11, <1>12, <1>13,
       <1>14, <1>15, <1>16, <1>17, <1>18, <1>19, <1>20, <1>21, <1>22, <1>23, <1>24, <1>25, Cases

\* What the control part says to a reader.
LEMMA ControlImplies == CInv => QueuesConsistent /\ CacheAligned /\ EveryRunningRuns
<1> SUFFICES ASSUME CInv PROVE QueuesConsistent /\ CacheAligned /\ EveryRunningRuns
    OBVIOUS
<1>1. /\ running \in Seq(Ids) /\ waiting \in Seq(Ids) /\ Run \subseteq Ids /\ Wait \subseteq Ids
    BY Types DEF CInv, Run, Wait
<1>2. Indexed(running, running_index) /\ Distinct(waiting) /\ Run \cap Wait = {}
    BY QueuesIndexed DEF CInv
<1>3. IndexConsistent
    <2>1. DOMAIN running_index = Range(running)
        BY <1>2 DEF Indexed
    <2>2. \A id \in Range(running) : running_index[id] \in DOMAIN running /\ running[running_index[id]] = id
        BY <1>1, <1>2, IndexFinds
    <2>3. Len(running) = Cardinality(Range(running))
        BY <1>1, <1>2, DistinctLength DEF Indexed
    <2> QED
        BY <2>1, <2>2, <2>3 DEF IndexConsistent
<1>4. NobodyLost
    <2> SUFFICES ASSUME pc = "idle"
                 PROVE  /\ Wait \cup Run = {id \in Ids : outcome[id] = "pending"}
                        /\ Wait \cap Run = {} /\ Len(waiting) = Cardinality(Wait)
        BY DEF NobodyLost, Run, Wait
    <2>1. \A id \in Ids : outcome[id] = "pending" <=> id \in Wait \/ id \in Run
        <3>1. \A id \in Ids : seq[id] \in SequenceStates /\ seq[id].status # "Finished"
            BY NobodyFinished, Types DEF CInv
        <3>2. \A id \in Ids : seq[id].status \in {"Absent", "Waiting", "Running"}
            BY <3>1, StateTypes
        <3> QED
            BY <3>2 DEF CInv, Status, StatusOf
    <2>2. Len(waiting) = Cardinality(Wait)
        BY <1>1, <1>2, DistinctLength DEF Wait
    <2> QED
        BY <1>1, <1>2, <2>1, <2>2
<1>5. QueuesConsistent
    BY <1>3, <1>4 DEF CInv, Arrivals, QueuesConsistent
<1>6. CacheAligned
    <2> SUFFICES ASSUME pc = "idle", NEW id \in Run
                 PROVE  Sampled(seq[id]) /\ seq[id].status = "Running"
        BY DEF CacheAligned, Run, Sampled, Tabled
    <2>1. id \notin Range(prefill_ids)
        BY DEF CInv, Lists, Range
    <2> QED
        BY <2>1 DEF CInv, Stages, StageOf
<1>7. EveryRunningRuns
    <2>1. pc = "plan" => Run = Batch
        BY DEF CInv, Lists
    <2> QED
        BY <2>1 DEF EveryRunningRuns, Run, Batch
<1> QED
    BY <1>5, <1>6, <1>7

\* The scheduler's waiting and running queues and its running_index agree at
\* every point of every step, and nobody is lost between steps: swap_remove,
\* preemption to the front, admission, retirement, a failed step and aborts may
\* come in any order.
THEOREM QueuesCorrect == Spec => []QueuesConsistent
<1>1. CInv => QueuesConsistent
    BY ControlImplies
<1> QED
    BY <1>1, ControlInit, ControlStep, PTL DEF Spec

\* Between two calls of Engine::step, the block table of every running sequence
\* covers all of its tokens but the last one, which the next forward computes,
\* and is exactly as long as those tokens need.
THEOREM TablesAligned == Spec => []CacheAligned
<1>1. CInv => CacheAligned
    BY ControlImplies
<1> QED
    BY <1>1, ControlInit, ControlStep, PTL DEF Spec

\* Scheduler::schedule passes over no running sequence: when the engine plans the
\* batch, everyone who runs is in it, since admission leaves a token of
\* max_tokens_per_step for each and preemption takes the others off the queue.
THEOREM NoDecodeStarves == Spec => []EveryRunningRuns
<1>1. CInv => EveryRunningRuns
    BY ControlImplies
<1> QED
    BY <1>1, ControlInit, ControlStep, PTL DEF Spec

-----------------------------------------------------------------------------
(* Counting references.                                                    *)

\* Nothing occurs in an empty list.
LEMMA OccursEmpty == \A b : Occurrences(b, <<>>) = 0
<1>1. \A b : {i \in DOMAIN <<>> : <<>>[i] = b} = {}
    OBVIOUS
<1> QED
    BY <1>1, FS_EmptySet DEF Occurrences

\* One more at the end occurs once more.
LEMMA OccursAppend ==
    ASSUME NEW T, NEW s \in Seq(T), NEW x \in T, NEW b
    PROVE  Occurrences(b, Append(s, x)) = Occurrences(b, s) + (IF x = b THEN 1 ELSE 0)
<1> DEFINE n == Len(s)
           q == Append(s, x)
           A == {i \in DOMAIN s : s[i] = b}
           B == {i \in DOMAIN q : q[i] = b}
<1>1. /\ DOMAIN s = 1 .. n /\ n \in Nat /\ DOMAIN q = 1 .. n + 1 /\ q[n + 1] = x
      /\ \A i \in 1 .. n : q[i] = s[i]
    OBVIOUS
<1>2. IsFiniteSet(A) /\ Cardinality(A) \in Nat
    BY OccurrencesType DEF Occurrences
<1>3. n + 1 \notin A
    BY <1>1
<1> HIDE DEF n, q
<1>4. CASE x = b
    <2>1. B = A \cup {n + 1}
        BY <1>1, <1>4
    <2> HIDE DEF A, B
    <2>2. Cardinality(B) = Cardinality(A) + 1
        BY <1>2, <1>3, <2>1, FS_AddElement
    <2> QED
        BY <1>4, <2>2 DEF Occurrences, A, B, q
<1>5. CASE x # b
    <2>1. B = A
        BY <1>1, <1>5
    <2>2. Occurrences(b, q) = Occurrences(b, s)
        BY <2>1 DEF Occurrences
    <2>3. Occurrences(b, s) \in Nat
        BY <1>2 DEF Occurrences
    <2> QED
        BY <1>5, <2>2, <2>3 DEF q
<1> QED
    BY <1>4, <1>5

\* A list of one.
LEMMA OccursOne ==
    ASSUME NEW T, NEW x \in T, NEW b
    PROVE  Occurrences(b, <<x>>) = IF x = b THEN 1 ELSE 0
<1>1. <<x>> = Append(<<>>, x) /\ <<>> \in Seq(T)
    OBVIOUS
<1>2. Occurrences(b, Append(<<>>, x)) = Occurrences(b, <<>>) + (IF x = b THEN 1 ELSE 0)
    BY <1>1, OccursAppend
<1> QED
    BY <1>1, <1>2, OccursEmpty

\* Something that is there occurs.
LEMMA OccursThere ==
    ASSUME NEW T, NEW s \in Seq(T), NEW i \in 1 .. Len(s)
    PROVE  /\ Occurrences(s[i], s) >= 1
           /\ \A j \in 1 .. Len(s) : j # i /\ s[j] = s[i] => Occurrences(s[i], s) >= 2
<1> DEFINE A == {k \in DOMAIN s : s[k] = s[i]}
<1>1. DOMAIN s = 1 .. Len(s)
    OBVIOUS
<1>2. IsFiniteSet(A) /\ Cardinality(A) \in Nat /\ Occurrences(s[i], s) = Cardinality(A)
    BY OccurrencesType DEF Occurrences
<1>3. i \in A
    BY <1>1
<1>4. \A j \in 1 .. Len(s) : s[j] = s[i] => j \in A
    BY <1>1
<1> HIDE DEF A
<1>5. Cardinality(A \ {i}) = Cardinality(A) - 1 /\ IsFiniteSet(A \ {i})
      /\ Cardinality(A \ {i}) \in Nat
    BY <1>2, <1>3, FS_RemoveElement, FS_CardinalityType
<1>6. Cardinality(A) >= 1
    BY <1>2, <1>5
<1>7. ASSUME NEW j \in 1 .. Len(s), j # i, s[j] = s[i] PROVE Cardinality(A) >= 2
    <2>1. j \in A \ {i}
        BY <1>4, <1>7
    <2>2. Cardinality(A \ {i}) # 0
        BY <1>5, <2>1, FS_EmptySet
    <2> QED
        BY <1>2, <1>5, <2>2
<1> QED
    BY <1>2, <1>6, <1>7

\* What is not there does not occur.
LEMMA OccursAbsent ==
    ASSUME NEW T, NEW s \in Seq(T), NEW b, Occurrences(b, s) = 0
    PROVE  \A i \in 1 .. Len(s) : s[i] # b
    BY OccursThere

-----------------------------------------------------------------------------
(* The cache's references.                                                 *)

BlocksOf(c) == [i \in DOMAIN c |-> c[i].block]
KeysOnce(c) == \A i, j \in DOMAIN c : c[i].key = c[j].key => i = j
EntriesWith(c, b) == {e \in Range(c) : e.block = b}

\* No key twice, no entry twice.
LEMMA EntriesOnce ==
    ASSUME NEW c \in Seq(Entries)
    PROVE  KeysOnce(c) <=> /\ Distinct(c)
                           /\ \A d, e \in Range(c) : d.key = e.key => d = e
<1>1. /\ DOMAIN c = 1 .. Len(c)
      /\ \A e : e \in Range(c) <=> \E i \in 1 .. Len(c) : c[i] = e
    BY RangeMember
<1> QED
    BY <1>1 DEF KeysOnce, Distinct

\* The blocks of the entries, as a list.
LEMMA BlocksOfType ==
    ASSUME NEW c \in Seq(Entries)
    PROVE  BlocksOf(c) \in Seq(Blocks) /\ \A b : Occurrences(b, BlocksOf(c)) \in Nat
<1> DEFINE q == BlocksOf(c)
<1>1. \A i \in DOMAIN c : c[i].block \in Blocks
    <2>1. \A i \in DOMAIN c : c[i] \in Entries
        OBVIOUS
    <2> QED
        BY <2>1 DEF Entries
<1>2. DOMAIN c = 1 .. Len(c) /\ Len(c) \in Nat
    OBVIOUS
<1>3. q \in Seq(Blocks)
    BY <1>1, <1>2 DEF BlocksOf
<1> HIDE DEF q
<1>4. \A b : Occurrences(b, q) \in Nat
    BY <1>3, OccurrencesType
<1> QED
    BY <1>3, <1>4 DEF q

\* They can be counted by entry.
LEMMA CountedByEntry ==
    ASSUME NEW c \in Seq(Entries), KeysOnce(c), NEW b
    PROVE  /\ Occurrences(b, BlocksOf(c)) = Cardinality(EntriesWith(c, b))
           /\ IsFiniteSet(EntriesWith(c, b))
<1> DEFINE A == {i \in DOMAIN c : c[i].block = b}
           B == EntriesWith(c, b)
           f == [i \in A |-> c[i]]
<1>1. Occurrences(b, BlocksOf(c)) = Cardinality(A) /\ IsFiniteSet(A)
    <2>1. {i \in DOMAIN BlocksOf(c) : BlocksOf(c)[i] = b} = A
        BY DEF BlocksOf
    <2>2. IsFiniteSet(1 .. Len(c)) /\ A \in SUBSET (1 .. Len(c))
        BY FS_Interval
    <2> HIDE DEF A
    <2>3. IsFiniteSet(A)
        BY <2>2, FS_Subset
    <2> QED
        BY <2>1, <2>3 DEF Occurrences
<1>2. \A e : e \in B <=> \E i \in A : c[i] = e
    BY RangeMember DEF EntriesWith
<1>3. \A i, j \in A : c[i] = c[j] => i = j
    BY DEF KeysOnce
<1> HIDE DEF A, B
<1>4. f \in [A -> B]
    BY <1>2
<1>5. f \in Bijection(A, B)
    BY <1>2, <1>3, <1>4 DEF Bijection, Injection, Surjection, IsInjective
<1>6. ExistsBijection(A, B)
    BY <1>5 DEF ExistsBijection
<1>7. IsFiniteSet(B) /\ Cardinality(B) = Cardinality(A)
    BY <1>1, <1>6, FS_Bijection
<1> QED
    BY <1>1, <1>7 DEF B

\* An eviction drops one reference,
LEMMA CountTail ==
    ASSUME NEW c \in Seq(Entries), KeysOnce(c), c # <<>>, NEW b
    PROVE  /\ Occurrences(b, BlocksOf(Tail(c))) =
                 Occurrences(b, BlocksOf(c)) - (IF Head(c).block = b THEN 1 ELSE 0)
           /\ KeysOnce(Tail(c)) /\ Tail(c) \in Seq(Entries) /\ Len(Tail(c)) = Len(c) - 1
           /\ Head(c) \in Entries /\ Head(c) \in Range(c) /\ Range(Tail(c)) \subseteq Range(c)
<1> DEFINE q == Tail(c)
           h == Head(c)
<1>1. Distinct(c) /\ \A d, e \in Range(c) : d.key = e.key => d = e
    BY EntriesOnce
<1>2. /\ q \in Seq(Entries) /\ Distinct(q) /\ h \in Range(c) /\ Range(q) = Range(c) \ {h}
      /\ Len(q) = Len(c) - 1
    BY <1>1, DistinctTail
<1>3. h \in Entries
    OBVIOUS
<1> HIDE DEF q, h
<1>4. KeysOnce(q)
    BY <1>1, <1>2, EntriesOnce
<1>5. Occurrences(b, BlocksOf(c)) = Cardinality(EntriesWith(c, b)) /\ IsFiniteSet(EntriesWith(c, b))
    BY CountedByEntry
<1>6. Occurrences(b, BlocksOf(q)) = Cardinality(EntriesWith(q, b))
    BY <1>2, <1>4, CountedByEntry
<1>7. EntriesWith(q, b) = EntriesWith(c, b) \ {h}
    BY <1>2 DEF EntriesWith
<1>8. h \in EntriesWith(c, b) <=> h.block = b
    BY <1>2 DEF EntriesWith
<1>9. Cardinality(EntriesWith(c, b) \ {h}) =
          IF h \in EntriesWith(c, b) THEN Cardinality(EntriesWith(c, b)) - 1
          ELSE Cardinality(EntriesWith(c, b))
    BY <1>5, FS_RemoveElement
<1>10. Occurrences(b, BlocksOf(c)) \in Nat
    BY BlocksOfType
<1>11. Occurrences(b, BlocksOf(q)) =
                 Occurrences(b, BlocksOf(c)) - (IF h.block = b THEN 1 ELSE 0)
    BY <1>5, <1>6, <1>7, <1>8, <1>9, <1>10
<1> QED
    BY <1>2, <1>3, <1>4, <1>11 DEF q, h

\* a new entry adds one,
LEMMA CountPush ==
    ASSUME NEW c \in Seq(Entries), KeysOnce(c), NEW e \in Entries, e.key \notin Keys(c), NEW b
    PROVE  /\ Occurrences(b, BlocksOf(Append(c, e))) =
                 Occurrences(b, BlocksOf(c)) + (IF e.block = b THEN 1 ELSE 0)
           /\ KeysOnce(Append(c, e)) /\ Append(c, e) \in Seq(Entries)
           /\ Len(Append(c, e)) = Len(c) + 1 /\ Range(Append(c, e)) = Range(c) \cup {e}
<1> DEFINE q == Append(c, e)
<1>1. Distinct(c) /\ \A x, y \in Range(c) : x.key = y.key => x = y
    BY EntriesOnce
<1>2. \A x \in Range(c) : x.key # e.key
    BY RangeMember DEF Keys
<1>3. e \notin Range(c)
    BY <1>2
<1>4. q \in Seq(Entries) /\ Distinct(q) /\ Range(q) = Range(c) \cup {e} /\ Len(q) = Len(c) + 1
    BY <1>1, <1>3, RangeAppend, DistinctAppend
<1> HIDE DEF q
<1>5. KeysOnce(q)
    <2>1. \A x, y \in Range(q) : x.key = y.key => x = y
        BY <1>1, <1>2, <1>4
    <2> QED
        BY <1>4, <2>1, EntriesOnce
<1>6. Occurrences(b, BlocksOf(c)) = Cardinality(EntriesWith(c, b)) /\ IsFiniteSet(EntriesWith(c, b))
    BY CountedByEntry
<1>7. Occurrences(b, BlocksOf(q)) = Cardinality(EntriesWith(q, b))
    BY <1>4, <1>5, CountedByEntry
<1>8. e \notin EntriesWith(c, b)
    BY <1>3 DEF EntriesWith
<1>9. EntriesWith(q, b) = IF e.block = b THEN EntriesWith(c, b) \cup {e} ELSE EntriesWith(c, b)
    BY <1>4 DEF EntriesWith
<1>10. Cardinality(EntriesWith(c, b) \cup {e}) = Cardinality(EntriesWith(c, b)) + 1
    BY <1>6, <1>8, FS_AddElement
<1>11. Occurrences(b, BlocksOf(c)) \in Nat
    BY BlocksOfType
<1>12. Occurrences(b, BlocksOf(q)) =
                 Occurrences(b, BlocksOf(c)) + (IF e.block = b THEN 1 ELSE 0)
    BY <1>6, <1>7, <1>9, <1>10, <1>11
<1> QED
    BY <1>4, <1>5, <1>12 DEF q

\* Two prefixes of whole blocks differ.
LEMMA KeysDiffer ==
    ASSUME NEW c, NEW tokens \in Seq(Nat)
    PROVE  \A i, j \in 1 .. CountCachedBlocks(c, tokens) :
               PrefixKey(tokens, i) = PrefixKey(tokens, j) => i = j
<1> DEFINE n == CountCachedBlocks(c, tokens)
<1>1. n \in Nat /\ n <= Len(tokens) \div BlockSize /\ BlockSize \in Nat /\ BlockSize >= 1
      /\ Len(tokens) \div BlockSize \in Nat
    BY CountFacts, Constants DEF FullBlocks
<1> HIDE DEF n
<1>2. ASSUME NEW i \in 1 .. n PROVE i * BlockSize \in Nat /\ i * BlockSize <= Len(tokens)
    <2>1. i \in Nat /\ i <= Len(tokens) \div BlockSize /\ Len(tokens) \in Nat
        BY <1>1
    <2> QED
        BY <1>1, <2>1, BlocksFit
<1>3. ASSUME NEW i \in 1 .. n PROVE Len(PrefixKey(tokens, i)) = i * BlockSize
    <2> DEFINE m == i * BlockSize
    <2>1. m \in Nat /\ m <= Len(tokens)
        BY <1>2
    <2> HIDE DEF m
    <2>2. Len(SubSeq(tokens, 1, m)) = m
        BY <2>1
    <2> QED
        BY <2>2 DEF PrefixKey, m
<1>4. ASSUME NEW i \in 1 .. n, NEW j \in 1 .. n, i * BlockSize = j * BlockSize PROVE i = j
    <2>1. i \in Nat /\ j \in Nat
        BY <1>1
    <2>2. (i * BlockSize) \div BlockSize = i /\ (j * BlockSize) \div BlockSize = j
        BY <1>1, <2>1, WholeBlocks
    <2> QED
        BY <1>4, <2>2
<1> QED
    BY <1>3, <1>4 DEF n

\* and a touch keeps every entry.
LEMMA CountTouched ==
    ASSUME NEW c \in Seq(Entries), KeysOnce(c), NEW tokens \in Seq(Nat)
    PROVE  /\ \A b : Occurrences(b, BlocksOf(Touched(c, tokens))) = Occurrences(b, BlocksOf(c))
           /\ KeysOnce(Touched(c, tokens)) /\ Len(Touched(c, tokens)) = Len(c)
           /\ Range(Touched(c, tokens)) = Range(c)
<1> DEFINE n == CountCachedBlocks(c, tokens)
           hits == {PrefixKey(tokens, i) : i \in 1 .. n}
           S == {c[i] : i \in {j \in DOMAIN c : c[j].key \notin hits}}
           p == Pick(c, S)
           q == [i \in 1 .. n |-> EntryOf(c, PrefixKey(tokens, i))]
           t == Touched(c, tokens)
<1>1. Distinct(c) /\ \A x, y \in Range(c) : x.key = y.key => x = y
    BY EntriesOnce
<1>2. n \in Nat /\ \A i \in 1 .. n : PrefixKey(tokens, i) \in Keys(c)
    BY CountFacts
<1>3. t = p \o q
    BY DEF Touched
<1>4. S = {e \in Range(c) : e.key \notin hits}
    BY RangeMember
<1>5. \A i, j \in 1 .. n : PrefixKey(tokens, i) = PrefixKey(tokens, j) => i = j
    BY KeysDiffer
<1> HIDE DEF S, n, t
<1>6. p \in Seq(Entries) /\ Range(p) = Range(c) \cap S /\ Distinct(p)
    BY <1>1, PickFacts, PickDistinct
<1>7. \A i \in 1 .. n : /\ EntryOf(c, PrefixKey(tokens, i)) \in Entries
                        /\ EntryOf(c, PrefixKey(tokens, i)) \in Range(c)
                        /\ EntryOf(c, PrefixKey(tokens, i)).key = PrefixKey(tokens, i)
    BY <1>2, EntryFacts DEF Range
<1>8. q \in Seq(Entries) /\ Len(q) = n /\ \A i \in 1 .. n : q[i] = EntryOf(c, PrefixKey(tokens, i))
    BY <1>2, <1>7
<1> HIDE DEF p, q
<1>9. Distinct(q)
    BY <1>5, <1>7, <1>8 DEF Distinct
<1>10. \A x : x \in Range(q) <=> \E i \in 1 .. n : q[i] = x
    BY <1>8, RangeMember
<1>11. Range(q) = {e \in Range(c) : e.key \in hits}
    <2>1. ASSUME NEW x \in Range(q) PROVE x \in Range(c) /\ x.key \in hits
        BY <1>7, <1>8, <1>10
    <2>2. ASSUME NEW e \in Range(c), e.key \in hits PROVE e \in Range(q)
        <3>1. PICK i \in 1 .. n : e.key = PrefixKey(tokens, i)
            BY <2>2
        <3>2. e = q[i]
            BY <1>1, <1>7, <1>8, <3>1
        <3> QED
            BY <1>10, <3>2
    <2> QED
        BY <2>1, <2>2
<1> HIDE DEF hits
<1>12. Range(p) \cap Range(q) = {} /\ Range(p) \cup Range(q) = Range(c)
    BY <1>4, <1>6, <1>11
<1>13. t \in Seq(Entries) /\ Range(t) = Range(c) /\ Distinct(t)
    <2>1. p \o q \in Seq(Entries) /\ Range(p \o q) = Range(p) \cup Range(q)
        BY <1>6, <1>8, RangeConcat
    <2>2. Distinct(p \o q)
        BY <1>6, <1>8, <1>9, <1>12, DistinctConcat
    <2> QED
        BY <1>3, <1>12, <2>1, <2>2
<1>14. KeysOnce(t)
    BY <1>1, <1>13, EntriesOnce
<1>15. Len(t) = Len(c)
    BY <1>1, <1>13, DistinctLength
<1>16. ASSUME NEW b PROVE Occurrences(b, BlocksOf(t)) = Occurrences(b, BlocksOf(c))
    <2>1. EntriesWith(t, b) = EntriesWith(c, b)
        BY <1>13 DEF EntriesWith
    <2> QED
        BY <1>13, <1>14, <2>1, CountedByEntry
<1> QED
    BY <1>13, <1>14, <1>15, <1>16 DEF t

-----------------------------------------------------------------------------
(* The tables' references.                                                 *)

TableOf(q, b) == [id \in Ids |-> Occurrences(b, q[id].block_ids)]

\* How often a block occurs in each table is a number.
LEMMA TableTypes ==
    ASSUME NEW q \in [Ids -> SequenceStates], NEW b
    PROVE  \A id \in Ids : /\ TableOf(q, b)[id] \in Nat
                           /\ TableOf(q, b)[id] = Occurrences(b, q[id].block_ids)
                           /\ Occurrences(b, q[id].block_ids) \in Nat
<1>1. \A id \in Ids : Occurrences(b, q[id].block_ids) \in Nat
    BY StateTypes, OccurrencesType
<1> QED
    BY <1>1 DEF TableOf

\* What the sequences hold of a block is the sum over their tables.
LEMMA HeldByTable ==
    /\ \A ids, b : HeldBy(ids, b) = SumFunctionOnSet(TableOf(seq, b), ids)
    /\ \A ids, b : HeldBy(ids, b)' = SumFunctionOnSet(TableOf(seq', b), ids)
    BY DEF HeldBy, TableOf

\* A change of one table changes the sum by as much.
LEMMA TableChanged ==
    ASSUME NEW p \in [Ids -> SequenceStates], NEW q \in [Ids -> SequenceStates], NEW id \in Ids,
           \A x \in Ids : x # id => q[x].block_ids = p[x].block_ids, NEW b
    PROVE  /\ SumFunctionOnSet(TableOf(q, b), Ids) + Occurrences(b, p[id].block_ids)
                 = SumFunctionOnSet(TableOf(p, b), Ids) + Occurrences(b, q[id].block_ids)
           /\ SumFunctionOnSet(TableOf(q, b), Ids) \in Nat /\ SumFunctionOnSet(TableOf(p, b), Ids) \in Nat
           /\ Occurrences(b, p[id].block_ids) \in Nat /\ Occurrences(b, q[id].block_ids) \in Nat
<1> DEFINE v == TableOf(p, b)
           w == TableOf(q, b)
<1>1. \A x \in Ids : /\ v[x] \in Nat /\ w[x] \in Nat /\ v[x] = Occurrences(b, p[x].block_ids)
                     /\ w[x] = Occurrences(b, q[x].block_ids)
    BY TableTypes
<1>2. \A x \in Ids \ {id} : v[x] = w[x]
    BY <1>1
<1> HIDE DEF v, w
<1>3. IsFiniteSet(Ids)
    BY Constants
<1>4. SumFunctionOnSet(w, Ids) + v[id] = SumFunctionOnSet(v, Ids) + w[id]
    BY <1>1, <1>2, <1>3, SumUpdate
<1>5. SumFunctionOnSet(w, Ids) \in Nat /\ SumFunctionOnSet(v, Ids) \in Nat
    BY <1>1, <1>3, SumRemove
<1> QED
    BY <1>1, <1>4, <1>5 DEF v, w

\* No change of a table changes nothing.
LEMMA TablesSame ==
    ASSUME NEW p, NEW q, \A x \in Ids : q[x].block_ids = p[x].block_ids, NEW b
    PROVE  SumFunctionOnSet(TableOf(q, b), Ids) = SumFunctionOnSet(TableOf(p, b), Ids)
<1>1. TableOf(q, b) = TableOf(p, b)
    BY DEF TableOf
<1> QED
    BY <1>1

\* The tables of a set of sequences are emptied,
Emptied(p, q, D) == \A x \in Ids : q[x].block_ids = IF x \in D THEN <<>> ELSE p[x].block_ids

\* which takes what they held out of the sum over all tables.
LEMMA TablesDropped ==
    ASSUME NEW p \in [Ids -> SequenceStates], NEW q \in [Ids -> SequenceStates], NEW D \in SUBSET Ids,
           Emptied(p, q, D), NEW b
    PROVE  /\ SumFunctionOnSet(TableOf(p, b), Ids)
                 = SumFunctionOnSet(TableOf(p, b), D) + SumFunctionOnSet(TableOf(q, b), Ids)
           /\ SumFunctionOnSet(TableOf(p, b), D) \in Nat /\ SumFunctionOnSet(TableOf(q, b), Ids) \in Nat
<1> DEFINE v == TableOf(p, b)
           w == TableOf(q, b)
           E == Ids \ D
<1>1. \A x \in Ids : /\ v[x] \in Nat /\ w[x] \in Nat /\ v[x] = Occurrences(b, p[x].block_ids)
                     /\ w[x] = Occurrences(b, q[x].block_ids)
    BY TableTypes
<1>2. (\A x \in E : v[x] = w[x]) /\ \A x \in D : w[x] = 0
    BY <1>1, OccursEmpty DEF Emptied
<1>3. IsFiniteSet(Ids) /\ IsFiniteSet(D) /\ IsFiniteSet(E) /\ E \subseteq Ids
    BY Constants, FS_Subset
<1> HIDE DEF v, w
<1>4. SumFunctionOnSet(v, Ids) = SumFunctionOnSet(v, D) + SumFunctionOnSet(v, E)
    BY <1>1, <1>3, SumSplit
<1>5. SumFunctionOnSet(w, Ids) = SumFunctionOnSet(w, D) + SumFunctionOnSet(w, E)
    BY <1>1, <1>3, SumSplit
<1> HIDE DEF E
<1>6. SumFunctionOnSet(w, D) = 0
    BY <1>2, <1>3, SumZero
<1>7. SumFunctionOnSet(v, E) = SumFunctionOnSet(w, E)
    BY <1>2, <1>3, SumCongruence
<1>8. SumFunctionOnSet(v, D) \in Nat /\ SumFunctionOnSet(w, E) \in Nat
    BY <1>1, <1>3, SumRemove
<1>9. SumFunctionOnSet(w, Ids) = SumFunctionOnSet(w, E)
    BY <1>5, <1>6, <1>8
<1> QED
    BY <1>4, <1>7, <1>8, <1>9 DEF v, w

\* The references, in terms of both.
LEMMA AccountedForm ==
    /\ Accounted <=> /\ KeysOnce(cache) /\ Len(cache) <= CacheCapacity
                     /\ \A b \in Blocks : refs[b] = SumFunctionOnSet(TableOf(seq, b), Ids)
                                                       + Occurrences(b, BlocksOf(cache))
    /\ Accounted' <=> /\ KeysOnce(cache') /\ Len(cache') <= CacheCapacity
                      /\ \A b \in Blocks : refs'[b] = SumFunctionOnSet(TableOf(seq', b), Ids)
                                                        + Occurrences(b, BlocksOf(cache'))
<1>1. \A b : Occurrences(b, CacheBlocks) = Occurrences(b, BlocksOf(cache))
    BY DEF CacheBlocks, BlocksOf
<1>2. \A b : Occurrences(b, CacheBlocks') = Occurrences(b, BlocksOf(cache'))
    BY DEF CacheBlocks, BlocksOf
<1> QED
    BY <1>1, <1>2, HeldByTable DEF Accounted, RefsMatchHolders, KeysOnce

\* The types the counting needs.
LEMMA SeqTypes ==
    /\ CInv => seq \in [Ids -> SequenceStates] /\ cache \in Seq(Entries) /\ refs \in [Blocks -> Int]
    /\ CInv' => seq' \in [Ids -> SequenceStates] /\ cache' \in Seq(Entries) /\ refs' \in [Blocks -> Int]
    BY DEF CInv, Typed, Entries

\* What a set of sequences holds of a block is a number.
LEMMA HeldNat ==
    ASSUME NEW q \in [Ids -> SequenceStates], NEW b
    PROVE  SumFunctionOnSet(TableOf(q, b), Ids) \in Nat
<1> DEFINE w == TableOf(q, b)
<1>1. \A x \in Ids : w[x] \in Nat
    BY TableTypes
<1> HIDE DEF w
<1>2. SumFunctionOnSet(w, Ids) \in Nat
    BY <1>1, Constants, SumRemove
<1> QED
    BY <1>2 DEF w

\* No key twice, said of positions.
LEMMA KeysRange ==
    ASSUME NEW c \in Seq(Entries)
    PROVE  \A key : key \in Keys(c) <=> \E e \in Range(c) : e.key = key
    BY RangeMember DEF Keys

-----------------------------------------------------------------------------
(* Every reference stays accounted for.                                    *)

AInv == CInv /\ Accounted

\* Nothing changes hands: the references match as before.
LEMMA AccountedKept ==
    ASSUME Accounted, UNCHANGED <<refs, cache>>, \A x \in Ids : seq'[x].block_ids = seq[x].block_ids
    PROVE  Accounted'
<1>1. \A b : SumFunctionOnSet(TableOf(seq', b), Ids) = SumFunctionOnSet(TableOf(seq, b), Ids)
    BY TablesSame
<1> QED
    BY <1>1, AccountedForm

\* An eviction gives up one entry and its reference.
LEMMA AccountedEvict ==
    ASSUME AInv, CInv', evict_lru, UNCHANGED seq
    PROVE  Accounted'
<1>1. cache # <<>> /\ cache' = Tail(cache) /\ refs' = FreedOnce(refs, Head(cache).block)
    BY DEF evict_lru
<1>2. /\ cache \in Seq(Entries) /\ KeysOnce(cache) /\ Len(cache) <= CacheCapacity
      /\ refs \in [Blocks -> Int] /\ seq \in [Ids -> SequenceStates] /\ CacheCapacity \in Nat
    BY SeqTypes, AccountedForm, Constants DEF AInv
<1>3. KeysOnce(cache') /\ Len(cache') <= CacheCapacity
    <2>1. KeysOnce(Tail(cache)) /\ Len(Tail(cache)) = Len(cache) - 1
        BY <1>1, <1>2, CountTail
    <2>2. Len(cache) \in Nat
        BY <1>2
    <2> QED
        BY <1>1, <1>2, <2>1, <2>2
<1>4. ASSUME NEW b \in Blocks
      PROVE  refs'[b] = SumFunctionOnSet(TableOf(seq', b), Ids) + Occurrences(b, BlocksOf(cache'))
    <2> DEFINE held == SumFunctionOnSet(TableOf(seq, b), Ids)
               c == Occurrences(b, BlocksOf(cache))
               d == Occurrences(b, BlocksOf(Tail(cache)))
               one == IF Head(cache).block = b THEN 1 ELSE 0
    <2>1. refs[b] = held + c
        BY AccountedForm DEF AInv
    <2>2. d = c - one /\ c \in Nat
        BY <1>1, <1>2, CountTail, BlocksOfType
    <2>3. refs'[b] = refs[b] - one /\ refs[b] \in Int
        BY <1>1, <1>2 DEF FreedOnce
    <2>4. held \in Nat
        BY <1>2, HeldNat
    <2> HIDE DEF held, c, d
    <2>5. refs'[b] = held + d
        BY <2>1, <2>2, <2>3, <2>4
    <2> QED
        BY <1>1, <2>5 DEF held, d
<1> QED
    BY <1>3, <1>4, AccountedForm

\* A lookup reorders the entries and changes no reference.
LEMMA AccountedTouch ==
    ASSUME AInv, NEW tokens \in Seq(Nat), cache' = Touched(cache, tokens), UNCHANGED <<refs, seq>>
    PROVE  Accounted'
<1>1. cache \in Seq(Entries) /\ KeysOnce(cache) /\ Len(cache) <= CacheCapacity
    BY SeqTypes, AccountedForm DEF AInv
<1>2. KeysOnce(cache') /\ Len(cache') <= CacheCapacity
    BY <1>1, CountTouched
<1>3. \A b : Occurrences(b, BlocksOf(cache')) = Occurrences(b, BlocksOf(cache))
    BY <1>1, CountTouched
<1> QED
    BY <1>2, <1>3, AccountedForm DEF AInv

\* A sequence that gives up its table.
LEMMA AccountedFreed ==
    ASSUME AInv, CInv', NEW id \in Ids, refs' = FreedAll(refs, seq[id].block_ids), UNCHANGED cache,
           seq'[id].block_ids = <<>>, \A x \in Ids : x # id => seq'[x].block_ids = seq[x].block_ids
    PROVE  Accounted'
<1>1. seq \in [Ids -> SequenceStates] /\ seq' \in [Ids -> SequenceStates] /\ refs \in [Blocks -> Int]
      /\ cache \in Seq(Entries)
    BY SeqTypes DEF AInv
<1>2. ASSUME NEW b \in Blocks
      PROVE  refs'[b] = SumFunctionOnSet(TableOf(seq', b), Ids) + Occurrences(b, BlocksOf(cache'))
    <2> DEFINE held == SumFunctionOnSet(TableOf(seq, b), Ids)
               kept == SumFunctionOnSet(TableOf(seq', b), Ids)
               c == Occurrences(b, BlocksOf(cache))
               own == Occurrences(b, seq[id].block_ids)
    <2>1. refs[b] = held + c /\ c \in Nat /\ refs[b] \in Int
        BY <1>1, AccountedForm, BlocksOfType DEF AInv
    <2>2. kept + own = held + Occurrences(b, seq'[id].block_ids)
        BY <1>1, TableChanged
    <2>3. kept \in Nat /\ held \in Nat /\ own \in Nat
        BY <1>1, TableChanged
    <2>4. Occurrences(b, seq'[id].block_ids) = 0
        BY OccursEmpty
    <2>5. refs'[b] = refs[b] - own
        BY <1>1 DEF FreedAll
    <2> HIDE DEF held, kept, c, own
    <2>6. refs'[b] = kept + c
        BY <2>1, <2>2, <2>3, <2>4, <2>5
    <2> QED
        BY <2>6 DEF kept, c
<1> QED
    BY <1>2, AccountedForm DEF AInv

\* A prompt shares what it found.
LEMMA AccountedPlan ==
    ASSUME AInv, CInv', PlanPrefill
    PROVE  Accounted'
<1>1. PICK id : id = Head(todo)
    OBVIOUS
<1> DEFINE bs == PlanTable(id)
<1>2. /\ cache' = Touched(cache, seq[id].all_tokens) /\ refs' = SharedAll(refs, bs)
      /\ pc = "plan" /\ todo # <<>>
    BY <1>1 DEF PlanPrefill, PlanTable, PlanCount
<1>3. /\ id \in Range(prefill_ids) /\ id \in Run /\ id \in Ids /\ seq[id] \in SequenceStates
      /\ bs \in Seq(Blocks)
    BY <1>1, PlanFacts DEF AInv
<1>4. seq' = [seq EXCEPT ![id] = Grown(seq[id], bs, PlanCount(id) * BlockSize)]
      /\ PlanCount(id) * BlockSize \in Nat
    BY <1>1, PlanFacts DEF AInv, Grown
<1>5. /\ seq \in [Ids -> SequenceStates] /\ seq' \in [Ids -> SequenceStates] /\ refs \in [Blocks -> Int]
      /\ cache \in Seq(Entries) /\ KeysOnce(cache) /\ Len(cache) <= CacheCapacity
      /\ seq[id].all_tokens \in Seq(Nat)
    BY <1>3, SeqTypes, StateTypes, AccountedForm DEF AInv
<1>6. seq[id].block_ids = <<>>
    <2>1. id \in Range(todo)
        BY <1>1, <1>2, TodoTail DEF AInv
    <2> QED
        BY <1>2, <1>3, <2>1 DEF AInv, CInv, Stages, StageOf
<1>7. seq'[id].block_ids = bs /\ \A x \in Ids : x # id => seq'[x].block_ids = seq[x].block_ids
    <2> DEFINE n == PlanCount(id) * BlockSize
               old == seq[id]
    <2>1. n \in Nat /\ old \in SequenceStates /\ seq'[id] = Grown(old, bs, n)
        BY <1>3, <1>4, <1>5
    <2> HIDE DEF n, old, bs
    <2>2. seq'[id].block_ids = bs
        BY <1>3, <2>1, GrownState
    <2> QED
        BY <1>4, <1>5, <2>2
<1>8. KeysOnce(cache') /\ Len(cache') <= CacheCapacity
    BY <1>2, <1>5, CountTouched
<1>9. ASSUME NEW b \in Blocks
      PROVE  refs'[b] = SumFunctionOnSet(TableOf(seq', b), Ids) + Occurrences(b, BlocksOf(cache'))
    <2> DEFINE held == SumFunctionOnSet(TableOf(seq, b), Ids)
               new == SumFunctionOnSet(TableOf(seq', b), Ids)
               c == Occurrences(b, BlocksOf(cache))
               own == Occurrences(b, bs)
    <2>1. refs[b] = held + c /\ c \in Nat /\ refs[b] \in Int
        BY <1>5, AccountedForm, BlocksOfType DEF AInv
    <2>2. new + Occurrences(b, seq[id].block_ids) = held + Occurrences(b, seq'[id].block_ids)
        BY <1>3, <1>5, <1>7, TableChanged
    <2>3. new \in Nat /\ held \in Nat
        BY <1>3, <1>5, <1>7, TableChanged
    <2>4. Occurrences(b, seq[id].block_ids) = 0 /\ own \in Nat
        BY <1>3, <1>6, OccursEmpty, OccurrencesType
    <2>5. refs'[b] = refs[b] + own
        BY <1>2, <1>5 DEF SharedAll
    <2>6. Occurrences(b, BlocksOf(cache')) = c
        BY <1>2, <1>5, CountTouched
    <2>7. new = held + own
        BY <1>7, <2>2, <2>3, <2>4
    <2> HIDE DEF held, new, c, own
    <2>8. refs'[b] = new + c
        BY <2>1, <2>3, <2>4, <2>5, <2>7
    <2> QED
        BY <2>6, <2>8 DEF new
<1> QED
    BY <1>8, <1>9, AccountedForm

\* The forward takes a fresh block, or none.
LEMMA AccountedAppend ==
    ASSUME AInv, CInv', ForwardAppend
    PROVE  Accounted'
<1>1. PICK id : id = Head(todo)
    OBVIOUS
<1>2. /\ id \in Run /\ id \in Ids /\ seq[id] \in SequenceStates /\ cache' = cache
    BY <1>1, AppendFacts DEF AInv, ForwardAppend
<1>3. PICK n \in Nat, b \in Blocks, bs \in Seq(Blocks) : Appends(id, n, b, bs)
    BY <1>1, AppendFacts DEF AInv
<1>4. /\ seq \in [Ids -> SequenceStates] /\ seq' \in [Ids -> SequenceStates] /\ refs \in [Blocks -> Int]
      /\ cache \in Seq(Entries)
    BY SeqTypes DEF AInv
<1>5. seq'[id].block_ids = bs /\ \A x \in Ids : x # id => seq'[x].block_ids = seq[x].block_ids
    <2> DEFINE old == seq[id]
               m == old.num_tokens + n
    <2>1. seq' = [seq EXCEPT ![id] = Grown(old, bs, m)]
        BY <1>3 DEF Appends, Grown
    <2>2. m \in Nat /\ old \in SequenceStates
        BY <1>2, StateTypes
    <2> HIDE DEF old, m
    <2>3. seq'[id] = Grown(old, bs, m)
        BY <1>2, <1>4, <2>1
    <2>4. seq'[id].block_ids = bs
        BY <1>3, <2>2, <2>3, GrownState
    <2> QED
        BY <1>4, <2>1, <2>4
<1>6. CASE refs' = refs /\ bs = seq[id].block_ids
    <2>1. \A x \in Ids : seq'[x].block_ids = seq[x].block_ids
        BY <1>5, <1>6
    <2> QED
        BY <1>2, <1>6, <2>1, AccountedKept DEF AInv
<1>7. CASE b \in FreeBlocks(refs) /\ refs' = Allocated(refs, b) /\ bs = Append(seq[id].block_ids, b)
    <2>1. seq[id].block_ids \in Seq(Blocks) /\ refs[b] = 0
        BY <1>2, <1>7, StateTypes DEF FreeBlocks
    <2>2. ASSUME NEW y \in Blocks
          PROVE  refs'[y] = SumFunctionOnSet(TableOf(seq', y), Ids) + Occurrences(y, BlocksOf(cache'))
        <3> DEFINE held == SumFunctionOnSet(TableOf(seq, y), Ids)
                   new == SumFunctionOnSet(TableOf(seq', y), Ids)
                   c == Occurrences(y, BlocksOf(cache))
                   own == Occurrences(y, seq[id].block_ids)
                   one == IF b = y THEN 1 ELSE 0
        <3>1. refs[y] = held + c /\ c \in Nat /\ refs[y] \in Int
            BY <1>4, AccountedForm, BlocksOfType DEF AInv
        <3>2. new + own = held + Occurrences(y, seq'[id].block_ids)
            BY <1>2, <1>4, <1>5, TableChanged
        <3>3. new \in Nat /\ held \in Nat /\ own \in Nat
            BY <1>2, <1>4, <1>5, TableChanged
        <3>4. Occurrences(y, bs) = own + one
            BY <1>7, <2>1, OccursAppend
        <3>5. refs'[y] = refs[y] + one
            BY <1>4, <1>7, <2>1 DEF Allocated
        <3> HIDE DEF held, new, c, own
        <3>6. refs'[y] = new + c
            BY <1>5, <3>1, <3>2, <3>3, <3>4, <3>5
        <3> QED
            BY <1>2, <3>6 DEF new, c
    <2> QED
        BY <1>2, <2>2, AccountedForm DEF AInv
<1> QED
    BY <1>3, <1>6, <1>7 DEF Appends

\* Registration shares the block; a full cache gives one up.
LEMMA AccountedRegister ==
    ASSUME AInv, CInv', RegisterBlock
    PROVE  Accounted'
<1>1. PICK id : id = Head(todo)
    OBVIOUS
<1> DEFINE i == cached_blocks[id] + 1
           key == PrefixKey(seq[id].all_tokens, i)
           block == seq[id].block_ids[i]
           e == [key |-> key, block |-> block]
           gone == [k \in DOMAIN PushEvicts(cache) |-> PushEvicts(cache)[k].block]
<1>2. /\ pc = "register" /\ CacheCapacity > 0 /\ i <= PromptBlocks(id) /\ UNCHANGED seq
      /\ \/ UNCHANGED <<refs, cache>>
         \/ /\ key \notin Keys(cache) /\ refs' = FreedAll(SharedOnce(refs, block), gone)
            /\ cache' = Pushed(cache, e)
    BY <1>1 DEF RegisterBlock
<1>3. i \in Nat /\ i >= 1
    <2>1. todo # <<>> /\ cached_blocks \in [Ids -> Nat]
        BY <1>2 DEF AInv, CInv, Lists, Typed
    <2>2. id \in Ids
        BY <1>1, <2>1, TodoTail DEF AInv
    <2> QED
        BY <2>1, <2>2
<1>4. key \in Seq(Nat) /\ block \in Blocks
    <2> HIDE DEF i
    <2> QED
        BY <1>1, <1>2, <1>3, RegisterFacts DEF AInv
<1>5. /\ seq \in [Ids -> SequenceStates] /\ refs \in [Blocks -> Int] /\ CacheCapacity \in Nat
      /\ cache \in Seq(Entries) /\ KeysOnce(cache) /\ Len(cache) <= CacheCapacity
    BY SeqTypes, AccountedForm, Constants DEF AInv
<1> HIDE DEF key, block, i
<1>6. e \in Entries /\ e.key = key /\ e.block = block
    BY <1>4 DEF Entries
<1>7. CASE UNCHANGED <<refs, cache>>
    BY <1>2, <1>7, AccountedKept DEF AInv
<1>8. CASE key \notin Keys(cache) /\ refs' = FreedAll(SharedOnce(refs, block), gone)
           /\ cache' = Pushed(cache, e)
    <2> HIDE DEF e
    <2>1. PICK base :
              /\ base \in Seq(Entries) /\ KeysOnce(base) /\ Len(base) < CacheCapacity
              /\ cache' = Append(base, e) /\ e.key \notin Keys(base)
              /\ \A y \in Blocks : refs'[y] = refs[y] + (IF block = y THEN 1 ELSE 0)
                     - (Occurrences(y, BlocksOf(cache)) - Occurrences(y, BlocksOf(base)))
        <3>1. CASE Len(cache) < CacheCapacity
            <4>1. gone = <<>> /\ cache' = Append(cache, e)
                BY <1>8, <3>1 DEF PushEvicts, Pushed
            <4>2. ASSUME NEW y \in Blocks
                  PROVE  refs'[y] = refs[y] + (IF block = y THEN 1 ELSE 0)
                            - (Occurrences(y, BlocksOf(cache)) - Occurrences(y, BlocksOf(cache)))
                <5>1. Occurrences(y, gone) = 0
                    BY <4>1, OccursEmpty
                <5>2. refs[y] \in Int /\ Occurrences(y, BlocksOf(cache)) \in Nat
                    BY <1>5, BlocksOfType
                <5>3. SharedOnce(refs, block)[y] = refs[y] + (IF block = y THEN 1 ELSE 0)
                    BY <1>4, <1>5, <5>2 DEF SharedOnce
                <5>4. refs'[y] = SharedOnce(refs, block)[y] - 0
                    BY <1>8, <5>1 DEF FreedAll
                <5> QED
                    BY <5>2, <5>3, <5>4
            <4> QED
                BY <1>5, <1>6, <1>8, <3>1, <4>1, <4>2
        <3>2. CASE ~ (Len(cache) < CacheCapacity)
            <4>1. cache # <<>>
                BY <1>2, <1>5, <3>2
            <4>2. gone = <<Head(cache).block>> /\ cache' = Append(Tail(cache), e)
                BY <1>8, <3>2 DEF PushEvicts, Pushed
            <4>3. /\ KeysOnce(Tail(cache)) /\ Tail(cache) \in Seq(Entries) /\ Head(cache) \in Entries
                  /\ Len(Tail(cache)) = Len(cache) - 1
                BY <1>5, <4>1, CountTail
            <4>4. e.key \notin Keys(Tail(cache))
                <5>1. Range(Tail(cache)) \subseteq Range(cache)
                    BY <1>5, <4>1, CountTail
                <5> QED
                    BY <1>5, <1>6, <1>8, <4>3, <5>1, KeysRange
            <4>5. ASSUME NEW y \in Blocks
                  PROVE  refs'[y] = refs[y] + (IF block = y THEN 1 ELSE 0)
                            - (Occurrences(y, BlocksOf(cache)) - Occurrences(y, BlocksOf(Tail(cache))))
                <5> DEFINE one == IF Head(cache).block = y THEN 1 ELSE 0
                           c == Occurrences(y, BlocksOf(cache))
                           d == Occurrences(y, BlocksOf(Tail(cache)))
                <5>1. Head(cache).block \in Blocks
                    BY <4>3 DEF Entries
                <5>2. Occurrences(y, gone) = one
                    BY <4>2, <5>1, OccursOne
                <5>3. refs[y] \in Int /\ c \in Nat
                    BY <1>5, BlocksOfType
                <5>4. d = c - one
                    BY <1>5, <4>1, CountTail
                <5>5. SharedOnce(refs, block)[y] = refs[y] + (IF block = y THEN 1 ELSE 0)
                    BY <1>4, <1>5, <5>3 DEF SharedOnce
                <5>6. refs'[y] = SharedOnce(refs, block)[y] - one
                    BY <1>8, <5>2 DEF FreedAll
                <5> HIDE DEF c, d
                <5>7. refs'[y] = refs[y] + (IF block = y THEN 1 ELSE 0) - (c - d)
                    BY <5>3, <5>4, <5>5, <5>6
                <5> QED
                    BY <5>7 DEF c, d
            <4>6. Len(Tail(cache)) < CacheCapacity
                BY <1>5, <4>3
            <4> QED
                BY <4>2, <4>3, <4>4, <4>5, <4>6
        <3> QED
            BY <3>1, <3>2
    <2>2. KeysOnce(cache') /\ Len(cache') <= CacheCapacity
        <3>1. KeysOnce(Append(base, e)) /\ Len(Append(base, e)) = Len(base) + 1
            BY <1>6, <2>1, CountPush DEF e
        <3>2. Len(base) \in Nat
            BY <2>1
        <3> QED
            BY <1>5, <2>1, <3>1, <3>2
    <2>3. ASSUME NEW y \in Blocks
          PROVE  refs'[y] = SumFunctionOnSet(TableOf(seq', y), Ids) + Occurrences(y, BlocksOf(cache'))
        <3> DEFINE held == SumFunctionOnSet(TableOf(seq, y), Ids)
                   c == Occurrences(y, BlocksOf(cache))
                   d == Occurrences(y, BlocksOf(base))
                   f == Occurrences(y, BlocksOf(Append(base, e)))
                   one == IF block = y THEN 1 ELSE 0
        <3>1. refs[y] = held + c /\ c \in Nat /\ refs[y] \in Int /\ d \in Nat /\ held \in Nat
            BY <1>5, <2>1, AccountedForm, BlocksOfType, HeldNat DEF AInv
        <3>2. refs'[y] = refs[y] + one - (c - d)
            BY <2>1
        <3>3. f = d + one
            BY <1>6, <2>1, CountPush DEF e
        <3> HIDE DEF held, c, d, f
        <3>4. refs'[y] = held + f
            BY <3>1, <3>2, <3>3
        <3> QED
            BY <1>2, <2>1, <3>4 DEF held, f
    <2> QED
        BY <2>2, <2>3, AccountedForm
<1> QED
    BY <1>2, <1>7, <1>8

\* A failed step frees all it drops.
LEMMA AccountedFails ==
    ASSUME AInv, CInv', StepFails
    PROVE  Accounted'
<1> DEFINE giveUp == consecutive_errors + 1 >= MAX_CONSECUTIVE_ERRORS
           D == Range(running) \cup (IF giveUp THEN Range(waiting) ELSE {})
<1>1. /\ refs' = [b \in Blocks |-> refs[b] - HeldBy(D, b)]
      /\ seq' = [id \in Ids |-> IF id \in D THEN Absent ELSE seq[id]] /\ cache' = cache
    BY DEF StepFails
<1>2. D \subseteq Ids
    BY Types DEF AInv, CInv
<1> HIDE DEF D
<1>3. /\ seq \in [Ids -> SequenceStates] /\ seq' \in [Ids -> SequenceStates] /\ refs \in [Blocks -> Int]
      /\ cache \in Seq(Entries)
    BY SeqTypes DEF AInv
<1>4. \A x \in Ids : seq'[x].block_ids = IF x \in D THEN <<>> ELSE seq[x].block_ids
    BY <1>1, AbsentState
<1>5. ASSUME NEW b \in Blocks
      PROVE  refs'[b] = SumFunctionOnSet(TableOf(seq', b), Ids) + Occurrences(b, BlocksOf(cache'))
    <2> DEFINE held == SumFunctionOnSet(TableOf(seq, b), Ids)
               kept == SumFunctionOnSet(TableOf(seq', b), Ids)
               own == SumFunctionOnSet(TableOf(seq, b), D)
               c == Occurrences(b, BlocksOf(cache))
    <2>1. refs[b] = held + c /\ c \in Nat /\ refs[b] \in Int
        BY <1>3, AccountedForm, BlocksOfType DEF AInv
    <2>2. held = own + kept /\ own \in Nat /\ kept \in Nat
        <3>1. D \in SUBSET Ids /\ Emptied(seq, seq', D)
            BY <1>2, <1>4 DEF Emptied
        <3> QED
            BY <1>3, <3>1, TablesDropped
    <2>3. refs'[b] = refs[b] - own
        BY <1>1, HeldByTable
    <2> HIDE DEF held, kept, own, c
    <2>4. refs'[b] = kept + c
        BY <2>1, <2>2, <2>3
    <2> QED
        BY <1>1, <2>4 DEF kept, c
<1> QED
    BY <1>1, <1>5, AccountedForm DEF AInv

\* An empty engine holds nothing.
LEMMA AccountedInit == Init => Accounted
<1> SUFFICES ASSUME Init PROVE Accounted
    OBVIOUS
<1>1. refs = [b \in Blocks |-> 0] /\ seq = [id \in Ids |-> Absent] /\ cache = <<>>
    BY DEF Init, SchedulerInit, PoolInit
<1>2. KeysOnce(cache) /\ Len(cache) <= CacheCapacity
    BY <1>1, Constants DEF KeysOnce
<1>3. ASSUME NEW b \in Blocks
      PROVE  refs[b] = SumFunctionOnSet(TableOf(seq, b), Ids) + Occurrences(b, BlocksOf(cache))
    <2> DEFINE w == TableOf(seq, b)
    <2>1. \A id \in Ids : w[id] = 0
        BY <1>1, AbsentState, OccursEmpty DEF TableOf
    <2> HIDE DEF w
    <2>2. SumFunctionOnSet(w, Ids) = 0
        BY <2>1, Constants, SumZero
    <2>3. BlocksOf(cache) = <<>>
        BY <1>1 DEF BlocksOf
    <2> QED
        BY <1>1, <2>2, <2>3, OccursEmpty DEF w
<1> QED
    BY <1>2, <1>3, AccountedForm

\* Every step keeps the references matched to their holders.
LEMMA AccountedStep == AInv /\ [Next]_vars => Accounted'
<1> SUFFICES ASSUME AInv, [Next]_vars PROVE Accounted'
    OBVIOUS
<1>1. CInv /\ CInv' /\ Accounted
    BY ControlStep DEF AInv
<1>2. seq \in [Ids -> SequenceStates]
    BY <1>1, SeqTypes
<1>3. CASE UNCHANGED <<refs, cache, seq>>
    BY <1>1, <1>3, AccountedKept
<1>4. CASE UNCHANGED vars
    BY <1>3, <1>4 DEF vars
<1>5. CASE /\ ScheduleDecodes \/ ScheduleBoundaryDecode \/ BoundaryDone \/ ScheduleDone
           /\ UNCHANGED engineVars
    BY <1>3, <1>5 DEF ScheduleDecodes, ScheduleBoundaryDecode, BoundaryDone, ScheduleDone, schedVars
<1>6. CASE PlanDone \/ ForwardNext \/ ForwardExhausted \/ ForwardDone
    BY <1>3, <1>6 DEF PlanDone, ForwardNext, ForwardExhausted, ForwardDone, schedVars
<1>7. CASE RegisterDone \/ SampleDone \/ DeviceFault
    BY <1>3, <1>7 DEF RegisterDone, SampleDone, DeviceFault, schedVars
<1>8. CASE EvictForDecode \/ EvictForPrefill
    BY <1>1, <1>8, AccountedEvict DEF EvictForDecode, EvictForPrefill, AInv
<1>9. CASE TouchForPrefill
    <2>1. /\ cache' = Touched(cache, seq[Head(waiting)].all_tokens) /\ UNCHANGED <<refs, seq>>
          /\ waiting # <<>>
        BY <1>9 DEF TouchForPrefill, CanAdmitMore
    <2>2. waiting \in Seq(Ids)
        BY <1>1, Types DEF CInv
    <2>3. Head(waiting) \in Ids
        BY <2>1, <2>2
    <2>4. seq[Head(waiting)].all_tokens \in Seq(Nat)
        BY <1>2, <2>3, StateTypes
    <2> QED
        BY <2>1, <2>4, AccountedTouch
<1>10. CASE Preempt
    <2>1. PICK id : id = Head(todo)
        OBVIOUS
    <2>2. /\ todo # <<>> /\ refs' = FreedAll(refs, seq[id].block_ids)
          /\ seq' = [seq EXCEPT ![id] = Preempted(seq[id])] /\ UNCHANGED cache
        BY <1>10, <2>1 DEF Preempt
    <2>3. id \in Ids
        BY <1>1, <2>1, <2>2, TodoTail
    <2>4. Preempted(seq[id]).block_ids = <<>>
        BY <1>2, <2>3, PreemptedState
    <2>5. seq'[id].block_ids = <<>> /\ \A x \in Ids : x # id => seq'[x].block_ids = seq[x].block_ids
        BY <1>2, <2>2, <2>3, <2>4
    <2> QED
        BY <1>1, <2>2, <2>3, <2>5, AccountedFreed
<1>11. CASE RetireOne
    <2>1. PICK id : id = Head(todo)
        OBVIOUS
    <2>2. /\ todo # <<>> /\ refs' = FreedAll(refs, seq[id].block_ids)
          /\ seq' = [seq EXCEPT ![id] = Cleared(seq[id])] /\ UNCHANGED cache
        BY <1>11, <2>1 DEF RetireOne
    <2>3. id \in Ids
        BY <1>1, <2>1, <2>2, TodoTail
    <2>4. Cleared(seq[id]).block_ids = <<>>
        BY <1>2, <2>3, ClearedState
    <2>5. seq'[id].block_ids = <<>> /\ \A x \in Ids : x # id => seq'[x].block_ids = seq[x].block_ids
        BY <1>2, <2>2, <2>3, <2>4
    <2> QED
        BY <1>1, <2>2, <2>3, <2>5, AccountedFreed
<1>12. ASSUME NEW id \in Ids, AbortSequence(id) PROVE Accounted'
    <2>1. /\ refs' = FreedAll(refs, seq[id].block_ids) /\ UNCHANGED cache
          /\ seq' = [seq EXCEPT ![id] = Absent]
        BY <1>12 DEF AbortSequence, abort_sequence, AbortRunningOne, AbortWaitingOne
    <2>2. seq'[id].block_ids = <<>> /\ \A x \in Ids : x # id => seq'[x].block_ids = seq[x].block_ids
        BY <1>2, <2>1, AbsentState
    <2> QED
        BY <1>1, <2>1, <2>2, AccountedFreed
<1>13. CASE AdmitPrefill
    <2>1. PICK id : id = Head(waiting)
        OBVIOUS
    <2>2. /\ waiting # <<>> /\ UNCHANGED <<refs, cache>>
          /\ seq' = [seq EXCEPT ![id].status = "Running", ![id].phase = "Prefill"]
        BY <1>13, <2>1 DEF AdmitPrefill, CanAdmitMore
    <2>3. waiting \in Seq(Ids)
        BY <1>1, Types DEF CInv
    <2>4. id \in Ids
        BY <2>1, <2>2, <2>3
    <2> DEFINE old == seq[id]
               s == [old EXCEPT !.status = "Running", !.phase = "Prefill"]
    <2>5. old \in SequenceStates /\ seq' = [seq EXCEPT ![id] = s]
        BY <1>2, <2>2, <2>4
    <2> HIDE DEF s, old
    <2>6. s.block_ids = old.block_ids
        BY <2>5, AdmittedState DEF s
    <2>7. \A x \in Ids : seq'[x].block_ids = seq[x].block_ids
        BY <1>2, <2>4, <2>5, <2>6 DEF old
    <2> QED
        BY <1>1, <2>2, <2>7, AccountedKept
<1>14. CASE SampleToken
    <2>1. PICK id : id = Head(todo)
        OBVIOUS
    <2>2. PICK tok \in Tokens, isStop \in BOOLEAN : seq' = [seq EXCEPT ![id] = Advanced(@, tok, isStop)]
        BY <1>14, <2>1 DEF SampleToken
    <2>3. todo # <<>> /\ UNCHANGED <<refs, cache>>
        BY <1>14 DEF SampleToken
    <2>4. id \in Ids /\ tok \in Nat
        BY <1>1, <2>1, <2>3, TodoTail, Constants
    <2> DEFINE old == seq[id]
               s == Advanced(old, tok, isStop)
    <2>5. old \in SequenceStates /\ seq' = [seq EXCEPT ![id] = s]
        BY <1>2, <2>2, <2>4
    <2> HIDE DEF s, old
    <2>6. s.block_ids = old.block_ids
        BY <2>4, <2>5, AdvancedState DEF s
    <2>7. \A x \in Ids : seq'[x].block_ids = seq[x].block_ids
        BY <1>2, <2>4, <2>5, <2>6 DEF old
    <2> QED
        BY <1>1, <2>3, <2>7, AccountedKept
<1>15. CASE StepReturns
    <2>1. /\ pc = "retire" /\ todo = <<>> /\ UNCHANGED <<refs, cache>>
          /\ seq' = [id \in Ids |-> IF seq[id].status = "Finished" THEN Absent ELSE seq[id]]
        BY <1>15 DEF StepReturns
    <2>2. \A x \in Ids : seq[x].status = "Finished" => x \notin Run
        BY <1>1, <2>1 DEF CInv, Lists, Range
    <2>3. \A x \in Ids : seq[x].status = "Finished" => seq[x].block_ids = <<>>
        BY <1>1, <2>2 DEF CInv, Status, StatusOf
    <2>4. \A x \in Ids : seq'[x].block_ids = seq[x].block_ids
        BY <2>1, <2>3, AbsentState
    <2> QED
        BY <1>1, <2>1, <2>4, AccountedKept
<1>16. ASSUME NEW id \in Ids, NEW prompt \in Prompts, NEW max \in MaxTokensChoices,
              AddRequest(id, prompt, max)
       PROVE  Accounted'
    <2>1. /\ outcome[id] = "new" /\ UNCHANGED <<refs, cache>>
          /\ seq' = [seq EXCEPT ![id] = NewSequence(prompt, max)]
        BY <1>16 DEF AddRequest, add_request
    <2>2. seq[id].block_ids = <<>>
        BY <1>1, <2>1 DEF CInv, Status, StatusOf
    <2>3. NewSequence(prompt, max).block_ids = <<>>
        BY DEF NewSequence
    <2>4. \A x \in Ids : seq'[x].block_ids = seq[x].block_ids
        BY <1>2, <2>1, <2>2, <2>3
    <2> QED
        BY <1>1, <2>1, <2>4, AccountedKept
<1>17. CASE PlanPrefill
    BY <1>1, <1>17, AccountedPlan DEF AInv
<1>18. CASE ForwardAppend
    BY <1>1, <1>18, AccountedAppend DEF AInv
<1>19. CASE RegisterBlock
    BY <1>1, <1>19, AccountedRegister DEF AInv
<1>20. CASE StepFails
    BY <1>1, <1>20, AccountedFails DEF AInv
<1> QED
    BY <1>4, <1>5, <1>6, <1>7, <1>8, <1>9, <1>10, <1>11, <1>12, <1>13, <1>14, <1>15, <1>16,
       <1>17, <1>18, <1>19, <1>20, Cases

\* The counts are numbers.
LEMMA AccountedTyped == AInv => TypeOK /\ RefsMatchHolders
<1> SUFFICES ASSUME AInv PROVE TypeOK /\ RefsMatchHolders
    OBVIOUS
<1>1. seq \in [Ids -> SequenceStates] /\ cache \in Seq(Entries) /\ refs \in [Blocks -> Int]
    BY SeqTypes DEF AInv
<1>2. \A b \in Blocks : refs[b] \in Nat
    <2> SUFFICES ASSUME NEW b \in Blocks PROVE refs[b] \in Nat
        OBVIOUS
    <2>1. refs[b] = SumFunctionOnSet(TableOf(seq, b), Ids) + Occurrences(b, BlocksOf(cache))
        BY AccountedForm DEF AInv
    <2>2. SumFunctionOnSet(TableOf(seq, b), Ids) \in Nat /\ Occurrences(b, BlocksOf(cache)) \in Nat
        BY <1>1, HeldNat, BlocksOfType
    <2> QED
        BY <2>1, <2>2
<1>3. refs \in [Blocks -> Nat]
    BY <1>1, <1>2
<1> QED
    BY <1>3 DEF AInv, CInv, Typed, TypeOK, Accounted

\* Every reference the BlockAllocator counts is a block table's or a prefix
\* entry's, at every point of every step: sharing on a prefix hit, registration,
\* eviction, preemption, retirement, aborts and a step that fails half way leak
\* no block and free none twice.
THEOREM ReferencesAccounted == Spec => [](TypeOK /\ RefsMatchHolders)
<1>1. Init => AInv
    BY ControlInit, AccountedInit DEF AInv
<1>2. AInv /\ [Next]_vars => AInv'
    BY ControlStep, AccountedStep DEF AInv
<1> QED
    BY <1>1, <1>2, AccountedTyped, PTL DEF Spec

-----------------------------------------------------------------------------
(* Where a block is.                                                       *)

\* A block occurs in a list no time exactly when it is not in it.
LEMMA OccursNowhere ==
    ASSUME NEW T, NEW s \in Seq(T), NEW b
    PROVE  Occurrences(b, s) = 0 <=> \A i \in 1 .. Len(s) : s[i] # b
<1>1. Occurrences(b, s) = 0 => \A i \in 1 .. Len(s) : s[i] # b
    BY OccursAbsent
<1>2. ASSUME \A i \in 1 .. Len(s) : s[i] # b PROVE Occurrences(b, s) = 0
    <2>1. {i \in DOMAIN s : s[i] = b} = {}
        BY <1>2
    <2> QED
        BY <2>1, FS_EmptySet DEF Occurrences
<1> QED
    BY <1>1, <1>2

\* A block that no entry names is counted no time among the entries.
LEMMA EntriesNowhere ==
    ASSUME NEW c \in Seq(Entries), NEW b
    PROVE  Occurrences(b, BlocksOf(c)) = 0 <=> ~InEntries(c, b)
<1>1. BlocksOf(c) \in Seq(Blocks)
    BY BlocksOfType
<1>2. Len(BlocksOf(c)) = Len(c) /\ \A i \in 1 .. Len(c) : BlocksOf(c)[i] = c[i].block
    BY DEF BlocksOf
<1>3. \A e : e \in Range(c) <=> \E i \in 1 .. Len(c) : c[i] = e
    BY RangeMember
<1> QED
    BY <1>1, <1>2, <1>3, OccursNowhere DEF InEntries

\* A free block is in no table and no entry.
LEMMA FreeNowhere ==
    ASSUME AInv, NEW b \in Blocks, refs[b] = 0
    PROVE  ~InEntries(cache, b) /\ \A x \in Ids, i \in Nat : ~InTable(seq[x], i, b)
<1>1. seq \in [Ids -> SequenceStates] /\ cache \in Seq(Entries)
    BY SeqTypes DEF AInv
<1> DEFINE v == TableOf(seq, b)
           c == Occurrences(b, BlocksOf(cache))
           held == SumFunctionOnSet(v, Ids)
<1>2. refs[b] = held + c
    BY AccountedForm DEF AInv
<1>3. held \in Nat /\ c \in Nat
    BY <1>1, HeldNat, BlocksOfType
<1>4. held = 0 /\ c = 0
    <2> HIDE DEF held, c
    <2> QED
        BY <1>2, <1>3
<1>5. ~InEntries(cache, b)
    BY <1>1, <1>4, EntriesNowhere
<1>6. ASSUME NEW x \in Ids PROVE Occurrences(b, seq[x].block_ids) = 0
    <2>1. \A y \in Ids : v[y] \in Nat /\ v[y] = Occurrences(b, seq[y].block_ids)
        BY <1>1, TableTypes
    <2> HIDE DEF v
    <2> DEFINE rest == SumFunctionOnSet(v, Ids \ {x})
    <2>2. held = v[x] + rest /\ rest \in Nat
        <3>1. IsFiniteSet(Ids) /\ IsFiniteSet(Ids \ {x}) /\ (Ids \ {x}) \subseteq Ids
            BY Constants, FS_Subset
        <3>2. \A y \in Ids \ {x} : v[y] \in Nat
            BY <2>1
        <3>3. held = v[x] + rest
            BY <2>1, <3>1, SumRemove
        <3>4. rest \in Nat
            BY <3>1, <3>2, SumRemove
        <3> QED
            BY <3>3, <3>4
    <2> HIDE DEF held, rest
    <2>3. v[x] = 0
        BY <1>4, <2>1, <2>2
    <2> QED
        BY <2>1, <2>3
<1>7. ASSUME NEW x \in Ids, NEW i \in Nat PROVE ~InTable(seq[x], i, b)
    <2>1. seq[x].block_ids \in Seq(Blocks)
        BY <1>1, StateTypes
    <2> QED
        BY <1>6, <2>1, OccursAbsent DEF InTable
<1> QED
    BY <1>5, <1>7

\* A block that is in one place has one reference, and it is the table's.
LEMMA SoleOnce ==
    ASSUME AInv, NEW id \in Ids, seq[id].block_ids # <<>>, Sole(seq, cache, id),
           NEW b, b = seq[id].block_ids[Len(seq[id].block_ids)]
    PROVE  refs[b] <= 1 /\ Occurrences(b, BlocksOf(cache)) = 0
<1>1. seq \in [Ids -> SequenceStates] /\ cache \in Seq(Entries) /\ refs \in [Blocks -> Int]
    BY SeqTypes DEF AInv
<1> DEFINE s == seq[id].block_ids
           v == TableOf(seq, b)
           held == SumFunctionOnSet(v, Ids)
           rest == SumFunctionOnSet(v, Ids \ {id})
<1>2. s \in Seq(Blocks) /\ Len(s) \in 1 .. Len(s) /\ b \in Blocks
    BY <1>1, StateTypes
<1>3. Occurrences(b, BlocksOf(cache)) = 0
    BY <1>1, EntriesNowhere DEF Sole
<1>4. \A y \in Ids : v[y] \in Nat /\ v[y] = Occurrences(b, seq[y].block_ids)
    BY <1>1, TableTypes
<1>5. Occurrences(b, s) = 1
    <2>1. \A i \in 1 .. Len(s) : s[i] = b => i = Len(s)
        BY DEF Sole, InTable
    <2>2. {i \in DOMAIN s : s[i] = b} = {Len(s)}
        BY <1>2, <2>1
    <2> QED
        BY <2>2, FS_Singleton DEF Occurrences
<1>6. ASSUME NEW x \in Ids \ {id} PROVE Occurrences(b, seq[x].block_ids) = 0
    <2>1. \A i \in 1 .. Len(seq[x].block_ids) : seq[x].block_ids[i] # b
        BY DEF Sole, InTable
    <2>2. seq[x].block_ids \in Seq(Blocks)
        BY <1>1, StateTypes
    <2> QED
        BY <2>1, <2>2, OccursNowhere
<1> HIDE DEF v
<1>7. IsFiniteSet(Ids) /\ IsFiniteSet(Ids \ {id})
    BY Constants, FS_Subset
<1>8. rest = 0
    BY <1>4, <1>6, <1>7, SumZero
<1>9. held = v[id] + rest
    BY <1>4, <1>7, SumRemove
<1>10. refs[b] = held + Occurrences(b, BlocksOf(cache))
    BY <1>2, AccountedForm DEF AInv, v
<1> QED
    BY <1>3, <1>4, <1>5, <1>8, <1>9, <1>10

-----------------------------------------------------------------------------
(* What blocks hold stays what it was, in the steps that write none.       *)

Longer(p, q) == Len(p) <= Len(q) /\ \A i \in 1 .. Len(p) : q[i] = p[i]
SameTable(s, t) ==
    t.block_ids = s.block_ids /\ t.num_tokens = s.num_tokens /\ Longer(s.all_tokens, t.all_tokens)
BInv == AInv /\ Contents

\* Appending makes a sequence of tokens longer.
LEMMA LongerAppend ==
    ASSUME NEW p \in Seq(Nat), NEW x \in Nat
    PROVE  Longer(p, p) /\ Longer(p, Append(p, x))
BY DEF Longer

\* A longer list of tokens has the same prefixes,
LEMMA PrefixSame ==
    ASSUME NEW p \in Seq(Nat), NEW q \in Seq(Nat), Longer(p, q), NEW n \in Nat, n <= Len(p)
    PROVE  SubSeq(q, 1, n) = SubSeq(p, 1, n)
<1>1. n <= Len(q) /\ Len(p) \in Nat /\ Len(q) \in Nat
    BY DEF Longer
<1>2. /\ SubSeq(p, 1, n) = [i \in 1 .. n |-> p[i]]
      /\ SubSeq(q, 1, n) = [i \in 1 .. n |-> q[i]]
    BY <1>1
<1>3. \A i \in 1 .. n : q[i] = p[i]
    BY <1>1 DEF Longer
<1> QED
    BY <1>2, <1>3

\* hence the same keys for its first blocks.
LEMMA KeySame ==
    ASSUME NEW s \in SequenceStates, s.num_tokens <= Len(s.all_tokens), NEW q \in Seq(Nat),
           Longer(s.all_tokens, q), NEW i \in 1 .. Filled(s)
    PROVE  PrefixKey(q, i) = PrefixKey(s.all_tokens, i)
<1>1. /\ s.all_tokens \in Seq(Nat) /\ s.num_tokens \in Nat /\ BlockSize \in Nat /\ BlockSize >= 1
      /\ Len(s.all_tokens) \in Nat
    BY StateTypes, Constants
<1>2. i \in Nat /\ i <= s.num_tokens \div BlockSize
    <2>1. s.num_tokens \div BlockSize \in Nat
        BY <1>1, DivMod
    <2> QED
        BY <2>1 DEF Filled
<1>3. i * BlockSize \in Nat /\ i * BlockSize <= s.num_tokens
    BY <1>1, <1>2, BlocksFit
<1> DEFINE n == i * BlockSize
<1>4. n \in Nat /\ n <= Len(s.all_tokens)
    BY <1>1, <1>3
<1> HIDE DEF n
<1>5. SubSeq(q, 1, n) = SubSeq(s.all_tokens, 1, n)
    BY <1>1, <1>4, PrefixSame
<1> QED
    BY <1>5 DEF PrefixKey, n

\* A prompt's blocks hold its prefixes as long as neither changes.
LEMMA HoldsKept ==
    ASSUME NEW s \in SequenceStates, NEW t \in SequenceStates, SameTable(s, t), NEW ct,
           HoldsPrompt(ct, s)
    PROVE  HoldsPrompt(ct, t) /\ Filled(t) = Filled(s)
<1>1. Filled(t) = Filled(s)
    BY DEF SameTable, Filled
<1>2. t.num_tokens <= Len(t.all_tokens)
    <2>1. /\ s.num_tokens \in Nat /\ Len(s.all_tokens) \in Nat /\ Len(t.all_tokens) \in Nat
          /\ s.num_tokens <= Len(s.all_tokens)
        BY StateTypes DEF HoldsPrompt
    <2> QED
        BY <2>1 DEF SameTable, Longer
<1>3. ASSUME NEW i \in 1 .. Filled(s)
      PROVE  i \in 1 .. Len(t.block_ids) /\ ct[t.block_ids[i]] = PrefixKey(t.all_tokens, i)
    <2>1. t.all_tokens \in Seq(Nat) /\ Longer(s.all_tokens, t.all_tokens)
        BY StateTypes DEF SameTable
    <2>2. PrefixKey(t.all_tokens, i) = PrefixKey(s.all_tokens, i)
        BY <2>1, KeySame DEF HoldsPrompt
    <2>3. i \in 1 .. Len(s.block_ids) /\ ct[s.block_ids[i]] = PrefixKey(s.all_tokens, i)
        BY DEF HoldsPrompt
    <2> QED
        BY <2>2, <2>3 DEF SameTable
<1> QED
    BY <1>1, <1>2, <1>3 DEF HoldsPrompt

\* A block in one place stays in one place when no table and no entry gains it.
LEMMA SoleKept ==
    ASSUME NEW p, NEW q, NEW c, NEW d, NEW id \in Ids, Sole(p, c, id), Range(d) \subseteq Range(c),
           q[id].block_ids = p[id].block_ids,
           \A x \in Ids : q[x].block_ids = p[x].block_ids \/ q[x].block_ids = <<>>
    PROVE  Sole(q, d, id)
<1> DEFINE last == Len(p[id].block_ids)
           b == p[id].block_ids[last]
<1>1. ~InEntries(d, b)
    BY DEF Sole, InEntries
<1>2. ASSUME NEW x \in Ids, NEW i \in Nat, InTable(q[x], i, b) PROVE x = id /\ i = last
    <2>1. q[x].block_ids # <<>>
        BY <1>2 DEF InTable
    <2>2. InTable(p[x], i, b)
        BY <1>2, <2>1 DEF InTable
    <2> QED
        BY <2>2 DEF Sole
<1> QED
    BY <1>1, <1>2 DEF Sole

\* A step that writes no block, grows no table and adds no entry.
LEMMA ContentsKept ==
    ASSUME BInv, CInv', content' = content, Range(cache') \subseteq Range(cache), Run' \subseteq Run,
           \A x \in Ids : seq'[x].block_ids = seq[x].block_ids \/ seq'[x].block_ids = <<>>,
           \A x \in Run' : SameTable(seq[x], seq'[x]),
           \/ prefill_ids' = prefill_ids /\ cached_blocks' = cached_blocks
           \/ prefill_ids' = <<>> /\ \A x \in Ids : cached_blocks'[x] = 0
    PROVE  Contents'
<1>1. seq \in [Ids -> SequenceStates] /\ seq' \in [Ids -> SequenceStates] /\ Run \subseteq Ids
    BY SeqTypes, Types DEF BInv, AInv, CInv, Run
<1>2. Truthful(content', cache')
    BY DEF BInv, Contents, Truthful
<1>3. \A id \in Ids : cached_blocks'[id] > 0 => id \in Range(prefill_ids')
    BY DEF BInv, Contents
<1>4. ASSUME NEW id \in Range(prefill_ids') \cap Run'
      PROVE  HoldsPrompt(content', seq'[id]) /\ cached_blocks'[id] <= Filled(seq'[id])
    <2>1. prefill_ids' = prefill_ids /\ cached_blocks' = cached_blocks
        BY <1>4 DEF Range
    <2>2. id \in Ids /\ id \in Range(prefill_ids) \cap Run
        BY <1>1, <2>1
    <2>3. HoldsPrompt(content, seq[id]) /\ cached_blocks[id] <= Filled(seq[id])
        BY <2>2 DEF BInv, Contents
    <2>4. seq[id] \in SequenceStates /\ seq'[id] \in SequenceStates /\ SameTable(seq[id], seq'[id])
        BY <1>1, <2>2
    <2>5. HoldsPrompt(content, seq'[id]) /\ Filled(seq'[id]) = Filled(seq[id])
        BY <2>3, <2>4, HoldsKept
    <2> QED
        BY <2>1, <2>3, <2>5
<1>5. ASSUME NEW id \in Run', seq'[id].num_tokens % BlockSize # 0 PROVE Sole(seq', cache', id)
    <2>1. id \in Ids /\ id \in Run /\ SameTable(seq[id], seq'[id])
        BY <1>1
    <2>2. seq[id].num_tokens % BlockSize # 0 /\ seq'[id].block_ids = seq[id].block_ids
        BY <1>5, <2>1 DEF SameTable
    <2>3. Sole(seq, cache, id)
        BY <2>1, <2>2 DEF BInv, Contents
    <2> QED
        BY <2>1, <2>2, <2>3, SoleKept
<1> QED
    BY <1>2, <1>3, <1>4, <1>5 DEF Contents

-----------------------------------------------------------------------------
(* The steps that share, write and register blocks.                        *)

\* What a prompt shares is what its own prefix's entries name.
LEMMA PlanBlocks ==
    ASSUME CInv, PlanPrefill, NEW id, id = Head(todo)
    PROVE  \A i \in 1 .. PlanCount(id) :
              \E e \in Range(cache) : /\ e.key = PrefixKey(seq[id].all_tokens, i)
                                      /\ e.block = PlanTable(id)[i]
<1> DEFINE tokens == seq[id].all_tokens
           k == CountCachedBlocks(cache, tokens)
           n == PlanCount(id)
<1>1. /\ seq[id] \in SequenceStates /\ n \in Nat /\ n <= k /\ cache \in Seq(Entries)
    BY PlanFacts, SeqTypes
<1>2. tokens \in Seq(Nat)
    BY <1>1, StateTypes
<1>3. k \in Nat /\ \A i \in 1 .. k : PrefixKey(tokens, i) \in Keys(cache)
    BY <1>2, CountFacts
<1> DEFINE m == MatchedBlocks(cache, tokens)
<1>4. /\ m \in Seq(Blocks) /\ Len(m) = k
      /\ \A i \in 1 .. k : m[i] = EntryOf(cache, PrefixKey(tokens, i)).block
    BY <1>1, <1>2, MatchedFacts
<1>5. PlanTable(id) = SubSeq(m, 1, n)
    BY DEF PlanTable
<1> HIDE DEF m, n, k, tokens
<1>6. \A i \in 1 .. n : SubSeq(m, 1, n)[i] = m[i] /\ i \in 1 .. k
    BY <1>1, <1>3, <1>4
<1>7. ASSUME NEW i \in 1 .. n
      PROVE  \E e \in Range(cache) : e.key = PrefixKey(tokens, i) /\ e.block = PlanTable(id)[i]
    <2> DEFINE key == PrefixKey(tokens, i)
               e == EntryOf(cache, key)
    <2>1. key \in Keys(cache) /\ PlanTable(id)[i] = e.block
        BY <1>3, <1>4, <1>5, <1>6
    <2> HIDE DEF key
    <2>2. e.key = key /\ \E j \in DOMAIN cache : e = cache[j]
        BY <1>1, <2>1, EntryFacts
    <2>3. e \in Range(cache)
        BY <2>2 DEF Range
    <2> HIDE DEF e
    <2> QED
        BY <2>1, <2>2, <2>3 DEF key
<1> QED
    BY <1>7 DEF n, tokens

\* What a prompt takes from the cache is its own prefix.
LEMMA ContentsPlan ==
    ASSUME BInv, CInv', PlanPrefill
    PROVE  Contents'
<1>1. PICK id : id = Head(todo)
    OBVIOUS
<1> DEFINE bs == PlanTable(id)
           n == PlanCount(id)
           old == seq[id]
<1>2. /\ cache' = Touched(cache, seq[id].all_tokens) /\ UNCHANGED <<content, running, prefill_ids>>
      /\ cached_blocks' = [cached_blocks EXCEPT ![id] = n]
    BY <1>1 DEF PlanPrefill, PlanCount, planVars
<1>3. /\ id \in Range(prefill_ids) /\ id \in Run /\ id \in Ids /\ old \in SequenceStates
      /\ bs \in Seq(Blocks) /\ Len(bs) = n /\ n \in Nat /\ n * BlockSize \in Nat
      /\ n * BlockSize < Len(old.all_tokens)
    BY <1>1, PlanFacts DEF BInv, AInv
<1>4. seq' = [seq EXCEPT ![id] = Grown(old, bs, n * BlockSize)]
    BY <1>1, PlanFacts DEF BInv, AInv, Grown
<1>5. /\ seq \in [Ids -> SequenceStates] /\ seq' \in [Ids -> SequenceStates]
      /\ cache \in Seq(Entries) /\ KeysOnce(cache) /\ old.all_tokens \in Seq(Nat)
      /\ cached_blocks \in [Ids -> Nat] /\ BlockSize \in Nat /\ BlockSize >= 1 /\ Run \subseteq Ids
    BY <1>3, SeqTypes, StateTypes, AccountedForm, Constants, Types DEF BInv, AInv, CInv, Typed, Run
<1>6. Range(cache') = Range(cache)
    BY <1>2, <1>5, CountTouched
<1>7. \A i \in 1 .. n : \E e \in Range(cache) : e.key = PrefixKey(old.all_tokens, i) /\ e.block = bs[i]
    BY <1>1, PlanBlocks DEF BInv, AInv
<1> HIDE DEF bs, n, old
<1>8. /\ seq'[id].block_ids = bs /\ seq'[id].num_tokens = n * BlockSize
      /\ seq'[id].all_tokens = old.all_tokens /\ \A x \in Ids : x # id => seq'[x] = seq[x]
    <2> DEFINE m == n * BlockSize
    <2>1. m \in Nat /\ seq' = [seq EXCEPT ![id] = Grown(old, bs, m)]
        BY <1>3, <1>4
    <2> HIDE DEF m
    <2>2. seq'[id] = Grown(old, bs, m)
        BY <1>3, <1>5, <2>1
    <2>3. seq'[id].block_ids = bs /\ seq'[id].num_tokens = m /\ seq'[id].all_tokens = old.all_tokens
        BY <1>3, <2>1, <2>2, GrownState
    <2>4. \A x \in Ids : x # id => seq'[x] = seq[x]
        BY <1>5, <2>1
    <2> QED
        BY <2>3, <2>4 DEF m
<1>9. (n * BlockSize) \div BlockSize = n /\ (n * BlockSize) % BlockSize = 0
    BY <1>3, <1>5, WholeBlocks
<1>10. Truthful(content', cache')
    BY <1>2, <1>6 DEF BInv, Contents, Truthful
<1>11. \A x \in Ids : cached_blocks'[x] > 0 => x \in Range(prefill_ids')
    BY <1>2, <1>3, <1>5 DEF BInv, Contents
<1>12. Run' = Run /\ cached_blocks'[id] = n /\ \A x \in Ids : x # id => cached_blocks'[x] = cached_blocks[x]
    BY <1>2, <1>3, <1>5 DEF Run
<1>13. ASSUME NEW x \in Range(prefill_ids') \cap Run'
       PROVE  HoldsPrompt(content', seq'[x]) /\ cached_blocks'[x] <= Filled(seq'[x])
    <2>1. CASE x # id
        <3>1. x \in Ids /\ x \in Range(prefill_ids) \cap Run
            BY <1>2, <1>5, <1>12
        <3>2. HoldsPrompt(content, seq[x]) /\ cached_blocks[x] <= Filled(seq[x])
            BY <3>1 DEF BInv, Contents
        <3> QED
            BY <1>2, <1>8, <1>12, <2>1, <3>1, <3>2
    <2>2. CASE x = id
        <3>1. Filled(seq'[id]) = n
            BY <1>8, <1>9 DEF Filled
        <3>2. \A i \in 1 .. n : i \in 1 .. Len(bs) /\ content[bs[i]] = PrefixKey(old.all_tokens, i)
            BY <1>3, <1>7 DEF BInv, Contents, Truthful
        <3>3. n * BlockSize <= Len(old.all_tokens)
            BY <1>3, <1>5
        <3>4. HoldsPrompt(content, seq'[id])
            BY <1>8, <3>1, <3>2, <3>3 DEF HoldsPrompt
        <3> QED
            BY <1>2, <1>3, <1>12, <2>2, <3>1, <3>4
    <2> QED
        BY <2>1, <2>2
<1>14. ASSUME NEW x \in Run', seq'[x].num_tokens % BlockSize # 0 PROVE Sole(seq', cache', x)
    <2>1. x # id /\ x \in Ids /\ x \in Run
        BY <1>5, <1>8, <1>9, <1>12, <1>14
    <2>2. seq'[x] = seq[x] /\ Sole(seq, cache, x)
        BY <1>8, <1>14, <2>1 DEF BInv, Contents
    <2> DEFINE last == Len(seq[x].block_ids)
               b == seq[x].block_ids[last]
    <2>3. ~InEntries(cache, b) /\ \A y \in Ids, i \in Nat : InTable(seq[y], i, b) => y = x /\ i = last
        BY <2>2 DEF Sole
    <2> HIDE DEF b, last
    <2>4. ~InEntries(cache', b)
        BY <1>6, <2>3 DEF InEntries
    <2>5. \A i \in Nat : ~InTable(seq'[id], i, b)
        BY <1>3, <1>7, <1>8, <2>3 DEF InTable, InEntries
    <2>6. \A y \in Ids, i \in Nat : InTable(seq'[y], i, b) => y = x /\ i = last
        BY <1>8, <2>3, <2>5
    <2> QED
        BY <2>2, <2>4, <2>6 DEF Sole, b, last
<1> QED
    BY <1>10, <1>11, <1>13, <1>14 DEF Contents

\* A prompt that is admitted has no table yet.
LEMMA ContentsAdmit ==
    ASSUME BInv, CInv', AdmitPrefill, UNCHANGED engineVars
    PROVE  Contents'
<1>1. PICK id : id = Head(waiting)
    OBVIOUS
<1> DEFINE old == seq[id]
           s == [old EXCEPT !.status = "Running", !.phase = "Prefill"]
<1>2. /\ waiting # <<>> /\ UNCHANGED <<cache, content, cached_blocks>> /\ pc \in {"admit", "evict"}
      /\ running' = Append(running, id) /\ prefill_ids' = Append(prefill_ids, id)
    BY <1>1 DEF AdmitPrefill, CanAdmitMore, engineVars, push_to_running
<1>3. /\ waiting \in Seq(Ids) /\ running \in Seq(Ids) /\ prefill_ids \in Seq(Ids)
      /\ seq \in [Ids -> SequenceStates] /\ seq' \in [Ids -> SequenceStates] /\ Run \subseteq Ids
      /\ cached_blocks \in [Ids -> Nat] /\ BlockSize \in Nat /\ BlockSize >= 1
    BY SeqTypes, Types, Constants DEF BInv, AInv, CInv, Typed, Run
<1>4. id \in Ids /\ id \in Wait
    BY <1>1, <1>2, <1>3 DEF Wait, Range
<1>5. old \in SequenceStates /\ seq' = [seq EXCEPT ![id] = s]
    BY <1>1, <1>3, <1>4 DEF AdmitPrefill
<1>6. id \notin Run /\ id \notin Range(prefill_ids)
    BY <1>2, <1>4 DEF BInv, AInv, CInv, Queues, Lists, Batch
<1>7. old.block_ids = <<>> /\ old.num_tokens = 0
    BY <1>4, <1>6 DEF BInv, AInv, CInv, Status, StatusOf
<1> HIDE DEF s, old
<1>8. s.block_ids = <<>> /\ s.num_tokens = 0 /\ s \in SequenceStates
    BY <1>5, <1>7, AdmittedState DEF s
<1>9. seq'[id] = s /\ \A x \in Ids : x # id => seq'[x] = seq[x]
    BY <1>3, <1>4, <1>5
<1>10. Run' = Run \cup {id} /\ Range(prefill_ids') = Range(prefill_ids) \cup {id}
    BY <1>2, <1>3, <1>4, RangeAppend DEF Run
<1>11. cached_blocks[id] = 0
    <2>1. ~ (cached_blocks[id] > 0)
        BY <1>4, <1>6 DEF BInv, Contents
    <2> QED
        BY <1>3, <1>4, <2>1
<1>12. 0 \div BlockSize = 0 /\ 0 % BlockSize = 0
    BY <1>3
<1>13. ASSUME NEW x \in Range(prefill_ids') \cap Run'
       PROVE  HoldsPrompt(content', seq'[x]) /\ cached_blocks'[x] <= Filled(seq'[x])
    <2>1. CASE x = id
        <3>1. Filled(s) = 0
            BY <1>8, <1>12 DEF Filled
        <3>2. Len(s.all_tokens) \in Nat
            BY <1>8, StateTypes
        <3>3. HoldsPrompt(content, s)
            BY <1>8, <3>1, <3>2 DEF HoldsPrompt
        <3> QED
            BY <1>2, <1>9, <1>11, <2>1, <3>1, <3>3
    <2>2. CASE x # id
        <3>1. x \in Ids /\ x \in Range(prefill_ids) \cap Run
            BY <1>3, <1>10, <2>2
        <3>2. HoldsPrompt(content, seq[x]) /\ cached_blocks[x] <= Filled(seq[x])
            BY <3>1 DEF BInv, Contents
        <3> QED
            BY <1>2, <1>9, <2>2, <3>1, <3>2
    <2> QED
        BY <2>1, <2>2
<1>14. ASSUME NEW x \in Run', seq'[x].num_tokens % BlockSize # 0 PROVE Sole(seq', cache', x)
    <2>1. x # id
        BY <1>8, <1>9, <1>12, <1>14
    <2>2. x \in Ids /\ x \in Run /\ seq'[x] = seq[x]
        BY <1>3, <1>9, <1>10, <2>1
    <2>3. Sole(seq, cache, x)
        BY <1>14, <2>2 DEF BInv, Contents
    <2>4. \A y \in Ids : seq'[y].block_ids = seq[y].block_ids \/ seq'[y].block_ids = <<>>
        BY <1>8, <1>9
    <2> QED
        BY <1>2, <2>2, <2>3, <2>4, SoleKept
<1> QED
    BY <1>2, <1>10, <1>13, <1>14 DEF BInv, Contents

\* The prefill writes a block that was free, or the one it alone holds.
LEMMA AppendSole ==
    ASSUME BInv, ForwardAppend, NEW id, id = Head(todo),
           NEW n \in Nat, NEW b \in Blocks, NEW bs \in Seq(Blocks), Appends(id, n, b, bs)
    PROVE  /\ ~InEntries(cache, b) /\ refs[b] <= 1 /\ Occurrences(b, BlocksOf(cache)) = 0
           /\ \A x \in Ids, i \in Nat : InTable(seq[x], i, b) =>
                  /\ x = id /\ i = Len(seq[id].block_ids)
                  /\ seq[id].num_tokens % BlockSize # 0
<1>1. /\ id \in Run /\ id \in Ids /\ seq[id] \in SequenceStates /\ cache \in Seq(Entries)
      /\ refs \in [Blocks -> Int]
    BY AppendFacts, SeqTypes DEF BInv, AInv
<1>2. CASE seq[id].num_tokens % BlockSize = 0
    <2>1. refs[b] = 0
        BY <1>2 DEF Appends, FreeBlocks
    <2>2. ~InEntries(cache, b) /\ \A x \in Ids, i \in Nat : ~InTable(seq[x], i, b)
        BY <2>1, FreeNowhere DEF BInv
    <2>3. Occurrences(b, BlocksOf(cache)) = 0
        BY <1>1, <2>2, EntriesNowhere
    <2> QED
        BY <2>1, <2>2, <2>3
<1>3. CASE seq[id].num_tokens % BlockSize # 0
    <2>1. /\ bs = seq[id].block_ids /\ b = seq[id].block_ids[Len(seq[id].block_ids)]
          /\ seq[id].block_ids # <<>>
        BY <1>3 DEF Appends
    <2>2. Sole(seq, cache, id)
        BY <1>1, <1>3 DEF BInv, Contents
    <2>3. refs[b] <= 1 /\ Occurrences(b, BlocksOf(cache)) = 0
        BY <1>1, <2>1, <2>2, SoleOnce DEF BInv
    <2>4. /\ ~InEntries(cache, b)
          /\ \A x \in Ids, i \in Nat : InTable(seq[x], i, b) => x = id /\ i = Len(seq[id].block_ids)
        BY <2>1, <2>2 DEF Sole
    <2> QED
        BY <1>3, <2>3, <2>4
<1> QED
    BY <1>2, <1>3

\* The whole blocks of a prompt after one more run of it.
OneRun(ct, d, s, t, n, b, bs) ==
    /\ HoldsPrompt(ct, s) /\ Len(bs) = Filled(s) + 1 /\ bs[Len(bs)] = b
    /\ n \in 1 .. BlockSize - (s.num_tokens % BlockSize) /\ s.num_tokens + n <= Len(s.all_tokens)
    /\ \A i \in 1 .. Filled(s) : bs[i] = s.block_ids[i] /\ bs[i] # b
    /\ t.num_tokens = s.num_tokens + n /\ t.block_ids = bs /\ t.all_tokens = s.all_tokens
    /\ d = [ct EXCEPT ![b] = SubSeq(s.all_tokens, 1, s.num_tokens + n)]

\* After a write to its last block, a prompt's blocks hold more of it.
LEMMA HoldsMore ==
    ASSUME NEW ct \in [Blocks -> Seq(Nat)], NEW d, NEW s \in SequenceStates, NEW t \in SequenceStates,
           NEW n \in Nat, NEW b \in Blocks, NEW bs \in Seq(Blocks), OneRun(ct, d, s, t, n, b, bs)
    PROVE  HoldsPrompt(d, t) /\ Filled(s) <= Filled(t)
<1> USE DEF OneRun
<1> DEFINE k == s.num_tokens
           q == k \div BlockSize
           r == k % BlockSize
           all == s.all_tokens
<1>1. k \in Nat /\ BlockSize \in Nat /\ BlockSize >= 1 /\ all \in Seq(Nat) /\ Len(all) \in Nat
    BY StateTypes, Constants
<1>2. q \in Nat /\ r \in Nat /\ r < BlockSize /\ k = (BlockSize * q) + r
    BY <1>1, DivMod
<1>3. n \in Nat /\ k + n \in Nat /\ n <= BlockSize - r /\ n >= 1
    <2>1. n \in 1 .. BlockSize - r
        OBVIOUS
    <2> HIDE DEF k, q, r
    <2> QED
        BY <1>1, <1>2, <2>1
<1>4. t.num_tokens = k + n /\ t.block_ids = bs /\ t.all_tokens = all
    OBVIOUS
<1>5. (k + n) \div BlockSize = IF n = BlockSize - r THEN q + 1 ELSE q
    BY <1>1, RunInBlock
<1>6. Filled(s) = q /\ Filled(t) = IF n = BlockSize - r THEN q + 1 ELSE q
    BY <1>4, <1>5 DEF Filled
<1>7. n = BlockSize - r => k + n = (q + 1) * BlockSize
    <2>1. (q + 1) * BlockSize = (BlockSize * q) + BlockSize
        BY <1>1, <1>2
    <2> HIDE DEF k, q, r
    <2> DEFINE p == BlockSize * q
    <2>2. p \in Int
        BY <1>1, <1>2
    <2> HIDE DEF p
    <2>3. k = p + r /\ (q + 1) * BlockSize = p + BlockSize
        BY <1>2, <2>1 DEF p
    <2> QED
        BY <1>1, <1>2, <1>3, <2>2, <2>3
<1> HIDE DEF q, r
<1>8. ASSUME NEW i \in 1 .. Filled(t)
      PROVE  i \in 1 .. Len(bs) /\ d[bs[i]] = PrefixKey(all, i)
    <2>1. CASE i <= q
        <3>1. i \in 1 .. Filled(s)
            BY <1>2, <1>6, <2>1
        <3>2. bs[i] = s.block_ids[i] /\ bs[i] # b /\ ct[s.block_ids[i]] = PrefixKey(all, i)
            BY <3>1 DEF HoldsPrompt
        <3>3. i \in 1 .. Len(bs)
            BY <1>2, <1>6, <3>1
        <3>4. bs[i] \in Blocks
            BY <3>3
        <3> QED
            BY <3>2, <3>3, <3>4
    <2>2. CASE ~ (i <= q)
        <3>1. n = BlockSize - r /\ i = q + 1 /\ i = Len(bs)
            BY <1>2, <1>6, <2>2
        <3>2. d[b] = SubSeq(all, 1, k + n)
            OBVIOUS
        <3>3. k + n = i * BlockSize
            BY <1>7, <3>1
        <3>4. i \in 1 .. Len(bs) /\ bs[i] = b
            BY <1>2, <3>1
        <3> QED
            BY <3>2, <3>3, <3>4 DEF PrefixKey
    <2> QED
        BY <2>1, <2>2
<1>9. Filled(s) <= Filled(t)
    BY <1>2, <1>6
<1> QED
    BY <1>4, <1>8, <1>9 DEF HoldsPrompt

\* The forward writes to a block no entry and no other table names.
LEMMA ContentsAppend ==
    ASSUME BInv, CInv', ForwardAppend
    PROVE  Contents'
<1>1. PICK id : id = Head(todo)
    OBVIOUS
<1>2. /\ id \in Run /\ id \in Ids /\ seq[id] \in SequenceStates /\ Tabled(seq[id])
    BY <1>1, AppendFacts DEF BInv, AInv
<1>3. PICK n \in Nat, b \in Blocks, bs \in Seq(Blocks) : Appends(id, n, b, bs)
    BY <1>1, AppendFacts DEF BInv, AInv
<1> DEFINE old == seq[id]
           t == old.num_tokens
           last == Len(old.block_ids)
<1>4. /\ UNCHANGED <<cache, running, prefill_ids, cached_blocks>> /\ Run' = Run /\ pc = "forward"
    BY DEF ForwardAppend, planVars, Run
<1>5. /\ ~InEntries(cache, b)
      /\ \A x \in Ids, i \in Nat : InTable(seq[x], i, b) => x = id /\ i = last /\ t % BlockSize # 0
    BY <1>1, <1>3, AppendSole
<1>6. /\ seq \in [Ids -> SequenceStates] /\ seq' \in [Ids -> SequenceStates] /\ Run \subseteq Ids
      /\ cached_blocks \in [Ids -> Nat] /\ BlockSize \in Nat /\ BlockSize >= 1
      /\ content \in [Blocks -> Seq(Nat)]
    BY SeqTypes, Types, Constants DEF BInv, AInv, CInv, Typed, Run
<1>7. /\ n \in 1 .. BlockSize - (t % BlockSize) /\ t + n <= Len(old.all_tokens)
      /\ seq' = [seq EXCEPT ![id] = Grown(old, bs, t + n)]
      /\ content' = IF id \in Range(prefill_ids)
                    THEN [content EXCEPT ![b] = SubSeq(old.all_tokens, 1, t + n)] ELSE content
    BY <1>3 DEF Appends, Grown, InPrefill
<1>8. Len(bs) = (t \div BlockSize) + 1 /\ bs[Len(bs)] = b /\ t + n \in Nat /\ t \div BlockSize \in Nat
    <2>1. Len(bs) = (t \div BlockSize) + 1 /\ bs[Len(bs)] = b /\ t + n \in Nat
        BY <1>2, <1>3, AppendTable
    <2>2. t \div BlockSize \in Nat
        BY <1>2, <1>6, StateTypes, DivMod
    <2> QED
        BY <2>1, <2>2
<1>9. /\ old.block_ids \in Seq(Blocks) /\ last \in Nat
      /\ \/ t % BlockSize = 0 /\ bs = Append(old.block_ids, b)
         \/ t % BlockSize # 0 /\ bs = old.block_ids
    BY <1>2, <1>3, StateTypes DEF Appends
<1>10. seq'[id] = Grown(old, bs, t + n) /\ \A x \in Ids : x # id => seq'[x] = seq[x]
    BY <1>2, <1>6, <1>7
<1>11. /\ seq'[id].block_ids = bs /\ seq'[id].num_tokens = t + n
       /\ seq'[id].all_tokens = old.all_tokens /\ seq'[id] \in SequenceStates
    <2> DEFINE m == t + n
    <2>1. m \in Nat /\ seq'[id] = Grown(old, bs, m) /\ old \in SequenceStates
        BY <1>2, <1>8, <1>10
    <2> HIDE DEF m, t, old
    <2>2. seq'[id].block_ids = bs /\ seq'[id].num_tokens = m /\ seq'[id].all_tokens = old.all_tokens
        BY <2>1, GrownState
    <2> QED
        BY <1>2, <1>6, <2>2 DEF m
<1> HIDE DEF t, last, old
<1>12. Truthful(content', cache')
    <2>1. \A e \in Range(cache) : e.block # b
        BY <1>5 DEF InEntries
    <2>2. \A y : y # b => content'[y] = content[y]
        BY <1>6, <1>7
    <2> QED
        BY <1>4, <2>1, <2>2 DEF BInv, Contents, Truthful
<1>13. ASSUME NEW x \in Range(prefill_ids') \cap Run'
       PROVE  HoldsPrompt(content', seq'[x]) /\ cached_blocks'[x] <= Filled(seq'[x])
    <2>1. x \in Ids /\ x \in Range(prefill_ids) \cap Run
        BY <1>4, <1>6
    <2>2. HoldsPrompt(content, seq[x]) /\ cached_blocks[x] <= Filled(seq[x])
        BY <2>1 DEF BInv, Contents
    <2>3. CASE x # id
        <3>1. \A i \in 1 .. Filled(seq[x]) : i \in Nat /\ InTable(seq[x], i, seq[x].block_ids[i])
            <4>1. seq[x].num_tokens \in Nat
                BY <1>6, <2>1, StateTypes
            <4>2. Filled(seq[x]) \in Nat
                BY <1>6, <4>1, DivMod DEF Filled
            <4> QED
                BY <2>2, <4>2 DEF HoldsPrompt, InTable
        <3>2. \A i \in 1 .. Filled(seq[x]) : seq[x].block_ids[i] # b
            BY <1>5, <2>1, <2>3, <3>1
        <3>3. \A y : y # b => content'[y] = content[y]
            BY <1>6, <1>7
        <3>4. HoldsPrompt(content', seq[x])
            BY <2>2, <3>2, <3>3 DEF HoldsPrompt
        <3> QED
            BY <1>4, <1>10, <2>1, <2>2, <2>3, <3>4
    <2>4. CASE x = id
        <3>1. content' = [content EXCEPT ![b] = SubSeq(old.all_tokens, 1, t + n)]
            BY <1>7, <2>1, <2>4
        <3>2. Filled(old) = t \div BlockSize
            BY DEF Filled, t
        <3>3. HoldsPrompt(content, old) /\ cached_blocks[id] <= Filled(old) /\ old \in SequenceStates
              /\ Tabled(old)
            BY <1>2, <2>2, <2>4 DEF old
        <3>4. ASSUME NEW i \in 1 .. Filled(old) PROVE bs[i] = old.block_ids[i] /\ bs[i] # b
            <4>1. i \in 1 .. last /\ i \in Nat
                BY <1>8, <3>2, <3>3 DEF HoldsPrompt, last
            <4>2. bs[i] = old.block_ids[i]
                BY <1>9, <4>1 DEF last
            <4>3. ASSUME bs[i] = b PROVE FALSE
                <5>1. InTable(seq[id], i, b)
                    BY <4>1, <4>2, <4>3 DEF InTable, old, last
                <5>2. i = last /\ t % BlockSize # 0
                    BY <1>2, <1>5, <4>1, <5>1
                <5>3. last = (t \div BlockSize) + 1
                    BY <1>8, <1>9, <5>2 DEF last
                <5> QED
                    BY <1>8, <3>2, <5>2, <5>3
            <4> QED
                BY <4>2, <4>3
        <3>5. HoldsPrompt(content', seq'[id]) /\ Filled(old) <= Filled(seq'[id])
            <4> DEFINE s == old
                       new == seq'[id]
                       ct == content
                       d == content'
            <4>1. /\ s \in SequenceStates /\ new \in SequenceStates /\ ct \in [Blocks -> Seq(Nat)]
                  /\ HoldsPrompt(ct, s) /\ Tabled(s) /\ Len(bs) = Filled(s) + 1 /\ bs[Len(bs)] = b
                BY <1>6, <1>8, <1>11, <3>2, <3>3
            <4>2. /\ n \in 1 .. BlockSize - (s.num_tokens % BlockSize)
                  /\ s.num_tokens + n <= Len(s.all_tokens)
                BY <1>7 DEF t
            <4>3. \A i \in 1 .. Filled(s) : bs[i] = s.block_ids[i] /\ bs[i] # b
                BY <3>4
            <4>4. /\ new.num_tokens = s.num_tokens + n /\ new.block_ids = bs
                  /\ new.all_tokens = s.all_tokens
                BY <1>11 DEF t
            <4>5. d = [ct EXCEPT ![b] = SubSeq(s.all_tokens, 1, s.num_tokens + n)]
                BY <3>1 DEF t
            <4> HIDE DEF s, new, ct, d
            <4>6. OneRun(ct, d, s, new, n, b, bs)
                BY <4>1, <4>2, <4>3, <4>4, <4>5 DEF OneRun
            <4>7. HoldsPrompt(d, new) /\ Filled(s) <= Filled(new)
                BY <4>1, <4>6, HoldsMore
            <4> QED
                BY <4>7 DEF s, new, d
        <3>6. cached_blocks[id] <= Filled(seq'[id])
            <4>1. Filled(old) \in Nat /\ cached_blocks[id] \in Nat
                BY <1>2, <1>6, <1>8, <3>2
            <4>2. Filled(seq'[id]) \in Nat
                BY <1>6, <1>8, <1>11, DivMod DEF Filled
            <4> QED
                BY <3>3, <3>5, <4>1, <4>2
        <3> QED
            BY <1>4, <2>4, <3>5, <3>6
    <2> QED
        BY <2>3, <2>4
<1>14. ASSUME NEW x \in Run', seq'[x].num_tokens % BlockSize # 0 PROVE Sole(seq', cache', x)
    <2>1. x \in Ids /\ x \in Run
        BY <1>4, <1>6
    <2>2. CASE x = id
        <3>1. ASSUME NEW y \in Ids, NEW i \in Nat, InTable(seq'[y], i, b) PROVE y = id /\ i = Len(bs)
            <4>1. CASE y # id
                BY <1>5, <1>10, <3>1, <4>1
            <4>2. CASE y = id
                <5>1. i \in 1 .. Len(bs) /\ bs[i] = b
                    BY <1>11, <3>1, <4>2 DEF InTable
                <5>2. CASE i \in 1 .. last
                    <6>1. InTable(seq[id], i, b)
                        BY <1>9, <5>1, <5>2 DEF InTable, old, last
                    <6>2. i = last /\ t % BlockSize # 0
                        BY <1>2, <1>5, <6>1
                    <6> QED
                        BY <1>9, <4>2, <6>2 DEF last
                <5>3. CASE i \notin 1 .. last
                    <6>1. Len(bs) = last \/ Len(bs) = last + 1
                        BY <1>9 DEF last
                    <6> QED
                        BY <1>9, <4>2, <5>1, <5>3, <6>1
                <5> QED
                    BY <5>2, <5>3
            <4> QED
                BY <4>1, <4>2
        <3> QED
            BY <1>4, <1>5, <1>8, <1>11, <2>2, <3>1 DEF Sole
    <2>3. CASE x # id
        <3> DEFINE k == Len(seq[x].block_ids)
                   z == seq[x].block_ids[k]
        <3>1. seq'[x] = seq[x] /\ Sole(seq, cache, x)
            BY <1>10, <1>14, <2>1, <2>3 DEF BInv, Contents
        <3>2. ~InEntries(cache, z) /\ \A y \in Ids, i \in Nat : InTable(seq[y], i, z) => y = x /\ i = k
            BY <3>1 DEF Sole
        <3>3. InTable(seq[x], k, z) /\ k \in Nat
            <4>1. Tabled(seq[x]) /\ seq[x] \in SequenceStates
                BY <1>4, <1>6, <2>1 DEF BInv, AInv, CInv, Stages, StageOf
            <4>2. k \in Nat /\ seq[x].num_tokens \in Nat
                BY <4>1, StateTypes
            <4>3. DivCeil(seq[x].num_tokens, BlockSize) = (seq[x].num_tokens \div BlockSize) + 1
                BY <1>6, <1>14, <3>1, <4>2, CeilDivMod
            <4>4. seq[x].num_tokens \div BlockSize \in Nat
                BY <1>6, <4>2, DivMod
            <4>5. k >= 1
                BY <4>1, <4>3, <4>4 DEF Tabled
            <4> QED
                BY <4>2, <4>5 DEF InTable
        <3>4. z # b
            BY <1>5, <2>1, <2>3, <3>3
        <3> HIDE DEF z, k
        <3>5. ASSUME NEW i \in Nat, InTable(seq'[id], i, z) PROVE FALSE
            <4>1. i \in 1 .. Len(bs) /\ bs[i] = z
                BY <1>11, <3>5 DEF InTable
            <4>2. i \in 1 .. last /\ old.block_ids[i] = z
                BY <1>9, <3>4, <4>1 DEF last
            <4>3. InTable(seq[id], i, z)
                BY <4>2 DEF InTable, old, last
            <4> QED
                BY <1>2, <2>3, <3>2, <4>3
        <3>6. \A y \in Ids, i \in Nat : InTable(seq'[y], i, z) => y = x /\ i = k
            BY <1>10, <3>2, <3>5
        <3> QED
            BY <1>4, <3>1, <3>2, <3>6 DEF Sole, z, k
    <2> QED
        BY <2>2, <2>3
<1> QED
    BY <1>4, <1>12, <1>13, <1>14 DEF BInv, Contents

\* A registered entry's block holds the entry's key.
LEMMA ContentsRegister ==
    ASSUME BInv, CInv', RegisterBlock
    PROVE  Contents'
<1>1. PICK id : id = Head(todo)
    OBVIOUS
<1> DEFINE i == cached_blocks[id] + 1
           key == PrefixKey(seq[id].all_tokens, i)
           block == seq[id].block_ids[i]
           e == [key |-> key, block |-> block]
<1>2. /\ pc = "register" /\ CacheCapacity > 0 /\ i <= PromptBlocks(id)
      /\ UNCHANGED <<seq, content, running, prefill_ids>> /\ Run' = Run
      /\ cached_blocks' = [cached_blocks EXCEPT ![id] = i]
      /\ cache' = cache \/ cache' = Pushed(cache, e)
    BY <1>1 DEF RegisterBlock, planVars, Run
<1>3. /\ seq \in [Ids -> SequenceStates] /\ cache \in Seq(Entries) /\ CacheCapacity \in Nat
      /\ cached_blocks \in [Ids -> Nat] /\ BlockSize \in Nat /\ BlockSize >= 1 /\ Run \subseteq Ids
    BY SeqTypes, Constants, Types DEF BInv, AInv, CInv, Typed, Run
<1>4. todo # <<>> /\ id \in Range(prefill_ids)
    BY <1>1, <1>2 DEF BInv, AInv, CInv, Lists
<1>5. id \in Ids
    BY <1>1, <1>4, TodoTail DEF BInv, AInv
<1>6. i \in Nat /\ i >= 1
    BY <1>3, <1>5
<1> HIDE DEF i
<1>7. /\ id \in Run /\ seq[id] \in SequenceStates /\ Sampled(seq[id]) /\ block \in Blocks
      /\ i \in 1 .. Len(seq[id].block_ids) /\ i <= Filled(seq[id]) /\ key \in Seq(Nat)
    BY <1>1, <1>2, <1>6, RegisterFacts DEF BInv, AInv
<1>8. HoldsPrompt(content, seq[id])
    BY <1>4, <1>7 DEF BInv, Contents
<1>9. content[block] = key
    <2>1. seq[id].num_tokens \in Nat
        BY <1>7, StateTypes
    <2>2. Filled(seq[id]) \in Nat
        BY <1>3, <2>1, DivMod DEF Filled
    <2>3. i \in 1 .. Filled(seq[id])
        BY <1>6, <1>7, <2>2
    <2> QED
        BY <1>8, <2>3 DEF HoldsPrompt
<1> HIDE DEF key, block
<1>10. e \in Entries /\ e.key = key /\ e.block = block
    BY <1>7 DEF Entries
<1> HIDE DEF e
<1>11. Range(cache') \subseteq Range(cache) \cup {e}
    <2>1. CASE cache' = cache
        BY <2>1
    <2>2. CASE cache' = Append(cache, e)
        BY <1>3, <1>10, <2>2, RangeAppend
    <2>3. CASE cache' = Append(Tail(cache), e) /\ cache # <<>>
        <3> DEFINE c == Tail(cache)
        <3>1. c \in Seq(Entries) /\ Range(c) \subseteq Range(cache)
            BY <1>3, <2>3, AccountedForm, CountTail DEF BInv, AInv
        <3> HIDE DEF c
        <3>2. Range(Append(c, e)) = Range(c) \cup {e}
            BY <1>10, <3>1, RangeAppend
        <3> QED
            BY <2>3, <3>1, <3>2 DEF c
    <2>4. Len(cache) < CacheCapacity \/ cache # <<>>
        BY <1>2, <1>3
    <2> QED
        BY <1>2, <2>1, <2>2, <2>3, <2>4 DEF Pushed
<1>12. Truthful(content', cache')
    BY <1>2, <1>9, <1>10, <1>11 DEF BInv, Contents, Truthful
<1>13. \A x \in Ids : cached_blocks'[x] > 0 => x \in Range(prefill_ids')
    BY <1>2, <1>3, <1>4 DEF BInv, Contents
<1>14. \A x \in Range(prefill_ids') \cap Run' :
          HoldsPrompt(content', seq'[x]) /\ cached_blocks'[x] <= Filled(seq'[x])
    BY <1>2, <1>3, <1>5, <1>7 DEF BInv, Contents
<1>15. ASSUME NEW x \in Run', seq'[x].num_tokens % BlockSize # 0 PROVE Sole(seq', cache', x)
    <2> DEFINE last == Len(seq[x].block_ids)
               b == seq[x].block_ids[last]
    <2>1. x \in Ids /\ x \in Run /\ Sole(seq, cache, x)
        BY <1>2, <1>3, <1>15 DEF BInv, Contents
    <2>2. ~InEntries(cache, b) /\ \A y \in Ids, j \in Nat : InTable(seq[y], j, b) => y = x /\ j = last
        BY <2>1 DEF Sole
    <2>3. block # b
        <3> SUFFICES ASSUME block = b PROVE FALSE
            OBVIOUS
        <3>1. InTable(seq[id], i, b)
            BY <1>7 DEF InTable, block
        <3>2. id = x /\ i = Len(seq[id].block_ids)
            BY <1>5, <1>6, <2>2, <3>1
        <3>3. seq[id].num_tokens \in Nat /\ seq[id].num_tokens % BlockSize # 0
            BY <1>2, <1>7, <1>15, <3>2, StateTypes
        <3>4. DivCeil(seq[id].num_tokens, BlockSize) = Filled(seq[id]) + 1 /\ Filled(seq[id]) \in Nat
            BY <1>3, <3>3, CeilDivMod, DivMod DEF Filled
        <3> QED
            BY <1>7, <3>2, <3>4 DEF Sampled, Tabled
    <2>4. ~InEntries(cache', b)
        BY <1>10, <1>11, <2>2, <2>3 DEF InEntries
    <2> QED
        BY <1>2, <2>2, <2>4 DEF Sole
<1> QED
    BY <1>12, <1>13, <1>14, <1>15 DEF Contents

\* An empty cache has nothing false in it.
LEMMA ContentsInit == Init => Contents
<1> SUFFICES ASSUME Init PROVE Contents
    OBVIOUS
<1>1. running = <<>> /\ cache = <<>> /\ prefill_ids = <<>> /\ cached_blocks = [id \in Ids |-> 0]
    BY DEF Init, SchedulerInit
<1> QED
    BY <1>1 DEF Contents, Truthful, Run, Range

\* Every step keeps the contents true.
LEMMA ContentsStep == BInv /\ [Next]_vars => Contents'
<1> SUFFICES ASSUME BInv, [Next]_vars PROVE Contents'
    OBVIOUS
<1>1. CInv /\ CInv' /\ Contents
    BY ControlStep DEF BInv, AInv
<1>2. seq \in [Ids -> SequenceStates] /\ Run \subseteq Ids /\ cache \in Seq(Entries) /\ KeysOnce(cache)
    BY <1>1, SeqTypes, Types, AccountedForm DEF BInv, AInv, CInv, Run
<1>3. \A x \in Ids : SameTable(seq[x], seq[x])
    BY <1>2, StateTypes, LongerAppend DEF SameTable
<1>4. ASSUME UNCHANGED <<content, cached_blocks, prefill_ids, running, seq>>,
             Range(cache') \subseteq Range(cache)
      PROVE  Contents'
    <2>1. Run' = Run
        BY <1>4 DEF Run
    <2> QED
        BY <1>1, <1>2, <1>3, <1>4, <2>1, ContentsKept
<1>5. CASE UNCHANGED vars
    BY <1>4, <1>5 DEF vars
<1>6. CASE ScheduleDecodes /\ UNCHANGED engineVars
    <2>1. /\ pc = "idle" /\ prefill_ids' = <<>> /\ UNCHANGED <<running, seq, cache, content, cached_blocks>>
        BY <1>6 DEF ScheduleDecodes, schedVars, engineVars
    <2>2. prefill_ids' = prefill_ids
        BY <1>1, <2>1 DEF CInv, Lists
    <2> QED
        BY <1>4, <2>1, <2>2
<1>7. CASE /\ ScheduleBoundaryDecode \/ BoundaryDone \/ ScheduleDone
           /\ UNCHANGED engineVars
    BY <1>4, <1>7 DEF ScheduleBoundaryDecode, BoundaryDone, ScheduleDone, schedVars, planVars, engineVars
<1>8. CASE PlanDone \/ ForwardNext \/ ForwardExhausted \/ ForwardDone
    BY <1>4, <1>8 DEF PlanDone, ForwardNext, ForwardExhausted, ForwardDone, schedVars, planVars, engineVars
<1>9. CASE RegisterDone \/ SampleDone \/ DeviceFault
    BY <1>4, <1>9 DEF RegisterDone, SampleDone, DeviceFault, schedVars, planVars, engineVars
<1>10. CASE (EvictForDecode \/ EvictForPrefill) /\ UNCHANGED engineVars
    <2>1. /\ cache # <<>> /\ cache' = Tail(cache)
          /\ UNCHANGED <<content, cached_blocks, prefill_ids, running, seq>>
        BY <1>10 DEF EvictForDecode, EvictForPrefill, evict_lru, planVars, engineVars
    <2>2. Range(Tail(cache)) \subseteq Range(cache)
        BY <1>2, <2>1, CountTail
    <2> QED
        BY <1>4, <2>1, <2>2
<1>11. CASE TouchForPrefill /\ UNCHANGED engineVars
    <2>1. /\ cache' = Touched(cache, seq[Head(waiting)].all_tokens) /\ waiting # <<>>
          /\ UNCHANGED <<content, cached_blocks, prefill_ids, running, seq>>
        BY <1>11 DEF TouchForPrefill, CanAdmitMore, planVars, engineVars
    <2>2. waiting \in Seq(Ids)
        BY <1>1, Types DEF CInv
    <2>3. Head(waiting) \in Ids
        BY <2>1, <2>2
    <2>4. seq[Head(waiting)].all_tokens \in Seq(Nat)
        BY <1>2, <2>3, StateTypes
    <2>5. Range(cache') = Range(cache)
        BY <1>2, <2>1, <2>4, CountTouched
    <2> QED
        BY <1>4, <2>1, <2>5
<1>12. ASSUME NEW id \in Ids, NEW s, seq' = [seq EXCEPT ![id] = s], s.block_ids = <<>>, id \notin Run',
              Run' \subseteq Run, UNCHANGED <<cache, content, cached_blocks, prefill_ids>>
       PROVE  Contents'
    <2>1. seq'[id] = s /\ \A x \in Ids : x # id => seq'[x] = seq[x]
        BY <1>2, <1>12
    <2>2. \A x \in Ids : seq'[x].block_ids = seq[x].block_ids \/ seq'[x].block_ids = <<>>
        BY <1>12, <2>1
    <2>3. \A x \in Run' : SameTable(seq[x], seq'[x])
        BY <1>2, <1>3, <1>12, <2>1
    <2> QED
        BY <1>1, <1>12, <2>2, <2>3, ContentsKept
<1>13. ASSUME NEW id \in Run, remove_from_running(id) PROVE Run' = Run \ {id}
    <2>1. running \in Seq(Ids) /\ Indexed(running, running_index)
        BY <1>1, Types, QueuesIndexed DEF CInv
    <2> QED
        BY <1>13, <2>1, RemoveFromRunning DEF Run
<1>14. CASE Preempt /\ UNCHANGED engineVars
    <2>1. PICK id : id = Head(todo)
        OBVIOUS
    <2>2. /\ pc = "boundary" /\ todo # <<>> /\ seq' = [seq EXCEPT ![id] = Preempted(seq[id])]
          /\ UNCHANGED <<cache, content, cached_blocks, prefill_ids>> /\ remove_from_running(id)
        BY <1>14, <2>1 DEF Preempt, planVars, engineVars
    <2>3. id \in Ids /\ id \in Run
        BY <1>1, <2>1, <2>2, TodoTail DEF CInv, Lists
    <2>4. Preempted(seq[id]).block_ids = <<>>
        BY <1>2, <2>3, PreemptedState
    <2>5. Run' = Run \ {id}
        BY <1>13, <2>2, <2>3
    <2> QED
        BY <1>12, <2>2, <2>3, <2>4, <2>5
<1>15. CASE RetireOne
    <2>1. PICK id : id = Head(todo)
        OBVIOUS
    <2>2. /\ pc = "retire" /\ todo # <<>> /\ seq' = [seq EXCEPT ![id] = Cleared(seq[id])]
          /\ UNCHANGED <<cache, content, cached_blocks, prefill_ids>> /\ remove_from_running(id)
        BY <1>15, <2>1 DEF RetireOne, planVars, engineVars
    <2>3. id \in Ids /\ id \in Run
        BY <1>1, <2>1, <2>2, TodoTail DEF CInv, Lists
    <2>4. Cleared(seq[id]).block_ids = <<>>
        BY <1>2, <2>3, ClearedState
    <2>5. Run' = Run \ {id}
        BY <1>13, <2>2, <2>3
    <2> QED
        BY <1>12, <2>2, <2>3, <2>4, <2>5
<1>16. ASSUME NEW id \in Ids, AbortSequence(id) PROVE Contents'
    <2>1. /\ seq' = [seq EXCEPT ![id] = Absent] /\ UNCHANGED <<cache, content, cached_blocks, prefill_ids>>
          /\ \/ id \in DOMAIN running_index /\ remove_from_running(id)
             \/ id \in Wait /\ running' = running
        BY <1>16 DEF AbortSequence, abort_sequence, AbortRunningOne, AbortWaitingOne, planVars, Wait
    <2>2. id \notin Run' /\ Run' \subseteq Run
        BY <1>1, <1>13, <2>1 DEF CInv, Queues, Run
    <2> QED
        BY <1>12, <2>1, <2>2, AbsentState
<1>17. CASE AdmitPrefill /\ UNCHANGED engineVars
    BY <1>1, <1>17, ContentsAdmit
<1>18. CASE SampleToken
    <2>1. PICK id : id = Head(todo)
        OBVIOUS
    <2>2. PICK tok \in Tokens, isStop \in BOOLEAN : seq' = [seq EXCEPT ![id] = Advanced(@, tok, isStop)]
        BY <1>18, <2>1 DEF SampleToken
    <2>3. todo # <<>> /\ UNCHANGED <<running, cache, content, cached_blocks, prefill_ids>>
        BY <1>18 DEF SampleToken, planVars
    <2>4. id \in Ids /\ tok \in Nat
        BY <1>1, <2>1, <2>3, TodoTail, Constants
    <2> DEFINE old == seq[id]
               s == Advanced(old, tok, isStop)
    <2>5. old \in SequenceStates /\ seq' = [seq EXCEPT ![id] = s]
        BY <1>2, <2>2, <2>4
    <2> HIDE DEF s, old
    <2>6. /\ s.block_ids = old.block_ids /\ s.num_tokens = old.num_tokens
          /\ s.all_tokens = Append(old.all_tokens, tok)
        BY <2>4, <2>5, AdvancedState DEF s
    <2>7. SameTable(old, s)
        BY <2>4, <2>5, <2>6, StateTypes, LongerAppend DEF SameTable
    <2>8. \A x \in Ids : SameTable(seq[x], seq'[x])
        BY <1>2, <1>3, <2>4, <2>5, <2>7 DEF old
    <2>9. \A x \in Ids : seq'[x].block_ids = seq[x].block_ids
        BY <2>8 DEF SameTable
    <2>10. Run' = Run
        BY <2>3 DEF Run
    <2> QED
        BY <1>1, <1>2, <2>3, <2>8, <2>9, <2>10, ContentsKept
<1>19. CASE StepReturns
    <2>1. /\ pc = "retire" /\ todo = <<>> /\ UNCHANGED <<running, cache, content>> /\ prefill_ids' = <<>>
          /\ cached_blocks' = [id \in Ids |-> 0]
          /\ seq' = [id \in Ids |-> IF seq[id].status = "Finished" THEN Absent ELSE seq[id]]
        BY <1>19 DEF StepReturns
    <2>2. \A x \in Run : seq[x].status # "Finished"
        BY <1>1, <2>1 DEF CInv, Lists, Range
    <2>3. Run' = Run
        BY <2>1 DEF Run
    <2>4. \A x \in Ids : seq'[x].block_ids = seq[x].block_ids \/ seq'[x].block_ids = <<>>
        BY <2>1, AbsentState
    <2>5. \A x \in Run' : SameTable(seq[x], seq'[x])
        BY <1>2, <1>3, <2>1, <2>2, <2>3
    <2> QED
        BY <1>1, <2>1, <2>3, <2>4, <2>5, ContentsKept
<1>20. CASE StepFails
    <2>1. /\ running' = <<>> /\ UNCHANGED <<cache, content>> /\ prefill_ids' = <<>>
          /\ cached_blocks' = [id \in Ids |-> 0]
          /\ \A x \in Ids : seq'[x] = seq[x] \/ seq'[x] = Absent
        BY <1>20 DEF StepFails
    <2>2. Run' = {}
        BY <2>1 DEF Run, Range
    <2>3. \A x \in Ids : seq'[x].block_ids = seq[x].block_ids \/ seq'[x].block_ids = <<>>
        BY <2>1, AbsentState
    <2> QED
        BY <1>1, <2>1, <2>2, <2>3, ContentsKept
<1>21. ASSUME NEW id \in Ids, NEW prompt \in Prompts, NEW max \in MaxTokensChoices,
              AddRequest(id, prompt, max)
       PROVE  Contents'
    <2>1. /\ outcome[id] = "new" /\ UNCHANGED <<running, cache, content, cached_blocks, prefill_ids>>
          /\ seq' = [seq EXCEPT ![id] = NewSequence(prompt, max)]
        BY <1>21 DEF AddRequest, add_request, planVars
    <2>2. Run' = Run /\ id \notin Run
        BY <1>1, <2>1 DEF Run, CInv, Status, StatusOf
    <2>3. NewSequence(prompt, max).block_ids = <<>>
        BY DEF NewSequence
    <2> QED
        BY <1>12, <2>1, <2>2, <2>3
<1>22. CASE PlanPrefill
    BY <1>1, <1>22, ContentsPlan
<1>23. CASE ForwardAppend
    BY <1>1, <1>23, ContentsAppend
<1>24. CASE RegisterBlock
    BY <1>1, <1>24, ContentsRegister
<1> QED
    BY <1>5, <1>6, <1>7, <1>8, <1>9, <1>10, <1>11, <1>14, <1>15, <1>16, <1>17, <1>18, <1>19, <1>20,
       <1>21, <1>22, <1>23, <1>24, Cases

\* What the invariant says of the cache's contents.
LEMMA ContentsImply == BInv => ContentCorrect
<1> SUFFICES ASSUME BInv PROVE ContentCorrect
    OBVIOUS
<1>1. seq \in [Ids -> SequenceStates] /\ cache \in Seq(Entries) /\ cached_blocks \in [Ids -> Nat]
    BY SeqTypes DEF BInv, AInv, CInv, Typed
<1>2. CachedContentCorrect
    <2>1. \A i \in DOMAIN cache : cache[i] \in Range(cache)
        BY DEF Range
    <2> QED
        BY <2>1 DEF BInv, Contents, Truthful, CachedContentCorrect
<1>3. ReusedPrefixCorrect
    <2> SUFFICES ASSUME NEW id \in Ids, NEW i \in 1 .. cached_blocks[id], seq[id].block_ids # <<>>
                 PROVE  content[seq[id].block_ids[i]] = PrefixKey(seq[id].all_tokens, i)
        BY DEF ReusedPrefixCorrect
    <2>1. cached_blocks[id] \in Nat /\ cached_blocks[id] > 0
        BY <1>1
    <2>2. id \in Range(prefill_ids) /\ id \in Run
        BY <2>1 DEF BInv, AInv, CInv, Status, StatusOf, Contents
    <2>3. HoldsPrompt(content, seq[id]) /\ cached_blocks[id] <= Filled(seq[id])
        BY <2>2 DEF BInv, Contents
    <2>4. Filled(seq[id]) \in Nat
        <3>1. seq[id].num_tokens \in Nat
            BY <1>1, StateTypes
        <3> QED
            BY <3>1, Constants, DivMod DEF Filled
    <2>5. i \in 1 .. Filled(seq[id])
        BY <2>1, <2>3, <2>4
    <2> QED
        BY <2>3, <2>5 DEF HoldsPrompt
<1> QED
    BY <1>2, <1>3 DEF ContentCorrect

\* The control part, the references and the contents, together.
LEMMA BlocksStep == BInv /\ [Next]_vars => BInv'
BY ControlStep, AccountedStep, ContentsStep DEF AInv, BInv

\* The prefix cache tells the truth at every point of every step: an entry's
\* block holds the entry's prefix, and the blocks a prompt takes from the cache
\* and does not compute hold the prompt's own tokens.
THEOREM PrefixesTrue == Spec => []ContentCorrect
<1>1. Init => BInv
    BY ControlInit, AccountedInit, ContentsInit DEF AInv, BInv
<1> QED
    BY <1>1, BlocksStep, ContentsImply, PTL DEF Spec

\* Only the forward writes, and only to a block that nobody else refers to.
LEMMA WriteAlone ==
    BInv /\ [Next]_vars =>
        [\A b \in Blocks : content'[b] # content[b] =>
            refs[b] <= 1 /\ Occurrences(b, CacheBlocks) = 0]_vars
<1> SUFFICES ASSUME BInv, [Next]_vars, NEW y \in Blocks, content'[y] # content[y]
             PROVE  refs[y] <= 1 /\ Occurrences(y, CacheBlocks) = 0
    OBVIOUS
<1>1. content' # content
    OBVIOUS
<1>2. ForwardAppend
    <2>1. ~ UNCHANGED engineVars /\ ~ UNCHANGED vars
        BY <1>1 DEF engineVars, vars
    <2>2. ~PlanPrefill /\ ~SampleToken /\ ~RegisterBlock /\ ~StepReturns /\ ~StepFails /\ ~DeviceFault
        BY <1>1 DEF PlanPrefill, SampleToken, RegisterBlock, StepReturns, StepFails, DeviceFault
    <2>3. ~PlanDone /\ ~ForwardNext /\ ~ForwardExhausted /\ ~ForwardDone /\ ~RegisterDone /\ ~SampleDone
          /\ ~RetireOne
        BY <2>1 DEF PlanDone, ForwardNext, ForwardExhausted, ForwardDone, RegisterDone, SampleDone, RetireOne
    <2>4. \A id \in Ids : ~AbortSequence(id)
        BY <1>1 DEF AbortSequence
    <2>5. \A id \in Ids, prompt \in Prompts, max \in MaxTokensChoices : ~AddRequest(id, prompt, max)
        BY <1>1 DEF AddRequest
    <2> QED
        BY <2>1, <2>2, <2>3, <2>4, <2>5, Cases
<1>3. PICK id : id = Head(todo)
    OBVIOUS
<1>4. PICK n \in Nat, b \in Blocks, bs \in Seq(Blocks) : Appends(id, n, b, bs)
    BY <1>2, <1>3, AppendFacts DEF BInv, AInv
<1>5. y = b
    <2>1. content \in [Blocks -> Seq(Nat)]
        BY DEF BInv, AInv, CInv, Typed
    <2>2. content' = content \/ \E v : content' = [content EXCEPT ![b] = v]
        BY <1>4 DEF Appends
    <2> QED
        BY <1>1, <2>1, <2>2
<1>6. CacheBlocks = BlocksOf(cache)
    BY DEF CacheBlocks, BlocksOf
<1> QED
    BY <1>2, <1>3, <1>4, <1>5, <1>6, AppendSole

\* The paged cache's append never writes to a block that another sequence's table
\* or a prefix entry refers to, although full blocks are shared without a copy.
THEOREM WritesExclusive == Spec => NoSharedWrite
<1>1. Init => BInv
    BY ControlInit, AccountedInit, ContentsInit DEF AInv, BInv
<1> QED
    BY <1>1, BlocksStep, WriteAlone, PTL DEF Spec, NoSharedWrite

-----------------------------------------------------------------------------
(* What the scheduler promised.                                            *)

\* The blocks a sequence still has to take, and a set of them together.
Need(s) == DivCeil(Len(s.all_tokens), BlockSize) - Len(s.block_ids)
NeedsIn(q) == [id \in Ids |-> Need(q[id])]
Needed(q, S) == SumFunctionOnSet(NeedsIn(q), S)

Decodes == Range(decode_ids)
PromptNeeds(id) == blocks_needed_for_prefill(seq[id], cache)

\* No prompt in this step, or one and none looked at behind it.
Alone == prefill_ids = <<>> \/ (Len(prefill_ids) = 1 /\ ~CanAdmitMore)

\* What is promised at each point of a step is free.
Promised ==
    /\ pc \in {"boundary", "admit", "evict"} =>
          Needed(seq, Decodes) <= reserved /\ reserved <= NumFree(refs)
    /\ pc \in {"admit", "evict"} /\ prefill_ids = <<>> => reserved + free_blocks <= NumFree(refs)
    /\ pc = "admit" /\ Len(prefill_ids) = 1 =>
          reserved + PromptNeeds(prefill_ids[1]) <= NumFree(refs)
    /\ pc = "evict" => CanAdmitMore
    /\ pc = "plan" /\ Alone =>
          IF todo = <<>> THEN Needed(seq, Batch) <= NumFree(refs)
          ELSE Needed(seq, Decodes) + PromptNeeds(Head(todo)) <= NumFree(refs)
    /\ pc = "forward" /\ Alone => Needed(seq, Batch) <= NumFree(refs)

PInv == AInv /\ Promised

\* Demand, in these terms.
LEMMA DemandForm == \A S : Demand(S) = Needed(seq, S)
    BY DEF Demand, Needed, NeedsIn, Need

\* The number of blocks for t tokens is a number that grows with t.
LEMMA CeilType ==
    ASSUME NEW t \in Nat
    PROVE  DivCeil(t, BlockSize) \in Nat
<1> DEFINE q == t \div BlockSize
<1>1. DivCeil(t, BlockSize) \in {q, q + 1} /\ q \in Nat
    BY Constants, DivMod, CeilDivMod
<1> HIDE DEF q
<1> QED
    BY <1>1

\* More tokens need no fewer blocks.
LEMMA CeilMonotone ==
    ASSUME NEW s \in Nat, NEW t \in Nat, s <= t
    PROVE  DivCeil(s, BlockSize) <= DivCeil(t, BlockSize)
<1> DEFINE a == s + BlockSize - 1
           b == t + BlockSize - 1
<1>1. a \in Nat /\ b \in Nat /\ a <= b /\ BlockSize \in Nat /\ BlockSize >= 1
    BY Constants
<1>2. DivCeil(s, BlockSize) = a \div BlockSize /\ DivCeil(t, BlockSize) = b \div BlockSize
    BY DEF DivCeil
<1> HIDE DEF a, b
<1> QED
    BY <1>1, <1>2, DivMonotone

\* A table that is as long as its tokens need lacks no less than nothing, and
\* that of a decode lacks one block exactly at a boundary.
LEMMA NeedFacts ==
    ASSUME NEW s \in SequenceStates
    PROVE  /\ Need(s) \in Int
           /\ Tabled(s) /\ s.num_tokens <= Len(s.all_tokens) => Need(s) \in Nat
           /\ Sampled(s) => Need(s) = IF decode_needs_new_block(s) THEN 1 ELSE 0
<1> DEFINE l == Len(s.all_tokens)
           t == s.num_tokens
           d == DivCeil(l, BlockSize)
           m == Len(s.block_ids)
<1>1. l \in Nat /\ t \in Nat /\ m \in Nat /\ d \in Nat
    BY StateTypes, CeilType
<1>2. Need(s) = d - m
    BY DEF Need
<1>3. ASSUME Tabled(s), t <= l PROVE Need(s) \in Nat
    <2>1. m = DivCeil(t, BlockSize) /\ DivCeil(t, BlockSize) <= d
        BY <1>1, <1>3, CeilMonotone DEF Tabled
    <2> HIDE DEF d, m
    <2> QED
        BY <1>1, <1>2, <2>1
<1>4. ASSUME Sampled(s) PROVE Need(s) = IF decode_needs_new_block(s) THEN 1 ELSE 0
    <2> DEFINE q == t \div BlockSize
               r == t % BlockSize
    <2>1. t = l - 1 /\ l >= 2 /\ m = DivCeil(t, BlockSize) /\ s.num_processed_tokens = t
        BY <1>4 DEF Sampled, Tabled
    <2>2. q \in Nat /\ r \in Nat /\ r < BlockSize /\ BlockSize \in Nat /\ BlockSize >= 1
        BY <1>1, Constants, DivMod
    <2>3. m = IF r = 0 THEN q ELSE q + 1
        BY <1>1, <2>1, <2>2, CeilDivMod
    <2>4. d = q + 1
        <3>1. l = t + 1
            BY <1>1, <2>1
        <3>2. 1 \in 1 .. BlockSize - r
            <4> HIDE DEF r
            <4> QED
                BY <2>2
        <3>3. DivCeil(t + 1, BlockSize) = q + 1
            BY <1>1, <2>2, <3>2, RunInBlock
        <3> QED
            BY <3>1, <3>3
    <2>5. decode_needs_new_block(s) <=> r = 0
        BY <1>1, <2>1 DEF decode_needs_new_block
    <2> HIDE DEF q, r, d, m
    <2> QED
        BY <1>2, <2>2, <2>3, <2>4, <2>5
<1>5. Need(s) \in Int
    BY <1>1, <1>2
<1> QED
    BY <1>3, <1>4, <1>5

\* Sums of needs.
LEMMA NeededNat ==
    ASSUME NEW q, NEW S \in SUBSET Ids, \A x \in S : Need(q[x]) \in Nat
    PROVE  Needed(q, S) \in Nat
<1> DEFINE w == NeedsIn(q)
<1>1. IsFiniteSet(S) /\ \A x \in S : w[x] \in Nat
    BY Constants, FS_Subset DEF NeedsIn
<1> HIDE DEF w
<1>2. SumFunctionOnSet(w, S) \in Nat
    BY <1>1, SumRemove
<1> QED
    BY <1>2 DEF Needed, w

\* The sum depends on the needs in the set only.
LEMMA NeededSame ==
    ASSUME NEW p, NEW q, NEW S \in SUBSET Ids, \A x \in S : Need(q[x]) = Need(p[x])
    PROVE  Needed(q, S) = Needed(p, S)
<1> DEFINE v == NeedsIn(p)
           w == NeedsIn(q)
<1>1. IsFiniteSet(S) /\ \A x \in S : v[x] = w[x]
    BY Constants, FS_Subset DEF NeedsIn
<1> HIDE DEF v, w
<1>2. SumFunctionOnSet(v, S) = SumFunctionOnSet(w, S)
    BY <1>1, SumCongruence
<1> QED
    BY <1>2 DEF Needed, v, w

\* One more sequence adds its need.
LEMMA NeededMore ==
    ASSUME NEW q, NEW S \in SUBSET Ids, NEW id \in Ids \ S,
           \A x \in S : Need(q[x]) \in Nat, Need(q[id]) \in Nat
    PROVE  Needed(q, S \cup {id}) = Need(q[id]) + Needed(q, S)
<1> DEFINE w == NeedsIn(q)
           T == S \cup {id}
<1>1. IsFiniteSet(T) /\ id \in T /\ T \ {id} = S /\ T \subseteq Ids
    BY Constants, FS_Subset
<1>2. w[id] = Need(q[id]) /\ \A x \in T : w[x] \in Nat
    BY DEF NeedsIn
<1> HIDE DEF w, T
<1>3. SumFunctionOnSet(w, T) = w[id] + SumFunctionOnSet(w, T \ {id})
    BY <1>1, <1>2, SumRemove
<1> QED
    BY <1>1, <1>2, <1>3 DEF Needed, w, T

\* A change of one need changes the sum by as much.
LEMMA NeededChange ==
    ASSUME NEW p, NEW q, NEW S \in SUBSET Ids, NEW id \in S,
           \A x \in S : Need(p[x]) \in Nat /\ Need(q[x]) \in Nat,
           \A x \in S \ {id} : Need(q[x]) = Need(p[x])
    PROVE  Needed(q, S) + Need(p[id]) = Needed(p, S) + Need(q[id])
<1> DEFINE v == NeedsIn(p)
           w == NeedsIn(q)
<1>1. IsFiniteSet(S) /\ id \in Ids
    BY Constants, FS_Subset
<1>2. \A x \in S : v[x] = Need(p[x]) /\ w[x] = Need(q[x])
    BY DEF NeedsIn
<1> HIDE DEF v, w
<1>3. (\A x \in S : v[x] \in Nat /\ w[x] \in Nat) /\ \A x \in S \ {id} : v[x] = w[x]
    BY <1>2
<1>4. SumFunctionOnSet(w, S) + v[id] = SumFunctionOnSet(v, S) + w[id]
    BY <1>1, <1>3, SumUpdate
<1> QED
    BY <1>2, <1>4 DEF Needed, v, w

\* Those who run need a number of blocks each.
LEMMA DecodesNeed ==
    ASSUME CInv, pc \in {"boundary", "admit", "evict", "plan"}
    PROVE  /\ Decodes \in SUBSET Ids /\ Decodes \subseteq Run
           /\ \A x \in Decodes : x \notin Range(prefill_ids) /\ Need(seq[x]) \in Nat
           /\ Needed(seq, Decodes) \in Nat
<1>1. Decodes \subseteq Run /\ Run \subseteq Ids /\ seq \in [Ids -> SequenceStates]
    BY Types DEF CInv, Lists, Decodes, Batch, Run
<1>2. ASSUME NEW x \in Decodes PROVE x \notin Range(prefill_ids) /\ Need(seq[x]) \in Nat
    <2>1. x \notin Range(prefill_ids)
        BY DEF CInv, Lists, Decodes
    <2>2. Sampled(seq[x]) /\ seq[x] \in SequenceStates
        BY <1>1, <2>1 DEF CInv, Stages, StageOf
    <2>3. Need(seq[x]) \in {0, 1}
        BY <2>2, NeedFacts
    <2> QED
        BY <2>1, <2>3
<1> QED
    BY <1>1, <1>2, NeededNat

\* In the forward, all of the batch need a number of blocks each.
LEMMA BatchNeeds ==
    ASSUME CInv, pc = "forward"
    PROVE  Batch \in SUBSET Ids /\ Batch = Run /\ \A x \in Batch : Need(seq[x]) \in Nat
<1>1. Batch = Run /\ Run \subseteq Ids /\ seq \in [Ids -> SequenceStates]
    BY Types DEF CInv, Lists, Run
<1>2. ASSUME NEW x \in Run PROVE Need(seq[x]) \in Nat
    <2>1. seq[x].num_tokens <= Len(seq[x].all_tokens) /\ Tabled(seq[x]) /\ seq[x] \in SequenceStates
        BY <1>1 DEF CInv, Stages, StageOf
    <2> QED
        BY <2>1, NeedFacts
<1> QED
    BY <1>1, <1>2

\* What gives up references makes no block less free.
LEMMA FreeMore ==
    ASSUME NEW r, NEW u, \A b \in Blocks : r[b] = 0 => u[b] = 0
    PROVE  NumFree(r) <= NumFree(u) /\ NumFree(r) \in Nat /\ NumFree(u) \in Nat
<1>1. FreeBlocks(r) \subseteq FreeBlocks(u) /\ IsFiniteSet(FreeBlocks(u))
    BY FreeFacts DEF FreeBlocks
<1>2. Cardinality(FreeBlocks(r)) <= Cardinality(FreeBlocks(u))
    BY <1>1, FS_Subset
<1> QED
    BY <1>2, FreeFacts DEF NumFree

\* An allocation makes one less free.
LEMMA FreeLess ==
    ASSUME NEW r \in [Blocks -> Int], NEW b \in FreeBlocks(r)
    PROVE  NumFree(Allocated(r, b)) = NumFree(r) - 1
<1> DEFINE F == FreeBlocks(r)
           u == Allocated(r, b)
<1>1. FreeBlocks(u) = F \ {b}
    BY DEF FreeBlocks, Allocated
<1>2. IsFiniteSet(F)
    BY FreeFacts
<1> HIDE DEF F, u
<1>3. Cardinality(F \ {b}) = Cardinality(F) - 1
    BY <1>2, FS_RemoveElement DEF F
<1> QED
    BY <1>1, <1>3 DEF NumFree, F, u

\* An eviction makes no block less free.
LEMMA EvictFrees ==
    ASSUME AInv, evict_lru
    PROVE  NumFree(refs) <= NumFree(refs') /\ NumFree(refs) \in Nat /\ NumFree(refs') \in Nat
<1> DEFINE h == Head(cache).block
<1>1. /\ cache \in Seq(Entries) /\ cache # <<>> /\ refs \in [Blocks -> Int]
      /\ refs' = FreedOnce(refs, h)
    BY SeqTypes DEF AInv, evict_lru
<1>2. InEntries(cache, h)
    <2>1. Head(cache) \in Range(cache)
        BY <1>1 DEF Range
    <2> QED
        BY <2>1 DEF InEntries
<1> HIDE DEF h
<1>3. ASSUME NEW b \in Blocks, refs[b] = 0 PROVE refs'[b] = 0
    <2>1. b # h
        BY <1>2, <1>3, FreeNowhere
    <2> QED
        BY <1>1, <1>3, <2>1 DEF FreedOnce
<1> QED
    BY <1>3, FreeMore

\* A table that is given up.
LEMMA FreedFrees ==
    ASSUME AInv, NEW id \in Ids, refs' = FreedAll(refs, seq[id].block_ids)
    PROVE  NumFree(refs) <= NumFree(refs') /\ NumFree(refs) \in Nat /\ NumFree(refs') \in Nat
<1>1. seq[id].block_ids \in Seq(Blocks)
    BY SeqTypes, StateTypes DEF AInv
<1>2. ASSUME NEW b \in Blocks, refs[b] = 0 PROVE refs'[b] = 0
    <2>1. \A i \in Nat : ~InTable(seq[id], i, b)
        BY <1>2, FreeNowhere
    <2>2. Occurrences(b, seq[id].block_ids) = 0
        BY <1>1, <2>1, OccursNowhere DEF InTable
    <2> QED
        BY <1>2, <2>2 DEF FreedAll
<1> QED
    BY <1>2, FreeMore

\* What a prompt shares was not free.
LEMMA PlanFrees ==
    ASSUME AInv, PlanPrefill
    PROVE  NumFree(refs) <= NumFree(refs') /\ NumFree(refs) \in Nat /\ NumFree(refs') \in Nat
<1>1. PICK id : id = Head(todo)
    OBVIOUS
<1> DEFINE bs == PlanTable(id)
<1>2. refs' = SharedAll(refs, bs)
    BY <1>1 DEF PlanPrefill, PlanTable, PlanCount
<1>3. bs \in Seq(Blocks) /\ Len(bs) = PlanCount(id)
    BY <1>1, PlanFacts DEF AInv
<1>4. \A i \in 1 .. PlanCount(id) : \E e \in Range(cache) : e.block = bs[i]
    BY <1>1, PlanBlocks DEF AInv
<1> HIDE DEF bs
<1>5. ASSUME NEW b \in Blocks, refs[b] = 0 PROVE refs'[b] = 0
    <2>1. ~InEntries(cache, b)
        BY <1>5, FreeNowhere
    <2>2. \A i \in 1 .. Len(bs) : bs[i] # b
        BY <1>3, <1>4, <2>1 DEF InEntries
    <2>3. Occurrences(b, bs) = 0
        BY <1>3, <2>2, OccursNowhere
    <2> QED
        BY <1>2, <1>5, <2>3 DEF SharedAll
<1> QED
    BY <1>5, FreeMore

-----------------------------------------------------------------------------
(* The steps keep the promises.                                            *)

\* A decode inside its block needs none.
LEMMA PromisedDecodes ==
    ASSUME AInv, ScheduleDecodes
    PROVE  Promised'
<1> DEFINE A == {id \in Ids : decode_needs_new_block(seq[id])}
           inBlock == Pick(running, Ids \ A)
           n == Minimum(Len(inBlock), max_tokens_per_step)
<1>1. /\ pc = "idle" /\ pc' = "boundary" /\ decode_ids' = SubSeq(inBlock, 1, n)
      /\ reserved' = 0 /\ UNCHANGED refs /\ UNCHANGED schedVars
    BY DEF ScheduleDecodes
<1>2. running \in Seq(Ids) /\ Run \subseteq Ids /\ seq \in [Ids -> SequenceStates]
    BY Types DEF AInv, CInv, Run
<1>3. inBlock \in Seq(Ids) /\ Range(inBlock) = Run \cap (Ids \ A)
    BY <1>2, PickFacts DEF Run
<1>4. \A x \in Ids \ A : ~decode_needs_new_block(seq[x])
    OBVIOUS
<1> HIDE DEF A, inBlock
<1>5. n \in Nat /\ n <= Len(inBlock)
    BY <1>3, Constants DEF Minimum
<1> HIDE DEF n
<1> DEFINE D == Range(decode_ids')
<1>6. ASSUME NEW x \in D PROVE x \in Ids /\ Need(seq[x]) = 0
    <2>1. decode_ids' \in Seq(Ids) /\ Len(decode_ids') = n
          /\ \A i \in 1 .. n : decode_ids'[i] = inBlock[i] /\ i \in 1 .. Len(inBlock)
        BY <1>1, <1>3, <1>5
    <2>2. \E i \in 1 .. n : decode_ids'[i] = x
        BY <2>1, RangeMember
    <2>3. x \in Range(inBlock)
        BY <1>3, <2>1, <2>2, RangeMember
    <2>4. x \in Run /\ x \in Ids /\ ~decode_needs_new_block(seq[x])
        BY <1>3, <1>4, <2>3
    <2>5. x \notin Range(prefill_ids)
        BY <1>1 DEF AInv, CInv, Lists, Range
    <2>6. Sampled(seq[x]) /\ seq[x] \in SequenceStates
        BY <1>1, <1>2, <2>4, <2>5 DEF AInv, CInv, Stages, StageOf
    <2> QED
        BY <2>4, <2>6, NeedFacts
<1> HIDE DEF D
<1>7. Needed(seq, D) = 0
    <2> DEFINE w == NeedsIn(seq)
    <2>1. D \subseteq Ids /\ IsFiniteSet(D) /\ \A x \in D : w[x] = 0
        BY <1>6, Constants, FS_Subset DEF NeedsIn
    <2> HIDE DEF w
    <2>2. SumFunctionOnSet(w, D) = 0
        BY <2>1, SumZero
    <2> QED
        BY <2>2 DEF Needed, w
<1>8. NumFree(refs') \in Nat
    BY FreeFacts
<1>9. Needed(seq', Decodes') = 0
    BY <1>1, <1>7 DEF Decodes, D, schedVars
<1> QED
    BY <1>1, <1>8, <1>9 DEF Promised

\* An eviction, for either.
LEMMA PromisedEvict ==
    ASSUME PInv, EvictForDecode \/ EvictForPrefill
    PROVE  Promised'
<1>1. /\ pc \in {"boundary", "evict"} /\ pc' = pc /\ evict_lru
      /\ UNCHANGED <<waiting, running, running_index, seq, todo, decode_ids, prefill_ids, budget, reserved>>
    BY DEF EvictForDecode, EvictForPrefill, planVars
<1>2. NumFree(refs) <= NumFree(refs') /\ NumFree(refs) \in Nat /\ NumFree(refs') \in Nat
    BY <1>1, EvictFrees DEF PInv
<1>3. /\ Needed(seq, Decodes) \in Nat /\ reserved \in Nat /\ Needed(seq', Decodes') = Needed(seq, Decodes)
      /\ reserved' = reserved
    BY <1>1, DecodesNeed, Types DEF PInv, AInv, CInv, Decodes
<1>4. Needed(seq, Decodes) <= reserved /\ reserved <= NumFree(refs)
    BY <1>1 DEF PInv, Promised
<1>5. Needed(seq', Decodes') <= reserved' /\ reserved' <= NumFree(refs')
    BY <1>2, <1>3, <1>4
<1>6. pc = "evict" => reserved' + free_blocks' <= NumFree(refs')
    <2> SUFFICES ASSUME pc = "evict" PROVE reserved' + free_blocks' <= NumFree(refs')
        OBVIOUS
    <2>1. free_blocks' = SaturatingSub(NumFree(refs'), reserved)
        BY DEF EvictForDecode, EvictForPrefill
    <2> DEFINE f == NumFree(refs')
    <2>2. f \in Nat /\ reserved \in Nat /\ reserved <= f
        BY <1>2, <1>3, <1>5
    <2> HIDE DEF f
    <2>3. SaturatingSub(f, reserved) = f - reserved
        BY <2>2 DEF SaturatingSub
    <2> QED
        BY <1>3, <2>1, <2>2, <2>3 DEF f
<1>7. pc = "evict" => CanAdmitMore'
    BY <1>1 DEF PInv, Promised, CanAdmitMore
<1> QED
    BY <1>1, <1>5, <1>6, <1>7 DEF Promised

\* A decode at a boundary is promised a block that nobody else was.
LEMMA PromisedBoundary ==
    ASSUME PInv, ScheduleBoundaryDecode
    PROVE  Promised'
<1>1. PICK id : id = Head(todo)
    OBVIOUS
<1>2. /\ pc = "boundary" /\ pc' = pc /\ todo # <<>> /\ NumFree(refs) > reserved
      /\ decode_ids' = IF budget > 0 THEN Append(decode_ids, id) ELSE decode_ids
      /\ reserved' = reserved + Minimum(budget, 1)
      /\ UNCHANGED <<refs, seq>>
    BY <1>1 DEF ScheduleBoundaryDecode, schedVars
<1>3. id \in Range(todo) /\ id \in Ids /\ Len(todo) \in Nat /\ Len(todo) >= 1
    <2>1. todo \in Seq(Ids)
        BY Types DEF PInv, AInv, CInv
    <2>2. Len(todo) \in Nat /\ Len(todo) >= 1
        BY <1>2, <2>1
    <2> QED
        BY <1>1, <1>2, <2>2, TodoTail DEF PInv, AInv
<1>4. budget \in Nat /\ reserved \in Nat /\ budget >= 1 /\ NumFree(refs) \in Nat
    <2>1. Len(todo) <= budget /\ budget \in Nat /\ reserved \in Nat
        BY <1>2, Types DEF PInv, AInv, CInv, Budgeted
    <2> QED
        BY <1>3, <2>1, FreeFacts
<1>5. decode_ids' = Append(decode_ids, id) /\ reserved' = reserved + 1
    BY <1>2, <1>4 DEF Minimum
<1>6. /\ Decodes \in SUBSET Ids /\ \A x \in Decodes : Need(seq[x]) \in Nat
      /\ Needed(seq, Decodes) \in Nat
    BY <1>2, DecodesNeed DEF PInv, AInv
<1>7. id \in Ids \ Decodes /\ id \in Run /\ decode_needs_new_block(seq[id])
      /\ id \notin Range(prefill_ids)
    <2>1. Range(todo) \cap Decodes = {} /\ Run = Decodes \cup Range(todo) /\ prefill_ids = <<>>
          /\ \A x \in Range(todo) : decode_needs_new_block(seq[x])
        BY <1>2 DEF PInv, AInv, CInv, Lists, Decodes
    <2>2. Range(<<>>) = {}
        BY DEF Range
    <2> QED
        BY <1>3, <2>1, <2>2
<1>8. Need(seq[id]) = 1
    <2>1. Sampled(seq[id]) /\ seq[id] \in SequenceStates
        BY <1>2, <1>7, Types DEF PInv, AInv, CInv, Stages, StageOf
    <2> QED
        BY <1>7, <2>1, NeedFacts
<1>9. Decodes' = Decodes \cup {id}
    <2>1. decode_ids \in Seq(Ids)
        BY Types DEF PInv, AInv, CInv
    <2> QED
        BY <1>3, <1>5, <2>1, RangeAppend DEF Decodes
<1>10. Needed(seq, Decodes \cup {id}) = 1 + Needed(seq, Decodes)
    BY <1>6, <1>7, <1>8, NeededMore
<1>11. Needed(seq, Decodes) <= reserved /\ reserved <= NumFree(refs)
    BY <1>2 DEF PInv, Promised
<1>12. Needed(seq', Decodes') <= reserved' /\ reserved' <= NumFree(refs')
    <2>1. Needed(seq', Decodes') = 1 + Needed(seq, Decodes) /\ NumFree(refs') = NumFree(refs)
        BY <1>2, <1>9, <1>10
    <2> QED
        BY <1>2, <1>4, <1>5, <1>6, <1>11, <2>1
<1> QED
    BY <1>2, <1>12 DEF Promised

\* What a preempted sequence gives up was promised to nobody.
LEMMA PromisedPreempt ==
    ASSUME PInv, Preempt
    PROVE  Promised'
<1>1. PICK id : id = Head(todo)
    OBVIOUS
<1>2. /\ pc = "boundary" /\ pc' = pc /\ todo # <<>> /\ refs' = FreedAll(refs, seq[id].block_ids)
      /\ seq' = [seq EXCEPT ![id] = Preempted(@)] /\ UNCHANGED <<decode_ids, reserved>>
    BY <1>1 DEF Preempt, planVars
<1>3. id \in Range(todo) /\ id \in Ids
    BY <1>1, <1>2, TodoTail DEF PInv, AInv
<1>4. Decodes \in SUBSET Ids /\ Needed(seq, Decodes) \in Nat /\ id \notin Decodes
    BY <1>2, <1>3, DecodesNeed DEF PInv, AInv, CInv, Lists, Decodes
<1>5. \A x \in Decodes : seq'[x] = seq[x]
    BY <1>2, <1>4
<1>6. Needed(seq', Decodes) = Needed(seq, Decodes)
    BY <1>4, <1>5, NeededSame
<1>7. NumFree(refs) <= NumFree(refs') /\ NumFree(refs) \in Nat /\ NumFree(refs') \in Nat
    BY <1>2, <1>3, FreedFrees DEF PInv
<1>8. Needed(seq, Decodes) <= reserved /\ reserved <= NumFree(refs) /\ reserved \in Nat
    BY <1>2, Types DEF PInv, Promised, AInv, CInv
<1>9. Decodes' = Decodes
    BY <1>2 DEF Decodes
<1>10. Needed(seq', Decodes') <= reserved' /\ reserved' <= NumFree(refs')
    BY <1>2, <1>6, <1>7, <1>8, <1>9
<1> QED
    BY <1>2, <1>10 DEF Promised

\* What is free beyond the promises is what admission counts with.
LEMMA PromisedBoundaryDone ==
    ASSUME PInv, BoundaryDone
    PROVE  Promised'
<1>1. /\ pc = "boundary" /\ pc' = "admit" /\ free_blocks' = SaturatingSub(NumFree(refs), reserved)
      /\ UNCHANGED <<refs, seq, decode_ids, prefill_ids, reserved>>
    BY DEF BoundaryDone, schedVars
<1>2. Needed(seq, Decodes) <= reserved /\ reserved <= NumFree(refs) /\ reserved \in Nat
    BY <1>1, Types DEF PInv, Promised, AInv, CInv
<1>3. NumFree(refs) \in Nat
    BY FreeFacts
<1>4. reserved' + free_blocks' <= NumFree(refs')
    <2> DEFINE f == NumFree(refs)
    <2> HIDE DEF f
    <2>1. SaturatingSub(f, reserved) = f - reserved
        BY <1>2, <1>3 DEF SaturatingSub, f
    <2>2. free_blocks' = f - reserved /\ f \in Nat /\ reserved' = reserved /\ NumFree(refs') = f
        BY <1>1, <1>3, <2>1 DEF f
    <2> QED
        BY <1>2, <2>2
<1>5. Needed(seq', Decodes') <= reserved' /\ reserved' <= NumFree(refs')
    BY <1>1, <1>2 DEF Decodes
<1>6. prefill_ids' = <<>> /\ Len(prefill_ids') = 0
    BY <1>1 DEF PInv, AInv, CInv, Lists
<1> QED
    BY <1>1, <1>4, <1>5, <1>6 DEF Promised

\* Looking a prompt up takes nothing.
LEMMA PromisedTouch ==
    ASSUME PInv, TouchForPrefill
    PROVE  Promised'
<1>1. /\ pc = "admit" /\ pc' = "evict" /\ CanAdmitMore
      /\ UNCHANGED <<refs, waiting, running, seq, decode_ids, prefill_ids, budget, reserved, free_blocks>>
    BY DEF TouchForPrefill, planVars
<1>2. CanAdmitMore'
    BY <1>1 DEF CanAdmitMore
<1> QED
    BY <1>1, <1>2 DEF PInv, Promised, Decodes

\* The first prompt is promised what it needs out of what is free beyond.
LEMMA PromisedAdmit ==
    ASSUME PInv, AdmitPrefill
    PROVE  Promised'
<1>1. PICK id : id = Head(waiting)
    OBVIOUS
<1>2. /\ pc \in {"admit", "evict"} /\ pc' = "admit" /\ waiting # <<>> /\ HeadNeeds <= free_blocks
      /\ seq' = [seq EXCEPT ![id].status = "Running", ![id].phase = "Prefill"]
      /\ prefill_ids' = Append(prefill_ids, id)
      /\ UNCHANGED <<refs, cache, decode_ids, reserved>>
    BY <1>1 DEF AdmitPrefill, CanAdmitMore
<1>3. /\ waiting \in Seq(Ids) /\ seq \in [Ids -> SequenceStates] /\ prefill_ids \in Seq(Ids)
      /\ reserved \in Nat /\ free_blocks \in Nat
    BY Types DEF PInv, AInv, CInv
<1>4. id \in Wait /\ id \in Ids
    <2>1. 1 \in 1 .. Len(waiting) /\ id = waiting[1]
        BY <1>1, <1>2, <1>3
    <2> QED
        BY <1>3, <2>1, RangeMember DEF Wait
<1>5. Decodes \in SUBSET Ids /\ Needed(seq, Decodes) \in Nat /\ id \notin Decodes
    <2>1. Decodes \in SUBSET Ids /\ Decodes \subseteq Run /\ Needed(seq, Decodes) \in Nat
        BY <1>2, DecodesNeed DEF PInv, AInv
    <2> QED
        BY <1>4, <2>1 DEF PInv, AInv, CInv, Queues
<1>6. \A x \in Decodes : seq'[x] = seq[x]
    <2> TAKE x \in Decodes
    <2>1. x \in Ids /\ x # id
        BY <1>5
    <2> HIDE DEF Decodes
    <2> QED
        BY <1>2, <1>3, <2>1
<1>7. Needed(seq', Decodes) = Needed(seq, Decodes) /\ Decodes' = Decodes
    BY <1>2, <1>5, <1>6, NeededSame DEF Decodes
<1>8. seq'[id].all_tokens = seq[id].all_tokens
    <2> DEFINE old == seq[id]
               s == [old EXCEPT !.status = "Running", !.phase = "Prefill"]
    <2>1. old \in SequenceStates /\ seq'[id] = s
        BY <1>2, <1>3, <1>4
    <2> HIDE DEF s, old
    <2>2. s.all_tokens = old.all_tokens
        BY <2>1, AdmittedState DEF s
    <2> QED
        BY <2>1, <2>2 DEF old
<1>9. blocks_needed_for_prefill(seq'[id], cache') = HeadNeeds
    BY <1>1, <1>2, <1>8 DEF blocks_needed_for_prefill, HeadNeeds
<1>10. HeadNeeds \in Nat /\ NumFree(refs) \in Nat
    <2>1. seq[id].all_tokens \in Seq(Nat)
        BY <1>3, <1>4, StateTypes
    <2> QED
        BY <1>1, <2>1, HeadNeedsType, FreeFacts
<1>11. Needed(seq', Decodes') <= reserved' /\ reserved' <= NumFree(refs')
    BY <1>2, <1>7 DEF PInv, Promised
<1>12. prefill_ids' # <<>>
    BY <1>2, <1>3, <1>4
<1>13. ASSUME Len(prefill_ids') = 1
       PROVE  reserved' + PromptNeeds(prefill_ids[1])' <= NumFree(refs')
    <2>1. prefill_ids = <<>> /\ prefill_ids'[1] = id
        <3>1. Len(prefill_ids') = Len(prefill_ids) + 1 /\ Len(prefill_ids) \in Nat
            BY <1>2, <1>3, <1>4
        <3>2. Len(prefill_ids) = 0
            BY <1>13, <3>1
        <3> QED
            BY <1>2, <1>3, <3>2
    <2>2. reserved + free_blocks <= NumFree(refs)
        BY <1>2, <2>1 DEF PInv, Promised
    <2>3. PromptNeeds(prefill_ids[1])' = HeadNeeds
        BY <1>9, <2>1 DEF PromptNeeds
    <2> QED
        BY <1>2, <1>3, <1>10, <2>2, <2>3
<1> QED
    BY <1>2, <1>11, <1>12, <1>13 DEF Promised

\* The batch is settled: what was promised goes on to the planner.
LEMMA PromisedScheduled ==
    ASSUME PInv, ScheduleDone
    PROVE  Promised'
<1>1. /\ pc \in {"admit", "evict"} /\ AdmissionOver /\ pc' = "plan" /\ todo' = prefill_ids
      /\ UNCHANGED <<refs, waiting, running, seq, cache, decode_ids, prefill_ids, budget, reserved>>
    BY DEF ScheduleDone, AdmissionOver, schedVars, planVars
<1>2. Alone' <=> Alone
    BY <1>1 DEF Alone, CanAdmitMore
<1>3. Needed(seq, Decodes) <= reserved /\ reserved <= NumFree(refs)
    BY <1>1 DEF PInv, Promised
<1>4. Needed(seq, Decodes) \in Nat /\ reserved \in Nat /\ NumFree(refs) \in Nat
    BY <1>1, DecodesNeed, Types, FreeFacts DEF PInv, AInv, CInv
<1>5. CASE prefill_ids = <<>>
    <2>1. Batch' = Decodes /\ todo' = <<>>
        BY <1>1, <1>5 DEF Batch, Decodes, Range
    <2>2. Needed(seq', Batch') <= NumFree(refs')
        BY <1>1, <1>3, <1>4, <2>1
    <2> QED
        BY <1>1, <2>1, <2>2 DEF Promised
<1>6. CASE prefill_ids # <<>> /\ Alone
    <2>1. pc = "admit" /\ Len(prefill_ids) = 1
        BY <1>1, <1>6 DEF Alone, PInv, Promised
    <2>2. reserved + PromptNeeds(prefill_ids[1]) <= NumFree(refs)
        BY <2>1 DEF PInv, Promised
    <2>3. prefill_ids \in Seq(Ids)
        BY Types DEF PInv, AInv, CInv
    <2>4. prefill_ids[1] \in Ids /\ Head(prefill_ids) = prefill_ids[1]
        BY <2>1, <2>3
    <2> DEFINE need == PromptNeeds(prefill_ids[1])
    <2>5. need \in Nat
        <3>1. seq[prefill_ids[1]].all_tokens \in Seq(Nat)
            BY <2>4, SeqTypes, StateTypes DEF PInv, AInv
        <3> QED
            BY <3>1, PromptNeedsType DEF PromptNeeds
    <2> HIDE DEF need
    <2>6. Needed(seq, Decodes) + need <= NumFree(refs)
        BY <1>3, <1>4, <2>2, <2>5 DEF need
    <2>7. todo' # <<>> /\ PromptNeeds(Head(todo))' = need
        BY <1>1, <1>6, <2>4 DEF need, PromptNeeds
    <2>8. Needed(seq', Decodes') = Needed(seq, Decodes)
        BY <1>1 DEF Decodes
    <2> QED
        BY <1>1, <2>6, <2>7, <2>8 DEF Promised
<1> QED
    BY <1>1, <1>2, <1>5, <1>6 DEF Promised

\* The planner shares what the scheduler counted as cached, no block less.
LEMMA PromisedPlan ==
    ASSUME PInv, CInv', PlanPrefill
    PROVE  Promised'
<1>1. PICK id : id = Head(todo)
    OBVIOUS
<1> DEFINE bs == PlanTable(id)
           n == PlanCount(id)
           old == seq[id]
           s == Grown(old, bs, n * BlockSize)
<1>2. /\ pc = "plan" /\ pc' = pc /\ todo # <<>> /\ todo' = Tail(todo)
      /\ UNCHANGED <<waiting, running, decode_ids, prefill_ids, budget>>
    BY <1>1 DEF PlanPrefill, planVars
<1>3. /\ id \in Range(prefill_ids) /\ id \in Run /\ id \in Ids /\ old \in SequenceStates
      /\ bs \in Seq(Blocks) /\ Len(bs) = n /\ n \in Nat /\ n * BlockSize \in Nat
      /\ n * BlockSize < Len(old.all_tokens)
    BY <1>1, PlanFacts DEF PInv, AInv
<1>4. seq' = [seq EXCEPT ![id] = s] /\ seq \in [Ids -> SequenceStates]
    BY <1>1, PlanFacts, SeqTypes DEF PInv, AInv, Grown
<1>5. n = Minimum(CountCachedBlocks(cache, old.all_tokens), MaxCacheable(old.all_tokens))
    BY DEF PlanCount
<1>6. NumFree(refs) <= NumFree(refs') /\ NumFree(refs) \in Nat /\ NumFree(refs') \in Nat
    BY PlanFrees DEF PInv
<1> HIDE DEF bs, n, old
<1>7. s.all_tokens = old.all_tokens /\ s.block_ids = bs
    BY <1>3, GrownState
<1> HIDE DEF s
<1>8. Need(s) = PromptNeeds(id) /\ Need(s) \in Nat
    <2> DEFINE l == Len(old.all_tokens)
               d == DivCeil(l, BlockSize)
    <2>1. l \in Nat /\ d \in Nat
        BY <1>3, StateTypes, CeilType
    <2>2. DivCeil(n * BlockSize, BlockSize) = n
        BY <1>3, Constants, WholeBlocks
    <2>3. n <= d
        BY <1>3, <2>1, <2>2, CeilMonotone
    <2>4. Need(s) = d - n
        BY <1>3, <1>7 DEF Need
    <2>5. PromptNeeds(id) = SaturatingSub(d, n)
        BY <1>5 DEF PromptNeeds, blocks_needed_for_prefill, old
    <2> HIDE DEF d
    <2> QED
        BY <1>3, <2>1, <2>3, <2>4, <2>5 DEF SaturatingSub
<1>9. /\ Decodes \in SUBSET Ids /\ \A x \in Decodes : x \notin Range(prefill_ids) /\ Need(seq[x]) \in Nat
    BY <1>2, DecodesNeed DEF PInv, AInv
<1>10. id \in Ids \ Decodes /\ seq'[id] = s /\ \A x \in Decodes : seq'[x] = seq[x]
    BY <1>3, <1>4, <1>9
<1>11. ASSUME Alone' PROVE todo' = <<>> /\ Needed(seq', Batch') <= NumFree(refs')
    <2>1. Alone /\ prefill_ids # <<>>
        <3>1. Alone
            BY <1>2, <1>11 DEF Alone, CanAdmitMore
        <3> QED
            BY <1>3, <3>1 DEF Range
    <2>2. prefill_ids \in Seq(Ids) /\ Len(prefill_ids) = 1
        BY <2>1, Types DEF Alone, PInv, AInv, CInv
    <2>3. Range(prefill_ids) = {id}
        BY <1>3, <2>2, RangeMember
    <2>4. todo' = <<>>
        <3>1. Range(todo) \subseteq {id}
            BY <1>2, <2>3 DEF PInv, AInv, CInv, Lists
        <3>2. Tail(todo) \in Seq(Ids) /\ Range(Tail(todo)) = Range(todo) \ {id}
            BY <1>1, <1>2, TodoTail DEF PInv, AInv
        <3>3. Range(Tail(todo)) = {}
            BY <3>1, <3>2
        <3>4. Len(Tail(todo)) = 0
            <4>1. Len(Tail(todo)) \in Nat /\ \A i \in 1 .. Len(Tail(todo)) : FALSE
                BY <3>2, <3>3, RangeMember
            <4> DEFINE l == Len(Tail(todo))
            <4> HIDE DEF l
            <4>2. l \in Nat /\ \A i \in 1 .. l : FALSE
                BY <4>1 DEF l
            <4>3. l >= 1 => 1 \in 1 .. l
                BY <4>2
            <4>4. l = 0
                BY <4>2, <4>3
            <4> QED
                BY <4>4 DEF l
        <3> QED
            BY <1>2, <3>2, <3>4
    <2>5. Batch' = Decodes \cup {id}
        BY <1>2, <2>3 DEF Batch, Decodes
    <2>6. Needed(seq, Decodes) + PromptNeeds(id) <= NumFree(refs)
        BY <1>1, <1>2, <2>1 DEF PInv, Promised
    <2>7. Needed(seq', Decodes) = Needed(seq, Decodes) /\ Needed(seq, Decodes) \in Nat
        BY <1>9, <1>10, NeededSame, NeededNat
    <2>8. Needed(seq', Decodes \cup {id}) = Need(s) + Needed(seq', Decodes)
        BY <1>8, <1>9, <1>10, NeededMore
    <2>9. Needed(seq', Decodes \cup {id}) <= NumFree(refs')
        BY <1>6, <1>8, <2>6, <2>7, <2>8
    <2> QED
        BY <2>4, <2>5, <2>9
<1> QED
    BY <1>2, <1>11 DEF Promised

\* The forward begins with what the planner left it.
LEMMA PromisedPlanned ==
    ASSUME PInv, PlanDone
    PROVE  Promised'
<1>1. /\ pc = "plan" /\ todo = <<>> /\ pc' \in {"retire", "forward"}
      /\ UNCHANGED <<refs, waiting, running, seq, decode_ids, prefill_ids, budget>>
    BY DEF PlanDone, schedVars, planVars
<1>2. Batch' = Batch /\ (Alone' <=> Alone)
    BY <1>1 DEF Batch, Alone, CanAdmitMore
<1>3. Alone => Needed(seq, Batch) <= NumFree(refs)
    BY <1>1 DEF PInv, Promised
<1> QED
    BY <1>1, <1>2, <1>3 DEF Promised

\* An append takes a block of its own sequence's share, or none.
LEMMA PromisedAppend ==
    ASSUME PInv, CInv', ForwardAppend
    PROVE  Promised'
<1>1. PICK id : id = Head(todo)
    OBVIOUS
<1>2. /\ pc = "forward" /\ pc' = pc
      /\ UNCHANGED <<waiting, running, decode_ids, prefill_ids, budget>>
    BY DEF ForwardAppend, planVars
<1>3. PICK k \in Nat, b \in Blocks, bs \in Seq(Blocks) : Appends(id, k, b, bs)
    BY <1>1, AppendFacts DEF PInv, AInv
<1> DEFINE old == seq[id]
           n == old.num_tokens + k
           s == Grown(old, bs, n)
<1>4. id \in Run /\ id \in Ids /\ old \in SequenceStates /\ Tabled(old)
    BY <1>1, AppendFacts DEF PInv, AInv
<1>5. Len(bs) = DivCeil(n, BlockSize) /\ n \in Nat /\ n <= Len(old.all_tokens)
    BY <1>3, <1>4, AppendTable DEF Appends
<1>6. seq' = [seq EXCEPT ![id] = s] /\ seq \in [Ids -> SequenceStates]
    BY <1>3, SeqTypes DEF PInv, AInv, Appends, Grown
<1>7. \/ refs' = refs /\ Len(bs) = Len(old.block_ids)
      \/ b \in FreeBlocks(refs) /\ refs' = Allocated(refs, b) /\ Len(bs) = Len(old.block_ids) + 1
    <2>1. old.block_ids \in Seq(Blocks)
        BY <1>4, StateTypes
    <2>2. CASE old.num_tokens % BlockSize = 0
        <3>1. b \in FreeBlocks(refs) /\ refs' = Allocated(refs, b) /\ bs = Append(old.block_ids, b)
            BY <1>3, <2>2 DEF Appends
        <3> QED
            BY <2>1, <3>1
    <2>3. CASE old.num_tokens % BlockSize # 0
        BY <1>3, <2>3 DEF Appends
    <2> QED
        BY <2>2, <2>3
<1> HIDE DEF old, n
<1>8. /\ s \in SequenceStates /\ s.all_tokens = old.all_tokens /\ s.block_ids = bs /\ s.num_tokens = n
    BY <1>4, <1>5, GrownState
<1> HIDE DEF s
<1>9. Need(s) \in Nat
    <2>1. Tabled(s) /\ s.num_tokens <= Len(s.all_tokens)
        BY <1>5, <1>8 DEF Tabled
    <2> QED
        BY <1>8, <2>1, NeedFacts
<1>10. Batch \in SUBSET Ids /\ id \in Batch /\ \A x \in Batch : Need(seq[x]) \in Nat
    BY <1>2, <1>4, BatchNeeds DEF PInv, AInv
<1>11. seq'[id] = s /\ \A x \in Ids : x # id => seq'[x] = seq[x]
    BY <1>4, <1>6
<1>12. Needed(seq', Batch) + Need(old) = Needed(seq, Batch) + Need(s)
    <2>1. \A x \in Batch : Need(seq[x]) \in Nat /\ Need(seq'[x]) \in Nat
        BY <1>9, <1>10, <1>11
    <2>2. \A x \in Batch \ {id} : Need(seq'[x]) = Need(seq[x])
        BY <1>10, <1>11
    <2>3. Needed(seq', Batch) + Need(seq[id]) = Needed(seq, Batch) + Need(seq'[id])
        BY <1>10, <2>1, <2>2, NeededChange
    <2> QED
        BY <1>11, <2>3 DEF old
<1>13. Needed(seq, Batch) \in Nat /\ Needed(seq', Batch) \in Nat /\ Need(old) \in Nat
    <2>1. \A x \in Batch : Need(seq'[x]) \in Nat
        BY <1>9, <1>10, <1>11
    <2> QED
        BY <1>10, <2>1, NeededNat DEF old
<1>14. ASSUME Alone' PROVE Needed(seq', Batch') <= NumFree(refs')
    <2>1. Alone /\ Batch' = Batch
        BY <1>2, <1>14 DEF Alone, CanAdmitMore, Batch
    <2>2. Needed(seq, Batch) <= NumFree(refs) /\ NumFree(refs) \in Nat
        BY <1>2, <2>1, FreeFacts DEF PInv, Promised
    <2>3. CASE refs' = refs /\ Len(bs) = Len(old.block_ids)
        <3>1. Need(s) = Need(old)
            BY <1>8, <2>3 DEF Need
        <3> QED
            BY <1>9, <1>12, <1>13, <2>1, <2>2, <2>3, <3>1
    <2>4. CASE b \in FreeBlocks(refs) /\ refs' = Allocated(refs, b) /\ Len(bs) = Len(old.block_ids) + 1
        <3> DEFINE d == DivCeil(Len(old.all_tokens), BlockSize)
                   m == Len(old.block_ids)
        <3>1. d \in Nat /\ m \in Nat
            BY <1>4, StateTypes, CeilType
        <3>2. Need(s) = d - Len(bs) /\ Need(old) = d - m
            BY <1>8 DEF Need
        <3> HIDE DEF d, m
        <3>3. Need(s) = Need(old) - 1
            BY <2>4, <3>1, <3>2 DEF m
        <3>4. NumFree(refs') = NumFree(refs) - 1
            BY <2>4, SeqTypes, FreeLess DEF PInv, AInv
        <3> QED
            BY <1>9, <1>12, <1>13, <2>1, <2>2, <3>3, <3>4
    <2> QED
        BY <1>7, <2>3, <2>4
<1> QED
    BY <1>2, <1>14 DEF Promised

\* Between the forward of one step and the schedule of the next nothing is
\* promised.
LEMMA PromisedElsewhere ==
    ASSUME pc' \in {"idle", "sample", "register", "retire", "error"}
    PROVE  Promised'
    BY DEF Promised

\* Every step keeps the promises.
LEMMA PromisedStep == PInv /\ [Next]_vars => Promised'
<1> SUFFICES ASSUME PInv, [Next]_vars PROVE Promised'
    OBVIOUS
<1>1. CInv /\ CInv' /\ AInv
    BY ControlStep DEF PInv, AInv
<1>2. CASE UNCHANGED vars
    <2>1. Batch' = Batch /\ Decodes' = Decodes /\ (Alone' <=> Alone) /\ (CanAdmitMore' <=> CanAdmitMore)
        BY <1>2 DEF vars, Batch, Decodes, Alone, CanAdmitMore
    <2> QED
        BY <1>2, <2>1 DEF vars, PInv, Promised, PromptNeeds
<1>3. CASE ScheduleDecodes
    BY <1>1, <1>3, PromisedDecodes
<1>4. CASE EvictForDecode \/ EvictForPrefill
    BY <1>4, PromisedEvict
<1>5. CASE ScheduleBoundaryDecode
    BY <1>5, PromisedBoundary
<1>6. CASE Preempt
    BY <1>6, PromisedPreempt
<1>7. CASE BoundaryDone
    BY <1>7, PromisedBoundaryDone
<1>8. CASE TouchForPrefill
    BY <1>8, PromisedTouch
<1>9. CASE AdmitPrefill
    BY <1>9, PromisedAdmit
<1>10. CASE ScheduleDone
    BY <1>10, PromisedScheduled
<1>11. CASE PlanPrefill
    BY <1>1, <1>11, PromisedPlan
<1>12. CASE PlanDone
    BY <1>12, PromisedPlanned
<1>13. CASE ForwardAppend
    BY <1>1, <1>13, PromisedAppend
<1>14. CASE ForwardNext
    <2>1. /\ pc = "forward" /\ pc' = pc
          /\ UNCHANGED <<refs, waiting, running, seq, decode_ids, prefill_ids, budget>>
        BY <1>14 DEF ForwardNext, schedVars, planVars
    <2>2. Batch' = Batch /\ (Alone' <=> Alone)
        BY <2>1 DEF Batch, Alone, CanAdmitMore
    <2> QED
        BY <2>1, <2>2 DEF PInv, Promised
<1>15. CASE \/ ForwardExhausted \/ DeviceFault \/ ForwardDone \/ SampleToken \/ RegisterBlock
            \/ RegisterDone \/ SampleDone \/ RetireOne \/ StepReturns \/ StepFails
    <2>1. pc' \in {"idle", "sample", "register", "retire", "error"}
        BY <1>15 DEF ForwardExhausted, DeviceFault, ForwardDone, SampleToken, RegisterBlock,
                     RegisterDone, SampleDone, RetireOne, StepReturns, StepFails, schedVars
    <2> QED
        BY <2>1, PromisedElsewhere
<1>16. ASSUME NEW id \in Ids, AbortSequence(id) PROVE Promised'
    <2>1. pc' = "idle"
        BY <1>16 DEF AbortSequence, abort_sequence, AbortRunningOne, AbortWaitingOne
    <2> QED
        BY <2>1, PromisedElsewhere
<1>17. ASSUME NEW id \in Ids, NEW prompt \in Prompts, NEW max \in MaxTokensChoices,
              AddRequest(id, prompt, max)
       PROVE  Promised'
    <2>1. pc' = "idle"
        BY <1>17 DEF AddRequest, add_request
    <2> QED
        BY <2>1, PromisedElsewhere
<1> QED
    BY <1>2, <1>3, <1>4, <1>5, <1>6, <1>7, <1>8, <1>9, <1>10, <1>11, <1>12, <1>13, <1>14,
       <1>15, <1>16, <1>17, Cases

\* A step that admits no prompt, or one and looks at no other, never runs out of
\* blocks: what Scheduler::schedule counted as free or cached for the decodes at
\* a block boundary and for the prompt is free, up to the last append of the
\* forward.
THEOREM LonePromptCovered == Spec => []SinglePromptCovered
<1>1. Init => PInv
    <2>1. Init => Promised
        BY DEF Init, SchedulerInit, Promised
    <2> QED
        BY <2>1, ControlInit, AccountedInit DEF PInv, AInv
<1>2. PInv /\ [Next]_vars => PInv'
    BY ControlStep, AccountedStep, PromisedStep DEF PInv, AInv
<1>3. PInv => SinglePromptCovered
    BY DemandForm DEF PInv, Promised, SinglePromptCovered, PromisesCovered, Alone, Batch
<1> QED
    BY <1>1, <1>2, <1>3, PTL DEF Spec

-----------------------------------------------------------------------------
(* How many tokens each request had.                                       *)

DInv == CInv /\ Counted

\* What a step has for a request is a list of its own tokens.
LEMMA FreshFacts ==
    ASSUME CInv, NEW id \in Ids
    PROVE  /\ TokensFor(id) \in Seq({id} \X Tokens) /\ Len(TokensFor(id)) \in Nat
           /\ output[id] \in Seq(Tokens) /\ Len(output[id]) \in Nat
           /\ seq[id] \in SequenceStates /\ seq[id].num_generated \in Nat /\ seq[id].max_tokens \in Nat
<1> DEFINE S == {id} \X Tokens
           u == Pick(new_tokens, S)
<1>1. new_tokens \in Seq(Ids \X Tokens) /\ output[id] \in Seq(Tokens) /\ seq[id] \in SequenceStates
    BY DEF CInv, Typed
<1> HIDE DEF S
<1>2. u \in Seq(Ids \X Tokens) /\ Range(u) \subseteq S
    BY <1>1, PickFacts
<1> HIDE DEF u
<1>3. u \in Seq(S)
    <2>1. \A k \in 1 .. Len(u) : u[k] \in Range(u)
        BY <1>2, RangeMember
    <2> QED
        BY <1>2, <2>1
<1>4. TokensFor(id) = u
    BY DEF TokensFor, u, S
<1> QED
    BY <1>1, <1>3, <1>4, StateTypes DEF S

\* Nothing is picked from nothing.
LEMMA PickEmpty == \A S : Pick(<<>>, S) = <<>>
<1> SUFFICES ASSUME NEW S PROVE Pick(<<>>, S) = <<>>
    OBVIOUS
<1>1. <<>> \in Seq(Nat)
    OBVIOUS
<1>2. PICK g : Pick(<<>>, S) = g[Len(<<>>)] /\ g = [n \in 0 .. Len(<<>>) |-> PickStep(<<>>, S, g, n)]
    BY <1>1, PickRecursion
<1> QED
    BY <1>2 DEF PickStep

\* A step that has sampled nothing has no token for anyone.
LEMMA FreshEmpty ==
    /\ new_tokens = <<>> => \A id : TokensFor(id) = <<>>
    /\ new_tokens' = <<>> => \A id : TokensFor(id)' = <<>>
BY PickEmpty DEF TokensFor

\* A sampled token is its own request's and nobody else's.
LEMMA FreshAppend ==
    ASSUME CInv, NEW id \in Ids, NEW tok \in Tokens, new_tokens' = Append(new_tokens, <<id, tok>>)
    PROVE  /\ TokensFor(id)' = Append(TokensFor(id), <<id, tok>>)
           /\ \A x \in Ids : x # id => TokensFor(x)' = TokensFor(x)
<1> DEFINE e == <<id, tok>>
<1>1. new_tokens \in Seq(Ids \X Tokens) /\ e \in Ids \X Tokens
    BY DEF CInv, Typed
<1>2. ASSUME NEW x \in Ids
      PROVE  TokensFor(x)' = IF x = id THEN Append(TokensFor(x), e) ELSE TokensFor(x)
    <2> DEFINE S == {x} \X Tokens
    <2>1. e \in S <=> x = id
        OBVIOUS
    <2> HIDE DEF S, e
    <2>2. Pick(Append(new_tokens, e), S) =
              IF e \in S THEN Append(Pick(new_tokens, S), e) ELSE Pick(new_tokens, S)
        BY <1>1, PickAppend
    <2>3. TokensFor(x)' = Pick(Append(new_tokens, e), S) /\ TokensFor(x) = Pick(new_tokens, S)
        BY DEF TokensFor, S, e
    <2> QED
        BY <2>1, <2>2, <2>3
<1> QED
    BY <1>2

\* The steps that say nothing about a request and take nothing back.
SameRecord(s, t) ==
    /\ t.status = s.status /\ t.num_generated = s.num_generated /\ t.max_tokens = s.max_tokens
    /\ t.finish_reason = s.finish_reason

\* A step that leaves tokens, outcomes and counters alone.
LEMMA CountedKept ==
    ASSUME DInv, UNCHANGED <<new_tokens, output, outcome>>, \A id \in Ids : SameRecord(seq[id], seq'[id]),
           \/ ~Late(pc)
           \/ Late(pc') /\ \A id \in Ids : ToSample(id)' => ToSample(id)
    PROVE  Counted'
<1>1. ASSUME NEW id \in Ids PROVE CountedOf(id, seq[id], TokensFor(id))'
    <2>1. TokensFor(id)' = TokensFor(id)
        BY DEF TokensFor
    <2>2. CountedOf(id, seq[id], TokensFor(id))
        BY DEF DInv, Counted
    <2> QED
        BY <2>1, <2>2 DEF CountedOf, SameRecord
<1> QED
    BY <1>1 DEF Counted

\* Before sampling, a step has no token for anyone.
LEMMA EarlyEmpty ==
    ASSUME DInv, ~Late(pc)
    PROVE  \A id \in Ids : TokensFor(id) = <<>>
BY DEF DInv, Counted, CountedOf

\* No request has a token before the first step.
LEMMA CountedInit == Init => Counted
<1> SUFFICES ASSUME Init, NEW id \in Ids PROVE CountedOf(id, seq[id], TokensFor(id))
    BY DEF Counted
<1>1. seq[id] = Absent /\ new_tokens = <<>> /\ output[id] = <<>>
    BY DEF Init, SchedulerInit
<1>2. TokensFor(id) = <<>>
    BY <1>1, FreshEmpty
<1> QED
    BY <1>1, <1>2, AbsentState DEF CountedOf

\* A step between two steps, or one that moves a sequence between the queues.
LEMMA CountedEarly ==
    ASSUME DInv, ~Late(pc), UNCHANGED <<new_tokens, output>>, NEW id \in Ids,
           \A x \in Ids : x # id => seq'[x] = seq[x] /\ outcome'[x] = outcome[x],
           outcome'[id] = "new" => output[id] = <<>>,
           seq'[id].status # "Absent" => Len(output[id]) = seq'[id].num_generated,
           seq'[id].status \in {"Waiting", "Running"} => seq'[id].num_generated < seq'[id].max_tokens,
           seq'[id].status # "Finished"
    PROVE  Counted'
<1>1. \A x \in Ids : TokensFor(x)' = <<>> /\ TokensFor(x) = <<>>
    <2>1. \A x \in Ids : TokensFor(x)' = TokensFor(x)
        BY DEF TokensFor
    <2> QED
        BY <2>1, EarlyEmpty
<1>2. ASSUME NEW x \in Ids PROVE CountedOf(x, seq[x], TokensFor(x))'
    <2>1. CASE x # id
        <3>1. CountedOf(x, seq[x], TokensFor(x))
            BY DEF DInv, Counted
        <3> QED
            BY <1>1, <2>1, <3>1 DEF CountedOf
    <2>2. CASE x = id
        <3>1. Len(output[id]) + Len(<<>>) = Len(output[id]) /\ Len(<<>>) <= 1
            BY FreshFacts DEF DInv
        <3> QED
            BY <1>1, <2>2, <3>1 DEF CountedOf
    <2> QED
        BY <2>1, <2>2
<1> QED
    BY <1>2 DEF Counted

\* Sampling.
LEMMA CountedSample ==
    ASSUME DInv, SampleToken
    PROVE  Counted'
<1>1. PICK id : id = Head(todo)
    OBVIOUS
<1>2. PICK tok \in Tokens, isStop \in BOOLEAN :
          /\ seq' = [seq EXCEPT ![id] = Advanced(@, tok, isStop)]
          /\ new_tokens' = IF isStop THEN new_tokens ELSE Append(new_tokens, <<id, tok>>)
    BY <1>1 DEF SampleToken
<1>3. /\ pc = "sample" /\ todo # <<>> /\ UNCHANGED <<output, outcome>>
      /\ \/ pc' = "register" /\ todo' = todo
         \/ pc' = "sample" /\ todo' = Tail(todo)
    BY DEF SampleToken
<1>4. /\ id \in Ids /\ id \in Range(todo) /\ tok \in Nat
      /\ Range(Tail(todo)) = Range(todo) \ {id}
    BY <1>1, <1>3, TodoTail, Constants DEF DInv
<1>5. seq \in [Ids -> SequenceStates] /\ id \in Run
    BY <1>3, <1>4, Types DEF DInv, CInv, Lists
<1>6. ToSample(id)
    BY <1>3, <1>4 DEF ToSample
<1> DEFINE old == seq[id]
           s == Advanced(old, tok, isStop)
           u == TokensFor(id)
<1>7. old \in SequenceStates /\ seq' = [seq EXCEPT ![id] = s] /\ seq'[id] = s
      /\ \A x \in Ids : x # id => seq'[x] = seq[x]
    BY <1>2, <1>4, <1>5
<1>8. CountedOf(id, old, u)
    BY <1>4 DEF DInv, Counted
<1>9. u = <<>> /\ old.status = "Running" /\ old.num_generated < old.max_tokens
      /\ Len(output[id]) = old.num_generated
    <2>1. old.status = "Running"
        BY <1>3, <1>5, <1>6 DEF DInv, CInv, Stages, StageOf, Computed
    <2>2. u = <<>>
        BY <1>6, <1>8 DEF CountedOf
    <2>3. Len(output[id]) \in Nat
        BY <1>4, FreshFacts DEF DInv
    <2>4. Len(<<>>) = 0
        OBVIOUS
    <2> QED
        BY <1>8, <2>1, <2>2, <2>3, <2>4 DEF CountedOf
<1>10. old.num_generated \in Nat /\ old.max_tokens \in Nat
    BY <1>7, StateTypes
<1> HIDE DEF s, u, old
<1>11. /\ s.num_generated = IF isStop THEN old.num_generated ELSE old.num_generated + 1
       /\ s.max_tokens = old.max_tokens
       /\ s.status = IF isStop \/ old.num_generated + 1 >= old.max_tokens THEN "Finished" ELSE old.status
       /\ s.finish_reason = IF isStop THEN "stop"
                            ELSE IF old.num_generated + 1 >= old.max_tokens THEN "length"
                            ELSE old.finish_reason
    BY <1>4, <1>7, AdvancedState DEF s
<1>12. Late(pc') /\ ~ToSample(id)' /\ \A x \in Ids : ToSample(x)' => ToSample(x)
    <2>1. Late(pc')
        BY <1>3 DEF Late
    <2>2. CASE pc' = "register" /\ todo' = todo
        <3>1. Head(todo') = id
            BY <1>1, <2>2
        <3> QED
            BY <1>3, <2>1, <2>2, <3>1 DEF ToSample
    <2>3. CASE pc' = "sample" /\ todo' = Tail(todo)
        BY <1>3, <1>4, <2>1, <2>3 DEF ToSample
    <2> QED
        BY <1>3, <2>2, <2>3
<1>13. /\ \A x \in Ids : x # id => TokensFor(x)' = TokensFor(x)
       /\ TokensFor(id)' = IF isStop THEN <<>> ELSE Append(<<>>, <<id, tok>>)
    <2>1. CASE isStop
        BY <1>2, <1>9, <2>1 DEF TokensFor, u
    <2>2. CASE ~isStop
        <3>1. new_tokens' = Append(new_tokens, <<id, tok>>)
            BY <1>2, <2>2
        <3> QED
            BY <1>4, <1>9, <2>2, <3>1, FreshAppend DEF DInv, u
    <2> QED
        BY <2>1, <2>2
<1>14. ASSUME NEW x \in Ids PROVE CountedOf(x, seq[x], TokensFor(x))'
    <2>1. CASE x # id
        <3>1. CountedOf(x, seq[x], TokensFor(x))
            BY DEF DInv, Counted
        <3>2. seq'[x] = seq[x] /\ TokensFor(x)' = TokensFor(x)
            BY <1>7, <1>13, <2>1
        <3> QED
            BY <1>3, <1>12, <3>1, <3>2 DEF CountedOf
    <2>2. CASE x = id
        <3> DEFINE v == IF isStop THEN <<>> ELSE Append(<<>>, <<id, tok>>)
        <3>1. /\ Len(v) = IF isStop THEN 0 ELSE 1
              /\ v = <<>> <=> isStop
            OBVIOUS
        <3> HIDE DEF v
        <3>2. TokensFor(id)' = v
            BY <1>13 DEF v
        <3>3. outcome[id] = "new" => output[id] = <<>>
            BY <1>8 DEF CountedOf
        <3>4. Len(output[id]) + Len(v) = s.num_generated
            BY <1>9, <1>10, <1>11, <3>1
        <3>5. s.status \in {"Running", "Finished"}
            BY <1>9, <1>11
        <3>6. s.status = "Running" => s.num_generated < s.max_tokens
            BY <1>9, <1>10, <1>11
        <3>7. s.status = "Finished" =>
                 \/ s.finish_reason = "stop" /\ v = <<>>
                 \/ s.finish_reason = "length" /\ v # <<>> /\ s.num_generated >= s.max_tokens
            BY <1>9, <1>10, <1>11, <3>1
        <3>8. Len(v) <= 1
            BY <3>1
        <3> QED
            BY <1>3, <1>7, <1>12, <2>2, <3>2, <3>3, <3>4, <3>5, <3>6, <3>7, <3>8 DEF CountedOf
    <2> QED
        BY <2>1, <2>2
<1> QED
    BY <1>14 DEF Counted

\* The step returns: its tokens are the engine loop's.
LEMMA CountedReturns ==
    ASSUME DInv, StepReturns
    PROVE  Counted'
<1>1. /\ pc = "retire" /\ new_tokens' = <<>>
      /\ \A id \in Ids : output'[id] = output[id] \o
                            [k \in 1 .. Len(TokensFor(id)) |-> TokensFor(id)[k][2]]
      /\ \A id \in Ids : outcome'[id] = IF seq[id].status = "Finished"
                                        THEN seq[id].finish_reason ELSE outcome[id]
      /\ \A id \in Ids : seq'[id] = IF seq[id].status = "Finished" THEN Absent ELSE seq[id]
    BY DEF StepReturns
<1>2. ASSUME NEW id \in Ids PROVE CountedOf(id, seq[id], TokensFor(id))'
    <2> DEFINE u == TokensFor(id)
               v == [k \in 1 .. Len(u) |-> u[k][2]]
    <2>1. /\ u \in Seq({id} \X Tokens) /\ Len(u) \in Nat /\ output[id] \in Seq(Tokens)
          /\ Len(output[id]) \in Nat
        BY FreshFacts DEF DInv
    <2>2. CountedOf(id, seq[id], u) /\ StatusOf(id) /\ FinishedOf(id)
        BY DEF DInv, Counted, CInv, Status
    <2> HIDE DEF u
    <2>3. v \in Seq(Tokens) /\ Len(v) = Len(u)
        BY <2>1
    <2> HIDE DEF v
    <2>4. output'[id] = output[id] \o v
        BY <1>1 DEF u, v
    <2>5. Len(output'[id]) = Len(output[id]) + Len(u)
        BY <2>1, <2>3, <2>4
    <2>6. TokensFor(id)' = <<>> /\ Len(<<>>) = 0
        BY <1>1, FreshEmpty
    <2>7. CASE seq[id].status = "Finished"
        <3>1. seq'[id] = Absent /\ outcome'[id] # "new"
            BY <1>1, <2>2, <2>7 DEF FinishedOf
        <3> QED
            BY <2>6, <3>1, AbsentState DEF CountedOf
    <2>8. CASE seq[id].status # "Finished"
        <3>1. seq'[id] = seq[id] /\ outcome'[id] = outcome[id]
            BY <1>1, <2>8
        <3>2. outcome[id] = "new" => output'[id] = <<>>
            <4> SUFFICES ASSUME outcome[id] = "new" PROVE output'[id] = <<>>
                OBVIOUS
            <4>1. seq[id].status = "Absent" /\ output[id] = <<>>
                BY <2>2 DEF StatusOf, CountedOf
            <4>2. u = <<>>
                BY <2>2, <4>1 DEF CountedOf
            <4>3. v = <<>>
                BY <2>3, <4>2
            <4> QED
                BY <2>4, <4>1, <4>3
        <3>3. seq[id].status # "Absent" => Len(output'[id]) + 0 = seq[id].num_generated
            BY <2>1, <2>2, <2>5 DEF CountedOf
        <3> QED
            BY <2>2, <2>6, <2>8, <3>1, <3>2, <3>3 DEF CountedOf
    <2> QED
        BY <2>7, <2>8
<1> QED
    BY <1>2 DEF Counted

\* The step failed: its tokens are nobody's, and neither are its requests.
LEMMA CountedFails ==
    ASSUME DInv, StepFails
    PROVE  Counted'
<1> DEFINE giveUp == consecutive_errors + 1 >= MAX_CONSECUTIVE_ERRORS
           D == Range(running) \cup (IF giveUp THEN Range(waiting) ELSE {})
<1>1. /\ pc = "error" /\ new_tokens' = <<>> /\ output' = output
      /\ \A id \in Ids : outcome'[id] = IF id \in D THEN "error" ELSE outcome[id]
      /\ \A id \in Ids : seq'[id] = IF id \in D THEN Absent ELSE seq[id]
    BY DEF StepFails
<1>2. Run \subseteq D
    BY DEF Run
<1> HIDE DEF D
<1>3. ASSUME NEW id \in Ids PROVE CountedOf(id, seq[id], TokensFor(id))'
    <2>1. /\ CountedOf(id, seq[id], TokensFor(id)) /\ StatusOf(id) /\ FinishedOf(id)
        BY DEF DInv, Counted, CInv, Status
    <2>2. TokensFor(id)' = <<>> /\ Len(<<>>) = 0
        BY <1>1, FreshEmpty
    <2>3. CASE id \in D
        <3>1. seq'[id] = Absent /\ outcome'[id] # "new"
            BY <1>1, <2>3
        <3> QED
            BY <2>2, <3>1, AbsentState DEF CountedOf
    <2>4. CASE id \notin D
        <3>1. seq'[id] = seq[id] /\ outcome'[id] = outcome[id] /\ output'[id] = output[id]
            BY <1>1, <2>4
        <3>2. seq[id].status \notin {"Running", "Finished"}
            BY <1>1, <1>2, <2>1, <2>4 DEF StatusOf, FinishedOf
        <3>3. TokensFor(id) = <<>>
            BY <2>1, <3>2 DEF CountedOf
        <3> QED
            BY <2>1, <2>2, <3>1, <3>2, <3>3 DEF CountedOf
    <2> QED
        BY <2>3, <2>4
<1> QED
    BY <1>3 DEF Counted

\* Every step keeps the counts.
LEMMA CountedStep == DInv /\ [Next]_vars => Counted'
<1> SUFFICES ASSUME DInv, [Next]_vars PROVE Counted'
    OBVIOUS
<1>1. CInv /\ CInv' /\ seq \in [Ids -> SequenceStates] /\ seq' \in [Ids -> SequenceStates]
    BY ControlStep DEF DInv, CInv, Typed
<1>2. \A x \in Ids : SameRecord(seq[x], seq[x])
    BY DEF SameRecord
<1>3. ASSUME UNCHANGED <<seq, new_tokens, output, outcome>>,
             \/ ~Late(pc)
             \/ Late(pc') /\ \A id \in Ids : ToSample(id)' => ToSample(id)
      PROVE  Counted'
    BY <1>2, <1>3, CountedKept
<1>4. CASE UNCHANGED vars
    <2>1. UNCHANGED <<seq, new_tokens, output, outcome, pc, todo>>
        BY <1>4 DEF vars
    <2> QED
        BY <1>3, <2>1 DEF ToSample, Late
<1>5. CASE /\ \/ ScheduleDecodes \/ EvictForDecode \/ ScheduleBoundaryDecode \/ BoundaryDone
              \/ TouchForPrefill \/ EvictForPrefill \/ ScheduleDone
           /\ UNCHANGED engineVars
    <2>1. UNCHANGED <<new_tokens, output, outcome>>
        BY <1>5 DEF engineVars
    <2>2. UNCHANGED seq
        BY <1>5 DEF ScheduleDecodes, EvictForDecode, ScheduleBoundaryDecode, BoundaryDone,
                    TouchForPrefill, EvictForPrefill, ScheduleDone, schedVars
    <2>3. pc \in {"idle", "boundary", "admit", "evict"}
        BY <1>5 DEF ScheduleDecodes, EvictForDecode, ScheduleBoundaryDecode, BoundaryDone,
                    TouchForPrefill, EvictForPrefill, ScheduleDone, AdmissionOver
    <2> QED
        BY <1>3, <2>1, <2>2, <2>3 DEF Late
<1>6. CASE PlanDone \/ ForwardNext \/ ForwardExhausted \/ ForwardDone
    BY <1>3, <1>6 DEF PlanDone, ForwardNext, ForwardExhausted, ForwardDone, schedVars, engineVars, Late
<1>7. CASE SampleDone \/ DeviceFault
    <2>1. UNCHANGED <<seq, new_tokens, output, outcome>> /\ pc' \in {"retire", "error"}
        BY <1>7 DEF SampleDone, DeviceFault, schedVars, engineVars
    <2> QED
        BY <1>3, <2>1 DEF Late, ToSample
<1>8. CASE RegisterDone
    <2>1. /\ pc = "register" /\ pc' = "sample" /\ todo' = Tail(todo)
          /\ UNCHANGED <<seq, new_tokens, output, outcome>>
        BY <1>8 DEF RegisterDone, schedVars, engineVars
    <2>2. todo # <<>>
        BY <1>1, <2>1 DEF CInv, Lists
    <2>3. Range(Tail(todo)) = Range(todo) \ {Head(todo)}
        BY <1>1, <2>2, TodoTail
    <2> QED
        BY <1>3, <2>1, <2>3 DEF Late, ToSample
<1>9. CASE RegisterBlock
    <2>1. UNCHANGED <<seq, new_tokens, output, outcome, pc, todo>>
        BY <1>9 DEF RegisterBlock
    <2> QED
        BY <1>3, <2>1 DEF ToSample, Late
<1>10. ASSUME NEW id \in Ids, NEW s, seq' = [seq EXCEPT ![id] = s], SameRecord(seq[id], s),
              UNCHANGED <<new_tokens, output, outcome>>,
              \/ ~Late(pc)
              \/ Late(pc') /\ \A x \in Ids : ToSample(x)' => ToSample(x)
       PROVE  Counted'
    <2>1. \A x \in Ids : SameRecord(seq[x], seq'[x])
        BY <1>1, <1>2, <1>10
    <2> QED
        BY <1>10, <2>1, CountedKept
<1>11. CASE PlanPrefill
    <2>1. PICK id : id = Head(todo)
        OBVIOUS
    <2>2. pc = "plan" /\ UNCHANGED <<new_tokens, output, outcome>>
        BY <1>11 DEF PlanPrefill
    <2> DEFINE old == seq[id]
               bs == PlanTable(id)
               n == PlanCount(id) * BlockSize
               s == Grown(old, bs, n)
    <2>3. id \in Ids /\ old \in SequenceStates /\ bs \in Seq(Blocks) /\ n \in Nat
          /\ seq' = [seq EXCEPT ![id] = s]
        BY <1>1, <1>11, <2>1, PlanFacts DEF Grown
    <2> HIDE DEF old, bs, n
    <2>4. SameRecord(old, s)
        BY <2>3, GrownState DEF SameRecord
    <2> QED
        BY <1>10, <2>2, <2>3, <2>4 DEF old, Late
<1>12. CASE ForwardAppend
    <2>1. PICK id : id = Head(todo)
        OBVIOUS
    <2>2. pc = "forward" /\ UNCHANGED <<new_tokens, output, outcome>>
        BY <1>12 DEF ForwardAppend
    <2>3. PICK k \in Nat, b \in Blocks, bs \in Seq(Blocks) : Appends(id, k, b, bs)
        BY <1>1, <1>12, <2>1, AppendFacts
    <2> DEFINE old == seq[id]
               n == old.num_tokens + k
               s == Grown(old, bs, n)
    <2>4. id \in Ids /\ old \in SequenceStates
        BY <1>1, <1>12, <2>1, AppendFacts
    <2>5. n \in Nat /\ seq' = [seq EXCEPT ![id] = s]
        BY <2>3, <2>4, StateTypes DEF Appends, Grown
    <2> HIDE DEF old, n
    <2>6. SameRecord(old, s)
        BY <2>3, <2>4, <2>5, GrownState DEF SameRecord
    <2> QED
        BY <1>10, <2>2, <2>4, <2>5, <2>6 DEF old, Late
<1>13. CASE RetireOne
    <2>1. PICK id : id = Head(todo)
        OBVIOUS
    <2>2. /\ pc = "retire" /\ pc' = pc /\ todo # <<>> /\ seq' = [seq EXCEPT ![id] = Cleared(seq[id])]
          /\ UNCHANGED <<new_tokens, output, outcome>>
        BY <1>13, <2>1 DEF RetireOne, engineVars
    <2>3. id \in Ids
        BY <1>1, <2>1, <2>2, TodoTail
    <2>4. SameRecord(seq[id], Cleared(seq[id]))
        BY <1>1, <2>3, ClearedState DEF SameRecord
    <2> QED
        BY <1>10, <2>2, <2>3, <2>4 DEF Late, ToSample
<1>14. ASSUME NEW id \in Ids, ~Late(pc)
       PROVE  /\ outcome[id] = "new" => output[id] = <<>>
              /\ seq[id].status # "Absent" => Len(output[id]) = seq[id].num_generated
              /\ seq[id].status \in {"Waiting", "Running"} => seq[id].num_generated < seq[id].max_tokens
    <2>1. CountedOf(id, seq[id], <<>>)
        BY <1>14, EarlyEmpty DEF DInv, Counted
    <2>2. Len(output[id]) + Len(<<>>) = Len(output[id])
        BY <1>1, FreshFacts
    <2> QED
        BY <2>1, <2>2 DEF CountedOf
<1>15. CASE AdmitPrefill /\ UNCHANGED engineVars
    <2>1. PICK id : id = Head(waiting)
        OBVIOUS
    <2>2. /\ pc \in {"admit", "evict"} /\ waiting # <<>> /\ UNCHANGED <<new_tokens, output, outcome>>
          /\ seq' = [seq EXCEPT ![id].status = "Running", ![id].phase = "Prefill"]
        BY <1>15, <2>1 DEF AdmitPrefill, CanAdmitMore, engineVars
    <2>3. waiting \in Seq(Ids)
        BY <1>1, Types DEF CInv
    <2>4. id \in Ids /\ id \in Wait
        BY <2>1, <2>2, <2>3 DEF Wait, Range
    <2> DEFINE old == seq[id]
               s == [old EXCEPT !.status = "Running", !.phase = "Prefill"]
    <2>5. old \in SequenceStates /\ seq' = [seq EXCEPT ![id] = s]
        BY <1>1, <2>2, <2>4
    <2>6. old.status = "Waiting"
        BY <1>1, <2>4 DEF CInv, Status, StatusOf
    <2>7. /\ outcome[id] = "new" => output[id] = <<>>
          /\ Len(output[id]) = old.num_generated /\ old.num_generated < old.max_tokens
        BY <1>14, <2>2, <2>4, <2>6 DEF Late
    <2> HIDE DEF s, old
    <2>8. s.status = "Running" /\ s.num_generated = old.num_generated /\ s.max_tokens = old.max_tokens
        BY <2>5, AdmittedState DEF s
    <2>9. seq'[id] = s /\ \A x \in Ids : x # id => seq'[x] = seq[x]
        BY <1>1, <2>4, <2>5
    <2>10. ~Late(pc)
        BY <2>2 DEF Late
    <2> QED
        BY <2>2, <2>4, <2>7, <2>8, <2>9, <2>10, CountedEarly
<1>16. CASE Preempt /\ UNCHANGED engineVars
    <2>1. PICK id : id = Head(todo)
        OBVIOUS
    <2> DEFINE old == seq[id]
               s == Preempted(old)
    <2>2. /\ pc = "boundary" /\ todo # <<>> /\ seq' = [seq EXCEPT ![id] = s]
          /\ UNCHANGED <<new_tokens, output, outcome>>
        BY <1>16, <2>1 DEF Preempt, engineVars
    <2>3. id \in Ids /\ id \in Run
        BY <1>1, <2>1, <2>2, TodoTail DEF CInv, Lists
    <2>4. old.status = "Running" /\ old \in SequenceStates
        BY <1>1, <2>2, <2>3, NobodyFinished DEF CInv, Status, StatusOf
    <2>5. /\ outcome[id] = "new" => output[id] = <<>>
          /\ Len(output[id]) = old.num_generated /\ old.num_generated < old.max_tokens
        BY <1>14, <2>2, <2>3, <2>4 DEF Late
    <2> HIDE DEF s, old
    <2>6. s.status = "Waiting" /\ s.num_generated = old.num_generated /\ s.max_tokens = old.max_tokens
        BY <2>4, PreemptedState DEF s
    <2>7. seq'[id] = s /\ \A x \in Ids : x # id => seq'[x] = seq[x]
        BY <1>1, <2>2, <2>3
    <2>8. ~Late(pc)
        BY <2>2 DEF Late
    <2> QED
        BY <2>2, <2>3, <2>5, <2>6, <2>7, <2>8, CountedEarly
<1>17. ASSUME NEW id \in Ids, AbortSequence(id) PROVE Counted'
    <2>1. /\ pc = "idle" /\ seq' = [seq EXCEPT ![id] = Absent] /\ UNCHANGED <<new_tokens, output>>
          /\ outcome' = [outcome EXCEPT ![id] = "aborted"]
        BY <1>17 DEF AbortSequence, abort_sequence, AbortRunningOne, AbortWaitingOne
    <2>2. outcome \in [Ids -> {"new", "pending", "stop", "length", "aborted", "error"}]
        BY <1>1 DEF CInv, Typed
    <2>3. /\ seq'[id] = Absent /\ outcome'[id] = "aborted"
          /\ \A x \in Ids : x # id => seq'[x] = seq[x] /\ outcome'[x] = outcome[x]
        BY <1>1, <2>1, <2>2
    <2>4. ~Late(pc)
        BY <2>1 DEF Late
    <2> QED
        BY <2>1, <2>3, <2>4, AbsentState, CountedEarly
<1>18. ASSUME NEW id \in Ids, NEW prompt \in Prompts, NEW max \in MaxTokensChoices,
              AddRequest(id, prompt, max)
       PROVE  Counted'
    <2> DEFINE s == NewSequence(prompt, max)
    <2>1. /\ pc = "idle" /\ outcome[id] = "new" /\ seq' = [seq EXCEPT ![id] = s]
          /\ UNCHANGED <<new_tokens, output>> /\ outcome' = [outcome EXCEPT ![id] = "pending"]
        BY <1>18 DEF AddRequest, add_request
    <2>2. outcome \in [Ids -> {"new", "pending", "stop", "length", "aborted", "error"}]
        BY <1>1 DEF CInv, Typed
    <2>3. max \in Nat /\ 0 < max /\ prompt \in Seq(Nat)
        BY Constants
    <2>4. output[id] = <<>>
        BY <1>14, <2>1 DEF Late
    <2> HIDE DEF s
    <2>5. s.status = "Waiting" /\ s.num_generated = 0 /\ s.max_tokens = max
        BY <2>3, NewState DEF s
    <2>6. /\ seq'[id] = s /\ outcome'[id] = "pending"
          /\ \A x \in Ids : x # id => seq'[x] = seq[x] /\ outcome'[x] = outcome[x]
        BY <1>1, <2>1, <2>2
    <2>7. ~Late(pc) /\ Len(output[id]) = 0
        BY <2>1, <2>4 DEF Late
    <2> QED
        BY <2>1, <2>3, <2>5, <2>6, <2>7, CountedEarly
<1>19. CASE SampleToken
    BY <1>19, CountedSample
<1>20. CASE StepReturns
    BY <1>20, CountedReturns
<1>21. CASE StepFails
    BY <1>21, CountedFails
<1> QED
    BY <1>4, <1>5, <1>6, <1>7, <1>8, <1>9, <1>11, <1>12, <1>13, <1>15, <1>16, <1>17, <1>18, <1>19,
       <1>20, <1>21, Cases

-----------------------------------------------------------------------------
(* The engine implements the generation service.                           *)

\* The cap of a pending request, as the refinement mapping has it.
CapOf(o, q) == [id \in Ids |-> IF o[id] = "pending" THEN q[id].max_tokens ELSE 0]

\* The steps the engine loop does not see.
LEMMA QuietSteps ==
    ASSUME CInv, [Next]_vars, ~StepReturns, ~StepFails, \A id \in Ids : ~AbortSequence(id),
           \A id \in Ids, prompt \in Prompts, max \in MaxTokensChoices : ~AddRequest(id, prompt, max)
    PROVE  UNCHANGED <<output, outcome>> /\ \A id \in Ids : seq'[id].max_tokens = seq[id].max_tokens
<1>1. seq \in [Ids -> SequenceStates]
    BY Types DEF CInv
<1>2. ASSUME NEW id \in Ids, NEW s, seq' = [seq EXCEPT ![id] = s], s.max_tokens = seq[id].max_tokens
      PROVE  \A x \in Ids : seq'[x].max_tokens = seq[x].max_tokens
    BY <1>1, <1>2
<1>3. CASE UNCHANGED vars
    BY <1>3 DEF vars
<1>4. CASE /\ \/ ScheduleDecodes \/ EvictForDecode \/ ScheduleBoundaryDecode \/ BoundaryDone
              \/ TouchForPrefill \/ EvictForPrefill \/ ScheduleDone
           /\ UNCHANGED engineVars
    BY <1>4 DEF ScheduleDecodes, EvictForDecode, ScheduleBoundaryDecode, BoundaryDone,
                TouchForPrefill, EvictForPrefill, ScheduleDone, schedVars, engineVars
<1>5. CASE PlanDone \/ ForwardNext \/ ForwardExhausted \/ ForwardDone
    BY <1>5 DEF PlanDone, ForwardNext, ForwardExhausted, ForwardDone, schedVars, engineVars
<1>6. CASE SampleDone \/ DeviceFault \/ RegisterDone \/ RegisterBlock
    BY <1>6 DEF SampleDone, DeviceFault, RegisterDone, RegisterBlock, schedVars, engineVars
<1>7. CASE PlanPrefill
    <2>1. PICK id : id = Head(todo)
        OBVIOUS
    <2>2. UNCHANGED <<output, outcome>>
        BY <1>7 DEF PlanPrefill
    <2> DEFINE old == seq[id]
               bs == PlanTable(id)
               n == PlanCount(id) * BlockSize
               s == Grown(old, bs, n)
    <2>3. id \in Ids /\ old \in SequenceStates /\ bs \in Seq(Blocks) /\ n \in Nat
          /\ seq' = [seq EXCEPT ![id] = s]
        BY <1>7, <2>1, PlanFacts DEF Grown
    <2> HIDE DEF old, bs, n
    <2>4. s.max_tokens = old.max_tokens
        BY <2>3, GrownState
    <2> QED
        BY <1>2, <2>2, <2>3, <2>4 DEF old
<1>8. CASE ForwardAppend
    <2>1. PICK id : id = Head(todo)
        OBVIOUS
    <2>2. UNCHANGED <<output, outcome>>
        BY <1>8 DEF ForwardAppend
    <2>3. PICK k \in Nat, b \in Blocks, bs \in Seq(Blocks) : Appends(id, k, b, bs)
        BY <1>8, <2>1, AppendFacts
    <2> DEFINE old == seq[id]
               n == old.num_tokens + k
               s == Grown(old, bs, n)
    <2>4. id \in Ids /\ old \in SequenceStates
        BY <1>8, <2>1, AppendFacts
    <2>5. n \in Nat /\ seq' = [seq EXCEPT ![id] = s]
        BY <2>3, <2>4, StateTypes DEF Appends, Grown
    <2> HIDE DEF old, n
    <2>6. s.max_tokens = old.max_tokens
        BY <2>3, <2>4, <2>5, GrownState
    <2> QED
        BY <1>2, <2>2, <2>4, <2>5, <2>6 DEF old
<1>9. CASE RetireOne
    <2>1. PICK id : id = Head(todo)
        OBVIOUS
    <2>2. /\ todo # <<>> /\ seq' = [seq EXCEPT ![id] = Cleared(seq[id])] /\ UNCHANGED <<output, outcome>>
        BY <1>9, <2>1 DEF RetireOne, engineVars
    <2>3. id \in Ids
        BY <2>1, <2>2, TodoTail
    <2>4. Cleared(seq[id]).max_tokens = seq[id].max_tokens
        BY <1>1, <2>3, ClearedState
    <2> QED
        BY <1>2, <2>2, <2>3, <2>4
<1>10. CASE Preempt /\ UNCHANGED engineVars
    <2>1. PICK id : id = Head(todo)
        OBVIOUS
    <2>2. /\ todo # <<>> /\ seq' = [seq EXCEPT ![id] = Preempted(seq[id])] /\ UNCHANGED <<output, outcome>>
        BY <1>10, <2>1 DEF Preempt, engineVars
    <2>3. id \in Ids
        BY <2>1, <2>2, TodoTail
    <2>4. Preempted(seq[id]).max_tokens = seq[id].max_tokens
        BY <1>1, <2>3, PreemptedState
    <2> QED
        BY <1>2, <2>2, <2>3, <2>4
<1>11. CASE AdmitPrefill /\ UNCHANGED engineVars
    <2>1. PICK id : id = Head(waiting)
        OBVIOUS
    <2>2. /\ waiting # <<>> /\ UNCHANGED <<output, outcome>>
          /\ seq' = [seq EXCEPT ![id].status = "Running", ![id].phase = "Prefill"]
        BY <1>11, <2>1 DEF AdmitPrefill, CanAdmitMore, engineVars
    <2>3. waiting \in Seq(Ids)
        BY Types DEF CInv
    <2>4. id \in Ids
        BY <2>1, <2>2, <2>3
    <2> DEFINE old == seq[id]
               s == [old EXCEPT !.status = "Running", !.phase = "Prefill"]
    <2>5. old \in SequenceStates /\ seq' = [seq EXCEPT ![id] = s]
        BY <1>1, <2>2, <2>4
    <2> HIDE DEF s, old
    <2>6. s.max_tokens = old.max_tokens
        BY <2>5, AdmittedState DEF s
    <2> QED
        BY <1>2, <2>2, <2>4, <2>5, <2>6 DEF old
<1>12. CASE SampleToken
    <2>1. PICK id : id = Head(todo)
        OBVIOUS
    <2>2. PICK tok \in Tokens, isStop \in BOOLEAN : seq' = [seq EXCEPT ![id] = Advanced(@, tok, isStop)]
        BY <1>12, <2>1 DEF SampleToken
    <2>3. todo # <<>> /\ UNCHANGED <<output, outcome>>
        BY <1>12 DEF SampleToken
    <2>4. id \in Ids /\ tok \in Nat
        BY <2>1, <2>3, TodoTail, Constants
    <2> DEFINE old == seq[id]
               s == Advanced(old, tok, isStop)
    <2>5. old \in SequenceStates /\ seq' = [seq EXCEPT ![id] = s]
        BY <1>1, <2>2, <2>4
    <2> HIDE DEF s, old
    <2>6. s.max_tokens = old.max_tokens
        BY <2>4, <2>5, AdvancedState DEF s
    <2> QED
        BY <1>2, <2>3, <2>4, <2>5, <2>6 DEF old
<1> QED
    BY <1>3, <1>4, <1>5, <1>6, <1>7, <1>8, <1>9, <1>10, <1>11, <1>12, Cases

\* What a step that returns says about a request.
ReplyOf(id) ==
    [tokens  |-> [k \in 1 .. Len(TokensFor(id)) |-> TokensFor(id)[k][2]],
     stopped |-> seq[id].status = "Finished" /\ seq[id].finish_reason = "stop"]

\* A sequence of at most one element.
LEMMA ShortSeq ==
    ASSUME NEW T, NEW q \in Seq(T), Len(q) <= 1, q # <<>>
    PROVE  Len(q) = 1 /\ q[1] \in T
<1>1. Len(q) \in Nat /\ Len(q) # 0
    BY EmptySeq
<1>2. Len(q) = 1
    BY <1>1
<1>3. q[1] \in T
    BY <1>2, ElementOfSeq
<1> QED
    BY <1>2, <1>3

\* One token or none, and no token before a stop, is a reply of the service.
LEMMA IsReply ==
    ASSUME NEW v, NEW b \in BOOLEAN,
           v = <<>> \/ (~b /\ \E t \in Tokens : v = <<t>>)
    PROVE  [tokens |-> v, stopped |-> b] \in Service!Replies
<1>1. v \in Service!SeqOf(Tokens, 1) /\ (b => v = <<>>)
    <2>1. CASE v = <<>>
        <3>1. v \in [1 .. 0 -> Tokens] /\ 0 \in 0 .. 1
            BY <2>1
        <3> QED
            BY <2>1, <3>1 DEF Service!SeqOf
    <2>2. CASE v # <<>>
        <3>1. ~b /\ v \in [1 .. 1 -> Tokens] /\ 1 \in 0 .. 1
            BY <2>2
        <3> QED
            BY <3>1 DEF Service!SeqOf
    <2> QED
        BY <2>1, <2>2
<1>2. b => Len(v) < 1
    BY <1>1
<1> DEFINE r == [tokens |-> v, stopped |-> b]
<1>3. r \in [tokens : Service!SeqOf(Tokens, 1), stopped : BOOLEAN] /\ r.tokens = v /\ r.stopped = b
    BY <1>1
<1> HIDE DEF r
<1>4. r \in Service!Replies
    BY <1>2, <1>3 DEF Service!Replies
<1> QED
    BY <1>4 DEF r

\* A request is told at most one thing by a step, and its text and outcome
\* follow from it as the service says.
LEMMA ReplyFacts ==
    ASSUME DInv, NEW id \in Ids, StepReturns
    PROVE  /\ ReplyOf(id) \in Service!Replies
           /\ outcome[id] # "pending" => ReplyOf(id) = Service!Silent
           /\ output'[id] = Service!GrownOutput(id, ReplyOf(id))
           /\ outcome'[id] = Service!NewOutcome(id, ReplyOf(id))
<1> DEFINE s == seq[id]
           u == TokensFor(id)
           v == [k \in 1 .. Len(u) |-> u[k][2]]
           b == s.status = "Finished" /\ s.finish_reason = "stop"
           r == ReplyOf(id)
           cap == IF outcome[id] = "pending" THEN s.max_tokens ELSE 0
<1>1. /\ output'[id] = output[id] \o v /\ pc = "retire"
      /\ outcome'[id] = IF s.status = "Finished" THEN s.finish_reason ELSE outcome[id]
    BY DEF StepReturns
<1>2. /\ u \in Seq({id} \X Tokens) /\ Len(u) \in Nat /\ output[id] \in Seq(Tokens)
      /\ Len(output[id]) \in Nat /\ s.num_generated \in Nat /\ s.max_tokens \in Nat
    BY FreshFacts DEF DInv
<1>3. CountedOf(id, s, u) /\ StatusOf(id) /\ FinishedOf(id)
    BY DEF DInv, Counted, CInv, Status
<1>r. r = [tokens |-> v, stopped |-> b] /\ b \in BOOLEAN
    BY DEF ReplyOf
<1>4. u = <<>> => v = <<>>
    OBVIOUS
<1> HIDE DEF u, s
<1>5. u # <<>> => Len(u) = 1 /\ u[1] \in {id} \X Tokens
    <2> DEFINE T == {id} \X Tokens
    <2>1. Len(u) <= 1 /\ u \in Seq(T) /\ Len(u) \in Nat
        BY <1>2, <1>3 DEF CountedOf
    <2> HIDE DEF T
    <2> QED
        BY <2>1, ShortSeq DEF T
<1>6. u # <<>> => u[1][2] \in Tokens /\ v = <<u[1][2]>>
    BY <1>5
<1>7. output[id] \o <<>> = output[id]
    BY <1>2
<1>m. s.status = "Finished" /\ s.finish_reason = "stop" <=> b
    OBVIOUS
<1> HIDE DEF v, b, r
<1>p. r.tokens = v /\ r.stopped = b
    BY <1>r
<1>g. output'[id] = Service!GrownOutput(id, r)
    BY <1>1, <1>p DEF Service!GrownOutput
<1>8. CASE b
    <2>1. u = <<>> /\ outcome[id] = "pending"
        BY <1>3, <1>8, <1>m DEF CountedOf, StatusOf, s, u
    <2>2. v = <<>> /\ outcome'[id] = "stop"
        BY <1>1, <1>4, <1>8, <1>m, <2>1
    <2>3. r \in Service!Replies
        BY <1>r, <2>2, IsReply
    <2>4. outcome'[id] = Service!NewOutcome(id, r)
        BY <1>8, <1>p, <2>2 DEF Service!NewOutcome
    <2> QED
        BY <1>g, <2>1, <2>3, <2>4 DEF r
<1>9. CASE ~b /\ u # <<>>
    <2> DEFINE t == u[1][2]
    <2>1. v = <<t>> /\ t \in Tokens
        BY <1>6, <1>9
    <2>2. s.status \in {"Running", "Finished"} /\ outcome[id] = "pending" /\ cap = s.max_tokens
        BY <1>3, <1>9, <1>m DEF CountedOf, StatusOf, s
    <2>3. Len(output[id]) + 1 = s.num_generated
        BY <1>3, <1>5, <1>9, <2>2 DEF CountedOf
    <2>4. s.status = "Finished" <=> Len(output[id]) + 1 >= cap
        BY <1>2, <1>3, <1>9, <1>m, <2>2, <2>3 DEF CountedOf
    <2>5. s.status = "Finished" => s.finish_reason = "length"
        BY <1>3, <1>9, <1>m DEF CountedOf
    <2>6. outcome'[id] = IF Len(output[id]) + 1 >= cap THEN "length" ELSE outcome[id]
        BY <1>1, <2>4, <2>5
    <2> HIDE DEF t, cap
    <2>7. r \in Service!Replies
        BY <1>9, <1>r, <2>1, IsReply
    <2>8. v # <<>> /\ Len(v) = 1
        BY <2>1
    <2>9. r.stopped = FALSE /\ r.tokens # <<>> /\ Len(r.tokens) = 1
        BY <1>9, <1>p, <1>r, <2>8
    <2>10. outcome'[id] = Service!NewOutcome(id, r)
        BY <2>6, <2>9 DEF Service!NewOutcome, cap, s
    <2> QED
        BY <1>g, <2>2, <2>7, <2>10 DEF r
<1>10. CASE ~b /\ u = <<>>
    <2>1. v = <<>>
        BY <1>4, <1>10
    <2>2. outcome'[id] = outcome[id]
        BY <1>1, <1>3, <1>10, <1>m DEF CountedOf
    <2>3. r \in Service!Replies
        BY <1>r, <2>1, IsReply
    <2>4. b = FALSE
        BY <1>10, <1>r
    <2>5. r = Service!Silent
        BY <1>r, <2>1, <2>4 DEF Service!Silent
    <2>6. outcome'[id] = Service!NewOutcome(id, r)
        BY <1>p, <2>1, <2>2, <2>4 DEF Service!NewOutcome
    <2> QED
        BY <1>g, <2>3, <2>5, <2>6 DEF r
<1> QED
    BY <1>8, <1>9, <1>10

\* A step that returns is one delivery of the service,
LEMMA ReturnsDeliver ==
    ASSUME DInv, CInv', StepReturns
    PROVE  Service!StepDelivers
<1> DEFINE reply == [id \in Ids |-> ReplyOf(id)]
<1>1. /\ output' = [id \in Ids |-> output'[id]] /\ outcome' = [id \in Ids |-> outcome'[id]]
    BY DEF CInv, Typed
<1>2. reply \in [Ids -> Service!Replies]
    BY ReplyFacts
<1>3. \A id \in Ids \ Service!Pending : reply[id] = Service!Silent
    BY ReplyFacts DEF Service!Pending
<1>4. output' = [id \in Ids |-> Service!GrownOutput(id, reply[id])]
    BY <1>1, ReplyFacts
<1>5. outcome' = [id \in Ids |-> Service!NewOutcome(id, reply[id])]
    BY <1>1, ReplyFacts
<1>6. CapOf(outcome', seq') = [id \in Ids |-> IF outcome'[id] = "pending" THEN CapOf(outcome, seq)[id] ELSE 0]
    <2>1. \A id \in Ids : outcome'[id] = "pending" => outcome[id] = "pending" /\ seq'[id] = seq[id]
        <3>1. /\ \A id \in Ids : outcome'[id] = IF seq[id].status = "Finished"
                                                THEN seq[id].finish_reason ELSE outcome[id]
              /\ \A id \in Ids : seq'[id] = IF seq[id].status = "Finished" THEN Absent ELSE seq[id]
            BY DEF StepReturns
        <3>2. \A id \in Ids : seq[id].status = "Finished" => seq[id].finish_reason \in {"stop", "length"}
            BY DEF DInv, CInv, Status, FinishedOf
        <3> QED
            BY <3>1, <3>2
    <2> QED
        BY <2>1 DEF CapOf
<1> HIDE DEF reply
<1> QED
    BY <1>2, <1>3, <1>4, <1>5, <1>6 DEF Service!StepDelivers, Service!CapsAfter, CapOf

\* and one that fails tells an error to requests that were pending.
LEMMA FailsErr ==
    ASSUME DInv, StepFails
    PROVE  Service!StepErrs
<1> DEFINE giveUp == consecutive_errors + 1 >= MAX_CONSECUTIVE_ERRORS
           D == Range(running) \cup (IF giveUp THEN Range(waiting) ELSE {})
<1>1. /\ outcome' = [id \in Ids |-> IF id \in D THEN "error" ELSE outcome[id]]
      /\ seq' = [id \in Ids |-> IF id \in D THEN Absent ELSE seq[id]] /\ output' = output
    BY DEF StepFails
<1>2. D \subseteq Run \cup Wait /\ Run \cup Wait \subseteq Ids
    BY Types DEF Run, Wait, DInv, CInv
<1> HIDE DEF D
<1>3. D \in SUBSET Service!Pending
    <2>1. \A id \in Run \cup Wait : outcome[id] = "pending"
        BY <1>2 DEF DInv, CInv, Status, StatusOf
    <2> QED
        BY <1>2, <2>1 DEF Service!Pending
<1>4. CapOf(outcome', seq') = [id \in Ids |-> IF outcome'[id] = "pending" THEN CapOf(outcome, seq)[id] ELSE 0]
    BY <1>1 DEF CapOf
<1> QED
    BY <1>1, <1>3, <1>4 DEF Service!StepErrs, Service!CapsAfter, CapOf

\* Every step of the engine is a step of the service, or none it shows.
LEMMA NextImplementsService == DInv /\ [Next]_vars => [Service!ServiceNext]_(Service!serviceVars)
<1> SUFFICES ASSUME DInv, [Next]_vars
             PROVE  Service!ServiceNext \/ UNCHANGED Service!serviceVars
    OBVIOUS
<1>1. CInv /\ CInv'
    BY ControlStep DEF DInv
<1>2. /\ outcome \in [Ids -> {"new", "pending", "stop", "length", "aborted", "error"}]
      /\ seq \in [Ids -> SequenceStates]
    BY <1>1 DEF CInv, Typed
<1>3. CASE StepReturns
    BY <1>1, <1>3, ReturnsDeliver DEF Service!ServiceNext
<1>4. CASE StepFails
    BY <1>4, FailsErr DEF Service!ServiceNext
<1>5. ASSUME NEW id \in Ids, AbortSequence(id) PROVE Service!Abort(id)
    <2>1. /\ outcome' = [outcome EXCEPT ![id] = "aborted"] /\ output' = output
          /\ seq' = [seq EXCEPT ![id] = Absent] /\ (id \in DOMAIN running_index \/ id \in Wait)
        BY <1>5 DEF AbortSequence, abort_sequence, AbortRunningOne, AbortWaitingOne, Wait
    <2>2. outcome[id] = "pending"
        BY <1>1, <2>1 DEF CInv, Queues, Status, StatusOf
    <2>3. CapOf(outcome', seq') = [x \in Ids |-> IF outcome'[x] = "pending" THEN CapOf(outcome, seq)[x] ELSE 0]
        <3>1. /\ outcome'[id] = "aborted"
              /\ \A x \in Ids : x # id => outcome'[x] = outcome[x] /\ seq'[x] = seq[x]
            BY <1>2, <2>1
        <3> QED
            BY <3>1 DEF CapOf
    <2> QED
        BY <2>1, <2>2, <2>3 DEF Service!Abort, Service!Pending, Service!CapsAfter, CapOf
<1>6. ASSUME NEW id \in Ids, NEW prompt \in Prompts, NEW max \in MaxTokensChoices,
             AddRequest(id, prompt, max)
      PROVE  Service!Accept(id, max)
    <2>1. /\ outcome[id] = "new" /\ outcome' = [outcome EXCEPT ![id] = "pending"] /\ output' = output
          /\ seq' = [seq EXCEPT ![id] = NewSequence(prompt, max)]
        BY <1>6 DEF AddRequest, add_request
    <2>2. NewSequence(prompt, max).max_tokens = max
        BY DEF NewSequence
    <2>3. CapOf(outcome', seq') = [CapOf(outcome, seq) EXCEPT ![id] = max]
        BY <1>2, <2>1, <2>2 DEF CapOf
    <2> QED
        BY <2>1, <2>3 DEF Service!Accept, CapOf
<1>7. CASE /\ ~StepReturns /\ ~StepFails /\ \A id \in Ids : ~AbortSequence(id)
           /\ \A id \in Ids, prompt \in Prompts, max \in MaxTokensChoices : ~AddRequest(id, prompt, max)
    <2>1. UNCHANGED <<output, outcome>> /\ \A id \in Ids : seq'[id].max_tokens = seq[id].max_tokens
        BY <1>1, <1>7, QuietSteps
    <2>2. CapOf(outcome', seq') = CapOf(outcome, seq)
        BY <2>1 DEF CapOf
    <2> QED
        BY <2>1, <2>2 DEF Service!serviceVars, CapOf
<1> QED
    BY <1>3, <1>4, <1>5, <1>6, <1>7 DEF Service!ServiceNext

\* Both begin with no request.
LEMMA InitImplementsService == Init => Service!ServiceInit
<1> SUFFICES ASSUME Init PROVE Service!ServiceInit
    OBVIOUS
<1>1. outcome = [id \in Ids |-> "new"] /\ output = [id \in Ids |-> <<>>]
    BY DEF Init
<1>2. CapOf(outcome, seq) = [id \in Ids |-> 0]
    BY <1>1 DEF CapOf
<1> QED
    BY <1>1, <1>2 DEF Service!ServiceInit, CapOf

\* Seen from the engine loop, the engine is the generation service: each step
\* gives each pending request at most one token or its end, a request ends by
\* "length" exactly when its max_tokens are reached, an ended one hears nothing
\* more, and preemption, eviction and recomputation are invisible.
THEOREM EngineImplementsService == Spec => ImplementsService
<1>1. Init => DInv
    BY ControlInit, CountedInit DEF DInv
<1>2. DInv /\ [Next]_vars => DInv'
    BY ControlStep, CountedStep DEF DInv
<1> QED
    BY <1>1, <1>2, InitImplementsService, NextImplementsService, PTL
    DEF Spec, ImplementsService, Service!ServiceSpec

=============================================================================
