---------------------------- MODULE ModelManager ----------------------------
(***************************************************************************)
(* models/manager.rs: which models are loaded, loading or on their way     *)
(* out, and the KV bytes they are charged for.  Four kinds of actors share *)
(* the slots: request handlers, a loader thread per load (which becomes    *)
(* the engine's thread), a task that installs what the loader sends back,  *)
(* and the eviction task.  An action that reads or writes slots is one     *)
(* critical section of the manager's lock; the byte budget is an atomic    *)
(* outside it.  A load bears the name of the request that started it.      *)
(* Models are alike; time is abstracted to the order of last use.          *)
(***************************************************************************)
EXTENDS Integers, FiniteSets, Functions

CONSTANTS Models, Requests,
          total_bytes,       \* of the GlobalKvBudget
          per_block_bytes,   \* KV bytes of one block
          min_blocks,        \* the least pool a model is served with
          DesiredBytes,      \* the pool a model asks for
          WeightBytes,       \* its weights, once loaded
          DiskBytes,         \* what they are projected to be before
          Ceiling,           \* the memory models may hold together
          ExplicitBudget,    \* whether the operator set it
          HasDraft,          \* whether a draft model is configured
          KV_RETRY_HALVINGS, \* pools a load tries before it gives up
          Upsets             \* what may go wrong in a behaviour

ASSUME ManagerAssumption ==
    /\ {total_bytes, DesiredBytes, WeightBytes, DiskBytes, Ceiling} \subseteq Nat
    /\ {per_block_bytes, min_blocks} \subseteq Nat \ {0} /\ KV_RETRY_HALVINGS \in Nat
    /\ ExplicitBudget \in BOOLEAN /\ HasDraft \in BOOLEAN
    /\ IsFiniteSet(Models) /\ IsFiniteSet(Requests)
    /\ "none" \notin Models /\ "none" \notin Requests
    /\ Upsets \subseteq {"load panics", "draft panics", "engine panics", "weights lost"}

VARIABLES
    slots,             \* model -> its SlotState, "None" for no entry
    used_before,       \* the order of last_used among the Ready models
    registry,          \* model -> the size a load recorded, 0 for none
    allocated_bytes,   \* of the GlobalKvBudget
    load,              \* request -> the load it started
    request,           \* request -> where its handler stands
    lost               \* history: bytes charged that no path gives back

vars == <<slots, used_before, registry, allocated_bytes, load, request, lost>>

-----------------------------------------------------------------------------

Nobody == [state |-> "None", gen |-> "none", waiters |-> {}]
Loading(r) == [state |-> "Loading", gen |-> "none", waiters |-> {r}]
Ready(g) == [state |-> "Ready", gen |-> g, waiters |-> {}]

\* held and draft are what the load has charged to the budget and would still
\* give back itself; pc is the loader thread, installer the task.
NotStarted ==
    [model |-> "none", pc |-> "none", cap |-> 0, halvings |-> 0, held |-> 0,
     draft |-> 0, kv_cache_bytes |-> 0, result |-> "none", installer |-> "none", shutdown |-> FALSE]

Spawned(m) == [NotStarted EXCEPT !.model = m, !.pc = "spawned", !.installer = "waiting"]

Init ==
    /\ slots = [m \in Models |-> Nobody]
    /\ used_before = {}
    /\ registry = [m \in Models |-> 0]
    /\ allocated_bytes = 0
    /\ load = [r \in Requests |-> NotStarted]
    /\ request = [r \in Requests |-> [at |-> "idle", gen |-> "none"]]
    /\ lost = 0

\* GlobalKvBudget: acquire grants what there is, release saturates.
available_bytes == IF total_bytes > allocated_bytes THEN total_bytes - allocated_bytes ELSE 0
acquire(desired) == IF desired < available_bytes THEN desired ELSE available_bytes
Released(bytes) == IF allocated_bytes > bytes THEN allocated_bytes - bytes ELSE 0

ReadyModels == {m \in Models : slots[m].state = "Ready"}
UsedAmong(ms) == used_before \cap (ms \X ms)
UsedLast(m) == UsedAmong(ReadyModels \ {m}) \cup {<<x, m>> : x \in ReadyModels \ {m}}

\* What the slots hold of the budget and of the memory.
KvHeld == [m \in Models |-> IF slots[m].state = "Ready" THEN load[slots[m].gen].kv_cache_bytes ELSE 0]
KvBytes(ms) == SumFunctionOnSet(KvHeld, ms)
ModelBytes == [m \in Models |-> IF slots[m].state = "Ready" THEN WeightBytes + KvHeld[m] ELSE 0]
TotalBytes(ms) == SumFunctionOnSet(ModelBytes, ms)

\* The Ready models used no earlier than m.  evict_lru_for_bytes lets go of m
\* when not all of them can stay.
UsedSince(m) == {x \in ReadyModels : x = m \/ <<m, x>> \in used_before}
EvictedFor(needed) == {m \in ReadyModels : TotalBytes(UsedSince(m)) + needed > Ceiling}

\* Removing Ready slots: their bytes go back and their loops are told to end.
Flagged(ms) ==
    [g \in Requests |-> IF \E m \in ms : slots[m].gen = g
                        THEN [load[g] EXCEPT !.shutdown = TRUE] ELSE load[g]]

projected_size_bytes(m) == IF registry[m] > 0 THEN registry[m] ELSE DiskBytes

-----------------------------------------------------------------------------

\* get_or_load finds the model Ready, loading, or absent.
GetReady(r, m) ==
    /\ request[r].at = "idle" /\ slots[m].state = "Ready"
    /\ request' = [request EXCEPT ![r] = [at |-> "handle", gen |-> slots[m].gen]]
    /\ used_before' = UsedLast(m)
    /\ UNCHANGED <<slots, registry, allocated_bytes, load, lost>>

\* Seeded fault: whoever finds the model loading is not put on its list.
GetLoadingUnlisted(r, m) ==
    /\ request[r].at = "idle" /\ slots[m].state = "Loading"
    /\ request' = [request EXCEPT ![r].at = "waiting"]
    /\ UNCHANGED <<slots, used_before, registry, allocated_bytes, load, lost>>

GetLoading(r, m) ==
    /\ request[r].at = "idle" /\ slots[m].state = "Loading"
    /\ request' = [request EXCEPT ![r].at = "waiting"]
    /\ slots' = [slots EXCEPT ![m].waiters = @ \cup {r}]
    /\ UNCHANGED <<used_before, registry, allocated_bytes, load, lost>>

GetAbsent(r, m) ==
    LET victims == EvictedFor(projected_size_bytes(m))
    IN  /\ request[r].at = "idle" /\ slots[m].state = "None"
        /\ request' = [request EXCEPT ![r].at = "waiting"]
        /\ slots' = [x \in Models |-> IF x = m THEN Loading(r)
                                      ELSE IF x \in victims THEN Nobody ELSE slots[x]]
        /\ used_before' = UsedAmong(ReadyModels \ victims)
        /\ allocated_bytes' = Released(KvBytes(victims))
        /\ load' = [Flagged(victims) EXCEPT ![r] = Spawned(m)]
        /\ UNCHANGED <<registry, lost>>

\* The handler is done: its clone of the Sender goes.  A client that left while
\* its request waited is one whose handle goes at once.
DropHandle(r) ==
    /\ request[r].at = "handle"
    /\ request' = [request EXCEPT ![r] = [at |-> "done", gen |-> "none"]]
    /\ UNCHANGED <<slots, used_before, registry, allocated_bytes, load, lost>>

\* evict_expired: whichever Ready models have outlived their keep-alive.
EvictExpired ==
    \E expired \in SUBSET ReadyModels \ {{}} :
        /\ slots' = [m \in Models |-> IF m \in expired THEN Nobody ELSE slots[m]]
        /\ allocated_bytes' = Released(KvBytes(expired))
        /\ load' = Flagged(expired)
        /\ used_before' = UsedAmong(ReadyModels \ expired)
        /\ UNCHANGED <<registry, request, lost>>

-----------------------------------------------------------------------------

\* The loader thread.  Tokenizer and device come first and can only fail.
SetupFails(g) ==
    /\ load[g].pc = "spawned"
    /\ load' = [load EXCEPT ![g].pc = "gone", ![g].result = "err"]
    /\ UNCHANGED <<slots, used_before, registry, allocated_bytes, request, lost>>

\* With a draft configured half of what is free is set aside for it.
ReserveDraft(g) ==
    LET reserved == IF HasDraft THEN acquire(available_bytes \div 2) ELSE 0 IN
    /\ load[g].pc = "spawned"
    /\ allocated_bytes' = allocated_bytes + reserved
    /\ load' = [load EXCEPT ![g].pc = "loading", ![g].draft = reserved, ![g].cap = DesiredBytes]
    /\ UNCHANGED <<slots, used_before, registry, request, lost>>

AcquirePool(g) ==
    /\ load[g].pc = "loading"
    /\ allocated_bytes' = allocated_bytes + acquire(load[g].cap)
    /\ load' = [load EXCEPT ![g].pc = "acquired", ![g].held = acquire(load[g].cap)]
    /\ UNCHANGED <<slots, used_before, registry, request, lost>>

GrantedBlocks(g) == load[g].held \div per_block_bytes
PoolBytes(g) == GrantedBlocks(g) * per_block_bytes

\* Too little for the least pool: the grant goes back.
PoolShort(g) ==
    /\ load[g].pc = "acquired" /\ GrantedBlocks(g) < min_blocks
    /\ allocated_bytes' = Released(load[g].held)
    /\ load' = [load EXCEPT ![g].pc = "short", ![g].held = 0]
    /\ UNCHANGED <<slots, used_before, registry, request, lost>>

\* KvBudgetExhausted: the least recently used model gives way, and the load
\* starts over; with nobody left to evict it fails, as it does when the files
\* or the tensors of the model are at fault.
EvictForPool(g) ==
    /\ load[g].pc = "short"
    /\ \E victim \in ReadyModels :
          /\ UsedSince(victim) = ReadyModels
          /\ slots' = [slots EXCEPT ![victim] = Nobody]
          /\ allocated_bytes' = Released(KvHeld[victim])
          /\ load' = [Flagged({victim}) EXCEPT ![g].pc = "loading", ![g].cap = DesiredBytes,
                                               ![g].halvings = 0]
          /\ used_before' = UsedAmong(ReadyModels \ {victim})
    /\ UNCHANGED <<registry, request, lost>>

\* What a failed load gives back.  The seeded fault forgets the reservation.
RefundPool(g) == load[g].held
Refund(g) == load[g].held + load[g].draft

LoadFails(g) ==
    /\ load[g].pc \in {"loading", "short", "acquired"}
    /\ load[g].pc = "short" => ReadyModels = {}
    /\ load[g].pc = "acquired" => GrantedBlocks(g) >= min_blocks
    /\ allocated_bytes' = Released(Refund(g))
    /\ load' = [load EXCEPT ![g].pc = "gone", ![g].result = "err", ![g].held = 0, ![g].draft = 0]
    /\ UNCHANGED <<slots, used_before, registry, request, lost>>

\* The weights did not survive the pool: the model is dropped and loaded again
\* with a cap of half the pool it had, until the halvings are used up.
RetryHalved(g) ==
    /\ "weights lost" \in Upsets
    /\ load[g].pc = "acquired" /\ GrantedBlocks(g) >= min_blocks
    /\ load[g].halvings < KV_RETRY_HALVINGS
    /\ load' = [load EXCEPT ![g].pc = "loading", ![g].held = 0, ![g].halvings = @ + 1,
                            ![g].cap = PoolBytes(g) \div 2]
    /\ lost' = lost + load[g].held
    /\ UNCHANGED <<slots, used_before, registry, allocated_bytes, request>>

GiveUpHalving(g) ==
    /\ "weights lost" \in Upsets
    /\ load[g].pc = "acquired" /\ GrantedBlocks(g) >= min_blocks
    /\ load[g].halvings = KV_RETRY_HALVINGS
    /\ allocated_bytes' = Released(load[g].draft)
    /\ load' = [load EXCEPT ![g].pc = "gone", ![g].result = "err", ![g].held = 0, ![g].draft = 0]
    /\ lost' = lost + load[g].held
    /\ UNCHANGED <<slots, used_before, registry, request>>

\* From here on the model answers for whole blocks: what the grant had beyond
\* them stays charged.
LoadOk(g) ==
    /\ load[g].pc = "acquired" /\ GrantedBlocks(g) >= min_blocks
    /\ load' = [load EXCEPT ![g].pc = "sent", ![g].result = "ok", ![g].held = 0,
                            ![g].kv_cache_bytes = PoolBytes(g)]
    /\ lost' = lost + (load[g].held - PoolBytes(g))
    /\ UNCHANGED <<slots, used_before, registry, allocated_bytes, request>>

\* The result is out; the reservation is given back and the draft loaded, which
\* keeps its pool for good, or not.
ReleaseReservation(g) ==
    /\ load[g].pc = "sent"
    /\ allocated_bytes' = Released(load[g].draft)
    /\ load' = [load EXCEPT ![g].pc = "drafting", ![g].draft = 0]
    /\ UNCHANGED <<slots, used_before, registry, request, lost>>

\* What a draft, if one is loaded, charges to the budget.
DraftPools ==
    {0} \cup {pool \in {acquire(DesiredBytes)} : HasDraft /\ pool \div per_block_bytes >= min_blocks}

LoadDraft(g) ==
    /\ load[g].pc = "drafting"
    /\ load' = [load EXCEPT ![g].pc = "running"]
    /\ \E pool \in DraftPools :
          /\ allocated_bytes' = allocated_bytes + pool
          /\ lost' = lost + pool
    /\ UNCHANGED <<slots, used_before, registry, request>>

\* The engine loop ends: it read the flag, or nobody can send to it any more.
SendersAlive(g) ==
    \/ \E m \in Models : slots[m].gen = g
    \/ \E r \in Requests : request[r].gen = g
    \/ load[g].installer # "done"

LoopExits(g) ==
    /\ load[g].pc = "running"
    /\ load[g].shutdown \/ ~SendersAlive(g)
    /\ load' = [load EXCEPT ![g].pc = "closing"]
    /\ UNCHANGED <<slots, used_before, registry, allocated_bytes, request, lost>>

\* A panic unwinds the thread, past the slot guard if that exists; what the load
\* had charged to the budget nobody gives back.  While the draft is loaded and
\* the engine built the result is out, the slot may be Ready, and there is no
\* guard yet.
Panics(g) ==
    /\ \/ "load panics" \in Upsets /\ load[g].pc \in {"spawned", "loading", "acquired"}
       \/ "draft panics" \in Upsets /\ load[g].pc = "drafting"
       \/ "engine panics" \in Upsets /\ load[g].pc = "running"
    /\ load' = [load EXCEPT ![g].pc = IF @ = "running" THEN "closing" ELSE "gone",
                            ![g].result = IF @ = "none" THEN "dropped" ELSE @,
                            ![g].held = 0, ![g].draft = 0]
    /\ \E pool \in IF load[g].pc = "drafting" THEN DraftPools ELSE {0} :
          /\ allocated_bytes' = allocated_bytes + pool
          /\ lost' = lost + load[g].held + load[g].draft + pool
    /\ UNCHANGED <<slots, used_before, registry, request>>

\* EngineSlotGuard::drop: the slot is stale if it is this very engine's.  The
\* seeded fault looks at the model's name alone.
StaleByName(g) == slots[load[g].model].state = "Ready"
Stale(g) == slots[load[g].model].gen = g

\* Seeded fault: the guard does nothing.
DropGuardIdle(g) ==
    /\ load[g].pc = "closing"
    /\ load' = [load EXCEPT ![g].pc = "gone"]
    /\ UNCHANGED <<slots, used_before, registry, allocated_bytes, request, lost>>

DropGuard(g) ==
    LET m == load[g].model IN
    /\ load[g].pc = "closing"
    /\ load' = [load EXCEPT ![g].pc = "gone"]
    /\ IF Stale(g)
       THEN /\ slots' = [slots EXCEPT ![m] = Nobody]
            /\ used_before' = UsedAmong(ReadyModels \ {m})
            /\ allocated_bytes' = Released(KvHeld[m])
       ELSE UNCHANGED <<slots, used_before, allocated_bytes>>
    /\ UNCHANGED <<registry, request, lost>>

-----------------------------------------------------------------------------

\* The installer: whether the engine still lives is asked before the lock is
\* taken.
InstallerWakes(g) ==
    /\ load[g].installer = "waiting" /\ load[g].result = "ok"
    /\ load' = [load EXCEPT ![g].installer = IF load[g].pc \in {"closing", "gone"}
                                             THEN "dead" ELSE "alive"]
    /\ UNCHANGED <<slots, used_before, registry, allocated_bytes, request, lost>>

Answered(m, at, g) ==
    [r \in Requests |-> IF r \in slots[m].waiters THEN [at |-> at, gen |-> g] ELSE request[r]]

InstallDead(g) ==
    LET m == load[g].model IN
    /\ load[g].installer = "dead"
    /\ slots' = [slots EXCEPT ![m] = Nobody]
    /\ allocated_bytes' = Released(load[g].kv_cache_bytes)
    /\ request' = Answered(m, "failed", "none")
    /\ load' = [load EXCEPT ![g].installer = "done"]
    /\ UNCHANGED <<used_before, registry, lost>>

\* An explicit budget also unloads a model that turns out too large beside the
\* others.  The seeded fault looks at the new model alone.
SizeOf(g) == WeightBytes + load[g].kv_cache_bytes
OverBudgetAlone(g) == ExplicitBudget /\ SizeOf(g) > Ceiling
OverBudget(g) == ExplicitBudget /\ TotalBytes(ReadyModels) + SizeOf(g) > Ceiling

InstallReady(g) ==
    LET m == load[g].model IN
    /\ load[g].installer = "alive" /\ ~OverBudget(g)
    /\ slots' = [slots EXCEPT ![m] = Ready(g)]
    /\ used_before' = UsedLast(m)
    /\ registry' = [registry EXCEPT ![m] = SizeOf(g)]
    /\ request' = Answered(m, "handle", g)
    /\ load' = [load EXCEPT ![g].installer = "done"]
    /\ UNCHANGED <<allocated_bytes, lost>>

InstallOverBudget(g) ==
    LET m == load[g].model IN
    /\ load[g].installer = "alive" /\ OverBudget(g)
    /\ slots' = [slots EXCEPT ![m] = Nobody]
    /\ registry' = [registry EXCEPT ![m] = SizeOf(g)]
    /\ allocated_bytes' = Released(load[g].kv_cache_bytes)
    /\ request' = Answered(m, "failed", "none")
    /\ load' = [load EXCEPT ![g].installer = "unloading"]
    /\ UNCHANGED <<used_before, lost>>

\* The flag of an over-budget model is raised once the lock is free again.
Unload(g) ==
    /\ load[g].installer = "unloading"
    /\ load' = [load EXCEPT ![g].installer = "done", ![g].shutdown = TRUE]
    /\ UNCHANGED <<slots, used_before, registry, allocated_bytes, request, lost>>

\* The load failed, or its thread died without sending anything.  The seeded
\* fault misses the latter.
UnsuccessfulSent == {"err"}
Unsuccessful == {"err", "dropped"}

InstallFailed(g) ==
    LET m == load[g].model IN
    /\ load[g].installer = "waiting" /\ load[g].result \in Unsuccessful
    /\ slots' = [slots EXCEPT ![m] = Nobody]
    /\ request' = Answered(m, "failed", "none")
    /\ load' = [load EXCEPT ![g].installer = "done"]
    /\ UNCHANGED <<used_before, registry, allocated_bytes, lost>>

-----------------------------------------------------------------------------

LoaderThread(g) ==
    \/ SetupFails(g) \/ ReserveDraft(g) \/ AcquirePool(g) \/ PoolShort(g) \/ EvictForPool(g)
    \/ LoadFails(g) \/ LoadOk(g) \/ ReleaseReservation(g) \/ LoadDraft(g)
    \/ LoopExits(g) \/ DropGuard(g)

Installer(g) ==
    \/ InstallerWakes(g) \/ InstallDead(g) \/ InstallReady(g) \/ InstallOverBudget(g)
    \/ Unload(g) \/ InstallFailed(g)

Next ==
    \/ \E r \in Requests, m \in Models : GetReady(r, m) \/ GetLoading(r, m) \/ GetAbsent(r, m)
    \/ \E r \in Requests : DropHandle(r)
    \/ EvictExpired
    \/ \E g \in Requests : LoaderThread(g) \/ RetryHalved(g) \/ GiveUpHalving(g)
                            \/ Panics(g) \/ Installer(g)

Spec == Init /\ [][Next]_vars

\* Threads and tasks keep running; the manager's lock is a fair queue.  Nothing
\* obliges a handler to ask or a model to expire.
FairSpec ==
    /\ Spec
    /\ \A g \in Requests :
          WF_vars(LoaderThread(g)) /\ WF_vars(Installer(g))

-----------------------------------------------------------------------------

InFlight(g) == load[g].installer \in {"waiting", "alive", "dead"}

TypeOK ==
    /\ slots \in [Models -> [state : {"None", "Loading", "Ready"}, gen : Requests \cup {"none"},
                             waiters : SUBSET Requests]]
    /\ used_before \subseteq ReadyModels \X ReadyModels
    /\ \A x, y \in ReadyModels : x = y <=> <<x, y>> \notin used_before /\ <<y, x>> \notin used_before
    /\ \A x, y, z \in ReadyModels : <<x, y>> \in used_before /\ <<y, z>> \in used_before
                                    => <<x, z>> \in used_before
    /\ registry \in [Models -> Nat]
    /\ allocated_bytes \in 0 .. total_bytes /\ lost \in Nat
    /\ load \in [Requests ->
          [model : Models \cup {"none"}, cap : Nat, halvings : Nat, held : Nat, draft : Nat,
           kv_cache_bytes : Nat, result : {"none", "ok", "err", "dropped"},
           pc : {"none", "spawned", "loading", "acquired", "short", "sent", "drafting",
                 "running", "closing", "gone"},
           installer : {"none", "waiting", "alive", "dead", "unloading", "done"}, shutdown : BOOLEAN]]
    /\ request \in [Requests -> [at : {"idle", "waiting", "handle", "failed", "done"},
                                 gen : Requests \cup {"none"}]]

\* A model that is loading is being loaded by exactly one load, any other by
\* none, and whoever waits is in the list that load will answer: no request
\* starts a second load, and none waits for a load that is over.
OneLoadEach ==
    /\ \A m \in Models : Cardinality({g \in Requests : load[g].model = m /\ InFlight(g)})
                            = IF slots[m].state = "Loading" THEN 1 ELSE 0
    /\ \A r \in Requests : request[r].at = "waiting" =>
          \E m \in Models : slots[m].state = "Loading" /\ r \in slots[m].waiters

\* An installed engine is either registered or told to end, never both and
\* never neither: no eviction, unload or guard leaves an engine running that
\* nobody can reach, or stops one that requests are still sent to.
EngineToldIffRemoved ==
    \A g \in Requests :
        load[g].installer = "done" /\ load[g].pc \in {"sent", "drafting", "running"} =>
            ((\E m \in Models : slots[m].gen = g) <=> ~load[g].shutdown)

\* A registered engine's thread has not ended: a model whose engine panicked is
\* loaded again by the next request instead of refusing it for ever.
NoDeadSlot ==
    \A m \in Models : slots[m].state = "Ready" => load[slots[m].gen].pc # "gone"

\* A registered engine whose thread has its guard takes its slot with it when it
\* ends, whichever panic or eviction ended it (manager.rs:1046).  What stays
\* behind dead died before it was registered, or while the draft was loaded
\* (manager.rs:1308-1366).
NoGuardedSlotTurnsDead ==
    [][\A m \in Models :
          /\ slots[m].state = "Ready" /\ slots'[m] = slots[m]
          /\ load[slots[m].gen].pc \in {"running", "closing"}
          => load'[slots[m].gen].pc # "gone"]_vars

\* What a load will still give back of the KV budget.
Owes(g) ==
    load[g].held + load[g].draft
      + IF load[g].result = "ok" /\ (InFlight(g) \/ \E m \in Models : slots[m].gen = g)
        THEN load[g].kv_cache_bytes ELSE 0

\* The KV budget is charged for exactly what loads and loaded models will give
\* back, and what dropped pools, drafts and panics left behind: failed loads,
\* evictions, unloads and dead engines return all they took, once
\* (manager.rs:1197, 626, 1056).
BudgetAccounted == allocated_bytes = SumFunction([g \in Requests |-> Owes(g)]) + lost

\* With an explicit budget the registered models stay within it, although loads
\* that run side by side were each projected to fit.
MemoryWithinBudget == ExplicitBudget => TotalBytes(ReadyModels) <= Ceiling

\* Whoever waits for a load is answered, whichever way the load ends.
EveryWaiterAnswered ==
    \A r \in Requests : request[r].at = "waiting" ~> request[r].at # "waiting"

=============================================================================
