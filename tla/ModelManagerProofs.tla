-------------------------- MODULE ModelManagerProofs --------------------------
(***************************************************************************)
(* The manager's invariants, for every number of models and requests and   *)
(* every size of the budget.  The inductive invariant has four parts:      *)
(*   Shape            where a load's thread, its result, its installer and *)
(*                    the slot of its model may stand together;            *)
(*   Budget           the counter of the GlobalKvBudget stays within it;   *)
(*   BudgetAccounted  the property itself: a sum over all loads;           *)
(*   Rest             the order of last use and the memory of the Ready    *)
(*                    models.                                              *)
(* Shape comes first: that a slot's engine is installed and a load's       *)
(* installer unique is what makes each release happen once.                *)
(***************************************************************************)
EXTENDS ModelManager, DataLemmas

LoadRecord ==
    [model : Models \cup {"none"}, cap : Nat, halvings : Nat, held : Nat, draft : Nat,
     kv_cache_bytes : Nat, result : {"none", "ok", "err", "dropped"},
     pc : {"none", "spawned", "loading", "acquired", "short", "sent", "drafting",
           "running", "closing", "gone"},
     installer : {"none", "waiting", "alive", "dead", "unloading", "done"}, shutdown : BOOLEAN]

Live == {"sent", "drafting", "running"}

-----------------------------------------------------------------------------
(* The parts of the inductive invariant.                                   *)

\* Where the loader thread, its result and the installer may stand together,
\* and when a load holds a grant, a reservation or a pool.
Stage(l) ==
    /\ l.pc = "none" => l = NotStarted
    /\ l.installer = "none" => l.pc = "none"
    /\ l.pc # "none" => l.model # "none"
    /\ l.pc \in {"spawned", "loading", "acquired", "short"} => l.result = "none" /\ l.installer = "waiting"
    /\ l.pc \in {"sent", "drafting", "running", "closing"} => l.result = "ok"
    /\ l.pc = "gone" => l.result # "none"
    /\ l.installer \in {"alive", "dead", "unloading"} => l.result = "ok"
    /\ l.installer = "dead" => l.pc \in {"closing", "gone"}
    /\ l.shutdown => l.installer = "done"
    /\ l.pc # "acquired" => l.held = 0
    /\ l.pc \notin {"loading", "acquired", "short", "sent"} => l.draft = 0
    /\ l.result # "ok" => l.kv_cache_bytes = 0

Stages == \A g \in Requests : Stage(load[g])

\* A Ready slot is its engine's own, installed and not told to end.
SlotsOwned ==
    \A m \in Models :
        /\ slots[m].state = "Ready" <=> slots[m].gen # "none"
        /\ slots[m].state = "Ready" =>
              /\ load[slots[m].gen].model = m /\ load[slots[m].gen].installer = "done"
              /\ load[slots[m].gen].result = "ok" /\ ~load[slots[m].gen].shutdown
        /\ \A r \in slots[m].waiters : slots[m].state = "Loading" /\ request[r].at = "waiting"

\* A Loading slot has one load that will answer it.
SlotsLoading ==
    /\ \A g \in Requests : InFlight(g) => slots[load[g].model].state = "Loading"
    /\ \A g, h \in Requests : InFlight(g) /\ InFlight(h) /\ load[g].model = load[h].model => g = h
    /\ \A m \in Models : slots[m].state = "Loading" =>
          \E g \in Requests : InFlight(g) /\ load[g].model = m

\* A request starts no load before it asks, and waits only in a list.
Waiting ==
    /\ \A r \in Requests : request[r].at = "idle" => load[r].pc = "none"
    /\ \A r \in Requests : request[r].at = "waiting" =>
          \E m \in Models : slots[m].state = "Loading" /\ r \in slots[m].waiters
    /\ \A m, n \in Models : \A r \in Requests : r \in slots[m].waiters /\ r \in slots[n].waiters => m = n

\* An installed engine that was not told to end has its slot.
Told ==
    \A g \in Requests :
        load[g].installer = "done" /\ load[g].pc \in Live /\ ~load[g].shutdown =>
            slots[load[g].model].gen = g

SlotTypes ==
    /\ slots \in [Models -> [state : {"None", "Loading", "Ready"}, gen : Requests \cup {"none"},
                             waiters : SUBSET Requests]]
    /\ request \in [Requests -> [at : {"idle", "waiting", "handle", "failed", "done"},
                                 gen : Requests \cup {"none"}]]
    /\ load \in [Requests -> LoadRecord]

Shape == SlotTypes /\ Stages /\ SlotsOwned /\ SlotsLoading /\ Waiting /\ Told

\* A load that was started has a model.
LEMMA ModelKnown ==
    ASSUME Shape, NEW x \in Requests
    PROVE  /\ load[x].pc # "none" => load[x].model \in Models
           /\ InFlight(x) => load[x].pc # "none" /\ load[x].model \in Models
           /\ load[x].pc \in Live => load[x].model \in Models
           /\ load[x].installer # "none" => load[x].pc # "none"
BY DEF Shape, Stages, Stage, SlotTypes, LoadRecord, InFlight, NotStarted, Live

-----------------------------------------------------------------------------
(* The KV budget.                                                          *)

\* What the budget grants and takes back stays within it.
Budget == allocated_bytes \in 0 .. total_bytes /\ lost \in Nat

LEMMA BudgetBounds ==
    ASSUME Budget
    PROVE  /\ available_bytes \in Nat
           /\ \A n \in Nat : acquire(n) \in Nat /\ allocated_bytes + acquire(n) \in 0 .. total_bytes
           /\ \A n \in Nat : Released(n) \in 0 .. total_bytes
<1>1. total_bytes \in Nat
    BY ManagerAssumption
<1>2. QED
    BY <1>1 DEF Budget, available_bytes, acquire, Released

LEMMA ReleasedBytes ==
    ASSUME Budget, NEW n \in Nat, n <= allocated_bytes
    PROVE  Released(n) = allocated_bytes - n /\ allocated_bytes - n \in 0 .. total_bytes
<1>1. total_bytes \in Nat
    BY ManagerAssumption
<1>2. QED
    BY <1>1 DEF Budget, Released

\* A pool is whole blocks of the grant.
LEMMA PoolBounds ==
    ASSUME NEW g \in Requests, load[g].held \in Nat
    PROVE  PoolBytes(g) \in 0 .. load[g].held
<1>1. per_block_bytes \in Nat \ {0}
    BY ManagerAssumption
<1>2. \A a \in Nat, b \in Nat \ {0} : (a \div b) * b \in 0 .. a
    OBVIOUS
<1>3. QED
    BY <1>1, <1>2 DEF PoolBytes, GrantedBlocks

Owed == [g \in Requests |-> Owes(g)]
Claimed(g) == InFlight(g) \/ \E m \in Models : slots[m].gen = g

LEMMA OwesIsNat ==
    ASSUME Shape, NEW g \in Requests
    PROVE  /\ Owes(g) \in Nat
           /\ load[g].held \in Nat /\ load[g].draft \in Nat /\ load[g].kv_cache_bytes \in Nat
           /\ Owes(g) = load[g].held + load[g].draft
                          + IF load[g].result = "ok" /\ Claimed(g) THEN load[g].kv_cache_bytes ELSE 0
BY DEF Shape, SlotTypes, LoadRecord, Owes, Claimed

LEMMA OwedSum ==
    ASSUME Shape
    PROVE  /\ IsFiniteSet(Requests)
           /\ \A g \in Requests : Owed[g] = Owes(g) /\ Owed[g] \in Nat
           /\ SumFunctionOnSet(Owed, Requests) \in Nat
           /\ SumFunction([g \in Requests |-> Owes(g)]) = SumFunctionOnSet(Owed, Requests)
<1>1. \A g \in Requests : Owed[g] = Owes(g) /\ Owed[g] \in Nat
    BY OwesIsNat DEF Owed
<1>2. IsFiniteSet(Requests)
    BY ManagerAssumption
<1>3. SumFunctionOnSet(Owed, Requests) \in Nat
    BY <1>1, <1>2, SumRemove
<1>4. SumFunction([g \in Requests |-> Owes(g)]) = SumFunctionOnSet(Owed, Requests)
    BY DEF SumFunction, Owed
<1>5. QED
    BY <1>1, <1>2, <1>3, <1>4

\* No load owes more than was charged.
LEMMA OwesCharged ==
    ASSUME Shape, Budget, BudgetAccounted, NEW g \in Requests
    PROVE  Owes(g) <= allocated_bytes
<1>1. SumFunctionOnSet(Owed, Requests) = Owes(g) + SumFunctionOnSet(Owed, Requests \ {g})
    BY OwedSum, SumRemove
<1>2. SumFunctionOnSet(Owed, Requests \ {g}) \in Nat
    <2>1. IsFiniteSet(Requests \ {g}) /\ \A x \in Requests \ {g} : Owed[x] \in Nat
        BY OwedSum, FS_RemoveElement
    <2>2. QED
        BY <2>1, SumRemove
<1>3. allocated_bytes = SumFunctionOnSet(Owed, Requests) + lost
    BY OwedSum DEF BudgetAccounted
<1>4. QED
    BY <1>1, <1>2, <1>3, OwesIsNat DEF Budget

\* One load's debt changes by what the budget and the loss do.
LEMMA DebtMoves ==
    ASSUME Shape, Shape', Budget, BudgetAccounted, Budget', NEW g \in Requests,
           \A x \in Requests : x # g => Owes(x)' = Owes(x),
           allocated_bytes' + Owes(g) + lost = allocated_bytes + Owes(g)' + lost'
    PROVE  BudgetAccounted'
<1>1. /\ \A x \in Requests : Owed'[x] = Owes(x)' /\ Owed'[x] \in Nat
      /\ SumFunctionOnSet(Owed', Requests) \in Nat
      /\ BudgetAccounted' <=> allocated_bytes' = SumFunctionOnSet(Owed', Requests) + lost'
    <2>1. \A x \in Requests : Owed'[x] = Owes(x)' /\ Owed'[x] \in Nat
        <3>1. \A x \in Requests : Owes(x)' \in Nat
            BY DEF Shape, SlotTypes, LoadRecord, Owes
        <3>2. QED
            BY <3>1 DEF Owed
    <2>2. SumFunctionOnSet(Owed', Requests) \in Nat
        BY <2>1, OwedSum, SumRemove
    <2>3. BudgetAccounted' <=> allocated_bytes' = SumFunctionOnSet(Owed', Requests) + lost'
        BY DEF BudgetAccounted, SumFunction, Owed
    <2>4. QED
        BY <2>1, <2>2, <2>3
<1>2. /\ \A x \in Requests : Owed[x] = Owes(x) /\ Owed[x] \in Nat
      /\ SumFunctionOnSet(Owed, Requests) \in Nat /\ IsFiniteSet(Requests)
      /\ allocated_bytes = SumFunctionOnSet(Owed, Requests) + lost
    BY OwedSum DEF BudgetAccounted
<1>3. SumFunctionOnSet(Owed', Requests) + Owed[g] = SumFunctionOnSet(Owed, Requests) + Owed'[g]
    <2>1. \A x \in Requests : Owed[x] \in Nat /\ Owed'[x] \in Nat
        BY <1>1, <1>2
    <2>2. \A x \in Requests \ {g} : Owed[x] = Owed'[x]
        BY <1>1, <1>2
    <2>3. QED
        BY <1>2, <2>1, <2>2, SumUpdate
<1>4. Owed[g] \in Nat /\ Owed'[g] \in Nat /\ Owed[g] = Owes(g) /\ Owed'[g] = Owes(g)'
    BY <1>1, <1>2
<1>5. allocated_bytes' = SumFunctionOnSet(Owed', Requests) + lost'
    BY <1>1, <1>2, <1>3, <1>4 DEF Budget
<1>6. QED
    BY <1>1, <1>5

\* A load moves along: its grant and its reservation change, and a pool it was
\* built with is charged from then on.
LEMMA LoadDebt ==
    ASSUME Shape, Shape', Budget, BudgetAccounted, Budget', NEW g \in Requests, NEW l \in LoadRecord,
           load' = [load EXCEPT ![g] = l], l.installer = load[g].installer, slots' = slots,
           load[g].result = "ok" => l.result = "ok" /\ l.kv_cache_bytes = load[g].kv_cache_bytes,
           load[g].result # "ok" /\ l.result = "ok" => InFlight(g),
           allocated_bytes' + load[g].held + load[g].draft + lost
             = allocated_bytes + l.held + l.draft + lost'
                 + IF load[g].result # "ok" /\ l.result = "ok" THEN l.kv_cache_bytes ELSE 0
    PROVE  BudgetAccounted'
<1>1. load'[g] = l /\ \A x \in Requests : x # g => load'[x] = load[x]
    BY DEF Shape, SlotTypes
<1>2. \A x \in Requests : Claimed(x)' <=> Claimed(x)
    BY <1>1 DEF Claimed, InFlight
<1>3. \A x \in Requests : Owes(x)' = load'[x].held + load'[x].draft
                          + IF load'[x].result = "ok" /\ Claimed(x)' THEN load'[x].kv_cache_bytes ELSE 0
    BY DEF Owes, Claimed
<1>4. \A x \in Requests : Owes(x) = load[x].held + load[x].draft
                          + IF load[x].result = "ok" /\ Claimed(x) THEN load[x].kv_cache_bytes ELSE 0
    BY DEF Owes, Claimed
<1>5. \A x \in Requests : x # g => Owes(x)' = Owes(x)
    BY <1>1, <1>2, <1>3, <1>4
<1>6. InFlight(g) => Claimed(g)
    BY DEF Claimed
<1>7. /\ load[g].held \in Nat /\ load[g].draft \in Nat /\ load[g].kv_cache_bytes \in Nat
      /\ l.held \in Nat /\ l.draft \in Nat /\ l.kv_cache_bytes \in Nat
      /\ allocated_bytes \in Int /\ allocated_bytes' \in Int /\ lost \in Int /\ lost' \in Int
    BY OwesIsNat DEF LoadRecord, Budget
<1>8. allocated_bytes' + Owes(g) + lost = allocated_bytes + Owes(g)' + lost'
    <2>1. CASE load[g].result = "ok"
        BY <1>1, <1>2, <1>3, <1>4, <1>7, <2>1
    <2>2. CASE load[g].result # "ok" /\ l.result = "ok"
        BY <1>1, <1>2, <1>3, <1>4, <1>6, <1>7, <2>2
    <2>3. CASE load[g].result # "ok" /\ l.result # "ok"
        BY <1>1, <1>2, <1>3, <1>4, <1>7, <2>3
    <2>4. QED
        BY <2>1, <2>2, <2>3
<1>9. QED
    BY <1>5, <1>8, DebtMoves

-----------------------------------------------------------------------------
(* Steps that move one load along and leave the slots alone.               *)

LEMMA LoadMoves ==
    ASSUME Shape, NEW g \in Requests, NEW l \in LoadRecord, Stage(l),
           load' = [load EXCEPT ![g] = l],
           l.model = load[g].model, l.installer = load[g].installer,
           l.shutdown <=> load[g].shutdown,
           load[g].result \in {"none", l.result}, load[g].pc # "none",
           l.pc \in Live => load[g].pc \in Live \/ load[g].result = "none",
           slots' = slots, request' = request
    PROVE  Shape'
<1>1. load' \in [Requests -> LoadRecord] /\ load'[g] = l /\ \A x \in Requests : x # g => load'[x] = load[x]
    BY DEF Shape, SlotTypes
<1>2. SlotTypes'
    BY <1>1 DEF Shape, SlotTypes
<1>3. Stages'
    BY <1>1 DEF Shape, Stages
<1>4. /\ \A x \in Requests : load'[x].model = load[x].model /\ load'[x].installer = load[x].installer
                             /\ (load'[x].shutdown <=> load[x].shutdown)
      /\ \A x \in Requests : load[x].result = "ok" => load'[x].result = "ok"
      /\ \A x \in Requests : load'[x].installer = "done" /\ load'[x].pc \in Live => load[x].pc \in Live
      /\ \A x \in Requests : load[x].pc = "none" => load'[x].pc = "none"
    BY <1>1 DEF Shape, Stages, Stage, SlotTypes, LoadRecord, Live
<1>5. SlotsOwned'
    BY <1>4 DEF Shape, SlotsOwned, SlotTypes
<1>6. SlotsLoading'
    BY <1>4 DEF Shape, SlotsLoading, InFlight
<1>7. Waiting'
    BY <1>4 DEF Shape, Waiting
<1>8. Told'
    BY <1>4 DEF Shape, Told
<1>9. QED
    BY <1>2, <1>3, <1>5, <1>6, <1>7, <1>8 DEF Shape

LEMMA SetupFailsKept ==
    ASSUME Shape, Budget, BudgetAccounted, NEW g \in Requests, SetupFails(g)
    PROVE  Shape' /\ Budget' /\ BudgetAccounted'
<1> DEFINE l == [load[g] EXCEPT !.pc = "gone", !.result = "err"]
<1>1. load[g] \in LoadRecord /\ Stage(load[g]) /\ load[g].pc = "spawned"
    BY DEF Shape, SlotTypes, Stages, SetupFails
<1>2. load' = [load EXCEPT ![g] = l] /\ slots' = slots /\ request' = request
    BY DEF SetupFails, Shape, SlotTypes
<1>3. /\ l \in LoadRecord /\ l.model = load[g].model /\ l.installer = load[g].installer
      /\ (l.shutdown <=> load[g].shutdown) /\ load[g].result \in {"none", l.result}
      /\ (l.pc \in Live => load[g].pc \in Live \/ load[g].result = "none")
    BY <1>1 DEF LoadRecord, Stage, Live
<1>4. Stage(l)
    BY <1>1 DEF LoadRecord, Stage, NotStarted
<1>5. /\ l.held = load[g].held /\ l.draft = load[g].draft
      /\ l.kv_cache_bytes = load[g].kv_cache_bytes /\ load[g].result # "ok" /\ l.result # "ok"
    BY <1>1 DEF LoadRecord, Stage
<1> HIDE DEF l
<1>6. Shape'
    BY <1>1, <1>2, <1>3, <1>4, LoadMoves
<1>7. load[g].held \in Nat /\ load[g].draft \in Nat /\ load[g].held + load[g].draft <= allocated_bytes
    BY OwesIsNat, OwesCharged DEF Budget
<1>8. allocated_bytes' = allocated_bytes /\ lost' = lost
    BY <1>1, <1>7 DEF SetupFails, Budget
<1>9. Budget'
    BY <1>1, <1>5, <1>7, <1>8 DEF Budget, LoadRecord
<1>10. allocated_bytes' + load[g].held + load[g].draft + lost
        = allocated_bytes + l.held + l.draft + lost'
            + IF load[g].result # "ok" /\ l.result = "ok" THEN l.kv_cache_bytes ELSE 0
    BY <1>1, <1>5, <1>7, <1>8, <1>9 DEF Budget, LoadRecord
<1>11. BudgetAccounted'
    BY <1>2, <1>3, <1>5, <1>6, <1>9, <1>10, LoadDebt
<1>12. QED
    BY <1>6, <1>9, <1>11

LEMMA ReserveDraftKept ==
    ASSUME Shape, Budget, BudgetAccounted, NEW g \in Requests, ReserveDraft(g)
    PROVE  Shape' /\ Budget' /\ BudgetAccounted'
<1> DEFINE l == [load[g] EXCEPT !.pc = "loading", !.cap = DesiredBytes,
                                 !.draft = IF HasDraft THEN acquire(available_bytes \div 2) ELSE 0]
<1>1. load[g] \in LoadRecord /\ Stage(load[g]) /\ load[g].pc = "spawned"
    BY DEF Shape, SlotTypes, Stages, ReserveDraft
<1>2. load' = [load EXCEPT ![g] = l] /\ slots' = slots /\ request' = request
    BY DEF ReserveDraft, Shape, SlotTypes
<1>3. DesiredBytes \in Nat /\ l.draft \in Nat /\ allocated_bytes + l.draft \in 0 .. total_bytes
    <2>1. DesiredBytes \in Nat /\ HasDraft \in BOOLEAN
        BY ManagerAssumption
    <2>2. available_bytes \div 2 \in Nat
        BY BudgetBounds
    <2>3. /\ acquire(available_bytes \div 2) \in Nat
          /\ allocated_bytes + acquire(available_bytes \div 2) \in 0 .. total_bytes
        BY <2>2, BudgetBounds
    <2>4. QED
        BY <1>1, <2>1, <2>3 DEF LoadRecord, Budget
<1>4. /\ l \in LoadRecord /\ l.model = load[g].model /\ l.installer = load[g].installer
      /\ (l.shutdown <=> load[g].shutdown) /\ load[g].result \in {"none", l.result}
      /\ (l.pc \in Live => load[g].pc \in Live \/ load[g].result = "none")
    BY <1>1, <1>3 DEF LoadRecord, Stage, Live
<1>5. Stage(l)
    BY <1>1, <1>3 DEF LoadRecord, Stage, NotStarted
<1>6. /\ l.held = load[g].held /\ l.draft = l.draft /\ load[g].draft = 0
      /\ l.kv_cache_bytes = load[g].kv_cache_bytes /\ load[g].result # "ok" /\ l.result # "ok"
    BY <1>1, <1>3 DEF LoadRecord, Stage
<1> HIDE DEF l
<1>7. Shape'
    BY <1>1, <1>2, <1>4, <1>5, LoadMoves
<1>8. load[g].held \in Nat /\ load[g].draft \in Nat /\ load[g].held + load[g].draft <= allocated_bytes
    BY OwesIsNat, OwesCharged DEF Budget
<1>9. allocated_bytes' = allocated_bytes + l.draft /\ lost' = lost
    BY <1>1 DEF ReserveDraft, LoadRecord, l, Budget
<1>10. Budget'
    BY <1>1, <1>3, <1>6, <1>8, <1>9 DEF Budget, LoadRecord
<1>11. allocated_bytes' + load[g].held + load[g].draft + lost
        = allocated_bytes + l.held + l.draft + lost'
            + IF load[g].result # "ok" /\ l.result = "ok" THEN l.kv_cache_bytes ELSE 0
    BY <1>1, <1>3, <1>6, <1>8, <1>9, <1>10 DEF Budget, LoadRecord
<1>12. BudgetAccounted'
    BY <1>2, <1>4, <1>6, <1>7, <1>10, <1>11, LoadDebt
<1>13. QED
    BY <1>7, <1>10, <1>12

LEMMA AcquirePoolKept ==
    ASSUME Shape, Budget, BudgetAccounted, NEW g \in Requests, AcquirePool(g)
    PROVE  Shape' /\ Budget' /\ BudgetAccounted'
<1> DEFINE l == [load[g] EXCEPT !.pc = "acquired", !.held = acquire(load[g].cap)]
<1>1. load[g] \in LoadRecord /\ Stage(load[g]) /\ load[g].pc = "loading"
    BY DEF Shape, SlotTypes, Stages, AcquirePool
<1>2. load' = [load EXCEPT ![g] = l] /\ slots' = slots /\ request' = request
    BY DEF AcquirePool, Shape, SlotTypes
<1>3. acquire(load[g].cap) \in Nat /\ allocated_bytes + acquire(load[g].cap) \in 0 .. total_bytes
    BY <1>1, BudgetBounds DEF LoadRecord
<1>4. /\ l \in LoadRecord /\ l.model = load[g].model /\ l.installer = load[g].installer
      /\ (l.shutdown <=> load[g].shutdown) /\ load[g].result \in {"none", l.result}
      /\ (l.pc \in Live => load[g].pc \in Live \/ load[g].result = "none")
    BY <1>1, <1>3 DEF LoadRecord, Stage, Live
<1>5. Stage(l)
    BY <1>1, <1>3 DEF LoadRecord, Stage, NotStarted
<1>6. /\ l.held = l.held /\ l.draft = load[g].draft /\ load[g].held = 0
      /\ l.kv_cache_bytes = load[g].kv_cache_bytes /\ load[g].result # "ok" /\ l.result # "ok"
    BY <1>1, <1>3 DEF LoadRecord, Stage
<1> HIDE DEF l
<1>7. Shape'
    BY <1>1, <1>2, <1>4, <1>5, LoadMoves
<1>8. load[g].held \in Nat /\ load[g].draft \in Nat /\ load[g].held + load[g].draft <= allocated_bytes
    BY OwesIsNat, OwesCharged DEF Budget
<1>9. allocated_bytes' = allocated_bytes + l.held /\ lost' = lost
    BY <1>1, <1>8, <1>3 DEF AcquirePool, Budget, LoadRecord, l
<1>10. Budget'
    <2>1. l.held = acquire(load[g].cap)
        BY <1>1 DEF l, LoadRecord
    <2>2. QED
        BY <1>3, <1>9, <2>1 DEF Budget
<1>11. allocated_bytes' + load[g].held + load[g].draft + lost
        = allocated_bytes + l.held + l.draft + lost'
            + IF load[g].result # "ok" /\ l.result = "ok" THEN l.kv_cache_bytes ELSE 0
    BY <1>1, <1>3, <1>6, <1>8, <1>9, <1>10 DEF Budget, LoadRecord
<1>12. BudgetAccounted'
    BY <1>2, <1>4, <1>6, <1>7, <1>10, <1>11, LoadDebt
<1>13. QED
    BY <1>7, <1>10, <1>12

LEMMA PoolShortKept ==
    ASSUME Shape, Budget, BudgetAccounted, NEW g \in Requests, PoolShort(g)
    PROVE  Shape' /\ Budget' /\ BudgetAccounted'
<1> DEFINE l == [load[g] EXCEPT !.pc = "short", !.held = 0]
<1>1. load[g] \in LoadRecord /\ Stage(load[g]) /\ load[g].pc = "acquired"
    BY DEF Shape, SlotTypes, Stages, PoolShort
<1>2. load' = [load EXCEPT ![g] = l] /\ slots' = slots /\ request' = request
    BY DEF PoolShort, Shape, SlotTypes
<1>3. /\ l \in LoadRecord /\ l.model = load[g].model /\ l.installer = load[g].installer
      /\ (l.shutdown <=> load[g].shutdown) /\ load[g].result \in {"none", l.result}
      /\ (l.pc \in Live => load[g].pc \in Live \/ load[g].result = "none")
    BY <1>1 DEF LoadRecord, Stage, Live
<1>4. Stage(l)
    BY <1>1 DEF LoadRecord, Stage, NotStarted
<1>5. /\ l.held = 0 /\ l.draft = load[g].draft
      /\ l.kv_cache_bytes = load[g].kv_cache_bytes /\ load[g].result # "ok" /\ l.result # "ok"
    BY <1>1 DEF LoadRecord, Stage
<1> HIDE DEF l
<1>6. Shape'
    BY <1>1, <1>2, <1>3, <1>4, LoadMoves
<1>7. load[g].held \in Nat /\ load[g].draft \in Nat /\ load[g].held + load[g].draft <= allocated_bytes
    BY OwesIsNat, OwesCharged DEF Budget
<1>8. allocated_bytes' = allocated_bytes - load[g].held /\ lost' = lost
    <2>1. allocated_bytes' = Released(load[g].held) /\ lost' = lost
        BY DEF PoolShort
    <2>2. load[g].held \in Nat /\ load[g].held <= allocated_bytes
        BY <1>7 DEF Budget
    <2>3. QED
        BY <2>1, <2>2, ReleasedBytes
<1>9. Budget'
    <2>1. allocated_bytes' \in 0 .. total_bytes
        BY <1>7, <1>8, ReleasedBytes DEF Budget
    <2>2. lost' \in Nat
        BY <1>7, <1>8 DEF Budget
    <2>3. QED
        BY <2>1, <2>2 DEF Budget
<1>10. allocated_bytes' + load[g].held + load[g].draft + lost
        = allocated_bytes + l.held + l.draft + lost'
            + IF load[g].result # "ok" /\ l.result = "ok" THEN l.kv_cache_bytes ELSE 0
    BY <1>1, <1>5, <1>7, <1>8, <1>9 DEF Budget, LoadRecord
<1>11. BudgetAccounted'
    BY <1>2, <1>3, <1>5, <1>6, <1>9, <1>10, LoadDebt
<1>12. QED
    BY <1>6, <1>9, <1>11

LEMMA LoadFailsKept ==
    ASSUME Shape, Budget, BudgetAccounted, NEW g \in Requests, LoadFails(g)
    PROVE  Shape' /\ Budget' /\ BudgetAccounted'
<1> DEFINE l == [load[g] EXCEPT !.pc = "gone", !.result = "err", !.held = 0, !.draft = 0]
<1>1. load[g] \in LoadRecord /\ Stage(load[g]) /\ load[g].pc \in {"loading", "short", "acquired"}
    BY DEF Shape, SlotTypes, Stages, LoadFails
<1>2. load' = [load EXCEPT ![g] = l] /\ slots' = slots /\ request' = request
    BY DEF LoadFails, Shape, SlotTypes
<1>3. /\ l \in LoadRecord /\ l.model = load[g].model /\ l.installer = load[g].installer
      /\ (l.shutdown <=> load[g].shutdown) /\ load[g].result \in {"none", l.result}
      /\ (l.pc \in Live => load[g].pc \in Live \/ load[g].result = "none")
    BY <1>1 DEF LoadRecord, Stage, Live
<1>4. Stage(l)
    BY <1>1 DEF LoadRecord, Stage, NotStarted
<1>5. /\ l.held = 0 /\ l.draft = 0
      /\ l.kv_cache_bytes = load[g].kv_cache_bytes /\ load[g].result # "ok" /\ l.result # "ok"
    BY <1>1 DEF LoadRecord, Stage
<1> HIDE DEF l
<1>6. Shape'
    BY <1>1, <1>2, <1>3, <1>4, LoadMoves
<1>7. load[g].held \in Nat /\ load[g].draft \in Nat /\ load[g].held + load[g].draft <= allocated_bytes
    BY OwesIsNat, OwesCharged DEF Budget
<1>8. allocated_bytes' = allocated_bytes - (load[g].held + load[g].draft) /\ lost' = lost
    <2>1. allocated_bytes' = Released(load[g].held + load[g].draft) /\ lost' = lost
        BY DEF LoadFails, Refund
    <2>2. load[g].held + load[g].draft \in Nat /\ load[g].held + load[g].draft <= allocated_bytes
        BY <1>7 DEF Budget
    <2>3. QED
        BY <2>1, <2>2, ReleasedBytes
<1>9. Budget'
    <2>1. allocated_bytes' \in 0 .. total_bytes
        BY <1>7, <1>8, ReleasedBytes DEF Budget
    <2>2. lost' \in Nat
        BY <1>7, <1>8 DEF Budget
    <2>3. QED
        BY <2>1, <2>2 DEF Budget
<1>10. allocated_bytes' + load[g].held + load[g].draft + lost
        = allocated_bytes + l.held + l.draft + lost'
            + IF load[g].result # "ok" /\ l.result = "ok" THEN l.kv_cache_bytes ELSE 0
    BY <1>1, <1>5, <1>7, <1>8, <1>9 DEF Budget, LoadRecord
<1>11. BudgetAccounted'
    BY <1>2, <1>3, <1>5, <1>6, <1>9, <1>10, LoadDebt
<1>12. QED
    BY <1>6, <1>9, <1>11

LEMMA RetryHalvedKept ==
    ASSUME Shape, Budget, BudgetAccounted, NEW g \in Requests, RetryHalved(g)
    PROVE  Shape' /\ Budget' /\ BudgetAccounted'
<1> DEFINE l == [load[g] EXCEPT !.pc = "loading", !.held = 0, !.halvings = load[g].halvings + 1,
                                 !.cap = PoolBytes(g) \div 2]
<1>1. load[g] \in LoadRecord /\ Stage(load[g]) /\ load[g].pc = "acquired"
    BY DEF Shape, SlotTypes, Stages, RetryHalved
<1>2. load' = [load EXCEPT ![g] = l] /\ slots' = slots /\ request' = request
    BY DEF RetryHalved, Shape, SlotTypes
<1>3. PoolBytes(g) \in 0 .. load[g].held /\ PoolBytes(g) \div 2 \in Nat /\ load[g].halvings + 1 \in Nat
    BY <1>1, PoolBounds DEF LoadRecord
<1>4. /\ l \in LoadRecord /\ l.model = load[g].model /\ l.installer = load[g].installer
      /\ (l.shutdown <=> load[g].shutdown) /\ load[g].result \in {"none", l.result}
      /\ (l.pc \in Live => load[g].pc \in Live \/ load[g].result = "none")
    BY <1>1, <1>3 DEF LoadRecord, Stage, Live
<1>5. Stage(l)
    BY <1>1, <1>3 DEF LoadRecord, Stage, NotStarted
<1>6. /\ l.held = 0 /\ l.draft = load[g].draft
      /\ l.kv_cache_bytes = load[g].kv_cache_bytes /\ load[g].result # "ok" /\ l.result # "ok"
    BY <1>1, <1>3 DEF LoadRecord, Stage
<1> HIDE DEF l
<1>7. Shape'
    BY <1>1, <1>2, <1>4, <1>5, LoadMoves
<1>8. load[g].held \in Nat /\ load[g].draft \in Nat /\ load[g].held + load[g].draft <= allocated_bytes
    BY OwesIsNat, OwesCharged DEF Budget
<1>9. allocated_bytes' = allocated_bytes /\ lost' = lost + load[g].held
    BY <1>1, <1>8, <1>3 DEF RetryHalved, Budget
<1>10. Budget'
    BY <1>1, <1>3, <1>6, <1>8, <1>9 DEF Budget, LoadRecord
<1>11. allocated_bytes' + load[g].held + load[g].draft + lost
        = allocated_bytes + l.held + l.draft + lost'
            + IF load[g].result # "ok" /\ l.result = "ok" THEN l.kv_cache_bytes ELSE 0
    BY <1>1, <1>3, <1>6, <1>8, <1>9, <1>10 DEF Budget, LoadRecord
<1>12. BudgetAccounted'
    BY <1>2, <1>4, <1>6, <1>7, <1>10, <1>11, LoadDebt
<1>13. QED
    BY <1>7, <1>10, <1>12

LEMMA GiveUpHalvingKept ==
    ASSUME Shape, Budget, BudgetAccounted, NEW g \in Requests, GiveUpHalving(g)
    PROVE  Shape' /\ Budget' /\ BudgetAccounted'
<1> DEFINE l == [load[g] EXCEPT !.pc = "gone", !.result = "err", !.held = 0, !.draft = 0]
<1>1. load[g] \in LoadRecord /\ Stage(load[g]) /\ load[g].pc = "acquired"
    BY DEF Shape, SlotTypes, Stages, GiveUpHalving
<1>2. load' = [load EXCEPT ![g] = l] /\ slots' = slots /\ request' = request
    BY DEF GiveUpHalving, Shape, SlotTypes
<1>3. /\ l \in LoadRecord /\ l.model = load[g].model /\ l.installer = load[g].installer
      /\ (l.shutdown <=> load[g].shutdown) /\ load[g].result \in {"none", l.result}
      /\ (l.pc \in Live => load[g].pc \in Live \/ load[g].result = "none")
    BY <1>1 DEF LoadRecord, Stage, Live
<1>4. Stage(l)
    BY <1>1 DEF LoadRecord, Stage, NotStarted
<1>5. /\ l.held = 0 /\ l.draft = 0
      /\ l.kv_cache_bytes = load[g].kv_cache_bytes /\ load[g].result # "ok" /\ l.result # "ok"
    BY <1>1 DEF LoadRecord, Stage
<1> HIDE DEF l
<1>6. Shape'
    BY <1>1, <1>2, <1>3, <1>4, LoadMoves
<1>7. load[g].held \in Nat /\ load[g].draft \in Nat /\ load[g].held + load[g].draft <= allocated_bytes
    BY OwesIsNat, OwesCharged DEF Budget
<1>8. allocated_bytes' = allocated_bytes - load[g].draft /\ lost' = lost + load[g].held
    <2>1. allocated_bytes' = Released(load[g].draft) /\ lost' = lost + load[g].held
        BY DEF GiveUpHalving
    <2>2. load[g].draft \in Nat /\ load[g].draft <= allocated_bytes
        BY <1>7 DEF Budget
    <2>3. QED
        BY <2>1, <2>2, ReleasedBytes
<1>9. Budget'
    <2>1. allocated_bytes' \in 0 .. total_bytes
        BY <1>7, <1>8, ReleasedBytes DEF Budget
    <2>2. lost' \in Nat
        BY <1>7, <1>8 DEF Budget
    <2>3. QED
        BY <2>1, <2>2 DEF Budget
<1>10. allocated_bytes' + load[g].held + load[g].draft + lost
        = allocated_bytes + l.held + l.draft + lost'
            + IF load[g].result # "ok" /\ l.result = "ok" THEN l.kv_cache_bytes ELSE 0
    BY <1>1, <1>5, <1>7, <1>8, <1>9 DEF Budget, LoadRecord
<1>11. BudgetAccounted'
    BY <1>2, <1>3, <1>5, <1>6, <1>9, <1>10, LoadDebt
<1>12. QED
    BY <1>6, <1>9, <1>11

LEMMA LoadOkKept ==
    ASSUME Shape, Budget, BudgetAccounted, NEW g \in Requests, LoadOk(g)
    PROVE  Shape' /\ Budget' /\ BudgetAccounted'
<1> DEFINE l == [load[g] EXCEPT !.pc = "sent", !.result = "ok", !.held = 0,
                                 !.kv_cache_bytes = PoolBytes(g)]
<1>1. load[g] \in LoadRecord /\ Stage(load[g]) /\ load[g].pc = "acquired"
    BY DEF Shape, SlotTypes, Stages, LoadOk
<1>2. load' = [load EXCEPT ![g] = l] /\ slots' = slots /\ request' = request
    BY DEF LoadOk, Shape, SlotTypes
<1>3. PoolBytes(g) \in 0 .. load[g].held /\ PoolBytes(g) \in Nat
    BY <1>1, PoolBounds DEF LoadRecord
<1>4. /\ l \in LoadRecord /\ l.model = load[g].model /\ l.installer = load[g].installer
      /\ (l.shutdown <=> load[g].shutdown) /\ load[g].result \in {"none", l.result}
      /\ (l.pc \in Live => load[g].pc \in Live \/ load[g].result = "none")
    BY <1>1, <1>3 DEF LoadRecord, Stage, Live
<1>5. Stage(l)
    BY <1>1, <1>3 DEF LoadRecord, Stage, NotStarted
<1>6. /\ l.held = 0 /\ l.draft = load[g].draft
      /\ l.kv_cache_bytes = PoolBytes(g) /\ load[g].result = "none" /\ InFlight(g)
    BY <1>1, <1>3 DEF LoadRecord, Stage, InFlight
<1> HIDE DEF l
<1>7. Shape'
    BY <1>1, <1>2, <1>4, <1>5, LoadMoves
<1>8. load[g].held \in Nat /\ load[g].draft \in Nat /\ load[g].held + load[g].draft <= allocated_bytes
    BY OwesIsNat, OwesCharged DEF Budget
<1>9. allocated_bytes' = allocated_bytes /\ lost' = lost + (load[g].held - PoolBytes(g))
    BY <1>1, <1>8, <1>3 DEF LoadOk, Budget
<1>10. Budget'
    BY <1>1, <1>3, <1>6, <1>8, <1>9 DEF Budget, LoadRecord
<1>11. allocated_bytes' + load[g].held + load[g].draft + lost
        = allocated_bytes + l.held + l.draft + lost'
            + IF load[g].result # "ok" /\ l.result = "ok" THEN l.kv_cache_bytes ELSE 0
    <2>1. l.result = "ok"
        BY <1>1 DEF l, LoadRecord
    <2>2. QED
        BY <1>3, <1>6, <1>8, <1>9, <2>1 DEF Budget
<1>12. BudgetAccounted'
    BY <1>2, <1>4, <1>6, <1>7, <1>10, <1>11, LoadDebt
<1>13. QED
    BY <1>7, <1>10, <1>12

LEMMA ReleaseReservationKept ==
    ASSUME Shape, Budget, BudgetAccounted, NEW g \in Requests, ReleaseReservation(g)
    PROVE  Shape' /\ Budget' /\ BudgetAccounted'
<1> DEFINE l == [load[g] EXCEPT !.pc = "drafting", !.draft = 0]
<1>1. load[g] \in LoadRecord /\ Stage(load[g]) /\ load[g].pc = "sent"
    BY DEF Shape, SlotTypes, Stages, ReleaseReservation
<1>2. load' = [load EXCEPT ![g] = l] /\ slots' = slots /\ request' = request
    BY DEF ReleaseReservation, Shape, SlotTypes
<1>3. /\ l \in LoadRecord /\ l.model = load[g].model /\ l.installer = load[g].installer
      /\ (l.shutdown <=> load[g].shutdown) /\ load[g].result \in {"none", l.result}
      /\ (l.pc \in Live => load[g].pc \in Live \/ load[g].result = "none")
    BY <1>1 DEF LoadRecord, Stage, Live
<1>4. Stage(l)
    BY <1>1 DEF LoadRecord, Stage, NotStarted
<1>5. /\ l.held = load[g].held /\ l.draft = 0
      /\ l.kv_cache_bytes = load[g].kv_cache_bytes /\ l.result = load[g].result
    BY <1>1 DEF LoadRecord, Stage
<1> HIDE DEF l
<1>6. Shape'
    BY <1>1, <1>2, <1>3, <1>4, LoadMoves
<1>7. load[g].held \in Nat /\ load[g].draft \in Nat /\ load[g].held + load[g].draft <= allocated_bytes
    BY OwesIsNat, OwesCharged DEF Budget
<1>8. allocated_bytes' = allocated_bytes - load[g].draft /\ lost' = lost
    <2>1. allocated_bytes' = Released(load[g].draft) /\ lost' = lost
        BY DEF ReleaseReservation
    <2>2. load[g].draft \in Nat /\ load[g].draft <= allocated_bytes
        BY <1>7 DEF Budget
    <2>3. QED
        BY <2>1, <2>2, ReleasedBytes
<1>9. Budget'
    <2>1. allocated_bytes' \in 0 .. total_bytes
        BY <1>7, <1>8, ReleasedBytes DEF Budget
    <2>2. lost' \in Nat
        BY <1>7, <1>8 DEF Budget
    <2>3. QED
        BY <2>1, <2>2 DEF Budget
<1>10. allocated_bytes' + load[g].held + load[g].draft + lost
        = allocated_bytes + l.held + l.draft + lost'
            + IF load[g].result # "ok" /\ l.result = "ok" THEN l.kv_cache_bytes ELSE 0
    BY <1>1, <1>5, <1>7, <1>8, <1>9 DEF Budget, LoadRecord
<1>11. BudgetAccounted'
    BY <1>2, <1>3, <1>5, <1>6, <1>9, <1>10, LoadDebt
<1>12. QED
    BY <1>6, <1>9, <1>11

LEMMA LoadDraftKept ==
    ASSUME Shape, Budget, BudgetAccounted, NEW g \in Requests, LoadDraft(g)
    PROVE  Shape' /\ Budget' /\ BudgetAccounted'
<1> DEFINE l == [load[g] EXCEPT !.pc = "running"]
<1>1. load[g] \in LoadRecord /\ Stage(load[g]) /\ load[g].pc = "drafting"
    BY DEF Shape, SlotTypes, Stages, LoadDraft
<1>2. load' = [load EXCEPT ![g] = l] /\ slots' = slots /\ request' = request
    BY DEF LoadDraft, Shape, SlotTypes
<1>3. /\ l \in LoadRecord /\ l.model = load[g].model /\ l.installer = load[g].installer
      /\ (l.shutdown <=> load[g].shutdown) /\ load[g].result \in {"none", l.result}
      /\ (l.pc \in Live => load[g].pc \in Live \/ load[g].result = "none")
    BY <1>1 DEF LoadRecord, Stage, Live
<1>4. Stage(l)
    BY <1>1 DEF LoadRecord, Stage, NotStarted
<1>5. /\ l.held = load[g].held /\ l.draft = load[g].draft
      /\ l.kv_cache_bytes = load[g].kv_cache_bytes /\ l.result = load[g].result
    BY <1>1 DEF LoadRecord, Stage
<1> HIDE DEF l
<1>6. Shape'
    BY <1>1, <1>2, <1>3, <1>4, LoadMoves
<1>7. load[g].held \in Nat /\ load[g].draft \in Nat /\ load[g].held + load[g].draft <= allocated_bytes
    BY OwesIsNat, OwesCharged DEF Budget
<1>8. \E n \in Nat : allocated_bytes' = allocated_bytes + n /\ lost' = lost + n
                        /\ allocated_bytes' \in 0 .. total_bytes
    <2>1. DesiredBytes \in Nat
        BY ManagerAssumption
    <2>2. acquire(DesiredBytes) \in Nat /\ allocated_bytes + acquire(DesiredBytes) \in 0 .. total_bytes
        BY <2>1, BudgetBounds
    <2>3. PICK pool \in DraftPools : /\ allocated_bytes' = allocated_bytes + pool
                                     /\ lost' = lost + pool
        BY DEF LoadDraft
    <2>4. pool \in {0, acquire(DesiredBytes)}
        BY DEF DraftPools
    <2>5. QED
        BY <2>2, <2>3, <2>4 DEF Budget
<1>9. Budget'
    BY <1>1, <1>5, <1>7, <1>8 DEF Budget, LoadRecord
<1>10. allocated_bytes' + load[g].held + load[g].draft + lost
        = allocated_bytes + l.held + l.draft + lost'
            + IF load[g].result # "ok" /\ l.result = "ok" THEN l.kv_cache_bytes ELSE 0
    BY <1>1, <1>5, <1>7, <1>8, <1>9 DEF Budget, LoadRecord
<1>11. BudgetAccounted'
    BY <1>2, <1>3, <1>5, <1>6, <1>9, <1>10, LoadDebt
<1>12. QED
    BY <1>6, <1>9, <1>11

LEMMA LoopExitsKept ==
    ASSUME Shape, Budget, BudgetAccounted, NEW g \in Requests, LoopExits(g)
    PROVE  Shape' /\ Budget' /\ BudgetAccounted'
<1> DEFINE l == [load[g] EXCEPT !.pc = "closing"]
<1>1. load[g] \in LoadRecord /\ Stage(load[g]) /\ load[g].pc = "running"
    BY DEF Shape, SlotTypes, Stages, LoopExits
<1>2. load' = [load EXCEPT ![g] = l] /\ slots' = slots /\ request' = request
    BY DEF LoopExits, Shape, SlotTypes
<1>3. /\ l \in LoadRecord /\ l.model = load[g].model /\ l.installer = load[g].installer
      /\ (l.shutdown <=> load[g].shutdown) /\ load[g].result \in {"none", l.result}
      /\ (l.pc \in Live => load[g].pc \in Live \/ load[g].result = "none")
    BY <1>1 DEF LoadRecord, Stage, Live
<1>4. Stage(l)
    BY <1>1 DEF LoadRecord, Stage, NotStarted
<1>5. /\ l.held = load[g].held /\ l.draft = load[g].draft
      /\ l.kv_cache_bytes = load[g].kv_cache_bytes /\ l.result = load[g].result
    BY <1>1 DEF LoadRecord, Stage
<1> HIDE DEF l
<1>6. Shape'
    BY <1>1, <1>2, <1>3, <1>4, LoadMoves
<1>7. load[g].held \in Nat /\ load[g].draft \in Nat /\ load[g].held + load[g].draft <= allocated_bytes
    BY OwesIsNat, OwesCharged DEF Budget
<1>8. allocated_bytes' = allocated_bytes /\ lost' = lost
    BY <1>1, <1>7 DEF LoopExits, Budget
<1>9. Budget'
    BY <1>1, <1>5, <1>7, <1>8 DEF Budget, LoadRecord
<1>10. allocated_bytes' + load[g].held + load[g].draft + lost
        = allocated_bytes + l.held + l.draft + lost'
            + IF load[g].result # "ok" /\ l.result = "ok" THEN l.kv_cache_bytes ELSE 0
    BY <1>1, <1>5, <1>7, <1>8, <1>9 DEF Budget, LoadRecord
<1>11. BudgetAccounted'
    BY <1>2, <1>3, <1>5, <1>6, <1>9, <1>10, LoadDebt
<1>12. QED
    BY <1>6, <1>9, <1>11

LEMMA PanicsKept ==
    ASSUME Shape, Budget, BudgetAccounted, NEW g \in Requests, Panics(g)
    PROVE  Shape' /\ Budget' /\ BudgetAccounted'
<1> DEFINE l == [load[g] EXCEPT !.pc = IF load[g].pc = "running" THEN "closing" ELSE "gone",
                                 !.result = IF load[g].result = "none" THEN "dropped" ELSE load[g].result,
                                 !.held = 0, !.draft = 0]
<1>1. load[g] \in LoadRecord /\ Stage(load[g]) /\ load[g].pc \in {"spawned", "loading", "acquired", "drafting", "running"}
    BY DEF Shape, SlotTypes, Stages, Panics
<1>2. load' = [load EXCEPT ![g] = l] /\ slots' = slots /\ request' = request
    BY DEF Panics, Shape, SlotTypes
<1>3. /\ l \in LoadRecord /\ l.model = load[g].model /\ l.installer = load[g].installer
      /\ (l.shutdown <=> load[g].shutdown) /\ load[g].result \in {"none", l.result}
      /\ (l.pc \in Live => load[g].pc \in Live \/ load[g].result = "none")
    BY <1>1 DEF LoadRecord, Stage, Live
<1>4. Stage(l)
    BY <1>1 DEF LoadRecord, Stage, NotStarted
<1>5. /\ l.held = 0 /\ l.draft = 0
      /\ l.kv_cache_bytes = load[g].kv_cache_bytes /\ (l.result = "ok" <=> load[g].result = "ok")
    BY <1>1 DEF LoadRecord, Stage
<1> HIDE DEF l
<1>6. Shape'
    BY <1>1, <1>2, <1>3, <1>4, LoadMoves
<1>7. load[g].held \in Nat /\ load[g].draft \in Nat /\ load[g].held + load[g].draft <= allocated_bytes
    BY OwesIsNat, OwesCharged DEF Budget
<1>8. PICK pool \in Nat : /\ allocated_bytes' = allocated_bytes + pool
                          /\ allocated_bytes + pool \in 0 .. total_bytes
                          /\ lost' = lost + load[g].held + load[g].draft + pool
    <2>1. PICK pool \in IF load[g].pc = "drafting" THEN DraftPools ELSE {0} :
             /\ allocated_bytes' = allocated_bytes + pool
             /\ lost' = lost + load[g].held + load[g].draft + pool
        BY DEF Panics
    <2>2. pool \in {0, acquire(DesiredBytes)}
        BY DEF DraftPools
    <2>3. acquire(DesiredBytes) \in Nat /\ allocated_bytes + acquire(DesiredBytes) \in 0 .. total_bytes
        BY ManagerAssumption, BudgetBounds
    <2>4. QED
        BY <2>1, <2>2, <2>3 DEF Budget
<1>9. Budget'
    BY <1>1, <1>5, <1>7, <1>8 DEF Budget, LoadRecord
<1>10. allocated_bytes' + load[g].held + load[g].draft + lost
        = allocated_bytes + l.held + l.draft + lost'
            + IF load[g].result # "ok" /\ l.result = "ok" THEN l.kv_cache_bytes ELSE 0
    BY <1>1, <1>5, <1>7, <1>8, <1>9 DEF Budget, LoadRecord
<1>11. BudgetAccounted'
    BY <1>2, <1>3, <1>5, <1>6, <1>9, <1>10, LoadDebt
<1>12. QED
    BY <1>6, <1>9, <1>11

-----------------------------------------------------------------------------
(* Steps of the requests.                                                  *)

\* A request that does not wait goes on.
LEMMA RequestMoves ==
    ASSUME Shape, NEW r \in Requests, request[r].at # "waiting",
           NEW q \in [at : {"handle", "failed", "done"}, gen : Requests \cup {"none"}],
           request' = [request EXCEPT ![r] = q], slots' = slots, load' = load
    PROVE  Shape'
<1>1. /\ request' \in [Requests -> [at : {"idle", "waiting", "handle", "failed", "done"},
                                    gen : Requests \cup {"none"}]]
      /\ \A x \in Requests : x # r => request'[x] = request[x]
      /\ request'[r] = q
    BY DEF Shape, SlotTypes
<1>2. \A x \in Requests : request'[x].at = "idle" => request[x].at = "idle"
    BY <1>1
<1>3. \A x \in Requests : request'[x].at = "waiting" <=> request[x].at = "waiting"
    BY <1>1
<1>4. SlotTypes' /\ Stages' /\ SlotsLoading' /\ Told'
    BY <1>1 DEF Shape, SlotTypes, Stages, SlotsLoading, Told, InFlight
<1>5. SlotsOwned'
    BY <1>3 DEF Shape, SlotTypes, SlotsOwned
<1>6. Waiting'
    BY <1>2, <1>3 DEF Shape, Waiting
<1>7. QED
    BY <1>4, <1>5, <1>6 DEF Shape

LEMMA GetReadyShape == \A r \in Requests, m \in Models : Shape /\ GetReady(r, m) => Shape'
<1> SUFFICES ASSUME NEW r \in Requests, NEW m \in Models, Shape, GetReady(r, m) PROVE Shape'
    OBVIOUS
<1>1. slots[m].gen \in Requests \cup {"none"}
    BY DEF Shape, SlotTypes
<1>2. [at |-> "handle", gen |-> slots[m].gen]
        \in [at : {"handle", "failed", "done"}, gen : Requests \cup {"none"}]
    BY <1>1
<1>3. QED
    BY <1>2, RequestMoves DEF GetReady

LEMMA DropHandleShape == \A r \in Requests : Shape /\ DropHandle(r) => Shape'
<1> SUFFICES ASSUME NEW r \in Requests, Shape, DropHandle(r) PROVE Shape'
    OBVIOUS
<1>1. [at |-> "done", gen |-> "none"]
        \in [at : {"handle", "failed", "done"}, gen : Requests \cup {"none"}]
    OBVIOUS
<1>2. QED
    BY <1>1, RequestMoves DEF DropHandle

LEMMA GetLoadingShape == \A r \in Requests, m \in Models : Shape /\ GetLoading(r, m) => Shape'
<1> SUFFICES ASSUME NEW r \in Requests, NEW m \in Models, Shape, GetLoading(r, m) PROVE Shape'
    OBVIOUS
<1>1. /\ request' \in [Requests -> [at : {"idle", "waiting", "handle", "failed", "done"},
                                    gen : Requests \cup {"none"}]]
      /\ \A x \in Requests : request'[x].at = IF x = r THEN "waiting" ELSE request[x].at
      /\ request[r].at = "idle"
    BY DEF Shape, SlotTypes, GetLoading
<1>2. /\ slots' \in [Models -> [state : {"None", "Loading", "Ready"}, gen : Requests \cup {"none"},
                                waiters : SUBSET Requests]]
      /\ \A x \in Models : /\ slots'[x].state = slots[x].state /\ slots'[x].gen = slots[x].gen
                           /\ slots'[x].waiters = IF x = m THEN slots[x].waiters \cup {r}
                                                  ELSE slots[x].waiters
      /\ slots[m].state = "Loading" /\ load' = load
    BY DEF Shape, SlotTypes, GetLoading
<1>3. \A x \in Models : r \notin slots[x].waiters
    BY <1>1 DEF Shape, SlotsOwned
<1>4. SlotTypes' /\ Stages'
    BY <1>1, <1>2 DEF Shape, SlotTypes, Stages
<1>5. SlotsOwned'
    <2>1. ASSUME NEW x \in Models, NEW y \in slots'[x].waiters
          PROVE  slots'[x].state = "Loading" /\ request'[y].at = "waiting"
        <3>1. y \in slots[x].waiters => slots[x].state = "Loading" /\ request[y].at = "waiting"
            BY DEF Shape, SlotsOwned
        <3>2. y \in Requests
            BY <1>2
        <3>3. QED
            BY <1>1, <1>2, <3>1, <3>2
    <2>2. ASSUME NEW x \in Models
          PROVE  /\ slots'[x].state = "Ready" <=> slots'[x].gen # "none"
                 /\ slots'[x].state = "Ready" =>
                       /\ load'[slots'[x].gen].model = x /\ load'[slots'[x].gen].installer = "done"
                       /\ load'[slots'[x].gen].result = "ok" /\ ~load'[slots'[x].gen].shutdown
        <3>1. slots'[x].state = slots[x].state /\ slots'[x].gen = slots[x].gen /\ load' = load
            BY <1>2
        <3>2. QED
            BY <3>1 DEF Shape, SlotsOwned
    <2>3. QED
        BY <2>1, <2>2 DEF SlotsOwned
<1>6. SlotsLoading'
    <2>1. \A x \in Requests : (InFlight(x)' <=> InFlight(x)) /\ (InFlight(x) => load[x].model \in Models)
        BY <1>2, ModelKnown DEF InFlight
    <2>2. QED
        BY <1>2, <2>1 DEF Shape, SlotsLoading
<1>7. Waiting'
    <2>1. \A x \in Requests : request'[x].at = "idle" => load'[x].pc = "none"
        BY <1>1, <1>2 DEF Shape, Waiting
    <2>2. ASSUME NEW x \in Requests, request'[x].at = "waiting"
          PROVE  \E n \in Models : slots'[n].state = "Loading" /\ x \in slots'[n].waiters
        <3>1. CASE x = r
            BY <1>2, <3>1
        <3>2. CASE x # r
            <4>1. PICK n \in Models : slots[n].state = "Loading" /\ x \in slots[n].waiters
                BY <1>1, <2>2, <3>2 DEF Shape, Waiting
            <4>2. QED
                BY <1>2, <4>1
        <3>3. QED
            BY <3>1, <3>2
    <2>3. ASSUME NEW k \in Models, NEW n \in Models, NEW x \in Requests,
                 x \in slots'[k].waiters, x \in slots'[n].waiters
          PROVE  k = n
        <3>1. CASE x = r
            BY <1>2, <1>3, <2>3, <3>1
        <3>2. CASE x # r
            <4>1. x \in slots[k].waiters /\ x \in slots[n].waiters
                BY <1>2, <2>3, <3>2
            <4>2. QED
                BY <4>1 DEF Shape, Waiting
        <3>3. QED
            BY <3>1, <3>2
    <2>4. QED
        BY <2>1, <2>2, <2>3 DEF Waiting
<1>8. Told'
    <2>1. \A x \in Requests : load[x].pc \in Live => load[x].model \in Models
        BY ModelKnown
    <2>2. QED
        BY <1>2, <2>1 DEF Shape, Told
<1>9. QED
    BY <1>4, <1>5, <1>6, <1>7, <1>8 DEF Shape

-----------------------------------------------------------------------------
(* Evictions.                                                              *)

\* Ready slots go, and their engines are told or have ended.
LEMMA SlotsGo ==
    ASSUME Shape, NEW V \in SUBSET ReadyModels,
           slots' = [m \in Models |-> IF m \in V THEN Nobody ELSE slots[m]], request' = request,
           load' \in [Requests -> LoadRecord], Stages',
           \A x \in Requests :
              /\ load'[x].model = load[x].model /\ load'[x].installer = load[x].installer
              /\ load'[x].result = load[x].result
              /\ load'[x].pc \in Live => load[x].pc \in Live
              /\ load[x].pc = "none" => load'[x].pc = "none"
              /\ load[x].shutdown => load'[x].shutdown
              /\ load'[x].shutdown => load[x].shutdown \/ \E m \in V : slots[m].gen = x
              /\ (\E m \in V : slots[m].gen = x) => load'[x].shutdown \/ load'[x].pc \notin Live
    PROVE  Shape'
<1>1. V \subseteq Models /\ \A m \in V : slots[m].state = "Ready"
    BY DEF ReadyModels
<1>2. /\ \A m \in V : slots'[m] = Nobody
      /\ \A m \in Models : m \notin V => slots'[m] = slots[m]
    BY <1>1
<1>3. SlotTypes'
    BY <1>1, <1>2 DEF Shape, SlotTypes, Nobody
<1>4. \A m \in V : slots'[m].state = "None" /\ slots'[m].gen = "none" /\ slots'[m].waiters = {}
    BY <1>2 DEF Nobody
<1>5. SlotsOwned'
    <2>1. ASSUME NEW m \in Models, m \notin V, slots[m].state = "Ready"
          PROVE  ~load'[slots[m].gen].shutdown /\ slots[m].gen \in Requests
        <3>1. slots[m].gen \in Requests /\ load[slots[m].gen].model = m /\ ~load[slots[m].gen].shutdown
            BY <2>1 DEF Shape, SlotTypes, SlotsOwned
        <3>2. \A n \in V : slots[n].gen # slots[m].gen
            BY <1>1, <2>1, <3>1 DEF Shape, SlotsOwned
        <3>3. QED
            BY <3>1, <3>2
    <2>2. ASSUME NEW m \in Models, m \notin V, slots[m].state = "Ready"
          PROVE  /\ load'[slots[m].gen].model = m /\ load'[slots[m].gen].installer = "done"
                 /\ load'[slots[m].gen].result = "ok"
        BY <2>1, <2>2 DEF Shape, SlotsOwned
    <2>3. ASSUME NEW m \in Models
          PROVE  /\ slots'[m].state = "Ready" <=> slots'[m].gen # "none"
                 /\ slots'[m].state = "Ready" => m \notin V /\ slots'[m] = slots[m]
                 /\ \A x \in slots'[m].waiters : slots'[m].state = "Loading" /\ request'[x].at = "waiting"
        <3>1. CASE m \in V
            BY <1>4, <3>1
        <3>2. CASE m \notin V
            BY <1>2, <3>2 DEF Shape, SlotsOwned
        <3>3. QED
            BY <3>1, <3>2
    <2>4. QED
        BY <2>1, <2>2, <2>3 DEF SlotsOwned
<1>6. SlotsLoading'
    <2>1. \A x \in Requests : InFlight(x)' <=> InFlight(x)
        BY DEF InFlight
    <2>2. \A x \in Requests : InFlight(x) => load[x].model \in Models /\ load[x].model \notin V
        BY <1>1, ModelKnown DEF Shape, SlotsLoading
    <2>3. \A x \in Requests : InFlight(x)' => slots'[load'[x].model].state = "Loading"
        BY <1>2, <2>1, <2>2 DEF Shape, SlotsLoading
    <2>4. \A x, y \in Requests : InFlight(x)' /\ InFlight(y)' /\ load'[x].model = load'[y].model => x = y
        BY <2>1 DEF Shape, SlotsLoading
    <2>5. \A m \in Models : slots'[m].state = "Loading" =>
             \E x \in Requests : InFlight(x)' /\ load'[x].model = m
        <3> SUFFICES ASSUME NEW m \in Models, slots'[m].state = "Loading"
                     PROVE  \E x \in Requests : InFlight(x)' /\ load'[x].model = m
            OBVIOUS
        <3>1. slots[m].state = "Loading"
            BY <1>2, <1>4
        <3>2. PICK x \in Requests : InFlight(x) /\ load[x].model = m
            BY <3>1 DEF Shape, SlotsLoading
        <3>3. QED
            BY <2>1, <3>2
    <2>6. QED
        BY <2>3, <2>4, <2>5 DEF SlotsLoading
<1>7. Waiting'
    BY <1>1, <1>2, <1>4 DEF Shape, Waiting
<1>8. Told'
    <2>1. \A x \in Requests : load[x].pc \in Live => load[x].model \in Models
        BY DEF Shape, Stages, Stage, SlotTypes, LoadRecord, Live
    <2>2. QED
        BY <1>2, <2>1 DEF Shape, Told
<1>9. QED
    BY <1>3, <1>5, <1>6, <1>7, <1>8 DEF Shape

\* An evicted engine is told to end.
LEMMA FlagsRaised ==
    ASSUME Shape, NEW V \in SUBSET ReadyModels
    PROVE  /\ Flagged(V) \in [Requests -> LoadRecord]
           /\ \A x \in Requests :
                 LET l == Flagged(V)[x]
                 IN  /\ Stage(l)
                     /\ l.model = load[x].model /\ l.installer = load[x].installer
                     /\ l.result = load[x].result /\ l.pc = load[x].pc
                     /\ l.kv_cache_bytes = load[x].kv_cache_bytes
                     /\ l.held = load[x].held /\ l.draft = load[x].draft
                     /\ l.shutdown <=> load[x].shutdown \/ \E m \in V : slots[m].gen = x
<1>1. \A x \in Requests : load[x] \in LoadRecord /\ Stage(load[x])
    BY DEF Shape, SlotTypes, Stages
<1>2. \A x \in Requests : (\E m \in V : slots[m].gen = x) =>
                          load[x].installer = "done" /\ load[x].pc # "none"
    BY ModelKnown DEF Shape, SlotsOwned, ReadyModels
<1>3. ASSUME NEW x \in Requests, \E m \in V : slots[m].gen = x
      PROVE  LET l == [load[x] EXCEPT !.shutdown = TRUE]
             IN  /\ l \in LoadRecord /\ Stage(l) /\ l.shutdown
                 /\ l.model = load[x].model /\ l.installer = load[x].installer
                 /\ l.result = load[x].result /\ l.pc = load[x].pc
                 /\ l.kv_cache_bytes = load[x].kv_cache_bytes
                 /\ l.held = load[x].held /\ l.draft = load[x].draft
    <2> DEFINE l == [load[x] EXCEPT !.shutdown = TRUE]
    <2>1. l \in LoadRecord
        BY <1>1 DEF LoadRecord
    <2>2. /\ l.shutdown /\ l.model = load[x].model /\ l.installer = load[x].installer
          /\ l.result = load[x].result /\ l.pc = load[x].pc
          /\ l.kv_cache_bytes = load[x].kv_cache_bytes
          /\ l.held = load[x].held /\ l.draft = load[x].draft
        BY <1>1 DEF LoadRecord
    <2> HIDE DEF l
    <2>3. Stage(l)
        BY <1>1, <1>2, <1>3, <2>2 DEF Stage
    <2>4. QED
        BY <2>1, <2>2, <2>3 DEF l
<1>4. Flagged(V) = [x \in Requests |-> IF \E m \in V : slots[m].gen = x
                                       THEN [load[x] EXCEPT !.shutdown = TRUE] ELSE load[x]]
    BY DEF Flagged
<1>5. QED
    BY <1>1, <1>3, <1>4

LEMMA EvictExpiredShape == Shape /\ EvictExpired => Shape'
<1> SUFFICES ASSUME Shape, EvictExpired PROVE Shape'
    OBVIOUS
<1>1. PICK V \in SUBSET ReadyModels :
         /\ slots' = [m \in Models |-> IF m \in V THEN Nobody ELSE slots[m]]
         /\ load' = Flagged(V) /\ request' = request
    BY DEF EvictExpired
<1>2. Stages'
    BY <1>1, FlagsRaised DEF Stages
<1>3. /\ load' \in [Requests -> LoadRecord]
      /\ \A x \in Requests :
            /\ load'[x].model = load[x].model /\ load'[x].installer = load[x].installer
            /\ load'[x].result = load[x].result /\ load'[x].pc = load[x].pc
            /\ load'[x].shutdown <=> load[x].shutdown \/ \E m \in V : slots[m].gen = x
    BY <1>1, FlagsRaised
<1>4. QED
    BY <1>1, <1>2, <1>3, SlotsGo

LEMMA EvictForPoolShape == \A g \in Requests : Shape /\ EvictForPool(g) => Shape'
<1> SUFFICES ASSUME NEW g \in Requests, Shape, EvictForPool(g) PROVE Shape'
    OBVIOUS
<1>1. PICK victim \in ReadyModels :
         /\ slots' = [slots EXCEPT ![victim] = Nobody]
         /\ load' = [Flagged({victim}) EXCEPT ![g].pc = "loading", ![g].cap = DesiredBytes,
                                              ![g].halvings = 0]
    BY DEF EvictForPool
<1>2. load[g].pc = "short" /\ request' = request
    BY DEF EvictForPool
<1> DEFINE V == {victim}
           F == Flagged(V)
           l == [F[g] EXCEPT !.pc = "loading", !.cap = DesiredBytes, !.halvings = 0]
<1>3. V \in SUBSET ReadyModels /\ slots' = [m \in Models |-> IF m \in V THEN Nobody ELSE slots[m]]
    BY <1>1 DEF Shape, SlotTypes, ReadyModels
<1>4. /\ F \in [Requests -> LoadRecord]
      /\ \A x \in Requests :
            /\ Stage(F[x])
            /\ F[x].model = load[x].model /\ F[x].installer = load[x].installer
            /\ F[x].result = load[x].result /\ F[x].pc = load[x].pc
            /\ F[x].shutdown <=> load[x].shutdown \/ \E m \in V : slots[m].gen = x
    BY <1>3, FlagsRaised
<1>5. load' = [F EXCEPT ![g] = l]
    BY <1>1, <1>4
<1> HIDE DEF F
<1>6. l \in LoadRecord /\ l.pc = "loading" /\ l.model = F[g].model /\ l.installer = F[g].installer
      /\ l.result = F[g].result /\ (l.shutdown <=> F[g].shutdown) /\ Stage(l)
    <2>1. DesiredBytes \in Nat
        BY ManagerAssumption
    <2>2. F[g] \in LoadRecord
        BY <1>4
    <2>3. l \in LoadRecord /\ l.pc = "loading" /\ l.model = F[g].model /\ l.installer = F[g].installer
          /\ l.result = F[g].result /\ (l.shutdown <=> F[g].shutdown)
          /\ l.held = F[g].held /\ l.draft = F[g].draft /\ l.kv_cache_bytes = F[g].kv_cache_bytes
        BY <2>1, <2>2 DEF LoadRecord
    <2> HIDE DEF l
    <2>4. Stage(l)
        BY <1>2, <1>4, <2>3 DEF Stage
    <2>5. QED
        BY <2>3, <2>4
<1> HIDE DEF l
<1>7. /\ load' \in [Requests -> LoadRecord] /\ load'[g] = l
      /\ \A x \in Requests : x # g => load'[x] = F[x]
    BY <1>4, <1>5, <1>6
<1>8. Stages'
    BY <1>4, <1>6, <1>7 DEF Stages
<1>9. \A x \in Requests :
            /\ load'[x].model = load[x].model /\ load'[x].installer = load[x].installer
            /\ load'[x].result = load[x].result
            /\ load'[x].pc \in Live => load[x].pc \in Live
            /\ load[x].pc = "none" => load'[x].pc = "none"
            /\ load'[x].shutdown <=> load[x].shutdown \/ \E m \in V : slots[m].gen = x
    BY <1>2, <1>4, <1>6, <1>7 DEF Live
<1> HIDE DEF V
<1>10. QED
    BY <1>2, <1>3, <1>7, <1>8, <1>9, SlotsGo

LEMMA DropGuardShape == \A g \in Requests : Shape /\ DropGuard(g) => Shape'
<1> SUFFICES ASSUME NEW g \in Requests, Shape, DropGuard(g) PROVE Shape'
    OBVIOUS
<1> DEFINE l == [load[g] EXCEPT !.pc = "gone"]
           m == load[g].model
<1>1. /\ load[g] \in LoadRecord /\ Stage(load[g]) /\ load[g].pc = "closing" /\ m \in Models
      /\ load' = [load EXCEPT ![g] = l] /\ request' = request
    BY ModelKnown DEF Shape, SlotTypes, Stages, DropGuard
<1>2. /\ l \in LoadRecord /\ l.model = load[g].model /\ l.installer = load[g].installer
      /\ (l.shutdown <=> load[g].shutdown) /\ l.result = load[g].result /\ l.pc = "gone"
    BY <1>1 DEF LoadRecord
<1>3. Stage(l)
    BY <1>1 DEF Stage, LoadRecord
<1> HIDE DEF l
<1>4. CASE Stale(g)
    <2>1. slots' = [slots EXCEPT ![m] = Nobody] /\ slots[m].gen = g
        BY <1>4 DEF DropGuard, Stale
    <2>2. {m} \in SUBSET ReadyModels /\ slots' = [x \in Models |-> IF x \in {m} THEN Nobody ELSE slots[x]]
        <3>1. g # "none"
            BY ManagerAssumption
        <3>2. slots[m].state = "Ready"
            BY <1>1, <2>1, <3>1 DEF Shape, SlotsOwned
        <3>3. QED
            BY <1>1, <2>1, <3>2 DEF Shape, SlotTypes, ReadyModels
    <2>3. /\ load' \in [Requests -> LoadRecord] /\ load'[g] = l
          /\ \A x \in Requests : x # g => load'[x] = load[x]
        BY <1>1, <1>2 DEF Shape, SlotTypes
    <2>4. Stages'
        BY <1>3, <2>3 DEF Shape, Stages
    <2>5. \A x \in Requests :
            /\ load'[x].model = load[x].model /\ load'[x].installer = load[x].installer
            /\ load'[x].result = load[x].result
            /\ load'[x].pc \in Live => load[x].pc \in Live
            /\ load[x].pc = "none" => load'[x].pc = "none"
            /\ load'[x].shutdown <=> load[x].shutdown
        BY <1>1, <1>2, <2>3 DEF Live
    <2>6. \A x \in Requests : (\E n \in {m} : slots[n].gen = x) => load'[x].pc \notin Live
        BY <1>2, <2>1, <2>3 DEF Live
    <2>7. QED
        BY <1>1, <2>2, <2>3, <2>4, <2>5, <2>6, SlotsGo
<1>5. CASE ~Stale(g)
    <2>1. slots' = slots /\ l.pc \notin Live
        BY <1>2, <1>5 DEF DropGuard, Live
    <2>2. QED
        BY <1>1, <1>2, <1>3, <2>1, LoadMoves
<1>6. QED
    BY <1>4, <1>5

LEMMA GetAbsentShape == \A r \in Requests, m \in Models : Shape /\ GetAbsent(r, m) => Shape'
<1> SUFFICES ASSUME NEW r \in Requests, NEW m \in Models, Shape, GetAbsent(r, m) PROVE Shape'
    OBVIOUS
<1>1. PICK V \in SUBSET ReadyModels :
         /\ slots' = [x \in Models |-> IF x = m THEN Loading(r) ELSE IF x \in V THEN Nobody ELSE slots[x]]
         /\ load' = [Flagged(V) EXCEPT ![r] = Spawned(m)]
    BY DEF GetAbsent, EvictedFor
<1>2. /\ request[r].at = "idle" /\ slots[m].state = "None"
      /\ request' = [request EXCEPT ![r].at = "waiting"]
    BY DEF GetAbsent
<1> DEFINE F == Flagged(V)
<1>3. /\ F \in [Requests -> LoadRecord]
      /\ \A x \in Requests :
            /\ Stage(F[x])
            /\ F[x].model = load[x].model /\ F[x].installer = load[x].installer
            /\ F[x].result = load[x].result /\ F[x].pc = load[x].pc
            /\ F[x].shutdown <=> load[x].shutdown \/ \E n \in V : slots[n].gen = x
    BY FlagsRaised
<1> HIDE DEF F
<1>4. V \subseteq Models /\ m \notin V /\ \A n \in V : slots[n].state = "Ready"
    BY <1>2 DEF ReadyModels
<1>5. /\ Spawned(m) \in LoadRecord /\ Stage(Spawned(m))
      /\ Spawned(m).model = m /\ Spawned(m).pc = "spawned" /\ Spawned(m).installer = "waiting"
      /\ Spawned(m).result = "none"
    <2>1. m # "none"
        BY ManagerAssumption
    <2>2. QED
        BY <2>1 DEF Spawned, NotStarted, LoadRecord, Stage
<1>6. /\ load' \in [Requests -> LoadRecord] /\ load'[r] = Spawned(m)
      /\ \A x \in Requests : x # r => load'[x] = F[x]
    BY <1>1, <1>3, <1>5 DEF F
<1>7. /\ slots'[m] = Loading(r)
      /\ \A x \in V : slots'[x] = Nobody
      /\ \A x \in Models : x # m /\ x \notin V => slots'[x] = slots[x]
    BY <1>1, <1>4
<1>8. /\ slots'[m].state = "Loading" /\ slots'[m].gen = "none" /\ slots'[m].waiters = {r}
      /\ \A x \in V : slots'[x].state = "None" /\ slots'[x].gen = "none" /\ slots'[x].waiters = {}
    BY <1>7 DEF Loading, Nobody
<1>9. \A x \in Requests : request'[x].at = IF x = r THEN "waiting" ELSE request[x].at
    BY <1>2 DEF Shape, SlotTypes
<1>10. load[r].pc = "none" /\ load[r].installer = "none"
    BY <1>2 DEF Shape, Waiting, Stages, Stage, NotStarted
<1>11. SlotTypes'
    <2>1. slots' \in [Models -> [state : {"None", "Loading", "Ready"}, gen : Requests \cup {"none"},
                                 waiters : SUBSET Requests]]
        BY <1>1 DEF Loading, Nobody, Shape, SlotTypes
    <2>2. request' \in [Requests -> [at : {"idle", "waiting", "handle", "failed", "done"},
                                     gen : Requests \cup {"none"}]]
        BY <1>2 DEF Shape, SlotTypes
    <2>3. QED
        BY <1>6, <2>1, <2>2 DEF SlotTypes
<1>12. Stages'
    BY <1>3, <1>5, <1>6 DEF Stages
<1>13. SlotsOwned'
    <2>1. ASSUME NEW x \in Models, slots'[x].state = "Ready"
          PROVE  /\ load'[slots'[x].gen].model = x /\ load'[slots'[x].gen].installer = "done"
                 /\ load'[slots'[x].gen].result = "ok" /\ ~load'[slots'[x].gen].shutdown
        <3>1. x # m /\ x \notin V /\ slots'[x] = slots[x]
            BY <1>7, <1>8, <2>1
        <3> DEFINE h == slots[x].gen
        <3>2. /\ h \in Requests /\ load[h].model = x /\ load[h].installer = "done"
              /\ load[h].result = "ok" /\ ~load[h].shutdown
            BY <2>1, <3>1 DEF Shape, SlotTypes, SlotsOwned
        <3>3. h # r /\ \A n \in V : slots[n].gen # h
            BY <1>4, <1>10, <3>1, <3>2 DEF Shape, SlotsOwned
        <3>4. QED
            BY <1>3, <1>6, <3>1, <3>2, <3>3
    <2>2. \A x \in Models : slots'[x].state = "Ready" <=> slots'[x].gen # "none"
        BY <1>7, <1>8 DEF Shape, SlotsOwned
    <2>3. ASSUME NEW x \in Models, NEW y \in slots'[x].waiters
          PROVE  slots'[x].state = "Loading" /\ request'[y].at = "waiting"
        <3>1. CASE x = m \/ x \in V
            BY <1>8, <1>9, <2>3, <3>1
        <3>2. CASE x # m /\ x \notin V
            <4>1. slots'[x] = slots[x] /\ y \in Requests
                BY <1>7, <3>2 DEF Shape, SlotTypes
            <4>2. slots[x].state = "Loading" /\ request[y].at = "waiting"
                BY <2>3, <4>1 DEF Shape, SlotsOwned
            <4>3. QED
                BY <1>9, <4>1, <4>2
        <3>3. QED
            BY <3>1, <3>2
    <2>4. QED
        BY <2>1, <2>2, <2>3 DEF SlotsOwned
<1>14. SlotsLoading'
    <2>1. \A x \in Requests : x # r => (InFlight(x)' <=> InFlight(x)) /\ load'[x].model = load[x].model
        BY <1>3, <1>6 DEF InFlight
    <2>2. InFlight(r)' /\ ~InFlight(r) /\ load'[r].model = m
        BY <1>5, <1>6, <1>10 DEF InFlight
    <2>3. \A x \in Requests : InFlight(x) => /\ load[x].model \in Models
                                             /\ slots[load[x].model].state = "Loading"
                                             /\ load[x].model # m /\ load[x].model \notin V
        BY <1>2, <1>4, ModelKnown DEF Shape, SlotsLoading
    <2>4. \A x \in Requests : InFlight(x)' => slots'[load'[x].model].state = "Loading"
        BY <1>7, <1>8, <2>1, <2>2, <2>3
    <2>5. \A x, y \in Requests : InFlight(x)' /\ InFlight(y)' /\ load'[x].model = load'[y].model => x = y
        BY <2>1, <2>2, <2>3 DEF Shape, SlotsLoading
    <2>6. ASSUME NEW n \in Models, slots'[n].state = "Loading"
          PROVE  \E x \in Requests : InFlight(x)' /\ load'[x].model = n
        <3>1. CASE n = m
            BY <2>2, <3>1
        <3>2. CASE n # m
            <4>1. slots[n].state = "Loading"
                BY <1>7, <1>8, <2>6, <3>2
            <4>2. PICK x \in Requests : InFlight(x) /\ load[x].model = n
                BY <4>1 DEF Shape, SlotsLoading
            <4>3. QED
                BY <2>1, <2>2, <4>2
        <3>3. QED
            BY <3>1, <3>2
    <2>7. QED
        BY <2>4, <2>5, <2>6 DEF SlotsLoading
<1>15. Waiting'
    <2>1. \A x \in Requests : request'[x].at = "idle" => load'[x].pc = "none"
        BY <1>3, <1>6, <1>9 DEF Shape, Waiting
    <2>2. ASSUME NEW x \in Requests, request'[x].at = "waiting"
          PROVE  \E n \in Models : slots'[n].state = "Loading" /\ x \in slots'[n].waiters
        <3>1. CASE x = r
            BY <1>8, <3>1
        <3>2. CASE x # r
            <4>1. PICK n \in Models : slots[n].state = "Loading" /\ x \in slots[n].waiters
                BY <1>9, <2>2, <3>2 DEF Shape, Waiting
            <4>2. QED
                BY <1>2, <1>4, <1>7, <4>1
        <3>3. QED
            BY <3>1, <3>2
    <2>3. ASSUME NEW k \in Models, NEW n \in Models, NEW x \in Requests,
                 x \in slots'[k].waiters, x \in slots'[n].waiters
          PROVE  k = n
        <3>1. \A y \in Models : r \notin slots[y].waiters
            BY <1>2 DEF Shape, SlotsOwned
        <3>2. \A y \in Models : slots'[y].waiters \in {{r}, {}, slots[y].waiters}
                                /\ (y # m => slots'[y].waiters \in {{}, slots[y].waiters})
            BY <1>7, <1>8
        <3>3. CASE x = r
            <4>1. \A y \in Models : y # m => x \notin slots'[y].waiters
                BY <3>1, <3>2, <3>3
            <4>2. QED
                BY <2>3, <4>1
        <3>4. CASE x # r
            <4>1. x \in slots[k].waiters /\ x \in slots[n].waiters
                BY <2>3, <3>2, <3>4
            <4>2. QED
                BY <4>1 DEF Shape, Waiting
        <3>5. QED
            BY <3>3, <3>4
    <2>4. QED
        BY <2>1, <2>2, <2>3 DEF Waiting
<1>16. Told'
    <2> SUFFICES ASSUME NEW x \in Requests, load'[x].installer = "done", load'[x].pc \in Live,
                        ~load'[x].shutdown
                 PROVE  slots'[load'[x].model].gen = x
        BY DEF Told
    <2>1. x # r
        BY <1>5, <1>6
    <2>2. load[x].installer = "done" /\ load[x].pc \in Live /\ ~load[x].shutdown
          /\ load'[x].model = load[x].model /\ (\A n \in V : slots[n].gen # x)
        BY <1>3, <1>6, <2>1
    <2>3. slots[load[x].model].gen = x /\ load[x].model \in Models
        BY <2>2, ModelKnown DEF Shape, Told
    <2>4. load[x].model # m
        <3>1. slots[m].gen = "none" /\ x # "none"
            BY <1>2, ManagerAssumption DEF Shape, SlotsOwned
        <3>2. QED
            BY <2>3, <3>1
    <2>5. QED
        BY <1>7, <2>2, <2>3, <2>4
<1>17. QED
    BY <1>11, <1>12, <1>13, <1>14, <1>15, <1>16 DEF Shape

-----------------------------------------------------------------------------
(* Steps of the installer.                                                 *)

LEMMA InstallerMoves ==
    ASSUME Shape, NEW g \in Requests, NEW l \in LoadRecord, Stage(l),
           load' = [load EXCEPT ![g] = l], l.model = load[g].model, l.pc = load[g].pc,
           l.result = load[g].result, load[g].installer \notin {"none", "done"},
           l.installer \in {"waiting", "alive", "dead"} <=> InFlight(g),
           l.installer = "done" => l.shutdown,
           slots' = slots, request' = request
    PROVE  Shape'
<1>1. load' \in [Requests -> LoadRecord] /\ load'[g] = l /\ \A x \in Requests : x # g => load'[x] = load[x]
    BY DEF Shape, SlotTypes
<1>2. SlotTypes' /\ Stages'
    BY <1>1 DEF Shape, SlotTypes, Stages
<1>3. \A x \in Requests : /\ load'[x].model = load[x].model /\ load'[x].pc = load[x].pc
                          /\ InFlight(x)' <=> InFlight(x)
    BY <1>1 DEF InFlight
<1>4. SlotsOwned'
    <2>1. \A m \in Models : slots[m].state = "Ready" => slots[m].gen \in Requests /\ slots[m].gen # g
        BY DEF Shape, SlotTypes, SlotsOwned
    <2>2. QED
        BY <1>1, <2>1 DEF Shape, SlotsOwned
<1>5. SlotsLoading'
    BY <1>3 DEF Shape, SlotsLoading
<1>6. Waiting'
    BY <1>3 DEF Shape, Waiting
<1>7. Told'
    BY <1>1 DEF Shape, Told
<1>8. QED
    BY <1>2, <1>4, <1>5, <1>6, <1>7 DEF Shape

LEMMA InstallerWakesShape == \A g \in Requests : Shape /\ InstallerWakes(g) => Shape'
<1> SUFFICES ASSUME NEW g \in Requests, Shape, InstallerWakes(g) PROVE Shape'
    OBVIOUS
<1> DEFINE l == [load[g] EXCEPT !.installer = IF load[g].pc \in {"closing", "gone"} THEN "dead" ELSE "alive"]
<1>1. /\ load[g] \in LoadRecord /\ Stage(load[g])
      /\ load[g].installer = "waiting" /\ load[g].result = "ok"
    BY DEF Shape, SlotTypes, Stages, InstallerWakes
<1>2. load' = [load EXCEPT ![g] = l] /\ slots' = slots /\ request' = request
    BY DEF InstallerWakes, Shape, SlotTypes
<1>3. /\ l \in LoadRecord /\ l.model = load[g].model /\ l.pc = load[g].pc /\ l.result = load[g].result
      /\ (l.shutdown <=> load[g].shutdown) /\ l.installer \in {"alive", "dead"}
      /\ InFlight(g)
    BY <1>1 DEF LoadRecord, InFlight
<1>4. Stage(l)
    BY <1>1 DEF LoadRecord, Stage, NotStarted
<1> HIDE DEF l
<1>5. QED
    BY <1>1, <1>2, <1>3, <1>4, InstallerMoves

LEMMA UnloadShape == \A g \in Requests : Shape /\ Unload(g) => Shape'
<1> SUFFICES ASSUME NEW g \in Requests, Shape, Unload(g) PROVE Shape'
    OBVIOUS
<1> DEFINE l == [load[g] EXCEPT !.installer = "done", !.shutdown = TRUE]
<1>1. load[g] \in LoadRecord /\ Stage(load[g]) /\ load[g].installer = "unloading"
    BY DEF Shape, SlotTypes, Stages, Unload
<1>2. load' = [load EXCEPT ![g] = l] /\ slots' = slots /\ request' = request
    BY DEF Unload, Shape, SlotTypes
<1>3. /\ l \in LoadRecord /\ l.model = load[g].model /\ l.pc = load[g].pc /\ l.result = load[g].result
      /\ l.shutdown /\ l.installer = "done" /\ ~InFlight(g)
    BY <1>1 DEF LoadRecord, InFlight
<1>4. Stage(l)
    BY <1>1 DEF LoadRecord, Stage, NotStarted
<1> HIDE DEF l
<1>5. QED
    BY <1>1, <1>2, <1>3, <1>4, InstallerMoves

\* The answer to everyone on the list of a load, which then has no slot, or a
\* Ready one.
LEMMA LoadAnswers ==
    ASSUME Shape, NEW g \in Requests, InFlight(g), NEW l \in LoadRecord, Stage(l),
           load' = [load EXCEPT ![g] = l], l.model = load[g].model, l.pc = load[g].pc,
           l.result = load[g].result, l.installer \in {"done", "unloading"}, ~l.shutdown,
           NEW slot \in {Nobody, Ready(g)}, slots' = [slots EXCEPT ![load[g].model] = slot],
           slot = Ready(g) => l.installer = "done" /\ l.result = "ok",
           l.installer = "done" /\ l.pc \in Live => slot = Ready(g),
           NEW at \in {"handle", "failed"}, NEW h \in Requests \cup {"none"},
           request' = Answered(load[g].model, at, h)
    PROVE  Shape'
<1> DEFINE m == load[g].model
<1>1. /\ load' \in [Requests -> LoadRecord] /\ load'[g] = l
      /\ \A x \in Requests : x # g => load'[x] = load[x]
    BY DEF Shape, SlotTypes
<1>2. m \in Models /\ slots[m].state = "Loading" /\ slots[m].gen = "none"
    BY ModelKnown DEF Shape, SlotsLoading, SlotsOwned
<1>3. slots'[m] = slot /\ \A x \in Models : x # m => slots'[x] = slots[x]
    BY <1>2 DEF Shape, SlotTypes
<1>4. /\ slot \in [state : {"None", "Loading", "Ready"}, gen : Requests \cup {"none"},
                   waiters : SUBSET Requests]
      /\ slot.waiters = {} /\ slot.state \in {"None", "Ready"}
      /\ slot.state = "Ready" <=> slot = Ready(g)
      /\ slot.state = "Ready" <=> slot.gen # "none"
      /\ slot.state = "Ready" => slot.gen = g
    <2>1. g # "none"
        BY ManagerAssumption
    <2>2. QED
        BY <2>1 DEF Nobody, Ready
<1>5. /\ request' \in [Requests -> [at : {"idle", "waiting", "handle", "failed", "done"},
                                    gen : Requests \cup {"none"}]]
      /\ \A x \in Requests : request'[x].at = IF x \in slots[m].waiters THEN at ELSE request[x].at
    BY DEF Answered, Shape, SlotTypes
<1> HIDE DEF m
<1>6. SlotTypes'
    <2>1. slots' \in [Models -> [state : {"None", "Loading", "Ready"}, gen : Requests \cup {"none"},
                                 waiters : SUBSET Requests]]
        BY <1>2, <1>4 DEF Shape, SlotTypes, m
    <2>2. QED
        BY <1>1, <1>5, <2>1 DEF SlotTypes
<1>7. Stages'
    BY <1>1 DEF Shape, Stages
<1>8. SlotsOwned'
    <2>1. ASSUME NEW x \in Models, slots'[x].state = "Ready"
          PROVE  /\ load'[slots'[x].gen].model = x /\ load'[slots'[x].gen].installer = "done"
                 /\ load'[slots'[x].gen].result = "ok" /\ ~load'[slots'[x].gen].shutdown
        <3>1. CASE x = m
            BY <1>1, <1>3, <1>4, <2>1, <3>1 DEF m
        <3>2. CASE x # m
            <4>1. slots'[x] = slots[x] /\ slots[x].gen \in Requests /\ load[slots[x].gen].installer = "done"
                BY <1>3, <2>1, <3>2 DEF Shape, SlotTypes, SlotsOwned
            <4>2. slots[x].gen # g
                BY <4>1 DEF InFlight
            <4>3. QED
                BY <1>1, <2>1, <4>1, <4>2 DEF Shape, SlotsOwned
        <3>3. QED
            BY <3>1, <3>2
    <2>2. \A x \in Models : slots'[x].state = "Ready" <=> slots'[x].gen # "none"
        BY <1>3, <1>4 DEF Shape, SlotsOwned
    <2>3. ASSUME NEW x \in Models, NEW y \in slots'[x].waiters
          PROVE  slots'[x].state = "Loading" /\ request'[y].at = "waiting"
        <3>1. x # m /\ slots'[x] = slots[x] /\ y \in slots[x].waiters /\ y \in Requests
            BY <1>3, <1>4, <2>3 DEF Shape, SlotTypes
        <3>2. slots[x].state = "Loading" /\ request[y].at = "waiting"
            BY <3>1 DEF Shape, SlotsOwned
        <3>3. y \notin slots[m].waiters
            BY <1>2, <3>1 DEF Shape, Waiting
        <3>4. QED
            BY <1>5, <3>1, <3>2, <3>3
    <2>4. QED
        BY <2>1, <2>2, <2>3 DEF SlotsOwned
<1>9. SlotsLoading'
    <2>1. ~InFlight(g)' /\ \A x \in Requests : x # g => (InFlight(x)' <=> InFlight(x))
        BY <1>1 DEF InFlight
    <2>2. \A x \in Requests : load'[x].model = load[x].model
        BY <1>1
    <2>3. \A x \in Requests : InFlight(x) /\ x # g => /\ load[x].model \in Models /\ load[x].model # m
                                                      /\ slots[load[x].model].state = "Loading"
        BY ModelKnown DEF Shape, SlotsLoading, m
    <2>4. \A x \in Requests : InFlight(x)' => slots'[load'[x].model].state = "Loading"
        BY <1>3, <2>1, <2>2, <2>3
    <2>5. \A x, y \in Requests : InFlight(x)' /\ InFlight(y)' /\ load'[x].model = load'[y].model => x = y
        BY <2>1, <2>2 DEF Shape, SlotsLoading
    <2>6. ASSUME NEW n \in Models, slots'[n].state = "Loading"
          PROVE  \E x \in Requests : InFlight(x)' /\ load'[x].model = n
        <3>1. n # m /\ slots[n].state = "Loading"
            BY <1>3, <1>4, <2>6
        <3>2. PICK x \in Requests : InFlight(x) /\ load[x].model = n
            BY <3>1 DEF Shape, SlotsLoading
        <3>3. QED
            BY <2>1, <2>2, <3>1, <3>2 DEF m
    <2>7. QED
        BY <2>4, <2>5, <2>6 DEF SlotsLoading
<1>10. Waiting'
    <2>1. \A x \in Requests : request'[x].at = "idle" => load'[x].pc = "none"
        BY <1>1, <1>5 DEF Shape, Waiting
    <2>2. ASSUME NEW x \in Requests, request'[x].at = "waiting"
          PROVE  \E n \in Models : slots'[n].state = "Loading" /\ x \in slots'[n].waiters
        <3>1. x \notin slots[m].waiters /\ request[x].at = "waiting"
            BY <1>5, <2>2
        <3>2. PICK n \in Models : slots[n].state = "Loading" /\ x \in slots[n].waiters
            BY <3>1 DEF Shape, Waiting
        <3>3. QED
            BY <1>3, <3>1, <3>2
    <2>3. \A k, n \in Models : \A x \in Requests :
             x \in slots'[k].waiters /\ x \in slots'[n].waiters => k = n
        <3>1. \A n \in Models : \A x \in slots'[n].waiters : x \in slots[n].waiters
            BY <1>3, <1>4
        <3>2. QED
            BY <3>1 DEF Shape, Waiting
    <2>4. QED
        BY <2>1, <2>2, <2>3 DEF Waiting
<1>11. Told'
    <2> SUFFICES ASSUME NEW x \in Requests, load'[x].installer = "done", load'[x].pc \in Live,
                        ~load'[x].shutdown
                 PROVE  slots'[load'[x].model].gen = x
        BY DEF Told
    <2>1. CASE x = g
        BY <1>1, <1>3, <1>4, <2>1 DEF m
    <2>2. CASE x # g
        <3>1. slots[load[x].model].gen = x /\ load[x].model \in Models /\ load'[x] = load[x]
            BY <1>1, <2>2, ModelKnown DEF Shape, Told
        <3>2. load[x].model # m
            BY <1>2, <3>1, ManagerAssumption
        <3>3. QED
            BY <1>3, <3>1, <3>2
    <2>3. QED
        BY <2>1, <2>2
<1>12. QED
    BY <1>6, <1>7, <1>8, <1>9, <1>10, <1>11 DEF Shape

LEMMA InstallDeadShape == \A g \in Requests : Shape /\ InstallDead(g) => Shape'
<1> SUFFICES ASSUME NEW g \in Requests, Shape, InstallDead(g) PROVE Shape'
    OBVIOUS
<1> DEFINE l == [load[g] EXCEPT !.installer = "done"]
<1>1. /\ load[g] \in LoadRecord /\ Stage(load[g])
      /\ load[g].installer = "dead" /\ load[g].result = "ok"
    BY DEF Shape, SlotTypes, Stages, Stage, InstallDead
<1>2. /\ load' = [load EXCEPT ![g] = l] /\ slots' = [slots EXCEPT ![load[g].model] = Nobody]
      /\ request' = Answered(load[g].model, "failed", "none")
    BY DEF InstallDead, Shape, SlotTypes
<1>3. /\ l \in LoadRecord /\ l.model = load[g].model /\ l.pc = load[g].pc /\ l.result = load[g].result
      /\ (l.shutdown <=> load[g].shutdown) /\ l.installer = "done" /\ InFlight(g)
    BY <1>1 DEF LoadRecord, InFlight
<1>4. Stage(l) /\ (l.installer = "done" => l.pc \notin Live)
    BY <1>1 DEF LoadRecord, Stage, NotStarted, Live
<1>5. ~l.shutdown
    BY <1>1, <1>3 DEF Stage
<1> HIDE DEF l
<1>6. Nobody # Ready(g)
    BY DEF Nobody, Ready
<1>7. QED
    BY <1>1, <1>2, <1>3, <1>4, <1>5, <1>6, LoadAnswers

LEMMA InstallReadyShape == \A g \in Requests : Shape /\ InstallReady(g) => Shape'
<1> SUFFICES ASSUME NEW g \in Requests, Shape, InstallReady(g) PROVE Shape'
    OBVIOUS
<1> DEFINE l == [load[g] EXCEPT !.installer = "done"]
<1>1. /\ load[g] \in LoadRecord /\ Stage(load[g])
      /\ load[g].installer = "alive" /\ load[g].result = "ok"
    BY DEF Shape, SlotTypes, Stages, Stage, InstallReady
<1>2. /\ load' = [load EXCEPT ![g] = l] /\ slots' = [slots EXCEPT ![load[g].model] = Ready(g)]
      /\ request' = Answered(load[g].model, "handle", g)
    BY DEF InstallReady, Shape, SlotTypes
<1>3. /\ l \in LoadRecord /\ l.model = load[g].model /\ l.pc = load[g].pc /\ l.result = load[g].result
      /\ (l.shutdown <=> load[g].shutdown) /\ l.installer = "done" /\ InFlight(g)
    BY <1>1 DEF LoadRecord, InFlight
<1>4. Stage(l)
    BY <1>1 DEF LoadRecord, Stage, NotStarted, Live
<1>5. ~l.shutdown
    BY <1>1, <1>3 DEF Stage
<1> HIDE DEF l
<1>6. Nobody # Ready(g)
    BY DEF Nobody, Ready
<1>7. QED
    BY <1>1, <1>2, <1>3, <1>4, <1>5, <1>6, LoadAnswers

LEMMA InstallOverBudgetShape == \A g \in Requests : Shape /\ InstallOverBudget(g) => Shape'
<1> SUFFICES ASSUME NEW g \in Requests, Shape, InstallOverBudget(g) PROVE Shape'
    OBVIOUS
<1> DEFINE l == [load[g] EXCEPT !.installer = "unloading"]
<1>1. /\ load[g] \in LoadRecord /\ Stage(load[g])
      /\ load[g].installer = "alive" /\ load[g].result = "ok"
    BY DEF Shape, SlotTypes, Stages, Stage, InstallOverBudget
<1>2. /\ load' = [load EXCEPT ![g] = l] /\ slots' = [slots EXCEPT ![load[g].model] = Nobody]
      /\ request' = Answered(load[g].model, "failed", "none")
    BY DEF InstallOverBudget, Shape, SlotTypes
<1>3. /\ l \in LoadRecord /\ l.model = load[g].model /\ l.pc = load[g].pc /\ l.result = load[g].result
      /\ (l.shutdown <=> load[g].shutdown) /\ l.installer = "unloading" /\ InFlight(g)
    BY <1>1 DEF LoadRecord, InFlight
<1>4. Stage(l) /\ (l.installer = "done" => l.pc \notin Live)
    BY <1>1 DEF LoadRecord, Stage, NotStarted, Live
<1>5. ~l.shutdown
    BY <1>1, <1>3 DEF Stage
<1> HIDE DEF l
<1>6. Nobody # Ready(g)
    BY DEF Nobody, Ready
<1>7. QED
    BY <1>1, <1>2, <1>3, <1>4, <1>5, <1>6, LoadAnswers

LEMMA InstallFailedShape == \A g \in Requests : Shape /\ InstallFailed(g) => Shape'
<1> SUFFICES ASSUME NEW g \in Requests, Shape, InstallFailed(g) PROVE Shape'
    OBVIOUS
<1> DEFINE l == [load[g] EXCEPT !.installer = "done"]
<1>1. /\ load[g] \in LoadRecord /\ Stage(load[g])
      /\ load[g].installer = "waiting" /\ load[g].result \in {"err", "dropped"}
    BY DEF Shape, SlotTypes, Stages, Stage, InstallFailed, Unsuccessful
<1>2. /\ load' = [load EXCEPT ![g] = l] /\ slots' = [slots EXCEPT ![load[g].model] = Nobody]
      /\ request' = Answered(load[g].model, "failed", "none")
    BY DEF InstallFailed, Shape, SlotTypes
<1>3. /\ l \in LoadRecord /\ l.model = load[g].model /\ l.pc = load[g].pc /\ l.result = load[g].result
      /\ (l.shutdown <=> load[g].shutdown) /\ l.installer = "done" /\ InFlight(g)
    BY <1>1 DEF LoadRecord, InFlight
<1>4. Stage(l) /\ (l.installer = "done" => l.pc \notin Live)
    BY <1>1 DEF LoadRecord, Stage, NotStarted, Live
<1>5. ~l.shutdown
    BY <1>1, <1>3 DEF Stage
<1> HIDE DEF l
<1>6. Nobody # Ready(g)
    BY DEF Nobody, Ready
<1>7. QED
    BY <1>1, <1>2, <1>3, <1>4, <1>5, <1>6, LoadAnswers

-----------------------------------------------------------------------------
(* The KV budget where slots come and go.                                  *)

\* Nothing charged, nothing given back.
LEMMA BudgetStays ==
    ASSUME Budget, BudgetAccounted, \A x \in Requests : Owes(x)' = Owes(x),
           allocated_bytes' = allocated_bytes, lost' = lost
    PROVE  Budget' /\ BudgetAccounted'
<1>1. Budget'
    BY DEF Budget
<1>2. [x \in Requests |-> Owes(x)'] = [x \in Requests |-> Owes(x)]
    OBVIOUS
<1>3. BudgetAccounted'
    BY <1>2 DEF BudgetAccounted
<1>4. QED
    BY <1>1, <1>3

\* An engine has one slot, its model's, and is not in flight any more.
LEMMA SlotUnique ==
    ASSUME Shape, NEW m \in Models, NEW x \in Requests, slots[m].gen = x
    PROVE  /\ m \in ReadyModels /\ load[x].model = m /\ load[x].installer = "done"
           /\ load[x].result = "ok" /\ ~load[x].shutdown /\ ~InFlight(x)
           /\ \A n \in Models : slots[n].gen = x => n = m
<1>1. x # "none"
    BY ManagerAssumption
<1>2. \A n \in Models : slots[n].gen = x => slots[n].state = "Ready" /\ load[x].model = n
                          /\ load[x].installer = "done" /\ load[x].result = "ok" /\ ~load[x].shutdown
    BY <1>1 DEF Shape, SlotsOwned
<1>3. QED
    BY <1>2 DEF ReadyModels, InFlight

\* A Ready slot has an engine.
LEMMA ReadyHasEngine ==
    ASSUME Shape, NEW m \in ReadyModels
    PROVE  /\ m \in Models /\ slots[m].gen \in Requests /\ KvHeld[m] \in Nat
           /\ KvHeld[m] = load[slots[m].gen].kv_cache_bytes /\ load[slots[m].gen].result = "ok"
<1>1. m \in Models /\ slots[m].state = "Ready" /\ slots[m].gen \in Requests /\ load[slots[m].gen].result = "ok"
    BY DEF ReadyModels, Shape, SlotTypes, SlotsOwned
<1>2. KvHeld[m] = load[slots[m].gen].kv_cache_bytes
    BY <1>1 DEF KvHeld
<1>3. QED
    BY <1>1, <1>2, OwesIsNat

\* Ready slots go, and exactly what their engines held is given back.
LEMMA EvictAccounts ==
    ASSUME Shape, Shape', Budget, BudgetAccounted, NEW V \in SUBSET ReadyModels,
           \A m \in Models : slots'[m].gen = IF m \in V THEN "none" ELSE slots[m].gen,
           \A x \in Requests :
              /\ load'[x].held = load[x].held /\ load'[x].draft = load[x].draft
              /\ load'[x].kv_cache_bytes = load[x].kv_cache_bytes
              /\ load'[x].result = load[x].result
              /\ load[x].result = "ok" => load'[x].installer = load[x].installer,
           allocated_bytes' = Released(KvBytes(V)), lost' = lost
    PROVE  Budget' /\ BudgetAccounted'
<1> DEFINE E == {x \in Requests : \E m \in V : slots[m].gen = x}
           f == [m \in Models |-> slots[m].gen]
           v == [x \in Requests |-> IF x \in E THEN load[x].kv_cache_bytes ELSE 0]
<1>1. /\ V \subseteq Models /\ IsFiniteSet(V) /\ IsFiniteSet(Requests) /\ IsFiniteSet(Models)
      /\ \A x \in Requests : x # "none"
    <2>1. IsFiniteSet(Models) /\ IsFiniteSet(Requests) /\ \A x \in Requests : x # "none"
        BY ManagerAssumption
    <2>2. V \subseteq Models
        BY DEF ReadyModels
    <2>3. QED
        BY <2>1, <2>2, FS_Subset
<1>2. ASSUME NEW x \in E
      PROVE  load[x].result = "ok" /\ Claimed(x) /\ ~Claimed(x)'
    <2>1. PICK m \in V : slots[m].gen = x
        OBVIOUS
    <2>2. x \in Requests /\ m \in Models
        BY <1>1
    <2>3. load[x].result = "ok" /\ ~InFlight(x) /\ \A n \in Models : slots[n].gen = x => n = m
        BY <2>1, <2>2, SlotUnique
    <2>4. Claimed(x)
        BY <2>1, <2>2 DEF Claimed
    <2>5. ~InFlight(x)'
        BY <2>2, <2>3 DEF InFlight
    <2>6. \A n \in Models : slots'[n].gen # x
        BY <1>1, <2>2, <2>3
    <2>7. QED
        BY <2>3, <2>4, <2>5, <2>6 DEF Claimed
<1>3. ASSUME NEW x \in Requests \ E, load[x].result = "ok"
      PROVE  Claimed(x)' <=> Claimed(x)
    <2>1. InFlight(x)' <=> InFlight(x)
        BY <1>3 DEF InFlight
    <2>2. \A n \in Models : slots'[n].gen = x <=> slots[n].gen = x
        BY <1>1
    <2>3. QED
        BY <2>1, <2>2 DEF Claimed
<1>4. \A x \in Requests : /\ Owed[x] = Owes(x) /\ Owed[x] \in Nat /\ load[x].kv_cache_bytes \in Nat
                          /\ load[x].held \in Nat /\ load[x].draft \in Nat
    BY OwesIsNat, OwedSum
<1>5. \A x \in Requests : Owed'[x] = load[x].held + load[x].draft
                          + IF load[x].result = "ok" /\ Claimed(x)' THEN load[x].kv_cache_bytes ELSE 0
    BY DEF Owed, Owes, Claimed
<1>6. \A x \in Requests : Owed[x] = load[x].held + load[x].draft
                          + IF load[x].result = "ok" /\ Claimed(x) THEN load[x].kv_cache_bytes ELSE 0
    BY <1>4, OwesIsNat
<1>7. \A x \in Requests : v[x] = IF x \in E THEN load[x].kv_cache_bytes ELSE 0
    OBVIOUS
<1> HIDE DEF v, E
<1>8. \A x \in Requests : Owed'[x] \in Nat /\ v[x] \in Nat /\ Owed[x] = Owed'[x] + v[x]
    <2>1. ASSUME NEW x \in Requests, x \in E
          PROVE  Owed'[x] \in Nat /\ v[x] \in Nat /\ Owed[x] = Owed'[x] + v[x]
        BY <1>2, <1>4, <1>5, <1>6, <1>7, <2>1
    <2>2. ASSUME NEW x \in Requests, x \notin E
          PROVE  Owed'[x] \in Nat /\ v[x] \in Nat /\ Owed[x] = Owed'[x] + v[x]
        BY <1>3, <1>4, <1>5, <1>6, <1>7, <2>2
    <2>3. QED
        BY <2>1, <2>2
<1>9. SumFunctionOnSet(Owed, Requests) = SumFunctionOnSet(Owed', Requests) + SumFunctionOnSet(v, Requests)
    BY <1>1, <1>8, SumAdd
<1>10. E \in SUBSET Requests /\ E = {f[m] : m \in V}
    <2>1. \A m \in V : slots[m].gen \in Requests
        BY ReadyHasEngine
    <2>2. QED
        BY <1>1, <2>1 DEF E
<1>11. SumFunctionOnSet(v, Requests) = SumFunctionOnSet(v, E)
    <2>1. SumFunctionOnSet(v, Requests) = SumFunctionOnSet(v, E) + SumFunctionOnSet(v, Requests \ E)
        BY <1>1, <1>8, <1>10, SumSplit
    <2>2. IsFiniteSet(Requests \ E) /\ IsFiniteSet(E)
        BY <1>1, <1>10, FS_Subset
    <2>3. SumFunctionOnSet(v, Requests \ E) = 0
        BY <1>7, <2>2, SumZero
    <2>4. SumFunctionOnSet(v, E) \in Nat
        BY <1>8, <1>10, <2>2, SumRemove
    <2>5. QED
        BY <2>1, <2>3, <2>4
<1>12. KvBytes(V) = SumFunctionOnSet(v, E)
    <2>1. \A m \in V : f[m] \in Requests /\ KvHeld[m] \in Nat /\ v[f[m]] = KvHeld[m]
        <3>1. \A m \in V : f[m] = slots[m].gen /\ f[m] \in E /\ f[m] \in Requests
            BY <1>1, <1>10
        <3>2. \A m \in V : KvHeld[m] \in Nat /\ KvHeld[m] = load[slots[m].gen].kv_cache_bytes
            BY ReadyHasEngine
        <3> HIDE DEF f
        <3>3. QED
            BY <1>7, <3>1, <3>2
    <2>2. \A m, n \in V : f[m] = f[n] => m = n
        <3>1. \A m \in V : f[m] = slots[m].gen /\ f[m] \in Requests /\ m \in Models
            BY <1>1, <2>1
        <3>2. QED
            BY <3>1, SlotUnique
    <2> HIDE DEF f
    <2>3. SumFunctionOnSet(KvHeld, V) = SumFunctionOnSet(v, {f[m] : m \in V})
        BY <1>1, <2>1, <2>2, SumRenamed
    <2>4. QED
        BY <1>10, <2>3 DEF KvBytes
<1>13. /\ SumFunctionOnSet(Owed', Requests) \in Nat /\ SumFunctionOnSet(v, Requests) \in Nat
       /\ SumFunctionOnSet(Owed, Requests) \in Nat
    BY <1>1, <1>4, <1>8, SumRemove
<1>14. allocated_bytes = SumFunctionOnSet(Owed, Requests) + lost /\ lost \in Nat
    BY OwedSum DEF BudgetAccounted, Budget
<1>15. KvBytes(V) \in Nat /\ KvBytes(V) <= allocated_bytes
    BY <1>9, <1>11, <1>12, <1>13, <1>14
<1>16. allocated_bytes' = allocated_bytes - KvBytes(V) /\ allocated_bytes' \in 0 .. total_bytes
    BY <1>15, ReleasedBytes
<1>17. allocated_bytes' = SumFunctionOnSet(Owed', Requests) + lost'
    BY <1>9, <1>11, <1>12, <1>13, <1>14, <1>15, <1>16
<1>18. BudgetAccounted'
    BY <1>17 DEF BudgetAccounted, SumFunction, Owed
<1>19. Budget'
    BY <1>14, <1>16 DEF Budget
<1>20. QED
    BY <1>18, <1>19

\* One slot's bytes.
LEMMA KvBytesOne ==
    ASSUME Shape, NEW m \in ReadyModels
    PROVE  KvBytes({m}) = KvHeld[m]
<1>1. IsFiniteSet({m}) /\ KvHeld[m] \in Nat /\ {m} \ {m} = {}
    BY ReadyHasEngine, FS_Singleton
<1>2. SumFunctionOnSet(KvHeld, {m}) = KvHeld[m] + SumFunctionOnSet(KvHeld, {})
    <2>1. \A x \in {m} : KvHeld[x] \in Nat
        BY <1>1
    <2>2. \A x \in {m} : SumFunctionOnSet(KvHeld, {m}) = KvHeld[x] + SumFunctionOnSet(KvHeld, {m} \ {x})
        BY <1>1, <2>1, SumRemove
    <2>3. QED
        BY <1>1, <2>2
<1>3. SumFunctionOnSet(KvHeld, {}) = 0
    BY SumEmpty
<1>4. QED
    BY <1>1, <1>2, <1>3 DEF KvBytes

\* A loader step, or a guard, that leaves no slot its engine's changes nothing
\* the budget is charged for.
LEMMA OwesSame ==
    ASSUME Shape, Shape', \A m \in Models : slots'[m].gen = slots[m].gen,
           \A x \in Requests :
              /\ load'[x].held = load[x].held /\ load'[x].draft = load[x].draft
              /\ load'[x].kv_cache_bytes = load[x].kv_cache_bytes
              /\ load'[x].result = load[x].result
              /\ load[x].result = "ok" => (InFlight(x)' <=> InFlight(x))
    PROVE  \A x \in Requests : Owes(x)' = Owes(x)
BY DEF Owes

LEMMA GetReadyAccounts ==
    ASSUME Shape, Shape', Budget, BudgetAccounted, NEW r \in Requests, NEW m \in Models, GetReady(r, m)
    PROVE  Budget' /\ BudgetAccounted'
<1>1. \A x \in Requests : Owes(x)' = Owes(x)
    BY OwesSame DEF GetReady, InFlight
<1>2. QED
    BY <1>1, BudgetStays DEF GetReady

LEMMA GetLoadingAccounts ==
    ASSUME Shape, Shape', Budget, BudgetAccounted, NEW r \in Requests, NEW m \in Models, GetLoading(r, m)
    PROVE  Budget' /\ BudgetAccounted'
<1>1. load' = load /\ \A x \in Models : slots'[x].gen = slots[x].gen
    BY DEF GetLoading, Shape, SlotTypes
<1>2. \A x \in Requests : Owes(x)' = Owes(x)
    BY <1>1, OwesSame DEF InFlight
<1>3. QED
    BY <1>2, BudgetStays DEF GetLoading

LEMMA DropHandleAccounts ==
    ASSUME Shape, Shape', Budget, BudgetAccounted, NEW r \in Requests, DropHandle(r)
    PROVE  Budget' /\ BudgetAccounted'
<1>1. \A x \in Requests : Owes(x)' = Owes(x)
    BY OwesSame DEF DropHandle, InFlight
<1>2. QED
    BY <1>1, BudgetStays DEF DropHandle

LEMMA GetAbsentAccounts ==
    ASSUME Shape, Shape', Budget, BudgetAccounted, NEW r \in Requests, NEW m \in Models, GetAbsent(r, m)
    PROVE  Budget' /\ BudgetAccounted'
<1>1. PICK V \in SUBSET ReadyModels :
         /\ slots' = [x \in Models |-> IF x = m THEN Loading(r) ELSE IF x \in V THEN Nobody ELSE slots[x]]
         /\ load' = [Flagged(V) EXCEPT ![r] = Spawned(m)]
         /\ allocated_bytes' = Released(KvBytes(V)) /\ lost' = lost
    BY DEF GetAbsent, EvictedFor
<1>2. request[r].at = "idle" /\ slots[m].state = "None"
    BY DEF GetAbsent
<1>3. load[r] = NotStarted
    BY <1>2 DEF Shape, Waiting, Stages, Stage
<1>4. \A x \in Models : slots'[x].gen = IF x \in V THEN "none" ELSE slots[x].gen
    <2>1. slots[m].gen = "none" /\ m \notin V /\ Loading(r).gen = "none" /\ Nobody.gen = "none"
        BY <1>2 DEF Shape, SlotsOwned, ReadyModels, Loading, Nobody
    <2>2. \A x \in Models : slots'[x] = IF x = m THEN Loading(r) ELSE IF x \in V THEN Nobody ELSE slots[x]
        BY <1>1
    <2>3. QED
        BY <2>1, <2>2
<1> DEFINE F == Flagged(V)
<1>5. /\ F \in [Requests -> LoadRecord]
      /\ \A x \in Requests : /\ F[x].held = load[x].held /\ F[x].draft = load[x].draft
                             /\ F[x].kv_cache_bytes = load[x].kv_cache_bytes
                             /\ F[x].result = load[x].result /\ F[x].installer = load[x].installer
    BY FlagsRaised
<1> HIDE DEF F
<1>6. load'[r] = Spawned(m) /\ \A x \in Requests : x # r => load'[x] = F[x]
    BY <1>1, <1>5 DEF F
<1>7. /\ Spawned(m).held = NotStarted.held /\ Spawned(m).draft = NotStarted.draft
      /\ Spawned(m).kv_cache_bytes = NotStarted.kv_cache_bytes
      /\ Spawned(m).result = NotStarted.result /\ NotStarted.result = "none"
    BY DEF Spawned, NotStarted
<1>8. \A x \in Requests :
              /\ load'[x].held = load[x].held /\ load'[x].draft = load[x].draft
              /\ load'[x].kv_cache_bytes = load[x].kv_cache_bytes
              /\ load'[x].result = load[x].result
              /\ load[x].result = "ok" => load'[x].installer = load[x].installer
    BY <1>3, <1>5, <1>6, <1>7
<1>9. QED
    BY <1>1, <1>4, <1>8, EvictAccounts

LEMMA EvictExpiredAccounts ==
    ASSUME Shape, Shape', Budget, BudgetAccounted, EvictExpired
    PROVE  Budget' /\ BudgetAccounted'
<1>1. PICK V \in SUBSET ReadyModels :
         /\ slots' = [m \in Models |-> IF m \in V THEN Nobody ELSE slots[m]]
         /\ load' = Flagged(V) /\ allocated_bytes' = Released(KvBytes(V)) /\ lost' = lost
    BY DEF EvictExpired
<1>2. \A x \in Models : slots'[x].gen = IF x \in V THEN "none" ELSE slots[x].gen
    BY <1>1 DEF Nobody
<1>3. \A x \in Requests : /\ load'[x].held = load[x].held /\ load'[x].draft = load[x].draft
                          /\ load'[x].kv_cache_bytes = load[x].kv_cache_bytes
                          /\ load'[x].result = load[x].result /\ load'[x].installer = load[x].installer
    BY <1>1, FlagsRaised
<1>4. QED
    BY <1>1, <1>2, <1>3, EvictAccounts

LEMMA EvictForPoolAccounts ==
    ASSUME Shape, Shape', Budget, BudgetAccounted, NEW g \in Requests, EvictForPool(g)
    PROVE  Budget' /\ BudgetAccounted'
<1>1. PICK victim \in ReadyModels :
         /\ slots' = [slots EXCEPT ![victim] = Nobody]
         /\ load' = [Flagged({victim}) EXCEPT ![g].pc = "loading", ![g].cap = DesiredBytes,
                                              ![g].halvings = 0]
         /\ allocated_bytes' = Released(KvHeld[victim])
    BY DEF EvictForPool
<1> DEFINE V == {victim}
           F == Flagged(V)
<1>2. V \in SUBSET ReadyModels /\ \A m \in Models : slots'[m].gen = IF m \in V THEN "none" ELSE slots[m].gen
    BY <1>1 DEF Shape, SlotTypes, ReadyModels, Nobody
<1>3. /\ F \in [Requests -> LoadRecord]
      /\ \A x \in Requests : /\ F[x].held = load[x].held /\ F[x].draft = load[x].draft
                             /\ F[x].kv_cache_bytes = load[x].kv_cache_bytes
                             /\ F[x].result = load[x].result /\ F[x].installer = load[x].installer
    BY <1>2, FlagsRaised
<1>4. load' = [F EXCEPT ![g] = [F[g] EXCEPT !.pc = "loading", !.cap = DesiredBytes, !.halvings = 0]]
    BY <1>1, <1>3
<1> HIDE DEF F
<1>5. \A x \in Requests : /\ load'[x].held = F[x].held /\ load'[x].draft = F[x].draft
                          /\ load'[x].kv_cache_bytes = F[x].kv_cache_bytes
                          /\ load'[x].result = F[x].result /\ load'[x].installer = F[x].installer
    <2>1. \A x \in Requests : F[x] \in LoadRecord
        BY <1>3
    <2>2. QED
        BY <1>3, <1>4, <2>1 DEF LoadRecord
<1>6. allocated_bytes' = Released(KvBytes(V)) /\ lost' = lost
    BY <1>1, KvBytesOne DEF EvictForPool
<1> HIDE DEF V
<1>7. QED
    BY <1>2, <1>3, <1>5, <1>6, EvictAccounts

LEMMA DropGuardAccounts ==
    ASSUME Shape, Shape', Budget, BudgetAccounted, NEW g \in Requests, DropGuard(g)
    PROVE  Budget' /\ BudgetAccounted'
<1> DEFINE m == load[g].model
<1>1. /\ load' = [load EXCEPT ![g].pc = "gone"] /\ m \in Models /\ lost' = lost
    BY ModelKnown DEF DropGuard
<1>2. \A x \in Requests : /\ load'[x].held = load[x].held /\ load'[x].draft = load[x].draft
                          /\ load'[x].kv_cache_bytes = load[x].kv_cache_bytes
                          /\ load'[x].result = load[x].result /\ load'[x].installer = load[x].installer
    BY <1>1 DEF Shape, SlotTypes, LoadRecord
<1>3. CASE Stale(g)
    <2>1. /\ slots' = [slots EXCEPT ![m] = Nobody] /\ slots[m].gen = g
          /\ allocated_bytes' = Released(KvHeld[m])
        BY <1>3 DEF DropGuard, Stale
    <2>2. m \in ReadyModels
        BY <1>1, <2>1, SlotUnique
    <2>3. \A n \in Models : slots'[n].gen = IF n \in {m} THEN "none" ELSE slots[n].gen
        BY <1>1, <2>1 DEF Shape, SlotTypes, Nobody
    <2>4. {m} \in SUBSET ReadyModels /\ allocated_bytes' = Released(KvBytes({m}))
        BY <2>1, <2>2, KvBytesOne
    <2> HIDE DEF m
    <2>5. QED
        BY <1>1, <1>2, <2>3, <2>4, EvictAccounts
<1>4. CASE ~Stale(g)
    <2>1. slots' = slots /\ allocated_bytes' = allocated_bytes
        BY <1>4 DEF DropGuard
    <2>2. \A x \in Requests : Owes(x)' = Owes(x)
        BY <1>2, <2>1, OwesSame DEF InFlight
    <2>3. QED
        BY <1>1, <2>1, <2>2, BudgetStays
<1>5. QED
    BY <1>3, <1>4

\* What an installing step leaves of the loads.
LEMMA InstallKeeps ==
    ASSUME Shape, NEW g \in Requests,
           \E i \in {"alive", "dead", "unloading", "done"} :
               load' \in {[load EXCEPT ![g].installer = i],
                          [load EXCEPT ![g].installer = i, ![g].shutdown = TRUE]}
    PROVE  /\ \A x \in Requests : /\ load'[x].held = load[x].held /\ load'[x].draft = load[x].draft
                                  /\ load'[x].kv_cache_bytes = load[x].kv_cache_bytes
                                  /\ load'[x].result = load[x].result /\ load'[x].pc = load[x].pc
           /\ \A x \in Requests : x # g => load'[x] = load[x]
<1>1. PICK i \in {"alive", "dead", "unloading", "done"} :
         load' \in {[load EXCEPT ![g].installer = i],
                    [load EXCEPT ![g].installer = i, ![g].shutdown = TRUE]}
    OBVIOUS
<1>2. \A x \in Requests : load[x] \in LoadRecord
    BY DEF Shape, SlotTypes
<1>3. load' \in {[load EXCEPT ![g] = [load[g] EXCEPT !.installer = i]],
                 [load EXCEPT ![g] = [load[g] EXCEPT !.installer = i, !.shutdown = TRUE]]}
    BY <1>1 DEF Shape, SlotTypes
<1>4. /\ \A x \in Requests : x # g => load'[x] = load[x]
      /\ load'[g] \in {[load[g] EXCEPT !.installer = i],
                       [load[g] EXCEPT !.installer = i, !.shutdown = TRUE]}
    BY <1>3 DEF Shape, SlotTypes
<1>5. /\ load'[g].held = load[g].held /\ load'[g].draft = load[g].draft
      /\ load'[g].kv_cache_bytes = load[g].kv_cache_bytes
      /\ load'[g].result = load[g].result /\ load'[g].pc = load[g].pc
    BY <1>2, <1>4 DEF LoadRecord
<1>6. QED
    BY <1>4, <1>5

LEMMA InstallerWakesAccounts ==
    ASSUME Shape, Shape', Budget, BudgetAccounted, NEW g \in Requests, InstallerWakes(g)
    PROVE  Budget' /\ BudgetAccounted'
<1>1. \A x \in Requests : /\ load'[x].held = load[x].held /\ load'[x].draft = load[x].draft
                          /\ load'[x].kv_cache_bytes = load[x].kv_cache_bytes
                          /\ load'[x].result = load[x].result
    BY InstallKeeps DEF InstallerWakes
<1>2. \A x \in Requests : InFlight(x)' <=> InFlight(x)
    BY DEF InstallerWakes, InFlight, Shape, SlotTypes, LoadRecord
<1>3. \A x \in Requests : Owes(x)' = Owes(x)
    BY <1>1, <1>2, OwesSame DEF InstallerWakes
<1>4. QED
    BY <1>3, BudgetStays DEF InstallerWakes

LEMMA UnloadAccounts ==
    ASSUME Shape, Shape', Budget, BudgetAccounted, NEW g \in Requests, Unload(g)
    PROVE  Budget' /\ BudgetAccounted'
<1>1. \A x \in Requests : /\ load'[x].held = load[x].held /\ load'[x].draft = load[x].draft
                          /\ load'[x].kv_cache_bytes = load[x].kv_cache_bytes
                          /\ load'[x].result = load[x].result
    BY InstallKeeps DEF Unload
<1>2. \A x \in Requests : InFlight(x)' <=> InFlight(x)
    BY DEF Unload, InFlight, Shape, SlotTypes, LoadRecord
<1>3. \A x \in Requests : Owes(x)' = Owes(x)
    BY <1>1, <1>2, OwesSame DEF Unload
<1>4. QED
    BY <1>3, BudgetStays DEF Unload

\* A load that is over is not in flight; its slot has no engine yet.
LEMMA LoadOver ==
    ASSUME Shape, NEW g \in Requests, InFlight(g), NEW i \in {"done", "unloading"},
           load' = [load EXCEPT ![g].installer = i],
           NEW slot, slots' = [slots EXCEPT ![load[g].model] = slot]
    PROVE  /\ load[g].model \in Models /\ slots[load[g].model].gen = "none"
           /\ slots[load[g].model].state = "Loading"
           /\ ~InFlight(g)' /\ \A x \in Requests : x # g => (InFlight(x)' <=> InFlight(x))
           /\ slots'[load[g].model] = slot
           /\ \A m \in Models : m # load[g].model => slots'[m] = slots[m]
           /\ \A m \in Models : slots[m].gen # g
<1>1. load[g].model \in Models /\ slots[load[g].model].state = "Loading"
    BY ModelKnown DEF Shape, SlotsLoading
<1>2. slots[load[g].model].gen = "none"
    BY <1>1 DEF Shape, SlotsOwned
<1>3. slots'[load[g].model] = slot /\ \A m \in Models : m # load[g].model => slots'[m] = slots[m]
    BY <1>1 DEF Shape, SlotTypes
<1>4. ~InFlight(g)' /\ \A x \in Requests : x # g => (InFlight(x)' <=> InFlight(x))
    BY DEF InFlight, Shape, SlotTypes, LoadRecord
<1>5. \A m \in Models : slots[m].gen # g
    BY SlotUnique
<1>6. QED
    BY <1>1, <1>2, <1>3, <1>4, <1>5

LEMMA InstallReadyAccounts ==
    ASSUME Shape, Shape', Budget, BudgetAccounted, NEW g \in Requests, InstallReady(g)
    PROVE  Budget' /\ BudgetAccounted'
<1>1. /\ load' = [load EXCEPT ![g].installer = "done"] /\ InFlight(g)
      /\ slots' = [slots EXCEPT ![load[g].model] = Ready(g)]
      /\ allocated_bytes' = allocated_bytes /\ lost' = lost
    BY DEF InstallReady, InFlight
<1>2. \A x \in Requests : /\ load'[x].held = load[x].held /\ load'[x].draft = load[x].draft
                          /\ load'[x].kv_cache_bytes = load[x].kv_cache_bytes
                          /\ load'[x].result = load[x].result
    BY <1>1, InstallKeeps
<1>3. /\ load[g].model \in Models /\ slots[load[g].model].gen = "none"
      /\ ~InFlight(g)' /\ \A x \in Requests : x # g => (InFlight(x)' <=> InFlight(x))
      /\ slots'[load[g].model] = Ready(g)
      /\ \A m \in Models : m # load[g].model => slots'[m] = slots[m]
    BY <1>1, LoadOver
<1>4. Ready(g).gen = g /\ \A x \in Requests : x # "none"
    BY ManagerAssumption DEF Ready
<1>5. \A x \in Requests : Claimed(x)' <=> Claimed(x)
    <2>1. Claimed(g) /\ Claimed(g)'
        BY <1>1, <1>3, <1>4 DEF Claimed
    <2>2. ASSUME NEW x \in Requests, x # g
          PROVE  Claimed(x)' <=> Claimed(x)
        <3>1. \A m \in Models : slots'[m].gen = x <=> slots[m].gen = x
            BY <1>3, <1>4, <2>2
        <3>2. QED
            BY <1>3, <2>2, <3>1 DEF Claimed
    <2>3. QED
        BY <2>1, <2>2
<1>6. \A x \in Requests : Owes(x)' = Owes(x)
    BY <1>2, <1>5 DEF Owes, Claimed
<1>7. QED
    BY <1>1, <1>6, BudgetStays

LEMMA InstallFailedAccounts ==
    ASSUME Shape, Shape', Budget, BudgetAccounted, NEW g \in Requests, InstallFailed(g)
    PROVE  Budget' /\ BudgetAccounted'
<1>1. /\ load' = [load EXCEPT ![g].installer = "done"] /\ InFlight(g) /\ load[g].result # "ok"
      /\ slots' = [slots EXCEPT ![load[g].model] = Nobody]
      /\ allocated_bytes' = allocated_bytes /\ lost' = lost
    BY DEF InstallFailed, InFlight, Unsuccessful
<1>2. \A x \in Requests : /\ load'[x].held = load[x].held /\ load'[x].draft = load[x].draft
                          /\ load'[x].kv_cache_bytes = load[x].kv_cache_bytes
                          /\ load'[x].result = load[x].result
    BY <1>1, InstallKeeps
<1>3. /\ load[g].model \in Models /\ slots[load[g].model].gen = "none"
      /\ \A x \in Requests : x # g => (InFlight(x)' <=> InFlight(x))
      /\ slots'[load[g].model] = Nobody
      /\ \A m \in Models : m # load[g].model => slots'[m] = slots[m]
    BY <1>1, LoadOver
<1>4. \A m \in Models : slots'[m].gen = slots[m].gen
    BY <1>3 DEF Nobody
<1>5. \A x \in Requests : Owes(x)' = Owes(x)
    BY <1>1, <1>2, <1>3, <1>4, OwesSame
<1>6. QED
    BY <1>1, <1>5, BudgetStays

\* A load whose model does not stay gives its pool back.
LEMMA PoolGivenBack ==
    ASSUME Shape, Shape', Budget, BudgetAccounted, NEW g \in Requests, InFlight(g),
           load[g].result = "ok", NEW i \in {"done", "unloading"},
           load' = [load EXCEPT ![g].installer = i],
           slots' = [slots EXCEPT ![load[g].model] = Nobody],
           allocated_bytes' = Released(load[g].kv_cache_bytes), lost' = lost
    PROVE  Budget' /\ BudgetAccounted'
<1>1. \A x \in Requests : /\ load'[x].held = load[x].held /\ load'[x].draft = load[x].draft
                          /\ load'[x].kv_cache_bytes = load[x].kv_cache_bytes
                          /\ load'[x].result = load[x].result
    BY InstallKeeps
<1>2. /\ load[g].model \in Models /\ slots[load[g].model].gen = "none"
      /\ ~InFlight(g)' /\ \A x \in Requests : x # g => (InFlight(x)' <=> InFlight(x))
      /\ slots'[load[g].model] = Nobody
      /\ \A m \in Models : m # load[g].model => slots'[m] = slots[m]
      /\ \A m \in Models : slots[m].gen # g
    BY LoadOver
<1>3. \A m \in Models : slots'[m].gen = slots[m].gen
    BY <1>2 DEF Nobody
<1>4. \A x \in Requests : x # g => Owes(x)' = Owes(x)
    BY <1>1, <1>2, <1>3 DEF Owes
<1>5. Claimed(g) /\ ~Claimed(g)'
    BY <1>2, <1>3 DEF Claimed
<1>6. Owes(g) = load[g].held + load[g].draft + load[g].kv_cache_bytes
    BY <1>5, OwesIsNat
<1>7. Owes(g)' = load[g].held + load[g].draft
    <2>1. Owes(g)' = load'[g].held + load'[g].draft
                       + IF load'[g].result = "ok" /\ Claimed(g)' THEN load'[g].kv_cache_bytes ELSE 0
        BY DEF Owes, Claimed
    <2>2. QED
        BY <1>1, <1>5, <2>1, OwesIsNat
<1>8. /\ load[g].held \in Nat /\ load[g].draft \in Nat /\ load[g].kv_cache_bytes \in Nat
      /\ load[g].kv_cache_bytes <= allocated_bytes
    BY <1>6, OwesIsNat, OwesCharged DEF Budget
<1>9. allocated_bytes' = allocated_bytes - load[g].kv_cache_bytes /\ allocated_bytes' \in 0 .. total_bytes
    BY <1>8, ReleasedBytes
<1>10. Budget'
    BY <1>9 DEF Budget
<1>11. allocated_bytes' + Owes(g) + lost = allocated_bytes + Owes(g)' + lost'
    BY <1>6, <1>7, <1>8, <1>9 DEF Budget
<1>12. BudgetAccounted'
    BY <1>4, <1>10, <1>11, DebtMoves
<1>13. QED
    BY <1>10, <1>12

LEMMA InstallDeadAccounts ==
    ASSUME Shape, Shape', Budget, BudgetAccounted, NEW g \in Requests, InstallDead(g)
    PROVE  Budget' /\ BudgetAccounted'
<1>1. load[g].installer = "dead" /\ load[g].result = "ok" /\ InFlight(g)
    BY DEF InstallDead, InFlight, Shape, Stages, Stage
<1>2. QED
    BY <1>1, PoolGivenBack DEF InstallDead

LEMMA InstallOverBudgetAccounts ==
    ASSUME Shape, Shape', Budget, BudgetAccounted, NEW g \in Requests, InstallOverBudget(g)
    PROVE  Budget' /\ BudgetAccounted'
<1>1. load[g].installer = "alive" /\ load[g].result = "ok" /\ InFlight(g)
    BY DEF InstallOverBudget, InFlight, Shape, Stages, Stage
<1>2. QED
    BY <1>1, PoolGivenBack DEF InstallOverBudget

-----------------------------------------------------------------------------
(* The order of last use, and the memory of the Ready models.              *)

OrderOK ==
    /\ used_before \subseteq ReadyModels \X ReadyModels
    /\ \A x, y \in ReadyModels : x = y <=> <<x, y>> \notin used_before /\ <<y, x>> \notin used_before
    /\ \A x, y, z \in ReadyModels : <<x, y>> \in used_before /\ <<y, z>> \in used_before
                                    => <<x, z>> \in used_before

\* A model that leaves takes its place in the order with it.
LEMMA OrderRestricted ==
    ASSUME OrderOK, NEW R, R = ReadyModels', R \subseteq ReadyModels, used_before' = UsedAmong(R)
    PROVE  OrderOK'
<1>1. used_before' = used_before \cap (R \X R)
    BY DEF UsedAmong
<1>2. \A x, y \in R : <<x, y>> \in used_before' <=> <<x, y>> \in used_before
    BY <1>1
<1>3. used_before' \subseteq R \X R
    BY <1>1
<1>4. QED
    BY <1>2, <1>3 DEF OrderOK

\* A model that is used, or comes in, is the last of the order.
LEMMA OrderLast ==
    ASSUME OrderOK, NEW m, NEW R, R = ReadyModels', R = ReadyModels \cup {m}, used_before' = UsedLast(m)
    PROVE  OrderOK'
<1> DEFINE Q == ReadyModels \ {m}
<1>1. used_before' = (used_before \cap (Q \X Q)) \cup {<<x, m>> : x \in Q}
    BY DEF UsedLast, UsedAmong
<1>2. R = Q \cup {m} /\ m \notin Q /\ Q \subseteq ReadyModels
    OBVIOUS
<1>3. /\ \A x, y \in Q : <<x, y>> \in used_before' <=> <<x, y>> \in used_before
      /\ \A x \in Q : <<x, m>> \in used_before'
      /\ \A y : <<m, y>> \notin used_before'
    BY <1>1, <1>2
<1>4. used_before' \subseteq R \X R
    BY <1>1, <1>2
<1> HIDE DEF Q
<1>5. \A x, y \in R : x = y <=> <<x, y>> \notin used_before' /\ <<y, x>> \notin used_before'
    BY <1>2, <1>3 DEF OrderOK
<1>6. \A x, y, z \in R : <<x, y>> \in used_before' /\ <<y, z>> \in used_before' => <<x, z>> \in used_before'
    <2> SUFFICES ASSUME NEW x \in R, NEW y \in R, NEW z \in R,
                        <<x, y>> \in used_before', <<y, z>> \in used_before'
                 PROVE  <<x, z>> \in used_before'
        OBVIOUS
    <2>1. x \in Q /\ y \in Q
        BY <1>2, <1>3
    <2>2. CASE z = m
        BY <1>3, <2>1, <2>2
    <2>3. CASE z # m
        BY <1>2, <1>3, <2>1, <2>3 DEF OrderOK
    <2>4. QED
        BY <2>2, <2>3
<1>7. QED
    BY <1>4, <1>5, <1>6 DEF OrderOK

\* What a Ready model holds.
LEMMA MemoryHeld ==
    ASSUME Shape
    PROVE  /\ IsFiniteSet(ReadyModels) /\ WeightBytes \in Nat /\ Ceiling \in Nat
           /\ \A m \in ReadyModels : /\ ModelBytes[m] \in Nat
                                     /\ ModelBytes[m] = WeightBytes + load[slots[m].gen].kv_cache_bytes
           /\ TotalBytes(ReadyModels) \in Nat
<1>1. IsFiniteSet(Models) /\ WeightBytes \in Nat /\ Ceiling \in Nat
    BY ManagerAssumption
<1>2. IsFiniteSet(ReadyModels)
    <2>1. ReadyModels \subseteq Models
        BY DEF ReadyModels
    <2>2. QED
        BY <1>1, <2>1, FS_Subset
<1>3. \A m \in ReadyModels : /\ ModelBytes[m] \in Nat
                             /\ ModelBytes[m] = WeightBytes + load[slots[m].gen].kv_cache_bytes
    <2>1. \A m \in ReadyModels : m \in Models /\ KvHeld[m] \in Nat /\ KvHeld[m] = load[slots[m].gen].kv_cache_bytes
        BY ReadyHasEngine
    <2>2. \A m \in ReadyModels : ModelBytes[m] = WeightBytes + KvHeld[m]
        BY <2>1 DEF ModelBytes, ReadyModels
    <2>3. QED
        BY <1>1, <2>1, <2>2
<1>4. TotalBytes(ReadyModels) \in Nat
    BY <1>2, <1>3, SumRemove DEF TotalBytes
<1>5. QED
    BY <1>1, <1>2, <1>3, <1>4

\* The same after a step.
LEMMA MemoryHeldNext ==
    ASSUME Shape'
    PROVE  /\ IsFiniteSet(ReadyModels')
           /\ \A m \in ReadyModels' : /\ (ModelBytes')[m] \in Nat
                                     /\ (ModelBytes')[m] = WeightBytes + load'[slots'[m].gen].kv_cache_bytes
<1>1. IsFiniteSet(Models) /\ WeightBytes \in Nat
    BY ManagerAssumption
<1>2. IsFiniteSet(ReadyModels')
    <2>1. ReadyModels' \subseteq Models
        BY DEF ReadyModels
    <2>2. QED
        BY <1>1, <2>1, FS_Subset
<1>3. ASSUME NEW m \in ReadyModels'
      PROVE  /\ (ModelBytes')[m] \in Nat
             /\ (ModelBytes')[m] = WeightBytes + load'[slots'[m].gen].kv_cache_bytes
    <2>1. m \in Models /\ slots'[m].state = "Ready"
        BY DEF ReadyModels
    <2>2. load'[slots'[m].gen].kv_cache_bytes \in Nat
        <3>1. slots'[m].gen \in Requests
            BY <2>1 DEF Shape, SlotTypes, SlotsOwned
        <3>2. load'[slots'[m].gen] \in LoadRecord
            BY <3>1 DEF Shape, SlotTypes
        <3>3. QED
            BY <3>2 DEF LoadRecord
    <2>3. (ModelBytes')[m] = WeightBytes + load'[slots'[m].gen].kv_cache_bytes
        BY <2>1 DEF ModelBytes, KvHeld
    <2>4. QED
        BY <1>1, <2>2, <2>3
<1>4. QED
    BY <1>2, <1>3

\* Models that stay as they are hold no more than they did.
LEMMA MemoryKept ==
    ASSUME Shape, Shape', MemoryWithinBudget, ReadyModels' \subseteq ReadyModels,
           \A m \in ReadyModels' : slots'[m].gen = slots[m].gen,
           \A x \in Requests : load[x].result = "ok" => load'[x].kv_cache_bytes = load[x].kv_cache_bytes
    PROVE  MemoryWithinBudget'
<1> DEFINE R == ReadyModels
           Q == ReadyModels'
<1>1. \A m \in Q : (ModelBytes')[m] = ModelBytes[m]
    <2>1. \A m \in R : slots[m].gen \in Requests /\ load[slots[m].gen].result = "ok"
        BY ReadyHasEngine
    <2>2. QED
        BY <2>1, MemoryHeld, MemoryHeldNext
<1>2. SumFunctionOnSet(ModelBytes', Q) = SumFunctionOnSet(ModelBytes, Q)
    <2>1. IsFiniteSet(Q)
        BY MemoryHeldNext
    <2> HIDE DEF Q
    <2>2. QED
        BY <1>1, <2>1, SumCongruence
<1>3. SumFunctionOnSet(ModelBytes, R) = SumFunctionOnSet(ModelBytes, Q) + SumFunctionOnSet(ModelBytes, R \ Q)
    <2>1. IsFiniteSet(R) /\ (\A m \in R : ModelBytes[m] \in Nat) /\ Q \in SUBSET R
        BY MemoryHeld
    <2> HIDE DEF Q, R
    <2>2. QED
        BY <2>1, SumSplit
<1>4. SumFunctionOnSet(ModelBytes, R \ Q) \in Nat /\ SumFunctionOnSet(ModelBytes, Q) \in Nat
    <2>1. IsFiniteSet(R \ Q) /\ IsFiniteSet(Q) /\ \A m \in R : ModelBytes[m] \in Nat
        BY MemoryHeld, MemoryHeldNext, FS_Subset
    <2>2. Q \subseteq R
        OBVIOUS
    <2> HIDE DEF Q, R
    <2>3. QED
        BY <2>1, <2>2, SumRemove
<1>5. TotalBytes(ReadyModels)' = SumFunctionOnSet(ModelBytes', Q)
    BY DEF TotalBytes
<1>6. TotalBytes(ReadyModels) = SumFunctionOnSet(ModelBytes, R)
    BY DEF TotalBytes
<1>7. SUFFICES ASSUME ExplicitBudget PROVE TotalBytes(ReadyModels)' <= Ceiling
    BY DEF MemoryWithinBudget
<1>8. TotalBytes(ReadyModels) <= Ceiling /\ Ceiling \in Nat
    BY <1>7, MemoryHeld DEF MemoryWithinBudget
<1> HIDE DEF R, Q
<1>9. QED
    BY <1>2, <1>3, <1>4, <1>5, <1>6, <1>8

\* A model comes in where the others leave room for it.
LEMMA MemoryInstalled ==
    ASSUME Shape, Shape', NEW g \in Requests, InstallReady(g)
    PROVE  MemoryWithinBudget'
<1> DEFINE m == load[g].model
           R == ReadyModels
<1>1. /\ load' = [load EXCEPT ![g].installer = "done"] /\ InFlight(g) /\ ~OverBudget(g)
      /\ slots' = [slots EXCEPT ![m] = Ready(g)]
    BY DEF InstallReady, InFlight
<1>2. \A x \in Requests : load'[x].kv_cache_bytes = load[x].kv_cache_bytes
    BY <1>1, InstallKeeps
<1>3. /\ m \in Models /\ slots[m].state = "Loading" /\ slots'[m] = Ready(g)
      /\ \A x \in Models : x # m => slots'[x] = slots[x]
    BY <1>1, LoadOver
<1>4. ReadyModels' = R \cup {m} /\ m \notin R
    BY <1>3 DEF ReadyModels, Ready
<1> HIDE DEF m, R
<1>5. (ModelBytes')[m] = SizeOf(g)
    <2>1. Ready(g).gen = g /\ m \in ReadyModels'
        BY <1>4 DEF Ready
    <2>2. QED
        BY <1>2, <1>3, <2>1, MemoryHeldNext DEF SizeOf
<1>6. \A x \in R : (ModelBytes')[x] = ModelBytes[x] /\ ModelBytes[x] \in Nat
    <2> SUFFICES ASSUME NEW x \in R PROVE (ModelBytes')[x] = ModelBytes[x] /\ ModelBytes[x] \in Nat
        OBVIOUS
    <2>1. x \in ReadyModels' /\ slots'[x] = slots[x] /\ slots[x].gen \in Requests
        BY <1>3, <1>4, ReadyHasEngine DEF R
    <2>2. /\ ModelBytes[x] \in Nat /\ ModelBytes[x] = WeightBytes + load[slots[x].gen].kv_cache_bytes
          /\ (ModelBytes')[x] = WeightBytes + load'[slots'[x].gen].kv_cache_bytes
        BY <2>1, MemoryHeld, MemoryHeldNext DEF R
    <2>3. QED
        BY <1>2, <2>1, <2>2
<1>7. /\ IsFiniteSet(R) /\ IsFiniteSet(R \cup {m}) /\ (R \cup {m}) \ {m} = R
      /\ \A x \in R \cup {m} : (ModelBytes')[x] \in Nat
    BY <1>4, MemoryHeld, MemoryHeldNext DEF R
<1>8. SumFunctionOnSet(ModelBytes', R \cup {m}) = (ModelBytes')[m] + SumFunctionOnSet(ModelBytes', R)
    BY <1>7, SumRemove
<1>9. SumFunctionOnSet(ModelBytes', R) = SumFunctionOnSet(ModelBytes, R)
    BY <1>6, <1>7, SumCongruence
<1>10. SumFunctionOnSet(ModelBytes, R) \in Nat /\ SizeOf(g) \in Nat
    BY <1>5, <1>6, <1>7, SumRemove
<1>11. TotalBytes(ReadyModels)' = SizeOf(g) + TotalBytes(ReadyModels) /\ TotalBytes(ReadyModels) \in Nat
    BY <1>4, <1>5, <1>8, <1>9, <1>10 DEF TotalBytes, R
<1>12. ExplicitBudget => TotalBytes(ReadyModels) + SizeOf(g) <= Ceiling
    BY <1>1, <1>10, <1>11, MemoryHeld DEF OverBudget
<1>13. QED
    BY <1>10, <1>11, <1>12 DEF MemoryWithinBudget

-----------------------------------------------------------------------------
(* The inductive invariant.                                                *)

Rest == OrderOK /\ registry \in [Models -> Nat] /\ MemoryWithinBudget

IInv == Shape /\ Budget /\ BudgetAccounted /\ Rest

\* The loader thread short of evictions.
LoaderStep(g) ==
    \/ SetupFails(g) \/ ReserveDraft(g) \/ AcquirePool(g) \/ PoolShort(g) \/ LoadFails(g)
    \/ RetryHalved(g) \/ GiveUpHalving(g) \/ LoadOk(g) \/ ReleaseReservation(g) \/ LoadDraft(g)
    \/ LoopExits(g) \/ Panics(g)

LEMMA LoaderStepKept ==
    ASSUME Shape, Budget, BudgetAccounted, NEW g \in Requests, LoaderStep(g)
    PROVE  Shape' /\ Budget' /\ BudgetAccounted'
BY SetupFailsKept, ReserveDraftKept, AcquirePoolKept, PoolShortKept, LoadFailsKept, RetryHalvedKept,
   GiveUpHalvingKept, LoadOkKept, ReleaseReservationKept, LoadDraftKept, LoopExitsKept, PanicsKept
   DEF LoaderStep

\* It leaves the slots, their order and the pools of loaded models alone, and
\* ends no thread that has its guard.
LEMMA LoaderStepFrame ==
    ASSUME Shape, NEW g \in Requests, LoaderStep(g)
    PROVE  /\ slots' = slots /\ used_before' = used_before /\ registry' = registry
           /\ \A x \in Requests : x # g => load'[x] = load[x]
           /\ load[g].result = "ok" => load'[g].kv_cache_bytes = load[g].kv_cache_bytes
           /\ load[g].pc \in {"running", "closing"} => load'[g].pc # "gone"
<1>1. load[g] \in LoadRecord /\ Stage(load[g])
    BY DEF Shape, SlotTypes, Stages
<1>2. slots' = slots /\ used_before' = used_before /\ registry' = registry
    BY DEF LoaderStep, SetupFails, ReserveDraft, AcquirePool, PoolShort, LoadFails, RetryHalved,
           GiveUpHalving, LoadOk, ReleaseReservation, LoadDraft, LoopExits, Panics
<1>3. ASSUME NEW l, load' = [load EXCEPT ![g] = l]
      PROVE  load'[g] = l /\ \A x \in Requests : x # g => load'[x] = load[x]
    BY <1>3 DEF Shape, SlotTypes
<1>4. CASE SetupFails(g)
    <2> DEFINE l == [load[g] EXCEPT !.pc = "gone", !.result = "err"]
    <2>1. load[g].pc = "spawned" /\ load' = [load EXCEPT ![g] = l]
        BY <1>4 DEF SetupFails, Shape, SlotTypes
    <2>2. QED
        BY <1>1, <1>2, <1>3, <2>1 DEF Stage
<1>5. CASE ReserveDraft(g)
    <2> DEFINE l == [load[g] EXCEPT !.pc = "loading", !.cap = DesiredBytes,
                                     !.draft = IF HasDraft THEN acquire(available_bytes \div 2) ELSE 0]
    <2>1. load' = [load EXCEPT ![g] = l]
        BY <1>5 DEF ReserveDraft, Shape, SlotTypes
    <2>2. l.pc = "loading" /\ l.kv_cache_bytes = load[g].kv_cache_bytes
        BY <1>1 DEF LoadRecord
    <2> HIDE DEF l
    <2>3. QED
        BY <1>2, <1>3, <2>1, <2>2
<1>6. CASE AcquirePool(g)
    <2> DEFINE l == [load[g] EXCEPT !.pc = "acquired", !.held = acquire(load[g].cap)]
    <2>1. load' = [load EXCEPT ![g] = l]
        BY <1>6 DEF AcquirePool, Shape, SlotTypes
    <2>2. l.pc = "acquired" /\ l.kv_cache_bytes = load[g].kv_cache_bytes
        BY <1>1 DEF LoadRecord
    <2> HIDE DEF l
    <2>3. QED
        BY <1>2, <1>3, <2>1, <2>2
<1>7. CASE PoolShort(g)
    <2> DEFINE l == [load[g] EXCEPT !.pc = "short", !.held = 0]
    <2>1. load' = [load EXCEPT ![g] = l]
        BY <1>7 DEF PoolShort, Shape, SlotTypes
    <2>2. l.pc = "short" /\ l.kv_cache_bytes = load[g].kv_cache_bytes
        BY <1>1 DEF LoadRecord
    <2> HIDE DEF l
    <2>3. QED
        BY <1>2, <1>3, <2>1, <2>2
<1>8. CASE LoadFails(g) \/ GiveUpHalving(g)
    <2> DEFINE l == [load[g] EXCEPT !.pc = "gone", !.result = "err", !.held = 0, !.draft = 0]
    <2>1. load[g].pc \in {"loading", "short", "acquired"} /\ load' = [load EXCEPT ![g] = l]
        BY <1>8 DEF LoadFails, GiveUpHalving, Shape, SlotTypes
    <2>2. load[g].installer = "waiting" /\ load[g].result = "none"
        BY <1>1, <2>1 DEF Stage
    <2> HIDE DEF l
    <2>3. QED
        BY <1>2, <1>3, <2>1, <2>2
<1>9. CASE RetryHalved(g)
    <2> DEFINE l == [load[g] EXCEPT !.pc = "loading", !.held = 0, !.halvings = load[g].halvings + 1,
                                     !.cap = PoolBytes(g) \div 2]
    <2>1. load' = [load EXCEPT ![g] = l]
        BY <1>9 DEF RetryHalved, Shape, SlotTypes
    <2>2. l.pc = "loading" /\ l.kv_cache_bytes = load[g].kv_cache_bytes
        BY <1>1 DEF LoadRecord
    <2> HIDE DEF l
    <2>3. QED
        BY <1>2, <1>3, <2>1, <2>2
<1>10. CASE LoadOk(g)
    <2> DEFINE l == [load[g] EXCEPT !.pc = "sent", !.result = "ok", !.held = 0,
                                     !.kv_cache_bytes = PoolBytes(g)]
    <2>1. load[g].pc = "acquired" /\ load' = [load EXCEPT ![g] = l]
        BY <1>10 DEF LoadOk, Shape, SlotTypes
    <2>2. load[g].installer = "waiting" /\ load[g].result = "none"
        BY <1>1, <2>1 DEF Stage
    <2> HIDE DEF l
    <2>3. QED
        BY <1>2, <1>3, <2>1, <2>2
<1>11. CASE ReleaseReservation(g)
    <2> DEFINE l == [load[g] EXCEPT !.pc = "drafting", !.draft = 0]
    <2>1. load' = [load EXCEPT ![g] = l]
        BY <1>11 DEF ReleaseReservation, Shape, SlotTypes
    <2>2. l.pc = "drafting" /\ l.kv_cache_bytes = load[g].kv_cache_bytes
        BY <1>1 DEF LoadRecord
    <2> HIDE DEF l
    <2>3. QED
        BY <1>2, <1>3, <2>1, <2>2
<1>12. CASE LoadDraft(g)
    <2> DEFINE l == [load[g] EXCEPT !.pc = "running"]
    <2>1. load' = [load EXCEPT ![g] = l]
        BY <1>12 DEF LoadDraft, Shape, SlotTypes
    <2>2. l.pc = "running" /\ l.kv_cache_bytes = load[g].kv_cache_bytes
        BY <1>1 DEF LoadRecord
    <2> HIDE DEF l
    <2>3. QED
        BY <1>2, <1>3, <2>1, <2>2
<1>13. CASE LoopExits(g)
    <2> DEFINE l == [load[g] EXCEPT !.pc = "closing"]
    <2>1. load' = [load EXCEPT ![g] = l]
        BY <1>13 DEF LoopExits, Shape, SlotTypes
    <2>2. l.pc = "closing" /\ l.kv_cache_bytes = load[g].kv_cache_bytes
        BY <1>1 DEF LoadRecord
    <2> HIDE DEF l
    <2>3. QED
        BY <1>2, <1>3, <2>1, <2>2
<1>14. CASE Panics(g)
    <2> DEFINE l == [load[g] EXCEPT !.pc = IF load[g].pc = "running" THEN "closing" ELSE "gone",
                                     !.result = IF load[g].result = "none" THEN "dropped" ELSE load[g].result,
                                     !.held = 0, !.draft = 0]
    <2>1. load' = [load EXCEPT ![g] = l]
        BY <1>14 DEF Panics, Shape, SlotTypes
    <2>2. l.kv_cache_bytes = load[g].kv_cache_bytes /\ (load[g].pc = "running" => l.pc = "closing")
        BY <1>1 DEF LoadRecord
    <2>3. load[g].pc # "closing"
        BY <1>14 DEF Panics
    <2> HIDE DEF l
    <2>4. QED
        BY <1>2, <1>3, <2>1, <2>2, <2>3
<1>15. QED
    BY <1>4, <1>5, <1>6, <1>7, <1>8, <1>9, <1>10, <1>11, <1>12, <1>13, <1>14 DEF LoaderStep

\* Slots that stay as they are keep their order and their memory.
LEMMA RestSame ==
    ASSUME Shape, Shape', Rest, used_before' = used_before, registry' \in [Models -> Nat],
           \A m \in Models : slots'[m].state = "Ready" <=> slots[m].state = "Ready",
           \A m \in Models : slots'[m].gen = slots[m].gen,
           \A x \in Requests : load[x].result = "ok" => load'[x].kv_cache_bytes = load[x].kv_cache_bytes
    PROVE  Rest'
<1>1. ReadyModels' = ReadyModels
    BY DEF ReadyModels
<1>2. OrderOK'
    BY <1>1 DEF Rest, OrderOK
<1>3. ReadyModels \subseteq Models
    BY DEF ReadyModels
<1>4. MemoryWithinBudget'
    BY <1>1, <1>3, MemoryKept DEF Rest
<1>5. QED
    BY <1>2, <1>4 DEF Rest

\* Slots that go leave order and memory to the others.
LEMMA RestEvicted ==
    ASSUME Shape, Shape', Rest, NEW V \in SUBSET ReadyModels, used_before' = UsedAmong(ReadyModels \ V),
           registry' = registry,
           \A m \in Models : slots'[m].state = "Ready" <=> m \in ReadyModels /\ m \notin V,
           \A m \in Models : m \notin V => slots'[m].gen = slots[m].gen,
           \A x \in Requests : load[x].result = "ok" => load'[x].kv_cache_bytes = load[x].kv_cache_bytes
    PROVE  Rest'
<1>1. ReadyModels' = ReadyModels \ V
    BY DEF ReadyModels
<1>2. OrderOK'
    BY <1>1, OrderRestricted DEF Rest
<1>3. \A m \in ReadyModels' : slots'[m].gen = slots[m].gen
    BY <1>1 DEF ReadyModels
<1>4. MemoryWithinBudget'
    BY <1>1, <1>3, MemoryKept DEF Rest
<1>5. QED
    BY <1>2, <1>4 DEF Rest

\* What NoGuardedSlotTurnsDead asks of a step.
NoneTurnsDead ==
    \A m \in Models :
        /\ slots[m].state = "Ready" /\ slots'[m] = slots[m]
        /\ load[slots[m].gen].pc \in {"running", "closing"}
        => load'[slots[m].gen].pc # "gone"

LEMMA PcSame ==
    ASSUME Shape, \A x \in Requests : load'[x].pc = load[x].pc
    PROVE  NoneTurnsDead
<1>1. \A m \in Models : slots[m].state = "Ready" => slots[m].gen \in Requests
    BY DEF Shape, SlotTypes, SlotsOwned
<1>2. QED
    BY <1>1 DEF NoneTurnsDead

LEMMA LoaderStepIInv ==
    ASSUME IInv, NEW g \in Requests, LoaderStep(g)
    PROVE  IInv' /\ NoneTurnsDead
<1>1. Shape /\ Rest /\ Shape' /\ Budget' /\ BudgetAccounted'
    BY LoaderStepKept DEF IInv
<1>2. /\ slots' = slots /\ used_before' = used_before /\ registry' = registry
      /\ \A x \in Requests : x # g => load'[x] = load[x]
      /\ load[g].result = "ok" => load'[g].kv_cache_bytes = load[g].kv_cache_bytes
      /\ load[g].pc \in {"running", "closing"} => load'[g].pc # "gone"
    BY <1>1, LoaderStepFrame
<1>3. \A x \in Requests : load[x].result = "ok" => load'[x].kv_cache_bytes = load[x].kv_cache_bytes
    BY <1>2
<1>4. Rest'
    <2>1. registry' \in [Models -> Nat]
        BY <1>1, <1>2 DEF Rest
    <2>2. QED
        BY <1>1, <1>2, <1>3, <2>1, RestSame
<1>5. NoneTurnsDead
    <2>1. \A m \in Models : slots[m].state = "Ready" =>
             slots[m].gen \in Requests /\ load[slots[m].gen].installer = "done"
        BY <1>1 DEF Shape, SlotTypes, SlotsOwned
    <2>2. QED
        BY <1>2, <2>1 DEF NoneTurnsDead
<1>6. QED
    BY <1>1, <1>4, <1>5 DEF IInv

LEMMA GetReadyIInv ==
    ASSUME IInv, NEW r \in Requests, NEW m \in Models, GetReady(r, m)
    PROVE  IInv' /\ NoneTurnsDead
<1>1. Shape /\ Budget /\ BudgetAccounted /\ Rest /\ Shape'
    BY GetReadyShape DEF IInv
<1>2. Budget' /\ BudgetAccounted'
    BY <1>1, GetReadyAccounts
<1>3. slots' = slots /\ load' = load /\ registry' = registry /\ used_before' = UsedLast(m) /\ m \in ReadyModels
    BY DEF GetReady, ReadyModels
<1>4. ReadyModels' = ReadyModels /\ ReadyModels = ReadyModels \cup {m}
    BY <1>3 DEF ReadyModels
<1>5. OrderOK'
    BY <1>1, <1>3, <1>4, OrderLast DEF Rest
<1>6. MemoryWithinBudget'
    BY <1>1, <1>3, <1>4, MemoryKept DEF Rest
<1>7. NoneTurnsDead
    BY <1>1, <1>3, PcSame
<1>8. QED
    BY <1>1, <1>2, <1>3, <1>5, <1>6, <1>7 DEF IInv, Rest

LEMMA GetLoadingIInv ==
    ASSUME IInv, NEW r \in Requests, NEW m \in Models, GetLoading(r, m)
    PROVE  IInv' /\ NoneTurnsDead
<1>1. Shape /\ Budget /\ BudgetAccounted /\ Rest /\ Shape'
    BY GetLoadingShape DEF IInv
<1>2. Budget' /\ BudgetAccounted'
    BY <1>1, GetLoadingAccounts
<1>3. /\ load' = load /\ registry' = registry /\ used_before' = used_before
      /\ \A x \in Models : slots'[x].state = slots[x].state /\ slots'[x].gen = slots[x].gen
    BY <1>1 DEF GetLoading, Shape, SlotTypes
<1>4. Rest'
    <2>1. registry' \in [Models -> Nat]
        BY <1>1, <1>3 DEF Rest
    <2>2. QED
        BY <1>1, <1>3, <2>1, RestSame
<1>5. NoneTurnsDead
    BY <1>1, <1>3, PcSame
<1>6. QED
    BY <1>1, <1>2, <1>4, <1>5 DEF IInv

LEMMA DropHandleIInv ==
    ASSUME IInv, NEW r \in Requests, DropHandle(r)
    PROVE  IInv' /\ NoneTurnsDead
<1>1. Shape /\ Budget /\ BudgetAccounted /\ Rest /\ Shape'
    BY DropHandleShape DEF IInv
<1>2. Budget' /\ BudgetAccounted'
    BY <1>1, DropHandleAccounts
<1>3. load' = load /\ registry' = registry /\ used_before' = used_before /\ slots' = slots
    BY DEF DropHandle
<1>4. Rest'
    <2>1. registry' \in [Models -> Nat]
        BY <1>1, <1>3 DEF Rest
    <2>2. QED
        BY <1>1, <1>3, <2>1, RestSame
<1>5. NoneTurnsDead
    BY <1>1, <1>3, PcSame
<1>6. QED
    BY <1>1, <1>2, <1>4, <1>5 DEF IInv

LEMMA GetAbsentIInv ==
    ASSUME IInv, NEW r \in Requests, NEW m \in Models, GetAbsent(r, m)
    PROVE  IInv' /\ NoneTurnsDead
<1>1. Shape /\ Budget /\ BudgetAccounted /\ Rest /\ Shape'
    BY GetAbsentShape DEF IInv
<1>2. Budget' /\ BudgetAccounted'
    BY <1>1, GetAbsentAccounts
<1>3. PICK V \in SUBSET ReadyModels :
         /\ slots' = [x \in Models |-> IF x = m THEN Loading(r) ELSE IF x \in V THEN Nobody ELSE slots[x]]
         /\ load' = [Flagged(V) EXCEPT ![r] = Spawned(m)]
         /\ used_before' = UsedAmong(ReadyModels \ V)
    BY DEF GetAbsent, EvictedFor
<1>4. slots[m].state = "None" /\ slots[m].gen = "none" /\ request[r].at = "idle" /\ registry' = registry
    BY <1>1 DEF GetAbsent, Shape, SlotsOwned
<1>5. /\ \A x \in Models : slots'[x].state = "Ready" <=> x \in ReadyModels /\ x \notin V
      /\ \A x \in Models : x \notin V => slots'[x].gen = slots[x].gen
    <2>1. Loading(r).state = "Loading" /\ Loading(r).gen = "none" /\ Nobody.state = "None"
        BY DEF Loading, Nobody
    <2>2. \A x \in Models : slots'[x] = IF x = m THEN Loading(r) ELSE IF x \in V THEN Nobody ELSE slots[x]
        BY <1>3
    <2>3. QED
        BY <1>4, <2>1, <2>2 DEF ReadyModels
<1> DEFINE F == Flagged(V)
<1>6. /\ F \in [Requests -> LoadRecord]
      /\ \A x \in Requests : F[x].kv_cache_bytes = load[x].kv_cache_bytes /\ F[x].pc = load[x].pc
    BY <1>1, FlagsRaised
<1> HIDE DEF F
<1>7. load'[r] = Spawned(m) /\ \A x \in Requests : x # r => load'[x] = F[x]
    BY <1>3, <1>6 DEF F
<1>8. load[r].result # "ok" /\ Spawned(m).pc = "spawned"
    BY <1>1, <1>4 DEF Shape, Waiting, Stages, Stage, NotStarted, Spawned
<1>9. Rest'
    <2>1. \A x \in Requests : load[x].result = "ok" => load'[x].kv_cache_bytes = load[x].kv_cache_bytes
        BY <1>6, <1>7, <1>8
    <2>2. QED
        BY <1>1, <1>3, <1>4, <1>5, <2>1, RestEvicted
<1>10. NoneTurnsDead
    <2>1. \A n \in Models : slots[n].state = "Ready" => slots[n].gen \in Requests
        BY <1>1 DEF Shape, SlotTypes, SlotsOwned
    <2>2. \A x \in Requests : load[x].pc # "gone" => load'[x].pc # "gone"
        BY <1>6, <1>7, <1>8
    <2>3. QED
        BY <2>1, <2>2 DEF NoneTurnsDead
<1>11. QED
    BY <1>1, <1>2, <1>9, <1>10 DEF IInv

LEMMA EvictExpiredIInv ==
    ASSUME IInv, EvictExpired
    PROVE  IInv' /\ NoneTurnsDead
<1>1. Shape /\ Budget /\ BudgetAccounted /\ Rest /\ Shape'
    BY EvictExpiredShape DEF IInv
<1>2. Budget' /\ BudgetAccounted'
    BY <1>1, EvictExpiredAccounts
<1>3. PICK V \in SUBSET ReadyModels :
         /\ slots' = [m \in Models |-> IF m \in V THEN Nobody ELSE slots[m]]
         /\ load' = Flagged(V) /\ used_before' = UsedAmong(ReadyModels \ V) /\ registry' = registry
    BY DEF EvictExpired
<1>4. /\ \A x \in Models : slots'[x].state = "Ready" <=> x \in ReadyModels /\ x \notin V
      /\ \A x \in Models : x \notin V => slots'[x].gen = slots[x].gen
    BY <1>3 DEF ReadyModels, Nobody
<1>5. \A x \in Requests : load'[x].kv_cache_bytes = load[x].kv_cache_bytes /\ load'[x].pc = load[x].pc
    BY <1>1, <1>3, FlagsRaised
<1>6. Rest'
    BY <1>1, <1>3, <1>4, <1>5, RestEvicted
<1>7. NoneTurnsDead
    BY <1>1, <1>5, PcSame
<1>8. QED
    BY <1>1, <1>2, <1>6, <1>7 DEF IInv

LEMMA EvictForPoolIInv ==
    ASSUME IInv, NEW g \in Requests, EvictForPool(g)
    PROVE  IInv' /\ NoneTurnsDead
<1>1. Shape /\ Budget /\ BudgetAccounted /\ Rest /\ Shape'
    BY EvictForPoolShape DEF IInv
<1>2. Budget' /\ BudgetAccounted'
    BY <1>1, EvictForPoolAccounts
<1>3. PICK victim \in ReadyModels :
         /\ slots' = [slots EXCEPT ![victim] = Nobody]
         /\ load' = [Flagged({victim}) EXCEPT ![g].pc = "loading", ![g].cap = DesiredBytes,
                                              ![g].halvings = 0]
         /\ used_before' = UsedAmong(ReadyModels \ {victim})
    BY DEF EvictForPool
<1> DEFINE V == {victim}
           F == Flagged(V)
<1>4. /\ V \in SUBSET ReadyModels /\ registry' = registry
      /\ \A x \in Models : slots'[x].state = "Ready" <=> x \in ReadyModels /\ x \notin V
      /\ \A x \in Models : x \notin V => slots'[x].gen = slots[x].gen
    BY <1>1, <1>3 DEF EvictForPool, ReadyModels, Nobody, Shape, SlotTypes
<1>5. /\ F \in [Requests -> LoadRecord]
      /\ \A x \in Requests : F[x].kv_cache_bytes = load[x].kv_cache_bytes /\ F[x].pc = load[x].pc
    BY <1>1, <1>4, FlagsRaised
<1>6. load' = [F EXCEPT ![g] = [F[g] EXCEPT !.pc = "loading", !.cap = DesiredBytes, !.halvings = 0]]
    BY <1>3, <1>5
<1> HIDE DEF F
<1>7. \A x \in Requests : load'[x].kv_cache_bytes = F[x].kv_cache_bytes
                          /\ load'[x].pc = IF x = g THEN "loading" ELSE F[x].pc
    <2>1. \A x \in Requests : F[x] \in LoadRecord
        BY <1>5
    <2>2. QED
        BY <1>5, <1>6, <2>1 DEF LoadRecord
<1> HIDE DEF V
<1>8. Rest'
    <2>1. used_before' = UsedAmong(ReadyModels \ V)
        BY <1>3 DEF V
    <2>2. QED
        BY <1>1, <1>4, <1>5, <1>7, <2>1, RestEvicted
<1>9. NoneTurnsDead
    <2>1. \A n \in Models : slots[n].state = "Ready" => slots[n].gen \in Requests
        BY <1>1 DEF Shape, SlotTypes, SlotsOwned
    <2>2. \A x \in Requests : load[x].pc # "gone" => load'[x].pc # "gone"
        BY <1>5, <1>7
    <2>3. QED
        BY <2>1, <2>2 DEF NoneTurnsDead
<1>10. QED
    BY <1>1, <1>2, <1>8, <1>9 DEF IInv

\* The guard of an engine that ends takes the slot, if it is this engine's.
LEMMA DropGuardIInv ==
    ASSUME IInv, NEW g \in Requests, DropGuard(g)
    PROVE  IInv' /\ NoneTurnsDead
<1> DEFINE m == load[g].model
<1>1. Shape /\ Budget /\ BudgetAccounted /\ Rest /\ Shape'
    BY DropGuardShape DEF IInv
<1>2. Budget' /\ BudgetAccounted'
    BY <1>1, DropGuardAccounts
<1>3. load' = [load EXCEPT ![g].pc = "gone"] /\ m \in Models /\ registry' = registry
    BY <1>1, ModelKnown DEF DropGuard
<1>4. \A x \in Requests : load'[x].kv_cache_bytes = load[x].kv_cache_bytes /\ (x # g => load'[x] = load[x])
    BY <1>1, <1>3 DEF Shape, SlotTypes, LoadRecord
<1>5. CASE Stale(g)
    <2>1. /\ slots' = [slots EXCEPT ![m] = Nobody] /\ slots[m].gen = g
          /\ used_before' = UsedAmong(ReadyModels \ {m})
        BY <1>5 DEF DropGuard, Stale
    <2>2. m \in ReadyModels /\ g # "none" /\ \A n \in Models : slots[n].gen = g => n = m
        BY <1>1, <1>3, <2>1, SlotUnique, ManagerAssumption
    <2>3. /\ slots'[m].gen # g
          /\ \A x \in Models : slots'[x].state = "Ready" <=> x \in ReadyModels /\ x \notin {m}
          /\ \A x \in Models : x \notin {m} => slots'[x].gen = slots[x].gen
        BY <1>1, <1>3, <2>1, <2>2 DEF Shape, SlotTypes, Nobody, ReadyModels
    <2> HIDE DEF m
    <2>4. Rest'
        <3>1. {m} \in SUBSET ReadyModels
            BY <2>2
        <3>2. QED
            BY <1>1, <1>3, <1>4, <2>1, <2>3, <3>1, RestEvicted
    <2>5. NoneTurnsDead
        <3>1. \A n \in Models : slots[n].state = "Ready" => slots[n].gen \in Requests
            BY <1>1 DEF Shape, SlotTypes, SlotsOwned
        <3>2. QED
            BY <1>4, <2>1, <2>2, <2>3, <3>1 DEF NoneTurnsDead
    <2>6. QED
        BY <1>1, <1>2, <2>4, <2>5 DEF IInv
<1>6. CASE ~Stale(g)
    <2>1. slots' = slots /\ used_before' = used_before
        BY <1>6 DEF DropGuard
    <2>2. Rest'
        <3>1. registry' \in [Models -> Nat]
            BY <1>1, <1>3 DEF Rest
        <3>2. QED
            BY <1>1, <1>4, <2>1, <3>1, RestSame
    <2>3. NoneTurnsDead
        <3>1. \A n \in Models : slots[n].state = "Ready" => slots[n].gen \in Requests /\ slots[n].gen # g
            BY <1>1, <1>6, SlotUnique DEF Stale, Shape, SlotTypes, SlotsOwned
        <3>2. QED
            BY <1>4, <3>1 DEF NoneTurnsDead
    <2>4. QED
        BY <1>1, <1>2, <2>2, <2>3 DEF IInv
<1>7. QED
    BY <1>5, <1>6

LEMMA InstallerWakesIInv ==
    ASSUME IInv, NEW g \in Requests, InstallerWakes(g)
    PROVE  IInv' /\ NoneTurnsDead
<1>1. Shape /\ Budget /\ BudgetAccounted /\ Rest /\ Shape'
    BY InstallerWakesShape DEF IInv
<1>2. Budget' /\ BudgetAccounted'
    BY <1>1, InstallerWakesAccounts
<1>3. slots' = slots /\ used_before' = used_before /\ registry' = registry
    BY DEF InstallerWakes
<1>4. \A x \in Requests : load'[x].kv_cache_bytes = load[x].kv_cache_bytes /\ load'[x].pc = load[x].pc
    BY <1>1, InstallKeeps DEF InstallerWakes
<1>5. Rest'
    <2>1. registry' \in [Models -> Nat]
        BY <1>1, <1>3 DEF Rest
    <2>2. QED
        BY <1>1, <1>3, <1>4, <2>1, RestSame
<1>6. QED
    BY <1>1, <1>2, <1>4, <1>5, PcSame DEF IInv

LEMMA UnloadIInv ==
    ASSUME IInv, NEW g \in Requests, Unload(g)
    PROVE  IInv' /\ NoneTurnsDead
<1>1. Shape /\ Budget /\ BudgetAccounted /\ Rest /\ Shape'
    BY UnloadShape DEF IInv
<1>2. Budget' /\ BudgetAccounted'
    BY <1>1, UnloadAccounts
<1>3. slots' = slots /\ used_before' = used_before /\ registry' = registry
    BY DEF Unload
<1>4. \A x \in Requests : load'[x].kv_cache_bytes = load[x].kv_cache_bytes /\ load'[x].pc = load[x].pc
    BY <1>1, InstallKeeps DEF Unload
<1>5. Rest'
    <2>1. registry' \in [Models -> Nat]
        BY <1>1, <1>3 DEF Rest
    <2>2. QED
        BY <1>1, <1>3, <1>4, <2>1, RestSame
<1>6. QED
    BY <1>1, <1>2, <1>4, <1>5, PcSame DEF IInv

\* The slot of a load whose model does not stay was Loading, and goes.
LEMMA LoadLeaves ==
    ASSUME Shape, Shape', Rest, NEW g \in Requests, InFlight(g), NEW i \in {"done", "unloading"},
           load' = [load EXCEPT ![g].installer = i], slots' = [slots EXCEPT ![load[g].model] = Nobody],
           used_before' = used_before, registry' \in [Models -> Nat]
    PROVE  Rest' /\ NoneTurnsDead
<1>1. \A x \in Requests : load'[x].kv_cache_bytes = load[x].kv_cache_bytes /\ load'[x].pc = load[x].pc
    BY InstallKeeps
<1>2. /\ load[g].model \in Models /\ slots[load[g].model].gen = "none"
      /\ slots[load[g].model].state = "Loading" /\ slots'[load[g].model] = Nobody
      /\ \A m \in Models : m # load[g].model => slots'[m] = slots[m]
    BY LoadOver
<1>3. \A m \in Models : /\ slots'[m].state = "Ready" <=> slots[m].state = "Ready"
                        /\ slots'[m].gen = slots[m].gen
    BY <1>2 DEF Nobody
<1>4. QED
    BY <1>1, <1>3, RestSame, PcSame

LEMMA InstallDeadIInv ==
    ASSUME IInv, NEW g \in Requests, InstallDead(g)
    PROVE  IInv' /\ NoneTurnsDead
<1>1. Shape /\ Budget /\ BudgetAccounted /\ Rest /\ Shape'
    BY InstallDeadShape DEF IInv
<1>2. Budget' /\ BudgetAccounted'
    BY <1>1, InstallDeadAccounts
<1>3. /\ InFlight(g) /\ load' = [load EXCEPT ![g].installer = "done"]
      /\ slots' = [slots EXCEPT ![load[g].model] = Nobody] /\ used_before' = used_before
      /\ registry' = registry /\ registry \in [Models -> Nat]
    BY <1>1 DEF InstallDead, InFlight, Rest
<1>4. Rest' /\ NoneTurnsDead
    BY <1>1, <1>3, LoadLeaves
<1>5. QED
    BY <1>1, <1>2, <1>4 DEF IInv

LEMMA InstallFailedIInv ==
    ASSUME IInv, NEW g \in Requests, InstallFailed(g)
    PROVE  IInv' /\ NoneTurnsDead
<1>1. Shape /\ Budget /\ BudgetAccounted /\ Rest /\ Shape'
    BY InstallFailedShape DEF IInv
<1>2. Budget' /\ BudgetAccounted'
    BY <1>1, InstallFailedAccounts
<1>3. /\ InFlight(g) /\ load' = [load EXCEPT ![g].installer = "done"]
      /\ slots' = [slots EXCEPT ![load[g].model] = Nobody] /\ used_before' = used_before
      /\ registry' = registry /\ registry \in [Models -> Nat]
    BY <1>1 DEF InstallFailed, InFlight, Rest
<1>4. Rest' /\ NoneTurnsDead
    BY <1>1, <1>3, LoadLeaves
<1>5. QED
    BY <1>1, <1>2, <1>4 DEF IInv

LEMMA SizeIsNat ==
    ASSUME Shape, Rest, NEW g \in Requests, NEW m
    PROVE  [registry EXCEPT ![m] = SizeOf(g)] \in [Models -> Nat]
<1>1. WeightBytes \in Nat /\ load[g].kv_cache_bytes \in Nat
    BY ManagerAssumption, OwesIsNat
<1>2. SizeOf(g) \in Nat
    BY <1>1 DEF SizeOf
<1>3. registry \in [Models -> Nat]
    BY DEF Rest
<1>4. QED
    BY <1>2, <1>3

LEMMA InstallOverBudgetIInv ==
    ASSUME IInv, NEW g \in Requests, InstallOverBudget(g)
    PROVE  IInv' /\ NoneTurnsDead
<1>1. Shape /\ Budget /\ BudgetAccounted /\ Rest /\ Shape'
    BY InstallOverBudgetShape DEF IInv
<1>2. Budget' /\ BudgetAccounted'
    BY <1>1, InstallOverBudgetAccounts
<1>3. /\ InFlight(g) /\ load' = [load EXCEPT ![g].installer = "unloading"]
      /\ slots' = [slots EXCEPT ![load[g].model] = Nobody] /\ used_before' = used_before
      /\ registry' = [registry EXCEPT ![load[g].model] = SizeOf(g)]
    BY DEF InstallOverBudget, InFlight
<1>4. registry' \in [Models -> Nat]
    BY <1>1, <1>3, SizeIsNat
<1>5. Rest' /\ NoneTurnsDead
    BY <1>1, <1>3, <1>4, LoadLeaves
<1>6. QED
    BY <1>1, <1>2, <1>5 DEF IInv

LEMMA InstallReadyIInv ==
    ASSUME IInv, NEW g \in Requests, InstallReady(g)
    PROVE  IInv' /\ NoneTurnsDead
<1> DEFINE m == load[g].model
<1>1. Shape /\ Budget /\ BudgetAccounted /\ Rest /\ Shape'
    BY InstallReadyShape DEF IInv
<1>2. Budget' /\ BudgetAccounted'
    BY <1>1, InstallReadyAccounts
<1>3. /\ InFlight(g) /\ load' = [load EXCEPT ![g].installer = "done"]
      /\ slots' = [slots EXCEPT ![m] = Ready(g)] /\ used_before' = UsedLast(m)
      /\ registry' = [registry EXCEPT ![m] = SizeOf(g)]
    BY DEF InstallReady, InFlight
<1>4. registry' \in [Models -> Nat]
    BY <1>1, <1>3, SizeIsNat
<1>5. \A x \in Requests : load'[x].pc = load[x].pc
    BY <1>1, <1>3, InstallKeeps
<1>6. /\ m \in Models /\ slots[m].state = "Loading" /\ slots'[m] = Ready(g)
      /\ \A x \in Models : x # m => slots'[x] = slots[x]
    BY <1>1, <1>3, LoadOver
<1>7. ReadyModels' = ReadyModels \cup {m}
    BY <1>6 DEF ReadyModels, Ready
<1> HIDE DEF m
<1>8. OrderOK'
    BY <1>1, <1>3, <1>7, OrderLast DEF Rest
<1>9. MemoryWithinBudget'
    BY <1>1, MemoryInstalled
<1>10. NoneTurnsDead
    BY <1>1, <1>5, PcSame
<1>11. QED
    BY <1>1, <1>2, <1>4, <1>8, <1>9, <1>10 DEF IInv, Rest

LEMMA InitIInv == Init => IInv
<1> SUFFICES ASSUME Init PROVE IInv
    OBVIOUS
<1>1. /\ \A m \in Models : slots[m] = Nobody
      /\ \A r \in Requests : load[r] = NotStarted /\ request[r].at = "idle"
      /\ ReadyModels = {}
    BY DEF Init, ReadyModels, Nobody
<1>2. /\ NotStarted \in LoadRecord /\ Stage(NotStarted) /\ NotStarted.installer = "none"
      /\ NotStarted.pc = "none" /\ NotStarted.held = 0 /\ NotStarted.draft = 0
      /\ NotStarted.result = "none"
    BY DEF NotStarted, LoadRecord, Stage
<1>3. Nobody.state = "None" /\ Nobody.gen = "none" /\ Nobody.waiters = {}
    BY DEF Nobody
<1>4. SlotTypes
    BY <1>2 DEF Init, SlotTypes, Nobody
<1>5. Shape
    BY <1>1, <1>2, <1>3, <1>4 DEF Shape, Stages, SlotsOwned, SlotsLoading, Waiting, Told, InFlight
<1>6. total_bytes \in Nat /\ Ceiling \in Nat /\ IsFiniteSet(Requests)
    BY ManagerAssumption
<1>7. Budget
    BY <1>6 DEF Init, Budget
<1>8. BudgetAccounted
    <2>1. \A g \in Requests : Owed[g] = 0
        BY <1>1, <1>2 DEF Owed, Owes
    <2>2. SumFunctionOnSet(Owed, Requests) = 0
        BY <1>6, <2>1, SumZero
    <2>3. QED
        BY <1>5, <2>2, OwedSum DEF BudgetAccounted, Init
<1>9. OrderOK
    BY <1>1 DEF OrderOK, Init
<1>10. MemoryWithinBudget
    <2>1. TotalBytes({}) = 0
        BY SumEmpty DEF TotalBytes
    <2>2. QED
        BY <1>1, <1>6, <2>1 DEF MemoryWithinBudget
<1>11. registry \in [Models -> Nat]
    BY DEF Init
<1>12. QED
    BY <1>5, <1>7, <1>8, <1>9, <1>10, <1>11 DEF IInv, Rest

LEMMA NextIInv ==
    ASSUME IInv, Next
    PROVE  IInv' /\ NoneTurnsDead
<1>1. ASSUME NEW r \in Requests, NEW m \in Models, GetReady(r, m) \/ GetLoading(r, m) \/ GetAbsent(r, m)
      PROVE  IInv' /\ NoneTurnsDead
    BY <1>1, GetReadyIInv, GetLoadingIInv, GetAbsentIInv
<1>2. ASSUME NEW r \in Requests, DropHandle(r)
      PROVE  IInv' /\ NoneTurnsDead
    BY <1>2, DropHandleIInv
<1>3. CASE EvictExpired
    BY <1>3, EvictExpiredIInv
<1>4. ASSUME NEW g \in Requests,
             LoaderThread(g) \/ RetryHalved(g) \/ GiveUpHalving(g) \/ Panics(g)
      PROVE  IInv' /\ NoneTurnsDead
    <2>1. LoaderStep(g) \/ EvictForPool(g) \/ DropGuard(g)
        BY <1>4 DEF LoaderThread, LoaderStep
    <2>2. QED
        BY <2>1, LoaderStepIInv, EvictForPoolIInv, DropGuardIInv
<1>5. ASSUME NEW g \in Requests, Installer(g)
      PROVE  IInv' /\ NoneTurnsDead
    BY <1>5, InstallerWakesIInv, InstallDeadIInv, InstallReadyIInv, InstallOverBudgetIInv,
       UnloadIInv, InstallFailedIInv DEF Installer
<1>6. QED
    BY <1>1, <1>2, <1>3, <1>4, <1>5 DEF Next

LEMMA StutterIInv ==
    ASSUME IInv, UNCHANGED vars
    PROVE  IInv'
<1>1. Shape'
    BY DEF IInv, Shape, SlotTypes, Stages, SlotsOwned, SlotsLoading, Waiting, Told, InFlight, vars
<1>2. Budget' /\ BudgetAccounted'
    <2>1. \A x \in Requests : Owes(x)' = Owes(x)
        BY DEF Owes, InFlight, vars
    <2>2. QED
        BY <2>1, BudgetStays DEF IInv, vars
<1>3. Rest'
    <2>1. registry' \in [Models -> Nat]
        BY DEF IInv, Rest, vars
    <2>2. QED
        BY <1>1, <2>1, RestSame DEF IInv, vars
<1>4. QED
    BY <1>1, <1>2, <1>3 DEF IInv

\* Every reachable state satisfies the inductive invariant.
THEOREM ManagerInvariant == Spec => []IInv
<1>1. IInv /\ [Next]_vars => IInv'
    BY NextIInv, StutterIInv
<1>2. QED
    BY InitIInv, <1>1, PTL DEF Spec

-----------------------------------------------------------------------------
(* The results.                                                            *)

\* Type correctness, with it that the order of last use is a total order of
\* the Ready models (so that there is one to evict), and that the budget's
\* counter never exceeds its total.
THEOREM ManagerTypeCorrect == Spec => []TypeOK
<1>1. IInv => TypeOK
    BY DEF IInv, Shape, SlotTypes, LoadRecord, Budget, Rest, OrderOK, TypeOK
<1>2. QED
    BY <1>1, ManagerInvariant, PTL

\* A Loading slot has exactly one load, and every waiter is on its list.
THEOREM OneLoadEachHolds == Spec => []OneLoadEach
<1>1. ASSUME IInv PROVE OneLoadEach
    <2>1. ASSUME NEW m \in Models
          PROVE  Cardinality({g \in Requests : load[g].model = m /\ InFlight(g)})
                    = IF slots[m].state = "Loading" THEN 1 ELSE 0
        <3> DEFINE L == {g \in Requests : load[g].model = m /\ InFlight(g)}
        <3>1. CASE slots[m].state = "Loading"
            <4>1. PICK g \in Requests : InFlight(g) /\ load[g].model = m
                BY <1>1, <3>1 DEF IInv, Shape, SlotsLoading
            <4>2. L = {g}
                BY <1>1, <4>1 DEF IInv, Shape, SlotsLoading
            <4>3. Cardinality({g}) = 1
                BY FS_Singleton
            <4>4. QED
                BY <3>1, <4>2, <4>3
        <3>2. CASE slots[m].state # "Loading"
            <4>1. L = {}
                BY <1>1, <3>2 DEF IInv, Shape, SlotsLoading
            <4>2. Cardinality({}) = 0
                BY FS_EmptySet
            <4>3. QED
                BY <3>2, <4>1, <4>2
        <3>3. QED
            BY <3>1, <3>2
    <2>2. \A r \in Requests : request[r].at = "waiting" =>
             \E m \in Models : slots[m].state = "Loading" /\ r \in slots[m].waiters
        BY <1>1 DEF IInv, Shape, Waiting
    <2>3. QED
        BY <2>1, <2>2 DEF OneLoadEach
<1>2. QED
    BY <1>1, ManagerInvariant, PTL

\* An installed engine is registered exactly as long as it has not been told
\* to end.
THEOREM EngineToldIffRemovedHolds == Spec => []EngineToldIffRemoved
<1>1. ASSUME IInv PROVE EngineToldIffRemoved
    <2> SUFFICES ASSUME NEW g \in Requests, load[g].installer = "done",
                        load[g].pc \in {"sent", "drafting", "running"}
                 PROVE  (\E m \in Models : slots[m].gen = g) <=> ~load[g].shutdown
        BY DEF EngineToldIffRemoved
    <2>1. Shape /\ load[g].pc \in Live
        BY <1>1 DEF IInv, Live
    <2>2. ASSUME NEW m \in Models, slots[m].gen = g
          PROVE  ~load[g].shutdown
        BY <2>1, <2>2, SlotUnique
    <2>3. ASSUME ~load[g].shutdown
          PROVE  \E m \in Models : slots[m].gen = g
        BY <2>1, <2>3, ModelKnown DEF Shape, Told
    <2>4. QED
        BY <2>2, <2>3
<1>2. QED
    BY <1>1, ManagerInvariant, PTL

\* The budget is charged for what loads and models will give back, and for
\* what was lost, and for nothing else: for any number of models, loads in
\* flight, evictions and panics.
THEOREM BudgetAlwaysAccounted == Spec => []BudgetAccounted
<1>1. IInv => BudgetAccounted
    BY DEF IInv
<1>2. QED
    BY <1>1, ManagerInvariant, PTL

\* With an explicit budget the Ready models never hold more than it allows.
THEOREM MemoryAlwaysWithinBudget == Spec => []MemoryWithinBudget
<1>1. IInv => MemoryWithinBudget
    BY DEF IInv, Rest
<1>2. QED
    BY <1>1, ManagerInvariant, PTL

\* No step ends the thread of a registered engine that has its guard and leaves
\* the engine registered, whatever panics while whatever is loaded and evicted.
THEOREM NoGuardedSlotEverTurnsDead == Spec => NoGuardedSlotTurnsDead
<1>1. IInv /\ [Next]_vars => [\A m \in Models :
          /\ slots[m].state = "Ready" /\ slots'[m] = slots[m]
          /\ load[slots[m].gen].pc \in {"running", "closing"}
          => load'[slots[m].gen].pc # "gone"]_vars
    BY NextIInv DEF NoneTurnsDead
<1>2. QED
    BY <1>1, ManagerInvariant, PTL DEF Spec, NoGuardedSlotTurnsDead

=============================================================================
