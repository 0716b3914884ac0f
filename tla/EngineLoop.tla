----------------------------- MODULE EngineLoop -----------------------------
(***************************************************************************)
(* server/routes/engine_loop.rs: the thread that owns an engine, between   *)
(* the request handlers and the model manager.  Requests arrive on a       *)
(* bounded channel, every accepted sequence has a tracker holding the      *)
(* sending half of its response channel, and eviction closes the request   *)
(* channel and raises the shutdown flag.  The engine is the service of     *)
(* GenerationService, with or without a draft model (Engine implements the *)
(* one without).  Text, reasoning, harmony framing, logprobs and metrics   *)
(* are abstracted to whether a token sends an event and whether it         *)
(* completes a stop string.                                                *)
(***************************************************************************)
EXTENDS GenerationService, FiniteSets

CONSTANTS QueueCapacity,   \* max_queued_requests, the bound of the request channel
          MayPanic         \* whether the engine thread may die of a panic

ASSUME LoopAssumption ==
    QueueCapacity \in Nat \ {0} /\ MayPanic \in BOOLEAN /\ IsFiniteSet(Ids)

VARIABLES
    request_queue,       \* requests sent and not yet received by the loop
    slot_open,           \* the manager's slot still holds a Sender
    shutdown,            \* the flag eviction raises
    pc,                  \* where the loop stands
    trackers,            \* the ids that have a SeqTracker
    consecutive_errors,
    new_tokens,          \* whose the tokens of this step are that are still to be routed
    completed,           \* the ids this step completed
    disconnected_ids,    \* the ids whose send failed in this step
    stopped_ids,         \* the ids that hit a stop string in this step
    events,              \* id -> what its response channel has carried, a run of
                         \* text events as one
    client,              \* id -> where the handler of the request stands
    late_steps           \* history: id -> steps that gave it tokens after its client left

loopVars == <<trackers, consecutive_errors, new_tokens, completed,
              disconnected_ids, stopped_ids>>
vars == <<outcome, output, cap, request_queue, slot_open, shutdown, pc, trackers,
          consecutive_errors, new_tokens, completed, disconnected_ids, stopped_ids,
          events, client, late_steps>>

MAX_CONSECUTIVE_ERRORS == 3

-----------------------------------------------------------------------------

Init ==
    /\ ServiceInit
    /\ request_queue = <<>> /\ slot_open = TRUE /\ shutdown = FALSE
    /\ pc = "top"
    /\ trackers = {} /\ consecutive_errors = 0 /\ new_tokens = <<>> /\ completed = {}
    /\ disconnected_ids = {} /\ stopped_ids = {}
    /\ events = [id \in Ids |-> <<>>]
    /\ client = [id \in Ids |-> "idle"]
    /\ late_steps = [id \in Ids |-> 0]

\* A send on a response channel whose receiver is gone is lost.
Sent(ids, evs) ==
    [id \in Ids |-> IF id \in ids /\ client[id] = "waiting" THEN events[id] \o evs ELSE events[id]]

\* abort_sequence in the engine, which ignores an id it no longer knows.
AbortedOutcome(ids) ==
    [id \in Ids |-> IF id \in ids /\ outcome[id] = "pending" THEN "aborted" ELSE outcome[id]]

\* The channel stays open while the slot or a handler holds a Sender.  Seeded
\* fault: the guard on the engine's own thread holds one as well.
SendersWithGuard == pc # "gone"
SendersAlive == slot_open \/ \E id \in Ids : client[id] \in {"holding", "waiting"}

-----------------------------------------------------------------------------

\* enqueue_request: what cannot fit the KV cache is refused at once, anything
\* else gets a sequence and a tracker.
enqueue_request(id) ==
    \/ \E max \in Caps :
          /\ Accept(id, max)
          /\ trackers' = trackers \cup {id}
          /\ UNCHANGED events
    \/ /\ events' = Sent({id}, <<"error", "end">>)
       /\ UNCHANGED <<outcome, output, cap, trackers>>

\* The flag is read only here, at the top of an iteration.  Seeded fault: the
\* loop waits for a request although it has work.
LoopTopParks ==
    /\ pc = "top"
    /\ pc' = IF shutdown THEN "exit" ELSE "recv"
    /\ UNCHANGED <<outcome, output, cap, request_queue, slot_open, shutdown, events, client, late_steps>>
    /\ UNCHANGED loopVars

LoopTop ==
    /\ pc = "top"
    /\ pc' = IF shutdown THEN "exit" ELSE IF Pending # {} THEN "drain" ELSE "recv"
    /\ UNCHANGED <<outcome, output, cap, request_queue, slot_open, shutdown, events, client, late_steps>>
    /\ UNCHANGED loopVars

TryRecv ==
    /\ pc = "drain" /\ request_queue # <<>>
    /\ enqueue_request(Head(request_queue))
    /\ request_queue' = Tail(request_queue)
    /\ UNCHANGED <<slot_open, shutdown, pc, consecutive_errors, new_tokens, completed,
                   disconnected_ids, stopped_ids, client, late_steps>>

DrainDone ==
    /\ pc = "drain" /\ request_queue = <<>>
    /\ pc' = "sweep"
    /\ UNCHANGED <<outcome, output, cap, request_queue, slot_open, shutdown, events, client, late_steps>>
    /\ UNCHANGED loopVars

\* blocking_recv: an idle loop sleeps until a request arrives or nobody can send.
BlockingRecv ==
    /\ pc = "recv" /\ request_queue # <<>>
    /\ enqueue_request(Head(request_queue))
    /\ request_queue' = Tail(request_queue)
    /\ pc' = "sweep"
    /\ UNCHANGED <<slot_open, shutdown, consecutive_errors, new_tokens, completed,
                   disconnected_ids, stopped_ids, client, late_steps>>

ChannelClosed ==
    /\ pc = "recv" /\ request_queue = <<>> /\ ~SendersAlive
    /\ pc' = "exit"
    /\ UNCHANGED <<outcome, output, cap, request_queue, slot_open, shutdown, events, client, late_steps>>
    /\ UNCHANGED loopVars

\* The sweep before a step: sequences nobody listens to any more are aborted.
\* Seeded fault: only their trackers go.
ClosedTrackers == {id \in trackers : client[id] # "waiting"}

SweepTrackersOnly ==
    /\ pc = "sweep"
    /\ trackers' = trackers \ ClosedTrackers
    /\ pc' = IF Pending = {} THEN "top" ELSE "step"
    /\ UNCHANGED <<outcome, output, cap, request_queue, slot_open, shutdown,
                   consecutive_errors, new_tokens, completed, disconnected_ids,
                   stopped_ids, events, client, late_steps>>

Sweep ==
    /\ pc = "sweep"
    /\ trackers' = trackers \ ClosedTrackers
    /\ outcome' = AbortedOutcome(ClosedTrackers)
    /\ cap' = CapsAfter
    /\ pc' = IF \A id \in Ids : outcome'[id] # "pending" THEN "top" ELSE "step"
    /\ UNCHANGED <<output, request_queue, slot_open, shutdown, consecutive_errors,
                   new_tokens, completed, disconnected_ids, stopped_ids, events, client, late_steps>>

-----------------------------------------------------------------------------

\* StepOutput.new_tokens, one Vec: each request's tokens stand together.
NewTokens(count) ==
    {v \in SeqOf(Ids, MaxStepTokens * Cardinality(Ids)) :
        /\ \A id \in Ids : Cardinality({i \in DOMAIN v : v[i] = id}) = count[id]
        /\ \A i, k \in DOMAIN v : v[i] = v[k] => \A j \in i .. k : v[j] = v[i]}

\* engine.step() returned Ok: its tokens and completions are to be handed out.
StepOk ==
    /\ pc = "step"
    /\ StepDelivers
    /\ new_tokens' \in NewTokens([id \in Ids |-> Len(output'[id]) - Len(output[id])])
    /\ completed' = {id \in Pending : outcome'[id] # "pending"}
    /\ late_steps' = [id \in Ids |-> IF client[id] = "left" /\ output'[id] # output[id]
                                     THEN late_steps[id] + 1 ELSE late_steps[id]]
    /\ consecutive_errors' = 0
    /\ pc' = "route"
    /\ UNCHANGED <<request_queue, slot_open, shutdown, trackers, disconnected_ids,
                   stopped_ids, events, client>>

\* One token: it may send nothing (framing, hidden reasoning, an incomplete
\* character, a possible stop string), text, or the text before a stop string.
\* What follows a stop string in the same step is dropped.
RouteToken ==
    LET id == Head(new_tokens) IN
    /\ pc = "route" /\ new_tokens # <<>>
    /\ new_tokens' = Tail(new_tokens)
    /\ IF id \in trackers \ stopped_ids
       THEN \E sends \in BOOLEAN, stops \in BOOLEAN :
               /\ events' = IF sends /\ events[id] = <<>> THEN Sent({id}, <<"text">>) ELSE events
               /\ disconnected_ids' = IF sends /\ client[id] # "waiting"
                                      THEN disconnected_ids \cup {id} ELSE disconnected_ids
               /\ stopped_ids' = IF stops THEN stopped_ids \cup {id} ELSE stopped_ids
       ELSE UNCHANGED <<events, disconnected_ids, stopped_ids>>
    /\ UNCHANGED <<outcome, output, cap, request_queue, slot_open, shutdown, pc, trackers,
                   consecutive_errors, completed, client, late_steps>>

\* abort_sequences over the failed sends.
AbortDisconnected ==
    /\ pc = "route" /\ new_tokens = <<>>
    /\ trackers' = trackers \ disconnected_ids
    /\ outcome' = AbortedOutcome(disconnected_ids)
    /\ cap' = CapsAfter
    /\ disconnected_ids' = {}
    /\ pc' = "stopped"
    /\ UNCHANGED <<output, request_queue, slot_open, shutdown, consecutive_errors,
                   new_tokens, completed, stopped_ids, events, client, late_steps>>

\* What is left of a response: the text its decoders may still hold, and the end.
Rest(id, flushes) ==
    (IF flushes /\ events[id] = <<>> THEN <<"text">> ELSE <<>>) \o <<"finish", "end">>

\* finish_tracker with reason "stop", after aborting the sequence.  Seeded
\* faults: the tracker stays, or the sequence runs on.
FinishStoppedKeepsTracker ==
    /\ pc = "stopped"
    /\ \E id \in stopped_ids, flushes \in BOOLEAN :
          /\ stopped_ids' = stopped_ids \ {id}
          /\ IF id \in trackers
             THEN /\ outcome' = AbortedOutcome({id})
                  /\ cap' = CapsAfter
                  /\ events' = Sent({id}, Rest(id, flushes))
             ELSE UNCHANGED <<outcome, cap, events>>
    /\ UNCHANGED <<output, request_queue, slot_open, shutdown, pc, trackers,
                   consecutive_errors, new_tokens, completed, disconnected_ids, client, late_steps>>

FinishStoppedRunsOn ==
    /\ pc = "stopped"
    /\ \E id \in stopped_ids, flushes \in BOOLEAN :
          /\ stopped_ids' = stopped_ids \ {id}
          /\ trackers' = trackers \ {id}
          /\ events' = IF id \in trackers THEN Sent({id}, Rest(id, flushes)) ELSE events
    /\ UNCHANGED <<outcome, output, cap, request_queue, slot_open, shutdown, pc,
                   consecutive_errors, new_tokens, completed, disconnected_ids, client, late_steps>>

FinishStopped ==
    /\ pc = "stopped"
    /\ \E id \in stopped_ids, flushes \in BOOLEAN :
          /\ stopped_ids' = stopped_ids \ {id}
          /\ IF id \in trackers
             THEN /\ trackers' = trackers \ {id}
                  /\ outcome' = AbortedOutcome({id})
                  /\ cap' = CapsAfter
                  /\ events' = Sent({id}, Rest(id, flushes))
             ELSE UNCHANGED <<trackers, outcome, cap, events>>
    /\ UNCHANGED <<output, request_queue, slot_open, shutdown, pc, consecutive_errors,
                   new_tokens, completed, disconnected_ids, client, late_steps>>

\* A completed sequence flushes what its decoder and scanner still hold.
FinishCompleted ==
    /\ pc = "stopped" /\ stopped_ids = {}
    /\ \E id \in completed, flushes \in BOOLEAN :
          /\ completed' = completed \ {id}
          /\ trackers' = trackers \ {id}
          /\ events' = IF id \in trackers THEN Sent({id}, Rest(id, flushes)) ELSE events
    /\ UNCHANGED <<outcome, output, cap, request_queue, slot_open, shutdown, pc,
                   consecutive_errors, new_tokens, disconnected_ids, stopped_ids, client, late_steps>>

StepDone ==
    /\ pc = "stopped" /\ stopped_ids = {} /\ completed = {}
    /\ pc' = "top"
    /\ UNCHANGED <<outcome, output, cap, request_queue, slot_open, shutdown, events, client, late_steps>>
    /\ UNCHANGED loopVars

\* Seeded fault: the aborted sequences lose their trackers and hear nothing.
StepErrSilent ==
    /\ pc = "step"
    /\ StepErrs
    /\ trackers' = {id \in trackers : outcome'[id] # "error"}
    /\ pc' = "top"
    /\ UNCHANGED <<request_queue, slot_open, shutdown, consecutive_errors, new_tokens,
                   completed, disconnected_ids, stopped_ids, events, client, late_steps>>

\* engine.step() failed: abort_running, or abort_all at the third error in a
\* row; every aborted sequence hears of it.
StepErr ==
    /\ pc = "step"
    /\ StepErrs
    /\ consecutive_errors + 1 >= MAX_CONSECUTIVE_ERRORS
         => \A id \in Pending : outcome'[id] = "error"
    /\ LET failed == {id \in Pending : outcome'[id] = "error"}
       IN  /\ trackers' = trackers \ failed
           /\ events' = Sent(failed \cap trackers, <<"error", "end">>)
    /\ consecutive_errors' = IF consecutive_errors < MAX_CONSECUTIVE_ERRORS
                             THEN consecutive_errors + 1 ELSE consecutive_errors
    /\ pc' = "top"
    /\ UNCHANGED <<request_queue, slot_open, shutdown, new_tokens, completed,
                   disconnected_ids, stopped_ids, client, late_steps>>

-----------------------------------------------------------------------------

\* The way out: every tracker hears "Model unloaded", then the engine and the
\* receiver are dropped, and with the receiver whatever is still queued.
ExitDrain ==
    /\ pc = "exit"
    /\ events' = Sent(trackers, <<"error", "end">>)
    /\ trackers' = {}
    /\ pc' = "dropping"
    /\ UNCHANGED <<outcome, output, cap, request_queue, slot_open, shutdown,
                   consecutive_errors, new_tokens, completed, disconnected_ids,
                   stopped_ids, client, late_steps>>

\* The slot guard then removes a slot that still points to this engine.
LoopGone ==
    /\ pc = "dropping"
    /\ request_queue' = <<>>
    /\ outcome' = AbortedOutcome(Ids)
    /\ cap' = CapsAfter
    /\ slot_open' = FALSE
    /\ pc' = "gone"
    /\ UNCHANGED <<output, shutdown, events, client, late_steps>> /\ UNCHANGED loopVars

\* A panic in a kernel unwinds the thread: trackers and queue go unanswered.
Panic ==
    /\ MayPanic /\ pc = "step"
    /\ request_queue' = <<>> /\ trackers' = {}
    /\ outcome' = AbortedOutcome(Ids)
    /\ cap' = CapsAfter
    /\ slot_open' = FALSE
    /\ pc' = "gone"
    /\ UNCHANGED <<output, shutdown, consecutive_errors, new_tokens, completed,
                   disconnected_ids, stopped_ids, events, client, late_steps>>

-----------------------------------------------------------------------------

environment == <<outcome, output, cap, pc, trackers, consecutive_errors, new_tokens,
                 completed, disconnected_ids, stopped_ids, events>>

\* Eviction drops the slot's Sender and then raises the flag.
EvictSlot ==
    /\ slot_open
    /\ slot_open' = FALSE
    /\ UNCHANGED <<request_queue, shutdown, client, late_steps>> /\ UNCHANGED environment

RaiseShutdown ==
    /\ ~slot_open /\ ~shutdown /\ pc # "gone"
    /\ shutdown' = TRUE
    /\ UNCHANGED <<request_queue, slot_open, client, late_steps>> /\ UNCHANGED environment

\* A handler takes a ReadyHandle from the slot, then try_sends its request.
TakeHandle(id) ==
    /\ client[id] = "idle" /\ slot_open
    /\ client' = [client EXCEPT ![id] = "holding"]
    /\ UNCHANGED <<request_queue, slot_open, shutdown, late_steps>> /\ UNCHANGED environment

\* The receiver lives and the channel has room.
CanSend == pc # "gone" /\ Len(request_queue) < QueueCapacity

TrySend(id) ==
    /\ client[id] = "holding"
    /\ IF CanSend
       THEN /\ request_queue' = Append(request_queue, id)
            /\ client' = [client EXCEPT ![id] = "waiting"]
       ELSE /\ client' = [client EXCEPT ![id] = "refused"]
            /\ UNCHANGED request_queue
    /\ UNCHANGED <<slot_open, shutdown, late_steps>> /\ UNCHANGED environment

\* A timeout or a client disconnect drops the receiver.
Leave(id) ==
    /\ client[id] = "waiting"
    /\ client' = [client EXCEPT ![id] = "left"]
    /\ UNCHANGED <<request_queue, slot_open, shutdown, late_steps>> /\ UNCHANGED environment

Carries(id, event) == \E i \in DOMAIN events[id] : events[id][i] = event

\* Nobody can send to the handler any more: its Sender sat in the queue or in a
\* tracker that is gone.
ChannelEnded(id) ==
    /\ id \notin trackers
    /\ \A i \in DOMAIN request_queue : request_queue[i] # id

\* collect_one_completion: an error event is a 500, and StreamEnd or the end of
\* the channel a completion.
Collect(id) ==
    /\ client[id] = "waiting"
    /\ \/ /\ Carries(id, "error")
          /\ client' = [client EXCEPT ![id] = "failed"]
       \/ /\ ~Carries(id, "error")
          /\ Carries(id, "end") \/ ChannelEnded(id)
          /\ client' = [client EXCEPT ![id] = "ok"]
    /\ UNCHANGED <<request_queue, slot_open, shutdown, late_steps>> /\ UNCHANGED environment

-----------------------------------------------------------------------------

LoopThread ==
    \/ LoopTop \/ TryRecv \/ DrainDone \/ BlockingRecv \/ ChannelClosed \/ Sweep
    \/ StepOk \/ RouteToken \/ AbortDisconnected \/ FinishStopped \/ FinishCompleted
    \/ StepDone \/ StepErr \/ ExitDrain \/ LoopGone

Handler(id) == TrySend(id) \/ Collect(id)

Next ==
    \/ LoopThread \/ Panic
    \/ EvictSlot \/ RaiseShutdown
    \/ \E id \in Ids : TakeHandle(id) \/ Handler(id) \/ Leave(id)

Spec == Init /\ [][Next]_vars

\* The engine ends a sequence it is stepped with for ever: Engine's
\* EveryRequestEnds, with a draft model SpeculativeDecode's GenerationEnds.
EngineEnds(id) == []<>(pc = "step" /\ id \in Pending) => []<>(id \notin Pending)

\* The loop thread and the handlers keep running, and eviction finishes what it
\* began.
FairSpec ==
    /\ Spec
    /\ WF_vars(LoopThread) /\ WF_vars(RaiseShutdown)
    /\ \A id \in Ids : WF_vars(Handler(id)) /\ EngineEnds(id)

-----------------------------------------------------------------------------

TypeOK ==
    /\ outcome \in [Ids -> {"new", "pending", "stop", "length", "aborted", "error"}]
    /\ output \in [Ids -> Seq(Tokens)]
    /\ request_queue \in Seq(Ids) /\ Len(request_queue) <= QueueCapacity
    /\ slot_open \in BOOLEAN /\ shutdown \in BOOLEAN
    /\ pc \in {"top", "drain", "recv", "sweep", "step", "route", "stopped", "exit",
               "dropping", "gone"}
    /\ trackers \cup completed \cup disconnected_ids \cup stopped_ids \subseteq Ids
    /\ new_tokens \in Seq(Ids)
    /\ consecutive_errors \in 0 .. MAX_CONSECUTIVE_ERRORS
    /\ events \in [Ids -> Seq({"text", "finish", "error", "end"})]
    /\ client \in [Ids -> {"idle", "holding", "waiting", "refused", "left", "failed", "ok"}]
    /\ late_steps \in [Ids -> Nat]

\* Between iterations the trackers are exactly the sequences in the engine: a
\* token, a completion or an error always finds its channel, and no sequence
\* generates for a channel that was dropped.
TrackersMatch == pc \in {"top", "recv", "step"} => trackers = Pending

\* A response channel carries text, then one Finish or one Error, then
\* StreamEnd, and nothing after it, however stops, completions, disconnects,
\* errors and unloading meet in one step.
StreamWellFormed ==
    \A id \in Ids : \A i \in DOMAIN events[id] :
        /\ events[id][i] \in {"finish", "error"}
              => Len(events[id]) = i + 1 /\ events[id][i + 1] = "end"
        /\ events[id][i] = "end"
              => i > 1 /\ events[id][i - 1] \in {"finish", "error"}

\* A handler that reports a completion has seen its StreamEnd.
OkMeansStreamEnd == \A id \in Ids : client[id] = "ok" => Carries(id, "end")

\* The same while the model stays loaded: only an exit of the loop can cut a
\* response channel short.
OkMeansStreamEndWhileLoaded ==
    pc # "gone" => OkMeansStreamEnd

\* Every handler that waits hears something, whatever happens to the engine.
EveryWaiterHears == \A id \in Ids : client[id] = "waiting" ~> client[id] # "waiting"

\* A sequence whose client left is generated for by no step but the one under
\* way: nobody tells the loop, it notices the closed channel before the next.
LeaverCostsOneStep == \A id \in Ids : late_steps[id] <= 1

\* An evicted model goes away, also when its loop is parked in blocking_recv and
\* will never read the flag: the last Sender closes the channel.
EvictionEndsLoop == ~slot_open ~> pc = "gone"

=============================================================================
