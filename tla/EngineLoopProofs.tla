--------------------------- MODULE EngineLoopProofs ---------------------------
(***************************************************************************)
(* Proofs about EngineLoop, for any number of requests and tokens, any     *)
(* queue capacity and any order of the handlers' steps: between iterations *)
(* trackers and sequences match, every response channel is well formed, a  *)
(* completion was seen to its end while the model is loaded, and a client  *)
(* that left costs at most the step under way.                             *)
(***************************************************************************)
EXTENDS EngineLoop, SequenceTheorems, FiniteSetTheorems, TLAPS

Event == {"text", "finish", "error", "end"}

Queued(id) == \E i \in DOMAIN request_queue : request_queue[i] = id

\* A request the engine has not heard of.
Fresh(id) == outcome[id] = "new" /\ id \notin trackers /\ events[id] = <<>>

\* What StreamWellFormed says of one channel; a channel is open until its
\* Finish or Error.
WellFormed(s) ==
    \A i \in DOMAIN s :
        /\ s[i] \in {"finish", "error"} => Len(s) = i + 1 /\ s[i + 1] = "end"
        /\ s[i] = "end" => i > 1 /\ s[i - 1] \in {"finish", "error"}
OpenStream(s) == \A i \in DOMAIN s : s[i] = "text"
EndedStream(s) == \E i \in DOMAIN s : s[i] = "end"

-----------------------------------------------------------------------------
(* The parts of the inductive invariant.                                   *)

\* A request is sent at most once, and is new to the engine until it is
\* received.
QueueFresh ==
    /\ \A i, j \in DOMAIN request_queue : request_queue[i] = request_queue[j] => i = j
    /\ \A id \in Ids : Queued(id) => Fresh(id) /\ client[id] \in {"waiting", "left"}
    /\ \A id \in Ids : client[id] \in {"idle", "holding", "refused"} => Fresh(id) /\ ~Queued(id)

\* TrackersMatch at every point of an iteration: while a step's results are
\* handed out the completed sequences keep their trackers.
TrackersAt ==
    /\ pc \in {"top", "drain", "recv", "sweep", "step", "exit"} => trackers = Pending
    /\ pc \in {"route", "stopped"} =>
          /\ Pending \subseteq trackers /\ trackers \subseteq Pending \cup completed
          /\ completed \cap Pending = {}
    /\ pc \in {"dropping", "gone"} => trackers = {}

\* A tracker's channel has not ended, and a failed send means that the client
\* left.
TrackedOpen ==
    /\ \A id \in trackers : client[id] \in {"waiting", "left"} /\ OpenStream(events[id])
    /\ \A id \in disconnected_ids : client[id] = "left"

\* Whoever waits has a Sender somewhere, or an end to read.
WaiterServed ==
    pc # "gone" => \A id \in Ids :
        client[id] = "waiting" => Queued(id) \/ id \in trackers \/ EndedStream(events[id])

\* A sequence that is about to be stepped was wanted at the last sweep, and has
\* got nothing since its client left.
LeaverBound ==
    \A id \in Ids :
        /\ late_steps[id] <= 1
        /\ client[id] # "left" => late_steps[id] = 0
        /\ pc = "step" /\ id \in Pending => late_steps[id] = 0

\* StreamWellFormed and OkMeansStreamEndWhileLoaded, channel by channel.
StreamsGood ==
    \A id \in Ids : /\ WellFormed(events[id])
                    /\ pc # "gone" /\ client[id] = "ok" => EndedStream(events[id])

IInv ==
    /\ TypeOK /\ QueueFresh /\ TrackersAt /\ TrackedOpen
    /\ WaiterServed /\ StreamsGood /\ LeaverBound

-----------------------------------------------------------------------------
(* Streams.                                                                *)

LEMMA EventSequences ==
    /\ <<"text">> \in Seq(Event) /\ Len(<<"text">>) = 1
    /\ \A x \in Event : <<x, "end">> \in Seq(Event) /\ Len(<<x, "end">>) = 2
    /\ <<"text", "finish", "end">> \in Seq(Event) /\ Len(<<"text", "finish", "end">>) = 3
    /\ <<>> \in Seq(Event)
BY DEF Event

\* Text keeps a channel open.
LEMMA TextKeepsOpen ==
    ASSUME NEW s \in Seq(Event), OpenStream(s)
    PROVE  s \o <<"text">> \in Seq(Event) /\ OpenStream(s \o <<"text">>)
BY EventSequences, ConcatProperties, LenProperties DEF OpenStream

\* An open channel is well formed.
LEMMA OpenIsWellFormed ==
    ASSUME NEW s \in Seq(Event), OpenStream(s)
    PROVE  WellFormed(s) /\ ~EndedStream(s)
BY DEF OpenStream, WellFormed, EndedStream

\* A Finish or an Error and the StreamEnd end an open channel.
LEMMA EndsWell ==
    ASSUME NEW s \in Seq(Event), OpenStream(s), NEW x \in {"finish", "error"}
    PROVE  LET t == s \o <<x, "end">>
           IN  t \in Seq(Event) /\ WellFormed(t) /\ EndedStream(t)
<1> DEFINE e == <<x, "end">>
           t == s \o e
<1>1. e \in Seq(Event) /\ Len(e) = 2 /\ e[1] = x /\ e[2] = "end"
    BY EventSequences DEF Event
<1>2. /\ t \in Seq(Event) /\ Len(t) = Len(s) + 2 /\ DOMAIN t = 1 .. Len(s) + 2
      /\ \A i \in 1 .. Len(s) : t[i] = s[i]
      /\ t[Len(s) + 1] = x /\ t[Len(s) + 2] = "end"
    <2> HIDE DEF e
    <2>1. Len(s) \in Nat
        BY LenProperties
    <2>2. /\ t \in Seq(Event) /\ Len(t) = Len(s) + Len(e)
          /\ \A i \in 1 .. Len(s) + Len(e) : t[i] = IF i <= Len(s) THEN s[i] ELSE e[i - Len(s)]
        BY <1>1, ConcatProperties, Zenon
    <2> HIDE DEF t
    <2>3. DOMAIN t = 1 .. Len(s) + 2
        BY <1>1, <2>2, LenProperties
    <2>4. \A i \in 1 .. Len(s) : t[i] = s[i]
        BY <1>1, <2>1, <2>2
    <2>5. t[Len(s) + 1] = e[1] /\ t[Len(s) + 2] = e[2]
        <3>1. Len(s) + 1 \in 1 .. Len(s) + 2 /\ Len(s) + 2 \in 1 .. Len(s) + 2
              /\ (Len(s) + 1) - Len(s) = 1 /\ (Len(s) + 2) - Len(s) = 2
            BY <2>1
        <3>2. QED
            BY <1>1, <2>1, <2>2, <3>1
    <2>6. QED
        BY <1>1, <2>2, <2>3, <2>4, <2>5
<1>3. Len(s) \in Nat /\ \A i \in 1 .. Len(s) : s[i] = "text"
    BY LenProperties DEF OpenStream
<1> HIDE DEF t
<1>4. WellFormed(t)
    BY <1>2, <1>3 DEF WellFormed
<1>5. EndedStream(t)
    BY <1>2, <1>3 DEF EndedStream
<1>6. QED
    BY <1>2, <1>4, <1>5 DEF t

\* The flush of a completed sequence is text before the Finish.
LEMMA FlushIsText ==
    ASSUME NEW s \in Seq(Event)
    PROVE  s \o (<<"text">> \o <<"finish", "end">>) = (s \o <<"text">>) \o <<"finish", "end">>
BY EventSequences, ConcatAssociative DEF Event

-----------------------------------------------------------------------------

\* The three ways a channel ends.
Ending == {<<"finish", "end">>, <<"error", "end">>, <<"text">> \o <<"finish", "end">>}

LEMMA EndingEnds ==
    ASSUME NEW s \in Seq(Event), OpenStream(s), NEW evs \in Ending
    PROVE  s \o evs \in Seq(Event) /\ WellFormed(s \o evs) /\ EndedStream(s \o evs)
<1>1. CASE evs = <<"text">> \o <<"finish", "end">>
    <2>1. s \o <<"text">> \in Seq(Event) /\ OpenStream(s \o <<"text">>)
        BY TextKeepsOpen
    <2>2. QED
        BY <1>1, <2>1, EndsWell, FlushIsText
<1>2. CASE evs # <<"text">> \o <<"finish", "end">>
    BY <1>2, EndsWell DEF Ending
<1>3. QED
    BY <1>1, <1>2

LEMMA RestEnds ==
    ASSUME NEW id, NEW flushes \in BOOLEAN
    PROVE  Rest(id, flushes) \in Ending
<1>1. <<"finish", "end">> \in Seq(Event) /\ <<>> \o <<"finish", "end">> = <<"finish", "end">>
    BY EventSequences, ConcatEmptySeq DEF Event
<1>2. QED
    BY <1>1 DEF Rest, Ending

\* Ending some open channels: whoever waits on one of them reads its end, and
\* no other channel changes.
LEMMA SentEnding ==
    ASSUME TypeOK, NEW ids \in SUBSET Ids, \A id \in ids : OpenStream(events[id]),
           NEW evs \in Ending
    PROVE  /\ Sent(ids, evs) \in [Ids -> Seq(Event)]
           /\ \A id \in Ids :
                 IF id \in ids /\ client[id] = "waiting"
                 THEN WellFormed(Sent(ids, evs)[id]) /\ EndedStream(Sent(ids, evs)[id])
                 ELSE Sent(ids, evs)[id] = events[id]
<1>1. events \in [Ids -> Seq(Event)]
    BY DEF TypeOK, Event
<1>2. \A id \in ids : /\ events[id] \o evs \in Seq(Event)
                     /\ WellFormed(events[id] \o evs) /\ EndedStream(events[id] \o evs)
    BY <1>1, EndingEnds
<1>3. QED
    BY <1>1, <1>2 DEF Sent

\* Text on an open channel.
LEMMA SentText ==
    ASSUME TypeOK, NEW id \in Ids, OpenStream(events[id])
    PROVE  /\ Sent({id}, <<"text">>) \in [Ids -> Seq(Event)]
           /\ OpenStream(Sent({id}, <<"text">>)[id])
           /\ \A x \in Ids : x # id => Sent({id}, <<"text">>)[x] = events[x]
<1>1. events \in [Ids -> Seq(Event)]
    BY DEF TypeOK, Event
<1>2. events[id] \o <<"text">> \in Seq(Event) /\ OpenStream(events[id] \o <<"text">>)
    BY <1>1, TextKeepsOpen
<1>3. QED
    BY <1>1, <1>2 DEF Sent

\* Receiving a request takes it out of the queue.
LEMMA QueueHead ==
    ASSUME TypeOK, QueueFresh, request_queue # <<>>, request_queue' = Tail(request_queue)
    PROVE  /\ Head(request_queue) \in Ids /\ Queued(Head(request_queue))
           /\ request_queue' \in Seq(Ids) /\ Len(request_queue') <= QueueCapacity
           /\ \A i, j \in DOMAIN request_queue' : request_queue'[i] = request_queue'[j] => i = j
           /\ \A id \in Ids : Queued(id)' <=> Queued(id) /\ id # Head(request_queue)
<1> DEFINE q == request_queue
           n == Len(q)
<1>1. q \in Seq(Ids) /\ n \in Nat /\ n > 0 /\ DOMAIN q = 1 .. n /\ n <= QueueCapacity
    BY EmptySeq, LenProperties DEF TypeOK
<1>2. /\ Head(q) \in Ids /\ q' \in Seq(Ids) /\ Len(q') = n - 1
      /\ \A i \in 1 .. n - 1 : q'[i] = q[i + 1]
    BY <1>1, HeadTailProperties
<1>3. DOMAIN q' = 1 .. n - 1
    BY <1>2, LenProperties
<1>4. Head(q) = q[1]
    BY <1>1
<1>5. \A i, j \in 1 .. n : q[i] = q[j] => i = j
    BY <1>1 DEF QueueFresh
<1> HIDE DEF n
<1>6. \A i, j \in DOMAIN q' : q'[i] = q'[j] => i = j
    BY <1>1, <1>2, <1>3, <1>5
<1>7. Queued(Head(q))
    BY <1>1, <1>4 DEF Queued
<1>8. ASSUME NEW id \in Ids PROVE Queued(id)' <=> Queued(id) /\ id # Head(q)
    <2>1. Queued(id)' <=> \E i \in 1 .. n - 1 : q[i + 1] = id
        BY <1>2, <1>3 DEF Queued
    <2>2. Queued(id) /\ id # Head(q) <=> \E i \in 2 .. n : q[i] = id
        BY <1>1, <1>4, <1>5 DEF Queued
    <2>3. (\E i \in 1 .. n - 1 : q[i + 1] = id) <=> \E i \in 2 .. n : q[i] = id
        <3>1. ASSUME NEW i \in 2 .. n, q[i] = id PROVE \E k \in 1 .. n - 1 : q[k + 1] = id
            <4>1. i - 1 \in 1 .. n - 1 /\ (i - 1) + 1 = i
                BY <1>1
            <4>2. QED
                BY <3>1, <4>1
        <3>2. QED
            BY <1>1, <3>1
    <2>4. QED
        BY <2>1, <2>2, <2>3
<1>9. QED
    <2>1. Len(q') <= QueueCapacity
        BY <1>1, <1>2, LoopAssumption
    <2>2. QED
        BY <1>2, <1>6, <1>7, <1>8, <2>1

\* A short sequence is a sequence.
LEMMA ShortSequence ==
    ASSUME NEW S, NEW n \in Nat, NEW v \in SeqOf(S, n)
    PROVE  v \in Seq(S) /\ Len(v) \in 0 .. n
<1>1. PICK m \in 0 .. n : v \in [1 .. m -> S]
    BY DEF SeqOf
<1>2. m \in Nat
    OBVIOUS
<1>3. QED
    BY <1>1, <1>2

-----------------------------------------------------------------------------
(* The invariant holds initially, and each action preserves it.            *)

LEMMA InitIInv == Init => IInv
<1> SUFFICES ASSUME Init PROVE IInv
    OBVIOUS
<1> USE DEF Init, ServiceInit
<1>1. TypeOK
    <2>1. <<>> \in Seq(Tokens) /\ <<>> \in Seq(Ids) /\ <<>> \in Seq(Event) /\ Len(<<>>) = 0
        BY EmptySeq
    <2>2. slot_open \in BOOLEAN /\ shutdown \in BOOLEAN
        BY Zenon
    <2>3. QueueCapacity \in Nat /\ 0 <= QueueCapacity
        BY LoopAssumption
    <2>4. QED
        BY <2>1, <2>2, <2>3 DEF TypeOK, MAX_CONSECUTIVE_ERRORS, Event
<1>2. QueueFresh
    BY DEF QueueFresh, Queued, Fresh
<1>3. TrackersAt /\ TrackedOpen /\ WaiterServed /\ LeaverBound
    BY DEF TrackersAt, TrackedOpen, WaiterServed, LeaverBound, Pending
<1>4. StreamsGood
    <2>1. DOMAIN <<>> = {}
        OBVIOUS
    <2>2. QED
        BY <2>1 DEF StreamsGood, WellFormed
<1>5. QED
    BY <1>1, <1>2, <1>3, <1>4 DEF IInv

LEMMA LoopTopIInv == IInv /\ LoopTop => IInv'
BY DEF IInv, TypeOK, QueueFresh, TrackersAt, TrackedOpen, WaiterServed, StreamsGood, LeaverBound, Pending, Queued, Fresh, LoopTop, loopVars

LEMMA DrainDoneIInv == IInv /\ DrainDone => IInv'
BY DEF IInv, TypeOK, QueueFresh, TrackersAt, TrackedOpen, WaiterServed, StreamsGood, LeaverBound, Pending, Queued, Fresh, DrainDone, loopVars

LEMMA ChannelClosedIInv == IInv /\ ChannelClosed => IInv'
BY DEF IInv, TypeOK, QueueFresh, TrackersAt, TrackedOpen, WaiterServed, StreamsGood, LeaverBound, Pending, Queued, Fresh, ChannelClosed, loopVars

LEMMA StepDoneIInv == IInv /\ StepDone => IInv'
BY DEF IInv, TypeOK, QueueFresh, TrackersAt, TrackedOpen, WaiterServed, StreamsGood, LeaverBound, Pending, Queued, Fresh, StepDone, loopVars

LEMMA SweepIInv == IInv /\ Sweep => IInv'
<1> SUFFICES ASSUME IInv, Sweep PROVE IInv'
    OBVIOUS
<1>1. TypeOK'
    BY DEF IInv, TypeOK, QueueFresh, TrackersAt, TrackedOpen, WaiterServed, StreamsGood, LeaverBound, Pending, Queued, Fresh, Sweep, ClosedTrackers, AbortedOutcome
<1>2. QueueFresh'
    BY DEF IInv, TypeOK, QueueFresh, TrackersAt, TrackedOpen, WaiterServed, StreamsGood, LeaverBound, Pending, Queued, Fresh, Sweep, ClosedTrackers, AbortedOutcome
<1>3. TrackersAt'
    BY DEF IInv, TypeOK, QueueFresh, TrackersAt, TrackedOpen, WaiterServed, StreamsGood, LeaverBound, Pending, Queued, Fresh, Sweep, ClosedTrackers, AbortedOutcome
<1>4. TrackedOpen'
    BY DEF IInv, TypeOK, QueueFresh, TrackersAt, TrackedOpen, WaiterServed, StreamsGood, LeaverBound, Pending, Queued, Fresh, Sweep, ClosedTrackers, AbortedOutcome
<1>5. WaiterServed'
    BY DEF IInv, TypeOK, QueueFresh, TrackersAt, TrackedOpen, WaiterServed, StreamsGood, LeaverBound, Pending, Queued, Fresh, Sweep, ClosedTrackers, AbortedOutcome
<1>6. StreamsGood'
    BY DEF IInv, TypeOK, QueueFresh, TrackersAt, TrackedOpen, WaiterServed, StreamsGood, LeaverBound, Pending, Queued, Fresh, Sweep, ClosedTrackers, AbortedOutcome
<1>7. LeaverBound'
    BY DEF IInv, TypeOK, QueueFresh, TrackersAt, TrackedOpen, WaiterServed, StreamsGood, LeaverBound, Pending, Queued, Fresh, Sweep, ClosedTrackers, AbortedOutcome
<1>8. QED
    BY <1>1, <1>2, <1>3, <1>4, <1>5, <1>6, <1>7 DEF IInv

LEMMA AbortDisconnectedIInv == IInv /\ AbortDisconnected => IInv'
<1> SUFFICES ASSUME IInv, AbortDisconnected PROVE IInv'
    OBVIOUS
<1>1. /\ pc = "route" /\ pc' = "stopped"
      /\ trackers' = trackers \ disconnected_ids /\ disconnected_ids' = {}
      /\ outcome' \in [Ids -> {"new", "pending", "stop", "length", "aborted", "error"}]
      /\ \A id \in Ids : outcome'[id] = IF id \in disconnected_ids /\ outcome[id] = "pending"
                                       THEN "aborted" ELSE outcome[id]
      /\ UNCHANGED <<output, request_queue, slot_open, shutdown, consecutive_errors,
                     new_tokens, completed, stopped_ids, events, client, late_steps>>
    BY DEF AbortDisconnected, AbortedOutcome, IInv, TypeOK
<1>2. TypeOK'
    BY <1>1 DEF IInv, TypeOK
<1>3. QueueFresh'
    BY <1>1 DEF IInv, QueueFresh, Queued, Fresh
<1>4. TrackersAt'
    BY <1>1 DEF IInv, TrackersAt, Pending
<1>5. TrackedOpen'
    BY <1>1 DEF IInv, TrackedOpen
<1>6. WaiterServed'
    BY <1>1 DEF IInv, WaiterServed, TrackedOpen, Queued
<1>7. StreamsGood' /\ LeaverBound'
    BY <1>1 DEF IInv, StreamsGood, LeaverBound
<1>8. QED
    BY <1>2, <1>3, <1>4, <1>5, <1>6, <1>7 DEF IInv

LEMMA RaiseShutdownIInv == IInv /\ RaiseShutdown => IInv'
BY DEF IInv, TypeOK, QueueFresh, TrackersAt, TrackedOpen, WaiterServed, StreamsGood, LeaverBound, Pending, Queued, Fresh, RaiseShutdown, environment

LEMMA EvictSlotIInv == IInv /\ EvictSlot => IInv'
<1> SUFFICES ASSUME IInv, EvictSlot PROVE IInv'
    OBVIOUS
<1>1. TypeOK'
    BY DEF IInv, TypeOK, QueueFresh, TrackersAt, TrackedOpen, WaiterServed, StreamsGood, LeaverBound, Pending, Queued, Fresh, EvictSlot, environment
<1>2. QueueFresh'
    BY DEF IInv, TypeOK, QueueFresh, TrackersAt, TrackedOpen, WaiterServed, StreamsGood, LeaverBound, Pending, Queued, Fresh, EvictSlot, environment
<1>3. TrackersAt'
    BY DEF IInv, TypeOK, QueueFresh, TrackersAt, TrackedOpen, WaiterServed, StreamsGood, LeaverBound, Pending, Queued, Fresh, EvictSlot, environment
<1>4. TrackedOpen'
    BY DEF IInv, TypeOK, QueueFresh, TrackersAt, TrackedOpen, WaiterServed, StreamsGood, LeaverBound, Pending, Queued, Fresh, EvictSlot, environment
<1>5. WaiterServed'
    BY DEF IInv, TypeOK, QueueFresh, TrackersAt, TrackedOpen, WaiterServed, StreamsGood, LeaverBound, Pending, Queued, Fresh, EvictSlot, environment
<1>6. StreamsGood'
    BY DEF IInv, TypeOK, QueueFresh, TrackersAt, TrackedOpen, WaiterServed, StreamsGood, LeaverBound, Pending, Queued, Fresh, EvictSlot, environment
<1>7. LeaverBound'
    BY DEF IInv, TypeOK, QueueFresh, TrackersAt, TrackedOpen, WaiterServed, StreamsGood, LeaverBound, Pending, Queued, Fresh, EvictSlot, environment
<1>8. QED
    BY <1>1, <1>2, <1>3, <1>4, <1>5, <1>6, <1>7 DEF IInv

LEMMA PanicIInv == IInv /\ Panic => IInv'
<1> SUFFICES ASSUME IInv, Panic PROVE IInv'
    OBVIOUS
<1>1. TypeOK'
    <2>1. slot_open' \in BOOLEAN /\ shutdown' \in BOOLEAN
        BY Zenon DEF IInv, TypeOK, Panic
    <2>2. request_queue' \in Seq(Ids) /\ Len(request_queue') <= QueueCapacity
        BY EmptySeq, LoopAssumption DEF Panic
    <2>3. QED
        BY <2>1, <2>2 DEF IInv, TypeOK, Panic, AbortedOutcome
<1>2. QueueFresh'
    BY DEF IInv, TypeOK, QueueFresh, TrackersAt, TrackedOpen, WaiterServed, StreamsGood, LeaverBound, Pending, Queued, Fresh, Panic, AbortedOutcome
<1>3. TrackersAt'
    BY DEF IInv, TypeOK, QueueFresh, TrackersAt, TrackedOpen, WaiterServed, StreamsGood, LeaverBound, Pending, Queued, Fresh, Panic, AbortedOutcome
<1>4. TrackedOpen'
    BY DEF IInv, TypeOK, QueueFresh, TrackersAt, TrackedOpen, WaiterServed, StreamsGood, LeaverBound, Pending, Queued, Fresh, Panic, AbortedOutcome
<1>5. WaiterServed'
    BY DEF IInv, TypeOK, QueueFresh, TrackersAt, TrackedOpen, WaiterServed, StreamsGood, LeaverBound, Pending, Queued, Fresh, Panic, AbortedOutcome
<1>6. StreamsGood'
    BY DEF IInv, TypeOK, QueueFresh, TrackersAt, TrackedOpen, WaiterServed, StreamsGood, LeaverBound, Pending, Queued, Fresh, Panic, AbortedOutcome
<1>7. LeaverBound'
    BY DEF IInv, TypeOK, QueueFresh, TrackersAt, TrackedOpen, WaiterServed, StreamsGood, LeaverBound, Pending, Queued, Fresh, Panic, AbortedOutcome
<1>8. QED
    BY <1>1, <1>2, <1>3, <1>4, <1>5, <1>6, <1>7 DEF IInv

LEMMA LoopGoneIInv == IInv /\ LoopGone => IInv'
<1> SUFFICES ASSUME IInv, LoopGone PROVE IInv'
    OBVIOUS
<1>1. TypeOK'
    <2>1. slot_open' \in BOOLEAN /\ shutdown' \in BOOLEAN
        BY Zenon DEF IInv, TypeOK, LoopGone
    <2>2. request_queue' \in Seq(Ids) /\ Len(request_queue') <= QueueCapacity
        BY EmptySeq, LoopAssumption DEF LoopGone
    <2>3. QED
        BY <2>1, <2>2 DEF IInv, TypeOK, LoopGone, AbortedOutcome, loopVars
<1>2. QueueFresh'
    BY DEF IInv, TypeOK, QueueFresh, TrackersAt, TrackedOpen, WaiterServed, StreamsGood, LeaverBound, Pending, Queued, Fresh, LoopGone, AbortedOutcome, loopVars
<1>3. TrackersAt'
    BY DEF IInv, TypeOK, QueueFresh, TrackersAt, TrackedOpen, WaiterServed, StreamsGood, LeaverBound, Pending, Queued, Fresh, LoopGone, AbortedOutcome, loopVars
<1>4. TrackedOpen'
    BY DEF IInv, TypeOK, QueueFresh, TrackersAt, TrackedOpen, WaiterServed, StreamsGood, LeaverBound, Pending, Queued, Fresh, LoopGone, AbortedOutcome, loopVars
<1>5. WaiterServed'
    BY DEF IInv, TypeOK, QueueFresh, TrackersAt, TrackedOpen, WaiterServed, StreamsGood, LeaverBound, Pending, Queued, Fresh, LoopGone, AbortedOutcome, loopVars
<1>6. StreamsGood'
    BY DEF IInv, TypeOK, QueueFresh, TrackersAt, TrackedOpen, WaiterServed, StreamsGood, LeaverBound, Pending, Queued, Fresh, LoopGone, AbortedOutcome, loopVars
<1>7. LeaverBound'
    BY DEF IInv, TypeOK, QueueFresh, TrackersAt, TrackedOpen, WaiterServed, StreamsGood, LeaverBound, Pending, Queued, Fresh, LoopGone, AbortedOutcome, loopVars
<1>8. QED
    BY <1>1, <1>2, <1>3, <1>4, <1>5, <1>6, <1>7 DEF IInv

LEMMA ExitDrainIInv == IInv /\ ExitDrain => IInv'
<1> SUFFICES ASSUME IInv, ExitDrain PROVE IInv'
    OBVIOUS
<1> DEFINE told == Sent(trackers, <<"error", "end">>)
<1>a. /\ told \in [Ids -> Seq(Event)]
      /\ \A id \in Ids : IF id \in trackers /\ client[id] = "waiting"
                        THEN WellFormed(told[id]) /\ EndedStream(told[id])
                        ELSE told[id] = events[id]
    BY SentEnding DEF IInv, TypeOK, TrackedOpen, Ending
<1>b. events' = told
    BY DEF ExitDrain
<1> HIDE DEF told
<1>1. TypeOK'
    BY <1>a, <1>b DEF IInv, TypeOK, ExitDrain, Event
<1>2. QueueFresh'
    <2>1. /\ trackers' = {}
          /\ UNCHANGED <<outcome, request_queue, client>>
        BY DEF ExitDrain
    <2>2. QED
        BY <1>a, <1>b, <2>1 DEF IInv, QueueFresh, Queued, Fresh
<1>3. TrackersAt'
    BY <1>a, <1>b DEF IInv, TypeOK, QueueFresh, TrackersAt, TrackedOpen, WaiterServed, StreamsGood, LeaverBound, Pending, Queued, Fresh, ExitDrain
<1>4. TrackedOpen'
    BY <1>a, <1>b DEF IInv, TypeOK, QueueFresh, TrackersAt, TrackedOpen, WaiterServed, StreamsGood, LeaverBound, Pending, Queued, Fresh, ExitDrain
<1>5. WaiterServed'
    BY <1>a, <1>b DEF IInv, TypeOK, QueueFresh, TrackersAt, TrackedOpen, WaiterServed, StreamsGood, LeaverBound, Pending, Queued, Fresh, ExitDrain
<1>6. StreamsGood'
    BY <1>a, <1>b DEF IInv, TypeOK, QueueFresh, TrackersAt, TrackedOpen, WaiterServed, StreamsGood, LeaverBound, Pending, Queued, Fresh, ExitDrain
<1>7. LeaverBound'
    BY <1>a, <1>b DEF IInv, TypeOK, QueueFresh, TrackersAt, TrackedOpen, WaiterServed, StreamsGood, LeaverBound, Pending, Queued, Fresh, ExitDrain
<1>8. QED
    BY <1>1, <1>2, <1>3, <1>4, <1>5, <1>6, <1>7 DEF IInv

LEMMA StepErrIInv == IInv /\ StepErr => IInv'
<1> SUFFICES ASSUME IInv, StepErr PROVE IInv'
    OBVIOUS
<1> DEFINE failed == {id \in Pending : outcome'[id] = "error"}
           told == Sent(failed \cap trackers, <<"error", "end">>)
<1>a. /\ told \in [Ids -> Seq(Event)]
      /\ \A id \in Ids : IF id \in failed \cap trackers /\ client[id] = "waiting"
                        THEN WellFormed(told[id]) /\ EndedStream(told[id])
                        ELSE told[id] = events[id]
    <2>1. failed \cap trackers \in SUBSET Ids /\ \A id \in failed \cap trackers : OpenStream(events[id])
        BY DEF IInv, TypeOK, TrackedOpen
    <2> HIDE DEF failed
    <2>2. QED
        BY <2>1, SentEnding DEF IInv, Ending
<1>b. /\ pc = "step" /\ pc' = "top"
      /\ events' = told /\ trackers' = trackers \ failed
      /\ outcome' \in [Ids -> {"new", "pending", "stop", "length", "aborted", "error"}]
      /\ \A id \in Ids : outcome'[id] = outcome[id] \/ (outcome[id] = "pending" /\ outcome'[id] = "error")
      /\ UNCHANGED <<output, request_queue, slot_open, shutdown, new_tokens, completed,
                     disconnected_ids, stopped_ids, client, late_steps>>
    BY DEF StepErr, StepErrs, Pending, IInv, TypeOK
<1> HIDE DEF told
<1>1. TypeOK'
    <2>1. consecutive_errors' \in 0 .. MAX_CONSECUTIVE_ERRORS
        BY DEF IInv, TypeOK, StepErr, MAX_CONSECUTIVE_ERRORS
    <2>2. QED
        BY <1>a, <1>b, <2>1 DEF IInv, TypeOK, Event
<1>2. QueueFresh'
    BY <1>a, <1>b DEF IInv, QueueFresh, Queued, Fresh
<1>3. TrackersAt'
    BY <1>a, <1>b DEF IInv, TrackersAt, Pending
<1>4. TrackedOpen'
    BY <1>a, <1>b DEF IInv, TypeOK, TrackedOpen, Pending
<1>5. WaiterServed'
    BY <1>a, <1>b DEF IInv, WaiterServed, TrackersAt, Queued
<1>6. StreamsGood'
    BY <1>a, <1>b DEF IInv, StreamsGood
<1>7. LeaverBound'
    BY <1>a, <1>b DEF IInv, LeaverBound, Pending
<1>8. QED
    BY <1>1, <1>2, <1>3, <1>4, <1>5, <1>6, <1>7 DEF IInv

LEMMA StepOkIInv == IInv /\ StepOk => IInv'
<1> SUFFICES ASSUME IInv, StepOk PROVE IInv'
    OBVIOUS
<1>1. PICK reply \in [Ids -> Replies] :
         /\ \A id \in Ids \ Pending : reply[id] = Silent
         /\ output' = [id \in Ids |-> GrownOutput(id, reply[id])]
         /\ outcome' = [id \in Ids |-> NewOutcome(id, reply[id])]
    BY DEF StepOk, StepDelivers
<1>2. \A id \in Ids \ Pending : output'[id] = output[id] /\ outcome'[id] = outcome[id]
    <2> SUFFICES ASSUME NEW id \in Ids \ Pending
                 PROVE  output'[id] = output[id] /\ outcome'[id] = outcome[id]
        OBVIOUS
    <2>1. Silent.tokens = <<>> /\ Silent.stopped = FALSE
        BY DEF Silent
    <2>2. output[id] \in Seq(Tokens)
        BY DEF IInv, TypeOK
    <2>3. output[id] \o <<>> = output[id]
        BY <2>2, ConcatEmptySeq
    <2>4. output'[id] = output[id] \o <<>>
        BY <1>1, <2>1 DEF GrownOutput
    <2>5. outcome'[id] = outcome[id]
        BY <1>1, <2>1 DEF NewOutcome
    <2>6. QED
        BY <2>3, <2>4, <2>5
<1>3. ASSUME NEW id \in Pending
      PROVE  /\ output'[id] \in Seq(Tokens)
             /\ outcome'[id] \in {"pending", "stop", "length"}
    <2>1. id \in Ids /\ output[id] \in Seq(Tokens) /\ outcome[id] = "pending"
        BY DEF IInv, TypeOK, Pending
    <2>2. outcome'[id] \in {"pending", "stop", "length"}
        BY <1>1, <2>1 DEF NewOutcome
    <2>3. reply[id].tokens \in SeqOf(Tokens, MaxStepTokens)
        BY <1>1, <2>1 DEF Replies
    <2>4. reply[id].tokens \in Seq(Tokens)
        BY <2>3, ShortSequence, ServiceAssumption
    <2>5. output'[id] = output[id] \o reply[id].tokens
        BY <1>1, <2>1 DEF GrownOutput
    <2>6. QED
        BY <2>1, <2>2, <2>4, <2>5, ConcatProperties
<1>a. /\ pc = "step" /\ pc' = "route"
      /\ completed' = {id \in Pending : outcome'[id] # "pending"}
      /\ late_steps' = [id \in Ids |-> IF client[id] = "left" /\ output'[id] # output[id]
                                       THEN late_steps[id] + 1 ELSE late_steps[id]]
      /\ consecutive_errors' = 0
      /\ UNCHANGED <<request_queue, slot_open, shutdown, trackers, disconnected_ids,
                     stopped_ids, events, client>>
    BY DEF StepOk
<1>b. \A id \in Ids : outcome[id] # "pending" => outcome'[id] = outcome[id]
    BY <1>2 DEF Pending
<1>c. Pending' = {id \in Pending : outcome'[id] = "pending"}
    BY <1>b DEF Pending
<1>4. TypeOK'
    <2>1. output' \in [Ids -> Seq(Tokens)]
        BY <1>1, <1>2, <1>3 DEF IInv, TypeOK
    <2>2. outcome' \in [Ids -> {"new", "pending", "stop", "length", "aborted", "error"}]
        BY <1>1, <1>2, <1>3 DEF IInv, TypeOK
    <2>3. completed' \subseteq Ids
        BY <1>a DEF Pending
    <2>4. new_tokens' \in Seq(Ids)
        <3>1. new_tokens' \in SeqOf(Ids, MaxStepTokens * Cardinality(Ids))
            BY DEF StepOk, NewTokens
        <3>2. Cardinality(Ids) \in Nat /\ MaxStepTokens \in Nat
            BY FS_CardinalityType, LoopAssumption, ServiceAssumption
        <3>3. MaxStepTokens * Cardinality(Ids) \in Nat
            BY <3>2
        <3>4. QED
            BY <3>1, <3>3, ShortSequence
    <2>5. late_steps' \in [Ids -> Nat]
        BY <1>a DEF IInv, TypeOK
    <2>6. QED
        BY <1>a, <2>1, <2>2, <2>3, <2>4, <2>5 DEF IInv, TypeOK, MAX_CONSECUTIVE_ERRORS
<1>5. QueueFresh'
    BY <1>a, <1>b, <1>c DEF IInv, QueueFresh, Queued, Fresh
<1>6. TrackersAt'
    BY <1>a, <1>b, <1>c DEF IInv, TrackersAt
<1>7. TrackedOpen'
    BY <1>a, <1>b, <1>c DEF IInv, TypeOK, TrackedOpen
<1>8. WaiterServed'
    BY <1>a, <1>b, <1>c DEF IInv, WaiterServed, Queued
<1>9. StreamsGood'
    BY <1>a, <1>b, <1>c DEF IInv, StreamsGood
<1>10. LeaverBound'
    <2> SUFFICES ASSUME NEW id \in Ids
                 PROVE  /\ late_steps'[id] <= 1
                        /\ client[id] # "left" => late_steps'[id] = 0
        BY <1>a DEF LeaverBound
    <2>1. late_steps[id] \in Nat /\ late_steps[id] <= 1
          /\ (client[id] # "left" => late_steps[id] = 0)
        BY DEF IInv, TypeOK, LeaverBound
    <2>2. CASE id \in Pending
        <3>1. late_steps[id] = 0
            BY <1>a, <2>2 DEF IInv, LeaverBound
        <3>2. QED
            BY <1>a, <3>1
    <2>3. CASE id \notin Pending
        <3>1. late_steps'[id] = late_steps[id]
            BY <1>2, <1>a, <2>3
        <3>2. QED
            BY <2>1, <3>1
    <2>4. QED
        BY <2>2, <2>3
<1>11. QED
    BY <1>4, <1>5, <1>6, <1>7, <1>8, <1>9, <1>10 DEF IInv

LEMMA RouteTokenIInv == IInv /\ RouteToken => IInv'
<1> SUFFICES ASSUME IInv, RouteToken PROVE IInv'
    OBVIOUS
<1> DEFINE id == Head(new_tokens)
<1>1. PICK sends \in BOOLEAN, stops \in BOOLEAN :
         IF id \in trackers \ stopped_ids
         THEN /\ events' = IF sends /\ events[id] = <<>> THEN Sent({id}, <<"text">>) ELSE events
              /\ disconnected_ids' = IF sends /\ client[id] # "waiting"
                                     THEN disconnected_ids \cup {id} ELSE disconnected_ids
              /\ stopped_ids' = IF stops THEN stopped_ids \cup {id} ELSE stopped_ids
         ELSE UNCHANGED <<events, disconnected_ids, stopped_ids>>
    BY DEF RouteToken
<1>2. /\ pc = "route" /\ new_tokens # <<>> /\ new_tokens' = Tail(new_tokens)
      /\ UNCHANGED <<outcome, output, request_queue, slot_open, shutdown, pc, trackers,
                     consecutive_errors, completed, client, late_steps>>
    BY DEF RouteToken
<1>3. id \in Ids /\ new_tokens' \in Seq(Ids)
    BY <1>2, HeadTailProperties DEF IInv, TypeOK
<1> HIDE DEF id
<1>4. /\ events' \in [Ids -> Seq(Event)]
      /\ \A x \in Ids : events'[x] = events[x] \/ (x \in trackers /\ OpenStream(events'[x]))
    <2>1. CASE id \in trackers \ stopped_ids /\ sends /\ events[id] = <<>>
        <3>1. OpenStream(events[id])
            BY <2>1 DEF IInv, TrackedOpen
        <3>2. QED
            BY <1>1, <1>3, <2>1, <3>1, SentText DEF IInv
    <2>2. CASE ~(id \in trackers \ stopped_ids /\ sends /\ events[id] = <<>>)
        BY <1>1, <2>2 DEF IInv, TypeOK, Event
    <2>3. QED
        BY <2>1, <2>2
<1>5. /\ disconnected_ids' \subseteq disconnected_ids \cup {id} /\ stopped_ids' \subseteq stopped_ids \cup {id}
      /\ id \in disconnected_ids' \ disconnected_ids => id \in trackers /\ client[id] # "waiting"
    BY <1>1
<1>6. TypeOK'
    BY <1>2, <1>3, <1>4, <1>5 DEF IInv, TypeOK, Event
<1>7. QueueFresh'
    BY <1>2, <1>4 DEF IInv, QueueFresh, Queued, Fresh
<1>8. TrackersAt'
    BY <1>2 DEF IInv, TrackersAt, Pending
<1>9. TrackedOpen'
    BY <1>2, <1>4, <1>5 DEF IInv, TypeOK, TrackedOpen
<1>10. WaiterServed'
    BY <1>2, <1>4 DEF IInv, WaiterServed, Queued
<1>11. StreamsGood'
    <2>1. \A x \in Ids : OpenStream(events'[x]) => WellFormed(events'[x])
        BY <1>4, OpenIsWellFormed
    <2>2. \A x \in trackers : client[x] # "ok"
        BY DEF IInv, TrackedOpen
    <2>3. QED
        BY <1>2, <1>4, <2>1, <2>2 DEF IInv, StreamsGood
<1>12. LeaverBound'
    BY <1>2 DEF IInv, LeaverBound, Pending
<1>13. QED
    BY <1>6, <1>7, <1>8, <1>9, <1>10, <1>11, <1>12 DEF IInv

LEMMA FinishStoppedIInv == IInv /\ FinishStopped => IInv'
<1> SUFFICES ASSUME IInv, FinishStopped PROVE IInv'
    OBVIOUS
<1>1. PICK id \in stopped_ids, flushes \in BOOLEAN :
         /\ stopped_ids' = stopped_ids \ {id}
         /\ IF id \in trackers
            THEN /\ trackers' = trackers \ {id}
                 /\ outcome' = AbortedOutcome({id})
                 /\ events' = Sent({id}, Rest(id, flushes))
            ELSE UNCHANGED <<trackers, outcome, events>>
    BY DEF FinishStopped
<1>2. /\ pc = "stopped"
      /\ UNCHANGED <<output, request_queue, slot_open, shutdown, pc, consecutive_errors,
                     new_tokens, completed, disconnected_ids, client, late_steps>>
    BY DEF FinishStopped
<1>3. CASE id \notin trackers
    BY <1>1, <1>2, <1>3
       DEF IInv, TypeOK, QueueFresh, TrackersAt, TrackedOpen, WaiterServed, StreamsGood, LeaverBound,
           Pending, Queued, Fresh
<1>4. CASE id \in trackers
    <2>1. id \in Ids /\ OpenStream(events[id])
        BY <1>4 DEF IInv, TypeOK, TrackedOpen
    <2>2. /\ events' \in [Ids -> Seq(Event)]
          /\ \A x \in Ids : IF x = id /\ client[x] = "waiting"
                            THEN WellFormed(events'[x]) /\ EndedStream(events'[x])
                            ELSE events'[x] = events[x]
        <3> DEFINE evs == Rest(id, flushes)
        <3>1. {id} \in SUBSET Ids /\ \A x \in {id} : OpenStream(events[x])
            BY <2>1
        <3>2. evs \in Ending /\ events' = Sent({id}, evs)
            BY <1>1, <1>4, RestEnds
        <3> HIDE DEF evs
        <3>3. /\ Sent({id}, evs) \in [Ids -> Seq(Event)]
              /\ \A x \in Ids : IF x \in {id} /\ client[x] = "waiting"
                                THEN WellFormed(Sent({id}, evs)[x]) /\ EndedStream(Sent({id}, evs)[x])
                                ELSE Sent({id}, evs)[x] = events[x]
            <4>1. TypeOK /\ {id} \in SUBSET Ids /\ evs \in Ending
                BY <3>1, <3>2 DEF IInv
            <4>2. QED
                BY <3>1, <4>1, SentEnding, Zenon
        <3>4. QED
            BY <3>2, <3>3
    <2>3. /\ trackers' = trackers \ {id}
          /\ outcome' \in [Ids -> {"new", "pending", "stop", "length", "aborted", "error"}]
          /\ \A x \in Ids : outcome'[x] = IF x = id /\ outcome[x] = "pending" THEN "aborted" ELSE outcome[x]
        BY <1>1, <1>4 DEF AbortedOutcome, IInv, TypeOK
    <2>4. TypeOK'
        BY <1>1, <1>2, <2>2, <2>3 DEF IInv, TypeOK, Event
    <2>5. QueueFresh'
        BY <1>2, <1>4, <2>2, <2>3 DEF IInv, QueueFresh, Queued, Fresh
    <2>6. TrackersAt'
        BY <1>2, <1>4, <2>3 DEF IInv, TrackersAt, Pending
    <2>7. TrackedOpen'
        BY <1>2, <1>4, <2>2, <2>3 DEF IInv, TypeOK, TrackedOpen
    <2>8. WaiterServed'
        BY <1>2, <2>2, <2>3 DEF IInv, WaiterServed, Queued
    <2>9. StreamsGood'
        BY <1>2, <2>2 DEF IInv, StreamsGood
    <2>10. LeaverBound'
        BY <1>2, <2>3 DEF IInv, LeaverBound, Pending
    <2>11. QED
        BY <2>4, <2>5, <2>6, <2>7, <2>8, <2>9, <2>10 DEF IInv
<1>5. QED
    BY <1>3, <1>4

LEMMA FinishCompletedIInv == IInv /\ FinishCompleted => IInv'
<1> SUFFICES ASSUME IInv, FinishCompleted PROVE IInv'
    OBVIOUS
<1>1. PICK id \in completed, flushes \in BOOLEAN :
         /\ completed' = completed \ {id}
         /\ trackers' = trackers \ {id}
         /\ events' = IF id \in trackers
                      THEN Sent({id}, Rest(id, flushes)) ELSE events
    BY DEF FinishCompleted
<1>2. /\ pc = "stopped"
      /\ UNCHANGED <<outcome, output, request_queue, slot_open, shutdown, pc, consecutive_errors,
                     new_tokens, disconnected_ids, stopped_ids, client, late_steps>>
    BY DEF FinishCompleted
<1>3. id \in Ids
    BY DEF IInv, TypeOK
<1>4. /\ events' \in [Ids -> Seq(Event)]
      /\ \A x \in Ids : IF x = id /\ id \in trackers /\ client[x] = "waiting"
                        THEN WellFormed(events'[x]) /\ EndedStream(events'[x])
                        ELSE events'[x] = events[x]
    <2>1. CASE id \in trackers
        <3> DEFINE evs == Rest(id, flushes)
        <3>1. evs \in Ending
            BY RestEnds
        <3>2. events' = Sent({id}, evs) /\ OpenStream(events[id])
            BY <1>1, <2>1 DEF IInv, TrackedOpen
        <3> HIDE DEF evs
        <3>3. {id} \in SUBSET Ids /\ \A x \in {id} : OpenStream(events[x])
            BY <1>3, <3>2
        <3>4. TypeOK /\ {id} \in SUBSET Ids /\ evs \in Ending
            BY <3>1, <3>3 DEF IInv
        <3>5. /\ Sent({id}, evs) \in [Ids -> Seq(Event)]
              /\ \A x \in Ids : IF x \in {id} /\ client[x] = "waiting"
                                THEN WellFormed(Sent({id}, evs)[x]) /\ EndedStream(Sent({id}, evs)[x])
                                ELSE Sent({id}, evs)[x] = events[x]
            BY <3>3, <3>4, SentEnding, Zenon
        <3>6. QED
            BY <2>1, <3>2, <3>5
    <2>2. CASE id \notin trackers
        BY <1>1, <2>2 DEF IInv, TypeOK, Event
    <2>3. QED
        BY <2>1, <2>2
<1>5. TypeOK'
    BY <1>1, <1>2, <1>4 DEF IInv, TypeOK, Event
<1>6. QueueFresh'
    BY <1>1, <1>2, <1>4 DEF IInv, QueueFresh, Queued, Fresh
<1>7. TrackersAt'
    BY <1>1, <1>2 DEF IInv, TrackersAt, Pending
<1>8. TrackedOpen'
    BY <1>1, <1>2, <1>4 DEF IInv, TypeOK, TrackedOpen
<1>9. WaiterServed'
    BY <1>1, <1>2, <1>4 DEF IInv, WaiterServed, Queued
<1>10. StreamsGood'
    BY <1>2, <1>4 DEF IInv, StreamsGood
<1>11. LeaverBound'
    BY <1>2 DEF IInv, LeaverBound, Pending
<1>12. QED
    BY <1>5, <1>6, <1>7, <1>8, <1>9, <1>10, <1>11 DEF IInv

\* What TryRecv and BlockingRecv have in common.
Receive ==
    /\ pc \in {"drain", "recv"} /\ pc' \in {"drain", "sweep"}
    /\ request_queue # <<>> /\ request_queue' = Tail(request_queue)
    /\ enqueue_request(Head(request_queue))
    /\ UNCHANGED <<slot_open, shutdown, consecutive_errors, new_tokens, completed,
                   disconnected_ids, stopped_ids, client, late_steps>>

LEMMA ReceiveIInv == IInv /\ Receive => IInv'
<1> SUFFICES ASSUME IInv, Receive PROVE IInv'
    OBVIOUS
<1> DEFINE h == Head(request_queue)
<1>1. /\ h \in Ids /\ Queued(h)
      /\ request_queue' \in Seq(Ids) /\ Len(request_queue') <= QueueCapacity
      /\ \A i, j \in DOMAIN request_queue' : request_queue'[i] = request_queue'[j] => i = j
      /\ \A id \in Ids : Queued(id)' <=> Queued(id) /\ id # h
    BY QueueHead DEF IInv, Receive
<1>2. Fresh(h) /\ client[h] \in {"waiting", "left"} /\ OpenStream(events[h])
    BY <1>1 DEF IInv, QueueFresh, Fresh, OpenStream
<1>3. /\ pc \in {"drain", "recv"} /\ pc' \in {"drain", "sweep"}
      /\ UNCHANGED <<output, slot_open, shutdown, consecutive_errors, new_tokens, completed,
                     disconnected_ids, stopped_ids, client, late_steps>>
    BY DEF Receive, enqueue_request, Accept
<1>4. CASE /\ outcome' = [outcome EXCEPT ![h] = "pending"]
           /\ trackers' = trackers \cup {h} /\ events' = events
    <2>1. TypeOK'
        BY <1>1, <1>3, <1>4 DEF IInv, TypeOK
    <2>2. QueueFresh'
        <3>1. \A x \in Ids : x # h => (Fresh(x) => Fresh(x)')
            BY <1>1, <1>4 DEF IInv, TypeOK, Fresh
        <3>2. \A x \in Ids : Queued(x)' => Fresh(x)' /\ client'[x] \in {"waiting", "left"}
            BY <1>1, <1>3, <3>1 DEF IInv, QueueFresh
        <3>3. \A x \in Ids : client'[x] \in {"idle", "holding", "refused"} => Fresh(x)' /\ ~Queued(x)'
            BY <1>1, <1>2, <1>3, <3>1 DEF IInv, QueueFresh
        <3>4. QED
            BY <1>1, <3>2, <3>3 DEF QueueFresh
    <2>3. TrackersAt'
        BY <1>1, <1>3, <1>4 DEF IInv, TypeOK, TrackersAt, Pending
    <2>4. TrackedOpen'
        BY <1>2, <1>3, <1>4 DEF IInv, TrackedOpen
    <2>5. WaiterServed'
        BY <1>1, <1>3, <1>4 DEF IInv, WaiterServed
    <2>6. StreamsGood'
        BY <1>3, <1>4 DEF IInv, StreamsGood
    <2>7. LeaverBound'
        BY <1>3 DEF IInv, LeaverBound
    <2>8. QED
        BY <2>1, <2>2, <2>3, <2>4, <2>5, <2>6, <2>7 DEF IInv
<1>5. CASE /\ UNCHANGED <<outcome, trackers>>
           /\ events' = Sent({h}, <<"error", "end">>)
    <2>1. /\ events' \in [Ids -> Seq(Event)]
          /\ \A x \in Ids : IF x = h /\ client[x] = "waiting"
                            THEN WellFormed(events'[x]) /\ EndedStream(events'[x])
                            ELSE events'[x] = events[x]
        <3>1. {h} \in SUBSET Ids /\ \A x \in {h} : OpenStream(events[x])
            BY <1>1, <1>2
        <3>2. <<"error", "end">> \in Ending
            BY DEF Ending
        <3>3. QED
            BY <1>5, <3>1, <3>2, SentEnding DEF IInv
    <2>2. TypeOK'
        BY <1>1, <1>3, <1>5, <2>1 DEF IInv, TypeOK, Event
    <2>3. QueueFresh'
        BY <1>1, <1>2, <1>3, <1>5, <2>1 DEF IInv, TypeOK, QueueFresh, Fresh
    <2>4. TrackersAt'
        BY <1>3, <1>5 DEF IInv, TrackersAt, Pending
    <2>5. TrackedOpen'
        BY <1>2, <1>3, <1>5, <2>1 DEF IInv, TypeOK, TrackedOpen, Fresh
    <2>6. WaiterServed'
        BY <1>1, <1>3, <1>5, <2>1 DEF IInv, WaiterServed
    <2>7. StreamsGood'
        BY <1>3, <2>1 DEF IInv, StreamsGood
    <2>8. LeaverBound'
        BY <1>3 DEF IInv, LeaverBound
    <2>9. QED
        BY <2>2, <2>3, <2>4, <2>5, <2>6, <2>7, <2>8 DEF IInv
<1>6. QED
    BY <1>4, <1>5 DEF Receive, enqueue_request, Accept

LEMMA RecvIInv == IInv /\ (TryRecv \/ BlockingRecv) => IInv'
<1>1. TryRecv \/ BlockingRecv => Receive
    BY DEF TryRecv, BlockingRecv, Receive
<1>2. QED
    BY <1>1, ReceiveIInv

-----------------------------------------------------------------------------
(* The handlers' steps.                                                    *)

LEMMA TakeHandleIInv == \A id \in Ids : IInv /\ TakeHandle(id) => IInv'
<1> SUFFICES ASSUME IInv, NEW id \in Ids, TakeHandle(id) PROVE IInv'
    OBVIOUS
<1>1. /\ client[id] = "idle" /\ client' = [client EXCEPT ![id] = "holding"]
      /\ UNCHANGED <<outcome, output, request_queue, slot_open, shutdown, pc, trackers,
                     consecutive_errors, new_tokens, completed, disconnected_ids, stopped_ids,
                     events, late_steps>>
    BY DEF TakeHandle, environment
<1>2. /\ client' \in [Ids -> {"idle", "holding", "waiting", "refused", "left", "failed", "ok"}]
      /\ \A x \in Ids : client'[x] = IF x = id THEN "holding" ELSE client[x]
    BY <1>1 DEF IInv, TypeOK
<1>3. TypeOK'
    BY <1>1, <1>2 DEF IInv, TypeOK
<1>4. QueueFresh'
    BY <1>1, <1>2 DEF IInv, QueueFresh, Queued, Fresh
<1>5. TrackersAt' /\ WaiterServed' /\ StreamsGood' /\ LeaverBound'
    BY <1>1, <1>2 DEF IInv, TrackersAt, WaiterServed, StreamsGood, LeaverBound, Pending, Queued
<1>6. TrackedOpen'
    BY <1>1, <1>2 DEF IInv, TypeOK, TrackedOpen
<1>7. QED
    BY <1>3, <1>4, <1>5, <1>6 DEF IInv

LEMMA TrySendIInv == \A id \in Ids : IInv /\ TrySend(id) => IInv'
<1> SUFFICES ASSUME IInv, NEW id \in Ids, TrySend(id) PROVE IInv'
    OBVIOUS
<1>1. /\ client[id] = "holding"
      /\ UNCHANGED <<outcome, output, slot_open, shutdown, pc, trackers, consecutive_errors,
                     new_tokens, completed, disconnected_ids, stopped_ids, events, late_steps>>
    BY DEF TrySend, environment
<1>2. Fresh(id) /\ ~Queued(id)
    BY <1>1 DEF IInv, QueueFresh
<1>3. CASE client' = [client EXCEPT ![id] = "refused"] /\ request_queue' = request_queue
    <2>1. /\ client' \in [Ids -> {"idle", "holding", "waiting", "refused", "left", "failed", "ok"}]
          /\ \A x \in Ids : client'[x] = IF x = id THEN "refused" ELSE client[x]
        BY <1>3 DEF IInv, TypeOK
    <2>2. TypeOK'
        BY <1>1, <1>3, <2>1 DEF IInv, TypeOK
    <2>3. QueueFresh'
        BY <1>1, <1>3, <2>1 DEF IInv, QueueFresh, Queued, Fresh
    <2>4. TrackersAt' /\ WaiterServed' /\ StreamsGood' /\ LeaverBound'
        BY <1>1, <1>3, <2>1 DEF IInv, TrackersAt, WaiterServed, StreamsGood, LeaverBound, Pending, Queued
    <2>5. TrackedOpen'
        BY <1>1, <1>3, <2>1 DEF IInv, TypeOK, TrackedOpen
    <2>6. QED
        BY <2>2, <2>3, <2>4, <2>5 DEF IInv
<1>4. CASE /\ CanSend /\ client' = [client EXCEPT ![id] = "waiting"]
           /\ request_queue' = Append(request_queue, id)
    <2>1. /\ client' \in [Ids -> {"idle", "holding", "waiting", "refused", "left", "failed", "ok"}]
          /\ \A x \in Ids : client'[x] = IF x = id THEN "waiting" ELSE client[x]
        BY <1>4 DEF IInv, TypeOK
    <2> DEFINE n == Len(request_queue)
    <2>2. n \in Nat /\ DOMAIN request_queue = 1 .. n /\ n < QueueCapacity
        BY <1>4, LenProperties DEF IInv, TypeOK, CanSend
    <2>3. /\ request_queue' \in Seq(Ids) /\ Len(request_queue') = n + 1
          /\ \A i \in 1 .. n : request_queue'[i] = request_queue[i]
          /\ request_queue'[n + 1] = id
        BY <1>4, AppendProperties DEF IInv, TypeOK
    <2>4. DOMAIN request_queue' = 1 .. n + 1
        BY <2>3, LenProperties
    <2> HIDE DEF n
    <2>5. \A x \in Ids : Queued(x)' <=> Queued(x) \/ x = id
        <3>1. \A x \in Ids : Queued(x)' <=> \E i \in 1 .. n + 1 : request_queue'[i] = x
            BY <2>4 DEF Queued
        <3>2. \A i \in 1 .. n + 1 : i \in 1 .. n \/ i = n + 1
            BY <2>2
        <3>3. 1 .. n \subseteq 1 .. n + 1 /\ n + 1 \in 1 .. n + 1
            BY <2>2
        <3>4. QED
            BY <2>2, <2>3, <3>1, <3>2, <3>3 DEF Queued
    <2>6. \A i, j \in DOMAIN request_queue' : request_queue'[i] = request_queue'[j] => i = j
        <3>1. \A i \in 1 .. n : request_queue[i] # id
            BY <1>2, <2>2 DEF Queued
        <3>2. QED
            BY <2>2, <2>3, <2>4, <3>1 DEF IInv, QueueFresh
    <2>7. TypeOK'
        <3>1. Len(request_queue') <= QueueCapacity
            BY <2>2, <2>3, LoopAssumption
        <3>2. QED
            BY <1>1, <2>1, <2>3, <3>1 DEF IInv, TypeOK
    <2>8. QueueFresh'
        BY <1>1, <1>2, <2>1, <2>5, <2>6 DEF IInv, QueueFresh, Fresh
    <2>9. TrackersAt' /\ StreamsGood' /\ LeaverBound'
        BY <1>1, <2>1 DEF IInv, TrackersAt, StreamsGood, LeaverBound, Pending
    <2>10. TrackedOpen'
        BY <1>1, <2>1 DEF IInv, TypeOK, TrackedOpen
    <2>11. WaiterServed'
        BY <1>1, <2>1, <2>5 DEF IInv, WaiterServed
    <2>12. QED
        BY <2>7, <2>8, <2>9, <2>10, <2>11 DEF IInv
<1>5. QED
    BY <1>3, <1>4 DEF TrySend

LEMMA LeaveIInv == \A id \in Ids : IInv /\ Leave(id) => IInv'
<1> SUFFICES ASSUME IInv, NEW id \in Ids, Leave(id) PROVE IInv'
    OBVIOUS
<1>1. /\ client[id] = "waiting" /\ client' = [client EXCEPT ![id] = "left"]
      /\ UNCHANGED <<outcome, output, request_queue, slot_open, shutdown, pc, trackers,
                     consecutive_errors, new_tokens, completed, disconnected_ids, stopped_ids,
                     events, late_steps>>
    BY DEF Leave, environment
<1>2. /\ client' \in [Ids -> {"idle", "holding", "waiting", "refused", "left", "failed", "ok"}]
      /\ \A x \in Ids : client'[x] = IF x = id THEN "left" ELSE client[x]
    BY <1>1 DEF IInv, TypeOK
<1>4. TypeOK'
    BY <1>1, <1>2 DEF IInv, TypeOK
<1>5. QueueFresh'
    BY <1>1, <1>2 DEF IInv, QueueFresh, Queued, Fresh
<1>6. TrackersAt' /\ WaiterServed' /\ StreamsGood'
    BY <1>1, <1>2 DEF IInv, TrackersAt, WaiterServed, StreamsGood, Pending, Queued
<1>7. TrackedOpen'
    BY <1>1, <1>2 DEF IInv, TypeOK, TrackedOpen
<1>8. LeaverBound'
    BY <1>1, <1>2 DEF IInv, TypeOK, LeaverBound, Pending
<1>9. QED
    BY <1>4, <1>5, <1>6, <1>7, <1>8 DEF IInv

\* The handler reads an error, an end, or a channel nobody can send to; a
\* tracker or a place in the queue rules all three out.
LEMMA CollectIInv == \A id \in Ids : IInv /\ Collect(id) => IInv'
<1> SUFFICES ASSUME IInv, NEW id \in Ids, Collect(id) PROVE IInv'
    OBVIOUS
<1>1. /\ client[id] = "waiting"
      /\ UNCHANGED <<outcome, output, request_queue, slot_open, shutdown, pc, trackers,
                     consecutive_errors, new_tokens, completed, disconnected_ids, stopped_ids,
                     events, late_steps>>
    BY DEF Collect, environment
<1>2. PICK how \in {"failed", "ok"} :
         /\ client' = [client EXCEPT ![id] = how]
         /\ how = "failed" => Carries(id, "error")
         /\ how = "ok" => Carries(id, "end") \/ ChannelEnded(id)
    BY DEF Collect
<1>3. /\ client' \in [Ids -> {"idle", "holding", "waiting", "refused", "left", "failed", "ok"}]
      /\ \A x \in Ids : client'[x] = IF x = id THEN how ELSE client[x]
    BY <1>2 DEF IInv, TypeOK
<1>4. id \notin trackers /\ ~Queued(id)
    <2>1. Carries(id, "error") \/ Carries(id, "end") => ~OpenStream(events[id]) /\ events[id] # <<>>
        BY DEF Carries, OpenStream
    <2>2. ChannelEnded(id) => id \notin trackers /\ ~Queued(id)
        BY DEF ChannelEnded, Queued
    <2>3. QED
        BY <1>2, <2>1, <2>2 DEF IInv, TrackedOpen, QueueFresh, Fresh
<1>5. pc # "gone" /\ how = "ok" => EndedStream(events[id])
    BY <1>1, <1>2, <1>4 DEF IInv, WaiterServed, Carries, EndedStream
<1>6. TypeOK'
    BY <1>1, <1>3 DEF IInv, TypeOK
<1>7. QueueFresh'
    BY <1>1, <1>3, <1>4 DEF IInv, QueueFresh, Queued, Fresh
<1>8. TrackersAt' /\ WaiterServed' /\ LeaverBound'
    BY <1>1, <1>3 DEF IInv, TrackersAt, WaiterServed, LeaverBound, Pending, Queued
<1>9. StreamsGood'
    BY <1>1, <1>3, <1>5 DEF IInv, StreamsGood
<1>10. TrackedOpen'
    BY <1>1, <1>3, <1>4 DEF IInv, TypeOK, TrackedOpen
<1>11. QED
    BY <1>6, <1>7, <1>8, <1>9, <1>10 DEF IInv

-----------------------------------------------------------------------------

LEMMA NextIInv == IInv /\ [Next]_vars => IInv'
<1>1. IInv /\ UNCHANGED vars => IInv'
    BY DEF vars, IInv, TypeOK, QueueFresh, TrackersAt, TrackedOpen, WaiterServed, StreamsGood,
           LeaverBound, Pending, Queued, Fresh
<1>2. IInv /\ LoopThread => IInv'
    BY LoopTopIInv, RecvIInv, DrainDoneIInv, ChannelClosedIInv, SweepIInv, StepOkIInv,
       RouteTokenIInv, AbortDisconnectedIInv, FinishStoppedIInv, FinishCompletedIInv,
       StepDoneIInv, StepErrIInv, ExitDrainIInv, LoopGoneIInv DEF LoopThread
<1>3. QED
    BY <1>1, <1>2, PanicIInv, EvictSlotIInv, RaiseShutdownIInv, TakeHandleIInv, TrySendIInv,
       CollectIInv, LeaveIInv DEF Next, Handler

LEMMA LoopInvariant == Spec => []IInv
BY InitIInv, NextIInv, PTL DEF Spec

\* The type invariant of the loop, its channels and its clients.
THEOREM LoopTypeCorrect == Spec => []TypeOK
BY LoopInvariant, PTL DEF IInv

\* Between iterations the trackers are exactly the sequences in the engine.
THEOREM TrackersAlwaysMatch == Spec => []TrackersMatch
<1>1. IInv => TrackersMatch
    BY DEF IInv, TrackersAt, TrackersMatch
<1>2. QED
    BY <1>1, LoopInvariant, PTL

\* Every response channel carries text, then one Finish or Error, then one
\* StreamEnd.
THEOREM StreamsAlwaysWellFormed == Spec => []StreamWellFormed
<1>1. IInv => StreamWellFormed
    BY DEF IInv, StreamsGood, WellFormed, StreamWellFormed
<1>2. QED
    BY <1>1, LoopInvariant, PTL

\* While the model is loaded a handler reports a completion only after its
\* StreamEnd.
THEOREM OkAlwaysMeansStreamEnd == Spec => []OkMeansStreamEndWhileLoaded
<1>1. IInv => OkMeansStreamEndWhileLoaded
    BY DEF IInv, StreamsGood, EndedStream, Carries, OkMeansStreamEnd, OkMeansStreamEndWhileLoaded
<1>2. QED
    BY <1>1, LoopInvariant, PTL

\* A client that leaves costs at most the step under way, however many tokens
\* that step has for it.
THEOREM LeaverAlwaysCostsOneStep == Spec => []LeaverCostsOneStep
<1>1. IInv => LeaverCostsOneStep
    BY DEF IInv, LeaverBound, LeaverCostsOneStep
<1>2. QED
    BY <1>1, LoopInvariant, PTL

=============================================================================
