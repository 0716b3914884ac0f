----------------------------- MODULE SeqTracker -----------------------------
(***************************************************************************)
(* server/routes/engine_loop.rs: what becomes of the tokens of one request *)
(* on their way to its client.  Every token is routed to the content, to   *)
(* the reasoning or to nobody (the harmony protocol for GPT-OSS, think     *)
(* markers for the others), decoded incrementally, and the content scanned *)
(* for stop strings.  A text sent to the client is a sequence of           *)
(* characters, Opener and Closer standing for the tool-call framing the    *)
(* loop writes itself.                                                     *)
(***************************************************************************)
EXTENDS IncrementalDecode, StopScanner, Filters

CONSTANTS Kind,          \* what the router sees in each token
          Sessions       \* the requests, each with the tokenizer it meets and
                         \* a bound on the tokens it is followed for

Opener == "<tool_call>"
Closer == "</tool_call>"

ASSUME TrackerAssumption ==
    /\ Kind \in [Token -> {"channel", "message", "end", "start", "final", "recipient",
                           "think", "named_think", "think_end", "newline", "plain"}]
    /\ \A s \in Sessions :
          /\ s.harmony \in BOOLEAN /\ s.wants_reasoning \in BOOLEAN /\ s.thinking_open \in BOOLEAN
          /\ s.vocabulary \subseteq Token /\ s.bound \in Nat
          /\ \A stop \in s.stops : stop \in Seq(STRING) /\ stop # <<>>
    /\ Opener \notin Character /\ Closer \notin Character

VARIABLES request,   \* the session followed
          history,   \* the tokens the engine produced, in order
          tracker,   \* SeqTracker
          stream     \* what the client has received

vars == <<request, history, tracker, stream>>

-----------------------------------------------------------------------------

Body(final_channel, tool) == [in |-> "Body", final_channel |-> final_channel, tool |-> tool]
Outside(in) == [in |-> in, final_channel |-> FALSE, tool |-> FALSE]
Markers == Outside("Markers")
Role == Outside("Role")
Header == Outside("Header")

NewTracker ==
    [in_thinking |-> request.thinking_open, thinking_header |-> FALSE,
     output_ids |-> <<>>, thinking_ids |-> <<>>, output |-> NewDecoder, thinking |-> NewDecoder,
     held |-> <<>>, pending_raw_lps |-> <<>>,
     harmony_state |-> Markers, harmony_header_ids |-> <<>>, harmony_tool_open |-> FALSE]

Init ==
    /\ request \in Sessions
    /\ history = <<>>
    /\ tracker = NewTracker
    /\ stream = [content |-> <<>>, reasoning |-> <<>>, logprobs |-> <<>>, finish |-> "none"]

-----------------------------------------------------------------------------
(* Routing.                                                                *)

To(t, state) == [t EXCEPT !.harmony_state = state]

\* A new header begins empty.  The seeded fault lets it begin with the last one.
OpenOnLast(t) == To(t, Header)
Open(t) == [t EXCEPT !.harmony_state = Header, !.harmony_header_ids = <<>>]
Routed(route, t) == [route |-> route, tracker |-> t]
Names(ids, kind) == \E i \in DOMAIN ids : Kind[ids[i]] = kind

harmony_route(t, tok) ==
    LET kind == Kind[tok]
        state == t.harmony_state
        name == t.harmony_header_ids
        called == Names(name, "recipient")
    IN  CASE state = Markers ->
                IF kind = "channel" THEN Routed("Framing", Open(t))
                ELSE IF kind = "start" THEN Routed("Framing", To(t, Role))
                ELSE IF kind = "end" THEN Routed("Framing", t)
                ELSE Routed(IF kind = "message" THEN "Framing" ELSE "Content",
                            To(t, Body(TRUE, FALSE)))
          [] state = Role ->
                Routed("Framing", CASE kind = "channel" -> Open(t)
                                    [] kind = "message" -> To(t, Body(TRUE, FALSE))
                                    [] kind = "end"     -> To(t, Markers)
                                    [] OTHER            -> t)
          [] state = Header ->
                IF kind = "message"
                THEN Routed(IF called THEN "ToolCall" ELSE "Framing",
                            To(t, Body(Names(name, "final"), called)))
                ELSE Routed("Framing",
                            IF kind \in {"end", "start"} THEN To(t, Markers)
                            ELSE [t EXCEPT !.harmony_header_ids = Append(@, tok)])
          [] OTHER ->
                IF kind \in {"end", "start", "channel"}
                THEN Routed(IF state.tool THEN "ToolCallEnd" ELSE "Framing",
                            IF kind = "channel" THEN Open(t) ELSE To(t, Markers))
                ELSE Routed(IF state.tool \/ state.final_channel THEN "Content" ELSE "Reasoning", t)

think_route(t, tok) ==
    IF Kind[tok] \in {"think", "named_think"}
    THEN Routed("Framing", [t EXCEPT !.in_thinking = TRUE,
                    !.thinking_header = ~t.in_thinking /\ Kind[tok] = "named_think"])
    ELSE IF ~t.in_thinking THEN Routed("Content", t)
    ELSE IF Kind[tok] = "think_end"
    THEN Routed("Framing", [t EXCEPT !.in_thinking = FALSE, !.thinking_header = FALSE])
    ELSE IF t.thinking_header
    THEN Routed("Framing", [t EXCEPT !.thinking_header = Kind[tok] # "newline"])
    ELSE Routed("Reasoning", t)

Route(tok) == IF request.harmony THEN harmony_route(tracker, tok) ELSE think_route(tracker, tok)

-----------------------------------------------------------------------------
(* Delivery: the tracker and the stream after each kind of token.          *)

Effect(t, s) == [tracker |-> t, stream |-> s]
Becomes(effect) == tracker' = effect.tracker /\ stream' = effect.stream

\* Log-probabilities wait until text goes out.  The seeded fault hands out the
\* last token's alone.
LastLogprob(pending) == IF pending = <<>> THEN <<>> ELSE <<Last(pending)>>
drain_logprobs(pending) == pending

\* A call's block is closed once.  The seeded fault forgets that it was.
CloseAgain(t, s) ==
    LET rest == Finish(t.output, t.output_ids)
    IN  IF ~t.harmony_tool_open THEN Effect(t, s)
        ELSE Effect([t EXCEPT !.output = rest.decoder],
                    [s EXCEPT !.content = Append(@ \o rest.text, Closer)])
close_harmony_tool_call(t, s) ==
    LET rest == Finish(t.output, t.output_ids)
    IN  IF ~t.harmony_tool_open THEN Effect(t, s)
        ELSE Effect([t EXCEPT !.harmony_tool_open = FALSE, !.output = rest.decoder],
                    [s EXCEPT !.content = Append(@ \o rest.text, Closer)])

SendReasoning(t, ids) ==
    \E out \in {Push(t.thinking, ids)} :
        Becomes(Effect([t EXCEPT !.thinking_ids = ids, !.thinking = out.decoder],
                       [stream EXCEPT !.reasoning = @ \o out.text]))

\* The end of a stream: what is left of the reasoning, then the reason.
Ended(t, s, reason) ==
    LET rest == Finish(t.thinking, t.thinking_ids)
    IN  Effect([t EXCEPT !.thinking = rest.decoder],
               [s EXCEPT !.reasoning = @ \o rest.text, !.finish = reason])

\* A stop string ends the request there.
SendContent(t, ids, lps) ==
    \E out \in {Push(t.output, ids)} : \E scan \in {ScanPush(request.stops, t.held, out.text)} :
        LET next == [t EXCEPT !.output_ids = ids, !.output = out.decoder]
            cleared == [next EXCEPT !.held = scan.held, !.pending_raw_lps = <<>>]
            sent == [stream EXCEPT !.content = @ \o scan.text, !.logprobs = @ \o drain_logprobs(lps)]
        IN  Becomes(IF out.text = <<>> THEN Effect([next EXCEPT !.pending_raw_lps = lps], stream)
                    ELSE IF scan.stopped THEN Ended(cleared, sent, "stop")
                    ELSE Effect(cleared, sent))

Deliver(route, t, tok) ==
    CASE route = "Framing" \/ (route = "Reasoning" /\ ~request.wants_reasoning) ->
            Becomes(Effect(t, stream))
      [] route = "Reasoning" /\ request.wants_reasoning ->
            SendReasoning(t, Append(t.thinking_ids, tok))
      [] route = "Content" ->
            SendContent(t, Append(t.output_ids, tok), Append(t.pending_raw_lps, tok))
      [] route = "ToolCall" ->
            Becomes(Effect([t EXCEPT !.harmony_tool_open = TRUE],
                           [stream EXCEPT !.content = Append(@, Opener)]))
      [] route = "ToolCallEnd" -> Becomes(close_harmony_tool_call(t, stream))

\* The engine produced a token of this request.
TokenOut(tok) ==
    /\ stream.finish = "none" /\ Len(history) < request.bound
    /\ history' = Append(history, tok)
    /\ \E to \in {Route(tok)} : Deliver(to.route, to.tracker, tok)
    /\ UNCHANGED request

\* The engine completed this request, for its own reason.
Flush(t, s) ==
    LET rest == Finish(t.output, t.output_ids)
        scan == ScanFinish(request.stops, t.held, rest.text)
        closed == close_harmony_tool_call(
                    [t EXCEPT !.output = rest.decoder, !.held = scan.held, !.pending_raw_lps = <<>>],
                    [s EXCEPT !.content = @ \o scan.text, !.logprobs = @ \o drain_logprobs(t.pending_raw_lps)])
    IN  Ended(closed.tracker, closed.stream, IF scan.stopped THEN "stop" ELSE "length")

Completed ==
    /\ stream.finish = "none"
    /\ Becomes(Flush(tracker, stream))
    /\ UNCHANGED <<request, history>>

Next == (\E tok \in request.vocabulary : TokenOut(tok)) \/ Completed

Spec == Init /\ [][Next]_vars

-----------------------------------------------------------------------------

(* Properties.                                                             *)

\* What the router saw at position i of a history h.
K(h, i) == Kind[h[i]]

\* The last of the given markers before position i, 0 if there is none.
LastOf(h, kinds, i) == Max({0} \cup {j \in 1 .. i - 1 : K(h, j) \in kinds})
Between(h, i, j, kind) == \E k \in i + 1 .. j - 1 : K(h, k) = kind

\* What begins or ends a message.
Marks == {"channel", "end", "start"}
BodyAt(h, at, i) == Min({j \in at + 1 .. i : K(h, j) = "message"} \cup {i})

\* Where a token belongs, read off the whole history instead of carried along:
\* for harmony, from the marker its message began with and what its header says.
HarmonyPlace(h, i) ==
    LET at == LastOf(h, Marks, i)
        body == BodyAt(h, at, i)
    IN  IF K(h, i) \in Marks THEN "Framing"
        ELSE IF at = 0 \/ (at > 0 /\ K(h, at) = "end")
        THEN IF i = at + 1 /\ K(h, i) = "message" THEN "Framing" ELSE "Content"
        ELSE IF ~Between(h, at, i, "message") THEN "Framing"
        ELSE IF K(h, at) = "start" THEN "Content"
        ELSE IF Between(h, at, body, "recipient") THEN "Call"
        ELSE IF Between(h, at, body, "final") THEN "Content" ELSE "Reasoning"

ThinkMarks == {"think", "named_think", "think_end"}
Thinking(h, i) ==
    LET at == LastOf(h, ThinkMarks, i)
    IN  IF at = 0 THEN request.thinking_open ELSE K(h, at) # "think_end"

\* A marker that names its thinking has the name behind it, up to the line's end.
InName(h, i) ==
    LET at == LastOf(h, ThinkMarks, i)
    IN  /\ at > 0 /\ K(h, at) = "named_think" /\ ~Thinking(h, at)
        /\ ~Between(h, at, i, "newline")

ThinkPlace(h, i) ==
    IF K(h, i) \in {"think", "named_think"} THEN "Framing"
    ELSE IF ~Thinking(h, i) THEN "Content"
    ELSE IF K(h, i) = "think_end" \/ InName(h, i) THEN "Framing"
    ELSE "Reasoning"

Place(h, i) == IF request.harmony THEN HarmonyPlace(h, i) ELSE ThinkPlace(h, i)

\* The members of a history at the given positions, in their order.
At(h, positions) ==
    LET at == Pick([i \in DOMAIN h |-> i], positions) IN [k \in DOMAIN at |-> h[at[k]]]
PlacedIn(h, places) == At(h, {i \in DOMAIN h : Place(h, i) \in places})
Placed(places) == PlacedIn(history, places)

\* Messages follow one another as the protocol says: a role is opened at the
\* start or where a message ended, and a channel is not opened in a header.
WellFormed(h) ==
    \A i \in DOMAIN h :
        LET at == LastOf(h, Marks, i)
        IN  /\ K(h, i) = "start" => i = 1 \/ K(h, i - 1) = "end"
            /\ K(h, i) = "channel" /\ at > 0 /\ K(h, at) = "channel" => Between(h, at, i, "message")

\* Every token reaches the channel it belongs to: the content has the tokens of
\* final messages and calls and no other, the reasoning those of the other
\* channels if it was asked for, and markers, roles and names reach nobody
\* (harmony_route and the think markers, which carry one state along).
ChannelsSplit ==
    WellFormed(history) =>
        /\ tracker.output_ids = Placed({"Content", "Call"})
        /\ tracker.thinking_ids = IF request.wants_reasoning THEN Placed({"Reasoning"}) ELSE <<>>

\* The content without the framing the loop wrote.
Said == Pick(stream.content, Character)

CutAtStop(text) ==
    LET at == Matches(request.stops, text)
    IN  IF at = {} THEN text ELSE SubSeq(text, 1, Min(at))

\* The first k tokens end where a character ends.
EndsWhole(ids, k) == ~EndsBroken(Decode(SubSeq(ids, 1, k)))

\* A character that is cut is whole again within the decoder's back-off, and the
\* space it may strip is in the first token.
Settles(ids) ==
    /\ \A e \in 1 .. Len(ids) - SPLIT_CHAR_BACKOFF :
          \E k \in e .. e + SPLIT_CHAR_BACKOFF : EndsWhole(ids, k)
    /\ StripsLeadingSpace /\ ids # <<>> => Bytes[ids[1]] # <<>>

\* No character is cut at all, and no stop string looked for.
Whole(ids) == request.stops = {} /\ \A k \in DOMAIN ids : EndsWhole(ids, k)

\* However the tokens cut characters and stop strings, the client reads what
\* one decode of the whole sequence says, up to the first stop string, and
\* never a part of a stop string; the reasoning likewise, which no stop string
\* cuts (IncrementalDecoder and StopScanner together).  A function call's framing
\* goes past both: what they hold back must be nothing there.
StreamExact ==
    LET text == Decode(tracker.output_ids)
        thought == Decode(tracker.thinking_ids)
        over == stream.finish # "none"
    IN  /\ /\ Settles(tracker.output_ids)
           /\ \A stop \in request.stops : \A i \in DOMAIN stop : stop[i] # Replacement
           /\ Opener \in Range(stream.content) => Whole(tracker.output_ids)
           => /\ Matches(request.stops, Said) = {}
              /\ IF over THEN Said = CutAtStop(text) ELSE IsPrefix(Said, text)
        /\ Settles(tracker.thinking_ids) =>
              IF over THEN stream.reasoning = thought ELSE IsPrefix(stream.reasoning, thought)

\* The log-probability of every content token is handed out once, in order,
\* and none is left behind when the stream ends (pending_raw_lps).
LogprobsExact ==
    /\ stream.logprobs \o tracker.pending_raw_lps = tracker.output_ids
    /\ stream.finish # "none" => tracker.pending_raw_lps = <<>>

\* The content with its framing, token by token: an opener where a header that
\* names a function ends, a closer where the call's body ends.
FramedAt(h, i) ==
    LET at == LastOf(h, Marks, i)
        calls == at > 0 /\ K(h, at) = "channel" /\ Between(h, at, i + 1, "message")
                 /\ Between(h, at, BodyAt(h, at, i), "recipient")
    IN  IF calls /\ ~Between(h, at, i, "message") THEN <<Opener>>
        ELSE IF calls /\ K(h, i) \in Marks THEN <<Closer>>
        ELSE IF Place(h, i) \in {"Content", "Call"} THEN Lossy(Bytes[h[i]]) ELSE <<>>
Framed(h) == FlattenSeq([i \in DOMAIN h |-> FramedAt(h, i)])

\* A function call reaches the client as one block: the opener, all of the
\* body, the closer, in that order and with nothing of the body behind it
\* (close_harmony_tool_call).
CallsWhole ==
    /\ request.harmony /\ WellFormed(history)
    /\ Whole(tracker.output_ids) /\ Decode(tracker.output_ids) = Lossy(Spelled(tracker.output_ids))
    => stream.content = IF stream.finish # "none" /\ tracker.harmony_state.tool
                        THEN Append(Framed(history), Closer) ELSE Framed(history)

=============================================================================
