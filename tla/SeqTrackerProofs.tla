-------------------------- MODULE SeqTrackerProofs --------------------------
(***************************************************************************)
(* What of a stream holds for every vocabulary, every set of stop strings  *)
(* and every order of tokens: the log-probabilities (the tokens the        *)
(* content was given are those whose log-probabilities went out and those  *)
(* that wait, and routing touches neither), the channels (the one state    *)
(* the router carries along is what the history of tokens says, read from  *)
(* its last marker on), the texts (what was handed out and what is held    *)
(* are one decode of all tokens, but for the U+FFFD at its end, and no     *)
(* stop string begins in what was handed out) and the calls (the content   *)
(* is the history framed where its headers and markers say).               *)
(***************************************************************************)
EXTENDS SeqTracker, SequenceTheorems, DataLemmas, TLAPS

\* The fields of a tracker and of a stream.
TrackerFields ==
    {"in_thinking", "thinking_header", "output_ids", "thinking_ids", "output", "thinking", "held",
     "pending_raw_lps", "harmony_state", "harmony_header_ids", "harmony_tool_open"}
StreamFields == {"content", "reasoning", "logprobs", "finish"}

\* What went out and what waits are what the content was given.
Logged(t, s) ==
    /\ DOMAIN t = TrackerFields /\ DOMAIN s = StreamFields
    /\ t.output_ids \in Seq(Token) /\ t.pending_raw_lps \in Seq(Token) /\ s.logprobs \in Seq(Token)
    /\ s.logprobs \o t.pending_raw_lps = t.output_ids

\* The invariant of the log-probabilities.
IInv ==
    /\ request \in Sessions
    /\ Logged(tracker, stream)
    /\ stream.finish # "none" => tracker.pending_raw_lps = <<>>

-----------------------------------------------------------------------------

\* u is t but for what has nothing to do with the tokens handed on.
Alike(t, u) ==
    /\ DOMAIN u = TrackerFields
    /\ u.output_ids = t.output_ids /\ u.pending_raw_lps = t.pending_raw_lps
    /\ u.thinking_ids = t.thinking_ids

\* Routing changes what it carries along, and nothing else.
Rerouted(t, u) ==
    /\ Alike(t, u)
    /\ u.output = t.output /\ u.thinking = t.thinking /\ u.held = t.held
    /\ u.harmony_tool_open = t.harmony_tool_open

\* Where a token can go.
Routes == {"Framing", "Reasoning", "Content", "ToolCall", "ToolCallEnd"}

\* What a routing says.
LEMMA RoutedFacts ==
    ASSUME NEW route, NEW t
    PROVE  Routed(route, t).route = route /\ Routed(route, t).tracker = t
    BY DEF Routed

\* Changes of the protocol state.
LEMMA StateFacts ==
    ASSUME NEW t, DOMAIN t = TrackerFields, NEW state
    PROVE  Rerouted(t, t) /\ Rerouted(t, To(t, state)) /\ Rerouted(t, Open(t))
    BY DEF Rerouted, Alike, To, Open, TrackerFields

\* Both protocols route a token and carry their own state along, no more.
LEMMA HarmonyFacts ==
    ASSUME NEW t, DOMAIN t = TrackerFields, NEW tok, NEW r, r = harmony_route(t, tok)
    PROVE  Rerouted(t, r.tracker) /\ r.route \in Routes
<1> DEFINE Fine(u) == Rerouted(t, u)
<1>1. /\ Fine(t) /\ Fine(Open(t)) /\ \A state : Fine(To(t, state))
      /\ Fine([t EXCEPT !.harmony_header_ids = Append(@, tok)])
    <2>1. Fine([t EXCEPT !.harmony_header_ids = Append(@, tok)])
        BY DEF Rerouted, Alike, TrackerFields
    <2> QED
        BY <2>1, StateFacts
<1> DEFINE Ok(x) == Fine(x.tracker) /\ x.route \in Routes
           kind == Kind[tok]
           named == [t EXCEPT !.harmony_header_ids = Append(@, tok)]
           called == Names(t.harmony_header_ids, "recipient")
           final == Names(t.harmony_header_ids, "final")
<1>2. \A route \in Routes : \A u : Fine(u) => Ok(Routed(route, u))
    BY RoutedFacts
<1>3. {"Framing", "Content", "Reasoning", "ToolCall", "ToolCallEnd"} \subseteq Routes
    BY DEF Routes
<1> SUFFICES Ok(r)
    OBVIOUS
<1> HIDE DEF Fine, Ok, kind, called, final, named
<1>4. Markers # Role /\ Markers # Header /\ Role # Header
    <2>1. Markers.in = "Markers" /\ Role.in = "Role" /\ Header.in = "Header"
        BY DEF Markers, Role, Header, Outside
    <2> QED
        BY <2>1
<1>5. CASE t.harmony_state = Markers
    <2>1. r = IF kind = "channel" THEN Routed("Framing", Open(t))
              ELSE IF kind = "start" THEN Routed("Framing", To(t, Role))
              ELSE IF kind = "end" THEN Routed("Framing", t)
              ELSE Routed(IF kind = "message" THEN "Framing" ELSE "Content", To(t, Body(TRUE, FALSE)))
        BY <1>4, <1>5 DEF harmony_route, kind
    <2>2. (IF kind = "message" THEN "Framing" ELSE "Content") \in Routes
        BY <1>3
    <2> QED
        BY <1>1, <1>2, <1>3, <2>1, <2>2
<1>6. CASE t.harmony_state = Role
    <2> DEFINE u == CASE kind = "channel" -> Open(t)
                      [] kind = "message" -> To(t, Body(TRUE, FALSE))
                      [] kind = "end"     -> To(t, Markers)
                      [] OTHER            -> t
    <2>1. r = Routed("Framing", u)
        BY <1>4, <1>6 DEF harmony_route, kind
    <2>2. Fine(u)
        BY <1>1
    <2> QED
        BY <1>2, <1>3, <2>1, <2>2
<1>7. CASE t.harmony_state = Header
    <2> DEFINE call == IF called THEN "ToolCall" ELSE "Framing"
               u == IF kind \in {"end", "start"} THEN To(t, Markers) ELSE named
    <2>1. r = IF kind = "message" THEN Routed(call, To(t, Body(final, called))) ELSE Routed("Framing", u)
        BY <1>4, <1>7 DEF harmony_route, kind, called, final, named
    <2>2. call \in Routes /\ Fine(u)
        BY <1>1, <1>3 DEF named
    <2> QED
        BY <1>1, <1>2, <1>3, <2>1, <2>2
<1>8. CASE t.harmony_state \notin {Markers, Role, Header}
    <2> DEFINE end == IF t.harmony_state.tool THEN "ToolCallEnd" ELSE "Framing"
               body == IF t.harmony_state.tool \/ t.harmony_state.final_channel THEN "Content" ELSE "Reasoning"
               u == IF kind = "channel" THEN Open(t) ELSE To(t, Markers)
    <2>1. r = IF kind \in {"end", "start", "channel"} THEN Routed(end, u) ELSE Routed(body, t)
        BY <1>8 DEF harmony_route, kind
    <2>2. end \in Routes /\ body \in Routes /\ Fine(u)
        BY <1>1, <1>3
    <2> QED
        BY <1>1, <1>2, <2>1, <2>2
<1> QED
    BY <1>5, <1>6, <1>7, <1>8

\* The think markers.
LEMMA ThinkFacts ==
    ASSUME NEW t, DOMAIN t = TrackerFields, NEW tok, NEW r, r = think_route(t, tok)
    PROVE  Rerouted(t, r.tracker) /\ r.route \in Routes
<1> DEFINE opened == [t EXCEPT !.in_thinking = TRUE,
                           !.thinking_header = ~t.in_thinking /\ Kind[tok] = "named_think"]
           closed == [t EXCEPT !.in_thinking = FALSE, !.thinking_header = FALSE]
           header == [t EXCEPT !.thinking_header = Kind[tok] # "newline"]
<1>1. Rerouted(t, t) /\ Rerouted(t, opened) /\ Rerouted(t, closed) /\ Rerouted(t, header)
    BY DEF Rerouted, Alike, TrackerFields
<1>2. r \in {Routed("Framing", opened), Routed("Content", t), Routed("Framing", closed),
            Routed("Framing", header), Routed("Reasoning", t)}
    BY DEF think_route
<1> HIDE DEF opened, closed, header
<1> QED
    BY <1>1, <1>2, RoutedFacts DEF Routes

\* Alike trackers log alike.
LEMMA AlikeLogged ==
    ASSUME NEW t, NEW u, NEW s, Alike(t, u), Logged(t, s)
    PROVE  Logged(u, s)
    BY DEF Alike, Logged

\* What an effect is.
LEMMA EffectFacts ==
    ASSUME NEW t, NEW s
    PROVE  Effect(t, s).tracker = t /\ Effect(t, s).stream = s
    BY DEF Effect

\* Closing a call and ending a stream leave the log-probabilities alone.
LEMMA CloseFacts ==
    ASSUME NEW t, NEW s, Logged(t, s), NEW e, e = close_harmony_tool_call(t, s)
    PROVE  Alike(t, e.tracker) /\ Logged(e.tracker, e.stream) /\ e.stream.finish = s.finish
<1> DEFINE rest == Finish(t.output, t.output_ids)
           u == [t EXCEPT !.harmony_tool_open = FALSE, !.output = rest.decoder]
           v == [s EXCEPT !.content = Append(@ \o rest.text, Closer)]
<1>1. e = IF ~t.harmony_tool_open THEN Effect(t, s) ELSE Effect(u, v)
    BY DEF close_harmony_tool_call
<1> HIDE DEF rest
<1>2. Alike(t, t) /\ Alike(t, u)
    BY DEF Alike, Logged, TrackerFields
<1>3. DOMAIN v = StreamFields /\ v.logprobs = s.logprobs /\ v.finish = s.finish
    BY DEF Logged, StreamFields
<1> HIDE DEF u, v
<1>4. Logged(u, v)
    BY <1>2, <1>3 DEF Logged, Alike
<1> QED
    BY <1>1, <1>2, <1>3, <1>4, EffectFacts

\* The end of a stream.
LEMMA EndedFacts ==
    ASSUME NEW t, NEW s, Logged(t, s), NEW reason, NEW e, e = Ended(t, s, reason)
    PROVE  Alike(t, e.tracker) /\ Logged(e.tracker, e.stream)
<1> DEFINE rest == Finish(t.thinking, t.thinking_ids)
           u == [t EXCEPT !.thinking = rest.decoder]
           v == [s EXCEPT !.reasoning = @ \o rest.text, !.finish = reason]
<1>1. e = Effect(u, v)
    BY DEF Ended
<1> HIDE DEF rest
<1>2. Alike(t, u)
    BY DEF Alike, Logged, TrackerFields
<1>3. DOMAIN v = StreamFields /\ v.logprobs = s.logprobs
    BY DEF Logged, StreamFields
<1> HIDE DEF u, v
<1>4. Logged(u, v)
    BY <1>2, <1>3 DEF Logged, Alike
<1> QED
    BY <1>1, <1>2, <1>4, EffectFacts

\* Nothing at the end.
LEMMA EmptyEnd == \A s \in Seq(Token) : s \o <<>> = s
    OBVIOUS

\* One token more, in what waits and in what was given.
LEMMA AppendEnd ==
    \A s, p \in Seq(Token), tok \in Token :
        /\ Append(p, tok) \in Seq(Token) /\ s \o Append(p, tok) \in Seq(Token)
        /\ s \o Append(p, tok) = Append(s \o p, tok)
    OBVIOUS

\* All that waits goes out.
LEMMA DrainFacts ==
    ASSUME NEW t, NEW s, DOMAIN t = TrackerFields, DOMAIN s = StreamFields,
           t.output_ids \in Seq(Token), t.pending_raw_lps = <<>>, s.logprobs = t.output_ids
    PROVE  Logged(t, s)
    BY EmptyEnd DEF Logged

-----------------------------------------------------------------------------

\* A new request.
LEMMA InitHolds == Init => IInv
<1> SUFFICES ASSUME Init PROVE IInv
    OBVIOUS
<1>1. /\ request \in Sessions /\ stream.finish = "none" /\ stream.logprobs = <<>>
      /\ DOMAIN stream = StreamFields /\ DOMAIN tracker = TrackerFields
      /\ tracker.output_ids = <<>> /\ tracker.pending_raw_lps = <<>>
    BY DEF Init, NewTracker, StreamFields, TrackerFields
<1>2. <<>> \in Seq(Token)
    OBVIOUS
<1> QED
    BY <1>1, <1>2, DrainFacts DEF IInv

\* Content: the token joins what waits, and if text goes out all of it does.
LEMMA ContentFacts ==
    ASSUME NEW t, NEW tok \in Token, Logged(t, stream), stream.finish = "none",
           SendContent(t, Append(t.output_ids, tok), Append(t.pending_raw_lps, tok))
    PROVE  Logged(tracker', stream') /\ (stream'.finish # "none" => tracker'.pending_raw_lps = <<>>)
<1> DEFINE ids == Append(t.output_ids, tok)
           lps == Append(t.pending_raw_lps, tok)
<1>1. /\ ids \in Seq(Token) /\ lps \in Seq(Token) /\ stream.logprobs \o lps = ids
      /\ stream.logprobs \in Seq(Token)
    <2> DEFINE o == t.output_ids
               p == t.pending_raw_lps
               s == stream.logprobs
    <2>1. o \in Seq(Token) /\ p \in Seq(Token) /\ s \in Seq(Token) /\ s \o p = o
        BY DEF Logged
    <2> HIDE DEF o, p, s
    <2>2. /\ Append(p, tok) \in Seq(Token) /\ s \o Append(p, tok) \in Seq(Token)
          /\ s \o Append(p, tok) = Append(o, tok)
        BY <2>1, AppendEnd, Zenon
    <2> QED
        BY <2>1, <2>2, Zenon DEF o, p, s
<1> HIDE DEF ids, lps
<1> DEFINE out == Push(t.output, ids)
           scan == ScanPush(request.stops, t.held, out.text)
           next == [t EXCEPT !.output_ids = ids, !.output = out.decoder]
           waits == [next EXCEPT !.pending_raw_lps = lps]
           cleared == [next EXCEPT !.held = scan.held, !.pending_raw_lps = <<>>]
           sent == [stream EXCEPT !.content = @ \o scan.text, !.logprobs = @ \o lps]
<1>2. \/ Becomes(Effect(waits, stream))
      \/ Becomes(Ended(cleared, sent, "stop"))
      \/ Becomes(Effect(cleared, sent))
    BY DEF SendContent, drain_logprobs, ids, lps
<1> HIDE DEF out, scan
<1>3. Logged(waits, stream)
    <2>1. DOMAIN waits = TrackerFields /\ waits.output_ids = ids /\ waits.pending_raw_lps = lps
        BY DEF Logged, TrackerFields
    <2> HIDE DEF waits
    <2> QED
        BY <1>1, <2>1 DEF Logged
<1>4. Logged(cleared, sent) /\ cleared.pending_raw_lps = <<>>
    <2>1. DOMAIN cleared = TrackerFields /\ cleared.output_ids = ids /\ cleared.pending_raw_lps = <<>>
        BY DEF Logged, TrackerFields
    <2>2. DOMAIN sent = StreamFields /\ sent.logprobs = stream.logprobs \o lps
        BY DEF Logged, StreamFields
    <2> HIDE DEF cleared, sent
    <2> QED
        BY <1>1, <2>1, <2>2, DrainFacts
<1> HIDE DEF waits, cleared, sent
<1>5. CASE Becomes(Effect(waits, stream))
    BY <1>3, <1>5, EffectFacts DEF Becomes
<1>6. CASE Becomes(Ended(cleared, sent, "stop"))
    BY <1>4, <1>6, EndedFacts DEF Becomes, Alike
<1>7. CASE Becomes(Effect(cleared, sent))
    BY <1>4, <1>7, EffectFacts DEF Becomes
<1> QED
    BY <1>2, <1>5, <1>6, <1>7

\* A token of any route.
LEMMA TokenOutStep ==
    ASSUME IInv, NEW tok \in request.vocabulary, TokenOut(tok)
    PROVE  IInv'
<1>1. /\ stream.finish = "none" /\ request' = request /\ request \in Sessions
      /\ Logged(tracker, stream) /\ tok \in Token
    BY TrackerAssumption DEF IInv, TokenOut
<1> DEFINE to == Route(tok)
           t == to.tracker
<1>2. Deliver(to.route, t, tok)
    BY DEF TokenOut
<1>3. Alike(tracker, t) /\ to.route \in Routes
    BY <1>1, HarmonyFacts, ThinkFacts DEF Route, Logged, Rerouted
<1>4. Logged(t, stream)
    BY <1>1, <1>3, AlikeLogged
<1> HIDE DEF to
<1> SUFFICES Logged(tracker', stream') /\ (stream'.finish # "none" => tracker'.pending_raw_lps = <<>>)
    BY <1>1 DEF IInv
<1>5. CASE Becomes(Effect(t, stream))
    BY <1>1, <1>4, <1>5, EffectFacts DEF Becomes
<1>6. CASE SendReasoning(t, Append(t.thinking_ids, tok))
    <2> DEFINE ids == Append(t.thinking_ids, tok)
               out == Push(t.thinking, ids)
               u == [t EXCEPT !.thinking_ids = ids, !.thinking = out.decoder]
               v == [stream EXCEPT !.reasoning = @ \o out.text]
    <2>1. tracker' = u /\ stream' = v
        BY <1>6, EffectFacts DEF SendReasoning, Becomes
    <2> HIDE DEF ids, out
    <2>2. DOMAIN u = TrackerFields /\ u.output_ids = t.output_ids /\ u.pending_raw_lps = t.pending_raw_lps
        BY <1>4 DEF Logged, TrackerFields
    <2>3. DOMAIN v = StreamFields /\ v.logprobs = stream.logprobs /\ v.finish = stream.finish
        BY <1>4 DEF Logged, StreamFields
    <2> HIDE DEF u, v
    <2>4. Logged(u, v)
        BY <1>4, <2>2, <2>3 DEF Logged
    <2> QED
        BY <1>1, <2>1, <2>3, <2>4
<1>7. CASE SendContent(t, Append(t.output_ids, tok), Append(t.pending_raw_lps, tok))
    BY <1>1, <1>4, <1>7, ContentFacts
<1>8. CASE Becomes(Effect([t EXCEPT !.harmony_tool_open = TRUE],
                          [stream EXCEPT !.content = Append(@, Opener)]))
    <2> DEFINE u == [t EXCEPT !.harmony_tool_open = TRUE]
               v == [stream EXCEPT !.content = Append(@, Opener)]
    <2>1. tracker' = u /\ stream' = v
        BY <1>8, EffectFacts DEF Becomes
    <2>2. Alike(t, u)
        BY <1>4 DEF Alike, Logged, TrackerFields
    <2>3. DOMAIN v = StreamFields /\ v.logprobs = stream.logprobs /\ v.finish = stream.finish
        BY <1>4 DEF Logged, StreamFields
    <2> HIDE DEF u, v
    <2>4. Logged(u, v)
        BY <1>4, <2>2, <2>3 DEF Logged, Alike
    <2> QED
        BY <1>1, <2>1, <2>3, <2>4
<1>9. CASE Becomes(close_harmony_tool_call(t, stream))
    BY <1>1, <1>4, <1>9, CloseFacts DEF Becomes
<1> QED
    <2>1. CASE to.route = "Framing"
        BY <1>2, <1>5, <2>1 DEF Deliver
    <2>2. CASE to.route = "Reasoning"
        BY <1>2, <1>5, <1>6, <2>2 DEF Deliver
    <2>3. CASE to.route = "Content"
        BY <1>2, <1>7, <2>3 DEF Deliver
    <2>4. CASE to.route = "ToolCall"
        BY <1>2, <1>8, <2>4 DEF Deliver
    <2>5. CASE to.route = "ToolCallEnd"
        BY <1>2, <1>9, <2>5 DEF Deliver
    <2> QED
        BY <1>3, <2>1, <2>2, <2>3, <2>4, <2>5 DEF Routes

\* The end of the request.
LEMMA CompletedStep == IInv /\ Completed => IInv'
<1> SUFFICES ASSUME IInv, Completed PROVE IInv'
    OBVIOUS
<1>1. /\ request' = request /\ request \in Sessions /\ Logged(tracker, stream)
      /\ Becomes(Flush(tracker, stream))
    BY DEF IInv, Completed
<1> DEFINE rest == Finish(tracker.output, tracker.output_ids)
           scan == ScanFinish(request.stops, tracker.held, rest.text)
           u == [tracker EXCEPT !.output = rest.decoder, !.held = scan.held, !.pending_raw_lps = <<>>]
           v == [stream EXCEPT !.content = @ \o scan.text, !.logprobs = @ \o tracker.pending_raw_lps]
           closed == close_harmony_tool_call(u, v)
           reason == IF scan.stopped THEN "stop" ELSE "length"
           e == Ended(closed.tracker, closed.stream, reason)
<1>2. tracker' = e.tracker /\ stream' = e.stream
    BY <1>1 DEF Becomes, Flush, drain_logprobs
<1> HIDE DEF rest, scan, reason
<1>3. DOMAIN u = TrackerFields /\ u.output_ids = tracker.output_ids /\ u.pending_raw_lps = <<>>
    BY <1>1 DEF Logged, TrackerFields
<1>4. DOMAIN v = StreamFields /\ v.logprobs = stream.logprobs \o tracker.pending_raw_lps
    BY <1>1 DEF Logged, StreamFields
<1> HIDE DEF u, v
<1>5. Logged(u, v)
    BY <1>1, <1>3, <1>4, DrainFacts DEF Logged
<1>6. Alike(u, closed.tracker) /\ Logged(closed.tracker, closed.stream)
    BY <1>5, CloseFacts
<1> HIDE DEF closed
<1>7. Alike(closed.tracker, e.tracker) /\ Logged(e.tracker, e.stream)
    BY <1>6, EndedFacts
<1> HIDE DEF e
<1> QED
    BY <1>1, <1>2, <1>3, <1>6, <1>7 DEF IInv, Alike

-----------------------------------------------------------------------------
(* The theorems.                                                           *)

\* Every step keeps the invariant.
LEMMA NextStep == IInv /\ [Next]_vars => IInv'
<1> SUFFICES ASSUME IInv, [Next]_vars PROVE IInv'
    OBVIOUS
<1>1. ASSUME NEW tok \in request.vocabulary, TokenOut(tok) PROVE IInv'
    BY <1>1, TokenOutStep
<1>2. CASE Completed
    BY <1>2, CompletedStep
<1>3. CASE UNCHANGED vars
    BY <1>3 DEF vars, IInv
<1> QED
    BY <1>1, <1>2, <1>3 DEF Next

\* For every vocabulary, protocol, set of stop strings and order of tokens, the
\* log-probability of every content token is handed out once and in order, and
\* none waits once the stream has ended, whenever the decoder and the stop
\* scanner let text go (engine_loop.rs, pending_raw_lps).
THEOREM LogprobsAlwaysExact == Spec => []LogprobsExact
<1>1. IInv => LogprobsExact
    BY DEF IInv, Logged, LogprobsExact
<1>2. Spec => []IInv
    BY InitHolds, NextStep, PTL DEF Spec
<1> QED
    BY <1>1, <1>2, PTL

-----------------------------------------------------------------------------
(* Positions.                                                              *)

\* The least of a set of naturals.
LEMMA MinFacts ==
    ASSUME NEW S \in SUBSET Nat, S # {}
    PROVE  Min(S) \in S /\ \A y \in S : Min(S) <= y
<1>1. \E x \in S : \A y \in S : x <= y
    BY LeastNatural
<1> QED
    BY <1>1 DEF Min

\* The greatest of a set of naturals that has a bound.
LEMMA MaxFacts ==
    ASSUME NEW n \in Nat, NEW S \in SUBSET (0 .. n), S # {}
    PROVE  Max(S) \in S /\ \A y \in S : y <= Max(S)
<1> DEFINE T == {x \in Nat : n - x \in S}
<1>1. T \in SUBSET Nat /\ T # {}
    <2>1. PICK y \in S : TRUE
        OBVIOUS
    <2>2. n - y \in Nat /\ n - (n - y) = y
        OBVIOUS
    <2> QED
        BY <2>1, <2>2
<1>2. PICK x \in T : \A y \in T : x <= y
    BY <1>1, LeastNatural
<1>3. ASSUME NEW y \in S PROVE y <= n - x
    <2>1. n - y \in Nat /\ n - (n - y) = y
        OBVIOUS
    <2>2. n - y \in T
        BY <2>1
    <2> QED
        BY <1>2, <2>2
<1>4. n - x \in S
    BY <1>2
<1>5. \E m \in S : \A y \in S : m >= y
    BY <1>3, <1>4
<1> QED
    BY <1>5 DEF Max

\* A filter looks at the members alone.
LEMMA PickCongruence ==
    ASSUME NEW T, NEW s \in Seq(T), NEW S, NEW U, \A x \in T : x \in S <=> x \in U
    PROVE  Pick(s, S) = Pick(s, U)
<1> DEFINE m == Len(s)
<1>1. m \in Nat /\ \A i \in 1 .. m : s[i] \in T
    OBVIOUS
<1>2. PICK g : Pick(s, S) = g[m] /\ g = [n \in 0 .. m |-> PickStep(s, S, g, n)]
    BY PickRecursion
<1>3. PICK h : Pick(s, U) = h[m] /\ h = [n \in 0 .. m |-> PickStep(s, U, h, n)]
    BY PickRecursion
<1> HIDE DEF m
<1> DEFINE Q == {n \in Nat : n <= m => g[n] = h[n]}
<1>4. 0 \in Q
    BY <1>1, <1>2, <1>3 DEF PickStep
<1>5. ASSUME NEW n \in Q PROVE n + 1 \in Q
    <2> SUFFICES ASSUME n + 1 <= m PROVE g[n + 1] = h[n + 1]
        OBVIOUS
    <2>1. n \in Nat /\ g[n] = h[n] /\ n + 1 \in 0 .. m /\ n + 1 # 0 /\ (n + 1) - 1 = n /\ n + 1 \in 1 .. m
        BY <1>1
    <2>2. s[n + 1] \in S <=> s[n + 1] \in U
        BY <1>1, <2>1
    <2>3. g[n + 1] = PickStep(s, S, g, n + 1)
        BY <1>2, <2>1
    <2>4. h[n + 1] = PickStep(s, U, h, n + 1)
        BY <1>3, <2>1
    <2> QED
        BY <2>1, <2>2, <2>3, <2>4 DEF PickStep
<1>6. Q = Nat
    <2> HIDE DEF Q
    <2>1. Q \in SUBSET Nat
        BY DEF Q
    <2> QED
        BY <1>4, <1>5, <2>1, NatSetInduction
<1>7. g[m] = h[m]
    BY <1>1, <1>6
<1> QED
    BY <1>2, <1>3, <1>7

\* What is at some positions of a history that grew by a token.
LEMMA AtAppend ==
    ASSUME NEW h \in Seq(Token), NEW tok \in Token, NEW P, NEW Q,
           \A i \in 1 .. Len(h) : i \in P <=> i \in Q
    PROVE  At(Append(h, tok), Q) = IF Len(h) + 1 \in Q THEN Append(At(h, P), tok) ELSE At(h, P)
<1> DEFINE n == Len(h) + 1
           g == Append(h, tok)
           s == [i \in DOMAIN h |-> i]
           u == [i \in DOMAIN g |-> i]
           D == 1 .. n
           E == 1 .. Len(h)
<1>1. n \in Nat /\ g \in Seq(Token) /\ Len(g) = n /\ g[n] = tok /\ (\A i \in E : g[i] = h[i])
      /\ DOMAIN h = E /\ DOMAIN g = D /\ n \in D /\ E \subseteq D
    OBVIOUS
<1>2. s \in Seq(E) /\ s \in Seq(D) /\ u = Append(s, n)
    <2>1. s \in Seq(E) /\ s \in Seq(D) /\ Len(s) = Len(h)
        OBVIOUS
    <2>2. Len(Append(s, n)) = n /\ Append(s, n) \in Seq(D) /\ \A i \in D : Append(s, n)[i] = i
        BY <2>1
    <2> QED
        BY <1>1, <2>1, <2>2
<1> DEFINE p == Pick(s, P)
           q == Pick(u, Q)
<1>3. p = Pick(s, Q)
    BY <1>2, PickCongruence
<1>4. q = IF n \in Q THEN Append(Pick(s, Q), n) ELSE Pick(s, Q)
    <2> HIDE DEF s, n
    <2>1. s \in Seq(D) /\ n \in D
        BY <1>1, <1>2
    <2> HIDE DEF D
    <2>2. Pick(Append(s, n), Q) = IF n \in Q THEN Append(Pick(s, Q), n) ELSE Pick(s, Q)
        BY <2>1, PickAppend
    <2> QED
        BY <1>2, <2>2
<1>5. p \in Seq(E)
    BY <1>2, PickPlaces
<1>6. At(h, P) = [k \in DOMAIN p |-> h[p[k]]] /\ At(g, Q) = [k \in DOMAIN q |-> g[q[k]]]
    BY DEF At
<1> HIDE DEF p, q, s, u
<1>7. \A k \in DOMAIN p : p[k] \in E /\ g[p[k]] = h[p[k]]
    BY <1>1, <1>5
<1>8. CASE n \notin Q
    <2>1. q = p
        BY <1>3, <1>4, <1>8
    <2> QED
        BY <1>6, <1>7, <1>8, <2>1
<1>9. CASE n \in Q
    <2>1. q = Append(p, n) /\ DOMAIN p = 1 .. Len(p) /\ Len(p) \in Nat
        BY <1>3, <1>4, <1>5, <1>9
    <2>2. DOMAIN q = 1 .. Len(p) + 1 /\ q[Len(p) + 1] = n /\ \A k \in 1 .. Len(p) : q[k] = p[k]
        BY <1>1, <1>5, <2>1
    <2> DEFINE a == At(h, P)
    <2>3. a = [k \in 1 .. Len(p) |-> h[p[k]]] /\ a \in Seq(Token) /\ Len(a) = Len(p)
        BY <1>1, <1>6, <1>7, <2>1
    <2>4. \A k \in 1 .. Len(p) + 1 : g[q[k]] = Append(a, tok)[k]
        <3> TAKE k \in 1 .. Len(p) + 1
        <3>1. CASE k = Len(p) + 1
            BY <1>1, <2>2, <2>3, <3>1
        <3>2. CASE k # Len(p) + 1
            <4>1. k \in 1 .. Len(p)
                BY <2>1, <3>2
            <4>2. g[q[k]] = h[p[k]]
                BY <1>7, <2>1, <2>2, <4>1
            <4>3. Append(a, tok)[k] = a[k] /\ a[k] = h[p[k]]
                BY <2>3, <4>1
            <4> QED
                BY <4>2, <4>3
        <3> QED
            BY <3>1, <3>2
    <2>5. Append(a, tok) \in Seq(Token) /\ Len(Append(a, tok)) = Len(p) + 1
        BY <2>3
    <2> HIDE DEF a
    <2> DEFINE b == Append(a, tok)
    <2>6. b = [k \in 1 .. Len(p) + 1 |-> b[k]]
        <3> HIDE DEF b
        <3>1. b \in Seq(Token) /\ Len(b) = Len(p) + 1
            BY <2>5 DEF b
        <3>2. DOMAIN b = 1 .. Len(p) + 1
            BY <3>1
        <3>3. b = [k \in DOMAIN b |-> b[k]]
            BY <3>1
        <3> QED
            BY <3>2, <3>3
    <2>7. At(g, Q) = [k \in 1 .. Len(p) + 1 |-> g[q[k]]]
        BY <1>6, <2>2
    <2>8. \A k \in 1 .. Len(p) + 1 : g[q[k]] = b[k]
        BY <2>4
    <2> HIDE DEF b
    <2>9. At(g, Q) = b
        BY <2>6, <2>7, <2>8
    <2> QED
        BY <1>9, <2>9 DEF a, b
<1> QED
    BY <1>8, <1>9

\* Nothing is at a position of an empty history.
LEMMA AtEmpty == \A P : At(<<>>, P) = <<>>
<1> TAKE P
<1> DEFINE p == Pick(<<>>, P)
<1>1. [i \in DOMAIN <<>> |-> i] = <<>>
    OBVIOUS
<1>2. PICK g : p = g[Len(<<>>)] /\ g = [n \in 0 .. Len(<<>>) |-> PickStep(<<>>, P, g, n)]
    <2>1. <<>> \in Seq({0})
        OBVIOUS
    <2> QED
        BY <2>1, PickRecursion
<1>3. p = <<>>
    BY <1>2 DEF PickStep
<1> HIDE DEF p
<1>4. At(<<>>, P) = [k \in DOMAIN p |-> <<>>[p[k]]]
    BY <1>1 DEF At, p
<1> QED
    BY <1>3, <1>4

\* The last of some markers.
LEMMA LastFacts ==
    ASSUME NEW h, NEW kinds, NEW i \in Nat, i >= 1
    PROVE  /\ LastOf(h, kinds, i) \in 0 .. i - 1
           /\ LastOf(h, kinds, i) > 0 => K(h, LastOf(h, kinds, i)) \in kinds
           /\ \A j \in LastOf(h, kinds, i) + 1 .. i - 1 : K(h, j) \notin kinds
<1> DEFINE S == {0} \cup {j \in 1 .. i - 1 : K(h, j) \in kinds}
<1>1. i - 1 \in Nat /\ S \in SUBSET (0 .. i - 1) /\ S # {}
    OBVIOUS
<1>2. Max(S) \in S /\ \A y \in S : y <= Max(S)
    <2> HIDE DEF S
    <2> QED
        BY <1>1, MaxFacts
<1>3. LastOf(h, kinds, i) = Max(S)
    BY DEF LastOf
<1> DEFINE m == Max(S)
<1>4. m \in 0 .. i - 1 /\ (m > 0 => K(h, m) \in kinds)
    BY <1>1, <1>2
<1>5. ASSUME NEW j \in m + 1 .. i - 1 PROVE K(h, j) \notin kinds
    <2>1. j \in 1 .. i - 1 /\ ~(j <= m)
        BY <1>4
    <2> QED
        BY <1>2, <2>1
<1> HIDE DEF m, S
<1> QED
    BY <1>3, <1>4, <1>5 DEF m

\* There is one such position only.
LEMMA LastIs ==
    ASSUME NEW h, NEW kinds, NEW i \in Nat, i >= 1, NEW m \in 0 .. i - 1,
           m > 0 => K(h, m) \in kinds, \A j \in m + 1 .. i - 1 : K(h, j) \notin kinds
    PROVE  LastOf(h, kinds, i) = m
<1> DEFINE l == LastOf(h, kinds, i)
<1>1. l \in 0 .. i - 1 /\ (l > 0 => K(h, l) \in kinds) /\ \A j \in l + 1 .. i - 1 : K(h, j) \notin kinds
    BY LastFacts
<1> HIDE DEF l
<1>2. ~(l > m)
    <2> SUFFICES ASSUME l > m PROVE FALSE
        OBVIOUS
    <2>1. l \in m + 1 .. i - 1 /\ l > 0
        BY <1>1
    <2> QED
        BY <1>1, <2>1
<1>3. ~(m > l)
    <2> SUFFICES ASSUME m > l PROVE FALSE
        OBVIOUS
    <2>1. m \in l + 1 .. i - 1 /\ m > 0
        BY <1>1
    <2> QED
        BY <1>1, <2>1
<1> QED
    BY <1>1, <1>2, <1>3 DEF l

\* One token more leaves the markers before it where they are.
LEMMA LastBefore ==
    ASSUME NEW h \in Seq(Token), NEW tok \in Token, NEW kinds, NEW i \in 1 .. Len(h) + 1
    PROVE  LastOf(Append(h, tok), kinds, i) = LastOf(h, kinds, i)
<1> DEFINE g == Append(h, tok)
           l == LastOf(h, kinds, i)
<1>1. i \in Nat /\ i >= 1
    OBVIOUS
<1>2. l \in 0 .. i - 1 /\ (l > 0 => K(h, l) \in kinds) /\ \A j \in l + 1 .. i - 1 : K(h, j) \notin kinds
    BY <1>1, LastFacts
<1>3. \A j \in 1 .. Len(h) : K(g, j) = K(h, j)
    BY DEF K
<1> HIDE DEF l, g
<1>4. l > 0 => K(g, l) \in kinds
    BY <1>2, <1>3
<1>5. \A j \in l + 1 .. i - 1 : K(g, j) \notin kinds
    BY <1>2, <1>3
<1>6. LastOf(g, kinds, i) = l
    BY <1>1, <1>2, <1>4, <1>5, LastIs
<1> QED
    BY <1>6 DEF g, l

\* So does it leave what the router saw; and it may be a marker itself.
LEMMA GrownLast ==
    ASSUME NEW h \in Seq(Token), NEW tok \in Token, NEW kinds
    PROVE  /\ \A i \in 1 .. Len(h) : K(Append(h, tok), i) = K(h, i)
           /\ K(Append(h, tok), Len(h) + 1) = Kind[tok]
           /\ \A i \in 1 .. Len(h) + 1 : LastOf(Append(h, tok), kinds, i) = LastOf(h, kinds, i)
           /\ LastOf(Append(h, tok), kinds, Len(h) + 2)
              = IF Kind[tok] \in kinds THEN Len(h) + 1 ELSE LastOf(h, kinds, Len(h) + 1)
<1> DEFINE n == Len(h) + 1
           g == Append(h, tok)
<1>1. n \in Nat /\ n >= 1 /\ (\A i \in 1 .. Len(h) : g[i] = h[i]) /\ g[n] = tok /\ Len(h) = n - 1
    OBVIOUS
<1>2. (\A i \in 1 .. Len(h) : K(g, i) = K(h, i)) /\ K(g, n) = Kind[tok]
    BY <1>1 DEF K
<1>3. \A i \in 1 .. n : LastOf(g, kinds, i) = LastOf(h, kinds, i)
    BY LastBefore
<1>4. LastOf(g, kinds, n + 1) = IF Kind[tok] \in kinds THEN n ELSE LastOf(h, kinds, n)
    <2> DEFINE l == LastOf(h, kinds, n)
               m == IF Kind[tok] \in kinds THEN n ELSE l
    <2>1. l \in 0 .. n - 1 /\ (l > 0 => K(h, l) \in kinds) /\ \A j \in l + 1 .. n - 1 : K(h, j) \notin kinds
        BY <1>1, LastFacts
    <2> HIDE DEF l, g, n
    <2>2. n + 1 \in Nat /\ n + 1 >= 1 /\ m \in 0 .. (n + 1) - 1
        BY <1>1, <2>1
    <2>3. m > 0 => K(g, m) \in kinds
        BY <1>1, <1>2, <2>1
    <2>4. \A j \in m + 1 .. (n + 1) - 1 : K(g, j) \notin kinds
        BY <1>1, <1>2, <2>1
    <2> HIDE DEF m
    <2>5. LastOf(g, kinds, n + 1) = m
        BY <2>2, <2>3, <2>4, LastIs
    <2> QED
        BY <2>5 DEF m, l
<1>5. n + 1 = Len(h) + 2
    BY <1>1
<1> QED
    BY <1>2, <1>3, <1>4, <1>5

\* Nor does it change what is between them.
LEMMA GrownBetween ==
    ASSUME NEW h \in Seq(Token), NEW tok \in Token, NEW at \in Nat, NEW kind
    PROVE  /\ \A j \in Nat : j <= Len(h) + 1 =>
                 (Between(Append(h, tok), at, j, kind) <=> Between(h, at, j, kind))
           /\ at <= Len(h) =>
                 (Between(Append(h, tok), at, Len(h) + 2, kind)
                     <=> Between(h, at, Len(h) + 1, kind) \/ Kind[tok] = kind)
           /\ ~Between(Append(h, tok), Len(h) + 1, Len(h) + 2, kind)
<1> DEFINE n == Len(h) + 1
           g == Append(h, tok)
<1>1. n \in Nat /\ Len(h) = n - 1 /\ (\A i \in 1 .. Len(h) : K(g, i) = K(h, i)) /\ K(g, n) = Kind[tok]
    BY GrownLast
<1>2. Len(h) + 2 = n + 1
    OBVIOUS
<1> HIDE DEF n, g
<1>3. ASSUME NEW j \in Nat, j <= n PROVE Between(g, at, j, kind) <=> Between(h, at, j, kind)
    <2>1. \A k \in at + 1 .. j - 1 : k \in 1 .. Len(h)
        BY <1>1, <1>3
    <2> QED
        BY <1>1, <2>1 DEF Between
<1>4. ASSUME at <= Len(h)
      PROVE  Between(g, at, n + 1, kind) <=> Between(h, at, n, kind) \/ Kind[tok] = kind
    <2>1. at + 1 .. (n + 1) - 1 = (at + 1 .. n - 1) \cup {n}
        BY <1>1, <1>4
    <2>2. \A k \in at + 1 .. n - 1 : k \in 1 .. Len(h)
        BY <1>1
    <2> QED
        BY <1>1, <2>1, <2>2 DEF Between
<1>5. ~Between(g, n, n + 1, kind)
    <2>1. n + 1 .. (n + 1) - 1 = {}
        BY <1>1
    <2> QED
        BY <2>1 DEF Between
<1> QED
    BY <1>2, <1>3, <1>4, <1>5 DEF n, g

\* The first message marker behind a position, or the place looked at.
LEMMA BodyFacts ==
    ASSUME NEW h, NEW at \in Nat, NEW i \in Nat, at < i
    PROVE  /\ BodyAt(h, at, i) \in at + 1 .. i
           /\ BodyAt(h, at, i) < i => K(h, BodyAt(h, at, i)) = "message"
           /\ ~Between(h, at, BodyAt(h, at, i), "message")
<1> DEFINE S == {j \in at + 1 .. i : K(h, j) = "message"} \cup {i}
           b == Min(S)
<1>1. S \in SUBSET Nat /\ S # {}
    OBVIOUS
<1>2. b \in S /\ \A y \in S : b <= y
    <2> HIDE DEF S
    <2> QED
        BY <1>1, MinFacts
<1>3. BodyAt(h, at, i) = b
    BY DEF BodyAt
<1>4. b \in at + 1 .. i /\ (b < i => K(h, b) = "message")
    BY <1>2
<1>5. ~Between(h, at, b, "message")
    <2> SUFFICES ASSUME NEW k \in at + 1 .. b - 1, K(h, k) = "message" PROVE FALSE
        BY DEF Between
    <2>1. k \in at + 1 .. i /\ ~(b <= k)
        BY <1>4
    <2> QED
        BY <1>2, <2>1
<1> HIDE DEF b, S
<1> QED
    BY <1>3, <1>4, <1>5

\* It is the only one of its kind.
LEMMA BodyIs ==
    ASSUME NEW h, NEW at \in Nat, NEW i \in Nat, NEW b \in at + 1 .. i - 1, K(h, b) = "message",
           ~Between(h, at, b, "message")
    PROVE  BodyAt(h, at, i) = b
<1> DEFINE c == BodyAt(h, at, i)
<1>1. c \in at + 1 .. i /\ (c < i => K(h, c) = "message") /\ ~Between(h, at, c, "message")
    <2>1. at < i
        OBVIOUS
    <2> QED
        BY <2>1, BodyFacts
<1> HIDE DEF c
<1>2. ~(b < c)
    BY <1>1 DEF Between
<1>3. ~(c < b)
    BY <1>1 DEF Between
<1> QED
    BY <1>1, <1>2, <1>3 DEF c

-----------------------------------------------------------------------------
(* A token leaves the places of those before it as they were.              *)

\* Where the body of a message begins.
LEMMA BodyBefore ==
    ASSUME NEW h \in Seq(Token), NEW tok \in Token, NEW i \in 1 .. Len(h), NEW at \in 0 .. i - 1
    PROVE  BodyAt(Append(h, tok), at, i) = BodyAt(h, at, i)
<1> DEFINE g == Append(h, tok)
<1>1. \A j \in 1 .. Len(h) : K(g, j) = K(h, j)
    BY GrownLast
<1> HIDE DEF g
<1>2. \A j \in at + 1 .. i : j \in 1 .. Len(h)
    OBVIOUS
<1>3. {j \in at + 1 .. i : K(g, j) = "message"} = {j \in at + 1 .. i : K(h, j) = "message"}
    BY <1>1, <1>2
<1> QED
    BY <1>3 DEF BodyAt, g

\* The harmony protocol.
LEMMA HarmonyBefore ==
    ASSUME NEW h \in Seq(Token), NEW tok \in Token, NEW i \in 1 .. Len(h)
    PROVE  HarmonyPlace(Append(h, tok), i) = HarmonyPlace(h, i)
<1> DEFINE g == Append(h, tok)
           at == LastOf(h, Marks, i)
           body == BodyAt(h, at, i)
<1>1. i \in 1 .. Len(h) + 1 /\ i \in Nat /\ i >= 1 /\ Len(h) \in Nat
    OBVIOUS
<1>2. at \in 0 .. i - 1 /\ at \in Nat /\ at < i
    <2>1. at \in 0 .. i - 1
        BY <1>1, LastFacts
    <2> HIDE DEF at
    <2> QED
        BY <1>1, <2>1
<1>3. body \in at + 1 .. i
    <2> HIDE DEF at
    <2> QED
        BY <1>1, <1>2, BodyFacts
<1>4. K(g, i) = K(h, i) /\ LastOf(g, Marks, i) = at /\ (at > 0 => K(g, at) = K(h, at))
    <2>1. \A j \in 1 .. Len(h) : K(g, j) = K(h, j)
        BY GrownLast
    <2>2. LastOf(g, Marks, i) = at
        BY <1>1, LastBefore
    <2> HIDE DEF g, at
    <2> QED
        BY <1>2, <2>1, <2>2
<1>5. BodyAt(g, at, i) = body
    <2> HIDE DEF at
    <2> QED
        BY <1>2, BodyBefore
<1>6. \A kind : /\ Between(g, at, i, kind) <=> Between(h, at, i, kind)
                /\ Between(g, at, body, kind) <=> Between(h, at, body, kind)
    <2> HIDE DEF at, body
    <2>1. body \in Nat /\ body <= Len(h) + 1 /\ i <= Len(h) + 1
        BY <1>1, <1>2, <1>3
    <2> QED
        BY <1>1, <1>2, <2>1, GrownBetween
<1> HIDE DEF g, at, body
<1> QED
    BY <1>2, <1>4, <1>5, <1>6 DEF HarmonyPlace, at, body, g

\* The think markers.
LEMMA ThinkingBefore ==
    ASSUME NEW h \in Seq(Token), NEW tok \in Token, NEW i \in 1 .. Len(h) + 1
    PROVE  /\ Thinking(Append(h, tok), i) <=> Thinking(h, i)
           /\ InName(Append(h, tok), i) <=> InName(h, i)
<1> DEFINE g == Append(h, tok)
           At1(j) == LastOf(h, ThinkMarks, j)
<1>1. \A j \in 1 .. Len(h) : K(g, j) = K(h, j)
    BY GrownLast
<1>2. ASSUME NEW j \in 1 .. Len(h) + 1
      PROVE  /\ LastOf(g, ThinkMarks, j) = At1(j) /\ At1(j) \in 0 .. j - 1
             /\ At1(j) > 0 => K(g, At1(j)) = K(h, At1(j)) /\ At1(j) \in 1 .. Len(h)
             /\ Thinking(g, j) <=> Thinking(h, j)
    <2> DEFINE at == At1(j)
    <2>1. LastOf(g, ThinkMarks, j) = at
        BY LastBefore
    <2>2. j \in Nat /\ j >= 1
        OBVIOUS
    <2>3. at \in 0 .. j - 1
        BY <2>2, LastFacts
    <2> HIDE DEF at, g
    <2>4. at > 0 => K(g, at) = K(h, at) /\ at \in 1 .. Len(h)
        BY <1>1, <2>3
    <2>5. at = 0 \/ at > 0
        BY <2>3
    <2>6. Thinking(g, j) <=> IF at = 0 THEN request.thinking_open ELSE K(g, at) # "think_end"
        BY <2>1 DEF Thinking
    <2>7. Thinking(h, j) <=> IF at = 0 THEN request.thinking_open ELSE K(h, at) # "think_end"
        BY DEF Thinking, at
    <2>8. Thinking(g, j) <=> Thinking(h, j)
        BY <2>4, <2>5, <2>6, <2>7
    <2> QED
        BY <2>1, <2>3, <2>4, <2>8 DEF at
<1> DEFINE at == At1(i)
<1>3. /\ LastOf(g, ThinkMarks, i) = at /\ at \in Nat
      /\ at > 0 => K(g, at) = K(h, at) /\ at \in 1 .. Len(h) /\ at \in 1 .. Len(h) + 1
    <2>1. at \in 0 .. i - 1 /\ (at > 0 => K(g, at) = K(h, at) /\ at \in 1 .. Len(h))
        BY <1>2
    <2>2. LastOf(g, ThinkMarks, i) = at
        BY <1>2
    <2> HIDE DEF at, g
    <2> QED
        BY <2>1, <2>2
<1>4. Between(g, at, i, "newline") <=> Between(h, at, i, "newline")
    <2>1. at \in Nat /\ i \in Nat /\ i <= Len(h) + 1
        BY <1>3
    <2> HIDE DEF at
    <2> QED
        BY <2>1, GrownBetween
<1>5. at > 0 => (Thinking(g, at) <=> Thinking(h, at))
    <2>1. at > 0 => at \in 1 .. Len(h) + 1
        BY <1>3
    <2> HIDE DEF at, g
    <2> QED
        BY <1>2, <2>1
<1>6. Thinking(g, i) <=> Thinking(h, i)
    BY <1>2
<1> HIDE DEF at, g
<1> QED
    BY <1>3, <1>4, <1>5, <1>6 DEF InName, at, g

\* Both protocols.
LEMMA PlaceBefore ==
    ASSUME NEW h \in Seq(Token), NEW tok \in Token, NEW i \in 1 .. Len(h)
    PROVE  Place(Append(h, tok), i) = Place(h, i)
<1> DEFINE g == Append(h, tok)
<1>1. HarmonyPlace(g, i) = HarmonyPlace(h, i)
    BY HarmonyBefore
<1>2. K(g, i) = K(h, i)
    BY GrownLast
<1>3. (Thinking(g, i) <=> Thinking(h, i)) /\ (InName(g, i) <=> InName(h, i))
    <2>1. i \in 1 .. Len(h) + 1
        OBVIOUS
    <2> QED
        BY <2>1, ThinkingBefore
<1>4. ThinkPlace(g, i) = ThinkPlace(h, i)
    <2> HIDE DEF g
    <2> QED
        BY <1>2, <1>3 DEF ThinkPlace
<1> HIDE DEF g
<1> QED
    BY <1>1, <1>4 DEF Place, g

\* What a token adds to a channel.
LEMMA PlacedAppend ==
    ASSUME NEW h \in Seq(Token), NEW tok \in Token, NEW places
    PROVE  PlacedIn(Append(h, tok), places)
           = IF Place(Append(h, tok), Len(h) + 1) \in places
             THEN Append(PlacedIn(h, places), tok) ELSE PlacedIn(h, places)
<1> DEFINE g == Append(h, tok)
           n == Len(h) + 1
           P == {i \in DOMAIN h : Place(h, i) \in places}
           Q == {i \in DOMAIN g : Place(g, i) \in places}
<1>1. DOMAIN h = 1 .. Len(h) /\ DOMAIN g = 1 .. n /\ n \in 1 .. n /\ \A i \in 1 .. Len(h) : i \in 1 .. n
    OBVIOUS
<1>2. \A i \in 1 .. Len(h) : Place(g, i) = Place(h, i)
    BY PlaceBefore
<1>3. \A i \in 1 .. Len(h) : i \in P <=> i \in Q
    <2> HIDE DEF g
    <2> QED
        BY <1>1, <1>2
<1>4. n \in Q <=> Place(g, n) \in places
    <2> HIDE DEF g, n
    <2> QED
        BY <1>1
<1>5. PlacedIn(g, places) = At(g, Q) /\ PlacedIn(h, places) = At(h, P)
    BY DEF PlacedIn
<1> HIDE DEF P, Q
<1>6. At(g, Q) = IF n \in Q THEN Append(At(h, P), tok) ELSE At(h, P)
    BY <1>3, AtAppend
<1> HIDE DEF g, n
<1>7. PlacedIn(g, places) = IF Place(g, n) \in places THEN Append(PlacedIn(h, places), tok) ELSE PlacedIn(h, places)
    BY <1>4, <1>5, <1>6
<1> QED
    BY <1>7 DEF g, n

\* A history that follows the protocol did so before its last token, and that
\* token follows it.
LEMMA WellBefore ==
    ASSUME NEW h \in Seq(Token), NEW tok \in Token, WellFormed(Append(h, tok))
    PROVE  /\ WellFormed(h)
           /\ Kind[tok] = "start" => Len(h) = 0 \/ K(h, Len(h)) = "end"
           /\ LET at == LastOf(h, Marks, Len(h) + 1)
              IN  Kind[tok] = "channel" /\ at > 0 /\ K(h, at) = "channel"
                  => Between(h, at, Len(h) + 1, "message")
<1> DEFINE g == Append(h, tok)
           n == Len(h) + 1
<1>1. /\ n \in Nat /\ n - 1 = Len(h) /\ DOMAIN g = 1 .. n /\ DOMAIN h = 1 .. Len(h)
      /\ (\A i \in 1 .. Len(h) : K(g, i) = K(h, i)) /\ K(g, n) = Kind[tok]
      /\ \A i \in 1 .. n : LastOf(g, Marks, i) = LastOf(h, Marks, i)
    BY GrownLast
<1>2. \A at \in Nat, j \in Nat : j <= n => (Between(g, at, j, "message") <=> Between(h, at, j, "message"))
    BY GrownBetween
<1>3. ASSUME NEW i \in 1 .. n
      PROVE  LET at == LastOf(h, Marks, i)
             IN  at \in Nat /\ at < i /\ (at > 0 => at \in 1 .. Len(h) /\ K(g, at) = K(h, at))
    <2> DEFINE at == LastOf(h, Marks, i)
    <2>1. i \in Nat /\ i >= 1
        OBVIOUS
    <2>2. at \in 0 .. i - 1
        BY <2>1, LastFacts
    <2> HIDE DEF at, g, n
    <2> QED
        BY <1>1, <2>1, <2>2 DEF at
<1>4. ASSUME NEW i \in 1 .. n
      PROVE  LET at == LastOf(h, Marks, i)
             IN  /\ K(g, i) = "start" => i = 1 \/ K(g, i - 1) = "end"
                 /\ K(g, i) = "channel" /\ at > 0 /\ K(h, at) = "channel" => Between(h, at, i, "message")
    <2> DEFINE at == LastOf(h, Marks, i)
    <2>1. /\ K(g, i) = "start" => i = 1 \/ K(g, i - 1) = "end"
          /\ K(g, i) = "channel" /\ at > 0 /\ K(g, at) = "channel" => Between(g, at, i, "message")
        BY <1>1 DEF WellFormed
    <2>2. i \in Nat /\ i <= n
        BY <1>1
    <2> HIDE DEF at, g, n
    <2> QED
        BY <1>2, <1>3, <2>1, <2>2 DEF at
<1> HIDE DEF g, n
<1>5. WellFormed(h)
    <2> SUFFICES ASSUME NEW i \in 1 .. Len(h)
                 PROVE  LET at == LastOf(h, Marks, i)
                        IN  /\ K(h, i) = "start" => i = 1 \/ K(h, i - 1) = "end"
                            /\ K(h, i) = "channel" /\ at > 0 /\ K(h, at) = "channel"
                               => Between(h, at, i, "message")
        BY <1>1 DEF WellFormed
    <2>1. i \in 1 .. n /\ K(g, i) = K(h, i) /\ (i # 1 => K(g, i - 1) = K(h, i - 1))
        BY <1>1
    <2> QED
        BY <1>4, <2>1
<1>6. Kind[tok] = "start" => Len(h) = 0 \/ K(h, Len(h)) = "end"
    <2>1. n \in 1 .. n /\ (n # 1 => Len(h) \in 1 .. Len(h)) /\ (n = 1 => Len(h) = 0)
        BY <1>1
    <2> QED
        BY <1>1, <1>4, <2>1
<1>7. LET at == LastOf(h, Marks, n)
      IN  Kind[tok] = "channel" /\ at > 0 /\ K(h, at) = "channel" => Between(h, at, n, "message")
    <2>1. n \in 1 .. n
        BY <1>1
    <2> QED
        BY <1>1, <1>4, <2>1
<1> QED
    BY <1>5, <1>6, <1>7 DEF n

-----------------------------------------------------------------------------
(* The harmony protocol: the state carried along, and the history.         *)

\* Where the tracker is in its message, which began at the marker `at`.
InMarkers(h, at, t) ==
    t.harmony_state = Markers /\ at = Len(h) /\ (at = 0 \/ K(h, at) = "end")
InRole(h, at, t) ==
    /\ t.harmony_state = Role /\ at > 0 /\ K(h, at) = "start"
    /\ ~Between(h, at, Len(h) + 1, "message")
InHeader(h, at, t) ==
    /\ t.harmony_state = Header /\ at > 0 /\ K(h, at) = "channel"
    /\ ~Between(h, at, Len(h) + 1, "message")
    /\ \A kind : Names(t.harmony_header_ids, kind) <=> Between(h, at, Len(h) + 1, kind)
InPlain(h, at, t) ==
    /\ t.harmony_state = Body(TRUE, FALSE)
    /\ \/ (at = 0 \/ K(h, at) = "end") /\ at < Len(h)
       \/ at > 0 /\ K(h, at) = "start" /\ Between(h, at, Len(h) + 1, "message")
InBody(h, at, t) ==
    /\ at > 0 /\ K(h, at) = "channel"
    /\ \E b \in at + 1 .. Len(h) :
          /\ K(h, b) = "message" /\ ~Between(h, at, b, "message")
          /\ t.harmony_state = Body(Between(h, at, b, "final"), Between(h, at, b, "recipient"))

Agrees(h, at, t) ==
    /\ t.harmony_header_ids \in Seq(Token)
    /\ InMarkers(h, at, t) \/ InRole(h, at, t) \/ InHeader(h, at, t) \/ InPlain(h, at, t) \/ InBody(h, at, t)
HarmonyAgrees(h, t) == Agrees(h, LastOf(h, Marks, Len(h) + 1), t)

\* A token goes where it belongs.
Fits(route, place) ==
    /\ route \in Routes
    /\ route = "Content" <=> place \in {"Content", "Call"}
    /\ route = "Reasoning" <=> place = "Reasoning"

\* The states are four.
LEMMA StatesDiffer ==
    /\ Markers # Role /\ Markers # Header /\ Role # Header
    /\ \A a, b : /\ Body(a, b) \notin {Markers, Role, Header}
                 /\ Body(a, b).final_channel = a /\ Body(a, b).tool = b
<1>1. Markers.in = "Markers" /\ Role.in = "Role" /\ Header.in = "Header"
    BY DEF Markers, Role, Header, Outside
<1>2. \A a, b : Body(a, b).in = "Body" /\ Body(a, b).final_channel = a /\ Body(a, b).tool = b
    BY DEF Body
<1> QED
    BY <1>1, <1>2

\* What a change of state changes.
LEMMA ToFacts ==
    ASSUME NEW t, DOMAIN t = TrackerFields, NEW state
    PROVE  /\ To(t, state).harmony_state = state
           /\ To(t, state).harmony_header_ids = t.harmony_header_ids
           /\ Open(t).harmony_state = Header /\ Open(t).harmony_header_ids = <<>>
    BY DEF To, Open, TrackerFields

\* What the next token sees, and what is seen behind it: for a history h, a
\* token, the history g with it, its position n and the marker before it.
Sees(h, tok, g, n, at) ==
    /\ n \in Nat /\ n >= 1 /\ Len(h) = n - 1 /\ Len(g) = n /\ at \in 0 .. n - 1 /\ at \in Nat
    /\ K(g, n) = Kind[tok] /\ LastOf(g, Marks, n) = at
    /\ at > 0 => K(g, at) = K(h, at)
    /\ at < n - 1 => K(h, n - 1) \notin Marks
    /\ LastOf(g, Marks, Len(g) + 1) = IF Kind[tok] \in Marks THEN n ELSE at
    /\ \A kind : /\ \A j \in 0 .. n : Between(g, at, j, kind) <=> Between(h, at, j, kind)
                 /\ Between(g, at, n + 1, kind) <=> Between(h, at, n, kind) \/ Kind[tok] = kind
                 /\ ~Between(g, n, n + 1, kind)

\* All of it follows from the last marker and what is behind it.
LEMMA NextSees ==
    ASSUME NEW h \in Seq(Token), NEW tok \in Token, NEW g, g = Append(h, tok),
           NEW n, n = Len(h) + 1, NEW at, at = LastOf(h, Marks, n)
    PROVE  Sees(h, tok, g, n, at)
<1>1. n \in Nat /\ n >= 1 /\ Len(h) = n - 1 /\ Len(g) = n
    OBVIOUS
<1>2. at \in 0 .. n - 1 /\ \A j \in at + 1 .. n - 1 : K(h, j) \notin Marks
    BY <1>1, LastFacts
<1>3. /\ \A i \in 1 .. Len(h) : K(g, i) = K(h, i)
      /\ K(g, n) = Kind[tok]
      /\ LastOf(g, Marks, Len(h) + 2) = IF Kind[tok] \in Marks THEN n ELSE at
    BY GrownLast
<1>4. LastOf(g, Marks, n) = at
    <2>1. n \in 1 .. Len(h) + 1
        BY <1>1
    <2> QED
        BY <2>1, LastBefore
<1>5. at > 0 => K(g, at) = K(h, at)
    BY <1>1, <1>2, <1>3
<1>6. at < n - 1 => K(h, n - 1) \notin Marks
    <2>1. at < n - 1 => n - 1 \in at + 1 .. n - 1
        BY <1>1, <1>2
    <2> QED
        BY <1>2, <2>1
<1>7. Len(h) + 2 = Len(g) + 1 /\ Len(h) + 2 = n + 1 /\ at \in Nat /\ at <= Len(h)
    BY <1>1, <1>2
<1>8. ASSUME NEW kind
      PROVE  /\ \A j \in 0 .. n : Between(g, at, j, kind) <=> Between(h, at, j, kind)
             /\ Between(g, at, n + 1, kind) <=> Between(h, at, n, kind) \/ Kind[tok] = kind
             /\ ~Between(g, n, n + 1, kind)
    <2>1. ASSUME NEW j \in 0 .. n PROVE Between(g, at, j, kind) <=> Between(h, at, j, kind)
        <3>1. j \in Nat /\ j <= Len(h) + 1
            BY <1>1
        <3> QED
            BY <1>7, <3>1, GrownBetween
    <2>2. Between(g, at, n + 1, kind) <=> Between(h, at, n, kind) \/ Kind[tok] = kind
        BY <1>7, GrownBetween
    <2>3. ~Between(g, n, n + 1, kind)
        BY <1>7, GrownBetween
    <2> QED
        BY <2>1, <2>2, <2>3
<1> QED
    BY <1>1, <1>2, <1>3, <1>4, <1>5, <1>6, <1>7, <1>8 DEF Sees

\* A marker goes to nobody, and what it begins is known from it alone.
LEMMA NewMark ==
    ASSUME NEW h \in Seq(Token), NEW tok \in Token, NEW u, u.harmony_header_ids \in Seq(Token),
           \/ Kind[tok] = "end" /\ u.harmony_state = Markers
           \/ Kind[tok] = "start" /\ u.harmony_state = Role
           \/ /\ Kind[tok] = "channel" /\ u.harmony_state = Header
              /\ u.harmony_header_ids = <<>>
    PROVE  HarmonyAgrees(Append(h, tok), u) /\ HarmonyPlace(Append(h, tok), Len(h) + 1) = "Framing"
<1> DEFINE g == Append(h, tok)
           n == Len(h) + 1
           at == LastOf(h, Marks, n)
<1>1. Kind[tok] \in Marks
    BY DEF Marks
<1>2. g = Append(h, tok) /\ n = Len(h) + 1 /\ at = LastOf(h, Marks, n)
    OBVIOUS
<1> HIDE DEF g, n, at
<1>3. Sees(h, tok, g, n, at)
    BY <1>2, NextSees
<1>4. /\ n \in Nat /\ n >= 1 /\ Len(g) = n /\ at \in 0 .. n - 1 /\ K(g, n) = Kind[tok]
      /\ LastOf(g, Marks, Len(g) + 1) = n /\ \A kind : ~Between(g, n, n + 1, kind)
    BY <1>1, <1>3 DEF Sees
<1>5. InMarkers(g, n, u) \/ InRole(g, n, u) \/ InHeader(g, n, u)
    <2>1. CASE Kind[tok] = "end" /\ u.harmony_state = Markers
        BY <1>4, <2>1 DEF InMarkers
    <2>2. CASE Kind[tok] = "start" /\ u.harmony_state = Role
        BY <1>4, <2>2 DEF InRole
    <2>3. CASE Kind[tok] = "channel" /\ u.harmony_state = Header /\ u.harmony_header_ids = <<>>
        <3>1. \A kind : ~Names(u.harmony_header_ids, kind)
            BY <2>3 DEF Names
        <3> QED
            BY <1>4, <2>3, <3>1 DEF InHeader
    <2> QED
        BY <2>1, <2>2, <2>3
<1>6. HarmonyAgrees(g, u)
    BY <1>4, <1>5 DEF HarmonyAgrees, Agrees
<1>7. HarmonyPlace(g, n) = "Framing"
    BY <1>1, <1>4 DEF HarmonyPlace
<1> QED
    BY <1>6, <1>7 DEF g, n

\* A token that is no marker: the message goes on.
LEMMA SameMark ==
    ASSUME NEW h, NEW tok, NEW g, NEW n, NEW at, Sees(h, tok, g, n, at), Kind[tok] \notin Marks, NEW u,
           u.harmony_header_ids \in Seq(Token),
           InMarkers(g, at, u) \/ InRole(g, at, u) \/ InHeader(g, at, u) \/ InPlain(g, at, u) \/ InBody(g, at, u)
    PROVE  HarmonyAgrees(g, u)
    BY DEF Sees, HarmonyAgrees, Agrees

\* A role begins where a message ended, hence in no other state than Markers.
LEMMA NoStart ==
    ASSUME NEW h \in Seq(Token), NEW tok \in Token, NEW g, g = Append(h, tok), WellFormed(g),
           NEW n, NEW at, Sees(h, tok, g, n, at),
           at < n - 1 \/ (at > 0 /\ K(h, at) # "end")
    PROVE  Kind[tok] # "start"
<1>1. n \in Nat /\ Len(h) = n - 1 /\ at \in 0 .. n - 1 /\ (at < n - 1 => K(h, n - 1) \notin Marks)
    BY DEF Sees
<1>2. Kind[tok] = "start" => n - 1 = 0 \/ K(h, n - 1) = "end"
    BY <1>1, WellBefore
<1>3. "end" \in Marks
    BY DEF Marks
<1> QED
    BY <1>1, <1>2, <1>3

\* Where the next token belongs when it is no marker.
LEMMA PlaceNext ==
    ASSUME NEW h, NEW tok, NEW g, NEW n, NEW at, Sees(h, tok, g, n, at), Kind[tok] \notin Marks
    PROVE  /\ at = 0 \/ K(h, at) = "end" =>
                 HarmonyPlace(g, n) = IF n = at + 1 /\ Kind[tok] = "message" THEN "Framing" ELSE "Content"
           /\ at > 0 /\ K(h, at) # "end" /\ ~Between(h, at, n, "message") => HarmonyPlace(g, n) = "Framing"
           /\ at > 0 /\ K(h, at) = "start" /\ Between(h, at, n, "message") => HarmonyPlace(g, n) = "Content"
<1>1. /\ K(g, n) = Kind[tok] /\ LastOf(g, Marks, n) = at /\ (at > 0 => K(g, at) = K(h, at)) /\ at \in Nat
      /\ Between(g, at, n, "message") <=> Between(h, at, n, "message")
    <2>1. n \in 0 .. n
        BY DEF Sees
    <2> QED
        BY <2>1 DEF Sees
<1> QED
    BY <1>1 DEF HarmonyPlace

\* What a routing and a change of state are, for all of them.
LEMMA Routings ==
    ASSUME NEW t, DOMAIN t = TrackerFields
    PROVE  /\ \A route, u : Routed(route, u).route = route /\ Routed(route, u).tracker = u
           /\ \A state : /\ To(t, state).harmony_state = state
                         /\ To(t, state).harmony_header_ids = t.harmony_header_ids
           /\ Open(t).harmony_state = Header /\ Open(t).harmony_header_ids = <<>>
<1>1. \A route, u : Routed(route, u).route = route /\ Routed(route, u).tracker = u
    BY RoutedFacts
<1>2. \A state : /\ To(t, state).harmony_state = state
                 /\ To(t, state).harmony_header_ids = t.harmony_header_ids
    BY ToFacts
<1>3. Open(t).harmony_state = Header /\ Open(t).harmony_header_ids = <<>>
    BY ToFacts
<1> QED
    BY <1>1, <1>2, <1>3

\* The kinds of the markers.
LEMMA MarkKinds ==
    ASSUME NEW kind
    PROVE  /\ kind \in {"end", "start", "channel"} <=> kind \in Marks
           /\ kind \in Marks <=> kind = "end" \/ kind = "start" \/ kind = "channel"
           /\ kind \in {"end", "start"} <=> kind = "end" \/ kind = "start"
    BY DEF Marks

\* Between messages.
LEMMA FromMarkers ==
    ASSUME NEW h \in Seq(Token), NEW tok \in Token, NEW g, g = Append(h, tok), WellFormed(g),
           NEW n, n = Len(h) + 1, NEW at, at = LastOf(h, Marks, n),
           NEW t, DOMAIN t = TrackerFields, t.harmony_header_ids \in Seq(Token), InMarkers(h, at, t),
           NEW r, r = harmony_route(t, tok)
    PROVE  HarmonyAgrees(g, r.tracker) /\ Fits(r.route, HarmonyPlace(g, n))
<1> DEFINE kind == Kind[tok]
<1>1. Sees(h, tok, g, n, at)
    BY NextSees
<1>2. t.harmony_state = Markers /\ at = Len(h) /\ (at = 0 \/ K(h, at) = "end")
    BY DEF InMarkers
<1>3. r = IF kind = "channel" THEN Routed("Framing", Open(t))
          ELSE IF kind = "start" THEN Routed("Framing", To(t, Role))
          ELSE IF kind = "end" THEN Routed("Framing", t)
          ELSE Routed(IF kind = "message" THEN "Framing" ELSE "Content", To(t, Body(TRUE, FALSE)))
    BY <1>2, StatesDiffer DEF harmony_route
<1> HIDE DEF kind
<1>4. kind \in Marks <=> kind = "end" \/ kind = "start" \/ kind = "channel"
    BY MarkKinds
<1>5. \A route, u : Routed(route, u).route = route /\ Routed(route, u).tracker = u
    BY Routings
<1>6. /\ \A state : /\ To(t, state).harmony_state = state
                    /\ To(t, state).harmony_header_ids = t.harmony_header_ids
      /\ Open(t).harmony_state = Header /\ Open(t).harmony_header_ids = <<>> /\ <<>> \in Seq(Token)
    BY Routings
<1>7. CASE kind \in Marks
    <2>1. \/ kind = "end" /\ r = Routed("Framing", t)
          \/ kind = "start" /\ r = Routed("Framing", To(t, Role))
          \/ kind = "channel" /\ r = Routed("Framing", Open(t))
        BY <1>3, <1>4, <1>7
    <2>2. r.route = "Framing" /\ r.tracker.harmony_header_ids \in Seq(Token)
        <3>1. r.route = "Framing" /\ (r.tracker = t \/ r.tracker = To(t, Role) \/ r.tracker = Open(t))
            BY <1>5, <2>1
        <3> QED
            BY <1>6, <3>1
    <2>3. \/ kind = "end" /\ r.tracker.harmony_state = Markers
          \/ kind = "start" /\ r.tracker.harmony_state = Role
          \/ kind = "channel" /\ r.tracker.harmony_state = Header /\ r.tracker.harmony_header_ids = <<>>
        BY <1>2, <1>5, <1>6, <2>1
    <2>4. HarmonyAgrees(g, r.tracker) /\ HarmonyPlace(g, n) = "Framing"
        BY <2>2, <2>3, NewMark DEF kind
    <2> QED
        BY <2>2, <2>4 DEF Fits, Routes
<1>8. CASE kind \notin Marks
    <2> DEFINE u == To(t, Body(TRUE, FALSE))
               route == IF kind = "message" THEN "Framing" ELSE "Content"
    <2>1. r = Routed(route, u)
        BY <1>3, <1>4, <1>8
    <2>2. u.harmony_state = Body(TRUE, FALSE) /\ u.harmony_header_ids = t.harmony_header_ids
        BY <1>6
    <2> HIDE DEF u, route
    <2>3. r.tracker = u /\ r.route = route
        BY <1>5, <2>1
    <2>4. InPlain(g, at, u)
        BY <1>1, <1>2, <2>2 DEF InPlain, Sees
    <2>5. HarmonyAgrees(g, u)
        BY <1>1, <1>8, <2>2, <2>4, SameMark DEF kind
    <2>6. HarmonyPlace(g, n) = route
        <3>1. n = at + 1
            BY <1>1, <1>2 DEF Sees
        <3> QED
            BY <1>1, <1>2, <1>8, <3>1, PlaceNext DEF kind, route
    <2> QED
        BY <2>3, <2>5, <2>6 DEF Fits, Routes, route
<1> QED
    BY <1>7, <1>8

\* In a role.
LEMMA FromRole ==
    ASSUME NEW h \in Seq(Token), NEW tok \in Token, NEW g, g = Append(h, tok), WellFormed(g),
           NEW n, n = Len(h) + 1, NEW at, at = LastOf(h, Marks, n),
           NEW t, DOMAIN t = TrackerFields, t.harmony_header_ids \in Seq(Token), InRole(h, at, t),
           NEW r, r = harmony_route(t, tok)
    PROVE  HarmonyAgrees(g, r.tracker) /\ Fits(r.route, HarmonyPlace(g, n))
<1> DEFINE kind == Kind[tok]
           u == CASE kind = "channel" -> Open(t)
                  [] kind = "message" -> To(t, Body(TRUE, FALSE))
                  [] kind = "end"     -> To(t, Markers)
                  [] OTHER            -> t
<1>1. Sees(h, tok, g, n, at)
    BY NextSees
<1>2. /\ t.harmony_state = Role /\ at > 0 /\ K(h, at) = "start" /\ ~Between(h, at, n, "message")
    BY DEF InRole
<1>3. r = Routed("Framing", u)
    BY <1>2, StatesDiffer DEF harmony_route
<1>4. kind # "start"
    BY <1>1, <1>2, NoStart
<1>5. r.route = "Framing" /\ r.tracker = u
    <2> HIDE DEF u
    <2>1. Routed("Framing", u).route = "Framing" /\ Routed("Framing", u).tracker = u
        BY RoutedFacts
    <2> QED
        BY <1>3, <2>1
<1> HIDE DEF kind
<1>6. kind \in Marks <=> kind = "end" \/ kind = "start" \/ kind = "channel"
    BY MarkKinds
<1>7. /\ \A state : /\ To(t, state).harmony_state = state
                     /\ To(t, state).harmony_header_ids = t.harmony_header_ids
       /\ Open(t).harmony_state = Header /\ Open(t).harmony_header_ids = <<>> /\ <<>> \in Seq(Token)
    BY Routings
<1>8. /\ kind = "channel" => u = Open(t)
      /\ kind = "message" => u = To(t, Body(TRUE, FALSE))
      /\ kind = "end" => u = To(t, Markers)
      /\ kind \notin {"channel", "message", "end"} => u = t
    OBVIOUS
<1> HIDE DEF u
<1>9. CASE kind \in Marks
    <2>1. \/ kind = "end" /\ u = To(t, Markers)
          \/ kind = "channel" /\ u = Open(t)
        BY <1>4, <1>8, <1>9, <1>6
    <2>2. HarmonyAgrees(g, u) /\ HarmonyPlace(g, n) = "Framing"
        <3>1. u.harmony_header_ids \in Seq(Token)
            BY <1>7, <2>1
        <3>2. \/ kind = "end" /\ u.harmony_state = Markers
              \/ kind = "channel" /\ u.harmony_state = Header /\ u.harmony_header_ids = <<>>
            BY <1>7, <2>1
        <3> QED
            BY <3>1, <3>2, NewMark DEF kind
    <2> QED
        BY <1>5, <2>2 DEF Fits, Routes
<1>10. CASE kind \notin Marks
    <2>1. at \in Nat /\ Len(g) = n /\ K(g, at) = "start"
          /\ (Between(g, at, n + 1, "message") <=> kind = "message")
        BY <1>1, <1>2 DEF Sees, kind
    <2>2. InRole(g, at, u) \/ InPlain(g, at, u)
        <3>1. CASE kind = "message"
            <4>1. u.harmony_state = Body(TRUE, FALSE)
                BY <1>8, <1>7, <3>1
            <4> QED
                BY <1>2, <2>1, <3>1, <4>1 DEF InPlain
        <3>2. CASE kind # "message"
            <4>1. u = t
                BY <1>8, <1>10, <1>6, <3>2
            <4> QED
                BY <1>2, <2>1, <3>2, <4>1 DEF InRole
        <3> QED
            BY <3>1, <3>2
    <2>3. u.harmony_header_ids \in Seq(Token)
        <3>1. u = t \/ u = To(t, Body(TRUE, FALSE))
            BY <1>8, <1>10, <1>6
        <3> QED
            BY <1>7, <3>1
    <2>4. HarmonyAgrees(g, u)
        BY <1>1, <1>10, <2>2, <2>3, SameMark DEF kind
    <2>5. HarmonyPlace(g, n) = "Framing"
        BY <1>1, <1>2, <1>10, PlaceNext DEF kind
    <2> QED
        BY <1>5, <2>4, <2>5 DEF Fits, Routes
<1> QED
    BY <1>9, <1>10

\* In a header.
LEMMA FromHeader ==
    ASSUME NEW h \in Seq(Token), NEW tok \in Token, NEW g, g = Append(h, tok), WellFormed(g),
           NEW n, n = Len(h) + 1, NEW at, at = LastOf(h, Marks, n),
           NEW t, DOMAIN t = TrackerFields, t.harmony_header_ids \in Seq(Token), InHeader(h, at, t),
           NEW r, r = harmony_route(t, tok)
    PROVE  HarmonyAgrees(g, r.tracker) /\ Fits(r.route, HarmonyPlace(g, n))
<1> DEFINE kind == Kind[tok]
           name == t.harmony_header_ids
           called == Names(name, "recipient")
           body == Body(Names(name, "final"), called)
           call == IF called THEN "ToolCall" ELSE "Framing"
           named == [t EXCEPT !.harmony_header_ids = Append(@, tok)]
           u == IF kind = "message" THEN To(t, body)
                ELSE IF kind \in {"end", "start"} THEN To(t, Markers) ELSE named
<1>1. Sees(h, tok, g, n, at)
    BY NextSees
<1>2. /\ t.harmony_state = Header /\ at > 0 /\ K(h, at) = "channel" /\ ~Between(h, at, n, "message")
      /\ \A k : Names(name, k) <=> Between(h, at, n, k)
    BY DEF InHeader
<1>3. r = IF kind = "message" THEN Routed(call, To(t, body))
          ELSE Routed("Framing", IF kind \in {"end", "start"} THEN To(t, Markers) ELSE named)
    BY <1>2, StatesDiffer DEF harmony_route
<1>4. kind # "start" /\ kind # "channel"
    <2>1. kind # "start"
        BY <1>1, <1>2, NoStart
    <2>2. kind # "channel"
        BY <1>2, WellBefore
    <2> QED
        BY <2>1, <2>2
<1>5. kind \in Marks <=> kind = "end" \/ kind = "start" \/ kind = "channel"
    BY MarkKinds
<1>6. /\ \A state : /\ To(t, state).harmony_state = state
                    /\ To(t, state).harmony_header_ids = name
      /\ named.harmony_state = Header /\ named.harmony_header_ids = Append(name, tok)
    <2>1. named.harmony_state = Header /\ named.harmony_header_ids = Append(name, tok)
        BY <1>2 DEF TrackerFields
    <2>2. \A state : To(t, state).harmony_state = state /\ To(t, state).harmony_header_ids = name
        BY Routings
    <2> QED
        BY <2>1, <2>2
<1>7. \A route, v : Routed(route, v).route = route /\ Routed(route, v).tracker = v
    BY RoutedFacts
<1> HIDE DEF kind, body, named
<1>8. r.tracker = u /\ r.route \in {call, "Framing"}
    <2>1. CASE kind = "message"
        <3>1. r = Routed(call, u)
            BY <1>3, <2>1
        <3> HIDE DEF u, call
        <3> QED
            BY <1>7, <3>1
    <2>2. CASE kind # "message"
        <3>1. r = Routed("Framing", u)
            BY <1>3, <2>2
        <3> HIDE DEF u, call
        <3> QED
            BY <1>7, <3>1
    <2> QED
        BY <2>1, <2>2
<1>9. /\ kind = "message" => u = To(t, body)
      /\ kind = "end" => u = To(t, Markers)
      /\ kind \notin {"message", "end", "start"} => u = named
    OBVIOUS
<1>10. call \in {"ToolCall", "Framing"}
    OBVIOUS
<1> HIDE DEF u, call
<1>11. HarmonyPlace(g, n) = "Framing" => Fits(r.route, HarmonyPlace(g, n))
    BY <1>8, <1>10 DEF Fits, Routes
<1>12. CASE kind \in Marks
    <2>1. kind = "end" /\ u = To(t, Markers)
        BY <1>4, <1>5, <1>9, <1>12
    <2>2. u.harmony_state = Markers /\ u.harmony_header_ids \in Seq(Token)
        BY <1>6, <2>1
    <2>3. HarmonyAgrees(g, u) /\ HarmonyPlace(g, n) = "Framing"
        BY <2>1, <2>2, NewMark DEF kind
    <2> QED
        BY <1>8, <1>11, <2>3
<1>13. CASE kind \notin Marks
    <2>1. /\ at \in Nat /\ Len(g) = n /\ K(g, at) = "channel" /\ K(g, n) = kind /\ at < n /\ n \in Nat
          /\ \A k : /\ Between(g, at, n + 1, k) <=> Between(h, at, n, k) \/ kind = k
                    /\ Between(g, at, n, k) <=> Between(h, at, n, k)
        <3>1. n \in 0 .. n
            BY <1>1 DEF Sees
        <3> QED
            BY <1>1, <1>2, <3>1 DEF Sees, kind
    <2>2. u.harmony_header_ids \in Seq(Token) /\ (InBody(g, at, u) \/ InHeader(g, at, u))
        <3>1. CASE kind = "message"
            <4>1. u.harmony_state = body /\ u.harmony_header_ids = name
                BY <1>6, <1>9, <3>1
            <4>2. body = Body(Between(g, at, n, "final"), Between(g, at, n, "recipient"))
                <5>1. Names(name, "final") = Between(g, at, n, "final")
                    BY <1>2, <2>1 DEF Names, Between
                <5>2. Names(name, "recipient") = Between(g, at, n, "recipient")
                    BY <1>2, <2>1 DEF Names, Between
                <5> QED
                    BY <5>1, <5>2 DEF body
            <4>3. n \in at + 1 .. Len(g) /\ K(g, n) = "message" /\ ~Between(g, at, n, "message")
                BY <1>2, <2>1, <3>1
            <4>4. InBody(g, at, u)
                BY <1>2, <2>1, <4>1, <4>2, <4>3 DEF InBody
            <4> QED
                BY <4>1, <4>4
        <3>2. CASE kind # "message"
            <4>1. u.harmony_state = Header /\ u.harmony_header_ids = Append(name, tok)
                BY <1>5, <1>6, <1>9, <1>13, <3>2
            <4>2. \A k : Names(Append(name, tok), k) <=> Names(name, k) \/ kind = k
                <5> DEFINE m == Len(name)
                <5>1. /\ m \in Nat /\ DOMAIN Append(name, tok) = 1 .. m + 1 /\ DOMAIN name = 1 .. m
                      /\ Append(name, tok)[m + 1] = tok
                      /\ \A i \in 1 .. m : Append(name, tok)[i] = name[i]
                    OBVIOUS
                <5> HIDE DEF m
                <5>2. 1 .. m + 1 = (1 .. m) \cup {m + 1}
                    BY <5>1
                <5> QED
                    BY <5>1, <5>2 DEF Names, kind
            <4>3. InHeader(g, at, u)
                BY <1>2, <2>1, <3>2, <4>1, <4>2 DEF InHeader
            <4> QED
                BY <4>1, <4>3
        <3> QED
            BY <3>1, <3>2
    <2>3. HarmonyAgrees(g, u)
        BY <1>1, <1>13, <2>2, SameMark DEF kind
    <2>4. HarmonyPlace(g, n) = "Framing"
        BY <1>1, <1>2, <1>13, PlaceNext DEF kind
    <2> QED
        BY <1>8, <1>11, <2>3, <2>4
<1> QED
    BY <1>12, <1>13

\* What a marker does to a body, of any kind.
LEMMA BodyEnds ==
    ASSUME NEW h \in Seq(Token), NEW tok \in Token, NEW g, g = Append(h, tok), WellFormed(g),
           NEW n, n = Len(h) + 1, NEW at, at = LastOf(h, Marks, n), at < n - 1,
           NEW t, DOMAIN t = TrackerFields, t.harmony_header_ids \in Seq(Token),
           NEW a, NEW b, t.harmony_state = Body(a, b),
           NEW r, r = harmony_route(t, tok), Kind[tok] \in Marks
    PROVE  HarmonyAgrees(g, r.tracker) /\ Fits(r.route, HarmonyPlace(g, n))
<1> DEFINE kind == Kind[tok]
           end == IF b THEN "ToolCallEnd" ELSE "Framing"
           u == IF kind = "channel" THEN Open(t) ELSE To(t, Markers)
<1>1. Sees(h, tok, g, n, at)
    BY NextSees
<1>2. kind # "start"
    BY <1>1, NoStart
<1>3. r = Routed(end, u)
    <2>1. t.harmony_state \notin {Markers, Role, Header} /\ t.harmony_state.tool = b
        BY StatesDiffer
    <2>2. Kind[tok] \in {"end", "start", "channel"}
        BY MarkKinds
    <2> QED
        BY <2>1, <2>2 DEF harmony_route
<1>4. r.route = end /\ r.tracker = u
    <2> HIDE DEF end, u
    <2>1. Routed(end, u).route = end /\ Routed(end, u).tracker = u
        BY RoutedFacts
    <2> QED
        BY <1>3, <2>1
<1> HIDE DEF kind
<1>5. kind \in Marks <=> kind = "end" \/ kind = "start" \/ kind = "channel"
    BY MarkKinds
<1>6. /\ To(t, Markers).harmony_state = Markers
      /\ To(t, Markers).harmony_header_ids = t.harmony_header_ids
      /\ Open(t).harmony_state = Header /\ Open(t).harmony_header_ids = <<>> /\ <<>> \in Seq(Token)
    BY Routings
<1>7. /\ u.harmony_header_ids \in Seq(Token)
      /\ \/ kind = "end" /\ u.harmony_state = Markers
         \/ kind = "channel" /\ u.harmony_state = Header /\ u.harmony_header_ids = <<>>
    BY <1>2, <1>5, <1>6 DEF kind
<1> HIDE DEF u
<1>8. HarmonyAgrees(g, u) /\ HarmonyPlace(g, n) = "Framing"
    BY <1>7, NewMark DEF kind
<1> QED
    BY <1>4, <1>8 DEF Fits, Routes

\* In a message that says nothing of itself.
LEMMA FromPlain ==
    ASSUME NEW h \in Seq(Token), NEW tok \in Token, NEW g, g = Append(h, tok), WellFormed(g),
           NEW n, n = Len(h) + 1, NEW at, at = LastOf(h, Marks, n),
           NEW t, DOMAIN t = TrackerFields, t.harmony_header_ids \in Seq(Token), InPlain(h, at, t),
           NEW r, r = harmony_route(t, tok)
    PROVE  HarmonyAgrees(g, r.tracker) /\ Fits(r.route, HarmonyPlace(g, n))
<1>1. Sees(h, tok, g, n, at)
    BY NextSees
<1>2. /\ t.harmony_state = Body(TRUE, FALSE)
      /\ \/ (at = 0 \/ K(h, at) = "end") /\ at < n - 1
         \/ at > 0 /\ K(h, at) = "start" /\ Between(h, at, n, "message")
    BY <1>1 DEF InPlain, Sees
<1>3. at < n - 1
    BY <1>1, <1>2 DEF Sees, Between
<1>4. CASE Kind[tok] \in Marks
    BY <1>2, <1>3, <1>4, BodyEnds
<1>5. CASE Kind[tok] \notin Marks
    <2>1. r = Routed("Content", t)
        <3>1. t.harmony_state \notin {Markers, Role, Header} /\ ~t.harmony_state.tool
              /\ t.harmony_state.final_channel
            BY <1>2, StatesDiffer
        <3>2. Kind[tok] \notin {"end", "start", "channel"}
            BY <1>5, MarkKinds
        <3> QED
            BY <3>1, <3>2 DEF harmony_route
    <2>2. r.route = "Content" /\ r.tracker = t
        BY <2>1, RoutedFacts
    <2>3. InPlain(g, at, t)
        BY <1>1, <1>2 DEF InPlain, Sees
    <2>4. HarmonyAgrees(g, t)
        BY <1>1, <1>5, <2>3, SameMark
    <2>5. HarmonyPlace(g, n) = "Content"
        <3>1. n # at + 1
            BY <1>1, <1>3 DEF Sees
        <3> QED
            BY <1>1, <1>2, <1>5, <3>1, PlaceNext
    <2> QED
        BY <2>2, <2>4, <2>5 DEF Fits, Routes
<1> QED
    BY <1>4, <1>5

\* In a message whose header was read.
LEMMA FromBody ==
    ASSUME NEW h \in Seq(Token), NEW tok \in Token, NEW g, g = Append(h, tok), WellFormed(g),
           NEW n, n = Len(h) + 1, NEW at, at = LastOf(h, Marks, n),
           NEW t, DOMAIN t = TrackerFields, t.harmony_header_ids \in Seq(Token), InBody(h, at, t),
           NEW r, r = harmony_route(t, tok)
    PROVE  HarmonyAgrees(g, r.tracker) /\ Fits(r.route, HarmonyPlace(g, n))
<1>1. Sees(h, tok, g, n, at)
    BY NextSees
<1>2. at > 0 /\ K(h, at) = "channel" /\ n \in Nat /\ Len(h) = n - 1 /\ at \in Nat
    BY <1>1 DEF InBody, Sees
<1>3. PICK b \in at + 1 .. Len(h) :
          /\ K(h, b) = "message" /\ ~Between(h, at, b, "message")
          /\ t.harmony_state = Body(Between(h, at, b, "final"), Between(h, at, b, "recipient"))
    BY DEF InBody
<1> DEFINE final == Between(h, at, b, "final")
           called == Between(h, at, b, "recipient")
<1>4. at < n - 1 /\ b \in 0 .. n /\ b \in at + 1 .. n - 1 /\ b \in at + 1 .. n
    BY <1>2, <1>3
<1>5. CASE Kind[tok] \in Marks
    BY <1>3, <1>4, <1>5, BodyEnds
<1>6. CASE Kind[tok] \notin Marks
    <2> DEFINE route == IF called \/ final THEN "Content" ELSE "Reasoning"
    <2>1. r = Routed(route, t)
        <3>1. t.harmony_state \notin {Markers, Role, Header} /\ t.harmony_state.tool = called
              /\ t.harmony_state.final_channel = final
            <4> HIDE DEF called, final
            <4> QED
                BY <1>3, StatesDiffer DEF called, final
        <3>2. Kind[tok] \notin {"end", "start", "channel"}
            BY <1>6, MarkKinds
        <3> HIDE DEF called, final
        <3> QED
            BY <3>1, <3>2 DEF harmony_route
    <2>2. r.route = route /\ r.tracker = t
        <3> HIDE DEF route
        <3>1. Routed(route, t).route = route /\ Routed(route, t).tracker = t
            BY RoutedFacts
        <3> QED
            BY <2>1, <3>1
    <2>3. /\ K(g, at) = "channel" /\ LastOf(g, Marks, n) = at /\ K(g, n) = Kind[tok] /\ Len(g) = n
          /\ \A k : Between(g, at, b, k) <=> Between(h, at, b, k)
          /\ Between(g, at, n, "message") <=> Between(h, at, n, "message")
        <3>1. n \in 0 .. n
            BY <1>2
        <3> QED
            BY <1>1, <1>2, <1>4, <3>1 DEF Sees
    <2>4. K(g, b) = "message"
        <3>1. \A j \in 1 .. Len(h) : K(g, j) = K(h, j)
            BY DEF K
        <3> QED
            BY <1>2, <1>3, <3>1
    <2>5. InBody(g, at, t)
        <3>1. Between(g, at, b, "final") = final /\ Between(g, at, b, "recipient") = called
            BY <2>3 DEF Between
        <3>2. b \in at + 1 .. Len(g) /\ ~Between(g, at, b, "message")
            BY <1>3, <1>4, <2>3
        <3> QED
            BY <1>2, <1>3, <2>3, <2>4, <3>1, <3>2 DEF InBody
    <2>6. HarmonyAgrees(g, t)
        BY <1>1, <1>6, <2>5, SameMark
    <2>7. HarmonyPlace(g, n) = IF called THEN "Call" ELSE IF final THEN "Content" ELSE "Reasoning"
        <3>1. BodyAt(g, at, n) = b
            BY <1>2, <1>3, <1>4, <2>3, <2>4, BodyIs
        <3>2. Between(g, at, n, "message")
            BY <1>3, <1>4, <2>3 DEF Between
        <3>3. (Between(g, at, b, "final") <=> final) /\ (Between(g, at, b, "recipient") <=> called)
            BY <2>3
        <3> HIDE DEF final, called
        <3> QED
            BY <1>2, <1>6, <2>3, <3>1, <3>2, <3>3 DEF HarmonyPlace
    <2> HIDE DEF final, called
    <2> QED
        BY <2>2, <2>6, <2>7 DEF Fits, Routes
<1> QED
    BY <1>5, <1>6

\* harmony_route carries along what the history says.
LEMMA HarmonyStep ==
    ASSUME NEW h \in Seq(Token), NEW tok \in Token, WellFormed(Append(h, tok)),
           NEW t, DOMAIN t = TrackerFields, HarmonyAgrees(h, t),
           NEW r, r = harmony_route(t, tok)
    PROVE  /\ HarmonyAgrees(Append(h, tok), r.tracker)
           /\ Fits(r.route, HarmonyPlace(Append(h, tok), Len(h) + 1))
<1> DEFINE g == Append(h, tok)
           n == Len(h) + 1
           at == LastOf(h, Marks, n)
<1>1. /\ t.harmony_header_ids \in Seq(Token)
      /\ InMarkers(h, at, t) \/ InRole(h, at, t) \/ InHeader(h, at, t) \/ InPlain(h, at, t) \/ InBody(h, at, t)
    BY DEF HarmonyAgrees, Agrees
<1>2. g = Append(h, tok) /\ n = Len(h) + 1 /\ at = LastOf(h, Marks, n) /\ WellFormed(g)
    OBVIOUS
<1> HIDE DEF g, n, at
<1>3. HarmonyAgrees(g, r.tracker) /\ Fits(r.route, HarmonyPlace(g, n))
    <2>1. CASE InMarkers(h, at, t)
        BY <1>1, <1>2, <2>1, FromMarkers
    <2>2. CASE InRole(h, at, t)
        BY <1>1, <1>2, <2>2, FromRole
    <2>3. CASE InHeader(h, at, t)
        BY <1>1, <1>2, <2>3, FromHeader
    <2>4. CASE InPlain(h, at, t)
        BY <1>1, <1>2, <2>4, FromPlain
    <2>5. CASE InBody(h, at, t)
        BY <1>1, <1>2, <2>5, FromBody
    <2> QED
        BY <1>1, <2>1, <2>2, <2>3, <2>4, <2>5
<1> QED
    BY <1>2, <1>3

-----------------------------------------------------------------------------
(* The think markers: the state carried along, and the history.            *)

\* The think state carried along is that of the history.
ThinkAgrees(h, t) ==
    /\ t.in_thinking <=> Thinking(h, Len(h) + 1)
    /\ t.thinking_header <=> InName(h, Len(h) + 1)

\* A name is part of the thinking.
LEMMA NameThinks == \A h, i : InName(h, i) => Thinking(h, i)
    BY DEF InName, Thinking

\* What the history says behind its last token: for a history h, a token, the
\* history g with it and its position n.
Thinks(h, tok, g, n) ==
    /\ K(g, n) = Kind[tok] /\ Len(g) = n
    /\ (Thinking(g, n) <=> Thinking(h, n)) /\ (InName(g, n) <=> InName(h, n))
    /\ Thinking(g, n + 1) <=> IF Kind[tok] \in ThinkMarks THEN Kind[tok] # "think_end"
                              ELSE Thinking(h, n)
    /\ InName(g, n + 1) <=> IF Kind[tok] \in ThinkMarks
                            THEN Kind[tok] = "named_think" /\ ~Thinking(h, n)
                            ELSE InName(h, n) /\ Kind[tok] # "newline"

\* The last think marker behind one token more.
LEMMA LastBehind ==
    ASSUME NEW h \in Seq(Token), NEW tok \in Token
    PROVE  LastOf(Append(h, tok), ThinkMarks, Len(h) + 2)
           = IF Kind[tok] \in ThinkMarks THEN Len(h) + 1 ELSE LastOf(h, ThinkMarks, Len(h) + 1)
<1> DEFINE g == Append(h, tok)
           n == Len(h) + 1
           at == LastOf(h, ThinkMarks, n)
<1>1. /\ \A i \in 1 .. Len(h) : K(g, i) = K(h, i)
      /\ K(g, n) = Kind[tok]
      /\ LastOf(g, ThinkMarks, Len(h) + 2) = IF Kind[tok] \in ThinkMarks THEN n ELSE at
    BY GrownLast
<1> QED
    BY <1>1

\* It says so.
LEMMA ThinkNext ==
    ASSUME NEW h \in Seq(Token), NEW tok \in Token, NEW g, g = Append(h, tok), NEW n, n = Len(h) + 1
    PROVE  Thinks(h, tok, g, n)
<1> DEFINE at == LastOf(h, ThinkMarks, n)
<1>1. n \in Nat /\ n >= 1 /\ Len(h) = n - 1 /\ Len(g) = n /\ n \in 1 .. Len(h) + 1 /\ Len(h) + 2 = n + 1
    OBVIOUS
<1>2. K(g, n) = Kind[tok] /\ LastOf(g, ThinkMarks, n + 1) = IF Kind[tok] \in ThinkMarks THEN n ELSE at
    <2>1. LastOf(Append(h, tok), ThinkMarks, Len(h) + 2)
          = IF Kind[tok] \in ThinkMarks THEN Len(h) + 1 ELSE LastOf(h, ThinkMarks, Len(h) + 1)
        BY LastBehind
    <2>2. LastOf(g, ThinkMarks, n + 1) = IF Kind[tok] \in ThinkMarks THEN n ELSE at
        BY <1>1, <2>1
    <2>3. K(g, n) = Kind[tok]
        BY DEF K
    <2> QED
        BY <2>2, <2>3
<1>3. LastOf(g, ThinkMarks, n) = at /\ (Thinking(g, n) <=> Thinking(h, n)) /\ (InName(g, n) <=> InName(h, n))
    <2>1. LastOf(g, ThinkMarks, n) = at
        BY <1>1, LastBefore
    <2>2. (Thinking(g, n) <=> Thinking(h, n)) /\ (InName(g, n) <=> InName(h, n))
        BY <1>1, ThinkingBefore
    <2> QED
        BY <2>1, <2>2
<1>4. at \in 0 .. n - 1
    BY <1>1, LastFacts
<1> HIDE DEF at
<1>5. /\ \A kind : Between(g, at, n + 1, kind) <=> Between(h, at, n, kind) \/ Kind[tok] = kind
      /\ \A kind : ~Between(g, n, n + 1, kind)
    <2>1. at \in Nat /\ at <= Len(h)
        BY <1>1, <1>4
    <2>2. ASSUME NEW kind PROVE Between(g, at, n + 1, kind) <=> Between(h, at, n, kind) \/ Kind[tok] = kind
        BY <1>1, <2>1, GrownBetween
    <2>3. ASSUME NEW kind PROVE ~Between(g, n, n + 1, kind)
        BY <1>1, <2>1, GrownBetween
    <2> QED
        BY <2>2, <2>3
<1>6. at > 0 => K(g, at) = K(h, at) /\ (Thinking(g, at) <=> Thinking(h, at))
    <2> SUFFICES ASSUME at > 0 PROVE K(g, at) = K(h, at) /\ (Thinking(g, at) <=> Thinking(h, at))
        OBVIOUS
    <2>1. at \in 1 .. Len(h) /\ at \in 1 .. Len(h) + 1
        BY <1>1, <1>4
    <2>2. K(g, at) = K(h, at)
        BY <2>1 DEF K
    <2>3. Thinking(g, at) <=> Thinking(h, at)
        BY <2>1, ThinkingBefore
    <2> QED
        BY <2>2, <2>3
<1>7. CASE Kind[tok] \in ThinkMarks
    <2>1. LastOf(g, ThinkMarks, n + 1) = n /\ n # 0 /\ n > 0
        BY <1>1, <1>2, <1>7
    <2>2. Thinking(g, n + 1) <=> Kind[tok] # "think_end"
        BY <1>2, <2>1 DEF Thinking
    <2>3. InName(g, n + 1) <=> Kind[tok] = "named_think" /\ ~Thinking(g, n)
        BY <1>2, <1>5, <2>1 DEF InName
    <2> QED
        BY <1>1, <1>2, <1>3, <1>7, <2>2, <2>3 DEF Thinks
<1>8. CASE Kind[tok] \notin ThinkMarks
    <2>1. LastOf(g, ThinkMarks, n + 1) = at /\ LastOf(h, ThinkMarks, n) = at /\ (at = 0 \/ at > 0)
        BY <1>2, <1>4, <1>8 DEF at
    <2>2. Thinking(g, n + 1) <=> Thinking(h, n)
        <3>1. Thinking(g, n + 1) <=> IF at = 0 THEN request.thinking_open ELSE K(g, at) # "think_end"
            BY <2>1 DEF Thinking
        <3>2. Thinking(h, n) <=> IF at = 0 THEN request.thinking_open ELSE K(h, at) # "think_end"
            BY <2>1 DEF Thinking
        <3> QED
            BY <1>6, <2>1, <3>1, <3>2
    <2>3. InName(g, n + 1) <=> InName(h, n) /\ Kind[tok] # "newline"
        <3>1. InName(g, n + 1) <=> /\ at > 0 /\ K(g, at) = "named_think" /\ ~Thinking(g, at)
                                   /\ ~Between(g, at, n + 1, "newline")
            BY <2>1 DEF InName
        <3>2. InName(h, n) <=> /\ at > 0 /\ K(h, at) = "named_think" /\ ~Thinking(h, at)
                               /\ ~Between(h, at, n, "newline")
            BY <2>1 DEF InName
        <3> QED
            BY <1>5, <1>6, <3>1, <3>2
    <2> QED
        BY <1>1, <1>2, <1>3, <1>8, <2>2, <2>3 DEF Thinks
<1> QED
    BY <1>7, <1>8 DEF Thinks

\* The think markers carry along what the history says.
LEMMA ThinkStep ==
    ASSUME NEW h \in Seq(Token), NEW tok \in Token,
           NEW t, DOMAIN t = TrackerFields, ThinkAgrees(h, t),
           NEW r, r = think_route(t, tok)
    PROVE  /\ ThinkAgrees(Append(h, tok), r.tracker)
           /\ Fits(r.route, ThinkPlace(Append(h, tok), Len(h) + 1))
<1> DEFINE g == Append(h, tok)
           n == Len(h) + 1
           kind == Kind[tok]
           opened == [t EXCEPT !.in_thinking = TRUE,
                           !.thinking_header = ~t.in_thinking /\ kind = "named_think"]
           closed == [t EXCEPT !.in_thinking = FALSE, !.thinking_header = FALSE]
           header == [t EXCEPT !.thinking_header = kind # "newline"]
<1>1. g = Append(h, tok) /\ n = Len(h) + 1
    OBVIOUS
<1>2. /\ opened.in_thinking = TRUE
      /\ opened.thinking_header = (~t.in_thinking /\ kind = "named_think")
      /\ closed.in_thinking = FALSE /\ closed.thinking_header = FALSE
      /\ header.in_thinking = t.in_thinking /\ header.thinking_header = (kind # "newline")
    BY DEF TrackerFields
<1>3. r = IF kind \in {"think", "named_think"} THEN Routed("Framing", opened)
          ELSE IF ~t.in_thinking THEN Routed("Content", t)
          ELSE IF kind = "think_end" THEN Routed("Framing", closed)
          ELSE IF t.thinking_header THEN Routed("Framing", header)
          ELSE Routed("Reasoning", t)
    BY DEF think_route
<1>4. \A route, u : Routed(route, u).route = route /\ Routed(route, u).tracker = u
    BY RoutedFacts
<1>5. kind \in ThinkMarks <=> kind = "think" \/ kind = "named_think" \/ kind = "think_end"
    BY DEF ThinkMarks
<1> HIDE DEF g, n, kind, opened, closed, header
<1>6. /\ K(g, n) = kind /\ Len(g) = n
      /\ (Thinking(g, n) <=> Thinking(h, n)) /\ (InName(g, n) <=> InName(h, n))
      /\ Thinking(g, n + 1) <=> IF kind \in ThinkMarks THEN kind # "think_end" ELSE Thinking(h, n)
      /\ InName(g, n + 1) <=> IF kind \in ThinkMarks THEN kind = "named_think" /\ ~Thinking(h, n)
                              ELSE InName(h, n) /\ kind # "newline"
    <2>1. Thinks(h, tok, g, n)
        BY <1>1, ThinkNext
    <2> QED
        BY <2>1 DEF Thinks, kind
<1>7. (t.in_thinking <=> Thinking(h, n)) /\ (t.thinking_header <=> InName(h, n))
    BY <1>1 DEF ThinkAgrees
<1>8. InName(h, n) => Thinking(h, n)
    BY NameThinks
<1>9. \A u : ThinkAgrees(g, u) <=> (u.in_thinking <=> Thinking(g, n + 1))
                                   /\ (u.thinking_header <=> InName(g, n + 1))
    BY <1>6 DEF ThinkAgrees
<1>10. ThinkPlace(g, n) = IF kind \in {"think", "named_think"} THEN "Framing"
                          ELSE IF ~Thinking(g, n) THEN "Content"
                          ELSE IF kind = "think_end" \/ InName(g, n) THEN "Framing" ELSE "Reasoning"
    BY <1>6 DEF ThinkPlace
<1>11. ThinkAgrees(g, r.tracker) /\ Fits(r.route, ThinkPlace(g, n))
    <2>1. CASE kind = "think" \/ kind = "named_think"
        <3>1. r = Routed("Framing", opened) /\ ThinkPlace(g, n) = "Framing"
            BY <1>3, <1>10, <2>1
        <3>2. r.tracker = opened /\ r.route = "Framing"
            BY <1>4, <3>1
        <3>3. ThinkAgrees(g, opened)
            <4>1. Thinking(g, n + 1) /\ (InName(g, n + 1) <=> kind = "named_think" /\ ~Thinking(h, n))
                BY <1>5, <1>6, <2>1
            <4> QED
                BY <1>2, <1>7, <1>9, <4>1
        <3> QED
            BY <3>1, <3>2, <3>3 DEF Fits, Routes
    <2>2. CASE kind # "think" /\ kind # "named_think" /\ ~Thinking(h, n)
        <3>1. r = Routed("Content", t) /\ ThinkPlace(g, n) = "Content"
            BY <1>3, <1>6, <1>7, <1>10, <2>2
        <3>2. r.tracker = t /\ r.route = "Content"
            BY <1>4, <3>1
        <3>3. ThinkAgrees(g, t)
            BY <1>5, <1>6, <1>7, <1>8, <1>9, <2>2
        <3> QED
            BY <3>1, <3>2, <3>3 DEF Fits, Routes
    <2>3. CASE kind = "think_end" /\ Thinking(h, n)
        <3>1. r = Routed("Framing", closed) /\ ThinkPlace(g, n) = "Framing"
            BY <1>3, <1>6, <1>7, <1>10, <2>3
        <3>2. r.tracker = closed /\ r.route = "Framing"
            BY <1>4, <3>1
        <3>3. ThinkAgrees(g, closed)
            BY <1>2, <1>5, <1>6, <1>9, <2>3
        <3> QED
            BY <3>1, <3>2, <3>3 DEF Fits, Routes
    <2>4. CASE kind \notin {"think", "named_think", "think_end"} /\ InName(h, n)
        <3>1. r = Routed("Framing", header) /\ ThinkPlace(g, n) = "Framing"
            BY <1>3, <1>6, <1>7, <1>8, <1>10, <2>4
        <3>2. r.tracker = header /\ r.route = "Framing"
            BY <1>4, <3>1
        <3>3. ThinkAgrees(g, header)
            BY <1>2, <1>5, <1>6, <1>7, <1>8, <1>9, <2>4
        <3> QED
            BY <3>1, <3>2, <3>3 DEF Fits, Routes
    <2>5. CASE kind \notin {"think", "named_think", "think_end"} /\ Thinking(h, n) /\ ~InName(h, n)
        <3>1. r = Routed("Reasoning", t) /\ ThinkPlace(g, n) = "Reasoning"
            BY <1>3, <1>6, <1>7, <1>10, <2>5
        <3>2. r.tracker = t /\ r.route = "Reasoning"
            BY <1>4, <3>1
        <3>3. ThinkAgrees(g, t)
            BY <1>5, <1>6, <1>7, <1>9, <2>5
        <3> QED
            BY <3>1, <3>2, <3>3 DEF Fits, Routes
    <2> QED
        BY <1>8, <2>1, <2>2, <2>3, <2>4, <2>5
<1> QED
    BY <1>1, <1>11

-----------------------------------------------------------------------------
(* What delivery leaves of the routing, and what it hands on.              *)

\* What the routing carries along is the same in both.
Carried(t, u) ==
    /\ DOMAIN u = TrackerFields
    /\ u.in_thinking = t.in_thinking /\ u.thinking_header = t.thinking_header
    /\ u.harmony_state = t.harmony_state /\ u.harmony_header_ids = t.harmony_header_ids

\* Nor has anything been handed on.
Unmoved(t, u) == Carried(t, u) /\ u.output_ids = t.output_ids /\ u.thinking_ids = t.thinking_ids

\* The tracker once a token of a route has been delivered.
Delivered(route, t, tok, u) ==
    /\ Carried(t, u)
    /\ u.output_ids = IF route = "Content" THEN Append(t.output_ids, tok) ELSE t.output_ids
    /\ u.thinking_ids = IF route = "Reasoning" /\ request.wants_reasoning
                        THEN Append(t.thinking_ids, tok) ELSE t.thinking_ids

\* Closing a call.
LEMMA CloseKeeps ==
    ASSUME NEW t, DOMAIN t = TrackerFields, NEW s, NEW e, e = close_harmony_tool_call(t, s)
    PROVE  Unmoved(t, e.tracker)
<1> DEFINE rest == Finish(t.output, t.output_ids)
           u == [t EXCEPT !.harmony_tool_open = FALSE, !.output = rest.decoder]
           v == [s EXCEPT !.content = Append(@ \o rest.text, Closer)]
<1>1. e = IF ~t.harmony_tool_open THEN Effect(t, s) ELSE Effect(u, v)
    BY DEF close_harmony_tool_call
<1> HIDE DEF rest, v
<1>2. Unmoved(t, t) /\ Unmoved(t, u)
    BY DEF Unmoved, Carried, TrackerFields
<1> HIDE DEF u
<1> QED
    BY <1>1, <1>2, EffectFacts

\* The end of a stream.
LEMMA EndedKeeps ==
    ASSUME NEW t, DOMAIN t = TrackerFields, NEW s, NEW reason, NEW e, e = Ended(t, s, reason)
    PROVE  Unmoved(t, e.tracker)
<1> DEFINE rest == Finish(t.thinking, t.thinking_ids)
           u == [t EXCEPT !.thinking = rest.decoder]
           v == [s EXCEPT !.reasoning = @ \o rest.text, !.finish = reason]
<1>1. e = Effect(u, v)
    BY DEF Ended
<1> HIDE DEF rest, v
<1>2. Unmoved(t, u)
    BY DEF Unmoved, Carried, TrackerFields
<1> HIDE DEF u
<1> QED
    BY <1>1, <1>2, EffectFacts

\* Content joins what was given, whatever becomes of its text.
LEMMA ContentDelivered ==
    ASSUME NEW t, DOMAIN t = TrackerFields, NEW tok, NEW lps,
           SendContent(t, Append(t.output_ids, tok), lps)
    PROVE  Delivered("Content", t, tok, tracker')
<1> DEFINE ids == Append(t.output_ids, tok)
           out == Push(t.output, ids)
           scan == ScanPush(request.stops, t.held, out.text)
           next == [t EXCEPT !.output_ids = ids, !.output = out.decoder]
           waits == [next EXCEPT !.pending_raw_lps = lps]
           cleared == [next EXCEPT !.held = scan.held, !.pending_raw_lps = <<>>]
           sent == [stream EXCEPT !.content = @ \o scan.text, !.logprobs = @ \o lps]
           ended == Ended(cleared, sent, "stop")
<1>1. tracker' = waits \/ tracker' = ended.tracker \/ tracker' = cleared
    <2>1. \/ Becomes(Effect(waits, stream))
          \/ Becomes(ended)
          \/ Becomes(Effect(cleared, sent))
        BY DEF SendContent, drain_logprobs
    <2> HIDE DEF waits, ended, cleared, sent
    <2> QED
        BY <2>1, EffectFacts DEF Becomes
<1> HIDE DEF out, scan, sent
<1>2. Delivered("Content", t, tok, waits) /\ Delivered("Content", t, tok, cleared)
    BY DEF Delivered, Carried, TrackerFields
<1>3. DOMAIN cleared = TrackerFields
    BY DEF TrackerFields
<1> HIDE DEF ids, next, waits, cleared
<1>4. Unmoved(cleared, ended.tracker)
    BY <1>3, EndedKeeps
<1> HIDE DEF ended
<1>5. Delivered("Content", t, tok, ended.tracker)
    BY <1>2, <1>4 DEF Delivered, Unmoved, Carried
<1> QED
    BY <1>1, <1>2, <1>5

\* A token of any route.
LEMMA DeliverFacts ==
    ASSUME NEW t, DOMAIN t = TrackerFields, NEW tok, NEW route \in Routes, Deliver(route, t, tok)
    PROVE  Delivered(route, t, tok, tracker')
<1>1. Unmoved(t, t)
    BY DEF Unmoved, Carried
<1>2. ASSUME NEW u, Unmoved(t, u), route # "Content", ~(route = "Reasoning" /\ request.wants_reasoning)
      PROVE  Delivered(route, t, tok, u)
    BY <1>2 DEF Unmoved, Delivered
<1>3. CASE route = "Framing" \/ (route = "Reasoning" /\ ~request.wants_reasoning)
    <2>1. tracker' = t
        BY <1>3, EffectFacts DEF Deliver, Becomes
    <2> QED
        BY <1>1, <1>2, <1>3, <2>1
<1>4. CASE route = "Reasoning" /\ request.wants_reasoning
    <2> DEFINE ids == Append(t.thinking_ids, tok)
               out == Push(t.thinking, ids)
               u == [t EXCEPT !.thinking_ids = ids, !.thinking = out.decoder]
               v == [stream EXCEPT !.reasoning = @ \o out.text]
    <2>1. SendReasoning(t, ids)
        BY <1>4 DEF Deliver
    <2>2. Becomes(Effect(u, v))
        BY <2>1 DEF SendReasoning
    <2> HIDE DEF out, v
    <2>3. tracker' = u
        <3> HIDE DEF u
        <3> QED
            BY <2>2, EffectFacts DEF Becomes
    <2>4. Delivered(route, t, tok, u)
        BY <1>4 DEF Delivered, Carried, TrackerFields
    <2> QED
        BY <2>3, <2>4
<1>5. CASE route = "Content"
    <2>1. SendContent(t, Append(t.output_ids, tok), Append(t.pending_raw_lps, tok))
        BY <1>5 DEF Deliver
    <2> QED
        BY <1>5, <2>1, ContentDelivered
<1>6. CASE route = "ToolCall"
    <2> DEFINE u == [t EXCEPT !.harmony_tool_open = TRUE]
               v == [stream EXCEPT !.content = Append(@, Opener)]
    <2>1. Becomes(Effect(u, v))
        BY <1>6 DEF Deliver
    <2> HIDE DEF v
    <2>2. Unmoved(t, u)
        BY DEF Unmoved, Carried, TrackerFields
    <2> HIDE DEF u
    <2>3. tracker' = u
        BY <2>1, EffectFacts DEF Becomes
    <2> QED
        BY <1>2, <1>6, <2>2, <2>3
<1>7. CASE route = "ToolCallEnd"
    <2> DEFINE e == close_harmony_tool_call(t, stream)
    <2>1. Becomes(e)
        BY <1>7 DEF Deliver
    <2> HIDE DEF e
    <2>2. tracker' = e.tracker
        BY <2>1 DEF Becomes
    <2>3. Unmoved(t, e.tracker)
        BY CloseKeeps DEF e
    <2> QED
        BY <1>2, <1>7, <2>2, <2>3
<1> QED
    BY <1>3, <1>4, <1>5, <1>6, <1>7 DEF Routes

-----------------------------------------------------------------------------
(* The channels.                                                           *)

\* The tracker is where the history says, and handed on what belongs there.
Follows(h, t) ==
    /\ IF request.harmony THEN HarmonyAgrees(h, t) ELSE ThinkAgrees(h, t)
    /\ t.output_ids = PlacedIn(h, {"Content", "Call"})
    /\ t.thinking_ids = IF request.wants_reasoning THEN PlacedIn(h, {"Reasoning"}) ELSE <<>>

\* The invariant of the channels.
SInv ==
    /\ IInv
    /\ history \in Seq(Token)
    /\ WellFormed(history) => Follows(history, tracker)

\* A tracker that carries the same agrees with the same history.
LEMMA CarriedAgrees ==
    ASSUME NEW h, NEW t, NEW u, Carried(t, u)
    PROVE  /\ HarmonyAgrees(h, t) => HarmonyAgrees(h, u)
           /\ ThinkAgrees(h, t) => ThinkAgrees(h, u)
    BY DEF Carried, HarmonyAgrees, Agrees, InMarkers, InRole, InHeader, InPlain, InBody, ThinkAgrees

\* Nothing has been handed on of an empty history.
LEMMA FollowsInit ==
    ASSUME Init
    PROVE  Follows(<<>>, tracker)
<1>1. /\ tracker.output_ids = <<>> /\ tracker.thinking_ids = <<>>
      /\ tracker.harmony_state = Markers /\ tracker.harmony_header_ids = <<>>
      /\ tracker.in_thinking = request.thinking_open /\ tracker.thinking_header = FALSE
    BY DEF Init, NewTracker
<1>2. PlacedIn(<<>>, {"Content", "Call"}) = <<>> /\ PlacedIn(<<>>, {"Reasoning"}) = <<>>
    BY AtEmpty DEF PlacedIn
<1>3. Len(<<>>) = 0 /\ 0 + 1 = 1 /\ <<>> \in Seq(Token)
    OBVIOUS
<1>4. LastOf(<<>>, Marks, 1) = 0 /\ LastOf(<<>>, ThinkMarks, 1) = 0
    <2>1. \A kinds : LastOf(<<>>, kinds, 1) \in 0 .. 1 - 1
        BY LastFacts
    <2>2. LastOf(<<>>, Marks, 1) \in 0 .. 1 - 1 /\ LastOf(<<>>, ThinkMarks, 1) \in 0 .. 1 - 1
        BY <2>1
    <2> QED
        BY <2>2
<1>5. HarmonyAgrees(<<>>, tracker)
    BY <1>1, <1>3, <1>4 DEF HarmonyAgrees, Agrees, InMarkers
<1>6. ThinkAgrees(<<>>, tracker)
    BY <1>1, <1>3, <1>4 DEF ThinkAgrees, Thinking, InName
<1> QED
    BY <1>1, <1>2, <1>5, <1>6 DEF Follows

\* One token more.
LEMMA FollowsToken ==
    ASSUME NEW h \in Seq(Token), NEW tok \in Token, WellFormed(Append(h, tok)),
           NEW t, DOMAIN t = TrackerFields, Follows(h, t),
           NEW r, r = IF request.harmony THEN harmony_route(t, tok) ELSE think_route(t, tok),
           Alike(t, r.tracker), NEW u, Delivered(r.route, r.tracker, tok, u)
    PROVE  Follows(Append(h, tok), u)
<1> DEFINE g == Append(h, tok)
           n == Len(h) + 1
           said == PlacedIn(h, {"Content", "Call"})
           thought == PlacedIn(h, {"Reasoning"})
<1>1. /\ IF request.harmony THEN HarmonyAgrees(h, t) ELSE ThinkAgrees(h, t)
      /\ t.output_ids = said
      /\ t.thinking_ids = IF request.wants_reasoning THEN thought ELSE <<>>
    BY DEF Follows
<1>2. /\ IF request.harmony THEN HarmonyAgrees(g, r.tracker) ELSE ThinkAgrees(g, r.tracker)
      /\ Fits(r.route, Place(g, n))
    <2>1. CASE request.harmony
        <3>1. HarmonyAgrees(g, r.tracker) /\ Fits(r.route, HarmonyPlace(g, n))
            BY <1>1, <2>1, HarmonyStep
        <3> QED
            BY <2>1, <3>1 DEF Place
    <2>2. CASE ~request.harmony
        <3>1. ThinkAgrees(g, r.tracker) /\ Fits(r.route, ThinkPlace(g, n))
            BY <1>1, <2>2, ThinkStep
        <3> QED
            BY <2>2, <3>1 DEF Place
    <2> QED
        BY <2>1, <2>2
<1>3. /\ PlacedIn(g, {"Content", "Call"})
         = IF Place(g, n) \in {"Content", "Call"} THEN Append(said, tok) ELSE said
      /\ PlacedIn(g, {"Reasoning"})
         = IF Place(g, n) \in {"Reasoning"} THEN Append(thought, tok) ELSE thought
    BY PlacedAppend
<1> HIDE DEF g, n, said, thought
<1>4. /\ Carried(r.tracker, u)
      /\ u.output_ids = IF r.route = "Content" THEN Append(r.tracker.output_ids, tok)
                        ELSE r.tracker.output_ids
      /\ u.thinking_ids = IF r.route = "Reasoning" /\ request.wants_reasoning
                          THEN Append(r.tracker.thinking_ids, tok) ELSE r.tracker.thinking_ids
    BY DEF Delivered
<1>5. r.tracker.output_ids = t.output_ids /\ r.tracker.thinking_ids = t.thinking_ids
    BY DEF Alike
<1>6. IF request.harmony THEN HarmonyAgrees(g, u) ELSE ThinkAgrees(g, u)
    BY <1>2, <1>4, CarriedAgrees
<1>7. u.output_ids = PlacedIn(g, {"Content", "Call"})
    BY <1>1, <1>2, <1>3, <1>4, <1>5 DEF Fits
<1>8. u.thinking_ids = IF request.wants_reasoning THEN PlacedIn(g, {"Reasoning"}) ELSE <<>>
    <2>1. r.route = "Reasoning" <=> Place(g, n) = "Reasoning"
        BY <1>2 DEF Fits
    <2> QED
        BY <1>1, <1>3, <1>4, <1>5, <2>1
<1>9. Follows(g, u)
    BY <1>6, <1>7, <1>8 DEF Follows
<1> QED
    BY <1>9 DEF g

\* A tracker that moved nothing follows the same history.
LEMMA FollowsUnmoved ==
    ASSUME NEW h, NEW t, NEW u, Follows(h, t), Unmoved(t, u)
    PROVE  Follows(h, u)
<1>1. Carried(t, u) /\ u.output_ids = t.output_ids /\ u.thinking_ids = t.thinking_ids
    BY DEF Unmoved
<1>2. IF request.harmony THEN HarmonyAgrees(h, u) ELSE ThinkAgrees(h, u)
    BY <1>1, CarriedAgrees DEF Follows
<1> QED
    BY <1>1, <1>2 DEF Follows

\* What a history says of a request does not change while the request does not.
LEMMA FollowsNext ==
    ASSUME request' = request, Follows(history', tracker')
    PROVE  Follows(history, tracker)'
    BY DEF Follows, HarmonyAgrees, Agrees, InMarkers, InRole, InHeader, InPlain, InBody, ThinkAgrees,
           Thinking, InName, PlacedIn, Place, HarmonyPlace, ThinkPlace

\* A new request.
LEMMA SInvInit == Init => SInv
<1> SUFFICES ASSUME Init PROVE SInv
    OBVIOUS
<1>1. history = <<>> /\ <<>> \in Seq(Token)
    BY DEF Init
<1> QED
    BY <1>1, InitHolds, FollowsInit DEF SInv

\* Every step keeps the invariant.
LEMMA SInvNext == SInv /\ [Next]_vars => SInv'
<1> SUFFICES ASSUME SInv, [Next]_vars PROVE SInv'
    OBVIOUS
<1>1. /\ IInv /\ history \in Seq(Token) /\ DOMAIN tracker = TrackerFields /\ request \in Sessions
      /\ WellFormed(history) => Follows(history, tracker)
    BY DEF SInv, IInv, Logged
<1>2. IInv'
    BY <1>1, NextStep
<1>3. ASSUME NEW tok \in request.vocabulary, TokenOut(tok) PROVE SInv'
    <2>1. /\ tok \in Token /\ request' = request /\ history' = Append(history, tok)
          /\ history' \in Seq(Token)
        BY <1>1, <1>3, TrackerAssumption DEF TokenOut
    <2> DEFINE r == Route(tok)
    <2>2. Deliver(r.route, r.tracker, tok)
        BY <1>3 DEF TokenOut
    <2>3. r = IF request.harmony THEN harmony_route(tracker, tok) ELSE think_route(tracker, tok)
        BY DEF Route
    <2> HIDE DEF r
    <2>4. Alike(tracker, r.tracker) /\ r.route \in Routes
        BY <1>1, <2>3, HarmonyFacts, ThinkFacts DEF Rerouted
    <2>5. Delivered(r.route, r.tracker, tok, tracker')
        <3>1. DOMAIN r.tracker = TrackerFields
            BY <2>4 DEF Alike
        <3> QED
            BY <2>2, <2>4, <3>1, DeliverFacts
    <2>6. ASSUME WellFormed(history') PROVE Follows(history', tracker')
        <3>1. WellFormed(Append(history, tok))
            BY <2>1, <2>6
        <3>2. Follows(history, tracker)
            <4>1. WellFormed(history)
                BY <1>1, <2>1, <3>1, WellBefore
            <4> QED
                BY <1>1, <4>1
        <3>3. Follows(Append(history, tok), tracker')
            BY <1>1, <2>1, <2>3, <2>4, <2>5, <3>1, <3>2, FollowsToken
        <3> QED
            BY <2>1, <3>3
    <2>7. WellFormed(history)' => Follows(history, tracker)'
        BY <2>1, <2>6, FollowsNext
    <2> QED
        BY <1>2, <2>1, <2>7 DEF SInv
<1>4. CASE Completed
    <2>1. request' = request /\ history' = history /\ Becomes(Flush(tracker, stream))
        BY <1>4 DEF Completed
    <2>2. Unmoved(tracker, tracker')
        <3> DEFINE rest == Finish(tracker.output, tracker.output_ids)
                   scan == ScanFinish(request.stops, tracker.held, rest.text)
                   u == [tracker EXCEPT !.output = rest.decoder, !.held = scan.held, !.pending_raw_lps = <<>>]
                   v == [stream EXCEPT !.content = @ \o scan.text,
                                       !.logprobs = @ \o drain_logprobs(tracker.pending_raw_lps)]
                   closed == close_harmony_tool_call(u, v)
                   e == Ended(closed.tracker, closed.stream, IF scan.stopped THEN "stop" ELSE "length")
        <3>1. tracker' = e.tracker
            BY <2>1 DEF Becomes, Flush
        <3> HIDE DEF rest, scan, v
        <3>2. Unmoved(tracker, u)
            BY <1>1 DEF Unmoved, Carried, TrackerFields
        <3> HIDE DEF u
        <3>3. Unmoved(u, closed.tracker)
            <4>1. DOMAIN u = TrackerFields
                BY <3>2 DEF Unmoved, Carried
            <4> QED
                BY <4>1, CloseKeeps
        <3> HIDE DEF closed
        <3>4. Unmoved(closed.tracker, e.tracker)
            <4>1. DOMAIN closed.tracker = TrackerFields
                BY <3>3 DEF Unmoved, Carried
            <4> QED
                BY <4>1, EndedKeeps
        <3> HIDE DEF e
        <3> QED
            BY <3>1, <3>2, <3>3, <3>4 DEF Unmoved, Carried
    <2>3. ASSUME WellFormed(history') PROVE Follows(history', tracker')
        BY <1>1, <2>1, <2>2, <2>3, FollowsUnmoved
    <2>4. WellFormed(history)' => Follows(history, tracker)'
        BY <2>1, <2>3, FollowsNext
    <2> QED
        BY <1>1, <1>2, <2>1, <2>4 DEF SInv
<1>5. CASE UNCHANGED vars
    <2>1. request' = request /\ history' = history /\ tracker' = tracker
        BY <1>5 DEF vars
    <2>2. WellFormed(history)' => Follows(history, tracker)'
        BY <1>1, <2>1, FollowsNext
    <2> QED
        BY <1>1, <1>2, <2>1, <2>2 DEF SInv
<1> QED
    BY <1>3, <1>4, <1>5 DEF Next

\* For every vocabulary, both protocols and every well-formed order of tokens,
\* each token is handed on to the channel the whole history puts it in: final
\* messages and calls to the content, the others to the reasoning if it was
\* asked for, markers, roles and names to nobody (harmony_route and the think
\* markers of engine_loop.rs, which carry one state from token to token).
THEOREM ChannelsAlwaysSplit == Spec => []ChannelsSplit
<1>1. SInv => ChannelsSplit
    BY DEF SInv, Follows, ChannelsSplit, Placed
<1>2. Spec => []SInv
    BY SInvInit, SInvNext, PTL DEF Spec
<1> QED
    BY <1>1, <1>2, PTL

-----------------------------------------------------------------------------
(* What a decode returns.                                                  *)

\* A decode that has read nothing.
Nothing == [text |-> <<>>, pending |-> 0]
\* A decode's next step, its recursion as a function.
RunStep(b, g, n) == IF n = 0 THEN Nothing ELSE Take(g[n - 1], b[n])

\* What no token spells is a character, too.
LEMMA CharFacts == Wide \in Character /\ Replacement \in Character /\ Wide # Replacement
    BY DEF Character, Wide, Replacement

\* The recursion behind Run has a solution: up to n + 1 from up to n.
LEMMA RunExists ==
    ASSUME NEW b, NEW m \in Nat
    PROVE  \E g : g = [n \in 0 .. m |-> RunStep(b, g, n)]
<1> DEFINE Q == {k \in Nat : \E g : g = [n \in 0 .. k |-> RunStep(b, g, n)]}
<1>1. 0 \in Q
    <2> DEFINE g == [n \in 0 .. 0 |-> Nothing]
    <2>1. g = [n \in 0 .. 0 |-> RunStep(b, g, n)]
        BY DEF RunStep
    <2> QED
        BY <2>1
<1>2. ASSUME NEW k \in Q PROVE k + 1 \in Q
    <2>1. PICK g : g = [n \in 0 .. k |-> RunStep(b, g, n)]
        OBVIOUS
    <2> DEFINE h == [n \in 0 .. k + 1 |-> RunStep(b, g, n)]
    <2>2. ASSUME NEW n \in 0 .. k + 1 PROVE RunStep(b, g, n) = RunStep(b, h, n)
        <3>1. CASE n = 0
            BY <3>1 DEF RunStep
        <3>2. CASE n # 0
            <4>1. n - 1 \in 0 .. k /\ n - 1 \in 0 .. k + 1
                BY <3>2
            <4>2. g[n - 1] = h[n - 1]
                BY <2>1, <4>1
            <4> QED
                BY <3>2, <4>2 DEF RunStep
        <3> QED
            BY <3>1, <3>2
    <2>3. h = [n \in 0 .. k + 1 |-> RunStep(b, h, n)]
        BY <2>2
    <2> HIDE DEF h
    <2>4. k + 1 \in Nat
        OBVIOUS
    <2> QED
        BY <2>3, <2>4
<1>3. Q = Nat
    <2> HIDE DEF Q
    <2>1. Q \in SUBSET Nat
        BY DEF Q
    <2> QED
        BY <1>1, <1>2, <2>1, NatSetInduction
<1> QED
    BY <1>3

\* Run is the last value of that recursion.
LEMMA RunRecursion ==
    ASSUME NEW T, NEW b \in Seq(T)
    PROVE  \E g : Run(b) = g[Len(b)] /\ g = [n \in 0 .. Len(b) |-> RunStep(b, g, n)]
<1> DEFINE m == Len(b)
           g == CHOOSE g : g = [n \in 0 .. m |-> IF n = 0 THEN [text |-> <<>>, pending |-> 0]
                                                 ELSE Take(g[n - 1], b[n])]
<1>1. m \in Nat
    OBVIOUS
<1>2. Run(b) = g[m]
    BY DEF Run
<1>3. g = [n \in 0 .. m |-> RunStep(b, g, n)]
    <2>1. PICK h : h = [n \in 0 .. m |-> RunStep(b, h, n)]
        BY <1>1, RunExists
    <2>2. h = [n \in 0 .. m |-> IF n = 0 THEN [text |-> <<>>, pending |-> 0]
                                                 ELSE Take(h[n - 1], b[n])]
        BY <2>1 DEF RunStep, Nothing
    <2>3. g = [n \in 0 .. m |-> IF n = 0 THEN [text |-> <<>>, pending |-> 0]
                                                 ELSE Take(g[n - 1], b[n])]
        BY <2>2
    <2> QED
        BY <2>3 DEF RunStep, Nothing
<1> HIDE DEF g
<1> QED
    BY <1>2, <1>3

\* Decoding one byte more.
LEMMA RunAppend ==
    ASSUME NEW T, NEW b \in Seq(T), NEW x \in T
    PROVE  Run(Append(b, x)) = Take(Run(b), x)
<1> DEFINE m == Len(b)
           t == Append(b, x)
<1>1. /\ m \in Nat /\ t \in Seq(T) /\ Len(t) = m + 1 /\ t[m + 1] = x
      /\ \A i \in 1 .. m : t[i] = b[i]
    OBVIOUS
<1>2. PICK g : Run(b) = g[m] /\ g = [n \in 0 .. m |-> RunStep(b, g, n)]
    BY RunRecursion
<1> HIDE DEF t
<1>3. PICK h : Run(t) = h[m + 1] /\ h = [n \in 0 .. m + 1 |-> RunStep(t, h, n)]
    BY <1>1, RunRecursion
<1> HIDE DEF m
<1> DEFINE Q == {n \in Nat : n <= m => g[n] = h[n]}
<1>4. 0 \in Q
    BY <1>1, <1>2, <1>3 DEF RunStep
<1>5. ASSUME NEW n \in Q PROVE n + 1 \in Q
    <2> SUFFICES ASSUME n + 1 <= m PROVE g[n + 1] = h[n + 1]
        OBVIOUS
    <2>1. n \in Nat /\ g[n] = h[n] /\ n + 1 \in 0 .. m /\ n + 1 \in 0 .. m + 1 /\ n + 1 # 0
          /\ (n + 1) - 1 = n /\ n + 1 \in 1 .. m
        BY <1>1
    <2>2. t[n + 1] = b[n + 1]
        BY <1>1, <2>1
    <2>3. g[n + 1] = RunStep(b, g, n + 1)
        BY <1>2, <2>1
    <2>4. h[n + 1] = RunStep(t, h, n + 1)
        BY <1>3, <2>1
    <2> QED
        BY <2>1, <2>2, <2>3, <2>4 DEF RunStep
<1>6. Q = Nat
    <2> HIDE DEF Q
    <2>1. Q \in SUBSET Nat
        BY DEF Q
    <2> QED
        BY <1>4, <1>5, <2>1, NatSetInduction
<1>7. g[m] = h[m]
    BY <1>1, <1>6
<1>8. h[m + 1] = RunStep(t, h, m + 1)
    <2>1. m + 1 \in 0 .. m + 1
        BY <1>1
    <2> HIDE DEF Q
    <2> QED
        BY <1>3, <2>1
<1>9. m + 1 # 0 /\ (m + 1) - 1 = m
    BY <1>1
<1> QED
    BY <1>1, <1>2, <1>3, <1>7, <1>8, <1>9 DEF RunStep, t

\* Nothing read is nothing decoded.
LEMMA RunEmpty == Run(<<>>) = Nothing
<1>1. <<>> \in Seq(Character) /\ Len(<<>>) = 0
    OBVIOUS
<1>2. PICK g : Run(<<>>) = g[0] /\ g = [n \in 0 .. 0 |-> RunStep(<<>>, g, n)]
    BY <1>1, RunRecursion
<1> QED
    BY <1>2 DEF RunStep

\* Sequences that grow at their end, one member at a time.
LEMMA SeqSetInduction ==
    ASSUME NEW T, NEW X, X \subseteq Seq(T), <<>> \in X, \A s \in X : \A x \in T : Append(s, x) \in X
    PROVE  X = Seq(T)
<1> DEFINE Q == {n \in Nat : \A s \in Seq(T) : Len(s) = n => s \in X}
<1>1. 0 \in Q
    <2>1. \A s \in Seq(T) : Len(s) = 0 => s = <<>>
        OBVIOUS
    <2> QED
        BY <2>1
<1>2. ASSUME NEW n \in Q PROVE n + 1 \in Q
    <2> SUFFICES ASSUME NEW s \in Seq(T), Len(s) = n + 1 PROVE s \in X
        OBVIOUS
    <2> DEFINE u == SubSeq(s, 1, n)
    <2>1. n \in Nat /\ n + 1 \in 1 .. Len(s)
        OBVIOUS
    <2>2. s[n + 1] \in T /\ \A i \in 1 .. n : s[i] \in T
        BY <2>1
    <2>3. u \in Seq(T) /\ Len(u) = n /\ \A i \in 1 .. n : u[i] = s[i]
        BY <2>1, <2>2
    <2> HIDE DEF u
    <2>4. u \in X
        BY <2>3
    <2>5. Append(u, s[n + 1]) \in X
        BY <2>2, <2>4
    <2>6. s = Append(u, s[n + 1])
        <3> DEFINE v == Append(u, s[n + 1])
        <3>0. \A y \in T : \A q \in Seq(T) :
                 /\ Append(q, y) \in Seq(T) /\ Len(Append(q, y)) = Len(q) + 1
                 /\ Append(q, y)[Len(q) + 1] = y /\ \A i \in 1 .. Len(q) : Append(q, y)[i] = q[i]
            OBVIOUS
        <3>1. v \in Seq(T) /\ Len(v) = n + 1 /\ v[n + 1] = s[n + 1] /\ \A i \in 1 .. n : v[i] = u[i]
            BY <2>2, <2>3, <3>0
        <3> HIDE DEF v
        <3>2. \A i \in 1 .. n + 1 : i \in 1 .. n \/ i = n + 1
            BY <2>1
        <3>3. \A i \in 1 .. n + 1 : s[i] = v[i]
            BY <2>3, <3>1, <3>2
        <3>4. s = v
            BY <3>1, <3>3, SeqEqual
        <3> QED
            BY <3>4 DEF v
    <2> QED
        BY <2>5, <2>6
<1>3. Q = Nat
    <2> HIDE DEF Q
    <2>1. Q \in SUBSET Nat
        BY DEF Q
    <2> QED
        BY <1>1, <1>2, <2>1, NatSetInduction
<1>4. \A s \in Seq(T) : Len(s) \in Nat
    OBVIOUS
<1> QED
    BY <1>3, <1>4

\* The text q begins with p.
Begins(p, q) == Len(p) <= Len(q) /\ \A i \in 1 .. Len(p) : q[i] = p[i]

\* The beginning of a beginning.
LEMMA BeginsOn ==
    ASSUME NEW T, NEW p \in Seq(T), NEW q \in Seq(T), NEW r \in Seq(T), Begins(p, q), Begins(q, r)
    PROVE  Begins(p, r)
    BY DEF Begins

\* What a decode can be at.
RunState(T) == [text : Seq(T), pending : 0 .. 2]

\* One byte more: the text only grows, and something is there.
LEMMA TakeFacts ==
    ASSUME NEW T, Wide \in T, Replacement \in T, NEW s \in RunState(T), NEW x \in T
    PROVE  Take(s, x) \in RunState(T) /\ Begins(s.text, Take(s, x).text) /\ Take(s, x) # Nothing
<1> DEFINE c == Cut(s)
           p == s.text
           Fine(v) == v \in RunState(T) /\ Begins(p, v.text) /\ v # Nothing
           Longer(q) == q \in Seq(T) /\ Begins(p, q)
<1>1. p \in Seq(T) /\ s.pending \in 0 .. 2
    BY DEF RunState
<1>2. ASSUME NEW q, Longer(q), NEW n \in 0 .. 2, q # <<>> \/ n # 0 PROVE Fine([text |-> q, pending |-> n])
    <2> DEFINE v == [text |-> q, pending |-> n]
    <2>1. v \in RunState(T)
        BY <1>2 DEF RunState
    <2>2. v.text = q /\ v.pending = n /\ Nothing.text = <<>> /\ Nothing.pending = 0
        BY DEF Nothing
    <2> HIDE DEF v
    <2>3. v # Nothing
        BY <1>2, <2>2
    <2> QED
        BY <1>2, <2>1, <2>2, <2>3 DEF v, Fine
<1> HIDE DEF p
<1>3. Longer(p)
    BY <1>1 DEF Begins
<1>4. ASSUME NEW q, Longer(q), NEW y \in T PROVE Longer(Append(q, y)) /\ Append(q, y) # <<>>
    <2> DEFINE v == Append(q, y)
    <2>1. q \in Seq(T) /\ Begins(p, q)
        BY <1>4
    <2>2. v \in Seq(T) /\ Len(v) = Len(q) + 1 /\ Len(q) \in Nat /\ \A i \in 1 .. Len(q) : v[i] = q[i]
        BY <2>1
    <2> HIDE DEF v, Longer
    <2>3. v # <<>>
        BY <2>2
    <2>4. Len(p) <= Len(v)
        BY <1>1, <2>1, <2>2 DEF Begins
    <2>5. \A i \in 1 .. Len(p) : v[i] = p[i]
        BY <1>1, <2>1, <2>2 DEF Begins
    <2> QED
        BY <2>2, <2>3, <2>4, <2>5 DEF v, Longer, Begins
<1>5. c = p \/ c = Append(p, Replacement)
    BY DEF Cut, p
<1> HIDE DEF c, Fine, Longer
<1>6. Longer(c)
    BY <1>3, <1>4, <1>5
<1>7. 0 \in 0 .. 2 /\ 1 \in 0 .. 2 /\ 2 \in 0 .. 2 /\ 1 # 0 /\ 2 # 0
    OBVIOUS
<1>8. \A y \in T : \A q : Longer(q) => Fine([text |-> Append(q, y), pending |-> 0])
    BY <1>2, <1>4, <1>7
<1>9. Fine([text |-> c, pending |-> 1]) /\ Fine([text |-> p, pending |-> 2])
    <2>1. Fine([text |-> c, pending |-> 1])
        BY <1>2, <1>6, <1>7
    <2>2. Fine([text |-> p, pending |-> 2])
        BY <1>2, <1>3, <1>7
    <2> QED
        BY <2>1, <2>2
<1>10. Fine(Take(s, x))
    BY <1>3, <1>6, <1>8, <1>9 DEF Take, c, p
<1> QED
    BY <1>10 DEF Fine, p

\* What was formed before makes no difference to what is formed now.
LEMMA TakeBehind ==
    ASSUME NEW T, Wide \in T, Replacement \in T, NEW s \in RunState(T), NEW p \in Seq(T), NEW x \in T
    PROVE  Take([text |-> p \o s.text, pending |-> s.pending], x)
              = [text |-> p \o Take(s, x).text, pending |-> Take(s, x).pending]
<1> DEFINE q == s.text
           v == [text |-> p \o q, pending |-> s.pending]
<1> SUFFICES Take(v, x) = [text |-> p \o Take(s, x).text, pending |-> Take(s, x).pending]
    OBVIOUS
<1>1. q \in Seq(T) /\ s.pending \in 0 .. 2
    BY DEF RunState
<1>2. \A y \in T : \A r \in Seq(T) : Append(p \o r, y) = p \o Append(r, y) /\ Append(r, y) \in Seq(T)
    OBVIOUS
<1>3. v.text = p \o q /\ v.pending = s.pending
    OBVIOUS
<1> HIDE DEF v, q
<1>4. Cut(v) = p \o Cut(s) /\ Cut(s) \in Seq(T)
    <2>1. Append(p \o q, Replacement) = p \o Append(q, Replacement) /\ Append(q, Replacement) \in Seq(T)
        BY <1>1, <1>2
    <2> QED
        BY <1>1, <1>3, <2>1 DEF Cut, q
<1>5. CASE x = "L"
    BY <1>4, <1>5 DEF Take
<1>6. CASE x # "L" /\ x # "C"
    <2>1. Append(Cut(v), x) = p \o Append(Cut(s), x)
        BY <1>2, <1>4
    <2> QED
        BY <1>6, <2>1 DEF Take
<1>7. CASE x = "C"
    <2>1. Append(v.text, Replacement) = p \o Append(q, Replacement)
          /\ Append(v.text, Wide) = p \o Append(q, Wide)
        BY <1>1, <1>2, <1>3
    <2> QED
        BY <1>1, <1>3, <1>7, <2>1 DEF Take, q
<1> QED
    BY <1>5, <1>6, <1>7

\* Of any bytes: what has the shape of a decode so far, and it only grows.
LEMMA RunType ==
    ASSUME NEW T, Wide \in T, Replacement \in T, NEW b \in Seq(T)
    PROVE  Run(b) \in RunState(T)
<1> DEFINE X == {c \in Seq(T) : Run(c) \in RunState(T)}
<1>1. <<>> \in X
    <2>1. <<>> \in Seq(T) /\ 0 \in 0 .. 2
        OBVIOUS
    <2>2. Nothing \in RunState(T)
        BY <2>1 DEF RunState, Nothing
    <2> QED
        BY <2>1, <2>2, RunEmpty
<1>2. ASSUME NEW c \in X, NEW x \in T PROVE Append(c, x) \in X
    <2>1. Run(Append(c, x)) = Take(Run(c), x)
        BY RunAppend
    <2>2. Take(Run(c), x) \in RunState(T)
        BY TakeFacts
    <2> QED
        BY <2>1, <2>2
<1>3. X = Seq(T)
    <2>1. X \subseteq Seq(T)
        OBVIOUS
    <2> HIDE DEF X
    <2> QED
        BY <1>1, <1>2, <2>1, SeqSetInduction
<1> QED
    BY <1>3

\* More bytes leave the text formed as it is.
LEMMA RunGrows ==
    ASSUME NEW T, Wide \in T, Replacement \in T, NEW a \in Seq(T), NEW b \in Seq(T)
    PROVE  Begins(Run(a).text, Run(a \o b).text)
<1> DEFINE p == Run(a).text
           X == {c \in Seq(T) : Begins(p, Run(a \o c).text)}
<1>1. p \in Seq(T)
    BY RunType DEF RunState
<1>2. <<>> \in X
    <2>1. a \o <<>> = a
        OBVIOUS
    <2> HIDE DEF p
    <2>2. Begins(p, p)
        BY <1>1 DEF Begins
    <2> QED
        BY <2>1, <2>2 DEF p
<1>3. X \subseteq Seq(T)
    OBVIOUS
<1> HIDE DEF X, p
<1>4. ASSUME NEW c \in X, NEW x \in T PROVE Append(c, x) \in X
    <2> DEFINE d == a \o c
               q == Run(d).text
               r == Run(Append(d, x)).text
    <2>1. c \in Seq(T) /\ Begins(p, q)
        BY DEF X
    <2>2. d \in Seq(T) /\ a \o Append(c, x) = Append(d, x) /\ Append(c, x) \in Seq(T) /\ Append(d, x) \in Seq(T)
        BY <2>1
    <2> HIDE DEF d
    <2>3. Run(Append(d, x)) = Take(Run(d), x)
        BY <2>2, RunAppend
    <2>4. Begins(Run(d).text, Take(Run(d), x).text)
        BY <2>2, RunType, TakeFacts
    <2>5. q \in Seq(T) /\ r \in Seq(T)
        BY <2>2, RunType DEF RunState
    <2>6. Begins(q, r)
        BY <2>3, <2>4
    <2> HIDE DEF q, r
    <2>7. Begins(p, r)
        BY <1>1, <2>1, <2>5, <2>6, BeginsOn
    <2> QED
        BY <2>2, <2>7 DEF X, r
<1>5. X = Seq(T)
    BY <1>2, <1>3, <1>4, SeqSetInduction
<1> QED
    BY <1>5 DEF X, p

\* Behind bytes that leave no character open, a decode begins anew.
LEMMA RunBehind ==
    ASSUME NEW T, Wide \in T, Replacement \in T, NEW a \in Seq(T), NEW b \in Seq(T), Run(a).pending = 0
    PROVE  Run(a \o b) = [text |-> Run(a).text \o Run(b).text, pending |-> Run(b).pending]
<1> DEFINE p == Run(a).text
           Joined(c) == [text |-> p \o Run(c).text, pending |-> Run(c).pending]
           X == {c \in Seq(T) : Run(a \o c) = Joined(c)}
<1>1. p \in Seq(T) /\ Run(a) = [text |-> p, pending |-> 0]
    BY RunType DEF RunState
<1>2. <<>> \in X
    <2>1. a \o <<>> = a /\ p \o <<>> = p
        BY <1>1
    <2>2. Run(<<>>).text = <<>> /\ Run(<<>>).pending = 0
        BY RunEmpty DEF Nothing
    <2> QED
        BY <1>1, <2>1, <2>2
<1> HIDE DEF p
<1>3. ASSUME NEW c \in X, NEW x \in T PROVE Append(c, x) \in X
    <2>1. a \o c \in Seq(T) /\ a \o Append(c, x) = Append(a \o c, x) /\ Append(c, x) \in Seq(T)
        OBVIOUS
    <2>2. Run(Append(a \o c, x)) = Take(Run(a \o c), x) /\ Run(Append(c, x)) = Take(Run(c), x)
        BY <2>1, RunAppend
    <2>3. Run(c) \in RunState(T)
        BY RunType
    <2>4. Take(Joined(c), x) = [text |-> p \o Take(Run(c), x).text, pending |-> Take(Run(c), x).pending]
        BY <1>1, <2>3, TakeBehind
    <2>5. Run(a \o c) = Joined(c)
        OBVIOUS
    <2> QED
        BY <2>1, <2>2, <2>4, <2>5
<1>4. X = Seq(T)
    <2>1. X \subseteq Seq(T)
        OBVIOUS
    <2> HIDE DEF X
    <2> QED
        BY <1>2, <1>3, <2>1, SeqSetInduction
<1> QED
    BY <1>4 DEF p

\* Some bytes make some text, if only a broken character.
LEMMA RunSome ==
    ASSUME NEW T, Wide \in T, Replacement \in T, NEW b \in Seq(T), b # <<>>
    PROVE  Run(b) # Nothing
<1> DEFINE X == {c \in Seq(T) : c # <<>> => Run(c) # Nothing}
<1>1. <<>> \in X
    OBVIOUS
<1>2. ASSUME NEW c \in X, NEW x \in T PROVE Append(c, x) \in X
    <2>1. Run(Append(c, x)) = Take(Run(c), x) /\ Append(c, x) \in Seq(T)
        BY RunAppend
    <2>2. Take(Run(c), x) # Nothing
        BY RunType, TakeFacts
    <2> QED
        BY <2>1, <2>2
<1>3. X = Seq(T)
    <2>1. X \subseteq Seq(T)
        OBVIOUS
    <2> HIDE DEF X
    <2> QED
        BY <1>1, <1>2, <2>1, SeqSetInduction
<1> QED
    BY <1>3

-----------------------------------------------------------------------------
(* What the tokens spell.                                                  *)

\* The next step of joining texts, its recursion as a function.
FlatStep(ss, g, n) == IF n = 1 THEN ss[n] ELSE g[n - 1] \o ss[n]

\* The recursion behind FlattenSeq has a solution: up to n + 1 from up to n.
LEMMA FlatExists ==
    ASSUME NEW ss, NEW m \in Nat
    PROVE  \E g : g = [n \in 1 .. m |-> FlatStep(ss, g, n)]
<1> DEFINE Q == {k \in Nat : \E g : g = [n \in 1 .. k |-> FlatStep(ss, g, n)]}
<1>1. 0 \in Q
    <2> DEFINE g == [n \in 1 .. 0 |-> <<>>]
    <2>1. g = [n \in 1 .. 0 |-> FlatStep(ss, g, n)]
        OBVIOUS
    <2> QED
        BY <2>1
<1>2. ASSUME NEW k \in Q PROVE k + 1 \in Q
    <2>1. PICK g : g = [n \in 1 .. k |-> FlatStep(ss, g, n)]
        OBVIOUS
    <2> DEFINE h == [n \in 1 .. k + 1 |-> FlatStep(ss, g, n)]
    <2>2. ASSUME NEW n \in 1 .. k + 1 PROVE FlatStep(ss, g, n) = FlatStep(ss, h, n)
        <3>1. CASE n = 1
            BY <3>1 DEF FlatStep
        <3>2. CASE n # 1
            <4>1. n - 1 \in 1 .. k /\ n - 1 \in 1 .. k + 1
                BY <3>2
            <4>2. g[n - 1] = h[n - 1]
                BY <2>1, <4>1
            <4> QED
                BY <3>2, <4>2 DEF FlatStep
        <3> QED
            BY <3>1, <3>2
    <2>3. h = [n \in 1 .. k + 1 |-> FlatStep(ss, h, n)]
        BY <2>2
    <2> HIDE DEF h
    <2>4. k + 1 \in Nat
        OBVIOUS
    <2> QED
        BY <2>3, <2>4
<1>3. Q = Nat
    <2> HIDE DEF Q
    <2>1. Q \in SUBSET Nat
        BY DEF Q
    <2> QED
        BY <1>1, <1>2, <2>1, NatSetInduction
<1> QED
    BY <1>3

\* FlattenSeq is the last value of that recursion.
LEMMA FlatRecursion ==
    ASSUME NEW T, NEW ss \in Seq(T), Len(ss) # 0
    PROVE  \E g : FlattenSeq(ss) = g[Len(ss)] /\ g = [n \in 1 .. Len(ss) |-> FlatStep(ss, g, n)]
<1> DEFINE m == Len(ss)
           g == CHOOSE g : g = [n \in 1 .. m |-> IF n = 1 THEN ss[n] ELSE g[n - 1] \o ss[n]]
<1>1. m \in Nat
    OBVIOUS
<1>2. FlattenSeq(ss) = g[m]
    BY DEF FlattenSeq
<1>3. g = [n \in 1 .. m |-> FlatStep(ss, g, n)]
    <2>1. PICK h : h = [n \in 1 .. m |-> FlatStep(ss, h, n)]
        BY <1>1, FlatExists
    <2>2. h = [n \in 1 .. m |-> IF n = 1 THEN ss[n] ELSE h[n - 1] \o ss[n]]
        BY <2>1 DEF FlatStep
    <2>3. g = [n \in 1 .. m |-> IF n = 1 THEN ss[n] ELSE g[n - 1] \o ss[n]]
        BY <2>2
    <2> QED
        BY <2>3 DEF FlatStep
<1> HIDE DEF g
<1> QED
    BY <1>2, <1>3

\* No texts, joined.
LEMMA FlatEmpty == FlattenSeq(<<>>) = <<>>
    BY DEF FlattenSeq

\* Flattening a sequence that grew at its end.
LEMMA FlatAppend ==
    ASSUME NEW T, NEW ss \in Seq(Seq(T)), NEW x \in Seq(T)
    PROVE  FlattenSeq(Append(ss, x)) = FlattenSeq(ss) \o x
<1> DEFINE m == Len(ss)
           t == Append(ss, x)
<1>1. /\ m \in Nat /\ t \in Seq(Seq(T)) /\ Len(t) = m + 1 /\ t[m + 1] = x /\ Len(t) # 0
      /\ \A i \in 1 .. m : t[i] = ss[i]
    OBVIOUS
<1> HIDE DEF t
<1>2. PICK h : FlattenSeq(t) = h[m + 1] /\ h = [n \in 1 .. m + 1 |-> FlatStep(t, h, n)]
    BY <1>1, FlatRecursion
<1>3. h[m + 1] = FlatStep(t, h, m + 1)
    <2>1. m + 1 \in 1 .. m + 1
        BY <1>1
    <2> QED
        BY <1>2, <2>1
<1>4. CASE m = 0
    <2>1. ss = <<>> /\ <<>> \o x = x
        BY <1>4
    <2>2. h[m + 1] = x
        BY <1>1, <1>3, <1>4 DEF FlatStep
    <2>3. FlattenSeq(ss) = <<>>
        BY <2>1, FlatEmpty
    <2> QED
        BY <1>2, <2>1, <2>2, <2>3 DEF t
<1>5. CASE m # 0
    <2>1. PICK g : FlattenSeq(ss) = g[m] /\ g = [n \in 1 .. m |-> FlatStep(ss, g, n)]
        BY <1>5, FlatRecursion
    <2> HIDE DEF m
    <2> DEFINE Q == {n \in Nat : n \in 1 .. m => g[n] = h[n]}
    <2>2. 0 \in Q
        OBVIOUS
    <2>3. ASSUME NEW n \in Q PROVE n + 1 \in Q
        <3> SUFFICES ASSUME n + 1 \in 1 .. m PROVE g[n + 1] = h[n + 1]
            OBVIOUS
        <3>1. n \in Nat /\ n + 1 \in 1 .. m + 1 /\ (n + 1) - 1 = n /\ (n + 1 # 1 => n \in 1 .. m)
            BY <1>1
        <3>2. t[n + 1] = ss[n + 1]
            BY <1>1
        <3>3. g[n + 1] = FlatStep(ss, g, n + 1)
            BY <2>1
        <3>4. h[n + 1] = FlatStep(t, h, n + 1)
            BY <1>2, <3>1
        <3>5. n + 1 # 1 => g[n] = h[n]
            BY <3>1
        <3> QED
            BY <3>1, <3>2, <3>3, <3>4, <3>5 DEF FlatStep
    <2>4. Q = Nat
        <3> HIDE DEF Q
        <3>1. Q \in SUBSET Nat
            BY DEF Q
        <3> QED
            BY <2>2, <2>3, <3>1, NatSetInduction
    <2>5. g[m] = h[m]
        BY <1>1, <1>5, <2>4
    <2>6. m + 1 # 1 /\ (m + 1) - 1 = m
        <3>1. m \in Nat
            BY <1>1
        <3> QED
            BY <1>5, <3>1
    <2>7. h[m + 1] = h[m] \o x
        BY <1>1, <1>3, <2>6 DEF FlatStep
    <2> QED
        BY <1>2, <2>1, <2>5, <2>7 DEF t
<1> QED
    BY <1>4, <1>5

\* Texts of the same characters, joined.
LEMMA FlatType ==
    ASSUME NEW T, NEW ss \in Seq(Seq(T))
    PROVE  FlattenSeq(ss) \in Seq(T)
<1> DEFINE X == {s \in Seq(Seq(T)) : FlattenSeq(s) \in Seq(T)}
<1>1. <<>> \in X
    <2>1. <<>> \in Seq(Seq(T)) /\ <<>> \in Seq(T)
        OBVIOUS
    <2> QED
        BY <2>1, FlatEmpty
<1>2. ASSUME NEW s \in X, NEW x \in Seq(T) PROVE Append(s, x) \in X
    <2>1. FlattenSeq(Append(s, x)) = FlattenSeq(s) \o x
        BY FlatAppend
    <2>2. s \in Seq(Seq(T)) /\ FlattenSeq(s) \in Seq(T)
        OBVIOUS
    <2>3. FlattenSeq(s) \o x \in Seq(T) /\ Append(s, x) \in Seq(Seq(T))
        BY <2>2
    <2> QED
        BY <2>1, <2>3
<1>3. X = Seq(Seq(T))
    <2>1. X \subseteq Seq(Seq(T))
        OBVIOUS
    <2> HIDE DEF X
    <2> QED
        BY <1>1, <1>2, <2>1, SeqSetInduction
<1> QED
    BY <1>3

\* What a token spells is made of characters.
LEMMA BytesFacts ==
    \A t \in Token : Bytes[t] \in Seq(Character)
<1> SUFFICES ASSUME NEW t \in Token PROVE Bytes[t] \in Seq(Character)
    OBVIOUS
<1>1. Bytes[t] \in Seq(STRING)
    BY DecodeAssumption
<1>2. Bytes[t] \in Seq(Range(Bytes[t]))
    <2>1. ASSUME NEW b \in Seq(STRING) PROVE b \in Seq(Range(b))
        BY DEF Range
    <2> QED
        BY <1>1, <2>1
<1>3. Range(Bytes[t]) \subseteq Character
    BY DEF Character
<1> QED
    BY <1>2, <1>3

\* No token spells nothing.
LEMMA SpelledEmpty == Spelled(<<>>) = <<>>
<1>1. [i \in DOMAIN <<>> |-> Bytes[<<>>[i]]] = <<>>
    OBVIOUS
<1> QED
    BY <1>1, FlatEmpty DEF Spelled

\* One token more spells its bytes more.
LEMMA SpelledAppend ==
    ASSUME NEW ids \in Seq(Token), NEW tok \in Token
    PROVE  Spelled(Append(ids, tok)) = Spelled(ids) \o Bytes[tok]
<1> DEFINE n == Len(ids)
           ss == [i \in DOMAIN ids |-> Bytes[ids[i]]]
           grown == Append(ids, tok)
           tt == [i \in DOMAIN grown |-> Bytes[grown[i]]]
           b == Bytes[tok]
<1>1. /\ n \in Nat /\ DOMAIN ids = 1 .. n /\ DOMAIN grown = 1 .. n + 1 /\ grown[n + 1] = tok
      /\ \A i \in 1 .. n : grown[i] = ids[i] /\ ids[i] \in Token
    OBVIOUS
<1> HIDE DEF n, grown
<1>2. b \in Seq(Character) /\ \A i \in 1 .. n : Bytes[ids[i]] \in Seq(Character)
    BY <1>1, BytesFacts
<1> HIDE DEF b
<1>3. ss \in Seq(Seq(Character)) /\ Len(ss) = n /\ \A i \in 1 .. n : ss[i] = Bytes[ids[i]]
    BY <1>1, <1>2, IsASeq
<1>4. tt = Append(ss, b)
    <2> DEFINE u == Append(ss, b)
    <2>1. u \in Seq(Seq(Character)) /\ Len(u) = n + 1 /\ u[n + 1] = b /\ \A i \in 1 .. n : u[i] = ss[i]
        BY <1>1, <1>2, <1>3, AppendProperties
    <2>2. DOMAIN tt = 1 .. n + 1 /\ tt[n + 1] = b /\ \A i \in 1 .. n : tt[i] = Bytes[ids[i]]
        BY <1>1 DEF b
    <2>3. \A i \in 1 .. n + 1 : i \in 1 .. n \/ i = n + 1
        BY <1>1
    <2>4. DOMAIN u = 1 .. n + 1
        BY <2>1
    <2> HIDE DEF u, ss
    <2>5. \A i \in 1 .. n + 1 : tt[i] = u[i]
        BY <1>3, <2>1, <2>2, <2>3
    <2>6. u = [i \in 1 .. n + 1 |-> u[i]]
        BY <2>1, <2>4
    <2>7. tt = [i \in 1 .. n + 1 |-> tt[i]]
        BY <2>2
    <2> QED
        BY <2>5, <2>6, <2>7 DEF u
<1> HIDE DEF ss, tt
<1>5. FlattenSeq(Append(ss, b)) = FlattenSeq(ss) \o b
    BY <1>2, <1>3, FlatAppend
<1> QED
    BY <1>4, <1>5 DEF Spelled, ss, tt, grown, b

\* What tokens spell is made of characters.
LEMMA SpelledType ==
    ASSUME NEW ids \in Seq(Token)
    PROVE  Spelled(ids) \in Seq(Character)
<1> DEFINE X == {s \in Seq(Token) : Spelled(s) \in Seq(Character)}
<1>1. <<>> \in X
    <2>1. <<>> \in Seq(Token) /\ <<>> \in Seq(Character)
        OBVIOUS
    <2> QED
        BY <2>1, SpelledEmpty
<1>2. ASSUME NEW s \in X, NEW x \in Token PROVE Append(s, x) \in X
    <2>1. Spelled(Append(s, x)) = Spelled(s) \o Bytes[x]
        BY SpelledAppend
    <2>2. Spelled(s) \o Bytes[x] \in Seq(Character) /\ Append(s, x) \in Seq(Token)
        BY BytesFacts
    <2> QED
        BY <2>1, <2>2
<1>3. X = Seq(Token)
    <2>1. X \subseteq Seq(Token)
        OBVIOUS
    <2> HIDE DEF X
    <2> QED
        BY <1>1, <1>2, <2>1, SeqSetInduction
<1> QED
    BY <1>3

\* Tokens spell in their order.
LEMMA SpelledConcat ==
    ASSUME NEW p \in Seq(Token), NEW q \in Seq(Token)
    PROVE  Spelled(p \o q) = Spelled(p) \o Spelled(q)
<1> DEFINE X == {s \in Seq(Token) : Spelled(p \o s) = Spelled(p) \o Spelled(s)}
<1>1. <<>> \in X
    <2>1. Spelled(p) \in Seq(Character)
        BY SpelledType
    <2>2. \A b \in Seq(Character) : b \o <<>> = b
        OBVIOUS
    <2>3. p \o <<>> = p /\ <<>> \in Seq(Token) /\ Spelled(p) \o <<>> = Spelled(p)
        BY <2>1, <2>2
    <2> QED
        BY <2>3, SpelledEmpty
<1>2. X \subseteq Seq(Token)
    OBVIOUS
<1> HIDE DEF X
<1>3. ASSUME NEW s \in X, NEW x \in Token PROVE Append(s, x) \in X
    <2>1. s \in Seq(Token) /\ Spelled(p \o s) = Spelled(p) \o Spelled(s)
        BY DEF X
    <2>2. p \o s \in Seq(Token) /\ p \o Append(s, x) = Append(p \o s, x) /\ Append(s, x) \in Seq(Token)
        BY <2>1
    <2>3. Spelled(Append(p \o s, x)) = Spelled(p \o s) \o Bytes[x] /\ Spelled(Append(s, x)) = Spelled(s) \o Bytes[x]
        BY <2>1, <2>2, SpelledAppend
    <2> DEFINE a == Spelled(p)
               b == Spelled(s)
               c == Bytes[x]
    <2>4. a \in Seq(Character) /\ b \in Seq(Character) /\ c \in Seq(Character)
        BY <2>1, SpelledType, BytesFacts
    <2> HIDE DEF a, b, c
    <2>5. (a \o b) \o c = a \o (b \o c)
        BY <2>4, ConcatAssociative
    <2>6. Spelled(p \o Append(s, x)) = Spelled(p) \o Spelled(Append(s, x))
        BY <2>1, <2>2, <2>3, <2>5 DEF a, b, c
    <2> QED
        BY <2>2, <2>6 DEF X
<1>4. X = Seq(Token)
    BY <1>1, <1>2, <1>3, SeqSetInduction
<1> QED
    BY <1>4 DEF X

\* What begins with something is something.
LEMMA SpelledSome ==
    ASSUME NEW ids \in Seq(Token), ids # <<>>, Bytes[ids[1]] # <<>>
    PROVE  Spelled(ids) # <<>>
<1> DEFINE X == {s \in Seq(Token) : s # <<>> /\ Bytes[s[1]] # <<>> => Spelled(s) # <<>>}
<1>1. <<>> \in X /\ X \subseteq Seq(Token)
    OBVIOUS
<1> HIDE DEF X
<1>2. ASSUME NEW s \in X, NEW x \in Token PROVE Append(s, x) \in X
    <2>1. s \in Seq(Token) /\ (s # <<>> /\ Bytes[s[1]] # <<>> => Spelled(s) # <<>>)
        BY DEF X
    <2>2. /\ Append(s, x) \in Seq(Token)
          /\ s # <<>> => Append(s, x)[1] = s[1]
          /\ s = <<>> => Append(s, x)[1] = x
        BY <2>1
    <2>3. Spelled(Append(s, x)) = Spelled(s) \o Bytes[x] /\ Spelled(s) \in Seq(Character) /\ Bytes[x] \in Seq(Character)
        BY <2>1, SpelledAppend, SpelledType, BytesFacts
    <2>4. (Spelled(s) # <<>> \/ Bytes[x] # <<>>) => Spelled(Append(s, x)) # <<>>
        BY <2>3, ConcatEqualIffEmpty
    <2> QED
        BY <2>1, <2>2, <2>4 DEF X
<1>3. X = Seq(Token)
    BY <1>1, <1>2, SeqSetInduction
<1> QED
    BY <1>3 DEF X

-----------------------------------------------------------------------------
(* Texts that end broken.                                                  *)

\* A text without the U+FFFD it ends in.
Trim(text) == SubSeq(text, 1, TrimmedLen(text))

\* What is left of it, and what is not.
LEMMA TrimFacts ==
    ASSUME NEW T, NEW t \in Seq(T), NEW n, n = TrimmedLen(t)
    PROVE  /\ n \in 0 .. Len(t) /\ (n = 0 \/ t[n] # Replacement)
           /\ \A i \in n + 1 .. Len(t) : t[i] = Replacement
           /\ Trim(t) \in Seq(T) /\ Len(Trim(t)) = n /\ \A i \in 1 .. n : Trim(t)[i] = t[i]
<1> DEFINE m == Len(t)
           S == {k \in 0 .. m : k = 0 \/ t[k] # Replacement}
<1>1. m \in Nat /\ S \in SUBSET (0 .. m) /\ 0 \in S
    OBVIOUS
<1>2. n \in S /\ \A k \in S : k <= n
    <2> HIDE DEF S
    <2>1. S # {} /\ n = Max(S)
        BY <1>1 DEF TrimmedLen, S
    <2> QED
        BY <1>1, <2>1, MaxFacts
<1>3. ASSUME NEW i \in n + 1 .. m PROVE t[i] = Replacement
    <2>1. i \in 0 .. m /\ ~(i <= n)
        BY <1>1, <1>2
    <2> QED
        BY <1>2, <2>1
<1>4. n \in 0 .. m /\ Trim(t) = SubSeq(t, 1, n)
    BY <1>2 DEF Trim
<1>5. SubSeq(t, 1, n) \in Seq(T) /\ Len(SubSeq(t, 1, n)) = n /\ \A i \in 1 .. n : SubSeq(t, 1, n)[i] = t[i]
    BY <1>4
<1> QED
    BY <1>2, <1>3, <1>4, <1>5

\* How much is left is the one position with these two facts.
LEMMA TrimIs ==
    ASSUME NEW T, NEW t \in Seq(T), NEW n \in 0 .. Len(t), n = 0 \/ t[n] # Replacement,
           \A i \in n + 1 .. Len(t) : t[i] = Replacement
    PROVE  TrimmedLen(t) = n
<1> DEFINE k == TrimmedLen(t)
<1>1. k \in 0 .. Len(t) /\ (k = 0 \/ t[k] # Replacement) /\ \A i \in k + 1 .. Len(t) : t[i] = Replacement
    BY TrimFacts
<1> HIDE DEF k
<1>2. ~(k < n)
    <2> SUFFICES ASSUME k < n PROVE FALSE
        OBVIOUS
    <2>1. n \in k + 1 .. Len(t)
        BY <1>1
    <2> QED
        BY <1>1, <2>1
<1>3. ~(n < k)
    <2> SUFFICES ASSUME n < k PROVE FALSE
        OBVIOUS
    <2>1. k \in n + 1 .. Len(t)
        BY <1>1
    <2> QED
        BY <1>1, <2>1
<1> QED
    BY <1>1, <1>2, <1>3 DEF k

\* What a text has before its broken end, a longer one has before its own.
LEMMA TrimGrows ==
    ASSUME NEW T, NEW t \in Seq(T), NEW u \in Seq(T), Begins(Trim(t), u)
    PROVE  TrimmedLen(t) <= TrimmedLen(u) /\ Begins(Trim(t), Trim(u))
<1> DEFINE n == TrimmedLen(t)
           m == TrimmedLen(u)
<1>1. /\ n \in 0 .. Len(t) /\ (n = 0 \/ t[n] # Replacement)
      /\ Len(Trim(t)) = n /\ \A i \in 1 .. n : Trim(t)[i] = t[i]
    BY TrimFacts
<1>2. /\ m \in 0 .. Len(u) /\ \A i \in m + 1 .. Len(u) : u[i] = Replacement
      /\ Len(Trim(u)) = m /\ \A i \in 1 .. m : Trim(u)[i] = u[i]
    BY TrimFacts
<1> HIDE DEF n, m
<1>3. n <= Len(u) /\ \A i \in 1 .. n : u[i] = t[i]
    BY <1>1 DEF Begins
<1>4. ~(m < n)
    <2> SUFFICES ASSUME m < n PROVE FALSE
        OBVIOUS
    <2>1. n \in m + 1 .. Len(u) /\ n \in 1 .. n /\ n # 0
        BY <1>1, <1>2, <1>3
    <2> QED
        BY <1>1, <1>2, <1>3, <2>1
<1>5. n <= m
    BY <1>1, <1>2, <1>4
<1> QED
    BY <1>1, <1>2, <1>3, <1>5 DEF Begins, n, m

\* A text that does not end in U+FFFD is left as it is.
LEMMA BrokenIs ==
    ASSUME NEW T, NEW t \in Seq(T)
    PROVE  /\ EndsBroken(t) <=> TrimmedLen(t) # Len(t)
           /\ ~EndsBroken(t) => Trim(t) = t
<1>1. TrimmedLen(t) \in 0 .. Len(t) /\ (TrimmedLen(t) = 0 \/ t[TrimmedLen(t)] # Replacement)
      /\ \A i \in TrimmedLen(t) + 1 .. Len(t) : t[i] = Replacement
    BY TrimFacts
<1>2. t = <<>> <=> Len(t) = 0
    OBVIOUS
<1>3. EndsBroken(t) <=> TrimmedLen(t) # Len(t)
    BY <1>1, <1>2 DEF EndsBroken, Last
<1>4. SubSeq(t, 1, Len(t)) = t
    OBVIOUS
<1> QED
    BY <1>3, <1>4 DEF Trim

\* A text without its first character.
LEMMA TailFacts ==
    ASSUME NEW T, NEW t \in Seq(T), t # <<>>
    PROVE  /\ Len(t) \in Nat /\ Len(t) >= 1
           /\ Tail(t) \in Seq(T) /\ Len(Tail(t)) = Len(t) - 1
           /\ \A i \in 1 .. Len(t) - 1 : Tail(t)[i] = t[i + 1]
    OBVIOUS

\* Without its leading space a text is as broken, and as much the beginning of another.
LEMMA StripFacts ==
    ASSUME NEW T, NEW t \in Seq(T)
    PROVE  /\ Strip(t) \in Seq(T)
           /\ EndsBroken(Strip(t)) <=> EndsBroken(t)
<1>1. CASE Strip(t) = t
    BY <1>1
<1>2. CASE Strip(t) # t
    <2>1. t # <<>> /\ t[1] = " " /\ Strip(t) = Tail(t)
        BY <1>2 DEF Strip
    <2> DEFINE u == Tail(t)
    <2>2. /\ Len(t) \in Nat /\ Len(t) >= 1 /\ u \in Seq(T) /\ Len(u) = Len(t) - 1
          /\ \A i \in 1 .. Len(t) - 1 : u[i] = t[i + 1]
        BY <2>1, TailFacts
    <2> HIDE DEF u
    <2>3. CASE Len(t) = 1
        <3>1. u = <<>> /\ Last(t) = " "
            <4>1. Len(u) = 0 /\ u \in Seq(T)
                BY <2>2, <2>3
            <4>2. u = <<>>
                BY <4>1, EmptySeq
            <4> QED
                BY <2>1, <2>3, <4>2 DEF Last
        <3>2. " " # Replacement
            BY DEF Replacement
        <3> QED
            BY <2>1, <2>2, <3>1, <3>2 DEF EndsBroken, u
    <2>4. CASE Len(t) # 1
        <3>1. Len(t) - 1 \in 1 .. Len(t) - 1 /\ (Len(t) - 1) + 1 = Len(t) /\ u # <<>>
            BY <2>2, <2>4
        <3>2. u[Len(t) - 1] = t[Len(t)]
            BY <2>2, <3>1
        <3>3. Last(u) = Last(t)
            BY <2>2, <3>2 DEF Last
        <3> QED
            BY <2>1, <2>2, <3>1, <3>3 DEF EndsBroken, u
    <2> QED
        BY <2>3, <2>4
<1> QED
    BY <1>1, <1>2

\* Stripping the first space keeps one text the beginning of another.
LEMMA StripBegins ==
    ASSUME NEW T, NEW t \in Seq(T), NEW u \in Seq(T), Begins(Trim(t), u)
    PROVE  Begins(Trim(Strip(t)), Strip(u))
<1> DEFINE n == TrimmedLen(t)
<1>1. /\ n \in 0 .. Len(t) /\ (n = 0 \/ t[n] # Replacement) /\ (\A i \in n + 1 .. Len(t) : t[i] = Replacement)
      /\ Len(Trim(t)) = n /\ \A i \in 1 .. n : Trim(t)[i] = t[i]
    BY TrimFacts
<1> HIDE DEF n
<1>2. n <= Len(u) /\ \A i \in 1 .. n : u[i] = t[i]
    BY <1>1 DEF Begins
<1>3. " " # Replacement
    BY DEF Replacement
<1>4. CASE n = 0
    <2>1. Strip(t) = t
        <3>1. t # <<>> => 1 \in n + 1 .. Len(t)
            BY <1>4
        <3> QED
            BY <1>1, <1>3, <3>1 DEF Strip
    <2>2. Strip(u) \in Seq(T) /\ Len(Strip(u)) \in Nat
        BY StripFacts
    <2> QED
        BY <1>1, <1>4, <2>1, <2>2 DEF Begins
<1>5. CASE n # 0
    <2>1. t # <<>> /\ u # <<>> /\ t[1] = u[1]
        BY <1>1, <1>2, <1>5
    <2>2. CASE StripsLeadingSpace /\ t[1] = " "
        <3>1. Strip(t) = Tail(t) /\ Strip(u) = Tail(u)
            BY <2>1, <2>2 DEF Strip
        <3>2. Tail(t) \in Seq(T) /\ Len(Tail(t)) = Len(t) - 1 /\ \A i \in 1 .. Len(t) - 1 : Tail(t)[i] = t[i + 1]
            BY <2>1
        <3>3. Tail(u) \in Seq(T) /\ Len(Tail(u)) = Len(u) - 1 /\ \A i \in 1 .. Len(u) - 1 : Tail(u)[i] = u[i + 1]
            BY <2>1
        <3> DEFINE k == n - 1
                   tt == Tail(t)
                   uu == Tail(u)
        <3>4. k \in Nat /\ k + 1 = n
            BY <1>1, <1>5
        <3> HIDE DEF k, tt, uu
        <3>5. k \in 0 .. Len(tt) /\ (k = 0 \/ tt[k] # Replacement) /\ \A i \in k + 1 .. Len(tt) : tt[i] = Replacement
            BY <1>1, <3>2, <3>4 DEF tt
        <3>6. TrimmedLen(tt) = k
            BY <3>2, <3>5, TrimIs DEF tt
        <3>7. Len(Trim(tt)) = k /\ \A i \in 1 .. k : Trim(tt)[i] = tt[i]
            <4>1. tt \in Seq(T)
                BY <3>2 DEF tt
            <4> QED
                BY <3>6, <4>1, TrimFacts
        <3>8. k <= Len(uu) /\ \A i \in 1 .. k : uu[i] = tt[i]
            BY <1>1, <1>2, <3>2, <3>3, <3>4 DEF tt, uu
        <3> QED
            BY <3>1, <3>7, <3>8 DEF Begins, tt, uu
    <2>3. CASE ~(StripsLeadingSpace /\ t[1] = " ")
        <3>1. Strip(t) = t /\ Strip(u) = u
            BY <2>1, <2>3 DEF Strip
        <3> QED
            BY <3>1
    <2> QED
        BY <2>2, <2>3
<1> QED
    BY <1>4, <1>5

-----------------------------------------------------------------------------
(* One decode of some bytes, and of more.                                  *)

\* The text of a decode: what was formed, and U+FFFD for what waits.
LEMMA LossyFacts ==
    ASSUME NEW T, Wide \in T, Replacement \in T, NEW b \in Seq(T)
    PROVE  /\ Lossy(b) \in Seq(T)
           /\ Run(b).text \in Seq(T) /\ Begins(Run(b).text, Lossy(b)) /\ Begins(Trim(Lossy(b)), Run(b).text)
           /\ ~EndsBroken(Lossy(b)) => Run(b).pending = 0
           /\ Run(b).pending = 0 => Lossy(b) = Run(b).text
           /\ b # <<>> => Lossy(b) # <<>>
<1> DEFINE p == Run(b).text
           n == Run(b).pending
           t == Lossy(b)
<1>1. p \in Seq(T) /\ n \in 0 .. 2
    BY RunType DEF RunState
<1>2. t = IF n > 0 THEN Append(p, Replacement) ELSE p
    BY DEF Lossy, Cut
<1>3. b # <<>> => p # <<>> \/ n # 0
    <2>1. b # <<>> => Run(b) # Nothing
        BY RunSome
    <2>2. Run(b) = [text |-> p, pending |-> n]
        BY RunType DEF RunState
    <2> QED
        BY <2>1, <2>2 DEF Nothing
<1> HIDE DEF p, n, t
<1>4. CASE n = 0
    <2>1. t = p /\ t \in Seq(T)
        BY <1>1, <1>2, <1>4
    <2>2. Begins(p, p)
        BY <1>1 DEF Begins
    <2>3. Begins(Trim(p), p)
        <3>1. TrimmedLen(p) \in 0 .. Len(p) /\ Len(Trim(p)) = TrimmedLen(p)
              /\ \A i \in 1 .. TrimmedLen(p) : Trim(p)[i] = p[i]
            BY <1>1, TrimFacts
        <3> QED
            BY <1>1, <3>1 DEF Begins
    <2>4. t \in Seq(T) /\ p \in Seq(T) /\ Begins(p, t) /\ Begins(Trim(t), p) /\ (b # <<>> => t # <<>>)
        BY <1>1, <1>3, <1>4, <2>1, <2>2, <2>3
    <2> QED
        BY <1>4, <2>1, <2>4 DEF p, n, t
<1>5. CASE n # 0
    <2>1. t = Append(p, Replacement)
        BY <1>1, <1>2, <1>5
    <2>2. /\ t \in Seq(T) /\ Len(t) = Len(p) + 1 /\ Len(p) \in Nat /\ t[Len(p) + 1] = Replacement
          /\ \A i \in 1 .. Len(p) : t[i] = p[i]
        BY <1>1, <2>1, AppendProperties
    <2>3. t # <<>> /\ EndsBroken(t)
        BY <2>2 DEF EndsBroken, Last
    <2>4. Begins(p, t)
        BY <2>2 DEF Begins
    <2>5. Begins(Trim(t), p)
        <3> DEFINE k == TrimmedLen(t)
        <3>1. /\ k \in 0 .. Len(t) /\ (k = 0 \/ t[k] # Replacement) /\ Len(Trim(t)) = k
              /\ \A i \in 1 .. k : Trim(t)[i] = t[i]
            <4>1. t \in Seq(T)
                BY <2>2
            <4> QED
                BY <4>1, TrimFacts
        <3> HIDE DEF k
        <3>2. k <= Len(p)
            BY <2>2, <3>1
        <3> QED
            BY <2>2, <3>1, <3>2 DEF Begins
    <2> QED
        BY <1>1, <1>5, <2>2, <2>3, <2>4, <2>5 DEF p, n, t
<1> QED
    BY <1>4, <1>5

\* Nothing decodes to nothing.
LEMMA LossyEmpty == Lossy(<<>>) = <<>>
    BY RunEmpty DEF Lossy, Cut, Nothing

\* What was formed before stays in front.
LEMMA CutBehind ==
    ASSUME NEW T, Replacement \in T, NEW p \in Seq(T), NEW q \in Seq(T), NEW n
    PROVE  Cut([text |-> p \o q, pending |-> n]) = p \o Cut([text |-> q, pending |-> n])
<1>1. Append(p \o q, Replacement) = p \o Append(q, Replacement)
    OBVIOUS
<1> QED
    BY <1>1 DEF Cut

\* Behind a text that ends whole, a decode begins anew.
LEMMA LossyBehind ==
    ASSUME NEW T, Wide \in T, Replacement \in T, NEW a \in Seq(T), NEW b \in Seq(T), ~EndsBroken(Lossy(a))
    PROVE  Lossy(a \o b) = Lossy(a) \o Lossy(b)
<1> DEFINE p == Run(a).text
           q == Run(b).text
           n == Run(b).pending
<1>1. Run(a).pending = 0 /\ Lossy(a) = p /\ p \in Seq(T)
    BY LossyFacts
<1>2. q \in Seq(T) /\ Run(b) = [text |-> q, pending |-> n]
    BY RunType DEF RunState
<1>3. Run(a \o b) = [text |-> p \o q, pending |-> n]
    BY <1>1, RunBehind
<1> HIDE DEF p, q, n
<1>4. Cut([text |-> p \o q, pending |-> n]) = p \o Cut([text |-> q, pending |-> n])
    BY <1>1, <1>2, CutBehind
<1> QED
    BY <1>1, <1>2, <1>3, <1>4 DEF Lossy

\* What came before the broken end stays.
LEMMA LossyGrows ==
    ASSUME NEW T, Wide \in T, Replacement \in T, NEW a \in Seq(T), NEW b \in Seq(T)
    PROVE  Begins(Trim(Lossy(a)), Lossy(a \o b))
<1> DEFINE t == Trim(Lossy(a))
           p == Run(a).text
           q == Run(a \o b).text
           u == Lossy(a \o b)
<1>1. a \o b \in Seq(T)
    OBVIOUS
<1>2. p \in Seq(T) /\ Lossy(a) \in Seq(T) /\ Begins(t, p)
    BY LossyFacts
<1>3. t \in Seq(T)
    BY <1>2, TrimFacts
<1>4. q \in Seq(T) /\ u \in Seq(T) /\ Begins(q, u)
    BY <1>1, LossyFacts
<1>5. Begins(p, q)
    BY RunGrows
<1> HIDE DEF t, p, q, u
<1>6. Begins(p, u)
    BY <1>2, <1>4, <1>5, BeginsOn
<1>7. Begins(t, u)
    BY <1>2, <1>3, <1>4, <1>6, BeginsOn
<1> QED
    BY <1>7 DEF t, u

-----------------------------------------------------------------------------
(* One decode of some tokens, and of more.                                 *)

\* A decode is a text, and stripping it breaks and heals no end.
LEMMA DecodeFacts ==
    ASSUME NEW ids \in Seq(Token)
    PROVE  /\ Lossy(Spelled(ids)) \in Seq(Character) /\ Decode(ids) \in Seq(Character)
           /\ EndsBroken(Decode(ids)) <=> EndsBroken(Lossy(Spelled(ids)))
<1>1. Spelled(ids) \in Seq(Character)
    BY SpelledType
<1>2. Lossy(Spelled(ids)) \in Seq(Character)
    BY <1>1, CharFacts, LossyFacts
<1> QED
    BY <1>2, StripFacts DEF Decode

\* No token decodes to nothing.
LEMMA DecodeEmpty == Decode(<<>>) = <<>>
    BY SpelledEmpty, LossyEmpty DEF Decode, Strip

\* More tokens change nothing of a decode but the U+FFFD at its end.
LEMMA DecodeGrows ==
    ASSUME NEW p \in Seq(Token), NEW q \in Seq(Token)
    PROVE  Begins(Trim(Decode(p)), Decode(p \o q))
<1> DEFINE a == Spelled(p)
           b == Spelled(q)
<1>1. a \in Seq(Character) /\ b \in Seq(Character) /\ Spelled(p \o q) = a \o b
    BY SpelledType, SpelledConcat
<1> HIDE DEF a, b
<1>2. a \o b \in Seq(Character)
    BY <1>1
<1>3. Lossy(a) \in Seq(Character) /\ Lossy(a \o b) \in Seq(Character)
    BY <1>1, <1>2, CharFacts, LossyFacts
<1>4. Begins(Trim(Lossy(a)), Lossy(a \o b))
    BY <1>1, CharFacts, LossyGrows
<1>5. Begins(Trim(Strip(Lossy(a))), Strip(Lossy(a \o b)))
    BY <1>3, <1>4, StripBegins
<1> QED
    BY <1>1, <1>5 DEF Decode, a

\* Behind the neutral token nothing is stripped.
LEMMA Neutral ==
    ASSUME NEW ids \in Seq(Token)
    PROVE  decode_with_neutral_prefix(ids) = Lossy(Spelled(ids))
<1>1. CASE ids = <<>>
    BY <1>1, SpelledEmpty, LossyEmpty DEF decode_with_neutral_prefix
<1>2. CASE ids # <<>>
    <2> DEFINE T == Character \cup {"a"}
               a == <<"a">>
               b == Spelled(ids)
               t == Lossy(b)
    <2>1. Wide \in T /\ Replacement \in T /\ "a" \in T /\ a \in Seq(T) /\ b \in Seq(T)
        BY CharFacts, SpelledType
    <2>2. Run(a) = [text |-> a, pending |-> 0]
        <3>1. a = Append(<<>>, "a") /\ <<>> \in Seq(T)
            OBVIOUS
        <3>2. Run(Append(<<>>, "a")) = Take(Run(<<>>), "a")
            BY <2>1, <3>1, RunAppend
        <3>3. Cut(Nothing) = <<>>
            BY DEF Cut, Nothing
        <3>4. Take(Nothing, "a") = [text |-> Append(<<>>, "a"), pending |-> 0]
            BY <3>3 DEF Take
        <3> QED
            BY <3>1, <3>2, <3>4, RunEmpty
    <2>3. Lossy(a) = a
        BY <2>2 DEF Lossy, Cut
    <2>4. ~EndsBroken(a)
        BY DEF EndsBroken, Last, Replacement
    <2> HIDE DEF T, b, t
    <2>5. t \in Seq(T)
        BY <2>1, LossyFacts DEF t
    <2>6. Lossy(a \o b) = a \o t
        BY <2>1, <2>3, <2>4, LossyBehind DEF t
    <2>7. a \o t # <<>> /\ (a \o t)[1] = "a" /\ Tail(a \o t) = t
        BY <2>5
    <2>8. Strip(a \o t) = a \o t
        BY <2>7 DEF Strip
    <2> QED
        BY <1>2, <2>6, <2>7, <2>8 DEF decode_with_neutral_prefix, b, t
<1> QED
    BY <1>1, <1>2

\* Behind tokens that end whole a decode goes on, once nothing more is stripped.
LEMMA DecodeBehind ==
    ASSUME NEW p \in Seq(Token), NEW q \in Seq(Token), ~EndsBroken(Decode(p)),
           Lossy(Spelled(p)) # <<>> \/ Decode(p \o q) = Lossy(Spelled(p \o q))
    PROVE  Decode(p \o q) = Decode(p) \o Lossy(Spelled(q))
<1> DEFINE t == Lossy(Spelled(p))
           u == Lossy(Spelled(q))
<1>1. Lossy(Spelled(p \o q)) = t \o u
    BY SpelledType, SpelledConcat, CharFacts, DecodeFacts, LossyBehind
<1>2. t \in Seq(Character) /\ u \in Seq(Character)
    BY DecodeFacts
<1>3. Decode(p) = Strip(t) /\ Decode(p \o q) = Strip(t \o u)
    BY <1>1 DEF Decode
<1> HIDE DEF t, u
<1>4. CASE t # <<>>
    <2>1. t \o u # <<>> /\ (t \o u)[1] = t[1] /\ Tail(t \o u) = Tail(t) \o u
        BY <1>2, <1>4
    <2>2. Strip(t \o u) = Strip(t) \o u
        BY <1>4, <2>1 DEF Strip
    <2> QED
        BY <1>3, <2>2 DEF u
<1>5. CASE t = <<>> /\ Decode(p \o q) = t \o u
    <2>1. Strip(t) = t
        BY <1>5 DEF Strip
    <2> QED
        BY <1>3, <1>5, <2>1 DEF u
<1> QED
    BY <1>1, <1>4, <1>5 DEF t

-----------------------------------------------------------------------------
(* Lengths in bytes.                                                       *)

\* The longer beginning of a text has more bytes.
LEMMA ByteLenGrows ==
    ASSUME NEW T, NEW t \in Seq(T), NEW j \in 0 .. Len(t), NEW k \in 0 .. Len(t)
    PROVE  ByteLen(SubSeq(t, 1, j)) <= ByteLen(SubSeq(t, 1, k)) <=> j <= k
<1> DEFINE wide(n) == {i \in 1 .. n : t[i] \in {Wide, Replacement}}
           c(n) == Cardinality(wide(n))
<1>1. ASSUME NEW n \in 0 .. Len(t)
      PROVE  ByteLen(SubSeq(t, 1, n)) = n + 2 * c(n) /\ IsFiniteSet(wide(n)) /\ c(n) \in Nat
    <2> DEFINE s == SubSeq(t, 1, n)
    <2>1. Len(s) = n /\ DOMAIN s = 1 .. n /\ \A i \in 1 .. n : s[i] = t[i]
        OBVIOUS
    <2> HIDE DEF s
    <2>2. {i \in DOMAIN s : s[i] \in {Wide, Replacement}} = wide(n)
        BY <2>1
    <2>3. IsFiniteSet(1 .. n)
        <3>1. n \in Nat
            OBVIOUS
        <3> QED
            BY <3>1, FS_Interval
    <2>4. IsFiniteSet(wide(n)) /\ c(n) \in Nat
        <3>1. wide(n) \subseteq 1 .. n
            OBVIOUS
        <3> HIDE DEF wide
        <3>2. IsFiniteSet(wide(n))
            BY <2>3, <3>1, FS_Subset
        <3> QED
            BY <3>2, FS_CardinalityType
    <2>5. ByteLen(s) = n + 2 * c(n)
        BY <2>1, <2>2 DEF ByteLen
    <2> QED
        BY <2>4, <2>5 DEF s
<1>2. ASSUME NEW m \in 0 .. Len(t), NEW n \in 0 .. Len(t), m <= n PROVE c(m) <= c(n)
    <2>1. wide(m) \subseteq wide(n)
        BY <1>2
    <2>2. IsFiniteSet(wide(n))
        BY <1>1
    <2> HIDE DEF wide
    <2> QED
        BY <2>1, <2>2, FS_Subset
<1> HIDE DEF wide, c
<1>3. CASE j <= k
    <2>1. c(j) <= c(k) /\ c(j) \in Nat /\ c(k) \in Nat
        BY <1>1, <1>2, <1>3
    <2> QED
        BY <1>1, <1>3, <2>1
<1>4. CASE ~(j <= k)
    <2>1. c(k) <= c(j) /\ c(j) \in Nat /\ c(k) \in Nat
        BY <1>1, <1>2, <1>4
    <2> QED
        BY <1>1, <1>4, <2>1
<1> QED
    BY <1>3, <1>4

\* A position is found again by its length in bytes.
LEMMA ClampBegins ==
    ASSUME NEW T, NEW t \in Seq(T), NEW p \in Seq(T), Begins(p, t)
    PROVE  /\ clamp_to_char_boundary(t, ByteLen(p)) = Len(p) /\ Len(p) \in 0 .. Len(t)
           /\ SubSeq(t, 1, Len(p)) = p
<1> DEFINE n == Len(p)
           S == {k \in 0 .. Len(t) : ByteLen(SubSeq(t, 1, k)) <= ByteLen(p)}
<1>1. n \in 0 .. Len(t) /\ \A i \in 1 .. n : t[i] = p[i]
    BY DEF Begins
<1>2. SubSeq(t, 1, n) = p
    <2> DEFINE u == SubSeq(t, 1, n)
    <2>1. u \in Seq(T) /\ Len(u) = n /\ \A i \in 1 .. n : u[i] = t[i]
        BY <1>1
    <2> HIDE DEF u
    <2>2. u = p
        BY <1>1, <2>1, SeqEqual
    <2> QED
        BY <2>2 DEF u
<1>3. S = 0 .. n
    <2>1. \A k \in 0 .. Len(t) : ByteLen(SubSeq(t, 1, k)) <= ByteLen(SubSeq(t, 1, n)) <=> k <= n
        BY <1>1, ByteLenGrows
    <2>2. \A k \in 0 .. Len(t) : ByteLen(SubSeq(t, 1, k)) <= ByteLen(p) <=> k <= n
        BY <1>2, <2>1
    <2> HIDE DEF n
    <2>3. \A k : k \in 0 .. n <=> k \in 0 .. Len(t) /\ k <= n
        BY <1>1
    <2> QED
        BY <2>2, <2>3
<1>4. Max(0 .. n) = n
    <2>1. n \in Nat /\ 0 .. n \in SUBSET (0 .. n) /\ 0 .. n # {}
        BY <1>1
    <2>2. Max(0 .. n) \in 0 .. n /\ \A y \in 0 .. n : y <= Max(0 .. n)
        BY <2>1, MaxFacts
    <2> QED
        BY <2>1, <2>2
<1> QED
    BY <1>1, <1>2, <1>3, <1>4 DEF clamp_to_char_boundary

\* A beginning, cut in two.
LEMMA SplitAt ==
    ASSUME NEW T, NEW t \in Seq(T), NEW m \in 0 .. Len(t), NEW n \in m .. Len(t)
    PROVE  /\ SubSeq(t, 1, m) \in Seq(T) /\ SubSeq(t, m + 1, n) \in Seq(T)
           /\ SubSeq(t, 1, m) \o SubSeq(t, m + 1, n) = SubSeq(t, 1, n)
<1>1. /\ Len(t) \in Nat /\ 1 \in 1 .. Len(t) + 1 /\ m \in 1 - 1 .. Len(t) /\ n \in m .. Len(t)
    OBVIOUS
<1>2. SubSeq(t, 1, m) \o SubSeq(t, m + 1, n) = SubSeq(t, 1, n)
    BY <1>1, ConcatAdjacentSubSeq
<1>3. SubSeq(t, 1, m) \in Seq(T) /\ SubSeq(t, m + 1, n) \in Seq(T)
    OBVIOUS
<1> QED
    BY <1>2, <1>3

\* What comes behind what was handed out already.
LEMMA AfterBegins ==
    ASSUME NEW T, NEW t \in Seq(T), NEW p \in Seq(T), Begins(p, t)
    PROVE  After(t, ByteLen(p)) \in Seq(T) /\ p \o After(t, ByteLen(p)) = t
<1> DEFINE n == Len(p)
           u == SubSeq(t, n + 1, Len(t))
<1>1. n \in 0 .. Len(t) /\ SubSeq(t, 1, n) = p /\ After(t, ByteLen(p)) = u
    BY ClampBegins DEF After
<1>2. u \in Seq(T) /\ SubSeq(t, 1, n) \o u = SubSeq(t, 1, Len(t)) /\ SubSeq(t, 1, Len(t)) = t
    <2>1. Len(t) \in n .. Len(t) /\ SubSeq(t, 1, Len(t)) = t
        BY <1>1
    <2> HIDE DEF n
    <2> QED
        BY <1>1, <2>1, SplitAt
<1> QED
    BY <1>1, <1>2

\* Behind all of a text is nothing.
LEMMA AfterAll ==
    ASSUME NEW T, NEW t \in Seq(T)
    PROVE  After(t, ByteLen(t)) = <<>>
<1>1. Begins(t, t)
    BY DEF Begins
<1>2. After(t, ByteLen(t)) \in Seq(T) /\ t \o After(t, ByteLen(t)) = t
    BY <1>1, AfterBegins
<1> QED
    BY <1>2, ConcatEqualIffEmpty

\* What is handed out now goes as far as the text is not broken.
LEMMA EmittedIs ==
    ASSUME NEW T, NEW t \in Seq(T), NEW p \in Seq(T), Begins(p, t), Len(p) <= TrimmedLen(t)
    PROVE  /\ Emitted(t, ByteLen(p)) \in Seq(T) /\ p \o Emitted(t, ByteLen(p)) = Trim(t)
           /\ SubSeq(t, 1, clamp_to_char_boundary(t, ByteLen(p)) + Len(Emitted(t, ByteLen(p)))) = Trim(t)
<1> DEFINE n == Len(p)
           m == TrimmedLen(t)
           u == After(t, ByteLen(p))
           out == SubSeq(u, 1, m - n)
<1>1. n \in 0 .. Len(t) /\ clamp_to_char_boundary(t, ByteLen(p)) = n /\ \A i \in 1 .. n : t[i] = p[i]
    BY ClampBegins DEF Begins
<1>2. /\ m \in 0 .. Len(t) /\ (m = 0 \/ t[m] # Replacement) /\ \A i \in m + 1 .. Len(t) : t[i] = Replacement
      /\ Trim(t) \in Seq(T) /\ Len(Trim(t)) = m /\ \A i \in 1 .. m : Trim(t)[i] = t[i]
    BY TrimFacts
<1>3. u = SubSeq(t, n + 1, Len(t))
    BY <1>1 DEF After
<1>4. u \in Seq(T) /\ Len(u) = Len(t) - n /\ \A i \in 1 .. Len(t) - n : u[i] = t[n + i]
    BY <1>1, <1>3
<1>5. n <= m
    OBVIOUS
<1> HIDE DEF u, n, m
<1>6. TrimmedLen(u) = m - n
    <2>1. m - n \in 0 .. Len(u) /\ (m - n = 0 \/ u[m - n] # Replacement)
        <3>1. CASE m = n
            BY <1>1, <1>2, <1>4, <3>1
        <3>2. CASE m # n
            <4>1. m - n \in 1 .. Len(t) - n /\ n + (m - n) = m /\ m # 0
                BY <1>1, <1>2, <1>5, <3>2
            <4>2. u[m - n] = t[m]
                BY <1>4, <4>1
            <4> QED
                BY <1>1, <1>2, <1>4, <4>1, <4>2
        <3> QED
            BY <3>1, <3>2
    <2>2. \A i \in m - n + 1 .. Len(u) : u[i] = Replacement
        <3> SUFFICES ASSUME NEW i \in m - n + 1 .. Len(u) PROVE u[i] = Replacement
            OBVIOUS
        <3>1. i \in 1 .. Len(t) - n /\ n + i \in m + 1 .. Len(t)
            BY <1>1, <1>2, <1>4, <1>5
        <3> QED
            BY <1>2, <1>4, <3>1
    <2> QED
        BY <1>4, <2>1, <2>2, TrimIs
<1>7. out \in Seq(T) /\ Len(out) = m - n /\ \A i \in 1 .. m - n : out[i] = u[i]
    BY <1>1, <1>2, <1>4, <1>5
<1>8. Emitted(t, ByteLen(p)) = out
    BY <1>6 DEF Emitted, u
<1> HIDE DEF out
<1>9. p \o out = Trim(t)
    <2> DEFINE v == p \o out
    <2>0. /\ v \in Seq(T) /\ Len(v) = Len(p) + Len(out)
          /\ \A i \in 1 .. Len(p) + Len(out) : v[i] = IF i <= Len(p) THEN p[i] ELSE out[i - Len(p)]
        BY <1>7, ConcatProperties
    <2> HIDE DEF v
    <2>1. v \in Seq(T) /\ Len(v) = n + (m - n) /\ \A i \in 1 .. n + (m - n) : v[i] = IF i <= n THEN p[i] ELSE out[i - n]
        BY <1>7, <2>0 DEF n
    <2>2. n + (m - n) = m
        BY <1>1, <1>2
    <2>3. ASSUME NEW i \in 1 .. m PROVE v[i] = Trim(t)[i]
        <3>1. CASE i <= n
            BY <1>1, <1>2, <2>1, <2>2, <3>1
        <3>2. CASE ~(i <= n)
            <4>1. i - n \in 1 .. m - n /\ n + (i - n) = i /\ i - n \in 1 .. Len(t) - n
                BY <1>1, <1>2, <3>2
            <4>2. v[i] = out[i - n]
                BY <2>1, <2>2, <3>2
            <4> QED
                BY <1>2, <1>4, <1>7, <4>1, <4>2
        <3> QED
            BY <3>1, <3>2
    <2>4. v = Trim(t)
        BY <1>2, <2>1, <2>2, <2>3, SeqEqual
    <2> QED
        BY <2>4 DEF v
<1>10. n + Len(out) = m
    BY <1>1, <1>2, <1>7
<1> QED
    BY <1>1, <1>7, <1>8, <1>9, <1>10 DEF Trim, m

-----------------------------------------------------------------------------
(* The decoder: what it hands out is what one decode says.                 *)

\* Behind tokens that end whole the decode goes on as if it began anew.
Steady(ids) ==
    \A e \in 1 .. Len(ids) : EndsWhole(ids, e) =>
        \A to \in e .. Len(ids) :
            Decode(SubSeq(ids, 1, to)) = Decode(SubSeq(ids, 1, e)) \o Lossy(Spelled(SubSeq(ids, e + 1, to)))

\* A character that is cut is whole again within the back-off.
Healing(ids) ==
    \A e \in 1 .. Len(ids) - SPLIT_CHAR_BACKOFF : \E k \in e .. e + SPLIT_CHAR_BACKOFF : EndsWhole(ids, k)

\* Both of these: the decoder's text is that of one decode.
Sound(ids) == Steady(ids) /\ Healing(ids)

\* A decoder that has handed out what is not broken.
Going(d, ids) ==
    /\ DOMAIN d = {"decoded_len", "stable_end", "stable_text"}
    /\ d.stable_end \in 0 .. Len(ids) /\ EndsWhole(ids, d.stable_end)
    /\ d.stable_text = Decode(SubSeq(ids, 1, d.stable_end))
    /\ d.decoded_len = ByteLen(Trim(Decode(ids)))

\* Before the first token no character is cut.
LEMMA NoneWhole == \A ids : EndsWhole(ids, 0) /\ SubSeq(ids, 1, 0) = <<>>
<1>1. \A ids : SubSeq(ids, 1, 0) = <<>>
    OBVIOUS
<1> QED
    BY <1>1, DecodeEmpty DEF EndsWhole, EndsBroken

\* A new decoder has handed out what there is.
LEMMA GoingNew == Going(NewDecoder, <<>>)
<1>1. Trim(<<>>) = <<>> /\ ByteLen(<<>>) = 0
    <2>1. <<>> \in Seq(Character) /\ Len(<<>>) = 0
        OBVIOUS
    <2>2. Trim(<<>>) = <<>>
        <3>1. Trim(<<>>) \in Seq(Character) /\ Len(Trim(<<>>)) = TrimmedLen(<<>>)
              /\ TrimmedLen(<<>>) \in 0 .. Len(<<>>)
            BY <2>1, TrimFacts
        <3> QED
            BY <2>1, <3>1, EmptySeq
    <2>3. {i \in DOMAIN <<>> : <<>>[i] \in {Wide, Replacement}} = {}
        OBVIOUS
    <2> QED
        BY <2>1, <2>2, <2>3, FS_EmptySet DEF ByteLen
<1>2. SubSeq(<<>>, 1, 0) = <<>> /\ EndsWhole(<<>>, 0) /\ 0 \in 0 .. Len(<<>>)
    BY NoneWhole
<1> QED
    BY <1>1, <1>2, DecodeEmpty DEF Going, NewDecoder

\* Sequences of tokens decode to texts.
LEMMA PrefixFacts ==
    ASSUME NEW ids \in Seq(Token), NEW e \in 0 .. Len(ids), NEW to \in e .. Len(ids)
    PROVE  /\ SubSeq(ids, 1, e) \in Seq(Token) /\ SubSeq(ids, e + 1, to) \in Seq(Token)
           /\ Decode(SubSeq(ids, 1, e)) \in Seq(Character)
           /\ Lossy(Spelled(SubSeq(ids, e + 1, to))) \in Seq(Character)
<1>1. SubSeq(ids, 1, e) \in Seq(Token) /\ SubSeq(ids, e + 1, to) \in Seq(Token)
    OBVIOUS
<1> QED
    BY <1>1, DecodeFacts

\* A fragment continues the frozen text.
LEMMA FragmentIs ==
    ASSUME NEW ids \in Seq(Token), Steady(ids), NEW e \in 0 .. Len(ids), EndsWhole(ids, e), NEW to \in e .. Len(ids)
    PROVE  /\ Fragment(ids, e, to) \in Seq(Character)
           /\ Decode(SubSeq(ids, 1, e)) \o Fragment(ids, e, to) = Decode(SubSeq(ids, 1, to))
<1>1. CASE e = 0
    <2> DEFINE t == Decode(SubSeq(ids, 1, to))
    <2>1. to \in 0 .. Len(ids) /\ to \in to .. Len(ids)
        OBVIOUS
    <2>2. t \in Seq(Character)
        BY <2>1, PrefixFacts
    <2>3. Decode(SubSeq(ids, 1, e)) = <<>> /\ Fragment(ids, e, to) = t
        BY <1>1, NoneWhole, DecodeEmpty DEF Fragment
    <2> HIDE DEF t
    <2>4. <<>> \o t = t
        BY <2>2
    <2> QED
        BY <2>2, <2>3, <2>4 DEF t
<1>2. CASE e # 0
    <2>1. SubSeq(ids, e + 1, to) \in Seq(Token) /\ Lossy(Spelled(SubSeq(ids, e + 1, to))) \in Seq(Character)
        BY PrefixFacts
    <2>2. Fragment(ids, e, to) = Lossy(Spelled(SubSeq(ids, e + 1, to)))
        BY <1>2, <2>1, Neutral DEF Fragment
    <2>3. e \in 1 .. Len(ids)
        BY <1>2
    <2>4. Decode(SubSeq(ids, 1, to)) = Decode(SubSeq(ids, 1, e)) \o Lossy(Spelled(SubSeq(ids, e + 1, to)))
        BY <2>3 DEF Steady
    <2> QED
        BY <2>1, <2>2, <2>4
<1> QED
    BY <1>1, <1>2

\* A text with a broken end behind it ends broken, one with a whole end whole.
LEMMA BrokenBehind ==
    ASSUME NEW T, NEW p \in Seq(T), NEW q \in Seq(T)
    PROVE  /\ EndsBroken(q) => EndsBroken(p \o q)
           /\ ~EndsBroken(p) /\ ~EndsBroken(q) => ~EndsBroken(p \o q)
<1> DEFINE v == p \o q
<1>1. CASE q = <<>>
    <2>1. v = p
        BY <1>1
    <2> QED
        BY <1>1, <2>1 DEF EndsBroken
<1>2. CASE q # <<>>
    <2>1. Len(q) >= 1 /\ Len(p) \in Nat /\ Len(q) \in Nat
        BY <1>2
    <2>2. v \in Seq(T) /\ Len(v) = Len(p) + Len(q) /\ v[Len(p) + Len(q)] = q[Len(q)] /\ v # <<>>
        BY <2>1
    <2> HIDE DEF v
    <2>3. Last(v) = Last(q)
        BY <2>2 DEF Last
    <2> QED
        BY <1>2, <2>2, <2>3 DEF EndsBroken, v
<1> QED
    BY <1>1, <1>2

\* The frozen prefix never ends within a character: the forced end is none.
LEMMA BoundaryFacts ==
    ASSUME NEW ids \in Seq(Token), Sound(ids), NEW d, d.stable_end \in 0 .. Len(ids), EndsWhole(ids, d.stable_end)
    PROVE  Boundary(d, ids) \in d.stable_end .. Len(ids) /\ EndsWhole(ids, Boundary(d, ids))
<1> DEFINE n == Len(ids)
           s == d.stable_end
           target == n - DECODE_STABLE_LOOKBACK
           tried == {e \in s + 1 .. target : e >= target - SPLIT_CHAR_BACKOFF}
           clean == {e \in tried : ~EndsBroken(Fragment(ids, s, e))}
           end == Boundary(d, ids)
<1>1. n \in Nat /\ DECODE_STABLE_LOOKBACK \in Nat /\ SPLIT_CHAR_BACKOFF \in Nat /\ s \in 0 .. n /\ target \in Int
    BY DecodeAssumption
<1>2. end = IF tried = {} THEN s
            ELSE IF clean # {} THEN Max(clean)
            ELSE IF Min(tried) = target - SPLIT_CHAR_BACKOFF THEN target ELSE s
    BY DEF Boundary
<1> HIDE DEF end
<1>3. tried \in SUBSET (s + 1 .. n) /\ tried \in SUBSET Nat /\ tried \in SUBSET (0 .. n)
    BY <1>1
<1>4. ASSUME NEW e \in tried
      PROVE  EndsBroken(Fragment(ids, s, e)) <=> ~EndsWhole(ids, e)
    <2>1. e \in s .. n /\ e \in 0 .. n
        BY <1>1, <1>3
    <2> HIDE DEF tried, clean
    <2> DEFINE p == Decode(SubSeq(ids, 1, s))
               q == Fragment(ids, s, e)
    <2>2. q \in Seq(Character) /\ p \o q = Decode(SubSeq(ids, 1, e))
        BY <2>1, FragmentIs DEF Sound
    <2>3. p \in Seq(Character) /\ ~EndsBroken(p)
        BY <2>1, PrefixFacts DEF EndsWhole
    <2> HIDE DEF p, q
    <2>4. (EndsBroken(q) => EndsBroken(p \o q)) /\ (~EndsBroken(p) /\ ~EndsBroken(q) => ~EndsBroken(p \o q))
        BY <2>2, <2>3, BrokenBehind
    <2> QED
        BY <2>2, <2>3, <2>4 DEF EndsWhole, q
<1>5. CASE end = s
    <2>1. s \in s .. n
        BY <1>1
    <2> QED
        BY <1>5, <2>1 DEF end
<1>6. CASE tried # {} /\ clean # {}
    <2>1. clean \in SUBSET (0 .. n) /\ n \in Nat
        BY <1>1, <1>3
    <2>2. Max(clean) \in clean
        <3> HIDE DEF clean
        <3> QED
            BY <1>6, <2>1, MaxFacts
    <2>3. end = Max(clean)
        BY <1>2, <1>6
    <2>4. end \in tried /\ ~EndsBroken(Fragment(ids, s, end))
        BY <2>2, <2>3
    <2>5. end \in s .. n
        BY <1>1, <1>3, <2>4
    <2> HIDE DEF tried, clean
    <2> QED
        BY <1>4, <2>4, <2>5 DEF end
<1>7. CASE tried # {} /\ clean = {}
    <2> SUFFICES ASSUME Min(tried) = target - SPLIT_CHAR_BACKOFF PROVE FALSE
        BY <1>2, <1>5, <1>7
    <2> DEFINE low == target - SPLIT_CHAR_BACKOFF
    <2>1. low \in tried
        <3> HIDE DEF tried
        <3> QED
            BY <1>3, <1>7, MinFacts
    <2>2. low \in 1 .. n - SPLIT_CHAR_BACKOFF /\ low + SPLIT_CHAR_BACKOFF = target
        BY <1>1, <2>1
    <2>3. PICK k \in low .. low + SPLIT_CHAR_BACKOFF : EndsWhole(ids, k)
        BY <2>2 DEF Sound, Healing
    <2>4. k \in tried
        BY <1>1, <2>1, <2>2, <2>3
    <2>5. ~EndsBroken(Fragment(ids, s, k))
        <3> HIDE DEF tried
        <3> QED
            BY <1>4, <2>3, <2>4
    <2>6. k \in clean
        <3> HIDE DEF tried
        <3> QED
            BY <2>4, <2>5
    <2> QED
        BY <1>7, <2>6
<1>8. tried = {} => end = s
    BY <1>2
<1> QED
    BY <1>5, <1>6, <1>7, <1>8

\* One token more leaves the beginnings as they are.
LEMMA PrefixKept ==
    ASSUME NEW ids \in Seq(Token), NEW tok \in Token, NEW e \in 0 .. Len(ids), NEW to \in e .. Len(ids)
    PROVE  /\ SubSeq(Append(ids, tok), 1, e) = SubSeq(ids, 1, e)
           /\ SubSeq(Append(ids, tok), e + 1, to) = SubSeq(ids, e + 1, to)
           /\ EndsWhole(Append(ids, tok), e) <=> EndsWhole(ids, e)
<1>1. SubSeq(Append(ids, tok), 1, e) = SubSeq(ids, 1, e)
    OBVIOUS
<1>2. SubSeq(Append(ids, tok), e + 1, to) = SubSeq(ids, e + 1, to)
    OBVIOUS
<1> QED
    BY <1>1, <1>2 DEF EndsWhole

\* What holds of more tokens held of fewer.
LEMMA SoundBefore ==
    ASSUME NEW ids \in Seq(Token), NEW tok \in Token
    PROVE  /\ Steady(Append(ids, tok)) => Steady(ids)
           /\ Healing(Append(ids, tok)) => Healing(ids)
<1> DEFINE u == Append(ids, tok)
<1>1. u \in Seq(Token) /\ Len(u) = Len(ids) + 1 /\ Len(ids) \in Nat
    OBVIOUS
<1>2. ASSUME NEW e \in 0 .. Len(ids), NEW to \in e .. Len(ids)
      PROVE  SubSeq(u, 1, e) = SubSeq(ids, 1, e) /\ SubSeq(u, e + 1, to) = SubSeq(ids, e + 1, to)
             /\ (EndsWhole(u, e) <=> EndsWhole(ids, e))
    BY PrefixKept
<1> HIDE DEF u
<1>3. ASSUME Steady(u) PROVE Steady(ids)
    <2> SUFFICES ASSUME NEW e \in 1 .. Len(ids), EndsWhole(ids, e), NEW to \in e .. Len(ids)
                 PROVE  Decode(SubSeq(ids, 1, to))
                           = Decode(SubSeq(ids, 1, e)) \o Lossy(Spelled(SubSeq(ids, e + 1, to)))
        BY DEF Steady
    <2>1. e \in 1 .. Len(u) /\ to \in e .. Len(u) /\ e \in 0 .. Len(ids) /\ to \in 0 .. Len(ids) /\ to \in to .. Len(ids)
        BY <1>1
    <2>2. SubSeq(u, 1, e) = SubSeq(ids, 1, e) /\ SubSeq(u, e + 1, to) = SubSeq(ids, e + 1, to)
          /\ (EndsWhole(u, e) <=> EndsWhole(ids, e))
        BY <1>2, <2>1
    <2>3. SubSeq(u, 1, to) = SubSeq(ids, 1, to)
        BY <1>2, <2>1
    <2>4. Decode(SubSeq(u, 1, to)) = Decode(SubSeq(u, 1, e)) \o Lossy(Spelled(SubSeq(u, e + 1, to)))
        BY <1>3, <2>1, <2>2 DEF Steady
    <2> QED
        BY <2>2, <2>3, <2>4
<1>4. ASSUME Healing(u) PROVE Healing(ids)
    <2> SUFFICES ASSUME NEW e \in 1 .. Len(ids) - SPLIT_CHAR_BACKOFF
                 PROVE  \E k \in e .. e + SPLIT_CHAR_BACKOFF : EndsWhole(ids, k)
        BY DEF Healing
    <2>1. SPLIT_CHAR_BACKOFF \in Nat
        BY DecodeAssumption
    <2>2. e \in 1 .. Len(u) - SPLIT_CHAR_BACKOFF
        BY <1>1, <2>1
    <2>3. PICK k \in e .. e + SPLIT_CHAR_BACKOFF : EndsWhole(u, k)
        BY <1>4, <2>2 DEF Healing
    <2>4. k \in 0 .. Len(ids) /\ k \in k .. Len(ids)
        BY <1>1, <2>1
    <2>5. EndsWhole(ids, k)
        BY <1>2, <2>3, <2>4
    <2> QED
        BY <2>5
<1> QED
    BY <1>3, <1>4 DEF u

\* One token more, decoded whole: it begins with what was handed out.
LEMMA DecodeNext ==
    ASSUME NEW ids \in Seq(Token), NEW tok \in Token
    PROVE  /\ Decode(ids) \in Seq(Character) /\ Decode(Append(ids, tok)) \in Seq(Character)
           /\ Trim(Decode(ids)) \in Seq(Character) /\ Trim(Decode(Append(ids, tok))) \in Seq(Character)
           /\ Begins(Trim(Decode(ids)), Decode(Append(ids, tok)))
           /\ Len(Trim(Decode(ids))) <= TrimmedLen(Decode(Append(ids, tok)))
<1> DEFINE t == Decode(ids)
           u == Decode(Append(ids, tok))
<1>1. Append(ids, tok) \in Seq(Token) /\ <<tok>> \in Seq(Token) /\ Append(ids, tok) = ids \o <<tok>>
    OBVIOUS
<1>2. t \in Seq(Character) /\ u \in Seq(Character)
    BY <1>1, DecodeFacts
<1>3. Begins(Trim(Decode(ids)), Decode(ids \o <<tok>>))
    BY <1>1, DecodeGrows
<1>4. Begins(Trim(t), u)
    BY <1>1, <1>3
<1> HIDE DEF t, u
<1>5. Trim(t) \in Seq(Character) /\ Len(Trim(t)) = TrimmedLen(t) /\ Trim(u) \in Seq(Character)
    BY <1>2, TrimFacts
<1>6. TrimmedLen(t) <= TrimmedLen(u)
    BY <1>2, <1>4, TrimGrows
<1> QED
    BY <1>2, <1>4, <1>5, <1>6 DEF t, u

\* A push hands out what is not broken and was not handed out.
LEMMA PushIs ==
    ASSUME NEW ids \in Seq(Token), NEW tok \in Token, Sound(Append(ids, tok)), NEW d, Going(d, ids)
    PROVE  /\ Push(d, Append(ids, tok)).text \in Seq(Character)
           /\ Trim(Decode(ids)) \o Push(d, Append(ids, tok)).text = Trim(Decode(Append(ids, tok)))
           /\ Going(Push(d, Append(ids, tok)).decoder, Append(ids, tok))
<1> DEFINE v == Append(ids, tok)
           end == Boundary(d, v)
           w == advance_stable_window(d, v)
           full == w.stable_text \o Fragment(v, w.stable_end, Len(v))
           start == clamp_to_char_boundary(full, d.decoded_len)
           emit == Emitted(full, d.decoded_len)
           r == [w EXCEPT !.decoded_len = ByteLen(SubSeq(full, 1, start + Len(emit)))]
<1>1. Push(d, v) = [text |-> emit, decoder |-> r]
    BY DEF Push
<1>2. v \in Seq(Token) /\ Len(v) = Len(ids) + 1 /\ Len(ids) \in Nat /\ SubSeq(v, 1, Len(v)) = v
    OBVIOUS
<1>3. /\ d.stable_end \in 0 .. Len(v) /\ EndsWhole(v, d.stable_end)
      /\ d.stable_text = Decode(SubSeq(v, 1, d.stable_end))
    <2>1. d.stable_end \in 0 .. Len(ids) /\ d.stable_end \in d.stable_end .. Len(ids)
        BY DEF Going
    <2>2. SubSeq(v, 1, d.stable_end) = SubSeq(ids, 1, d.stable_end)
          /\ (EndsWhole(v, d.stable_end) <=> EndsWhole(ids, d.stable_end))
        BY <2>1, PrefixKept
    <2>3. EndsWhole(ids, d.stable_end) /\ d.stable_text = Decode(SubSeq(ids, 1, d.stable_end))
        BY DEF Going
    <2> HIDE DEF v
    <2>4. d.stable_end \in 0 .. Len(v)
        BY <1>2, <2>1
    <2> QED
        BY <2>2, <2>3, <2>4
<1> HIDE DEF v
<1>4. end \in d.stable_end .. Len(v) /\ EndsWhole(v, end) /\ end \in 0 .. Len(v)
    <2>1. end \in d.stable_end .. Len(v) /\ EndsWhole(v, end)
        BY <1>2, <1>3, BoundaryFacts DEF v
    <2> QED
        BY <1>3, <2>1
<1>5. /\ DOMAIN w = {"decoded_len", "stable_end", "stable_text"} /\ w.stable_end = end
      /\ w.stable_text = Decode(SubSeq(v, 1, end))
    <2> DEFINE text == IF end = d.stable_end THEN d.stable_text
                       ELSE d.stable_text \o Fragment(v, d.stable_end, end)
    <2>1. w = [d EXCEPT !.stable_end = end, !.stable_text = text]
        BY DEF advance_stable_window
    <2>2. text = Decode(SubSeq(v, 1, end))
        <3> HIDE DEF end
        <3>1. Decode(SubSeq(v, 1, d.stable_end)) \o Fragment(v, d.stable_end, end) = Decode(SubSeq(v, 1, end))
            BY <1>2, <1>3, <1>4, FragmentIs DEF Sound, v
        <3> QED
            BY <1>3, <3>1
    <2> HIDE DEF text, end
    <2> QED
        BY <2>1, <2>2 DEF Going
<1> HIDE DEF w, end
<1>6. full = Decode(v)
    <2>1. Len(v) \in end .. Len(v)
        BY <1>2, <1>4
    <2>2. Decode(SubSeq(v, 1, end)) \o Fragment(v, end, Len(v)) = Decode(SubSeq(v, 1, Len(v)))
        BY <1>2, <1>4, <2>1, FragmentIs DEF Sound, v
    <2> QED
        BY <1>2, <1>5, <2>2
<1> HIDE DEF full
<1> DEFINE p == Trim(Decode(ids))
<1>7. p \in Seq(Character) /\ full \in Seq(Character) /\ Begins(p, full) /\ Len(p) <= TrimmedLen(full)
    BY <1>6, DecodeNext DEF v
<1>8. d.decoded_len = ByteLen(p)
    BY DEF Going
<1> HIDE DEF p
<1>9. /\ Emitted(full, ByteLen(p)) \in Seq(Character) /\ p \o Emitted(full, ByteLen(p)) = Trim(full)
      /\ SubSeq(full, 1, clamp_to_char_boundary(full, ByteLen(p)) + Len(Emitted(full, ByteLen(p)))) = Trim(full)
    BY <1>7, EmittedIs
<1>10. emit \in Seq(Character) /\ p \o emit = Trim(full) /\ SubSeq(full, 1, start + Len(emit)) = Trim(full)
    BY <1>8, <1>9
<1> HIDE DEF emit, start
<1>11. Going(r, v)
    BY <1>4, <1>5, <1>6, <1>10 DEF Going
<1> QED
    BY <1>1, <1>6, <1>10, <1>11 DEF v, p

\* A decoder that has handed out everything.
Done(d, ids) ==
    /\ DOMAIN d = {"decoded_len", "stable_end", "stable_text"}
    /\ ids # <<>> => d.decoded_len = ByteLen(Decode(ids))

\* Finishing hands out what is left.
LEMMA FinishIs ==
    ASSUME NEW ids \in Seq(Token), NEW d, Going(d, ids)
    PROVE  /\ Finish(d, ids).text \in Seq(Character)
           /\ Trim(Decode(ids)) \o Finish(d, ids).text = Decode(ids)
           /\ Done(Finish(d, ids).decoder, ids)
           /\ ~EndsBroken(Decode(ids)) => Finish(d, ids).text = <<>> /\ Going(Finish(d, ids).decoder, ids)
<1> DEFINE full == Decode(ids)
           p == Trim(full)
<1>1. full \in Seq(Character)
    BY DecodeFacts
<1>2. p \in Seq(Character) /\ Len(p) = TrimmedLen(full) /\ TrimmedLen(full) \in 0 .. Len(full)
      /\ \A i \in 1 .. TrimmedLen(full) : p[i] = full[i]
    BY <1>1, TrimFacts
<1>3. d.decoded_len = ByteLen(p) /\ DOMAIN d = {"decoded_len", "stable_end", "stable_text"}
    BY DEF Going
<1>4. ~EndsBroken(full) => p = full
    BY <1>1, BrokenIs
<1>5. CASE ids = <<>>
    <2>1. full = <<>> /\ Finish(d, ids) = [text |-> <<>>, decoder |-> d]
        BY <1>5, DecodeEmpty DEF Finish
    <2>2. p = <<>> /\ p \o <<>> = full /\ <<>> \in Seq(Character)
        <3>1. ~EndsBroken(full)
            BY <2>1 DEF EndsBroken
        <3> QED
            BY <1>4, <2>1, <3>1
    <2>3. Finish(d, ids).text = <<>> /\ Finish(d, ids).decoder = d
        BY <2>1
    <2>4. Done(d, ids)
        BY <1>3, <1>5 DEF Done
    <2> HIDE DEF full, p
    <2> QED
        BY <2>2, <2>3, <2>4 DEF full, p
<1>6. CASE ids # <<>>
    <2> DEFINE r == [d EXCEPT !.decoded_len = ByteLen(full)]
               u == After(full, d.decoded_len)
    <2>1. Finish(d, ids) = [text |-> u, decoder |-> r]
        BY <1>6 DEF Finish
    <2> HIDE DEF full, p
    <2>2. Begins(p, full)
        BY <1>1, <1>2 DEF Begins
    <2>3. After(full, ByteLen(p)) \in Seq(Character) /\ p \o After(full, ByteLen(p)) = full
        BY <1>1, <1>2, <2>2, AfterBegins
    <2>4. u \in Seq(Character) /\ p \o u = full
        BY <1>3, <2>3
    <2>5. /\ DOMAIN r = {"decoded_len", "stable_end", "stable_text"} /\ r.decoded_len = ByteLen(full)
          /\ r.stable_end = d.stable_end /\ r.stable_text = d.stable_text
        BY <1>3
    <2>6. After(full, ByteLen(full)) = <<>>
        BY <1>1, AfterAll
    <2> HIDE DEF r, u
    <2>7. ~EndsBroken(full) => u = <<>> /\ Going(r, ids)
        <3> SUFFICES ASSUME ~EndsBroken(full) PROVE u = <<>> /\ Going(r, ids)
            OBVIOUS
        <3>1. p = full
            BY <1>4
        <3>2. u = <<>>
            BY <1>3, <2>6, <3>1 DEF u
        <3> QED
            BY <2>5, <3>1, <3>2 DEF Going, full, p
    <2>8. Done(r, ids)
        BY <2>5 DEF Done, full
    <2> QED
        BY <2>1, <2>4, <2>7, <2>8 DEF full, p
<1> QED
    BY <1>5, <1>6

\* Nothing is left then.
LEMMA FinishAgain ==
    ASSUME NEW ids \in Seq(Token), NEW d, Done(d, ids)
    PROVE  Finish(d, ids).text = <<>> /\ Done(Finish(d, ids).decoder, ids)
<1> DEFINE full == Decode(ids)
           r == [d EXCEPT !.decoded_len = ByteLen(full)]
<1>1. full \in Seq(Character)
    BY DecodeFacts
<1> HIDE DEF full
<1>2. After(full, ByteLen(full)) = <<>>
    BY <1>1, AfterAll
<1>3. CASE ids = <<>>
    BY <1>3 DEF Finish, Done
<1>4. CASE ids # <<>>
    <2>1. Finish(d, ids) = [text |-> After(full, d.decoded_len), decoder |-> r] /\ d.decoded_len = ByteLen(full)
        BY <1>4 DEF Finish, Done, full
    <2>2. DOMAIN r = {"decoded_len", "stable_end", "stable_text"} /\ r.decoded_len = ByteLen(full)
        BY DEF Done
    <2> HIDE DEF r
    <2> QED
        BY <1>2, <2>1, <2>2 DEF Done, full
<1> QED
    BY <1>3, <1>4

-----------------------------------------------------------------------------
(* The scanner: what it lets go has no stop string, and none begins there. *)

\* Within the text, something is not as the stop string at this position has it.
Differs(stop, text, at) == \E i \in 1 .. Len(stop) : at + i <= Len(text) /\ text[at + i] # stop[i]

\* No stop string will ever begin among the first n characters.
Dead(stops, text, n) == \A at \in 0 .. n - 1 : \A stop \in stops : Differs(stop, text, at)

\* Stop strings, none of them empty.
Stops(stops) == \A stop \in stops : stop \in Seq(STRING) /\ stop # <<>>

\* Where a stop string is.
LEMMA MatchesIs ==
    ASSUME NEW T, NEW text \in Seq(T), NEW stops, Stops(stops), NEW at
    PROVE  at \in Matches(stops, text) <=>
              /\ at \in 0 .. Len(text)
              /\ \E stop \in stops : at + Len(stop) <= Len(text) /\ ~Differs(stop, text, at)
<1>1. Matches(stops, text) =
         {k \in 0 .. Len(text) : \E stop \in stops : IsPrefix(stop, SubSeq(text, k + 1, Len(text)))}
    BY DEF Matches
<1> SUFFICES ASSUME at \in 0 .. Len(text), NEW stop \in stops
             PROVE  IsPrefix(stop, SubSeq(text, at + 1, Len(text)))
                       <=> at + Len(stop) <= Len(text) /\ ~Differs(stop, text, at)
    BY <1>1
<1> DEFINE u == SubSeq(text, at + 1, Len(text))
           n == Len(stop)
<1>2. u \in Seq(T) /\ Len(u) = Len(text) - at /\ \A i \in 1 .. Len(text) - at : u[i] = text[at + i]
    OBVIOUS
<1>3. stop \in Seq(STRING) /\ n \in Nat /\ Len(text) \in Nat
    BY DEF Stops
<1> HIDE DEF u, n
<1>4. n <= Len(u) <=> at + n <= Len(text)
    BY <1>2, <1>3
<1>5. ASSUME n <= Len(u)
      PROVE  SubSeq(stop, 1, n) = SubSeq(u, 1, n) <=> ~Differs(stop, text, at)
    <2> DEFINE a == SubSeq(stop, 1, n)
               b == SubSeq(u, 1, n)
    <2>1. a = stop
        BY <1>3 DEF n
    <2>2. Len(b) = n /\ DOMAIN b = 1 .. n /\ b \in Seq(T) /\ \A i \in 1 .. n : b[i] = u[i]
        BY <1>2, <1>3, <1>5
    <2>3. DOMAIN stop = 1 .. n /\ stop = [i \in 1 .. n |-> stop[i]]
        BY <1>3 DEF n
    <2> HIDE DEF a, b
    <2>4. b = [i \in 1 .. n |-> b[i]]
        BY <2>2
    <2>5. a = b <=> \A i \in 1 .. n : stop[i] = b[i]
        BY <2>1, <2>3, <2>4
    <2>6. \A i \in 1 .. n : b[i] = text[at + i] /\ at + i <= Len(text)
        BY <1>2, <1>3, <1>5, <2>2
    <2> QED
        BY <2>5, <2>6 DEF Differs, a, b, n
<1> QED
    BY <1>3, <1>4, <1>5 DEF IsPrefix, u, n

\* A match is a position in the text.
LEMMA MatchesNat == \A stops, text : Matches(stops, text) \subseteq 0 .. Len(text)
    BY DEF Matches

\* What differs goes on to differ.
LEMMA DiffersOn ==
    ASSUME NEW T, NEW p \in Seq(T), NEW q \in Seq(T), Begins(p, q), NEW stop \in Seq(STRING), NEW at \in Nat,
           Differs(stop, p, at)
    PROVE  Differs(stop, q, at)
<1>1. PICK i \in 1 .. Len(stop) : at + i <= Len(p) /\ p[at + i] # stop[i]
    BY DEF Differs
<1>2. at + i \in 1 .. Len(p) /\ Len(p) <= Len(q) /\ Len(p) \in Nat /\ Len(q) \in Nat
    BY <1>1 DEF Begins
<1>3. q[at + i] = p[at + i] /\ at + i <= Len(q)
    BY <1>1, <1>2 DEF Begins
<1> QED
    BY <1>1, <1>3 DEF Differs

\* A position where no stop string begins stays one as the text grows.
LEMMA DeadOn ==
    ASSUME NEW T, NEW p \in Seq(T), NEW q \in Seq(T), Begins(p, q), NEW stops, Stops(stops), NEW n \in Nat,
           Dead(stops, p, n)
    PROVE  Dead(stops, q, n)
<1> SUFFICES ASSUME NEW at \in 0 .. n - 1, NEW stop \in stops PROVE Differs(stop, q, at)
    BY DEF Dead
<1>1. Differs(stop, p, at) /\ at \in Nat /\ stop \in Seq(STRING)
    BY DEF Dead, Stops
<1> QED
    BY <1>1, DiffersOn

\* The first match of all the text is the first in what is still held.
LEMMA MatchesBehind ==
    ASSUME NEW T, NEW said \in Seq(T), NEW text \in Seq(T), NEW stops, Stops(stops),
           Dead(stops, said \o text, Len(said))
    PROVE  /\ \A at : at \in Matches(stops, text) => Len(said) + at \in Matches(stops, said \o text)
           /\ \A at : at \in Matches(stops, said \o text) =>
                         at - Len(said) \in Matches(stops, text) /\ at \in Nat
<1> DEFINE n == Len(said)
           whole == said \o text
<1>1. /\ n \in Nat /\ whole \in Seq(T) /\ Len(whole) = n + Len(text) /\ Len(text) \in Nat
      /\ \A i \in 1 .. Len(text) : whole[n + i] = text[i]
    OBVIOUS
<1> HIDE DEF n, whole
<1>2. ASSUME NEW at \in 0 .. Len(text), NEW stop \in stops
      PROVE  Differs(stop, text, at) <=> Differs(stop, whole, n + at)
    <2>1. stop \in Seq(STRING) /\ Len(stop) \in Nat
        BY DEF Stops
    <2>2. \A i \in 1 .. Len(stop) : /\ at + i <= Len(text) <=> (n + at) + i <= Len(whole)
                                    /\ at + i <= Len(text) => whole[(n + at) + i] = text[at + i]
        <3> SUFFICES ASSUME NEW i \in 1 .. Len(stop)
                     PROVE  /\ at + i <= Len(text) <=> (n + at) + i <= Len(whole)
                            /\ at + i <= Len(text) => whole[(n + at) + i] = text[at + i]
            OBVIOUS
        <3>1. (n + at) + i = n + (at + i) /\ at + i \in Nat /\ at + i >= 1
            BY <1>1, <2>1
        <3> QED
            BY <1>1, <2>1, <3>1
    <2> QED
        BY <2>2 DEF Differs
<1>3. ASSUME NEW at \in 0 .. Len(text)
      PROVE  at \in Matches(stops, text) <=> n + at \in Matches(stops, whole)
    <2>1. at \in Matches(stops, text) <=>
             \E stop \in stops : at + Len(stop) <= Len(text) /\ ~Differs(stop, text, at)
        BY MatchesIs
    <2>2. n + at \in Matches(stops, whole) <=>
             /\ n + at \in 0 .. Len(whole)
             /\ \E stop \in stops : (n + at) + Len(stop) <= Len(whole) /\ ~Differs(stop, whole, n + at)
        BY <1>1, MatchesIs
    <2>3. n + at \in 0 .. Len(whole)
        BY <1>1
    <2>4. \A stop \in stops : at + Len(stop) <= Len(text) <=> (n + at) + Len(stop) <= Len(whole)
        <3>1. \A stop \in stops : Len(stop) \in Nat
            BY DEF Stops
        <3> QED
            BY <1>1, <3>1
    <2> QED
        BY <1>2, <2>1, <2>2, <2>3, <2>4
<1>4. \A at : at \in Matches(stops, text) => at \in 0 .. Len(text)
    BY MatchesNat
<1>5. ASSUME NEW at, at \in Matches(stops, whole)
      PROVE  at \in Nat /\ at - n \in 0 .. Len(text) /\ n + (at - n) = at
    <2>1. at \in 0 .. Len(whole)
        BY <1>5, MatchesNat
    <2>2. \E stop \in stops : ~Differs(stop, whole, at)
        BY <1>1, <1>5, MatchesIs
    <2>3. ~(at \in 0 .. n - 1)
        BY <2>2 DEF Dead, n, whole
    <2> QED
        BY <1>1, <2>1, <2>3
<1> QED
    BY <1>3, <1>4, <1>5 DEF n, whole

\* What a stop string might begin with at the end is kept.
LEMMA KeptFacts ==
    ASSUME NEW T, NEW text \in Seq(T), NEW stops, Stops(stops)
    PROVE  /\ Kept(stops, text) \in 0 .. Len(text)
           /\ stops = {} => Kept(stops, text) = 0
           /\ \A n \in 1 .. Len(text) : \A stop \in stops :
                 n < Len(stop) /\ ~Differs(stop, text, Len(text) - n) => n <= Kept(stops, text)
<1> DEFINE m == Len(text)
           S == {0} \cup {n \in 1 .. m : \E stop \in stops : n < Len(stop) /\ IsSuffix(SubSeq(stop, 1, n), text)}
<1>1. m \in Nat /\ S \in SUBSET (0 .. m) /\ S # {}
    OBVIOUS
<1>2. Kept(stops, text) = Max(S)
    BY DEF Kept
<1>3. Max(S) \in S /\ \A n \in S : n <= Max(S)
    <2> HIDE DEF S
    <2> QED
        BY <1>1, MaxFacts
<1>4. ASSUME NEW n \in 1 .. m, NEW stop \in stops, n < Len(stop), ~Differs(stop, text, m - n)
      PROVE  IsSuffix(SubSeq(stop, 1, n), text)
    <2> DEFINE a == SubSeq(stop, 1, n)
               ra == Reverse(a)
               rt == Reverse(text)
    <2>1. stop \in Seq(STRING) /\ Len(stop) \in Nat
        BY DEF Stops
    <2>2. a \in Seq(STRING) /\ Len(a) = n /\ \A i \in 1 .. n : a[i] = stop[i]
        BY <1>4, <2>1
    <2> HIDE DEF a
    <2>3. /\ ra = [i \in 1 .. n |-> a[n - i + 1]]
          /\ rt = [i \in 1 .. m |-> text[m - i + 1]]
        BY <2>2 DEF Reverse
    <2>4. Len(ra) = n /\ Len(rt) = m
        BY <1>1, <2>3
    <2> HIDE DEF ra, rt
    <2>5. SubSeq(ra, 1, n) = [i \in 1 .. n |-> ra[i]] /\ SubSeq(rt, 1, n) = [i \in 1 .. n |-> rt[i]]
        BY <1>1
    <2>6. ASSUME NEW i \in 1 .. n PROVE ra[i] = rt[i]
        <3>1. n - i + 1 \in 1 .. n /\ i \in 1 .. m /\ (m - n) + (n - i + 1) = m - i + 1 /\ m - i + 1 <= m
            BY <1>1
        <3>2. ra[i] = stop[n - i + 1] /\ rt[i] = text[m - i + 1]
            BY <2>2, <2>3, <3>1
        <3>3. n - i + 1 \in 1 .. Len(stop)
            BY <1>4, <2>1, <3>1
        <3>4. text[(m - n) + (n - i + 1)] = stop[n - i + 1]
            BY <1>4, <3>1, <3>3 DEF Differs
        <3> QED
            BY <3>1, <3>2, <3>4
    <2>7. n <= m
        BY <1>1
    <2>8. SubSeq(ra, 1, n) = SubSeq(rt, 1, n)
        BY <2>5, <2>6
    <2> QED
        BY <2>4, <2>7, <2>8 DEF IsSuffix, IsPrefix, ra, rt, a
<1>5. stops = {} => S = {0}
    OBVIOUS
<1>6. \A n \in 1 .. m : \A stop \in stops : n < Len(stop) /\ ~Differs(stop, text, m - n) => n \in S
    BY <1>4
<1> HIDE DEF S, m
<1>7. Max(S) \in 0 .. m /\ (stops = {} => Max(S) = 0)
    <2> DEFINE k == Max(S)
    <2> HIDE DEF k
    <2>1. k \in S
        BY <1>3 DEF k
    <2>2. k \in 0 .. m
        BY <1>1, <2>1
    <2>3. stops = {} => k = 0
        BY <1>5, <2>1
    <2> QED
        BY <2>2, <2>3 DEF k
<1>8. \A n \in 1 .. m : \A stop \in stops : n < Len(stop) /\ ~Differs(stop, text, m - n) => n <= Max(S)
    BY <1>3, <1>6
<1> QED
    BY <1>2, <1>7, <1>8 DEF m

\* The text up to the first stop string.
CutAt(stops, text) ==
    IF Matches(stops, text) = {} THEN text ELSE SubSeq(text, 1, Min(Matches(stops, text)))

\* What is cut there has none.
LEMMA CutFacts ==
    ASSUME NEW T, NEW text \in Seq(T), NEW stops, Stops(stops)
    PROVE  CutAt(stops, text) \in Seq(T) /\ Matches(stops, CutAt(stops, text)) = {}
<1>1. CASE Matches(stops, text) = {}
    BY <1>1 DEF CutAt
<1>2. CASE Matches(stops, text) # {}
    <2> DEFINE n == Min(Matches(stops, text))
               u == SubSeq(text, 1, n)
    <2>1. n \in Matches(stops, text) /\ n \in 0 .. Len(text) /\ \A k \in Matches(stops, text) : n <= k
        <3>1. Matches(stops, text) \in SUBSET Nat /\ Matches(stops, text) \subseteq 0 .. Len(text)
            BY MatchesNat
        <3> QED
            BY <1>2, <3>1, MinFacts
    <2>2. CutAt(stops, text) = u
        BY <1>2 DEF CutAt
    <2>3. u \in Seq(T) /\ Len(u) = n /\ \A i \in 1 .. n : u[i] = text[i]
        BY <2>1
    <2> HIDE DEF n, u
    <2>4. ASSUME NEW at \in Matches(stops, u) PROVE FALSE
        <3>1. at \in 0 .. n
            BY <2>3, MatchesNat
        <3>2. PICK stop \in stops : at + Len(stop) <= n /\ ~Differs(stop, u, at)
            BY <2>3, MatchesIs
        <3>3. Len(stop) \in Nat /\ Len(stop) # 0
            BY DEF Stops
        <3>4. ~Differs(stop, text, at)
            <4> SUFFICES ASSUME NEW i \in 1 .. Len(stop), at + i <= Len(text), text[at + i] # stop[i] PROVE FALSE
                BY DEF Differs
            <4>1. at + i \in 1 .. n
                BY <2>1, <3>1, <3>2, <3>3
            <4>2. u[at + i] # stop[i] /\ at + i <= Len(u)
                BY <2>3, <4>1
            <4> QED
                BY <3>2, <4>2 DEF Differs
        <3>5. at \in 0 .. Len(text) /\ at + Len(stop) <= Len(text)
            BY <2>1, <3>1, <3>2, <3>3
        <3>6. at \in Matches(stops, text)
            BY <3>4, <3>5, MatchesIs
        <3>7. n <= at
            BY <2>1, <3>6
        <3> QED
            BY <2>1, <3>1, <3>2, <3>3, <3>7
    <2> QED
        BY <2>2, <2>3, <2>4
<1> QED
    BY <1>1, <1>2

\* Where there is no stop string there is none in a beginning.
LEMMA MatchesBegin ==
    ASSUME NEW T, NEW p \in Seq(T), NEW q \in Seq(T), Begins(p, q), NEW stops, Stops(stops)
    PROVE  Matches(stops, p) \subseteq Matches(stops, q)
<1> SUFFICES ASSUME NEW at \in Matches(stops, p) PROVE at \in Matches(stops, q)
    OBVIOUS
<1>1. Len(p) <= Len(q) /\ Len(p) \in Nat /\ Len(q) \in Nat /\ \A i \in 1 .. Len(p) : q[i] = p[i]
    BY DEF Begins
<1>2. at \in 0 .. Len(p)
    BY MatchesNat
<1>3. PICK stop \in stops : at + Len(stop) <= Len(p) /\ ~Differs(stop, p, at)
    BY MatchesIs
<1>4. Len(stop) \in Nat
    BY DEF Stops
<1>5. ~Differs(stop, q, at)
    <2> SUFFICES ASSUME NEW i \in 1 .. Len(stop), at + i <= Len(q), q[at + i] # stop[i] PROVE FALSE
        BY DEF Differs
    <2>1. at + i \in 1 .. Len(p)
        BY <1>1, <1>2, <1>3, <1>4
    <2>2. p[at + i] # stop[i] /\ at + i <= Len(p)
        BY <1>1, <2>1
    <2> QED
        BY <1>3, <2>2 DEF Differs
<1>6. at \in 0 .. Len(q) /\ at + Len(stop) <= Len(q)
    BY <1>1, <1>2, <1>3, <1>4
<1> QED
    BY <1>5, <1>6, MatchesIs

\* Whatever was said of a text and is held of it: no stop string begins in it.
Scanned(stops, said, held) ==
    /\ Dead(stops, said \o held, Len(said)) /\ Matches(stops, said \o held) = {}
    /\ stops = {} => held = <<>>

\* A new scanner has let nothing pass.
LEMMA ScannedNew ==
    ASSUME NEW stops, Stops(stops)
    PROVE  Scanned(stops, <<>>, <<>>)
<1>1. <<>> \o <<>> = <<>> /\ Len(<<>>) = 0 /\ <<>> \in Seq(Character)
    OBVIOUS
<1>2. Matches(stops, <<>>) = {}
    <2> SUFFICES ASSUME NEW at \in Matches(stops, <<>>) PROVE FALSE
        OBVIOUS
    <2>1. at \in 0 .. 0
        BY <1>1, MatchesNat
    <2>2. PICK stop \in stops : at + Len(stop) <= 0
        BY <1>1, MatchesIs
    <2>3. Len(stop) \in Nat /\ Len(stop) # 0
        BY DEF Stops
    <2> QED
        BY <2>1, <2>2, <2>3
<1>3. Dead(stops, <<>>, 0)
    BY DEF Dead
<1> QED
    BY <1>1, <1>2, <1>3 DEF Scanned

\* All the text until now, and what is behind the part that was said.
LEMMA ScanWhole ==
    ASSUME NEW T, NEW said \in Seq(T), NEW held \in Seq(T), NEW delta \in Seq(T), NEW stops, Stops(stops),
           Scanned(stops, said, held)
    PROVE  /\ held \o delta \in Seq(T) /\ (said \o held) \o delta = said \o (held \o delta)
           /\ Dead(stops, said \o (held \o delta), Len(said))
<1> DEFINE p == said \o held
           q == p \o delta
<1>1. p \in Seq(T) /\ q \in Seq(T) /\ held \o delta \in Seq(T)
    OBVIOUS
<1>2. q = said \o (held \o delta)
    BY ConcatAssociative
<1>3. Begins(p, q)
    <2> HIDE DEF p
    <2>1. Len(q) = Len(p) + Len(delta) /\ Len(delta) \in Nat /\ Len(p) \in Nat /\ \A i \in 1 .. Len(p) : q[i] = p[i]
        BY <1>1
    <2> HIDE DEF q
    <2> QED
        BY <2>1 DEF Begins
<1>4. Dead(stops, p, Len(said)) /\ Len(said) \in Nat
    BY DEF Scanned
<1> HIDE DEF p, q
<1>5. Dead(stops, q, Len(said))
    BY <1>1, <1>3, <1>4, DeadOn
<1> QED
    BY <1>1, <1>2, <1>5 DEF p, q

\* A stop string in what is held is the first of all.
LEMMA ScanStops ==
    ASSUME NEW T, NEW said \in Seq(T), NEW text \in Seq(T), NEW stops, Stops(stops),
           Dead(stops, said \o text, Len(said))
    PROVE  /\ Matches(stops, text) = {} <=> Matches(stops, said \o text) = {}
           /\ Matches(stops, text) # {} =>
                 /\ SubSeq(text, 1, Min(Matches(stops, text))) \in Seq(T)
                 /\ said \o SubSeq(text, 1, Min(Matches(stops, text))) = CutAt(stops, said \o text)
<1> DEFINE n == Len(said)
           A == Matches(stops, text)
           B == Matches(stops, said \o text)
<1>1. /\ \A at : at \in A => n + at \in B
      /\ \A at : at \in B => at - n \in A /\ at \in Nat
    BY MatchesBehind
<1>2. A \subseteq 0 .. Len(text) /\ n \in Nat /\ Len(text) \in Nat
    BY MatchesNat
<1>3. A = {} <=> B = {}
    BY <1>1
<1>4. ASSUME A # {}
      PROVE  /\ SubSeq(text, 1, Min(A)) \in Seq(T)
             /\ said \o SubSeq(text, 1, Min(A)) = CutAt(stops, said \o text)
    <2> DEFINE a == Min(A)
               b == Min(B)
    <2> HIDE DEF A, B, a, b, n
    <2>1. a \in A /\ \A k \in A : a <= k
        <3>1. A \in SUBSET Nat
            BY <1>2
        <3> QED
            BY <1>4, <3>1, MinFacts DEF a
    <2>2. b \in B /\ \A k \in B : b <= k
        <3>1. B \in SUBSET Nat /\ B # {}
            BY <1>1, <1>3, <1>4
        <3> QED
            BY <3>1, MinFacts DEF b
    <2>3. b = n + a
        <3>1. n + a \in B /\ b - n \in A /\ b \in Nat /\ a \in Nat
            BY <1>1, <1>2, <2>1, <2>2
        <3>2. b <= n + a /\ a <= b - n
            BY <2>1, <2>2, <3>1
        <3> QED
            BY <1>2, <3>1, <3>2
    <2>4. a \in 0 .. Len(text)
        BY <1>2, <2>1
    <2> DEFINE u == SubSeq(text, 1, a)
               whole == said \o text
               v == said \o u
               w == SubSeq(whole, 1, n + a)
    <2>5. u \in Seq(T) /\ Len(u) = a /\ \A i \in 1 .. a : u[i] = text[i]
        BY <2>4
    <2> HIDE DEF u
    <2>6. v \in Seq(T) /\ Len(v) = n + a /\ \A i \in 1 .. n + a : v[i] = IF i <= n THEN said[i] ELSE u[i - n]
        <3>1. /\ v \in Seq(T) /\ Len(v) = Len(said) + Len(u)
              /\ \A i \in 1 .. Len(said) + Len(u) : v[i] = IF i <= Len(said) THEN said[i] ELSE u[i - Len(said)]
            BY <2>5, ConcatProperties
        <3> HIDE DEF v
        <3> QED
            BY <2>5, <3>1 DEF n
    <2>7. whole \in Seq(T) /\ Len(whole) = n + Len(text)
          /\ \A i \in 1 .. n + Len(text) : whole[i] = IF i <= n THEN said[i] ELSE text[i - n]
        <3>1. /\ whole \in Seq(T) /\ Len(whole) = Len(said) + Len(text)
              /\ \A i \in 1 .. Len(said) + Len(text) : whole[i] = IF i <= Len(said) THEN said[i] ELSE text[i - Len(said)]
            BY ConcatProperties
        <3> HIDE DEF whole
        <3> QED
            BY <3>1 DEF n
    <2> HIDE DEF v, whole
    <2>8. w \in Seq(T) /\ Len(w) = n + a /\ \A i \in 1 .. n + a : w[i] = whole[i]
        <3>1. n + a \in 0 .. Len(whole)
            BY <1>2, <2>4, <2>7
        <3> QED
            BY <2>7, <3>1
    <2> HIDE DEF w
    <2>9. \A i \in 1 .. n + a : v[i] = w[i]
        <3> SUFFICES ASSUME NEW i \in 1 .. n + a PROVE v[i] = w[i]
            OBVIOUS
        <3>1. i \in 1 .. n + Len(text) /\ (~(i <= n) => i - n \in 1 .. a)
            BY <1>2, <2>4
        <3> QED
            BY <2>5, <2>6, <2>7, <2>8, <3>1
    <2>10. v = w
        BY <2>6, <2>8, <2>9, SeqEqual
    <2>11. CutAt(stops, whole) = w
        BY <2>2, <2>3 DEF CutAt, B, b, whole, w
    <2> QED
        BY <2>5, <2>10, <2>11 DEF u, v, whole, a
<1> QED
    BY <1>3, <1>4

\* Joining three texts.
LEMMA Rejoin ==
    ASSUME NEW T, NEW s \in Seq(T), NEW a \in Seq(T), NEW b \in Seq(T)
    PROVE  (s \o a) \o b = s \o (a \o b) /\ s \o a \in Seq(T) /\ Len(s \o a) = Len(s) + Len(a)
<1>1. (s \o a) \o b = s \o (a \o b)
    BY ConcatAssociative
<1>2. s \o a \in Seq(T) /\ Len(s \o a) = Len(s) + Len(a)
    OBVIOUS
<1> QED
    BY <1>1, <1>2

\* The parts of a scan.
LEMMA Fields ==
    ASSUME NEW a, NEW b, NEW c, NEW scan, scan = [text |-> a, stopped |-> b, held |-> c]
    PROVE  scan.text = a /\ scan.stopped = b /\ scan.held = c
OBVIOUS

\* Where a stop string that is not found whole might begin, the text is held.
LEMMA DeadFurther ==
    ASSUME NEW T, NEW n \in Nat, NEW text \in Seq(T), NEW whole \in Seq(T), NEW stops, Stops(stops),
           Len(whole) = n + Len(text), \A i \in 1 .. Len(text) : whole[n + i] = text[i],
           Dead(stops, whole, n), Matches(stops, text) = {}, NEW m, m = n + (Len(text) - Kept(stops, text))
    PROVE  Dead(stops, whole, m)
<1>1. /\ Kept(stops, text) \in 0 .. Len(text) /\ (stops = {} => Kept(stops, text) = 0)
      /\ \A k \in 1 .. Len(text) : \A stop \in stops :
            k < Len(stop) /\ ~Differs(stop, text, Len(text) - k) => k <= Kept(stops, text)
    BY KeptFacts
<1>2. m \in Nat /\ Len(text) \in Nat
    BY <1>1
<1> SUFFICES ASSUME NEW at \in Nat, at < m, NEW stop \in stops, ~Differs(stop, whole, at) PROVE FALSE
    <2>1. \A at \in 0 .. m - 1 : at \in Nat /\ at < m
        BY <1>2
    <2> QED
        BY <2>1 DEF Dead
<1>3. stop \in Seq(STRING) /\ Len(stop) \in Nat
    BY DEF Stops
<1>4. ~(at < n)
    <2>1. at < n => at \in 0 .. n - 1
        OBVIOUS
    <2> QED
        BY <2>1 DEF Dead
<1> DEFINE k == Len(text) - (at - n)
<1>5. k \in 1 .. Len(text) /\ at - n \in 0 .. Len(text) /\ Len(text) - k = at - n /\ n + (at - n) = at
    BY <1>1, <1>2, <1>4
<1>6. ~Differs(stop, text, at - n)
    <2> SUFFICES ASSUME NEW i \in 1 .. Len(stop), (at - n) + i <= Len(text), text[(at - n) + i] # stop[i]
                 PROVE  FALSE
        BY DEF Differs
    <2>0. n \in Nat /\ at \in Nat /\ at - n \in 0 .. Len(text) /\ Len(text) \in Nat /\ Len(stop) \in Nat
          /\ i \in 1 .. Len(stop) /\ (at - n) + i <= Len(text)
        BY <1>2, <1>3, <1>5
    <2>1. (at - n) + i \in 1 .. Len(text) /\ n + ((at - n) + i) = at + i
        BY ONLY <2>0
    <2>2. whole[at + i] # stop[i] /\ at + i <= Len(whole)
        BY <1>2, <2>1
    <2> QED
        BY <2>2 DEF Differs
<1>7. CASE (at - n) + Len(stop) <= Len(text)
    <2>1. at - n \in Matches(stops, text)
        BY <1>5, <1>6, <1>7, MatchesIs
    <2> QED
        BY <2>1
<1>8. CASE ~((at - n) + Len(stop) <= Len(text))
    <2>1. k < Len(stop)
        BY <1>2, <1>3, <1>5, <1>8
    <2>2. k <= Kept(stops, text)
        BY <1>1, <1>5, <1>6, <2>1
    <2> QED
        BY <1>1, <1>2, <1>4, <2>2
<1> QED
    BY <1>7, <1>8

\* No stop string found: the part that might begin one is held, the rest goes out.
LEMMA ScanHolds ==
    ASSUME NEW T, NEW said \in Seq(T), NEW text \in Seq(T), NEW stops, Stops(stops),
           Dead(stops, said \o text, Len(said)), Matches(stops, text) = {},
           NEW out, out = Len(text) - Kept(stops, text),
           NEW a, a = SubSeq(text, 1, out), NEW b, b = SubSeq(text, out + 1, Len(text))
    PROVE  /\ a \in Seq(T) /\ b \in Seq(T) /\ (said \o a) \o b = said \o text
           /\ Scanned(stops, said \o a, b)
<1>1. /\ Kept(stops, text) \in 0 .. Len(text) /\ (stops = {} => Kept(stops, text) = 0)
      /\ \A k \in 1 .. Len(text) : \A stop \in stops :
            k < Len(stop) /\ ~Differs(stop, text, Len(text) - k) => k <= Kept(stops, text)
    BY KeptFacts
<1>2. out \in 0 .. Len(text) /\ Len(text) \in Nat /\ (stops = {} => out = Len(text))
    BY <1>1
<1>3. a \in Seq(T) /\ b \in Seq(T) /\ a \o b = text /\ Len(a) = out
    <2>1. Len(text) \in out .. Len(text) /\ SubSeq(text, 1, Len(text)) = text
        BY <1>2
    <2>2. Len(a) = out
        BY <1>2
    <2> QED
        BY <1>2, <2>1, <2>2, SplitAt
<1>4. stops = {} => b = <<>>
    BY <1>2
<1>5. (said \o a) \o b = said \o text /\ said \o a \in Seq(T) /\ Len(said \o a) = Len(said) + out
    <2>0. said \in Seq(T) /\ a \in Seq(T) /\ b \in Seq(T)
        BY <1>3
    <2>1. (said \o a) \o b = said \o (a \o b) /\ said \o a \in Seq(T) /\ Len(said \o a) = Len(said) + Len(a)
        BY ONLY <2>0, Rejoin
    <2> QED
        BY <1>3, <2>1
<1> DEFINE whole == said \o text
           n == Len(said)
<1>6. n \in Nat /\ whole \in Seq(T) /\ Len(whole) = n + Len(text)
      /\ \A i \in 1 .. Len(text) : whole[n + i] = text[i]
    OBVIOUS
<1>7. Dead(stops, whole, n) /\ (Matches(stops, text) = {} <=> Matches(stops, whole) = {})
    BY ScanStops
<1>8. Len(said \o a) = n + (Len(text) - Kept(stops, text))
    BY <1>5
<1> HIDE DEF whole, n
<1>9. Dead(stops, whole, Len(said \o a))
    BY <1>6, <1>7, <1>8, DeadFurther
<1>10. Matches(stops, whole) = {}
    BY <1>7
<1>11. (said \o a) \o b = whole
    BY <1>5 DEF whole
<1>12. Scanned(stops, said \o a, b)
    BY <1>4, <1>9, <1>10, <1>11 DEF Scanned
<1> QED
    BY <1>3, <1>5, <1>12

\* What a scan makes of a text, of which `said` has been handed out.
Scans(T, stops, said, text, scan) ==
    /\ scan.text \in Seq(T) /\ scan.held \in Seq(T)
    /\ scan.stopped <=> Matches(stops, text) # {}
    /\ scan.stopped => said \o scan.text = CutAt(stops, text) /\ scan.held = <<>>
    /\ ~scan.stopped => /\ (said \o scan.text) \o scan.held = text
                        /\ Scanned(stops, said \o scan.text, scan.held)

\* What one delta gives: everything read so far is handed out or held, or cut
\* at the first stop string.
LEMMA ScanPushIs ==
    ASSUME NEW T, NEW said \in Seq(T), NEW held \in Seq(T), NEW delta \in Seq(T), NEW stops, Stops(stops),
           Scanned(stops, said, held)
    PROVE  Scans(T, stops, said, (said \o held) \o delta, ScanPush(stops, held, delta))
<1> DEFINE text == held \o delta
           whole == said \o text
           out == Len(text) - Kept(stops, text)
           a == SubSeq(text, 1, out)
           b == SubSeq(text, out + 1, Len(text))
           c == SubSeq(text, 1, Min(Matches(stops, text)))
           scan == ScanPush(stops, held, delta)
<1>1. text \in Seq(T) /\ (said \o held) \o delta = whole /\ Dead(stops, whole, Len(said))
    BY ScanWhole
<1>2. scan = IF Matches(stops, text) # {}
             THEN [text |-> c, stopped |-> TRUE, held |-> <<>>]
             ELSE [text |-> a, stopped |-> FALSE, held |-> b]
    BY DEF ScanPush
<1> HIDE DEF text, scan
<1>3. /\ Matches(stops, text) = {} <=> Matches(stops, whole) = {}
      /\ Matches(stops, text) # {} => c \in Seq(T) /\ said \o c = CutAt(stops, whole)
    BY <1>1, ScanStops
<1>4. Matches(stops, text) = {} =>
         /\ a \in Seq(T) /\ b \in Seq(T) /\ (said \o a) \o b = whole
         /\ Scanned(stops, said \o a, b)
    BY <1>1, ScanHolds
<1> HIDE DEF whole, out, a, b, c
<1> SUFFICES Scans(T, stops, said, whole, scan)
    BY <1>1 DEF scan
<1>5. CASE Matches(stops, text) # {}
    <2>0. scan = [text |-> c, stopped |-> TRUE, held |-> <<>>]
        BY <1>2, <1>5
    <2>1. scan.text = c /\ scan.stopped = TRUE /\ scan.held = <<>>
        BY ONLY <2>0, Fields
    <2>2. <<>> \in Seq(T)
        OBVIOUS
    <2> QED
        BY <1>1, <1>3, <1>5, <2>1, <2>2 DEF Scans
<1>6. CASE Matches(stops, text) = {}
    <2>0. scan = [text |-> a, stopped |-> FALSE, held |-> b]
        BY <1>2, <1>6
    <2>1. scan.text = a /\ scan.stopped = FALSE /\ scan.held = b
        BY ONLY <2>0, Fields
    <2> QED
        BY <1>1, <1>3, <1>4, <1>6, <2>1 DEF Scans
<1> QED
    BY <1>5, <1>6

\* The last scan hands out what is left, up to the first stop string.
LEMMA ScanFinishIs ==
    ASSUME NEW T, NEW said \in Seq(T), NEW held \in Seq(T), NEW delta \in Seq(T), NEW stops, Stops(stops),
           Scanned(stops, said, held)
    PROVE  /\ ScanFinish(stops, held, delta).text \in Seq(T)
           /\ said \o ScanFinish(stops, held, delta).text = CutAt(stops, (said \o held) \o delta)
<1> DEFINE text == held \o delta
           whole == said \o text
           scan == ScanFinish(stops, held, delta)
<1>1. text \in Seq(T) /\ (said \o held) \o delta = whole /\ Dead(stops, whole, Len(said))
    BY ScanWhole
<1>2. scan.text = IF Matches(stops, text) # {} THEN SubSeq(text, 1, Min(Matches(stops, text))) ELSE text
    BY DEF ScanFinish
<1> HIDE DEF text, scan
<1>3. /\ Matches(stops, text) = {} <=> Matches(stops, whole) = {}
      /\ Matches(stops, text) # {} =>
            /\ SubSeq(text, 1, Min(Matches(stops, text))) \in Seq(T)
            /\ said \o SubSeq(text, 1, Min(Matches(stops, text))) = CutAt(stops, whole)
    BY <1>1, ScanStops
<1>4. Matches(stops, whole) = {} => CutAt(stops, whole) = said \o text
    BY DEF CutAt
<1> HIDE DEF whole
<1> QED
    BY <1>1, <1>2, <1>3, <1>4 DEF scan

-----------------------------------------------------------------------------
(* What StreamExact asks of the tokens, and what it gives the decoder.      *)

\* No stop string has what a character is replaced by.
Clear(stops) == \A stop \in stops : \A i \in DOMAIN stop : stop[i] # Replacement

\* A stop string without it is found in the text before it is whole as well.
LEMMA MatchesTrim ==
    ASSUME NEW T, NEW text \in Seq(T), NEW stops, Stops(stops), Clear(stops)
    PROVE  /\ Matches(stops, Trim(text)) = Matches(stops, text)
           /\ Matches(stops, text) # {} => CutAt(stops, Trim(text)) = CutAt(stops, text)
<1> DEFINE n == TrimmedLen(text)
           p == Trim(text)
<1>1. /\ n \in 0 .. Len(text) /\ (n = 0 \/ text[n] # Replacement)
      /\ \A i \in n + 1 .. Len(text) : text[i] = Replacement
      /\ p \in Seq(T) /\ Len(p) = n /\ \A i \in 1 .. n : p[i] = text[i]
    BY TrimFacts
<1>2. p = SubSeq(text, 1, n) /\ Len(text) \in Nat
    BY DEF Trim
<1> HIDE DEF n, p
<1>3. Begins(p, text)
    BY <1>1, <1>2 DEF Begins
<1>4. Matches(stops, p) \subseteq Matches(stops, text)
    BY <1>1, <1>3, MatchesBegin
<1>5. ASSUME NEW at \in Matches(stops, text) PROVE at \in Matches(stops, p)
    <2>1. /\ at \in 0 .. Len(text)
          /\ \E stop \in stops : at + Len(stop) <= Len(text) /\ ~Differs(stop, text, at)
        BY MatchesIs
    <2>2. PICK stop \in stops : at + Len(stop) <= Len(text) /\ ~Differs(stop, text, at)
        BY <2>1
    <2> DEFINE m == Len(stop)
    <2>3. m \in Nat /\ m >= 1 /\ DOMAIN stop = 1 .. m
        BY DEF Stops
    <2> HIDE DEF m
    <2>4. ASSUME NEW i \in 1 .. m PROVE text[at + i] = stop[i] /\ at + i <= Len(text)
        <3>1. at + i <= Len(text)
            BY <1>2, <2>1, <2>2, <2>3 DEF m
        <3> QED
            BY <2>2, <3>1 DEF Differs, m
    <2>5. at + m <= n
        <3>1. text[at + m] = stop[m] /\ at + m <= Len(text) /\ m \in DOMAIN stop
            BY <2>3, <2>4
        <3>2. text[at + m] # Replacement
            BY <3>1 DEF Clear
        <3>3. ~(at + m \in n + 1 .. Len(text))
            BY <1>1, <3>2
        <3> QED
            BY <1>1, <1>2, <2>1, <2>3, <3>1, <3>3
    <2>6. ~Differs(stop, p, at)
        <3> SUFFICES ASSUME NEW i \in 1 .. m, at + i <= Len(p), p[at + i] # stop[i] PROVE FALSE
            BY DEF Differs, m
        <3>1. at + i \in 1 .. n
            BY <1>1, <2>1, <2>3
        <3> QED
            BY <1>1, <2>4, <3>1
    <2>7. at \in 0 .. Len(p) /\ at + Len(stop) <= Len(p)
        BY <1>1, <2>1, <2>3, <2>5 DEF m
    <2> QED
        BY <1>1, <2>6, <2>7, MatchesIs
<1>6. Matches(stops, p) = Matches(stops, text)
    BY <1>4, <1>5
<1>7. ASSUME Matches(stops, text) # {}
      PROVE  CutAt(stops, p) = CutAt(stops, text)
    <2> DEFINE k == Min(Matches(stops, text))
    <2>1. Matches(stops, text) \in SUBSET Nat /\ Matches(stops, p) \subseteq 0 .. n
        BY <1>1, MatchesNat
    <2>2. k \in Matches(stops, text)
        BY <1>7, <2>1, MinFacts
    <2>3. k \in 0 .. n
        BY <1>6, <2>1, <2>2
    <2>4. CutAt(stops, p) = SubSeq(p, 1, k) /\ CutAt(stops, text) = SubSeq(text, 1, k)
        BY <1>6, <1>7 DEF CutAt
    <2> HIDE DEF k
    <2>5. SubSeq(SubSeq(text, 1, n), 1, k) = SubSeq(text, 1, k)
        <3>1. /\ SubSeq(p, 1, k) \in Seq(T) /\ Len(SubSeq(p, 1, k)) = k
              /\ \A i \in 1 .. k : SubSeq(p, 1, k)[i] = p[i]
            BY <1>1, <2>3
        <3>2. /\ SubSeq(text, 1, k) \in Seq(T) /\ Len(SubSeq(text, 1, k)) = k
              /\ \A i \in 1 .. k : SubSeq(text, 1, k)[i] = text[i]
            BY <1>1, <1>2, <2>3
        <3>3. \A i \in 1 .. k : SubSeq(p, 1, k)[i] = SubSeq(text, 1, k)[i]
            BY <1>1, <2>3, <3>1, <3>2
        <3>4. SubSeq(p, 1, k) = SubSeq(text, 1, k)
            BY <3>1, <3>2, <3>3, SeqEqual
        <3> QED
            BY <1>2, <3>4
    <2> QED
        BY <1>2, <2>4, <2>5
<1> QED
    BY <1>6, <1>7 DEF p

\* Nor does what begins a text that keeps its first character lose one.
LEMMA StripBefore ==
    ASSUME NEW T, NEW a \in Seq(T), NEW b \in Seq(T), Begins(Trim(a), b), Strip(b) = b
    PROVE  Strip(a) = a
<1> SUFFICES ASSUME StripsLeadingSpace /\ a[1] = " ", a # <<>> PROVE FALSE
    BY DEF Strip
<1> DEFINE n == TrimmedLen(a)
<1>4. /\ n \in 0 .. Len(a) /\ (n = 0 \/ a[n] # Replacement) /\ (\A i \in n + 1 .. Len(a) : a[i] = Replacement)
      /\ Len(Trim(a)) = n /\ \A i \in 1 .. n : Trim(a)[i] = a[i]
    BY TrimFacts
<1> HIDE DEF n
<1>5. a[1] # Replacement
    BY DEF Replacement
<1>55. a \in Seq(T) /\ a # <<>> /\ b \in Seq(T) /\ Begins(Trim(a), b)
    OBVIOUS
<1>56. Len(a) >= 1 /\ Len(a) \in Nat
    BY ONLY <1>55
<1>6. 1 \in 1 .. n
    BY ONLY <1>4, <1>5, <1>56
<1>7. b[1] = a[1] /\ Len(b) >= 1
    BY ONLY <1>4, <1>6, <1>55 DEF Begins
<1>8. b # <<>> /\ Len(Tail(b)) = Len(b) - 1 /\ Len(b) \in Nat
    BY ONLY <1>7, <1>55
<1>9. Strip(b) = Tail(b)
    BY <1>7, <1>8 DEF Strip
<1>10. Tail(b) = b
    BY <1>9
<1> QED
    BY ONLY <1>8, <1>10

\* A text that loses no space has lost none before.
LEMMA PlainBefore ==
    ASSUME NEW p \in Seq(Token), NEW q \in Seq(Token), Decode(p \o q) = Lossy(Spelled(p \o q))
    PROVE  Decode(p) = Lossy(Spelled(p))
<1> DEFINE a == Lossy(Spelled(p))
           b == Lossy(Spelled(p \o q))
<1>1. a \in Seq(Character) /\ b \in Seq(Character)
    <2>1. p \o q \in Seq(Token)
        OBVIOUS
    <2> QED
        BY <2>1, DecodeFacts
<1>2. Begins(Trim(a), b)
    <2>1. Spelled(p) \in Seq(Character) /\ Spelled(q) \in Seq(Character)
        BY SpelledType
    <2>2. Spelled(p \o q) = Spelled(p) \o Spelled(q)
        BY SpelledConcat
    <2> QED
        BY <2>1, <2>2, LossyGrows, CharFacts
<1>3. Strip(b) = b
    BY DEF Decode
<1> HIDE DEF a, b
<1> SUFFICES Strip(a) = a
    BY DEF Decode, a
<1> QED
    BY <1>1, <1>2, <1>3, StripBefore

\* A decode that goes on from a whole character is what follows joined on, if no
\* space is stripped behind it.
LEMMA SteadyIf ==
    ASSUME NEW ids \in Seq(Token),
           \/ StripsLeadingSpace /\ ids # <<>> => Bytes[ids[1]] # <<>>
           \/ Decode(ids) = Lossy(Spelled(ids))
    PROVE  Steady(ids)
<1> SUFFICES ASSUME NEW e \in 1 .. Len(ids), EndsWhole(ids, e), NEW to \in e .. Len(ids)
             PROVE  Decode(SubSeq(ids, 1, to)) = Decode(SubSeq(ids, 1, e)) \o Lossy(Spelled(SubSeq(ids, e + 1, to)))
    BY DEF Steady
<1> DEFINE p == SubSeq(ids, 1, e)
           q == SubSeq(ids, e + 1, to)
           u == SubSeq(ids, 1, to)
<1>1. p \in Seq(Token) /\ q \in Seq(Token) /\ p \o q = u
    BY SplitAt
<1>2. p # <<>> /\ p[1] = ids[1] /\ ids # <<>>
    OBVIOUS
<1>3. ~EndsBroken(Decode(p))
    BY DEF EndsWhole
<1>4. u \in Seq(Token) /\ Begins(u, ids) /\ Len(u) = to
    BY DEF Begins
<1> HIDE DEF p, q, u
<1>5. Lossy(Spelled(p)) # <<>> \/ Decode(u) = Lossy(Spelled(u))
    <2>1. CASE Bytes[ids[1]] # <<>>
        <3>1. Spelled(p) # <<>> /\ Spelled(p) \in Seq(Character)
            BY <1>1, <1>2, <2>1, SpelledSome, SpelledType
        <3> QED
            BY <3>1, LossyFacts, CharFacts
    <2>2. CASE ~StripsLeadingSpace
        BY <2>2 DEF Decode, Strip
    <2>3. CASE Decode(ids) = Lossy(Spelled(ids))
        <3> DEFINE r == SubSeq(ids, to + 1, Len(ids))
        <3>1. SubSeq(ids, 1, to) \in Seq(Token) /\ r \in Seq(Token) /\ SubSeq(ids, 1, to) \o r = SubSeq(ids, 1, Len(ids))
            <4>1. to \in 0 .. Len(ids) /\ Len(ids) \in to .. Len(ids)
                OBVIOUS
            <4> QED
                BY <4>1, SplitAt
        <3>4. SubSeq(ids, 1, Len(ids)) = ids
            OBVIOUS
        <3> HIDE DEF r
        <3>2. u \o r = ids
            BY <3>1, <3>4 DEF u
        <3>3. Decode(u \o r) = Lossy(Spelled(u \o r))
            BY <2>3, <3>2
        <3> QED
            BY <1>4, <3>1, <3>3, PlainBefore
    <2> QED
        BY <1>2, <2>1, <2>2, <2>3
<1>6. Decode(p \o q) = Decode(p) \o Lossy(Spelled(q))
    BY <1>1, <1>3, <1>5, DecodeBehind
<1> QED
    BY <1>1, <1>6 DEF p, q, u

\* No character is cut at all.
AllWhole(ids) == \A k \in DOMAIN ids : EndsWhole(ids, k)

\* What the properties assume of the tokens is enough.
LEMMA SoundIf ==
    ASSUME NEW ids \in Seq(Token)
    PROVE  /\ Settles(ids) => Sound(ids)
           /\ AllWhole(ids) /\ Decode(ids) = Lossy(Spelled(ids)) => Sound(ids)
<1>1. ASSUME Settles(ids) PROVE Sound(ids)
    <2>1. Healing(ids) /\ (StripsLeadingSpace /\ ids # <<>> => Bytes[ids[1]] # <<>>)
        BY <1>1 DEF Settles, Healing
    <2> QED
        BY <2>1, SteadyIf DEF Sound
<1>2. ASSUME AllWhole(ids), Decode(ids) = Lossy(Spelled(ids)) PROVE Sound(ids)
    <2>1. \A e \in 1 .. Len(ids) - SPLIT_CHAR_BACKOFF :
             EndsWhole(ids, e) /\ e \in e .. e + SPLIT_CHAR_BACKOFF
        BY <1>2, DecodeAssumption DEF AllWhole
    <2>2. Healing(ids)
        BY <2>1 DEF Healing
    <2>3. Steady(ids)
        BY <1>2, SteadyIf
    <2> QED
        BY <2>2, <2>3 DEF Sound
<1> QED
    BY <1>1, <1>2

\* What is whole was whole before.
LEMMA WholeBefore ==
    ASSUME NEW ids \in Seq(Token), NEW tok \in Token, AllWhole(Append(ids, tok))
    PROVE  AllWhole(ids)
<1> SUFFICES ASSUME NEW k \in DOMAIN ids PROVE EndsWhole(ids, k)
    BY DEF AllWhole
<1>1. k \in 0 .. Len(ids) /\ k \in DOMAIN Append(ids, tok) /\ k \in k .. Len(ids)
    OBVIOUS
<1>2. EndsWhole(Append(ids, tok), k)
    BY <1>1 DEF AllWhole
<1> QED
    BY <1>1, <1>2, PrefixKept

\* Whole to its end, a text hands out everything.
LEMMA WholeEnd ==
    ASSUME NEW ids \in Seq(Token), AllWhole(ids)
    PROVE  ~EndsBroken(Decode(ids))
<1>1. CASE ids = <<>>
    BY <1>1, DecodeEmpty DEF EndsBroken
<1>2. CASE ids # <<>>
    <2>1. Len(ids) \in DOMAIN ids /\ SubSeq(ids, 1, Len(ids)) = ids
        BY <1>2
    <2> QED
        BY <2>1 DEF AllWhole, EndsWhole
<1> QED
    BY <1>1, <1>2

-----------------------------------------------------------------------------
(* Types: what a decoder and a scanner are, whatever the tokens.            *)

\* What a decoder is, sound or not.
DecoderType(d, ids) ==
    /\ DOMAIN d = {"decoded_len", "stable_end", "stable_text"}
    /\ d.stable_end \in 0 .. Len(ids) /\ d.stable_text \in Seq(Character) /\ d.decoded_len \in Nat

\* Bytes are counted.
LEMMA ByteLenNat ==
    ASSUME NEW T, NEW t \in Seq(T)
    PROVE  ByteLen(t) \in Nat
<1> DEFINE S == {i \in DOMAIN t : t[i] \in {Wide, Replacement}}
<1>1. S \subseteq 1 .. Len(t) /\ Len(t) \in Nat
    OBVIOUS
<1>2. IsFiniteSet(S)
    BY <1>1, FS_Interval, FS_Subset
<1>3. Cardinality(S) \in Nat
    BY <1>2, FS_CardinalityType
<1> QED
    BY <1>1, <1>3 DEF ByteLen

\* Nothing has no bytes.
LEMMA ByteLenEmpty == ByteLen(<<>>) = 0
<1>1. {i \in DOMAIN <<>> : <<>>[i] \in {Wide, Replacement}} = {}
    OBVIOUS
<1>2. Len(<<>>) = 0
    OBVIOUS
<1>3. Cardinality({}) = 0
    BY FS_EmptySet
<1> QED
    BY <1>1, <1>2, <1>3 DEF ByteLen

\* A character boundary is a position in the text.
LEMMA ClampType ==
    ASSUME NEW T, NEW t \in Seq(T), NEW idx \in Nat
    PROVE  clamp_to_char_boundary(t, idx) \in 0 .. Len(t) /\ After(t, idx) \in Seq(T)
<1> DEFINE S == {k \in 0 .. Len(t) : ByteLen(SubSeq(t, 1, k)) <= idx}
<1>1. 0 \in S
    <2>1. SubSeq(t, 1, 0) = <<>>
        OBVIOUS
    <2>2. ByteLen(SubSeq(t, 1, 0)) = 0
        BY <2>1, ByteLenEmpty
    <2>3. 0 \in 0 .. Len(t) /\ 0 <= idx
        OBVIOUS
    <2> QED
        BY <2>2, <2>3
<1>2. S \in SUBSET (0 .. Len(t)) /\ S # {} /\ Len(t) \in Nat
    BY <1>1
<1> HIDE DEF S
<1>3. Max(S) \in 0 .. Len(t)
    BY <1>2, MaxFacts
<1>4. clamp_to_char_boundary(t, idx) \in 0 .. Len(t)
    BY <1>3 DEF clamp_to_char_boundary, S
<1> DEFINE k == clamp_to_char_boundary(t, idx)
<1>5. After(t, idx) = SubSeq(t, k + 1, Len(t))
    BY DEF After
<1> HIDE DEF k
<1>6. k \in 0 .. Len(t)
    BY <1>4 DEF k
<1> QED
    BY <1>4, <1>5, <1>6

\* What is decoded anew is a text.
LEMMA FragmentType ==
    ASSUME NEW ids \in Seq(Token), NEW e \in 0 .. Len(ids), NEW to \in e .. Len(ids)
    PROVE  Fragment(ids, e, to) \in Seq(Character)
<1>1. SubSeq(ids, 1, to) \in Seq(Token) /\ SubSeq(ids, e + 1, to) \in Seq(Token)
    OBVIOUS
<1> QED
    BY <1>1, DecodeFacts, Neutral DEF Fragment

\* The frozen prefix never gives way, and never passes the tokens.
LEMMA BoundaryType ==
    ASSUME NEW ids \in Seq(Token), NEW d, d.stable_end \in 0 .. Len(ids)
    PROVE  Boundary(d, ids) \in d.stable_end .. Len(ids)
<1> DEFINE n == Len(ids)
           s == d.stable_end
           target == n - DECODE_STABLE_LOOKBACK
           tried == {e \in s + 1 .. target : e >= target - SPLIT_CHAR_BACKOFF}
           clean == {e \in tried : ~EndsBroken(Fragment(ids, s, e))}
<1>1. n \in Nat /\ s \in 0 .. n /\ target \in Int /\ target <= n
    BY DecodeAssumption
<1>2. Boundary(d, ids) = IF tried = {} THEN s
                         ELSE IF clean # {} THEN Max(clean)
                         ELSE IF Min(tried) = target - SPLIT_CHAR_BACKOFF THEN target ELSE s
    BY DEF Boundary
<1>3. clean \subseteq tried /\ tried \subseteq s + 1 .. target
    OBVIOUS
<1> HIDE DEF n, s, target, tried, clean
<1>4. clean # {} => Max(clean) \in s .. n
    <2> SUFFICES ASSUME clean # {} PROVE Max(clean) \in s .. n
        OBVIOUS
    <2>1. clean \in SUBSET (0 .. n)
        BY <1>1, <1>3
    <2>2. Max(clean) \in clean
        BY <1>1, <2>1, MaxFacts
    <2>3. Max(clean) \in s + 1 .. target
        BY <1>3, <2>2
    <2> QED
        BY ONLY <1>1, <2>3
<1>5. tried # {} => target \in s .. n
    <2> SUFFICES ASSUME NEW e \in tried PROVE target \in s .. n
        OBVIOUS
    <2>1. e \in s + 1 .. target
        BY <1>3
    <2> QED
        BY ONLY <1>1, <2>1
<1>6. s \in s .. n
    BY <1>1
<1> QED
    BY <1>2, <1>4, <1>5, <1>6 DEF n, s

\* A decoder's text and what it becomes.
LEMMA PushType ==
    ASSUME NEW ids \in Seq(Token), NEW tok \in Token, NEW d, DecoderType(d, ids)
    PROVE  /\ Push(d, Append(ids, tok)).text \in Seq(Character)
           /\ DecoderType(Push(d, Append(ids, tok)).decoder, Append(ids, tok))
<1> DEFINE v == Append(ids, tok)
           end == Boundary(d, v)
           w == advance_stable_window(d, v)
           full == w.stable_text \o Fragment(v, w.stable_end, Len(v))
           start == clamp_to_char_boundary(full, d.decoded_len)
           emit == Emitted(full, d.decoded_len)
           len == ByteLen(SubSeq(full, 1, start + Len(emit)))
           dd == [w EXCEPT !.decoded_len = len]
<1>1. v \in Seq(Token) /\ d.stable_end \in 0 .. Len(v) /\ Len(v) \in Nat /\ Len(v) \in 0 .. Len(v)
    BY DEF DecoderType
<1>2. Push(d, v) = [text |-> emit, decoder |-> dd]
    BY DEF Push
<1> HIDE DEF v
<1>3. end \in d.stable_end .. Len(v)
    BY <1>1, BoundaryType
<1>4. DOMAIN w = {"decoded_len", "stable_end", "stable_text"} /\ w.stable_end = end
      /\ w.stable_text = IF end = d.stable_end THEN d.stable_text
                         ELSE d.stable_text \o Fragment(v, d.stable_end, end)
    BY DEF advance_stable_window, DecoderType
<1> HIDE DEF end, w
<1>5. w.stable_text \in Seq(Character)
    <2>1. Fragment(v, d.stable_end, end) \in Seq(Character) /\ d.stable_text \in Seq(Character)
        BY <1>1, <1>3, FragmentType DEF DecoderType
    <2> QED
        BY <1>4, <2>1
<1>6. w.stable_end \in 0 .. Len(v) /\ Len(v) \in w.stable_end .. Len(v)
    BY <1>1, <1>3, <1>4
<1>7. full \in Seq(Character)
    <2>1. Fragment(v, w.stable_end, Len(v)) \in Seq(Character)
        BY <1>1, <1>6, FragmentType
    <2> QED
        BY <1>5, <2>1
<1> HIDE DEF full
<1>8. d.decoded_len \in Nat
    BY DEF DecoderType
<1>9. start \in 0 .. Len(full) /\ After(full, d.decoded_len) \in Seq(Character)
    BY <1>7, <1>8, ClampType
<1>10. emit \in Seq(Character)
    <2> DEFINE rest == After(full, d.decoded_len)
    <2>1. emit = Trim(rest)
        BY DEF Emitted, Trim
    <2> HIDE DEF rest, emit
    <2>2. rest \in Seq(Character)
        BY <1>9 DEF rest
    <2>3. Trim(rest) \in Seq(Character)
        BY <2>2, TrimFacts
    <2> QED
        BY <2>1, <2>3
<1>11. SubSeq(full, 1, start + Len(emit)) \in Seq(Character)
    <2>1. /\ start \in Nat /\ Len(emit) \in Nat /\ start <= Len(full)
          /\ Len(emit) <= Len(full) - start
        <3> DEFINE rest == After(full, d.decoded_len)
        <3>1. emit = Trim(rest) /\ rest = SubSeq(full, start + 1, Len(full))
            BY DEF Emitted, Trim, After
        <3> HIDE DEF rest, emit, start
        <3>2. rest \in Seq(Character) /\ Len(rest) = Len(full) - start
            BY <1>7, <1>9, <3>1 DEF start
        <3>3. TrimmedLen(rest) \in 0 .. Len(rest) /\ Len(Trim(rest)) = TrimmedLen(rest)
            BY <3>2, TrimFacts
        <3> QED
            BY <1>7, <1>9, <3>1, <3>2, <3>3 DEF start
    <2> HIDE DEF start, emit
    <2>2. start + Len(emit) \in 0 .. Len(full)
        BY <1>7, <2>1
    <2> QED
        BY <1>7, <2>2
<1>12. len \in Nat
    BY <1>11, ByteLenNat
<1> HIDE DEF len, emit
<1>13. DecoderType(dd, v)
    BY <1>4, <1>5, <1>6, <1>12 DEF DecoderType
<1> HIDE DEF dd
<1>14. Push(d, v).text = emit /\ Push(d, v).decoder = dd
    BY <1>2
<1> QED
    BY <1>10, <1>13, <1>14 DEF v

\* Finishing hands out a text.
LEMMA FinishType ==
    ASSUME NEW ids \in Seq(Token), NEW d, DecoderType(d, ids)
    PROVE  Finish(d, ids).text \in Seq(Character) /\ DecoderType(Finish(d, ids).decoder, ids)
<1> DEFINE full == Decode(ids)
           r == [d EXCEPT !.decoded_len = ByteLen(full)]
<1>1. full \in Seq(Character) /\ d.decoded_len \in Nat
    BY DecodeFacts DEF DecoderType
<1>2. /\ Finish(d, ids).text = IF ids = <<>> THEN <<>> ELSE After(full, d.decoded_len)
      /\ Finish(d, ids).decoder = IF ids = <<>> THEN d ELSE r
    BY DEF Finish
<1> HIDE DEF full
<1>3. ByteLen(full) \in Nat /\ After(full, d.decoded_len) \in Seq(Character)
    BY <1>1, ByteLenNat, ClampType
<1>4. DecoderType(r, ids)
    BY <1>3 DEF DecoderType
<1>5. <<>> \in Seq(Character)
    OBVIOUS
<1> QED
    BY <1>2, <1>3, <1>4, <1>5

\* A scan hands out a text.
LEMMA ScanTypes ==
    ASSUME NEW T, NEW held \in Seq(T), NEW delta \in Seq(T), NEW stops, Stops(stops)
    PROVE  /\ ScanPush(stops, held, delta).text \in Seq(T) /\ ScanPush(stops, held, delta).held \in Seq(T)
           /\ ScanFinish(stops, held, delta).text \in Seq(T)
<1> DEFINE text == held \o delta
           out == Len(text) - Kept(stops, text)
           a == SubSeq(text, 1, out)
           b == SubSeq(text, out + 1, Len(text))
           c == SubSeq(text, 1, Min(Matches(stops, text)))
<1>1. text \in Seq(T) /\ <<>> \in Seq(T)
    OBVIOUS
<1>2. ScanPush(stops, held, delta) = IF Matches(stops, text) # {}
             THEN [text |-> c, stopped |-> TRUE, held |-> <<>>]
             ELSE [text |-> a, stopped |-> FALSE, held |-> b]
    BY DEF ScanPush
<1>3. ScanFinish(stops, held, delta) = IF Matches(stops, text) # {}
             THEN [text |-> c, stopped |-> TRUE, held |-> <<>>]
             ELSE [text |-> text, stopped |-> FALSE, held |-> <<>>]
    BY DEF ScanFinish
<1> HIDE DEF text
<1>4. Matches(stops, text) # {} => c \in Seq(T)
    <2> SUFFICES ASSUME Matches(stops, text) # {} PROVE c \in Seq(T)
        OBVIOUS
    <2>1. Matches(stops, text) \in SUBSET Nat /\ Matches(stops, text) \subseteq 0 .. Len(text)
        BY <1>1, MatchesNat
    <2>2. Min(Matches(stops, text)) \in 0 .. Len(text)
        BY <2>1, MinFacts
    <2> QED
        BY <1>1, <2>2
<1>5. out \in 0 .. Len(text)
    <2>1. /\ Kept(stops, text) \in 0 .. Len(text) /\ (stops = {} => Kept(stops, text) = 0)
          /\ \A k \in 1 .. Len(text) : \A stop \in stops :
                k < Len(stop) /\ ~Differs(stop, text, Len(text) - k) => k <= Kept(stops, text)
        BY <1>1, KeptFacts
    <2>2. Kept(stops, text) \in 0 .. Len(text) /\ Len(text) \in Nat
        BY <1>1, <2>1
    <2> QED
        BY ONLY <2>2
<1>6. a \in Seq(T) /\ b \in Seq(T)
    <2> HIDE DEF out
    <2> QED
        BY <1>1, <1>5
<1> HIDE DEF a, b, c, out
<1>7. CASE Matches(stops, text) # {}
    <2>1. /\ ScanPush(stops, held, delta) = [text |-> c, stopped |-> TRUE, held |-> <<>>]
          /\ ScanFinish(stops, held, delta) = [text |-> c, stopped |-> TRUE, held |-> <<>>]
        BY <1>2, <1>3, <1>7
    <2> QED
        BY <1>1, <1>4, <1>7, <2>1
<1>8. CASE ~(Matches(stops, text) # {})
    <2>1. /\ ScanPush(stops, held, delta) = [text |-> a, stopped |-> FALSE, held |-> b]
          /\ ScanFinish(stops, held, delta) = [text |-> text, stopped |-> FALSE, held |-> <<>>]
        BY <1>2, <1>3, <1>8
    <2> QED
        BY <1>1, <1>6, <2>1
<1> QED
    BY <1>7, <1>8

-----------------------------------------------------------------------------
(* What a client has received, the framing left out.                       *)

\* Appending to a joined text.
LEMMA JoinAppend ==
    ASSUME NEW T, NEW s \in Seq(T), NEW c \in Seq(T), NEW y \in T
    PROVE  s \o c \in Seq(T) /\ s \o Append(c, y) = Append(s \o c, y)
    OBVIOUS

\* Filtering a text keeps what is joined on, if all of it is kept.
LEMMA PickKeeps ==
    ASSUME NEW T, NEW S, S \subseteq T, NEW s \in Seq(T), NEW x \in Seq(S)
    PROVE  Pick(s, S) \in Seq(S) /\ Pick(s \o x, S) = Pick(s, S) \o x
<1>1. Pick(s, S) \in Seq(S)
    <2> DEFINE u == Pick(s, S)
    <2>1. u \in Seq(T) /\ \A i \in 1 .. Len(u) : u[i] \in S
        BY PickPlaces
    <2> HIDE DEF u
    <2>2. u \in Seq(S)
        BY <2>1
    <2> QED
        BY <2>2 DEF u
<1> DEFINE p == Pick(s, S)
           X == {c \in Seq(S) : Pick(s \o c, S) = p \o c}
<1>2. X \subseteq Seq(S)
    OBVIOUS
<1>3. <<>> \in X
    <2>1. s \o <<>> = s /\ p \o <<>> = p /\ <<>> \in Seq(S)
        BY <1>1
    <2> QED
        BY <2>1
<1>4. \A c \in X : c \in Seq(S) /\ Pick(s \o c, S) = p \o c
    OBVIOUS
<1>5. \A c \in Seq(S) : Pick(s \o c, S) = p \o c => c \in X
    OBVIOUS
<1> HIDE DEF X, p
<1>6. \A c \in X : \A y \in S : Append(c, y) \in X
    <2> SUFFICES ASSUME NEW c \in X, NEW y \in S PROVE Append(c, y) \in X
        OBVIOUS
    <2>1. c \in Seq(S) /\ Pick(s \o c, S) = p \o c /\ p \in Seq(S) /\ y \in T /\ c \in Seq(T)
        BY <1>1, <1>4 DEF p
    <2>2. s \o c \in Seq(T) /\ s \o Append(c, y) = Append(s \o c, y)
        BY <2>1, JoinAppend
    <2>3. p \o Append(c, y) = Append(p \o c, y)
        BY <2>1, JoinAppend
    <2>4. Pick(Append(s \o c, y), S) = Append(Pick(s \o c, S), y)
        <3> DEFINE b == s \o c
        <3>1. b \in Seq(T) /\ y \in T /\ y \in S
            BY <2>1, <2>2
        <3> HIDE DEF b
        <3>2. Pick(Append(b, y), S) = Append(Pick(b, S), y)
            BY ONLY <3>1, PickAppend
        <3> QED
            BY <3>2 DEF b
    <2>5. Append(c, y) \in Seq(S)
        BY <2>1
    <2>6. Pick(s \o Append(c, y), S) = p \o Append(c, y)
        BY <2>1, <2>2, <2>3, <2>4
    <2> QED
        BY <1>5, <2>5, <2>6
<1>7. X = Seq(S)
    BY <1>2, <1>3, <1>6, SeqSetInduction
<1> QED
    BY <1>1, <1>4, <1>7 DEF p

\* What a client is sent: characters, and the framing of calls.
Coded == Character \cup {Opener, Closer}

\* What the framed content is made of.
LEMMA CodedFacts == Character \subseteq Coded /\ Opener \in Coded /\ Closer \in Coded
    BY DEF Coded

\* Framing adds nothing to what is said, and text is said.
LEMMA SaidFacts ==
    ASSUME NEW content \in Seq(Coded)
    PROVE  /\ Pick(content, Character) \in Seq(Character)
           /\ \A text \in Seq(Character) :
                 /\ content \o text \in Seq(Coded)
                 /\ Pick(content \o text, Character) = Pick(content, Character) \o text
                 /\ Opener \in Range(content) => Opener \in Range(content \o text)
           /\ \A mark \in {Opener, Closer} :
                 /\ Append(content, mark) \in Seq(Coded)
                 /\ Pick(Append(content, mark), Character) = Pick(content, Character)
                 /\ Opener \in Range(content) => Opener \in Range(Append(content, mark))
           /\ Opener \in Range(Append(content, Opener))
<1>1. Pick(content, Character) \in Seq(Character)
    <2>1. <<>> \in Seq(Character)
        OBVIOUS
    <2> QED
        BY <2>1, CodedFacts, PickKeeps
<1>2. ASSUME NEW text \in Seq(Character)
      PROVE  /\ content \o text \in Seq(Coded)
             /\ Pick(content \o text, Character) = Pick(content, Character) \o text
             /\ Opener \in Range(content) => Opener \in Range(content \o text)
    <2>1. text \in Seq(Coded)
        BY CodedFacts
    <2>2. Range(content \o text) = Range(content) \cup Range(text)
        BY <2>1, RangeConcat
    <2>3. Pick(content, Character) \in Seq(Character)
          /\ Pick(content \o text, Character) = Pick(content, Character) \o text
        BY CodedFacts, PickKeeps
    <2>4. content \o text \in Seq(Coded)
        BY <2>1
    <2> QED
        BY ONLY <2>2, <2>3, <2>4
<1>3. ASSUME NEW mark \in {Opener, Closer}
      PROVE  /\ Append(content, mark) \in Seq(Coded)
             /\ Pick(Append(content, mark), Character) = Pick(content, Character)
             /\ Range(Append(content, mark)) = Range(content) \cup {mark}
    <2>1. mark \in Coded /\ mark \notin Character
        BY CodedFacts, TrackerAssumption
    <2>2. Pick(Append(content, mark), Character) = Pick(content, Character)
        BY <2>1, PickAppend
    <2>3. Range(Append(content, mark)) = Range(content) \cup {mark}
        BY <2>1, RangeAppend
    <2>4. Append(content, mark) \in Seq(Coded)
        BY <2>1
    <2> QED
        BY <2>2, <2>3, <2>4
<1> QED
    BY <1>1, <1>2, <1>3

-----------------------------------------------------------------------------
(* The reasoning: everything decoded and not broken has been handed out.   *)

\* The reasoning while it goes on: all of its decode that does not end in U+FFFD.
ThoughtOn(d, ids, text) ==
    /\ ids \in Seq(Token) /\ DecoderType(d, ids) /\ text \in Seq(Character)
    /\ Sound(ids) => text = Trim(Decode(ids)) /\ Going(d, ids)
\* The reasoning once it is over: all of its decode.
ThoughtOver(ids, text) ==
    /\ ids \in Seq(Token) /\ text \in Seq(Character)
    /\ Sound(ids) => text = Decode(ids)

\* Nothing, without the U+FFFD it ends in.
LEMMA TrimEmpty == Trim(Decode(<<>>)) = <<>>
<1>1. <<>> \in Seq(Character)
    OBVIOUS
<1>2. Len(Trim(<<>>)) = TrimmedLen(<<>>) /\ TrimmedLen(<<>>) \in 0 .. Len(<<>>) /\ Trim(<<>>) \in Seq(Character)
    BY <1>1, TrimFacts
<1>3. Len(Trim(<<>>)) = 0
    BY <1>2
<1>4. Trim(<<>>) = <<>>
    BY <1>2, <1>3, EmptySeq
<1> QED
    BY <1>4, DecodeEmpty

\* A new decoder is one.
LEMMA DecoderNew == DecoderType(NewDecoder, <<>>)
<1>1. <<>> \in Seq(Character) /\ Len(<<>>) = 0
    OBVIOUS
<1> QED
    BY <1>1 DEF DecoderType, NewDecoder

\* Nothing has been thought.
LEMMA ThoughtNew == ThoughtOn(NewDecoder, <<>>, <<>>)
<1>1. <<>> \in Seq(Token) /\ <<>> \in Seq(Character)
    OBVIOUS
<1> QED
    BY <1>1, TrimEmpty, DecoderNew, GoingNew DEF ThoughtOn

\* A token of the reasoning.
LEMMA ThoughtPush ==
    ASSUME NEW d, NEW ids, NEW text, ThoughtOn(d, ids, text), NEW tok \in Token
    PROVE  ThoughtOn(Push(d, Append(ids, tok)).decoder, Append(ids, tok), text \o Push(d, Append(ids, tok)).text)
<1> DEFINE v == Append(ids, tok)
           out == Push(d, v)
<1>1. ids \in Seq(Token) /\ v \in Seq(Token) /\ DecoderType(d, ids) /\ text \in Seq(Character)
    BY DEF ThoughtOn
<1>2. out.text \in Seq(Character) /\ DecoderType(out.decoder, v)
    BY <1>1, PushType
<1>3. ASSUME Sound(v) PROVE text \o out.text = Trim(Decode(v)) /\ Going(out.decoder, v)
    <2>1. Sound(ids)
        BY <1>1, <1>3, SoundBefore DEF Sound
    <2>2. text = Trim(Decode(ids)) /\ Going(d, ids)
        BY <2>1 DEF ThoughtOn
    <2>3. /\ out.text \in Seq(Character) /\ Trim(Decode(ids)) \o out.text = Trim(Decode(v))
          /\ Going(out.decoder, v)
        BY <1>1, <1>3, <2>2, PushIs
    <2> QED
        BY <2>2, <2>3
<1> HIDE DEF out, v
<1>4. text \o out.text \in Seq(Character)
    BY <1>1, <1>2
<1>5. ThoughtOn(out.decoder, v, text \o out.text)
    BY <1>1, <1>2, <1>3, <1>4 DEF ThoughtOn
<1> QED
    BY <1>5 DEF out, v

\* The end of the reasoning.
LEMMA ThoughtFinish ==
    ASSUME NEW d, NEW ids, NEW text, ThoughtOn(d, ids, text)
    PROVE  ThoughtOver(ids, text \o Finish(d, ids).text)
<1> DEFINE rest == Finish(d, ids).text
<1>1. ids \in Seq(Token) /\ DecoderType(d, ids) /\ text \in Seq(Character)
    BY DEF ThoughtOn
<1>2. rest \in Seq(Character)
    BY <1>1, FinishType
<1>3. ASSUME Sound(ids) PROVE text \o rest = Decode(ids)
    <2>1. text = Trim(Decode(ids)) /\ Going(d, ids)
        BY <1>3 DEF ThoughtOn
    <2>2. Trim(Decode(ids)) \o Finish(d, ids).text = Decode(ids)
        BY <1>1, <2>1, FinishIs
    <2> QED
        BY <2>1, <2>2
<1> HIDE DEF rest
<1>4. text \o rest \in Seq(Character)
    BY <1>1, <1>2
<1>5. ThoughtOver(ids, text \o rest)
    BY <1>1, <1>3, <1>4 DEF ThoughtOver
<1> QED
    BY <1>5 DEF rest

-----------------------------------------------------------------------------
(* The content: what was handed out and what the scanner holds.            *)

\* Nothing keeps the content from being exact.
Uncut(stops, ids, content) ==
    Sound(ids) /\ Clear(stops) /\ (Opener \in Range(content) => stops = {} /\ AllWhole(ids))

\* The content while it goes on: what went out and what is held are its decode.
SaidOn(stops, d, ids, held, content, open) ==
    /\ ids \in Seq(Token) /\ DecoderType(d, ids) /\ held \in Seq(Character) /\ content \in Seq(Coded)
    /\ open => Opener \in Range(content)
    /\ Uncut(stops, ids, content) =>
          /\ Pick(content, Character) \o held = Trim(Decode(ids))
          /\ Scanned(stops, Pick(content, Character), held)
          /\ Going(d, ids)
\* The content once it is over: its decode, up to the first stop string.
SaidOver(stops, ids, content) ==
    /\ ids \in Seq(Token) /\ content \in Seq(Coded)
    /\ Uncut(stops, ids, content) => Pick(content, Character) = CutAt(stops, Decode(ids))

\* Nothing has been said.
LEMMA SaidNew ==
    ASSUME NEW stops, Stops(stops)
    PROVE  SaidOn(stops, NewDecoder, <<>>, <<>>, <<>>, FALSE)
<1>1. <<>> \in Seq(Token) /\ <<>> \in Seq(Character) /\ <<>> \in Seq(Coded)
    OBVIOUS
<1>2. Pick(<<>>, Character) = <<>>
    <2>1. PICK g : Pick(<<>>, Character) = g[Len(<<>>)]
                   /\ g = [n \in 0 .. Len(<<>>) |-> PickStep(<<>>, Character, g, n)]
        BY <1>1, PickRecursion
    <2>2. Len(<<>>) = 0
        OBVIOUS
    <2>3. g[0] = PickStep(<<>>, Character, g, 0)
        BY <2>1, <2>2
    <2> QED
        BY <2>1, <2>2, <2>3 DEF PickStep
<1>3. <<>> \o <<>> = <<>>
    OBVIOUS
<1> QED
    BY <1>1, <1>2, <1>3, TrimEmpty, DecoderNew, GoingNew, ScannedNew DEF SaidOn

\* What keeps a longer content from being exact, kept a shorter one.
LEMMA UncutBefore ==
    ASSUME NEW stops, NEW ids \in Seq(Token), NEW tok \in Token, NEW content, NEW longer,
           Opener \in Range(content) => Opener \in Range(longer)
    PROVE  /\ Uncut(stops, Append(ids, tok), longer) => Uncut(stops, ids, content)
           /\ Uncut(stops, ids, longer) => Uncut(stops, ids, content)
<1>1. Sound(Append(ids, tok)) => Sound(ids)
    BY SoundBefore DEF Sound
<1>2. AllWhole(Append(ids, tok)) => AllWhole(ids)
    BY WholeBefore
<1> QED
    BY <1>1, <1>2 DEF Uncut

\* A token of the content: it may give nothing, or end at a stop string, or go on.
LEMMA SaidPush ==
    ASSUME NEW stops, Stops(stops), NEW d, NEW ids, NEW held, NEW content, NEW open,
           SaidOn(stops, d, ids, held, content, open), NEW tok \in Token,
           NEW out, out = Push(d, Append(ids, tok)),
           NEW scan, scan = ScanPush(stops, held, out.text)
    PROVE  /\ out.text = <<>> => SaidOn(stops, out.decoder, Append(ids, tok), held, content, open)
           /\ ~scan.stopped =>
                 SaidOn(stops, out.decoder, Append(ids, tok), scan.held, content \o scan.text, open)
           /\ scan.stopped => SaidOver(stops, Append(ids, tok), content \o scan.text)
<1> DEFINE v == Append(ids, tok)
           said == Pick(content, Character)
           p == Trim(Decode(ids))
           q == Trim(Decode(v))
<1>1. /\ ids \in Seq(Token) /\ v \in Seq(Token) /\ DecoderType(d, ids) /\ held \in Seq(Character)
      /\ content \in Seq(Coded) /\ (open => Opener \in Range(content))
    BY DEF SaidOn
<1>2. out.text \in Seq(Character) /\ DecoderType(out.decoder, v)
    BY <1>1, PushType
<1>3. scan.text \in Seq(Character) /\ scan.held \in Seq(Character)
    BY <1>1, <1>2, ScanTypes
<1>4. /\ said \in Seq(Character)
      /\ content \o scan.text \in Seq(Coded)
      /\ Pick(content \o scan.text, Character) = said \o scan.text
      /\ Opener \in Range(content) => Opener \in Range(content \o scan.text)
    BY <1>1, <1>3, SaidFacts
<1> HIDE DEF said
<1>5. ASSUME NEW longer, Opener \in Range(content) => Opener \in Range(longer), Uncut(stops, v, longer)
      PROVE  /\ (said \o held) \o out.text = q /\ Going(out.decoder, v) /\ Scanned(stops, said, held)
             /\ Clear(stops) /\ said \o held \in Seq(Character) /\ Decode(v) \in Seq(Character)
    <2>1. Uncut(stops, ids, content)
        BY <1>1, <1>5, UncutBefore
    <2>2. said \o held = p /\ Scanned(stops, said, held) /\ Going(d, ids)
        BY <2>1 DEF SaidOn, said
    <2>3. Sound(v) /\ Clear(stops)
        BY <1>5 DEF Uncut
    <2>4. /\ Push(d, v).text \in Seq(Character) /\ p \o Push(d, v).text = q
          /\ Going(Push(d, v).decoder, v)
        BY <1>1, <2>2, <2>3, PushIs
    <2>5. said \o held \in Seq(Character)
        BY <1>1, <1>4
    <2>6. Decode(v) \in Seq(Character)
        BY <1>1, DecodeFacts
    <2> HIDE DEF p, q, v
    <2> QED
        BY <2>2, <2>3, <2>4, <2>5, <2>6 DEF v
<1>6. ASSUME Scanned(stops, said, held)
      PROVE  Scans(Character, stops, said, (said \o held) \o out.text, scan)
    <2> DEFINE delta == out.text
    <2>1. said \in Seq(Character) /\ held \in Seq(Character) /\ delta \in Seq(Character)
          /\ Stops(stops) /\ Scanned(stops, said, held) /\ scan = ScanPush(stops, held, delta)
        BY <1>1, <1>2, <1>4, <1>6
    <2> HIDE DEF delta
    <2>2. Scans(Character, stops, said, (said \o held) \o delta, ScanPush(stops, held, delta))
        BY ONLY <2>1, ScanPushIs
    <2> QED
        BY <2>1, <2>2 DEF delta
<1> HIDE DEF v, q, p
<1>7. out.text = <<>> => SaidOn(stops, out.decoder, v, held, content, open)
    <2> SUFFICES ASSUME out.text = <<>>, Uncut(stops, v, content)
                 PROVE  said \o held = q /\ Scanned(stops, said, held) /\ Going(out.decoder, v)
        BY <1>1, <1>2 DEF SaidOn, said, q
    <2>1. /\ (said \o held) \o out.text = q /\ Going(out.decoder, v) /\ Scanned(stops, said, held)
          /\ said \o held \in Seq(Character)
        BY <1>5
    <2>2. (said \o held) \o <<>> = said \o held
        BY <2>1
    <2> QED
        BY <2>1, <2>2
<1>8. ~scan.stopped => SaidOn(stops, out.decoder, v, scan.held, content \o scan.text, open)
    <2> SUFFICES ASSUME ~scan.stopped, Uncut(stops, v, content \o scan.text)
                 PROVE  /\ Pick(content \o scan.text, Character) \o scan.held = q
                        /\ Scanned(stops, Pick(content \o scan.text, Character), scan.held)
                        /\ Going(out.decoder, v)
        BY <1>1, <1>2, <1>3, <1>4 DEF SaidOn, q
    <2>1. /\ (said \o held) \o out.text = q /\ Going(out.decoder, v) /\ Scanned(stops, said, held)
        BY <1>4, <1>5
    <2>2. /\ (said \o scan.text) \o scan.held = (said \o held) \o out.text
          /\ Scanned(stops, said \o scan.text, scan.held)
        BY <1>6, <2>1 DEF Scans
    <2> QED
        BY <1>4, <2>1, <2>2
<1>9. scan.stopped => SaidOver(stops, v, content \o scan.text)
    <2> SUFFICES ASSUME scan.stopped, Uncut(stops, v, content \o scan.text)
                 PROVE  Pick(content \o scan.text, Character) = CutAt(stops, Decode(v))
        BY <1>1, <1>4 DEF SaidOver
    <2>1. /\ (said \o held) \o out.text = q /\ Scanned(stops, said, held) /\ Clear(stops)
          /\ Decode(v) \in Seq(Character)
        BY <1>4, <1>5
    <2>2. Matches(stops, q) # {} /\ said \o scan.text = CutAt(stops, q)
        BY <1>6, <2>1 DEF Scans
    <2>3. /\ Matches(stops, Trim(Decode(v))) = Matches(stops, Decode(v))
          /\ Matches(stops, Decode(v)) # {} => CutAt(stops, Trim(Decode(v))) = CutAt(stops, Decode(v))
        BY <2>1, MatchesTrim
    <2>4. CutAt(stops, q) = CutAt(stops, Decode(v))
        BY <2>2, <2>3 DEF q
    <2> QED
        BY <1>4, <2>2, <2>4
<1> QED
    BY <1>7, <1>8, <1>9 DEF v

\* A call's block is opened.
LEMMA SaidOpens ==
    ASSUME NEW stops, NEW d, NEW ids, NEW held, NEW content, NEW open,
           SaidOn(stops, d, ids, held, content, open)
    PROVE  SaidOn(stops, d, ids, held, Append(content, Opener), TRUE)
<1>1. /\ ids \in Seq(Token) /\ DecoderType(d, ids) /\ held \in Seq(Character) /\ content \in Seq(Coded)
    BY DEF SaidOn
<1>2. /\ Append(content, Opener) \in Seq(Coded)
      /\ Pick(Append(content, Opener), Character) = Pick(content, Character)
      /\ Opener \in Range(content) => Opener \in Range(Append(content, Opener))
      /\ Opener \in Range(Append(content, Opener))
    BY <1>1, SaidFacts
<1>3. Uncut(stops, ids, Append(content, Opener)) => Uncut(stops, ids, content)
    BY <1>2 DEF Uncut
<1> QED
    BY <1>1, <1>2, <1>3 DEF SaidOn

\* A call's block is closed: nothing was held back.
LEMMA SaidCloses ==
    ASSUME NEW stops, NEW d, NEW ids, NEW held, NEW content,
           SaidOn(stops, d, ids, held, content, TRUE), NEW rest, rest = Finish(d, ids)
    PROVE  SaidOn(stops, rest.decoder, ids, held, Append(content \o rest.text, Closer), FALSE)
<1> DEFINE longer == content \o rest.text
           all == Append(longer, Closer)
<1>1. /\ ids \in Seq(Token) /\ DecoderType(d, ids) /\ held \in Seq(Character) /\ content \in Seq(Coded)
      /\ Opener \in Range(content)
    BY DEF SaidOn
<1>2. rest.text \in Seq(Character) /\ DecoderType(rest.decoder, ids)
    BY <1>1, FinishType
<1>3. /\ longer \in Seq(Coded) /\ Opener \in Range(longer)
      /\ Pick(longer, Character) = Pick(content, Character) \o rest.text
      /\ Pick(content, Character) \in Seq(Character)
    BY <1>1, <1>2, SaidFacts
<1> HIDE DEF longer
<1>4. /\ all \in Seq(Coded) /\ Opener \in Range(all)
      /\ Pick(all, Character) = Pick(longer, Character)
    BY <1>3, SaidFacts
<1> HIDE DEF all
<1>5. ASSUME Uncut(stops, ids, all)
      PROVE  /\ Pick(all, Character) = Pick(content, Character) /\ Going(rest.decoder, ids)
             /\ Uncut(stops, ids, content)
    <2>1. Uncut(stops, ids, content) /\ AllWhole(ids)
        BY <1>4, <1>5 DEF Uncut
    <2>2. Going(d, ids) /\ ~EndsBroken(Decode(ids))
        BY <1>1, <2>1, WholeEnd DEF SaidOn
    <2>3. Finish(d, ids).text = <<>> /\ Going(Finish(d, ids).decoder, ids)
        BY <1>1, <2>2, FinishIs
    <2>4. Pick(content, Character) \o <<>> = Pick(content, Character)
        BY <1>3
    <2> QED
        BY <1>3, <1>4, <2>1, <2>3, <2>4
<1>6. SaidOn(stops, rest.decoder, ids, held, all, FALSE)
    BY <1>1, <1>2, <1>4, <1>5 DEF SaidOn
<1> QED
    BY <1>6 DEF all, longer

\* The end of the content, and of a block that is still open.
LEMMA SaidFlush ==
    ASSUME NEW stops, Stops(stops), NEW d, NEW ids, NEW held, NEW content, NEW open,
           SaidOn(stops, d, ids, held, content, open), NEW rest, rest = Finish(d, ids),
           NEW sent, sent = content \o ScanFinish(stops, held, rest.text).text
    PROVE  /\ SaidOver(stops, ids, sent)
           /\ SaidOver(stops, ids, Append(sent \o Finish(rest.decoder, ids).text, Closer))
<1> DEFINE said == Pick(content, Character)
           more == ScanFinish(stops, held, rest.text).text
           again == Finish(rest.decoder, ids).text
           longer == sent \o again
           all == Append(longer, Closer)
<1>1. /\ ids \in Seq(Token) /\ DecoderType(d, ids) /\ held \in Seq(Character) /\ content \in Seq(Coded)
    BY DEF SaidOn
<1>2. rest.text \in Seq(Character) /\ DecoderType(rest.decoder, ids)
    BY <1>1, FinishType
<1>3. more \in Seq(Character) /\ again \in Seq(Character)
    BY <1>1, <1>2, ScanTypes, FinishType
<1>4. /\ sent = content \o more
    OBVIOUS
<1> HIDE DEF more, again
<1>5. /\ said \in Seq(Character) /\ sent \in Seq(Coded)
      /\ Pick(sent, Character) = said \o more
      /\ Opener \in Range(content) => Opener \in Range(sent)
    BY <1>1, <1>3, <1>4, SaidFacts
<1>6. /\ Pick(sent, Character) \in Seq(Character) /\ longer \in Seq(Coded)
      /\ Pick(longer, Character) = Pick(sent, Character) \o again
      /\ Opener \in Range(sent) => Opener \in Range(longer)
    BY <1>3, <1>5, SaidFacts
<1> HIDE DEF longer
<1>7. /\ all \in Seq(Coded) /\ Pick(all, Character) = Pick(longer, Character)
      /\ Opener \in Range(longer) => Opener \in Range(all)
    BY <1>6, SaidFacts
<1> HIDE DEF all
<1>8. ASSUME Uncut(stops, ids, sent)
      PROVE  Pick(sent, Character) = CutAt(stops, Decode(ids)) /\ again = <<>>
    <2>1. Uncut(stops, ids, content)
        BY <1>5, <1>8 DEF Uncut
    <2>2. said \o held = Trim(Decode(ids)) /\ Scanned(stops, said, held) /\ Going(d, ids)
        BY <2>1 DEF SaidOn
    <2>3. /\ Trim(Decode(ids)) \o Finish(d, ids).text = Decode(ids)
          /\ Done(Finish(d, ids).decoder, ids)
        BY <1>1, <2>2, FinishIs
    <2>4. again = <<>>
        BY <1>1, <2>3, FinishAgain DEF again
    <2>5. said \o more = CutAt(stops, (said \o held) \o rest.text)
        <3> DEFINE delta == rest.text
        <3>1. delta \in Seq(Character) /\ said \in Seq(Character) /\ held \in Seq(Character)
              /\ Scanned(stops, said, held) /\ Stops(stops)
            BY <1>1, <1>2, <1>5, <2>2
        <3> HIDE DEF delta, said
        <3>2. /\ ScanFinish(stops, held, delta).text \in Seq(Character)
              /\ said \o ScanFinish(stops, held, delta).text = CutAt(stops, (said \o held) \o delta)
            BY ONLY <3>1, ScanFinishIs
        <3> QED
            BY <3>2 DEF delta, more
    <2>6. (said \o held) \o rest.text = Decode(ids)
        BY <2>2, <2>3
    <2> QED
        BY <1>5, <2>4, <2>5, <2>6
<1>9. SaidOver(stops, ids, sent)
    BY <1>1, <1>5, <1>8 DEF SaidOver
<1>10. SaidOver(stops, ids, all)
    <2> SUFFICES ASSUME Uncut(stops, ids, all) PROVE Pick(all, Character) = CutAt(stops, Decode(ids))
        BY <1>1, <1>7 DEF SaidOver
    <2>1. Uncut(stops, ids, sent)
        BY <1>6, <1>7 DEF Uncut
    <2>2. Pick(sent, Character) = CutAt(stops, Decode(ids)) /\ again = <<>>
        BY <1>8, <2>1
    <2>3. Pick(sent, Character) \o <<>> = Pick(sent, Character)
        BY <1>6
    <2> QED
        BY <1>6, <1>7, <2>2, <2>3
<1> QED
    BY <1>9, <1>10 DEF all, longer, again

-----------------------------------------------------------------------------
(* The stream: content and reasoning together, step by step.               *)

\* Content and reasoning, while the stream goes on and once it is over.
Parts(stops, t, s) ==
    /\ DOMAIN t = TrackerFields /\ DOMAIN s = StreamFields
    /\ IF s.finish = "none"
       THEN /\ SaidOn(stops, t.output, t.output_ids, t.held, s.content, t.harmony_tool_open)
            /\ ThoughtOn(t.thinking, t.thinking_ids, s.reasoning)
       ELSE SaidOver(stops, t.output_ids, s.content) /\ ThoughtOver(t.thinking_ids, s.reasoning)

\* The invariant of the texts.
XInv == request \in Sessions /\ Parts(request.stops, tracker, stream)

\* A request's stop strings are not empty.
LEMMA StopsFacts == \A s \in Sessions : Stops(s.stops)
    BY TrackerAssumption DEF Stops

\* A new request has sent nothing.
LEMMA XInvInit == Init => XInv
<1> SUFFICES ASSUME Init PROVE XInv
    OBVIOUS
<1>1. /\ request \in Sessions /\ stream.finish = "none" /\ stream.content = <<>> /\ stream.reasoning = <<>>
      /\ DOMAIN stream = StreamFields /\ DOMAIN tracker = TrackerFields
      /\ tracker.output_ids = <<>> /\ tracker.thinking_ids = <<>> /\ tracker.held = <<>>
      /\ tracker.output = NewDecoder /\ tracker.thinking = NewDecoder /\ tracker.harmony_tool_open = FALSE
    BY DEF Init, NewTracker, StreamFields, TrackerFields
<1>2. Stops(request.stops)
    BY <1>1, StopsFacts
<1>3. SaidOn(request.stops, NewDecoder, <<>>, <<>>, <<>>, FALSE) /\ ThoughtOn(NewDecoder, <<>>, <<>>)
    BY <1>2, SaidNew, ThoughtNew
<1> QED
    BY <1>1, <1>3 DEF XInv, Parts

\* The end of a stream, once its content is over.
LEMMA EndedParts ==
    ASSUME NEW stops, NEW t, DOMAIN t = TrackerFields, NEW s, DOMAIN s = StreamFields,
           SaidOver(stops, t.output_ids, s.content), ThoughtOn(t.thinking, t.thinking_ids, s.reasoning),
           NEW reason, reason # "none"
    PROVE  Parts(stops, Ended(t, s, reason).tracker, Ended(t, s, reason).stream)
<1> DEFINE rest == Finish(t.thinking, t.thinking_ids)
           u == [t EXCEPT !.thinking = rest.decoder]
           v == [s EXCEPT !.reasoning = @ \o rest.text, !.finish = reason]
<1>1. Ended(t, s, reason).tracker = u /\ Ended(t, s, reason).stream = v
    BY EffectFacts DEF Ended
<1>2. ThoughtOver(t.thinking_ids, s.reasoning \o rest.text)
    BY ThoughtFinish
<1> HIDE DEF rest
<1>3. DOMAIN u = TrackerFields /\ u.output_ids = t.output_ids /\ u.thinking_ids = t.thinking_ids
    BY DEF TrackerFields
<1>4. DOMAIN v = StreamFields /\ v.content = s.content /\ v.reasoning = s.reasoning \o rest.text /\ v.finish = reason
    BY DEF StreamFields
<1> HIDE DEF u, v
<1>5. Parts(stops, u, v)
    BY <1>2, <1>3, <1>4 DEF Parts
<1> QED
    BY <1>1, <1>5

\* Closing a call.
LEMMA CloseParts ==
    ASSUME NEW stops, NEW t, NEW s, Parts(stops, t, s), s.finish = "none",
           NEW e, e = close_harmony_tool_call(t, s)
    PROVE  Parts(stops, e.tracker, e.stream)
<1> DEFINE rest == Finish(t.output, t.output_ids)
           u == [t EXCEPT !.harmony_tool_open = FALSE, !.output = rest.decoder]
           v == [s EXCEPT !.content = Append(@ \o rest.text, Closer)]
<1>0. /\ DOMAIN t = TrackerFields /\ DOMAIN s = StreamFields
      /\ SaidOn(stops, t.output, t.output_ids, t.held, s.content, t.harmony_tool_open)
      /\ ThoughtOn(t.thinking, t.thinking_ids, s.reasoning)
    BY DEF Parts
<1>1. e = IF ~t.harmony_tool_open THEN Effect(t, s) ELSE Effect(u, v)
    BY DEF close_harmony_tool_call
<1>2. CASE ~t.harmony_tool_open
    BY <1>1, <1>2, EffectFacts
<1>3. CASE t.harmony_tool_open
    <2>1. SaidOn(stops, t.output, t.output_ids, t.held, s.content, TRUE)
        BY <1>0, <1>3 DEF SaidOn
    <2>2. SaidOn(stops, rest.decoder, t.output_ids, t.held, Append(s.content \o rest.text, Closer), FALSE)
        BY <2>1, SaidCloses
    <2> HIDE DEF rest
    <2>3. /\ DOMAIN u = TrackerFields /\ u.output_ids = t.output_ids /\ u.thinking_ids = t.thinking_ids
          /\ u.output = rest.decoder /\ u.thinking = t.thinking /\ u.held = t.held /\ u.harmony_tool_open = FALSE
        BY <1>0 DEF TrackerFields
    <2>4. /\ DOMAIN v = StreamFields /\ v.content = Append(s.content \o rest.text, Closer)
          /\ v.reasoning = s.reasoning /\ v.finish = s.finish
        BY <1>0 DEF StreamFields
    <2>5. e = Effect(u, v)
        BY <1>1, <1>3
    <2> HIDE DEF u, v
    <2>6. Parts(stops, u, v)
        BY <1>0, <2>2, <2>3, <2>4 DEF Parts
    <2> QED
        BY <2>5, <2>6, EffectFacts
<1> QED
    BY <1>2, <1>3

\* A token of the content.
LEMMA ContentParts ==
    ASSUME NEW t, NEW tok \in Token, Stops(request.stops), Parts(request.stops, t, stream),
           stream.finish = "none", NEW lps, SendContent(t, Append(t.output_ids, tok), lps)
    PROVE  Parts(request.stops, tracker', stream')
<1> DEFINE ids == Append(t.output_ids, tok)
           stops == request.stops
           out == Push(t.output, ids)
           scan == ScanPush(stops, t.held, out.text)
           next == [t EXCEPT !.output_ids = ids, !.output = out.decoder]
           waits == [next EXCEPT !.pending_raw_lps = lps]
           cleared == [next EXCEPT !.held = scan.held, !.pending_raw_lps = <<>>]
           sent == [stream EXCEPT !.content = @ \o scan.text, !.logprobs = @ \o lps]
           ended == Ended(cleared, sent, "stop")
<1>0. /\ DOMAIN t = TrackerFields /\ DOMAIN stream = StreamFields
      /\ SaidOn(stops, t.output, t.output_ids, t.held, stream.content, t.harmony_tool_open)
      /\ ThoughtOn(t.thinking, t.thinking_ids, stream.reasoning)
    BY DEF Parts
<1>1. Becomes(IF out.text = <<>> THEN Effect(waits, stream)
              ELSE IF scan.stopped THEN ended ELSE Effect(cleared, sent))
    BY DEF SendContent, drain_logprobs
<1>2. /\ out.text = <<>> => SaidOn(stops, out.decoder, ids, t.held, stream.content, t.harmony_tool_open)
      /\ ~scan.stopped =>
            SaidOn(stops, out.decoder, ids, scan.held, stream.content \o scan.text, t.harmony_tool_open)
      /\ scan.stopped => SaidOver(stops, ids, stream.content \o scan.text)
    BY <1>0, SaidPush
<1> HIDE DEF ids, stops, out, scan
<1>3. /\ DOMAIN waits = TrackerFields /\ waits.output_ids = ids /\ waits.output = out.decoder
      /\ waits.held = t.held /\ waits.harmony_tool_open = t.harmony_tool_open
      /\ waits.thinking = t.thinking /\ waits.thinking_ids = t.thinking_ids
    BY <1>0 DEF TrackerFields
<1>4. /\ DOMAIN cleared = TrackerFields /\ cleared.output_ids = ids /\ cleared.output = out.decoder
      /\ cleared.held = scan.held /\ cleared.harmony_tool_open = t.harmony_tool_open
      /\ cleared.thinking = t.thinking /\ cleared.thinking_ids = t.thinking_ids
    BY <1>0 DEF TrackerFields
<1>5. /\ DOMAIN sent = StreamFields /\ sent.content = stream.content \o scan.text
      /\ sent.reasoning = stream.reasoning /\ sent.finish = stream.finish
    BY <1>0 DEF StreamFields
<1> HIDE DEF waits, cleared, sent, ended
<1> SUFFICES Parts(stops, tracker', stream')
    BY DEF stops
<1>6. CASE out.text = <<>>
    <2>1. Parts(stops, waits, stream)
        BY <1>0, <1>2, <1>3, <1>6 DEF Parts
    <2>2. tracker' = waits /\ stream' = stream
        BY <1>1, <1>6, EffectFacts DEF Becomes
    <2> QED
        BY <2>1, <2>2
<1>7. CASE out.text # <<>> /\ scan.stopped
    <2>1. SaidOver(stops, cleared.output_ids, sent.content)
          /\ ThoughtOn(cleared.thinking, cleared.thinking_ids, sent.reasoning)
        BY <1>0, <1>2, <1>4, <1>5, <1>7
    <2>2. Parts(stops, Ended(cleared, sent, "stop").tracker, Ended(cleared, sent, "stop").stream)
        BY <1>4, <1>5, <2>1, EndedParts
    <2>3. tracker' = ended.tracker /\ stream' = ended.stream
        BY <1>1, <1>7 DEF Becomes
    <2> QED
        BY <2>2, <2>3 DEF ended
<1>8. CASE out.text # <<>> /\ ~scan.stopped
    <2>1. Parts(stops, cleared, sent)
        BY <1>0, <1>2, <1>4, <1>5, <1>8 DEF Parts
    <2>2. tracker' = cleared /\ stream' = sent
        BY <1>1, <1>8, EffectFacts DEF Becomes
    <2> QED
        BY <2>1, <2>2
<1> QED
    BY <1>6, <1>7, <1>8

\* A token of any route.
LEMMA DeliverParts ==
    ASSUME NEW t, NEW tok \in Token, NEW route \in Routes, Stops(request.stops),
           Parts(request.stops, t, stream), stream.finish = "none", Deliver(route, t, tok)
    PROVE  Parts(request.stops, tracker', stream')
<1> DEFINE stops == request.stops
<1>0. /\ DOMAIN t = TrackerFields /\ DOMAIN stream = StreamFields
      /\ SaidOn(stops, t.output, t.output_ids, t.held, stream.content, t.harmony_tool_open)
      /\ ThoughtOn(t.thinking, t.thinking_ids, stream.reasoning)
    BY DEF Parts
<1>1. CASE route = "Framing" \/ (route = "Reasoning" /\ ~request.wants_reasoning)
    <2>1. Becomes(Effect(t, stream))
        BY <1>1 DEF Deliver
    <2>2. tracker' = t /\ stream' = stream
        BY <2>1, EffectFacts DEF Becomes
    <2> QED
        BY <2>2
<1>2. CASE route = "Reasoning" /\ request.wants_reasoning
    <2> DEFINE ids == Append(t.thinking_ids, tok)
               out == Push(t.thinking, ids)
               u == [t EXCEPT !.thinking_ids = ids, !.thinking = out.decoder]
               v == [stream EXCEPT !.reasoning = @ \o out.text]
    <2>1. SendReasoning(t, ids)
        BY <1>2 DEF Deliver
    <2>2. Becomes(Effect(u, v))
        BY <2>1 DEF SendReasoning
    <2>3. ThoughtOn(out.decoder, ids, stream.reasoning \o out.text)
        BY <1>0, ThoughtPush
    <2> HIDE DEF out, ids, stops
    <2>4. /\ DOMAIN u = TrackerFields /\ u.thinking_ids = ids /\ u.thinking = out.decoder
          /\ u.output = t.output /\ u.output_ids = t.output_ids /\ u.held = t.held
          /\ u.harmony_tool_open = t.harmony_tool_open
        BY <1>0 DEF TrackerFields
    <2>5. /\ DOMAIN v = StreamFields /\ v.content = stream.content
          /\ v.reasoning = stream.reasoning \o out.text /\ v.finish = stream.finish
        BY <1>0 DEF StreamFields
    <2> HIDE DEF u, v
    <2>6. Parts(stops, u, v)
        BY <1>0, <2>3, <2>4, <2>5 DEF Parts
    <2>7. tracker' = u /\ stream' = v
        BY <2>2, EffectFacts DEF Becomes
    <2> QED
        BY <2>6, <2>7 DEF stops
<1>3. CASE route = "Content"
    <2>1. SendContent(t, Append(t.output_ids, tok), Append(t.pending_raw_lps, tok))
        BY <1>3 DEF Deliver
    <2> QED
        BY <2>1, ContentParts
<1>4. CASE route = "ToolCall"
    <2> DEFINE u == [t EXCEPT !.harmony_tool_open = TRUE]
               v == [stream EXCEPT !.content = Append(@, Opener)]
    <2>1. Becomes(Effect(u, v))
        BY <1>4 DEF Deliver
    <2> HIDE DEF stops
    <2>2. SaidOn(stops, t.output, t.output_ids, t.held, Append(stream.content, Opener), TRUE)
        BY <1>0, SaidOpens
    <2>3. /\ DOMAIN u = TrackerFields /\ u.thinking_ids = t.thinking_ids /\ u.thinking = t.thinking
          /\ u.output = t.output /\ u.output_ids = t.output_ids /\ u.held = t.held
          /\ u.harmony_tool_open = TRUE
        BY <1>0 DEF TrackerFields
    <2>4. /\ DOMAIN v = StreamFields /\ v.content = Append(stream.content, Opener)
          /\ v.reasoning = stream.reasoning /\ v.finish = stream.finish
        BY <1>0 DEF StreamFields
    <2> HIDE DEF u, v
    <2>5. Parts(stops, u, v)
        BY <1>0, <2>2, <2>3, <2>4 DEF Parts
    <2>6. tracker' = u /\ stream' = v
        BY <2>1, EffectFacts DEF Becomes
    <2> QED
        BY <2>5, <2>6 DEF stops
<1>5. CASE route = "ToolCallEnd"
    <2>1. Becomes(close_harmony_tool_call(t, stream))
        BY <1>5 DEF Deliver
    <2>2. Parts(stops, close_harmony_tool_call(t, stream).tracker, close_harmony_tool_call(t, stream).stream)
        BY CloseParts
    <2> QED
        BY <2>1, <2>2 DEF Becomes
<1> QED
    BY <1>1, <1>2, <1>3, <1>4, <1>5 DEF Routes

\* The end of the request.
LEMMA FlushParts ==
    ASSUME NEW stops, Stops(stops), stops = request.stops, NEW t, NEW s, Parts(stops, t, s), s.finish = "none"
    PROVE  Parts(stops, Flush(t, s).tracker, Flush(t, s).stream)
<1> DEFINE rest == Finish(t.output, t.output_ids)
           scan == ScanFinish(stops, t.held, rest.text)
           u == [t EXCEPT !.output = rest.decoder, !.held = scan.held, !.pending_raw_lps = <<>>]
           v == [s EXCEPT !.content = @ \o scan.text, !.logprobs = @ \o t.pending_raw_lps]
           again == Finish(u.output, u.output_ids)
           uu == [u EXCEPT !.harmony_tool_open = FALSE, !.output = again.decoder]
           vv == [v EXCEPT !.content = Append(@ \o again.text, Closer)]
           closed == close_harmony_tool_call(u, v)
           reason == IF scan.stopped THEN "stop" ELSE "length"
<1>0. /\ DOMAIN t = TrackerFields /\ DOMAIN s = StreamFields
      /\ SaidOn(stops, t.output, t.output_ids, t.held, s.content, t.harmony_tool_open)
      /\ ThoughtOn(t.thinking, t.thinking_ids, s.reasoning)
    BY DEF Parts
<1>1. Flush(t, s) = Ended(closed.tracker, closed.stream, reason)
    BY DEF Flush, drain_logprobs
<1>2. closed = IF ~u.harmony_tool_open THEN Effect(u, v) ELSE Effect(uu, vv)
    BY DEF close_harmony_tool_call
<1>3. /\ SaidOver(stops, t.output_ids, s.content \o scan.text)
      /\ SaidOver(stops, t.output_ids,
                  Append((s.content \o scan.text) \o Finish(rest.decoder, t.output_ids).text, Closer))
    BY <1>0, SaidFlush
<1>4. reason # "none"
    OBVIOUS
<1> HIDE DEF rest, scan, reason, closed
<1>5. /\ DOMAIN u = TrackerFields /\ u.thinking_ids = t.thinking_ids /\ u.thinking = t.thinking
      /\ u.output = rest.decoder /\ u.output_ids = t.output_ids
    BY <1>0 DEF TrackerFields
<1>6. /\ DOMAIN v = StreamFields /\ v.content = s.content \o scan.text /\ v.reasoning = s.reasoning
    BY <1>0 DEF StreamFields
<1> HIDE DEF u, v
<1>7. again = Finish(rest.decoder, t.output_ids)
    BY <1>5
<1> HIDE DEF again
<1>8. /\ DOMAIN uu = TrackerFields /\ uu.thinking_ids = t.thinking_ids /\ uu.thinking = t.thinking
      /\ uu.output_ids = t.output_ids
    BY <1>5 DEF TrackerFields
<1>9. /\ DOMAIN vv = StreamFields /\ vv.content = Append((s.content \o scan.text) \o again.text, Closer)
      /\ vv.reasoning = s.reasoning
    BY <1>6 DEF StreamFields
<1> HIDE DEF uu, vv
<1>10. /\ DOMAIN closed.tracker = TrackerFields /\ DOMAIN closed.stream = StreamFields
       /\ SaidOver(stops, closed.tracker.output_ids, closed.stream.content)
       /\ ThoughtOn(closed.tracker.thinking, closed.tracker.thinking_ids, closed.stream.reasoning)
    <2>1. CASE closed = Effect(u, v)
        <3>1. closed.tracker = u /\ closed.stream = v
            BY <2>1, EffectFacts
        <3>2. SaidOver(stops, u.output_ids, v.content) /\ ThoughtOn(u.thinking, u.thinking_ids, v.reasoning)
            BY <1>0, <1>3, <1>5, <1>6
        <3> QED
            BY <1>5, <1>6, <3>1, <3>2
    <2>2. CASE closed = Effect(uu, vv)
        <3>1. closed.tracker = uu /\ closed.stream = vv
            BY <2>2, EffectFacts
        <3>2. SaidOver(stops, uu.output_ids, vv.content) /\ ThoughtOn(uu.thinking, uu.thinking_ids, vv.reasoning)
            BY <1>0, <1>3, <1>7, <1>8, <1>9
        <3> QED
            BY <1>8, <1>9, <3>1, <3>2
    <2> QED
        BY <1>2, <2>1, <2>2
<1> QED
    BY <1>1, <1>4, <1>10, EndedParts

\* Every step keeps the texts exact.
LEMMA XInvNext == XInv /\ [Next]_vars => XInv'
<1> SUFFICES ASSUME XInv, [Next]_vars PROVE XInv'
    OBVIOUS
<1>1. request \in Sessions /\ Parts(request.stops, tracker, stream) /\ Stops(request.stops)
    BY StopsFacts DEF XInv
<1>2. ASSUME request' = request, Parts(request.stops, tracker', stream') PROVE XInv'
    BY <1>1, <1>2 DEF XInv, Parts
<1>3. ASSUME NEW tok \in request.vocabulary, TokenOut(tok) PROVE XInv'
    <2>1. tok \in Token /\ request' = request /\ stream.finish = "none"
        BY <1>1, <1>3, TrackerAssumption DEF TokenOut
    <2> DEFINE r == Route(tok)
    <2>2. Deliver(r.route, r.tracker, tok)
        BY <1>3 DEF TokenOut
    <2>3. r = IF request.harmony THEN harmony_route(tracker, tok) ELSE think_route(tracker, tok)
        BY DEF Route
    <2> HIDE DEF r
    <2>4. DOMAIN tracker = TrackerFields
        BY <1>1 DEF Parts
    <2>5. Rerouted(tracker, r.tracker) /\ r.route \in Routes
        BY <2>3, <2>4, HarmonyFacts, ThinkFacts
    <2>6. Parts(request.stops, r.tracker, stream)
        BY <1>1, <2>1, <2>5 DEF Parts, Rerouted, Alike
    <2>7. Parts(request.stops, tracker', stream')
        BY <1>1, <2>1, <2>2, <2>5, <2>6, DeliverParts
    <2> QED
        BY <1>2, <2>1, <2>7
<1>4. CASE Completed
    <2>1. request' = request /\ stream.finish = "none" /\ Becomes(Flush(tracker, stream))
        BY <1>4 DEF Completed
    <2>2. Parts(request.stops, Flush(tracker, stream).tracker, Flush(tracker, stream).stream)
        BY <1>1, <2>1, FlushParts
    <2>3. Parts(request.stops, tracker', stream')
        BY <2>1, <2>2 DEF Becomes
    <2> QED
        BY <1>2, <2>1, <2>3
<1>5. CASE UNCHANGED vars
    BY <1>1, <1>2, <1>5 DEF vars
<1> QED
    BY <1>3, <1>4, <1>5 DEF Next

\* The beginning of a text, as an IsPrefix.
LEMMA PrefixIs ==
    ASSUME NEW T, NEW p \in Seq(T), NEW q \in Seq(T), Begins(p, q)
    PROVE  IsPrefix(p, q)
<1>1. Len(p) \in 0 .. Len(q) /\ Len(p) \in Nat /\ Len(q) \in Nat
    BY DEF Begins
<1> DEFINE a == SubSeq(p, 1, Len(p))
           b == SubSeq(q, 1, Len(p))
<1>2. a \in Seq(T) /\ Len(a) = Len(p) /\ \A i \in 1 .. Len(p) : a[i] = p[i]
    BY <1>1
<1>3. b \in Seq(T) /\ Len(b) = Len(p) /\ \A i \in 1 .. Len(p) : b[i] = q[i]
    BY <1>1
<1> HIDE DEF a, b
<1>4. \A i \in 1 .. Len(p) : a[i] = b[i]
    BY <1>2, <1>3 DEF Begins
<1>5. a = b
    BY <1>1, <1>2, <1>3, <1>4, SeqEqual
<1> QED
    BY <1>1, <1>5 DEF IsPrefix, a, b

\* What is trimmed is a prefix, and what is joined on too.
LEMMA TrimPrefix ==
    ASSUME NEW T, NEW p \in Seq(T), NEW q \in Seq(T), NEW text \in Seq(T), p \o q = Trim(text)
    PROVE  Begins(p, Trim(text)) /\ IsPrefix(p, text)
<1>1. /\ TrimmedLen(text) \in 0 .. Len(text) /\ (TrimmedLen(text) = 0 \/ text[TrimmedLen(text)] # Replacement)
      /\ \A i \in TrimmedLen(text) + 1 .. Len(text) : text[i] = Replacement
      /\ Trim(text) \in Seq(T) /\ Len(Trim(text)) = TrimmedLen(text)
      /\ \A i \in 1 .. TrimmedLen(text) : Trim(text)[i] = text[i]
    BY TrimFacts
<1> DEFINE t == Trim(text)
<1>2. Len(p) <= Len(t) /\ \A i \in 1 .. Len(p) : t[i] = p[i]
    <2>1. Len(p \o q) = Len(p) + Len(q) /\ Len(p) \in Nat /\ Len(q) \in Nat
          /\ \A i \in 1 .. Len(p) : (p \o q)[i] = p[i]
        OBVIOUS
    <2> QED
        BY <2>1
<1>3. Begins(p, t)
    BY <1>2 DEF Begins
<1>4. Begins(t, text)
    BY <1>1 DEF Begins
<1>5. Begins(p, text)
    BY <1>1, <1>3, <1>4, BeginsOn
<1> QED
    BY <1>3, <1>5, PrefixIs

\* For every vocabulary, every set of stop strings and every order of tokens,
\* the client reads a prefix of what one decode of the whole sequence says while
\* the stream goes on, and all of it up to the first stop string once it has
\* ended, with no stop string in it, however the tokens cut characters and stop
\* strings, the reasoning likewise (IncrementalDecoder, StopScanner and the
\* tracker of engine_loop.rs, which sends a call's framing past both).
THEOREM StreamAlwaysExact == Spec => []StreamExact
<1>1. XInv => StreamExact
    <2> SUFFICES ASSUME XInv PROVE StreamExact
        OBVIOUS
    <2> DEFINE ids == tracker.output_ids
               thinking == tracker.thinking_ids
               text == Decode(ids)
               thought == Decode(thinking)
               stops == request.stops
    <2>1. Parts(stops, tracker, stream) /\ Stops(stops)
        BY StopsFacts DEF XInv
    <2>2. CutAtStop(text) = CutAt(stops, text)
        BY DEF CutAtStop, CutAt
    <2>3. ASSUME Settles(ids), \A stop \in stops : \A i \in DOMAIN stop : stop[i] # Replacement,
                 Opener \in Range(stream.content) => Whole(ids)
          PROVE  /\ Matches(stops, Said) = {}
                 /\ IF stream.finish # "none" THEN Said = CutAtStop(text) ELSE IsPrefix(Said, text)
        <3>1. ids \in Seq(Token) /\ stream.content \in Seq(Coded)
            BY <2>1 DEF Parts, SaidOn, SaidOver
        <3>2. Uncut(stops, ids, stream.content)
            BY <2>3, <3>1, SoundIf DEF Uncut, Clear, Whole, AllWhole
        <3>3. text \in Seq(Character) /\ Said \in Seq(Character)
            BY <3>1, DecodeFacts, SaidFacts DEF Said
        <3>4. CASE stream.finish # "none"
            <4>1. Said = CutAt(stops, text)
                BY <2>1, <3>2, <3>4 DEF Parts, SaidOver, Said
            <4>2. Matches(stops, CutAt(stops, text)) = {}
                BY <2>1, <3>3, CutFacts
            <4> QED
                BY <2>2, <3>4, <4>1, <4>2
        <3>5. CASE stream.finish = "none"
            <4> DEFINE held == tracker.held
            <4>1. held \in Seq(Character) /\ Said \o held = Trim(text) /\ Scanned(stops, Said, held)
                BY <2>1, <3>2, <3>5 DEF Parts, SaidOn, Said
            <4>2. Matches(stops, Trim(text)) = {}
                BY <4>1 DEF Scanned
            <4> HIDE DEF held, text, stops
            <4>3. Begins(Said, Trim(text)) /\ IsPrefix(Said, text)
                BY <3>3, <4>1, TrimPrefix
            <4>4. Trim(text) \in Seq(Character)
                BY <3>3, TrimFacts
            <4>5. Matches(stops, Said) \subseteq Matches(stops, Trim(text))
                BY <2>1, <3>3, <4>3, <4>4, MatchesBegin
            <4> QED
                BY <3>5, <4>2, <4>3, <4>5
        <3> QED
            BY <3>4, <3>5
    <2>4. ASSUME Settles(thinking)
          PROVE  IF stream.finish # "none" THEN stream.reasoning = thought ELSE IsPrefix(stream.reasoning, thought)
        <3>1. thinking \in Seq(Token) /\ stream.reasoning \in Seq(Character)
            BY <2>1 DEF Parts, ThoughtOn, ThoughtOver
        <3>2. Sound(thinking)
            BY <2>4, <3>1, SoundIf
        <3>3. CASE stream.finish # "none"
            BY <2>1, <3>2, <3>3 DEF Parts, ThoughtOver
        <3>4. CASE stream.finish = "none"
            <4>1. stream.reasoning = Trim(thought) /\ thought \in Seq(Character)
                BY <2>1, <3>1, <3>2, <3>4, DecodeFacts DEF Parts, ThoughtOn
            <4>2. <<>> \in Seq(Character) /\ stream.reasoning \o <<>> = stream.reasoning
                BY <3>1
            <4> HIDE DEF thought
            <4>3. stream.reasoning \o <<>> = Trim(thought)
                BY <4>1, <4>2
            <4>4. IsPrefix(stream.reasoning, thought)
                BY <3>1, <4>1, <4>2, <4>3, TrimPrefix
            <4> QED
                BY <3>4, <4>4
        <3> QED
            BY <3>3, <3>4
    <2> QED
        BY <2>3, <2>4 DEF StreamExact
<1>2. Spec => []XInv
    BY XInvInit, XInvNext, PTL DEF Spec
<1> QED
    BY <1>1, <1>2, PTL

-----------------------------------------------------------------------------
(* The framing of calls: what the router carries along, and the history.   *)

\* The message around a position names a function, as far as it was read.
Calls(h, i) ==
    LET at == LastOf(h, Marks, i)
    IN  /\ at > 0 /\ K(h, at) = "channel" /\ Between(h, at, i + 1, "message")
        /\ Between(h, at, BodyAt(h, at, i), "recipient")
\* Its body has begun.
Spoke(h, i) == Between(h, LastOf(h, Marks, i), i, "message")

\* The framing at a position, in these words.
LEMMA FramedIs ==
    ASSUME NEW h, NEW i
    PROVE  FramedAt(h, i) = IF Calls(h, i) /\ ~Spoke(h, i) THEN <<Opener>>
                            ELSE IF Calls(h, i) /\ K(h, i) \in Marks THEN <<Closer>>
                            ELSE IF Place(h, i) \in {"Content", "Call"} THEN Lossy(Bytes[h[i]]) ELSE <<>>
    BY DEF FramedAt, Calls, Spoke

\* A later token changes nothing of it.
LEMMA FramedBefore ==
    ASSUME NEW h \in Seq(Token), NEW tok \in Token, NEW i \in 1 .. Len(h)
    PROVE  FramedAt(Append(h, tok), i) = FramedAt(h, i)
<1> DEFINE g == Append(h, tok)
           at == LastOf(h, Marks, i)
<1>1. i \in Nat /\ i >= 1 /\ i \in 1 .. Len(h) + 1 /\ i + 1 \in Nat /\ i + 1 <= Len(h) + 1 /\ i <= Len(h) + 1
      /\ Len(h) \in Nat
    OBVIOUS
<1>2. LastOf(g, Marks, i) = at
    BY <1>1, LastBefore
<1>3. at \in 0 .. i - 1
    BY <1>1, LastFacts
<1>4. BodyAt(g, at, i) = BodyAt(h, at, i)
    BY <1>3, BodyBefore
<1>5. BodyAt(h, at, i) \in at + 1 .. i
    <2>1. at \in Nat /\ at < i
        BY <1>1, <1>3
    <2> QED
        BY <1>1, <2>1, BodyFacts
<1>6. g[i] = h[i] /\ (at > 0 => g[at] = h[at])
    BY <1>3
<1> HIDE DEF g, at
<1>7. \A kind : \A j \in Nat : j <= Len(h) + 1 => (Between(g, at, j, kind) <=> Between(h, at, j, kind))
    <2>1. at \in Nat
        BY <1>3
    <2> QED
        BY <2>1, GrownBetween DEF g
<1>8. K(g, i) = K(h, i) /\ (at > 0 => K(g, at) = K(h, at))
    BY <1>6 DEF K
<1>9. Place(g, i) = Place(h, i)
    BY PlaceBefore DEF g
<1>10. BodyAt(h, at, i) \in Nat /\ BodyAt(h, at, i) <= Len(h) + 1
    BY <1>1, <1>3, <1>5
<1>11. Spoke(g, i) <=> Spoke(h, i)
    BY <1>1, <1>2, <1>7 DEF Spoke, at
<1>12. Calls(g, i) <=> Calls(h, i)
    <2>1. Between(g, at, i + 1, "message") <=> Between(h, at, i + 1, "message")
        BY <1>1, <1>7
    <2>2. Between(g, at, BodyAt(g, at, i), "recipient") <=> Between(h, at, BodyAt(h, at, i), "recipient")
        BY <1>4, <1>7, <1>10
    <2> QED
        BY <1>2, <1>8, <2>1, <2>2 DEF Calls, at
<1>13. FramedAt(g, i) = FramedAt(h, i)
    BY <1>6, <1>8, <1>9, <1>11, <1>12, FramedIs
<1> QED
    BY <1>13 DEF g

\* What the framing is made of.
LEMMA FramedType ==
    ASSUME NEW h \in Seq(Token), NEW i \in DOMAIN h
    PROVE  FramedAt(h, i) \in Seq(Coded)
<1>1. h[i] \in Token
    OBVIOUS
<1>2. Lossy(Bytes[h[i]]) \in Seq(Character)
    BY <1>1, BytesFacts, LossyFacts, CharFacts
<1>3. Lossy(Bytes[h[i]]) \in Seq(Coded)
    BY <1>2, CodedFacts
<1>4. <<Opener>> \in Seq(Coded) /\ <<Closer>> \in Seq(Coded) /\ <<>> \in Seq(Coded)
    BY CodedFacts
<1> QED
    BY <1>3, <1>4, FramedIs

\* What a token adds to it.
LEMMA FramedAppend ==
    ASSUME NEW h \in Seq(Token), NEW tok \in Token
    PROVE  /\ Framed(h) \in Seq(Coded) /\ FramedAt(Append(h, tok), Len(h) + 1) \in Seq(Coded)
           /\ Framed(Append(h, tok)) = Framed(h) \o FramedAt(Append(h, tok), Len(h) + 1)
<1> DEFINE g == Append(h, tok)
           n == Len(h) + 1
           x == FramedAt(g, n)
           ss == [i \in DOMAIN h |-> FramedAt(h, i)]
           tt == [i \in DOMAIN g |-> FramedAt(g, i)]
<1>1. DOMAIN h = 1 .. Len(h) /\ DOMAIN g = 1 .. n /\ n \in DOMAIN g /\ g \in Seq(Token) /\ Len(h) \in Nat
    OBVIOUS
<1>2. \A i \in 1 .. Len(h) : FramedAt(g, i) = FramedAt(h, i)
    BY FramedBefore
<1> HIDE DEF g
<1>3. x \in Seq(Coded) /\ \A i \in DOMAIN h : FramedAt(h, i) \in Seq(Coded)
    BY <1>1, FramedType
<1> HIDE DEF x
<1>4. ss \in Seq(Seq(Coded)) /\ Len(ss) = Len(h)
    BY <1>1, <1>3
<1>5. tt = Append(ss, x)
    <2>1. Append(ss, x) = [i \in 1 .. n |-> IF i <= Len(h) THEN ss[i] ELSE x]
        BY <1>4
    <2>2. \A i \in 1 .. n : FramedAt(g, i) = IF i <= Len(h) THEN ss[i] ELSE x
        <3> SUFFICES ASSUME NEW i \in 1 .. n PROVE FramedAt(g, i) = IF i <= Len(h) THEN ss[i] ELSE x
            OBVIOUS
        <3>1. CASE i \in 1 .. Len(h)
            BY <1>1, <1>2, <3>1
        <3>2. CASE ~(i \in 1 .. Len(h))
            <4>1. i = n /\ ~(i <= Len(h))
                BY <1>1, <3>2
            <4> QED
                BY <4>1 DEF x
        <3> QED
            BY <3>1, <3>2
    <2> HIDE DEF ss
    <2>3. tt = [i \in 1 .. n |-> IF i <= Len(h) THEN ss[i] ELSE x]
        BY <1>1, <2>2
    <2> QED
        BY <2>1, <2>3
<1>6. Framed(h) = FlattenSeq(ss) /\ Framed(g) = FlattenSeq(tt)
    BY DEF Framed
<1> HIDE DEF ss, tt
<1>7. FlattenSeq(Append(ss, x)) = FlattenSeq(ss) \o x /\ FlattenSeq(ss) \in Seq(Coded)
    BY <1>3, <1>4, FlatAppend, FlatType
<1> QED
    BY <1>3, <1>5, <1>6, <1>7 DEF x, g

\* Nothing is framed of an empty history.
LEMMA FramedEmpty == Framed(<<>>) = <<>>
<1>1. [i \in DOMAIN <<>> |-> FramedAt(<<>>, i)] = <<>>
    OBVIOUS
<1> QED
    BY <1>1, FlatEmpty DEF Framed

\* Whether a state is in a call's body.
LEMMA StateTools ==
    /\ ~Markers.tool /\ ~Role.tool /\ ~Header.tool
    /\ \A a, b : Body(a, b).tool = b
<1>1. \A in : Outside(in).tool = FALSE
    BY DEF Outside
<1>2. ~Markers.tool /\ ~Role.tool /\ ~Header.tool
    BY <1>1 DEF Markers, Role, Header
<1> QED
    BY <1>2, StatesDiffer

\* The framing at a new position, from the history before it.
LEMMA CallsNext ==
    ASSUME NEW h, NEW tok, NEW g, NEW n, NEW at, Sees(h, tok, g, n, at)
    PROVE  /\ Spoke(g, n) <=> Between(h, at, n, "message")
           /\ Calls(g, n) <=> /\ at > 0 /\ K(h, at) = "channel"
                              /\ Between(h, at, n, "message") \/ Kind[tok] = "message"
                              /\ Between(g, at, BodyAt(g, at, n), "recipient")
<1>1. /\ LastOf(g, Marks, n) = at /\ (at > 0 => K(g, at) = K(h, at)) /\ n \in 0 .. n
      /\ Between(g, at, n + 1, "message") <=> Between(h, at, n, "message") \/ Kind[tok] = "message"
    BY DEF Sees
<1>2. Between(g, at, n, "message") <=> Between(h, at, n, "message")
    BY <1>1 DEF Sees
<1> QED
    BY <1>1, <1>2 DEF Calls, Spoke

\* A route and the state behind it, where a call opens or ends, and elsewhere.
Frames(route, was, is, calls, spoke, ends) ==
    /\ route = "ToolCall" <=> calls /\ ~spoke
    /\ route = "ToolCallEnd" <=> calls /\ spoke /\ ends
    /\ calls /\ ~spoke => is
    /\ calls /\ spoke /\ ends => was /\ ~is
    /\ ~(calls /\ ~spoke) /\ ~(calls /\ spoke /\ ends) => (is <=> was)

\* Outside a channel nothing is called.
LEMMA FrameOutside ==
    ASSUME NEW t, DOMAIN t = TrackerFields, NEW tok, NEW r, r = harmony_route(t, tok),
           \/ t.harmony_state \in {Markers, Role}
           \/ t.harmony_state = Body(TRUE, FALSE)
    PROVE  /\ r.route \notin {"ToolCall", "ToolCallEnd"}
           /\ ~t.harmony_state.tool /\ ~r.tracker.harmony_state.tool
<1> DEFINE kind == Kind[tok]
           plain == Body(TRUE, FALSE)
<1>0. ~t.harmony_state.tool
    BY StateTools
<1>1. \E route \in {"Framing", "Content"}, u \in {t, Open(t), To(t, Role), To(t, Markers), To(t, plain)} :
          r = Routed(route, u)
    <2>1. CASE t.harmony_state = Markers
        BY <2>1, StatesDiffer DEF harmony_route
    <2>2. CASE t.harmony_state = Role
        BY <2>2, StatesDiffer DEF harmony_route
    <2>3. CASE t.harmony_state = plain
        <3>1. t.harmony_state \notin {Markers, Role, Header} /\ t.harmony_state.final_channel
            BY <2>3, StatesDiffer
        <3>2. r = IF Kind[tok] \in {"end", "start", "channel"}
                  THEN Routed("Framing", IF Kind[tok] = "channel" THEN Open(t) ELSE To(t, Markers))
                  ELSE Routed("Content", t)
            BY <1>0, <3>1 DEF harmony_route
        <3> HIDE DEF plain
        <3> QED
            BY <3>2
    <2> QED
        BY <2>1, <2>2, <2>3
<1>2. PICK route \in {"Framing", "Content"}, u \in {t, Open(t), To(t, Role), To(t, Markers), To(t, plain)} :
          r = Routed(route, u)
    BY <1>1
<1>3. r.route = route /\ r.tracker = u
    BY <1>2, RoutedFacts
<1>4. ~u.harmony_state.tool
    <2>1. /\ \A state : To(t, state).harmony_state = state
          /\ Open(t).harmony_state = Header
        BY Routings
    <2> HIDE DEF plain
    <2>2. u.harmony_state \in {t.harmony_state, Header, Role, Markers, plain}
        BY <2>1
    <2>3. ~plain.tool
        BY StateTools DEF plain
    <2> QED
        BY <1>0, <2>2, <2>3, StateTools
<1> QED
    BY <1>0, <1>3, <1>4

\* A header names a function, or does not.
LEMMA FrameHeader ==
    ASSUME NEW h, NEW tok, NEW g, NEW n, NEW at, Sees(h, tok, g, n, at), n = Len(h) + 1,
           NEW t, DOMAIN t = TrackerFields, InHeader(h, at, t), Kind[tok] \notin {"start", "channel"},
           NEW r, r = harmony_route(t, tok)
    PROVE  Frames(r.route, t.harmony_state.tool, r.tracker.harmony_state.tool,
                  Calls(g, n), Spoke(g, n), Kind[tok] \in Marks)
<1> DEFINE kind == Kind[tok]
           name == t.harmony_header_ids
           called == Names(name, "recipient")
           body == Body(Names(name, "final"), called)
           call == IF called THEN "ToolCall" ELSE "Framing"
           named == [t EXCEPT !.harmony_header_ids = Append(@, tok)]
<1>1. /\ t.harmony_state = Header /\ at > 0 /\ K(h, at) = "channel" /\ ~Between(h, at, n, "message")
      /\ \A k : Names(name, k) <=> Between(h, at, n, k)
    BY DEF InHeader
<1>2. r = IF kind = "message" THEN Routed(call, To(t, body))
          ELSE Routed("Framing", IF kind \in {"end", "start"} THEN To(t, Markers) ELSE named)
    BY <1>1, StatesDiffer DEF harmony_route
<1>3. ~Spoke(g, n)
    BY <1>1, CallsNext
<1>4. Calls(g, n) <=> kind = "message" /\ called
    <2>1. /\ at \in Nat /\ n \in Nat /\ at < n /\ n \in 0 .. n
          /\ Between(g, at, n, "recipient") <=> Between(h, at, n, "recipient")
          /\ Between(g, at, n, "message") <=> Between(h, at, n, "message")
        BY DEF Sees
    <2>2. BodyAt(g, at, n) = n
        <3> DEFINE b == BodyAt(g, at, n)
        <3>1. b \in at + 1 .. n /\ (b < n => K(g, b) = "message")
            BY <2>1, BodyFacts
        <3> HIDE DEF b
        <3>2. ~(b < n)
            BY <1>1, <2>1, <3>1 DEF Between
        <3>3. b = n
            BY <2>1, <3>1, <3>2
        <3> QED
            BY <3>3 DEF b
    <2>3. called <=> Between(h, at, n, "recipient")
        BY <1>1
    <2> QED
        BY <1>1, <2>1, <2>2, <2>3, CallsNext
<1>5. ~t.harmony_state.tool
    BY <1>1, StateTools
<1>6. /\ \A route, v : Routed(route, v).route = route /\ Routed(route, v).tracker = v
      /\ \A state : To(t, state).harmony_state = state
      /\ named.harmony_state = Header /\ body.tool = called
    <2>1. named.harmony_state = Header
        BY <1>1 DEF TrackerFields
    <2>2. body.tool = called
        BY StateTools
    <2> HIDE DEF body, named
    <2> QED
        BY <2>1, <2>2, Routings
<1> HIDE DEF kind, body, named, called
<1>7. CASE kind = "message"
    <2>1. r.route = call /\ r.tracker = To(t, body)
        BY <1>2, <1>6, <1>7
    <2>2. r.tracker.harmony_state.tool = called
        BY <1>6, <2>1
    <2> QED
        BY <1>3, <1>4, <1>5, <1>7, <2>1, <2>2 DEF Frames
<1>8. CASE kind # "message"
    <2> DEFINE u == IF kind \in {"end", "start"} THEN To(t, Markers) ELSE named
    <2>1. ~u.harmony_state.tool
        BY <1>6, StateTools
    <2>2. r = Routed("Framing", u)
        BY <1>2, <1>8
    <2> HIDE DEF u
    <2>3. r.route = "Framing" /\ r.tracker = u
        BY <1>6, <2>2
    <2> QED
        BY <1>3, <1>4, <1>5, <1>8, <2>1, <2>3 DEF Frames
<1> QED
    BY <1>7, <1>8

\* A call's body, or another.
LEMMA FrameBody ==
    ASSUME NEW h \in Seq(Token), NEW tok \in Token, NEW g, g = Append(h, tok),
           NEW n, n = Len(h) + 1, NEW at, Sees(h, tok, g, n, at),
           NEW t, DOMAIN t = TrackerFields, InBody(h, at, t),
           NEW r, r = harmony_route(t, tok)
    PROVE  Frames(r.route, t.harmony_state.tool, r.tracker.harmony_state.tool,
                  Calls(g, n), Spoke(g, n), Kind[tok] \in Marks)
<1>1. at > 0 /\ K(h, at) = "channel" /\ n \in Nat /\ Len(h) = n - 1 /\ at \in Nat
    BY DEF InBody, Sees
<1>2. PICK b \in at + 1 .. Len(h) :
          /\ K(h, b) = "message" /\ ~Between(h, at, b, "message")
          /\ t.harmony_state = Body(Between(h, at, b, "final"), Between(h, at, b, "recipient"))
    BY DEF InBody
<1> DEFINE final == Between(h, at, b, "final")
           called == Between(h, at, b, "recipient")
<1>3. b \in 0 .. n /\ b \in at + 1 .. n - 1
    BY <1>1, <1>2
<1>4. K(g, b) = "message" /\ ~Between(g, at, b, "message") /\ (Between(g, at, b, "recipient") <=> called)
    <2>1. \A j \in 1 .. Len(h) : K(g, j) = K(h, j)
        BY DEF K
    <2>2. b \in 1 .. Len(h)
        BY <1>1, <1>2
    <2> QED
        BY <1>2, <1>3, <2>1, <2>2 DEF Sees
<1>5. BodyAt(g, at, n) = b
    BY <1>1, <1>3, <1>4, BodyIs
<1>6. Between(h, at, n, "message")
    BY <1>2, <1>3 DEF Between
<1>7. Spoke(g, n) /\ (Calls(g, n) <=> called)
    BY <1>1, <1>4, <1>5, <1>6, CallsNext
<1>8. /\ t.harmony_state \notin {Markers, Role, Header}
      /\ t.harmony_state.tool = called
    <2> HIDE DEF called, final
    <2> QED
        BY <1>2, StatesDiffer DEF called, final
<1>9. Kind[tok] \in {"end", "start", "channel"} <=> Kind[tok] \in Marks
    BY MarkKinds
<1>10. /\ \A route, v : Routed(route, v).route = route /\ Routed(route, v).tracker = v
       /\ \A state : To(t, state).harmony_state = state
       /\ Open(t).harmony_state = Header
    BY Routings
<1> HIDE DEF called, final
<1>11. CASE Kind[tok] \in Marks
    <2> DEFINE u == IF Kind[tok] = "channel" THEN Open(t) ELSE To(t, Markers)
               end == IF called THEN "ToolCallEnd" ELSE "Framing"
    <2>1. r = Routed(end, u)
        BY <1>8, <1>9, <1>11 DEF harmony_route
    <2>2. ~u.harmony_state.tool
        BY <1>10, StateTools
    <2> HIDE DEF u, end
    <2>3. r.route = end /\ r.tracker = u
        BY <1>10, <2>1
    <2>4. r.route = IF called THEN "ToolCallEnd" ELSE "Framing"
        BY <2>3 DEF end
    <2> QED
        BY <1>7, <1>8, <1>11, <2>2, <2>3, <2>4 DEF Frames
<1>12. CASE Kind[tok] \notin Marks
    <2> DEFINE route == IF t.harmony_state.tool \/ t.harmony_state.final_channel THEN "Content" ELSE "Reasoning"
    <2>1. r = Routed(route, t)
        BY <1>8, <1>9, <1>12 DEF harmony_route
    <2>2. route \notin {"ToolCall", "ToolCallEnd"}
        OBVIOUS
    <2> HIDE DEF route
    <2>3. r.route = route /\ r.tracker = t
        BY <1>10, <2>1
    <2> QED
        BY <1>7, <1>8, <1>12, <2>2, <2>3 DEF Frames
<1> QED
    BY <1>11, <1>12

\* harmony_route frames what the history says is a call.
LEMMA FrameStep ==
    ASSUME NEW h \in Seq(Token), NEW tok \in Token, WellFormed(Append(h, tok)),
           NEW t, DOMAIN t = TrackerFields, HarmonyAgrees(h, t),
           NEW r, r = harmony_route(t, tok)
    PROVE  Frames(r.route, t.harmony_state.tool, r.tracker.harmony_state.tool,
                  Calls(Append(h, tok), Len(h) + 1), Spoke(Append(h, tok), Len(h) + 1), Kind[tok] \in Marks)
<1> DEFINE g == Append(h, tok)
           n == Len(h) + 1
           at == LastOf(h, Marks, n)
<1>1. /\ t.harmony_header_ids \in Seq(Token)
      /\ InMarkers(h, at, t) \/ InRole(h, at, t) \/ InHeader(h, at, t) \/ InPlain(h, at, t) \/ InBody(h, at, t)
    BY DEF HarmonyAgrees, Agrees
<1>2. g = Append(h, tok) /\ n = Len(h) + 1 /\ at = LastOf(h, Marks, n) /\ WellFormed(g)
    OBVIOUS
<1> HIDE DEF g, n, at
<1>3. Sees(h, tok, g, n, at)
    BY <1>2, NextSees
<1> SUFFICES Frames(r.route, t.harmony_state.tool, r.tracker.harmony_state.tool,
                    Calls(g, n), Spoke(g, n), Kind[tok] \in Marks)
    BY <1>2
<1>4. CASE InMarkers(h, at, t) \/ InRole(h, at, t) \/ InPlain(h, at, t)
    <2>1. ~(at > 0 /\ K(h, at) = "channel")
        <3>1. at = 0 \/ K(h, at) = "end" \/ K(h, at) = "start"
            BY <1>4 DEF InMarkers, InRole, InPlain
        <3>2. ~(0 > 0)
            OBVIOUS
        <3>3. CASE at = 0
            BY <3>2, <3>3
        <3>4. CASE K(h, at) = "end" \/ K(h, at) = "start"
            BY <3>4
        <3> QED
            BY <3>1, <3>3, <3>4
    <2>2. ~Calls(g, n)
        BY <1>3, <2>1, CallsNext
    <2>3. t.harmony_state \in {Markers, Role} \/ t.harmony_state = Body(TRUE, FALSE)
        BY <1>4 DEF InMarkers, InRole, InPlain
    <2>4. /\ r.route \notin {"ToolCall", "ToolCallEnd"}
          /\ ~t.harmony_state.tool /\ ~r.tracker.harmony_state.tool
        BY <2>3, FrameOutside
    <2> QED
        BY <2>2, <2>4 DEF Frames
<1>5. CASE InHeader(h, at, t)
    <2>1. at > 0 /\ K(h, at) = "channel" /\ ~Between(h, at, n, "message")
        BY <1>2, <1>5 DEF InHeader
    <2>2. Kind[tok] # "start"
        BY <1>2, <1>3, <2>1, NoStart
    <2>3. Kind[tok] # "channel"
        BY <1>2, <2>1, WellBefore
    <2> QED
        BY <1>2, <1>3, <1>5, <2>2, <2>3, FrameHeader
<1>6. CASE InBody(h, at, t)
    BY <1>2, <1>3, <1>6, FrameBody
<1> QED
    BY <1>1, <1>4, <1>5, <1>6

\* What a token adds to the framed content, by its route.
LEMMA FrameAdds ==
    ASSUME NEW h \in Seq(Token), NEW tok \in Token, WellFormed(Append(h, tok)), request.harmony,
           NEW t, DOMAIN t = TrackerFields, HarmonyAgrees(h, t),
           NEW r, r = harmony_route(t, tok)
    PROVE  /\ FramedAt(Append(h, tok), Len(h) + 1)
              = IF r.route = "ToolCall" THEN <<Opener>>
                ELSE IF r.route = "ToolCallEnd" THEN <<Closer>>
                ELSE IF r.route = "Content" THEN Lossy(Bytes[tok]) ELSE <<>>
           /\ r.route = "ToolCall" => r.tracker.harmony_state.tool
           /\ r.route = "ToolCallEnd" => t.harmony_state.tool /\ ~r.tracker.harmony_state.tool
           /\ r.route \notin {"ToolCall", "ToolCallEnd"} =>
                 (r.tracker.harmony_state.tool <=> t.harmony_state.tool)
<1> DEFINE g == Append(h, tok)
           n == Len(h) + 1
<1>1. Frames(r.route, t.harmony_state.tool, r.tracker.harmony_state.tool, Calls(g, n), Spoke(g, n), Kind[tok] \in Marks)
    BY FrameStep
<1>2. Fits(r.route, HarmonyPlace(g, n))
    BY HarmonyStep
<1>3. g[n] = tok
    OBVIOUS
<1> HIDE DEF g, n
<1>4. K(g, n) = Kind[tok] /\ Place(g, n) = HarmonyPlace(g, n)
    BY <1>3 DEF K, Place
<1>5. Place(g, n) \in {"Content", "Call"} <=> r.route = "Content"
    BY <1>2, <1>4 DEF Fits
<1>6. FramedAt(g, n) = IF Calls(g, n) /\ ~Spoke(g, n) THEN <<Opener>>
                       ELSE IF Calls(g, n) /\ Kind[tok] \in Marks THEN <<Closer>>
                       ELSE IF r.route = "Content" THEN Lossy(Bytes[tok]) ELSE <<>>
    BY <1>3, <1>4, <1>5, FramedIs
<1>7. FramedAt(g, n)
      = IF r.route = "ToolCall" THEN <<Opener>>
        ELSE IF r.route = "ToolCallEnd" THEN <<Closer>>
        ELSE IF r.route = "Content" THEN Lossy(Bytes[tok]) ELSE <<>>
    BY <1>1, <1>6 DEF Frames
<1>8. /\ r.route = "ToolCall" => r.tracker.harmony_state.tool
      /\ r.route = "ToolCallEnd" => t.harmony_state.tool /\ ~r.tracker.harmony_state.tool
      /\ r.route \notin {"ToolCall", "ToolCallEnd"} => (r.tracker.harmony_state.tool <=> t.harmony_state.tool)
    BY <1>1 DEF Frames
<1> QED
    BY <1>7, <1>8 DEF g, n

\* What is joined to the same text is the same.
LEMMA Cancel ==
    ASSUME NEW T, NEW s \in Seq(T), NEW a \in Seq(T), NEW b \in Seq(T), s \o a = s \o b
    PROVE  a = b
<1> DEFINE m == Len(s)
           x == s \o a
           y == s \o b
<1>1. /\ m \in Nat /\ Len(a) \in Nat /\ Len(b) \in Nat
      /\ Len(x) = m + Len(a) /\ Len(y) = m + Len(b)
      /\ \A i \in 1 .. Len(a) : x[m + i] = a[i]
      /\ \A i \in 1 .. Len(b) : y[m + i] = b[i]
    OBVIOUS
<1>2. x = y
    OBVIOUS
<1> HIDE DEF x, y, m
<1>3. Len(a) = Len(b) /\ \A i \in 1 .. Len(a) : a[i] = b[i]
    BY <1>1, <1>2
<1> QED
    BY <1>3

\* Tokens that cut no character, and nothing looked for behind them.
Bare(stops, ids) == stops = {} /\ AllWhole(ids) /\ Decode(ids) = Lossy(Spelled(ids))

\* Then nothing is held back.
LEMMA BareFacts ==
    ASSUME NEW stops, NEW ids \in Seq(Token), Bare(stops, ids)
    PROVE  /\ \A content : Uncut(stops, ids, content)
           /\ Trim(Decode(ids)) = Decode(ids) /\ ~EndsBroken(Decode(ids))
<1>1. Sound(ids) /\ ~EndsBroken(Decode(ids)) /\ Decode(ids) \in Seq(Character)
    BY SoundIf, WholeEnd, DecodeFacts DEF Bare
<1>2. Trim(Decode(ids)) = Decode(ids)
    BY <1>1, BrokenIs
<1> QED
    BY <1>1, <1>2 DEF Bare, Uncut, Clear

\* Then the same holds of fewer tokens, and a token says its own text.
LEMMA BareBefore ==
    ASSUME NEW stops, NEW ids \in Seq(Token), NEW tok \in Token, Bare(stops, Append(ids, tok))
    PROVE  /\ Bare(stops, ids)
           /\ Decode(Append(ids, tok)) = Decode(ids) \o Lossy(Bytes[tok])
           /\ Lossy(Bytes[tok]) \in Seq(Character)
<1> DEFINE q == <<tok>>
<1>1. q \in Seq(Token) /\ Append(ids, tok) = ids \o q
    OBVIOUS
<1>2. Spelled(q) = Bytes[tok] /\ Bytes[tok] \in Seq(Character)
    <2>1. Append(<<>>, tok) = q /\ <<>> \in Seq(Token)
        OBVIOUS
    <2>2. Spelled(Append(<<>>, tok)) = Spelled(<<>>) \o Bytes[tok]
        BY <2>1, SpelledAppend
    <2>3. Bytes[tok] \in Seq(Character)
        BY BytesFacts
    <2>4. <<>> \o Bytes[tok] = Bytes[tok]
        BY <2>3
    <2> QED
        BY <2>1, <2>2, <2>3, <2>4, SpelledEmpty
<1> HIDE DEF q
<1>3. Decode(ids \o q) = Lossy(Spelled(ids \o q))
    BY <1>1 DEF Bare
<1>4. Decode(ids) = Lossy(Spelled(ids))
    BY <1>1, <1>3, PlainBefore
<1>5. AllWhole(ids)
    BY WholeBefore DEF Bare
<1>6. ~EndsBroken(Decode(ids))
    BY <1>5, WholeEnd
<1>7. Decode(ids \o q) = Decode(ids) \o Lossy(Spelled(q))
    BY <1>1, <1>3, <1>6, DecodeBehind
<1>8. Lossy(Bytes[tok]) \in Seq(Character)
    BY <1>2, LossyFacts, CharFacts
<1> QED
    BY <1>1, <1>2, <1>4, <1>5, <1>7, <1>8 DEF Bare

\* Then a token's text goes out as it comes.
LEMMA BarePush ==
    ASSUME NEW stops, NEW d, NEW ids, NEW held, NEW content, NEW open,
           SaidOn(stops, d, ids, held, content, open), NEW tok \in Token, Bare(stops, Append(ids, tok)),
           NEW out, out = Push(d, Append(ids, tok)),
           NEW scan, scan = ScanPush(stops, held, out.text)
    PROVE  /\ ~scan.stopped
           /\ out.text = <<>> => Lossy(Bytes[tok]) = <<>>
           /\ scan.text = Lossy(Bytes[tok])
<1> DEFINE more == Append(ids, tok)
           says == Lossy(Bytes[tok])
           said == Pick(content, Character)
<1>1. /\ ids \in Seq(Token) /\ DecoderType(d, ids) /\ held \in Seq(Character) /\ content \in Seq(Coded)
      /\ stops = {} /\ Stops(stops) /\ more \in Seq(Token)
    BY DEF SaidOn, Bare, Stops
<1>2. Bare(stops, ids) /\ Decode(more) = Decode(ids) \o says /\ says \in Seq(Character)
    BY <1>1, BareBefore
<1>3. /\ Uncut(stops, ids, content) /\ Trim(Decode(ids)) = Decode(ids)
      /\ \A c : Uncut(stops, more, c) /\ Trim(Decode(more)) = Decode(more)
    BY <1>1, <1>2, BareFacts
<1>4. /\ out.text = <<>> => SaidOn(stops, out.decoder, more, held, content, open)
      /\ ~scan.stopped => SaidOn(stops, out.decoder, more, scan.held, content \o scan.text, open)
    BY <1>1, SaidPush
<1>5. said \o held = Decode(ids) /\ held = <<>>
    BY <1>1, <1>3 DEF SaidOn, Scanned
<1>6. said \in Seq(Character) /\ said \o <<>> = said
    <2>1. said \in Seq(Character)
        BY <1>1, SaidFacts
    <2> HIDE DEF said
    <2> QED
        BY <2>1
<1>7. Decode(ids) = said
    BY <1>5, <1>6
<1>8. ~scan.stopped
    <2>1. Matches(stops, held \o out.text) = {}
        BY <1>1 DEF Matches
    <2> DEFINE text == held \o out.text
               a == SubSeq(text, 1, Len(text) - Kept(stops, text))
               c == SubSeq(text, Len(text) - Kept(stops, text) + 1, Len(text))
    <2>2. scan = [text |-> a, stopped |-> FALSE, held |-> c]
        BY <2>1 DEF ScanPush
    <2> HIDE DEF a, c
    <2>3. scan.stopped = FALSE
        BY <2>2, Fields
    <2> QED
        BY <2>3
<1>9. out.text \in Seq(Character)
    BY <1>1, PushType
<1>10. scan.text \in Seq(Character)
    BY <1>1, <1>9, ScanTypes
<1> HIDE DEF more, says, said
<1>11. ASSUME out.text = <<>> PROVE says = <<>>
    <2>1. said \o held = Decode(more)
        BY <1>3, <1>4, <1>11 DEF SaidOn, said
    <2>2. said \o <<>> = said \o says /\ <<>> \in Seq(Character)
        BY <1>2, <1>5, <1>7, <2>1
    <2>3. <<>> = says
        BY <1>2, <1>6, <2>2, Cancel
    <2> QED
        BY <2>3
<1>12. scan.text = says
    <2>1. SaidOn(stops, out.decoder, more, scan.held, content \o scan.text, open)
        BY <1>4, <1>8
    <2>2. Pick(content \o scan.text, Character) \o scan.held = Decode(more) /\ scan.held = <<>>
        BY <1>1, <1>3, <2>1 DEF SaidOn, Scanned
    <2>3. Pick(content \o scan.text, Character) = said \o scan.text
        BY <1>1, <1>10, SaidFacts DEF said
    <2>4. said \o scan.text = said \o says
        <3>1. (said \o scan.text) \o <<>> = Decode(more)
            BY <2>2, <2>3
        <3>2. said \o scan.text \in Seq(Character)
            BY <1>6, <1>10
        <3>3. (said \o scan.text) \o <<>> = said \o scan.text
            BY <3>2
        <3> QED
            BY <1>2, <1>7, <3>1, <3>3
    <2> QED
        BY <1>2, <1>6, <1>10, <2>4, Cancel
<1> QED
    BY <1>8, <1>11, <1>12 DEF says

\* Then nothing is left to finish with.
LEMMA BareFinish ==
    ASSUME NEW stops, NEW d, NEW ids, NEW held, NEW content, NEW open,
           SaidOn(stops, d, ids, held, content, open), Bare(stops, ids),
           NEW rest, rest = Finish(d, ids),
           NEW scan, scan = ScanFinish(stops, held, rest.text)
    PROVE  /\ rest.text = <<>> /\ Finish(rest.decoder, ids).text = <<>>
           /\ scan.text = <<>> /\ ~scan.stopped
<1>1. ids \in Seq(Token) /\ stops = {}
    BY DEF SaidOn, Bare
<1>2. /\ Uncut(stops, ids, content) /\ ~EndsBroken(Decode(ids))
    BY <1>1, BareFacts
<1>3. Going(d, ids) /\ held = <<>>
    BY <1>1, <1>2 DEF SaidOn, Scanned
<1>4. rest.text = <<>> /\ Going(rest.decoder, ids)
    BY <1>1, <1>2, <1>3, FinishIs
<1>5. Finish(rest.decoder, ids).text = <<>>
    BY <1>1, <1>2, <1>4, FinishIs
<1>6. scan.text = <<>> /\ ~scan.stopped
    <2>1. Matches(stops, held \o rest.text) = {}
        BY <1>1 DEF Matches
    <2>2. held \o rest.text = <<>>
        BY <1>3, <1>4
    <2>3. scan = [text |-> <<>>, stopped |-> FALSE, held |-> <<>>]
        BY <2>1, <2>2 DEF ScanFinish
    <2> QED
        BY <2>3
<1> QED
    BY <1>4, <1>5, <1>6

\* What the delivery of a token does to the content, its framing included.
Delivers(route, t, tok, s, u, v) ==
    /\ v.finish = "none"
    /\ v.content = IF route = "ToolCall" THEN Append(s.content, Opener)
                   ELSE IF route = "ToolCallEnd" /\ t.harmony_tool_open THEN Append(s.content, Closer)
                   ELSE IF route = "Content" THEN s.content \o Lossy(Bytes[tok]) ELSE s.content
    /\ u.harmony_tool_open <=> \/ route = "ToolCall"
                               \/ route # "ToolCallEnd" /\ t.harmony_tool_open

\* A content token.
LEMMA ContentDelivers ==
    ASSUME NEW t, NEW tok \in Token, Stops(request.stops), Parts(request.stops, t, stream),
           stream.finish = "none", NEW lps, SendContent(t, Append(t.output_ids, tok), lps),
           Bare(request.stops, Append(t.output_ids, tok))
    PROVE  Delivers("Content", t, tok, stream, tracker', stream')
<1> DEFINE ids == Append(t.output_ids, tok)
           stops == request.stops
           out == Push(t.output, ids)
           scan == ScanPush(stops, t.held, out.text)
           next == [t EXCEPT !.output_ids = ids, !.output = out.decoder]
           waits == [next EXCEPT !.pending_raw_lps = lps]
           cleared == [next EXCEPT !.held = scan.held, !.pending_raw_lps = <<>>]
           sent == [stream EXCEPT !.content = @ \o scan.text, !.logprobs = @ \o lps]
           ended == Ended(cleared, sent, "stop")
           says == Lossy(Bytes[tok])
<1>0. /\ DOMAIN t = TrackerFields /\ DOMAIN stream = StreamFields
      /\ SaidOn(stops, t.output, t.output_ids, t.held, stream.content, t.harmony_tool_open)
      /\ t.output_ids \in Seq(Token) /\ stream.content \in Seq(Coded)
    BY DEF Parts, SaidOn
<1>1. Becomes(IF out.text = <<>> THEN Effect(waits, stream)
              ELSE IF scan.stopped THEN ended ELSE Effect(cleared, sent))
    BY DEF SendContent, drain_logprobs
<1>2. ~scan.stopped /\ (out.text = <<>> => says = <<>>) /\ scan.text = says
    BY <1>0, BarePush
<1> HIDE DEF ids, stops, out, scan, says
<1>3. waits.harmony_tool_open = t.harmony_tool_open /\ cleared.harmony_tool_open = t.harmony_tool_open
    BY <1>0 DEF TrackerFields
<1>4. sent.content = stream.content \o scan.text /\ sent.finish = stream.finish
    BY <1>0 DEF StreamFields
<1> HIDE DEF waits, cleared, sent, ended
<1>5. stream.content \o <<>> = stream.content
    BY <1>0
<1>6. CASE out.text = <<>>
    <2>1. tracker' = waits /\ stream' = stream
        BY <1>1, <1>6, EffectFacts DEF Becomes
    <2> QED
        BY <1>2, <1>3, <1>5, <1>6, <2>1 DEF Delivers, says
<1>7. CASE out.text # <<>>
    <2>1. tracker' = cleared /\ stream' = sent
        BY <1>1, <1>2, <1>7, EffectFacts DEF Becomes
    <2> QED
        BY <1>2, <1>3, <1>4, <2>1 DEF Delivers, says
<1> QED
    BY <1>6, <1>7

\* The end of a call.
LEMMA CloseDelivers ==
    ASSUME NEW stops, NEW t, NEW s, Parts(stops, t, s), s.finish = "none", Bare(stops, t.output_ids),
           NEW e, e = close_harmony_tool_call(t, s), NEW tok
    PROVE  Delivers("ToolCallEnd", t, tok, s, e.tracker, e.stream)
<1> DEFINE rest == Finish(t.output, t.output_ids)
           u == [t EXCEPT !.harmony_tool_open = FALSE, !.output = rest.decoder]
           v == [s EXCEPT !.content = Append(@ \o rest.text, Closer)]
<1>0. /\ DOMAIN t = TrackerFields /\ DOMAIN s = StreamFields
      /\ SaidOn(stops, t.output, t.output_ids, t.held, s.content, t.harmony_tool_open)
      /\ s.content \in Seq(Coded)
    BY DEF Parts, SaidOn
<1>1. e = IF ~t.harmony_tool_open THEN Effect(t, s) ELSE Effect(u, v)
    BY DEF close_harmony_tool_call
<1>2. rest.text = <<>>
    BY <1>0, BareFinish
<1> HIDE DEF rest
<1>3. u.harmony_tool_open = FALSE
    BY <1>0 DEF TrackerFields
<1>4. v.content = Append(s.content, Closer) /\ v.finish = s.finish
    <2>1. s.content \o rest.text = s.content
        BY <1>0, <1>2
    <2>2. v.content = Append(s.content \o rest.text, Closer) /\ v.finish = s.finish
        BY <1>0 DEF StreamFields
    <2> QED
        BY <2>1, <2>2
<1> HIDE DEF u, v
<1>5. CASE ~t.harmony_tool_open
    <2>1. e.tracker = t /\ e.stream = s
        BY <1>1, <1>5, EffectFacts
    <2> QED
        BY <1>5, <2>1 DEF Delivers
<1>6. CASE t.harmony_tool_open
    <2>1. e.tracker = u /\ e.stream = v
        BY <1>1, <1>6, EffectFacts
    <2> QED
        BY <1>3, <1>4, <1>6, <2>1 DEF Delivers
<1> QED
    BY <1>5, <1>6

\* A token of any route.
LEMMA TokenDelivers ==
    ASSUME NEW t, NEW tok \in Token, NEW route \in Routes, Stops(request.stops),
           Parts(request.stops, t, stream), stream.finish = "none", Deliver(route, t, tok),
           Bare(request.stops, tracker'.output_ids)
    PROVE  Delivers(route, t, tok, stream, tracker', stream')
<1>0. DOMAIN t = TrackerFields /\ DOMAIN stream = StreamFields
    BY DEF Parts
<1>1. Delivered(route, t, tok, tracker')
    BY <1>0, DeliverFacts
<1>2. CASE route = "Framing" \/ (route = "Reasoning" /\ ~request.wants_reasoning)
    <2>1. Becomes(Effect(t, stream))
        BY <1>2 DEF Deliver
    <2>2. tracker' = t /\ stream' = stream
        BY <2>1, EffectFacts DEF Becomes
    <2> QED
        BY <1>2, <2>2 DEF Delivers
<1>3. CASE route = "Reasoning" /\ request.wants_reasoning
    <2> DEFINE ids == Append(t.thinking_ids, tok)
               out == Push(t.thinking, ids)
               u == [t EXCEPT !.thinking_ids = ids, !.thinking = out.decoder]
               v == [stream EXCEPT !.reasoning = @ \o out.text]
    <2>1. SendReasoning(t, ids)
        BY <1>3 DEF Deliver
    <2>2. Becomes(Effect(u, v))
        BY <2>1 DEF SendReasoning
    <2> HIDE DEF out, ids
    <2>3. u.harmony_tool_open = t.harmony_tool_open
        BY <1>0 DEF TrackerFields
    <2>4. v.content = stream.content /\ v.finish = stream.finish
        BY <1>0 DEF StreamFields
    <2> HIDE DEF u, v
    <2>5. tracker' = u /\ stream' = v
        BY <2>2, EffectFacts DEF Becomes
    <2> QED
        BY <1>3, <2>3, <2>4, <2>5 DEF Delivers
<1>4. CASE route = "Content"
    <2>1. SendContent(t, Append(t.output_ids, tok), Append(t.pending_raw_lps, tok))
        BY <1>4 DEF Deliver
    <2>2. tracker'.output_ids = Append(t.output_ids, tok)
        BY <1>1, <1>4 DEF Delivered
    <2> QED
        BY <1>4, <2>1, <2>2, ContentDelivers
<1>5. CASE route = "ToolCall"
    <2> DEFINE u == [t EXCEPT !.harmony_tool_open = TRUE]
               v == [stream EXCEPT !.content = Append(@, Opener)]
    <2>1. Becomes(Effect(u, v))
        BY <1>5 DEF Deliver
    <2>2. u.harmony_tool_open = TRUE
        BY <1>0 DEF TrackerFields
    <2>3. v.content = Append(stream.content, Opener) /\ v.finish = stream.finish
        BY <1>0 DEF StreamFields
    <2> HIDE DEF u, v
    <2>4. tracker' = u /\ stream' = v
        BY <2>1, EffectFacts DEF Becomes
    <2> QED
        BY <1>5, <2>2, <2>3, <2>4 DEF Delivers
<1>6. CASE route = "ToolCallEnd"
    <2>1. Becomes(close_harmony_tool_call(t, stream))
        BY <1>6 DEF Deliver
    <2>2. tracker'.output_ids = t.output_ids
        BY <1>1, <1>6 DEF Delivered
    <2>3. Delivers("ToolCallEnd", t, tok, stream, close_harmony_tool_call(t, stream).tracker,
                   close_harmony_tool_call(t, stream).stream)
        BY <2>2, CloseDelivers
    <2> QED
        BY <1>6, <2>1, <2>3 DEF Becomes
<1> QED
    BY <1>2, <1>3, <1>4, <1>5, <1>6 DEF Routes

\* The end of a stream closes the call that is open.
LEMMA FlushDelivers ==
    ASSUME NEW t, NEW s, Parts(request.stops, t, s), s.finish = "none", Bare(request.stops, t.output_ids)
    PROVE  /\ Flush(t, s).stream.finish # "none"
           /\ Flush(t, s).stream.content = IF t.harmony_tool_open THEN Append(s.content, Closer) ELSE s.content
<1> DEFINE stops == request.stops
           rest == Finish(t.output, t.output_ids)
           scan == ScanFinish(stops, t.held, rest.text)
           u == [t EXCEPT !.output = rest.decoder, !.held = scan.held, !.pending_raw_lps = <<>>]
           v == [s EXCEPT !.content = @ \o scan.text, !.logprobs = @ \o t.pending_raw_lps]
           again == Finish(u.output, u.output_ids)
           uu == [u EXCEPT !.harmony_tool_open = FALSE, !.output = again.decoder]
           vv == [v EXCEPT !.content = Append(@ \o again.text, Closer)]
           closed == close_harmony_tool_call(u, v)
           reason == IF scan.stopped THEN "stop" ELSE "length"
           over == Finish(closed.tracker.thinking, closed.tracker.thinking_ids)
           x == [closed.tracker EXCEPT !.thinking = over.decoder]
           y == [closed.stream EXCEPT !.reasoning = @ \o over.text, !.finish = reason]
<1>0. /\ DOMAIN t = TrackerFields /\ DOMAIN s = StreamFields
      /\ SaidOn(stops, t.output, t.output_ids, t.held, s.content, t.harmony_tool_open)
      /\ s.content \in Seq(Coded)
    BY DEF Parts, SaidOn
<1>1. Flush(t, s) = Effect(x, y)
    BY DEF Flush, Ended, drain_logprobs
<1>2. closed = IF ~u.harmony_tool_open THEN Effect(u, v) ELSE Effect(uu, vv)
    BY DEF close_harmony_tool_call
<1>3. scan.text = <<>> /\ Finish(rest.decoder, t.output_ids).text = <<>>
    BY <1>0, BareFinish
<1>4. reason # "none"
    OBVIOUS
<1> HIDE DEF rest, scan, reason, closed, over
<1>5. u.output = rest.decoder /\ u.output_ids = t.output_ids /\ u.harmony_tool_open = t.harmony_tool_open
    BY <1>0 DEF TrackerFields
<1>6. again.text = <<>>
    <2> HIDE DEF u
    <2> QED
        BY <1>3, <1>5
<1>7. DOMAIN v = StreamFields /\ v.content = s.content
    <2>1. s.content \o scan.text = s.content
        BY <1>0, <1>3
    <2>2. DOMAIN v = StreamFields /\ v.content = s.content \o scan.text
        BY <1>0 DEF StreamFields
    <2> QED
        BY <2>1, <2>2
<1> HIDE DEF u, v, again
<1>8. DOMAIN vv = StreamFields /\ vv.content = Append(s.content, Closer)
    <2>1. v.content \o again.text = s.content
        BY <1>0, <1>6, <1>7
    <2>2. DOMAIN vv = StreamFields /\ vv.content = Append(v.content \o again.text, Closer)
        BY <1>7 DEF StreamFields
    <2> QED
        BY <2>1, <2>2
<1> HIDE DEF uu, vv
<1>9. /\ DOMAIN closed.stream = StreamFields
      /\ closed.stream.content = IF t.harmony_tool_open THEN Append(s.content, Closer) ELSE s.content
    <2>1. CASE ~t.harmony_tool_open
        <3>1. closed.stream = v
            BY <1>2, <1>5, <2>1, EffectFacts
        <3> QED
            BY <1>7, <2>1, <3>1
    <2>2. CASE t.harmony_tool_open
        <3>1. closed.stream = vv
            BY <1>2, <1>5, <2>2, EffectFacts
        <3> QED
            BY <1>8, <2>2, <3>1
    <2> QED
        BY <2>1, <2>2
<1>10. y.content = closed.stream.content /\ y.finish = reason
    BY <1>9 DEF StreamFields
<1> HIDE DEF x, y
<1>11. Flush(t, s).stream = y
    BY <1>1, EffectFacts
<1> QED
    BY <1>4, <1>9, <1>10, <1>11

\* The end of a stream moves nothing of the routing.
LEMMA FlushKeeps ==
    ASSUME NEW t, DOMAIN t = TrackerFields, NEW s
    PROVE  Unmoved(t, Flush(t, s).tracker)
<1> DEFINE rest == Finish(t.output, t.output_ids)
           scan == ScanFinish(request.stops, t.held, rest.text)
           u == [t EXCEPT !.output = rest.decoder, !.held = scan.held, !.pending_raw_lps = <<>>]
           v == [s EXCEPT !.content = @ \o scan.text, !.logprobs = @ \o drain_logprobs(t.pending_raw_lps)]
           closed == close_harmony_tool_call(u, v)
           e == Ended(closed.tracker, closed.stream, IF scan.stopped THEN "stop" ELSE "length")
<1>1. Flush(t, s).tracker = e.tracker
    BY DEF Flush
<1> HIDE DEF rest, scan, v
<1>2. Unmoved(t, u)
    BY DEF Unmoved, Carried, TrackerFields
<1> HIDE DEF u
<1>3. Unmoved(u, closed.tracker)
    <2>1. DOMAIN u = TrackerFields
        BY <1>2 DEF Unmoved, Carried
    <2> QED
        BY <2>1, CloseKeeps
<1> HIDE DEF closed
<1>4. Unmoved(closed.tracker, e.tracker)
    <2>1. DOMAIN closed.tracker = TrackerFields
        BY <1>3 DEF Unmoved, Carried
    <2> QED
        BY <2>1, EndedKeeps
<1> HIDE DEF e
<1> QED
    BY <1>1, <1>2, <1>3, <1>4 DEF Unmoved, Carried

-----------------------------------------------------------------------------
(* Every call is one block.                                                *)

\* The content is the framed history, closed if the stream ends in a call.
Called(h, t, s) ==
    IF s.finish = "none"
    THEN s.content = Framed(h) /\ (t.harmony_tool_open <=> t.harmony_state.tool)
    ELSE s.content = IF t.harmony_state.tool THEN Append(Framed(h), Closer) ELSE Framed(h)

\* The invariant of the calls, with those of the channels and of the texts.
CInv ==
    /\ SInv /\ XInv
    /\ request.harmony /\ WellFormed(history) /\ Bare(request.stops, tracker.output_ids)
       => Called(history, tracker, stream)

\* One token more.
LEMMA CalledToken ==
    ASSUME NEW h \in Seq(Token), NEW tok \in Token, WellFormed(Append(h, tok)), request.harmony,
           NEW t, DOMAIN t = TrackerFields, HarmonyAgrees(h, t),
           NEW s, s.finish = "none", Called(h, t, s),
           NEW r, r = harmony_route(t, tok), Rerouted(t, r.tracker),
           NEW u, NEW v, Carried(r.tracker, u), Delivers(r.route, r.tracker, tok, s, u, v)
    PROVE  Called(Append(h, tok), u, v)
<1> DEFINE g == Append(h, tok)
           x == FramedAt(g, Len(h) + 1)
           was == t.harmony_state.tool
           is == r.tracker.harmony_state.tool
<1>1. s.content = Framed(h) /\ (t.harmony_tool_open <=> was)
    BY DEF Called
<1>2. r.tracker.harmony_tool_open = t.harmony_tool_open /\ u.harmony_state = r.tracker.harmony_state
    BY DEF Rerouted, Carried
<1>3. /\ x = IF r.route = "ToolCall" THEN <<Opener>>
             ELSE IF r.route = "ToolCallEnd" THEN <<Closer>>
             ELSE IF r.route = "Content" THEN Lossy(Bytes[tok]) ELSE <<>>
      /\ r.route = "ToolCall" => is
      /\ r.route = "ToolCallEnd" => was /\ ~is
      /\ r.route \notin {"ToolCall", "ToolCallEnd"} => (is <=> was)
    BY FrameAdds
<1>4. Framed(h) \in Seq(Coded) /\ Framed(g) = Framed(h) \o x
    BY FramedAppend
<1> HIDE DEF g, x
<1>5. /\ Framed(h) \o <<Opener>> = Append(Framed(h), Opener)
      /\ Framed(h) \o <<Closer>> = Append(Framed(h), Closer)
      /\ Framed(h) \o <<>> = Framed(h)
    <2>1. Opener \in Coded /\ Closer \in Coded
        BY CodedFacts
    <2> DEFINE f == Framed(h)
    <2> HIDE DEF f
    <2>2. f \in Seq(Coded) => \A c \in Coded : f \o <<c>> = Append(f, c)
        OBVIOUS
    <2>3. f \in Seq(Coded) => f \o <<>> = f
        OBVIOUS
    <2> QED
        BY <1>4, <2>1, <2>2, <2>3 DEF f
<1>6. /\ v.finish = "none"
      /\ v.content = IF r.route = "ToolCall" THEN Append(s.content, Opener)
                     ELSE IF r.route = "ToolCallEnd" /\ t.harmony_tool_open THEN Append(s.content, Closer)
                     ELSE IF r.route = "Content" THEN s.content \o Lossy(Bytes[tok]) ELSE s.content
      /\ u.harmony_tool_open <=> \/ r.route = "ToolCall"
                                 \/ r.route # "ToolCallEnd" /\ t.harmony_tool_open
    BY <1>2 DEF Delivers
<1> HIDE DEF was, is
<1>7. v.content = Framed(g)
    BY <1>1, <1>3, <1>4, <1>5, <1>6
<1>8. u.harmony_tool_open <=> is
    BY <1>1, <1>3, <1>6
<1>9. u.harmony_state.tool = is
    BY <1>2 DEF is
<1> QED
    BY <1>6, <1>7, <1>8, <1>9 DEF Called, g

\* It is read of a request that does not change.
LEMMA CalledNext ==
    ASSUME request' = request,
           WellFormed(history') /\ request.harmony /\ Bare(request.stops, tracker'.output_ids)
           => Called(history', tracker', stream')
    PROVE  (request.harmony /\ WellFormed(history) /\ Bare(request.stops, tracker.output_ids)
           => Called(history, tracker, stream))'
    BY DEF Called, Framed, FramedAt, Place, HarmonyPlace, ThinkPlace, Thinking, InName, WellFormed, Bare, AllWhole,
           EndsWhole

\* A new request has called nothing.
LEMMA CInvInit == Init => CInv
<1> SUFFICES ASSUME Init PROVE CInv
    OBVIOUS
<1>1. history = <<>> /\ stream.content = <<>> /\ stream.finish = "none"
      /\ tracker.harmony_tool_open = FALSE /\ tracker.harmony_state = Markers
    BY DEF Init, NewTracker
<1>2. Called(history, tracker, stream)
    BY <1>1, FramedEmpty, StateTools DEF Called
<1> QED
    BY <1>2, SInvInit, XInvInit DEF CInv

\* Every step keeps the calls whole.
LEMMA CInvNext == CInv /\ [Next]_vars => CInv'
<1> SUFFICES ASSUME CInv, [Next]_vars PROVE CInv'
    OBVIOUS
<1>1. /\ SInv /\ XInv /\ request \in Sessions /\ history \in Seq(Token)
      /\ Parts(request.stops, tracker, stream) /\ Stops(request.stops)
      /\ DOMAIN tracker = TrackerFields
      /\ tracker.output_ids \in Seq(Token)
    BY StopsFacts DEF CInv, SInv, XInv, IInv, Logged
<1>2. SInv' /\ XInv'
    BY <1>1, SInvNext, XInvNext
<1>3. ASSUME request' = request,
             WellFormed(history') /\ request.harmony /\ Bare(request.stops, tracker'.output_ids)
             => Called(history', tracker', stream')
      PROVE  CInv'
    BY <1>2, <1>3, CalledNext DEF CInv
<1>4. ASSUME NEW tok \in request.vocabulary, TokenOut(tok) PROVE CInv'
    <2>1. tok \in Token /\ request' = request /\ stream.finish = "none" /\ history' = Append(history, tok)
        BY <1>1, <1>4, TrackerAssumption DEF TokenOut
    <2> DEFINE r == Route(tok)
    <2>2. Deliver(r.route, r.tracker, tok)
        BY <1>4 DEF TokenOut
    <2>3. r = IF request.harmony THEN harmony_route(tracker, tok) ELSE think_route(tracker, tok)
        BY DEF Route
    <2> HIDE DEF r
    <2>4. Rerouted(tracker, r.tracker) /\ r.route \in Routes
        BY <1>1, <2>3, HarmonyFacts, ThinkFacts
    <2>5. Parts(request.stops, r.tracker, stream)
        BY <1>1, <2>1, <2>4 DEF Parts, Rerouted, Alike
    <2>6. Delivered(r.route, r.tracker, tok, tracker')
        <3>1. DOMAIN r.tracker = TrackerFields
            BY <2>4 DEF Rerouted, Alike
        <3> QED
            BY <2>2, <2>4, <3>1, DeliverFacts
    <2>7. ASSUME WellFormed(history'), request.harmony, Bare(request.stops, tracker'.output_ids)
          PROVE  Called(history', tracker', stream')
        <3>1. WellFormed(Append(history, tok))
            BY <2>1, <2>7
        <3>2. WellFormed(history)
            BY <1>1, <2>1, <3>1, WellBefore
        <3>3. HarmonyAgrees(history, tracker)
            BY <1>1, <2>7, <3>2 DEF SInv, Follows
        <3>4. Bare(request.stops, tracker.output_ids)
            <4>1. tracker'.output_ids = Append(tracker.output_ids, tok) \/ tracker'.output_ids = tracker.output_ids
                BY <2>4, <2>6 DEF Delivered, Rerouted, Alike
            <4> QED
                BY <1>1, <2>1, <2>7, <4>1, BareBefore
        <3>5. Called(history, tracker, stream)
            BY <2>7, <3>2, <3>4 DEF CInv
        <3>6. Delivers(r.route, r.tracker, tok, stream, tracker', stream')
            BY <1>1, <2>1, <2>2, <2>4, <2>5, <2>7, TokenDelivers
        <3>7. r = harmony_route(tracker, tok) /\ Carried(r.tracker, tracker')
            BY <2>3, <2>6, <2>7 DEF Delivered
        <3>8. Called(Append(history, tok), tracker', stream')
            BY <1>1, <2>1, <2>4, <2>7, <3>1, <3>3, <3>5, <3>6, <3>7, CalledToken
        <3> QED
            BY <2>1, <3>8
    <2> QED
        BY <1>3, <2>1, <2>7
<1>5. CASE Completed
    <2>1. request' = request /\ history' = history /\ stream.finish = "none"
          /\ tracker' = Flush(tracker, stream).tracker /\ stream' = Flush(tracker, stream).stream
        BY <1>5 DEF Completed, Becomes
    <2>2. tracker'.output_ids = tracker.output_ids /\ tracker'.harmony_state = tracker.harmony_state
        BY <1>1, <2>1, FlushKeeps DEF Unmoved, Carried
    <2>3. ASSUME WellFormed(history'), request.harmony, Bare(request.stops, tracker'.output_ids)
          PROVE  Called(history', tracker', stream')
        <3>1. Called(history, tracker, stream) /\ Bare(request.stops, tracker.output_ids)
            BY <2>1, <2>2, <2>3 DEF CInv
        <3>2. stream.content = Framed(history) /\ (tracker.harmony_tool_open <=> tracker.harmony_state.tool)
            BY <2>1, <3>1 DEF Called
        <3>3. /\ stream'.finish # "none"
              /\ stream'.content = IF tracker.harmony_tool_open THEN Append(stream.content, Closer) ELSE stream.content
            BY <1>1, <2>1, <3>1, FlushDelivers
        <3>4. stream'.content = IF tracker'.harmony_state.tool THEN Append(Framed(history'), Closer)
                                ELSE Framed(history')
            BY <2>1, <2>2, <3>2, <3>3
        <3> QED
            BY <3>3, <3>4 DEF Called
    <2> QED
        BY <1>3, <2>1, <2>3
<1>6. CASE UNCHANGED vars
    <2>1. request' = request /\ history' = history /\ tracker' = tracker /\ stream' = stream
        BY <1>6 DEF vars
    <2>2. WellFormed(history') /\ request.harmony /\ Bare(request.stops, tracker'.output_ids)
          => Called(history', tracker', stream')
        BY <2>1 DEF CInv
    <2> QED
        BY <1>3, <2>1, <2>2
<1> QED
    BY <1>4, <1>5, <1>6 DEF Next

\* For every vocabulary and every order of tokens that follows the protocol, a
\* harmony request whose text is cut nowhere and searched for nothing sends its
\* content with every function call as one block, the opener before the first
\* of its body, the closer behind the last, where the header and the marker of
\* the whole history put them, and a call the stream ends in is closed, once
\* (harmony_route and close_harmony_tool_call).
THEOREM CallsAlwaysWhole == Spec => []CallsWhole
<1>1. CInv => CallsWhole
    BY DEF CInv, Called, CallsWhole, Whole, Bare, AllWhole
<1>2. Spec => []CInv
    BY CInvInit, CInvNext, PTL DEF Spec
<1> QED
    BY <1>1, <1>2, PTL

=============================================================================
