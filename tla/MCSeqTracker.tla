---------------------------- MODULE MCSeqTracker ----------------------------
(* Small instances of SeqTracker: sessions that stress the decoder, the     *)
(* stop scanner and the two routers in turn.                                *)
EXTENDS SeqTracker

Vocabulary ==
    [a |-> <<"a">>, b |-> <<"b">>, sa |-> <<" ", "a">>, l |-> <<"L">>, c |-> <<"C">>,
     nl |-> <<"n">>,
     channel |-> <<>>, message |-> <<>>, end |-> <<>>, start |-> <<>>,
     final |-> <<"f">>, recipient |-> <<"t">>,
     think |-> <<>>, named_think |-> <<>>, think_end |-> <<>>]

MCToken == DOMAIN Vocabulary
MCBytes == Vocabulary
MCKind == [t \in MCToken |-> CASE t = "nl" -> "newline"
                               [] t \in {"a", "b", "sa", "l", "c"} -> "plain"
                               [] OTHER -> t]

Session(harmony, vocabulary, stops, bound) ==
    [harmony : {harmony}, vocabulary : {vocabulary}, stops : stops, bound : {bound},
     wants_reasoning : BOOLEAN, thinking_open : {FALSE}]

AB == <<"a", "b">>
AABAndBW == {<<"a", "a", "b">>, <<"b", "W">>}

\* Text alone: characters in pieces, stop strings in pieces.
PiecesSessions == {s \in Session(FALSE, {"a", "l", "c"}, {{}}, 8) : s.wants_reasoning}
TextSessions ==
    PiecesSessions \cup
    {s \in Session(FALSE, {"a", "b", "l", "c"}, {{AB}, AABAndBW}, 6)
           \cup Session(FALSE, {"a", "sa", "c"}, {{}, {<<" ", "a">>}}, 7) : s.wants_reasoning}

ThinkSessions ==
    {[s EXCEPT !.thinking_open = open] :
        s \in Session(FALSE, {"think", "named_think", "think_end", "nl", "a"}, {{}, {<<"a", "a">>}}, 5),
        open \in BOOLEAN}

HarmonyVocabulary == {"channel", "message", "end", "start", "final", "a"}

HarmonySessions ==
    Session(TRUE, HarmonyVocabulary, {{<<"a", "a">>}}, 5)
    \cup Session(TRUE, HarmonyVocabulary \cup {"recipient"}, {{}}, 6)

MCSessions == TextSessions \cup ThinkSessions \cup HarmonySessions

=============================================================================
