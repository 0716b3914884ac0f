----------------------------- MODULE StopScanner -----------------------------
(***************************************************************************)
(* server/routes/stop_scan.rs: stop strings found in the decoded text,     *)
(* however the deltas fall.  `held` is the text not yet handed out.  A     *)
(* scan is [text, stopped, held]: what is handed out, whether the stream   *)
(* ends there, and what is still held.                                     *)
(***************************************************************************)
EXTENDS Integers, Sequences, SequencesExt

\* Positions, counted from 0, at which a stop string begins.
Matches(stops, text) ==
    {at \in 0 .. Len(text) : \E stop \in stops : IsPrefix(stop, SubSeq(text, at + 1, Len(text)))}

\* The longest suffix of the text that a stop string might begin with.  The
\* seeded fault looks at the last character alone.
KeptOne(stops, text) ==
    IF \E stop \in stops : Len(stop) > 1 /\ text # <<>> /\ Head(stop) = Last(text) THEN 1 ELSE 0
Kept(stops, text) ==
    Max({0} \cup {n \in 1 .. Len(text) :
           \E stop \in stops : n < Len(stop) /\ IsSuffix(SubSeq(stop, 1, n), text)})

ScanPush(stops, held, delta) ==
    LET text == held \o delta
        out == Len(text) - Kept(stops, text)
    IN  IF Matches(stops, text) # {}
        THEN [text |-> SubSeq(text, 1, Min(Matches(stops, text))), stopped |-> TRUE, held |-> <<>>]
        ELSE [text |-> SubSeq(text, 1, out), stopped |-> FALSE,
              held |-> SubSeq(text, out + 1, Len(text))]

ScanFinish(stops, held, delta) ==
    LET text == held \o delta
    IN  IF Matches(stops, text) # {}
        THEN [text |-> SubSeq(text, 1, Min(Matches(stops, text))), stopped |-> TRUE, held |-> <<>>]
        ELSE [text |-> text, stopped |-> FALSE, held |-> <<>>]

=============================================================================
