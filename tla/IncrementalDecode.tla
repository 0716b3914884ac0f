-------------------------- MODULE IncrementalDecode --------------------------
(***************************************************************************)
(* common/incremental_decode.rs: text out of a growing sequence of tokens. *)
(* A token spells a sequence of bytes; a byte is an ASCII character, the   *)
(* lead "L" of a three-byte character or a continuation "C".  A text is a  *)
(* sequence of characters, among them Wide, what L C C spells, and U+FFFD. *)
(* A decoder is [decoded_len, stable_end, stable_text].                    *)
(***************************************************************************)
EXTENDS Integers, Sequences, SequencesExt

CONSTANTS Token,                   \* the vocabulary
          Bytes,                   \* what each token spells, nothing if it is special
          DECODE_STABLE_LOOKBACK,  \* trailing tokens decoded anew every time
          SPLIT_CHAR_BACKOFF,      \* how far the boundary gives way to a character
          StripsLeadingSpace       \* whether the tokenizer's decoder is a Strip one

ASSUME DecodeAssumption ==
    /\ DOMAIN Bytes = Token /\ \A t \in Token : Bytes[t] \in Seq(STRING)
    /\ DECODE_STABLE_LOOKBACK \in Nat /\ SPLIT_CHAR_BACKOFF \in Nat
    /\ StripsLeadingSpace \in BOOLEAN

Wide == "W"
Replacement == "U+FFFD"

\* What a text is made of.
Character == {Wide, Replacement} \cup UNION {Range(Bytes[t]) : t \in Token}

-----------------------------------------------------------------------------
(* The tokenizer's decode: bytes to text, whatever does not form a         *)
(* character replaced, one U+FFFD for each maximal piece of one.           *)

\* A decode so far: the text formed, and how many bytes of a character wait.
Cut(s) == IF s.pending > 0 THEN Append(s.text, Replacement) ELSE s.text
Take(s, b) ==
    IF b = "L" THEN [text |-> Cut(s), pending |-> 1]
    ELSE IF b # "C" THEN [text |-> Append(Cut(s), b), pending |-> 0]
    ELSE IF s.pending = 0 THEN [text |-> Append(s.text, Replacement), pending |-> 0]
    ELSE IF s.pending = 1 THEN [text |-> s.text, pending |-> 2]
    ELSE [text |-> Append(s.text, Wide), pending |-> 0]
Run(bytes) ==
    LET run[n \in 0 .. Len(bytes)] ==
            IF n = 0 THEN [text |-> <<>>, pending |-> 0] ELSE Take(run[n - 1], bytes[n])
    IN  run[Len(bytes)]
Lossy(bytes) == Cut(Run(bytes))

Spelled(ids) == FlattenSeq([i \in DOMAIN ids |-> Bytes[ids[i]]])

Strip(text) ==
    IF StripsLeadingSpace /\ text # <<>> /\ text[1] = " " THEN Tail(text) ELSE text

Decode(ids) == Strip(Lossy(Spelled(ids)))

-----------------------------------------------------------------------------

\* Lengths and positions in a text are counted in UTF-8 bytes.
ByteLen(text) == Len(text) + 2 * Cardinality({i \in DOMAIN text : text[i] \in {Wide, Replacement}})

clamp_to_char_boundary(text, idx) == Max({k \in 0 .. Len(text) : ByteLen(SubSeq(text, 1, k)) <= idx})

After(text, idx) == SubSeq(text, clamp_to_char_boundary(text, idx) + 1, Len(text))

EndsBroken(text) == text # <<>> /\ Last(text) = Replacement

\* How much of a text does not end in U+FFFD.
TrimmedLen(text) == Max({k \in 0 .. Len(text) : k = 0 \/ text[k] # Replacement})

\* emit_suffix: what is handed out now, trailing U+FFFD held back.
Emitted(full, decoded_len) ==
    LET new == After(full, decoded_len) IN SubSeq(new, 1, TrimmedLen(new))

\* The neutral token's text is "a"; behind it nothing is stripped.
decode_with_neutral_prefix(ids) ==
    IF ids = <<>> THEN <<>> ELSE Tail(Strip(Lossy(<<"a">> \o Spelled(ids))))

Fragment(ids, from, to) ==
    IF from = 0 THEN Decode(SubSeq(ids, 1, to))
    ELSE decode_with_neutral_prefix(SubSeq(ids, from + 1, to))

-----------------------------------------------------------------------------

NewDecoder == [decoded_len |-> 0, stable_end |-> 0, stable_text |-> <<>>]

\* Where the frozen prefix may end now: the last clean end within the back-off,
\* the target itself once the back-off is used up, or where it is.
Boundary(d, ids) ==
    LET target == Len(ids) - DECODE_STABLE_LOOKBACK
        tried == {e \in d.stable_end + 1 .. target : e >= target - SPLIT_CHAR_BACKOFF}
        clean == {e \in tried : ~EndsBroken(Fragment(ids, d.stable_end, e))}
    IN  IF tried = {} THEN d.stable_end
        ELSE IF clean # {} THEN Max(clean)
        ELSE IF Min(tried) = target - SPLIT_CHAR_BACKOFF THEN target
        ELSE d.stable_end

advance_stable_window(d, ids) ==
    LET end == Boundary(d, ids)
    IN  [d EXCEPT !.stable_end = end,
                  !.stable_text = IF end = d.stable_end THEN @
                                  ELSE @ \o Fragment(ids, d.stable_end, end)]

\* push and finish: the text handed out, and the decoder afterwards.
Push(d, ids) ==
    LET w == advance_stable_window(d, ids)
        full == w.stable_text \o Fragment(ids, w.stable_end, Len(ids))
        start == clamp_to_char_boundary(full, d.decoded_len)
        emit == Emitted(full, d.decoded_len)
    IN  [text |-> emit,
         decoder |-> [w EXCEPT !.decoded_len = ByteLen(SubSeq(full, 1, start + Len(emit)))]]

Finish(d, ids) ==
    LET full == Decode(ids)
    IN  [text |-> IF ids = <<>> THEN <<>> ELSE After(full, d.decoded_len),
         decoder |-> IF ids = <<>> THEN d ELSE [d EXCEPT !.decoded_len = ByteLen(full)]]

=============================================================================
