------------------------------- MODULE Filters -------------------------------
(***************************************************************************)
(* Filtering a sequence by a set: what the code's filters, partitions and  *)
(* removals from the middle of a queue have in common.                     *)
(***************************************************************************)
EXTENDS Integers, Sequences

\* The members of s that are in S, in their order.
Pick(s, S) ==
    LET pick[n \in 0 .. Len(s)] ==
            IF n = 0 THEN <<>>
            ELSE IF s[n] \in S THEN Append(pick[n - 1], s[n]) ELSE pick[n - 1]
    IN pick[Len(s)]

=============================================================================
