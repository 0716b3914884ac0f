---------------------------- MODULE JsonMachine ----------------------------
(***************************************************************************)
(* constrain.rs: the incremental JSON syntax automaton.  A byte is a       *)
(* one-character string, "^" standing for the control characters.  A       *)
(* machine is [stack, state, ws_run]: the open containers, where in the    *)
(* grammar the text stands, and the length of the current run of blanks.   *)
(* A byte that is illegal leads to the state Illegal.                      *)
(***************************************************************************)
EXTENDS Integers, Sequences, SequencesExt

CONSTANTS MAX_DEPTH,           \* containers open at once
          MAX_WHITESPACE_RUN   \* blanks in a row

ASSUME MachineAssumption == MAX_DEPTH \in Nat \ {0} /\ MAX_WHITESPACE_RUN \in Nat \ {0}

Quote == "\""
Backslash == "\\"
Blank == {" "}
Zero == {"0"}
NonZero == {"1", "2"}
Digits == Zero \cup NonZero
HexDigits == Digits \cup {"a", "b", "e", "f"}
Escapable == {Quote, Backslash, "/", "b", "f", "n", "r", "t"}
Control == {"^"}
LITERALS == {<<"t", "r", "u", "e">>, <<"f", "a", "l", "s", "e">>, <<"n", "u", "l", "l">>}

Str(esc, uni, key) == <<"Str", esc, uni, key>>
Num(n) == <<"Num", n>>
Lit(word, pos) == <<"Lit", word, pos>>
Illegal == <<"Illegal">>

In(m, name) == m.state[1] = name
To(m, state) == [m EXCEPT !.state = state]

NewMachine == [stack |-> <<>>, state |-> <<"Value">>, ws_run |-> 0]

\* The number states in which the number may end.  The seeded fault forgets
\* that a lone zero is a number.
CompleteButZero == {"Int", "Frac", "ExpDigits"}
complete == {"Zero", "Int", "Frac", "ExpDigits"}

accepting(m) ==
    In(m, "Done") \/ (m.stack = <<>> /\ In(m, "Num") /\ m.state[2] \in complete)

-----------------------------------------------------------------------------

push(m, container, state) ==
    IF Len(m.stack) >= MAX_DEPTH THEN To(m, Illegal)
    ELSE [m EXCEPT !.stack = Append(@, container), !.state = state]

after_value(stack) ==
    CASE stack = <<>> -> <<"Done">>
      [] stack # <<>> /\ Last(stack) = "array" -> <<"ArrNext">>
      [] OTHER -> <<"ObjNext">>

pop(m) ==
    IF m.stack = <<>> THEN To(m, Illegal)
    ELSE [m EXCEPT !.stack = Front(@), !.state = after_value(Front(m.stack))]

start_value(m, b, mode) ==
    CASE b \in Blank -> m
      [] mode = "Object" /\ m.stack = <<>> /\ b # "{" -> To(m, Illegal)
      [] b = "{" -> push(m, "object", <<"ObjFirst">>)
      [] b = "[" -> push(m, "array", <<"ArrFirst">>)
      [] b = Quote -> To(m, Str(FALSE, 0, FALSE))
      [] b = "-" -> To(m, Num("Minus"))
      [] b \in Zero -> To(m, Num("Zero"))
      [] b \in NonZero -> To(m, Num("Int"))
      [] b \in {Head(word) : word \in LITERALS} ->
            To(m, Lit(CHOOSE word \in LITERALS : Head(word) = b, 1))
      [] OTHER -> To(m, Illegal)

StepString(m, b) ==
    LET esc == m.state[2]
        uni == m.state[3]
        key == m.state[4]
    IN  To(m, CASE uni > 0 -> IF b \in HexDigits THEN Str(FALSE, uni - 1, key) ELSE Illegal
                [] esc -> IF b \in Escapable THEN Str(FALSE, 0, key)
                          ELSE IF b = "u" THEN Str(FALSE, 4, key) ELSE Illegal
                [] b = Quote -> IF key THEN <<"Colon">> ELSE after_value(m.stack)
                [] b = Backslash -> Str(TRUE, 0, key)
                [] b \in Control -> Illegal
                [] OTHER -> m.state)

NumNext(n, b) ==
    CASE n = "Minus" /\ b \in Zero -> "Zero"
      [] n \in {"Minus", "Int"} /\ b \in Digits -> "Int"
      [] n \in {"Zero", "Int"} /\ b = "." -> "Dot"
      [] n \in {"Zero", "Int", "Frac"} /\ b \in {"e", "E"} -> "Exp"
      [] n \in {"Dot", "Frac"} /\ b \in Digits -> "Frac"
      [] n = "Exp" /\ b \in {"+", "-"} -> "ExpSign"
      [] n \in {"Exp", "ExpSign", "ExpDigits"} /\ b \in Digits -> "ExpDigits"
      [] OTHER -> "None"

\* The states outside strings, numbers and literals.
StepStructure(m, b, mode) ==
    CASE In(m, "Value") -> start_value(m, b, mode)
      [] In(m, "ArrFirst") ->
            IF b = "]" THEN pop(m) ELSE start_value(To(m, <<"Value">>), b, mode)
      [] b \in Blank -> m
      [] In(m, "ObjFirst") /\ b = "}" -> pop(m)
      [] (In(m, "ObjFirst") \/ In(m, "ObjComma")) /\ b = Quote -> To(m, Str(FALSE, 0, TRUE))
      [] In(m, "Colon") /\ b = ":" -> To(m, <<"Value">>)
      [] In(m, "ObjNext") /\ b = "," -> To(m, <<"ObjComma">>)
      [] In(m, "ObjNext") /\ b = "}" -> pop(m)
      [] In(m, "ArrNext") /\ b = "," -> To(m, <<"Value">>)
      [] In(m, "ArrNext") /\ b = "]" -> pop(m)
      [] OTHER -> To(m, Illegal)

\* A blank too many is illegal; a blank that ends a number is counted twice,
\* by the step that ends it and by the one it is taken in.
Counted(m, b, next) ==
    IF b \in Blank /\ m.ws_run >= MAX_WHITESPACE_RUN THEN To(m, Illegal)
    ELSE [next EXCEPT !.ws_run = IF b \in Blank THEN @ + 1 ELSE 0]

StepNumber(m, b, mode) ==
    LET n == NumNext(m.state[2], b)
        ended == To(m, after_value(m.stack))
    IN  IF n # "None" THEN To(m, Num(n))
        ELSE IF m.state[2] \in complete THEN Counted(ended, b, StepStructure(ended, b, mode))
        ELSE To(m, Illegal)

StepLiteral(m, b) ==
    LET word == m.state[2]
        pos == m.state[3]
    IN  To(m, IF b # word[pos + 1] THEN Illegal
              ELSE IF pos + 1 = Len(word) THEN after_value(m.stack)
              ELSE Lit(word, pos + 1))

step_inner(m, b, mode) ==
    CASE In(m, "Str") -> StepString(m, b)
      [] In(m, "Num") -> StepNumber(m, b, mode)
      [] In(m, "Lit") -> StepLiteral(m, b)
      [] OTHER -> StepStructure(m, b, mode)

Step(m, b, mode) == Counted(m, b, step_inner(m, b, mode))

-----------------------------------------------------------------------------

\* The structural events of the byte b that took the machine from m to next.
If(condition, event) == IF condition THEN {event} ELSE {}

OtherEvents(m, b, next) ==
    If((In(m, "Value") \/ In(m, "ArrFirst")) /\ b \notin Blank \cup {"]"}, "ValueStart")
    \cup If((In(m, "ObjFirst") \/ In(m, "ObjComma")) /\ b = Quote, "KeyStart")
    \cup If(m.state = Str(FALSE, 0, TRUE) /\ b = Quote, "KeyEnd")
    \cup If(\/ m.state = Str(FALSE, 0, FALSE) /\ b = Quote
            \/ In(m, "Lit") /\ ~In(next, "Lit")
            \/ In(m, "Num") /\ ~In(next, "Num"), "ScalarEnd")
    \cup If(/\ b \in {"}", "]"}
            /\ \E at \in {"ObjFirst", "ObjNext", "ArrFirst", "ArrNext", "Num"} : In(m, at), "Close")

\* A comma of an object is told by the state it leads to.  The seeded fault
\* goes by the state before it, in which a number has not ended yet.
EventsByPrior(m, b, next) ==
    OtherEvents(m, b, next) \cup If(In(m, "ObjNext") /\ b = ",", "ObjComma")
Events(m, b, next) ==
    OtherEvents(m, b, next) \cup If(In(next, "ObjComma") /\ b = ",", "ObjComma")

=============================================================================
