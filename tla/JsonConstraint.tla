--------------------------- MODULE JsonConstraint ---------------------------
(***************************************************************************)
(* constrain.rs: constrained decoding.  Beside the syntax automaton a      *)
(* guide walks a compiled schema; a token may be sampled if both take all  *)
(* of its bytes, and a stop token once the automaton accepts.              *)
(*                                                                         *)
(* A schema node is Any, an object, an array, a string, a number, a        *)
(* boolean, a null or an enumeration of scalars.  A guide is [levels,      *)
(* overflow, val, ok]: the guided containers, how many unguided ones are   *)
(* open inside them, the constraint on the scalar or key being written,    *)
(* and whether the bytes so far were taken.                                *)
(***************************************************************************)
EXTENDS JsonMachine

CONSTANTS GUIDED_DEPTH,   \* containers the guide follows
          Vocabulary,     \* the byte sequences that tokens spell
          Requests        \* of each request [mode, arena, offered, bound]: the top-level
                          \* shape, the compiled schema, the tokens its model comes up
                          \* with, and a bound on their number

ASSUME ConstraintAssumption ==
    /\ GUIDED_DEPTH \in Nat \ {0}
    /\ \A r \in DOMAIN Requests :
          Requests[r].offered \subseteq Vocabulary /\ Requests[r].bound \in Nat

VARIABLES request,      \* which request is generated
          constraint,   \* its JsonConstraint: [mode, arena, machine, guide]
          text,         \* the bytes generated
          tokens        \* how many tokens they came in, -1 once a stop token was sampled

vars == <<request, constraint, text, tokens>>

-----------------------------------------------------------------------------

ANY == 1
arena == constraint.arena
root == Len(arena)

NO_PROP == 0
Free == <<"Free">>
EnumScan(node, alive, pos) == <<"EnumScan", node, alive, pos>>
KeyScan(alive, pos, any) == <<"KeyScan", alive, pos, any>>
IntNumber == <<"IntNumber">>

NewGuide == [levels |-> <<>>, overflow |-> 0, val |-> Free, ok |-> TRUE]

Guided(g) == g.overflow = 0 /\ g.levels # <<>>
LevelNode(g) == arena[Last(g.levels).node]
InObject(g) == Guided(g) /\ LevelNode(g).kind = "Object"
Top(g) == Len(g.levels)

Rejected(g) == [g EXCEPT !.ok = FALSE]

\* The node that governs the next value.
expected(g) ==
    CASE g.overflow > 0 -> ANY
      [] g.levels = <<>> -> root
      [] LevelNode(g).kind = "Array" -> LevelNode(g).items
      [] LevelNode(g).kind = "Object" /\ Last(g.levels).cur_prop # NO_PROP ->
            LevelNode(g).props[Last(g.levels).cur_prop].node
      [] OTHER -> ANY

TypeAllows(node, b) ==
    CASE node.kind = "Object"  -> b = "{"
      [] node.kind = "Array"   -> b = "["
      [] node.kind = "Str"     -> b = Quote
      [] node.kind \in {"Number", "Integer"} -> b \in {"-"} \cup Digits
      [] node.kind = "Boolean" -> b \in {"t", "f"}
      [] node.kind = "Null"    -> b = "n"
      [] node.kind = "Enum"    -> \E i \in DOMAIN node.literals : Head(node.literals[i]) = b
      [] OTHER -> TRUE

OpenLevel(g, id) ==
    IF g.overflow > 0 \/ Top(g) >= GUIDED_DEPTH THEN [g EXCEPT !.overflow = @ + 1]
    ELSE [g EXCEPT !.levels = Append(@,
             [node |-> IF arena[id].kind \in {"Object", "Array"} THEN id ELSE ANY,
              emitted |-> {}, cur_prop |-> NO_PROP])]

enter_value(g, b) ==
    LET id == expected(g)
        node == arena[id]
        val == CASE node.kind = "Integer" -> IntNumber
                 [] node.kind = "Enum" ->
                      EnumScan(id, {i \in DOMAIN node.literals : Head(node.literals[i]) = b}, 1)
                 [] OTHER -> Free
        entered == [g EXCEPT !.val = val]
    IN  IF ~TypeAllows(node, b) THEN Rejected(g)
        ELSE IF b \in {"{", "["} THEN OpenLevel(entered, id) ELSE entered

Unwritten(g) == DOMAIN LevelNode(g).props \ Last(g.levels).emitted

\* Whether the object can take another key.
has_available_key(g) ==
    InObject(g) => LevelNode(g).additional \/ Unwritten(g) # {}

start_key(g) ==
    [g EXCEPT !.val = IF InObject(g) THEN KeyScan(Unwritten(g), 0, LevelNode(g).additional) ELSE Free]

\* A byte inside a scalar or key.
Content(g, b, ev) ==
    LET kind == g.val[1]
        literals == arena[g.val[2]].literals
        values == {i \in g.val[3] : g.val[4] < Len(literals[i]) /\ literals[i][g.val[4] + 1] = b}
        Name(i) == LevelNode(g).props[i].name
        keys == {i \in g.val[2] : g.val[3] < Len(Name(i)) /\ Name(i)[g.val[3] + 1] = b}
    IN  CASE kind = "EnumScan" /\ "ScalarEnd" \notin ev ->
                [g EXCEPT !.val = EnumScan(@[2], values, @[4] + 1), !.ok = @ /\ values # {}]
          [] kind = "KeyScan" /\ "KeyEnd" \notin ev ->
                [g EXCEPT !.val = KeyScan(keys, @[3] + 1, @[4]), !.ok = @ /\ (keys # {} \/ g.val[4])]
          [] kind = "IntNumber" -> [g EXCEPT !.ok = @ /\ b \notin {".", "e", "E"}]
          [] OTHER -> g

\* Which property a key that ends here names.
Exact(g) == {i \in g.val[2] : Len(LevelNode(g).props[i].name) = g.val[3]}

finish_key(g) ==
    IF g.val[1] # "KeyScan" THEN [g EXCEPT !.val = Free]
    ELSE LET prop == IF Exact(g) = {} THEN NO_PROP ELSE Min(Exact(g))
         IN  [g EXCEPT !.val = Free, !.ok = @ /\ (prop # NO_PROP \/ g.val[4]),
                       !.levels[Top(g)].cur_prop = prop,
                       !.levels[Top(g)].emitted = @ \cup ({prop} \ {NO_PROP})]

Settled(g) == IF Guided(g) THEN [g EXCEPT !.levels[Top(g)].cur_prop = NO_PROP] ELSE g

\* A literal and a string end with their last byte, a number before it.
finish_scalar(g, byte_included, b) ==
    LET written == IF g.val[1] # "EnumScan" THEN TRUE
                   ELSE \E i \in g.val[3] :
                          LET lit == arena[g.val[2]].literals[i]
                          IN  IF byte_included THEN Len(lit) = g.val[4] + 1 /\ Last(lit) = b
                              ELSE Len(lit) = g.val[4]
    IN  [Settled(g) EXCEPT !.val = Free, !.ok = @ /\ written]

\* Whether an object that closes has all it must have.  The seeded fault is
\* content with one of them.
OneRequiredWritten(g) ==
    LevelNode(g).kind = "Object" /\ LevelNode(g).required # {} =>
        LevelNode(g).required \cap Last(g.levels).emitted # {}
RequiredWritten(g) ==
    LevelNode(g).kind = "Object" => LevelNode(g).required \subseteq Last(g.levels).emitted

close_container(g) ==
    CASE g.overflow > 0 -> [g EXCEPT !.overflow = @ - 1]
      [] g.levels = <<>> -> g
      [] OTHER -> Settled([g EXCEPT !.levels = Front(@), !.val = Free, !.ok = @ /\ RequiredWritten(g)])

\* One byte, step by step; nothing follows a rejection.
on_byte(guide, b, ev, was_num) ==
    LET Apply(g, step) ==
            IF ~g.ok THEN g
            ELSE CASE step = "number" /\ "ScalarEnd" \in ev /\ was_num -> finish_scalar(g, FALSE, b)
              [] step = "room" /\ {"ObjComma", "KeyStart"} \cap ev # {} ->
                    [g EXCEPT !.ok = has_available_key(g)]
              [] step = "read" ->
                    IF "ValueStart" \in ev THEN enter_value(g, b)
                    ELSE IF "KeyStart" \in ev THEN start_key(g)
                    ELSE Content(g, b, ev)
              [] step = "scalar" /\ "ScalarEnd" \in ev /\ ~was_num -> finish_scalar(g, TRUE, b)
              [] step = "key" /\ "KeyEnd" \in ev -> finish_key(g)
              [] step = "close" /\ "Close" \in ev -> close_container(g)
              [] OTHER -> g
    IN  FoldLeft(Apply, guide, <<"number", "room", "read", "scalar", "key", "close">>)

-----------------------------------------------------------------------------

Taken(c) == c.machine.state # Illegal /\ c.guide.ok

walk(c, bytes) ==
    LET Byte(w, b) ==
            LET next == Step(w.machine, b, w.mode)
            IN  IF ~Taken(w) THEN w
                ELSE IF next.state = Illegal THEN [w EXCEPT !.machine = next]
                ELSE [w EXCEPT !.machine = next,
                               !.guide = on_byte(w.guide, b, Events(w.machine, b, next), In(w.machine, "Num"))]
    IN  FoldLeft(Byte, c, bytes)

allowed(c, token) == token # <<>> /\ Taken(walk(c, token))

Init ==
    /\ request \in DOMAIN Requests
    /\ constraint = [mode |-> Requests[request].mode, arena |-> Requests[request].arena,
                     machine |-> NewMachine, guide |-> NewGuide]
    /\ text = <<>>
    /\ tokens = 0

\* A token the mask lets through is sampled, and the constraint advances.
Sample(token) ==
    /\ tokens \in 0 .. Requests[request].bound - 1
    /\ allowed(constraint, token)
    /\ constraint' = walk(constraint, token)
    /\ text' = text \o token
    /\ tokens' = tokens + 1
    /\ UNCHANGED request

\* A stop token ends the request and leaves the constraint as it is.
Stop ==
    /\ tokens >= 0
    /\ accepting(constraint.machine)
    /\ tokens' = -1
    /\ UNCHANGED <<request, constraint, text>>

Next == (\E token \in Requests[request].offered : Sample(token)) \/ Stop

Spec == Init /\ [][Next]_vars

=============================================================================
