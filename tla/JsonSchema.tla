----------------------------- MODULE JsonSchema -----------------------------
(***************************************************************************)
(* What a request may ask for and what it means.  SchemaArena::compile of  *)
(* constrain.rs turns a JSON Schema into the arena the guide walks; the    *)
(* grammar of JSON and the meaning of a schema are defined here on their   *)
(* own, by how a text can be cut into parts, as the reference the          *)
(* automaton and the guide are held to.                                    *)
(*                                                                         *)
(* A schema is a record with the fields it has of: ref, enum (literals),   *)
(* anyOf, type, properties ([name, schema]), required (names),             *)
(* additional, items.                                                      *)
(***************************************************************************)
EXTENDS JsonConstraint

CONSTANTS Schemas,         \* of each request, its schema
          Defs,            \* the root's $defs
          COMPILE_DEPTH,   \* how deep references and properties are followed
          MAX_MEMBERS      \* properties or literals a node can hold

Has(schema, field) == field \in DOMAIN schema
Anything == [anyOf |-> TRUE]
IsObject(schema) ==
    IF Has(schema, "type") THEN schema.type = "object" ELSE Has(schema, "properties")
Properties(schema) == IF Has(schema, "properties") THEN schema.properties ELSE <<>>
Required(schema) == IF Has(schema, "required") THEN schema.required ELSE <<>>
Additional(schema) == Has(schema, "additional") => schema.additional
Items(schema) == IF Has(schema, "items") THEN schema.items ELSE Anything
PropertyNames(schema) == {Properties(schema)[i].name : i \in DOMAIN Properties(schema)}
Position(schema, name) == Min({i \in DOMAIN Properties(schema) : Properties(schema)[i].name = name})

-----------------------------------------------------------------------------

Pushed(nodes, node) == [nodes |-> Append(nodes, node), id |-> Len(nodes) + 1]
Unsupported(nodes) == [nodes |-> nodes, id |-> ANY]

Scalar(type) == [kind |-> CASE type = "string"  -> "Str"     [] type = "number"  -> "Number"
                            [] type = "integer" -> "Integer" [] type = "boolean" -> "Boolean"
                            [] type = "null"    -> "Null"    [] OTHER -> "Any"]

RECURSIVE compile_node(_, _, _)

CompileObject(nodes, schema, depth) ==
    LET Property(acc, p) ==
            LET c == compile_node(acc.nodes, p.schema, depth + 1)
            IN  [nodes |-> c.nodes, props |-> Append(acc.props, [name |-> p.name, node |-> c.id])]
        done == FoldLeft(Property, [nodes |-> nodes, props |-> <<>>], Properties(schema))
    IN  IF Len(Properties(schema)) > MAX_MEMBERS THEN Unsupported(nodes)
        ELSE IF ~(ToSet(Required(schema)) \subseteq PropertyNames(schema)) THEN Unsupported(done.nodes)
        ELSE Pushed(done.nodes,
                    [kind |-> "Object", props |-> done.props, additional |-> Additional(schema),
                     required |-> {Position(schema, name) : name \in ToSet(Required(schema))}])

compile_node(nodes, schema, depth) ==
    CASE depth > COMPILE_DEPTH -> Unsupported(nodes)
      [] depth <= COMPILE_DEPTH /\ Has(schema, "ref") ->
            IF schema.ref \in DOMAIN Defs THEN compile_node(nodes, Defs[schema.ref], depth + 1)
            ELSE Unsupported(nodes)
      [] depth <= COMPILE_DEPTH /\ Has(schema, "enum") ->
            IF Len(schema.enum) \notin 1 .. MAX_MEMBERS
               \/ \E i \in DOMAIN schema.enum : Head(schema.enum[i]) \in {"{", "["}
            THEN Unsupported(nodes)
            ELSE Pushed(nodes, [kind |-> "Enum", literals |-> schema.enum])
      [] OTHER ->
            IF Has(schema, "anyOf") THEN Unsupported(nodes)
            ELSE IF IsObject(schema) THEN CompileObject(nodes, schema, depth)
            ELSE IF ~Has(schema, "type") THEN Unsupported(nodes)
            ELSE IF schema.type = "array"
            THEN LET c == compile_node(nodes, Items(schema), depth + 1)
                 IN  Pushed(c.nodes, [kind |-> "Array", items |-> c.id])
            ELSE IF Scalar(schema.type).kind = "Any" THEN Unsupported(nodes)
            ELSE Pushed(nodes, Scalar(schema.type))

\* The root is the last node.
compile(schema) ==
    LET c == compile_node(<<[kind |-> "Any"]>>, schema, 0)
    IN  IF c.id = Len(c.nodes) THEN c.nodes ELSE Append(c.nodes, c.nodes[c.id])

\* chat_completions: what the handler asks of the constraint.
Mode(schema) ==
    IF (Has(schema, "type") /\ schema.type = "object") \/ Has(schema, "properties")
    THEN "Object" ELSE "Value"

-----------------------------------------------------------------------------
(* The reference.                                                          *)

Part(s, i, j) == SubSeq(s, i, j)
Blanks(s) == ToSet(s) \subseteq Blank
Trim(s) ==
    IF Blanks(s) THEN <<>>
    ELSE LET ink == {i \in DOMAIN s : s[i] \notin Blank} IN Part(s, Min(ink), Max(ink))

Unit(u) ==
    \/ Len(u) = 1 /\ u[1] \notin {Quote, Backslash} \cup Control
    \/ Len(u) = 2 /\ u[1] = Backslash /\ u[2] \in Escapable
    \/ Len(u) = 6 /\ u[1] = Backslash /\ u[2] = "u" /\ \A i \in 3 .. 6 : u[i] \in HexDigits

RECURSIVE Units(_)
Units(s) == s = <<>> \/ \E n \in {1, 2, 6} : n <= Len(s) /\ Unit(Part(s, 1, n)) /\ Units(Part(s, n + 1, Len(s)))

IsString(s) == Len(s) >= 2 /\ s[1] = Quote /\ Last(s) = Quote /\ Units(Part(s, 2, Len(s) - 1))

SomeDigits(s) == s # <<>> /\ ToSet(s) \subseteq Digits
Natural(s) == SomeDigits(s) /\ (Head(s) \in Zero => Len(s) = 1)
IsInteger(s) == Natural(s) \/ (s # <<>> /\ Head(s) = "-" /\ Natural(Tail(s)))
Fraction(s) == s = <<>> \/ (Head(s) = "." /\ SomeDigits(Tail(s)))
Exponent(s) ==
    \/ s = <<>>
    \/ /\ Head(s) \in {"e", "E"}
       /\ SomeDigits(Tail(s)) \/ (Len(s) > 1 /\ s[2] \in {"+", "-"} /\ SomeDigits(Part(s, 3, Len(s))))
IsNumber(s) ==
    \E i \in 1 .. Len(s) : \E j \in i .. Len(s) :
        IsInteger(Part(s, 1, i)) /\ Fraction(Part(s, i + 1, j)) /\ Exponent(Part(s, j + 1, Len(s)))

\* A schema, references followed, or Anything where guidance is not promised.
RECURSIVE Meant(_, _)
Meant(schema, depth) ==
    IF depth <= COMPILE_DEPTH /\ Has(schema, "ref") /\ schema.ref \in DOMAIN Defs
    THEN Meant(Defs[schema.ref], depth + 1)
    ELSE IF \/ depth > COMPILE_DEPTH \/ Has(schema, "ref") \/ Has(schema, "anyOf")
            \/ ~(ToSet(Required(schema)) \subseteq PropertyNames(schema))
    THEN Anything ELSE schema

Typed(schema, types) == schema = Anything \/ (Has(schema, "type") /\ schema.type \in types)

RECURSIVE Conforms(_, _, _), Elements(_, _, _), Members(_, _, _, _)

\* A list of values, separated by commas.
Elements(schema, s, level) ==
    \/ Conforms(schema, s, level)
    \/ \E k \in DOMAIN s : /\ s[k] = ","
                           /\ Conforms(schema, Part(s, 1, k - 1), level)
                           /\ Elements(schema, Part(s, k + 1, Len(s)), level)

\* The members of an object, some of its properties written before: the first
\* member of a name is held to the property's schema, and a name that is not a
\* property, or not for the first time, must be allowed by `additional`.
Members(schema, s, written, level) ==
    \E k \in DOMAIN s : \E end \in k + 1 .. Len(s) + 1 :
        LET key == Trim(Part(s, 1, k - 1))
            name == Part(key, 2, Len(key) - 1)
            known == name \in PropertyNames(schema) \ written
            now == IF known THEN written \cup {name} ELSE written
            value == Part(s, k + 1, end - 1)
        IN  /\ s[k] = ":" /\ IsString(key)
            /\ IF known THEN Conforms(Properties(schema)[Position(schema, name)].schema, value, level)
               ELSE Additional(schema) /\ Conforms(Anything, value, level)
            /\ IF end = Len(s) + 1 THEN ToSet(Required(schema)) \subseteq now
               ELSE s[end] = "," /\ Members(schema, Part(s, end + 1, Len(s)), now, level)

\* A text is a value that the schema allows; containers nested deeper than
\* GUIDED_DEPTH are not held to it.
Conforms(of, s, level) ==
    LET schema == Meant(of, 0)
        t == Trim(s)
        inner == Part(t, 2, Len(t) - 1)
        inside == IF level < GUIDED_DEPTH THEN schema ELSE Anything
        Bracketed(open, close) == Len(t) >= 2 /\ t[1] = open /\ Last(t) = close
        value == \/ IsString(t) /\ Typed(schema, {"string"})
                 \/ IsNumber(t) /\ Typed(schema, {"number"} \cup IF IsInteger(t) THEN {"integer"} ELSE {})
                 \/ t \in LITERALS /\ Typed(schema, IF t[1] = "n" THEN {"null"} ELSE {"boolean"})
                 \/ /\ Bracketed("[", "]") /\ Typed(schema, {"array"})
                    /\ Blanks(inner) \/ Elements(Items(inside), inner, level + 1)
                 \/ /\ Bracketed("{", "}") /\ (schema = Anything \/ IsObject(schema))
                    /\ IF Blanks(inner) THEN Required(inside) = <<>>
                       ELSE Members(inside, inner, {}, level + 1)
    IN  IF Has(schema, "enum") THEN t \in ToSet(schema.enum) ELSE value

-----------------------------------------------------------------------------
(* Properties.                                                             *)

over == tokens = -1

\* An object is asked for in the schemas that are otherwise not understood, too.
Shaped(schema, t) == IsObject(schema) => t # <<>> /\ Head(t) = "{"

\* What may be stopped at is a JSON text its schema allows: "every accepted
\* document parses and satisfies the schema".  The exception is a bare number
\* under an enumeration, which the automaton accepts before the guide has seen
\* it end.
StopMeansValid ==
    accepting(constraint.machine) =>
        \/ Conforms(Schemas[request], text, 0) /\ Shaped(Schemas[request], Trim(text))
        \/ Has(Schemas[request], "enum") /\ IsNumber(Trim(text))

\* The mask never leaves the model with blanks alone, or with nothing: it
\* "is never stuck ..., never dead-ends into a whitespace-only mask".
NeverStuck ==
    ~over => accepting(constraint.machine) \/ \E token \in Vocabulary : ~Blanks(token) /\ allowed(constraint, token)

\* Texts, without blanks, that a schema allows.
Joined(parts) == FoldLeft(LAMBDA s, p : IF s = <<>> THEN p ELSE s \o <<",">> \o p, <<>>, parts)

Integers10 == {<<"0">>, <<"-", "1">>, <<"2", "0">>}
ScalarExamples ==
    [string |-> {<<Quote, Quote>>, <<Quote, "a", Backslash, "n", Quote>>},
     integer |-> Integers10,
     number |-> Integers10 \cup {<<"0", ".", "1">>, <<"1", "e", "-", "1">>},
     boolean |-> {word \in LITERALS : word[1] # "n"},
     null |-> {word \in LITERALS : word[1] = "n"}]

RECURSIVE Examples(_, _)
Examples(of, level) ==
    LET schema == Meant(of, 0)
        props == Properties(schema)
        values == Examples(Items(schema), level + 1)
        Member(i) == {<<Quote>> \o props[i].name \o <<Quote, ":">> \o v : v \in Examples(props[i].schema, level + 1)}
        members == UNION {Member(i) : i \in DOMAIN props}
        Lists(parts, most) == {<<>>} \cup IF level = MAX_DEPTH - 1 THEN {}
                                         ELSE UNION {[1 .. n -> parts] : n \in 1 .. most}
        Of(list) == {i \in DOMAIN props : \E k \in DOMAIN list : list[k] \in Member(i)}
    IN  IF Has(schema, "enum") THEN ToSet(schema.enum)
        ELSE IF schema = Anything
        THEN {<<"0">>, <<Quote, Quote>>, <<"[", "]">>, <<"{", "}">>}
        ELSE IF IsObject(schema)
        THEN {<<"{">> \o Joined(list) \o <<"}">> : list \in
                 {l \in Lists(members, Len(props)) : /\ Cardinality(Of(l)) = Len(l)
                                /\ \A name \in ToSet(Required(schema)) : Position(schema, name) \in Of(l)}}
        ELSE IF schema.type = "array"
        THEN {<<"[">> \o Joined(list) \o <<"]">> : list \in Lists(values, 2)}
        ELSE ScalarExamples[schema.type]

ExamplesOf == [r \in DOMAIN Schemas |-> {t \in Examples(Schemas[r], 0) : Shaped(Schemas[r], t)}]

\* What the schema allows is not refused, whatever was generated on the way:
\* from any beginning of such a text the rest of it is taken, and can be
\* stopped at.
NothingRefused ==
    ~over => \A example \in ExamplesOf[request] :
        IsPrefix(text, example) =>
            LET rest == walk(constraint, SubSeq(example, Len(text) + 1, Len(example)))
            IN  Taken(rest) /\ accepting(rest.machine)

=============================================================================
