---------------------------- MODULE MCJsonSchema ----------------------------
(* A small instance of JsonSchema: schemas that meet each rule of the guide, *)
(* over a vocabulary of single bytes and of tokens that cross boundaries.    *)
EXTENDS JsonSchema

A == <<"a">>
AB == <<"a", "b">>
Red == <<Quote, "r", Quote>>
Rest == <<Quote, "r", "e", Quote>>
Null == <<"n", "u", "l", "l">>
Property(name, schema) == [name |-> name, schema |-> schema]
Type(t) == [type |-> t]

MCDefs == [point |-> [type |-> "object", properties |-> <<Property(A, [ref |-> "point"])>>]]

MCSchemas ==
    [syntax    |-> [anyOf |-> TRUE],
     strings   |-> Type("string"),
     numbers   |-> Type("number"),
     closed    |-> [properties |-> <<Property(A, Type("integer")), Property(AB, Type("number"))>>,
                    required |-> <<A>>, additional |-> FALSE],
     both      |-> [type |-> "object", required |-> <<AB, A>>, additional |-> FALSE,
                    properties |-> <<Property(A, Type("boolean")),
                                     Property(AB, [enum |-> <<Red, Rest>>])>>],
     open      |-> [type |-> "object", properties |-> <<Property(A, Type("null"))>>, required |-> <<A>>],
     unknown   |-> [type |-> "object", properties |-> <<Property(A, Type("null"))>>, required |-> <<AB>>],
     list      |-> [type |-> "array", items |-> [enum |-> <<<<"1">>, <<"1", "2">>, Null>>]],
     nested    |-> [type |-> "array", items |-> [type |-> "array", items |-> Type("integer")]],
     recursive |-> [ref |-> "point"],
     constants |-> [enum |-> <<<<"1", "2">>, <<"-", "1">>, Rest>>]]

KeyA == <<Quote, "a", Quote, ":">>
KeyAB == <<Quote, "a", "b", Quote, ":">>
Spell(bytes) == {<<b>> : b \in bytes}
Frame == Spell({"{", "}", ",", " "})

Offered ==
    [syntax    |-> Spell({"{", "}", "[", "]", ",", " "}) \cup {KeyA, <<"1">>, <<"]", "]">>},
     strings   |-> Spell({Quote, Backslash, "u", "a", "0", "n", "^"}) \cup {<<"0", "0", "0">>},
     numbers   |-> Spell({"-", "0", "1", ".", "e", "+", " "}),
     closed    |-> Frame \cup Spell({Quote, "1", "."}) \cup {KeyA, KeyAB, <<"1", "}">>, <<"b", Quote, ":">>, A},
     both      |-> Frame \cup {KeyA, KeyAB, Red, Rest, <<Quote, "r">>, <<"t", "r", "u", "e">>, Null, <<Quote>>},
     open      |-> Frame \cup {KeyA, KeyAB, Null, <<"1">>, <<Quote, Quote, ":">>},
     unknown   |-> Frame \cup {KeyA, KeyAB, Null, <<"1">>},
     list      |-> Spell({"[", "]", ",", "1", "2", " "}) \cup {Null},
     nested    |-> Spell({"[", "]", ",", "-", "0", "1", "."}) \cup {<<"]", "]">>, <<"1", ",">>},
     recursive |-> Frame \cup {KeyA, KeyAB, <<"1">>, <<"}", "}">>},
     constants |-> Spell({"1", "2", "-", " ", Quote, "r", "e"})]

MCVocabulary ==
    Spell({"{", "}", "[", "]", ":", ",", Quote, Backslash, "u", "n", "-", "0", "1", "2", ".", "e",
           "+", "a", "b", "r", " "})
    \cup LITERALS \cup UNION {Offered[r] : r \in DOMAIN Offered}

CONSTANT Bound   \* of each request, the tokens it is followed for

MCRequests ==
    [r \in DOMAIN MCSchemas |->
        [mode |-> Mode(MCSchemas[r]), arena |-> compile(MCSchemas[r]), offered |-> Offered[r],
         bound |-> Bound + IF r \in {"both", "closed"} THEN 1 ELSE 0]]

=============================================================================
