----------------------------- MODULE MCApiClient -----------------------------
(* Versions up to 3; the client supports two of them, the server anything,  *)
(* metadata that is no range included.                                      *)
EXTENDS ApiClient, SchemaContract

R(a, b, c) == [min |-> a, cur |-> b, max |-> c]
Ranges == {R(1, 1, 1), R(1, 1, 2), R(1, 2, 2), R(2, 2, 2), R(2, 3, 3), R(3, 3, 3), R(0, 1, 1), R(2, 1, 1), R(1, 3, 2)}
Update(range) == {[type |-> "journey.update", range |-> range]}

MCSupport == [api |-> R(1, 1, 1), commands |-> Update(R(1, 2, 2))]
MCAdvertised ==
    {[api |-> a, commands |-> c] :
        a \in {R(1, 1, 1), R(1, 2, 2), R(2, 2, 2), R(0, 1, 1)},
        c \in {Update(r) : r \in Ranges} \union {{}, Update(R(1, 1, 1)) \union Update(R(1, 2, 2))}}

(* Schemas two levels deep over small numbers and texts.                    *)
Num(n) == [t |-> "number", n |-> n, whole |-> TRUE]
Half == [t |-> "number", n |-> 1, whole |-> FALSE]
Text(n, formed) == [t |-> "string", n |-> n, formed |-> formed]
Null == [t |-> "null"]
Arr(e) == [t |-> "array", e |-> e]
Obj(f) == [t |-> "object", f |-> f]

Scalars == {Null, [t |-> "boolean"], Num(0), Num(1), Num(2), Half, Text(0, FALSE), Text(1, TRUE), Text(2, FALSE), Text(2, TRUE)}
Some == {Null, Num(1), Text(2, TRUE)}
MCValues ==
    Scalars \union {Arr(<<>>)} \union {Arr(<<v>>) : v \in Some} \union {Arr(<<v, w>>) : v, w \in {Null, Num(2)}}
    \union {Obj([k \in {} |-> Null])} \union {Obj([k \in D |-> v]) : D \in {{"a"}, {"z"}}, v \in Some}
    \union {Obj([k \in {"a", "z"} |-> IF k = "a" THEN v ELSE w]) : v, w \in Some}
    \union {Obj([k \in {"a"} |-> Obj([l \in {"z"} |-> Null])])}

Leaves ==
    {[type |-> t] : t \in {"null", "boolean", "number", "string"}}
    \union {[type |-> "integer", minimum |-> 1, maximum |-> m] : m \in {0, 1}}
    \union {[type |-> "string", minLength |-> 1, maxLength |-> m] : m \in {0, 1}}
    \union {[type |-> "string", form |-> "date"], [type |-> "string", const |-> Text(2, TRUE)],
            [type |-> "number", enum |-> {Num(1), Half}], [type |-> "number", enum |-> {}],
            [const |-> Num(1)], [form |-> "date"], [type |-> "number", multipleOf |-> 2],
            [ref |-> "Small"], [ref |-> "Missing"], [ref |-> "Small", maximum |-> 0], [ref |-> "Tree", note |-> "x"]}

Additional(l) == {[kind |-> "true"], [kind |-> "false"], [kind |-> "schema", schema |-> l]}

MCSchemas ==
    Leaves
    \union {[type |-> "array", items |-> l] : l \in Leaves} \union {[type |-> "array"]}
    \union {[anyOf |-> <<l, [type |-> "null"]>>] : l \in Leaves}
    \union {[anyOf |-> <<l, [type |-> "null"]>>, type |-> "number", note |-> "x"] : l \in Leaves} \union {[anyOf |-> <<>>]}
    \union {[type |-> "object", properties |-> [k \in {"a"} |-> l], required |-> r, additional |-> x] :
                l \in Leaves, r \in SUBSET {"a"}, x \in Additional([type |-> "null"])}
    \union {[type |-> "object", additional |-> x] : x \in UNION {Additional(l) : l \in Leaves}}
    \union {[type |-> "object", properties |-> [k \in {"a"} |-> [type |-> "null"]]]}

MCComponents ==
    [n \in {"Small", "Tree"} |->
        IF n = "Small" THEN [type |-> "number", maximum |-> 1]
        ELSE [type |-> "object", properties |-> [k \in {"a"} |-> [ref |-> "Tree"]], additional |-> [kind |-> "false"]]]

\* Whenever a call has passed assertValid and is on its way, what assertValid
\* lets out and lets in is what the contract means, for every schema that
\* generate accepts in the form that the server writes.
ValidatorMeansTheContract == (\E c \in Calls : call[c].phase = "fetch") => ValidatorAgrees
=============================================================================
