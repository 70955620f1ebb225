-------------------------- MODULE MCContractRelease --------------------------
(* One command operation and its variations, versions up to 3.              *)
EXTENDS ContractRelease

R(a, b, c) == [min |-> a, cur |-> b, max |-> c]
Contract(api, update) ==
    [api |-> api, commands |-> {[type |-> "journey.update", range |-> r] : r \in update}]

PathParameter == [in |-> "path", name |-> "id", required |-> TRUE]
Csrf == [in |-> "header", name |-> "X-CSRF-Token", required |-> TRUE]
Ok == [status |-> 200, content |-> "json"]
Update ==
    [key |-> "update", id |-> "update", fields |-> "known", security |-> "session", parameters |-> {PathParameter, Csrf},
     placeholders |-> {"id"}, body |-> "json", literal |-> "journey.update", marker |-> "journey.update",
     responses |-> {Ok, [status |-> 409, content |-> "json"]}]
Listing ==
    [Update EXCEPT !.key = "list", !.id = "list", !.parameters = {}, !.placeholders = {}, !.body = "none", !.literal = None, !.marker = None]

\* What the generator refuses, one reason at a time.
Refused ==
    {[Update EXCEPT !.id = None], [Update EXCEPT !.fields = "other"], [Update EXCEPT !.security = "other"],
     [Update EXCEPT !.parameters = {Csrf}], [Update EXCEPT !.parameters = {PathParameter, [Csrf EXCEPT !.required = FALSE]}],
     [Update EXCEPT !.parameters = @ \union {[in |-> "query", name |-> "q", required |-> TRUE]}],
     [Update EXCEPT !.body = "other"], [Update EXCEPT !.responses = {[Ok EXCEPT !.status = 404]}],
     [Update EXCEPT !.responses = {[Ok EXCEPT !.content = "none"]}], [Update EXCEPT !.responses = {[Ok EXCEPT !.status = 20]}],
     [Update EXCEPT !.literal = "other"], [Listing EXCEPT !.id = "update"]}

Ranges == {R(1, 1, 1), R(1, 1, 2), R(1, 2, 2), R(2, 2, 2), R(2, 2, 3), R(1, 3, 3), R(2, 1, 2)}
Contracts ==
    {Contract(R(1, 1, 1), {r}) : r \in Ranges} \union {Contract(R(1, 2, 2), {r}) : r \in {R(1, 1, 1), R(1, 1, 2), R(2, 2, 2)}}
    \union {Contract(R(1, 1, 1), {}), Contract(R(0, 1, 1), {R(1, 1, 1)}), Contract(R(2, 2, 2), {R(1, 1, 1)}), Contract(R(1, 1, 1), {R(1, 1, 1), R(1, 1, 2)})}

\* What the generator takes and the comparison with the base judges.
Changed ==
    {[Update EXCEPT !.id = "other"], [Update EXCEPT !.marker = None], [Update EXCEPT !.security = "none"],
     [Update EXCEPT !.parameters = {PathParameter}], [Update EXCEPT !.responses = {Ok}],
     [Update EXCEPT !.responses = @ \union {[Ok EXCEPT !.status = 404]}], [Update EXCEPT !.placeholders = {}, !.parameters = {Csrf}]}

MCSources ==
    {[operations |-> {x, Listing}, contract |-> Contract(R(1, 1, 1), {R(1, 1, 1)})] : x \in Changed} \union
    {[operations |-> {Update}, contract |-> Contract(R(1, 1, 1), {R(1, 1, 1)})]} \union
    {[operations |-> {Update, Listing}, contract |-> c] : c \in Contracts}
    \union {[operations |-> {Update, x}, contract |-> Contract(R(1, 1, 1), {R(1, 1, 1)})] : x \in Refused}
=============================================================================
