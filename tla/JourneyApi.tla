------------------------------ MODULE JourneyApi ------------------------------
(***************************************************************************)
(* The Journey operations of the API as the web client meets them, on the  *)
(* document that the server keeps.  Each is one step, but for the reorder: *)
(* reorder_segment compares the version and makes up the new order on      *)
(* plain reads (Checked) and writes later, by identifiers alone (Applied). *)
(* The other operations compare the version in the statement that writes.  *)
(* (What can happen between the statements of a transaction is followed    *)
(* one by one in CommandUow, Timeline and Packing.)                        *)
(*                                                                         *)
(* A request has a kind, a Journey, an object, a body, the version it      *)
(* expects and, once its reads are done, the order that a reorder will     *)
(* write; journey.update also has a command identifier and a signature.    *)
(***************************************************************************)
EXTENDS JourneyDocument

CONSTANT FirstDocument      \* what the server holds at the start

\* The tables of the server, with identifiers for primary keys.
Columns == [journeys |-> {"id", "name", "start", "end", "status", "ver"},
            segments |-> {"id", "journey", "pos", "kind", "name", "start", "end", "ver"},
            packing |-> {"id", "journey", "label", "qty", "packed", "ver"}]
Collections == DOMAIN Columns
Tables(d) ==
    /\ DOMAIN d = Collections
    /\ \A c \in Collections : DistinctIds(d[c]) /\ \A r \in d[c] : DOMAIN r = Columns[c] /\ r.ver \in Nat

ASSUME FirstDocumentAssumption == Tables(FirstDocument)

\* Every change below a Journey also moves the Journey's version.
Touch(d, j) == [d EXCEPT !.journeys = {IF r.id = j THEN [r EXCEPT !.ver = @ + 1] ELSE r : r \in @}]

\* The versioned row that a request names, and whether it is the one the
\* client has seen.
RowOf(q, d) ==
    CASE q.kind = "update_journey" -> WithId(d.journeys, q.j)
      [] q.kind \in {"update_segment", "reorder_segment"} -> WithId(d.segments, q.id)
      [] q.kind \in {"update_item", "pack_item"} -> WithId(d.packing, q.id)

CreateKinds == {"create_journey", "create_segment", "create_item"}
DeleteKinds == {"delete_journey", "delete_segment", "delete_item"}
VersionedKinds == {"update_journey", "update_segment", "reorder_segment", "update_item", "pack_item"}
Versioned(q) == q.kind \in VersionedKinds

Found(q, d) ==
    CASE q.kind = "create_journey" -> TRUE
      [] q.kind \in {"delete_journey", "update_journey", "create_segment", "create_item"} -> JourneyExists(d, q.j)
      [] q.kind \in {"delete_segment", "update_segment", "reorder_segment"} -> OwnedSegment(d, q.j, q.id)
      [] q.kind \in {"delete_item", "update_item", "pack_item"} -> OwnedItem(d, q.j, q.id)

\* An identifier that is taken violates a primary key.
Taken(q, d) ==
    \/ q.kind = "create_journey" /\ JourneyExists(d, q.id)
    \/ q.kind = "create_segment" /\ \E s \in d.segments : s.id = q.id
    \/ q.kind = "create_item" /\ \E p \in d.packing : p.id = q.id

\* Mutant: an edit of a packing item does not look at the version.
Outcome_PackingUnchecked(q, d) ==
    IF ~Found(q, d) THEN "not_found"
    ELSE IF q.order # None THEN "ok"
    ELSE IF Taken(q, d) THEN "conflict"
    ELSE IF q.kind = "pack_item" /\ q.body > RowOf(q, d).qty THEN "invalid"
    ELSE IF q.kind = "reorder_segment" /\ q.body >= Cardinality(segmentsForJourney(d, q.j)) THEN "invalid"
    ELSE IF Versioned(q) /\ q.kind # "update_item" /\ RowOf(q, d).ver # q.ver THEN "conflict" ELSE "ok"

\* The order of the checks: a reorder compares the version first, the packed
\* quantity is compared with the quantity before the version is.  A reorder
\* that is past its checks only finds out whether its segment is still there.
Outcome(q, d) ==
    IF ~Found(q, d) THEN "not_found"
    ELSE IF q.order # None THEN "ok"
    ELSE IF Taken(q, d) THEN "conflict"
    ELSE IF q.kind = "pack_item" /\ q.body > RowOf(q, d).qty THEN "invalid"
    ELSE IF Versioned(q) /\ RowOf(q, d).ver # q.ver THEN "conflict"
    ELSE IF q.kind = "reorder_segment" /\ q.body >= Cardinality(segmentsForJourney(d, q.j)) THEN "invalid"
    ELSE "ok"

\* The reads of reorder_segment: the identifier is taken out of the list and
\* put in at the new index.
Places(S, id, to) ==
    LET left == {s \in S : s.id # id}
        Place(s) == IF s.id = id THEN to
                    ELSE IF IndexIn(left, s) < to THEN IndexIn(left, s) ELSE IndexIn(left, s) + 1
    IN  [x \in {s.id : s \in S} |-> Place(WithId(S, x))]

Checked(q, d) == [q EXCEPT !.order = Places(segmentsForJourney(d, q.j), q.id, q.body)]

\* A reorder that has its reads still before it, and will pass them.
Unchecked(q, d) == q.kind = "reorder_segment" /\ q.order = None /\ Outcome(q, d) = "ok"

\* Its writes: all positions of the Journey are moved out of the way, those in
\* the list come back; a segment that is not in the list stays out there.
Parking == 100000
Reordered(s, q) ==
    [s EXCEPT !.pos = IF s.id \in DOMAIN q.order THEN q.order[s.id] ELSE @ + Parking,
              !.ver = IF s.id = q.id THEN @ + 1 ELSE @]

\* Mutant: a new segment gets the number of segments there are.
NextPosition_Count(S) == Cardinality(S)

\* create_segment asks for the highest position.
NextPosition(S) == IF S = {} THEN 0 ELSE 1 + (CHOOSE s \in S : \A t \in S : t.pos <= s.pos).pos

Applied(q, d) ==
    CASE q.kind = "create_journey" -> createJourney(d, q.body, q.id)
      [] q.kind = "update_journey" ->
            [d EXCEPT !.journeys = Put(@, [RowOf(q, d) EXCEPT !.name = q.body.name, !.start = q.body.start,
                                              !.end = q.body.end, !.status = q.body.status, !.ver = @ + 1])]
      [] q.kind = "delete_journey" -> deleteJourney(d, q.j)
      [] q.kind = "create_segment" ->
            Touch([d EXCEPT !.segments = @ \union
                {[id |-> q.id, journey |-> q.j, pos |-> NextPosition(segmentsForJourney(d, q.j)), kind |-> q.body.kind,
                  name |-> q.body.name, start |-> q.body.start, end |-> q.body.end, ver |-> 1]}], q.j)
      [] q.kind = "update_segment" ->
            Touch([d EXCEPT !.segments = Put(@, [RowOf(q, d) EXCEPT !.kind = q.body.kind, !.name = q.body.name,
                                                    !.start = q.body.start, !.end = q.body.end, !.ver = @ + 1])], q.j)
      [] q.kind = "reorder_segment" ->
            Touch([d EXCEPT !.segments = {IF s.journey = q.j THEN Reordered(s, q) ELSE s : s \in @}], q.j)
      [] q.kind = "delete_segment" -> Touch(deleteSegment(d, q.j, q.id), q.j)
      [] q.kind = "create_item" -> Touch(addPacking(d, q.j, q.body, q.id), q.j)
      [] q.kind = "update_item" ->
            Touch([d EXCEPT !.packing = Put(@, [RowOf(q, d) EXCEPT !.label = q.body.label, !.qty = q.body.qty,
                                                   !.packed = Least(@, q.body.qty), !.ver = @ + 1])], q.j)
      [] q.kind = "pack_item" ->
            Touch([d EXCEPT !.packing = Put(@, [RowOf(q, d) EXCEPT !.packed = q.body, !.ver = @ + 1])], q.j)
      [] q.kind = "delete_item" -> Touch(deletePackingItem(d, q.j, q.id), q.j)
=============================================================================
