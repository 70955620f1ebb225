--------------------------- MODULE JourneyDocument ---------------------------
(***************************************************************************)
(* The Journey document of the web application (features/journeys): what   *)
(* the pages show, the edits of journey-service.ts, the input checks and   *)
(* parseJourneyData of domain.ts.                                          *)
(*                                                                         *)
(* A document has three collections of records with an identifier.  They   *)
(* are sets here: the order of the arrays only decides the order in which  *)
(* equal things are listed, a timeline is ordered by its positions.  Text  *)
(* is compared after trim, so a blank text is "" and a date that is not    *)
(* given is NoDate.  Timestamps, which are all that touchJourney changes,  *)
(* are left out.                                                           *)
(***************************************************************************)
EXTENDS Integers, FiniteSets

CONSTANTS
    MaxQuantity,    \* of a packing item, 99
    None            \* undefined or null

ASSUME MaxQuantityAssumption == MaxQuantity \in Nat

NoDate == 0

EmptyDocument == [journeys |-> {}, segments |-> {}, packing |-> {}]

Statuses == {"planning", "active", "completed", "archived"}

-----------------------------------------------------------------------------
(***************************************************************************)
(* What a person may enter                                                 *)
(***************************************************************************)
DateOrder(in) == in.start # NoDate /\ in.end # NoDate /\ in.end < in.start

validateJourney(in) ==
    {c \in {"name_required", "date_order"} :
        \/ c = "name_required" /\ in.name = ""
        \/ c = "date_order" /\ DateOrder(in)}

\* The name of a stay is its place, that of a move its route, which is blank
\* when one of its ends is.
validateSegment(in) ==
    {c \in {"date_order", "place_required", "route_required"} :
        \/ c = "date_order" /\ DateOrder(in)
        \/ c = "place_required" /\ in.kind = "stay" /\ in.name = ""
        \/ c = "route_required" /\ in.kind = "move" /\ in.name = ""}

validatePacking(in) ==
    {c \in {"packing_label_required", "quantity_invalid"} :
        \/ c = "packing_label_required" /\ in.label = ""
        \/ c = "quantity_invalid" /\ in.qty \notin 1..MaxQuantity}

-----------------------------------------------------------------------------
(***************************************************************************)
(* Reading a document                                                      *)
(***************************************************************************)
segmentsForJourney(d, j) == {s \in d.segments : s.journey = j}
packingForJourney(d, j) == {p \in d.packing : p.journey = j}

JourneyExists(d, j) == \E r \in d.journeys : r.id = j
OwnedSegment(d, j, id) == \E s \in segmentsForJourney(d, j) : s.id = id
OwnedItem(d, j, id) == \E p \in packingForJourney(d, j) : p.id = id
WithId(S, id) == CHOOSE r \in S : r.id = id

\* The place of a segment in its sorted timeline.
IndexIn(S, s) == Cardinality({t \in S : t.pos < s.pos})
At(S, i) == CHOOSE s \in S : IndexIn(S, s) = i

-----------------------------------------------------------------------------
(***************************************************************************)
(* Edits: each gives the document that the page then commits               *)
(***************************************************************************)
Put(S, r) == {IF x.id = r.id THEN r ELSE x : x \in S}

createJourney(d, in, id) ==
    [d EXCEPT !.journeys = @ \union
        {[id |-> id, name |-> in.name, start |-> in.start, end |-> in.end,
          status |-> "planning", ver |-> 1]}]

updateJourney(d, j, in) ==
    [d EXCEPT !.journeys =
        Put(@, [WithId(@, j) EXCEPT !.name = in.name, !.start = in.start, !.end = in.end])]

setJourneyStatus(d, j, status) ==
    [d EXCEPT !.journeys = Put(@, [WithId(@, j) EXCEPT !.status = status])]

deleteJourney(d, j) ==
    [journeys |-> {r \in d.journeys : r.id # j},
     segments |-> {s \in d.segments : s.journey # j},
     packing |-> {p \in d.packing : p.journey # j}]

\* saveSegment without and with an existing segment.
addSegment(d, j, in, id) ==
    [d EXCEPT !.segments = @ \union
        {[id |-> id, journey |-> j, pos |-> Cardinality(segmentsForJourney(d, j)), kind |-> in.kind,
          name |-> in.name, start |-> in.start, end |-> in.end, ver |-> 1]}]

changeSegment(d, j, in, id) ==
    [d EXCEPT !.segments =
        Put(@, [WithId(@, id) EXCEPT !.kind = in.kind, !.name = in.name, !.start = in.start, !.end = in.end])]

deleteSegment(d, j, id) ==
    LET left == {s \in segmentsForJourney(d, j) : s.id # id} IN
    [d EXCEPT !.segments =
        {IF s.journey = j THEN [s EXCEPT !.pos = IndexIn(left, s)] ELSE s :
            s \in {t \in @ : t.id # id}}]

\* The segment changes places with its neighbour; at the end of the timeline
\* nothing happens.
moveSegment(d, j, id, direction) ==
    LET ordered == segmentsForJourney(d, j)
        index == IndexIn(ordered, WithId(ordered, id))
        target == index + direction
        Swapped(s) == LET i == IndexIn(ordered, s) IN
                      IF i = index THEN target ELSE IF i = target THEN index ELSE i
    IN  IF target \notin 0..(Cardinality(ordered) - 1) THEN d
        ELSE [d EXCEPT !.segments =
                {IF s.journey = j THEN [s EXCEPT !.pos = Swapped(s)] ELSE s : s \in @}]

Least(a, b) == IF a < b THEN a ELSE b

\* savePackingItem without and with an existing item.
addPacking(d, j, in, id) ==
    [d EXCEPT !.packing = @ \union
        {[id |-> id, journey |-> j, label |-> in.label, qty |-> in.qty, packed |-> 0, ver |-> 1]}]

changePacking(d, j, in, id) ==
    LET item == WithId(d.packing, id)
    IN  [d EXCEPT !.packing =
            Put(@, [item EXCEPT !.label = in.label, !.qty = in.qty, !.packed = Least(item.packed, in.qty)])]

setPackedQuantity(d, j, id, n) ==
    LET item == WithId(d.packing, id)
        clamped == IF Least(item.qty, n) < 0 THEN 0 ELSE Least(item.qty, n)
    IN  [d EXCEPT !.packing = Put(@, [item EXCEPT !.packed = clamped])]

deletePackingItem(d, j, id) == [d EXCEPT !.packing = {p \in @ : p.id # id}]

-----------------------------------------------------------------------------
(***************************************************************************)
(* An edit as a record: the function, the Journey, the object, the input   *)
(***************************************************************************)
EditOps == {"create", "update", "status", "delete", "add_segment", "change_segment", "delete_segment",
            "move_segment", "add_item", "change_item", "pack", "delete_item"}

\* Mutant: a segment is looked up by its identifier alone.
Possible_AnyJourney(e, d) ==
    IF e.op = "create" THEN validateJourney(e.in) = {}
    ELSE /\ JourneyExists(d, e.j)
         /\ CASE e.op = "update" -> validateJourney(e.in) = {}
              [] e.op = "add_segment" -> validateSegment(e.in) = {}
              [] e.op = "change_segment" -> validateSegment(e.in) = {} /\ \E s \in d.segments : s.id = e.id
              [] e.op \in {"delete_segment", "move_segment"} -> OwnedSegment(d, e.j, e.id)
              [] e.op = "add_item" -> validatePacking(e.in) = {}
              [] e.op = "change_item" -> validatePacking(e.in) = {} /\ OwnedItem(d, e.j, e.id)
              [] e.op \in {"pack", "delete_item"} -> OwnedItem(d, e.j, e.id)
              [] OTHER -> TRUE

\* The assertions at the head of each function of journey-service.ts.
Possible(e, d) ==
    IF e.op = "create" THEN validateJourney(e.in) = {}
    ELSE /\ JourneyExists(d, e.j)
         /\ CASE e.op = "update" -> validateJourney(e.in) = {}
              [] e.op = "add_segment" -> validateSegment(e.in) = {}
              [] e.op = "change_segment" -> validateSegment(e.in) = {} /\ OwnedSegment(d, e.j, e.id)
              [] e.op \in {"delete_segment", "move_segment"} -> OwnedSegment(d, e.j, e.id)
              [] e.op = "add_item" -> validatePacking(e.in) = {}
              [] e.op = "change_item" -> validatePacking(e.in) = {} /\ OwnedItem(d, e.j, e.id)
              [] e.op \in {"pack", "delete_item"} -> OwnedItem(d, e.j, e.id)
              [] OTHER -> TRUE

Edited(e, d) ==
    CASE e.op = "create" -> createJourney(d, e.in, e.id)
      [] e.op = "update" -> updateJourney(d, e.j, e.in)
      [] e.op = "status" -> setJourneyStatus(d, e.j, e.in)
      [] e.op = "delete" -> deleteJourney(d, e.j)
      [] e.op = "add_segment" -> addSegment(d, e.j, e.in, e.id)
      [] e.op = "change_segment" -> changeSegment(d, e.j, e.in, e.id)
      [] e.op = "delete_segment" -> deleteSegment(d, e.j, e.id)
      [] e.op = "move_segment" -> moveSegment(d, e.j, e.id, e.in)
      [] e.op = "add_item" -> addPacking(d, e.j, e.in, e.id)
      [] e.op = "change_item" -> changePacking(d, e.j, e.in, e.id)
      [] e.op = "pack" -> setPackedQuantity(d, e.j, e.id, e.in)
      [] e.op = "delete_item" -> deletePackingItem(d, e.j, e.id)

-----------------------------------------------------------------------------
(***************************************************************************)
(* parseJourneyData: the documents the application accepts                 *)
(***************************************************************************)
DistinctIds(S) == \A r, s \in S : r.id = s.id => r = s

JourneysParse(d) ==
    /\ DistinctIds(d.journeys)
    /\ \A r \in d.journeys :
          r.name # "" /\ r.status \in Statuses /\ ~DateOrder(r) /\ r.ver >= 1

SegmentsParse(d) ==
    /\ DistinctIds(d.segments)
    /\ \A s \in d.segments :
          /\ JourneyExists(d, s.journey)
          /\ s.pos \in Nat /\ ~DateOrder(s) /\ s.ver >= 1
          /\ s.kind \in {"stay", "move"} /\ s.name # ""
    /\ \A s, t \in d.segments : s.journey = t.journey /\ s.pos = t.pos => s = t

PackingParses(d) ==
    /\ DistinctIds(d.packing)
    /\ \A p \in d.packing :
          /\ JourneyExists(d, p.journey)
          /\ p.label # "" /\ p.qty \in 1..MaxQuantity /\ p.packed \in 0..p.qty /\ p.ver >= 1

parseJourneyData(d) == JourneysParse(d) /\ SegmentsParse(d) /\ PackingParses(d)
=============================================================================
