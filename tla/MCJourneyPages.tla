---------------------------- MODULE MCJourneyPages ----------------------------
(* A Journey with a packing item and a timeline that has a gap, such as a   *)
(* deletion leaves that overtakes a reorder; another Journey can be created. *)
EXTENDS JourneyPages

Jny(id, name) == [id |-> id, name |-> name, start |-> NoDate, end |-> NoDate, status |-> "planning", ver |-> 1]
Seg(id, j, pos) == [id |-> id, journey |-> j, pos |-> pos, kind |-> "stay", name |-> "x",
                    start |-> NoDate, end |-> NoDate, ver |-> 1]

MCDocument ==
    [journeys |-> {Jny("j1", "a")},
     segments |-> {Seg("s1", "j1", 0), Seg("s2", "j1", 2)},
     packing |-> {[id |-> "p1", journey |-> "j1", label |-> "i", qty |-> 2, packed |-> 2, ver |-> 1]}]

MCJourneyInputs == {[name |-> "b", start |-> 2, end |-> e] : e \in {1, 2}}
MCSegmentInputs == {[kind |-> "move", name |-> "y", start |-> NoDate, end |-> NoDate]}
MCItemInputs == {[label |-> "i", qty |-> 1]}

E(op, j, id, in) == [op |-> op, j |-> j, id |-> id, in |-> in]
MCElsewhere ==
    {E("delete", "j1", "j1", None), E("delete_segment", "j1", "s1", None), E("delete_item", "j1", "p1", None),
     E("add_segment", "j1", "s3", [kind |-> "stay", name |-> "z", start |-> NoDate, end |-> NoDate])}
=============================================================================
