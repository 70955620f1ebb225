-------------------------- MODULE MCWebJourneyClient --------------------------
(* One Journey with a timeline and a packing item at the server.            *)
EXTENDS WebJourneyClient

E(op, j, id, in) == [op |-> op, j |-> j, id |-> id, in |-> in]
Plain(name) == [name |-> name, start |-> NoDate, end |-> NoDate]
Stay(name) == [kind |-> "stay", name |-> name, start |-> NoDate, end |-> NoDate]
Seg(id, pos) == [id |-> id, journey |-> "j1", pos |-> pos, kind |-> "stay", name |-> id,
                 start |-> NoDate, end |-> NoDate, ver |-> 1]

MCDocument ==
    [journeys |-> {[id |-> "j1", name |-> "a", start |-> NoDate, end |-> NoDate, status |-> "planning", ver |-> 1]},
     segments |-> {Seg("s1", 0), Seg("s2", 1), Seg("s3", 2)},
     packing |-> {[id |-> "p1", journey |-> "j1", label |-> "i", qty |-> 2, packed |-> 2, ver |-> 1]}]

AllEdits ==
    {E("create", "j2", "j2", Plain("n")), E("update", "j1", "j1", Plain("b")), E("status", "j1", "j1", "active"),
     E("delete", "j1", "j1", None), E("add_segment", "j1", "s4", Stay("x")), E("change_segment", "j1", "s1", Stay("y")),
     E("delete_segment", "j1", "s1", None), E("delete_segment", "j1", "s3", None),
     E("move_segment", "j1", "s2", 1), E("move_segment", "j1", "s2", -1),
     E("add_item", "j1", "p2", [label |-> "k", qty |-> 1]), E("change_item", "j1", "p1", [label |-> "i", qty |-> 1]),
     E("pack", "j1", "p1", 1), E("delete_item", "j1", "p1", None)}

FewEdits ==
    {E("create", "j2", "j2", Plain("n")), E("update", "j1", "j1", Plain("b")), E("status", "j1", "j1", "active"),
     E("change_segment", "j1", "s1", Stay("y")), E("move_segment", "j1", "s1", 1), E("add_segment", "j1", "s4", Stay("x")),
     E("change_item", "j1", "p1", [label |-> "i", qty |-> 1])}

Without(ops) == {e \in FewEdits : e.op \notin ops}
RetryEdits == Without({"change_segment", "move_segment", "add_segment"})

MCScenarios ==
    {\* every kind of edit, one after the other, with nobody in between
     [choice |-> AllEdits, elsewhere |-> {}, tasks |-> {1}, edits |-> 3, losses |-> 0, late |-> 0,
      others |-> 0, mounts |-> 1, expiries |-> 1],
     \* two saves at once, another device, a lost or late request
     [choice |-> Without({"create"}), elsewhere |-> Without({"status"}), tasks |-> {1, 2}, edits |-> 2, losses |-> 1, late |-> 1,
      others |-> 1, mounts |-> 1, expiries |-> 0],
     \* repeated attempts at the same edits, across sessions
     [choice |-> RetryEdits, elsewhere |-> RetryEdits, tasks |-> {1}, edits |-> 3, losses |-> 2, late |-> 0,
      others |-> 1, mounts |-> 2, expiries |-> 1],
     \* tasks that outlive their page, while an item comes or goes elsewhere
     [choice |-> {E("pack", "j1", "p1", 1)},
      elsewhere |-> {E("add_item", "j1", "p2", [label |-> "k", qty |-> 1]), E("delete_item", "j1", "p1", None)},
      tasks |-> {1, 2}, edits |-> 3, losses |-> 1, late |-> 1, others |-> 1, mounts |-> 2, expiries |-> 0]}
=============================================================================
