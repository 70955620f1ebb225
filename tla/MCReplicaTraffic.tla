-------------------------- MODULE MCReplicaTraffic --------------------------
(* Two commands meant for the first version of one resource, one of whose   *)
(* identifiers is used again for another content.                           *)
EXTENDS ReplicaTraffic

C(id, kind, ver, inc) ==
    [id |-> id, kind |-> kind, res |-> "x", inc |-> inc, ver |-> ver]

MCContents == {C("c1", "update", 1, 1), C("c1", "delete", 2, 1), C("c2", "delete", 1, 1)}
=============================================================================
