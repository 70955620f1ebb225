--------------------------- MODULE MCReplicaClient ---------------------------
(* One replica that edits and then deletes one resource.                    *)
EXTENDS ReplicaClient

C(id, kind, ver) == [id |-> id, kind |-> kind, res |-> "x", inc |-> 1, ver |-> ver]

MCContents == {C("c1", "update", 1), C("c2", "delete", 2)}
\* Together they fit into the queue and not into the quarantine.
MCReserved == [id \in {"c1", "c2"} |-> IF id = "c1" THEN 1 ELSE 2]
MCQuarantineReserved == [id \in {"c1", "c2"} |-> 2]
=============================================================================
