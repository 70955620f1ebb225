----------------------------- MODULE MCTimeline -----------------------------
(***************************************************************************)
(* Small instances of Timeline for TLC.                                    *)
(***************************************************************************)
EXTENDS Timeline, TLC

\* Three segments for two requests, three requests for two segments.
MCBound ==
    LET begun == {r \in Requests : op[r] # None}
        named == {op[r].seg : r \in {q \in begun : op[q].kind # "delete_journey"}}
    IN  Cardinality(begun) <= 2 \/ Cardinality(named \cup Present(segs)) <= 2

MCSymmetry == Permutations(Segments) \cup Permutations(Requests)
=============================================================================
