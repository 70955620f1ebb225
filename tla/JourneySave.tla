----------------------------- MODULE JourneySave -----------------------------
(***************************************************************************)
(* save of HttpJourneyRepository: the requests that turn the document the  *)
(* repository loaded last into the edited one.  They are sent one after    *)
(* the other, by stages; the order within a stage is that of the arrays.   *)
(***************************************************************************)
EXTENDS JourneyApi

JourneyBody(r) == [name |-> r.name, start |-> r.start, end |-> r.end, status |-> r.status]
SegmentBody(s) == [kind |-> s.kind, name |-> s.name, start |-> s.start, end |-> s.end]
ItemBody(p) == [label |-> p.label, qty |-> p.qty]

\* A request, with the row the person saw when it was made.
Request(stage, kind, j, id, body, seen) ==
    [stage |-> stage, kind |-> kind, j |-> j, id |-> id, body |-> body, seen |-> seen,
     ver |-> IF kind \in VersionedKinds THEN seen.ver ELSE 0, cmd |-> 0, order |-> None]

Gone(old, new) == {r \in old : ~\E s \in new : s.id = r.id}
Added(old, new) == Gone(new, old)

\* journeyChanged, segmentChanged and packingDefinitionChanged compare bodies.
Changed(old, new, Body(_)) == {r \in new : \E s \in old : s.id = r.id /\ Body(s) # Body(r)}

JourneyRequests(prev, next) ==
    {Request(1, "delete_journey", r.id, r.id, None, None) : r \in Gone(prev.journeys, next.journeys)}
    \union {Request(2, "create_journey", r.id, r.id, JourneyBody(r), None) : r \in Added(prev.journeys, next.journeys)}
    \union {Request(2, "update_journey", r.id, r.id, JourneyBody(r), WithId(prev.journeys, r.id)) :
                r \in Changed(prev.journeys, next.journeys, JourneyBody)}

\* The first segment of the new order that stands where another one stood
\* and is not new: at most one for each Journey.
MovedSegments(prev, next, j) ==
    LET before == segmentsForJourney(prev, j)
        after == segmentsForJourney(next, j)
        IsMoved(s) == /\ \E o \in prev.segments : o.id = s.id
                      /\ LET i == IndexIn(after, s) IN i >= Cardinality(before) \/ At(before, i).id # s.id
    IN  {s \in after : IsMoved(s) /\ \A u \in after : IsMoved(u) => IndexIn(after, s) <= IndexIn(after, u)}

\* Mutant: the segments of a Journey that is deleted are deleted one by one too.
SegmentRequests_Orphans(prev, next) ==
    {Request(3, "delete_segment", s.journey, s.id, None, None) : s \in Gone(prev.segments, next.segments)}
    \union {Request(4, "create_segment", s.journey, s.id, SegmentBody(s), None) : s \in Added(prev.segments, next.segments)}
    \union {Request(4, "update_segment", s.journey, s.id, SegmentBody(s), WithId(prev.segments, s.id)) :
                s \in Changed(prev.segments, next.segments, SegmentBody)}
    \union UNION {{Request(5, "reorder_segment", r.id, s.id, IndexIn(segmentsForJourney(next, r.id), s),
                           WithId(prev.segments, s.id)) : s \in MovedSegments(prev, next, r.id)} : r \in next.journeys}

SegmentRequests(prev, next) ==
    LET living == {s \in prev.segments : JourneyExists(next, s.journey)} IN
    {Request(3, "delete_segment", s.journey, s.id, None, None) : s \in Gone(living, next.segments)}
    \union {Request(4, "create_segment", s.journey, s.id, SegmentBody(s), None) : s \in Added(prev.segments, next.segments)}
    \union {Request(4, "update_segment", s.journey, s.id, SegmentBody(s), WithId(prev.segments, s.id)) :
                s \in Changed(prev.segments, next.segments, SegmentBody)}
    \union UNION {{Request(5, "reorder_segment", r.id, s.id, IndexIn(segmentsForJourney(next, r.id), s),
                           WithId(prev.segments, s.id)) : s \in MovedSegments(prev, next, r.id)} : r \in next.journeys}

\* Mutant: the progress of an item is sent only when its definition changes too.
ItemRequests_NoProgress(prev, next) ==
    LET living == {p \in prev.packing : JourneyExists(next, p.journey)} IN
    {Request(6, "delete_item", p.journey, p.id, None, None) : p \in Gone(living, next.packing)}
    \union {Request(7, "create_item", p.journey, p.id, ItemBody(p), None) : p \in Added(prev.packing, next.packing)}
    \union {Request(7, "update_item", p.journey, p.id, ItemBody(p), WithId(prev.packing, p.id)) :
                p \in Changed(prev.packing, next.packing, ItemBody)}

\* A changed definition goes before, and instead of, a changed progress.
ItemRequests(prev, next) ==
    LET living == {p \in prev.packing : JourneyExists(next, p.journey)}
        Packed(p) == p.packed
        defined == Changed(prev.packing, next.packing, ItemBody)
    IN  {Request(6, "delete_item", p.journey, p.id, None, None) : p \in Gone(living, next.packing)}
        \union {Request(7, "create_item", p.journey, p.id, ItemBody(p), None) : p \in Added(prev.packing, next.packing)}
        \union {Request(7, "update_item", p.journey, p.id, ItemBody(p), WithId(prev.packing, p.id)) : p \in defined}
        \union {Request(7, "pack_item", p.journey, p.id, p.packed, WithId(prev.packing, p.id)) :
                    p \in Changed(prev.packing, next.packing, Packed) \ defined}

Difference(prev, next) ==
    JourneyRequests(prev, next) \union SegmentRequests(prev, next) \union ItemRequests(prev, next)
=============================================================================
