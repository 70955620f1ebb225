----------------------------- MODULE JourneyPages -----------------------------
(***************************************************************************)
(* The pages of the web application over the Journey document: routes, the *)
(* local state of the page component that is mounted, and the commits that *)
(* are still under way while the person goes on.                           *)
(*                                                                         *)
(* Only the page that creates a Journey waits for its commit; everywhere   *)
(* else the person may edit, navigate and commit again before an answer.   *)
(* A commit sends its requests, the difference between the document on the *)
(* page and the edited one, then reads the server's document, and the page *)
(* shows that: with what other commits and other devices have done, and    *)
(* older than what the page shows already if another commit read later and *)
(* ended first.  (Here the requests of a commit that fails end with it,    *)
(* and the reads of a load are one step: WebJourneyClient, which has no    *)
(* pages, follows late requests, single reads, sessions and several loads  *)
(* of the application.)                                                    *)
(*                                                                         *)
(* A component keeps its local state as long as the same component stays   *)
(* mounted, also when the Journey it is given changes.                     *)
(***************************************************************************)
EXTENDS JourneySave

CONSTANTS
    JourneyIds, SegmentIds, ItemIds,        \* what runtime.id() may give
    JourneyInputs, SegmentInputs, ItemInputs,   \* what a person may type
    Elsewhere,      \* what may be edited on another device
    MaxCommits,     \* bound on the commits under way,
    MaxEdits        \* and on all edits, here and elsewhere

\* An edit such as forms and buttons give: the form of a segment offers its two
\* kinds, a segment moves by one place.
Offered(e) ==
    /\ e.op \in EditOps
    /\ e.op \in {"create", "update", "status", "delete"} => e.id = e.j
    /\ e.op = "status" => e.in \in Statuses
    /\ e.op \in {"add_segment", "change_segment"} => e.in.kind \in {"stay", "move"}
    /\ e.op = "add_segment" => e.id \in SegmentIds
    /\ e.op = "move_segment" => e.in \in {-1, 1}
    /\ e.op = "pack" => e.in \in Int

ASSUME InputsAssumption == \A in \in SegmentInputs : in.kind \in {"stay", "move"}
ASSUME ElsewhereAssumption == \A e \in Elsewhere : Offered(e)
ASSUME FirstPageAssumption ==
    parseJourneyData(FirstDocument) /\ \A s \in FirstDocument.segments : s.id \in SegmentIds
\* A reorder parks the segments that it does not know behind all others.
ASSUME SegmentIdsAssumption == IsFiniteSet(SegmentIds) /\ Cardinality(SegmentIds) <= Parking

VARIABLES
    data, route, ui,    \* of JourneyDataProvider, of the router, of the page
    commits,            \* the commits under way
    stored,             \* the server's document
    given               \* number of edits so far, here and elsewhere

local == <<data, route, ui>>
pagesVars == <<local, commits, stored, given>>

Route(name, j) == [name |-> name, j |-> j]
Library == Route("journeys", None)
Routes == {Library, Route("journey-new", None)}
          \union {Route(n, j) : n \in {"journey", "timeline", "packing"}, j \in JourneyIds}

\* The component that app.tsx renders for a route.
PageFor(r, d) == IF r.j # None /\ ~JourneyExists(d, r.j) THEN "not-found" ELSE r.name

\* The local state of a component.  Of what the form was filled from is kept
\* beside the identifier that a submit will use.
Blank(form, from) ==
    [editing |-> FALSE, confirming |-> FALSE, saving |-> FALSE, form |-> form, target |-> None, from |-> from]

EmptyJourney == [name |-> "", start |-> NoDate, end |-> NoDate]
EmptySegment(kind) == [kind |-> kind, name |-> "", start |-> NoDate, end |-> NoDate]
EmptyItem == [label |-> "", qty |-> 1]
JourneyInput(r) == [name |-> r.name, start |-> r.start, end |-> r.end]
SegmentInput(s) == [kind |-> s.kind, name |-> s.name, start |-> s.start, end |-> s.end]
ItemInput(p) == [label |-> p.label, qty |-> p.qty]

Mounted(page, r, d) ==
    CASE page = "journey-new" -> Blank(EmptyJourney, None)
      [] page = "journey" -> Blank(JourneyInput(WithId(d.journeys, r.j)), r.j)
      [] OTHER -> Blank(None, None)

PagesInit ==
    /\ data = FirstDocument /\ stored = FirstDocument
    /\ route = Library
    /\ ui = Blank(None, None)
    /\ commits = {} /\ given = 0

Page == PageFor(route, data)
J == route.j

\* The page after a change of the document or of the route: the component
\* stays, or it is replaced and its commits can no longer reach it.
Show(d, r, next, left) ==
    /\ data' = d /\ route' = r
    /\ IF PageFor(r, d) = Page
       THEN ui' = next /\ commits' = left
       ELSE ui' = Mounted(PageFor(r, d), r, d) /\ commits' = {[c EXCEPT !.live = FALSE] : c \in left}

\* AppLink, and the browser's back and forward buttons.
Navigate(r) == r # route /\ Show(data, r, ui, commits) /\ UNCHANGED <<stored, given>>

\* A step that changes nothing but the state of the component.
Locally(next) == ui' = next /\ UNCHANGED <<data, route, commits, stored, given>>

-----------------------------------------------------------------------------
(***************************************************************************)
(* Edits                                                                   *)
(***************************************************************************)
EditHere(op, id, in) == [op |-> op, j |-> J, id |-> id, in |-> in, live |-> TRUE]

IdsIn(d) == {r.id : r \in d.journeys \union d.segments \union d.packing}
UsedIds == IdsIn(data) \union IdsIn(stored) \union {c.id : c \in commits}
           \union UNION {IdsIn(c.doc) : c \in commits}

Numbers == 1..MaxCommits

\* A commit is an edit with the number of its task, the requests that it has
\* yet to send, whether they are answered and the reads have begun, and what
\* was read.
UnderWay(e, todo) ==
    [n |-> CHOOSE n \in Numbers : \A c \in commits : c.n # n,
     op |-> e.op, j |-> e.j, id |-> e.id, in |-> e.in, live |-> e.live,
     todo |-> todo, read |-> FALSE, doc |-> EmptyDocument]

\* commit of journey-data.tsx, from its call to the first await.
Commit(e, next) ==
    /\ Cardinality(commits) < MaxCommits
    /\ given < MaxEdits /\ given' = given + 1
    /\ Possible(e, data)
    /\ commits' = commits \union {UnderWay(e, Difference(data, Edited(e, data)))}
    /\ ui' = next /\ UNCHANGED <<data, route, stored>>

-----------------------------------------------------------------------------
(***************************************************************************)
(* JourneyEditorPage, JourneyOverviewPage                                  *)
(***************************************************************************)
TypeJourney(in) ==
    /\ Page = "journey-new" \/ (Page = "journey" /\ ui.editing)
    /\ Locally([ui EXCEPT !.form = in])

SubmitNew(id) ==
    /\ Page = "journey-new" /\ ~ui.saving /\ id \in JourneyIds \ UsedIds
    /\ Commit([EditHere("create", id, ui.form) EXCEPT !.j = id], [ui EXCEPT !.saving = TRUE])

OpenEditor ==
    /\ Page = "journey" /\ ~ui.editing
    /\ Locally([ui EXCEPT !.editing = TRUE])

CloseEditor ==
    /\ Page = "journey" /\ ui.editing
    /\ Locally([ui EXCEPT !.editing = FALSE])

SaveEdit == Page = "journey" /\ ui.editing /\ Commit(EditHere("update", J, ui.form), ui)

\* archive and advanceStatus; the second is not offered in the archive.
StatusChoices(status) ==
    {IF status = "archived" THEN "planning" ELSE "archived"}
    \union (CASE status = "planning" -> {"active"} [] status = "active" -> {"completed"}
              [] status = "completed" -> {"planning"} [] OTHER -> {})

SetStatus(status) ==
    /\ Page = "journey" /\ ~ui.editing
    /\ status \in StatusChoices(WithId(data.journeys, J).status)
    /\ Commit(EditHere("status", J, status), ui)

AskRemoval ==
    /\ Page = "journey" /\ (ui.editing => ui.confirming)
    /\ Locally([ui EXCEPT !.confirming = ~@])

Remove == Page = "journey" /\ ui.confirming /\ Commit(EditHere("delete", J, None), ui)

-----------------------------------------------------------------------------
(***************************************************************************)
(* TimelinePage, PackingPage                                               *)
(***************************************************************************)

\* Mutant: a form for something new keeps the identifier of the last one.
Draft_KeepsTarget(form, id) ==
    [ui EXCEPT !.form = form, !.from = id, !.target = IF id = None THEN @ ELSE id]

\* begin
Draft(form, id) == [ui EXCEPT !.form = form, !.from = id, !.target = id]

BeginSegment(s) ==
    /\ Page = "timeline" /\ s \in segmentsForJourney(data, J)
    /\ Locally(Draft(SegmentInput(s), s.id))

BeginNewSegment(kind) ==
    /\ Page = "timeline"
    /\ Locally(Draft(EmptySegment(kind), None))

TypeSegment(in) ==
    /\ Page = "timeline" /\ ui.form # None
    /\ Locally([ui EXCEPT !.form = in])

SubmitSegment(id) ==
    /\ Page = "timeline" /\ ui.form # None
    /\ IF ui.target # None THEN id = ui.target /\ Commit(EditHere("change_segment", id, ui.form), ui)
       ELSE id \in SegmentIds \ UsedIds /\ Commit(EditHere("add_segment", id, ui.form), ui)

Reorder(id, direction) ==
    /\ Page = "timeline"
    /\ OwnedSegment(data, J, id)
    /\ LET S == segmentsForJourney(data, J) IN
       IndexIn(S, WithId(S, id)) + direction \in 0..(Cardinality(S) - 1)
    /\ Commit(EditHere("move_segment", id, direction), ui)

DropSegment(id) == Page = "timeline" /\ Commit(EditHere("delete_segment", id, None), ui)

BeginItem(p) ==
    /\ Page = "packing" /\ p \in packingForJourney(data, J)
    /\ Locally(Draft(ItemInput(p), p.id))

BeginNewItem ==
    /\ Page = "packing"
    /\ Locally(Draft(EmptyItem, None))

TypeItem(in) ==
    /\ Page = "packing" /\ ui.form # None
    /\ Locally([ui EXCEPT !.form = in])

SubmitItem(id) ==
    /\ Page = "packing" /\ ui.form # None
    /\ IF ui.target # None THEN id = ui.target /\ Commit(EditHere("change_item", id, ui.form), ui)
       ELSE id \in ItemIds \ UsedIds /\ Commit(EditHere("add_item", id, ui.form), ui)

\* The check box of a single thing, the two buttons of several.
Pack(p, n) ==
    /\ Page = "packing" /\ p \in packingForJourney(data, J)
    /\ n \in (IF p.qty = 1 THEN {0, 1} \ {p.packed} ELSE {p.packed - 1, p.packed + 1} \intersect 0..p.qty)
    /\ Commit(EditHere("pack", p.id, n), ui)

DropItem(id) == Page = "packing" /\ Commit(EditHere("delete_item", id, None), ui)

\* The close and cancel buttons leave the identifier where it is.
CancelDraft ==
    /\ Page \in {"timeline", "packing"} /\ ui.form # None
    /\ Locally([ui EXCEPT !.form = None])

-----------------------------------------------------------------------------
(***************************************************************************)
(* The end of a commit                                                     *)
(***************************************************************************)

\* What the handler does with its own component.
Handled(e) ==
    CASE e.op = "create" -> [ui EXCEPT !.saving = FALSE]
      [] e.op = "update" -> [ui EXCEPT !.editing = FALSE]
      [] e.op \in {"add_segment", "change_segment", "add_item", "change_item"} ->
            [ui EXCEPT !.form = None, !.target = None]
      [] OTHER -> ui

\* Creating and deleting a Journey navigate, wherever the person is by then.
RouteAfter(e) ==
    CASE e.op = "create" -> Route("journey", e.id)
      [] e.op = "delete" -> Library
      [] OTHER -> route

\* The server carries out the next request, or the reads of a reorder.
Carry(c) ==
    /\ c \in commits
    /\ \E q \in c.todo :
          /\ \A r \in c.todo : q.stage <= r.stage
          /\ Outcome(q, stored) = "ok"
          /\ IF Unchecked(q, stored)
             THEN /\ commits' = (commits \ {c}) \union {[c EXCEPT !.todo = (@ \ {q}) \union {Checked(q, stored)}]}
                  /\ UNCHANGED stored
             ELSE /\ commits' = (commits \ {c}) \union {[c EXCEPT !.todo = @ \ {q}]}
                  /\ stored' = Applied(q, stored)
    /\ UNCHANGED <<local, given>>

\* The load at the end of a save.
Reload(c) ==
    /\ c \in commits /\ c.todo = {} /\ ~c.read
    /\ commits' = (commits \ {c}) \union {[c EXCEPT !.read = TRUE, !.doc = stored]}
    /\ UNCHANGED <<local, stored, given>>

\* The page shows what the load brought.
Succeed(c) ==
    /\ c \in commits /\ c.read
    /\ Show(c.doc, RouteAfter(c), IF c.live THEN Handled(c) ELSE ui, commits \ {c})
    /\ UNCHANGED <<stored, given>>

\* A request is refused, or the network fails: the storage error is shown and
\* the page stays as it is, whatever the server has carried out.
FailCommit(c) ==
    /\ c \in commits /\ ~c.read
    /\ commits' = commits \ {c}
    /\ ui' = IF c.live /\ c.op = "create" THEN [ui EXCEPT !.saving = FALSE] ELSE ui
    /\ UNCHANGED <<data, route, stored, given>>

\* Another device of the same person makes an edit of its own.
EditElsewhere(e) ==
    /\ given < MaxEdits /\ given' = given + 1
    /\ Possible(e, stored) /\ (e.op \in {"create", "add_segment", "add_item"} => e.id \notin UsedIds)
    /\ \E q \in Difference(stored, Edited(e, stored)) :
          /\ q.kind # "reorder_segment" /\ Outcome(q, stored) = "ok"
          /\ stored' = Applied(q, stored)
    /\ UNCHANGED <<local, commits>>

-----------------------------------------------------------------------------
PagesNext ==
    \/ \E r \in Routes : Navigate(r)
    \/ \E in \in JourneyInputs : TypeJourney(in)
    \/ \E id \in JourneyIds : SubmitNew(id)
    \/ OpenEditor \/ CloseEditor \/ SaveEdit \/ AskRemoval \/ Remove
    \/ \E status \in Statuses : SetStatus(status)
    \/ \E s \in data.segments : BeginSegment(s)
    \/ \E kind \in {"stay", "move"} : BeginNewSegment(kind)
    \/ \E in \in SegmentInputs : TypeSegment(in)
    \/ \E id \in SegmentIds : SubmitSegment(id) \/ DropSegment(id) \/ Reorder(id, -1) \/ Reorder(id, 1)
    \/ \E p \in data.packing : BeginItem(p) \/ (\E n \in 0..MaxQuantity : Pack(p, n))
    \/ BeginNewItem
    \/ \E in \in ItemInputs : TypeItem(in)
    \/ \E id \in ItemIds : SubmitItem(id) \/ DropItem(id)
    \/ CancelDraft
    \/ \E c \in commits : Carry(c) \/ Reload(c) \/ Succeed(c) \/ FailCommit(c)
    \/ \E e \in Elsewhere : EditElsewhere(e)

PagesSpec == PagesInit /\ [][PagesNext]_pagesVars

-----------------------------------------------------------------------------
(***************************************************************************)
(* Properties                                                              *)
(***************************************************************************)

\* The document holds records of the known identifiers, and a page shows the
\* busy state of a new Journey only while that commit is really running: the
\* editor cannot stay locked after its request has ended.
PagesTypeOK ==
    /\ route \in Routes
    /\ \A r \in data.journeys : r.id \in JourneyIds
    /\ \A s \in data.segments : s.id \in SegmentIds /\ s.journey \in JourneyIds
    /\ \A p \in data.packing : p.id \in ItemIds /\ p.journey \in JourneyIds
    /\ Cardinality(commits) <= MaxCommits
    /\ ui.saving => \E c \in commits : c.live /\ c.op = "create"

\* Nothing checks what a load brings (parseJourneyData has no caller), and yet
\* the page never shows a document that parseJourneyData would refuse: no
\* orphan, no doubled position, no packed quantity above the quantity, although
\* every edit is made on a document that may be old, and a reorder may be
\* overtaken between its reads and its writes.
DocumentStaysValid == parseJourneyData(data)

\* A form on the timeline or the packing page is saved to the object it was
\* filled from, also after a cancel, another form, or the late end of an
\* earlier commit.
DraftKeepsItsTarget ==
    Page \in {"timeline", "packing"} /\ ui.form # None => ui.from = ui.target

RecordsOf(d, j) ==
    <<{r \in d.journeys : r.id = j}, segmentsForJourney(d, j), packingForJourney(d, j)>>

\* The server changes nothing of any Journey but the one whose page a commit was
\* given on, although a page keeps its form when the Journey changes under it.
EditsStayInTheirJourney ==
    [][\A j \in JourneyIds :
          RecordsOf(stored', j) # RecordsOf(stored, j) =>
              given' # given \/ \E c \in commits : c \notin commits' /\ c.j = j]_pagesVars

\* A save finds by itself what was edited, by comparing two documents.  It asks
\* for nothing that the edit is not about: every request names the object of
\* the edit, but for the reorder that follows when a segment comes, goes or
\* moves, also on a timeline that has gaps.
AsksOnlyForTheEdit ==
    \A c \in commits : \A q \in c.todo :
        \/ q.id = c.id
        \/ /\ q.kind = "reorder_segment" /\ q.j = c.j
           /\ c.op \in {"add_segment", "delete_segment", "move_segment"}
=============================================================================
