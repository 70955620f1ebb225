--------------------------- MODULE WebJourneyProofs ---------------------------
(***************************************************************************)
(* The web application, for any Journeys, segments, items and inputs: its  *)
(* client between the pages and the API, with any number of tasks, losses, *)
(* late requests and other devices (SeenInv and RetryInv), and its pages,  *)
(* with any number of commits under way (PagesInv).                        *)
(*                                                                         *)
(* The client.  A request that succeeds makes rows newer, so a row that    *)
(* was read and one that the server has are two states of one row, unless  *)
(* the object was created a second time (reborn): an identifier that is    *)
(* used for the first time cannot have been read, for whatever was read    *)
(* has been with the server (born).  So a request whose version fits finds *)
(* the text that was seen.  The page shows what its own task gave the      *)
(* repository (loader), so that what a save deletes was on the page.  And  *)
(* an update that was carried out is remembered by its identifier until a  *)
(* load shows a newer version, so that it is either recognised or made     *)
(* anew.                                                                   *)
(*                                                                         *)
(* The pages.  Every document that a page gets was the server's at some    *)
(* time, and the server's document always parses.  Positions stay distinct *)
(* although timelines get gaps: a new segment goes behind the last one, a  *)
(* deletion numbers the rest by their places, and a reorder gives distinct *)
(* places to the segments it has read and moves all others out of reach,   *)
(* whatever came or went since.  An edit leaves alone what it is not       *)
(* about, and on a timeline with distinct positions a segment that nobody  *)
(* moved stands in the same place before and after: so the requests that a *)
(* save finds by comparing are about the edit.                             *)
(***************************************************************************)
EXTENDS JourneyPages, WebJourneyClient, FiniteSetTheorems, FunctionTheorems, WellFoundedInduction, TLAPS

\* The columns of the three tables.
JourneyFields == {"id", "name", "start", "end", "status", "ver"}
SegmentFields == {"id", "journey", "pos", "kind", "name", "start", "end", "ver"}
ItemFields == {"id", "journey", "label", "qty", "packed", "ver"}

-----------------------------------------------------------------------------
(***************************************************************************)
(* The web client: what its tasks and requests look like.                  *)
(***************************************************************************)
TaskFields == {"kind", "mount", "next", "todo", "cur", "at", "doc", "reads", "clean"}
RequestFields == {"stage", "kind", "j", "id", "body", "seen", "ver", "cmd", "order"}

\* The requests of a save that are still to be carried out.
HeldBy(k) == k.todo \union ({k.cur} \ {None})

TaskShape(k) ==
    /\ DOMAIN k = TaskFields /\ DOMAIN k.doc = Collections
    /\ \A q \in HeldBy(k) : DOMAIN q = RequestFields
    /\ k.at # "save" => k.todo = {} /\ k.cur = None

Shapes ==
    /\ commands \in Nat /\ mounts \in Nat /\ max \in Scenarios
    /\ DOMAIN page = {"data", "status", "storageError"}
    /\ DOMAIN tasks = Tasks
    /\ \A t \in Tasks : Running(t) => TaskShape(tasks[t])
    /\ \A q \in late : DOMAIN q = RequestFields
    /\ \A j \in DOMAIN pending : pending[j].cmd \in Nat

\* A task goes on as it is, or is over; only that somebody has written
\* meanwhile may be noted.
SameTask(k, n) ==
    /\ DOMAIN n = TaskFields
    /\ n.kind = k.kind /\ n.mount = k.mount /\ n.next = k.next /\ n.todo = k.todo /\ n.cur = k.cur
    /\ n.at = k.at /\ n.doc = k.doc /\ n.reads = k.reads /\ (n.clean = k.clean \/ n.clean = FALSE)
GoesOn(t) == tasks'[t] = None \/ (Running(t) /\ SameTask(tasks[t], tasks'[t]))

\* The fields of a task that goes on.
LEMMA SameShape ==
    ASSUME NEW k, NEW n, TaskShape(k), SameTask(k, n)
    PROVE  TaskShape(n)
  BY DEF TaskShape, SameTask, HeldBy

\* What others write changes no task but for its note of it.
LEMMA DisturbTasks ==
    ASSUME Shapes, NEW own
    PROVE  /\ DOMAIN Disturb(own) = Tasks
           /\ \A t \in Tasks : Disturb(own)[t] = None \/ (Running(t) /\ SameTask(tasks[t], Disturb(own)[t]))
           /\ \A t \in Tasks : t = own => Disturb(own)[t] = tasks[t]
  <1>1. \A t \in Tasks : Running(t) => DOMAIN tasks[t] = TaskFields
    BY DEF Shapes, TaskShape
  <1>2. QED
    BY <1>1 DEF Disturb, SameTask, TaskFields, Running

\* The fields of a request.
LEMMA RequestIs ==
    ASSUME NEW stage, NEW kind, NEW j, NEW id, NEW body, NEW seen
    PROVE  LET q == Request(stage, kind, j, id, body, seen) IN
           /\ DOMAIN q = RequestFields /\ q.stage = stage /\ q.kind = kind /\ q.j = j /\ q.id = id /\ q.body = body
           /\ q.seen = seen /\ q.cmd = 0 /\ q.order = None /\ (kind \in VersionedKinds => q.ver = seen.ver)
  BY DEF Request, RequestFields

\* Where a request of a save comes from.
HasId(S, id) == \E x \in S : x.id = id

JourneyRequest(q, d, n) ==
    \/ \E r \in d.journeys : q = Request(1, "delete_journey", r.id, r.id, None, None)
    \/ \E r \in n.journeys : ~HasId(d.journeys, r.id) /\ q = Request(2, "create_journey", r.id, r.id, JourneyBody(r), None)
    \/ \E r \in n.journeys :
          HasId(d.journeys, r.id) /\ q = Request(2, "update_journey", r.id, r.id, JourneyBody(r), WithId(d.journeys, r.id))

SegmentRequest(q, d, n) ==
    \/ \E s \in d.segments : q = Request(3, "delete_segment", s.journey, s.id, None, None)
    \/ \E s \in n.segments : ~HasId(d.segments, s.id) /\ q = Request(4, "create_segment", s.journey, s.id, SegmentBody(s), None)
    \/ \E s \in n.segments : HasId(d.segments, s.id)
          /\ q = Request(4, "update_segment", s.journey, s.id, SegmentBody(s), WithId(d.segments, s.id))
    \/ \E s \in n.segments : HasId(d.segments, s.id)
          /\ q = Request(5, "reorder_segment", s.journey, s.id, IndexIn(segmentsForJourney(n, s.journey), s), WithId(d.segments, s.id))

ItemRequest(q, d, n) ==
    \/ \E p \in d.packing : q = Request(6, "delete_item", p.journey, p.id, None, None)
    \/ \E p \in n.packing : ~HasId(d.packing, p.id) /\ q = Request(7, "create_item", p.journey, p.id, ItemBody(p), None)
    \/ \E p \in n.packing : HasId(d.packing, p.id)
          /\ q = Request(7, "update_item", p.journey, p.id, ItemBody(p), WithId(d.packing, p.id))
    \/ \E p \in n.packing : HasId(d.packing, p.id)
          /\ q = Request(7, "pack_item", p.journey, p.id, p.packed, WithId(d.packing, p.id))

\* The requests of a save about Journeys.
LEMMA JourneyRequestsAre ==
    ASSUME NEW d, NEW n, NEW q \in JourneyRequests(d, n)
    PROVE  JourneyRequest(q, d, n)
  BY DEF JourneyRequests, JourneyRequest, Changed, Gone, Added, HasId

\* The requests of a save about segments.
LEMMA SegmentRequestsAre ==
    ASSUME NEW d, NEW n, NEW q \in SegmentRequests(d, n)
    PROVE  SegmentRequest(q, d, n)
  <1> DEFINE living == {s \in d.segments : JourneyExists(n, s.journey)}
             A == {Request(3, "delete_segment", s.journey, s.id, None, None) : s \in Gone(living, n.segments)}
             B == {Request(4, "create_segment", s.journey, s.id, SegmentBody(s), None) : s \in Added(d.segments, n.segments)}
             C == {Request(4, "update_segment", s.journey, s.id, SegmentBody(s), WithId(d.segments, s.id)) :
                    s \in Changed(d.segments, n.segments, SegmentBody)}
             D(r) == {Request(5, "reorder_segment", r.id, s.id, IndexIn(segmentsForJourney(n, r.id), s),
                           WithId(d.segments, s.id)) : s \in MovedSegments(d, n, r.id)}
  <1>1. SegmentRequests(d, n) = A \union B \union C \union UNION {D(r) : r \in n.journeys}
    BY DEF SegmentRequests
  <1>2. CASE q \in A
    BY <1>2 DEF Gone, SegmentRequest
  <1>3. CASE q \in B
    BY <1>3 DEF Gone, Added, SegmentRequest, HasId
  <1>4. CASE q \in C
    BY <1>4 DEF Changed, SegmentRequest, HasId
  <1>5. ASSUME NEW r \in n.journeys, q \in D(r) PROVE SegmentRequest(q, d, n)
    <2>1. PICK s \in MovedSegments(d, n, r.id) : q = Request(5, "reorder_segment", r.id, s.id, IndexIn(segmentsForJourney(n, r.id), s),
                           WithId(d.segments, s.id))
      BY <1>5
    <2>2. s \in segmentsForJourney(n, r.id) /\ \E o \in d.segments : o.id = s.id
      BY <2>1 DEF MovedSegments
    <2>3. s \in n.segments /\ s.journey = r.id /\ HasId(d.segments, s.id)
      BY <2>2 DEF segmentsForJourney, HasId
    <2>4. QED
      BY <2>1, <2>3 DEF SegmentRequest
  <1>6. QED
    BY <1>1, <1>2, <1>3, <1>4, <1>5

\* The requests of a save about packing items.
LEMMA ItemRequestsAre ==
    ASSUME NEW d, NEW n, NEW q \in ItemRequests(d, n)
    PROVE  ItemRequest(q, d, n)
  <1> DEFINE living == {p \in d.packing : JourneyExists(n, p.journey)}
             A == {Request(6, "delete_item", p.journey, p.id, None, None) : p \in Gone(living, n.packing)}
             B == {Request(7, "create_item", p.journey, p.id, ItemBody(p), None) : p \in Added(d.packing, n.packing)}
             defined == {p \in n.packing : \E s \in d.packing : s.id = p.id /\ ItemBody(s) # ItemBody(p)}
             packed == {p \in n.packing : \E s \in d.packing : s.id = p.id /\ s.packed # p.packed}
             C == {Request(7, "update_item", p.journey, p.id, ItemBody(p), WithId(d.packing, p.id)) : p \in defined}
             D == {Request(7, "pack_item", p.journey, p.id, p.packed, WithId(d.packing, p.id)) : p \in packed \ defined}
  <1>1. ItemRequests(d, n) = A \union B \union C \union D
    BY DEF ItemRequests, Changed
  <1>2. CASE q \in A
    BY <1>2 DEF Gone, ItemRequest
  <1>3. CASE q \in B
    BY <1>3 DEF Gone, Added, ItemRequest, HasId
  <1>4. CASE q \in C
    BY <1>4 DEF ItemRequest, HasId
  <1>5. CASE q \in D
    BY <1>5 DEF ItemRequest, HasId
  <1>6. QED
    BY <1>1, <1>2, <1>3, <1>4, <1>5

\* A request of a save has no command identifier and no order yet.
LEMMA DifferenceShape ==
    ASSUME NEW d, NEW n, NEW q \in Difference(d, n)
    PROVE  DOMAIN q = RequestFields /\ q.cmd = 0 /\ q.order = None
  <1>1. CASE q \in JourneyRequests(d, n)
    BY <1>1, JourneyRequestsAre, RequestIs DEF JourneyRequest
  <1>2. CASE q \in SegmentRequests(d, n)
    BY <1>2, SegmentRequestsAre, RequestIs DEF SegmentRequest
  <1>3. CASE q \in ItemRequests(d, n)
    BY <1>3, ItemRequestsAre, RequestIs DEF ItemRequest
  <1>4. QED
    BY <1>1, <1>2, <1>3 DEF Difference

\* The fields of a task that begins.
LEMMA TaskIs ==
    ASSUME NEW kind, NEW next, NEW todo, NEW clean
    PROVE  LET k == Task(kind, next, todo, clean) IN
           /\ DOMAIN k = TaskFields /\ DOMAIN k.doc = Collections /\ k.doc = EmptyDocument /\ k.kind = kind
           /\ k.todo = todo /\ k.cur = None /\ k.mount = mounts /\ k.next = next /\ k.clean = clean /\ k.reads = {}
           /\ k.at = IF kind = "save" THEN "save" ELSE "list"
  BY DEF Task, TaskFields, EmptyDocument, Collections, Columns

\* The tasks of a scenario are tasks.
LEMMA MyTasks ==
    ASSUME Shapes
    PROVE  max.tasks \subseteq Tasks
  BY ScenariosAssumption DEF Shapes

\* What a step has to keep of the shapes.
LEMMA ShapesKept ==
    ASSUME Shapes, commands' \in Nat, mounts' \in Nat, max' = max,
           DOMAIN page' = {"data", "status", "storageError"}, DOMAIN tasks' = Tasks,
           \A u \in Tasks : GoesOn(u) \/ (tasks'[u] # None => TaskShape(tasks'[u])),
           \A q \in late' : q \in late \/ DOMAIN q = RequestFields,
           \A j \in DOMAIN pending' : pending'[j].cmd \in Nat
    PROVE  Shapes'
  <1>1. \A u \in Tasks : tasks'[u] # None => TaskShape(tasks'[u])
    BY SameShape DEF GoesOn, Shapes
  <1>2. QED
    BY <1>1 DEF Shapes, Running

\* Tasks that a step leaves alone.
LEMMA Unmoved ==
    ASSUME Shapes, UNCHANGED tasks
    PROVE  DOMAIN tasks' = Tasks /\ \A u \in Tasks : GoesOn(u)
  <1>1. \A u \in Tasks : Running(u) => SameTask(tasks[u], tasks[u])
    BY DEF Shapes, TaskShape, SameTask
  <1>2. QED
    BY <1>1 DEF Shapes, GoesOn, Running

\* A task that is set, with the others as they are.
LEMMA OneTaskSet ==
    ASSUME Shapes, NEW t \in Tasks, NEW k, tasks' = [tasks EXCEPT ![t] = k]
    PROVE  /\ DOMAIN tasks' = Tasks /\ tasks'[t] = k
           /\ \A u \in Tasks \ {t} : GoesOn(u) /\ tasks'[u] = tasks[u]
  <1>1. \A u \in Tasks : Running(u) => SameTask(tasks[u], tasks[u])
    BY DEF Shapes, TaskShape, SameTask
  <1>2. QED
    BY <1>1 DEF Shapes, GoesOn, Running

\* The end of a task by an error.
LEMMA FailStep ==
    ASSUME Shapes, NEW t \in Tasks, NEW b, Fail(t, b)
    PROVE  /\ DOMAIN tasks' = Tasks /\ tasks'[t] = None /\ \A u \in Tasks : GoesOn(u)
           /\ DOMAIN page' = {"data", "status", "storageError"} /\ page'.data = page.data
           /\ page'.status = page.status \/ page'.status = "error"
           /\ auth' = auth \/ auth' = "anonymous"
           /\ UNCHANGED <<current, pending, loader, mounts>>
  <1>1. DOMAIN tasks' = Tasks /\ tasks'[t] = None /\ \A u \in Tasks \ {t} : GoesOn(u)
    BY OneTaskSet DEF Fail
  <1>2. QED
    BY <1>1 DEF Fail, GoesOn, Shapes, repository

\* The shapes at the start.
LEMMA InitShapes == Init => Shapes
  BY DEF Init, Shapes, Running, Loading

\* Login and Retry begin a load.
LEMMA LoginStep ==
    ASSUME Shapes, NEW t \in Tasks, Login(t) \/ Retry(t)
    PROVE  /\ Shapes' /\ ~Running(t) /\ \A u \in Tasks \ {t} : GoesOn(u)
           /\ tasks'[t].todo = {} /\ tasks'[t].cur = None /\ tasks'[t].doc = EmptyDocument /\ tasks'[t].at = "list"
           /\ tasks'[t].mount = mounts' /\ tasks'[t].kind = "load"
  <1> DEFINE k == Task("load", None, {}, FALSE)
  <1> DEFINE n == [k EXCEPT !.mount = mounts + 1]
  <1>1. /\ DOMAIN k = TaskFields /\ DOMAIN k.doc = Collections /\ k.doc = EmptyDocument /\ k.kind = "load"
        /\ k.todo = {} /\ k.cur = None /\ k.mount = mounts /\ k.at = "list"
    BY DEF Task, TaskFields, EmptyDocument, Collections, Columns
  <1> HIDE DEF k
  <1>2. /\ DOMAIN n = TaskFields /\ DOMAIN n.doc = Collections /\ n.doc = EmptyDocument /\ n.kind = "load"
        /\ n.todo = {} /\ n.cur = None /\ n.mount = mounts + 1 /\ n.at = "list"
    BY <1>1 DEF TaskFields
  <1>3. TaskShape(k) /\ TaskShape(n)
    BY <1>1, <1>2 DEF TaskShape, HeldBy
  <1> HIDE DEF n
  <1>4. CASE Login(t)
    <2>1. tasks' = [tasks EXCEPT ![t] = n] /\ mounts' = mounts + 1 /\ page' = Loading /\ UNCHANGED <<commands, max, late, pending>>
      BY <1>4 DEF Login, n, k, bounds, identifiers, repository
    <2>2. DOMAIN tasks' = Tasks /\ tasks'[t] = n /\ \A u \in Tasks \ {t} : GoesOn(u)
      BY <2>1, OneTaskSet
    <2>3. Shapes'
      BY <2>1, <2>2, <1>3, ShapesKept DEF Loading, Shapes
    <2>4. QED
      BY <1>2, <1>4, <2>1, <2>2, <2>3 DEF Login
  <1>5. CASE Retry(t)
    <2>1. tasks' = [tasks EXCEPT ![t] = k] /\ mounts' = mounts /\ page' = [page EXCEPT !.status = "loading"]
          /\ UNCHANGED <<commands, max, late, pending>>
      BY <1>5 DEF Retry, k, bounds, identifiers, repository
    <2>2. DOMAIN tasks' = Tasks /\ tasks'[t] = k /\ \A u \in Tasks \ {t} : GoesOn(u)
      BY <2>1, OneTaskSet
    <2>3. Shapes'
      BY <2>1, <2>2, <1>3, ShapesKept DEF Shapes
    <2>4. QED
      BY <1>1, <1>5, <2>1, <2>2, <2>3 DEF Retry
  <1>6. QED
    BY <1>4, <1>5

\* The request p of the edit, as the save notes it.
Marks(q, p) ==
    IF p.kind \notin DeleteKinds THEN q = p
    ELSE q = [p EXCEPT !.body =
                  [shown |-> \E r \in page.data.journeys \union page.data.segments \union page.data.packing : r.id = p.id,
                   own |-> loader = mounts]]

\* StartCommit begins a save with the requests of the edit.
LEMMA StartCommitStep ==
    ASSUME Shapes, NEW t \in Tasks, NEW e \in max.choice, StartCommit(t, e)
    PROVE  /\ Shapes' /\ ~Running(t) /\ \A u \in Tasks \ {t} : GoesOn(u)
           /\ tasks'[t].cur = None /\ tasks'[t].doc = EmptyDocument /\ tasks'[t].at = "save"
           /\ tasks'[t].mount = mounts
           /\ \A q \in tasks'[t].todo : \E p \in Difference(current, Edited(e, page.data)) : Marks(q, p)
  <1> DEFINE next == Edited(e, page.data)
             shown == page.data.journeys \union page.data.segments \union page.data.packing
             Marked(q) == IF q.kind \in DeleteKinds
                          THEN [q EXCEPT !.body = [shown |-> \E r \in shown : r.id = q.id, own |-> loader = mounts]] ELSE q
             todo == {Marked(q) : q \in Difference(current, next)}
             k == Task("save", next, todo, server = current /\ page.data = current)
  <1>1. tasks' = [tasks EXCEPT ![t] = k] /\ ~Running(t) /\ UNCHANGED <<commands, max, late, mounts, page, pending>>
    BY DEF StartCommit, provider, repository
  <1>2. /\ DOMAIN k = TaskFields /\ DOMAIN k.doc = Collections /\ k.doc = EmptyDocument
        /\ k.todo = todo /\ k.cur = None /\ k.mount = mounts /\ k.at = "save"
    BY TaskIs
  <1>3. \A q \in todo : DOMAIN q = RequestFields
    BY DifferenceShape DEF RequestFields
  <1>4. \A q \in todo : \E p \in Difference(current, next) : Marks(q, p)
    BY DEF Marks
  <1> HIDE DEF k, todo
  <1>5. TaskShape(k)
    BY <1>2, <1>3 DEF TaskShape, HeldBy
  <1>6. DOMAIN tasks' = Tasks /\ tasks'[t] = k /\ \A u \in Tasks \ {t} : GoesOn(u)
    BY <1>1, OneTaskSet
  <1>7. Shapes'
    BY <1>1, <1>5, <1>6, ShapesKept DEF Shapes
  <1>8. QED
    BY <1>1, <1>2, <1>4, <1>6, <1>7

\* The request q leaves for the server.
Sends(t, q) ==
    /\ tasks'[t].todo = tasks[t].todo \ {q}
    /\ IF q.kind = "update_journey"
       THEN /\ tasks'[t].cur = [q EXCEPT !.cmd = CommandFor(q)]
            /\ pending' = [j \in DOMAIN pending \union {q.j} |->
                  IF j = q.j THEN [cmd |-> CommandFor(q), sig |-> Signature(q)] ELSE pending[j]]
            /\ attempts' = Repeated(q) \union {[j |-> q.j, cmd |-> CommandFor(q), sig |-> Signature(q)]}
            /\ commands' = IF CommandFor(q) > commands THEN CommandFor(q) ELSE commands
       ELSE tasks'[t].cur = q /\ UNCHANGED <<pending, commands, attempts>>

\* Where a task is, apart from its requests.
SamePlace(k, n) ==
    /\ DOMAIN n = TaskFields /\ n.kind = k.kind /\ n.mount = k.mount /\ n.next = k.next
    /\ n.at = k.at /\ n.doc = k.doc /\ n.reads = k.reads

\* Send takes one request of the earliest stage.
LEMMA SendStep ==
    ASSUME Shapes, NEW t \in Tasks, Send(t)
    PROVE  /\ Shapes' /\ Running(t) /\ tasks[t].at = "save" /\ tasks[t].cur = None
           /\ \A u \in Tasks \ {t} : GoesOn(u)
           /\ SamePlace(tasks[t], tasks'[t]) /\ tasks'[t].clean = tasks[t].clean
           /\ \E q \in tasks[t].todo : Sends(t, q) /\ \A r \in tasks[t].todo : q.stage <= r.stage
  <1> DEFINE k == tasks[t]
  <1>1. Running(t) /\ k.at = "save" /\ k.cur = None /\ TaskShape(k)
    BY DEF Send, Shapes
  <1>2. PICK q \in k.todo : 
          /\ \A r \in k.todo : q.stage <= r.stage
          /\ IF q.kind = "update_journey"
             THEN /\ pending' = [j \in DOMAIN pending \union {q.j} |->
                        IF j = q.j THEN [cmd |-> CommandFor(q), sig |-> Signature(q)] ELSE pending[j]]
                  /\ attempts' = Repeated(q) \union {[j |-> q.j, cmd |-> CommandFor(q), sig |-> Signature(q)]}
                  /\ commands' = IF CommandFor(q) > commands THEN CommandFor(q) ELSE commands
                  /\ tasks' = [tasks EXCEPT ![t].todo = @ \ {q}, ![t].cur = [q EXCEPT !.cmd = CommandFor(q)]]
             ELSE /\ tasks' = [tasks EXCEPT ![t].todo = @ \ {q}, ![t].cur = q]
                  /\ UNCHANGED <<pending, commands, attempts>>
    BY DEF Send
  <1>3. UNCHANGED <<page, mounts, max, late>>
    BY DEF Send, provider
  <1> DEFINE c == IF q.kind = "update_journey" THEN [q EXCEPT !.cmd = CommandFor(q)] ELSE q
             n == [k EXCEPT !.todo = k.todo \ {q}, !.cur = c]
  <1>4. tasks' = [tasks EXCEPT ![t] = n]
    BY <1>2 DEF Shapes
  <1>5. DOMAIN c = RequestFields
    BY <1>1, <1>2 DEF TaskShape, HeldBy
  <1> HIDE DEF c
  <1>6. /\ DOMAIN n = TaskFields /\ n.kind = k.kind /\ n.mount = k.mount /\ n.next = k.next /\ n.clean = k.clean
        /\ n.at = k.at /\ n.doc = k.doc /\ n.reads = k.reads /\ n.todo = k.todo \ {q} /\ n.cur = c
    BY <1>1 DEF TaskShape, TaskFields
  <1> HIDE DEF n
  <1>7. TaskShape(n)
    BY <1>1, <1>5, <1>6 DEF TaskShape, HeldBy
  <1>8. DOMAIN tasks' = Tasks /\ tasks'[t] = n /\ \A u \in Tasks \ {t} : GoesOn(u)
    BY <1>4, OneTaskSet
  <1>9. CommandFor(q) \in Nat
    BY DEF CommandFor, Shapes
  <1>10. commands' \in Nat /\ \A j \in DOMAIN pending' : pending'[j].cmd \in Nat
    <2>1. CASE q.kind = "update_journey"
      BY <1>2, <1>9, <2>1 DEF Shapes
    <2>2. CASE q.kind # "update_journey"
      BY <1>2, <2>2 DEF Shapes
    <2>3. QED
      BY <2>1, <2>2
  <1>11. Shapes'
    BY <1>3, <1>7, <1>8, <1>10, ShapesKept DEF Shapes
  <1>12. SamePlace(k, tasks'[t]) /\ tasks'[t].clean = k.clean
    BY <1>6, <1>8 DEF SamePlace
  <1>13. Sends(t, q)
    BY <1>2, <1>6, <1>8 DEF Sends, c
  <1>14. QED
    BY <1>1, <1>2, <1>8, <1>11, <1>12, <1>13

\* The server has done what was asked, or nothing.
Served(q) == ServerDoes(q) \/ UNCHANGED contents

\* Answered: the server does what it was asked or nothing, and the task goes on
\* without the request or ends.
LEMMA AnsweredStep ==
    ASSUME Shapes, NEW t \in Tasks, Answered(t)
    PROVE  /\ Shapes' /\ Running(t) /\ tasks[t].cur # None /\ \A u \in Tasks \ {t} : GoesOn(u)
           /\ Served(tasks[t].cur)
           /\ \/ GoesOn(t) /\ tasks'[t] = None
              \/ /\ ServerDoes(tasks[t].cur) /\ Answer(tasks[t].cur) = "ok" /\ UNCHANGED <<page, auth>>
                 /\ SamePlace(tasks[t], tasks'[t]) /\ tasks'[t].clean = tasks[t].clean
                 /\ tasks'[t].todo = tasks[t].todo /\ tasks'[t].cur = None
           /\ page'.data = page.data /\ (page'.status = page.status \/ page'.status = "error")
           /\ auth' = auth \/ auth' = "anonymous"
           /\ UNCHANGED <<current, pending, loader, mounts, late, used, commands, attempts, max>>
  <1> DEFINE k == tasks[t]
  <1>1. Running(t) /\ k.cur # None /\ TaskShape(k)
    BY DEF Answered, Shapes
  <1>2. UNCHANGED <<late, used, commands, attempts, max>>
    BY DEF Answered, bounds, identifiers
  <1>3. CASE Answer(k.cur) = "ok" /\ ServerDoes(k.cur) /\ tasks' = [Disturb(t) EXCEPT ![t].cur = None]
             /\ UNCHANGED <<repository, provider>>
    <2> DEFINE n == [k EXCEPT !.cur = None]
    <2>1. UNCHANGED <<current, pending, loader, page, mounts, auth>>
      BY <1>3 DEF repository, provider
    <2>2. DOMAIN tasks' = Tasks /\ tasks'[t] = n /\ \A u \in Tasks \ {t} : GoesOn(u)
      BY <1>3, DisturbTasks DEF GoesOn
    <2>3. /\ DOMAIN n = TaskFields /\ n.kind = k.kind /\ n.mount = k.mount /\ n.next = k.next /\ n.clean = k.clean
          /\ n.at = k.at /\ n.doc = k.doc /\ n.reads = k.reads /\ n.todo = k.todo /\ n.cur = None
      BY <1>1 DEF TaskShape, TaskFields
    <2> HIDE DEF n
    <2>4. TaskShape(n)
      BY <1>1, <2>3 DEF TaskShape, HeldBy
    <2>5. Shapes'
      BY <1>2, <2>1, <2>2, <2>4, ShapesKept DEF Shapes
    <2>6. SamePlace(k, tasks'[t]) /\ tasks'[t].clean = k.clean /\ tasks'[t].todo = k.todo /\ tasks'[t].cur = None
      BY <2>2, <2>3 DEF SamePlace
    <2>7. QED
      BY <1>1, <1>2, <1>3, <2>1, <2>2, <2>5, <2>6 DEF Served
  <1>4. ASSUME NEW b, Fail(t, b), Served(k.cur)
        PROVE  /\ Shapes' /\ \A u \in Tasks \ {t} : GoesOn(u)
               /\ GoesOn(t) /\ tasks'[t] = None
               /\ page'.data = page.data /\ (page'.status = page.status \/ page'.status = "error")
               /\ auth' = auth \/ auth' = "anonymous"
               /\ UNCHANGED <<current, pending, loader, mounts>>
    <2>1. Shapes'
      BY <1>2, <1>4, FailStep, ShapesKept DEF Shapes
    <2>2. QED
      BY <1>4, <2>1, FailStep
  <1>5. \/ Answer(k.cur) = "ok" /\ ServerDoes(k.cur) /\ tasks' = [Disturb(t) EXCEPT ![t].cur = None]
             /\ UNCHANGED <<repository, provider>>
        \/ Fail(t, FALSE) /\ Served(k.cur)
        \/ Fail(t, TRUE) /\ Served(k.cur)
    BY DEF Answered, Served
  <1>6. QED
    BY <1>1, <1>2, <1>3, <1>4, <1>5

\* Unreachable: the task ends, and the server has done what it was asked, or
\* not, or will.
LEMMA UnreachableStep ==
    ASSUME Shapes, NEW t \in Tasks, Unreachable(t)
    PROVE  /\ Shapes' /\ Running(t) /\ tasks[t].cur # None /\ \A u \in Tasks : GoesOn(u)
           /\ tasks'[t] = None
           /\ \/ Served(tasks[t].cur) /\ late' = late
              \/ /\ late' = late \union {tasks[t].cur} /\ Cardinality(late) < max.late
                 /\ UNCHANGED contents
           /\ page'.data = page.data /\ (page'.status = page.status \/ page'.status = "error")
           /\ auth' = auth \/ auth' = "anonymous"
           /\ UNCHANGED <<current, pending, loader, mounts, used, commands, attempts, max>>
  <1> DEFINE k == tasks[t]
  <1>1. Running(t) /\ k.cur # None /\ TaskShape(k) /\ UNCHANGED <<used, commands, attempts, max>>
    BY DEF Unreachable, Shapes, identifiers
  <1>2. DOMAIN k.cur = RequestFields
    BY <1>1 DEF TaskShape, HeldBy
  <1>3. \A q \in late' : q \in late \/ DOMAIN q = RequestFields
    BY <1>2 DEF Unreachable
  <1>4. CASE Fail(t, FALSE)
    <2>1. Shapes'
      BY <1>1, <1>3, <1>4, FailStep, ShapesKept DEF Shapes
    <2>2. \/ Served(k.cur) /\ late' = late
          \/ late' = late \union {k.cur} /\ Cardinality(late) < max.late /\ UNCHANGED contents
      BY DEF Unreachable, Served
    <2>3. QED
      BY <1>1, <1>4, <2>1, <2>2, FailStep
  <1>5. CASE /\ ServerDoes(k.cur)
             /\ tasks' = [Disturb(t) EXCEPT ![t] = None]
             /\ page' = IF Mine(t) THEN [page EXCEPT !.storageError = TRUE] ELSE page
             /\ UNCHANGED <<late, repository, auth, mounts>>
    <2>1. DOMAIN tasks' = Tasks /\ tasks'[t] = None /\ \A u \in Tasks : GoesOn(u)
      BY <1>5, DisturbTasks DEF GoesOn
    <2>2. DOMAIN page' = {"data", "status", "storageError"} /\ page'.data = page.data /\ page'.status = page.status
      BY <1>5 DEF Shapes
    <2>3. UNCHANGED <<current, pending, loader>>
      BY <1>5 DEF repository
    <2>4. Shapes'
      BY <1>1, <1>5, <2>1, <2>2, <2>3, ShapesKept DEF Shapes
    <2>5. QED
      BY <1>1, <1>5, <2>1, <2>2, <2>3, <2>4 DEF Served
  <1>6. QED
    BY <1>4, <1>5 DEF Unreachable

\* LoadFails ends a task and nothing else.
LEMMA LoadFailsStep ==
    ASSUME Shapes, NEW t \in Tasks, LoadFails(t)
    PROVE  /\ Shapes' /\ \A u \in Tasks : GoesOn(u)
           /\ page'.data = page.data /\ (page'.status = page.status \/ page'.status = "error")
           /\ auth' = auth \/ auth' = "anonymous"
           /\ UNCHANGED <<server, receipts, authors, born, reborn, current, pending, loader, mounts, late, used, commands, attempts, max>>
  <1>1. UNCHANGED <<server, receipts, authors, born, reborn, late, used, commands, attempts, max>>
    BY DEF LoadFails, serverVars, contents, identifiers
  <1>2. PICK b : Fail(t, b)
    BY DEF LoadFails
  <1>3. Shapes'
    BY <1>1, <1>2, FailStep, ShapesKept DEF Shapes
  <1>4. QED
    BY <1>1, <1>2, <1>3, FailStep

\* ListJourneys takes the Journeys as they are at the server.
LEMMA ListJourneysStep ==
    ASSUME Shapes, NEW t \in Tasks, ListJourneys(t)
    PROVE  /\ Shapes' /\ Running(t) /\ tasks[t].todo = {} /\ tasks[t].cur = None /\ \A u \in Tasks \ {t} : GoesOn(u)
           /\ tasks'[t].todo = {} /\ tasks'[t].cur = None /\ tasks'[t].at = "read"
           /\ tasks'[t].mount = tasks[t].mount /\ tasks'[t].next = tasks[t].next /\ tasks'[t].kind = tasks[t].kind
           /\ tasks'[t].clean = tasks[t].clean
           /\ tasks'[t].reads = {"segments", "packing"} \X {r.id : r \in server.journeys}
           /\ tasks'[t].doc.journeys = server.journeys
           /\ tasks'[t].doc.segments = tasks[t].doc.segments /\ tasks'[t].doc.packing = tasks[t].doc.packing
           /\ UNCHANGED <<server, receipts, authors, born, reborn, current, pending, loader, page, auth, mounts, late, used, commands, attempts, max>>
  <1> DEFINE k == tasks[t]
             R == {"segments", "packing"} \X {r.id : r \in server.journeys}
             d == [k.doc EXCEPT !.journeys = server.journeys]
             n == [k EXCEPT !.at = "read", !.doc = d, !.reads = R]
  <1>1. Running(t) /\ TaskShape(k) /\ k.todo = {} /\ k.cur = None
    BY DEF ListJourneys, Shapes, TaskShape
  <1>2. UNCHANGED <<server, receipts, authors, born, reborn, current, pending, loader, page, auth, mounts, late, used, commands, attempts, max>>
    BY DEF ListJourneys, serverVars, contents, repository, provider, bounds, identifiers
  <1>3. tasks' = [tasks EXCEPT ![t] = n]
    BY DEF ListJourneys, Shapes
  <1>4. DOMAIN d = Collections /\ d.journeys = server.journeys /\ d.segments = k.doc.segments /\ d.packing = k.doc.packing
    BY <1>1 DEF TaskShape, Collections, Columns
  <1> HIDE DEF d, R
  <1>5. /\ DOMAIN n = TaskFields /\ n.kind = k.kind /\ n.mount = k.mount /\ n.next = k.next /\ n.clean = k.clean
        /\ n.at = "read" /\ n.doc = d /\ n.reads = R /\ n.todo = k.todo /\ n.cur = k.cur
    BY <1>1 DEF TaskShape, TaskFields
  <1> HIDE DEF n
  <1>6. TaskShape(n)
    BY <1>1, <1>4, <1>5 DEF TaskShape, HeldBy
  <1>7. DOMAIN tasks' = Tasks /\ tasks'[t] = n /\ \A u \in Tasks \ {t} : GoesOn(u)
    BY <1>3, OneTaskSet
  <1>8. Shapes'
    BY <1>2, <1>6, <1>7, ShapesKept DEF Shapes
  <1>9. QED
    BY <1>1, <1>2, <1>4, <1>5, <1>7, <1>8 DEF R

\* Read takes one timeline or packing list as it is at the server.
LEMMA ReadStep ==
    ASSUME Shapes, NEW t \in Tasks, NEW r, Read(t, r)
    PROVE  /\ Shapes' /\ Running(t) /\ tasks[t].at = "read" /\ r \in tasks[t].reads
           /\ \A u \in Tasks \ {t} : GoesOn(u)
           /\ \/ GoesOn(t)
              \/ /\ tasks'[t].todo = {} /\ tasks'[t].cur = None /\ tasks'[t].at = "read"
                 /\ tasks'[t].mount = tasks[t].mount /\ tasks'[t].next = tasks[t].next /\ tasks'[t].kind = tasks[t].kind
                 /\ tasks'[t].clean = tasks[t].clean /\ tasks'[t].reads = tasks[t].reads \ {r}
                 /\ JourneyExists(server, r[2])
                 /\ tasks'[t].doc.journeys = tasks[t].doc.journeys
                 /\ IF r[1] = "segments"
                    THEN /\ tasks'[t].doc.segments = tasks[t].doc.segments \union segmentsForJourney(server, r[2])
                         /\ tasks'[t].doc.packing = tasks[t].doc.packing
                    ELSE /\ tasks'[t].doc.packing = tasks[t].doc.packing \union packingForJourney(server, r[2])
                         /\ tasks'[t].doc.segments = tasks[t].doc.segments
           /\ page'.data = page.data /\ (page'.status = page.status \/ page'.status = "error")
           /\ auth' = auth \/ auth' = "anonymous"
           /\ UNCHANGED <<server, receipts, authors, born, reborn, current, pending, loader, mounts, late, used, commands, attempts, max>>
  <1> DEFINE k == tasks[t]
             d == Learned(k.doc, r)
             n == [k EXCEPT !.reads = k.reads \ {r}, !.doc = d]
  <1>1. Running(t) /\ TaskShape(k) /\ k.at = "read" /\ r \in k.reads /\ k.todo = {} /\ k.cur = None
    BY DEF Read, Shapes, TaskShape
  <1>2. UNCHANGED <<server, receipts, authors, born, reborn, late, used, commands, attempts, max>>
    BY DEF Read, serverVars, contents, bounds, identifiers
  <1>3. CASE ~JourneyExists(server, r[2]) /\ Fail(t, FALSE)
    <2>1. Shapes'
      BY <1>2, <1>3, FailStep, ShapesKept DEF Shapes
    <2>2. QED
      BY <1>1, <1>2, <1>3, <2>1, FailStep
  <1>4. CASE JourneyExists(server, r[2]) /\ tasks' = [tasks EXCEPT ![t] = n] /\ UNCHANGED <<repository, provider>>
    <2>1. /\ DOMAIN d = Collections /\ d.journeys = k.doc.journeys
          /\ IF r[1] = "segments"
             THEN d.segments = k.doc.segments \union segmentsForJourney(server, r[2]) /\ d.packing = k.doc.packing
             ELSE d.packing = k.doc.packing \union packingForJourney(server, r[2]) /\ d.segments = k.doc.segments
      BY <1>1 DEF TaskShape, Collections, Columns, Learned
    <2> HIDE DEF d
    <2>2. /\ DOMAIN n = TaskFields /\ n.kind = k.kind /\ n.mount = k.mount /\ n.next = k.next /\ n.clean = k.clean
          /\ n.at = "read" /\ n.doc = d /\ n.reads = k.reads \ {r} /\ n.todo = k.todo /\ n.cur = k.cur
      BY <1>1 DEF TaskShape, TaskFields
    <2> HIDE DEF n
    <2>3. TaskShape(n)
      BY <1>1, <2>1, <2>2 DEF TaskShape, HeldBy
    <2>4. DOMAIN tasks' = Tasks /\ tasks'[t] = n /\ \A u \in Tasks \ {t} : GoesOn(u)
      BY <1>4, OneTaskSet
    <2>5. UNCHANGED <<current, pending, loader, page, auth, mounts>>
      BY <1>4 DEF repository, provider
    <2>6. Shapes'
      BY <1>2, <2>3, <2>4, <2>5, ShapesKept DEF Shapes
    <2>7. QED
      BY <1>1, <1>2, <1>4, <2>1, <2>2, <2>4, <2>5, <2>6
  <1>5. QED
    BY <1>3, <1>4 DEF Read, Shapes

\* FinishLoad hands the document to the repository.
LEMMA FinishLoadStep ==
    ASSUME Shapes, NEW t \in Tasks, FinishLoad(t)
    PROVE  /\ Shapes' /\ Running(t) /\ tasks[t].at = "read" /\ tasks[t].reads = {}
           /\ tasks[t].todo = {} /\ tasks[t].cur = None
           /\ \A u \in Tasks : GoesOn(u) /\ tasks'[t] = None
           /\ current' = tasks[t].doc /\ DOMAIN pending' = {} /\ loader' = tasks[t].mount
           /\ page' = IF Mine(t) THEN Shown(t) ELSE page
           /\ Mine(t) => page'.data = tasks[t].doc
           /\ UNCHANGED <<server, receipts, authors, born, reborn, auth, mounts, late, used, commands, attempts, max>>
  <1> DEFINE k == tasks[t]
  <1>1. Running(t) /\ TaskShape(k) /\ k.at = "read" /\ k.reads = {} /\ k.todo = {} /\ k.cur = None
    BY DEF FinishLoad, Shapes, TaskShape
  <1>2. UNCHANGED <<server, receipts, authors, born, reborn, auth, mounts, late, used, commands, attempts, max>>
    BY DEF FinishLoad, serverVars, contents, bounds, identifiers
  <1>3. DOMAIN tasks' = Tasks /\ tasks'[t] = None /\ \A u \in Tasks : GoesOn(u)
    BY OneTaskSet DEF FinishLoad, GoesOn
  <1>4. DOMAIN page' = {"data", "status", "storageError"} /\ (Mine(t) => page'.data = k.doc)
    BY DEF FinishLoad, Shapes, Shown
  <1>5. current' = k.doc /\ DOMAIN pending' = {} /\ loader' = k.mount /\ page' = IF Mine(t) THEN Shown(t) ELSE page
    BY DEF FinishLoad
  <1>6. Shapes'
    BY <1>2, <1>3, <1>4, <1>5, ShapesKept DEF Shapes
  <1>7. QED
    BY <1>1, <1>2, <1>3, <1>4, <1>5, <1>6

\* The end of a session leaves the tasks alone.
LEMMA SessionStep ==
    ASSUME Shapes, Logout \/ Expire
    PROVE  /\ Shapes' /\ \A u \in Tasks : GoesOn(u)
           /\ auth' = auth \/ auth' = "anonymous"
           /\ UNCHANGED <<tasks, page, server, receipts, authors, born, reborn, current, pending, loader, mounts, late, used, commands, attempts, max>>
  <1>1. /\ auth' = auth \/ auth' = "anonymous"
        /\ UNCHANGED <<tasks, page, server, receipts, authors, born, reborn, current, pending, loader, mounts, late, used, commands, attempts, max>>
    BY DEF Logout, Expire, contents, repository, provider, bounds, identifiers
  <1>2. QED
    BY <1>1, Unmoved, ShapesKept DEF Shapes

\* ArriveLate: the server does what it was asked, or nothing.
LEMMA ArriveLateStep ==
    ASSUME Shapes, NEW q \in late, ArriveLate(q)
    PROVE  /\ Shapes' /\ \A u \in Tasks : GoesOn(u)
           /\ late' = late \ {q} /\ Served(q)
           /\ UNCHANGED <<page, auth, current, pending, loader, mounts, used, commands, attempts, max>>
  <1>1. /\ UNCHANGED <<page, auth, current, pending, loader, mounts, used, commands, attempts, max>>
        /\ late' = late \ {q} /\ Served(q)
        /\ tasks' = Disturb(None) \/ UNCHANGED tasks
    BY DEF ArriveLate, Served, repository, provider, bounds, identifiers
  <1>2. DOMAIN tasks' = Tasks /\ \A u \in Tasks : GoesOn(u)
    BY <1>1, Unmoved, DisturbTasks DEF GoesOn
  <1>3. QED
    BY <1>1, <1>2, ShapesKept DEF Shapes

\* OtherDevice: the server carries out a request of somebody else's edit.
LEMMA OtherDeviceStep ==
    ASSUME Shapes, NEW e, OtherDevice(e)
    PROVE  /\ Shapes' /\ \A u \in Tasks : GoesOn(u)
           /\ \E q \in Difference(server, Edited(e, server)) :
                 /\ q.kind # "reorder_segment" /\ Outcome(q, server) = "ok" /\ server' = Applied(q, server)
                 /\ authors' = Unauthored(q.j)
                 /\ IF q.kind \in CreateKinds THEN Arrives(q) ELSE UNCHANGED <<born, reborn>>
           /\ UNCHANGED <<page, auth, receipts, current, pending, loader, mounts, late, commands, attempts, max>>
  <1>1. /\ UNCHANGED <<page, auth, receipts, current, pending, loader, mounts, late, commands, attempts, max>>
        /\ tasks' = Disturb(None)
        /\ \E q \in Difference(server, Edited(e, server)) :
              /\ q.kind # "reorder_segment" /\ Outcome(q, server) = "ok" /\ server' = Applied(q, server)
              /\ authors' = Unauthored(q.j)
              /\ IF q.kind \in CreateKinds THEN Arrives(q) ELSE UNCHANGED <<born, reborn>>
    BY DEF OtherDevice, repository, provider
  <1>2. DOMAIN tasks' = Tasks /\ \A u \in Tasks : GoesOn(u)
    BY <1>1, DisturbTasks DEF GoesOn
  <1>3. QED
    BY <1>1, <1>2, ShapesKept DEF Shapes

\* The reads of a reorder add the order to the request.
LEMMA CheckedIs ==
    ASSUME NEW q, DOMAIN q = RequestFields, NEW d
    PROVE  LET c == Checked(q, d) IN
           /\ DOMAIN c = RequestFields /\ c.kind = q.kind /\ c.j = q.j /\ c.id = q.id /\ c.body = q.body
           /\ c.seen = q.seen /\ c.ver = q.ver
  BY DEF Checked, RequestFields

\* CheckReorder: the request of the task has its order.
LEMMA CheckReorderStep ==
    ASSUME Shapes, NEW t \in Tasks, CheckReorder(t)
    PROVE  /\ Shapes' /\ Running(t) /\ tasks[t].cur # None /\ \A u \in Tasks \ {t} : GoesOn(u)
           /\ DOMAIN tasks[t].cur = RequestFields /\ tasks[t].cur.kind = "reorder_segment"
           /\ SamePlace(tasks[t], tasks'[t]) /\ tasks'[t].todo = tasks[t].todo
           /\ tasks'[t].cur = Checked(tasks[t].cur, server)
           /\ UNCHANGED <<server, receipts, authors, born, reborn, current, pending, loader, page, auth, mounts, late, used, commands, attempts, max>>
  <1> DEFINE k == tasks[t]
             c == Checked(k.cur, server)
             n == [k EXCEPT !.cur = c]
  <1>1. Running(t) /\ k.cur # None /\ k.cur.kind = "reorder_segment" /\ TaskShape(k)
    BY DEF CheckReorder, Shapes, Unchecked
  <1>2. UNCHANGED <<server, receipts, authors, born, reborn, current, pending, loader, page, auth, mounts, late, used, commands, attempts, max>>
    BY DEF CheckReorder, serverVars, contents, repository, provider, bounds, identifiers
  <1>3. tasks' = [tasks EXCEPT ![t] = n]
    BY DEF CheckReorder, Shapes
  <1>4. DOMAIN k.cur = RequestFields
    BY <1>1 DEF TaskShape, HeldBy
  <1>5. DOMAIN c = RequestFields
    BY <1>4, CheckedIs
  <1> HIDE DEF c
  <1>6. /\ DOMAIN n = TaskFields /\ n.kind = k.kind /\ n.mount = k.mount /\ n.next = k.next
        /\ n.at = k.at /\ n.doc = k.doc /\ n.reads = k.reads /\ n.todo = k.todo /\ n.cur = c
    BY <1>1 DEF TaskShape, TaskFields
  <1> HIDE DEF n
  <1>7. TaskShape(n)
    BY <1>1, <1>5, <1>6 DEF TaskShape, HeldBy
  <1>8. DOMAIN tasks' = Tasks /\ tasks'[t] = n /\ \A u \in Tasks \ {t} : GoesOn(u)
    BY <1>3, OneTaskSet
  <1>9. Shapes'
    BY <1>2, <1>7, <1>8, ShapesKept DEF Shapes
  <1>10. SamePlace(k, tasks'[t]) /\ tasks'[t].todo = k.todo /\ tasks'[t].cur = c
    BY <1>6, <1>8 DEF SamePlace
  <1>11. QED
    BY <1>1, <1>2, <1>4, <1>8, <1>9, <1>10 DEF c

\* CheckLate: so has one that nobody waits for.
LEMMA CheckLateStep ==
    ASSUME Shapes, NEW q \in late, CheckLate(q)
    PROVE  /\ Shapes' /\ \A u \in Tasks : GoesOn(u)
           /\ DOMAIN q = RequestFields /\ q.kind = "reorder_segment"
           /\ late' = (late \ {q}) \union {Checked(q, server)}
           /\ UNCHANGED <<server, receipts, authors, born, reborn, current, pending, loader, page, auth, mounts, used, commands, attempts, max>>
  <1>1. /\ UNCHANGED <<tasks, server, receipts, authors, born, reborn, current, pending, loader, page, auth, mounts, used, commands, attempts, max>>
        /\ late' = (late \ {q}) \union {Checked(q, server)} /\ q.kind = "reorder_segment"
    BY DEF CheckLate, Unchecked, serverVars, contents, repository, provider, bounds, identifiers
  <1>2. DOMAIN q = RequestFields
    BY DEF Shapes
  <1>3. \A p \in late' : p \in late \/ DOMAIN p = RequestFields
    BY <1>1, <1>2, CheckedIs
  <1>4. QED
    BY <1>1, <1>2, <1>3, Unmoved, ShapesKept DEF Shapes

\* OtherDeviceReorders: the reorder of somebody else is on its way.
LEMMA OtherDeviceReordersStep ==
    ASSUME Shapes, NEW e, OtherDeviceReorders(e)
    PROVE  /\ Shapes' /\ (\A u \in Tasks : GoesOn(u)) /\ Cardinality(late) < max.late
           /\ \E q \in Difference(server, Edited(e, server)) :
                 q.kind = "reorder_segment" /\ late' = late \union {Checked(q, server)}
           /\ UNCHANGED <<server, receipts, authors, born, reborn, current, pending, loader, page, auth, mounts, used, commands, attempts, max>>
  <1>1. UNCHANGED <<tasks, server, receipts, authors, born, reborn, current, pending, loader, page, auth, mounts, used, commands, attempts, max>>
    BY DEF OtherDeviceReorders, serverVars, contents, repository, provider, identifiers
  <1>2. PICK q \in Difference(server, Edited(e, server)) :
            q.kind = "reorder_segment" /\ late' = late \union {Checked(q, server)}
    BY DEF OtherDeviceReorders
  <1>3. \A p \in late' : p \in late \/ DOMAIN p = RequestFields
    BY <1>2, DifferenceShape, CheckedIs
  <1>4. Shapes' /\ \A u \in Tasks : GoesOn(u)
    BY <1>1, <1>3, Unmoved, ShapesKept DEF Shapes
  <1>5. QED
    BY <1>1, <1>2, <1>4 DEF OtherDeviceReorders

\* Every step keeps the shapes.
LEMMA NextShapes == Shapes /\ [Next]_vars => Shapes'
  <1> SUFFICES ASSUME Shapes, [Next]_vars PROVE Shapes'
    OBVIOUS
  <1>1. CASE UNCHANGED vars
    <2>1. UNCHANGED <<tasks, page, pending, mounts, late, commands, max>>
      BY <1>1 DEF vars, repository, provider, bounds, identifiers
    <2>2. QED
      BY <2>1, Unmoved, ShapesKept DEF Shapes
  <1>2. ASSUME NEW t \in max.tasks,
               \/ Login(t) \/ Retry(t) \/ Send(t) \/ CheckReorder(t) \/ Answered(t) \/ Unreachable(t)
               \/ ListJourneys(t) \/ LoadFails(t) \/ FinishLoad(t)
               \/ \E e \in max.choice : StartCommit(t, e)
               \/ \E r \in {"segments", "packing"} \X AllJourneyIds : Read(t, r)
        PROVE  Shapes'
    <2>1. t \in Tasks
      BY MyTasks
    <2>2. QED
      BY <1>2, <2>1, LoginStep, SendStep, CheckReorderStep, AnsweredStep, UnreachableStep, ListJourneysStep, LoadFailsStep,
         FinishLoadStep, StartCommitStep, ReadStep
  <1>3. QED
    BY <1>1, <1>2, SessionStep, CheckLateStep, ArriveLateStep, OtherDeviceStep, OtherDeviceReordersStep DEF Next

-----------------------------------------------------------------------------
(***************************************************************************)
(* Identifiers of commands.                                                *)
(***************************************************************************)
SentAs(q, c, g) == q.kind = "update_journey" /\ q.cmd = c /\ Signature(q) = g
Uses(c, g) ==
    \/ \E p \in receipts : p.cmd = c /\ p.sig = g
    \/ \E j \in DOMAIN pending : pending[j].cmd = c /\ pending[j].sig = g
    \/ \E q \in late : SentAs(q, c, g)
    \/ \E t \in Tasks : Running(t) /\ tasks[t].cur # None /\ SentAs(tasks[t].cur, c, g)

\* An identifier is used for one content only, and was given out.
OneContent == \A c, g : Uses(c, g) => c \in Nat /\ c <= commands /\ \A h : Uses(c, h) => g = h

\* No new use of an identifier.
LEMMA SameUses ==
    ASSUME OneContent, commands' = commands, \A c, g : Uses(c, g)' => Uses(c, g)
    PROVE  OneContent'
  BY DEF OneContent

\* A request that goes on is the one it was.
LEMMA GoingOn ==
    ASSUME NEW u \in Tasks, GoesOn(u), tasks'[u] # None, tasks'[u].cur # None
    PROVE  Running(u) /\ tasks[u].cur # None /\ tasks'[u].cur = tasks[u].cur
  BY DEF GoesOn, SameTask

\* The server notes the content of a command it has been sent.
LEMMA ServedUses ==
    ASSUME NEW q, Served(q), NEW p \in receipts', p \notin receipts
    PROVE  SentAs(q, p.cmd, p.sig)
  BY DEF Served, ServerDoes, SentAs, contents

\* No identifier has been used at the start.
LEMMA InitOneContent == Init => OneContent
  BY DEF Init, OneContent, Uses, Running

\* A step that sends nothing.
LEMMA OneContentKept ==
    ASSUME OneContent, UNCHANGED commands, pending' = pending \/ DOMAIN pending' = {},
           \A p \in receipts' : Uses(p.cmd, p.sig),
           \A q \in late' : \A c, g : SentAs(q, c, g) => Uses(c, g),
           \A u \in Tasks : tasks'[u] # None /\ tasks'[u].cur # None => \A c, g : SentAs(tasks'[u].cur, c, g) => Uses(c, g)
    PROVE  OneContent'
  <1>1. ASSUME NEW c, NEW g, Uses(c, g)' PROVE Uses(c, g)
    <2>1. CASE \E p \in receipts' : p.cmd = c /\ p.sig = g
      BY <2>1
    <2>2. CASE \E j \in DOMAIN pending' : pending'[j].cmd = c /\ pending'[j].sig = g
      BY <2>2 DEF Uses
    <2>3. CASE \E q \in late' : SentAs(q, c, g)
      BY <2>3
    <2>4. ASSUME NEW t \in Tasks, tasks'[t] # None, tasks'[t].cur # None, SentAs(tasks'[t].cur, c, g) PROVE Uses(c, g)
      BY <2>4
    <2>5. QED
      BY <1>1, <2>1, <2>2, <2>3, <2>4 DEF Uses, Running, SentAs, Signature
  <1>2. QED
    BY <1>1, SameUses

\* Send uses an identifier again for the content it was made for, or a new one.
LEMMA SendOneContent ==
    ASSUME Shapes, OneContent, NEW t \in Tasks, Send(t)
    PROVE  OneContent'
  <1>1. /\ Running(t) /\ tasks[t].cur = None /\ TaskShape(tasks[t]) /\ \A u \in Tasks \ {t} : GoesOn(u)
        /\ UNCHANGED <<receipts, late>>
    BY SendStep DEF Send, serverVars, contents, Shapes
  <1>2. PICK q \in tasks[t].todo : Sends(t, q)
    BY SendStep
  <1>3. DOMAIN q = RequestFields
    BY <1>1 DEF TaskShape, HeldBy
  <1>4. \A u \in Tasks \ {t} : tasks'[u] # None /\ tasks'[u].cur # None =>
                Running(u) /\ tasks[u].cur # None /\ tasks'[u].cur = tasks[u].cur
    BY <1>1, GoingOn
  <1>5. CASE q.kind # "update_journey"
    <2>1. UNCHANGED <<commands, pending>> /\ tasks'[t].cur = q
      BY <1>2, <1>5 DEF Sends
    <2>2. ASSUME NEW c, NEW g, Uses(c, g)' PROVE Uses(c, g)
      BY <1>1, <1>4, <1>5, <2>1, <2>2 DEF Uses, Running, SentAs, Signature
    <2>3. QED
      BY <2>1, <2>2, SameUses
  <1>6. CASE q.kind = "update_journey"
    <2> DEFINE n == CommandFor(q)
               s == Signature(q)
               m == [q EXCEPT !.cmd = n]
    <2>1. tasks'[t].cur = m /\ commands' = (IF n > commands THEN n ELSE commands)
          /\ pending' = [j \in DOMAIN pending \union {q.j} |-> IF j = q.j THEN [cmd |-> n, sig |-> s] ELSE pending[j]]
      BY <1>2, <1>6 DEF Sends
    <2>2. m.kind = "update_journey" /\ m.cmd = n /\ Signature(m) = s
      BY <1>3, <1>6 DEF RequestFields, Signature
    <2>3. Uses(n, s) \/ n = commands + 1
      BY DEF CommandFor, Uses
    <2> HIDE DEF n, s, m
    <2>4. ASSUME NEW c, NEW g, Uses(c, g)' PROVE Uses(c, g) \/ (c = n /\ g = s)
      <3>1. CASE \E p \in receipts' : p.cmd = c /\ p.sig = g
        BY <1>1, <3>1 DEF Uses
      <3>2. ASSUME NEW j \in DOMAIN pending', pending'[j].cmd = c /\ pending'[j].sig = g PROVE Uses(c, g) \/ (c = n /\ g = s)
        <4>1. CASE j = q.j
          BY <2>1, <3>2, <4>1
        <4>2. CASE j # q.j
          BY <2>1, <3>2, <4>2 DEF Uses
        <4>3. QED
          BY <4>1, <4>2
      <3>3. CASE \E p \in late' : SentAs(p, c, g)
        BY <1>1, <3>3 DEF Uses
      <3>4. ASSUME NEW u \in Tasks, tasks'[u] # None, tasks'[u].cur # None, SentAs(tasks'[u].cur, c, g)
            PROVE  Uses(c, g) \/ (c = n /\ g = s)
        <4>1. CASE u = t
          BY <2>1, <2>2, <3>4, <4>1 DEF SentAs
        <4>2. CASE u # t
          BY <1>4, <3>4, <4>2 DEF Uses
        <4>3. QED
          BY <4>1, <4>2
      <3>5. QED
        BY <2>4, <3>1, <3>2, <3>3, <3>4 DEF Uses, Running, SentAs, Signature
    <2>5. commands \in Nat
      BY DEF Shapes
    <2>6. CASE Uses(n, s)
      <3>1. n \in Nat /\ n <= commands
        BY <2>6 DEF OneContent
      <3>2. commands' = commands
        BY <2>1, <2>5, <3>1
      <3>3. QED
        BY <2>4, <2>6, <3>2, SameUses
    <2>7. CASE n = commands + 1
      <3>1. commands' = commands + 1
        BY <2>1, <2>5, <2>7
      <3>2. \A g : ~Uses(n, g)
        BY <2>5, <2>7 DEF OneContent
      <3>3. ASSUME NEW c, NEW g, Uses(c, g)' PROVE c \in Nat /\ c <= commands'
        BY <2>4, <2>5, <2>7, <3>1, <3>3 DEF OneContent
      <3>4. ASSUME NEW c, NEW g, NEW h, Uses(c, g)', Uses(c, h)' PROVE g = h
        BY <2>4, <3>2, <3>4 DEF OneContent
      <3>5. QED
        BY <3>3, <3>4 DEF OneContent
    <2>8. QED
      BY <2>3, <2>6, <2>7
  <1>7. QED
    BY <1>5, <1>6

\* Every step keeps identifiers to one content.
LEMMA NextOneContent == Shapes /\ OneContent /\ [Next]_vars => OneContent'
  <1> SUFFICES ASSUME Shapes, OneContent, [Next]_vars PROVE OneContent'
    OBVIOUS
  <1> DEFINE Going(u) == tasks'[u] # None /\ tasks'[u].cur # None => \A c, g : SentAs(tasks'[u].cur, c, g) => Uses(c, g)
  <1>1. \A u \in Tasks : GoesOn(u) => Going(u)
    <2>1. ASSUME NEW u \in Tasks, GoesOn(u), tasks'[u] # None, tasks'[u].cur # None, NEW c, NEW g, SentAs(tasks'[u].cur, c, g)
          PROVE  Uses(c, g)
      BY <2>1, GoingOn DEF Uses
    <2>2. QED
      BY <2>1
  <1>2. \A q \in late : \A c, g : SentAs(q, c, g) => Uses(c, g)
    BY DEF Uses
  <1>3. \A p \in receipts : Uses(p.cmd, p.sig)
    BY DEF Uses
  <1>4. \A t \in Tasks : \A c, g : Running(t) /\ tasks[t].cur # None /\ SentAs(tasks[t].cur, c, g) => Uses(c, g)
    BY DEF Uses
  <1> HIDE DEF Going
  <1>5. ASSUME UNCHANGED commands, pending' = pending \/ DOMAIN pending' = {},
               \A p \in receipts' : Uses(p.cmd, p.sig),
               \A q \in late' : \A c, g : SentAs(q, c, g) => Uses(c, g),
               \A u \in Tasks : Going(u)
        PROVE  OneContent'
    BY <1>5, OneContentKept DEF Going
  <1>6. CASE UNCHANGED vars
    <2>1. UNCHANGED <<tasks, receipts, pending, late, commands>>
      BY <1>6 DEF vars, serverVars, contents, repository, bounds, identifiers
    <2>2. QED
      BY <1>1, <1>2, <1>3, <1>5, <2>1, Unmoved
  <1>7. ASSUME NEW t \in Tasks, Login(t) \/ Retry(t) \/ ListJourneys(t) \/ LoadFails(t) \/ FinishLoad(t)
               \/ (\E e \in max.choice : StartCommit(t, e))
               \/ (\E r \in {"segments", "packing"} \X AllJourneyIds : Read(t, r))
        PROVE  OneContent'
    <2>1. /\ \A u \in Tasks \ {t} : GoesOn(u)
          /\ GoesOn(t) \/ tasks'[t].cur = None
      BY <1>7, LoginStep, ListJourneysStep, LoadFailsStep, FinishLoadStep, StartCommitStep, ReadStep
    <2>2. UNCHANGED <<receipts, late, commands>>
      BY <1>7 DEF Login, Retry, ListJourneys, LoadFails, FinishLoad, StartCommit, Read, serverVars, contents, bounds, identifiers
    <2>3. pending' = pending \/ DOMAIN pending' = {}
      BY <1>7, LoadFailsStep, FinishLoadStep, ReadStep DEF Login, Retry, ListJourneys, StartCommit, repository
    <2>4. \A u \in Tasks : Going(u)
      BY <1>1, <2>1 DEF Going
    <2>5. QED
      BY <1>2, <1>3, <1>5, <2>2, <2>3, <2>4
  <1>8. ASSUME NEW t \in Tasks, Answered(t) \/ Unreachable(t) PROVE OneContent'
    <2>1. /\ Running(t) /\ tasks[t].cur # None
          /\ Served(tasks[t].cur) \/ receipts' = receipts
          /\ \A q \in late' : q \in late \/ q = tasks[t].cur
          /\ UNCHANGED <<pending, commands>>
          /\ \A u \in Tasks \ {t} : GoesOn(u)
          /\ tasks'[t] = None \/ tasks'[t].cur = None
      BY <1>8, AnsweredStep, UnreachableStep DEF contents
    <2>2. \A p \in receipts' : Uses(p.cmd, p.sig)
      BY <1>3, <1>4, <2>1, ServedUses
    <2>3. \A u \in Tasks : Going(u)
      BY <1>1, <2>1 DEF Going
    <2>4. \A q \in late' : \A c, g : SentAs(q, c, g) => Uses(c, g)
      BY <1>2, <1>4, <2>1
    <2>5. QED
      BY <1>5, <2>1, <2>2, <2>3, <2>4
  <1>9. CASE Logout \/ Expire \/ \E e \in max.elsewhere : OtherDevice(e)
    <2>1. UNCHANGED <<receipts, pending, late, commands>> /\ \A u \in Tasks : GoesOn(u)
      BY <1>9, SessionStep, OtherDeviceStep
    <2>2. QED
      BY <1>1, <1>2, <1>3, <1>5, <2>1
  <1>10. ASSUME NEW q \in late, ArriveLate(q) PROVE OneContent'
    <2>1. late' = late \ {q} /\ Served(q) /\ UNCHANGED <<pending, commands>> /\ \A u \in Tasks : GoesOn(u)
      BY <1>10, ArriveLateStep
    <2>2. \A p \in receipts' : Uses(p.cmd, p.sig)
      BY <1>2, <1>3, <2>1, ServedUses
    <2>3. QED
      BY <1>1, <1>2, <1>5, <2>1, <2>2
  <1>11. \A q : DOMAIN q = RequestFields /\ q.kind = "reorder_segment" => \A c, g : ~SentAs(Checked(q, server), c, g)
    BY CheckedIs DEF SentAs
  <1>12. ASSUME NEW t \in Tasks, CheckReorder(t) PROVE OneContent'
    <2>1. /\ \A u \in Tasks \ {t} : GoesOn(u)
          /\ DOMAIN tasks[t].cur = RequestFields /\ tasks[t].cur.kind = "reorder_segment"
          /\ tasks'[t].cur = Checked(tasks[t].cur, server)
          /\ UNCHANGED <<receipts, pending, late, commands>>
      BY <1>12, CheckReorderStep
    <2>2. \A u \in Tasks : Going(u)
      BY <1>1, <1>11, <2>1 DEF Going
    <2>3. QED
      BY <1>2, <1>3, <1>5, <2>1, <2>2
  <1>13. CASE (\E q \in late : CheckLate(q)) \/ (\E e \in max.elsewhere : OtherDeviceReorders(e))
    <2>1. PICK q : /\ DOMAIN q = RequestFields /\ q.kind = "reorder_segment"
                   /\ \A p \in late' : p \in late \/ p = Checked(q, server)
      BY <1>13, CheckLateStep, OtherDeviceReordersStep, DifferenceShape
    <2>2. UNCHANGED <<receipts, pending, commands>> /\ \A u \in Tasks : GoesOn(u)
      BY <1>13, CheckLateStep, OtherDeviceReordersStep
    <2>3. \A p \in late' : \A c, g : SentAs(p, c, g) => Uses(c, g)
      BY <1>2, <1>11, <2>1
    <2>4. QED
      BY <1>1, <1>3, <1>5, <2>2, <2>3
  <1>14. \A t \in max.tasks : t \in Tasks
    BY MyTasks
  <1>15. CASE Next
    BY <1>7, <1>8, <1>9, <1>10, <1>12, <1>13, <1>14, <1>15, SendOneContent DEF Next
  <1>16. QED
    BY <1>6, <1>15

\* What the server has noted of an identifier is what is asked again under it.
LEMMA NoSecondContent ==
    ASSUME OneContent, NEW q \in InFlight, q.kind = "update_journey"
    PROVE  \A p \in ReceiptOf(q) : p.sig = Signature(q)
  <1>1. Uses(q.cmd, Signature(q))
    BY DEF InFlight, Uses, SentAs
  <1>2. \A p \in ReceiptOf(q) : Uses(q.cmd, p.sig)
    BY DEF ReceiptOf, Uses
  <1>3. QED
    BY <1>1, <1>2 DEF OneContent

-----------------------------------------------------------------------------
(***************************************************************************)
(* Rows of the server and what was seen of them.                           *)
(***************************************************************************)
Kinds == VersionedKinds \union CreateKinds \union DeleteKinds
CollectionOf(kind) ==
    IF kind \in {"create_journey", "update_journey", "delete_journey"} THEN "journeys"
    ELSE IF kind \in {"create_segment", "update_segment", "reorder_segment", "delete_segment"} THEN "segments"
    ELSE "packing"

\* What a person sees of a row.
Text(c, r) == IF c = "segments" THEN [r EXCEPT !.pos = 0, !.ver = 0] ELSE [r EXCEPT !.ver = 0]

\* The row n stands where s stood, and has the same text if it has the same
\* version.
Later(c, s, n) == n.id = s.id /\ s.ver <= n.ver /\ (s.ver = n.ver => Text(c, s) = Text(c, n))

\* A document after a request: rows have been written and taken away, and one
\* that was not there is the one that was asked for.
Evolved(d, n, q) ==
    /\ Tables(n)
    /\ \A c \in Collections : \A r \in n[c] :
          \/ \E s \in d[c] : Later(c, s, r)
          \/ q.kind \in CreateKinds /\ c = CollectionOf(q.kind) /\ r.id = q.id

\* The three tables.
LEMMA CollectionsAre == Collections = {"journeys", "segments", "packing"}
  BY DEF Collections, Columns

\* The columns are the fields of the document's records.
LEMMA ColumnsAre ==
    /\ Columns["journeys"] = JourneyFields
    /\ Columns["segments"] = SegmentFields
    /\ Columns["packing"] = ItemFields
  BY DEF Columns, JourneyFields, SegmentFields, ItemFields

\* The rows of one table after a request.
Rows(c, N) == DistinctIds(N) /\ \A r \in N : DOMAIN r = Columns[c] /\ r.ver \in Nat
Rewrites(c, S, N) == Rows(c, N) /\ \A n \in N : \E s \in S : Later(c, s, n)

\* The tables, one by one.
LEMMA TablesAre ==
    ASSUME NEW d
    PROVE  Tables(d) <=> /\ DOMAIN d = {"journeys", "segments", "packing"}
                         /\ Rows("journeys", d.journeys) /\ Rows("segments", d.segments) /\ Rows("packing", d.packing)
  BY CollectionsAre DEF Tables, Rows

\* A document whose tables are all rewritten.
LEMMA EvolvedBy ==
    ASSUME NEW d, NEW n, NEW q, DOMAIN n = {"journeys", "segments", "packing"},
           Rewrites("journeys", d.journeys, n.journeys), Rewrites("segments", d.segments, n.segments),
           Rewrites("packing", d.packing, n.packing)
    PROVE  Evolved(d, n, q)
  BY TablesAre, CollectionsAre DEF Evolved, Rewrites

\* Rows that are taken away.
LEMMA SameRows ==
    ASSUME NEW c, NEW S, Rows(c, S), NEW N \in SUBSET S
    PROVE  Rewrites(c, S, N)
  BY DEF Rewrites, Rows, DistinctIds, Later

\* A table is rewritten row by row.
LEMMA MappedRows ==
    ASSUME NEW c, NEW S, Rows(c, S), NEW T \in SUBSET S, NEW f,
           \A s \in T : DOMAIN f[s] = Columns[c] /\ f[s].ver \in Nat /\ Later(c, s, f[s])
    PROVE  Rewrites(c, S, {f[s] : s \in T})
  <1>1. DistinctIds({f[s] : s \in T})
    BY DEF DistinctIds, Rows, Later
  <1>2. QED
    BY <1>1 DEF Rewrites, Rows

\* A row is replaced by a newer one.
LEMMA PutRows ==
    ASSUME NEW c, NEW S, Rows(c, S), NEW r, DOMAIN r = Columns[c], r.ver \in Nat,
           \A s \in S : s.id = r.id => s.ver < r.ver
    PROVE  Rewrites(c, S, Put(S, r))
  <1> DEFINE f == [s \in S |-> IF s.id = r.id THEN r ELSE s]
  <1>1. Put(S, r) = {f[s] : s \in S}
    BY DEF Put
  <1>2. \A s \in S : DOMAIN f[s] = Columns[c] /\ f[s].ver \in Nat /\ Later(c, s, f[s])
    BY DEF Rows, Later
  <1> HIDE DEF f
  <1>3. QED
    BY <1>1, <1>2, MappedRows

\* The Journey's version moves.
LEMMA TouchRows ==
    ASSUME NEW d, DOMAIN d = {"journeys", "segments", "packing"}, Rows("journeys", d.journeys), NEW j
    PROVE  /\ DOMAIN Touch(d, j) = {"journeys", "segments", "packing"}
           /\ Touch(d, j).segments = d.segments /\ Touch(d, j).packing = d.packing
           /\ Rewrites("journeys", d.journeys, Touch(d, j).journeys)
           /\ \A r \in Touch(d, j).journeys : r.id # j => r \in d.journeys
           /\ \A r \in d.journeys : r.id # j => r \in Touch(d, j).journeys
  <1> DEFINE S == d.journeys
             f == [r \in S |-> IF r.id = j THEN [r EXCEPT !.ver = @ + 1] ELSE r]
  <1>1. Touch(d, j).journeys = {f[r] : r \in S}
    BY DEF Touch
  <1>2. \A r \in S : /\ DOMAIN f[r] = Columns["journeys"] /\ f[r].ver \in Nat /\ f[r].id = r.id /\ r.ver <= f[r].ver
                     /\ r.ver = f[r].ver => f[r] = r
    BY ColumnsAre DEF Rows, JourneyFields
  <1>3. \A r \in S : r.id # j => f[r] = r
    OBVIOUS
  <1> HIDE DEF f
  <1>4. Rewrites("journeys", S, {f[r] : r \in S})
    <2>1. \A r \in S : DOMAIN f[r] = Columns["journeys"] /\ f[r].ver \in Nat /\ Later("journeys", r, f[r])
      BY <1>2 DEF Later
    <2>2. Rows("journeys", S) /\ S \in SUBSET S
      OBVIOUS
    <2> HIDE DEF S
    <2>3. QED
      BY <2>1, <2>2, MappedRows
  <1>5. /\ \A r \in {f[s] : s \in S} : r.id # j => r \in S
        /\ \A r \in S : r.id # j => r \in {f[s] : s \in S}
    BY <1>2, <1>3
  <1>6. /\ DOMAIN Touch(d, j) = {"journeys", "segments", "packing"}
        /\ Touch(d, j).segments = d.segments /\ Touch(d, j).packing = d.packing
    BY DEF Touch
  <1>7. QED
    BY <1>1, <1>4, <1>5, <1>6

\* What the server has answered to a command it has not been sent before.
Decided == \A p \in receipts : p.answer # "idempotency_conflict"

\* A receipt never holds the refusal of a second content.
LEMMA ServedDecided ==
    ASSUME Decided, NEW q, Served(q)
    PROVE  Decided'
  BY DEF Decided, Served, ServerDoes, Answer, Outcome, contents

\* Every step keeps the receipts so.
LEMMA NextDecided == Shapes /\ Decided /\ [Next]_vars => Decided'
  <1> SUFFICES ASSUME Shapes, Decided, [Next]_vars PROVE Decided'
    OBVIOUS
  <1>1. CASE UNCHANGED vars
    BY <1>1 DEF vars, serverVars, contents, Decided
  <1>2. ASSUME NEW t \in max.tasks,
               \/ Login(t) \/ Retry(t) \/ Send(t) \/ CheckReorder(t) \/ ListJourneys(t) \/ LoadFails(t) \/ FinishLoad(t)
               \/ \E e \in max.choice : StartCommit(t, e)
               \/ \E r \in {"segments", "packing"} \X AllJourneyIds : Read(t, r)
        PROVE  Decided'
    BY <1>2 DEF Decided, Login, Retry, Send, CheckReorder, ListJourneys, LoadFails, FinishLoad, StartCommit, Read, serverVars, contents
  <1>3. ASSUME NEW t \in max.tasks, Answered(t) \/ Unreachable(t) PROVE Decided'
    <2>1. t \in Tasks
      BY MyTasks
    <2>2. Served(tasks[t].cur) \/ UNCHANGED receipts
      BY <1>3, <2>1, AnsweredStep, UnreachableStep DEF contents
    <2>3. QED
      BY <2>2, ServedDecided DEF Decided
  <1>4. CASE \/ Logout \/ Expire \/ \E q \in late : CheckLate(q)
             \/ \E e \in max.elsewhere : OtherDevice(e) \/ OtherDeviceReorders(e)
    BY <1>4 DEF Logout, Expire, CheckLate, OtherDevice, OtherDeviceReorders, Decided, serverVars, contents
  <1>5. ASSUME NEW q \in late, ArriveLate(q) PROVE Decided'
    BY <1>5, ArriveLateStep, ServedDecided
  <1>6. QED
    BY <1>1, <1>2, <1>3, <1>4, <1>5 DEF Next

\* No update is taken for another one.
LEMMA NeverTwoContents ==
    ASSUME OneContent, Decided, NEW q \in InFlight, q.kind = "update_journey"
    PROVE  Answer(q) # "idempotency_conflict"
  <1>1. CASE ~Known(q)
    BY <1>1 DEF Answer, Outcome
  <1>2. CASE Known(q)
    <2> DEFINE p == CHOOSE r \in ReceiptOf(q) : TRUE
    <2>1. p \in ReceiptOf(q)
      BY <1>2 DEF Known
    <2>2. p.sig = Signature(q) /\ p \in receipts
      BY <2>1, NoSecondContent DEF ReceiptOf
    <2>3. Answer(q) = p.answer
      BY <1>2, <2>2 DEF Answer
    <2>4. QED
      BY <2>2, <2>3 DEF Decided
  <1>3. QED
    BY <1>1, <1>2

Parts == {"journeys", "segments", "packing"}

\* A change below a Journey.
LEMMA TouchEvolves ==
    ASSUME NEW d, Tables(d), NEW m, DOMAIN m = Parts, m.journeys = d.journeys,
           Rewrites("segments", d.segments, m.segments), Rewrites("packing", d.packing, m.packing), NEW j, NEW q
    PROVE  Evolved(d, Touch(m, j), q)
  <1>1. Rows("journeys", m.journeys)
    BY TablesAre
  <1>2. Rewrites("journeys", d.journeys, Touch(m, j).journeys) /\ DOMAIN Touch(m, j) = {"journeys", "segments", "packing"}
        /\ Touch(m, j).segments = m.segments /\ Touch(m, j).packing = m.packing
    BY <1>1, TouchRows DEF Parts
  <1>3. QED
    BY <1>2, EvolvedBy

\* A new row.
LEMMA AddedRow ==
    ASSUME NEW c, NEW S, Rows(c, S), NEW r, DOMAIN r = Columns[c], r.ver \in Nat, \A s \in S : s.id # r.id
    PROVE  /\ Rows(c, S \union {r})
           /\ \A n \in S \union {r} : n.id = r.id \/ \E s \in S : Later(c, s, n)
  <1>1. \A s \in S : Later(c, s, s)
    BY DEF Later, Rows
  <1>2. QED
    BY <1>1 DEF Rows, DistinctIds

\* The requests about a Journey: created, updated, deleted with all below it.
LEMMA JourneyWritten ==
    ASSUME NEW d, Tables(d), NEW q, Outcome(q, d) = "ok", q.order = None,
           q.kind \in {"create_journey", "update_journey", "delete_journey"}
    PROVE  Evolved(d, Applied(q, d), q)
  <1>1. /\ DOMAIN d = Parts /\ Rows("journeys", d.journeys) /\ Rows("segments", d.segments) /\ Rows("packing", d.packing)
    BY TablesAre DEF Parts
  <1>2. Rewrites("segments", d.segments, d.segments) /\ Rewrites("packing", d.packing, d.packing)
    BY <1>1, SameRows
  <1>3. CASE q.kind = "create_journey"
    <2> DEFINE r == [id |-> q.id, name |-> q.body.name, start |-> q.body.start, end |-> q.body.end,
                     status |-> "planning", ver |-> 1]
               n == createJourney(d, q.body, q.id)
    <2>1. Applied(q, d) = n /\ ~JourneyExists(d, q.id)
      BY <1>3 DEF Applied, Outcome, Taken
    <2>2. DOMAIN n = Parts /\ n.journeys = d.journeys \union {r} /\ n.segments = d.segments /\ n.packing = d.packing
      BY <1>1 DEF createJourney, Parts
    <2>3. DOMAIN r = Columns["journeys"] /\ r.ver \in Nat /\ r.id = q.id
      BY ColumnsAre DEF JourneyFields
    <2>4. \A s \in d.journeys : s.id # r.id
      BY <2>1, <2>3 DEF JourneyExists
    <2> HIDE DEF r
    <2>5. /\ Rows("journeys", n.journeys)
          /\ \A x \in n.journeys : x.id = q.id \/ \E s \in d.journeys : Later("journeys", s, x)
      BY <1>1, <2>2, <2>3, <2>4, AddedRow
    <2> HIDE DEF n
    <2>6. Tables(n)
      BY <1>1, <2>2, <2>5, TablesAre DEF Parts
    <2>7. q.kind \in CreateKinds /\ CollectionOf(q.kind) = "journeys"
      BY <1>3 DEF CreateKinds, CollectionOf
    <2>8. QED
      BY <1>2, <2>1, <2>2, <2>5, <2>6, <2>7, CollectionsAre DEF Evolved, Rewrites
  <1>4. CASE q.kind = "update_journey"
    <2> DEFINE o == WithId(d.journeys, q.j)
               r == [o EXCEPT !.name = q.body.name, !.start = q.body.start,
                              !.end = q.body.end, !.status = q.body.status, !.ver = @ + 1]
               n == [d EXCEPT !.journeys = Put(d.journeys, r)]
    <2>1. Applied(q, d) = n /\ JourneyExists(d, q.j)
      BY <1>4 DEF Applied, RowOf, Outcome, Found
    <2>2. o \in d.journeys /\ o.id = q.j
      BY <2>1 DEF JourneyExists, WithId
    <2>3. DOMAIN o = Columns["journeys"] /\ o.ver \in Nat
      BY <1>1, <2>2 DEF Rows
    <2> HIDE DEF o
    <2>4. DOMAIN r = Columns["journeys"] /\ r.ver = o.ver + 1 /\ r.id = o.id
      BY <2>3, ColumnsAre DEF JourneyFields
    <2> HIDE DEF r
    <2>5. \A s \in d.journeys : s.id = r.id => s.ver < r.ver
      BY <1>1, <2>2, <2>3, <2>4 DEF Rows, DistinctIds
    <2>6. Rewrites("journeys", d.journeys, Put(d.journeys, r))
      BY <1>1, <2>3, <2>4, <2>5, PutRows
    <2>7. DOMAIN n = Parts /\ n.journeys = Put(d.journeys, r) /\ n.segments = d.segments /\ n.packing = d.packing
      BY <1>1 DEF Parts
    <2> HIDE DEF n
    <2>8. QED
      BY <1>2, <2>1, <2>6, <2>7, EvolvedBy DEF Parts
  <1>5. CASE q.kind = "delete_journey"
    <2> DEFINE n == deleteJourney(d, q.j)
    <2>1. Applied(q, d) = n
      BY <1>5 DEF Applied
    <2>2. DOMAIN n = Parts /\ n.journeys \in SUBSET d.journeys /\ n.segments \in SUBSET d.segments /\ n.packing \in SUBSET d.packing
      BY DEF deleteJourney, Parts
    <2> HIDE DEF n
    <2>3. QED
      BY <1>1, <2>1, <2>2, SameRows, EvolvedBy DEF Parts
  <1>6. QED
    BY <1>3, <1>4, <1>5

\* A new row below a Journey.
LEMMA TouchAdds ==
    ASSUME NEW d, Tables(d), NEW m, DOMAIN m = Parts, m.journeys = d.journeys, NEW q, NEW r, r.id = q.id, r.ver \in Nat,
           \/ /\ q.kind = "create_segment" /\ DOMAIN r = Columns["segments"] /\ m.packing = d.packing
              /\ m.segments = d.segments \union {r} /\ \A s \in d.segments : s.id # r.id
           \/ /\ q.kind = "create_item" /\ DOMAIN r = Columns["packing"] /\ m.segments = d.segments
              /\ m.packing = d.packing \union {r} /\ \A s \in d.packing : s.id # r.id
    PROVE  Evolved(d, Touch(m, q.j), q)
  <1> DEFINE n == Touch(m, q.j)
  <1>1. /\ DOMAIN d = Parts /\ Rows("journeys", d.journeys) /\ Rows("segments", d.segments) /\ Rows("packing", d.packing)
    BY TablesAre DEF Parts
  <1>2. Rewrites("journeys", d.journeys, n.journeys) /\ DOMAIN n = Parts /\ n.segments = m.segments /\ n.packing = m.packing
    BY <1>1, TouchRows DEF Parts
  <1> HIDE DEF n
  <1>3. Rewrites("segments", d.segments, d.segments) /\ Rewrites("packing", d.packing, d.packing)
    BY <1>1, SameRows
  <1>4. CASE q.kind = "create_segment"
    <2>1. /\ Rows("segments", n.segments)
          /\ \A x \in n.segments : x.id = q.id \/ \E s \in d.segments : Later("segments", s, x)
      BY <1>1, <1>2, <1>4, AddedRow
    <2>2. n.packing = d.packing
      BY <1>2, <1>4
    <2>3. q.kind \in CreateKinds /\ CollectionOf(q.kind) = "segments"
      BY <1>4 DEF CreateKinds, CollectionOf
    <2>4. Tables(n)
      BY <1>1, <1>2, <2>1, <2>2, TablesAre DEF Parts, Rewrites
    <2>5. Evolved(d, n, q)
      BY <1>2, <1>3, <2>1, <2>2, <2>3, <2>4, CollectionsAre DEF Evolved, Rewrites
    <2>6. QED
      BY <2>5 DEF n
  <1>5. CASE q.kind = "create_item"
    <2>1. /\ Rows("packing", n.packing)
          /\ \A x \in n.packing : x.id = q.id \/ \E s \in d.packing : Later("packing", s, x)
      BY <1>1, <1>2, <1>5, AddedRow
    <2>2. n.segments = d.segments
      BY <1>2, <1>5
    <2>3. q.kind \in CreateKinds /\ CollectionOf(q.kind) = "packing"
      BY <1>5 DEF CreateKinds, CollectionOf
    <2>4. Tables(n)
      BY <1>1, <1>2, <2>1, <2>2, TablesAre DEF Parts, Rewrites
    <2>5. Evolved(d, n, q)
      BY <1>2, <1>3, <2>1, <2>2, <2>3, <2>4, CollectionsAre DEF Evolved, Rewrites
    <2>6. QED
      BY <2>5 DEF n
  <1>6. QED
    BY <1>4, <1>5

\* A segment that gets another place and no other text.
LEMMA Placed ==
    ASSUME NEW s, DOMAIN s = Columns["segments"], s.ver \in Nat, NEW p, NEW v \in Nat, v = s.ver \/ v = s.ver + 1,
           NEW n, n = [s EXCEPT !.pos = p, !.ver = v]
    PROVE  DOMAIN n = Columns["segments"] /\ n.ver \in Nat /\ Later("segments", s, n)
  <1>1. DOMAIN n = SegmentFields /\ n.ver = v /\ n.id = s.id
    BY ColumnsAre DEF SegmentFields
  <1>2. [n EXCEPT !.pos = 0, !.ver = 0] = [s EXCEPT !.pos = 0, !.ver = 0]
    BY ColumnsAre DEF SegmentFields
  <1>3. QED
    BY <1>1, <1>2, ColumnsAre DEF Later, Text

\* The requests about a segment: created, updated, moved, deleted.
LEMMA SegmentWritten ==
    ASSUME NEW d, Tables(d), NEW q, Outcome(q, d) = "ok", q.kind # "reorder_segment" => q.order = None,
           q.kind \in {"create_segment", "update_segment", "reorder_segment", "delete_segment"}
    PROVE  Evolved(d, Applied(q, d), q)
  <1>1. /\ DOMAIN d = Parts /\ Rows("journeys", d.journeys) /\ Rows("segments", d.segments) /\ Rows("packing", d.packing)
    BY TablesAre DEF Parts
  <1>2. Rewrites("packing", d.packing, d.packing)
    BY <1>1, SameRows
  <1>3. CASE q.kind = "create_segment"
    <2> DEFINE r == [id |-> q.id, journey |-> q.j, pos |-> NextPosition(segmentsForJourney(d, q.j)), kind |-> q.body.kind,
                     name |-> q.body.name, start |-> q.body.start, end |-> q.body.end, ver |-> 1]
               m == [d EXCEPT !.segments = @ \union {r}]
    <2>1. Applied(q, d) = Touch(m, q.j) /\ \A s \in d.segments : s.id # q.id
      BY <1>3 DEF Applied, Outcome, Taken
    <2>2. DOMAIN m = Parts /\ m.journeys = d.journeys /\ m.segments = d.segments \union {r} /\ m.packing = d.packing
      BY <1>1 DEF Parts
    <2>3. DOMAIN r = Columns["segments"] /\ r.ver \in Nat /\ r.id = q.id
      BY ColumnsAre DEF SegmentFields
    <2> HIDE DEF r, m
    <2>4. QED
      BY <1>3, <2>1, <2>2, <2>3, TouchAdds
  <1>4. CASE q.kind = "update_segment"
    <2> DEFINE o == WithId(d.segments, q.id)
               r == [o EXCEPT !.kind = q.body.kind, !.name = q.body.name,
                              !.start = q.body.start, !.end = q.body.end, !.ver = @ + 1]
               m == [d EXCEPT !.segments = Put(d.segments, r)]
    <2>1. Applied(q, d) = Touch(m, q.j) /\ OwnedSegment(d, q.j, q.id)
      BY <1>4 DEF Applied, RowOf, Outcome, Found
    <2>2. o \in d.segments /\ o.id = q.id
      BY <2>1 DEF OwnedSegment, segmentsForJourney, WithId
    <2>3. DOMAIN o = Columns["segments"] /\ o.ver \in Nat
      BY <1>1, <2>2 DEF Rows
    <2> HIDE DEF o
    <2>4. DOMAIN r = Columns["segments"] /\ r.ver = o.ver + 1 /\ r.id = o.id
      BY <2>3, ColumnsAre DEF SegmentFields
    <2> HIDE DEF r
    <2>5. \A s \in d.segments : s.id = r.id => s.ver < r.ver
      BY <1>1, <2>2, <2>3, <2>4 DEF Rows, DistinctIds
    <2>6. Rewrites("segments", d.segments, Put(d.segments, r))
      BY <1>1, <2>3, <2>4, <2>5, PutRows
    <2>7. DOMAIN m = Parts /\ m.journeys = d.journeys /\ m.segments = Put(d.segments, r) /\ m.packing = d.packing
      BY <1>1 DEF Parts
    <2> HIDE DEF m
    <2>8. QED
      BY <1>2, <2>1, <2>6, <2>7, TouchEvolves
  <1>5. CASE q.kind = "reorder_segment"
    <2> DEFINE S == d.segments
               f == [s \in S |-> IF s.journey = q.j THEN Reordered(s, q) ELSE s]
               N == {IF s.journey = q.j THEN Reordered(s, q) ELSE s : s \in S}
               m == [d EXCEPT !.segments = N]
    <2>1. Applied(q, d) = Touch(m, q.j)
      BY <1>5 DEF Applied
    <2>2. N = {f[s] : s \in S}
      OBVIOUS
    <2>3. \A s \in S : DOMAIN f[s] = Columns["segments"] /\ f[s].ver \in Nat /\ Later("segments", s, f[s])
      <3>1. ASSUME NEW s \in S PROVE DOMAIN f[s] = Columns["segments"] /\ f[s].ver \in Nat /\ Later("segments", s, f[s])
        <4>1. DOMAIN s = Columns["segments"] /\ s.ver \in Nat
          BY <1>1 DEF Rows
        <4>2. CASE s.journey # q.j
          <5>1. f[s] = s
            BY <4>2
          <5>2. Later("segments", s, s)
            BY <4>1 DEF Later
          <5>3. QED
            BY <4>1, <5>1, <5>2
        <4>3. CASE s.journey = q.j
          <5> DEFINE v == IF s.id = q.id THEN s.ver + 1 ELSE s.ver
                     p == IF s.id \in DOMAIN q.order THEN q.order[s.id] ELSE s.pos + Parking
                     n == [s EXCEPT !.pos = p, !.ver = v]
          <5>1. v \in Nat /\ (v = s.ver \/ v = s.ver + 1)
            BY <4>1
          <5>2. f[s] = n
            BY <4>1, <4>3, ColumnsAre DEF Reordered, SegmentFields
          <5> HIDE DEF f, p, v
          <5>3. DOMAIN n = Columns["segments"] /\ n.ver \in Nat /\ Later("segments", s, n)
            BY <4>1, <5>1, Placed
          <5>4. QED
            BY <5>2, <5>3
        <4>4. QED
          BY <4>2, <4>3
      <3>2. QED
        BY <3>1
    <2>4. DOMAIN m = Parts /\ m.journeys = d.journeys /\ m.segments = N /\ m.packing = d.packing
      BY <1>1 DEF Parts
    <2> HIDE DEF N, m, f
    <2>5. Rewrites("segments", d.segments, N)
      BY <1>1, <2>2, <2>3, MappedRows
    <2>6. QED
      BY <1>2, <2>1, <2>4, <2>5, TouchEvolves
  <1>6. CASE q.kind = "delete_segment"
    <2> DEFINE left == {s \in segmentsForJourney(d, q.j) : s.id # q.id}
               T == {s \in d.segments : s.id # q.id}
               f == [s \in T |-> IF s.journey = q.j THEN [s EXCEPT !.pos = IndexIn(left, s)] ELSE s]
               m == deleteSegment(d, q.j, q.id)
    <2>1. Applied(q, d) = Touch(m, q.j)
      BY <1>6 DEF Applied
    <2>2. DOMAIN m = Parts /\ m.journeys = d.journeys /\ m.segments = {f[s] : s \in T} /\ m.packing = d.packing
      BY <1>1 DEF Parts, deleteSegment
    <2>3. \A s \in T : DOMAIN f[s] = Columns["segments"] /\ f[s].ver \in Nat /\ Later("segments", s, f[s])
      <3>1. ASSUME NEW s \in T PROVE DOMAIN f[s] = Columns["segments"] /\ f[s].ver \in Nat /\ Later("segments", s, f[s])
        <4>1. DOMAIN s = Columns["segments"] /\ s.ver \in Nat
          BY <1>1 DEF Rows
        <4>2. CASE s.journey # q.j
          BY <4>1, <4>2 DEF Later
        <4>3. CASE s.journey = q.j
          <5> DEFINE p == IndexIn(left, s)
                     n == [s EXCEPT !.pos = p, !.ver = s.ver]
          <5>1. f[s] = [s EXCEPT !.pos = p]
            BY <4>3
          <5>2. [s EXCEPT !.pos = p] = n
            BY <4>1, ColumnsAre DEF SegmentFields
          <5> HIDE DEF f, p
          <5>3. DOMAIN n = Columns["segments"] /\ n.ver \in Nat /\ Later("segments", s, n)
            BY <4>1, Placed
          <5>4. QED
            BY <5>1, <5>2, <5>3
        <4>4. QED
          BY <4>2, <4>3
      <3>2. QED
        BY <3>1
    <2>4. T \in SUBSET d.segments
      OBVIOUS
    <2> HIDE DEF m, f, T
    <2>5. Rewrites("segments", d.segments, m.segments)
      BY <1>1, <2>2, <2>3, <2>4, MappedRows
    <2>6. QED
      BY <1>2, <2>1, <2>2, <2>5, TouchEvolves
  <1>7. QED
    BY <1>3, <1>4, <1>5, <1>6

\* The requests about a packing item: created, updated, packed, deleted.
LEMMA ItemWritten ==
    ASSUME NEW d, Tables(d), NEW q, Outcome(q, d) = "ok", q.order = None,
           q.kind \in {"create_item", "update_item", "pack_item", "delete_item"}
    PROVE  Evolved(d, Applied(q, d), q)
  <1>1. /\ DOMAIN d = Parts /\ Rows("journeys", d.journeys) /\ Rows("segments", d.segments) /\ Rows("packing", d.packing)
    BY TablesAre DEF Parts
  <1>2. Rewrites("segments", d.segments, d.segments)
    BY <1>1, SameRows
  <1>3. CASE q.kind = "create_item"
    <2> DEFINE r == [id |-> q.id, journey |-> q.j, label |-> q.body.label, qty |-> q.body.qty, packed |-> 0, ver |-> 1]
               m == addPacking(d, q.j, q.body, q.id)
    <2>1. Applied(q, d) = Touch(m, q.j) /\ \A s \in d.packing : s.id # q.id
      BY <1>3 DEF Applied, Outcome, Taken
    <2>2. DOMAIN m = Parts /\ m.journeys = d.journeys /\ m.segments = d.segments /\ m.packing = d.packing \union {r}
      BY <1>1 DEF Parts, addPacking
    <2>3. DOMAIN r = Columns["packing"] /\ r.ver \in Nat /\ r.id = q.id
      BY ColumnsAre DEF ItemFields
    <2> HIDE DEF r, m
    <2>4. QED
      BY <1>3, <2>1, <2>2, <2>3, TouchAdds
  <1>4. CASE q.kind \in {"update_item", "pack_item"}
    <2> DEFINE o == WithId(d.packing, q.id)
               u == [o EXCEPT !.label = q.body.label, !.qty = q.body.qty, !.packed = Least(@, q.body.qty), !.ver = @ + 1]
               p == [o EXCEPT !.packed = q.body, !.ver = @ + 1]
               r == IF q.kind = "update_item" THEN u ELSE p
               m == [d EXCEPT !.packing = Put(d.packing, r)]
    <2>1. Applied(q, d) = Touch(m, q.j) /\ OwnedItem(d, q.j, q.id)
      BY <1>4 DEF Applied, RowOf, Outcome, Found
    <2>2. o \in d.packing /\ o.id = q.id
      BY <2>1 DEF OwnedItem, packingForJourney, WithId
    <2>3. DOMAIN o = Columns["packing"] /\ o.ver \in Nat
      BY <1>1, <2>2 DEF Rows
    <2> HIDE DEF o
    <2>4. DOMAIN r = Columns["packing"] /\ r.ver = o.ver + 1 /\ r.id = o.id
      BY <2>3, ColumnsAre DEF ItemFields
    <2> HIDE DEF r
    <2>5. \A s \in d.packing : s.id = r.id => s.ver < r.ver
      BY <1>1, <2>2, <2>3, <2>4 DEF Rows, DistinctIds
    <2>6. Rewrites("packing", d.packing, Put(d.packing, r))
      BY <1>1, <2>3, <2>4, <2>5, PutRows
    <2>7. DOMAIN m = Parts /\ m.journeys = d.journeys /\ m.segments = d.segments /\ m.packing = Put(d.packing, r)
      BY <1>1 DEF Parts
    <2> HIDE DEF m
    <2>8. QED
      BY <1>2, <2>1, <2>6, <2>7, TouchEvolves
  <1>5. CASE q.kind = "delete_item"
    <2> DEFINE m == deletePackingItem(d, q.j, q.id)
    <2>1. Applied(q, d) = Touch(m, q.j)
      BY <1>5 DEF Applied
    <2>2. DOMAIN m = Parts /\ m.journeys = d.journeys /\ m.segments = d.segments /\ m.packing \in SUBSET d.packing
      BY <1>1 DEF Parts, deletePackingItem
    <2> HIDE DEF m
    <2>3. QED
      BY <1>1, <1>2, <2>1, <2>2, SameRows, TouchEvolves
  <1>6. QED
    BY <1>3, <1>4, <1>5

\* The kinds of requests, by their objects.
LEMMA KindsAre ==
    Kinds = {"create_journey", "update_journey", "delete_journey"}
            \union {"create_segment", "update_segment", "reorder_segment", "delete_segment"}
            \union {"create_item", "update_item", "pack_item", "delete_item"}
  BY DEF Kinds, VersionedKinds, CreateKinds, DeleteKinds

\* Whatever request succeeds, rows only get newer.
LEMMA AppliedEvolves ==
    ASSUME NEW d, Tables(d), NEW q, q.kind \in Kinds, Outcome(q, d) = "ok", q.kind # "reorder_segment" => q.order = None
    PROVE  Evolved(d, Applied(q, d), q)
  BY KindsAre, JourneyWritten, SegmentWritten, ItemWritten

-----------------------------------------------------------------------------
(***************************************************************************)
(* The requests of an edit.                                                *)
(***************************************************************************)
\* What a request says of the row it is about.
Names(q, d) ==
    /\ q.kind \in Kinds
    /\ q.kind \in VersionedKinds =>
          q.seen \in d[CollectionOf(q.kind)] /\ q.seen.id = q.id /\ q.ver = q.seen.ver
    /\ q.kind = "update_journey" => q.j = q.id
    /\ q.kind \in DeleteKinds => \E r \in d.journeys \union d.segments \union d.packing : r.id = q.id

\* The row that is found by its identifier.
LEMMA FoundById ==
    ASSUME NEW S, NEW id, HasId(S, id)
    PROVE  WithId(S, id) \in S /\ WithId(S, id).id = id
  BY DEF HasId, WithId

\* Kinds and their tables.
LEMMA KindFacts ==
    /\ {"update_journey", "update_segment", "reorder_segment", "update_item", "pack_item"} = VersionedKinds
    /\ VersionedKinds \intersect CreateKinds = {} /\ VersionedKinds \intersect DeleteKinds = {} /\ CreateKinds \intersect DeleteKinds = {}
    /\ CollectionOf("update_journey") = "journeys" /\ CollectionOf("create_journey") = "journeys"
    /\ CollectionOf("update_segment") = "segments" /\ CollectionOf("reorder_segment") = "segments"
    /\ CollectionOf("create_segment") = "segments"
    /\ CollectionOf("update_item") = "packing" /\ CollectionOf("pack_item") = "packing" /\ CollectionOf("create_item") = "packing"
    /\ CreateKinds = {"create_journey", "create_segment", "create_item"}
    /\ DeleteKinds = {"delete_journey", "delete_segment", "delete_item"}
  BY DEF VersionedKinds, CreateKinds, DeleteKinds, CollectionOf

\* The requests of a save name rows of the document it compares with.
LEMMA DifferenceNames ==
    ASSUME NEW d, NEW n, NEW q \in Difference(d, n)
    PROVE  Names(q, d)
  <1>1. CASE JourneyRequest(q, d, n)
    <2>1. CASE \E r \in d.journeys : q = Request(1, "delete_journey", r.id, r.id, None, None)
      BY <2>1, RequestIs, KindFacts DEF Names, Kinds
    <2>2. CASE \E r \in n.journeys : q = Request(2, "create_journey", r.id, r.id, JourneyBody(r), None)
      BY <2>2, RequestIs, KindFacts DEF Names, Kinds
    <2>3. CASE \E r \in n.journeys :
          HasId(d.journeys, r.id) /\ q = Request(2, "update_journey", r.id, r.id, JourneyBody(r), WithId(d.journeys, r.id))
      BY <2>3, RequestIs, KindFacts, FoundById DEF Names, Kinds
    <2>4. QED
      BY <1>1, <2>1, <2>2, <2>3 DEF JourneyRequest
  <1>2. CASE SegmentRequest(q, d, n)
    <2>1. CASE \E s \in d.segments : q = Request(3, "delete_segment", s.journey, s.id, None, None)
      BY <2>1, RequestIs, KindFacts DEF Names, Kinds
    <2>2. CASE \E s \in n.segments : q = Request(4, "create_segment", s.journey, s.id, SegmentBody(s), None)
      BY <2>2, RequestIs, KindFacts DEF Names, Kinds
    <2>3. CASE \E s \in n.segments : HasId(d.segments, s.id)
          /\ q = Request(4, "update_segment", s.journey, s.id, SegmentBody(s), WithId(d.segments, s.id))
      BY <2>3, RequestIs, KindFacts, FoundById DEF Names, Kinds
    <2>4. CASE \E s \in n.segments : HasId(d.segments, s.id)
          /\ q = Request(5, "reorder_segment", s.journey, s.id, IndexIn(segmentsForJourney(n, s.journey), s), WithId(d.segments, s.id))
      BY <2>4, RequestIs, KindFacts, FoundById DEF Names, Kinds
    <2>5. QED
      BY <1>2, <2>1, <2>2, <2>3, <2>4 DEF SegmentRequest
  <1>3. CASE ItemRequest(q, d, n)
    <2>1. CASE \E p \in d.packing : q = Request(6, "delete_item", p.journey, p.id, None, None)
      BY <2>1, RequestIs, KindFacts DEF Names, Kinds
    <2>2. CASE \E p \in n.packing : q = Request(7, "create_item", p.journey, p.id, ItemBody(p), None)
      BY <2>2, RequestIs, KindFacts DEF Names, Kinds
    <2>3. CASE \E p \in n.packing : HasId(d.packing, p.id)
          /\ q = Request(7, "update_item", p.journey, p.id, ItemBody(p), WithId(d.packing, p.id))
      BY <2>3, RequestIs, KindFacts, FoundById DEF Names, Kinds
    <2>4. CASE \E p \in n.packing : HasId(d.packing, p.id)
          /\ q = Request(7, "pack_item", p.journey, p.id, p.packed, WithId(d.packing, p.id))
      BY <2>4, RequestIs, KindFacts, FoundById DEF Names, Kinds
    <2>5. QED
      BY <1>3, <2>1, <2>2, <2>3, <2>4 DEF ItemRequest
  <1>4. QED
    BY <1>1, <1>2, <1>3, JourneyRequestsAre, SegmentRequestsAre, ItemRequestsAre DEF Difference

\* The request that makes the row w.
Creation(c, w) ==
    IF c = "journeys" THEN Request(2, "create_journey", w.id, w.id, JourneyBody(w), None)
    ELSE IF c = "segments" THEN Request(4, "create_segment", w.journey, w.id, SegmentBody(w), None)
    ELSE Request(7, "create_item", w.journey, w.id, ItemBody(w), None)

\* A request to create is about a row that was not there.
LEMMA DifferenceCreates ==
    ASSUME NEW d, NEW n, NEW q \in Difference(d, n), q.kind \in CreateKinds
    PROVE  \E c \in Collections : \E w \in n[c] : ~HasId(d[c], w.id) /\ q = Creation(c, w)
  <1>1. CASE JourneyRequest(q, d, n)
    <2>1. \E r \in n.journeys : ~HasId(d.journeys, r.id) /\ q = Request(2, "create_journey", r.id, r.id, JourneyBody(r), None)
      BY <1>1, RequestIs, KindFacts DEF JourneyRequest
    <2>2. QED
      BY <2>1, CollectionsAre DEF Creation
  <1>2. CASE SegmentRequest(q, d, n)
    <2>1. \E s \in n.segments : ~HasId(d.segments, s.id) /\ q = Request(4, "create_segment", s.journey, s.id, SegmentBody(s), None)
      BY <1>2, RequestIs, KindFacts DEF SegmentRequest
    <2>2. QED
      BY <2>1, CollectionsAre DEF Creation
  <1>3. CASE ItemRequest(q, d, n)
    <2>1. \E p \in n.packing : ~HasId(d.packing, p.id) /\ q = Request(7, "create_item", p.journey, p.id, ItemBody(p), None)
      BY <1>3, RequestIs, KindFacts DEF ItemRequest
    <2>2. QED
      BY <2>1, CollectionsAre DEF Creation
  <1>4. QED
    BY <1>1, <1>2, <1>3, JourneyRequestsAre, SegmentRequestsAre, ItemRequestsAre DEF Difference

-----------------------------------------------------------------------------
(***************************************************************************)
(* What was seen of the server's rows.                                     *)
(***************************************************************************)
Held(q) == q \in late \/ \E t \in Tasks : Running(t) /\ q \in HeldBy(tasks[t])

SeenRow(c, r) ==
    \/ r \in server[c] \/ r \in current[c]
    \/ \E t \in Tasks : Running(t) /\ r \in tasks[t].doc[c]
    \/ \E q : Held(q) /\ q.kind \in VersionedKinds /\ CollectionOf(q.kind) = c /\ r = q.seen

\* A request says which row it is about and what was shown of it; only a
\* reorder gets an order.
Good(q) ==
    /\ q.kind \in Kinds
    /\ q.kind \in VersionedKinds => q.seen.id = q.id /\ q.ver = q.seen.ver
    /\ q.kind \in {"create_journey", "update_journey"} => q.j = q.id
    /\ q.kind \in DeleteKinds => (q.body.own => q.body.shown)
    /\ q.kind # "reorder_segment" => q.order = None

\* Every row that was ever read is an earlier state of the server's row, unless
\* an object with its identifier was created a second time.
RowsSeen ==
    /\ Tables(server) /\ DOMAIN current = Parts
    /\ \A c \in Collections : \A r : SeenRow(c, r) =>
          /\ DOMAIN r = Columns[c] /\ r.ver \in Nat /\ r.id \in born
          /\ r.id \notin reborn => \A n \in server[c] : n.id = r.id => Later(c, r, n)

RequestsHeld == \A q : Held(q) => Good(q)

\* The same request, perhaps with the identifier of its command or its order.
Alike(p, q) ==
    /\ p.kind = q.kind /\ p.j = q.j /\ p.id = q.id /\ p.body = q.body /\ p.seen = q.seen /\ p.ver = q.ver
    /\ p.kind # "reorder_segment" => p.order = q.order

NewRequest(p) ==
    /\ Good(p)
    /\ p.kind \in VersionedKinds => p.seen \in current[CollectionOf(p.kind)] \/ p.seen \in server[CollectionOf(p.kind)]
Admitted(p) == (\E q : Held(q) /\ Alike(p, q)) \/ NewRequest(p)

\* What a task reads was there to be read, what it asks it has asked before or
\* asks for the first time.
Continues(u) ==
    tasks'[u] # None =>
        /\ \A c \in Collections : \A r \in tasks'[u].doc[c] : SeenRow(c, r)
        /\ \A p \in HeldBy(tasks'[u]) : Admitted(p)

\* A request that was held is admitted.
LEMMA StillHeld ==
    ASSUME NEW p, Held(p)
    PROVE  Admitted(p)
  BY DEF Admitted, Alike

\* A task that goes on has read and asks what it had and did.
LEMMA GoingOnContinues ==
    ASSUME NEW u \in Tasks, GoesOn(u)
    PROVE  Continues(u)
  <1> SUFFICES ASSUME tasks'[u] # None PROVE Continues(u)
    BY DEF Continues
  <1>1. Running(u) /\ tasks'[u].doc = tasks[u].doc /\ HeldBy(tasks'[u]) = HeldBy(tasks[u])
    BY DEF GoesOn, SameTask, HeldBy
  <1>2. \A p \in HeldBy(tasks[u]) : Admitted(p)
    BY <1>1, StillHeld DEF Held
  <1>3. \A c \in Collections : \A r \in tasks[u].doc[c] : SeenRow(c, r)
    BY <1>1 DEF SeenRow
  <1>4. QED
    BY <1>1, <1>2, <1>3 DEF Continues

\* An identifier of a new row: it is the first with it, or noted as created again.
Counted(id) == id \in born' /\ (id \in born => id \in reborn')

\* What a step has to keep of the rows that were seen: rows of the server get
\* newer, and a new one is counted.
LEMMA SeenStep ==
    ASSUME RowsSeen, RequestsHeld, \A u \in Tasks : Continues(u), \A p \in late' : Admitted(p),
           \/ current' = current
           \/ DOMAIN current' = Parts /\ \A c \in Collections : \A r \in current'[c] : SeenRow(c, r),
           born \subseteq born', reborn \subseteq reborn', Tables(server'),
           \A c \in Collections : \A n \in server'[c] : (\E s \in server[c] : Later(c, s, n)) \/ Counted(n.id)
    PROVE  RowsSeen' /\ RequestsHeld'
  <1>1. ASSUME NEW p, Held(p)' PROVE Admitted(p)
    <2>1. CASE p \in late'
      BY <2>1
    <2>2. ASSUME NEW t \in Tasks, tasks'[t] # None, p \in HeldBy(tasks'[t]) PROVE Admitted(p)
      BY <2>2 DEF Continues
    <2>3. QED
      BY <1>1, <2>1, <2>2 DEF Held, Running, HeldBy
  <1>2. ASSUME NEW c \in Collections, NEW r, SeenRow(c, r)' PROVE SeenRow(c, r) \/ r \in server'[c]
    <2>1. CASE r \in current'[c]
      BY <2>1 DEF SeenRow
    <2>2. ASSUME NEW t \in Tasks, tasks'[t] # None, r \in tasks'[t].doc[c] PROVE SeenRow(c, r)
      BY <2>2 DEF Continues
    <2>3. ASSUME NEW p, Held(p)', p.kind \in VersionedKinds, CollectionOf(p.kind) = c, r = p.seen PROVE SeenRow(c, r)
      <3>1. CASE \E q : Held(q) /\ Alike(p, q)
        BY <2>3, <3>1 DEF SeenRow, Alike
      <3>2. CASE NewRequest(p)
        BY <2>3, <3>2 DEF SeenRow, NewRequest
      <3>3. QED
        BY <1>1, <2>3, <3>1, <3>2 DEF Admitted
    <2>4. QED
      BY <1>2, <2>1, <2>2, <2>3 DEF SeenRow, Running
  <1>3. \A c \in Collections : \A r, n : r \in server'[c] /\ n \in server'[c] /\ n.id = r.id => n = r
    BY DEF Tables, DistinctIds
  <1>4. \A c \in Collections : \A r \in server'[c] : DOMAIN r = Columns[c] /\ r.ver \in Nat
    BY DEF Tables
  <1>5. \A c \in Collections : \A s \in server[c] : SeenRow(c, s) /\ s.ver \in Nat /\ s.id \in born
    BY DEF RowsSeen, SeenRow
  <1>6. ASSUME NEW c \in Collections, NEW r \in server'[c]
        PROVE  r.id \in born' /\ \A n \in server'[c] : n.id = r.id => Later(c, r, n)
    <2>1. r.id \in born'
      BY <1>5 DEF Counted, Later
    <2>2. Later(c, r, r)
      BY <1>4 DEF Later
    <2>3. QED
      BY <1>3, <2>1, <2>2
  <1>7. ASSUME NEW c \in Collections, NEW r, SeenRow(c, r), r.id \notin reborn', NEW n \in server'[c], n.id = r.id
        PROVE  Later(c, r, n)
    <2>1. r.id \in born /\ r.id \notin reborn /\ r.ver \in Nat
      BY <1>7 DEF RowsSeen
    <2>2. PICK s \in server[c] : Later(c, s, n)
      BY <1>7, <2>1 DEF Counted
    <2>3. Later(c, r, s)
      BY <1>7, <2>1, <2>2 DEF RowsSeen, Later
    <2>4. s.ver \in Nat /\ n.ver \in Nat
      BY <1>4, <1>5
    <2>5. QED
      BY <2>1, <2>2, <2>3, <2>4 DEF Later
  <1>8. RowsSeen'
    <2>1. ASSUME NEW c \in Collections, NEW r, SeenRow(c, r)'
          PROVE  /\ DOMAIN r = Columns[c] /\ r.ver \in Nat /\ r.id \in born'
                 /\ r.id \notin reborn' => \A n \in server'[c] : n.id = r.id => Later(c, r, n)
      <3>1. CASE r \in server'[c]
        BY <1>4, <1>6, <3>1
      <3>2. CASE SeenRow(c, r)
        BY <1>7, <3>2 DEF RowsSeen
      <3>3. QED
        BY <1>2, <2>1, <3>1, <3>2
    <2>2. DOMAIN current' = Parts
      BY DEF RowsSeen
    <2>3. QED
      BY <2>1, <2>2 DEF RowsSeen
  <1>9. RequestsHeld'
    <2>1. ASSUME NEW p, Held(p)' PROVE Good(p)
      <3>1. CASE \E q : Held(q) /\ Alike(p, q)
        BY <3>1 DEF RequestsHeld, Good, Alike
      <3>2. QED
        BY <1>1, <2>1, <3>1 DEF Admitted, NewRequest
    <2>2. QED
      BY <2>1 DEF RequestsHeld, Good
  <1>10. QED
    BY <1>8, <1>9

\* The page shows the repository's document if a task of the page gave it.
Settled ==
    /\ \A t \in Tasks : Running(t) => t \in max.tasks
    /\ auth = "authenticated" /\ page.status = "ready" /\ loader = mounts => page.data = current

SeenInv == RowsSeen /\ RequestsHeld /\ Settled

\* At the start only the server's rows are there.
LEMMA InitSeenInv == Init => SeenInv
  <1> SUFFICES ASSUME Init PROVE SeenInv
    OBVIOUS
  <1>1. server = FirstDocument /\ current = EmptyDocument /\ late = {} /\ (\A t \in Tasks : ~Running(t))
        /\ auth = "anonymous" /\ \A r \in server.journeys \union server.segments \union server.packing : r.id \in born
    BY DEF Init, Running
  <1>2. \A q : ~Held(q)
    BY <1>1 DEF Held
  <1>3. \A c \in Collections : current[c] = {}
    BY <1>1, CollectionsAre DEF EmptyDocument
  <1>4. \A c \in Collections : \A r : SeenRow(c, r) => r \in server[c]
    BY <1>1, <1>2, <1>3 DEF SeenRow
  <1>5. Tables(server)
    BY <1>1, FirstDocumentAssumption
  <1>6. \A c \in Collections : \A r \in server[c] : r.id \in born
    BY <1>1, CollectionsAre
  <1>7. RowsSeen
    <2>1. DOMAIN current = Parts
      BY <1>1 DEF EmptyDocument, Parts
    <2>2. \A c \in Collections : \A r \in server[c] : DOMAIN r = Columns[c] /\ r.ver \in Nat
          /\ \A n \in server[c] : n.id = r.id => n = r
      BY <1>5 DEF Tables, DistinctIds
    <2>3. \A c \in Collections : \A r \in server[c] : Later(c, r, r)
      BY <2>2 DEF Later
    <2>4. \A c \in Collections : \A r \in server[c] : \A n \in server[c] : n.id = r.id => Later(c, r, n)
      BY <2>2, <2>3
    <2>5. QED
      BY <1>4, <1>5, <1>6, <2>1, <2>2, <2>4 DEF RowsSeen
  <1>8. QED
    BY <1>1, <1>2, <1>7 DEF SeenInv, RequestsHeld, Settled

\* A step that writes nothing at the server.
LEMMA QuietStep ==
    ASSUME RowsSeen, RequestsHeld, \A u \in Tasks : Continues(u), \A p \in late' : Admitted(p),
           \/ current' = current
           \/ DOMAIN current' = Parts /\ \A c \in Collections : \A r \in current'[c] : SeenRow(c, r),
           server' = server, born \subseteq born', reborn \subseteq reborn'
    PROVE  RowsSeen' /\ RequestsHeld'
  <1>1. Tables(server')
    BY DEF RowsSeen
  <1>2. \A c \in Collections : \A n \in server'[c] : \E s \in server[c] : Later(c, s, n)
    <2>1. \A c \in Collections : \A n \in server[c] : n.ver \in Nat
      BY DEF RowsSeen, Tables
    <2>2. \A c \in Collections : \A n \in server[c] : Later(c, n, n)
      BY <2>1 DEF Later
    <2>3. QED
      BY <2>2
  <1>3. QED
    BY <1>1, <1>2, SeenStep

\* The server carries out a request, and counts what it creates.
LEMMA WrittenStep ==
    ASSUME RowsSeen, RequestsHeld, NEW q, q.kind \in Kinds, q.kind # "reorder_segment" => q.order = None,
           Outcome(q, server) = "ok", server' = Applied(q, server),
           IF q.kind \in CreateKinds THEN Arrives(q) ELSE UNCHANGED <<born, reborn>>,
           \A u \in Tasks : Continues(u), \A p \in late' : Admitted(p), UNCHANGED current
    PROVE  RowsSeen' /\ RequestsHeld'
  <1>1. Evolved(server, server', q)
    BY AppliedEvolves DEF RowsSeen
  <1>2. born \subseteq born' /\ reborn \subseteq reborn' /\ (q.kind \in CreateKinds => Counted(q.id))
    BY DEF Arrives, Counted
  <1>3. Tables(server') /\ \A c \in Collections : \A n \in server'[c] : (\E s \in server[c] : Later(c, s, n)) \/ Counted(n.id)
    BY <1>1, <1>2 DEF Evolved
  <1>4. QED
    BY <1>2, <1>3, SeenStep

\* The server carries out a request that was held, or does nothing.
LEMMA ServedStep ==
    ASSUME RowsSeen, RequestsHeld, NEW q, Held(q), Served(q),
           \A u \in Tasks : Continues(u), \A p \in late' : Admitted(p), UNCHANGED current
    PROVE  RowsSeen' /\ RequestsHeld'
  <1>1. Good(q)
    BY DEF RequestsHeld
  <1>2. CASE UNCHANGED contents
    BY <1>2, QuietStep DEF contents
  <1>3. CASE ServerDoes(q) /\ ~Known(q) /\ Outcome(q, server) = "ok"
    <2>1. server' = Applied(q, server) /\ IF q.kind \in CreateKinds THEN Arrives(q) ELSE UNCHANGED <<born, reborn>>
      BY <1>3 DEF ServerDoes, Answer
    <2>2. QED
      BY <1>1, <1>3, <2>1, WrittenStep DEF Good
  <1>4. CASE ServerDoes(q) /\ ~(~Known(q) /\ Outcome(q, server) = "ok")
    <2>1. UNCHANGED <<server, born, reborn>>
      BY <1>4 DEF ServerDoes, Answer
    <2>2. QED
      BY <2>1, QuietStep
  <1>5. QED
    BY <1>2, <1>3, <1>4 DEF Served

\* What a step has to keep of the page.
LEMMA SettledStep ==
    ASSUME Settled, UNCHANGED <<current, loader, mounts, max>>, page'.data = page.data,
           page'.status = page.status \/ page'.status # "ready", auth' = auth \/ auth' # "authenticated",
           \A u \in Tasks : tasks'[u] # None => Running(u) \/ u \in max.tasks
    PROVE  Settled'
  BY DEF Settled, Running

\* A task that goes on was there.
LEMMA GoingOnRuns ==
    ASSUME NEW u \in Tasks, GoesOn(u)
    PROVE  tasks'[u] # None => Running(u)
  BY DEF GoesOn

\* A task without requests.
LEMMA NothingHeld ==
    ASSUME NEW t \in Tasks, tasks'[t].todo = {}, tasks'[t].cur = None
    PROVE  HeldBy(tasks'[t]) = {}
  BY DEF HeldBy

\* Requests that nobody waits for stay admitted.
LEMMA LateHeld ==
    ASSUME \A p \in late' : p \in late
    PROVE  \A p \in late' : Admitted(p)
  BY StillHeld DEF Held

\* Login and Retry.
LEMMA LoginSeen ==
    ASSUME Shapes, SeenInv, NEW t \in max.tasks, Login(t) \/ Retry(t)
    PROVE  SeenInv'
  <1>1. t \in Tasks
    BY MyTasks
  <1>2. /\ ~Running(t) /\ \A u \in Tasks \ {t} : GoesOn(u)
        /\ tasks'[t].todo = {} /\ tasks'[t].cur = None /\ tasks'[t].doc = EmptyDocument
    BY <1>1, LoginStep
  <1>3. UNCHANGED <<server, born, reborn, current, late, max>>
    BY DEF Login, Retry, serverVars, contents, repository, bounds, identifiers
  <1>4. HeldBy(tasks'[t]) = {}
    BY <1>1, <1>2, NothingHeld
  <1>5. \A u \in Tasks : Continues(u)
    <2>1. \A c \in Collections : EmptyDocument[c] = {}
      BY CollectionsAre DEF EmptyDocument
    <2>2. Continues(t)
      BY <1>2, <1>4, <2>1 DEF Continues
    <2>3. QED
      BY <1>2, <2>2, GoingOnContinues
  <1>6. RowsSeen' /\ RequestsHeld'
    BY <1>3, <1>5, LateHeld, QuietStep DEF SeenInv
  <1>7. page'.status = "loading"
    <2>1. CASE Login(t)
      BY <2>1 DEF Login, Loading
    <2>2. CASE Retry(t)
      BY <2>2 DEF Retry, Shapes
    <2>3. QED
      BY <2>1, <2>2
  <1>8. \A u \in Tasks : tasks'[u] # None => u \in max.tasks
    BY <1>2, GoingOnRuns DEF SeenInv, Settled
  <1>9. Settled'
    BY <1>3, <1>7, <1>8 DEF Settled, Running
  <1>10. QED
    BY <1>6, <1>9 DEF SeenInv

\* The requests of a save, as the page marks them: a deletion is about a row of
\* the repository's document, which is the page's if the page's task gave it.
LEMMA SaveRequests ==
    ASSUME Shapes, SeenInv, auth = "authenticated", page.status = "ready",
           NEW n, NEW q, NEW p \in Difference(current, n), Marks(q, p)
    PROVE  NewRequest(q)
  <1>1. Names(p, current) /\ DOMAIN p = RequestFields /\ p.order = None
    BY DifferenceNames, DifferenceShape
  <1>2. p.kind = "create_journey" => p.j = p.id
    BY DifferenceCreates, RequestIs, KindFacts DEF Creation
  <1>3. CASE p.kind \notin DeleteKinds
    <2>1. q = p
      BY <1>3 DEF Marks
    <2>2. QED
      BY <1>1, <1>2, <1>3, <2>1 DEF NewRequest, Good, Names
  <1>4. CASE p.kind \in DeleteKinds
    <2>1. \E r \in current.journeys \union current.segments \union current.packing : r.id = p.id
      BY <1>1, <1>4 DEF Names
    <2>2. loader = mounts => page.data = current
      BY DEF SeenInv, Settled
    <2> DEFINE shown == \E r \in page.data.journeys \union page.data.segments \union page.data.packing : r.id = p.id
               b == [shown |-> shown, own |-> loader = mounts]
    <2>3. b.own => b.shown
      BY <2>1, <2>2
    <2>4. q = [p EXCEPT !.body = b]
      BY <1>4 DEF Marks
    <2> HIDE DEF b
    <2>5. q.kind = p.kind /\ q.body = b /\ q.order = None
      BY <1>1, <2>4 DEF RequestFields
    <2>6. q.kind \notin VersionedKinds /\ q.kind \notin CreateKinds /\ q.kind \in Kinds
      BY <1>4, <2>5, KindFacts DEF Kinds
    <2>7. QED
      BY <2>3, <2>5, <2>6, KindFacts DEF NewRequest, Good
  <1>5. QED
    BY <1>3, <1>4

\* StartCommit: its requests name rows of the repository's document.
LEMMA StartCommitSeen ==
    ASSUME Shapes, SeenInv, NEW t \in max.tasks, NEW e \in max.choice, StartCommit(t, e)
    PROVE  SeenInv'
  <1>1. t \in Tasks
    BY MyTasks
  <1>2. /\ ~Running(t) /\ \A u \in Tasks \ {t} : GoesOn(u)
        /\ tasks'[t].cur = None /\ tasks'[t].doc = EmptyDocument
    BY <1>1, StartCommitStep
  <1>3. \A q \in tasks'[t].todo : \E p \in Difference(current, Edited(e, page.data)) : Marks(q, p)
    BY <1>1, StartCommitStep
  <1>4. /\ auth = "authenticated" /\ page.status = "ready"
        /\ UNCHANGED <<server, born, reborn, current, loader, late, page, auth, mounts, max>>
    BY DEF StartCommit, serverVars, contents, repository, provider
  <1>5. \A q \in HeldBy(tasks'[t]) : NewRequest(q)
    BY <1>2, <1>3, <1>4, SaveRequests DEF HeldBy
  <1>6. \A u \in Tasks : Continues(u)
    <2>1. \A c \in Collections : EmptyDocument[c] = {}
      BY CollectionsAre DEF EmptyDocument
    <2>2. Continues(t)
      BY <1>2, <1>5, <2>1 DEF Continues, Admitted
    <2>3. QED
      BY <1>2, <2>2, GoingOnContinues
  <1>7. RowsSeen' /\ RequestsHeld'
    BY <1>4, <1>6, LateHeld, QuietStep DEF SeenInv
  <1>8. Settled'
    BY <1>2, <1>4, GoingOnRuns, SettledStep DEF SeenInv
  <1>9. QED
    BY <1>7, <1>8 DEF SeenInv

\* Send and CheckReorder: the task holds the requests it held, one of them with
\* the identifier of its command or with its order.
LEMMA SendSeen ==
    ASSUME Shapes, SeenInv, NEW t \in max.tasks, Send(t) \/ CheckReorder(t)
    PROVE  SeenInv'
  <1>1. t \in Tasks
    BY MyTasks
  <1>2. /\ Running(t) /\ \A u \in Tasks \ {t} : GoesOn(u)
        /\ SamePlace(tasks[t], tasks'[t]) /\ TaskShape(tasks[t])
        /\ UNCHANGED <<server, born, reborn, current, loader, late, page, auth, mounts, max>>
    BY <1>1, SendStep, CheckReorderStep DEF Send, serverVars, contents, provider, Shapes
  <1>3. \A p \in HeldBy(tasks'[t]) : \E q \in HeldBy(tasks[t]) : Alike(p, q)
    <2>1. \A p : Alike(p, p)
      BY DEF Alike
    <2>2. CASE Send(t)
      <3>1. PICK q \in tasks[t].todo : Sends(t, q)
        BY <1>1, <2>2, SendStep
      <3>2. DOMAIN q = RequestFields /\ q \in HeldBy(tasks[t])
        BY <1>2, <3>1 DEF HeldBy, TaskShape
      <3>3. Alike(tasks'[t].cur, q) /\ tasks'[t].todo = tasks[t].todo \ {q}
        BY <3>1, <3>2 DEF Sends, Alike, RequestFields
      <3>4. QED
        BY <2>1, <3>2, <3>3 DEF HeldBy
    <2>3. CASE CheckReorder(t)
      <3>1. /\ tasks[t].cur # None /\ tasks'[t].todo = tasks[t].todo
            /\ tasks'[t].cur = Checked(tasks[t].cur, server)
            /\ DOMAIN tasks[t].cur = RequestFields /\ tasks[t].cur.kind = "reorder_segment"
        BY <1>1, <2>3, CheckReorderStep
      <3>2. Alike(tasks'[t].cur, tasks[t].cur)
        BY <3>1, CheckedIs DEF Alike
      <3>3. QED
        BY <2>1, <3>1, <3>2 DEF HeldBy
    <2>4. QED
      BY <2>2, <2>3
  <1>4. \A u \in Tasks : Continues(u)
    <2>1. \A p \in HeldBy(tasks'[t]) : Admitted(p)
      BY <1>1, <1>2, <1>3 DEF Admitted, Held
    <2>2. \A d \in Collections : \A r \in tasks'[t].doc[d] : SeenRow(d, r)
      BY <1>1, <1>2 DEF SamePlace, SeenRow
    <2>3. QED
      BY <1>2, <2>1, <2>2, GoingOnContinues DEF Continues
  <1>5. RowsSeen' /\ RequestsHeld'
    BY <1>2, <1>4, LateHeld, QuietStep DEF SeenInv
  <1>6. Settled'
    BY <1>2, GoingOnRuns, SettledStep DEF SeenInv
  <1>7. QED
    BY <1>5, <1>6 DEF SeenInv

\* A request is over, or goes on to be carried out later.
LEMMA OverSeen ==
    ASSUME Shapes, SeenInv, NEW t \in max.tasks, Answered(t) \/ Unreachable(t)
    PROVE  SeenInv'
  <1> DEFINE q == tasks[t].cur
  <1>1. t \in Tasks
    BY MyTasks
  <1>2. /\ Running(t) /\ q # None /\ \A u \in Tasks \ {t} : GoesOn(u)
        /\ page'.data = page.data /\ (page'.status = page.status \/ page'.status = "error")
        /\ auth' = auth \/ auth' = "anonymous"
        /\ UNCHANGED <<current, loader, mounts, max>>
    BY <1>1, AnsweredStep, UnreachableStep
  <1>3. tasks'[t] = None \/ (SamePlace(tasks[t], tasks'[t]) /\ tasks'[t].todo = tasks[t].todo /\ tasks'[t].cur = None)
    BY <1>1, AnsweredStep, UnreachableStep
  <1>4. \/ Served(q) /\ late' = late
        \/ late' = late \union {q} /\ UNCHANGED contents
    BY <1>1, AnsweredStep, UnreachableStep
  <1>5. Held(q)
    BY <1>1, <1>2 DEF Held, HeldBy
  <1>6. \A u \in Tasks : Continues(u)
    <2>1. tasks'[t] # None => HeldBy(tasks'[t]) = tasks[t].todo
      BY <1>3 DEF HeldBy
    <2>2. \A p \in tasks[t].todo : Admitted(p)
      BY <1>1, <1>2, StillHeld DEF Held, HeldBy
    <2>3. ASSUME tasks'[t] # None PROVE \A d \in Collections : \A r \in tasks'[t].doc[d] : SeenRow(d, r)
      BY <1>1, <1>2, <1>3, <2>3 DEF SamePlace, SeenRow
    <2>4. Continues(t)
      BY <2>1, <2>2, <2>3 DEF Continues
    <2>5. QED
      BY <1>2, <2>4, GoingOnContinues
  <1> HIDE DEF q
  <1>7. \A p \in late' : Admitted(p)
    BY <1>4, <1>5, StillHeld DEF Held
  <1>8. RowsSeen' /\ RequestsHeld'
    BY <1>2, <1>4, <1>5, <1>6, <1>7, ServedStep DEF SeenInv, Served
  <1>9. Settled'
    BY <1>2, GoingOnRuns, SettledStep DEF SeenInv
  <1>10. QED
    BY <1>8, <1>9 DEF SeenInv

\* ArriveLate: a request is carried out that nobody waits for.
LEMMA ArriveLateSeen ==
    ASSUME Shapes, SeenInv, NEW q \in late, ArriveLate(q)
    PROVE  SeenInv'
  <1>1. /\ \A u \in Tasks : GoesOn(u)
        /\ late' = late \ {q} /\ Served(q)
        /\ UNCHANGED <<page, auth, current, loader, mounts, max>>
    BY ArriveLateStep
  <1>2. \A u \in Tasks : Continues(u)
    BY <1>1, GoingOnContinues
  <1>3. Held(q) /\ \A p \in late' : Admitted(p)
    BY <1>1, LateHeld DEF Held
  <1>4. RowsSeen' /\ RequestsHeld'
    BY <1>1, <1>2, <1>3, ServedStep DEF SeenInv
  <1>5. Settled'
    BY <1>1, GoingOnRuns, SettledStep DEF SeenInv
  <1>6. QED
    BY <1>4, <1>5 DEF SeenInv

\* CheckLate and OtherDeviceReorders: the reads of a reorder, which names the
\* row it was made for.
LEMMA ReordersSeen ==
    ASSUME Shapes, SeenInv,
           (\E q \in late : CheckLate(q)) \/ (\E e \in max.elsewhere : OtherDeviceReorders(e))
    PROVE  SeenInv'
  <1>1. /\ \A u \in Tasks : GoesOn(u)
        /\ UNCHANGED <<server, born, reborn, page, auth, current, loader, mounts, max>>
    BY CheckLateStep, OtherDeviceReordersStep
  <1>2. \A u \in Tasks : Continues(u)
    BY <1>1, GoingOnContinues
  <1>3. \A p \in late : Admitted(p)
    BY StillHeld DEF Held
  <1>4. ASSUME NEW q \in late, CheckLate(q) PROVE \A p \in late' : Admitted(p)
    <2>1. /\ DOMAIN q = RequestFields /\ q.kind = "reorder_segment"
          /\ late' = (late \ {q}) \union {Checked(q, server)}
      BY <1>4, CheckLateStep
    <2>2. Alike(Checked(q, server), q) /\ Held(q)
      BY <2>1, CheckedIs DEF Alike, Held
    <2>3. QED
      BY <1>3, <2>1, <2>2 DEF Admitted
  <1>5. ASSUME NEW e, OtherDeviceReorders(e) PROVE \A p \in late' : Admitted(p)
    <2>1. PICK q \in Difference(server, Edited(e, server)) :
              q.kind = "reorder_segment" /\ late' = late \union {Checked(q, server)}
      BY <1>5, OtherDeviceReordersStep
    <2>2. Names(q, server) /\ DOMAIN q = RequestFields
      BY DifferenceNames, DifferenceShape
    <2> DEFINE c == Checked(q, server)
    <2>3. c.kind = "reorder_segment" /\ c.id = q.id /\ c.seen = q.seen /\ c.ver = q.ver
      BY <2>1, <2>2, CheckedIs
    <2> HIDE DEF c
    <2>4. NewRequest(c)
      BY <2>1, <2>2, <2>3, KindFacts DEF NewRequest, Good, Names
    <2>5. QED
      BY <1>3, <2>1, <2>4 DEF Admitted, c
  <1>6. \A p \in late' : Admitted(p)
    BY <1>4, <1>5
  <1>7. RowsSeen' /\ RequestsHeld'
    BY <1>1, <1>2, <1>6, QuietStep DEF SeenInv
  <1>8. Settled'
    BY <1>1, GoingOnRuns, SettledStep DEF SeenInv
  <1>9. QED
    BY <1>7, <1>8 DEF SeenInv

\* OtherDevice: somebody else's request is carried out.
LEMMA OtherDeviceSeen ==
    ASSUME Shapes, SeenInv, NEW e, OtherDevice(e)
    PROVE  SeenInv'
  <1>1. /\ \A u \in Tasks : GoesOn(u)
        /\ UNCHANGED <<page, auth, current, loader, mounts, late, max>>
    BY OtherDeviceStep
  <1>2. PICK q \in Difference(server, Edited(e, server)) :
            /\ Outcome(q, server) = "ok" /\ server' = Applied(q, server)
            /\ IF q.kind \in CreateKinds THEN Arrives(q) ELSE UNCHANGED <<born, reborn>>
    BY OtherDeviceStep
  <1>3. q.kind \in Kinds /\ q.order = None
    BY DifferenceNames, DifferenceShape DEF Names
  <1>4. \A u \in Tasks : Continues(u)
    BY <1>1, GoingOnContinues
  <1>5. RowsSeen' /\ RequestsHeld'
    BY <1>1, <1>2, <1>3, <1>4, LateHeld, WrittenStep DEF SeenInv
  <1>6. Settled'
    BY <1>1, GoingOnRuns, SettledStep DEF SeenInv
  <1>7. QED
    BY <1>5, <1>6 DEF SeenInv

\* A task that reads: its rows are the server's.
LEMMA ReadSeen ==
    ASSUME Shapes, SeenInv, NEW t \in Tasks,
           ListJourneys(t) \/ \E r \in {"segments", "packing"} \X AllJourneyIds : Read(t, r)
    PROVE  SeenInv'
  <1>1. /\ Running(t) /\ \A u \in Tasks \ {t} : GoesOn(u)
        /\ page'.data = page.data /\ (page'.status = page.status \/ page'.status = "error")
        /\ auth' = auth \/ auth' = "anonymous"
        /\ UNCHANGED <<server, born, reborn, current, loader, mounts, late, max>>
    BY ListJourneysStep, ReadStep
  <1> DEFINE n == tasks'[t]
             k == tasks[t]
  <1>2. \/ GoesOn(t)
        \/ /\ n.todo = {} /\ n.cur = None
           /\ n.doc.journeys = server.journeys \/ n.doc.journeys = k.doc.journeys
           /\ n.doc.segments = k.doc.segments \/ \E j : n.doc.segments = k.doc.segments \union segmentsForJourney(server, j)
           /\ n.doc.packing = k.doc.packing \/ \E j : n.doc.packing = k.doc.packing \union packingForJourney(server, j)
    BY ListJourneysStep, ReadStep
  <1>3. Continues(t)
    <2>1. CASE GoesOn(t)
      BY <2>1, GoingOnContinues
    <2>2. CASE ~GoesOn(t)
      <3>1. HeldBy(n) = {}
        BY <1>2, <2>2, NothingHeld
      <3>2. /\ \A r \in n.doc.journeys : r \in server.journeys \/ r \in k.doc.journeys
            /\ \A r \in n.doc.segments : r \in server.segments \/ r \in k.doc.segments
            /\ \A r \in n.doc.packing : r \in server.packing \/ r \in k.doc.packing
        BY <1>2, <2>2 DEF segmentsForJourney, packingForJourney
      <3>3. \A c \in Collections : \A r \in n.doc[c] : r \in server[c] \/ r \in k.doc[c]
        BY <3>2, CollectionsAre
      <3>4. \A c \in Collections : \A r \in n.doc[c] : SeenRow(c, r)
        BY <1>1, <3>3 DEF SeenRow
      <3>5. QED
        BY <3>1, <3>4 DEF Continues
    <2>3. QED
      BY <2>1, <2>2
  <1>4. \A u \in Tasks : Continues(u)
    BY <1>1, <1>3, GoingOnContinues
  <1>5. RowsSeen' /\ RequestsHeld'
    BY <1>1, <1>4, LateHeld, QuietStep DEF SeenInv
  <1>6. Settled'
    BY <1>1, GoingOnRuns, SettledStep DEF SeenInv
  <1>7. QED
    BY <1>5, <1>6 DEF SeenInv

\* FinishLoad: the repository takes the document, and the page too if the task
\* is the page's.
LEMMA FinishLoadSeen ==
    ASSUME Shapes, SeenInv, NEW t \in Tasks, FinishLoad(t)
    PROVE  SeenInv'
  <1>1. /\ Running(t) /\ (\A u \in Tasks : GoesOn(u)) /\ tasks'[t] = None
        /\ current' = tasks[t].doc /\ loader' = tasks[t].mount
        /\ Mine(t) => page'.data = tasks[t].doc
        /\ UNCHANGED <<server, born, reborn, auth, mounts, late, max>>
    BY FinishLoadStep
  <1>2. DOMAIN current' = Parts
    BY <1>1, CollectionsAre DEF Shapes, TaskShape, Parts
  <1>3. \A c \in Collections : \A r \in current'[c] : SeenRow(c, r)
    BY <1>1 DEF SeenRow
  <1>4. \A u \in Tasks : Continues(u)
    BY <1>1, GoingOnContinues
  <1>5. RowsSeen' /\ RequestsHeld'
    BY <1>1, <1>2, <1>3, <1>4, LateHeld, QuietStep DEF SeenInv
  <1>6. Settled'
    <2>1. \A u \in Tasks : tasks'[u] # None => u \in max.tasks
      BY <1>1, GoingOnRuns DEF SeenInv, Settled
    <2>2. auth' = "authenticated" /\ loader' = mounts' => page'.data = current'
      BY <1>1 DEF Mine
    <2>3. QED
      BY <1>1, <2>1, <2>2 DEF Settled, Running
  <1>7. QED
    BY <1>5, <1>6 DEF SeenInv

\* A step that takes nothing up and writes nothing.
LEMMA RestSeen ==
    ASSUME Shapes, SeenInv,
           \/ \E t \in Tasks : LoadFails(t)
           \/ Logout \/ Expire \/ UNCHANGED vars
    PROVE  SeenInv'
  <1>1. /\ \A u \in Tasks : GoesOn(u)
        /\ page'.data = page.data /\ (page'.status = page.status \/ page'.status = "error")
        /\ auth' = auth \/ auth' = "anonymous"
        /\ UNCHANGED <<server, born, reborn, current, loader, mounts, late, max>>
    <2>1. CASE UNCHANGED vars
      <3>1. UNCHANGED <<tasks, server, born, reborn, current, loader, mounts, late, max, page, auth>>
        BY <2>1 DEF vars, serverVars, contents, repository, provider, bounds, identifiers
      <3>2. QED
        BY <3>1, Unmoved
    <2>2. QED
      BY <2>1, LoadFailsStep, SessionStep
  <1>2. \A u \in Tasks : Continues(u)
    BY <1>1, GoingOnContinues
  <1>3. RowsSeen' /\ RequestsHeld'
    BY <1>1, <1>2, LateHeld, QuietStep DEF SeenInv
  <1>4. Settled'
    BY <1>1, GoingOnRuns, SettledStep DEF SeenInv
  <1>5. QED
    BY <1>3, <1>4 DEF SeenInv

\* No step changes the scenario.
LEMMA SameScenario ==
    ASSUME Shapes, [Next]_vars
    PROVE  max' = max
  BY DEF Next, vars, bounds, Login, Retry, Send, CheckReorder, Answered, Unreachable, ListJourneys, LoadFails, FinishLoad,
         StartCommit, Read, Logout, Expire, CheckLate, ArriveLate, OtherDevice, OtherDeviceReorders

\* Every step keeps what was seen below what is there.
LEMMA NextSeenInv == Shapes /\ SeenInv /\ [Next]_vars => SeenInv'
  <1> SUFFICES ASSUME Shapes, SeenInv, [Next]_vars PROVE SeenInv'
    OBVIOUS
  <1>1. ASSUME NEW t \in max.tasks,
               \/ Login(t) \/ Retry(t) \/ Send(t) \/ CheckReorder(t) \/ Answered(t) \/ Unreachable(t)
               \/ ListJourneys(t) \/ LoadFails(t) \/ FinishLoad(t)
               \/ \E e \in max.choice : StartCommit(t, e)
               \/ \E r \in {"segments", "packing"} \X AllJourneyIds : Read(t, r)
        PROVE  SeenInv'
    <2>1. t \in Tasks
      BY MyTasks
    <2>2. QED
      BY <1>1, <2>1, LoginSeen, SendSeen, OverSeen, ReadSeen, RestSeen, FinishLoadSeen, StartCommitSeen
  <1>2. QED
    BY <1>1, RestSeen, ReordersSeen, ArriveLateSeen, OtherDeviceSeen DEF Next

\* What a request that fits finds is what was seen.
LEMMA SeenWrites ==
    ASSUME SeenInv
    PROVE  WritesOnlyWhatWasSeen
  <1> SUFFICES ASSUME NEW q \in InFlight
               PROVE  /\ Versioned(q) /\ q.order = None /\ q.id \notin reborn /\ ~Known(q) /\ Outcome(q, server) = "ok" =>
                            Unnumbered(q, RowOf(q, server)) = Unnumbered(q, q.seen)
                      /\ q.kind \in DeleteKinds => (q.body.own => q.body.shown)
    BY DEF WritesOnlyWhatWasSeen
  <1>1. Held(q)
    BY DEF InFlight, Held, HeldBy
  <1>2. Good(q)
    BY <1>1 DEF SeenInv, RequestsHeld
  <1>3. ASSUME Versioned(q), q.order = None, q.id \notin reborn, Outcome(q, server) = "ok"
        PROVE  Unnumbered(q, RowOf(q, server)) = Unnumbered(q, q.seen)
    <2> DEFINE c == CollectionOf(q.kind)
               n == RowOf(q, server)
    <2>1. q.kind \in VersionedKinds /\ q.seen.id = q.id /\ q.ver = q.seen.ver /\ (q.kind = "update_journey" => q.j = q.id)
      BY <1>2, <1>3 DEF Versioned, Good
    <2>2. c \in Collections
      BY CollectionsAre DEF CollectionOf
    <2>3. SeenRow(c, q.seen)
      BY <1>1, <2>1 DEF SeenRow
    <2>4. Found(q, server) /\ n.ver = q.ver
      BY <1>3 DEF Outcome
    <2>5. n \in server[c] /\ n.id = q.id
      <3>1. CASE q.kind = "update_journey"
        <4>1. HasId(server.journeys, q.j) /\ c = "journeys" /\ n = WithId(server.journeys, q.j)
          BY <2>4, <3>1, KindFacts DEF Found, JourneyExists, HasId, RowOf
        <4>2. QED
          BY <2>1, <3>1, <4>1, FoundById
      <3>2. CASE q.kind \in {"update_segment", "reorder_segment"}
        <4>1. HasId(server.segments, q.id) /\ c = "segments" /\ n = WithId(server.segments, q.id)
          BY <2>4, <3>2, KindFacts DEF Found, OwnedSegment, segmentsForJourney, HasId, RowOf
        <4>2. QED
          BY <4>1, FoundById
      <3>3. CASE q.kind \in {"update_item", "pack_item"}
        <4>1. HasId(server.packing, q.id) /\ c = "packing" /\ n = WithId(server.packing, q.id)
          BY <2>4, <3>3, KindFacts DEF Found, OwnedItem, packingForJourney, HasId, RowOf
        <4>2. QED
          BY <4>1, FoundById
      <3>4. QED
        BY <2>1, <3>1, <3>2, <3>3 DEF VersionedKinds
    <2> HIDE DEF n
    <2>6. Later(c, q.seen, n)
      BY <1>3, <2>1, <2>2, <2>3, <2>5 DEF SeenInv, RowsSeen
    <2>7. Text(c, q.seen) = Text(c, n)
      BY <2>1, <2>4, <2>6 DEF Later
    <2>8. Unnumbered(q, n) = Text(c, n) /\ Unnumbered(q, q.seen) = Text(c, q.seen)
      <3>1. (c = "segments") <=> q.kind \in {"update_segment", "reorder_segment"}
        BY <2>1, KindFacts
      <3> HIDE DEF c
      <3>2. QED
        BY <3>1 DEF Unnumbered, Text
    <2>9. QED
      BY <2>7, <2>8 DEF n
  <1>4. QED
    BY <1>2, <1>3 DEF Good

\* For any number of tasks, mounts, edits, losses, late requests and other
\* devices: a request that changes a row finds the text that the repository saw
\* (a reorder when its version is compared), unless the object was created a
\* second time; and a save deletes only what the page shows, unless the document
\* it compares with came from a task of another page (Outcome's version check,
\* the comparison of save, FinishLoad's hand-over).
THEOREM ClientWritesOnlyWhatWasSeen == Spec => []WritesOnlyWhatWasSeen
  <1>1. Init => Shapes /\ SeenInv
    BY InitShapes, InitSeenInv
  <1>2. Shapes /\ SeenInv /\ [Next]_vars => Shapes' /\ SeenInv'
    BY NextShapes, NextSeenInv
  <1>3. SeenInv => WritesOnlyWhatWasSeen
    BY SeenWrites
  <1>4. QED
    BY <1>1, <1>2, <1>3, PTL DEF Spec

-----------------------------------------------------------------------------
(***************************************************************************)
(* An update that is sent again.                                           *)
(***************************************************************************)
\* A request writes the row of its own Journey only.
LEMMA JourneysElsewhere ==
    ASSUME NEW d, Tables(d), NEW q, q.kind \in Kinds, Outcome(q, d) = "ok", q.kind = "create_journey" => q.j = q.id
    PROVE  \A r \in Applied(q, d).journeys : r.id # q.j => r \in d.journeys
  <1>1. DOMAIN d = {"journeys", "segments", "packing"} /\ Rows("journeys", d.journeys)
    BY TablesAre
  <1>2. ASSUME NEW m, DOMAIN m = {"journeys", "segments", "packing"}, m.journeys = d.journeys, Applied(q, d) = Touch(m, q.j)
        PROVE  \A r \in Applied(q, d).journeys : r.id # q.j => r \in d.journeys
    BY <1>1, <1>2, TouchRows
  <1>3. CASE q.kind = "create_journey"
    BY <1>1, <1>3 DEF Applied, createJourney
  <1>4. CASE q.kind = "delete_journey"
    BY <1>1, <1>4 DEF Applied, deleteJourney
  <1>5. CASE q.kind = "update_journey"
    <2> DEFINE o == WithId(d.journeys, q.j)
               r == [o EXCEPT !.name = q.body.name, !.start = q.body.start,
                              !.end = q.body.end, !.status = q.body.status, !.ver = @ + 1]
    <2>1. Applied(q, d).journeys = Put(d.journeys, r) /\ JourneyExists(d, q.j)
      BY <1>1, <1>5 DEF Applied, RowOf, Outcome, Found
    <2>2. o \in d.journeys /\ o.id = q.j
      BY <2>1 DEF JourneyExists, WithId
    <2>3. DOMAIN o = Columns["journeys"]
      BY <1>1, <2>2 DEF Rows
    <2> HIDE DEF o
    <2>4. r.id = q.j
      BY <2>2, <2>3, ColumnsAre DEF JourneyFields
    <2> HIDE DEF r
    <2>5. QED
      BY <2>1, <2>4 DEF Put
  <1>6. CASE q.kind = "create_segment"
    <2> DEFINE m == [d EXCEPT !.segments = @ \union
                {[id |-> q.id, journey |-> q.j, pos |-> NextPosition(segmentsForJourney(d, q.j)), kind |-> q.body.kind,
                  name |-> q.body.name, start |-> q.body.start, end |-> q.body.end, ver |-> 1]}]
    <2>1. Applied(q, d) = Touch(m, q.j)
      BY <1>6 DEF Applied
    <2>2. QED
      BY <1>1, <1>2, <2>1
  <1>7. CASE q.kind = "update_segment"
    <2> DEFINE m == [d EXCEPT !.segments = Put(@, [RowOf(q, d) EXCEPT !.kind = q.body.kind, !.name = q.body.name,
                                                    !.start = q.body.start, !.end = q.body.end, !.ver = @ + 1])]
    <2>1. Applied(q, d) = Touch(m, q.j)
      BY <1>7 DEF Applied
    <2>2. QED
      BY <1>1, <1>2, <2>1
  <1>8. CASE q.kind = "reorder_segment"
    <2> DEFINE m == [d EXCEPT !.segments = {IF s.journey = q.j THEN Reordered(s, q) ELSE s : s \in @}]
    <2>1. Applied(q, d) = Touch(m, q.j)
      BY <1>8 DEF Applied
    <2>2. DOMAIN m = {"journeys", "segments", "packing"} /\ m.journeys = d.journeys
      BY <1>1
    <2> HIDE DEF m
    <2>3. QED
      BY <1>2, <2>1, <2>2
  <1>9. CASE q.kind = "delete_segment"
    <2> DEFINE m == deleteSegment(d, q.j, q.id)
    <2>1. Applied(q, d) = Touch(m, q.j)
      BY <1>9 DEF Applied
    <2>2. DOMAIN m = {"journeys", "segments", "packing"} /\ m.journeys = d.journeys
      BY <1>1 DEF deleteSegment
    <2>3. QED
      BY <1>2, <2>1, <2>2
  <1>10. CASE q.kind = "create_item"
    <2> DEFINE m == addPacking(d, q.j, q.body, q.id)
    <2>1. Applied(q, d) = Touch(m, q.j)
      BY <1>10 DEF Applied
    <2>2. DOMAIN m = {"journeys", "segments", "packing"} /\ m.journeys = d.journeys
      BY <1>1 DEF addPacking
    <2>3. QED
      BY <1>2, <2>1, <2>2
  <1>11. CASE q.kind = "update_item"
    <2> DEFINE m == [d EXCEPT !.packing = Put(@, [RowOf(q, d) EXCEPT !.label = q.body.label, !.qty = q.body.qty,
                                                   !.packed = Least(@, q.body.qty), !.ver = @ + 1])]
    <2>1. Applied(q, d) = Touch(m, q.j)
      BY <1>11 DEF Applied
    <2>2. QED
      BY <1>1, <1>2, <2>1
  <1>12. CASE q.kind = "pack_item"
    <2> DEFINE m == [d EXCEPT !.packing = Put(@, [RowOf(q, d) EXCEPT !.packed = q.body, !.ver = @ + 1])]
    <2>1. Applied(q, d) = Touch(m, q.j)
      BY <1>12 DEF Applied
    <2>2. QED
      BY <1>1, <1>2, <2>1
  <1>13. CASE q.kind = "delete_item"
    <2> DEFINE m == deletePackingItem(d, q.j, q.id)
    <2>1. Applied(q, d) = Touch(m, q.j)
      BY <1>13 DEF Applied
    <2>2. DOMAIN m = {"journeys", "segments", "packing"} /\ m.journeys = d.journeys
      BY <1>1 DEF deletePackingItem
    <2>3. QED
      BY <1>2, <2>1, <2>2
  <1>14. QED
    BY <1>3, <1>4, <1>5, <1>6, <1>7, <1>8, <1>9, <1>10, <1>11, <1>12, <1>13, KindsAre

\* An update moves the version it was made for.
LEMMA UpdateMoves ==
    ASSUME NEW d, Tables(d), NEW q, q.kind = "update_journey", q.order = None, Outcome(q, d) = "ok"
    PROVE  \A r \in Applied(q, d).journeys : r.id = q.j => r.ver # q.ver
  <1>1. DOMAIN d = {"journeys", "segments", "packing"} /\ Rows("journeys", d.journeys)
    BY TablesAre
  <1> DEFINE o == WithId(d.journeys, q.j)
             n == [o EXCEPT !.name = q.body.name, !.start = q.body.start,
                            !.end = q.body.end, !.status = q.body.status, !.ver = @ + 1]
  <1>2. Applied(q, d).journeys = Put(d.journeys, n) /\ JourneyExists(d, q.j) /\ o.ver = q.ver
    BY <1>1 DEF Applied, RowOf, Outcome, Found, Versioned, VersionedKinds
  <1>3. o \in d.journeys /\ o.id = q.j
    BY <1>2 DEF JourneyExists, WithId
  <1>4. DOMAIN o = Columns["journeys"] /\ o.ver \in Nat
    BY <1>1, <1>3 DEF Rows
  <1> HIDE DEF o
  <1>5. n.id = q.j /\ n.ver = q.ver + 1 /\ q.ver \in Nat
    BY <1>2, <1>3, <1>4, ColumnsAre DEF JourneyFields
  <1> HIDE DEF n
  <1>6. QED
    BY <1>2, <1>5 DEF Put

\* The Journey is not, in S, the one that the update was made for.
Moved(S, a) == \A n \in S : n.id = a.j => n.ver # a.sig.ver
Remembered(a) == a.j \in DOMAIN pending /\ pending[a.j].cmd = a.cmd /\ pending[a.j].sig = a.sig

Superseded(a) ==
    /\ Moved(server.journeys, a)
    /\ \A t \in Tasks : Running(t) => Moved(tasks[t].doc.journeys, a)
    /\ Remembered(a) \/ Moved(current.journeys, a)

Attempting(t) ==
    /\ tasks[t].at # "read" => tasks[t].doc.journeys = {}
    /\ tasks[t].cur # None /\ tasks[t].cur.kind = "update_journey" =>
          /\ Remembered([j |-> tasks[t].cur.j, cmd |-> tasks[t].cur.cmd, sig |-> Signature(tasks[t].cur)])
          /\ \A a \in attempts : a.j = tasks[t].cur.j => a.sig = Signature(tasks[t].cur)
    /\ \A q \in HeldBy(tasks[t]) :
          q.kind = "update_journey" => q.seen \in current.journeys /\ q.seen.id = q.j /\ q.ver = q.seen.ver

\* With one save or load at a time and nothing late: an update that was
\* carried out and never answered is remembered until a load has shown it.
RetryParts ==
    /\ late = {}
    /\ \A x \in authors : \E p \in receipts : p.cmd = x[2]
    /\ \A j \in DOMAIN pending : [j |-> j, cmd |-> pending[j].cmd, sig |-> pending[j].sig] \in attempts
    /\ \A a \in attempts : <<a.j, a.cmd>> \in authors => Superseded(a)
    /\ \A t \in Tasks : Running(t) => Attempting(t)
RetryInv == OneAtATime /\ max.late = 0 => RetryParts

\* Nothing was attempted at the start.
LEMMA InitRetryInv == Init => RetryInv
  BY DEF Init, RetryInv, RetryParts, Running

\* The task of a step is the only one there is.
Alone(t) == \A u \in Tasks \ {t} : ~Running(u)

\* No other task appears.
LEMMA AloneStep ==
    ASSUME NEW t \in Tasks, Alone(t), \A u \in Tasks \ {t} : GoesOn(u)
    PROVE  \A u \in Tasks \ {t} : tasks'[u] = None
  BY DEF Alone, GoesOn

\* A step that leaves the server, the repository and the attempts alone.
LEMMA QuietRetry ==
    ASSUME RetryParts, UNCHANGED <<server, receipts, authors, current, pending, attempts, late>>,
           \A u \in Tasks : tasks'[u] # None =>
              \/ GoesOn(u)
              \/ /\ tasks'[u].todo = {} /\ tasks'[u].cur = None
                 /\ tasks'[u].at = "read" \/ tasks'[u].doc.journeys = {}
                 /\ \A n \in tasks'[u].doc.journeys : n \in server.journeys \/ (Running(u) /\ n \in tasks[u].doc.journeys)
    PROVE  RetryParts'
  <1>1. ASSUME NEW u \in Tasks, tasks'[u] # None
        PROVE  Attempting(u)' /\ \A n \in tasks'[u].doc.journeys : n \in server.journeys \/ (Running(u) /\ n \in tasks[u].doc.journeys)
    <2>1. CASE GoesOn(u)
      <3>1. Running(u) /\ tasks'[u].todo = tasks[u].todo /\ tasks'[u].cur = tasks[u].cur /\ tasks'[u].doc = tasks[u].doc
            /\ tasks'[u].at = tasks[u].at
        BY <1>1, <2>1 DEF GoesOn, SameTask
      <3>2. Attempting(u)
        BY <3>1 DEF RetryParts
      <3>3. QED
        BY <3>1, <3>2 DEF Attempting, Remembered, Signature, HeldBy
    <2>2. CASE ~GoesOn(u)
      BY <1>1, <2>2 DEF Attempting, HeldBy
    <2>3. QED
      BY <2>1, <2>2
  <1>2. ASSUME NEW a \in attempts, <<a.j, a.cmd>> \in authors PROVE Superseded(a)'
    <2>1. Superseded(a)
      BY <1>2 DEF RetryParts
    <2>2. ASSUME NEW u \in Tasks, tasks'[u] # None PROVE Moved(tasks'[u].doc.journeys, a)
      BY <1>1, <2>1, <2>2 DEF Superseded, Moved
    <2>3. QED
      BY <2>1, <2>2 DEF Superseded, Remembered, Moved, Running
  <1>3. QED
    BY <1>1, <1>2 DEF RetryParts, Running

\* FinishLoad forgets identifiers, and shows what their updates did.
LEMMA FinishLoadRetry ==
    ASSUME Shapes, RetryParts, NEW t \in Tasks, Alone(t), FinishLoad(t)
    PROVE  RetryParts'
  <1>1. /\ Running(t) /\ \A u \in Tasks : GoesOn(u) /\ tasks'[t] = None
        /\ current' = tasks[t].doc /\ DOMAIN pending' = {}
        /\ UNCHANGED <<server, receipts, authors, late, attempts>>
    BY FinishLoadStep
  <1>2. \A u \in Tasks : tasks'[u] = None
    BY <1>1, AloneStep
  <1>3. ASSUME NEW a \in attempts, <<a.j, a.cmd>> \in authors PROVE Superseded(a)'
    <2>1. Moved(server.journeys, a) /\ Moved(tasks[t].doc.journeys, a)
      BY <1>1, <1>3 DEF RetryParts, Superseded
    <2>2. QED
      BY <1>1, <1>2, <2>1 DEF Superseded, Moved, Running
  <1>4. QED
    BY <1>1, <1>2, <1>3 DEF RetryParts, Running

\* StartCommit: an update is made for the Journey that the repository holds.
LEMMA StartCommitRetry ==
    ASSUME Shapes, RetryParts, NEW t \in Tasks, NEW e \in max.choice, Alone(t), StartCommit(t, e)
    PROVE  RetryParts'
  <1>1. /\ \A u \in Tasks \ {t} : GoesOn(u)
        /\ tasks'[t].cur = None /\ tasks'[t].doc = EmptyDocument /\ tasks'[t].at = "save"
    BY StartCommitStep
  <1>2. \A q \in tasks'[t].todo : \E p \in Difference(current, Edited(e, page.data)) : Marks(q, p)
    BY StartCommitStep
  <1>3. UNCHANGED <<server, receipts, authors, born, reborn, current, pending, loader, late, attempts>>
    BY DEF StartCommit, serverVars, contents, repository
  <1>4. \A u \in Tasks \ {t} : tasks'[u] = None
    BY <1>1, AloneStep
  <1>5. tasks'[t].doc.journeys = {}
    BY <1>1 DEF EmptyDocument
  <1>6. ASSUME NEW q \in tasks'[t].todo, q.kind = "update_journey"
        PROVE  q.seen \in current.journeys /\ q.seen.id = q.j /\ q.ver = q.seen.ver
    <2>1. PICK p \in Difference(current, Edited(e, page.data)) : Marks(q, p)
      BY <1>2
    <2>2. Names(p, current) /\ DOMAIN p = RequestFields
      BY DifferenceNames, DifferenceShape
    <2>3. q = p
      BY <1>6, <2>1, <2>2, KindFacts DEF RequestFields, Marks
    <2>4. QED
      BY <1>6, <2>2, <2>3, KindFacts DEF Names
  <1>7. Attempting(t)'
    BY <1>1, <1>3, <1>5, <1>6 DEF Attempting, HeldBy
  <1>8. ASSUME NEW a \in attempts, <<a.j, a.cmd>> \in authors PROVE Superseded(a)'
    <2>1. Superseded(a)
      BY <1>8 DEF RetryParts
    <2>2. QED
      BY <1>3, <1>4, <1>5, <2>1 DEF Superseded, Moved, Running, Remembered
  <1>9. QED
    BY <1>3, <1>4, <1>7, <1>8 DEF RetryParts, Running

\* Send: the same content goes under the same identifier while it is remembered.
LEMMA SendRetry ==
    ASSUME Shapes, OneContent, RetryParts, NEW t \in Tasks, Alone(t), Send(t)
    PROVE  RetryParts'
  <1>1. /\ Running(t) /\ tasks[t].at = "save" /\ \A u \in Tasks \ {t} : GoesOn(u)
        /\ SamePlace(tasks[t], tasks'[t]) /\ TaskShape(tasks[t])
    BY SendStep DEF Shapes
  <1>2. PICK q \in tasks[t].todo : Sends(t, q)
    BY SendStep
  <1>3. UNCHANGED <<server, receipts, authors, current, late>>
    BY DEF Send, serverVars, contents
  <1>4. \A u \in Tasks \ {t} : tasks'[u] = None
    BY <1>1, AloneStep
  <1>5. tasks'[t].doc.journeys = {} /\ tasks'[t].doc = tasks[t].doc /\ Attempting(t)
    BY <1>1 DEF SamePlace, RetryParts, Attempting
  <1>6. tasks'[t].todo = tasks[t].todo \ {q}
    BY <1>2 DEF Sends
  <1>7. \A p \in tasks[t].todo : p.kind = "update_journey" => p.seen \in current.journeys /\ p.seen.id = p.j /\ p.ver = p.seen.ver
    BY <1>5 DEF Attempting, HeldBy
  <1>8. CASE q.kind # "update_journey"
    <2>1. tasks'[t].cur = q /\ UNCHANGED <<pending, attempts>>
      BY <1>2, <1>8 DEF Sends
    <2>2. Attempting(t)'
      BY <1>3, <1>5, <1>6, <1>7, <1>8, <2>1 DEF Attempting, HeldBy
    <2>3. ASSUME NEW a \in attempts, <<a.j, a.cmd>> \in authors PROVE Superseded(a)'
      <3>1. Superseded(a)
        BY <2>3 DEF RetryParts
      <3>2. QED
        BY <1>3, <1>4, <1>5, <2>1, <3>1 DEF Superseded, Moved, Running, Remembered
    <2>4. QED
      BY <1>3, <1>4, <2>1, <2>2, <2>3 DEF RetryParts, Running
  <1>9. CASE q.kind = "update_journey"
    <2> DEFINE n == CommandFor(q)
               s == Signature(q)
               m == [q EXCEPT !.cmd = n]
               b == [j |-> q.j, cmd |-> n, sig |-> s]
    <2>1. /\ tasks'[t].cur = m /\ attempts' = Repeated(q) \union {b}
          /\ pending' = [j \in DOMAIN pending \union {q.j} |-> IF j = q.j THEN [cmd |-> n, sig |-> s] ELSE pending[j]]
      BY <1>2, <1>9 DEF Sends
    <2>2. DOMAIN q = RequestFields
      BY <1>1 DEF TaskShape, HeldBy
    <2>3. m.kind = "update_journey" /\ m.cmd = n /\ m.j = q.j /\ Signature(m) = s
      BY <1>9, <2>2 DEF RequestFields, Signature
    <2>4. q.seen \in current.journeys /\ q.seen.id = q.j /\ s.ver = q.seen.ver
      BY <1>7, <1>9 DEF Signature
    <2>5. b.j = q.j /\ b.cmd = n /\ b.sig = s
      OBVIOUS
    <2>6. b \in attempts \/ n = commands + 1
      BY DEF CommandFor, RetryParts
    <2>7. ASSUME NEW a \in attempts, a.j = q.j, a.sig = s, Remembered(a) PROVE a.cmd = n
      BY <2>7 DEF Remembered, CommandFor
    <2>8. \A a \in attempts : a \in Repeated(q) <=> (a.j # q.j \/ a.sig = s)
      BY DEF Repeated
    <2>9. \A a \in attempts' : a = b \/ (a \in attempts /\ (a.j # q.j \/ a.sig = s))
      BY <2>1 DEF Repeated
    <2> HIDE DEF n, s, m, b
    <2>10. q.j \in DOMAIN pending' /\ pending'[q.j].cmd = n /\ pending'[q.j].sig = s
      BY <2>1
    <2>11. \A a \in attempts' : a.j = q.j => a.sig = s
      BY <2>5, <2>9
    <2>12. Attempting(t)'
      <3>1. Remembered([j |-> tasks[t].cur.j, cmd |-> tasks[t].cur.cmd, sig |-> Signature(tasks[t].cur)])'
        BY <2>1, <2>3, <2>10 DEF Remembered, Signature
      <3>2. \A a \in attempts' : a.j = tasks'[t].cur.j => a.sig = Signature(tasks'[t].cur)
        BY <2>1, <2>3, <2>11
      <3>3. m.seen = q.seen /\ m.ver = q.ver
        BY <2>2 DEF m, RequestFields
      <3>4. \A p \in HeldBy(tasks'[t]) : p.kind = "update_journey" => p.seen \in current.journeys /\ p.seen.id = p.j /\ p.ver = p.seen.ver
        BY <1>6, <1>7, <1>9, <2>1, <2>3, <3>3 DEF HeldBy
      <3>5. QED
        BY <1>3, <1>5, <3>1, <3>2, <3>4 DEF Attempting, Signature
    <2>13. <<b.j, b.cmd>> \in authors => b \in attempts
      <3>1. ASSUME n = commands + 1, <<b.j, b.cmd>> \in authors PROVE FALSE
        <4>1. PICK p \in receipts : p.cmd = <<b.j, b.cmd>>[2]
          BY <3>1 DEF RetryParts
        <4>2. p.cmd = commands + 1 /\ Uses(p.cmd, p.sig)
          BY <2>5, <3>1, <4>1 DEF Uses
        <4>3. commands + 1 <= commands /\ commands \in Nat
          BY <4>2 DEF OneContent, Shapes
        <4>4. QED
          BY <4>3
      <3>2. QED
        BY <2>6, <3>1
    <2>14. ASSUME NEW a \in attempts', <<a.j, a.cmd>> \in authors PROVE Superseded(a)'
      <3>1. a \in attempts /\ Superseded(a)
        BY <2>9, <2>13, <2>14 DEF RetryParts
      <3>2. Moved(server'.journeys, a) /\ \A u \in Tasks : tasks'[u] # None => Moved(tasks'[u].doc.journeys, a)
        BY <1>3, <1>4, <1>5, <3>1 DEF Superseded, Moved
      <3>3. Remembered(a)' \/ Moved(current'.journeys, a)
        <4>1. CASE a = b
          BY <2>5, <2>10, <4>1 DEF Remembered
        <4>2. CASE a # b /\ a.j # q.j
          BY <1>3, <2>1, <3>1, <4>2 DEF Superseded, Remembered, Moved
        <4>3. CASE a.j = q.j /\ a.sig = s /\ Remembered(a)
          BY <2>1, <2>7, <3>1, <4>3 DEF Remembered
        <4>4. CASE a.j = q.j /\ a.sig = s /\ ~Remembered(a)
          BY <2>4, <3>1, <4>4 DEF Superseded, Moved
        <4>5. QED
          BY <2>9, <4>1, <4>2, <4>3, <4>4
      <3>4. QED
        BY <3>2, <3>3 DEF Superseded, Running
    <2>15. ASSUME NEW j \in DOMAIN pending' PROVE [j |-> j, cmd |-> pending'[j].cmd, sig |-> pending'[j].sig] \in attempts'
      <3>1. CASE j = q.j
        BY <2>1, <3>1 DEF b
      <3>2. CASE j # q.j
        <4> DEFINE a == [j |-> j, cmd |-> pending[j].cmd, sig |-> pending[j].sig]
        <4>1. j \in DOMAIN pending /\ pending'[j] = pending[j]
          BY <2>1, <3>2
        <4>2. a \in attempts /\ a.j # q.j
          BY <3>2, <4>1 DEF RetryParts
        <4>3. QED
          BY <2>1, <2>8, <4>1, <4>2
      <3>3. QED
        BY <3>1, <3>2
    <2>16. QED
      BY <1>3, <1>4, <2>12, <2>14, <2>15 DEF RetryParts, Running
  <1>10. QED
    BY <1>8, <1>9

\* CheckReorder is about no update of a Journey.
LEMMA CheckReorderRetry ==
    ASSUME Shapes, RetryParts, NEW t \in Tasks, Alone(t), CheckReorder(t)
    PROVE  RetryParts'
  <1>1. /\ Running(t) /\ tasks[t].cur # None /\ \A u \in Tasks \ {t} : GoesOn(u)
        /\ SamePlace(tasks[t], tasks'[t]) /\ tasks'[t].todo = tasks[t].todo
        /\ UNCHANGED <<server, receipts, authors, current, pending, attempts, late>>
    BY CheckReorderStep
  <1>2. tasks'[t].cur.kind = "reorder_segment"
    BY CheckReorderStep, CheckedIs
  <1>3. \A u \in Tasks \ {t} : tasks'[u] = None
    BY <1>1, AloneStep
  <1>4. tasks'[t].doc = tasks[t].doc /\ tasks'[t].at = tasks[t].at /\ Attempting(t)
    BY <1>1 DEF SamePlace, RetryParts
  <1>5. Attempting(t)'
    BY <1>1, <1>2, <1>4 DEF Attempting, HeldBy
  <1>6. ASSUME NEW a \in attempts, <<a.j, a.cmd>> \in authors PROVE Superseded(a)'
    <2>1. Superseded(a)
      BY <1>6 DEF RetryParts
    <2>2. QED
      BY <1>1, <1>3, <1>4, <2>1 DEF Superseded, Moved, Running, Remembered
  <1>7. QED
    BY <1>1, <1>3, <1>5, <1>6 DEF RetryParts, Running

\* The server's rows of the Journeys that q is not about.
LEMMA ElsewhereMoved ==
    ASSUME NEW d, Tables(d), NEW q, q.kind \in Kinds, Outcome(q, d) = "ok", q.kind = "create_journey" => q.j = q.id,
           NEW a, a.j # q.j, Moved(d.journeys, a)
    PROVE  Moved(Applied(q, d).journeys, a)
  BY JourneysElsewhere DEF Moved

\* Answered and Unreachable: an update that is carried out is the one remembered.
LEMMA OverRetry ==
    ASSUME Shapes, SeenInv, RetryParts, max.late = 0, NEW t \in Tasks, Alone(t), Answered(t) \/ Unreachable(t)
    PROVE  RetryParts'
  <1>1. /\ Running(t) /\ tasks[t].cur # None /\ \A u \in Tasks \ {t} : GoesOn(u)
        /\ UNCHANGED <<current, pending, attempts>>
    BY AnsweredStep, UnreachableStep
  <1>2. tasks'[t] = None \/ (SamePlace(tasks[t], tasks'[t]) /\ tasks'[t].todo = tasks[t].todo /\ tasks'[t].cur = None)
    BY AnsweredStep, UnreachableStep
  <1>3. Served(tasks[t].cur) /\ late' = {}
    <2>1. late = {} /\ ~(Cardinality(late) < max.late)
      BY FS_EmptySet DEF RetryParts
    <2>2. QED
      BY <2>1, AnsweredStep, UnreachableStep
  <1>4. PICK q : q = tasks[t].cur
    OBVIOUS
  <1>5. \A u \in Tasks \ {t} : tasks'[u] = None
    BY <1>1, AloneStep
  <1>6. TaskShape(tasks[t]) /\ Attempting(t)
    BY <1>1 DEF Shapes, RetryParts
  <1>7. tasks[t].at = "save" /\ tasks[t].doc.journeys = {}
    BY <1>1, <1>6 DEF TaskShape, Attempting
  <1>8. tasks'[t] # None => tasks'[t].doc.journeys = {} /\ Attempting(t)'
    BY <1>1, <1>2, <1>6, <1>7 DEF Attempting, SamePlace, HeldBy
  <1>9. Held(q) /\ Good(q) /\ Tables(server)
    <2>1. Held(q)
      BY <1>1, <1>4 DEF Held, HeldBy
    <2>2. QED
      BY <2>1 DEF SeenInv, RequestsHeld, RowsSeen
  <1>10. CASE server' = server /\ authors' = authors
    <2>1. \A p \in receipts : p \in receipts'
      BY <1>3 DEF Served, ServerDoes, contents
    <2>2. ASSUME NEW a \in attempts, <<a.j, a.cmd>> \in authors PROVE Superseded(a)'
      <3>1. Superseded(a)
        BY <2>2 DEF RetryParts
      <3>2. QED
        BY <1>1, <1>5, <1>8, <1>10, <3>1 DEF Superseded, Moved, Running, Remembered
    <2>3. \A x \in authors' : \E p \in receipts' : p.cmd = x[2]
      BY <1>10, <2>1 DEF RetryParts
    <2>4. QED
      BY <1>1, <1>3, <1>5, <1>8, <1>10, <2>2, <2>3 DEF RetryParts, Running
  <1>11. CASE ~(server' = server /\ authors' = authors)
    <2>1. /\ ~Known(q) /\ Outcome(q, server) = "ok" /\ server' = Applied(q, server)
          /\ receipts' = IF q.kind = "update_journey"
                         THEN receipts \union {[cmd |-> q.cmd, sig |-> Signature(q), answer |-> Answer(q)]} ELSE receipts
          /\ authors' = Unauthored(q.j) \union IF q.kind = "update_journey" THEN {<<q.j, q.cmd>>} ELSE {}
      BY <1>3, <1>4, <1>11 DEF Served, ServerDoes, Answer, contents
    <2>2. \A x \in authors' : \E p \in receipts' : p.cmd = x[2]
      <3>1. ASSUME NEW x \in authors PROVE \E p \in receipts' : p.cmd = x[2]
        BY <2>1 DEF RetryParts
      <3>2. CASE q.kind = "update_journey"
        <4>1. [cmd |-> q.cmd, sig |-> Signature(q), answer |-> Answer(q)] \in receipts'
          BY <2>1, <3>2
        <4>2. \E p \in receipts' : p.cmd = q.cmd
          BY <4>1
        <4>3. \A x \in authors' : x \in authors \/ x = <<q.j, q.cmd>>
          BY <2>1 DEF Unauthored
        <4>4. QED
          BY <3>1, <4>2, <4>3
      <3>3. CASE q.kind # "update_journey"
        <4>1. \A x \in authors' : x \in authors
          BY <2>1, <3>3 DEF Unauthored
        <4>2. QED
          BY <3>1, <4>1
      <3>4. QED
        BY <3>2, <3>3
    <2>3. ASSUME NEW a \in attempts, <<a.j, a.cmd>> \in authors' PROVE Superseded(a)'
      <3>1. \A u \in Tasks : tasks'[u] # None => Moved(tasks'[u].doc.journeys, a)
        BY <1>5, <1>8 DEF Moved
      <3>2. CASE <<a.j, a.cmd>> \in Unauthored(q.j)
        <4>1. a.j # q.j /\ <<a.j, a.cmd>> \in authors
          BY <3>2 DEF Unauthored
        <4>2. Superseded(a)
          BY <4>1 DEF RetryParts
        <4>3. Moved(server'.journeys, a)
          BY <1>9, <2>1, <4>1, <4>2, ElsewhereMoved DEF Superseded, Good
        <4>4. Remembered(a)' \/ Moved(current'.journeys, a)
          BY <1>1, <4>2 DEF Superseded, Remembered, Moved
        <4>5. QED
          BY <3>1, <4>3, <4>4 DEF Superseded, Running
      <3>3. CASE q.kind = "update_journey" /\ <<a.j, a.cmd>> = <<q.j, q.cmd>>
        <4>1. a.j = q.j /\ a.cmd = q.cmd
          BY <3>3
        <4>2. a.sig = Signature(q) /\ q.j \in DOMAIN pending /\ pending[q.j].cmd = q.cmd /\ pending[q.j].sig = Signature(q)
          BY <1>1, <1>4, <1>6, <3>3, <4>1 DEF Attempting, Remembered
        <4>3. a.sig.ver = q.ver
          BY <4>2 DEF Signature
        <4>4. Moved(server'.journeys, a)
          BY <1>9, <2>1, <3>3, <4>1, <4>3, UpdateMoves DEF Moved, Good
        <4>5. Remembered(a)'
          BY <1>1, <4>1, <4>2 DEF Remembered
        <4>6. QED
          BY <3>1, <4>4, <4>5 DEF Superseded, Running
      <3>4. QED
        BY <2>1, <2>3, <3>2, <3>3
    <2>4. QED
      BY <1>1, <1>3, <1>5, <1>8, <2>2, <2>3 DEF RetryParts, Running
  <1>12. QED
    BY <1>10, <1>11

\* OtherDevice: a Journey that somebody else writes is no longer the update's.
LEMMA OtherDeviceRetry ==
    ASSUME Shapes, SeenInv, RetryParts, NEW e, OtherDevice(e)
    PROVE  RetryParts'
  <1>1. /\ \A u \in Tasks : GoesOn(u)
        /\ UNCHANGED <<receipts, current, pending, late, attempts>>
    BY OtherDeviceStep
  <1>2. PICK q \in Difference(server, Edited(e, server)) :
            Outcome(q, server) = "ok" /\ server' = Applied(q, server) /\ authors' = Unauthored(q.j)
    BY OtherDeviceStep
  <1>3. q.kind \in Kinds /\ (q.kind = "create_journey" => q.j = q.id) /\ Tables(server)
    <2>1. q.kind = "create_journey" => q.j = q.id
      BY DifferenceCreates, RequestIs, KindFacts DEF Creation
    <2>2. QED
      BY <2>1, DifferenceNames DEF Names, SeenInv, RowsSeen
  <1>4. ASSUME NEW u \in Tasks, tasks'[u] # None
        PROVE  Running(u) /\ tasks'[u].doc = tasks[u].doc /\ Attempting(u)'
    <2>1. Running(u) /\ tasks'[u].todo = tasks[u].todo /\ tasks'[u].cur = tasks[u].cur /\ tasks'[u].doc = tasks[u].doc
          /\ tasks'[u].at = tasks[u].at
      BY <1>1, <1>4 DEF GoesOn, SameTask
    <2>2. Attempting(u)
      BY <2>1 DEF RetryParts
    <2>3. QED
      BY <1>1, <2>1, <2>2 DEF Attempting, Remembered, Signature, HeldBy
  <1>5. ASSUME NEW a \in attempts, <<a.j, a.cmd>> \in authors' PROVE Superseded(a)'
    <2>1. a.j # q.j /\ <<a.j, a.cmd>> \in authors
      BY <1>2, <1>5 DEF Unauthored
    <2>2. Superseded(a)
      BY <2>1 DEF RetryParts
    <2>3. Moved(server'.journeys, a)
      BY <1>2, <1>3, <2>1, <2>2, ElsewhereMoved DEF Superseded
    <2>4. \A u \in Tasks : tasks'[u] # None => Moved(tasks'[u].doc.journeys, a)
      BY <1>4, <2>2 DEF Superseded
    <2>5. Remembered(a)' \/ Moved(current'.journeys, a)
      BY <1>1, <2>2 DEF Superseded, Remembered, Moved
    <2>6. QED
      BY <2>3, <2>4, <2>5 DEF Superseded, Running
  <1>6. \A x \in authors' : \E p \in receipts' : p.cmd = x[2]
    BY <1>1, <1>2 DEF RetryParts, Unauthored
  <1>7. QED
    BY <1>1, <1>4, <1>5, <1>6 DEF RetryParts, Running

\* The other steps leave attempts and identifiers alone.
LEMMA RestRetry ==
    ASSUME Shapes, RetryParts,
           \/ \E t \in Tasks : Login(t) \/ Retry(t) \/ ListJourneys(t) \/ LoadFails(t)
                               \/ \E r \in {"segments", "packing"} \X AllJourneyIds : Read(t, r)
           \/ Logout \/ Expire \/ UNCHANGED vars
    PROVE  RetryParts'
  <1> DEFINE Fits(u) == \/ GoesOn(u)
                        \/ /\ tasks'[u].todo = {} /\ tasks'[u].cur = None
                           /\ tasks'[u].at = "read" \/ tasks'[u].doc.journeys = {}
                           /\ \A n \in tasks'[u].doc.journeys : n \in server.journeys \/ (Running(u) /\ n \in tasks[u].doc.journeys)
  <1>1. CASE Logout \/ Expire \/ UNCHANGED vars \/ \E t \in Tasks : LoadFails(t)
    <2>1. \A u \in Tasks : GoesOn(u)
      BY <1>1, SessionStep, LoadFailsStep, Unmoved DEF vars
    <2>2. UNCHANGED <<server, receipts, authors, current, pending, attempts, late>>
      BY <1>1, SessionStep, LoadFailsStep DEF vars, serverVars, contents, repository, bounds, identifiers
    <2>3. QED
      BY <2>1, <2>2, QuietRetry
  <1>2. ASSUME NEW t \in Tasks, Login(t) \/ Retry(t) PROVE RetryParts'
    <2>1. \A u \in Tasks \ {t} : GoesOn(u)
      BY <1>2, LoginStep
    <2>2. tasks'[t].todo = {} /\ tasks'[t].cur = None /\ tasks'[t].doc.journeys = {}
      BY <1>2, LoginStep DEF EmptyDocument
    <2>3. UNCHANGED <<server, receipts, authors, current, pending, attempts, late>>
      BY <1>2 DEF Login, Retry, serverVars, contents, repository, bounds, identifiers
    <2>4. \A u \in Tasks : Fits(u)
      BY <2>1, <2>2
    <2>5. QED
      BY <2>3, <2>4, QuietRetry
  <1>3. ASSUME NEW t \in Tasks, ListJourneys(t) PROVE RetryParts'
    <2>1. /\ \A u \in Tasks \ {t} : GoesOn(u)
          /\ tasks'[t].todo = {} /\ tasks'[t].cur = None /\ tasks'[t].at = "read" /\ tasks'[t].doc.journeys = server.journeys
          /\ UNCHANGED <<server, receipts, authors, current, pending, attempts, late>>
      BY <1>3, ListJourneysStep
    <2>2. \A u \in Tasks : Fits(u)
      BY <2>1
    <2>3. QED
      BY <2>1, <2>2, QuietRetry
  <1>4. ASSUME NEW t \in Tasks, NEW r \in {"segments", "packing"} \X AllJourneyIds, Read(t, r) PROVE RetryParts'
    <2>1. /\ Running(t) /\ \A u \in Tasks \ {t} : GoesOn(u)
          /\ \/ GoesOn(t)
             \/ /\ tasks'[t].todo = {} /\ tasks'[t].cur = None /\ tasks'[t].at = "read"
                /\ tasks'[t].doc.journeys = tasks[t].doc.journeys
          /\ UNCHANGED <<server, receipts, authors, current, pending, attempts, late>>
      BY <1>4, ReadStep
    <2>2. \A u \in Tasks : Fits(u)
      BY <2>1
    <2>3. QED
      BY <2>1, <2>2, QuietRetry
  <1>5. QED
    BY <1>1, <1>2, <1>3, <1>4

\* Every step keeps the attempts so.
LEMMA NextRetryInv == Shapes /\ OneContent /\ SeenInv /\ RetryInv /\ [Next]_vars => RetryInv'
  <1> SUFFICES ASSUME Shapes, OneContent, SeenInv, RetryInv, [Next]_vars, OneAtATime', max'.late = 0 PROVE RetryParts'
    BY DEF RetryInv
  <1>1. OneAtATime /\ max.late = 0 /\ RetryParts
    BY SameScenario DEF OneAtATime, RetryInv
  <1>2. \A t \in max.tasks : t \in Tasks /\ Alone(t)
    BY <1>1, MyTasks DEF Alone, OneAtATime, SeenInv, Settled
  <1>3. ASSUME NEW t \in max.tasks,
               \/ Login(t) \/ Retry(t) \/ Send(t) \/ CheckReorder(t) \/ Answered(t) \/ Unreachable(t)
               \/ ListJourneys(t) \/ LoadFails(t) \/ FinishLoad(t)
               \/ \E e \in max.choice : StartCommit(t, e)
               \/ \E r \in {"segments", "packing"} \X AllJourneyIds : Read(t, r)
        PROVE  RetryParts'
    BY <1>1, <1>2, <1>3, RestRetry, SendRetry, CheckReorderRetry, OverRetry, FinishLoadRetry, StartCommitRetry
  <1>4. (\A q \in late : FALSE) /\ ~(Cardinality(late) < max.late)
    BY <1>1, FS_EmptySet DEF RetryParts
  <1>5. \A e : ~OtherDeviceReorders(e)
    BY <1>4 DEF OtherDeviceReorders
  <1>6. QED
    BY <1>1, <1>3, <1>4, <1>5, RestRetry, OtherDeviceRetry DEF Next

\* The invariants say that no update is refused because of itself.
LEMMA RetryRecognised ==
    ASSUME OneContent, Decided, RetryInv
    PROVE  RetryIsRecognised
  <1> SUFFICES ASSUME NEW q \in InFlight, q.kind = "update_journey"
               PROVE  /\ Answer(q) # "idempotency_conflict"
                      /\ OneAtATime /\ max.late = 0 /\ ~Known(q) => \A a \in attempts : a.j = q.j => <<a.j, a.cmd>> \notin authors
    BY DEF RetryIsRecognised
  <1>1. Answer(q) # "idempotency_conflict"
    BY NeverTwoContents
  <1>2. ASSUME OneAtATime, max.late = 0, NEW a \in attempts, a.j = q.j, <<a.j, a.cmd>> \in authors PROVE Known(q)
    <2>1. RetryParts
      BY <1>2 DEF RetryInv
    <2>2. PICK t \in Tasks : Running(t) /\ tasks[t].cur # None /\ q = tasks[t].cur
      BY <2>1 DEF InFlight, RetryParts
    <2>3. Attempting(t) /\ Superseded(a)
      BY <1>2, <2>1, <2>2 DEF RetryParts
    <2>4. /\ q.j \in DOMAIN pending /\ pending[q.j].cmd = q.cmd /\ pending[q.j].sig = Signature(q) /\ a.sig = Signature(q)
      BY <1>2, <2>2, <2>3 DEF Attempting, Remembered
    <2>5. PICK p \in receipts : p.cmd = a.cmd
      <3>1. PICK p \in receipts : p.cmd = <<a.j, a.cmd>>[2]
        BY <1>2, <2>1 DEF RetryParts
      <3>2. QED
        BY <3>1
    <2>6. q.seen \in current.journeys /\ q.seen.id = q.j /\ q.seen.ver = a.sig.ver
      BY <2>2, <2>3, <2>4 DEF Attempting, HeldBy, Signature
    <2>7. a.cmd = q.cmd
      BY <1>2, <2>3, <2>4, <2>6 DEF Superseded, Moved, Remembered
    <2>8. QED
      BY <2>5, <2>7 DEF Known, ReceiptOf
  <1>3. QED
    BY <1>1, <1>2

\* For any number of tasks, edits, losses and late requests no update is answered
\* idempotency_conflict; and with one save or load at a time and nothing late, an
\* update that was carried out before is recognised by its identifier (the map of
\* pending updates in http-journey-repository.ts).
THEOREM ClientRetryIsRecognised == Spec => []RetryIsRecognised
  <1> DEFINE IInv == Shapes /\ OneContent /\ Decided /\ SeenInv /\ RetryInv
  <1>1. Init => IInv
    BY InitShapes, InitOneContent, InitSeenInv, InitRetryInv DEF Init, Decided
  <1>2. IInv /\ [Next]_vars => IInv'
    BY NextShapes, NextOneContent, NextDecided, NextSeenInv, NextRetryInv
  <1>3. IInv => RetryIsRecognised
    BY RetryRecognised
  <1>4. QED
    BY <1>1, <1>2, <1>3, PTL DEF Spec

-----------------------------------------------------------------------------
(***************************************************************************)
(* Timelines: finitely many segments at distinct positions, perhaps with   *)
(* gaps.                                                                   *)
(***************************************************************************)
Spread(S) ==
    /\ IsFiniteSet(S)
    /\ \A s \in S : s.pos \in Nat
    /\ \A s, t \in S : s.pos = t.pos => s = t

\* A part of a timeline is one.
LEMMA SpreadPart ==
    ASSUME NEW S, Spread(S), NEW T \in SUBSET S
    PROVE  Spread(T)
  BY FS_Subset DEF Spread

\* There are as many segments as positions.
LEMMA PositionsCount ==
    ASSUME NEW S, Spread(S)
    PROVE  Cardinality(S) = Cardinality({s.pos : s \in S})
  <1> DEFINE P == {s.pos : s \in S}
             f == [s \in S |-> s.pos]
  <1>1. f \in [S -> P] /\ (\A s, t \in S : f[s] = f[t] => s = t)
    BY DEF Spread
  <1>2. \A p \in P : \E s \in S : f[s] = p
    OBVIOUS
  <1> HIDE DEF f, P
  <1>3. f \in Bijection(S, P)
    BY <1>1, <1>2, Fun_IsBij, Zenon
  <1>4. ExistsBijection(S, P)
    BY <1>3 DEF ExistsBijection
  <1>5. Cardinality(P) = Cardinality(S)
    BY <1>4, FS_Bijection DEF Spread
  <1>6. QED
    BY <1>5 DEF P

\* The index is a place among the segments, and grows with the position.
LEMMA IndexGrows ==
    ASSUME NEW S, Spread(S), NEW s \in S
    PROVE  /\ IndexIn(S, s) \in Nat /\ Cardinality(S) \in Nat /\ IndexIn(S, s) < Cardinality(S)
           /\ \A t \in S : t.pos < s.pos => IndexIn(S, t) \in Nat /\ IndexIn(S, t) < IndexIn(S, s)
  <1> DEFINE Below(p) == {u \in S : u.pos < p}
  <1>1. IsFiniteSet(S) /\ \A u \in S : u.pos \in Nat
    BY DEF Spread
  <1>2. \A p : IsFiniteSet(Below(p)) /\ Cardinality(Below(p)) \in Nat /\ Cardinality(S) \in Nat
    BY <1>1, FS_Subset, FS_CardinalityType
  <1>3. ASSUME NEW T, NEW U, IsFiniteSet(U), T \subseteq U, T # U
        PROVE  Cardinality(T) < Cardinality(U)
    BY <1>3, FS_Subset, FS_CardinalityType
  <1>4. Below(s.pos) \subseteq S /\ Below(s.pos) # S
    BY <1>1
  <1>5. ASSUME NEW t \in S, t.pos < s.pos PROVE Below(t.pos) \subseteq Below(s.pos) /\ Below(t.pos) # Below(s.pos)
    <2>1. t \in Below(s.pos) /\ t \notin Below(t.pos)
      BY <1>1, <1>5
    <2>2. QED
      BY <1>1, <1>5, <2>1
  <1>6. \A t \in S : IndexIn(S, t) = Cardinality(Below(t.pos))
    BY DEF IndexIn
  <1> HIDE DEF Below
  <1>7. Cardinality(Below(s.pos)) < Cardinality(S)
    BY <1>1, <1>3, <1>4
  <1>8. \A t \in S : t.pos < s.pos => Cardinality(Below(t.pos)) < Cardinality(Below(s.pos))
    BY <1>2, <1>3, <1>5
  <1>9. QED
    BY <1>2, <1>6, <1>7, <1>8

\* No two segments have one index, and a segment is found at its own.
LEMMA IndexApart ==
    ASSUME NEW S, Spread(S), NEW s \in S
    PROVE  /\ \A t \in S : IndexIn(S, t) = IndexIn(S, s) => t = s
           /\ At(S, IndexIn(S, s)) = s
  <1>1. ASSUME NEW t \in S, IndexIn(S, t) = IndexIn(S, s) PROVE t = s
    <2>1. IndexIn(S, t) \in Nat /\ IndexIn(S, s) \in Nat /\ t.pos \in Nat /\ s.pos \in Nat
      BY IndexGrows DEF Spread
    <2>2. ~(t.pos < s.pos) /\ ~(s.pos < t.pos)
      BY <1>1, <2>1, IndexGrows
    <2>3. t.pos = s.pos
      BY <2>1, <2>2
    <2>4. QED
      BY <2>3 DEF Spread
  <1>2. At(S, IndexIn(S, s)) = s
    BY <1>1 DEF At
  <1>3. QED
    BY <1>1, <1>2

\* A segment that keeps its position among the same positions keeps its index.
LEMMA SameIndex ==
    ASSUME NEW S, Spread(S), NEW T, Spread(T), {s.pos : s \in S} = {t.pos : t \in T},
           NEW s \in S, NEW t \in T, t.pos = s.pos
    PROVE  IndexIn(T, t) = IndexIn(S, s)
  <1> DEFINE P == {x.pos : x \in S}
             A == {x \in S : x.pos < s.pos}
             B == {x \in T : x.pos < s.pos}
  <1>1. Spread(A) /\ Spread(B)
    BY SpreadPart
  <1>2. {x.pos : x \in A} = {p \in P : p < s.pos}
    OBVIOUS
  <1>3. {x.pos : x \in B} = {p \in P : p < s.pos}
    OBVIOUS
  <1>4. Cardinality(A) = Cardinality(B)
    BY <1>1, <1>2, <1>3, PositionsCount
  <1>5. QED
    BY <1>4 DEF IndexIn

\* A timeline that is not empty has a last segment.
LEMMA LastSegment ==
    ASSUME NEW S, Spread(S), S # {}
    PROVE  \E s \in S : \A t \in S : t.pos <= s.pos
  <1> DEFINE Behind(s) == {t \in S : s.pos < t.pos}
             T == {Behind(s) : s \in S}
  <1>1. IsFiniteSet(S) /\ \A s \in S : s.pos \in Nat
    BY DEF Spread
  <1>2. IsWellFoundedOn(StrictSubsetOrdering(S), SUBSET S)
    BY <1>1, FS_StrictSubsetOrderingWellFounded, FS_FiniteSubsetsOfFinite
  <1>3. T \subseteq SUBSET S /\ T # {}
    OBVIOUS
  <1>4. PICK X \in T : \A Y \in T : ~(<<Y, X>> \in StrictSubsetOrdering(S))
    <2> HIDE DEF T
    <2>1. QED
      BY <1>2, <1>3, WFMin
  <1>5. PICK s \in S : X = Behind(s)
    OBVIOUS
  <1>6. ASSUME NEW t \in S, s.pos < t.pos PROVE FALSE
    <2>1. Behind(t) \subseteq Behind(s) /\ t \in Behind(s) /\ t \notin Behind(t)
      BY <1>1, <1>6
    <2>2. Behind(t) \in T /\ Behind(t) \in SUBSET S /\ Behind(s) \in SUBSET S
      OBVIOUS
    <2> HIDE DEF Behind, T
    <2>3. <<Behind(t), Behind(s)>> \in StrictSubsetOrdering(S)
      BY <2>1, <2>2 DEF StrictSubsetOrdering
    <2>4. QED
      BY <1>4, <1>5, <2>2, <2>3
  <1>7. QED
    BY <1>1, <1>6

\* A new segment goes behind the last one.
LEMMA NextPositionIs ==
    ASSUME NEW S, Spread(S)
    PROVE  NextPosition(S) \in Nat /\ \A s \in S : s.pos < NextPosition(S)
  <1>1. CASE S = {}
    BY <1>1 DEF NextPosition
  <1>2. CASE S # {}
    <2> DEFINE last == CHOOSE s \in S : \A t \in S : t.pos <= s.pos
    <2>1. last \in S /\ \A t \in S : t.pos <= last.pos
      BY <1>2, LastSegment
    <2>2. NextPosition(S) = 1 + last.pos
      BY <1>2 DEF NextPosition
    <2> HIDE DEF last
    <2>3. QED
      BY <2>1, <2>2 DEF Spread
  <1>3. QED
    BY <1>1, <1>2

-----------------------------------------------------------------------------
(***************************************************************************)
(* Documents that parse, and what a request does to them.                  *)
(***************************************************************************)
Filled(text) == text # ""

\* What parseJourneyData asks of a Journey, of a segment and of a packing item.
JourneyGood(r) == Filled(r.name) /\ r.status \in Statuses /\ ~DateOrder(r) /\ r.ver >= 1

SegmentGood(s) ==
    /\ s.id \in SegmentIds
    /\ s.pos \in Nat /\ ~DateOrder(s) /\ s.ver >= 1
    /\ s.kind \in {"stay", "move"} /\ Filled(s.name)

ItemGood(p) == Filled(p.label) /\ p.qty \in 1..MaxQuantity /\ p.packed \in 0..p.qty /\ p.ver >= 1

\* Dates in order in one record are in order in another that has them.
LEMMA SameDates ==
    ASSUME NEW r, NEW t, t.start = r.start, t.end = r.end
    PROVE  DateOrder(t) <=> DateOrder(r)
  BY DEF DateOrder

\* A document of the server, or one that was.
Document(d) == Tables(d) /\ parseJourneyData(d) /\ \A s \in d.segments : s.id \in SegmentIds

\* Its parts.
LEMMA DocumentParts ==
    ASSUME NEW d
    PROVE  Document(d) <=>
           /\ Tables(d)
           /\ \A r \in d.journeys : JourneyGood(r)
           /\ \A s \in d.segments : SegmentGood(s) /\ JourneyExists(d, s.journey)
           /\ \A p \in d.packing : ItemGood(p) /\ JourneyExists(d, p.journey)
           /\ \A s, t \in d.segments : s.journey = t.journey /\ s.pos = t.pos => s = t
  <1>1. Tables(d) => DistinctIds(d.journeys) /\ DistinctIds(d.segments) /\ DistinctIds(d.packing)
    BY TablesAre DEF Rows
  <1>2. QED
    BY <1>1 DEF Document, parseJourneyData, JourneysParse, SegmentsParse, PackingParses, JourneyGood, SegmentGood, ItemGood, Filled

\* The segments of a Journey are a timeline, and not too long to be parked.
LEMMA TimelineIs ==
    ASSUME NEW d, Document(d), NEW j
    PROVE  LET S == segmentsForJourney(d, j) IN Spread(S) /\ Cardinality(S) <= Parking
  <1> DEFINE S == segmentsForJourney(d, j)
             f == [s \in S |-> s.id]
  <1>1. \A s \in S : s \in d.segments /\ s.journey = j
    BY DEF segmentsForJourney
  <1>2. DistinctIds(d.segments)
    BY TablesAre DEF Document, Rows
  <1>3. f \in [S -> SegmentIds] /\ \A s, t \in S : f[s] = f[t] => s = t
    BY <1>1, <1>2 DEF Document, DistinctIds
  <1> HIDE DEF f
  <1>4. f \in Injection(S, SegmentIds)
    BY <1>3 DEF Injection, IsInjective
  <1>5. IsFiniteSet(S) /\ Cardinality(S) <= Cardinality(SegmentIds)
    BY <1>4, FS_Injection, SegmentIdsAssumption
  <1>6. Cardinality(S) \in Nat /\ Cardinality(SegmentIds) \in Nat
    BY <1>5, FS_CardinalityType, SegmentIdsAssumption
  <1>7. Spread(S)
    BY <1>1, <1>5, DocumentParts DEF Spread, SegmentGood
  <1>8. Parking \in Nat
    BY DEF Parking
  <1>9. QED
    BY <1>5, <1>6, <1>7, <1>8, SegmentIdsAssumption

\* A document n that follows d and differs in the records of one Journey.
Keeps(d, n, j) == Document(n) /\ \A k : k # j => RecordsOf(n, k) = RecordsOf(d, k)

\* It is enough to look at the records that are new.
LEMMA KeepsBy ==
    ASSUME NEW d, Document(d), NEW n, Tables(n), NEW j,
           \A r \in n.journeys : r \in d.journeys \/ (r.id = j /\ JourneyGood(r)),
           \A r \in d.journeys : r.id # j => r \in n.journeys,
           \A s \in n.segments : s \in d.segments \/ (s.journey = j /\ SegmentGood(s)),
           \A s \in d.segments : s.journey # j => s \in n.segments,
           \A p \in n.packing : p \in d.packing \/ (p.journey = j /\ ItemGood(p)),
           \A p \in d.packing : p.journey # j => p \in n.packing,
           JourneyExists(n, j) \/ ((\A s \in n.segments : s.journey # j) /\ (\A p \in n.packing : p.journey # j)),
           \A s, t \in n.segments : s.journey = j /\ t.journey = j /\ s.pos = t.pos => s = t
    PROVE  Keeps(d, n, j)
  <1>1. \A k : k # j /\ JourneyExists(d, k) => JourneyExists(n, k)
    BY DEF JourneyExists
  <1>2. \A s \in n.segments : SegmentGood(s) /\ JourneyExists(n, s.journey)
    BY <1>1, DocumentParts
  <1>3. \A p \in n.packing : ItemGood(p) /\ JourneyExists(n, p.journey)
    BY <1>1, DocumentParts
  <1>4. \A s, t \in n.segments : s.journey = t.journey /\ s.pos = t.pos => s = t
    BY DocumentParts
  <1>5. \A r \in n.journeys : JourneyGood(r)
    BY DocumentParts
  <1>6. Document(n)
    BY <1>2, <1>3, <1>4, <1>5, DocumentParts
  <1>7. ASSUME NEW k, k # j PROVE RecordsOf(n, k) = RecordsOf(d, k)
    <2>1. {r \in n.journeys : r.id = k} = {r \in d.journeys : r.id = k}
      BY <1>7
    <2>2. {s \in n.segments : s.journey = k} = {s \in d.segments : s.journey = k}
      BY <1>7
    <2>3. {p \in n.packing : p.journey = k} = {p \in d.packing : p.journey = k}
      BY <1>7
    <2>4. QED
      BY <2>1, <2>2, <2>3 DEF RecordsOf, segmentsForJourney, packingForJourney
  <1>8. QED
    BY <1>6, <1>7 DEF Keeps

\* The same for what is below a Journey.
LEMMA BelowKeeps ==
    ASSUME NEW d, Document(d), NEW m, DOMAIN m = Parts, m.journeys = d.journeys, NEW j, JourneyExists(d, j),
           Tables(Touch(m, j)),
           \A s \in m.segments : s \in d.segments \/ (s.journey = j /\ SegmentGood(s)),
           \A s \in d.segments : s.journey # j => s \in m.segments,
           \A p \in m.packing : p \in d.packing \/ (p.journey = j /\ ItemGood(p)),
           \A p \in d.packing : p.journey # j => p \in m.packing,
           \A s, t \in m.segments : s.journey = j /\ t.journey = j /\ s.pos = t.pos => s = t
    PROVE  Keeps(d, Touch(m, j), j)
  <1> DEFINE n == Touch(m, j)
  <1>1. Rows("journeys", m.journeys)
    BY TablesAre DEF Document
  <1>2. /\ n.segments = m.segments /\ n.packing = m.packing
        /\ \A r \in n.journeys : r.id # j => r \in m.journeys
        /\ \A r \in m.journeys : r.id # j => r \in n.journeys
    BY <1>1, TouchRows DEF Parts
  <1>3. n.journeys = {IF r.id = j THEN [r EXCEPT !.ver = @ + 1] ELSE r : r \in m.journeys}
    BY DEF Touch, Parts
  <1>4. ASSUME NEW r \in m.journeys PROVE LET t == [r EXCEPT !.ver = @ + 1] IN t.id = r.id /\ JourneyGood(t)
    <2> DEFINE t == [r EXCEPT !.ver = @ + 1]
    <2>1. DOMAIN r = JourneyFields /\ r.ver \in Nat
      BY <1>1, ColumnsAre DEF Rows
    <2>2. t.id = r.id /\ t.name = r.name /\ t.start = r.start /\ t.end = r.end /\ t.status = r.status /\ t.ver = r.ver + 1
      BY <2>1 DEF JourneyFields
    <2> HIDE DEF t
    <2>3. JourneyGood(r)
      BY DocumentParts
    <2>4. JourneyGood(t)
      <3>1. t.ver >= 1
        BY <2>1, <2>2
      <3>2. ~DateOrder(t)
        BY <2>2, <2>3, SameDates, Zenon DEF JourneyGood
      <3>3. QED
        BY <2>2, <2>3, <3>1, <3>2, Zenon DEF JourneyGood
    <2>5. QED
      BY <2>2, <2>4 DEF t
  <1>5. \A r \in n.journeys : r \in d.journeys \/ (r.id = j /\ JourneyGood(r))
    BY <1>3, <1>4
  <1>6. JourneyExists(n, j)
    BY <1>3, <1>4 DEF JourneyExists
  <1> HIDE DEF n
  <1>7. Tables(n)
    BY DEF n
  <1>8. Keeps(d, n, j)
    BY <1>2, <1>5, <1>6, <1>7, KeepsBy
  <1>9. QED
    BY <1>8 DEF n

\* A request that a page can have made: what it says was checked, and the
\* places that a reorder gives are distinct and below those of parked segments.
Sound(q) ==
    /\ DOMAIN q = RequestFields /\ q.kind \in Kinds
    /\ q.kind # "reorder_segment" => q.order = None
    /\ q.kind \in {"create_journey", "update_journey"} => q.id = q.j /\ Filled(q.body.name) /\ ~DateOrder(q.body)
    /\ q.kind = "update_journey" => q.body.status \in Statuses
    /\ q.kind \in {"create_segment", "update_segment"} =>
          q.id \in SegmentIds /\ q.body.kind \in {"stay", "move"} /\ Filled(q.body.name) /\ ~DateOrder(q.body)
    /\ q.kind \in {"create_item", "update_item"} => Filled(q.body.label) /\ q.body.qty \in 1..MaxQuantity
    /\ q.kind \in {"pack_item", "reorder_segment"} => q.body \in Nat
    /\ q.order # None =>
          /\ \A x \in DOMAIN q.order : q.order[x] \in Nat /\ q.order[x] < Parking
          /\ \A x, y \in DOMAIN q.order : q.order[x] = q.order[y] => x = y

\* The server creates, updates or deletes a Journey.
LEMMA JourneyKept ==
    ASSUME NEW d, Document(d), NEW q, Sound(q), Outcome(q, d) = "ok",
           q.kind \in {"create_journey", "update_journey", "delete_journey"}
    PROVE  Keeps(d, Applied(q, d), q.j)
  <1>1. q.order = None /\ Tables(d)
    BY DEF Sound, Document
  <1>2. Tables(Applied(q, d))
    BY <1>1, JourneyWritten DEF Evolved
  <1>3. DOMAIN d = Parts /\ Rows("journeys", d.journeys)
    BY <1>1, TablesAre DEF Parts
  <1>4. \A s, t \in d.segments : s.journey = t.journey /\ s.pos = t.pos => s = t
    BY DocumentParts
  <1>5. CASE q.kind = "create_journey"
    <2> DEFINE r == [id |-> q.id, name |-> q.body.name, start |-> q.body.start, end |-> q.body.end,
                     status |-> "planning", ver |-> 1]
               n == createJourney(d, q.body, q.id)
    <2>1. Applied(q, d) = n
      BY <1>5 DEF Applied
    <2>2. n.journeys = d.journeys \union {r} /\ n.segments = d.segments /\ n.packing = d.packing
      BY <1>3 DEF createJourney, Parts
    <2>3. /\ r.id = q.id /\ r.name = q.body.name /\ r.start = q.body.start /\ r.end = q.body.end
          /\ r.status = "planning" /\ r.ver = 1
      OBVIOUS
    <2> HIDE DEF r, n
    <2>31. q.id = q.j /\ Filled(q.body.name) /\ ~DateOrder(q.body)
      BY <1>5 DEF Sound
    <2>32. ~DateOrder(r)
      BY <2>3, <2>31, SameDates
    <2>33. r.ver >= 1 /\ r.status \in Statuses
      BY <2>3 DEF Statuses
    <2>34. JourneyGood(r) /\ r.id = q.j
      BY <2>3, <2>31, <2>32, <2>33, Zenon DEF JourneyGood
    <2>4. JourneyExists(n, q.j)
      BY <2>2, <2>34 DEF JourneyExists
    <2>5. Keeps(d, n, q.j)
      BY <1>2, <1>4, <2>1, <2>2, <2>34, <2>4, KeepsBy
    <2>6. QED
      BY <2>1, <2>5
  <1>6. CASE q.kind = "update_journey"
    <2> DEFINE o == WithId(d.journeys, q.j)
               r == [o EXCEPT !.name = q.body.name, !.start = q.body.start,
                              !.end = q.body.end, !.status = q.body.status, !.ver = @ + 1]
               n == [d EXCEPT !.journeys = Put(d.journeys, r)]
    <2>1. Applied(q, d) = n /\ JourneyExists(d, q.j)
      BY <1>6 DEF Applied, RowOf, Outcome, Found
    <2>2. o \in d.journeys /\ o.id = q.j
      BY <2>1 DEF JourneyExists, WithId
    <2>3. DOMAIN o = JourneyFields /\ o.ver \in Nat
      BY <1>3, <2>2, ColumnsAre DEF Rows
    <2> HIDE DEF o
    <2>4. /\ r.ver = o.ver + 1 /\ r.id = q.j /\ r.name = q.body.name /\ r.start = q.body.start /\ r.end = q.body.end
          /\ r.status = q.body.status
      BY <2>2, <2>3 DEF JourneyFields
    <2> HIDE DEF r
    <2>41. r.ver >= 1
      BY <2>3, <2>4
    <2>42. Filled(q.body.name) /\ ~DateOrder(q.body) /\ q.body.status \in Statuses
      BY <1>6, Zenon DEF Sound
    <2>43. ~DateOrder(r)
      BY <2>4, <2>42, SameDates
    <2>5. JourneyGood(r)
      BY <2>4, <2>41, <2>42, <2>43, Zenon DEF JourneyGood
    <2>6. n.journeys = Put(d.journeys, r) /\ n.segments = d.segments /\ n.packing = d.packing
      BY <1>3 DEF Parts
    <2> HIDE DEF n
    <2>7. JourneyExists(n, q.j)
      BY <2>2, <2>4, <2>6 DEF JourneyExists, Put
    <2>8. \A x \in n.journeys : x \in d.journeys \/ x = r
      BY <2>6 DEF Put
    <2>9. \A x \in d.journeys : x.id # q.j => x \in n.journeys
      BY <2>4, <2>6 DEF Put
    <2>10. Keeps(d, n, q.j)
      BY <1>2, <1>4, <2>1, <2>4, <2>5, <2>6, <2>7, <2>8, <2>9, KeepsBy
    <2>11. QED
      BY <2>1, <2>10
  <1>7. CASE q.kind = "delete_journey"
    <2> DEFINE n == deleteJourney(d, q.j)
    <2>1. Applied(q, d) = n
      BY <1>7 DEF Applied
    <2>2. /\ n.journeys = {r \in d.journeys : r.id # q.j}
          /\ n.segments = {s \in d.segments : s.journey # q.j}
          /\ n.packing = {p \in d.packing : p.journey # q.j}
      BY DEF deleteJourney
    <2> HIDE DEF n
    <2>3. Keeps(d, n, q.j)
      BY <1>2, <1>4, <2>1, <2>2, KeepsBy
    <2>4. QED
      BY <2>1, <2>3
  <1>8. QED
    BY <1>5, <1>6, <1>7

\* A segment with the dates of something that was checked.
LEMMA GoodSegment ==
    ASSUME NEW s, NEW b, s.start = b.start, s.end = b.end, ~DateOrder(b), s.id \in SegmentIds, s.pos \in Nat,
           s.ver >= 1, s.kind \in {"stay", "move"}, Filled(s.name)
    PROVE  SegmentGood(s)
  <1>1. ~DateOrder(s)
    BY SameDates
  <1>2. QED
    BY <1>1, Zenon DEF SegmentGood

\* A segment is put elsewhere on its timeline.
LEMMA MovedGood ==
    ASSUME NEW s, SegmentGood(s), NEW n, n.id = s.id, n.kind = s.kind, n.name = s.name, n.start = s.start, n.end = s.end,
           n.pos \in Nat, n.ver >= 1
    PROVE  SegmentGood(n)
  <1>1. s.id \in SegmentIds /\ ~DateOrder(s) /\ s.kind \in {"stay", "move"} /\ Filled(s.name)
    BY Zenon DEF SegmentGood
  <1>2. QED
    BY <1>1, GoodSegment

\* The server creates or updates a segment.
LEMMA SegmentSaved ==
    ASSUME NEW d, Document(d), NEW q, Sound(q), Outcome(q, d) = "ok", q.kind \in {"create_segment", "update_segment"}
    PROVE  Keeps(d, Applied(q, d), q.j)
  <1>1. /\ q.order = None /\ Tables(d) /\ q.id \in SegmentIds /\ q.body.kind \in {"stay", "move"} /\ Filled(q.body.name)
        /\ ~DateOrder(q.body)
    BY Zenon DEF Sound, Document
  <1>2. Tables(Applied(q, d))
    BY <1>1, SegmentWritten DEF Evolved
  <1>3. DOMAIN d = Parts /\ Rows("segments", d.segments)
    BY <1>1, TablesAre DEF Parts
  <1>4. /\ \A s, t \in d.segments : s.journey = t.journey /\ s.pos = t.pos => s = t
        /\ \A s \in d.segments : SegmentGood(s) /\ JourneyExists(d, s.journey)
    BY DocumentParts
  <1>5. CASE q.kind = "create_segment"
    <2> DEFINE S == segmentsForJourney(d, q.j)
               r == [id |-> q.id, journey |-> q.j, pos |-> NextPosition(S), kind |-> q.body.kind,
                     name |-> q.body.name, start |-> q.body.start, end |-> q.body.end, ver |-> 1]
               m == [d EXCEPT !.segments = @ \union {r}]
    <2>1. Applied(q, d) = Touch(m, q.j) /\ JourneyExists(d, q.j)
      BY <1>5 DEF Applied, Outcome, Found
    <2>2. DOMAIN m = Parts /\ m.journeys = d.journeys /\ m.segments = d.segments \union {r} /\ m.packing = d.packing
      BY <1>3 DEF Parts
    <2>3. /\ r.id = q.id /\ r.journey = q.j /\ r.pos = NextPosition(S) /\ r.kind = q.body.kind /\ r.name = q.body.name
          /\ r.start = q.body.start /\ r.end = q.body.end /\ r.ver = 1
      OBVIOUS
    <2>4. NextPosition(S) \in Nat /\ \A s \in S : s.pos < NextPosition(S) /\ s.pos \in Nat
      BY TimelineIs, NextPositionIs DEF Spread
    <2>5. \A s \in d.segments : s.journey = q.j <=> s \in S
      BY DEF segmentsForJourney
    <2> HIDE DEF r, m, S
    <2>6. r.pos \in Nat /\ r.ver >= 1 /\ \A s \in d.segments : s.journey = q.j => s.pos # r.pos
      BY <2>3, <2>4, <2>5
    <2>7. SegmentGood(r) /\ r.journey = q.j
      BY <1>1, <2>3, <2>6, GoodSegment
    <2>8. Keeps(d, Touch(m, q.j), q.j)
      BY <1>2, <1>4, <2>1, <2>2, <2>6, <2>7, BelowKeeps
    <2>9. QED
      BY <2>1, <2>8
  <1>6. CASE q.kind = "update_segment"
    <2> DEFINE o == WithId(d.segments, q.id)
               r == [o EXCEPT !.kind = q.body.kind, !.name = q.body.name,
                              !.start = q.body.start, !.end = q.body.end, !.ver = @ + 1]
               m == [d EXCEPT !.segments = Put(d.segments, r)]
    <2>1. Applied(q, d) = Touch(m, q.j) /\ OwnedSegment(d, q.j, q.id)
      BY <1>6 DEF Applied, RowOf, Outcome, Found
    <2>2. PICK s \in d.segments : s.id = q.id /\ s.journey = q.j
      BY <2>1 DEF OwnedSegment, segmentsForJourney
    <2>3. o = s
      BY <1>3, <2>2 DEF WithId, Rows, DistinctIds
    <2>4. DOMAIN s = SegmentFields /\ s.ver \in Nat /\ s.pos \in Nat
      BY <1>3, <1>4, <2>2, ColumnsAre DEF Rows, SegmentGood
    <2> HIDE DEF o
    <2>5. /\ r.id = q.id /\ r.journey = q.j /\ r.pos = s.pos /\ r.kind = q.body.kind /\ r.name = q.body.name
          /\ r.start = q.body.start /\ r.end = q.body.end /\ r.ver = s.ver + 1
      BY <2>2, <2>3, <2>4 DEF SegmentFields
    <2> HIDE DEF r
    <2>6. r.ver >= 1 /\ r.pos \in Nat
      BY <2>4, <2>5
    <2>7. SegmentGood(r)
      BY <1>1, <2>5, <2>6, GoodSegment
    <2>8. DOMAIN m = Parts /\ m.journeys = d.journeys /\ m.segments = Put(d.segments, r) /\ m.packing = d.packing
      BY <1>3 DEF Parts
    <2> HIDE DEF m
    <2>9. /\ \A x \in m.segments : x = r \/ (x \in d.segments /\ x.id # r.id)
          /\ \A x \in d.segments : x.journey # q.j => x \in m.segments
      BY <1>3, <2>2, <2>5, <2>8 DEF Put, Rows, DistinctIds
    <2>10. \A x, y \in m.segments : x.journey = q.j /\ y.journey = q.j /\ x.pos = y.pos => x = y
      BY <1>4, <2>2, <2>5, <2>9
    <2>11. JourneyExists(d, q.j)
      BY <1>4, <2>2
    <2>12. Keeps(d, Touch(m, q.j), q.j)
      BY <1>2, <2>1, <2>5, <2>7, <2>8, <2>9, <2>10, <2>11, BelowKeeps
    <2>13. QED
      BY <2>1, <2>12
  <1>7. QED
    BY <1>5, <1>6

\* The segments of a Journey are put in other places, and perhaps one is gone.
Replaced(d, j, T, f) ==
    /\ T \subseteq d.segments
    /\ \A s \in d.segments : s.journey # j => s \in T
    /\ \A s \in T : IF s.journey = j THEN SegmentGood(f[s]) /\ f[s].journey = j ELSE f[s] = s
    /\ \A s, t \in T : s.journey = j /\ t.journey = j /\ f[s].pos = f[t].pos => s = t

\* Then the document is still one.
LEMMA PlacesKept ==
    ASSUME NEW d, Document(d), NEW j, JourneyExists(d, j), NEW T, NEW f, Replaced(d, j, T, f),
           NEW m, DOMAIN m = Parts, m.journeys = d.journeys, m.packing = d.packing, m.segments = {f[s] : s \in T},
           Tables(Touch(m, j))
    PROVE  Keeps(d, Touch(m, j), j)
  <1>1. \A s \in m.segments : s \in d.segments \/ (s.journey = j /\ SegmentGood(s))
    BY DEF Replaced
  <1>2. \A s \in d.segments : s.journey # j => s \in m.segments
    BY DEF Replaced
  <1>3. \A s, t \in m.segments : s.journey = j /\ t.journey = j /\ s.pos = t.pos => s = t
    BY DEF Replaced
  <1>4. QED
    BY <1>1, <1>2, <1>3, BelowKeeps

\* The server deletes a segment and closes the gap.
LEMMA SegmentDropped ==
    ASSUME NEW d, Document(d), NEW q, Sound(q), Outcome(q, d) = "ok", q.kind = "delete_segment"
    PROVE  Keeps(d, Applied(q, d), q.j)
  <1> DEFINE left == {s \in segmentsForJourney(d, q.j) : s.id # q.id}
             T == {s \in d.segments : s.id # q.id}
             f == [s \in T |-> IF s.journey = q.j THEN [s EXCEPT !.pos = IndexIn(left, s)] ELSE s]
             m == deleteSegment(d, q.j, q.id)
  <1>1. q.order = None /\ Tables(d)
    BY DEF Sound, Document
  <1>2. Tables(Applied(q, d))
    BY <1>1, SegmentWritten DEF Evolved
  <1>3. DOMAIN d = Parts /\ Rows("segments", d.segments)
    BY <1>1, TablesAre DEF Parts
  <1>4. \A s \in d.segments : SegmentGood(s) /\ JourneyExists(d, s.journey) /\ s.ver >= 1
    BY DocumentParts DEF SegmentGood
  <1>5. Applied(q, d) = Touch(m, q.j) /\ OwnedSegment(d, q.j, q.id)
    BY DEF Applied, Outcome, Found
  <1>6. PICK o \in d.segments : o.id = q.id /\ o.journey = q.j
    BY <1>5 DEF OwnedSegment, segmentsForJourney
  <1>7. DOMAIN m = Parts /\ m.journeys = d.journeys /\ m.segments = {f[s] : s \in T} /\ m.packing = d.packing
    BY <1>3 DEF Parts, deleteSegment
  <1>8. Spread(left)
    BY TimelineIs, SpreadPart
  <1>9. \A s \in T : s.journey = q.j => s \in left
    BY DEF segmentsForJourney
  <1>10. ASSUME NEW s \in T, s.journey = q.j PROVE SegmentGood(f[s]) /\ f[s].journey = q.j /\ f[s].pos = IndexIn(left, s)
    <2> DEFINE p == IndexIn(left, s)
               n == [s EXCEPT !.pos = p, !.ver = s.ver]
    <2>1. DOMAIN s = SegmentFields /\ s.ver \in Nat
      BY <1>3, ColumnsAre DEF Rows
    <2>2. p \in Nat
      BY <1>8, <1>9, <1>10, IndexGrows
    <2>3. f[s] = n
      BY <1>10, <2>1 DEF SegmentFields
    <2>31. SegmentGood(s) /\ s.ver >= 1
      BY <1>4
    <2> HIDE DEF p, f, T
    <2>4. /\ n.id = s.id /\ n.journey = s.journey /\ n.kind = s.kind /\ n.name = s.name /\ n.start = s.start
          /\ n.end = s.end /\ n.pos = p /\ n.ver = s.ver
      BY <2>1 DEF SegmentFields
    <2> HIDE DEF n
    <2>5. SegmentGood(n)
      BY <2>2, <2>31, <2>4, MovedGood
    <2>6. QED
      BY <1>10, <2>3, <2>4, <2>5 DEF p
  <1>11. \A s, t \in T : s.journey = q.j /\ t.journey = q.j /\ f[s].pos = f[t].pos => s = t
    BY <1>8, <1>9, <1>10, IndexApart
  <1>12. /\ T \in SUBSET d.segments
         /\ \A s \in d.segments : s.journey # q.j => s \in T
         /\ \A s \in T : s.journey # q.j => f[s] = s
    BY <1>3, <1>6 DEF Rows, DistinctIds
  <1> HIDE DEF T, f, m, left
  <1>13. JourneyExists(d, q.j) /\ Tables(Touch(m, q.j))
    BY <1>2, <1>4, <1>5, <1>6
  <1>14. Replaced(d, q.j, T, f)
    BY <1>10, <1>11, <1>12 DEF Replaced
  <1>15. Keeps(d, Touch(m, q.j), q.j)
    BY <1>7, <1>13, <1>14, PlacesKept
  <1>16. QED
    BY <1>5, <1>15

\* The server writes an order that it made up before; segments that have come
\* since are parked behind it.
LEMMA SegmentsReordered ==
    ASSUME NEW d, Document(d), NEW q, Sound(q), Outcome(q, d) = "ok", q.kind = "reorder_segment", q.order # None
    PROVE  Keeps(d, Applied(q, d), q.j)
  <1> DEFINE T == d.segments
             f == [s \in T |-> IF s.journey = q.j THEN Reordered(s, q) ELSE s]
             m == [d EXCEPT !.segments = {IF s.journey = q.j THEN Reordered(s, q) ELSE s : s \in @}]
             P(s) == IF s.id \in DOMAIN q.order THEN q.order[s.id] ELSE s.pos + Parking
  <1>1. /\ Tables(d) /\ \A x \in DOMAIN q.order : q.order[x] \in Nat /\ q.order[x] < Parking
        /\ \A x, y \in DOMAIN q.order : q.order[x] = q.order[y] => x = y
    BY DEF Sound, Document
  <1>2. Tables(Applied(q, d))
    BY <1>1, SegmentWritten DEF Evolved
  <1>3. DOMAIN d = Parts /\ Rows("segments", d.segments)
    BY <1>1, TablesAre DEF Parts
  <1>4. /\ \A s \in d.segments : SegmentGood(s) /\ JourneyExists(d, s.journey) /\ s.ver >= 1 /\ s.pos \in Nat
        /\ \A s, t \in d.segments : s.journey = t.journey /\ s.pos = t.pos => s = t
    BY DocumentParts DEF SegmentGood
  <1>5. Applied(q, d) = Touch(m, q.j) /\ OwnedSegment(d, q.j, q.id)
    BY DEF Applied, Outcome, Found
  <1>6. PICK o \in d.segments : o.id = q.id /\ o.journey = q.j
    BY <1>5 DEF OwnedSegment, segmentsForJourney
  <1>7. DOMAIN m = Parts /\ m.journeys = d.journeys /\ m.segments = {f[s] : s \in T} /\ m.packing = d.packing
    BY <1>3 DEF Parts
  <1>8. ASSUME NEW s \in T, s.journey = q.j PROVE SegmentGood(f[s]) /\ f[s].journey = q.j /\ f[s].pos = P(s) /\ P(s) \in Nat
    <2> DEFINE n == Reordered(s, q)
    <2>1. DOMAIN s = SegmentFields /\ s.ver \in Nat /\ SegmentGood(s) /\ s.ver >= 1 /\ s.pos \in Nat
      BY <1>3, <1>4, ColumnsAre DEF Rows
    <2>2. P(s) \in Nat
      BY <1>1, <2>1 DEF Parking
    <2>3. f[s] = n
      BY <1>8
    <2>4. /\ n.id = s.id /\ n.journey = s.journey /\ n.kind = s.kind /\ n.name = s.name /\ n.start = s.start
          /\ n.end = s.end /\ n.pos = P(s) /\ n.ver = IF s.id = q.id THEN s.ver + 1 ELSE s.ver
      BY <2>1 DEF SegmentFields, Reordered
    <2> HIDE DEF n, f, P, T
    <2>5. n.ver >= 1 /\ n.pos \in Nat
      BY <2>1, <2>2, <2>4
    <2>6. SegmentGood(n)
      BY <2>1, <2>4, <2>5, MovedGood
    <2>7. QED
      BY <1>8, <2>2, <2>3, <2>4, <2>6
  <1>9. ASSUME NEW s \in T, NEW t \in T, s.journey = q.j, t.journey = q.j, P(s) = P(t) PROVE s = t
    <2>1. s.pos \in Nat /\ t.pos \in Nat
      BY <1>4
    <2>2. s.id \in DOMAIN q.order <=> t.id \in DOMAIN q.order
      BY <1>1, <1>9, <2>1 DEF Parking
    <2>3. CASE s.id \in DOMAIN q.order
      BY <1>1, <1>3, <1>9, <2>2, <2>3 DEF Rows, DistinctIds
    <2>4. CASE s.id \notin DOMAIN q.order
      <3>1. s.pos = t.pos
        BY <1>9, <2>1, <2>2, <2>4 DEF Parking
      <3>2. QED
        BY <1>4, <1>9, <3>1
    <2>5. QED
      BY <2>3, <2>4
  <1>10. \A s \in T : s.journey # q.j => f[s] = s
    OBVIOUS
  <1> HIDE DEF P, f, m
  <1>11. Replaced(d, q.j, T, f)
    BY <1>8, <1>9, <1>10 DEF Replaced
  <1> HIDE DEF T
  <1>12. JourneyExists(d, q.j) /\ Tables(Touch(m, q.j))
    BY <1>2, <1>4, <1>5, <1>6
  <1>13. Keeps(d, Touch(m, q.j), q.j)
    BY <1>7, <1>11, <1>12, PlacesKept
  <1>14. QED
    BY <1>5, <1>13

\* A packing item whose quantities fit.
LEMMA GoodItem ==
    ASSUME NEW p, Filled(p.label), NEW n \in 1..MaxQuantity, p.qty = n, NEW k \in Nat, k <= n, p.packed = k,
           NEW v \in Nat, p.ver = v + 1
    PROVE  ItemGood(p)
  <1>1. n \in Nat
    BY MaxQuantityAssumption
  <1>2. k \in 0..n /\ p.ver >= 1
    BY <1>1
  <1>3. QED
    BY <1>2, Zenon DEF ItemGood

\* The server creates, changes, packs or deletes a packing item.
LEMMA ItemKept ==
    ASSUME NEW d, Document(d), NEW q, Sound(q), Outcome(q, d) = "ok",
           q.kind \in {"create_item", "update_item", "pack_item", "delete_item"}
    PROVE  Keeps(d, Applied(q, d), q.j)
  <1>1. q.order = None /\ Tables(d)
    BY DEF Sound, Document
  <1>2. Tables(Applied(q, d))
    BY <1>1, ItemWritten DEF Evolved
  <1>3. DOMAIN d = Parts /\ Rows("packing", d.packing)
    BY <1>1, TablesAre DEF Parts
  <1>4. /\ \A s, t \in d.segments : s.journey = t.journey /\ s.pos = t.pos => s = t
        /\ \A p \in d.packing : ItemGood(p) /\ JourneyExists(d, p.journey)
    BY DocumentParts
  <1>5. CASE q.kind = "create_item"
    <2> DEFINE r == [id |-> q.id, journey |-> q.j, label |-> q.body.label, qty |-> q.body.qty, packed |-> 0, ver |-> 1]
               m == addPacking(d, q.j, q.body, q.id)
    <2>1. Applied(q, d) = Touch(m, q.j) /\ JourneyExists(d, q.j)
      BY <1>5 DEF Applied, Outcome, Found
    <2>2. DOMAIN m = Parts /\ m.journeys = d.journeys /\ m.segments = d.segments /\ m.packing = d.packing \union {r}
      BY <1>3 DEF Parts, addPacking
    <2>3. r.journey = q.j /\ r.label = q.body.label /\ r.qty = q.body.qty /\ r.packed = 0 /\ r.ver = 1
      OBVIOUS
    <2>4. Filled(q.body.label) /\ q.body.qty \in 1..MaxQuantity
      BY <1>5 DEF Sound
    <2> HIDE DEF r, m
    <2>5. ItemGood(r)
      <3>1. 0 \in Nat /\ 0 <= q.body.qty /\ r.ver = 0 + 1
        <4>1. q.body.qty \in Nat /\ 0 \in Nat
          BY <2>4, MaxQuantityAssumption
        <4>2. QED
          BY <2>3, <4>1
      <3>2. QED
        BY <2>3, <2>4, <3>1, GoodItem
    <2>6. Keeps(d, Touch(m, q.j), q.j)
      BY <1>2, <1>4, <2>1, <2>2, <2>3, <2>5, BelowKeeps
    <2>7. QED
      BY <2>1, <2>6
  <1>6. CASE q.kind \in {"update_item", "pack_item"}
    <2> DEFINE o == WithId(d.packing, q.id)
               u == [o EXCEPT !.label = q.body.label, !.qty = q.body.qty, !.packed = Least(@, q.body.qty), !.ver = @ + 1]
               p == [o EXCEPT !.packed = q.body, !.ver = @ + 1]
               r == IF q.kind = "update_item" THEN u ELSE p
               m == [d EXCEPT !.packing = Put(d.packing, r)]
    <2>1. Applied(q, d) = Touch(m, q.j) /\ OwnedItem(d, q.j, q.id)
      BY <1>6 DEF Applied, RowOf, Outcome, Found
    <2>2. PICK s \in d.packing : s.id = q.id /\ s.journey = q.j
      BY <2>1 DEF OwnedItem, packingForJourney
    <2>3. o = s
      BY <1>3, <2>2 DEF WithId, Rows, DistinctIds
    <2>4. DOMAIN s = ItemFields /\ s.ver \in Nat /\ Filled(s.label) /\ s.qty \in 1..MaxQuantity
      BY <1>3, <1>4, <2>2, ColumnsAre DEF Rows, ItemGood
    <2>5. q.kind = "pack_item" => q.body \in 0..s.qty
      <3>1. ASSUME q.kind = "pack_item" PROVE q.body \in Nat /\ ~(q.body > s.qty)
        BY <1>1, <2>3, <3>1 DEF Sound, Outcome, RowOf
      <3>2. s.qty \in Nat
        BY <2>4, MaxQuantityAssumption
      <3>3. QED
        BY <3>1, <3>2
    <2>6. q.kind = "update_item" => Filled(q.body.label) /\ q.body.qty \in 1..MaxQuantity
      BY DEF Sound
    <2> HIDE DEF o
    <2>7. /\ r.id = q.id /\ r.journey = q.j /\ r.ver = s.ver + 1
          /\ q.kind = "update_item" => r.label = q.body.label /\ r.qty = q.body.qty /\ r.packed = Least(s.packed, q.body.qty)
          /\ q.kind # "update_item" => r.label = s.label /\ r.qty = s.qty /\ r.packed = q.body
      BY <2>2, <2>3, <2>4 DEF ItemFields
    <2> HIDE DEF r, u, p
    <2>8. ItemGood(r)
      <3>1. s.ver \in Nat /\ r.ver = s.ver + 1 /\ s.qty \in Nat /\ s.packed \in Nat
        <4>1. s.qty \in Nat
          BY <2>4, MaxQuantityAssumption
        <4>2. s.packed \in 0..s.qty
          BY <1>4, <2>2, Zenon DEF ItemGood
        <4>3. QED
          BY <2>4, <2>7, <4>1, <4>2
      <3>2. CASE q.kind = "update_item"
        <4>1. q.body.qty \in 1..MaxQuantity /\ Filled(r.label) /\ r.qty = q.body.qty /\ r.packed = Least(s.packed, q.body.qty)
          BY <2>6, <2>7, <3>2
        <4>2. q.body.qty \in Nat
          BY <4>1, MaxQuantityAssumption
        <4>3. r.packed \in Nat /\ r.packed <= q.body.qty
          BY <3>1, <4>1, <4>2 DEF Least
        <4>4. QED
          BY <3>1, <4>1, <4>3, GoodItem
      <3>3. CASE q.kind = "pack_item"
        <4>1. r.packed = q.body /\ r.qty = s.qty /\ r.label = s.label
          BY <2>7, <3>3
        <4>2. q.body \in Nat /\ q.body <= s.qty
          BY <2>5, <3>1, <3>3
        <4>3. QED
          BY <2>4, <3>1, <4>1, <4>2, GoodItem
      <3>4. QED
        BY <1>6, <3>2, <3>3
    <2>9. DOMAIN m = Parts /\ m.journeys = d.journeys /\ m.segments = d.segments /\ m.packing = Put(d.packing, r)
      BY <1>3 DEF Parts
    <2> HIDE DEF m
    <2>10. /\ \A x \in m.packing : x = r \/ x \in d.packing
           /\ \A x \in d.packing : x.journey # q.j => x \in m.packing
      BY <1>3, <2>2, <2>7, <2>9 DEF Put, Rows, DistinctIds
    <2>11. JourneyExists(d, q.j)
      BY <1>4, <2>2
    <2>12. Keeps(d, Touch(m, q.j), q.j)
      BY <1>2, <1>4, <2>1, <2>7, <2>8, <2>9, <2>10, <2>11, BelowKeeps
    <2>13. QED
      BY <2>1, <2>12
  <1>7. CASE q.kind = "delete_item"
    <2> DEFINE m == deletePackingItem(d, q.j, q.id)
    <2>1. Applied(q, d) = Touch(m, q.j) /\ OwnedItem(d, q.j, q.id)
      BY <1>7 DEF Applied, Outcome, Found
    <2>2. DOMAIN m = Parts /\ m.journeys = d.journeys /\ m.segments = d.segments /\ m.packing = {p \in d.packing : p.id # q.id}
      BY <1>3 DEF Parts, deletePackingItem
    <2> HIDE DEF m
    <2>3. PICK s \in d.packing : s.id = q.id /\ s.journey = q.j
      BY <2>1 DEF OwnedItem, packingForJourney
    <2>4. JourneyExists(d, q.j) /\ \A p \in d.packing : p.journey # q.j => p \in m.packing
      BY <1>3, <1>4, <2>2, <2>3 DEF Rows, DistinctIds
    <2>5. Keeps(d, Touch(m, q.j), q.j)
      BY <1>2, <1>4, <2>1, <2>2, <2>4, BelowKeeps
    <2>6. QED
      BY <2>1, <2>5
  <1>8. QED
    BY <1>5, <1>6, <1>7

\* Whatever request succeeds, the document is one that parses, and the records
\* of other Journeys are as they were.
LEMMA AppliedKeeps ==
    ASSUME NEW d, Document(d), NEW q, Sound(q), Outcome(q, d) = "ok", q.kind = "reorder_segment" => q.order # None
    PROVE  Keeps(d, Applied(q, d), q.j)
  <1>1. q.kind \in Kinds
    BY DEF Sound
  <1>2. QED
    BY <1>1, KindsAre, JourneyKept, SegmentSaved, SegmentDropped, SegmentsReordered, ItemKept

\* The order that a reorder makes up gives every segment a place of its own.
LEMMA CheckedSound ==
    ASSUME NEW d, Document(d), NEW q, Sound(q), Unchecked(q, d)
    PROVE  Sound(Checked(q, d)) /\ Checked(q, d).j = q.j /\ Checked(q, d).id = q.id /\ Checked(q, d).kind = q.kind
  <1> DEFINE S == segmentsForJourney(d, q.j)
             left == {s \in S : s.id # q.id}
             P(s) == IF s.id = q.id THEN q.body
                     ELSE IF IndexIn(left, s) < q.body THEN IndexIn(left, s) ELSE IndexIn(left, s) + 1
             o == Places(S, q.id, q.body)
             n == Checked(q, d)
  <1>1. /\ DOMAIN q = RequestFields /\ q.kind \in Kinds /\ q.kind = "reorder_segment" /\ q.body \in Nat
        /\ Outcome(q, d) = "ok" /\ q.order = None
    BY DEF Sound, Unchecked
  <1>2. Spread(S) /\ Cardinality(S) <= Parking /\ Spread(left) /\ IsFiniteSet(S) /\ Cardinality(S) \in Nat
    BY TimelineIs, SpreadPart, FS_CardinalityType DEF Spread
  <1>3. OwnedSegment(d, q.j, q.id) /\ ~(q.body >= Cardinality(S))
    BY <1>1 DEF Outcome, Found
  <1>4. PICK u \in S : u.id = q.id
    BY <1>3 DEF OwnedSegment
  <1>5. DistinctIds(S)
    BY TablesAre DEF Document, Rows, segmentsForJourney, DistinctIds
  <1>6. o = [x \in {s.id : s \in S} |-> P(WithId(S, x))]
    BY DEF Places
  <1>7. \A s \in S : WithId(S, s.id) = s
    BY <1>5 DEF WithId, DistinctIds
  <1>8. Cardinality(left) \in Nat /\ Cardinality(left) < Cardinality(S)
    <2>1. left \subseteq S /\ left # S
      BY <1>4
    <2>2. QED
      BY <1>2, <2>1, FS_Subset, FS_CardinalityType
  <1>9. ASSUME NEW s \in S PROVE P(s) \in Nat /\ P(s) < Parking
    <2>1. CASE s.id = q.id
      BY <1>1, <1>2, <1>3, <2>1 DEF Parking
    <2>2. CASE s.id # q.id
      <3>1. IndexIn(left, s) \in Nat /\ IndexIn(left, s) < Cardinality(left)
        BY <1>2, <2>2, IndexGrows
      <3> HIDE DEF left
      <3>2. QED
        BY <1>1, <1>2, <1>8, <2>2, <3>1 DEF Parking
    <2>3. QED
      BY <2>1, <2>2
  <1>10. ASSUME NEW s \in S, NEW t \in S, P(s) = P(t) PROVE s.id = t.id
    <2>1. ASSUME NEW a \in S, a.id # q.id PROVE IndexIn(left, a) \in Nat /\ P(a) # q.body
      <3>1. IndexIn(left, a) \in Nat
        BY <1>2, <2>1, IndexGrows
      <3> HIDE DEF left
      <3>2. QED
        BY <1>1, <2>1, <3>1
    <2>2. CASE s.id = q.id \/ t.id = q.id
      BY <1>10, <2>1, <2>2
    <2>3. CASE s.id # q.id /\ t.id # q.id
      <3>1. s \in left /\ t \in left
        BY <2>3
      <3>2. IndexIn(left, s) \in Nat /\ IndexIn(left, t) \in Nat
        BY <2>1, <2>3
      <3> HIDE DEF left
      <3>3. IndexIn(left, s) = IndexIn(left, t)
        BY <1>1, <1>10, <2>3, <3>2
      <3>4. QED
        BY <1>2, <3>1, <3>3, IndexApart
    <2>4. QED
      BY <2>2, <2>3
  <1>11. /\ DOMAIN n = RequestFields /\ n.kind = q.kind /\ n.j = q.j /\ n.id = q.id /\ n.body = q.body /\ n.order = o
    BY <1>1 DEF Checked, RequestFields
  <1> HIDE DEF n, P, left, S
  <1>12. DOMAIN o = {s.id : s \in S} /\ \A s \in S : o[s.id] = P(s)
    BY <1>6, <1>7
  <1> HIDE DEF o
  <1>13. /\ \A x \in DOMAIN o : o[x] \in Nat /\ o[x] < Parking
         /\ \A x, y \in DOMAIN o : o[x] = o[y] => x = y
    BY <1>9, <1>10, <1>12
  <1>14. Sound(n)
    BY <1>1, <1>11, <1>13 DEF Sound
  <1>15. QED
    BY <1>11, <1>14 DEF n

-----------------------------------------------------------------------------
(***************************************************************************)
(* What an edit changes, and what a save asks for because of it.           *)
(***************************************************************************)
MovingOps == {"add_segment", "delete_segment", "move_segment"}

\* Every segment of T stands where it stood in S.
Standing(S, T) ==
    /\ Spread(S) /\ Spread(T)
    /\ \A t \in T : \E s \in S : s.id = t.id /\ s.pos = t.pos
    /\ \A s \in S : \E t \in T : s.id = t.id /\ s.pos = t.pos

\* The edited document n differs from d in the object of the edit, and in the
\* places of the segments of its Journey.
Touches(e, d, n) ==
    /\ \A r \in n.journeys : r \in d.journeys \/ (r.id = e.id /\ e.id = e.j /\ JourneyGood(r))
    /\ \A r \in d.journeys : HasId(n.journeys, r.id) \/ (r.id = e.id /\ e.id = e.j)
    /\ \A s \in n.segments :
          \/ \E o \in d.segments : o.id = s.id /\ SegmentBody(o) = SegmentBody(s)
          \/ s.id = e.id /\ s.journey = e.j /\ SegmentGood(s)
    /\ \A s \in d.segments : JourneyExists(n, s.journey) => HasId(n.segments, s.id) \/ (s.id = e.id /\ s.journey = e.j)
    /\ \A p \in n.packing : p \in d.packing \/ (p.id = e.id /\ p.journey = e.j /\ ItemGood(p))
    /\ \A p \in d.packing : JourneyExists(n, p.journey) => HasId(n.packing, p.id) \/ (p.id = e.id /\ p.journey = e.j)
    /\ IsFiniteSet(n.segments)
    /\ \A j : j # e.j \/ e.op \notin MovingOps =>
          ~JourneyExists(n, j) \/ Standing(segmentsForJourney(d, j), segmentsForJourney(n, j))

\* The request q follows from the edit e.
About(q, e) ==
    /\ q.j = e.j
    /\ q.id = e.id \/ (q.kind = "reorder_segment" /\ e.op \in MovingOps)

\* What the checks of the inputs leave.
LEMMA ValidInputs ==
    ASSUME NEW in
    PROVE  /\ validateJourney(in) = {} => Filled(in.name) /\ ~DateOrder(in)
           /\ validateSegment(in) = {} /\ in.kind \in {"stay", "move"} => Filled(in.name) /\ ~DateOrder(in)
           /\ validatePacking(in) = {} => Filled(in.label) /\ in.qty \in 1..MaxQuantity
  <1>1. validateJourney(in) = {} => "name_required" \notin validateJourney(in) /\ "date_order" \notin validateJourney(in)
    OBVIOUS
  <1>2. validateSegment(in) = {} => /\ "date_order" \notin validateSegment(in)
                                    /\ "place_required" \notin validateSegment(in)
                                    /\ "route_required" \notin validateSegment(in)
    OBVIOUS
  <1>3. validatePacking(in) = {} => /\ "packing_label_required" \notin validatePacking(in)
                                    /\ "quantity_invalid" \notin validatePacking(in)
    OBVIOUS
  <1>4. validateJourney(in) = {} => Filled(in.name) /\ ~DateOrder(in)
    BY <1>1 DEF validateJourney, Filled
  <1>5. validateSegment(in) = {} /\ in.kind \in {"stay", "move"} => Filled(in.name) /\ ~DateOrder(in)
    BY <1>2 DEF validateSegment, Filled
  <1>6. validatePacking(in) = {} => Filled(in.label) /\ in.qty \in 1..MaxQuantity
    BY <1>3 DEF validatePacking, Filled
  <1>7. QED
    BY <1>4, <1>5, <1>6

\* Where no segment has moved, the save sees none that has.
LEMMA NothingMoved ==
    ASSUME NEW d, NEW n, NEW j, Standing(segmentsForJourney(d, j), segmentsForJourney(n, j)), DistinctIds(d.segments)
    PROVE  MovedSegments(d, n, j) = {}
  <1> DEFINE S == segmentsForJourney(d, j)
             T == segmentsForJourney(n, j)
  <1>1. SUFFICES ASSUME NEW t \in T,
                        ~(IndexIn(T, t) < Cardinality(S)) \/ At(S, IndexIn(T, t)).id # t.id
                 PROVE  FALSE
    <2>1. ASSUME NEW t \in MovedSegments(d, n, j) PROVE FALSE
      <3>1. t \in T /\ (IndexIn(T, t) >= Cardinality(S) \/ At(S, IndexIn(T, t)).id # t.id)
        BY <2>1 DEF MovedSegments
      <3>2. IndexIn(T, t) \in Nat /\ Cardinality(S) \in Nat
        BY <3>1, IndexGrows, FS_CardinalityType DEF Standing, Spread
      <3> HIDE DEF S, T
      <3>3. ~(IndexIn(T, t) < Cardinality(S)) \/ At(S, IndexIn(T, t)).id # t.id
        BY <3>1, <3>2
      <3>4. QED
        BY <1>1, <3>1, <3>3
    <2>2. QED
      BY <2>1
  <1> HIDE DEF S, T
  <1>2. Standing(S, T)
    BY DEF S, T
  <1>3. PICK s \in S : s.id = t.id /\ s.pos = t.pos
    BY <1>2 DEF Standing
  <1>4. {x.pos : x \in S} = {x.pos : x \in T}
    BY <1>2 DEF Standing
  <1>41. Spread(S) /\ Spread(T)
    BY <1>2 DEF Standing
  <1>5. IndexIn(T, t) = IndexIn(S, s)
    BY <1>3, <1>4, <1>41, SameIndex
  <1>6. IndexIn(S, s) < Cardinality(S) /\ At(S, IndexIn(S, s)) = s
    BY <1>2, IndexGrows, IndexApart DEF Standing
  <1>7. QED
    BY <1>1, <1>3, <1>5, <1>6

\* The requests of a save are sound and are about the edit: Journeys,
LEMMA JourneyRequestsAbout ==
    ASSUME NEW d, Document(d), NEW e, NEW n, Touches(e, d, n), NEW q \in JourneyRequests(d, n)
    PROVE  Sound(q) /\ About(q, e)
  <1> DEFINE A == {Request(1, "delete_journey", r.id, r.id, None, None) : r \in Gone(d.journeys, n.journeys)}
             B == {Request(2, "create_journey", r.id, r.id, JourneyBody(r), None) : r \in Added(d.journeys, n.journeys)}
             C == {Request(2, "update_journey", r.id, r.id, JourneyBody(r), WithId(d.journeys, r.id)) :
                       r \in {x \in n.journeys : \E s \in d.journeys : s.id = x.id /\ JourneyBody(s) # JourneyBody(x)}}
  <1>1. q \in A \union B \union C
    BY DEF JourneyRequests, Changed
  <1>2. DistinctIds(d.journeys)
    BY TablesAre DEF Document, Rows
  <1>3. CASE q \in A
    <2>1. PICK r \in d.journeys : ~HasId(n.journeys, r.id) /\ q = Request(1, "delete_journey", r.id, r.id, None, None)
      BY <1>3 DEF Gone, HasId
    <2>2. r.id = e.id /\ e.id = e.j
      BY <2>1 DEF Touches
    <2>3. DOMAIN q = RequestFields /\ q.kind = "delete_journey" /\ q.j = r.id /\ q.id = r.id /\ q.order = None
      BY <2>1, RequestIs
    <2>4. QED
      BY <2>2, <2>3, KindsAre DEF Sound, About
  <1>4. CASE q \in B \union C
    <2>1. PICK r \in n.journeys :
             /\ r \notin d.journeys /\ DOMAIN q = RequestFields /\ q.kind \in {"create_journey", "update_journey"}
             /\ q.j = r.id /\ q.id = r.id /\ q.order = None /\ q.body = JourneyBody(r)
      <3>1. CASE q \in B
        <4>1. PICK r \in n.journeys : /\ ~\E s \in d.journeys : s.id = r.id
                                      /\ q = Request(2, "create_journey", r.id, r.id, JourneyBody(r), None)
          BY <3>1 DEF Added, Gone
        <4>2. QED
          BY <4>1, RequestIs
      <3>2. CASE q \in C
        <4>1. PICK r \in n.journeys : /\ \E s \in d.journeys : s.id = r.id /\ JourneyBody(s) # JourneyBody(r)
                                      /\ q = Request(2, "update_journey", r.id, r.id, JourneyBody(r), WithId(d.journeys, r.id))
          BY <3>2
        <4>2. r \notin d.journeys
          BY <1>2, <4>1 DEF DistinctIds
        <4>3. QED
          BY <4>1, <4>2, RequestIs
      <3>3. QED
        BY <1>4, <3>1, <3>2
    <2>2. r.id = e.id /\ e.id = e.j /\ JourneyGood(r)
      BY <2>1 DEF Touches
    <2>4. q.body.name = r.name /\ q.body.start = r.start /\ q.body.end = r.end /\ q.body.status = r.status
      BY <2>1 DEF JourneyBody
    <2>5. Filled(r.name) /\ r.status \in Statuses /\ ~DateOrder(r)
      BY <2>2, Zenon DEF JourneyGood
    <2>6. ~DateOrder(q.body)
      BY <2>4, <2>5, SameDates
    <2>7. QED
      BY <2>1, <2>2, <2>4, <2>5, <2>6, KindsAre DEF Sound, About
  <1>5. QED
    BY <1>1, <1>3, <1>4

\* segments,
LEMMA SegmentRequestsAbout ==
    ASSUME NEW d, Document(d), NEW e, NEW n, Touches(e, d, n), NEW q \in SegmentRequests(d, n)
    PROVE  Sound(q) /\ About(q, e)
  <1> DEFINE living == {s \in d.segments : JourneyExists(n, s.journey)}
             A == {Request(3, "delete_segment", s.journey, s.id, None, None) : s \in Gone(living, n.segments)}
             B == {Request(4, "create_segment", s.journey, s.id, SegmentBody(s), None) : s \in Added(d.segments, n.segments)}
             C == {Request(4, "update_segment", s.journey, s.id, SegmentBody(s), WithId(d.segments, s.id)) :
                    s \in {x \in n.segments : \E s \in d.segments : s.id = x.id /\ SegmentBody(s) # SegmentBody(x)}}
             D(r) == {Request(5, "reorder_segment", r.id, s.id, IndexIn(segmentsForJourney(n, r.id), s),
                           WithId(d.segments, s.id)) : s \in MovedSegments(d, n, r.id)}
  <1>1. q \in A \union B \union C \union UNION {D(r) : r \in n.journeys}
    BY DEF SegmentRequests, Changed
  <1>2. DistinctIds(d.segments)
    BY TablesAre DEF Document, Rows
  <1>3. CASE q \in A
    <2>1. PICK s \in living : ~HasId(n.segments, s.id) /\ q = Request(3, "delete_segment", s.journey, s.id, None, None)
      BY <1>3 DEF Gone, HasId
    <2>2. s.id = e.id /\ s.journey = e.j
      BY <2>1 DEF Touches
    <2>3. DOMAIN q = RequestFields /\ q.kind = "delete_segment" /\ q.j = s.journey /\ q.id = s.id /\ q.order = None
      BY <2>1, RequestIs
    <2>4. QED
      BY <2>2, <2>3, KindsAre DEF Sound, About
  <1>4. CASE q \in B \union C
    <2>1. PICK s \in n.segments :
             /\ ~\E o \in d.segments : o.id = s.id /\ SegmentBody(o) = SegmentBody(s)
             /\ DOMAIN q = RequestFields /\ q.kind \in {"create_segment", "update_segment"}
             /\ q.j = s.journey /\ q.id = s.id /\ q.order = None /\ q.body = SegmentBody(s)
      <3>1. CASE q \in B
        <4>1. PICK s \in n.segments : /\ ~\E o \in d.segments : o.id = s.id
                                      /\ q = Request(4, "create_segment", s.journey, s.id, SegmentBody(s), None)
          BY <3>1 DEF Added, Gone
        <4>2. QED
          BY <4>1, RequestIs
      <3>2. CASE q \in C
        <4>1. PICK s \in n.segments : /\ \E o \in d.segments : o.id = s.id /\ SegmentBody(o) # SegmentBody(s)
                                      /\ q = Request(4, "update_segment", s.journey, s.id, SegmentBody(s), WithId(d.segments, s.id))
          BY <3>2
        <4>2. ~\E o \in d.segments : o.id = s.id /\ SegmentBody(o) = SegmentBody(s)
          BY <1>2, <4>1 DEF DistinctIds
        <4>3. QED
          BY <4>1, <4>2, RequestIs
      <3>3. QED
        BY <1>4, <3>1, <3>2
    <2>2. s.id = e.id /\ s.journey = e.j /\ SegmentGood(s)
      BY <2>1 DEF Touches
    <2>4. q.body.kind = s.kind /\ q.body.name = s.name /\ q.body.start = s.start /\ q.body.end = s.end
      BY <2>1 DEF SegmentBody
    <2>5. Filled(s.name) /\ s.id \in SegmentIds /\ s.kind \in {"stay", "move"} /\ ~DateOrder(s)
      BY <2>2, Zenon DEF SegmentGood
    <2>6. ~DateOrder(q.body)
      BY <2>4, <2>5, SameDates
    <2>7. QED
      BY <2>1, <2>2, <2>4, <2>5, <2>6, KindsAre DEF Sound, About
  <1>5. ASSUME NEW r \in n.journeys, q \in D(r) PROVE Sound(q) /\ About(q, e)
    <2> DEFINE T == segmentsForJourney(n, r.id)
    <2>1. PICK s \in MovedSegments(d, n, r.id) : q = Request(5, "reorder_segment", r.id, s.id, IndexIn(T, s), WithId(d.segments, s.id))
      BY <1>5
    <2>2. DOMAIN q = RequestFields /\ q.kind = "reorder_segment" /\ q.j = r.id /\ q.order = None /\ q.body = IndexIn(T, s)
      BY <2>1, RequestIs
    <2>3. JourneyExists(n, r.id)
      BY DEF JourneyExists
    <2>4. r.id = e.j /\ e.op \in MovingOps
      BY <1>2, <2>1, <2>3, NothingMoved DEF Touches
    <2>5. IndexIn(T, s) \in Nat
      <3>1. IsFiniteSet(n.segments) /\ {t \in T : t.pos < s.pos} \subseteq n.segments
        BY DEF Touches, segmentsForJourney
      <3>2. QED
        BY <3>1, FS_Subset, FS_CardinalityType DEF IndexIn
    <2>6. QED
      BY <2>2, <2>4, <2>5, KindsAre DEF Sound, About
  <1>6. QED
    BY <1>1, <1>3, <1>4, <1>5

\* and packing items.
LEMMA ItemRequestsAbout ==
    ASSUME NEW d, Document(d), NEW e, NEW n, Touches(e, d, n), NEW q \in ItemRequests(d, n)
    PROVE  Sound(q) /\ About(q, e)
  <1> DEFINE living == {p \in d.packing : JourneyExists(n, p.journey)}
             A == {Request(6, "delete_item", p.journey, p.id, None, None) : p \in Gone(living, n.packing)}
             B == {Request(7, "create_item", p.journey, p.id, ItemBody(p), None) : p \in Added(d.packing, n.packing)}
             defined == {p \in n.packing : \E s \in d.packing : s.id = p.id /\ ItemBody(s) # ItemBody(p)}
             packed == {p \in n.packing : \E s \in d.packing : s.id = p.id /\ s.packed # p.packed}
             C == {Request(7, "update_item", p.journey, p.id, ItemBody(p), WithId(d.packing, p.id)) : p \in defined}
             D == {Request(7, "pack_item", p.journey, p.id, p.packed, WithId(d.packing, p.id)) : p \in packed \ defined}
  <1>1. q \in A \union B \union C \union D
    BY DEF ItemRequests, Changed
  <1>2. DistinctIds(d.packing)
    BY TablesAre DEF Document, Rows
  <1>3. CASE q \in A
    <2>1. PICK p \in living : ~HasId(n.packing, p.id) /\ q = Request(6, "delete_item", p.journey, p.id, None, None)
      BY <1>3 DEF Gone, HasId
    <2>2. p.id = e.id /\ p.journey = e.j
      BY <2>1 DEF Touches
    <2>3. DOMAIN q = RequestFields /\ q.kind = "delete_item" /\ q.j = p.journey /\ q.id = p.id /\ q.order = None
      BY <2>1, RequestIs
    <2>4. QED
      BY <2>2, <2>3, KindsAre DEF Sound, About
  <1>4. CASE q \in B \union C \union D
    <2>1. PICK p \in n.packing :
             /\ p \notin d.packing /\ DOMAIN q = RequestFields /\ q.kind \in {"create_item", "update_item", "pack_item"}
             /\ q.j = p.journey /\ q.id = p.id /\ q.order = None
             /\ q.body = IF q.kind = "pack_item" THEN p.packed ELSE ItemBody(p)
      <3>1. CASE q \in B
        <4>1. PICK p \in n.packing : /\ ~\E s \in d.packing : s.id = p.id
                                     /\ q = Request(7, "create_item", p.journey, p.id, ItemBody(p), None)
          BY <3>1 DEF Added, Gone
        <4>2. QED
          BY <4>1, RequestIs
      <3>2. CASE q \in C
        <4>1. PICK p \in n.packing : /\ \E s \in d.packing : s.id = p.id /\ ItemBody(s) # ItemBody(p)
                                     /\ q = Request(7, "update_item", p.journey, p.id, ItemBody(p), WithId(d.packing, p.id))
          BY <3>2
        <4>2. p \notin d.packing
          BY <1>2, <4>1 DEF DistinctIds
        <4>3. QED
          BY <4>1, <4>2, RequestIs
      <3>3. CASE q \in D
        <4>1. PICK p \in n.packing : /\ \E s \in d.packing : s.id = p.id /\ s.packed # p.packed
                                     /\ q = Request(7, "pack_item", p.journey, p.id, p.packed, WithId(d.packing, p.id))
          BY <3>3
        <4>2. p \notin d.packing
          BY <1>2, <4>1 DEF DistinctIds
        <4>3. QED
          BY <4>1, <4>2, RequestIs
      <3>4. QED
        BY <1>4, <3>1, <3>2, <3>3
    <2>2. p.id = e.id /\ p.journey = e.j /\ ItemGood(p)
      BY <2>1 DEF Touches
    <2>4. Filled(p.label) /\ p.qty \in 1..MaxQuantity /\ p.packed \in 0..p.qty
      BY <2>2, Zenon DEF ItemGood
    <2>5. p.qty \in Nat
      BY <2>4, MaxQuantityAssumption
    <2>6. p.packed \in Nat
      BY <2>4, <2>5
    <2>7. q.kind # "pack_item" => q.body.label = p.label /\ q.body.qty = p.qty
      BY <2>1 DEF ItemBody
    <2>8. QED
      BY <2>1, <2>2, <2>4, <2>6, <2>7, KindsAre DEF Sound, About
  <1>5. QED
    BY <1>1, <1>3, <1>4

\* A save asks for nothing but the edit.
LEMMA DifferenceAbout ==
    ASSUME NEW d, Document(d), NEW e, NEW n, Touches(e, d, n), NEW q \in Difference(d, n)
    PROVE  Sound(q) /\ About(q, e)
  BY JourneyRequestsAbout, SegmentRequestsAbout, ItemRequestsAbout DEF Difference

\* There are finitely many segments.
LEMMA SegmentsFinite ==
    ASSUME NEW d, Document(d)
    PROVE  IsFiniteSet(d.segments)
  <1> DEFINE S == d.segments
             f == [s \in S |-> s.id]
  <1>1. DistinctIds(S)
    BY TablesAre DEF Document, Rows
  <1>2. f \in [S -> SegmentIds] /\ \A s, t \in S : f[s] = f[t] => s = t
    BY <1>1 DEF Document, DistinctIds
  <1> HIDE DEF f
  <1>3. f \in Injection(S, SegmentIds)
    BY <1>2 DEF Injection, IsInjective
  <1>4. QED
    BY <1>3, FS_Injection, SegmentIdsAssumption

\* A timeline that is as it was.
LEMMA StandingStill ==
    ASSUME NEW d, Document(d), NEW n, NEW j, segmentsForJourney(n, j) = segmentsForJourney(d, j)
    PROVE  Standing(segmentsForJourney(d, j), segmentsForJourney(n, j))
  <1>1. Spread(segmentsForJourney(d, j))
    BY TimelineIs
  <1>2. QED
    BY <1>1 DEF Standing

\* What an edit says of a Journey is fit to be one.
LEMMA GoodJourney ==
    ASSUME NEW r, NEW b, r.start = b.start, r.end = b.end, ~DateOrder(b), r.ver >= 1, r.status \in Statuses, Filled(r.name)
    PROVE  JourneyGood(r)
  <1>1. ~DateOrder(r)
    BY SameDates
  <1>2. QED
    BY <1>1 DEF JourneyGood

\* Edits of Journeys.
LEMMA JourneyTouches ==
    ASSUME NEW d, Document(d), NEW e, Offered(e), Possible(e, d), e.op \in {"create", "update", "status", "delete"}
    PROVE  Touches(e, d, Edited(e, d))
  <1> DEFINE n == Edited(e, d)
  <1>1. e.id = e.j /\ (e.op = "status" => e.in \in Statuses)
    BY DEF Offered
  <1>2. DOMAIN d = Parts /\ Rows("journeys", d.journeys) /\ \A r \in d.journeys : JourneyGood(r)
    BY TablesAre, DocumentParts DEF Document, Parts
  <1>3. IsFiniteSet(d.segments)
    BY SegmentsFinite
  <1>4. CASE e.op = "delete"
    <2>1. n = deleteJourney(d, e.j)
      BY <1>4 DEF Edited
    <2>2. /\ n.journeys = {r \in d.journeys : r.id # e.j}
          /\ n.segments = {s \in d.segments : s.journey # e.j}
          /\ n.packing = {p \in d.packing : p.journey # e.j}
      BY <2>1 DEF deleteJourney
    <2> HIDE DEF n
    <2>3. ~JourneyExists(n, e.j)
      BY <2>2 DEF JourneyExists
    <2>4. \A j : j # e.j => segmentsForJourney(n, j) = segmentsForJourney(d, j)
      BY <2>2 DEF segmentsForJourney
    <2>5. \A j : ~JourneyExists(n, j) \/ Standing(segmentsForJourney(d, j), segmentsForJourney(n, j))
      BY <2>3, <2>4, StandingStill
    <2>6. IsFiniteSet(n.segments)
      BY <1>3, <2>2, FS_Subset
    <2>7. QED
      BY <1>1, <2>2, <2>3, <2>5, <2>6 DEF Touches, HasId, n
  <1>5. CASE e.op \in {"create", "update", "status"}
    <2>1. PICK r : /\ JourneyGood(r) /\ r.id = e.j
                   /\ n.journeys = d.journeys \union {r} \/ n.journeys = Put(d.journeys, r)
                   /\ n.segments = d.segments /\ n.packing = d.packing
      <3>1. CASE e.op = "create"
        <4> DEFINE r == [id |-> e.id, name |-> e.in.name, start |-> e.in.start, end |-> e.in.end,
                         status |-> "planning", ver |-> 1]
        <4>1. n.journeys = d.journeys \union {r} /\ n.segments = d.segments /\ n.packing = d.packing
          BY <1>2, <3>1 DEF Edited, createJourney, Parts
        <4>2. r.id = e.id /\ r.name = e.in.name /\ r.start = e.in.start /\ r.end = e.in.end /\ r.status = "planning" /\ r.ver = 1
          OBVIOUS
        <4>3. Filled(e.in.name) /\ ~DateOrder(e.in)
          BY <3>1, ValidInputs DEF Possible
        <4> HIDE DEF r
        <4>4. JourneyGood(r)
          BY <4>2, <4>3, GoodJourney DEF Statuses
        <4>5. QED
          BY <1>1, <4>1, <4>2, <4>4
      <3>2. CASE e.op = "update"
        <4> DEFINE o == WithId(d.journeys, e.j)
                   r == [o EXCEPT !.name = e.in.name, !.start = e.in.start, !.end = e.in.end]
        <4>1. n.journeys = Put(d.journeys, r) /\ n.segments = d.segments /\ n.packing = d.packing /\ JourneyExists(d, e.j)
          BY <1>2, <3>2 DEF Edited, updateJourney, Parts, Possible
        <4>2. o \in d.journeys /\ o.id = e.j
          BY <4>1 DEF JourneyExists, WithId
        <4>3. DOMAIN o = JourneyFields /\ o.ver \in Nat
          BY <1>2, <4>2, ColumnsAre DEF Rows
        <4>4. o.ver >= 1 /\ o.status \in Statuses
          BY <1>2, <4>2 DEF JourneyGood
        <4> HIDE DEF o
        <4>5. r.id = o.id /\ r.name = e.in.name /\ r.start = e.in.start /\ r.end = e.in.end /\ r.status = o.status /\ r.ver = o.ver
          BY <4>3 DEF JourneyFields
        <4> HIDE DEF r
        <4>6. Filled(e.in.name) /\ ~DateOrder(e.in)
          BY <3>2, ValidInputs DEF Possible
        <4>7. JourneyGood(r)
          BY <4>4, <4>5, <4>6, GoodJourney
        <4>8. QED
          BY <4>1, <4>2, <4>5, <4>7
      <3>3. CASE e.op = "status"
        <4> DEFINE o == WithId(d.journeys, e.j)
                   r == [o EXCEPT !.status = e.in]
        <4>1. n.journeys = Put(d.journeys, r) /\ n.segments = d.segments /\ n.packing = d.packing /\ JourneyExists(d, e.j)
          BY <1>2, <3>3 DEF Edited, setJourneyStatus, Parts, Possible
        <4>2. o \in d.journeys /\ o.id = e.j
          BY <4>1 DEF JourneyExists, WithId
        <4>3. DOMAIN o = JourneyFields
          BY <1>2, <4>2, ColumnsAre DEF Rows
        <4>4. o.ver >= 1 /\ Filled(o.name) /\ ~DateOrder(o)
          BY <1>2, <4>2 DEF JourneyGood
        <4> HIDE DEF o
        <4>5. r.id = o.id /\ r.name = o.name /\ r.start = o.start /\ r.end = o.end /\ r.status = e.in /\ r.ver = o.ver
          BY <4>3 DEF JourneyFields
        <4> HIDE DEF r
        <4>6. JourneyGood(r)
          BY <1>1, <3>3, <4>4, <4>5, GoodJourney
        <4>7. QED
          BY <4>1, <4>2, <4>5, <4>6
      <3>4. QED
        BY <1>5, <3>1, <3>2, <3>3
    <2> HIDE DEF n
    <2>2. \A x \in n.journeys : x \in d.journeys \/ x = r
      BY <2>1 DEF Put
    <2>3. \A x \in d.journeys : HasId(n.journeys, x.id)
      <3>1. CASE n.journeys = d.journeys \union {r}
        BY <3>1 DEF HasId
      <3>2. CASE n.journeys = Put(d.journeys, r)
        BY <3>2 DEF HasId, Put
      <3>3. QED
        BY <2>1, <3>1, <3>2
    <2>4. \A j : Standing(segmentsForJourney(d, j), segmentsForJourney(n, j))
      <3>1. \A j : segmentsForJourney(n, j) = segmentsForJourney(d, j)
        BY <2>1 DEF segmentsForJourney
      <3>2. QED
        BY <3>1, StandingStill
    <2>5. QED
      BY <1>1, <1>3, <2>1, <2>2, <2>3, <2>4 DEF Touches, HasId, n
  <1>6. QED
    BY <1>4, <1>5

\* Edits of packing items.
LEMMA ItemTouches ==
    ASSUME NEW d, Document(d), NEW e, Offered(e), Possible(e, d), e.op \in {"add_item", "change_item", "pack", "delete_item"}
    PROVE  Touches(e, d, Edited(e, d))
  <1> DEFINE n == Edited(e, d)
  <1>1. /\ DOMAIN d = Parts /\ Rows("packing", d.packing)
        /\ \A p \in d.packing : ItemGood(p)
    BY TablesAre, DocumentParts DEF Document, Parts
  <1>2. IsFiniteSet(d.segments)
    BY SegmentsFinite
  <1>3. /\ n.journeys = d.journeys /\ n.segments = d.segments
        /\ \A p \in n.packing : p \in d.packing \/ (p.id = e.id /\ p.journey = e.j /\ ItemGood(p))
        /\ \A p \in d.packing : HasId(n.packing, p.id) \/ (p.id = e.id /\ p.journey = e.j)
    <2>1. CASE e.op = "add_item"
      <3> DEFINE r == [id |-> e.id, journey |-> e.j, label |-> e.in.label, qty |-> e.in.qty, packed |-> 0, ver |-> 1]
      <3>1. n.journeys = d.journeys /\ n.segments = d.segments /\ n.packing = d.packing \union {r}
        BY <1>1, <2>1 DEF Edited, addPacking, Parts
      <3>2. r.id = e.id /\ r.journey = e.j /\ r.label = e.in.label /\ r.qty = e.in.qty /\ r.packed = 0 /\ r.ver = 0 + 1
        OBVIOUS
      <3>3. Filled(e.in.label) /\ e.in.qty \in 1..MaxQuantity
        BY <2>1, ValidInputs DEF Possible
      <3> HIDE DEF r, n
      <3>4. e.in.qty \in Nat
        BY <3>3, MaxQuantityAssumption
      <3>5. ItemGood(r)
        BY <3>2, <3>3, <3>4, GoodItem
      <3>6. QED
        BY <3>1, <3>2, <3>5 DEF HasId
    <2>2. CASE e.op \in {"change_item", "pack"}
      <3> DEFINE o == WithId(d.packing, e.id)
                 c == [o EXCEPT !.label = e.in.label, !.qty = e.in.qty, !.packed = Least(o.packed, e.in.qty)]
                 k == IF Least(o.qty, e.in) < 0 THEN 0 ELSE Least(o.qty, e.in)
                 u == [o EXCEPT !.packed = k]
                 r == IF e.op = "change_item" THEN c ELSE u
      <3>1. n.journeys = d.journeys /\ n.segments = d.segments /\ n.packing = Put(d.packing, r) /\ OwnedItem(d, e.j, e.id)
        BY <1>1, <2>2 DEF Edited, changePacking, setPackedQuantity, Parts, Possible
      <3>2. PICK s \in d.packing : s.id = e.id /\ s.journey = e.j
        BY <3>1 DEF OwnedItem, packingForJourney
      <3>3. o = s
        BY <1>1, <3>2 DEF WithId, Rows, DistinctIds
      <3>4. DOMAIN s = ItemFields /\ s.ver \in Nat
        BY <1>1, ColumnsAre DEF Rows
      <3>5. Filled(s.label) /\ s.qty \in 1..MaxQuantity /\ s.packed \in 0..s.qty /\ s.ver >= 1
        BY <1>1, Zenon DEF ItemGood
      <3>6. s.qty \in Nat
        BY <3>5, MaxQuantityAssumption
      <3>7. s.packed \in Nat /\ s.ver - 1 \in Nat
        BY <3>4, <3>5, <3>6
      <3> HIDE DEF o, k
      <3>8. /\ r.id = e.id /\ r.journey = e.j /\ r.ver = s.ver
            /\ e.op = "change_item" => r.label = e.in.label /\ r.qty = e.in.qty /\ r.packed = Least(s.packed, e.in.qty)
            /\ e.op # "change_item" => r.label = s.label /\ r.qty = s.qty /\ r.packed = k
        BY <3>2, <3>3, <3>4 DEF ItemFields
      <3> HIDE DEF r, c, u, n
      <3>9. ItemGood(r)
        <4>1. r.ver = (s.ver - 1) + 1
          BY <3>4, <3>8
        <4>2. CASE e.op = "change_item"
          <5>1. Filled(e.in.label) /\ e.in.qty \in 1..MaxQuantity
            BY <4>2, ValidInputs DEF Possible
          <5>2. e.in.qty \in Nat
            BY <5>1, MaxQuantityAssumption
          <5>3. r.packed = Least(s.packed, e.in.qty) /\ r.label = e.in.label /\ r.qty = e.in.qty
            BY <3>8, <4>2
          <5>4. r.packed \in Nat /\ r.packed <= e.in.qty
            BY <3>7, <5>2, <5>3 DEF Least
          <5>5. QED
            BY <3>7, <4>1, <5>1, <5>3, <5>4, GoodItem
        <4>3. CASE e.op = "pack"
          <5>1. e.in \in Int
            BY <4>3 DEF Offered
          <5>2. k \in Nat /\ k <= s.qty
            BY <3>3, <3>6, <5>1 DEF k, Least
          <5>3. r.packed = k /\ r.label = s.label /\ r.qty = s.qty
            BY <3>8, <4>3
          <5>4. QED
            BY <3>5, <3>7, <4>1, <5>2, <5>3, GoodItem
        <4>4. QED
          BY <2>2, <4>2, <4>3
      <3>10. /\ \A x \in n.packing : x \in d.packing \/ x = r
             /\ \A x \in d.packing : HasId(n.packing, x.id)
        BY <3>1 DEF Put, HasId
      <3>11. QED
        BY <3>1, <3>8, <3>9, <3>10
    <2>3. CASE e.op = "delete_item"
      <3>1. /\ n.journeys = d.journeys /\ n.segments = d.segments /\ n.packing = {p \in d.packing : p.id # e.id}
            /\ OwnedItem(d, e.j, e.id)
        BY <1>1, <2>3 DEF Edited, deletePackingItem, Parts, Possible
      <3>2. PICK s \in d.packing : s.id = e.id /\ s.journey = e.j
        BY <3>1 DEF OwnedItem, packingForJourney
      <3> HIDE DEF n
      <3>3. \A p \in d.packing : p.id = e.id => p = s
        BY <1>1, <3>2 DEF Rows, DistinctIds
      <3>4. QED
        BY <3>1, <3>2, <3>3 DEF HasId
    <2>4. QED
      BY <2>1, <2>2, <2>3
  <1> HIDE DEF n
  <1>4. \A j : Standing(segmentsForJourney(d, j), segmentsForJourney(n, j))
    <2>1. \A j : segmentsForJourney(n, j) = segmentsForJourney(d, j)
      BY <1>3 DEF segmentsForJourney
    <2>2. QED
      BY <2>1, StandingStill
  <1>5. QED
    BY <1>2, <1>3, <1>4 DEF Touches, HasId, n

\* The image of a finite set.
LEMMA ImageFinite ==
    ASSUME NEW S, IsFiniteSet(S), NEW f
    PROVE  IsFiniteSet({f[x] : x \in S})
  <1> DEFINE T == {f[x] : x \in S}
             g == [x \in S |-> f[x]]
  <1>1. g \in [S -> T] /\ \A t \in T : \E x \in S : g[x] = t
    OBVIOUS
  <1> HIDE DEF g, T
  <1>2. g \in Surjection(S, T)
    BY <1>1, Fun_IsSurj, Zenon
  <1>3. IsFiniteSet(T)
    BY <1>2, FS_Surjection
  <1>4. QED
    BY <1>3 DEF T

\* The segments of one Journey get other places, and perhaps one is gone.
Rearranged(d, e, T, f) ==
    /\ T \subseteq d.segments
    /\ \A s \in d.segments : s \in T \/ (s.id = e.id /\ s.journey = e.j)
    /\ \A s \in T : f[s].id = s.id /\ f[s].journey = s.journey /\ SegmentBody(f[s]) = SegmentBody(s)
    /\ \A s \in T : s.journey # e.j => f[s] = s

\* That is all such an edit does.
LEMMA PlacesTouch ==
    ASSUME NEW d, Document(d), NEW e, e.op \in {"delete_segment", "move_segment"},
           NEW T, NEW f, Rearranged(d, e, T, f),
           NEW n, n.journeys = d.journeys, n.packing = d.packing, n.segments = {f[s] : s \in T}
    PROVE  Touches(e, d, n)
  <1>1. IsFiniteSet(n.segments)
    <2>1. IsFiniteSet(T)
      BY SegmentsFinite, FS_Subset DEF Rearranged
    <2>2. QED
      BY <2>1, ImageFinite
  <1>2. \A j : j # e.j => segmentsForJourney(n, j) = segmentsForJourney(d, j)
    BY DEF segmentsForJourney, Rearranged
  <1>3. \A j : j # e.j \/ e.op \notin MovingOps => Standing(segmentsForJourney(d, j), segmentsForJourney(n, j))
    BY <1>2, StandingStill DEF MovingOps
  <1>4. /\ \A s \in n.segments : \E o \in d.segments : o.id = s.id /\ SegmentBody(o) = SegmentBody(s)
        /\ \A s \in d.segments : HasId(n.segments, s.id) \/ (s.id = e.id /\ s.journey = e.j)
    BY DEF HasId, Rearranged
  <1>5. QED
    BY <1>1, <1>3, <1>4 DEF Touches, HasId

\* A segment is put in another place and keeps what it says.
LEMMA OnlyPlace ==
    ASSUME NEW s, DOMAIN s = SegmentFields, NEW p, NEW n, n = [s EXCEPT !.pos = p]
    PROVE  n.id = s.id /\ n.journey = s.journey /\ SegmentBody(n) = SegmentBody(s)
  BY DEF SegmentFields, SegmentBody

\* Edits of segments.
LEMMA SegmentTouches ==
    ASSUME NEW d, Document(d), NEW e, Offered(e), Possible(e, d),
           e.op \in {"add_segment", "change_segment", "delete_segment", "move_segment"}
    PROVE  Touches(e, d, Edited(e, d))
  <1> DEFINE n == Edited(e, d)
             S == segmentsForJourney(d, e.j)
  <1>1. /\ DOMAIN d = Parts /\ Rows("segments", d.segments)
        /\ \A s \in d.segments : SegmentGood(s)
    BY TablesAre, DocumentParts DEF Document, Parts
  <1>2. IsFiniteSet(d.segments) /\ Spread(S) /\ \A s \in d.segments : DOMAIN s = SegmentFields
    BY <1>1, SegmentsFinite, TimelineIs, ColumnsAre DEF Rows
  <1>3. CASE e.op = "add_segment"
    <2> DEFINE r == [id |-> e.id, journey |-> e.j, pos |-> Cardinality(S), kind |-> e.in.kind,
                     name |-> e.in.name, start |-> e.in.start, end |-> e.in.end, ver |-> 1]
    <2>1. n.journeys = d.journeys /\ n.packing = d.packing /\ n.segments = d.segments \union {r}
      BY <1>1, <1>3 DEF Edited, addSegment, Parts
    <2>2. /\ r.id = e.id /\ r.journey = e.j /\ r.pos = Cardinality(S) /\ r.kind = e.in.kind /\ r.name = e.in.name
          /\ r.start = e.in.start /\ r.end = e.in.end /\ r.ver = 1
      OBVIOUS
    <2>3. e.id \in SegmentIds /\ e.in.kind \in {"stay", "move"}
      BY <1>3 DEF Offered
    <2>4. Filled(e.in.name) /\ ~DateOrder(e.in)
      BY <1>3, <2>3, ValidInputs DEF Possible
    <2>5. r.pos \in Nat /\ r.ver >= 1
      BY <1>2, <2>2, FS_CardinalityType DEF Spread
    <2> HIDE DEF r, n
    <2>6. SegmentGood(r)
      BY <2>2, <2>3, <2>4, <2>5, GoodSegment
    <2>7. IsFiniteSet(n.segments)
      BY <1>2, <2>1, FS_AddElement
    <2>8. \A j : j # e.j => segmentsForJourney(n, j) = segmentsForJourney(d, j)
      BY <2>1, <2>2 DEF segmentsForJourney
    <2>9. \A j : j # e.j \/ e.op \notin MovingOps => Standing(segmentsForJourney(d, j), segmentsForJourney(n, j))
      BY <1>3, <2>8, StandingStill DEF MovingOps
    <2>10. QED
      BY <2>1, <2>2, <2>6, <2>7, <2>9 DEF Touches, HasId, n
  <1>4. CASE e.op = "change_segment"
    <2> DEFINE o == WithId(d.segments, e.id)
               r == [o EXCEPT !.kind = e.in.kind, !.name = e.in.name, !.start = e.in.start, !.end = e.in.end]
    <2>1. n.journeys = d.journeys /\ n.packing = d.packing /\ n.segments = Put(d.segments, r) /\ OwnedSegment(d, e.j, e.id)
      BY <1>1, <1>4 DEF Edited, changeSegment, Parts, Possible
    <2>2. PICK s \in d.segments : s.id = e.id /\ s.journey = e.j
      BY <2>1 DEF OwnedSegment, segmentsForJourney
    <2>3. o = s /\ \A x \in d.segments : x.id = e.id => x = s
      BY <1>1, <2>2 DEF WithId, Rows, DistinctIds
    <2>4. DOMAIN s = SegmentFields /\ s.id \in SegmentIds /\ s.pos \in Nat /\ s.ver >= 1
      BY <1>1, <1>2, <2>2 DEF SegmentGood
    <2> HIDE DEF o
    <2>5. /\ r.id = e.id /\ r.journey = e.j /\ r.pos = s.pos /\ r.kind = e.in.kind /\ r.name = e.in.name
          /\ r.start = e.in.start /\ r.end = e.in.end /\ r.ver = s.ver
      BY <2>2, <2>3, <2>4 DEF SegmentFields
    <2> HIDE DEF r, n
    <2>6. e.in.kind \in {"stay", "move"}
      BY <1>4 DEF Offered
    <2>7. Filled(e.in.name) /\ ~DateOrder(e.in)
      BY <1>4, <2>6, ValidInputs DEF Possible
    <2>8. SegmentGood(r)
      BY <2>2, <2>4, <2>5, <2>6, <2>7, GoodSegment
    <2>9. n.segments = {IF x.id = e.id THEN r ELSE x : x \in d.segments}
      BY <2>1, <2>5 DEF Put
    <2>10. /\ \A x \in n.segments : x \in d.segments \/ x = r
           /\ \A x \in d.segments : x = s \/ x \in n.segments
           /\ r \in n.segments
      BY <2>2, <2>3, <2>9
    <2>11. IsFiniteSet(n.segments)
      <3> DEFINE f == [x \in d.segments |-> IF x.id = e.id THEN r ELSE x]
      <3>1. n.segments = {f[x] : x \in d.segments}
        BY <2>9
      <3> HIDE DEF f
      <3>2. QED
        BY <1>2, <3>1, ImageFinite
    <2>12. ASSUME NEW j PROVE Standing(segmentsForJourney(d, j), segmentsForJourney(n, j))
      <3>1. CASE j # e.j
        <4>1. \A x \in n.segments : x.journey = j => x \in d.segments
          BY <2>5, <2>10, <3>1
        <4>2. \A x \in d.segments : x.journey = j => x \in n.segments
          BY <2>2, <2>10, <3>1
        <4>3. segmentsForJourney(n, j) = segmentsForJourney(d, j)
          BY <4>1, <4>2 DEF segmentsForJourney
        <4>4. QED
          BY <4>3, StandingStill
      <3>2. CASE j = e.j
        <4> DEFINE T == segmentsForJourney(n, e.j)
        <4>1. T = {IF x.id = e.id THEN r ELSE x : x \in S}
          BY <2>2, <2>3, <2>5, <2>9 DEF segmentsForJourney
        <4>2. s \in S /\ \A x \in S : x.id = e.id => x = s
          BY <2>2, <2>3 DEF segmentsForJourney
        <4> HIDE DEF T, S
        <4>3. /\ \A t \in T : \E x \in S : x.id = t.id /\ x.pos = t.pos /\ t = IF x.id = e.id THEN r ELSE x
              /\ \A x \in S : \E t \in T : x.id = t.id /\ x.pos = t.pos
          BY <2>5, <4>1, <4>2
        <4>4. IsFiniteSet(T)
          <5>1. T \subseteq n.segments
            BY DEF T, segmentsForJourney
          <5>2. QED
            BY <2>11, <5>1, FS_Subset
        <4>5. Spread(T)
          BY <1>2, <4>3, <4>4 DEF Spread
        <4>6. Standing(S, T)
          BY <1>2, <4>3, <4>5 DEF Standing
        <4>7. QED
          BY <3>2, <4>6 DEF S, T
      <3>3. QED
        BY <3>1, <3>2
    <2>13. \A x \in d.segments : HasId(n.segments, x.id)
      BY <2>2, <2>5, <2>10 DEF HasId
    <2>14. QED
      BY <2>1, <2>5, <2>8, <2>10, <2>11, <2>12, <2>13 DEF Touches, HasId, n
  <1>5. CASE e.op = "delete_segment"
    <2> DEFINE left == {s \in S : s.id # e.id}
               T == {s \in d.segments : s.id # e.id}
               f == [s \in T |-> IF s.journey = e.j THEN [s EXCEPT !.pos = IndexIn(left, s)] ELSE s]
    <2>1. n = deleteSegment(d, e.j, e.id) /\ OwnedSegment(d, e.j, e.id)
      BY <1>5 DEF Edited, Possible
    <2>2. n.journeys = d.journeys /\ n.segments = {f[s] : s \in T} /\ n.packing = d.packing
      <3> DEFINE m == deleteSegment(d, e.j, e.id)
      <3>1. m.journeys = d.journeys /\ m.segments = {f[s] : s \in T} /\ m.packing = d.packing
        BY <1>1 DEF Parts, deleteSegment
      <3> HIDE DEF m, n, f, T
      <3>2. n = m
        BY <2>1 DEF m
      <3>3. QED
        BY <3>1, <3>2
    <2>3. PICK o \in d.segments : o.id = e.id /\ o.journey = e.j
      BY <2>1 DEF OwnedSegment, segmentsForJourney
    <2>4. T \in SUBSET d.segments /\ \A s \in d.segments : s \in T \/ (s.id = e.id /\ s.journey = e.j)
      BY <1>1, <2>3 DEF Rows, DistinctIds
    <2>5. \A s \in T : s.journey # e.j => f[s] = s
      OBVIOUS
    <2>6. ASSUME NEW s \in T PROVE f[s].id = s.id /\ f[s].journey = s.journey /\ SegmentBody(f[s]) = SegmentBody(s)
      <3>1. CASE s.journey # e.j
        BY <2>5, <3>1
      <3>2. CASE s.journey = e.j
        <4>1. f[s] = [s EXCEPT !.pos = IndexIn(left, s)]
          BY <3>2
        <4> HIDE DEF f, left
        <4>2. QED
          BY <1>2, <4>1, OnlyPlace
      <3>3. QED
        BY <3>1, <3>2
    <2> HIDE DEF T, f, n, left
    <2>7. Touches(e, d, n)
      <3>1. Rearranged(d, e, T, f)
        BY <2>4, <2>5, <2>6 DEF Rearranged
      <3>2. QED
        BY <1>5, <2>2, <3>1, PlacesTouch
    <2>8. QED
      BY <2>7 DEF n
  <1>6. CASE e.op = "move_segment"
    <2> DEFINE index == IndexIn(S, WithId(S, e.id))
               target == index + e.in
               Swapped(s) == LET i == IndexIn(S, s) IN
                             IF i = index THEN target ELSE IF i = target THEN index ELSE i
               T == d.segments
               g == [s \in T |-> s]
               f == [s \in T |-> IF s.journey = e.j THEN [s EXCEPT !.pos = Swapped(s)] ELSE s]
    <2>1. n = moveSegment(d, e.j, e.id, e.in)
      BY <1>6 DEF Edited
    <2>2. n = d \/ n = [d EXCEPT !.segments = {IF s.journey = e.j THEN [s EXCEPT !.pos = Swapped(s)] ELSE s : s \in @}]
      BY <2>1 DEF moveSegment
    <2> HIDE DEF Swapped
    <2>3. n.journeys = d.journeys /\ n.packing = d.packing /\ (n.segments = {g[s] : s \in T} \/ n.segments = {f[s] : s \in T})
      <3>1. CASE n = d
        BY <3>1
      <3>2. CASE n = [d EXCEPT !.segments = {IF s.journey = e.j THEN [s EXCEPT !.pos = Swapped(s)] ELSE s : s \in @}]
        <4>1. /\ n.journeys = d.journeys /\ n.packing = d.packing
              /\ n.segments = {IF s.journey = e.j THEN [s EXCEPT !.pos = Swapped(s)] ELSE s : s \in d.segments}
          BY <1>1, <3>2 DEF Parts
        <4>2. n.segments = {f[s] : s \in T}
          BY <4>1
        <4>3. QED
          BY <4>1, <4>2
      <3>3. QED
        BY <2>2, <3>1, <3>2
    <2>4. \A s \in T : s.journey # e.j => f[s] = s /\ g[s] = s
      OBVIOUS
    <2>5. ASSUME NEW s \in T PROVE f[s].id = s.id /\ f[s].journey = s.journey /\ SegmentBody(f[s]) = SegmentBody(s)
      <3>1. CASE s.journey # e.j
        BY <2>4, <3>1
      <3>2. CASE s.journey = e.j
        <4>1. f[s] = [s EXCEPT !.pos = Swapped(s)]
          BY <3>2
        <4> HIDE DEF f
        <4>2. QED
          BY <1>2, <4>1, OnlyPlace
      <3>3. QED
        BY <3>1, <3>2
    <2>6. \A s \in T : g[s].id = s.id /\ g[s].journey = s.journey /\ SegmentBody(g[s]) = SegmentBody(s)
      OBVIOUS
    <2>7. T \in SUBSET d.segments /\ \A s \in d.segments : s \in T \/ (s.id = e.id /\ s.journey = e.j)
      OBVIOUS
    <2> HIDE DEF T, f, g, n
    <2>8. Rearranged(d, e, T, f) /\ Rearranged(d, e, T, g)
      BY <2>4, <2>5, <2>6, <2>7 DEF Rearranged
    <2>9. Touches(e, d, n)
      BY <1>6, <2>3, <2>8, PlacesTouch
    <2>10. QED
      BY <2>9 DEF n
  <1>7. QED
    BY <1>3, <1>4, <1>5, <1>6

\* Every edit that a page offers changes its own object, and perhaps places.
LEMMA EditedTouches ==
    ASSUME NEW d, Document(d), NEW e, Offered(e), Possible(e, d)
    PROVE  Touches(e, d, Edited(e, d))
  <1>1. e.op \in EditOps
    BY DEF Offered
  <1>2. QED
    BY <1>1, JourneyTouches, SegmentTouches, ItemTouches DEF EditOps

\* So the requests of a commit are sound and are about its edit.
LEMMA RequestsOfEdit ==
    ASSUME NEW d, Document(d), NEW e, Offered(e), Possible(e, d), NEW q \in Difference(d, Edited(e, d))
    PROVE  Sound(q) /\ About(q, e) /\ q.order = None
  BY EditedTouches, DifferenceAbout, DifferenceShape

-----------------------------------------------------------------------------
(***************************************************************************)
(* The pages.  The server's document and the one on the page parse; what a *)
(* commit has read parses, its requests are sound and about its edit.      *)
(***************************************************************************)

\* The fields of a component's state, of an edit and of a commit.
UiFields == {"editing", "confirming", "saving", "form", "target", "from"}
EditFields == {"op", "j", "id", "in", "live"}
CommitFields == {"n", "op", "j", "id", "in", "live", "todo", "read", "doc"}

\* What is kept on a page p with the local state u.
Local(p, u) ==
    /\ DOMAIN u = UiFields
    /\ p \in {"timeline", "packing"} /\ u.form # None => u.from = u.target
    /\ p = "timeline" /\ u.form # None => u.form.kind \in {"stay", "move"}

\* What is kept of a commit.
CommitGood(c) ==
    /\ DOMAIN c = CommitFields
    /\ c.read => Document(c.doc)
    /\ \A q \in c.todo : Sound(q) /\ About(q, c)

\* The inductive invariant.
PagesInv ==
    /\ Document(data) /\ Document(stored)
    /\ Local(Page, ui)
    /\ \A c \in commits : CommitGood(c)
    /\ given \in Nat

\* The library is shown, of the server's first document.
LEMMA InitPagesInv == PagesInit => PagesInv
  <1> SUFFICES ASSUME PagesInit PROVE PagesInv
    OBVIOUS
  <1>1. data = FirstDocument /\ stored = FirstDocument /\ commits = {} /\ given = 0 /\ ui = Blank(None, None)
    BY DEF PagesInit
  <1>2. Document(FirstDocument)
    BY FirstPageAssumption, FirstDocumentAssumption DEF Document
  <1>3. Local(Page, ui)
    BY <1>1 DEF Local, Blank, UiFields
  <1>4. QED
    BY <1>1, <1>2, <1>3 DEF PagesInv

\* A commit that has lost its page is what it was.
LEMMA DeadCommits ==
    ASSUME NEW C, \A c \in C : CommitGood(c), NEW D, D = {[c EXCEPT !.live = FALSE] : c \in C}
    PROVE  \A c \in D : CommitGood(c)
  <1>1. ASSUME NEW c \in C PROVE CommitGood([c EXCEPT !.live = FALSE])
    <2> DEFINE d == [c EXCEPT !.live = FALSE]
    <2>1. CommitGood(c)
      OBVIOUS
    <2>2. /\ DOMAIN d = CommitFields /\ d.read = c.read /\ d.doc = c.doc /\ d.todo = c.todo
          /\ d.j = c.j /\ d.id = c.id /\ d.op = c.op
      BY <2>1 DEF CommitGood, CommitFields
    <2> HIDE DEF d
    <2>3. CommitGood(d)
      BY <2>1, <2>2 DEF CommitGood, About
    <2>4. QED
      BY <2>3 DEF d
  <1>2. QED
    BY <1>1

\* A component that is mounted has no form of a timeline or a packing list.
LEMMA MountedLocal ==
    ASSUME NEW p, NEW r, NEW d
    PROVE  Local(p, Mounted(p, r, d))
  <1>1. CASE p = "journey-new"
    BY <1>1 DEF Local, Mounted, Blank, UiFields
  <1>2. CASE p = "journey"
    BY <1>2 DEF Local, Mounted, Blank, UiFields
  <1>3. CASE p \notin {"journey-new", "journey"}
    <2>1. Mounted(p, r, d) = Blank(None, None)
      BY <1>3 DEF Mounted
    <2>2. QED
      BY <2>1 DEF Local, Blank, UiFields
  <1>4. QED
    BY <1>1, <1>2, <1>3

\* A page is shown of a document that parses.
LEMMA ShowStep ==
    ASSUME PagesInv, NEW d, NEW r, NEW next, NEW left, Show(d, r, next, left), UNCHANGED <<stored, given>>,
           Document(d), left \subseteq commits, PageFor(r, d) = Page => Local(Page, next)
    PROVE  PagesInv'
  <1>1. data' = d /\ route' = r
    BY DEF Show
  <1>2. Page' = PageFor(r, d)
    BY <1>1 DEF Page
  <1>3. \A c \in left : CommitGood(c)
    BY DEF PagesInv
  <1>4. CASE PageFor(r, d) = Page
    <2>1. ui' = next /\ commits' = left
      BY <1>4 DEF Show
    <2>2. Local(Page', ui')
      BY <1>2, <1>4, <2>1
    <2>3. QED
      BY <1>1, <1>3, <2>1, <2>2 DEF PagesInv
  <1>5. CASE PageFor(r, d) # Page
    <2>1. ui' = Mounted(PageFor(r, d), r, d) /\ commits' = {[c EXCEPT !.live = FALSE] : c \in left}
      BY <1>5 DEF Show
    <2>2. \A c \in commits' : CommitGood(c)
      BY <1>3, <2>1, DeadCommits
    <2>3. Local(Page', ui')
      BY <1>2, <2>1, MountedLocal
    <2>4. QED
      BY <1>1, <2>2, <2>3 DEF PagesInv
  <1>6. QED
    BY <1>4, <1>5

\* Only the local state changes.
LEMMA LocalStep ==
    ASSUME PagesInv, UNCHANGED <<data, route, commits, stored, given>>, Local(Page, ui')
    PROVE  PagesInv'
  <1>1. Page' = Page
    BY DEF Page
  <1>2. QED
    BY <1>1 DEF PagesInv

\* A commit begins.
LEMMA CommitStep ==
    ASSUME PagesInv, NEW e, NEW next, Commit(e, next), Offered(e), Local(Page, next)
    PROVE  PagesInv'
  <1> DEFINE c == UnderWay(e, Difference(data, Edited(e, data)))
  <1>1. commits' = commits \union {c} /\ ui' = next /\ data' = data /\ route' = route /\ stored' = stored
    BY DEF Commit
  <1>2. given' = given + 1 /\ Possible(e, data)
    BY DEF Commit
  <1>3. Page' = Page
    BY <1>1 DEF Page
  <1>4. /\ DOMAIN c = CommitFields /\ c.op = e.op /\ c.j = e.j /\ c.id = e.id /\ c.read = FALSE
        /\ c.todo = Difference(data, Edited(e, data))
    BY DEF UnderWay, CommitFields
  <1> HIDE DEF c
  <1>5. ASSUME NEW q \in c.todo PROVE Sound(q) /\ About(q, c)
    <2>1. Sound(q) /\ About(q, e)
      BY <1>2, <1>4, RequestsOfEdit DEF PagesInv
    <2>2. QED
      BY <1>4, <2>1 DEF About
  <1>6. CommitGood(c)
    BY <1>4, <1>5 DEF CommitGood
  <1>7. QED
    BY <1>1, <1>2, <1>3, <1>6 DEF PagesInv

\* The parts of an edit made on the page.
LEMMA EditHereIs ==
    ASSUME NEW op, NEW id, NEW in
    PROVE  LET e == EditHere(op, id, in) IN
           DOMAIN e = EditFields /\ e.op = op /\ e.j = J /\ e.id = id /\ e.in = in
  BY DEF EditHere, EditFields

\* The forms and buttons of a Journey's own page, before anything is
\* committed.
LEMMA JourneySteps ==
    ASSUME PagesInv,
           \/ \E in \in JourneyInputs : TypeJourney(in)
           \/ OpenEditor \/ CloseEditor \/ AskRemoval
    PROVE  PagesInv'
  <1>1. Page \in {"journey-new", "journey"} /\ UNCHANGED <<data, route, commits, stored, given>>
    BY DEF TypeJourney, OpenEditor, CloseEditor, AskRemoval, Locally
  <1>2. DOMAIN ui' = UiFields
    BY DEF TypeJourney, OpenEditor, CloseEditor, AskRemoval, Locally, PagesInv, Local, UiFields
  <1>3. Local(Page, ui')
    BY <1>1, <1>2 DEF Local
  <1>4. QED
    BY <1>1, <1>3, LocalStep

\* The form of a new Journey is sent.
LEMMA SubmitNewStep ==
    ASSUME PagesInv, NEW id \in JourneyIds, SubmitNew(id)
    PROVE  PagesInv'
  <1> DEFINE h == EditHere("create", id, ui.form)
             e == [h EXCEPT !.j = id]
             u == [ui EXCEPT !.saving = TRUE]
  <1>1. Commit(e, u) /\ Page = "journey-new"
    BY DEF SubmitNew
  <1>2. DOMAIN h = EditFields /\ h.op = "create" /\ h.id = id
    BY EditHereIs
  <1> HIDE DEF h
  <1>3. e.op = "create" /\ e.id = id /\ e.j = id
    BY <1>2 DEF EditFields
  <1>4. DOMAIN u = UiFields
    BY DEF PagesInv, Local
  <1> HIDE DEF e, u
  <1>5. Offered(e)
    BY <1>3 DEF Offered, EditOps
  <1>6. Local(Page, u)
    BY <1>1, <1>4 DEF Local
  <1>7. QED
    BY <1>1, <1>5, <1>6, CommitStep

\* The other edits.
LEMMA EditStep ==
    ASSUME PagesInv, NEW op \in EditOps, op # "create", NEW id, NEW in,
           op \in {"update", "status", "delete"} => id = J,
           op = "status" => in \in Statuses,
           op \in {"add_segment", "change_segment"} => in.kind \in {"stay", "move"},
           op = "add_segment" => id \in SegmentIds,
           op = "move_segment" => in \in {-1, 1}, op = "pack" => in \in Int,
           Commit(EditHere(op, id, in), ui)
    PROVE  PagesInv'
  <1> DEFINE e == EditHere(op, id, in)
  <1>1. e.op = op /\ e.j = J /\ e.id = id /\ e.in = in
    BY EditHereIs
  <1>2. Commit(e, ui)
    OBVIOUS
  <1> HIDE DEF e
  <1>3. Offered(e)
    BY <1>1 DEF Offered, EditOps
  <1>4. Local(Page, ui)
    BY DEF PagesInv
  <1>5. QED
    BY <1>2, <1>3, <1>4, CommitStep

\* The buttons that commit at once: they name objects that are shown.
LEMMA CommitSteps ==
    ASSUME PagesInv,
           \/ SaveEdit \/ Remove
           \/ \E status \in Statuses : SetStatus(status)
           \/ \E id \in SegmentIds : DropSegment(id) \/ Reorder(id, -1) \/ Reorder(id, 1)
           \/ \E p \in data.packing, n \in 0..MaxQuantity : Pack(p, n)
           \/ \E id \in ItemIds : DropItem(id)
    PROVE  PagesInv'
  <1>1. CASE SaveEdit
    BY <1>1, EditStep DEF SaveEdit, EditOps
  <1>2. CASE Remove
    BY <1>2, EditStep DEF Remove, EditOps
  <1>3. ASSUME NEW status \in Statuses, SetStatus(status) PROVE PagesInv'
    BY <1>3, EditStep DEF SetStatus, EditOps
  <1>4. ASSUME NEW id \in SegmentIds, DropSegment(id) PROVE PagesInv'
    BY <1>4, EditStep DEF DropSegment, EditOps
  <1>5. ASSUME NEW id \in SegmentIds, NEW direction \in {-1, 1}, Reorder(id, direction) PROVE PagesInv'
    <2>1. Commit(EditHere("move_segment", id, direction), ui)
      BY <1>5 DEF Reorder
    <2>2. QED
      BY <2>1, EditStep DEF EditOps
  <1>6. ASSUME NEW p \in data.packing, NEW n \in 0..MaxQuantity, Pack(p, n) PROVE PagesInv'
    <2>1. Commit(EditHere("pack", p.id, n), ui) /\ n \in Int
      BY <1>6 DEF Pack
    <2>2. QED
      BY <2>1, EditStep DEF EditOps
  <1>7. ASSUME NEW id \in ItemIds, DropItem(id) PROVE PagesInv'
    BY <1>7, EditStep DEF DropItem, EditOps
  <1>8. QED
    BY <1>1, <1>2, <1>3, <1>4, <1>5, <1>6, <1>7

\* Forms are opened, filled in and closed.
LEMMA DraftSteps ==
    ASSUME PagesInv,
           \/ \E s \in data.segments : BeginSegment(s)
           \/ \E kind \in {"stay", "move"} : BeginNewSegment(kind)
           \/ \E in \in SegmentInputs : TypeSegment(in)
           \/ \E p \in data.packing : BeginItem(p)
           \/ BeginNewItem
           \/ \E in \in ItemInputs : TypeItem(in)
           \/ CancelDraft
    PROVE  PagesInv'
  <1>1. DOMAIN ui = UiFields
    BY DEF PagesInv, Local
  <1>2. ASSUME NEW form, NEW id PROVE LET u == Draft(form, id) IN
               DOMAIN u = UiFields /\ u.form = form /\ u.from = u.target
    BY <1>1 DEF Draft, UiFields
  <1>3. ASSUME NEW in PROVE LET u == [ui EXCEPT !.form = in] IN
               DOMAIN u = UiFields /\ u.form = in /\ u.from = ui.from /\ u.target = ui.target
    BY <1>1 DEF UiFields
  <1>4. ASSUME NEW s \in data.segments, BeginSegment(s) PROVE PagesInv'
    <2>1. Page = "timeline" /\ ui' = Draft(SegmentInput(s), s.id) /\ UNCHANGED <<data, route, commits, stored, given>>
      BY <1>4 DEF BeginSegment, Locally
    <2>2. SegmentInput(s).kind \in {"stay", "move"}
      BY DocumentParts DEF PagesInv, SegmentInput, SegmentGood
    <2>3. Local(Page, ui')
      BY <1>2, <2>1, <2>2 DEF Local
    <2>4. QED
      BY <2>1, <2>3, LocalStep
  <1>5. ASSUME NEW kind \in {"stay", "move"}, BeginNewSegment(kind) PROVE PagesInv'
    <2>1. Page = "timeline" /\ ui' = Draft(EmptySegment(kind), None) /\ UNCHANGED <<data, route, commits, stored, given>>
      BY <1>5 DEF BeginNewSegment, Locally
    <2>2. EmptySegment(kind).kind \in {"stay", "move"}
      BY DEF EmptySegment
    <2>3. Local(Page, ui')
      BY <1>2, <2>1, <2>2 DEF Local
    <2>4. QED
      BY <2>1, <2>3, LocalStep
  <1>6. ASSUME NEW in \in SegmentInputs, TypeSegment(in) PROVE PagesInv'
    <2>1. Page = "timeline" /\ ui.form # None /\ ui' = [ui EXCEPT !.form = in] /\ UNCHANGED <<data, route, commits, stored, given>>
      BY <1>6 DEF TypeSegment, Locally
    <2>2. Local(Page, ui')
      BY <1>3, <2>1, InputsAssumption DEF Local, PagesInv
    <2>3. QED
      BY <2>1, <2>2, LocalStep
  <1>7. ASSUME NEW p \in data.packing, BeginItem(p) PROVE PagesInv'
    <2>1. Page = "packing" /\ ui' = Draft(ItemInput(p), p.id) /\ UNCHANGED <<data, route, commits, stored, given>>
      BY <1>7 DEF BeginItem, Locally
    <2>2. Local(Page, ui')
      BY <1>2, <2>1 DEF Local
    <2>3. QED
      BY <2>1, <2>2, LocalStep
  <1>8. ASSUME BeginNewItem PROVE PagesInv'
    <2>1. Page = "packing" /\ ui' = Draft(EmptyItem, None) /\ UNCHANGED <<data, route, commits, stored, given>>
      BY <1>8 DEF BeginNewItem, Locally
    <2>2. Local(Page, ui')
      BY <1>2, <2>1 DEF Local
    <2>3. QED
      BY <2>1, <2>2, LocalStep
  <1>9. ASSUME NEW in \in ItemInputs, TypeItem(in) PROVE PagesInv'
    <2>1. Page = "packing" /\ ui.form # None /\ ui' = [ui EXCEPT !.form = in] /\ UNCHANGED <<data, route, commits, stored, given>>
      BY <1>9 DEF TypeItem, Locally
    <2>2. Local(Page, ui')
      BY <1>3, <2>1 DEF Local, PagesInv
    <2>3. QED
      BY <2>1, <2>2, LocalStep
  <1>10. ASSUME CancelDraft PROVE PagesInv'
    <2>1. ui' = [ui EXCEPT !.form = None] /\ UNCHANGED <<data, route, commits, stored, given>>
      BY <1>10 DEF CancelDraft, Locally
    <2>2. Local(Page, ui')
      BY <1>3, <2>1 DEF Local
    <2>3. QED
      BY <2>1, <2>2, LocalStep
  <1>11. QED
    BY <1>4, <1>5, <1>6, <1>7, <1>8, <1>9, <1>10

\* The forms that are sent to what they were filled from.
LEMMA SubmitSteps ==
    ASSUME PagesInv,
           \/ \E id \in SegmentIds : SubmitSegment(id)
           \/ \E id \in ItemIds : SubmitItem(id)
    PROVE  PagesInv'
  <1>1. ASSUME NEW id \in SegmentIds, SubmitSegment(id) PROVE PagesInv'
    <2>1. ui.form.kind \in {"stay", "move"}
      BY <1>1 DEF SubmitSegment, PagesInv, Local
    <2>2. CASE ui.target # None
      <3>1. Commit(EditHere("change_segment", id, ui.form), ui)
        BY <1>1, <2>2 DEF SubmitSegment
      <3>2. QED
        BY <2>1, <3>1, EditStep DEF EditOps
    <2>3. CASE ui.target = None
      <3>1. Commit(EditHere("add_segment", id, ui.form), ui)
        BY <1>1, <2>3 DEF SubmitSegment
      <3>2. QED
        BY <2>1, <3>1, EditStep DEF EditOps
    <2>4. QED
      BY <2>2, <2>3
  <1>2. ASSUME NEW id \in ItemIds, SubmitItem(id) PROVE PagesInv'
    <2>1. CASE ui.target # None
      <3>1. Commit(EditHere("change_item", id, ui.form), ui)
        BY <1>2, <2>1 DEF SubmitItem
      <3>2. QED
        BY <3>1, EditStep DEF EditOps
    <2>2. CASE ui.target = None
      <3>1. Commit(EditHere("add_item", id, ui.form), ui)
        BY <1>2, <2>2 DEF SubmitItem
      <3>2. QED
        BY <3>1, EditStep DEF EditOps
    <2>3. QED
      BY <2>1, <2>2
  <1>3. QED
    BY <1>1, <1>2

\* The end of a commit closes its form, if that is still there.
LEMMA HandledLocal ==
    ASSUME PagesInv, NEW e
    PROVE  Local(Page, IF e.live THEN Handled(e) ELSE ui)
  <1>1. Local(Page, ui) /\ DOMAIN ui = UiFields
    BY DEF PagesInv, Local
  <1>2. CASE e.op = "create"
    BY <1>1, <1>2 DEF Handled, Local, UiFields
  <1>3. CASE e.op = "update"
    BY <1>1, <1>3 DEF Handled, Local, UiFields
  <1>4. CASE e.op \in {"add_segment", "change_segment", "add_item", "change_item"}
    BY <1>1, <1>4 DEF Handled, Local, UiFields
  <1>5. CASE e.op \notin {"create", "update", "add_segment", "change_segment", "add_item", "change_item"}
    BY <1>1, <1>5 DEF Handled
  <1>6. QED
    BY <1>2, <1>3, <1>4, <1>5

\* The page shows what a commit has read.
LEMMA SucceedStep ==
    ASSUME PagesInv, NEW c \in commits, Succeed(c)
    PROVE  PagesInv'
  <1> DEFINE u == IF c.live THEN Handled(c) ELSE ui
             left == commits \ {c}
  <1>1. c.read /\ Show(c.doc, RouteAfter(c), u, left) /\ UNCHANGED <<stored, given>>
    BY DEF Succeed
  <1>2. Document(c.doc) /\ left \subseteq commits
    BY <1>1 DEF PagesInv, CommitGood
  <1>3. Local(Page, u)
    BY HandledLocal
  <1> HIDE DEF u, left
  <1>4. QED
    BY <1>1, <1>2, <1>3, ShowStep

\* A commit goes on, or ends, beside the others.
LEMMA CommitsStep ==
    ASSUME PagesInv, UNCHANGED <<data, route, ui, given>>, Document(stored'),
           NEW c, NEW n, CommitGood(n), commits' = (commits \ {c}) \union {n}
    PROVE  PagesInv'
  <1>1. Page' = Page
    BY DEF Page
  <1>2. QED
    BY <1>1 DEF PagesInv

\* The server carries out a request of a commit: it changes the Journey of the
\* commit, which is then one request shorter.
LEMMA CarryStep ==
    ASSUME PagesInv, NEW c \in commits, Carry(c)
    PROVE  PagesInv' /\ (stored' = stored \/ (c \notin commits' /\ Keeps(stored, stored', c.j)))
  <1>1. PICK q \in c.todo :
            /\ Outcome(q, stored) = "ok"
            /\ IF Unchecked(q, stored)
               THEN /\ commits' = (commits \ {c}) \union {[c EXCEPT !.todo = (@ \ {q}) \union {Checked(q, stored)}]}
                    /\ UNCHANGED stored
               ELSE /\ commits' = (commits \ {c}) \union {[c EXCEPT !.todo = @ \ {q}]}
                    /\ stored' = Applied(q, stored)
    BY DEF Carry
  <1>2. UNCHANGED <<data, route, ui, given>>
    BY DEF Carry, local
  <1>3. CommitGood(c) /\ Sound(q) /\ About(q, c) /\ Document(stored)
    BY DEF PagesInv, CommitGood
  <1>4. ASSUME NEW T, \A r \in T : Sound(r) /\ About(r, c)
        PROVE  LET n == [c EXCEPT !.todo = T] IN CommitGood(n) /\ n.todo = T
    <2> DEFINE n == [c EXCEPT !.todo = T]
    <2>1. /\ DOMAIN n = CommitFields /\ n.read = c.read /\ n.doc = c.doc /\ n.todo = T
          /\ n.j = c.j /\ n.id = c.id /\ n.op = c.op
      BY <1>3 DEF CommitGood, CommitFields
    <2> HIDE DEF n
    <2>2. CommitGood(n)
      BY <1>3, <1>4, <2>1 DEF CommitGood, About
    <2>3. QED
      BY <2>1, <2>2 DEF n
  <1>5. CASE Unchecked(q, stored)
    <2> DEFINE p == Checked(q, stored)
               T == (c.todo \ {q}) \union {p}
               n == [c EXCEPT !.todo = T]
    <2>1. Sound(p) /\ p.j = q.j /\ p.id = q.id /\ p.kind = q.kind
      BY <1>3, <1>5, CheckedSound
    <2>2. commits' = (commits \ {c}) \union {n} /\ stored' = stored
      BY <1>1, <1>5
    <2> HIDE DEF p
    <2>4. \A r \in T : Sound(r) /\ About(r, c)
      BY <1>3, <2>1 DEF CommitGood, About
    <2> HIDE DEF T
    <2>6. CommitGood(n) /\ n.todo = T
      BY <1>4, <2>4
    <2> HIDE DEF n
    <2>7. PagesInv'
      BY <1>2, <1>3, <2>2, <2>6, CommitsStep
    <2>8. QED
      BY <2>2, <2>7
  <1>6. CASE ~Unchecked(q, stored)
    <2> DEFINE T == c.todo \ {q}
               n == [c EXCEPT !.todo = T]
    <2>1. commits' = (commits \ {c}) \union {n} /\ stored' = Applied(q, stored)
      BY <1>1, <1>6
    <2>2. q.kind = "reorder_segment" => q.order # None
      BY <1>1, <1>6 DEF Unchecked
    <2>3. Keeps(stored, stored', c.j)
      BY <1>1, <1>3, <2>1, <2>2, AppliedKeeps DEF About
    <2>4. \A r \in T : Sound(r) /\ About(r, c)
      BY <1>3 DEF CommitGood
    <2>5. q \notin T
      OBVIOUS
    <2> HIDE DEF T
    <2>6. CommitGood(n) /\ n.todo = T
      BY <1>4, <2>4
    <2> HIDE DEF n
    <2>7. n # c
      BY <2>5, <2>6
    <2>8. Document(stored')
      BY <2>3 DEF Keeps
    <2>9. PagesInv'
      BY <1>2, <2>1, <2>6, <2>8, CommitsStep
    <2>10. QED
      BY <2>1, <2>3, <2>7, <2>9
  <1>7. QED
    BY <1>5, <1>6

\* A commit reads the server's document.
LEMMA ReloadStep ==
    ASSUME PagesInv, NEW c \in commits, Reload(c)
    PROVE  PagesInv'
  <1> DEFINE n == [c EXCEPT !.read = TRUE, !.doc = stored]
  <1>1. commits' = (commits \ {c}) \union {n} /\ UNCHANGED <<data, route, ui, stored, given>>
    BY DEF Reload, local
  <1>2. CommitGood(c) /\ Document(stored)
    BY DEF PagesInv
  <1>3. /\ DOMAIN n = CommitFields /\ n.doc = stored /\ n.todo = c.todo
        /\ n.j = c.j /\ n.id = c.id /\ n.op = c.op
    BY <1>2 DEF CommitGood, CommitFields
  <1> HIDE DEF n
  <1>4. CommitGood(n)
    BY <1>2, <1>3 DEF CommitGood, About
  <1>5. QED
    BY <1>1, <1>2, <1>4, CommitsStep

\* A commit fails: the page's document stays.
LEMMA FailCommitStep ==
    ASSUME PagesInv, NEW c \in commits, FailCommit(c)
    PROVE  PagesInv'
  <1>1. commits' = commits \ {c} /\ UNCHANGED <<data, route, stored, given>>
    BY DEF FailCommit
  <1>2. Page' = Page
    BY <1>1 DEF Page
  <1>3. Local(Page, ui')
    BY DEF FailCommit, PagesInv, Local, UiFields
  <1>4. QED
    BY <1>1, <1>2, <1>3 DEF PagesInv

\* Another device edits: its request is one that a page of its own offers.
LEMMA EditElsewhereStep ==
    ASSUME PagesInv, NEW e \in Elsewhere, EditElsewhere(e)
    PROVE  PagesInv' /\ given' # given
  <1>1. PICK q \in Difference(stored, Edited(e, stored)) :
            q.kind # "reorder_segment" /\ Outcome(q, stored) = "ok" /\ stored' = Applied(q, stored)
    BY DEF EditElsewhere
  <1>2. UNCHANGED <<data, route, ui, commits>> /\ given' = given + 1 /\ Possible(e, stored)
    BY DEF EditElsewhere, local
  <1>3. Sound(q)
    BY <1>2, ElsewhereAssumption, RequestsOfEdit DEF PagesInv
  <1>4. Keeps(stored, stored', q.j)
    BY <1>1, <1>3, AppliedKeeps DEF PagesInv
  <1>5. Document(stored') /\ Page' = Page
    BY <1>2, <1>4 DEF Keeps, Page
  <1>6. given \in Nat
    BY DEF PagesInv
  <1>7. given' # given /\ given' \in Nat
    BY <1>2, <1>6
  <1>8. QED
    BY <1>2, <1>5, <1>7 DEF PagesInv

\* Another page: its components start anew.
LEMMA NavigateStep ==
    ASSUME PagesInv, NEW r, Navigate(r)
    PROVE  PagesInv'
  <1>1. Show(data, r, ui, commits) /\ UNCHANGED <<stored, given>>
    BY DEF Navigate
  <1>2. Document(data) /\ Local(Page, ui)
    BY DEF PagesInv
  <1>3. QED
    BY <1>1, <1>2, ShowStep

\* Every step keeps the invariant.
LEMMA NextPagesInv == PagesInv /\ [PagesNext]_pagesVars => PagesInv'
  <1> SUFFICES ASSUME PagesInv, [PagesNext]_pagesVars PROVE PagesInv'
    OBVIOUS
  <1>1. CASE UNCHANGED pagesVars
    BY <1>1 DEF pagesVars, local, PagesInv, Page
  <1>2. CASE PagesNext
    BY <1>2, NavigateStep, JourneySteps, SubmitNewStep, CommitSteps, DraftSteps, SubmitSteps, CarryStep, ReloadStep,
       SucceedStep, FailCommitStep, EditElsewhereStep DEF PagesNext
  <1>3. QED
    BY <1>1, <1>2

\* In every state of the pages the server's document, the one on the page and
\* those that were read but not shown yet all parse, a form belongs to the
\* object it was filled from, and the requests still to be sent ask for valid
\* content of objects that their edit is about; whatever other commits and
\* other devices do between the edit and the end of its commit.
THEOREM PagesInvariant == PagesSpec => []PagesInv
  BY InitPagesInv, NextPagesInv, PTL DEF PagesSpec

-----------------------------------------------------------------------------
(***************************************************************************)
(* What the runs check of the pages.                                       *)
(***************************************************************************)

\* begin and the ends of the submit handlers set the form and its identifier
\* together, and a component that is replaced loses both: a form is saved to
\* the object it was filled from, whatever commits end meanwhile.
THEOREM PagesDraftKeepsItsTarget == PagesSpec => []DraftKeepsItsTarget
  <1>1. PagesInv => DraftKeepsItsTarget
    BY DEF PagesInv, Local, DraftKeepsItsTarget
  <1>2. QED
    BY <1>1, PagesInvariant, PTL

\* The page shows documents that were the server's at some moment, without a
\* check, and the server keeps its document valid under the requests of edits
\* that were made on older ones, in any order and with overtaken reorders: no
\* page ever shows a document that parseJourneyData would refuse.
THEOREM PagesDocumentStaysValid == PagesSpec => []DocumentStaysValid
  <1>1. PagesInv => DocumentStaysValid
    BY DEF PagesInv, Document, DocumentStaysValid
  <1>2. QED
    BY <1>1, PagesInvariant, PTL

\* The difference between two whole documents that save computes is about the
\* object of the edit alone, for every document that parses, gaps in its
\* timelines included.
THEOREM PagesAsksOnlyForTheEdit == PagesSpec => []AsksOnlyForTheEdit
  <1>1. ASSUME PagesInv PROVE AsksOnlyForTheEdit
    <2>1. \A c \in commits : \A q \in c.todo : About(q, c)
      BY <1>1 DEF PagesInv, CommitGood
    <2>2. QED
      BY <2>1 DEF AsksOnlyForTheEdit, About, MovingOps
  <1>2. QED
    BY <1>1, PagesInvariant, PTL

\* The server's document changes when a request of a commit is carried out, or
\* one of another device, and at no other step.
LEMMA StoredChanges ==
    ASSUME PagesNext
    PROVE  stored' = stored \/ (\E c \in commits : Carry(c)) \/ (\E e \in Elsewhere : EditElsewhere(e))
  BY DEF PagesNext, Navigate, Show, Locally, TypeJourney, SubmitNew, Commit, OpenEditor, CloseEditor, SaveEdit,
     SetStatus, AskRemoval, Remove, BeginSegment, BeginNewSegment, TypeSegment, SubmitSegment, Reorder, DropSegment,
     BeginItem, BeginNewItem, TypeItem, SubmitItem, Pack, DropItem, CancelDraft, Reload, Succeed, FailCommit

\* The requests of a commit change, on the server, the records of the Journey
\* whose page it was given on and of no other, whichever Journey the person
\* looks at by then.
THEOREM PagesEditsStayInTheirJourney == PagesSpec => EditsStayInTheirJourney
  <1> DEFINE P(j) ==
          RecordsOf(stored', j) # RecordsOf(stored, j) =>
              given' # given \/ \E c \in commits : c \notin commits' /\ c.j = j
  <1>1. ASSUME PagesInv, PagesNext, NEW j \in JourneyIds PROVE P(j)
    <2>1. CASE stored' = stored
      BY <2>1 DEF RecordsOf, segmentsForJourney, packingForJourney
    <2>2. ASSUME NEW c \in commits, Carry(c) PROVE P(j)
      <3>1. stored' = stored \/ (c \notin commits' /\ Keeps(stored, stored', c.j))
        BY <1>1, <2>2, CarryStep
      <3>2. CASE stored' # stored /\ c.j # j
        <4>1. RecordsOf(stored', j) = RecordsOf(stored, j)
          BY <3>1, <3>2 DEF Keeps
        <4>2. QED
          BY <4>1
      <3>3. CASE stored' # stored /\ c.j = j
        BY <3>1, <3>3
      <3>4. QED
        BY <2>1, <3>2, <3>3
    <2>3. ASSUME NEW e \in Elsewhere, EditElsewhere(e) PROVE P(j)
      BY <1>1, <2>3, EditElsewhereStep
    <2>4. QED
      BY <1>1, <2>1, <2>2, <2>3, StoredChanges
  <1>2. PagesInv /\ [PagesNext]_pagesVars => [\A j \in JourneyIds : P(j)]_pagesVars
    BY <1>1
  <1>3. EditsStayInTheirJourney <=> [][\A j \in JourneyIds : P(j)]_pagesVars
    BY DEF EditsStayInTheirJourney
  <1> HIDE DEF P
  <1>4. QED
    BY <1>2, <1>3, PagesInvariant, PTL DEF PagesSpec
=============================================================================
