--------------------------- MODULE WebJourneyClient ---------------------------
(***************************************************************************)
(* The web client between its pages and the API: HttpJourneyRepository and *)
(* JourneyDataProvider.                                                    *)
(*                                                                         *)
(* A save sends the difference between the document loaded last and the    *)
(* edited one, one request after the other, and then loads everything      *)
(* again; a load is several reads.  Any request may fail in the network,   *)
(* before or after the server has carried it out, and one that failed may  *)
(* be carried out later.  A reorder is carried out in two steps, its reads *)
(* and its writes, and anything may happen in between.  Several saves may  *)
(* be under way, other devices write to the same document, and the session *)
(* may end: the provider is then unmounted, but the repository and what it *)
(* has under way live on.                                                  *)
(***************************************************************************)
EXTENDS JourneySave

CONSTANTS
    Tasks,          \* the saves and loads that may be under way
    Scenarios       \* the bounds of a behaviour, see max

VARIABLES
    server, receipts,       \* the server's document and command receipts
    session,                \* whether the server still accepts the session cookie
    late,                   \* requests that nobody waits for: they failed, and
                            \* the server has yet to carry them out, or they are
                            \* reorders of other devices
    current, pending,       \* of HttpJourneyRepository
    auth, page, mounts,     \* of AuthProvider and JourneyDataProvider
    tasks,
    authors,                \* Journeys that are what an update made them, with its command
    attempts,               \* the updates of a Journey sent since one with another content
    born, reborn,           \* objects the server has ever held, and those created twice
    loader,                 \* the mount whose task gave the repository its document
    used, commands,         \* identifiers given out: of objects, of commands
    edits, losses, others, expiries,
    max                     \* the scenario: the edits that people may make, here
                            \* and elsewhere (as records of JourneyDocument), the
                            \* tasks, and how many of each there are

repository == <<current, pending, loader>>
provider == <<auth, page, mounts>>
contents == <<server, receipts, authors, born, reborn>>
serverVars == <<contents, session>>
identifiers == <<used, commands, attempts>>
bounds == <<identifiers, edits, losses, others, expiries, max>>
vars == <<serverVars, late, repository, provider, tasks, bounds>>

Edits == UNION {s.choice \union s.elsewhere : s \in Scenarios}

ASSUME ScenariosAssumption ==
    /\ \A s \in Scenarios : s.tasks \subseteq Tasks
    /\ \A e \in Edits : e.op \in EditOps
AllJourneyIds == {r.id : r \in FirstDocument.journeys} \union {e.id : e \in {f \in Edits : f.op = "create"}}
Loading == [data |-> EmptyDocument, status |-> "loading", storageError |-> FALSE]

Init ==
    /\ server = FirstDocument /\ receipts = {} /\ session = FALSE /\ late = {}
    /\ current = EmptyDocument /\ loader = 0
    /\ pending = [j \in {} |-> None]
    /\ auth = "anonymous" /\ page = Loading /\ mounts = 0
    /\ tasks = [t \in Tasks |-> None]
    /\ authors = {} /\ attempts = {} /\ commands = 0
    /\ used = {r.id : r \in FirstDocument.journeys \union FirstDocument.segments \union FirstDocument.packing}
    /\ born = used /\ reborn = {}
    /\ edits = 0 /\ losses = 0 /\ others = 0 /\ expiries = 0
    /\ max \in Scenarios

-----------------------------------------------------------------------------
(***************************************************************************)
(* Tasks                                                                   *)
(***************************************************************************)
Task(kind, next, todo, clean) ==
    [kind |-> kind, mount |-> mounts, next |-> next, todo |-> todo, cur |-> None,
     at |-> IF kind = "save" THEN "save" ELSE "list", doc |-> EmptyDocument, reads |-> {}, clean |-> clean]

Running(t) == tasks[t] # None
Mine(t) == auth = "authenticated" /\ tasks[t].mount = mounts

\* A server change that is not the task's own.
Disturb(own) == [t \in Tasks |-> IF t = own \/ ~Running(t) THEN tasks[t] ELSE [tasks[t] EXCEPT !.clean = FALSE]]

\* The end of a save or load by an error; 401 brings the sign-in screen.
Fail(t, unauthenticated) ==
    /\ tasks' = [tasks EXCEPT ![t] = None]
    /\ auth' = IF unauthenticated /\ (tasks[t].kind = "save" \/ Mine(t)) THEN "anonymous" ELSE auth
    /\ page' = IF ~Mine(t) THEN page
               ELSE IF tasks[t].kind = "save" THEN [page EXCEPT !.storageError = TRUE]
               ELSE IF unauthenticated THEN page ELSE [page EXCEPT !.status = "error"]
    /\ UNCHANGED <<repository, mounts>>

\* AuthProvider lets the application in, and JourneyDataProvider loads.
Login(t) ==
    /\ auth = "anonymous" /\ ~Running(t) /\ mounts < max.mounts
    /\ mounts' = mounts + 1 /\ session' = TRUE /\ auth' = "authenticated" /\ page' = Loading
    /\ tasks' = [tasks EXCEPT ![t] = [Task("load", None, {}, FALSE) EXCEPT !.mount = mounts + 1]]
    /\ UNCHANGED <<contents, late, repository, bounds>>

Logout ==
    /\ auth = "authenticated" /\ mounts < max.mounts
    /\ session' = FALSE /\ auth' = "anonymous"
    /\ UNCHANGED <<contents, late, repository, page, mounts, tasks, bounds>>

\* The session is revoked or expires at the server.
Expire ==
    /\ session /\ expiries < max.expiries
    /\ session' = FALSE /\ expiries' = expiries + 1
    /\ UNCHANGED <<contents, late, repository, provider, tasks, identifiers, edits, losses, others, max>>

Retry(t) ==
    /\ auth = "authenticated" /\ page.status = "error" /\ ~Running(t)
    /\ page' = [page EXCEPT !.status = "loading"]
    /\ tasks' = [tasks EXCEPT ![t] = Task("load", None, {}, FALSE)]
    /\ UNCHANGED <<serverVars, late, repository, auth, mounts, bounds>>

\* New objects get random identifiers.
FreshId(e) ==
    IF e.op \in {"create", "add_segment", "add_item"} THEN e.id \notin used /\ used' = used \union {e.id}
    ELSE UNCHANGED used

\* commit: the page edits what it shows, save compares with what the
\* repository loaded last.  Beside a deletion is kept whether the page shows
\* the object, and whether a task of the page gave the repository its document.
StartCommit(t, e) ==
    /\ auth = "authenticated" /\ page.status = "ready" /\ ~Running(t)
    /\ edits < max.edits /\ edits' = edits + 1
    /\ Possible(e, page.data) /\ FreshId(e)
    /\ LET next == Edited(e, page.data)
           shown == page.data.journeys \union page.data.segments \union page.data.packing
           Marked(q) == IF q.kind \in DeleteKinds
                        THEN [q EXCEPT !.body = [shown |-> \E r \in shown : r.id = q.id, own |-> loader = mounts]] ELSE q
       IN  tasks' = [tasks EXCEPT ![t] =
                Task("save", next, {Marked(q) : q \in Difference(current, next)}, server = current /\ page.data = current)]
    /\ UNCHANGED <<serverVars, late, repository, provider, commands, attempts, losses, others, expiries, max>>

-----------------------------------------------------------------------------
(***************************************************************************)
(* Requests                                                                *)
(***************************************************************************)
Signature(q) == [body |-> q.body, ver |-> q.ver]

\* Mutant: an update that failed is sent again under a new identifier.
CommandFor_AlwaysFresh(q) == commands + 1

\* The identifier of an update: the one already used for this content and
\* version, or a new one.
CommandFor(q) ==
    IF q.j \in DOMAIN pending /\ pending[q.j].sig = Signature(q) THEN pending[q.j].cmd
    ELSE commands + 1

\* The updates of the Journey that were sent with the same content, without
\* another in between.
Repeated(q) == {a \in attempts : a.j # q.j \/ a.sig = Signature(q)}

Send(t) ==
    /\ Running(t) /\ tasks[t].at = "save" /\ tasks[t].cur = None
    /\ \E q \in tasks[t].todo :
          /\ \A r \in tasks[t].todo : q.stage <= r.stage
          /\ IF q.kind = "update_journey"
             THEN /\ pending' = [j \in DOMAIN pending \union {q.j} |->
                        IF j = q.j THEN [cmd |-> CommandFor(q), sig |-> Signature(q)] ELSE pending[j]]
                  /\ attempts' = Repeated(q) \union {[j |-> q.j, cmd |-> CommandFor(q), sig |-> Signature(q)]}
                  /\ commands' = IF CommandFor(q) > commands THEN CommandFor(q) ELSE commands
                  /\ tasks' = [tasks EXCEPT ![t].todo = @ \ {q}, ![t].cur = [q EXCEPT !.cmd = CommandFor(q)]]
             ELSE /\ tasks' = [tasks EXCEPT ![t].todo = @ \ {q}, ![t].cur = q]
                  /\ UNCHANGED <<pending, commands, attempts>>
    /\ UNCHANGED <<serverVars, late, current, loader, provider, used, edits, losses, others, expiries, max>>

\* The receipt of a command that the server has decided before.
ReceiptOf(q) == {p \in receipts : p.cmd = q.cmd}
Known(q) == q.kind = "update_journey" /\ ReceiptOf(q) # {}

Answer(q) ==
    IF ~Known(q) THEN Outcome(q, server)
    ELSE LET p == CHOOSE r \in ReceiptOf(q) : TRUE IN
         IF p.sig = Signature(q) THEN p.answer ELSE "idempotency_conflict"

Unauthored(j) == {a \in authors : a[1] # j}

\* An object that the server gets.
Arrives(q) ==
    /\ born' = born \union {q.id}
    /\ reborn' = IF q.id \in born THEN reborn \union {q.id} ELSE reborn

\* The server carries a request out: the document, the receipt of an update,
\* and whose doing the Journey is now.
ServerDoes(q) ==
    LET answer == Answer(q)
        applies == ~Known(q) /\ answer = "ok"
    IN  /\ server' = IF applies THEN Applied(q, server) ELSE server
        /\ receipts' = IF q.kind = "update_journey" /\ ~Known(q)
                       THEN receipts \union {[cmd |-> q.cmd, sig |-> Signature(q), answer |-> answer]} ELSE receipts
        /\ authors' = IF ~applies THEN authors
                      ELSE Unauthored(q.j) \union IF q.kind = "update_journey" THEN {<<q.j, q.cmd>>} ELSE {}
        /\ IF applies /\ q.kind \in CreateKinds THEN Arrives(q) ELSE UNCHANGED <<born, reborn>>

\* A request is let in before its reads, and then no longer needs the session.
LetIn(q) == session \/ q.order # None

\* The reads of a reorder that a task waits for.
CheckReorder(t) ==
    /\ Running(t) /\ tasks[t].cur # None
    /\ session /\ Unchecked(tasks[t].cur, server)
    /\ tasks' = [tasks EXCEPT ![t].cur = Checked(@, server)]
    /\ UNCHANGED <<serverVars, late, repository, provider, bounds>>

\* A request is answered.  Every answer but success ends the save.
Answered(t) ==
    /\ Running(t) /\ tasks[t].cur # None
    /\ LET q == tasks[t].cur IN
       \/ /\ LetIn(q) /\ Answer(q) = "ok" /\ ~Unchecked(q, server)
          /\ ServerDoes(q)
          /\ tasks' = [Disturb(t) EXCEPT ![t].cur = None]
          /\ UNCHANGED <<repository, provider>>
       \/ /\ LetIn(q) /\ Answer(q) # "ok"
          /\ ServerDoes(q) /\ Fail(t, FALSE)
       \/ /\ ~LetIn(q) /\ Fail(t, TRUE)
          /\ UNCHANGED contents
    /\ UNCHANGED <<session, late, bounds>>

\* The network fails: the request was never carried out, will be later, or
\* was carried out and its answer is lost.
Unreachable(t) ==
    /\ Running(t) /\ tasks[t].cur # None
    /\ losses < max.losses /\ losses' = losses + 1
    /\ \/ UNCHANGED <<contents, late>> /\ Fail(t, FALSE)
       \/ Cardinality(late) < max.late /\ late' = late \union {tasks[t].cur} /\ UNCHANGED contents /\ Fail(t, FALSE)
       \/ /\ LetIn(tasks[t].cur) /\ ~Unchecked(tasks[t].cur, server) /\ ServerDoes(tasks[t].cur)
          /\ tasks' = [Disturb(t) EXCEPT ![t] = None]
          /\ page' = IF Mine(t) THEN [page EXCEPT !.storageError = TRUE] ELSE page
          /\ UNCHANGED <<late, repository, auth, mounts>>
    /\ UNCHANGED <<session, identifiers, edits, others, expiries, max>>

\* The reads of a reorder that nobody waits for.
CheckLate(q) ==
    /\ q \in late /\ session /\ Unchecked(q, server)
    /\ late' = (late \ {q}) \union {Checked(q, server)}
    /\ UNCHANGED <<serverVars, repository, provider, tasks, bounds>>

ArriveLate(q) ==
    /\ q \in late /\ late' = late \ {q}
    /\ IF LetIn(q) THEN ~Unchecked(q, server) /\ ServerDoes(q) /\ tasks' = Disturb(None)
       ELSE UNCHANGED <<contents, tasks>>
    /\ UNCHANGED <<session, repository, provider, bounds>>

\* Another device of the same person makes an edit of its own.
OtherDevice(e) ==
    /\ others < max.others /\ others' = others + 1
    /\ Possible(e, server) /\ FreshId(e)
    /\ \E q \in Difference(server, Edited(e, server)) :
          /\ q.kind # "reorder_segment" /\ Outcome(q, server) = "ok"
          /\ server' = Applied(q, server)
          /\ authors' = Unauthored(q.j)
          /\ IF q.kind \in CreateKinds THEN Arrives(q) ELSE UNCHANGED <<born, reborn>>
    /\ tasks' = Disturb(None)
    /\ UNCHANGED <<receipts, session, late, repository, provider, commands, attempts, edits, losses, expiries, max>>

\* The reorder of another device: its reads; its writes are ArriveLate's.
OtherDeviceReorders(e) ==
    /\ others < max.others /\ others' = others + 1 /\ Cardinality(late) < max.late
    /\ Possible(e, server)
    /\ \E q \in Difference(server, Edited(e, server)) :
          /\ q.kind = "reorder_segment" /\ Outcome(q, server) = "ok"
          /\ late' = late \union {Checked(q, server)}
    /\ UNCHANGED <<serverVars, repository, provider, tasks, identifiers, edits, losses, expiries, max>>

-----------------------------------------------------------------------------
(***************************************************************************)
(* load                                                                    *)
(***************************************************************************)
ListJourneys(t) ==
    /\ Running(t)
    /\ tasks[t].at = "list" \/ (tasks[t].at = "save" /\ tasks[t].cur = None /\ tasks[t].todo = {})
    /\ session
    /\ tasks' = [tasks EXCEPT ![t].at = "read", ![t].doc.journeys = server.journeys,
                              ![t].reads = {"segments", "packing"} \X {r.id : r \in server.journeys}]
    /\ UNCHANGED <<serverVars, late, repository, provider, bounds>>

Learned(doc, r) ==
    IF r[1] = "segments" THEN [doc EXCEPT !.segments = @ \union segmentsForJourney(server, r[2])]
    ELSE [doc EXCEPT !.packing = @ \union packingForJourney(server, r[2])]

\* The reads of all Journeys run side by side; one that is gone is a 404.
Read(t, r) ==
    /\ Running(t) /\ tasks[t].at = "read" /\ r \in tasks[t].reads /\ session
    /\ \/ /\ JourneyExists(server, r[2])
          /\ tasks' = [tasks EXCEPT ![t].reads = @ \ {r}, ![t].doc = Learned(@, r)]
          /\ UNCHANGED <<repository, provider>>
       \/ ~JourneyExists(server, r[2]) /\ Fail(t, FALSE)
    /\ UNCHANGED <<serverVars, late, bounds>>

\* A read of a load fails, in the network or for want of a session.
LoadFails(t) ==
    /\ Running(t)
    /\ tasks[t].at = "list" \/ (tasks[t].at = "read" /\ tasks[t].reads # {})
       \/ (tasks[t].at = "save" /\ tasks[t].cur = None /\ tasks[t].todo = {})
    /\ \/ ~session /\ Fail(t, TRUE) /\ UNCHANGED losses
       \/ losses < max.losses /\ losses' = losses + 1 /\ Fail(t, FALSE)
    /\ UNCHANGED <<serverVars, late, identifiers, edits, others, expiries, max>>

\* A load makes the page ready, a save clears the message about an earlier one.
Shown(t) ==
    IF tasks[t].kind = "load" THEN [page EXCEPT !.data = tasks[t].doc, !.status = "ready"]
    ELSE [page EXCEPT !.data = tasks[t].doc, !.storageError = FALSE]

\* The document is complete: the repository takes it whoever asked for it,
\* the page if it is still the one that did.
FinishLoad(t) ==
    /\ Running(t) /\ tasks[t].at = "read" /\ tasks[t].reads = {}
    /\ current' = tasks[t].doc /\ loader' = tasks[t].mount
    /\ pending' = [j \in {} |-> None]
    /\ page' = IF Mine(t) THEN Shown(t) ELSE page
    /\ tasks' = [tasks EXCEPT ![t] = None]
    /\ UNCHANGED <<serverVars, late, auth, mounts, bounds>>

-----------------------------------------------------------------------------
Next ==
    \/ \E t \in max.tasks :
          \/ Login(t) \/ Retry(t) \/ Send(t) \/ CheckReorder(t) \/ Answered(t) \/ Unreachable(t)
          \/ ListJourneys(t) \/ LoadFails(t) \/ FinishLoad(t)
          \/ \E e \in max.choice : StartCommit(t, e)
          \/ \E r \in {"segments", "packing"} \X AllJourneyIds : Read(t, r)
    \/ Logout \/ Expire
    \/ \E q \in late : CheckLate(q) \/ ArriveLate(q)
    \/ \E e \in max.elsewhere : OtherDevice(e) \/ OtherDeviceReorders(e)

Spec == Init /\ [][Next]_vars

-----------------------------------------------------------------------------
(***************************************************************************)
(* Properties                                                              *)
(***************************************************************************)
\* Scenarios without two saves or loads at a time.
OneAtATime == \A t, u \in max.tasks : t = u

InFlight == late \union {tasks[t].cur : t \in {u \in Tasks : Running(u) /\ tasks[u].cur # None}}

\* The states of the provider; a page that says it is loading is waiting for a
\* load of its own mount, so that a spinner never outlives its request.
TypeOK ==
    /\ auth \in {"anonymous", "authenticated"} /\ page.status \in {"loading", "ready", "error"}
    /\ \A t \in Tasks : Running(t) => tasks[t].mount \in 1..mounts
    /\ page.status = "loading" /\ auth = "authenticated" =>
          \E t \in Tasks : Running(t) /\ tasks[t].kind = "load" /\ Mine(t)

Said(d) ==
    [journeys |-> {[r EXCEPT !.ver = 0] : r \in d.journeys},
     segments |-> {[s EXCEPT !.ver = 0, !.pos = IndexIn(segmentsForJourney(d, s.journey), s)] : s \in d.segments},
     packing |-> {[p EXCEPT !.ver = 0] : p \in d.packing}]

\* What a load brings always parses, although it is several reads and others
\* write meanwhile; and the requests of a save add up to the edit: when the page
\* shows what the server has and nobody else writes until the save has loaded
\* again, the document that comes back is the one the page asked for, each
\* timeline in the order of the page (also when an earlier reorder that was
\* overtaken has left positions with gaps).
SavedAsAsked ==
    [][/\ current' # current => parseJourneyData(current')
       /\ \A t \in Tasks :
             Running(t) /\ tasks[t].kind = "save" /\ tasks[t].clean /\ tasks[t].at = "read" /\ tasks'[t] = None
                /\ tasks[t].reads = {} =>
                   Said(current') = Said(tasks[t].next)]_vars

\* One identifier is never used for two contents, on time or late: no update
\* is answered idempotency_conflict.  And an update that is repeated, with no
\* other update of the Journey between, is not refused because of itself: after
\* a lost answer the server recognises it by its identifier, and a load forgets
\* the identifier only when it shows what the update did.  (The second half is
\* about one save or load at a time and no late requests: an update that is
\* carried out after the reads of a load that forgets its identifier is refused
\* its retry.)
RetryIsRecognised ==
    \A q \in {p \in InFlight : p.kind = "update_journey"} :
        /\ Answer(q) # "idempotency_conflict"
        /\ OneAtATime /\ max.late = 0 /\ ~Known(q) => \A a \in attempts : a.j = q.j => <<a.j, a.cmd>> \notin authors

Unnumbered(q, r) ==
    IF q.kind \in {"update_segment", "reorder_segment"} THEN [r EXCEPT !.pos = 0, !.ver = 0] ELSE [r EXCEPT !.ver = 0]

\* A request that changes a row finds it as the repository, and the page with
\* it, saw it, however late it arrives and whoever wrote in between: a reorder
\* when its version is compared, everything else when it is written.  And
\* nothing is deleted that the page does not show to the person who edits it,
\* for save compares the page's document with the one the page got.
\* Two things are excepted, and both can happen once a task of a page that is
\* gone ends after the load of the next page, for the repository's document is
\* then not the one on the page: the next save deletes what only the repository
\* has (own is false), and asks again for what only the page has, so that an
\* object which somebody deleted comes back with the version 1 (reborn).
WritesOnlyWhatWasSeen ==
    \A q \in InFlight :
        /\ Versioned(q) /\ q.order = None /\ q.id \notin reborn /\ ~Known(q) /\ Outcome(q, server) = "ok" =>
              Unnumbered(q, RowOf(q, server)) = Unnumbered(q, q.seen)
        /\ q.kind \in DeleteKinds => (q.body.own => q.body.shown)
=============================================================================
