------------------------------ MODULE Timeline ------------------------------
(***************************************************************************)
(* The timeline of one Journey: create_segment, update_segment,            *)
(* reorder_segment, delete_segment and delete_journey of JourneyRepository,*)
(* one step per SQL statement (one per row where a statement visits many), *)
(* as concurrent transactions run them on PostgreSQL under READ COMMITTED. *)
(*                                                                         *)
(* A statement sees committed rows and its own transaction's drafts.  It   *)
(* waits while another transaction has drafted a row that it writes, or    *)
(* holds a position that it takes (the unique index on journey and         *)
(* position is checked row by row).  Authentication and authorisation are  *)
(* in CommandUow; every request here is an authorised one.                 *)
(***************************************************************************)
EXTENDS Naturals, FiniteSets, SequencesExt

CONSTANTS
    Segments,    \* segment identifiers (a client may choose one)
    Requests,    \* HTTP requests
    MaxVersion,  \* bound on the versions that clients name
    None,        \* the absence of a row
    Keep         \* "this transaction has not written the row"

ASSUME BoundAssumption == MaxVersion \in Nat
ASSUME MarksAssumption == None # Keep /\ None \notin Requests
ASSUME SegmentsAssumption == IsFiniteSet(Segments)

VARIABLES
    journey,     \* record_version of the Journey, or None once deleted
    segs,        \* Segments -> committed row, or None
    pc,          \* where each request is
    op,          \* what each request asks for
    ids,         \* the identifiers that each request has yet to renumber
    next,        \* the position that its next UPDATE or INSERT assigns
    todo,        \* the rows that its running UPDATE or DELETE has yet to visit
    draft,       \* the uncommitted segment rows of each transaction
    touch,       \* its uncommitted Journey row: a version, None, or Keep
    overtaken,   \* has another transaction committed since this one began?
    reply        \* the result each request has for its client

db == <<journey, segs>>
vars == <<journey, segs, pc, op, ids, next, todo, draft, touch, overtaken, reply>>

\* `content' stands for the columns of segment_values: the request that wrote
\* them last.
Row == [pos : Nat, version : Nat, content : Requests \cup {None}]

Positions == 0 .. Cardinality(Segments) - 1

Operations ==
    [kind : {"create", "delete"}, seg : Segments]
      \cup [kind : {"update"}, seg : Segments, expected : 1 .. MaxVersion]
      \cup [kind : {"reorder"}, seg : Segments, expected : 1 .. MaxVersion, to : Positions]
      \cup [kind : {"delete_journey"}]

ASSUME AbsenceAssumption ==
    /\ None \notin (Row \cup Nat \cup Operations)
    /\ Keep \notin (Row \cup Nat)

\* Where reorder_segment parks the rows while it renumbers them.
Parking == 100000

NoDraft == [s \in Segments |-> Keep]

Open(r) == pc[r] \notin {"new", "done", "failed"}

\* A row as the transaction sees it.
View(r, s) == IF draft[r][s] = Keep THEN segs[s] ELSE draft[r][s]

\* SELECT id ... ORDER BY position; no two rows have the same one.
Listed(r) ==
    LET there == {s \in Segments : View(r, s) # None}
    IN  CHOOSE list \in [1 .. Cardinality(there) -> there] :
           \A i, j \in DOMAIN list : i < j => View(r, list[i]).pos < View(r, list[j]).pos

\* Mutant: the segment changes places with the one that is there.
Moved_Swapped(list, s, to) ==
    LET from == CHOOSE i \in DOMAIN list : list[i] = s
    IN  [list EXCEPT ![from] = list[to + 1], ![to + 1] = s]

\* ids.remove(segment_id); ids.insert(new_position, segment_id).
Moved(list, s, to) ==
    LET from == CHOOSE i \in DOMAIN list : list[i] = s
    IN  InsertAt(RemoveAt(list, from), to + 1, s)

(***************************************************************************)
(* Locks.                                                                  *)
(***************************************************************************)
\* No other transaction has inserted, updated or deleted this row.
RowFree(r, s) == \A q \in Requests \ {r} : draft[q][s] = Keep

\* No other transaction is about to take or to give up this position.
PositionFree(r, p) ==
    \A q \in Requests \ {r}, s \in Segments :
        draft[q][s] # Keep =>
            /\ segs[s] # None => segs[s].pos # p
            /\ draft[q][s] # None => draft[q][s].pos # p

\* The unique index finds the position on another row.
Taken(r, s, p) ==
    \E t \in Segments \ {s} : View(r, t) # None /\ View(r, t).pos = p

\* Mutant: the Journey is updated without waiting for its writers.
JourneyFree_NoWait(r) == TRUE

JourneyFree(r) == \A q \in Requests \ {r} : touch[q] = Keep

\* Mutant: the segment's foreign key is not declared.
ForeignKeyHeld_Undeclared(r) == FALSE

\* FOR KEY SHARE on the Journey, from the INSERT of a segment to the end.
ForeignKeyHeld(r) ==
    pc[r] \in {"touch", "commit"} /\ op[r] # None /\ op[r].kind = "create"

-----------------------------------------------------------------------------

Init ==
    /\ journey = 1
    /\ \E S \in SUBSET Segments :
          \E order \in {f \in [S -> 0 .. Cardinality(S) - 1] :
                           \A s, t \in S : f[s] = f[t] => s = t} :
             segs = [s \in Segments |->
                        IF s \in S THEN [pos |-> order[s], version |-> 1, content |-> None]
                        ELSE None]
    /\ pc = [r \in Requests |-> "new"]
    /\ op = [r \in Requests |-> None]
    /\ ids = [r \in Requests |-> <<>>]
    /\ next = [r \in Requests |-> 0]
    /\ todo = [r \in Requests |-> {}]
    /\ draft = [r \in Requests |-> NoDraft]
    /\ touch = [r \in Requests |-> Keep]
    /\ overtaken = [r \in Requests |-> FALSE]
    /\ reply = [r \in Requests |-> "pending"]

Goto(r, where) == pc' = [pc EXCEPT ![r] = where]

\* The transaction ends: its drafts are gone, its locks are free.
Close(r, where, answer) ==
    /\ Goto(r, where)
    /\ ids' = [ids EXCEPT ![r] = <<>>]
    /\ next' = [next EXCEPT ![r] = 0]
    /\ todo' = [todo EXCEPT ![r] = {}]
    /\ draft' = [draft EXCEPT ![r] = NoDraft]
    /\ touch' = [touch EXCEPT ![r] = Keep]
    /\ reply' = [reply EXCEPT ![r] = answer]

\* An exception rolls the transaction back: an ApplicationError is answered
\* as such, anything else becomes an internal error.
Raise(r, code) == Close(r, "done", code) /\ UNCHANGED <<db, op, overtaken>>
Fail(r) == Close(r, "failed", "pending") /\ UNCHANGED <<db, op, overtaken>>

Draft(r, s, row) == draft' = [draft EXCEPT ![r][s] = row]

Begin(r) ==
    /\ pc[r] = "new"
    /\ \E o \in Operations :
          /\ op' = [op EXCEPT ![r] = o]
          /\ Goto(r, IF o.kind = "delete_journey" THEN "drop" ELSE "read")
    /\ UNCHANGED <<db, ids, next, todo, draft, touch, overtaken, reply>>

Reading(r, kind) == pc[r] = "read" /\ op[r].kind = kind

\* _journey_row finds nothing, or _owned_segment does not: privacy-neutral 404.
NotFound(r) ==
    /\ pc[r] = "read"
    /\ journey = None \/ (op[r].kind # "create" /\ segs[op[r].seg] = None)
    /\ Raise(r, "resource_not_found")

(***************************************************************************)
(* create_segment.                                                         *)
(***************************************************************************)
\* SELECT coalesce(max(position), -1) + 1.
ReadMax(r) ==
    /\ Reading(r, "create")
    /\ journey # None
    /\ LET used == {segs[s].pos + 1 : s \in {t \in Segments : segs[t] # None}}
       IN  next' = [next EXCEPT ![r] = Max(used \cup {0})]
    /\ Goto(r, "insert")
    /\ UNCHANGED <<db, op, ids, todo, draft, touch, overtaken, reply>>

\* The primary key, the unique index and the foreign key can each be waited
\* for, and can each refuse the row (an IntegrityError, not handled).
Insert(r) ==
    /\ pc[r] = "insert"
    /\ RowFree(r, op[r].seg)
    /\ PositionFree(r, next[r])
    /\ \A q \in Requests \ {r} : touch[q] # None
    /\ IF segs[op[r].seg] # None \/ Taken(r, op[r].seg, next[r]) \/ journey = None
       THEN Fail(r)
       ELSE /\ Draft(r, op[r].seg, [pos |-> next[r], version |-> 1, content |-> r])
            /\ Goto(r, "touch")
            /\ UNCHANGED <<db, op, ids, next, todo, touch, overtaken, reply>>

(***************************************************************************)
(* update_segment.  The UPDATE compares the version under the row lock.    *)
(***************************************************************************)
OwnedForUpdate(r) ==
    /\ Reading(r, "update")
    /\ journey # None
    /\ segs[op[r].seg] # None
    /\ Goto(r, "update")
    /\ UNCHANGED <<db, op, ids, next, todo, draft, touch, overtaken, reply>>

Matches(r) == segs[op[r].seg] # None /\ segs[op[r].seg].version = op[r].expected

\* Mutant: the version is compared when the row is read, as reorder does.
UpdateSegment_NoPredicate(r) ==
    LET row == segs[op[r].seg] IN
    /\ pc[r] = "update"
    /\ row # None
    /\ RowFree(r, op[r].seg)
    /\ Draft(r, op[r].seg, [row EXCEPT !.version = @ + 1, !.content = r])
    /\ Goto(r, "touch")
    /\ UNCHANGED <<db, op, ids, next, todo, touch, overtaken, reply>>

UpdateSegment(r) ==
    LET row == segs[op[r].seg] IN
    /\ pc[r] = "update"
    /\ Matches(r)
    /\ RowFree(r, op[r].seg)
    /\ Draft(r, op[r].seg, [row EXCEPT !.version = @ + 1, !.content = r])
    /\ Goto(r, "touch")
    /\ UNCHANGED <<db, op, ids, next, todo, touch, overtaken, reply>>

\* No row matches: also when the segment has been deleted meanwhile.
StaleUpdate(r) ==
    /\ pc[r] = "update"
    /\ ~Matches(r)
    /\ Raise(r, "version_conflict")

(***************************************************************************)
(* reorder_segment.  The version is compared on a plain read.              *)
(***************************************************************************)
OwnedForReorder(r) ==
    /\ Reading(r, "reorder")
    /\ journey # None
    /\ Matches(r)
    /\ Goto(r, "list")
    /\ UNCHANGED <<db, op, ids, next, todo, draft, touch, overtaken, reply>>

StaleReorder(r) ==
    /\ Reading(r, "reorder")
    /\ journey # None
    /\ segs[op[r].seg] # None
    /\ ~Matches(r)
    /\ Raise(r, "version_conflict")

\* ids.remove raises ValueError when the segment has gone in between.
ListForReorder(r) ==
    /\ pc[r] = "list" /\ op[r].kind = "reorder"
    /\ IF op[r].to >= Len(Listed(r))
       THEN Raise(r, "position_invalid")
       ELSE IF segs[op[r].seg] = None
       THEN Fail(r)
       ELSE /\ ids' = [ids EXCEPT ![r] = Moved(Listed(r), op[r].seg, op[r].to)]
            /\ Goto(r, "park")
            /\ UNCHANGED <<db, op, next, todo, draft, touch, overtaken, reply>>

\* UPDATE ... SET position = position + 100000 takes its snapshot ...
Park(r) ==
    /\ pc[r] = "park"
    /\ todo' = [todo EXCEPT ![r] = {s \in Segments : segs[s] # None}]
    /\ Goto(r, "parking")
    /\ UNCHANGED <<db, op, ids, next, draft, touch, overtaken, reply>>

\* ... and visits its rows in some order, skipping those deleted meanwhile.
ParkRow(r) ==
    /\ pc[r] = "parking"
    /\ \E s \in todo[r] :
          LET there == segs[s].pos + Parking IN
          /\ RowFree(r, s)
          /\ IF segs[s] = None
             THEN /\ todo' = [todo EXCEPT ![r] = @ \ {s}]
                  /\ UNCHANGED <<db, pc, op, ids, next, draft, touch, overtaken, reply>>
             ELSE /\ PositionFree(r, there)
                  /\ IF Taken(r, s, there)
                     THEN Fail(r)
                     ELSE /\ Draft(r, s, [segs[s] EXCEPT !.pos = there])
                          /\ todo' = [todo EXCEPT ![r] = @ \ {s}]
                          /\ UNCHANGED <<db, pc, op, ids, next, touch, overtaken, reply>>

Parked(r) ==
    /\ pc[r] = "parking"
    /\ todo[r] = {}
    /\ Goto(r, "renumber")
    /\ UNCHANGED <<db, op, ids, next, todo, draft, touch, overtaken, reply>>

\* UPDATE ... SET position = ? WHERE id = ?, for the next identifier; the
\* moved segment's version moves with it.
Renumber(r) ==
    /\ pc[r] = "renumber"
    /\ ids[r] # <<>>
    /\ LET s == Head(ids[r])
           row == View(r, s)
           up == IF op[r].kind = "reorder" /\ s = op[r].seg THEN 1 ELSE 0
           advance == /\ ids' = [ids EXCEPT ![r] = Tail(@)]
                      /\ next' = [next EXCEPT ![r] = @ + 1]
                      /\ UNCHANGED <<db, pc, op, todo, touch, overtaken, reply>>
       IN  /\ RowFree(r, s)
           /\ IF row = None
              THEN advance /\ UNCHANGED draft
              ELSE /\ PositionFree(r, next[r])
                   /\ IF Taken(r, s, next[r])
                      THEN Fail(r)
                      ELSE /\ Draft(r, s, [row EXCEPT !.pos = next[r], !.version = @ + up])
                           /\ advance

Renumbered(r) ==
    /\ pc[r] = "renumber"
    /\ ids[r] = <<>>
    /\ Goto(r, "touch")
    /\ UNCHANGED <<db, op, ids, next, todo, draft, touch, overtaken, reply>>

(***************************************************************************)
(* delete_segment and _compact_segments.                                   *)
(***************************************************************************)
OwnedForDelete(r) ==
    /\ Reading(r, "delete")
    /\ journey # None
    /\ segs[op[r].seg] # None
    /\ Goto(r, "delete")
    /\ UNCHANGED <<db, op, ids, next, todo, draft, touch, overtaken, reply>>

\* The number of deleted rows is not looked at.
DeleteRow(r) ==
    /\ pc[r] = "delete"
    /\ RowFree(r, op[r].seg)
    /\ IF segs[op[r].seg] = None THEN UNCHANGED draft ELSE Draft(r, op[r].seg, None)
    /\ Goto(r, "list")
    /\ UNCHANGED <<db, op, ids, next, todo, touch, overtaken, reply>>

\* Mutant: the gap is left where the segment was.
ListForCompaction_Skipped(r) ==
    /\ pc[r] = "list" /\ op[r].kind = "delete"
    /\ Goto(r, "touch")
    /\ UNCHANGED <<db, op, ids, next, todo, draft, touch, overtaken, reply>>

ListForCompaction(r) ==
    /\ pc[r] = "list" /\ op[r].kind = "delete"
    /\ ids' = [ids EXCEPT ![r] = Listed(r)]
    /\ Goto(r, "renumber")
    /\ UNCHANGED <<db, op, next, todo, draft, touch, overtaken, reply>>

(***************************************************************************)
(* delete_journey: the Journey, and by ON DELETE CASCADE its segments.     *)
(***************************************************************************)
DropJourney(r) ==
    /\ pc[r] = "drop"
    /\ IF journey = None
       THEN Raise(r, "resource_not_found")
       ELSE /\ JourneyFree(r)
            /\ \A q \in Requests \ {r} : ~ForeignKeyHeld(q)
            /\ touch' = [touch EXCEPT ![r] = None]
            /\ todo' = [todo EXCEPT ![r] = {s \in Segments : segs[s] # None}]
            /\ Goto(r, "cascade")
            /\ UNCHANGED <<db, op, ids, next, draft, overtaken, reply>>

CascadeRow(r) ==
    /\ pc[r] = "cascade"
    /\ \E s \in todo[r] :
          /\ RowFree(r, s)
          /\ todo' = [todo EXCEPT ![r] = @ \ {s}]
          /\ IF segs[s] = None THEN UNCHANGED draft ELSE Draft(r, s, None)
    /\ UNCHANGED <<db, pc, op, ids, next, touch, overtaken, reply>>

Cascaded(r) ==
    /\ pc[r] = "cascade"
    /\ todo[r] = {}
    /\ Goto(r, "commit")
    /\ UNCHANGED <<db, op, ids, next, todo, draft, touch, overtaken, reply>>

(***************************************************************************)
(* The end of every mutation.                                              *)
(***************************************************************************)
\* _touch_journey; the number of updated rows is not looked at.
TouchJourney(r) ==
    /\ pc[r] = "touch"
    /\ JourneyFree(r)
    /\ touch' = [touch EXCEPT ![r] = IF journey = None THEN Keep ELSE journey + 1]
    /\ Goto(r, "commit")
    /\ UNCHANGED <<db, op, ids, next, todo, draft, overtaken, reply>>

\* reorder_segment reads the moved row again and finds nothing.
LostReorder(r) ==
    /\ pc[r] = "commit"
    /\ op[r].kind = "reorder"
    /\ View(r, op[r].seg) = None
    /\ Raise(r, "resource_not_found")

Commit(r) ==
    /\ pc[r] = "commit"
    /\ op[r].kind = "reorder" => View(r, op[r].seg) # None
    /\ segs' = [s \in Segments |-> View(r, s)]
    /\ journey' = IF touch[r] = Keep THEN journey ELSE touch[r]
    /\ overtaken' = [q \in Requests |-> overtaken[q] \/ (q # r /\ Open(q))]
    /\ Close(r, "done", "ok")
    /\ UNCHANGED op

\* A failed statement, a deadlock victim, a lost connection, a stopped server.
Abort(r) == Open(r) /\ Fail(r)

Execute(r) ==
    \/ NotFound(r)
    \/ ReadMax(r) \/ Insert(r)
    \/ OwnedForUpdate(r) \/ UpdateSegment(r) \/ StaleUpdate(r)
    \/ OwnedForReorder(r) \/ StaleReorder(r) \/ ListForReorder(r)
    \/ Park(r) \/ ParkRow(r) \/ Parked(r) \/ Renumber(r) \/ Renumbered(r)
    \/ OwnedForDelete(r) \/ DeleteRow(r) \/ ListForCompaction(r)
    \/ DropJourney(r) \/ CascadeRow(r) \/ Cascaded(r)
    \/ TouchJourney(r) \/ LostReorder(r) \/ Commit(r)

Next == \E r \in Requests : Begin(r) \/ Execute(r) \/ Abort(r)

Spec == Init /\ [][Next]_vars

-----------------------------------------------------------------------------
(***************************************************************************)
(* Properties.                                                             *)
(***************************************************************************)

\* Every committed row and every request-local value has its type.
TypeOK ==
    /\ journey \in Nat \cup {None}
    /\ segs \in [Segments -> Row \cup {None}]
    /\ op \in [Requests -> Operations \cup {None}]
    /\ ids \in [Requests -> Seq(Segments)]
    /\ next \in [Requests -> Nat]
    /\ todo \in [Requests -> SUBSET Segments]
    /\ draft \in [Requests -> [Segments -> Row \cup {None, Keep}]]
    /\ touch \in [Requests -> Nat \cup {None, Keep}]
    /\ overtaken \in [Requests -> BOOLEAN]
    /\ pc \in [Requests -> {"new", "read", "insert", "update", "list", "park", "parking",
                            "renumber", "delete", "drop", "cascade", "touch", "commit",
                            "done", "failed"}]
    /\ reply \in [Requests -> {"pending", "ok", "version_conflict", "resource_not_found",
                               "position_invalid"}]

Commits(r, kind) ==
    pc[r] = "commit" /\ reply'[r] = "ok" /\ op[r].kind = kind

Present(table) == {s \in Segments : table[s] # None}

\* The positions are 0, 1, 2, ... without a gap and without a double.
Dense(table) ==
    {table[s].pos : s \in Present(table)} = 0 .. Cardinality(Present(table)) - 1

\* A deleted Journey leaves no segment behind, although segments are created,
\* edited and reordered while it is being deleted.
NoOrphans == journey = None => \A s \in Segments : segs[s] = None

\* The content of a segment only changes by an update_segment that named the
\* version it overwrites: no edit is lost to a concurrent edit, reorder or
\* compaction of the same row.
NoLostEdit ==
    [][\A s \in Segments :
          ( /\ segs[s] # None /\ segs'[s] # None
            /\ segs'[s].content # segs[s].content )
          => \E r \in Requests : /\ Commits(r, "update")
                                 /\ op[r].seg = s
                                 /\ segs[s].version = op[r].expected
                                 /\ segs'[s].content = r]_vars

\* Each commit that changes the timeline moves the Journey's version by
\* exactly one, which is what a Journey update that raced it relies on.
EveryChangeTouches ==
    [][segs' # segs => journey' = None \/ journey' = journey + 1]_vars

\* A reorder or a delete that nothing overtook leaves a timeline without gaps
\* whatever it found; a create that nothing overtook leaves none of its own.
RepairsPositions ==
    [][\A r \in Requests :
          ~overtaken[r] =>
             /\ Commits(r, "reorder") \/ Commits(r, "delete") => Dense(segs')
             /\ Commits(r, "create") /\ Dense(segs) => Dense(segs')]_vars

\* A reorder that writes its segment has put it where it was asked to, also
\* when other reorders, creates and deletes overtook it; and when none did, the
\* other segments keep their order.  (A segment that was deleted and created
\* again meanwhile is not written, and is reported where it is.)
ReorderMovesOne ==
    [][\A r \in Requests :
          Commits(r, "reorder") /\ draft[r][op[r].seg] # Keep =>
             /\ segs'[op[r].seg].pos = op[r].to
             /\ ~overtaken[r] =>
                   \A s, t \in Present(segs) \ {op[r].seg} :
                      segs[s].pos < segs[t].pos <=> segs'[s].pos < segs'[t].pos]_vars

\* A reorder only commits on the version of the segment that its client named.
ReorderChecksVersion ==
    [][\A r \in Requests :
          Commits(r, "reorder") => segs[op[r].seg].version = op[r].expected]_vars
=============================================================================
