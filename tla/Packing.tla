------------------------------- MODULE Packing -------------------------------
(***************************************************************************)
(* The packing list of one Journey: create_packing, update_packing,        *)
(* update_packing_progress, delete_packing and delete_journey of           *)
(* JourneyRepository, one step per SQL statement, as concurrent            *)
(* transactions run them on PostgreSQL under READ COMMITTED.               *)
(*                                                                         *)
(* update_packing_progress compares the packed quantity with the quantity  *)
(* of a row it has only read; the UPDATE that follows compares the record  *)
(* version, and the table's check constraint is what stands behind both.   *)
(* Every mutation locks the item first and the Journey last, delete_journey*)
(* the other way round; PostgreSQL ends one of those that wait in a circle.*)
(***************************************************************************)
EXTENDS Naturals, FiniteSets

CONSTANTS
    Items,        \* identifiers of items (a client may choose one)
    Requests,     \* HTTP requests
    MaxQuantity,  \* bound on quantities
    Reused,       \* those that more than one create may name
    None,         \* the absence of a row
    Keep          \* "this transaction has not written the row"

ASSUME QuantityAssumption == MaxQuantity \in Nat \ {0}
ASSUME ReusedAssumption == Reused \subseteq Items

VARIABLES
    journey,      \* record_version of the Journey, or None once deleted
    items,        \* Items -> committed row, or None
    shown,        \* <<item, version>> that some answer has shown to clients
    pc,           \* where each request is
    op,           \* what each request asks for
    draft,        \* the uncommitted rows of each transaction
    touch,        \* its uncommitted Journey row: a version, None, or Keep
    todo,         \* the rows that its cascade has yet to visit
    reply         \* the result each request has for its client

db == <<journey, items, shown>>
vars == <<journey, items, shown, pc, op, draft, touch, todo, reply>>

Quantities == 1 .. MaxQuantity

Row == [quantity : Nat, packed : Nat, version : Nat]

Operations ==
    [kind : {"create"}, item : Items, quantity : Quantities]
      \cup [kind : {"update"}, item : Items, quantity : Quantities, expected : Nat]
      \cup [kind : {"progress"}, item : Items, packed : 0 .. MaxQuantity, expected : Nat]
      \cup [kind : {"delete"}, item : Items]
      \cup [kind : {"delete_journey"}]

\* The marks for "no row" and "not written" are neither rows nor values.
ASSUME AbsenceAssumption ==
    /\ None \notin Row \cup Nat \cup Operations
    /\ Keep \notin Row \cup Nat \cup {None}

\* An identifier that nobody has used for an item, or may use again.
Creatable ==
    {i \in Items : \/ i \in Reused
                   \/ /\ \A s \in shown : s[1] # i
                      /\ \A r \in Requests : op[r] # None /\ op[r].kind = "create" => op[r].item # i}

\* What a client can ask for: a version it names is one it has been shown.
Asks ==
    {[kind |-> "create", item |-> i, quantity |-> q] : i \in Creatable, q \in Quantities}
      \cup {[kind |-> "update", item |-> s[1], quantity |-> q, expected |-> s[2]] :
               s \in shown, q \in Quantities}
      \cup {[kind |-> "progress", item |-> s[1], packed |-> p, expected |-> s[2]] :
               s \in shown, p \in 0 .. MaxQuantity}
      \cup {[kind |-> "delete", item |-> s[1]] : s \in shown}
      \cup {[kind |-> "delete_journey"]}

NoDraft == [i \in Items |-> Keep]
View(r, i) == IF draft[r][i] = Keep THEN items[i] ELSE draft[r][i]
Open(r) == pc[r] \notin {"new", "done"}
Present == {i \in Items : items[i] # None}
Shows(table) == {<<i, table[i].version>> : i \in {j \in Items : table[j] # None}}

Least(a, b) == IF a <= b THEN a ELSE b

(***************************************************************************)
(* Locks: whom a request waits for before its next step.                   *)
(***************************************************************************)
RowWriters(r, i) == {q \in Requests \ {r} : draft[q][i] # Keep}
JourneyWriters(r) == {q \in Requests \ {r} : touch[q] # Keep}
JourneyDroppers(r) == {q \in Requests \ {r} : touch[q] = None}

\* FOR KEY SHARE on the Journey, from the INSERT of an item to the end.
KeySharers(r) ==
    {q \in Requests \ {r} : pc[q] \in {"touch", "commit"} /\ op[q].kind = "create"}

Blockers(r) ==
    CASE pc[r] = "insert"  -> RowWriters(r, op[r].item) \cup JourneyDroppers(r)
      [] pc[r] = "write"   -> RowWriters(r, op[r].item)
      [] pc[r] = "touch"   -> JourneyWriters(r)
      [] pc[r] = "drop"    -> JourneyWriters(r) \cup KeySharers(r)
      [] pc[r] = "cascade" -> IF \E i \in todo[r] : RowWriters(r, i) = {} THEN {}
                              ELSE UNION {RowWriters(r, i) : i \in todo[r]}
      [] OTHER             -> {}

\* Requests that each wait for one of them and make one of them wait.
Circle(S) ==
    /\ S # {}
    /\ \A r \in S : Blockers(r) \cap S # {} /\ \E q \in S : r \in Blockers(q)

-----------------------------------------------------------------------------
Init ==
    /\ journey = 1
    /\ \E S \in SUBSET Items, q \in Quantities, p \in 0 .. MaxQuantity :
          /\ p <= q
          /\ items = [i \in Items |->
                        IF i \in S THEN [quantity |-> q, packed |-> p, version |-> 1]
                        ELSE None]
    /\ shown = Shows(items)
    /\ pc = [r \in Requests |-> "new"]
    /\ op = [r \in Requests |-> None]
    /\ draft = [r \in Requests |-> NoDraft]
    /\ touch = [r \in Requests |-> Keep]
    /\ todo = [r \in Requests |-> {}]
    /\ reply = [r \in Requests |-> "pending"]

Goto(r, where) == pc' = [pc EXCEPT ![r] = where]

\* The transaction ends: its drafts are gone, its locks are free.
End(r, answer) ==
    /\ Goto(r, "done")
    /\ draft' = [draft EXCEPT ![r] = NoDraft]
    /\ touch' = [touch EXCEPT ![r] = Keep]
    /\ todo' = [todo EXCEPT ![r] = {}]
    /\ reply' = [reply EXCEPT ![r] = answer]

Raise(r, code) == End(r, code) /\ UNCHANGED <<db, op>>

Begin(r) ==
    /\ pc[r] = "new"
    /\ \E o \in Asks :
          /\ op' = [op EXCEPT ![r] = o]
          /\ Goto(r, IF o.kind = "delete_journey" THEN "drop" ELSE "read")
    /\ UNCHANGED <<db, draft, touch, todo, reply>>

\* Mutant: delete_packing locks the Journey when it reads it.
Read_LocksJourney(r) ==
    /\ pc[r] = "read"
    /\ op[r].kind = "delete" => JourneyWriters(r) = {}
    /\ IF journey = None \/ (op[r].kind # "create" /\ items[op[r].item] = None)
       THEN Raise(r, "resource_not_found")
       ELSE /\ touch' = [touch EXCEPT ![r] = IF op[r].kind = "delete" THEN journey + 1
                                             ELSE @]
            /\ Goto(r, IF op[r].kind = "create" THEN "insert" ELSE "write")
            /\ UNCHANGED <<db, op, draft, todo, reply>>

\* _journey_row and _owned_packing; a progress update compares the quantity.
Read(r) ==
    /\ pc[r] = "read"
    /\ CASE journey = None \/ (op[r].kind # "create" /\ items[op[r].item] = None) ->
              Raise(r, "resource_not_found")
         [] op[r].kind = "progress" /\ op[r].packed > items[op[r].item].quantity ->
              Raise(r, "quantity_invalid")
         [] OTHER ->
              /\ Goto(r, IF op[r].kind = "create" THEN "insert" ELSE "write")
              /\ UNCHANGED <<db, op, draft, touch, todo, reply>>

Write(r, row) ==
    /\ draft' = [draft EXCEPT ![r][op[r].item] = row]
    /\ Goto(r, "touch")
    /\ UNCHANGED <<db, op, touch, todo, reply>>

NewRow(o) == [quantity |-> o.quantity, packed |-> 0, version |-> 1]

\* The primary key and the foreign key can be waited for and can refuse.
Insert(r) ==
    /\ pc[r] = "insert"
    /\ Blockers(r) = {}
    /\ IF items[op[r].item] # None \/ journey = None
       THEN Raise(r, "internal_error")
       ELSE Write(r, NewRow(op[r]))

\* Mutant: the edit does not move the item's version.
Edited_SameVersion(row, o) ==
    [row EXCEPT !.quantity = o.quantity, !.packed = Least(@, o.quantity)]

\* The columns that update_packing sets, from the row it finds.
Edited(row, o) ==
    [row EXCEPT !.quantity = o.quantity, !.packed = Least(@, o.quantity),
                !.version = @ + 1]

Progressed(row, o) == [row EXCEPT !.packed = o.packed, !.version = @ + 1]

\* Mutant: the statement finds the item by its identifier alone.
Matches_AnyVersion(r) == items[op[r].item] # None

Matches(r) == items[op[r].item] # None /\ items[op[r].item].version = op[r].expected

\* UPDATE ... WHERE record_version = ?, and packing_progress_valid on the
\* row it would leave.
UpdateRow(r) ==
    LET old == items[op[r].item]
        new == IF op[r].kind = "update" THEN Edited(old, op[r])
               ELSE Progressed(old, op[r])
    IN  /\ pc[r] = "write" /\ op[r].kind \in {"update", "progress"}
        /\ Blockers(r) = {}
        /\ Matches(r)
        /\ IF new.packed > new.quantity THEN Raise(r, "check_violation")
           ELSE Write(r, new)

\* _finish_packing finds no row: rollback and 409.  A committed row of another
\* version is passed over without waiting for its lock.
StaleWrite(r) ==
    /\ pc[r] = "write" /\ op[r].kind \in {"update", "progress"}
    /\ ~Matches(r)
    /\ Raise(r, "version_conflict")

\* The number of deleted rows is not looked at.
DeleteRow(r) ==
    /\ pc[r] = "write" /\ op[r].kind = "delete"
    /\ Blockers(r) = {}
    /\ Write(r, IF items[op[r].item] = None THEN Keep ELSE None)

\* DELETE of the Journey; its items follow by ON DELETE CASCADE.
DropJourney(r) ==
    /\ pc[r] = "drop"
    /\ IF journey = None
       THEN Raise(r, "resource_not_found")
       ELSE /\ Blockers(r) = {}
            /\ touch' = [touch EXCEPT ![r] = None]
            /\ todo' = [todo EXCEPT ![r] = Present]
            /\ Goto(r, "cascade")
            /\ UNCHANGED <<db, op, draft, reply>>

CascadeRow(r) ==
    /\ pc[r] = "cascade"
    /\ \E i \in todo[r] :
          /\ RowWriters(r, i) = {}
          /\ todo' = [todo EXCEPT ![r] = @ \ {i}]
          /\ draft' = [draft EXCEPT ![r][i] = IF items[i] = None THEN Keep ELSE None]
    /\ UNCHANGED <<db, pc, op, touch, reply>>

Cascaded(r) ==
    /\ pc[r] = "cascade"
    /\ todo[r] = {}
    /\ Goto(r, "commit")
    /\ UNCHANGED <<db, op, draft, touch, todo, reply>>

\* _touch_journey; the number of updated rows is not looked at.
TouchJourney(r) ==
    /\ pc[r] = "touch"
    /\ Blockers(r) = {}
    /\ touch' = [touch EXCEPT ![r] = IF journey = None THEN Keep ELSE journey + 1]
    /\ Goto(r, "commit")
    /\ UNCHANGED <<db, op, draft, todo, reply>>

Commit(r) ==
    /\ pc[r] = "commit"
    /\ items' = [i \in Items |-> View(r, i)]
    /\ journey' = IF touch[r] = Keep THEN journey ELSE touch[r]
    /\ shown' = shown \cup Shows(items')
    /\ End(r, "ok")
    /\ UNCHANGED op

\* PostgreSQL's deadlock detector ends one of those that wait in a circle.
Victim(r) ==
    /\ \E S \in SUBSET Requests : r \in S /\ Circle(S)
    /\ Raise(r, "internal_error")

\* A lost connection, a stopped server.
Abort(r) == Open(r) /\ Raise(r, "internal_error")

Execute(r) ==
    \/ Read(r) \/ Insert(r) \/ UpdateRow(r) \/ StaleWrite(r) \/ DeleteRow(r)
    \/ DropJourney(r) \/ CascadeRow(r) \/ Cascaded(r)
    \/ TouchJourney(r) \/ Commit(r)

Next == \E r \in Requests : Begin(r) \/ Execute(r) \/ Victim(r) \/ Abort(r)

Spec == Init /\ [][Next]_vars

-----------------------------------------------------------------------------
(***************************************************************************)
(* Properties.                                                             *)
(***************************************************************************)

\* Every committed row and every request-local value has its type, and the
\* rows satisfy the table's constraints.
TypeOK ==
    /\ journey \in Nat \cup {None}
    /\ items \in [Items -> Row \cup {None}]
    /\ shown \subseteq Items \X Nat
    /\ \A i \in Present : items[i].packed <= items[i].quantity /\ items[i].version >= 1
    /\ op \in [Requests -> Operations \cup {None}]
    /\ draft \in [Requests -> [Items -> Row \cup {None, Keep}]]
    /\ touch \in [Requests -> Nat \cup {None, Keep}]
    /\ todo \in [Requests -> SUBSET Items]
    /\ pc \in [Requests -> {"new", "read", "insert", "write", "touch", "drop", "cascade",
                            "commit", "done"}]
    /\ reply \in [Requests -> {"pending", "ok", "resource_not_found", "quantity_invalid",
                               "version_conflict", "internal_error", "check_violation"}]

\* update_packing_progress may compare with an unlocked read: as long as the
\* identifier is not used again, a client that names a version it was shown
\* never runs into the check constraint, whatever commits between the read and
\* the UPDATE; it gets 422 or 409.
UnlockedCheckSuffices ==
    \A r \in Requests : reply[r] = "check_violation" => op[r].item \in Reused

\* A committed item only changes by the operation that named the version it
\* overwrites: an edit keeps the progress made before it, capped by the new
\* quantity, and progress leaves the quantity of a concurrent edit alone.
EditsKeepProgress ==
    [][\A i \in Items :
          (items[i] # None /\ items'[i] \notin {None, items[i]}) =>
             \E r \in Requests :
                /\ pc[r] = "commit" /\ pc'[r] = "done" /\ op[r].item = i
                /\ op[r].expected = items[i].version
                /\ \/ /\ op[r].kind = "update"
                      /\ items'[i].quantity = op[r].quantity
                      /\ items'[i].packed = Least(items[i].packed, op[r].quantity)
                   \/ /\ op[r].kind = "progress"
                      /\ items'[i].quantity = items[i].quantity
                      /\ items'[i].packed = op[r].packed]_vars

\* Mutations of items lock the item first and the Journey last, so that none of
\* them can deadlock with another: every circle of waits has a delete_journey.
OnlyDropsDeadlock ==
    \A S \in SUBSET Requests :
        Circle(S) => \E r \in S : op[r].kind = "delete_journey"
=============================================================================
