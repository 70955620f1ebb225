---------------------------- MODULE PackingProofs ----------------------------
(***************************************************************************)
(* The inductive invariant of Packing and what follows from it, for any    *)
(* number of items and requests and any quantities.                        *)
(*                                                                         *)
(* An item only changes by what its writer found, because the writer holds *)
(* the row from its statement to its commit; and the version a client was  *)
(* shown can only be met again while the row is the one that was read,     *)
(* because versions of an identifier that is not used again only grow.     *)
(***************************************************************************)
EXTENDS Packing, TLAPS

-----------------------------------------------------------------------------
(***************************************************************************)
(* The inductive invariant.                                                *)
(***************************************************************************)

Unwritten(r) == draft[r] = NoDraft /\ touch[r] = Keep

\* What a request carries at each position.
Carries(r) ==
    /\ pc[r] = "new" <=> op[r] = None
    /\ pc[r] # "new" => op[r] \in Operations
    /\ pc[r] \in {"new", "read", "insert", "write", "drop", "done"} => Unwritten(r)
    /\ pc[r] \in {"read", "insert", "write", "touch"} => op[r].kind # "delete_journey"
    /\ pc[r] = "insert" => op[r].kind = "create"
    /\ pc[r] = "write" => op[r].kind \in {"update", "progress", "delete"}
    /\ pc[r] \in {"drop", "cascade"} => op[r].kind = "delete_journey"
    /\ pc[r] = "touch" => touch[r] = Keep
    /\ pc[r] # "done" => reply[r] = "pending"

\* The row that an operation makes of the one it finds.
Makes(o, old, new) ==
    \/ o.kind = "create" /\ old = None /\ new = NewRow(o)
    \/ o.kind = "update" /\ old # None /\ old.version = o.expected /\ new = Edited(old, o)
    \/ /\ o.kind = "progress" /\ old # None /\ old.version = o.expected
       /\ o.packed <= old.quantity /\ new = Progressed(old, o)

\* A row that a transaction has written was made from the committed one, which
\* is still there.
Written(r) ==
    \A i \in Items :
        draft[r][i] \notin {Keep, None} =>
            /\ pc[r] \in {"touch", "commit"}
            /\ op[r].kind # "delete_journey" /\ op[r].item = i
            /\ Makes(op[r], items[i], draft[r][i])

\* It is, because a row has one writer at a time.
OneWriter ==
    \A i \in Items, q, r \in Requests : draft[q][i] # Keep /\ draft[r][i] # Keep => q = r

Names(r, kind) == op[r] # None /\ op[r].kind = kind

\* What clients have been shown, and what they name.
ShownIsKnown ==
    /\ Shows(items) \subseteq shown
    /\ \A r \in Requests :
          Names(r, "update") \/ Names(r, "progress") => <<op[r].item, op[r].expected>> \in shown

\* An identifier that is not used again has one create, and no version of it
\* is shown before that create has committed.
CreatedOnce ==
    /\ \A q, r \in Requests :
          Names(q, "create") /\ Names(r, "create") /\ op[q].item = op[r].item =>
              op[q].item \in Reused \/ q = r
    /\ \A r \in Requests :
          Names(r, "create") /\ op[r].item \notin Reused /\ pc[r] # "done" =>
              \A s \in shown : s[1] # op[r].item

\* Its versions only grow.
NewestShown ==
    \A s \in shown :
        s[1] \notin Reused /\ items[s[1]] # None => s[2] <= items[s[1]].version

\* The comparison of update_packing_progress still holds when its UPDATE
\* finds the version that the client named.
ReadStillHolds ==
    \A r \in Requests :
        pc[r] = "write" /\ op[r].kind = "progress" /\ op[r].item \notin Reused /\ Matches(r) =>
            op[r].packed <= items[op[r].item].quantity

PackingInv ==
    /\ TypeOK
    /\ \A r \in Requests : Carries(r) /\ Written(r)
    /\ OneWriter
    /\ ShownIsKnown
    /\ CreatedOnce
    /\ NewestShown
    /\ ReadStillHolds
    /\ UnlockedCheckSuffices

-----------------------------------------------------------------------------
(***************************************************************************)
(* Types.                                                                  *)
(***************************************************************************)

\* The marks are neither rows, versions nor operations, nor each other.
LEMMA Absences ==
    /\ None \notin Row /\ None \notin Nat /\ None \notin Operations
    /\ Keep \notin Row /\ Keep \notin Nat /\ Keep # None
  BY AbsenceAssumption

\* The parts of what a request asks for have their types.
LEMMA OperationTypes ==
    \A o \in Operations :
        /\ o.kind \in {"create", "update", "progress", "delete", "delete_journey"}
        /\ o.kind # "delete_journey" => o.item \in Items
        /\ o.kind \in {"create", "update"} => o.quantity \in Nat
        /\ o.kind \in {"update", "progress"} => o.expected \in Nat
        /\ o.kind = "progress" => o.packed \in Nat
  BY QuantityAssumption DEF Operations, Quantities

\* The row that an operation leaves satisfies the constraints of the table, and
\* the version of an existing one has moved by one.
LEMMA MadeRows ==
    ASSUME NEW o \in Operations, NEW old \in Row \cup {None}, NEW new, Makes(o, old, new),
           old # None => old.packed <= old.quantity
    PROVE  /\ new \in Row /\ new.packed <= new.quantity /\ new.version >= 1
           /\ old # None => new.version = old.version + 1
  <1>1. CASE o.kind = "create" /\ old = None /\ new = NewRow(o)
    BY <1>1, OperationTypes DEF NewRow, Row
  <1>2. CASE o.kind = "update" /\ old # None /\ new = Edited(old, o)
    <2>1. old \in Row /\ o.quantity \in Nat
      BY <1>2, OperationTypes
    <2>2. new = [quantity |-> o.quantity, packed |-> Least(old.packed, o.quantity),
                 version |-> old.version + 1]
      BY <1>2, <2>1 DEF Edited, Row
    <2>3. QED
      BY <1>2, <2>1, <2>2 DEF Least, Row
  <1>3. CASE o.kind = "progress" /\ old # None /\ o.packed <= old.quantity /\ new = Progressed(old, o)
    <2>1. old \in Row /\ o.packed \in Nat
      BY <1>3, OperationTypes
    <2>2. new = [quantity |-> old.quantity, packed |-> o.packed, version |-> old.version + 1]
      BY <1>3, <2>1 DEF Progressed, Row
    <2>3. QED
      BY <1>3, <2>1, <2>2 DEF Row
  <1>4. QED
    BY <1>1, <1>2, <1>3 DEF Makes

\* Nothing is written, and nothing was asked for, when the server starts.
LEMMA InitPackingInv == Init => PackingInv
  <1> SUFFICES ASSUME Init PROVE PackingInv
    OBVIOUS
  <1>1. PICK S \in SUBSET Items, q \in Quantities, p \in 0 .. MaxQuantity :
           /\ p <= q
           /\ items = [i \in Items |->
                         IF i \in S THEN [quantity |-> q, packed |-> p, version |-> 1]
                         ELSE None]
    BY DEF Init
  <1>2. /\ items \in [Items -> Row \cup {None}]
        /\ \A i \in Present : items[i].packed <= items[i].quantity /\ items[i].version >= 1
    BY <1>1, QuantityAssumption DEF Row, Quantities, Present
  <1>3. shown = Shows(items) /\ shown \subseteq Items \X Nat
    BY <1>2 DEF Init, Shows, Row
  <1>4. TypeOK
    BY <1>2, <1>3 DEF Init, TypeOK, NoDraft
  <1>5. \A r \in Requests : Carries(r) /\ Written(r)
    BY DEF Init, Carries, Written, Unwritten, NoDraft
  <1>6. OneWriter /\ CreatedOnce /\ ReadStillHolds /\ UnlockedCheckSuffices
    BY DEF Init, OneWriter, CreatedOnce, ReadStillHolds, UnlockedCheckSuffices, NoDraft, Names
  <1>7. ShownIsKnown
    BY <1>3 DEF Init, ShownIsKnown, Names
  <1>8. NewestShown
    BY <1>2, <1>3 DEF NewestShown, Shows, Row
  <1>9. QED
    BY <1>4, <1>5, <1>6, <1>7, <1>8 DEF PackingInv

-----------------------------------------------------------------------------
(***************************************************************************)
(* Steps that write no committed state.                                    *)
(***************************************************************************)

\* The step changes the local state of r, and of no other request.
OnlyLocal(r) ==
    /\ pc' = [pc EXCEPT ![r] = pc'[r]]
    /\ op' = [op EXCEPT ![r] = op'[r]]
    /\ draft' = [draft EXCEPT ![r] = draft'[r]]
    /\ touch' = [touch EXCEPT ![r] = touch'[r]]
    /\ todo' = [todo EXCEPT ![r] = todo'[r]]
    /\ reply' = [reply EXCEPT ![r] = reply'[r]]

LocalTypes(r) ==
    /\ op'[r] \in Operations \cup {None}
    /\ draft'[r] \in [Items -> Row \cup {None, Keep}]
    /\ touch'[r] \in Nat \cup {None, Keep}
    /\ todo'[r] \in SUBSET Items
    /\ pc'[r] \in {"new", "read", "insert", "write", "touch", "drop", "cascade", "commit", "done"}
    /\ reply'[r] \in {"pending", "ok", "resource_not_found", "quantity_invalid",
                      "version_conflict", "internal_error", "check_violation"}

\* A step of one request leaves the locals of the others alone.
LEMMA OthersUntouched ==
    ASSUME TypeOK, NEW r \in Requests, OnlyLocal(r), NEW q \in Requests, q # r
    PROVE  /\ pc'[q] = pc[q] /\ op'[q] = op[q] /\ draft'[q] = draft[q]
           /\ touch'[q] = touch[q] /\ todo'[q] = todo[q] /\ reply'[q] = reply[q]
  BY DEF OnlyLocal, TypeOK

\* A step that writes only its request's locals keeps the invariant, if what the
\* request now carries is right and the rows that it has written were free.
LEMMA LocalStep ==
    ASSUME PackingInv, NEW r \in Requests, OnlyLocal(r), LocalTypes(r),
           UNCHANGED db, op'[r] = op[r], pc[r] # "done",
           Carries(r)', Written(r)',
           \A i \in Items : draft'[r][i] # Keep => draft[r][i] # Keep \/ RowWriters(r, i) = {},
           pc'[r] = "write" /\ op[r].kind = "progress" /\ Matches(r) =>
               op[r].packed <= items[op[r].item].quantity,
           reply'[r] = "check_violation" => op[r].item \in Reused
    PROVE  PackingInv'
  <1> USE DEF PackingInv
  <1>1. journey' = journey /\ items' = items /\ shown' = shown
    BY DEF db
  <1>2. op' = op
    <2>1. op \in [Requests -> Operations \cup {None}]
      BY DEF TypeOK
    <2>2. op' = [op EXCEPT ![r] = op[r]]
      BY DEF OnlyLocal
    <2>3. QED
      BY <2>1, <2>2
  <1>3. TypeOK'
    BY <1>1 DEF TypeOK, OnlyLocal, LocalTypes, Present
  <1>4. ASSUME NEW q \in Requests PROVE Carries(q)' /\ Written(q)'
    <2>1. CASE q = r
      BY <2>1
    <2>2. CASE q # r
      BY <2>2, <1>1, OthersUntouched DEF Carries, Unwritten, Written
    <2>3. QED
      BY <2>1, <2>2
  <1>5. OneWriter'
    BY OthersUntouched DEF OneWriter, RowWriters
  <1>6. ShownIsKnown' /\ NewestShown'
    BY <1>1, <1>2 DEF ShownIsKnown, NewestShown, Shows, Names
  <1>7. CreatedOnce'
    BY <1>1, <1>2, OthersUntouched DEF CreatedOnce, Names
  <1>8. ReadStillHolds'
    BY <1>1, <1>2, OthersUntouched DEF ReadStillHolds, Matches
  <1>9. UnlockedCheckSuffices'
    BY <1>2, OthersUntouched DEF UnlockedCheckSuffices
  <1>10. QED
    BY <1>3, <1>4, <1>5, <1>6, <1>7, <1>8, <1>9

\* What the end of a transaction leaves of its request.
LEMMA Ended ==
    ASSUME TypeOK, NEW r \in Requests,
           NEW answer \in {"ok", "resource_not_found", "quantity_invalid",
                           "version_conflict", "internal_error", "check_violation"},
           End(r, answer), op' = op
    PROVE  /\ OnlyLocal(r) /\ LocalTypes(r)
           /\ pc'[r] = "done" /\ op'[r] = op[r] /\ draft'[r] = NoDraft
           /\ touch'[r] = Keep /\ todo'[r] = {} /\ reply'[r] = answer
  BY DEF OnlyLocal, LocalTypes, TypeOK, End, Goto, NoDraft

\* A transaction is rolled back.
LEMMA RaiseStep ==
    ASSUME PackingInv, NEW r \in Requests, Open(r),
           NEW code \in {"resource_not_found", "quantity_invalid",
                         "version_conflict", "internal_error", "check_violation"},
           Raise(r, code), code = "check_violation" => op[r].item \in Reused
    PROVE  PackingInv'
  <1>1. TypeOK /\ Carries(r) /\ pc[r] # "done" /\ pc[r] # "new"
    BY DEF PackingInv, Open
  <1>2. UNCHANGED db /\ op' = op
    BY DEF Raise
  <1>3. /\ OnlyLocal(r) /\ LocalTypes(r)
        /\ pc'[r] = "done" /\ op'[r] = op[r] /\ draft'[r] = NoDraft
        /\ touch'[r] = Keep /\ reply'[r] = code
    BY <1>1, <1>2, Ended DEF Raise
  <1>4. Carries(r)' /\ Written(r)'
    BY <1>1, <1>3 DEF Carries, Unwritten, Written, NoDraft
  <1>5. \A i \in Items : draft'[r][i] = Keep
    BY <1>3 DEF NoDraft
  <1>6. QED
    BY <1>1, <1>2, <1>3, <1>4, <1>5, LocalStep

\* A request that has written nothing goes on to its next statement.
LEMMA AdvanceStep ==
    ASSUME PackingInv, NEW r \in Requests, NEW where \in {"insert", "write"},
           pc[r] = "read", Goto(r, where),
           UNCHANGED <<db, op, draft, touch, todo, reply>>,
           where = "insert" => op[r].kind = "create",
           where = "write" => op[r].kind # "create",
           where = "write" /\ op[r].kind = "progress" =>
               op[r].packed <= items[op[r].item].quantity
    PROVE  PackingInv'
  <1>1. TypeOK /\ Carries(r) /\ Written(r) /\ UnlockedCheckSuffices
    BY DEF PackingInv
  <1>2. op[r] \in Operations /\ Unwritten(r)
    BY <1>1 DEF Carries
  <1>3. /\ OnlyLocal(r) /\ LocalTypes(r)
        /\ pc'[r] = where /\ op'[r] = op[r] /\ draft'[r] = draft[r] /\ touch'[r] = touch[r]
        /\ reply'[r] = reply[r] /\ items' = items
    BY <1>1 DEF OnlyLocal, LocalTypes, TypeOK, Goto, db
  <1>4. Carries(r)'
    BY <1>1, <1>2, <1>3, OperationTypes DEF Carries, Unwritten
  <1>5. Written(r)' /\ \A i \in Items : draft'[r][i] = Keep
    BY <1>2, <1>3 DEF Written, Unwritten, NoDraft
  <1>6. reply[r] = "check_violation" => op[r].item \in Reused
    BY <1>1 DEF UnlockedCheckSuffices
  <1>7. QED
    BY <1>1, <1>3, <1>4, <1>5, <1>6, LocalStep

\* _journey_row and _owned_packing: what update_packing_progress compares.
LEMMA ReadStep ==
    ASSUME PackingInv, NEW r \in Requests, Read(r) PROVE PackingInv'
  <1>0. TypeOK /\ Carries(r) /\ pc[r] = "read" /\ op[r] \in Operations /\ Open(r)
    BY DEF PackingInv, Read, Carries, Open
  <1>1. CASE Raise(r, "resource_not_found")
    BY <1>0, <1>1, RaiseStep
  <1>2. CASE Raise(r, "quantity_invalid")
    BY <1>0, <1>2, RaiseStep
  <1>3. CASE /\ ~(op[r].kind = "progress" /\ op[r].packed > items[op[r].item].quantity)
             /\ op[r].kind # "create" => items[op[r].item] # None
             /\ Goto(r, IF op[r].kind = "create" THEN "insert" ELSE "write")
             /\ UNCHANGED <<db, op, draft, touch, todo, reply>>
    <2>1. op[r].kind = "progress" => op[r].packed <= items[op[r].item].quantity
      BY <1>0, <1>3, OperationTypes DEF TypeOK, Row
    <2>2. QED
      BY <1>0, <1>3, <2>1, AdvanceStep
  <1>4. QED
    BY <1>1, <1>2, <1>3 DEF Read

\* A statement that writes its item's row.
LEMMA WriteStep ==
    ASSUME PackingInv, NEW r \in Requests, NEW row,
           pc[r] \in {"insert", "write"}, Write(r, row),
           RowWriters(r, op[r].item) = {},
           row \in {Keep, None} \/ Makes(op[r], items[op[r].item], row)
    PROVE  PackingInv'
  <1>1. TypeOK /\ Carries(r) /\ UnlockedCheckSuffices
    BY DEF PackingInv
  <1>2. op[r] \in Operations /\ op[r].item \in Items /\ Unwritten(r) /\ op[r].kind # "delete_journey"
    BY <1>1, OperationTypes DEF Carries
  <1>3. row \in Row \cup {None, Keep}
    BY <1>1, <1>2, MadeRows DEF TypeOK, Present
  <1>4. /\ OnlyLocal(r) /\ LocalTypes(r) /\ UNCHANGED db
        /\ pc'[r] = "touch" /\ op'[r] = op[r] /\ touch'[r] = touch[r] /\ reply'[r] = reply[r]
        /\ items' = items
    BY <1>1, <1>2, <1>3 DEF OnlyLocal, LocalTypes, TypeOK, Goto, Write, db
  <1>5. draft'[r] = [i \in Items |-> IF i = op[r].item THEN row ELSE Keep]
    BY <1>1, <1>2 DEF TypeOK, Write, Unwritten, NoDraft
  <1>6. Carries(r)'
    BY <1>1, <1>2, <1>4, Absences DEF Carries, Unwritten
  <1>7. Written(r)'
    <2>1. ASSUME NEW i \in Items, draft'[r][i] \notin {Keep, None}
          PROVE  op[r].item = i /\ Makes(op[r], items[i], draft'[r][i])
      BY <1>5, <2>1
    <2>2. QED
      BY <1>2, <1>4, <2>1 DEF Written
  <1>8. \A i \in Items : draft'[r][i] # Keep => RowWriters(r, i) = {}
    BY <1>5
  <1>9. reply[r] = "check_violation" => op[r].item \in Reused
    BY <1>1 DEF UnlockedCheckSuffices
  <1>10. QED
    BY <1>4, <1>6, <1>7, <1>8, <1>9, LocalStep

\* Whom a request waits for at each of its statements.
LEMMA BlockersAre ==
    ASSUME NEW r \in Requests
    PROVE  /\ pc[r] = "insert" => Blockers(r) = RowWriters(r, op[r].item) \cup JourneyDroppers(r)
           /\ pc[r] = "write" => Blockers(r) = RowWriters(r, op[r].item)
           /\ pc[r] = "touch" => Blockers(r) = JourneyWriters(r)
           /\ pc[r] \notin {"insert", "write", "touch", "drop", "cascade"} => Blockers(r) = {}
  BY DEF Blockers

\* INSERT: the primary key and the foreign key can refuse.
LEMMA InsertStep ==
    ASSUME PackingInv, NEW r \in Requests, Insert(r) PROVE PackingInv'
  <1>1. pc[r] = "insert" /\ Open(r) /\ op[r].kind = "create" /\ RowWriters(r, op[r].item) = {}
    BY BlockersAre DEF Insert, Open, PackingInv, Carries
  <1>2. CASE Raise(r, "internal_error")
    BY <1>1, <1>2, RaiseStep
  <1>3. CASE items[op[r].item] = None /\ Write(r, NewRow(op[r]))
    BY <1>1, <1>3, WriteStep DEF Makes
  <1>4. QED
    BY <1>2, <1>3 DEF Insert

\* UPDATE ... WHERE record_version = ?: the check constraint only refuses a
\* row whose identifier was used again.
LEMMA UpdateRowStep ==
    ASSUME PackingInv, NEW r \in Requests, UpdateRow(r) PROVE PackingInv'
  <1> DEFINE old == items[op[r].item]
             new == IF op[r].kind = "update" THEN Edited(old, op[r]) ELSE Progressed(old, op[r])
  <1>1. /\ pc[r] = "write" /\ Open(r) /\ op[r].kind \in {"update", "progress"}
        /\ RowWriters(r, op[r].item) = {} /\ Matches(r)
    BY BlockersAre DEF UpdateRow, Open
  <1>2. TypeOK /\ op[r] \in Operations /\ op[r].item \in Items
    BY <1>1, OperationTypes DEF PackingInv, Carries
  <1>3. old # None /\ old \in Row /\ old.version = op[r].expected /\ old.packed <= old.quantity
    BY <1>1, <1>2 DEF Matches, TypeOK, Present
  <1>4. op[r].kind = "update" => new.packed <= new.quantity
    <2>1. SUFFICES ASSUME op[r].kind = "update" PROVE new.packed <= new.quantity
      OBVIOUS
    <2>2. Makes(op[r], old, new)
      BY <1>3, <2>1 DEF Makes
    <2>3. QED
      BY <1>2, <1>3, <2>2, MadeRows
  <1>5. op[r].kind = "progress" => new.packed = op[r].packed /\ new.quantity = old.quantity
    BY <1>3 DEF Progressed, Row
  <1>6. op[r].packed \in Nat \/ op[r].kind = "update"
    BY <1>1, <1>2, OperationTypes
  <1>7. CASE new.packed > new.quantity /\ Raise(r, "check_violation")
    <2>1. op[r].kind = "progress" /\ ~(op[r].packed <= old.quantity)
      <3>1. new.packed \in Nat /\ new.quantity \in Nat
        BY <1>1, <1>2, <1>3, <1>4, <1>5, <1>6, OperationTypes DEF Row, Edited, Least
      <3>2. QED
        BY <1>1, <1>4, <1>5, <1>7, <3>1
    <2>2. op[r].item \in Reused
      BY <1>1, <2>1 DEF PackingInv, ReadStillHolds
    <2>3. QED
      BY <1>1, <1>7, <2>2, RaiseStep
  <1>8. CASE ~(new.packed > new.quantity) /\ Write(r, new)
    <2>1. Makes(op[r], old, new)
      BY <1>1, <1>3, <1>5, <1>6, <1>8 DEF Makes, Row
    <2>2. QED
      BY <1>1, <1>8, <2>1, WriteStep
  <1>9. QED
    BY <1>7, <1>8 DEF UpdateRow

\* The UPDATE finds no row of that version.
LEMMA StaleWriteStep ==
    ASSUME PackingInv, NEW r \in Requests, StaleWrite(r) PROVE PackingInv'
  BY RaiseStep DEF StaleWrite, Open

\* DELETE of the item.
LEMMA DeleteRowStep ==
    ASSUME PackingInv, NEW r \in Requests, DeleteRow(r) PROVE PackingInv'
  BY BlockersAre, WriteStep DEF DeleteRow

\* DELETE of the Journey.
LEMMA DropJourneyStep ==
    ASSUME PackingInv, NEW r \in Requests, DropJourney(r) PROVE PackingInv'
  <1>1. /\ TypeOK /\ Carries(r) /\ Written(r) /\ UnlockedCheckSuffices
        /\ pc[r] = "drop" /\ op[r] \in Operations /\ Unwritten(r) /\ op[r].kind = "delete_journey"
    BY DEF PackingInv, Carries, DropJourney
  <1>2. CASE Raise(r, "resource_not_found")
    BY <1>1, <1>2, RaiseStep DEF Open
  <1>3. CASE /\ touch' = [touch EXCEPT ![r] = None]
             /\ todo' = [todo EXCEPT ![r] = Present]
             /\ Goto(r, "cascade")
             /\ UNCHANGED <<db, op, draft, reply>>
    <2>1. /\ OnlyLocal(r) /\ LocalTypes(r) /\ UNCHANGED db
          /\ pc'[r] = "cascade" /\ op'[r] = op[r] /\ draft'[r] = draft[r] /\ reply'[r] = reply[r]
      BY <1>1, <1>3 DEF OnlyLocal, LocalTypes, TypeOK, Goto, Present, db
    <2>2. \A i \in Items : draft'[r][i] = Keep
      BY <1>1, <2>1 DEF Unwritten, NoDraft
    <2>3. Carries(r)' /\ Written(r)'
      BY <1>1, <2>1, <2>2, Absences DEF Carries, Written
    <2>4. reply[r] = "check_violation" => op[r].item \in Reused
      BY <1>1 DEF UnlockedCheckSuffices
    <2>5. QED
      BY <1>1, <2>1, <2>2, <2>3, <2>4, LocalStep
  <1>4. QED
    BY <1>2, <1>3 DEF DropJourney

\* The cascade deletes one item.
LEMMA CascadeRowStep ==
    ASSUME PackingInv, NEW r \in Requests, CascadeRow(r) PROVE PackingInv'
  <1>1. /\ TypeOK /\ Carries(r) /\ Written(r) /\ UnlockedCheckSuffices /\ pc[r] = "cascade"
    BY DEF PackingInv, CascadeRow
  <1>2. PICK i \in todo[r] :
           /\ RowWriters(r, i) = {}
           /\ todo' = [todo EXCEPT ![r] = @ \ {i}]
           /\ draft' = [draft EXCEPT ![r][i] = IF items[i] = None THEN Keep ELSE None]
    BY DEF CascadeRow
  <1>3. i \in Items
    BY <1>1 DEF TypeOK
  <1>4. /\ OnlyLocal(r) /\ LocalTypes(r) /\ UNCHANGED db
        /\ pc'[r] = pc[r] /\ op'[r] = op[r] /\ touch'[r] = touch[r] /\ reply'[r] = reply[r]
        /\ \A j \in Items \ {i} : draft'[r][j] = draft[r][j]
        /\ draft'[r][i] \in {Keep, None}
    BY <1>1, <1>2, <1>3 DEF OnlyLocal, LocalTypes, TypeOK, CascadeRow, db
  <1>5. Carries(r)'
    BY <1>1, <1>4 DEF Carries
  <1>6. Written(r)'
    BY <1>1, <1>4 DEF Written
  <1>7. \A j \in Items : draft'[r][j] # Keep => draft[r][j] # Keep \/ RowWriters(r, j) = {}
    BY <1>2, <1>4
  <1>8. reply[r] = "check_violation" => op[r].item \in Reused
    BY <1>1 DEF UnlockedCheckSuffices
  <1>9. QED
    BY <1>1, <1>4, <1>5, <1>6, <1>7, <1>8, LocalStep

\* The cascade has visited every item.
LEMMA CascadedStep ==
    ASSUME PackingInv, NEW r \in Requests, Cascaded(r) PROVE PackingInv'
  <1>1. /\ TypeOK /\ Carries(r) /\ Written(r) /\ UnlockedCheckSuffices /\ pc[r] = "cascade"
    BY DEF PackingInv, Cascaded
  <1>2. /\ OnlyLocal(r) /\ LocalTypes(r) /\ UNCHANGED db
        /\ pc'[r] = "commit" /\ op'[r] = op[r] /\ draft'[r] = draft[r]
        /\ touch'[r] = touch[r] /\ reply'[r] = reply[r] /\ items' = items
    BY <1>1 DEF OnlyLocal, LocalTypes, TypeOK, Cascaded, Goto, db
  <1>3. Carries(r)'
    BY <1>1, <1>2 DEF Carries
  <1>4. Written(r)'
    BY <1>1, <1>2 DEF Written
  <1>5. reply[r] = "check_violation" => op[r].item \in Reused
    BY <1>1 DEF UnlockedCheckSuffices
  <1>6. QED
    BY <1>1, <1>2, <1>3, <1>4, <1>5, LocalStep

\* _touch_journey.
LEMMA TouchJourneyStep ==
    ASSUME PackingInv, NEW r \in Requests, TouchJourney(r) PROVE PackingInv'
  <1>1. /\ TypeOK /\ Carries(r) /\ Written(r) /\ UnlockedCheckSuffices /\ pc[r] = "touch"
    BY DEF PackingInv, TouchJourney
  <1>2. /\ OnlyLocal(r) /\ LocalTypes(r) /\ UNCHANGED db
        /\ pc'[r] = "commit" /\ op'[r] = op[r] /\ draft'[r] = draft[r]
        /\ reply'[r] = reply[r] /\ items' = items
    BY <1>1 DEF OnlyLocal, LocalTypes, TypeOK, TouchJourney, Goto, db
  <1>3. Carries(r)'
    BY <1>1, <1>2 DEF Carries
  <1>4. Written(r)'
    BY <1>1, <1>2 DEF Written
  <1>5. reply[r] = "check_violation" => op[r].item \in Reused
    BY <1>1 DEF UnlockedCheckSuffices
  <1>6. QED
    BY <1>1, <1>2, <1>3, <1>4, <1>5, LocalStep

\* A deadlock victim was waiting, hence open.
LEMMA VictimStep ==
    ASSUME PackingInv, NEW r \in Requests, Victim(r) PROVE PackingInv'
  <1>1. Blockers(r) # {}
    BY DEF Victim, Circle
  <1>2. Open(r)
    BY <1>1, BlockersAre DEF Open
  <1>3. QED
    BY <1>2, RaiseStep DEF Victim

\* A failure between two statements.
LEMMA AbortStep ==
    ASSUME PackingInv, NEW r \in Requests, Abort(r) PROVE PackingInv'
  BY RaiseStep DEF Abort

-----------------------------------------------------------------------------
(***************************************************************************)
(* The beginning and the commit of a request.                              *)
(***************************************************************************)

\* What clients ask for is an operation, names what was shown and creates what
\* may be created.
LEMMA AsksTypes ==
    ASSUME TypeOK, NEW o \in Asks
    PROVE  /\ o \in Operations
           /\ o.kind \in {"update", "progress"} => <<o.item, o.expected>> \in shown
           /\ o.kind = "create" => o.item \in Creatable
  <1>1. \A s \in shown : s[1] \in Items /\ s[2] \in Nat /\ s = <<s[1], s[2]>>
    BY DEF TypeOK
  <1>2. CASE \E i \in Creatable, q \in Quantities :
                o = [kind |-> "create", item |-> i, quantity |-> q]
    BY <1>2 DEF Operations, Creatable
  <1>3. CASE \E s \in shown, q \in Quantities :
                o = [kind |-> "update", item |-> s[1], quantity |-> q, expected |-> s[2]]
    BY <1>1, <1>3 DEF Operations
  <1>4. CASE \E s \in shown, p \in 0 .. MaxQuantity :
                o = [kind |-> "progress", item |-> s[1], packed |-> p, expected |-> s[2]]
    BY <1>1, <1>4 DEF Operations
  <1>5. CASE \E s \in shown : o = [kind |-> "delete", item |-> s[1]]
    BY <1>1, <1>5 DEF Operations
  <1>6. CASE o = [kind |-> "delete_journey"]
    BY <1>6 DEF Operations
  <1>7. QED
    BY <1>2, <1>3, <1>4, <1>5, <1>6 DEF Asks

\* A client asks for something.
LEMMA BeginStep ==
    ASSUME PackingInv, NEW r \in Requests, Begin(r) PROVE PackingInv'
  <1> USE DEF PackingInv
  <1>1. pc[r] = "new" /\ op[r] = None /\ Unwritten(r) /\ TypeOK
    BY DEF Begin, Carries
  <1>2. PICK o \in Asks : /\ op' = [op EXCEPT ![r] = o]
                          /\ Goto(r, IF o.kind = "delete_journey" THEN "drop" ELSE "read")
    BY DEF Begin
  <1>3. /\ o \in Operations
        /\ o.kind \in {"update", "progress"} => <<o.item, o.expected>> \in shown
        /\ o.kind = "create" => o.item \in Creatable
    BY <1>1, <1>2, AsksTypes
  <1>4. /\ op'[r] = o /\ pc'[r] \in {"drop", "read"}
        /\ pc'[r] = "drop" <=> o.kind = "delete_journey"
        /\ UNCHANGED <<items, shown, journey, draft, touch, todo, reply>>
        /\ OnlyLocal(r) /\ LocalTypes(r)
    BY <1>1, <1>2, <1>3 DEF Begin, TypeOK, Goto, OnlyLocal, LocalTypes, db
  <1>5. TypeOK'
    BY <1>4 DEF TypeOK, OnlyLocal, LocalTypes, Present
  <1>6. ASSUME NEW q \in Requests PROVE Carries(q)' /\ Written(q)'
    <2>1. CASE q = r
      BY <2>1, <1>1, <1>3, <1>4, Absences DEF Carries, Written, Unwritten, NoDraft
    <2>2. CASE q # r
      BY <2>2, <1>4, OthersUntouched DEF Carries, Unwritten, Written
    <2>3. QED
      BY <2>1, <2>2
  <1>7. OneWriter'
    BY <1>4 DEF OneWriter
  <1>8. ShownIsKnown' /\ NewestShown'
    BY <1>3, <1>4, OthersUntouched DEF ShownIsKnown, NewestShown, Shows, Names
  <1>9. CreatedOnce'
    BY <1>1, <1>3, <1>4, OthersUntouched DEF CreatedOnce, Names, Creatable
  <1>10. ReadStillHolds'
    BY <1>4, OthersUntouched DEF ReadStillHolds, Matches
  <1>11. UnlockedCheckSuffices'
    <2>1. reply[r] # "check_violation"
      BY <1>1 DEF Carries
    <2>2. QED
      BY <2>1, <1>4, OthersUntouched DEF UnlockedCheckSuffices
  <1>12. QED
    BY <1>5, <1>6, <1>7, <1>8, <1>9, <1>10, <1>11

\* What the commit of a request does to the row of an item.
LEMMA CommittedRows ==
    ASSUME PackingInv, NEW r \in Requests, Commit(r), NEW i \in Items
    PROVE  /\ items'[i] = View(r, i)
           /\ items'[i] # None /\ items'[i] # items[i] =>
                 /\ op[r] \in Operations /\ op[r].kind # "delete_journey" /\ op[r].item = i
                 /\ Makes(op[r], items[i], items'[i])
           /\ items'[i] \in Row \cup {None}
           /\ items'[i] # None => items'[i].packed <= items'[i].quantity /\ items'[i].version >= 1
           /\ items'[i] # None /\ items[i] # None => items[i].version <= items'[i].version
           /\ \A q \in Requests \ {r} : draft[q][i] # Keep => items'[i] = items[i]
  <1> USE DEF PackingInv
  <1>1. TypeOK /\ Written(r) /\ Carries(r) /\ pc[r] = "commit" /\ op[r] \in Operations
    BY DEF Commit, Carries
  <1>2. items'[i] = View(r, i)
    BY DEF Commit
  <1>3. /\ items[i] \in Row \cup {None}
        /\ items[i] # None => items[i].packed <= items[i].quantity /\ items[i].version >= 1
    BY <1>1 DEF TypeOK, Present
  <1>4. \A q \in Requests \ {r} : draft[q][i] # Keep => items'[i] = items[i]
    BY <1>2 DEF OneWriter, View
  <1>5. CASE draft[r][i] \in {Keep, None}
    <2>1. items'[i] = items[i] \/ items'[i] = None
      BY <1>2, <1>5 DEF View
    <2>2. QED
      BY <1>2, <1>3, <1>4, <2>1 DEF Row
  <1>6. CASE draft[r][i] \notin {Keep, None}
    <2>1. /\ items'[i] = draft[r][i] /\ op[r].kind # "delete_journey" /\ op[r].item = i
          /\ Makes(op[r], items[i], items'[i])
      BY <1>1, <1>2, <1>6 DEF View, Written
    <2>2. /\ items'[i] \in Row /\ items'[i].packed <= items'[i].quantity /\ items'[i].version >= 1
          /\ items[i] # None => items'[i].version = items[i].version + 1
      BY <1>1, <1>3, <2>1, MadeRows
    <2>3. items[i] # None => items[i].version <= items'[i].version
      BY <1>3, <2>2 DEF Row
    <2>4. \A q \in Requests \ {r} : draft[q][i] = Keep
      BY <1>6 DEF OneWriter
    <2>5. QED
      BY <1>1, <1>2, <2>1, <2>2, <2>3, <2>4
  <1>7. QED
    BY <1>5, <1>6

\* The commit of a request.
LEMMA CommitStep ==
    ASSUME PackingInv, NEW r \in Requests, Commit(r) PROVE PackingInv'
  <1> USE DEF PackingInv
  <1>1. TypeOK /\ Carries(r) /\ pc[r] = "commit" /\ op[r] \in Operations /\ op' = op
    BY DEF Commit, Carries
  <1>2. /\ OnlyLocal(r) /\ LocalTypes(r)
        /\ pc'[r] = "done" /\ op'[r] = op[r] /\ draft'[r] = NoDraft
        /\ touch'[r] = Keep /\ reply'[r] = "ok"
    BY <1>1, Ended DEF Commit
  <1>3. /\ items' \in [Items -> Row \cup {None}]
        /\ \A i \in Items : items'[i] # None =>
              items'[i].packed <= items'[i].quantity /\ items'[i].version >= 1
    BY CommittedRows DEF Commit
  <1>4. /\ Shows(items)' = {<<i, items'[i].version>> : i \in {j \in Items : items'[j] # None}}
        /\ shown' = shown \cup Shows(items)'
    BY DEF Commit, Shows
  <1>5. shown' \subseteq Items \X Nat
    BY <1>1, <1>3, <1>4 DEF TypeOK, Row
  <1>6. journey' \in Nat \cup {None}
    BY <1>1 DEF Commit, TypeOK
  <1>7. TypeOK'
    BY <1>1, <1>2, <1>3, <1>5, <1>6 DEF TypeOK, OnlyLocal, LocalTypes, Present
  <1>8. ASSUME NEW q \in Requests PROVE Carries(q)' /\ Written(q)'
    <2>1. CASE q = r
      BY <2>1, <1>1, <1>2 DEF Carries, Written, Unwritten, NoDraft
    <2>2. CASE q # r
      <3>1. Carries(q)'
        BY <2>2, <1>1, <1>2, OthersUntouched DEF Carries, Unwritten
      <3>2. \A i \in Items : draft[q][i] # Keep => items'[i] = items[i]
        BY <2>2, CommittedRows
      <3>3. Written(q)'
        BY <2>2, <3>2, <1>1, <1>2, OthersUntouched DEF Written
      <3>4. QED
        BY <3>1, <3>3
    <2>3. QED
      BY <2>1, <2>2
  <1>9. OneWriter'
    BY <1>1, <1>2, OthersUntouched DEF OneWriter, NoDraft
  <1>10. ShownIsKnown'
    BY <1>1, <1>4 DEF ShownIsKnown, Names
  <1>11. ASSUME NEW i \in Items, items'[i] # None, items[i] = None, i \notin Reused
         PROVE  op[r].kind = "create" /\ op[r].item = i /\ \A s \in shown : s[1] # i
    <2>1. op[r].item = i /\ Makes(op[r], items[i], items'[i])
      BY <1>11, CommittedRows
    <2>2. op[r].kind = "create"
      BY <1>11, <2>1 DEF Makes
    <2>3. QED
      BY <1>1, <1>11, <2>1, <2>2, Absences DEF CreatedOnce, Names
  <1>12. NewestShown'
    <2>1. SUFFICES ASSUME NEW s \in shown', s[1] \notin Reused, items'[s[1]] # None
                   PROVE  s[2] <= items'[s[1]].version
      BY DEF NewestShown
    <2>2. CASE s \in Shows(items)'
      BY <2>2, <1>3, <1>4 DEF Row
    <2>3. CASE s \in shown
      <3>1. s[1] \in Items /\ s[2] \in Nat
        BY <2>3, <1>1 DEF TypeOK
      <3>2. items[s[1]] # None
        BY <2>1, <2>3, <3>1, <1>11
      <3>3. s[2] <= items[s[1]].version /\ items[s[1]].version <= items'[s[1]].version
        BY <2>1, <2>3, <3>1, <3>2, CommittedRows DEF NewestShown
      <3>4. items[s[1]].version \in Nat /\ items'[s[1]].version \in Nat
        BY <1>1, <1>3, <2>1, <3>1, <3>2 DEF TypeOK, Row
      <3>5. QED
        BY <3>1, <3>3, <3>4
    <2>4. QED
      BY <1>4, <2>1, <2>2, <2>3
  <1>13. CreatedOnce'
    <2>1. ASSUME NEW q \in Requests, Names(q, "create"), op[q].item \notin Reused, pc'[q] # "done",
                 NEW s \in shown', s[1] = op[q].item
          PROVE  FALSE
      <3>1. q # r /\ pc[q] # "done"
        BY <2>1, <1>1, <1>2, OthersUntouched
      <3>2. s \notin shown
        BY <2>1, <3>1 DEF CreatedOnce
      <3>3. PICK i \in Items : items'[i] # None /\ s = <<i, items'[i].version>>
        BY <2>1, <3>2, <1>4
      <3>4. items[i] = None
        <4>1. SUFFICES ASSUME items[i] # None PROVE FALSE
          OBVIOUS
        <4>2. <<i, items[i].version>> \in shown
          BY <4>1 DEF ShownIsKnown, Shows
        <4>3. QED
          BY <4>2, <2>1, <3>1, <3>3 DEF CreatedOnce
      <3>5. Names(r, "create") /\ op[r].item = op[q].item
        BY <1>1, <1>11, <2>1, <3>3, <3>4, Absences DEF Names
      <3>6. QED
        BY <2>1, <3>1, <3>5 DEF CreatedOnce
    <2>2. QED
      BY <1>1, <2>1 DEF CreatedOnce, Names
  <1>14. ReadStillHolds'
    <2>1. SUFFICES ASSUME NEW q \in Requests, pc'[q] = "write", op[q].kind = "progress",
                          op[q].item \notin Reused, items'[op[q].item] # None,
                          items'[op[q].item].version = op[q].expected
                   PROVE  op[q].packed <= items'[op[q].item].quantity
      BY <1>1 DEF ReadStillHolds, Matches
    <2> DEFINE i == op[q].item
    <2>2. q # r /\ pc[q] = "write" /\ op[q] \in Operations /\ i \in Items
      BY <2>1, <1>1, <1>2, OthersUntouched, OperationTypes DEF Carries
    <2>3. <<i, op[q].expected>> \in shown
      BY <2>1, <2>2, Absences DEF ShownIsKnown, Names
    <2>4. items[i] # None
      BY <2>1, <2>2, <2>3, <1>11
    <2>5. op[q].expected <= items[i].version /\ items[i].version \in Nat /\ op[q].expected \in Nat
      BY <2>1, <2>2, <2>3, <2>4, <1>1, OperationTypes DEF NewestShown, TypeOK, Row
    <2>6. CASE items'[i] = items[i]
      BY <2>1, <2>2, <2>6 DEF ReadStillHolds, Matches
    <2>7. CASE items'[i] # items[i]
      <3>1. Makes(op[r], items[i], items'[i])
        BY <2>1, <2>2, <2>7, CommittedRows
      <3>2. items'[i].version = items[i].version + 1
        BY <3>1, <2>2, <2>4, <1>1, MadeRows DEF TypeOK, Present
      <3>3. QED
        BY <2>1, <2>5, <3>2
    <2>8. QED
      BY <2>6, <2>7
  <1>15. UnlockedCheckSuffices'
    BY <1>1, <1>2, OthersUntouched DEF UnlockedCheckSuffices
  <1>16. QED
    BY <1>7, <1>8, <1>9, <1>10, <1>12, <1>13, <1>14, <1>15

-----------------------------------------------------------------------------
(***************************************************************************)
(* The theorems.                                                           *)
(***************************************************************************)

\* Every step keeps the invariant.
LEMMA NextPackingInv == PackingInv /\ [Next]_vars => PackingInv'
  <1> SUFFICES ASSUME PackingInv, [Next]_vars PROVE PackingInv'
    OBVIOUS
  <1>1. CASE UNCHANGED vars
    BY <1>1 DEF vars, PackingInv, TypeOK, Carries, Unwritten, Written, OneWriter, ShownIsKnown,
         Shows, Present, CreatedOnce, NewestShown, ReadStillHolds, Matches, Names,
         UnlockedCheckSuffices
  <1>2. ASSUME NEW r \in Requests, Begin(r) \/ Execute(r) \/ Victim(r) \/ Abort(r)
        PROVE  PackingInv'
    BY <1>2, BeginStep, ReadStep, InsertStep, UpdateRowStep, StaleWriteStep, DeleteRowStep,
       DropJourneyStep, CascadeRowStep, CascadedStep, TouchJourneyStep, CommitStep,
       VictimStep, AbortStep DEF Execute
  <1>3. QED
    BY <1>1, <1>2 DEF Next

\* The inductive invariant holds of every behaviour.
THEOREM PackingInvariant == Spec => []PackingInv
  BY InitPackingInv, NextPackingInv, PTL DEF Spec

\* Rows satisfy the constraints of their table and request-local values have
\* their types, whatever create_packing, update_packing and the others do.
THEOREM PackingTypeCorrect == Spec => []TypeOK
  <1>1. PackingInv => TypeOK
    BY DEF PackingInv
  <1>2. QED
    BY <1>1, PackingInvariant, PTL

\* update_packing_progress may compare with a row it has only read: its UPDATE
\* meets the check constraint only for an identifier that was used again.
THEOREM PackingCheckSuffices == Spec => []UnlockedCheckSuffices
  <1>1. PackingInv => UnlockedCheckSuffices
    BY DEF PackingInv
  <1>2. QED
    BY <1>1, PackingInvariant, PTL

\* Edits and progress of one item do not undo each other.
THEOREM PackingEditsKeepProgress == Spec => EditsKeepProgress
  <1>1. ASSUME PackingInv, [Next]_vars, NEW i \in Items,
               items[i] # None, items'[i] \notin {None, items[i]}
        PROVE  \E r \in Requests :
                  /\ pc[r] = "commit" /\ pc'[r] = "done" /\ op[r].item = i
                  /\ op[r].expected = items[i].version
                  /\ \/ /\ op[r].kind = "update"
                        /\ items'[i].quantity = op[r].quantity
                        /\ items'[i].packed = Least(items[i].packed, op[r].quantity)
                     \/ /\ op[r].kind = "progress"
                        /\ items'[i].quantity = items[i].quantity
                        /\ items'[i].packed = op[r].packed
    <2>1. PICK r \in Requests : Commit(r)
      BY <1>1 DEF Next, vars, Begin, Execute, Victim, Abort, Read, Insert, UpdateRow, StaleWrite,
           DeleteRow, DropJourney, CascadeRow, Cascaded, TouchJourney, Raise, Write, db
    <2>2. op[r].item = i /\ Makes(op[r], items[i], items'[i]) /\ pc[r] = "commit"
      BY <1>1, <2>1, CommittedRows DEF Commit
    <2>3. pc'[r] = "done"
      BY <1>1, <2>1, Ended DEF Commit, PackingInv
    <2>4. items[i] \in Row
      BY <1>1 DEF PackingInv, TypeOK
    <2>5. op[r].expected = items[i].version
      BY <1>1, <2>2 DEF Makes
    <2>6. CASE op[r].kind = "update" /\ items'[i] = Edited(items[i], op[r])
      BY <2>2, <2>3, <2>4, <2>5, <2>6 DEF Edited, Row
    <2>7. CASE op[r].kind = "progress" /\ items'[i] = Progressed(items[i], op[r])
      BY <2>2, <2>3, <2>4, <2>5, <2>7 DEF Progressed, Row
    <2>8. QED
      BY <1>1, <2>2, <2>6, <2>7 DEF Makes
  <1>2. PackingInv /\ [Next]_vars =>
           [\A i \in Items :
               (items[i] # None /\ items'[i] \notin {None, items[i]}) =>
                  \E r \in Requests :
                     /\ pc[r] = "commit" /\ pc'[r] = "done" /\ op[r].item = i
                     /\ op[r].expected = items[i].version
                     /\ \/ /\ op[r].kind = "update"
                           /\ items'[i].quantity = op[r].quantity
                           /\ items'[i].packed = Least(items[i].packed, op[r].quantity)
                        \/ /\ op[r].kind = "progress"
                           /\ items'[i].quantity = items[i].quantity
                           /\ items'[i].packed = op[r].packed]_vars
    BY <1>1
  <1>3. QED
    BY <1>2, PackingInvariant, PTL DEF Spec, EditsKeepProgress

\* A circle of waits contains a delete_journey: a request that has written
\* nothing blocks nobody, and one that waits for the Journey waits for a
\* request that only has to commit.
THEOREM PackingOnlyDropsDeadlock == Spec => []OnlyDropsDeadlock
  <1>1. ASSUME PackingInv, NEW S \in SUBSET Requests, Circle(S),
               \A r \in S : op[r].kind # "delete_journey"
        PROVE  FALSE
    <2>1. PICK r \in S : Blockers(r) \cap S # {}
      BY <1>1 DEF Circle
    <2>2. ASSUME NEW q \in S PROVE pc[q] \in {"insert", "write", "touch"}
      <3>1. Blockers(q) # {}
        BY <1>1 DEF Circle
      <3>2. pc[q] \notin {"drop", "cascade"}
        BY <1>1 DEF PackingInv, Carries
      <3>3. QED
        BY <3>1, <3>2, BlockersAre
    <2>3. ASSUME NEW q \in S PROVE touch[q] = Keep
      BY <1>1, <2>2 DEF PackingInv, Carries, Unwritten
    <2>4. ASSUME NEW q \in S PROVE pc[q] # "touch"
      <3>1. SUFFICES ASSUME pc[q] = "touch" PROVE FALSE
        OBVIOUS
      <3>2. q \in Requests /\ Blockers(q) = JourneyWriters(q)
        BY <1>1, <3>1, BlockersAre
      <3>3. PICK p \in S : p \in JourneyWriters(q)
        BY <1>1, <3>2 DEF Circle
      <3>4. QED
        BY <2>3, <3>3 DEF JourneyWriters
    <2>5. ASSUME NEW q \in S PROVE Unwritten(q) /\ op[q].item \in Items
      BY <1>1, <2>2, <2>4, OperationTypes DEF PackingInv, Carries
    <2>6. ASSUME NEW q \in S, NEW p \in S PROVE p \notin Blockers(q)
      BY <2>2, <2>3, <2>4, <2>5, BlockersAre, Absences
         DEF RowWriters, JourneyDroppers, Unwritten, NoDraft
    <2>7. QED
      BY <2>1, <2>6
  <1>2. PackingInv => OnlyDropsDeadlock
    BY <1>1 DEF OnlyDropsDeadlock
  <1>3. QED
    BY <1>2, PackingInvariant, PTL
=============================================================================
