--------------------------- MODULE TimelineProofs ---------------------------
(***************************************************************************)
(* The inductive invariant of Timeline and what follows from it, for any   *)
(* finite set of segments and any number of requests.                      *)
(*                                                                         *)
(* A row only changes by what its writer found, because the writer holds it*)
(* from its statement to its commit; a Journey that is being deleted gains *)
(* no segment, because an INSERT holds the Journey against deletion until  *)
(* it commits; and a request that finds no Journey to touch has written    *)
(* nothing, because the segments have gone with the Journey.               *)
(***************************************************************************)
EXTENDS Timeline, FiniteSetTheorems, SequenceTheorems, TLAPS

-----------------------------------------------------------------------------
(***************************************************************************)
(* The inductive invariant.                                                *)
(***************************************************************************)

\* The types that the argument needs; `ids' may list anything.
Types ==
    /\ journey \in Nat \cup {None}
    /\ segs \in [Segments -> Row \cup {None}]
    /\ op \in [Requests -> Operations \cup {None}]
    /\ next \in [Requests -> Nat]
    /\ todo \in [Requests -> SUBSET Segments]
    /\ draft \in [Requests -> [Segments -> Row \cup {None, Keep}]]
    /\ touch \in [Requests -> Nat \cup {None, Keep}]
    /\ pc \in [Requests -> {"new", "read", "insert", "update", "list", "park", "parking",
                            "renumber", "delete", "drop", "cascade", "touch", "commit",
                            "done", "failed"}]
    /\ reply \in [Requests -> {"pending", "ok", "version_conflict", "resource_not_found",
                               "position_invalid"}]

\* What a request carries at each position.
Carries(r) ==
    /\ pc[r] # "new" => op[r] \in Operations
    /\ pc[r] \in {"new", "read", "insert", "update", "park", "delete", "drop", "done", "failed"} =>
          draft[r] = NoDraft
    /\ pc[r] = "list" /\ op[r].kind = "reorder" => draft[r] = NoDraft
    /\ pc[r] \notin {"cascade", "commit"} => touch[r] = Keep
    /\ pc[r] = "cascade" => touch[r] = None
    /\ pc[r] = "insert" => op[r].kind = "create"
    /\ pc[r] = "update" => op[r].kind = "update"
    /\ pc[r] \in {"list", "renumber"} => op[r].kind \in {"reorder", "delete"}
    /\ pc[r] \in {"park", "parking"} => op[r].kind = "reorder"
    /\ pc[r] = "delete" => op[r].kind = "delete"
    /\ pc[r] \in {"drop", "cascade"} => op[r].kind = "delete_journey"
    /\ pc[r] \in {"read", "touch"} => op[r].kind # "delete_journey"

\* What an operation may make of the row that it finds.
Makes(r, s, old, new) ==
    \/ op[r].kind = "create" /\ op[r].seg = s /\ old = None
    \/ op[r].kind \in {"delete", "delete_journey"} /\ old # None /\ new = None
    \/ /\ op[r].kind = "update" /\ op[r].seg = s
       /\ old # None /\ old.version = op[r].expected /\ new.content = r
    \/ op[r].kind \in {"reorder", "delete"} /\ old # None /\ new.content = old.content

\* A row that a transaction has written was made from the committed one, which
\* is still there; an INSERT holds the foreign key from then on.
Written(r) ==
    \A s \in Segments :
        draft[r][s] # Keep =>
            /\ Makes(r, s, segs[s], draft[r][s])
            /\ op[r].kind = "create" => pc[r] \in {"touch", "commit"}

\* What a transaction has made of the Journey row was made from the committed
\* one; when it found none, it has nothing to commit.
Touching(r) ==
    /\ touch[r] # Keep => journey # None /\ touch[r] \in {None, journey + 1}
    /\ pc[r] = "commit" /\ touch[r] = Keep => draft[r] = NoDraft

\* The segments that delete_journey has yet to visit are all that remain.
Cascading(r) ==
    touch[r] = None =>
        /\ op[r].kind = "delete_journey"
        /\ pc[r] = "commit" => todo[r] = {}
        /\ \A s \in Segments \ todo[r] : segs[s] = None \/ draft[r][s] = None

\* A row and the Journey have one writer at a time, and an INSERT keeps the
\* Journey from being deleted.
OneWriter ==
    \A s \in Segments, q, r \in Requests : draft[q][s] # Keep /\ draft[r][s] # Keep => q = r

OneToucher == \A q, r \in Requests : touch[q] # Keep /\ touch[r] # Keep => q = r

KeyHolds ==
    \A r \in Requests :
        ForeignKeyHeld(r) => journey # None /\ \A q \in Requests : touch[q] # None

TimelineInv ==
    /\ Types
    /\ \A r \in Requests : Carries(r) /\ Written(r) /\ Touching(r) /\ Cascading(r)
    /\ OneWriter
    /\ OneToucher
    /\ KeyHolds
    /\ NoOrphans

-----------------------------------------------------------------------------
(***************************************************************************)
(* Maxima.                                                                 *)
(***************************************************************************)

\* A finite set of numbers that is not empty has a largest one: a smallest set
\* without one would lose that property with any of its elements.
LEMMA FiniteMaximum ==
    ASSUME NEW S \in SUBSET Nat, IsFiniteSet(S), S # {}
    PROVE  \E m \in S : \A n \in S : m >= n
  <1> DEFINE HasMax(T) == \E m \in T : \A n \in T : m >= n
             Bad == {T \in FiniteSubsetsOf(Nat) : T # {} /\ ~HasMax(T)}
  <1>1. SUFFICES ASSUME Bad # {} PROVE FALSE
    BY DEF FiniteSubsetsOf
  <1>2. PICK T \in Bad : \A U \in Bad : <<U, T>> \notin StrictSubsetOrdering(Nat)
    <2>1. Bad \subseteq FiniteSubsetsOf(Nat)
      OBVIOUS
    <2>2. IsWellFoundedOn(StrictSubsetOrdering(Nat), FiniteSubsetsOf(Nat))
      BY FS_StrictSubsetOrderingWellFounded
    <2> HIDE DEF Bad
    <2>3. QED
      BY <1>1, <2>1, <2>2, WFMin
  <1>3. T \subseteq Nat /\ IsFiniteSet(T) /\ T # {} /\ ~HasMax(T)
    BY <1>2 DEF FiniteSubsetsOf
  <1>4. PICK x \in T : TRUE
    BY <1>3
  <1> DEFINE U == T \ {x}
  <1>5. IsFiniteSet(U) /\ U \subseteq Nat /\ U # T
    BY <1>3, <1>4, FS_RemoveElement
  <1>6. U \notin Bad
    BY <1>2, <1>3, <1>5 DEF StrictSubsetOrdering
  <1>7. CASE U = {}
    BY <1>3, <1>4, <1>7
  <1>8. CASE HasMax(U)
    <2>1. PICK m \in U : \A n \in U : m >= n
      BY <1>8
    <2>2. CASE x <= m
      BY <1>3, <1>4, <2>1, <2>2
    <2>3. CASE ~(x <= m)
      BY <1>3, <1>4, <2>1, <2>3
    <2>4. QED
      BY <2>2, <2>3
  <1>9. QED
    BY <1>5, <1>6, <1>7, <1>8 DEF FiniteSubsetsOf

-----------------------------------------------------------------------------
(***************************************************************************)
(* Types.                                                                  *)
(***************************************************************************)

\* The marks are neither rows, versions nor operations, nor each other.
LEMMA Absences ==
    /\ None \notin Row /\ None \notin Nat /\ None \notin Operations
    /\ Keep \notin Row /\ Keep \notin Nat /\ Keep # None
  BY AbsenceAssumption, MarksAssumption

\* The parts of what a request asks for have their types.
LEMMA OperationTypes ==
    \A o \in Operations :
        /\ o.kind \in {"create", "update", "reorder", "delete", "delete_journey"}
        /\ o.kind # "delete_journey" => o.seg \in Segments
  BY DEF Operations

\* The server starts in the invariant: no transaction is open.
LEMMA InitTimelineInv == Init => TimelineInv
  <1> SUFFICES ASSUME Init PROVE TimelineInv
    OBVIOUS
  <1>1. segs \in [Segments -> Row \cup {None}]
    <2>1. PICK S \in SUBSET Segments : \E order \in [S -> 0 .. Cardinality(S) - 1] :
             segs = [s \in Segments |->
                        IF s \in S THEN [pos |-> order[s], version |-> 1, content |-> None]
                        ELSE None]
      BY DEF Init
    <2>2. Cardinality(S) \in Nat
      BY SegmentsAssumption, FS_Subset, FS_CardinalityType
    <2>3. \A order \in [S -> 0 .. Cardinality(S) - 1] : \A s \in S : order[s] \in Nat
      BY <2>2
    <2>4. QED
      BY <2>1, <2>3 DEF Row
  <1>2. Types
    BY <1>1 DEF Init, Types, NoDraft
  <1>3. \A r \in Requests : Carries(r) /\ Written(r) /\ Touching(r) /\ Cascading(r)
    BY Absences DEF Init, Carries, Written, Touching, Cascading, NoDraft
  <1>4. OneWriter /\ OneToucher /\ KeyHolds
    BY DEF Init, OneWriter, OneToucher, KeyHolds, ForeignKeyHeld, NoDraft
  <1>5. NoOrphans
    BY Absences DEF Init, NoOrphans
  <1>6. QED
    BY <1>2, <1>3, <1>4, <1>5 DEF TimelineInv

-----------------------------------------------------------------------------
(***************************************************************************)
(* Steps that write no committed state.                                    *)
(***************************************************************************)

\* The step changes the local state of r, and of no other request.
OnlyLocal(r) ==
    /\ pc' = [pc EXCEPT ![r] = pc'[r]]
    /\ op' = [op EXCEPT ![r] = op'[r]]
    /\ next' = [next EXCEPT ![r] = next'[r]]
    /\ todo' = [todo EXCEPT ![r] = todo'[r]]
    /\ draft' = [draft EXCEPT ![r] = draft'[r]]
    /\ touch' = [touch EXCEPT ![r] = touch'[r]]
    /\ reply' = [reply EXCEPT ![r] = reply'[r]]

LocalTypes(r) ==
    /\ op'[r] \in Operations \cup {None}
    /\ next'[r] \in Nat
    /\ todo'[r] \in SUBSET Segments
    /\ draft'[r] \in [Segments -> Row \cup {None, Keep}]
    /\ touch'[r] \in Nat \cup {None, Keep}
    /\ pc'[r] \in {"new", "read", "insert", "update", "list", "park", "parking",
                   "renumber", "delete", "drop", "cascade", "touch", "commit",
                   "done", "failed"}
    /\ reply'[r] \in {"pending", "ok", "version_conflict", "resource_not_found",
                      "position_invalid"}

\* A step of one request leaves the locals of the others alone.
LEMMA OthersUntouched ==
    ASSUME Types, NEW r \in Requests, OnlyLocal(r), NEW q \in Requests, q # r
    PROVE  /\ pc'[q] = pc[q] /\ op'[q] = op[q] /\ todo'[q] = todo[q]
           /\ draft'[q] = draft[q] /\ touch'[q] = touch[q] /\ reply'[q] = reply[q]
  BY DEF OnlyLocal, Types

\* A step that writes only its request's locals keeps the invariant, if what the
\* request now carries is right and what it has locked was free.
LEMMA LocalStep ==
    ASSUME TimelineInv, NEW r \in Requests, OnlyLocal(r), LocalTypes(r), UNCHANGED db,
           Carries(r)', Written(r)', Touching(r)', Cascading(r)',
           \A s \in Segments : draft'[r][s] # Keep => draft[r][s] # Keep \/ RowFree(r, s),
           touch'[r] # Keep => touch[r] # Keep \/ JourneyFree(r),
           touch'[r] = None =>
               touch[r] = None \/ \A q \in Requests \ {r} : ~ForeignKeyHeld(q),
           ForeignKeyHeld(r)' =>
               ForeignKeyHeld(r) \/ (journey # None /\ \A q \in Requests \ {r} : touch[q] # None)
    PROVE  TimelineInv'
  <1> USE DEF TimelineInv
  <1>1. journey' = journey /\ segs' = segs
    BY DEF db
  <1>2. Types'
    BY <1>1 DEF Types, OnlyLocal, LocalTypes
  <1>3. ASSUME NEW q \in Requests
        PROVE  Carries(q)' /\ Written(q)' /\ Touching(q)' /\ Cascading(q)'
    <2>1. CASE q = r
      BY <2>1
    <2>2. CASE q # r
      BY <2>2, <1>1, OthersUntouched DEF Carries, Written, Makes, Touching, Cascading
    <2>3. QED
      BY <2>1, <2>2
  <1>4. OneWriter'
    BY OthersUntouched DEF OneWriter, RowFree
  <1>5. OneToucher'
    BY OthersUntouched DEF OneToucher, JourneyFree
  <1>6. KeyHolds'
    <2>1. SUFFICES ASSUME NEW q \in Requests, ForeignKeyHeld(q)'
                   PROVE  journey # None /\ \A p \in Requests : touch'[p] # None
      BY <1>1 DEF KeyHolds
    <2>2. CASE q = r
      <3>1. op'[r].kind = "create"
        BY <2>1, <2>2 DEF ForeignKeyHeld
      <3>2. touch'[r] # None
        BY <3>1 DEF Cascading
      <3>3. QED
        BY <2>1, <2>2, <3>2, OthersUntouched DEF KeyHolds
    <2>3. CASE q # r
      <3>1. ForeignKeyHeld(q)
        BY <2>1, <2>3, OthersUntouched DEF ForeignKeyHeld
      <3>2. QED
        BY <2>3, <3>1, OthersUntouched DEF KeyHolds
    <2>4. QED
      BY <2>2, <2>3
  <1>7. NoOrphans'
    BY <1>1 DEF NoOrphans
  <1>8. QED
    BY <1>2, <1>3, <1>4, <1>5, <1>6, <1>7

\* The end of a transaction leaves its request with nothing.
LEMMA Closed ==
    ASSUME Types, NEW r \in Requests, NEW where \in {"done", "failed"},
           NEW answer \in {"pending", "ok", "version_conflict", "resource_not_found",
                           "position_invalid"},
           Close(r, where, answer), op' = op
    PROVE  /\ OnlyLocal(r) /\ LocalTypes(r)
           /\ pc'[r] = where /\ op'[r] = op[r] /\ draft'[r] = NoDraft
           /\ touch'[r] = Keep /\ todo'[r] = {} /\ reply'[r] = answer
  BY DEF OnlyLocal, LocalTypes, Types, Close, Goto, NoDraft

\* A transaction is rolled back.
LEMMA CloseStep ==
    ASSUME TimelineInv, NEW r \in Requests, Open(r), NEW where \in {"done", "failed"},
           NEW answer \in {"pending", "ok", "version_conflict", "resource_not_found",
                           "position_invalid"},
           Close(r, where, answer), UNCHANGED <<db, op>>
    PROVE  TimelineInv'
  <1>1. Types /\ Carries(r) /\ pc[r] # "new"
    BY DEF TimelineInv, Open
  <1>2. /\ OnlyLocal(r) /\ LocalTypes(r)
        /\ pc'[r] = where /\ op'[r] = op[r] /\ draft'[r] = NoDraft
        /\ touch'[r] = Keep /\ todo'[r] = {}
    BY <1>1, Closed
  <1>3. Carries(r)' /\ Written(r)' /\ Touching(r)' /\ Cascading(r)' /\ ~ForeignKeyHeld(r)'
    BY <1>1, <1>2, Absences
       DEF Carries, Written, Touching, Cascading, NoDraft, ForeignKeyHeld
  <1>4. \A s \in Segments : draft'[r][s] = Keep
    BY <1>2 DEF NoDraft
  <1>5. QED
    BY <1>2, <1>3, <1>4, LocalStep, Absences

\* An ApplicationError rolls the transaction back and is answered.
LEMMA RaiseStep ==
    ASSUME TimelineInv, NEW r \in Requests, Open(r),
           NEW code \in {"version_conflict", "resource_not_found", "position_invalid"},
           Raise(r, code)
    PROVE  TimelineInv'
  BY CloseStep DEF Raise

\* Any other exception rolls it back as well.
LEMMA FailStep ==
    ASSUME TimelineInv, NEW r \in Requests, Open(r), Fail(r) PROVE TimelineInv'
  BY CloseStep DEF Fail

\* A request that has written nothing goes on to its next statement.
LEMMA AdvanceStep ==
    ASSUME TimelineInv, NEW r \in Requests, Open(r), draft[r] = NoDraft, touch[r] = Keep,
           NEW where \in {"insert", "update", "list", "park", "parking", "delete"},
           Goto(r, where), UNCHANGED <<db, op, draft, touch, reply>>,
           OnlyLocal(r), LocalTypes(r), Carries(r)'
    PROVE  TimelineInv'
  <1>1. Types /\ Carries(r)
    BY DEF TimelineInv
  <1>2. draft'[r] = NoDraft /\ touch'[r] = Keep /\ pc'[r] = where
    BY <1>1 DEF Goto, Types
  <1>3. Written(r)' /\ Touching(r)' /\ Cascading(r)' /\ ~ForeignKeyHeld(r)'
    BY <1>2, Absences DEF Written, Touching, Cascading, NoDraft, ForeignKeyHeld
  <1>4. \A s \in Segments : draft'[r][s] = Keep
    BY <1>2 DEF NoDraft
  <1>5. QED
    BY <1>2, <1>3, <1>4, LocalStep, Absences

\* What SELECT coalesce(max(position), -1) + 1 returns.
LEMMA LargestPosition ==
    ASSUME Types
    PROVE  LET used == {segs[s].pos + 1 : s \in {t \in Segments : segs[t] # None}} \cup {0}
           IN  Max(used) \in Nat /\ Max(used) \in used /\ \A n \in used : Max(used) >= n
  <1> DEFINE used == {segs[s].pos + 1 : s \in {t \in Segments : segs[t] # None}} \cup {0}
  <1>1. used \in SUBSET Nat
    BY DEF Types, Row
  <1>2. IsFiniteSet(used)
    <2> DEFINE S == {t \in Segments : segs[t] # None}
               f == [s \in S |-> segs[s].pos + 1]
    <2>1. IsFiniteSet(S)
      BY SegmentsAssumption, FS_Subset
    <2>2. f \in Surjection(S, {segs[s].pos + 1 : s \in S})
      BY DEF Surjection
    <2>3. IsFiniteSet({segs[s].pos + 1 : s \in S})
      BY <2>1, <2>2, FS_Surjection
    <2>4. QED
      BY <2>3, FS_AddElement
  <1>3. used # {}
    OBVIOUS
  <1> HIDE DEF used
  <1>4. Max(used) \in used /\ \A n \in used : Max(used) >= n
    BY <1>1, <1>2, <1>3, FiniteMaximum DEF Max
  <1>5. QED
    BY <1>1, <1>4 DEF used

\* The reads before the first write.
LEMMA ReadSteps ==
    ASSUME TimelineInv, NEW r \in Requests,
           \/ OwnedForUpdate(r) \/ OwnedForReorder(r) \/ OwnedForDelete(r) \/ Park(r) \/ ReadMax(r)
    PROVE  TimelineInv'
  <1>1. Types /\ Carries(r)
    BY DEF TimelineInv
  <1>2. /\ pc[r] \in {"read", "park"} /\ Open(r)
        /\ UNCHANGED <<db, op, draft, touch, reply>>
    BY DEF OwnedForUpdate, OwnedForReorder, OwnedForDelete, Park, ReadMax, Reading, Open
  <1>3. draft[r] = NoDraft /\ touch[r] = Keep /\ op[r] \in Operations
    BY <1>1, <1>2 DEF Carries
  <1>4. CASE OwnedForUpdate(r) \/ OwnedForReorder(r) \/ OwnedForDelete(r) \/ Park(r)
    <2>1. PICK where \in {"update", "list", "delete", "parking"} :
             /\ Goto(r, where)
             /\ where = "update" => op[r].kind = "update"
             /\ where \in {"list", "parking"} => op[r].kind = "reorder"
             /\ where = "delete" => op[r].kind = "delete"
      BY <1>1, <1>4 DEF OwnedForUpdate, OwnedForReorder, OwnedForDelete, Park, Reading, Carries
    <2>2. next' = next /\ todo'[r] \in SUBSET Segments /\ todo' = [todo EXCEPT ![r] = todo'[r]]
      BY <1>1, <1>4 DEF Types, OwnedForUpdate, OwnedForReorder, OwnedForDelete, Park
    <2>3. OnlyLocal(r) /\ LocalTypes(r) /\ pc'[r] = where
      BY <1>1, <1>2, <2>1, <2>2 DEF OnlyLocal, LocalTypes, Types, Goto
    <2>4. Carries(r)'
      <3>1. draft'[r] = NoDraft /\ op'[r] = op[r] /\ touch'[r] = Keep
        BY <1>2, <1>3
      <3>2. QED
        BY <1>1, <1>3, <2>1, <2>3, <3>1 DEF Carries
    <2>5. QED
      BY <1>2, <1>3, <2>1, <2>3, <2>4, AdvanceStep
  <1>5. CASE ReadMax(r)
    <2> DEFINE used == {segs[s].pos + 1 : s \in {t \in Segments : segs[t] # None}} \cup {0}
    <2>1. Max(used) \in Nat
      BY <1>1, LargestPosition
    <2>2. next' = [next EXCEPT ![r] = Max(used)] /\ todo' = todo /\ Goto(r, "insert")
      BY <1>5 DEF ReadMax
    <2>3. OnlyLocal(r) /\ LocalTypes(r) /\ pc'[r] = "insert"
      BY <1>1, <1>2, <2>1, <2>2 DEF OnlyLocal, LocalTypes, Types, Goto
    <2>4. Carries(r)'
      BY <1>1, <1>2, <1>3, <1>5, <2>3 DEF Carries, ReadMax, Reading
    <2>5. QED
      BY <1>2, <1>3, <2>2, <2>3, <2>4, AdvanceStep
  <1>6. QED
    BY <1>4, <1>5

-----------------------------------------------------------------------------
(***************************************************************************)
(* The writes.                                                             *)
(***************************************************************************)

\* A statement writes a row that no other transaction has written, and makes of
\* it what the operation may.
LEMMA DraftStep ==
    ASSUME TimelineInv, NEW r \in Requests, Open(r), NEW s, NEW row,
           Draft(r, s, row), RowFree(r, s), s \in Segments => Makes(r, s, segs[s], row),
           s \in Segments => row \in Row \cup {None},
           UNCHANGED <<db, op, touch, reply>>,
           OnlyLocal(r), next'[r] \in Nat, todo'[r] \in SUBSET Segments,
           pc'[r] \in {"list", "parking", "renumber", "cascade", "touch"},
           op[r].kind = "create" => pc'[r] = "touch",
           touch[r] = None => todo'[r] = todo[r] \ {s} /\ row = None,
           op[r].kind = "create" => journey # None /\ \A q \in Requests \ {r} : touch[q] # None,
           Carries(r)'
    PROVE  TimelineInv'
  <1>1. Types /\ Written(r) /\ Cascading(r) /\ Touching(r)
    BY DEF TimelineInv
  <1>2. /\ pc[r] \in {"read", "insert", "update", "list", "park", "parking", "renumber",
                      "delete", "drop", "cascade", "touch", "commit"}
        /\ op'[r] = op[r] /\ touch'[r] = touch[r] /\ reply'[r] = reply[r]
        /\ journey' = journey /\ segs' = segs
    BY <1>1 DEF Types, Open, db
  <1>3. \A t \in Segments : draft'[r][t] = IF t = s THEN row ELSE draft[r][t]
    BY <1>1 DEF Draft, Types
  <1>4. draft'[r] \in [Segments -> Row \cup {None, Keep}]
    BY <1>1 DEF Draft, Types
  <1>5. LocalTypes(r)
    BY <1>1, <1>2, <1>4 DEF LocalTypes, Types
  <1>6. Written(r)'
    BY <1>1, <1>2, <1>3 DEF Written, Makes
  <1>7. Touching(r)'
    BY <1>1, <1>2 DEF Touching
  <1>8. Cascading(r)'
    BY <1>1, <1>2, <1>3 DEF Cascading
  <1>9. \A t \in Segments : draft'[r][t] # Keep => draft[r][t] # Keep \/ RowFree(r, t)
    BY <1>3
  <1>10. ForeignKeyHeld(r)' => journey # None /\ \A q \in Requests \ {r} : touch[q] # None
    BY <1>2 DEF ForeignKeyHeld
  <1>11. QED
    BY <1>2, <1>5, <1>6, <1>7, <1>8, <1>9, <1>10, LocalStep

\* A request goes on without writing a row.
LEMMA GoOnStep ==
    ASSUME TimelineInv, NEW r \in Requests, Open(r),
           UNCHANGED <<db, op, draft, touch, reply>>,
           OnlyLocal(r), next'[r] \in Nat, todo'[r] \in SUBSET Segments,
           pc'[r] \in {"list", "park", "parking", "renumber", "cascade", "touch"},
           op[r].kind # "create",
           touch[r] = None =>
               \A s \in todo[r] \ todo'[r] : segs[s] = None \/ draft[r][s] = None,
           Carries(r)'
    PROVE  TimelineInv'
  <1>1. Types /\ Written(r) /\ Cascading(r) /\ Touching(r)
    BY DEF TimelineInv
  <1>2. /\ op'[r] = op[r] /\ touch'[r] = touch[r] /\ reply'[r] = reply[r] /\ draft'[r] = draft[r]
        /\ journey' = journey /\ segs' = segs
    BY <1>1 DEF Types, db
  <1>3. LocalTypes(r)
    BY <1>1, <1>2 DEF LocalTypes, Types
  <1>4. Written(r)' /\ Touching(r)' /\ Cascading(r)'
    BY <1>1, <1>2 DEF Written, Makes, Touching, Cascading
  <1>5. ~ForeignKeyHeld(r)'
    BY <1>2 DEF ForeignKeyHeld
  <1>6. QED
    BY <1>2, <1>3, <1>4, <1>5, LocalStep

\* The statement or the lookup is refused.
LEMMA RefusalSteps ==
    ASSUME TimelineInv, NEW r \in Requests,
           NotFound(r) \/ StaleUpdate(r) \/ StaleReorder(r) \/ LostReorder(r) \/ Abort(r)
    PROVE  TimelineInv'
  BY RaiseStep, FailStep
     DEF NotFound, StaleUpdate, StaleReorder, LostReorder, Abort, Reading, Open

\* A request arrives.
LEMMA BeginStep ==
    ASSUME TimelineInv, NEW r \in Requests, Begin(r) PROVE TimelineInv'
  <1>1. Types /\ Carries(r) /\ pc[r] = "new" /\ draft[r] = NoDraft /\ touch[r] = Keep
    BY DEF TimelineInv, Begin, Carries
  <1>2. PICK o \in Operations :
           /\ op' = [op EXCEPT ![r] = o]
           /\ Goto(r, IF o.kind = "delete_journey" THEN "drop" ELSE "read")
    BY DEF Begin
  <1>3. /\ op'[r] = o /\ pc'[r] = IF o.kind = "delete_journey" THEN "drop" ELSE "read"
        /\ draft'[r] = NoDraft /\ touch'[r] = Keep
        /\ OnlyLocal(r) /\ LocalTypes(r) /\ UNCHANGED db
    BY <1>1, <1>2 DEF Begin, Types, Goto, OnlyLocal, LocalTypes
  <1>4. \A s \in Segments : draft'[r][s] = Keep
    BY <1>3 DEF NoDraft
  <1>5. Carries(r)'
    BY <1>3 DEF Carries
  <1>6. Written(r)' /\ Touching(r)' /\ Cascading(r)' /\ ~ForeignKeyHeld(r)'
    BY <1>3, <1>4, Absences DEF Written, Touching, Cascading, ForeignKeyHeld
  <1>7. QED
    BY <1>3, <1>4, <1>5, <1>6, LocalStep, Absences

\* create_segment.
LEMMA InsertStep ==
    ASSUME TimelineInv, NEW r \in Requests, Insert(r) PROVE TimelineInv'
  <1>1. /\ Types /\ Carries(r) /\ pc[r] = "insert" /\ Open(r) /\ op[r] \in Operations
        /\ op[r].kind = "create" /\ touch[r] = Keep
    BY DEF TimelineInv, Insert, Carries, Open
  <1>2. CASE Fail(r)
    BY <1>1, <1>2, FailStep
  <1>3. CASE ~Fail(r)
    <2> DEFINE s == op[r].seg
               row == [pos |-> next[r], version |-> 1, content |-> r]
    <2>1. /\ segs[s] = None /\ journey # None /\ Draft(r, s, row) /\ Goto(r, "touch")
          /\ RowFree(r, s) /\ \A q \in Requests \ {r} : touch[q] # None
          /\ UNCHANGED <<db, op, next, todo, touch, reply>>
      BY <1>3 DEF Insert
    <2>2. row \in Row
      BY <1>1 DEF Types, Row
    <2>3. OnlyLocal(r) /\ pc'[r] = "touch" /\ next'[r] \in Nat /\ todo'[r] \in SUBSET Segments
      BY <1>1, <2>1 DEF OnlyLocal, Types, Goto, Draft
    <2>4. Makes(r, s, segs[s], row)
      BY <1>1, <2>1 DEF Makes
    <2>5. Carries(r)'
      BY <1>1, <2>1, <2>3 DEF Carries
    <2> HIDE DEF row
    <2>6. QED
      BY <1>1, <2>1, <2>2, <2>3, <2>4, <2>5, DraftStep, Absences
  <1>4. QED
    BY <1>2, <1>3

\* update_segment.
LEMMA EditedRow ==
    ASSUME NEW row \in Row, NEW r \in Requests
    PROVE  [row EXCEPT !.version = @ + 1, !.content = r] =
               [pos |-> row.pos, version |-> row.version + 1, content |-> r]
  <1> DEFINE up == [row EXCEPT !.version = @ + 1]
  <1>1. up = [pos |-> row.pos, version |-> row.version + 1, content |-> row.content]
    BY DEF Row
  <1>2. [row EXCEPT !.version = @ + 1, !.content = r] = [up EXCEPT !.content = r]
    OBVIOUS
  <1> HIDE DEF up
  <1>3. [up EXCEPT !.content = r] = [pos |-> row.pos, version |-> row.version + 1, content |-> r]
    BY <1>1
  <1>4. QED
    BY <1>2, <1>3

\* update_segment writes the row whose version it has compared.
LEMMA UpdateSegmentStep ==
    ASSUME TimelineInv, NEW r \in Requests, UpdateSegment(r) PROVE TimelineInv'
  <1> DEFINE s == op[r].seg
             row == [segs[s] EXCEPT !.version = @ + 1, !.content = r]
  <1>1. /\ Types /\ Carries(r) /\ pc[r] = "update" /\ Open(r) /\ op[r] \in Operations
        /\ op[r].kind = "update" /\ touch[r] = Keep /\ s \in Segments
    BY OperationTypes DEF TimelineInv, UpdateSegment, Carries, Open
  <1>2. /\ segs[s] # None /\ segs[s].version = op[r].expected
        /\ Draft(r, s, row) /\ Goto(r, "touch") /\ RowFree(r, s)
        /\ UNCHANGED <<db, op, next, todo, touch, reply>>
    BY DEF UpdateSegment, Matches
  <1>3. row \in Row /\ row.content = r
    <2>1. segs[s] \in Row
      BY <1>1, <1>2 DEF Types
    <2>2. row = [pos |-> segs[s].pos, version |-> segs[s].version + 1, content |-> r]
      BY <2>1, EditedRow
    <2>3. QED
      BY <2>1, <2>2 DEF Row
  <1>4. OnlyLocal(r) /\ pc'[r] = "touch" /\ next'[r] \in Nat /\ todo'[r] \in SUBSET Segments
    BY <1>1, <1>2 DEF OnlyLocal, Types, Goto, Draft
  <1>5. Makes(r, s, segs[s], row)
    BY <1>1, <1>2, <1>3 DEF Makes
  <1>6. Carries(r)'
    BY <1>1, <1>2, <1>4 DEF Carries
  <1> HIDE DEF row
  <1>7. QED
    BY <1>1, <1>2, <1>3, <1>4, <1>5, <1>6, DraftStep, Absences

\* reorder_segment and _compact_segments.
LEMMA ListSteps ==
    ASSUME TimelineInv, NEW r \in Requests,
           ListForReorder(r) \/ ListForCompaction(r) \/ Parked(r) \/ Renumbered(r)
    PROVE  TimelineInv'
  <1>1. /\ Types /\ Carries(r) /\ pc[r] \in {"list", "parking", "renumber"} /\ Open(r)
        /\ op[r] \in Operations /\ op[r].kind \in {"reorder", "delete"} /\ touch[r] = Keep
    BY DEF TimelineInv, ListForReorder, ListForCompaction, Parked, Renumbered, Carries, Open
  <1>2. CASE Raise(r, "position_invalid") \/ Fail(r)
    BY <1>1, <1>2, RaiseStep, FailStep
  <1>3. CASE ~(Raise(r, "position_invalid") \/ Fail(r))
    <2>1. PICK where \in {"park", "renumber", "touch"} :
             /\ Goto(r, where)
             /\ where = "park" => op[r].kind = "reorder" /\ draft[r] = NoDraft
             /\ UNCHANGED <<db, op, next, todo, draft, touch, reply>>
      BY <1>1, <1>3 DEF ListForReorder, ListForCompaction, Parked, Renumbered, Carries
    <2>2. OnlyLocal(r) /\ pc'[r] = where /\ next'[r] \in Nat /\ todo'[r] \in SUBSET Segments
      BY <1>1, <2>1 DEF OnlyLocal, Types, Goto
    <2>3. Carries(r)'
      BY <1>1, <2>1, <2>2 DEF Carries
    <2>4. QED
      BY <1>1, <2>1, <2>2, <2>3, GoOnStep, Absences
  <1>4. QED
    BY <1>2, <1>3

\* reorder_segment parks a row, or passes over one that has gone.
LEMMA ParkRowStep ==
    ASSUME TimelineInv, NEW r \in Requests, ParkRow(r) PROVE TimelineInv'
  <1>1. /\ Types /\ Carries(r) /\ pc[r] = "parking" /\ Open(r)
        /\ op[r] \in Operations /\ op[r].kind = "reorder" /\ touch[r] = Keep
    BY DEF TimelineInv, ParkRow, Carries, Open
  <1>2. CASE Fail(r)
    BY <1>1, <1>2, FailStep
  <1>3. CASE ~Fail(r)
    <2>1. PICK s \in todo[r] :
             /\ RowFree(r, s)
             /\ todo' = [todo EXCEPT ![r] = @ \ {s}]
             /\ UNCHANGED <<db, pc, op, next, touch, reply>>
             /\ \/ segs[s] = None /\ draft' = draft
                \/ segs[s] # None /\ Draft(r, s, [segs[s] EXCEPT !.pos = segs[s].pos + Parking])
      BY <1>3 DEF ParkRow
    <2>2. s \in Segments
      BY <1>1 DEF Types
    <2>3. OnlyLocal(r) /\ pc'[r] = "parking" /\ next'[r] \in Nat /\ todo'[r] \in SUBSET Segments
      BY <1>1, <2>1 DEF OnlyLocal, Types, Draft
    <2>4. Carries(r)'
      BY <1>1, <2>1, <2>3 DEF Carries
    <2>5. CASE segs[s] = None /\ draft' = draft
      BY <1>1, <2>1, <2>3, <2>4, <2>5, GoOnStep, Absences
    <2>6. CASE segs[s] # None /\ Draft(r, s, [segs[s] EXCEPT !.pos = segs[s].pos + Parking])
      <3> DEFINE row == [segs[s] EXCEPT !.pos = segs[s].pos + Parking]
      <3>1. row \in Row /\ row.content = segs[s].content
        <4>1. segs[s] \in Row
          BY <1>1, <2>2, <2>6 DEF Types
        <4>2. row = [pos |-> segs[s].pos + Parking, version |-> segs[s].version,
                     content |-> segs[s].content]
          BY <4>1 DEF Row
        <4>3. QED
          BY <4>1, <4>2 DEF Row, Parking
      <3>2. Makes(r, s, segs[s], row)
        BY <1>1, <2>6, <3>1 DEF Makes
      <3>3. Draft(r, s, row)
        BY <2>6
      <3> HIDE DEF row
      <3>4. QED
        BY <1>1, <2>1, <2>3, <2>4, <3>1, <3>2, <3>3, DraftStep, Absences
    <2>7. QED
      BY <2>1, <2>5, <2>6
  <1>4. QED
    BY <1>2, <1>3

\* The row that renumbering makes of one it sees.
LEMMA RenumberedRow ==
    ASSUME NEW row \in Row, NEW p \in Nat, NEW up \in {0, 1}
    PROVE  /\ [row EXCEPT !.pos = p, !.version = @ + up] \in Row
           /\ [row EXCEPT !.pos = p, !.version = @ + up].pos = p
           /\ [row EXCEPT !.pos = p, !.version = @ + up].content = row.content
  <1> DEFINE moved == [row EXCEPT !.pos = p]
  <1>1. moved = [pos |-> p, version |-> row.version, content |-> row.content]
    BY DEF Row
  <1>2. [row EXCEPT !.pos = p, !.version = @ + up] = [moved EXCEPT !.version = @ + up]
    OBVIOUS
  <1> HIDE DEF moved
  <1>3. [moved EXCEPT !.version = @ + up] =
            [pos |-> p, version |-> row.version + up, content |-> row.content]
    BY <1>1
  <1>4. QED
    BY <1>2, <1>3 DEF Row

\* One row of the list is renumbered.
LEMMA RenumberStep ==
    ASSUME TimelineInv, NEW r \in Requests, Renumber(r) PROVE TimelineInv'
  <1>1. /\ Types /\ Carries(r) /\ Written(r) /\ pc[r] = "renumber" /\ Open(r)
        /\ op[r] \in Operations /\ op[r].kind \in {"reorder", "delete"} /\ touch[r] = Keep
    BY DEF TimelineInv, Renumber, Carries, Open
  <1>2. CASE Fail(r)
    BY <1>1, <1>2, FailStep
  <1>3. CASE ~Fail(r)
    <2> DEFINE s == Head(ids[r])
               up == IF op[r].kind = "reorder" /\ s = op[r].seg THEN 1 ELSE 0
               row == [View(r, s) EXCEPT !.pos = next[r], !.version = @ + up]
    <2>1. /\ RowFree(r, s)
          /\ next' = [next EXCEPT ![r] = @ + 1]
          /\ UNCHANGED <<db, pc, op, todo, touch, reply>>
          /\ \/ draft' = draft
             \/ View(r, s) # None /\ Draft(r, s, row)
      BY <1>3 DEF Renumber
    <2>2. OnlyLocal(r) /\ pc'[r] = "renumber" /\ next'[r] \in Nat /\ todo'[r] \in SUBSET Segments
      BY <1>1, <2>1 DEF OnlyLocal, Types, Draft
    <2>3. Carries(r)'
      BY <1>1, <2>1, <2>2 DEF Carries
    <2>4. CASE draft' = draft
      BY <1>1, <2>1, <2>2, <2>3, <2>4, GoOnStep, Absences
    <2>5. CASE View(r, s) # None /\ Draft(r, s, row)
      <3>1. ASSUME s \in Segments
            PROVE  /\ View(r, s) \in Row /\ segs[s] # None
                   /\ View(r, s).content = segs[s].content
        BY <3>1, <1>1, <2>5 DEF View, Types, Written, Makes
      <3>2. s \in Segments => row \in Row /\ row.content = segs[s].content
        <4>1. next[r] \in Nat /\ up \in {0, 1}
          BY <1>1 DEF Types
        <4> HIDE DEF up
        <4>2. QED
          BY <3>1, <4>1, RenumberedRow
      <3>3. s \in Segments => Makes(r, s, segs[s], row)
        BY <1>1, <3>1, <3>2 DEF Makes
      <3>4. Draft(r, s, row)
        BY <2>5
      <3> HIDE DEF row, s
      <3>5. QED
        BY <1>1, <2>1, <2>2, <2>3, <3>2, <3>3, <3>4, DraftStep, Absences
    <2>6. QED
      BY <2>1, <2>4, <2>5
  <1>4. QED
    BY <1>2, <1>3

\* delete_segment.
LEMMA DeleteRowStep ==
    ASSUME TimelineInv, NEW r \in Requests, DeleteRow(r) PROVE TimelineInv'
  <1> DEFINE s == op[r].seg
  <1>1. /\ Types /\ Carries(r) /\ pc[r] = "delete" /\ Open(r)
        /\ op[r] \in Operations /\ op[r].kind = "delete" /\ touch[r] = Keep
    BY DEF TimelineInv, DeleteRow, Carries, Open
  <1>2. /\ RowFree(r, s) /\ Goto(r, "list") /\ UNCHANGED <<db, op, next, todo, touch, reply>>
        /\ draft' = draft \/ (segs[s] # None /\ Draft(r, s, None))
    BY DEF DeleteRow
  <1>3. OnlyLocal(r) /\ pc'[r] = "list" /\ next'[r] \in Nat /\ todo'[r] \in SUBSET Segments
    BY <1>1, <1>2 DEF OnlyLocal, Types, Draft, Goto
  <1>4. Carries(r)'
    BY <1>1, <1>2, <1>3 DEF Carries
  <1>5. CASE draft' = draft
    BY <1>1, <1>2, <1>3, <1>4, <1>5, GoOnStep, Absences
  <1>6. CASE segs[s] # None /\ Draft(r, s, None)
    <2>1. Makes(r, s, segs[s], None)
      BY <1>1, <1>6 DEF Makes
    <2>2. QED
      BY <1>1, <1>2, <1>3, <1>4, <1>6, <2>1, DraftStep, Absences
  <1>7. QED
    BY <1>2, <1>5, <1>6

\* delete_journey takes the Journey, which no INSERT holds.
LEMMA DropJourneyStep ==
    ASSUME TimelineInv, NEW r \in Requests, DropJourney(r) PROVE TimelineInv'
  <1>1. /\ Types /\ Carries(r) /\ pc[r] = "drop" /\ Open(r) /\ draft[r] = NoDraft
        /\ op[r] \in Operations /\ op[r].kind = "delete_journey"
    BY DEF TimelineInv, DropJourney, Carries, Open
  <1>2. CASE journey = None
    BY <1>1, <1>2, RaiseStep DEF DropJourney
  <1>3. CASE journey # None
    <2>1. /\ JourneyFree(r) /\ \A q \in Requests \ {r} : ~ForeignKeyHeld(q)
          /\ touch' = [touch EXCEPT ![r] = None]
          /\ todo' = [todo EXCEPT ![r] = {s \in Segments : segs[s] # None}]
          /\ Goto(r, "cascade") /\ UNCHANGED <<db, op, next, draft, reply>>
      BY <1>3 DEF DropJourney
    <2>2. /\ touch'[r] = None /\ todo'[r] = {s \in Segments : segs[s] # None}
          /\ pc'[r] = "cascade" /\ op'[r] = op[r] /\ draft'[r] = NoDraft
          /\ OnlyLocal(r) /\ LocalTypes(r) /\ journey' = journey /\ segs' = segs
      BY <1>1, <2>1 DEF OnlyLocal, LocalTypes, Types, Goto, db
    <2>3. Carries(r)' /\ Written(r)' /\ ~ForeignKeyHeld(r)'
      BY <1>1, <2>2 DEF Carries, Written, NoDraft, ForeignKeyHeld
    <2>4. Touching(r)' /\ Cascading(r)'
      BY <1>1, <1>3, <2>2 DEF Touching, Cascading
    <2>5. \A s \in Segments : draft'[r][s] = Keep
      BY <2>2 DEF NoDraft
    <2>6. QED
      BY <2>1, <2>2, <2>3, <2>4, <2>5, LocalStep
  <1>4. QED
    BY <1>2, <1>3

\* The cascade visits one segment.
LEMMA CascadeRowStep ==
    ASSUME TimelineInv, NEW r \in Requests, CascadeRow(r) PROVE TimelineInv'
  <1>1. /\ Types /\ Carries(r) /\ pc[r] = "cascade" /\ Open(r) /\ touch[r] = None
        /\ op[r] \in Operations /\ op[r].kind = "delete_journey"
    BY DEF TimelineInv, CascadeRow, Carries, Open
  <1>2. PICK s \in todo[r] :
           /\ RowFree(r, s) /\ todo' = [todo EXCEPT ![r] = @ \ {s}]
           /\ UNCHANGED <<db, pc, op, next, touch, reply>>
           /\ \/ segs[s] = None /\ draft' = draft
              \/ segs[s] # None /\ Draft(r, s, None)
    BY DEF CascadeRow
  <1>3. /\ OnlyLocal(r) /\ pc'[r] = "cascade" /\ next'[r] \in Nat
        /\ todo'[r] = todo[r] \ {s} /\ todo'[r] \in SUBSET Segments
    BY <1>1, <1>2 DEF OnlyLocal, Types, Draft
  <1>4. Carries(r)'
    BY <1>1, <1>2, <1>3 DEF Carries
  <1>5. CASE segs[s] = None /\ draft' = draft
    BY <1>1, <1>2, <1>3, <1>4, <1>5, GoOnStep
  <1>6. CASE segs[s] # None /\ Draft(r, s, None)
    <2>1. Makes(r, s, segs[s], None)
      BY <1>1, <1>6 DEF Makes
    <2>2. QED
      BY <1>1, <1>2, <1>3, <1>4, <1>6, <2>1, DraftStep
  <1>7. QED
    BY <1>2, <1>5, <1>6

\* The Journey row is written, or there is none to write and nothing to commit.
LEMMA EndingSteps ==
    ASSUME TimelineInv, NEW r \in Requests, Cascaded(r) \/ TouchJourney(r) PROVE TimelineInv'
  <1>1. /\ Types /\ Carries(r) /\ Written(r) /\ Touching(r) /\ Cascading(r)
        /\ pc[r] \in {"cascade", "touch"} /\ pc'[r] = "commit" /\ Open(r)
        /\ op[r] \in Operations /\ op'[r] = op[r] /\ draft'[r] = draft[r]
        /\ journey' = journey /\ segs' = segs /\ UNCHANGED <<next, todo, reply, db>>
    BY DEF TimelineInv, Cascaded, TouchJourney, Carries, Open, Goto, Types, db
  <1>2. CASE Cascaded(r)
    <2>1. touch[r] = None /\ touch'[r] = None /\ todo[r] = {} /\ touch' = touch
      BY <1>1, <1>2 DEF Cascaded, Carries
    <2>2. OnlyLocal(r) /\ LocalTypes(r)
      BY <1>1, <1>2, <2>1 DEF OnlyLocal, LocalTypes, Types, Cascaded, Goto
    <2>3. Carries(r)' /\ Written(r)' /\ Touching(r)' /\ Cascading(r)'
      BY <1>1, <2>1, Absences DEF Carries, Written, Makes, Touching, Cascading
    <2>4. ~ForeignKeyHeld(r)'
      BY <1>1, <2>1 DEF ForeignKeyHeld, Cascading
    <2>5. QED
      BY <1>1, <2>1, <2>2, <2>3, <2>4, LocalStep
  <1>3. CASE TouchJourney(r)
    <2>1. /\ JourneyFree(r) /\ pc[r] = "touch" /\ Goto(r, "commit")
          /\ touch' = [touch EXCEPT ![r] = IF journey = None THEN Keep ELSE journey + 1]
          /\ UNCHANGED <<op, draft>>
      BY <1>3 DEF TouchJourney
    <2>2. /\ touch'[r] = IF journey = None THEN Keep ELSE journey + 1
          /\ OnlyLocal(r) /\ LocalTypes(r)
      BY <1>1, <2>1 DEF OnlyLocal, LocalTypes, Types, Goto
    <2>3. journey # None => journey \in Nat /\ journey + 1 \in Nat /\ touch'[r] \notin {Keep, None}
      BY <1>1, <2>2, Absences DEF Types
    <2>4. journey = None => draft[r] = NoDraft
      <3>1. SUFFICES ASSUME journey = None PROVE \A s \in Segments : draft[r][s] = Keep
        BY <1>1 DEF Types, NoDraft
      <3>2. op[r].kind # "create"
        BY <1>1, <2>1, <3>1, Absences DEF TimelineInv, KeyHolds, ForeignKeyHeld
      <3>3. \A s \in Segments : segs[s] = None
        BY <3>1 DEF TimelineInv, NoOrphans
      <3>4. QED
        BY <1>1, <3>2, <3>3 DEF Written, Makes
    <2>5. Carries(r)'
      BY <1>1 DEF Carries
    <2>6. Written(r)'
      BY <1>1 DEF Written, Makes
    <2>7. Touching(r)' /\ Cascading(r)'
      BY <1>1, <2>2, <2>3, <2>4, Absences DEF Touching, Cascading
    <2>8. ForeignKeyHeld(r)' => ForeignKeyHeld(r)
      BY <1>1, <2>1 DEF ForeignKeyHeld
    <2>9. QED
      BY <1>1, <2>1, <2>2, <2>3, <2>5, <2>6, <2>7, <2>8, LocalStep, Absences
  <1>4. QED
    BY <1>2, <1>3

-----------------------------------------------------------------------------
(***************************************************************************)
(* The commit.                                                             *)
(***************************************************************************)

\* What a commit does to a row and to the Journey.
LEMMA Committed ==
    ASSUME TimelineInv, NEW r \in Requests, Commit(r)
    PROVE  /\ pc[r] = "commit" /\ op[r] \in Operations
           /\ OnlyLocal(r) /\ LocalTypes(r)
           /\ pc'[r] = "done" /\ op' = op /\ draft'[r] = NoDraft
           /\ touch'[r] = Keep /\ reply'[r] = "ok"
           /\ segs' \in [Segments -> Row \cup {None}]
           /\ \A s \in Segments :
                 segs'[s] = IF draft[r][s] = Keep THEN segs[s] ELSE draft[r][s]
           /\ journey' = IF touch[r] = Keep THEN journey ELSE touch[r]
  <1>1. /\ Types /\ Carries(r) /\ pc[r] = "commit" /\ op' = op /\ Close(r, "done", "ok")
        /\ segs' = [s \in Segments |-> View(r, s)]
        /\ journey' = IF touch[r] = Keep THEN journey ELSE touch[r]
    BY DEF TimelineInv, Commit
  <1>2. \A s \in Segments : View(r, s) \in Row \cup {None}
    BY <1>1 DEF View, Types
  <1>3. QED
    BY <1>1, <1>2, Closed DEF Carries, View

\* A row that another request has written is not written by the commit.
LEMMA OthersRows ==
    ASSUME TimelineInv, NEW r \in Requests, Commit(r),
           NEW q \in Requests \ {r}, NEW s \in Segments, draft[q][s] # Keep
    PROVE  segs'[s] = segs[s]
  BY Committed DEF TimelineInv, OneWriter

\* Only a create, which holds the foreign key, commits a row where there was
\* none.
LEMMA NewRows ==
    ASSUME TimelineInv, NEW r \in Requests, Commit(r), NEW s \in Segments,
           segs[s] = None, segs'[s] # None
    PROVE  ForeignKeyHeld(r)
  <1>1. draft[r][s] # Keep /\ pc[r] = "commit" /\ op[r] \in Operations
    BY Committed
  <1>2. op[r].kind = "create"
    BY <1>1 DEF TimelineInv, Written, Makes
  <1>3. QED
    BY <1>1, <1>2, Absences DEF ForeignKeyHeld

\* A commit leaves the invariant.
LEMMA CommitStep ==
    ASSUME TimelineInv, NEW r \in Requests, Commit(r) PROVE TimelineInv'
  <1> USE DEF TimelineInv
  <1>1. /\ pc[r] = "commit" /\ op[r] \in Operations /\ OnlyLocal(r) /\ LocalTypes(r)
        /\ pc'[r] = "done" /\ op' = op /\ draft'[r] = NoDraft /\ touch'[r] = Keep
        /\ segs' \in [Segments -> Row \cup {None}]
        /\ \A s \in Segments : segs'[s] = IF draft[r][s] = Keep THEN segs[s] ELSE draft[r][s]
        /\ journey' = IF touch[r] = Keep THEN journey ELSE touch[r]
    BY Committed
  <1>2. /\ Types /\ Carries(r) /\ Written(r) /\ Touching(r) /\ Cascading(r)
        /\ \A s \in Segments : draft'[r][s] = Keep
    BY <1>1 DEF NoDraft
  <1>3. Types'
    <2>1. journey' \in Nat \cup {None}
      BY <1>1, <1>2 DEF Types
    <2>2. OnlyLocal(r) /\ LocalTypes(r) /\ Types /\ segs' \in [Segments -> Row \cup {None}]
      BY <1>1, <1>2
    <2>3. QED
      BY <2>1, <2>2 DEF Types, OnlyLocal, LocalTypes
  <1>4. ASSUME NEW q \in Requests, q # r, touch[q] # Keep
        PROVE  journey' = journey /\ touch[r] = Keep
    BY <1>1, <1>4 DEF OneToucher
  <1>5. ASSUME NEW q \in Requests
        PROVE  Carries(q)' /\ Written(q)' /\ Touching(q)' /\ Cascading(q)'
    <2>1. CASE q = r
      BY <2>1, <1>1, <1>2, Absences DEF Carries, Written, Touching, Cascading
    <2>2. CASE q # r
      <3>1. /\ pc'[q] = pc[q] /\ op'[q] = op[q] /\ todo'[q] = todo[q]
            /\ draft'[q] = draft[q] /\ touch'[q] = touch[q]
        BY <1>1, <1>2, <2>2, OthersUntouched
      <3>2. Carries(q)'
        BY <3>1 DEF Carries
      <3>3. Written(q)'
        BY <2>2, <3>1, OthersRows DEF Written, Makes
      <3>4. Touching(q)'
        BY <1>4, <2>2, <3>1 DEF Touching
      <3>5. Cascading(q)'
        <4>1. SUFFICES ASSUME touch[q] = None, NEW s \in Segments \ todo[q], draft[q][s] # None
                       PROVE  segs'[s] = None
          BY <3>1 DEF Cascading
        <4>2. segs[s] = None
          BY <4>1 DEF Cascading
        <4>3. ~ForeignKeyHeld(r)
          BY <4>1 DEF KeyHolds
        <4>4. QED
          BY <4>2, <4>3, NewRows
      <3>6. QED
        BY <3>2, <3>3, <3>4, <3>5
    <2>3. QED
      BY <2>1, <2>2
  <1>6. OneWriter' /\ OneToucher'
    BY <1>1, <1>2, OthersUntouched DEF OneWriter, OneToucher
  <1>7. KeyHolds'
    <2>1. SUFFICES ASSUME NEW q \in Requests, ForeignKeyHeld(q)'
                   PROVE  journey' # None /\ \A p \in Requests : touch'[p] # None
      BY DEF KeyHolds
    <2>2. q # r /\ ForeignKeyHeld(q)
      BY <2>1, <1>1, <1>2, OthersUntouched DEF ForeignKeyHeld
    <2>3. journey # None /\ \A p \in Requests : touch[p] # None
      BY <2>2 DEF KeyHolds
    <2>4. \A p \in Requests : touch'[p] # None
      BY <1>1, <1>2, <2>3, OthersUntouched, Absences
    <2>5. QED
      BY <1>1, <2>3, <2>4
  <1>8. NoOrphans'
    <2>1. SUFFICES ASSUME journey' = None, NEW s \in Segments PROVE segs'[s] = None
      BY DEF NoOrphans
    <2>2. CASE touch[r] = None
      <3>1. segs[s] = None \/ draft[r][s] = None
        BY <1>1, <1>2, <2>2 DEF Cascading
      <3>2. segs[s] = None => segs'[s] = None
        BY <2>2, NewRows DEF KeyHolds
      <3>3. QED
        BY <1>1, <3>1, <3>2, Absences
    <2>3. CASE touch[r] # None
      <3>1. journey = None
        BY <1>1, <2>1, <2>3
      <3>2. segs[s] = None /\ ~ForeignKeyHeld(r)
        BY <3>1 DEF NoOrphans, KeyHolds
      <3>3. QED
        BY <3>2, NewRows
    <2>4. QED
      BY <2>2, <2>3
  <1>9. QED
    BY <1>3, <1>5, <1>6, <1>7, <1>8

-----------------------------------------------------------------------------
(***************************************************************************)
(* The theorems.                                                           *)
(***************************************************************************)

\* Every step keeps the invariant.
LEMMA NextTimelineInv == TimelineInv /\ [Next]_vars => TimelineInv'
  <1> SUFFICES ASSUME TimelineInv, [Next]_vars PROVE TimelineInv'
    OBVIOUS
  <1>1. CASE UNCHANGED vars
    BY <1>1 DEF vars, TimelineInv, Types, Carries, Written, Makes, Touching, Cascading,
         OneWriter, OneToucher, KeyHolds, ForeignKeyHeld, NoOrphans
  <1>2. ASSUME NEW r \in Requests, Begin(r) \/ Execute(r) \/ Abort(r) PROVE TimelineInv'
    BY <1>2, BeginStep, ReadSteps, RefusalSteps, InsertStep, UpdateSegmentStep, ListSteps,
       ParkRowStep, RenumberStep, DeleteRowStep, DropJourneyStep, CascadeRowStep, EndingSteps,
       CommitStep DEF Execute
  <1>3. QED
    BY <1>1, <1>2 DEF Next

\* The inductive invariant holds of every behaviour.
THEOREM TimelineInvariant == Spec => []TimelineInv
  BY InitTimelineInv, NextTimelineInv, PTL DEF Spec

\* A deleted Journey leaves no segment behind: create_segment holds the foreign
\* key, and the cascade of delete_journey waits for every other writer.
THEOREM TimelineNoOrphans == Spec => []NoOrphans
  <1>1. TimelineInv => NoOrphans
    BY DEF TimelineInv
  <1>2. QED
    BY <1>1, TimelineInvariant, PTL

\* Committed state is written by commits only.
LEMMA OnlyCommitsWrite ==
    ASSUME [Next]_vars, segs' # segs PROVE \E r \in Requests : Commit(r)
  BY DEF Next, vars, db, Begin, Execute, Abort, Raise, Fail, NotFound, ReadMax, Insert,
         OwnedForUpdate, UpdateSegment, StaleUpdate, OwnedForReorder, StaleReorder,
         ListForReorder, Park, ParkRow, Parked, Renumber, Renumbered, OwnedForDelete, DeleteRow,
         ListForCompaction, DropJourney, CascadeRow, Cascaded, TouchJourney, LostReorder

\* The content of a segment is only overwritten by an update_segment that named
\* the version it overwrites, whatever reorders and compactions write meanwhile.
THEOREM TimelineNoLostEdit == Spec => NoLostEdit
  <1>1. ASSUME TimelineInv, [Next]_vars, NEW s \in Segments,
               segs[s] # None, segs'[s] # None, segs'[s].content # segs[s].content
        PROVE  \E r \in Requests : /\ Commits(r, "update")
                                   /\ op[r].seg = s
                                   /\ segs[s].version = op[r].expected
                                   /\ segs'[s].content = r
    <2>1. PICK r \in Requests : Commit(r)
      BY <1>1, OnlyCommitsWrite
    <2>2. /\ pc[r] = "commit" /\ reply'[r] = "ok"
          /\ draft[r][s] # Keep /\ segs'[s] = draft[r][s]
      BY <1>1, <2>1, Committed
    <2>3. Makes(r, s, segs[s], segs'[s])
      BY <1>1, <2>2 DEF TimelineInv, Written
    <2>4. op[r].kind = "update" /\ op[r].seg = s /\ segs[s].version = op[r].expected
          /\ segs'[s].content = r
      BY <1>1, <2>3 DEF Makes
    <2>5. QED
      BY <2>2, <2>4 DEF Commits
  <1>2. TimelineInv /\ [Next]_vars =>
           [\A s \in Segments :
               ( /\ segs[s] # None /\ segs'[s] # None
                 /\ segs'[s].content # segs[s].content )
               => \E r \in Requests : /\ Commits(r, "update")
                                      /\ op[r].seg = s
                                      /\ segs[s].version = op[r].expected
                                      /\ segs'[s].content = r]_vars
    BY <1>1
  <1>3. QED
    BY <1>2, TimelineInvariant, PTL DEF Spec, NoLostEdit

\* Each commit that changes the timeline moves the Journey's version by one:
\* the UPDATE of _touch_journey holds the row that it incremented.
THEOREM TimelineEveryChangeTouches == Spec => EveryChangeTouches
  <1>1. ASSUME TimelineInv, [Next]_vars, segs' # segs
        PROVE  journey' = None \/ journey' = journey + 1
    <2>1. PICK r \in Requests : Commit(r)
      BY <1>1, OnlyCommitsWrite
    <2>2. /\ pc[r] = "commit" /\ journey' = IF touch[r] = Keep THEN journey ELSE touch[r]
          /\ segs' \in [Segments -> Row \cup {None}]
          /\ \A s \in Segments : segs'[s] = IF draft[r][s] = Keep THEN segs[s] ELSE draft[r][s]
      BY <1>1, <2>1, Committed
    <2>3. touch[r] # Keep
      <3>1. SUFFICES ASSUME touch[r] = Keep PROVE FALSE
        OBVIOUS
      <3>2. \A s \in Segments : segs'[s] = segs[s]
        BY <1>1, <2>2, <3>1 DEF TimelineInv, Touching, NoDraft
      <3>3. segs \in [Segments -> Row \cup {None}]
        BY <1>1 DEF TimelineInv, Types
      <3>4. QED
        BY <1>1, <2>2, <3>2, <3>3
    <2>4. QED
      BY <1>1, <2>2, <2>3 DEF TimelineInv, Touching
  <1>2. TimelineInv /\ [Next]_vars =>
           [segs' # segs => journey' = None \/ journey' = journey + 1]_vars
    BY <1>1
  <1>3. QED
    BY <1>2, TimelineInvariant, PTL DEF Spec, EveryChangeTouches

-----------------------------------------------------------------------------
(***************************************************************************)
(* The order of the segments: a second invariant, on top of the first.     *)
(*                                                                         *)
(* No two rows ever have one position, committed or not, because a         *)
(* statement waits for the positions that others take or give up.  So the  *)
(* list that reorder_segment and _compact_segments read is one list; what  *)
(* they have yet to renumber is the rest of it, and what they have         *)
(* renumbered stands where the list has it.                                *)
(***************************************************************************)

\* No two rows have one position: among the committed ones, as a transaction
\* sees them, and among those of different transactions.
CommittedApart ==
    \A s, t \in Segments :
        s # t /\ segs[s] # None /\ segs[t] # None => segs[s].pos # segs[t].pos

SeenApart(r) ==
    \A s, t \in Segments :
        s # t /\ View(r, s) # None /\ View(r, t) # None => View(r, s).pos # View(r, t).pos

DraftsApart(q, r) ==
    \A s, t \in Segments :
        s # t /\ draft[q][s] \notin {Keep, None} /\ draft[r][t] \notin {Keep, None} =>
            draft[q][s].pos # draft[r][t].pos

\* What a request keeps for its renumbering, and when it has none.
Bookkeeping(r) ==
    /\ pc[r] \notin {"park", "parking", "renumber"} => ids[r] = <<>>
    /\ pc[r] \notin {"insert", "renumber", "touch", "commit"} => next[r] = 0
    /\ pc[r] \notin {"done", "failed"} => reply[r] = "pending"

\* The segment that is moved will stand, or stands, where it was asked to.
Aimed(r) ==
    pc[r] # "new" /\ op[r].kind = "reorder" =>
        /\ \A s \in Segments : draft[r][s] # None
        /\ pc[r] \in {"park", "parking", "renumber"} =>
              /\ next[r] + Len(ids[r]) > op[r].to
              /\ \A i \in 1 .. Len(ids[r]) : ids[r][i] = op[r].seg <=> next[r] + i = op[r].to + 1
        /\ pc[r] \in {"touch", "commit"} \/ (pc[r] = "renumber" /\ next[r] > op[r].to) =>
              draft[r][op[r].seg] = Keep \/ draft[r][op[r].seg].pos = op[r].to

\* The list that a request renumbers by: all the rows it sees, once each, the
\* ones that are not moved in the order of their positions.
Plan(r, list) ==
    /\ \A s \in Segments : View(r, s) # None <=> \E i \in 1 .. Len(list) : list[i] = s
    /\ \A i, j \in 1 .. Len(list) : list[i] = list[j] => i = j
    /\ Len(list) = next[r] + Len(ids[r])
    /\ \A i \in 1 .. Len(ids[r]) : ids[r][i] = list[next[r] + i]
    /\ \A i \in 1 .. next[r] : draft[r][list[i]] # Keep /\ draft[r][list[i]].pos = i - 1
    /\ op[r].kind = "reorder" =>
          \A i, j \in 1 .. Len(list) :
              list[i] # op[r].seg /\ list[j] # op[r].seg =>
                  (i < j <=> segs[list[i]].pos < segs[list[j]].pos)

Planned(r) ==
    pc[r] \in {"park", "parking", "renumber", "touch", "commit"} /\ op[r].kind \in {"reorder", "delete"} =>
        \E list \in Seq(Segments) : Plan(r, list)

\* The new segment comes after all the others.
NewLast(r) ==
    pc[r] \in {"insert", "touch", "commit"} /\ op[r].kind = "create" =>
        /\ \A s \in Segments : segs[s] # None => segs[s].pos < next[r]
        /\ next[r] = 0 \/ \E s \in Segments : segs[s] # None /\ next[r] = segs[s].pos + 1
        /\ pc[r] # "insert" =>
              draft[r][op[r].seg] \notin {Keep, None} /\ draft[r][op[r].seg].pos = next[r]

OrderInv ==
    /\ ids \in [Requests -> Seq(Segments)]
    /\ CommittedApart
    /\ \A r \in Requests : SeenApart(r)
    /\ \A q, r \in Requests : q # r => DraftsApart(q, r)
    /\ \A r \in Requests : Bookkeeping(r) /\ Aimed(r)
    /\ \A r \in Requests : ~overtaken[r] => Planned(r) /\ NewLast(r)

-----------------------------------------------------------------------------
(***************************************************************************)
(* Sorted lists.                                                           *)
(***************************************************************************)

\* Numbered elements can be listed in the order of their numbers: a smallest
\* set that cannot would stay so without its last element.
LEMMA SortedList ==
    ASSUME NEW S \in SUBSET Segments, NEW f \in [Segments -> Nat],
           \A s, t \in S : f[s] = f[t] => s = t
    PROVE  \E list \in [1 .. Cardinality(S) -> S] :
              \A i, j \in 1 .. Cardinality(S) : i < j => f[list[i]] < f[list[j]]
  <1> DEFINE Sorted(T) == \E list \in [1 .. Cardinality(T) -> T] :
                             \A i, j \in 1 .. Cardinality(T) : i < j => f[list[i]] < f[list[j]]
             Bad == {T \in FiniteSubsetsOf(S) : ~Sorted(T)}
  <1>0. IsFiniteSet(S)
    BY SegmentsAssumption, FS_Subset
  <1>1. SUFFICES ASSUME Bad # {} PROVE FALSE
    BY <1>0 DEF FiniteSubsetsOf
  <1>2. PICK T \in Bad : \A U \in Bad : <<U, T>> \notin StrictSubsetOrdering(S)
    <2>1. Bad \subseteq FiniteSubsetsOf(S)
      OBVIOUS
    <2>2. IsWellFoundedOn(StrictSubsetOrdering(S), FiniteSubsetsOf(S))
      BY FS_StrictSubsetOrderingWellFounded
    <2> HIDE DEF Bad
    <2>3. QED
      BY <1>1, <2>1, <2>2, WFMin
  <1>3. T \subseteq S /\ IsFiniteSet(T) /\ ~Sorted(T)
    BY <1>2 DEF FiniteSubsetsOf
  <1>4. T # {}
    <2>1. SUFFICES ASSUME T = {} PROVE FALSE
      OBVIOUS
    <2>2. Cardinality(T) = 0
      BY <2>1, FS_EmptySet
    <2> DEFINE none == [i \in 1 .. Cardinality(T) |-> i]
    <2>3. \A i \in 1 .. Cardinality(T) : FALSE
      BY <2>2
    <2>4. none \in [1 .. Cardinality(T) -> T]
      BY <2>3
    <2> HIDE DEF none
    <2>5. Sorted(T)
      BY <2>3, <2>4
    <2>6. QED
      BY <1>3, <2>5
  <1>5. PICK m \in T : \A s \in T : f[m] >= f[s]
    <2> DEFINE N == {f[s] : s \in T}
               g == [s \in T |-> f[s]]
    <2>1. g \in Surjection(T, N)
      BY DEF Surjection
    <2>2. IsFiniteSet(N)
      BY <1>3, <2>1, FS_Surjection
    <2>3. N \in SUBSET Nat /\ N # {}
      BY <1>3, <1>4
    <2> HIDE DEF N
    <2>4. PICK k \in N : \A n \in N : k >= n
      BY <2>2, <2>3, FiniteMaximum
    <2>5. QED
      BY <2>4 DEF N
  <1> DEFINE U == T \ {m}
             n == Cardinality(T)
  <1>6. IsFiniteSet(U) /\ U \subseteq S /\ U # T /\ n \in Nat /\ n >= 1 /\ Cardinality(U) = n - 1
    <2>1. n \in Nat /\ n # 0
      BY <1>3, <1>4, FS_CardinalityType, FS_EmptySet
    <2>2. IsFiniteSet(U) /\ Cardinality(U) = n - 1
      BY <1>3, <1>5, FS_RemoveElement
    <2>3. QED
      BY <1>3, <1>5, <2>1, <2>2
  <1>7. Sorted(U)
    <2>1. U \notin Bad
      BY <1>2, <1>3, <1>6 DEF StrictSubsetOrdering
    <2>2. QED
      BY <1>6, <2>1 DEF FiniteSubsetsOf
  <1>8. PICK l \in [1 .. n - 1 -> U] : \A i, j \in 1 .. n - 1 : i < j => f[l[i]] < f[l[j]]
    BY <1>6, <1>7
  <1> HIDE DEF n
  <1> DEFINE list == [i \in 1 .. n |-> IF i = n THEN m ELSE l[i]]
  <1>9. list \in [1 .. n -> T]
    BY <1>5, <1>6, <1>8
  <1>10. ASSUME NEW i \in 1 .. n, NEW j \in 1 .. n, i < j PROVE f[list[i]] < f[list[j]]
    <2>1. i \in 1 .. n - 1 /\ list[i] = l[i] /\ l[i] \in U
      BY <1>6, <1>8, <1>10
    <2>2. CASE j = n
      <3>1. f[l[i]] # f[m] /\ f[m] >= f[l[i]] /\ f[m] \in Nat /\ f[l[i]] \in Nat
        BY <1>3, <1>5, <2>1
      <3>2. QED
        BY <2>1, <2>2, <3>1
    <2>3. CASE j # n
      BY <1>6, <1>8, <1>10, <2>1, <2>3
    <2>4. QED
      BY <2>2, <2>3
  <1>11. Sorted(T)
    <2> HIDE DEF list
    <2>1. QED
      BY <1>9, <1>10 DEF n
  <1>12. QED
    BY <1>3, <1>11

\* What SELECT ... ORDER BY position returns.
LEMMA ListedRows ==
    ASSUME Types, NEW r \in Requests, SeenApart(r)
    PROVE  /\ Listed(r) \in Seq(Segments)
           /\ \A s \in Segments :
                 View(r, s) # None <=> \E i \in 1 .. Len(Listed(r)) : Listed(r)[i] = s
           /\ \A i, j \in 1 .. Len(Listed(r)) :
                 /\ i < j => View(r, Listed(r)[i]).pos < View(r, Listed(r)[j]).pos
                 /\ Listed(r)[i] = Listed(r)[j] => i = j
  <1> DEFINE there == {s \in Segments : View(r, s) # None}
             n == Cardinality(there)
             f == [s \in Segments |-> IF View(r, s) = None THEN 0 ELSE View(r, s).pos]
             Fits(list) == \A i, j \in 1 .. n : i < j => View(r, list[i]).pos < View(r, list[j]).pos
  <1>1. \A s \in there : View(r, s) \in Row /\ f[s] = View(r, s).pos /\ View(r, s).pos \in Nat
    BY DEF Types, View, Row
  <1>2. f \in [Segments -> Nat] /\ \A s, t \in there : f[s] = f[t] => s = t
    BY <1>1 DEF SeenApart
  <1>3. IsFiniteSet(there) /\ n \in Nat
    BY SegmentsAssumption, FS_Subset, FS_CardinalityType
  <1>4. \E list \in [1 .. n -> there] : Fits(list)
    <2> HIDE DEF f
    <2>1. PICK list \in [1 .. n -> there] : \A i, j \in 1 .. n : i < j => f[list[i]] < f[list[j]]
      BY <1>2, SortedList
    <2>2. QED
      BY <1>1, <2>1
  <1>5. Listed(r) = CHOOSE list \in [1 .. n -> there] : Fits(list)
    <2>1. \A list \in [1 .. n -> there] : DOMAIN list = 1 .. n
      OBVIOUS
    <2>2. Listed(r) = CHOOSE list \in [1 .. n -> there] :
             \A i, j \in DOMAIN list : i < j => View(r, list[i]).pos < View(r, list[j]).pos
      BY DEF Listed
    <2>3. QED
      BY <2>1, <2>2, Zenon
  <1> HIDE DEF Fits
  <1>6. Listed(r) \in [1 .. n -> there] /\ Fits(Listed(r))
    BY <1>4, <1>5, Zenon
  <1> USE DEF Fits
  <1>7. Listed(r) \in Seq(Segments) /\ Len(Listed(r)) = n
    <2> HIDE DEF n
    <2>1. Listed(r) \in [1 .. n -> Segments]
      BY <1>6
    <2>2. QED
      BY <1>3, <2>1
  <1>8. ASSUME NEW i \in 1 .. n, NEW j \in 1 .. n, Listed(r)[i] = Listed(r)[j] PROVE i = j
    <2>1. Listed(r)[i] \in there /\ View(r, Listed(r)[i]).pos \in Nat
      BY <1>1, <1>6
    <2>2. ~(i < j) /\ ~(j < i)
      BY <1>6, <1>8, <2>1
    <2>3. QED
      BY <1>3, <2>2
  <1>9. Listed(r) \in Surjection(1 .. n, there)
    <2>1. Listed(r) \in Injection(1 .. n, there)
      BY <1>6, <1>8 DEF Injection, IsInjective
    <2>2. IsFiniteSet(1 .. n) /\ Cardinality(1 .. n) = n
      BY <1>3, FS_Interval
    <2>3. QED
      BY <1>3, <2>1, <2>2, FS_Injection
  <1>10. QED
    BY <1>6, <1>7, <1>8, <1>9 DEF Surjection

\* Inserting cuts the list in two.
LEMMA InsertAtParts ==
    ASSUME NEW R, NEW k, NEW x
    PROVE  InsertAt(R, k, x) = (SubSeq(R, 1, k - 1) \o <<x>>) \o SubSeq(R, k, Len(R))
  BY DEF InsertAt

\* A list with one more element in it.
LEMMA Inserted ==
    ASSUME NEW R \in Seq(Segments), NEW to \in 0 .. Len(R), NEW x \in Segments
    PROVE  LET M == InsertAt(R, to + 1, x) IN
           /\ M \in Seq(Segments) /\ Len(M) = Len(R) + 1 /\ M[to + 1] = x
           /\ \A i \in 1 .. Len(R) + 1 : i # to + 1 => M[i] = R[IF i <= to THEN i ELSE i - 1]
  <1> DEFINE n == Len(R)
             C == SubSeq(R, 1, to)
             D == SubSeq(R, to + 1, n)
             F == C \o <<x>>
             M == F \o D
  <1>1. n \in Nat /\ to \in Nat /\ to <= n /\ \A i \in 1 .. n : R[i] \in Segments
    OBVIOUS
  <1>2. /\ C \in Seq(Segments) /\ Len(C) = to
        /\ \A i \in 1 .. to : C[i] = R[i]
    <2>1. \A i \in 1 .. to : R[i] \in Segments
      BY <1>1
    <2>2. QED
      BY <1>1, <2>1, SubSeqProperties
  <1>3. /\ D \in Seq(Segments) /\ Len(D) = n - to
        /\ \A i \in 1 .. n - to : D[i] = R[to + i]
    <2>1. \A i \in to + 1 .. n : R[i] \in Segments
      BY <1>1
    <2>2. /\ D \in Seq(Segments) /\ Len(D) = IF to + 1 <= n THEN n - (to + 1) + 1 ELSE 0
          /\ \A i \in 1 .. n - (to + 1) + 1 : D[i] = R[to + 1 + i - 1]
      BY <1>1, <2>1, SubSeqProperties
    <2> HIDE DEF D
    <2>3. QED
      BY <1>1, <2>2
  <1>4. InsertAt(R, to + 1, x) = M
    <2>1. (to + 1) - 1 = to
      BY <1>1
    <2>2. InsertAt(R, to + 1, x) = SubSeq(R, 1, (to + 1) - 1) \o <<x>> \o SubSeq(R, to + 1, Len(R))
      BY InsertAtParts, Zenon
    <2>3. QED
      BY <2>1, <2>2
  <1> HIDE DEF C, D
  <1>5. /\ F \in Seq(Segments) /\ Len(F) = to + 1 /\ F[to + 1] = x
        /\ \A i \in 1 .. to : F[i] = C[i]
    BY <1>1, <1>2
  <1> HIDE DEF F
  <1>6. /\ M \in Seq(Segments) /\ Len(M) = Len(F) + Len(D)
        /\ \A i \in 1 .. Len(F) + Len(D) : M[i] = IF i <= Len(F) THEN F[i] ELSE D[i - Len(F)]
    BY <1>3, <1>5, ConcatProperties
  <1> HIDE DEF M
  <1>7. Len(M) = n + 1 /\ M[to + 1] = x
    BY <1>1, <1>3, <1>5, <1>6
  <1>8. ASSUME NEW i \in 1 .. n + 1, i # to + 1
        PROVE  M[i] = R[IF i <= to THEN i ELSE i - 1]
    <2>1. CASE i <= to
      BY <1>1, <1>2, <1>5, <1>6, <1>7, <2>1
    <2>2. CASE ~(i <= to)
      <3>1. /\ i \in 1 .. Len(F) + Len(D) /\ ~(i <= Len(F))
            /\ i - (to + 1) \in 1 .. n - to
        BY <1>1, <1>3, <1>5, <1>8, <2>2
      <3>2. M[i] = D[i - (to + 1)]
        BY <1>5, <1>6, <3>1
      <3>3. D[i - (to + 1)] = R[to + (i - (to + 1))] /\ to + (i - (to + 1)) = i - 1
        BY <1>1, <1>3, <3>1
      <3>4. QED
        BY <2>2, <3>2, <3>3
    <2>3. QED
      BY <2>1, <2>2
  <1>9. QED
    BY <1>4, <1>6, <1>7, <1>8

\* What ids.remove and ids.insert make of a list without repetitions.
LEMMA MovedList ==
    ASSUME NEW list \in Seq(Segments), NEW from \in 1 .. Len(list), NEW to \in Nat, to < Len(list),
           \A i, j \in 1 .. Len(list) : list[i] = list[j] => i = j
    PROVE  LET M == Moved(list, list[from], to) IN
           /\ M \in Seq(Segments) /\ Len(M) = Len(list) /\ M[to + 1] = list[from]
           /\ \A i \in 1 .. Len(list) : i # to + 1 =>
                 LET k == IF i <= to THEN i ELSE i - 1
                 IN  M[i] = IF k < from THEN list[k] ELSE list[k + 1]
  <1> DEFINE n == Len(list)
             A == SubSeq(list, 1, from - 1)
             B == SubSeq(list, from + 1, n)
             R == A \o B
             s == list[from]
  <1>1. n \in Nat /\ from \in Nat /\ from >= 1 /\ from <= n /\ s \in Segments
        /\ \A i \in 1 .. n : list[i] \in Segments
    OBVIOUS
  <1>2. /\ A \in Seq(Segments) /\ Len(A) = from - 1
        /\ \A i \in 1 .. from - 1 : A[i] = list[i]
    BY <1>1, SubSeqProperties
  <1>3. /\ B \in Seq(Segments) /\ Len(B) = n - from
        /\ \A i \in 1 .. n - from : B[i] = list[from + i]
    <2>1. \A i \in from + 1 .. n : list[i] \in Segments
      BY <1>1
    <2>2. /\ B \in Seq(Segments) /\ Len(B) = IF from + 1 <= n THEN n - (from + 1) + 1 ELSE 0
          /\ \A i \in 1 .. n - (from + 1) + 1 : B[i] = list[from + 1 + i - 1]
      BY <1>1, <2>1, SubSeqProperties
    <2> HIDE DEF B
    <2>3. QED
      BY <1>1, <2>2
  <1> HIDE DEF A, B
  <1>4. /\ R \in Seq(Segments) /\ Len(R) = n - 1
        /\ \A i \in 1 .. n - 1 : R[i] = IF i < from THEN list[i] ELSE list[i + 1]
    <2>1. /\ R \in Seq(Segments) /\ Len(R) = Len(A) + Len(B)
          /\ \A i \in 1 .. Len(A) + Len(B) : R[i] = IF i <= Len(A) THEN A[i] ELSE B[i - Len(A)]
      BY <1>2, <1>3, ConcatProperties
    <2> HIDE DEF R
    <2>2. Len(R) = n - 1
      BY <1>1, <1>2, <1>3, <2>1
    <2>3. ASSUME NEW i \in 1 .. n - 1 PROVE R[i] = IF i < from THEN list[i] ELSE list[i + 1]
      <3>1. CASE i < from
        <4>1. i \in 1 .. from - 1 /\ i \in 1 .. Len(A) + Len(B) /\ i <= Len(A)
          BY <1>1, <1>2, <1>3, <3>1
        <4>2. R[i] = A[i]
          BY <2>1, <4>1
        <4>3. QED
          BY <1>2, <3>1, <4>1, <4>2
      <3>2. CASE ~(i < from)
        <4>1. /\ i \in 1 .. Len(A) + Len(B) /\ ~(i <= Len(A))
              /\ i - (from - 1) \in 1 .. n - from /\ from + (i - (from - 1)) = i + 1
          BY <1>1, <1>2, <1>3, <3>2
        <4>2. R[i] = B[i - (from - 1)]
          BY <1>2, <2>1, <4>1
        <4>3. B[i - (from - 1)] = list[from + (i - (from - 1))]
          BY <1>3, <4>1
        <4>4. QED
          BY <3>2, <4>1, <4>2, <4>3
      <3>3. QED
        BY <3>1, <3>2
    <2>4. QED
      BY <2>1, <2>2, <2>3
  <1>5. RemoveAt(list, from) = R
    BY DEF RemoveAt, A, B
  <1> HIDE DEF R
  <1> DEFINE M == InsertAt(R, to + 1, s)
  <1>6. /\ M \in Seq(Segments) /\ Len(M) = n /\ M[to + 1] = s
        /\ \A i \in 1 .. n : i # to + 1 => M[i] = R[IF i <= to THEN i ELSE i - 1]
    <2>1. to \in 0 .. Len(R) /\ Len(R) + 1 = n
      BY <1>1, <1>4
    <2>2. QED
      <3>1. R \in Seq(Segments) /\ s \in Segments
        BY <1>1, <1>4
      <3> HIDE DEF s
      <3>2. /\ M \in Seq(Segments) /\ Len(M) = Len(R) + 1 /\ M[to + 1] = s
            /\ \A i \in 1 .. Len(R) + 1 : i # to + 1 => M[i] = R[IF i <= to THEN i ELSE i - 1]
        BY <2>1, <3>1, Inserted, Zenon
      <3> HIDE DEF M
      <3>3. QED
        BY <2>1, <3>2
  <1>7. Moved(list, s, to) = M
    <2>1. (CHOOSE i \in DOMAIN list : list[i] = s) = from
      <3>1. DOMAIN list = 1 .. n
        OBVIOUS
      <3>2. QED
        BY <3>1
    <2>2. Moved(list, s, to) = InsertAt(RemoveAt(list, CHOOSE i \in DOMAIN list : list[i] = s), to + 1, s)
      BY DEF Moved
    <2>3. QED
      BY <1>5, <2>1, <2>2
  <1> HIDE DEF M
  <1>8. ASSUME NEW i \in 1 .. n, i # to + 1
        PROVE  LET k == IF i <= to THEN i ELSE i - 1
               IN  M[i] = IF k < from THEN list[k] ELSE list[k + 1]
    <2>1. (IF i <= to THEN i ELSE i - 1) \in 1 .. n - 1
      BY <1>1, <1>8
    <2>2. QED
      BY <1>4, <1>6, <1>8, <2>1
  <1>9. QED
    BY <1>6, <1>7, <1>8

\* The moved list holds what the list held; only the moved segment has changed
\* its place among the others.
LEMMA MovedOrder ==
    ASSUME NEW list \in Seq(Segments), NEW from \in 1 .. Len(list), NEW to \in Nat, to < Len(list),
           \A i, j \in 1 .. Len(list) : list[i] = list[j] => i = j
    PROVE  LET M == Moved(list, list[from], to) IN
           /\ M \in Seq(Segments) /\ Len(M) = Len(list)
           /\ \A i \in 1 .. Len(M) : M[i] = list[from] <=> i = to + 1
           /\ \A i, j \in 1 .. Len(M) : M[i] = M[j] => i = j
           /\ \A s \in Segments :
                 (\E i \in 1 .. Len(list) : list[i] = s) <=> (\E i \in 1 .. Len(M) : M[i] = s)
           /\ \A i, j \in 1 .. Len(M) :
                 i # to + 1 /\ j # to + 1 =>
                    \E a, b \in 1 .. Len(list) :
                       M[i] = list[a] /\ M[j] = list[b] /\ (i < j <=> a < b)
  <1> DEFINE n == Len(list)
             M == Moved(list, list[from], to)
             place(i) == IF i <= to THEN i ELSE i - 1
             src(i) == IF i = to + 1 THEN from
                       ELSE IF place(i) < from THEN place(i) ELSE place(i) + 1
  <1>1. /\ M \in Seq(Segments) /\ Len(M) = n /\ M[to + 1] = list[from]
        /\ \A i \in 1 .. n : i # to + 1 =>
              LET k == IF i <= to THEN i ELSE i - 1
              IN  M[i] = IF k < from THEN list[k] ELSE list[k + 1]
    BY MovedList
  <1> HIDE DEF M
  <1>2. n \in Nat /\ from \in Nat /\ 1 <= from /\ from <= n
    OBVIOUS
  <1>3. ASSUME NEW i \in 1 .. n PROVE src(i) \in 1 .. n /\ M[i] = list[src(i)]
    <2>1. src(i) \in 1 .. n
      BY <1>2
    <2>2. M[i] = list[src(i)]
      BY <1>1, <1>2
    <2>3. QED
      BY <2>1, <2>2
  <1>4. \A i \in 1 .. n : src(i) = from <=> i = to + 1
    BY <1>2
  <1>5. \A i, j \in 1 .. n : src(i) = src(j) => i = j
    BY <1>2
  <1>6. \A i, j \in 1 .. n : i # to + 1 /\ j # to + 1 => (i < j <=> src(i) < src(j))
    BY <1>2
  <1>7. ASSUME NEW a \in 1 .. n PROVE \E i \in 1 .. n : src(i) = a
    <2>1. CASE a = from
      <3>1. to + 1 \in 1 .. n /\ src(to + 1) = a
        BY <1>2, <2>1
      <3>2. QED
        BY <3>1
    <2>2. CASE a # from
      <3> DEFINE k == IF a < from THEN a ELSE a - 1
                 i == IF k <= to THEN k ELSE k + 1
      <3>1. i \in 1 .. n /\ i # to + 1 /\ place(i) = k
        BY <1>2, <2>2
      <3>2. src(i) = a
        BY <1>2, <2>2, <3>1
      <3>3. QED
        BY <3>1, <3>2
    <2>3. QED
      BY <2>1, <2>2
  <1> HIDE DEF src, n
  <1>8. \A i \in 1 .. n : M[i] = list[from] <=> i = to + 1
    BY <1>3, <1>4 DEF n
  <1>9. \A i, j \in 1 .. n : M[i] = M[j] => i = j
    BY <1>3, <1>5 DEF n
  <1>10. ASSUME NEW s \in Segments
         PROVE  (\E i \in 1 .. n : list[i] = s) <=> (\E i \in 1 .. n : M[i] = s)
    BY <1>3, <1>7
  <1>11. ASSUME NEW i \in 1 .. n, NEW j \in 1 .. n, i # to + 1, j # to + 1
         PROVE  \E a, b \in 1 .. n : M[i] = list[a] /\ M[j] = list[b] /\ (i < j <=> a < b)
    BY <1>3, <1>6, <1>11
  <1>12. Len(list) = Len(M)
    BY <1>1 DEF n
  <1>13. /\ M \in Seq(Segments)
         /\ \A i \in 1 .. Len(M) : M[i] = list[from] <=> i = to + 1
         /\ \A i, j \in 1 .. Len(M) : M[i] = M[j] => i = j
    BY <1>1, <1>8, <1>9
  <1>14. \A s \in Segments :
            (\E i \in 1 .. Len(list) : list[i] = s) <=> (\E i \in 1 .. Len(M) : M[i] = s)
    BY <1>1, <1>10, <1>12
  <1>15. \A i, j \in 1 .. Len(M) :
            i # to + 1 /\ j # to + 1 =>
               \E a, b \in 1 .. Len(list) :
                  M[i] = list[a] /\ M[j] = list[b] /\ (i < j <=> a < b)
    BY <1>1, <1>11, <1>12
  <1>16. QED
    BY <1>12, <1>13, <1>14, <1>15, Zenon DEF M

-----------------------------------------------------------------------------
(***************************************************************************)
(* Steps and the order.                                                    *)
(***************************************************************************)

\* The server starts in the invariant: the positions are those of an
\* injection, and no transaction is open.
LEMMA InitOrderInv == Init => OrderInv
  <1> SUFFICES ASSUME Init PROVE OrderInv
    OBVIOUS
  <1>1. PICK S \in SUBSET Segments : \E order \in [S -> 0 .. Cardinality(S) - 1] :
           /\ \A s, t \in S : order[s] = order[t] => s = t
           /\ segs = [s \in Segments |->
                         IF s \in S THEN [pos |-> order[s], version |-> 1, content |-> None]
                         ELSE None]
    BY DEF Init
  <1>2. PICK order \in [S -> 0 .. Cardinality(S) - 1] :
           /\ \A s, t \in S : order[s] = order[t] => s = t
           /\ segs = [s \in Segments |->
                         IF s \in S THEN [pos |-> order[s], version |-> 1, content |-> None]
                         ELSE None]
    BY <1>1
  <1>3. CommittedApart
    BY <1>2 DEF CommittedApart
  <1>4. \A r \in Requests, s \in Segments : draft[r][s] = Keep
    BY DEF Init, NoDraft
  <1>5. (\A r \in Requests : SeenApart(r)) /\ (\A q, r \in Requests : DraftsApart(q, r))
    BY <1>3, <1>4 DEF CommittedApart, SeenApart, DraftsApart, View
  <1>6. \A r \in Requests : Bookkeeping(r) /\ Aimed(r) /\ Planned(r) /\ NewLast(r)
    BY DEF Init, Bookkeeping, Aimed, Planned, NewLast
  <1>7. ids \in [Requests -> Seq(Segments)]
    BY DEF Init
  <1>8. QED
    BY <1>3, <1>5, <1>6, <1>7 DEF OrderInv

\* A step of one request, as the order sees it.
OrderStep(r) ==
    /\ OnlyLocal(r)
    /\ ids' = [ids EXCEPT ![r] = ids'[r]]
    /\ ids'[r] \in Seq(Segments)
    /\ UNCHANGED <<db, overtaken>>

\* It keeps the order of the other requests.
LEMMA LocalOrder ==
    ASSUME Types, OrderInv, NEW r \in Requests, OrderStep(r),
           SeenApart(r)', \A q \in Requests \ {r} : DraftsApart(q, r)',
           Bookkeeping(r)', Aimed(r)', ~overtaken[r] => Planned(r)' /\ NewLast(r)'
    PROVE  OrderInv'
  <1>1. segs' = segs /\ overtaken' = overtaken /\ OnlyLocal(r)
    BY DEF OrderStep, db
  <1>2. ids' \in [Requests -> Seq(Segments)]
    BY DEF OrderStep, OrderInv
  <1>3. ASSUME NEW q \in Requests \ {r}
        PROVE  /\ pc'[q] = pc[q] /\ op'[q] = op[q] /\ next'[q] = next[q] /\ ids'[q] = ids[q]
               /\ draft'[q] = draft[q] /\ reply'[q] = reply[q]
    BY <1>1, OthersUntouched DEF OrderStep, OrderInv, OnlyLocal, Types
  <1>4. CommittedApart'
    BY <1>1 DEF OrderInv, CommittedApart
  <1>5. ASSUME NEW q \in Requests \ {r}
        PROVE  /\ SeenApart(q)' /\ Bookkeeping(q)' /\ Aimed(q)'
               /\ ~overtaken'[q] => Planned(q)' /\ NewLast(q)'
    <2>1. SeenApart(q) /\ Bookkeeping(q) /\ Aimed(q) /\ (~overtaken[q] => Planned(q) /\ NewLast(q))
      BY DEF OrderInv
    <2>2. SeenApart(q)'
      BY <1>1, <1>3, <2>1 DEF SeenApart, View
    <2>3. Bookkeeping(q)' /\ Aimed(q)' /\ (NewLast(q) => NewLast(q)')
      BY <1>1, <1>3, <2>1 DEF Bookkeeping, Aimed, NewLast
    <2>4. Planned(q) => Planned(q)'
      <3>1. \A s \in Segments : View(q, s)' = View(q, s)
        BY <1>1, <1>3 DEF View
      <3>2. ASSUME NEW list \in Seq(Segments), Plan(q, list) PROVE Plan(q, list)'
        BY <1>1, <1>3, <3>1, <3>2 DEF Plan
      <3>3. QED
        BY <1>3, <3>2 DEF Planned
    <2>5. QED
      BY <1>1, <2>1, <2>2, <2>3, <2>4
  <1>6. ASSUME NEW p \in Requests, NEW q \in Requests, p # q PROVE DraftsApart(p, q)'
    <2>1. CASE q = r
      BY <1>6, <2>1
    <2>2. CASE p = r
      <3>1. DraftsApart(q, p)'
        BY <1>6, <2>2
      <3>2. QED
        BY <3>1 DEF DraftsApart
    <2>3. CASE p # r /\ q # r
      <3>1. DraftsApart(p, q)
        BY <1>6 DEF OrderInv
      <3>2. QED
        BY <1>3, <2>3, <3>1 DEF DraftsApart
    <2>4. QED
      BY <2>1, <2>2, <2>3
  <1>7. QED
    BY <1>1, <1>2, <1>4, <1>5, <1>6 DEF OrderInv

\* A step that writes no row.
LEMMA QuietOrder ==
    ASSUME Types, OrderInv, NEW r \in Requests, OrderStep(r), draft'[r] = draft[r],
           Bookkeeping(r)', Aimed(r)', ~overtaken[r] => Planned(r)' /\ NewLast(r)'
    PROVE  OrderInv'
  <1>1. segs' = segs /\ OnlyLocal(r) /\ SeenApart(r)
    BY DEF OrderStep, OrderInv, db
  <1>2. SeenApart(r)'
    BY <1>1 DEF SeenApart, View
  <1>3. ASSUME NEW q \in Requests \ {r} PROVE DraftsApart(q, r)'
    <2>1. DraftsApart(q, r) /\ draft'[q] = draft[q]
      BY <1>1, OthersUntouched DEF OrderInv
    <2>2. QED
      BY <2>1 DEF DraftsApart
  <1>4. QED
    BY <1>2, <1>3, LocalOrder

\* A step that writes one row, at a position where no other row is or is about
\* to be.
LEMMA WriteOrder ==
    ASSUME Types, OrderInv, NEW r \in Requests, OrderStep(r),
           NEW s \in Segments, NEW row \in Row \cup {None}, Draft(r, s, row),
           row # None =>
              /\ \A t \in Segments \ {s} : View(r, t) # None => View(r, t).pos # row.pos
              /\ \A q \in Requests \ {r}, t \in Segments \ {s} :
                    draft[q][t] \notin {Keep, None} => draft[q][t].pos # row.pos,
           Bookkeeping(r)', Aimed(r)', ~overtaken[r] => Planned(r)' /\ NewLast(r)'
    PROVE  OrderInv'
  <1>1. segs' = segs /\ OnlyLocal(r) /\ SeenApart(r)
    BY DEF OrderStep, OrderInv, db
  <1>2. \A t \in Segments : draft'[r][t] = IF t = s THEN row ELSE draft[r][t]
    BY DEF Draft, Types
  <1>3. \A t \in Segments : View(r, t)' = IF t = s THEN row ELSE View(r, t)
    BY <1>1, <1>2, Absences DEF View
  <1>4. SeenApart(r)'
    BY <1>1, <1>3 DEF SeenApart
  <1>5. ASSUME NEW q \in Requests \ {r} PROVE DraftsApart(q, r)'
    <2>1. DraftsApart(q, r) /\ draft'[q] = draft[q]
      BY <1>1, OthersUntouched DEF OrderInv
    <2>2. QED
      BY <1>2, <2>1 DEF DraftsApart
  <1>6. QED
    BY <1>4, <1>5, LocalOrder

\* The end of a transaction that commits nothing.
LEMMA CloseOrder ==
    ASSUME Types, OrderInv, NEW r \in Requests, NEW where \in {"done", "failed"},
           NEW answer \in {"pending", "ok", "version_conflict", "resource_not_found",
                           "position_invalid"},
           Close(r, where, answer), UNCHANGED <<db, op, overtaken>>
    PROVE  OrderInv'
  <1>1. /\ OnlyLocal(r) /\ pc'[r] = where /\ draft'[r] = NoDraft
    BY Closed
  <1>2. ids' = [ids EXCEPT ![r] = <<>>] /\ ids'[r] = <<>> /\ next'[r] = 0
    BY DEF Close, Types, OrderInv
  <1>3. OrderStep(r)
    <2>1. ids'[r] \in Seq(Segments)
      BY <1>2, EmptySeq, Zenon
    <2>2. ids' = [ids EXCEPT ![r] = ids'[r]]
      BY <1>2, Zenon
    <2>3. QED
      BY <1>1, <2>1, <2>2 DEF OrderStep
  <1>4. segs' = segs /\ \A s \in Segments : draft'[r][s] = Keep
    BY <1>1 DEF NoDraft, db
  <1>5. SeenApart(r)'
    BY <1>4 DEF OrderInv, CommittedApart, SeenApart, View
  <1>6. \A q \in Requests \ {r} : DraftsApart(q, r)'
    BY <1>4 DEF DraftsApart
  <1>7. Bookkeeping(r)' /\ Aimed(r)' /\ Planned(r)' /\ NewLast(r)'
    BY <1>1, <1>2, <1>4, Absences DEF Bookkeeping, Aimed, Planned, NewLast
  <1>8. QED
    BY <1>3, <1>5, <1>6, <1>7, LocalOrder

\* A transaction is rolled back.
LEMMA RefusalOrder ==
    ASSUME Types, OrderInv, NEW r \in Requests,
           NEW code \in {"version_conflict", "resource_not_found", "position_invalid"},
           Raise(r, code) \/ Fail(r)
    PROVE  OrderInv'
  BY CloseOrder DEF Raise, Fail

\* The new position of a reorder is a number.
LEMMA TargetType ==
    ASSUME NEW o \in Operations, o.kind = "reorder"
    PROVE  o.to \in Nat /\ o.seg \in Segments
  <1>1. Cardinality(Segments) \in Nat
    BY SegmentsAssumption, FS_CardinalityType
  <1>2. o.to \in Positions /\ o.seg \in Segments
    BY DEF Operations
  <1>3. QED
    BY <1>1, <1>2 DEF Positions

\* A request goes on to its next statement with what it has.
LEMMA PassOrder ==
    ASSUME TimelineInv, OrderInv, NEW r \in Requests, OnlyLocal(r),
           UNCHANGED <<db, op, ids, next, draft, overtaken, reply>>,
           \/ pc[r] = "read" /\ pc'[r] \in {"update", "list", "delete"}
           \/ pc[r] = "park" /\ pc'[r] = "parking"
           \/ pc[r] = "parking" /\ pc'[r] \in {"parking", "renumber"}
           \/ pc[r] = "renumber" /\ pc'[r] = "touch" /\ ids[r] = <<>>
           \/ pc[r] = "delete" /\ pc'[r] = "list"
           \/ pc[r] = "drop" /\ pc'[r] = "cascade"
           \/ pc[r] = "cascade" /\ pc'[r] \in {"cascade", "commit"}
           \/ pc[r] = "touch" /\ pc'[r] = "commit"
    PROVE  OrderInv'
  <1>1. /\ Types /\ Carries(r) /\ Bookkeeping(r) /\ Aimed(r) /\ op[r] \in Operations
        /\ next[r] \in Nat /\ ids[r] \in Seq(Segments)
    BY DEF TimelineInv, OrderInv, Carries, Types
  <1>2. /\ segs' = segs /\ op'[r] = op[r] /\ ids'[r] = ids[r] /\ next'[r] = next[r]
        /\ draft'[r] = draft[r] /\ reply'[r] = reply[r]
    BY DEF db
  <1>3. OrderStep(r)
    <2>1. ids' = [ids EXCEPT ![r] = ids'[r]]
      BY DEF OrderInv
    <2>2. QED
      BY <1>1, <1>2, <2>1 DEF OrderStep
  <1>4. Bookkeeping(r)'
    BY <1>1, <1>2 DEF Bookkeeping
  <1>5. Aimed(r)'
    <2>1. SUFFICES ASSUME op[r].kind = "reorder" PROVE Aimed(r)'
      BY <1>2 DEF Aimed
    <2>2. op[r].to \in Nat
      BY <1>1, <2>1, TargetType
    <2>3. \A s \in Segments : draft[r][s] # None
      BY <1>1, <2>1 DEF Aimed
    <2>4. CASE pc[r] = "renumber"
      <3>1. Len(ids[r]) = 0 /\ next[r] > op[r].to
        BY <1>1, <2>1, <2>2, <2>4 DEF Aimed
      <3>2. QED
        BY <1>1, <1>2, <2>1, <2>3, <2>4, <3>1 DEF Aimed
    <2>5. CASE pc[r] \in {"park", "parking"}
      <3>1. next[r] = 0
        BY <1>1, <2>5 DEF Bookkeeping
      <3>2. QED
        BY <1>1, <1>2, <2>1, <2>2, <2>3, <2>5, <3>1 DEF Aimed
    <2>6. CASE pc[r] \notin {"park", "parking", "renumber"}
      BY <1>1, <1>2, <2>1, <2>3, <2>6 DEF Aimed, Carries
    <2>7. QED
      BY <2>4, <2>5, <2>6
  <1>6. Planned(r) => Planned(r)'
    <2>1. \A s \in Segments : View(r, s)' = View(r, s)
      BY <1>2 DEF View
    <2>2. ASSUME NEW list \in Seq(Segments), Plan(r, list) PROVE Plan(r, list)'
      BY <1>2, <2>1, <2>2 DEF Plan
    <2>3. pc'[r] \in {"park", "parking", "renumber", "touch", "commit"}
             /\ op[r].kind \in {"reorder", "delete"} =>
                pc[r] \in {"park", "parking", "renumber", "touch", "commit"}
      BY <1>1 DEF Carries
    <2>4. QED
      BY <1>2, <2>2, <2>3 DEF Planned
  <1>7. NewLast(r) => NewLast(r)'
    BY <1>1, <1>2 DEF NewLast, Carries
  <1>8. QED
    BY <1>1, <1>2, <1>3, <1>4, <1>5, <1>6, <1>7, QuietOrder DEF OrderInv

\* The steps that pass.
LEMMA PassSteps ==
    ASSUME TimelineInv, OrderInv, NEW r \in Requests,
           \/ OwnedForUpdate(r) \/ OwnedForReorder(r) \/ OwnedForDelete(r)
           \/ Park(r) \/ Parked(r) \/ Renumbered(r) \/ Cascaded(r) \/ TouchJourney(r)
    PROVE  OrderInv'
  <1>1. Types
    BY DEF TimelineInv
  <1>2. UNCHANGED <<db, op, ids, next, draft, overtaken, reply>>
    BY DEF OwnedForUpdate, OwnedForReorder, OwnedForDelete, Park, Parked, Renumbered, Cascaded,
           TouchJourney
  <1>3. /\ todo' = [todo EXCEPT ![r] = todo'[r]]
        /\ touch' = [touch EXCEPT ![r] = touch'[r]]
        /\ pc' = [pc EXCEPT ![r] = pc'[r]]
    BY <1>1 DEF Types, Goto, OwnedForUpdate, OwnedForReorder, OwnedForDelete, Park, Parked,
           Renumbered, Cascaded, TouchJourney
  <1>4. OnlyLocal(r)
    BY <1>1, <1>2, <1>3 DEF OnlyLocal, Types
  <1>5. \/ pc[r] = "read" /\ pc'[r] \in {"update", "list", "delete"}
        \/ pc[r] = "park" /\ pc'[r] = "parking"
        \/ pc[r] = "parking" /\ pc'[r] \in {"parking", "renumber"}
        \/ pc[r] = "renumber" /\ pc'[r] = "touch" /\ ids[r] = <<>>
        \/ pc[r] = "cascade" /\ pc'[r] \in {"cascade", "commit"}
        \/ pc[r] = "touch" /\ pc'[r] = "commit"
    BY <1>1 DEF Types, Goto, Reading, OwnedForUpdate, OwnedForReorder, OwnedForDelete, Park,
           Parked, Renumbered, Cascaded, TouchJourney
  <1>6. QED
    BY <1>2, <1>4, <1>5, PassOrder

\* A request arrives.
LEMMA BeginOrder ==
    ASSUME TimelineInv, OrderInv, NEW r \in Requests, Begin(r) PROVE OrderInv'
  <1>1. Types /\ pc[r] = "new" /\ draft[r] = NoDraft /\ Bookkeeping(r)
    BY DEF TimelineInv, Begin, Carries, OrderInv
  <1>2. /\ op' = [op EXCEPT ![r] = op'[r]]
        /\ pc' = [pc EXCEPT ![r] = pc'[r]] /\ pc'[r] \in {"drop", "read"}
        /\ UNCHANGED <<db, ids, next, todo, draft, touch, overtaken, reply>>
    BY <1>1 DEF Begin, Types, Goto
  <1>3. OrderStep(r)
    BY <1>1, <1>2 DEF OrderStep, OnlyLocal, Types, OrderInv
  <1>4. Bookkeeping(r)'
    BY <1>1, <1>2 DEF Bookkeeping
  <1>5. Aimed(r)' /\ Planned(r)' /\ NewLast(r)'
    BY <1>1, <1>2, Absences DEF Aimed, Planned, NewLast, NoDraft
  <1>6. QED
    BY <1>1, <1>2, <1>3, <1>4, <1>5, QuietOrder

\* create_segment has read the largest position.
LEMMA ReadMaxOrder ==
    ASSUME TimelineInv, OrderInv, NEW r \in Requests, ReadMax(r) PROVE OrderInv'
  <1> DEFINE used == {segs[s].pos + 1 : s \in {t \in Segments : segs[t] # None}} \cup {0}
  <1>1. /\ Types /\ pc[r] = "read" /\ op[r].kind = "create" /\ draft[r] = NoDraft /\ Bookkeeping(r)
        /\ op[r] \in Operations
    BY DEF TimelineInv, ReadMax, Reading, Carries, OrderInv
  <1>2. /\ next' = [next EXCEPT ![r] = Max(used)] /\ pc' = [pc EXCEPT ![r] = "insert"]
        /\ UNCHANGED <<db, op, ids, todo, draft, touch, overtaken, reply>>
    BY DEF ReadMax, Goto
  <1>3. /\ next'[r] = Max(used) /\ pc'[r] = "insert" /\ OrderStep(r)
        /\ next' = [next EXCEPT ![r] = next'[r]]
    <2>1. ids'[r] \in Seq(Segments) /\ ids' = [ids EXCEPT ![r] = ids'[r]]
      BY <1>2 DEF OrderInv
    <2> HIDE DEF used
    <2>2. QED
      BY <1>1, <1>2, <2>1 DEF OrderStep, OnlyLocal, Types
  <1>4. Max(used) \in used /\ \A n \in used : Max(used) >= n
    BY <1>1, LargestPosition
  <1>5. NewLast(r)'
    <2>1. \A s \in Segments : segs[s] # None => segs[s].pos \in Nat /\ segs[s].pos + 1 \in used
      BY <1>1 DEF Types, Row
    <2>2. Max(used) = 0 \/ \E s \in Segments : segs[s] # None /\ Max(used) = segs[s].pos + 1
      BY <1>4
    <2>3. \A s \in Segments : segs[s] # None => segs[s].pos < Max(used)
      <3>1. Max(used) \in Nat
        BY <1>1, LargestPosition
      <3> HIDE DEF used
      <3>2. QED
        BY <1>4, <2>1, <3>1
    <2> HIDE DEF used
    <2>4. QED
      BY <1>2, <1>3, <2>2, <2>3 DEF NewLast, db
  <1>6. Bookkeeping(r)' /\ Aimed(r)' /\ Planned(r)'
    <2> HIDE DEF used
    <2>1. QED
      BY <1>1, <1>2, <1>3 DEF Bookkeeping, Aimed, Planned
  <1>7. QED
    BY <1>1, <1>2, <1>3, <1>5, <1>6, QuietOrder

\* reorder_segment has read the identifiers and moved its own.
LEMMA ListReorderOrder ==
    ASSUME TimelineInv, OrderInv, NEW r \in Requests, ListForReorder(r) PROVE OrderInv'
  <1> DEFINE L == Listed(r)
             M == Moved(L, op[r].seg, op[r].to)
             to == op[r].to
             seg == op[r].seg
  <1>1. /\ Types /\ Carries(r) /\ pc[r] = "list" /\ op[r].kind = "reorder" /\ op[r] \in Operations
        /\ draft[r] = NoDraft /\ Bookkeeping(r) /\ SeenApart(r)
    BY DEF TimelineInv, ListForReorder, Carries, OrderInv
  <1>2. CASE Raise(r, "position_invalid") \/ Fail(r)
    BY <1>1, <1>2, RefusalOrder
  <1>3. CASE ~(Raise(r, "position_invalid") \/ Fail(r))
    <2>1. /\ ~(to >= Len(L)) /\ segs[seg] # None
          /\ ids' = [ids EXCEPT ![r] = M] /\ pc' = [pc EXCEPT ![r] = "park"]
          /\ UNCHANGED <<db, op, next, todo, draft, touch, overtaken, reply>>
      BY <1>3 DEF ListForReorder, Goto
    <2>2. to \in Nat /\ seg \in Segments
      BY <1>1, TargetType
    <2>3. \A s \in Segments : View(r, s) = segs[s]
      BY <1>1 DEF View, NoDraft
    <2>4. /\ L \in Seq(Segments)
          /\ \A s \in Segments : segs[s] # None <=> \E i \in 1 .. Len(L) : L[i] = s
          /\ \A i, j \in 1 .. Len(L) : L[i] = L[j] => i = j
          /\ \A i, j \in 1 .. Len(L) : i < j => View(r, L[i]).pos < View(r, L[j]).pos
      BY <1>1, <2>3, ListedRows
    <2> HIDE DEF L
    <2>5. ASSUME NEW a \in 1 .. Len(L), NEW b \in 1 .. Len(L)
          PROVE  a < b <=> segs[L[a]].pos < segs[L[b]].pos
      <3>1. L[a] \in Segments /\ L[b] \in Segments
        BY <2>4
      <3>2. segs[L[a]].pos \in Nat /\ segs[L[b]].pos \in Nat
        BY <1>1, <2>4, <3>1 DEF Types, Row
      <3>3. /\ a < b => segs[L[a]].pos < segs[L[b]].pos
            /\ b < a => segs[L[b]].pos < segs[L[a]].pos
        BY <2>3, <2>4, <3>1
      <3>4. QED
        BY <3>2, <3>3
    <2>6. PICK from \in 1 .. Len(L) : L[from] = seg
      BY <2>1, <2>2, <2>4
    <2>7. /\ M \in Seq(Segments) /\ Len(M) = Len(L)
          /\ \A i \in 1 .. Len(M) : M[i] = seg <=> i = to + 1
          /\ \A i, j \in 1 .. Len(M) : M[i] = M[j] => i = j
          /\ \A s \in Segments : (\E i \in 1 .. Len(L) : L[i] = s) <=> (\E i \in 1 .. Len(M) : M[i] = s)
          /\ \A i, j \in 1 .. Len(M) :
                i # to + 1 /\ j # to + 1 =>
                   \E a, b \in 1 .. Len(L) : M[i] = L[a] /\ M[j] = L[b] /\ (i < j <=> a < b)
      <3>1. to < Len(L)
        BY <2>1, <2>2, <2>4
      <3>2. M = Moved(L, L[from], to)
        BY <2>6
      <3> DEFINE N == Moved(L, L[from], to)
      <3> HIDE DEF M, to, seg
      <3>3. /\ N \in Seq(Segments) /\ Len(N) = Len(L)
            /\ \A i \in 1 .. Len(N) : N[i] = L[from] <=> i = to + 1
            /\ \A i, j \in 1 .. Len(N) : N[i] = N[j] => i = j
            /\ \A s \in Segments :
                  (\E i \in 1 .. Len(L) : L[i] = s) <=> (\E i \in 1 .. Len(N) : N[i] = s)
            /\ \A i, j \in 1 .. Len(N) :
                  i # to + 1 /\ j # to + 1 =>
                     \E a, b \in 1 .. Len(L) : N[i] = L[a] /\ N[j] = L[b] /\ (i < j <=> a < b)
        BY <2>2, <2>4, <3>1, MovedOrder
      <3> HIDE DEF N
      <3>4. QED
        BY <2>6, <3>2, <3>3 DEF N
    <2> HIDE DEF M
    <2>8. /\ ids'[r] = M /\ pc'[r] = "park" /\ next'[r] = 0 /\ op'[r] = op[r]
          /\ draft'[r] = NoDraft /\ segs' = segs /\ reply'[r] = reply[r]
      BY <1>1, <2>1 DEF Types, OrderInv, Bookkeeping, db
    <2>9. OrderStep(r)
      <3>1. ids' = [ids EXCEPT ![r] = ids'[r]]
        BY <2>1, <2>8
      <3>2. QED
        BY <1>1, <2>1, <2>7, <2>8, <3>1 DEF OrderStep, OnlyLocal, Types
    <2>10. Bookkeeping(r)' /\ NewLast(r)'
      BY <1>1, <2>8 DEF Bookkeeping, NewLast
    <2>11. Aimed(r)'
      <3>1. \A s \in Segments : draft'[r][s] # None
        BY <2>8, Absences DEF NoDraft
      <3>2. 0 + Len(M) > to /\ \A i \in 1 .. Len(M) : M[i] = seg <=> 0 + i = to + 1
        BY <2>1, <2>2, <2>4, <2>7
      <3>3. QED
        BY <2>8, <3>1, <3>2 DEF Aimed
    <2>12. Planned(r)'
      <3>1. \A s \in Segments : View(r, s)' = segs[s]
        BY <2>8 DEF View, NoDraft
      <3>2. ASSUME NEW i \in 1 .. Len(M), NEW j \in 1 .. Len(M), M[i] # seg, M[j] # seg
            PROVE  i < j <=> segs[M[i]].pos < segs[M[j]].pos
        <4>1. PICK a \in 1 .. Len(L), b \in 1 .. Len(L) :
                 M[i] = L[a] /\ M[j] = L[b] /\ (i < j <=> a < b)
          BY <2>7, <3>2
        <4>2. QED
          BY <2>5, <4>1
      <3>3. /\ Len(M) = 0 + Len(M) /\ \A i \in 1 .. Len(M) : M[i] = M[0 + i]
            /\ \A i \in 1 .. 0 : FALSE
        BY <2>7
      <3>4. PICK list \in Seq(Segments) : list = M
        BY <2>7
      <3>5. Plan(r, list)'
        <4>1. \A s \in Segments : View(r, s)' # None <=> \E i \in 1 .. Len(list) : list[i] = s
          BY <2>4, <2>7, <3>1, <3>4
        <4>2. \A i, j \in 1 .. Len(list) : list[i] = list[j] => i = j
          BY <2>7, <3>4
        <4>3. /\ Len(list) = next'[r] + Len(ids'[r])
              /\ \A i \in 1 .. Len(ids'[r]) : ids'[r][i] = list[next'[r] + i]
              /\ \A i \in 1 .. next'[r] : FALSE
          BY <2>8, <3>3, <3>4
        <4>4. \A i, j \in 1 .. Len(list) :
                 list[i] # op'[r].seg /\ list[j] # op'[r].seg =>
                    (i < j <=> segs'[list[i]].pos < segs'[list[j]].pos)
          BY <2>8, <3>2, <3>4
        <4>5. QED
          BY <4>1, <4>2, <4>3, <4>4 DEF Plan
      <3>6. QED
        BY <3>5 DEF Planned
    <2>13. QED
      BY <1>1, <2>8, <2>9, <2>10, <2>11, <2>12, QuietOrder
  <1>4. QED
    BY <1>2, <1>3

\* _compact_segments has read the identifiers.
LEMMA ListCompactionOrder ==
    ASSUME TimelineInv, OrderInv, NEW r \in Requests, ListForCompaction(r) PROVE OrderInv'
  <1> DEFINE L == Listed(r)
  <1>1. /\ Types /\ Carries(r) /\ pc[r] = "list" /\ op[r].kind = "delete"
        /\ Bookkeeping(r) /\ SeenApart(r)
    BY DEF TimelineInv, ListForCompaction, OrderInv
  <1>2. /\ ids' = [ids EXCEPT ![r] = L] /\ pc' = [pc EXCEPT ![r] = "renumber"]
        /\ UNCHANGED <<db, op, next, todo, draft, touch, overtaken, reply>>
    BY DEF ListForCompaction, Goto
  <1>3. /\ L \in Seq(Segments)
        /\ \A s \in Segments : View(r, s) # None <=> \E i \in 1 .. Len(L) : L[i] = s
        /\ \A i, j \in 1 .. Len(L) : L[i] = L[j] => i = j
    BY <1>1, ListedRows
  <1> HIDE DEF L
  <1>4. /\ ids'[r] = L /\ pc'[r] = "renumber" /\ next'[r] = 0 /\ op'[r] = op[r]
        /\ draft'[r] = draft[r] /\ segs' = segs /\ reply'[r] = reply[r]
    BY <1>1, <1>2 DEF Types, OrderInv, Bookkeeping, db
  <1>5. OrderStep(r)
    <2>1. ids' = [ids EXCEPT ![r] = ids'[r]]
      BY <1>2, <1>4
    <2>2. QED
      BY <1>1, <1>2, <1>3, <1>4, <2>1 DEF OrderStep, OnlyLocal, Types
  <1>6. Bookkeeping(r)' /\ NewLast(r)' /\ Aimed(r)'
    BY <1>1, <1>4 DEF Bookkeeping, NewLast, Aimed
  <1>7. Planned(r)'
    <2>1. \A s \in Segments : View(r, s)' = View(r, s)
      BY <1>4 DEF View
    <2>2. /\ Len(L) = 0 + Len(L) /\ \A i \in 1 .. Len(L) : L[i] = L[0 + i]
          /\ \A i \in 1 .. 0 : FALSE
      BY <1>3
    <2>3. PICK list \in Seq(Segments) : list = L
      BY <1>3
    <2>4. Plan(r, list)'
      BY <1>1, <1>3, <1>4, <2>1, <2>2, <2>3 DEF Plan
    <2>5. QED
      BY <2>4 DEF Planned
  <1>8. QED
    BY <1>1, <1>4, <1>5, <1>6, <1>7, QuietOrder

\* create_segment writes its row.
LEMMA InsertOrder ==
    ASSUME TimelineInv, OrderInv, NEW r \in Requests, Insert(r) PROVE OrderInv'
  <1> DEFINE s == op[r].seg
             row == [pos |-> next[r], version |-> 1, content |-> r]
  <1>1. /\ Types /\ Carries(r) /\ Bookkeeping(r) /\ pc[r] = "insert" /\ op[r] \in Operations
        /\ op[r].kind = "create" /\ s \in Segments /\ next[r] \in Nat
    BY OperationTypes DEF TimelineInv, OrderInv, Insert, Carries, Types
  <1>2. CASE Fail(r)
    BY <1>1, <1>2, RefusalOrder
  <1>3. CASE ~Fail(r)
    <2>1. /\ PositionFree(r, next[r]) /\ ~Taken(r, s, next[r])
          /\ Draft(r, s, row) /\ pc' = [pc EXCEPT ![r] = "touch"]
          /\ UNCHANGED <<db, op, ids, next, todo, touch, overtaken, reply>>
      BY <1>3 DEF Insert, Goto
    <2>2. row \in Row /\ row.pos = next[r] /\ row \notin {Keep, None}
      BY <1>1, Absences DEF Row
    <2> HIDE DEF row
    <2>3. pc'[r] = "touch" /\ draft'[r][s] = row /\ segs' = segs
      BY <1>1, <2>1 DEF Types, Draft, db
    <2>4. OrderStep(r)
      BY <1>1, <2>1 DEF OrderStep, OnlyLocal, Types, Draft, OrderInv
    <2>5. /\ \A t \in Segments \ {s} : View(r, t) # None => View(r, t).pos # row.pos
          /\ \A q \in Requests \ {r}, t \in Segments \ {s} :
                draft[q][t] \notin {Keep, None} => draft[q][t].pos # row.pos
      BY <2>1, <2>2 DEF PositionFree, Taken
    <2>6. Bookkeeping(r)' /\ Aimed(r)' /\ Planned(r)'
      BY <1>1, <2>1, <2>3 DEF Bookkeeping, Aimed, Planned
    <2>7. ~overtaken[r] => NewLast(r)'
      BY <1>1, <2>1, <2>2, <2>3 DEF OrderInv, NewLast
    <2>8. QED
      BY <1>1, <2>1, <2>2, <2>4, <2>5, <2>6, <2>7, WriteOrder
  <1>4. QED
    BY <1>2, <1>3

\* update_segment leaves its row where it is.
LEMMA UpdateOrder ==
    ASSUME TimelineInv, OrderInv, NEW r \in Requests, UpdateSegment(r) PROVE OrderInv'
  <1> DEFINE s == op[r].seg
             row == [segs[s] EXCEPT !.version = @ + 1, !.content = r]
  <1>1. /\ Types /\ Carries(r) /\ Bookkeeping(r) /\ SeenApart(r) /\ pc[r] = "update"
        /\ op[r] \in Operations /\ op[r].kind = "update" /\ s \in Segments /\ draft[r] = NoDraft
    BY OperationTypes DEF TimelineInv, OrderInv, UpdateSegment, Carries
  <1>2. /\ segs[s] # None /\ RowFree(r, s)
        /\ Draft(r, s, row) /\ pc' = [pc EXCEPT ![r] = "touch"]
        /\ UNCHANGED <<db, op, ids, next, todo, touch, overtaken, reply>>
    BY DEF UpdateSegment, Matches, Goto
  <1>3. row \in Row /\ row.pos = segs[s].pos
    <2>1. segs[s] \in Row
      BY <1>1, <1>2 DEF Types
    <2>2. row = [pos |-> segs[s].pos, version |-> segs[s].version + 1, content |-> r]
      BY <2>1, EditedRow
    <2>3. QED
      BY <2>1, <2>2 DEF Row
  <1> HIDE DEF row
  <1>4. pc'[r] = "touch" /\ OrderStep(r)
    BY <1>1, <1>2 DEF OrderStep, OnlyLocal, Types, Draft, OrderInv
  <1>5. \A t \in Segments \ {s} : View(r, t) # None => View(r, t).pos # row.pos
    BY <1>1, <1>2, <1>3 DEF SeenApart, View, NoDraft
  <1>6. ASSUME NEW q \in Requests \ {r}, NEW t \in Segments \ {s}, draft[q][t] \notin {Keep, None}
        PROVE  draft[q][t].pos # row.pos
    <2>1. View(q, s) = segs[s] /\ View(q, t) = draft[q][t]
      BY <1>2, <1>6 DEF RowFree, View
    <2>2. SeenApart(q)
      BY DEF OrderInv
    <2>3. QED
      BY <1>1, <1>2, <1>3, <1>6, <2>1, <2>2 DEF SeenApart
  <1>7. Bookkeeping(r)' /\ Aimed(r)' /\ Planned(r)' /\ NewLast(r)'
    BY <1>1, <1>2, <1>4 DEF Bookkeeping, Aimed, Planned, NewLast
  <1>8. QED
    BY <1>1, <1>2, <1>3, <1>4, <1>5, <1>6, <1>7, WriteOrder

\* delete_segment and the cascade of delete_journey write no position.
LEMMA DeletionOrder ==
    ASSUME TimelineInv, OrderInv, NEW r \in Requests,
           DeleteRow(r) \/ DropJourney(r) \/ CascadeRow(r)
    PROVE  OrderInv'
  <1>1. /\ Types /\ Carries(r) /\ Bookkeeping(r) /\ pc[r] \in {"delete", "drop", "cascade"}
        /\ op[r] \in Operations /\ op[r].kind \in {"delete", "delete_journey"}
        /\ pc[r] = "delete" => op[r].seg \in Segments
    BY OperationTypes DEF TimelineInv, OrderInv, DeleteRow, DropJourney, CascadeRow, Carries
  <1>2. CASE Raise(r, "resource_not_found")
    BY <1>1, <1>2, RefusalOrder
  <1>3. CASE ~Raise(r, "resource_not_found")
    <2>1. /\ UNCHANGED <<db, op, ids, next, overtaken, reply>>
          /\ pc' = [pc EXCEPT ![r] = pc'[r]]
          /\ touch' = [touch EXCEPT ![r] = touch'[r]]
          /\ todo' = [todo EXCEPT ![r] = todo'[r]]
          /\ \/ pc[r] = "delete" /\ pc'[r] = "list"
             \/ pc[r] = "drop" /\ pc'[r] = "cascade"
             \/ pc[r] = "cascade" /\ pc'[r] = "cascade"
      BY <1>1, <1>3 DEF DeleteRow, DropJourney, CascadeRow, Goto, Types
    <2>2. draft' = draft \/ \E s \in Segments : Draft(r, s, None)
      BY <1>1, <1>3 DEF DeleteRow, DropJourney, CascadeRow, Types
    <2>3. CASE draft' = draft
      <3>1. OnlyLocal(r)
        BY <1>1, <2>1, <2>3 DEF OnlyLocal, Types
      <3>2. QED
        BY <2>1, <2>3, <3>1, PassOrder
    <2>4. ASSUME NEW s \in Segments, Draft(r, s, None) PROVE OrderInv'
      <3>1. draft' = [draft EXCEPT ![r] = draft'[r]]
        BY <1>1, <2>4 DEF Draft, Types
      <3>2. OrderStep(r)
        BY <1>1, <2>1, <3>1 DEF OrderStep, OnlyLocal, Types, OrderInv
      <3>3. Bookkeeping(r)' /\ Aimed(r)' /\ Planned(r)' /\ NewLast(r)'
        BY <1>1, <2>1 DEF Bookkeeping, Aimed, Planned, NewLast
      <3>4. QED
        BY <1>1, <2>4, <3>2, <3>3, WriteOrder
    <2>5. QED
      BY <2>2, <2>3, <2>4
  <1>4. QED
    BY <1>2, <1>3

\* reorder_segment parks a row.
LEMMA ParkRowOrder ==
    ASSUME TimelineInv, OrderInv, NEW r \in Requests, ParkRow(r) PROVE OrderInv'
  <1>1. /\ Types /\ Carries(r) /\ Bookkeeping(r) /\ Aimed(r) /\ pc[r] = "parking"
        /\ op[r] \in Operations /\ op[r].kind = "reorder" /\ next[r] = 0
    BY DEF TimelineInv, OrderInv, ParkRow, Carries, Bookkeeping
  <1>2. CASE Fail(r)
    BY <1>1, <1>2, RefusalOrder
  <1>3. CASE ~Fail(r)
    <2>1. PICK s \in todo[r] :
             /\ todo' = [todo EXCEPT ![r] = @ \ {s}]
             /\ UNCHANGED <<db, pc, op, ids, next, touch, overtaken, reply>>
             /\ \/ segs[s] = None /\ draft' = draft
                \/ /\ segs[s] # None
                   /\ PositionFree(r, segs[s].pos + Parking)
                   /\ ~Taken(r, s, segs[s].pos + Parking)
                   /\ Draft(r, s, [segs[s] EXCEPT !.pos = segs[s].pos + Parking])
      BY <1>3 DEF ParkRow
    <2>2. s \in Segments
      BY <1>1 DEF Types
    <2>3. CASE segs[s] = None /\ draft' = draft
      <3>1. OnlyLocal(r)
        BY <1>1, <2>1, <2>3 DEF OnlyLocal, Types
      <3>2. QED
        BY <1>1, <2>1, <2>3, <3>1, PassOrder
    <2>4. CASE ~(segs[s] = None /\ draft' = draft)
      <3> DEFINE row == [segs[s] EXCEPT !.pos = segs[s].pos + Parking]
      <3>1. /\ segs[s] # None /\ PositionFree(r, segs[s].pos + Parking)
            /\ ~Taken(r, s, segs[s].pos + Parking) /\ Draft(r, s, row)
        BY <2>1, <2>4
      <3>2. row \in Row /\ row.pos = segs[s].pos + Parking
        <4>1. segs[s] \in Row
          BY <1>1, <2>2, <3>1 DEF Types
        <4>2. row = [pos |-> segs[s].pos + Parking, version |-> segs[s].version,
                     content |-> segs[s].content]
          BY <4>1 DEF Row
        <4>3. QED
          BY <4>1, <4>2 DEF Row, Parking
      <3> HIDE DEF row
      <3>3. OrderStep(r)
        BY <1>1, <2>1, <3>1 DEF OrderStep, OnlyLocal, Types, Draft, OrderInv
      <3>4. /\ \A t \in Segments \ {s} : View(r, t) # None => View(r, t).pos # row.pos
            /\ \A q \in Requests \ {r}, t \in Segments \ {s} :
                  draft[q][t] \notin {Keep, None} => draft[q][t].pos # row.pos
        BY <3>1, <3>2 DEF PositionFree, Taken
      <3>5. /\ \A t \in Segments : draft'[r][t] = IF t = s THEN row ELSE draft[r][t]
            /\ segs' = segs /\ row # None /\ row # Keep
        BY <1>1, <2>1, <3>1, <3>2, Absences DEF Types, Draft, db
      <3>6. Bookkeeping(r)' /\ NewLast(r)'
        BY <1>1, <2>1 DEF Bookkeeping, NewLast
      <3>7. Aimed(r)'
        <4>1. op[r].to \in Nat
          BY <1>1, TargetType
        <4>2. \A t \in Segments : draft'[r][t] # None
          BY <1>1, <3>5 DEF Aimed
        <4>3. QED
          BY <1>1, <2>1, <4>1, <4>2 DEF Aimed
      <3>8. Planned(r) => Planned(r)'
        <4>1. \A t \in Segments : View(r, t)' # None <=> View(r, t) # None
          <5>1. \A t \in Segments : draft[r][t] # None
            BY <1>1 DEF Aimed
          <5>2. QED
            BY <2>2, <3>1, <3>5, <5>1 DEF View
        <4>2. ASSUME NEW list \in Seq(Segments), Plan(r, list) PROVE Plan(r, list)'
          <5>1. \A i \in 1 .. next'[r] : FALSE
            BY <1>1, <2>1
          <5>2. QED
            BY <2>1, <3>5, <4>1, <4>2, <5>1 DEF Plan
        <4>3. QED
          BY <1>1, <2>1, <4>2 DEF Planned
      <3>9. QED
        BY <1>1, <2>2, <3>1, <3>2, <3>3, <3>4, <3>6, <3>7, <3>8, WriteOrder DEF OrderInv
    <2>5. QED
      BY <2>3, <2>4
  <1>4. QED
    BY <1>2, <1>3

\* The identifiers that are left after one has been renumbered.
LEMMA RestOfList ==
    ASSUME NEW l \in Seq(Segments), l # <<>>
    PROVE  /\ Head(l) \in Segments /\ Head(l) = l[1] /\ Len(l) \in Nat /\ Len(l) >= 1
           /\ Tail(l) \in Seq(Segments) /\ Len(Tail(l)) = Len(l) - 1
           /\ \A i \in 1 .. Len(l) - 1 : Tail(l)[i] = l[i + 1]
  BY HeadTailProperties, EmptySeq

\* One row is renumbered, or has gone and is not.
LEMMA RenumberOrder ==
    ASSUME TimelineInv, OrderInv, NEW r \in Requests, Renumber(r) PROVE OrderInv'
  <1> DEFINE l == ids[r]
             n == next[r]
             s == Head(ids[r])
             up == IF op[r].kind = "reorder" /\ s = op[r].seg THEN 1 ELSE 0
             row == [View(r, s) EXCEPT !.pos = next[r], !.version = @ + up]
  <1>1. /\ Types /\ Carries(r) /\ Bookkeeping(r) /\ Aimed(r) /\ pc[r] = "renumber"
        /\ op[r] \in Operations /\ op[r].kind \in {"reorder", "delete"}
        /\ n \in Nat /\ l \in Seq(Segments) /\ l # <<>>
    BY DEF TimelineInv, OrderInv, Renumber, Carries, Types
  <1>2. CASE Fail(r)
    BY <1>1, <1>2, RefusalOrder
  <1>3. CASE ~Fail(r)
    <2>1. /\ ids' = [ids EXCEPT ![r] = Tail(@)] /\ next' = [next EXCEPT ![r] = @ + 1]
          /\ UNCHANGED <<db, pc, op, todo, touch, overtaken, reply>>
          /\ \/ View(r, s) = None /\ draft' = draft
             \/ /\ View(r, s) # None /\ PositionFree(r, n) /\ ~Taken(r, s, n)
                /\ Draft(r, s, row)
      BY <1>3 DEF Renumber
    <2>2. /\ s \in Segments /\ s = l[1] /\ Len(l) \in Nat /\ Len(l) >= 1
          /\ Tail(l) \in Seq(Segments) /\ Len(Tail(l)) = Len(l) - 1
          /\ \A i \in 1 .. Len(l) - 1 : Tail(l)[i] = l[i + 1]
      BY <1>1, RestOfList
    <2>3. ids'[r] = Tail(l) /\ next'[r] = n + 1 /\ segs' = segs /\ pc'[r] = "renumber" /\ op'[r] = op[r]
      BY <1>1, <2>1 DEF Types, OrderInv, db
    <2>4. View(r, s) # None =>
             row \in Row /\ row.pos = n /\ row # None /\ row # Keep
      <3>1. next[r] \in Nat /\ up \in {0, 1} /\ (View(r, s) # None => View(r, s) \in Row)
        BY <1>1, <2>2 DEF View, Types
      <3> HIDE DEF up, s
      <3>2. View(r, s) # None => row \in Row /\ row.pos = next[r]
        BY <3>1, RenumberedRow
      <3> HIDE DEF row
      <3>3. QED
        BY <3>2, Absences
    <2> HIDE DEF row, s, l, n, up
    <2>5. OrderStep(r)
      <3>1. ids'[r] \in Seq(Segments) /\ ids' = [ids EXCEPT ![r] = ids'[r]]
        BY <2>1, <2>2, <2>3
      <3>2. QED
        BY <1>1, <2>1, <3>1 DEF OrderStep, OnlyLocal, Types, Draft
    <2>6. \A t \in Segments :
             draft'[r][t] = IF t = s /\ View(r, s) # None THEN row ELSE draft[r][t]
      BY <1>1, <2>1 DEF Types, Draft
    <2>7. Bookkeeping(r)' /\ NewLast(r)'
      BY <1>1, <2>1, <2>3 DEF Bookkeeping, NewLast
    <2>8. Aimed(r)'
      <3>1. SUFFICES ASSUME op[r].kind = "reorder" PROVE Aimed(r)'
        BY <2>3 DEF Aimed
      <3> DEFINE to == op[r].to
                 seg == op[r].seg
      <3>2. to \in Nat /\ seg \in Segments
        BY <1>1, <3>1, TargetType
      <3>3. /\ \A t \in Segments : draft[r][t] # None
            /\ n + Len(l) > to
            /\ \A i \in 1 .. Len(l) : l[i] = seg <=> n + i = to + 1
            /\ n > to => draft[r][seg] = Keep \/ draft[r][seg].pos = to
        BY <1>1, <3>1 DEF Aimed, l, n
      <3> HIDE DEF to, seg
      <3>4. \A t \in Segments : draft'[r][t] # None
        BY <2>4, <2>6, <3>3
      <3>5. (n + 1) + Len(Tail(l)) > to
        BY <1>1, <2>2, <3>2, <3>3
      <3>6. \A i \in 1 .. Len(Tail(l)) : Tail(l)[i] = seg <=> (n + 1) + i = to + 1
        <4>1. SUFFICES ASSUME NEW i \in 1 .. Len(l) - 1
                       PROVE  Tail(l)[i] = seg <=> (n + 1) + i = to + 1
          BY <2>2
        <4>2. i + 1 \in 1 .. Len(l) /\ n + (i + 1) = (n + 1) + i
          BY <1>1, <2>2
        <4>3. QED
          BY <2>2, <3>3, <4>2
      <3>7. s = seg <=> n = to
        <4>1. 1 \in 1 .. Len(l) /\ (n + 1 = to + 1 <=> n = to)
          BY <1>1, <2>2, <3>2
        <4>2. QED
          BY <2>2, <3>3, <4>1
      <3>8. n + 1 > to => draft'[r][seg] = Keep \/ draft'[r][seg].pos = to
        <4>1. SUFFICES ASSUME n + 1 > to PROVE draft'[r][seg] = Keep \/ draft'[r][seg].pos = to
          OBVIOUS
        <4>2. CASE n = to
          <5>1. CASE View(r, s) = None
            BY <2>6, <3>2, <3>3, <3>7, <4>2, <5>1 DEF View
          <5>2. CASE View(r, s) # None
            BY <2>4, <2>6, <3>2, <3>7, <4>2, <5>2
          <5>3. QED
            BY <5>1, <5>2
        <4>3. CASE n # to
          <5>1. n > to
            BY <1>1, <3>2, <4>1, <4>3
          <5>2. QED
            BY <2>6, <3>2, <3>3, <3>7, <4>3, <5>1
        <4>4. QED
          BY <4>2, <4>3
      <3>9. QED
        BY <2>3, <3>4, <3>5, <3>6, <3>8 DEF Aimed, to, seg
    <2>9. Planned(r) => Planned(r)'
      <3>1. ASSUME NEW list \in Seq(Segments), Plan(r, list) PROVE Plan(r, list)'
        <4>1. /\ \A t \in Segments : View(r, t) # None <=> \E i \in 1 .. Len(list) : list[i] = t
              /\ \A i, j \in 1 .. Len(list) : list[i] = list[j] => i = j
              /\ Len(list) = n + Len(l)
              /\ \A i \in 1 .. Len(l) : l[i] = list[n + i]
              /\ \A i \in 1 .. n : draft[r][list[i]] # Keep /\ draft[r][list[i]].pos = i - 1
          BY <3>1 DEF Plan, l, n
        <4>2. n + 1 \in 1 .. Len(list) /\ list[n + 1] = s
          BY <1>1, <2>2, <4>1
        <4>3. View(r, s) # None
          BY <2>2, <4>1, <4>2
        <4>4. \A t \in Segments : View(r, t)' # None <=> View(r, t) # None
          BY <2>3, <2>4, <2>6, <4>3 DEF View
        <4>5. Len(list) = (n + 1) + Len(Tail(l))
          BY <1>1, <2>2, <4>1
        <4>6. ASSUME NEW i \in 1 .. Len(Tail(l)) PROVE Tail(l)[i] = list[(n + 1) + i]
          <5>1. i + 1 \in 1 .. Len(l) /\ n + (i + 1) = (n + 1) + i /\ i \in 1 .. Len(l) - 1
            BY <1>1, <2>2
          <5>2. QED
            BY <2>2, <4>1, <5>1
        <4>7. ASSUME NEW i \in 1 .. n + 1
              PROVE  draft'[r][list[i]] # Keep /\ draft'[r][list[i]].pos = i - 1
          <5>1. CASE i = n + 1
            BY <1>1, <2>2, <2>4, <2>6, <4>2, <4>3, <5>1
          <5>2. CASE i # n + 1
            <6>1. i \in 1 .. n /\ i \in 1 .. Len(list) /\ list[i] \in Segments
              BY <1>1, <2>2, <4>1, <5>2
            <6>2. list[i] # s
              BY <4>1, <4>2, <5>2, <6>1
            <6>3. QED
              BY <2>6, <4>1, <6>1, <6>2
          <5>3. QED
            BY <5>1, <5>2
        <4>8. QED
          BY <2>3, <3>1, <4>4, <4>5, <4>6, <4>7 DEF Plan
      <3>2. QED
        BY <1>1, <2>3, <3>1 DEF Planned
    <2>10. CASE View(r, s) = None /\ draft' = draft
      BY <1>1, <2>5, <2>7, <2>8, <2>9, <2>10, QuietOrder DEF OrderInv
    <2>11. CASE View(r, s) # None /\ PositionFree(r, n) /\ ~Taken(r, s, n) /\ Draft(r, s, row)
      <3>1. /\ \A t \in Segments \ {s} : View(r, t) # None => View(r, t).pos # row.pos
            /\ \A q \in Requests \ {r}, t \in Segments \ {s} :
                  draft[q][t] \notin {Keep, None} => draft[q][t].pos # row.pos
        BY <2>4, <2>11 DEF PositionFree, Taken
      <3>2. QED
        BY <1>1, <2>2, <2>4, <2>5, <2>7, <2>8, <2>9, <2>11, <3>1, WriteOrder DEF OrderInv
    <2>12. QED
      BY <2>1, <2>10, <2>11
  <1>4. QED
    BY <1>2, <1>3

\* A commit: what the transaction saw is now what all others see where they
\* have not written; those that are open have been overtaken.
LEMMA CommitOrder ==
    ASSUME TimelineInv, OrderInv, NEW r \in Requests, Commit(r) PROVE OrderInv'
  <1>1. /\ Types /\ OneWriter /\ SeenApart(r)
        /\ OnlyLocal(r) /\ pc'[r] = "done" /\ draft'[r] = NoDraft /\ op' = op
        /\ \A s \in Segments : segs'[s] = View(r, s)
    BY Committed DEF TimelineInv, OrderInv, View
  <1>2. /\ ids' = [ids EXCEPT ![r] = <<>>] /\ ids'[r] = <<>> /\ next'[r] = 0
        /\ overtaken' = [q \in Requests |-> overtaken[q] \/ (q # r /\ Open(q))]
    BY <1>1 DEF Commit, Close, Types, OrderInv
  <1>3. ids' \in [Requests -> Seq(Segments)]
    <2>1. <<>> \in Seq(Segments)
      BY EmptySeq
    <2>2. QED
      BY <1>2, <2>1 DEF OrderInv
  <1>4. \A s \in Segments : draft'[r][s] = Keep
    BY <1>1 DEF NoDraft
  <1>5. ASSUME NEW q \in Requests \ {r}
        PROVE  /\ pc'[q] = pc[q] /\ op'[q] = op[q] /\ next'[q] = next[q] /\ ids'[q] = ids[q]
               /\ draft'[q] = draft[q] /\ reply'[q] = reply[q]
    BY <1>1, <1>2, OthersUntouched DEF OrderInv, OnlyLocal, Types
  <1>6. CommittedApart'
    BY <1>1 DEF CommittedApart, SeenApart
  <1>7. ASSUME NEW q \in Requests PROVE SeenApart(q)'
    <2>1. CASE q = r
      BY <1>4, <1>6, <2>1 DEF CommittedApart, SeenApart, View
    <2>2. CASE q # r
      <3>1. SeenApart(q) /\ DraftsApart(q, r) /\ draft'[q] = draft[q]
        BY <1>5, <2>2 DEF OrderInv
      <3>2. \A s \in Segments : draft[q][s] # Keep => draft[r][s] = Keep
        BY <1>1, <2>2 DEF OneWriter
      <3>3. \A s \in Segments :
               View(q, s)' = IF draft[q][s] # Keep THEN draft[q][s] ELSE View(r, s)
        BY <1>1, <3>1 DEF View
      <3>4. SUFFICES ASSUME NEW s \in Segments, NEW t \in Segments, s # t,
                            View(q, s)' # None, View(q, t)' # None
                     PROVE  View(q, s)'.pos # View(q, t)'.pos
        BY DEF SeenApart
      <3>5. CASE draft[q][s] # Keep /\ draft[q][t] # Keep
        BY <3>1, <3>3, <3>4, <3>5 DEF SeenApart, View
      <3>6. CASE draft[q][s] = Keep /\ draft[q][t] = Keep
        BY <1>1, <3>3, <3>4, <3>6 DEF SeenApart
      <3>7. CASE draft[q][s] # Keep /\ draft[q][t] = Keep
        BY <3>1, <3>3, <3>4, <3>7 DEF SeenApart, DraftsApart, View
      <3>8. CASE draft[q][s] = Keep /\ draft[q][t] # Keep
        BY <3>1, <3>3, <3>4, <3>8 DEF SeenApart, DraftsApart, View
      <3>9. QED
        BY <3>5, <3>6, <3>7, <3>8
    <2>3. QED
      BY <2>1, <2>2
  <1>8. ASSUME NEW p \in Requests, NEW q \in Requests, p # q PROVE DraftsApart(p, q)'
    <2>1. CASE p = r \/ q = r
      BY <1>4, <2>1 DEF DraftsApart
    <2>2. CASE p # r /\ q # r
      BY <1>5, <1>8, <2>2 DEF OrderInv, DraftsApart
    <2>3. QED
      BY <2>1, <2>2
  <1>9. ASSUME NEW q \in Requests
        PROVE  /\ Bookkeeping(q)' /\ Aimed(q)' /\ (~overtaken'[q] => Planned(q)' /\ NewLast(q)')
    <2>1. CASE q = r
      BY <1>1, <1>2, <1>4, <2>1, Absences DEF Bookkeeping, Aimed, Planned, NewLast
    <2>2. CASE q # r
      <3>1. Bookkeeping(q) /\ Aimed(q)
        BY DEF OrderInv
      <3>2. Bookkeeping(q)' /\ Aimed(q)'
        BY <1>5, <2>2, <3>1 DEF Bookkeeping, Aimed
      <3>3. ~overtaken'[q] => pc'[q] \in {"new", "done", "failed"}
        BY <1>2, <1>5, <2>2 DEF Open
      <3>4. QED
        BY <3>2, <3>3 DEF Planned, NewLast
    <2>3. QED
      BY <2>1, <2>2
  <1>10. QED
    BY <1>3, <1>6, <1>7, <1>8, <1>9 DEF OrderInv

\* Every step keeps the order.
LEMMA NextOrderInv == TimelineInv /\ OrderInv /\ [Next]_vars => OrderInv'
  <1> SUFFICES ASSUME TimelineInv, OrderInv, [Next]_vars PROVE OrderInv'
    OBVIOUS
  <1>1. CASE UNCHANGED vars
    <2>1. /\ segs' = segs /\ pc' = pc /\ op' = op /\ ids' = ids /\ next' = next
          /\ draft' = draft /\ overtaken' = overtaken /\ reply' = reply
      BY <1>1 DEF vars
    <2>2. \A r \in Requests : Planned(r) => Planned(r)'
      BY <2>1 DEF Planned, Plan, View
    <2>3. QED
      BY <2>1, <2>2 DEF OrderInv, CommittedApart, SeenApart, View, DraftsApart, Bookkeeping, Aimed,
           NewLast
  <1>2. ASSUME NEW r \in Requests,
               NotFound(r) \/ StaleUpdate(r) \/ StaleReorder(r) \/ LostReorder(r) \/ Abort(r)
        PROVE  OrderInv'
    BY <1>2, RefusalOrder DEF NotFound, StaleUpdate, StaleReorder, LostReorder, Abort, TimelineInv
  <1>3. ASSUME NEW r \in Requests, Begin(r) \/ Execute(r) \/ Abort(r) PROVE OrderInv'
    BY <1>2, <1>3, BeginOrder, PassSteps, ReadMaxOrder, InsertOrder, UpdateOrder, ListReorderOrder,
       ListCompactionOrder, ParkRowOrder, RenumberOrder, DeletionOrder, CommitOrder DEF Execute
  <1>4. QED
    BY <1>1, <1>3 DEF Next

\* The order holds in every behaviour.
THEOREM TimelineOrder == Spec => []OrderInv
  BY InitOrderInv, NextOrderInv, TimelineInvariant, PTL DEF Spec

\* Only its commit answers a request that is about to commit with success.
LEMMA SuccessIsCommit ==
    ASSUME TimelineInv, OrderInv, [Next]_vars, NEW r \in Requests, NEW kind, Commits(r, kind)
    PROVE  Commit(r) /\ op[r].kind = kind
  <1>1. /\ Types /\ pc[r] = "commit" /\ reply[r] = "pending" /\ reply'[r] = "ok"
        /\ op[r].kind = kind
    BY DEF TimelineInv, OrderInv, Bookkeeping, Commits
  <1>2. reply' # reply /\ ~UNCHANGED vars
    BY <1>1 DEF vars
  <1>3. PICK q \in Requests : Begin(q) \/ Execute(q) \/ Abort(q)
    BY <1>2 DEF Next
  <1>4. \/ Commit(q)
        \/ \E answer \in {"pending", "version_conflict", "resource_not_found", "position_invalid"} :
              reply' = [reply EXCEPT ![q] = answer]
    BY <1>2, <1>3 DEF Begin, Execute, Abort, Raise, Fail, Close, NotFound, ReadMax, Insert,
         OwnedForUpdate, UpdateSegment, StaleUpdate, OwnedForReorder, StaleReorder,
         ListForReorder, Park, ParkRow, Parked, Renumber, Renumbered, OwnedForDelete, DeleteRow,
         ListForCompaction, DropJourney, CascadeRow, Cascaded, TouchJourney, LostReorder
  <1>5. Commit(q)
    BY <1>1, <1>4 DEF Types
  <1>6. q = r
    BY <1>1, <1>5 DEF Commit, Close, Types
  <1>7. QED
    BY <1>1, <1>5, <1>6

\* A table whose rows are numbered by a list of them has no gap.
LEMMA NumberedIsDense ==
    ASSUME NEW table, NEW list \in Seq(Segments),
           \A s \in Segments : table[s] # None <=> \E i \in 1 .. Len(list) : list[i] = s,
           \A i, j \in 1 .. Len(list) : list[i] = list[j] => i = j,
           \A i \in 1 .. Len(list) : table[list[i]].pos = i - 1
    PROVE  Dense(table)
  <1> DEFINE n == Len(list)
             P == Present(table)
  <1>1. n \in Nat /\ \A i \in 1 .. n : list[i] \in P
    BY DEF Present
  <1>2. Cardinality(P) = n
    <2> DEFINE f == [i \in 1 .. n |-> list[i]]
    <2>1. f \in Bijection(1 .. n, P)
      BY <1>1 DEF Bijection, Injection, IsInjective, Surjection, Present
    <2> HIDE DEF f, n
    <2>2. IsFiniteSet(1 .. n) /\ Cardinality(1 .. n) = n
      BY <1>1, FS_Interval
    <2>3. QED
      BY <2>1, <2>2, FS_Bijection DEF ExistsBijection
  <1>3. ASSUME NEW s \in P PROVE table[s].pos \in 0 .. n - 1
    <2>1. PICK i \in 1 .. n : list[i] = s
      BY DEF Present
    <2>2. QED
      BY <1>1, <2>1
  <1>4. ASSUME NEW p \in 0 .. n - 1 PROVE \E s \in P : table[s].pos = p
    <2>1. p + 1 \in 1 .. n /\ (p + 1) - 1 = p
      BY <1>1
    <2>2. list[p + 1] \in P /\ table[list[p + 1]].pos = p
      BY <1>1, <2>1
    <2>3. QED
      BY <2>2
  <1> HIDE DEF P, n
  <1>5. {table[s].pos : s \in P} = 0 .. n - 1
    BY <1>3, <1>4
  <1>6. QED
    BY <1>2, <1>5 DEF Dense, P

\* A reorder or a delete that nothing overtook commits the list it has made.
LEMMA PlanIsCommitted ==
    ASSUME TimelineInv, OrderInv, NEW r \in Requests, Commit(r), ~overtaken[r],
           op[r].kind \in {"reorder", "delete"}
    PROVE  \E list \in Seq(Segments) :
              /\ \A s \in Segments : segs'[s] # None <=> \E i \in 1 .. Len(list) : list[i] = s
              /\ \A i, j \in 1 .. Len(list) : list[i] = list[j] => i = j
              /\ \A i \in 1 .. Len(list) : segs'[list[i]].pos = i - 1
              /\ op[r].kind = "reorder" =>
                    \A i, j \in 1 .. Len(list) :
                        list[i] # op[r].seg /\ list[j] # op[r].seg =>
                            (i < j <=> segs[list[i]].pos < segs[list[j]].pos)
  <1>1. /\ Types /\ pc[r] = "commit" /\ next[r] \in Nat
        /\ \A s \in Segments : segs'[s] = View(r, s)
    BY Committed DEF TimelineInv, Types, View
  <1>2. PICK list \in Seq(Segments) : Plan(r, list)
    BY <1>1 DEF OrderInv, Planned
  <1>3. ids[r] = <<>>
    BY <1>1 DEF OrderInv, Bookkeeping
  <1>4. Len(list) = next[r]
    BY <1>1, <1>2, <1>3 DEF Plan
  <1>5. ASSUME NEW i \in 1 .. Len(list) PROVE segs'[list[i]].pos = i - 1
    <2>1. list[i] \in Segments /\ draft[r][list[i]] # Keep /\ draft[r][list[i]].pos = i - 1
      BY <1>2, <1>4 DEF Plan
    <2>2. QED
      BY <1>1, <2>1 DEF View
  <1>6. \A s \in Segments : segs'[s] # None <=> \E i \in 1 .. Len(list) : list[i] = s
    BY <1>1, <1>2 DEF Plan
  <1>7. /\ \A i, j \in 1 .. Len(list) : list[i] = list[j] => i = j
        /\ op[r].kind = "reorder" =>
              \A i, j \in 1 .. Len(list) :
                  list[i] # op[r].seg /\ list[j] # op[r].seg =>
                      (i < j <=> segs[list[i]].pos < segs[list[j]].pos)
    BY <1>2 DEF Plan
  <1>8. QED
    BY <1>5, <1>6, <1>7

\* A create that nothing overtook adds the next position to those that are there.
LEMMA CreateStaysDense ==
    ASSUME TimelineInv, OrderInv, NEW r \in Requests, Commit(r), ~overtaken[r],
           op[r].kind = "create", Dense(segs)
    PROVE  Dense(segs')
  <1> DEFINE s == op[r].seg
             P == Present(segs)
             n == Cardinality(P)
             p == next[r]
  <1>1. /\ Types /\ Written(r) /\ NewLast(r) /\ pc[r] = "commit" /\ s \in Segments /\ p \in Nat
        /\ \A t \in Segments : segs'[t] = IF draft[r][t] = Keep THEN segs[t] ELSE draft[r][t]
    BY Committed, OperationTypes DEF TimelineInv, OrderInv, Types
  <1>2. draft[r][s] # Keep /\ draft[r][s].pos = p
    BY <1>1 DEF NewLast
  <1>3. segs[s] = None /\ \A t \in Segments : draft[r][t] # Keep => t = s
    BY <1>1, <1>2 DEF Written, Makes
  <1>4. draft[r][s] # None
    BY <1>1 DEF NewLast
  <1>5. Present(segs') = P \cup {s} /\ s \notin P
    BY <1>1, <1>2, <1>3, <1>4 DEF Present
  <1>6. IsFiniteSet(P) /\ n \in Nat
    BY SegmentsAssumption, FS_Subset, FS_CardinalityType DEF Present
  <1>7. Cardinality(Present(segs')) = n + 1
    BY <1>5, <1>6, FS_AddElement, Zenon
  <1>8. {segs[t].pos : t \in P} = 0 .. n - 1
    BY DEF Dense
  <1>9. p = n
    <2>1. \A t \in P : segs[t].pos \in Nat /\ segs[t].pos < p /\ segs[t].pos <= n - 1
      BY <1>1, <1>8 DEF NewLast, Present, Types, Row
    <2>2. p = 0 \/ \E t \in P : p = segs[t].pos + 1
      BY <1>1 DEF NewLast, Present
    <2>3. p <= n
      BY <1>1, <1>6, <2>1, <2>2
    <2>4. n <= p
      <3>1. SUFFICES ASSUME n # 0 PROVE n <= p
        BY <1>1, <1>6
      <3>2. PICK t \in P : segs[t].pos = n - 1
        <4>1. n - 1 \in 0 .. n - 1
          BY <1>6, <3>1
        <4> HIDE DEF n, P
        <4>2. QED
          BY <1>8, <4>1
      <3>3. QED
        BY <1>1, <1>6, <2>1, <3>2
    <2>5. QED
      BY <1>1, <1>6, <2>3, <2>4
  <1>10. \A t \in P : segs'[t] = segs[t]
    BY <1>1, <1>3, <1>5 DEF Present
  <1>11. segs'[s].pos = n
    BY <1>1, <1>2, <1>9
  <1>12. {segs'[t].pos : t \in P \cup {s}} = 0 .. n
    <2> HIDE DEF n, P, s
    <2>1. \A t \in P \cup {s} : segs'[t].pos \in 0 .. n
      BY <1>6, <1>8, <1>10, <1>11
    <2>2. ASSUME NEW k \in 0 .. n PROVE \E t \in P \cup {s} : segs'[t].pos = k
      <3>1. CASE k = n
        BY <1>11, <3>1
      <3>2. CASE k # n
        <4>1. k \in 0 .. n - 1
          BY <1>6, <3>2
        <4>2. k \in {segs[t].pos : t \in P}
          BY <1>8, <4>1
        <4>3. QED
          BY <1>10, <4>2
      <3>3. QED
        BY <3>1, <3>2
    <2>3. QED
      BY <2>1, <2>2
  <1>13. QED
    <2>1. (n + 1) - 1 = n
      BY <1>6
    <2>2. QED
      BY <1>5, <1>7, <1>12, <2>1 DEF Dense

\* A reorder or a delete that nothing overtook leaves a timeline without gaps
\* whatever it found; a create that nothing overtook leaves none of its own.
THEOREM TimelineRepairsPositions == Spec => RepairsPositions
  <1>1. ASSUME TimelineInv, OrderInv, [Next]_vars, NEW r \in Requests, ~overtaken[r]
        PROVE  /\ Commits(r, "reorder") \/ Commits(r, "delete") => Dense(segs')
               /\ Commits(r, "create") /\ Dense(segs) => Dense(segs')
    <2>1. ASSUME Commits(r, "reorder") \/ Commits(r, "delete") PROVE Dense(segs')
      <3>1. Commit(r) /\ op[r].kind \in {"reorder", "delete"}
        BY <1>1, <2>1, SuccessIsCommit
      <3>2. PICK list \in Seq(Segments) :
               /\ \A s \in Segments : segs'[s] # None <=> \E i \in 1 .. Len(list) : list[i] = s
               /\ \A i, j \in 1 .. Len(list) : list[i] = list[j] => i = j
               /\ \A i \in 1 .. Len(list) : segs'[list[i]].pos = i - 1
        BY <1>1, <3>1, PlanIsCommitted
      <3>3. QED
        BY <3>2, NumberedIsDense
    <2>2. ASSUME Commits(r, "create"), Dense(segs) PROVE Dense(segs')
      <3>1. Commit(r) /\ op[r].kind = "create"
        BY <1>1, <2>2, SuccessIsCommit
      <3>2. QED
        BY <1>1, <2>2, <3>1, CreateStaysDense
    <2>3. QED
      BY <2>1, <2>2
  <1>2. TimelineInv /\ OrderInv /\ [Next]_vars =>
           [\A r \in Requests :
               ~overtaken[r] =>
                  /\ Commits(r, "reorder") \/ Commits(r, "delete") => Dense(segs')
                  /\ Commits(r, "create") /\ Dense(segs) => Dense(segs')]_vars
    BY <1>1
  <1>3. QED
    BY <1>2, TimelineInvariant, TimelineOrder, PTL DEF Spec, RepairsPositions

\* A reorder that writes its segment has put it where it was asked to, also when
\* other transactions overtook it; when none did, the others keep their order.
THEOREM TimelineReorderMovesOne == Spec => ReorderMovesOne
  <1>1. ASSUME TimelineInv, OrderInv, [Next]_vars, NEW r \in Requests,
               Commits(r, "reorder"), draft[r][op[r].seg] # Keep
        PROVE  /\ segs'[op[r].seg].pos = op[r].to
               /\ ~overtaken[r] =>
                     \A s, t \in Present(segs) \ {op[r].seg} :
                        segs[s].pos < segs[t].pos <=> segs'[s].pos < segs'[t].pos
    <2>1. Commit(r) /\ op[r].kind = "reorder"
      BY <1>1, SuccessIsCommit
    <2>2. /\ pc[r] = "commit" /\ op[r] \in Operations /\ Aimed(r)
          /\ \A s \in Segments : segs'[s] = IF draft[r][s] = Keep THEN segs[s] ELSE draft[r][s]
      BY <1>1, <2>1, Committed DEF OrderInv
    <2>3. segs'[op[r].seg].pos = op[r].to
      <3>1. op[r].seg \in Segments
        BY <2>1, <2>2, TargetType
      <3>2. QED
        BY <1>1, <2>1, <2>2, <3>1 DEF Aimed
    <2>4. ASSUME ~overtaken[r], NEW s \in Present(segs) \ {op[r].seg},
                 NEW t \in Present(segs) \ {op[r].seg}
          PROVE  segs[s].pos < segs[t].pos <=> segs'[s].pos < segs'[t].pos
      <3>1. PICK list \in Seq(Segments) :
               /\ \A u \in Segments : segs'[u] # None <=> \E i \in 1 .. Len(list) : list[i] = u
               /\ \A i \in 1 .. Len(list) : segs'[list[i]].pos = i - 1
               /\ \A i, j \in 1 .. Len(list) :
                     list[i] # op[r].seg /\ list[j] # op[r].seg =>
                        (i < j <=> segs[list[i]].pos < segs[list[j]].pos)
        BY <1>1, <2>1, <2>4, PlanIsCommitted
      <3>2. s \in Segments /\ t \in Segments /\ segs'[s] # None /\ segs'[t] # None
        BY <2>1, <2>2 DEF Present, Aimed
      <3>3. PICK i \in 1 .. Len(list), j \in 1 .. Len(list) : list[i] = s /\ list[j] = t
        BY <3>1, <3>2
      <3>4. segs'[s].pos = i - 1 /\ segs'[t].pos = j - 1 /\ (i < j <=> segs[s].pos < segs[t].pos)
        BY <3>1, <3>3
      <3>5. QED
        BY <3>4
    <2>5. QED
      BY <2>3, <2>4
  <1>2. TimelineInv /\ OrderInv /\ [Next]_vars =>
           [\A r \in Requests :
               Commits(r, "reorder") /\ draft[r][op[r].seg] # Keep =>
                  /\ segs'[op[r].seg].pos = op[r].to
                  /\ ~overtaken[r] =>
                        \A s, t \in Present(segs) \ {op[r].seg} :
                           segs[s].pos < segs[t].pos <=> segs'[s].pos < segs'[t].pos]_vars
    BY <1>1
  <1>3. QED
    BY <1>2, TimelineInvariant, TimelineOrder, PTL DEF Spec, ReorderMovesOne

=============================================================================
