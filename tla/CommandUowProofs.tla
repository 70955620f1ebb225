-------------------------- MODULE CommandUowProofs --------------------------
(***************************************************************************)
(* The inductive invariant of CommandUow and what follows from it at once, *)
(* for any number of requests, users, Journeys and commands.               *)
(*                                                                         *)
(* A commit is the ledger's step because what the transaction read is still*)
(* true when it commits: the membership it checked, the row it locked and  *)
(* the absence of a receipt under the command's identifier.  That is what  *)
(* the inductive invariant says, together with why: at most one request    *)
(* holds a command and at most one holds a Journey row.                    *)
(***************************************************************************)
EXTENDS CommandUow, TLAPS

-----------------------------------------------------------------------------
(***************************************************************************)
(* The inductive invariant.                                                *)
(***************************************************************************)

Idle(r) == before[r] = None /\ effect[r] = NoEffect

Found(r) == before[r] \in Row /\ before[r].version = op[r].cmd.expected

Effect(row, receipt, event) == [row |-> row, receipt |-> receipt, event |-> event]

\* The four ways in which a command reaches its commit.
Replayed(r) == Idle(r)

Missing(r) ==
    /\ before[r] = None
    /\ effect[r] = Effect(Keep, TerminalReceipt(op[r].cmd, "resource_not_found"), None)

Stale(r) ==
    /\ before[r] \in Row
    /\ before[r].version # op[r].cmd.expected
    /\ effect[r] = Effect(Keep, TerminalReceipt(op[r].cmd, "version_conflict"), None)

Applied(r) ==
    LET after == Updated(before[r], op[r].cmd) IN
    /\ Found(r)
    /\ effect[r] = Effect(after, AppliedReceipt(op[r].cmd, after),
                          AuditEvent(op[r].user, op[r].cmd, before[r], after))

\* The ways in which the plain mutations do.
Created(r) ==
    /\ before[r] = None
    /\ effect[r].row \in Row
    /\ effect[r].row.version = 1
    /\ effect[r] = Effect(effect[r].row, None, None)

Deleted(r) == before[r] \in Row /\ effect[r] = Effect(None, None, None)

TouchedRow(r) ==
    before[r] \in Row /\ effect[r] = Effect(Touched(before[r]), None, None)

\* What a request carries at each position.
Carries(r) ==
    /\ pc[r] \in InTransaction =>
          op[r] \in Operations /\ (op[r].kind = "update" => op[r].journey = op[r].cmd.journey)
    /\ pc[r] \in {"lock", "receipt", "row", "write", "audit"} => op[r].kind = "update"
    /\ pc[r] = "statement" => op[r].kind # "update"
    /\ pc[r] \notin {"write", "audit", "commit"} => Idle(r)
    /\ pc[r] = "write" => Found(r) /\ effect[r] = NoEffect
    /\ pc[r] = "audit" =>
          Found(r) /\ effect[r] = Effect(Updated(before[r], op[r].cmd), None, None)
    /\ pc[r] = "commit" =>
          \/ op[r].kind = "update" /\ (Replayed(r) \/ Missing(r) \/ Stale(r) \/ Applied(r))
          \/ op[r].kind = "create" /\ Created(r)
          \/ op[r].kind = "delete" /\ Deleted(r)
          \/ op[r].kind = "touch" /\ TouchedRow(r)

\* What a request has read is still so.
StillAuthorized(r) == pc[r] \in Authorized => CanWrite(role[op[r].user])

StillLocked(r) ==
    pc[r] \in InTransaction /\ (before[r] # None \/ effect[r].row # Keep)
        => journeys[op[r].journey] = before[r]

StillUndecided(r) ==
    \/ pc[r] \in {"row", "write", "audit"}
    \/ pc[r] = "commit" /\ effect[r].receipt # None
    => receipts[Key(r)] = None

\* Why it is.
OneHolderPerCommand ==
    \A q, r \in Requests, k \in Keys : HoldsCommand(q, k) /\ HoldsCommand(r, k) => q = r

OneHolderPerRow ==
    \A q, r \in Requests, j \in Journeys : HoldsRow(q, j) /\ HoldsRow(r, j) => q = r

\* The Journeys about to be created are told apart from all earlier ones.
Creating(r) == pc[r] = "commit" /\ op[r].kind = "create"

BirthsDiffer ==
    /\ \A e \in events : e.after.born <= clock
    /\ \A j \in Journeys : journeys[j] # None => journeys[j].born <= clock
    /\ \A r \in Requests : Creating(r) =>
          /\ effect[r].row.born <= clock
          /\ \A e \in events : e.after.born # effect[r].row.born
          /\ \A j \in Journeys : journeys[j] # None => journeys[j].born # effect[r].row.born
    /\ \A q, r \in Requests :
          Creating(q) /\ Creating(r) /\ effect[q].row.born = effect[r].row.born => q = r

UowInv ==
    /\ TypeOK
    /\ \A r \in Requests : Carries(r)
    /\ \A r \in Requests : StillAuthorized(r) /\ StillLocked(r) /\ StillUndecided(r)
    /\ OneHolderPerCommand
    /\ OneHolderPerRow
    /\ BirthsDiffer

-----------------------------------------------------------------------------
(***************************************************************************)
(* Types.                                                                  *)
(***************************************************************************)

\* The rows that INSERT and UPDATE make are rows.
LEMMA RowTypes ==
    /\ \A row \in Row, c \in Commands : Updated(row, c) \in Row
    /\ \A row \in Row : Touched(row) \in Row
    /\ \A d \in Data, b \in Nat : NewRow(d, b) \in Row
  BY CommandsAssumption DEF Row, Updated, Touched, NewRow

\* The receipts that commands leave are receipts, and never NULL.
LEMMA ReceiptTypes ==
    /\ \A c \in Commands, row \in Row :
          AppliedReceipt(c, row) \in Receipt /\ AppliedReceipt(c, row) # None
    /\ \A c \in Commands, o \in Outcomes :
          TerminalReceipt(c, o) \in Receipt /\ TerminalReceipt(c, o) # None
  BY NoneAssumption DEF Receipt, AppliedReceipt, TerminalReceipt, Outcomes, NoVersion, Row

\* The events that applied commands leave are events, and never NULL.
LEMMA EventTypes ==
    \A u \in Users, c \in Commands, row, after \in Row :
        AuditEvent(u, c, row, after) \in Event /\ AuditEvent(u, c, row, after) # None
  BY NoneAssumption DEF Event, AuditEvent

\* The parts of a command have their types.
LEMMA KeyTypes ==
    \A u \in Users, c \in Commands :
        <<u, c.id>> \in Keys /\ c.journey \in Journeys /\ c.expected \in Nat /\ c.data \in Data
  BY CommandsAssumption DEF Keys

\* The marks for "no row" and "not written" are neither rows nor each other.
LEMMA Absences == None \notin Row /\ None # Keep /\ Keep \notin Row /\ None \notin Receipt
                  /\ None \notin Event /\ None \notin Roles
  BY NoneAssumption, KeepAssumption

\* The parts of what a request asks for have their types.
LEMMA OperationTypes ==
    \A o \in Operations :
        /\ o.user \in Users /\ o.journey \in Journeys
        /\ o.kind \in {"update", "create", "delete", "touch"}
        /\ o.kind = "update" => o.cmd \in Commands
  BY DEF Operations

\* The server starts in the invariant: no transaction is open.
LEMMA InitUowInv == Init => UowInv
  <1> SUFFICES ASSUME Init PROVE UowInv
    OBVIOUS
  <1> USE DEF Init
  <1>1. TypeOK
    <2>1. journeys \in [Journeys -> Row \cup {None}]
      BY RowTypes
    <2>2. effect \in [Requests -> [row : Row \cup {None, Keep},
                                   receipt : Receipt \cup {None},
                                   event : Event \cup {None}]]
      BY DEF NoEffect
    <2>3. reply \in [Requests -> [status : Statuses, version : Nat]]
      BY DEF Pending, Reply, Statuses, NoVersion
    <2>4. QED
      BY <2>1, <2>2, <2>3 DEF TypeOK
  <1>2. \A r \in Requests : Carries(r)
    BY DEF Carries, Idle, InTransaction, Authorized
  <1>3. \A r \in Requests : StillAuthorized(r) /\ StillLocked(r) /\ StillUndecided(r)
    BY DEF StillAuthorized, StillLocked, StillUndecided, InTransaction, Authorized
  <1>4. OneHolderPerCommand /\ OneHolderPerRow
    BY DEF OneHolderPerCommand, OneHolderPerRow, HoldsCommand, HoldsRow, InTransaction, Authorized
  <1>5. BirthsDiffer
    BY Absences DEF BirthsDiffer, Creating, NewRow
  <1>6. QED
    BY <1>1, <1>2, <1>3, <1>4, <1>5 DEF UowInv

-----------------------------------------------------------------------------
(***************************************************************************)
(* A step that writes no committed state concerns one request only.        *)
(***************************************************************************)

\* The step changes the local state of r, and of no other request.
OnlyLocal(r) ==
    /\ pc' = [pc EXCEPT ![r] = pc'[r]]
    /\ op' = [op EXCEPT ![r] = op'[r]]
    /\ before' = [before EXCEPT ![r] = before'[r]]
    /\ effect' = [effect EXCEPT ![r] = effect'[r]]
    /\ reply' = [reply EXCEPT ![r] = reply'[r]]

LocalTypes(r) ==
    /\ pc'[r] \in InTransaction \cup {"new", "respond", "done", "failed"}
    /\ op'[r] \in Operations \cup {None}
    /\ before'[r] \in Row \cup {None}
    /\ effect'[r] \in [row : Row \cup {None, Keep},
                        receipt : Receipt \cup {None},
                        event : Event \cup {None}]
    /\ reply'[r] \in [status : Statuses, version : Nat]

\* A step of one request leaves the locals of the others alone.
LEMMA OthersUntouched ==
    ASSUME TypeOK, NEW r \in Requests, OnlyLocal(r), NEW q \in Requests, q # r
    PROVE  /\ pc'[q] = pc[q] /\ op'[q] = op[q] /\ before'[q] = before[q]
           /\ effect'[q] = effect[q] /\ reply'[q] = reply[q]
  BY DEF OnlyLocal, TypeOK

\* A step that writes only its request's locals keeps the invariant, if what the
\* request now carries is right and the locks that it took were free.
LEMMA LocalStep ==
    ASSUME UowInv, NEW r \in Requests, OnlyLocal(r), LocalTypes(r),
           UNCHANGED db, clock' \in Nat, clock <= clock',
           Carries(r)', StillAuthorized(r)', StillLocked(r)', StillUndecided(r)',
           \A k \in Keys : HoldsCommand(r, k)' =>
               \A q \in Requests \ {r} : ~HoldsCommand(q, k),
           \A j \in Journeys : HoldsRow(r, j)' => RowFree(r, j),
           Creating(r)' => effect'[r].row.born = clock' /\ clock < clock'
    PROVE  UowInv'
  <1> USE DEF UowInv
  <1>1. role' = role /\ journeys' = journeys /\ receipts' = receipts /\ events' = events
    BY DEF db
  <1>2. TypeOK'
    BY <1>1 DEF TypeOK, OnlyLocal, LocalTypes
  <1>3. ASSUME NEW q \in Requests PROVE Carries(q)'
    <2>1. CASE q = r
      BY <2>1
    <2>2. CASE q # r
      BY <2>2, OthersUntouched DEF Carries, Idle, Found, Replayed, Missing, Stale, Applied,
           Created, Deleted, TouchedRow
    <2>3. QED
      BY <2>1, <2>2
  <1>4. ASSUME NEW q \in Requests
        PROVE  (StillAuthorized(q) /\ StillLocked(q) /\ StillUndecided(q))'
    <2>1. CASE q = r
      BY <2>1
    <2>2. CASE q # r
      BY <2>2, <1>1, OthersUntouched DEF StillAuthorized, StillLocked, StillUndecided, Key
    <2>3. QED
      BY <2>1, <2>2
  <1>5. OneHolderPerCommand'
    <2>1. \A q \in Requests \ {r}, k \in Keys : HoldsCommand(q, k)' <=> HoldsCommand(q, k)
      BY OthersUntouched DEF HoldsCommand, Key
    <2>2. QED
      BY <2>1 DEF OneHolderPerCommand
  <1>6. OneHolderPerRow'
    <2>1. \A q \in Requests \ {r}, j \in Journeys : HoldsRow(q, j)' <=> HoldsRow(q, j)
      BY OthersUntouched DEF HoldsRow
    <2>2. QED
      BY <2>1 DEF OneHolderPerRow, RowFree
  <1>7. BirthsDiffer'
    <2>1. \A q \in Requests \ {r} :
             (Creating(q)' <=> Creating(q)) /\ effect'[q] = effect[q]
      BY OthersUntouched DEF Creating
    <2>2. \A q \in Requests : Creating(q) => effect[q].row.born \in Nat
      BY DEF Creating, Carries, Created, Row
    <2>3. \A e \in events : e.after.born \in Nat
      BY DEF TypeOK, Event, Row
    <2>4. \A j \in Journeys : journeys[j] # None => journeys[j].born \in Nat
      BY DEF TypeOK, Row
    <2>5. clock \in Nat
      BY DEF TypeOK
    <2>6. \A e \in events' : e.after.born <= clock'
      BY <1>1, <2>3, <2>5 DEF BirthsDiffer
    <2>7. \A j \in Journeys : journeys'[j] # None => journeys'[j].born <= clock'
      BY <1>1, <2>4, <2>5 DEF BirthsDiffer
    <2>8. ASSUME NEW q \in Requests, Creating(q)'
          PROVE  /\ effect'[q].row.born <= clock'
                 /\ \A e \in events' : e.after.born # effect'[q].row.born
                 /\ \A j \in Journeys :
                       journeys'[j] # None => journeys'[j].born # effect'[q].row.born
      <3>1. CASE q = r
        BY <3>1, <2>8, <1>1, <2>3, <2>4, <2>5 DEF BirthsDiffer
      <3>2. CASE q # r
        BY <3>2, <2>8, <1>1, <2>1, <2>2, <2>5 DEF BirthsDiffer
      <3>3. QED
        BY <3>1, <3>2
    <2>9. ASSUME NEW q \in Requests, NEW p \in Requests, Creating(q)', Creating(p)',
                 effect'[q].row.born = effect'[p].row.born
          PROVE  q = p
      <3>1. CASE q # r /\ p # r
        BY <3>1, <2>9, <2>1 DEF BirthsDiffer
      <3>2. CASE q = r /\ p # r
        BY <3>2, <2>9, <2>1, <2>2, <2>5 DEF BirthsDiffer
      <3>3. CASE q # r /\ p = r
        BY <3>3, <2>9, <2>1, <2>2, <2>5 DEF BirthsDiffer
      <3>4. QED
        BY <3>1, <3>2, <3>3
    <2>10. QED
      BY <2>6, <2>7, <2>8, <2>9 DEF BirthsDiffer, Creating
  <1>8. QED
    BY <1>2, <1>3, <1>4, <1>5, <1>6, <1>7

\* The shapes of answers are answers.
LEMMA ReplyTypes ==
    \A status \in Statuses, version \in Nat :
        Reply(status, version) \in [status : Statuses, version : Nat]
  BY DEF Reply

\* The shapes of uncommitted writes are uncommitted writes.
LEMMA EffectTypes ==
    /\ NoEffect = Effect(Keep, None, None)
    /\ NoEffect \in [row : Row \cup {None, Keep},
                     receipt : Receipt \cup {None},
                     event : Event \cup {None}]
    /\ \A row \in Row \cup {None, Keep}, receipt \in Receipt \cup {None},
         event \in Event \cup {None} :
          /\ Effect(row, receipt, event) \in [row : Row \cup {None, Keep},
                                              receipt : Receipt \cup {None},
                                              event : Event \cup {None}]
          /\ Effect(row, receipt, event).row = row
          /\ Effect(row, receipt, event).receipt = receipt
          /\ Effect(row, receipt, event).event = event
  BY DEF Effect, NoEffect

\* A transaction that ends without a commit, or a request that is over.
LEMMA CloseStep ==
    ASSUME UowInv, NEW r \in Requests, NEW where \in {"done", "failed"},
           NEW answer \in [status : Statuses, version : Nat],
           Close(r, where, answer), UNCHANGED <<db, clock, op>>
    PROVE  UowInv'
  <1> USE DEF Close, Goto
  <1>0. TypeOK
    BY DEF UowInv
  <1>1. /\ pc'[r] = where /\ before'[r] = None /\ effect'[r] = NoEffect
        /\ reply'[r] = answer /\ op'[r] = op[r] /\ clock' = clock /\ clock \in Nat
    BY <1>0 DEF TypeOK
  <1>2. OnlyLocal(r)
    BY <1>0, <1>1 DEF OnlyLocal, TypeOK
  <1>3. LocalTypes(r)
    BY <1>0, <1>1, EffectTypes DEF LocalTypes, TypeOK
  <1>4. Carries(r)' /\ StillAuthorized(r)' /\ StillLocked(r)' /\ StillUndecided(r)'
    BY <1>1 DEF Carries, Idle, StillAuthorized, StillLocked, StillUndecided,
         InTransaction, Authorized
  <1>5. /\ \A k \in Keys : ~HoldsCommand(r, k)'
        /\ \A j \in Journeys : ~HoldsRow(r, j)'
        /\ ~Creating(r)'
    BY <1>1 DEF HoldsCommand, HoldsRow, Creating, InTransaction, Authorized
  <1>6. QED
    BY <1>1, <1>2, <1>3, <1>4, <1>5, LocalStep

\* A transaction that moves on without having locked or written a row.
LEMMA AdvanceStep ==
    ASSUME UowInv, NEW r \in Requests,
           NEW where \in {"authorize", "lock", "statement", "receipt", "row", "done"},
           pc[r] \notin {"write", "audit", "commit"},
           Goto(r, where), OnlyLocal(r),
           op'[r] \in Operations \/ (where = "done" /\ op'[r] = op[r]),
           UNCHANGED <<db, clock, before, effect, reply>>,
           op'[r] \in Operations /\ op'[r].kind = "update"
               => op'[r].journey = op'[r].cmd.journey,
           where \in {"lock", "receipt", "row"} => op'[r].kind = "update",
           where = "statement" => op'[r].kind # "update",
           where \in Authorized => CanWrite(role[op'[r].user]),
           where = "row" => receipts[<<op'[r].user, op'[r].cmd.id>>] = None,
           where \in {"receipt", "row"} =>
               \A q \in Requests \ {r} :
                   ~HoldsCommand(q, <<op'[r].user, op'[r].cmd.id>>)
    PROVE  UowInv'
  <1> USE DEF Goto
  <1>0. TypeOK /\ Idle(r)
    BY DEF UowInv, Carries
  <1>1. /\ pc'[r] = where /\ before'[r] = None /\ effect'[r] = NoEffect
        /\ reply'[r] = reply[r] /\ clock' = clock /\ clock \in Nat
        /\ role' = role /\ receipts' = receipts
    BY <1>0 DEF TypeOK, Idle, db
  <1>2. LocalTypes(r)
    BY <1>0, <1>1, EffectTypes DEF LocalTypes, TypeOK, InTransaction, Authorized
  <1>3. Carries(r)'
    BY <1>1 DEF Carries, Idle, InTransaction, Authorized
  <1>4. StillAuthorized(r)' /\ StillLocked(r)' /\ StillUndecided(r)'
    BY <1>1 DEF StillAuthorized, StillLocked, StillUndecided, NoEffect, Key
  <1>5. /\ \A k \in Keys : HoldsCommand(r, k)' =>
               \A q \in Requests \ {r} : ~HoldsCommand(q, k)
        /\ \A j \in Journeys : ~HoldsRow(r, j)'
        /\ ~Creating(r)'
    BY <1>1 DEF HoldsCommand, HoldsRow, Creating, NoEffect, Key
  <1>6. QED
    BY <1>1, <1>2, <1>3, <1>4, <1>5, LocalStep

-----------------------------------------------------------------------------
(***************************************************************************)
(* The steps up to the commit.                                             *)
(***************************************************************************)

\* What a transaction knows of its own operation.
LEMMA InFlight ==
    ASSUME UowInv, NEW r \in Requests, pc[r] \in InTransaction
    PROVE  /\ op[r] \in Operations /\ op[r].user \in Users /\ op[r].journey \in Journeys
           /\ op[r].kind \in {"update", "create", "delete", "touch"}
           /\ op[r].kind = "update" =>
                 /\ op[r].journey = op[r].cmd.journey /\ op[r].cmd \in Commands
                 /\ Key(r) \in Keys /\ Key(r) = <<op[r].user, op[r].cmd.id>>
                 /\ op[r].cmd.expected \in Nat /\ op[r].cmd.data \in Data
           /\ journeys[op[r].journey] \in Row \cup {None}
  <1>1. Carries(r) /\ TypeOK
    BY DEF UowInv
  <1>2. op[r] \in Operations
    BY <1>1 DEF Carries
  <1>3. /\ op[r].user \in Users /\ op[r].journey \in Journeys
        /\ op[r].kind \in {"update", "create", "delete", "touch"}
        /\ op[r].kind = "update" => op[r].cmd \in Commands
    BY <1>2, OperationTypes
  <1>4. QED
    BY <1>1, <1>2, <1>3, KeyTypes DEF Carries, TypeOK, Key

\* authenticate opens a transaction that has read and written nothing.
LEMMA AuthenticateStep ==
    ASSUME UowInv, NEW r \in Requests, Authenticate(r) PROVE UowInv'
  <1>0. TypeOK
    BY DEF UowInv
  <1>1. PICK o \in Operations : /\ o.kind = "update" => o.journey = o.cmd.journey
                               /\ op' = [op EXCEPT ![r] = o]
    BY DEF Authenticate
  <1>2. op'[r] = o
    BY <1>0, <1>1 DEF TypeOK
  <1>3. OnlyLocal(r)
    BY <1>0, <1>1 DEF OnlyLocal, Authenticate, Goto, TypeOK
  <1>4. QED
    BY <1>1, <1>2, <1>3, AdvanceStep DEF Authenticate, Authorized

\* authorize_permission finds the writing role and locks the membership.
LEMMA AuthorizeStep ==
    ASSUME UowInv, NEW r \in Requests, Authorize(r) PROVE UowInv'
  <1> USE DEF Authorize
  <1>0. TypeOK
    BY DEF UowInv
  <1>1. op[r] \in Operations /\ (op[r].kind = "update" => op[r].journey = op[r].cmd.journey)
    BY InFlight DEF InTransaction
  <1>2. OnlyLocal(r) /\ op'[r] = op[r]
    BY <1>0 DEF OnlyLocal, Goto, TypeOK
  <1>3. CASE op[r].kind = "update"
    <2>1. Goto(r, "lock")
      BY <1>3
    <2>2. QED
      BY <1>1, <1>2, <1>3, <2>1, AdvanceStep
  <1>4. CASE op[r].kind # "update"
    <2>1. Goto(r, "statement")
      BY <1>4
    <2>2. QED
      BY <1>1, <1>2, <1>4, <2>1, AdvanceStep
  <1>5. QED
    BY <1>3, <1>4

\* pg_advisory_xact_lock makes the request the only holder of its command.
LEMMA LockCommandStep ==
    ASSUME UowInv, NEW r \in Requests, LockCommand(r) PROVE UowInv'
  <1> USE DEF LockCommand
  <1>0. TypeOK /\ Carries(r) /\ StillAuthorized(r)
    BY DEF UowInv
  <1>1. /\ op[r] \in Operations /\ op[r].kind = "update" /\ op[r].journey = op[r].cmd.journey
        /\ Key(r) = <<op[r].user, op[r].cmd.id>> /\ CanWrite(role[op[r].user])
    BY <1>0, InFlight DEF InTransaction, Authorized, Carries, StillAuthorized
  <1>2. OnlyLocal(r) /\ op'[r] = op[r]
    BY <1>0 DEF OnlyLocal, Goto, TypeOK
  <1>3. QED
    BY <1>1, <1>2, AdvanceStep

\* _receipt finds nothing, and nothing can appear while the command is held.
LEMMA NoReceiptStep ==
    ASSUME UowInv, NEW r \in Requests, NoReceipt(r) PROVE UowInv'
  <1> USE DEF NoReceipt
  <1>0. TypeOK /\ Carries(r) /\ StillAuthorized(r) /\ OneHolderPerCommand
    BY DEF UowInv
  <1>1. /\ op[r] \in Operations /\ op[r].kind = "update" /\ op[r].journey = op[r].cmd.journey
        /\ Key(r) = <<op[r].user, op[r].cmd.id>> /\ Key(r) \in Keys
        /\ CanWrite(role[op[r].user])
    BY <1>0, InFlight DEF InTransaction, Authorized, Carries, StillAuthorized
  <1>2. OnlyLocal(r) /\ op'[r] = op[r]
    BY <1>0 DEF OnlyLocal, Goto, TypeOK
  <1>3. HoldsCommand(r, Key(r))
    BY <1>1 DEF HoldsCommand
  <1>4. \A q \in Requests \ {r} : ~HoldsCommand(q, Key(r))
    BY <1>0, <1>1, <1>3 DEF OneHolderPerCommand
  <1>5. QED
    BY <1>1, <1>2, <1>4, AdvanceStep

\* A step of a command that holds its advisory lock and moves to its commit
\* (or to the UPDATE, or to the audit) under the Journey row it has locked.
LEMMA HoldingStep ==
    ASSUME UowInv, NEW r \in Requests, NEW where \in {"write", "audit", "commit"},
           pc[r] \in {"receipt", "row", "write", "audit"},
           Goto(r, where), OnlyLocal(r), LocalTypes(r), UNCHANGED <<db, clock, op>>,
           Carries(r)',
           before'[r] # None \/ effect'[r].row # Keep =>
               before'[r] = journeys[op[r].journey] /\ RowFree(r, op[r].journey),
           pc[r] = "receipt" => effect'[r].receipt = None /\ where = "commit"
    PROVE  UowInv'
  <1>0. /\ TypeOK /\ Carries(r) /\ StillAuthorized(r) /\ StillUndecided(r)
        /\ OneHolderPerCommand
    BY DEF UowInv
  <1>1. /\ op[r] \in Operations /\ op[r].kind = "update" /\ op[r].journey = op[r].cmd.journey
        /\ Key(r) = <<op[r].user, op[r].cmd.id>> /\ Key(r) \in Keys
        /\ CanWrite(role[op[r].user])
    BY <1>0, InFlight DEF InTransaction, Authorized, Carries, StillAuthorized
  <1>2. /\ pc'[r] = where /\ op' = op /\ role' = role /\ receipts' = receipts
        /\ journeys' = journeys /\ clock' = clock /\ clock \in Nat
    BY <1>0 DEF Goto, TypeOK, db
  <1>3. StillAuthorized(r)' /\ StillLocked(r)' /\ StillUndecided(r)'
    BY <1>0, <1>1, <1>2 DEF StillAuthorized, StillLocked, StillUndecided, Key
  <1>4. HoldsCommand(r, Key(r))
    BY <1>1 DEF HoldsCommand
  <1>5. \A k \in Keys : HoldsCommand(r, k)' =>
               \A q \in Requests \ {r} : ~HoldsCommand(q, k)
    BY <1>0, <1>1, <1>2, <1>4 DEF OneHolderPerCommand, HoldsCommand, Key
  <1>6. \A j \in Journeys : HoldsRow(r, j)' => RowFree(r, j)
    BY <1>2 DEF HoldsRow
  <1>7. ~Creating(r)'
    BY <1>1, <1>2 DEF Creating
  <1>8. QED
    BY <1>2, <1>3, <1>5, <1>6, <1>7, LocalStep

\* _replay_or_conflict carries a recorded answer and no write to the commit.
LEMMA ReplayStep ==
    ASSUME UowInv, NEW r \in Requests, Replay(r) PROVE UowInv'
  <1> USE DEF Replay
  <1>0. TypeOK /\ Carries(r)
    BY DEF UowInv
  <1>1. /\ op[r] \in Operations /\ op[r].kind = "update" /\ op[r].journey = op[r].cmd.journey
        /\ Key(r) \in Keys /\ Idle(r)
    BY <1>0, InFlight DEF InTransaction, Authorized, Carries
  <1>2. receipts[Key(r)] \in Receipt
    BY <1>0, <1>1 DEF TypeOK
  <1>3. /\ pc'[r] = "commit" /\ before'[r] = None /\ effect'[r] = NoEffect /\ op' = op
        /\ reply'[r] = Reply(receipts[Key(r)].outcome, receipts[Key(r)].version)
    BY <1>0, <1>1 DEF Goto, TypeOK, Idle
  <1>4. reply'[r] \in [status : Statuses, version : Nat]
    BY <1>2, <1>3, ReplyTypes DEF Receipt, Statuses
  <1>5. OnlyLocal(r)
    BY <1>0 DEF OnlyLocal, Goto, TypeOK
  <1>6. LocalTypes(r)
    BY <1>1, <1>3, <1>4, EffectTypes DEF LocalTypes, InTransaction, Authorized
  <1>7. Carries(r)'
    BY <1>1, <1>3 DEF Carries, Replayed, Idle
  <1>8. effect'[r].receipt = None /\ effect'[r].row = Keep
    BY <1>3 DEF NoEffect
  <1>9. QED
    BY <1>3, <1>5, <1>6, <1>7, <1>8, HoldingStep

\* A command that finds no Journey carries a receipt and no lock.
LEMMA MissJourneyStep ==
    ASSUME UowInv, NEW r \in Requests, MissJourney(r) PROVE UowInv'
  <1> USE DEF MissJourney, WriteTerminalReceipt
  <1> DEFINE receipt == TerminalReceipt(op[r].cmd, "resource_not_found")
  <1>0. TypeOK /\ Carries(r)
    BY DEF UowInv
  <1>1. /\ op[r] \in Operations /\ op[r].kind = "update" /\ op[r].journey = op[r].cmd.journey
        /\ op[r].cmd \in Commands /\ Idle(r)
    BY <1>0, InFlight DEF InTransaction, Authorized, Carries
  <1>2. receipt \in Receipt
    BY <1>1, ReceiptTypes DEF Outcomes
  <1>3. /\ pc'[r] = "commit" /\ before'[r] = None /\ op' = op
        /\ effect'[r] = Effect(Keep, receipt, None)
        /\ reply'[r] = Reply("resource_not_found", NoVersion)
    BY <1>0, <1>1 DEF Goto, TypeOK, Idle, NoEffect, Effect
  <1>4. reply'[r] \in [status : Statuses, version : Nat]
    BY <1>3, ReplyTypes DEF Statuses, Outcomes, NoVersion
  <1>5. OnlyLocal(r)
    BY <1>0 DEF OnlyLocal, Goto, TypeOK
  <1>6. /\ LocalTypes(r) /\ effect'[r].row = Keep
    BY <1>1, <1>2, <1>3, <1>4, EffectTypes DEF LocalTypes, InTransaction, Authorized
  <1>7. Carries(r)'
    BY <1>1, <1>3 DEF Carries, Missing
  <1>8. QED
    BY <1>3, <1>5, <1>6, <1>7, HoldingStep

\* A command that finds another version carries a receipt and the row lock.
LEMMA StaleVersionStep ==
    ASSUME UowInv, NEW r \in Requests, StaleVersion(r) PROVE UowInv'
  <1> USE DEF StaleVersion, WriteTerminalReceipt
  <1> DEFINE receipt == TerminalReceipt(op[r].cmd, "version_conflict")
  <1>0. TypeOK /\ Carries(r)
    BY DEF UowInv
  <1>1. /\ op[r] \in Operations /\ op[r].kind = "update" /\ op[r].journey = op[r].cmd.journey
        /\ op[r].cmd \in Commands /\ Idle(r) /\ journeys[op[r].journey] \in Row
    BY <1>0, InFlight DEF InTransaction, Authorized, Carries
  <1>2. receipt \in Receipt
    BY <1>1, ReceiptTypes DEF Outcomes
  <1>3. /\ pc'[r] = "commit" /\ before'[r] = journeys[op[r].journey] /\ op' = op
        /\ effect'[r] = Effect(Keep, receipt, None)
        /\ reply'[r] = Reply("version_conflict", NoVersion)
    BY <1>0, <1>1 DEF Goto, TypeOK, Idle, NoEffect, Effect
  <1>4. reply'[r] \in [status : Statuses, version : Nat]
    BY <1>3, ReplyTypes DEF Statuses, Outcomes, NoVersion
  <1>5. OnlyLocal(r)
    BY <1>0 DEF OnlyLocal, Goto, TypeOK
  <1>6. LocalTypes(r)
    BY <1>1, <1>2, <1>3, <1>4, EffectTypes DEF LocalTypes, InTransaction, Authorized
  <1>7. Carries(r)'
    BY <1>1, <1>3 DEF Carries, Stale
  <1>8. QED
    BY <1>3, <1>5, <1>6, <1>7, HoldingStep

\* SELECT ... FOR UPDATE makes the request the only holder of the row.
LEMMA LockJourneyStep ==
    ASSUME UowInv, NEW r \in Requests, LockJourney(r) PROVE UowInv'
  <1> USE DEF LockJourney
  <1>0. TypeOK /\ Carries(r)
    BY DEF UowInv
  <1>1. /\ op[r] \in Operations /\ op[r].kind = "update" /\ op[r].journey = op[r].cmd.journey
        /\ op[r].cmd \in Commands /\ Idle(r) /\ journeys[op[r].journey] \in Row
    BY <1>0, InFlight DEF InTransaction, Authorized, Carries
  <1>2. /\ pc'[r] = "write" /\ before'[r] = journeys[op[r].journey] /\ op' = op
        /\ effect'[r] = NoEffect /\ reply'[r] = reply[r]
    BY <1>0, <1>1 DEF Goto, TypeOK, Idle
  <1>3. OnlyLocal(r)
    BY <1>0 DEF OnlyLocal, Goto, TypeOK
  <1>4. LocalTypes(r)
    BY <1>0, <1>1, <1>2, EffectTypes DEF LocalTypes, InTransaction, Authorized, TypeOK
  <1>5. Carries(r)'
    BY <1>1, <1>2 DEF Carries, Found
  <1>6. QED
    BY <1>2, <1>3, <1>4, <1>5, HoldingStep

\* At the UPDATE and at the audit the locked row is the committed row.
LEMMA RowHeld ==
    ASSUME UowInv, NEW r \in Requests, pc[r] \in {"write", "audit"}
    PROVE  /\ Found(r) /\ journeys[op[r].journey] = before[r]
           /\ RowFree(r, op[r].journey)
           /\ op[r] \in Operations /\ op[r].kind = "update"
           /\ op[r].journey = op[r].cmd.journey
           /\ op[r].cmd \in Commands /\ op[r].user \in Users
  <1>0. Carries(r) /\ StillLocked(r) /\ OneHolderPerRow
    BY DEF UowInv
  <1>1. /\ Found(r) /\ op[r] \in Operations /\ op[r].kind = "update" /\ op[r].journey \in Journeys
        /\ op[r].journey = op[r].cmd.journey
        /\ op[r].cmd \in Commands /\ op[r].user \in Users
    BY <1>0, InFlight DEF InTransaction, Authorized, Carries
  <1>2. before[r] # None
    BY <1>1, Absences DEF Found
  <1>3. HoldsRow(r, op[r].journey)
    BY <1>2 DEF HoldsRow, InTransaction, Authorized
  <1>4. QED
    BY <1>0, <1>1, <1>2, <1>3 DEF StillLocked, RowFree, OneHolderPerRow, InTransaction, Authorized

\* The UPDATE finds the version that the locked row had: it never misses.
LEMMA ApplyUpdateStep ==
    ASSUME UowInv, NEW r \in Requests, ApplyUpdate(r) PROVE UowInv'
  <1> DEFINE after == Updated(before[r], op[r].cmd)
  <1>0. TypeOK /\ Carries(r)
    BY DEF UowInv
  <1>1. /\ Found(r) /\ journeys[op[r].journey] = before[r] /\ RowFree(r, op[r].journey)
        /\ op[r] \in Operations /\ op[r].kind = "update" /\ op[r].journey = op[r].cmd.journey
        /\ op[r].cmd \in Commands /\ effect[r] = NoEffect
    BY <1>0, RowHeld DEF ApplyUpdate, Carries
  <1>2. after \in Row
    BY <1>1, RowTypes DEF Found
  <1>3. /\ effect' = [effect EXCEPT ![r].row = after]
        /\ Goto(r, "audit") /\ UNCHANGED <<db, clock, op, before, reply>>
    BY <1>1, Absences DEF ApplyUpdate, Found
  <1>4. /\ pc'[r] = "audit" /\ before'[r] = before[r] /\ op' = op /\ reply'[r] = reply[r]
        /\ effect'[r] = Effect(after, None, None)
    BY <1>0, <1>1, <1>3 DEF Goto, TypeOK, NoEffect, Effect
  <1>5. OnlyLocal(r)
    BY <1>0, <1>3 DEF OnlyLocal, Goto, TypeOK
  <1>6. LocalTypes(r)
    <2>1. effect'[r] \in [row : Row \cup {None, Keep}, receipt : Receipt \cup {None},
                          event : Event \cup {None}]
      BY <1>2, <1>4, EffectTypes
    <2>2. QED
      BY <1>0, <1>1, <1>4, <2>1 DEF LocalTypes, InTransaction, Authorized, TypeOK, Found
  <1>7. Carries(r)'
    BY <1>1, <1>4 DEF Carries, Found
  <1>8. QED
    BY <1>1, <1>3, <1>4, <1>5, <1>6, <1>7, HoldingStep DEF ApplyUpdate

\* write_applied_audit records the locked row as the state before.
LEMMA WriteAuditStep ==
    ASSUME UowInv, NEW r \in Requests, WriteAudit(r) PROVE UowInv'
  <1> USE DEF WriteAudit
  <1> DEFINE after == Updated(before[r], op[r].cmd)
             receipt == AppliedReceipt(op[r].cmd, after)
             event == AuditEvent(op[r].user, op[r].cmd, before[r], after)
  <1>0. TypeOK /\ Carries(r)
    BY DEF UowInv
  <1>1. /\ Found(r) /\ journeys[op[r].journey] = before[r] /\ RowFree(r, op[r].journey)
        /\ op[r] \in Operations /\ op[r].kind = "update" /\ op[r].journey = op[r].cmd.journey
        /\ op[r].cmd \in Commands /\ op[r].user \in Users
        /\ effect[r] = Effect(after, None, None)
    BY <1>0, RowHeld DEF Carries
  <1>2. before[r] \in Row /\ after \in Row /\ effect[r].row = after
    BY <1>1, RowTypes DEF Found, Effect
  <1>3. receipt \in Receipt /\ event \in Event
    BY <1>1, <1>2, ReceiptTypes, EventTypes
  <1>4. /\ pc'[r] = "commit" /\ before'[r] = before[r] /\ op' = op
        /\ effect'[r] = Effect(after, receipt, event)
        /\ reply'[r] = Reply("applied", after.version)
    BY <1>0, <1>1, <1>2 DEF Goto, TypeOK, Effect
  <1>5. reply'[r] \in [status : Statuses, version : Nat]
    BY <1>2, <1>4, ReplyTypes DEF Statuses, Outcomes, Row
  <1>6. OnlyLocal(r)
    BY <1>0 DEF OnlyLocal, Goto, TypeOK
  <1>7. LocalTypes(r)
    BY <1>1, <1>2, <1>3, <1>4, <1>5, EffectTypes DEF LocalTypes, InTransaction, Authorized
  <1>8. Carries(r)'
    BY <1>1, <1>4 DEF Carries, Applied, Found
  <1>9. QED
    BY <1>1, <1>4, <1>6, <1>7, <1>8, HoldingStep

\* INSERT, DELETE, or a child statement with _touch_journey.
LEMMA WriteStep ==
    ASSUME UowInv, NEW r \in Requests, pc[r] = "statement",
           NEW locked \in Row \cup {None}, NEW row \in Row \cup {None},
           Write(r, locked, row), UNCHANGED <<db, op>>, clock' \in Nat, clock <= clock',
           locked = journeys[op[r].journey], RowFree(r, op[r].journey),
           \/ /\ op[r].kind = "create" /\ locked = None /\ row \in Row
              /\ row.version = 1 /\ row.born = clock' /\ clock < clock'
           \/ op[r].kind = "delete" /\ locked \in Row /\ row = None
           \/ op[r].kind = "touch" /\ locked \in Row /\ row = Touched(locked)
    PROVE  UowInv'
  <1> USE DEF Write, Goto
  <1>0. TypeOK /\ Carries(r) /\ StillAuthorized(r)
    BY DEF UowInv
  <1>1. op[r] \in Operations /\ Idle(r) /\ CanWrite(role[op[r].user])
    BY <1>0, InFlight DEF InTransaction, Authorized, Carries, StillAuthorized
  <1>2. /\ pc'[r] = "commit" /\ before'[r] = locked /\ op' = op
        /\ effect'[r] = Effect(row, None, None)
        /\ reply'[r] = Reply("ok", NoVersion)
        /\ role' = role /\ journeys' = journeys /\ receipts' = receipts
    BY <1>0, <1>1 DEF TypeOK, Idle, NoEffect, Effect, db
  <1>3. reply'[r] \in [status : Statuses, version : Nat]
    BY <1>2, ReplyTypes DEF Statuses, NoVersion
  <1>4. OnlyLocal(r)
    BY <1>0 DEF OnlyLocal, TypeOK
  <1>5. /\ effect'[r].row = row /\ effect'[r].receipt = None
        /\ effect'[r] \in [row : Row \cup {None, Keep}, receipt : Receipt \cup {None},
                            event : Event \cup {None}]
    BY <1>2 DEF Effect
  <1>6. LocalTypes(r)
    BY <1>1, <1>2, <1>3, <1>5 DEF LocalTypes, InTransaction, Authorized
  <1>7. Carries(r)'
    BY <1>1, <1>2, <1>5 DEF Carries, Created, Deleted, TouchedRow
  <1>8. StillAuthorized(r)' /\ StillLocked(r)' /\ StillUndecided(r)'
    BY <1>1, <1>2, <1>5 DEF StillAuthorized, StillLocked, StillUndecided
  <1>9. /\ \A k \in Keys : ~HoldsCommand(r, k)'
        /\ \A j \in Journeys : HoldsRow(r, j)' => RowFree(r, j)
    BY <1>2 DEF HoldsCommand, HoldsRow
  <1>10. Creating(r)' => effect'[r].row.born = clock' /\ clock < clock'
    BY <1>2, <1>5 DEF Creating
  <1>11. QED
    BY <1>4, <1>6, <1>7, <1>8, <1>9, <1>10, LocalStep

\* create_journey, delete_journey and _touch_journey take the row they write.
LEMMA PlainSteps ==
    ASSUME UowInv, NEW r \in Requests,
           CreateJourney(r) \/ DeleteJourney(r) \/ TouchJourney(r)
    PROVE  UowInv'
  <1>0. clock \in Nat
    BY DEF UowInv, TypeOK
  <1>1. journeys[op[r].journey] \in Row \cup {None}
    BY InFlight DEF CreateJourney, DeleteJourney, TouchJourney, Statement, InTransaction, Authorized
  <1>2. CASE CreateJourney(r)
    <2>1. PICK d \in Data : Write(r, None, NewRow(d, clock + 1))
      BY <1>2 DEF CreateJourney
    <2>2. /\ clock' = clock + 1 /\ NewRow(d, clock + 1) \in Row
          /\ NewRow(d, clock + 1).version = 1 /\ NewRow(d, clock + 1).born = clock + 1
      BY <1>0, <1>2, RowTypes DEF CreateJourney, NewRow
    <2>3. QED
      BY <1>0, <1>2, <2>1, <2>2, WriteStep DEF CreateJourney, Statement
  <1>3. CASE DeleteJourney(r)
    BY <1>0, <1>1, <1>3, WriteStep DEF DeleteJourney, Statement
  <1>4. CASE TouchJourney(r)
    BY <1>0, <1>1, <1>4, RowTypes, WriteStep DEF TouchJourney, Statement
  <1>5. QED
    BY <1>2, <1>3, <1>4

\* An administrator's change waits for the transactions of that member.
LEMMA SetRoleStep ==
    ASSUME UowInv, NEW u \in Users, NEW x \in Roles \cup {None}, SetRole(u, x)
    PROVE  UowInv'
  <1> USE DEF SetRole
  <1>0. TypeOK
    BY DEF UowInv
  <1>1. TypeOK'
    BY <1>0 DEF TypeOK
  <1>2. ASSUME NEW r \in Requests PROVE StillAuthorized(r)'
    BY <1>0 DEF UowInv, StillAuthorized, HoldsMembership, TypeOK
  <1>3. ASSUME NEW r \in Requests PROVE Carries(r)'
    BY DEF UowInv, Carries, Idle, Found, Replayed, Missing, Stale, Applied,
         Created, Deleted, TouchedRow
  <1>4. ASSUME NEW r \in Requests PROVE StillLocked(r)' /\ StillUndecided(r)'
    BY DEF UowInv, StillLocked, StillUndecided, Key
  <1>5. OneHolderPerCommand' /\ OneHolderPerRow'
    BY DEF UowInv, OneHolderPerCommand, OneHolderPerRow, HoldsCommand, HoldsRow, Key
  <1>6. BirthsDiffer'
    BY DEF UowInv, BirthsDiffer, Creating
  <1>7. QED
    BY <1>1, <1>2, <1>3, <1>4, <1>5, <1>6 DEF UowInv

-----------------------------------------------------------------------------
(***************************************************************************)
(* The commit.                                                             *)
(***************************************************************************)

\* What is installed by a commit, and that its locks were exclusive.
LEMMA AtCommit ==
    ASSUME UowInv, NEW r \in Requests, pc[r] = "commit"
    PROVE  /\ effect[r].row # Keep =>
                 /\ effect[r].row \in Row \cup {None}
                 /\ journeys[op[r].journey] = before[r]
                 /\ \A q \in Requests \ {r} : ~HoldsRow(q, op[r].journey)
           /\ effect[r].receipt # None =>
                 /\ op[r].kind = "update" /\ effect[r].receipt \in Receipt
                 /\ receipts[Key(r)] = None
                 /\ \A q \in Requests \ {r} : ~HoldsCommand(q, Key(r))
           /\ effect[r].event # None =>
                 op[r].kind = "update" /\ Applied(r) /\ effect[r].event \in Event
  <1>0. /\ TypeOK /\ Carries(r) /\ StillLocked(r) /\ StillUndecided(r)
        /\ OneHolderPerCommand /\ OneHolderPerRow
    BY DEF UowInv
  <1>1. effect[r] \in [row : Row \cup {None, Keep}, receipt : Receipt \cup {None},
                       event : Event \cup {None}]
    BY <1>0 DEF TypeOK
  <1>2. op[r].journey \in Journeys /\ (op[r].kind = "update" => Key(r) \in Keys)
    BY InFlight DEF InTransaction, Authorized
  <1>3. ASSUME effect[r].row # Keep
        PROVE  /\ effect[r].row \in Row \cup {None}
               /\ journeys[op[r].journey] = before[r]
               /\ \A q \in Requests \ {r} : ~HoldsRow(q, op[r].journey)
    <2>1. HoldsRow(r, op[r].journey)
      BY <1>3 DEF HoldsRow, InTransaction, Authorized
    <2>2. QED
      BY <1>0, <1>1, <1>2, <1>3, <2>1 DEF StillLocked, OneHolderPerRow, InTransaction, Authorized
  <1>4. ASSUME effect[r].receipt # None
        PROVE  /\ op[r].kind = "update" /\ effect[r].receipt \in Receipt
               /\ receipts[Key(r)] = None
               /\ \A q \in Requests \ {r} : ~HoldsCommand(q, Key(r))
    <2>1. op[r].kind = "update"
      BY <1>0, <1>4 DEF Carries, Created, Deleted, TouchedRow, Effect
    <2>2. HoldsCommand(r, Key(r))
      BY <2>1 DEF HoldsCommand
    <2>3. QED
      BY <1>0, <1>1, <1>2, <1>4, <2>1, <2>2 DEF StillUndecided, OneHolderPerCommand
  <1>5. ASSUME effect[r].event # None
        PROVE  op[r].kind = "update" /\ Applied(r) /\ effect[r].event \in Event
    BY <1>0, <1>1, <1>5 DEF Carries, Created, Deleted, TouchedRow, Effect, Replayed, Idle, NoEffect,
         Missing, Stale
  <1>6. QED
    BY <1>3, <1>4, <1>5

\* The row that a commit installs is as old as the one it replaces, or new.
LEMMA BornAtCommit ==
    ASSUME UowInv, NEW r \in Requests, pc[r] = "commit",
           effect[r].row # Keep, effect[r].row # None
    PROVE  \/ Creating(r)
           \/ /\ journeys[op[r].journey] # None
              /\ effect[r].row.born = journeys[op[r].journey].born
  <1>0. Carries(r) /\ op[r].kind \in {"update", "create", "delete", "touch"}
    BY InFlight DEF UowInv, InTransaction, Authorized
  <1>1. journeys[op[r].journey] = before[r]
    BY AtCommit
  <1>2. CASE op[r].kind = "update"
    <2>1. Applied(r)
      BY <1>0, <1>2 DEF Carries, Replayed, Idle, NoEffect, Missing, Stale, Effect
    <2>2. QED
      BY <1>1, <2>1, Absences DEF Applied, Found, Effect, Updated
  <1>3. CASE op[r].kind = "create"
    BY <1>3 DEF Creating
  <1>4. CASE op[r].kind = "delete"
    BY <1>0, <1>4 DEF Carries, Deleted, Effect
  <1>5. CASE op[r].kind = "touch"
    BY <1>0, <1>1, <1>5, Absences DEF Carries, TouchedRow, Effect, Touched
  <1>6. QED
    BY <1>0, <1>2, <1>3, <1>4, <1>5

\* A commit changes nothing that another open transaction relies on.
LEMMA CommitStep ==
    ASSUME UowInv, NEW r \in Requests, Commit(r) PROVE UowInv'
  <1> DEFINE j == op[r].journey
  <1>0. /\ TypeOK /\ Carries(r) /\ OneHolderPerCommand /\ OneHolderPerRow /\ BirthsDiffer
    BY DEF UowInv
  <1>1. /\ pc[r] = "commit" /\ j \in Journeys /\ op[r].kind \in {"update", "create", "delete", "touch"}
        /\ op[r].kind = "update" => Key(r) \in Keys
    BY InFlight DEF Commit, InTransaction, Authorized
  <1>2. /\ effect[r].row # Keep =>
              /\ effect[r].row \in Row \cup {None}
              /\ journeys[j] = before[r]
              /\ \A q \in Requests \ {r} : ~HoldsRow(q, j)
        /\ effect[r].receipt # None =>
              /\ op[r].kind = "update" /\ effect[r].receipt \in Receipt
              /\ receipts[Key(r)] = None
              /\ \A q \in Requests \ {r} : ~HoldsCommand(q, Key(r))
        /\ effect[r].event # None =>
              op[r].kind = "update" /\ Applied(r) /\ effect[r].event \in Event
    BY <1>1, AtCommit
  <1>3. OnlyLocal(r) /\ op' = op /\ role' = role /\ clock' = clock
    BY <1>0 DEF OnlyLocal, Commit, Close, Goto, TypeOK
  <1>4. /\ pc'[r] = "respond" /\ before'[r] = None /\ effect'[r] = NoEffect /\ reply'[r] = reply[r]
    BY <1>0 DEF Commit, Close, Goto, TypeOK
  <1>5. /\ journeys' = IF effect[r].row = Keep THEN journeys
                       ELSE [journeys EXCEPT ![j] = effect[r].row]
        /\ receipts' = IF effect[r].receipt = None THEN receipts
                       ELSE [receipts EXCEPT ![Key(r)] = effect[r].receipt]
        /\ events' = IF effect[r].event = None THEN events ELSE events \cup {effect[r].event}
    BY DEF Commit
  <1>6. TypeOK'
    <2>1. journeys' \in [Journeys -> Row \cup {None}]
      BY <1>0, <1>1, <1>2, <1>5 DEF TypeOK
    <2>2. receipts' \in [Keys -> Receipt \cup {None}]
      BY <1>0, <1>1, <1>2, <1>5 DEF TypeOK
    <2>3. events' \subseteq Event
      BY <1>0, <1>2, <1>5 DEF TypeOK
    <2>4. LocalTypes(r)
      BY <1>0, <1>3, <1>4, EffectTypes DEF LocalTypes, TypeOK
    <2>5. QED
      BY <1>0, <1>3, <2>1, <2>2, <2>3, <2>4 DEF TypeOK, OnlyLocal, LocalTypes
  <1>7. ASSUME NEW q \in Requests PROVE Carries(q)'
    <2>1. CASE q = r
      BY <2>1, <1>4 DEF Carries, Idle, InTransaction, Authorized
    <2>2. CASE q # r
      BY <2>2, <1>0, <1>3, OthersUntouched DEF UowInv, Carries, Idle, Found, Replayed, Missing,
           Stale, Applied, Created, Deleted, TouchedRow
    <2>3. QED
      BY <2>1, <2>2
  <1>8. ASSUME NEW q \in Requests
        PROVE  StillAuthorized(q)' /\ StillLocked(q)' /\ StillUndecided(q)'
    <2>1. CASE q = r
      BY <2>1, <1>4 DEF StillAuthorized, StillLocked, StillUndecided, InTransaction, Authorized
    <2>2. CASE q # r
      <3>1. /\ pc'[q] = pc[q] /\ op'[q] = op[q] /\ before'[q] = before[q] /\ effect'[q] = effect[q]
        BY <2>2, <1>0, <1>3, OthersUntouched
      <3>2. StillAuthorized(q) /\ StillLocked(q) /\ StillUndecided(q) /\ Carries(q)
        BY DEF UowInv
      <3>3. StillAuthorized(q)'
        BY <1>3, <3>1, <3>2 DEF StillAuthorized
      <3>4. StillLocked(q)'
        <4> SUFFICES ASSUME pc[q] \in InTransaction, before[q] # None \/ effect[q].row # Keep
                     PROVE  journeys'[op[q].journey] = before[q]
          BY <3>1 DEF StillLocked
        <4>1. op[q].journey \in Journeys /\ HoldsRow(q, op[q].journey)
          BY InFlight DEF HoldsRow
        <4>2. effect[r].row # Keep => op[q].journey # j
          BY <4>1, <2>2, <1>2
        <4>3. QED
          BY <4>1, <4>2, <3>2, <1>0, <1>1, <1>5 DEF StillLocked, TypeOK
      <3>5. StillUndecided(q)'
        <4> SUFFICES ASSUME \/ pc[q] \in {"row", "write", "audit"}
                            \/ pc[q] = "commit" /\ effect[q].receipt # None
                     PROVE  receipts'[Key(q)] = None
          BY <3>1, <1>3 DEF StillUndecided, Key
        <4>1. op[q].kind = "update" /\ Key(q) \in Keys
          BY <3>2, InFlight DEF Carries, Created, Deleted, TouchedRow, Effect,
               InTransaction, Authorized
        <4>2. HoldsCommand(q, Key(q))
          BY <4>1 DEF HoldsCommand
        <4>3. effect[r].receipt # None => Key(q) # Key(r)
          BY <4>2, <2>2, <1>2
        <4>4. QED
          BY <4>1, <4>3, <3>2, <1>0, <1>5 DEF StillUndecided, TypeOK
      <3>6. QED
        BY <3>3, <3>4, <3>5
    <2>3. QED
      BY <2>1, <2>2
  <1>9. OneHolderPerCommand' /\ OneHolderPerRow'
    <2>1. \A q \in Requests, k \in Keys : HoldsCommand(q, k)' => HoldsCommand(q, k)
      <3>1. ASSUME NEW q \in Requests, NEW k \in Keys, HoldsCommand(q, k)' PROVE HoldsCommand(q, k)
        <4>1. q # r
          BY <3>1, <1>4 DEF HoldsCommand
        <4>2. QED
          BY <4>1, <3>1, <1>0, <1>3, OthersUntouched DEF HoldsCommand, Key
      <3>2. QED
        BY <3>1
    <2>2. \A q \in Requests, i \in Journeys : HoldsRow(q, i)' => HoldsRow(q, i)
      <3>1. ASSUME NEW q \in Requests, NEW i \in Journeys, HoldsRow(q, i)' PROVE HoldsRow(q, i)
        <4>1. q # r
          BY <3>1, <1>4 DEF HoldsRow, InTransaction, Authorized
        <4>2. QED
          BY <4>1, <3>1, <1>0, <1>3, OthersUntouched DEF HoldsRow
      <3>2. QED
        BY <3>1
    <2>3. QED
      BY <2>1, <2>2, <1>0 DEF OneHolderPerCommand, OneHolderPerRow
  <1>10. BirthsDiffer'
    <2>1. /\ ~Creating(r)'
          /\ \A q \in Requests : Creating(q)' => q # r /\ Creating(q) /\ effect'[q] = effect[q]
      BY <1>0, <1>3, <1>4, OthersUntouched DEF Creating
    <2>2. \A i \in Journeys : journeys'[i] # None =>
             \/ journeys[i] # None /\ journeys'[i].born = journeys[i].born
             \/ Creating(r) /\ journeys'[i].born = effect[r].row.born
      BY <1>0, <1>1, <1>5, BornAtCommit DEF TypeOK
    <2>3. \A e \in events' : e \in events
             \/ (journeys[j] # None /\ e.after.born = journeys[j].born)
      <3>1. CASE effect[r].event = None
        BY <3>1, <1>5
      <3>2. CASE effect[r].event # None
        <4>1. /\ Applied(r) /\ journeys[j] = before[r] /\ before[r] # None
              /\ effect[r].event.after.born = before[r].born
          <5>1. Applied(r)
            BY <3>2, <1>2
          <5>2. effect[r].row # Keep /\ before[r] # None
            BY <5>1, <1>1, RowTypes, InFlight, <1>2, <3>2, Absences
               DEF Applied, Found, Effect, InTransaction, Authorized
          <5>3. effect[r].event.after.born = before[r].born
            BY <5>1 DEF Applied, Effect, AuditEvent, Updated
          <5>4. QED
            BY <5>1, <5>2, <5>3, <1>2
        <4>2. QED
          BY <4>1, <3>2, <1>5
      <3>3. QED
        BY <3>1, <3>2
    <2>4. \A e \in events' : e.after.born <= clock'
      BY <2>3, <1>0, <1>1, <1>3 DEF BirthsDiffer
    <2>5. \A i \in Journeys : journeys'[i] # None => journeys'[i].born <= clock'
      BY <2>2, <1>0, <1>3 DEF BirthsDiffer
    <2>6. ASSUME NEW q \in Requests, Creating(q)'
          PROVE  /\ effect'[q].row.born <= clock'
                 /\ \A e \in events' : e.after.born # effect'[q].row.born
                 /\ \A i \in Journeys :
                       journeys'[i] # None => journeys'[i].born # effect'[q].row.born
      BY <2>6, <2>1, <2>2, <2>3, <1>0, <1>1, <1>3 DEF BirthsDiffer
    <2>7. ASSUME NEW q \in Requests, NEW p \in Requests, Creating(q)', Creating(p)',
                 effect'[q].row.born = effect'[p].row.born
          PROVE  q = p
      BY <2>7, <2>1, <1>0 DEF BirthsDiffer
    <2>8. QED
      BY <2>4, <2>5, <2>6, <2>7 DEF BirthsDiffer, Creating
  <1>11. QED
    BY <1>6, <1>7, <1>8, <1>9, <1>10 DEF UowInv

-----------------------------------------------------------------------------

\* Answering a client touches no table.
LEMMA RespondStep ==
    ASSUME UowInv, NEW r \in Requests, Respond(r) PROVE UowInv'
  <1>0. TypeOK
    BY DEF UowInv
  <1>1. OnlyLocal(r) /\ op'[r] = op[r]
    BY <1>0 DEF OnlyLocal, Respond, Goto, TypeOK
  <1>2. Close(r, "done", reply[r])
    <2>1. Idle(r)
      BY DEF UowInv, Carries, Respond
    <2>2. QED
      BY <1>0, <2>1 DEF Respond, Close, Goto, Idle, TypeOK
  <1>3. reply[r] \in [status : Statuses, version : Nat]
    BY <1>0 DEF TypeOK
  <1>4. QED
    BY <1>2, <1>3, CloseStep DEF Respond

\* Rolling back, refusing and losing an answer leave the request idle.
LEMMA ClosingSteps ==
    ASSUME UowInv, NEW r \in Requests,
           \/ Refuse(r) \/ Forbid(r) \/ IdempotencyConflict(r) \/ DuplicateJourney(r)
           \/ MissStatement(r) \/ Abort(r) \/ LoseReply(r)
    PROVE  UowInv'
  <1>1. /\ Pending \in [status : Statuses, version : Nat]
        /\ \A status \in Statuses :
              Reply(status, NoVersion) \in [status : Statuses, version : Nat]
    BY DEF Pending, Reply, Statuses, NoVersion
  <1>2. {"unauthenticated", "forbidden", "idempotency_conflict", "resource_not_found"}
           \subseteq Statuses
    BY DEF Statuses, Outcomes
  <1>3. QED
    BY <1>1, <1>2, CloseStep DEF Refuse, Forbid, IdempotencyConflict, DuplicateJourney,
         MissStatement, Abort, LoseReply

\* The invariant speaks of the variables only.
LEMMA StutterStep ==
    ASSUME UowInv, UNCHANGED vars PROVE UowInv'
  BY DEF vars, UowInv, TypeOK, Carries, Idle, Found, Replayed, Missing, Stale, Applied, Created,
         Deleted, TouchedRow, StillAuthorized, StillLocked, StillUndecided, Key,
         OneHolderPerCommand, OneHolderPerRow, HoldsCommand, HoldsRow, BirthsDiffer, Creating

\* Every step keeps the invariant.
LEMMA NextUowInv == UowInv /\ [Next]_vars => UowInv'
  <1> SUFFICES ASSUME UowInv, [Next]_vars PROVE UowInv'
    OBVIOUS
  <1>1. ASSUME NEW r \in Requests, Execute(r) PROVE UowInv'
    BY <1>1, AuthorizeStep, LockCommandStep, NoReceiptStep, ReplayStep, MissJourneyStep,
       StaleVersionStep, LockJourneyStep, ApplyUpdateStep, WriteAuditStep, PlainSteps,
       ClosingSteps, CommitStep, RespondStep DEF Execute
  <1>2. ASSUME NEW r \in Requests,
               Authenticate(r) \/ Refuse(r) \/ Abort(r) \/ LoseReply(r)
        PROVE  UowInv'
    BY <1>2, AuthenticateStep, ClosingSteps
  <1>3. ASSUME NEW u \in Users, NEW x \in Roles \cup {None}, SetRole(u, x) PROVE UowInv'
    BY <1>3, SetRoleStep
  <1>4. CASE UNCHANGED vars
    BY <1>4, StutterStep
  <1>5. QED
    BY <1>1, <1>2, <1>3, <1>4 DEF Next

\* The invariant holds in every reachable state, for any set of requests.
THEOREM UowInvariant == Spec => []UowInv
  <1>1. Init => UowInv
    BY InitUowInv
  <1>2. UowInv /\ [Next]_vars => UowInv'
    BY NextUowInv
  <1>3. QED
    BY <1>1, <1>2, PTL DEF Spec

\* The tables and the request-local state of the write path keep their types.
THEOREM UowTypeCorrect == Spec => []TypeOK
  <1>1. UowInv => TypeOK
    BY DEF UowInv
  <1>2. QED
    BY <1>1, UowInvariant, PTL

\* Nothing commits, and no earlier outcome is replayed, for a member who has
\* lost the writing role: the FOR SHARE lock orders demotions and commits.
THEOREM UowAuthority == Spec => AuthorityAtCommit
  <1>1. UowInv /\ [Next]_vars =>
           [\A r \in Requests :
               pc[r] = "commit" /\ pc'[r] = "respond" => CanWrite(role[op[r].user])]_vars
    BY DEF UowInv, StillAuthorized, Authorized
  <1>2. QED
    BY <1>1, UowInvariant, PTL DEF Spec, AuthorityAtCommit

-----------------------------------------------------------------------------
(***************************************************************************)
(* What clients are told.                                                  *)
(***************************************************************************)

\* The receipt that an answer claims.
Told(r) == [cmd |-> op[r].cmd, outcome |-> reply[r].status, version |-> reply[r].version]

\* An answer is the receipt that the transaction has found or is about to
\* install, and later the one in the table.
Truthful(r) ==
    op[r] # None /\ op[r].kind = "update" =>
        /\ pc[r] = "commit" =>
              /\ reply[r].status \in Outcomes
              /\ effect[r].receipt \in {None, Told(r)}
              /\ effect[r].receipt = None => receipts[Key(r)] = Told(r)
        /\ pc[r] \in {"respond", "done"} =>
              /\ reply[r].status \in Outcomes => receipts[Key(r)] = Told(r)
              /\ reply[r].status = "idempotency_conflict" =>
                    receipts[Key(r)] # None /\ receipts[Key(r)].cmd # op[r].cmd

AnswersInv == UowInv /\ \A r \in Requests : Truthful(r)

\* No step changes a receipt that is there.
LEMMA ReceiptsStay ==
    ASSUME UowInv, [Next]_vars, NEW k \in Keys, receipts[k] # None
    PROVE  receipts'[k] = receipts[k]
  <1>1. ASSUME NEW r \in Requests, Commit(r) PROVE receipts'[k] = receipts[k]
    <2>1. effect[r].receipt # None => receipts[Key(r)] = None
      BY <1>1, AtCommit DEF Commit
    <2>2. receipts \in [Keys -> Receipt \cup {None}]
      BY DEF UowInv, TypeOK
    <2>3. QED
      BY <1>1, <2>1, <2>2 DEF Commit
  <1>2. CASE receipts' = receipts
    BY <1>2
  <1>3. QED
    BY <1>1, <1>2 DEF Next, vars, db, Execute, Authenticate, Refuse, Abort, LoseReply, SetRole,
         Authorize, Forbid, LockCommand, NoReceipt, Replay, IdempotencyConflict, MissJourney,
         StaleVersion, LockJourney, ApplyUpdate, WriteAudit, CreateJourney, DuplicateJourney,
         DeleteJourney, TouchJourney, MissStatement, Respond

\* What a client was told stays true while other requests go on.
LEMMA OthersStayTruthful ==
    ASSUME UowInv, [Next]_vars, NEW q \in Requests, Truthful(q),
           pc'[q] = pc[q], op'[q] = op[q], effect'[q] = effect[q], reply'[q] = reply[q]
    PROVE  Truthful(q)'
  <1> SUFFICES ASSUME op[q] # None, op[q].kind = "update" PROVE Truthful(q)'
    BY DEF Truthful
  <1>1. op[q] \in Operations /\ Key(q) \in Keys /\ op[q].cmd \in Commands
    BY KeyTypes, OperationTypes DEF UowInv, TypeOK, Key
  <1>2. Key(q)' = Key(q) /\ Told(q)' = Told(q)
    BY DEF Key, Told
  <1>3. reply[q].status \in Outcomes => Told(q) # None
    <2>1. reply[q].version \in Nat
      BY DEF UowInv, TypeOK
    <2>2. reply[q].status \in Outcomes => Told(q) \in Receipt
      BY <1>1, <2>1 DEF Told, Receipt
    <2>3. QED
      BY <2>2, Absences
  <1>4. receipts[Key(q)] # None => receipts'[Key(q)] = receipts[Key(q)]
    BY <1>1, ReceiptsStay
  <1>5. QED
    BY <1>2, <1>3, <1>4 DEF Truthful

\* A request that neither has a result nor has asked for an update claims nothing.
LEMMA SilentStep ==
    ASSUME NEW r \in Requests,
           \/ pc'[r] \notin {"commit", "respond", "done"}
           \/ op'[r] = None
           \/ op'[r].kind # "update"
    PROVE  Truthful(r)'
  BY DEF Truthful

\* The steps that bring a command to its commit fix its answer.
LEMMA AnswerStep ==
    ASSUME UowInv, NEW r \in Requests,
           Replay(r) \/ MissJourney(r) \/ StaleVersion(r) \/ ApplyUpdate(r) \/ WriteAudit(r)
    PROVE  Truthful(r)'
  <1> USE DEF UowInv
  <1>0. TypeOK /\ op' = op
    BY DEF Replay, MissJourney, StaleVersion, ApplyUpdate, WriteAudit
  <1>1. CASE Replay(r)
    <2>1. op[r] \in Operations /\ op[r].kind = "update"
      BY <1>1 DEF Replay, Carries, InTransaction, Authorized
    <2>2. receipts[Key(r)] \in Receipt
      BY <1>0, <1>1, <2>1, KeyTypes, OperationTypes DEF Replay, TypeOK, Key
    <2>3. effect'[r].receipt = None /\ pc'[r] = "commit"
      BY <1>0, <1>1 DEF Replay, Carries, Idle, NoEffect, Goto, TypeOK
    <2>4. reply'[r] = Reply(receipts[Key(r)].outcome, receipts[Key(r)].version)
      BY <1>0, <1>1 DEF Replay, TypeOK
    <2>5. receipts'[Key(r)'] = Told(r)' /\ reply'[r].status \in Outcomes
      BY <1>0, <1>1, <2>2, <2>4 DEF Replay, Exact, Told, Reply, Key, Receipt, db
    <2>6. QED
      BY <2>3, <2>5 DEF Truthful
  <1>2. ASSUME NEW outcome \in Outcomes, WriteTerminalReceipt(r, outcome)
        PROVE  Truthful(r)'
    <2>1. effect'[r].receipt = TerminalReceipt(op[r].cmd, outcome) /\ pc'[r] = "commit"
      BY <1>0, <1>2 DEF WriteTerminalReceipt, Goto, TypeOK
    <2>2. reply'[r] = Reply(outcome, NoVersion)
      BY <1>0, <1>2 DEF WriteTerminalReceipt, TypeOK
    <2>3. effect'[r].receipt = Told(r)' /\ reply'[r].status \in Outcomes
      BY <1>0, <2>1, <2>2 DEF Told, Reply, TerminalReceipt
    <2>4. op[r] \in Operations /\ op[r].kind = "update" => effect'[r].receipt # None
      BY <2>1, ReceiptTypes, OperationTypes
    <2>5. op[r] \in Operations \cup {None}
      BY <1>0 DEF TypeOK
    <2>6. QED
      BY <1>0, <2>1, <2>3, <2>4, <2>5 DEF Truthful
  <1>3. CASE WriteAudit(r)
    <2>1. op[r] \in Operations /\ op[r].kind = "update"
      BY <1>3 DEF WriteAudit, Carries, InTransaction, Authorized
    <2>2. effect[r].row \in Row
      <3>1. before[r] \in Row /\ effect[r].row = Updated(before[r], op[r].cmd)
        <4>1. pc[r] = "audit" /\ Carries(r)
          BY <1>3 DEF WriteAudit
        <4>2. before[r] \in Row /\ effect[r] = Effect(Updated(before[r], op[r].cmd), None, None)
          BY <4>1 DEF Carries, Found
        <4>3. QED
          BY <4>2 DEF Effect
      <3>2. op[r].cmd \in Commands
        BY <2>1, OperationTypes
      <3>3. QED
        BY <3>1, <3>2, RowTypes
    <2>3. effect'[r].receipt = AppliedReceipt(op[r].cmd, effect[r].row) /\ pc'[r] = "commit"
      BY <1>0, <1>3 DEF WriteAudit, Goto, TypeOK
    <2>4. reply'[r] = Reply("applied", effect[r].row.version)
      BY <1>0, <1>3 DEF WriteAudit, TypeOK
    <2>5. effect'[r].receipt = Told(r)' /\ reply'[r].status \in Outcomes
      BY <1>0, <2>3, <2>4 DEF Told, Reply, AppliedReceipt, Outcomes
    <2>6. effect'[r].receipt # None
      BY <2>1, <2>2, <2>3, ReceiptTypes, OperationTypes
    <2>7. QED
      BY <2>3, <2>5, <2>6 DEF Truthful
  <1>4. CASE ApplyUpdate(r)
    <2>1. CASE WriteTerminalReceipt(r, "version_conflict")
      BY <1>2, <2>1 DEF Outcomes
    <2>2. CASE Goto(r, "audit")
      BY <1>0, <2>2, SilentStep DEF Goto, TypeOK
    <2>3. QED
      BY <1>4, <2>1, <2>2 DEF ApplyUpdate
  <1>5. QED
    BY <1>1, <1>2, <1>3, <1>4 DEF MissJourney, StaleVersion, Outcomes

\* Committing installs the receipt that the answer claims, unless it is there.
LEMMA CommitTruthful ==
    ASSUME UowInv, NEW r \in Requests, Commit(r), Truthful(r)
    PROVE  Truthful(r)'
  <1> SUFFICES ASSUME op[r] # None, op[r].kind = "update" PROVE Truthful(r)'
    BY DEF Commit, Truthful
  <1>1. TypeOK /\ pc[r] = "commit" /\ op' = op
    BY DEF UowInv, Commit
  <1>2. reply'[r] = reply[r] /\ pc'[r] = "respond"
    BY <1>1 DEF Commit, Close, Goto, TypeOK
  <1>3. op[r] \in Operations /\ Key(r) \in Keys
    BY <1>1, KeyTypes, OperationTypes DEF TypeOK, Key
  <1>4. Key(r)' = Key(r) /\ Told(r)' = Told(r)
    BY <1>1, <1>2 DEF Key, Told
  <1>5. receipts'[Key(r)] = Told(r)
    BY <1>1, <1>3 DEF Commit, Truthful, TypeOK
  <1>6. reply[r].status \in Outcomes
    BY <1>1 DEF Truthful
  <1>7. QED
    BY <1>2, <1>4, <1>5, <1>6 DEF Truthful, Outcomes

\* The other steps either claim nothing about a command or repeat a claim.
LEMMA OtherSteps ==
    ASSUME UowInv, NEW r \in Requests, Truthful(r),
           \/ Authenticate(r) \/ Refuse(r) \/ Abort(r) \/ LoseReply(r)
           \/ Authorize(r) \/ Forbid(r) \/ LockCommand(r) \/ NoReceipt(r)
           \/ IdempotencyConflict(r) \/ LockJourney(r)
           \/ CreateJourney(r) \/ DuplicateJourney(r) \/ DeleteJourney(r)
           \/ TouchJourney(r) \/ MissStatement(r) \/ Respond(r)
    PROVE  Truthful(r)'
  <1>0. TypeOK
    BY DEF UowInv
  <1>1. CASE \/ Authenticate(r) \/ Abort(r) \/ LoseReply(r) \/ Authorize(r) \/ LockCommand(r)
             \/ NoReceipt(r) \/ LockJourney(r) \/ DuplicateJourney(r)
    <2>1. pc'[r] \in {"authorize", "failed", "lock", "statement", "receipt", "row", "write"}
      BY <1>0, <1>1 DEF Authenticate, Abort, LoseReply, Authorize, LockCommand, NoReceipt,
           LockJourney, DuplicateJourney, Close, Goto, TypeOK
    <2>2. QED
      BY <2>1, SilentStep
  <1>2. CASE CreateJourney(r) \/ DeleteJourney(r) \/ TouchJourney(r) \/ MissStatement(r)
    BY <1>2, SilentStep DEF CreateJourney, DeleteJourney, TouchJourney, MissStatement, Statement
  <1>3. CASE Refuse(r) \/ Forbid(r) \/ IdempotencyConflict(r)
    <2>1. PICK status \in {"unauthenticated", "forbidden", "idempotency_conflict"} :
             /\ Close(r, "done", Reply(status, NoVersion))
             /\ status = "idempotency_conflict" => IdempotencyConflict(r)
      BY <1>3 DEF Refuse, Forbid, IdempotencyConflict
    <2>2. pc'[r] = "done" /\ reply'[r].status = status
      BY <1>0, <2>1 DEF Close, Goto, Reply, TypeOK
    <2>3. op' = op /\ receipts' = receipts
      BY <1>3 DEF Refuse, Forbid, IdempotencyConflict, db
    <2>4. status = "idempotency_conflict" =>
             receipts[Key(r)] # None /\ receipts[Key(r)].cmd # op[r].cmd
      BY <2>1 DEF IdempotencyConflict, Exact
    <2>5. QED
      BY <2>2, <2>3, <2>4 DEF Truthful, Key, Outcomes
  <1>4. CASE Respond(r)
    <2>1. pc[r] = "respond" /\ pc'[r] = "done"
      BY <1>0, <1>4 DEF Respond, Goto, TypeOK
    <2>2. QED
      BY <1>4, <2>1 DEF Truthful, Told, Key, Respond, db
  <1>5. QED
    BY <1>1, <1>2, <1>3, <1>4

\* Every step keeps the claims true.
LEMMA NextAnswersInv == AnswersInv /\ [Next]_vars => AnswersInv'
  <1> SUFFICES ASSUME AnswersInv, [Next]_vars PROVE AnswersInv'
    OBVIOUS
  <1>0. UowInv /\ TypeOK /\ UowInv'
    BY NextUowInv DEF AnswersInv, UowInv
  <1>1. ASSUME NEW q \in Requests PROVE Truthful(q)'
    <2>0. Truthful(q)
      BY DEF AnswersInv
    <2>1. ASSUME NEW r \in Requests,
                 Authenticate(r) \/ Refuse(r) \/ Execute(r) \/ Abort(r) \/ LoseReply(r)
          PROVE  Truthful(q)'
      <3>1. CASE q = r
        BY <1>0, <2>0, <2>1, <3>1, AnswerStep, CommitTruthful, OtherSteps DEF Execute
      <3>2. CASE q # r
        <4>1. pc'[q] = pc[q] /\ op'[q] = op[q] /\ effect'[q] = effect[q] /\ reply'[q] = reply[q]
          BY <1>0, <2>1, <3>2 DEF TypeOK, Authenticate, Refuse, Execute, Abort, LoseReply,
               Authorize, Forbid, LockCommand, NoReceipt, Replay, IdempotencyConflict,
               MissJourney, StaleVersion, LockJourney, ApplyUpdate, WriteAudit, CreateJourney,
               DuplicateJourney, DeleteJourney, TouchJourney, MissStatement, Commit, Respond,
               WriteTerminalReceipt, Write, Close, Goto
        <4>2. QED
          BY <1>0, <2>0, <4>1, OthersStayTruthful
      <3>3. QED
        BY <3>1, <3>2
    <2>2. ASSUME NEW u \in Users, NEW x \in Roles \cup {None}, SetRole(u, x)
          PROVE  Truthful(q)'
      BY <1>0, <2>0, <2>2, OthersStayTruthful DEF SetRole
    <2>3. CASE UNCHANGED vars
      BY <1>0, <2>0, <2>3, OthersStayTruthful DEF vars
    <2>4. QED
      BY <2>1, <2>2, <2>3 DEF Next
  <1>2. QED
    BY <1>0, <1>1 DEF AnswersInv

\* Whatever is repeated, lost or refused, every client that has an answer about
\* a command was told what its receipt says; and the identifier conflict is
\* answered only when another command owns the identifier.
THEOREM UowAnswersMatchReceipts == Spec => []AnswersMatchReceipts
  <1>1. Init => AnswersInv
    <2>1. Init => \A r \in Requests : Truthful(r)
      BY DEF Init, Truthful
    <2>2. QED
      BY <2>1, InitUowInv DEF AnswersInv
  <1>2. AnswersInv /\ [Next]_vars => AnswersInv'
    BY NextAnswersInv
  <1>3. AnswersInv => AnswersMatchReceipts
    BY DEF AnswersInv, Truthful, Told, AnswersMatchReceipts
  <1>4. QED
    BY <1>1, <1>2, <1>3, PTL DEF Spec

-----------------------------------------------------------------------------
(***************************************************************************)
(* CommandUow implements JourneyLedger: the initial states are the ledger's*)
(* and every step is a ledger step, or leaves the ledger as it is.  What   *)
(* JourneyLedgerProofs proves of the ledger therefore holds of the         *)
(* transactions.                                                           *)
(***************************************************************************)

\* Two transactions never carry the same missing command to their commits.
LEMMA OneVerdict ==
    ASSUME UowInv, NEW q \in FoundNothing, NEW r \in FoundNothing,
           op[q].user = op[r].user, op[q].cmd = op[r].cmd
    PROVE  q = r
  <1>0. q \in Requests /\ r \in Requests /\ pc[q] = "commit" /\ pc[r] = "commit"
    BY DEF FoundNothing
  <1>1. op[q].kind = "update" /\ op[r].kind = "update"
    BY <1>0, AtCommit DEF FoundNothing
  <1>2. Key(r) \in Keys /\ Key(q) = Key(r)
    BY <1>0, <1>1, InFlight DEF InTransaction, Authorized, Key
  <1>3. HoldsCommand(q, Key(r)) /\ HoldsCommand(r, Key(r))
    BY <1>0, <1>1, <1>2 DEF HoldsCommand
  <1>4. QED
    BY <1>0, <1>2, <1>3 DEF UowInv, OneHolderPerCommand

\* The Journey that such a transaction looked for is the command's.
LEMMA VerdictTypes ==
    ASSUME UowInv, NEW r \in FoundNothing
    PROVE  /\ r \in Requests /\ op[r].user \in Users /\ op[r].cmd \in Commands
           /\ op[r].kind = "update" /\ Missing(r)
  <1>0. r \in Requests /\ pc[r] = "commit" /\ effect[r].receipt # None
        /\ effect[r].receipt.outcome = "resource_not_found"
    BY DEF FoundNothing
  <1>1. op[r].kind = "update"
    BY <1>0, AtCommit
  <1>2. op[r].user \in Users /\ op[r].cmd \in Commands
    BY <1>0, <1>1, InFlight DEF InTransaction, Authorized
  <1>3. Missing(r)
    <2>1. Replayed(r) \/ Missing(r) \/ Stale(r) \/ Applied(r)
      BY <1>0, <1>1 DEF UowInv, Carries
    <2>2. ~Replayed(r)
      BY <1>0 DEF Replayed, Idle, NoEffect
    <2>3. ~Stale(r)
      BY <1>0 DEF Stale, Effect, TerminalReceipt
    <2>4. ~Applied(r)
      BY <1>0 DEF Applied, Effect, AppliedReceipt
    <2>5. QED
      BY <2>1, <2>2, <2>3, <2>4
  <1>4. QED
    BY <1>0, <1>1, <1>2, <1>3

\* A step that commits nothing is, for the ledger, at most a command that
\* notices that its Journey is absent, or that gives up.
LEMMA NoticeStep ==
    ASSUME UowInv, UowInv', NEW r \in Requests, OnlyLocal(r), UNCHANGED db,
           r \in FoundNothing' =>
              \/ r \in FoundNothing /\ op'[r] = op[r]
              \/ journeys[op'[r].cmd.journey] = None
    PROVE  Ledger!Notice
  <1> DEFINE A == {<<op[q].user, op[q].cmd>> : q \in FoundNothing}
  <1>1. role' = role /\ journeys' = journeys /\ receipts' = receipts /\ events' = events
    BY DEF db
  <1>2. ASSUME NEW q \in FoundNothing'
        PROVE  <<op'[q].user, op'[q].cmd>> \in
                  A \cup {uc \in Users \X Commands : journeys[uc[2].journey] = None}
    <2>1. q \in Requests /\ pc'[q] = "commit" /\ effect'[q].receipt # None
          /\ effect'[q].receipt.outcome = "resource_not_found"
      BY <1>2 DEF FoundNothing
    <2>2. CASE q # r
      <3>1. pc'[q] = pc[q] /\ op'[q] = op[q] /\ effect'[q] = effect[q]
        BY <2>1, <2>2, OthersUntouched DEF UowInv
      <3>2. q \in FoundNothing
        BY <2>1, <3>1 DEF FoundNothing
      <3>3. QED
        BY <3>1, <3>2
    <2>3. CASE q = r /\ r \in FoundNothing /\ op'[r] = op[r]
      BY <2>3
    <2>4. CASE q = r /\ journeys[op'[r].cmd.journey] = None
      <3>1. op'[q] \in Operations /\ op'[q].kind = "update"
        <4>1. Carries(q)'
          BY <2>1 DEF UowInv
        <4>2. QED
          BY <2>1, <4>1 DEF Carries, InTransaction, Authorized, Created, Deleted, TouchedRow, Effect
      <3>2. op'[q].user \in Users /\ op'[q].cmd \in Commands
        BY <3>1, OperationTypes
      <3>3. QED
        BY <2>4, <3>2
    <2>5. QED
      BY <1>2, <2>2, <2>3, <2>4
  <1>3. {<<op[q].user, op[q].cmd>> : q \in FoundNothing}' \subseteq
           A \cup {uc \in Users \X Commands : journeys[uc[2].journey] = None}
    BY <1>2
  <1>4. QED
    BY <1>1, <1>3 DEF Ledger!Notice

\* The steps up to the commit, and the answers after it.
LEMMA UncommittedSteps ==
    ASSUME UowInv, UowInv', NEW r \in Requests,
           \/ Authenticate(r) \/ Refuse(r) \/ Abort(r) \/ LoseReply(r)
           \/ Execute(r) /\ ~Commit(r)
    PROVE  Ledger!Notice
  <1>0. TypeOK
    BY DEF UowInv
  <1>1. CASE Authenticate(r) \/ Authorize(r) \/ LockCommand(r) \/ NoReceipt(r) \/ LockJourney(r)
             \/ Respond(r)
    <2>1. OnlyLocal(r) /\ UNCHANGED db
      BY <1>0, <1>1 DEF OnlyLocal, TypeOK, Goto, Authenticate, Authorize, LockCommand, NoReceipt,
           LockJourney, Respond
    <2>2. pc'[r] # "commit"
      BY <1>0, <1>1 DEF TypeOK, Goto, Authenticate, Authorize, LockCommand, NoReceipt,
           LockJourney, Respond
    <2>3. QED
      BY <2>1, <2>2, NoticeStep DEF FoundNothing
  <1>2. CASE Refuse(r) \/ Forbid(r) \/ IdempotencyConflict(r) \/ DuplicateJourney(r)
             \/ MissStatement(r) \/ Abort(r) \/ LoseReply(r)
    <2>1. OnlyLocal(r) /\ UNCHANGED db
      BY <1>0, <1>2 DEF OnlyLocal, TypeOK, Goto, Close, Refuse, Forbid, IdempotencyConflict,
           DuplicateJourney, MissStatement, Abort, LoseReply
    <2>2. pc'[r] # "commit"
      BY <1>0, <1>2 DEF TypeOK, Goto, Close, Refuse, Forbid, IdempotencyConflict,
           DuplicateJourney, MissStatement, Abort, LoseReply
    <2>3. QED
      BY <2>1, <2>2, NoticeStep DEF FoundNothing
  <1>3. CASE Replay(r) \/ CreateJourney(r) \/ DeleteJourney(r) \/ TouchJourney(r)
    <2>1. OnlyLocal(r) /\ UNCHANGED db
      BY <1>0, <1>3 DEF OnlyLocal, TypeOK, Goto, Replay, CreateJourney, DeleteJourney,
           TouchJourney, Write
    <2>2. Idle(r)
      BY <1>3 DEF UowInv, Carries, Replay, CreateJourney, DeleteJourney, TouchJourney, Statement
    <2>3. effect'[r].receipt = None
      BY <1>0, <1>3, <2>2 DEF TypeOK, Idle, NoEffect, Replay, CreateJourney, DeleteJourney,
           TouchJourney, Write
    <2>4. QED
      BY <2>1, <2>3, NoticeStep DEF FoundNothing
  <1>4. CASE MissJourney(r)
    <2>1. OnlyLocal(r) /\ UNCHANGED db /\ op' = op
      BY <1>0, <1>4 DEF OnlyLocal, TypeOK, Goto, MissJourney, WriteTerminalReceipt
    <2>2. journeys[op[r].cmd.journey] = None
      BY <1>4 DEF MissJourney, UowInv, Carries, InTransaction, Authorized
    <2>3. QED
      BY <2>1, <2>2, NoticeStep
  <1>5. CASE StaleVersion(r)
    <2>1. OnlyLocal(r) /\ UNCHANGED db
      BY <1>0, <1>5 DEF OnlyLocal, TypeOK, Goto, StaleVersion, WriteTerminalReceipt
    <2>2. effect'[r].receipt.outcome = "version_conflict"
      BY <1>0, <1>5 DEF TypeOK, StaleVersion, WriteTerminalReceipt, TerminalReceipt
    <2>3. QED
      BY <2>1, <2>2, NoticeStep DEF FoundNothing
  <1>6. CASE ApplyUpdate(r)
    <2>1. /\ effect' = [effect EXCEPT ![r].row = Updated(before[r], op[r].cmd)]
          /\ Goto(r, "audit") /\ UNCHANGED <<db, clock, op, before, reply>>
      BY <1>6, RowHeld, Absences DEF ApplyUpdate, Found
    <2>2. OnlyLocal(r) /\ UNCHANGED db /\ pc'[r] # "commit"
      BY <1>0, <2>1 DEF OnlyLocal, TypeOK, Goto
    <2>3. QED
      BY <2>2, NoticeStep DEF FoundNothing
  <1>7. CASE WriteAudit(r)
    <2>1. OnlyLocal(r) /\ UNCHANGED db
      BY <1>0, <1>7 DEF OnlyLocal, TypeOK, Goto, WriteAudit
    <2>2. effect'[r].receipt.outcome = "applied"
      BY <1>0, <1>7 DEF TypeOK, WriteAudit, AppliedReceipt
    <2>3. QED
      BY <2>1, <2>2, NoticeStep DEF FoundNothing
  <1>8. QED
    BY <1>1, <1>2, <1>3, <1>4, <1>5, <1>6, <1>7 DEF Execute

-----------------------------------------------------------------------------

\* A commit ends the request's own verdict and no other.
LEMMA VerdictsAfterCommit ==
    ASSUME UowInv, NEW r \in Requests, Commit(r)
    PROVE  FoundNothing' = FoundNothing \ {r} /\ op' = op
  <1>1. OnlyLocal(r) /\ op' = op /\ pc'[r] = "respond"
    BY DEF UowInv, TypeOK, OnlyLocal, Commit, Close, Goto
  <1>2. \A q \in Requests \ {r} : pc'[q] = pc[q] /\ effect'[q] = effect[q]
    BY <1>1, OthersUntouched DEF UowInv
  <1>3. QED
    BY <1>1, <1>2 DEF FoundNothing

\* A commit is one step of the ledger: what the transaction read still holds.
LEMMA CommitRefines ==
    ASSUME UowInv, NEW r \in Requests, Commit(r)
    PROVE  Ledger!Next \/ UNCHANGED Ledger!vars
  <1> DEFINE u == op[r].user
             c == op[r].cmd
             j == op[r].journey
             A == {<<op[q].user, op[q].cmd>> : q \in FoundNothing}
  <1>0. TypeOK /\ Carries(r) /\ StillAuthorized(r) /\ StillLocked(r) /\ StillUndecided(r)
    BY DEF UowInv
  <1>1. /\ pc[r] = "commit" /\ u \in Users /\ j \in Journeys /\ CanWrite(role[u])
        /\ op[r].kind \in {"update", "create", "delete", "touch"}
        /\ op[r].kind = "update" => c \in Commands /\ j = c.journey /\ Key(r) = <<u, c.id>>
    BY <1>0, InFlight DEF Commit, InTransaction, Authorized, StillAuthorized
  <1>2. /\ journeys' = IF effect[r].row = Keep THEN journeys
                       ELSE [journeys EXCEPT ![j] = effect[r].row]
        /\ receipts' = IF effect[r].receipt = None THEN receipts
                       ELSE [receipts EXCEPT ![Key(r)] = effect[r].receipt]
        /\ events' = IF effect[r].event = None THEN events ELSE events \cup {effect[r].event}
        /\ role' = role
    BY DEF Commit
  <1>3. FoundNothing' = FoundNothing \ {r} /\ op' = op
    BY VerdictsAfterCommit
  <1>4. r \notin FoundNothing => A' = A
    BY <1>3
  <1>5. CASE op[r].kind = "update" /\ Replayed(r)
    <2>1. effect[r].row = Keep /\ effect[r].receipt = None /\ effect[r].event = None
      BY <1>5 DEF Replayed, Idle, NoEffect
    <2>2. r \notin FoundNothing
      BY <2>1 DEF FoundNothing
    <2>3. QED
      BY <1>2, <1>4, <2>1, <2>2 DEF Ledger!vars
  <1>6. CASE op[r].kind = "update" /\ Missing(r)
    <2>1. /\ effect[r].row = Keep /\ effect[r].event = None
          /\ effect[r].receipt = TerminalReceipt(c, "resource_not_found")
          /\ effect[r].receipt # None
      BY <1>1, <1>6, ReceiptTypes DEF Missing, Effect, Outcomes
    <2>2. receipts[<<u, c.id>>] = None
      BY <1>0, <1>1, <1>6, <2>1 DEF StillUndecided
    <2>3. r \in FoundNothing
      BY <1>1, <2>1 DEF FoundNothing, TerminalReceipt
    <2>4. A' = A \ {<<u, c>>}
      <3>1. \A q \in FoundNothing \ {r} : <<op[q].user, op[q].cmd>> # <<u, c>>
        BY <2>3, OneVerdict
      <3>2. A' = {<<op[q].user, op[q].cmd>> : q \in FoundNothing \ {r}}
        BY <1>3
      <3>3. {<<op[q].user, op[q].cmd>> : q \in FoundNothing \ {r}} = A \ {<<u, c>>}
        BY <2>3, <3>1
      <3>4. QED
        BY <3>2, <3>3
    <2>5. <<u, c>> \in A
      BY <2>3
    <2>6. ASSUME NEW v \in Users, NEW d \in Commands, v = u, d = c
          PROVE  Ledger!NotFound(v, d)
      BY <1>1, <1>2, <1>6, <2>1, <2>2, <2>4, <2>5, <2>6
         DEF Ledger!NotFound, Ledger!Unanswered, Ledger!CanWrite, CanWrite,
             Ledger!TerminalReceipt, TerminalReceipt, Ledger!NoVersion, NoVersion
    <2>7. \E v \in Users, d \in Commands : v = u /\ d = c
      BY <1>1, <1>6
    <2>8. QED
      BY <2>6, <2>7 DEF Ledger!Next
  <1>7. CASE op[r].kind = "update" /\ Stale(r)
    <2>1. /\ effect[r].row = Keep /\ effect[r].event = None
          /\ effect[r].receipt = TerminalReceipt(c, "version_conflict")
          /\ effect[r].receipt # None /\ before[r] # None
      BY <1>1, <1>7, ReceiptTypes, Absences DEF Stale, Effect, Outcomes
    <2>2. receipts[<<u, c.id>>] = None /\ journeys[j] = before[r]
      BY <1>0, <1>1, <1>7, <2>1 DEF StillUndecided, StillLocked, InTransaction, Authorized
    <2>3. r \notin FoundNothing
      BY <2>1 DEF FoundNothing, TerminalReceipt
    <2>4. Ledger!Conflict(u, c)
      BY <1>1, <1>2, <1>4, <1>7, <2>1, <2>2, <2>3
         DEF Stale, Ledger!Conflict, Ledger!Unanswered, Ledger!CanWrite, CanWrite,
             Ledger!TerminalReceipt, TerminalReceipt, Ledger!NoVersion, NoVersion
    <2>5. QED
      BY <1>1, <1>7, <2>4 DEF Ledger!Next
  <1>8. CASE op[r].kind = "update" /\ Applied(r)
    <2> DEFINE after == Updated(before[r], c)
    <2>1. /\ effect[r].row = after /\ after \in Row /\ after # Keep /\ before[r] \in Row
          /\ effect[r].receipt = AppliedReceipt(c, after) /\ effect[r].receipt # None
          /\ effect[r].event = AuditEvent(u, c, before[r], after) /\ effect[r].event # None
          /\ before[r] # None /\ before[r].version = c.expected
      BY <1>1, <1>8, RowTypes, ReceiptTypes, EventTypes, Absences DEF Applied, Found, Effect
    <2>2. receipts[<<u, c.id>>] = None /\ journeys[j] = before[r]
      BY <1>0, <1>1, <1>8, <2>1 DEF StillUndecided, StillLocked, InTransaction, Authorized
    <2>3. r \notin FoundNothing
      BY <2>1 DEF FoundNothing, AppliedReceipt
    <2>4. Ledger!Apply(u, c)
      BY <1>1, <1>2, <1>4, <1>8, <2>1, <2>2, <2>3
         DEF Ledger!Apply, Ledger!Unanswered, Ledger!CanWrite, CanWrite, Ledger!Updated, Updated,
             Ledger!AuditEvent, AuditEvent, Ledger!AppliedReceipt, AppliedReceipt
    <2>5. QED
      BY <1>1, <1>8, <2>4 DEF Ledger!Next
  <1>9. CASE op[r].kind # "update"
    <2>1. effect[r].receipt = None /\ effect[r].event = None
      BY <1>0, <1>1, <1>9 DEF Carries, Created, Deleted, TouchedRow, Effect
    <2>2. r \notin FoundNothing
      BY <2>1 DEF FoundNothing
    <2>3. effect[r].row # Keep =>  journeys[j] = before[r]
      BY <1>1, AtCommit
    <2>4. CASE op[r].kind = "create"
      <3>1. /\ before[r] = None /\ effect[r].row \in Row /\ effect[r].row.version = 1
            /\ effect[r].row # Keep
        BY <1>0, <1>1, <2>4, Absences DEF Carries, Created
      <3>2. \A e \in events : e.after.born # effect[r].row.born
        BY <1>1, <2>4 DEF UowInv, BirthsDiffer, Creating
      <3>3. journeys'[j] = effect[r].row
        BY <1>0, <1>1, <1>2, <3>1 DEF TypeOK
      <3>4. Ledger!Create(u, j)
        BY <1>1, <1>2, <1>4, <2>1, <2>2, <2>3, <3>1, <3>2, <3>3
           DEF Ledger!Create, Ledger!CanWrite, CanWrite, Ledger!Row, Row
      <3>5. QED
        BY <1>1, <3>4 DEF Ledger!Next
    <2>5. CASE op[r].kind = "delete"
      <3>1. before[r] # None /\ effect[r].row = None /\ effect[r].row # Keep
        BY <1>0, <1>1, <2>5, Absences DEF Carries, Deleted, Effect
      <3>2. Ledger!Delete(u, j)
        BY <1>1, <1>2, <1>4, <2>1, <2>2, <2>3, <3>1 DEF Ledger!Delete, Ledger!CanWrite, CanWrite
      <3>3. QED
        BY <1>1, <3>2 DEF Ledger!Next
    <2>6. CASE op[r].kind = "touch"
      <3>1. /\ before[r] # None /\ effect[r].row = Touched(before[r]) /\ effect[r].row # Keep
        BY <1>0, <1>1, <2>6, RowTypes, Absences DEF Carries, TouchedRow, Effect
      <3>2. Ledger!Touch(u, j)
        BY <1>1, <1>2, <1>4, <2>1, <2>2, <2>3, <3>1
           DEF Ledger!Touch, Ledger!CanWrite, CanWrite, Ledger!Touched, Touched
      <3>3. QED
        BY <1>1, <3>2 DEF Ledger!Next
    <2>7. QED
      BY <1>1, <1>9, <2>4, <2>5, <2>6
  <1>10. QED
    BY <1>0, <1>1, <1>5, <1>6, <1>7, <1>8, <1>9 DEF Carries

-----------------------------------------------------------------------------

\* The server starts as the ledger does: no request has looked for anything.
LEMMA InitRefines == Init => Ledger!Init
  <1>1. ASSUME Init PROVE FoundNothing = {}
    BY <1>1 DEF Init, FoundNothing
  <1>2. QED
    BY <1>1 DEF Init, Ledger!Init, Ledger!NewRow, NewRow, Ledger!Keys, Keys,
                Ledger!Roles, Roles

\* Membership changes are the ledger's.
LEMMA SetRoleRefines ==
    ASSUME NEW u \in Users, NEW x \in Roles \cup {None}, SetRole(u, x)
    PROVE  Ledger!SetRole(u, x)
  <1>1. FoundNothing' = FoundNothing /\ op' = op
    BY DEF SetRole, FoundNothing
  <1>2. QED
    BY <1>1 DEF SetRole, Ledger!SetRole

\* Stuttering leaves the ledger alone.
LEMMA StutterRefines == UNCHANGED vars => UNCHANGED Ledger!vars
  <1>1. ASSUME UNCHANGED vars
        PROVE  FoundNothing' = FoundNothing /\ UNCHANGED <<role, journeys, receipts, events, op>>
    BY <1>1 DEF vars, FoundNothing
  <1>2. QED
    BY <1>1 DEF Ledger!vars

\* Every step of the transactions is a step of the ledger, or leaves it alone.
LEMMA StepRefines ==
    ASSUME UowInv, UowInv', [Next]_vars
    PROVE  [Ledger!Next]_(Ledger!vars)
  <1>1. CASE UNCHANGED vars
    BY <1>1, StutterRefines
  <1>2. ASSUME NEW r \in Requests, Commit(r)
        PROVE  [Ledger!Next]_(Ledger!vars)
    BY <1>2, CommitRefines
  <1>3. ASSUME NEW r \in Requests,
               \/ Authenticate(r) \/ Refuse(r) \/ Abort(r) \/ LoseReply(r)
               \/ Execute(r) /\ ~Commit(r)
        PROVE  [Ledger!Next]_(Ledger!vars)
    BY <1>3, UncommittedSteps DEF Ledger!Next
  <1>4. ASSUME NEW u \in Users, NEW x \in Roles \cup {None}, SetRole(u, x)
        PROVE  [Ledger!Next]_(Ledger!vars)
    BY <1>4, SetRoleRefines DEF Ledger!Next, Ledger!Roles, Roles
  <1>5. QED
    BY <1>1, <1>2, <1>3, <1>4 DEF Next

\* The transactions implement the ledger, for every number of users, requests,
\* Journeys and commands: whatever interleaves, fails, is repeated or loses
\* its answer, committed state moves only by atomic, authorised, exactly-once
\* steps.
THEOREM UowImplementsLedger == Spec => ImplementsLedger
  <1>1. Init => Ledger!Init
    BY InitRefines
  <1>2. UowInv /\ UowInv' /\ [Next]_vars => [Ledger!Next]_(Ledger!vars)
    BY StepRefines
  <1>3. QED
    BY <1>1, <1>2, UowInvariant, PTL DEF Spec, ImplementsLedger, Ledger!Spec

-----------------------------------------------------------------------------
(***************************************************************************)
(* The ledger's theorems, carried over to the transactions.  The proofs'   *)
(* instance of the ledger is the same specification as the one that        *)
(* CommandUow names; the lemmas say so definition by definition.           *)
(***************************************************************************)
Proved == INSTANCE JourneyLedgerProofs
            WITH absent <- {<<op[r].user, op[r].cmd>> : r \in FoundNothing}

\* Both instances and this module speak of the same values.
LEMMA SameVocabulary ==
    /\ Ledger!Row = Proved!Row /\ Ledger!Roles = Proved!Roles /\ Ledger!Keys = Proved!Keys
    /\ Row = Proved!Row /\ Roles = Proved!Roles /\ Keys = Proved!Keys
    /\ Receipt = Proved!Receipt /\ Event = Proved!Event
  BY DEF Row, Ledger!Row, Proved!Row, Roles, Ledger!Roles, Proved!Roles, Keys, Ledger!Keys,
         Proved!Keys, Receipt, Proved!Receipt, Event, Proved!Event, Outcomes, Proved!Outcomes

\* The assumptions on the constants hold in the proofs' instance.
LEMMA SameAssumptions ==
    /\ None \notin Proved!Row \cup Proved!Receipt \cup Proved!Event \cup Proved!Roles
    /\ None \notin Commands
    /\ Commands \subseteq
          [id : CommandIds, journey : Journeys, expected : Nat \ {0}, data : Data]
  BY SameVocabulary, CommandsAssumption, IdentifiersAssumption, NoneAssumption

\* Both instances start in the same states.
LEMMA SameInit == Ledger!Init => Proved!Init
  BY DEF Ledger!Init, Proved!Init, Proved!NewRow, Ledger!NewRow, Proved!Roles, Ledger!Roles,
         Proved!Keys, Ledger!Keys

\* Both instances take the same steps.
LEMMA SameNext == Ledger!Next => Proved!Next
  <1>1. ASSUME NEW u \in Users, NEW c \in Commands
        PROVE  /\ Ledger!Apply(u, c) => Proved!Apply(u, c)
               /\ Ledger!Conflict(u, c) => Proved!Conflict(u, c)
               /\ Ledger!NotFound(u, c) => Proved!NotFound(u, c)
    BY DEF Ledger!Apply, Proved!Apply, Ledger!Conflict, Proved!Conflict, Ledger!NotFound,
           Proved!NotFound, Ledger!Unanswered, Proved!Unanswered, Ledger!CanWrite,
           Proved!CanWrite, Ledger!Updated, Proved!Updated, Ledger!AppliedReceipt,
           Proved!AppliedReceipt, Ledger!TerminalReceipt, Proved!TerminalReceipt,
           Ledger!AuditEvent, Proved!AuditEvent, Ledger!NoVersion, Proved!NoVersion
  <1>2. Ledger!Notice => Proved!Notice
    BY DEF Ledger!Notice, Proved!Notice
  <1>3. ASSUME NEW u \in Users, NEW j \in Journeys
        PROVE  /\ Ledger!Create(u, j) => Proved!Create(u, j)
               /\ Ledger!Delete(u, j) => Proved!Delete(u, j)
               /\ Ledger!Touch(u, j) => Proved!Touch(u, j)
    BY SameVocabulary DEF Ledger!Create, Proved!Create, Ledger!Delete, Proved!Delete,
       Ledger!Touch, Proved!Touch, Ledger!CanWrite, Proved!CanWrite, Ledger!Touched,
       Proved!Touched
  <1>4. ASSUME NEW u \in Users, NEW x \in Roles \cup {None}
        PROVE  Ledger!SetRole(u, x) => Proved!SetRole(u, x)
    BY DEF Ledger!SetRole, Proved!SetRole
  <1>5. QED
    BY <1>1, <1>2, <1>3, <1>4, SameVocabulary DEF Ledger!Next, Proved!Next

\* A step of the one instance is a step of the other.
LEMMA SameStep == [Ledger!Next]_(Ledger!vars) => [Proved!Next]_(Proved!vars)
  BY SameNext DEF Ledger!vars, Proved!vars

\* The transactions keep the ledger's inductive invariant.
THEOREM UowKeepsLedgerInv == Spec => []Proved!LedgerInv
  <1>1. Ledger!Init => Proved!LedgerInv
    BY SameInit, SameAssumptions, Proved!InitLedgerInv
  <1>2. Proved!LedgerInv /\ [Ledger!Next]_(Ledger!vars) => Proved!LedgerInv'
    BY SameStep, SameAssumptions, Proved!NextLedgerInv
  <1>3. QED
    BY <1>1, <1>2, UowImplementsLedger, PTL DEF ImplementsLedger, Ledger!Spec

\* A command is applied exactly as often as its receipt says "applied": at
\* most once, however many requests repeat it.
THEOREM UowExactlyOnce == Spec => []ExactlyOnce
  <1>1. Proved!LedgerInv => ExactlyOnce
    BY SameVocabulary DEF Proved!LedgerInv, ExactlyOnce, Proved!AppliedIffEvent,
       Ledger!AppliedIffEvent, Proved!AtMostOnce, Ledger!AtMostOnce, Proved!EventKey,
       Ledger!EventKey, Proved!AppliedReceipt, Ledger!AppliedReceipt
  <1>2. QED
    BY <1>1, UowKeepsLedgerInv, PTL

\* No two commands are applied to one version of a Journey, and no Journey
\* falls behind its log.
THEOREM UowNoLostUpdate == Spec => []NoLostUpdate
  <1>1. Proved!LedgerInv => NoLostUpdate
    BY DEF Proved!LedgerInv, NoLostUpdate, Proved!NoForkedVersion, Ledger!NoForkedVersion,
       Proved!RowAhead, Ledger!RowAhead, Proved!SameLife, Ledger!SameLife
  <1>2. QED
    BY <1>1, UowKeepsLedgerInv, PTL

\* The recorded before/after states are a chain that ends in the current row.
THEOREM UowAuditReplays == Spec => []AuditReplays
  <1>1. ASSUME Proved!LedgerInv PROVE AuditReplays
    <2>1. \A e \in events : Ledger!EventIsTheCommand(e)
      BY <1>1 DEF Proved!LedgerInv, Proved!EventsAreCommands, Proved!EventIsTheCommand,
         Ledger!EventIsTheCommand, Proved!Updated, Ledger!Updated
    <2>2. Ledger!ChainUnbroken
      BY <1>1 DEF Proved!LedgerInv, Proved!ChainUnbroken, Ledger!ChainUnbroken,
         Proved!SameLife, Ledger!SameLife
    <2>3. Ledger!LogExplainsRow
      BY <1>1 DEF Proved!LedgerInv, Proved!LogExplainsRow, Ledger!LogExplainsRow,
         Proved!Superseded, Ledger!Superseded, Proved!SameLife, Ledger!SameLife
    <2>4. QED
      BY <2>1, <2>2, <2>3 DEF AuditReplays
  <1>2. QED
    BY <1>1, UowKeepsLedgerInv, PTL

\* No step of any request changes or removes a receipt or an event.
THEOREM UowDecidesOnce == Spec => DecidedOnce
  <1>1. Proved!LedgerInv /\ [Ledger!Next]_(Ledger!vars) =>
           [/\ events \subseteq events'
            /\ \A k \in Keys : receipts[k] # None => receipts'[k] = receipts[k]]_vars
    BY SameStep, SameAssumptions, SameVocabulary, Proved!DecisionsStay
  <1>2. QED
    BY <1>1, UowKeepsLedgerInv, UowImplementsLedger, PTL
       DEF DecidedOnce, ImplementsLedger, Ledger!Spec
=============================================================================
