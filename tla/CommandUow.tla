----------------------------- MODULE CommandUow -----------------------------
(***************************************************************************)
(* The Journey write path of the API server, one step per SQL statement,   *)
(* as concurrent requests run it on PostgreSQL under READ COMMITTED:       *)
(* authenticate, authorize_permission, CommandExecutor.operation, the      *)
(* UnitOfWork's single commit, and the plain mutations of JourneyRepository*)
(* that share the Journey row.                                             *)
(*                                                                         *)
(* A request is one HTTP request in one database transaction.  Statements  *)
(* read committed state (a fresh snapshot each) and write `effect', which  *)
(* only Commit makes visible.  Locks last until the transaction ends, so   *)
(* who holds one follows from where the requests are; a statement that has *)
(* to wait for a lock is an action that is not enabled.                    *)
(***************************************************************************)
EXTENDS JourneyTypes

CONSTANTS
    Requests,  \* HTTP requests; retries and duplicates are further requests
    Keep       \* "this transaction has not written the Journey row"

ASSUME KeepAssumption == Keep \notin Row \cup {None}

VARIABLES
    role, journeys, receipts, events,  \* committed, as in JourneyLedger
    clock,    \* the time of the latest INSERT, the source of created_at
    pc,       \* where each request is
    op,       \* what each request asks for
    before,   \* the row each transaction has locked, or None
    effect,   \* the uncommitted writes of each transaction
    reply     \* the result each request has for its client

db == <<role, journeys, receipts, events>>
vars == <<role, journeys, receipts, events, clock, pc, op, before, effect, reply>>

(***************************************************************************)
(* Requests.  "touch" is any timeline or packing mutation: all of them end *)
(* in _touch_journey.  The compatibility PUT is an update whose identifier *)
(* no other request uses.                                                  *)
(***************************************************************************)
Operations ==
    [kind : {"update"}, user : Users, journey : Journeys, cmd : Commands]
      \cup
    [kind : {"create", "delete", "touch"}, user : Users, journey : Journeys,
     cmd : {None}]

Statuses == Outcomes \cup
    {"idempotency_conflict", "forbidden", "unauthenticated", "ok", "pending"}

Reply(status, version) == [status |-> status, version |-> version]
Pending == Reply("pending", NoVersion)

NoEffect == [row |-> Keep, receipt |-> None, event |-> None]

\* The positions at which the transaction is open.
Authorized == {"lock", "receipt", "row", "write", "audit", "statement", "commit"}
InTransaction == Authorized \cup {"authorize"}

Key(r) == <<op[r].user, op[r].cmd.id>>

(***************************************************************************)
(* Locks.                                                                  *)
(***************************************************************************)
\* Mutant: the membership is read without FOR SHARE.
HoldsMembership_PlainRead(r, u) == FALSE

\* trax_lock_membership: FOR SHARE on the membership row, until the end.
HoldsMembership(r, u) == pc[r] \in Authorized /\ op[r].user = u

\* Mutant: commands are not serialised at all.
HoldsCommand_NoLock(r, k) == FALSE

\* Mutant: pg_advisory_lock, which outlives a transaction that fails.
HoldsCommand_SessionLock(r, k) ==
    /\ pc[r] \in {"receipt", "row", "write", "audit", "commit", "failed"}
    /\ op[r].kind = "update"
    /\ Key(r) = k

\* pg_advisory_xact_lock on (workspace, user, command id).
HoldsCommand(r, k) ==
    /\ pc[r] \in {"receipt", "row", "write", "audit", "commit"}
    /\ op[r].kind = "update"
    /\ Key(r) = k

\* Mutant: SELECT without FOR UPDATE, and an UPDATE that does not wait.
HoldsRow_NoLock(r, j) == FALSE

\* A row lock on an existing Journey, or the uncommitted INSERT of one.
HoldsRow(r, j) ==
    /\ pc[r] \in InTransaction
    /\ op[r].journey = j
    /\ before[r] # None \/ effect[r].row # Keep

RowFree(r, j) == \A q \in Requests \ {r} : ~HoldsRow(q, j)

-----------------------------------------------------------------------------

Init ==
    /\ role \in [Users -> Roles \cup {None}]
    /\ journeys \in [Journeys -> {None} \cup {NewRow(d, 0) : d \in Data}]
    /\ receipts = [k \in Keys |-> None]
    /\ events = {}
    /\ clock = 0
    /\ pc = [r \in Requests |-> "new"]
    /\ op = [r \in Requests |-> None]
    /\ before = [r \in Requests |-> None]
    /\ effect = [r \in Requests |-> NoEffect]
    /\ reply = [r \in Requests |-> Pending]

Goto(r, where) == pc' = [pc EXCEPT ![r] = where]

\* The transaction ends here: nothing it wrote is kept, its locks are free.
Close(r, where, answer) ==
    /\ Goto(r, where)
    /\ before' = [before EXCEPT ![r] = None]
    /\ effect' = [effect EXCEPT ![r] = NoEffect]
    /\ reply' = [reply EXCEPT ![r] = answer]

(***************************************************************************)
(* authenticate and require_csrf.  A session that is missing, revoked or   *)
(* expired, and a CSRF token that does not match, are possible for any     *)
(* request (Refuse); the session query also joins the membership.          *)
(***************************************************************************)
Authenticate(r) ==
    /\ pc[r] = "new"
    /\ \E o \in Operations :
          /\ o.kind = "update" => o.journey = o.cmd.journey
          /\ role[o.user] # None
          /\ op' = [op EXCEPT ![r] = o]
    /\ Goto(r, "authorize")
    /\ UNCHANGED <<db, clock, before, effect, reply>>

Refuse(r) ==
    /\ pc[r] = "new"
    /\ Close(r, "done", Reply("unauthenticated", NoVersion))
    /\ UNCHANGED <<db, clock, op>>

(***************************************************************************)
(* authorize_permission.  The executor asks a second time; by then the     *)
(* membership row is locked by this transaction, so the answer is the same *)
(* and the second statement is not a step of its own.                      *)
(***************************************************************************)
Authorize(r) ==
    /\ pc[r] = "authorize"
    /\ CanWrite(role[op[r].user])
    /\ Goto(r, IF op[r].kind = "update" THEN "lock" ELSE "statement")
    /\ UNCHANGED <<db, clock, op, before, effect, reply>>

Forbid(r) ==
    /\ pc[r] = "authorize"
    /\ ~CanWrite(role[op[r].user])
    /\ Close(r, "done", Reply("forbidden", NoVersion))
    /\ UNCHANGED <<db, clock, op>>

(***************************************************************************)
(* CommandExecutor.operation.                                              *)
(***************************************************************************)
\* Mutant: pg_try_advisory_xact_lock, its result ignored.
LockCommand_Try(r) ==
    /\ pc[r] = "lock"
    /\ Goto(r, "receipt")
    /\ UNCHANGED <<db, clock, op, before, effect, reply>>

LockCommand(r) ==
    /\ pc[r] = "lock"
    /\ \A q \in Requests \ {r} : ~HoldsCommand(q, Key(r))
    /\ Goto(r, "receipt")
    /\ UNCHANGED <<db, clock, op, before, effect, reply>>

\* _receipt finds nothing: go on to the Journey.
NoReceipt(r) ==
    /\ pc[r] = "receipt"
    /\ receipts[Key(r)] = None
    /\ Goto(r, "row")
    /\ UNCHANGED <<db, clock, op, before, effect, reply>>

\* Mutant: the digest is left out of the comparison.
Exact_EntityOnly(prior, r) == prior.cmd.journey = op[r].cmd.journey

\* The digest, type, version and entity bind the whole command.
Exact(prior, r) == prior.cmd = op[r].cmd

\* Mutant: the replayed execution has no record version.
Replay_WithoutVersion(r) ==
    LET prior == receipts[Key(r)] IN
    /\ pc[r] = "receipt"
    /\ prior # None
    /\ Exact(prior, r)
    /\ reply' = [reply EXCEPT ![r] = Reply(prior.outcome, None)]
    /\ Goto(r, "commit")
    /\ UNCHANGED <<db, clock, op, before, effect>>

\* _replay_or_conflict returns the recorded execution.
Replay(r) ==
    LET prior == receipts[Key(r)] IN
    /\ pc[r] = "receipt"
    /\ prior # None
    /\ Exact(prior, r)
    /\ reply' = [reply EXCEPT ![r] = Reply(prior.outcome, prior.version)]
    /\ Goto(r, "commit")
    /\ UNCHANGED <<db, clock, op, before, effect>>

\* _replay_or_conflict raises: the identifier was used for something else.
IdempotencyConflict(r) ==
    /\ pc[r] = "receipt"
    /\ receipts[Key(r)] # None
    /\ ~Exact(receipts[Key(r)], r)
    /\ Close(r, "done", Reply("idempotency_conflict", NoVersion))
    /\ UNCHANGED <<db, clock, op>>

\* _write_terminal_receipt: the outcome is final although nothing changed.
WriteTerminalReceipt(r, outcome) ==
    /\ effect' = [effect EXCEPT ![r].receipt =
                      TerminalReceipt(op[r].cmd, outcome)]
    /\ reply' = [reply EXCEPT ![r] = Reply(outcome, NoVersion)]
    /\ Goto(r, "commit")

\* SELECT ... FOR UPDATE finds no row, and so locks none.
MissJourney(r) ==
    /\ pc[r] = "row"
    /\ journeys[op[r].journey] = None
    /\ WriteTerminalReceipt(r, "resource_not_found")
    /\ UNCHANGED <<db, clock, op, before>>

\* Mutant: the version is compared on a plain SELECT.
StaleVersion_PlainRead(r) ==
    /\ pc[r] = "row"
    /\ journeys[op[r].journey] # None
    /\ journeys[op[r].journey].version # op[r].cmd.expected
    /\ WriteTerminalReceipt(r, "version_conflict")
    /\ UNCHANGED <<db, clock, op, before>>

\* It locks a row whose version is not the expected one.
StaleVersion(r) ==
    LET row == journeys[op[r].journey] IN
    /\ pc[r] = "row"
    /\ row # None
    /\ RowFree(r, op[r].journey)
    /\ row.version # op[r].cmd.expected
    /\ before' = [before EXCEPT ![r] = row]
    /\ WriteTerminalReceipt(r, "version_conflict")
    /\ UNCHANGED <<db, clock, op>>

\* It locks the row that the command expects.
LockJourney(r) ==
    LET row == journeys[op[r].journey] IN
    /\ pc[r] = "row"
    /\ row # None
    /\ RowFree(r, op[r].journey)
    /\ row.version = op[r].cmd.expected
    /\ before' = [before EXCEPT ![r] = row]
    /\ Goto(r, "write")
    /\ UNCHANGED <<db, clock, op, effect, reply>>

\* UPDATE ... WHERE record_version = expected.  The row lock keeps the
\* predicate true; the code raises version_conflict if it were not.
ApplyUpdate(r) ==
    LET row == journeys[op[r].journey] IN
    /\ pc[r] = "write"
    /\ IF row # None /\ row.version = op[r].cmd.expected
       THEN /\ effect' = [effect EXCEPT ![r].row = Updated(row, op[r].cmd)]
            /\ Goto(r, "audit")
            /\ UNCHANGED reply
       ELSE WriteTerminalReceipt(r, "version_conflict")
    /\ UNCHANGED <<db, clock, op, before>>

\* Mutant: the preimage is read after the UPDATE.
WriteAudit_LatePreimage(r) ==
    LET after == effect[r].row IN
    /\ pc[r] = "audit"
    /\ effect' = [effect EXCEPT
                     ![r].event = AuditEvent(op[r].user, op[r].cmd, after, after),
                     ![r].receipt = AppliedReceipt(op[r].cmd, after)]
    /\ reply' = [reply EXCEPT ![r] = Reply("applied", after.version)]
    /\ Goto(r, "commit")
    /\ UNCHANGED <<db, clock, op, before>>

\* write_applied_audit: change set, event and receipt.
WriteAudit(r) ==
    LET after == effect[r].row IN
    /\ pc[r] = "audit"
    /\ effect' = [effect EXCEPT
                     ![r].event = AuditEvent(op[r].user, op[r].cmd, before[r], after),
                     ![r].receipt = AppliedReceipt(op[r].cmd, after)]
    /\ reply' = [reply EXCEPT ![r] = Reply("applied", after.version)]
    /\ Goto(r, "commit")
    /\ UNCHANGED <<db, clock, op, before>>

(***************************************************************************)
(* The plain mutations.  An INSERT waits for a concurrent INSERT or DELETE *)
(* of the same identifier; the other statements do not see an uncommitted  *)
(* INSERT and wait only for a lock on an existing row.                     *)
(***************************************************************************)
Statement(r, kind) == pc[r] = "statement" /\ op[r].kind = kind

Write(r, locked, row) ==
    /\ before' = [before EXCEPT ![r] = locked]
    /\ effect' = [effect EXCEPT ![r].row = row]
    /\ reply' = [reply EXCEPT ![r] = Reply("ok", NoVersion)]
    /\ Goto(r, "commit")

CreateJourney(r) ==
    /\ Statement(r, "create")
    /\ RowFree(r, op[r].journey)
    /\ journeys[op[r].journey] = None
    /\ clock' = clock + 1
    /\ \E d \in Data : Write(r, None, NewRow(d, clock + 1))
    /\ UNCHANGED <<db, op>>

\* The identifier is taken: an IntegrityError that nothing handles (500).
DuplicateJourney(r) ==
    /\ Statement(r, "create")
    /\ RowFree(r, op[r].journey)
    /\ journeys[op[r].journey] # None
    /\ Close(r, "failed", Pending)
    /\ UNCHANGED <<db, clock, op>>

DeleteJourney(r) ==
    LET row == journeys[op[r].journey] IN
    /\ Statement(r, "delete")
    /\ row # None
    /\ RowFree(r, op[r].journey)
    /\ Write(r, row, None)
    /\ UNCHANGED <<db, clock, op>>

\* The child statement and _touch_journey.
TouchJourney(r) ==
    LET row == journeys[op[r].journey] IN
    /\ Statement(r, "touch")
    /\ row # None
    /\ RowFree(r, op[r].journey)
    /\ Write(r, row, Touched(row))
    /\ UNCHANGED <<db, clock, op>>

\* DELETE and the child statements find no Journey; rowcount 0, rolled back.
MissStatement(r) ==
    /\ Statement(r, "delete") \/ Statement(r, "touch")
    /\ journeys[op[r].journey] = None
    /\ Close(r, "done", Reply("resource_not_found", NoVersion))
    /\ UNCHANGED <<db, clock, op>>

(***************************************************************************)
(* The end of a transaction.                                               *)
(***************************************************************************)
Commit(r) ==
    LET e == effect[r] IN
    /\ pc[r] = "commit"
    /\ journeys' = IF e.row = Keep THEN journeys
                   ELSE [journeys EXCEPT ![op[r].journey] = e.row]
    /\ receipts' = IF e.receipt = None THEN receipts
                   ELSE [receipts EXCEPT ![Key(r)] = e.receipt]
    /\ events' = IF e.event = None THEN events ELSE events \cup {e.event}
    /\ Close(r, "respond", reply[r])
    /\ UNCHANGED <<role, clock, op>>

\* A statement fails, the client goes away, the process or the connection
\* dies: rollback, and no usable answer.
Abort(r) ==
    /\ pc[r] \in InTransaction
    /\ Close(r, "failed", Pending)
    /\ UNCHANGED <<db, clock, op>>

Respond(r) ==
    /\ pc[r] = "respond"
    /\ Goto(r, "done")
    /\ UNCHANGED <<db, clock, op, before, effect, reply>>

\* The transaction is durable and its answer is lost on the way.
LoseReply(r) ==
    /\ pc[r] = "respond"
    /\ Close(r, "failed", Pending)
    /\ UNCHANGED <<db, clock, op>>

\* An administrator changes or removes a membership: its row must be free.
SetRole(u, x) ==
    /\ \A q \in Requests : ~HoldsMembership(q, u)
    /\ role' = [role EXCEPT ![u] = x]
    /\ UNCHANGED <<journeys, receipts, events, clock, pc, op, before, effect, reply>>

Execute(r) ==
    \/ Authorize(r) \/ Forbid(r)
    \/ LockCommand(r) \/ NoReceipt(r) \/ Replay(r) \/ IdempotencyConflict(r)
    \/ MissJourney(r) \/ StaleVersion(r) \/ LockJourney(r)
    \/ ApplyUpdate(r) \/ WriteAudit(r)
    \/ CreateJourney(r) \/ DuplicateJourney(r)
    \/ DeleteJourney(r) \/ TouchJourney(r) \/ MissStatement(r)
    \/ Commit(r) \/ Respond(r)

Next ==
    \/ \E r \in Requests :
          Authenticate(r) \/ Refuse(r) \/ Execute(r) \/ Abort(r) \/ LoseReply(r)
    \/ \E u \in Users, x \in Roles \cup {None} : SetRole(u, x)

Spec == Init /\ [][Next]_vars

-----------------------------------------------------------------------------
(***************************************************************************)
(* Properties.                                                             *)
(***************************************************************************)

\* Every table and every request-local value has its type.
TypeOK ==
    /\ role \in [Users -> Roles \cup {None}]
    /\ journeys \in [Journeys -> Row \cup {None}]
    /\ receipts \in [Keys -> Receipt \cup {None}]
    /\ events \subseteq Event
    /\ clock \in Nat
    /\ pc \in [Requests -> InTransaction \cup {"new", "respond", "done", "failed"}]
    /\ op \in [Requests -> Operations \cup {None}]
    /\ before \in [Requests -> Row \cup {None}]
    /\ effect \in [Requests -> [row : Row \cup {None, Keep},
                                receipt : Receipt \cup {None},
                                event : Event \cup {None}]]
    /\ reply \in [Requests -> [status : Statuses, version : Nat]]

\* The requests that have found no Journey and have yet to commit that verdict.
FoundNothing ==
    {r \in Requests :
        /\ pc[r] = "commit"
        /\ effect[r].receipt # None
        /\ effect[r].receipt.outcome = "resource_not_found"}

Ledger == INSTANCE JourneyLedger
            WITH absent <- {<<op[r].user, op[r].cmd>> : r \in FoundNothing}

\* The concurrent transactions implement the ledger of atomic, authorised,
\* exactly-once commands: whatever requests interleave, fail or are repeated,
\* committed state only moves by the ledger's steps.
ImplementsLedger == Ledger!Spec

\* A command has an event exactly when its receipt says "applied", and never
\* two, although requests repeat it concurrently and after lost answers.
ExactlyOnce == Ledger!AppliedIffEvent /\ Ledger!AtMostOnce

\* No two commands were applied to the same version of a Journey, and the
\* Journey is never behind its log: no update is lost or overwritten unseen.
NoLostUpdate == Ledger!NoForkedVersion /\ Ledger!RowAhead

\* The before/after states of the events form an unbroken chain that ends in
\* the current row, also across deletion and re-creation of an identifier.
AuditReplays ==
    /\ \A e \in events : Ledger!EventIsTheCommand(e)
    /\ Ledger!ChainUnbroken
    /\ Ledger!LogExplainsRow

\* What a client has been told about a command is what its receipt says, to
\* every request that sent it; "idempotency_conflict" is only answered when
\* the identifier really belongs to a different command.
AnswersMatchReceipts ==
    \A r \in Requests :
        (pc[r] = "done" /\ op[r] # None /\ op[r].kind = "update") =>
            /\ reply[r].status \in Outcomes =>
                  receipts[Key(r)] = [cmd |-> op[r].cmd,
                                      outcome |-> reply[r].status,
                                      version |-> reply[r].version]
            /\ reply[r].status = "idempotency_conflict" =>
                  receipts[Key(r)] # None /\ receipts[Key(r)].cmd # op[r].cmd

\* A transaction commits, and an earlier outcome is disclosed, only while its
\* user still has a writing role: a demotion is never overtaken.
AuthorityAtCommit ==
    [][\A r \in Requests :
          pc[r] = "commit" /\ pc'[r] = "respond" => CanWrite(role[op[r].user])]_vars

\* A receipt is never changed or removed, and no event is: what a command
\* came to is decided once.
DecidedOnce ==
    [][/\ events \subseteq events'
       /\ \A k \in Keys : receipts[k] # None => receipts'[k] = receipts[k]]_vars

\* Waiting ends: whenever requests are under way, one of them can go on.  No
\* two wait for each other's membership, command or Journey row, and no lock
\* outlives the request that took it.  A request takes only finitely many
\* steps, so all of them end once the administrator leaves the roles alone.
NobodyStuck ==
    LET underWay == {r \in Requests : pc[r] \in InTransaction}
    IN  underWay # {} => \E r \in underWay : ENABLED Execute(r)
=============================================================================
