--------------------------- MODULE ReplicaServer ---------------------------
(***************************************************************************)
(* The command server of the PowerSync spike: registered replicas with an  *)
(* epoch and a rotating credential, checkpoint challenges, the retention   *)
(* of deletion markers, and commands applied at most once under durable    *)
(* receipts.  Every request is one or two database transactions; the locks *)
(* each transaction takes (the replica row FOR UPDATE, the shared grant    *)
(* lock, the resource rows FOR UPDATE) make it one step here.  The two     *)
(* transactions of a command request, rate window and execution, are two   *)
(* steps, and anything may happen between them.                            *)
(*                                                                         *)
(* An action below is what a request does to the database; the caller      *)
(* decides what becomes of the answer.  Time is counted in units the       *)
(* constants give the length of; the 30-day clearing of payloads is not    *)
(* modelled.                                                               *)
(***************************************************************************)
EXTENDS Integers, FiniteSets

CONSTANTS
    Users, Replicas, Resources,
    CommandContents,        \* the commands a client may send
    MaxReplicasPerUser,     \* maxReplicasPerUser, 16
    MaxConcurrent,          \* maxConcurrentCommandRequests, 4
    MaxPerWindow,           \* maxCommandRequestsPerMinute, 64
    SupportPeriod,          \* how long an acknowledgement counts, 90 days
    RetentionPeriod,        \* how long a deletion marker is kept
    ChallengeLife,          \* how long a challenge may be acknowledged, 5 minutes
    MaxTime,                \* bound on the clock
    MaxSends,               \* bound on the command requests sent
    MaxEpoch,               \* bound on the epochs of a replica
    MaxChanges,             \* bound on the membership changes
    None                    \* no row, no value

\* The check constraint on ps8_retention_state: a marker outlives the
\* acknowledgements that were given before the deletion.
ASSUME RetentionCoversSupport == RetentionPeriod >= SupportPeriod

ASSUME ContentsAssumption ==
    \A c \in CommandContents : c.res \in Resources /\ c.inc \in Nat /\ c.ver \in Nat

VARIABLES
    replica,    \* ps8_replicas
    challenge,  \* ps8_replica_challenges, at most one per replica
    window,     \* ps8_command_rate_windows
    receipt,    \* ps8_command_receipts, the set of rows
    events,     \* ps8_command_change_events
    resource,   \* resources
    grave,      \* ps8_resource_graveyard: the markers
    member,     \* the active memberships behind sync_grants
    floor,      \* retained_graveyard_floor
    nextSeq,    \* next_deletion_sequence
    now,        \* effective_now
    wire,       \* the command requests between a client and their answer
    sent,       \* how many command requests were sent
    changes     \* how many memberships have changed

serverVars == <<replica, challenge, window, receipt, events, resource, grave,
                member, floor, nextSeq, now>>

Never == -1

Session(r, e, k) == [rep |-> r, epoch |-> e, cred |-> k]

\* A credential is a random secret at registration and a function of the
\* replica, the reset request and the epoch afterwards.
RegisteredCredential(r) == <<r, None, 1>>
RotatedCredential(r, q, e) == <<r, q, e>>

ServerInit ==
    /\ replica = [r \in Replicas |-> None]
    /\ challenge = [r \in Replicas |-> None]
    /\ window = [r \in Replicas |-> None]
    /\ receipt = {}
    /\ events = {}
    /\ resource = [x \in Resources |-> [here |-> TRUE, inc |-> 1, ver |-> 1, deletedAt |-> Never]]
    /\ grave = {}
    /\ member = Users \X Resources
    /\ floor = 1
    /\ nextSeq = 1
    /\ now = 0
    /\ wire = {}

-----------------------------------------------------------------------------
(***************************************************************************)
(* Reading the tables                                                      *)
(***************************************************************************)

\* lockReplica without its staleness: the row of this user, in this epoch,
\* with this credential.
LockReplica(u, s) ==
    /\ replica[s.rep] # None
    /\ replica[s.rep].user = u
    /\ replica[s.rep].epoch = s.epoch
    /\ replica[s.rep].cred = s.cred

\* Mutant: only the age of the acknowledgement counts.
ResetRequired_AgeOnly(r) ==
    \/ replica[r].ackAt = Never
    \/ now > replica[r].ackAt + SupportPeriod

\* ps8_replica_reset_required
ResetRequired(r) ==
    \/ replica[r].ackAt = Never
    \/ now > replica[r].ackAt + SupportPeriod
    \/ replica[r].ackSeq < floor

\* A row of sync_grants exists for each resource that is there and each user
\* the memberships reach it by.
HasGrant(u, x) == <<u, x>> \in member /\ resource[x].here

\* Mutant: the receipt is looked up by its digest, so a changed command with
\* the same identifier is a new one.
ReceiptsOf_ByDigest(q) ==
    {p \in receipt : p.user = q.user /\ p.digest = [rep |-> q.session.rep, epoch |-> q.session.epoch, cmd |-> q.cmd]}

\* The receipts row of (user_id, command_id), and commandDigest: the content
\* bound to the replica and its epoch.
Digest(q) == [rep |-> q.session.rep, epoch |-> q.session.epoch, cmd |-> q.cmd]
ReceiptsOf(q) == {p \in receipt : p.user = q.user /\ p.id = q.cmd.id}

-----------------------------------------------------------------------------
(***************************************************************************)
(* The lifecycle of a replica                                              *)
(***************************************************************************)

NewReplica(u, r) ==
    [user |-> u, epoch |-> 1, cred |-> RegisteredCredential(r), prevCred |-> None,
     staged |-> None, lastReset |-> None, ackAt |-> Never, ackSeq |-> 0]

\* POST /spike/replicas/register: the advisory lock of the user keeps the
\* count true until the insert.
CanRegister(u, r) ==
    /\ replica[r] = None
    /\ Cardinality({p \in Replicas : replica[p] # None /\ replica[p].user = u}) < MaxReplicasPerUser

RegisterReplica(u, r) ==
    /\ CanRegister(u, r)
    /\ replica' = [replica EXCEPT ![r] = NewReplica(u, r)]
    /\ UNCHANGED <<challenge, window, receipt, events, resource, grave, member, floor, nextSeq, now>>

\* POST /spike/replicas/challenge: replaces the replica's challenge.  A
\* challenge is named by the epoch, the time and the sequence it targets.
IssueChallenge(u, s) ==
    /\ LockReplica(u, s)
    /\ challenge' = [challenge EXCEPT ![s.rep] =
            [epoch |-> s.epoch, target |-> nextSeq, issued |-> now, acked |-> FALSE]]
    /\ UNCHANGED <<replica, window, receipt, events, resource, grave, member, floor, nextSeq, now>>

\* POST /spike/replicas/ack
AckAccepted(u, s) ==
    /\ LockReplica(u, s)
    /\ challenge[s.rep] # None
    /\ challenge[s.rep].epoch = s.epoch
    /\ ~challenge[s.rep].acked
    /\ now <= challenge[s.rep].issued + ChallengeLife
    /\ challenge[s.rep].target >= floor

AcknowledgeChallenge(u, s) ==
    /\ AckAccepted(u, s)
    /\ challenge' = [challenge EXCEPT ![s.rep].acked = TRUE]
    /\ replica' = [replica EXCEPT ![s.rep].ackAt = now, ![s.rep].ackSeq = challenge[s.rep].target]
    /\ UNCHANGED <<window, receipt, events, resource, grave, member, floor, nextSeq, now>>

\* POST /spike/replicas/reset: a repeated request finds its own rotation and
\* is given the same credential again.
ResetReplayed(u, s, q) ==
    LET row == replica[s.rep] IN
    /\ row # None
    /\ row.user = u
    /\ row.epoch = s.epoch + 1
    /\ row.staged = q
    /\ row.prevCred = s.cred
    /\ row.cred = RotatedCredential(s.rep, q, s.epoch + 1)

ResetAnswer(u, s, q) ==
    IF ResetReplayed(u, s, q) THEN "reset"
    ELSE IF ~LockReplica(u, s) THEN "invalid"
    ELSE IF ~ResetRequired(s.rep) THEN "not_stale" ELSE "reset"

ResetSession(s, q) == Session(s.rep, s.epoch + 1, RotatedCredential(s.rep, q, s.epoch + 1))

\* A first request, of a stale replica in its own epoch, rotates.
Rotated(s, q) ==
    [replica[s.rep] EXCEPT !.epoch = s.epoch + 1, !.prevCred = replica[s.rep].cred,
                           !.cred = RotatedCredential(s.rep, q, s.epoch + 1),
                           !.staged = q, !.ackAt = Never, !.ackSeq = 0]

ResetReplica(u, s, q) ==
    /\ ResetAnswer(u, s, q) = "reset"
    /\ IF ResetReplayed(u, s, q)
       THEN UNCHANGED <<replica, window>>
       ELSE /\ replica' = [replica EXCEPT ![s.rep] = Rotated(s, q)]
            /\ window' = [window EXCEPT ![s.rep] = None]
    /\ UNCHANGED <<challenge, receipt, events, resource, grave, member, floor, nextSeq, now>>

\* Mutant: a confirmation can be given once.
ResetAckRepeated_Never(s, q) == FALSE

\* POST /spike/replicas/reset/ack: the client holds the new credential, so
\* the old one and the request are forgotten.
ResetAckRepeated(s, q) == replica[s.rep].lastReset = q /\ replica[s.rep].prevCred = None

ResetAckAccepted(u, s, q) ==
    /\ LockReplica(u, s)
    /\ ResetAckRepeated(s, q) \/ (replica[s.rep].staged = q /\ replica[s.rep].prevCred # None)

AcknowledgeReset(u, s, q) ==
    /\ ResetAckAccepted(u, s, q)
    /\ replica' = IF ResetAckRepeated(s, q) THEN replica
                  ELSE [replica EXCEPT ![s.rep].prevCred = None, ![s.rep].staged = None,
                                       ![s.rep].lastReset = q]
    /\ UNCHANGED <<challenge, window, receipt, events, resource, grave, member, floor, nextSeq, now>>

\* POST /spike/replicas/classify: whether the user still reaches this
\* incarnation of the resource.
ClassifiedPreserve(u, s, x, inc) ==
    LockReplica(u, s) /\ HasGrant(u, x) /\ resource[x].inc = inc

-----------------------------------------------------------------------------
(***************************************************************************)
(* A command request: POST /spike/commands                                 *)
(***************************************************************************)

\* A request is a user, a session and one command; n tells two sendings of
\* the same command apart.
SendCommand(n, u, s, c) ==
    /\ wire' = wire \union {[n |-> n, user |-> u, session |-> s, cmd |-> c,
                             phase |-> "sent", answer |-> None]}
    /\ UNCHANGED serverVars

Answered(q, a) == (wire \ {q}) \union {[q EXCEPT !.phase = "answered", !.answer = a]}
Status(k) == [status |-> k, result |-> None]

\* acquireCommandSlot: a slot is held from here to the answer.
SlotFree == Cardinality({q \in wire : q.phase = "admitted"}) < MaxConcurrent

\* consumeCommandRateWindow, a transaction of its own. The window lasts a
\* minute, one unit of `now' is longer than that.
WindowOver(q) ==
    LET w == window[q.session.rep] IN
    w = None \/ w.epoch # q.session.epoch \/ now > w.start

RateOutcome(q) ==
    IF ~LockReplica(q.user, q.session) THEN "invalid_replica"
    ELSE IF ResetRequired(q.session.rep) THEN "reset_required"
    ELSE IF WindowOver(q) \/ window[q.session.rep].count < MaxPerWindow
         THEN "accepted" ELSE "rate_limited"

AdmitCommand(q) ==
    /\ q \in wire /\ q.phase = "sent"
    /\ UNCHANGED <<replica, challenge, receipt, events, resource, grave, member, floor, nextSeq, now>>
    /\ \/ /\ ~SlotFree
          /\ wire' = Answered(q, Status("backpressure"))
          /\ UNCHANGED window
       \/ /\ SlotFree
          /\ RateOutcome(q) # "accepted"
          /\ wire' = Answered(q, Status(RateOutcome(q)))
          /\ UNCHANGED window
       \/ /\ SlotFree
          /\ RateOutcome(q) = "accepted"
          /\ wire' = (wire \ {q}) \union {[q EXCEPT !.phase = "admitted"]}
          /\ window' = [window EXCEPT ![q.session.rep] =
                IF WindowOver(q) THEN [epoch |-> q.session.epoch, start |-> now, count |-> 1]
                ELSE [@ EXCEPT !.count = @ + 1]]

\* Mutant: the rate window's check of the replica is trusted, nothing is read again.
ExecuteOutcome_NotRefreshed(q) ==
    LET row == resource[q.cmd.res]
        kept == ReceiptsOf(q)
        mine == \A p \in kept : p.digest = Digest(q)
    IN  IF ~LockReplica(q.user, q.session) THEN "invalid_replica"
        ELSE IF kept # {} /\ ~mine THEN "idempotency_conflict"
        ELSE IF ~HasGrant(q.user, q.cmd.res) THEN "command_denied"
        ELSE IF kept # {} THEN "replay"
        ELSE IF row.inc # q.cmd.inc THEN "stale_incarnation"
        ELSE IF row.deletedAt # Never \/ row.ver # q.cmd.ver THEN "optimistic_conflict"
        ELSE "applied"

\* What executeCommands decides, in the order of its checks.
ExecuteOutcome(q) ==
    LET row == resource[q.cmd.res]
        kept == ReceiptsOf(q)
        mine == \A p \in kept : p.digest = Digest(q)
    IN  IF ~LockReplica(q.user, q.session) THEN "invalid_replica"
        ELSE IF ResetRequired(q.session.rep) THEN "reset_required"
        ELSE IF kept # {} /\ ~mine THEN "idempotency_conflict"
        ELSE IF ~HasGrant(q.user, q.cmd.res) THEN "command_denied"
        ELSE IF kept # {} THEN "replay"
        ELSE IF row.inc # q.cmd.inc THEN "stale_incarnation"
        ELSE IF row.deletedAt # Never \/ row.ver # q.cmd.ver THEN "optimistic_conflict"
        ELSE "applied"

StateOf(code) ==
    IF code = "applied" THEN "applied" ELSE IF code = "command_denied" THEN "denied" ELSE "conflict"

\* The receipt a first outcome inserts.
NewReceipt(q, code) ==
    [user |-> q.user, id |-> q.cmd.id, digest |-> Digest(q), code |-> code,
     prev |-> q.cmd.ver,
     cur |-> IF code = "applied" THEN q.cmd.ver + 1
             ELSE IF code = "command_denied" THEN q.cmd.ver ELSE resource[q.cmd.res].ver]

\* resultFromReceipt, and deniedResultFromDurableReceipt once the grant is
\* gone: the outcome of the past is no longer told. already_applied, the code
\* of a replayed applied receipt, and applied are one code here.
ResultFrom(p, denied) ==
    [state |-> IF denied THEN "denied" ELSE StateOf(p.code),
     code |-> IF denied THEN "command_denied" ELSE p.code,
     prev |-> p.prev, cur |-> p.cur, digest |-> p.digest]

\* UPDATE resources of one command, with the trigger that puts a deletion in
\* the graveyard under the next sequence number.  In one step, a later sequence
\* number has a later time; in PostgreSQL the time is read before the trigger
\* waits for the row of the counter, so that two deletions in the same instant
\* may have their numbers and times the other way round.
ApplyToResource(q) ==
    LET x == q.cmd.res IN
    IF q.cmd.kind = "update"
    THEN /\ resource' = [resource EXCEPT ![x].ver = @ + 1]
         /\ UNCHANGED <<grave, nextSeq>>
    ELSE /\ resource' = [resource EXCEPT ![x].ver = @ + 1, ![x].deletedAt = now]
         /\ grave' = grave \union {[res |-> x, inc |-> resource[x].inc, at |-> now, seq |-> nextSeq]}
         /\ nextSeq' = nextSeq + 1

Replies == {"command_denied", "replay", "stale_incarnation", "optimistic_conflict", "applied"}

\* The receipts once a command is decided or, with its receipt found, replayed.
ReceiptsAfter(q, code) ==
    IF ReceiptsOf(q) # {} THEN receipt ELSE receipt \union {NewReceipt(q, code)}

\* executeCommands: the receipt, the mutation and the event are one
\* transaction; a refusal rolls back.
ExecuteCommand(q) ==
    LET code == ExecuteOutcome(q)
        kept == IF ReceiptsOf(q) # {} THEN ReceiptsOf(q) ELSE {NewReceipt(q, code)}
        result == ResultFrom(CHOOSE p \in kept : TRUE, code = "command_denied")
    IN  /\ q \in wire /\ q.phase = "admitted"
        /\ UNCHANGED <<replica, challenge, window, member, floor, now>>
        /\ IF code \in Replies
           THEN /\ receipt' = ReceiptsAfter(q, code)
                /\ wire' = Answered(q, [status |-> IF code = "command_denied" THEN "denied" ELSE "ok",
                                        result |-> result])
           ELSE /\ wire' = Answered(q, Status(code))
                /\ UNCHANGED receipt
        /\ IF code = "applied"
           THEN /\ ApplyToResource(q)
                /\ events' = events \union {[user |-> q.user, id |-> q.cmd.id, res |-> q.cmd.res,
                                             inc |-> resource[q.cmd.res].inc, ver |-> q.cmd.ver + 1]}
           ELSE UNCHANGED <<resource, grave, nextSeq, events>>

-----------------------------------------------------------------------------
(***************************************************************************)
(* What the database does by itself                                        *)
(***************************************************************************)

\* A membership is made inactive or active again; the projection is rebuilt
\* under the exclusive grant lock.
ChangeMembership(u, x) ==
    /\ member' = IF <<u, x>> \in member THEN member \ {<<u, x>>} ELSE member \union {<<u, x>>}
    /\ UNCHANGED <<replica, challenge, window, receipt, events, resource, grave, floor, nextSeq, now>>

\* ps8_run_retention: expired markers go, with their resources, and the floor
\* moves up to the oldest marker that is left.
Expired == {g \in grave : now > g.at + RetentionPeriod}

FloorAfter(kept) ==
    LET low == IF kept = {} THEN nextSeq
               ELSE (CHOOSE g \in kept : \A h \in kept : g.seq <= h.seq).seq
    IN  IF low > floor THEN low ELSE floor

RunRetention ==
    /\ Expired # {}
    /\ grave' = grave \ Expired
    /\ resource' = [x \in Resources |->
            IF \E g \in Expired : g.res = x /\ g.inc = resource[x].inc
            THEN [resource[x] EXCEPT !.here = FALSE] ELSE resource[x]]
    /\ floor' = FloorAfter(grave \ Expired)
    /\ UNCHANGED <<replica, challenge, window, receipt, events, member, nextSeq, now>>

\* An identifier whose marker is gone may be inserted again, as another
\* incarnation (ps8_guard_resource_lifecycle).
InsertAgain(x) ==
    /\ ~resource[x].here
    /\ \A g \in grave : g.res # x
    /\ resource' = [resource EXCEPT ![x] =
            [here |-> TRUE, inc |-> @.inc + 1, ver |-> 1, deletedAt |-> Never]]
    /\ UNCHANGED <<replica, challenge, window, receipt, events, grave, member, floor, nextSeq, now>>

\* ps8_test_set_time: time never goes back.
Tick ==
    /\ now < MaxTime
    /\ now' = now + 1
    /\ UNCHANGED <<replica, challenge, window, receipt, events, resource, grave, member, floor, nextSeq>>
=============================================================================
