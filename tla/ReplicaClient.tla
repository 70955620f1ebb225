---------------------------- MODULE ReplicaClient ----------------------------
(***************************************************************************)
(* The offline client of the PowerSync spike, composed with its server.    *)
(*                                                                         *)
(* Its durable state is spread over stores that cannot commit together:    *)
(* the SDK's queue, the application's SQLite sidecar (overlays, results,   *)
(* attempts, session), the quarantine file and the reset file.  The        *)
(* process may crash between any two of them, any request or answer may be *)
(* lost, and a request that timed out may still be executed later.         *)
(*                                                                         *)
(* Two threads run in the process: the calls of the application, which a   *)
(* gate serialises (pc), and the SDK's upload callback (up), which it does *)
(* not.  Opening the client and performing a reset share their steps;      *)
(* "mode" says where a failure leads: a failed opening ends the process, a *)
(* failed reset gives the gate back.                                       *)
(***************************************************************************)
EXTENDS ReplicaServer, Sequences, SequencesExt

CONSTANTS
    MaxTries,           \* maxTransientUploadAttempts, 5
    MaxOutstanding,     \* maxOutstandingCommandsAndResults, 64
    MaxBytes,           \* maxSerializedOutstandingBytes, 65536
    Reserved,           \* reservedOutstandingBytes of each command
    QuarantineReserved, \* quarantineEntryReservationBytes of each command
    MaxCrashes, MaxLosses   \* bounds

VARIABLES
    \* durable
    queue, overlay, results, tries, sess, quar, rst,
    \* of the process
    pc, mode, msess, needsReset, link, local, cur, up,
    \* what the application has been told and has done, and the bounds
    accepted, dismissed, exposed, resets, crashes, losses

durable == <<queue, overlay, results, tries, sess, quar, rst>>
process == <<pc, mode, msess, needsReset, link, local, cur, up>>
counters == <<resets, sent, crashes, losses, changes>>
application == <<accepted, dismissed, exposed>>
vars == <<serverVars, wire, durable, process, application, counters>>

Me == CHOOSE u \in Users : TRUE
Ids == {c.id : c \in CommandContents}
Content(id) == CHOOSE c \in CommandContents : c.id = id

ASSUME CapacityAssumption ==
    /\ IsFiniteSet(CommandContents) /\ Users # {}
    /\ MaxOutstanding \in Nat /\ MaxBytes \in Nat
    /\ Reserved \in [Ids -> Nat] /\ QuarantineReserved \in [Ids -> Nat]

\* What is in the replica table, in the sidecar and in the reset file is not
\* the mark for its absence.
Secrets == Replicas \X (Nat \union {None}) \X Nat
Sessions == [rep : Replicas, epoch : Nat, cred : Secrets]
Row == [user : Users, epoch : Nat, cred : Secrets, prevCred : Secrets \union {None},
        staged : Nat \union {None}, lastReset : Nat \union {None}, ackAt : Int, ackSeq : Nat]
ResetFile == [phase : {"quarantined", "session_staged", "cleared"}, q : Nat,
              old : Sessions, new : Sessions \union {None}]

ASSUME PresenceAssumption == None \notin (Sessions \union Row \union ResetFile)

NoUpload == [pc |-> "idle", id |-> None, n |-> 0, result |-> None]

Init ==
    /\ ServerInit
    /\ queue = <<>> /\ overlay = {} /\ sess = None /\ rst = None
    /\ results = [id \in {} |-> None]
    /\ tries = [id \in Ids |-> 0]
    /\ quar = [here |-> FALSE, fin |-> {}, pend |-> {}]
    /\ pc = "closed" /\ mode = "opening" /\ msess = None /\ needsReset = FALSE
    /\ link = "shut" /\ local = {} /\ cur = None /\ up = NoUpload
    /\ accepted = {} /\ dismissed = {} /\ exposed = {}
    /\ resets = 0 /\ sent = 0 /\ crashes = 0 /\ losses = 0 /\ changes = 0

-----------------------------------------------------------------------------
(***************************************************************************)
(* What the stores hold                                                    *)
(***************************************************************************)
HasResult(id) == id \in DOMAIN results
Active == overlay \union {id \in Ids : HasResult(id)}
FinalIds == {f.id : f \in quar.fin}
PendingIds == {p.id : p \in quar.pend}

\* The sum of f over S: as many bytes as the commands of S have reserved.
BytesOf(S, f) == UNION {{id} \X (1..f[id]) : id \in S}
SumOver(S, f) == Cardinality(BytesOf(S, f))

\* capacityUsage of the application with the finalized quarantine.
UsedCount == Cardinality(Active) + Cardinality(quar.fin)
UsedBytes == SumOver(Active, Reserved) + SumOver(FinalIds, QuarantineReserved)

\* assertOutstandingCapacity
RoomFor(id) == UsedCount + 1 <= MaxOutstanding /\ UsedBytes + Reserved[id] <= MaxBytes

\* assertResetCapacity: results, finalized and pending quarantine, without
\* the overlays that the reset will clear.
ResetRoom(pend) ==
    LET done == {id \in Ids : HasResult(id)} IN
    /\ Cardinality(done) + Cardinality(quar.fin) + Cardinality(pend) <= MaxOutstanding
    /\ SumOver(done, Reserved) + SumOver(FinalIds, QuarantineReserved)
         + SumOver({p.id : p \in pend}, QuarantineReserved) <= MaxBytes

-----------------------------------------------------------------------------
(***************************************************************************)
(* Steps, failures, crashes                                                *)
(***************************************************************************)
Goto(k) == pc' = k
Lose == losses < MaxLosses /\ losses' = losses + 1
NoLoss == losses' = losses

\* The process ends: what is not durable is forgotten.
Down ==
    /\ pc' = "closed" /\ link' = "shut" /\ up' = NoUpload /\ cur' = None
    /\ msess' = None /\ needsReset' = FALSE /\ local' = {} /\ mode' = "opening"

\* An exception in a step.
Fail ==
    IF mode = "opening" THEN Down
    ELSE /\ Goto("idle") /\ cur' = None
         /\ UNCHANGED <<mode, msess, needsReset, link, local, up>>

Step(k) == Goto(k) /\ UNCHANGED <<mode, cur, up>>
Rest == UNCHANGED <<wire, application, resets, sent, crashes, changes>>

Crash ==
    /\ pc # "closed" /\ crashes < MaxCrashes
    /\ crashes' = crashes + 1
    /\ Down
    /\ UNCHANGED <<serverVars, wire, durable, application, resets, sent, losses, changes>>

-----------------------------------------------------------------------------
(***************************************************************************)
(* Opening                                                                 *)
(***************************************************************************)

\* validateQuarantineResetLink, the unique identifiers and the capacity.
PendingWithoutReset == quar.pend # {} /\ rst = None
ResetWithoutQuarantine == ~quar.here /\ rst # None
ActiveTwice == Active \intersect FinalIds # {}
OverCapacity == UsedCount > MaxOutstanding \/ UsedBytes > MaxBytes

\* resumeReplicaSession against the sessions of the reset file.
SessionMismatch ==
    /\ rst # None
    /\ CASE rst.phase = "quarantined" -> sess # rst.old
         [] rst.phase = "session_staged" -> sess \notin {rst.old, rst.new}
         [] rst.phase = "cleared" -> sess # rst.new

OpenRefused ==
    PendingWithoutReset \/ ResetWithoutQuarantine \/ ActiveTwice \/ OverCapacity \/ SessionMismatch

\* Where the recovery of an unfinished reset goes on.
ResumeAt ==
    IF rst = None THEN "challenge"
    ELSE CASE rst.phase = "quarantined" -> "reset"
           [] rst.phase = "session_staged" -> "adopt"
           [] rst.phase = "cleared" -> "challenge"

Open ==
    /\ pc = "closed" /\ ~OpenRefused
    /\ mode' = "opening" /\ link' = "off"
    /\ IF sess = None THEN Goto("register") /\ msess' = None
       ELSE Goto(ResumeAt) /\ msess' = sess
    /\ UNCHANGED <<serverVars, wire, durable, needsReset, local, cur, up, application, counters>>

\* registerReplica: without a durable session the client registers anew.
Register ==
    /\ pc = "register"
    /\ \/ Lose /\ Down /\ UNCHANGED serverVars
       \/ /\ \A r \in Replicas : ~CanRegister(Me, r)
          /\ NoLoss /\ Down /\ UNCHANGED serverVars
       \/ \E r \in Replicas :
             /\ RegisterReplica(Me, r)
             /\ \/ Lose /\ Down
                \/ /\ NoLoss /\ Step("challenge")
                   /\ msess' = Session(r, 1, RegisteredCredential(r))
                   /\ UNCHANGED <<needsReset, link, local>>
    /\ Rest /\ UNCHANGED durable

-----------------------------------------------------------------------------
(***************************************************************************)
(* The reset: performReplicaReset, and its recovery in openSpikeClient     *)
(***************************************************************************)
StartReset ==
    /\ pc = "idle" /\ msess # None
    /\ mode' = "resetting"
    /\ UNCHANGED <<serverVars, wire, queue, overlay, results, tries, quar, rst, needsReset, local, cur, up,
                   application, counters>>
    /\ \/ /\ rst = None /\ needsReset /\ resets < MaxEpoch
          /\ Goto("snapshot") /\ UNCHANGED <<sess, msess, link>>
       \/ /\ rst # None /\ rst.phase = "quarantined"
          /\ Goto("reset") /\ UNCHANGED <<sess, msess, link>>
       \/ /\ rst # None /\ rst.phase = "session_staged"
          /\ Goto("confirm") /\ UNCHANGED <<sess, msess, link>>
       \/ /\ rst # None /\ rst.phase = "cleared" /\ up.pc = "idle"
          /\ Goto("challenge") /\ msess' = rst.new /\ sess' = rst.new /\ link' = "shut"

\* The SDK's queue and the overlays are read, and then the SDK is
\* disconnected, which waits for an upload in flight.
Snapshot ==
    /\ pc = "snapshot"
    /\ LET found == ToSet(queue) \union overlay IN
       IF quar.pend # {} \/ found \intersect FinalIds # {}
       THEN Fail
       ELSE cur' = found /\ Goto("disconnect") /\ UNCHANGED <<mode, msess, needsReset, link, local, up>>
    /\ NoLoss /\ Rest /\ UNCHANGED <<serverVars, durable>>

Disconnect ==
    /\ pc = "disconnect" /\ up.pc = "idle"
    /\ link' = "off" /\ Step("quarantine")
    /\ NoLoss /\ Rest /\ UNCHANGED <<serverVars, durable, msess, needsReset, local>>

\* Each command is classified by the server under the old session, and the
\* quarantine file is replaced.
Quarantine ==
    LET pend == {[id |-> id, ok |-> ClassifiedPreserve(Me, msess, Content(id).res, Content(id).inc)] :
                    id \in cur}
    IN  /\ pc = "quarantine"
        /\ \/ Lose /\ cur # {} /\ Fail /\ UNCHANGED quar
           \/ NoLoss /\ ~ResetRoom(pend) /\ Fail /\ UNCHANGED quar
           \/ /\ NoLoss /\ ResetRoom(pend)
              /\ quar' = [quar EXCEPT !.here = TRUE, !.pend = pend]
              /\ Step("begin") /\ UNCHANGED <<msess, needsReset, link, local>>
        /\ Rest /\ UNCHANGED <<serverVars, queue, overlay, results, tries, sess, rst>>

\* The reset file comes second.
Begin ==
    /\ pc = "begin"
    /\ rst' = [phase |-> "quarantined", q |-> resets + 1, old |-> msess, new |-> None]
    /\ resets' = resets + 1
    /\ Step("reset")
    /\ UNCHANGED <<serverVars, wire, queue, overlay, results, tries, sess, quar, msess, needsReset, link,
                   local, application, sent, crashes, losses, changes>>

\* POST reset under the old session, then the new one is written to the
\* reset file, then to the application's sidecar.
RequestReset ==
    /\ pc = "reset"
    /\ \/ Lose /\ Fail /\ UNCHANGED <<serverVars, rst>>
       \/ /\ ResetAnswer(Me, rst.old, rst.q) # "reset"
          /\ NoLoss /\ Fail /\ UNCHANGED <<serverVars, rst>>
       \/ Lose /\ ResetReplica(Me, rst.old, rst.q) /\ Fail /\ UNCHANGED rst
       \/ /\ NoLoss /\ ResetReplica(Me, rst.old, rst.q)
          /\ rst' = [rst EXCEPT !.phase = "session_staged", !.new = ResetSession(rst.old, rst.q)]
          /\ Step("adopt") /\ UNCHANGED <<msess, needsReset, link, local>>
    /\ Rest /\ UNCHANGED <<queue, overlay, results, tries, sess, quar>>

\* Mutant: the sidecar keeps the old session until the client connects.
Adopt_Skipped ==
    /\ pc = "adopt"
    /\ Step("confirm")
    /\ NoLoss /\ Rest
    /\ UNCHANGED <<serverVars, durable, msess, needsReset, link, local>>

Adopt ==
    /\ pc = "adopt"
    /\ sess' = rst.new
    /\ Step("confirm")
    /\ NoLoss /\ Rest
    /\ UNCHANGED <<serverVars, queue, overlay, results, tries, quar, rst, msess, needsReset, link, local>>

\* POST reset/ack under the new session: the server forgets the old one.  A
\* session read from disk is never refused here or by a challenge (this is
\* NeverLockedOut), so only a lost request or answer makes these steps fail.
Confirm ==
    /\ pc = "confirm"
    /\ \/ Lose /\ Fail /\ UNCHANGED serverVars
       \/ Lose /\ AcknowledgeReset(Me, rst.new, rst.q) /\ Fail
       \/ /\ NoLoss /\ AcknowledgeReset(Me, rst.new, rst.q)
          /\ msess' = rst.new /\ needsReset' = FALSE
          /\ Step("clear") /\ UNCHANGED <<link, local>>
    /\ Rest /\ UNCHANGED durable

\* disconnectAndClear, then the overlays and attempts, then the phase.
ClearDatabase ==
    /\ pc = "clear"
    /\ queue' = <<>> /\ local' = {}
    /\ Step("clear_overlays")
    /\ NoLoss /\ Rest
    /\ UNCHANGED <<serverVars, overlay, results, tries, sess, quar, rst, msess, needsReset, link>>

ClearOverlays ==
    /\ pc = "clear_overlays"
    /\ overlay' = {} /\ tries' = [id \in Ids |-> 0]
    /\ link' = "shut"
    /\ Step("cleared")
    /\ NoLoss /\ Rest
    /\ UNCHANGED <<serverVars, queue, results, sess, quar, rst, msess, needsReset, local>>

Cleared ==
    /\ pc = "cleared"
    /\ rst' = [rst EXCEPT !.phase = "cleared"]
    /\ Step("challenge")
    /\ NoLoss /\ Rest
    /\ UNCHANGED <<serverVars, queue, overlay, results, tries, sess, quar, msess, needsReset, link, local>>

-----------------------------------------------------------------------------
(***************************************************************************)
(* Connecting: challenge, first sync, acknowledgement                      *)
(***************************************************************************)
Challenge ==
    /\ pc = "challenge"
    /\ \/ Lose /\ Fail /\ UNCHANGED serverVars
       \/ Lose /\ IssueChallenge(Me, msess) /\ Fail
       \/ NoLoss /\ IssueChallenge(Me, msess) /\ Step("connect")
          /\ UNCHANGED <<msess, needsReset, link, local>>
    /\ Rest /\ UNCHANGED durable

\* The resources a sync brings: the ones the user is granted, not deleted.
View == {<<x, resource[x].inc>> : x \in {y \in Resources : HasGrant(Me, y) /\ resource[y].deletedAt = Never}}

\* connectAndObserve up to waitForInitialSync.  From here on the SDK uploads,
\* also when a reset gives up waiting: the new database stays open.
Connect ==
    /\ pc = "connect"
    /\ \/ Lose /\ mode = "opening" /\ Down
       \/ /\ Lose /\ mode = "resetting" /\ link' = "on" /\ needsReset' = FALSE
          /\ Goto("idle") /\ cur' = None /\ UNCHANGED <<mode, msess, local, up>>
       \/ /\ NoLoss /\ link' = "on" /\ local' = View /\ needsReset' = FALSE
          /\ Step("observe") /\ UNCHANGED msess
    /\ Rest /\ UNCHANGED <<serverVars, durable>>

\* acknowledgeChallenge, and setReplicaSession once the server has taken it.
Observe ==
    /\ pc = "observe"
    /\ \/ Lose /\ Fail /\ UNCHANGED <<serverVars, sess>>
       \/ NoLoss /\ ~AckAccepted(Me, msess) /\ Fail /\ UNCHANGED <<serverVars, sess>>
       \/ Lose /\ AcknowledgeChallenge(Me, msess) /\ Fail /\ UNCHANGED sess
       \/ /\ NoLoss /\ AcknowledgeChallenge(Me, msess)
          /\ sess' = msess
          /\ Step(IF rst = None THEN "idle" ELSE "finalize")
          /\ UNCHANGED <<msess, needsReset, link, local>>
    /\ Rest /\ UNCHANGED <<queue, overlay, results, tries, quar, rst>>

\* A pending command stays reviewable when it was authorised before the
\* reset, is authorised now, and its incarnation came with the full sync.
Reviewable(p) ==
    LET c == Content(p.id) IN
    p.ok /\ ClassifiedPreserve(Me, msess, c.res, c.inc) /\ <<c.res, c.inc>> \in local

\* Mutant: a command that can no longer be reviewed is dropped.
Finalize_DropsInvalidated ==
    /\ pc = "finalize"
    /\ NoLoss
    /\ quar' = [quar EXCEPT !.fin = @ \union {[id |-> p.id, kept |-> TRUE] : p \in {r \in quar.pend : Reviewable(r)}},
                            !.pend = {}]
    /\ Step("unlink")
    /\ Rest /\ UNCHANGED <<serverVars, queue, overlay, results, tries, sess, rst, msess, needsReset, link, local>>

Finalize ==
    /\ pc = "finalize"
    /\ \/ Lose /\ quar.pend # {} /\ Fail /\ UNCHANGED quar
       \/ NoLoss /\ ~ResetRoom(quar.pend) /\ Fail /\ UNCHANGED quar
       \/ /\ NoLoss /\ ResetRoom(quar.pend)
          /\ quar' = [quar EXCEPT !.fin = @ \union {[id |-> p.id, kept |-> Reviewable(p)] : p \in quar.pend},
                                  !.pend = {}]
          /\ Step("unlink") /\ UNCHANGED <<msess, needsReset, link, local>>
    /\ Rest /\ UNCHANGED <<serverVars, queue, overlay, results, tries, sess, rst>>

Unlink ==
    /\ pc = "unlink"
    /\ rst' = None
    /\ Step("idle")
    /\ NoLoss /\ Rest
    /\ UNCHANGED <<serverVars, queue, overlay, results, tries, sess, quar, msess, needsReset, link, local>>

-----------------------------------------------------------------------------
(***************************************************************************)
(* The application                                                         *)
(***************************************************************************)
\* Neither of the next two asks whether a reset is waiting to be repeated.
\* `exposed' remembers the commands that are queued then, and the pending ones
\* that a discarded entry takes out of the quarantine file.

\* queueCommands: the overlay first, the SDK's queue second.  A new command
\* has an identifier of its own.
AddOverlay(id) ==
    /\ pc = "idle"
    /\ id \notin accepted \union Active \union FinalIds \union PendingIds \union dismissed \union exposed
    /\ RoomFor(id)
    /\ overlay' = overlay \union {id}
    /\ exposed' = IF rst = None THEN exposed ELSE exposed \union {id}
    /\ cur' = id /\ Goto("enqueue")
    /\ NoLoss /\ UNCHANGED <<wire, accepted, dismissed, resets, sent, crashes, changes>>
    /\ UNCHANGED <<serverVars, queue, results, tries, sess, quar, rst, mode, msess, needsReset, link, local, up>>

Enqueue ==
    /\ pc = "enqueue"
    /\ Goto("idle") /\ cur' = None
    /\ \/ /\ link # "shut"
          /\ queue' = Append(queue, cur) /\ accepted' = accepted \union {cur}
          /\ UNCHANGED overlay
       \/ /\ link = "shut"
          /\ overlay' = overlay \ {cur}
          /\ UNCHANGED <<queue, accepted>>
    /\ UNCHANGED <<serverVars, wire, results, tries, sess, quar, rst, mode, msess, needsReset, link, local,
                   up, dismissed, exposed, counters>>

\* acknowledgeResult: only a result whose command has left the SDK's queue.
AcknowledgeResult(id) ==
    /\ pc = "idle"
    /\ HasResult(id) /\ results[id].done
    /\ results' = Restrict(results, DOMAIN results \ {id})
    /\ dismissed' = dismissed \union {id}
    /\ UNCHANGED <<serverVars, wire, queue, overlay, tries, sess, quar, rst, process, accepted, exposed, counters>>

\* persistQuarantineAcknowledgement writes an empty list of pending commands.
Discard(id) ==
    /\ pc = "idle"
    /\ id \in FinalIds
    /\ quar' = [quar EXCEPT !.fin = {f \in @ : f.id # id}, !.pend = {}]
    /\ dismissed' = dismissed \union {id} /\ exposed' = exposed \union PendingIds
    /\ UNCHANGED <<serverVars, wire, queue, overlay, results, tries, sess, rst, process, accepted, counters>>

-----------------------------------------------------------------------------
(***************************************************************************)
(* SpikeCommandConnector.uploadData                                        *)
(***************************************************************************)
UploadRest == UNCHANGED <<application, resets, crashes, changes, sess, quar, rst,
                          pc, mode, msess, link, local, cur>>

StartUpload ==
    /\ link = "on" /\ up.pc = "idle" /\ queue # <<>>
    /\ sent < MaxSends /\ sent' = sent + 1
    /\ SendCommand(sent, Me, msess, Content(Head(queue)))
    /\ up' = [pc |-> "wait", id |-> Head(queue), n |-> sent, result |-> None]
    /\ UploadRest /\ UNCHANGED <<queue, overlay, results, tries, needsReset, losses>>

\* The result the client makes up itself.
LocalFailure(id, code) ==
    [state |-> "failed", code |-> code, prev |-> Content(id).ver, cur |-> Content(id).ver,
     digest |-> [rep |-> msess.rep, epoch |-> msess.epoch, cmd |-> Content(id)]]

\* recordTransientFailure, and the end of the command at the last attempt.
Transient ==
    /\ tries' = [tries EXCEPT ![up.id] = @ + 1]
    /\ up' = IF tries[up.id] + 1 >= MaxTries
             THEN [up EXCEPT !.pc = "persist", !.result = LocalFailure(up.id, "retry_exhausted")]
             ELSE NoUpload

\* The fetch fails or times out.  What was sent may still be executed.
UploadLost ==
    /\ up.pc = "wait"
    /\ Lose /\ Transient
    /\ UploadRest /\ UNCHANGED <<serverVars, wire, queue, overlay, results, needsReset, sent>>

\* A refusal of the replica, like a required reset, is an exception: the SDK
\* tries again later.
UploadAnswered(q) ==
    /\ up.pc = "wait" /\ q \in wire /\ q.phase = "answered" /\ q.n = up.n
    /\ wire' = wire \ {q}
    /\ CASE q.answer.status \in {"backpressure", "rate_limited"} ->
              Transient /\ UNCHANGED needsReset
         [] q.answer.status \in {"ok", "denied", "idempotency_conflict"} ->
              /\ up' = [up EXCEPT !.pc = "persist",
                                  !.result = IF q.answer.status = "idempotency_conflict"
                                             THEN LocalFailure(up.id, q.answer.status) ELSE q.answer.result]
              /\ UNCHANGED <<needsReset, tries>>
         [] OTHER ->
              /\ needsReset' = (needsReset \/ q.answer.status = "reset_required")
              /\ up' = NoUpload /\ UNCHANGED tries
    /\ UploadRest /\ UNCHANGED <<serverVars, queue, overlay, results, sent, losses>>

\* persistResults: a result that is there already must be the same one.
Compatible(old, new) ==
    old.state = new.state /\ old.code = new.code /\ old.prev = new.prev /\ old.cur = new.cur
    /\ old.digest = new.digest

Stored(r) ==
    [state |-> r.state, code |-> r.code, prev |-> r.prev, cur |-> r.cur, digest |-> r.digest, done |-> FALSE]

PersistResult ==
    /\ up.pc = "persist"
    /\ IF HasResult(up.id) /\ ~Compatible(results[up.id], up.result)
       THEN up' = NoUpload /\ UNCHANGED <<overlay, tries, results>>
       ELSE /\ results' = IF HasResult(up.id) THEN results
                          ELSE [id \in DOMAIN results \union {up.id} |->
                                  IF id = up.id THEN Stored(up.result) ELSE results[id]]
            /\ overlay' = overlay \ {up.id}
            /\ tries' = [tries EXCEPT ![up.id] = 0]
            /\ up' = [up EXCEPT !.pc = "complete"]
    /\ UploadRest /\ UNCHANGED <<serverVars, wire, queue, needsReset, sent, losses>>

CompleteTransaction ==
    /\ up.pc = "complete"
    /\ queue' = Tail(queue)
    /\ up' = [up EXCEPT !.pc = "mark"]
    /\ UploadRest /\ UNCHANGED <<serverVars, wire, overlay, results, tries, needsReset, sent, losses>>

MarkCompleted ==
    /\ up.pc = "mark"
    /\ results' = [results EXCEPT ![up.id].done = TRUE]
    /\ up' = NoUpload
    /\ UploadRest /\ UNCHANGED <<serverVars, wire, queue, overlay, tries, needsReset, sent, losses>>

-----------------------------------------------------------------------------
(***************************************************************************)
(* The server's side and the whole                                         *)
(***************************************************************************)
clientVars == <<durable, process, application, resets, sent, crashes, losses>>

Serve(q) == (AdmitCommand(q) \/ ExecuteCommand(q)) /\ UNCHANGED <<clientVars, changes>>

\* The answer to a request nobody waits for any more.
DropAnswer(q) ==
    /\ q \in wire /\ q.phase = "answered" /\ (up.pc # "wait" \/ q.n # up.n)
    /\ wire' = wire \ {q}
    /\ UNCHANGED <<serverVars, clientVars, changes>>

Revoke(x) ==
    /\ changes < MaxChanges /\ changes' = changes + 1
    /\ ChangeMembership(Me, x)
    /\ UNCHANGED <<wire, clientVars>>

Environment == (Tick \/ RunRetention) /\ UNCHANGED <<wire, clientVars, changes>>

ResetSteps ==
    \/ Snapshot \/ Disconnect \/ Quarantine \/ Begin \/ RequestReset \/ Adopt \/ Confirm
    \/ ClearDatabase \/ ClearOverlays \/ Cleared \/ Challenge \/ Connect \/ Observe
    \/ Finalize \/ Unlink

Upload ==
    \/ StartUpload \/ PersistResult \/ CompleteTransaction \/ MarkCompleted
    \/ \E q \in wire : UploadAnswered(q)

Next ==
    \/ Open \/ Register \/ Crash
    \/ StartReset \/ ResetSteps
    \/ \E id \in Ids : AddOverlay(id) \/ AcknowledgeResult(id) \/ Discard(id)
    \/ Enqueue
    \/ Upload \/ UploadLost
    \/ \E q \in wire : Serve(q) \/ DropAnswer(q)
    \/ \E x \in Resources : Revoke(x)
    \/ Environment

Spec == Init /\ [][Next]_vars

\* The process is started again after a crash, an exception in a reset makes
\* the application call it again, and requests are answered.  The gate takes
\* the calls in their order, so that other calls do not keep a reset from its
\* turn.
FairSpec ==
    /\ Spec
    /\ WF_vars(Open) /\ WF_vars(Register) /\ SF_vars(StartReset) /\ WF_vars(ResetSteps)
    /\ WF_vars(Enqueue) /\ WF_vars(Upload)
    /\ WF_vars(\E q \in wire : Serve(q) \/ DropAnswer(q))

-----------------------------------------------------------------------------
(***************************************************************************)
(* Properties                                                              *)
(***************************************************************************)

\* The stores have their shapes, one thread at a time holds the gate, and an
\* upload only runs while the SDK is connected.
TypeOK ==
    /\ overlay \subseteq Ids /\ ToSet(queue) \subseteq Ids /\ IsInjective(queue)
    /\ \A id \in Ids : tries[id] \in Nat
    /\ sess # None => sess.epoch \in 1..(MaxEpoch + 1)
    /\ rst # None => (rst.new = None) = (rst.phase = "quarantined")
    /\ link \in {"on", "off", "shut"}
    /\ up.pc # "idle" => link = "on" /\ up.id \in Ids
    /\ pc = "closed" => link = "shut" /\ up = NoUpload

\* What the client calls applied was applied at the server, once, and what it
\* calls a conflict was not.
ResultsAreTrue ==
    \A id \in Ids : HasResult(id) =>
        /\ results[id].state = "applied" => Cardinality({e \in events : e.id = id}) = 1
        /\ results[id].state = "conflict" => \A e \in events : e.id # id

\* A command the application was told is queued is somewhere, as long as the
\* application has not dismissed it: in the SDK's queue, as an overlay, as a
\* result or in quarantine, whatever crashes and lost answers came between.
\* Only the commands can disappear that were queued while a failed reset
\* waited to be repeated, and the pending ones of a reset during which the
\* application discarded another.  A result is true; and a command in
\* quarantine is not carried out behind the user's back: no late upload of it
\* is applied after the server has rotated the epoch.
NoIntentLost ==
    [][/\ (accepted \ (dismissed \union exposed) \subseteq ToSet(queue) \union Active \union PendingIds \union FinalIds)'
       /\ ResultsAreTrue'
       /\ \A f \in quar.fin : {e \in events' : e.id = f.id} = {e \in events : e.id = f.id}]_vars

\* A crash leaves the client where it can go on.  The server always accepts
\* one of the sessions that it has on disk, so no lost answer in a rotation
\* locks the replica out; and it refuses to open its own files in two
\* situations only: between the quarantine file and the reset file, and when a
\* command is both quarantined and in the application's tables.  The capacity
\* is exceeded at most by commands that were queued while a reset was not
\* finished: what is pending in quarantine is not counted when they are
\* admitted.
ReopensAfterCrash ==
    /\ pc = "closed" =>
          /\ ~ResetWithoutQuarantine /\ ~SessionMismatch
          /\ Active \intersect exposed = {} => ~OverCapacity
    /\ sess # None =>
          \/ LockReplica(Me, sess)
          \/ /\ rst # None
             /\ \/ ResetReplayed(Me, rst.old, rst.q) /\ sess = rst.old
                \/ rst.new # None /\ LockReplica(Me, rst.new)

\* A reset whose new session is on disk is brought to its end, whatever the
\* crashes and lost answers on the way, except by a client that its own test
\* for a command in two places refuses to open, or where commands that were
\* queued during the reset leave too little room for the quarantined ones.
ResetFinishes ==
    (rst # None /\ rst.phase # "quarantined") ~>
        \/ rst = None \/ ActiveTwice
        \/ Active \intersect exposed # {} /\ (OverCapacity \/ ~ResetRoom(quar.pend))

\* What the comment on clearOverlays in performReplicaReset says: each overlay
\* that a reset clears is in the quarantine file.  It is not so for a command
\* that was queued while a failed reset waited to be repeated.
EveryOverlayIsQuarantined ==
    pc = "clear_overlays" => overlay \subseteq PendingIds

\* Not so, although the code tests for it on opening
\* (command_id_already_active_in_multiple_states): no command is in quarantine
\* and has an overlay or a result.
ActiveInOneStateOnly == ~ActiveTwice
=============================================================================
