---------------------------- MODULE ReplicaProofs ----------------------------
(***************************************************************************)
(* The inductive invariants of ReplicaTraffic and of ReplicaClient and     *)
(* what follows from them, for any number of users, replicas, resources    *)
(* and commands and any bounds.                                            *)
(*                                                                         *)
(* The server.                                                             *)
(* Markers are numbered in the order of their deletions and expire in that *)
(* order, so that a marker that is gone lies below the floor, and the floor*)
(* is what a replica must have acknowledged.  A session is one of three:   *)
(* current, replaced by a rotation that is not yet confirmed, or retired.  *)
(* The receipts and the changes are each other's record, because both are  *)
(* written by one transaction that found neither.                          *)
(*                                                                         *)
(* The client.  Its sessions: by the phase of the reset file one of those  *)
(* on disk is the server's, or can be asked for again (SessionInv).  Its   *)
(* stores: a queued command has an overlay or a result, what is counted    *)
(* fits, and a reset clears only what it has copied (StoresInv).  What it  *)
(* was told: a receipt is never withdrawn, so an answer that was true when *)
(* it was given still is when it is stored (AnswersInv).  Together they    *)
(* give that nothing the application was promised is lost, if it waits for *)
(* the end of a reset (IntentInv).                                         *)
(***************************************************************************)
EXTENDS ReplicaTraffic, ReplicaClient, FiniteSetTheorems, TLAPS

-----------------------------------------------------------------------------
(***************************************************************************)
(* The inductive invariant.                                                *)
(***************************************************************************)

\* The rows of the server's tables.
ResourceRow == [here : BOOLEAN, inc : Nat, ver : Nat, deletedAt : Int]
Marker == [res : Resources, inc : Nat, at : Nat, seq : Nat]
GivenSession == [rep : Replicas, epoch : Nat, cred : Credentials]

\* The types that the argument needs; windows and answers may be anything.
Types ==
    /\ replica \in [Replicas -> ReplicaRow \union {None}]
    /\ challenge \in [Replicas -> ChallengeRow \union {None}]
    /\ resource \in [Resources -> ResourceRow]
    /\ grave \subseteq Marker
    /\ floor \in Nat /\ nextSeq \in Nat /\ now \in Nat
    /\ \A g \in given : g.user \in Users /\ g.session \in GivenSession

\* A request keeps its command through its phases.
Requested ==
    \A q \in wire :
        /\ DOMAIN q = {"n", "user", "session", "cmd", "phase", "answer"}
        /\ q.user \in Users /\ q.cmd \in CommandContents

\* Every sequence number from the floor on has its marker, and the numbers
\* are in the order of the deletions.
MarkersInOrder ==
    /\ \A s \in floor..(nextSeq - 1) : \E g \in grave : g.seq = s
    /\ \A g \in grave : g.seq < nextSeq /\ g.at <= now
    /\ \A g, h \in grave : g.seq < h.seq => g.at <= h.at

\* A rotation that the client has not confirmed is remembered whole.
Rotation(r) ==
    LET row == replica[r] IN
    row # None =>
        /\ row.prevCred = None <=> row.staged = None
        /\ row.staged # None => row.cred = RotatedCredential(r, row.staged, row.epoch)

\* What the sessions that were ever given are worth.
Worth(g) ==
    LET row == replica[g.session.rep] IN
    /\ row # None
    /\ row.user = g.user
    /\ g.session.epoch <= row.epoch
    /\ g.session.epoch = row.epoch => g.session.cred = row.cred
    /\ g.session.epoch + 1 = row.epoch /\ row.prevCred # None => row.prevCred = g.session.cred

\* Receipts and changes are each other's record.
Recorded ==
    /\ \A p, q \in receipt : p.user = q.user /\ p.id = q.id => p = q
    /\ \A e, f \in events : e.user = f.user /\ e.id = f.id => e = f
    /\ \A e \in events : \E p \in receipt :
          /\ p.user = e.user /\ p.id = e.id /\ p.code = "applied"
          /\ p.digest.cmd.inc = e.inc /\ p.digest.cmd.res = e.res
    /\ \A p \in receipt : p.code = "applied" =>
          \E e \in events : e.user = p.user /\ e.id = p.id

\* The changes belong to incarnations that there have been, and are numbered.
Numbered ==
    /\ IsFiniteSet(events)
    /\ \A e \in events : e.res \in Resources /\ e.inc \in Nat /\ e.inc <= resource[e.res].inc
    /\ VersionsWithoutGap

\* The inductive invariant of the server under any traffic.
TrafficInv ==
    /\ Types
    /\ Requested
    /\ MarkersInOrder
    /\ \A r \in Replicas : Rotation(r)
    /\ \A g \in given : Worth(g)
    /\ Recorded
    /\ Numbered

-----------------------------------------------------------------------------
(***************************************************************************)
(* Types and minima.                                                       *)
(***************************************************************************)

\* No row, no credential and no request is the mark for their absence.
LEMMA Absences ==
    /\ None \notin ReplicaRow /\ None \notin ChallengeRow
    /\ None \notin Credentials /\ None \notin ResetRequests
  BY AbsenceAssumption

\* A set of markers that is not empty has one with the lowest number.
LEMMA LowestMarker ==
    ASSUME NEW S \in SUBSET Marker, S # {}
    PROVE  \E g \in S : \A h \in S : g.seq <= h.seq
  <1> DEFINE T == {g.seq : g \in S}
  <1>1. T \subseteq Nat /\ T # {}
    BY DEF Marker
  <1>2. IsWellFoundedOn(OpToRel(<, Nat), Nat)
    BY NatLessThanWellFounded
  <1> HIDE DEF T
  <1>3. PICK n \in T : \A m \in T : <<m, n>> \notin OpToRel(<, Nat)
    BY <1>1, <1>2, WFMin
  <1>4. \A m \in T : n <= m
    <2>1. \A m \in T : m < n => <<m, n>> \in OpToRel(<, Nat)
      BY <1>1 DEF OpToRel
    <2>2. \A m \in T : ~(m < n)
      BY <1>3, <2>1, Zenon
    <2>3. QED
      BY <1>1, <2>2
  <1> USE DEF T
  <1>5. QED
    BY <1>4

\* The server starts in the invariant: nothing is registered, deleted or sent.
LEMMA InitTrafficInv == TrafficInit => TrafficInv
  <1> SUFFICES ASSUME TrafficInit PROVE TrafficInv
    OBVIOUS
  <1> USE DEF TrafficInit, ServerInit
  <1>1. Types
    BY DEF Types, ResourceRow, Never
  <1>2. Requested /\ MarkersInOrder
    BY DEF Requested, MarkersInOrder
  <1>3. (\A r \in Replicas : Rotation(r)) /\ (\A g \in given : Worth(g)) /\ Recorded
    BY DEF Rotation, Recorded
  <1>4. Numbered
    <2>1. \A x \in Resources : resource[x].ver = 1
      OBVIOUS
    <2>2. \A x \in Resources : {e \in events : e.res = x /\ e.inc = resource[x].inc} = {}
      OBVIOUS
    <2>3. 2..1 = {}
      OBVIOUS
    <2>4. VersionsWithoutGap
      BY <2>1, <2>2, <2>3, FS_EmptySet DEF VersionsWithoutGap
    <2>5. QED
      BY <2>4, FS_EmptySet DEF Numbered
  <1>5. QED
    BY <1>1, <1>2, <1>3, <1>4 DEF TrafficInv

-----------------------------------------------------------------------------
(***************************************************************************)
(* The life of a replica.                                                  *)
(***************************************************************************)

\* What the requests about replicas and sessions leave alone.
Elsewhere == <<receipt, events, resource, grave, floor, nextSeq, now, wire>>

\* A step that writes replicas, challenges and sessions only.
LEMMA ReplicaStep ==
    ASSUME TrafficInv, UNCHANGED Elsewhere,
           replica' \in [Replicas -> ReplicaRow \union {None}],
           challenge' \in [Replicas -> ChallengeRow \union {None}],
           \A g \in given' : g.user \in Users /\ g.session \in GivenSession,
           \A r \in Replicas : Rotation(r)',
           \A g \in given' : Worth(g)'
    PROVE  TrafficInv'
  <1> USE DEF TrafficInv, Elsewhere
  <1>1. Types'
    BY DEF Types
  <1>2. Requested' /\ MarkersInOrder'
    BY DEF Requested, MarkersInOrder
  <1>3. Recorded' /\ Numbered'
    BY DEF Recorded, Numbered, VersionsWithoutGap
  <1>4. QED
    BY <1>1, <1>2, <1>3

\* A registration finds no row, so no session of the replica was ever given.
LEMMA RegisterStep ==
    ASSUME TrafficInv, NEW u \in Users, NEW r \in Replicas, RegisterFor(u, r) PROVE TrafficInv'
  <1> DEFINE new == [user |-> u, session |-> Session(r, 1, RegisteredCredential(r))]
             row == NewReplica(u, r)
  <1>0. Types /\ (\A p \in Replicas : Rotation(p)) /\ \A g \in given : Worth(g)
    BY DEF TrafficInv
  <1>1. /\ replica[r] = None /\ replica' = [replica EXCEPT ![r] = row]
        /\ given' = given \union {new} /\ challenge' = challenge /\ UNCHANGED Elsewhere
    BY DEF RegisterFor, RegisterReplica, CanRegister, Elsewhere
  <1>2. RegisteredCredential(r) \in Credentials
    BY DEF RegisteredCredential, Credentials
  <1>3. row \in ReplicaRow /\ row.prevCred = None /\ row.staged = None /\ row.epoch = 1
        /\ row.cred = RegisteredCredential(r) /\ row.user = u
    BY <1>2 DEF NewReplica, ReplicaRow, Never
  <1>4. new.user = u /\ new.session \in GivenSession /\ new.session.rep = r
        /\ new.session.epoch = 1 /\ new.session.cred = RegisteredCredential(r)
    BY <1>2 DEF GivenSession, Session
  <1> HIDE DEF new, row
  <1>5. replica' \in [Replicas -> ReplicaRow \union {None}] /\ replica'[r] = row
        /\ \A p \in Replicas \ {r} : replica'[p] = replica[p]
    BY <1>0, <1>1, <1>3 DEF Types
  <1>6. \A p \in Replicas : Rotation(p)'
    BY <1>0, <1>3, <1>5 DEF Rotation
  <1>7. \A g \in given : g.session.rep \in Replicas /\ g.session.rep # r
    BY <1>0, <1>1 DEF Types, GivenSession, Worth
  <1>8. \A g \in given : Worth(g)'
    BY <1>0, <1>5, <1>7 DEF Worth
  <1>9. Worth(new)'
    BY <1>3, <1>4, <1>5, Absences DEF Worth
  <1>10. \A g \in given' : g.user \in Users /\ g.session \in GivenSession
    BY <1>0, <1>1, <1>4 DEF Types
  <1>11. QED
    BY <1>0, <1>1, <1>5, <1>6, <1>8, <1>9, <1>10, ReplicaStep DEF Types

\* A challenge says nothing of the sessions.
LEMMA ChallengeStep ==
    ASSUME TrafficInv, NEW g \in given, ChallengeFor(g) PROVE TrafficInv'
  <1>0. Types /\ (\A p \in Replicas : Rotation(p)) /\ \A h \in given : Worth(h)
    BY DEF TrafficInv
  <1>1. g.session \in GivenSession /\ g.session.epoch \in Nat
    BY <1>0 DEF Types, GivenSession
  <1>2. /\ UNCHANGED <<replica, given>> /\ UNCHANGED Elsewhere
        /\ challenge' = [challenge EXCEPT ![g.session.rep] =
               [epoch |-> g.session.epoch, target |-> nextSeq, issued |-> now, acked |-> FALSE]]
    BY DEF ChallengeFor, IssueChallenge, Elsewhere
  <1>3. challenge' \in [Replicas -> ChallengeRow \union {None}]
    BY <1>0, <1>1, <1>2 DEF Types, ChallengeRow
  <1>4. (\A p \in Replicas : Rotation(p)') /\ \A h \in given' : Worth(h)'
    BY <1>0, <1>2 DEF Rotation, Worth
  <1>5. QED
    BY <1>0, <1>2, <1>3, <1>4, ReplicaStep DEF Types

\* An acknowledgement moves only what the replica has acknowledged.
LEMMA AcknowledgeStep ==
    ASSUME TrafficInv, NEW g \in given, Acknowledge(g) PROVE TrafficInv'
  <1> DEFINE r == g.session.rep
             new == [replica[r] EXCEPT !.ackAt = now, !.ackSeq = challenge[r].target]
  <1>0. Types /\ (\A p \in Replicas : Rotation(p)) /\ \A h \in given : Worth(h)
    BY DEF TrafficInv
  <1>1. r \in Replicas
    BY <1>0 DEF Types, GivenSession
  <1>2. /\ replica[r] # None /\ challenge[r] # None /\ given' = given /\ UNCHANGED Elsewhere
        /\ challenge' = [challenge EXCEPT ![r].acked = TRUE]
        /\ replica' = [replica EXCEPT ![r].ackAt = now, ![r].ackSeq = challenge[r].target]
    BY DEF Acknowledge, AcknowledgeChallenge, AckAccepted, LockReplica, Elsewhere
  <1>3. replica[r] \in ReplicaRow /\ challenge[r] \in ChallengeRow
    BY <1>0, <1>1, <1>2 DEF Types
  <1>4. challenge' \in [Replicas -> ChallengeRow \union {None}]
    BY <1>0, <1>1, <1>2, <1>3 DEF Types, ChallengeRow
  <1>5. new \in ReplicaRow /\ new.user = replica[r].user /\ new.epoch = replica[r].epoch
        /\ new.cred = replica[r].cred /\ new.prevCred = replica[r].prevCred
        /\ new.staged = replica[r].staged
    <2>1. challenge[r].target \in Nat /\ now \in Int
      BY <1>0, <1>3 DEF Types, ChallengeRow
    <2>2. QED
      BY <1>3, <2>1 DEF ReplicaRow
  <1>6. replica'[r] = new /\ \A p \in Replicas \ {r} : replica'[p] = replica[p]
    BY <1>0, <1>1, <1>2 DEF Types
  <1>7. replica' \in [Replicas -> ReplicaRow \union {None}]
    <2>1. replica' = [replica EXCEPT ![r] = new]
      BY <1>2
    <2> HIDE DEF new
    <2>2. QED
      BY <1>0, <1>5, <2>1 DEF Types
  <1> HIDE DEF new
  <1>8. ASSUME NEW p \in Replicas PROVE Rotation(p)'
    <2>1. CASE p = r
      BY <1>0, <1>1, <1>2, <1>5, <1>6, <2>1 DEF Rotation
    <2>2. CASE p # r
      BY <1>0, <1>6, <2>2 DEF Rotation
    <2>3. QED
      BY <2>1, <2>2
  <1>9. ASSUME NEW h \in given' PROVE Worth(h)'
    <2>1. h \in given /\ Worth(h) /\ h.session.rep \in Replicas
      BY <1>0, <1>2 DEF Types, GivenSession
    <2>2. CASE h.session.rep = r
      BY <1>5, <1>6, <2>1, <2>2, Absences DEF Worth
    <2>3. CASE h.session.rep # r
      BY <1>6, <2>1, <2>3 DEF Worth
    <2>4. QED
      BY <2>2, <2>3
  <1>10. QED
    BY <1>0, <1>2, <1>4, <1>7, <1>8, <1>9, ReplicaStep DEF Types

\* A rotation makes the current session the replaced one, and all that were
\* replaced before are retired; a repeated request is given what it was given.
LEMMA ResetStep ==
    ASSUME TrafficInv, NEW g \in given, NEW q \in ResetRequests, Reset(g, q) PROVE TrafficInv'
  <1> DEFINE s == g.session
             r == g.session.rep
             made == [user |-> g.user, session |-> ResetSession(s, q)]
  <1>0. Types /\ (\A p \in Replicas : Rotation(p)) /\ \A h \in given : Worth(h)
    BY DEF TrafficInv
  <1>1. r \in Replicas /\ s.epoch \in Nat /\ g.user \in Users
    BY <1>0 DEF Types, GivenSession
  <1>2. /\ challenge' = challenge /\ given' = given \union {made} /\ UNCHANGED Elsewhere
        /\ ResetAnswer(g.user, s, q) = "reset"
    BY DEF Reset, ResetReplica, Elsewhere
  <1>3. RotatedCredential(r, q, s.epoch + 1) \in Credentials
    BY <1>1 DEF RotatedCredential, Credentials
  <1>4. /\ made.user = g.user /\ made.session \in GivenSession /\ made.session.rep = r
        /\ made.session.epoch = s.epoch + 1
        /\ made.session.cred = RotatedCredential(r, q, s.epoch + 1)
    BY <1>1, <1>3 DEF GivenSession, ResetSession, Session
  <1> HIDE DEF made
  <1>5. \A h \in given' : h.user \in Users /\ h.session \in GivenSession
    BY <1>0, <1>1, <1>2, <1>4 DEF Types
  <1>6. CASE ResetReplayed(g.user, s, q)
    <2>1. /\ replica' = replica /\ replica[r] # None /\ replica[r].user = g.user
          /\ replica[r].epoch = s.epoch + 1 /\ replica[r].cred = RotatedCredential(r, q, s.epoch + 1)
      BY <1>6 DEF Reset, ResetReplica, ResetReplayed
    <2>2. \A h \in given : Worth(h)'
      BY <1>0, <2>1 DEF Worth
    <2>3. Worth(made)'
      BY <1>1, <1>4, <2>1 DEF Worth
    <2>4. \A p \in Replicas : Rotation(p)'
      BY <1>0, <2>1 DEF Rotation
    <2>5. QED
      BY <1>0, <1>2, <1>5, <2>1, <2>2, <2>3, <2>4, ReplicaStep DEF Types
  <1>7. CASE ~ResetReplayed(g.user, s, q)
    <2> DEFINE new == Rotated(s, q)
    <2>1. /\ replica' = [replica EXCEPT ![r] = new] /\ replica[r] # None
          /\ replica[r].user = g.user /\ replica[r].epoch = s.epoch
      BY <1>2, <1>7 DEF Reset, ResetReplica, ResetAnswer, LockReplica
    <2>2. replica[r] \in ReplicaRow
      BY <1>0, <1>1, <2>1 DEF Types
    <2>3. /\ new \in ReplicaRow /\ new.user = replica[r].user /\ new.epoch = s.epoch + 1
          /\ new.cred = RotatedCredential(r, q, s.epoch + 1) /\ new.prevCred = replica[r].cred
          /\ new.staged = q
      <3> DEFINE a == [[[replica[r] EXCEPT !.epoch = s.epoch + 1] EXCEPT !.prevCred = replica[r].cred]
                                    EXCEPT !.cred = RotatedCredential(r, q, s.epoch + 1)]
                 b == [[[a EXCEPT !.staged = q] EXCEPT !.ackAt = Never] EXCEPT !.ackSeq = 0]
      <3>1. new = b
        BY DEF Rotated
      <3> HIDE DEF new
      <3>2. Never \in Int /\ s.epoch + 1 \in Nat /\ 0 \in Nat
        BY <1>1 DEF Never
      <3>3. /\ a \in ReplicaRow /\ a.user = replica[r].user /\ a.epoch = s.epoch + 1
            /\ a.cred = RotatedCredential(r, q, s.epoch + 1) /\ a.prevCred = replica[r].cred
        BY <1>3, <2>2, <3>2 DEF ReplicaRow
      <3> HIDE DEF a
      <3>4. /\ b \in ReplicaRow /\ b.user = a.user /\ b.epoch = a.epoch /\ b.cred = a.cred
            /\ b.prevCred = a.prevCred /\ b.staged = q
        BY <3>2, <3>3 DEF ReplicaRow
      <3>5. QED
        BY <3>1, <3>3, <3>4
    <2> HIDE DEF new
    <2>4. replica' \in [Replicas -> ReplicaRow \union {None}] /\ replica'[r] = new
          /\ \A p \in Replicas \ {r} : replica'[p] = replica[p]
      BY <1>0, <1>1, <2>1, <2>3 DEF Types
    <2>5. ASSUME NEW p \in Replicas PROVE Rotation(p)'
      <3>1. CASE p = r
        <4>1. new.prevCred # None /\ new.staged # None
          BY <2>2, <2>3, Absences DEF ReplicaRow
        <4>2. QED
          BY <2>3, <2>4, <3>1, <4>1 DEF Rotation
      <3>2. CASE p # r
        BY <1>0, <2>4, <3>2 DEF Rotation
      <3>3. QED
        BY <3>1, <3>2
    <2>6. ASSUME NEW h \in given PROVE Worth(h)'
      <3>1. Worth(h) /\ h.session.rep \in Replicas /\ h.session.epoch \in Nat
        BY <1>0 DEF Types, GivenSession
      <3>2. CASE h.session.rep = r
        BY <1>1, <2>1, <2>2, <2>3, <2>4, <3>1, <3>2, Absences DEF Worth, ReplicaRow
      <3>3. CASE h.session.rep # r
        BY <2>4, <3>1, <3>3 DEF Worth
      <3>4. QED
        BY <3>2, <3>3
    <2>7. Worth(made)'
      BY <1>1, <1>4, <2>1, <2>3, <2>4, Absences DEF Worth
    <2>8. QED
      BY <1>0, <1>2, <1>5, <2>4, <2>5, <2>6, <2>7, ReplicaStep DEF Types
  <1>8. QED
    BY <1>6, <1>7

\* A confirmation forgets the replaced credential.
LEMMA ResetAcknowledgeStep ==
    ASSUME TrafficInv, NEW g \in given, NEW q \in ResetRequests, ResetAcknowledge(g, q)
    PROVE  TrafficInv'
  <1> DEFINE r == g.session.rep
             new == [[[replica[r] EXCEPT !.prevCred = None] EXCEPT !.staged = None]
                                  EXCEPT !.lastReset = q]
  <1>0. Types /\ (\A p \in Replicas : Rotation(p)) /\ \A h \in given : Worth(h)
    BY DEF TrafficInv
  <1>1. r \in Replicas
    BY <1>0 DEF Types, GivenSession
  <1>2. replica[r] # None /\ challenge' = challenge /\ given' = given /\ UNCHANGED Elsewhere
    BY DEF ResetAcknowledge, AcknowledgeReset, ResetAckAccepted, LockReplica, Elsewhere
  <1>3. CASE replica' = replica
    BY <1>0, <1>2, <1>3, ReplicaStep DEF Types, Rotation, Worth
  <1>4. CASE replica' # replica
    <2>1. replica' = [replica EXCEPT ![r] = new]
      <3>1. replica' = [replica EXCEPT ![r].prevCred = None, ![r].staged = None, ![r].lastReset = q]
        BY <1>4 DEF ResetAcknowledge, AcknowledgeReset
      <3>2. QED
        BY <1>0, <1>1, <3>1 DEF Types
    <2>2. replica[r] \in ReplicaRow
      BY <1>0, <1>1, <1>2 DEF Types
    <2>3. /\ new \in ReplicaRow /\ new.user = replica[r].user /\ new.epoch = replica[r].epoch
          /\ new.cred = replica[r].cred /\ new.prevCred = None /\ new.staged = None
      BY <2>2 DEF ReplicaRow
    <2> HIDE DEF new
    <2>4. replica' \in [Replicas -> ReplicaRow \union {None}] /\ replica'[r] = new
          /\ \A p \in Replicas \ {r} : replica'[p] = replica[p]
      BY <1>0, <1>1, <2>1, <2>3 DEF Types
    <2>5. \A p \in Replicas : Rotation(p)'
      BY <1>0, <2>3, <2>4 DEF Rotation
    <2>6. ASSUME NEW h \in given' PROVE Worth(h)'
      <3>1. h \in given /\ Worth(h) /\ h.session.rep \in Replicas
        BY <1>0, <1>2 DEF Types, GivenSession
      <3>2. CASE h.session.rep = r
        BY <2>3, <2>4, <3>1, <3>2, Absences DEF Worth
      <3>3. CASE h.session.rep # r
        BY <2>4, <3>1, <3>3 DEF Worth
      <3>4. QED
        BY <3>2, <3>3
    <2>7. QED
      BY <1>0, <1>2, <2>4, <2>5, <2>6, ReplicaStep DEF Types
  <1>5. QED
    BY <1>3, <1>4

-----------------------------------------------------------------------------
(***************************************************************************)
(* Requests, time and memberships.                                         *)
(***************************************************************************)

\* A step that leaves the replicas, their sessions and the sequences alone.
LEMMA SessionsStay ==
    ASSUME TrafficInv, UNCHANGED <<replica, challenge, given>>
    PROVE  /\ replica' \in [Replicas -> ReplicaRow \union {None}]
           /\ challenge' \in [Replicas -> ChallengeRow \union {None}]
           /\ \A g \in given' : g.user \in Users /\ g.session \in GivenSession
           /\ \A r \in Replicas : Rotation(r)'
           /\ \A g \in given' : Worth(g)'
  BY DEF TrafficInv, Types, Rotation, Worth

\* An answered or an admitted request keeps its command.
LEMMA KeepsCommand ==
    ASSUME Requested, NEW q \in wire, NEW k, NEW a,
           wire' = (wire \ {q}) \union {[q EXCEPT !.phase = k]}
             \/ wire' = (wire \ {q}) \union {[q EXCEPT !.phase = k, !.answer = a]}
    PROVE  Requested'
  <1>1. /\ DOMAIN q = {"n", "user", "session", "cmd", "phase", "answer"}
        /\ q.user \in Users /\ q.cmd \in CommandContents
    BY DEF Requested
  <1>2. ASSUME NEW p, p = [q EXCEPT !.phase = k] \/ p = [q EXCEPT !.phase = k, !.answer = a]
        PROVE  /\ DOMAIN p = {"n", "user", "session", "cmd", "phase", "answer"}
               /\ p.user \in Users /\ p.cmd \in CommandContents
    BY <1>1, <1>2
  <1>3. QED
    BY <1>2 DEF Requested

\* Sending, admitting and answering requests, and what happens to memberships.
LEMMA WireSteps ==
    ASSUME TrafficInv,
           \/ \E g \in given, c \in CommandContents : Send(g, c)
           \/ \E q \in wire : Admit(q) \/ Deliver(q)
           \/ \E u \in Users, x \in Resources : Change(u, x)
    PROVE  TrafficInv'
  <1>1. UNCHANGED <<replica, challenge, receipt, events, resource, grave, floor, nextSeq, now, given>>
    BY DEF Send, SendCommand, Admit, AdmitCommand, Deliver, Change, ChangeMembership, serverVars
  <1>2. Requested'
    <2>1. ASSUME NEW g \in given, NEW c \in CommandContents, Send(g, c) PROVE Requested'
      BY <2>1 DEF Send, SendCommand, Requested, TrafficInv, Types
    <2>2. ASSUME NEW q \in wire, Admit(q) PROVE Requested'
      BY <2>2, KeepsCommand DEF Admit, AdmitCommand, Answered, TrafficInv
    <2>3. ASSUME NEW q \in wire, Deliver(q) PROVE Requested'
      BY <2>3 DEF Deliver, Requested, TrafficInv
    <2>4. ASSUME NEW u \in Users, NEW x \in Resources, Change(u, x) PROVE Requested'
      BY <2>4 DEF Change, Requested, TrafficInv
    <2>5. QED
      BY <2>1, <2>2, <2>3, <2>4
  <1>3. Types' /\ MarkersInOrder' /\ Recorded' /\ Numbered'
    BY <1>1 DEF TrafficInv, Types, MarkersInOrder, Recorded, Numbered, VersionsWithoutGap
  <1>4. QED
    BY <1>1, <1>2, <1>3, SessionsStay DEF TrafficInv

\* Time passes.
LEMMA PassStep == ASSUME TrafficInv, Pass PROVE TrafficInv'
  <1>1. UNCHANGED <<replica, challenge, receipt, events, resource, grave, floor, nextSeq, given, wire>>
    BY DEF Pass, Tick
  <1>2. now' = now + 1 /\ now \in Nat
    BY DEF Pass, Tick, TrafficInv, Types
  <1>3. Types'
    BY <1>1, <1>2 DEF TrafficInv, Types
  <1>4. MarkersInOrder'
    <2>1. \A g \in grave : g.at \in Nat /\ g.at <= now
      BY DEF TrafficInv, Types, Marker, MarkersInOrder
    <2>2. QED
      BY <1>1, <1>2, <2>1 DEF TrafficInv, MarkersInOrder
  <1>5. Requested' /\ Recorded' /\ Numbered'
    BY <1>1 DEF TrafficInv, Requested, Recorded, Numbered, VersionsWithoutGap
  <1>6. QED
    BY <1>1, <1>3, <1>4, <1>5, SessionsStay DEF TrafficInv

-----------------------------------------------------------------------------
(***************************************************************************)
(* Resources and their markers.                                            *)
(***************************************************************************)

\* Another incarnation starts without a change of its own.
LEMMA InsertStep == ASSUME TrafficInv, NEW x \in Resources, Insert(x) PROVE TrafficInv'
  <1> DEFINE new == [here |-> TRUE, inc |-> resource[x].inc + 1, ver |-> 1, deletedAt |-> Never]
  <1>1. /\ UNCHANGED <<replica, challenge, receipt, events, grave, floor, nextSeq, now, given, wire>>
        /\ resource' = [resource EXCEPT ![x] = new]
    BY DEF Insert, InsertAgain
  <1>2. Types /\ Numbered /\ resource[x] \in ResourceRow /\ resource[x].inc \in Nat
    BY DEF TrafficInv, Types, ResourceRow
  <1>3. new \in ResourceRow /\ new.inc = resource[x].inc + 1 /\ new.ver = 1
    BY <1>2 DEF ResourceRow, Never
  <1> HIDE DEF new
  <1>4. resource' \in [Resources -> ResourceRow] /\ resource'[x] = new
        /\ \A y \in Resources \ {x} : resource'[y] = resource[y]
    BY <1>1, <1>2, <1>3 DEF Types
  <1>5. Types'
    BY <1>1, <1>2, <1>4 DEF Types
  <1>6. Requested' /\ MarkersInOrder' /\ Recorded'
    BY <1>1 DEF TrafficInv, Requested, MarkersInOrder, Recorded
  <1>7. Numbered'
    <2>1. ASSUME NEW e \in events
          PROVE  e.res \in Resources /\ e.inc \in Nat /\ e.inc <= resource'[e.res].inc
      <3>1. e.res \in Resources /\ e.inc \in Nat /\ e.inc <= resource[e.res].inc
        BY <1>2 DEF Numbered
      <3>2. QED
        BY <1>2, <1>3, <1>4, <3>1
    <2>2. ASSUME NEW y \in Resources
          PROVE  LET made == {e \in events : e.res = y /\ e.inc = resource'[y].inc}
                 IN  {e.ver : e \in made} = 2..resource'[y].ver /\ Cardinality(made) = resource'[y].ver - 1
      <3>1. CASE y = x
        <4>1. \A e \in events : e.res = x => e.inc \in Nat /\ e.inc <= resource[x].inc
          BY <1>2 DEF Numbered
        <4>2. {e \in events : e.res = y /\ e.inc = resource'[y].inc} = {}
          BY <1>2, <1>3, <1>4, <3>1, <4>1
        <4>3. resource'[y].ver = 1 /\ 2..1 = {}
          BY <1>3, <1>4, <3>1
        <4>4. QED
          BY <4>2, <4>3, FS_EmptySet
      <3>2. CASE y # x
        BY <1>2, <1>4, <3>2 DEF Numbered, VersionsWithoutGap
      <3>3. QED
        BY <3>1, <3>2
    <2>3. QED
      BY <1>1, <1>2, <2>1, <2>2 DEF Numbered, VersionsWithoutGap
  <1>8. QED
    BY <1>1, <1>5, <1>6, <1>7, SessionsStay DEF TrafficInv

\* The retention job takes the oldest markers, so that the floor it sets is
\* not above any that it leaves and has no gap behind it.
LEMMA RetainStep == ASSUME TrafficInv, Retain PROVE TrafficInv'
  <1> DEFINE kept == grave \ Expired
             low == CHOOSE g \in kept : \A h \in kept : g.seq <= h.seq
  <1>1. /\ UNCHANGED <<replica, challenge, receipt, events, nextSeq, now, given, wire>>
        /\ grave' = kept /\ floor' = FloorAfter(kept)
        /\ resource' = [x \in Resources |->
               IF \E g \in Expired : g.res = x /\ g.inc = resource[x].inc
               THEN [resource[x] EXCEPT !.here = FALSE] ELSE resource[x]]
    BY DEF Retain, RunRetention
  <1>2. Types /\ MarkersInOrder /\ Numbered
    BY DEF TrafficInv
  <1>3. kept \in SUBSET Marker /\ floor \in Nat /\ nextSeq \in Nat /\ now \in Nat
    BY <1>2 DEF Types
  <1>4. kept # {} => low \in kept /\ \A h \in kept : low.seq <= h.seq
    BY <1>3, LowestMarker, Zenon
  <1> HIDE DEF low
  <1>5. /\ floor' \in Nat /\ floor <= floor'
        /\ kept = {} => nextSeq <= floor'
        /\ kept # {} => low.seq \in Nat /\ low.seq <= floor'
    <2>1. kept # {} => low.seq \in Nat
      BY <1>3, <1>4 DEF Marker
    <2>2. CASE kept = {}
      BY <1>1, <1>3, <2>2 DEF FloorAfter
    <2>3. CASE kept # {}
      <3>1. floor' = IF low.seq > floor THEN low.seq ELSE floor
        BY <1>1, <2>3 DEF FloorAfter, low
      <3>2. QED
        BY <1>3, <2>1, <2>3, <3>1
    <2>4. QED
      BY <2>2, <2>3
  <1>6. \A x \in Resources : /\ resource'[x] \in ResourceRow
                             /\ resource'[x].inc = resource[x].inc /\ resource'[x].ver = resource[x].ver
    <2>1. \A x \in Resources : resource[x] \in ResourceRow
      BY <1>2 DEF Types
    <2>2. \A row \in ResourceRow : LET less == [row EXCEPT !.here = FALSE]
                                   IN  less \in ResourceRow /\ less.inc = row.inc /\ less.ver = row.ver
      BY DEF ResourceRow
    <2>3. QED
      BY <1>1, <2>1, <2>2
  <1>7. Types'
    <2>1. resource' \in [Resources -> ResourceRow]
      BY <1>1, <1>6
    <2>2. QED
      BY <1>1, <1>2, <1>3, <1>5, <2>1 DEF Types
  <1>8. MarkersInOrder'
    <2>1. ASSUME NEW s \in floor'..(nextSeq' - 1) PROVE \E g \in grave' : g.seq = s
      <3>1. s \in floor..(nextSeq - 1) /\ s \in Nat /\ floor' <= s /\ s < nextSeq
        BY <1>1, <1>3, <1>5
      <3>2. PICK g \in grave : g.seq = s
        BY <1>2, <3>1 DEF MarkersInOrder
      <3>3. kept # {} /\ low \in kept /\ low.seq <= s
        BY <1>3, <1>4, <1>5, <3>1
      <3>4. CASE low.seq = s
        BY <1>1, <3>3, <3>4
      <3>5. CASE low.seq # s
        <4>1. low.at \in Nat /\ g.at \in Nat /\ low.seq \in Nat /\ low.at <= g.at
          <5>1. low \in grave /\ g \in Marker /\ low \in Marker
            BY <1>2, <3>3 DEF Types
          <5>2. low.seq < g.seq
            BY <3>1, <3>2, <3>3, <3>5, <5>1 DEF Marker
          <5>3. QED
            BY <1>2, <5>1, <5>2 DEF MarkersInOrder, Marker
        <4>2. ~(now > low.at + RetentionPeriod)
          BY <3>3 DEF Expired
        <4>3. ~(now > g.at + RetentionPeriod)
          BY <1>3, <4>1, <4>2, PeriodAssumption
        <4>4. QED
          BY <1>1, <3>2, <4>3 DEF Expired
      <3>6. QED
        BY <3>4, <3>5
    <2>2. QED
      BY <1>1, <1>2, <2>1 DEF MarkersInOrder
  <1>9. Requested' /\ Recorded'
    BY <1>1 DEF TrafficInv, Requested, Recorded
  <1>10. Numbered'
    BY <1>1, <1>2, <1>6 DEF Numbered, VersionsWithoutGap
  <1>11. QED
    BY <1>1, <1>7, <1>8, <1>9, <1>10, SessionsStay DEF TrafficInv

-----------------------------------------------------------------------------
(***************************************************************************)
(* The execution of a command.                                             *)
(***************************************************************************)

\* What a command that is applied was found to be.
LEMMA AppliedOutcome ==
    ASSUME NEW q, ExecuteOutcome(q) = "applied"
    PROVE  /\ LockReplica(q.user, q.session) /\ ~ResetRequired(q.session.rep)
           /\ ReceiptsOf(q) = {} /\ HasGrant(q.user, q.cmd.res)
           /\ resource[q.cmd.res].inc = q.cmd.inc /\ resource[q.cmd.res].ver = q.cmd.ver
  BY DEF ExecuteOutcome

\* The receipt and the change of a command are written together or not at all.
LEMMA ExecuteRecorded ==
    ASSUME Recorded, NEW q \in wire, Execute(q) PROVE Recorded'
  <1> DEFINE code == ExecuteOutcome(q)
             p0 == NewReceipt(q, code)
             e0 == [user |-> q.user, id |-> q.cmd.id, res |-> q.cmd.res,
                    inc |-> resource[q.cmd.res].inc, ver |-> q.cmd.ver + 1]
  <1>1. /\ p0.user = q.user /\ p0.id = q.cmd.id /\ p0.code = code /\ p0.digest.cmd = q.cmd
        /\ e0.user = q.user /\ e0.id = q.cmd.id /\ e0.res = q.cmd.res
        /\ e0.inc = resource[q.cmd.res].inc
    BY DEF NewReceipt, Digest
  <1>2. code = "applied" =>
            /\ receipt' = receipt \union {p0} /\ events' = events \union {e0}
            /\ ReceiptsOf(q) = {} /\ resource[q.cmd.res].inc = q.cmd.inc
    BY AppliedOutcome DEF Execute, ExecuteCommand, Replies, ReceiptsAfter
  <1>3. code # "applied" =>
            /\ events' = events
            /\ receipt' = receipt \/ (receipt' = receipt \union {p0} /\ ReceiptsOf(q) = {})
    BY DEF Execute, ExecuteCommand, ReceiptsAfter
  <1> HIDE DEF code, p0, e0
  <1>4. ReceiptsOf(q) = {} => \A p \in receipt : ~(p.user = q.user /\ p.id = q.cmd.id)
    BY DEF ReceiptsOf
  <1>5. CASE receipt' = receipt /\ events' = events
    BY <1>5 DEF Recorded
  <1>6. CASE /\ code = "applied" /\ receipt' = receipt \union {p0} /\ events' = events \union {e0}
             /\ ReceiptsOf(q) = {} /\ resource[q.cmd.res].inc = q.cmd.inc
    <2>1. \A p, o \in receipt' : p.user = o.user /\ p.id = o.id => p = o
      BY <1>1, <1>4, <1>6 DEF Recorded
    <2>2. \A e \in events : ~(e.user = q.user /\ e.id = q.cmd.id)
      BY <1>4, <1>6 DEF Recorded
    <2>3. \A e, f \in events' : e.user = f.user /\ e.id = f.id => e = f
      BY <1>1, <1>6, <2>2 DEF Recorded
    <2>4. \A e \in events' : \E p \in receipt' :
             /\ p.user = e.user /\ p.id = e.id /\ p.code = "applied"
             /\ p.digest.cmd.inc = e.inc /\ p.digest.cmd.res = e.res
      BY <1>1, <1>6 DEF Recorded
    <2>5. \A p \in receipt' : p.code = "applied" =>
             \E e \in events' : e.user = p.user /\ e.id = p.id
      BY <1>1, <1>6 DEF Recorded
    <2>6. QED
      BY <2>1, <2>3, <2>4, <2>5 DEF Recorded
  <1>7. CASE /\ code # "applied" /\ events' = events
             /\ receipt' = receipt \union {p0} /\ ReceiptsOf(q) = {}
    BY <1>1, <1>4, <1>7 DEF Recorded
  <1>8. QED
    BY <1>2, <1>3, <1>5, <1>6, <1>7

\* A command is applied to the version it names, and its change is the next.
LEMMA AppliedNumbered ==
    ASSUME TrafficInv, NEW x \in Resources, NEW e0,
           e0.res = x, e0.inc = resource[x].inc, e0.ver = resource[x].ver + 1,
           events' = events \union {e0},
           \A y \in Resources : resource'[y].inc = resource[y].inc,
           \A y \in Resources : resource'[y].ver = IF y = x THEN resource[x].ver + 1 ELSE resource[y].ver
    PROVE  Numbered'
  <1>1. Numbered /\ IsFiniteSet(events) /\ resource[x].inc \in Nat /\ resource[x].ver \in Nat
    BY DEF TrafficInv, Types, ResourceRow, Numbered
  <1>2. IsFiniteSet(events')
    BY <1>1, FS_AddElement
  <1>3. \A e \in events' : e.res \in Resources /\ e.inc \in Nat /\ e.inc <= resource'[e.res].inc
    BY <1>1 DEF Numbered
  <1>4. ASSUME NEW y \in Resources
        PROVE  LET made == {e \in events' : e.res = y /\ e.inc = resource'[y].inc}
               IN  {e.ver : e \in made} = 2..resource'[y].ver /\ Cardinality(made) = resource'[y].ver - 1
    <2> DEFINE made == {e \in events : e.res = y /\ e.inc = resource[y].inc}
               now2 == {e \in events' : e.res = y /\ e.inc = resource'[y].inc}
    <2>1. {e.ver : e \in made} = 2..resource[y].ver /\ Cardinality(made) = resource[y].ver - 1
      BY <1>1 DEF Numbered, VersionsWithoutGap
    <2>2. CASE y = x
      <3>1. now2 = made \union {e0}
        BY <2>2
      <3>2. IsFiniteSet(made) /\ Cardinality(made) \in Nat
        <4>1. made \subseteq events
          OBVIOUS
        <4>2. QED
          BY <1>1, <4>1, FS_Subset, FS_CardinalityType
      <3>3. e0 \notin made
        <4>1. e0.ver \notin 2..resource[y].ver
          BY <1>1, <2>2
        <4>2. QED
          BY <2>1, <4>1
      <3>4. resource[y].ver \in Nat /\ resource[y].ver >= 1 /\ resource'[y].ver = resource[y].ver + 1
        BY <1>1, <2>1, <2>2, <3>2
      <3>5. {e.ver : e \in now2} = {e.ver : e \in made} \union {resource[y].ver + 1}
        BY <2>2, <3>1
      <3>6. 2..(resource[y].ver + 1) = (2..resource[y].ver) \union {resource[y].ver + 1}
        BY <3>4
      <3> HIDE DEF made
      <3> HIDE DEF now2
      <3>7. Cardinality(now2) = Cardinality(made) + 1
        <4>1. Cardinality(made \union {e0}) = Cardinality(made) + 1
          BY <3>2, <3>3, FS_AddElement, Zenon
        <4>2. QED
          BY <3>1, <4>1, Zenon
      <3>8. {e.ver : e \in now2} = 2..resource'[y].ver
        BY <2>1, <3>4, <3>5, <3>6
      <3>9. Cardinality(now2) = resource'[y].ver - 1
        BY <2>1, <3>2, <3>4, <3>7
      <3> USE DEF now2
      <3>10. QED
        BY <3>8, <3>9
    <2>3. CASE y # x
      <3>1. now2 = made
        BY <2>3
      <3>2. resource'[y].ver = resource[y].ver
        BY <2>3
      <3>3. QED
        BY <2>1, <3>1, <3>2
    <2>4. QED
      BY <2>2, <2>3
  <1>5. QED
    BY <1>2, <1>3, <1>4 DEF Numbered, VersionsWithoutGap

\* A command that is applied, and one that is not.
LEMMA ExecuteStep == ASSUME TrafficInv, NEW q \in wire, Execute(q) PROVE TrafficInv'
  <1> DEFINE x == q.cmd.res
             mark == [res |-> x, inc |-> resource[x].inc, at |-> now, seq |-> nextSeq]
  <1>0. Types /\ MarkersInOrder /\ Requested /\ Recorded /\ Numbered
    BY DEF TrafficInv
  <1>1. q.cmd \in CommandContents /\ x \in Resources /\ q.cmd.inc \in Nat /\ q.cmd.ver \in Nat
    BY <1>0, ContentsAssumption DEF Requested
  <1>2. UNCHANGED <<replica, challenge, floor, now, given>>
    BY DEF Execute, ExecuteCommand
  <1>3. Requested'
    <2>1. \E a : wire' = Answered(q, a)
      BY DEF Execute, ExecuteCommand
    <2>2. QED
      BY <1>0, <2>1, KeepsCommand DEF Answered
  <1>4. Recorded'
    BY <1>0, ExecuteRecorded
  <1>5. CASE ExecuteOutcome(q) # "applied"
    <2>1. UNCHANGED <<resource, grave, nextSeq, events>>
      BY <1>5 DEF Execute, ExecuteCommand
    <2>2. Types' /\ MarkersInOrder' /\ Numbered'
      BY <1>0, <1>2, <2>1 DEF Types, MarkersInOrder, Numbered, VersionsWithoutGap
    <2>3. QED
      BY <1>2, <1>3, <1>4, <2>2, SessionsStay DEF TrafficInv
  <1>6. CASE ExecuteOutcome(q) = "applied"
    <2> DEFINE e0 == [user |-> q.user, id |-> q.cmd.id, res |-> x, inc |-> resource[x].inc,
                      ver |-> q.cmd.ver + 1]
    <2>1. resource[x].ver = q.cmd.ver
      BY <1>6, AppliedOutcome
    <2>2. ApplyToResource(q) /\ events' = events \union {e0}
      BY <1>6 DEF Execute, ExecuteCommand
    <2>3. e0.res = x /\ e0.inc = resource[x].inc /\ e0.ver = resource[x].ver + 1
      BY <2>1
    <2> HIDE DEF e0
    <2>4. resource[x] \in ResourceRow /\ resource[x].ver \in Nat /\ now \in Int
      BY <1>0, <1>1 DEF Types, ResourceRow
    <2>5. /\ resource' \in [Resources -> ResourceRow]
          /\ \A y \in Resources : resource'[y].inc = resource[y].inc
          /\ \A y \in Resources :
                resource'[y].ver = IF y = x THEN resource[x].ver + 1 ELSE resource[y].ver
      <3> DEFINE raised == [resource[x] EXCEPT !.ver = resource[x].ver + 1]
                 gone == [raised EXCEPT !.deletedAt = now]
      <3>1. resource' = [resource EXCEPT ![x] = raised] \/ resource' = [resource EXCEPT ![x] = gone]
        <4>1. \/ resource' = [resource EXCEPT ![x].ver = @ + 1]
              \/ resource' = [resource EXCEPT ![x].ver = @ + 1, ![x].deletedAt = now]
          BY <2>2 DEF ApplyToResource
        <4>2. QED
          BY <1>0, <1>1, <4>1 DEF Types
      <3>2. raised \in ResourceRow /\ raised.inc = resource[x].inc /\ raised.ver = resource[x].ver + 1
        BY <2>4 DEF ResourceRow
      <3> HIDE DEF raised
      <3>3. gone \in ResourceRow /\ gone.inc = raised.inc /\ gone.ver = raised.ver
        BY <2>4, <3>2 DEF ResourceRow
      <3> HIDE DEF gone
      <3>4. QED
        BY <1>0, <1>1, <3>1, <3>2, <3>3 DEF Types
    <2>6. Numbered'
      BY <1>1, <2>2, <2>3, <2>5, AppliedNumbered
    <2>7. \/ UNCHANGED <<grave, nextSeq>>
          \/ grave' = grave \union {mark} /\ nextSeq' = nextSeq + 1
      BY <2>2 DEF ApplyToResource
    <2>8. mark \in Marker /\ mark.seq = nextSeq /\ mark.at = now
      BY <1>0, <1>1, <2>4 DEF Types, Marker, ResourceRow
    <2> HIDE DEF mark
    <2>9. Types'
      BY <1>0, <1>2, <2>5, <2>7, <2>8 DEF Types
    <2>10. MarkersInOrder'
      <3>1. CASE UNCHANGED <<grave, nextSeq>>
        BY <1>0, <1>2, <3>1 DEF MarkersInOrder
      <3>2. CASE grave' = grave \union {mark} /\ nextSeq' = nextSeq + 1
        <4>1. \A s \in floor'..(nextSeq' - 1) : \E g \in grave' : g.seq = s
          BY <1>0, <1>2, <2>8, <3>2 DEF MarkersInOrder, Types
        <4>2. \A g \in grave : g.seq \in Nat /\ g.seq < nextSeq /\ g.at \in Nat /\ g.at <= now
          BY <1>0 DEF MarkersInOrder, Types, Marker
        <4>3. \A g \in grave' : g.seq < nextSeq' /\ g.at <= now'
          BY <1>0, <1>2, <2>8, <3>2, <4>2 DEF Types
        <4>4. \A g, h \in grave' : g.seq < h.seq => g.at <= h.at
          BY <1>0, <2>8, <3>2, <4>2 DEF Types, MarkersInOrder
        <4>5. QED
          BY <4>1, <4>3, <4>4 DEF MarkersInOrder
      <3>3. QED
        BY <2>7, <3>1, <3>2
    <2>11. QED
      BY <1>2, <1>3, <1>4, <2>6, <2>9, <2>10, SessionsStay DEF TrafficInv
  <1>7. QED
    BY <1>5, <1>6

-----------------------------------------------------------------------------
(***************************************************************************)
(* The theorems.                                                           *)
(***************************************************************************)

\* Every step keeps the invariant.
LEMMA NextTrafficInv == TrafficInv /\ [TrafficNext]_trafficVars => TrafficInv'
  <1> SUFFICES ASSUME TrafficInv, [TrafficNext]_trafficVars PROVE TrafficInv'
    OBVIOUS
  <1>1. CASE UNCHANGED trafficVars
    <2>1. UNCHANGED <<replica, challenge, receipt, events, resource, grave, floor, nextSeq, now, given, wire>>
      BY <1>1 DEF trafficVars, serverVars
    <2>2. QED
      BY <2>1, ReplicaStep, SessionsStay DEF Elsewhere
  <1>2. CASE \E u \in Users, r \in Replicas : RegisterFor(u, r)
    BY <1>2, RegisterStep
  <1>3. CASE \E g \in given : ChallengeFor(g) \/ Acknowledge(g)
    BY <1>3, ChallengeStep, AcknowledgeStep
  <1>4. CASE \E g \in given, q \in ResetRequests : Reset(g, q) \/ ResetAcknowledge(g, q)
    BY <1>4, ResetStep, ResetAcknowledgeStep
  <1>5. CASE \/ \E g \in given, c \in CommandContents : Send(g, c)
             \/ \E q \in wire : Admit(q) \/ Deliver(q)
             \/ \E u \in Users, x \in Resources : Change(u, x)
    BY <1>5, WireSteps
  <1>6. CASE \E q \in wire : Execute(q)
    BY <1>6, ExecuteStep
  <1>7. CASE Retain
    BY <1>7, RetainStep
  <1>8. CASE \E x \in Resources : Insert(x)
    BY <1>8, InsertStep
  <1>9. CASE Pass
    BY <1>9, PassStep
  <1>10. QED
    BY <1>1, <1>2, <1>3, <1>4, <1>5, <1>6, <1>7, <1>8, <1>9 DEF TrafficNext

\* The invariant holds in every state of the server.
THEOREM TrafficInvariant == TrafficSpec => []TrafficInv
  <1>1. QED
    BY InitTrafficInv, NextTrafficInv, PTL DEF TrafficSpec

\* What was deleted stays deleted: ps8_run_retention takes markers only below
\* the floor it sets, ps8_replica_reset_required stops every replica whose
\* acknowledgement is below it, and a change was made to the incarnation its
\* command named.
THEOREM TrafficDeletionsStick == TrafficSpec => []DeletionsStick
  <1>1. TrafficInv => DeletionsStick
    <2> SUFFICES ASSUME TrafficInv PROVE DeletionsStick
      OBVIOUS
    <2>0. Types /\ MarkersInOrder /\ Recorded /\ Numbered
      BY DEF TrafficInv
    <2>1. ASSUME NEW s \in 1..(nextSeq - 1), \A g \in grave : g.seq # s,
                 NEW r \in Replicas, Eligible(r)
          PROVE  replica[r].ackSeq > s
      <3>1. s < floor
        BY <2>0, <2>1 DEF MarkersInOrder, Types
      <3>2. replica[r].ackSeq \in Nat /\ ~(replica[r].ackSeq < floor)
        BY <2>0, <2>1 DEF Eligible, ResetRequired, Types, ReplicaRow
      <3>3. QED
        BY <2>0, <3>1, <3>2 DEF Types
    <2>2. ASSUME NEW e \in events
          PROVE  \E p \in receipt :
                    /\ p.user = e.user /\ p.id = e.id
                    /\ p.digest.cmd.inc = e.inc /\ p.digest.cmd.res = e.res
                    /\ e.inc <= resource[e.res].inc
      BY <2>0 DEF Recorded, Numbered
    <2>3. QED
      BY <2>1, <2>2 DEF DeletionsStick
  <1>2. QED
    BY <1>1, TrafficInvariant, PTL

\* However often a command is sent, executeCommands changes its resource at
\* most once, exactly when its receipt says applied, the changes of one
\* incarnation have no gap, and no receipt is ever changed or taken away.
THEOREM TrafficAppliedOnce == TrafficSpec => AppliedOnce
  <1>1. TrafficInv => OncePerCommand
    <2> SUFFICES ASSUME TrafficInv PROVE OncePerCommand
      OBVIOUS
    <2>0. Recorded
      BY DEF TrafficInv
    <2>1. ASSUME NEW u \in Users, NEW c \in CommandContents
          PROVE  LET mine == {e \in events : e.user = u /\ e.id = c.id}
                     kept == {p \in receipt : p.user = u /\ p.id = c.id /\ p.code = "applied"}
                 IN  Cardinality(mine) <= 1 /\ (mine # {}) = (kept # {})
      <3> DEFINE mine == {e \in events : e.user = u /\ e.id = c.id}
                 kept == {p \in receipt : p.user = u /\ p.id = c.id /\ p.code = "applied"}
      <3>1. (mine # {}) = (kept # {})
        BY <2>0 DEF Recorded
      <3>2. mine = {} \/ \E e : mine = {e}
        <4>1. \A e, f \in mine : e = f
          BY <2>0 DEF Recorded
        <4> HIDE DEF mine
        <4>2. ASSUME NEW e \in mine PROVE mine = {e}
          BY <4>1
        <4>3. QED
          BY <4>2
      <3> HIDE DEF mine
      <3>3. Cardinality(mine) = 0 \/ Cardinality(mine) = 1
        BY <3>2, FS_EmptySet, FS_Singleton
      <3> USE DEF mine
      <3>4. QED
        BY <3>1, <3>3
    <2>2. QED
      BY <2>0, <2>1 DEF OncePerCommand, Recorded
  <1>2. TrafficInv => VersionsWithoutGap
    BY DEF TrafficInv, Numbered
  <1>3. [TrafficNext]_trafficVars => receipt \subseteq receipt'
    <2> SUFFICES ASSUME [TrafficNext]_trafficVars, receipt' # receipt PROVE receipt \subseteq receipt'
      OBVIOUS
    <2>1. ~UNCHANGED trafficVars
      BY DEF trafficVars, serverVars
    <2>2. PICK q \in wire : Execute(q)
      BY <2>1 DEF TrafficNext, RegisterFor, RegisterReplica, ChallengeFor, IssueChallenge, Acknowledge,
         AcknowledgeChallenge, Reset, ResetReplica, ResetAcknowledge, AcknowledgeReset, Send,
         SendCommand, serverVars, Admit, AdmitCommand, Deliver, Change, ChangeMembership, Retain,
         RunRetention, Insert, InsertAgain, Pass, Tick
    <2>3. QED
      BY <2>2 DEF Execute, ExecuteCommand, ReceiptsAfter
  <1>4. QED
    BY <1>1, <1>2, <1>3, TrafficInvariant, PTL DEF TrafficSpec, AppliedOnce

\* A mutation is made only for a replica that is current at that moment, and
\* of the sessions ever given only the current one and the one it replaced
\* are good for anything.
THEOREM TrafficAppliesOnlyWhileEligible == TrafficSpec => AppliesOnlyWhileEligible
  <1>1. TrafficInv => \A g \in given : RetiredStaysRetired(g)
    <2> SUFFICES ASSUME TrafficInv, NEW g \in given PROVE RetiredStaysRetired(g)
      OBVIOUS
    <2> DEFINE s == g.session
               row == replica[g.session.rep]
    <2>1. s.rep \in Replicas /\ s.epoch \in Nat /\ s.cred \in Credentials
      BY DEF TrafficInv, Types, GivenSession
    <2>2. /\ row # None /\ row.user = g.user /\ s.epoch <= row.epoch
          /\ s.epoch = row.epoch => s.cred = row.cred
          /\ s.epoch + 1 = row.epoch /\ row.prevCred # None => row.prevCred = s.cred
      BY DEF TrafficInv, Worth
    <2>3. row \in ReplicaRow /\ row.epoch \in Nat
      BY <2>1, <2>2 DEF TrafficInv, Types, ReplicaRow
    <2>4. /\ row.prevCred = None <=> row.staged = None
          /\ row.staged # None => row.cred = RotatedCredential(s.rep, row.staged, row.epoch)
      BY <2>1, <2>2 DEF TrafficInv, Rotation
    <2>5. CASE s.epoch = row.epoch
      BY <2>2, <2>5 DEF RetiredStaysRetired, LockReplica
    <2>6. CASE s.epoch + 1 = row.epoch /\ row.prevCred # None
      BY <2>2, <2>4, <2>6 DEF RetiredStaysRetired, ResetReplayed
    <2>7. CASE s.epoch < row.epoch /\ ~(s.epoch + 1 = row.epoch /\ row.prevCred # None)
      <3>1. s.cred # None
        BY <2>1, Absences
      <3>2. ASSUME NEW q \in ResetRequests PROVE ResetAnswer(g.user, s, q) = "invalid"
        <4>1. ~ResetReplayed(g.user, s, q)
          BY <2>7, <3>1 DEF ResetReplayed
        <4>2. ~LockReplica(g.user, s)
          BY <2>1, <2>3, <2>7 DEF LockReplica
        <4>3. QED
          BY <4>1, <4>2 DEF ResetAnswer
      <3>3. QED
        BY <2>7, <3>2 DEF RetiredStaysRetired
    <2>8. QED
      BY <2>1, <2>2, <2>3, <2>5, <2>6, <2>7
  <1>2. ASSUME TrafficInv, [TrafficNext]_trafficVars, NEW q \in wire, q \notin wire', events' # events
        PROVE  /\ Eligible(q.session.rep)
               /\ replica[q.session.rep].epoch = q.session.epoch
               /\ HasGrant(q.user, q.cmd.res)
    <2>1. ~UNCHANGED trafficVars
      BY <1>2 DEF trafficVars, serverVars
    <2>2. PICK p \in wire : Execute(p)
      BY <1>2, <2>1 DEF TrafficNext, RegisterFor, RegisterReplica, ChallengeFor, IssueChallenge, Acknowledge,
         AcknowledgeChallenge, Reset, ResetReplica, ResetAcknowledge, AcknowledgeReset, Send,
         SendCommand, serverVars, Admit, AdmitCommand, Deliver, Change, ChangeMembership, Retain,
         RunRetention, Insert, InsertAgain, Pass, Tick
    <2>3. p = q
      BY <1>2, <2>2 DEF Execute, ExecuteCommand, Answered
    <2>4. ExecuteOutcome(q) = "applied"
      BY <1>2, <2>2, <2>3 DEF Execute, ExecuteCommand
    <2>5. QED
      BY <2>4, AppliedOutcome DEF Eligible, LockReplica
  <1>3. TrafficInv /\ [TrafficNext]_trafficVars =>
            [/\ \A q \in wire : q \notin wire' /\ events' # events =>
                  /\ Eligible(q.session.rep)
                  /\ replica[q.session.rep].epoch = q.session.epoch
                  /\ HasGrant(q.user, q.cmd.res)
             /\ \A g \in given : RetiredStaysRetired(g)]_trafficVars
    BY <1>1, <1>2
  <1>4. QED
    BY <1>3, TrafficInvariant, PTL DEF TrafficSpec, AppliesOnlyWhileEligible

-----------------------------------------------------------------------------
(***************************************************************************)
(* The client's sessions.                                                  *)
(***************************************************************************)

\* LockReplica and ResetReplayed for this user, of a replica table R.
Held(R, s) ==
    R[s.rep] # None /\ R[s.rep].user = Me /\ R[s.rep].epoch = s.epoch /\ R[s.rep].cred = s.cred
\* The server still answers the reset request q of session s with what it
\* has answered before.
Replayable(R, s, q) ==
    /\ R[s.rep] # None /\ R[s.rep].user = Me /\ R[s.rep].epoch = s.epoch + 1 /\ R[s.rep].staged = q
    /\ R[s.rep].prevCred = s.cred /\ R[s.rep].cred = RotatedCredential(s.rep, q, s.epoch + 1)

\* The server's rows about the replica.
Tables ==
    /\ replica \in [Replicas -> Row \union {None}]
    /\ challenge \in [Replicas -> ChallengeRow \union {None}]
    /\ nextSeq \in Nat /\ now \in Nat

\* What the client has on disk and in memory has its type.
Files ==
    /\ sess \in Sessions \union {None} /\ msess \in Sessions \union {None}
    /\ rst \in ResetFile \union {None} /\ resets \in Nat
    /\ DOMAIN quar = {"here", "fin", "pend"}
    /\ rst # None \/ pc = "begin" => quar.here

\* No reset is under way: the server holds the session on disk and, while the
\* client connects, the one in memory; between, the two are one.
WithoutReset ==
    /\ pc \in {"closed", "register", "challenge", "connect", "observe", "idle", "enqueue",
               "snapshot", "disconnect", "quarantine", "begin"}
    /\ sess # None => Held(replica, sess)
    /\ pc = "register" => mode = "opening" /\ sess = None
    /\ pc \in {"challenge", "connect", "observe"} =>
          mode = "opening" /\ msess # None /\ Held(replica, msess) /\ sess \in {None, msess}
    /\ pc \in {"idle", "enqueue", "snapshot", "disconnect", "quarantine", "begin"} => sess # None /\ sess = msess

\* The server may or may not have rotated.
WhileQuarantined ==
    /\ pc \in {"closed", "idle", "enqueue", "reset"}
    /\ rst.new = None /\ sess = rst.old /\ (pc # "closed" => msess = sess)
    /\ Held(replica, sess) \/ Replayable(replica, sess, rst.q)

\* It has, and the new session is on its way to the sidecar.
WhileStaged ==
    /\ pc \in {"closed", "idle", "enqueue", "adopt", "confirm", "clear", "clear_overlays", "cleared"}
    /\ rst.new = ResetSession(rst.old, rst.q) /\ Held(replica, rst.new)
    /\ sess \in {rst.old, rst.new} /\ (pc \notin {"closed", "adopt"} => sess = rst.new)
    /\ pc \in {"clear", "clear_overlays", "cleared"} => msess = rst.new

\* The new session is the stored one and the server's.
WhileCleared ==
    /\ pc \in {"closed", "idle", "enqueue", "challenge", "connect", "observe", "finalize", "unlink"}
    /\ rst.new # None /\ rst.new = ResetSession(rst.old, rst.q) /\ sess = rst.new /\ Held(replica, sess)
    /\ pc # "closed" => msess = sess

\* One of the four, by the phase of the reset file.
SessionsHeld ==
    /\ rst = None => WithoutReset
    /\ rst # None =>
          /\ rst.phase = "quarantined" => WhileQuarantined
          /\ rst.phase = "session_staged" => WhileStaged
          /\ rst.phase = "cleared" => WhileCleared

\* First part of the client's invariant: its sessions.
SessionInv == Tables /\ Files /\ SessionsHeld

\* The two readings agree.
LEMMA HeldIs ==
    /\ \A s : LockReplica(Me, s) <=> Held(replica, s)
    /\ \A s, q : ResetReplayed(Me, s, q) <=> Replayable(replica, s, q)
  BY DEF LockReplica, Held, ResetReplayed, Replayable

\* Absence.
LEMMA Present ==
    /\ \A s \in Sessions : s # None
    /\ \A s \in Row : s # None
    /\ \A s \in ResetFile : s # None
  BY PresenceAssumption

\* The client's principal is a user.
LEMMA MeIsUser == Me \in Users
  BY CapacityAssumption DEF Me

-----------------------------------------------------------------------------
(***************************************************************************)
(* What the requests of the client do to the table of replicas.            *)
(***************************************************************************)

\* Every session that was held is held.
Holding ==
    /\ Tables'
    /\ \A s \in Sessions : Held(replica, s) => Held(replica', s)

\* A registration gives a session that the server accepts.
LEMMA RegisterHolds ==
    ASSUME Tables, NEW r \in Replicas, RegisterReplica(Me, r)
    PROVE  Holding /\ Session(r, 1, RegisteredCredential(r)) \in Sessions
           /\ Held(replica', Session(r, 1, RegisteredCredential(r)))
  <1>1. replica' = [replica EXCEPT ![r] = NewReplica(Me, r)] /\ replica[r] = None
        /\ UNCHANGED <<challenge, nextSeq, now>>
    BY DEF RegisterReplica, CanRegister
  <1>2. NewReplica(Me, r) \in Row
    BY MeIsUser DEF NewReplica, Row, RegisteredCredential, Secrets, Never
  <1>3. Tables'
    BY <1>1, <1>2 DEF Tables
  <1>4. \A s \in Sessions : Held(replica, s) => Held(replica', s)
    BY <1>1 DEF Held, Tables, Sessions
  <1>5. Session(r, 1, RegisteredCredential(r)) \in Sessions
    BY DEF Session, Sessions, RegisteredCredential, Secrets
  <1>6. Held(replica', Session(r, 1, RegisteredCredential(r)))
    BY <1>1, <1>2, Present DEF Held, Session, NewReplica, Tables
  <1>7. QED
    BY <1>3, <1>4, <1>5, <1>6 DEF Holding

\* Challenges leave credentials alone.
LEMMA ChallengeHolds ==
    ASSUME Tables, NEW s \in Sessions, IssueChallenge(Me, s)
    PROVE  Holding
  <1>1. Tables'
    BY DEF IssueChallenge, Tables, ChallengeRow, Sessions
  <1>2. QED
    BY <1>1 DEF Holding, IssueChallenge

\* So do acknowledgements.
LEMMA AcknowledgeHolds ==
    ASSUME Tables, NEW s \in Sessions, AcknowledgeChallenge(Me, s)
    PROVE  Holding
  <1> DEFINE row == [replica[s.rep] EXCEPT !.ackAt = now, !.ackSeq = challenge[s.rep].target]
             ch == [challenge[s.rep] EXCEPT !.acked = TRUE]
  <1>1. s.rep \in Replicas /\ replica[s.rep] \in Row /\ challenge[s.rep] \in ChallengeRow
    BY DEF AcknowledgeChallenge, AckAccepted, LockReplica, Tables, Sessions
  <1>2. replica' = [replica EXCEPT ![s.rep] = row] /\ challenge' = [challenge EXCEPT ![s.rep] = ch]
        /\ UNCHANGED <<nextSeq, now>>
    BY <1>1 DEF AcknowledgeChallenge, Tables
  <1>3. row \in Row /\ row.user = replica[s.rep].user /\ row.epoch = replica[s.rep].epoch
        /\ row.cred = replica[s.rep].cred
    <2>1. now \in Int /\ challenge[s.rep].target \in Nat
      BY <1>1 DEF ChallengeRow, Tables
    <2>2. QED
      BY <1>1, <2>1 DEF Row
  <1>4. ch \in ChallengeRow
    BY <1>1 DEF ChallengeRow
  <1> HIDE DEF row, ch
  <1>5. Tables'
    BY <1>1, <1>2, <1>3, <1>4 DEF Tables
  <1>6. \A t \in Sessions : Held(replica, t) => Held(replica', t)
    BY <1>1, <1>2, <1>3, Present DEF Held, Tables, Sessions
  <1>7. QED
    BY <1>5, <1>6 DEF Holding

\* A confirmed rotation leaves the new session as the only one.
LEMMA ConfirmHolds ==
    ASSUME Tables, NEW s \in Sessions, NEW q \in Nat, AcknowledgeReset(Me, s, q)
    PROVE  Holding
  <1> DEFINE row == [replica[s.rep] EXCEPT !.prevCred = None, !.staged = None, !.lastReset = q]
  <1>1. s.rep \in Replicas /\ replica[s.rep] \in Row
    BY DEF AcknowledgeReset, ResetAckAccepted, LockReplica, Tables, Sessions
  <1>2. (replica' = replica \/ replica' = [replica EXCEPT ![s.rep] = row]) /\ UNCHANGED <<challenge, nextSeq, now>>
    BY <1>1 DEF AcknowledgeReset, Tables
  <1>3. row \in Row /\ row.user = replica[s.rep].user /\ row.epoch = replica[s.rep].epoch
        /\ row.cred = replica[s.rep].cred
    BY <1>1 DEF Row
  <1> HIDE DEF row
  <1>4. Tables'
    BY <1>1, <1>2, <1>3 DEF Tables
  <1>5. \A t \in Sessions : Held(replica, t) => Held(replica', t)
    BY <1>1, <1>2, <1>3, Present DEF Held, Tables, Sessions
  <1>6. QED
    BY <1>4, <1>5 DEF Holding

\* A reset leads to the new session, whether it was the first request or not.
LEMMA ResetHolds ==
    ASSUME Tables, NEW s \in Sessions, NEW q \in Nat, ResetReplica(Me, s, q)
    PROVE  /\ Tables' /\ Replayable(replica', s, q)
           /\ ResetSession(s, q) \in Sessions /\ Held(replica', ResetSession(s, q))
  <1> DEFINE row == Rotated(s, q)
  <1>0. ResetSession(s, q) \in Sessions
    BY DEF ResetSession, Session, Sessions, RotatedCredential, Secrets
  <1>1. UNCHANGED <<challenge, nextSeq, now>> /\ s.rep \in Replicas
    BY DEF ResetReplica, Sessions
  <1>2. CASE Replayable(replica, s, q)
    <2>1. replica' = replica
      BY <1>2, HeldIs DEF ResetReplica
    <2>2. Held(replica, ResetSession(s, q))
      BY <1>2 DEF Replayable, Held, ResetSession, Session
    <2>3. QED
      BY <1>0, <1>1, <1>2, <2>1, <2>2 DEF Tables
  <1>3. CASE ~Replayable(replica, s, q)
    <2>1. Held(replica, s) /\ replica' = [replica EXCEPT ![s.rep] = row]
      BY <1>3, HeldIs DEF ResetReplica, ResetAnswer
    <2>2. replica[s.rep] \in Row
      BY <1>1, <2>1 DEF Held, Tables
    <2>3. /\ row \in Row /\ row.user = Me /\ row.epoch = s.epoch + 1 /\ row.staged = q /\ row.prevCred = s.cred
          /\ row.cred = RotatedCredential(s.rep, q, s.epoch + 1)
      <3>1. /\ s.epoch + 1 \in Nat /\ RotatedCredential(s.rep, q, s.epoch + 1) \in Secrets
            /\ replica[s.rep].cred \in Secrets /\ Never \in Int /\ q \in Nat
        BY <2>2 DEF Row, Sessions, RotatedCredential, Secrets, Never
      <3>2. row \in Row /\ row.user = replica[s.rep].user /\ row.epoch = s.epoch + 1 /\ row.staged = q
            /\ row.prevCred = replica[s.rep].cred /\ row.cred = RotatedCredential(s.rep, q, s.epoch + 1)
        BY <2>2, <3>1 DEF Rotated, Row
      <3>3. QED
        BY <2>1, <3>2 DEF Held
    <2> HIDE DEF row
    <2>4. replica'[s.rep] = row /\ row # None
      BY <1>1, <2>1, <2>3, Present DEF Tables
    <2>5. Tables'
      BY <1>1, <2>1, <2>3 DEF Tables
    <2>6. QED
      BY <1>0, <2>3, <2>4, <2>5 DEF Replayable, Held, ResetSession, Session
  <1>4. QED
    BY <1>2, <1>3

-----------------------------------------------------------------------------
(***************************************************************************)
(* The steps of the client keep its sessions held.                         *)
(***************************************************************************)
LEMMA InitSessionInv == Init => SessionInv
  <1> SUFFICES ASSUME Init PROVE SessionInv
    OBVIOUS
  <1>1. Tables
    BY DEF Init, ServerInit, Tables
  <1>2. Files
    BY DEF Init, Files
  <1>3. SessionsHeld
    BY DEF Init, SessionsHeld, WithoutReset
  <1>4. QED
    BY <1>1, <1>2, <1>3 DEF SessionInv

\* A step of another thread, or of the server for itself.
LEMMA QuietStep ==
    ASSUME SessionInv, UNCHANGED <<replica, challenge, sess, msess, rst, pc, mode, resets, quar>>,
           nextSeq' \in Nat, now' \in Nat
    PROVE  SessionInv'
  BY DEF SessionInv, Tables, Files, SessionsHeld, WithoutReset, WhileQuarantined, WhileStaged, WhileCleared

\* What the server keeps for the phase of the reset file.
Kept ==
    /\ Tables'
    /\ rst = None \/ rst.phase # "quarantined" => Holding
    /\ rst # None /\ rst.phase = "quarantined" => Held(replica', sess) \/ Replayable(replica', sess, rst.q)

\* A step that leaves the server's rows about replicas alone keeps them.
LEMMA KeptUnchanged ==
    ASSUME SessionInv, UNCHANGED <<replica, challenge, nextSeq, now>>
    PROVE  Kept
  BY DEF Kept, Holding, SessionInv, Tables, SessionsHeld, WhileQuarantined

\* Outside a rotation, what is kept is that held sessions stay held.
LEMMA KeptHolding ==
    ASSUME SessionInv, Holding, rst = None \/ rst.phase # "quarantined"
    PROVE  Kept
  BY DEF Kept, Holding

\* The session of a staged reset file is one.
LEMMA StagedSession ==
    ASSUME SessionInv, rst # None, rst.phase = "session_staged"
    PROVE  rst.new \in Sessions
  BY Present DEF SessionsHeld, SessionInv, WhileStaged, Files, ResetFile, ResetSession, Session, Sessions,
     RotatedCredential, Secrets

\* The process ends.
LEMMA DownStep ==
    ASSUME SessionInv, Kept, Down, UNCHANGED <<sess, rst, resets, quar>>
    PROVE  SessionInv'
  <1>1. Tables'
    BY DEF Kept
  <1>2. pc' = "closed" /\ msess' = None /\ mode' = "opening"
    BY DEF Down
  <1>3. Files'
    BY <1>2 DEF Files, SessionInv
  <1>4. SessionsHeld'
    <2>1. CASE rst = None
      BY <1>2, <2>1 DEF SessionsHeld, SessionInv, WithoutReset, Kept, Holding, Files
    <2>2. CASE rst # None /\ rst.phase = "quarantined"
      BY <1>2, <2>2 DEF SessionsHeld, SessionInv, WhileQuarantined, Kept, Files
    <2>3. CASE rst # None /\ rst.phase = "session_staged"
      BY <1>2, <2>3, StagedSession DEF SessionsHeld, SessionInv, WhileStaged, Kept, Holding
    <2>4. CASE rst # None /\ rst.phase = "cleared"
      BY <1>2, <2>4 DEF SessionsHeld, SessionInv, WhileCleared, Kept, Holding, Files
    <2>5. QED
      BY <2>1, <2>2, <2>3, <2>4 DEF SessionsHeld
  <1>5. QED
    BY <1>1, <1>3, <1>4 DEF SessionInv

\* The process ends, or a reset gives the gate back.
LEMMA GiveUpStep ==
    ASSUME SessionInv, Kept, Down \/ (mode # "opening" /\ pc' = "idle" /\ mode' = mode /\ msess' = msess),
           UNCHANGED <<sess, rst, resets, quar>>,
           pc \in {"snapshot", "quarantine", "reset", "confirm", "challenge", "connect", "observe", "finalize"}
    PROVE  SessionInv'
  <1>1. CASE Down
    BY <1>1, DownStep
  <1>2. CASE mode # "opening" /\ pc' = "idle" /\ mode' = mode /\ msess' = msess
    <2>1. Tables'
      BY DEF Kept
    <2>2. Files'
      BY <1>2 DEF Files, SessionInv
    <2>3. SessionsHeld'
      <3>1. CASE rst = None
        BY <1>2, <3>1 DEF SessionsHeld, SessionInv, WithoutReset, Kept, Holding, Files
      <3>2. CASE rst # None /\ rst.phase = "quarantined"
        BY <1>2, <3>2 DEF SessionsHeld, SessionInv, WhileQuarantined, Kept, Files
      <3>3. CASE rst # None /\ rst.phase = "session_staged"
        BY <1>2, <3>3, StagedSession DEF SessionsHeld, SessionInv, WhileStaged, Kept, Holding
      <3>4. CASE rst # None /\ rst.phase = "cleared"
        BY <1>2, <3>4 DEF SessionsHeld, SessionInv, WhileCleared, Kept, Holding, Files
      <3>5. QED
        BY <3>1, <3>2, <3>3, <3>4 DEF SessionsHeld
    <2>4. QED
      BY <2>1, <2>2, <2>3 DEF SessionInv
  <1>3. QED
    BY <1>1, <1>2

\* An exception in a step that may fail.
LEMMA FailStep ==
    ASSUME SessionInv, Kept, Fail, UNCHANGED <<sess, rst, resets, quar>>,
           pc \in {"snapshot", "quarantine", "reset", "confirm", "challenge", "connect", "observe", "finalize"}
    PROVE  SessionInv'
  BY GiveUpStep DEF Fail, Goto

\* openSpikeClient resumes where the reset file says.
LEMMA OpenSession ==
    ASSUME SessionInv, Open
    PROVE  SessionInv'
  <1>1. /\ pc = "closed" /\ mode' = "opening"
        /\ UNCHANGED <<replica, challenge, nextSeq, now, sess, rst, resets, quar>>
        /\ IF sess = None THEN pc' = "register" /\ msess' = None ELSE pc' = ResumeAt /\ msess' = sess
    BY DEF Open, Goto, serverVars, durable, counters
  <1>2. Tables' /\ Files'
    BY <1>1 DEF SessionInv, Tables, Files, ResumeAt, ResetFile
  <1>3. SessionsHeld'
    <2>1. CASE rst = None
      BY <1>1, <2>1 DEF SessionInv, SessionsHeld, WithoutReset, ResumeAt
    <2>2. CASE rst # None /\ rst.phase = "quarantined"
      BY <1>1, <2>2, Present DEF SessionInv, SessionsHeld, WhileQuarantined, ResumeAt, Files, ResetFile
    <2>3. CASE rst # None /\ rst.phase = "session_staged"
      <3>1. sess # None
        BY <2>3, StagedSession, Present DEF SessionInv, SessionsHeld, WhileStaged, Files, ResetFile
      <3>2. QED
        BY <1>1, <2>3, <3>1 DEF SessionInv, SessionsHeld, WhileStaged, ResumeAt
    <2>4. CASE rst # None /\ rst.phase = "cleared"
      BY <1>1, <2>4 DEF SessionInv, SessionsHeld, WhileCleared, ResumeAt
    <2>5. QED
      BY <1>1, <2>1, <2>2, <2>3, <2>4 DEF SessionsHeld
  <1>4. QED
    BY <1>2, <1>3 DEF SessionInv

\* A first registration is stored before anything else happens.
LEMMA RegisterSession ==
    ASSUME SessionInv, Register
    PROVE  SessionInv'
  <1>1. pc = "register" /\ rst = None /\ sess = None /\ UNCHANGED <<sess, rst, resets, quar>>
    BY DEF Register, SessionInv, SessionsHeld, WithoutReset, WhileQuarantined, WhileStaged, WhileCleared, Files,
       ResetFile, durable, Rest
  <1>2. CASE Down /\ UNCHANGED serverVars
    BY <1>1, <1>2, KeptUnchanged, DownStep DEF serverVars
  <1>3. ASSUME NEW r \in Replicas, RegisterReplica(Me, r), Down PROVE SessionInv'
    BY <1>1, <1>3, RegisterHolds, KeptHolding, DownStep DEF SessionInv
  <1>4. ASSUME NEW r \in Replicas, RegisterReplica(Me, r), Step("challenge"),
               msess' = Session(r, 1, RegisteredCredential(r))
        PROVE  SessionInv'
    <2>1. Holding /\ msess' \in Sessions /\ Held(replica', msess')
      BY <1>4, RegisterHolds DEF SessionInv
    <2>2. mode = "opening" /\ mode' = mode /\ pc' = "challenge"
      BY <1>1, <1>4 DEF Step, Goto, SessionInv, SessionsHeld, WithoutReset
    <2>3. Tables' /\ Files'
      BY <1>1, <2>1, <2>2 DEF SessionInv, Files, Holding
    <2>4. WithoutReset'
      BY <1>1, <2>1, <2>2, Present DEF WithoutReset
    <2>5. QED
      BY <1>1, <2>3, <2>4 DEF SessionInv, SessionsHeld
  <1>5. QED
    BY <1>2, <1>3, <1>4 DEF Register

\* A crash leaves the files alone.
LEMMA CrashSession ==
    ASSUME SessionInv, Crash
    PROVE  SessionInv'
  BY KeptUnchanged, DownStep DEF Crash, serverVars, durable

\* A reset begins, or is refused: it writes neither session nor reset file.
LEMMA StartResetSession ==
    ASSUME SessionInv, StartReset
    PROVE  SessionInv'
  <1>1. pc = "idle" /\ UNCHANGED <<replica, challenge, nextSeq, now, rst, resets, quar>>
    BY DEF StartReset, serverVars, counters
  <1>2. CASE rst = None
    <2>1. pc' = "snapshot" /\ sess' = sess /\ msess' = msess
      BY <1>2 DEF StartReset, Goto
    <2>2. QED
      BY <1>1, <1>2, <2>1 DEF SessionInv, Tables, Files, SessionsHeld, WithoutReset
  <1>3. CASE rst # None /\ rst.phase = "quarantined"
    <2>1. pc' = "reset" /\ sess' = sess /\ msess' = msess
      BY <1>3 DEF StartReset, Goto
    <2>2. QED
      BY <1>1, <1>3, <2>1 DEF SessionInv, Tables, Files, SessionsHeld, WhileQuarantined
  <1>4. CASE rst # None /\ rst.phase = "session_staged"
    <2>1. pc' = "confirm" /\ sess' = sess /\ msess' = msess
      BY <1>4 DEF StartReset, Goto
    <2>2. QED
      BY <1>1, <1>4, <2>1 DEF SessionInv, Tables, Files, SessionsHeld, WhileStaged
  <1>5. CASE rst # None /\ rst.phase = "cleared"
    <2>1. pc' = "challenge" /\ sess' = rst.new /\ msess' = rst.new
      BY <1>5 DEF StartReset, Goto
    <2>2. QED
      BY <1>1, <1>5, <2>1 DEF SessionInv, Tables, Files, SessionsHeld, WhileCleared
  <1>6. QED
    BY <1>2, <1>3, <1>4, <1>5 DEF StartReset

\* From the first reading of the queue to the quarantine file.
LEMMA SnapshotSession ==
    ASSUME SessionInv, Snapshot \/ Disconnect \/ Quarantine
    PROVE  SessionInv'
  <1>0. UNCHANGED <<replica, challenge, nextSeq, now, sess, rst, resets>>
    BY DEF Snapshot, Disconnect, Quarantine, serverVars, durable, Rest
  <1>1. pc \in {"snapshot", "disconnect", "quarantine"} /\ rst = None
    BY DEF Snapshot, Disconnect, Quarantine, SessionInv, SessionsHeld, WhileQuarantined, WhileStaged, WhileCleared,
       Files, ResetFile
  <1>2. CASE Fail /\ quar' = quar /\ pc \in {"snapshot", "quarantine"}
    BY <1>0, <1>2, KeptUnchanged, FailStep
  <1>3. CASE /\ pc' \in {"disconnect", "quarantine", "begin"} /\ msess' = msess
             /\ DOMAIN quar' = DOMAIN quar /\ (pc' = "begin" => quar'.here)
    BY <1>0, <1>1, <1>3 DEF SessionInv, Tables, Files, SessionsHeld, WithoutReset
  <1>4. QED
    <2>1. CASE Snapshot
      BY <1>2, <1>3, <2>1 DEF Snapshot, Goto, durable
    <2>2. CASE Disconnect
      BY <1>3, <2>2 DEF Disconnect, Step, Goto, durable
    <2>3. CASE Quarantine
      <3>1. CASE Fail /\ quar' = quar
        BY <1>2, <2>3, <3>1 DEF Quarantine
      <3>2. CASE \E x : quar' = [quar EXCEPT !.here = TRUE, !.pend = x] /\ Step("begin") /\ msess' = msess
        <4>1. DOMAIN quar' = DOMAIN quar /\ quar'.here
          BY <3>2 DEF SessionInv, Files
        <4>2. QED
          BY <1>3, <3>2, <4>1 DEF Step, Goto
      <3>3. QED
        BY <2>3, <3>1, <3>2 DEF Quarantine
    <2>4. QED
      BY <2>1, <2>2, <2>3

\* The reset file names the session that is stored and a new request.
LEMMA BeginSession ==
    ASSUME SessionInv, Begin
    PROVE  SessionInv'
  <1>1. /\ pc = "begin" /\ pc' = "reset" /\ resets' = resets + 1
        /\ rst' = [phase |-> "quarantined", q |-> resets + 1, old |-> msess, new |-> None]
        /\ UNCHANGED <<replica, challenge, nextSeq, now, sess, msess, quar>>
    BY DEF Begin, Step, Goto, serverVars
  <1>2. rst = None /\ sess = msess /\ sess \in Sessions /\ Held(replica, sess)
    BY <1>1 DEF SessionInv, SessionsHeld, WithoutReset, WhileQuarantined, WhileStaged, WhileCleared, Files, ResetFile
  <1>3. rst' \in ResetFile /\ rst' # None /\ rst'.phase = "quarantined" /\ rst'.old = msess /\ rst'.new = None
    BY <1>1, <1>2, Present DEF ResetFile, SessionInv, Files
  <1>4. Tables' /\ Files'
    BY <1>1, <1>2, <1>3 DEF SessionInv, Tables, Files
  <1>5. WhileQuarantined'
    BY <1>1, <1>2, <1>3 DEF WhileQuarantined
  <1>6. QED
    BY <1>3, <1>4, <1>5 DEF SessionInv, SessionsHeld

\* The rotation: the answer is staged on disk, or lost and asked for again.
LEMMA RequestResetSession ==
    ASSUME SessionInv, RequestReset
    PROVE  SessionInv'
  <1>1. /\ pc = "reset" /\ rst # None /\ rst.phase = "quarantined" /\ rst.old = sess /\ sess \in Sessions /\ rst.q \in Nat
        /\ UNCHANGED <<sess, resets, quar>>
    BY DEF RequestReset, SessionInv, SessionsHeld, WithoutReset, WhileQuarantined, WhileStaged, WhileCleared, Files,
       ResetFile, Rest
  <1>2. CASE Fail /\ UNCHANGED <<serverVars, rst>>
    BY <1>1, <1>2, KeptUnchanged, FailStep DEF serverVars
  <1>3. CASE ResetReplica(Me, rst.old, rst.q) /\ Fail /\ rst' = rst
    <2>1. Tables' /\ Replayable(replica', sess, rst.q)
      BY <1>1, <1>3, ResetHolds DEF SessionInv
    <2>2. Kept
      BY <1>1, <2>1 DEF Kept
    <2>3. QED
      BY <1>1, <1>3, <2>2, FailStep
  <1>4. CASE /\ ResetReplica(Me, rst.old, rst.q)
             /\ rst' = [rst EXCEPT !.phase = "session_staged", !.new = ResetSession(rst.old, rst.q)]
             /\ Step("adopt") /\ msess' = msess
    <2>1. Tables' /\ ResetSession(rst.old, rst.q) \in Sessions /\ Held(replica', ResetSession(rst.old, rst.q))
      BY <1>1, <1>4, ResetHolds DEF SessionInv
    <2>2. /\ rst' \in ResetFile /\ rst'.phase = "session_staged" /\ rst'.new = ResetSession(rst.old, rst.q)
          /\ rst'.old = rst.old /\ rst'.q = rst.q
      BY <1>1, <1>4, <2>1 DEF ResetFile, SessionInv, Files
    <2>3. pc' = "adopt" /\ rst' # None
      BY <1>4, <2>2, Present DEF Step, Goto
    <2>4. Files'
      BY <1>1, <1>4, <2>2, <2>3 DEF SessionInv, Files
    <2>5. WhileStaged'
      BY <1>1, <2>1, <2>2, <2>3 DEF WhileStaged
    <2>6. QED
      BY <2>1, <2>2, <2>3, <2>4, <2>5 DEF SessionInv, SessionsHeld
  <1>5. QED
    BY <1>2, <1>3, <1>4 DEF RequestReset

\* Where the reset file says what the step does.
LEMMA StagedSteps ==
    ASSUME SessionInv, Adopt \/ ClearDatabase \/ ClearOverlays \/ Cleared
    PROVE  SessionInv'
  <1>1. /\ pc \in {"adopt", "clear", "clear_overlays", "cleared"}
        /\ UNCHANGED <<replica, challenge, nextSeq, now, resets, msess, quar>>
    BY DEF Adopt, ClearDatabase, ClearOverlays, Cleared, serverVars, Rest
  <1>2. rst # None /\ rst.phase = "session_staged"
    BY <1>1 DEF SessionInv, SessionsHeld, WithoutReset, WhileQuarantined, WhileCleared, Files, ResetFile
  <1>3. rst.new \in Sessions
    BY <1>2, StagedSession
  <1>4. CASE /\ sess' = rst.new /\ rst' = rst
             /\ pc' \in {"confirm", "clear_overlays", "cleared"} /\ (pc' # "confirm" => msess = rst.new)
    BY <1>1, <1>2, <1>3, <1>4 DEF SessionInv, Tables, Files, SessionsHeld, WhileStaged
  <1>5. CASE Adopt
    BY <1>4, <1>5 DEF Adopt, Step, Goto
  <1>6. CASE ClearDatabase \/ ClearOverlays
    <2>1. sess' = sess /\ rst' = rst /\ sess = rst.new /\ msess = rst.new /\ pc' \in {"clear_overlays", "cleared"}
      BY <1>2, <1>6 DEF ClearDatabase, ClearOverlays, Step, Goto, SessionInv, SessionsHeld, WhileStaged
    <2>2. QED
      BY <1>4, <2>1
  <1>7. CASE Cleared
    <2>1. /\ pc' = "challenge" /\ sess' = sess /\ sess = rst.new /\ msess = rst.new /\ Held(replica, sess)
          /\ rst' = [rst EXCEPT !.phase = "cleared"] /\ rst.new = ResetSession(rst.old, rst.q)
      BY <1>2, <1>7 DEF Cleared, Step, Goto, SessionInv, SessionsHeld, WhileStaged
    <2>2. rst' \in ResetFile /\ rst'.phase = "cleared" /\ rst'.new = rst.new /\ rst'.old = rst.old /\ rst'.q = rst.q
          /\ rst' # None
      BY <1>2, <2>1, Present DEF ResetFile, SessionInv, Files
    <2>3. Tables' /\ Files'
      BY <1>1, <1>2, <2>1, <2>2 DEF SessionInv, Tables, Files
    <2>4. WhileCleared'
      BY <1>1, <1>3, <2>1, <2>2, Present DEF WhileCleared
    <2>5. QED
      BY <2>2, <2>3, <2>4 DEF SessionInv, SessionsHeld
  <1>8. QED
    BY <1>5, <1>6, <1>7

\* The rotation is confirmed with the new session, and may be again.
LEMMA ConfirmSession ==
    ASSUME SessionInv, Confirm
    PROVE  SessionInv'
  <1>1. /\ pc = "confirm" /\ UNCHANGED <<sess, rst, resets, quar>>
    BY DEF Confirm, durable, Rest
  <1>2. rst # None /\ rst.phase = "session_staged" /\ rst.q \in Nat /\ rst.new \in Sessions /\ sess = rst.new
    BY <1>1, StagedSession DEF SessionInv, SessionsHeld, WithoutReset, WhileQuarantined, WhileStaged, WhileCleared,
       Files, ResetFile
  <1>3. CASE Fail /\ UNCHANGED serverVars
    BY <1>1, <1>3, KeptUnchanged, FailStep DEF serverVars
  <1>4. CASE AcknowledgeReset(Me, rst.new, rst.q) /\ Fail
    BY <1>1, <1>2, <1>4, ConfirmHolds, KeptHolding, FailStep DEF SessionInv
  <1>5. CASE AcknowledgeReset(Me, rst.new, rst.q) /\ msess' = rst.new /\ Step("clear")
    <2>1. Holding /\ pc' = "clear"
      BY <1>2, <1>5, ConfirmHolds DEF SessionInv, Step, Goto
    <2>2. Held(replica', rst.new)
      BY <1>2, <2>1 DEF Holding, SessionInv, SessionsHeld, WhileStaged
    <2>3. Tables' /\ Files'
      BY <1>1, <1>2, <1>5, <2>1 DEF SessionInv, Files, Holding
    <2>4. WhileStaged'
      BY <1>1, <1>2, <1>5, <2>1, <2>2 DEF WhileStaged, SessionInv, SessionsHeld
    <2>5. QED
      BY <1>1, <1>2, <2>3, <2>4 DEF SessionInv, SessionsHeld
  <1>6. QED
    BY <1>3, <1>4, <1>5 DEF Confirm

\* The client connects, in an opening without a reset or after a reset.
Connecting == pc \in {"challenge", "connect", "observe"}

\* While the client connects it has a session that the server accepts, and no
\* reset is open that has not cleared the database.
LEMMA ConnectingSession ==
    ASSUME SessionInv, Connecting
    PROVE  msess \in Sessions /\ Held(replica, msess) /\ (rst = None \/ rst.phase = "cleared")
  BY DEF Connecting, SessionInv, SessionsHeld, WithoutReset, WhileQuarantined, WhileStaged, WhileCleared, Files, ResetFile

\* A step of connecting: to the next one, or to its end with the session it
\* used.
LEMMA ConnectedStep ==
    ASSUME SessionInv, Connecting, Holding, UNCHANGED <<msess, rst, resets, mode, quar>>,
           \/ sess' = sess /\ pc' \in {"connect", "observe"}
           \/ sess' = msess /\ pc' = IF rst = None THEN "idle" ELSE "finalize"
    PROVE  SessionInv'
  <1>1. msess \in Sessions /\ Held(replica', msess)
    BY ConnectingSession DEF Holding
  <1>2. Tables' /\ Files'
    BY DEF Holding, Files, SessionInv
  <1>3. CASE rst = None
    <2>1. WithoutReset'
      BY <1>1, <1>3 DEF SessionInv, SessionsHeld, WithoutReset, Connecting
    <2>2. QED
      BY <1>2, <1>3, <2>1 DEF SessionInv, SessionsHeld
  <1>4. CASE rst # None
    <2>1. rst.phase = "cleared" /\ WhileCleared
      BY <1>4, ConnectingSession DEF SessionInv, SessionsHeld
    <2>2. WhileCleared'
      BY <1>1, <1>4, <2>1 DEF WhileCleared, Connecting
    <2>3. QED
      BY <1>2, <1>4, <2>1, <2>2 DEF SessionInv, SessionsHeld
  <1>5. QED
    BY <1>3, <1>4

\* Connecting leaves the sessions alone.
LEMMA ConnectSession ==
    ASSUME SessionInv, Challenge \/ Connect \/ Observe
    PROVE  SessionInv'
  <1>1. /\ Connecting /\ UNCHANGED <<rst, resets, quar>>
        /\ pc \in {"snapshot", "quarantine", "reset", "confirm", "challenge", "connect", "observe", "finalize"}
    BY DEF Connecting, Challenge, Connect, Observe, durable, Rest
  <1>2. msess \in Sessions /\ Held(replica, msess) /\ (rst = None \/ rst.phase = "cleared")
    BY <1>1, ConnectingSession
  <1>3. CASE Holding /\ Fail /\ sess' = sess
    BY <1>1, <1>2, <1>3, KeptHolding, FailStep
  <1>5. UNCHANGED serverVars => Holding
    BY DEF Holding, Tables, serverVars, SessionInv
  <1>6. CASE Challenge
    <2>1. IssueChallenge(Me, msess) => Holding
      BY <1>2, ChallengeHolds DEF SessionInv
    <2>2. CASE Fail
      BY <1>3, <1>5, <1>6, <2>1, <2>2 DEF Challenge, durable
    <2>3. CASE IssueChallenge(Me, msess) /\ Step("connect") /\ msess' = msess
      BY <1>1, <1>6, <2>1, <2>3, ConnectedStep DEF Challenge, Step, Goto, durable
    <2>4. QED
      BY <1>6, <2>2, <2>3 DEF Challenge
  <1>7. CASE Connect
    <2>1. Holding /\ sess' = sess
      BY <1>5, <1>7 DEF Connect, durable
    <2>2. CASE Down \/ (mode = "resetting" /\ pc' = "idle" /\ mode' = mode /\ msess' = msess)
      BY <1>1, <1>2, <2>1, <2>2, KeptHolding, GiveUpStep
    <2>3. CASE Step("observe") /\ msess' = msess
      BY <1>1, <2>1, <2>3, ConnectedStep DEF Step, Goto
    <2>4. QED
      BY <1>7, <2>2, <2>3 DEF Connect, Goto
  <1>8. CASE Observe
    <2>1. AcknowledgeChallenge(Me, msess) => Holding
      BY <1>2, AcknowledgeHolds DEF SessionInv
    <2>2. CASE Fail /\ sess' = sess
      BY <1>3, <1>5, <1>8, <2>1, <2>2 DEF Observe
    <2>3. CASE /\ AcknowledgeChallenge(Me, msess) /\ sess' = msess /\ msess' = msess
               /\ Step(IF rst = None THEN "idle" ELSE "finalize")
      BY <1>1, <2>1, <2>3, ConnectedStep DEF Step, Goto
    <2>4. QED
      BY <1>8, <2>2, <2>3 DEF Observe
  <1>9. QED
    BY <1>6, <1>7, <1>8

\* The end of a reset: the reset file goes when the new session is stored.
LEMMA FinishSession ==
    ASSUME SessionInv, Finalize \/ Unlink
    PROVE  SessionInv'
  <1>1. pc \in {"finalize", "unlink"} /\ UNCHANGED <<replica, challenge, nextSeq, now, sess, resets>>
    BY DEF Finalize, Unlink, serverVars, Rest
  <1>2. rst # None /\ rst.phase = "cleared" /\ msess = sess /\ sess \in Sessions /\ Held(replica, sess)
    BY <1>1 DEF SessionInv, SessionsHeld, WithoutReset, WhileQuarantined, WhileStaged, WhileCleared, Files, ResetFile
  <1>3. CASE Fail /\ quar' = quar /\ rst' = rst /\ pc = "finalize"
    BY <1>1, <1>3, KeptUnchanged, FailStep
  <1>4. CASE Finalize
    <2>1. rst' = rst
      BY <1>4 DEF Finalize
    <2>2. CASE \E x : quar' = [quar EXCEPT !.fin = x, !.pend = {}] /\ Step("unlink") /\ msess' = msess
      <3>1. DOMAIN quar' = DOMAIN quar /\ quar'.here = quar.here
        BY <2>2 DEF SessionInv, Files
      <3>2. pc' = "unlink"
        BY <2>2 DEF Step, Goto
      <3>3. QED
        BY <1>1, <1>2, <2>1, <2>2, <3>1, <3>2 DEF SessionInv, Tables, Files, SessionsHeld, WhileCleared
    <2>3. CASE Fail /\ quar' = quar
      BY <1>3, <1>4, <2>1, <2>3 DEF Finalize
    <2>4. QED
      BY <1>4, <2>2, <2>3 DEF Finalize
  <1>5. CASE Unlink
    <2>1. rst' = None /\ pc' = "idle" /\ msess' = msess /\ quar' = quar
      BY <1>5 DEF Unlink, Step, Goto
    <2>2. QED
      BY <1>1, <1>2, <2>1, Present DEF SessionInv, Tables, Files, SessionsHeld, WithoutReset
  <1>6. QED
    BY <1>4, <1>5

\* The application's calls start and end at rest.
LEMMA ApplicationSession ==
    ASSUME SessionInv,
           Enqueue \/ \E id \in Ids : AddOverlay(id) \/ AcknowledgeResult(id) \/ Discard(id)
    PROVE  SessionInv'
  <1>1. /\ UNCHANGED <<replica, challenge, nextSeq, now, sess, msess, rst, resets>>
        /\ pc \in {"idle", "enqueue"} /\ pc' \in {"idle", "enqueue"} /\ mode' = mode
    BY DEF Enqueue, AddOverlay, AcknowledgeResult, Discard, Goto, Rest, serverVars, process, counters
  <1>2. DOMAIN quar' = DOMAIN quar /\ quar'.here = quar.here
    BY DEF Enqueue, AddOverlay, AcknowledgeResult, Discard, Files, SessionInv
  <1>3. Tables' /\ Files'
    BY <1>1, <1>2 DEF SessionInv, Tables, Files
  <1>4. SessionsHeld'
    BY <1>1 DEF SessionInv, SessionsHeld, WithoutReset, WhileQuarantined, WhileStaged, WhileCleared
  <1>5. QED
    BY <1>3, <1>4 DEF SessionInv

\* The upload, the server and its environment.
LEMMA OtherSession ==
    ASSUME SessionInv,
           \/ Upload \/ UploadLost \/ Environment
           \/ \E q \in wire : Serve(q) \/ DropAnswer(q)
           \/ \E x \in Resources : Revoke(x)
    PROVE  SessionInv'
  <1>0. nextSeq \in Nat /\ now \in Nat
    BY DEF SessionInv, Tables
  <1> USE DEF serverVars, process, durable, clientVars, UploadRest
  <1>1. CASE Upload
    BY <1>0, <1>1, QuietStep DEF Upload, StartUpload, SendCommand, PersistResult, CompleteTransaction, MarkCompleted,
       UploadAnswered
  <1>2. CASE UploadLost
    BY <1>0, <1>2, QuietStep DEF UploadLost
  <1>3. CASE Environment
    BY <1>0, <1>3, QuietStep DEF Environment, Tick, RunRetention
  <1>4. ASSUME NEW q \in wire, Serve(q) \/ DropAnswer(q) PROVE SessionInv'
    <2>1. UNCHANGED clientVars
      BY <1>4 DEF Serve, DropAnswer
    <2>2. UNCHANGED <<replica, challenge, now>> /\ (nextSeq' = nextSeq \/ nextSeq' = nextSeq + 1)
      <3>1. CASE DropAnswer(q)
        BY <3>1 DEF DropAnswer
      <3>2. CASE AdmitCommand(q)
        BY <3>2 DEF AdmitCommand
      <3>3. CASE ExecuteCommand(q)
        <4>1. ApplyToResource(q) \/ UNCHANGED <<resource, grave, nextSeq, events>>
          BY <3>3 DEF ExecuteCommand
        <4>2. QED
          BY <3>3, <4>1 DEF ExecuteCommand, ApplyToResource
      <3>4. QED
        BY <1>4, <3>1, <3>2, <3>3 DEF Serve
    <2>3. nextSeq' \in Nat /\ now' \in Nat
      BY <1>0, <2>2
    <2>4. QED
      BY <2>1, <2>2, <2>3, QuietStep
  <1>5. ASSUME NEW x \in Resources, Revoke(x) PROVE SessionInv'
    BY <1>0, <1>5, QuietStep DEF Revoke, ChangeMembership
  <1>6. QED
    BY <1>1, <1>2, <1>3, <1>4, <1>5

\* Every step keeps the sessions.
LEMMA NextSessionInv == SessionInv /\ [Next]_vars => SessionInv'
  <1> SUFFICES ASSUME SessionInv, [Next]_vars PROVE SessionInv'
    OBVIOUS
  <1>1. CASE UNCHANGED vars
    BY <1>1, QuietStep DEF vars, serverVars, durable, process, counters, SessionInv, Tables
  <1>2. CASE Next
    BY <1>2, OpenSession, RegisterSession, CrashSession, StartResetSession, SnapshotSession, BeginSession,
       RequestResetSession, StagedSteps, ConfirmSession, ConnectSession, FinishSession, ApplicationSession,
       OtherSession DEF Next, ResetSteps
  <1>3. QED
    BY <1>1, <1>2

\* In every state the server holds the session that the client has on disk, or
\* the one that its reset file leads to.
THEOREM ClientSessionsHeld == Spec => []SessionInv
  BY InitSessionInv, NextSessionInv, PTL DEF Spec

-----------------------------------------------------------------------------
(***************************************************************************)
(* The client's stores, and their capacity.                                *)
(***************************************************************************)

\* What the SDK has queued was accepted, once, and has an overlay or a result;
\* a result that may be acknowledged is of a command that has left the queue.
Queued ==
    /\ queue \in Seq(Ids)
    /\ \A i, j \in 1..Len(queue) : queue[i] = queue[j] => i = j
    /\ accepted \subseteq Ids /\ ToSet(queue) \subseteq accepted
    /\ ToSet(queue) \subseteq overlay \union DOMAIN results
    /\ overlay \subseteq Ids
    /\ DOMAIN results \subseteq accepted
    /\ \A id \in DOMAIN results : results[id].done => id \notin ToSet(queue)
    /\ pc = "enqueue" => cur \in overlay \ accepted
    /\ pc = "clear_overlays" => queue = <<>>

\* The upload callback runs only while the SDK is connected, works on the head
\* of the queue, and the SDK is not connected while the server rotates.
Uploading ==
    /\ DOMAIN up = {"pc", "id", "n", "result"} /\ up.pc \in {"idle", "wait", "persist", "complete", "mark"}
    /\ up.pc # "idle" => link = "on"
    /\ up.pc \in {"wait", "persist", "complete"} => queue # <<>> /\ up.id = Head(queue)
    /\ up.pc = "complete" => HasResult(up.id)
    /\ up.pc = "mark" => up.id \in accepted \ ToSet(queue)
    /\ pc \in {"closed", "quarantine", "begin"} => link # "on"
    /\ rst # None /\ rst.phase \in {"quarantined", "session_staged"} => link # "on"

\* The quarantine is finite, and of commands there are.
InQuarantine ==
    /\ IsFiniteSet(quar.fin) /\ IsFiniteSet(quar.pend)
    /\ FinalIds \subseteq Ids /\ PendingIds \subseteq Ids
    /\ pc \in {"disconnect", "quarantine"} => cur \subseteq Ids

\* Commands and quarantine entries within the capacity.
Fits(A, F) ==
    /\ Cardinality(A) + Cardinality(F) <= MaxOutstanding
    /\ SumOver(A, Reserved) + SumOver({f.id : f \in F}, QuarantineReserved) <= MaxBytes

\* A reset that cleared the overlays finds only later ones when it ends, and
\* all but the commands that were queued during a reset fit.
Waiting ==
    /\ pc = "cleared" \/ (rst # None /\ rst.phase = "cleared") => overlay \subseteq exposed
    /\ Fits((overlay \union DOMAIN results) \ exposed, quar.fin)

\* Second part of the client's invariant: its stores and their capacity.
StoresInv == Queued /\ Uploading /\ InQuarantine /\ Waiting

\* Sums of reserved bytes: finite, monotone, and at most additive.
LEMMA IdsFinite == IsFiniteSet(Ids)
  <1>1. \E f : f \in Surjection(CommandContents, Ids)
    <2> DEFINE f == [c \in CommandContents |-> c.id]
    <2>1. f \in Surjection(CommandContents, Ids)
      BY DEF Surjection, Ids
    <2>2. QED
      BY <2>1
  <1>2. QED
    BY <1>1, CapacityAssumption, FS_Surjection

\* An interval from 1 has as many elements as its end says.
LEMMA IntervalSize ==
    ASSUME NEW n \in Nat
    PROVE  IsFiniteSet(1..n) /\ Cardinality(1..n) = n
  <1>1. 1 \in Int /\ n \in Int
    OBVIOUS
  <1>2. IsFiniteSet(1..n) /\ Cardinality(1..n) = IF 1 > n THEN 0 ELSE n - 1 + 1
    BY <1>1, FS_Interval
  <1>3. QED
    BY <1>2

\* Two disjoint finite sets.
LEMMA UnionSize ==
    ASSUME NEW S, IsFiniteSet(S), NEW T, IsFiniteSet(T)
    PROVE  /\ IsFiniteSet(S \union T)
           /\ Cardinality(S \union T) <= Cardinality(S) + Cardinality(T)
  <1>1. IsFiniteSet(S \intersect T)
    <2>1. S \intersect T \subseteq S
      OBVIOUS
    <2>2. QED
      BY <2>1, FS_Subset
  <1>2. Cardinality(S \intersect T) \in Nat /\ Cardinality(S) \in Nat /\ Cardinality(T) \in Nat
    BY <1>1, FS_CardinalityType
  <1>3. /\ IsFiniteSet(S \union T)
        /\ Cardinality(S \union T) = Cardinality(S) + Cardinality(T) - Cardinality(S \intersect T)
    BY FS_Union
  <1>4. QED
    BY <1>2, <1>3

\* Sums over finite sets of commands are numbers.
LEMMA SumFacts ==
    ASSUME NEW f \in [Ids -> Nat], NEW S \in SUBSET Ids
    PROVE  IsFiniteSet(BytesOf(S, f)) /\ SumOver(S, f) \in Nat
  <1>1. IsFiniteSet(S)
    BY IdsFinite, FS_Subset
  <1> DEFINE parts == {{id} \X (1..f[id]) : id \in S}
  <1>2. IsFiniteSet(parts)
    <2> DEFINE g == [id \in S |-> {id} \X (1..f[id])]
    <2>1. g \in Surjection(S, parts)
      BY DEF Surjection
    <2>2. QED
      BY <1>1, <2>1, FS_Surjection
  <1>3. \A p \in parts : IsFiniteSet(p)
    <2>1. \A id \in S : IsFiniteSet({id} \X (1..f[id]))
      <3> TAKE id \in S
      <3>1. f[id] \in Nat
        OBVIOUS
      <3>2. IsFiniteSet({id}) /\ IsFiniteSet(1..f[id])
        BY <3>1, FS_Singleton, IntervalSize
      <3>3. QED
        BY <3>2, FS_Product
    <2>2. QED
      BY <2>1
  <1>4. IsFiniteSet(UNION parts)
    BY <1>2, <1>3, FS_UNION
  <1>5. QED
    BY <1>4, FS_CardinalityType DEF BytesOf, SumOver

\* Fewer commands, fewer bytes.
LEMMA SumMonotone ==
    ASSUME NEW f \in [Ids -> Nat], NEW T \in SUBSET Ids, NEW S \in SUBSET T
    PROVE  SumOver(S, f) <= SumOver(T, f)
  <1>1. BytesOf(S, f) \subseteq BytesOf(T, f)
    BY DEF BytesOf
  <1>2. QED
    BY <1>1, SumFacts, FS_Subset DEF SumOver

\* The bytes of a union are at most those of its parts.
LEMMA SumUnion ==
    ASSUME NEW f \in [Ids -> Nat], NEW S \in SUBSET Ids, NEW T \in SUBSET Ids
    PROVE  SumOver(S \union T, f) <= SumOver(S, f) + SumOver(T, f)
  <1>1. BytesOf(S \union T, f) = BytesOf(S, f) \union BytesOf(T, f)
    BY DEF BytesOf
  <1>2. IsFiniteSet(BytesOf(S, f)) /\ IsFiniteSet(BytesOf(T, f))
    BY SumFacts
  <1>3. Cardinality(BytesOf(S, f) \union BytesOf(T, f))
          <= Cardinality(BytesOf(S, f)) + Cardinality(BytesOf(T, f))
    BY <1>2, UnionSize
  <1>4. QED
    BY <1>1, <1>3 DEF SumOver

\* The bytes of one command are what it has reserved.
LEMMA SumSingle ==
    ASSUME NEW f \in [Ids -> Nat], NEW id \in Ids
    PROVE  SumOver({id}, f) = f[id]
  <1>1. BytesOf({id}, f) = {id} \X (1..f[id])
    BY DEF BytesOf
  <1>2. f[id] \in Nat
    OBVIOUS
  <1>3. IsFiniteSet({id}) /\ Cardinality({id}) = 1 /\ IsFiniteSet(1..f[id]) /\ Cardinality(1..f[id]) = f[id]
    BY <1>2, FS_Singleton, IntervalSize
  <1>4. Cardinality({id} \X (1..f[id])) = f[id]
    <2>1. Cardinality({id} \X (1..f[id])) = Cardinality({id}) * Cardinality(1..f[id])
      BY <1>3, FS_Product
    <2>2. QED
      BY <1>2, <1>3, <2>1
  <1>5. QED
    BY <1>1, <1>4 DEF SumOver

\* What fits, fits with less.
LEMMA FitsLess ==
    ASSUME NEW B \in SUBSET Ids, NEW A \in SUBSET B, NEW G, IsFiniteSet(G), {f.id : f \in G} \subseteq Ids,
           NEW F \in SUBSET G, Fits(B, G)
    PROVE  Fits(A, F)
  <1>1. Cardinality(A) <= Cardinality(B) /\ Cardinality(A) \in Nat /\ Cardinality(B) \in Nat
    <2>1. IsFiniteSet(B)
      BY IdsFinite, FS_Subset
    <2>2. QED
      BY <2>1, FS_Subset, FS_CardinalityType
  <1>2. Cardinality(F) <= Cardinality(G) /\ Cardinality(F) \in Nat /\ Cardinality(G) \in Nat
    BY FS_Subset, FS_CardinalityType
  <1>3. SumOver(A, Reserved) <= SumOver(B, Reserved) /\ SumOver(A, Reserved) \in Nat /\ SumOver(B, Reserved) \in Nat
    BY SumMonotone, SumFacts, CapacityAssumption
  <1> DEFINE fi == {f.id : f \in F}
             gi == {f.id : f \in G}
  <1>4. fi \subseteq gi /\ gi \subseteq Ids
    OBVIOUS
  <1> HIDE DEF fi, gi
  <1>5. /\ SumOver(fi, QuarantineReserved) <= SumOver(gi, QuarantineReserved)
        /\ SumOver(fi, QuarantineReserved) \in Nat /\ SumOver(gi, QuarantineReserved) \in Nat
    BY <1>4, SumMonotone, SumFacts, CapacityAssumption
  <1>6. Cardinality(B) + Cardinality(G) <= MaxOutstanding
        /\ SumOver(B, Reserved) + SumOver(gi, QuarantineReserved) <= MaxBytes
    BY DEF Fits, gi
  <1>7. Cardinality(A) + Cardinality(F) <= MaxOutstanding
    BY <1>1, <1>2, <1>6, CapacityAssumption
  <1>8. SumOver(A, Reserved) + SumOver(fi, QuarantineReserved) <= MaxBytes
    BY <1>3, <1>5, <1>6, CapacityAssumption
  <1>9. QED
    BY <1>7, <1>8 DEF Fits, fi

\* A new command, and the end of a reset, within the capacity.
LEMMA FitsRoom ==
    ASSUME Queued, InQuarantine, NEW id \in Ids, RoomFor(id)
    PROVE  Fits(overlay \union {id} \union DOMAIN results, quar.fin)
  <1> DEFINE A == overlay \union DOMAIN results
  <1>1. A \subseteq Ids /\ Active = A
    BY DEF Queued, Active, HasResult
  <1> HIDE DEF A
  <1>2. /\ Cardinality(A) + Cardinality(quar.fin) + 1 <= MaxOutstanding
        /\ SumOver(A, Reserved) + SumOver(FinalIds, QuarantineReserved) + Reserved[id] <= MaxBytes
    BY <1>1 DEF RoomFor, UsedCount, UsedBytes
  <1>3. Cardinality(A \union {id}) <= Cardinality(A) + 1
        /\ Cardinality(A) \in Nat /\ Cardinality(A \union {id}) \in Nat /\ Cardinality(quar.fin) \in Nat
    <2>1. IsFiniteSet(A) /\ IsFiniteSet(A \union {id}) /\ IsFiniteSet({id}) /\ Cardinality({id}) = 1
      BY <1>1, IdsFinite, FS_Subset, FS_Singleton
    <2>2. Cardinality(A \union {id}) <= Cardinality(A) + Cardinality({id})
      BY <2>1, UnionSize
    <2>3. QED
      BY <2>1, <2>2, FS_CardinalityType DEF InQuarantine
  <1>4. SumOver(A \union {id}, Reserved) <= SumOver(A, Reserved) + Reserved[id]
        /\ SumOver(A, Reserved) \in Nat /\ SumOver(A \union {id}, Reserved) \in Nat /\ Reserved[id] \in Nat
        /\ SumOver(FinalIds, QuarantineReserved) \in Nat
    <2>1. SumOver(A \union {id}, Reserved) <= SumOver(A, Reserved) + SumOver({id}, Reserved)
      BY <1>1, SumUnion, CapacityAssumption
    <2>2. SumOver({id}, Reserved) = Reserved[id]
      BY SumSingle, CapacityAssumption
    <2>3. FinalIds \subseteq Ids /\ A \union {id} \subseteq Ids
      BY <1>1 DEF InQuarantine
    <2>4. /\ SumOver(A, Reserved) \in Nat /\ SumOver(A \union {id}, Reserved) \in Nat
          /\ SumOver(FinalIds, QuarantineReserved) \in Nat
      BY <1>1, <2>3, SumFacts, CapacityAssumption
    <2>5. QED
      BY <2>1, <2>2, <2>4, CapacityAssumption
  <1>5. Cardinality(A \union {id}) + Cardinality(quar.fin) <= MaxOutstanding
    BY <1>2, <1>3, CapacityAssumption
  <1>6. SumOver(A \union {id}, Reserved) + SumOver(FinalIds, QuarantineReserved) <= MaxBytes
    BY <1>2, <1>4, CapacityAssumption
  <1>7. Fits(A \union {id}, quar.fin)
    BY <1>5, <1>6 DEF Fits, FinalIds
  <1>8. A \union {id} = overlay \union {id} \union DOMAIN results
    BY DEF A
  <1>9. QED
    BY <1>7, <1>8

\* The entries that a finalized quarantine gets for its pending ones.
LEMMA FitsFinal ==
    ASSUME Queued, InQuarantine, ResetRoom(quar.pend), NEW K,
           \E k : K = {[id |-> p.id, kept |-> k[p]] : p \in quar.pend}
    PROVE  /\ IsFiniteSet(quar.fin \union K)
           /\ {f.id : f \in quar.fin \union K} = FinalIds \union PendingIds
           /\ Fits(DOMAIN results, quar.fin \union K)
  <1> DEFINE D == DOMAIN results
  <1>1. D \subseteq Ids /\ {id \in Ids : HasResult(id)} = D
    BY DEF Queued, HasResult
  <1>2. /\ Cardinality(D) + Cardinality(quar.fin) + Cardinality(quar.pend) <= MaxOutstanding
        /\ SumOver(D, Reserved) + SumOver(FinalIds, QuarantineReserved)
             + SumOver(PendingIds, QuarantineReserved) <= MaxBytes
    BY <1>1 DEF ResetRoom, PendingIds
  <1> HIDE DEF D
  <1>3. IsFiniteSet(K) /\ Cardinality(K) <= Cardinality(quar.pend)
    <2>1. PICK k : K = {[id |-> p.id, kept |-> k[p]] : p \in quar.pend}
      OBVIOUS
    <2> DEFINE g == [p \in quar.pend |-> [id |-> p.id, kept |-> k[p]]]
    <2>2. g \in Surjection(quar.pend, K)
      BY <2>1 DEF Surjection
    <2> HIDE DEF g
    <2>3. QED
      BY <2>2, FS_Surjection DEF InQuarantine
  <1>4. /\ IsFiniteSet(quar.fin \union K)
        /\ Cardinality(quar.fin \union K) <= Cardinality(quar.fin) + Cardinality(K)
    BY <1>3, UnionSize DEF InQuarantine
  <1>5. /\ Cardinality(D) \in Nat /\ Cardinality(quar.fin) \in Nat /\ Cardinality(quar.pend) \in Nat
        /\ Cardinality(K) \in Nat /\ Cardinality(quar.fin \union K) \in Nat
    <2>1. IsFiniteSet(D)
      BY <1>1, IdsFinite, FS_Subset
    <2>2. QED
      BY <1>3, <1>4, <2>1, FS_CardinalityType DEF InQuarantine
  <1>6. {f.id : f \in quar.fin \union K} = FinalIds \union PendingIds
    <2>1. {f.id : f \in K} = PendingIds
      <3>1. PICK k : K = {[id |-> p.id, kept |-> k[p]] : p \in quar.pend}
        OBVIOUS
      <3>2. ASSUME NEW p \in quar.pend PROVE \E f \in K : f.id = p.id
        <4>1. [id |-> p.id, kept |-> k[p]] \in K /\ [id |-> p.id, kept |-> k[p]].id = p.id
          BY <3>1
        <4>2. QED
          BY <4>1
      <3>3. ASSUME NEW f \in K PROVE \E p \in quar.pend : f.id = p.id
        BY <3>1
      <3>4. QED
        BY <3>2, <3>3 DEF PendingIds
    <2>2. {f.id : f \in quar.fin \union K} = {f.id : f \in quar.fin} \union {f.id : f \in K}
      OBVIOUS
    <2>3. QED
      BY <2>1, <2>2 DEF FinalIds
  <1>7. /\ SumOver(FinalIds \union PendingIds, QuarantineReserved)
             <= SumOver(FinalIds, QuarantineReserved) + SumOver(PendingIds, QuarantineReserved)
        /\ SumOver(D, Reserved) \in Nat /\ SumOver(FinalIds, QuarantineReserved) \in Nat
        /\ SumOver(PendingIds, QuarantineReserved) \in Nat
        /\ SumOver(FinalIds \union PendingIds, QuarantineReserved) \in Nat
    <2>1. FinalIds \subseteq Ids /\ PendingIds \subseteq Ids /\ FinalIds \union PendingIds \subseteq Ids
      BY DEF InQuarantine
    <2>2. QED
      BY <1>1, <2>1, SumUnion, SumFacts, CapacityAssumption
  <1>8. Cardinality(D) + Cardinality(quar.fin \union K) <= MaxOutstanding
    BY <1>2, <1>3, <1>4, <1>5, CapacityAssumption
  <1>9. SumOver(D, Reserved) + SumOver({f.id : f \in quar.fin \union K}, QuarantineReserved) <= MaxBytes
    <2>1. SumOver(D, Reserved) + SumOver(FinalIds \union PendingIds, QuarantineReserved) <= MaxBytes
      BY <1>2, <1>7, CapacityAssumption
    <2>2. QED
      BY <1>6, <2>1
  <1>10. QED
    BY <1>4, <1>6, <1>8, <1>9 DEF Fits, D

-----------------------------------------------------------------------------
(***************************************************************************)
(* The steps of the client keep its stores.                                *)
(***************************************************************************)
LEMMA InitStoresInv == Init => StoresInv
  <1> SUFFICES ASSUME Init PROVE StoresInv
    OBVIOUS
  <1>1. Queued
    BY DEF Init, Queued, ToSet
  <1>2. Uploading
    BY DEF Init, Uploading, NoUpload
  <1>3. InQuarantine
    BY FS_EmptySet DEF Init, InQuarantine, FinalIds, PendingIds
  <1>4. Waiting
    <2>1. (overlay \union DOMAIN results) \ exposed = {} /\ quar.fin = {} /\ rst = None /\ pc = "closed"
      BY DEF Init
    <2>2. Cardinality({}) = 0
      BY FS_EmptySet
    <2>3. BytesOf({}, Reserved) = {} /\ BytesOf({}, QuarantineReserved) = {}
      BY DEF BytesOf
    <2>4. {f.id : f \in {}} = {}
      OBVIOUS
    <2>5. Fits({}, {})
      BY <2>2, <2>3, <2>4, CapacityAssumption DEF Fits, SumOver
    <2>6. QED
      BY <2>1, <2>5 DEF Waiting, Init
  <1>5. QED
    BY <1>1, <1>2, <1>3, <1>4 DEF StoresInv

\* Which reset each step belongs to.
LEMMA Phases ==
    ASSUME SessionInv
    PROVE  /\ pc \in {"register", "snapshot", "disconnect", "quarantine", "begin"} => rst = None
           /\ pc = "reset" => rst # None /\ rst.phase = "quarantined"
           /\ pc \in {"adopt", "confirm", "clear", "clear_overlays", "cleared"} =>
                 rst # None /\ rst.phase = "session_staged"
           /\ pc \in {"challenge", "connect", "observe"} => rst = None \/ rst.phase = "cleared"
           /\ pc \in {"finalize", "unlink"} => rst # None /\ rst.phase = "cleared"
           /\ rst # None => rst \in ResetFile
  BY DEF SessionInv, SessionsHeld, WithoutReset, WhileQuarantined, WhileStaged, WhileCleared, Files, ResetFile

\* A step that leaves the queue, the tables and the quarantine alone.
Rotating(r) == r # None /\ r.phase \in {"quarantined", "session_staged"}
\* A reset that has cleared the database.
Emptied(r) == r # None /\ r.phase = "cleared"

\* A step that writes no store, and goes where the stores already fit.
LEMMA ControlStep ==
    ASSUME StoresInv, UNCHANGED <<queue, overlay, results, accepted, exposed, quar>>,
           up' = up \/ up' = NoUpload,
           up'.pc # "idle" => link' = "on",
           pc' \notin {"enqueue", "clear_overlays", "cleared"},
           pc' \in {"closed", "quarantine", "begin"} => link' # "on",
           Rotating(rst') => link' # "on",
           pc' \in {"disconnect", "quarantine"} => cur' \subseteq Ids,
           Emptied(rst') => Emptied(rst) \/ pc = "cleared"
    PROVE  StoresInv'
  <1>1. Queued'
    BY DEF StoresInv, Queued
  <1>2. Uploading'
    BY DEF StoresInv, Uploading, NoUpload, HasResult, Rotating
  <1>3. InQuarantine'
    BY DEF StoresInv, InQuarantine, FinalIds, PendingIds
  <1>4. Waiting'
    BY DEF StoresInv, Waiting, Emptied
  <1>5. QED
    BY <1>1, <1>2, <1>3, <1>4 DEF StoresInv

\* A step that leaves the control alone too.
LEMMA IdleStep ==
    ASSUME StoresInv, UNCHANGED <<queue, overlay, results, accepted, exposed, quar, up, link, pc, rst, cur>>
    PROVE  StoresInv'
  <1>1. Queued'
    BY DEF StoresInv, Queued
  <1>2. Uploading'
    BY DEF StoresInv, Uploading, HasResult
  <1>3. InQuarantine'
    BY DEF StoresInv, InQuarantine, FinalIds, PendingIds
  <1>4. Waiting'
    BY DEF StoresInv, Waiting
  <1>5. QED
    BY <1>1, <1>2, <1>3, <1>4 DEF StoresInv

\* The process ends, or the gate is given back.
LEMMA FailStores ==
    ASSUME SessionInv, StoresInv, Down \/ Fail,
           UNCHANGED <<queue, overlay, results, accepted, exposed, quar, rst>>
    PROVE  StoresInv'
  <1>1. CASE Down
    BY <1>1, ControlStep DEF Down, NoUpload, Rotating, Emptied
  <1>2. CASE pc' = "idle" /\ UNCHANGED <<link, up>>
    <2>1. Rotating(rst') => link' # "on"
      BY <1>2 DEF Rotating, StoresInv, Uploading
    <2>2. up'.pc # "idle" => link' = "on"
      BY <1>2 DEF StoresInv, Uploading
    <2>3. QED
      BY <1>2, <2>1, <2>2, ControlStep DEF Emptied
  <1>3. QED
    BY <1>1, <1>2 DEF Fail, Goto

\* Opening, the start of a reset, and its steps that only move the control.
LEMMA OpeningStores ==
    ASSUME SessionInv, StoresInv, Open \/ Register \/ Crash \/ StartReset
    PROVE  StoresInv'
  <1>1. UNCHANGED <<queue, overlay, results, accepted, exposed, quar, rst>>
    BY DEF Open, Register, Crash, StartReset, durable, Rest, application
  <1>2. CASE Open
    <2>1. pc = "closed" /\ up.pc = "idle" /\ up' = up /\ link' = "off" /\ pc' \in {"register", "challenge", "reset", "adopt"}
      <3>1. rst # None => rst \in ResetFile
        BY Phases
      <3>2. ResumeAt \in {"challenge", "reset", "adopt"}
        BY <3>1 DEF ResumeAt, ResetFile
      <3>3. QED
        BY <1>2, <3>2 DEF Open, Goto, StoresInv, Uploading
    <2>2. QED
      BY <1>1, <2>1, ControlStep DEF Emptied
  <1>3. CASE Register
    <2>1. CASE Down
      BY <1>1, <2>1, FailStores
    <2>2. CASE Step("challenge") /\ link' = link
      <3>1. rst = None /\ up' = up /\ pc' = "challenge"
        BY <1>3, <2>2, Phases DEF Register, Step, Goto
      <3>2. up'.pc # "idle" => link' = "on"
        BY <2>2, <3>1 DEF StoresInv, Uploading
      <3>3. QED
        BY <1>1, <3>1, <3>2, ControlStep DEF Rotating, Emptied
    <2>3. QED
      BY <1>3, <2>1, <2>2 DEF Register
  <1>4. CASE Crash
    BY <1>1, <1>4, FailStores DEF Crash
  <1>5. CASE StartReset
    <2>1. CASE link' = link
      <3>1. up' = up /\ pc' \in {"snapshot", "reset", "confirm", "challenge"}
        BY <1>5 DEF StartReset, Goto
      <3>2. (up'.pc # "idle" => link' = "on") /\ (Rotating(rst') => link' # "on")
        BY <1>1, <2>1, <3>1 DEF StoresInv, Uploading, Rotating
      <3>3. QED
        BY <1>1, <3>1, <3>2, ControlStep
    <2>2. CASE up.pc = "idle" /\ link' = "shut" /\ pc' = "challenge"
      BY <1>1, <1>5, <2>2, ControlStep DEF StartReset
    <2>3. QED
      BY <1>5, <2>1, <2>2 DEF StartReset, Goto
  <1>6. QED
    BY <1>2, <1>3, <1>4, <1>5

\* The reset reads what is queued, cuts the link and writes its file: the
\* stores stay as they are.
LEMMA SnapshotStores ==
    ASSUME SessionInv, StoresInv, Snapshot \/ Disconnect \/ Begin
    PROVE  StoresInv'
  <1>1. UNCHANGED <<queue, overlay, results, accepted, exposed, quar>>
    BY DEF Snapshot, Disconnect, Begin, durable, Rest, application
  <1>2. rst = None
    BY Phases DEF Snapshot, Disconnect, Begin
  <1>3. CASE Snapshot
    <2>1. rst' = rst
      BY <1>3 DEF Snapshot, durable
    <2>2. CASE Fail
      BY <1>1, <2>1, <2>2, FailStores
    <2>3. CASE cur' = ToSet(queue) \union overlay /\ pc' = "disconnect" /\ UNCHANGED <<link, up>>
      <3>1. cur' \subseteq Ids
        BY <2>3 DEF StoresInv, Queued
      <3>2. up'.pc # "idle" => link' = "on"
        BY <2>3 DEF StoresInv, Uploading
      <3>3. QED
        BY <1>1, <1>2, <2>1, <2>3, <3>1, <3>2, ControlStep DEF Rotating
    <2>4. QED
      BY <1>3, <2>2, <2>3 DEF Snapshot, Goto
  <1>4. CASE Disconnect
    <2>1. rst' = rst /\ pc = "disconnect" /\ pc' = "quarantine" /\ up.pc = "idle" /\ up' = up /\ link' = "off" /\ cur' = cur
      BY <1>4 DEF Disconnect, Step, Goto, durable
    <2>2. cur' \subseteq Ids
      BY <2>1 DEF StoresInv, InQuarantine
    <2>3. QED
      BY <1>1, <2>1, <2>2, ControlStep
  <1>5. CASE Begin
    <2>1. /\ rst'.phase = "quarantined" /\ pc = "begin" /\ pc' = "reset" /\ up' = up /\ link' = link /\ link # "on"
      BY <1>5 DEF Begin, Step, Goto, StoresInv, Uploading
    <2>2. up'.pc # "idle" => link' = "on"
      BY <2>1 DEF StoresInv, Uploading
    <2>3. QED
      BY <1>1, <2>1, <2>2, ControlStep DEF Rotating, Emptied
  <1>6. QED
    BY <1>3, <1>4, <1>5

\* The rotation of the session leaves the stores alone.
LEMMA RotateStores ==
    ASSUME SessionInv, StoresInv, RequestReset \/ Adopt \/ Confirm \/ Cleared
    PROVE  StoresInv'
  <1>1. UNCHANGED <<queue, overlay, results, accepted, exposed, quar>>
    BY DEF RequestReset, Adopt, Confirm, Cleared, durable, Rest, application
  <1>2. Rotating(rst) /\ rst \in ResetFile /\ link # "on" /\ up.pc = "idle"
    <2>1. Rotating(rst) /\ rst \in ResetFile
      BY Phases DEF RequestReset, Adopt, Confirm, Cleared, Rotating
    <2>2. QED
      BY <2>1 DEF Rotating, StoresInv, Uploading
  <1>3. CASE Fail /\ rst' = rst
    BY <1>1, <1>3, FailStores
  <1>4. CASE /\ \E k \in {"adopt", "confirm", "clear"} : Step(k)
             /\ link' = link /\ ~Emptied(rst')
    <2>1. up' = up /\ pc' \in {"adopt", "confirm", "clear"}
      BY <1>4 DEF Step, Goto
    <2>2. QED
      BY <1>1, <1>2, <1>4, <2>1, ControlStep
  <1>5. ~Emptied(rst)
    BY <1>2 DEF Emptied, Rotating
  <1>6. CASE RequestReset
    <2>1. CASE Fail /\ rst' = rst
      BY <1>3, <2>1
    <2>2. CASE rst' = [rst EXCEPT !.phase = "session_staged", !.new = ResetSession(rst.old, rst.q)]
               /\ Step("adopt") /\ link' = link
      <3>1. rst'.phase = "session_staged"
        BY <1>2, <2>2 DEF ResetFile
      <3>2. QED
        BY <1>4, <2>2, <3>1 DEF Emptied
    <2>3. QED
      BY <1>6, <2>1, <2>2 DEF RequestReset
  <1>7. CASE Adopt
    BY <1>4, <1>5, <1>7 DEF Adopt
  <1>8. CASE Confirm
    BY <1>3, <1>4, <1>5, <1>8 DEF Confirm, durable
  <1>9. CASE Cleared
    <2>1. pc = "cleared" /\ pc' = "challenge" /\ up' = up /\ link' = link /\ rst' = [rst EXCEPT !.phase = "cleared"]
      BY <1>9 DEF Cleared, Step, Goto
    <2>2. QED
      BY <1>1, <1>2, <2>1, ControlStep
  <1>10. QED
    BY <1>6, <1>7, <1>8, <1>9

\* Connecting leaves the stores alone.
LEMMA ConnectStores ==
    ASSUME SessionInv, StoresInv, Challenge \/ Connect \/ Observe \/ Unlink
    PROVE  StoresInv'
  <1>1. UNCHANGED <<queue, overlay, results, accepted, exposed, quar>> /\ (rst' = rst \/ (Unlink /\ rst' = None))
    BY DEF Challenge, Connect, Observe, Unlink, durable, Rest, application
  <1>2. ~Rotating(rst) /\ ~Rotating(rst') /\ (Emptied(rst') => Emptied(rst))
    BY <1>1, Phases DEF Challenge, Connect, Observe, Unlink, Rotating, Emptied
  <1>3. CASE Fail /\ rst' = rst
    BY <1>1, <1>3, FailStores
  <1>4. CASE /\ \E k \in {"connect", "observe", "idle", "finalize"} : Step(k)
             /\ link' = link \/ link' = "on"
    <2>1. up' = up /\ pc' \in {"connect", "observe", "idle", "finalize"}
      BY <1>4 DEF Step, Goto
    <2>2. up'.pc # "idle" => link' = "on"
      BY <1>4, <2>1 DEF StoresInv, Uploading
    <2>3. QED
      BY <1>1, <1>2, <2>1, <2>2, ControlStep
  <1>5. CASE Challenge
    BY <1>3, <1>4, <1>5 DEF Challenge, durable
  <1>6. CASE Connect
    <2>1. CASE Down
      BY <1>1, <1>6, <2>1, FailStores DEF Connect, durable
    <2>2. CASE pc' = "idle" /\ link' = "on" /\ up' = up
      BY <1>1, <1>2, <2>2, ControlStep
    <2>3. QED
      BY <1>4, <1>6, <2>1, <2>2 DEF Connect, Goto
  <1>7. CASE Observe
    BY <1>3, <1>4, <1>7 DEF Observe
  <1>8. CASE Unlink
    BY <1>4, <1>8 DEF Unlink
  <1>9. QED
    BY <1>5, <1>6, <1>7, <1>8

\* The quarantine is written, and finalized.
LEMMA QuarantineStores ==
    ASSUME SessionInv, StoresInv, Quarantine
    PROVE  StoresInv'
  <1>1. pc = "quarantine" /\ rst = None /\ UNCHANGED <<queue, overlay, results, accepted, exposed, rst>> /\ cur \subseteq Ids
    BY Phases DEF Quarantine, Rest, application, StoresInv, InQuarantine
  <1>2. CASE Fail /\ quar' = quar
    BY <1>1, <1>2, FailStores
  <1>3. ASSUME NEW ok, Step("begin"), link' = link,
               quar' = [quar EXCEPT !.here = TRUE, !.pend = {[id |-> id, ok |-> ok[id]] : id \in cur}]
        PROVE  StoresInv'
    <2> DEFINE P == {[id |-> id, ok |-> ok[id]] : id \in cur}
    <2>1. IsFiniteSet(P) /\ {p.id : p \in P} \subseteq Ids
      <3> DEFINE g == [id \in cur |-> [id |-> id, ok |-> ok[id]]]
      <3>1. g \in Surjection(cur, P)
        BY DEF Surjection
      <3>2. IsFiniteSet(cur)
        BY <1>1, IdsFinite, FS_Subset
      <3>3. IsFiniteSet(P)
        <4> HIDE DEF g, P
        <4>1. QED
          BY <3>1, <3>2, FS_Surjection
      <3>4. QED
        BY <1>1, <3>3
    <2>2. quar'.fin = quar.fin /\ quar'.pend = P
      BY <1>3 DEF SessionInv, Files
    <2> HIDE DEF P
    <2>3. pc' = "begin" /\ up' = up /\ cur' = cur
      BY <1>3 DEF Step, Goto
    <2>4. Queued'
      BY <1>1, <2>3 DEF StoresInv, Queued
    <2>5. Uploading'
      BY <1>1, <1>3, <2>3 DEF StoresInv, Uploading, HasResult
    <2>6. InQuarantine'
      BY <2>1, <2>2, <2>3 DEF StoresInv, InQuarantine, FinalIds, PendingIds
    <2>7. Waiting'
      BY <1>1, <2>2, <2>3 DEF StoresInv, Waiting
    <2>8. QED
      BY <2>4, <2>5, <2>6, <2>7 DEF StoresInv
  <1>4. QED
    <2> DEFINE ok == [id \in cur |-> ClassifiedPreserve(Me, msess, Content(id).res, Content(id).inc)]
               P == {[id |-> id, ok |-> ClassifiedPreserve(Me, msess, Content(id).res, Content(id).inc)] : id \in cur}
    <2>1. CASE quar' = [quar EXCEPT !.here = TRUE, !.pend = P] /\ Step("begin") /\ link' = link
      <3>1. P = {[id |-> id, ok |-> ok[id]] : id \in cur}
        OBVIOUS
      <3> HIDE DEF ok, P
      <3>2. quar' = [quar EXCEPT !.here = TRUE, !.pend = {[id |-> id, ok |-> ok[id]] : id \in cur}]
        BY <2>1, <3>1
      <3>3. QED
        BY <1>3, <2>1, <3>2
    <2>2. QED
      BY <1>2, <2>1 DEF Quarantine

\* Pending entries become final ones; they have been counted as such.
LEMMA FinalizeStores ==
    ASSUME SessionInv, StoresInv, Finalize
    PROVE  StoresInv'
  <1>1. /\ pc = "finalize" /\ Emptied(rst) /\ UNCHANGED <<queue, overlay, results, accepted, exposed, rst>>
    BY Phases DEF Finalize, Rest, application, Emptied
  <1>2. CASE Fail /\ quar' = quar
    BY <1>1, <1>2, FailStores
  <1>3. ASSUME NEW K, \E k : K = {[id |-> p.id, kept |-> k[p]] : p \in quar.pend},
               Step("unlink"), link' = link, ResetRoom(quar.pend),
               quar' = [quar EXCEPT !.fin = quar.fin \union K, !.pend = {}]
        PROVE  StoresInv'
    <2>2. quar'.fin = quar.fin \union K /\ quar'.pend = {}
      BY <1>3 DEF SessionInv, Files
    <2>3. /\ IsFiniteSet(quar.fin \union K)
          /\ {f.id : f \in quar.fin \union K} = FinalIds \union PendingIds
          /\ Fits(DOMAIN results, quar.fin \union K)
      BY <1>3, FitsFinal DEF StoresInv
    <2>4. pc' = "unlink" /\ up' = up /\ cur' = cur
      BY <1>3 DEF Step, Goto
    <2>5. Queued'
      BY <1>1, <2>4 DEF StoresInv, Queued
    <2>6. Uploading'
      BY <1>1, <1>3, <2>4 DEF StoresInv, Uploading, HasResult
    <2>7. InQuarantine'
      BY <2>2, <2>3, <2>4, FS_EmptySet DEF StoresInv, InQuarantine, FinalIds, PendingIds
    <2>8. Waiting'
      <3> DEFINE A == (overlay \union DOMAIN results) \ exposed
      <3>1. overlay \subseteq exposed /\ A \in SUBSET DOMAIN results /\ DOMAIN results \in SUBSET Ids
        BY <1>1 DEF StoresInv, Waiting, Emptied, Queued
      <3>2. {f.id : f \in quar.fin \union K} \subseteq Ids
        BY <2>3 DEF StoresInv, InQuarantine
      <3> HIDE DEF A
      <3>3. Fits(A, quar.fin \union K)
        BY <2>3, <3>1, <3>2, FitsLess
      <3>4. QED
        BY <1>1, <2>2, <3>1, <3>3 DEF Waiting, A
    <2>9. QED
      BY <2>5, <2>6, <2>7, <2>8 DEF StoresInv
  <1>4. QED
    <2> DEFINE k == [p \in quar.pend |-> Reviewable(p)]
               K == {[id |-> p.id, kept |-> Reviewable(p)] : p \in quar.pend}
    <2>1. CASE /\ ResetRoom(quar.pend) /\ Step("unlink") /\ link' = link
               /\ quar' = [quar EXCEPT !.fin = quar.fin \union K, !.pend = {}]
      <3>1. K = {[id |-> p.id, kept |-> k[p]] : p \in quar.pend}
        OBVIOUS
      <3>2. \E h : K = {[id |-> p.id, kept |-> h[p]] : p \in quar.pend}
        BY <3>1
      <3> HIDE DEF k, K
      <3>3. QED
        BY <1>3, <2>1, <3>2
    <2>2. QED
      BY <1>2, <2>1 DEF Finalize

\* The database and the overlays are cleared.
LEMMA ClearStores ==
    ASSUME SessionInv, StoresInv, ClearDatabase \/ ClearOverlays
    PROVE  StoresInv'
  <1>1. link # "on" /\ up.pc = "idle" /\ ~Emptied(rst) /\ UNCHANGED <<results, accepted, exposed, quar, rst, up, cur>>
    BY Phases DEF ClearDatabase, ClearOverlays, StoresInv, Uploading, Emptied, Rest, application, Step
  <1>2. CASE ClearDatabase
    <2>1. queue' = <<>> /\ overlay' = overlay /\ pc' = "clear_overlays" /\ link' = link
      BY <1>2 DEF ClearDatabase, Step, Goto
    <2>2. Queued'
      BY <1>1, <2>1 DEF StoresInv, Queued, ToSet
    <2>3. Uploading'
      BY <1>1, <2>1 DEF StoresInv, Uploading
    <2>4. InQuarantine'
      BY <1>1, <2>1 DEF StoresInv, InQuarantine, FinalIds, PendingIds
    <2>5. Waiting'
      BY <1>1, <2>1 DEF StoresInv, Waiting, Emptied
    <2>6. QED
      BY <2>2, <2>3, <2>4, <2>5 DEF StoresInv
  <1>3. CASE ClearOverlays
    <2>1. queue = <<>> /\ queue' = queue /\ overlay' = {} /\ pc' = "cleared" /\ link' = "shut"
      BY <1>3 DEF ClearOverlays, Step, Goto, StoresInv, Queued
    <2>2. Queued'
      BY <1>1, <2>1 DEF StoresInv, Queued, ToSet
    <2>3. Uploading'
      BY <1>1, <2>1 DEF StoresInv, Uploading
    <2>4. InQuarantine'
      BY <1>1, <2>1 DEF StoresInv, InQuarantine, FinalIds, PendingIds
    <2>5. Waiting'
      <3> DEFINE A == (overlay \union DOMAIN results) \ exposed
                 B == DOMAIN results \ exposed
      <3>1. A \in SUBSET Ids /\ B \in SUBSET A
            /\ {f.id : f \in quar.fin} \subseteq Ids /\ IsFiniteSet(quar.fin)
        BY DEF StoresInv, Queued, InQuarantine, FinalIds
      <3>2. Fits(A, quar.fin)
        BY DEF StoresInv, Waiting
      <3>3. (overlay' \union DOMAIN results') \ exposed' = B
        BY <1>1, <2>1
      <3> HIDE DEF A, B
      <3>4. Fits(B, quar.fin)
        BY <3>1, <3>2, FitsLess
      <3>5. QED
        BY <1>1, <2>1, <3>3, <3>4 DEF Waiting
    <2>6. QED
      BY <2>2, <2>3, <2>4, <2>5 DEF StoresInv
  <1>4. QED
    BY <1>2, <1>3

\* The queue when the head leaves it and a new command enters it.
LEMMA QueueFacts ==
    ASSUME NEW S, NEW s \in Seq(S), \A i, j \in 1..Len(s) : s[i] = s[j] => i = j
    PROVE  /\ s # <<>> => /\ Tail(s) \in Seq(S) /\ Head(s) \in ToSet(s)
                          /\ \A i, j \in 1..Len(Tail(s)) : Tail(s)[i] = Tail(s)[j] => i = j
                          /\ ToSet(Tail(s)) = ToSet(s) \ {Head(s)}
           /\ \A x \in S \ ToSet(s) :
                 /\ Append(s, x) \in Seq(S) /\ ToSet(Append(s, x)) = ToSet(s) \union {x}
                 /\ \A i, j \in 1..Len(Append(s, x)) : Append(s, x)[i] = Append(s, x)[j] => i = j
                 /\ s # <<>> => Head(Append(s, x)) = Head(s)
                 /\ Append(s, x) # <<>>
  <1>1. ASSUME s # <<>>
        PROVE  /\ Tail(s) \in Seq(S) /\ Head(s) \in ToSet(s)
               /\ \A i, j \in 1..Len(Tail(s)) : Tail(s)[i] = Tail(s)[j] => i = j
               /\ ToSet(Tail(s)) = ToSet(s) \ {Head(s)}
    <2>1. Tail(s) \in Seq(S) /\ Len(Tail(s)) = Len(s) - 1 /\ \A i \in 1..(Len(s) - 1) : Tail(s)[i] = s[i + 1]
          /\ Head(s) = s[1] /\ Len(s) \in Nat \ {0}
      BY <1>1
    <2>2. DOMAIN s = 1..Len(s) /\ DOMAIN Tail(s) = 1..(Len(s) - 1)
      BY <2>1
    <2>3. ToSet(Tail(s)) = ToSet(s) \ {Head(s)}
      <3>1. ASSUME NEW x \in ToSet(s), x # Head(s) PROVE x \in ToSet(Tail(s))
        <4>1. PICK i \in 1..Len(s) : s[i] = x
          BY <2>2, <3>1 DEF ToSet
        <4>2. i - 1 \in 1..(Len(s) - 1) /\ Tail(s)[i - 1] = x
          BY <2>1, <3>1, <4>1
        <4>3. QED
          BY <2>2, <4>2 DEF ToSet
      <3>2. ASSUME NEW x \in ToSet(Tail(s)) PROVE x \in ToSet(s) /\ x # Head(s)
        <4>1. PICK i \in 1..(Len(s) - 1) : Tail(s)[i] = x
          BY <2>2, <3>2 DEF ToSet
        <4>2. i + 1 \in 1..Len(s) /\ s[i + 1] = x /\ i + 1 # 1 /\ 1 \in 1..Len(s)
          BY <2>1, <4>1
        <4>3. QED
          BY <2>1, <2>2, <4>2 DEF ToSet
      <3>3. QED
        BY <3>1, <3>2
    <2>4. \A i, j \in 1..Len(Tail(s)) : Tail(s)[i] = Tail(s)[j] => i = j
      BY <2>1
    <2>5. Head(s) \in ToSet(s)
      <3>1. 1 \in DOMAIN s /\ Head(s) = s[1]
        BY <2>1, <2>2
      <3>2. QED
        BY <3>1 DEF ToSet
    <2>6. QED
      BY <2>1, <2>3, <2>4, <2>5
  <1>2. ASSUME NEW x \in S \ ToSet(s)
        PROVE  /\ Append(s, x) \in Seq(S) /\ ToSet(Append(s, x)) = ToSet(s) \union {x}
               /\ \A i, j \in 1..Len(Append(s, x)) : Append(s, x)[i] = Append(s, x)[j] => i = j
               /\ s # <<>> => Head(Append(s, x)) = Head(s)
               /\ Append(s, x) # <<>>
    <2>1. Append(s, x) \in Seq(S) /\ Len(Append(s, x)) = Len(s) + 1 /\ Len(s) \in Nat
          /\ (\A i \in 1..Len(s) : Append(s, x)[i] = s[i]) /\ Append(s, x)[Len(s) + 1] = x
      OBVIOUS
    <2>2. DOMAIN s = 1..Len(s) /\ DOMAIN Append(s, x) = 1..(Len(s) + 1)
      BY <2>1
    <2>3. \A i \in 1..Len(s) : s[i] # x
      BY <2>2 DEF ToSet
    <2>4. ToSet(Append(s, x)) = ToSet(s) \union {x}
      <3>1. 1..(Len(s) + 1) = (1..Len(s)) \union {Len(s) + 1}
        BY <2>1
      <3>2. QED
        BY <2>1, <2>2, <3>1 DEF ToSet
    <2>5. \A i, j \in 1..(Len(s) + 1) : Append(s, x)[i] = Append(s, x)[j] => i = j
      BY <2>1, <2>3
    <2>6. s # <<>> => Head(Append(s, x)) = Head(s)
      BY <2>1
    <2>7. Append(s, x) # <<>>
      <3>1. Len(Append(s, x)) # 0
        BY <2>1
      <3>2. QED
        BY <3>1
    <2>8. QED
      BY <2>1, <2>4, <2>5, <2>6, <2>7
  <1>3. QED
    BY <1>1, <1>2

\* What fits while the tables and the quarantine shrink.
LEMMA WaitingLess ==
    ASSUME StoresInv, overlay' \subseteq overlay, DOMAIN results' \subseteq overlay \union DOMAIN results,
           quar'.fin \subseteq quar.fin, exposed \subseteq exposed', rst' = rst, pc' # "cleared"
    PROVE  Waiting'
  <1> DEFINE A == (overlay \union DOMAIN results) \ exposed
             B == (overlay' \union DOMAIN results') \ exposed'
  <1>1. A \in SUBSET Ids /\ B \in SUBSET A /\ {f.id : f \in quar.fin} \subseteq Ids /\ IsFiniteSet(quar.fin)
    BY DEF StoresInv, Queued, InQuarantine, FinalIds
  <1>2. Fits(A, quar.fin) /\ (Emptied(rst) => overlay \subseteq exposed)
    BY DEF StoresInv, Waiting, Emptied
  <1> HIDE DEF A, B
  <1>3. Fits(B, quar'.fin)
    BY <1>1, <1>2, FitsLess
  <1>4. Emptied(rst) => overlay' \subseteq exposed'
    BY <1>2
  <1>5. QED
    BY <1>3, <1>4 DEF Waiting, Emptied, B

\* The application queues a command, takes notice of a result, or discards.
LEMMA AddOverlayStores ==
    ASSUME SessionInv, StoresInv, NEW id \in Ids, AddOverlay(id)
    PROVE  StoresInv'
  <1>1. /\ pc' = "enqueue" /\ cur' = id /\ overlay' = overlay \union {id} /\ id \notin accepted /\ RoomFor(id)
        /\ id \notin overlay \union DOMAIN results
        /\ exposed' = (IF rst = None THEN exposed ELSE exposed \union {id})
        /\ UNCHANGED <<queue, results, accepted, quar, rst, up, link>>
    BY DEF AddOverlay, Goto, Active, HasResult
  <1>2. Queued'
    BY <1>1 DEF StoresInv, Queued
  <1>3. Uploading'
    BY <1>1 DEF StoresInv, Uploading, HasResult
  <1>4. InQuarantine'
    BY <1>1 DEF StoresInv, InQuarantine, FinalIds, PendingIds
  <1>5. Waiting'
    <2>1. CASE rst = None
      <3> DEFINE A == overlay \union {id} \union DOMAIN results
                 B == A \ exposed
      <3>1. A \in SUBSET Ids /\ B \in SUBSET A /\ {f.id : f \in quar.fin} \subseteq Ids /\ IsFiniteSet(quar.fin)
        BY DEF StoresInv, Queued, InQuarantine, FinalIds
      <3>2. Fits(A, quar.fin)
        BY <1>1, FitsRoom DEF StoresInv
      <3>3. (overlay' \union DOMAIN results') \ exposed' = B
        BY <1>1, <2>1
      <3> HIDE DEF A, B
      <3>4. Fits(B, quar.fin)
        BY <3>1, <3>2, FitsLess
      <3>5. QED
        BY <1>1, <2>1, <3>3, <3>4 DEF Waiting
    <2>2. CASE rst # None
      <3>1. (overlay' \union DOMAIN results') \ exposed' = (overlay \union DOMAIN results) \ exposed
        BY <1>1, <2>2
      <3>2. Fits((overlay \union DOMAIN results) \ exposed, quar.fin)
        BY DEF StoresInv, Waiting
      <3>3. Emptied(rst) => overlay' \subseteq exposed'
        BY <1>1, <2>2 DEF StoresInv, Waiting, Emptied
      <3>4. QED
        BY <1>1, <3>1, <3>2, <3>3 DEF Waiting, Emptied
    <2>3. QED
      BY <2>1, <2>2
  <1>6. QED
    BY <1>2, <1>3, <1>4, <1>5 DEF StoresInv

\* The command that has an overlay enters the queue.
LEMMA EnqueueStores ==
    ASSUME SessionInv, StoresInv, Enqueue
    PROVE  StoresInv'
  <1>1. /\ pc = "enqueue" /\ pc' = "idle" /\ UNCHANGED <<results, exposed, quar, rst, up, link>>
    BY DEF Enqueue, Goto
  <1>2. /\ cur \in overlay \ accepted /\ queue \in Seq(Ids) /\ cur \in Ids \ ToSet(queue)
        /\ \A i, j \in 1..Len(queue) : queue[i] = queue[j] => i = j
    BY <1>1 DEF StoresInv, Queued
  <1>3. InQuarantine'
    BY <1>1 DEF StoresInv, InQuarantine, FinalIds, PendingIds
  <1>4. CASE queue' = Append(queue, cur) /\ accepted' = accepted \union {cur} /\ overlay' = overlay
    <2>1. /\ queue' \in Seq(Ids) /\ ToSet(queue') = ToSet(queue) \union {cur}
          /\ \A i, j \in 1..Len(queue') : queue'[i] = queue'[j] => i = j
          /\ queue # <<>> => Head(queue') = Head(queue)
          /\ queue' # <<>>
      BY <1>2, <1>4, QueueFacts
    <2>2. Queued'
      BY <1>1, <1>2, <1>4, <2>1 DEF StoresInv, Queued
    <2>3. Uploading'
      BY <1>1, <1>2, <1>4, <2>1 DEF StoresInv, Uploading, HasResult
    <2>4. Waiting'
      BY <1>1, <1>4, WaitingLess
    <2>5. QED
      BY <1>3, <2>2, <2>3, <2>4 DEF StoresInv
  <1>5. CASE UNCHANGED <<queue, accepted>> /\ overlay' = overlay \ {cur}
    <2>1. Queued'
      BY <1>1, <1>2, <1>5 DEF StoresInv, Queued
    <2>2. Uploading'
      BY <1>1, <1>5 DEF StoresInv, Uploading, HasResult
    <2>3. Waiting'
      BY <1>1, <1>5, WaitingLess
    <2>4. QED
      BY <1>3, <2>1, <2>2, <2>3 DEF StoresInv
  <1>6. QED
    BY <1>4, <1>5 DEF Enqueue

\* The application dismisses a result or an entry: less is used.
LEMMA DismissStores ==
    ASSUME SessionInv, StoresInv, NEW id \in Ids, AcknowledgeResult(id) \/ Discard(id)
    PROVE  StoresInv'
  <1>1. pc = "idle" /\ UNCHANGED <<queue, overlay, accepted, rst, up, link, pc, cur>>
    BY DEF AcknowledgeResult, Discard, process
  <1>2. CASE AcknowledgeResult(id)
    <2>1. /\ id \in DOMAIN results /\ results[id].done /\ quar' = quar /\ exposed' = exposed
          /\ DOMAIN results' = DOMAIN results \ {id} /\ \A i \in DOMAIN results' : results'[i] = results[i]
      BY <1>2 DEF AcknowledgeResult, HasResult, Restrict
    <2>2. id \notin ToSet(queue)
      BY <2>1 DEF StoresInv, Queued
    <2>3. Queued'
      BY <1>1, <2>1, <2>2 DEF StoresInv, Queued
    <2>4. Uploading'
      <3>1. up.pc = "complete" => up.id # id
        <4>1. up.pc = "complete" => up.id \in ToSet(queue)
          BY QueueFacts DEF StoresInv, Uploading, Queued
        <4>2. QED
          BY <2>2, <4>1
      <3>2. QED
        BY <1>1, <2>1, <3>1 DEF StoresInv, Uploading, HasResult
    <2>5. InQuarantine'
      BY <1>1, <2>1 DEF StoresInv, InQuarantine, FinalIds, PendingIds
    <2>6. Waiting'
      BY <1>1, <2>1, WaitingLess
    <2>7. QED
      BY <2>3, <2>4, <2>5, <2>6 DEF StoresInv
  <1>3. CASE Discard(id)
    <2>1. results' = results /\ quar'.fin \subseteq quar.fin /\ quar'.pend = {} /\ exposed \subseteq exposed'
      BY <1>3 DEF Discard, SessionInv, Files
    <2>2. Queued'
      BY <1>1, <2>1 DEF StoresInv, Queued
    <2>3. Uploading'
      BY <1>1, <2>1 DEF StoresInv, Uploading, HasResult
    <2>4. InQuarantine'
      BY <1>1, <2>1, FS_Subset, FS_EmptySet DEF StoresInv, InQuarantine, FinalIds, PendingIds
    <2>5. Waiting'
      BY <1>1, <2>1, WaitingLess
    <2>6. QED
      BY <2>2, <2>3, <2>4, <2>5 DEF StoresInv
  <1>4. QED
    BY <1>2, <1>3

\* The upload callback.
LEMMA UploadStores ==
    ASSUME SessionInv, StoresInv, Upload \/ UploadLost
    PROVE  StoresInv'
  <1>1. UNCHANGED <<accepted, exposed, quar, rst, pc, link, cur>>
    BY DEF Upload, UploadLost, StartUpload, PersistResult, CompleteTransaction, MarkCompleted, UploadAnswered, UploadRest, application
  <1>2. InQuarantine'
    BY <1>1 DEF StoresInv, InQuarantine, FinalIds, PendingIds
  <1>3. CASE UNCHANGED <<queue, overlay, results>> /\ Uploading'
    <2>1. Queued' /\ Waiting'
      BY <1>1, <1>3 DEF StoresInv, Queued, Waiting
    <2>2. QED
      BY <1>2, <1>3, <2>1 DEF StoresInv
  <1>4. CASE StartUpload
    BY <1>1, <1>3, <1>4 DEF StartUpload, StoresInv, Uploading
  <1>5. ASSUME UploadLost \/ \E q \in wire : UploadAnswered(q) PROVE StoresInv'
    <2>1. up.pc = "wait" /\ UNCHANGED <<queue, overlay, results>>
      BY <1>5 DEF UploadLost, UploadAnswered
    <2>2. (up'.pc = "idle" \/ (up'.pc = "persist" /\ up'.id = up.id)) /\ DOMAIN up' = {"pc", "id", "n", "result"}
      <3>1. Transient => up' = NoUpload \/ \E x : up' = [up EXCEPT !.pc = "persist", !.result = x]
        BY DEF Transient
      <3>2. \A q \in wire : UploadAnswered(q) =>
               Transient \/ up' = NoUpload \/ \E x : up' = [up EXCEPT !.pc = "persist", !.result = x]
        BY DEF UploadAnswered
      <3>3. up' = NoUpload \/ \E x : up' = [up EXCEPT !.pc = "persist", !.result = x]
        BY <1>5, <3>1, <3>2 DEF UploadLost
      <3>4. DOMAIN up = {"pc", "id", "n", "result"}
        BY DEF StoresInv, Uploading
      <3>5. CASE up' = NoUpload
        BY <3>5 DEF NoUpload
      <3>6. ASSUME NEW x, up' = [up EXCEPT !.pc = "persist", !.result = x]
            PROVE  up'.pc = "persist" /\ up'.id = up.id /\ DOMAIN up' = DOMAIN up
        BY <3>4, <3>6
      <3>7. QED
        BY <3>3, <3>4, <3>5, <3>6
    <2>3. Uploading'
      BY <1>1, <2>1, <2>2 DEF StoresInv, Uploading, HasResult
    <2>4. QED
      BY <1>3, <2>1, <2>3
  <1>6. CASE PersistResult
    <2>1. up.pc = "persist" /\ queue # <<>> /\ up.id = Head(queue) /\ queue' = queue
      BY <1>6 DEF PersistResult, StoresInv, Uploading
    <2>2. up.id \in ToSet(queue) /\ up.id \in Ids
      BY <2>1, QueueFacts DEF StoresInv, Queued
    <2>3. CASE up' = NoUpload /\ UNCHANGED <<overlay, results>>
      <3>1. Uploading'
        BY <1>1, <2>1, <2>3 DEF StoresInv, Uploading, NoUpload
      <3>2. QED
        BY <1>3, <2>1, <2>3, <3>1
    <2>4. CASE /\ overlay' = overlay \ {up.id} /\ up' = [up EXCEPT !.pc = "complete"]
               /\ results' = IF HasResult(up.id) THEN results
                             ELSE [id \in DOMAIN results \union {up.id} |->
                                     IF id = up.id THEN Stored(up.result) ELSE results[id]]
      <3>1. /\ DOMAIN results' = DOMAIN results \union {up.id}
            /\ \A id \in DOMAIN results' : results'[id].done => id \in DOMAIN results /\ results[id].done
        BY <2>4 DEF HasResult, Stored
      <3>2. up'.pc = "complete" /\ up'.id = up.id /\ DOMAIN up' = DOMAIN up
        BY <2>4 DEF StoresInv, Uploading
      <3>3. Queued'
        BY <1>1, <2>1, <2>2, <2>4, <3>1 DEF StoresInv, Queued
      <3>4. Uploading'
        BY <1>1, <2>1, <3>1, <3>2 DEF StoresInv, Uploading, HasResult
      <3>5. Waiting'
        <4>1. DOMAIN results' \subseteq overlay \union DOMAIN results
          BY <2>2, <3>1 DEF StoresInv, Queued
        <4>2. CASE pc # "cleared"
          BY <1>1, <2>4, <4>1, <4>2, WaitingLess
        <4>3. CASE pc = "cleared"
          BY <2>1, <4>3, Phases DEF StoresInv, Uploading
        <4>4. QED
          BY <4>2, <4>3
      <3>6. QED
        BY <1>2, <3>3, <3>4, <3>5 DEF StoresInv
    <2>5. QED
      BY <1>6, <2>3, <2>4 DEF PersistResult
  <1>7. CASE CompleteTransaction
    <2>1. /\ up.pc = "complete" /\ queue # <<>> /\ up.id = Head(queue) /\ queue' = Tail(queue)
          /\ up' = [up EXCEPT !.pc = "mark"] /\ UNCHANGED <<overlay, results>>
      BY <1>7 DEF CompleteTransaction, StoresInv, Uploading
    <2>2. /\ queue' \in Seq(Ids) /\ up.id \in ToSet(queue) /\ ToSet(queue') = ToSet(queue) \ {up.id}
          /\ \A i, j \in 1..Len(queue') : queue'[i] = queue'[j] => i = j
      BY <2>1, QueueFacts DEF StoresInv, Queued
    <2>3. up'.pc = "mark" /\ up'.id = up.id /\ DOMAIN up' = DOMAIN up
      BY <2>1 DEF StoresInv, Uploading
    <2>4. pc # "clear_overlays"
      BY <2>1 DEF StoresInv, Queued
    <2>5. Queued'
      BY <1>1, <2>1, <2>2, <2>4 DEF StoresInv, Queued
    <2>6. Uploading'
      <3>1. up.id \in accepted \ ToSet(queue')
        BY <2>2 DEF StoresInv, Queued
      <3>2. QED
        BY <1>1, <2>1, <2>3, <3>1 DEF StoresInv, Uploading
    <2>7. Waiting'
      BY <1>1, <2>1 DEF StoresInv, Waiting
    <2>8. QED
      BY <1>2, <2>5, <2>6, <2>7 DEF StoresInv
  <1>8. CASE MarkCompleted
    <2>1. /\ up.pc = "mark" /\ up' = NoUpload /\ UNCHANGED <<queue, overlay>> /\ up.id \notin ToSet(queue)
          /\ results' = [results EXCEPT ![up.id].done = TRUE]
      BY <1>8 DEF MarkCompleted, StoresInv, Uploading
    <2>2. DOMAIN results' = DOMAIN results /\ \A id \in DOMAIN results : id # up.id => results'[id] = results[id]
      BY <2>1
    <2>3. Queued'
      BY <1>1, <2>1, <2>2 DEF StoresInv, Queued
    <2>4. Uploading'
      BY <1>1, <2>1 DEF StoresInv, Uploading, NoUpload
    <2>5. Waiting'
      BY <1>1, <2>1, <2>2 DEF StoresInv, Waiting
    <2>6. QED
      BY <1>2, <2>3, <2>4, <2>5 DEF StoresInv
  <1>9. QED
    BY <1>4, <1>5, <1>6, <1>7, <1>8 DEF Upload

\* Every step keeps the stores.
LEMMA NextStoresInv == SessionInv /\ StoresInv /\ [Next]_vars => StoresInv'
  <1> SUFFICES ASSUME SessionInv, StoresInv, [Next]_vars PROVE StoresInv'
    OBVIOUS
  <1>1. CASE UNCHANGED vars
    BY <1>1, IdleStep DEF vars, durable, process, application
  <1>2. CASE ResetSteps
    BY <1>2, SnapshotStores, RotateStores, ConnectStores, QuarantineStores, FinalizeStores, ClearStores DEF ResetSteps
  <1>3. CASE Enqueue \/ \E id \in Ids : AddOverlay(id) \/ AcknowledgeResult(id) \/ Discard(id)
    BY <1>3, AddOverlayStores, EnqueueStores, DismissStores
  <1>4. CASE \/ \E q \in wire : Serve(q) \/ DropAnswer(q)
             \/ \E x \in Resources : Revoke(x)
             \/ Environment
    BY <1>4, IdleStep DEF Serve, DropAnswer, Revoke, Environment, clientVars, durable, process, application
  <1>5. QED
    BY <1>1, <1>2, <1>3, <1>4, OpeningStores, UploadStores DEF Next

\* The stores of the client keep their shape and, but for the commands that
\* were queued during a reset, their capacity.
THEOREM ClientStoresHold == Spec => [](SessionInv /\ StoresInv)
  BY InitSessionInv, NextSessionInv, InitStoresInv, NextStoresInv, PTL DEF Spec

\* What a crash leaves can be opened again: the quarantine of a reset is there,
\* the sidecar has a session of the reset file, nothing is over its capacity
\* unless commands were queued during a reset; and the server still takes a session that is on disk, whatever request or
\* answer of a rotation was lost.
THEOREM ClientReopensAfterCrash == Spec => []ReopensAfterCrash
  <1>1. SessionInv /\ StoresInv => ReopensAfterCrash
    <2> SUFFICES ASSUME SessionInv, StoresInv PROVE ReopensAfterCrash
      OBVIOUS
    <2>1. ASSUME pc = "closed" PROVE ~ResetWithoutQuarantine /\ ~SessionMismatch
      BY <2>1 DEF SessionInv, Files, SessionsHeld, WhileQuarantined, WhileStaged, WhileCleared, ResetFile,
         ResetWithoutQuarantine, SessionMismatch
    <2>2. ASSUME Active \intersect exposed = {} PROVE ~OverCapacity
      <3> DEFINE A == overlay \union DOMAIN results
      <3>1. A \subseteq Ids /\ Active = A /\ FinalIds \subseteq Ids
        BY DEF StoresInv, Queued, InQuarantine, Active, HasResult
      <3>2. Fits(A, quar.fin)
        <4>1. A \ exposed = A
          BY <2>2, <3>1
        <4>2. QED
          BY <4>1 DEF StoresInv, Waiting
      <3> HIDE DEF A
      <3>3. Cardinality(A) \in Nat /\ Cardinality(quar.fin) \in Nat
        <4>1. IsFiniteSet(A)
          BY <3>1, IdsFinite, FS_Subset
        <4>2. QED
          BY <4>1, FS_CardinalityType DEF StoresInv, InQuarantine
      <3>4. SumOver(A, Reserved) \in Nat /\ SumOver(FinalIds, QuarantineReserved) \in Nat
        BY <3>1, SumFacts, CapacityAssumption
      <3>5. QED
        BY <3>1, <3>2, <3>3, <3>4, CapacityAssumption DEF OverCapacity, UsedCount, UsedBytes, Fits, FinalIds
    <2>3. ASSUME sess # None
          PROVE  \/ LockReplica(Me, sess)
                 \/ /\ rst # None
                    /\ \/ ResetReplayed(Me, rst.old, rst.q) /\ sess = rst.old
                       \/ rst.new # None /\ LockReplica(Me, rst.new)
      <3>1. CASE rst = None
        BY <2>3, <3>1, HeldIs DEF SessionInv, SessionsHeld, WithoutReset
      <3>2. CASE rst # None /\ rst.phase = "quarantined"
        BY <2>3, <3>2, HeldIs DEF SessionInv, SessionsHeld, WhileQuarantined
      <3>3. CASE rst # None /\ rst.phase = "session_staged"
        BY <2>3, <3>3, HeldIs, StagedSession, Present DEF SessionInv, SessionsHeld, WhileStaged
      <3>4. CASE rst # None /\ rst.phase = "cleared"
        BY <2>3, <3>4, HeldIs DEF SessionInv, SessionsHeld, WhileCleared
      <3>5. QED
        BY <3>1, <3>2, <3>3, <3>4 DEF SessionInv, Files, ResetFile
    <2>4. QED
      BY <2>1, <2>2, <2>3 DEF ReopensAfterCrash
  <1>2. QED
    BY <1>1, ClientStoresHold, PTL

-----------------------------------------------------------------------------
(***************************************************************************)
(* What the client is told about a command.                                *)
(***************************************************************************)

\* A command has one receipt, and one change exactly when that says applied.
OwnRecords ==
    /\ \A p, r \in receipt : p.id = r.id => p = r
    /\ \A p \in receipt :
          /\ p.user = Me
          /\ p.code = "applied" => \E e \in events : {x \in events : x.id = p.id} = {e}
    /\ \A e \in events : \E p \in receipt : p.id = e.id /\ p.code = "applied"

\* What a result says of a command is what its receipt says.
TrueOf(R, id, r) ==
    /\ r.state = "applied" => \E p \in R : p.id = id /\ p.code = "applied"
    /\ r.state = "conflict" => \E p \in R : p.id = id /\ p.code # "applied"

\* A request on the wire and what its answer says by the receipts R.
Request(R, n, q) ==
    /\ DOMAIN q = {"n", "user", "session", "cmd", "phase", "answer"}
    /\ q.user = Me /\ q.n \in Nat /\ q.n < n
    /\ q.phase = "answered" /\ q.answer.status \in {"ok", "denied"} => TrueOf(R, q.cmd.id, q.answer.result)

\* So it is of the answers on their way, of the one the callback holds, which
\* is an answer to its own request, and of the results in the table.
Answers ==
    /\ sent \in Nat
    /\ \A q \in wire : Request(receipt, sent, q)
    /\ up.pc = "wait" => \A q \in wire : q.n = up.n => q.cmd.id = up.id
    /\ up.pc = "persist" => TrueOf(receipt, up.id, up.result)
    /\ \A id \in DOMAIN results :
          /\ DOMAIN results[id] = {"state", "code", "prev", "cur", "digest", "done"}
          /\ TrueOf(receipt, id, results[id])

\* Third part of the client's invariant: what it has been told is true.
AnswersInv == OwnRecords /\ Answers

\* What is true by some receipts stays so when there are more of them.
LEMMA TrueOfMore ==
    ASSUME NEW R, NEW T, R \subseteq T, NEW id, NEW r, TrueOf(R, id, r)
    PROVE  TrueOf(T, id, r)
  BY DEF TrueOf

\* So does what an answer on the wire says.
LEMMA RequestMore ==
    ASSUME NEW R, NEW T, R \subseteq T, NEW n \in Nat, NEW m \in Nat, n <= m, NEW q, Request(R, n, q)
    PROVE  Request(T, m, q)
  BY TrueOfMore DEF Request

\* Nothing has been said at the start.
LEMMA InitAnswersInv == Init => AnswersInv
  BY DEF Init, ServerInit, AnswersInv, OwnRecords, Answers, NoUpload

\* A step that neither sends nor answers, and leaves the results alone.
LEMMA SilentStep ==
    ASSUME AnswersInv, UNCHANGED <<receipt, events, wire, sent, results>>, up' = up \/ up' = NoUpload
    PROVE  AnswersInv'
  BY DEF AnswersInv, OwnRecords, Answers, NoUpload

\* Most steps are so.
LEMMA SilentSteps ==
    ASSUME \/ Open \/ Register \/ Crash \/ StartReset \/ ResetSteps \/ Enqueue \/ Environment
           \/ \E id \in Ids : AddOverlay(id) \/ Discard(id)
           \/ \E x \in Resources : Revoke(x)
    PROVE  UNCHANGED <<receipt, events, wire, sent, results>> /\ (up' = up \/ up' = NoUpload)
  <1>1. Down \/ Fail => up' = up \/ up' = NoUpload
    BY DEF Down, Fail
  <1>2. \A k : Step(k) => up' = up
    BY DEF Step
  <1> USE DEF Rest, serverVars, durable, process, counters, clientVars
  <1>3. CASE Open \/ Crash \/ StartReset \/ Enqueue
    BY <1>1, <1>3 DEF Open, Crash, StartReset, Enqueue
  <1>4. CASE Register
    BY <1>1, <1>2, <1>4 DEF Register, RegisterReplica
  <1>5. CASE Environment \/ \E x \in Resources : Revoke(x)
    BY <1>5 DEF Environment, Tick, RunRetention, Revoke, ChangeMembership
  <1>6. CASE \E id \in Ids : AddOverlay(id) \/ Discard(id)
    BY <1>6 DEF AddOverlay, Discard
  <1>7. CASE ResetSteps
    <2>1. CASE Snapshot \/ Disconnect \/ Quarantine \/ Begin
      BY <1>1, <1>2, <2>1 DEF Snapshot, Disconnect, Quarantine, Begin
    <2>2. CASE RequestReset \/ Adopt \/ Confirm
      BY <1>1, <1>2, <2>2 DEF RequestReset, ResetReplica, Adopt, Confirm, AcknowledgeReset
    <2>3. CASE ClearDatabase \/ ClearOverlays \/ Cleared \/ Finalize \/ Unlink
      BY <1>1, <1>2, <2>3 DEF ClearDatabase, ClearOverlays, Cleared, Finalize, Unlink
    <2>4. CASE Challenge \/ Connect \/ Observe
      BY <1>1, <1>2, <2>4 DEF Challenge, IssueChallenge, Connect, Observe, AcknowledgeChallenge
    <2>5. QED
      BY <1>7, <2>1, <2>2, <2>3, <2>4 DEF ResetSteps
  <1>8. QED
    BY <1>3, <1>4, <1>5, <1>6, <1>7

\* The client's own steps with its requests and results.
LEMMA UploadAnswers ==
    ASSUME StoresInv, AnswersInv, Upload \/ UploadLost \/ \E id \in Ids : AcknowledgeResult(id)
    PROVE  AnswersInv'
  <1>0. UNCHANGED <<receipt, events>>
    BY DEF Upload, UploadLost, StartUpload, SendCommand, PersistResult, CompleteTransaction, MarkCompleted,
       UploadAnswered, AcknowledgeResult, serverVars
  <1>1. OwnRecords'
    BY <1>0 DEF AnswersInv, OwnRecords
  <1>2. DOMAIN up = {"pc", "id", "n", "result"}
    BY DEF StoresInv, Uploading
  <1>3. CASE StartUpload
    <2> DEFINE q == [n |-> sent, user |-> Me, session |-> msess, cmd |-> Content(Head(queue)),
                     phase |-> "sent", answer |-> None]
    <2>1. /\ queue # <<>> /\ sent' = sent + 1 /\ wire' = wire \union {q} /\ results' = results
          /\ up' = [pc |-> "wait", id |-> Head(queue), n |-> sent, result |-> None]
      BY <1>3 DEF StartUpload, SendCommand
    <2>2. Content(Head(queue)).id = Head(queue)
      <3>1. Head(queue) \in Ids
        BY <2>1, QueueFacts DEF StoresInv, Queued
      <3>2. QED
        BY <3>1 DEF Ids, Content
    <2>3. sent \in Nat /\ \A r \in wire : Request(receipt, sent, r)
      BY DEF AnswersInv, Answers
    <2>4. \A r \in wire' : Request(receipt', sent', r)
      <3>1. Request(receipt', sent', q)
        BY <1>0, <2>1, <2>3 DEF Request
      <3>2. \A r \in wire : Request(receipt', sent', r)
        <4>1. sent' \in Nat /\ sent <= sent' /\ receipt \subseteq receipt'
          BY <1>0, <2>1, <2>3
        <4>2. QED
          BY <2>3, <4>1, RequestMore
      <3>3. QED
        BY <2>1, <3>1, <3>2
    <2>5. \A r \in wire' : r.n = up'.n => r.cmd.id = up'.id
      <3>1. \A r \in wire : r.n # sent
        BY <2>3 DEF Request
      <3>2. QED
        BY <2>1, <2>2, <3>1
    <2>6. QED
      BY <1>0, <1>1, <2>1, <2>3, <2>4, <2>5 DEF AnswersInv, Answers
  <1>4. CASE UploadLost
    <2>1. UNCHANGED <<wire, results, sent>> /\ up.pc = "wait"
      BY <1>4 DEF UploadLost
    <2>2. up' = NoUpload \/ up' = [up EXCEPT !.pc = "persist", !.result = LocalFailure(up.id, "retry_exhausted")]
      BY <1>4 DEF UploadLost, Transient
    <2>3. CASE up' = NoUpload
      BY <1>0, <2>1, <2>3, SilentStep
    <2>4. CASE up' = [up EXCEPT !.pc = "persist", !.result = LocalFailure(up.id, "retry_exhausted")]
      <3>1. up'.pc = "persist" /\ up'.result.state = "failed"
        BY <1>2, <2>4 DEF LocalFailure
      <3>2. QED
        BY <1>0, <1>1, <2>1, <3>1 DEF AnswersInv, Answers, TrueOf
    <2>5. QED
      BY <2>2, <2>3, <2>4
  <1>5. ASSUME NEW q \in wire, UploadAnswered(q) PROVE AnswersInv'
    <2>1. UNCHANGED <<results, sent>> /\ up.pc = "wait" /\ wire' = wire \ {q} /\ q.phase = "answered" /\ q.n = up.n
      BY <1>5 DEF UploadAnswered
    <2>2. ASSUME TrueOf(receipt', up'.id, up'.result) \/ up'.pc = "idle", up'.pc # "wait" PROVE AnswersInv'
      BY <1>0, <1>1, <2>1, <2>2 DEF AnswersInv, Answers
    <2>3. CASE up' = NoUpload
      BY <2>2, <2>3 DEF NoUpload
    <2>4. ASSUME NEW c, up' = [up EXCEPT !.pc = "persist", !.result = LocalFailure(up.id, c)] PROVE AnswersInv'
      <3>1. up'.pc = "persist" /\ up'.result.state = "failed"
        BY <1>2, <2>4 DEF LocalFailure
      <3>2. QED
        BY <2>2, <3>1 DEF TrueOf
    <2>5. CASE q.answer.status \in {"ok", "denied"} /\ up' = [up EXCEPT !.pc = "persist", !.result = q.answer.result]
      <3>1. up'.pc = "persist" /\ up'.result = q.answer.result /\ up'.id = up.id
        BY <1>2, <2>5
      <3>2. q.cmd.id = up.id /\ TrueOf(receipt, q.cmd.id, q.answer.result)
        BY <2>1, <2>5 DEF AnswersInv, Answers, Request
      <3>3. QED
        BY <1>0, <2>2, <3>1, <3>2
    <2>6. Transient => up' = NoUpload \/ up' = [up EXCEPT !.pc = "persist", !.result = LocalFailure(up.id, "retry_exhausted")]
      BY DEF Transient
    <2>7. \/ Transient \/ up' = NoUpload
          \/ up' = [up EXCEPT !.pc = "persist", !.result = LocalFailure(up.id, q.answer.status)]
          \/ q.answer.status \in {"ok", "denied"} /\ up' = [up EXCEPT !.pc = "persist", !.result = q.answer.result]
      BY <1>5 DEF UploadAnswered
    <2>8. QED
      BY <2>3, <2>4, <2>5, <2>6, <2>7
  <1>6. CASE PersistResult
    <2>1. UNCHANGED <<wire, sent>> /\ up.pc = "persist" /\ TrueOf(receipt, up.id, up.result)
      BY <1>6 DEF PersistResult, AnswersInv, Answers
    <2>2. CASE up' = NoUpload /\ results' = results
      BY <1>0, <2>1, <2>2, SilentStep
    <2>3. CASE /\ up' = [up EXCEPT !.pc = "complete"]
               /\ results' = IF HasResult(up.id) THEN results
                             ELSE [id \in DOMAIN results \union {up.id} |->
                                     IF id = up.id THEN Stored(up.result) ELSE results[id]]
      <3>1. up'.pc = "complete"
        BY <1>2, <2>3
      <3>2. /\ DOMAIN Stored(up.result) = {"state", "code", "prev", "cur", "digest", "done"}
            /\ TrueOf(receipt, up.id, Stored(up.result))
        BY <2>1 DEF Stored, TrueOf
      <3>3. \A id \in DOMAIN results' :
               \/ id \in DOMAIN results /\ results'[id] = results[id]
               \/ id = up.id /\ results'[id] = Stored(up.result)
        BY <2>3 DEF HasResult
      <3>4. \A id \in DOMAIN results' :
               /\ DOMAIN results'[id] = {"state", "code", "prev", "cur", "digest", "done"}
               /\ TrueOf(receipt, id, results'[id])
        BY <3>2, <3>3 DEF AnswersInv, Answers
      <3>5. QED
        BY <1>0, <1>1, <2>1, <3>1, <3>4 DEF AnswersInv, Answers
    <2>4. QED
      BY <1>6, <2>2, <2>3 DEF PersistResult
  <1>7. CASE CompleteTransaction
    <2>1. UNCHANGED <<wire, sent, results>> /\ up'.pc = "mark"
      BY <1>2, <1>7 DEF CompleteTransaction
    <2>2. QED
      BY <1>0, <1>1, <2>1 DEF AnswersInv, Answers
  <1>8. CASE MarkCompleted
    <2>1. UNCHANGED <<wire, sent>> /\ up' = NoUpload /\ results' = [results EXCEPT ![up.id].done = TRUE]
      BY <1>8 DEF MarkCompleted
    <2>2. ASSUME NEW id \in DOMAIN results'
          PROVE  /\ DOMAIN results'[id] = {"state", "code", "prev", "cur", "digest", "done"}
                 /\ TrueOf(receipt, id, results'[id])
      <3>1. id \in DOMAIN results /\ DOMAIN results[id] = {"state", "code", "prev", "cur", "digest", "done"}
            /\ TrueOf(receipt, id, results[id])
        BY <2>1, <2>2 DEF AnswersInv, Answers
      <3>2. results'[id] = results[id] \/ results'[id] = [results[id] EXCEPT !.done = TRUE]
        BY <2>1, <3>1
      <3>3. DOMAIN results'[id] = DOMAIN results[id] /\ results'[id].state = results[id].state
        BY <3>1, <3>2
      <3>4. QED
        BY <3>1, <3>3 DEF TrueOf
    <2>3. QED
      BY <1>0, <1>1, <2>1, <2>2 DEF AnswersInv, Answers, NoUpload
  <1>9. ASSUME NEW id \in Ids, AcknowledgeResult(id) PROVE AnswersInv'
    <2>1. /\ UNCHANGED <<wire, sent, up>> /\ DOMAIN results' \subseteq DOMAIN results
          /\ \A i \in DOMAIN results' : results'[i] = results[i]
      BY <1>9 DEF AcknowledgeResult, Restrict, process, counters
    <2>2. QED
      BY <1>0, <1>1, <2>1 DEF AnswersInv, Answers
  <1>10. QED
    BY <1>3, <1>4, <1>5, <1>6, <1>7, <1>8, <1>9 DEF Upload

\* The answer that an execution gives is what its receipt says.
LEMMA ExecuteAnswer ==
    ASSUME AnswersInv, NEW q \in wire, ExecuteCommand(q)
    PROVE  /\ receipt \subseteq receipt'
           /\ OwnRecords'
           /\ \E a : wire' = Answered(q, a) /\ (a.status \in {"ok", "denied"} => TrueOf(receipt', q.cmd.id, a.result))
  <1> DEFINE code == ExecuteOutcome(q)
             p0 == NewReceipt(q, code)
             kept == IF ReceiptsOf(q) # {} THEN ReceiptsOf(q) ELSE {p0}
             result == ResultFrom(CHOOSE p \in kept : TRUE, code = "command_denied")
             e0 == [user |-> q.user, id |-> q.cmd.id, res |-> q.cmd.res,
                    inc |-> resource[q.cmd.res].inc, ver |-> q.cmd.ver + 1]
  <1>1. /\ q.user = Me /\ p0.user = Me /\ p0.id = q.cmd.id /\ p0.code = code /\ e0.id = q.cmd.id
    BY DEF NewReceipt, AnswersInv, Answers, Request
  <1>2. /\ code = "applied" =>
            receipt' = receipt \union {p0} /\ events' = events \union {e0} /\ ReceiptsOf(q) = {}
        /\ code # "applied" =>
            /\ events' = events
            /\ receipt' = receipt \/ (receipt' = receipt \union {p0} /\ ReceiptsOf(q) = {})
    BY AppliedOutcome DEF ExecuteCommand, Replies, ReceiptsAfter
  <1>3. code \in Replies => receipt' = IF ReceiptsOf(q) # {} THEN receipt ELSE receipt \union {p0}
    BY DEF ExecuteCommand, ReceiptsAfter
  <1>4. code \in Replies =>
           wire' = Answered(q, [status |-> IF code = "command_denied" THEN "denied" ELSE "ok", result |-> result])
    BY DEF ExecuteCommand
  <1>5. code \notin Replies => wire' = Answered(q, Status(code))
    BY DEF ExecuteCommand
  <1>6. code # "ok" /\ code # "denied"
    BY DEF ExecuteOutcome
  <1>7. code \in Replies /\ ReceiptsOf(q) = {} => code # "replay"
    BY DEF ExecuteOutcome
  <1>8. receipt \subseteq receipt'
    BY <1>2
  <1>9. OwnRecords'
    <2>1. ReceiptsOf(q) = {} => \A p \in receipt : p.id # q.cmd.id
      BY <1>1 DEF ReceiptsOf, AnswersInv, OwnRecords
    <2> HIDE DEF code, p0, e0, kept, result
    <2>2. CASE receipt' = receipt /\ events' = events
      BY <2>2 DEF AnswersInv, OwnRecords
    <2>3. CASE receipt' = receipt \union {p0} /\ events' = events /\ code # "applied" /\ ReceiptsOf(q) = {}
      BY <1>1, <2>1, <2>3 DEF AnswersInv, OwnRecords
    <2>4. CASE receipt' = receipt \union {p0} /\ events' = events \union {e0} /\ code = "applied" /\ ReceiptsOf(q) = {}
      <3>1. \A e \in events : e.id # q.cmd.id
        BY <2>1, <2>4 DEF AnswersInv, OwnRecords
      <3>2. {x \in events' : x.id = q.cmd.id} = {e0}
        BY <1>1, <2>4, <3>1
      <3>3. \A p \in receipt : p.code = "applied" => \E e \in events' : {x \in events' : x.id = p.id} = {e}
        <4> SUFFICES ASSUME NEW p \in receipt, p.code = "applied"
                     PROVE  \E e \in events' : {x \in events' : x.id = p.id} = {e}
          OBVIOUS
        <4>1. PICK e \in events : {x \in events : x.id = p.id} = {e}
          BY DEF AnswersInv, OwnRecords
        <4>2. p.id # q.cmd.id
          BY <2>1, <2>4
        <4>3. {x \in events' : x.id = p.id} = {x \in events : x.id = p.id}
          BY <1>1, <2>4, <4>2
        <4>4. QED
          BY <2>4, <4>1, <4>3
      <3>4. \A p \in receipt' : p.code = "applied" => \E e \in events' : {x \in events' : x.id = p.id} = {e}
        BY <1>1, <2>4, <3>2, <3>3
      <3>5. \A p, r \in receipt' : p.id = r.id => p = r
        BY <1>1, <2>1, <2>4 DEF AnswersInv, OwnRecords
      <3>6. \A p \in receipt' : p.user = Me
        BY <1>1, <2>4 DEF AnswersInv, OwnRecords
      <3>7. \A e \in events' : \E p \in receipt' : p.id = e.id /\ p.code = "applied"
        BY <1>1, <2>4 DEF AnswersInv, OwnRecords
      <3>8. QED
        BY <3>4, <3>5, <3>6, <3>7 DEF OwnRecords
    <2>5. QED
      BY <1>2, <2>2, <2>3, <2>4
  <1>10. ASSUME code \in Replies PROVE TrueOf(receipt', q.cmd.id, result)
    <2>1. PICK p : p = (CHOOSE r \in kept : TRUE)
      OBVIOUS
    <2>2. p \in kept
      BY <2>1
    <2>3. p \in receipt' /\ p.id = q.cmd.id
      BY <1>1, <1>3, <1>10, <2>2 DEF ReceiptsOf
    <2>4. result = ResultFrom(p, code = "command_denied")
      BY <2>1
    <2>5. /\ result.state = "applied" => p.code = "applied"
          /\ result.state = "conflict" => p.code # "applied"
      BY <2>4 DEF ResultFrom, StateOf
    <2>6. QED
      BY <2>3, <2>5 DEF TrueOf
  <1>11. \E a : wire' = Answered(q, a) /\ (a.status \in {"ok", "denied"} => TrueOf(receipt', q.cmd.id, a.result))
    <2> HIDE DEF result, code
    <2>1. CASE code \in Replies
      <3> DEFINE a == [status |-> IF code = "command_denied" THEN "denied" ELSE "ok", result |-> result]
      <3>1. wire' = Answered(q, a) /\ a.result = result
        BY <1>4, <2>1
      <3>2. QED
        BY <1>10, <2>1, <3>1
    <2>2. CASE code \notin Replies
      <3>1. wire' = Answered(q, Status(code)) /\ Status(code).status = code
        BY <1>5, <2>2 DEF Status
      <3>2. QED
        BY <1>6, <3>1
    <2>3. QED
      BY <2>1, <2>2
  <1>12. QED
    BY <1>8, <1>9, <1>11

\* A request that is replaced by one that is as good.
LEMMA WireReplaced ==
    ASSUME AnswersInv, NEW q \in wire, NEW r, wire' \subseteq wire \union {r},
           r.n = q.n, r.cmd = q.cmd, Request(receipt', sent, r),
           receipt \subseteq receipt', OwnRecords', UNCHANGED <<sent, up, results>>
    PROVE  AnswersInv'
  <1>1. sent \in Nat
    BY DEF AnswersInv, Answers
  <1>2. \A s \in wire' : Request(receipt', sent', s)
    <2>1. \A s \in wire : Request(receipt', sent, s)
      BY <1>1, RequestMore DEF AnswersInv, Answers
    <2>2. QED
      BY <2>1
  <1>3. up'.pc = "wait" => \A s \in wire' : s.n = up'.n => s.cmd.id = up'.id
    BY DEF AnswersInv, Answers
  <1>4. up'.pc = "persist" => TrueOf(receipt', up'.id, up'.result)
    BY TrueOfMore DEF AnswersInv, Answers
  <1>5. \A id \in DOMAIN results' :
           /\ DOMAIN results'[id] = {"state", "code", "prev", "cur", "digest", "done"}
           /\ TrueOf(receipt', id, results'[id])
    BY TrueOfMore DEF AnswersInv, Answers
  <1>6. QED
    BY <1>1, <1>2, <1>3, <1>4, <1>5 DEF AnswersInv, Answers

\* The server answers by its receipt, which it writes with the change.
LEMMA ServeAnswers ==
    ASSUME AnswersInv, NEW q \in wire, Serve(q) \/ DropAnswer(q)
    PROVE  AnswersInv'
  <1>1. UNCHANGED <<sent, up, results>>
    BY DEF Serve, DropAnswer, clientVars, durable, process
  <1>2. Request(receipt, sent, q)
    BY DEF AnswersInv, Answers
  <1>3. ASSUME NEW a, wire' = Answered(q, a), a.status \in {"ok", "denied"} => TrueOf(receipt', q.cmd.id, a.result),
               receipt \subseteq receipt', OwnRecords'
        PROVE  AnswersInv'
    <2> DEFINE r == [q EXCEPT !.phase = "answered", !.answer = a]
    <2>1. r.n = q.n /\ r.cmd = q.cmd /\ r.user = q.user /\ r.answer = a /\ DOMAIN r = DOMAIN q
      BY <1>2 DEF Request
    <2>2. wire' \subseteq wire \union {r}
      BY <1>3 DEF Answered
    <2> HIDE DEF r
    <2>3. Request(receipt', sent, r)
      BY <1>2, <1>3, <2>1 DEF Request
    <2>4. QED
      BY <1>1, <1>3, <2>1, <2>2, <2>3, WireReplaced
  <1>4. CASE DropAnswer(q)
    <2>1. UNCHANGED <<receipt, events>> /\ wire' \subseteq wire \union {q}
      BY <1>4 DEF DropAnswer, serverVars
    <2>2. OwnRecords'
      BY <2>1 DEF AnswersInv, OwnRecords
    <2>3. QED
      BY <1>1, <1>2, <2>1, <2>2, WireReplaced
  <1>5. CASE AdmitCommand(q)
    <2>1. UNCHANGED <<receipt, events>>
      BY <1>5 DEF AdmitCommand
    <2>2. OwnRecords'
      BY <2>1 DEF AnswersInv, OwnRecords
    <2>3. ASSUME NEW k, k \notin {"ok", "denied"}, wire' = Answered(q, Status(k)) PROVE AnswersInv'
      BY <1>3, <2>1, <2>2, <2>3 DEF Status
    <2>4. CASE wire' = (wire \ {q}) \union {[q EXCEPT !.phase = "admitted"]}
      <3> DEFINE r == [q EXCEPT !.phase = "admitted"]
      <3>1. r.n = q.n /\ r.cmd = q.cmd /\ r.user = q.user /\ r.phase = "admitted" /\ DOMAIN r = DOMAIN q
        BY <1>2 DEF Request
      <3>2. wire' \subseteq wire \union {r}
        BY <2>4
      <3> HIDE DEF r
      <3>3. Request(receipt', sent, r)
        BY <1>2, <2>1, <3>1 DEF Request
      <3>4. QED
        BY <1>1, <2>1, <2>2, <3>1, <3>2, <3>3, WireReplaced
    <2>5. RateOutcome(q) \notin {"ok", "denied"} /\ "backpressure" \notin {"ok", "denied"}
      BY DEF RateOutcome
    <2>6. QED
      BY <1>5, <2>3, <2>4, <2>5 DEF AdmitCommand
  <1>6. CASE ExecuteCommand(q)
    BY <1>3, <1>6, ExecuteAnswer
  <1>7. QED
    BY <1>4, <1>5, <1>6 DEF Serve

\* Every step keeps the answers true.
LEMMA NextAnswersInv == StoresInv /\ AnswersInv /\ [Next]_vars => AnswersInv'
  <1> SUFFICES ASSUME StoresInv, AnswersInv, [Next]_vars PROVE AnswersInv'
    OBVIOUS
  <1>1. CASE UNCHANGED vars
    BY <1>1, SilentStep DEF vars, serverVars, durable, process, counters
  <1>2. CASE \/ Open \/ Register \/ Crash \/ StartReset \/ ResetSteps \/ Enqueue \/ Environment
             \/ \E id \in Ids : AddOverlay(id) \/ Discard(id)
             \/ \E x \in Resources : Revoke(x)
    BY <1>2, SilentSteps, SilentStep
  <1>3. CASE Upload \/ UploadLost \/ \E id \in Ids : AcknowledgeResult(id)
    BY <1>3, UploadAnswers
  <1>4. CASE \E q \in wire : Serve(q) \/ DropAnswer(q)
    BY <1>4, ServeAnswers
  <1>5. QED
    BY <1>1, <1>2, <1>3, <1>4 DEF Next

-----------------------------------------------------------------------------
(***************************************************************************)
(* Where an accepted command is.                                           *)
(***************************************************************************)

\* An accepted command is somewhere, unless it was queued during a reset.  The
\* snapshot of a reset has every earlier overlay until they are cleared, and
\* from then on none of its commands is queued.
Somewhere ==
    /\ accepted \subseteq dismissed \union exposed \union ToSet(queue) \union overlay \union DOMAIN results
                            \union PendingIds \union FinalIds
    /\ rst = None /\ quar.pend # {} => pc \in {"begin", "closed"}
    /\ pc = "unlink" => quar.pend = {}
    /\ pc \in {"disconnect", "quarantine"} => overlay \subseteq cur
    /\ pc = "begin" \/ Rotating(rst) => overlay \subseteq PendingIds \union exposed
    /\ pc = "cleared" \/ Emptied(rst) => ToSet(queue) \intersect PendingIds = {}
    /\ ToSet(queue) \intersect FinalIds = {}
    /\ pc = "enqueue" => cur \notin FinalIds \union PendingIds

\* Requests carry the session of their time: until the server has rotated the
\* epoch none is newer than the reset that is under way, those of its pending
\* commands stay so, and those of a quarantined command are of an epoch that is
\* over.
SentBefore ==
    /\ sess = None => queue = <<>> /\ wire = {}
    /\ \A q \in wire :
          /\ q.session.rep = sess.rep /\ q.session.epoch \in Nat /\ q.session.epoch <= sess.epoch
          /\ Rotating(rst) \/ (Emptied(rst) /\ q.cmd.id \in PendingIds) => q.session.epoch <= rst.old.epoch
          /\ q.cmd.id \in FinalIds => q.session.epoch < sess.epoch

\* Last part: nothing accepted before a reset is lost, and nothing that was sent
\* can be carried out after it is in quarantine.
IntentInv == Somewhere /\ SentBefore

\* The three parts together.
ClientInv == SessionInv /\ StoresInv /\ AnswersInv

\* Nothing has been accepted at the start.
LEMMA InitIntentInv == Init => IntentInv
  BY DEF Init, ServerInit, IntentInv, Somewhere, SentBefore, ToSet, FinalIds, PendingIds, Rotating, Emptied

\* A step that only moves the control.
LEMMA ControlSomewhere ==
    ASSUME Somewhere, UNCHANGED <<queue, overlay, results, accepted, dismissed, exposed, quar>>,
           rst' = None /\ quar.pend # {} => pc' \in {"begin", "closed"},
           pc' = "unlink" => quar.pend = {},
           pc' \in {"disconnect", "quarantine"} => overlay \subseteq cur',
           pc' = "begin" \/ Rotating(rst') => pc = "begin" \/ Rotating(rst),
           pc' = "cleared" \/ Emptied(rst') => pc = "cleared" \/ Emptied(rst),
           pc' # "enqueue"
    PROVE  Somewhere'
  BY DEF Somewhere, FinalIds, PendingIds

\* The names of the steps that do no more, and do not touch the reset file.
LEMMA PlainSomewhere ==
    ASSUME Somewhere, UNCHANGED <<queue, overlay, results, accepted, dismissed, exposed, quar, rst>>,
           \/ pc' = "closed"
           \/ /\ pc \notin {"begin", "closed"} \/ ~PendingWithoutReset
              /\ pc' \notin {"unlink", "disconnect", "quarantine", "begin", "cleared", "enqueue"}
    PROVE  Somewhere'
  BY ControlSomewhere DEF Somewhere, PendingWithoutReset, Rotating, Emptied

\* A failed step loses nothing.
LEMMA FailSomewhere ==
    ASSUME Somewhere, UNCHANGED <<queue, overlay, results, accepted, dismissed, exposed, quar, rst>>,
           Down \/ (Fail /\ pc \notin {"begin", "closed"})
    PROVE  Somewhere'
  BY PlainSomewhere DEF Down, Fail, Goto

\* Neither do the steps that write no store.
LEMMA ControlStepsSomewhere ==
    ASSUME ClientInv, Somewhere, Open \/ Register \/ Crash \/ StartReset \/ Adopt \/ Confirm \/ Challenge \/ Connect \/ Observe
    PROVE  Somewhere'
  <1>1. UNCHANGED <<queue, overlay, results, accepted, dismissed, exposed, quar, rst>>
    BY DEF Open, Register, Crash, StartReset, Adopt, Confirm, Challenge, Connect, Observe, durable, Rest, application
  <1>2. CASE Down \/ (Fail /\ pc \notin {"begin", "closed"})
    BY <1>1, <1>2, FailSomewhere
  <1>3. CASE Open
    <2>1. ~PendingWithoutReset
      BY <1>3 DEF Open, OpenRefused
    <2>2. pc' \in {"register", "challenge", "reset", "adopt"}
      <3>1. rst # None => rst \in ResetFile
        BY Phases DEF ClientInv
      <3>2. QED
        BY <1>3, <3>1 DEF Open, Goto, ResumeAt, ResetFile
    <2>3. QED
      BY <1>1, <2>1, <2>2, PlainSomewhere
  <1>4. CASE Register
    BY <1>1, <1>2, <1>4, PlainSomewhere DEF Register, Step, Goto
  <1>5. CASE Crash
    BY <1>2, <1>5 DEF Crash
  <1>6. CASE StartReset
    BY <1>1, <1>6, PlainSomewhere DEF StartReset, Goto
  <1>7. CASE Adopt
    BY <1>1, <1>7, PlainSomewhere DEF Adopt, Step, Goto
  <1>8. CASE Confirm
    BY <1>1, <1>2, <1>8, PlainSomewhere DEF Confirm, Step, Goto
  <1>9. CASE Challenge
    BY <1>1, <1>2, <1>9, PlainSomewhere DEF Challenge, Step, Goto
  <1>10. CASE Connect
    <2>1. pc = "connect"
      BY <1>10 DEF Connect
    <2>2. CASE Down
      BY <1>2, <2>2
    <2>3. CASE pc' \in {"idle", "observe"}
      BY <1>1, <2>1, <2>3, PlainSomewhere
    <2>4. QED
      BY <1>10, <2>2, <2>3 DEF Connect, Step, Goto
  <1>11. CASE Observe
    BY <1>1, <1>2, <1>11, PlainSomewhere DEF Observe, Step, Goto
  <1>12. QED
    BY <1>3, <1>4, <1>5, <1>6, <1>7, <1>8, <1>9, <1>10, <1>11

\* The steps of the reset that the argument is about.
LEMMA SnapshotSomewhere ==
    ASSUME ClientInv, Somewhere, Snapshot \/ Disconnect \/ Quarantine \/ Begin
    PROVE  Somewhere'
  <1>1. UNCHANGED <<queue, overlay, results, accepted, dismissed, exposed>>
    BY DEF Snapshot, Disconnect, Quarantine, Begin, durable, Rest, application
  <1>2. rst = None
    BY Phases DEF Snapshot, Disconnect, Quarantine, Begin, ClientInv
  <1>3. CASE Fail /\ UNCHANGED <<quar, rst>> /\ pc \notin {"begin", "closed"}
    BY <1>1, <1>3, FailSomewhere
  <1>4. CASE Snapshot
    <2>1. UNCHANGED <<quar, rst>> /\ pc = "snapshot"
      BY <1>4 DEF Snapshot, durable
    <2>2. CASE cur' = ToSet(queue) \union overlay /\ pc' = "disconnect"
      BY <1>1, <1>2, <2>1, <2>2, ControlSomewhere DEF Somewhere, Rotating, Emptied
    <2>3. QED
      BY <1>3, <1>4, <2>1, <2>2 DEF Snapshot, Goto
  <1>5. CASE Disconnect
    <2>1. UNCHANGED <<quar, rst, cur>> /\ pc = "disconnect" /\ pc' = "quarantine"
      BY <1>5 DEF Disconnect, Step, Goto, durable
    <2>2. QED
      BY <1>1, <1>2, <2>1, ControlSomewhere DEF Somewhere, Rotating, Emptied
  <1>6. CASE Quarantine
    <2>1. rst' = rst /\ pc = "quarantine" /\ quar.pend = {} /\ overlay \subseteq cur
      BY <1>2, <1>6 DEF Quarantine, Somewhere
    <2>2. CASE Fail /\ quar' = quar
      BY <1>3, <2>1, <2>2
    <2>3. ASSUME NEW P, {p.id : p \in P} = cur, quar' = [quar EXCEPT !.here = TRUE, !.pend = P], Step("begin")
          PROVE  Somewhere'
      <3>1. pc' = "begin" /\ quar'.fin = quar.fin /\ quar'.pend = P
        BY <2>3 DEF Step, Goto, ClientInv, SessionInv, Files
      <3>2. PendingIds = {} /\ PendingIds' = cur /\ FinalIds' = FinalIds
        BY <2>1, <2>3, <3>1 DEF PendingIds, FinalIds
      <3>3. QED
        BY <1>1, <1>2, <2>1, <3>1, <3>2 DEF Somewhere, Rotating, Emptied
    <2>4. QED
      <3> DEFINE P == {[id |-> id, ok |-> ClassifiedPreserve(Me, msess, Content(id).res, Content(id).inc)] : id \in cur}
      <3>1. {p.id : p \in P} = cur
        <4>1. ASSUME NEW id \in cur PROVE \E p \in P : p.id = id
          <5>1. PICK r : r = [id |-> id, ok |-> ClassifiedPreserve(Me, msess, Content(id).res, Content(id).inc)]
            OBVIOUS
          <5>2. r \in P /\ r.id = id
            BY <5>1
          <5>3. QED
            BY <5>2
        <4>2. \A p \in P : p.id \in cur
          OBVIOUS
        <4> HIDE DEF P
        <4>3. QED
          BY <4>1, <4>2
      <3>2. (Fail /\ quar' = quar) \/ (quar' = [quar EXCEPT !.here = TRUE, !.pend = P] /\ Step("begin"))
        BY <1>6 DEF Quarantine
      <3> HIDE DEF P
      <3>3. QED
        BY <2>2, <2>3, <3>1, <3>2
  <1>7. CASE Begin
    <2>1. /\ quar' = quar /\ pc = "begin" /\ pc' = "reset"
          /\ rst' = [phase |-> "quarantined", q |-> resets + 1, old |-> msess, new |-> None]
      BY <1>7 DEF Begin, Step, Goto
    <2>2. rst' # None /\ ~Emptied(rst')
      <3>1. Files' /\ SessionsHeld'
        BY <1>7, BeginSession DEF ClientInv, SessionInv
      <3>2. pc' = "reset" => rst' # None
        BY <3>1 DEF SessionsHeld, WithoutReset
      <3>3. QED
        BY <2>1, <3>2 DEF Emptied
    <2>3. QED
      BY <1>1, <2>1, <2>2, ControlSomewhere
  <1>8. QED
    BY <1>4, <1>5, <1>6, <1>7

\* What a reset clears is in the quarantine file before it is cleared.
LEMMA ResetSomewhere ==
    ASSUME ClientInv, Somewhere, RequestReset \/ ClearDatabase \/ ClearOverlays \/ Cleared
    PROVE  Somewhere'
  <1>1. /\ UNCHANGED <<results, accepted, dismissed, exposed, quar>> /\ Rotating(rst) /\ ~Emptied(rst) /\ rst \in ResetFile
        /\ overlay \subseteq PendingIds \union exposed
    <2>1. Rotating(rst) /\ rst \in ResetFile
      BY Phases DEF RequestReset, ClearDatabase, ClearOverlays, Cleared, ClientInv, Rotating
    <2>2. QED
      BY <2>1 DEF RequestReset, ClearDatabase, ClearOverlays, Cleared, Rest, application, Rotating, Emptied, Somewhere
  <1>2. CASE RequestReset
    <2>1. UNCHANGED <<queue, overlay>> /\ pc = "reset"
      BY <1>2 DEF RequestReset
    <2>2. CASE Fail /\ rst' = rst
      BY <1>1, <2>1, <2>2, FailSomewhere
    <2>3. CASE Step("adopt") /\ rst' = [rst EXCEPT !.phase = "session_staged", !.new = ResetSession(rst.old, rst.q)]
      <3>1. pc' = "adopt" /\ rst'.phase = "session_staged" /\ rst' # None
        <4>1. SessionInv'
          BY <1>2, RequestResetSession DEF ClientInv
        <4>2. pc' = "adopt" => rst' # None
          BY <4>1 DEF SessionInv, SessionsHeld, WithoutReset
        <4>3. QED
          BY <1>1, <2>3, <4>2 DEF Step, Goto, ResetFile
      <3>2. QED
        BY <1>1, <2>1, <3>1, ControlSomewhere DEF Emptied
    <2>4. QED
      BY <1>2, <2>2, <2>3 DEF RequestReset
  <1>3. CASE ClearDatabase
    <2>1. queue' = <<>> /\ overlay' = overlay /\ rst' = rst /\ pc' = "clear_overlays"
      BY <1>3 DEF ClearDatabase, Step, Goto
    <2>2. ToSet(queue) \subseteq overlay \union DOMAIN results /\ ToSet(queue') = {}
      BY <2>1 DEF ClientInv, StoresInv, Queued, ToSet
    <2>3. QED
      BY <1>1, <2>1, <2>2 DEF Somewhere, FinalIds, PendingIds, Rotating
  <1>4. CASE ClearOverlays
    <2>1. queue = <<>> /\ queue' = queue /\ overlay' = {} /\ rst' = rst /\ pc' = "cleared"
      BY <1>4 DEF ClearOverlays, Step, Goto, ClientInv, StoresInv, Queued
    <2>2. ToSet(queue') = {}
      BY <2>1 DEF ToSet
    <2>3. QED
      BY <1>1, <2>1, <2>2 DEF Somewhere, FinalIds, PendingIds, Rotating
  <1>5. CASE Cleared
    <2>1. /\ UNCHANGED <<queue, overlay>> /\ pc = "cleared" /\ pc' = "challenge"
          /\ rst' = [rst EXCEPT !.phase = "cleared"]
      BY <1>5 DEF Cleared, Step, Goto
    <2>2. rst'.phase = "cleared" /\ rst' \in ResetFile /\ rst' # None
      BY <1>1, <2>1, Present DEF ResetFile
    <2>3. QED
      BY <1>1, <2>1, <2>2, ControlSomewhere DEF Rotating
  <1>6. QED
    BY <1>2, <1>3, <1>4, <1>5

\* Pending entries become final ones or were dismissed.
LEMMA FinishSomewhere ==
    ASSUME ClientInv, Somewhere, Finalize \/ Unlink
    PROVE  Somewhere'
  <1>1. UNCHANGED <<queue, overlay, results, accepted, dismissed, exposed>> /\ Emptied(rst)
        /\ ToSet(queue) \intersect PendingIds = {}
    <2>1. Emptied(rst)
      BY Phases DEF Finalize, Unlink, ClientInv, Emptied
    <2>2. QED
      BY <2>1 DEF Finalize, Unlink, Rest, application, Somewhere
  <1>2. CASE Finalize
    <2>1. rst' = rst /\ pc = "finalize"
      BY <1>2 DEF Finalize
    <2>2. CASE Fail /\ quar' = quar
      BY <1>1, <2>1, <2>2, FailSomewhere
    <2> DEFINE k == [p \in quar.pend |-> Reviewable(p)]
               K == {[id |-> p.id, kept |-> Reviewable(p)] : p \in quar.pend}
    <2>3. CASE /\ ResetRoom(quar.pend) /\ Step("unlink")
               /\ quar' = [quar EXCEPT !.fin = quar.fin \union K, !.pend = {}]
      <3>1. K = {[id |-> p.id, kept |-> k[p]] : p \in quar.pend}
        OBVIOUS
      <3>2. \E h : K = {[id |-> p.id, kept |-> h[p]] : p \in quar.pend}
        BY <3>1
      <3> HIDE DEF k, K
      <3>3. {f.id : f \in quar.fin \union K} = FinalIds \union PendingIds
        BY <2>3, <3>2, FitsFinal DEF ClientInv, StoresInv
      <3>4. quar'.fin = quar.fin \union K /\ quar'.pend = {} /\ pc' = "unlink"
        BY <2>3 DEF Step, Goto, ClientInv, SessionInv, Files
      <3>5. FinalIds' = FinalIds \union PendingIds /\ PendingIds' = {}
        BY <3>3, <3>4 DEF FinalIds, PendingIds
      <3>6. QED
        BY <1>1, <2>1, <3>4, <3>5 DEF Somewhere, Emptied, Rotating
    <2>4. QED
      BY <1>2, <2>2, <2>3 DEF Finalize
  <1>3. CASE Unlink
    <2>1. rst' = None /\ quar' = quar /\ pc = "unlink" /\ pc' = "idle"
      BY <1>3 DEF Unlink, Step, Goto
    <2>2. QED
      BY <1>1, <2>1, ControlSomewhere DEF Somewhere, Rotating, Emptied
  <1>4. QED
    BY <1>2, <1>3

\* The application and the upload.
LEMMA ApplicationSomewhere ==
    ASSUME ClientInv, Somewhere,
           Enqueue \/ \E id \in Ids : AddOverlay(id) \/ AcknowledgeResult(id) \/ Discard(id)
    PROVE  Somewhere'
  <1>1. rst' = rst
    BY DEF Enqueue, AddOverlay, AcknowledgeResult, Discard
  <1>2. CASE Enqueue
    <2>1. pc = "enqueue" /\ pc' = "idle" /\ cur \notin FinalIds \union PendingIds /\ UNCHANGED <<results, quar, dismissed, exposed>>
      BY <1>2 DEF Enqueue, Goto, Somewhere
    <2>2. cur \in Ids \ ToSet(queue) /\ cur \notin accepted
      BY <2>1 DEF ClientInv, StoresInv, Queued
    <2>3. ToSet(Append(queue, cur)) = ToSet(queue) \union {cur}
      BY <2>2, QueueFacts DEF ClientInv, StoresInv, Queued
    <2>4. \/ ToSet(queue') = ToSet(queue) \union {cur} /\ accepted' = accepted \union {cur} /\ overlay' = overlay
          \/ queue' = queue /\ accepted' = accepted /\ overlay' = overlay \ {cur}
      BY <1>2, <2>3 DEF Enqueue
    <2>5. QED
      BY <1>1, <2>1, <2>2, <2>4 DEF Somewhere, FinalIds, PendingIds, Rotating, Emptied
  <1>3. ASSUME NEW id \in Ids, AddOverlay(id) PROVE Somewhere'
    <2>1. /\ pc = "idle" /\ pc' = "enqueue" /\ cur' = id /\ id \notin FinalIds \union PendingIds
          /\ overlay' = overlay \union {id} /\ UNCHANGED <<queue, results, quar, accepted, dismissed>>
          /\ exposed' = (IF rst = None THEN exposed ELSE exposed \union {id})
      BY <1>3 DEF AddOverlay, Goto
    <2>2. QED
      BY <1>1, <2>1 DEF Somewhere, FinalIds, PendingIds, Rotating, Emptied
  <1>4. ASSUME NEW id \in Ids, AcknowledgeResult(id) PROVE Somewhere'
    <2>1. /\ DOMAIN results' = DOMAIN results \ {id} /\ dismissed' = dismissed \union {id}
          /\ UNCHANGED <<queue, overlay, quar, accepted, exposed, pc, cur>>
      BY <1>4 DEF AcknowledgeResult, Restrict, process
    <2>2. QED
      BY <1>1, <2>1 DEF Somewhere, FinalIds, PendingIds
  <1>5. ASSUME NEW id \in Ids, Discard(id) PROVE Somewhere'
    <2>1. /\ pc = "idle" /\ dismissed' = dismissed \union {id} /\ exposed' = exposed \union PendingIds
          /\ quar' = [quar EXCEPT !.fin = {f \in quar.fin : f.id # id}, !.pend = {}]
          /\ UNCHANGED <<queue, overlay, results, accepted, pc, cur>>
      BY <1>5 DEF Discard, process
    <2>2. quar'.fin = {f \in quar.fin : f.id # id} /\ quar'.pend = {}
      BY <2>1 DEF Somewhere, ClientInv, SessionInv, Files
    <2>3. FinalIds' = FinalIds \ {id} /\ PendingIds' = {}
      BY <2>2 DEF FinalIds, PendingIds
    <2>4. QED
      BY <1>1, <2>1, <2>2, <2>3 DEF Somewhere, Rotating, Emptied
  <1>6. QED
    BY <1>2, <1>3, <1>4, <1>5

\* A command leaves the queue after its result is stored.
LEMMA UploadSomewhere ==
    ASSUME ClientInv, Somewhere, Upload \/ UploadLost
    PROVE  Somewhere'
  <1>1. UNCHANGED <<accepted, dismissed, exposed, quar, rst, pc, cur>>
    BY DEF Upload, UploadLost, StartUpload, PersistResult, CompleteTransaction, MarkCompleted, UploadAnswered, UploadRest,
       application
  <1>2. CASE /\ ToSet(queue') \subseteq ToSet(queue) /\ (queue = <<>> => queue' = <<>>) /\ overlay' \subseteq overlay
             /\ ToSet(queue) \union overlay \union DOMAIN results \subseteq ToSet(queue') \union overlay' \union DOMAIN results'
    BY <1>1, <1>2 DEF Somewhere, FinalIds, PendingIds
  <1>3. CASE UNCHANGED <<queue, overlay, results>>
    BY <1>2, <1>3
  <1>4. CASE PersistResult
    <2>1. queue' = queue /\ (UNCHANGED <<overlay, results>> \/ (overlay' = overlay \ {up.id} /\ DOMAIN results' = DOMAIN results \union {up.id}))
      BY <1>4 DEF PersistResult, HasResult
    <2>2. QED
      BY <1>2, <2>1
  <1>5. CASE CompleteTransaction
    <2>1. /\ queue' = Tail(queue) /\ UNCHANGED <<overlay, results>> /\ queue # <<>> /\ up.id = Head(queue)
          /\ up.id \in DOMAIN results
      BY <1>5 DEF CompleteTransaction, ClientInv, StoresInv, Uploading, HasResult
    <2>2. ToSet(queue') = ToSet(queue) \ {up.id}
      BY <2>1, QueueFacts DEF ClientInv, StoresInv, Queued
    <2>3. QED
      BY <1>2, <2>1, <2>2
  <1>6. CASE MarkCompleted
    <2>1. UNCHANGED <<queue, overlay>> /\ DOMAIN results' = DOMAIN results
      BY <1>6 DEF MarkCompleted
    <2>2. QED
      BY <1>2, <2>1
  <1>7. QED
    BY <1>3, <1>4, <1>5, <1>6 DEF Upload, UploadLost, StartUpload, UploadAnswered

\* Every step keeps what was accepted somewhere.
LEMMA NextSomewhere == ClientInv /\ Somewhere /\ [Next]_vars => Somewhere'
  <1> SUFFICES ASSUME ClientInv, Somewhere, [Next]_vars PROVE Somewhere'
    OBVIOUS
  <1>1. ASSUME UNCHANGED <<queue, overlay, results, accepted, dismissed, exposed, quar, rst, pc, cur>> PROVE Somewhere'
    BY <1>1 DEF Somewhere, FinalIds, PendingIds
  <1>2. CASE UNCHANGED vars
    BY <1>1, <1>2 DEF vars, durable, process, application
  <1>3. CASE \/ \E q \in wire : Serve(q) \/ DropAnswer(q)
             \/ \E x \in Resources : Revoke(x)
             \/ Environment
    BY <1>1, <1>3 DEF Serve, DropAnswer, Revoke, Environment, clientVars, durable, process, application
  <1>4. CASE ResetSteps
    BY <1>4, ControlStepsSomewhere, SnapshotSomewhere, ResetSomewhere, FinishSomewhere DEF ResetSteps
  <1>5. QED
    BY <1>2, <1>3, <1>4, ControlStepsSomewhere, ApplicationSomewhere, UploadSomewhere DEF Next

-----------------------------------------------------------------------------
(***************************************************************************)
(* Which epoch a request is of.                                            *)
(***************************************************************************)

\* A step that sends nothing, where the session on disk stays or moves on.
LEMMA SessionsMoveOn ==
    ASSUME SentBefore, wire' \subseteq wire, sess' = None => wire' = {} /\ queue' = <<>>,
           sess # None => sess' # None /\ sess'.rep = sess.rep /\ sess.epoch <= sess'.epoch
                          /\ sess.epoch \in Nat /\ sess'.epoch \in Nat,
           \A q \in wire : Rotating(rst') \/ (Emptied(rst') /\ q.cmd.id \in PendingIds') =>
                               q.session.epoch <= rst'.old.epoch,
           \A q \in wire : q.cmd.id \in FinalIds' \ FinalIds => q.session.epoch < sess'.epoch
    PROVE  SentBefore'
  <1>1. CASE sess = None
    BY <1>1 DEF SentBefore
  <1>2. CASE sess # None
    <2>1. ASSUME NEW q \in wire'
          PROVE  /\ q.session.rep = sess'.rep /\ q.session.epoch \in Nat /\ q.session.epoch <= sess'.epoch
                 /\ Rotating(rst') \/ (Emptied(rst') /\ q.cmd.id \in PendingIds') => q.session.epoch <= rst'.old.epoch
                 /\ q.cmd.id \in FinalIds' => q.session.epoch < sess'.epoch
      <3>1. /\ q \in wire /\ q.session.rep = sess.rep /\ q.session.epoch \in Nat /\ q.session.epoch <= sess.epoch
            /\ q.cmd.id \in FinalIds => q.session.epoch < sess.epoch
        BY <2>1 DEF SentBefore
      <3>2. QED
        BY <1>2, <3>1
    <2>2. QED
      BY <1>2, <2>1 DEF SentBefore
  <1>3. QED
    BY <1>1, <1>2

\* The session on disk and the reset file are left alone.
LEMMA SessionsStayOn ==
    ASSUME ClientInv, SentBefore, wire' \subseteq wire, sess' = sess, rst' = rst, FinalIds' \subseteq FinalIds,
           Emptied(rst) => PendingIds' \subseteq PendingIds, queue = <<>> => queue' = <<>>
    PROVE  SentBefore'
  <1>1. sess \in Sessions \union {None}
    BY DEF ClientInv, SessionInv, Files
  <1>2. sess # None => sess.epoch \in Nat
    BY <1>1 DEF Sessions
  <1>3. sess' = None => wire' = {} /\ queue' = <<>>
    BY DEF SentBefore
  <1>4. \A q \in wire : Rotating(rst') \/ (Emptied(rst') /\ q.cmd.id \in PendingIds') =>
                            q.session.epoch <= rst'.old.epoch
    BY DEF SentBefore
  <1>5. QED
    BY <1>2, <1>3, <1>4, SessionsMoveOn

\* The entries are in the quarantine file.
LEMMA FinalUnchanged == quar' = quar => FinalIds' = FinalIds /\ PendingIds' = PendingIds
  BY DEF FinalIds, PendingIds

\* Where the session or the reset file changes.
LEMMA RotationSent ==
    ASSUME ClientInv, SentBefore, StartReset \/ Begin \/ RequestReset \/ Adopt \/ Cleared \/ Observe \/ Unlink
    PROVE  SentBefore'
  <1>1. wire' = wire /\ queue' = queue /\ FinalIds' = FinalIds /\ PendingIds' = PendingIds
    BY FinalUnchanged DEF StartReset, Begin, RequestReset, Adopt, Cleared, Observe, Unlink, Rest
  <1>2. sess \in Sessions \union {None} /\ SessionInv
    BY DEF ClientInv, SessionInv, Files
  <1>3. sess # None => sess.epoch \in Nat
    BY <1>2 DEF Sessions
  <1>4. CASE /\ sess' = sess /\ (rst' # None => rst # None /\ rst'.old = rst.old)
             /\ Rotating(rst') => Rotating(rst)
             /\ Emptied(rst') => Rotating(rst) \/ Emptied(rst)
    <2>1. \A q \in wire : Rotating(rst') \/ (Emptied(rst') /\ q.cmd.id \in PendingIds') =>
                              q.session.epoch <= rst'.old.epoch
      BY <1>1, <1>4 DEF SentBefore, Rotating, Emptied
    <2>2. sess' = None => wire' = {} /\ queue' = <<>>
      BY <1>1, <1>4 DEF SentBefore
    <2>3. QED
      BY <1>1, <1>3, <1>4, <2>1, <2>2, SessionsMoveOn
  <1>5. CASE StartReset
    <2>1. rst' = rst /\ (sess' = sess \/ (sess' = rst.new /\ rst # None /\ rst.phase = "cleared"))
      BY <1>5 DEF StartReset
    <2>2. sess' = sess
      BY <1>2, <2>1 DEF SessionInv, SessionsHeld, WhileCleared
    <2>3. QED
      BY <1>4, <2>1, <2>2
  <1>6. CASE Begin
    <2>1. /\ rst'.old = msess /\ sess' = sess /\ pc = "begin"
      BY <1>6 DEF Begin
    <2>2. rst = None
      BY <1>2, <2>1, Phases
    <2>3. sess = msess
      BY <1>2, <2>1, <2>2 DEF SessionInv, SessionsHeld, WithoutReset
    <2>4. \A q \in wire : q.session.epoch <= rst'.old.epoch
      BY <2>1, <2>3 DEF SentBefore
    <2>5. sess' = None => wire' = {} /\ queue' = <<>>
      BY <1>1, <2>1 DEF SentBefore
    <2>6. QED
      BY <1>1, <1>3, <2>1, <2>4, <2>5, SessionsMoveOn
  <1>7. CASE RequestReset
    <2>1. /\ sess' = sess /\ rst # None /\ rst \in ResetFile
          /\ rst' = rst \/ rst' = [rst EXCEPT !.phase = "session_staged", !.new = ResetSession(rst.old, rst.q)]
      BY <1>2, <1>7, Phases DEF RequestReset
    <2>2. rst'.old = rst.old
      BY <2>1 DEF ResetFile
    <2>3. Rotating(rst) /\ ~Emptied(rst')
      BY <1>2, <1>7, <2>1, Phases DEF RequestReset, Rotating, Emptied, ResetFile
    <2>4. QED
      BY <1>4, <2>1, <2>2, <2>3
  <1>8. CASE Cleared
    <2>1. sess' = sess /\ rst # None /\ rst \in ResetFile /\ rst' = [rst EXCEPT !.phase = "cleared"] /\ Rotating(rst)
      BY <1>2, <1>8, Phases DEF Cleared, Rotating
    <2>2. rst'.old = rst.old
      BY <2>1 DEF ResetFile
    <2>3. QED
      BY <1>4, <2>1, <2>2
  <1>9. CASE Unlink
    BY <1>4, <1>9 DEF Unlink, Rotating, Emptied
  <1>10. CASE Adopt
    <2>1. /\ sess' = rst.new /\ rst' = rst /\ rst # None /\ rst.phase = "session_staged" /\ rst \in ResetFile
      BY <1>2, <1>10, Phases DEF Adopt
    <2>2. rst.new = ResetSession(rst.old, rst.q) /\ sess \in {rst.old, rst.new} /\ rst.new \in Sessions /\ rst.old \in Sessions
      BY <1>2, <2>1, StagedSession DEF SessionInv, SessionsHeld, WhileStaged, ResetFile
    <2>3. rst.new.rep = rst.old.rep /\ rst.new.epoch = rst.old.epoch + 1 /\ rst.old.epoch \in Nat
      BY <2>2 DEF ResetSession, Session, Sessions
    <2>4. sess' # None /\ sess # None /\ sess'.rep = sess.rep /\ sess.epoch <= sess'.epoch /\ sess.epoch \in Nat /\ sess'.epoch \in Nat
      BY <2>1, <2>2, <2>3, Present
    <2>5. \A q \in wire : q.session.epoch <= rst'.old.epoch
      BY <2>1 DEF SentBefore, Rotating
    <2>6. QED
      BY <1>1, <2>4, <2>5, SessionsMoveOn
  <1>11. CASE Observe
    <2>1. rst' = rst /\ (sess' = sess \/ sess' = msess) /\ pc = "observe"
      BY <1>11 DEF Observe
    <2>2. CASE sess' = sess
      BY <1>4, <2>1, <2>2
    <2>3. CASE sess' = msess /\ sess' # sess
      <3>1. Connecting
        BY <2>1 DEF Connecting
      <3>2. msess \in Sessions /\ (rst = None \/ rst.phase = "cleared")
        BY <1>2, <3>1, ConnectingSession
      <3>3. sess = None
        BY <1>2, <2>1, <2>3, <3>2 DEF SessionInv, SessionsHeld, WithoutReset, WhileCleared
      <3>4. wire = {} /\ sess' # None
        BY <2>3, <3>2, <3>3, Present DEF SentBefore
      <3>5. QED
        BY <1>1, <3>4 DEF SentBefore
    <2>4. QED
      BY <2>1, <2>2, <2>3
  <1>12. QED
    BY <1>5, <1>6, <1>7, <1>8, <1>9, <1>10, <1>11

\* The quarantine is finalized under the new session.
LEMMA FinalizeSent ==
    ASSUME ClientInv, SentBefore, Finalize
    PROVE  SentBefore'
  <1>1. wire' = wire /\ UNCHANGED <<queue, sess, rst>> /\ rst # None /\ rst.phase = "cleared" /\ rst \in ResetFile
    BY Phases DEF Finalize, Rest, ClientInv
  <1>2. sess = ResetSession(rst.old, rst.q) /\ sess \in Sessions /\ rst.old \in Sessions
    BY <1>1, Present DEF ClientInv, SessionInv, Files, SessionsHeld, WhileCleared, ResetFile
  <1>3. sess.epoch = rst.old.epoch + 1 /\ rst.old.epoch \in Nat /\ sess # None
    BY <1>2, Present DEF ResetSession, Session, Sessions
  <1>4. FinalIds' \subseteq FinalIds \union PendingIds /\ PendingIds' \subseteq PendingIds
    <2>1. CASE quar' = quar
      BY <2>1, FinalUnchanged
    <2> DEFINE k == [p \in quar.pend |-> Reviewable(p)]
               K == {[id |-> p.id, kept |-> Reviewable(p)] : p \in quar.pend}
    <2>2. CASE quar' = [quar EXCEPT !.fin = quar.fin \union K, !.pend = {}]
      <3>1. \A f \in K : \E p \in quar.pend : f.id = p.id
        OBVIOUS
      <3> HIDE DEF k, K
      <3>2. quar'.fin = quar.fin \union K /\ quar'.pend = {}
        BY <2>2 DEF ClientInv, SessionInv, Files
      <3>3. QED
        BY <3>1, <3>2 DEF FinalIds, PendingIds
    <2>3. QED
      BY <2>1, <2>2 DEF Finalize
  <1>5. \A q \in wire : q.cmd.id \in PendingIds => q.session.epoch <= rst.old.epoch /\ q.session.epoch < sess.epoch
    BY <1>1, <1>3 DEF SentBefore, Emptied
  <1>6. ~Rotating(rst')
    BY <1>1 DEF Rotating
  <1>7. QED
    BY <1>1, <1>3, <1>4, <1>5, <1>6, SessionsMoveOn

\* A request is sent under the session on disk, and not for a command of a reset.
LEMMA UploadSent ==
    ASSUME ClientInv, IntentInv, Upload \/ UploadLost
    PROVE  SentBefore'
  <1>1. UNCHANGED <<sess, rst, quar>>
    BY DEF Upload, UploadLost, StartUpload, PersistResult, CompleteTransaction, MarkCompleted, UploadAnswered, UploadRest
  <1>2. CASE wire' \subseteq wire /\ (queue = <<>> => queue' = <<>>)
    BY <1>1, <1>2, FinalUnchanged, SessionsStayOn DEF IntentInv
  <1>3. CASE StartUpload
    <2> DEFINE q == [n |-> sent, user |-> Me, session |-> msess, cmd |-> Content(Head(queue)),
                     phase |-> "sent", answer |-> None]
    <2>1. wire' = wire \union {q} /\ queue' = queue /\ queue # <<>> /\ link = "on"
      BY <1>3 DEF StartUpload, SendCommand
    <2>2. sess # None
      BY <2>1 DEF IntentInv, SentBefore
    <2>3. rst = None \/ Emptied(rst)
      BY <2>1, Phases DEF Emptied, ClientInv, StoresInv, Uploading, ResetFile
    <2>4. pc # "closed"
      BY <2>1 DEF ClientInv, StoresInv, Uploading
    <2>5. msess = sess /\ sess \in Sessions
      BY <2>2, <2>3, <2>4 DEF ClientInv, SessionInv, SessionsHeld, WithoutReset, WhileCleared, Files, Emptied
    <2>6. q.cmd.id \notin FinalIds /\ (Emptied(rst) => q.cmd.id \notin PendingIds)
      <3>1. Head(queue) \in ToSet(queue) /\ Head(queue) \in Ids
        BY <2>1, QueueFacts DEF ClientInv, StoresInv, Queued
      <3>2. Content(Head(queue)).id = Head(queue)
        BY <3>1 DEF Ids, Content
      <3>3. QED
        BY <3>1, <3>2 DEF IntentInv, Somewhere
    <2>7. q.session = sess /\ sess.epoch \in Nat
      BY <2>5 DEF Sessions
    <2> HIDE DEF q
    <2>8. FinalIds' = FinalIds /\ PendingIds' = PendingIds /\ ~Rotating(rst)
      BY <1>1, <2>3, FinalUnchanged DEF Rotating, Emptied
    <2>9. QED
      BY <1>1, <2>1, <2>2, <2>6, <2>7, <2>8 DEF IntentInv, SentBefore
  <1>4. CASE CompleteTransaction
    <2>1. queue # <<>> /\ wire' = wire
      BY <1>4 DEF CompleteTransaction, ClientInv, StoresInv, Uploading
    <2>2. QED
      BY <1>2, <2>1
  <1>5. QED
    BY <1>2, <1>3, <1>4 DEF Upload, UploadLost, PersistResult, MarkCompleted, UploadAnswered

\* The server changes the phase of a request, and its answer.
LEMMA ServeSent ==
    ASSUME ClientInv, SentBefore, NEW q \in wire, Serve(q) \/ DropAnswer(q)
    PROVE  SentBefore'
  <1>1. UNCHANGED <<sess, rst, quar, queue>>
    BY DEF Serve, DropAnswer, clientVars, durable
  <1>2. DOMAIN q = {"n", "user", "session", "cmd", "phase", "answer"}
    BY DEF ClientInv, AnswersInv, Answers, Request
  <1>3. ASSUME NEW r, wire' \subseteq wire \union {r}, r.session = q.session, r.cmd = q.cmd PROVE SentBefore'
    BY <1>1, <1>3, FinalUnchanged DEF SentBefore
  <1>4. CASE DropAnswer(q)
    BY <1>3, <1>4 DEF DropAnswer
  <1>5. ASSUME NEW a, wire' = Answered(q, a) PROVE SentBefore'
    <2> DEFINE r == [q EXCEPT !.phase = "answered", !.answer = a]
    <2>1. r.session = q.session /\ r.cmd = q.cmd
      BY <1>2
    <2>2. wire' \subseteq wire \union {r}
      BY <1>5 DEF Answered
    <2>3. QED
      BY <1>3, <2>1, <2>2
  <1>6. CASE AdmitCommand(q)
    <2>1. CASE wire' = (wire \ {q}) \union {[q EXCEPT !.phase = "admitted"]}
      <3> DEFINE r == [q EXCEPT !.phase = "admitted"]
      <3>1. r.session = q.session /\ r.cmd = q.cmd
        BY <1>2
      <3>2. QED
        BY <1>3, <2>1, <3>1
    <2>2. QED
      BY <1>5, <1>6, <2>1 DEF AdmitCommand
  <1>7. CASE ExecuteCommand(q)
    <2>1. \E a : wire' = Answered(q, a)
      BY <1>7, ExecuteAnswer DEF ClientInv
    <2>2. QED
      BY <1>5, <2>1
  <1>8. QED
    BY <1>4, <1>6, <1>7 DEF Serve

\* Every step keeps what may still be on its way from being applied.
LEMMA NextSentBefore == ClientInv /\ IntentInv /\ [Next]_vars => SentBefore'
  <1> SUFFICES ASSUME ClientInv, IntentInv, [Next]_vars PROVE SentBefore'
    OBVIOUS
  <1>0. SentBefore
    BY DEF IntentInv
  <1>1. ASSUME wire' = wire, UNCHANGED <<sess, rst, quar>>, queue = <<>> => queue' = <<>> PROVE SentBefore'
    BY <1>0, <1>1, FinalUnchanged, SessionsStayOn
  <1>2. CASE UNCHANGED vars
    BY <1>1, <1>2 DEF vars, durable
  <1>3. CASE Open \/ Register \/ Crash \/ Environment \/ \E x \in Resources : Revoke(x)
    BY <1>1, <1>3 DEF Open, Register, Crash, Environment, Revoke, Rest, durable, clientVars
  <1>4. CASE Snapshot \/ Disconnect \/ Confirm \/ ClearDatabase \/ ClearOverlays \/ Challenge \/ Connect
    BY <1>1, <1>4 DEF Snapshot, Disconnect, Confirm, ClearDatabase, ClearOverlays, Challenge, Connect, Rest, durable
  <1>5. CASE Quarantine
    <2>1. wire' = wire /\ UNCHANGED <<sess, rst, queue>>
      BY <1>5 DEF Quarantine, Rest
    <2>2. quar'.fin = quar.fin /\ ~Emptied(rst)
      BY <1>5, Phases DEF Quarantine, ClientInv, SessionInv, Files, Emptied
    <2>3. QED
      BY <1>0, <2>1, <2>2, SessionsStayOn DEF FinalIds
  <1>6. CASE Enqueue
    <2>1. wire' = wire /\ UNCHANGED <<sess, rst, quar>> /\ pc = "enqueue"
      BY <1>6 DEF Enqueue
    <2>2. sess # None
      <3>1. CASE rst = None
        BY <2>1, <3>1 DEF ClientInv, SessionInv, SessionsHeld, WithoutReset
      <3>2. CASE rst # None /\ rst.phase = "quarantined"
        BY <3>2, Present DEF ClientInv, SessionInv, SessionsHeld, WhileQuarantined, Files, ResetFile
      <3>3. CASE rst # None /\ rst.phase = "session_staged"
        BY <2>1, <3>3, StagedSession, Present DEF ClientInv, SessionInv, SessionsHeld, WhileStaged
      <3>4. CASE rst # None /\ rst.phase = "cleared"
        BY <3>4 DEF ClientInv, SessionInv, SessionsHeld, WhileCleared
      <3>5. QED
        BY <3>1, <3>2, <3>3, <3>4 DEF ClientInv, SessionInv, Files, ResetFile
    <2>3. QED
      BY <1>0, <2>1, <2>2, FinalUnchanged DEF SentBefore
  <1>7. ASSUME NEW id \in Ids, AddOverlay(id) \/ AcknowledgeResult(id) PROVE SentBefore'
    BY <1>1, <1>7 DEF AddOverlay, AcknowledgeResult, Rest
  <1>8. ASSUME NEW id \in Ids, Discard(id) PROVE SentBefore'
    <2>1. wire' = wire /\ UNCHANGED <<sess, rst, queue>> /\ quar'.fin \subseteq quar.fin /\ quar'.pend = {}
      BY <1>8 DEF Discard, ClientInv, SessionInv, Files
    <2>2. QED
      BY <1>0, <2>1, SessionsStayOn DEF FinalIds, PendingIds
  <1>9. CASE \E q \in wire : Serve(q) \/ DropAnswer(q)
    BY <1>0, <1>9, ServeSent
  <1>10. CASE Upload \/ UploadLost
    BY <1>10, UploadSent
  <1>11. CASE StartReset \/ ResetSteps
    BY <1>0, <1>4, <1>5, <1>11, RotationSent, FinalizeSent DEF ResetSteps
  <1>12. QED
    BY <1>2, <1>3, <1>6, <1>7, <1>8, <1>9, <1>10, <1>11 DEF Next

-----------------------------------------------------------------------------
(***************************************************************************)
(* No intent is lost.                                                      *)
(***************************************************************************)

\* The server is never behind the session on disk.
LEMMA NotBehind ==
    ASSUME SessionInv, sess # None
    PROVE  replica[sess.rep].epoch >= sess.epoch
  <1>1. sess \in Sessions
    BY DEF SessionInv, Files
  <1>2. sess.epoch \in Nat
    BY <1>1 DEF Sessions
  <1>3. CASE Held(replica, sess)
    BY <1>2, <1>3 DEF Held
  <1>4. CASE rst # None /\ Replayable(replica, sess, rst.q)
    BY <1>2, <1>4 DEF Replayable
  <1>5. CASE rst # None /\ rst.phase = "session_staged"
    <2>1. /\ rst.new = ResetSession(rst.old, rst.q) /\ Held(replica, rst.new) /\ sess \in {rst.old, rst.new}
          /\ rst.old \in Sessions
      BY <1>5 DEF SessionInv, SessionsHeld, WhileStaged, Files, ResetFile
    <2>2. rst.new.rep = rst.old.rep /\ rst.new.epoch = rst.old.epoch + 1 /\ rst.old.epoch \in Nat
      BY <2>1 DEF ResetSession, Session, Sessions
    <2>3. QED
      BY <2>1, <2>2 DEF Held
  <1>6. QED
    BY <1>3, <1>4, <1>5 DEF SessionInv, SessionsHeld, WithoutReset, WhileQuarantined, WhileCleared, Files, ResetFile

\* A late request of a quarantined command is not applied: its epoch is over.
LEMMA LateRequest ==
    ASSUME ClientInv, IntentInv, NEW q \in wire, q.cmd.id \in FinalIds
    PROVE  ExecuteOutcome(q) # "applied"
  <1>1. /\ sess # None /\ q.session.rep = sess.rep /\ q.session.epoch \in Nat /\ q.session.epoch < sess.epoch
    BY DEF IntentInv, SentBefore
  <1>2. replica[sess.rep].epoch >= sess.epoch
    BY <1>1, NotBehind DEF ClientInv
  <1>3. sess.epoch \in Nat /\ (replica[sess.rep] # None => replica[sess.rep].epoch \in Nat)
    BY <1>1 DEF ClientInv, SessionInv, Files, Sessions, Tables, Row
  <1>4. ~LockReplica(q.user, q.session)
    BY <1>1, <1>2, <1>3 DEF LockReplica
  <1>5. QED
    BY <1>4, AppliedOutcome

\* Only a command that is applied changes what has happened.
LEMMA EventSteps ==
    ASSUME ClientInv, [Next]_vars, events' # events
    PROVE  \E q \in wire : \E e : ExecuteOutcome(q) = "applied" /\ e.id = q.cmd.id /\ events' = events \union {e}
  <1>1. Next
    BY DEF vars, serverVars
  <1>2. ~(\/ Open \/ Register \/ Crash \/ StartReset \/ ResetSteps \/ Enqueue \/ Environment
          \/ \E id \in Ids : AddOverlay(id) \/ Discard(id)
          \/ \E x \in Resources : Revoke(x))
    BY SilentSteps
  <1>3. ~(Upload \/ UploadLost \/ \E id \in Ids : AcknowledgeResult(id))
    BY DEF Upload, UploadLost, StartUpload, SendCommand, PersistResult, CompleteTransaction, MarkCompleted,
       UploadAnswered, AcknowledgeResult, serverVars
  <1>4. PICK q \in wire : Serve(q) \/ DropAnswer(q)
    BY <1>1, <1>2, <1>3 DEF Next
  <1>5. ExecuteCommand(q)
    BY <1>4 DEF Serve, DropAnswer, AdmitCommand, serverVars
  <1>6. PICK e : e = [user |-> q.user, id |-> q.cmd.id, res |-> q.cmd.res,
                      inc |-> resource[q.cmd.res].inc, ver |-> q.cmd.ver + 1]
    OBVIOUS
  <1>7. ExecuteOutcome(q) = "applied" /\ events' = events \union {e}
    BY <1>5, <1>6 DEF ExecuteCommand
  <1>8. e.id = q.cmd.id
    BY <1>6
  <1>9. QED
    BY <1>7, <1>8

\* A stored result says what happened to its command.
LEMMA TrueResults == StoresInv /\ AnswersInv => ResultsAreTrue
  <1> SUFFICES ASSUME StoresInv, AnswersInv, NEW id \in Ids, HasResult(id)
               PROVE  /\ results[id].state = "applied" => Cardinality({e \in events : e.id = id}) = 1
                      /\ results[id].state = "conflict" => \A e \in events : e.id # id
    BY DEF ResultsAreTrue
  <1>1. TrueOf(receipt, id, results[id])
    BY DEF AnswersInv, Answers, HasResult
  <1>2. ASSUME results[id].state = "applied" PROVE Cardinality({e \in events : e.id = id}) = 1
    <2>1. PICK p \in receipt : p.id = id /\ p.code = "applied"
      BY <1>1, <1>2 DEF TrueOf
    <2>2. PICK e \in events : {x \in events : x.id = id} = {e}
      BY <2>1 DEF AnswersInv, OwnRecords
    <2>3. QED
      BY <2>2, FS_Singleton
  <1>3. ASSUME results[id].state = "conflict", NEW e \in events, e.id = id PROVE FALSE
    <2>1. PICK p \in receipt : p.id = id /\ p.code # "applied"
      BY <1>1, <1>3 DEF TrueOf
    <2>2. PICK r \in receipt : r.id = id /\ r.code = "applied"
      BY <1>3 DEF AnswersInv, OwnRecords
    <2>3. QED
      BY <2>1, <2>2 DEF AnswersInv, OwnRecords
  <1>4. QED
    BY <1>2, <1>3

\* What the client's results say of a command is true in every state: applied
\* was applied, once, and a conflict was not applied.
THEOREM ClientResultsAreTrue == Spec => []ResultsAreTrue
  <1>1. Init => ClientInv
    BY InitSessionInv, InitStoresInv, InitAnswersInv DEF ClientInv
  <1>2. ClientInv /\ [Next]_vars => ClientInv'
    BY NextSessionInv, NextStoresInv, NextAnswersInv DEF ClientInv
  <1>3. ClientInv => ResultsAreTrue
    BY TrueResults DEF ClientInv
  <1>4. QED
    BY <1>1, <1>2, <1>3, PTL DEF Spec

\* No command that the application was told is queued is lost, unless it was
\* queued while a failed reset waited to be repeated, or was pending when
\* another entry was discarded in that time: through every crash and every lost
\* request or answer it is in the queue, in the tables or in quarantine until it
\* is dismissed; its result is true; and no late upload of it is applied once it
\* is in quarantine.  Nothing is assumed of the application.
THEOREM ClientNoIntentLost == Spec => NoIntentLost
  <1>1. Init => ClientInv /\ IntentInv
    BY InitSessionInv, InitStoresInv, InitAnswersInv, InitIntentInv DEF ClientInv
  <1>2. ClientInv /\ IntentInv /\ [Next]_vars => ClientInv' /\ IntentInv'
    BY NextSessionInv, NextStoresInv, NextAnswersInv, NextSomewhere, NextSentBefore DEF ClientInv, IntentInv
  <1> DEFINE Kind ==
        /\ (accepted \ (dismissed \union exposed) \subseteq ToSet(queue) \union Active \union PendingIds \union FinalIds)'
        /\ ResultsAreTrue'
        /\ \A f \in quar.fin : {e \in events' : e.id = f.id} = {e \in events : e.id = f.id}
  <1>3. ClientInv /\ IntentInv /\ [Next]_vars /\ ClientInv' /\ IntentInv' => [Kind]_vars
    <2> SUFFICES ASSUME ClientInv, IntentInv, [Next]_vars, ClientInv', IntentInv' PROVE Kind
      OBVIOUS
    <2>1. (accepted \ (dismissed \union exposed) \subseteq ToSet(queue) \union Active \union PendingIds \union FinalIds)'
      <3>1. Somewhere' /\ Queued'
        BY DEF IntentInv, ClientInv, StoresInv
      <3>2. Active' = overlay' \union DOMAIN results'
        BY <3>1 DEF Active, HasResult, Queued
      <3>3. QED
        BY <3>1, <3>2 DEF Somewhere
    <2>2. ResultsAreTrue'
      <3>1. StoresInv' /\ AnswersInv'
        BY DEF ClientInv
      <3>2. QED
        BY <3>1, TrueResults, PTL
    <2>3. ASSUME NEW f \in quar.fin PROVE {e \in events' : e.id = f.id} = {e \in events : e.id = f.id}
      <3>1. CASE events' = events
        BY <3>1
      <3>2. CASE events' # events
        <4>0. PICK q \in wire :
                 \E e : ExecuteOutcome(q) = "applied" /\ e.id = q.cmd.id /\ events' = events \union {e}
          BY <3>2, EventSteps
        <4>1. PICK e : ExecuteOutcome(q) = "applied" /\ e.id = q.cmd.id /\ events' = events \union {e}
          BY <4>0
        <4>2. q.cmd.id \notin FinalIds
          BY <4>1, LateRequest
        <4>3. e.id # f.id
          BY <4>1, <4>2 DEF FinalIds
        <4>4. QED
          BY <4>1, <4>3
      <3>3. QED
        BY <3>1, <3>2
    <2>4. QED
      BY <2>1, <2>2, <2>3
  <1>4. QED
    BY <1>1, <1>2, <1>3, PTL DEF Spec, NoIntentLost
=============================================================================
