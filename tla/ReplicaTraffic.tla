--------------------------- MODULE ReplicaTraffic ---------------------------
(***************************************************************************)
(* The command server of the spike under any traffic of the clients it     *)
(* has registered: each may send any command under any session it was ever *)
(* given, repeat any lifecycle request, and let a request wait between its *)
(* two transactions while epochs, grants and markers change.               *)
(***************************************************************************)
EXTENDS ReplicaServer

CONSTANTS ResetRequests,    \* identifiers of reset requests
          MaxIncarnation    \* bound on the incarnations of a resource

ASSUME PeriodAssumption == RetentionPeriod \in Nat

\* The secrets of a replica, and the rows that its user has in two tables.
Credentials == Replicas \X (ResetRequests \union {None}) \X Nat
ReplicaRow ==
    [user : Users, epoch : Nat, cred : Credentials, prevCred : Credentials \union {None},
     staged : ResetRequests \union {None}, lastReset : ResetRequests \union {None},
     ackAt : Int, ackSeq : Nat]
ChallengeRow == [epoch : Nat, target : Nat, issued : Nat, acked : BOOLEAN]

ASSUME AbsenceAssumption == None \notin (ReplicaRow \union ChallengeRow \union Credentials \union ResetRequests)

VARIABLE given      \* the sessions the server has handed out, with their user

trafficVars == <<serverVars, wire, given, sent, changes>>

TrafficInit == ServerInit /\ given = {} /\ sent = 0 /\ changes = 0

RegisterFor(u, r) ==
    /\ RegisterReplica(u, r)
    /\ given' = given \union {[user |-> u, session |-> Session(r, 1, RegisteredCredential(r))]}
    /\ UNCHANGED <<wire, sent, changes>>

ChallengeFor(g) == IssueChallenge(g.user, g.session) /\ UNCHANGED <<wire, given, sent, changes>>

Acknowledge(g) == AcknowledgeChallenge(g.user, g.session) /\ UNCHANGED <<wire, given, sent, changes>>

Reset(g, q) ==
    /\ g.session.epoch < MaxEpoch
    /\ ResetReplica(g.user, g.session, q)
    /\ given' = given \union {[user |-> g.user, session |-> ResetSession(g.session, q)]}
    /\ UNCHANGED <<wire, sent, changes>>

ResetAcknowledge(g, q) ==
    AcknowledgeReset(g.user, g.session, q) /\ UNCHANGED <<wire, given, sent, changes>>

Send(g, c) ==
    /\ sent < MaxSends
    /\ sent' = sent + 1
    /\ SendCommand(sent, g.user, g.session, c)
    /\ UNCHANGED <<given, changes>>

Admit(q) == AdmitCommand(q) /\ UNCHANGED <<given, sent, changes>>
Execute(q) == ExecuteCommand(q) /\ UNCHANGED <<given, sent, changes>>

\* The answer reaches the client, or nobody.
Deliver(q) ==
    /\ q \in wire /\ q.phase = "answered"
    /\ wire' = wire \ {q}
    /\ UNCHANGED <<serverVars, given, sent, changes>>

Change(u, x) ==
    /\ changes < MaxChanges
    /\ changes' = changes + 1
    /\ ChangeMembership(u, x)
    /\ UNCHANGED <<wire, given, sent>>

Retain == RunRetention /\ UNCHANGED <<wire, given, sent, changes>>
Insert(x) ==
    /\ resource[x].inc < MaxIncarnation
    /\ InsertAgain(x)
    /\ UNCHANGED <<wire, given, sent, changes>>
Pass == Tick /\ UNCHANGED <<wire, given, sent, changes>>

TrafficNext ==
    \/ \E u \in Users, r \in Replicas : RegisterFor(u, r)
    \/ \E g \in given : ChallengeFor(g) \/ Acknowledge(g)
    \/ \E g \in given, q \in ResetRequests : Reset(g, q) \/ ResetAcknowledge(g, q)
    \/ \E g \in given, c \in CommandContents : Send(g, c)
    \/ \E q \in wire : Admit(q) \/ Execute(q) \/ Deliver(q)
    \/ \E u \in Users, x \in Resources : Change(u, x)
    \/ Retain
    \/ \E x \in Resources : Insert(x)
    \/ Pass

TrafficSpec == TrafficInit /\ [][TrafficNext]_trafficVars

-----------------------------------------------------------------------------
Eligible(r) == replica[r] # None /\ ~ResetRequired(r)

\* The rows have the shape of their tables, and the table constraints hold: an
\* acknowledged sequence goes with its time, a staged reset with the
\* credential it replaced.
TrafficTypeOK ==
    /\ \A r \in Replicas : replica[r] # None =>
          /\ replica[r].user \in Users
          /\ replica[r].epoch \in 1..MaxEpoch
          /\ replica[r].ackAt \in Never..now
          /\ (replica[r].ackAt = Never) = (replica[r].ackSeq = 0)
          /\ (replica[r].prevCred = None) = (replica[r].staged = None)
    /\ \A r \in Replicas : window[r] # None => window[r].count \in 1..MaxPerWindow
    /\ floor \in 1..nextSeq
    /\ Cardinality({q \in wire : q.phase = "admitted"}) <= MaxConcurrent

\* One receipt and at most one change for each command, the change exactly
\* when the receipt says applied.
OncePerCommand ==
    /\ \A p, q \in receipt : p.user = q.user /\ p.id = q.id => p = q
    /\ \A u \in Users, c \in CommandContents :
          LET mine == {e \in events : e.user = u /\ e.id = c.id}
              kept == {p \in receipt : p.user = u /\ p.id = c.id /\ p.code = "applied"}
          IN  Cardinality(mine) <= 1 /\ (mine # {}) = (kept # {})

\* The changes of one incarnation are numbered up to the resource's version.
VersionsWithoutGap ==
    \A x \in Resources :
        LET made == {e \in events : e.res = x /\ e.inc = resource[x].inc}
        IN  {e.ver : e \in made} = 2..resource[x].ver /\ Cardinality(made) = resource[x].ver - 1

\* However often and under whatever session a command is sent, it changes its
\* resource at most once, exactly when its receipt says applied; the changes
\* of one incarnation have no gap or repetition; and a receipt, once written,
\* is never changed or taken away: a retry years later is told the outcome of
\* its first execution, or, when the grant has been revoked since, "denied".
AppliedOnce == [][receipt \subseteq receipt' /\ OncePerCommand' /\ VersionsWithoutGap']_trafficVars

\* At most two of the sessions ever given for a replica can still change
\* something at the server, the current one and, until the client has
\* confirmed the rotation, the one it replaced; and those two agree on where
\* a repeated reset leads.
RetiredStaysRetired(g) ==
    LET row == replica[g.session.rep] IN
    \/ LockReplica(g.user, g.session)
    \/ /\ row.prevCred = g.session.cred
       /\ row.epoch = g.session.epoch + 1
       /\ ResetReplayed(g.user, g.session, row.staged)
    \/ /\ g.session.epoch < row.epoch
       /\ \A q \in ResetRequests : ResetAnswer(g.user, g.session, q) = "invalid"

\* A mutation is only made for a replica that is current at that moment: not
\* for an epoch that was reset while the request waited behind its rate
\* window, not for a replica whose acknowledgement expired or whose
\* checkpoint the retention job passed in that time, and not for a user who
\* has lost the resource.  A session that was replaced and confirmed away can
\* do nothing any more.
AppliesOnlyWhileEligible ==
    [][/\ \A q \in wire : q \notin wire' /\ events' # events =>
             /\ Eligible(q.session.rep)
             /\ replica[q.session.rep].epoch = q.session.epoch
             /\ HasGrant(q.user, q.cmd.res)
       /\ \A g \in given : RetiredStaysRetired(g)]_trafficVars

\* What was deleted stays deleted.  A replica that may still send commands has
\* acknowledged a sequence beyond every deletion whose marker is gone, so no
\* deletion can have passed it by; and a command meant for one incarnation of
\* an identifier never changes a later one.
DeletionsStick ==
    /\ \A s \in 1..(nextSeq - 1) :
          (\A g \in grave : g.seq # s) =>
              \A r \in Replicas : Eligible(r) => replica[r].ackSeq > s
    /\ \A e \in events : \E p \in receipt :
          /\ p.user = e.user /\ p.id = e.id
          /\ p.digest.cmd.inc = e.inc /\ p.digest.cmd.res = e.res
          /\ e.inc <= resource[e.res].inc
=============================================================================
