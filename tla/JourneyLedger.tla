---------------------------- MODULE JourneyLedger ----------------------------
(***************************************************************************)
(* What the Journey write path of the API server promises, stated on       *)
(* committed state only: every mutation is one atomic step of a member who *)
(* may write at that instant, and a journey.update command leaves exactly  *)
(* one receipt, whatever was retried, duplicated or rolled back.           *)
(*                                                                         *)
(* One verdict is allowed to be old: SELECT ... FOR UPDATE locks nothing   *)
(* when it finds no row, so a "resource_not_found" receipt says that the   *)
(* Journey was absent at some instant before the commit, and a Journey     *)
(* with that identifier may exist by the time the receipt is committed.    *)
(* `absent' holds the commands that have seen no row.                      *)
(***************************************************************************)
EXTENDS JourneyTypes

VARIABLES
    role,      \* Users -> membership role, or None
    journeys,  \* Journeys -> row, or None
    receipts,  \* Keys -> receipt, or None
    events,    \* the set of committed change events
    absent     \* {<<user, command>>} that found no Journey to lock

vars == <<role, journeys, receipts, events, absent>>

\* Roles, rows, receipts and events have their types.
TypeOK ==
    /\ role \in [Users -> Roles \cup {None}]
    /\ journeys \in [Journeys -> Row \cup {None}]
    /\ receipts \in [Keys -> Receipt \cup {None}]
    /\ events \subseteq Event
    /\ absent \subseteq Users \X Commands

Init ==
    /\ role \in [Users -> Roles \cup {None}]
    /\ journeys \in [Journeys -> {None} \cup {NewRow(d, 0) : d \in Data}]
    /\ receipts = [k \in Keys |-> None]
    /\ events = {}
    /\ absent = {}

-----------------------------------------------------------------------------

Unanswered(u, c) == CanWrite(role[u]) /\ receipts[<<u, c.id>>] = None

\* The command's expected version is current: row, event and receipt at once.
Apply(u, c) ==
    LET row == journeys[c.journey] IN
    /\ Unanswered(u, c)
    /\ row # None
    /\ row.version = c.expected
    /\ journeys' = [journeys EXCEPT ![c.journey] = Updated(row, c)]
    /\ events' = events \cup {AuditEvent(u, c, row, Updated(row, c))}
    /\ receipts' = [receipts EXCEPT ![<<u, c.id>>] =
                        AppliedReceipt(c, Updated(row, c))]
    /\ UNCHANGED <<role, absent>>

\* The command's expected version is not current: only a receipt.
Conflict(u, c) ==
    /\ Unanswered(u, c)
    /\ journeys[c.journey] # None
    /\ journeys[c.journey].version # c.expected
    /\ receipts' = [receipts EXCEPT ![<<u, c.id>>] =
                        TerminalReceipt(c, "version_conflict")]
    /\ UNCHANGED <<role, journeys, events, absent>>

\* Commands see that their Journey is absent, or give up having seen it.
Notice ==
    /\ absent' \subseteq
           absent \cup {uc \in Users \X Commands : journeys[uc[2].journey] = None}
    /\ UNCHANGED <<role, journeys, receipts, events>>

\* The command once saw no Journey: only a receipt.
NotFound(u, c) ==
    /\ Unanswered(u, c)
    /\ <<u, c>> \in absent
    /\ receipts' = [receipts EXCEPT ![<<u, c.id>>] =
                        TerminalReceipt(c, "resource_not_found")]
    /\ absent' = absent \ {<<u, c>>}
    /\ UNCHANGED <<role, journeys, events>>

\* A Journey that no event has yet recorded takes a free identifier.
Create(u, j) ==
    /\ CanWrite(role[u])
    /\ journeys[j] = None
    /\ LET row == journeys'[j] IN
          /\ row \in Row
          /\ row.version = 1
          /\ \A e \in events : e.after.born # row.born
          /\ journeys' = [journeys EXCEPT ![j] = row]
    /\ UNCHANGED <<role, receipts, events, absent>>

Delete(u, j) ==
    /\ CanWrite(role[u])
    /\ journeys[j] # None
    /\ journeys' = [journeys EXCEPT ![j] = None]
    /\ UNCHANGED <<role, receipts, events, absent>>

\* A timeline or packing mutation moves the version and nothing else.
Touch(u, j) ==
    /\ CanWrite(role[u])
    /\ journeys[j] # None
    /\ journeys' = [journeys EXCEPT ![j] = Touched(journeys[j])]
    /\ UNCHANGED <<role, receipts, events, absent>>

SetRole(u, x) ==
    /\ role' = [role EXCEPT ![u] = x]
    /\ UNCHANGED <<journeys, receipts, events, absent>>

Next ==
    \/ \E u \in Users, c \in Commands :
          Apply(u, c) \/ Conflict(u, c) \/ NotFound(u, c)
    \/ Notice
    \/ \E u \in Users, j \in Journeys : Create(u, j) \/ Delete(u, j) \/ Touch(u, j)
    \/ \E u \in Users, x \in Roles \cup {None} : SetRole(u, x)

Spec == Init /\ [][Next]_vars

-----------------------------------------------------------------------------
(***************************************************************************)
(* What follows for committed state.                                       *)
(***************************************************************************)

EventKey(e) == <<e.user, e.cmd.id>>

\* Two events changed the same Journey between the same creation and deletion.
SameLife(e, f) == e.cmd.journey = f.cmd.journey /\ e.after.born = f.after.born

\* An event that some later event of the same life follows.
Superseded(e) ==
    \E f \in events : SameLife(e, f) /\ e.after.version < f.after.version

EventIsTheCommand(e) ==
    /\ e.before.version = e.cmd.expected
    /\ e.after = Updated(e.before, e.cmd)

AppliedIffEvent ==
    /\ \A e \in events :
          receipts[EventKey(e)] = AppliedReceipt(e.cmd, e.after)
    /\ \A k \in Keys :
          (receipts[k] # None /\ receipts[k].outcome = "applied")
             => \E e \in events : EventKey(e) = k

AtMostOnce == \A e, f \in events : EventKey(e) = EventKey(f) => e = f

NoForkedVersion ==
    \A e, f \in events :
        SameLife(e, f) /\ e.after.version = f.after.version => e = f

RowAhead ==
    \A e \in events :
        LET row == journeys[e.cmd.journey] IN
        (row # None /\ row.born = e.after.born) => e.after.version <= row.version

LogExplainsRow ==
    \A e \in events :
        LET row == journeys[e.cmd.journey] IN
        (row # None /\ row.born = e.after.born /\ ~Superseded(e))
            => row.data = e.after.data

ChainUnbroken ==
    \A e, f \in events :
        ( /\ SameLife(e, f)
          /\ e.after.version < f.after.version
          /\ \A g \in events :
                SameLife(e, g) => (g.after.version <= e.after.version
                                     \/ f.after.version <= g.after.version) )
        => f.before.data = e.after.data

=============================================================================
