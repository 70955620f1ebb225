------------------------- MODULE JourneyLedgerProofs -------------------------
(***************************************************************************)
(* The consequences of the ledger's steps, proved for any number of users, *)
(* Journeys and commands.                                                  *)
(*                                                                         *)
(* NoForkedVersion and ChainUnbroken are not inductive: that a new event   *)
(* extends the log of its Journey follows from what relates the log to the *)
(* current row (RowAhead, LogExplainsRow), and that a command has only one *)
(* event from what relates the log to the receipts (AppliedIffEvent).      *)
(***************************************************************************)
EXTENDS JourneyLedger, TLAPS

EventsAreCommands == \A e \in events : EventIsTheCommand(e)

LedgerInv ==
    /\ TypeOK
    /\ EventsAreCommands
    /\ AppliedIffEvent
    /\ AtMostOnce
    /\ NoForkedVersion
    /\ RowAhead
    /\ LogExplainsRow
    /\ ChainUnbroken

-----------------------------------------------------------------------------

\* The rows that the UPDATE statements and the INSERT make are rows.
LEMMA RowTypes ==
    /\ \A row \in Row, c \in Commands : Updated(row, c) \in Row
    /\ \A row \in Row : Touched(row) \in Row
    /\ \A d \in Data, b \in Nat : NewRow(d, b) \in Row
  BY CommandsAssumption DEF Row, Updated, Touched, NewRow

\* The receipts that commands leave are receipts, and never NULL.
LEMMA ReceiptTypes ==
    /\ \A c \in Commands, row \in Row :
          AppliedReceipt(c, row) \in Receipt /\ AppliedReceipt(c, row) # None
    /\ \A c \in Commands, o \in Outcomes :
          TerminalReceipt(c, o) \in Receipt /\ TerminalReceipt(c, o) # None
  BY NoneAssumption DEF Receipt, AppliedReceipt, TerminalReceipt, Outcomes, NoVersion, Row

\* A command's identifier makes a receipt key, and its Journey is a Journey.
LEMMA KeyTypes ==
    \A u \in Users, c \in Commands : <<u, c.id>> \in Keys /\ c.journey \in Journeys
  BY CommandsAssumption DEF Keys

\* The initial workspace has no events, so the invariant holds in it.
LEMMA InitLedgerInv == Init => LedgerInv
  <1> SUFFICES ASSUME Init PROVE LedgerInv
    OBVIOUS
  <1>1. TypeOK
    BY RowTypes DEF Init, TypeOK
  <1>2. QED
    BY <1>1, NoneAssumption DEF Init, LedgerInv, EventsAreCommands, AppliedIffEvent, AtMostOnce,
         NoForkedVersion, RowAhead, LogExplainsRow, ChainUnbroken

-----------------------------------------------------------------------------

\* Applying a command extends the log of its Journey by one event.
LEMMA ApplyPreserves ==
    ASSUME LedgerInv, NEW u \in Users, NEW c \in Commands, Apply(u, c)
    PROVE  LedgerInv'
  <1> DEFINE row == journeys[c.journey]
             new == AuditEvent(u, c, row, Updated(row, c))
  <1> USE DEF LedgerInv
  <1>1. /\ c.journey \in Journeys /\ <<u, c.id>> \in Keys
        /\ c.data \in Data /\ c.expected \in Nat
    BY KeyTypes, CommandsAssumption
  <1>2. row \in Row /\ Updated(row, c) \in Row
    BY <1>1, RowTypes DEF Apply, TypeOK
  <1>3. /\ new \in Event
        /\ new.user = u /\ new.cmd = c /\ new.before = row /\ new.after = Updated(row, c)
        /\ EventKey(new) = <<u, c.id>>
    BY <1>2 DEF Event, AuditEvent, EventKey
  <1>4. /\ events' = events \cup {new}
        /\ journeys' = [journeys EXCEPT ![c.journey] = Updated(row, c)]
        /\ receipts' = [receipts EXCEPT ![<<u, c.id>>] = AppliedReceipt(c, Updated(row, c))]
        /\ role' = role /\ absent' = absent
        /\ receipts[<<u, c.id>>] = None
        /\ row # None /\ row.version = c.expected
    BY DEF Apply, Unanswered
  <1>5. /\ row.version \in Nat /\ row.born \in Nat /\ row.data \in Data
        /\ Updated(row, c).version = row.version + 1
        /\ Updated(row, c).born = row.born
        /\ Updated(row, c).data = c.data
    BY <1>2 DEF Row, Updated
  <1>6. \A e \in events :
           /\ EventKey(e) # <<u, c.id>>
           /\ EventKey(e) \in Keys
           /\ e.cmd \in Commands /\ e.cmd.journey \in Journeys
           /\ e.before.version \in Nat /\ e.before.data \in Data
           /\ e.after.version \in Nat /\ e.after.born \in Nat /\ e.after.data \in Data
    <2> SUFFICES ASSUME NEW e \in events
                 PROVE  /\ EventKey(e) # <<u, c.id>>
                        /\ EventKey(e) \in Keys
                        /\ e.cmd \in Commands /\ e.cmd.journey \in Journeys
                        /\ e.before.version \in Nat /\ e.before.data \in Data
                        /\ e.after.version \in Nat /\ e.after.born \in Nat /\ e.after.data \in Data
      OBVIOUS
    <2>1. e \in Event
      BY DEF TypeOK
    <2>2. /\ e.cmd \in Commands /\ e.user \in Users /\ e.before \in Row /\ e.after \in Row
      BY <2>1 DEF Event
    <2>3. EventKey(e) \in Keys /\ e.cmd.journey \in Journeys
      BY <2>2, KeyTypes DEF EventKey
    <2>4. receipts[EventKey(e)] # None
      BY <2>2, ReceiptTypes DEF AppliedIffEvent
    <2>5. QED
      BY <2>2, <2>3, <2>4, <1>4 DEF Row
  <1>7. \A e \in events : SameLife(e, new) => e.after.version <= row.version
    BY <1>3, <1>4, <1>5 DEF RowAhead, SameLife
  <1>8. TypeOK'
    BY <1>1, <1>2, <1>3, <1>4, ReceiptTypes DEF TypeOK
  <1>9. EventsAreCommands'
    BY <1>3, <1>4 DEF EventsAreCommands, EventIsTheCommand
  <1>10. AppliedIffEvent'
    <2>1. \A e \in events' : receipts'[EventKey(e)] = AppliedReceipt(e.cmd, e.after)
      BY <1>1, <1>3, <1>4, <1>6 DEF AppliedIffEvent, TypeOK
    <2>2. ASSUME NEW k \in Keys, receipts'[k] # None, receipts'[k].outcome = "applied"
          PROVE  \E e \in events' : EventKey(e) = k
      BY <2>2, <1>3, <1>4 DEF AppliedIffEvent, TypeOK
    <2>3. QED
      BY <2>1, <2>2 DEF AppliedIffEvent, EventKey
  <1>11. AtMostOnce'
    BY <1>3, <1>4, <1>6 DEF AtMostOnce, EventKey
  <1>12. NoForkedVersion'
    BY <1>3, <1>4, <1>5, <1>6, <1>7 DEF NoForkedVersion, SameLife
  <1>13. RowAhead'
    <2> SUFFICES ASSUME NEW e \in events',
                        journeys'[e.cmd.journey] # None,
                        journeys'[e.cmd.journey].born = e.after.born
                 PROVE  e.after.version <= journeys'[e.cmd.journey].version
      BY DEF RowAhead
    <2>1. CASE e = new
      BY <2>1, <1>1, <1>3, <1>4, <1>5 DEF TypeOK
    <2>2. CASE e \in events /\ e.cmd.journey = c.journey
      BY <2>2, <1>1, <1>4, <1>5, <1>6 DEF RowAhead, TypeOK
    <2>3. CASE e \in events /\ e.cmd.journey # c.journey
      BY <2>3, <1>4, <1>6 DEF RowAhead, TypeOK
    <2>4. QED
      BY <2>1, <2>2, <2>3, <1>4
  <1>14. LogExplainsRow'
    <2> SUFFICES ASSUME NEW e \in events',
                        journeys'[e.cmd.journey] # None,
                        journeys'[e.cmd.journey].born = e.after.born,
                        ~Superseded(e)'
                 PROVE  journeys'[e.cmd.journey].data = e.after.data
      BY DEF LogExplainsRow
    <2>1. CASE e = new
      BY <2>1, <1>1, <1>3, <1>4, <1>5 DEF TypeOK
    <2>2. CASE e \in events /\ e.cmd.journey = c.journey
      <3>1. SameLife(e, new)
        BY <2>2, <1>1, <1>3, <1>4, <1>5 DEF TypeOK, SameLife
      <3>2. e.after.version < new.after.version
        BY <3>1, <2>2, <1>3, <1>5, <1>6, <1>7
      <3>3. QED
        BY <3>1, <3>2, <1>4 DEF Superseded, SameLife
    <2>3. CASE e \in events /\ e.cmd.journey # c.journey
      <3>1. ~Superseded(e)
        BY <1>4 DEF Superseded, SameLife
      <3>2. QED
        BY <3>1, <2>3, <1>4, <1>6 DEF LogExplainsRow, TypeOK
    <2>4. QED
      BY <2>1, <2>2, <2>3, <1>4
  <1>15. ChainUnbroken'
    <2> SUFFICES ASSUME NEW e \in events', NEW f \in events',
                        SameLife(e, f),
                        e.after.version < f.after.version,
                        \A g \in events' :
                           SameLife(e, g) => (g.after.version <= e.after.version
                                                \/ f.after.version <= g.after.version)
                 PROVE  f.before.data = e.after.data
      BY DEF ChainUnbroken, SameLife
    <2>1. CASE e \in events /\ f \in events
      BY <2>1, <1>4 DEF ChainUnbroken
    <2>2. CASE e \in events /\ f = new
      <3>1. ~Superseded(e)
        <4> SUFFICES ASSUME NEW g \in events, SameLife(e, g),
                            e.after.version < g.after.version
                     PROVE  FALSE
          BY DEF Superseded
        <4>1. new.after.version <= g.after.version
          BY <2>2, <1>4, <1>6
        <4>2. SameLife(g, new)
          BY <2>2 DEF SameLife
        <4>3. QED
          BY <4>1, <4>2, <1>3, <1>5, <1>6, <1>7
      <3>2. row.born = e.after.born /\ e.cmd.journey = c.journey
        BY <2>2, <1>3, <1>5 DEF SameLife
      <3>3. QED
        BY <3>1, <3>2, <2>2, <1>3, <1>4 DEF LogExplainsRow
    <2>3. CASE e = new /\ f \in events
      <3>1. SameLife(f, new)
        BY <2>3 DEF SameLife
      <3>2. QED
        BY <3>1, <2>3, <1>3, <1>5, <1>6, <1>7
    <2>4. CASE e = new /\ f = new
      BY <2>4, <1>3, <1>5
    <2>5. QED
      BY <2>1, <2>2, <2>3, <2>4, <1>4
  <1>16. QED
    BY <1>8, <1>9, <1>10, <1>11, <1>12, <1>13, <1>14, <1>15

\* A receipt that is not "applied" leaves rows and events alone.
LEMMA TerminalPreserves ==
    ASSUME LedgerInv, NEW u \in Users, NEW c \in Commands, NEW o \in Outcomes,
           o # "applied",
           receipts[<<u, c.id>>] = None,
           receipts' = [receipts EXCEPT ![<<u, c.id>>] = TerminalReceipt(c, o)],
           absent' \subseteq absent,
           UNCHANGED <<role, journeys, events>>
    PROVE  LedgerInv'
  <1> USE DEF LedgerInv
  <1>1. <<u, c.id>> \in Keys
    BY KeyTypes
  <1>2. TypeOK'
    BY <1>1, ReceiptTypes DEF TypeOK
  <1>3. AppliedIffEvent'
    <2>1. ASSUME NEW e \in events
          PROVE  receipts'[EventKey(e)] = AppliedReceipt(e.cmd, e.after)
      <3>1. e.cmd \in Commands /\ e.user \in Users /\ e.after \in Row
        BY DEF TypeOK, Event
      <3>2. EventKey(e) \in Keys
        BY <3>1, KeyTypes DEF EventKey
      <3>3. EventKey(e) # <<u, c.id>>
        BY <3>1, ReceiptTypes DEF AppliedIffEvent
      <3>4. QED
        BY <3>2, <3>3 DEF AppliedIffEvent, TypeOK
    <2>2. ASSUME NEW k \in Keys, receipts'[k] # None, receipts'[k].outcome = "applied"
          PROVE  \E e \in events : EventKey(e) = k
      <3>1. k # <<u, c.id>>
        BY <2>2, <1>1 DEF TypeOK, TerminalReceipt
      <3>2. QED
        BY <2>2, <3>1 DEF AppliedIffEvent, TypeOK
    <2>3. QED
      BY <2>1, <2>2 DEF AppliedIffEvent, EventKey
  <1>4. QED
    BY <1>2, <1>3 DEF EventsAreCommands, EventIsTheCommand, AtMostOnce, EventKey,
         NoForkedVersion, SameLife, RowAhead, LogExplainsRow, Superseded, ChainUnbroken

\* A row that no event describes yet, that is gone, or whose version has
\* moved without its data: the log still explains it.
LEMMA RowChangePreserves ==
    ASSUME LedgerInv, NEW j \in Journeys, NEW row \in Row \cup {None},
           journeys' = [journeys EXCEPT ![j] = row],
           UNCHANGED <<role, receipts, events, absent>>,
           \/ row = None
           \/ row # None /\ \A e \in events : e.after.born # row.born
           \/ journeys[j] # None /\ row = Touched(journeys[j])
    PROVE  LedgerInv'
  <1> USE DEF LedgerInv
  <1>1. TypeOK'
    BY DEF TypeOK
  <1>2. \A e \in events : e.cmd.journey \in Journeys /\ e.after.version \in Nat
    BY KeyTypes DEF TypeOK, Event, Row
  <1>3. journeys[j] # None =>
           /\ journeys[j].version \in Nat
           /\ Touched(journeys[j]).version = journeys[j].version + 1
           /\ Touched(journeys[j]).data = journeys[j].data
           /\ Touched(journeys[j]).born = journeys[j].born
    BY DEF TypeOK, Row, Touched
  <1>4. RowAhead'
    <2> SUFFICES ASSUME NEW e \in events,
                        journeys'[e.cmd.journey] # None,
                        journeys'[e.cmd.journey].born = e.after.born
                 PROVE  e.after.version <= journeys'[e.cmd.journey].version
      BY DEF RowAhead
    <2>1. CASE e.cmd.journey # j
      BY <2>1, <1>2 DEF RowAhead, TypeOK
    <2>2. CASE e.cmd.journey = j
      BY <2>2, <1>2, <1>3 DEF RowAhead, TypeOK
    <2>3. QED
      BY <2>1, <2>2
  <1>5. LogExplainsRow'
    <2> SUFFICES ASSUME NEW e \in events,
                        journeys'[e.cmd.journey] # None,
                        journeys'[e.cmd.journey].born = e.after.born,
                        ~Superseded(e)'
                 PROVE  journeys'[e.cmd.journey].data = e.after.data
      BY DEF LogExplainsRow
    <2>0. ~Superseded(e)
      BY DEF Superseded, SameLife
    <2>1. CASE e.cmd.journey # j
      BY <2>0, <2>1, <1>2 DEF LogExplainsRow, TypeOK
    <2>2. CASE e.cmd.journey = j
      BY <2>0, <2>2, <1>2, <1>3 DEF LogExplainsRow, TypeOK
    <2>3. QED
      BY <2>1, <2>2
  <1>6. QED
    BY <1>1, <1>4, <1>5 DEF EventsAreCommands, EventIsTheCommand, AtMostOnce, EventKey,
         AppliedIffEvent, NoForkedVersion, SameLife, ChainUnbroken

\* Roles and what commands have noticed are not part of the log.
LEMMA OthersPreserve ==
    ASSUME LedgerInv,
           role' \in [Users -> Roles \cup {None}],
           absent' \subseteq Users \X Commands,
           UNCHANGED <<journeys, receipts, events>>
    PROVE  LedgerInv'
  BY DEF LedgerInv, TypeOK, EventsAreCommands, EventIsTheCommand, AtMostOnce, EventKey,
         AppliedIffEvent, NoForkedVersion, SameLife, RowAhead, LogExplainsRow, Superseded,
         ChainUnbroken

-----------------------------------------------------------------------------

\* Every step of the ledger keeps its invariant.
LEMMA NextLedgerInv == LedgerInv /\ [Next]_vars => LedgerInv'
  <1> SUFFICES ASSUME LedgerInv, [Next]_vars PROVE LedgerInv'
    OBVIOUS
  <1>0. TypeOK
    BY DEF LedgerInv
  <1>1. ASSUME NEW u \in Users, NEW c \in Commands, Apply(u, c) PROVE LedgerInv'
    BY <1>1, ApplyPreserves
  <1>2. ASSUME NEW u \in Users, NEW c \in Commands, Conflict(u, c) PROVE LedgerInv'
    BY <1>2, TerminalPreserves DEF Conflict, Unanswered, Outcomes
  <1>3. ASSUME NEW u \in Users, NEW c \in Commands, NotFound(u, c) PROVE LedgerInv'
    BY <1>3, TerminalPreserves DEF NotFound, Unanswered, Outcomes
  <1>4. CASE Notice
    BY <1>4, <1>0, OthersPreserve DEF Notice, TypeOK
  <1>5. ASSUME NEW u \in Users, NEW j \in Journeys, Create(u, j) PROVE LedgerInv'
    <2>1. PICK row \in Row : /\ \A e \in events : e.after.born # row.born
                            /\ journeys' = [journeys EXCEPT ![j] = row]
      BY <1>5 DEF Create
    <2>2. row # None
      BY NoneAssumption
    <2>3. QED
      BY <1>5, <2>1, <2>2, RowChangePreserves DEF Create
  <1>6. ASSUME NEW u \in Users, NEW j \in Journeys, Delete(u, j) PROVE LedgerInv'
    BY <1>6, RowChangePreserves DEF Delete
  <1>7. ASSUME NEW u \in Users, NEW j \in Journeys, Touch(u, j) PROVE LedgerInv'
    <2>1. Touched(journeys[j]) \in Row
      BY <1>7, <1>0, RowTypes DEF Touch, TypeOK
    <2>2. QED
      BY <1>7, <2>1, RowChangePreserves DEF Touch
  <1>8. ASSUME NEW u \in Users, NEW x \in Roles \cup {None}, SetRole(u, x) PROVE LedgerInv'
    BY <1>8, <1>0, OthersPreserve DEF SetRole, TypeOK
  <1>9. CASE UNCHANGED vars
    BY <1>9, <1>0, OthersPreserve DEF vars, TypeOK
  <1>10. QED
    BY <1>1, <1>2, <1>3, <1>4, <1>5, <1>6, <1>7, <1>8, <1>9 DEF Next

\* Every history of atomic, authorised commands keeps the log, the receipts
\* and the rows of the workspace in agreement.
THEOREM LedgerCorrect == Spec => []LedgerInv
  <1>1. Init => LedgerInv
    BY InitLedgerInv
  <1>2. LedgerInv /\ [Next]_vars => LedgerInv'
    BY NextLedgerInv
  <1>3. QED
    BY <1>1, <1>2, PTL DEF Spec

\* No step of the ledger rewrites the decision on a command.
LEMMA DecisionsStay ==
    ASSUME LedgerInv, [Next]_vars
    PROVE  /\ events \subseteq events'
           /\ \A k \in Keys : receipts[k] # None => receipts'[k] = receipts[k]
  BY KeyTypes DEF Next, vars, LedgerInv, TypeOK, Apply, Conflict, NotFound, Notice, Create,
       Delete, Touch, SetRole, Unanswered

\* A receipt and an event, once committed, stay as they are.
THEOREM LedgerDecidesOnce ==
    Spec => [][/\ events \subseteq events'
               /\ \A k \in Keys : receipts[k] # None => receipts'[k] = receipts[k]]_vars
  <1>1. [Next]_vars /\ LedgerInv =>
           [/\ events \subseteq events'
            /\ \A k \in Keys : receipts[k] # None => receipts'[k] = receipts[k]]_vars
    BY DecisionsStay
  <1>2. QED
    BY <1>1, LedgerCorrect, PTL DEF Spec
=============================================================================
