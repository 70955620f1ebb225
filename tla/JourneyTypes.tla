---------------------------- MODULE JourneyTypes ----------------------------
(***************************************************************************)
(* The vocabulary of one workspace of the Trax OS API server: memberships  *)
(* and their roles, Journey rows, journey.update commands, receipts and    *)
(* change events.  Shared by the abstract ledger (JourneyLedger) and the   *)
(* transaction-level model (CommandUow).                                   *)
(***************************************************************************)
EXTENDS Naturals

CONSTANTS
    Users,        \* accounts that hold, or may hold, a membership
    Journeys,     \* Journey identifiers (a client may choose one)
    Data,         \* the payload of a Journey: name, dates and status
    CommandIds,   \* client-chosen command identifiers
    Commands,     \* the journey.update commands that clients may send
    None          \* SQL NULL, or the absence of a row

ASSUME CommandsAssumption ==
    Commands \subseteq
        [id : CommandIds, journey : Journeys, expected : Nat \ {0}, data : Data]

ASSUME IdentifiersAssumption == None \notin Commands

(***************************************************************************)
(* Roles: workspace_memberships.role and the immutable role policy.        *)
(***************************************************************************)
Roles == {"OWNER", "EDITOR", "VIEWER"}

\* role_allows(role, "journey.write"); None is "no membership row".
CanWrite(role) == role \in {"OWNER", "EDITOR"}

(***************************************************************************)
(* Rows.  `born' is created_at: it tells apart the Journeys that have      *)
(* successively used one identifier, and is part of every before/after     *)
(* state that an event records.                                            *)
(***************************************************************************)
Row == [version : Nat, data : Data, born : Nat]

NewRow(data, born) == [version |-> 1, data |-> data, born |-> born]

\* The UPDATE of apply_journey_update.
Updated(row, cmd) ==
    [version |-> row.version + 1, data |-> cmd.data, born |-> row.born]

\* The UPDATE of _touch_journey.
Touched(row) ==
    [version |-> row.version + 1, data |-> row.data, born |-> row.born]

(***************************************************************************)
(* Receipts and events.  The request digest binds the exact command, so    *)
(* the receipt carries the command itself (SHA-256 collisions are left     *)
(* out).  An event stands for the change set and its only event: both are  *)
(* inserted together and the receipt refers to them.                       *)
(***************************************************************************)
Outcomes == {"applied", "version_conflict", "resource_not_found"}

Receipt == [cmd : Commands, outcome : Outcomes, version : Nat]

\* result_record_version IS NULL unless the command was applied.
NoVersion == 0

TerminalReceipt(cmd, outcome) ==
    [cmd |-> cmd, outcome |-> outcome, version |-> NoVersion]

AppliedReceipt(cmd, after) ==
    [cmd |-> cmd, outcome |-> "applied", version |-> after.version]

Event == [user : Users, cmd : Commands, before : Row, after : Row]

AuditEvent(user, cmd, before, after) ==
    [user |-> user, cmd |-> cmd, before |-> before, after |-> after]

\* The receipt's primary key inside a workspace.
Keys == Users \X CommandIds

ASSUME NoneAssumption == None \notin (Row \cup Receipt \cup Event \cup Roles)

=============================================================================
