---------------------------- MODULE ContractRelease ----------------------------
(***************************************************************************)
(* The way of the HTTP contract from the server's code to a released       *)
(* client: contracts.mjs generates the artifacts and checks the committed  *)
(* ones, generate-api-client.mjs makes the client's operations and its     *)
(* supported versions, support-compatibility.mjs guards the advertised     *)
(* ranges, and a page that loaded a client long ago negotiates with        *)
(* whatever server is running now (negotiation.ts).                        *)
(*                                                                         *)
(* A source is what the server's code says: its operations and what it     *)
(* advertises.  An artifact is known by the source it was made from.       *)
(***************************************************************************)
EXTENDS VersionNegotiation, Sequences

CONSTANTS
    Sources,        \* the sources somebody may write
    MaxEdits,       \* changes of the source
    MaxReleases

ASSUME SourcesAssumption == \A s \in Sources : WholeVersions(s.contract)

VARIABLES
    source,         \* in the working tree
    files,          \* the committed artifacts: the source of each
    generating,     \* the files that a generation has still to copy
    server,         \* what is released, source and files; the trusted base
    clients,        \* the clients that pages have loaded
    edits, releases

vars == <<source, files, generating, server, clients, edits, releases>>

Files == <<"openapi.json", "schema.ts", "runtime-fixtures.json", "client.ts">>
FileNames == {Files[i] : i \in 1..4}

-----------------------------------------------------------------------------
(***************************************************************************)
(* generate-api-client.mjs                                                 *)
(***************************************************************************)
\* A parameter is a path parameter with a schema or the CSRF header, and
\* always required.
AcceptedParameter(p) ==
    /\ p.in = "path" \/ (p.in = "header" /\ p.name = "X-CSRF-Token")
    /\ p.required

\* A response has a status of three digits and JSON or nothing; a success
\* other than 204 has JSON.
AcceptedResponse(r) ==
    /\ r.status \in 100..999 /\ r.content \in {"json", "none"}
    /\ r.status \in 200..299 /\ r.status # 204 => r.content = "json"

pathSchemas(op) == {p.name : p \in {q \in op.parameters : q.in = "path"}}

\* The command marker names the literal of the request schema.
AcceptedMarker(op) == op.marker = None \/ (op.body = "json" /\ op.literal = op.marker)

AcceptedOperation(op) ==
    /\ op.fields = "known" /\ op.security \in {"none", "session"} /\ op.id # None
    /\ \A p \in op.parameters : AcceptedParameter(p)
    /\ op.placeholders \subseteq pathSchemas(op)
    /\ op.body \in {"none", "json"}
    /\ \A r \in op.responses : AcceptedResponse(r)
    /\ \E r \in op.responses : r.status \in 200..299
    /\ AcceptedMarker(op)

\* Two operations with one identifier are refused.
AcceptedOperations(ops) ==
    (\A op \in ops : AcceptedOperation(op)) /\ \A a, b \in ops : a.id = b.id => a = b

Metadata(op) ==
    [key |-> op.key, id |-> op.id, commandType |-> op.marker, csrf |-> \E p \in op.parameters : p.in = "header",
     names |-> pathSchemas(op), statuses |-> {r.status : r \in op.responses}]

markedCommands(ops) == {op.marker : op \in ops} \ {None}

\* The generator's idea of a range: the lowest version may be anything.
AcceptedRange(r) == r.cur >= 1 /\ r.min <= r.cur /\ r.cur <= r.max

\* The advertised ranges are ranges, and every marked command is advertised.
AcceptedFixtures(s) ==
    /\ AcceptedRange(s.contract.api) /\ OneEach(s.contract.commands)
    /\ \A c \in s.contract.commands : AcceptedRange(c.range)
    /\ \A t \in markedCommands(s.operations) : Has(s.contract.commands, t)

Exactly(v) == [min |-> v, cur |-> v, max |-> v]

\* The client supports the current versions, and no others.
clientSupport(s) ==
    [api |-> Exactly(s.contract.api.cur),
     commands |-> {[type |-> t, range |-> Exactly(RangeOf(s.contract.commands, t).cur)] :
                      t \in {u \in markedCommands(s.operations) : Has(s.contract.commands, u)}}]

generates(s) == AcceptedOperations(s.operations) /\ AcceptedFixtures(s)

\* The client of a source.
Client(s) == [operations |-> {Metadata(op) : op \in s.operations}, support |-> clientSupport(s)]

-----------------------------------------------------------------------------
(***************************************************************************)
(* contract-compatibility.mjs                                              *)
(***************************************************************************)
\* The differences of two contracts, as the library that compares them
\* reports and classifies them: what has changed, how, and its type.
Difference(at, action, type) == [at |-> at, action |-> action, type |-> type]

OperationDifferences(a, b) ==
    {d \in {Difference("operationId", "replace", "annotation"), Difference("x-trax-command-type", "replace", "annotation"),
            Difference("security", "replace", "unclassified")} :
        \/ d.at = "operationId" /\ a.id # b.id
        \/ d.at = "x-trax-command-type" /\ a.marker # b.marker
        \/ d.at = "security" /\ a.security # b.security}
    \union {Difference("parameters", "add", IF p.required THEN "breaking" ELSE "non-breaking") : p \in b.parameters \ a.parameters}
    \union {Difference("parameters", "remove", "non-breaking") : p \in a.parameters \ b.parameters}
    \union {Difference("requestBody", "replace", "breaking") : x \in {y \in {1} : a.body # b.body \/ a.literal # b.literal}}
    \union {Difference("responses", "add", "non-breaking") : r \in b.responses \ a.responses}
    \union {Difference("responses", "remove", "breaking") : r \in a.responses \ b.responses}

OnlyIn(ops, others) == {x \in ops : \A y \in others : y.key # x.key}

DifferencesInBoth(old, new) == UNION {UNION {OperationDifferences(a, b) : b \in {y \in new : y.key = a.key}} : a \in old}

Differences(old, new) ==
    DifferencesInBoth(old, new)
    \union {Difference("paths", "remove", "breaking") : x \in OnlyIn(old, new)}
    \union {Difference("paths", "add", "non-breaking") : x \in OnlyIn(new, old)}

\* Identifiers, markers and security never change, parameters only by an
\* optional one more.
violatesTraxCompatibilityPolicy(d) ==
    \/ d.at \in {"operationId", "x-trax-command-type", "security"}
    \/ d.at = "parameters" /\ ~(d.action = "add" /\ d.type = "non-breaking")

\* The one-time exemption for a baseline whose security metadata the server
\* never enforced (legacySecurityMetadata) is left out: today's baseline is
\* not one.
blockingDifferences(old, new) ==
    {d \in Differences(old, new) :
        d.type \notin {"annotation", "deprecated", "non-breaking"} \/ violatesTraxCompatibilityPolicy(d)}

-----------------------------------------------------------------------------
(***************************************************************************)
(* Edits, generation and releases                                          *)
(***************************************************************************)
Init ==
    /\ source \in {s \in Sources : generates(s) /\ loadSupport(s.contract)}
    /\ files = [f \in FileNames |-> source] /\ generating = <<>>
    /\ server = [source |-> source, files |-> files] /\ clients = {}
    /\ edits = 0 /\ releases = 0

Edit(s) ==
    /\ generating = <<>> /\ s # source /\ edits < MaxEdits /\ edits' = edits + 1
    /\ source' = s
    /\ UNCHANGED <<files, generating, server, clients, releases>>

\* contracts.mjs generate: everything is made in a directory of its own, and
\* copied only when all of it is there.
StartGenerate ==
    /\ generating = <<>> /\ generates(source)
    /\ generating' = Files
    /\ UNCHANGED <<source, files, server, clients, edits, releases>>

CopyFile ==
    /\ generating # <<>>
    /\ files' = [files EXCEPT ![Head(generating)] = source]
    /\ generating' = Tail(generating)
    /\ UNCHANGED <<source, server, clients, edits, releases>>

\* A copy fails, or somebody interrupts it.
Interrupt ==
    /\ generating # <<>> /\ generating # Files
    /\ generating' = <<>>
    /\ UNCHANGED <<source, files, server, clients, edits, releases>>

\* Mutant: the check compares the contract's files and not the client.
DriftFree_ContractOnly == \A f \in FileNames \ {"client.ts"} : files[f] = source

\* contracts.mjs check, with a second generation that gives the same.
DriftFree == \A f \in FileNames : files[f] = source

\* CI: generation succeeds, nothing has drifted, and neither the operations nor
\* the supported ranges break with the trusted base.
Release ==
    /\ generating = <<>> /\ generates(source) /\ DriftFree /\ loadSupport(source.contract)
    /\ blockingDifferences(server.source.operations, source.operations) = {}
    /\ supportBreakingChanges(server.source.contract, source.contract) = {}
    /\ server.source # source /\ releases < MaxReleases /\ releases' = releases + 1
    /\ server' = [source |-> source, files |-> files]
    /\ UNCHANGED <<source, files, generating, clients, edits>>

\* A page loads the client that was released with the server, and keeps it.
Load ==
    /\ clients' = clients \union {Client(server.files["client.ts"])}
    /\ clients' # clients
    /\ UNCHANGED <<source, files, generating, server, edits, releases>>

Next ==
    \/ \E s \in Sources : Edit(s)
    \/ StartGenerate \/ CopyFile \/ Interrupt \/ Release \/ Load

Spec == Init /\ [][Next]_vars

-----------------------------------------------------------------------------
(***************************************************************************)
(* Properties                                                              *)
(***************************************************************************)
\* A page negotiates with every later server, for the versions its client was
\* made with; each command that its client can send has a version, and every
\* operation it knows is still the same operation.  That holds however often a
\* generation was interrupted or the source changed after it: a client that
\* was generated from something that never was released is not released.
OldClientsKeepWorking ==
    \A c \in clients :
        LET n == negotiateContract(c.support, server.source.contract) IN
        /\ n.ok /\ n.api = c.support.api.cur
        /\ \A op \in c.operations : \E s \in server.source.operations :
              /\ s.key = op.key /\ s.id = op.id /\ s.marker = op.commandType /\ pathSchemas(s) = op.names
              /\ (\E p \in s.parameters : p.in = "header") => op.csrf
        /\ \A op \in c.operations :
              op.commandType # None =>
                 op.commandType \in DOMAIN n.commands
                 /\ n.commands[op.commandType] = RangeOf(c.support.commands, op.commandType).cur
=============================================================================
