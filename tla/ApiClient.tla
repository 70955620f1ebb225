------------------------------ MODULE ApiClient ------------------------------
(***************************************************************************)
(* TraxApiClient (client.ts): calls that share one negotiation with the    *)
(* server.                                                                 *)
(*                                                                         *)
(* A command first asks for its version and then goes out as a request;    *)
(* each of the two waits for the negotiation that is under way, or starts  *)
(* one.  A negotiation that fails is forgotten, one that succeeds is kept  *)
(* as long as the page lives, while the server may be replaced by any      *)
(* later release that the repository's support check lets through.         *)
(***************************************************************************)
EXTENDS VersionNegotiation, FiniteSets

CONSTANTS
    Calls,          \* calls to the client
    Advertised,     \* what a server may advertise
    Support,        \* clientSupport of the generated client
    MaxFailures,    \* fetches that fail or are answered with nonsense
    MaxUpgrades, MaxAttempts

ASSUME AdvertisedAssumption == \A m \in Advertised : WholeVersions(m)

\* The generator makes ranges that are ranges, and one for each command.
ASSUME SupportAssumption ==
    /\ WholeVersions(Support) /\ validRange(Support.api)
    /\ OneEach(Support.commands) /\ \A c \in Support.commands : validRange(c.range)

VARIABLES
    contract,       \* of the server
    negotiation,    \* of the client: none, pending or kept with its result
    attempts,       \* negotiations begun
    call,
    failures, upgrades

clientVars == <<contract, negotiation, attempts, call, failures, upgrades>>

NoResult == [ok |-> FALSE, code |-> "", api |-> 0, commands |-> [t \in {} |-> 0]]
Holding(status) == [status |-> status, result |-> NoResult]

Idle == [phase |-> "idle", command |-> None, version |-> 0, since |-> 0, failed |-> 0, result |-> "none"]

ClientInit ==
    /\ contract \in Advertised
    /\ negotiation = Holding("none") /\ attempts = 0
    /\ call = [c \in Calls |-> Idle]
    /\ failures = 0 /\ upgrades = 0

-----------------------------------------------------------------------------
\* The negotiation that is under way or kept, or a new one.
ensureNegotiated ==
    IF negotiation.status = "none" THEN negotiation' = Holding("pending") /\ attempts' = attempts + 1
    ELSE UNCHANGED <<negotiation, attempts>>

Finished == IF negotiation.status = "pending" THEN attempts - 1 ELSE attempts

End(c, result) == call' = [call EXCEPT ![c].phase = "done", ![c].result = result]

\* The rejection of a negotiation, as a caller sees it.
Failed(k, code) == [k EXCEPT !.phase = "done", !.result = code, !.failed = attempts]

\* commandVersion, or request for an operation that is not a command.
Start(c, command) ==
    /\ call[c].phase = "idle"
    /\ ensureNegotiated
    /\ call' = [call EXCEPT ![c] = [Idle EXCEPT !.command = command, !.since = Finished,
                                                !.phase = IF command = None THEN "request" ELSE "version"]]
    /\ UNCHANGED <<contract, failures, upgrades>>

\* A caller tries again after an error.
Again(c) ==
    /\ call[c].phase = "done" /\ call[c].result # "ok" /\ attempts < MaxAttempts
    /\ call' = [call EXCEPT ![c] = Idle]
    /\ UNCHANGED <<contract, negotiation, attempts, failures, upgrades>>

Waiting(c) == call[c].phase \in {"version", "request"}

\* Mutant: a failed negotiation is remembered like a good one.
Reject_Remembers(code) ==
    /\ negotiation' = [status |-> "kept", result |-> [NoResult EXCEPT !.code = code]]
    /\ call' = [c \in Calls |-> IF Waiting(c) THEN Failed(call[c], code) ELSE call[c]]

\* Mutant: only the call that began the negotiation is told of its failure.
Reject_OneCaller(code) ==
    /\ negotiation' = Holding("none")
    /\ call' = [c \in Calls |-> IF Waiting(c) /\ call[c].since + 1 = attempts /\ \A d \in Calls : Waiting(d) => c <= d
                                THEN Failed(call[c], code) ELSE call[c]]

\* Everybody who waits is told of the failure, and it is forgotten first.
Reject(code) ==
    /\ negotiation' = Holding("none")
    /\ call' = [c \in Calls |-> IF Waiting(c) THEN Failed(call[c], code) ELSE call[c]]

\* bootstrap: the contract operation is executed and its answer negotiated.
Bootstrap ==
    /\ negotiation.status = "pending"
    /\ LET result == negotiateContract(Support, contract) IN
       IF result.ok THEN negotiation' = [status |-> "kept", result |-> result] /\ UNCHANGED call ELSE Reject(result.code)
    /\ UNCHANGED <<contract, attempts, failures, upgrades>>

\* The fetch fails, or what comes back is not what the contract declares.
BootstrapFails(code) ==
    /\ negotiation.status = "pending" /\ failures < MaxFailures /\ failures' = failures + 1
    /\ Reject(code)
    /\ UNCHANGED <<contract, attempts, upgrades>>

Negotiated == negotiation.status = "kept"

\* commandVersion returns, and request waits again.
TakeVersion(c) ==
    /\ call[c].phase = "version" /\ Negotiated
    /\ IF ~negotiation.result.ok THEN call' = [call EXCEPT ![c] = Failed(@, negotiation.result.code)] /\ UNCHANGED <<negotiation, attempts>>
       ELSE /\ ensureNegotiated
            /\ call' = [call EXCEPT ![c].phase = "request", ![c].since = Finished,
                                    ![c].version = negotiation.result.commands[call[c].command]]
    /\ UNCHANGED <<contract, failures, upgrades>>

\* execute up to the fetch: the input is checked, and a command must have the
\* version that is negotiated now.
SendRequest(c) ==
    /\ call[c].phase = "request" /\ Negotiated
    /\ IF ~negotiation.result.ok THEN call' = [call EXCEPT ![c] = Failed(@, negotiation.result.code)]
       ELSE IF call[c].command # None /\ negotiation.result.commands[call[c].command] # call[c].version
       THEN End(c, "command_version_mismatch")
       ELSE call' = [call EXCEPT ![c].phase = "fetch"]
    /\ UNCHANGED <<contract, negotiation, attempts, failures, upgrades>>

\* The input is not what the operation declares: nothing is sent.
InvalidRequest(c) ==
    /\ call[c].phase = "request" /\ Negotiated /\ failures < MaxFailures /\ failures' = failures + 1
    /\ End(c, "invalid_request")
    /\ UNCHANGED <<contract, negotiation, attempts, upgrades>>

\* What execute makes of a response: declared says whether its status is,
\* empty whether that status has no body, json and valid describe the body,
\* canonical whether the status has the ErrorResponse schema.
Classify(r) ==
    LET invalid == IF r.success THEN "invalid_response" ELSE "invalid_error_response" IN
    IF ~r.declared THEN "unexpected_status"
    ELSE IF r.empty THEN IF r.valid THEN "ok" ELSE invalid
    ELSE IF ~r.json THEN "unexpected_content_type"
    ELSE IF ~r.valid THEN invalid
    ELSE IF r.success THEN "ok"
    ELSE IF r.canonical THEN "api" ELSE "http_error"

Responses == [declared : BOOLEAN, empty : BOOLEAN, json : BOOLEAN, valid : BOOLEAN, success : BOOLEAN, canonical : BOOLEAN]

Served(c) ==
    call[c].command = None
    \/ call[c].version \in RangeOf(contract.commands, call[c].command).min..RangeOf(contract.commands, call[c].command).max

\* The server answers as its contract says; it refuses a command version that
\* it does not support.
Respond(c) ==
    /\ call[c].phase = "fetch"
    /\ End(c, IF Served(c) THEN "ok" ELSE "refused")
    /\ UNCHANGED <<contract, negotiation, attempts, failures, upgrades>>

\* The network fails, or the response is of another kind.
RespondOtherwise(c) ==
    /\ call[c].phase = "fetch" /\ failures < MaxFailures /\ failures' = failures + 1
    /\ \/ End(c, "network_error")
       \/ \E r \in Responses : Classify(r) # "ok" /\ End(c, Classify(r))
    /\ UNCHANGED <<contract, negotiation, attempts, upgrades>>

\* A release that passes the support check against the one before it.
Upgrade(next) ==
    /\ upgrades < MaxUpgrades /\ upgrades' = upgrades + 1
    /\ next # contract /\ loadSupport(contract) /\ loadSupport(next) /\ supportBreakingChanges(contract, next) = {}
    /\ contract' = next
    /\ UNCHANGED <<negotiation, attempts, call, failures>>

-----------------------------------------------------------------------------
ClientNext ==
    \/ \E c \in Calls :
          \/ \E command \in {None} \union {d.type : d \in Support.commands} : Start(c, command)
          \/ Again(c) \/ TakeVersion(c) \/ Respond(c) \/ RespondOtherwise(c)
          \/ SendRequest(c) \/ InvalidRequest(c)
    \/ Bootstrap
    \/ \E code \in {"network_error", "invalid_contract_metadata", "api"} : BootstrapFails(code)
    \/ \E next \in Advertised : Upgrade(next)

ClientSpec == ClientInit /\ [][ClientNext]_clientVars

\* A fetch ends, and the code after an await runs.
FairSpec ==
    /\ ClientSpec
    /\ WF_clientVars(Bootstrap)
    /\ \A c \in Calls : WF_clientVars(TakeVersion(c)) /\ WF_clientVars(SendRequest(c)) /\ WF_clientVars(Respond(c))

-----------------------------------------------------------------------------
(***************************************************************************)
(* Properties                                                              *)
(***************************************************************************)
\* Nobody waits for a negotiation that is not there.
TypeOK ==
    /\ contract \in Advertised /\ attempts \in Nat
    /\ \A c \in Calls :
          /\ call[c].phase \in {"idle", "version", "request", "fetch", "done"}
          /\ Waiting(c) => negotiation.status # "none"

\* The ranges to be agreed on: the client's with the server's.
Pairs(metadata) ==
    {<<Support.api, metadata.api>>} \union {<<c.range, RangeOf(metadata.commands, c.type)>> : c \in Support.commands}
Agreeable(metadata) ==
    /\ loadSupport(metadata) /\ \A c \in Support.commands : Has(metadata.commands, c.type)
    /\ \A p \in Pairs(metadata) : Common(p[1], p[2]) # {}

HighestCommon(v, a, b) == v \in Common(a, b) /\ \A w \in Common(a, b) : w <= v

\* A negotiation succeeds exactly when client and server have a version in
\* common for the API and for every command, and takes the highest.  What was
\* negotiated once stays good: no later release that passed the support check
\* refuses the version of a command, and a command is never sent with another
\* version than the one it asked for.
NeverStranded ==
    [][/\ negotiation.status = "pending" /\ negotiation'.status # "pending" /\ failures' = failures =>
             /\ negotiation'.result.ok <=> Agreeable(contract)
             /\ negotiation'.result.ok =>
                   /\ HighestCommon(negotiation'.result.api, Support.api, contract.api)
                   /\ \A c \in Support.commands :
                         HighestCommon(negotiation'.result.commands[c.type], c.range,
                                       RangeOf(contract.commands, c.type))
       /\ \A c \in Calls : call'[c].result \notin {"refused", "command_version_mismatch"}]_clientVars

\* A call never gets a failure that was over when it began.
NoStaleFailure == \A c \in Calls : call[c].failed # 0 => call[c].failed > call[c].since

\* Every call ends, for all that wait on one negotiation.
CallsEnd == \A c \in Calls : Waiting(c) ~> ~Waiting(c)
=============================================================================
