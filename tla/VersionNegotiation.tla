-------------------------- MODULE VersionNegotiation --------------------------
(***************************************************************************)
(* Versions of the API and of commands: what a server advertises, what a   *)
(* client makes of it (negotiation.ts), and which changes of the           *)
(* advertisement the repository's check lets through                       *)
(* (support-compatibility.mjs).                                            *)
(*                                                                         *)
(* A range is a record with min, cur and max; an advertisement has a range *)
(* for the API and a set of commands, each a type with a range.            *)
(***************************************************************************)
EXTENDS Integers

CONSTANT None    \* what an operation that carries no command has for its type

VersionRange == [min : Int, cur : Int, max : Int]

\* Support and advertisements name versions by whole numbers.
WholeVersions(metadata) ==
    metadata.api \in VersionRange /\ \A c \in metadata.commands : c.range \in VersionRange

positiveSafeInteger(n) == n > 0

validRange(r) == positiveSafeInteger(r.min) /\ positiveSafeInteger(r.max) /\ r.min <= r.max

validServerRange(r) == validRange(r) /\ positiveSafeInteger(r.cur) /\ r.min <= r.cur /\ r.cur <= r.max

\* The versions that two ranges have in common.
Common(a, b) == {v \in a.min..a.max : v \in b.min..b.max}

Failure(code) == [ok |-> FALSE, code |-> code, version |-> 0]
Version(v) == [ok |-> TRUE, code |-> "", version |-> v]

negotiateRange(client, server) ==
    IF ~validRange(client) \/ ~validRange(server) THEN Failure("invalid_contract_metadata")
    ELSE IF client.max < server.min THEN Failure("client_too_old")
    ELSE IF client.min > server.max THEN Failure("client_too_new")
    ELSE Version(IF client.max < server.max THEN client.max ELSE server.max)

OneEach(commands) == \A c, d \in commands : c.type = d.type => c = d
RangeOf(commands, type) == (CHOOSE c \in commands : c.type = type).range
Has(commands, type) == \E c \in commands : c.type = type

\* The result of negotiateContract: a code, or versions for the API and for
\* every command that the client supports.
negotiateContract(support, metadata) ==
    LET api == negotiateRange(support.api, metadata.api)
        types == {c.type : c \in support.commands}
        versions == [t \in {u \in types : Has(metadata.commands, u)} |->
                        negotiateRange(RangeOf(support.commands, t), RangeOf(metadata.commands, t))]
        Refused(code) == [ok |-> FALSE, code |-> code, api |-> 0, commands |-> [t \in {} |-> 0]]
    IN  IF ~validServerRange(metadata.api) \/ ~OneEach(metadata.commands)
              \/ \E c \in metadata.commands : ~validServerRange(c.range)
        THEN Refused("invalid_contract_metadata")
        ELSE IF ~api.ok THEN Refused(api.code)
        ELSE IF \E t \in types : ~Has(metadata.commands, t) THEN Refused("unsupported_command")
        ELSE IF \E t \in types : ~versions[t].ok THEN Refused("command_version_no_overlap")
        ELSE [ok |-> TRUE, code |-> "", api |-> api.version, commands |-> [t \in types |-> versions[t].version]]

-----------------------------------------------------------------------------
\* loadSupport: an advertisement that the check can read.
loadSupport(metadata) ==
    validServerRange(metadata.api) /\ OneEach(metadata.commands) /\ \A c \in metadata.commands : validServerRange(c.range)

\* Mutant: the check looks at the highest supported version only.
Contracted_Above(old, new) == new.max < old.max

Contracted(old, new) == new.min > old.min \/ new.max < old.max

supportBreakingChanges(base, candidate) ==
    {"api" : x \in {y \in {1} : Contracted(base.api, candidate.api)}}
    \union {c.type : c \in {d \in base.commands : ~Has(candidate.commands, d.type)
                              \/ Contracted(d.range, RangeOf(candidate.commands, d.type))}}
=============================================================================
