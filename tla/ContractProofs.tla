---------------------------- MODULE ContractProofs ----------------------------
(***************************************************************************)
(* What the repository's gates promise: the two sides of the HTTP contract *)
(* (the calls of a client that share a negotiation, ApiClient, and the     *)
(* releases that this client outlives, ContractRelease), for any calls,    *)
(* sources, advertisements and any number of failures, edits, generations  *)
(* and releases; and the module boundaries (ModuleBoundaries), for any     *)
(* tree.                                                                   *)
(*                                                                         *)
(* A call that waits has begun before the negotiation under way could end, *)
(* and a negotiation that was good is kept for ever; so the failures that a*)
(* call is told of are younger than itself, and a command that has its     *)
(* version finds the same version again when it goes out.                  *)
(*                                                                         *)
(* A client supports the versions that were current when it was made, and  *)
(* a release only widens the ranges that the server supports, so that they *)
(* stay within: that makes the negotiation succeed with just these         *)
(* versions.  An operation keeps what the client knows of it because the   *)
(* comparison blocks every change of it but one, a parameter more that is  *)
(* not required, and this one the generator refuses.                       *)
(*                                                                         *)
(* The boundary check judges imports by the registry; that this is what    *)
(* they arrive at follows from the rest of the check: registry, manifests  *)
(* and files name the same modules, and an export has the file it resolves *)
(* to.                                                                     *)
(***************************************************************************)
EXTENDS ApiClient, ContractRelease, ModuleBoundaries, WellFoundedInduction, TLAPS

-----------------------------------------------------------------------------
(***************************************************************************)
(* The negotiation.                                                        *)
(***************************************************************************)

CommandTypes == {d.type : d \in Support.commands}

\* The range of a type is the range of a command of that type.
LEMMA RangeOfSome ==
    ASSUME NEW commands, NEW t, Has(commands, t)
    PROVE  \E c \in commands : c.type = t /\ RangeOf(commands, t) = c.range
  BY DEF Has, RangeOf

\* The ranges that are compared are ranges of whole numbers, and valid.
LEMMA ComparedRanges ==
    ASSUME NEW m \in Advertised, loadSupport(m), NEW d \in Support.commands, Has(m.commands, d.type)
    PROVE  /\ RangeOf(Support.commands, d.type) = d.range
           /\ d.range \in VersionRange /\ validRange(d.range)
           /\ RangeOf(m.commands, d.type) \in VersionRange
           /\ validServerRange(RangeOf(m.commands, d.type))
  <1>1. RangeOf(Support.commands, d.type) = d.range
    BY SupportAssumption DEF OneEach, RangeOf
  <1>2. d.range \in VersionRange /\ validRange(d.range)
    BY SupportAssumption DEF WholeVersions
  <1>3. PICK e \in m.commands : RangeOf(m.commands, d.type) = e.range
    BY RangeOfSome
  <1>4. e.range \in VersionRange /\ validServerRange(e.range)
    BY AdvertisedAssumption DEF WholeVersions, loadSupport
  <1>5. QED
    BY <1>1, <1>2, <1>3, <1>4

\* Two ranges agree exactly when they have a version in common, and then on
\* the highest.
LEMMA RangesAgree ==
    ASSUME NEW a \in VersionRange, NEW b \in VersionRange, validRange(a), validServerRange(b)
    PROVE  /\ negotiateRange(a, b).ok \in BOOLEAN
           /\ negotiateRange(a, b).ok <=> Common(a, b) # {}
           /\ negotiateRange(a, b).ok =>
                 HighestCommon(negotiateRange(a, b).version, a, b)
           /\ ~negotiateRange(a, b).ok =>
                 negotiateRange(a, b).code \in {"client_too_old", "client_too_new"}
  <1> DEFINE v == IF a.max < b.max THEN a.max ELSE b.max
             n == negotiateRange(a, b)
  <1>1. a.min \in Int /\ a.max \in Int /\ b.min \in Int /\ b.max \in Int /\ a.min <= a.max /\ b.min <= b.max
    BY DEF VersionRange, validRange, validServerRange
  <1>2. validRange(b)
    BY DEF validServerRange
  <1>3. CASE a.max < b.min
    <2>1. n = Failure("client_too_old")
      BY <1>2, <1>3 DEF negotiateRange
    <2>2. Common(a, b) = {}
      BY <1>1, <1>3 DEF Common
    <2> HIDE DEF n
    <2>3. n.ok = FALSE /\ n.code = "client_too_old"
      BY <2>1 DEF Failure
    <2> USE DEF n
    <2>4. QED
      BY <2>2, <2>3
  <1>4. CASE ~(a.max < b.min) /\ a.min > b.max
    <2>1. n = Failure("client_too_new")
      BY <1>2, <1>4 DEF negotiateRange
    <2>2. Common(a, b) = {}
      BY <1>1, <1>4 DEF Common
    <2> HIDE DEF n
    <2>3. n.ok = FALSE /\ n.code = "client_too_new"
      BY <2>1 DEF Failure
    <2> USE DEF n
    <2>4. QED
      BY <2>2, <2>3
  <1>5. CASE ~(a.max < b.min) /\ ~(a.min > b.max)
    <2>1. n = Version(v)
      BY <1>2, <1>5 DEF negotiateRange
    <2>2. HighestCommon(v, a, b)
      BY <1>1, <1>5 DEF HighestCommon, Common
    <2>3. Common(a, b) # {}
      BY <2>2 DEF HighestCommon
    <2> HIDE DEF n, v
    <2>4. n.ok = TRUE /\ n.version = v
      BY <2>1 DEF Version
    <2> USE DEF n
    <2>5. QED
      BY <2>2, <2>3, <2>4
  <1>6. QED
    BY <1>3, <1>4, <1>5

Codes == {"invalid_contract_metadata", "client_too_old", "client_too_new", "unsupported_command",
          "command_version_no_overlap"}

\* The whole: it succeeds exactly when everything has a version in common, and
\* names the highest.
LEMMA ContractNegotiated ==
    ASSUME NEW m \in Advertised
    PROVE  LET n == negotiateContract(Support, m) IN
           /\ n.ok \in BOOLEAN
           /\ n.ok <=> Agreeable(m)
           /\ n.ok => /\ HighestCommon(n.api, Support.api, m.api)
                      /\ \A c \in Support.commands :
                            HighestCommon(n.commands[c.type], c.range, RangeOf(m.commands, c.type))
           /\ ~n.ok => n.code \in Codes
  <1> DEFINE api == negotiateRange(Support.api, m.api)
             n == negotiateContract(Support, m)
             R(t) == negotiateRange(RangeOf(Support.commands, t), RangeOf(m.commands, t))
             versions == [t \in {u \in CommandTypes : Has(m.commands, u)} |-> R(t)]
             refused(code) == [ok |-> FALSE, code |-> code, api |-> 0, commands |-> [t \in {} |-> 0]]
             good == [ok |-> TRUE, code |-> "", api |-> api.version, commands |-> [t \in CommandTypes |-> versions[t].version]]
  <1>1. n = IF ~loadSupport(m) THEN refused("invalid_contract_metadata")
            ELSE IF ~api.ok THEN refused(api.code)
            ELSE IF \E t \in CommandTypes : ~Has(m.commands, t) THEN refused("unsupported_command")
            ELSE IF \E t \in CommandTypes : ~versions[t].ok THEN refused("command_version_no_overlap")
            ELSE good
    <2>1. ~loadSupport(m) <=>
              ~validServerRange(m.api) \/ ~OneEach(m.commands) \/ \E c \in m.commands : ~validServerRange(c.range)
      BY DEF loadSupport
    <2>2. QED
      BY <2>1, Zenon DEF negotiateContract, CommandTypes
  <1> HIDE DEF n
  <1>2. \A k : refused(k).ok = FALSE /\ refused(k).code = k
    OBVIOUS
  <1> HIDE DEF refused
  <1>3. CASE ~loadSupport(m)
    BY <1>1, <1>2, <1>3 DEF Agreeable, Codes, n
  <1>4. CASE loadSupport(m)
    <2>1. /\ api.ok \in BOOLEAN /\ api.ok <=> Common(Support.api, m.api) # {}
          /\ api.ok => HighestCommon(api.version, Support.api, m.api)
          /\ ~api.ok => api.code \in {"client_too_old", "client_too_new"}
      <3>1. m.api \in VersionRange /\ validServerRange(m.api)
        BY <1>4, AdvertisedAssumption DEF WholeVersions, loadSupport
      <3>2. Support.api \in VersionRange /\ validRange(Support.api)
        BY SupportAssumption DEF WholeVersions
      <3>3. QED
        BY <3>1, <3>2, RangesAgree
    <2> HIDE DEF api
    <2>2. CASE ~api.ok
      <3>1. n = refused(api.code)
        BY <1>1, <1>4, <2>2
      <3>2. ~Agreeable(m)
        <4>1. <<Support.api, m.api>> \in Pairs(m)
          BY DEF Pairs
        <4>2. QED
          BY <2>1, <2>2, <4>1 DEF Agreeable
      <3>3. QED
        BY <1>2, <2>1, <2>2, <3>1, <3>2 DEF Codes, n
    <2>3. CASE api.ok /\ \E t \in CommandTypes : ~Has(m.commands, t)
      <3>1. n = refused("unsupported_command")
        BY <1>1, <1>4, <2>3
      <3>2. ~Agreeable(m)
        BY <2>3 DEF Agreeable, CommandTypes
      <3>3. QED
        BY <1>2, <3>1, <3>2 DEF Codes, n
    <2>4. CASE api.ok /\ \A t \in CommandTypes : Has(m.commands, t)
      <3>1. ASSUME NEW c \in Support.commands
            PROVE  /\ versions[c.type] = R(c.type)
                   /\ R(c.type).ok \in BOOLEAN
                   /\ R(c.type).ok <=> Common(c.range, RangeOf(m.commands, c.type)) # {}
                   /\ R(c.type).ok =>
                         HighestCommon(R(c.type).version, c.range, RangeOf(m.commands, c.type))
        <4>1. c.type \in CommandTypes /\ Has(m.commands, c.type)
          BY <2>4 DEF CommandTypes
        <4>2. versions[c.type] = R(c.type)
          BY <4>1
        <4>3. R(c.type) = negotiateRange(c.range, RangeOf(m.commands, c.type))
          BY <1>4, <4>1, ComparedRanges
        <4> HIDE DEF R, versions
        <4>4. QED
          BY <1>4, <4>1, <4>2, <4>3, ComparedRanges, RangesAgree
      <3> HIDE DEF versions, R
      <3>2. CASE \E t \in CommandTypes : ~versions[t].ok
        <4>1. n = refused("command_version_no_overlap")
          BY <1>1, <1>4, <2>4, <3>2
        <4>2. PICK c \in Support.commands : ~versions[c.type].ok
          BY <3>2 DEF CommandTypes
        <4>3. Common(c.range, RangeOf(m.commands, c.type)) = {}
          BY <3>1, <4>2
        <4>4. <<c.range, RangeOf(m.commands, c.type)>> \in Pairs(m)
          BY DEF Pairs
        <4>5. ~Agreeable(m)
          BY <4>3, <4>4 DEF Agreeable
        <4>6. QED
          BY <1>2, <4>1, <4>5 DEF Codes, n
      <3>3. CASE \A t \in CommandTypes : versions[t].ok
        <4>1. n = good
          BY <1>1, <1>4, <2>4, <3>3
        <4>2. n.ok = TRUE /\ n.api = api.version /\ n.commands = [t \in CommandTypes |-> versions[t].version]
          BY <4>1
        <4>3. ASSUME NEW p \in Pairs(m) PROVE Common(p[1], p[2]) # {}
          <5>1. CASE p = <<Support.api, m.api>>
            BY <2>1, <2>4, <5>1
          <5>2. ASSUME NEW c \in Support.commands, p = <<c.range, RangeOf(m.commands, c.type)>>
                PROVE  Common(p[1], p[2]) # {}
            BY <3>1, <3>3, <5>2 DEF CommandTypes
          <5>3. QED
            BY <5>1, <5>2 DEF Pairs
        <4>4. Agreeable(m)
          BY <1>4, <2>4, <4>3 DEF Agreeable, CommandTypes
        <4>5. ASSUME NEW c \in Support.commands
              PROVE  HighestCommon(n.commands[c.type], c.range, RangeOf(m.commands, c.type))
          BY <3>1, <3>3, <4>2 DEF CommandTypes
        <4> HIDE DEF good
        <4>6. QED
          BY <2>1, <2>4, <4>2, <4>4, <4>5 DEF n
      <3>4. QED
        BY <3>2, <3>3
    <2>5. QED
      BY <2>1, <2>2, <2>3, <2>4
  <1>5. QED
    BY <1>3, <1>4

-----------------------------------------------------------------------------
(***************************************************************************)
(* The inductive invariant.                                                *)
(***************************************************************************)

\* What a call may come to.
Results ==
    Codes \union {"none", "ok", "api", "http_error", "network_error", "invalid_request",
                  "invalid_response", "invalid_error_response", "unexpected_status",
                  "unexpected_content_type", "refused", "command_version_mismatch"}

CallRow ==
    [phase : {"idle", "version", "request", "fetch", "done"}, command : CommandTypes \union {None},
     version : Int, since : Nat, failed : Nat, result : Results]

Typed ==
    /\ contract \in Advertised /\ attempts \in Nat
    /\ negotiation.status \in {"none", "pending", "kept"}
    /\ negotiation.status = "pending" => attempts > 0
    /\ call \in [Calls -> CallRow]

\* What was negotiated is what the server that runs now supports.
Good ==
    Negotiated =>
        /\ negotiation.result.ok
        /\ \A t \in CommandTypes :
              /\ Has(contract.commands, t)
              /\ negotiation.result.commands[t] \in
                    RangeOf(contract.commands, t).min..RangeOf(contract.commands, t).max

\* A call k that waits, waits for a negotiation that is younger or is kept,
\* and has been told of no failure.
InTime(k) ==
    LET waits == k.phase \in {"version", "request"} IN
    /\ k.since <= attempts
    /\ waits => negotiation.status # "none" /\ k.failed = 0
    /\ waits /\ negotiation.status = "pending" => k.since < attempts
    /\ k.failed # 0 => k.failed > k.since

\* A command on its way has the version that is negotiated.
Agreed(k) ==
    /\ k.phase = "version" => k.command # None
    /\ k.phase \in {"request", "fetch"} /\ k.command # None =>
          Negotiated /\ k.version = negotiation.result.commands[k.command]
    /\ k.result \notin {"refused", "command_version_mismatch"}

ClientInv ==
    /\ Typed
    /\ Good
    /\ \A c \in Calls : InTime(call[c]) /\ Agreed(call[c])

\* The row of a call that does nothing.
LEMMA IdleRow ==
    /\ Idle \in CallRow /\ Idle.phase = "idle" /\ Idle.version = 0
    /\ Idle.since = 0 /\ Idle.failed = 0 /\ Idle.result = "none"
  <1>1. "none" \in Results
    BY DEF Results
  <1>2. QED
    BY <1>1 DEF Idle, CallRow

\* No call is under way at first.
LEMMA InitClientInv == ClientInit => ClientInv
  <1> SUFFICES ASSUME ClientInit PROVE ClientInv
    OBVIOUS
  <1>2. negotiation.status = "none" /\ attempts = 0 /\ contract \in Advertised
        /\ call = [c \in Calls |-> Idle]
    BY DEF ClientInit, Holding
  <1>3. QED
    BY <1>2, IdleRow DEF ClientInv, Typed, Good, Negotiated, InTime, Agreed

-----------------------------------------------------------------------------
(***************************************************************************)
(* The steps.                                                              *)
(***************************************************************************)

\* A step that gives one call another row.
LEMMA OneCall ==
    ASSUME ClientInv, NEW c \in Calls, NEW k \in CallRow, InTime(k), Agreed(k),
           call' = [call EXCEPT ![c] = k], UNCHANGED <<contract, negotiation, attempts>>
    PROVE  ClientInv'
  <1>1. Typed' /\ Good'
    BY DEF ClientInv, Typed, Good, Negotiated
  <1>2. ASSUME NEW d \in Calls PROVE InTime(call[d])' /\ Agreed(call[d])'
    <2>1. call'[d] = k \/ call'[d] = call[d]
      BY DEF ClientInv, Typed
    <2>2. InTime(call'[d]) /\ Agreed(call'[d])
      BY <2>1 DEF ClientInv
    <2>3. QED
      BY <2>2 DEF InTime, Agreed, Negotiated
  <1>3. QED
    BY <1>1, <1>2 DEF ClientInv

\* A call that begins is younger than every negotiation that is over.
LEMMA StartStep ==
    ASSUME ClientInv, NEW c \in Calls, NEW command \in {None} \union CommandTypes, Start(c, command)
    PROVE  ClientInv'
  <1> DEFINE k == [Idle EXCEPT !.command = command, !.since = Finished,
                               !.phase = IF command = None THEN "request" ELSE "version"]
  <1>1. Typed /\ Good /\ \A d \in Calls : call[d] \in CallRow /\ InTime(call[d]) /\ Agreed(call[d])
    BY DEF ClientInv, Typed
  <1>2. call' = [call EXCEPT ![c] = k] /\ contract' = contract /\ ensureNegotiated
    BY DEF Start
  <1>3. Finished \in Nat /\ Finished <= attempts
        /\ (negotiation.status = "pending" => Finished < attempts)
        /\ (negotiation.status = "none" => Finished = attempts)
    BY <1>1 DEF Typed, Finished
  <1>4. /\ k \in CallRow /\ k.command = command /\ k.since = Finished /\ k.failed = 0
        /\ k.result = "none" /\ k.phase = IF command = None THEN "request" ELSE "version"
    <2> DEFINE p == IF command = None THEN "request" ELSE "version"
               a == [Idle EXCEPT !.command = command]
               b == [a EXCEPT !.since = Finished]
    <2>1. k = [b EXCEPT !.phase = p]
      OBVIOUS
    <2>2. p \in {"request", "version"}
      OBVIOUS
    <2> HIDE DEF k, p
    <2>3. a \in CallRow /\ a.command = command /\ a.failed = 0 /\ a.result = "none"
      BY IdleRow DEF CallRow
    <2> HIDE DEF a
    <2>4. b \in CallRow /\ b.command = command /\ b.failed = 0 /\ b.result = "none" /\ b.since = Finished
      BY <1>3, <2>3 DEF CallRow
    <2> HIDE DEF b
    <2>5. /\ k \in CallRow /\ k.command = command /\ k.since = Finished /\ k.failed = 0
          /\ k.result = "none" /\ k.phase = p
      BY <2>1, <2>2, <2>4 DEF CallRow
    <2>6. QED
      BY <2>5 DEF p
  <1> HIDE DEF k
  <1>5. k \in CallRow
    BY <1>4
  <1>6. CASE negotiation.status # "none"
    <2>1. UNCHANGED <<contract, negotiation, attempts>>
      BY <1>2, <1>6 DEF ensureNegotiated
    <2>2. InTime(k)
      BY <1>3, <1>4, <1>6 DEF InTime
    <2>3. CASE command # None
      <3>1. Agreed(k)
        BY <1>4, <2>3 DEF Agreed
      <3>2. QED
        BY <1>2, <1>5, <2>1, <2>2, <3>1, OneCall
    <2>4. CASE command = None
      <3>1. Agreed(k)
        BY <1>4, <2>4 DEF Agreed
      <3>2. QED
        BY <1>2, <1>5, <2>1, <2>2, <3>1, OneCall
    <2>5. QED
      BY <2>3, <2>4
  <1>7. CASE negotiation.status = "none"
    <2>1. attempts' = attempts + 1 /\ negotiation'.status = "pending"
      BY <1>2, <1>7 DEF ensureNegotiated, Holding
    <2>2. Typed' /\ Good'
      BY <1>1, <1>2, <1>5, <2>1 DEF Typed, Good, Negotiated
    <2>3. ASSUME NEW d \in Calls, d # c PROVE InTime(call[d])' /\ Agreed(call[d])'
      <3>1. call'[d] = call[d] /\ call[d] \in CallRow /\ InTime(call[d]) /\ Agreed(call[d])
        BY <1>1, <1>2, <2>3 DEF Typed
      <3>2. call[d].since \in Nat /\ attempts \in Nat
        BY <1>1, <3>1 DEF CallRow, Typed
      <3>3. InTime(call[d])'
        BY <1>7, <2>1, <3>1, <3>2 DEF InTime
      <3>4. Agreed(call[d])'
        BY <1>7, <2>1, <3>1 DEF Agreed, Negotiated
      <3>5. QED
        BY <3>3, <3>4
    <2>4. call'[c] = k /\ attempts \in Nat
      BY <1>1, <1>2 DEF Typed
    <2>5. InTime(call[c])'
      BY <1>3, <1>4, <1>7, <2>1, <2>4 DEF InTime
    <2>6. Agreed(call[c])'
      <3>1. k.result = "none" /\ (k.phase = "version" \/ k.command = None) /\ k.phase # "fetch"
            /\ (k.phase = "version" => k.command # None)
        BY <1>4
      <3>2. QED
        BY <2>4, <3>1 DEF Agreed
    <2>7. QED
      BY <2>2, <2>3, <2>5, <2>6 DEF ClientInv
  <1>8. QED
    BY <1>1, <1>6, <1>7

\* Everybody who waits is told, and the negotiation is forgotten.
LEMMA RejectStep ==
    ASSUME ClientInv, NEW code \in Results, code \notin {"refused", "command_version_mismatch"},
           negotiation.status = "pending", Reject(code), UNCHANGED <<contract, attempts>>
    PROVE  ClientInv'
  <1>1. Typed /\ Good /\ \A d \in Calls : call[d] \in CallRow /\ InTime(call[d]) /\ Agreed(call[d])
    BY DEF ClientInv, Typed
  <1>2. negotiation'.status = "none"
        /\ call' = [c \in Calls |-> IF Waiting(c) THEN Failed(call[c], code) ELSE call[c]]
    BY DEF Reject, Holding
  <1>3. ASSUME NEW d \in Calls PROVE call'[d] \in CallRow /\ InTime(call[d])' /\ Agreed(call[d])'
    <2>1. call[d] \in CallRow /\ InTime(call[d]) /\ Agreed(call[d]) /\ attempts \in Nat
      BY <1>1 DEF Typed
    <2>2. CASE Waiting(d)
      <3> DEFINE a == [call[d] EXCEPT !.phase = "done"]
                 b == [a EXCEPT !.result = code]
                 k == [b EXCEPT !.failed = attempts]
      <3>1. call'[d] = k
        BY <1>2, <2>2 DEF Failed
      <3>2. a \in CallRow /\ a.phase = "done" /\ a.since = call[d].since
        BY <2>1 DEF CallRow
      <3> HIDE DEF a
      <3>3. b \in CallRow /\ b.phase = "done" /\ b.since = call[d].since /\ b.result = code
        BY <3>2 DEF CallRow
      <3> HIDE DEF b
      <3>4. k \in CallRow /\ k.phase = "done" /\ k.since = call[d].since /\ k.result = code
            /\ k.failed = attempts
        BY <2>1, <3>3 DEF CallRow
      <3> HIDE DEF k
      <3>5. call[d].since < attempts
        BY <2>1, <2>2 DEF InTime, Waiting
      <3>6. InTime(call[d])'
        BY <2>1, <3>1, <3>4, <3>5 DEF InTime, CallRow
      <3>7. Agreed(call[d])'
        BY <3>1, <3>4 DEF Agreed
      <3>8. QED
        BY <3>1, <3>4, <3>6, <3>7
    <2>3. CASE ~Waiting(d)
      <3>1. call'[d] = call[d]
        BY <1>2, <2>3
      <3>2. InTime(call[d])'
        BY <2>1, <2>3, <3>1 DEF InTime, Waiting
      <3>3. Agreed(call[d])'
        BY <2>1, <2>3, <3>1 DEF Agreed, Waiting, Negotiated
      <3>4. QED
        BY <2>1, <3>1, <3>2, <3>3
    <2>4. QED
      BY <2>2, <2>3
  <1>4. Typed' /\ Good'
    BY <1>1, <1>2, <1>3 DEF Typed, Good, Negotiated
  <1>5. QED
    BY <1>3, <1>4 DEF ClientInv

\* A negotiation that succeeds is good with the server that answered.
LEMMA BootstrapStep == ASSUME ClientInv, Bootstrap PROVE ClientInv'
  <1> DEFINE n == negotiateContract(Support, contract)
  <1>1. Typed /\ Good /\ \A d \in Calls : call[d] \in CallRow /\ InTime(call[d]) /\ Agreed(call[d])
    BY DEF ClientInv, Typed
  <1>2. negotiation.status = "pending" /\ UNCHANGED <<contract, attempts>>
    BY DEF Bootstrap
  <1>3. /\ n.ok \in BOOLEAN /\ n.ok <=> Agreeable(contract)
        /\ n.ok => \A c \in Support.commands :
                      HighestCommon(n.commands[c.type], c.range, RangeOf(contract.commands, c.type))
        /\ ~n.ok => n.code \in Codes
    BY <1>1, ContractNegotiated DEF Typed
  <1>4. CASE ~n.ok
    <2>1. Reject(n.code)
      BY <1>4 DEF Bootstrap
    <2>2. n.code \in Results /\ n.code \notin {"refused", "command_version_mismatch"}
      BY <1>3, <1>4 DEF Codes, Results
    <2> HIDE DEF n
    <2>3. QED
      BY <1>2, <2>1, <2>2, RejectStep
  <1>5. CASE n.ok
    <2>1. negotiation' = [status |-> "kept", result |-> n] /\ call' = call
      BY <1>5 DEF Bootstrap
    <2> HIDE DEF n
    <2>2. negotiation'.status = "kept" /\ negotiation'.result = n
      BY <2>1
    <2>3. ASSUME NEW t \in CommandTypes
          PROVE  /\ Has(contract.commands, t)
                 /\ n.commands[t] \in RangeOf(contract.commands, t).min..RangeOf(contract.commands, t).max
      <3>1. PICK c \in Support.commands : c.type = t
        BY DEF CommandTypes
      <3>2. HighestCommon(n.commands[t], c.range, RangeOf(contract.commands, t))
        BY <1>3, <1>5, <3>1
      <3>3. QED
        BY <1>3, <1>5, <3>1, <3>2 DEF Agreeable, HighestCommon, Common
    <2>4. Typed' /\ Good'
      BY <1>1, <1>2, <1>5, <2>1, <2>2, <2>3 DEF Typed, Good, Negotiated
    <2>5. ASSUME NEW d \in Calls PROVE InTime(call[d])' /\ Agreed(call[d])'
      <3>1. call'[d] = call[d] /\ InTime(call[d]) /\ Agreed(call[d])
        BY <1>1, <2>1
      <3>2. InTime(call[d])'
        BY <1>2, <2>2, <3>1 DEF InTime
      <3>3. Agreed(call[d])'
        BY <1>2, <2>2, <3>1 DEF Agreed, Negotiated
      <3>4. QED
        BY <3>2, <3>3
    <2>6. QED
      BY <2>4, <2>5 DEF ClientInv
  <1>6. QED
    BY <1>3, <1>4, <1>5

\* The end of a call that did not fail in the negotiation.
LEMMA EndStep ==
    ASSUME ClientInv, NEW c \in Calls, NEW result \in Results \ {"refused", "command_version_mismatch"},
           End(c, result), UNCHANGED <<contract, negotiation, attempts>>
    PROVE  ClientInv'
  <1> DEFINE a == [call[c] EXCEPT !.phase = "done"]
             k == [a EXCEPT !.result = result]
  <1>1. call[c] \in CallRow /\ InTime(call[c]) /\ call \in [Calls -> CallRow]
    BY DEF ClientInv, Typed
  <1>2. call' = [call EXCEPT ![c] = k]
    BY <1>1 DEF End
  <1>3. a \in CallRow /\ a.phase = "done" /\ a.since = call[c].since /\ a.failed = call[c].failed
    BY <1>1 DEF CallRow
  <1> HIDE DEF a
  <1>4. k \in CallRow /\ k.phase = "done" /\ k.since = call[c].since /\ k.failed = call[c].failed
        /\ k.result = result
    BY <1>3 DEF CallRow
  <1> HIDE DEF k
  <1>5. InTime(k) /\ Agreed(k)
    BY <1>1, <1>4 DEF InTime, Agreed
  <1>6. QED
    BY <1>2, <1>4, <1>5, OneCall

\* A caller forgets its error.
LEMMA AgainStep == ASSUME ClientInv, NEW c \in Calls, Again(c) PROVE ClientInv'
  <1>1. call' = [call EXCEPT ![c] = Idle] /\ UNCHANGED <<contract, negotiation, attempts>>
    BY DEF Again
  <1>2. InTime(Idle) /\ Agreed(Idle)
    BY IdleRow DEF InTime, Agreed, ClientInv, Typed
  <1>3. QED
    BY <1>1, <1>2, IdleRow, OneCall

\* A command takes the version that is negotiated.
LEMMA TakeVersionStep == ASSUME ClientInv, NEW c \in Calls, TakeVersion(c) PROVE ClientInv'
  <1> DEFINE v == negotiation.result.commands[call[c].command]
             a == [call[c] EXCEPT !.phase = "request"]
             b == [a EXCEPT !.since = attempts]
             k == [b EXCEPT !.version = v]
  <1>1. /\ Typed /\ Good /\ call[c] \in CallRow /\ InTime(call[c]) /\ Agreed(call[c])
        /\ call \in [Calls -> CallRow] /\ attempts \in Nat
    BY DEF ClientInv, Typed
  <1>2. call[c].phase = "version" /\ Negotiated /\ negotiation.status = "kept" /\ negotiation.result.ok
    BY <1>1 DEF TakeVersion, Negotiated, Good
  <1>3. Finished = attempts /\ UNCHANGED <<contract, negotiation, attempts>>
    BY <1>2 DEF TakeVersion, ensureNegotiated, Finished
  <1>4. call' = [call EXCEPT ![c] = k]
    <2>1. call' = [call EXCEPT ![c].phase = "request", ![c].since = Finished, ![c].version = v]
      BY <1>2 DEF TakeVersion
    <2>2. QED
      BY <1>1, <1>3, <2>1
  <1>5. call[c].command # None /\ call[c].command \in CommandTypes
    BY <1>1, <1>2 DEF Agreed, CallRow
  <1>6. v \in Int
    BY <1>1, <1>2, <1>5 DEF Good
  <1>7. a \in CallRow /\ a.phase = "request" /\ a.command = call[c].command
        /\ a.failed = call[c].failed /\ a.result = call[c].result
    BY <1>1 DEF CallRow
  <1> HIDE DEF a
  <1>8. b \in CallRow /\ b.phase = "request" /\ b.command = call[c].command /\ b.since = attempts
        /\ b.failed = call[c].failed /\ b.result = call[c].result
    BY <1>1, <1>7 DEF CallRow
  <1> HIDE DEF b, v
  <1>9. k \in CallRow /\ k.phase = "request" /\ k.command = call[c].command /\ k.since = attempts
        /\ k.failed = call[c].failed /\ k.result = call[c].result /\ k.version = v
    BY <1>6, <1>8 DEF CallRow
  <1> HIDE DEF k
  <1>10. InTime(k)
    BY <1>1, <1>2, <1>9 DEF InTime
  <1>11. Agreed(k)
    <2>1. k.version = negotiation.result.commands[k.command]
      BY <1>9 DEF v
    <2>2. QED
      BY <1>1, <1>2, <1>9, <2>1 DEF Agreed
  <1>12. QED
    BY <1>3, <1>4, <1>9, <1>10, <1>11, OneCall

\* A request goes out; a command still has the version that is negotiated.
LEMMA SendRequestStep == ASSUME ClientInv, NEW c \in Calls, SendRequest(c) PROVE ClientInv'
  <1> DEFINE k == [call[c] EXCEPT !.phase = "fetch"]
  <1>1. /\ Typed /\ Good /\ call[c] \in CallRow /\ InTime(call[c]) /\ Agreed(call[c])
        /\ call \in [Calls -> CallRow]
    BY DEF ClientInv, Typed
  <1>2. /\ call[c].phase = "request" /\ Negotiated /\ negotiation.result.ok
        /\ UNCHANGED <<contract, negotiation, attempts>>
    BY <1>1 DEF SendRequest, Good
  <1>3. ~(call[c].command # None /\ negotiation.result.commands[call[c].command] # call[c].version)
    BY <1>1, <1>2 DEF Agreed
  <1>4. call' = [call EXCEPT ![c] = k]
    BY <1>1, <1>2, <1>3 DEF SendRequest
  <1>5. /\ k \in CallRow /\ k.phase = "fetch" /\ k.since = call[c].since /\ k.failed = call[c].failed
        /\ k.command = call[c].command /\ k.version = call[c].version /\ k.result = call[c].result
    BY <1>1 DEF CallRow
  <1> HIDE DEF k
  <1>6. InTime(k) /\ Agreed(k)
    BY <1>1, <1>2, <1>5 DEF InTime, Agreed
  <1>7. QED
    BY <1>2, <1>4, <1>5, <1>6, OneCall

\* The server that runs now supports the version of a command that arrives.
LEMMA RespondStep == ASSUME ClientInv, NEW c \in Calls, Respond(c) PROVE ClientInv'
  <1>1. Good /\ call[c] \in CallRow /\ Agreed(call[c]) /\ call[c].phase = "fetch"
    BY DEF ClientInv, Typed, Respond
  <1>2. Served(c)
    <2>1. CASE call[c].command = None
      BY <2>1 DEF Served
    <2>2. CASE call[c].command # None
      <3>1. Negotiated /\ call[c].version = negotiation.result.commands[call[c].command]
        BY <1>1, <2>2 DEF Agreed
      <3>2. call[c].command \in CommandTypes
        BY <1>1, <2>2 DEF CallRow
      <3>3. QED
        BY <1>1, <3>1, <3>2 DEF Good, Served
    <2>3. QED
      BY <2>1, <2>2
  <1>3. End(c, "ok") /\ UNCHANGED <<contract, negotiation, attempts>>
    BY <1>2 DEF Respond
  <1>4. "ok" \in Results \ {"refused", "command_version_mismatch"}
    BY DEF Results
  <1>5. QED
    BY <1>3, <1>4, EndStep

\* The other ends of a call, and of a negotiation.
LEMMA FailSteps ==
    ASSUME ClientInv,
           \/ \E c \in Calls : InvalidRequest(c) \/ RespondOtherwise(c)
           \/ \E code \in {"network_error", "invalid_contract_metadata", "api"} : BootstrapFails(code)
    PROVE  ClientInv'
  <1>1. ASSUME NEW c \in Calls, InvalidRequest(c) PROVE ClientInv'
    <2>1. "invalid_request" \in Results \ {"refused", "command_version_mismatch"}
      BY DEF Results
    <2>2. QED
      BY <1>1, <2>1, EndStep DEF InvalidRequest
  <1>2. ASSUME NEW c \in Calls, RespondOtherwise(c) PROVE ClientInv'
    <2>1. "network_error" \in Results \ {"refused", "command_version_mismatch"}
      BY DEF Results
    <2>2. \A r \in Responses : Classify(r) \in Results \ {"refused", "command_version_mismatch"}
      BY DEF Results, Classify
    <2>3. QED
      BY <1>2, <2>1, <2>2, EndStep DEF RespondOtherwise
  <1>3. ASSUME NEW code \in {"network_error", "invalid_contract_metadata", "api"}, BootstrapFails(code)
        PROVE  ClientInv'
    <2>1. code \in Results /\ code \notin {"refused", "command_version_mismatch"}
      BY DEF Results, Codes
    <2>2. QED
      BY <1>3, <2>1, RejectStep DEF BootstrapFails
  <1>4. QED
    BY <1>1, <1>2, <1>3

\* A release that passes the support check keeps every version of a command.
LEMMA CheckedReleaseKeeps ==
    ASSUME NEW old \in Advertised, NEW new \in Advertised, loadSupport(old), loadSupport(new),
           supportBreakingChanges(old, new) = {},
           NEW t, Has(old.commands, t), NEW v \in RangeOf(old.commands, t).min..RangeOf(old.commands, t).max
    PROVE  Has(new.commands, t) /\ v \in RangeOf(new.commands, t).min..RangeOf(new.commands, t).max
  <1>1. PICK d \in old.commands : d.type = t /\ RangeOf(old.commands, t) = d.range
    BY RangeOfSome
  <1>2. Has(new.commands, t) /\ ~Contracted(d.range, RangeOf(new.commands, t))
    <2>1. SUFFICES ASSUME ~Has(new.commands, d.type) \/ Contracted(d.range, RangeOf(new.commands, d.type))
                   PROVE  FALSE
      BY <1>1
    <2>2. d.type \in supportBreakingChanges(old, new)
      BY <2>1 DEF supportBreakingChanges
    <2>3. QED
      BY <2>2
  <1>3. PICK e \in new.commands : RangeOf(new.commands, t) = e.range
    BY <1>2, RangeOfSome
  <1>4. d.range \in VersionRange /\ e.range \in VersionRange
    BY AdvertisedAssumption DEF WholeVersions
  <1>5. QED
    BY <1>1, <1>2, <1>3, <1>4 DEF Contracted, VersionRange

\* The server is replaced by one that still supports what it did.
LEMMA UpgradeStep == ASSUME ClientInv, NEW next \in Advertised, Upgrade(next) PROVE ClientInv'
  <1>1. Typed /\ Good /\ contract \in Advertised
    BY DEF ClientInv, Typed
  <1>2. /\ contract' = next /\ UNCHANGED <<negotiation, attempts, call>>
        /\ loadSupport(contract) /\ loadSupport(next) /\ supportBreakingChanges(contract, next) = {}
    BY DEF Upgrade
  <1>3. Typed'
    BY <1>1, <1>2 DEF Typed
  <1>4. Good'
    BY <1>1, <1>2, CheckedReleaseKeeps DEF Good, Negotiated
  <1>5. \A d \in Calls : InTime(call[d])' /\ Agreed(call[d])'
    BY <1>2 DEF ClientInv, InTime, Agreed, Negotiated
  <1>6. QED
    BY <1>3, <1>4, <1>5 DEF ClientInv

-----------------------------------------------------------------------------
(***************************************************************************)
(* The theorems.                                                           *)
(***************************************************************************)

\* Every step keeps the invariant.
LEMMA NextClientInv == ClientInv /\ [ClientNext]_clientVars => ClientInv'
  <1> SUFFICES ASSUME ClientInv, [ClientNext]_clientVars PROVE ClientInv'
    OBVIOUS
  <1>1. CASE UNCHANGED clientVars
    BY <1>1 DEF clientVars, ClientInv, Typed, Good, InTime, Agreed, Negotiated
  <1>2. ASSUME NEW c \in Calls, NEW command \in {None} \union {d.type : d \in Support.commands},
               Start(c, command)
        PROVE  ClientInv'
    BY <1>2, StartStep DEF CommandTypes
  <1>3. ASSUME NEW c \in Calls, Again(c) \/ TakeVersion(c) \/ Respond(c) \/ SendRequest(c)
        PROVE  ClientInv'
    BY <1>3, AgainStep, TakeVersionStep, RespondStep, SendRequestStep
  <1>4. CASE \/ \E c \in Calls : InvalidRequest(c) \/ RespondOtherwise(c)
             \/ \E code \in {"network_error", "invalid_contract_metadata", "api"} : BootstrapFails(code)
    BY <1>4, FailSteps
  <1>5. CASE Bootstrap
    BY <1>5, BootstrapStep
  <1>6. ASSUME NEW next \in Advertised, Upgrade(next) PROVE ClientInv'
    BY <1>6, UpgradeStep
  <1>7. QED
    BY <1>1, <1>2, <1>3, <1>4, <1>5, <1>6 DEF ClientNext

\* The invariant holds in every state of the client.
THEOREM ClientInvariant == ClientSpec => []ClientInv
  <1>1. QED
    BY InitClientInv, NextClientInv, PTL DEF ClientSpec

\* A call never gets the failure of a negotiation that was over when it
\* began: ensureNegotiated forgets a failure before it tells anybody of it.
THEOREM ClientNoStaleFailure == ClientSpec => []NoStaleFailure
  <1>1. ClientInv => NoStaleFailure
    BY DEF ClientInv, InTime, NoStaleFailure
  <1>2. QED
    BY <1>1, ClientInvariant, PTL

\* A negotiation succeeds exactly when client and server have versions in
\* common and takes the highest, and no later release that passed the support
\* check refuses a command.
THEOREM ClientNeverStranded == ClientSpec => NeverStranded
  <1> DEFINE Step ==
          /\ negotiation.status = "pending" /\ negotiation'.status # "pending" /\ failures' = failures =>
                /\ negotiation'.result.ok <=> Agreeable(contract)
                /\ negotiation'.result.ok =>
                      /\ HighestCommon(negotiation'.result.api, Support.api, contract.api)
                      /\ \A c \in Support.commands :
                            HighestCommon(negotiation'.result.commands[c.type], c.range,
                                          RangeOf(contract.commands, c.type))
          /\ \A c \in Calls : call'[c].result \notin {"refused", "command_version_mismatch"}
  <1>1. ASSUME ClientInv, ClientInv', failures \in Nat, ClientNext PROVE Step
    <2>1. \A c \in Calls : call'[c].result \notin {"refused", "command_version_mismatch"}
      BY <1>1 DEF ClientInv, Agreed
    <2>2. ASSUME negotiation.status = "pending", negotiation'.status # "pending", failures' = failures
          PROVE  /\ negotiation'.result.ok <=> Agreeable(contract)
                 /\ negotiation'.result.ok =>
                       /\ HighestCommon(negotiation'.result.api, Support.api, contract.api)
                       /\ \A c \in Support.commands :
                             HighestCommon(negotiation'.result.commands[c.type], c.range,
                                           RangeOf(contract.commands, c.type))
      <3> DEFINE n == negotiateContract(Support, contract)
      <3>1. negotiation' # negotiation /\ failures' # failures + 1
        BY <1>1, <2>2
      <3>2. Bootstrap
        BY <1>1, <2>2, <3>1 DEF ClientNext, Start, ensureNegotiated, Again, TakeVersion, Respond, RespondOtherwise,
           SendRequest, InvalidRequest, BootstrapFails, Upgrade
      <3>3. /\ n.ok \in BOOLEAN /\ n.ok <=> Agreeable(contract)
            /\ n.ok => /\ HighestCommon(n.api, Support.api, contract.api)
                       /\ \A c \in Support.commands :
                             HighestCommon(n.commands[c.type], c.range, RangeOf(contract.commands, c.type))
        BY <1>1, ContractNegotiated DEF ClientInv, Typed
      <3>4. /\ n.ok => negotiation' = [status |-> "kept", result |-> n]
            /\ ~n.ok => negotiation' = Holding("none")
        BY <3>2 DEF Bootstrap, Reject
      <3>5. Holding("none").result.ok = FALSE
        BY DEF Holding, NoResult
      <3> HIDE DEF n
      <3>6. CASE n.ok
        <4>1. negotiation'.result = n
          BY <3>4, <3>6
        <4>2. QED
          BY <3>3, <3>6, <4>1
      <3>7. CASE ~n.ok
        BY <3>3, <3>4, <3>5, <3>7
      <3>8. QED
        BY <3>3, <3>6, <3>7
    <2>3. QED
      BY <2>1, <2>2
  <1>2. ClientInit => failures \in Nat
    BY DEF ClientInit
  <1>3. failures \in Nat /\ [ClientNext]_clientVars => (failures \in Nat)'
    <2>1. [ClientNext]_clientVars => failures' = failures \/ failures' = failures + 1
      BY Zenon DEF ClientNext, clientVars, Start, Again, TakeVersion, Respond, RespondOtherwise, SendRequest,
         InvalidRequest, Bootstrap, BootstrapFails, Upgrade
    <2>2. QED
      BY <2>1
  <1>4. ClientInv /\ ClientInv' /\ failures \in Nat /\ [ClientNext]_clientVars => [Step]_clientVars
    BY <1>1
  <1>5. ClientSpec => [](failures \in Nat)
    BY <1>2, <1>3, PTL DEF ClientSpec
  <1>6. NeverStranded <=> [][Step]_clientVars
    BY DEF NeverStranded
  <1> HIDE DEF Step
  <1>7. QED
    BY <1>4, <1>5, <1>6, ClientInvariant, PTL DEF ClientSpec

-----------------------------------------------------------------------------
(***************************************************************************)
(* Ranges and negotiation.                                                 *)
(***************************************************************************)

\* The one version v lies in a range that a server may advertise.
Within(v, r) == validServerRange(r) /\ r.min <= v /\ v <= r.max

\* With one range for each type, it is that of any entry of the type.
LEMMA RangeOfEach ==
    ASSUME NEW commands, OneEach(commands), NEW c \in commands
    PROVE  RangeOf(commands, c.type) = c.range
  BY DEF OneEach, RangeOf

\* A client with one version and a server whose range it lies in agree on it.
LEMMA OneVersionAgrees ==
    ASSUME NEW v \in Int, NEW r \in VersionRange, Within(v, r)
    PROVE  negotiateRange(Exactly(v), r) = Version(v)
  <1>1. Exactly(v).min = v /\ Exactly(v).max = v
    BY DEF Exactly
  <1>2. r.min \in Int /\ r.max \in Int /\ r.cur \in Int
    BY DEF VersionRange
  <1>3. v > 0 /\ r.min > 0 /\ r.max > 0 /\ r.min <= r.max /\ r.min <= v /\ v <= r.max
    BY <1>2 DEF Within, validServerRange, validRange, positiveSafeInteger
  <1>4. validRange(Exactly(v)) /\ validRange(r)
    BY <1>1, <1>3 DEF validRange, positiveSafeInteger
  <1>5. (IF Exactly(v).max < r.max THEN Exactly(v).max ELSE r.max) = v
    BY <1>1, <1>2, <1>3
  <1>6. ~(Exactly(v).max < r.min) /\ ~(Exactly(v).min > r.max)
    BY <1>1, <1>2, <1>3
  <1>7. QED
    BY <1>4, <1>5, <1>6 DEF negotiateRange

\* A range that was not contracted still holds every version it held.
LEMMA StaysWithin ==
    ASSUME NEW v \in Int, NEW old \in VersionRange, NEW new \in VersionRange,
           Within(v, old), validServerRange(new), ~Contracted(old, new)
    PROVE  Within(v, new)
  BY DEF Within, Contracted, VersionRange

\* What a support check that finds nothing says of the API and each command.
LEMMA NothingBroken ==
    ASSUME NEW old, NEW new, supportBreakingChanges(old, new) = {}
    PROVE  /\ ~Contracted(old.api, new.api)
           /\ \A d \in old.commands :
                 Has(new.commands, d.type) /\ ~Contracted(d.range, RangeOf(new.commands, d.type))
  <1>1. ~Contracted(old.api, new.api)
    <2>1. SUFFICES ASSUME Contracted(old.api, new.api) PROVE FALSE
      OBVIOUS
    <2>2. "api" \in supportBreakingChanges(old, new)
      BY <2>1 DEF supportBreakingChanges
    <2>3. QED
      BY <2>2
  <1>2. ASSUME NEW d \in old.commands
        PROVE  Has(new.commands, d.type) /\ ~Contracted(d.range, RangeOf(new.commands, d.type))
    <2>1. SUFFICES ASSUME ~Has(new.commands, d.type) \/ Contracted(d.range, RangeOf(new.commands, d.type))
                   PROVE  FALSE
      OBVIOUS
    <2>2. d.type \in supportBreakingChanges(old, new)
      BY <2>1 DEF supportBreakingChanges
    <2>3. QED
      BY <2>2
  <1>3. QED
    BY <1>1, <1>2

-----------------------------------------------------------------------------
(***************************************************************************)
(* The inductive invariant.                                                *)
(***************************************************************************)

\* A client's support: one version of the API and of each command it sends,
\* all in the ranges that the server advertises.
Supported(c, m) ==
    /\ \E v \in Int : c.support.api = Exactly(v) /\ Within(v, m.api)
    /\ OneEach(c.support.commands)
    /\ \A d \in c.support.commands :
          /\ Has(m.commands, d.type)
          /\ \E v \in Int : d.range = Exactly(v) /\ Within(v, RangeOf(m.commands, d.type))
    /\ \A op \in c.operations : op.commandType # None => Has(c.support.commands, op.commandType)

\* The operations a client knows are operations of the server.
Known(c, ops) ==
    \A op \in c.operations : \E s \in ops :
        /\ s.key = op.key /\ s.id = op.id /\ s.marker = op.commandType /\ pathSchemas(s) = op.names
        /\ (\E p \in s.parameters : p.in = "header") => op.csrf

\* What is released together was generated from one source: the drift check of
\* contracts.mjs is made on the files that go out.
Together == \A f \in FileNames : server.files[f] = server.source

ReleaseInv ==
    /\ source \in Sources /\ server.source \in Sources
    /\ generates(server.source) /\ loadSupport(server.source.contract)
    /\ Together
    /\ \A c \in clients :
          Supported(c, server.source.contract) /\ Known(c, server.source.operations)

\* The invariant says enough: the negotiation has nothing to refuse.
LEMMA SupportedNegotiates ==
    ASSUME NEW m, WholeVersions(m), loadSupport(m), NEW c, Supported(c, m)
    PROVE  LET n == negotiateContract(c.support, m) IN
           /\ n.ok /\ n.api = c.support.api.cur
           /\ \A op \in c.operations :
                 op.commandType # None =>
                    /\ op.commandType \in DOMAIN n.commands
                    /\ n.commands[op.commandType] = RangeOf(c.support.commands, op.commandType).cur
  <1> DEFINE api == negotiateRange(c.support.api, m.api)
             types == {d.type : d \in c.support.commands}
             R(t) == negotiateRange(RangeOf(c.support.commands, t), RangeOf(m.commands, t))
             n == negotiateContract(c.support, m)
  <1>1. validServerRange(m.api) /\ OneEach(m.commands) /\ \A d \in m.commands : validServerRange(d.range)
    BY DEF loadSupport
  <1>2. api.ok /\ api.version = c.support.api.cur
    <2>1. PICK v \in Int : c.support.api = Exactly(v) /\ Within(v, m.api)
      BY DEF Supported
    <2>2. m.api \in VersionRange
      BY DEF WholeVersions
    <2>3. api = Version(v)
      BY <2>1, <2>2, OneVersionAgrees
    <2> HIDE DEF api
    <2>4. Version(v).ok /\ Version(v).version = v /\ Exactly(v).cur = v
      BY DEF Version, Exactly
    <2>5. QED
      BY <2>1, <2>3, <2>4
  <1>3. ASSUME NEW t \in types
        PROVE  /\ Has(m.commands, t) /\ R(t).ok
               /\ R(t).version = RangeOf(c.support.commands, t).cur
    <2>1. PICK d \in c.support.commands : d.type = t
      OBVIOUS
    <2>2. PICK v \in Int : d.range = Exactly(v) /\ Within(v, RangeOf(m.commands, t))
      BY <2>1 DEF Supported
    <2>3. Has(m.commands, t)
      BY <2>1 DEF Supported
    <2>4. RangeOf(m.commands, t) \in VersionRange
      BY <2>3, RangeOfSome DEF WholeVersions
    <2>5. RangeOf(c.support.commands, t) = Exactly(v)
      BY <2>1, <2>2, RangeOfEach DEF Supported
    <2>6. R(t) = Version(v)
      BY <2>2, <2>4, <2>5, OneVersionAgrees
    <2> HIDE DEF R
    <2>7. Version(v).ok /\ Version(v).version = v /\ Exactly(v).cur = v
      BY DEF Version, Exactly
    <2>8. QED
      BY <2>3, <2>5, <2>6, <2>7
  <1>4. {u \in types : Has(m.commands, u)} = types
    BY <1>3
  <1>5. n = [ok |-> TRUE, code |-> "", api |-> api.version, commands |-> [t \in types |-> R(t).version]]
    <2> DEFINE versions == [t \in {u \in types : Has(m.commands, u)} |-> R(t)]
    <2>1. \A t \in types : versions[t] = R(t)
      BY <1>4
    <2>2. [t \in types |-> versions[t].version] = [t \in types |-> R(t).version]
      BY <2>1
    <2>3. ~\E t \in types : ~versions[t].ok
      BY <1>3, <2>1
    <2>4. ~\E t \in types : ~Has(m.commands, t)
      BY <1>3
    <2> HIDE DEF api
    <2>5. n = IF \E t \in types : ~versions[t].ok
              THEN [ok |-> FALSE, code |-> "command_version_no_overlap", api |-> 0, commands |-> [t \in {} |-> 0]]
              ELSE [ok |-> TRUE, code |-> "", api |-> api.version, commands |-> [t \in types |-> versions[t].version]]
      BY <1>1, <1>2, <2>4, Zenon DEF negotiateContract, api
    <2>6. QED
      BY <2>2, <2>3, <2>5
  <1> HIDE DEF n, api, R
  <1>6. ASSUME NEW op \in c.operations, op.commandType # None
        PROVE  /\ op.commandType \in DOMAIN n.commands
               /\ n.commands[op.commandType] = RangeOf(c.support.commands, op.commandType).cur
    <2>1. op.commandType \in types
      BY <1>6 DEF Supported, Has
    <2>2. n.commands = [t \in types |-> R(t).version]
      BY <1>5
    <2>3. QED
      BY <1>3, <2>1, <2>2
  <1>7. n.ok /\ n.api = c.support.api.cur
    BY <1>2, <1>5
  <1> USE DEF n
  <1>8. QED
    BY <1>6, <1>7

-----------------------------------------------------------------------------
(***************************************************************************)
(* Clients that are made, and clients that see a release.                  *)
(***************************************************************************)

\* The client of a source that the generator and the support check accept is
\* a client for that source.
LEMMA ClientSupported ==
    ASSUME NEW s \in Sources, generates(s), loadSupport(s.contract)
    PROVE  Supported(Client(s), s.contract) /\ Known(Client(s), s.operations)
  <1> DEFINE m == s.contract
             sent == {u \in markedCommands(s.operations) : Has(m.commands, u)}
             D(t) == [type |-> t, range |-> Exactly(RangeOf(m.commands, t).cur)]
  <1>1. WholeVersions(m)
    BY SourcesAssumption
  <1>2. /\ Client(s).operations = {Metadata(op) : op \in s.operations}
        /\ Client(s).support.api = Exactly(m.api.cur)
        /\ Client(s).support.commands = {D(t) : t \in sent}
    BY DEF Client, clientSupport
  <1>3. \A r \in VersionRange : validServerRange(r) => r.cur \in Int /\ Within(r.cur, r)
    BY DEF validServerRange, Within, VersionRange
  <1>4. \E v \in Int : Client(s).support.api = Exactly(v) /\ Within(v, m.api)
    <2>1. m.api \in VersionRange /\ validServerRange(m.api)
      BY <1>1 DEF WholeVersions, loadSupport
    <2>2. QED
      BY <1>2, <1>3, <2>1
  <1>5. OneEach(Client(s).support.commands)
    BY <1>2 DEF OneEach
  <1>6. ASSUME NEW d \in Client(s).support.commands
        PROVE  /\ Has(m.commands, d.type)
               /\ \E v \in Int : d.range = Exactly(v) /\ Within(v, RangeOf(m.commands, d.type))
    <2>1. PICK t \in sent : d = D(t)
      BY <1>2
    <2>2. d.type = t /\ d.range = Exactly(RangeOf(m.commands, t).cur) /\ Has(m.commands, t)
      BY <2>1
    <2>3. RangeOf(m.commands, t) \in VersionRange /\ validServerRange(RangeOf(m.commands, t))
      BY <1>1, <2>2, RangeOfSome DEF WholeVersions, loadSupport
    <2>4. QED
      BY <1>3, <2>2, <2>3
  <1>7. ASSUME NEW op \in Client(s).operations, op.commandType # None
        PROVE  Has(Client(s).support.commands, op.commandType)
    <2>1. PICK x \in s.operations : op = Metadata(x)
      BY <1>2
    <2>2. op.commandType = x.marker
      BY <2>1 DEF Metadata
    <2>3. x.marker \in markedCommands(s.operations)
      BY <1>7, <2>2 DEF markedCommands
    <2>4. x.marker \in sent
      BY <2>3 DEF generates, AcceptedFixtures
    <2>5. D(x.marker).type = x.marker
      OBVIOUS
    <2>6. QED
      BY <1>2, <2>2, <2>4, <2>5 DEF Has
  <1>8. Known(Client(s), s.operations)
    BY <1>2 DEF Known, Metadata
  <1>9. QED
    BY <1>4, <1>5, <1>6, <1>7, <1>8 DEF Supported

\* A release that the support check lets through keeps every version.
LEMMA SupportSurvives ==
    ASSUME NEW old, NEW new, WholeVersions(old), WholeVersions(new), loadSupport(old), loadSupport(new),
           supportBreakingChanges(old, new) = {}, NEW c, Supported(c, old)
    PROVE  Supported(c, new)
  <1>1. /\ ~Contracted(old.api, new.api)
        /\ \A d \in old.commands :
              Has(new.commands, d.type) /\ ~Contracted(d.range, RangeOf(new.commands, d.type))
    BY NothingBroken
  <1>2. \E v \in Int : c.support.api = Exactly(v) /\ Within(v, new.api)
    <2>1. PICK v \in Int : c.support.api = Exactly(v) /\ Within(v, old.api)
      BY DEF Supported
    <2>2. old.api \in VersionRange /\ new.api \in VersionRange /\ validServerRange(new.api)
      BY DEF WholeVersions, loadSupport
    <2>3. QED
      BY <1>1, <2>1, <2>2, StaysWithin
  <1>3. ASSUME NEW d \in c.support.commands
        PROVE  /\ Has(new.commands, d.type)
               /\ \E v \in Int : d.range = Exactly(v) /\ Within(v, RangeOf(new.commands, d.type))
    <2>1. PICK v \in Int : d.range = Exactly(v) /\ Within(v, RangeOf(old.commands, d.type))
      BY DEF Supported
    <2>2. PICK o \in old.commands : o.type = d.type /\ RangeOf(old.commands, d.type) = o.range
      BY RangeOfSome DEF Supported
    <2>3. Has(new.commands, d.type) /\ ~Contracted(o.range, RangeOf(new.commands, d.type))
      BY <1>1, <2>2
    <2>4. PICK e \in new.commands : RangeOf(new.commands, d.type) = e.range
      BY <2>3, RangeOfSome
    <2>5. o.range \in VersionRange /\ e.range \in VersionRange /\ validServerRange(e.range)
      BY DEF WholeVersions, loadSupport
    <2>6. Within(v, e.range)
      BY <2>1, <2>2, <2>3, <2>4, <2>5, StaysWithin
    <2>7. QED
      BY <2>1, <2>3, <2>4, <2>6
  <1>4. QED
    BY <1>2, <1>3 DEF Supported

\* One that the comparison of the operations lets through and the generator
\* accepts keeps every operation with its parameters.
LEMMA OperationSurvives ==
    ASSUME NEW old, NEW new, blockingDifferences(old, new) = {}, AcceptedOperations(new), NEW a \in old
    PROVE  \E b \in new : /\ b.key = a.key /\ b.id = a.id /\ b.marker = a.marker
                          /\ b.parameters = a.parameters
  <1>1. \A d \in Differences(old, new) :
            /\ d.type \in {"annotation", "deprecated", "non-breaking"}
            /\ ~violatesTraxCompatibilityPolicy(d)
    BY DEF blockingDifferences
  <1>2. PICK b \in new : b.key = a.key
    <2>1. SUFFICES ASSUME \A b \in new : b.key # a.key PROVE FALSE
      OBVIOUS
    <2>2. Difference("paths", "remove", "breaking") \in Differences(old, new)
      <3>1. a \in OnlyIn(old, new)
        BY <2>1 DEF OnlyIn
      <3>2. QED
        BY <3>1 DEF Differences
    <2>3. Difference("paths", "remove", "breaking").type = "breaking"
      BY DEF Difference
    <2>4. QED
      BY <1>1, <2>2, <2>3
  <1>3. OperationDifferences(a, b) \subseteq Differences(old, new)
    <2>1. OperationDifferences(a, b) \subseteq DifferencesInBoth(old, new)
      BY <1>2 DEF DifferencesInBoth
    <2>2. QED
      BY <2>1 DEF Differences
  <1>4. ASSUME NEW at, NEW action, NEW type, Difference(at, action, type) \in OperationDifferences(a, b)
        PROVE  /\ type \in {"annotation", "deprecated", "non-breaking"}
               /\ at \notin {"operationId", "x-trax-command-type", "security"}
               /\ at = "parameters" => action = "add"
    <2>1. /\ Difference(at, action, type).at = at /\ Difference(at, action, type).action = action
          /\ Difference(at, action, type).type = type
      BY DEF Difference
    <2>2. QED
      BY <1>1, <1>3, <1>4, <2>1 DEF violatesTraxCompatibilityPolicy
  <1>5. b.id = a.id
    <2>1. SUFFICES ASSUME b.id # a.id PROVE FALSE
      OBVIOUS
    <2>2. Difference("operationId", "replace", "annotation") \in OperationDifferences(a, b)
      BY <2>1 DEF OperationDifferences, Difference
    <2>3. QED
      BY <1>4, <2>2
  <1>6. b.marker = a.marker
    <2>1. SUFFICES ASSUME b.marker # a.marker PROVE FALSE
      OBVIOUS
    <2>2. Difference("x-trax-command-type", "replace", "annotation") \in OperationDifferences(a, b)
      BY <2>1 DEF OperationDifferences, Difference
    <2>3. QED
      BY <1>4, <2>2
  <1>7. a.parameters \subseteq b.parameters
    <2>1. SUFFICES ASSUME NEW p \in a.parameters, p \notin b.parameters PROVE FALSE
      OBVIOUS
    <2>2. Difference("parameters", "remove", "non-breaking") \in OperationDifferences(a, b)
      BY <2>1 DEF OperationDifferences
    <2>3. QED
      BY <1>4, <2>2
  <1>8. b.parameters \subseteq a.parameters
    <2>1. SUFFICES ASSUME NEW p \in b.parameters, p \notin a.parameters PROVE FALSE
      OBVIOUS
    <2>2. p.required
      BY DEF AcceptedOperations, AcceptedOperation, AcceptedParameter
    <2>3. Difference("parameters", "add", IF p.required THEN "breaking" ELSE "non-breaking")
              \in OperationDifferences(a, b)
      BY <2>1 DEF OperationDifferences
    <2>4. QED
      BY <1>4, <2>2, <2>3
  <1>9. b.parameters = a.parameters
    BY <1>7, <1>8
  <1>10. QED
    BY <1>2, <1>5, <1>6, <1>9

-----------------------------------------------------------------------------
(***************************************************************************)
(* The theorems.                                                           *)
(***************************************************************************)

\* The first release satisfies the invariant.
LEMMA InitReleaseInv == Init => ReleaseInv
  <1> SUFFICES ASSUME Init PROVE ReleaseInv
    OBVIOUS
  <1>1. /\ source \in Sources /\ generates(source) /\ loadSupport(source.contract)
        /\ server.source = source /\ server.files = [f \in FileNames |-> source] /\ clients = {}
    BY DEF Init
  <1>2. QED
    BY <1>1 DEF ReleaseInv, Together

\* Every step keeps the invariant.
LEMMA NextReleaseInv == ReleaseInv /\ [Next]_vars => ReleaseInv'
  <1> SUFFICES ASSUME ReleaseInv, [Next]_vars PROVE ReleaseInv'
    OBVIOUS
  <1>1. CASE UNCHANGED <<server, clients>> /\ source' \in Sources
    BY <1>1 DEF ReleaseInv, Together
  <1>2. CASE Release
    <2> DEFINE old == server.source
    <2>1. /\ source' = source /\ clients' = clients
          /\ server'.source = source /\ server'.files = files
      BY <1>2 DEF Release
    <2>2. /\ source \in Sources /\ generates(source) /\ loadSupport(source.contract)
          /\ \A f \in FileNames : files[f] = source
      BY <1>2 DEF ReleaseInv, Release, DriftFree
    <2>3. /\ old \in Sources /\ loadSupport(old.contract)
          /\ \A c \in clients : Supported(c, old.contract) /\ Known(c, old.operations)
      BY DEF ReleaseInv
    <2>4. /\ blockingDifferences(old.operations, source.operations) = {}
          /\ supportBreakingChanges(old.contract, source.contract) = {}
      BY <1>2 DEF Release
    <2>5. WholeVersions(old.contract) /\ WholeVersions(source.contract)
      BY <2>2, <2>3, SourcesAssumption
    <2>6. \A c \in clients : Supported(c, source.contract)
      BY <2>2, <2>3, <2>4, <2>5, SupportSurvives
    <2>7. ASSUME NEW c \in clients PROVE Known(c, source.operations)
      <3> SUFFICES ASSUME NEW op \in c.operations
                   PROVE  \E s \in source.operations :
                             /\ s.key = op.key /\ s.id = op.id /\ s.marker = op.commandType
                             /\ pathSchemas(s) = op.names
                             /\ (\E p \in s.parameters : p.in = "header") => op.csrf
        BY DEF Known
      <3>1. PICK a \in old.operations :
               /\ a.key = op.key /\ a.id = op.id /\ a.marker = op.commandType
               /\ pathSchemas(a) = op.names
               /\ (\E p \in a.parameters : p.in = "header") => op.csrf
        BY <2>3 DEF Known
      <3>2. PICK b \in source.operations :
               b.key = a.key /\ b.id = a.id /\ b.marker = a.marker /\ b.parameters = a.parameters
        BY <2>2, <2>4, OperationSurvives DEF generates
      <3>3. pathSchemas(b) = pathSchemas(a)
        BY <3>2 DEF pathSchemas
      <3>4. QED
        BY <3>1, <3>2, <3>3
    <2>8. QED
      BY <2>1, <2>2, <2>6, <2>7 DEF ReleaseInv, Together
  <1>3. CASE Load
    <2>1. /\ source' = source /\ server' = server
          /\ clients' = clients \union {Client(server.files["client.ts"])}
      BY <1>3 DEF Load
    <2>2. server.files["client.ts"] = server.source
      <3>1. "client.ts" \in FileNames
        BY DEF FileNames, Files
      <3>2. QED
        BY <3>1 DEF ReleaseInv, Together
    <2>3. Supported(Client(server.source), server.source.contract)
          /\ Known(Client(server.source), server.source.operations)
      BY ClientSupported DEF ReleaseInv
    <2>4. QED
      BY <2>1, <2>2, <2>3 DEF ReleaseInv, Together
  <1>4. QED
    BY <1>1, <1>2, <1>3 DEF Next, Edit, StartGenerate, CopyFile, Interrupt, vars, ReleaseInv

\* The invariant holds in every state of the repository and its releases.
THEOREM ReleaseInvariant == Spec => []ReleaseInv
  <1>1. QED
    BY InitReleaseInv, NextReleaseInv, PTL DEF Spec

\* A page negotiates with every later server for the versions its client was
\* made with (negotiateContract), and every operation its client knows is
\* still the same operation.
THEOREM ReleaseOldClientsKeepWorking == Spec => []OldClientsKeepWorking
  <1>1. ReleaseInv => OldClientsKeepWorking
    <2> SUFFICES ASSUME ReleaseInv, NEW c \in clients
                 PROVE  LET n == negotiateContract(c.support, server.source.contract) IN
                        /\ n.ok /\ n.api = c.support.api.cur
                        /\ Known(c, server.source.operations)
                        /\ \A op \in c.operations :
                              op.commandType # None =>
                                 /\ op.commandType \in DOMAIN n.commands
                                 /\ n.commands[op.commandType] = RangeOf(c.support.commands, op.commandType).cur
      BY DEF OldClientsKeepWorking, Known
    <2>1. /\ WholeVersions(server.source.contract) /\ loadSupport(server.source.contract)
          /\ Supported(c, server.source.contract) /\ Known(c, server.source.operations)
      BY SourcesAssumption DEF ReleaseInv
    <2>2. QED
      BY <2>1, SupportedNegotiates
  <1>2. QED
    BY <1>1, ReleaseInvariant, PTL

-----------------------------------------------------------------------------
(***************************************************************************)
(* The module boundaries.                                                  *)
(***************************************************************************)

\* A verdict is that of the check on the tree as it is, and names in the tree
\* are names.
GateInv ==
    /\ verdict = "consistent" => runModuleBoundaryCheck(ws)
    /\ DOMAIN ws = DOMAIN FirstTree
    /\ ws.pyedges \subseteq Items("pyedges") /\ ws.pymodules \subseteq Items("pymodules")

\* Editing takes the verdict back.
LEMMA GateInvHolds == GateSpec => []GateInv
  <1>1. GateInit => GateInv
    BY DEF GateInit, GateInv, Items
  <1>2. GateInv /\ [GateNext]_gateVars => GateInv'
    <2> SUFFICES ASSUME GateInv, [GateNext]_gateVars PROVE GateInv'
      OBVIOUS
    <2>1. CASE Check
      BY <2>1 DEF Check, GateInv
    <2>2. CASE EditTree
      <3>1. PICK k \in Editable : \E f \in DOMAIN k.edits : \E x \in k.edits[f] : ws' = [ws EXCEPT ![f] = Flip(@, x)]
        BY <2>2 DEF EditTree
      <3>2. PICK f \in DOMAIN k.edits : \E x \in k.edits[f] : ws' = [ws EXCEPT ![f] = Flip(@, x)]
        BY <3>1
      <3>3. PICK x \in k.edits[f] : ws' = [ws EXCEPT ![f] = Flip(@, x)]
        BY <3>2
      <3>4. DOMAIN ws' = DOMAIN FirstTree
        BY <3>3 DEF GateInv
      <3>5. \A g \in DOMAIN FirstTree : ws'[g] = IF g = f THEN Flip(ws[g], x) ELSE ws[g]
        BY <3>3 DEF GateInv
      <3>6. x \in Items(f)
        BY DEF Items
      <3>7. ws'["pyedges"] \subseteq Items("pyedges") /\ ws'["pymodules"] \subseteq Items("pymodules")
        BY <3>5, <3>6, TreeAssumption DEF GateInv, Flip
      <3>8. QED
        BY <2>2, <3>4, <3>7 DEF EditTree, GateInv
    <2>3. CASE UNCHANGED gateVars
      BY <2>3 DEF gateVars, GateInv
    <2>4. QED
      BY <2>1, <2>2, <2>3 DEF GateNext
  <1>3. QED
    BY <1>1, <1>2, PTL DEF GateSpec

\* A set of numbers below a bound has a greatest one.
LEMMA GreatestBelow ==
    ASSUME NEW n \in Nat, NEW S \in SUBSET (1..n), S # {}
    PROVE  Max(S) \in S
  <1>2. SUFFICES \E x \in S : \A y \in S : x >= y
    BY DEF Max
  <1> DEFINE R == OpToRel(<, Nat)
             T == {n - k : k \in S}
  <1>1. \A k \in S : k \in Nat /\ n - k \in Nat
    OBVIOUS
  <1>3. T \subseteq Nat /\ T # {}
    <2>1. PICK k \in S : TRUE
      OBVIOUS
    <2>2. n - k \in T
      OBVIOUS
    <2>3. QED
      BY <1>1, <2>2
  <1>4. PICK m \in T : \A k \in T : <<k, m>> \notin R
    <2> HIDE DEF T, R
    <2>1. IsWellFoundedOn(R, Nat)
      BY NatLessThanWellFounded DEF R
    <2>2. QED
      BY <1>3, <2>1, WFMin
  <1>5. \A k \in T : ~(k < m)
    BY <1>3, <1>4 DEF OpToRel
  <1>6. PICK x \in S : m = n - x
    OBVIOUS
  <1>7. ASSUME NEW y \in S PROVE x >= y
    <2>1. n - y \in T
      OBVIOUS
    <2>2. ~(n - y < n - x)
      BY <1>5, <1>6, <2>1
    <2>3. x \in Nat /\ y \in Nat
      BY <1>1
    <2>4. QED
      BY <2>2, <2>3
  <1>8. QED
    BY <1>7


\* The part of a name that is found is one of those looked for.
LEMMA ClimbFinds ==
    ASSUME NEW S, NEW name \in Seq(STRING), Climb(S, name) # <<>>
    PROVE  Climb(S, name) \in S
  <1> DEFINE owners == {n \in 1..Len(name) : SubSeq(name, 1, n) \in S}
  <1>1. owners # {} /\ Climb(S, name) = SubSeq(name, 1, Max(owners))
    BY DEF Climb
  <1>2. Len(name) \in Nat /\ owners \in SUBSET (1..Len(name))
    OBVIOUS
  <1>3. Max(owners) \in owners
    BY <1>1, <1>2, GreatestBelow
  <1>4. QED
    BY <1>1, <1>3

\* Python (verifyPython): an import is judged by the module it really arrives
\* at, because the classified modules are the files; that module has a layer
\* the importer may use, or an exception names the import exactly.
THEOREM GatePythonLayersHold == GateSpec => []PythonLayersHold
  <1>1. GateInv => PythonLayersHold
    <2> SUFFICES ASSUME GateInv, verdict = "consistent", NEW e \in ws.pyedges
                 PROVE  LET m == Climb(ws.pyfiles, e.target)
                        IN  \E l, k \in {x[2] : x \in ws.pymodules} :
                              /\ <<e.source, l>> \in ws.pymodules /\ <<m, k>> \in ws.pymodules
                              /\ \/ <<l, k>> \in ws.pyallowed
                                 \/ \E x \in ws.exceptions :
                                      /\ x.from = e.source /\ x.to = m
                                      /\ x.names = e.names /\ ~e.dynamic
      BY DEF PythonLayersHold
    <2> DEFINE m == Climb(Configured(ws), e.target)
               l == LayerOf(ws, e.source)
               k == LayerOf(ws, m)
    <2>1. verifyPython(ws) /\ PythonValid(ws)
      BY DEF GateInv, runModuleBoundaryCheck, validateRegistry
    <2>2. /\ Configured(ws) = ws.pyfiles
          /\ e.source \in Configured(ws) /\ m # <<>>
          /\ LayerAllowed(ws, e) \/ \E x \in ExceptionFor(ws, e) : ~e.dynamic /\ e.names = x.names
      BY <2>1 DEF verifyPython, ModulesClassified
    <2>3. m \in Configured(ws)
      BY <2>2, ClimbFinds, TreeAssumption DEF GateInv
    <2>4. \A n \in Configured(ws) : <<n, LayerOf(ws, n)>> \in ws.pymodules
      <3> SUFFICES ASSUME NEW n \in Configured(ws) PROVE <<n, LayerOf(ws, n)>> \in ws.pymodules
        OBVIOUS
      <3> DEFINE x == CHOOSE y \in ws.pymodules : y[1] = n
      <3>1. x \in ws.pymodules /\ x[1] = n
        BY DEF Configured
      <3>2. x = <<x[1], x[2]>>
        BY <3>1, TreeAssumption DEF GateInv
      <3>3. QED
        BY <3>1, <3>2 DEF LayerOf
    <2>5. <<e.source, l>> \in ws.pymodules /\ <<m, k>> \in ws.pymodules
      BY <2>2, <2>3, <2>4
    <2>6. l \in {x[2] : x \in ws.pymodules} /\ k \in {x[2] : x \in ws.pymodules}
      <3> HIDE DEF l, k, m
      <3>1. <<e.source, l>>[2] = l /\ <<m, k>>[2] = k
        OBVIOUS
      <3>2. QED
        BY <2>5, <3>1
    <2>7. \/ <<l, k>> \in ws.pyallowed
          \/ \E x \in ws.exceptions : x.from = e.source /\ x.to = m /\ x.names = e.names /\ ~e.dynamic
      BY <2>2 DEF LayerAllowed, ExceptionFor
    <2> HIDE DEF l, k, m
    <2>8. Climb(ws.pyfiles, e.target) = m
      BY <2>2 DEF m
    <2>9. QED
      BY <2>5, <2>6, <2>7, <2>8
  <1>2. QED
    BY <1>1, GateInvHolds, PTL

\* What the check leaves to npm: the packages of the workspace have internal
\* names, and what is not resolved is not a file.
PackagesInternal(w) ==
    /\ \A t \in w.targets, m \in w.manifests : m.path = t.root => m.name \in Internal
    /\ Unresolved \notin w.files

\* What an import between roots depends on is an edge of the registry, whose
\* edges assertAcyclic has searched for a cycle.
DependsAsRegistered(w) == \A i \in Landed(w) :
    Landing(w, i).root # i.from.root => <<i.from.root, Landing(w, i).root>> \in w.edges

\* TypeScript (verifyTypeScript, verifyRoots): whatever path, configured name
\* or package name an import uses, it enters another root at a file which that
\* root exports, by a declared dependency and along an edge of the registry.
THEOREM GateGuardsRoots ==
    GateSpec => [](verdict = "consistent" /\ PackagesInternal(ws) =>
                      EntersThroughExports(ws) /\ DependsAsRegistered(ws))
  <1>1. GateInv /\ verdict = "consistent" /\ PackagesInternal(ws) =>
            EntersThroughExports(ws) /\ DependsAsRegistered(ws)
    <2> SUFFICES ASSUME GateInv, verdict = "consistent", PackagesInternal(ws), NEW i \in Landed(ws),
                        Landing(ws, i).root # i.from.root
                 PROVE  /\ \E x \in ws.targets, m \in ws.manifests :
                              /\ x.root = Landing(ws, i).root /\ x.file = Landing(ws, i)
                              /\ <<Landing(ws, i).root, x.subpath>> \in ws.exports
                              /\ m.path = Landing(ws, i).root /\ <<i.from.root, m.name>> \in ws.deps
                        /\ <<i.from.root, Landing(ws, i).root>> \in ws.edges
      BY DEF EntersThroughExports, DependsAsRegistered
    <2>1. verifyRoots(ws) /\ verifyTypeScript(ws)
      BY DEF GateInv, runModuleBoundaryCheck
    <2>2. i \in ws.imports /\ i.from \in SourceFiles(ws) /\ i.spec.kind # "loader" /\ ImportAllowed(ws, i)
      BY <2>1 DEF verifyTypeScript, Landed, collectSpecifiers
    <2>3. Landing(ws, i) = Resolution(ws, i) /\ Resolution(ws, i) \in ws.files
      BY <2>2 DEF Landing, Landed
    <2>4. ~inspectPathTarget(ws, i, Landing(ws, i))
      BY DEF inspectPathTarget
    <2>5. i.spec.kind # "path"
      <3> SUFFICES ASSUME i.spec.kind = "path" PROVE FALSE
        OBVIOUS
      <3>1. Resolution(ws, i) = i.spec.file
        BY DEF Resolution
      <3>2. inspectPathTarget(ws, i, i.spec.file)
        BY <2>2 DEF ImportAllowed
      <3>3. QED
        BY <2>3, <2>4, <3>1, <3>2
    <2>6. CASE i.spec.name \in Internal
      <3>1. PICK a \in NpmRoots(ws) :
                /\ a.packageName = i.spec.name /\ NotShadowed(ws, i, a)
                /\ a.path # i.from.root =>
                      <<i.from.root, i.spec.name>> \in ws.deps /\ <<i.from.root, a.path>> \in ws.edges
                /\ <<a.path, i.spec.subpath>> \in ws.exports
        BY <2>2, <2>5, <2>6 DEF ImportAllowed, PackageImportAllowed
      <3>2. Resolution(ws, i) # Unresolved
        BY <2>3 DEF PackagesInternal
      <3>3. PICK x \in ws.targets : x.root = a.path /\ x.subpath = i.spec.subpath /\ x.file = Resolution(ws, i)
        BY <3>1, <3>2 DEF NotShadowed
      <3>4. x.file.root = a.path
        BY <2>1, <3>3 DEF verifyRoots, ExportsMatch
      <3>5. PICK m \in ws.manifests : m.path = a.path /\ m.name = a.packageName
        BY <2>1 DEF verifyRoots, HasManifest, NpmRoots
      <3>6. QED
        BY <2>3, <3>1, <3>3, <3>4, <3>5
    <2>7. CASE i.spec.name \notin Internal
      <3>1. AliasOf(ws, i) = {}
        BY <2>2, <2>3, <2>4, <2>5, <2>7 DEF ImportAllowed, AliasImportAllowed
      <3>2. {t \in ws.targets : t.subpath = i.spec.subpath
                /\ \E m \in ws.manifests : m.path = t.root /\ m.name = i.spec.name} = {}
        BY <2>7 DEF PackagesInternal
      <3>3. Resolution(ws, i) = Unresolved
        BY <2>5, <3>1, <3>2 DEF Resolution
      <3>4. QED
        BY <2>3, <3>3 DEF PackagesInternal
    <2>8. QED
      BY <2>6, <2>7
  <1>2. QED
    BY <1>1, GateInvHolds, PTL
=============================================================================
