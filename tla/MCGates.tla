------------------------------- MODULE MCGates -------------------------------
(***************************************************************************)
(* The two gates of CI that guard a change: the contract's, with the       *)
(* releases that pass it, and the one of the module boundaries.  A change  *)
(* is followed through one of them.                                        *)
(***************************************************************************)
EXTENDS MCContractRelease, MCModuleBoundaries

VARIABLE gate

\* The contract does not matter to the boundaries: any one will do there.
GatesInit ==
    /\ Init /\ GateInit /\ gate \in {"contract", "boundaries"}
    /\ gate = "boundaries" => source = CHOOSE s \in Sources : generates(s) /\ loadSupport(s.contract)

GatesNext ==
    \/ gate = "contract" /\ Next /\ UNCHANGED <<gate, gateVars>>
    \/ gate = "boundaries" /\ GateNext /\ UNCHANGED <<gate, vars>>

GatesSpec == GatesInit /\ [][GatesNext]_<<gate, gateVars, vars>>
=============================================================================
