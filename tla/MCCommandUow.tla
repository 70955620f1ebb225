---------------------------- MODULE MCCommandUow ----------------------------
(***************************************************************************)
(* Small instances of CommandUow for TLC.                                  *)
(***************************************************************************)
EXTENDS CommandUow, TLC

CONSTANTS j1, k1, k2, dA, dB

\* One command, another one under the same identifier, and a follow-up that
\* expects the version the first one makes.
MCCommands ==
    { [id |-> k1, journey |-> j1, expected |-> 1, data |-> dA],
      [id |-> k1, journey |-> j1, expected |-> 1, data |-> dB],
      [id |-> k2, journey |-> j1, expected |-> 2, data |-> dB] }

MCSymmetry == Permutations(Requests)
=============================================================================
