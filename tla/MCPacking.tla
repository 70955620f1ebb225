------------------------------ MODULE MCPacking ------------------------------
\* Requests are interchangeable; one of the items may be created again.
EXTENDS Packing, TLC

MCSymmetry == Permutations(Requests)
=============================================================================
