--------------------------- MODULE MCPledgeLedger ---------------------------
(* Small instances of PledgeLedger for TLC.                                *)
EXTENDS PledgeLedger, TLC

\* Requests differ only by name.  Sound for invariants and action properties;
\* runs that check liveness do not use it.
RequestSymmetry == Permutations(Requests)
=============================================================================
