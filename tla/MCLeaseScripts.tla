--------------------------- MODULE MCLeaseScripts ---------------------------
(* Small instances of LeaseScripts for TLC.                                *)
EXTENDS LeaseScripts, TLC

\* The runs differ in nothing but their tokens.
Symmetry == Permutations(Clients)
=============================================================================
