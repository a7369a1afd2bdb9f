------------------------- MODULE MCComponentMoves -------------------------
(* Instances of ComponentMoves for TLC. *)
EXTENDS ComponentMoves, TLC

CONSTANTS x, y, z, k1, k2, a, b

TwoTemplates == {k1 :> a, k1 :> b @@ k2 :> a}
Symmetry == Permutations(Names)
=============================================================================
