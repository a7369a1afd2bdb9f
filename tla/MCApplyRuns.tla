---------------------------- MODULE MCApplyRuns ----------------------------
(* Instances of ApplyRuns for TLC. *)
EXTENDS ApplyRuns, TLC

CONSTANTS r1, r2, m1, m2, a, b

On(m, v) == [machine |-> m, version |-> v]

\* Two hosts, of which the first is to change, or only the first and not.
Edited == {1 :> On(m1, b) @@ 2 :> On(m2, b), 1 :> On(m1, a)}

\* One run works on both hosts at once, the other on one after the other.
Workers == r1 :> 2 @@ r2 :> 1
=============================================================================
