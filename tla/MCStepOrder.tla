---------------------------- MODULE MCStepOrder ----------------------------
(* Small plans for StepOrder: every choice of dependencies and removals.    *)
EXTENDS StepOrder
============================================================================
