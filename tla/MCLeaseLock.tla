---------------------------- MODULE MCLeaseLock ----------------------------
(* Small instances of LeaseLock for TLC.                                   *)
EXTENDS LeaseLock, TLC

CONSTANTS c1, c2

\* c1 is the run that is prepared to wait, c2 tries once; c2's clock is ahead.
MCTimeout == c1 :> TTL + MaxSkew @@ c2 :> 0
MCSkew    == c1 :> 0 @@ c2 :> MaxSkew

\* Both wait, for less than a TTL.
ImpatientTimeout == c1 :> 2 @@ c2 :> 3
=============================================================================
