---------------------------- MODULE MCHostResources ----------------------------
(* Small instances of HostResources.                                         *)
EXTENDS HostResources
=============================================================================
