---------------------------- MODULE MCHostApply ----------------------------
(***************************************************************************)
(* A host with an artifact source that may become protected, a file that   *)
(* is made again when the source changes, and the service that names the   *)
(* file and is restarted when one of the two changes.                      *)
(***************************************************************************)
EXTENDS HostApply, TLC

Source == "source"
File == "file"
Service == "service"

Declare(want, behavior, prevent, protected) ==
    [want |-> want, behavior |-> behavior, prevent |-> prevent, protected |-> protected]

MCResources == {Source, File, Service}
MCOperations == {Service}
MCWriteOnly == {File}
MCMigrating == {Source}
MCVersions == {"v1", "v2"}
MCDependsOn == (Source :> {}) @@ (File :> {Source}) @@ (Service :> {File})
MCTriggeredBy == (Source :> {}) @@ (File :> {Source}) @@ (Service :> {Source, File})
MCInferredOn == MCTriggeredBy

\* Every kind of declaration.
MCChoices ==
    (Source :> {Undeclared,
                Declare("v2", "forget", FALSE, FALSE),
                Declare("v2", "forget", FALSE, TRUE)}) @@
    (File :> {Undeclared,
              Declare(Absent, "destroy", FALSE, FALSE),
              Declare("v1", "destroy", FALSE, FALSE),
              Declare("v1", "destroy", TRUE, FALSE)}) @@
    (Service :> {Undeclared, Declare("v1", "forget", FALSE, FALSE)})

============================================================================
