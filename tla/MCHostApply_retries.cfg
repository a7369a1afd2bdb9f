SPECIFICATION Spec
CONSTANTS
    Resources <- MCResources
    Operations <- MCOperations
    Versions <- MCVersions
    WriteOnly <- MCWriteOnly
    DependsOn <- MCDependsOn
    InferredOn <- MCInferredOn
    Migrating <- MCMigrating
    TriggeredBy <- MCTriggeredBy
    Choices <- MCChoices
    MaxEdits = 2
    MaxDrifts = 1
    MaxFailures = 1
INVARIANTS
    RepeatIsNoOp
    DependenciesTracked
    PlainRecordsScrubbed
PROPERTIES
    ScrubbedAfterMigration
    OperationFollowsChange
