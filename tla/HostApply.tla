----------------------------- MODULE HostApply -----------------------------
(***************************************************************************)
(* Planning and executing one host, as planHost, planNode and executeHost  *)
(* of src/internal/core/engine/engine.go do it inside the host's lease.    *)
(*                                                                         *)
(* A plan compares the configuration, the state kept on the host and what  *)
(* is observed there; the steps run one after the other, collecting the    *)
(* new state in memory; the state is written once, at the end, except that *)
(* the record of a resource that became protected is rewritten before the  *)
(* first step.  A record of some kinds is all that still points to what    *)
(* lies on the host under a name made of the plain values; the provider    *)
(* moves that first (MigrateProtectedPrior).                               *)
(* A step may fail, the state may fail to be written and the client may    *)
(* die anywhere; the operator then simply applies again.  Meanwhile the    *)
(* configuration is edited and the host changes by other hands.            *)
(*                                                                         *)
(* The steps run in any order that keeps what StepOrder promises: its      *)
(* module models the order itself.  Component moves are not part of this   *)
(* module.                                                                 *)
(***************************************************************************)
EXTENDS Naturals, FiniteSets

CONSTANTS Resources,     \* the addresses
          Operations,    \* those that only act when triggered: scripts without
                         \* outputs, and services that are up
          WriteOnly,     \* those whose content is never recorded
          Choices,       \* address -> the declarations an edit may give it
          DependsOn,     \* address -> its authored dependencies
          InferredOn,    \* address -> what the graph makes it depend on besides
          TriggeredBy,   \* address -> its triggers
          Migrating,     \* those whose object has a name made of their values, that
                         \* of a plain one showing them: artifact sources and CA
                         \* certificates
          Versions,      \* contents of a remote object
          MaxEdits, MaxDrifts, MaxFailures

Absent == "absent"           \* ensure = "absent"; also: no remote object
Undeclared == [want |-> "undeclared"]

Contents == Versions \cup {Absent}

\* A declaration: what it wants, what removing it from the configuration
\* does, lifecycle.prevent_destroy, and whether its values are sensitive.
Declarations == [want : Contents, behavior : {"forget", "destroy"},
                 prevent : BOOLEAN, protected : BOOLEAN]

ASSUME HostAssumption ==
    /\ Operations \subseteq Resources /\ WriteOnly \subseteq Resources
    /\ Migrating \subseteq Resources \ Operations
    /\ \A r \in Resources : Choices[r] \subseteq Declarations \cup {Undeclared}
    /\ DependsOn \in [Resources -> SUBSET Resources]
    /\ InferredOn \in [Resources -> SUBSET Resources]
    /\ TriggeredBy \in [Resources -> SUBSET Resources]
    /\ \A r \in Resources : TriggeredBy[r] \subseteq InferredOn[r]
    /\ Absent \notin Versions
    /\ {MaxEdits, MaxDrifts, MaxFailures} \subseteq Nat

VARIABLES config,      \* address -> declaration or Undeclared
          remote,      \* address -> the content of its object on the host
          shown,       \* those of Migrating with something under a plain name on the host
          state,       \* the state file: tracked address -> record
          loaded,      \* operation -> what its triggers were when it last ran
          phase,       \* "idle", "prewrite" or "running"
          plan,        \* the locked plan
          work,        \* the state executeHost builds in memory
          pending,     \* the steps that have not run
          outcome,     \* of the last attempt: "applied" after a success, and "none"
                       \* once anything else happened since it was planned
          edits, drifts, failures

vars == <<config, remote, shown, state, loaded, phase, plan, work, pending, outcome,
          edits, drifts, failures>>

----------------------------------------------------------------------------
(* Planning *)

Tracked(s) == DOMAIN s
Declared == {r \in Resources : config[r] # Undeclared}

\* The digest of a desired map: the sensitive flag is not part of it.
Digest(d) == [want |-> d.want, behavior |-> d.behavior, prevent |-> d.prevent]
NoDigest == [want |-> "none"]

\* Operations always look as declared; anything else is inspected.
Observed(r, d) == IF r \in Operations THEN d.want ELSE remote[r]
Exists(r, d) == Observed(r, d) # Absent

\* A tracked plain resource that is now declared sensitive loses its values
\* and its digest, and keeps its identity (planProtectedPrior).
Reclassified(r) == /\ r \in Tracked(state)
                   /\ config[r].protected
                   /\ ~state[r].protected

Prior(r) == IF Reclassified(r)
            THEN [state[r] EXCEPT !.digest = NoDigest, !.protected = TRUE]
            ELSE state[r]

\* The object is to get another name: nothing is adopted or left alone then.
componentPriorIdentityCleanupPending(r) ==
    /\ r \in Migrating \cap Tracked(state)
    /\ state[r].protected # config[r].protected

planNode(r) ==
    LET d == config[r]
        tracked == r \in Tracked(state)
        same == tracked /\ Prior(r).digest = Digest(d)
        matches == Observed(r, d) = d.want
    IN  IF d.want = Absent
        THEN IF Exists(r, d) THEN "delete"
             ELSE IF tracked /\ ~same THEN "adopt" ELSE "no-op"
        ELSE IF ~Exists(r, d) THEN "create"
             ELSE IF matches /\ ~componentPriorIdentityCleanupPending(r)
                  THEN IF same THEN "no-op"
                       ELSE IF r \in WriteOnly THEN "update" ELSE "adopt"
                  ELSE "update"

Changes == {"create", "update", "delete", "destroy"}

\* A change goes on through what it triggers: the nodes are planned after their
\* triggers, and what counts is the action that the trigger was given.
Closed(X) ==
    \A r \in Declared : planNode(r) \in Changes \/ TriggeredBy[r] \cap X # {} => r \in X
Changing == {r \in Declared : \A X \in SUBSET Declared : Closed(X) => r \in X}

changedRemoteTriggers(r) == TriggeredBy[r] \cap Changing

\* Mutant: a trigger does not reach a resource that is only adopted.
NodeActionMissesAdopt(r) ==
    IF planNode(r) = "no-op" /\ changedRemoteTriggers(r) # {}
    THEN IF Exists(r, config[r]) THEN "update" ELSE "create"
    ELSE planNode(r)

\* A triggered resource runs although it looks as declared.
NodeAction(r) ==
    IF planNode(r) \in {"no-op", "adopt"} /\ changedRemoteTriggers(r) # {}
    THEN IF Exists(r, config[r]) THEN "update" ELSE "create"
    ELSE planNode(r)

OrphanAction(r) == IF state[r].behavior = "destroy" THEN "destroy" ELSE "forget"

Action(r) == IF r \in Declared THEN NodeAction(r) ELSE OrphanAction(r)

Planned == Declared \cup Tracked(state)

\* prevent_destroy fails the whole plan.
Blocked(r) ==
    /\ Action(r) \in {"delete", "destroy"}
    /\ IF r \in Declared THEN config[r].prevent ELSE state[r].prevent

Nothing == [r \in {} |-> {}]
NoPlan == [node |-> Nothing, action |-> Nothing, prior |-> Nothing,
           reclassified |-> {}]

\* Mutant: nothing asks for the prewrite.
planHostNoPrewrite ==
    [node    |-> [r \in Declared |-> config[r]],
     action  |-> [r \in Planned |-> Action(r)],
     prior   |-> [r \in Tracked(state) |-> IF r \in Declared THEN Prior(r) ELSE state[r]],
     reclassified |-> {}]

\* The plan keeps the declarations it was made from, the actions and the state
\* it read, with the records of reclassified resources already scrubbed.
planHost ==
    [node    |-> [r \in Declared |-> config[r]],
     action  |-> [r \in Planned |-> Action(r)],
     prior   |-> [r \in Tracked(state) |-> IF r \in Declared THEN Prior(r) ELSE state[r]],
     reclassified |-> {r \in Declared : Reclassified(r)}]

----------------------------------------------------------------------------
(* The state in memory *)

Remove(s, r) == [x \in Tracked(s) \ {r} |-> s[x]]

removeStateDependencyReferences(s, r) ==
    [x \in Tracked(s) |-> [s[x] EXCEPT !.depends = @ \ {r}]]

\* A declaration can only name resources that are declared.
ExplicitDependsOn(r, p) == DependsOn[r] \cap DOMAIN p.node

\* Every resource of the configuration tracks the authored dependencies that
\* are tracked themselves.
reconcileStateDependencies(s, p) ==
    [x \in Tracked(s) |->
        IF x \in DOMAIN p.node
        THEN [s[x] EXCEPT !.depends = ExplicitDependsOn(x, p) \cap Tracked(s)]
        ELSE s[x]]

resourceForStep(r) ==
    LET d == plan.node[r]
    IN  [digest |-> Digest(d), behavior |-> d.behavior, prevent |-> d.prevent,
         protected |-> d.protected, depends |-> ExplicitDependsOn(r, plan)]

Put(s, r, record) == [x \in Tracked(s) \cup {r} |-> IF x = r THEN record ELSE s[x]]

Forgotten(r) == removeStateDependencyReferences(Remove(work, r), r)

----------------------------------------------------------------------------
(* Executing *)

Init ==
    /\ config \in [Resources -> Declarations \cup {Undeclared}]
    /\ \A r \in Resources : config[r] \in Choices[r]
    /\ remote \in [Resources -> Contents]
    /\ shown = {}
    /\ \A r \in Operations : remote[r] = Absent
    /\ state = Nothing
    /\ loaded = [o \in Operations |-> [t \in TriggeredBy[o] |-> remote[t]]]
    /\ phase = "idle"
    /\ plan = NoPlan
    /\ work = Nothing
    /\ pending = {}
    /\ outcome = "none"
    /\ edits = 0 /\ drifts = 0 /\ failures = 0

\* The plan is made, reviewed and executed under one lease; executeHost starts
\* from the plan's prior state and reconciles its dependencies.
Plan ==
    /\ phase = "idle"
    /\ \A r \in Planned : ~Blocked(r)
    /\ plan' = planHost
    /\ work' = reconcileStateDependencies(planHost.prior, planHost)
    /\ pending' = Planned
    /\ phase' = IF planHost.reclassified # {} THEN "prewrite" ELSE "running"
    /\ outcome' = "applying"
    /\ UNCHANGED <<config, remote, shown, state, loaded, edits, drifts, failures>>

\* prevent_destroy: the apply ends with an error and nothing happens.
PlanRefused ==
    /\ phase = "idle"
    /\ \E r \in Planned : Blocked(r)
    /\ UNCHANGED vars

\* What is still under a plain name and is to be moved before the prewrite.
Unmigrated == plan.reclassified \cap shown

\* A provider call on the host, before anything else.
MigrateProtectedPrior(r) ==
    /\ phase = "prewrite"
    /\ r \in Unmigrated
    /\ shown' = shown \ {r}
    /\ UNCHANGED <<config, remote, state, loaded, phase, plan, work, pending, outcome,
                   edits, drifts, failures>>

\* Mutant: the state is written before the provider is called.
WritableAtOnce == phase = "prewrite"

Writable == phase = "prewrite" /\ Unmigrated = {}

\* A reclassified resource's record is scrubbed before the first step.
StatePrewrite ==
    /\ Writable
    /\ state' = work
    /\ phase' = "running"
    /\ UNCHANGED <<config, remote, shown, loaded, plan, work, pending, outcome,
                   edits, drifts, failures>>

\* An authored dependency runs first, unless it is removed or its dependent is
\* an orphan: then the dependent does.
Authored(r) == IF r \in DOMAIN plan.node THEN ExplicitDependsOn(r, plan)
               ELSE plan.prior[r].depends \cap DOMAIN plan.action

Inversely(r, d) == r \notin DOMAIN plan.node \/ plan.action[d] \in {"delete", "destroy"}

AuthoredBefore(a, b) == \/ b \in Authored(a) /\ Inversely(a, b)
                        \/ a \in Authored(b) /\ ~Inversely(b, a)

Inferred(r) == IF r \in DOMAIN plan.node THEN InferredOn[r] \cap DOMAIN plan.node ELSE {}

\* There may be a path from a to b when the inferred edges into b are added:
\* every set of steps that has a and goes on along the edges has b.
Leads(a, b) ==
    \A X \in SUBSET DOMAIN plan.action :
        /\ a \in X
        /\ \A x \in X, y \in DOMAIN plan.action : AuthoredBefore(x, y) \/ x \in Inferred(y) => y \in X
        => b \in X

\* What StepOrder promises of the order: the authored one, and the inferred one
\* where no path leads the other way, because something is torn down.
Earlier(r) == {d \in DOMAIN plan.action : AuthoredBefore(d, r)}
              \cup {d \in Inferred(r) : ~Leads(r, d)}

Due(r) == r \in pending /\ Earlier(r) \cap pending = {}

\* What the provider does to the host for one step.
Operate(r) ==
    IF plan.action[r] \in {"delete", "destroy"}
    THEN /\ remote' = [remote EXCEPT ![r] = Absent]
         /\ shown' = shown \ {r}
         /\ UNCHANGED loaded
    ELSE IF r \in Operations
         THEN /\ loaded' = [loaded EXCEPT ![r] = [t \in TriggeredBy[r] |-> remote[t]]]
              /\ UNCHANGED <<remote, shown>>
         ELSE /\ remote' = [remote EXCEPT ![r] = plan.node[r].want]
              /\ shown' = IF r \in Migrating /\ ~plan.node[r].protected
                          THEN shown \cup {r} ELSE shown \ {r}
              /\ UNCHANGED loaded

\* Mutant: an adopted resource is not recorded.
RecordedNoAdopt(r) ==
    CASE plan.action[r] \in {"no-op", "adopt"} -> work
      [] plan.action[r] \in {"forget", "delete", "destroy"} -> Forgotten(r)
      [] plan.action[r] \in {"create", "update"} -> Put(work, r, resourceForStep(r))

\* What the step leaves in memory.
Recorded(r) ==
    CASE plan.action[r] = "no-op" -> work
      [] plan.action[r] \in {"forget", "delete", "destroy"} -> Forgotten(r)
      [] plan.action[r] \in {"adopt", "create", "update"} -> Put(work, r, resourceForStep(r))

Step(r) ==
    /\ phase = "running"
    /\ Due(r)
    /\ IF plan.action[r] \in Changes THEN Operate(r) ELSE UNCHANGED <<remote, shown, loaded>>
    /\ work' = Recorded(r)
    /\ pending' = pending \ {r}
    /\ UNCHANGED <<config, state, phase, plan, outcome, edits, drifts, failures>>

\* The attempt is over: what was in memory is gone.
GiveUp ==
    /\ phase' = "idle"
    /\ plan' = NoPlan
    /\ work' = Nothing
    /\ pending' = {}

\* The provider fails, before or after it changed the host.
StepFails(r) ==
    /\ phase = "running"
    /\ failures < MaxFailures
    /\ Due(r)
    /\ plan.action[r] \in Changes
    /\ Operate(r) \/ UNCHANGED <<remote, shown, loaded>>
    /\ failures' = failures + 1
    /\ outcome' = "none"
    /\ GiveUp
    /\ UNCHANGED <<config, state, edits, drifts>>

\* The migration fails, before or after it moved the object.
MigrationFails(r) ==
    /\ phase = "prewrite"
    /\ failures < MaxFailures
    /\ r \in Unmigrated
    /\ shown' \in {shown, shown \ {r}}
    /\ failures' = failures + 1
    /\ outcome' = "none"
    /\ GiveUp
    /\ UNCHANGED <<config, remote, state, loaded, edits, drifts>>

\* Mutant: the final state is not reconciled.
FinalUnreconciled == work

Final == reconcileStateDependencies(work, plan)

Finish ==
    /\ phase = "running"
    /\ pending = {}
    /\ state' = Final
    /\ outcome' = IF outcome = "applying" THEN "applied" ELSE "none"
    /\ GiveUp
    /\ UNCHANGED <<config, remote, shown, loaded, edits, drifts, failures>>

\* A state write whose answer is lost: the file was replaced, or it was not.
WriteFails ==
    /\ failures < MaxFailures
    /\ \/ Writable /\ state' \in {state, work}
       \/ phase = "running" /\ pending = {} /\ state' \in {state, Final}
    /\ failures' = failures + 1
    /\ outcome' = "none"
    /\ GiveUp
    /\ UNCHANGED <<config, remote, shown, loaded, edits, drifts>>

\* The client dies, or the lease's context is cancelled between two steps.
Crash ==
    /\ phase # "idle"
    /\ failures < MaxFailures
    /\ failures' = failures + 1
    /\ outcome' = "none"
    /\ GiveUp
    /\ UNCHANGED <<config, remote, shown, state, loaded, edits, drifts>>

----------------------------------------------------------------------------
(* The surroundings *)

Edit(r, d) ==
    /\ edits < MaxEdits
    /\ d \in Choices[r] \ {config[r]}
    /\ config' = [config EXCEPT ![r] = d]
    /\ edits' = edits + 1
    /\ outcome' = "none"
    /\ UNCHANGED <<remote, shown, state, loaded, phase, plan, work, pending, drifts, failures>>

Drift(r, c) ==
    /\ drifts < MaxDrifts
    /\ r \notin Operations
    /\ c # remote[r]
    /\ remote' = [remote EXCEPT ![r] = c]
    /\ drifts' = drifts + 1
    /\ outcome' = "none"
    /\ UNCHANGED <<config, shown, state, loaded, phase, plan, work, pending, edits, failures>>

Next == \/ Plan
        \/ PlanRefused
        \/ \E r \in Resources : MigrateProtectedPrior(r)
        \/ \E r \in Resources : MigrationFails(r)
        \/ StatePrewrite
        \/ \E r \in Resources : Step(r)
        \/ \E r \in Resources : StepFails(r)
        \/ Finish
        \/ WriteFails
        \/ Crash
        \/ \E r \in Resources : \E d \in Choices[r] : Edit(r, d)
        \/ \E r \in Resources, c \in Contents : Drift(r, c)

Spec == Init /\ [][Next]_vars

----------------------------------------------------------------------------
(* Properties *)

\* Whatever failed or died before: after a successful apply that nothing else
\* disturbed, the next plan has nothing to do, so that "apply again until the
\* plan is empty" ends (planNode's table against what executeHost wrote).
RepeatIsNoOp == outcome = "applied" => \A r \in Planned : Action(r) = "no-op"

\* The state file never names a dependency that it does not track: not after a
\* removal, not after a prewrite, not after an apply of several removals
\* (docs/state-backend.md:34-36, "only while both addresses remain represented").
DependenciesTracked ==
    \A r \in Tracked(state) : state[r].depends \subseteq Tracked(state)

\* No step of the plan runs while the state file still holds the plain record
\* of a resource that the plan treats as sensitive (the prewrite of
\* executeHost); only the migrations of the prewrite itself do.
PlainRecordsScrubbed ==
    phase = "running" =>
        \A r \in Tracked(state) \cap DOMAIN plan.node :
            plan.node[r].protected => state[r].protected

\* A record is scrubbed only once nothing is left under the plain name that it
\* alone points to, wherever earlier attempts failed or died: no object whose
\* name shows the value is lost sight of (engine.go:737-762).
ScrubbedAfterMigration ==
    [][\A r \in Migrating \cap Tracked(state) \cap Tracked(state') :
          ~state[r].protected /\ state'[r].protected => r \notin shown]_vars

\* An apply that changed a trigger and succeeded has run what it triggers,
\* after the change (changedRemoteTriggers and the order of the steps), unless
\* something torn down puts the operation first: a service that names the file
\* which is removed is operated before the removal (docs/openrc.md:134-136).
OperationFollowsChange ==
    [][outcome = "applying" /\ outcome' = "applied" =>
          \A o \in Operations \cap DOMAIN plan.node :
              \A t \in TriggeredBy[o] \cap DOMAIN plan.node :
                  plan.action[t] \in Changes /\ ~Leads(o, t) => loaded[o][t] = remote[t]]_vars

============================================================================
