--------------------------- MODULE HostApply_proofs ---------------------------
(* Proofs about HostApply for any resources, dependencies, triggers, edits,   *)
(* drifts and failures: what a successful apply leaves is a fixed point, the  *)
(* state file stays consistent and holds no plain record where it must not,   *)
(* and operations follow the changes that trigger them.                       *)
EXTENDS HostApply, TLAPS

-----------------------------------------------------------------------------
(* The inductive invariant.                                                   *)

Digests == {Digest(d) : d \in Declarations} \cup {NoDigest}
Records == [digest : Digests, behavior : {"forget", "destroy"}, prevent : BOOLEAN,
            protected : BOOLEAN, depends : SUBSET Resources]
IsStore(s) == /\ Tracked(s) \subseteq Resources
              /\ \A r \in Tracked(s) : s[r] \in Records

TypeOK ==
  /\ config \in [Resources -> Declarations \cup {Undeclared}]
  /\ remote \in [Resources -> Contents]
  /\ shown \subseteq Migrating
  /\ IsStore(state)
  /\ DOMAIN loaded = Operations
  /\ phase \in {"idle", "prewrite", "running"}
  /\ outcome \in {"none", "applying", "applied"}

\* What a plan has, and what is done of it.
PlanInv == phase # "idle" =>
  /\ DOMAIN plan.node \subseteq Resources
  /\ \A r \in DOMAIN plan.node : plan.node[r] \in Declarations
  /\ DOMAIN plan.node \subseteq DOMAIN plan.action /\ DOMAIN plan.action \subseteq Resources
  /\ \A r \in DOMAIN plan.node :
       /\ plan.action[r] \in {"no-op", "adopt", "create", "update", "delete"}
       /\ plan.action[r] = "delete" => plan.node[r].want = Absent /\ r \notin Operations
       /\ \A t \in TriggeredBy[r] \cap DOMAIN plan.node :
            plan.action[t] \in Changes => plan.action[r] \in Changes
  /\ \A r \in DOMAIN plan.action \ DOMAIN plan.node : plan.action[r] \in {"forget", "destroy"}
  /\ pending \subseteq DOMAIN plan.action
  /\ IsStore(work) /\ Tracked(work) \subseteq DOMAIN plan.action
  /\ outcome # "applied"

\* No record of a store names what the store does not track.
Complete(s, R) == \A r \in Tracked(s) \cap R : s[r].depends \subseteq Tracked(s)

\* A record in memory may name what is still to be recorded; one of a resource
\* that is not declared any more may not.
DependsInv ==
  /\ DependenciesTracked
  /\ phase = "prewrite" => Complete(work, Resources)
  /\ phase # "idle" => Complete(work, Resources \ DOMAIN plan.node)

\* What is sensitive in the plan is not plain in the store; and a record is only
\* plain in the store and scrubbed in memory while the prewrite is to come.
Scrubbed(s) == \A r \in Tracked(s) \cap DOMAIN plan.node : plan.node[r].protected => s[r].protected
Scrubbing(r) == /\ r \in Tracked(work) \cap Tracked(state)
                /\ work[r].protected /\ ~state[r].protected
ScrubInv == /\ phase = "prewrite" => /\ Scrubbed(work)
                                     /\ \A r : Scrubbing(r) => r \in plan.reclassified
            /\ phase = "running" => /\ Scrubbed(state)
                                    /\ \A r : ~Scrubbing(r)

\* An undisturbed apply: what ran after the change of a trigger has seen it.
FollowInv == phase # "idle" /\ outcome = "applying" =>
  \A o \in (Operations \cap DOMAIN plan.node) \ pending :
    \A t \in TriggeredBy[o] \cap DOMAIN plan.node :
      plan.action[t] \in Changes /\ ~Leads(o, t) => t \notin pending /\ loaded[o][t] = remote[t]

\* A resource is on the host, and in the store, as it is declared.
AsDeclared(s, r) ==
  /\ Observed(r, config[r]) = config[r].want
  /\ config[r].want # Absent => r \in Tracked(s)
  /\ r \in Tracked(s) => /\ s[r].digest = Digest(config[r])
                         /\ config[r].protected => s[r].protected
                         /\ r \in Migrating /\ config[r].want # Absent =>
                              s[r].protected = config[r].protected

Settled(s) == Tracked(s) \subseteq Declared /\ \A r \in Declared : AsDeclared(s, r)

\* An undisturbed apply: steps that are done, or have nothing to do, leave their
\* resource as it is declared, and what is not declared is still to be removed.
ApplyInv ==
  /\ phase # "idle" /\ outcome = "applying" =>
       /\ DOMAIN plan.node = Declared
       /\ \A r \in Declared :
            /\ plan.node[r] = config[r]
            /\ r \notin pending \/ plan.action[r] = "no-op" => AsDeclared(work, r)
            /\ plan.action[r] = "adopt" => Observed(r, config[r]) = config[r].want
       /\ Tracked(work) \ Declared \subseteq pending
  /\ outcome = "applied" => Settled(state)

HostInv == TypeOK /\ PlanInv /\ DependsInv /\ ScrubInv /\ FollowInv /\ ApplyInv

-----------------------------------------------------------------------------
(* Plans.                                                                     *)

\* A digest is not that of nothing, and nothing declared is undeclared.
LEMMA DigestFacts ==
  ASSUME NEW d \in Declarations
  PROVE  Digest(d) # NoDigest /\ Digest(d) \in Digests
BY DEF Digest, NoDigest, Declarations, Digests

LEMMA DeclaredType ==
  ASSUME TypeOK, NEW r \in Declared
  PROVE  r \in Resources /\ config[r] \in Declarations /\ config[r].want \in Contents
BY DEF TypeOK, Declared, Declarations

\* The changing resources are those with a change of their own, and those with a
\* trigger that changes.
LEMMA Reaching ==
  ASSUME NEW r \in Declared
  PROVE  r \in Changing <=> planNode(r) \in Changes \/ TriggeredBy[r] \cap Changing # {}
<1>1. Closed(Changing)
  <2> SUFFICES ASSUME NEW x \in Declared, planNode(x) \in Changes \/ TriggeredBy[x] \cap Changing # {},
                      NEW X \in SUBSET Declared, Closed(X)
               PROVE  x \in X
    BY DEF Closed, Changing
  <2>1. Changing \subseteq X
    BY DEF Changing
  <2> QED  BY <2>1 DEF Closed
<1> DEFINE Y == {x \in Changing : planNode(x) \in Changes \/ TriggeredBy[x] \cap Changing # {}}
<1>2. Closed(Y)
  <2> SUFFICES ASSUME NEW x \in Declared, planNode(x) \in Changes \/ TriggeredBy[x] \cap Y # {}
               PROVE  x \in Y
    BY DEF Closed
  <2>1. planNode(x) \in Changes \/ TriggeredBy[x] \cap Changing # {}
    OBVIOUS
  <2>2. x \in Changing
    BY <1>1, <2>1 DEF Closed
  <2> QED  BY <2>1, <2>2
<1>3. Y \in SUBSET Declared
  BY DEF Changing
<1>4. r \in Changing => r \in Y
  <2> SUFFICES ASSUME r \in Changing PROVE r \in Y
    OBVIOUS
  <2>1. \A X \in SUBSET Declared : Closed(X) => r \in X
    BY DEF Changing
  <2> HIDE DEF Y
  <2> QED  BY <1>2, <1>3, <2>1
<1> QED  BY <1>1, <1>4 DEF Closed

\* What planNode decides, and what it found.
LEMMA PlanNodeCases ==
  ASSUME TypeOK, NEW r \in Declared
  PROVE  /\ planNode(r) \in {"no-op", "adopt", "create", "update", "delete"}
         /\ planNode(r) = "delete" => config[r].want = Absent /\ r \notin Operations
         /\ planNode(r) \in {"no-op", "adopt"} => Observed(r, config[r]) = config[r].want
         /\ planNode(r) = "no-op" =>
              /\ config[r].want # Absent => r \in Tracked(state)
              /\ r \in Tracked(state) => Prior(r).digest = Digest(config[r])
              /\ config[r].want # Absent => ~componentPriorIdentityCleanupPending(r)
BY DeclaredType DEF planNode, Exists, Observed

\* A declared resource with nothing to do looks as declared in the store.
LEMMA SettledIsNoOp ==
  ASSUME TypeOK, Settled(state)
  PROVE  RepeatIsNoOp
<1>1. ASSUME NEW r \in Declared PROVE planNode(r) = "no-op"
  <2>1. AsDeclared(state, r)
    BY DEF Settled
  <2>2. r \in Tracked(state) => Prior(r).digest = Digest(config[r])
    BY <2>1 DEF AsDeclared, Prior, Reclassified
  <2>3. config[r].want # Absent => ~componentPriorIdentityCleanupPending(r)
    BY <2>1 DEF AsDeclared, componentPriorIdentityCleanupPending
  <2> QED  BY <2>1, <2>2, <2>3 DEF AsDeclared, planNode, Exists
<1>2. Closed({})
  BY <1>1 DEF Closed, Changes
<1>3. Changing = {}
  BY <1>2 DEF Changing
<1>4. ASSUME NEW r \in Planned PROVE Action(r) = "no-op"
  <2>1. r \in Declared
    BY DEF Planned, Settled
  <2> QED  BY <1>1, <1>3, <2>1 DEF Action, NodeAction, changedRemoteTriggers
<1> QED  BY <1>4 DEF RepeatIsNoOp

\* The action of a declared resource.
LEMMA NodeActionCases ==
  ASSUME TypeOK, NEW r \in Declared
  PROVE  /\ NodeAction(r) \in {"no-op", "adopt", "create", "update", "delete"}
         /\ NodeAction(r) \in {"no-op", "adopt", "delete"} => NodeAction(r) = planNode(r)
         /\ NodeAction(r) \in Changes <=> r \in Changing
<1>1. planNode(r) \in {"no-op", "adopt", "create", "update", "delete"}
  BY PlanNodeCases
<1>2. r \in Changing <=> planNode(r) \in Changes \/ changedRemoteTriggers(r) # {}
  BY Reaching DEF changedRemoteTriggers
<1>3. CASE planNode(r) \in {"no-op", "adopt"} /\ changedRemoteTriggers(r) # {}
  BY <1>2, <1>3 DEF NodeAction, Changes
<1>4. CASE ~ (planNode(r) \in {"no-op", "adopt"} /\ changedRemoteTriggers(r) # {})
  BY <1>1, <1>2, <1>4 DEF NodeAction, Changes
<1> QED  BY <1>3, <1>4

-----------------------------------------------------------------------------
(* Stores.                                                                    *)

\* Removing a resource removes it from the dependencies of the others.
LEMMA ForgottenRecords ==
  ASSUME NEW r
  PROVE  /\ Tracked(Forgotten(r)) = Tracked(work) \ {r}
         /\ \A x \in Tracked(work) \ {r} :
              Forgotten(r)[x] = [work[x] EXCEPT !.depends = @ \ {r}]
BY DEF Forgotten, removeStateDependencyReferences, Remove, Tracked

\* Reconciling changes dependencies only.
LEMMA ReconciledRecords ==
  ASSUME NEW s, IsStore(s), NEW p
  PROVE  /\ Tracked(reconcileStateDependencies(s, p)) = Tracked(s)
         /\ IsStore(reconcileStateDependencies(s, p))
         /\ \A x \in Tracked(s) :
              /\ reconcileStateDependencies(s, p)[x].digest = s[x].digest
              /\ reconcileStateDependencies(s, p)[x].protected = s[x].protected
              /\ x \in DOMAIN p.node =>
                   reconcileStateDependencies(s, p)[x].depends \subseteq Tracked(s)
              /\ x \notin DOMAIN p.node => reconcileStateDependencies(s, p)[x] = s[x]
<1> DEFINE t == reconcileStateDependencies(s, p)
<1>1. Tracked(t) = Tracked(s)
  BY DEF reconcileStateDependencies, Tracked
<1>2. ASSUME NEW x \in Tracked(s)
      PROVE  /\ t[x] \in Records /\ t[x].digest = s[x].digest /\ t[x].protected = s[x].protected
             /\ x \in DOMAIN p.node => t[x].depends \subseteq Tracked(s)
             /\ x \notin DOMAIN p.node => t[x] = s[x]
  <2>1. s[x] \in Records /\ Tracked(s) \subseteq Resources
    BY DEF IsStore
  <2>2. CASE x \in DOMAIN p.node
    <3> DEFINE D == ExplicitDependsOn(x, p) \cap Tracked(s)
    <3>1. t[x] = [s[x] EXCEPT !.depends = D]
      BY <2>2 DEF reconcileStateDependencies
    <3>2. D \subseteq Tracked(s) /\ D \subseteq Resources
      BY <2>1
    <3> HIDE DEF D, t
    <3>3. [s[x] EXCEPT !.depends = D] \in Records
      BY <2>1, <3>2 DEF Records
    <3>4. /\ [s[x] EXCEPT !.depends = D].digest = s[x].digest
          /\ [s[x] EXCEPT !.depends = D].protected = s[x].protected
          /\ [s[x] EXCEPT !.depends = D].depends = D
      BY <2>1 DEF Records
    <3> QED  BY <2>2, <3>1, <3>2, <3>3, <3>4
  <2>3. CASE x \notin DOMAIN p.node
    BY <2>1, <2>3 DEF reconcileStateDependencies
  <2> QED  BY <2>2, <2>3
<1> HIDE DEF t
<1>3. IsStore(t)
  BY <1>1, <1>2 DEF IsStore
<1> QED  BY <1>1, <1>2, <1>3 DEF t

-----------------------------------------------------------------------------
(* Making a plan.                                                             *)

\* The store that a plan starts from.
LEMMA PriorStore ==
  ASSUME TypeOK
  PROVE  /\ Tracked(planHost.prior) = Tracked(state)
         /\ IsStore(planHost.prior)
         /\ \A r \in Tracked(state) :
              /\ planHost.prior[r].depends = state[r].depends
              /\ r \notin Declared => planHost.prior[r] = state[r]
              /\ r \in Declared => /\ planHost.prior[r] = Prior(r)
                                   /\ config[r].protected => Prior(r).protected
<1> DEFINE p == [r \in Tracked(state) |-> IF r \in Declared THEN Prior(r) ELSE state[r]]
<1>1. planHost.prior = p
  BY DEF planHost
<1>2. ASSUME NEW r \in Tracked(state)
      PROVE  /\ Prior(r) \in Records /\ Prior(r).depends = state[r].depends
             /\ r \in Declared /\ config[r].protected => Prior(r).protected
  <2>1. state[r] \in Records
    BY DEF TypeOK, IsStore
  <2>2. CASE Reclassified(r)
    <3>1. Prior(r) = [state[r] EXCEPT !.digest = NoDigest, !.protected = TRUE]
      BY <2>2 DEF Prior
    <3> QED  BY <2>1, <3>1 DEF Records, Digests
  <2>3. CASE ~ Reclassified(r)
    BY <2>1, <2>3 DEF Prior, Reclassified
  <2> QED  BY <2>2, <2>3
<1>3. Tracked(state) \subseteq Resources /\ \A r \in Tracked(state) : state[r] \in Records
  BY DEF TypeOK, IsStore
<1>4. Tracked(p) = Tracked(state)
  BY DEF Tracked
<1>5. \A r \in Tracked(state) : p[r] = IF r \in Declared THEN Prior(r) ELSE state[r]
  OBVIOUS
<1> HIDE DEF p
<1>6. IsStore(p)
  BY <1>2, <1>3, <1>4, <1>5 DEF IsStore
<1> QED  BY <1>1, <1>2, <1>4, <1>5, <1>6

\* What is there when a plan has been made.
LEMMA PlanEffect ==
  ASSUME TypeOK, Plan
  PROVE  /\ DOMAIN plan'.node = Declared /\ \A r \in Declared : plan'.node[r] = config[r]
         /\ DOMAIN plan'.action = Planned /\ \A r \in Planned : plan'.action[r] = Action(r)
         /\ plan'.reclassified = {r \in Declared : Reclassified(r)}
         /\ Tracked(work') = Tracked(state) /\ IsStore(work')
         /\ \A r \in Tracked(state) :
              /\ r \in Declared => work'[r].depends \subseteq Tracked(state)
              /\ r \notin Declared => work'[r] = state[r]
              /\ r \in Declared => /\ work'[r].digest = Prior(r).digest
                                   /\ work'[r].protected = Prior(r).protected
                                   /\ config[r].protected => Prior(r).protected
<1>1. plan' = planHost /\ work' = reconcileStateDependencies(planHost.prior, planHost)
  BY DEF Plan
<1>2. /\ planHost.node = [r \in Declared |-> config[r]]
      /\ planHost.action = [r \in Planned |-> Action(r)]
      /\ planHost.reclassified = {r \in Declared : Reclassified(r)}
  BY DEF planHost
<1> DEFINE P == planHost.prior
<1>3. /\ Tracked(P) = Tracked(state) /\ IsStore(P)
      /\ \A r \in Tracked(state) :
           /\ r \notin Declared => P[r] = state[r]
           /\ r \in Declared => /\ P[r] = Prior(r)
                                /\ config[r].protected => Prior(r).protected
  BY PriorStore
<1> HIDE DEF P
<1>4. /\ Tracked(reconcileStateDependencies(P, planHost)) = Tracked(P)
      /\ IsStore(reconcileStateDependencies(P, planHost))
      /\ \A x \in Tracked(P) :
           /\ reconcileStateDependencies(P, planHost)[x].digest = P[x].digest
           /\ reconcileStateDependencies(P, planHost)[x].protected = P[x].protected
           /\ x \in DOMAIN planHost.node =>
                reconcileStateDependencies(P, planHost)[x].depends \subseteq Tracked(P)
           /\ x \notin DOMAIN planHost.node => reconcileStateDependencies(P, planHost)[x] = P[x]
  BY <1>3, ReconciledRecords
<1>5. work' = reconcileStateDependencies(P, planHost)
  BY <1>1 DEF P
<1>6. DOMAIN planHost.node = Declared
  BY <1>2
<1> QED  BY <1>1, <1>2, <1>3, <1>4, <1>5, <1>6

\* A plan is what PlanInv and ApplyInv say, and what the store needs is in memory.
LEMMA PlanStep ==
  ASSUME HostInv, Plan
  PROVE  HostInv'
<1>1. /\ TypeOK /\ DependsInv /\ phase = "idle" /\ pending' = Planned
      /\ phase' = (IF planHost.reclassified # {} THEN "prewrite" ELSE "running")
      /\ plan' = planHost /\ outcome' = "applying"
      /\ UNCHANGED <<config, remote, shown, state, loaded>>
  BY DEF HostInv, Plan
<1>2. /\ DOMAIN plan'.node = Declared /\ \A r \in Declared : plan'.node[r] = config[r]
      /\ DOMAIN plan'.action = Planned /\ \A r \in Planned : plan'.action[r] = Action(r)
      /\ plan'.reclassified = {r \in Declared : Reclassified(r)}
  BY <1>1, PlanEffect
<1>3. /\ Tracked(work') = Tracked(state) /\ IsStore(work')
      /\ \A r \in Tracked(state) :
           /\ r \in Declared => work'[r].depends \subseteq Tracked(state)
           /\ r \notin Declared => work'[r] = state[r]
           /\ r \in Declared => /\ work'[r].digest = Prior(r).digest
                                /\ work'[r].protected = Prior(r).protected
                                /\ config[r].protected => Prior(r).protected
  BY <1>1, PlanEffect
<1>4. Declared \subseteq Planned /\ Planned \subseteq Resources /\ Tracked(state) \subseteq Planned
  BY <1>1 DEF Planned, Declared, TypeOK, IsStore
<1>5. ASSUME NEW r \in Declared
      PROVE  /\ plan'.action[r] = NodeAction(r)
             /\ plan'.action[r] \in {"no-op", "adopt", "create", "update", "delete"}
             /\ plan'.action[r] \in {"no-op", "adopt", "delete"} => plan'.action[r] = planNode(r)
             /\ plan'.action[r] \in Changes <=> r \in Changing
  BY <1>1, <1>2, <1>4, NodeActionCases DEF Action
<1>6. ASSUME NEW r \in Planned \ Declared
      PROVE  plan'.action[r] \in {"forget", "destroy"}
  BY <1>2, <1>6 DEF Action, OrphanAction
<1>7. TypeOK'
  BY <1>1 DEF TypeOK
<1>8. PlanInv'
  <2>1. ASSUME NEW r \in Declared
        PROVE  /\ plan'.node[r] \in Declarations
               /\ plan'.action[r] = "delete" => plan'.node[r].want = Absent /\ r \notin Operations
    BY <1>1, <1>2, <1>5, PlanNodeCases, DeclaredType
  <2>2. ASSUME NEW r \in Declared, NEW t \in TriggeredBy[r] \cap Declared,
               plan'.action[t] \in Changes
        PROVE  plan'.action[r] \in Changes
    BY <1>5, <2>2, Reaching
  <2>3. outcome' # "applied" /\ pending' = Planned
    BY <1>1
  <2> QED  BY <1>2, <1>3, <1>4, <1>5, <1>6, <2>1, <2>2, <2>3 DEF PlanInv, Changes
<1>9. DependsInv'
  <2>1. \A r \in Tracked(state) : state[r].depends \subseteq Tracked(state)
    BY <1>1 DEF DependsInv, DependenciesTracked
  <2>2. \A r \in Tracked(work') : work'[r].depends \subseteq Tracked(work')
    BY <1>3, <2>1
  <2> QED  BY <1>1, <2>1, <2>2 DEF DependsInv, DependenciesTracked, Complete
<1>10. ScrubInv'
  <2>1. Scrubbed(work)'
    BY <1>2, <1>3 DEF Scrubbed
  <2>2. phase' = "running" => Scrubbed(state)'
    <3> SUFFICES ASSUME phase' = "running", NEW r \in Tracked(state) \cap Declared, config[r].protected
                 PROVE  state[r].protected
      BY <1>1, <1>2 DEF Scrubbed
    <3>1. ~ Reclassified(r)
      BY <1>1, <1>2
    <3> QED  BY <3>1 DEF Reclassified
  <2>3. ASSUME NEW r, Scrubbing(r)' PROVE phase' = "prewrite" /\ r \in plan'.reclassified
    <3>1. r \in Tracked(state) /\ work'[r].protected /\ ~state[r].protected
      BY <1>1, <2>3 DEF Scrubbing
    <3>2. r \in Declared /\ Prior(r).protected
      BY <1>3, <3>1
    <3>3. Reclassified(r)
      BY <3>1, <3>2 DEF Prior
    <3> QED  BY <1>1, <1>2, <3>2, <3>3
  <2>4. phase' \in {"prewrite", "running"}
    BY <1>1
  <2> QED  BY <2>1, <2>2, <2>3, <2>4 DEF ScrubInv
<1>11. FollowInv'
  BY <1>1, <1>2, <1>4 DEF FollowInv
<1>12. ApplyInv'
  <2>1. Declared' = Declared /\ \A r : Observed(r, config[r])' = Observed(r, config[r])
    BY <1>1 DEF Declared, Observed
  <2>2. ASSUME NEW r \in Declared, plan'.action[r] = "no-op"
        PROVE  AsDeclared(work, r)'
    <3>1. planNode(r) = "no-op"
      BY <1>5, <2>2
    <3>2. /\ Observed(r, config[r]) = config[r].want
          /\ config[r].want # Absent => r \in Tracked(state)
          /\ r \in Tracked(state) => Prior(r).digest = Digest(config[r])
          /\ config[r].want # Absent => ~componentPriorIdentityCleanupPending(r)
      BY <1>1, <3>1, PlanNodeCases
    <3>3. ASSUME r \in Tracked(state) /\ r \in Migrating /\ config[r].want # Absent
          PROVE  Prior(r).protected = config[r].protected
      <4>1. ~ Reclassified(r)
        BY <1>1, <3>2, <3>3, DigestFacts, DeclaredType DEF Prior, Reclassified, TypeOK, IsStore, Records
      <4> QED  BY <3>2, <3>3, <4>1 DEF Prior, componentPriorIdentityCleanupPending
    <3> QED  BY <1>1, <1>3, <2>1, <3>2, <3>3 DEF AsDeclared
  <2>3. ASSUME NEW r \in Declared, plan'.action[r] = "adopt"
        PROVE  Observed(r, config[r]) = config[r].want
    BY <1>1, <1>5, <2>3, PlanNodeCases
  <2>4. Tracked(work') \ Declared \subseteq pending'
    BY <1>1, <1>3, <1>4
  <2> QED  BY <1>1, <1>2, <1>4, <2>1, <2>2, <2>3, <2>4 DEF ApplyInv
<1> QED  BY <1>7, <1>8, <1>9, <1>10, <1>11, <1>12 DEF HostInv

-----------------------------------------------------------------------------
(* Executing a plan.                                                          *)

\* A step comes after the triggers of its resource that it does not lead to.
LEMMA DueFollows ==
  ASSUME NEW r \in DOMAIN plan.node \cap Resources, Due(r),
         NEW t \in TriggeredBy[r] \cap DOMAIN plan.node, ~Leads(r, t)
  PROVE  r \in pending /\ t \notin pending
<1>1. t \in Inferred(r)
  BY HostAssumption DEF Inferred
<1>2. t \in Earlier(r)
  BY <1>1 DEF Earlier
<1> QED  BY <1>2 DEF Due

\* What a step does to the host.
LEMMA OperateEffect ==
  ASSUME TypeOK, PlanInv, phase = "running", NEW r \in pending,
         IF plan.action[r] \in Changes THEN Operate(r) ELSE UNCHANGED <<remote, shown, loaded>>
  PROVE  /\ remote' \in [Resources -> Contents] /\ DOMAIN loaded' = Operations
         /\ shown' \subseteq Migrating
         /\ \A x \in Resources : x # r => remote'[x] = remote[x]
         /\ \A o \in Operations : o # r => loaded'[o] = loaded[o]
         /\ plan.action[r] \notin Changes => remote' = remote
         /\ r \in DOMAIN plan.node /\ plan.action[r] \in Changes \ {"delete"} =>
              IF r \in Operations
              THEN remote' = remote /\ loaded'[r] = [t \in TriggeredBy[r] |-> remote[t]]
              ELSE remote'[r] = plan.node[r].want
         /\ r \in DOMAIN plan.node /\ plan.action[r] = "delete" => remote'[r] = Absent
<1>1. /\ r \in Resources /\ remote \in [Resources -> Contents] /\ DOMAIN loaded = Operations
      /\ shown \subseteq Migrating
  BY DEF PlanInv, TypeOK
<1>2. Absent \in Contents /\ \A d \in Declarations : d.want \in Contents
  BY DEF Contents, Declarations
<1>3. CASE plan.action[r] \notin Changes
  BY <1>1, <1>3 DEF Changes
<1>4. CASE plan.action[r] \in {"delete", "destroy"}
  <2>1. remote' = [remote EXCEPT ![r] = Absent] /\ UNCHANGED loaded /\ shown' = shown \ {r}
    BY <1>4 DEF Operate, Changes
  <2> QED  BY <1>1, <1>2, <1>4, <2>1 DEF PlanInv
<1>5. CASE plan.action[r] \in {"create", "update"} /\ r \in Operations
  <2>1. /\ loaded' = [loaded EXCEPT ![r] = [t \in TriggeredBy[r] |-> remote[t]]]
        /\ UNCHANGED <<remote, shown>>
    BY <1>5 DEF Operate, Changes
  <2> QED  BY <1>1, <1>5, <2>1
<1>6. CASE plan.action[r] \in {"create", "update"} /\ r \notin Operations
  <2>1. /\ remote' = [remote EXCEPT ![r] = plan.node[r].want] /\ UNCHANGED loaded
        /\ shown' \subseteq Migrating
    BY <1>1, <1>6 DEF Operate, Changes
  <2>2. r \in DOMAIN plan.node /\ plan.node[r] \in Declarations
    BY <1>6 DEF PlanInv
  <2> QED  BY <1>1, <1>2, <1>6, <2>1, <2>2
<1> QED  BY <1>3, <1>4, <1>5, <1>6 DEF Changes

\* What a step leaves in memory: the record of its resource, or none.
LEMMA RecordedEffect ==
  ASSUME TypeOK, PlanInv, phase = "running", NEW r \in pending
  PROVE  /\ IsStore(Recorded(r))
         /\ Tracked(Recorded(r)) \subseteq Tracked(work) \cup {r}
         /\ \A x \in Tracked(work) \ {r} :
              /\ x \in Tracked(Recorded(r))
              /\ Recorded(r)[x].digest = work[x].digest
              /\ Recorded(r)[x].protected = work[x].protected
              /\ Recorded(r)[x].depends \subseteq work[x].depends
              /\ r \notin Tracked(Recorded(r)) =>
                   r \notin Recorded(r)[x].depends \/ r \notin Tracked(work)
         /\ plan.action[r] = "no-op" => Recorded(r) = work
         /\ plan.action[r] \in {"forget", "delete", "destroy"} => r \notin Tracked(Recorded(r))
         /\ plan.action[r] \in {"adopt", "create", "update"} =>
              /\ r \in Tracked(Recorded(r)) /\ r \in DOMAIN plan.node
              /\ Recorded(r)[r].digest = Digest(plan.node[r])
              /\ Recorded(r)[r].protected = plan.node[r].protected
<1>1. /\ r \in DOMAIN plan.action /\ r \in Resources /\ IsStore(work)
      /\ Tracked(work) \subseteq Resources /\ \A x \in Tracked(work) : work[x] \in Records
  BY DEF PlanInv, IsStore
<1>2. CASE plan.action[r] = "no-op"
  BY <1>1, <1>2 DEF Recorded, PlanInv
<1>3. CASE plan.action[r] \in {"forget", "delete", "destroy"}
  <2>1. Recorded(r) = Forgotten(r)
    BY <1>3 DEF Recorded
  <2>2. /\ Tracked(Forgotten(r)) = Tracked(work) \ {r}
        /\ \A x \in Tracked(work) \ {r} :
             Forgotten(r)[x] = [work[x] EXCEPT !.depends = @ \ {r}]
    BY ForgottenRecords
  <2>3. ASSUME NEW x \in Tracked(work) \ {r}
        PROVE  /\ Forgotten(r)[x] \in Records
               /\ Forgotten(r)[x].digest = work[x].digest
               /\ Forgotten(r)[x].protected = work[x].protected
               /\ Forgotten(r)[x].depends = work[x].depends \ {r}
    <3>1. work[x] \in Records
      BY <1>1
    <3>2. Forgotten(r)[x] = [work[x] EXCEPT !.depends = work[x].depends \ {r}]
      BY <2>2
    <3> QED  BY <3>1, <3>2 DEF Records
  <2>4. IsStore(Forgotten(r))
    BY <1>1, <2>2, <2>3 DEF IsStore
  <2> QED  BY <1>3, <2>1, <2>2, <2>3, <2>4
<1>4. CASE plan.action[r] \in {"adopt", "create", "update"}
  <2> DEFINE new == resourceForStep(r)
  <2>1. r \in DOMAIN plan.node /\ plan.node[r] \in Declarations /\ DOMAIN plan.node \subseteq Resources
    BY <1>1, <1>4 DEF PlanInv
  <2>2. /\ new \in Records /\ new.digest = Digest(plan.node[r])
        /\ new.protected = plan.node[r].protected
    <3>1. ExplicitDependsOn(r, plan) \in SUBSET Resources
      BY <2>1 DEF ExplicitDependsOn
    <3>2. Digest(plan.node[r]) \in Digests
      BY <2>1, DigestFacts
    <3> HIDE DEF Digests
    <3> QED  BY <2>1, <3>1, <3>2 DEF resourceForStep, Records, Declarations
  <2> HIDE DEF new
  <2>3. Recorded(r) = [x \in Tracked(work) \cup {r} |-> IF x = r THEN new ELSE work[x]]
    BY <1>4 DEF Recorded, Put, new
  <2>4. Tracked(Recorded(r)) = Tracked(work) \cup {r}
    BY <2>3 DEF Tracked
  <2>5. Recorded(r)[r] = new /\ \A x \in Tracked(work) \ {r} : Recorded(r)[x] = work[x]
    BY <2>3
  <2>6. IsStore(Recorded(r))
    BY <1>1, <2>2, <2>4, <2>5 DEF IsStore
  <2> QED  BY <1>4, <2>1, <2>2, <2>4, <2>5, <2>6
<1> QED  BY <1>1, <1>2, <1>3, <1>4 DEF PlanInv

\* A step of a plan.
LEMMA StepStep ==
  ASSUME HostInv, NEW r \in Resources, Step(r)
  PROVE  HostInv'
<1>1. /\ TypeOK /\ PlanInv /\ DependsInv /\ ScrubInv /\ FollowInv /\ ApplyInv
      /\ phase = "running" /\ Due(r) /\ r \in pending
      /\ work' = Recorded(r) /\ pending' = pending \ {r}
      /\ UNCHANGED <<config, state, phase, plan, outcome, edits, drifts, failures>>
  BY DEF HostInv, Step, Due
<1>2. /\ remote' \in [Resources -> Contents] /\ DOMAIN loaded' = Operations
      /\ shown' \subseteq Migrating
      /\ \A x \in Resources : x # r => remote'[x] = remote[x]
      /\ \A o \in Operations : o # r => loaded'[o] = loaded[o]
      /\ plan.action[r] \notin Changes => remote' = remote
      /\ r \in DOMAIN plan.node /\ plan.action[r] \in Changes \ {"delete"} =>
           IF r \in Operations
           THEN remote' = remote /\ loaded'[r] = [t \in TriggeredBy[r] |-> remote[t]]
           ELSE remote'[r] = plan.node[r].want
      /\ r \in DOMAIN plan.node /\ plan.action[r] = "delete" => remote'[r] = Absent
  <2>1. IF plan.action[r] \in Changes THEN Operate(r) ELSE UNCHANGED <<remote, shown, loaded>>
    BY DEF Step
  <2> QED  BY <1>1, <2>1, OperateEffect
<1>3. /\ IsStore(work')
      /\ Tracked(work') \subseteq Tracked(work) \cup {r}
      /\ \A x \in Tracked(work) \ {r} :
           /\ x \in Tracked(work')
           /\ work'[x].digest = work[x].digest
           /\ work'[x].protected = work[x].protected
           /\ work'[x].depends \subseteq work[x].depends
           /\ r \notin Tracked(work') => r \notin work'[x].depends \/ r \notin Tracked(work)
      /\ plan.action[r] = "no-op" => work' = work
      /\ plan.action[r] \in {"forget", "delete", "destroy"} => r \notin Tracked(work')
      /\ plan.action[r] \in {"adopt", "create", "update"} =>
           /\ r \in Tracked(work') /\ r \in DOMAIN plan.node
           /\ work'[r].digest = Digest(plan.node[r])
           /\ work'[r].protected = plan.node[r].protected
  BY <1>1, RecordedEffect
<1>4. /\ DOMAIN plan.node \subseteq DOMAIN plan.action /\ DOMAIN plan.action \subseteq Resources
      /\ pending \subseteq DOMAIN plan.action
      /\ r \in DOMAIN plan.node =>
           plan.action[r] \in {"no-op", "adopt", "create", "update", "delete"}
      /\ r \notin DOMAIN plan.node => plan.action[r] \in {"forget", "destroy"}
  BY <1>1 DEF PlanInv
<1>5. TypeOK'
  BY <1>1, <1>2 DEF TypeOK
<1>6. PlanInv'
  BY <1>1, <1>3 DEF PlanInv
<1>7. DependsInv'
  <2>1. DependenciesTracked'
    BY <1>1 DEF DependsInv, DependenciesTracked
  <2>2. ASSUME NEW x \in Tracked(work') \ DOMAIN plan.node
        PROVE  work'[x].depends \subseteq Tracked(work')
    <3>1. x # r /\ x \in Tracked(work) /\ x \in Resources
      BY <1>1, <1>3, <1>4, <2>2 DEF PlanInv
    <3>2. work[x].depends \subseteq Tracked(work)
      BY <1>1, <2>2, <3>1 DEF DependsInv, Complete
    <3> QED  BY <1>3, <3>1, <3>2
  <2> QED  BY <1>1, <2>1, <2>2 DEF DependsInv, Complete
<1>8. ScrubInv'
  <2>1. Scrubbed(state)' /\ \A x : ~Scrubbing(x)
    BY <1>1 DEF ScrubInv, Scrubbed
  <2>2. ASSUME NEW x, Scrubbing(x)' PROVE FALSE
    <3>1. x \in Tracked(work') /\ x \in Tracked(state) /\ work'[x].protected /\ ~state[x].protected
      BY <1>1, <2>2 DEF Scrubbing
    <3>2. CASE x # r \/ plan.action[r] = "no-op"
      BY <1>3, <2>1, <3>1, <3>2 DEF Scrubbing
    <3>3. CASE x = r /\ plan.action[r] \in {"adopt", "create", "update"}
      BY <1>1, <1>3, <2>1, <3>1, <3>3 DEF Scrubbed
    <3> QED  BY <1>3, <1>4, <3>1, <3>2, <3>3
  <2> QED  BY <1>1, <2>1, <2>2 DEF ScrubInv
<1>9. FollowInv'
  <2> SUFFICES ASSUME outcome = "applying",
                      NEW o \in (Operations \cap DOMAIN plan.node) \ pending',
                      NEW t \in TriggeredBy[o] \cap DOMAIN plan.node, plan.action[t] \in Changes,
                      ~Leads(o, t)
               PROVE  t \notin pending' /\ loaded'[o][t] = remote'[t]
    <3>1. \A a, b : Leads(a, b)' <=> Leads(a, b)
      BY <1>1 DEF Leads, AuthoredBefore, Authored, Inversely, Inferred, ExplicitDependsOn
    <3> QED  BY <1>1, <3>1 DEF FollowInv
  <2>1. t \in Resources
    BY <1>1 DEF PlanInv
  <2>2. CASE o = r
    <3>1. t \notin pending
      BY <1>1, <2>2, DueFollows
    <3>2. plan.action[o] \in Changes /\ plan.action[o] # "delete"
      BY <1>1 DEF PlanInv
    <3>3. loaded'[o] = [u \in TriggeredBy[o] |-> remote[u]] /\ remote' = remote
      BY <1>2, <2>2, <3>2
    <3> QED  BY <1>1, <3>1, <3>3
  <2>3. CASE o # r
    <3>1. o \notin pending
      BY <1>1, <2>3
    <3>2. t \notin pending /\ loaded[o][t] = remote[t]
      BY <1>1, <3>1 DEF FollowInv
    <3>3. t # r
      BY <1>1, <3>2
    <3> QED  BY <1>1, <1>2, <2>1, <2>3, <3>2, <3>3
  <2> QED  BY <2>2, <2>3
<1>10. ApplyInv'
  <2> SUFFICES ASSUME outcome = "applying"
               PROVE  ApplyInv'
    BY <1>1 DEF ApplyInv, PlanInv
  <2>1. /\ DOMAIN plan.node = Declared /\ \A x \in Declared : plan.node[x] = config[x]
        /\ \A x \in Declared :
             /\ x \notin pending \/ plan.action[x] = "no-op" => AsDeclared(work, x)
             /\ plan.action[x] = "adopt" => Observed(x, config[x]) = config[x].want
        /\ Tracked(work) \ Declared \subseteq pending
    BY <1>1 DEF ApplyInv
  <2>2. Declared' = Declared
    BY <1>1 DEF Declared
  <2>3. ASSUME NEW x \in Declared, x # r
        PROVE  /\ Observed(x, config[x])' = Observed(x, config[x])
               /\ AsDeclared(work, x) => AsDeclared(work, x)'
    <3>1. x \in Resources
      BY DEF Declared
    <3>2. Observed(x, config[x])' = Observed(x, config[x])
      BY <1>1, <1>2, <2>3, <3>1 DEF Observed
    <3> QED  BY <1>1, <1>3, <2>3, <3>2 DEF AsDeclared
  <2>4. ASSUME r \in Declared
        PROVE  AsDeclared(work, r)' /\ (plan.action[r] = "adopt" =>
                                          Observed(r, config[r])' = config[r].want)
    <3>1. plan.node[r] = config[r] /\ r \in DOMAIN plan.node
      BY <2>1, <2>4
    <3>2. CASE plan.action[r] = "no-op"
      <4>1. AsDeclared(work, r) /\ remote' = remote /\ work' = work
        BY <1>2, <1>3, <2>1, <2>4, <3>2 DEF Changes
      <4> QED  BY <1>1, <3>2, <4>1 DEF AsDeclared, Observed
    <3>3. CASE plan.action[r] = "adopt"
      <4>1. Observed(r, config[r]) = config[r].want /\ remote' = remote
        BY <1>2, <2>1, <2>4, <3>3 DEF Changes
      <4> QED  BY <1>1, <1>3, <3>1, <3>3, <4>1 DEF AsDeclared, Observed
    <3>4. CASE plan.action[r] \in {"create", "update"}
      <4>1. r \notin Operations => remote'[r] = config[r].want
        BY <1>2, <3>1, <3>4 DEF Changes
      <4> QED  BY <1>1, <1>3, <3>1, <3>4, <4>1 DEF AsDeclared, Observed
    <3>5. CASE plan.action[r] = "delete"
      <4>1. config[r].want = Absent /\ r \notin Operations
        BY <1>1, <3>1, <3>5 DEF PlanInv
      <4> QED  BY <1>1, <1>2, <1>3, <3>1, <3>5, <4>1 DEF AsDeclared, Observed
    <3> QED  BY <1>4, <3>1, <3>2, <3>3, <3>4, <3>5
  <2>5. Tracked(work') \ Declared \subseteq pending'
    <3> SUFFICES ASSUME NEW x \in Tracked(work') \ Declared PROVE x \in pending'
      OBVIOUS
    <3>1. x # r
      BY <1>3, <1>4, <2>1
    <3> QED  BY <1>1, <1>3, <2>1, <3>1
  <2> QED  BY <1>1, <2>1, <2>2, <2>3, <2>4, <2>5 DEF ApplyInv
<1> QED  BY <1>5, <1>6, <1>7, <1>8, <1>9, <1>10 DEF HostInv

\* The state is written: before the first step, or after the last.
LEMMA PrewriteStep ==
  ASSUME HostInv, StatePrewrite
  PROVE  HostInv'
<1>1. /\ TypeOK /\ PlanInv /\ DependsInv /\ ScrubInv /\ FollowInv /\ ApplyInv
      /\ phase = "prewrite" /\ phase' = "running" /\ state' = work
      /\ UNCHANGED <<config, remote, shown, loaded, plan, work, pending, outcome>>
  BY DEF HostInv, StatePrewrite, Writable
<1>2. TypeOK' /\ PlanInv'
  BY <1>1 DEF TypeOK, PlanInv, IsStore
<1>3. DependsInv'
  <2>1. \A r \in Tracked(work) : work[r].depends \subseteq Tracked(work)
    BY <1>1 DEF DependsInv, Complete, PlanInv, IsStore
  <2> QED  BY <1>1, <2>1 DEF DependsInv, DependenciesTracked, Complete
<1>4. ScrubInv' /\ FollowInv'
  <2>1. \A a, b : Leads(a, b)' <=> Leads(a, b)
    BY <1>1 DEF Leads, AuthoredBefore, Authored, Inversely, Inferred, ExplicitDependsOn
  <2> QED  BY <1>1, <2>1 DEF ScrubInv, Scrubbed, Scrubbing, FollowInv
<1>5. ApplyInv'
  <2>1. Declared' = Declared /\ \A r : AsDeclared(work, r)' <=> AsDeclared(work, r)
    BY <1>1 DEF Declared, AsDeclared, Observed
  <2>2. \A r : Observed(r, config[r])' = Observed(r, config[r])
    BY <1>1 DEF Observed
  <2> QED  BY <1>1, <2>1, <2>2 DEF ApplyInv, PlanInv
<1> QED  BY <1>2, <1>3, <1>4, <1>5 DEF HostInv

\* What is written at the end tracks what it names.
LEMMA FinalStore ==
  ASSUME TypeOK, PlanInv, DependsInv, phase = "running"
  PROVE  /\ IsStore(Final) /\ Tracked(Final) = Tracked(work)
         /\ \A r \in Tracked(work) : /\ Final[r].depends \subseteq Tracked(Final)
                                     /\ Final[r].digest = work[r].digest
                                     /\ Final[r].protected = work[r].protected
<1>1. IsStore(work) /\ Tracked(work) \subseteq Resources
  BY DEF PlanInv, IsStore
<1>2. /\ Tracked(Final) = Tracked(work) /\ IsStore(Final)
      /\ \A x \in Tracked(work) :
           /\ Final[x].digest = work[x].digest /\ Final[x].protected = work[x].protected
           /\ x \in DOMAIN plan.node => Final[x].depends \subseteq Tracked(work)
           /\ x \notin DOMAIN plan.node => Final[x] = work[x]
  BY <1>1, ReconciledRecords DEF Final
<1>3. \A x \in Tracked(work) \ DOMAIN plan.node : work[x].depends \subseteq Tracked(work)
  BY <1>1 DEF DependsInv, Complete
<1> QED  BY <1>2, <1>3

\* An attempt that is over leaves a good state file, whether it was written or not.
LEMMA OverStep ==
  ASSUME HostInv, phase # "idle", GiveUp, UNCHANGED config,
         \/ state' = state
         \/ phase = "prewrite" /\ state' = work
         \/ phase = "running" /\ state' = Final,
         remote' \in [Resources -> Contents], DOMAIN loaded' = Operations,
         shown' \subseteq Migrating,
         \/ outcome' = "none"
         \/ outcome' = "applied" /\ Settled(state)'
  PROVE  HostInv'
<1>1. /\ TypeOK /\ PlanInv /\ DependsInv /\ phase' = "idle"
  BY DEF HostInv, GiveUp
<1>2. IsStore(state') /\ \A r \in Tracked(state') : state'[r].depends \subseteq Tracked(state')
  <2>1. CASE state' = state
    BY <1>1, <2>1 DEF TypeOK, DependsInv, DependenciesTracked
  <2>2. CASE phase = "prewrite" /\ state' = work
    BY <1>1, <2>2 DEF PlanInv, DependsInv, Complete, IsStore
  <2>3. CASE phase = "running" /\ state' = Final
    BY <1>1, <2>3, FinalStore
  <2> QED  BY <2>1, <2>2, <2>3
<1>3. TypeOK'
  BY <1>1, <1>2 DEF TypeOK
<1>4. PlanInv' /\ ScrubInv' /\ FollowInv'
  BY <1>1 DEF PlanInv, ScrubInv, FollowInv
<1>5. DependsInv'
  BY <1>1, <1>2 DEF DependsInv, DependenciesTracked
<1>6. ApplyInv'
  BY <1>1 DEF ApplyInv
<1> QED  BY <1>3, <1>4, <1>5, <1>6 DEF HostInv

\* All steps of an undisturbed apply have run: everything is as declared.
LEMMA FinishStep ==
  ASSUME HostInv, Finish
  PROVE  HostInv'
<1>1. /\ TypeOK /\ PlanInv /\ DependsInv /\ ApplyInv
      /\ phase = "running" /\ pending = {} /\ state' = Final /\ GiveUp
      /\ outcome' = (IF outcome = "applying" THEN "applied" ELSE "none")
      /\ UNCHANGED <<config, remote, shown, loaded>>
  BY DEF HostInv, Finish
<1>2. outcome = "applying" => Settled(state)'
  <2> SUFFICES ASSUME outcome = "applying" PROVE Settled(state)'
    OBVIOUS
  <2>1. /\ Tracked(work) \subseteq Declared /\ \A r \in Declared : AsDeclared(work, r)
    BY <1>1 DEF ApplyInv
  <2>2. /\ Tracked(Final) = Tracked(work)
        /\ \A r \in Tracked(work) : /\ Final[r].digest = work[r].digest
                                    /\ Final[r].protected = work[r].protected
    BY <1>1, FinalStore
  <2>3. Declared' = Declared
    BY <1>1 DEF Declared
  <2>4. ASSUME NEW r \in Declared PROVE AsDeclared(state, r)'
    BY <1>1, <2>1, <2>2 DEF AsDeclared, Observed
  <2> QED  BY <1>1, <2>1, <2>2, <2>3, <2>4 DEF Settled
<1>3. remote' \in [Resources -> Contents] /\ DOMAIN loaded' = Operations /\ shown' \subseteq Migrating
  BY <1>1 DEF TypeOK
<1> QED  BY <1>1, <1>2, <1>3, OverStep

\* A provider or a state write fails, or the client dies.
LEMMA FailStep ==
  ASSUME HostInv,
         (\E r \in Resources : StepFails(r) \/ MigrationFails(r)) \/ WriteFails \/ Crash
  PROVE  HostInv'
<1>1. TypeOK /\ PlanInv
  BY DEF HostInv
<1>2. ASSUME NEW r \in Resources, StepFails(r) PROVE HostInv'
  <2>1. /\ phase = "running" /\ r \in pending /\ plan.action[r] \in Changes /\ GiveUp
        /\ outcome' = "none" /\ UNCHANGED <<config, state>>
        /\ Operate(r) \/ UNCHANGED <<remote, shown, loaded>>
    BY <1>2 DEF StepFails, Due
  <2>2. CASE Operate(r)
    <3>1. /\ remote' \in [Resources -> Contents] /\ DOMAIN loaded' = Operations
          /\ shown' \subseteq Migrating
      BY <1>1, <2>1, <2>2, OperateEffect
    <3> QED  BY <2>1, <3>1, OverStep
  <2>3. CASE UNCHANGED <<remote, shown, loaded>>
    BY <1>1, <2>1, <2>3, OverStep DEF TypeOK
  <2> QED  BY <2>1, <2>2, <2>3
<1>3. ASSUME WriteFails \/ Crash PROVE HostInv'
  <2>1. /\ phase # "idle" /\ GiveUp /\ outcome' = "none"
        /\ UNCHANGED <<config, remote, shown, loaded>>
        /\ \/ state' = state
           \/ phase = "prewrite" /\ state' = work
           \/ phase = "running" /\ state' = Final
    BY <1>3 DEF WriteFails, Crash, Writable
  <2> QED  BY <1>1, <2>1, OverStep DEF TypeOK
<1>4. ASSUME NEW r \in Resources, MigrationFails(r) PROVE HostInv'
  <2>1. /\ phase # "idle" /\ GiveUp /\ outcome' = "none" /\ shown' \subseteq shown
        /\ UNCHANGED <<config, remote, state, loaded>>
    BY <1>4 DEF MigrationFails
  <2> QED  BY <1>1, <2>1, OverStep DEF TypeOK
<1> QED  BY <1>2, <1>3, <1>4

\* Something is moved away from its plain name before the first step.
LEMMA MigrateStep ==
  ASSUME HostInv, NEW r \in Resources, MigrateProtectedPrior(r)
  PROVE  HostInv'
<1>1. /\ phase = "prewrite" /\ shown' \subseteq shown
      /\ UNCHANGED <<config, remote, state, loaded, phase, plan, work, pending, outcome>>
  BY DEF MigrateProtectedPrior
<1>2. TypeOK' /\ PlanInv' /\ DependsInv' /\ ScrubInv'
  BY <1>1
  DEF HostInv, TypeOK, PlanInv, DependsInv, DependenciesTracked, Complete, ScrubInv, Scrubbed,
      Scrubbing
<1>3. FollowInv' /\ ApplyInv'
  <2>1. /\ Declared' = Declared
        /\ \A x : Observed(x, config[x])' = Observed(x, config[x])
        /\ \A x : AsDeclared(work, x)' <=> AsDeclared(work, x)
    BY <1>1 DEF Declared, AsDeclared, Observed
  <2>2. \A a, b : Leads(a, b)' <=> Leads(a, b)
    BY <1>1 DEF Leads, AuthoredBefore, Authored, Inversely, Inferred, ExplicitDependsOn
  <2>3. outcome # "applied"
    BY <1>1 DEF HostInv, PlanInv
  <2> QED  BY <1>1, <2>1, <2>2, <2>3 DEF HostInv, FollowInv, ApplyInv
<1> QED  BY <1>2, <1>3 DEF HostInv

\* Whoever edits the configuration or changes the host disturbs the apply.
LEMMA DisturbStep ==
  ASSUME HostInv, outcome' = "none",
         config' \in [Resources -> Declarations \cup {Undeclared}],
         remote' \in [Resources -> Contents],
         UNCHANGED <<shown, state, loaded, phase, plan, work, pending>>
  PROVE  HostInv'
<1>1. TypeOK'
  BY DEF HostInv, TypeOK
<1>2. PlanInv' /\ DependsInv' /\ ScrubInv'
  BY DEF HostInv, PlanInv, DependsInv, DependenciesTracked, Complete, ScrubInv, Scrubbed, Scrubbing
<1>3. FollowInv' /\ ApplyInv'
  BY DEF FollowInv, ApplyInv
<1> QED  BY <1>1, <1>2, <1>3 DEF HostInv

-----------------------------------------------------------------------------
(* The theorems.                                                              *)

LEMMA InitInv == Init => HostInv
<1> SUFFICES ASSUME Init PROVE HostInv
  OBVIOUS
<1>1. /\ config \in [Resources -> Declarations \cup {Undeclared}]
      /\ remote \in [Resources -> Contents] /\ shown = {} /\ state = Nothing
      /\ loaded = [o \in Operations |-> [t \in TriggeredBy[o] |-> remote[t]]]
      /\ phase = "idle" /\ outcome = "none"
  BY DEF Init
<1>2. Tracked(state) = {}
  BY <1>1 DEF Tracked, Nothing
<1>3. TypeOK /\ DependenciesTracked
  BY <1>1, <1>2 DEF TypeOK, IsStore, DependenciesTracked
<1> QED  BY <1>1, <1>3 DEF HostInv, PlanInv, DependsInv, ScrubInv, FollowInv, ApplyInv

\* What changes nothing that the invariant is about keeps it.
LEMMA StutterInv ==
  ASSUME HostInv, UNCHANGED vars
  PROVE  HostInv'
<1>1. UNCHANGED <<config, remote, shown, state, loaded, phase, plan, work, pending, outcome>>
  BY DEF vars
<1>2. TypeOK' /\ PlanInv' /\ DependsInv' /\ ScrubInv' /\ FollowInv'
  BY <1>1
  DEF HostInv, TypeOK, PlanInv, DependsInv, DependenciesTracked, Complete, ScrubInv, Scrubbed,
      Scrubbing, FollowInv, Leads, AuthoredBefore, Authored, Inversely, Inferred, ExplicitDependsOn
<1>3. ApplyInv'
  <2>1. /\ Declared' = Declared
        /\ \A r : Observed(r, config[r])' = Observed(r, config[r])
        /\ \A r : AsDeclared(work, r)' <=> AsDeclared(work, r)
        /\ \A r : AsDeclared(state, r)' <=> AsDeclared(state, r)
    BY <1>1 DEF Declared, AsDeclared, Observed
  <2>2. Settled(state)' <=> Settled(state)
    BY <1>1, <2>1 DEF Settled
  <2> QED  BY <1>1, <2>1, <2>2 DEF HostInv, ApplyInv
<1> QED  BY <1>2, <1>3 DEF HostInv

LEMMA NextInv ==
  ASSUME HostInv, [Next]_vars
  PROVE  HostInv'
<1>1. CASE UNCHANGED vars
  BY <1>1, StutterInv
<1>2. CASE Plan \/ StatePrewrite \/ Finish
  BY <1>2, PlanStep, PrewriteStep, FinishStep
<1>7. CASE PlanRefused
  BY <1>7, StutterInv DEF PlanRefused
<1>8. ASSUME NEW r \in Resources, MigrateProtectedPrior(r) PROVE HostInv'
  BY <1>8, MigrateStep
<1>3. ASSUME NEW r \in Resources, Step(r) PROVE HostInv'
  BY <1>3, StepStep
<1>4. CASE (\E r \in Resources : StepFails(r) \/ MigrationFails(r)) \/ WriteFails \/ Crash
  BY <1>4, FailStep
<1>5. ASSUME NEW r \in Resources, NEW d \in Choices[r], Edit(r, d) PROVE HostInv'
  <2>1. /\ outcome' = "none" /\ config' = [config EXCEPT ![r] = d]
        /\ UNCHANGED <<remote, shown, state, loaded, phase, plan, work, pending>>
    BY <1>5 DEF Edit
  <2>2. d \in Declarations \cup {Undeclared}
    BY HostAssumption
  <2>3. /\ config' \in [Resources -> Declarations \cup {Undeclared}]
        /\ remote' \in [Resources -> Contents]
    BY <2>1, <2>2 DEF HostInv, TypeOK
  <2> QED  BY <2>1, <2>3, DisturbStep
<1>6. ASSUME NEW r \in Resources, NEW c \in Contents, Drift(r, c) PROVE HostInv'
  <2>1. /\ outcome' = "none" /\ remote' = [remote EXCEPT ![r] = c]
        /\ UNCHANGED <<config, shown, state, loaded, phase, plan, work, pending>>
    BY <1>6 DEF Drift
  <2>2. /\ config' \in [Resources -> Declarations \cup {Undeclared}]
        /\ remote' \in [Resources -> Contents]
    BY <2>1 DEF HostInv, TypeOK
  <2> QED  BY <2>1, <2>2, DisturbStep
<1> QED  BY <1>1, <1>2, <1>3, <1>4, <1>5, <1>6, <1>7, <1>8 DEF Next

\* However often it is applied, edited, changed by hand and broken off: the host,
\* the plan, the state in memory and the state file belong together as HostInv says
\* (executeHost, engine.go:717-809).
THEOREM Typing == Spec => []HostInv
BY InitInv, NextInv, PTL DEF Spec

\* After a successful apply that nothing disturbed, the next plan is empty: what
\* planNode compares is what executeHost wrote (engine.go:582-630, 770-809).
THEOREM FixedPoint == Spec => []RepeatIsNoOp
<1>1. HostInv => RepeatIsNoOp
  <2>1. CASE outcome = "applied"
    BY <2>1, SettledIsNoOp DEF HostInv, ApplyInv
  <2>2. CASE outcome # "applied"
    BY <2>2 DEF RepeatIsNoOp
  <2> QED  BY <2>1, <2>2
<1> QED  BY <1>1, Typing, PTL

\* The state file tracks every dependency that it names (trackedStateDependencies,
\* docs/state-backend.md:34-36).
THEOREM Tracking == Spec => []DependenciesTracked
<1>1. HostInv => DependenciesTracked
  BY DEF HostInv, DependsInv
<1> QED  BY <1>1, Typing, PTL

\* No step runs while the state file holds the plain record of a resource that
\* became protected; only the migrations do (the prewrite of executeHost,
\* engine.go:737-767).
THEOREM ScrubbedFirst == Spec => []PlainRecordsScrubbed
<1>1. HostInv => PlainRecordsScrubbed
  BY DEF HostInv, ScrubInv, Scrubbed, PlainRecordsScrubbed
<1> QED  BY <1>1, Typing, PTL

\* A record is scrubbed only once its object is gone from the plain name that
\* only the record points to, through every failed or interrupted attempt
\* (MigrateProtectedPrior before the prewrite, engine.go:737-762).
THEOREM Migrated == Spec => ScrubbedAfterMigration
<1> DEFINE Moved ==
      \A r \in Migrating \cap Tracked(state) \cap Tracked(state') :
        ~state[r].protected /\ state'[r].protected => r \notin shown
<1>1. ASSUME HostInv, [Next]_vars PROVE [Moved]_vars
  <2> SUFFICES ASSUME NEW r \in Migrating \cap Tracked(state) \cap Tracked(state'),
                      ~state[r].protected, state'[r].protected
               PROVE  r \notin shown
    OBVIOUS
  <2>1. \/ Writable /\ state' = work
        \/ phase = "running" /\ state' = Final
    <3>1. state' # state
      OBVIOUS
    <3> QED  BY <1>1, <3>1 DEF Next, vars, Plan, PlanRefused, MigrateProtectedPrior, MigrationFails,
               StatePrewrite, Step, StepFails, Finish, WriteFails, Crash, Edit, Drift
  <2>2. CASE Writable /\ state' = work
    <3>1. Scrubbing(r)
      BY <2>2 DEF Scrubbing
    <3>2. r \in plan.reclassified
      BY <1>1, <2>2, <3>1 DEF HostInv, ScrubInv, Writable
    <3> QED  BY <2>2, <3>2 DEF Writable, Unmigrated
  <2>3. CASE phase = "running" /\ state' = Final
    <3>1. r \in Tracked(work) /\ work[r].protected
      BY <1>1, <2>3, FinalStore DEF HostInv
    <3>2. Scrubbing(r)
      BY <3>1 DEF Scrubbing
    <3> QED  BY <1>1, <2>3, <3>2 DEF HostInv, ScrubInv
  <2> QED  BY <2>1, <2>2, <2>3
<1> HIDE DEF Moved
<1>2. Spec => [][Moved]_vars
  BY <1>1, Typing, PTL DEF Spec
<1> QED  BY <1>2 DEF ScrubbedAfterMigration, Moved

\* A successful apply that changed a trigger has run what it triggers after the
\* change, through any chain of triggers, unless the operation is put before the
\* trigger because something is torn down (engine.go:397-412, 526-535,
\* dependency_order.go:54-88).
THEOREM Following == Spec => OperationFollowsChange
<1> DEFINE Followed ==
      outcome = "applying" /\ outcome' = "applied" =>
        \A o \in Operations \cap DOMAIN plan.node :
          \A t \in TriggeredBy[o] \cap DOMAIN plan.node :
            plan.action[t] \in Changes /\ ~Leads(o, t) => loaded[o][t] = remote[t]
<1>1. ASSUME HostInv, [Next]_vars PROVE [Followed]_vars
  <2> SUFFICES ASSUME outcome = "applying", outcome' = "applied" PROVE Followed
    OBVIOUS
  <2>1. Finish
    BY <1>1 DEF Next, vars, Plan, PlanRefused, MigrateProtectedPrior, MigrationFails, StatePrewrite,
               Step, StepFails, WriteFails, Crash, Edit, Drift
  <2>2. phase = "running" /\ pending = {}
    BY <2>1 DEF Finish
  <2> QED  BY <1>1, <2>2 DEF HostInv, FollowInv
<1> HIDE DEF Followed
<1>2. Spec => [][Followed]_vars
  BY <1>1, Typing, PTL DEF Spec
<1> QED  BY <1>2 DEF OperationFollowsChange, Followed
=============================================================================
