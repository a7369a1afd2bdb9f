--------------------------- MODULE ComponentMoves ---------------------------
(***************************************************************************)
(* Component address moves (internal/core/state/moved.go and               *)
(* internal/core/engine/moved.go) over any number of applies of one host.  *)
(* A configuration mounts components and has `moved` blocks.  A plan moves *)
(* tracked component roots along the chains of blocks, binds every         *)
(* component to the physical name under which its objects were made, and   *)
(* compares; the execution writes the moved state before any step.         *)
(*                                                                         *)
(* The resources of a component are keys with a version each.  The digest  *)
(* of a resource has the logical name of its component, the version and    *)
(* the physical name in it, as those of change scripts and artifacts have; *)
(* its object on the host only the last two.  A version also says what is  *)
(* done when the resource is declared no more: it is part of what is       *)
(* desired, and recorded with it.  Planning, leases and concurrent runs    *)
(* are in HostApply, LeaseLock and ApplyRuns.                              *)
(***************************************************************************)
EXTENDS Integers, FiniteSets

CONSTANTS Names,       \* component names
          Templates,   \* what a component may consist of: versions of some keys
          Forgettable, \* the versions whose objects stay when they are declared no more
          MaxMounted,  \* bound: components that are mounted at once
          MaxApplies,  \* bound: plans that are executed
          MaxBreaks,   \* bound: executions that break off
          None

Keys     == UNION {DOMAIN t : t \in Templates}
Versions == UNION {{t[k] : k \in DOMAIN t} : t \in Templates}

ASSUME MovesAssumption ==
  /\ IsFiniteSet(Names) /\ None \notin Names
  /\ \A t \in Templates : t \in [DOMAIN t -> Versions]
  /\ None \notin Versions /\ Forgettable \subseteq Versions
  /\ MaxMounted \in Nat /\ MaxApplies \in Nat /\ MaxBreaks \in Nat

-----------------------------------------------------------------------------
(* Configurations.                                                         *)

Destinations(m, S) == {m[n] : n \in S \cap DOMAIN m}

\* Where the blocks lead from n, in one or more steps: the smallest set with the
\* destination of n that has the destinations of its members.
Downstream(m, n) ==
  LET Closed(S) == Destinations(m, {n} \cup S) \subseteq S
  IN {x \in Names : \A S \in SUBSET Names : Closed(S) => x \in S}

\* What the parser accepts: one destination for each source, one source for each
\* destination, and no cycle.
Blocks == UNION {[D -> Names] : D \in SUBSET Names}
Moved == {m \in Blocks :
            /\ \A x, y \in DOMAIN m : m[x] = m[y] => x = y
            /\ \A n \in Names : n \notin Downstream(m, n)}

Mounts == UNION {[D -> Templates] : D \in {S \in SUBSET Names : Cardinality(S) =< MaxMounted}}

Mounted(c) == DOMAIN c.mounts

\* A chain with two mounted components is refused.
Ambiguous(c) == \E n \in Mounted(c) : Downstream(c.moved, n) \cap Mounted(c) # {}

\* compileMovedSpecs: the moves of a host lead to the component that is mounted.
HostMoves(c) == {n \in DOMAIN c.moved : Downstream(c.moved, n) \cap Mounted(c) # {}}
Compiled(c)  == [c EXCEPT !.moved = [n \in HostMoves(c) |-> c.moved[n]]]

Configs == {Compiled(c) : c \in {d \in [mounts : Mounts, moved : Moved] : ~ Ambiguous(d)}}

-----------------------------------------------------------------------------
(* The state file.                                                         *)

Digests == [name : Names, version : Versions, at : Names]

ASSUME NoneIsNoDigest == None \notin Digests

Gone    == [k \in Keys |-> None]

VARIABLES state,    \* the state file: tracked resources and physical names
          objects,  \* what the host has under each physical name
          phase,    \* where planning and execution are
          config,   \* the configuration that is planned
          work,     \* the state in memory
          pending,  \* the moves that are not resolved yet
          origin,   \* where the resources of each component came from
          todo,     \* the steps that are left
          accepted, \* the configuration that was executed last
          done,     \* whether that succeeded
          applies, breaks

memory == <<config, work, pending, origin, todo>>
vars   == <<state, objects, phase, memory, accepted, done, applies, breaks>>

IsTracked(st, n) == st.tracked[n] # Gone
Physical(st, n)  == IF st.physical[n] = None THEN n ELSE st.physical[n]

\* pruneComponentIdentities
Pruned(st) ==
  [st EXCEPT !.physical = [n \in Names |-> IF IsTracked(st, n) THEN st.physical[n] ELSE None]]

NoState   == [tracked |-> [n \in Names |-> Gone], physical |-> [n \in Names |-> None]]
Untouched == [n \in Names |-> n]

Idle ==
  /\ phase' = "idle"
  /\ config' = None
  /\ work' = NoState
  /\ pending' = {}
  /\ origin' = Untouched
  /\ todo' = {}

\* A host after an apply of its first configuration, or without one.
Init ==
  /\ \E m \in Mounts :
       /\ state = [NoState EXCEPT !.tracked = [n \in Names |-> [k \in Keys |->
                     IF n \in DOMAIN m /\ k \in DOMAIN m[n]
                     THEN [name |-> n, version |-> m[n][k], at |-> n] ELSE None]]]
       /\ objects = [n \in Names |-> [k \in Keys |->
                       IF n \in DOMAIN m /\ k \in DOMAIN m[n] THEN m[n][k] ELSE None]]
       /\ accepted = [mounts |-> m, moved |-> [n \in {} |-> n]]
  /\ done = TRUE
  /\ phase = "idle"
  /\ config = None
  /\ work = NoState
  /\ pending = {}
  /\ origin = Untouched
  /\ todo = {}
  /\ applies = 0
  /\ breaks = 0

-----------------------------------------------------------------------------
(* Planning: ResolveMoves, one move at a time.                             *)

Start(c) ==
  /\ phase = "idle"
  /\ applies < MaxApplies
  /\ phase' = "resolve"
  /\ config' = c
  /\ work' = Pruned(state)
  /\ pending' = DOMAIN c.moved
  /\ UNCHANGED <<state, objects, origin, todo, accepted, done, applies, breaks>>

Goal(c, f) == CHOOSE n \in Downstream(c.moved, f) \cap Mounted(c) : TRUE

\* The moves are taken from the beginning of each chain.
First(f) == \A g \in pending : config.moved[g] # f

\* The resources keep the physical name under which they were made.
Renamed(st, f, t) ==
  [tracked  |-> [st.tracked EXCEPT ![t] = st.tracked[f], ![f] = Gone],
   physical |-> [st.physical EXCEPT ![f] = None,
                                    ![t] = IF Physical(st, f) = t THEN None ELSE Physical(st, f)]]

Refuse ==
  /\ phase' = "refused"
  /\ UNCHANGED <<state, objects, memory, accepted, done, applies, breaks>>

\* Mutant: what is tracked at the destination is not looked at.
MoveRefusedUnseen(f, t) ==
  IsTracked(work, f) /\ (f \in Mounted(config)) = (Goal(config, f) \in Mounted(config))

MoveRefused(f, t) ==
  /\ IsTracked(work, f)
  /\ \/ IsTracked(work, t)
     \/ (f \in Mounted(config)) = (Goal(config, f) \in Mounted(config))

ResolveMove(f) ==
  /\ phase = "resolve"
  /\ f \in pending
  /\ First(f)
  /\ LET t == config.moved[f] IN
       \/ MoveRefused(f, t) /\ Refuse
       \/ /\ ~ MoveRefused(f, t)
          /\ pending' = pending \ {f}
          /\ IF IsTracked(work, f) /\ f \notin Mounted(config)
             THEN /\ work' = Renamed(work, f, t)
                  /\ origin' = [origin EXCEPT ![t] = origin[f], ![f] = f]
             ELSE UNCHANGED <<work, origin>>
          /\ UNCHANGED <<state, objects, phase, config, todo, accepted, done, applies, breaks>>

-----------------------------------------------------------------------------
(* Planning: names, digests and steps.                                     *)

Active(st, c) == Mounted(c) \cup {n \in Names : IsTracked(st, n)}

\* Mutant: only the mounted components are compared.
ConflictOfMounted(st, c) ==
  \E x, y \in Mounted(c) : x # y /\ Physical(st, x) = Physical(st, y)

\* bindComponentIdentities
Conflict(st, c) ==
  \E x, y \in Active(st, c) : x # y /\ Physical(st, x) = Physical(st, y)

Current(c)     == {r \in Names \X Keys : r[1] \in Mounted(c) /\ r[2] \in DOMAIN c.mounts[r[1]]}
Version(c, r)  == c.mounts[r[1]][r[2]]
Wanted(st, c, r) == [name |-> r[1], version |-> Version(c, r), at |-> Physical(st, r[1])]
Legacy(st, c, r) == [Wanted(st, c, r) EXCEPT !.name = origin[r[1]]]

\* Mutant: digests are left as they were recorded.
NotRebased(st, c) == st

\* What was recorded under the old name and is wanted under the new one is
\* recorded under the new one (buildMoveTargets, applyMoveTarget).
Rebased(st, c) ==
  [st EXCEPT !.tracked = [n \in Names |-> [k \in Keys |->
     IF /\ <<n, k>> \in Current(c)
        /\ origin[n] # n
        /\ st.tracked[n][k] = Legacy(st, c, <<n, k>>)
     THEN Wanted(st, c, <<n, k>>)
     ELSE st.tracked[n][k]]]]

Object(st, r) == objects[Physical(st, r[1])][r[2]]
Orphans(st, c) == {r \in (Names \X Keys) \ Current(c) : st.tracked[r[1]][r[2]] # None}

\* An orphan is forgotten unless what was recorded of it says delete or destroy.
Disposal(st, r) == IF st.tracked[r[1]][r[2]].version \in Forgettable THEN "forget" ELSE "remove"

\* planNode, and what planHost does about orphans.
Steps(st, c) ==
  {[do |-> "change", r |-> r] : r \in {q \in Current(c) : Object(st, q) # Version(c, q)}}
    \cup {[do |-> "adopt", r |-> r] : r \in {q \in Current(c) :
            /\ Object(st, q) = Version(c, q)
            /\ st.tracked[q[1]][q[2]] # Wanted(st, c, q)}}
    \cup {[do |-> Disposal(st, r), r |-> r] : r \in Orphans(st, c)}

Bind ==
  /\ phase = "resolve"
  /\ pending = {}
  /\ LET st == Pruned(work) IN
       IF Conflict(st, config)
       THEN Refuse
       ELSE /\ work' = Rebased(st, config)
            /\ todo' = Steps(Rebased(st, config), config)
            /\ phase' = "planned"
            /\ UNCHANGED <<state, objects, config, pending, origin, accepted, done, applies, breaks>>

\* A refused plan, a refused review.
Abandon ==
  /\ phase \in {"refused", "planned"}
  /\ Idle
  /\ UNCHANGED <<state, objects, accepted, done, applies, breaks>>

-----------------------------------------------------------------------------
(* executeHost.                                                            *)

Moving == \E n \in Names : origin[n] # n

Begin ==
  /\ phase = "planned"
  /\ accepted' = config
  /\ done' = FALSE
  /\ applies' = applies + 1
  /\ phase' = IF Moving THEN "prewrite" ELSE "steps"
  /\ UNCHANGED <<state, objects, memory, breaks>>

\* Mutants: the write leaves the old roots in the file; only changes count as steps.
PrewriteMerged ==
  /\ phase = "prewrite"
  /\ state' = [Pruned(work) EXCEPT !.tracked = [n \in Names |->
                 IF IsTracked(work, n) THEN work.tracked[n] ELSE state.tracked[n]]]
  /\ IF todo = {}
     THEN Idle /\ done' = TRUE
     ELSE phase' = "steps" /\ UNCHANGED <<memory, done>>
  /\ UNCHANGED <<objects, accepted, applies, breaks>>
PrewriteEarly ==
  /\ phase = "prewrite"
  /\ state' = Pruned(work)
  /\ IF \A s \in todo : s.do # "change"
     THEN Idle /\ done' = TRUE
     ELSE phase' = "steps" /\ UNCHANGED <<memory, done>>
  /\ UNCHANGED <<objects, accepted, applies, breaks>>

\* Without steps the apply is over.
Prewrite ==
  /\ phase = "prewrite"
  /\ state' = Pruned(work)
  /\ IF todo = {}
     THEN Idle /\ done' = TRUE
     ELSE phase' = "steps" /\ UNCHANGED <<memory, done>>
  /\ UNCHANGED <<objects, accepted, applies, breaks>>

\* The steps that end a record.
Drops(s) == s.do \in {"remove", "forget"}

\* A removal is of the object that was recorded.
Affected(s) ==
  IF Drops(s) THEN <<work.tracked[s.r[1]][s.r[2]].at, s.r[2]>>
                     ELSE <<Physical(work, s.r[1]), s.r[2]>>

Effect(s) ==
  objects' = [objects EXCEPT ![Affected(s)[1]][s.r[2]] =
                CASE s.do = "remove" -> None
                  [] s.do = "change" -> Version(config, s.r)
                  [] s.do \in {"adopt", "forget"} -> @]

Step(s) ==
  /\ phase = "steps"
  /\ s \in todo
  /\ todo' = todo \ {s}
  /\ Effect(s)
  /\ work' = [work EXCEPT !.tracked[s.r[1]][s.r[2]] =
                IF Drops(s) THEN None ELSE Wanted(work, config, s.r)]
  /\ UNCHANGED <<state, phase, config, pending, origin, accepted, done, applies, breaks>>

Finish ==
  /\ phase = "steps"
  /\ todo = {}
  /\ state' = Pruned(work)
  /\ done' = TRUE
  /\ Idle
  /\ UNCHANGED <<objects, accepted, applies, breaks>>

\* A step or a write fails, or its answer is lost, or apf dies: what had been
\* called may have had its effect.
BreakOff ==
  /\ phase \in {"prewrite", "steps"}
  /\ breaks < MaxBreaks
  /\ breaks' = breaks + 1
  /\ \/ UNCHANGED <<state, objects>>
     \/ phase = "steps" /\ UNCHANGED state /\ \E s \in todo : Effect(s)
     \/ (phase = "steps" => todo = {}) /\ state' = Pruned(work) /\ UNCHANGED objects
  /\ Idle
  /\ UNCHANGED <<accepted, done, applies>>

Next ==
  \/ \E c \in Configs : Start(c)
  \/ \E f \in Names : ResolveMove(f)
  \/ Bind \/ Abandon \/ Begin \/ Prewrite
  \/ \E s \in todo : Step(s)
  \/ Finish \/ BreakOff

Spec == Init /\ [][Next]_vars

-----------------------------------------------------------------------------
(* Properties.                                                             *)

States ==
  [tracked : [Names -> [Keys -> Digests \cup {None}]], physical : [Names -> Names \cup {None}]]

\* The physical names in the state file are those of tracked components.
TypeOK ==
  /\ state \in States /\ work \in States
  /\ \A n \in Names : state.physical[n] # None => IsTracked(state, n)
  /\ objects \in [Names -> [Keys -> Versions \cup {None}]]
  /\ phase \in {"idle", "resolve", "refused", "planned", "prewrite", "steps"}
  /\ config \in Configs \cup {None} /\ accepted \in [mounts : Mounts, moved : Blocks]
  /\ pending \subseteq Names /\ origin \in [Names -> Names]
  /\ todo \subseteq [do : {"change", "adopt", "remove", "forget"}, r : Names \X Keys]
  /\ done \in BOOLEAN /\ applies \in 0 .. MaxApplies /\ breaks \in 0 .. MaxBreaks

\* However often a component was renamed, what is recorded of it is found under
\* the physical name that the state file gives it (moved.go:83-105).
Matching(st) ==
  \A n \in Names, k \in Keys :
    st.tracked[n][k] # None => st.tracked[n][k].at = Physical(st, n)
RecordsMatch == Matching(state) /\ Matching(work)

\* A removal never takes away what a mounted component has under its physical name,
\* also when names were passed on from component to component (moved.go:238-277).
RemovalsSpare ==
  phase \in {"planned", "prewrite", "steps"} =>
    \A s \in todo, r \in Current(config) :
      s.do = "remove" => Affected(s) # <<Physical(work, r[1]), r[2]>>

\* What has become of a component of an earlier configuration.
Successor(c, n) ==
  IF n \in Mounted(c) THEN n
  ELSE IF n \in DOMAIN c.moved THEN Goal(c, n)
  ELSE None

Renames(a, b) ==
  /\ Mounted(b) = {Successor(b, n) : n \in Mounted(a)}
  /\ \A x, y \in Mounted(a) : Successor(b, x) = Successor(b, y) => x = y
  /\ \A n \in Mounted(a) : b.mounts[Successor(b, n)] = a.mounts[n]

\* After a successful apply, a configuration that renames components and does
\* nothing else is not refused and has no steps: "A move alone is not a create,
\* update, adopt, delete, destroy, forget" (docs/dsl-reference.md:168-169).
RenameChangesNothing ==
  done /\ phase \in {"refused", "planned"} /\ Renames(accepted, config)
    => phase = "planned" /\ todo = {}

\* Wherever an apply broke off, its configuration is accepted again
\* (docs/operations-runbook.md:107), where every component declares something: the
\* instance has no template without resources, for which this does not hold.  And whatever moves have done, it remains
\* possible to remove everything (moved.go:49-81, 255-268).
RetryAccepted == phase = "refused" => config # accepted /\ Mounted(config) # {}

\* After a successful apply the host has what is declared, and the state file has
\* that on record and nothing else (engine.go:758-808).
CompletedHolds ==
  done /\ phase = "idle" =>
    \A n \in Names, k \in Keys :
      IF <<n, k>> \in Current(accepted)
      THEN /\ Object(state, <<n, k>>) = Version(accepted, <<n, k>>)
           /\ state.tracked[n][k] = Wanted(state, accepted, <<n, k>>)
      ELSE state.tracked[n][k] = None

TrackedAt(st, p, k) == \E n \in Names : st.tracked[n][k] # None /\ st.tracked[n][k].at = p

KeepsRecord(n, k) ==
  LET rec == state.tracked[n][k] IN
    rec # None /\ ~ TrackedAt(state', rec.at, k)
      => \/ objects'[rec.at][k] = None
         \/ rec.version \in Forgettable /\ <<Successor(accepted, n), k>> \notin Current(accepted)

\* A record leaves the state file when its object is gone.  Only where what was
\* recorded does not ask for a removal it may leave while the object stays, and then
\* only when the resource is declared no more, under its name or under the name that
\* moves give it: no move loses a record (moved.go:46-106, engine.go:428-442).
NothingForgotten == [][\A n \in Names, k \in Keys : KeepsRecord(n, k)]_vars
=============================================================================
