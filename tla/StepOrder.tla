----------------------------- MODULE StepOrder -----------------------------
(***************************************************************************)
(* The execution order of one host's plan: orderStepsForExecution of       *)
(* src/internal/core/engine/dependency_order.go.                           *)
(*                                                                         *)
(* The steps are named by their rank in the unordered plan.  Steps         *)
(* 1 .. Current are the resources of the configuration, in the order the   *)
(* resource graph schedules them, so that a resource only depends on       *)
(* lower ranks; steps Current+1 .. Current+Orphaned are the resources that *)
(* are left in the state alone, which planHost appends.  The function      *)
(*   - adds an edge for every authored dependency, reversed when the       *)
(*     dependency's remote object is going away (AddAuthored);             *)
(*   - adds, step by step, the inferred dependencies that contradict no    *)
(*     path built so far (AddInferred);                                    *)
(*   - emits the steps, the lowest ready rank first (Emit), and fails when *)
(*     none is ready and some are left (ReportsCycle).                     *)
(* Inferred edges of one step all end in that step, so the order in which  *)
(* they are tried does not matter and one action adds them together.       *)
(***************************************************************************)
EXTENDS Naturals, Sequences

CONSTANTS Current,    \* how many resources the configuration has
          Orphaned    \* how many resources are only in the state

ASSUME StepOrderAssumption == Current \in Nat /\ Orphaned \in Nat

VARIABLES removes,    \* the configured steps that delete their remote object
          authored,   \* step -> ExplicitDependsOn, or an orphan's Prior.DependsOn
          inferred,   \* step -> the dependencies the graph compiler inferred
          phase,      \* where the function is
          scanned,    \* how many steps have had their inferred edges added
          edges,      \* the pairs <<before, after>> built so far
          ordered     \* the steps emitted so far

vars == <<removes, authored, inferred, phase, scanned, edges, ordered>>
input == <<removes, authored, inferred>>

Resources == 1 .. Current
Orphans == (Current + 1) .. (Current + Orphaned)
Steps == 1 .. (Current + Orphaned)
Phases == {"authored", "inferred", "emit", "done"}

----------------------------------------------------------------------------
(* What the function is called with. *)

\* The graph schedule puts a dependency ahead of its dependent.
Scheduled == {deps \in [Resources -> SUBSET Resources] :
                 \A s \in Resources : deps[s] \subseteq 1 .. (s - 1)}

\* The orphans' recorded dependencies come from a configuration that was
\* acyclic when it was recorded.
Recorded == {deps \in [Orphans -> SUBSET Steps] :
                \E level \in [Orphans -> Orphans] :
                    \A o \in Orphans : \A d \in deps[o] \cap Orphans :
                        level[o] < level[d]}

Init ==
    /\ removes \in SUBSET Resources
    /\ \E own \in Scheduled, left \in Recorded :
           authored = [s \in Steps |-> IF s \in Resources THEN own[s] ELSE left[s]]
    /\ inferred \in Scheduled
    /\ \A s \in Resources : inferred[s] \cap authored[s] = {}
    /\ phase = "authored"
    /\ scanned = 0
    /\ edges = {}
    /\ ordered = << >>

----------------------------------------------------------------------------
(* The edges *)

\* An authored dependency runs first, unless its object is being removed or
\* the dependent is an orphan: then the dependent runs first.
DependentFirst(s, d) == s \in Orphans \/ d \in removes

\* Mutant: a removal keeps the forward direction.
AuthoredEdgeForward(s, d) == IF s \in Orphans THEN <<s, d>> ELSE <<d, s>>

AuthoredEdge(s, d) == IF DependentFirst(s, d) THEN <<s, d>> ELSE <<d, s>>

AuthoredEdges == UNION {{AuthoredEdge(s, d) : d \in authored[s]} : s \in Steps}

Closed(C, E) == \A e \in E : e[1] \in C => e[2] \in C

\* actionPathExists: every set of steps that holds a and is closed under the
\* edges holds b.
PathExists(E, a, b) == \A C \in SUBSET Steps : a \in C /\ Closed(C, E) => b \in C

\* Mutants: no look at the paths built so far; no order for what is removed.
InferredEdgesAll(s) == {<<d, s>> : d \in inferred[s]}
InferredEdgesOfKept(s) ==
    {<<d, s>> : d \in {x \in inferred[s] \ removes : ~PathExists(edges, s, x)}}

InferredEdges(s) == {<<d, s>> : d \in {x \in inferred[s] : ~PathExists(edges, s, x)}}

AddAuthored ==
    /\ phase = "authored"
    /\ edges' = AuthoredEdges
    /\ phase' = "inferred"
    /\ UNCHANGED <<input, scanned, ordered>>

AddInferred ==
    /\ phase = "inferred"
    /\ scanned < Current
    /\ scanned' = scanned + 1
    /\ edges' = edges \cup InferredEdges(scanned + 1)
    /\ UNCHANGED <<input, phase, ordered>>

InferredDone ==
    /\ phase = "inferred"
    /\ scanned = Current
    /\ phase' = "emit"
    /\ UNCHANGED <<input, scanned, edges, ordered>>

----------------------------------------------------------------------------
(* The order *)

Emitted == {ordered[i] : i \in 1 .. Len(ordered)}
Waiting == Steps \ Emitted

Ready == {s \in Waiting : \A e \in edges : e[2] = s => e[1] \in Emitted}

\* The ready queue is kept sorted by rank.
First(S, s) == s \in S /\ \A t \in S : s <= t

Emit(s) ==
    /\ phase = "emit"
    /\ First(Ready, s)
    /\ ordered' = Append(ordered, s)
    /\ UNCHANGED <<input, phase, scanned, edges>>

Ordered ==
    /\ phase = "emit"
    /\ Waiting = {}
    /\ phase' = "done"
    /\ UNCHANGED <<input, scanned, edges, ordered>>

\* The function reports a dependency cycle in this state.
ReportsCycle == phase = "emit" /\ Ready = {} /\ Waiting # {}

Next == \/ AddAuthored
        \/ AddInferred
        \/ InferredDone
        \/ \E s \in Steps : Emit(s)
        \/ Ordered

Spec == Init /\ [][Next]_vars

----------------------------------------------------------------------------
(* Properties *)

TypeOK ==
    /\ removes \subseteq Resources
    /\ authored \in [Steps -> SUBSET Steps]
    /\ inferred \in [Resources -> SUBSET Resources]
    /\ phase \in Phases
    /\ scanned \in 0 .. Current
    /\ edges \subseteq Steps \X Steps
    /\ ordered \in Seq(Steps)
    /\ \A i, j \in 1 .. Len(ordered) : ordered[i] = ordered[j] => i = j

Before(a, b) == \E i, j \in 1 .. Len(ordered) : /\ i < j
                                               /\ ordered[i] = a
                                               /\ ordered[j] = b

\* A configuration whose dependencies are acyclic always gets a plan: reversing
\* edges for removals and orphans, and mixing them with inferred edges of the
\* forward direction, never makes the function report a cycle
\* (dependency_order.go:121-124).
NoSpuriousCycle == ~ReportsCycle

\* In the finished order every authored dependency is honoured, in the
\* direction its removal asks for: a dependent runs before the removal of what
\* it names, an orphan before what its recorded dependencies name, and any
\* other dependent after its dependency.
AuthoredOrder ==
    phase = "done" =>
        \A s \in Steps : \A d \in authored[s] :
            IF s \in Orphans \/ d \in removes THEN Before(s, d) ELSE Before(d, s)

\* What is torn down here: removed although some dependent names it.
TornDown == {d \in removes : \E s \in Resources : d \in authored[s]}

\* Only a teardown overrides an inferred prerequisite: one that is scheduled
\* ahead of everything being torn down still runs before its dependent, and
\* so do all of them when nothing is torn down.
InferredKept ==
    phase = "done" =>
        \A s \in Resources : \A d \in inferred[s] :
            (\A r \in TornDown : d < r) => Before(d, s)
============================================================================
