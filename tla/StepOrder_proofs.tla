-------------------------- MODULE StepOrder_proofs --------------------------
(***************************************************************************)
(* Proofs about StepOrder: the function never reports a cycle, and its     *)
(* order honours every authored dependency.                                *)
(***************************************************************************)
EXTENDS StepOrder, WellFoundedInduction, TLAPS

USE StepOrderAssumption

----------------------------------------------------------------------------
(* Typing *)

\* The type invariant is inductive: an emitted step was waiting, so that no
\* step is emitted twice.
LEMMA TypeInductive == ASSUME TypeOK, [Next]_vars PROVE TypeOK'
<1> USE DEF TypeOK, Steps, Resources, Orphans, Phases, input
<1>1. CASE AddAuthored
  <2>1. AuthoredEdges \subseteq Steps \X Steps
    BY DEF AuthoredEdges, AuthoredEdge
  <2> QED BY <1>1, <2>1 DEF AddAuthored
<1>2. CASE AddInferred
  <2>1. scanned + 1 \in Resources
    BY <1>2 DEF AddInferred
  <2>2. InferredEdges(scanned + 1) \subseteq Steps \X Steps
    BY <2>1 DEF InferredEdges
  <2> QED BY <1>2, <2>2 DEF AddInferred
<1>3. CASE InferredDone
  BY <1>3 DEF InferredDone
<1>4. ASSUME NEW s \in Steps, Emit(s) PROVE TypeOK'
  <2>1. s \in Steps /\ s \notin Emitted
    BY <1>4 DEF Emit, First, Ready, Waiting
  <2>2. \A i \in 1 .. Len(ordered) : ordered[i] # s
    BY <2>1 DEF Emitted
  <2>3. /\ ordered' = Append(ordered, s)
        /\ UNCHANGED <<removes, authored, inferred, phase, scanned, edges>>
    BY <1>4 DEF Emit
  <2>4. \A i, j \in 1 .. Len(ordered)' : ordered'[i] = ordered'[j] => i = j
    BY <2>2, <2>3
  <2> QED BY <2>1, <2>3, <2>4
<1>5. CASE Ordered
  BY <1>5 DEF Ordered
<1>6. CASE UNCHANGED vars
  BY <1>6 DEF vars
<1> QED BY <1>1, <1>2, <1>3, <1>4, <1>5, <1>6 DEF Next

\* The inputs have the types the invariant gives them.
LEMMA InitTyped == Init => TypeOK
<1> SUFFICES ASSUME Init PROVE TypeOK
  OBVIOUS
<1>1. PICK own \in Scheduled, left \in Recorded :
          authored = [s \in Steps |-> IF s \in Resources THEN own[s] ELSE left[s]]
  BY DEF Init
<1>2. authored \in [Steps -> SUBSET Steps]
  <2>1. \A s \in Resources : own[s] \subseteq Steps
    BY DEF Scheduled, Resources, Steps
  <2>2. \A s \in Orphans : left[s] \subseteq Steps
    BY DEF Recorded
  <2>3. \A s \in Steps : s \in Resources \/ s \in Orphans
    BY DEF Steps, Resources, Orphans
  <2> QED BY <1>1, <2>1, <2>2, <2>3
<1>3. ordered = << >> /\ edges = {} /\ scanned = 0 /\ phase = "authored"
  BY DEF Init
<1>4. removes \subseteq Resources /\ inferred \in [Resources -> SUBSET Resources]
  BY DEF Init, Scheduled
<1> QED BY <1>2, <1>3, <1>4 DEF TypeOK, Phases

\* The type invariant holds in every run of the function.
THEOREM OrderTyping == Spec => []TypeOK
BY InitTyped, TypeInductive, PTL DEF Spec

----------------------------------------------------------------------------
(* The edges are acyclic *)

\* What the input promises about the authored dependencies.
InputInv ==
    /\ \A s \in Resources : authored[s] \subseteq 1 .. (s - 1)
    /\ \E level \in [Orphans -> Orphans] :
           \A o \in Orphans : \A d \in authored[o] \cap Orphans : level[o] < level[d]

\* The steps can be put on bounded levels that every edge climbs.
Levelled(E) ==
    \E K \in Nat : \E level \in [Steps -> 0 .. K] :
        \A e \in E : level[e[1]] < level[e[2]]

Acyclic ==
    /\ TypeOK
    /\ InputInv
    /\ Levelled(edges)

\* Reversing the edges of removals and orphans creates no cycle: orphans come
\* first, on the levels of their recorded graph, then the dependencies that
\* stay, upwards, then those that are removed, downwards.
LEMMA AuthoredLevelled == ASSUME TypeOK, InputInv PROVE Levelled(AuthoredEdges)
<1> DEFINE N == Current + Orphaned
<1> USE DEF Steps, Resources, Orphans
<1>1. PICK old \in [Orphans -> Orphans] :
          \A o \in Orphans : \A d \in authored[o] \cap Orphans : old[o] < old[d]
  BY DEF InputInv
<1> DEFINE level == [s \in Steps |-> IF s \in Orphans THEN old[s] - Current
                                    ELSE IF s \in removes THEN 3 * N - s
                                    ELSE N + s]
<1>2. level \in [Steps -> 0 .. 3 * N]
  <2> SUFFICES ASSUME NEW s \in Steps PROVE level[s] \in 0 .. 3 * N
    OBVIOUS
  <2>1. CASE s \in Orphans
    <3>1. old[s] \in Orphans
      BY <2>1, <1>1
    <3> QED BY <2>1, <3>1
  <2>2. CASE s \notin Orphans
    BY <2>2
  <2> QED BY <2>1, <2>2
<1>3. ASSUME NEW e \in AuthoredEdges PROVE level[e[1]] < level[e[2]]
  <2>a. PICK s \in Steps : \E d \in authored[s] : e = AuthoredEdge(s, d)
    BY <1>3 DEF AuthoredEdges
  <2>1. PICK d \in authored[s] : e = AuthoredEdge(s, d)
    BY <2>a
  <2>2. d \in Steps
    BY <2>1 DEF TypeOK
  <2>3. CASE s \in Orphans /\ d \in Orphans
    <3>1. e[1] = s /\ e[2] = d
      BY <2>1, <2>3 DEF AuthoredEdge, DependentFirst
    <3>2. old[s] \in Orphans /\ old[d] \in Orphans /\ old[s] < old[d]
      BY <1>1, <2>1, <2>3
    <3>3. level[s] = old[s] - Current /\ level[d] = old[d] - Current
      BY <2>3, <2>2
    <3>4. old[s] \in Int /\ old[d] \in Int /\ Current \in Int
      BY <3>2, StepOrderAssumption
    <3> HIDE DEF level
    <3> QED BY <3>1, <3>2, <3>3, <3>4
  <2>4. CASE s \in Orphans /\ d \in Resources
    <3>1. e[1] = s /\ e[2] = d
      BY <2>1, <2>4 DEF AuthoredEdge, DependentFirst
    <3>2. old[s] \in Orphans
      BY <1>1, <2>4
    <3>3. level[s] = old[s] - Current
      BY <2>4
    <3>4. level[d] > N
      BY <2>4, <2>2
    <3>5. level[d] \in 0 .. 3 * N
      BY <1>2, <2>2
    <3> HIDE DEF level
    <3> QED BY <3>1, <3>2, <3>3, <3>4, <3>5
  <2>5. CASE s \in Resources
    <3>0. d \in 1 .. (s - 1)
      BY <2>5 DEF InputInv
    <3>1. d \in Resources /\ d < s /\ s \notin Orphans /\ d \notin Orphans
      BY <2>5, <3>0
    <3>2. level[s] \in {3 * N - s, N + s} /\ s \in Steps
      BY <3>1
    <3>3. CASE d \in removes
      <4>1. e[1] = s /\ e[2] = d
        BY <2>1, <3>3 DEF AuthoredEdge, DependentFirst
      <4>2. level[d] = 3 * N - d
        BY <3>1, <3>3, <2>2
      <4> QED BY <4>1, <4>2, <3>1, <3>2
    <3>4. CASE d \notin removes
      <4>1. e[1] = d /\ e[2] = s
        BY <2>1, <3>1, <3>4 DEF AuthoredEdge, DependentFirst
      <4>2. level[d] = N + d
        BY <3>1, <3>4, <2>2
      <4> QED BY <4>1, <4>2, <3>1, <3>2
    <3> QED BY <3>3, <3>4
  <2> QED BY <2>2, <2>3, <2>4, <2>5
<1>4. 3 * N \in Nat
  OBVIOUS
<1> QED BY <1>2, <1>3, <1>4 DEF Levelled

\* Adding the inferred edges of one step creates no cycle: what the step
\* reaches is lifted above everything else, and a dependency it reaches gets
\* no edge.
LEMMA InferredLevelled ==
    ASSUME TypeOK, Levelled(edges), NEW s \in Resources
    PROVE  Levelled(edges \cup InferredEdges(s))
<1> USE DEF Steps, Resources
<1>a. PICK K \in Nat : \E level \in [Steps -> 0 .. K] :
                           \A e \in edges : level[e[1]] < level[e[2]]
  BY DEF Levelled
<1>1. PICK level \in [Steps -> 0 .. K] : \A e \in edges : level[e[1]] < level[e[2]]
  BY <1>a
<1> DEFINE Reached == {z \in Steps : PathExists(edges, s, z)}
           lifted == [z \in Steps |-> IF z \in Reached THEN level[z] + (K + 1) ELSE level[z]]
<1>2. s \in Reached
  BY DEF PathExists
<1>3. \A e \in edges : e[1] \in Steps /\ e[2] \in Steps
  BY DEF TypeOK
<1>4. \A e \in edges : e[1] \in Reached => e[2] \in Reached
  BY <1>3 DEF PathExists, Closed
<1>5. lifted \in [Steps -> 0 .. (2 * K + 1)]
  OBVIOUS
<1>6. ASSUME NEW e \in edges PROVE lifted[e[1]] < lifted[e[2]]
  <2>1. level[e[1]] < level[e[2]] /\ level[e[1]] \in 0 .. K /\ level[e[2]] \in 0 .. K
    BY <1>1, <1>3
  <2> QED BY <2>1, <1>3, <1>4
<1>7. ASSUME NEW e \in InferredEdges(s) PROVE lifted[e[1]] < lifted[e[2]]
  <2>1. PICK d \in inferred[s] : e = <<d, s>> /\ ~PathExists(edges, s, d)
    BY DEF InferredEdges
  <2>2. d \in Steps /\ d \notin Reached /\ s \in Steps
    BY <2>1 DEF TypeOK
  <2>3. level[d] \in 0 .. K /\ level[s] \in 0 .. K
    BY <2>2, <1>1
  <2>4. lifted[d] = level[d] /\ lifted[s] = level[s] + (K + 1)
    BY <2>2, <1>2
  <2>5. e[1] = d /\ e[2] = s
    BY <2>1
  <2> HIDE DEF lifted
  <2> QED BY <2>3, <2>4, <2>5
<1>8. 2 * K + 1 \in Nat
  OBVIOUS
<1> QED BY <1>5, <1>6, <1>7, <1>8 DEF Levelled

\* A non-empty set of natural numbers has a least element.
LEMMA LeastNatural ==
    ASSUME NEW T, T \subseteq Nat, T # {} PROVE \E x \in T : \A y \in T : x <= y
<1>1. \E x \in T : \A y \in T : <<y, x>> \notin OpToRel(<, Nat)
  BY NatLessThanWellFounded, WFMin
<1>2. PICK x \in T : \A y \in T : <<y, x>> \notin OpToRel(<, Nat)
  BY <1>1
<1>3. ASSUME NEW y \in T PROVE x <= y
  <2>1. <<y, x>> \notin {p \in Nat \X Nat : p[1] < p[2]}
    BY <1>2 DEF OpToRel
  <2>2. x \in Nat /\ y \in Nat
    OBVIOUS
  <2> HIDE DEF OpToRel
  <2> QED BY <2>1, <2>2
<1> QED BY <1>3

\* While steps are left, one of them is ready: the lowest that is left.
LEMMA SomeReady ==
    ASSUME TypeOK, Levelled(edges), Waiting # {} PROVE Ready # {}
<1>a. PICK K \in Nat : \E level \in [Steps -> 0 .. K] :
                           \A e \in edges : level[e[1]] < level[e[2]]
  BY DEF Levelled
<1>1. PICK level \in [Steps -> 0 .. K] : \A e \in edges : level[e[1]] < level[e[2]]
  BY <1>a
<1> DEFINE T == {level[s] : s \in Waiting}
<1>2. T \subseteq Nat /\ T # {}
  BY <1>1 DEF Waiting
<1>3. PICK s \in Waiting : \A t \in Waiting : level[s] <= level[t]
  <2> HIDE DEF T
  <2>1. \E x \in T : \A y \in T : x <= y
    BY <1>2, LeastNatural
  <2> QED BY <2>1 DEF T
<1>4. ASSUME NEW e \in edges, e[2] = s PROVE e[1] \in Emitted
  <2>1. e[1] \in Steps /\ e[2] \in Steps
    BY DEF TypeOK
  <2>2. level[e[1]] < level[s] /\ level[e[1]] \in 0 .. K /\ level[s] \in 0 .. K
    BY <1>1, <1>4, <2>1
  <2>3. e[1] \notin Waiting
    BY <1>3, <2>2
  <2> QED BY <2>1, <2>3 DEF Waiting
<1> QED BY <1>4 DEF Ready

\* The levels survive every step.
LEMMA AcyclicInductive == ASSUME Acyclic, [Next]_vars PROVE Acyclic'
<1>1. TypeOK'
  BY TypeInductive DEF Acyclic
<1> USE DEF Acyclic, input
<1>2. UNCHANGED input
  BY DEF Next, vars, AddAuthored, AddInferred, InferredDone, Emit, Ordered
<1>3. InputInv'
  BY <1>2 DEF InputInv
<1>4. CASE AddAuthored
  <2>1. Levelled(AuthoredEdges)
    BY AuthoredLevelled
  <2> QED BY <1>1, <1>3, <1>4, <2>1 DEF AddAuthored, Levelled
<1>5. CASE AddInferred
  <2>1. scanned + 1 \in Resources
    BY <1>5 DEF AddInferred, TypeOK, Resources
  <2>2. Levelled(edges \cup InferredEdges(scanned + 1))
    BY <2>1, InferredLevelled
  <2> QED BY <1>1, <1>3, <1>5, <2>2 DEF AddInferred, Levelled
<1>6. CASE InferredDone \/ (\E s \in Steps : Emit(s)) \/ Ordered \/ UNCHANGED vars
  <2>1. UNCHANGED edges
    BY <1>6 DEF InferredDone, Emit, Ordered, vars
  <2> QED BY <1>1, <1>3, <2>1 DEF Levelled
<1> QED BY <1>4, <1>5, <1>6 DEF Next

\* An acyclic configuration always gets a plan, however many resources it has
\* and whatever is removed or orphaned.
THEOREM NoCycle == Spec => []NoSpuriousCycle
<1>1. Init => Acyclic
  <2> SUFFICES ASSUME Init PROVE Acyclic
    OBVIOUS
  <2>1. TypeOK
    BY InitTyped
  <2>2. InputInv
    <3>1. PICK own \in Scheduled, left \in Recorded :
              authored = [s \in Steps |-> IF s \in Resources THEN own[s] ELSE left[s]]
      BY DEF Init
    <3>2. \A o \in Orphans : authored[o] = left[o]
      BY <3>1 DEF Steps, Resources, Orphans
    <3>3. \A s \in Resources : authored[s] = own[s]
      BY <3>1 DEF Steps, Resources
    <3> QED BY <3>2, <3>3 DEF InputInv, Scheduled, Recorded
  <2>3. Levelled(edges)
    <3>1. [s \in Steps |-> 0] \in [Steps -> 0 .. 0]
      OBVIOUS
    <3>2. edges = {}
      BY DEF Init
    <3> QED BY <3>1, <3>2 DEF Levelled
  <2> QED BY <2>1, <2>2, <2>3 DEF Acyclic
<1>2. Acyclic => NoSpuriousCycle
  BY SomeReady DEF Acyclic, NoSpuriousCycle, ReportsCycle
<1> QED BY <1>1, <1>2, AcyclicInductive, PTL DEF Spec

----------------------------------------------------------------------------
(* The order honours the edges *)

\* An edge out of a resource climbs, or ends in something torn down.
Climbing(E) ==
    \A e \in E : e[1] \in Resources =>
        e[2] \in Resources /\ (e[1] < e[2] \/ e[2] \in TornDown)

\* The authored edges are in, and of the scanned steps the inferred ones that
\* no teardown can contradict.
Built ==
    /\ phase = "authored" => edges = {} /\ scanned = 0
    /\ phase # "authored" => AuthoredEdges \subseteq edges
    /\ \A s \in 1 .. scanned : \A d \in inferred[s] :
           (\A r \in TornDown : d < r) => <<d, s>> \in edges
    /\ phase \in {"emit", "done"} => scanned = Current

\* What an edge ends in was emitted after what it starts from.
Honoured ==
    /\ \A e \in edges : \A j \in 1 .. Len(ordered) :
           ordered[j] = e[2] => \E i \in 1 .. Len(ordered) : i < j /\ ordered[i] = e[1]
    /\ phase \in {"authored", "inferred"} => ordered = << >>
    /\ phase = "done" => Waiting = {}

OrderInv ==
    /\ TypeOK
    /\ \A s \in Resources : authored[s] \subseteq 1 .. (s - 1)
    /\ \A s \in Resources : inferred[s] \subseteq 1 .. (s - 1)
    /\ Climbing(edges)
    /\ Built
    /\ Honoured

\* A reversed authored edge ends in a torn-down resource, any other climbs.
LEMMA AuthoredClimb ==
    ASSUME TypeOK, \A s \in Resources : authored[s] \subseteq 1 .. (s - 1)
    PROVE  Climbing(AuthoredEdges)
<1> SUFFICES ASSUME NEW e \in AuthoredEdges, e[1] \in Resources
             PROVE  e[2] \in Resources /\ (e[1] < e[2] \/ e[2] \in TornDown)
  BY DEF Climbing
<1>1. PICK s \in Steps : \E d \in authored[s] : e = AuthoredEdge(s, d)
  BY DEF AuthoredEdges
<1>2. PICK d \in authored[s] : e = AuthoredEdge(s, d)
  BY <1>1
<1>3. s \in Resources
  BY <1>2 DEF AuthoredEdge, DependentFirst, Steps, Resources, Orphans
<1>4. d \in 1 .. (s - 1)
  BY <1>3
<1>5. d \in Resources /\ d < s /\ s \notin Orphans
  BY <1>3, <1>4 DEF Resources, Orphans
<1>6. CASE d \in removes
  <2>1. e[2] = d
    BY <1>2, <1>6 DEF AuthoredEdge, DependentFirst
  <2>2. d \in TornDown
    BY <1>2, <1>3, <1>6 DEF TornDown
  <2> QED BY <2>1, <2>2, <1>5
<1>7. CASE d \notin removes
  <2>1. e[1] = d /\ e[2] = s
    BY <1>2, <1>5, <1>7 DEF AuthoredEdge, DependentFirst
  <2> QED BY <2>1, <1>3, <1>5
<1> QED BY <1>6, <1>7

\* A dependency below everything torn down is reached by nothing above it.
LEMMA NotOverridden ==
    ASSUME TypeOK, Climbing(edges), NEW s \in Resources, NEW d \in Resources, d < s,
           \A r \in TornDown : d < r
    PROVE  ~PathExists(edges, s, d)
<1> DEFINE C == {z \in Resources : d < z}
<1>1. Closed(C, edges)
  <2> SUFFICES ASSUME NEW e \in edges, e[1] \in C PROVE e[2] \in C
    BY DEF Closed
  <2>1. e[2] \in Resources /\ (e[1] < e[2] \/ e[2] \in TornDown)
    BY DEF Climbing
  <2> QED BY <2>1 DEF Resources
<1>2. s \in C /\ d \notin C /\ C \in SUBSET Steps
  BY DEF Resources, Steps
<1> HIDE DEF C
<1> QED BY <1>1, <1>2 DEF PathExists

\* Every step keeps the order honoured: edges are added before anything is
\* emitted, and a step is emitted after all it waits for.
LEMMA OrderInductive == ASSUME OrderInv, [Next]_vars PROVE OrderInv'
<1> USE DEF OrderInv
<1>1. TypeOK'
  BY TypeInductive
<1>2. UNCHANGED input
  BY DEF Next, vars, input, AddAuthored, AddInferred, InferredDone, Emit, Ordered
<1>3. /\ (\A s \in Resources : authored[s] \subseteq 1 .. (s - 1))'
      /\ (\A s \in Resources : inferred[s] \subseteq 1 .. (s - 1))'
      /\ TornDown' = TornDown
      /\ AuthoredEdges' = AuthoredEdges
  BY <1>2 DEF input, TornDown, AuthoredEdges, AuthoredEdge, DependentFirst
<1>4. CASE AddAuthored
  <2>1. /\ phase = "authored" /\ phase' = "inferred"
        /\ edges' = AuthoredEdges
        /\ UNCHANGED <<removes, authored, inferred, scanned, ordered>>
    BY <1>4 DEF AddAuthored, input
  <2>2. Climbing(edges)'
    BY <1>3, <2>1, AuthoredClimb DEF Climbing
  <2>3. scanned' = 0 /\ ordered' = << >>
    BY <2>1 DEF Built, Honoured
  <2>4. Built'
    BY <1>3, <2>1, <2>3 DEF Built
  <2>5. Honoured'
    BY <2>1, <2>3 DEF Honoured
  <2> QED BY <1>1, <1>3, <2>2, <2>4, <2>5
<1>5. CASE AddInferred
  <2> DEFINE s == scanned + 1
  <2>1. /\ phase = "inferred" /\ phase' = "inferred"
        /\ scanned' = s
        /\ edges' = edges \cup InferredEdges(s)
        /\ UNCHANGED <<removes, authored, inferred, ordered>>
    BY <1>5 DEF AddInferred, input
  <2>2. s \in Resources
    BY <1>5 DEF AddInferred, TypeOK, Resources
  <2>3. ASSUME NEW d \in inferred[s] PROVE d \in Resources /\ d < s
    BY <2>2 DEF Resources
  <2>4. Climbing(edges)'
    <3> SUFFICES ASSUME NEW e \in edges', e[1] \in Resources
                 PROVE  e[2] \in Resources /\ (e[1] < e[2] \/ e[2] \in TornDown)
      BY <1>3 DEF Climbing
    <3>1. CASE e \in edges
      BY <3>1 DEF Climbing
    <3>2. CASE e \in InferredEdges(s)
      <4>1. PICK d \in inferred[s] : e = <<d, s>>
        BY <3>2 DEF InferredEdges
      <4>2. e[1] = d /\ e[2] = s
        BY <4>1
      <4> QED BY <4>2, <2>2, <2>3
    <3> QED BY <2>1, <3>1, <3>2
  <2>5. ASSUME NEW d \in inferred[s], \A r \in TornDown : d < r
        PROVE  <<d, s>> \in edges'
    <3>1. ~PathExists(edges, s, d)
      BY <2>2, <2>3, <2>5, NotOverridden
    <3> QED BY <2>1, <3>1 DEF InferredEdges
  <2>6. Built'
    <3>1. \A t \in (1 .. scanned)' : t \in 1 .. scanned \/ t = s
      BY <2>1 DEF TypeOK
    <3>2. AuthoredEdges \subseteq edges
      BY <2>1 DEF Built
    <3>3. \A t \in (1 .. scanned)' : \A d \in inferred[t] :
              (\A r \in TornDown : d < r) => <<d, t>> \in edges'
      BY <2>1, <2>5, <3>1 DEF Built
    <3> HIDE DEF s
    <3> QED BY <1>3, <2>1, <3>2, <3>3 DEF Built
  <2>7. Honoured'
    <3>1. ordered' = << >>
      BY <2>1 DEF Honoured
    <3> HIDE DEF s
    <3> QED BY <2>1, <3>1 DEF Honoured
  <2> QED BY <1>1, <1>3, <2>4, <2>6, <2>7
<1>6. ASSUME NEW s \in Steps, Emit(s) PROVE OrderInv'
  <2>1. /\ phase = "emit" /\ s \in Ready
        /\ ordered' = Append(ordered, s)
        /\ UNCHANGED <<removes, authored, inferred, phase, scanned, edges>>
    BY <1>6 DEF Emit, First, input
  <2>2. Climbing(edges)' /\ Built'
    BY <1>3, <2>1 DEF Climbing, Built
  <2>3. ordered \in Seq(Steps) /\ Len(ordered) \in Nat
    BY DEF TypeOK
  <2>4. \A e \in edges : \A j \in 1 .. Len(ordered)' :
            ordered'[j] = e[2] => \E i \in 1 .. Len(ordered)' : i < j /\ ordered'[i] = e[1]
    <3> SUFFICES ASSUME NEW e \in edges, NEW j \in 1 .. Len(ordered)', ordered'[j] = e[2]
                 PROVE  \E i \in 1 .. Len(ordered)' : i < j /\ ordered'[i] = e[1]
      OBVIOUS
    <3>1. /\ Len(ordered)' = Len(ordered) + 1
          /\ \A i \in 1 .. Len(ordered) : ordered'[i] = ordered[i]
          /\ ordered'[Len(ordered) + 1] = s
      BY <2>1, <2>3
    <3>2. CASE j \in 1 .. Len(ordered)
      <4>1. PICK i \in 1 .. Len(ordered) : i < j /\ ordered[i] = e[1]
        BY <3>1, <3>2 DEF Honoured
      <4> QED BY <4>1, <3>1, <2>3
    <3>3. CASE j = Len(ordered) + 1
      <4>1. e[1] \in Emitted
        BY <2>1, <3>1, <3>3 DEF Ready
      <4>2. PICK i \in 1 .. Len(ordered) : ordered[i] = e[1]
        BY <4>1 DEF Emitted
      <4> QED BY <4>2, <3>1, <3>3, <2>3
    <3> QED BY <3>1, <3>2, <3>3, <2>3
  <2>5. Honoured'
    BY <2>1, <2>4 DEF Honoured
  <2> QED BY <1>1, <1>3, <2>2, <2>5
<1>7. CASE InferredDone \/ Ordered \/ UNCHANGED vars
  <2>1. UNCHANGED <<edges, ordered, scanned>>
    BY <1>7 DEF InferredDone, Ordered, vars
  <2>2. Waiting' = Waiting
    BY <2>1 DEF Waiting, Emitted
  <2>3. \/ phase = "inferred" /\ phase' = "emit" /\ scanned = Current
        \/ phase = "emit" /\ phase' = "done" /\ Waiting = {}
        \/ phase' = phase
    BY <1>7 DEF InferredDone, Ordered, vars
  <2>4. Climbing(edges)' /\ Built'
    <3>1. (phase = "authored" => edges = {} /\ scanned = 0)'
      BY <2>1, <2>3 DEF Built
    <3>2. (phase # "authored" => AuthoredEdges \subseteq edges)'
      BY <1>3, <2>1, <2>3 DEF Built
    <3>3. (phase \in {"emit", "done"} => scanned = Current)'
      BY <2>1, <2>3 DEF Built
    <3>4. (\A s \in 1 .. scanned : \A d \in inferred[s] :
              (\A r \in TornDown : d < r) => <<d, s>> \in edges)'
      BY <1>2, <1>3, <2>1 DEF Built, input
    <3>5. Climbing(edges)'
      BY <1>3, <2>1 DEF Climbing
    <3> QED BY <3>1, <3>2, <3>3, <3>4, <3>5 DEF Built
  <2>5. Honoured'
    <3>1. (phase \in {"authored", "inferred"} => ordered = << >>)'
      BY <2>1, <2>3 DEF Honoured
    <3>2. (phase = "done" => Waiting = {})'
      BY <2>2, <2>3 DEF Honoured
    <3>3. (\A e \in edges : \A j \in 1 .. Len(ordered) :
              ordered[j] = e[2] => \E i \in 1 .. Len(ordered) : i < j /\ ordered[i] = e[1])'
      BY <2>1 DEF Honoured
    <3> QED BY <3>1, <3>2, <3>3 DEF Honoured
  <2> QED BY <1>1, <1>3, <2>4, <2>5
<1> QED BY <1>4, <1>5, <1>6, <1>7 DEF Next

\* The invariant holds in every run of the function.
LEMMA OrderInvariance == Spec => []OrderInv
<1>1. Init => OrderInv
  <2> SUFFICES ASSUME Init PROVE OrderInv
    OBVIOUS
  <2>1. TypeOK
    BY InitTyped
  <2>2. \A s \in Resources : authored[s] \subseteq 1 .. (s - 1)
    <3>1. PICK own \in Scheduled, left \in Recorded :
              authored = [s \in Steps |-> IF s \in Resources THEN own[s] ELSE left[s]]
      BY DEF Init
    <3>2. \A s \in Resources : authored[s] = own[s]
      BY <3>1 DEF Steps, Resources
    <3> QED BY <3>2 DEF Scheduled
  <2>3. \A s \in Resources : inferred[s] \subseteq 1 .. (s - 1)
    BY DEF Init, Scheduled
  <2>4. phase = "authored" /\ edges = {} /\ scanned = 0 /\ ordered = << >>
    BY DEF Init
  <2> QED BY <2>1, <2>2, <2>3, <2>4 DEF OrderInv, Climbing, Built, Honoured
<1> QED BY <1>1, OrderInductive, PTL DEF Spec

\* In a finished order both ends of an edge are there, in the edge's direction.
LEMMA EdgeHonoured ==
    ASSUME OrderInv, phase = "done", NEW a \in Steps, NEW b \in Steps, <<a, b>> \in edges
    PROVE  Before(a, b)
<1>1. b \in Emitted
  BY DEF OrderInv, Honoured, Waiting
<1>2. PICK j \in 1 .. Len(ordered) : ordered[j] = b
  BY <1>1 DEF Emitted
<1>3. \E i \in 1 .. Len(ordered) : i < j /\ ordered[i] = a
  BY <1>2 DEF OrderInv, Honoured
<1> QED BY <1>2, <1>3 DEF Before

\* The finished order honours every authored dependency in the direction its
\* removal asks for (orderStepsForExecution, dependency_order.go:54-73).
THEOREM AuthoredOrderHolds == Spec => []AuthoredOrder
<1>1. OrderInv => AuthoredOrder
  <2> SUFFICES ASSUME OrderInv, phase = "done", NEW s \in Steps, NEW d \in authored[s]
               PROVE  IF s \in Orphans \/ d \in removes THEN Before(s, d) ELSE Before(d, s)
    BY DEF AuthoredOrder
  <2>1. d \in Steps
    BY DEF OrderInv, TypeOK
  <2>2. AuthoredEdge(s, d) \in edges
    BY DEF OrderInv, Built, AuthoredEdges
  <2> QED BY <2>1, <2>2, EdgeHonoured DEF AuthoredEdge, DependentFirst
<1> QED BY <1>1, OrderInvariance, PTL

\* Only a teardown overrides an inferred prerequisite (addInferredBefore,
\* dependency_order.go:45-52).
THEOREM InferredKeptHolds == Spec => []InferredKept
<1>1. OrderInv => InferredKept
  <2> SUFFICES ASSUME OrderInv, phase = "done", NEW s \in Resources, NEW d \in inferred[s],
                      \A r \in TornDown : d < r
               PROVE  Before(d, s)
    BY DEF InferredKept
  <2>1. s \in 1 .. scanned
    BY DEF OrderInv, Built, Resources
  <2>2. <<d, s>> \in edges
    BY <2>1 DEF OrderInv, Built
  <2>3. d \in Steps /\ s \in Steps
    BY DEF OrderInv, TypeOK, Resources, Steps
  <2> QED BY <2>2, <2>3, EdgeHonoured
<1> QED BY <1>1, OrderInvariance, PTL
============================================================================
