------------------------ MODULE ComponentMoves_proofs ------------------------
(***************************************************************************)
(* Proofs about ComponentMoves for any set of names, any templates and any *)
(* number of applies: the state file stays well formed, its records match  *)
(* its physical names, removals spare what is mounted, what an apply       *)
(* completed is on the host, no record is lost, a broken apply is accepted *)
(* again, and a rename changes nothing.                                    *)
(***************************************************************************)
EXTENDS ComponentMoves, TLAPS

Planned == phase \in {"planned", "prewrite", "steps"}

\* What a step in the plan is about.
StepsInv ==
  Planned => \A s \in todo :
    IF Drops(s)
    THEN /\ s.r \notin Current(config) /\ work.tracked[s.r[1]][s.r[2]] # None
         /\ s.do = Disposal(work, s.r)
    ELSE s.r \in Current(config)

\* The names of a plan that was not refused stay apart while it is executed.
NamesInv == Planned => ~ Conflict(work, config)

PhaseInv ==
  /\ phase # "idle" => config \in Configs
  /\ phase = "resolve" => pending \subseteq DOMAIN config.moved
  /\ phase \in {"resolve", "refused", "planned"} => applies < MaxApplies

MovesInv == TypeOK /\ PhaseInv /\ RecordsMatch /\ NamesInv /\ StepsInv

-----------------------------------------------------------------------------
(* Configurations and the parts of a state.                                *)

\* A configuration is made of names and templates.
LEMMA ConfigType ==
  ASSUME NEW c \in Configs
  PROVE  /\ c \in [mounts : Mounts, moved : Blocks]
         /\ DOMAIN c.mounts \subseteq Names
         /\ \A n \in DOMAIN c.mounts : c.mounts[n] \in Templates
         /\ DOMAIN c.moved \subseteq Names
         /\ \A f \in DOMAIN c.moved : c.moved[f] \in Names
<1>1. PICK d \in [mounts : Mounts, moved : Moved] : c = Compiled(d)
  BY DEF Configs
<1>2. c = [mounts |-> d.mounts, moved |-> [n \in HostMoves(d) |-> d.moved[n]]]
  BY <1>1 DEF Compiled
<1>3. PICK D \in SUBSET Names : d.mounts \in [D -> Templates]
  BY DEF Mounts
<1>4. PICK E \in SUBSET Names : d.moved \in [E -> Names]
  BY DEF Moved, Blocks
<1>5. HostMoves(d) \subseteq E
  BY <1>4 DEF HostMoves
<1>6. c.moved \in Blocks
  BY <1>2, <1>4, <1>5 DEF Blocks
<1> QED
  BY <1>2, <1>3, <1>4, <1>5, <1>6

\* The version a configuration asks of a resource.
LEMMA VersionType ==
  ASSUME NEW c \in Configs, NEW r \in Current(c)
  PROVE  /\ r[1] \in Names /\ r[2] \in Keys
         /\ r[1] \in Mounted(c) /\ r \in Names \X Keys
         /\ Version(c, r) \in Versions
<1>1. c.mounts[r[1]] \in Templates /\ r[2] \in DOMAIN c.mounts[r[1]]
  BY ConfigType DEF Current, Mounted
<1>2. c.mounts[r[1]][r[2]] \in Versions
  BY <1>1 DEF Versions
<1> QED
  BY <1>2 DEF Version, Current

\* A physical name is a name.
LEMMA PhysicalType ==
  ASSUME NEW st \in States, NEW n \in Names
  PROVE  Physical(st, n) \in Names
BY DEF States, Physical

\* Pruning only forgets names of components without records.
LEMMA PrunedState ==
  ASSUME NEW st \in States
  PROVE  /\ Pruned(st) \in States
         /\ Pruned(st).tracked = st.tracked
         /\ \A n \in Names : Pruned(st).physical[n] # None => IsTracked(Pruned(st), n)
         /\ \A n \in Names : IsTracked(st, n) => Physical(Pruned(st), n) = Physical(st, n)
         /\ Matching(st) => Matching(Pruned(st))
<1> DEFINE ph == [n \in Names |-> IF IsTracked(st, n) THEN st.physical[n] ELSE None]
<1>1. Pruned(st) = [tracked |-> st.tracked, physical |-> ph]
  BY DEF Pruned, States
<1>2. ph \in [Names -> Names \cup {None}]
  BY DEF States
<1>3. \A n \in Names : IsTracked(Pruned(st), n) <=> IsTracked(st, n)
  BY <1>1 DEF IsTracked
<1>4. \A n \in Names : IsTracked(st, n) => Physical(Pruned(st), n) = Physical(st, n)
  BY <1>1 DEF Physical
<1>5. \A n \in Names, k \in Keys : st.tracked[n][k] # None => IsTracked(st, n)
  BY DEF IsTracked, Gone
<1> QED
  BY <1>1, <1>2, <1>3, <1>4, <1>5 DEF States, Matching

\* Renaming takes the physical name along.
LEMMA RenamedState ==
  ASSUME NEW st \in States, Matching(st), NEW f \in Names, NEW t \in Names, f # t
  PROVE  Renamed(st, f, t) \in States /\ Matching(Renamed(st, f, t))
<1> DEFINE new == Renamed(st, f, t)
<1>1. /\ new.tracked = [st.tracked EXCEPT ![t] = st.tracked[f], ![f] = Gone]
      /\ new.physical = [st.physical EXCEPT ![f] = None,
                           ![t] = IF Physical(st, f) = t THEN None ELSE Physical(st, f)]
      /\ new = [tracked |-> new.tracked, physical |-> new.physical]
  BY DEF Renamed
<1>2. Gone \in [Keys -> Digests \cup {None}]
  BY DEF Gone
<1>3. new.tracked \in [Names -> [Keys -> Digests \cup {None}]]
  BY <1>1, <1>2 DEF States
<1>4. new.physical \in [Names -> Names \cup {None}]
  BY <1>1, PhysicalType DEF States
<1>5. ASSUME NEW n \in Names, NEW k \in Keys, new.tracked[n][k] # None
      PROVE  new.tracked[n][k].at = Physical(new, n)
  <2>1. n # f
    BY <1>1, <1>5 DEF States, Gone
  <2>2. CASE n = t
    <3>1. new.tracked[n] = st.tracked[f] /\ new.physical[n] =
            IF Physical(st, f) = t THEN None ELSE Physical(st, f)
      BY <1>1, <2>1, <2>2 DEF States
    <3>2. Physical(st, f) # None
      BY PhysicalType, MovesAssumption
    <3>3. ASSUME NEW p, p # None, new.physical[n] = IF p = t THEN None ELSE p
          PROVE  Physical(new, n) = p
      BY <3>3, <2>2 DEF Physical
    <3>4. Physical(new, n) = Physical(st, f)
      BY <3>1, <3>2, <3>3
    <3> QED
      BY <3>1, <3>4, <1>5 DEF Matching
  <2>3. CASE n # t
    <3>1. new.tracked[n] = st.tracked[n] /\ new.physical[n] = st.physical[n]
      BY <1>1, <2>1, <2>3 DEF States
    <3> QED
      BY <3>1, <1>5 DEF Matching, Physical
  <2> QED
    BY <2>2, <2>3
<1> QED
  BY <1>1, <1>3, <1>4, <1>5 DEF States, Matching

\* Records that take a new logical name keep their places.
LEMMA RebasedState ==
  ASSUME NEW st \in States, Matching(st), NEW c \in Configs, origin \in [Names -> Names]
  PROVE  /\ Rebased(st, c) \in States /\ Matching(Rebased(st, c))
         /\ Rebased(st, c).physical = st.physical
         /\ \A r \in (Names \X Keys) \ Current(c) :
              Rebased(st, c).tracked[r[1]][r[2]] = st.tracked[r[1]][r[2]]
<1> DEFINE moves(n, k) == /\ <<n, k>> \in Current(c)
                          /\ origin[n] # n
                          /\ st.tracked[n][k] = Legacy(st, c, <<n, k>>)
           new == [n \in Names |-> [k \in Keys |->
                     IF moves(n, k) THEN Wanted(st, c, <<n, k>>) ELSE st.tracked[n][k]]]
<1>0. \A x : [st EXCEPT !.tracked = x] = [tracked |-> x, physical |-> st.physical]
  BY DEF States
<1>1. Rebased(st, c) = [tracked |-> new, physical |-> st.physical]
  BY <1>0, Zenon DEF Rebased
<1>2. ASSUME NEW n \in Names, NEW k \in Keys, <<n, k>> \in Current(c)
      PROVE  /\ Wanted(st, c, <<n, k>>) \in Digests
             /\ Wanted(st, c, <<n, k>>).at = Physical(st, n)
  BY <1>2, VersionType, PhysicalType DEF Wanted, Digests
<1>3. new \in [Names -> [Keys -> Digests \cup {None}]]
  BY <1>2 DEF States
<1>4. ASSUME NEW n \in Names, NEW k \in Keys, new[n][k] # None
      PROVE  new[n][k].at = Physical(st, n)
  <2>1. CASE moves(n, k)
    BY <2>1, <1>2
  <2>2. CASE ~ moves(n, k)
    BY <2>2, <1>4 DEF Matching
  <2> QED
    BY <2>1, <2>2
<1>5. \A n \in Names : Physical(Rebased(st, c), n) = Physical(st, n)
  BY <1>1 DEF Physical
<1>6. \A r \in (Names \X Keys) \ Current(c) : new[r[1]][r[2]] = st.tracked[r[1]][r[2]]
  <2>1. TAKE r \in (Names \X Keys) \ Current(c)
  <2>2. r[1] \in Names /\ r[2] \in Keys /\ r = <<r[1], r[2]>>
    OBVIOUS
  <2> QED
    BY <2>1, <2>2
<1> HIDE DEF new
<1>7. Rebased(st, c) \in States
  BY <1>1, <1>3 DEF States
<1>8. Matching(Rebased(st, c))
  BY <1>1, <1>4, <1>5 DEF Matching
<1> QED
  BY <1>1, <1>6, <1>7, <1>8

\* Whether two components have one name depends on the physical names and on
\* what is tracked outside the configuration.
LEMMA ConflictShrinks ==
  ASSUME NEW st, NEW new, NEW c, ~ Conflict(st, c), new.physical = st.physical,
         \A n \in Names : IsTracked(new, n) => n \in Mounted(c) \/ IsTracked(st, n)
  PROVE  ~ Conflict(new, c)
<1>1. Active(new, c) \subseteq Active(st, c)
  BY DEF Active
<1>2. \A n : Physical(new, n) = Physical(st, n)
  BY DEF Physical
<1> QED
  BY <1>1, <1>2 DEF Conflict

\* What rests between two applies.
LEMMA IdleState ==
  ASSUME Idle
  PROVE  /\ work' \in States /\ Matching(work') /\ phase' = "idle" /\ config' = None
         /\ pending' = {} /\ origin' \in [Names -> Names] /\ todo' = {}
<1>1. NoState \in States /\ Matching(NoState)
  BY DEF NoState, States, Matching, Gone
<1> QED
  BY <1>1 DEF Idle, Untouched, Matching

\* A step touches one object.
LEMMA EffectType ==
  ASSUME MovesInv, Planned, NEW s \in todo, Effect(s)
  PROVE  objects' \in [Names -> [Keys -> Versions \cup {None}]]
<1>1. config \in Configs
  BY DEF MovesInv, PhaseInv, Planned
<1>2. s.do \in {"change", "adopt", "remove", "forget"} /\ s.r[1] \in Names /\ s.r[2] \in Keys
  BY DEF MovesInv, TypeOK
<1>3. s.do = "change" => Version(config, s.r) \in Versions
  BY <1>1, VersionType DEF MovesInv, StepsInv, Drops
<1> DEFINE a == Affected(s)[1]
           o == objects[a][s.r[2]]
           e == CASE s.do = "remove" -> None
                  [] s.do = "change" -> Version(config, s.r)
                  [] s.do \in {"adopt", "forget"} -> o
<1>4. objects' = [objects EXCEPT ![a][s.r[2]] = e]
  BY DEF Effect
<1>5. objects \in [Names -> [Keys -> Versions \cup {None}]]
  BY DEF MovesInv, TypeOK
<1>6. a \in Names => e \in Versions \cup {None}
  <2>1. a \in Names => o \in Versions \cup {None}
    BY <1>2, <1>5
  <2> QED
    BY <1>2, <1>3, <2>1
<1> HIDE DEF a, e
<1>7. CASE a \in Names
  BY <1>2, <1>4, <1>5, <1>6, <1>7
<1>8. CASE a \notin Names
  BY <1>4, <1>5, <1>8
<1> QED
  BY <1>7, <1>8

-----------------------------------------------------------------------------
(* The invariant.                                                          *)

\* A host after an apply without moves.
LEMMA InitInv == Init => MovesInv
<1> SUFFICES ASSUME Init PROVE MovesInv
  OBVIOUS
<1>1. PICK m \in Mounts :
        /\ state = [NoState EXCEPT !.tracked = [n \in Names |-> [k \in Keys |->
                     IF n \in DOMAIN m /\ k \in DOMAIN m[n]
                     THEN [name |-> n, version |-> m[n][k], at |-> n] ELSE None]]]
        /\ objects = [n \in Names |-> [k \in Keys |->
                       IF n \in DOMAIN m /\ k \in DOMAIN m[n] THEN m[n][k] ELSE None]]
        /\ accepted = [mounts |-> m, moved |-> [n \in {} |-> n]]
  BY DEF Init
<1>2. ASSUME NEW n \in DOMAIN m, NEW k \in DOMAIN m[n]
      PROVE  m[n][k] \in Versions
  <2>1. m[n] \in Templates
    BY <1>1 DEF Mounts
  <2> QED
    BY <2>1 DEF Versions
<1> DEFINE tr == [n \in Names |-> [k \in Keys |->
                    IF n \in DOMAIN m /\ k \in DOMAIN m[n]
                    THEN [name |-> n, version |-> m[n][k], at |-> n] ELSE None]]
<1>3. state = [tracked |-> tr, physical |-> [n \in Names |-> None]]
  BY <1>1 DEF NoState
<1>4. tr \in [Names -> [Keys -> Digests \cup {None}]]
  BY <1>2 DEF Digests
<1>5. \A n \in Names, k \in Keys : tr[n][k] # None => tr[n][k].at = n
  OBVIOUS
<1> HIDE DEF tr
<1>6. /\ state \in States /\ Matching(state)
      /\ \A n \in Names : state.physical[n] = None
  BY <1>3, <1>4, <1>5 DEF States, Matching, Physical
<1>7. objects \in [Names -> [Keys -> Versions \cup {None}]]
  BY <1>1, <1>2
<1>8. accepted \in [mounts : Mounts, moved : Blocks]
  <2>1. [n \in {} |-> n] \in [{} -> Names]
    OBVIOUS
  <2>2. [n \in {} |-> n] \in Blocks
    BY <2>1 DEF Blocks
  <2> QED
    BY <1>1, <2>2
<1>9. NoState \in States /\ Matching(NoState)
  BY DEF NoState, States, Matching, Gone
<1> QED
  BY <1>6, <1>7, <1>8, <1>9, MovesAssumption
  DEF Init, MovesInv, TypeOK, PhaseInv, RecordsMatch, NamesInv, StepsInv, Planned, Untouched

\* Planning starts from the state file.
LEMMA StartInv ==
  ASSUME MovesInv, NEW c \in Configs, Start(c)
  PROVE  MovesInv'
<1>1. state \in States /\ Matching(state)
  BY DEF MovesInv, TypeOK, RecordsMatch
<1>2. work' \in States /\ Matching(work')
  BY <1>1, PrunedState DEF Start
<1>3. pending' \subseteq Names
  BY ConfigType DEF Start
<1>4. TypeOK'
  BY <1>1, <1>2, <1>3 DEF MovesInv, TypeOK, Start, IsTracked
<1>5. RecordsMatch'
  BY <1>1, <1>2 DEF RecordsMatch, Start, Matching, Physical
<1> QED
  BY <1>4, <1>5 DEF MovesInv, Start, PhaseInv, NamesInv, StepsInv, Planned

\* A move takes records and name from an old root to a new one.
LEMMA ResolveInv ==
  ASSUME MovesInv, NEW f \in Names, ResolveMove(f)
  PROVE  MovesInv'
<1> DEFINE t == config.moved[f]
<1>1. phase = "resolve" /\ config \in Configs /\ f \in pending
  BY DEF MovesInv, PhaseInv, ResolveMove
<1>2. work \in States /\ Matching(work)
  BY DEF MovesInv, TypeOK, RecordsMatch
<1>3. CASE Refuse
  BY <1>1, <1>3 DEF Refuse, memory, MovesInv, TypeOK, RecordsMatch, Matching, Physical, IsTracked,
                    PhaseInv, NamesInv, StepsInv, Planned
<1>4. CASE /\ ~ MoveRefused(f, t) /\ pending' = pending \ {f}
           /\ IsTracked(work, f) /\ f \notin Mounted(config)
           /\ work' = Renamed(work, f, t)
           /\ origin' = [origin EXCEPT ![t] = origin[f], ![f] = f]
           /\ UNCHANGED <<state, objects, phase, config, todo, accepted, done, applies, breaks>>
  <2>1. f # t
    BY <1>4 DEF MoveRefused
  <2>2. t \in Names
    BY <1>1, ConfigType DEF MovesInv, PhaseInv
  <2>3. work' \in States /\ Matching(work')
    BY <1>2, <1>4, <2>1, <2>2, RenamedState
  <2>4. origin' \in [Names -> Names]
    BY <1>4, <2>2 DEF MovesInv, TypeOK
  <2>5. TypeOK'
    BY <1>4, <2>3, <2>4 DEF MovesInv, TypeOK, IsTracked
  <2>6. RecordsMatch'
    BY <1>4, <2>3 DEF MovesInv, RecordsMatch, Matching, Physical
  <2> QED
    BY <1>1, <1>4, <2>5, <2>6 DEF MovesInv, PhaseInv, NamesInv, StepsInv, Planned
<1>5. CASE /\ pending' = pending \ {f}
           /\ UNCHANGED <<work, origin, state, objects, phase, config, todo, accepted, done, applies, breaks>>
  BY <1>1, <1>5 DEF MovesInv, TypeOK, RecordsMatch, Matching, Physical, IsTracked,
                    PhaseInv, NamesInv, StepsInv, Planned
<1> QED
  BY <1>3, <1>4, <1>5 DEF ResolveMove

\* A plan whose names conflict is refused; the steps of the others are those of
\* the configuration and of the records outside it.
LEMMA BindInv ==
  ASSUME MovesInv, Bind
  PROVE  MovesInv'
<1> DEFINE st  == Pruned(work)
           new == Rebased(st, config)
<1>1. phase = "resolve" /\ config \in Configs /\ applies < MaxApplies
  BY DEF MovesInv, PhaseInv, Bind
<1>2. CASE Refuse
  BY <1>1, <1>2 DEF Refuse, memory, MovesInv, TypeOK, RecordsMatch, Matching, Physical, IsTracked,
                    PhaseInv, NamesInv, StepsInv, Planned
<1>3. CASE /\ ~ Conflict(st, config)
           /\ work' = new /\ todo' = Steps(new, config) /\ phase' = "planned"
           /\ UNCHANGED <<state, objects, config, pending, origin, accepted, done, applies, breaks>>
  <2>1. origin \in [Names -> Names] /\ work \in States /\ Matching(work)
    BY DEF MovesInv, TypeOK, RecordsMatch
  <2>2. st \in States /\ Matching(st)
    BY <2>1, PrunedState
  <2>3. /\ new \in States /\ Matching(new) /\ new.physical = st.physical
        /\ \A r \in (Names \X Keys) \ Current(config) :
             new.tracked[r[1]][r[2]] = st.tracked[r[1]][r[2]]
    BY <1>1, <2>1, <2>2, RebasedState
  <2> HIDE DEF st, new
  <2>4. ASSUME NEW n \in Names, IsTracked(new, n)
        PROVE  n \in Mounted(config) \/ IsTracked(st, n)
    <3> SUFFICES ASSUME n \notin Mounted(config) PROVE IsTracked(st, n)
      OBVIOUS
    <3>1. \A k \in Keys : <<n, k>> \in (Names \X Keys) \ Current(config)
      BY DEF Current
    <3>2. \A k \in Keys : new.tracked[n][k] = st.tracked[n][k]
      BY <2>3, <3>1
    <3>3. new.tracked[n] = st.tracked[n]
      BY <2>2, <2>3, <3>2 DEF States
    <3> QED
      BY <2>4, <3>3 DEF IsTracked
  <2>5. ~ Conflict(new, config)
    BY <1>3, <2>3, <2>4, ConflictShrinks
  <2>6. todo' \subseteq [do : {"change", "adopt", "remove", "forget"}, r : Names \X Keys]
    BY <1>1, <1>3, VersionType DEF Steps, Orphans, Disposal
  <2>7. \A s \in todo' :
          IF Drops(s)
          THEN /\ s.r \notin Current(config) /\ new.tracked[s.r[1]][s.r[2]] # None
               /\ s.do = Disposal(new, s.r)
          ELSE s.r \in Current(config)
    BY <1>3 DEF Steps, Orphans, Disposal, Drops
  <2>8. TypeOK'
    BY <1>3, <2>3, <2>6 DEF MovesInv, TypeOK, IsTracked
  <2>9. RecordsMatch'
    BY <1>3, <2>3 DEF MovesInv, RecordsMatch, Matching, Physical
  <2>10. NamesInv'
    BY <1>3, <2>5 DEF NamesInv, Conflict, Active, Mounted, Physical, IsTracked
  <2>11. StepsInv'
    BY <1>3, <2>7 DEF StepsInv, Current, Mounted, Disposal, Drops
  <2> QED
    BY <1>1, <1>3, <2>8, <2>9, <2>10, <2>11 DEF MovesInv, PhaseInv
<1> QED
  BY <1>2, <1>3 DEF Bind

\* What ends an apply leaves nothing behind in memory.
LEMMA EndInv ==
  ASSUME MovesInv, Idle,
         state' = state \/ state' = Pruned(work),
         objects' \in [Names -> [Keys -> Versions \cup {None}]],
         UNCHANGED <<accepted, applies>>,
         done' \in BOOLEAN, breaks' \in 0 .. MaxBreaks
  PROVE  MovesInv'
<1>1. /\ state' \in States /\ Matching(state')
      /\ \A n \in Names : state'.physical[n] # None => IsTracked(state', n)
  <2>1. CASE state' = state
    BY <2>1 DEF MovesInv, TypeOK, RecordsMatch
  <2>2. CASE state' = Pruned(work)
    BY <2>2, PrunedState DEF MovesInv, TypeOK, RecordsMatch
  <2> QED
    BY <2>1, <2>2
<1>2. TypeOK'
  BY <1>1, IdleState DEF MovesInv, TypeOK, IsTracked
<1>3. RecordsMatch'
  BY <1>1, IdleState DEF RecordsMatch, Matching, Physical
<1> QED
  BY <1>2, <1>3, IdleState DEF MovesInv, PhaseInv, NamesInv, StepsInv, Planned

\* A step replaces one record by one for the physical name of its component.
LEMMA StepInv ==
  ASSUME MovesInv, NEW s \in todo, Step(s)
  PROVE  MovesInv'
<1> DEFINE n == s.r[1]
           k == s.r[2]
           e == IF Drops(s) THEN None ELSE Wanted(work, config, s.r)
<1>1. /\ phase = "steps" /\ Planned /\ config \in Configs
      /\ work \in States /\ Matching(work) /\ ~ Conflict(work, config)
  BY DEF MovesInv, TypeOK, RecordsMatch, PhaseInv, NamesInv, Step, Planned
<1>2. /\ s \in [do : {"change", "adopt", "remove", "forget"}, r : Names \X Keys]
      /\ n \in Names /\ k \in Keys /\ s.r = <<n, k>>
  BY DEF MovesInv, TypeOK
<1>3. ~ Drops(s) => s.r \in Current(config)
  BY <1>1 DEF MovesInv, StepsInv
<1>4. e \in Digests \cup {None} /\ (e # None => e.at = Physical(work, n))
  BY <1>1, <1>2, <1>3, VersionType, PhysicalType DEF Wanted, Digests
<1>5. work' = [work EXCEPT !.tracked[n][k] = e]
  BY DEF Step
<1> HIDE DEF e, n, k
<1>6. /\ work' \in States /\ work'.physical = work.physical
      /\ work'.tracked = [work.tracked EXCEPT ![n][k] = e]
  BY <1>1, <1>2, <1>4, <1>5 DEF States
<1>7. \A x \in Names, y \in Keys :
        work'.tracked[x][y] = IF x = n /\ y = k THEN e ELSE work.tracked[x][y]
  BY <1>1, <1>2, <1>6 DEF States
<1>8. Matching(work')
  BY <1>1, <1>4, <1>6, <1>7 DEF Matching, Physical
<1>9. ASSUME NEW x \in Names, IsTracked(work', x)
      PROVE  x \in Mounted(config) \/ IsTracked(work, x)
  <2> SUFFICES ASSUME ~ IsTracked(work, x), x \notin Mounted(config) PROVE FALSE
    OBVIOUS
  <2>1. s.r \in Current(config) => n \in Mounted(config)
    BY <1>2 DEF Current
  <2>2. \A y \in Keys : work.tracked[x][y] = None
    BY DEF IsTracked, Gone
  <2>3. x = n => e = None
    BY <1>3, <2>1 DEF e
  <2>4. \A y \in Keys : work'.tracked[x][y] = None
    BY <1>7, <2>2, <2>3
  <2>5. work'.tracked[x] = Gone
    BY <1>6, <2>4 DEF States, Gone
  <2> QED
    BY <1>9, <2>5 DEF IsTracked
<1>10. ~ Conflict(work', config)
  BY <1>1, <1>6, <1>9, ConflictShrinks
<1>11. objects' \in [Names -> [Keys -> Versions \cup {None}]]
  BY <1>1, EffectType DEF Step
<1>12. TypeOK'
  BY <1>6, <1>11 DEF MovesInv, TypeOK, Step, IsTracked
<1>13. RecordsMatch'
  BY <1>8 DEF MovesInv, RecordsMatch, Matching, Physical, Step
<1>14. NamesInv'
  BY <1>10 DEF NamesInv, Conflict, Active, Mounted, Physical, IsTracked, Step
<1>15. ASSUME NEW q \in todo'
       PROVE  IF Drops(q)
              THEN /\ q.r \notin Current(config) /\ work'.tracked[q.r[1]][q.r[2]] # None
                   /\ q.do = Disposal(work', q.r)
              ELSE q.r \in Current(config)
  <2>1. q \in todo /\ q # s
    BY DEF Step
  <2>2. IF Drops(q)
        THEN /\ q.r \notin Current(config) /\ work.tracked[q.r[1]][q.r[2]] # None
             /\ q.do = Disposal(work, q.r)
        ELSE q.r \in Current(config)
    BY <1>1, <2>1 DEF MovesInv, StepsInv
  <2>3. CASE Drops(q)
    <3>1. q \in [do : {"change", "adopt", "remove", "forget"}, r : Names \X Keys]
      BY <2>1 DEF MovesInv, TypeOK
    <3>2. q.r # s.r
      <4> SUFFICES ASSUME q.r = s.r PROVE FALSE
        OBVIOUS
      <4>1. Drops(s) /\ s.do = Disposal(work, s.r)
        BY <1>1, <1>3, <2>2, <2>3 DEF MovesInv, StepsInv
      <4> QED
        BY <1>2, <2>1, <2>2, <2>3, <3>1, <4>1
    <3>3. q.r[1] \in Names /\ q.r[2] \in Keys /\ ~ (q.r[1] = n /\ q.r[2] = k)
      BY <1>2, <3>1, <3>2
    <3> QED
      BY <1>7, <2>2, <2>3, <3>3 DEF Disposal
  <2> QED
    BY <2>2, <2>3
<1>16. StepsInv'
  BY <1>15 DEF StepsInv, Current, Mounted, Step, Disposal, Drops
<1> QED
  BY <1>1, <1>12, <1>13, <1>14, <1>16 DEF MovesInv, PhaseInv, Step

\* Every step of the system keeps the invariant.
LEMMA NextInv == MovesInv /\ [Next]_vars => MovesInv'
<1> SUFFICES ASSUME MovesInv, [Next]_vars PROVE MovesInv'
  OBVIOUS
<1> USE DEF MovesInv
<1>1. ASSUME NEW c \in Configs, Start(c) PROVE MovesInv'
  BY <1>1, StartInv
<1>2. ASSUME NEW f \in Names, ResolveMove(f) PROVE MovesInv'
  BY <1>2, ResolveInv
<1>3. CASE Bind
  BY <1>3, BindInv
<1>4. CASE Abandon
  BY <1>4, EndInv DEF Abandon, TypeOK
<1>5. CASE Begin
  <2>1. config \in [mounts : Mounts, moved : Blocks]
    BY <1>5, ConfigType DEF Begin, PhaseInv
  <2>2. applies + 1 \in 0 .. MaxApplies
    BY <1>5, MovesAssumption DEF Begin, PhaseInv, TypeOK
  <2>3. TypeOK'
    BY <1>5, <2>1, <2>2 DEF Begin, TypeOK, memory, IsTracked
  <2> QED
    BY <1>5, <2>3 DEF Begin, memory, PhaseInv, RecordsMatch, Matching, Physical, NamesInv,
                      Conflict, Active, Mounted, IsTracked, StepsInv, Current, Planned
<1>6. CASE Prewrite
  <2>1. CASE Idle /\ done' = TRUE
    BY <1>6, <2>1, EndInv DEF Prewrite, TypeOK
  <2>2. CASE phase' = "steps" /\ UNCHANGED <<memory, done>>
    <3>1. /\ state' \in States /\ Matching(state')
          /\ \A n \in Names : state'.physical[n] # None => IsTracked(state', n)
      BY <1>6, PrunedState DEF Prewrite, TypeOK, RecordsMatch
    <3>2. TypeOK'
      BY <1>6, <2>2, <3>1 DEF Prewrite, TypeOK, memory, IsTracked
    <3> QED
      BY <1>6, <2>2, <3>1, <3>2 DEF Prewrite, memory, PhaseInv, RecordsMatch, Matching, Physical,
                      NamesInv, Conflict, Active, Mounted, IsTracked, StepsInv, Current, Planned
  <2> QED
    BY <1>6, <2>1, <2>2 DEF Prewrite
<1>7. ASSUME NEW s \in todo, Step(s) PROVE MovesInv'
  BY <1>7, StepInv
<1>8. CASE Finish
  BY <1>8, EndInv DEF Finish, TypeOK
<1>9. CASE BreakOff
  <2>1. breaks' \in 0 .. MaxBreaks
    BY <1>9, MovesAssumption DEF BreakOff, TypeOK
  <2>2. objects' \in [Names -> [Keys -> Versions \cup {None}]]
    BY <1>9, EffectType DEF BreakOff, TypeOK, Planned
  <2>3. state' = state \/ state' = Pruned(work)
    BY <1>9 DEF BreakOff
  <2> QED
    BY <1>9, <2>1, <2>2, <2>3, EndInv DEF BreakOff, TypeOK
<1>10. CASE UNCHANGED vars
  BY <1>10 DEF vars, memory, TypeOK, PhaseInv, RecordsMatch, Matching, Physical,
               NamesInv, Conflict, Active, Mounted, IsTracked, StepsInv, Current, Planned
<1> QED
  BY <1>1, <1>2, <1>3, <1>4, <1>5, <1>6, <1>7, <1>8, <1>9, <1>10 DEF Next

\* The invariant holds throughout.
THEOREM MovesInvariance == Spec => []MovesInv
BY InitInv, NextInv, PTL DEF Spec

-----------------------------------------------------------------------------
(* What follows from it.                                                   *)

\* The state file is well formed, and has no physical names of components it does
\* not track (pruneComponentIdentities, moved.go:307-315).
THEOREM Typing == Spec => []TypeOK
<1>1. MovesInv => TypeOK
  BY DEF MovesInv
<1> QED
  BY <1>1, MovesInvariance, PTL

\* After any number of renamings, applied or broken off, the records of a
\* component are found under its physical name (moved.go:83-105).
THEOREM RecordsMatching == Spec => []RecordsMatch
<1>1. MovesInv => RecordsMatch
  BY DEF MovesInv
<1> QED
  BY <1>1, MovesInvariance, PTL

\* No step that ends a record is about what a mounted component has.
LEMMA SparingLemma ==
  ASSUME MovesInv, Planned, NEW s \in todo, NEW r \in Current(config), Drops(s)
  PROVE  Affected(s) # <<Physical(work, r[1]), r[2]>>
<1> SUFFICES ASSUME Affected(s) = <<Physical(work, r[1]), r[2]>> PROVE FALSE
  OBVIOUS
<1>1. s.r \in Names \X Keys /\ r \in Names \X Keys /\ r[1] \in Mounted(config)
  BY DEF MovesInv, TypeOK, Current
<1>2. s.r \notin Current(config) /\ work.tracked[s.r[1]][s.r[2]] # None
  BY DEF MovesInv, StepsInv
<1>3. work.tracked[s.r[1]][s.r[2]].at = Physical(work, r[1]) /\ s.r[2] = r[2]
  BY DEF Affected
<1>4. Physical(work, s.r[1]) = Physical(work, r[1])
  BY <1>1, <1>2, <1>3 DEF MovesInv, RecordsMatch, Matching
<1>5. IsTracked(work, s.r[1])
  BY <1>1, <1>2 DEF IsTracked, Gone
<1>6. s.r[1] \in Active(work, config) /\ r[1] \in Active(work, config)
  BY <1>1, <1>5 DEF Active
<1>7. s.r[1] = r[1]
  BY <1>4, <1>6 DEF MovesInv, NamesInv, Conflict
<1>8. s.r = r
  BY <1>1, <1>3, <1>7
<1> QED
  BY <1>2, <1>8

\* No removal of an accepted plan is of what a mounted component has
\* (bindComponentIdentities, moved.go:238-277).
THEOREM Sparing == Spec => []RemovalsSpare
<1>1. MovesInv => RemovalsSpare
  BY SparingLemma DEF RemovalsSpare, Planned, Drops
<1> QED
  BY <1>1, MovesInvariance, PTL

-----------------------------------------------------------------------------
(* What a completed apply leaves.                                          *)

\* The state st has what c declares, as the host has it, and nothing else.
Settled(st, obs, c) ==
  \A n \in Names, k \in Keys :
    IF <<n, k>> \in Current(c)
    THEN /\ obs[Physical(st, n)][k] = Version(c, <<n, k>>)
         /\ st.tracked[n][k] = Wanted(st, c, <<n, k>>)
    ELSE st.tracked[n][k] = None

\* What none of the steps will do has been done.
Remaining(steps, st, obs, c) ==
  \A n \in Names, k \in Keys :
    IF <<n, k>> \in Current(c)
    THEN [do |-> "change", r |-> <<n, k>>] \notin steps =>
           /\ obs[Physical(st, n)][k] = Version(c, <<n, k>>)
           /\ \/ [do |-> "adopt", r |-> <<n, k>>] \in steps
              \/ st.tracked[n][k] = Wanted(st, c, <<n, k>>)
    ELSE (\A s \in steps : Drops(s) => s.r # <<n, k>>) => st.tracked[n][k] = None

SettledInv ==
  /\ phase \in {"prewrite", "steps"} => ~ done /\ accepted = config
  /\ done => Settled(state, objects, accepted)
  /\ Planned => Remaining(todo, work, objects, config)

\* A step replaces the record of its resource.
LEMMA StepRecords ==
  ASSUME MovesInv, NEW s \in todo, Step(s)
  PROVE  /\ work'.physical = work.physical
         /\ \A n \in Names, k \in Keys :
              work'.tracked[n][k] =
                IF <<n, k>> = s.r
                THEN IF Drops(s) THEN None ELSE Wanted(work, config, s.r)
                ELSE work.tracked[n][k]
<1> DEFINE e == IF Drops(s) THEN None ELSE Wanted(work, config, s.r)
<1>1. work' = [work EXCEPT !.tracked[s.r[1]][s.r[2]] = e] /\ work \in States
  BY DEF Step, MovesInv, TypeOK
<1>2. s.r[1] \in Names /\ s.r[2] \in Keys /\ s.r = <<s.r[1], s.r[2]>>
  BY DEF MovesInv, TypeOK
<1> HIDE DEF e
<1>3. /\ work'.physical = work.physical
      /\ work'.tracked = [work.tracked EXCEPT ![s.r[1]][s.r[2]] = e]
  BY <1>1 DEF States
<1>4. \A n \in Names, k \in Keys :
        work'.tracked[n][k] = IF n = s.r[1] /\ k = s.r[2] THEN e ELSE work.tracked[n][k]
  BY <1>1, <1>2, <1>3 DEF States
<1>5. \A n \in Names, k \in Keys : <<n, k>> = s.r <=> n = s.r[1] /\ k = s.r[2]
  BY <1>2
<1> QED  BY <1>3, <1>4, <1>5 DEF e

\* A step is about one object, which has a physical name.
LEMMA EffectObjects ==
  ASSUME MovesInv, Planned, NEW s \in todo, Effect(s)
  PROVE  /\ Affected(s)[1] \in Names /\ Affected(s)[2] = s.r[2]
         /\ \A p \in Names, k \in Keys :
              objects'[p][k] = IF p = Affected(s)[1] /\ k = s.r[2]
                               THEN CASE s.do = "remove" -> None
                                      [] s.do = "change" -> Version(config, s.r)
                                      [] s.do \in {"adopt", "forget"} -> objects[p][k]
                               ELSE objects[p][k]
<1>1. s.do \in {"change", "adopt", "remove", "forget"} /\ s.r[1] \in Names /\ s.r[2] \in Keys
  BY DEF MovesInv, TypeOK
<1>2. work \in States /\ objects \in [Names -> [Keys -> Versions \cup {None}]]
  BY DEF MovesInv, TypeOK
<1>3. Affected(s)[1] \in Names /\ Affected(s)[2] = s.r[2]
  <2>1. CASE Drops(s)
    <3>1. work.tracked[s.r[1]][s.r[2]] \in Digests
      BY <1>1, <1>2, <2>1 DEF MovesInv, StepsInv, States
    <3> QED  BY <2>1, <3>1 DEF Affected, Digests
  <2>2. CASE ~ Drops(s)
    BY <1>1, <1>2, <2>2, PhysicalType DEF Affected
  <2> QED  BY <2>1, <2>2
<1> DEFINE a == Affected(s)[1]
           e == CASE s.do = "remove" -> None
                  [] s.do = "change" -> Version(config, s.r)
                  [] s.do \in {"adopt", "forget"} -> objects[a][s.r[2]]
<1>4. objects' = [objects EXCEPT ![a][s.r[2]] = e]
  BY DEF Effect
<1>5. a \in Names
  BY <1>3
<1> HIDE DEF a, e
<1>6. \A p \in Names, k \in Keys :
        objects'[p][k] = IF p = a /\ k = s.r[2] THEN e ELSE objects[p][k]
  BY <1>1, <1>2, <1>4, <1>5
<1> QED  BY <1>1, <1>3, <1>6 DEF a, e

\* The object of a declared resource is touched by no step but its own.
LEMMA OwnObject ==
  ASSUME MovesInv, Planned, NEW s \in todo, NEW r \in Current(config),
         Affected(s) = <<Physical(work, r[1]), r[2]>>
  PROVE  s.r = r /\ ~ Drops(s)
<1>1. ~ Drops(s)
  BY SparingLemma
<1>2. s.r \in Current(config)
  BY <1>1 DEF MovesInv, StepsInv
<1>3. Physical(work, s.r[1]) = Physical(work, r[1]) /\ s.r[2] = r[2]
  BY <1>1 DEF Affected
<1>4. /\ s.r \in Names \X Keys /\ r \in Names \X Keys
      /\ s.r[1] \in Active(work, config) /\ r[1] \in Active(work, config)
  BY <1>2 DEF Current, Active
<1>5. s.r[1] = r[1]
  BY <1>3, <1>4 DEF MovesInv, NamesInv, Conflict
<1> QED  BY <1>1, <1>3, <1>4, <1>5

\* After an apply without moves the state is settled.
LEMMA InitSettled == Init => SettledInv
<1> SUFFICES ASSUME Init PROVE SettledInv
  OBVIOUS
<1>1. PICK m \in Mounts :
        /\ state = [NoState EXCEPT !.tracked = [n \in Names |-> [k \in Keys |->
                     IF n \in DOMAIN m /\ k \in DOMAIN m[n]
                     THEN [name |-> n, version |-> m[n][k], at |-> n] ELSE None]]]
        /\ objects = [n \in Names |-> [k \in Keys |->
                       IF n \in DOMAIN m /\ k \in DOMAIN m[n] THEN m[n][k] ELSE None]]
        /\ accepted = [mounts |-> m, moved |-> [n \in {} |-> n]]
  BY DEF Init
<1> DEFINE has(n, k) == n \in DOMAIN m /\ k \in DOMAIN m[n]
           tr == [n \in Names |-> [k \in Keys |->
                    IF has(n, k) THEN [name |-> n, version |-> m[n][k], at |-> n] ELSE None]]
<1>2. state = [tracked |-> tr, physical |-> [n \in Names |-> None]]
  BY <1>1 DEF NoState
<1>3. accepted.mounts = m
  BY <1>1
<1>4. \A n \in Names, k \in Keys : <<n, k>> \in Current(accepted) <=> has(n, k)
  BY <1>3 DEF Current, Mounted
<1>5. \A n \in Names : Physical(state, n) = n
  BY <1>2 DEF Physical
<1>6. ASSUME NEW n \in Names, NEW k \in Keys, has(n, k)
      PROVE  /\ objects[Physical(state, n)][k] = Version(accepted, <<n, k>>)
             /\ tr[n][k] = Wanted(state, accepted, <<n, k>>)
  BY <1>1, <1>3, <1>5, <1>6 DEF Version, Wanted
<1>7. \A n \in Names, k \in Keys : ~ has(n, k) => tr[n][k] = None
  OBVIOUS
<1> HIDE DEF tr, has
<1>8. Settled(state, objects, accepted)
  BY <1>2, <1>4, <1>6, <1>7 DEF Settled
<1> QED  BY <1>8 DEF Init, SettledInv, Planned

\* Which steps a plan has.
LEMMA StepMembers ==
  ASSUME NEW st, NEW c, NEW r
  PROVE  /\ [do |-> "change", r |-> r] \in Steps(st, c) <=>
              r \in Current(c) /\ Object(st, r) # Version(c, r)
         /\ [do |-> "adopt", r |-> r] \in Steps(st, c) <=>
              /\ r \in Current(c) /\ Object(st, r) = Version(c, r)
              /\ st.tracked[r[1]][r[2]] # Wanted(st, c, r)
<1> DEFINE C == {q \in Current(c) : Object(st, q) # Version(c, q)}
           A == {q \in Current(c) : /\ Object(st, q) = Version(c, q)
                                    /\ st.tracked[q[1]][q[2]] # Wanted(st, c, q)}
           R == {[do |-> Disposal(st, q), r |-> q] : q \in Orphans(st, c)}
<1>1. Steps(st, c) = {[do |-> "change", r |-> q] : q \in C}
                       \cup {[do |-> "adopt", r |-> q] : q \in A}
                       \cup R
  BY DEF Steps
<1>3. \A s \in R : s.do \in {"remove", "forget"}
  BY DEF Disposal
<1> HIDE DEF C, A, R
<1>2. /\ [do |-> "change", r |-> r] \in Steps(st, c) <=> r \in C
      /\ [do |-> "adopt", r |-> r] \in Steps(st, c) <=> r \in A
  BY <1>1, <1>3
<1> QED  BY <1>2 DEF C, A

\* A plan ends every record that is not declared.
LEMMA DropMembers ==
  ASSUME NEW st, NEW c, NEW r \in Orphans(st, c)
  PROVE  \E s \in Steps(st, c) : Drops(s) /\ s.r = r
<1> DEFINE s == [do |-> Disposal(st, r), r |-> r]
<1>1. s \in Steps(st, c)
  BY DEF Steps
<1>2. Drops(s) /\ s.r = r
  BY DEF Drops, Disposal
<1> QED  BY <1>1, <1>2

\* Binding plans a step for all that is not as declared.
LEMMA BindSettled ==
  ASSUME NEW st, NEW c
  PROVE  Remaining(Steps(st, c), st, objects, c)
<1> SUFFICES ASSUME NEW n \in Names, NEW k \in Keys
             PROVE  IF <<n, k>> \in Current(c)
                    THEN [do |-> "change", r |-> <<n, k>>] \notin Steps(st, c) =>
                           /\ objects[Physical(st, n)][k] = Version(c, <<n, k>>)
                           /\ \/ [do |-> "adopt", r |-> <<n, k>>] \in Steps(st, c)
                              \/ st.tracked[n][k] = Wanted(st, c, <<n, k>>)
                    ELSE (\A s \in Steps(st, c) : Drops(s) => s.r # <<n, k>>)
                           => st.tracked[n][k] = None
  BY DEF Remaining
<1> DEFINE r == <<n, k>>
<1>1. r \in Names \X Keys /\ r[1] = n /\ r[2] = k
  OBVIOUS
<1> HIDE DEF r
<1>2. /\ [do |-> "change", r |-> r] \in Steps(st, c) <=>
           r \in Current(c) /\ objects[Physical(st, n)][k] # Version(c, r)
      /\ [do |-> "adopt", r |-> r] \in Steps(st, c) <=>
           /\ r \in Current(c) /\ objects[Physical(st, n)][k] = Version(c, r)
           /\ st.tracked[n][k] # Wanted(st, c, r)
  BY <1>1, StepMembers DEF Object
<1>3. ASSUME r \in Orphans(st, c) PROVE \E s \in Steps(st, c) : Drops(s) /\ s.r = r
  BY <1>3, DropMembers
<1>4. r \notin Current(c) /\ st.tracked[n][k] # None => r \in Orphans(st, c)
  BY <1>1 DEF Orphans
<1> QED  BY <1>2, <1>3, <1>4 DEF r

\* A step does what it was planned for and undoes nothing.
LEMMA StepSettled ==
  ASSUME MovesInv, SettledInv, NEW s \in todo, Step(s)
  PROVE  Remaining(todo', work', objects', config)
<1>1. /\ Planned /\ Remaining(todo, work, objects, config)
      /\ phase = "steps" /\ todo' = todo \ {s}
  BY DEF Step, SettledInv, Planned
<1>2. s.do \in {"change", "adopt", "remove", "forget"} /\ (Drops(s) <=> s.r \notin Current(config))
  BY <1>1 DEF MovesInv, TypeOK, StepsInv
<1>3. /\ \A n : Physical(work', n) = Physical(work, n)
      /\ \A r : Wanted(work', config, r) = Wanted(work, config, r)
  BY StepRecords DEF Physical, Wanted
<1> SUFFICES ASSUME NEW n \in Names, NEW k \in Keys
             PROVE  IF <<n, k>> \in Current(config)
                    THEN [do |-> "change", r |-> <<n, k>>] \notin todo' =>
                           /\ objects'[Physical(work, n)][k] = Version(config, <<n, k>>)
                           /\ \/ [do |-> "adopt", r |-> <<n, k>>] \in todo'
                              \/ work'.tracked[n][k] = Wanted(work, config, <<n, k>>)
                    ELSE (\A q \in todo' : Drops(q) => q.r # <<n, k>>)
                           => work'.tracked[n][k] = None
  BY <1>3 DEF Remaining
<1> DEFINE left(do) == [do |-> do, r |-> <<n, k>>] \in todo
           still(do) == [do |-> do, r |-> <<n, k>>] \in todo'
           mine == <<n, k>> = s.r
           dropped(steps) == \A q \in steps : Drops(q) => q.r # <<n, k>>
<1>4. work'.tracked[n][k] =
        IF mine THEN IF Drops(s) THEN None ELSE Wanted(work, config, <<n, k>>)
        ELSE work.tracked[n][k]
  BY StepRecords
<1>5. \A do : left(do) => still(do) \/ (do = s.do /\ mine)
  BY <1>1
<1>6. IF <<n, k>> \in Current(config)
      THEN ~ left("change") =>
             /\ objects[Physical(work, n)][k] = Version(config, <<n, k>>)
             /\ left("adopt") \/ work.tracked[n][k] = Wanted(work, config, <<n, k>>)
      ELSE dropped(todo) => work.tracked[n][k] = None
  BY <1>1 DEF Remaining
<1>7. CASE <<n, k>> \in Current(config)
  <2> DEFINE o == objects[Physical(work, n)][k]
             hit == Physical(work, n) = Affected(s)[1] /\ k = s.r[2]
  <2>1. Physical(work, n) \in Names
    BY PhysicalType DEF MovesInv, TypeOK
  <2>2. objects'[Physical(work, n)][k] =
          IF hit
          THEN CASE s.do = "remove" -> None
                 [] s.do = "change" -> Version(config, s.r)
                 [] s.do \in {"adopt", "forget"} -> o
          ELSE o
    BY <1>1, <2>1, EffectObjects DEF Step
  <2>3. hit <=> mine
    <3>1. Affected(s) = <<Affected(s)[1], s.r[2]>>
      BY DEF Affected
    <3>2. hit => mine
      BY <1>1, <1>7, <3>1, OwnObject
    <3>3. mine => hit
      BY <1>2, <1>7 DEF Affected
    <3> QED  BY <3>2, <3>3
  <2>4. objects'[Physical(work, n)][k] =
          IF mine /\ s.do = "change" THEN Version(config, <<n, k>>) ELSE o
    BY <1>2, <1>7, <2>2, <2>3 DEF Drops
  <2> HIDE DEF o, hit, mine, left, still
  <2>5. ~ still("change") => objects'[Physical(work, n)][k] = Version(config, <<n, k>>)
    BY <1>5, <1>6, <1>7, <2>4 DEF o
  <2>6. ~ still("change") /\ ~ still("adopt")
          => work'.tracked[n][k] = Wanted(work, config, <<n, k>>)
    <3>1. mine => ~ Drops(s)
      BY <1>2, <1>7 DEF mine
    <3> QED  BY <1>4, <1>5, <1>6, <1>7, <3>1
  <2> QED  BY <1>7, <2>5, <2>6 DEF still
<1>8. CASE <<n, k>> \notin Current(config)
  <2>1. mine => Drops(s)
    BY <1>2, <1>8
  <2>3. dropped(todo') /\ ~ mine => dropped(todo)
    BY <1>1
  <2> HIDE DEF mine, left, still, dropped
  <2>2. dropped(todo') => work'.tracked[n][k] = None
    BY <1>4, <1>6, <1>8, <2>1, <2>3
  <2> QED  BY <1>8, <2>2 DEF dropped
<1> QED  BY <1>7, <1>8

\* When no step is left, the state in memory is settled, and so is what is written.
LEMMA DoneSettled ==
  ASSUME MovesInv, SettledInv, phase \in {"prewrite", "steps"}, todo = {}
  PROVE  Settled(Pruned(work), objects, accepted)
<1>1. /\ Remaining({}, work, objects, config) /\ accepted = config
      /\ work \in States /\ config \in Configs
  BY DEF SettledInv, Planned, MovesInv, TypeOK, PhaseInv
<1>2. /\ Pruned(work).tracked = work.tracked
      /\ \A n \in Names : IsTracked(work, n) => Physical(Pruned(work), n) = Physical(work, n)
  BY <1>1, PrunedState
<1> SUFFICES ASSUME NEW n \in Names, NEW k \in Keys
             PROVE  IF <<n, k>> \in Current(config)
                    THEN /\ objects[Physical(Pruned(work), n)][k] = Version(config, <<n, k>>)
                         /\ work.tracked[n][k] = Wanted(Pruned(work), config, <<n, k>>)
                    ELSE work.tracked[n][k] = None
  BY <1>1, <1>2 DEF Settled
<1>3. CASE <<n, k>> \in Current(config)
  <2>1. /\ objects[Physical(work, n)][k] = Version(config, <<n, k>>)
        /\ work.tracked[n][k] = Wanted(work, config, <<n, k>>)
    BY <1>1, <1>3 DEF Remaining
  <2>2. Wanted(work, config, <<n, k>>) \in Digests
    BY <1>1, <1>3, PhysicalType, VersionType DEF Wanted, Digests
  <2>3. IsTracked(work, n)
    BY <2>1, <2>2, NoneIsNoDigest DEF IsTracked, Gone
  <2> QED  BY <1>2, <1>3, <2>1, <2>3 DEF Wanted
<1>4. CASE <<n, k>> \notin Current(config)
  BY <1>1, <1>4 DEF Remaining
<1> QED  BY <1>3, <1>4

LEMMA NextSettled == MovesInv /\ SettledInv /\ [Next]_vars => SettledInv'
<1> SUFFICES ASSUME MovesInv, SettledInv, [Next]_vars PROVE SettledInv'
  OBVIOUS
<1> DEFINE Left == Planned => Remaining(todo, work, objects, config)
           Sound == done => Settled(state, objects, accepted)
<1>0. /\ phase \in {"prewrite", "steps"} => ~ done /\ accepted = config
      /\ Sound /\ Left
  BY DEF SettledInv
\* What planning leaves alone.
<1>1. ASSUME UNCHANGED <<state, objects, accepted, done>> PROVE Sound'
  BY <1>0, <1>1
<1>2. ASSUME UNCHANGED <<objects, work, config, todo>>, Planned PROVE Left'
  BY <1>0, <1>2
<1>3. ASSUME NEW c \in Configs, Start(c) PROVE SettledInv'
  BY <1>1, <1>3 DEF Start, SettledInv, Planned
<1>4. ASSUME NEW f \in Names, ResolveMove(f) PROVE SettledInv'
  <2>1. phase' \in {"resolve", "refused"} /\ UNCHANGED <<state, objects, accepted, done>>
    BY <1>4 DEF ResolveMove, Refuse
  <2> QED  BY <1>1, <2>1 DEF SettledInv, Planned
<1>5. CASE Bind
  <2>1. UNCHANGED <<state, objects, config, accepted, done>>
    BY <1>5 DEF Bind, Refuse, memory
  <2>2. phase' = "refused" \/ (phase' = "planned" /\ todo' = Steps(work', config))
    BY <1>5 DEF Bind, Refuse
  <2>3. phase' = "planned" => Remaining(todo', work', objects', config')
    BY <2>1, <2>2, BindSettled
  <2> QED  BY <1>1, <2>1, <2>2, <2>3 DEF SettledInv, Planned
<1>6. CASE Abandon
  BY <1>1, <1>6 DEF Abandon, Idle, SettledInv, Planned
<1>7. CASE Begin
  <2>1. /\ phase = "planned" /\ phase' \in {"prewrite", "steps"} /\ done' = FALSE
        /\ accepted' = config /\ UNCHANGED <<objects, work, config, todo>>
    BY <1>7 DEF Begin, memory
  <2> QED  BY <1>2, <2>1 DEF SettledInv, Planned
<1>8. CASE Prewrite
  <2>1. /\ phase = "prewrite" /\ state' = Pruned(work) /\ UNCHANGED <<objects, accepted>>
        /\ \/ todo = {} /\ Idle /\ done' = TRUE
           \/ phase' = "steps" /\ UNCHANGED <<config, work, todo, done>>
    BY <1>8 DEF Prewrite, memory
  <2>2. CASE todo = {} /\ Idle /\ done' = TRUE
    BY <2>1, <2>2, DoneSettled DEF SettledInv, Idle, Planned
  <2>3. CASE phase' = "steps" /\ UNCHANGED <<config, work, todo, done>>
    <3>1. ~ done /\ accepted = config
      BY <2>1 DEF SettledInv
    <3>2. Left'
      BY <1>2, <2>1, <2>3 DEF Planned
    <3> QED  BY <2>1, <2>3, <3>1, <3>2 DEF SettledInv
  <2> QED  BY <2>1, <2>2, <2>3
<1>9. ASSUME NEW s \in todo, Step(s) PROVE SettledInv'
  <2>1. /\ phase = "steps" /\ phase' = "steps" /\ UNCHANGED <<state, config, accepted, done>>
    BY <1>9 DEF Step
  <2> QED  BY <1>9, <2>1, StepSettled DEF SettledInv
<1>10. CASE Finish
  BY <1>10, DoneSettled DEF Finish, Idle, SettledInv, Planned
<1>11. CASE BreakOff
  <2>1. phase' = "idle" /\ phase \in {"prewrite", "steps"} /\ UNCHANGED done
    BY <1>11 DEF BreakOff, Idle
  <2> QED  BY <2>1 DEF SettledInv, Planned
<1>12. CASE UNCHANGED vars
  BY <1>1, <1>2, <1>12 DEF vars, memory, SettledInv, Planned
<1> QED
  BY <1>3, <1>4, <1>5, <1>6, <1>7, <1>8, <1>9, <1>10, <1>11, <1>12 DEF Next

\* After a successful apply the host has what is declared, and the state file has
\* that on record and nothing else, whatever was renamed, refused or broken off
\* before (engine.go:758-808).
THEOREM CompletedApply == Spec => []CompletedHolds
<1>1. SettledInv => CompletedHolds
  BY DEF SettledInv, Settled, CompletedHolds, Object
<1> QED
  BY <1>1, InitSettled, NextSettled, MovesInvariance, PTL DEF Spec

-----------------------------------------------------------------------------
(* What a configuration makes of what is tracked.                          *)

\* Where the moves of c take a component.
End(c, n) == IF n \in DOMAIN c.moved THEN Goal(c, n) ELSE n

\* No two tracked components end as one or share a physical name, and a mounted
\* component that nothing tracked becomes finds its own name free.
Acceptable(st, c) ==
  /\ \A x, y \in Names :
       IsTracked(st, x) /\ IsTracked(st, y) /\ x # y
         => End(c, x) # End(c, y) /\ Physical(st, x) # Physical(st, y)
  /\ \A u \in Mounted(c), x \in Names :
       IsTracked(st, x) /\ Physical(st, x) = u
         => \E y \in Names : IsTracked(st, y) /\ End(c, y) = u

\* Moves that are taken, and only those, have left their sources.
Left(st, c, moves) ==
  /\ \A n \in DOMAIN c.moved : IsTracked(st, n) => n \in moves
  /\ \A n \in moves : c.moved[n] \in DOMAIN c.moved => c.moved[n] \in moves

\* What planning has made of the components: each is what its origin was, no two
\* have one origin, and each that the state file tracks is the origin of one.
Carried ==
  /\ \A x \in Names : IsTracked(work, x) =>
       /\ IsTracked(state, origin[x])
       /\ work.tracked[x] = state.tracked[origin[x]]
       /\ Physical(work, x) = Physical(state, origin[x])
       /\ End(config, x) = End(config, origin[x])
  /\ \A x, y \in Names :
       IsTracked(work, x) /\ IsTracked(work, y) /\ x # y => origin[x] # origin[y]
  /\ \A n \in Names : IsTracked(state, n) =>
       \E x \in Names : IsTracked(work, x) /\ origin[x] = n

CarryInv ==
  /\ phase = "idle" => origin = Untouched
  /\ phase = "resolve" => Carried /\ Left(work, config, pending)

\* What was executed last is acceptable, and only what is not is refused.
AcceptInv ==
  /\ Acceptable(state, accepted)
  /\ phase = "refused" => ~ Acceptable(state, config)
  /\ Planned => Acceptable(state, config) /\ Left(work, config, {})
  /\ phase \in {"planned", "prewrite"} =>
       \A n \in Names : work.physical[n] # None => IsTracked(work, n)

\* A plan of renamings has no steps.
RenameInv == phase = "planned" /\ done /\ Renames(accepted, config) => todo = {}

-----------------------------------------------------------------------------
(* Chains of moves.                                                        *)

\* The smallest closed set is closed, and below every other.
LEMMA DownstreamLeast ==
  ASSUME NEW m, NEW n
  PROVE  /\ Downstream(m, n) \subseteq Names
         /\ \A S \in SUBSET Names :
              (\A z \in {n} \cup S : z \in DOMAIN m => m[z] \in S) => Downstream(m, n) \subseteq S
         /\ \A z \in {n} \cup Downstream(m, n) :
              z \in DOMAIN m /\ m[z] \in Names => m[z] \in Downstream(m, n)
<1> DEFINE Closed(S) == \A z \in {n} \cup S : z \in DOMAIN m => m[z] \in S
<1>1. \A S : Destinations(m, {n} \cup S) \subseteq S <=> Closed(S)
  BY DEF Destinations
<1>2. Downstream(m, n) = {x \in Names : \A S \in SUBSET Names : Closed(S) => x \in S}
  BY <1>1 DEF Downstream
<1>3. ASSUME NEW z \in {n} \cup Downstream(m, n), z \in DOMAIN m, m[z] \in Names,
             NEW S \in SUBSET Names, Closed(S)
      PROVE  m[z] \in S
  <2>1. z \in {n} \cup S
    BY <1>2, <1>3
  <2> QED  BY <1>3, <2>1
<1>4. \A z \in {n} \cup Downstream(m, n) :
        z \in DOMAIN m /\ m[z] \in Names => m[z] \in Downstream(m, n)
  BY <1>2, <1>3
<1>5. \A S \in SUBSET Names : Closed(S) => Downstream(m, n) \subseteq S
  BY <1>2
<1> QED  BY <1>2, <1>4, <1>5

\* A chain goes on from the destination of its first move, and ends where none is.
LEMMA DownstreamStep ==
  ASSUME NEW m, \A z \in DOMAIN m : m[z] \in Names, NEW n
  PROVE  /\ n \in DOMAIN m => Downstream(m, n) = {m[n]} \cup Downstream(m, m[n])
         /\ n \notin DOMAIN m => Downstream(m, n) = {}
<1>1. CASE n \in DOMAIN m
  <2> DEFINE t == m[n]
             S == {t} \cup Downstream(m, t)
  <2>1. t \in Names /\ S \in SUBSET Names
    BY <1>1, DownstreamLeast
  <2>2. Downstream(m, n) \subseteq S
    <3>1. \A z \in {n} \cup S : z \in DOMAIN m => m[z] \in S
      BY <1>1, DownstreamLeast
    <3> HIDE DEF S
    <3> QED  BY <2>1, <3>1, DownstreamLeast
  <2>3. t \in Downstream(m, n)
    BY <1>1, <2>1, DownstreamLeast
  <2>4. Downstream(m, t) \subseteq Downstream(m, n)
    <3>1. \A z \in {t} \cup Downstream(m, n) : z \in DOMAIN m => m[z] \in Downstream(m, n)
      BY <2>3, DownstreamLeast
    <3>2. Downstream(m, n) \in SUBSET Names
      BY DownstreamLeast
    <3> HIDE DEF t
    <3> QED  BY <3>1, <3>2, DownstreamLeast
  <2> QED  BY <1>1, <2>2, <2>3, <2>4
<1>2. CASE n \notin DOMAIN m
  <2>1. \A z \in {n} \cup {} : z \in DOMAIN m => m[z] \in {}
    BY <1>2
  <2>2. {} \in SUBSET Names
    OBVIOUS
  <2>3. Downstream(m, n) \subseteq {}
    BY <2>1, <2>2, DownstreamLeast
  <2> QED  BY <1>2, <2>3
<1> QED  BY <1>1, <1>2

\* The moves that a host keeps lead, by moves that it keeps, to a mounted
\* component, and start from none.
LEMMA CompiledChains ==
  ASSUME NEW c \in Configs, NEW f \in DOMAIN c.moved
  PROVE  /\ f \in Names /\ c.moved[f] \in Names /\ f # c.moved[f]
         /\ f \notin Mounted(c)
         /\ Downstream(c.moved, f) \cap Mounted(c) # {}
<1>1. PICK d \in [mounts : Mounts, moved : Moved] : c = Compiled(d) /\ ~ Ambiguous(d)
  BY DEF Configs
<1>2. /\ c.mounts = d.mounts /\ DOMAIN c.moved = HostMoves(d)
      /\ \A n \in HostMoves(d) : c.moved[n] = d.moved[n]
  BY <1>1 DEF Compiled
<1>3. /\ DOMAIN d.moved \subseteq Names /\ \A z \in DOMAIN d.moved : d.moved[z] \in Names
      /\ \A n \in Names : n \notin Downstream(d.moved, n)
  BY DEF Moved, Blocks
<1>4. Mounted(c) = Mounted(d)
  BY <1>2 DEF Mounted
<1>5. f \in DOMAIN d.moved /\ Downstream(d.moved, f) \cap Mounted(d) # {}
  BY <1>2 DEF HostMoves
<1>6. f \in Names /\ c.moved[f] \in Names /\ f \notin Mounted(c)
  BY <1>1, <1>2, <1>3, <1>4, <1>5 DEF Ambiguous
<1>7. f # c.moved[f]
  <2>1. d.moved[f] \in Downstream(d.moved, f)
    BY <1>3, <1>5, DownstreamLeast
  <2> QED  BY <1>2, <1>3, <1>6, <2>1
<1> DEFINE Lead(y) == y \in Mounted(d) \/ Downstream(d.moved, y) \cap Mounted(d) # {}
           T == {y \in Names : Lead(y) => y \in Downstream(c.moved, f)}
<1>8. ASSUME NEW z \in {f} \cup T, z \in DOMAIN d.moved
      PROVE  d.moved[z] \in T
  <2> SUFFICES ASSUME Lead(d.moved[z]) PROVE d.moved[z] \in Downstream(c.moved, f)
    BY <1>3, <1>8
  <2>1. Downstream(d.moved, z) \cap Mounted(d) # {}
    BY <1>3, <1>8, DownstreamStep
  <2>2. z \in HostMoves(d)
    BY <1>8, <2>1 DEF HostMoves
  <2>3. z \in {f} \cup Downstream(c.moved, f)
    BY <2>1
  <2>4. z \in DOMAIN c.moved /\ c.moved[z] = d.moved[z] /\ c.moved[z] \in Names
    BY <1>2, <1>3, <1>8, <2>2
  <2>5. c.moved[z] \in Downstream(c.moved, f)
    BY <2>3, <2>4, DownstreamLeast
  <2> QED  BY <2>4, <2>5
<1>9. Downstream(d.moved, f) \subseteq T
  <2>1. T \in SUBSET Names
    OBVIOUS
  <2> HIDE DEF T
  <2> QED  BY <1>8, <2>1, DownstreamLeast
<1>10. Downstream(c.moved, f) \cap Mounted(c) # {}
  BY <1>4, <1>5, <1>9
<1> QED  BY <1>6, <1>7, <1>10

\* A move does not change where a component ends.
LEMMA EndSteps ==
  ASSUME NEW c \in Configs
  PROVE  /\ \A f \in DOMAIN c.moved : End(c, f) \in Mounted(c) /\ End(c, c.moved[f]) = End(c, f)
         /\ \A n \in Mounted(c) : n \notin DOMAIN c.moved
         /\ \A n : n \notin DOMAIN c.moved => End(c, n) = n
<1>1. \A n \in Mounted(c) : n \notin DOMAIN c.moved
  BY CompiledChains
<1>2. ASSUME NEW f \in DOMAIN c.moved
      PROVE  End(c, f) \in Mounted(c) /\ End(c, c.moved[f]) = End(c, f)
  <2> DEFINE t == c.moved[f]
             Ends(n) == Downstream(c.moved, n) \cap Mounted(c)
  <2>1. Ends(f) # {}
    BY CompiledChains
  <2>2. End(c, f) = CHOOSE n \in Ends(f) : TRUE
    BY DEF End, Goal
  <2>3. End(c, f) \in Ends(f)
    BY <2>1, <2>2
  <2>4. \A z \in DOMAIN c.moved : c.moved[z] \in Names
    BY CompiledChains
  <2>5. Downstream(c.moved, f) = {t} \cup Downstream(c.moved, t)
    BY <2>4, DownstreamStep
  <2>6. CASE t \in DOMAIN c.moved
    <3>1. t \notin Mounted(c)
      BY <1>1, <2>6
    <3>2. Ends(f) = Ends(t)
      BY <2>5, <3>1
    <3>3. End(c, t) = CHOOSE n \in Ends(t) : TRUE
      BY <2>6 DEF End, Goal
    <3> QED  BY <2>2, <2>3, <3>2, <3>3
  <2>7. CASE t \notin DOMAIN c.moved
    <3>1. Downstream(c.moved, t) = {}
      BY <2>4, <2>7, DownstreamStep
    <3>2. End(c, f) = t
      BY <2>3, <2>5, <3>1
    <3>3. End(c, t) = t
      BY <2>7 DEF End
    <3> QED  BY <2>3, <3>2, <3>3
  <2> QED  BY <2>6, <2>7
<1> QED  BY <1>1, <1>2 DEF End

-----------------------------------------------------------------------------
(* What planning carries over.                                             *)

\* A renaming moves the records and the physical name.
LEMMA RenamedParts ==
  ASSUME NEW st \in States, NEW f \in Names, NEW t \in Names, f # t
  PROVE  /\ \A n \in Names : Renamed(st, f, t).tracked[n] =
              IF n = f THEN Gone ELSE IF n = t THEN st.tracked[f] ELSE st.tracked[n]
         /\ Physical(Renamed(st, f, t), t) = Physical(st, f)
         /\ \A n \in Names \ {f, t} : Physical(Renamed(st, f, t), n) = Physical(st, n)
<1> DEFINE new == Renamed(st, f, t)
           p == Physical(st, f)
<1>1. /\ new.tracked = [st.tracked EXCEPT ![t] = st.tracked[f], ![f] = Gone]
      /\ new.physical = [st.physical EXCEPT ![f] = None, ![t] = IF p = t THEN None ELSE p]
  BY DEF Renamed
<1>2. p \in Names /\ p # None
  BY PhysicalType, MovesAssumption
<1> HIDE DEF new, p
<1>3. new.physical[t] = (IF p = t THEN None ELSE p)
      /\ \A n \in Names \ {f, t} : new.physical[n] = st.physical[n]
  BY <1>1 DEF States
<1>4. Physical(new, t) = p /\ \A n \in Names \ {f, t} : Physical(new, n) = Physical(st, n)
  BY <1>2, <1>3 DEF Physical
<1>5. \A n \in Names : new.tracked[n] =
        IF n = f THEN Gone ELSE IF n = t THEN st.tracked[f] ELSE st.tracked[n]
  BY <1>1 DEF States
<1> QED  BY <1>4, <1>5 DEF new, p

\* Planning has not changed whether the configuration is acceptable.
LEMMA CarriedAcceptable ==
  ASSUME Carried, origin \in [Names -> Names]
  PROVE  Acceptable(state, config) <=> Acceptable(work, config)
<1>1. ASSUME Acceptable(state, config) PROVE Acceptable(work, config)
  <2>1. ASSUME NEW x \in Names, NEW y \in Names, IsTracked(work, x), IsTracked(work, y), x # y
        PROVE  End(config, x) # End(config, y) /\ Physical(work, x) # Physical(work, y)
    <3>1. /\ origin[x] \in Names /\ origin[y] \in Names /\ origin[x] # origin[y]
          /\ IsTracked(state, origin[x]) /\ IsTracked(state, origin[y])
      BY <2>1 DEF Carried
    <3>2. /\ End(config, origin[x]) # End(config, origin[y])
          /\ Physical(state, origin[x]) # Physical(state, origin[y])
      BY <1>1, <3>1 DEF Acceptable
    <3> QED  BY <2>1, <3>2 DEF Carried
  <2>2. ASSUME NEW u \in Mounted(config), NEW x \in Names,
               IsTracked(work, x), Physical(work, x) = u
        PROVE  \E y \in Names : IsTracked(work, y) /\ End(config, y) = u
    <3>1. origin[x] \in Names /\ IsTracked(state, origin[x]) /\ Physical(state, origin[x]) = u
      BY <2>2 DEF Carried
    <3>2. PICK v \in Names : IsTracked(state, v) /\ End(config, v) = u
      BY <1>1, <3>1 DEF Acceptable
    <3>3. PICK y \in Names : IsTracked(work, y) /\ origin[y] = v
      BY <3>2 DEF Carried
    <3> QED  BY <3>2, <3>3 DEF Carried
  <2> QED  BY <2>1, <2>2 DEF Acceptable
<1>2. ASSUME Acceptable(work, config) PROVE Acceptable(state, config)
  <2>1. ASSUME NEW v \in Names, NEW w \in Names, IsTracked(state, v), IsTracked(state, w), v # w
        PROVE  End(config, v) # End(config, w) /\ Physical(state, v) # Physical(state, w)
    <3>1. PICK x \in Names : IsTracked(work, x) /\ origin[x] = v
      BY <2>1 DEF Carried
    <3>2. PICK y \in Names : IsTracked(work, y) /\ origin[y] = w
      BY <2>1 DEF Carried
    <3>3. End(config, x) # End(config, y) /\ Physical(work, x) # Physical(work, y)
      BY <1>2, <2>1, <3>1, <3>2 DEF Acceptable
    <3> QED  BY <3>1, <3>2, <3>3 DEF Carried
  <2>2. ASSUME NEW u \in Mounted(config), NEW v \in Names,
               IsTracked(state, v), Physical(state, v) = u
        PROVE  \E y \in Names : IsTracked(state, y) /\ End(config, y) = u
    <3>1. PICK x \in Names : IsTracked(work, x) /\ origin[x] = v
      BY <2>2 DEF Carried
    <3>2. Physical(work, x) = u
      BY <2>2, <3>1 DEF Carried
    <3>3. PICK y \in Names : IsTracked(work, y) /\ End(config, y) = u
      BY <1>2, <3>1, <3>2 DEF Acceptable
    <3> QED  BY <3>3 DEF Carried
  <2> QED  BY <2>1, <2>2 DEF Acceptable
<1> QED  BY <1>1, <1>2

\* A move carries one component on.
LEMMA RenameCarries ==
  ASSUME MovesInv, CarryInv, NEW f \in pending, phase = "resolve", First(f),
         NEW t, t = config.moved[f], IsTracked(work, f), ~ IsTracked(work, t),
         work' = Renamed(work, f, t),
         origin' = [origin EXCEPT ![t] = origin[f], ![f] = f],
         pending' = pending \ {f}, UNCHANGED <<state, config>>
  PROVE  Carried' /\ Left(work', config', pending')
<1>1. /\ config \in Configs /\ f \in DOMAIN config.moved /\ pending \subseteq DOMAIN config.moved
      /\ work \in States /\ origin \in [Names -> Names]
      /\ Carried /\ Left(work, config, pending)
  BY DEF MovesInv, PhaseInv, TypeOK, CarryInv
<1>2. f \in Names /\ t \in Names /\ f # t /\ End(config, t) = End(config, f)
  BY <1>1, CompiledChains, EndSteps
<1>3. /\ \A n \in Names : work'.tracked[n] =
           IF n = f THEN Gone ELSE IF n = t THEN work.tracked[f] ELSE work.tracked[n]
      /\ Physical(work', t) = Physical(work, f)
      /\ \A n \in Names \ {f, t} : Physical(work', n) = Physical(work, n)
  BY <1>1, <1>2, RenamedParts
<1> DEFINE was(x) == IF x = t THEN f ELSE x
<1>4. ASSUME NEW x \in Names, IsTracked(work', x)
      PROVE  /\ was(x) \in Names /\ IsTracked(work, was(x)) /\ x # f
             /\ work'.tracked[x] = work.tracked[was(x)]
             /\ Physical(work', x) = Physical(work, was(x))
             /\ origin'[x] = origin[was(x)]
             /\ End(config, x) = End(config, was(x))
  <2>1. x # f
    BY <1>3, <1>4 DEF IsTracked
  <2>2. CASE x = t
    BY <1>1, <1>2, <1>3, <2>2
  <2>3. CASE x # t
    BY <1>1, <1>2, <1>3, <1>4, <2>1, <2>3 DEF IsTracked
  <2> QED  BY <2>1, <2>2, <2>3
<1>5. IsTracked(work', t) /\ origin'[t] = origin[f]
  BY <1>1, <1>2, <1>3 DEF IsTracked
<1>6. ASSUME NEW n \in Names, IsTracked(state, n)
      PROVE  \E x \in Names : IsTracked(work', x) /\ origin'[x] = n
  <2>1. PICK x \in Names : IsTracked(work, x) /\ origin[x] = n
    BY <1>1, <1>6 DEF Carried
  <2>2. CASE x = f
    BY <1>2, <1>5, <2>1, <2>2
  <2>3. CASE x # f
    <3>1. x # t
      BY <2>1
    <3>2. IsTracked(work', x) /\ origin'[x] = n
      BY <1>1, <1>2, <1>3, <2>1, <2>3, <3>1 DEF IsTracked
    <3> QED  BY <3>2
  <2> QED  BY <2>2, <2>3
<1>7. ASSUME NEW x \in Names, IsTracked(work', x)
      PROVE  /\ IsTracked(state, origin'[x])
             /\ work'.tracked[x] = state.tracked[origin'[x]]
             /\ Physical(work', x) = Physical(state, origin'[x])
             /\ End(config, x) = End(config, origin'[x])
  <2> DEFINE w == was(x)
  <2>1. /\ w \in Names /\ IsTracked(work, w)
        /\ work'.tracked[x] = work.tracked[w] /\ Physical(work', x) = Physical(work, w)
        /\ origin'[x] = origin[w] /\ End(config, x) = End(config, w)
    BY <1>4, <1>7
  <2> HIDE DEF w
  <2> QED  BY <1>1, <2>1 DEF Carried
<1>8. ASSUME NEW x \in Names, NEW y \in Names, IsTracked(work', x), IsTracked(work', y), x # y
      PROVE  origin'[x] # origin'[y]
  <2>1. was(x) # was(y)
    BY <1>4, <1>8
  <2>2. /\ was(x) \in Names /\ IsTracked(work, was(x)) /\ origin'[x] = origin[was(x)]
        /\ was(y) \in Names /\ IsTracked(work, was(y)) /\ origin'[y] = origin[was(y)]
    BY <1>4, <1>8
  <2> HIDE DEF was
  <2> QED  BY <1>1, <2>1, <2>2 DEF Carried
<1>9. Carried'
  <2>1. /\ \A n : IsTracked(state, n)' <=> IsTracked(state, n)
        /\ \A n : IsTracked(work, n)' <=> IsTracked(work', n)
        /\ \A n : Physical(state, n)' = Physical(state, n)
        /\ \A n : Physical(work, n)' = Physical(work', n)
        /\ \A n : End(config, n)' = End(config, n)
    BY DEF IsTracked, Physical, End, Goal, Downstream, Mounted
  <2> QED  BY <1>6, <1>7, <1>8, <2>1 DEF Carried
<1>10. \A n \in DOMAIN config.moved : IsTracked(work', n) => n \in pending \ {f}
  <2> SUFFICES ASSUME NEW n \in DOMAIN config.moved, IsTracked(work', n)
               PROVE  n \in pending \ {f}
    OBVIOUS
  <2>1. n \in Names /\ n # f
    BY <1>1, <1>4, CompiledChains
  <2>2. CASE n = t
    BY <1>1, <2>1, <2>2 DEF Left
  <2>3. CASE n # t
    BY <1>1, <1>3, <2>1, <2>3 DEF Left, IsTracked
  <2> QED  BY <2>2, <2>3
<1>11. \A n \in pending \ {f} :
         config.moved[n] \in DOMAIN config.moved => config.moved[n] \in pending \ {f}
  BY <1>1 DEF Left, First
<1> QED  BY <1>9, <1>10, <1>11 DEF Left

\* Planning carries all that is tracked from the state file to what it plans.
LEMMA NextCarry == MovesInv /\ CarryInv /\ [Next]_vars => CarryInv'
<1> SUFFICES ASSUME MovesInv, CarryInv, [Next]_vars PROVE CarryInv'
  OBVIOUS
<1>1. ASSUME UNCHANGED <<state, work, origin, config>>, Carried PROVE Carried'
  <2>1. /\ \A n : IsTracked(state, n)' <=> IsTracked(state, n)
        /\ \A n : IsTracked(work, n)' <=> IsTracked(work, n)
        /\ \A n : Physical(state, n)' = Physical(state, n)
        /\ \A n : Physical(work, n)' = Physical(work, n)
        /\ \A n : End(config, n)' = End(config, n)
    BY <1>1 DEF IsTracked, Physical, End, Goal, Downstream, Mounted
  <2> QED  BY <1>1, <2>1 DEF Carried
<1>2. ASSUME NEW c \in Configs, Start(c) PROVE CarryInv'
  <2>1. /\ phase = "idle" /\ phase' = "resolve" /\ config' = c /\ work' = Pruned(state)
        /\ pending' = DOMAIN c.moved /\ UNCHANGED <<state, origin>> /\ origin = Untouched
    BY <1>2 DEF Start, CarryInv
  <2>2. /\ state \in States
        /\ \A n \in Names : IsTracked(Pruned(state), n) <=> IsTracked(state, n)
        /\ \A n \in Names : IsTracked(state, n) => Physical(Pruned(state), n) = Physical(state, n)
        /\ Pruned(state).tracked = state.tracked
    BY PrunedState DEF MovesInv, TypeOK, IsTracked
  <2>3. /\ \A n : IsTracked(state, n)' <=> IsTracked(state, n)
        /\ \A n : IsTracked(work, n)' <=> IsTracked(Pruned(state), n)
        /\ \A n : Physical(state, n)' = Physical(state, n)
        /\ \A n : Physical(work, n)' = Physical(Pruned(state), n)
        /\ \A n \in Names : origin'[n] = n
    BY <2>1 DEF IsTracked, Physical, Untouched
  <2>4. Carried'
    BY <2>1, <2>2, <2>3 DEF Carried
  <2>5. Left(work', c, DOMAIN c.moved)
    BY DEF Left
  <2> QED  BY <2>1, <2>4, <2>5 DEF CarryInv
<1>3. ASSUME NEW f \in Names, ResolveMove(f) PROVE CarryInv'
  <2> DEFINE t == config.moved[f]
  <2>1. /\ phase = "resolve" /\ f \in pending /\ First(f) /\ config \in Configs
        /\ Carried /\ Left(work, config, pending) /\ f \in DOMAIN config.moved
    BY <1>3 DEF ResolveMove, CarryInv, MovesInv, PhaseInv
  <2>2. CASE Refuse
    BY <2>1, <2>2 DEF Refuse, CarryInv
  <2>3. CASE /\ ~ MoveRefused(f, t) /\ pending' = pending \ {f}
             /\ IsTracked(work, f) /\ f \notin Mounted(config)
             /\ work' = Renamed(work, f, t)
             /\ origin' = [origin EXCEPT ![t] = origin[f], ![f] = f]
             /\ UNCHANGED <<state, objects, phase, config, todo, accepted, done, applies, breaks>>
    <3>1. ~ IsTracked(work, t)
      BY <2>3 DEF MoveRefused
    <3>2. Carried' /\ Left(work', config', pending')
      BY <2>1, <2>3, <3>1, RenameCarries
    <3> QED  BY <2>1, <2>3, <3>2 DEF CarryInv
  <2>4. CASE /\ pending' = pending \ {f} /\ ~ IsTracked(work, f)
             /\ UNCHANGED <<work, origin, state, objects, phase, config, todo, accepted, done, applies, breaks>>
    <3>1. Left(work, config, pending \ {f})
      BY <2>1, <2>4 DEF Left, First
    <3> QED  BY <1>1, <2>1, <2>4, <3>1 DEF CarryInv
  <2>5. f \notin Mounted(config)
    BY <2>1, CompiledChains
  <2> QED  BY <1>3, <2>2, <2>3, <2>4, <2>5 DEF ResolveMove
<1>4. CASE Bind
  BY <1>4 DEF Bind, Refuse, CarryInv
<1>5. CASE Abandon \/ Finish \/ BreakOff
  BY <1>5 DEF Abandon, Finish, BreakOff, Idle, CarryInv
<1>6. CASE Begin
  BY <1>6 DEF Begin, CarryInv
<1>7. CASE Prewrite
  BY <1>7 DEF Prewrite, Idle, CarryInv
<1>8. ASSUME NEW s \in todo, Step(s) PROVE CarryInv'
  BY <1>8 DEF Step, CarryInv
<1>9. CASE UNCHANGED vars
  BY <1>1, <1>9 DEF vars, memory, CarryInv, Left, IsTracked
<1> QED
  BY <1>2, <1>3, <1>4, <1>5, <1>6, <1>7, <1>8, <1>9 DEF Next

-----------------------------------------------------------------------------
(* What is accepted stays acceptable.                                      *)

\* Pruning does not change what is acceptable.
LEMMA PrunedAcceptable ==
  ASSUME NEW st \in States, NEW c
  PROVE  Acceptable(Pruned(st), c) <=> Acceptable(st, c)
<1>1. /\ \A n \in Names : IsTracked(Pruned(st), n) <=> IsTracked(st, n)
      /\ \A n \in Names : IsTracked(st, n) => Physical(Pruned(st), n) = Physical(st, n)
  BY PrunedState DEF IsTracked
<1> QED  BY <1>1 DEF Acceptable

\* A move is refused when two components of its chain are tracked.
LEMMA RefusedMove ==
  ASSUME NEW c \in Configs, NEW st, NEW f \in DOMAIN c.moved,
         IsTracked(st, f), IsTracked(st, c.moved[f])
  PROVE  ~ Acceptable(st, c)
<1>1. /\ f \in Names /\ c.moved[f] \in Names /\ f # c.moved[f]
      /\ End(c, c.moved[f]) = End(c, f)
  BY CompiledChains, EndSteps
<1> QED  BY <1>1 DEF Acceptable

\* Names conflict exactly when the configuration is not acceptable, once all moves
\* are taken.
LEMMA ConflictRefuses ==
  ASSUME NEW c \in Configs, NEW st \in States, Left(st, c, {})
  PROVE  Conflict(Pruned(st), c) <=> ~ Acceptable(st, c)
<1> DEFINE pr == Pruned(st)
<1>1. /\ \A n \in Names : IsTracked(pr, n) <=> IsTracked(st, n)
      /\ \A n \in Names : IsTracked(st, n) => Physical(pr, n) = Physical(st, n)
      /\ \A n \in Names : ~ IsTracked(st, n) => Physical(pr, n) = n
  <2>1. \A n \in Names : IsTracked(pr, n) <=> IsTracked(st, n)
    BY PrunedState DEF IsTracked
  <2> QED  BY <2>1, PrunedState DEF Physical
<1>2. \A n \in Names : IsTracked(st, n) => End(c, n) = n
  BY EndSteps DEF Left
<1>3. Mounted(c) \subseteq Names
  BY ConfigType DEF Mounted
<1> HIDE DEF pr
<1>4. ASSUME Acceptable(st, c), Conflict(pr, c) PROVE FALSE
  <2>1. PICK x \in Active(pr, c), y \in Active(pr, c) : x # y /\ Physical(pr, x) = Physical(pr, y)
    BY <1>4 DEF Conflict
  <2>2. x \in Names /\ y \in Names
    BY <1>3 DEF Active
  <2>3. \A u \in Mounted(c), v \in Names :
          IsTracked(st, v) /\ Physical(st, v) = u => IsTracked(st, u)
    BY <1>2, <1>3, <1>4 DEF Acceptable
  <2>4. CASE IsTracked(st, x) /\ IsTracked(st, y)
    BY <1>1, <1>4, <2>1, <2>2, <2>4 DEF Acceptable
  <2>5. CASE IsTracked(st, x) /\ ~ IsTracked(st, y)
    BY <1>1, <2>1, <2>2, <2>3, <2>5 DEF Active
  <2>6. CASE ~ IsTracked(st, x) /\ IsTracked(st, y)
    BY <1>1, <2>1, <2>2, <2>3, <2>6 DEF Active
  <2>7. CASE ~ IsTracked(st, x) /\ ~ IsTracked(st, y)
    BY <1>1, <2>1, <2>2, <2>7
  <2> QED  BY <2>4, <2>5, <2>6, <2>7
<1>5. ASSUME ~ Conflict(pr, c) PROVE Acceptable(st, c)
  <2>1. ASSUME NEW x \in Names, NEW y \in Names, IsTracked(st, x), IsTracked(st, y), x # y
        PROVE  End(c, x) # End(c, y) /\ Physical(st, x) # Physical(st, y)
    <3>1. x \in Active(pr, c) /\ y \in Active(pr, c)
      BY <1>1, <2>1 DEF Active
    <3> QED  BY <1>1, <1>2, <1>5, <2>1, <3>1 DEF Conflict
  <2>2. ASSUME NEW u \in Mounted(c), NEW x \in Names, IsTracked(st, x), Physical(st, x) = u
        PROVE  \E y \in Names : IsTracked(st, y) /\ End(c, y) = u
    <3>1. u \in Names /\ x \in Active(pr, c) /\ u \in Active(pr, c)
      BY <1>1, <1>3, <2>2 DEF Active
    <3>2. IsTracked(st, u)
      <4> SUFFICES ASSUME ~ IsTracked(st, u) PROVE FALSE
        OBVIOUS
      <4>1. x # u /\ Physical(pr, x) = Physical(pr, u)
        BY <1>1, <2>2, <3>1
      <4> QED  BY <1>5, <3>1, <4>1 DEF Conflict
    <3> QED  BY <1>2, <3>1, <3>2
  <2> QED  BY <2>1, <2>2 DEF Acceptable
<1> QED  BY <1>4, <1>5 DEF pr

\* Records that take a new logical name remain records.
LEMMA RebasedTracked ==
  ASSUME NEW st \in States, NEW c \in Configs, origin \in [Names -> Names], NEW n \in Names
  PROVE  IsTracked(Rebased(st, c), n) <=> IsTracked(st, n)
<1> DEFINE moves(k) == /\ <<n, k>> \in Current(c)
                       /\ origin[n] # n
                       /\ st.tracked[n][k] = Legacy(st, c, <<n, k>>)
           row == [k \in Keys |-> IF moves(k) THEN Wanted(st, c, <<n, k>>) ELSE st.tracked[n][k]]
<1>1. Rebased(st, c).tracked[n] = row
  <2> DEFINE new == [m \in Names |-> [q \in Keys |->
                       IF /\ <<m, q>> \in Current(c)
                          /\ origin[m] # m
                          /\ st.tracked[m][q] = Legacy(st, c, <<m, q>>)
                       THEN Wanted(st, c, <<m, q>>)
                       ELSE st.tracked[m][q]]]
  <2>1. \A x : [st EXCEPT !.tracked = x].tracked = x
    BY DEF States
  <2>2. Rebased(st, c).tracked = new
    BY <2>1, Zenon DEF Rebased
  <2>3. new[n] = row
    OBVIOUS
  <2> QED  BY <2>2, <2>3
<1>2. ASSUME NEW k \in Keys, moves(k)
      PROVE  Wanted(st, c, <<n, k>>) # None /\ st.tracked[n][k] # None
  <2>1. Wanted(st, c, <<n, k>>) \in Digests
    BY <1>2, VersionType, PhysicalType DEF Wanted, Digests
  <2>2. Legacy(st, c, <<n, k>>) \in Digests
    BY <2>1 DEF Legacy, Digests
  <2> QED  BY <1>2, <2>1, <2>2, NoneIsNoDigest
<1> HIDE DEF moves
<1>3. \A k \in Keys : row[k] = None <=> st.tracked[n][k] = None
  BY <1>2
<1>4. st.tracked[n] = [k \in Keys |-> st.tracked[n][k]]
  BY DEF States
<1>5. row = [k \in Keys |-> row[k]]
  OBVIOUS
<1> HIDE DEF row
<1> QED  BY <1>1, <1>3, <1>4, <1>5 DEF IsTracked, Gone

\* Names that do not conflict in memory do not conflict in what is written.
LEMMA WrittenAcceptable ==
  ASSUME NEW st \in States, NEW c \in Configs, ~ Conflict(st, c), Left(st, c, {}),
         \A u \in Mounted(c) : st.physical[u] # None => IsTracked(st, u)
  PROVE  Acceptable(Pruned(st), c)
<1>1. Mounted(c) \subseteq Names
  BY ConfigType DEF Mounted
<1>2. \A n \in Names : IsTracked(Pruned(st), n) <=> IsTracked(st, n)
  BY PrunedState DEF IsTracked
<1>3. Active(Pruned(st), c) = Active(st, c) /\ Active(st, c) \subseteq Names
  BY <1>1, <1>2 DEF Active
<1>4. ASSUME NEW n \in Active(st, c) PROVE Physical(Pruned(st), n) = Physical(st, n)
  <2>1. CASE IsTracked(st, n)
    BY <1>3, <2>1, PrunedState
  <2>2. CASE ~ IsTracked(st, n)
    <3>1. n \in Names /\ st.physical[n] = None
      BY <1>3, <2>2 DEF Active
    <3>2. Physical(Pruned(st), n) = n
      BY <1>2, <2>2, <3>1, PrunedState DEF Physical
    <3> QED  BY <3>1, <3>2 DEF Physical
  <2> QED  BY <2>1, <2>2
<1>5. ~ Conflict(Pruned(st), c)
  BY <1>3, <1>4 DEF Conflict
<1> QED  BY <1>5, ConflictRefuses, PrunedAcceptable

\* Every component consists of something.
Declaring == \A t \in Templates : DOMAIN t # {}

\* When no step is left, all that is mounted is on record.
LEMMA MountedTracked ==
  ASSUME Declaring, NEW st \in States, NEW obs, NEW c \in Configs,
         Remaining({}, st, obs, c), NEW u \in Mounted(c)
  PROVE  IsTracked(st, u)
<1>1. c.mounts[u] \in Templates /\ u \in Names
  BY ConfigType DEF Mounted
<1>2. PICK k \in DOMAIN c.mounts[u] : TRUE
  BY <1>1 DEF Declaring
<1>3. <<u, k>> \in Current(c) /\ k \in Keys
  BY <1>1, <1>2 DEF Current, Keys
<1>4. st.tracked[u][k] = Wanted(st, c, <<u, k>>)
  BY <1>1, <1>3 DEF Remaining
<1>5. Wanted(st, c, <<u, k>>) \in Digests
  BY <1>3, VersionType, PhysicalType DEF Wanted, Digests
<1> QED  BY <1>1, <1>3, <1>4, <1>5, NoneIsNoDigest DEF IsTracked, Gone

\* What an execution writes is acceptable to the configuration it executes.
LEMMA ExecutionAccepts ==
  ASSUME Declaring, MovesInv, SettledInv, AcceptInv,
         phase = "prewrite" \/ (phase = "steps" /\ todo = {})
  PROVE  accepted = config /\ Acceptable(Pruned(work), accepted)
<1>1. /\ config \in Configs /\ work \in States /\ ~ Conflict(work, config)
      /\ Left(work, config, {}) /\ accepted = config
      /\ Remaining(todo, work, objects, config)
  BY DEF MovesInv, PhaseInv, TypeOK, NamesInv, Planned, AcceptInv, SettledInv
<1>2. Mounted(config) \subseteq Names
  BY <1>1, ConfigType DEF Mounted
<1>3. \A u \in Mounted(config) : work.physical[u] # None => IsTracked(work, u)
  BY <1>1, <1>2, MountedTracked DEF AcceptInv
<1> QED  BY <1>1, <1>3, WrittenAcceptable

\* A plan that is refused is of a configuration that is not acceptable.
LEMMA ResolveAccepts ==
  ASSUME MovesInv, CarryInv, AcceptInv, NEW f \in Names, ResolveMove(f)
  PROVE  AcceptInv'
<1> DEFINE t == config.moved[f]
<1>1. /\ phase = "resolve" /\ config \in Configs /\ f \in DOMAIN config.moved
      /\ Carried /\ origin \in [Names -> Names]
  BY DEF ResolveMove, CarryInv, MovesInv, PhaseInv, TypeOK
<1>2. CASE MoveRefused(f, t) /\ Refuse
  <2>1. f \notin Mounted(config) /\ Goal(config, f) \in Mounted(config)
    BY <1>1, CompiledChains, EndSteps DEF End
  <2>2. IsTracked(work, f) /\ IsTracked(work, t)
    BY <1>2, <2>1 DEF MoveRefused
  <2>3. ~ Acceptable(work, config)
    BY <1>1, <2>2, RefusedMove
  <2>4. ~ Acceptable(state, config)
    BY <1>1, <2>3, CarriedAcceptable
  <2> QED  BY <1>2, <2>4 DEF Refuse, memory, AcceptInv, Planned
<1>3. CASE UNCHANGED <<state, phase, accepted>>
  BY <1>1, <1>3 DEF AcceptInv, Planned
<1> QED  BY <1>2, <1>3 DEF ResolveMove

LEMMA BindAccepts ==
  ASSUME MovesInv, CarryInv, AcceptInv, Bind
  PROVE  AcceptInv'
<1> DEFINE new == Rebased(Pruned(work), config)
<1>1. /\ phase = "resolve" /\ config \in Configs /\ work \in States
      /\ Carried /\ origin \in [Names -> Names] /\ Left(work, config, {})
      /\ UNCHANGED <<state, config, accepted>>
  BY DEF Bind, Refuse, memory, CarryInv, MovesInv, PhaseInv, TypeOK
<1>2. Conflict(Pruned(work), config) <=> ~ Acceptable(state, config)
  BY <1>1, CarriedAcceptable, ConflictRefuses
<1>3. CASE Conflict(Pruned(work), config) /\ phase' = "refused"
  BY <1>1, <1>2, <1>3 DEF AcceptInv, Planned
<1>4. CASE /\ ~ Conflict(Pruned(work), config)
           /\ work' = new /\ phase' = "planned"
  <2>1. Pruned(work) \in States /\ Matching(Pruned(work))
    BY <1>1, PrunedState DEF MovesInv, RecordsMatch
  <2>2. new.physical = Pruned(work).physical
    BY <1>1, <2>1, RebasedState
  <2>3. /\ \A n \in Names : IsTracked(new, n) <=> IsTracked(Pruned(work), n)
        /\ \A n \in Names : IsTracked(Pruned(work), n) <=> IsTracked(work, n)
        /\ \A n \in Names : Pruned(work).physical[n] # None => IsTracked(Pruned(work), n)
    BY <1>1, <2>1, RebasedTracked, PrunedState DEF IsTracked
  <2>4. DOMAIN config.moved \subseteq Names
    BY <1>1, ConfigType
  <2> HIDE DEF new
  <2>5. Left(new, config, {})
    BY <1>1, <2>3, <2>4 DEF Left
  <2>6. \A n \in Names : new.physical[n] # None => IsTracked(new, n)
    BY <2>2, <2>3
  <2> QED  BY <1>1, <1>2, <1>4, <2>5, <2>6 DEF AcceptInv, Planned
<1> QED  BY <1>3, <1>4 DEF Bind, Refuse

\* A step makes no record of a component that was moved away.
LEMMA StepLeft ==
  ASSUME MovesInv, Left(work, config, {}), NEW s \in todo, Step(s)
  PROVE  Left(work', config, {})
<1>1. phase = "steps" /\ config \in Configs
  BY DEF Step, MovesInv, PhaseInv
<1>2. ASSUME NEW n \in DOMAIN config.moved PROVE ~ IsTracked(work', n)
  <2>1. n \in Names /\ n \notin Mounted(config) /\ work.tracked[n] = Gone
    BY <1>1, CompiledChains DEF Left, IsTracked
  <2>2. ASSUME NEW k \in Keys PROVE work'.tracked[n][k] = None
    <3>1. work.tracked[n][k] = None
      BY <2>1 DEF Gone
    <3>2. <<n, k>> \notin Current(config)
      BY <2>1 DEF Current
    <3>3. s.r = <<n, k>> => Drops(s)
      BY <1>1, <3>2 DEF MovesInv, StepsInv, Planned
    <3> QED  BY <2>1, <3>1, <3>3, StepRecords
  <2>3. work' \in States
    BY StepInv DEF MovesInv, TypeOK
  <2>4. work'.tracked[n] = [k \in Keys |-> work'.tracked[n][k]]
    BY <2>1, <2>3 DEF States
  <2> QED  BY <2>2, <2>4 DEF IsTracked, Gone
<1> QED  BY <1>2 DEF Left

LEMMA StepAccepts ==
  ASSUME MovesInv, AcceptInv, NEW s \in todo, Step(s)
  PROVE  AcceptInv'
<1>1. /\ phase = "steps" /\ phase' = "steps" /\ UNCHANGED <<state, config, accepted>>
      /\ Left(work, config, {})
  BY DEF Step, AcceptInv, Planned
<1>2. Left(work', config, {})
  BY <1>1, StepLeft
<1> QED  BY <1>1, <1>2 DEF AcceptInv, Planned

LEMMA InitAccepts == Init => AcceptInv
<1> SUFFICES ASSUME Init PROVE AcceptInv
  OBVIOUS
<1>1. PICK m \in Mounts :
        /\ state = [NoState EXCEPT !.tracked = [n \in Names |-> [k \in Keys |->
                     IF n \in DOMAIN m /\ k \in DOMAIN m[n]
                     THEN [name |-> n, version |-> m[n][k], at |-> n] ELSE None]]]
        /\ accepted = [mounts |-> m, moved |-> [n \in {} |-> n]]
  BY DEF Init
<1>2. \A n \in Names : state.physical[n] = None
  BY <1>1 DEF NoState
<1>3. \A n \in Names : Physical(state, n) = n
  BY <1>2 DEF Physical
<1>4. accepted.moved = [n \in {} |-> n]
  BY <1>1
<1>5. \A n : End(accepted, n) = n
  BY <1>4 DEF End
<1>6. Acceptable(state, accepted)
  BY <1>3, <1>5 DEF Acceptable
<1> QED  BY <1>6 DEF Init, AcceptInv, Planned

LEMMA NextAccepts ==
  ASSUME Declaring, MovesInv, SettledInv, CarryInv, AcceptInv, [Next]_vars
  PROVE  AcceptInv'
<1>1. ASSUME NEW c \in Configs, Start(c) PROVE AcceptInv'
  BY <1>1 DEF Start, AcceptInv, Planned
<1>2. ASSUME NEW f \in Names, ResolveMove(f) PROVE AcceptInv'
  BY <1>2, ResolveAccepts
<1>3. CASE Bind
  BY <1>3, BindAccepts
<1>4. CASE Abandon
  BY <1>4 DEF Abandon, Idle, AcceptInv, Planned
<1>5. CASE Begin
  BY <1>5 DEF Begin, memory, AcceptInv, Planned
<1>6. CASE Prewrite
  <2>1. /\ phase = "prewrite" /\ state' = Pruned(work) /\ UNCHANGED accepted
        /\ \/ phase' = "idle"
           \/ phase' = "steps" /\ UNCHANGED <<config, work>>
    BY <1>6 DEF Prewrite, Idle, memory
  <2>2. accepted = config /\ Acceptable(state', accepted)
    BY <2>1, ExecutionAccepts
  <2> QED  BY <2>1, <2>2 DEF AcceptInv, Planned
<1>7. ASSUME NEW s \in todo, Step(s) PROVE AcceptInv'
  BY <1>7, StepAccepts
<1>8. CASE Finish
  <2>1. /\ phase = "steps" /\ todo = {} /\ state' = Pruned(work) /\ UNCHANGED accepted
        /\ phase' = "idle"
    BY <1>8 DEF Finish, Idle
  <2>2. Acceptable(state', accepted)
    BY <2>1, ExecutionAccepts
  <2> QED  BY <2>1, <2>2 DEF AcceptInv, Planned
<1>9. CASE BreakOff
  <2>1. /\ phase' = "idle" /\ UNCHANGED accepted
        /\ \/ state' = state
           \/ /\ state' = Pruned(work)
              /\ phase = "prewrite" \/ (phase = "steps" /\ todo = {})
    BY <1>9 DEF BreakOff, Idle
  <2>2. Acceptable(state', accepted)
    BY <2>1, ExecutionAccepts DEF AcceptInv
  <2> QED  BY <2>1, <2>2 DEF AcceptInv, Planned
<1>10. CASE UNCHANGED vars
  BY <1>10 DEF vars, memory, AcceptInv, Planned, Left, IsTracked
<1> QED
  BY <1>1, <1>2, <1>3, <1>4, <1>5, <1>6, <1>7, <1>8, <1>9, <1>10 DEF Next

\* The configuration that was executed last is acceptable to the state file, and
\* so is one without components and moves.
LEMMA RetryLemma == MovesInv /\ AcceptInv => RetryAccepted
<1> SUFFICES ASSUME MovesInv, AcceptInv, phase = "refused"
             PROVE  config # accepted /\ Mounted(config) # {}
  BY DEF RetryAccepted
<1>1. /\ config \in Configs
      /\ Acceptable(state, accepted) /\ ~ Acceptable(state, config)
  BY DEF MovesInv, PhaseInv, AcceptInv
<1>2. ASSUME Mounted(config) = {} PROVE FALSE
  <2>1. DOMAIN config.moved = {}
    BY <1>1, <1>2, CompiledChains
  <2>2. \A n : End(config, n) = n
    BY <2>1 DEF End
  <2>3. Acceptable(state, config)
    BY <1>1, <1>2, <2>2 DEF Acceptable
  <2> QED  BY <1>1, <2>3
<1> QED  BY <1>1, <1>2

\* The invariants hold together.
LEMMA AcceptInvariance ==
  ASSUME Declaring
  PROVE  Spec => [](SettledInv /\ CarryInv /\ AcceptInv)
<1> DEFINE Inv == SettledInv /\ CarryInv /\ AcceptInv
<1>1. Init => Inv
  BY InitSettled, InitAccepts DEF Init, CarryInv
<1>2. MovesInv /\ Inv /\ [Next]_vars => Inv'
  BY NextSettled, NextCarry, NextAccepts
<1> HIDE DEF Inv
<1>3. Spec => []Inv
  BY <1>1, <1>2, MovesInvariance, PTL DEF Spec
<1> QED  BY <1>3 DEF Inv

\* Where every component consists of something, a configuration whose apply broke
\* off is accepted again, and it remains possible to remove everything, whatever
\* was moved, refused or broken off before (moved.go:49-81, 255-268).
THEOREM Retrying ==
  ASSUME Declaring
  PROVE  Spec => []RetryAccepted
<1>1. Spec => [](SettledInv /\ CarryInv /\ AcceptInv)
  BY AcceptInvariance
<1>2. MovesInv /\ AcceptInv => RetryAccepted
  BY RetryLemma
<1> QED  BY <1>1, <1>2, MovesInvariance, PTL

-----------------------------------------------------------------------------
(* A plan of renamings.                                                    *)

\* After a successful apply, what is tracked is what was mounted.
LEMMA SettledTracked ==
  ASSUME Declaring, MovesInv, Settled(state, objects, accepted), NEW n \in Names
  PROVE  IsTracked(state, n) <=> n \in Mounted(accepted)
<1>1. state \in States /\ accepted \in [mounts : Mounts, moved : Blocks]
  BY DEF MovesInv, TypeOK
<1>2. ASSUME n \in Mounted(accepted) PROVE IsTracked(state, n)
  <2>1. accepted.mounts[n] \in Templates
    BY <1>1, <1>2 DEF Mounted, Mounts
  <2>2. PICK k \in DOMAIN accepted.mounts[n] : TRUE
    BY <2>1 DEF Declaring
  <2>3. k \in Keys /\ <<n, k>> \in Current(accepted)
    BY <1>2, <2>1, <2>2 DEF Current, Keys
  <2>4. Version(accepted, <<n, k>>) \in Versions
    BY <2>1, <2>2 DEF Version, Versions
  <2>5. Wanted(state, accepted, <<n, k>>) \in Digests
    BY <1>1, <2>4, PhysicalType DEF Wanted, Digests
  <2>6. state.tracked[n][k] # None
    BY <2>3, <2>5, NoneIsNoDigest DEF Settled
  <2> QED  BY <2>3, <2>6 DEF IsTracked, Gone
<1>3. ASSUME n \notin Mounted(accepted) PROVE ~ IsTracked(state, n)
  <2>1. \A k \in Keys : state.tracked[n][k] = None
    BY <1>3 DEF Settled, Current
  <2>2. state.tracked[n] = [k \in Keys |-> state.tracked[n][k]]
    BY <1>1 DEF States
  <2> QED  BY <2>1, <2>2 DEF IsTracked, Gone
<1> QED  BY <1>2, <1>3

\* A configuration that only renames takes each component that was mounted to one
\* of its own, which has the same resources.
LEMMA RenamingEnds ==
  ASSUME MovesInv, NEW c \in Configs, Renames(accepted, c), NEW n \in Mounted(accepted)
  PROVE  /\ End(c, n) = Successor(c, n) /\ End(c, n) \in Mounted(c)
         /\ c.mounts[End(c, n)] = accepted.mounts[n]
<1>1. Successor(c, n) \in Mounted(c) /\ c.mounts[Successor(c, n)] = accepted.mounts[n]
  BY DEF Renames
<1>2. Mounted(c) \subseteq Names
  BY ConfigType DEF Mounted
<1>3. Successor(c, n) # None
  BY <1>1, <1>2, MovesAssumption
<1>4. CASE n \in Mounted(c)
  <2>1. Successor(c, n) = n /\ End(c, n) = n
    BY <1>4, EndSteps DEF Successor
  <2> QED  BY <1>1, <2>1
<1>5. CASE n \notin Mounted(c)
  <2>1. n \in DOMAIN c.moved
    BY <1>3, <1>5 DEF Successor
  <2>2. Successor(c, n) = End(c, n)
    BY <1>5, <2>1 DEF Successor, End
  <2> QED  BY <1>1, <2>2
<1> QED  BY <1>4, <1>5

\* Such a configuration is acceptable.
LEMMA RenamingAcceptable ==
  ASSUME Declaring, MovesInv, Settled(state, objects, accepted), AcceptInv,
         NEW c \in Configs, Renames(accepted, c)
  PROVE  Acceptable(state, c)
<1>1. Mounted(accepted) \subseteq Names
  BY DEF MovesInv, TypeOK, Mounted, Mounts
<1>2. ASSUME NEW x \in Names, NEW y \in Names, IsTracked(state, x), IsTracked(state, y), x # y
      PROVE  End(c, x) # End(c, y) /\ Physical(state, x) # Physical(state, y)
  <2>1. x \in Mounted(accepted) /\ y \in Mounted(accepted)
    BY <1>2, SettledTracked
  <2>2. End(c, x) = Successor(c, x) /\ End(c, y) = Successor(c, y)
    BY <2>1, RenamingEnds
  <2>3. End(c, x) # End(c, y)
    BY <1>2, <2>1, <2>2 DEF Renames
  <2> QED  BY <1>2, <2>3 DEF AcceptInv, Acceptable
<1>3. ASSUME NEW u \in Mounted(c)
      PROVE  \E y \in Names : IsTracked(state, y) /\ End(c, y) = u
  <2>1. PICK y \in Mounted(accepted) : u = Successor(c, y)
    BY DEF Renames
  <2>2. y \in Names /\ IsTracked(state, y) /\ End(c, y) = u
    BY <1>1, <2>1, RenamingEnds, SettledTracked
  <2> QED  BY <2>2
<1> QED  BY <1>2, <1>3 DEF Acceptable

\* What is planned for it is nothing.
LEMMA RenamingSteps ==
  ASSUME Declaring, MovesInv, Settled(state, objects, accepted), Carried,
         Left(work, config, {}), phase = "resolve", Renames(accepted, config)
  PROVE  Steps(Rebased(Pruned(work), config), config) = {}
<1> DEFINE st  == Pruned(work)
           new == Rebased(st, config)
           cell(n, k) == IF /\ <<n, k>> \in Current(config)
                            /\ origin[n] # n
                            /\ st.tracked[n][k] = Legacy(st, config, <<n, k>>)
                         THEN Wanted(st, config, <<n, k>>)
                         ELSE st.tracked[n][k]
<1>1. /\ config \in Configs /\ work \in States /\ Matching(work)
      /\ origin \in [Names -> Names] /\ Mounted(accepted) \subseteq Names
  BY DEF MovesInv, PhaseInv, TypeOK, RecordsMatch, Mounted, Mounts
<1>2. /\ st \in States /\ Matching(st) /\ st.tracked = work.tracked
      /\ \A n \in Names : IsTracked(work, n) => Physical(st, n) = Physical(work, n)
  BY <1>1, PrunedState
<1>3. new.physical = st.physical
  BY <1>1, <1>2, RebasedState
<1>4. \A n \in Names, k \in Keys : new.tracked[n][k] = cell(n, k)
  <2> DEFINE tr == [n \in Names |-> [k \in Keys |-> cell(n, k)]]
  <2>1. \A x : [st EXCEPT !.tracked = x].tracked = x
    BY <1>2 DEF States
  <2>2. new.tracked = tr
    BY <2>1, Zenon DEF Rebased
  <2>3. \A n \in Names, k \in Keys : tr[n][k] = cell(n, k)
    OBVIOUS
  <2> QED  BY <2>2, <2>3
<1>5. ASSUME NEW n \in Names, IsTracked(work, n)
      PROVE  /\ origin[n] \in Mounted(accepted) /\ End(config, origin[n]) = n
             /\ n \in Mounted(config)
             /\ config.mounts[n] = accepted.mounts[origin[n]]
  <2>1. origin[n] \in Mounted(accepted) /\ End(config, n) = End(config, origin[n])
    BY <1>1, <1>5, SettledTracked DEF Carried
  <2>2. End(config, n) = n
    BY <1>1, <1>5, EndSteps DEF Left
  <2> DEFINE o == origin[n]
  <2>3. o \in Mounted(accepted) /\ End(config, o) = n
    BY <2>1, <2>2
  <2> HIDE DEF o
  <2>4. End(config, o) \in Mounted(config) /\ config.mounts[End(config, o)] = accepted.mounts[o]
    BY <1>1, <2>3, RenamingEnds
  <2> QED  BY <2>3, <2>4 DEF o
<1>6. ASSUME NEW n \in Mounted(config) PROVE IsTracked(work, n)
  <2>1. PICK y \in Mounted(accepted) : n = Successor(config, y)
    BY DEF Renames
  <2>2. y \in Names /\ IsTracked(state, y) /\ End(config, y) = n
    BY <1>1, <2>1, RenamingEnds, SettledTracked
  <2>3. PICK x \in Names : IsTracked(work, x) /\ origin[x] = y
    BY <2>2 DEF Carried
  <2>4. x = n
    BY <1>5, <2>2, <2>3
  <2> QED  BY <2>3, <2>4
<1> HIDE DEF st, new
<1>7. ASSUME NEW n \in Names, NEW k \in Keys, <<n, k>> \in Current(config)
      PROVE  /\ Object(new, <<n, k>>) = Version(config, <<n, k>>)
             /\ new.tracked[n][k] = Wanted(new, config, <<n, k>>)
  <2> DEFINE o == origin[n]
  <2>1. n \in Mounted(config) /\ k \in DOMAIN config.mounts[n]
    BY <1>7 DEF Current
  <2>2. /\ IsTracked(work, n) /\ o \in Mounted(accepted) /\ o \in Names
        /\ config.mounts[n] = accepted.mounts[o]
    BY <1>1, <1>5, <1>6, <2>1
  <2>3. /\ <<o, k>> \in Current(accepted)
        /\ Version(accepted, <<o, k>>) = Version(config, <<n, k>>)
    BY <2>1, <2>2 DEF Current, Version
  <2>4. /\ work.tracked[n] = state.tracked[o]
        /\ Physical(st, n) = Physical(state, o) /\ Physical(new, n) = Physical(st, n)
    BY <1>2, <1>3, <2>2 DEF Carried, Physical
  <2>5. /\ objects[Physical(state, o)][k] = Version(config, <<n, k>>)
        /\ st.tracked[n][k] = Wanted(state, accepted, <<o, k>>)
    BY <1>2, <2>2, <2>3, <2>4 DEF Settled
  <2> DEFINE w(name) == [name |-> name, version |-> Version(config, <<n, k>>),
                         at |-> Physical(st, n)]
  <2>6. /\ st.tracked[n][k] = w(o)
        /\ Wanted(st, config, <<n, k>>) = w(n) /\ Wanted(new, config, <<n, k>>) = w(n)
    BY <2>3, <2>4, <2>5 DEF Wanted
  <2>7. Legacy(st, config, <<n, k>>) = w(o)
    BY <2>6 DEF Legacy
  <2> HIDE DEF w
  <2>8. cell(n, k) = w(n)
    BY <1>7, <2>6, <2>7
  <2> QED  BY <1>4, <2>4, <2>5, <2>6, <2>8 DEF Object
<1>8. ASSUME NEW n \in Names, NEW k \in Keys, <<n, k>> \notin Current(config)
      PROVE  new.tracked[n][k] = None
  <2> SUFFICES ASSUME work.tracked[n][k] # None PROVE FALSE
    BY <1>2, <1>4, <1>8
  <2>1. IsTracked(work, n)
    BY DEF IsTracked, Gone
  <2> DEFINE o == origin[n]
  <2>2. /\ o \in Names /\ o \in Mounted(accepted) /\ n \in Mounted(config)
        /\ config.mounts[n] = accepted.mounts[o] /\ work.tracked[n] = state.tracked[o]
    BY <1>1, <1>5, <2>1 DEF Carried
  <2>3. <<o, k>> \in Current(accepted)
    BY <2>2 DEF Settled
  <2>4. k \in DOMAIN config.mounts[n]
    BY <2>2, <2>3 DEF Current
  <2> QED  BY <1>8, <2>2, <2>4 DEF Current
<1>9. Current(config) \subseteq Names \X Keys
  BY DEF Current
<1>10. ASSUME NEW r \in Names \X Keys
       PROVE  /\ r \in Current(config) =>
                   /\ Object(new, r) = Version(config, r)
                   /\ new.tracked[r[1]][r[2]] = Wanted(new, config, r)
              /\ r \notin Current(config) => new.tracked[r[1]][r[2]] = None
  <2>1. r[1] \in Names /\ r[2] \in Keys /\ r = <<r[1], r[2]>>
    OBVIOUS
  <2> QED  BY <1>7, <1>8, <2>1
<1>11. Steps(new, config) = {}
  BY <1>9, <1>10 DEF Steps, Orphans
<1> QED  BY <1>11 DEF new, st

LEMMA NextRenames ==
  ASSUME Declaring, MovesInv, SettledInv, CarryInv, RenameInv, [Next]_vars
  PROVE  RenameInv'
<1>1. CASE Bind /\ phase' = "planned"
  <2> SUFFICES ASSUME done, Renames(accepted, config) PROVE todo' = {}
    BY <1>1 DEF Bind, Refuse, RenameInv
  <2>1. /\ phase = "resolve" /\ Carried /\ Left(work, config, {})
        /\ Settled(state, objects, accepted)
        /\ todo' = Steps(Rebased(Pruned(work), config), config)
    BY <1>1 DEF Bind, Refuse, CarryInv, SettledInv
  <2> QED  BY <2>1, RenamingSteps DEF MovesInv
<1>2. CASE UNCHANGED vars
  BY <1>2 DEF vars, memory, RenameInv
<1>3. CASE Next /\ phase' # "planned"
  BY <1>3 DEF RenameInv
<1>4. Next /\ phase' = "planned" => Bind
  BY DEF Next, Start, ResolveMove, Refuse, Abandon, Begin, Prewrite, Step, Finish, BreakOff, Idle
<1> QED  BY <1>1, <1>2, <1>3, <1>4

\* Where every component consists of something, a configuration that renames what
\* a successful apply left, and does nothing else, is not refused, and its plan is
\* empty: "A move alone is not a create, update, adopt, delete, destroy, forget"
\* (docs/dsl-reference.md:168-169).
THEOREM Renaming ==
  ASSUME Declaring
  PROVE  Spec => []RenameChangesNothing
<1> DEFINE Inv == SettledInv /\ CarryInv /\ AcceptInv
<1>1. Spec => []Inv
  BY AcceptInvariance
<1>2. Init => RenameInv
  BY DEF Init, RenameInv
<1>3. MovesInv /\ Inv /\ RenameInv /\ [Next]_vars => RenameInv'
  BY NextRenames
<1>4. MovesInv /\ Inv /\ RenameInv => RenameChangesNothing
  <2> SUFFICES ASSUME MovesInv, Inv, RenameInv, done, phase \in {"refused", "planned"},
                      Renames(accepted, config)
               PROVE  phase = "planned" /\ todo = {}
    BY DEF RenameChangesNothing
  <2>1. config \in Configs /\ Settled(state, objects, accepted)
    BY DEF MovesInv, PhaseInv, SettledInv
  <2>2. Acceptable(state, config)
    BY <2>1, RenamingAcceptable
  <2>3. phase = "planned"
    BY <2>2 DEF AcceptInv
  <2> QED  BY <2>3 DEF RenameInv
<1> HIDE DEF Inv
<1> QED  BY <1>1, <1>2, <1>3, <1>4, MovesInvariance, PTL DEF Spec

-----------------------------------------------------------------------------
(* No record is lost.                                                      *)

\* The component y has the record of n on the same place; what the configuration
\* does not declare is as it was recorded, where the moves end.
HeldAt(wk, c, y, n, k, rec) ==
  /\ wk.tracked[y][k] # None /\ wk.tracked[y][k].at = rec.at
  /\ <<y, k>> \in Current(c) \/ (y = End(c, n) /\ wk.tracked[y][k].version = rec.version)

\* What st has on record wk has too, or it is no longer on the host, or it asked for
\* no removal and is declared no more.
Held(st, wk, obs, c) ==
  \A n \in Names, k \in Keys :
    st.tracked[n][k] # None =>
      \/ \E y \in Names : HeldAt(wk, c, y, n, k, st.tracked[n][k])
      \/ obs[st.tracked[n][k].at][k] = None
      \/ st.tracked[n][k].version \in Forgettable /\ <<End(c, n), k>> \notin Current(c)

HeldInv == Planned => Held(state, work, objects, config) /\ Left(work, config, {})

\* A record that takes a new logical name stays where it is.
LEMMA RebasedKeeps ==
  ASSUME NEW st \in States, Matching(st), NEW c \in Configs, origin \in [Names -> Names],
         NEW n \in Names, NEW k \in Keys, st.tracked[n][k] # None
  PROVE  /\ Rebased(st, c).tracked[n][k] # None
         /\ Rebased(st, c).tracked[n][k].at = st.tracked[n][k].at
         /\ <<n, k>> \notin Current(c) => Rebased(st, c).tracked[n][k] = st.tracked[n][k]
<1>2. /\ Matching(Rebased(st, c)) /\ Rebased(st, c).physical = st.physical
      /\ <<n, k>> \notin Current(c) => Rebased(st, c).tracked[n][k] = st.tracked[n][k]
  BY RebasedState
<1>3. <<n, k>> \in Current(c) => Wanted(st, c, <<n, k>>) # None
  BY VersionType, PhysicalType, NoneIsNoDigest DEF Wanted, Digests
<1>4. Rebased(st, c).tracked[n][k] # None
  <2> DEFINE new == [m \in Names |-> [q \in Keys |->
                       IF /\ <<m, q>> \in Current(c)
                          /\ origin[m] # m
                          /\ st.tracked[m][q] = Legacy(st, c, <<m, q>>)
                       THEN Wanted(st, c, <<m, q>>)
                       ELSE st.tracked[m][q]]]
  <2>1. \A x : [st EXCEPT !.tracked = x].tracked = x
    BY DEF States
  <2>2. Rebased(st, c).tracked = new
    BY <2>1, Zenon DEF Rebased
  <2>3. new[n][k] # None
    BY <1>3
  <2> QED  BY <2>2, <2>3
<1>5. Physical(Rebased(st, c), n) = Physical(st, n)
  BY <1>2 DEF Physical
<1>6. Rebased(st, c).tracked[n][k].at = st.tracked[n][k].at
  BY <1>2, <1>4, <1>5 DEF Matching
<1> QED  BY <1>2, <1>4, <1>6

\* A plan that was not refused has the records of the state file, each where its
\* moves end.
LEMMA BindHeld ==
  ASSUME MovesInv, CarryInv, Bind, phase' = "planned"
  PROVE  Held(state, work', objects, config) /\ Left(work', config, {})
<1> DEFINE st  == Pruned(work)
           new == Rebased(st, config)
<1>1. /\ phase = "resolve" /\ config \in Configs /\ work \in States /\ Matching(work)
      /\ Carried /\ origin \in [Names -> Names] /\ Left(work, config, {})
      /\ work' = new
  BY DEF Bind, Refuse, CarryInv, MovesInv, PhaseInv, TypeOK, RecordsMatch
<1>2. st \in States /\ Matching(st) /\ st.tracked = work.tracked
  BY <1>1, PrunedState
<1>3. Left(new, config, {})
  <2>1. \A n \in Names : IsTracked(new, n) <=> IsTracked(work, n)
    BY <1>1, <1>2, RebasedTracked DEF IsTracked
  <2> HIDE DEF new
  <2> QED  BY <1>1, <2>1, ConfigType DEF Left
<1>4. ASSUME NEW n \in Names, NEW k \in Keys, state.tracked[n][k] # None
      PROVE  \E y \in Names : HeldAt(new, config, y, n, k, state.tracked[n][k])
  <2>1. IsTracked(state, n)
    BY <1>4 DEF IsTracked, Gone
  <2>2. PICK x \in Names : IsTracked(work, x) /\ origin[x] = n
    BY <1>1, <2>1 DEF Carried
  <2>3. work.tracked[x] = state.tracked[n] /\ End(config, x) = End(config, n)
    BY <1>1, <2>2 DEF Carried
  <2>4. End(config, n) = x
    BY <1>1, <2>2, <2>3, EndSteps DEF Left
  <2>5. st.tracked[x][k] = state.tracked[n][k]
    BY <1>2, <2>3
  <2> HIDE DEF st
  <2>6. /\ new.tracked[x][k] # None /\ new.tracked[x][k].at = state.tracked[n][k].at
        /\ <<x, k>> \notin Current(config) => new.tracked[x][k] = state.tracked[n][k]
    BY <1>1, <1>2, <1>4, <2>5, RebasedKeeps
  <2> QED  BY <2>4, <2>6 DEF HeldAt
<1> QED  BY <1>1, <1>3, <1>4 DEF Held

\* A step drops the record of what it takes away or may leave, and makes nothing
\* without a record.
LEMMA StepHeld ==
  ASSUME MovesInv, HeldInv, NEW s \in todo, Step(s)
  PROVE  Held(state, work', objects', config) /\ Left(work', config, {})
<1>1. /\ Planned /\ phase = "steps" /\ config \in Configs
      /\ work \in States /\ Matching(work) /\ state \in States
      /\ Held(state, work, objects, config) /\ Left(work, config, {})
  BY DEF Step, Planned, HeldInv, MovesInv, TypeOK, RecordsMatch, PhaseInv
<1>2. /\ s.do \in {"change", "adopt", "remove", "forget"} /\ s.r[1] \in Names /\ s.r[2] \in Keys
      /\ s.r = <<s.r[1], s.r[2]>>
      /\ IF Drops(s)
         THEN /\ s.r \notin Current(config) /\ work.tracked[s.r[1]][s.r[2]] # None
              /\ s.do = Disposal(work, s.r)
         ELSE s.r \in Current(config)
  BY <1>1 DEF MovesInv, TypeOK, StepsInv
<1>3. ~ Drops(s) => /\ Wanted(work, config, s.r) # None
                    /\ Wanted(work, config, s.r).at = Physical(work, s.r[1])
                    /\ Affected(s)[1] = Physical(work, s.r[1])
  <2> SUFFICES ASSUME ~ Drops(s)
               PROVE  /\ Wanted(work, config, s.r) # None
                      /\ Wanted(work, config, s.r).at = Physical(work, s.r[1])
                      /\ Affected(s)[1] = Physical(work, s.r[1])
    OBVIOUS
  <2>1. Wanted(work, config, s.r) \in Digests
    BY <1>1, <1>2, VersionType, PhysicalType DEF Wanted, Digests
  <2> QED  BY <2>1, NoneIsNoDigest DEF Wanted, Affected
<1>4. /\ \A n \in Names, k \in Keys : <<n, k>> # s.r => work'.tracked[n][k] = work.tracked[n][k]
      /\ ~ Drops(s) => work'.tracked[s.r[1]][s.r[2]] = Wanted(work, config, s.r)
  BY <1>2, StepRecords
<1>5. \A p \in Names, k \in Keys :
        objects'[p][k] = IF p = Affected(s)[1] /\ k = s.r[2]
                         THEN CASE s.do = "remove" -> None
                                [] s.do = "change" -> Version(config, s.r)
                                [] s.do \in {"adopt", "forget"} -> objects[p][k]
                         ELSE objects[p][k]
  BY <1>1, EffectObjects DEF Step
<1>6. ASSUME NEW n \in Names, NEW k \in Keys, state.tracked[n][k] # None
      PROVE  \/ \E y \in Names : HeldAt(work', config, y, n, k, state.tracked[n][k])
             \/ objects'[state.tracked[n][k].at][k] = None
             \/ /\ state.tracked[n][k].version \in Forgettable
                /\ <<End(config, n), k>> \notin Current(config)
  <2> DEFINE rec == state.tracked[n][k]
  <2>1. rec \in Digests /\ rec.at \in Names
    BY <1>1, <1>6 DEF States, Digests
  <2>2. ASSUME NEW y \in Names, HeldAt(work, config, y, n, k, rec)
        PROVE  \/ \E z \in Names : HeldAt(work', config, z, n, k, rec)
               \/ objects'[rec.at][k] = None
               \/ rec.version \in Forgettable /\ <<End(config, n), k>> \notin Current(config)
    <3>1. CASE <<y, k>> # s.r
      <4>1. work'.tracked[y][k] = work.tracked[y][k]
        BY <1>4, <3>1
      <4>2. HeldAt(work', config, y, n, k, rec)
        BY <2>2, <4>1 DEF HeldAt
      <4> QED  BY <4>2
    <3>2. CASE <<y, k>> = s.r /\ ~ Drops(s)
      <4>1. work.tracked[y][k].at = rec.at /\ work.tracked[y][k] # None
        BY <2>2 DEF HeldAt
      <4>2. Physical(work, y) = rec.at
        BY <1>1, <4>1 DEF Matching
      <4>3. work'.tracked[y][k] # None /\ work'.tracked[y][k].at = rec.at
        BY <1>2, <1>3, <1>4, <3>2, <4>2
      <4>4. HeldAt(work', config, y, n, k, rec)
        BY <1>2, <3>2, <4>3 DEF HeldAt
      <4> QED  BY <4>4
    <3>3. CASE <<y, k>> = s.r /\ Drops(s)
      <4>1. /\ <<y, k>> \notin Current(config) /\ y = End(config, n)
            /\ work.tracked[y][k].version = rec.version /\ work.tracked[y][k].at = rec.at
        BY <1>2, <2>2, <3>3 DEF HeldAt
      <4>2. CASE s.do = "remove"
        <5>1. Affected(s)[1] = rec.at /\ k = s.r[2]
          BY <1>2, <3>3, <4>1 DEF Affected
        <5> QED  BY <1>5, <2>1, <4>2, <5>1
      <4>3. CASE s.do = "forget"
        <5>1. rec.version \in Forgettable
          BY <1>2, <3>3, <4>1, <4>3 DEF Disposal
        <5> QED  BY <4>1, <5>1
      <4> QED  BY <3>3, <4>2, <4>3 DEF Drops
    <3> QED  BY <3>1, <3>2, <3>3
  <2>3. ASSUME objects[rec.at][k] = None
        PROVE  \/ \E z \in Names : HeldAt(work', config, z, n, k, rec)
               \/ objects'[rec.at][k] = None
    <3>1. CASE rec.at = Affected(s)[1] /\ k = s.r[2] /\ s.do = "change"
      <4>1. ~ Drops(s)
        BY <3>1 DEF Drops
      <4>2. HeldAt(work', config, s.r[1], n, k, rec)
        BY <1>2, <1>3, <1>4, <3>1, <4>1 DEF HeldAt
      <4> QED  BY <1>2, <4>2
    <3>2. CASE ~ (rec.at = Affected(s)[1] /\ k = s.r[2] /\ s.do = "change")
      BY <1>2, <1>5, <2>1, <2>3, <3>2
    <3> QED  BY <3>1, <3>2
  <2>4. \/ \E y \in Names : HeldAt(work, config, y, n, k, rec)
        \/ objects[rec.at][k] = None
        \/ rec.version \in Forgettable /\ <<End(config, n), k>> \notin Current(config)
    BY <1>1, <1>6 DEF Held
  <2> QED  BY <2>2, <2>3, <2>4
<1>7. Left(work', config, {})
  BY <1>1, StepLeft
<1> QED  BY <1>6, <1>7 DEF Held

\* What is written has itself on record.
LEMMA WrittenHeld ==
  ASSUME MovesInv, Planned, Left(work, config, {})
  PROVE  Held(Pruned(work), work, objects, config)
<1>1. work \in States /\ config \in Configs /\ Pruned(work).tracked = work.tracked
  BY PrunedState DEF MovesInv, TypeOK, PhaseInv, Planned
<1>2. ASSUME NEW n \in Names, NEW k \in Keys, work.tracked[n][k] # None
      PROVE  HeldAt(work, config, n, n, k, work.tracked[n][k])
  <2>1. IsTracked(work, n)
    BY <1>2 DEF IsTracked, Gone
  <2>2. End(config, n) = n
    BY <1>1, <2>1, EndSteps DEF Left
  <2> QED  BY <1>2, <2>2 DEF HeldAt
<1> QED  BY <1>1, <1>2 DEF Held

LEMMA NextHeld == MovesInv /\ CarryInv /\ HeldInv /\ [Next]_vars => HeldInv'
<1> SUFFICES ASSUME MovesInv, CarryInv, HeldInv, [Next]_vars PROVE HeldInv'
  OBVIOUS
<1> DEFINE Still(st, wk, obs, c) == Held(st, wk, obs, c) /\ Left(wk, c, {})
<1>0. HeldInv' <=> (Planned' => Still(state', work', objects', config'))
  BY DEF HeldInv, Held, HeldAt, Left, End, Goal, Downstream, Mounted, Current, IsTracked
<1>1. CASE Bind
  <2>1. phase' = "refused" \/ phase' = "planned"
    BY <1>1 DEF Bind, Refuse
  <2>2. UNCHANGED <<state, objects, config>>
    BY <1>1 DEF Bind, Refuse, memory
  <2>3. phase' = "planned" => Still(state, work', objects, config)
    BY <1>1, BindHeld
  <2> QED  BY <1>0, <2>1, <2>2, <2>3 DEF Planned
<1>2. CASE Begin
  BY <1>0, <1>2 DEF Begin, memory, HeldInv, Planned
<1>3. CASE Prewrite
  <2>1. \/ phase' = "idle"
        \/ /\ phase = "prewrite" /\ state' = Pruned(work)
           /\ UNCHANGED <<objects, work, config>>
    BY <1>3 DEF Prewrite, Idle, memory
  <2>2. phase = "prewrite" => Still(Pruned(work), work, objects, config)
    BY WrittenHeld DEF HeldInv, Planned
  <2> QED  BY <1>0, <2>1, <2>2 DEF Planned
<1>4. ASSUME NEW s \in todo, Step(s) PROVE HeldInv'
  <2>1. Still(state, work', objects', config)
    BY <1>4, StepHeld
  <2>2. UNCHANGED <<state, config>>
    BY <1>4 DEF Step
  <2> QED  BY <1>0, <2>1, <2>2
<1>5. CASE phase' \in {"idle", "resolve", "refused"}
  BY <1>5 DEF HeldInv, Planned
<1>6. CASE UNCHANGED vars
  BY <1>0, <1>6 DEF vars, memory, HeldInv, Planned
<1>7. Next => \/ Bind \/ Begin \/ Prewrite \/ (\E s \in todo : Step(s))
              \/ phase' \in {"idle", "resolve", "refused"}
  BY DEF Next, Start, ResolveMove, Refuse, Abandon, Finish, BreakOff, Idle
<1> QED  BY <1>1, <1>2, <1>3, <1>4, <1>5, <1>6, <1>7

\* A record leaves the state file when its object is gone; where it asks for no
\* removal, also when the resource is declared no more, under any name that moves
\* give it: not by a move, a refused plan, or an apply that broke off
\* (moved.go:46-106, engine.go:428-442).
THEOREM KeepingRecords == Spec => NothingForgotten
<1> DEFINE Inv == SettledInv /\ CarryInv /\ HeldInv
<1>1. Init => Inv
  BY InitSettled DEF Init, CarryInv, HeldInv, Planned
<1>2. MovesInv /\ Inv /\ [Next]_vars => Inv'
  BY NextSettled, NextCarry, NextHeld
<1>3. MovesInv /\ Inv /\ [Next]_vars => [\A n \in Names, k \in Keys : KeepsRecord(n, k)]_vars
  <2> SUFFICES ASSUME MovesInv, Inv, Next, NEW n \in Names, NEW k \in Keys,
                      state.tracked[n][k] # None,
                      ~ TrackedAt(state', state.tracked[n][k].at, k),
                      objects'[state.tracked[n][k].at][k] # None
               PROVE  /\ state.tracked[n][k].version \in Forgettable
                      /\ <<Successor(accepted, n), k>> \notin Current(accepted)
    BY DEF vars, memory, KeepsRecord
  <2> DEFINE rec == state.tracked[n][k]
  <2>1. state' # state
    BY DEF TrackedAt
  <2>2. /\ phase \in {"prewrite", "steps"} /\ Planned
        /\ state' = Pruned(work) /\ objects' = objects
    BY <2>1 DEF Next, Start, ResolveMove, Refuse, Bind, Abandon, Begin, Prewrite, Step, Finish,
                BreakOff, Planned
  <2>3. state'.tracked = work.tracked
    BY <2>2, PrunedState DEF MovesInv, TypeOK
  <2>4. ASSUME NEW y \in Names PROVE ~ HeldAt(work, config, y, n, k, rec)
    BY <2>3 DEF HeldAt, TrackedAt
  <2>5. rec.version \in Forgettable /\ <<End(config, n), k>> \notin Current(config)
    BY <2>2, <2>4 DEF HeldInv, Held
  <2>6. accepted = config /\ config \in Configs
    BY <2>2 DEF SettledInv, MovesInv, PhaseInv
  <2>7. <<Successor(config, n), k>> \notin Current(config)
    <3>1. n \in Mounted(config) => End(config, n) = n
      BY <2>6, EndSteps
    <3>2. n \in DOMAIN config.moved => End(config, n) = Goal(config, n)
      BY DEF End
    <3>3. <<None, k>> \notin Current(config)
      BY MovesAssumption DEF Current
    <3> QED  BY <2>5, <3>1, <3>2, <3>3 DEF Successor
  <2> QED  BY <2>5, <2>6, <2>7
<1>4. Spec => []Inv
  <2> HIDE DEF Inv
  <2> QED  BY <1>1, <1>2, MovesInvariance, PTL DEF Spec
<1> HIDE DEF Inv
<1>5. Spec => [][\A n \in Names, k \in Keys : KeepsRecord(n, k)]_vars
  BY <1>3, <1>4, MovesInvariance, PTL DEF Spec
<1> QED  BY <1>5, PTL DEF NothingForgotten

-----------------------------------------------------------------------------
(* What is left out of planning.                                           *)

\* No two components of the state file have one physical name.
Distinct(st) ==
  \A x, y \in Names : x # y /\ st.physical[x] # None => st.physical[x] # st.physical[y]

LEMMA WrittenDistinct ==
  ASSUME MovesInv, Planned
  PROVE  Distinct(Pruned(work))
<1>1. work \in States /\ ~ Conflict(work, config)
  BY DEF MovesInv, TypeOK, NamesInv
<1> SUFFICES ASSUME NEW x \in Names, NEW y \in Names, x # y, Pruned(work).physical[x] # None,
                    Pruned(work).physical[x] = Pruned(work).physical[y]
             PROVE  FALSE
  BY DEF Distinct
<1>2. IsTracked(work, x) /\ IsTracked(work, y)
  BY <1>1, PrunedState DEF IsTracked
<1>3. Physical(work, x) = Physical(work, y)
  BY <1>1, <1>2, PrunedState DEF Physical
<1> QED  BY <1>1, <1>2, <1>3 DEF Conflict, Active

\* The check of every state that is read, which Start leaves out, never fails for
\* what an apply wrote, broken off or not (validateComponentIdentityMappings,
\* moved.go:279-305).
THEOREM IdentitiesValid == Spec => []Distinct(state)
<1>1. Init => Distinct(state)
  BY DEF Init, NoState, Distinct
<1>2. MovesInv /\ Distinct(state) /\ [Next]_vars => Distinct(state)'
  <2> SUFFICES ASSUME MovesInv, Distinct(state), [Next]_vars PROVE Distinct(state')
    OBVIOUS
  <2>1. state' = state \/ (state' = Pruned(work) /\ Planned)
    BY DEF Next, Start, ResolveMove, Refuse, Bind, Abandon, Begin, Prewrite, Step, Finish,
           BreakOff, vars, Planned
  <2> QED  BY <2>1, WrittenDistinct
<1> QED  BY <1>1, <1>2, MovesInvariance, PTL DEF Spec
=============================================================================
