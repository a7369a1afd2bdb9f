-------------------------- MODULE ApplyRuns_proofs --------------------------
(***************************************************************************)
(* Proofs about ApplyRuns for any runs, hosts, machines, configurations    *)
(* and degree of parallelism: a machine is changed only under its lease,   *)
(* what is executed is what was reviewed, and a completed host is as it    *)
(* was asked for, but for what scripts that were cut off write over.       *)
(*                                                                         *)
(* Assumed: hosts keep their machines when the configuration is edited     *)
(* (Steady), for each build replaces the registry of all the work of its   *)
(* run (online.go:368), and no --debug, which makes renewals wait for the  *)
(* answer of the operator (online.go:57-58, 488-501).                      *)
(***************************************************************************)
EXTENDS ApplyRuns, TLAPS

\* A host keeps its machine, however the configuration is edited.
Steady == \A c, d \in Configs : \A h \in DOMAIN c \cap DOMAIN d : c[h].machine = d[h].machine

Steps == {"unsent", "acquire", "build", "plan", "review", "prompt", "approved", "execute",
          "completed", "failing", "failed", "done"}
Maps  == {Machine(c) : c \in Configs} \cup {<<>>}
Tasks == [pc : Steps, want : Versions \cup {Nobody}, seen : [Items -> Versions] \cup {Nobody},
          todo : SUBSET Items, crossed : SUBSET Items, lost : BOOLEAN]
Records == [pc : {"idle", "apply", "over"}, preview : Maps, registry : Maps,
            mutex : Hosts \cup {NoOne}, cancelled : BOOLEAN]

TypeOK ==
  /\ config \in Configs
  /\ contents \in [Machines -> [Items -> Versions]]
  /\ stray \subseteq Scripts
  /\ lease \in [Machines -> [owner : (Runs \X Hosts) \cup {Nobody}, due : BOOLEAN]]
  /\ run \in [Runs -> Records]
  /\ worker \in [Runs -> [Hosts -> Tasks]]

\* Work is done for a run that applies, on the hosts of its preview, as the
\* configuration asks for.
Sent(r, h) == ~ Is(r, h, "unsent") =>
  /\ run[r].pc = "apply"
  /\ h \in DOMAIN run[r].preview
  /\ Is(r, h, "plan") \/ Planned(r, h) => worker[r][h].want \in Versions

\* Work that goes on has its lease; so has work that a cancelled context has yet
\* to reach, or that only has to give the lease back.
Ongoing(r, h) == \/ Leased(r, h) /\ ~ Cancelled(r, h)
                 \/ Is(r, h, "execute") \/ Is(r, h, "completed")
Backed(r, h)  == Ongoing(r, h) => Owns(r, h)

\* While the lease is held the machine is as it was planned, with the steps done,
\* but for what a script that was cut off wrote last.
AsPlanned(r, h) ==
  /\ Planned(r, h) /\ Owns(r, h) =>
       \A i \in Items \ worker[r][h].crossed : contents[At(r, h)][i] =
         IF i \in worker[r][h].todo THEN worker[r][h].seen[i] ELSE worker[r][h].want
  /\ Is(r, h, "completed") => worker[r][h].todo = {}

WorkInv(r, h) == Sent(r, h) /\ Backed(r, h) /\ AsPlanned(r, h)

RunsInv == TypeOK /\ \A r \in Runs, h \in Hosts : WorkInv(r, h)

-----------------------------------------------------------------------------
(* Types and frames.                                                       *)

\* The provider reaches the machine of the preview or none.
LEMMA SameMachine ==
  ASSUME Steady, TypeOK, NEW r \in Runs, NEW h \in DOMAIN run[r].preview, NEW m, Reaches(r, h, m)
  PROVE  m = At(r, h) /\ h \in Hosts /\ m \in Machines
<1>1. run[r].preview \in Maps /\ run[r].registry \in Maps /\ h \in DOMAIN run[r].registry
  BY DEF TypeOK, Reaches, Records
<1>2. \A x \in Maps : h \in DOMAIN x => \E c \in Configs : x = Machine(c)
  BY DEF Maps
<1>3. PICK c \in Configs : run[r].preview = Machine(c)
  BY <1>1, <1>2
<1>4. PICK d \in Configs : run[r].registry = Machine(d)
  BY <1>1, <1>2
<1>5. h \in DOMAIN c \cap DOMAIN d
  BY <1>1, <1>3, <1>4 DEF Machine
<1>6. At(r, h) = c[h].machine /\ run[r].registry[h] = d[h].machine
  BY <1>3, <1>4, <1>5 DEF Machine, At
<1>7. c[h].machine = d[h].machine
  BY <1>5 DEF Steady
<1>8. h \in Hosts /\ c[h].machine \in Machines
  BY <1>5, ApplyAssumption
<1> QED  BY <1>6, <1>7, <1>8 DEF Reaches

\* A host of a preview is on a machine.
LEMMA PreviewMachine ==
  ASSUME TypeOK, NEW r \in Runs, NEW h \in DOMAIN run[r].preview
  PROVE  At(r, h) \in Machines
<1>1. run[r].preview \in Maps
  BY DEF TypeOK, Records
<1>2. PICK c \in Configs : run[r].preview = Machine(c)
  BY <1>1 DEF Maps
<1>3. h \in DOMAIN c /\ At(r, h) = c[h].machine
  BY <1>2 DEF Machine, At
<1> QED  BY <1>3, ApplyAssumption

\* Work that was sent is on a machine.
LEMMA Placed ==
  ASSUME RunsInv, NEW q \in Runs, NEW g \in Hosts, ~ Is(q, g, "unsent")
  PROVE  At(q, g) \in Machines
BY PreviewMachine DEF RunsInv, WorkInv, Sent

\* The work of one host on one machine: what it leaves alone of everything else.
Local(r, h) ==
  /\ \A q \in Runs, g \in Hosts : q # r \/ g # h => worker'[q][g] = worker[q][g]
  /\ \A q \in Runs : /\ run'[q].pc = run[q].pc /\ run'[q].preview = run[q].preview
                     /\ run[q].cancelled => run'[q].cancelled

\* What is true of work stays true when its lease and its machine are left alone.
LEMMA Untouched ==
  ASSUME NEW q \in Runs, NEW g \in Hosts, WorkInv(q, g),
         worker'[q][g] = worker[q][g],
         run'[q].pc = run[q].pc, run'[q].preview = run[q].preview,
         run[q].cancelled => run'[q].cancelled,
         ~ Is(q, g, "unsent") => (Owns(q, g)' <=> Owns(q, g)),
         Planned(q, g) /\ Owns(q, g) => contents'[At(q, g)] = contents[At(q, g)]
  PROVE  WorkInv(q, g)'
<1>1. At(q, g)' = At(q, g)
  BY DEF At
<1>2. Sent(q, g)'
  BY DEF WorkInv, Sent, Planned, Is
<1>3. Backed(q, g)'
  <2>1. Ongoing(q, g)' => Ongoing(q, g) /\ ~ Is(q, g, "unsent")
    BY DEF Ongoing, Leased, Is, Cancelled
  <2> QED  BY <2>1 DEF WorkInv, Backed
<1>4. AsPlanned(q, g)'
  <2>1. Planned(q, g)' => Planned(q, g) /\ ~ Is(q, g, "unsent")
    BY DEF Planned, Is
  <2> QED  BY <1>1, <2>1 DEF WorkInv, AsPlanned, Is
<1> QED  BY <1>2, <1>3, <1>4 DEF WorkInv

\* A step of the work on a host that changes no lease and no machine.
LEMMA Elsewhere ==
  ASSUME RunsInv, NEW r \in Runs, NEW h \in Hosts, Local(r, h), UNCHANGED <<lease, contents>>,
         TypeOK', WorkInv(r, h)'
  PROVE  RunsInv'
<1> SUFFICES ASSUME NEW q \in Runs, NEW g \in Hosts, q # r \/ g # h
             PROVE  WorkInv(q, g)'
  BY DEF RunsInv
<1>1. /\ worker'[q][g] = worker[q][g] /\ run'[q].pc = run[q].pc
      /\ run'[q].preview = run[q].preview
      /\ run[q].cancelled => run'[q].cancelled
  BY DEF Local
<1>2. Owns(q, g)' <=> Owns(q, g)
  BY <1>1 DEF Owns, At
<1>3. contents' = contents
  OBVIOUS
<1> QED  BY <1>1, <1>2, <1>3, Untouched DEF RunsInv

\* The phases of the work on a host.
LEMMA GotoEffect ==
  ASSUME TypeOK, NEW r \in Runs, NEW h \in Hosts, NEW pc \in Steps, Goto(r, h, pc)
  PROVE  /\ worker' \in [Runs -> [Hosts -> Tasks]]
         /\ \A q \in Runs, g \in Hosts : q # r \/ g # h => worker'[q][g] = worker[q][g]
         /\ worker'[r][h].pc = pc /\ worker'[r][h].want = worker[r][h].want
         /\ worker'[r][h].seen = worker[r][h].seen /\ worker'[r][h].todo = worker[r][h].todo
         /\ worker'[r][h].crossed = worker[r][h].crossed
         /\ worker'[r][h].lost = worker[r][h].lost
<1>1. worker \in [Runs -> [Hosts -> Tasks]] /\ worker[r][h] \in Tasks
  BY DEF TypeOK
<1>2. worker' = [worker EXCEPT ![r] = [worker[r] EXCEPT ![h] = [worker[r][h] EXCEPT !.pc = pc]]]
  BY DEF Goto
<1>3. [worker[r][h] EXCEPT !.pc = pc] \in Tasks
  BY <1>1 DEF Tasks
<1> QED  BY <1>1, <1>2, <1>3 DEF Tasks

\* The work that fails, or is over, leaves its machine alone from now on.
LEMMA EndEffect ==
  ASSUME TypeOK, NEW r \in Runs, NEW h \in Hosts, NEW pc \in {"failing", "failed", "done"},
         worker' = [worker EXCEPT ![r][h] = [Unsent EXCEPT !.pc = pc]]
  PROVE  /\ worker' \in [Runs -> [Hosts -> Tasks]]
         /\ \A q \in Runs, g \in Hosts : q # r \/ g # h => worker'[q][g] = worker[q][g]
         /\ worker'[r][h].pc = pc
<1> DEFINE new == [Unsent EXCEPT !.pc = pc]
<1>1. worker \in [Runs -> [Hosts -> Tasks]]
  BY DEF TypeOK
<1>2. new \in Tasks /\ new.pc = pc
  BY DEF Tasks, Unsent, Steps
<1> HIDE DEF new
<1>3. worker' = [worker EXCEPT ![r] = [worker[r] EXCEPT ![h] = new]]
  BY DEF new
<1> QED  BY <1>1, <1>2, <1>3

\* What of a run changes while it applies.
RunsAs(r) ==
  /\ run' \in [Runs -> Records]
  /\ \A q \in Runs : /\ run'[q].pc = run[q].pc /\ run'[q].preview = run[q].preview
                     /\ q # r => run'[q] = run[q]

LEMMA RunEffect ==
  ASSUME TypeOK, NEW r \in Runs
  PROVE  /\ run' = [run EXCEPT ![r].cancelled = TRUE] => RunsAs(r) /\ run'[r].cancelled
         /\ \A x \in Hosts \cup {NoOne} :
              run' = [run EXCEPT ![r].mutex = x]
                => RunsAs(r) /\ run'[r].cancelled = run[r].cancelled
         /\ \A x \in Maps :
              run' = [run EXCEPT ![r].registry = x]
                => RunsAs(r) /\ run'[r].cancelled = run[r].cancelled
<1>1. run \in [Runs -> Records]
  BY DEF TypeOK
<1>2. ASSUME run' = [run EXCEPT ![r].cancelled = TRUE] PROVE RunsAs(r) /\ run'[r].cancelled
  BY <1>1, <1>2 DEF RunsAs, Records
<1>3. ASSUME NEW x \in Hosts \cup {NoOne}, run' = [run EXCEPT ![r].mutex = x]
      PROVE  RunsAs(r) /\ run'[r].cancelled = run[r].cancelled
  BY <1>1, <1>3 DEF RunsAs, Records
<1>4. ASSUME NEW x \in Maps, run' = [run EXCEPT ![r].registry = x]
      PROVE  RunsAs(r) /\ run'[r].cancelled = run[r].cancelled
  BY <1>1, <1>4 DEF RunsAs, Records
<1> QED  BY <1>2, <1>3, <1>4

-----------------------------------------------------------------------------
(* The work of a run on a host.                                            *)

\* Steps that change nothing but the phase and what belongs to the run.
LEMMA QuietSteps ==
  ASSUME RunsInv, NEW r \in Runs, NEW h \in Hosts,
         AcquireFails(r, h) \/ Ask(r, h) \/ Answer(r, h) \/ Begin(r, h) \/ Complete(r, h)
           \/ CallFails(r, h)
  PROVE  RunsInv'
<1>1. TypeOK /\ WorkInv(r, h) /\ UNCHANGED <<config, contents, stray, lease>>
  BY DEF RunsInv, AcquireFails, Ask, Answer, Begin, Complete, CallFails
<1>2. CASE AcquireFails(r, h)
  <2>1. /\ worker' = [worker EXCEPT ![r][h] = [Unsent EXCEPT !.pc = "failed"]]
        /\ run' = [run EXCEPT ![r].cancelled = TRUE]
        /\ Is(r, h, "acquire")
    BY <1>2 DEF AcquireFails, Fails
  <2>2. /\ worker' \in [Runs -> [Hosts -> Tasks]] /\ worker'[r][h].pc \in {"failed", "done"}
        /\ \A q \in Runs, g \in Hosts : q # r \/ g # h => worker'[q][g] = worker[q][g]
    BY <1>1, <2>1, EndEffect
  <2>3. RunsAs(r) /\ run'[r].cancelled
    BY <1>1, <2>1, RunEffect
  <2>4. TypeOK' /\ Local(r, h)
    BY <1>1, <2>2, <2>3 DEF TypeOK, Local, RunsAs
  <2>5. WorkInv(r, h)'
    BY <1>1, <2>1, <2>2, <2>4
    DEF WorkInv, Sent, Backed, Ongoing, Leased, AsPlanned, Planned, Is, Local
  <2> QED  BY <1>1, <2>4, <2>5, Elsewhere
<1>3. ASSUME NEW pc \in Steps, Goto(r, h, pc), ~ Is(r, h, "unsent"),
             \/ UNCHANGED run
             \/ \E x \in Hosts \cup {NoOne} : run' = [run EXCEPT ![r].mutex = x],
             pc \in {"execute", "completed"} => Owns(r, h),
             pc \in {"prompt", "approved"} /\ ~ Cancelled(r, h) => Owns(r, h),
             pc \in {"prompt", "approved", "execute", "completed"}, Planned(r, h),
             pc = "completed" => worker[r][h].todo = {}
      PROVE  RunsInv'
  <2>0. RunsAs(r) /\ run'[r].cancelled = run[r].cancelled
    <3>1. CASE UNCHANGED run
      BY <1>1, <3>1 DEF RunsAs, TypeOK
    <3>2. CASE \E x \in Hosts \cup {NoOne} : run' = [run EXCEPT ![r].mutex = x]
      BY <1>1, <3>2, RunEffect
    <3> QED  BY <1>3, <3>1, <3>2
  <2>1. TypeOK' /\ Local(r, h)
    BY <1>1, <1>3, <2>0, GotoEffect DEF TypeOK, Local, RunsAs
  <2>2. /\ worker'[r][h].pc = pc /\ worker'[r][h].want = worker[r][h].want
        /\ worker'[r][h].seen = worker[r][h].seen /\ worker'[r][h].todo = worker[r][h].todo
        /\ worker'[r][h].crossed = worker[r][h].crossed
        /\ worker'[r][h].lost = worker[r][h].lost
    BY <1>1, <1>3, GotoEffect
  <2>3. /\ run'[r].preview = run[r].preview /\ run'[r].pc = run[r].pc
        /\ run'[r].cancelled = run[r].cancelled
    BY <2>0 DEF RunsAs
  <2>4. /\ At(r, h)' = At(r, h) /\ (Owns(r, h)' <=> Owns(r, h))
        /\ Cancelled(r, h)' <=> Cancelled(r, h)
    BY <1>1, <2>2, <2>3 DEF At, Owns, Cancelled
  <2>5. Sent(r, h)'
    BY <1>1, <1>3, <2>2, <2>3 DEF WorkInv, Sent, Planned, Is
  <2>6. Backed(r, h)'
    BY <1>3, <2>2, <2>4 DEF Backed, Ongoing, Leased, Is
  <2>7. AsPlanned(r, h)'
    BY <1>1, <1>3, <2>2, <2>4 DEF WorkInv, AsPlanned, Planned, Is
  <2> QED  BY <1>1, <2>1, <2>5, <2>6, <2>7, Elsewhere DEF WorkInv
<1>4. ASSUME Breaks(r, h), ~ Is(r, h, "unsent"),
             UNCHANGED run \/ run' = [run EXCEPT ![r].mutex = NoOne]
      PROVE  RunsInv'
  <2>1. RunsAs(r) /\ run'[r].cancelled = run[r].cancelled
    <3>1. CASE UNCHANGED run
      BY <1>1, <3>1 DEF RunsAs, TypeOK
    <3>2. CASE run' = [run EXCEPT ![r].mutex = NoOne]
      BY <1>1, <3>2, RunEffect
    <3> QED  BY <1>4, <3>1, <3>2
  <2>2. /\ worker' \in [Runs -> [Hosts -> Tasks]] /\ worker'[r][h].pc = "failing"
        /\ \A q \in Runs, g \in Hosts : q # r \/ g # h => worker'[q][g] = worker[q][g]
    BY <1>1, <1>4, EndEffect DEF Breaks
  <2>3. TypeOK' /\ Local(r, h)
    BY <1>1, <2>1, <2>2 DEF TypeOK, Local, RunsAs
  <2>4. WorkInv(r, h)'
    BY <1>1, <1>4, <2>1, <2>2
    DEF WorkInv, Sent, Backed, Ongoing, Leased, AsPlanned, Planned, Is, RunsAs
  <2> QED  BY <1>1, <2>3, <2>4, Elsewhere
<1>5. Backed(r, h)
  BY <1>1 DEF WorkInv
<1>6. CASE Ask(r, h)
  BY <1>3, <1>5, <1>6 DEF Ask, Planned, Backed, Ongoing, Leased, Is, Steps
<1>7. CASE Answer(r, h)
  <2>1. CASE Goto(r, h, "approved")
    BY <1>3, <1>5, <1>7, <2>1 DEF Answer, Planned, Backed, Ongoing, Leased, Is, Steps
  <2>2. CASE Breaks(r, h)
    BY <1>4, <1>7, <2>2 DEF Answer, Is
  <2> QED  BY <1>7, <2>1, <2>2 DEF Answer
<1>8. CASE Begin(r, h)
  <2>1. CASE Cancelled(r, h)
    BY <1>4, <1>8, <2>1 DEF Begin, Is
  <2>2. CASE ~ Cancelled(r, h)
    BY <1>3, <1>5, <1>8, <2>2 DEF Begin, Planned, Backed, Ongoing, Leased, Is, Steps
  <2> QED  BY <2>1, <2>2
<1>9. CASE Complete(r, h)
  BY <1>3, <1>5, <1>9 DEF Complete, Planned, Backed, Ongoing, Leased, Is, Steps
<1>10. CASE CallFails(r, h)
  BY <1>4, <1>10 DEF CallFails, Is
<1> QED  BY <1>2, <1>6, <1>7, <1>8, <1>9, <1>10

\* A lease is taken only when nobody has it.
LEMMA AcquireStep ==
  ASSUME RunsInv, NEW r \in Runs, NEW h \in Hosts, Acquire(r, h)
  PROVE  RunsInv'
<1>1. TypeOK /\ WorkInv(r, h)
  BY DEF RunsInv
<1>2. /\ Is(r, h, "acquire") /\ Goto(r, h, "build") /\ lease[At(r, h)] = Free
      /\ lease' = [lease EXCEPT ![At(r, h)] = [owner |-> <<r, h>>, due |-> FALSE]]
      /\ UNCHANGED <<config, contents, stray, run, edits>>
  BY DEF Acquire
<1>3. /\ worker' \in [Runs -> [Hosts -> Tasks]] /\ worker'[r][h].pc = "build"
      /\ \A q \in Runs, g \in Hosts : q # r \/ g # h => worker'[q][g] = worker[q][g]
  BY <1>1, <1>2, GotoEffect DEF Steps
<1>4. At(r, h) \in Machines
  BY <1>1, <1>2, PreviewMachine DEF WorkInv, Sent, Is
<1>5. /\ lease'[At(r, h)].owner = <<r, h>>
      /\ \A m \in Machines : m # At(r, h) => lease'[m] = lease[m]
      /\ lease' \in [Machines -> [owner : (Runs \X Hosts) \cup {Nobody}, due : BOOLEAN]]
  BY <1>1, <1>2, <1>4 DEF TypeOK
<1>6. TypeOK'
  BY <1>1, <1>2, <1>3, <1>5 DEF TypeOK
<1>7. WorkInv(r, h)'
  BY <1>1, <1>2, <1>3, <1>5
  DEF WorkInv, Sent, Backed, Ongoing, Leased, AsPlanned, Planned, Is, Owns, At
<1>8. ASSUME NEW q \in Runs, NEW g \in Hosts, q # r \/ g # h
      PROVE  WorkInv(q, g)'
  <2>1. ASSUME ~ Is(q, g, "unsent") PROVE Owns(q, g)' <=> Owns(q, g)
    <3>1. <<q, g>> # <<r, h>> /\ <<q, g>> # Nobody /\ At(q, g) \in Machines
      BY <1>8, <2>1, ApplyAssumption, Placed
    <3>2. lease[At(r, h)].owner = Nobody
      BY <1>2 DEF Free
    <3>3. At(q, g)' = At(q, g) /\ At(r, h)' = At(r, h)
      BY <1>2 DEF At
    <3>4. CASE At(q, g) = At(r, h)
      BY <1>5, <3>1, <3>2, <3>3, <3>4 DEF Owns
    <3>5. CASE At(q, g) # At(r, h)
      <4>1. lease'[At(q, g)] = lease[At(q, g)]
        BY <1>5, <3>1, <3>5
      <4> QED  BY <3>3, <4>1 DEF Owns
    <3> QED  BY <3>4, <3>5
  <2> QED  BY <1>2, <1>3, <1>8, <2>1, Untouched DEF RunsInv
<1> QED  BY <1>6, <1>7, <1>8 DEF RunsInv

\* A build finds the hosts on their machines or gives up.
LEMMA BuildStep ==
  ASSUME RunsInv, NEW r \in Runs, NEW h \in Hosts, Build(r, h)
  PROVE  RunsInv'
<1>1. TypeOK /\ WorkInv(r, h) /\ UNCHANGED <<config, contents, stray, lease>>
  BY DEF RunsInv, Build
<1>2. /\ Is(r, h, "build") /\ ~ Cancelled(r, h)
      /\ run' = [run EXCEPT ![r].registry = Machine(config)]
  BY DEF Build
<1>3. RunsAs(r) /\ run'[r].cancelled = run[r].cancelled
  <2>1. Machine(config) \in Maps
    BY <1>1 DEF TypeOK, Maps
  <2> QED  BY <1>1, <1>2, <2>1, RunEffect
<1>4. /\ worker' \in [Runs -> [Hosts -> Tasks]]
      /\ \A q \in Runs, g \in Hosts : q # r \/ g # h => worker'[q][g] = worker[q][g]
      /\ worker'[r][h].pc \in {"plan", "failing"}
      /\ worker'[r][h].pc = "plan" => /\ worker'[r][h].want \in Versions
                                      /\ worker'[r][h].lost = worker[r][h].lost
  <2>0. worker \in [Runs -> [Hosts -> Tasks]] /\ worker[r][h] \in Tasks
    BY <1>1 DEF TypeOK
  <2>1. CASE worker' = [worker EXCEPT ![r][h] = [Unsent EXCEPT !.pc = "failing"]]
    BY <1>1, <2>1, EndEffect
  <2>2. CASE /\ SameHosts(r) /\ SameIdentity(r, h)
             /\ worker' = [worker EXCEPT ![r][h] =
                             [@ EXCEPT !.pc = "plan", !.want = config[h].version]]
    <3>1. h \in DOMAIN config
      BY <1>1, <1>2, <2>2 DEF SameHosts, WorkInv, Sent, Is
    <3>2. config[h].version \in Versions
      BY <1>1, <3>1, ApplyAssumption DEF TypeOK
    <3>3. worker' = [worker EXCEPT ![r] = [worker[r] EXCEPT ![h] =
                       [worker[r][h] EXCEPT !.pc = "plan", !.want = config[h].version]]]
      BY <2>2
    <3>4. /\ [worker[r][h] EXCEPT !.pc = "plan", !.want = config[h].version] \in Tasks
          /\ [worker[r][h] EXCEPT !.pc = "plan", !.want = config[h].version].pc = "plan"
          /\ [worker[r][h] EXCEPT !.pc = "plan", !.want = config[h].version].lost
               = worker[r][h].lost
          /\ [worker[r][h] EXCEPT !.pc = "plan", !.want = config[h].version].want \in Versions
      BY <2>0, <3>2 DEF Tasks, Steps
    <3> HIDE DEF Tasks
    <3> QED  BY <2>0, <3>3, <3>4
  <2> QED  BY <2>1, <2>2 DEF Build
<1>5. TypeOK' /\ Local(r, h)
  BY <1>1, <1>3, <1>4 DEF TypeOK, Local, RunsAs
<1>6. WorkInv(r, h)'
  <2>1. Owns(r, h) /\ Sent(r, h)
    BY <1>1, <1>2 DEF WorkInv, Backed, Ongoing, Leased, Is
  <2>2. Owns(r, h)'
    BY <1>1, <1>5, <2>1 DEF Owns, At, Local
  <2> QED  BY <1>2, <1>4, <1>5, <2>1, <2>2
    DEF WorkInv, Sent, Backed, AsPlanned, Planned, Is, Local
<1> QED  BY <1>1, <1>5, <1>6, Elsewhere

\* A plan is made of what the machine has.
LEMMA PlanStep ==
  ASSUME Steady, RunsInv, NEW r \in Runs, NEW h \in Hosts, Plan(r, h)
  PROVE  RunsInv'
<1>1. TypeOK /\ WorkInv(r, h) /\ UNCHANGED <<config, contents, stray, lease, run>>
  BY DEF RunsInv, Plan
<1>2. Is(r, h, "plan") /\ ~ Cancelled(r, h) /\ Sent(r, h)
  BY <1>1 DEF Plan, WorkInv
<1> DEFINE m == At(r, h)
           todo == {i \in Items : contents[m][i] # worker[r][h].want}
           new == [worker[r][h] EXCEPT !.pc = "review", !.seen = contents[m], !.todo = todo]
<1>3. m \in Machines /\ worker' = [worker EXCEPT ![r][h].pc = "review",
                                      ![r][h].seen = contents[m], ![r][h].todo = todo]
  <2>1. h \in DOMAIN run[r].preview
    BY <1>2 DEF Sent, Is
  <2>2. PICK x \in Machines :
           /\ Reaches(r, h, x)
           /\ worker' = [worker EXCEPT ![r][h].pc = "review", ![r][h].seen = contents[x],
                ![r][h].todo = {i \in Items : contents[x][i] # worker[r][h].want}]
    BY DEF Plan
  <2>3. x = m
    BY <1>1, <2>1, <2>2, SameMachine
  <2> QED  BY <2>2, <2>3
<1>4. worker \in [Runs -> [Hosts -> Tasks]] /\ worker[r][h] \in Tasks
  BY <1>1 DEF TypeOK
<1>5. worker' = [worker EXCEPT ![r] = [worker[r] EXCEPT ![h] = new]]
  BY <1>3, <1>4
<1>6. contents[m] \in [Items -> Versions]
  BY <1>1, <1>3 DEF TypeOK
<1>7. /\ new \in Tasks /\ new.pc = "review" /\ new.want = worker[r][h].want
      /\ new.seen = contents[m] /\ new.todo = todo /\ new.lost = worker[r][h].lost
  BY <1>4, <1>6 DEF Tasks, Steps
<1> HIDE DEF new, todo, m
<1>8. /\ worker' \in [Runs -> [Hosts -> Tasks]] /\ worker'[r][h] = new
      /\ \A q \in Runs, g \in Hosts : q # r \/ g # h => worker'[q][g] = worker[q][g]
  BY <1>4, <1>5, <1>7
<1>9. TypeOK' /\ Local(r, h)
  BY <1>1, <1>8 DEF TypeOK, Local
<1>10. Owns(r, h) /\ Owns(r, h)' /\ At(r, h)' = m
  BY <1>1, <1>2 DEF WorkInv, Backed, Ongoing, Leased, Is, Owns, At, m
<1>11. AsPlanned(r, h)'
  BY <1>1, <1>7, <1>8, <1>10 DEF AsPlanned, Is, todo
<1>12. Sent(r, h)' /\ Backed(r, h)'
  BY <1>1, <1>2, <1>7, <1>8, <1>10 DEF Sent, Backed, Is
<1> QED  BY <1>1, <1>9, <1>11, <1>12, Elsewhere DEF WorkInv

\* What a step may touch is the machine that the work has leased.
LEMMA OwnMachine ==
  ASSUME Steady, RunsInv, NEW r \in Runs, NEW h \in Hosts, Executing(r, h)
  PROVE  /\ Owns(r, h) /\ At(r, h) \in Machines
         /\ \A m : Reaches(r, h, m) => m = At(r, h)
         /\ \A q \in Runs, g \in Hosts : Owns(q, g) /\ (q # r \/ g # h) => At(q, g) # At(r, h)
<1>1. TypeOK /\ WorkInv(r, h) /\ Is(r, h, "execute")
  BY DEF RunsInv, Executing
<1>2. h \in DOMAIN run[r].preview
  BY <1>1 DEF WorkInv, Sent, Is
<1>3. Owns(r, h)
  BY <1>1 DEF WorkInv, Backed, Ongoing
<1>4. \A m : Reaches(r, h, m) => m = At(r, h)
  BY <1>1, <1>2, SameMachine
<1>5. \A q \in Runs, g \in Hosts : Owns(q, g) /\ (q # r \/ g # h) => At(q, g) # At(r, h)
  BY <1>3 DEF Owns
<1> QED  BY <1>1, <1>2, <1>3, <1>4, <1>5, PreviewMachine

\* A change of the leased machine is nothing to the work of others.
LEMMA ChangeElsewhere ==
  ASSUME Steady, RunsInv, NEW r \in Runs, NEW h \in Hosts, Executing(r, h),
         Local(r, h), UNCHANGED lease, NEW i \in Items, UNCHANGED contents \/ Change(r, h, i),
         TypeOK', WorkInv(r, h)'
  PROVE  RunsInv'
<1> SUFFICES ASSUME NEW q \in Runs, NEW g \in Hosts, q # r \/ g # h
             PROVE  WorkInv(q, g)'
  BY DEF RunsInv
<1>1. /\ worker'[q][g] = worker[q][g] /\ run'[q].pc = run[q].pc
      /\ run'[q].preview = run[q].preview
      /\ run[q].cancelled => run'[q].cancelled
  BY DEF Local
<1>2. Owns(q, g)' <=> Owns(q, g)
  BY <1>1 DEF Owns, At
<1>3. Planned(q, g) /\ Owns(q, g) => contents'[At(q, g)] = contents[At(q, g)]
  <2> SUFFICES ASSUME Planned(q, g), Owns(q, g), Change(r, h, i)
               PROVE  contents'[At(q, g)] = contents[At(q, g)]
    OBVIOUS
  <2>1. PICK m \in Machines : /\ Reaches(r, h, m)
                              /\ contents' = [contents EXCEPT ![m][i] = worker[r][h].want]
    BY DEF Change
  <2>2. m # At(q, g)
    BY <2>1, OwnMachine
  <2>3. contents' = [contents EXCEPT ![m] = [contents[m] EXCEPT ![i] = worker[r][h].want]]
    BY <2>1
  <2>4. At(q, g) \in Machines
    BY PreviewMachine DEF RunsInv, WorkInv, Sent, Is, Planned
  <2> QED  BY <2>2, <2>3, <2>4 DEF RunsInv, TypeOK
<1> QED  BY <1>1, <1>2, <1>3, Untouched DEF RunsInv

\* A step makes its item as it was asked for.
LEMMA ChangeSteps ==
  ASSUME Steady, RunsInv, NEW r \in Runs, NEW h \in Hosts, Step(r, h) \/ StepFails(r, h)
  PROVE  RunsInv'
<1>1. TypeOK /\ WorkInv(r, h) /\ Executing(r, h) /\ UNCHANGED <<config, lease, run>>
  BY DEF RunsInv, Step, StepFails
<1>2. /\ Is(r, h, "execute") /\ Sent(r, h) /\ AsPlanned(r, h)
      /\ Owns(r, h) /\ At(r, h) \in Machines /\ \A m : Reaches(r, h, m) => m = At(r, h)
  BY <1>1, OwnMachine DEF WorkInv, Executing
<1>3. /\ worker \in [Runs -> [Hosts -> Tasks]] /\ worker[r][h] \in Tasks
      /\ contents \in [Machines -> [Items -> Versions]]
  BY <1>1 DEF TypeOK
<1>4. worker[r][h].want \in Versions
  BY <1>2 DEF Sent, Planned, Is
<1>5. ASSUME NEW i \in Items, Change(r, h, i)
      PROVE  /\ contents' \in [Machines -> [Items -> Versions]]
             /\ \A j \in Items : contents'[At(r, h)][j] =
                  IF j = i THEN worker[r][h].want ELSE contents[At(r, h)][j]
  <2>1. PICK m \in Machines : /\ Reaches(r, h, m)
                              /\ contents' = [contents EXCEPT ![m][i] = worker[r][h].want]
    BY <1>5 DEF Change
  <2>2. m = At(r, h)
    BY <1>2, <2>1
  <2>3. contents' = [contents EXCEPT ![m] = [contents[m] EXCEPT ![i] = worker[r][h].want]]
    BY <2>1
  <2> QED  BY <1>2, <1>3, <1>4, <2>2, <2>3
<1>6. CASE Step(r, h)
  <2>1. PICK i \in worker[r][h].todo : /\ Change(r, h, i)
                                       /\ worker' = [worker EXCEPT ![r][h].todo = @ \ {i},
                                                                   ![r][h].crossed = @ \ {i}]
    BY <1>6 DEF Step
  <2> DEFINE new == [worker[r][h] EXCEPT !.todo = @ \ {i}, !.crossed = @ \ {i}]
  <2>2. worker' = [worker EXCEPT ![r] = [worker[r] EXCEPT ![h] = new]]
    BY <1>3, <2>1
  <2>3. /\ new \in Tasks /\ new.pc = worker[r][h].pc /\ new.want = worker[r][h].want
        /\ new.seen = worker[r][h].seen /\ new.todo = worker[r][h].todo \ {i}
        /\ new.crossed = worker[r][h].crossed \ {i} /\ i \in Items
    BY <1>3 DEF Tasks
  <2> HIDE DEF new
  <2>4. /\ worker' \in [Runs -> [Hosts -> Tasks]] /\ worker'[r][h] = new
        /\ \A q \in Runs, g \in Hosts : q # r \/ g # h => worker'[q][g] = worker[q][g]
    BY <1>3, <2>2, <2>3
  <2>5. TypeOK' /\ Local(r, h)
    BY <1>1, <1>5, <1>6, <2>1, <2>3, <2>4 DEF TypeOK, Local, Step
  <2>6. Owns(r, h)' /\ At(r, h)' = At(r, h)
    BY <1>1, <1>2 DEF Owns, At
  <2>7. Sent(r, h)' /\ Backed(r, h)'
    BY <1>1, <1>2, <2>3, <2>4, <2>6 DEF Sent, Backed, Is, Planned
  <2>8. AsPlanned(r, h)'
    BY <1>2, <1>5, <2>1, <2>3, <2>4, <2>6 DEF AsPlanned, Planned, Is
  <2> QED  BY <1>1, <2>1, <2>3, <2>5, <2>7, <2>8, ChangeElsewhere DEF WorkInv
<1>7. CASE StepFails(r, h)
  <2>1. PICK i \in worker[r][h].todo :
           \/ UNCHANGED <<contents, stray>>
           \/ Change(r, h, i) /\ UNCHANGED stray
           \/ Strays(r, h, i) /\ UNCHANGED contents
    BY <1>7 DEF StepFails, Executing
  <2>2. i \in Items
    BY <1>3, <2>1 DEF Tasks
  <2>3. /\ worker' \in [Runs -> [Hosts -> Tasks]] /\ worker'[r][h].pc = "failing"
        /\ \A q \in Runs, g \in Hosts : q # r \/ g # h => worker'[q][g] = worker[q][g]
    BY <1>1, <1>7, EndEffect DEF StepFails, Breaks
  <2>6. stray' \subseteq Scripts /\ contents' \in [Machines -> [Items -> Versions]]
    <3>1. CASE Strays(r, h, i) /\ UNCHANGED contents
      <4>1. PICK m \in Machines :
               stray' = stray \cup {[machine |-> m, item |-> i, version |-> worker[r][h].want]}
        BY <3>1 DEF Strays
      <4> QED  BY <1>1, <1>3, <1>4, <2>2, <3>1, <4>1 DEF TypeOK, Scripts
    <3>2. CASE (UNCHANGED contents \/ Change(r, h, i)) /\ UNCHANGED stray
      BY <1>1, <1>3, <1>5, <2>2, <3>2 DEF TypeOK
    <3> QED  BY <2>1, <3>1, <3>2
  <2>4. TypeOK' /\ Local(r, h)
    BY <1>1, <2>3, <2>6 DEF TypeOK, Local
  <2>5. WorkInv(r, h)'
    BY <1>1, <1>2, <2>3
    DEF WorkInv, Sent, Backed, Ongoing, Leased, AsPlanned, Planned, Is
  <2> QED  BY <1>1, <2>1, <2>2, <2>4, <2>5, ChangeElsewhere
<1> QED  BY <1>6, <1>7

\* What a script that was cut off writes over is excepted from then on.
LEMMA LandsStep ==
  ASSUME RunsInv, NEW s \in Scripts, Lands(s)
  PROVE  RunsInv'
<1>1. /\ TypeOK /\ s \in stray
      /\ contents' = [contents EXCEPT ![s.machine][s.item] = s.version]
      /\ worker' = [r \in Runs |-> [h \in Hosts |->
           IF Planned(r, h) /\ At(r, h) = s.machine
           THEN [worker[r][h] EXCEPT !.crossed = @ \cup {s.item}] ELSE worker[r][h]]]
      /\ stray' = stray \ {s} /\ UNCHANGED <<config, lease, run>>
  BY DEF RunsInv, Lands
<1>2. /\ s.machine \in Machines /\ s.item \in Items /\ s.version \in Versions
  BY DEF Scripts
<1>3. /\ contents' \in [Machines -> [Items -> Versions]]
      /\ \A m \in Machines, i \in Items :
           m # s.machine \/ i # s.item => contents'[m][i] = contents[m][i]
  <2>1. contents' = [contents EXCEPT ![s.machine] = [contents[s.machine] EXCEPT ![s.item] = s.version]]
    BY <1>1
  <2> QED  BY <1>1, <1>2, <2>1 DEF TypeOK
<1>4. ASSUME NEW q \in Runs, NEW g \in Hosts
      PROVE  /\ worker'[q][g] \in Tasks
             /\ worker'[q][g].pc = worker[q][g].pc /\ worker'[q][g].want = worker[q][g].want
             /\ worker'[q][g].seen = worker[q][g].seen /\ worker'[q][g].todo = worker[q][g].todo
             /\ worker'[q][g].lost = worker[q][g].lost
             /\ worker[q][g].crossed \subseteq worker'[q][g].crossed
             /\ Planned(q, g) /\ At(q, g) = s.machine => s.item \in worker'[q][g].crossed
  <2>1. worker[q][g] \in Tasks
    BY <1>1 DEF TypeOK
  <2>2. worker'[q][g] = IF Planned(q, g) /\ At(q, g) = s.machine
                        THEN [worker[q][g] EXCEPT !.crossed = @ \cup {s.item}] ELSE worker[q][g]
    BY <1>1
  <2> QED  BY <1>2, <2>1, <2>2 DEF Tasks
<1>5. TypeOK'
  BY <1>1, <1>3, <1>4 DEF TypeOK
<1>6. ASSUME NEW q \in Runs, NEW g \in Hosts
      PROVE  WorkInv(q, g)'
  <2>1. /\ WorkInv(q, g) /\ At(q, g)' = At(q, g)
        /\ Planned(q, g)' <=> Planned(q, g)
        /\ Owns(q, g)' <=> Owns(q, g)
    BY <1>1, <1>4 DEF RunsInv, At, Owns, Planned
  <2>2. Sent(q, g)' /\ Backed(q, g)'
    BY <1>1, <1>4, <2>1 DEF WorkInv, Sent, Backed, Ongoing, Leased, Cancelled, Is
  <2>3. ASSUME Planned(q, g), Owns(q, g), NEW i \in Items \ worker'[q][g].crossed
        PROVE  contents'[At(q, g)][i] = contents[At(q, g)][i]
    <3>1. At(q, g) \in Machines
      BY <2>3, Placed DEF Planned, Is
    <3> QED  BY <1>3, <1>4, <2>3, <3>1
  <2>4. AsPlanned(q, g)'
    BY <1>4, <2>1, <2>3 DEF WorkInv, AsPlanned, Is
  <2> QED  BY <2>2, <2>4 DEF WorkInv
<1> QED  BY <1>5, <1>6 DEF RunsInv

\* A lease is given back by its owner, when its work is over.
LEMMA ReleaseStep ==
  ASSUME RunsInv, NEW r \in Runs, NEW h \in Hosts, Release(r, h)
  PROVE  RunsInv'
<1>1. TypeOK /\ WorkInv(r, h) /\ UNCHANGED <<config, contents, stray>>
  BY DEF RunsInv, Release
<1>2. /\ ~ Is(r, h, "unsent")
      /\ lease' = lease \/ (Owns(r, h) /\ lease' = [lease EXCEPT ![At(r, h)] = Free])
      /\ \/ /\ worker' = [worker EXCEPT ![r][h] = [Unsent EXCEPT !.pc = "done"]]
            /\ UNCHANGED run
         \/ Fails(r, h)
  BY DEF Release, Is
<1>3. PICK pc \in {"failed", "done"} :
        worker' = [worker EXCEPT ![r][h] = [Unsent EXCEPT !.pc = pc]]
  BY <1>2 DEF Fails
<1>4. /\ worker' \in [Runs -> [Hosts -> Tasks]] /\ worker'[r][h].pc \in {"failed", "done"}
      /\ \A q \in Runs, g \in Hosts : q # r \/ g # h => worker'[q][g] = worker[q][g]
  BY <1>1, <1>3, EndEffect
<1>5. RunsAs(r) /\ (run[r].cancelled => run'[r].cancelled)
  <2>1. CASE UNCHANGED run
    BY <1>1, <2>1 DEF RunsAs, TypeOK
  <2>2. CASE run' = [run EXCEPT ![r].cancelled = TRUE]
    BY <1>1, <2>2, RunEffect
  <2> QED  BY <1>2, <2>1, <2>2 DEF Fails
<1>6. /\ lease' \in [Machines -> [owner : (Runs \X Hosts) \cup {Nobody}, due : BOOLEAN]]
      /\ \A q \in Runs, g \in Hosts :
           (q # r \/ g # h) /\ ~ Is(q, g, "unsent") => (Owns(q, g)' <=> Owns(q, g))
  <2>1. \A q, g : q \in Runs => At(q, g)' = At(q, g)
    BY <1>5 DEF RunsAs, At
  <2>2. CASE lease' = lease
    BY <1>1, <2>1, <2>2 DEF TypeOK, Owns
  <2>3. CASE Owns(r, h) /\ lease' = [lease EXCEPT ![At(r, h)] = Free]
    <3>1. At(r, h) \in Machines
      BY <1>1, <1>2, PreviewMachine DEF WorkInv, Sent
    <3>2. /\ lease' \in [Machines -> [owner : (Runs \X Hosts) \cup {Nobody}, due : BOOLEAN]]
          /\ lease'[At(r, h)].owner = Nobody
          /\ \A m \in Machines : m # At(r, h) => lease'[m] = lease[m]
      BY <1>1, <2>3, <3>1 DEF TypeOK, Free
    <3>3. ASSUME NEW q \in Runs, NEW g \in Hosts, q # r \/ g # h, ~ Is(q, g, "unsent")
          PROVE  Owns(q, g)' <=> Owns(q, g)
      <4>1. <<q, g>> # <<r, h>> /\ <<q, g>> # Nobody /\ At(q, g) \in Machines
        BY <3>3, ApplyAssumption, Placed
      <4>2. lease[At(r, h)].owner = <<r, h>>
        BY <2>3 DEF Owns
      <4>3. Owns(q, g)' <=> lease'[At(q, g)].owner = <<q, g>>
        BY <2>1 DEF Owns
      <4> QED  BY <3>2, <4>1, <4>2, <4>3 DEF Owns
    <3> QED  BY <3>2, <3>3
  <2> QED  BY <1>2, <2>2, <2>3
<1>7. TypeOK'
  BY <1>1, <1>4, <1>5, <1>6 DEF TypeOK, RunsAs
<1>8. WorkInv(r, h)'
  BY <1>1, <1>2, <1>4, <1>5
  DEF WorkInv, Sent, Backed, Ongoing, Leased, AsPlanned, Planned, Is, RunsAs
<1>9. ASSUME NEW q \in Runs, NEW g \in Hosts, q # r \/ g # h
      PROVE  WorkInv(q, g)'
  <2>1. /\ run'[q].pc = run[q].pc /\ run'[q].preview = run[q].preview
        /\ run[q].cancelled => run'[q].cancelled
    BY <1>5 DEF RunsAs
  <2> QED  BY <1>1, <1>4, <1>6, <1>9, <2>1, Untouched DEF RunsInv
<1> QED  BY <1>7, <1>8, <1>9 DEF RunsInv

-----------------------------------------------------------------------------
(* Renewals and time.                                                      *)

\* A renewal keeps the lease with its owner, or cancels the work.
LEMMA RenewStep ==
  ASSUME RunsInv, NEW r \in Runs, NEW h \in Hosts, Renew(r, h)
  PROVE  RunsInv'
<1>1. TypeOK /\ WorkInv(r, h) /\ UNCHANGED <<config, contents, stray, run>>
  BY DEF RunsInv, Renew
<1>2. CASE Owns(r, h) /\ lease' = [lease EXCEPT ![At(r, h)].due = FALSE] /\ UNCHANGED worker
  <2>1. /\ lease' \in [Machines -> [owner : (Runs \X Hosts) \cup {Nobody}, due : BOOLEAN]]
        /\ \A m \in Machines : lease'[m].owner = lease[m].owner
    <3> DEFINE a   == At(r, h)
               new == [lease[a] EXCEPT !.due = FALSE]
    <3>1. lease' = [lease EXCEPT ![a] = new]
      BY <1>2
    <3>2. /\ DOMAIN lease = Machines
          /\ \A m \in Machines :
               lease[m] \in [owner : (Runs \X Hosts) \cup {Nobody}, due : BOOLEAN]
          /\ a \in Machines
      BY <1>1, <1>2, Placed DEF TypeOK, Renew, Renews, Leased, Is
    <3>3. /\ new \in [owner : (Runs \X Hosts) \cup {Nobody}, due : BOOLEAN]
          /\ new.owner = lease[a].owner
      BY <3>2
    <3> HIDE DEF a, new
    <3> QED  BY <1>1, <3>1, <3>2, <3>3 DEF TypeOK
  <2>2. \A q \in Runs, g \in Hosts : ~ Is(q, g, "unsent") => (Owns(q, g)' <=> Owns(q, g))
    BY <1>1, <2>1, Placed DEF Owns, At
  <2>3. TypeOK'
    BY <1>1, <1>2, <2>1 DEF TypeOK
  <2>4. ASSUME NEW q \in Runs, NEW g \in Hosts
        PROVE  WorkInv(q, g)'
    BY <1>1, <1>2, <2>2, <2>4, Untouched DEF RunsInv
  <2> QED  BY <2>3, <2>4 DEF RunsInv
<1>3. CASE /\ Leased(r, h) /\ (Owns(r, h) => lease[At(r, h)].due)
           /\ worker' = [worker EXCEPT ![r][h].lost = TRUE] /\ UNCHANGED lease
  <2> DEFINE new == [worker[r][h] EXCEPT !.lost = TRUE]
  <2>1. worker \in [Runs -> [Hosts -> Tasks]] /\ worker[r][h] \in Tasks
    BY <1>1 DEF TypeOK
  <2>2. worker' = [worker EXCEPT ![r] = [worker[r] EXCEPT ![h] = new]]
    BY <1>3, <2>1
  <2>3. /\ new \in Tasks /\ new.pc = worker[r][h].pc /\ new.want = worker[r][h].want
        /\ new.seen = worker[r][h].seen /\ new.todo = worker[r][h].todo /\ new.lost
        /\ new.crossed = worker[r][h].crossed
    BY <2>1 DEF Tasks
  <2> HIDE DEF new
  <2>4. /\ worker' \in [Runs -> [Hosts -> Tasks]] /\ worker'[r][h] = new
        /\ \A q \in Runs, g \in Hosts : q # r \/ g # h => worker'[q][g] = worker[q][g]
    BY <2>1, <2>2, <2>3
  <2>5. TypeOK' /\ Local(r, h)
    BY <1>1, <1>3, <2>4 DEF TypeOK, Local
  <2>6. (Owns(r, h)' <=> Owns(r, h)) /\ At(r, h)' = At(r, h) /\ Cancelled(r, h)'
    BY <1>1, <1>3, <2>3, <2>4 DEF Owns, At, Cancelled
  <2>7. Sent(r, h)' /\ Backed(r, h)'
    BY <1>1, <2>3, <2>4, <2>6 DEF WorkInv, Sent, Backed, Ongoing, Leased, Planned, Is
  <2>8. AsPlanned(r, h)'
    BY <1>1, <2>3, <2>4, <2>6 DEF WorkInv, AsPlanned, Planned, Is
  <2> QED  BY <1>1, <1>3, <2>5, <2>7, <2>8, Elsewhere DEF WorkInv
<1> QED  BY <1>2, <1>3 DEF Renew, Renews

\* Work that goes on has renewed its lease, or is stopped, before the lease runs out.
LEMMA TickStep ==
  ASSUME RunsInv, ~ Debug, Tick
  PROVE  RunsInv'
<1>1. TypeOK /\ UNCHANGED <<config, contents, stray, run, worker>>
  BY DEF RunsInv, Tick
<1>2. lease' = [m \in Machines |-> IF lease[m] = Free \/ Lapsed(m) THEN Free
                                   ELSE [lease[m] EXCEPT !.due = TRUE]]
  BY DEF Tick
<1>3. ASSUME NEW m \in Machines
      PROVE  /\ lease'[m] \in [owner : (Runs \X Hosts) \cup {Nobody}, due : BOOLEAN]
             /\ lease'[m].owner \in {lease[m].owner, Nobody}
             /\ lease[m] # Free /\ ~ Lapsed(m) => lease'[m].owner = lease[m].owner
  <2>1. lease[m] \in [owner : (Runs \X Hosts) \cup {Nobody}, due : BOOLEAN]
    BY <1>1 DEF TypeOK
  <2>2. CASE lease[m] = Free \/ Lapsed(m)
    BY <1>2, <2>2 DEF Free
  <2>3. CASE lease[m] # Free /\ ~ Lapsed(m)
    BY <1>2, <2>1, <2>3
  <2> QED  BY <2>2, <2>3
<1>4. TypeOK'
  BY <1>1, <1>2, <1>3 DEF TypeOK
<1>5. ASSUME NEW q \in Runs, NEW g \in Hosts
      PROVE  WorkInv(q, g)'
  <2>1. WorkInv(q, g)
    BY DEF RunsInv
  <2>2. Quiet(q)
    BY DEF Quiet
  <2>3. <<q, g>> # Nobody
    BY ApplyAssumption
  <2>4. Ongoing(q, g) => ~ Lapsed(At(q, g))
    <3> SUFFICES ASSUME Ongoing(q, g) PROVE ~ Lapsed(At(q, g))
      OBVIOUS
    <3>1. Owns(q, g)
      BY <2>1 DEF WorkInv, Backed
    <3>2. ~ Drains(q, g) /\ (Renews(q, g) /\ Owns(q, g) => ~ lease[At(q, g)].due)
      BY DEF Tick
    <3>3. Leased(q, g) /\ ~ Cancelled(q, g)
      BY <2>2, <3>2 DEF Ongoing, Drains, Leased, Is
    <3> QED  BY <2>2, <3>1, <3>2, <3>3 DEF Renews, Cancelled, Lapsed
  <2>5. Sent(q, g)' /\ (Is(q, g, "unsent")' <=> Is(q, g, "unsent")) /\ At(q, g)' = At(q, g)
    BY <1>1, <2>1 DEF WorkInv, Sent, Is, At, Planned
  <2>6. CASE Is(q, g, "unsent")
    BY <1>1, <2>5, <2>6
    DEF WorkInv, Backed, Ongoing, Leased, AsPlanned, Planned, Is
  <2>7. CASE ~ Is(q, g, "unsent")
    <3>1. At(q, g) \in Machines
      BY <1>1, <2>1, <2>7, PreviewMachine DEF WorkInv, Sent
    <3>2. Owns(q, g)' => Owns(q, g)
      BY <1>3, <2>3, <2>5, <3>1 DEF Owns
    <3>3. Ongoing(q, g)' => Ongoing(q, g)
      BY <1>1 DEF Ongoing, Leased, Is, Cancelled
    <3>4. Backed(q, g)'
      <4> SUFFICES ASSUME Ongoing(q, g) PROVE Owns(q, g)'
        BY <3>3 DEF Backed
      <4>1. Owns(q, g)
        BY <2>1 DEF WorkInv, Backed
      <4>2. lease[At(q, g)] # Free /\ ~ Lapsed(At(q, g))
        BY <2>3, <2>4, <4>1 DEF Owns, Free
      <4> QED  BY <1>3, <2>5, <3>1, <4>1, <4>2 DEF Owns
    <3>5. AsPlanned(q, g)'
      BY <1>1, <2>1, <2>5, <3>2 DEF WorkInv, AsPlanned, Planned, Is
    <3> QED  BY <2>5, <3>4, <3>5 DEF WorkInv
  <2> QED  BY <2>6, <2>7
<1> QED  BY <1>4, <1>5 DEF RunsInv

-----------------------------------------------------------------------------
(* The runs.                                                               *)

\* Work that is not there yet, or not any more, asks for nothing.
LEMMA NoWork ==
  ASSUME NEW q \in Runs, NEW g \in Hosts, worker[q][g].pc = "unsent"
  PROVE  WorkInv(q, g)
BY DEF WorkInv, Sent, Backed, Ongoing, Leased, AsPlanned, Planned, Is

\* A run begins with nothing under way.
LEMMA PreviewStep ==
  ASSUME RunsInv, NEW r \in Runs, Preview(r)
  PROVE  RunsInv'
<1>1. /\ TypeOK /\ run[r].pc = "idle" /\ UNCHANGED <<config, contents, stray, lease, worker>>
      /\ run' = [run EXCEPT ![r] = [@ EXCEPT !.pc = "apply", !.preview = Machine(config),
                                             !.registry = Machine(config)]]
  BY DEF RunsInv, Preview
<1> DEFINE new == [run[r] EXCEPT !.pc = "apply", !.preview = Machine(config),
                                 !.registry = Machine(config)]
<1>2. run \in [Runs -> Records] /\ run[r] \in Records /\ Machine(config) \in Maps
  BY <1>1 DEF TypeOK, Maps
<1>3. run' = [run EXCEPT ![r] = new]
  BY <1>1
<1>4. new \in Records
  BY <1>2 DEF Records
<1> HIDE DEF new
<1>5. run' \in [Runs -> Records] /\ \A q \in Runs : q # r => run'[q] = run[q]
  BY <1>2, <1>3, <1>4
<1>6. TypeOK'
  BY <1>1, <1>5 DEF TypeOK
<1>7. ASSUME NEW q \in Runs, NEW g \in Hosts
      PROVE  WorkInv(q, g)'
  <2>1. WorkInv(q, g)
    BY DEF RunsInv
  <2>2. CASE q = r
    <3>1. worker[q][g].pc = "unsent"
      BY <1>1, <2>1, <2>2 DEF WorkInv, Sent, Is
    <3> QED  BY <1>1, <3>1
         DEF WorkInv, Sent, Backed, Ongoing, Leased, AsPlanned, Planned, Is
  <2>3. CASE q # r
    <3>1. run'[q] = run[q]
      BY <1>5, <2>3
    <3>2. Owns(q, g)' <=> Owns(q, g)
      BY <1>1, <3>1 DEF Owns, At
    <3> QED  BY <1>1, <2>1, <3>1, <3>2, Untouched
  <2> QED  BY <2>2, <2>3
<1> QED  BY <1>6, <1>7 DEF RunsInv

\* A host of the preview is handed out.
LEMMA SendStep ==
  ASSUME RunsInv, NEW r \in Runs, Send(r)
  PROVE  RunsInv'
<1>1. /\ TypeOK /\ run[r].pc = "apply" /\ UNCHANGED <<config, contents, stray, lease, run>>
  BY DEF RunsInv, Send
<1>2. PICK h \in DOMAIN run[r].preview : Goto(r, h, "acquire")
  BY DEF Send, Pending
<1>3. h \in Hosts
  <2>1. run[r].preview \in Maps
    BY <1>1 DEF TypeOK, Records
  <2>2. PICK c \in Configs : run[r].preview = Machine(c)
    BY <1>2, <2>1 DEF Maps
  <2> QED  BY <1>2, <2>2, ApplyAssumption DEF Machine
<1>4. /\ worker' \in [Runs -> [Hosts -> Tasks]] /\ worker'[r][h].pc = "acquire"
      /\ \A q \in Runs, g \in Hosts : q # r \/ g # h => worker'[q][g] = worker[q][g]
  BY <1>1, <1>2, <1>3, GotoEffect DEF Steps
<1>5. TypeOK' /\ Local(r, h)
  BY <1>1, <1>4 DEF TypeOK, Local
<1>6. WorkInv(r, h)'
  BY <1>1, <1>2, <1>4 DEF WorkInv, Sent, Backed, Ongoing, Leased, AsPlanned, Planned, Is
<1> QED  BY <1>1, <1>3, <1>5, <1>6, Elsewhere

\* A run returns when nothing is under way.
LEMMA ReturnStep ==
  ASSUME RunsInv, NEW r \in Runs, Return(r)
  PROVE  RunsInv'
<1>1. /\ TypeOK /\ UNCHANGED <<config, contents, stray, lease>>
      /\ run' = [run EXCEPT ![r] = [NoRun EXCEPT !.pc = "over"]]
      /\ worker' = [worker EXCEPT ![r] = [h \in Hosts |-> Unsent]]
  BY DEF RunsInv, Return
<1>2. Unsent \in Tasks /\ Unsent.pc = "unsent"
  BY DEF Unsent, Tasks, Steps
<1>3. [NoRun EXCEPT !.pc = "over"] \in Records
  BY DEF NoRun, Records, Maps
<1>4. worker \in [Runs -> [Hosts -> Tasks]] /\ run \in [Runs -> Records]
  BY <1>1 DEF TypeOK
<1>5. /\ worker' \in [Runs -> [Hosts -> Tasks]] /\ run' \in [Runs -> Records]
      /\ \A g \in Hosts : worker'[r][g] = Unsent
      /\ \A q \in Runs : q # r => worker'[q] = worker[q] /\ run'[q] = run[q]
  <2> HIDE DEF Unsent, Tasks, Records, NoRun
  <2> QED  BY <1>1, <1>2, <1>3, <1>4
<1>6. TypeOK'
  BY <1>1, <1>5 DEF TypeOK
<1>7. ASSUME NEW q \in Runs, NEW g \in Hosts
      PROVE  WorkInv(q, g)'
  <2>1. CASE q = r
    <3>1. worker'[q][g].pc = "unsent"
      BY <1>2, <1>5, <2>1
    <3> QED  BY <3>1
         DEF WorkInv, Sent, Backed, Ongoing, Leased, AsPlanned, Planned, Is
  <2>2. CASE q # r
    <3>1. run'[q] = run[q] /\ worker'[q] = worker[q]
      BY <1>5, <2>2
    <3>2. Owns(q, g)' <=> Owns(q, g)
      BY <1>1, <3>1 DEF Owns, At
    <3> QED  BY <1>1, <3>1, <3>2, Untouched DEF RunsInv
  <2> QED  BY <2>1, <2>2
<1> QED  BY <1>6, <1>7 DEF RunsInv

\* An edit changes the files alone, and so does nothing at all.
LEMMA EditStep ==
  ASSUME RunsInv, config' \in Configs, UNCHANGED <<contents, stray, lease, run, worker>>
  PROVE  RunsInv'
<1>1. TypeOK'
  BY DEF RunsInv, TypeOK
<1>2. ASSUME NEW q \in Runs, NEW g \in Hosts
      PROVE  WorkInv(q, g)'
  <2>1. Owns(q, g)' <=> Owns(q, g)
    BY DEF Owns, At
  <2> QED  BY <1>2, <2>1, Untouched DEF RunsInv
<1> QED  BY <1>1, <1>2 DEF RunsInv

-----------------------------------------------------------------------------
(* The invariant and what follows from it.                                 *)

LEMMA InitInv == Init => RunsInv
<1> SUFFICES ASSUME Init PROVE RunsInv
  OBVIOUS
<1>1. Unsent \in Tasks /\ Unsent.pc = "unsent"
  BY DEF Unsent, Tasks, Steps
<1>2. NoRun \in Records
  BY DEF NoRun, Records, Maps
<1>3. Free \in [owner : (Runs \X Hosts) \cup {Nobody}, due : BOOLEAN]
  BY DEF Free
<1>4. TypeOK
  <2> HIDE DEF Unsent, NoRun, Free, Tasks, Records
  <2> QED  BY <1>1, <1>2, <1>3, ApplyAssumption DEF Init, TypeOK
<1>5. ASSUME NEW q \in Runs, NEW g \in Hosts
      PROVE  WorkInv(q, g)
  <2>1. worker[q][g].pc = "unsent"
    BY <1>1 DEF Init
  <2> QED  BY <2>1, NoWork
<1> QED  BY <1>4, <1>5 DEF RunsInv

LEMMA NextInv ==
  ASSUME Steady, ~ Debug, RunsInv, [Next]_vars
  PROVE  RunsInv'
<1>1. CASE UNCHANGED vars
  <2>1. config' \in Configs /\ UNCHANGED <<contents, stray, lease, run, worker>>
    BY <1>1 DEF vars, RunsInv, TypeOK
  <2> QED  BY <2>1, EditStep
<1>2. ASSUME NEW r \in Runs, Preview(r) \/ Control(r)
      PROVE  RunsInv'
  BY <1>2, PreviewStep, SendStep, ReturnStep DEF Control
<1>3. ASSUME NEW r \in Runs, NEW h \in Hosts, Work(r, h)
      PROVE  RunsInv'
  <2>1. CASE Acquire(r, h) \/ Build(r, h) \/ Plan(r, h) \/ Release(r, h)
    BY <2>1, AcquireStep, BuildStep, PlanStep, ReleaseStep
  <2>2. CASE Step(r, h) \/ StepFails(r, h)
    BY <2>2, ChangeSteps
  <2>3. CASE \/ AcquireFails(r, h) \/ Ask(r, h) \/ Answer(r, h) \/ Begin(r, h)
             \/ Complete(r, h) \/ CallFails(r, h)
    BY <2>3, QuietSteps
  <2> QED  BY <1>3, <2>1, <2>2, <2>3 DEF Work
<1>4. ASSUME NEW r \in Runs, NEW h \in Hosts, Renew(r, h)
      PROVE  RunsInv'
  BY <1>4, RenewStep
<1>7. ASSUME NEW s \in Scripts, Lands(s) PROVE RunsInv'
  BY <1>7, LandsStep
<1>5. CASE Tick
  BY <1>5, TickStep
<1>6. CASE Edit
  BY <1>6, EditStep DEF Edit
<1> QED  BY <1>1, <1>2, <1>3, <1>4, <1>5, <1>6, <1>7 DEF Next

\* The runs, their work, the leases and the machines keep their types, and what
\* is planned, owned and done belongs together as RunsInv says (engine.go:188-307).
THEOREM Typing == ASSUME Steady, ~ Debug PROVE Spec => []RunsInv
BY InitInv, NextInv, PTL DEF Spec

\* Of any number of runs on any hosts, none changes a machine without the lease
\* of that machine (engine.go:239-268, docs/locking.md:5).
THEOREM LeasedMachine == ASSUME Steady, ~ Debug PROVE Spec => []OnLeasedMachine
<1>1. RunsInv => OnLeasedMachine
  <2> SUFFICES ASSUME RunsInv, NEW r \in Runs, NEW h \in Hosts, NEW m \in Machines,
                      Executing(r, h), Reaches(r, h, m)
               PROVE  lease[m].owner = <<r, h>>
    BY DEF OnLeasedMachine
  <2> QED  BY OwnMachine DEF Owns
<1> QED  BY <1>1, Typing, PTL

\* What the operator has approved is what the machine still needs when a step is
\* executed, whatever the other runs do and wherever they break off; only a script
\* that was cut off and goes on changes it (docs/development.md:120-122,
\* ssh.go:126-140).
THEOREM Reviewed == ASSUME Steady, ~ Debug PROVE Spec => []ReviewedHolds
<1>1. RunsInv => ReviewedHolds
  <2> SUFFICES ASSUME RunsInv, NEW r \in Runs, NEW h \in Hosts, Executing(r, h),
                      NEW i \in worker[r][h].todo \ worker[r][h].crossed
               PROVE  contents[At(r, h)][i] = worker[r][h].seen[i]
    BY DEF ReviewedHolds
  <2>1. Is(r, h, "execute") /\ AsPlanned(r, h) /\ worker[r][h] \in Tasks
    BY DEF Executing, RunsInv, WorkInv, TypeOK
  <2>2. i \in Items
    BY <2>1 DEF Tasks
  <2> QED  BY <2>1, <2>2, OwnMachine DEF AsPlanned, Planned, Is
<1> QED  BY <1>1, Typing, PTL

\* A host that is counted as completed has all that was asked for it, until its
\* lease is given back, but for what such a script wrote over (engine.go:271-273).
THEOREM Completed == ASSUME Steady, ~ Debug PROVE Spec => []CompletedIsApplied
<1>1. RunsInv => CompletedIsApplied
  <2> SUFFICES ASSUME RunsInv, NEW r \in Runs, NEW h \in Hosts, Is(r, h, "completed"),
                      NEW i \in Items \ worker[r][h].crossed
               PROVE  contents[At(r, h)][i] = worker[r][h].want
    BY DEF CompletedIsApplied
  <2>1. AsPlanned(r, h) /\ Backed(r, h)
    BY DEF RunsInv, WorkInv
  <2> QED  BY <2>1 DEF AsPlanned, Backed, Ongoing, Planned, Is
<1> QED  BY <1>1, Typing, PTL
=============================================================================
