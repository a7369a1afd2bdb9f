------------------------- MODULE LeaseScripts_proofs -------------------------
(***************************************************************************)
(* Proofs about the lock scripts command by command, for any number of     *)
(* runs, any TTL and any clock bound: debris at the lock path shuts others *)
(* out for one TTL at most; and until a rename moves a directory that its  *)
(* script has not read, one run holds the lock, and the directory changes  *)
(* only as LeaseCell allows, however many runs contend.                    *)
(***************************************************************************)
EXTENDS LeaseScripts, TLAPS

-----------------------------------------------------------------------------
(* The inductive invariant.                                                *)

AcquireSteps == {"mkdir", "owner", "expires", "chmod", "cat", "stat", "compare",
                 "mv", "mkdir again"}
RenewSteps   == {"renew: owner", "renew: expiry", "renew: tmp", "renew: mv"}
ReleaseSteps == {"release: owner", "release: expiry", "release: rm", "release: rmdir"}
Steps        == {"none"} \cup AcquireSteps \cup RenewSteps \cup ReleaseSteps

Directories ==
  [maker : Clients, claim : Nat, owner : Clients \cup {Nobody}, expires_at : Nat,
   tmp : SUBSET Clients, mtime : Nat]

\* A script has the time at which it was sent, and ends in that second.
Running(p) ==
  [pc : IF p[2] = "main" THEN AcquireSteps \cup RenewSteps ELSE ReleaseSteps, at : {now}, seen : Nat]

TypeOK ==
  /\ now \in Nat
  /\ lock \in Directories \cup {Missing}
  /\ script \in [Procs -> [pc : Steps, at : Nat, seen : Nat]]
  /\ \A p \in Procs : script[p] \in Running(p) \cup {Idle}
  /\ stage \in [Clients -> {"seek", "hold", "quit", "over"}]
  /\ told \in [Clients -> Nat]
  /\ judges \subseteq Clients /\ swapped \in BOOLEAN

\* What a directory says: at least what was granted, at most one TTL from now.
DirectoryInv ==
  Exists => /\ lock.claim =< Effective /\ Effective =< now + TTL
            /\ lock.expires_at = 0 \/ lock.expires_at >= TTL

Main(c)    == script[<<c, "main">>].pc
Cleanup(c) == script[<<c, "cleanup">>].pc

\* A run seeks the lock once, and releases it once, when its work is over.
StageInv(c) ==
  /\ Cleanup(c) # "none" => stage[c] = "over"
  /\ Main(c) \in AcquireSteps => stage[c] \in {"seek", "over"} /\ Cleanup(c) = "none"

\* The directory is a run's own, with a lease that has not run out.
Secure(c) ==
  /\ Exists /\ lock.maker = c /\ lock.owner = c
  /\ lock.expires_at = lock.claim /\ lock.claim > now

\* Made or removed in part in this very second.
Fresh == Exists /\ lock.mtime = now /\ lock.expires_at \in {0, now + TTL}

Stale == Exists /\ Effective =< now

\* An acquire script that made the directory still has it.
MakingInv(c) ==
  Main(c) \in {"owner", "expires", "chmod"} =>
    /\ Fresh /\ lock.maker = c /\ lock.claim = now + TTL
    /\ Main(c) # "owner" => lock.owner = c
    /\ Main(c) = "chmod" => lock.expires_at = now + TTL

\* An acquire script that judged the directory that is there stale is right.
JudgingInv(c) ==
  /\ Main(c) = "stat" => ~ Exists \/ lock.mtime = now \/ lock.expires_at = 0
  /\ c \in judges /\ Main(c) = "compare" /\ script[<<c, "main">>].seen =< now => Stale
  /\ c \in judges /\ Main(c) = "mv" => Stale

\* A renewal past its checks writes into no stale directory, whosever it is by now.
RenewingInv(c) == Main(c) \in {"renew: tmp", "renew: mv"} => ~ Stale

HoldingInv(c) ==
  stage[c] \in {"hold", "quit"} /\ told[c] > now => Secure(c) /\ told[c] =< lock.claim

\* A renewal that the run waits for was sent before the lease ran out.
PromptInv(c) == stage[c] = "hold" /\ Main(c) \in RenewSteps => told[c] > now

\* A release removes the directory of its own run.
EndingInv(c) ==
  /\ Cleanup(c) \in {"release: owner", "release: expiry", "release: rm"} => Secure(c)
  /\ Cleanup(c) = "release: rmdir" => Fresh /\ lock.maker = c

ClientInv(c) ==
  /\ StageInv(c) /\ MakingInv(c) /\ JudgingInv(c) /\ RenewingInv(c)
  /\ HoldingInv(c) /\ PromptInv(c) /\ EndingInv(c)

ScriptsInv == TypeOK /\ DirectoryInv /\ \A c \in Clients : ClientInv(c)

-----------------------------------------------------------------------------
(* Scripts, directories and types.                                         *)

\* A process is the script of a run in one of two slots.
LEMMA Processes ==
  ASSUME NEW p \in Procs
  PROVE  /\ Run(p) \in Clients /\ p = <<Run(p), p[2]>> /\ p[2] \in {"main", "cleanup"}
         /\ <<Run(p), "main">> \in Procs /\ <<Run(p), "cleanup">> \in Procs
BY DEF Procs, Slots, Run

\* A script that goes on is the same script.
LEMMA GotoStep ==
  ASSUME TypeOK, NEW p \in Procs, NEW step, script[p] # Idle, Goto(p, step)
  PROVE  script' = [script EXCEPT ![p] = [pc |-> step, at |-> now, seen |-> script[p].seen]]
<1>1. script[p] = [pc |-> script[p].pc, at |-> now, seen |-> script[p].seen]
  BY DEF TypeOK, Running
<1>2. script' = [script EXCEPT ![p] = [script[p] EXCEPT !.pc = step]]
  BY DEF Goto
<1>3. [script[p] EXCEPT !.pc = step] = [pc |-> step, at |-> now, seen |-> script[p].seen]
  BY <1>1
<1> QED  BY <1>2, <1>3

LEMMA ScriptsType ==
  ASSUME TypeOK, NEW p \in Procs, NEW x \in Running(p) \cup {Idle},
         script' = [script EXCEPT ![p] = x], now' = now
  PROVE  /\ script' \in [Procs -> [pc : Steps, at : Nat, seen : Nat]]
         /\ \A q \in Procs : script'[q] \in Running(q)' \cup {Idle}
<1>1. x \in [pc : Steps, at : Nat, seen : Nat]
  BY DEF Running, TypeOK, Idle, Steps
<1>2. \A q \in Procs : Running(q)' = Running(q)
  BY DEF Running
<1> QED  BY <1>1, <1>2 DEF TypeOK

\* What is known of a script that runs.
LEMMA ScriptRuns ==
  ASSUME TypeOK, NEW p \in Procs, script[p].pc # "none"
  PROVE  /\ script[p] # Idle /\ script[p] \in Running(p)
         /\ script[p].at = now /\ script[p].seen \in Nat
         /\ Expires(p) = now + TTL /\ Expires(p) \in Nat /\ Expires(p) > now
         /\ NewDir(p) \in Directories
<1>1. script[p] \in Running(p) /\ script[p] # Idle
  BY DEF TypeOK, Idle
<1>2. script[p].at = now /\ script[p].seen \in Nat
  BY <1>1 DEF Running
<1>3. Expires(p) = now + TTL /\ Expires(p) \in Nat /\ Expires(p) > now
  BY <1>2, ScriptsAssumption DEF Expires, TypeOK
<1>4. NewDir(p) \in Directories
  BY <1>3, Processes DEF NewDir, Directories, TypeOK
<1> QED  BY <1>1, <1>2, <1>3, <1>4

\* A script takes its next step, which its slot allows, or is over.
LEMMA GoesOn ==
  ASSUME TypeOK, NEW p \in Procs, script[p].pc # "none", now' = now, NEW step,
         \/ Goto(p, step) /\ step \in (IF p[2] = "main" THEN AcquireSteps \cup RenewSteps ELSE ReleaseSteps)
         \/ Exit(p)
  PROVE  /\ script' \in [Procs -> [pc : Steps, at : Nat, seen : Nat]]
         /\ \A q \in Procs : script'[q] \in Running(q)' \cup {Idle}
<1>1. CASE Exit(p)
  BY <1>1, ScriptsType DEF Exit
<1>2. CASE Goto(p, step) /\ step \in (IF p[2] = "main" THEN AcquireSteps \cup RenewSteps ELSE ReleaseSteps)
  <2>1. script' = [script EXCEPT ![p] = [pc |-> step, at |-> now, seen |-> script[p].seen]]
    BY <1>2, GotoStep, ScriptRuns
  <2>2. [pc |-> step, at |-> now, seen |-> script[p].seen] \in Running(p)
    BY <1>2, ScriptRuns DEF Running
  <2> QED  BY <2>1, <2>2, ScriptsType
<1> QED  BY <1>1, <1>2

LEMMA Disappointed ==
  ASSUME TypeOK, NEW c \in Clients, Disappoint(c) \/ UNCHANGED stage
  PROVE  stage' \in [Clients -> {"seek", "hold", "quit", "over"}]
BY DEF TypeOK, Disappoint, Enter

\* The slot of a script tells which steps it takes.
LEMMA Slotted ==
  ASSUME TypeOK, NEW p \in Procs
  PROVE  /\ script[p].pc \in AcquireSteps \cup RenewSteps => p[2] = "main"
         /\ script[p].pc \in ReleaseSteps => p[2] # "main"
<1>1. CASE script[p] = Idle
  BY <1>1 DEF Idle, AcquireSteps, RenewSteps, ReleaseSteps
<1>2. CASE script[p] \in Running(p)
  <2>1. script[p].pc \in (IF p[2] = "main" THEN AcquireSteps \cup RenewSteps ELSE ReleaseSteps)
    BY <1>2 DEF Running
  <2>2. ReleaseSteps \cap (AcquireSteps \cup RenewSteps) = {}
    BY DEF AcquireSteps, RenewSteps, ReleaseSteps
  <2> QED  BY <2>1, <2>2
<1> QED  BY <1>1, <1>2 DEF TypeOK

\* What the commands write is a directory again.
LEMMA DirectoryWritten ==
  ASSUME TypeOK, Exists
  PROVE  /\ lock \in Directories
         /\ \A c \in Clients, e \in Nat :
              /\ [lock EXCEPT !.owner = c, !.mtime = now] \in Directories
              /\ [lock EXCEPT !.expires_at = e, !.mtime = now] \in Directories
              /\ [lock EXCEPT !.tmp = @ \cup {c}, !.mtime = now] \in Directories
              /\ [lock EXCEPT !.tmp = @ \ {c}, !.expires_at = e, !.claim = e, !.mtime = now] \in Directories
         /\ [lock EXCEPT !.owner = Nobody, !.expires_at = 0, !.tmp = {}, !.mtime = now] \in Directories
BY DEF TypeOK, Exists, Directories

\* A command of the acquire script.
LEMMA AcquireType ==
  ASSUME TypeOK, NEW p \in Procs,
         \/ Mkdir(p) \/ WriteOwner(p) \/ WriteExpires(p) \/ Chmod(p)
         \/ CatExpiry(p) \/ Stat(p) \/ Compare(p) \/ MvStale(p) \/ MkdirAgain(p)
  PROVE  TypeOK'
<1>1. script[p].pc \in AcquireSteps /\ now' = now
  BY DEF Mkdir, WriteOwner, WriteExpires, Chmod, CatExpiry, Stat, Compare, MvStale, MkdirAgain, AcquireSteps
<1>2. script[p].pc # "none" /\ p[2] = "main" /\ Run(p) \in Clients
  BY <1>1, Slotted, Processes DEF AcquireSteps
<1> DEFINE ok(step) == (Goto(p, step) /\ step \in AcquireSteps) \/ Exit(p)
<1>3. ASSUME NEW step, ok(step)
      PROVE  /\ script' \in [Procs -> [pc : Steps, at : Nat, seen : Nat]]
             /\ \A q \in Procs : script'[q] \in Running(q)' \cup {Idle}
  BY <1>1, <1>2, <1>3, GoesOn
<1>4. ASSUME NEW m \in Nat, script' = [script EXCEPT ![p].pc = "compare", ![p].seen = m]
      PROVE  /\ script' \in [Procs -> [pc : Steps, at : Nat, seen : Nat]]
             /\ \A q \in Procs : script'[q] \in Running(q)' \cup {Idle}
  <2>1. script[p] = [pc |-> script[p].pc, at |-> now, seen |-> script[p].seen]
    BY <1>2, ScriptRuns DEF Running
  <2>2. script' = [script EXCEPT ![p] = [pc |-> "compare", at |-> now, seen |-> m]]
    <3> DEFINE s == [script EXCEPT ![p].pc = "compare"]
    <3>1. s \in [Procs -> [pc : Steps, at : Nat, seen : Nat]] /\ script' = [s EXCEPT ![p].seen = m]
      BY <1>4 DEF TypeOK, Steps, AcquireSteps
    <3>2. s[p] = [pc |-> "compare", at |-> now, seen |-> script[p].seen]
      BY <2>1 DEF TypeOK
    <3>3. [s[p] EXCEPT !.seen = m] = [pc |-> "compare", at |-> now, seen |-> m]
      BY <3>2
    <3>4. \A x : [s EXCEPT ![p] = x] = [script EXCEPT ![p] = x]
      BY DEF TypeOK
    <3> QED  BY <3>1, <3>3, <3>4
  <2>3. [pc |-> "compare", at |-> now, seen |-> m] \in Running(p)
    BY <1>2 DEF Running, AcquireSteps, TypeOK
  <2> QED  BY <1>1, <2>2, <2>3, ScriptsType
<1>5. /\ script' \in [Procs -> [pc : Steps, at : Nat, seen : Nat]]
      /\ \A q \in Procs : script'[q] \in Running(q)' \cup {Idle}
  <2>1. CASE CatExpiry(p) \/ Stat(p)
    <3>1. lock.expires_at \in Nat \/ ~ Exists
      BY DEF TypeOK, Exists, Directories
    <3>2. Created(p) + TTL \in Nat
      BY <1>2, ScriptRuns, ScriptsAssumption DEF Created, TypeOK, Exists, Directories
    <3> QED  BY <1>3, <1>4, <2>1, <3>1, <3>2 DEF CatExpiry, Stat, AcquireSteps
  <2>2. CASE ~ (CatExpiry(p) \/ Stat(p))
    BY <1>3, <2>2 DEF Mkdir, WriteOwner, WriteExpires, Chmod, Compare, MvStale, MkdirAgain, Fails, AcquireSteps
  <2> QED  BY <2>1, <2>2
<1>6. lock' \in Directories \cup {Missing}
  <2>1. \/ lock' = lock \/ lock' = Missing \/ lock' = NewDir(p)
        \/ Exists /\ lock' = [lock EXCEPT !.owner = Run(p), !.mtime = now]
        \/ Exists /\ lock' = [lock EXCEPT !.expires_at = Expires(p), !.mtime = now]
    BY DEF Mkdir, WriteOwner, WriteExpires, Chmod, CatExpiry, Stat, Compare, MvStale, MkdirAgain, Fails
  <2>2. NewDir(p) \in Directories /\ lock \in Directories \cup {Missing}
    BY <1>2, ScriptRuns DEF TypeOK
  <2>3. CASE Exists /\ lock' = [lock EXCEPT !.owner = Run(p), !.mtime = now]
    BY <1>2, <2>3, DirectoryWritten, ScriptRuns
  <2>4. CASE Exists /\ lock' = [lock EXCEPT !.expires_at = Expires(p), !.mtime = now]
    BY <1>2, <2>4, DirectoryWritten, ScriptRuns
  <2> QED  BY <2>1, <2>2, <2>3, <2>4
<1>7. stage' = stage \/ Disappoint(Run(p)) \/ Enter(Run(p), "hold")
  BY DEF Mkdir, WriteOwner, WriteExpires, Chmod, CatExpiry, Stat, Compare, MvStale, MkdirAgain, Fails
<1>8. told' = told \/ told' = [told EXCEPT ![Run(p)] = Expires(p)]
  BY DEF Mkdir, WriteOwner, WriteExpires, Chmod, CatExpiry, Stat, Compare, MvStale, MkdirAgain
<1>9. /\ stage' \in [Clients -> {"seek", "hold", "quit", "over"}]
      /\ told' \in [Clients -> Nat]
  BY <1>2, <1>7, <1>8, ScriptRuns, Disappointed DEF TypeOK, Enter
<1>10. judges' \subseteq Clients /\ swapped' \in BOOLEAN
  <2>1. judges \subseteq Clients /\ swapped \in BOOLEAN /\ Run(p) \in Clients
    BY <1>2 DEF TypeOK
  <2> QED  BY <2>1 DEF Mkdir, WriteOwner, WriteExpires, Chmod, CatExpiry, Stat, Compare, MvStale, MkdirAgain,
                       Judges, history
<1> QED  BY <1>1, <1>5, <1>6, <1>9, <1>10 DEF TypeOK

\* A command of the renew script.
LEMMA RenewType ==
  ASSUME TypeOK, NEW p \in Procs, RenewOwner(p) \/ RenewExpiry(p) \/ RenewTmp(p) \/ RenewMv(p)
  PROVE  TypeOK'
<1>1. script[p].pc \in RenewSteps /\ now' = now
  BY DEF RenewOwner, RenewExpiry, RenewTmp, RenewMv, RenewSteps
<1>2. script[p].pc # "none" /\ p[2] = "main" /\ Run(p) \in Clients
  BY <1>1, Slotted, Processes DEF RenewSteps
<1>3. ASSUME NEW step, (Goto(p, step) /\ step \in RenewSteps) \/ Exit(p)
      PROVE  /\ script' \in [Procs -> [pc : Steps, at : Nat, seen : Nat]]
             /\ \A q \in Procs : script'[q] \in Running(q)' \cup {Idle}
  BY <1>1, <1>2, <1>3, GoesOn
<1>4. /\ script' \in [Procs -> [pc : Steps, at : Nat, seen : Nat]]
      /\ \A q \in Procs : script'[q] \in Running(q)' \cup {Idle}
  BY <1>3 DEF RenewOwner, RenewExpiry, RenewTmp, RenewMv, Fails, Lost, RenewSteps
<1>5. lock' \in Directories \cup {Missing}
  <2>1. CASE lock' = lock
    BY <2>1 DEF TypeOK
  <2>2. CASE Exists /\ lock' = [lock EXCEPT !.tmp = @ \cup {Run(p)}, !.mtime = now]
    BY <1>2, <2>2, DirectoryWritten, ScriptRuns
  <2>3. CASE Exists /\ lock' = [lock EXCEPT !.tmp = @ \ {Run(p)}, !.expires_at = Expires(p),
                                          !.claim = Expires(p), !.mtime = now]
    BY <1>2, <2>3, DirectoryWritten, ScriptRuns
  <2> QED  BY <2>1, <2>2, <2>3 DEF RenewOwner, RenewExpiry, RenewTmp, RenewMv, Fails
<1>6. stage' = stage \/ Disappoint(Run(p))
  BY DEF RenewOwner, RenewExpiry, RenewTmp, RenewMv, Fails, Lost
<1>7. told' = told \/ told' = [told EXCEPT ![Run(p)] = Expires(p)]
  BY DEF RenewOwner, RenewExpiry, RenewTmp, RenewMv
<1>8. /\ stage' \in [Clients -> {"seek", "hold", "quit", "over"}]
      /\ told' \in [Clients -> Nat]
  BY <1>2, <1>6, <1>7, ScriptRuns, Disappointed DEF TypeOK
<1>9. history' = history
  BY DEF RenewOwner, RenewExpiry, RenewTmp, RenewMv
<1> QED  BY <1>1, <1>4, <1>5, <1>8, <1>9 DEF TypeOK, history

\* A command of the release script.
LEMMA ReleaseType ==
  ASSUME TypeOK, NEW p \in Procs, ReleaseOwner(p) \/ ReleaseExpiry(p) \/ ReleaseRm(p) \/ ReleaseRmdir(p)
  PROVE  TypeOK'
<1>1. script[p].pc \in ReleaseSteps /\ UNCHANGED <<now, stage, told>>
  BY DEF ReleaseOwner, ReleaseExpiry, ReleaseRm, ReleaseRmdir, ReleaseSteps
<1>2. script[p].pc # "none" /\ p[2] # "main"
  BY <1>1, Slotted DEF ReleaseSteps
<1>3. ASSUME NEW step, (Goto(p, step) /\ step \in ReleaseSteps) \/ Exit(p)
      PROVE  /\ script' \in [Procs -> [pc : Steps, at : Nat, seen : Nat]]
             /\ \A q \in Procs : script'[q] \in Running(q)' \cup {Idle}
  BY <1>1, <1>2, <1>3, GoesOn
<1>4. /\ script' \in [Procs -> [pc : Steps, at : Nat, seen : Nat]]
      /\ \A q \in Procs : script'[q] \in Running(q)' \cup {Idle}
  BY <1>3 DEF ReleaseOwner, ReleaseExpiry, ReleaseRm, ReleaseRmdir, ReleaseSteps
<1>5. lock' \in Directories \cup {Missing}
  BY DirectoryWritten DEF TypeOK, ReleaseOwner, ReleaseExpiry, ReleaseRm, ReleaseRmdir
<1>6. swapped' = swapped /\ (judges' = judges \/ judges' = {})
  BY DEF ReleaseOwner, ReleaseExpiry, ReleaseRm, ReleaseRmdir, history
<1> QED  BY <1>1, <1>4, <1>5, <1>6 DEF TypeOK

\* A script is sent, or breaks, or its connection does.
LEMMA SendType ==
  ASSUME TypeOK, NEW c \in Clients, SendAcquire(c) \/ SendRenew(c) \/ SendRelease(c)
  PROVE  TypeOK'
<1>1. PICK slot \in Slots, step \in Steps :
        /\ Send(c, slot, step) /\ (stage' = stage \/ Enter(c, "over"))
        /\ step \in (IF slot = "main" THEN AcquireSteps \cup RenewSteps ELSE ReleaseSteps)
  BY DEF SendAcquire, SendRenew, SendRelease, Steps, Slots, AcquireSteps, RenewSteps, ReleaseSteps
<1>2. <<c, slot>> \in Procs /\ UNCHANGED <<now, lock, told, judges, swapped>>
  BY <1>1 DEF Procs, Send, history
<1>3. [pc |-> step, at |-> now, seen |-> 0] \in Running(<<c, slot>>)
  BY <1>1 DEF Running
<1>4. /\ script' \in [Procs -> [pc : Steps, at : Nat, seen : Nat]]
      /\ \A q \in Procs : script'[q] \in Running(q)' \cup {Idle}
  BY <1>1, <1>2, <1>3, ScriptsType DEF Send
<1> QED  BY <1>1, <1>2, <1>4 DEF TypeOK, Enter

LEMMA BrokenType ==
  ASSUME TypeOK, NEW p \in Procs, Broken(p)
  PROVE  TypeOK'
<1>1. UNCHANGED <<now, lock, told, judges, swapped>>
  BY DEF Broken, history
<1>2. /\ script' \in [Procs -> [pc : Steps, at : Nat, seen : Nat]]
      /\ \A q \in Procs : script'[q] \in Running(q)' \cup {Idle}
  BY <1>1, ScriptsType DEF Broken, Exit, TypeOK, Running
<1>3. stage' \in [Clients -> {"seek", "hold", "quit", "over"}]
  BY Processes, Disappointed DEF Broken
<1> QED  BY <1>1, <1>2, <1>3 DEF TypeOK

LEMMA TypeInductive == TypeOK /\ [Next]_vars => TypeOK'
<1> SUFFICES ASSUME TypeOK, [Next]_vars PROVE TypeOK'
  OBVIOUS
<1>1. CASE Tick
  BY <1>1 DEF Tick, TypeOK, history
<1>2. ASSUME NEW c \in Clients, SendAcquire(c) \/ SendRenew(c) \/ SendRelease(c) PROVE TypeOK'
  BY <1>2, SendType
<1>3. ASSUME NEW p \in Procs, Command(p) PROVE TypeOK'
  BY <1>3, AcquireType, RenewType, ReleaseType DEF Command
<1>4. ASSUME NEW p \in Procs, Broken(p) PROVE TypeOK'
  BY <1>4, BrokenType
<1>5. CASE UNCHANGED vars
  BY <1>5 DEF vars, TypeOK, Running, history
<1> QED  BY <1>1, <1>2, <1>3, <1>4, <1>5 DEF Next

LEMMA TypeInitial == Init => TypeOK
<1> SUFFICES ASSUME Init PROVE TypeOK
  OBVIOUS
<1>1. Idle \in [pc : Steps, at : Nat, seen : Nat] /\ script = [p \in Procs |-> Idle]
  BY DEF Init, Idle, Steps
<1> QED  BY <1>1 DEF Init, TypeOK

-----------------------------------------------------------------------------
(* What a step does to the directory.                                      *)

Step(p) == script[p].pc

\* The commands that write, by what they leave as it was and what they do not.
Made(p) ==
  /\ Step(p) \in {"mkdir", "mkdir again"}
  /\ ~ Exists /\ Exists'
  /\ lock'.maker = Run(p) /\ lock'.claim = now + TTL /\ lock'.owner = Nobody
  /\ lock'.expires_at = 0 /\ lock'.mtime = now

OwnerWritten(p) ==
  /\ Step(p) = "owner"
  /\ lock'.owner = Run(p) /\ lock'.mtime = now
  /\ lock'.claim = lock.claim /\ lock'.expires_at = lock.expires_at

ExpiryWritten(p) ==
  /\ Step(p) = "expires"
  /\ lock'.expires_at = now + TTL /\ lock'.mtime = now
  /\ lock'.claim = lock.claim /\ lock'.owner = lock.owner

TmpWritten(p) ==
  /\ Step(p) = "renew: tmp"
  /\ lock'.mtime = now
  /\ lock'.claim = lock.claim /\ lock'.owner = lock.owner /\ lock'.expires_at = lock.expires_at

Renewal(p) ==
  /\ Step(p) = "renew: mv"
  /\ lock'.expires_at = now + TTL /\ lock'.claim = now + TTL /\ lock'.mtime = now
  /\ lock'.owner = lock.owner

Emptied(p) ==
  /\ Step(p) = "release: rm"
  /\ lock'.expires_at = 0 /\ lock'.mtime = now /\ lock'.owner = Nobody
  /\ lock'.claim = lock.claim

Rewritten(p) ==
  /\ Exists /\ Exists' /\ lock'.maker = lock.maker
  /\ OwnerWritten(p) \/ ExpiryWritten(p) \/ TmpWritten(p) \/ Renewal(p) \/ Emptied(p)

Removed(p) ==
  /\ Step(p) \in {"mv", "release: rmdir"}
  /\ Exists /\ lock' = Missing /\ judges' = {}
  /\ Step(p) = "mv" /\ ~ swapped' => Run(p) \in judges

\* What a directory is that exists.
LEMMA DirectoryType ==
  ASSUME TypeOK, Exists
  PROVE  /\ lock.maker \in Clients /\ lock.claim \in Nat /\ lock.owner \in Clients \cup {Nobody}
         /\ lock.expires_at \in Nat /\ lock.mtime \in Nat
         /\ Effective \in Nat /\ now \in Nat /\ TTL \in Nat \ {0}
BY ScriptsAssumption DEF TypeOK, Exists, Directories, Effective

LEMMA DirectoryExists ==
  ASSUME NEW d \in Directories
  PROVE  d # Missing
BY ScriptsAssumption DEF Directories, Missing

\* The commands that write.
LEMMA Writes ==
  ASSUME TypeOK, NEW p \in Procs, Step(p) # "none"
  PROVE  /\ ~ Exists /\ lock' = NewDir(p) /\ Step(p) \in {"mkdir", "mkdir again"} => Made(p)
         /\ Exists /\ lock' = [lock EXCEPT !.owner = Run(p), !.mtime = now] /\ Step(p) = "owner"
              => Rewritten(p) /\ OwnerWritten(p)
         /\ Exists /\ lock' = [lock EXCEPT !.expires_at = Expires(p), !.mtime = now] /\ Step(p) = "expires"
              => Rewritten(p) /\ ExpiryWritten(p)
         /\ Exists /\ lock' = [lock EXCEPT !.tmp = @ \cup {Run(p)}, !.mtime = now] /\ Step(p) = "renew: tmp"
              => Rewritten(p) /\ TmpWritten(p)
         /\ Exists /\ lock' = [lock EXCEPT !.tmp = @ \ {Run(p)}, !.expires_at = Expires(p), !.claim = Expires(p),
                                           !.mtime = now] /\ Step(p) = "renew: mv"
              => Rewritten(p) /\ Renewal(p)
         /\ Exists /\ lock' = [lock EXCEPT !.owner = Nobody, !.expires_at = 0, !.tmp = {}, !.mtime = now]
              /\ Step(p) = "release: rm" => Rewritten(p) /\ Emptied(p)
<1>1. /\ Expires(p) = now + TTL /\ Expires(p) \in Nat /\ NewDir(p) # Missing /\ Run(p) \in Clients
  BY ScriptRuns, DirectoryExists, Processes DEF Step
<1>2. /\ NewDir(p).maker = Run(p) /\ NewDir(p).claim = Expires(p) /\ NewDir(p).owner = Nobody
      /\ NewDir(p).expires_at = 0 /\ NewDir(p).mtime = now
  BY DEF NewDir
<1>3. ~ Exists /\ lock' = NewDir(p) /\ Step(p) \in {"mkdir", "mkdir again"} => Made(p)
  BY <1>1, <1>2 DEF Made, Exists
<1> SUFFICES ASSUME Exists
             PROVE  /\ lock' = [lock EXCEPT !.owner = Run(p), !.mtime = now] /\ Step(p) = "owner"
                         => Rewritten(p) /\ OwnerWritten(p)
                    /\ lock' = [lock EXCEPT !.expires_at = Expires(p), !.mtime = now] /\ Step(p) = "expires"
                         => Rewritten(p) /\ ExpiryWritten(p)
                    /\ lock' = [lock EXCEPT !.tmp = @ \cup {Run(p)}, !.mtime = now] /\ Step(p) = "renew: tmp"
                         => Rewritten(p) /\ TmpWritten(p)
                    /\ lock' = [lock EXCEPT !.tmp = @ \ {Run(p)}, !.expires_at = Expires(p), !.claim = Expires(p),
                                           !.mtime = now] /\ Step(p) = "renew: mv"
                         => Rewritten(p) /\ Renewal(p)
                    /\ lock' = [lock EXCEPT !.owner = Nobody, !.expires_at = 0, !.tmp = {}, !.mtime = now]
                         /\ Step(p) = "release: rm" => Rewritten(p) /\ Emptied(p)
  BY <1>3
<1>4. lock \in Directories
  BY DEF TypeOK, Exists
<1>5. /\ [lock EXCEPT !.owner = Run(p), !.mtime = now] # Missing
      /\ [lock EXCEPT !.expires_at = Expires(p), !.mtime = now] # Missing
      /\ [lock EXCEPT !.tmp = @ \cup {Run(p)}, !.mtime = now] # Missing
      /\ [lock EXCEPT !.tmp = @ \ {Run(p)}, !.expires_at = Expires(p), !.claim = Expires(p), !.mtime = now] # Missing
      /\ [lock EXCEPT !.owner = Nobody, !.expires_at = 0, !.tmp = {}, !.mtime = now] # Missing
  BY <1>1, DirectoryWritten, DirectoryExists
<1>6. CASE lock' = [lock EXCEPT !.owner = Run(p), !.mtime = now] /\ Step(p) = "owner"
  BY <1>4, <1>5, <1>6 DEF Rewritten, OwnerWritten, Exists, Directories
<1>7. CASE lock' = [lock EXCEPT !.expires_at = Expires(p), !.mtime = now] /\ Step(p) = "expires"
  BY <1>1, <1>4, <1>5, <1>7 DEF Rewritten, ExpiryWritten, Exists, Directories
<1>8. CASE lock' = [lock EXCEPT !.tmp = @ \cup {Run(p)}, !.mtime = now] /\ Step(p) = "renew: tmp"
  BY <1>4, <1>5, <1>8 DEF Rewritten, TmpWritten, Exists, Directories
<1>9. CASE lock' = [lock EXCEPT !.tmp = @ \ {Run(p)}, !.expires_at = Expires(p), !.claim = Expires(p), !.mtime = now]
             /\ Step(p) = "renew: mv"
  BY <1>1, <1>4, <1>5, <1>9 DEF Rewritten, Renewal, Exists, Directories
<1>10. CASE lock' = [lock EXCEPT !.owner = Nobody, !.expires_at = 0, !.tmp = {}, !.mtime = now]
              /\ Step(p) = "release: rm"
  BY <1>4, <1>5, <1>10 DEF Rewritten, Emptied, Exists, Directories
<1> QED  BY <1>6, <1>7, <1>8, <1>9, <1>10

\* A step from one command of a script to the next.
LEMMA Moves ==
  ASSUME TypeOK, NEW p \in Procs, Step(p) # "none"
  PROVE  /\ Exit(p) => script'[p] = Idle
         /\ \A step : Goto(p, step) => script'[p].pc = step /\ script'[p].seen = script[p].seen
         /\ \A m : script' = [script EXCEPT ![p].pc = "compare", ![p].seen = m]
              => script'[p].pc = "compare" /\ script'[p].seen = m
<1>1. script[p] \in [pc : Steps, at : Nat, seen : Nat]
  BY DEF TypeOK
<1> QED  BY <1>1 DEF TypeOK, Exit, Goto

\* Where the commands of the acquire script lead.
Acquisition(p) ==
  \/ Step(p)' = "owner" /\ Made(p)
  \/ Step(p) = "owner" /\ Step(p)' = "expires" /\ Rewritten(p) /\ OwnerWritten(p)
  \/ Step(p) = "expires" /\ Step(p)' = "chmod" /\ Rewritten(p) /\ ExpiryWritten(p)
  \/ Step(p) = "mkdir" /\ Step(p)' = "cat" /\ lock' = lock
  \/ Step(p) = "cat" /\ Step(p)' = "stat" /\ lock' = lock /\ (~ Exists \/ lock.expires_at = 0)
  \/ Step(p) = "cat" /\ Step(p)' = "compare" /\ lock' = lock /\ Exists /\ lock.expires_at # 0
       /\ script'[p].seen = lock.expires_at
  \/ Step(p) = "stat" /\ Step(p)' = "compare" /\ lock' = lock /\ script'[p].seen = Created(p) + TTL
  \/ Step(p) = "compare" /\ Step(p)' = "mv" /\ lock' = lock /\ judges' = judges /\ script[p].seen =< now
  \/ Step(p) = "mv" /\ Step(p)' = "mkdir again" /\ Removed(p)

Renewing(p) ==
  \/ Step(p) = "renew: owner" /\ Step(p)' = "renew: expiry" /\ lock' = lock
  \/ Step(p) = "renew: expiry" /\ Step(p)' = "renew: tmp" /\ lock' = lock /\ Exists /\ lock.expires_at > now
  \/ Step(p) = "renew: tmp" /\ Step(p)' = "renew: mv" /\ Rewritten(p) /\ TmpWritten(p)

Releasing(p) ==
  \/ Step(p) = "release: owner" /\ Step(p)' = "release: expiry" /\ lock' = lock
  \/ Step(p) = "release: expiry" /\ Step(p)' = "release: rm" /\ lock' = lock
  \/ Step(p) = "release: rm" /\ Step(p)' = "release: rmdir" /\ Rewritten(p) /\ Emptied(p)

\* The last command of a renewal or of a release that comes to its end.
Ending(p) ==
  /\ script'[p] = Idle
  /\ \/ lock' = lock
     \/ Rewritten(p) /\ Renewal(p)
     \/ Removed(p) /\ Step(p) = "release: rmdir"

\* Every command leads on, or ends its script.
LEMMA Commands ==
  ASSUME TypeOK, NEW p \in Procs, Command(p)
  PROVE  /\ now' = now /\ Step(p) # "none"
         /\ Acquisition(p) \/ Renewing(p) \/ Releasing(p) \/ Ending(p)
<1>1. now' = now /\ Step(p) # "none"
  BY DEF Command, Mkdir, WriteOwner, WriteExpires, Chmod, CatExpiry, Stat, Compare, MvStale, MkdirAgain, Step,
         RenewOwner, RenewExpiry, RenewTmp, RenewMv, ReleaseOwner, ReleaseExpiry, ReleaseRm, ReleaseRmdir
<1>2. script[p].at = now
  BY <1>1, ScriptRuns DEF Step
<1>3. CASE Mkdir(p) \/ MkdirAgain(p)
  BY <1>1, <1>3, Moves, Writes DEF Mkdir, MkdirAgain, Step, Acquisition, Ending
<1>4. CASE WriteOwner(p)
  BY <1>1, <1>4, Moves, Writes DEF WriteOwner, Fails, Step, Acquisition, Ending
<1>5. CASE WriteExpires(p)
  BY <1>1, <1>5, Moves, Writes DEF WriteExpires, Fails, Step, Acquisition, Ending
<1>6. CASE Chmod(p)
  BY <1>1, <1>6, Moves DEF Chmod, Ending
<1>7. CASE CatExpiry(p)
  BY <1>1, <1>7, Moves DEF CatExpiry, Step, Acquisition
<1>8. CASE Stat(p)
  BY <1>1, <1>8, Moves DEF Stat, Step, Acquisition
<1>9. CASE Compare(p)
  BY <1>1, <1>2, <1>9, Moves DEF Compare, Step, Acquisition, Ending, history
<1>10. CASE MvStale(p)
  <2>1. CASE Exists
    <3>1. Removed(p)
      BY <1>10, <2>1 DEF MvStale, Step, Removed
    <3> QED  BY <1>1, <1>10, <2>1, <3>1, Moves DEF MvStale, Step, Acquisition
  <2>2. CASE ~ Exists
    BY <1>1, <1>10, <2>2, Moves DEF MvStale, Ending
  <2> QED  BY <2>1, <2>2
<1>11. CASE RenewOwner(p) \/ RenewExpiry(p)
  BY <1>1, <1>2, <1>11, Moves DEF RenewOwner, RenewExpiry, Lost, LiveAt, Step, Renewing, Ending
<1>12. CASE RenewTmp(p)
  BY <1>1, <1>12, Moves, Writes DEF RenewTmp, Fails, Step, Renewing, Ending
<1>13. CASE RenewMv(p)
  BY <1>1, <1>13, Moves, Writes DEF RenewMv, Step, Ending
<1>14. CASE ReleaseOwner(p) \/ ReleaseExpiry(p)
  BY <1>1, <1>14, Moves DEF ReleaseOwner, ReleaseExpiry, Step, Releasing, Ending
<1>15. CASE ReleaseRm(p)
  BY <1>1, <1>15, Moves, Writes DEF ReleaseRm, Step, Releasing, Ending
<1>16. CASE ReleaseRmdir(p)
  BY <1>1, <1>16, Moves DEF ReleaseRmdir, Step, Ending, Removed
<1> QED  BY <1>1, <1>3, <1>4, <1>5, <1>6, <1>7, <1>8, <1>9, <1>10, <1>11, <1>12, <1>13, <1>14, <1>15, <1>16 DEF Command

\* Every command makes, rewrites or removes the directory, or leaves it alone.
LEMMA Changes ==
  ASSUME TypeOK, NEW p \in Procs, Command(p)
  PROVE  /\ now' = now
         /\ lock' = lock \/ Made(p) \/ Rewritten(p) \/ Removed(p)
BY Commands DEF Acquisition, Renewing, Releasing, Ending

\* Whatever writes a directory, no more than one TTL is granted, and none
\* becomes stale.
LEMMA DirectoryStep ==
  ASSUME TypeOK, TypeOK', DirectoryInv, NEW p \in Procs, now' = now,
         lock' = lock \/ Made(p) \/ Rewritten(p) \/ Removed(p)
  PROVE  /\ DirectoryInv'
         /\ (Exists' /\ lock' # lock) => lock'.mtime = now
         /\ Stale' => Stale
<1>1. CASE lock' = lock
  BY <1>1 DEF DirectoryInv, Exists, Effective, Stale
<1>2. CASE Made(p)
  <2>1. Effective' = now + TTL /\ now \in Nat /\ TTL \in Nat \ {0}
    BY <1>2, ScriptsAssumption DEF Made, Effective, TypeOK
  <2>2. lock'.claim = now + TTL /\ lock'.expires_at = 0 /\ lock'.mtime = now
    BY <1>2 DEF Made
  <2>3. (~ Stale)' /\ DirectoryInv'
    BY <2>1, <2>2 DEF Stale, DirectoryInv
  <2> QED  BY <2>2, <2>3
<1>3. CASE Rewritten(p)
  <2>1. lock.claim =< Effective /\ Effective =< now + TTL /\ (lock.expires_at = 0 \/ lock.expires_at >= TTL)
    BY <1>3 DEF Rewritten, DirectoryInv
  <2>2. /\ lock.claim \in Nat /\ lock.expires_at \in Nat /\ lock.mtime \in Nat
        /\ now \in Nat /\ TTL \in Nat \ {0}
    BY <1>3, DirectoryType DEF Rewritten
  <2>3. lock'.mtime = now
    BY <1>3 DEF Rewritten, OwnerWritten, ExpiryWritten, TmpWritten, Renewal, Emptied
  <2>4. /\ lock'.claim = lock.claim \/ (lock'.claim = now + TTL /\ lock'.expires_at = now + TTL)
        /\ lock'.expires_at = lock.expires_at \/ lock'.expires_at = now + TTL \/ lock'.expires_at = 0
    BY <1>3 DEF Rewritten, OwnerWritten, ExpiryWritten, TmpWritten, Renewal, Emptied
  <2>5. DirectoryInv'
    BY <2>1, <2>2, <2>3, <2>4 DEF DirectoryInv, Effective
  <2>6. Stale' => Stale
    BY <1>3, <2>1, <2>2, <2>3, <2>4 DEF Stale, Effective, Rewritten
  <2> QED  BY <2>3, <2>5, <2>6
<1>4. CASE Removed(p)
  BY <1>4 DEF Removed, DirectoryInv, Exists, Stale
<1> QED  BY <1>1, <1>2, <1>3, <1>4

LEMMA DirectoryInductive == TypeOK /\ TypeOK' /\ DirectoryInv /\ [Next]_vars => DirectoryInv'
<1> SUFFICES ASSUME TypeOK, TypeOK', DirectoryInv, [Next]_vars PROVE DirectoryInv'
  OBVIOUS
<1>1. CASE Tick
  <2>1. lock' = lock /\ now' = now + 1 /\ now \in Nat /\ TTL \in Nat
    BY <1>1, ScriptsAssumption DEF Tick, TypeOK
  <2>2. Exists => Effective \in Nat
    BY DirectoryType
  <2> QED  BY <2>1, <2>2 DEF DirectoryInv, Exists, Effective
<1>2. ASSUME NEW c \in Clients, SendAcquire(c) \/ SendRenew(c) \/ SendRelease(c) PROVE DirectoryInv'
  BY <1>2 DEF SendAcquire, SendRenew, SendRelease, Send, DirectoryInv, Exists, Effective
<1>3. ASSUME NEW p \in Procs, Command(p) PROVE DirectoryInv'
  BY <1>3, Changes, DirectoryStep
<1>4. ASSUME NEW p \in Procs, Broken(p) PROVE DirectoryInv'
  BY <1>4 DEF Broken, DirectoryInv, Exists, Effective
<1>5. CASE UNCHANGED vars
  BY <1>5 DEF vars, DirectoryInv, Exists, Effective
<1> QED  BY <1>1, <1>2, <1>3, <1>4, <1>5 DEF Next

(* Every script works in a second of its own, on a lock path where there is *)
(* nothing or a lock directory (lock.go:258-331).                           *)
THEOREM Typing == Spec => []TypeOK
BY TypeInitial, TypeInductive, PTL DEF Spec

(* A script that fails or is killed shuts the other runs out for one TTL at *)
(* most, however many contend and whatever they leave behind: a directory   *)
(* without an expiry counts from its last change (lock.go:288).             *)
THEOREM DebrisBounded == Spec => []BoundedDebris
<1>1. Init => DirectoryInv
  BY DEF Init, DirectoryInv, Exists
<1>2. DirectoryInv => BoundedDebris
  BY DEF DirectoryInv, BoundedDebris
<1> QED  BY <1>1, <1>2, Typing, DirectoryInductive, PTL DEF Spec

-----------------------------------------------------------------------------
(* What a script does to the others.                                       *)

\* A step of a script is nobody else's, and leads from the acquire script into
\* the acquire script.
LEMMA OthersRest ==
  ASSUME TypeOK, NEW p \in Procs, Command(p) \/ Broken(p)
  PROVE  /\ \A q \in Procs : q # p => script'[q] = script[q]
         /\ Step(p)' \in AcquireSteps => Step(p) \in AcquireSteps
         /\ \A d \in Clients : d # Run(p) => stage'[d] = stage[d] /\ told'[d] = told[d]
         /\ now' = now
<1>1. ASSUME Exit(p) \/ \E step : Goto(p, step)
      PROVE  \A q \in Procs : q # p => script'[q] = script[q]
  BY <1>1 DEF Exit, Goto, TypeOK
<1>2. ASSUME NEW m, script' = [script EXCEPT ![p].pc = "compare", ![p].seen = m]
      PROVE  \A q \in Procs : q # p => script'[q] = script[q]
  BY <1>2 DEF TypeOK
<1>3. \A q \in Procs : q # p => script'[q] = script[q]
  BY <1>1, <1>2
  DEF Command, Broken, Mkdir, WriteOwner, WriteExpires, Chmod, CatExpiry, Stat, Compare, MvStale, MkdirAgain,
      RenewOwner, RenewExpiry, RenewTmp, RenewMv, ReleaseOwner, ReleaseExpiry, ReleaseRm, ReleaseRmdir, Fails, Lost
<1>4. ASSUME Step(p) \notin AcquireSteps PROVE Step(p)' \notin AcquireSteps
  <2>1. Exit(p) \/ script' = script \/ \E step \in RenewSteps \cup ReleaseSteps : Goto(p, step)
    BY <1>4
    DEF Command, Broken, Mkdir, WriteOwner, WriteExpires, Chmod, CatExpiry, Stat, Compare, MvStale, MkdirAgain,
        RenewOwner, RenewExpiry, RenewTmp, RenewMv, ReleaseOwner, ReleaseExpiry, ReleaseRm, ReleaseRmdir,
        Fails, Lost, Step, AcquireSteps, RenewSteps, ReleaseSteps
  <2>2. CASE Exit(p)
    BY <2>2 DEF Exit, Step, TypeOK, Idle, AcquireSteps
  <2>3. CASE script' = script
    BY <2>3, <1>4 DEF Step
  <2>4. CASE \E step \in RenewSteps \cup ReleaseSteps : Goto(p, step)
    <3>1. PICK step \in RenewSteps \cup ReleaseSteps : Goto(p, step)
      BY <2>4
    <3>2. script'[p].pc = step
      BY <3>1 DEF Goto, TypeOK
    <3> QED  BY <3>2 DEF Step, AcquireSteps, RenewSteps, ReleaseSteps
  <2> QED  BY <2>1, <2>2, <2>3, <2>4
<1>5. \A d \in Clients : d # Run(p) => stage'[d] = stage[d]
  <2>1. stage' = stage \/ Disappoint(Run(p)) \/ Enter(Run(p), "hold")
    BY DEF Command, Broken, Mkdir, WriteOwner, WriteExpires, Chmod, CatExpiry, Stat, Compare, MvStale, MkdirAgain,
           RenewOwner, RenewExpiry, RenewTmp, RenewMv, ReleaseOwner, ReleaseExpiry, ReleaseRm, ReleaseRmdir,
           Fails, Lost
  <2> QED  BY <2>1 DEF Disappoint, Enter, TypeOK
<1>6. \A d \in Clients : d # Run(p) => told'[d] = told[d]
  <2>1. told' = told \/ told' = [told EXCEPT ![Run(p)] = Expires(p)]
    BY DEF Command, Broken, Mkdir, WriteOwner, WriteExpires, Chmod, CatExpiry, Stat, Compare, MvStale, MkdirAgain,
           RenewOwner, RenewExpiry, RenewTmp, RenewMv, ReleaseOwner, ReleaseExpiry, ReleaseRm, ReleaseRmdir
  <2> QED  BY <2>1 DEF TypeOK
<1>7. now' = now
  BY Changes DEF Broken
<1> QED  BY <1>3, <1>4, <1>5, <1>6, <1>7

-----------------------------------------------------------------------------
(* What a write by one script means to the others.                         *)

\* Where a script is that changes the directory, and what the directory then is.
LEMMA Writers ==
  ASSUME ScriptsInv, NEW p \in Procs
  PROVE  /\ Step(p) \in {"owner", "expires"} =>
              p = <<Run(p), "main">> /\ Fresh /\ lock.maker = Run(p)
                /\ stage[Run(p)] \in {"seek", "over"} /\ Cleanup(Run(p)) = "none"
         /\ Step(p) \in {"renew: tmp", "renew: mv"} => p = <<Run(p), "main">> /\ ~ Stale
         /\ Step(p) = "mv" /\ Run(p) \in judges => p = <<Run(p), "main">> /\ Stale
         /\ Step(p) = "release: rm" =>
              p = <<Run(p), "cleanup">> /\ Secure(Run(p)) /\ stage[Run(p)] = "over" 
                /\ Main(Run(p)) \notin AcquireSteps
         /\ Step(p) = "release: rmdir" =>
              p = <<Run(p), "cleanup">> /\ Fresh /\ lock.maker = Run(p) /\ stage[Run(p)] = "over"
                /\ Main(Run(p)) \notin AcquireSteps
<1>1. Run(p) \in Clients /\ p = <<Run(p), p[2]>> /\ p[2] \in {"main", "cleanup"}
  BY Processes
<1>2. ClientInv(Run(p)) /\ TypeOK
  BY <1>1 DEF ScriptsInv
<1>3. /\ Step(p) \in AcquireSteps \cup RenewSteps => p = <<Run(p), "main">> /\ Step(p) = Main(Run(p))
      /\ Step(p) \in ReleaseSteps => p = <<Run(p), "cleanup">> /\ Step(p) = Cleanup(Run(p))
  BY <1>1, <1>2, Slotted DEF Step, Main, Cleanup
<1>4. CASE Step(p) \in {"owner", "expires"}
  BY <1>2, <1>3, <1>4 DEF ClientInv, StageInv, MakingInv, AcquireSteps
<1>5. CASE Step(p) \in {"renew: tmp", "renew: mv"}
  BY <1>2, <1>3, <1>5 DEF ClientInv, RenewingInv, RenewSteps
<1>6. CASE Step(p) = "mv"
  BY <1>2, <1>3, <1>6 DEF ClientInv, JudgingInv, AcquireSteps
<1>7. CASE Step(p) \in {"release: rm", "release: rmdir"}
  BY <1>2, <1>3, <1>7 DEF ClientInv, EndingInv, StageInv, ReleaseSteps
<1> QED  BY <1>4, <1>5, <1>6, <1>7

\* What Stale, Fresh and Secure exclude.
LEMMA Kinds ==
  ASSUME TypeOK, DirectoryInv
  PROVE  /\ Fresh => ~ Stale
         /\ \A c \in Clients : Secure(c) => ~ Stale
         /\ Stale => now >= TTL
         /\ Fresh \/ Stale \/ (\E c \in Clients : Secure(c)) => Exists
<1>1. Exists => /\ lock.claim \in Nat /\ lock.expires_at \in Nat /\ lock.mtime \in Nat
                /\ now \in Nat /\ TTL \in Nat \ {0}
  BY DirectoryType
<1> QED  BY <1>1 DEF Fresh, Stale, Secure, Effective, DirectoryInv

\* A run becomes a judge only by a command of its own acquire script.
LEMMA JudgesStep ==
  ASSUME TypeOK, NEW p \in Procs, Command(p) \/ Broken(p), NEW c \in Clients, p # <<c, "main">>
  PROVE  c \in judges' => c \in judges
<1>1. CASE CatExpiry(p) \/ Stat(p)
  <2>1. p = <<Run(p), "main">>
    <3>1. Step(p) \in AcquireSteps
      BY <1>1 DEF CatExpiry, Stat, Step, AcquireSteps
    <3> QED  BY <3>1, Slotted, Processes DEF Step
  <2>2. judges' = judges \/ judges' = judges \cup {Run(p)}
    BY <1>1 DEF CatExpiry, Stat, Judges
  <2> QED  BY <2>1, <2>2
<1>2. CASE ~ (CatExpiry(p) \/ Stat(p))
  <2>1. judges' = judges \/ judges' = {}
    BY <1>2 DEF Command, Broken, Mkdir, WriteOwner, WriteExpires, Chmod, Compare, MvStale, MkdirAgain,
                RenewOwner, RenewExpiry, RenewTmp, RenewMv, ReleaseOwner, ReleaseExpiry, ReleaseRm, ReleaseRmdir,
                history
  <2> QED  BY <2>1
<1> QED  BY <1>1, <1>2

\* A script that makes the directory keeps it, whatever the others write.
LEMMA MakingKept ==
  ASSUME ScriptsInv, ~ swapped', NEW p \in Procs, now' = now, Made(p) \/ Rewritten(p) \/ Removed(p),
         NEW c \in Clients, p # <<c, "main">>, script'[<<c, "main">>] = script[<<c, "main">>]
  PROVE  MakingInv(c)'
<1> SUFFICES ASSUME Main(c) \in {"owner", "expires", "chmod"}
             PROVE  /\ Fresh' /\ lock'.maker = c /\ lock'.claim = now + TTL
                    /\ Main(c) # "owner" => lock'.owner = c
                    /\ Main(c) = "chmod" => lock'.expires_at = now + TTL
  BY DEF MakingInv, Main
<1>1. /\ Fresh /\ lock.maker = c /\ lock.claim = now + TTL
      /\ Main(c) # "owner" => lock.owner = c
      /\ Main(c) = "chmod" => lock.expires_at = now + TTL
      /\ Cleanup(c) = "none" /\ Main(c) \in AcquireSteps
  BY DEF ScriptsInv, ClientInv, MakingInv, StageInv, AcquireSteps
<1>2. TypeOK /\ DirectoryInv /\ Exists /\ ~ Stale
  BY <1>1, Kinds DEF ScriptsInv
<1>3. Run(p) \in Clients /\ (p = <<Run(p), "main">> => Run(p) # c)
  BY Processes
<1>4. ~ Made(p)
  BY <1>2 DEF Made
<1>5. CASE Rewritten(p)
  <2>1. Step(p) \notin {"owner", "expires", "release: rm"}
    BY <1>1, <1>3, Writers DEF Secure
  <2>2. TmpWritten(p) \/ Renewal(p)
    BY <1>5, <2>1 DEF Rewritten, OwnerWritten, ExpiryWritten, Emptied
  <2> QED  BY <1>1, <1>5, <2>2 DEF Rewritten, TmpWritten, Renewal, Fresh
<1>6. ~ Removed(p)
  BY <1>1, <1>2, Writers DEF Removed
<1> QED  BY <1>4, <1>5, <1>6

\* What an acquire script has judged stale stays so until it moves it away.
LEMMA JudgingKept ==
  ASSUME ScriptsInv, NEW p \in Procs, now' = now, Made(p) \/ Rewritten(p) \/ Removed(p), Stale' => Stale,
         Exists' /\ lock' # lock => lock'.mtime = now,
         NEW c \in Clients, p # <<c, "main">>, script'[<<c, "main">>] = script[<<c, "main">>],
         c \in judges' => c \in judges
  PROVE  JudgingInv(c)' /\ RenewingInv(c)'
<1>1. TypeOK /\ DirectoryInv /\ JudgingInv(c) /\ RenewingInv(c)
  BY DEF ScriptsInv, ClientInv
<1>2. Main(c)' = Main(c)
  BY DEF Main
<1>3. RenewingInv(c)'
  BY <1>1, <1>2 DEF RenewingInv
<1>4. (~ Exists \/ lock.mtime = now)'
  BY DEF Made, Rewritten, OwnerWritten, ExpiryWritten, TmpWritten, Renewal, Emptied, Removed, Exists
<1>5. ASSUME Main(c) \in {"compare", "mv"}, Stale, c \in judges' PROVE FALSE
  <2>1. ~ Made(p)
    BY <1>1, <1>5, Kinds DEF Made
  <2>2. Step(p) \notin {"owner", "expires", "renew: tmp", "renew: mv", "release: rm"}
    BY <1>1, <1>5, Writers, Kinds, Processes
  <2>3. ~ Rewritten(p)
    BY <2>2 DEF Rewritten, OwnerWritten, ExpiryWritten, TmpWritten, Renewal, Emptied
  <2> QED  BY <1>5, <2>1, <2>3 DEF Removed
<1>6. JudgingInv(c)'
  <2>1. script'[<<c, "main">>].seen = script[<<c, "main">>].seen
    OBVIOUS
  <2>2. ~ (c \in judges' /\ Main(c) \in {"compare", "mv"} /\ Stale)
    BY <1>5
  <2>3. c \in judges' /\ Main(c) \in {"compare", "mv"} => c \in judges
    OBVIOUS
  <2> QED  BY <1>1, <1>2, <1>4, <2>1, <2>2, <2>3 DEF JudgingInv
<1> QED  BY <1>3, <1>6

\* A run that has a lease keeps it, whatever is written.
LEMMA HoldingKept ==
  ASSUME ScriptsInv, ~ swapped', NEW p \in Procs, now' = now, Made(p) \/ Rewritten(p) \/ Removed(p),
         NEW c \in Clients, stage[c] \in {"hold", "quit"}, told[c] > now
  PROVE  Secure(c)' /\ told[c] =< lock'.claim
<1>1. /\ Secure(c) /\ told[c] =< lock.claim /\ TypeOK /\ DirectoryInv /\ Cleanup(c) = "none"
      /\ now \in Nat /\ TTL \in Nat \ {0} /\ told[c] \in Nat /\ lock.claim \in Nat
  BY DirectoryType, ScriptsAssumption DEF ScriptsInv, ClientInv, HoldingInv, StageInv, TypeOK, Secure
<1>2. Exists /\ lock.maker = c /\ ~ Stale
  BY <1>1, Kinds DEF Secure
<1>3. Run(p) \in Clients
  BY Processes
<1>4. ~ Made(p)
  BY <1>2 DEF Made
<1>5. ~ Removed(p)
  BY <1>2, <1>3, Writers DEF Removed
<1>6. CASE Rewritten(p)
  <2>1. Step(p) \notin {"owner", "expires", "release: rm"}
    BY <1>2, <1>3, Writers DEF Secure
  <2>2. TmpWritten(p) \/ Renewal(p)
    BY <1>6, <2>1 DEF Rewritten, OwnerWritten, ExpiryWritten, Emptied
  <2>3. lock.claim =< now + TTL
    BY <1>1, <1>2, DirectoryType DEF DirectoryInv
  <2>4. Exists' /\ lock'.maker = c /\ lock'.owner = c
    BY <1>1, <1>6, <2>2 DEF Rewritten, TmpWritten, Renewal, Secure
  <2>5. lock'.expires_at = lock'.claim /\ lock'.claim \in {lock.claim, now + TTL}
    BY <1>1, <2>2 DEF TmpWritten, Renewal, Secure
  <2>6. lock'.claim > now /\ told[c] =< lock'.claim
    BY <1>1, <2>3, <2>5 DEF Secure
  <2> QED  BY <2>4, <2>5, <2>6 DEF Secure
<1> QED  BY <1>4, <1>5, <1>6

\* A release keeps the directory that it is to remove.
LEMMA EndingKept ==
  ASSUME ScriptsInv, ~ swapped', NEW p \in Procs, now' = now, Made(p) \/ Rewritten(p) \/ Removed(p),
         NEW c \in Clients, p # <<c, "cleanup">>, script'[<<c, "cleanup">>] = script[<<c, "cleanup">>]
  PROVE  EndingInv(c)'
<1>1. TypeOK /\ DirectoryInv /\ EndingInv(c) /\ StageInv(c) /\ Cleanup(c)' = Cleanup(c)
  BY DEF ScriptsInv, ClientInv, Cleanup
<1> SUFFICES ASSUME Cleanup(c) \in ReleaseSteps PROVE EndingInv(c)'
  BY <1>1 DEF EndingInv, ReleaseSteps
<1>2. Exists /\ lock.maker = c /\ ~ Stale /\ now \in Nat /\ TTL \in Nat \ {0}
  BY <1>1, Kinds, DirectoryType DEF Secure, EndingInv, ReleaseSteps
<1>3. Run(p) \in Clients /\ (p = <<Run(p), "cleanup">> => Run(p) # c)
  BY Processes
<1>4. ~ Made(p)
  BY <1>2 DEF Made
<1>5. ~ Removed(p)
  BY <1>2, <1>3, Writers DEF Removed
<1>6. Step(p) \notin {"owner", "expires", "release: rm"}
  BY <1>2, <1>3, Writers DEF Secure, ReleaseSteps
<1>7. Rewritten(p) /\ (TmpWritten(p) \/ Renewal(p))
  BY <1>4, <1>5, <1>6 DEF Rewritten, OwnerWritten, ExpiryWritten, Emptied
<1>8. /\ Exists' /\ lock'.maker = c /\ lock'.owner = lock.owner /\ lock'.mtime = now
      /\ \/ lock'.expires_at = lock.expires_at /\ lock'.claim = lock.claim
         \/ lock'.expires_at = now + TTL /\ lock'.claim = now + TTL
  BY <1>2, <1>7 DEF Rewritten, TmpWritten, Renewal
<1>9. Secure(c) => Secure(c)'
  BY <1>2, <1>8 DEF Secure
<1>10. Fresh => Fresh'
  BY <1>2, <1>8 DEF Fresh
<1> QED  BY <1>1, <1>8, <1>9, <1>10 DEF EndingInv

-----------------------------------------------------------------------------
(* The invariant.                                                          *)

\* A run is told that it has the lock by an acquire script at its end.
Acquires(p) ==
  /\ Step(p) = "chmod" /\ script'[p] = Idle /\ lock' = lock
  /\ stage[Run(p)] = "seek" /\ stage'[Run(p)] = "hold" /\ told'[Run(p)] = now + TTL

\* What becomes of the stage of a run, and of what it was told.
LEMMA Stages ==
  ASSUME TypeOK, NEW p \in Procs, Command(p) \/ Broken(p)
  PROVE  \/ Acquires(p)
         \/ /\ stage'[Run(p)] = stage[Run(p)] \/ stage'[Run(p)] = "over" \/
                 (stage[Run(p)] = "hold" /\ stage'[Run(p)] = "quit")
            /\ stage'[Run(p)] = "over" => stage[Run(p)] \in {"seek", "over"}
            /\ \/ told'[Run(p)] = told[Run(p)]
               \/ /\ Rewritten(p) /\ Renewal(p) /\ told'[Run(p)] = now + TTL
                  /\ stage[Run(p)] = "hold"
<1>1. Run(p) \in Clients /\ stage \in [Clients -> {"seek", "hold", "quit", "over"}] /\ told \in [Clients -> Nat]
  BY Processes DEF TypeOK
<1> DEFINE moved == /\ stage'[Run(p)] = stage[Run(p)] \/ stage'[Run(p)] = "over" \/
                         (stage[Run(p)] = "hold" /\ stage'[Run(p)] = "quit")
                    /\ stage'[Run(p)] = "over" => stage[Run(p)] \in {"seek", "over"}
<1>2. stage' = stage \/ Disappoint(Run(p)) => moved
  BY <1>1 DEF Disappoint, Enter
<1> HIDE DEF moved
<1>3. CASE Chmod(p)
  <2>1. Step(p) # "none" /\ Step(p) = "chmod" /\ lock' = lock
    BY <1>3 DEF Chmod, Step
  <2>2. script'[p] = Idle /\ Expires(p) = now + TTL
    BY <1>3, <2>1, Moves, ScriptRuns DEF Chmod, Step
  <2>3. CASE /\ stage[Run(p)] = "seek" /\ Enter(Run(p), "hold")
             /\ told' = [told EXCEPT ![Run(p)] = Expires(p)]
    BY <1>1, <2>1, <2>2, <2>3 DEF Acquires, Enter
  <2>4. CASE (stage' = stage \/ Disappoint(Run(p))) /\ told' = told
    BY <1>2, <2>4 DEF moved
  <2> QED  BY <1>3, <2>3, <2>4 DEF Chmod
<1>4. CASE RenewMv(p)
  <2>1. (stage' = stage \/ Disappoint(Run(p))) /\ Step(p) = "renew: mv" /\ Step(p) # "none"
    BY <1>4 DEF RenewMv, Step
  <2>2. Expires(p) = now + TTL
    BY <2>1, ScriptRuns DEF Step
  <2>3. \/ told' = told
        \/ /\ Rewritten(p) /\ Renewal(p) /\ stage[Run(p)] = "hold"
           /\ told' = [told EXCEPT ![Run(p)] = Expires(p)]
    BY <1>4, <2>1, Writes DEF RenewMv
  <2> QED  BY <1>1, <1>2, <2>1, <2>2, <2>3 DEF moved
<1>5. CASE ~ Chmod(p) /\ ~ RenewMv(p)
  <2>1. stage' = stage \/ Disappoint(Run(p))
    BY <1>5 DEF Command, Broken, Mkdir, WriteOwner, WriteExpires, CatExpiry, Stat, Compare, MvStale, MkdirAgain,
                RenewOwner, RenewExpiry, RenewTmp, ReleaseOwner, ReleaseExpiry, ReleaseRm, ReleaseRmdir, Fails, Lost
  <2>2. told' = told
    BY <1>5 DEF Command, Broken, Mkdir, WriteOwner, WriteExpires, CatExpiry, Stat, Compare, MvStale, MkdirAgain,
                RenewOwner, RenewExpiry, RenewTmp, ReleaseOwner, ReleaseExpiry, ReleaseRm, ReleaseRmdir
  <2> QED  BY <1>2, <2>1, <2>2 DEF moved
<1> QED  BY <1>3, <1>4, <1>5

LEMMA StageKept ==
  ASSUME ScriptsInv, TypeOK', NEW p \in Procs, Command(p) \/ Broken(p), NEW c \in Clients
  PROVE  StageInv(c)'
<1> DEFINE m == <<c, "main">>
           r == <<c, "cleanup">>
<1>1. TypeOK /\ StageInv(c) /\ m \in Procs /\ r \in Procs /\ m # r
  BY DEF ScriptsInv, ClientInv, Procs, Slots
<1>2. Run(p) # c => p # m /\ p # r
  BY DEF Run
<1>3. Main(c)' \in AcquireSteps => Main(c) \in AcquireSteps
  BY <1>1, OthersRest DEF Main, Step
<1>4. Cleanup(c)' # "none" => Cleanup(c) # "none"
  <2>1. Step(p) # "none"
    BY <1>1, Commands DEF Broken, TypeOK, Step, Running, Idle, AcquireSteps, RenewSteps, ReleaseSteps
  <2> QED  BY <1>1, <2>1, OthersRest DEF Cleanup, Step
<1>5. CASE Run(p) # c
  BY <1>1, <1>2, <1>3, <1>4, <1>5, OthersRest DEF StageInv
<1>6. CASE Run(p) = c /\ Acquires(p)
  <2>1. p[2] = "main" /\ p = m
    BY <1>1, <1>6, Slotted, Processes DEF Acquires, Step, AcquireSteps
  <2>2. Main(c)' \notin AcquireSteps
    <3>1. Main(c)' = Idle.pc
      BY <1>6, <2>1 DEF Acquires, Main
    <3> QED  BY <3>1 DEF Idle, AcquireSteps
  <2>3. Cleanup(c) = "none"
    BY <1>1, <1>6, <2>1 DEF Acquires, StageInv, Main, Step, AcquireSteps
  <2> QED  BY <1>4, <2>2, <2>3 DEF StageInv
<1>7. CASE Run(p) = c /\ ~ Acquires(p)
  BY <1>1, <1>3, <1>4, <1>7, Stages DEF StageInv
<1> QED  BY <1>5, <1>6, <1>7

\* A command of the acquire script itself.
LEMMA AcquisitionKept ==
  ASSUME ScriptsInv, TypeOK', NEW c \in Clients, NEW p \in Procs, p = <<c, "main">>, now' = now,
         Acquisition(p), DirectoryInv', Stale' => Stale
  PROVE  MakingInv(c)' /\ JudgingInv(c)' /\ RenewingInv(c)'
<1>1. /\ Main(c) = Step(p) /\ Main(c)' = Step(p)' /\ Run(p) = c
      /\ TypeOK /\ DirectoryInv /\ MakingInv(c) /\ JudgingInv(c)
      /\ now \in Nat /\ TTL \in Nat \ {0}
  BY ScriptsAssumption DEF Main, Step, Run, ScriptsInv, ClientInv, TypeOK
<1>2. CASE Step(p)' = "owner" /\ Made(p)
  BY <1>1, <1>2 DEF Made, MakingInv, JudgingInv, RenewingInv, Fresh
<1>3. CASE Step(p) = "owner" /\ Step(p)' = "expires" /\ Rewritten(p) /\ OwnerWritten(p)
  BY <1>1, <1>3 DEF Rewritten, OwnerWritten, MakingInv, JudgingInv, RenewingInv, Fresh
<1>4. CASE Step(p) = "expires" /\ Step(p)' = "chmod" /\ Rewritten(p) /\ ExpiryWritten(p)
  BY <1>1, <1>4 DEF Rewritten, ExpiryWritten, MakingInv, JudgingInv, RenewingInv, Fresh
<1>5. CASE Step(p) = "mkdir" /\ Step(p)' = "cat" /\ lock' = lock
  BY <1>1, <1>5 DEF MakingInv, JudgingInv, RenewingInv
<1>6. CASE Step(p) = "cat" /\ Step(p)' = "stat" /\ lock' = lock /\ (~ Exists \/ lock.expires_at = 0)
  BY <1>1, <1>6 DEF MakingInv, JudgingInv, RenewingInv, Exists
<1>7. CASE /\ Step(p) = "cat" /\ Step(p)' = "compare" /\ lock' = lock /\ Exists /\ lock.expires_at # 0
           /\ script'[p].seen = lock.expires_at
  BY <1>1, <1>7 DEF MakingInv, JudgingInv, RenewingInv, Stale, Exists, Effective
<1>8. CASE Step(p) = "stat" /\ Step(p)' = "compare" /\ lock' = lock /\ script'[p].seen = Created(p) + TTL
  <2>1. script[p].at = now
    BY <1>1, <1>8, ScriptRuns DEF Step
  <2>2. Exists => lock.mtime \in Nat
    BY <1>1, DirectoryType
  <2>3. ASSUME script'[p].seen =< now PROVE Stale
    BY <1>1, <1>8, <2>1, <2>2, <2>3 DEF Created, JudgingInv, Stale, Effective
  <2>4. Stale => Stale'
    BY <1>8 DEF Stale, Exists, Effective
  <2> QED  BY <1>1, <1>8, <2>3, <2>4 DEF MakingInv, JudgingInv, RenewingInv
<1>9. CASE Step(p) = "compare" /\ Step(p)' = "mv" /\ lock' = lock /\ judges' = judges /\ script[p].seen =< now
  <2>1. (c \in judges => Stale) /\ (Stale => Stale')
    BY <1>1, <1>9 DEF JudgingInv, Stale, Exists, Effective
  <2> QED  BY <1>1, <1>9, <2>1 DEF MakingInv, JudgingInv, RenewingInv
<1>10. CASE Step(p) = "mv" /\ Step(p)' = "mkdir again" /\ Removed(p)
  BY <1>1, <1>10 DEF MakingInv, JudgingInv, RenewingInv
<1> QED  BY <1>2, <1>3, <1>4, <1>5, <1>6, <1>7, <1>8, <1>9, <1>10 DEF Acquisition

\* A command of the renew script itself, or the last one of a script in that slot.
LEMMA RenewingKept ==
  ASSUME ScriptsInv, NEW c \in Clients, NEW p \in Procs, p = <<c, "main">>, now' = now,
         Renewing(p) \/ script'[p] = Idle, Stale' => Stale
  PROVE  MakingInv(c)' /\ JudgingInv(c)' /\ RenewingInv(c)'
<1>1. /\ Main(c) = Step(p) /\ Main(c)' = Step(p)' /\ TypeOK /\ RenewingInv(c)
      /\ now \in Nat
  BY DEF Main, Step, ScriptsInv, ClientInv, TypeOK
<1>2. CASE script'[p] = Idle
  <2>1. Step(p)' = "none"
    BY <1>2 DEF Step, Idle
  <2> QED  BY <1>1, <2>1 DEF MakingInv, JudgingInv, RenewingInv
<1>3. CASE Step(p) = "renew: owner" /\ Step(p)' = "renew: expiry" /\ lock' = lock
  BY <1>1, <1>3 DEF MakingInv, JudgingInv, RenewingInv
<1>4. CASE /\ Step(p) = "renew: expiry" /\ Step(p)' = "renew: tmp" /\ lock' = lock
           /\ Exists /\ lock.expires_at > now
  <2>1. ~ Stale
    <3>1. lock.expires_at \in Nat /\ lock.expires_at > now
      BY <1>1, <1>4, DirectoryType
    <3>2. Effective = lock.expires_at
      BY <1>1, <3>1 DEF Effective
    <3> QED  BY <1>1, <3>1, <3>2 DEF Stale
  <2> QED  BY <1>1, <1>4, <2>1 DEF MakingInv, JudgingInv, RenewingInv
<1>5. CASE Step(p) = "renew: tmp" /\ Step(p)' = "renew: mv" /\ Rewritten(p) /\ TmpWritten(p)
  BY <1>1, <1>5 DEF MakingInv, JudgingInv, RenewingInv
<1> QED  BY <1>2, <1>3, <1>4, <1>5 DEF Renewing

\* A command of the release script itself.
LEMMA ReleasingKept ==
  ASSUME ScriptsInv, NEW c \in Clients, NEW p \in Procs, p = <<c, "cleanup">>, now' = now,
         Releasing(p) \/ script'[p] = Idle
  PROVE  EndingInv(c)'
<1>1. Cleanup(c) = Step(p) /\ Cleanup(c)' = Step(p)' /\ EndingInv(c)
  BY DEF Cleanup, Step, ScriptsInv, ClientInv
<1>2. CASE script'[p] = Idle
  <2>1. Step(p)' = "none"
    BY <1>2 DEF Step, Idle
  <2> QED  BY <1>1, <2>1 DEF EndingInv
<1>3. CASE Step(p) \in {"release: owner", "release: expiry"} /\ Step(p)' \in {"release: expiry", "release: rm"} /\ lock' = lock
  BY <1>1, <1>3 DEF EndingInv, Secure, Exists
<1>4. CASE Step(p) = "release: rm" /\ Step(p)' = "release: rmdir" /\ Rewritten(p) /\ Emptied(p)
  BY <1>1, <1>4 DEF EndingInv, Secure, Rewritten, Emptied, Fresh
<1> QED  BY <1>2, <1>3, <1>4 DEF Releasing

\* What a step that leaves the directory and the time alone leaves as it was.
LEMMA QuietKept ==
  ASSUME ScriptsInv, now' = now, lock' = lock, NEW c \in Clients
  PROVE  /\ script'[<<c, "main">>] = script[<<c, "main">>] /\ (c \in judges' => c \in judges)
              => MakingInv(c)' /\ JudgingInv(c)' /\ RenewingInv(c)'
         /\ script'[<<c, "cleanup">>] = script[<<c, "cleanup">>] => EndingInv(c)'
         /\ (stage'[c] \in {"hold", "quit"} => stage[c] \in {"hold", "quit"} /\ told'[c] = told[c])
              => HoldingInv(c)'
<1>1. MakingInv(c) /\ JudgingInv(c) /\ RenewingInv(c) /\ EndingInv(c) /\ HoldingInv(c)
  BY DEF ScriptsInv, ClientInv
<1>2. (Fresh' <=> Fresh) /\ (Stale' <=> Stale) /\ (Secure(c)' <=> Secure(c)) /\ (Exists' <=> Exists)
  BY DEF Fresh, Stale, Secure, Exists, Effective
<1>3. ASSUME script'[<<c, "main">>] = script[<<c, "main">>], c \in judges' => c \in judges
      PROVE  MakingInv(c)' /\ JudgingInv(c)' /\ RenewingInv(c)'
  <2>1. Main(c)' = Main(c)
    BY <1>3 DEF Main
  <2>2. MakingInv(c)' /\ RenewingInv(c)'
    BY <1>1, <1>2, <2>1 DEF MakingInv, RenewingInv
  <2>3. JudgingInv(c)'
    BY <1>1, <1>2, <1>3, <2>1 DEF JudgingInv
  <2> QED  BY <2>2, <2>3
<1>4. ASSUME script'[<<c, "cleanup">>] = script[<<c, "cleanup">>] PROVE EndingInv(c)'
  <2>1. Cleanup(c)' = Cleanup(c)
    BY <1>4 DEF Cleanup
  <2> QED  BY <1>1, <1>2, <2>1 DEF EndingInv
<1>5. ASSUME stage'[c] \in {"hold", "quit"} => stage[c] \in {"hold", "quit"} /\ told'[c] = told[c]
      PROVE  HoldingInv(c)'
  BY <1>1, <1>2, <1>5 DEF HoldingInv
<1> QED  BY <1>3, <1>4, <1>5

\* A renewal goes on as a renewal, and what its run is told only grows.
LEMMA PromptKept ==
  ASSUME ScriptsInv, TypeOK', NEW p \in Procs, Command(p) \/ Broken(p), NEW c \in Clients
  PROVE  PromptInv(c)'
<1>1. TypeOK /\ PromptInv(c) /\ <<c, "main">> \in Procs /\ now' = now
  BY OthersRest DEF ScriptsInv, ClientInv, Procs, Slots
<1>2. now \in Nat /\ TTL \in Nat \ {0} /\ told[c] \in Nat
  BY <1>1, ScriptsAssumption DEF TypeOK
<1>3. Main(c)' \in RenewSteps => Main(c) \in RenewSteps
  <2>1. CASE p # <<c, "main">>
    BY <1>1, <2>1, OthersRest DEF Main
  <2>2. CASE p = <<c, "main">> /\ Broken(p)
    <3>1. script' = script \/ script' = [script EXCEPT ![p] = Idle]
      BY <2>2 DEF Broken, Exit
    <3>2. Main(c)' = Main(c) \/ Main(c)' = "none"
      BY <1>1, <2>2, <3>1 DEF TypeOK, Idle, Main
    <3> QED  BY <3>2 DEF RenewSteps
  <2>3. CASE p = <<c, "main">> /\ Command(p)
    <3>1. Main(c) = Step(p) /\ Main(c)' = Step(p)'
      BY <2>3 DEF Main, Step
    <3>2. CASE Acquisition(p) \/ Releasing(p)
      BY <3>1, <3>2 DEF Acquisition, Releasing, RenewSteps
    <3>3. CASE Renewing(p)
      BY <3>1, <3>3 DEF Renewing, RenewSteps
    <3>4. CASE Ending(p)
      <4>1. script'[p] = Idle
        BY <3>4 DEF Ending
      <4>2. Step(p)' = "none"
        BY <4>1 DEF Step, Idle
      <4> QED  BY <3>1, <4>2 DEF RenewSteps
    <3> QED  BY <1>1, <2>3, <3>2, <3>3, <3>4, Commands
  <2> QED  BY <2>1, <2>2, <2>3
<1>4. CASE Run(p) # c
  BY <1>1, <1>3, <1>4, OthersRest DEF PromptInv
<1>5. CASE Run(p) = c /\ Acquires(p)
  BY <1>1, <1>2, <1>5 DEF Acquires, PromptInv
<1>6. CASE Run(p) = c /\ ~ Acquires(p)
  <2>1. stage'[c] = "hold" => stage[c] = "hold"
    BY <1>1, <1>6, Stages
  <2>2. told'[c] = told[c] \/ told'[c] = now + TTL
    BY <1>1, <1>6, Stages
  <2> QED  BY <1>1, <1>2, <1>3, <2>1, <2>2 DEF PromptInv
<1> QED  BY <1>4, <1>5, <1>6

\* A run that is told that it has the lock has it.
LEMMA CommandHolds ==
  ASSUME ScriptsInv, TypeOK', ~ swapped', NEW p \in Procs, Command(p), NEW c \in Clients
  PROVE  HoldingInv(c)'
<1> SUFFICES ASSUME stage'[c] \in {"hold", "quit"}, told'[c] > now
             PROVE  Secure(c)' /\ told'[c] =< lock'.claim
  BY OthersRest DEF HoldingInv, ScriptsInv
<1>1. /\ TypeOK /\ DirectoryInv /\ now' = now /\ now \in Nat /\ TTL \in Nat \ {0} /\ told[c] \in Nat
      /\ lock' = lock \/ Made(p) \/ Rewritten(p) \/ Removed(p)
  BY Changes, ScriptsAssumption DEF ScriptsInv, TypeOK
<1>2. ASSUME stage[c] \in {"hold", "quit"}, told[c] > now
      PROVE  Secure(c)' /\ told[c] =< lock'.claim
  <2>1. CASE lock' = lock
    <3>1. Secure(c) /\ told[c] =< lock.claim
      BY <1>2 DEF ScriptsInv, ClientInv, HoldingInv
    <3> QED  BY <1>1, <2>1, <3>1 DEF Secure, Exists
  <2>2. CASE Made(p) \/ Rewritten(p) \/ Removed(p)
    BY <1>1, <1>2, <2>2, HoldingKept
  <2> QED  BY <1>1, <2>1, <2>2
<1>3. CASE Run(p) = c /\ Acquires(p)
  <2>1. p = <<c, "main">>
    BY <1>1, <1>3, Slotted, Processes DEF Acquires, Step, AcquireSteps
  <2>2. Main(c) = "chmod" /\ MakingInv(c)
    BY <1>3, <2>1 DEF Acquires, Main, Step, ScriptsInv, ClientInv
  <2>3. /\ Exists /\ lock.maker = c /\ lock.claim = now + TTL /\ lock.owner = c /\ lock.expires_at = now + TTL
    BY <2>2 DEF MakingInv, Fresh
  <2>4. lock' = lock /\ told'[c] = now + TTL
    BY <1>3 DEF Acquires
  <2>5. Secure(c)'
    BY <1>1, <2>3, <2>4 DEF Secure, Exists
  <2> QED  BY <1>1, <2>3, <2>4, <2>5
<1>4. CASE Run(p) # c
  BY <1>1, <1>2, <1>4, OthersRest
<1>5. CASE Run(p) = c /\ ~ Acquires(p)
  <2>1. /\ stage[c] \in {"hold", "quit"}
        /\ \/ told'[c] = told[c]
           \/ Rewritten(p) /\ Renewal(p) /\ told'[c] = now + TTL /\ stage[c] = "hold"
    BY <1>1, <1>5, Stages
  <2>2. CASE told'[c] = told[c]
    BY <1>2, <2>1, <2>2
  <2>3. CASE Rewritten(p) /\ Renewal(p) /\ told'[c] = now + TTL /\ stage[c] = "hold"
    <3>1. p = <<c, "main">>
      BY <1>1, <1>5, <2>3, Slotted, Processes DEF Renewal, Step, RenewSteps
    <3>2. Main(c) \in RenewSteps /\ PromptInv(c)
      BY <2>3, <3>1 DEF Renewal, Step, RenewSteps, Main, ScriptsInv, ClientInv
    <3>3. told[c] > now
      BY <2>3, <3>2 DEF PromptInv
    <3>4. Secure(c)'
      BY <1>2, <2>3, <3>3
    <3>5. lock'.claim = now + TTL
      BY <2>3 DEF Renewal
    <3> QED  BY <1>1, <2>3, <3>4, <3>5
  <2> QED  BY <2>1, <2>2, <2>3
<1> QED  BY <1>3, <1>4, <1>5

LEMMA CommandKept ==
  ASSUME ScriptsInv, TypeOK', ~ swapped', NEW p \in Procs, Command(p), NEW c \in Clients
  PROVE  ClientInv(c)'
<1> DEFINE m == <<c, "main">>
           r == <<c, "cleanup">>
<1>1. /\ TypeOK /\ DirectoryInv /\ m \in Procs /\ r \in Procs /\ m[2] = "main" /\ r[2] = "cleanup"
      /\ now' = now /\ (lock' = lock \/ Made(p) \/ Rewritten(p) \/ Removed(p))
  BY Changes DEF ScriptsInv, Procs, Slots
<1>2. DirectoryInv' /\ (Exists' /\ lock' # lock => lock'.mtime = now) /\ (Stale' => Stale)
  BY <1>1, DirectoryStep
<1>3. Acquisition(p) \/ Renewing(p) \/ Releasing(p) \/ Ending(p)
  BY <1>1, Commands
<1>4. StageInv(c)' /\ PromptInv(c)' /\ HoldingInv(c)'
  BY StageKept, PromptKept, CommandHolds
<1>5. MakingInv(c)' /\ JudgingInv(c)' /\ RenewingInv(c)'
  <2>1. CASE p = m
    <3>1. ~ Releasing(p)
      BY <1>1, <2>1, Slotted DEF Releasing, Step, ReleaseSteps
    <3>2. CASE Acquisition(p)
      BY <1>1, <1>2, <2>1, <3>2, AcquisitionKept
    <3>3. CASE Renewing(p) \/ script'[p] = Idle
      BY <1>1, <1>2, <2>1, <3>3, RenewingKept
    <3> QED  BY <1>3, <3>1, <3>2, <3>3 DEF Ending
  <2>2. CASE p # m
    <3>1. script'[m] = script[m]
      BY <1>1, <2>2, OthersRest
    <3>2. c \in judges' => c \in judges
      BY <1>1, <2>2, JudgesStep
    <3>3. CASE lock' = lock
      BY <1>1, <3>1, <3>2, <3>3, QuietKept
    <3>4. CASE Made(p) \/ Rewritten(p) \/ Removed(p)
      BY <1>1, <1>2, <2>2, <3>1, <3>2, <3>4, MakingKept, JudgingKept
    <3> QED  BY <1>1, <3>3, <3>4
  <2> QED  BY <2>1, <2>2
<1>6. EndingInv(c)'
  <2>1. CASE p = r
    <3>1. p[2] # "main"
      BY <1>1, <2>1
    <3>2. Step(p) \notin AcquireSteps \cup RenewSteps
      BY <1>1, <3>1, Slotted DEF Step
    <3>3. ~ Acquisition(p) /\ ~ Renewing(p)
      BY <3>2 DEF Acquisition, Renewing, Made, AcquireSteps, RenewSteps
    <3> QED  BY <1>1, <1>3, <2>1, <3>3, ReleasingKept DEF Ending
  <2>2. CASE p # r
    <3>1. script'[r] = script[r]
      BY <1>1, <2>2, OthersRest
    <3>2. CASE lock' = lock
      BY <1>1, <3>1, <3>2, QuietKept
    <3>3. CASE Made(p) \/ Rewritten(p) \/ Removed(p)
      BY <1>1, <2>2, <3>1, <3>3, EndingKept
    <3> QED  BY <1>1, <3>2, <3>3
  <2> QED  BY <2>1, <2>2
<1> QED  BY <1>4, <1>5, <1>6 DEF ClientInv

LEMMA BrokenKept ==
  ASSUME ScriptsInv, TypeOK', NEW p \in Procs, Broken(p), NEW c \in Clients
  PROVE  ClientInv(c)'
<1> DEFINE m == <<c, "main">>
           r == <<c, "cleanup">>
<1>1. TypeOK /\ m \in Procs /\ r \in Procs /\ now' = now /\ lock' = lock /\ told' = told /\ judges' = judges
  BY DEF ScriptsInv, Procs, Slots, Broken, history
<1>2. \A q \in Procs : script'[q] = script[q] \/ (p = q /\ script'[p] = Idle)
  BY <1>1 DEF Broken, Exit, TypeOK
<1>3. (Stale' => Stale)
  BY <1>1 DEF Stale, Exists, Effective
<1>4. StageInv(c)' /\ PromptInv(c)'
  BY StageKept, PromptKept
<1>5. MakingInv(c)' /\ JudgingInv(c)' /\ RenewingInv(c)'
  BY <1>1, <1>2, <1>3, RenewingKept, QuietKept
<1>6. EndingInv(c)'
  BY <1>1, <1>2, ReleasingKept, QuietKept
<1>7. HoldingInv(c)'
  <2>1. stage'[c] \in {"hold", "quit"} => stage[c] \in {"hold", "quit"}
    BY <1>1 DEF Broken, Disappoint, Enter, TypeOK
  <2> QED  BY <1>1, <2>1, QuietKept
<1> QED  BY <1>4, <1>5, <1>6, <1>7 DEF ClientInv

\* A script is sent.
LEMMA SendKept ==
  ASSUME ScriptsInv, TypeOK', NEW c \in Clients, SendAcquire(c) \/ SendRenew(c) \/ SendRelease(c),
         NEW d \in Clients
  PROVE  ClientInv(d)'
<1> DEFINE m == <<d, "main">>
           r == <<d, "cleanup">>
<1>1. /\ TypeOK /\ ClientInv(d) /\ m \in Procs /\ r \in Procs /\ m # r
      /\ now' = now /\ lock' = lock /\ told' = told /\ judges' = judges
      /\ stage' = stage \/ Enter(c, "over")
  BY DEF ScriptsInv, Procs, Slots, SendAcquire, SendRenew, SendRelease, Send, history
<1>2. HoldingInv(d)'
  BY <1>1, QuietKept DEF Enter, TypeOK
<1>3. CASE c # d
  <2>1. script'[m] = script[m] /\ script'[r] = script[r] /\ stage'[d] = stage[d]
    BY <1>1, <1>3 DEF SendAcquire, SendRenew, SendRelease, Send, Enter, TypeOK
  <2>2. StageInv(d)' /\ PromptInv(d)'
    BY <1>1, <2>1 DEF ClientInv, StageInv, PromptInv, Main, Cleanup
  <2> QED  BY <1>1, <1>2, <2>1, <2>2, QuietKept DEF ClientInv
<1>4. CASE c = d /\ (SendAcquire(c) \/ SendRenew(c))
  <2>1. /\ Main(d)' \in {"mkdir", "renew: owner"} /\ script'[r] = script[r] /\ stage' = stage
        /\ Main(d)' = "mkdir" => stage[d] = "seek"
        /\ Main(d)' = "renew: owner" => stage[d] = "hold" /\ told[d] > now
    <3>1. CASE SendAcquire(d)
      <4>1. script' = [script EXCEPT ![m] = [pc |-> "mkdir", at |-> now, seen |-> 0]] /\ stage' = stage
        BY <3>1 DEF SendAcquire, Send
      <4>2. stage[d] = "seek"
        BY <3>1 DEF SendAcquire
      <4> QED  BY <1>1, <4>1, <4>2 DEF Main, TypeOK
    <3>2. CASE SendRenew(d)
      <4>1. script' = [script EXCEPT ![m] = [pc |-> "renew: owner", at |-> now, seen |-> 0]] /\ stage' = stage
        BY <3>2 DEF SendRenew, Send
      <4>2. stage[d] = "hold" /\ told[d] > now
        BY <1>1, <3>2 DEF SendRenew, InTime, TypeOK
      <4> QED  BY <1>1, <4>1, <4>2 DEF Main, TypeOK
    <3> QED  BY <1>4, <3>1, <3>2
  <2>2. Cleanup(d)' = Cleanup(d)
    BY <2>1 DEF Cleanup
  <2>3. StageInv(d)' /\ PromptInv(d)'
    BY <1>1, <2>1, <2>2 DEF ClientInv, StageInv, PromptInv, AcquireSteps, RenewSteps
  <2>4. MakingInv(d)' /\ JudgingInv(d)' /\ RenewingInv(d)'
    BY <2>1 DEF MakingInv, JudgingInv, RenewingInv
  <2> QED  BY <1>1, <1>2, <2>1, <2>3, <2>4, QuietKept DEF ClientInv
<1>5. CASE c = d /\ SendRelease(c)
  <2>1. /\ Cleanup(d)' = "release: owner" /\ script'[m] = script[m] /\ stage'[d] = "over"
        /\ stage[d] \in {"hold", "quit"} /\ told[d] > now
    BY <1>1, <1>5 DEF SendRelease, Send, InTime, Cleanup, Enter, TypeOK
  <2>2. StageInv(d)' /\ PromptInv(d)'
    <3>1. Main(d)' = Main(d)
      BY <2>1 DEF Main
    <3> QED  BY <1>1, <2>1, <3>1 DEF ClientInv, StageInv, PromptInv
  <2>3. EndingInv(d)'
    BY <1>1, <2>1 DEF ClientInv, HoldingInv, EndingInv, Secure, Exists
  <2> QED  BY <1>1, <1>2, <2>1, <2>2, <2>3, QuietKept DEF ClientInv
<1> QED  BY <1>3, <1>4, <1>5

\* A second goes by, in which no script runs.
LEMMA TickKept ==
  ASSUME ScriptsInv, Tick, NEW c \in Clients
  PROVE  ClientInv(c)'
<1>1. TypeOK /\ ClientInv(c) /\ now \in Nat /\ now' = now + 1 /\ lock' = lock /\ stage' = stage /\ told' = told
  BY DEF ScriptsInv, TypeOK, Tick
<1>2. Main(c)' = "none" /\ Cleanup(c)' = "none"
  BY DEF Tick, Main, Cleanup, Idle, Procs, Slots
<1>3. StageInv(c)' /\ MakingInv(c)' /\ JudgingInv(c)' /\ RenewingInv(c)' /\ EndingInv(c)' /\ PromptInv(c)'
  BY <1>2 DEF StageInv, MakingInv, JudgingInv, RenewingInv, EndingInv, PromptInv, AcquireSteps, RenewSteps
<1>4. HoldingInv(c)'
  <2>1. told[c] \in Nat /\ (Exists => lock.claim \in Nat)
    BY <1>1, DirectoryType DEF TypeOK
  <2>2. ASSUME stage[c] \in {"hold", "quit"}, told[c] > now + 1
        PROVE  Secure(c) /\ told[c] =< lock.claim
    BY <1>1, <2>1, <2>2 DEF ClientInv, HoldingInv
  <2>3. Exists' <=> Exists
    BY <1>1 DEF Exists
  <2> QED  BY <1>1, <2>1, <2>2, <2>3 DEF HoldingInv, Secure
<1> QED  BY <1>3, <1>4 DEF ClientInv

LEMMA ScriptsInitial == Init => ScriptsInv
<1> SUFFICES ASSUME Init PROVE ScriptsInv
  OBVIOUS
<1>1. TypeOK /\ DirectoryInv
  BY TypeInitial DEF Init, DirectoryInv, Exists
<1>3. \A c \in Clients : Main(c) = "none" /\ Cleanup(c) = "none" /\ stage[c] = "seek"
  BY DEF Init, Main, Cleanup, Idle, Procs, Slots
<1>4. \A c \in Clients : ClientInv(c)
  BY <1>3 DEF ClientInv, StageInv, MakingInv, JudgingInv, RenewingInv, HoldingInv, PromptInv, EndingInv,
              AcquireSteps, RenewSteps
<1> QED  BY <1>1, <1>4 DEF ScriptsInv

\* A rename of a directory that was not read is not forgotten.
LEMMA StaysSwapped ==
  ASSUME [Next]_vars, swapped
  PROVE  swapped'
<1>1. swapped' = swapped \/ \E p \in Procs : MvStale(p)
  BY DEF Next, vars, history, Tick, SendAcquire, SendRenew, SendRelease, Send, Command, Broken, Mkdir, WriteOwner,
         WriteExpires, Chmod, CatExpiry, Stat, Compare, MkdirAgain, RenewOwner, RenewExpiry, RenewTmp, RenewMv,
         ReleaseOwner, ReleaseExpiry, ReleaseRm, ReleaseRmdir
<1>2. ASSUME NEW p \in Procs, MvStale(p) PROVE swapped'
  BY <1>2 DEF MvStale, history
<1> QED  BY <1>1, <1>2

LEMMA ScriptsInductive ==
  ASSUME ~ swapped => ScriptsInv, [Next]_vars, ~ swapped'
  PROVE  ScriptsInv'
<1> ScriptsInv
  BY StaysSwapped
<1>1. TypeOK' /\ DirectoryInv'
  BY TypeInductive, DirectoryInductive DEF ScriptsInv
<1>2. ASSUME NEW c \in Clients PROVE ClientInv(c)'
  <2>1. CASE Tick
    BY <2>1, TickKept
  <2>2. ASSUME NEW d \in Clients, SendAcquire(d) \/ SendRenew(d) \/ SendRelease(d) PROVE ClientInv(c)'
    BY <1>1, <2>2, SendKept
  <2>3. ASSUME NEW p \in Procs, Command(p) \/ Broken(p) PROVE ClientInv(c)'
    BY <1>1, <2>3, CommandKept, BrokenKept
  <2>4. CASE UNCHANGED vars
    <3>1. HoldingInv(c)' /\ MakingInv(c)' /\ JudgingInv(c)' /\ RenewingInv(c)' /\ EndingInv(c)'
      BY <2>4, QuietKept DEF vars, history
    <3>2. StageInv(c)' /\ PromptInv(c)'
      BY <2>4 DEF vars, ScriptsInv, ClientInv, StageInv, PromptInv, Main, Cleanup
    <3> QED  BY <3>1, <3>2 DEF ClientInv
  <2> QED  BY <2>1, <2>2, <2>3, <2>4 DEF Next
<1> QED  BY <1>1, <1>2 DEF ScriptsInv

\* So it holds up to the first such rename.
LEMMA ScriptsHold == Spec => [](~ swapped => ScriptsInv)
<1>1. Init => (~ swapped => ScriptsInv)
  BY ScriptsInitial
<1>2. (~ swapped => ScriptsInv) /\ [Next]_vars => (~ swapped => ScriptsInv)'
  BY ScriptsInductive
<1> QED  BY <1>1, <1>2, PTL DEF Spec

(* Until a rename moves a directory that its script has not read, one run   *)
(* at a time is told that it has the lock, and it stays the only one until  *)
(* its lease runs out, whichever scripts fail in between and however many   *)
(* contend (docs/locking.md:11-12, lock.go:258-331).                        *)
THEOREM WinnerAlone == Spec => []OneWinnerUntilSwapped
<1>1. (~ swapped => ScriptsInv) => OneWinnerUntilSwapped
  BY DEF ScriptsInv, ClientInv, HoldingInv, Secure, OneWinner, OneWinnerUntilSwapped, Holds
<1> QED  BY <1>1, ScriptsHold, PTL

-----------------------------------------------------------------------------
(* The lock directory changes only as LeaseCell allows.                    *)

\* A run that leaves, or goes on, is the only one whose stage changes.
LEMMA OneLeaves ==
  ASSUME TypeOK, TypeOK', NEW c \in Clients, \A d \in Clients : d # c => stage'[d] = stage[d],
         stage[c] = "over" => stage'[c] = "over"
  PROVE  Over' = Over \/ Over' = Over \cup {c}
<1>1. CASE stage'[c] = "over"
  BY <1>1 DEF Over
<1>2. CASE stage'[c] # "over"
  BY <1>2 DEF Over
<1> QED  BY <1>1, <1>2

\* What leaves the directory alone is at most the leaving of a run.
LEMMA QuietCell ==
  ASSUME lock' = lock, now' = now, NEW c \in Clients, Over' = Over \/ Over' = Over \cup {c}
  PROVE  [Cell!Next]_<<Lease, Over, now>>
<1>1. Lease' = Lease
  BY DEF Lease
<1>2. CASE Over' = Over \cup {c}
  BY <1>1, <1>2 DEF Cell!Next, Cell!Leave, Lease, Over
<1> QED  BY <1>1, <1>2

\* A command that writes the directory grants, prolongs, evicts or gives up.
LEMMA CommandCell ==
  ASSUME ScriptsInv, TypeOK', ~ swapped', NEW p \in Procs, Command(p)
  PROVE  [Cell!Next]_<<Lease, Over, now>>
<1>1. /\ TypeOK /\ DirectoryInv /\ now' = now /\ Run(p) \in Clients
      /\ lock' = lock \/ Made(p) \/ Rewritten(p) \/ Removed(p)
  BY Changes, Processes DEF ScriptsInv
<1>2. now \in Nat /\ TTL \in Nat \ {0} /\ now + TTL \in 0 .. Cell!Horizon /\ Cell!Horizon = now + TTL
  BY <1>1, ScriptsAssumption DEF TypeOK, Cell!Horizon
<1>3. CASE lock' = lock
  <2>1. /\ \A d \in Clients : d # Run(p) => stage'[d] = stage[d]
        /\ stage[Run(p)] = "over" => stage'[Run(p)] = "over"
    BY <1>1, OthersRest, Stages DEF Acquires
  <2> QED  BY <1>1, <1>3, <2>1, OneLeaves, QuietCell
<1> SUFFICES ASSUME lock' # lock PROVE Cell!Next \/ (Lease' = Lease /\ Over' = Over)
  BY <1>1, <1>3
<1>4. Over' = Over
  <2>1. stage' = stage
    BY DEF Command, Mkdir, WriteOwner, WriteExpires, Chmod, CatExpiry, Stat, Compare, MvStale, MkdirAgain,
           RenewOwner, RenewExpiry, RenewTmp, RenewMv, ReleaseOwner, ReleaseExpiry, ReleaseRm, ReleaseRmdir, Fails
  <2> QED  BY <2>1 DEF Over
<1>5. CASE Made(p)
  <2>1. Lease.owner = Nobody
    <3>1. lock = Missing
      BY <1>5 DEF Made, Exists
    <3> QED  BY <3>1 DEF Missing, Lease
  <2>2. Lease' = [owner |-> Run(p), exp |-> now + TTL]
    BY <1>5 DEF Made, Lease
  <2>3. Cell!Grant(Run(p))
    BY <1>1, <1>2, <1>4, <2>1, <2>2 DEF Cell!Grant, Lease, Over
  <2> QED  BY <1>1, <2>3 DEF Cell!Next
<1>6. CASE Rewritten(p)
  <2>1. lock'.maker = lock.maker /\ lock.maker \in Clients /\ lock.claim \in Nat /\ lock.claim =< now + TTL
    BY <1>1, <1>2, <1>6, DirectoryType DEF Rewritten, DirectoryInv
  <2>2. CASE lock'.claim = lock.claim
    BY <1>4, <2>1, <2>2 DEF Lease
  <2>3. CASE lock'.claim = now + TTL
    <3>1. Lease' = [owner |-> lock.maker, exp |-> now + TTL] /\ now + TTL \in lock.claim .. Cell!Horizon
      BY <1>2, <2>1, <2>3 DEF Lease
    <3>2. Cell!Prolong(lock.maker)
      BY <1>1, <1>4, <3>1 DEF Cell!Prolong, Lease, Over
    <3> QED  BY <2>1, <3>2 DEF Cell!Next
  <2> QED  BY <1>6, <2>2, <2>3 DEF Rewritten, OwnerWritten, ExpiryWritten, TmpWritten, Renewal, Emptied
<1>7. CASE Removed(p)
  <2>1. Lease' = Cell!Free
    BY <1>7 DEF Removed, Missing, Lease, Cell!Free
  <2>2. CASE Step(p) = "mv"
    <3>1. lock.claim =< now /\ lock.claim =< now + 0
      <4>1. Stale /\ Exists
        BY <1>7, <2>2, Writers DEF Removed
      <4>2. lock.claim =< Effective /\ Effective =< now
        BY <4>1, <1>1 DEF Stale, DirectoryInv
      <4> QED  BY <1>1, <4>1, <4>2, DirectoryType
    <3>2. Cell!Evict
      BY <1>1, <1>4, <2>1, <3>1 DEF Cell!Evict, Cell!Free, Lease, Over
    <3> QED  BY <3>2 DEF Cell!Next
  <2>3. CASE Step(p) = "release: rmdir"
    <3>1. lock.maker = Run(p) /\ Run(p) \in Over
      BY <1>1, <2>3, Writers DEF Over
    <3>2. Cell!GiveUp(Run(p))
      BY <1>1, <1>4, <2>1, <3>1 DEF Cell!GiveUp, Cell!Free, Lease, Over
    <3> QED  BY <1>1, <3>2 DEF Cell!Next
  <2> QED  BY <1>7, <2>2, <2>3 DEF Removed
<1> QED  BY <1>1, <1>5, <1>6, <1>7

LEMMA CellStep ==
  ASSUME ScriptsInv, TypeOK', [Next]_vars, ~ swapped'
  PROVE  [Cell!Next]_<<Lease, Over, now>>
<1>1. CASE Tick
  BY <1>1 DEF Tick, Lease, Over, Cell!Next, Cell!Tick
<1>2. ASSUME NEW c \in Clients, SendAcquire(c) \/ SendRenew(c) \/ SendRelease(c)
      PROVE  [Cell!Next]_<<Lease, Over, now>>
  <2>1. /\ TypeOK /\ lock' = lock /\ now' = now /\ (stage' = stage \/ Enter(c, "over"))
    BY <1>2 DEF ScriptsInv, SendAcquire, SendRenew, SendRelease, Send
  <2>2. Over' = Over \/ Over' = Over \cup {c}
    BY <2>1, OneLeaves DEF Enter, TypeOK
  <2> QED  BY <2>1, <2>2, QuietCell
<1>3. ASSUME NEW p \in Procs, Broken(p) PROVE [Cell!Next]_<<Lease, Over, now>>
  <2>1. TypeOK /\ lock' = lock /\ now' = now /\ Run(p) \in Clients /\ Disappoint(Run(p))
    BY <1>3, Processes DEF ScriptsInv, Broken
  <2>2. Over' = Over \/ Over' = Over \cup {Run(p)}
    BY <2>1, OneLeaves DEF Disappoint, Enter, TypeOK
  <2> QED  BY <2>1, <2>2, QuietCell
<1>4. CASE UNCHANGED vars
  BY <1>4 DEF vars, Lease, Over
<1> QED  BY <1>1, <1>2, <1>3, <1>4, CommandCell DEF Next

(* Until a rename moves a directory that its script has not read, the       *)
(* directory, taken as the lease of the run that made it, changes only as   *)
(* LeaseCell allows: no interleaving of the commands, and no script that    *)
(* stops half way, takes a live lease away, cuts it short or gives it to    *)
(* somebody else (lock.go:274-331).                                         *)
THEOREM CellImplemented == Spec => CellUntilSwapped
<1>1. Init => Cell!Init
  BY DEF Init, Missing, Lease, Over, Cell!Init, Cell!Free
<1>2. (~ swapped => ScriptsInv) /\ [Next]_vars => [swapped' \/ Cell!Next]_<<Lease, Over, now>>
  <2> SUFFICES ASSUME ~ swapped => ScriptsInv, [Next]_vars, ~ swapped'
               PROVE  [Cell!Next]_<<Lease, Over, now>>
    OBVIOUS
  <2>1. ScriptsInv /\ TypeOK'
    BY StaysSwapped, TypeInductive DEF ScriptsInv
  <2> QED  BY <2>1, CellStep
<1> QED  BY <1>1, <1>2, ScriptsHold, PTL DEF Spec, CellUntilSwapped
=============================================================================
