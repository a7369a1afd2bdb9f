----------------------------- MODULE ApplyRuns -----------------------------
(***************************************************************************)
(* Engine.Apply (internal/core/engine/engine.go) with the reviews of       *)
(* cmd/apf/online.go: several runs of `apf apply`, each with several hosts *)
(* at once.  A run previews all hosts; then for each host it takes the     *)
(* lease, builds the configuration again, plans again, has the locked plan *)
(* reviewed and executes it.  The first error cancels the other hosts.     *)
(*                                                                         *)
(* LeaseLock and HostApply have the details of a lease and of a plan.      *)
(* Here a lease falls due, is renewed or runs out, and a plan is a set of  *)
(* items that differ from the desired version.  A command that is cut off  *)
(* loses its local ssh only (ssh.go:126-140): its script may go on and     *)
(* have its effect at any time, under whoever's lease.  Calls are taken to *)
(* be prompt against the TTL unless the program itself delays them.        *)
(***************************************************************************)
EXTENDS Integers, FiniteSets

CONSTANTS Runs, Hosts,     \* hosts are numbers: the order of the configuration
          Machines, Items, Versions,
          Old,             \* what is on the machines before the first run
          Configs,         \* each maps its hosts to a machine and a version
          Parallel,        \* --parallel of each run
          Debug,           \* --debug
          Nobody,
          MaxEdits         \* bound

ASSUME ApplyAssumption ==
  /\ Hosts \subseteq Nat \ {0}
  /\ \A c \in Configs : DOMAIN c \subseteq Hosts
                          /\ c \in [DOMAIN c -> [machine : Machines, version : Versions]]
  /\ Parallel \in [Runs -> Nat \ {0}] /\ Debug \in BOOLEAN /\ MaxEdits \in Nat
  /\ Nobody \notin Runs \X Hosts /\ Old \in Versions

VARIABLES config,    \* the configuration files
          contents,  \* what is on the machines
          stray,     \* the scripts that were cut off and go on
          lease,     \* of each machine: its owner, and whether a renewal is due
          run,       \* the runs: phase, previewed machines, registry, output mutex, context
          worker,    \* the work of each run on each host
          edits

vars == <<config, contents, stray, lease, run, worker, edits>>

Scripts == [machine : Machines, item : Items, version : Versions]
Free   == [owner |-> Nobody, due |-> FALSE]
NoOne  == 0    \* the mutex: unlocked
NoRun  == [pc |-> "idle", preview |-> <<>>, registry |-> <<>>, mutex |-> NoOne, cancelled |-> FALSE]
Unsent == [pc |-> "unsent", want |-> Nobody, seen |-> Nobody, todo |-> {},
           crossed |-> {},  \* history: what a stray script wrote last, of all since the plan
           lost |-> FALSE]
Machine(c) == [h \in DOMAIN c |-> c[h].machine]

Init ==
  /\ config \in Configs
  /\ contents = [m \in Machines |-> [i \in Items |-> Old]]
  /\ stray = {}
  /\ lease = [m \in Machines |-> Free]
  /\ run = [r \in Runs |-> NoRun]
  /\ worker = [r \in Runs |-> [h \in Hosts |-> Unsent]]
  /\ edits = 0

-----------------------------------------------------------------------------
Is(r, h, pc)   == worker[r][h].pc = pc
Goto(r, h, pc) == worker' = [worker EXCEPT ![r][h].pc = pc]

\* The work is over but for the lease.
Breaks(r, h) == worker' = [worker EXCEPT ![r][h] = [Unsent EXCEPT !.pc = "failing"]]

Ended          == {"unsent", "done", "failed"}
Active(r)      == {h \in Hosts : worker[r][h].pc \notin Ended}

\* With --debug every remote command is logged before and after it runs, under
\* the mutex that a review holds while it waits for its answer.
Quiet(r) == Debug => run[r].mutex = NoOne

\* Mutant: a failed renewal does not cancel the context of the work.
CancelledByOthers(r, h) == run[r].cancelled

\* The lease context of the work is done: another host failed, or a renewal.
Cancelled(r, h) == run[r].cancelled \/ worker[r][h].lost

\* The first error cancels the run.
Fails(r, h) ==
  /\ worker' = [worker EXCEPT ![r][h] = [Unsent EXCEPT !.pc = "failed"]]
  /\ run' = [run EXCEPT ![r].cancelled = TRUE]

-----------------------------------------------------------------------------
(* The run: preview, dispatch and return.                                  *)

\* A preview that is refused does nothing.
Preview(r) ==
  /\ run[r].pc = "idle"
  /\ run' = [run EXCEPT ![r] = [@ EXCEPT !.pc = "apply", !.preview = Machine(config),
                                         !.registry = Machine(config)]]
  /\ UNCHANGED <<config, contents, stray, lease, worker, edits>>

Pending(r) == {h \in DOMAIN run[r].preview : Is(r, h, "unsent")}

\* runBounded hands the hosts out in their order; a host may still be handed out
\* when the run has just been cancelled.
Send(r) ==
  /\ run[r].pc = "apply"
  /\ Cardinality(Active(r)) < Parallel[r]
  /\ \E h \in Pending(r) : (\A g \in Pending(r) : h =< g) /\ Goto(r, h, "acquire")
  /\ UNCHANGED <<config, contents, stray, lease, run, edits>>

Return(r) ==
  /\ run[r].pc = "apply"
  /\ Active(r) = {}
  /\ Pending(r) = {} \/ run[r].cancelled
  /\ run' = [run EXCEPT ![r] = [NoRun EXCEPT !.pc = "over"]]
  /\ worker' = [worker EXCEPT ![r] = [h \in Hosts |-> Unsent]]
  /\ UNCHANGED <<config, contents, stray, lease, edits>>

-----------------------------------------------------------------------------
(* The work on one host.                                                   *)

At(r, h) == run[r].preview[h]

Acquire(r, h) ==
  /\ Is(r, h, "acquire") /\ Quiet(r)
  /\ ~ run[r].cancelled
  /\ lease[At(r, h)] = Free
  /\ lease' = [lease EXCEPT ![At(r, h)] = [owner |-> <<r, h>>, due |-> FALSE]]
  /\ Goto(r, h, "build")
  /\ UNCHANGED <<config, contents, stray, run, edits>>

\* Cancelled, no answer, or the lock timeout is over.
AcquireFails(r, h) ==
  /\ Is(r, h, "acquire") /\ Quiet(r)
  /\ Fails(r, h)
  /\ UNCHANGED <<config, contents, stray, lease, edits>>

SameHosts(r)       == DOMAIN config = DOMAIN run[r].preview
SameIdentity(r, h) == config[h].machine = At(r, h)

\* The build replaces the registry of the whole run.  The identities are compared
\* after the plan, which only reads.
Build(r, h) ==
  /\ Is(r, h, "build") /\ Quiet(r) /\ ~ Cancelled(r, h)
  /\ run' = [run EXCEPT ![r].registry = Machine(config)]
  /\ worker' = [worker EXCEPT ![r][h] =
       IF SameHosts(r) /\ SameIdentity(r, h)
       THEN [@ EXCEPT !.pc = "plan", !.want = config[h].version]
       ELSE [Unsent EXCEPT !.pc = "failing"]]
  /\ UNCHANGED <<config, contents, stray, lease, edits>>

\* The provider finds the machine of a host in the registry.
Reaches(r, h, m) == h \in DOMAIN run[r].registry /\ run[r].registry[h] = m

Plan(r, h) ==
  /\ Is(r, h, "plan") /\ Quiet(r) /\ ~ Cancelled(r, h)
  /\ \E m \in Machines :
       /\ Reaches(r, h, m)
       /\ worker' = [worker EXCEPT ![r][h].pc = "review", ![r][h].seen = contents[m],
            ![r][h].todo = {i \in Items : contents[m][i] # worker[r][h].want}]
  /\ UNCHANGED <<config, contents, stray, lease, run, edits>>

\* The review takes the mutex, whatever has become of its context.
Ask(r, h) ==
  /\ Is(r, h, "review")
  /\ run[r].mutex = NoOne
  /\ run' = [run EXCEPT ![r].mutex = h]
  /\ Goto(r, h, "prompt")
  /\ UNCHANGED <<config, contents, stray, lease, edits>>

\* Mutant: a refusal returns with the mutex locked.
AnswerLocked(r, h) ==
  /\ Is(r, h, "prompt")
  /\ \/ run' = [run EXCEPT ![r].mutex = NoOne] /\ Goto(r, h, "approved")
     \/ UNCHANGED run /\ Breaks(r, h)
  /\ UNCHANGED <<config, contents, stray, lease, edits>>

Answer(r, h) ==
  /\ Is(r, h, "prompt")
  /\ run' = [run EXCEPT ![r].mutex = NoOne]
  /\ Goto(r, h, "approved") \/ Breaks(r, h)
  /\ UNCHANGED <<config, contents, stray, lease, edits>>

Begin(r, h) ==
  /\ Is(r, h, "approved")
  /\ IF Cancelled(r, h) THEN Breaks(r, h) ELSE Goto(r, h, "execute")
  /\ UNCHANGED <<config, contents, stray, lease, run, edits>>

Executing(r, h) == Is(r, h, "execute") /\ worker[r][h].todo # {}

\* A step is done: its effect is on the machine that the registry names.
Change(r, h, i) ==
  \E m \in Machines : Reaches(r, h, m)
                        /\ contents' = [contents EXCEPT ![m][i] = worker[r][h].want]

\* The ssh of a step is gone, and its script goes on.
Strays(r, h, i) ==
  \E m \in Machines :
    /\ Reaches(r, h, m)
    /\ stray' = stray \cup {[machine |-> m, item |-> i, version |-> worker[r][h].want]}

Step(r, h) ==
  /\ Executing(r, h) /\ Quiet(r) /\ ~ Cancelled(r, h)
  /\ \E i \in worker[r][h].todo :
       /\ Change(r, h, i)
       /\ worker' = [worker EXCEPT ![r][h].todo = @ \ {i}, ![r][h].crossed = @ \ {i}]
  /\ UNCHANGED <<config, stray, lease, run, edits>>

\* Mutant: the failure of a step is not looked at.
StepFailsUnseen(r, h) ==
  /\ Executing(r, h) /\ Quiet(r)
  /\ \E i \in worker[r][h].todo : worker' = [worker EXCEPT ![r][h].todo = @ \ {i}]
  /\ UNCHANGED <<config, contents, stray, lease, run, edits>>

\* A step fails or is cut off, with its effect, without, or with its effect to come.
StepFails(r, h) ==
  /\ Executing(r, h) /\ Quiet(r)
  /\ \/ UNCHANGED <<contents, stray>>
     \/ \E i \in worker[r][h].todo : Change(r, h, i) /\ UNCHANGED stray
     \/ \E i \in worker[r][h].todo : Strays(r, h, i) /\ UNCHANGED contents
  /\ Breaks(r, h)
  /\ UNCHANGED <<config, lease, run, edits>>

\* There is a plan.
Planned(r, h) == worker[r][h].pc \in {"review", "prompt", "approved", "execute", "completed"}

\* A script that was cut off has its effect, whoever has the lease by now.
Lands(s) ==
  /\ s \in stray
  /\ contents' = [contents EXCEPT ![s.machine][s.item] = s.version]
  /\ worker' = [r \in Runs |-> [h \in Hosts |->
       IF Planned(r, h) /\ At(r, h) = s.machine
       THEN [worker[r][h] EXCEPT !.crossed = @ \cup {s.item}] ELSE worker[r][h]]]
  /\ stray' = stray \ {s}
  /\ UNCHANGED <<config, lease, run, edits>>

\* The state is written and the host counted as completed.
Complete(r, h) ==
  /\ Is(r, h, "execute") /\ worker[r][h].todo = {}
  /\ Quiet(r) /\ ~ Cancelled(r, h)
  /\ Goto(r, h, "completed")
  /\ UNCHANGED <<config, contents, stray, lease, run, edits>>

\* Reading, planning or the state write fails, or is cancelled.
CallFails(r, h) ==
  /\ \/ Is(r, h, "build") \/ Is(r, h, "plan")
     \/ Is(r, h, "execute") /\ worker[r][h].todo = {}
  /\ Quiet(r)
  /\ Breaks(r, h)
  /\ UNCHANGED <<config, contents, stray, lease, run, edits>>

Owns(r, h) == lease[At(r, h)].owner = <<r, h>>

\* WithLease: the lease is given back with a context of its own; the error of the
\* work, of the renewals or of the release fails the host.  A lease that is not
\* there any more counts as released, one that is found expired or replaced does not.
Release(r, h) ==
  /\ Is(r, h, "completed") \/ Is(r, h, "failing")
  /\ Quiet(r)
  /\ \E released \in BOOLEAN :
       /\ lease' = IF released /\ Owns(r, h) THEN [lease EXCEPT ![At(r, h)] = Free] ELSE lease
       /\ IF Is(r, h, "completed") /\ ~ worker[r][h].lost
               /\ released /\ lease[At(r, h)].owner \in {<<r, h>>, Nobody}
          THEN /\ worker' = [worker EXCEPT ![r][h] = [Unsent EXCEPT !.pc = "done"]]
               /\ UNCHANGED run
          ELSE Fails(r, h)
  /\ UNCHANGED <<config, contents, stray, edits>>

-----------------------------------------------------------------------------
(* Renewals.                                                               *)

Leased(r, h) == worker[r][h].pc \in {"build", "plan", "review", "prompt", "approved", "execute"}

\* The loop ends with the first failure.
Renews(r, h) == Leased(r, h) /\ Quiet(r) /\ ~ Cancelled(r, h) /\ ~ worker[r][h].lost

\* It succeeds when the lease is still there, and else cancels the work.  (One that
\* waited for the mutex compares with the time at which it was begun; it is taken to
\* fail once the lease has run out.)
Renew(r, h) ==
  /\ Renews(r, h)
  /\ \/ /\ Owns(r, h) /\ lease[At(r, h)].due
        /\ lease' = [lease EXCEPT ![At(r, h)].due = FALSE]
        /\ UNCHANGED worker
     \/ /\ Owns(r, h) => lease[At(r, h)].due
        /\ worker' = [worker EXCEPT ![r][h].lost = TRUE]
        /\ UNCHANGED lease
  /\ UNCHANGED <<config, contents, stray, run, edits>>

\* Cancelled calls return, and what is over is released, before a TTL has passed.
Drains(r, h) ==
  /\ Quiet(r)
  /\ \/ Is(r, h, "completed") \/ Is(r, h, "failing")
     \/ Cancelled(r, h) /\ Leased(r, h) /\ ~ Is(r, h, "review") /\ ~ Is(r, h, "prompt")

\* A lease that was due for renewal has run out.
Lapsed(m) == lease[m].due

Tick ==
  /\ \A r \in Runs, h \in Hosts : ~ Drains(r, h)
  /\ \A r \in Runs, h \in Hosts : Renews(r, h) /\ Owns(r, h) => ~ lease[At(r, h)].due
  /\ \E m \in Machines : lease[m] # Free
  /\ lease' = [m \in Machines |-> IF lease[m] = Free \/ Lapsed(m) THEN Free
                                  ELSE [lease[m] EXCEPT !.due = TRUE]]
  /\ UNCHANGED <<config, contents, stray, run, worker, edits>>

Edit ==
  /\ edits < MaxEdits
  /\ config' \in Configs \ {config}
  /\ edits' = edits + 1
  /\ UNCHANGED <<contents, stray, lease, run, worker>>

Work(r, h) ==
  \/ Acquire(r, h) \/ AcquireFails(r, h) \/ Build(r, h) \/ Plan(r, h) \/ Ask(r, h)
  \/ Answer(r, h) \/ Begin(r, h) \/ Step(r, h) \/ StepFails(r, h) \/ Complete(r, h)
  \/ CallFails(r, h) \/ Release(r, h)

Control(r) == Send(r) \/ Return(r)

Next ==
  \/ \E r \in Runs : Preview(r) \/ Control(r) \/ \E h \in Hosts : Work(r, h) \/ Renew(r, h)
  \/ \E s \in Scripts : Lands(s)
  \/ Tick
  \/ Edit

Spec == Init /\ [][Next]_vars

\* Calls return, timers fire, and the operator answers; nobody has to start a run.
Fairness ==
  \A r \in Runs : WF_vars(Control(r) \/ \E h \in Hosts : Work(r, h))

FairSpec == Spec /\ Fairness

-----------------------------------------------------------------------------
(* Properties.                                                             *)

\* A run changes a machine only while it has the lease of that machine
\* (engine.go:239-268, docs/locking.md:5); what goes on of a command that was cut
\* off does so without (docs/ssh.md:22).
OnLeasedMachine ==
  \A r \in Runs, h \in Hosts, m \in Machines :
    Executing(r, h) /\ ~ Cancelled(r, h) /\ Reaches(r, h, m) => lease[m].owner = <<r, h>>

\* What the operator approved is what the machine still needs when a step of it
\* is executed: nothing but a script that was cut off has changed it since the plan
\* was made (docs/development.md:120-122, ssh.go:126-140).
ReviewedHolds ==
  \A r \in Runs, h \in Hosts :
    Executing(r, h) /\ ~ Cancelled(r, h) =>
      \A i \in worker[r][h].todo \ worker[r][h].crossed :
        contents[At(r, h)][i] = worker[r][h].seen[i]

\* A host that is counted as completed is as it was asked for, until its lease is
\* given back, in all that no script that was cut off has written over since
\* (engine.go:271-273).
CompletedIsApplied ==
  \A r \in Runs, h \in Hosts :
    Is(r, h, "completed") /\ ~ Cancelled(r, h) =>
      \A i \in Items \ worker[r][h].crossed : contents[At(r, h)][i] = worker[r][h].want

\* An apply returns, whatever fails, is refused or cancelled (engine.go:966-1012,
\* online.go:488-501).
Returns == \A r \in Runs : run[r].pc = "apply" ~> run[r].pc = "over"
=============================================================================
