# AlpineForm: specifications, model checking and proofs

AlpineForm (`apf`) reads HCL files that describe Alpine Linux hosts, compares them
over SSH with what is on the hosts, and applies the difference.  This directory
holds TLA+ specifications of its core, the TLC configurations that check them, and
proofs checked by TLAPS.  Paths are relative to the repository.

## 1. Inventory

| Component | State | Operations | Hard about it |
|---|---|---|---|
| **Host lease** `internal/core/backend/lock.go` | lock directory on the host (`owner`, `expires_at`); in each client the lease, its expiry, its token | `Acquire`, `Renew`, `Release`, `WithLease`, the shell scripts behind them | several clients; scripts interleave command by command; lost replies, late scripts, crashed holders, skewed clocks |
| **State store** `backend/state_store.go`, `internal/core/state` | `state.json` on the host | `ReadHostState`, `WriteHostState`, migration, digests | written once per apply; a lost answer |
| **Transport** `backend/ssh.go`, `backend/remote.go` | none | `Run` a script over SSH | cancellation leaves the remote script running |
| **Engine** `internal/core/engine/engine.go` | preview, locked plan, state in memory | `Plan`, `Check`, `Apply`, `planHost`, `executeHost` | stale previews, failure between two steps, retries, several hosts at once |
| **Step order** `engine/dependency_order.go` | none | `orderStepsForExecution` | removals turn dependencies round; inferred edges can then close cycles |
| **Component moves** `engine/moved.go`, `internal/core/state/moved.go` | component identities and resources in the state | `ResolveMoves`, `prepareHostPlan` | chains of moves, identity of what was moved, partial moves |
| **Resource graph** `internal/core/graph` | none (pure) | `Compile`, `Schedule`, validation | acyclicity, ownership collisions |
| **nftables transaction** `internal/core/provider/nftables.go` | live table, persistent file, marker, arming file, recovery record, transaction directory | prepare, watchdog, confirm, outcome scripts and the client that drives them | a detached watchdog races a confirmation, client may die or lose its connection, reboot |
| **Component artifacts and archives** `provider/component.go`, `component_archive.go` | source cache, installed file, certificate, trust marker and trust store, archive tree, kept under a checksum or under a fixed name | inspect, apply, delete, migrate a prior identity, clean it up | scripts of many commands that fail, are signalled or are killed between any two; identities that change while applies break off |
| **Component source builds** `provider/component_build.go`, `graph/component_build.go` | inputs, packages and their marker, workspace, output cache, install marker; a running build's directory, lock, supervisor | stage, install dependencies, prepare, run commands, verify, clean up, install, delete | scripts and supervisors outlive the client; the next run meets them; ownership must be clear after any kill |
| **Native resources** `provider/file.go`, `directory.go`, `user.go`, `group.go`, `membership.go`, `apk_*.go`, `package.go`, `service.go`, `kernel.go`, `system.go`, `docker_*.go`, `authorized_key.go`, `component_script.go` | the object on the host | inspect, apply, delete | idempotence, replacement in place, what an inspection does not see |
| **Configuration front end** `internal/core/parser`, `merge`, `ir` | none (pure) | parse, evaluate, merge profiles, validate, compile | sizeable but sequential |
| **Plan rendering** `internal/core/plan` | none | text, JSON, HTML | redaction |
| **Command line** `cmd/apf` | output mutex, host registry shared by concurrent hosts | `plan`, `apply`, `check`, ... | the mutex is held during a prompt while leases must be renewed |
| **Installer** `scripts/install.sh` | installed binary | download, verify, replace | failure in the middle |

How they interact: `Apply` makes a preview of all hosts, has it reviewed, then for
each host, several at once, takes the host's lease, builds the configuration again,
plans again, has the locked plan reviewed, and executes it step by step through the
provider; the state file is written when the last step has succeeded.  The lease's
renewals run beside all that and cancel it when one fails.

What makes each part correct: one holder of a lease, a stale lease that always
yields (lease); an order that never fails for no reason and never removes what is
still needed (step order); convergence after any failure, no removal that was not
authorized, no plain secrets once a value is sensitive (engine); no loss of the
previous rule set and one agreed outcome (nftables transaction); no resource lost or
owned twice (moves, graph); scripts whose debris no later script refuses or mistakes,
and that leave what was declared once they succeed (artifacts, native resources,
builds); one build at a time in a workspace, which whoever comes later can find and
stop (builds).

The hazards are listed at their lines in `PROJECT.json`.

## 2. Modules

| Module | Models | Checked by |
|---|---|---|
| `LeaseCell` | what a lock directory promises: granted when free or expired, only extended, vacated by its owner | refined by the two below |
| `LeaseLock` | `WithLease` of several runs, scripts atomic, calls asynchronous | `MCLeaseLock`, proofs in `LeaseLock_proofs` |
| `LeaseScripts` | the three lock scripts command by command | `MCLeaseScripts`, proofs in `LeaseScripts_proofs` |
| `StepOrder` | `orderStepsForExecution` | `MCStepOrder`, proofs in `StepOrder_proofs` |
| `HostApply` | `planHost`, `planNode`, `executeHost` over any number of applies | `MCHostApply`, proofs in `HostApply_proofs` |
| `ApplyRuns` | `Apply`, `runBounded` and the reviews of `cmd/apf`: several runs, several hosts at once | `MCApplyRuns`, proofs in `ApplyRuns_proofs` |
| `ComponentMoves` | `moved` blocks, `ResolveMoves`, `prepareHostPlan` and the early write of moves, over any number of applies | `MCComponentMoves`, proofs in `ComponentMoves_proofs` |
| `Shell` | what a command of a script does to a host, completely or half, when it runs and when it refuses | through the next four |
| `ArtifactScripts` | the scripts and inspections of sources, files, CA certificates and archives | through `HostResources` |
| `NativeScripts` | those of Alpine's own resources, of Docker and of change scripts | through `HostResources` |
| `BuildScripts` | those of a source build, step by step | through `HostResources` |
| `HostResources` | plans, applies, retries and removals of one component, its scripts command by command | `MCHostResources` |
| `BuildRuntime` | the processes of a running build, their lock, their records and their recovery | `MCBuildRuntime`, proofs in `BuildRuntime_proofs` |
| `NftablesTransaction` | the prepare, watchdog, confirm and outcome scripts and the provider that drives them | `MCNftablesTransaction`, proofs in `NftablesTransaction_proofs` |

How they compose: `LeaseLock` and `LeaseScripts` implement the same `LeaseCell`, one
with the network and one with the shell in detail.  `LeaseLock` runs a script as one
step, which `LeaseScripts` justifies until a rename hits a directory that its script has
not read (section 3).  `ApplyRuns` takes from `LeaseLock`
that a lease is exclusive until it runs out, and from `HostApply` that a plan is a set
of differences; it adds what several hosts share.  `HostApply` executes the steps in
any order with the properties proved of `StepOrder`; `ComponentMoves` looks at the same
plan and execution from the side of the names, which `HostApply` keeps fixed.
`HostResources` has the same plans and executions for one component, with every script
that they run in detail; `HostApply` has several resources that any step may break off
between.  `NftablesTransaction` is the inside of one `Provider.Apply`, and
`BuildRuntime` that of the command scripts of a build, which `BuildScripts` takes as
one command.

### LeaseLock

A run is one call of `WithLease` (its token is its name).  `cell` is the lock
directory; `phase`, `deadline`, `expiry`, `alarm` are where the run is, `Acquire`'s
deadline, `Lease.expiresAt`, and the timer it waits for (poll, then ticker); `call` is
the remote command it waits for, with the time its caller put into it.  A call is
issued, executed and answered in separate steps with anything in between; it may fail
before or after the script ran, and then the script is an `orphans` member that may
still run at any later time.  A time is a client's clock: `now + Skew[c]`.

### LeaseScripts

Each script has a program counter with one step per command that reads or writes the
lock directory.  Commands work on the path, so that after a takeover they hit the new
owner's directory, as the shell does.  A script can fail or be killed between any two
commands.  `maker`, `claim`, `judges` and `swapped` are history variables for the
properties: who made a directory and what it was granted, which acquire scripts have
read the one that is there, and whether a rename has ever moved one that its script had
not read.  Any number of scripts contend, for a fresh directory and for a stale one.
Two assumptions: an owner sends its renewal or release before its own lease has run out
(`InTime`), and a script ends within the second in which it was sent (`Tick`).
Without them the scripts have no protection: their checks and their writes are
different commands, and a renewal that is late, or that is left behind by the release
of its own run, writes into the directory of the next owner.

### StepOrder

One action per part of `orderStepsForExecution`: the pass that adds authored edges
(turned round when the dependency is removed, and for orphans), the pass that adds each
step's inferred edges unless a path already leads the other way, and one action per
step emitted.  `Init` is every input the callers can pass: dependencies that follow
the schedule for current resources, any recorded acyclic dependencies for orphans.
The order of `Schedule` is the numbering of the steps.

### HostApply

`Plan` evaluates `planNode` for every declared resource and the orphan actions for the
rest.  `MigrateProtectedPrior(r)` moves the object of a reclassified resource whose name
was made of its plain values, on the host and before the state is touched (`Migrating`:
component sources and certificates); it may fail, and the apply with it
(`MigrationFails`).  `StatePrewrite` then scrubs the reclassified records; `Step(r)` runs
one step in any order that `StepOrder`'s proved properties allow; `Finish` writes the
state.  The order of two resources is that of `AuthoredEdges` and `InferredEdges` in
`StepOrder`: an authored path, turned round where its dependency is removed, goes before
the edge that a trigger infers, so that an operation which names a removed trigger runs
before the removal (`Leads`).  `StepFails`, `WriteFails` and `Crash` break an attempt
off, before or after the effect.  `Edit` and
`Drift` change configuration and host at any time.  Contents are two versions; a
digest is the declaration without its sensitive flag, which is what
`corestate.Digest(node.Desired)` distinguishes here.  What counts of a trigger is the
action that it was given in the plan (`plannedActions`), so a change goes on through
what it triggers: `Changing` is the smallest set with the resources that change by
themselves and all that have a trigger in it.  An install that verifies a protected
content by itself is not told apart from others (`engine.go:399`), nor is the index
update that a change of its dependencies causes (`engine.go:390`).

### ApplyRuns

`config` is the configuration, which `Edit` changes at any time; `contents` is what is
on the machines; `stray` are the scripts of steps whose local ssh was killed, which may
have their effect at any later time, whoever has the lease by then (`ssh.go:126-140`);
`lease` has each machine's owner and whether its renewal is due;
`run` has a run's preview, host registry, output mutex and context; `worker` is where
the work of a run on a host is.  `Send`, `Return` and `Fails` are `runBounded`; from
`Acquire` to `Release` the actions follow the function that `Apply` passes to it, one
per remote call or wait: lease, build, plan, the review's mutex (`Ask`) and answer,
the look at the context (`Begin`), the steps, the state write, the release.  `Renew`
runs beside them.  Time is counted in `Tick`s of a lease: the first makes its renewal
due, the second lets it run out.  `Tick` waits for what the code does promptly
(a renewal that can run, a cancelled call, a release), so that only delays of the
program's own making show; what calls late against the TTL do is `LeaseLock`'s
subject.  With `Debug` every call first takes the output mutex (`Quiet`).

### ComponentMoves

`config` has the mounted components and the `moved` blocks, as the parser and
`compileMovedSpecs` accept them (`Configs`); every plan takes any configuration.
`state` is the state file, with the digest of each tracked resource and the physical
names; `objects` is what the host has under each physical name; `work`, `pending`,
`origin`, `todo` are a plan in memory.  `Start` is the beginning of `ResolveMoves`,
`ResolveMove(f)` its loop (one move, from the beginning of each chain), `Bind` the rest
of `prepareHostPlan` and of `planHost`: prune, refuse conflicting physical names,
rebase the digests, compare.  `Begin`, `Prewrite`, `Step`, `Finish` are `executeHost`;
`BreakOff` ends it anywhere, with or without the effect of what was being called.
An orphan is removed or forgotten as its record says (`Disposal`): a recorded version
that asks for `destroy` or `delete` is a step that removes the object, any other
(`Forgettable`) one that drops the record and leaves the object (`engine.go:428-442`,
`773-775`).
`ResolveMoves` runs twice in the code, first for the names and then for the digests;
the second result is compared with the first, so one pass stands for both.  A digest
has the logical name of the component in it, as those of change scripts and artifacts
have: that is what a rename must rebase.  `Init` is a host after an apply of some first
configuration, or an empty one.

### Shell, ArtifactScripts, NativeScripts, BuildScripts

A host is a function from cells to contents: a file, a directory, an account, a
package, what a daemon runs with, and the variables of the running script.  A content
is a version (a checksum, a uid, a value), `None`, `Part` (unfinished), `Junk` (of
somebody else) or `Yes`.  `Shell` says of each command what it does (`Effect`), what it
may leave when it fails half way (`Remains`), when it runs (`Runs`) and when it
refuses (`Refuses`: a check of the script fails, a download does not have its
checksum).  A script is its commands, those of its trap, the command from which the
trap is armed, and whether the trap of a signal returns to the script: most traps of
this code do not call `exit`, so that after HUP, INT or TERM the shell removes the
temporary file and goes on.  The other three modules hold a script per script of the
provider, in the order of its commands, an operator `Seen...` per inspection, and a
`...Resource` that says what the provider calls when.  What is below a random name
(`mktemp`) is out of reach once its script is over; a prior tree among it stays in the
cell `Left`.

### HostResources

`component` is the kind of component that this behaviour is about, `config` its
declaration, `host` the cells, `record` the state file, `draft` the state in memory,
`todo` what the apply has left to do: scripts to run, results to verify, records to
make or to forget, the state to write.  `Begin` inspects and plans (`planHost`,
`planNode`, `planProtectedPrior`, `changedRemoteTriggers`), `StartScript` to
`ScriptEnds` run a script command by command, `Verify`, `Record`, `Forget`, `Write`,
`Finish` are the rest of `executeHost`.  `CommandFails`, `Signal`, `Kill` and
`BreakOff` are the failures; after a `BreakOff` the script goes on alone, and the next
apply starts when it is over.  `Edit` changes presence, version and protection (nothing
protected, a secret URL, a secret checksum) at rest, `Drift` removes or overwrites one
thing.  A component kind is a set of nodes in their order; Docker is declared absent
where others are taken out of the configuration, because only `ensure = "absent"`
removes it.

### BuildRuntime

`lock` is who has the locked descriptor, which a supervisor inherits until it closes
it; `dir`, `intent`, `pending`, `marker`, `ready`, `secrets`, `program` are the runtime
directory and its files, each named after the script that wrote it; `supervisor` and
`pc` are the processes.  A command script takes the lock, makes the directory, starts
its supervisor, waits for its marker, confirms it and gives the lock back; the
supervisor runs the sandbox.  A cleaner captures the directory, waits for the lock,
compares, stops, removes.  `Teardown` is shared by cleaners and by the trap of a
command script.  Scripts of runs that were given up are simply more scripts.  Pids,
generations and inodes are never used twice: what the code compares to tell a reused
pid is taken to work.

### NftablesTransaction

One step per command, or per few commands of which other scripts can only see one.
`rules`, `persistence`, `marker`, `armed` are the live table and the three files;
`recovery` is the record below `/var/lib`; `dir` are the transaction directories with
status, action lock and its owner's process id, confirmation and abort files;
`prepare`, `watchdog`, `confirm` are the scripts' program counters; `client` is the
provider's `applyNftables`.  The watchdog is a process of its own: a lost connection
or a dead client does not stop it, a reboot does.  A transaction has up to `Attempts`
confirm scripts, each started when the connection of the one before was lost
(`confirmOrRecoverNftablesTransaction`, `nftables.go:1124-1183`); the earlier ones go
on.  `shared` is a history variable: whether an action lock was ever taken from an
owner that was still at work.  The timing that is assumed: the
countdown (at least 10 seconds) is longer than an activation; a confirm script has
written its process id within the 5 seconds the watchdog waits for the action lock.
One table is modelled, whose applies follow each other (the host lease orders them).

## 3. Runs

| Run | Question | Bounds |
|---|---|---|
| `lease_async` | Exclusive, final, refining and yielding, whatever the network does? | 2 runs, TTL 3, skew 1, delays longer than the run of the clock (6) |
| `lease_timely` | When calls are prompt, is the work itself exclusive, and does `Acquire` end? | 2 runs, TTL 7, delay at most 1, clock to 9; fair |
| `scripts_takeover` | Bounded debris whatever contends; one winner and refinement until a rename hits a directory that its script has not read? | 3 runs, all contending at any time; TTL 2, clock to 5 |
| `scripts_race` | Has a stale takeover one winner? **No.** | 3 runs; TTL 1, clock to 2 |
| `order_plans` | Is every plan ordered as its dependencies ask? | all inputs with 3 resources and 2 orphans |
| `host_retries` | Does applying again always converge, safely, migrations of protected values and removed triggers included? | 3 resources, of them one that migrates and one operation; 2 edits, 1 drift, 1 failure |
| `apply_hosts` | Do concurrent hosts and runs change only what they lease and what was reviewed, and return, although scripts that were cut off go on? | 2 runs (2 workers, 1 worker), 2 hosts, 1 item, 1 edit that removes one host and reverts the other; fair |
| `moves_renames` | Do moves over several applies keep records, names and objects together? | 3 names, 2 mounted, 2 templates of 1 and 2 keys, one of 2 versions forgettable; 3 applies after a first one, 1 broken off |
| `nft_faults` | Does every activation end as recorded, whatever is killed, fails or is retried, and does no late watchdog run over a newer one, as long as no lock is taken twice? | 1 transaction with 2 confirm attempts and 1 reboot, or 2 transactions with an attempt for the first; 1 version or none, lost connections, failing watchdog commands; fair |
| `nft_retry` | Does the action lock serialize a retried confirmation against the rollback? **No.** | 1 transaction, 2 confirm attempts, lost connections |
| `host_resources` | Whatever broke off before, does an apply that succeeds leave what is declared, and does an undisturbed retry succeed, without debris and without losing what was there? | 14 kinds of components, 2 versions, 2 edits, 2 faults, 1 drift, 3 of them together |
| `build_runtime` | Is a running build always found, is what one script knows never taken for another's, is nothing disturbed, and does everything end? | 2 command scripts, 1 cleaner, 2 kills or signals; fair |

The bounds are enough for the cases the properties are about: TTL 3 with interval 1 has
two renewals inside one lease; a clock to 6 lets a lease be granted, expire, be taken
over and expire again; `lease_timely` satisfies `4 * MaxDelay + Interval + MaxSkew <
TTL`, under which a failed renewal is noticed and the work drained before the lease runs
out (with `MaxDelay` 2 TLC finds the overlap). Three resources in a plan are enough for
an authored path through a third one against an inferred edge, and two orphans for an
orphan that depends on another.  Two hosts and two runs give a host that fails under
another's review and a machine wanted by two runs; one item lets a step be done with its
state write still to come.  Four configurations one after the other over three names are
enough to pass a name on, to swap two names over the third, to come back to a first
name, and to retry in between. Two confirm attempts are what it takes to lose a lock: the trap of one removes it, the
next takes it; a rule set and its absence tell what was restored from what was there.
The constraint `Bounded` of `nft_faults` cuts only starts, attempts and reboots, on which
no fairness rests.  With two attempts for the first of two transactions TLC found the
invariants to hold too (22,189,286 states, too many for the liveness property).
In `host_resources` three troubles are two broken applies around
an edit, or an edit, a broken apply and a second edit: enough for debris of one script
to meet another and for an identity to be left behind by a broken migration; a third
fault would have to meet debris that two left together.  The components do not share
cells, so one at a time loses nothing.  In `build_runtime` two command scripts are a
given-up build and its retry and the cleaner stands for everything that stops either;
with two cleaners the invariants hold as well (1,984,187 states, too many for the
liveness properties).

`CHECK_DEADLOCK FALSE` is set because the modelled activities end: runs finish, the
function returns, the bounds on clock, edits and failures are used up.  Not in
`host_retries`: there a plan can always be made again, and a plan whose steps wait for
each other would be a deadlock.

### Fairness

- `lease_timely`: time passes, a script that is waited for runs or fails, its answer is
  handled, timers fire and cancelled work returns.  The Go runtime schedules
  goroutines and timers, and `Run` returns when its ssh process does or its context is
  cancelled.  Nothing forces a run to start, to end its work, to fail or to crash.
- `apply_hosts`: one weak fairness for each run's own next step, whichever that is:
  calls return and the operator answers or closes the input.  Nobody has to start a run,
  nothing makes time pass or a renewal succeed.
- `build_runtime`: a script or a supervisor that has been started goes on to its next
  command.  Nobody has to start one, and a build may run for ever; that the lock is free
  of it is what `LockFreed` is about.
- `nft_faults`: the scripts on the host go on to their next command or fail; nothing is
  asked of the provider, which may be gone.  A reboot may stop everything, so
  `EventuallySettled` claims nothing after one.  It is about the last activation, as long
  as the record is its own (see the late watchdog below).

### Disagreements found

By runs of their own:

- `scripts_race`.  `docs/locking.md:11-12` promises one winner of a stale takeover.
  Between reading the expiry and the rename (`lock.go:298-303`) another contender may
  have taken over; the rename then removes the new owner's live directory, and both are
  told that they have the lock.  `scripts_takeover` shows that nothing else breaks it.
- `nft_retry`.  `docs/nftables.md:165` says the action lock serializes confirmation
  against rollback, but `finish_confirmation` (`nftables.go:626`) removes the lock
  whoever holds it.  A confirm script that does not get the lock of an earlier attempt,
  which goes on after its connection was lost, removes it in its trap; the watchdog
  takes it, and both write.  From then on neither the record, the report nor the end of
  a transaction can be relied on: without their `~ shared` TLC finds `RollbackRestores`,
  `ConfirmedHolds`, `ReportHolds` and `EventuallySettled` violated too.
  `nft_faults` shows that nothing else breaks them.

By variations of the runs:

- `docs/docker.md:180-183` promises of a failed apply that "inspection will show any
  successfully changed files or runtime state and the next apply will converge them".
  A daemon configuration that is replaced before the apply breaks off is only adopted by
  the retry (`engine.go:614`); nothing triggers the service (`402-405`, `526-535`), whose
  inspection finds it running, and the daemon keeps the old configuration.  Without the
  exception of `Daemon` in `Unseen` TLC finds `CompletedHolds` of `host_resources`
  violated after one edit and one kill.
- `docs/development.md:120-122` says that what is executed is the plan that was reviewed
  under the lease.  Cancelling a command kills only the local ssh (`ssh.go:126-140`,
  `docs/ssh.md:22`): the script of a step may have its effect after the lease was given
  back, between the next run's reviewed plan and its steps.  `ReviewedHolds` and
  `CompletedIsApplied` speak of what no such script has touched (`crossed`); without
  that exception TLC finds both violated in `apply_hosts`.
- `docs/locking.md:15` says that the client renews at one third of the TTL.  With
  `--debug` a renewal first logs under the mutex that a review holds while it waits for
  the operator (`online.go:57-58`, `488-501`).  With `Debug = TRUE` in
  `MCApplyRuns_hosts.cfg` TLC finds `OnLeasedMachine` violated.
- `docs/openrc.md:96-97` promises one restart after a managed file changed.  If the
  apply breaks off between file and service, the restart is lost as Docker's is
  (`engine.go:526-535`); so are a change script's run and a module's or sysctl's
  trigger.
- The locked rebuild of one host replaces the registry that names the machine of all
  others (`online.go:368`): with configurations that move a host to another machine
  `OnLeasedMachine` does not hold.
- `docs/operations-runbook.md:107` says of a failed apply to run it again.  A component
  that declares no resources, but is mounted, loses its physical name with its last
  record (`pruneComponentIdentities`, `moved.go:307-315`); if its own name has been
  passed on to another component, the same configuration is then refused for the names
  it was accepted with (`moved.go:255-268`).  With an empty template beside that of one
  key in `MCComponentMoves` TLC finds `RetryAccepted` violated.

From reading, and stated in the modules as the exceptions of their properties:

- A renewal or release that reaches the host after its lease has been replaced damages
  the new owner's (`lock.go:312-319`).
- The outcome script reports a directory whose status is still `rollback_complete` as
  `rollback_failed` (`nftables.go:797`).  And a watchdog whose directory a later
  transaction has reaped records its own outcome (`nftables.go:540`) over that of the
  later one; `EventuallySettled` exempts it.
- `Outdated`: the keys of a user are inspected before the apply that gives the user
  another uid, and keep the old owner until the next apply (`authorized_key.go`).
- `Obstructed`: Docker that is declared absent while its daemon is not running and a
  compose file is there cannot be removed, because `docker compose down` fails
  (`docker_compose.go:126-170`).  A removal cut off between `compose.yaml` and `.env`
  leaves `.env`, which no later inspection looks for.
- `Blocked`: a source or certificate that becomes protected, when something already lies
  at the protected place, is refused by the migration at every later apply
  (`component.go:272-368`, `960-1053`).
- `Unseen`: what no inspection looks at may be behind after a failure: the trust store
  after an interrupted refresh (`docs/components.md:226-228`), a user's home, the apk
  index, an earlier runlevel, the containers, and every write-only content: a failed
  apply of a second version followed by an edit back to the first is a plan without
  changes over the second one (`engine.go:608-624`).
- `docs/components.md:219`: "failures leave the previous installation intact".  Both
  archive scripts unpack beside it first and rename it away only then, but there are
  three holes (`PriorKept` exempts just these): a signal to the script of a public
  archive between its `mv` and `replaced=1` (`component_archive.go:171-174`), after
  which the trap does not know of the prior tree; that trap failing to put it back and
  then removing it (`93-101`); and a protected archive whose `rm -rf` of the prior tree
  fails half way (`500-501`), after which its trap takes the new tree away and puts the
  torn one back (`382-395`).
- `Barren`: the clean-up of a build removes a protected input, so the next plan creates
  it again and triggers the workspace, while the verified output satisfies the
  dependencies; prepare then refuses the workspace, at every later apply of the
  unchanged configuration (`graph/component_build.go:121`, `component_build.go:983-986`;
  `docs/operations-runbook.md:107-108`).  A public input does so once, when its cache
  has been removed.
- `Stranded`: a build whose destruction is killed between output cache and marker, or
  whose failed upgrade left an install marker of the second version beside a record of
  the first, is refused by every later removal.
- `Overlooked` and `Stuck`: a script killed between fork and `setsid` of its supervisor
  leaves a supervisor that cleaners do not find; it may publish over a later
  generation's marker, or wait for its confirmation for ever.  A script signalled there
  waits in its trap, with the lock, for a supervisor that waits for the script, against
  `docs/source-build-security.md:159` ("bounded cleanup").
- A command script that is refused because the runtime directory already exists does
  not know its generation yet, and its trap stops the build of another one
  (`component_build.go:1092-1107`), against `docs/source-build-security.md:89-93`.

## 4. Proofs

`LeaseLock_proofs` proves for every set of runs, TTL, skew and delay:

- `Typing`: `TypeOK`;
- `Exclusivity`: `Exclusive`.  The inductive invariant is `LeaseInv`: what a run was
  told of a lease is *covered* by the directory or has expired on every clock
  (`CoveredInv`); which calls exist in which phase (`CallInv`); which scripts a run can
  have left behind (`OrphanInv`, `OneExtension`); a renewal on its way never asks for
  less than the directory says (`GrowingInv`).  `Exclusive` alone is not inductive: a
  left-behind acquisition could give the lock to a run that is already gone;
- `ReleaseIsFinal`: `ReleasedIsGone`, from `GoneInv`;
- `Refinement`: `Spec => ImplementsCell`, one lemma per action;
- `ExclusiveWork`: `WorkExclusive`, for all constants with
  `Fits == 4 * MaxDelay + Interval + MaxSkew < TTL`.  The invariant `TimesInv` bounds,
  in every phase, how old the last answer can be on which a client still works: the
  timer, the call that is late and its answer, the cancellation and the last command
  each take their delay (`Prompt`), and what a client counts on was covered when it
  asked (`InTime`).  The inequality is what has to be assumed of the deployment:
  `Renew` has no timeout of its own (`lock.go:127-156`), so with slower calls the
  overlap happens.  TLC agreed with `TimesInv` on the instance of `lease_timely`
  (750,381 states), where the inequality holds by one;
- `StaleLeases`: `StaleLeaseYields`.  From the moment that all others are over,
  `Outlasts` is kept: their lock directory, and the lease that a script of theirs would
  still make, run out by the deadline of the run that waits, and an attempt that was
  answered busy was made before it.  A run that is over takes no step (`EndedRests`); at
  the start `GrowingInv` and `OrphanInv` bound what is left by a TTL and the skew, the
  hypothesis on the timeout (`StartOutlasts`); the attempt at the deadline meets a lease
  that has run out, so it is not refused (`StepOutlasts`).  With a timeout of a TTL alone
  a clock that is behind is refused at its deadline.

`LeaseScripts_proofs` proves for any number of runs, any TTL and clock bound:

- `Typing`: `TypeOK`; `DebrisBounded`: `BoundedDebris`, from `DirectoryInv`, however many
  scripts contend;

and, until a rename has moved a directory that its script has not read (`swapped`),

- `WinnerAlone`: `OneWinnerUntilSwapped`; `CellImplemented`: `CellUntilSwapped`.
  `ScriptsInv` says what each script knows of the directory between two commands: that
  one which has made it still has it (`MakingInv`); that what one has judged stale is
  stale until it has moved it (`JudgingInv`); that a renewal past its checks meets no
  stale directory, whosever it is by now (`RenewingInv`); that a run which was told of a
  lease, or releases it, is its maker and its owner (`HoldingInv`, `EndingInv`).  The
  proof goes over the writes, not the commands: `Commands` sorts the seventeen commands
  into what they leave in the directory (`Made`, `Rewritten`, `Removed`) and where they
  lead, and one lemma for each part of the invariant says why the writes of the others
  leave it true.  `DirectoryStep` is their common ground: no write makes a directory
  stale.  The refinement needs the same invariant: a rename evicts a lease that has run
  out, because the directory says at least what was granted (`DirectoryInv`), and a
  release removes the directory of a run that has left.

The condition is the disagreement of section 3: with two contenders `OneWinner` is
violated, and the theorems say that this rename is the only way.  `judges` is what the
invariant needs for it: a script that has judged the directory that is there now knows
it to be stale until it has gone.  TLC agreed with `ScriptsInv` on the instance of
`scripts_takeover` (774,200 states).

`StepOrder_proofs` proves for any number of resources and orphans:

- `OrderTyping`; `NoCycle`: there is a level function which every edge climbs, so a
  smallest waiting step is always ready and the error branch is unreachable;
- `AuthoredOrderHolds`, `InferredKeptHolds` from the invariant `OrderInv`: all edges
  climb (`Climbing`), the passes that are over have added what they must (`Built`), and
  the emitted sequence honours the edges (`Honoured`).

`ComponentMoves_proofs` proves for any names, templates and number of applies:

- `Typing`: `TypeOK`; `RecordsMatching`: `RecordsMatch`; `Sparing`: `RemovalsSpare`.
  The inductive invariant is `MovesInv`: records match physical names in the file and in
  memory, a plan's removals are of records outside its configuration and its other
  steps of resources inside it (`StepsInv`), and the names that were found free of
  conflict stay so while records come and go (`NamesInv`).  `RemovalsSpare` needs all
  three: two different components with one physical name would be a conflict, the same
  component would be in the configuration;
- `CompletedApply`: `CompletedHolds`, from `SettledInv`: a resource for which the plan
  has no step left is on the host as declared and recorded so (`Remaining`), whichever
  steps are over, and nothing else may be said after a rename than before it
  (`Settled`);
- `KeepingRecords`: the action property `NothingForgotten`: a record leaves the file only
  when its object is gone, or when what it records asks for no removal and the resource
  is declared no more, under its name or under the one that the moves give it.  It is
  about the file, which is replaced by what an apply has in memory: `HeldInv` says that
  each record of the file that is not in memory is of one of these (`Held`), through
  moves, which carry records to other names, and through steps, which drop them;
- `IdentitiesValid`: the check of the identities in every state that is read
  (`validateComponentIdentityMappings`), which `Start` leaves out, never fails.

And where every component declares something (`Declaring`; section 3 says what happens
where one does not):

- `Retrying`: `RetryAccepted`.  A refusal depends on the order of moves, on the physical
  names after them and on what is tracked; `Acceptable` says of a state and a
  configuration that no move will be refused and no name will conflict, without taking a
  single move.  `CarryInv`: whatever moves are taken, each tracked component is what one
  component of the file was, under its physical name, and ends where that one ends
  (`Carried`), so planning does not change what is acceptable (`CarriedAcceptable`), and
  once all moves are taken a conflict of names is all that can be wrong
  (`ConflictRefuses`).  `AcceptInv`: the file is acceptable to the configuration that was
  executed last, through every write of a broken apply.  The chains behind it are the
  least closed sets of `Downstream` (`DownstreamLeast`): those that the compilation keeps
  lead to a mounted component and start from none (`CompiledChains`);
- `Renaming`: `RenameChangesNothing`.  After a successful apply the file tracks exactly
  what is mounted, a configuration of renamings is acceptable to it because its
  successors are all different, and by `Carried` each digest is the recorded one under
  the name of the origin, which is what `Rebased` replaces (`RenamingSteps`).

TLC agreed with `SettledInv`, `HeldInv`, `CarryInv` and `AcceptInv` on `moves_renames`
(1,261,722 states).

`BuildRuntime_proofs` proves for any number of command scripts, cleaners and kills:

- `Typing`: `TypeOK`; `Locking`: `LockInv`, that whoever is between taking the lock and
  giving it back has it, and no second script does, while a supervisor may have it too;
- `Sparing`: `SparesOthers`.  Whose directory it is only changes in the hands of the
  script that makes it (`MakesWithLock`), and by `LockInv` nobody tears down then.

- `Recording`: `RunningRecorded`; `Undisturbed`: `WorkUndisturbed`.  Neither is
  inductive: a marker can be written over by a supervisor of an earlier build, and what
  a cleaner did not find may still come up.  The invariant `RecordsInv` says of each
  script what it finds as it left it (`Scripted`), of each supervisor that it has its
  directory unless its script was killed (`Attached`), of each record that its
  supervisor wrote it (`Written`), and of whoever is past the stop that nothing runs or
  will, but what was overlooked (`Clear`, `Tears`).  The delicate case is a supervisor of
  which nothing shows yet: its script still has the lock, or was refused because of the
  marker of another, and then every cleaner is refused too.  TLC agreed with
  `RecordsInv` on 3 command scripts, 1 cleaner and 4 kills (11,581,793 states) before it
  was proved.

`NftablesTransaction_proofs` proves for any number of transactions, rule sets, faults
and reboots, and any number of confirm attempts: `Typing`, and, until an action lock has
been taken twice (`shared`),

- `Exclusion`: `Exclusive`; `Serialization`: `SerializedOnce`.  Neither is inductive: who
  may write depends on how far the other scripts are.  `ScriptsInv` says of each
  transaction where the watchdog can be when the prepare script is somewhere
  (`Launched`), what the directory then shows (`Prepared`), what the provider has asked
  for (`Asked`), that a confirm script past its look at the live table has the lock
  (`Confirms`), and that a watchdog that does not wait any more has it (`Decides`); and
  of two transactions that the later one finds no directory in its way (`Follows`).
- `RolledBackForGood`: `RollbackRestores`; `ConfirmedForGood`: `ConfirmedHolds`;
  `ReportedForGood`: `ReportHolds`.  `HostInv` follows the latest transaction through
  the stages of a rollback (`RolledBack`) and of a confirmation (`Confirmed`): what is
  already written at each stage, and that whoever has committed is not undone.

The condition is there because the code does not have these properties without it: the
trap of a second confirm script removes the lock of the first or of the watchdog
(`nftables.go:626`, section 3, run `nft_retry`).  It is a history variable and not a
bound on the attempts: a transaction may make any number of them, and what the theorems
say of it ends with the taking of a lock whose owner is still at work.  `Exclusive` needs
it as much as the others.  TLC agreed with both invariants, under the same condition, on
one transaction of two rule sets (783,207 states) and on `nft_faults`.

`ApplyRuns_proofs` proves for any runs, hosts, machines, items, configurations and
degree of parallelism:

- `Typing`: `RunsInv`; `LeasedMachine`: `OnLeasedMachine`; `Reviewed`: `ReviewedHolds`;
  `Completed`: `CompletedIsApplied`.  `RunsInv` ties four things together: work is done
  on the hosts of the preview (`Sent`); work that goes on has the lease, and so has the
  execution that a cancelled context has yet to reach (`Backed`); and as long as it has,
  the machine is as it was when it was planned but for the steps that are done
  (`AsPlanned`).  A change by one run leaves the plans of all others alone because they
  would have to own the same lease
  (`OwnMachine`, `ChangeElsewhere`); time passes only when work that goes on has renewed
  its lease or been stopped (`TickStep`).  A script that was cut off is a `stray`: what it
  writes after a plan was made is `crossed` for that plan, on the machine it writes to and
  nowhere else, and only such items are given up (section 3).  TLC agreed with `RunsInv`
  on `apply_hosts` (366,393 states).

The hypotheses are the two disagreements of section 3: `~ Debug`, since with it a review
keeps the renewals from being sent, and `Steady`, that an edit does not move a host to
another machine while a run is under way, since the registry is one for all hosts
(`online.go:368`).  Without either TLC finds `OnLeasedMachine` violated.

`HostApply_proofs` proves for any resources, dependencies, triggers, declarations and
numbers of edits, drifts and failures:

- `Typing`: `HostInv`; `FixedPoint`: `RepeatIsNoOp`.  That a repeated apply has nothing
  to do is about two plans with a whole execution in between.  `ApplyInv` carries it
  from the first to the second: while nothing disturbs the apply, a resource whose step
  is over, or had nothing to do, is on the host and in memory as it is declared
  (`AsDeclared`), an adopted one is on the host already, and what is not declared has
  its removal still to come; at the end `Settled` is true of the file, and by
  `SettledIsNoOp` no resource changes and so nothing is triggered;
- `Tracking`: `DependenciesTracked`.  In memory a record may name what is only recorded
  by a later step, except that of a resource which is not declared any more: nobody
  writes that again, and `reconcileStateDependencies` passes it by (`DependsInv`);
- `ScrubbedFirst`: `PlainRecordsScrubbed`; `Migrated`: the action property
  `ScrubbedAfterMigration`.  `ScrubInv`: a record that is plain in the file and scrubbed
  in memory is one that the plan reclassifies and that waits for the prewrite, which is
  written only when nothing of it is left under a plain name;
- `Following`: the action property `OperationFollowsChange`.  `FollowInv`: an operation
  that has run in this apply has seen the content of each trigger that the plan
  changes, and no such trigger is still to run, but those which the authored order puts
  after it because something is torn down (`Leads`).  It needs of the plan that a change
  is never lost on the way (`PlanInv`), which is lemma `Reaching`: `Changing` is a fixed
  point.  It says nothing of a trigger that changed in an apply which then failed: the
  retry adopts it (section 3).

The lemmas `ForgottenRecords`, `ReconciledRecords` and `RecordedEffect` say once what
the operations on the state do to which record.  TLC agreed with `HostInv` on
`host_retries` (1,499,843 states).

They rest on the assumptions of the modules (`LeaseAssumption`, `ScriptsAssumption`,
`StepOrderAssumption`, `MovesAssumption`, `NoneIsNoDigest`, `RuntimeAssumption`,
`NftablesAssumption`, `ApplyAssumption`, `HostAssumption`) and on the library's facts
about natural numbers, finite sets and well-founded orders.

The type invariants, `ReleasedIsGone`, `RecordsMatch` and `SerializedOnce` are proved and
not checked by a run any more.

Only model-checked: liveness (`AcquireSettles`, `Returns`, `EventuallySettled`,
`LockFreed`, `OrphansEnd`; the proof system has no rule for fairness that applies
here) and everything about `HostResources`.  There a script is data, a sequence of
commands that an interpreter goes through, and a plan is a concatenation over the nodes
(`FlattenSeq`, `SelectSeq`): what they do is known by induction over these sequences, a
rule the provers cannot instantiate.

## 5. Not modelled, and the plan

Left out for good: rendering, parsing and evaluation of HCL, hashing, SSH itself.
Inside the modelled parts: validation of the lock's options, the text of a cycle
report, dependencies of moved resources and the legacy names in each kind of resource,
the review of the preview and `Check` of `Apply`; of the native resources the
`ensure = "absent"` variants other than Docker's, the authoritative repositories file
and the destroy script of an orphaned Compose project (`docker_compose.go:202-228`); of
builds a workspace that moves to another root, the legacy dependency marker, the
extraction of inputs and the limits of the sandbox.  `HostResources` lets the next
apply start only when an orphaned script is over; two scripts of one component at once
are modelled for builds (`BuildRuntime`) and nftables only.

Next, the most important first:

1. `GraphSchedule`: acyclicity and order of `Schedule`, ownership collisions.
2. `StateStore`: the write script with its temporary file and rename; migration.
3. Orphaned scripts of `HostResources` beside those of the retry.
4. `Installer`: replacement of the binary with failures in between.
5. The merge order of profiles and hosts, as functions against a reference.
